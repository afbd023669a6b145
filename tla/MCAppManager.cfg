CONSTANTS
    Users = {u1}
    Service = svc
    MaxGen = 2
    Kinds = {"docker", "binary", "generic"}
    Keeps = {0, 1}
    MaxCommands <- Budget MaxKills = 1 MaxCuts = 1 MaxFailures = 1
SPECIFICATION FairSpec
INVARIANTS RecordNamesRunning DockerRunsActive CurrentWhole
PROPERTY Recovers
CHECK_DEADLOCK FALSE

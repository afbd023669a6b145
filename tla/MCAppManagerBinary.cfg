CONSTANTS
    Users = {u1}
    Service = svc
    MaxGen = 2
    Kinds = {"binary"}
    Keeps = {1}
    MaxCommands <- Budget MaxKills = 1 MaxCuts = 0 MaxFailures = 0
SPECIFICATION Spec
INVARIANT ActiveAlone
CHECK_DEADLOCK FALSE

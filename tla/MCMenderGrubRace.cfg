CONSTANTS
    p1 = p1  p2 = p2
    Procs = {p1, p2}
    MaxInterruptions = 0
SPECIFICATION Spec
INVARIANTS CommitMakesDefault

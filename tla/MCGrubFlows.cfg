CONSTANTS
    p1 = p1  p2 = p2  only = only
    Procs = {p1, p2}
    Partial = Partial  NoFile = NoFile
    MaxInterruptions = 1
SPECIFICATION MCSpec
SYMMETRY Symmetry
INVARIANTS DeviceBoots DefaultAgrees OneCopyUnlocked CommitMakesDefault
PROPERTIES CommitIsAtomic UpdateIsAtomic
\* Racing commits and a power failure can leave no copy that verifies: the device stops.
CHECK_DEADLOCK FALSE

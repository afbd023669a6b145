CONSTANTS
    g1 = g1  g2 = g2  p1 = p1  b1 = b1
    Guards = {g1, g2}
    Procs = {p1}
    Owner <- OneOwner
    Nobody = Nobody
    Align = 4
    Ebr = 1
    GptBlocks = 2
    MaxBlock = 90
    Devices <- MCDevices
    Names = {b1}
    NoFlag = NoFlag
    Delete = Delete
    MaxCuts = 2
SPECIFICATION BootSpec
INVARIANTS BootTypeOK WritableWhileHeld ReadOnlyWhenIdle WipeIsComplete BootstrapPrepares TableSound
PROPERTIES StateLostOnlyIfAsked BackupsKept WipeFinishes

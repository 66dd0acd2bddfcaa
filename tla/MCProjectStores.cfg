SPECIFICATION StoresSpec
CONSTANTS
    Procs = {chat, server}
    Keys = {k1, k2, k3}
    MaxEntries = 2
    KeptEntries = 1
    MaxRecords = 3
    MaxFaults = 1
INVARIANTS
    StoresTypeOK
    MetricsLossIsBounded
    MemoryLossHasAReason
SYMMETRY Symmetry
CHECK_DEADLOCK FALSE

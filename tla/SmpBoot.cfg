\* Three harts, four msip slots (one without a hart).
SPECIFICATION BootSpec
CONSTANTS
    NumHarts = 3
    MaxHarts = 4
    Rounds = 1
    DataWords = 1
    BssWords = 2
    LockWord = 1
    RamContent = {0, 1, 7}
INVARIANTS
    BootTypeOK
    MemoryReadyBeforeMain
    NobodyLeavesEarly
PROPERTIES
    WholeLines
    ImplementsGate

CONSTANTS
    Word = 7
    LastHigh = 1
    Second = 2
    Flash = 1
    WdogCmp = 4
    CountFrom = 3
    CountSize = 8
SPECIFICATION Spec
INVARIANTS
    NextInterruptOnTime
    GreenWhileFeeding

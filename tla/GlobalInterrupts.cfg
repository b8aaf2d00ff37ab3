CONSTANTS
    Sources = {1, 2, 3, 8}
    NumSources = 8
    MaxPriority = 7
    SW_1 = 1
    SW_2 = 2
    PWM_0 = 3
    DebouncePeriods = 2
SPECIFICATION FairSpec
INVARIANTS
    OnlyUsedEnabled
    ClaimHasAHandler
    NoSwitchWhileDebouncing
PROPERTY DebounceEnds

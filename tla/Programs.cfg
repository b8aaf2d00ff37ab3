CONSTANTS
    Word = 3
    LastHigh = 2
    Locals = {"button", "switch"}
    EcallAt = 3
    MaxCount = 5
    Sources = {1, 2, 8}
    NumSources = 8
    MaxPriority = 2
    Buttons = {1, 2}
    Depth = 2
    RingSize = 4
    Numbers = 5
    MaxLen = 2
    Full = 6
    CounterMax = 15
    Number_Of_Runs = 3
    IntMod = 65536
    Widths = {2, 10}
    Unsigneds = {0, 91, 32768, 65533}
    Unit = 16
    Significand = 32768
    Doubles = {8, 17, 24, 196, 1315}
    MtimeWord = 8
    McycleWord = 900
    CyclesPerTick = 4
    mtime_freq = 60
    MeasuredTicks = 4
    Poll = 2
    Delay = 5
SPECIFICATION ProgramsSpec
INVARIANTS
    OnlyTheWindowLosesACall
    StoresFit
    ReadsInOrder
    RunsAsCommented
    PrintsAsC
    MeasuredRight
PROPERTIES
    ReadsAreCurrent
    ClaimsAsAsked
    EveryPressAnnounced
    LocalsComeBack
    ClearedWhenLit
    PressesAreServed
    WheelGoesRound

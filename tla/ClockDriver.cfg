CONSTANTS
    MaxTrim = 2
    MaxFreq = 3
    Trims = {0, 1, 2}
    DefaultTrim = 1
    FinalDivs = {1, 2}
    Parts = 3
    Settle = 9
SPECIFICATION ClockSpec
INVARIANTS
    ClockNeverStops
    SearchUsesItsTrim
    RightTrim
PROPERTIES
    SettledWhenSelected
    CallsReturn

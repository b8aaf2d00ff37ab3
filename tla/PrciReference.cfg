CONSTANTS
    Trims = {0, 1}
    DefaultTrim = 1
    FinalDivs = {1, 2}
    Parts = 3
    Settle = 9
SPECIFICATION Spec
INVARIANT PllUndisturbedInUse

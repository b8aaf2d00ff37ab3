CONSTANTS
    Values = {zero, one}
    Zero = zero
    Magic = magic
    zero = zero
    one = one
    magic = magic
    PwmMax = 2
    Window = 2
    MaxTaps = 4
SPECIFICATION FairSpec
INVARIANTS
    TypeOK
    SafeModeIffAsked
    UserKeepsItsValue
    GPIOAsAtReset
PROPERTY EveryBootEnds

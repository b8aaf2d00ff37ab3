CONSTANTS
    Word = 7
    LastHigh = 0
    Second = 2
    Flash = 1
    WdogCmp = 4
    CountFrom = 3
    CountSize = 8
SPECIFICATION Spec
PROPERTY BlueBlinksWithHandler

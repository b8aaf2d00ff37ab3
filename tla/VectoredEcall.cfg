CONSTANTS
    EcallAt = 3
    MaxCount = 5
SPECIFICATION VecSpec
INVARIANT EcallEveryTen

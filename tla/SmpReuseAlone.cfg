\* smp_pause and smp_resume used twice by one program.
SPECIFICATION BarrierSpec
CONSTANTS
    NumHarts = 3
    MaxHarts = 4
    Rounds = 2
INVARIANT AloneMeansAlone

\* Every converter and record type on a line of text.
CONSTANT LongBytes = 2
CONSTANT Cases <- MCCases
CONSTANT Noise <- MCNoise
SPECIFICATION Spec
INVARIANTS
    TypeOK
    ReadsBack
    DamageDetected
    CheckValues
    ClientsTold

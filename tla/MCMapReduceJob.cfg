CONSTANTS
    Words <- MCWords
    NL = 0
    MaxText = 4
    MaxReduces = 2
    MaxMaps = 2
    MaxRuns = 2
SPECIFICATION Spec
INVARIANTS
    MrTypeOK
    LocalCountsExact

SPECIFICATION JobSpec
CONSTANTS
    Trackers = {t1, t2}
    NumMaps = 2
    NumReduces = 2
    SubmitFirst = TRUE
    MaxFaults = 1
SYMMETRY Symmetry
INVARIANTS JobTypeOK AssignedOnce ReduceAfterMaps LocationsStored DoneMeansReported OutputComplete
CHECK_DEADLOCK FALSE

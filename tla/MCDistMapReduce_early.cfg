SPECIFICATION JobFairSpec
CONSTANTS
    Trackers = {t1}
    NumMaps = 2
    NumReduces = 2
    SubmitFirst = FALSE
    MaxFaults = 1
INVARIANT LocationsStored
PROPERTY JobEndsOrTrackerLost
CHECK_DEADLOCK FALSE

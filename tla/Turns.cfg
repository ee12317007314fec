CONSTANTS
    MaximumTurns = 3
    MaximumSteps = 2
    HistoryLimit = 3
    SpecialistTurns = 3
    SpecialistHistory = 4
    MaximumEvents = 1
SPECIFICATION FairSpec
INVARIANTS HistoryIsPaired DispatchesAreCurrent
PROPERTIES CycleEnds
CHECK_DEADLOCK FALSE

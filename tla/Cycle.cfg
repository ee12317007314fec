SPECIFICATION Spec
CHECK_DEADLOCK FALSE
CONSTANTS
    Slots = {1, 2}
    MaximumTurns = 2
    MaximumQueue = 1
    MaximumChanges = 1
    MaximumRestarts = 1
    MayReset = TRUE
    MayRecover = TRUE
    MayExhaust = TRUE
INVARIANTS LockHeldByExecution
PROPERTIES KeepsCyclesExclusive ChangesAreDecided ProposedWorkIsResumed

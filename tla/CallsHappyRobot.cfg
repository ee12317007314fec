\* HappyRobot: callbacks, permissions during the call, the fallback and a restart.
SPECIFICATION Spec
CHECK_DEADLOCK FALSE
CONSTANTS
    r1 = r1
    r2 = r2
    Adapters = {"happyrobot", "simulated"}
    Requests <- OneRequest
    Questions = {"backup-capacity"}
    CapacityQuestion = "backup-capacity"
    Conversations <- FailoverTalks
    MaximumAttempts = 2
    MaximumReports = 1
    MaximumRestarts = 1
INVARIANTS RungAgainOnlyAfterFailure CompletedStepWasAnswered
PROPERTIES FinishedStaysFinished

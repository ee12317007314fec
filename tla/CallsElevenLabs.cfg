\* ElevenLabs and the simulated mode: two requests, a restart, late reports.
SPECIFICATION FairSpec
CHECK_DEADLOCK FALSE
CONSTANTS
    r1 = r1
    r2 = r2
    Adapters = {"elevenlabs", "simulated"}
    Requests <- TwoRequests
    Questions = {"backup-capacity"}
    CapacityQuestion = "backup-capacity"
    Conversations <- FailoverTalks
    MaximumAttempts = 2
    MaximumReports = 2
    MaximumRestarts = 1
INVARIANTS FailoverWasAuthorized
PROPERTIES AcceptedCallsEnd

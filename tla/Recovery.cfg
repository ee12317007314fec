CONSTANTS
    Modes = {"simulated", "http"}
    Cost = 2
    Total = 3
    MaximumStepAttempts = 2
    HttpAttempts = 1
    MaximumCallbacks = 1
    MaximumCrashes = 1
    MaximumOthers = 1
SPECIFICATION FairSpec
INVARIANTS UnitsAreHeld HealthyWasRecovered
PROPERTIES ToolCallsEnd
CHECK_DEADLOCK FALSE

SPECIFICATION Spec
CHECK_DEADLOCK FALSE
CONSTANTS
    Steps = {s1}
    Operators = {o1}
    Ticks = {}
    Callbacks = {c1}
    Bodies = {}
    Cycle = cycle
    MaximumAttempts = 2
    MaximumVersions = 2
    MaximumRestarts = 1
INVARIANTS RecoveryIsAuthorized CompletedMeansSucceeded
PROPERTIES RetriesOnlyFailures

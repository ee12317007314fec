SPECIFICATION Spec
CHECK_DEADLOCK FALSE
CONSTANTS
    Steps = {s1}
    Operators = {}
    Ticks = {t1}
    Callbacks = {c1}
    Bodies = {b1}
    Cycle = cycle
    MaximumAttempts = 1
    MaximumVersions = 2
    MaximumRestarts = 1
INVARIANTS PendingIsOfLatestPlan
PROPERTIES PendingIsSettled

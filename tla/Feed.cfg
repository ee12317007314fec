\* One call, one request; the stream is cut once or the server restarts once.
SPECIFICATION Spec
CHECK_DEADLOCK FALSE
CONSTANTS
    Started = started
    Completed = completed
    Request = request
    Others = {}
    PageLimit = 1
    RecentLimit = 2
    MaximumCuts = 1
    Readings <- FiveReadings
INVARIANTS NumbersAreUnique StreamIsComplete UnchangedIsCurrent TraceFollowsEvents

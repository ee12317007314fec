CONSTANTS
    NoCaller = NoCaller
    Callers = {c1, c2, c3}
    MaximumAttempts = 3
    MaximumRetry = 3
    ReliefWindow = 4
SPECIFICATION FairClientSpec
PROPERTIES PausesAreHonoured CallsEnd

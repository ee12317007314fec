SPECIFICATION Spec
CONSTANTS
    r1 = r1
    r2 = r2
    r3 = r3
    h1 = h1
    h2 = h2
    s1 = s1
    s2 = s2
    tabA = tabA
    tabB = tabB
    NoRun = NoRun
    Runs = {r1}
    Handlers = {h1, h2}
    SessionOf <- OneSession
    KindOf <- AllLive
    Services = {s1, s2}
    Dependencies <- Chain
    ImpactHealth <- DownThenDegraded
    ReportedCapacity = 2
    Units = {1}
    LimitedCapacities = {1}
    Events = {1}
    MaximumClaims = 2
    Repairable = {r1}
SYMMETRY HandlerSymmetry
INVARIANTS CapacityWithinTotal RecoveredMeansHealthy

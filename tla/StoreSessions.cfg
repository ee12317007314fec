SPECIFICATION ReportsSpec
CONSTANTS
    r1 = r1
    r2 = r2
    r3 = r3
    h1 = h1
    h2 = h2
    c1 = c1
    c2 = c2
    s1 = s1
    tabA = tabA
    tabB = tabB
    impact = impact
    report = report
    NoRun = NoRun
    Runs = {r1, r2, r3}
    Handlers = {h1, h2}
    SessionOf <- TwoSessions
    KindOf <- OtherIsReplay
    Services = {s1}
    Dependencies <- Alone
    ImpactHealth <- AllDown
    ReportedCapacity = 1
    Units = {}
    LimitedCapacities = {0}
    Events = {impact, report}
    MaximumClaims = 0
    Repairable = {r1}
    Target = r1
    Report = report
    Confirmers = {c1, c2}
    MaximumWakes = 1
    MaximumCrashes = 1
SYMMETRY HandlerSymmetry
INVARIANTS OneActiveRun StartNeverConflicts ResetMeansInactive ReportAppliedOnce
PROPERTIES NeverReactivated OnlyReplacedByItsSession AcceptedOnActiveRun

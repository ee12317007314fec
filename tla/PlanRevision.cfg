CONSTANTS
    a = a
    b = b
    Services <- TwoServices
    Dependencies <- Chain
    Cost <- Costs
    Weight <- Impacts
    Ranking <- Ranked
    Totals = {2, 4}
    Damage <- Blackout
    MaximumPlans = 3
    MaximumBreaks = 1
    Customers <- FourCompanies
    Impact <- LowImpacts
    Minutes <- JustNow
    Answers <- Orders
SPECIFICATION Spec
INVARIANTS CompaniesInOrder ScriptedAccepted
PROPERTIES WorkIsCarried PlanCanStart AcceptedRecoveryRuns
CHECK_DEADLOCK FALSE

---------------------------- MODULE MCPlanRevision ----------------------------
(* Small instances of PlanRevision for TLC. *)
EXTENDS CustomerPriorities

CONSTANTS a, b

TwoServices == {a, b}
Chain == (a :> {}) @@ (b :> {a})
Costs == (a :> 2) @@ (b :> 1)
Impacts == (a :> 60) @@ (b :> 100)
Ranked == <<b, a>>
Blackout == {(a :> "down") @@ (b :> "down")}

\* A company of the fixed order, two of one sector, the second without services, and one more.
Company(place, company, sector, users, services) ==
    [name |-> place, company |-> company, sector |-> sector, users |-> users,
     services |-> services]
FourCompanies == << Company(1, 3, 2, 900, {a, b}), Company(2, 3, 1, 100, {a}),
                    Company(3, 0, 3, 100, {b}), Company(4, 3, 2, 20000, {}) >>
LowImpacts == (a :> "low") @@ (b :> "low")
JustNow == (a :> 0) @@ (b :> 7)

\* Every order, and an answer that gives one place to all.
Orders == Permutations(1..4) \cup {[n \in 1..4 |-> 1]}
=============================================================================

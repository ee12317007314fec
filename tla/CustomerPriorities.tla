------------------------- MODULE CustomerPriorities -------------------------
(***************************************************************************)
(* The order in which the companies are attended, in every state of the    *)
(* recovery PlanRevision goes through: the deterministic order of          *)
(* customer-priority.helper.ts and what CustomerRankingLlmService makes of *)
(* the answer of a model.  Names, companies and sectors are the place they *)
(* have in the order they are compared by.                                 *)
(***************************************************************************)
EXTENDS PlanRevision

CONSTANTS
    Customers,  \* the rows: name, company, sector, users and services of each
    Impact,     \* Impact[s]: business impact of service s
    Answers,    \* the answers of the model that are looked at
    Minutes     \* Minutes[s]: how long ago service s last changed

\* Of the companies CUSTOMER_PRIORITY_ORDER does not name.
CUSTOMER_UNLISTED == 3
CUSTOMER_SECTOR_UNRANKED == 3

CUSTOMER_IMPACT_WEIGHTS == [critical |-> 40, high |-> 25, medium |-> 12, low |-> 5]
CUSTOMER_BLOCKED_DEPENDENT_WEIGHT == 8
CUSTOMER_UNHEALTHY_SERVICE_WEIGHT == 6
CUSTOMER_USERS_PER_POINT == 500
CUSTOMER_USERS_MAXIMUM_POINTS == 30
CUSTOMER_MINUTES_PER_POINT == 5
CUSTOMER_MINUTES_MAXIMUM_POINTS == 20
CUSTOMER_RECOVERY_IN_PROGRESS_PENALTY == 10

Customer ==
    [name : Nat, company : 0..CUSTOMER_UNLISTED, sector : 0..CUSTOMER_SECTOR_UNRANKED,
     users : Nat, services : SUBSET Services]

ASSUME CustomersAssumption ==
    /\ Customers \in Seq(Customer)
    /\ \A n \in DOMAIN Customers : Customers[n].name = n
    /\ Impact \in [Services -> DOMAIN CUSTOMER_IMPACT_WEIGHTS]
    /\ Minutes \in [Services -> Nat]

-----------------------------------------------------------------------------
(* prioritizeCustomer                                                            *)

Lost(c) == {s \in c.services : health[s] \in {"down", "degraded", "recovering"}}

\* Services of any customer that depend on what this one has lost.
BlockedDependents(c) == {s \in Services \ Lost(c) : Dependencies[s] \cap Lost(c) # {}}

\* The recovery actions of the run that are under way.
InProgress(c) == Cardinality({i \in Executes(Identifiers) : i.service \in c.services /\ keys[i] = "running"})

\* The impact of the worst service, and the minutes of the oldest outage.
HighestImpact(c) == Max({0} \cup {CUSTOMER_IMPACT_WEIGHTS[Impact[s]] : s \in Lost(c)})
MinutesDown(c)   == Max({0} \cup {Minutes[s] : s \in Lost(c)})

AffectedUsers(c) ==
    IF Lost(c) = {} THEN 0
    ELSE Min({c.users \div CUSTOMER_USERS_PER_POINT, CUSTOMER_USERS_MAXIMUM_POINTS})

TimeDown(c) == Min({MinutesDown(c) \div CUSTOMER_MINUTES_PER_POINT, CUSTOMER_MINUTES_MAXIMUM_POINTS})

\* A customer whose recovery is in progress may be left with no points.
CustomerScore(c) ==
    Max({0, HighestImpact(c)
            + Cardinality(BlockedDependents(c)) * CUSTOMER_BLOCKED_DEPENDENT_WEIGHT
            + Cardinality(Lost(c)) * CUSTOMER_UNHEALTHY_SERVICE_WEIGHT
            + AffectedUsers(c) + TimeDown(c)
            - InProgress(c) * CUSTOMER_RECOVERY_IN_PROGRESS_PENALTY})

StatusOf(c) ==
    CASE Lost(c) = {} -> "healthy"
      [] InProgress(c) > 0 \/ \E s \in Lost(c) : health[s] = "recovering" -> "recovering"
      [] OTHER -> IF \E s \in Lost(c) : health[s] = "down" THEN "down" ELSE "degraded"

-----------------------------------------------------------------------------
(* prioritizeCustomers and CustomerRankingLlmService                             *)

\* A set in an order that decides between any two members: the n-th is the one that n - 1
\* of them precede.
InOrder(set, Precedes(_, _)) ==
    LET place == [c \in set |-> 1 + Cardinality({d \in set : Precedes(d, c)})]
    IN  [n \in DOMAIN Customers |-> CHOOSE c \in set : place[c] = n]

\* The first pair of values that differ decides.
Less(l, r) == \E n \in DOMAIN l : l[n] < r[n] /\ \A m \in 1..(n - 1) : l[m] = r[m]

\* What the customers are compared by.
Row(c) == <<c.company, c.sector, -CustomerScore(c), -c.users, c.name>>

Prioritized ==
    LET row == InOrder({Row(c) : c \in ToSet(Customers)}, Less)
    IN  [n \in DOMAIN Customers |-> Customers[row[n][5]]]

\* An answer gives the places of the customers it names.  parseAnswer: every customer has
\* one, and no two of them the same.
IsAnswer(answer) ==
    /\ DOMAIN answer = DOMAIN Customers
    /\ Range(answer) = DOMAIN Customers

\* A faulty variant of the next definition: the sectors are the model's to change.
ModelDecides(rank, c, d) == Less(<<c.company, rank[c.name]>>, <<d.company, rank[d.name]>>)

\* How rankWithModel compares: the fixed order and the sectors come before the model's.
ModelPrefers(rank, c, d) ==
    Less(<<c.company, c.sector, rank[c.name]>>, <<d.company, d.sector, rank[d.name]>>)

\* The rankings the accepted answers give.
RankWithModel ==
    [answer \in {given \in Answers : IsAnswer(given)} |->
        InOrder(ToSet(Customers), LAMBDA c, d : ModelPrefers(answer, c, d))]

\* rank: an answer that is refused leaves the deterministic order.
RankedBy(answer) == IF IsAnswer(answer) THEN RankWithModel[answer] ELSE Prioritized

-----------------------------------------------------------------------------
Tier(c) == <<c.company, c.sector>>

\* Whatever a model answers, the companies of the fixed order come first and the sectors
\* after them in theirs (CUSTOMER_SECTOR_PRIORITY); and in the order the server makes, a
\* customer that is down with nothing done about it never waits behind one of its sector
\* that lost nothing, however many recoveries there were before.
CompaniesInOrder ==
    /\ \A r \in {RankedBy(answer) : answer \in Answers} :
          \A m, n \in DOMAIN r : m < n => ~Less(Tier(r[n]), Tier(r[m]))
    /\ LET r == Prioritized
       IN  \A m, n \in DOMAIN r :
             m < n => ~ (/\ Tier(r[m]) = Tier(r[n]) /\ StatusOf(r[m]) = "healthy"
                         /\ StatusOf(r[n]) \in {"down", "degraded"})
=============================================================================

----------------------------- MODULE PlanBuilder -----------------------------
(***************************************************************************)
(* plan-builder.helper.ts: the opening plan that only calls the engineer   *)
(* (buildEngineerCallDraft), and the deterministic planner (buildPlanDraft) *)
(* that scripted-llm.helper.ts puts in the place of the model.             *)
(***************************************************************************)
EXTENDS PlanRules

CONSTANT
    Weight          \* BUSINESS_IMPACT_WEIGHTS of each service

DependentServiceScoreBonus == 15

ASSUME PlanBuilderAssumption ==
    /\ Weight \in [Services -> Nat]
    /\ \A m, n \in DOMAIN Ranking : m < n => Weight[Ranking[m]] >= Weight[Ranking[n]]

-----------------------------------------------------------------------------
(* Faulty variants of the definitions below: the mistakes the properties are     *)
(* there to catch.  Spec uses none of them.                                      *)

\* Recoveries in the order of their impact, whatever they depend on.
OrderByImpact(ranked, set) == SelectSeq(Ranking, LAMBDA s : s \in set)

-----------------------------------------------------------------------------
\* effectiveCapacity: an unconfirmed region counts for what earlier runs say of it.
NoAssumption == -1
EffectiveCapacity(capacity, confirmed, assumption) ==
    IF confirmed \/ assumption = NoAssumption THEN capacity ELSE Min({capacity, assumption})

-----------------------------------------------------------------------------
(* buildEngineerCallDraft                                                        *)
EngineerCallDraft(t) ==
    [decision  |-> [s \in Services |->
                      IF s \in Unhealthy(t) THEN "postpone" ELSE "already-healthy"],
     steps     |-> [i \in {Call} |-> Proposed({})],
     twice     |-> FALSE, assumed |-> t.usable, planned |-> t.allocated,
     explained |-> TRUE]

-----------------------------------------------------------------------------
(* buildPlanDraft                                                                *)

\* countDependents: the unhealthy services that depend on s, directly or not.
Dependents(t, s) ==
    LET closed == {set \in SUBSET Unhealthy(t) :
                     \A u \in Unhealthy(t) : Dependencies[u] \cap (set \cup {s}) # {} => u \in set}
    IN  {u \in Unhealthy(t) : \A set \in closed : u \in set}

Score(t, s) == Weight[s] + DependentServiceScoreBonus * Cardinality(Dependents(t, s))

\* scoreServices
Scored(t) ==
    SetToSortSeq(Unhealthy(t),
        LAMBDA a, b : \/ Score(t, a) > Score(t, b)
                      \/ Score(t, a) = Score(t, b) /\ Cost[a] < Cost[b])

\* Services that hold their units already.
AlreadyAllocated(t) ==
    {s \in Unhealthy(t) : Execute(s) \in Carried(t) \/ t.health[s] = "recovering"}

\* The decision on the next service, and on the ones it depends on: the chain has to fit.
Consider(t, acc, s) ==
    LET chain   == UnhealthyDependencies(t, s) \ acc.selected
        units   == Cost[s] + MapThenSumSet(LAMBDA u : Cost[u], chain)
        Decide(set, decision) == [u \in set |-> decision] @@ acc.decision
        Only(decision) == [acc EXCEPT !.decision = Decide({s}, decision)]
    IN  CASE s \in DOMAIN acc.decision -> acc
          [] OTHER ->
             IF s \in t.blocked THEN Only("postpone")
             ELSE IF t.health[s] = "degraded" /\ UnhealthyDependencies(t, s) # {}
             THEN Only("waiting-for-dependency")
             ELSE IF s \in acc.selected THEN Only("recover-now")
             ELSE IF chain \cap t.blocked # {} \/ units > acc.left THEN Only("postpone")
             ELSE [decision |-> Decide({s} \cup chain, "recover-now"),
                   selected |-> acc.selected \cup {s} \cup chain,
                   left     |-> acc.left - units]

BuiltDecisions(t) ==
    LET decided == FoldLeft(LAMBDA acc, s : Consider(t, acc, s),
                            [decision |-> << >>,
                             selected |-> AlreadyAllocated(t),
                             left     |-> t.usable - t.allocated],
                            Scored(t))
    IN  decided.decision

\* decisionFor: a service nobody considered is postponed.
DecisionFor(decision, s) == IF s \in DOMAIN decision THEN decision[s] ELSE "postpone"

\* buildPriorities: the decisions on the unhealthy services, and on the healthy ones.
BuiltPriorities(t) ==
    LET decision == BuiltDecisions(t)
    IN  [s \in Services |-> IF s \in Unhealthy(t) THEN DecisionFor(decision, s)
                            ELSE "already-healthy"]

\* orderByDependencies: the best ranked service that waits for no other of them.
OrderByDependencies(ranked, set) ==
    LET Pick(done) ==
            LET left  == set \ ToSet(done)
                ready == {s \in left : Dependencies[s] \cap left = {}}
            IN  SelectSeq(ranked, LAMBDA s : s \in (IF ready = {} THEN left ELSE ready))
    IN  FoldLeft(LAMBDA done, s : IF ToSet(done) = set THEN done ELSE Append(done, Head(Pick(done))),
                 <<>>, ranked)

\* refreshDependencies: the call, the verifications of what the service depends on and
\* that of the service before it come first.
ExecuteAfter(t, ids, order, n) ==
    (IF Call \in ids /\ (Call \notin DOMAIN t.steps \/ CalledBefore(t)) THEN {Call} ELSE {})
    \cup {Verify(s) : s \in Dependencies[order[n]] \cap ToSet(order)}
    \cup (IF n > 1 THEN {Verify(order[n - 1])} ELSE {})

\* carryOrReset: what the server carries stays, and so does a failure (final, here); the
\* rest is proposed again.
CarryOrReset(step) ==
    IF step.status \in {"running", "completed", "failed"} THEN step
    ELSE [step EXCEPT !.status = "proposed"]

CarryOrCreate(t, i, created) ==
    IF i \in DOMAIN t.steps THEN CarryOrReset(t.steps[i]) ELSE created

RefreshDependencies(step, after) ==
    IF step.status \in {"running", "completed"} THEN step ELSE [step EXCEPT !.after = after]

\* The steps of the plan, but for its tasks, its notices and its last check.
BuiltStep(t, ids, order, i) ==
    CASE i.tool = "execute" ->
           LET after == ExecuteAfter(t, ids, order, CHOOSE n \in DOMAIN order : order[n] = i.service)
           IN  RefreshDependencies(CarryOrCreate(t, i, Proposed(after)), after)
      [] i.tool = "verify" -> CarryOrCreate(t, i, Proposed({Execute(i.service)}))
      [] OTHER             -> CarryOrCreate(t, i, Proposed({}))

\* The engineer is called while facts are pending, and a call once made stays.
BuiltCall(t) == IF t.pending \/ Call \in DOMAIN t.steps THEN {Call} ELSE {}

\* Executions of postponed services: those the server carries, and the others postponed.
PostponedSteps(t, decision) ==
    [i \in {Execute(s) : s \in {u \in Services : decision[u] = "postpone"}} |->
        IF i \in Carried(t) THEN t.steps[i] ELSE [Proposed({}) EXCEPT !.status = "postponed"]]

\* recoverNow: the services to recover.
RecoverNow(decision) == {s \in Services : decision[s] = "recover-now"}

\* The recoveries come in the order of what they depend on.
BuiltDraft(t) ==
    LET decision  == BuiltPriorities(t)
        recover   == RecoverNow(decision)
        order     == OrderByDependencies(Scored(t), recover)
        ids       == BuiltCall(t) \cup {Execute(s) : s \in recover} \cup {Verify(s) : s \in recover}
        postponed == PostponedSteps(t, decision)
    IN  [decision  |-> decision,
         steps     |-> [i \in ids \cup DOMAIN postponed |->
                         IF i \in ids THEN BuiltStep(t, ids, order, i) ELSE postponed[i]],
         twice     |-> FALSE,
         assumed   |-> t.usable,
         planned   |-> t.allocated + UnitsOf({Execute(s) : s \in recover \ AlreadyAllocated(t)}),
         explained |-> t.usable < t.total]

\* buildScriptedPlanDraft: what is postponed is left out, and a failed step is a new one.
ScriptedDraft(t) ==
    LET built  == BuiltDraft(t)
        listed == {i \in DOMAIN built.steps : built.steps[i].status # "postponed"}
    IN  [built EXCEPT !.steps =
            [i \in listed |-> IF i \in Carried(t) THEN t.steps[i]
                              ELSE [@[i] EXCEPT !.status = "proposed"]]]

\* constraintNeedsPlanRevision
DecisionOutdated(decision, s) == decision[s] # "postpone"

\* needsRevision, for a plan made for a region of this capacity: the fake proposes again if
\* the plan only calls, or the region or a decision on a blocked service is out of date.
NeedsRevision(t, decision, region, current) ==
    \/ DOMAIN t.steps \subseteq {Call}
    \/ region # current
    \/ \E s \in t.blocked : DecisionOutdated(decision, s)

=============================================================================

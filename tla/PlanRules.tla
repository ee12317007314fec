------------------------------ MODULE PlanRules ------------------------------
(***************************************************************************)
(* What the server does with a plan a model proposes: plan-repair.ts       *)
(* corrects it (repairLlmPlanDraft), plan-validation.ts accepts or rejects *)
(* the result (validateLlmPlan).  Pure operators over a draft d and over   *)
(* the trusted state t the code calls PlanBuildInput.                      *)
(*                                                                         *)
(* A draft keeps what the two files decide on: a decision per service, the *)
(* steps with their status and dependsOn, and the capacity block.  Names,  *)
(* owners, costs, flags, blockers, timestamps and ranks are copies of      *)
(* trusted state, and taken to be right.  Steps other than the engineer's  *)
(* call and the execution and verification of a recovery are restricted by *)
(* such copies only, and are left out.                                     *)
(***************************************************************************)
EXTENDS Integers, FiniteSets, FiniteSetsExt, SequencesExt

CONSTANTS
    Services,       \* service identifiers of the scenario
    Dependencies,   \* [Services -> SUBSET Services]
    Cost,           \* recoveryCapacityUnits
    Ranking         \* the services, highest business impact first

ASSUME PlanRulesAssumption ==
    /\ IsFiniteSet(Services)
    /\ Dependencies \in [Services -> SUBSET Services]
    /\ Cost \in [Services -> Nat]
    /\ Ranking \in Seq(Services)
    /\ ToSet(Ranking) = Services /\ Len(Ranking) = Cardinality(Services)

Decisions == {"recover-now", "postpone", "waiting-for-dependency", "already-healthy"}

StepStatus == {"proposed", "postponed", "running", "completed", "failed", "rejected"}

\* A step is identified by its tool and service.  own: under an identifier of the
\* model's and not stp_<service>_execute.
NoService == "no service"
Call       == [tool |-> "call",    service |-> NoService, own |-> FALSE]
Execute(s) == [tool |-> "execute", service |-> s, own |-> FALSE]
OwnExecute(s) == [Execute(s) EXCEPT !.own = TRUE]
Verify(s)  == [tool |-> "verify",  service |-> s, own |-> FALSE]

Identifiers == {Call} \cup {Execute(s) : s \in Services}
               \cup {OwnExecute(s) : s \in Services} \cup {Verify(s) : s \in Services}

Step == [status : StepStatus, after : SUBSET Identifiers]
Proposed(after) == [status |-> "proposed", after |-> after]
NoSteps == [i \in {} |-> Proposed({})]

Executes(ids) == {i \in ids : i.tool = "execute"}
Verifies(ids) == {i \in ids : i.tool = "verify"}
UnitsOf(ids) == MapThenSumSet(LAMBDA i : Cost[i.service], ids)

\* t.health, t.total, t.allocated, t.usable (effectiveCapacity), t.blocked (services
\* an operator rejected or whose execution failed for good), t.pending (facts the
\* engineer has not settled), t.steps (those of the previous plan).
Unhealthy(t) == {s \in Services : t.health[s] # "healthy"}
UnhealthyDependencies(t, s) == Dependencies[s] \cap Unhealthy(t)

-----------------------------------------------------------------------------
(* Faulty variants of the definitions below: the mistakes the properties are     *)
(* there to catch.  The specification uses none of them.                         *)

\* The steps the model lists are the plan.
ListedOnly(d, t) == d.steps

\* Dependencies that exist may be circular.
DependenciesExist(steps) ==
    \A i \in DOMAIN steps : \A j \in steps[i].after :
        j \in DOMAIN steps /\ steps[j].status # "postponed"

\* A prerequisite is decided on, and not waited for.
PrerequisitesAreDecided(d, t, steps, i) ==
    /\ i.service \notin t.blocked
    /\ \A s \in UnhealthyDependencies(t, i.service) : d.decision[s] = "recover-now"

-----------------------------------------------------------------------------
\* Running and completed steps belong to the server.
Carried(t) == {i \in DOMAIN t.steps : t.steps[i].status \in {"running", "completed"}}

HasTrustedExecute(t, s) == \E i \in Executes(Carried(t)) : i.service = s

CalledBefore(t) == Call \in DOMAIN t.steps /\ t.steps[Call].status # "failed"

-----------------------------------------------------------------------------
(* repairLlmPlanDraft                                                           *)

\* withEngineerCall: facts nobody was called about get a call.
WithCall(d, t) ==
    IF t.pending /\ ~CalledBefore(t) /\ Call \notin DOMAIN d.steps
    THEN [i \in DOMAIN d.steps \cup {Call} |->
            IF i = Call THEN Proposed({}) ELSE d.steps[i]]
    ELSE d.steps

\* resolvedAssumedCapacity: usable units are not assumed away.
ResolvedAssumed(d, t) ==
    LET assumed == IF d.assumed = 0 /\ t.usable > 0 THEN t.usable ELSE d.assumed
    IN  Min({assumed, t.total})

\* hasExecuteRecovery: an execution carried under the server's identifier, or any in
\* the draft.
IsPlanned(t, steps, s) ==
    \/ Execute(s) \in Carried(t)
    \/ \E i \in Executes(DOMAIN steps) : i.service = s

\* outcomeOf, for a service that is to be recovered now and has no step.
OutcomeOf(t, left, s) ==
    CASE s \in t.blocked -> "postpone"
      [] s \notin t.blocked /\ UnhealthyDependencies(t, s) # {} -> "waiting-for-dependency"
      [] s \notin t.blocked /\ UnhealthyDependencies(t, s) = {} /\ Cost[s] > left -> "postpone"
      [] OTHER -> "recover-now"

\* The services that fit in the units left, taken by business impact.
Fitting(set, left) ==
    FoldLeft(LAMBDA acc, s : IF s \in set /\ Cost[s] <= acc.left
                             THEN [left |-> acc.left - Cost[s], chosen |-> acc.chosen \cup {s}]
                             ELSE acc,
             [left |-> left, chosen |-> {}], Ranking)

\* remainingOf, after the capacity the model assumes and the new work it lists.
RemainingOf(d, t, steps) ==
    ResolvedAssumed(d, t) - t.allocated - UnitsOf(Executes(DOMAIN steps \ Carried(t)))

\* Services to recover now that have no step for it.
Incomplete(d, t, steps) ==
    {s \in Services : /\ d.decision[s] = "recover-now"
                      /\ t.health[s] \in {"down", "degraded"}
                      /\ ~IsPlanned(t, steps, s)}

\* If nothing unhealthy is left to recover now, the most important service that can be
\* recovered with the units left is promoted.
Promoted(t, decided, left) ==
    LET candidates == {s \in Services : /\ t.health[s] \in {"down", "degraded"}
                                        /\ OutcomeOf(t, left, s) = "recover-now"}
    IN  IF candidates = {} \/ \E s \in Unhealthy(t) : decided[s] = "recover-now" THEN {}
        ELSE {Ranking[Min({n \in DOMAIN Ranking : Ranking[n] \in candidates})]}

\* withRecoverNow: services to recover now get their steps or are demoted.
WithRecoverNow(d, t, steps) ==
    LET left       == RemainingOf(d, t, steps)
        incomplete == Incomplete(d, t, steps)
        eligible   == {s \in incomplete : OutcomeOf(t, left, s) = "recover-now"}
        fitting    == Fitting(eligible, left)
        decided    == [s \in Services |->
                        IF s \notin incomplete \/ s \in fitting.chosen THEN d.decision[s]
                        ELSE IF s \in eligible THEN "postpone"
                        ELSE OutcomeOf(t, left, s)]
        promoted   == Promoted(t, decided, fitting.left)
    IN  [decision |-> [s \in Services |-> IF s \in promoted THEN "recover-now" ELSE decided[s]],
         inject   |-> fitting.chosen \cup {s \in promoted : ~IsPlanned(t, steps, s)}]

\* insertRecoverySteps: an identifier that is there already would be there twice.
WithRecoverySteps(steps, inject) ==
    [i \in DOMAIN steps \cup {Execute(s) : s \in inject} \cup {Verify(s) : s \in inject} |->
        IF i \in DOMAIN steps THEN steps[i]
        ELSE Proposed(IF i.tool = "verify" THEN {Execute(i.service)} ELSE {})]

\* A listed step of the server's is put back as it is.  Of the others, only the
\* dependencies on listed steps stay, and none on the step of a postponed service.
RepairStep(t, decision, steps, i) ==
    IF i \in Carried(t) THEN t.steps[i]
    ELSE [steps[i] EXCEPT !.after =
            {j \in @ \cap DOMAIN steps :
                \/ j.service = NoService \/ decision[j.service] # "postpone"
                \/ i.service # NoService /\ decision[i.service] = "postpone"}]

\* repairPriorities: a healthy service needs no decision.
RepairDecision(t, decision) ==
    [s \in Services |-> IF t.health[s] = "healthy" THEN "already-healthy" ELSE decision[s]]

\* repairCapacity: every new execution is counted.
RepairPlanned(t, ids) == t.allocated + UnitsOf(Executes(ids \ Carried(t)))

Repair(d, t) ==
    LET called   == WithCall(d, t)
        recover  == WithRecoverNow(d, t, called)
        inserted == WithRecoverySteps(called, recover.inject)
        decision == RepairDecision(t, recover.decision)
    IN  [decision |-> decision,
         steps    |-> [i \in DOMAIN inserted |->
                        RepairStep(t, recover.decision, inserted, i)],
         twice    |-> \E s \in recover.inject : Verify(s) \in DOMAIN called,
         assumed  |-> ResolvedAssumed(d, t),
         planned  |-> RepairPlanned(t, DOMAIN inserted),
         explained |-> d.explained]

-----------------------------------------------------------------------------
(* validateLlmPlan                                                              *)

\* The steps of the plan: the draft's and, after them, the carried ones it omits.
Merged(d, t) ==
    [i \in DOMAIN d.steps \cup Carried(t) |->
        IF i \in DOMAIN d.steps THEN d.steps[i] ELSE t.steps[i]]

\* validatePriorities
DecisionIsValid(d, t, s) ==
    IF t.health[s] = "healthy" THEN d.decision[s] = "already-healthy"
    ELSE /\ d.decision[s] # "already-healthy"
         /\ s \in t.blocked /\ ~HasTrustedExecute(t, s) => d.decision[s] = "postpone"
         /\ d.decision[s] = "waiting-for-dependency" => UnhealthyDependencies(t, s) # {}

\* validateCapacity, and the checks of validateLlmPlan that follow it.
CapacityIsValid(d, t) ==
    /\ d.assumed <= t.total
    /\ d.planned >= t.allocated
    /\ d.assumed < t.total => d.explained
    /\ d.assumed = 0 /\ t.total > t.allocated => t.usable = 0

\* validateModelStep, for an execution and for a verification of a service.
ExecuteIsAllowed(d, t, i) ==
    /\ \/ d.decision[i.service] = "recover-now"
       \/ d.steps[i].status = "postponed" /\ d.decision[i.service] = "postpone"
    /\ t.health[i.service] # "healthy"
    /\ i.service \notin t.blocked

VerifyIsAllowed(d, t, i) ==
    d.decision[i.service] = "recover-now" /\ t.health[i.service] # "healthy"

ModelStepIsValid(d, t, i) ==
    /\ d.steps[i].status \in {"proposed", "postponed"}
    /\ i.tool = "execute" => ExecuteIsAllowed(d, t, i)
    /\ i.tool = "verify" => VerifyIsAllowed(d, t, i)

\* sequenceSteps: the steps it can order so that each comes after what it depends on, one
\* round for each step at most.
Sequenced(steps) ==
    FoldSet(LAMBDA round, done : done \cup {i \in DOMAIN steps : steps[i].after \cap DOMAIN steps \subseteq done},
            {}, DOMAIN steps)

\* validateDependencyGraph: circular dependencies are those sequenceSteps could not order.
DependenciesAreValid(steps) ==
    /\ \A i \in DOMAIN steps : \A j \in steps[i].after :
          j \in DOMAIN steps /\ steps[j].status # "postponed"
    /\ Sequenced(steps) = DOMAIN steps

\* validateRecoverySteps: one execution and one verification of a service, in order.
OneRecoveryEach(steps) ==
    /\ \A i, j \in Executes(DOMAIN steps) : i.service = j.service => i = j
    /\ \A v \in Verifies(DOMAIN steps) : \E i \in Executes(DOMAIN steps) :
          i.service = v.service /\ i \in steps[v].after

\* The part of it about the decision on each service.
DecisionHasSteps(d, t, steps, s) ==
    LET own == {i \in Executes(DOMAIN steps) \cup Verifies(DOMAIN steps) : i.service = s}
    IN  IF d.decision[s] = "recover-now"
        THEN /\ Executes(own) # {} /\ Verifies(own) # {}
             /\ t.health[s] = "recovering" => HasTrustedExecute(t, s)
        ELSE own \subseteq Carried(t)

\* The part of it about the services a new execution depends on.
PrerequisitesAreRecovered(d, t, steps, i) ==
    /\ i.service \notin t.blocked
    /\ \A s \in UnhealthyDependencies(t, i.service) :
          /\ d.decision[s] = "recover-now"
          /\ Verify(s) \in DOMAIN steps \cap steps[i].after

\* The units of the new executions, and what they may use.
NewUnits(d, t) ==
    UnitsOf({i \in Executes(DOMAIN d.steps) :
                d.steps[i].status = "proposed" /\ ~HasTrustedExecute(t, i.service)})

UnitsAreValid(d, t) ==
    /\ d.planned = t.allocated + NewUnits(d, t)
    /\ NewUnits(d, t) <= Max({0, d.assumed - t.allocated})

\* The last part of it: what was executed is not executed again.
NothingReexecuted(d, t) ==
    \A i \in Executes(DOMAIN d.steps) :
        d.steps[i].status = "proposed" => ~HasTrustedExecute(t, i.service)

\* validatePendingFactsHaveCall
PendingFactsHaveCall(t, steps) == t.pending => Call \in DOMAIN steps \/ CalledBefore(t)

RecoveryIsValid(d, t, steps) ==
    /\ OneRecoveryEach(steps)
    /\ \A s \in Services : DecisionHasSteps(d, t, steps, s)
    /\ \A i \in Executes(DOMAIN steps) \ Carried(t) : PrerequisitesAreRecovered(d, t, steps, i)

IsValid(d, t) ==
    LET steps == Merged(d, t)
    IN  /\ ~d.twice
        /\ \A s \in Services : DecisionIsValid(d, t, s)
        /\ CapacityIsValid(d, t)
        /\ \A i \in DOMAIN d.steps \cap Carried(t) : d.steps[i] = t.steps[i]
        /\ \A i \in DOMAIN d.steps \ Carried(t) : ModelStepIsValid(d, t, i)
        /\ DependenciesAreValid(steps)
        /\ RecoveryIsValid(d, t, steps)
        /\ UnitsAreValid(d, t) /\ NothingReexecuted(d, t)
        /\ PendingFactsHaveCall(t, steps)

=============================================================================

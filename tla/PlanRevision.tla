----------------------------- MODULE PlanRevision ----------------------------
(***************************************************************************)
(* The plans of one run: AgentService.callEngineerImmediately opens it, a  *)
(* model proposes revisions that plan-repair.ts and plan-validation.ts     *)
(* correct and accept (LlmLoopService, propose_plan), and AgentService     *)
(* dispatches the steps and applies their results while services recover,  *)
(* fail and break again.                                                   *)
(*                                                                         *)
(* A dispatched step has the idempotency key <step>:attempt-<n>, unique in *)
(* the run: ToolsService answers a second dispatch under the same key with *)
(* the tool call of the first.  New steps start with zero attempts and the *)
(* failures modelled here are final, so the key is the step's identifier.  *)
(***************************************************************************)
EXTENDS PlanBuilder

CONSTANTS
    Totals,         \* the capacities a region may report
    Damage,         \* the initial health of the services
    MaximumPlans,   \* bound of this model on plan versions
    MaximumBreaks   \* bound of this model on services that break again

VARIABLES
    health,     \* health of each service
    total,      \* totalCapacity of the selected region
    confirmed,  \* whether it is confirmed
    insight,    \* the lowest capacity runs of the session confirmed, or NoAssumption
    allocated,  \* allocatedCapacity
    rejected,   \* services an operator rejected the recovery of
    pending,    \* whether a fact is pending
    client,     \* who answers the language model's turns: a model, or its fake
    decision,   \* the decisions of the latest plan
    seen,       \* its capacity block: the region it was made for
    steps,      \* its steps
    keys,       \* keys[i]: the status the tool call of step i gives it
    version,    \* its version, 0 when there is none
    verified,   \* the services verified when it was accepted (history)
    disturbed,  \* whether a service broke or the region changed since then (history)
    breaks      \* how often that happened so far (bound)

plan   == <<decision, seen, steps, version, verified>>
region == <<total, confirmed, insight, allocated>>
vars   == <<health, region, rejected, pending, client, plan, keys, disturbed, breaks>>

KeyStatus == {"unused", "running", "completed", "failed"}

ASSUME PlanRevisionAssumption ==
    /\ Totals \subseteq Nat
    /\ Damage \subseteq [Services -> {"healthy", "degraded", "down"}]
    /\ MaximumPlans \in Nat \ {0} /\ MaximumBreaks \in Nat

TypeOK ==
    /\ health \in [Services -> {"healthy", "degraded", "down", "recovering"}]
    /\ total \in Totals /\ confirmed \in BOOLEAN
    /\ insight \in {NoAssumption, 0} \cup Totals
    /\ allocated \in Nat /\ seen \in [total : Totals \cup {0}, confirmed : BOOLEAN]
    /\ rejected \subseteq Services /\ pending \in BOOLEAN /\ client \in {"model", "fake"}
    /\ decision \in [Services -> Decisions]
    /\ DOMAIN steps \subseteq Identifiers
    /\ \A i \in DOMAIN steps : steps[i] \in Step
    /\ keys \in [Identifiers -> KeyStatus]
    /\ version \in 0..MaximumPlans /\ breaks \in 0..MaximumBreaks
    /\ verified \subseteq Services /\ disturbed \in BOOLEAN

\* buildLlmInput: what a cycle knows.  Failures are those of the latest plan.
FailedServices ==
    {s \in Services : \E i \in Executes(DOMAIN steps) :
        i.service = s /\ steps[i].status = "failed"}

\* createValidationContext: rejectedOrFailed
Blocked == rejected \cup FailedServices

\* resolveCapacityAssumption: what earlier runs confirmed less of than is reported now.
Assumption == IF ~confirmed /\ insight < total THEN insight ELSE NoAssumption

Trusted ==
    [health |-> health, total |-> total, allocated |-> allocated,
     usable |-> EffectiveCapacity(total, confirmed, Assumption),
     blocked |-> Blocked, pending |-> pending, steps |-> steps]

-----------------------------------------------------------------------------
(* Drafts of a model: a choice of them, one per mistake that repair or validation *)
(* has to deal with, made for all of its steps alike.                            *)

\* The steps it proposes for the services in recover: in order, with executions that wait
\* for nothing, with one that waits for its own verification, with executions under
\* identifiers of the model's, or with the server's steps listed as if nothing was done.
Forms == {"ordered", "eager", "circular", "renamed", "complete"}

ModelSteps(t, recover, form) ==
    LET Named(s)  == IF form = "renamed" THEN OwnExecute(s) ELSE Execute(s)
        Taken(s)  == {i \in Executes(Carried(t)) : i.service = s}
        new       == {Named(s) : s \in {u \in recover : Taken(u) = {}}}
                     \cup {Verify(s) : s \in {u \in recover : Verify(u) \notin Carried(t)}}
        Before(i) ==
            IF i.tool = "execute"
            THEN {Verify(s) : s \in IF form = "eager" THEN {}
                                    ELSE UnhealthyDependencies(t, i.service)}
                 \cup (IF form = "circular" THEN {Verify(i.service)} ELSE {})
            ELSE IF Taken(i.service) = {} THEN {Named(i.service)} ELSE Taken(i.service)
    IN  [i \in new \cup (IF form = "complete" THEN Carried(t) ELSE {}) |->
            Proposed(IF i \in new THEN Before(i) ELSE {})]

ModelDecisions(t) ==
    {choice \in [Services -> Decisions] :
        \A s \in Services : (choice[s] = "already-healthy") = (t.health[s] = "healthy")}

ModelDrafts(t) ==
    {LET proposed == ModelSteps(t, recover, form)
     IN  [decision |-> choice, steps |-> proposed, twice |-> FALSE, assumed |-> assumed,
          planned |-> RepairPlanned(t, DOMAIN proposed), explained |-> assumed < t.total] :
        choice \in ModelDecisions(t), recover \in SUBSET Unhealthy(t), form \in Forms,
        assumed \in {0, t.total}}

-----------------------------------------------------------------------------
Init ==
    /\ health \in Damage
    /\ total \in Totals /\ confirmed = FALSE /\ insight \in {NoAssumption, 0}
    /\ allocated = 0 /\ seen = [total |-> 0, confirmed |-> FALSE]
    /\ rejected = {} /\ pending \in BOOLEAN /\ client \in {"model", "fake"}
    /\ decision = [s \in Services |-> "postpone"] /\ steps = NoSteps
    /\ keys = [i \in Identifiers |-> "unused"]
    /\ version = 0 /\ verified = {} /\ disturbed = FALSE /\ breaks = 0

Current == [total |-> total, confirmed |-> confirmed]

\* createPlanVersion: the steps of the plan are those the validator returns.
Save(d, t) ==
    /\ version < MaximumPlans
    /\ decision' = d.decision
    /\ seen' = Current
    /\ steps' = Merged(d, t)
    /\ version' = version + 1
    /\ verified' = {s \in Services : Verify(s) \in Carried(t) /\ t.steps[Verify(s)].status = "completed"}
    /\ disturbed' = FALSE

\* callEngineerImmediately: before the first model turn, and the call is dispatched.
OpenWithCall ==
    /\ version = 0 /\ pending
    /\ Save(EngineerCallDraft(Trusted), [Trusted EXCEPT !.steps = NoSteps])
    /\ UNCHANGED <<client, health, region, rejected, pending, keys, breaks>>

\* propose_plan: the draft is repaired, and saved if it is then valid.
Propose(drafts) ==
    /\ version < MaximumPlans
    /\ LET t == Trusted
       IN  \E d \in {r \in {Repair(draft, t) : draft \in drafts} : IsValid(r, t)} : Save(d, t)
    /\ UNCHANGED <<client, health, region, rejected, pending, keys, breaks>>

ProposeModel == client = "model" /\ Propose(ModelDrafts(Trusted))
\* chooseDecision
ProposeScripted ==
    /\ client = "fake" /\ NeedsRevision(Trusted, decision, seen, Current)
    /\ Propose({ScriptedDraft(Trusted)})

\* A step is runnable once what it depends on has completed.
Runnable(i) ==
    /\ steps[i].status = "proposed"
    /\ \A j \in steps[i].after : j \in DOMAIN steps /\ steps[j].status = "completed"

\* The step and the tool call under its key.
Settle(i, status) ==
    /\ steps' = [steps EXCEPT ![i].status = status]
    /\ keys' = [keys EXCEPT ![i] = status]

\* ExecuteRecoveryTool, RecoveryService.execute: dependencies and capacity are checked
\* again, and a failure is final.
DispatchExecute(i) ==
    LET s == i.service
    IN  IF UnhealthyDependencies(Trusted, s) = {} /\ allocated + Cost[s] <= total
        THEN /\ Settle(i, "running")
             /\ allocated' = allocated + Cost[s]
             /\ health' = [health EXCEPT ![s] = "recovering"]
        ELSE Settle(i, "failed") /\ UNCHANGED <<allocated, health>>

\* applyVerification: a degraded service passes and gets a follow-up task.
DispatchVerify(i) ==
    /\ Settle(i, IF health[i.service] \in {"healthy", "degraded"} THEN "completed" ELSE "failed")
    /\ UNCHANGED <<allocated, health>>

DispatchCall(i) ==
    /\ Settle(i, "running")
    /\ UNCHANGED <<allocated, health>>

\* AgentService.executeStep, for a step no tool call was made of yet.
Dispatch(i) ==
    /\ Runnable(i) /\ keys[i] = "unused"
    /\ CASE i.tool = "execute" -> DispatchExecute(i)
         [] i.tool = "verify"  -> DispatchVerify(i)
         [] OTHER              -> DispatchCall(i)
    /\ UNCHANGED <<client, total, confirmed, insight, rejected, pending, decision, seen, version,
                   verified, disturbed, breaks>>

\* The key of the step is used: it takes the result of the call that used it.
DispatchAgain(i) ==
    /\ Runnable(i) /\ keys[i] # "unused"
    /\ Settle(i, keys[i])
    /\ UNCHANGED <<client, health, region, rejected, pending, decision, seen, version,
                   verified, disturbed, breaks>>

\* propagateDependencyHealth, after a change of one service.
Changed(s, status) ==
    LET changed == [health EXCEPT ![s] = status]
    IN  [u \in Services |->
            IF changed[u] = "degraded" /\ \A d \in Dependencies[u] : changed[d] = "healthy"
            THEN "healthy" ELSE changed[u]]

\* RecoveryService.applyResultToHarness and AgentService.applyToolResult.
FinishExecute(i, outcome) ==
    /\ i.tool = "execute" /\ steps[i].status = "running"
    /\ Settle(i, IF outcome = "down" THEN "failed" ELSE "completed")
    /\ health' = Changed(i.service, outcome)
    /\ allocated' = IF outcome = "down" THEN Max({0, allocated - Cost[i.service]}) ELSE allocated
    /\ UNCHANGED <<client, total, confirmed, insight, rejected, pending, decision, seen, version,
                   verified, disturbed, breaks>>

\* The engineer's answers settle the pending facts, or do not.
FinishCall(answered) ==
    /\ Call \in DOMAIN steps /\ steps[Call].status = "running"
    /\ Settle(Call, IF answered THEN "completed" ELSE "failed")
    /\ pending' \in (IF answered THEN {pending, FALSE} ELSE {pending})
    /\ UNCHANGED <<client, health, region, rejected, decision, seen, version, verified, disturbed, breaks>>

\* applyApprovalDecision
Reject(i) ==
    /\ i.tool = "execute" /\ Runnable(i)
    /\ steps' = [steps EXCEPT ![i].status = "rejected"]
    /\ rejected' = rejected \cup {i.service}
    /\ UNCHANGED <<client, health, region, pending, decision, seen, version,
                   verified, keys, disturbed, breaks>>

\* A service-health-changed event.
Break(s, status) ==
    /\ breaks < MaximumBreaks /\ health[s] = "healthy"
    /\ health' = Changed(s, status) /\ health' # health
    /\ disturbed' = TRUE /\ breaks' = breaks + 1
    /\ UNCHANGED <<client, region, rejected, pending, plan, keys>>

\* recordCapacityObservation: an observation below what was reported is kept if lowest.
Learned(reported, capacity) ==
    IF capacity >= reported THEN insight
    ELSE IF insight = NoAssumption THEN capacity ELSE Min({insight, capacity})

\* A capacity-limited event confirms the region at another capacity, and
\* AgentService.onIncidentEventApplied learns from it.  The capacity the scenario reports
\* is the one the region had until its only event in this model.
LimitCapacity(capacity) ==
    /\ breaks < MaximumBreaks /\ ~confirmed /\ allocated <= capacity /\ capacity # total
    /\ total' = capacity /\ confirmed' = TRUE
    /\ insight' = Learned(total, capacity)
    /\ disturbed' = TRUE /\ breaks' = breaks + 1
    /\ UNCHANGED <<client, health, allocated, rejected, pending, plan, keys>>

Next ==
    \/ OpenWithCall
    \/ ProposeModel
    \/ ProposeScripted
    \/ \E i \in DOMAIN steps : Dispatch(i) \/ DispatchAgain(i) \/ Reject(i)
    \/ \E i \in DOMAIN steps, outcome \in {"healthy", "degraded", "down"} :
          FinishExecute(i, outcome)
    \/ \E answered \in BOOLEAN : FinishCall(answered)
    \/ \E s \in Services, status \in {"degraded", "down"} : Break(s, status)
    \/ \E capacity \in Totals : LimitCapacity(capacity)

Spec == Init /\ [][Next]_vars

-----------------------------------------------------------------------------
(* Properties *)

\* A revision keeps every running and completed step as it is, whether the model lists
\* it, changes it or leaves it out: a result that arrives later finds its step.
WorkIsCarried ==
    [][version' # version => \A i \in DOMAIN steps :
        steps[i].status \in {"running", "completed"} =>
            i \in DOMAIN steps' /\ steps'[i] = steps[i]]_vars

\* An accepted plan with work left and none running has a step that can be run: its
\* dependencies, those on carried steps included, are not circular, failed or postponed.
PlanCanStart ==
    [][version' # version /\ (\E i \in DOMAIN steps' : steps'[i].status = "proposed")
       => \E i \in DOMAIN steps' : steps'[i].status = "running" \/ Runnable(i)']_vars

\* A service the steps show as verified that is not healthy: it was verified when the plan
\* was accepted and broke again before, or a verification passed it as degraded.
VerifiedInVain(s) ==
    /\ health[s] # "healthy"
    /\ Verify(s) \in DOMAIN steps /\ steps[Verify(s)].status = "completed"
    /\ s \in verified \/ health[s] = "degraded"

\* A recovery of the latest plan is never refused while nothing has broken.  After that, if
\* nothing changed since the plan was accepted, it is refused for one reason only, a
\* prerequisite it waited for whose verification did not tell that it was unhealthy; never
\* for its units, for a prerequisite it did not wait for or for one that was not verified.
AcceptedRecoveryRuns ==
    [][\A i \in DOMAIN steps :
        i.tool = "execute" /\ keys[i] = "unused" /\ keys'[i] = "failed" =>
            /\ breaks > 0
            /\ disturbed \/ \E s \in Dependencies[i.service] :
                             VerifiedInVain(s) /\ Verify(s) \in steps[i].after]_vars

\* The deterministic planner, in whatever state of the recovery it is asked, makes a plan
\* that repairLlmPlanDraft and validateLlmPlan accept, where no prerequisite has one itself:
\* it looks no further than the direct ones.
ScriptedAccepted ==
    client = "fake" => IsValid(Repair(ScriptedDraft(Trusted), Trusted), Trusted)

=============================================================================

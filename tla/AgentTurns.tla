----------------------------- MODULE AgentTurns ------------------------------
(***************************************************************************)
(* The turns of one decision cycle: LlmLoopService.run, the commander, and *)
(* SubagentRunnerService.run, the specialist it delegates to.  AgentCycle  *)
(* says when cycles run; here is what a cycle does with the plan: what it  *)
(* dispatches, within which budget, on which state, what conversation it   *)
(* sends to the model, and when it waits.                                  *)
(*                                                                         *)
(* What the model answers is a choice.  observeForLlm reads the state part *)
(* by part, with awaits between them in which anything may happen outside; *)
(* two observations have the same fingerprint if no part has changed from  *)
(* its first reading to its second.  Before it starts a tool the loop      *)
(* observes again and compares; what happens after that last observation   *)
(* is seen by nobody.  The start of a tool and the status its step gets    *)
(* are one step here, and so is the saving of a plan: PlanApprovals and    *)
(* CallResults take them apart.                                            *)
(***************************************************************************)
EXTENDS Integers, Sequences, FiniteSets

CONSTANTS
    MaximumTurns,       \* LLM_MAXIMUM_TURNS
    MaximumSteps,       \* AGENT_MAXIMUM_STEPS_PER_CYCLE
    HistoryLimit,       \* messages of the conversation that are kept
    SpecialistTurns,    \* SUBAGENT_MAXIMUM_TURNS
    SpecialistHistory,  \* HISTORY_LIMIT of the runner
    MaximumEvents       \* bound of this model on what happens outside

ASSUME AgentTurnsAssumption ==
    /\ MaximumTurns \in Nat \ {0} /\ SpecialistTurns \in Nat \ {0}
    /\ MaximumSteps \in Nat /\ MaximumEvents \in Nat
    /\ HistoryLimit \in Nat \ {0} /\ SpecialistHistory \in Nat \ {0}

\* One step of each kind that matters here, named for its tool.
Steps == {"call_engineer", "send_incident_email", "execute_recovery"}

DependsOn(s) == IF s = "execute_recovery" THEN {"call_engineer"} ELSE {}

Specialists == {"investigator", "caller", "communicator"}

\* SUBAGENT_STEP_SCOPES
Scope(kind) == CASE kind = "caller"       -> {"call_engineer"}
                 [] kind = "communicator" -> {"send_incident_email"}
                 [] OTHER                 -> {}

\* The tools that only read: the runner accepts any of them from any specialist.
Reads(kind) == TRUE

\* What an observation reads, each part at its own moment: the run, then its latest plan,
\* then the incoming reports and, beside them, calls, approvals and the other evidence.
Parts == {"incident", "plan", "reports", "evidence"}

Before(p) == CASE p = "incident" -> {} [] p = "plan" -> {"incident"}
               [] OTHER -> {"incident", "plan"}

VARIABLES
    active,     \* the run is active
    blocked,    \* an incoming report waits for the operator
    steps,      \* steps[s]: status of the step in the latest plan
    unseen,     \* the parts that have changed since the commander read them
    unread,     \* the parts that the observation under way has still to read
    noted,      \* what that observation has found so far
    seen,       \* the steps as the commander observed them
    stage,      \* where the cycle is
    target,     \* the step, or the plan, that is being confirmed
    held,       \* all was as the commander saw it when that began (history)
    turn, executed, challenged, history,                \* of the commander
    kind, subturn, subexecuted, remaining, subhistory,  \* of the specialist
    outcome,    \* how the cycle ended
    events      \* external events so far (bound)

run == <<active, blocked, steps, unseen>>
observation == <<unread, noted>>
decision == <<target, held>>
commander == <<seen, turn, executed, challenged, history>>
specialist == <<kind, subturn, subexecuted, remaining, subhistory>>
vars == <<run, observation, decision, commander, specialist, stage, outcome, events>>

\* A step to be retried is proposed again and keeps the approval it has.
Status == {"absent", "proposed", "retrying", "approved", "awaiting-approval", "running",
           "completed", "failed"}
Runnable == {"proposed", "retrying", "approved"}    \* RUNNABLE_STEP_STATUSES
InFlight == {"awaiting-approval", "running"}
Messages == {"assistant", "tool", "user"}
Stages == {"observing", "asking", "rechecking", "acting", "confirming", "dispatching",
           "delegating", "ended"}
Outcomes == {"none", "skipped", "failed", "waiting", "in flight", "out of turns"}

\* What is noted of an observation: the run is active, a report is pending, work is in
\* flight, and a part differs from the one the commander saw.
Nothing == [active |-> TRUE, blocked |-> FALSE, inFlight |-> FALSE, differs |-> FALSE]

TypeOK ==
    /\ {active, blocked, held, challenged} \subseteq BOOLEAN
    /\ unseen \subseteq Parts /\ unread \subseteq Parts
    /\ noted \in [active : BOOLEAN, blocked : BOOLEAN, inFlight : BOOLEAN, differs : BOOLEAN]
    /\ steps \in [Steps -> Status] /\ seen \in [Steps -> Status]
    /\ stage \in Stages /\ target \in Steps \cup {"none", "plan"}
    /\ turn \in 0..MaximumTurns /\ subturn \in 0..SpecialistTurns
    /\ executed \in 0..MaximumSteps /\ subexecuted \in 0..MaximumSteps
    /\ remaining \in 0..MaximumSteps
    /\ history \in UNION {[1..n -> Messages] : n \in 0..MaximumTurns + HistoryLimit}
    /\ subhistory \in UNION {[1..n -> Messages] : n \in 0..SpecialistTurns + SpecialistHistory}
    /\ kind \in Specialists \cup {"none"}
    /\ outcome \in Outcomes /\ events \in 0..MaximumEvents

\* A cycle begins: the opening call was dispatched before the first turn, or the run has
\* no plan, or a plan of an earlier cycle.
Init ==
    /\ active = TRUE /\ blocked = FALSE
    /\ steps \in [Steps -> {"absent", "proposed", "completed", "running"}]
    /\ \A s \in Steps \ {"call_engineer"} : steps[s] \in {"absent", "proposed"}
    /\ unseen = Parts /\ unread = Parts /\ noted = Nothing /\ seen = steps
    /\ stage = "observing" /\ outcome = "none" /\ target = "none" /\ held = FALSE
    /\ turn = 0 /\ executed = 0 /\ challenged = FALSE /\ history = <<>>
    /\ kind = "none" /\ subturn = 0 /\ subexecuted = 0 /\ remaining = 0 /\ subhistory = <<>>
    /\ events = 0

\* A step can be dispatched, as the plan stands in p.
CanRun(p, s) ==
    /\ p[s] \in Runnable
    /\ \A d \in DependsOn(s) : p[d] = "completed"

-----------------------------------------------------------------------------
(* Faulty variants of the definitions below: the mistakes the properties are     *)
(* there to catch.  Spec uses none of them.                                      *)

\* The conversation is cut wherever the limit falls.
CutAnywhere(h, limit) == IF Len(h) > limit THEN SubSeq(h, Len(h) - limit + 1, Len(h)) ELSE h

\* A fingerprint of the plan alone.
PlanDiffers(p) == p = "plan" /\ p \in unseen

\* A read that forgets to count its turn.
NoTurn(n) == n

-----------------------------------------------------------------------------
(* What both loops share                                                         *)

\* A full exchange is pushed, the oldest messages go, and a tool message never
\* comes first.
Trimmed(h, limit) ==
    LET recent == IF Len(h) > limit THEN SubSeq(h, Len(h) - limit + 1, Len(h)) ELSE h
        tools  == {i \in DOMAIN recent : \A j \in 1..i : recent[j] = "tool"}
    IN  SubSeq(recent, Cardinality(tools) + 1, Len(recent))

Exchange(h, limit) == Trimmed(h \o <<"assistant", "tool">>, limit)

\* An answer without exactly one call is only commented on.
Complaint(h) == Append(h, "user")

Changed(parts) == unseen' = unseen \cup parts

\* observeForLlm.
Observes == unread' = Parts /\ noted' = Nothing

Differs(p) == p \in unseen

\* The next part of the observation under way.  The one a turn begins with is what the
\* commander sees; the others are compared with it.  Work in flight is a step of the plan,
\* or a call that no step shows any more.
HasInFlightWork(p) == \E s \in Steps : p[s] \in InFlight

Read(p) ==
    /\ stage \in {"observing", "rechecking", "confirming"} /\ turn < MaximumTurns
    /\ p \in unread /\ Before(p) \cap unread = {} /\ unread' = unread \ {p}
    /\ \E more \in BOOLEAN :
         noted' = [active   |-> IF p = "incident" THEN active ELSE noted.active,
                   blocked  |-> IF p = "reports" THEN blocked ELSE noted.blocked,
                   inFlight |-> IF p = "plan" /\ stage = "rechecking"
                                THEN HasInFlightWork(steps) \/ more ELSE noted.inFlight,
                   differs  |-> noted.differs \/ (stage # "observing" /\ Differs(p))]
    /\ IF stage = "observing"
       THEN unseen' = unseen \ {p} /\ seen' = IF p = "plan" THEN steps ELSE seen
       ELSE UNCHANGED <<unseen, seen>>
    /\ UNCHANGED <<active, blocked, steps, decision, turn, executed, challenged, history,
                   specialist, stage, outcome, events>>

\* All is as the commander saw it.
AsSeen == active /\ ~blocked /\ steps = seen /\ unseen = {}

\* actions.execute and actions.save observe once more.
Confirm(what) ==
    /\ stage' = "confirming" /\ target' = what /\ Observes /\ held' = AsSeen

Confirming == stage = "confirming" /\ unread = {}

\* Neither a report to confirm nor another fingerprint.
Holds == ~noted.blocked /\ ~noted.differs

Decided == target' = "none" /\ held' = FALSE

\* A call is under way, a mail is sent, a recovery asks for its approval first; any of them
\* can fail, and be proposed again.
Dispatched(s) ==
    CASE s = "call_engineer"       -> {"running", "failed", "retrying"}
      [] s = "send_incident_email" -> {"completed", "failed", "retrying"}
      [] OTHER -> IF steps[s] = "proposed" THEN {"awaiting-approval", "failed"}
                  ELSE {"running", "failed", "retrying"}

-----------------------------------------------------------------------------
(* LlmLoopService.run                                                            *)

EndCycle(how) == stage' = "ended" /\ outcome' = how

NextTurn(n) == n + 1

\* The next turn, and what comes before it: the tool message of an action.
TurnOver == turn' = NextTurn(turn) /\ stage' = "observing" /\ Observes

Told == history' = Exchange(history, HistoryLimit) /\ TurnOver

Observed ==
    /\ stage = "observing" /\ unread = {}
    /\ IF ~noted.active \/ noted.blocked
       THEN EndCycle("skipped")
       ELSE stage' = "asking" /\ UNCHANGED outcome
    /\ UNCHANGED <<run, observation, decision, commander, specialist, events>>

OutOfTurns ==
    /\ stage = "observing" /\ turn = MaximumTurns
    /\ EndCycle("out of turns")
    /\ UNCHANGED <<run, observation, decision, commander, specialist, events>>

ProviderFails ==
    /\ stage = "asking"
    /\ EndCycle("failed")
    /\ UNCHANGED <<run, observation, decision, commander, specialist, events>>

ProviderAnswers ==
    /\ stage = "asking" /\ stage' = "rechecking" /\ Observes
    /\ UNCHANGED <<run, decision, commander, specialist, outcome, events>>

\* The answer to a state that has changed is dropped, with the conversation; work in
\* flight ends the cycle, for it will wake the agent.
Stale ==
    /\ stage = "rechecking" /\ unread = {} /\ noted.differs
    /\ IF ~noted.active THEN EndCycle("skipped") /\ UNCHANGED <<observation, turn, history>>
       ELSE IF noted.inFlight
       THEN EndCycle("in flight") /\ UNCHANGED <<observation, turn, history>>
       ELSE history' = <<>> /\ TurnOver /\ UNCHANGED outcome
    /\ UNCHANGED <<run, decision, seen, executed, challenged, specialist, events>>

Pending ==
    /\ stage = "rechecking" /\ unread = {} /\ ~noted.differs /\ stage' = "acting"
    /\ UNCHANGED <<run, observation, decision, commander, specialist, outcome, events>>

NotOneCall ==
    /\ stage = "acting"
    /\ history' = Complaint(history) /\ TurnOver
    /\ UNCHANGED <<run, decision, seen, executed, challenged, specialist, outcome, events>>

\* Malformed arguments, an unknown tool, a plan that does not validate, or a step over the
\* budget.
Malformed ==
    /\ stage = "acting" /\ Told
    /\ UNCHANGED <<run, decision, seen, executed, challenged, specialist, outcome, events>>

ProposePlan ==
    /\ stage = "acting" /\ Confirm("plan")
    /\ UNCHANGED <<run, commander, specialist, outcome, events>>

ExecuteStep(s) ==
    /\ stage = "acting" /\ executed < MaximumSteps /\ Confirm(s)
    /\ UNCHANGED <<run, commander, specialist, outcome, events>>

\* waitChallenge: a step that could run now, unless something is awaited; after the
\* cycle has acted only a call counts.  Or a plan that is nothing but the opening call.
RunnableNow ==
    /\ ~HasInFlightWork(seen)
    /\ \E s \in IF executed = 0 THEN Steps ELSE {"call_engineer"} :
         /\ seen[s] \in {"proposed", "retrying"}
         /\ \A d \in DependsOn(s) : seen[d] = "completed"

CallOnlyPlan ==
    /\ \E s \in Steps : seen[s] # "absent"
    /\ \A s \in Steps : seen[s] # "absent" => s = "call_engineer"

Challenges == RunnableNow \/ (executed = 0 /\ CallOnlyPlan)

WaitForInput ==
    /\ stage = "acting"
    /\ IF Challenges /\ ~challenged
       THEN challenged' = TRUE /\ Told /\ UNCHANGED outcome
       ELSE EndCycle("waiting") /\ UNCHANGED <<observation, challenged, turn, history>>
    /\ UNCHANGED <<run, decision, seen, executed, specialist, events>>

\* The specialist gets what is left of the budget.
Remaining == MaximumSteps - executed

Delegate(k) ==
    /\ stage = "acting" /\ stage' = "delegating"
    /\ kind' = k /\ subturn' = 0 /\ subexecuted' = 0 /\ subhistory' = <<>>
    /\ remaining' = Remaining
    /\ UNCHANGED <<run, observation, decision, commander, outcome, events>>

-----------------------------------------------------------------------------
(* SubagentRunnerService.run                                                     *)

EndDelegation ==
    /\ executed' = executed + subexecuted
    /\ Told
    /\ kind' = "none" /\ subturn' = 0 /\ subexecuted' = 0 /\ remaining' = 0 /\ subhistory' = <<>>
    /\ UNCHANGED <<run, decision, seen, challenged, outcome, events>>

Working == stage = "delegating" /\ subturn < SpecialistTurns

\* The steps it has dispatched count whether it reports,
Reports == Working /\ EndDelegation

\* its provider fails,
SpecialistFails == Working /\ EndDelegation

\* or it runs out of turns.
SpecialistExhausted ==
    stage = "delegating" /\ subturn = SpecialistTurns /\ EndDelegation

ToldSpecialist ==
    /\ subturn' = subturn + 1 /\ subhistory' = Exchange(subhistory, SpecialistHistory)

SpecialistNotOneCall ==
    /\ Working /\ subturn' = subturn + 1 /\ subhistory' = Complaint(subhistory)
    /\ UNCHANGED <<run, observation, decision, commander, stage, kind, subexecuted,
                   remaining, outcome, events>>

\* Malformed arguments, or a step over its budget or out of its scope.
SpecialistMalformed ==
    /\ Working /\ ToldSpecialist
    /\ UNCHANGED <<run, observation, decision, commander, stage, kind, subexecuted,
                   remaining, outcome, events>>

\* investigate leaves the row of a tool call in the run.
SpecialistReads ==
    /\ Working /\ Reads(kind) /\ ToldSpecialist
    /\ Changed({"evidence"})
    /\ UNCHANGED <<active, blocked, steps, observation, decision, commander, stage, kind,
                   subexecuted, remaining, outcome, events>>

\* subagentAvailableSteps, of the state the commander saw.
Available(s) == s \in Scope(kind) /\ CanRun(seen, s)

SpecialistDispatches(s) ==
    /\ Working /\ subexecuted < remaining /\ Available(s) /\ Confirm(s)
    /\ UNCHANGED <<run, commander, specialist, outcome, events>>

-----------------------------------------------------------------------------
(* actions.execute and actions.save, for either of them                          *)

\* The answer goes to whoever asked.
Answer ==
    IF kind = "none" THEN Told /\ UNCHANGED <<subturn, subhistory>>
    ELSE /\ ToldSpecialist /\ stage' = "delegating"
         /\ UNCHANGED <<observation, turn, history>>

\* The state has changed, or the step cannot run in the plan.
Refuse ==
    /\ Confirming
    /\ ~Holds \/ (target \in Steps /\ ~CanRun(seen, target))
    /\ Answer /\ Decided
    /\ UNCHANGED <<run, seen, executed, challenged, kind, subexecuted, remaining,
                   outcome, events>>

Accept ==
    /\ Confirming /\ Holds /\ (target \in Steps => CanRun(seen, target))
    /\ stage' = "dispatching"
    /\ UNCHANGED <<run, observation, decision, commander, specialist, outcome, events>>

\* The tool is started, and the step gets its status.
Dispatch ==
    /\ stage = "dispatching" /\ target \in Steps
    /\ \E status \in Dispatched(target) : steps' = [steps EXCEPT ![target] = status]
    /\ Changed({"plan", "evidence"})
    /\ IF kind = "none" THEN executed' = executed + 1 /\ UNCHANGED subexecuted
       ELSE subexecuted' = subexecuted + 1 /\ UNCHANGED executed
    /\ Answer /\ Decided
    /\ UNCHANGED <<active, blocked, seen, challenged, kind, remaining, outcome, events>>

\* A plan is saved: running and completed steps are carried as they were seen, the others
\* are proposed anew or gone.  Or the save fails.
Carried == {"running", "completed"}

SavePlan ==
    /\ stage = "dispatching" /\ target = "plan"
    /\ \/ \E proposed \in SUBSET Steps :
            steps' = [s \in Steps |->
               IF seen[s] \in Carried THEN seen[s]
               ELSE IF s \in proposed THEN "proposed" ELSE "absent"]
       \/ UNCHANGED steps
    /\ Changed({"incident", "plan", "evidence"})
    /\ Answer /\ Decided
    /\ UNCHANGED <<active, blocked, seen, executed, challenged, kind, subexecuted, remaining,
                   outcome, events>>

-----------------------------------------------------------------------------
(* What happens outside                                                          *)

Outside == events < MaximumEvents /\ events' = events + 1

\* A result arrives, the operator decides, or an approval expires.
StepSettles ==
    /\ Outside /\ Changed({"plan"})
    /\ \E s \in Steps :
        \/ steps[s] = "running"
           /\ \E status \in {"completed", "failed", "retrying"} :
                steps' = [steps EXCEPT ![s] = status]
        \/ steps[s] = "awaiting-approval"
           /\ \E status \in {"approved", "failed", "proposed"} :
                steps' = [steps EXCEPT ![s] = status]
    /\ UNCHANGED <<active, blocked, observation, decision, commander, specialist, stage,
                   outcome>>

\* A report comes in or is confirmed, evidence is recorded, the incident changes, or the
\* run is reset.
EvidenceChanges(p) ==
    /\ Outside /\ Changed({p})
    /\ blocked' \in IF p = "reports" THEN BOOLEAN ELSE {blocked}
    /\ active' \in IF p = "incident" THEN {active, FALSE} ELSE {active}
    /\ UNCHANGED <<steps, observation, decision, commander, specialist, stage, outcome>>

CommanderTurn ==
    \/ \E p \in Parts : Read(p)
    \/ Observed \/ OutOfTurns \/ ProviderFails \/ ProviderAnswers \/ Stale \/ Pending
    \/ NotOneCall \/ Malformed \/ ProposePlan \/ WaitForInput
    \/ \E s \in Steps : ExecuteStep(s)
    \/ \E k \in Specialists : Delegate(k)
    \/ Refuse \/ Accept \/ Dispatch \/ SavePlan

SpecialistTurn ==
    \/ Reports \/ SpecialistFails \/ SpecialistExhausted
    \/ SpecialistNotOneCall \/ SpecialistMalformed \/ SpecialistReads
    \/ \E s \in Steps : SpecialistDispatches(s)

Next == CommanderTurn \/ SpecialistTurn \/ StepSettles
        \/ \E p \in Parts \ {"plan"} : EvidenceChanges(p)

Spec == Init /\ [][Next]_vars

\* A provider answers or fails, and no call of the loop waits for anything else.
FairSpec == Spec /\ WF_vars(CommanderTurn) /\ WF_vars(SpecialistTurn)

-----------------------------------------------------------------------------
(* Properties *)

Paired(h) ==
    \A i \in DOMAIN h :
        /\ h[i] = "tool" => i > 1 /\ h[i - 1] = "assistant"
        /\ h[i] = "assistant" => i < Len(h) /\ h[i + 1] = "tool"

\* Whatever was trimmed from them, no conversation sent to a provider holds the result of a
\* call without the call, or a call without its result.
HistoryIsPaired == Paired(history) /\ Paired(subhistory)

\* No tool is started and no plan is saved unless there was a moment, after the model had
\* answered, at which the run was active, no report waited for the operator, and every part
\* of the state was what the model had been shown: the parts are read one by one, the first
\* time and the second, and what changed between two readings of a part, or between the
\* readings of two parts, never goes into a decision.
DispatchesAreCurrent == stage = "dispatching" => held

\* Every cycle ends, whatever the model answers.
CycleEnds == <>(stage = "ended")

=============================================================================

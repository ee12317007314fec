----------------------------- MODULE AgentCycle -----------------------------
(***************************************************************************)
(* The decision cycles of one run: AgentCycleStateService (the in-memory   *)
(* lock and its rerun flag), AgentService.requestCycle, executeCycle, the  *)
(* tick that resumes a stalled run, and the turns of LlmLoopService.run.   *)
(*                                                                         *)
(* The incident, the plan and the model are the environment: the plan is   *)
(* abstracted to what wakes or parks the agent, and what the model answers *)
(* is a choice.  requestCycle takes the lock, and finish hands it to the   *)
(* rerun, without an await in between, so each is part of one step.  A     *)
(* trigger is only counted: its kind, and the one kept in pendingChanges,  *)
(* choose a sentence of the prompt and nothing else.                       *)
(***************************************************************************)
EXTENDS Integers, FiniteSets

CONSTANTS
    Slots,          \* executions of executeCycle that may be in flight at once
    MaximumTurns,   \* LLM_MAXIMUM_TURNS
    MaximumQueue,   \* bound of this model on the triggers not yet handled
    MaximumChanges, \* bound of this model on external events
    MaximumRestarts,\* bound of this model on server restarts
    MayReset,       \* whether the operator may reset the run
    MayRecover,     \* whether the incident may reach the status recovered
    MayExhaust      \* whether the run may use up its cycle budget

ASSUME CycleAssumption ==
    /\ MaximumTurns \in Nat \ {0}
    /\ MaximumQueue \in Nat \ {0}
    /\ MaximumChanges \in Nat
    /\ MaximumRestarts \in Nat
    /\ {MayReset, MayRecover, MayExhaust} \subseteq BOOLEAN

VARIABLES
    active,         \* incident.active
    recovered,      \* incident.status = "recovered"
    callPending,    \* an incoming capacity report waits for the operator
    exhausted,      \* agentCycles has passed maximumCyclesPerRun
    plan,           \* what the latest plan leaves the agent to do
    undecided,      \* an applied change no accepted model decision has seen
    queue,          \* how many triggers are emitted and not yet handled
    entry,          \* the run's entry in AgentCycleStateService.states
    cooling,        \* stalledNudges holds a time within the cooldown
    forgetDue,      \* INCIDENT_RUN_DEACTIVATED is emitted and not yet handled
    stage,          \* stage[c]: where execution c of executeCycle is
    turn,           \* turn[c]: the turn of its LlmLoopService.run
    fresh,          \* fresh[c]: nothing changed since its last observation
    result,         \* result[c]: the outcome it is about to return
    changes,        \* external events so far (bound)
    restarts        \* restarts so far (bound)

environment == <<active, recovered, callPending, exhausted, plan, undecided, queue>>
memory == <<entry, cooling, forgetDue>>
execution == <<stage, turn, fresh, result>>
bounds == <<changes, restarts>>
vars == <<environment, memory, execution, bounds>>

-----------------------------------------------------------------------------
(* none      no plan yet                                                    *)
(* proposed  a step is proposed and its dependencies are completed          *)
(* approved  the only dispatchable steps are approved ones                  *)
(* waiting   a step is running or awaiting approval                         *)
(* blocked   proposed steps remain, and none can be dispatched              *)
(* settled   nothing is left to do                                          *)
PlanState == {"none", "proposed", "approved", "waiting", "blocked", "settled"}

Dispatchable == {"proposed", "approved"}

\* planHasOpenWork: proposed, running or awaiting approval.
OpenWork == {"proposed", "waiting", "blocked"}

Outcome == {"none", "completed", "skipped", "limit-reached", "failed", "rate-limited"}

Entry == [known : BOOLEAN, inProgress : BOOLEAN, rerun : BOOLEAN, last : Outcome]

\* The state get returns for a run that has no entry.
InitialState == [known |-> FALSE, inProgress |-> FALSE, rerun |-> FALSE, last |-> "none"]

Stage == {"idle", "checking", "observing", "deciding", "accepting", "finishing"}

Working == {"observing", "deciding", "accepting"}

Stale == [c \in Slots |-> FALSE]

\* An event is applied, and its handler will ask for a cycle later.
Emit == queue' = queue + 1

-----------------------------------------------------------------------------
(* Faulty variants of the definitions below: the mistakes the properties are     *)
(* there to catch.  Spec uses none of them.                                      *)

\* requestCycle that never asks whether a cycle is in progress.
RequestCycleUnlocked(c) ==
    /\ stage[c] = "idle"
    /\ entry' = [entry EXCEPT !.known = TRUE, !.inProgress = TRUE, !.rerun = FALSE]
    /\ stage' = [stage EXCEPT ![c] = "checking"]
    /\ UNCHANGED <<turn, fresh, result>>

\* finish that loses the rerun a busy cycle was asked for.
RunsAgainNever(outcome, stepsUsedUp) == FALSE

\* finish that is not reached when the cycle throws.
EntryAfterLeak(outcome, again) ==
    IF outcome = "failed" THEN entry
    ELSE [known |-> TRUE, inProgress |-> again, rerun |-> FALSE, last |-> outcome]

\* A tick that only retries failed cycles.
StalledAfterFailure == entry.last \in {"failed", "rate-limited"}

-----------------------------------------------------------------------------
(* requestCycle *)

Begin(c) ==
    /\ stage[c] = "idle"
    /\ entry' = [entry EXCEPT !.known = TRUE, !.inProgress = TRUE, !.rerun = FALSE]
    /\ stage' = [stage EXCEPT ![c] = "checking"]
    /\ UNCHANGED <<turn, fresh, result>>

\* tryBegin: the busy run is asked to run again, the idle one starts a cycle.
RequestCycle(c) ==
    IF entry.inProgress
    THEN entry' = [entry EXCEPT !.rerun = TRUE] /\ UNCHANGED execution
    ELSE Begin(c)

Deliver(c) ==
    /\ queue > 0
    /\ queue' = queue - 1
    /\ RequestCycle(c)
    /\ UNCHANGED <<active, recovered, callPending, exhausted, plan, undecided,
                   cooling, forgetDue, bounds>>

\* A forgotten entry has no rerun flag; after a rate limit the flag is dropped.
\* A cycle that used up its steps while one can still be dispatched asks for its
\* own rerun with tryBegin.
RunsAgain(outcome, stepsUsedUp) ==
    entry.known /\ (entry.rerun \/ stepsUsedUp) /\ outcome # "rate-limited"

\* finish, and the tryBegin of the follow-up cycle.
EntryAfter(outcome, again) ==
    IF entry.known
    THEN [known |-> TRUE, inProgress |-> again, rerun |-> FALSE, last |-> outcome]
    ELSE entry

\* The end of executeCycle, where a run that went inactive is skipped, and of
\* requestCycle, where the follow-up cycle begins at once.
Finish(c, stepsUsedUp) ==
    LET outcome == IF active THEN result[c] ELSE "skipped"
        again   == RunsAgain(outcome, stepsUsedUp)
    IN  /\ stage[c] = "finishing"
        /\ stepsUsedUp => outcome = "completed" /\ plan \in Dispatchable \cup {"waiting"}
        /\ cooling' = (cooling \/ outcome = "rate-limited")
        /\ entry' = EntryAfter(outcome, again)
        /\ stage' = [stage EXCEPT ![c] = IF again THEN "checking" ELSE "idle"]
        /\ result' = [result EXCEPT ![c] = "none"]
        /\ turn' = [turn EXCEPT ![c] = 0]
        /\ fresh' = [fresh EXCEPT ![c] = FALSE]
        /\ UNCHANGED <<environment, forgetDue, bounds>>

-----------------------------------------------------------------------------
(* executeCycle *)

Return(c, outcome) ==
    /\ stage' = [stage EXCEPT ![c] = "finishing"]
    /\ result' = [result EXCEPT ![c] = outcome]

\* The skips before any work: inactive, recovered with nothing open, an incoming
\* report that is not confirmed.
SkipCycle(c) ==
    /\ stage[c] = "checking"
    /\ ~active \/ (recovered /\ plan \notin OpenWork) \/ callPending
    /\ Return(c, "skipped")
    /\ UNCHANGED <<environment, memory, turn, fresh, bounds>>

\* incrementAgentCycles and the budget, then callEngineerImmediately, which
\* persists a first plan with the call and dispatches it.
StartCycle(c) ==
    /\ stage[c] = "checking"
    /\ active /\ ~(recovered /\ plan \notin OpenWork) /\ ~callPending
    /\ exhausted' \in IF MayExhaust THEN {exhausted, TRUE} ELSE {exhausted}
    /\ IF exhausted'
       THEN /\ Return(c, "limit-reached")
            /\ UNCHANGED <<plan, fresh>>
       ELSE /\ stage' = [stage EXCEPT ![c] = "observing"]
            /\ plan' \in IF plan = "none" THEN {"none", "waiting"} ELSE {plan}
            /\ fresh' = IF plan' # plan THEN Stale ELSE fresh
            /\ UNCHANGED result
    /\ UNCHANGED <<active, recovered, callPending, undecided, queue, memory, turn, bounds>>

TurnsLeft(c) == turn[c] < MaximumTurns

\* The start of a turn.  An observation of an inactive or blocked run ends the
\* cycle, and so does the turn budget.
Observe(c) ==
    /\ stage[c] = "observing"
    /\ IF ~TurnsLeft(c)
       THEN Return(c, "failed") /\ UNCHANGED <<turn, fresh>>
       ELSE IF ~active \/ callPending
       THEN Return(c, "skipped") /\ UNCHANGED <<turn, fresh>>
       ELSE /\ stage' = [stage EXCEPT ![c] = "deciding"]
            /\ turn' = [turn EXCEPT ![c] = @ + 1]
            /\ fresh' = [fresh EXCEPT ![c] = TRUE]
            /\ UNCHANGED result
    /\ UNCHANGED <<environment, memory, bounds>>

\* client.complete throws: an ordinary failure or HTTP 429.
ProviderFails(c) ==
    /\ stage[c] = "deciding"
    /\ \E outcome \in {"failed", "rate-limited"} : Return(c, outcome)
    /\ UNCHANGED <<environment, memory, turn, fresh, bounds>>

\* Any other exception of executeCycle, such as a database call that fails: it is
\* caught in requestCycle.  How often counts as an external event.
CycleThrows(c) ==
    /\ stage[c] # "idle" /\ changes < MaximumChanges
    /\ changes' = changes + 1
    /\ Return(c, "failed")
    /\ UNCHANGED <<environment, memory, turn, fresh, restarts>>

\* The answer arrives for a run that is inactive by now.
DiscardAnswer(c) ==
    /\ stage[c] = "deciding" /\ ~active
    /\ Return(c, "skipped")
    /\ UNCHANGED <<environment, memory, turn, fresh, bounds>>

\* The fingerprint differs: the answer is stale.  Work in flight ends the cycle,
\* since it will wake the loop when it settles; otherwise the loop observes again.
StaleAnswer(c) ==
    /\ stage[c] = "deciding" /\ active /\ ~fresh[c]
    /\ IF plan = "waiting"
       THEN Return(c, "completed")
       ELSE stage' = [stage EXCEPT ![c] = "observing"] /\ UNCHANGED result
    /\ UNCHANGED <<environment, memory, turn, fresh, bounds>>

\* Nothing had changed when the answer was compared: it is recorded as pending.
CompareAnswer(c) ==
    /\ stage[c] = "deciding" /\ active /\ fresh[c]
    /\ stage' = [stage EXCEPT ![c] = "accepting"]
    /\ UNCHANGED <<environment, memory, turn, fresh, result, bounds>>

\* A malformed answer, an invalid plan, a step that is not runnable, a wait that
\* is challenged, a change since the comparison: the turn is spent.
RejectAnswer(c) ==
    /\ stage[c] = "accepting"
    /\ stage' = [stage EXCEPT ![c] = "observing"]
    /\ UNCHANGED <<environment, memory, turn, fresh, result, bounds>>

\* propose_plan persists a version, execute_step dispatches a step: both observe
\* and compare once more, so that they act on what the model saw.
AcceptAction(c) ==
    /\ stage[c] = "accepting" /\ fresh[c]
    /\ \/ plan' \in PlanState \ {"none", "approved", "waiting"}
       \/ plan \in Dispatchable /\ plan' \in PlanState \ {"none"}
       \/ plan = "waiting" /\ plan' = "waiting"
    /\ undecided' = FALSE
    /\ fresh' = Stale
    /\ stage' = [stage EXCEPT ![c] = "observing"]
    /\ UNCHANGED <<active, recovered, callPending, exhausted, queue, memory,
                   turn, result, bounds>>

\* wait_for_input compares nothing more: it may park on a state that has changed.
AcceptWait(c) ==
    /\ stage[c] = "accepting"
    /\ undecided' = (undecided /\ ~fresh[c])
    /\ Return(c, "completed")
    /\ UNCHANGED <<active, recovered, callPending, exhausted, plan, queue,
                   memory, turn, fresh, bounds>>

-----------------------------------------------------------------------------
(* tick *)

\* The last cycle failed, or a proposed step can run and nothing is awaited.
Stalled == entry.last \in {"failed", "rate-limited"} \/ plan = "proposed"

\* resumeStalledRun: an idle stalled run gets a follow-up cycle once per cooldown.
ResumeStalledRun(c) ==
    /\ active /\ ~recovered
    /\ ~entry.inProgress /\ ~cooling
    /\ Stalled
    /\ cooling' = TRUE
    /\ RequestCycle(c)
    /\ UNCHANGED <<environment, forgetDue, bounds>>

CooldownEnds ==
    /\ cooling
    /\ cooling' = FALSE
    /\ UNCHANGED <<environment, entry, forgetDue, execution, bounds>>

-----------------------------------------------------------------------------
(* The environment *)

\* A harness event or a task update is applied to the incident.
ApplyChange ==
    /\ active /\ changes < MaximumChanges /\ queue < MaximumQueue
    /\ changes' = changes + 1
    /\ recovered' \in IF MayRecover THEN BOOLEAN ELSE {FALSE}
    /\ undecided' = TRUE
    /\ fresh' = Stale
    /\ Emit
    /\ UNCHANGED <<active, callPending, exhausted, plan, memory, stage, turn, result, restarts>>

\* An incoming capacity report is registered, and later confirmed by the operator.
IncomingCallReceived ==
    /\ active /\ ~callPending
    /\ changes < MaximumChanges /\ queue < MaximumQueue
    /\ changes' = changes + 1
    /\ callPending' = TRUE
    /\ fresh' = Stale
    /\ Emit
    /\ UNCHANGED <<active, recovered, exhausted, plan, undecided, memory,
                   stage, turn, result, restarts>>

IncomingCallConfirmed ==
    /\ active /\ callPending /\ queue < MaximumQueue
    /\ callPending' = FALSE
    /\ undecided' = TRUE
    /\ fresh' = Stale
    /\ Emit
    /\ UNCHANGED <<active, recovered, exhausted, plan, memory, stage, turn, result, bounds>>

\* A running call or an approval on the operator's desk settles or times out.
\* That others are still awaited happens a bounded number of times.
WorkSettles ==
    /\ plan = "waiting" /\ queue < MaximumQueue
    /\ \/ plan' \in PlanState \ {"none", "waiting"} /\ UNCHANGED changes
       \/ changes < MaximumChanges /\ plan' = plan /\ changes' = changes + 1
    /\ recovered' \in IF MayRecover THEN BOOLEAN ELSE {recovered}
    /\ fresh' = Stale
    /\ Emit
    /\ UNCHANGED <<active, callPending, exhausted, undecided, memory,
                   stage, turn, result, restarts>>

\* The operator resets the run: its row is replaced, and the event follows.
Deactivate ==
    /\ MayReset /\ active
    /\ active' = FALSE
    /\ forgetDue' = TRUE
    /\ fresh' = Stale
    /\ UNCHANGED <<recovered, callPending, exhausted, plan, undecided, queue,
                   entry, cooling, stage, turn, result, bounds>>

OnRunDeactivated ==
    /\ forgetDue
    /\ forgetDue' = FALSE
    /\ entry' = InitialState
    /\ UNCHANGED <<environment, cooling, execution, bounds>>

\* The server process ends: the rows survive, everything in memory is gone.
Restart ==
    /\ restarts < MaximumRestarts
    /\ restarts' = restarts + 1
    /\ entry' = InitialState
    /\ cooling' = FALSE
    /\ forgetDue' = FALSE
    /\ queue' = 0
    /\ stage' = [c \in Slots |-> "idle"]
    /\ turn' = [c \in Slots |-> 0]
    /\ fresh' = Stale
    /\ result' = [c \in Slots |-> "none"]
    /\ UNCHANGED <<active, recovered, callPending, exhausted, plan, undecided, changes>>

-----------------------------------------------------------------------------
\* The run has just been impacted and the event of the impact is on its way.
Init ==
    /\ active = TRUE
    /\ recovered = FALSE
    /\ callPending = FALSE
    /\ exhausted = FALSE
    /\ plan = "none"
    /\ undecided = TRUE
    /\ queue = 1
    /\ entry = InitialState
    /\ cooling = FALSE
    /\ forgetDue = FALSE
    /\ stage = [c \in Slots |-> "idle"]
    /\ turn = [c \in Slots |-> 0]
    /\ fresh = Stale
    /\ result = [c \in Slots |-> "none"]
    /\ changes = 0
    /\ restarts = 0

AcceptDecision(c) == AcceptAction(c) \/ AcceptWait(c)

Answer(c) ==
    \/ ProviderFails(c)
    \/ DiscardAnswer(c)
    \/ StaleAnswer(c)
    \/ CompareAnswer(c)
    \/ RejectAnswer(c)
    \/ AcceptDecision(c)

Execute(c) ==
    \/ SkipCycle(c)
    \/ StartCycle(c)
    \/ Observe(c)
    \/ Answer(c)
    \/ \E stepsUsedUp \in BOOLEAN : Finish(c, stepsUsedUp)

External ==
    \/ ApplyChange
    \/ IncomingCallReceived
    \/ IncomingCallConfirmed
    \/ Deactivate
    \/ Restart

Next ==
    \/ \E c \in Slots :
          \/ Execute(c)
          \/ Deliver(c)
          \/ ResumeStalledRun(c)
          \/ CycleThrows(c)
    \/ CooldownEnds
    \/ WorkSettles
    \/ OnRunDeactivated
    \/ External

(* An execution in progress advances, emitted events are handled, timers fire.  *)
(* Of the provider only this is assumed: asked again and again, it answers in   *)
(* time for some of the requests, and some of those answers are acceptable.     *)
(* Nothing is assumed of the operator.                                          *)
Fairness ==
    /\ \A c \in Slots : WF_vars(Execute(c))
    /\ SF_vars(\E c \in Slots : CompareAnswer(c))
    /\ SF_vars(\E c \in Slots : AcceptDecision(c))
    /\ WF_vars(\E c \in Slots : Deliver(c))
    /\ WF_vars(\E c \in Slots : ResumeStalledRun(c))
    /\ WF_vars(CooldownEnds)
    /\ WF_vars(OnRunDeactivated)
    /\ WF_vars(WorkSettles /\ ~recovered)

Spec == Init /\ [][Next]_vars /\ Fairness

-----------------------------------------------------------------------------
(* Properties *)

\* Every component of the cycle state has a value of its type.
TypeOK ==
    /\ {active, recovered, callPending, exhausted, undecided} \subseteq BOOLEAN
    /\ plan \in PlanState
    /\ queue \in 0..MaximumQueue
    /\ entry \in Entry
    /\ {cooling, forgetDue} \subseteq BOOLEAN
    /\ stage \in [Slots -> Stage]
    /\ turn \in [Slots -> 0..MaximumTurns]
    /\ fresh \in [Slots -> BOOLEAN]
    /\ result \in [Slots -> Outcome]
    /\ changes \in 0..MaximumChanges
    /\ restarts \in 0..MaximumRestarts

\* Two cycles of one run never observe, decide and act at the same time, even
\* when a reset forgets the lock under a cycle whose model request is in flight
\* and later triggers begin new ones (AgentCycleStateService, executeCycle).
OneWorkingCycle ==
    \A c, d \in Slots :
        stage[c] \in Working /\ stage[d] \in Working => c = d

\* While a run is active its lock is held exactly when an execution is in
\* flight: no failure path leaves the run locked, none runs without the lock.
LockHeldByExecution ==
    active => (entry.inProgress <=> \E c \in Slots : stage[c] # "idle")

\* Every applied change is seen by an accepted decision, unless the run ends, is
\* recovered, waits for the operator to confirm a report or runs out of cycles, or
\* a restart lost the trigger ("Queued domain events also trigger follow-up
\* cycles", LLM-AGENT.md).
ChangesAreDecided ==
    undecided ~> (\/ ~undecided \/ ~active \/ recovered \/ callPending \/ exhausted
                  \/ restarts > 0)

\* An idle run with a dispatchable proposed step gets another cycle, also after a
\* restart or a provider failure has lost the one it had (resumeStalledRun).
ProposedWorkIsResumed ==
    (active /\ plan = "proposed") ~>
        ((\E c \in Slots : stage[c] # "idle") \/ plan # "proposed" \/ ~active \/ recovered)

\* Claimed by the comment of resumeStalledRun, and refuted by TLC: runnable work that a
\* restart left without a cycle is resumed.  Runnable is proposed or approved.
RunnableWorkIsResumed ==
    (active /\ plan = "approved") ~>
        ((\E c \in Slots : stage[c] # "idle") \/ plan # "approved" \/ ~active \/ recovered)

\* The lock, the rerun flag and the turn budget keep what ExclusiveCycles promises: one
\* execution works at a time, none starts to work after a reset although the reset also
\* forgets the lock, and none works for ever (AgentCycleStateService, executeCycle).
Cycles ==
    INSTANCE ExclusiveCycles
    WITH Executions <- Slots, working <- {c \in Slots : stage[c] \in Working}

KeepsCyclesExclusive == Cycles!Spec
=============================================================================

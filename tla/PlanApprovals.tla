--------------------------- MODULE PlanApprovals ---------------------------
(***************************************************************************)
(* The plan versions of one live run, the operator approvals of their      *)
(* recovery steps, and the tool calls that request an approval or start a  *)
(* recovery: PlansService, ApprovalsService, SaveRecoveryPlanTool,         *)
(* RecoveryTool, ToolsService.execute and complete, and the methods of     *)
(* AgentService that drive them.                                           *)
(*                                                                         *)
(* One decision cycle, some operator requests, the tick, the handlers of   *)
(* finished tool calls and the bodies of tools whose calls have timed out  *)
(* run at once.  Each is a process whose local state holds what it has     *)
(* read: every await between a read and the write that depends on it is a  *)
(* point where the others may run.                                         *)
(*                                                                         *)
(* A step stands for the execute_recovery step of one service, which keeps *)
(* its identifier in every version and requires approval.                  *)
(***************************************************************************)
EXTENDS Integers, FiniteSets

CONSTANTS
    Steps,              \* recovery steps, by step identifier
    Operators,          \* decision requests in flight
    Ticks,              \* sweeps of expireOverdue in flight
    Callbacks,          \* TOOL_CALL_FINISHED handlers in flight
    Bodies,             \* bodies of save_recovery_plan and request_approval that may go
                        \* on at once after their calls have timed out
    Cycle,              \* the decision cycle of the run
    MaximumAttempts,    \* AGENT_MAXIMUM_STEP_ATTEMPTS
    MaximumVersions,    \* bound of this model on the plan versions
    MaximumRestarts     \* bound of this model on server restarts

Processes == Operators \cup Ticks \cup Callbacks \cup Bodies \cup {Cycle}

ASSUME ApprovalsAssumption ==
    /\ MaximumAttempts \in Nat \ {0}
    /\ MaximumVersions \in Nat \ {0}
    /\ MaximumRestarts \in Nat
    /\ Cycle \notin Operators \cup Ticks \cup Callbacks \cup Bodies
    /\ Operators \cap Ticks = {} /\ Operators \cap Callbacks = {}
    /\ Ticks \cap Callbacks = {}
    /\ Bodies \cap (Operators \cup Ticks \cup Callbacks) = {}

VARIABLES
    latest,     \* version of the latest plan, 0 before the first
    plan,       \* plan[v]: the committed row of plan version v
    approval,   \* approval[v][s]: status of the approval requested for s in v
    request,    \* request[v][s]: status of the request_approval tool call
    call,       \* call[s][n]: status of the execute_recovery call of attempt n
    local,      \* local[p]: where process p is and what it has read
    decided,    \* decided[v][s][d]: how often d was answered with success (history)
    executed,   \* executed[s]: the <<version, attempt>> started (history)
    reported,   \* reported[s]: the <<attempt, outcome>> recorded by finish (history)
    overlapped, \* approvals that were requested beside a late body (history)
    late,       \* recovery tools that go on after their call has timed out
    restarts    \* restarts so far (bound)

history == <<decided, executed, reported, overlapped>>
vars == <<latest, plan, approval, request, call, local, history, late, restarts>>

-----------------------------------------------------------------------------
Versions == 1..MaximumVersions

\* Nothing stops an attempt past the maximum: the model looks at one of them.
LastAttempt == MaximumAttempts + 1
Attempts == 1..LastAttempt

StepStatus == {"absent", "proposed", "awaiting-approval", "approved", "rejected",
               "running", "completed", "failed"}

\* approval: the version whose approval is linked by approvalIdentifier, or 0.
\* The step of a running call is linked to the call of attempt attempts.
Step == [status : StepStatus, approval : 0..MaximumVersions, attempts : 0..LastAttempt]

Absent   == [status |-> "absent",   approval |-> 0, attempts |-> 0]
Proposed == [status |-> "proposed", approval |-> 0, attempts |-> 0]

PlanStatus == {"none", "active", "superseded", "completed"}

Plan == [status : PlanStatus, steps : [Steps -> Step]]

NoPlan == [status |-> "none", steps |-> [s \in Steps |-> Absent]]

ApprovalStatus == {"none", "pending", "approved", "rejected", "superseded", "expired"}

\* retryable: failed with an error that may be tried again.
CallStatus == {"none", "running", "succeeded", "failed", "retryable"}

Outcomes == {"succeeded", "failed", "retryable"}

Carried == {"running", "completed"}

\* The value of a StepUpdate field that is left out.
Keep == -1

\* What RecoveryTool.execute still has to do: read the plan, read the approval,
\* start the recovery.
ToolStage == {"check-plan", "check-approval", "start"}

Following == [pc \in {"check-plan", "check-approval"} |->
                 IF pc = "check-plan" THEN "check-approval" ELSE "start"]

LateTool == [stage : ToolStage, version : Versions, step : Steps,
             attempt : Attempts, approval : 0..MaximumVersions]

\* The awaits of SaveRecoveryPlanTool.execute.
Revising == {"check-previous", "list", "supersede", "retire", "retired", "insert-plan"}

Local == [pc       : ToolStage \cup
                     {"idle", "decide", "record", "apply", "insert-approval",
                      "finish-request", "expire-request", "progress", "finish",
                      "settle", "read", "save"} \cup Revising,
          version  : 0..MaximumVersions,
          steps    : SUBSET Steps,
          pending  : SUBSET (Versions \X Steps),
          decision : ApprovalStatus,
          attempt  : 0..LastAttempt,
          outcome  : CallStatus,
          status   : StepStatus,
          approval : Keep..MaximumVersions,
          attempts : Keep..LastAttempt,
          row      : Plan,
          draft    : [Steps -> Step]]   \* the steps of the plan that is being saved

Idle == [pc |-> "idle", version |-> 0, steps |-> {}, pending |-> {}, decision |-> "none",
         attempt |-> 0, outcome |-> "none", status |-> "absent",
         approval |-> Keep, attempts |-> Keep, row |-> NoPlan, draft |-> NoPlan.steps]

ActiveVersions == {v \in Versions : plan[v].status = "active"}

\* findActivePlan: the highest version among the active ones, or 0.
ActiveVersion ==
    IF ActiveVersions = {} THEN 0
    ELSE CHOOSE v \in ActiveVersions : \A w \in ActiveVersions : w <= v

At(p, pc) == local[p].pc = pc

\* The one step a process works on.
StepOf(p) == CHOOSE s \in Steps : local[p].steps = {s}

Go(p, next) == local' = [local EXCEPT ![p] = next]

\* updateStep is called with these fields, and has to read the row first.
Update(v, s, status, approval_, attempts_) ==
    [Idle EXCEPT !.pc = "read", !.version = v, !.steps = {s}, !.status = status,
                 !.approval = approval_, !.attempts = attempts_]

-----------------------------------------------------------------------------
(* Faulty variants of the definitions below: the mistakes the properties are     *)
(* there to catch.  Spec uses none of them.                                      *)

\* A sweep that finds overdue approvals through the steps of the plan.
OverdueLinked(v, s) == approval[v][s] = "pending" /\ plan[v].steps[s].approval = v

\* A revision that leaves the approvals of the old plan on the desk.
ListPendingNone(p) ==
    /\ At(p, "list")
    /\ local' = [local EXCEPT ![p].pc = "supersede"]
    /\ UNCHANGED <<latest, plan, approval, request, call, history, late, restarts>>

\* A recovery that completes its step whatever the outcome of its output.
ResultUnread(v, s, n, outcome) ==
    Update(v, s, IF outcome = "retryable" THEN "proposed" ELSE "completed", Keep, n)

\* A retry of every failure.
ResultAlwaysRetried(v, s, n, outcome) ==
    Update(v, s, IF outcome = "succeeded" THEN "completed"
                 ELSE IF n < MaximumAttempts THEN "proposed" ELSE "failed", Keep, n)

\* An approval that counts in every version of the plan.
AuthorizesEveryVersion(v, s, a) == a # 0 /\ approval[a][s] = "approved"

-----------------------------------------------------------------------------
(* PlansService.updateStep and markCompleted, for every process *)

Filled(new, old) == IF new = Keep THEN old ELSE new

ReadStep(p) ==
    /\ At(p, "read")
    /\ LET l == local[p]
           s == StepOf(p)
           read == plan[l.version]
           updated == [status   |-> l.status,
                       approval |-> Filled(l.approval, read.steps[s].approval),
                       attempts |-> Filled(l.attempts, read.steps[s].attempts)]
       IN  Go(p, [Idle EXCEPT !.pc = "save", !.version = l.version,
                              !.row = [read EXCEPT !.steps[s] = updated]])
    /\ UNCHANGED <<latest, plan, approval, request, call, history, late, restarts>>

\* updateEntity: every column of the row that was read.
SavePlan(p) ==
    /\ At(p, "save")
    /\ plan' = [plan EXCEPT ![local[p].version] = local[p].row]
    /\ Go(p, Idle)
    /\ UNCHANGED <<latest, approval, request, call, history, late, restarts>>

-----------------------------------------------------------------------------
(* ApprovalsService.decide and expireOverdue, applyApprovalDecision *)

Decide(o, v, s, decision) ==
    /\ At(o, "idle") /\ approval[v][s] = "pending"
    /\ Go(o, [Idle EXCEPT !.pc = "decide", !.version = v, !.steps = {s},
                          !.decision = decision])
    /\ UNCHANGED <<latest, plan, approval, request, call, history, late, restarts>>

\* The approval must belong to the active plan, else it is superseded.
CheckActivePlan(o) ==
    /\ At(o, "decide")
    /\ local' = [local EXCEPT
          ![o].pc = "record",
          ![o].decision = IF ActiveVersion = local[o].version THEN @ ELSE "superseded"]
    /\ UNCHANGED <<latest, plan, approval, request, call, history, late, restarts>>

Overdue(v, s) == approval[v][s] = "pending"

\* expireOverdue found an approval past its deadline.
Expire(t, v, s) ==
    /\ At(t, "idle") /\ Overdue(v, s)
    /\ Go(t, [Idle EXCEPT !.pc = "record", !.version = v, !.steps = {s},
                          !.decision = "expired"])
    /\ UNCHANGED <<latest, plan, approval, request, call, history, late, restarts>>

Decisions == {"approved", "rejected"}

\* invalidate: superseded or expired, by no operator.
Invalidated(v, s, status) == [approval EXCEPT ![v][s] = status]

\* updateEntity of the approval that was read as pending.
RecordDecision(p) ==
    /\ At(p, "record")
    /\ LET l == local[p]
           s == StepOf(p)
       IN  /\ IF l.decision \in Decisions
              THEN /\ approval' = [approval EXCEPT ![l.version][s] = l.decision]
                   /\ decided' = [decided EXCEPT ![l.version][s][l.decision] = @ + 1]
              ELSE /\ approval' = Invalidated(l.version, s, l.decision)
                   /\ UNCHANGED decided
           /\ Go(p, IF l.decision = "superseded" THEN Idle ELSE [l EXCEPT !.pc = "apply"])
    /\ UNCHANGED <<latest, plan, request, call, overlapped, executed, reported, late, restarts>>

\* applyApprovalDecision: only the step of the active plan that is linked to it.
ApplyDecision(p) ==
    /\ At(p, "apply")
    /\ LET l == local[p]
           s == StepOf(p)
           v == l.version
       IN  IF ActiveVersion = v /\ plan[v].steps[s].approval = v
           THEN Go(p, IF l.decision = "expired"
                      THEN Update(v, s, "proposed", 0, Keep)
                      ELSE Update(v, s, l.decision, Keep, Keep))
           ELSE Go(p, Idle)
    /\ UNCHANGED <<latest, plan, approval, request, call, history, late, restarts>>

-----------------------------------------------------------------------------
(* The cycle saves a plan: createPlanVersion, SaveRecoveryPlanTool, createVersion *)

\* Rejected in any version, or out of attempts in the latest plan.
Constrained(s) ==
    \/ \E v \in Versions : approval[v][s] = "rejected"
    \/ /\ plan[latest].steps[s].status = "failed"
       /\ plan[latest].steps[s].attempts >= MaximumAttempts

\* Dispatched work is copied, everything else is proposed afresh or left out.
DraftSteps(s) ==
    IF latest = 0 THEN {Absent, Proposed}
    ELSE IF plan[latest].steps[s].status \in Carried THEN {plan[latest].steps[s]}
    ELSE IF Constrained(s) THEN {Absent} ELSE {Absent, Proposed}

AcceptPlan ==
    /\ At(Cycle, "idle") /\ latest < MaximumVersions
    /\ \E draft \in {d \in [Steps -> Step] : \A s \in Steps : d[s] \in DraftSteps(s)} :
          /\ \E s \in Steps : draft[s] # Absent
          /\ Go(Cycle, [Idle EXCEPT !.pc = "check-previous", !.version = latest,
                                    !.draft = draft])
    /\ UNCHANGED <<latest, plan, approval, request, call, history, late, restarts>>

\* A plan that does not follow the latest one is stale: the save fails, and the cycle
\* with it.
CheckPrevious(p) ==
    /\ At(p, "check-previous")
    /\ Go(p, IF local[p].version # latest THEN Idle
             ELSE [local[p] EXCEPT !.pc = IF latest = 0 THEN "insert-plan" ELSE "list"])
    /\ UNCHANGED <<latest, plan, approval, request, call, history, late, restarts>>

\* supersedePending: the approvals that were pending when it listed them.
ListPending(p) ==
    /\ At(p, "list")
    /\ local' = [local EXCEPT
          ![p].pc = "supersede",
          ![p].pending = {a \in Versions \X Steps : approval[a[1]][a[2]] = "pending"}]
    /\ UNCHANGED <<latest, plan, approval, request, call, history, late, restarts>>

SupersedePending(p) ==
    /\ At(p, "supersede")
    /\ \/ \E a \in local[p].pending :
             /\ approval' = Invalidated(a[1], a[2], "superseded")
             /\ local' = [local EXCEPT ![p].pending = @ \ {a}]
       \/ /\ local[p].pending = {}
          /\ local' = [local EXCEPT ![p].pc = "retire"]
          /\ UNCHANGED approval
    /\ UNCHANGED <<latest, plan, request, call, history, late, restarts>>

ReadPrevious(p) ==
    /\ At(p, "retire")
    /\ local' = [local EXCEPT
          ![p].pc = "retired",
          ![p].row = [plan[local[p].version] EXCEPT !.status = "superseded"]]
    /\ UNCHANGED <<latest, plan, approval, request, call, history, late, restarts>>

SavePrevious(p) ==
    /\ At(p, "retired")
    /\ plan' = [plan EXCEPT ![local[p].version] = local[p].row]
    /\ local' = [local EXCEPT ![p].pc = "insert-plan", ![p].row = NoPlan]
    /\ UNCHANGED <<latest, approval, request, call, history, late, restarts>>

\* The index on (run, version) lets one of the plans that follow a version in.
InsertPlan(p) ==
    /\ At(p, "insert-plan")
    /\ IF local[p].version = latest
       THEN /\ latest' = latest + 1
            /\ plan' = [plan EXCEPT ![latest + 1] =
                           [status |-> "active", steps |-> local[p].draft]]
       ELSE UNCHANGED <<latest, plan>>
    /\ Go(p, Idle)
    /\ UNCHANGED <<approval, request, call, history, late, restarts>>

\* runWithTimeout: the cycle fails without a plan, and the body of the tool goes on.
TimeOutSave(b) ==
    /\ local[Cycle].pc \in Revising /\ At(b, "idle")
    /\ local' = [local EXCEPT ![b] = local[Cycle], ![Cycle] = Idle]
    /\ UNCHANGED <<latest, plan, approval, request, call, history, late, restarts>>

-----------------------------------------------------------------------------
(* The cycle requests an approval: executeStep, requestApprovalFor *)

InPlan(s) == latest > 0 /\ plan[latest].status = "active" /\ plan[latest].steps[s] # Absent

AwaitApproval(v, s) == Update(v, s, "awaiting-approval", v, Keep)

\* A late save_recovery_plan is still revising the latest plan.
Overtaken == \E b \in Bodies : local[b].pc \in Revising /\ local[b].version = latest

\* ToolsService.execute finds the call by its key, the step and the version, or
\* inserts it.  A call that has no output makes the step fail.
RequestApproval(s) ==
    /\ At(Cycle, "idle") /\ InPlan(s)
    /\ plan[latest].steps[s].status = "proposed" /\ plan[latest].steps[s].approval = 0
    /\ IF request[latest][s] = "none"
       THEN /\ request' = [request EXCEPT ![latest][s] = "running"]
            /\ Go(Cycle, [Idle EXCEPT !.pc = "insert-approval", !.version = latest,
                                      !.steps = {s}])
            /\ overlapped' = IF Overtaken THEN overlapped \cup {<<latest, s>>}
                             ELSE overlapped
       ELSE /\ UNCHANGED <<request, overlapped>>
            /\ Go(Cycle, IF request[latest][s] = "succeeded"
                         THEN AwaitApproval(latest, s)
                         ELSE Update(latest, s, "failed", Keep, Keep))
    /\ UNCHANGED <<latest, plan, approval, call, decided, executed, reported, late, restarts>>

\* ApprovalsService.request.  Nobody waits for a body that is late.
InsertApproval(p) ==
    /\ At(p, "insert-approval")
    /\ approval' = [approval EXCEPT ![local[p].version][StepOf(p)] = "pending"]
    /\ Go(p, IF p = Cycle THEN [local[p] EXCEPT !.pc = "finish-request"] ELSE Idle)
    /\ UNCHANGED <<latest, plan, request, call, history, late, restarts>>

FinishRequest ==
    LET l == local[Cycle]
    IN  /\ At(Cycle, "finish-request")
        /\ request' = [request EXCEPT ![l.version][StepOf(Cycle)] = "succeeded"]
        /\ Go(Cycle, AwaitApproval(l.version, StepOf(Cycle)))
        /\ UNCHANGED <<latest, plan, approval, call, history, late, restarts>>

\* runWithTimeout: the request fails, and its body may still insert the approval.
TimeOutRequest(b) ==
    LET l == local[Cycle]
        s == StepOf(Cycle)
    IN  /\ At(Cycle, "insert-approval") /\ At(b, "idle")
        /\ request' = [request EXCEPT ![l.version][s] = "failed"]
        /\ overlapped' = overlapped \cup {<<l.version, s>>}
        /\ local' = [local EXCEPT ![b] = l,
                                  ![Cycle] = Update(l.version, s, "failed", Keep, Keep)]
        /\ UNCHANGED <<latest, plan, approval, call, decided, executed, reported, late,
                       restarts>>

\* expireRunningCalls reads a request that is running, and then fails it.
FindRequest(c, v, s) ==
    /\ At(c, "idle") /\ request[v][s] = "running"
    /\ Go(c, [Idle EXCEPT !.pc = "expire-request", !.version = v, !.steps = {s}])
    /\ UNCHANGED <<latest, plan, approval, request, call, history, late, restarts>>

ExpireRequest(c) ==
    /\ At(c, "expire-request")
    /\ request' = [request EXCEPT ![local[c].version][StepOf(c)] = "failed"]
    /\ Go(c, Idle)
    /\ UNCHANGED <<latest, plan, approval, call, history, late, restarts>>

-----------------------------------------------------------------------------
(* The cycle starts a recovery: executeStep, RecoveryTool.execute *)

\* applyToolResult.  An output with the outcome failure is a failed call here.
Result(v, s, n, outcome) ==
    CASE outcome = "succeeded" -> Update(v, s, "completed", Keep, n)
      [] outcome = "retryable" ->
            Update(v, s, IF n < MaximumAttempts THEN "proposed" ELSE "failed", Keep, n)
      [] OTHER -> Update(v, s, "failed", Keep, MaximumAttempts)

\* A recovery in progress makes the step running, any other outcome settles it.
Outcome(v, s, n, outcome) ==
    IF outcome = "running" THEN Update(v, s, "running", Keep, n)
    ELSE Result(v, s, n, outcome)

\* ToolsService.execute finds a call with the key of the step and the attempt,
\* whatever version of the plan it was made for.
Known(s, n) == call[s][n] # "none"

Dispatch(s) ==
    LET step == plan[latest].steps[s]
        n    == step.attempts + 1
    IN  /\ At(Cycle, "idle") /\ InPlan(s) /\ n \in Attempts
        /\ step.status = "approved" \/ (step.status = "proposed" /\ step.approval # 0)
        /\ IF Known(s, n)
           THEN /\ UNCHANGED call
                /\ Go(Cycle, Outcome(latest, s, n, call[s][n]))
           ELSE /\ call' = [call EXCEPT ![s][n] = "running"]
                /\ Go(Cycle, [Idle EXCEPT !.pc = "check-plan", !.version = latest,
                                          !.steps = {s}, !.attempt = n,
                                          !.approval = step.approval])
        /\ UNCHANGED <<latest, plan, approval, request, history, late, restarts>>

\* The approval the step was linked to when it was dispatched belongs to this
\* version of the plan and is approved.
Authorizes(v, s, a) == a = v /\ approval[v][s] = "approved"

Runnable(v, s) ==
    ActiveVersion = v /\ plan[v].steps[s].status \in {"proposed", "approved"}

\* finish
Report(s, n, outcome) ==
    /\ call' = [call EXCEPT ![s][n] = outcome]
    /\ reported' = [reported EXCEPT ![s] = @ \cup {<<n, outcome>>}]

\* RecoveryTool.execute reads the plan and then the approval.
Checked(stage, v, s, a) ==
    IF stage = "check-plan" THEN Runnable(v, s) ELSE Authorizes(v, s, a)

InTool == local[Cycle].pc \in ToolStage

CheckRecovery ==
    LET l == local[Cycle]
    IN  /\ l.pc \in DOMAIN Following
        /\ Checked(l.pc, l.version, StepOf(Cycle), l.approval)
        /\ local' = [local EXCEPT ![Cycle].pc = Following[l.pc]]
        /\ UNCHANGED <<latest, plan, approval, request, call, history, late, restarts>>

\* What the tool returned goes to finish, or to the write of a call in progress.
Returns(outcome) ==
    local' = [local EXCEPT ![Cycle].pc = "progress", ![Cycle].outcome = outcome]

\* A check fails.  The services and the capacity are not modelled: they may refuse
\* what the plan and the approval allow.
RefuseRecovery ==
    /\ InTool /\ Returns("failed")
    /\ UNCHANGED <<latest, plan, approval, request, call, history, late, restarts>>

\* RecoveryService.execute: the recovery is in progress or has already ended.
StartRecovery ==
    LET l == local[Cycle]
    IN  /\ At(Cycle, "start")
        /\ executed' = [executed EXCEPT ![StepOf(Cycle)] = @ \cup {<<l.version, l.attempt>>}]
        /\ \E outcome \in Outcomes \cup {"running"} : Returns(outcome)
        /\ UNCHANGED <<latest, plan, approval, request, call, overlapped, decided, reported,
                       late, restarts>>

\* runWithTimeout: the cycle goes on with a retryable failure, and the tool goes on
\* as well.  A tool that throws ends its call in the same way.
TimeOutTool ==
    LET l == local[Cycle]
    IN  /\ InTool /\ Returns("retryable")
        /\ late' = late \cup {[stage |-> l.pc, version |-> l.version, step |-> StepOf(Cycle),
                               attempt |-> l.attempt, approval |-> l.approval]}
        /\ UNCHANGED <<latest, plan, approval, request, call, history, restarts>>

\* What the late tool returns, and the result of its recovery, are ignored: its
\* call is not running any more.
LateToolContinues(t) ==
    /\ IF t.stage = "start"
       THEN /\ executed' = [executed EXCEPT ![t.step] = @ \cup {<<t.version, t.attempt>>}]
            /\ late' = late \ {t}
       ELSE /\ Checked(t.stage, t.version, t.step, t.approval)
            /\ late' = (late \ {t}) \cup {[t EXCEPT !.stage = Following[@]]}
            /\ UNCHANGED executed
    /\ UNCHANGED <<latest, plan, approval, request, call, local, overlapped, decided,
                   reported, restarts>>

\* execute writes the row of the call as it was inserted, with the outcome or still
\* running, and executeStep goes on with it.
RecordOutcome ==
    LET l == local[Cycle]
        s == StepOf(Cycle)
    IN  /\ At(Cycle, "progress")
        /\ IF l.outcome = "running"
           THEN /\ call' = [call EXCEPT ![s][l.attempt] = "running"]
                /\ UNCHANGED reported
           ELSE Report(s, l.attempt, l.outcome)
        /\ Go(Cycle, Outcome(l.version, s, l.attempt, l.outcome))
        /\ UNCHANGED <<latest, plan, approval, request, overlapped, decided, executed, late,
                       restarts>>

Started(s, n) == \E v \in Versions : <<v, n>> \in executed[s]

\* complete and expireRunningCalls find a running call: its recovery has reported, or
\* the call has timed out, perhaps before its recovery started.
FindCall(c, s, n) ==
    /\ At(c, "idle") /\ call[s][n] = "running"
    /\ \E outcome \in Outcomes :
          /\ Started(s, n) \/ outcome = "retryable"
          /\ Go(c, [Idle EXCEPT !.pc = "finish", !.steps = {s}, !.attempt = n,
                                !.outcome = outcome])
    /\ UNCHANGED <<latest, plan, approval, request, call, history, late, restarts>>

\* They write the whole row that they found running.
FinishCall(c) ==
    LET l == local[c]
    IN  /\ At(c, "finish")
        /\ Report(StepOf(c), l.attempt, l.outcome)
        /\ local' = [local EXCEPT ![c].pc = "settle"]
        /\ UNCHANGED <<latest, plan, approval, request, overlapped, decided, executed, late,
                       restarts>>

\* onToolCallFinished: the running step of the active plan linked to the call.
SettleCall(c) ==
    LET s == StepOf(c)
        n == local[c].attempt
        v == ActiveVersion
    IN  /\ At(c, "settle")
        /\ Go(c, IF v # 0 /\ plan[v].steps[s].status = "running"
                    /\ plan[v].steps[s].attempts = n
                 THEN Result(v, s, n, local[c].outcome) ELSE Idle)
        /\ UNCHANGED <<latest, plan, approval, request, call, history, late, restarts>>

\* isPlanSettled.  The decisions on services and the tasks of the team, which it also
\* looks at, are not part of this model: CompletePlan may wait for them.
IsSettled(p) ==
    /\ p.status = "active"
    /\ \A s \in Steps : p.steps[s].status \in {"absent", "completed"}

\* completePlanIfSettled, markCompleted
CompletePlan ==
    /\ At(Cycle, "idle") /\ latest > 0 /\ IsSettled(plan[latest])
    /\ Go(Cycle, [Idle EXCEPT !.pc = "save", !.version = latest,
                              !.row = [plan[latest] EXCEPT !.status = "completed"]])
    /\ UNCHANGED <<latest, plan, approval, request, call, history, late, restarts>>

-----------------------------------------------------------------------------
\* The server process ends: the rows survive, every handler is cut off.
Restart ==
    /\ restarts < MaximumRestarts
    /\ restarts' = restarts + 1
    /\ local' = [p \in Processes |-> Idle]
    /\ late' = {}
    /\ UNCHANGED <<latest, plan, approval, request, call, history>>

Init ==
    /\ latest = 0
    /\ plan = [v \in Versions |-> NoPlan]
    /\ approval = [v \in Versions |-> [s \in Steps |-> "none"]]
    /\ request = [v \in Versions |-> [s \in Steps |-> "none"]]
    /\ call = [s \in Steps |-> [n \in Attempts |-> "none"]]
    /\ local = [p \in Processes |-> Idle]
    /\ decided = [v \in Versions |-> [s \in Steps |-> [d \in Decisions |-> 0]]]
    /\ executed = [s \in Steps |-> {}]
    /\ reported = [s \in Steps |-> {}]
    /\ overlapped = {}
    /\ late = {}
    /\ restarts = 0

Continue(p) == ReadStep(p) \/ SavePlan(p) \/ RecordDecision(p) \/ ApplyDecision(p)

Tick(t) == \E v \in Versions, s \in Steps : Expire(t, v, s)

Body(p) ==
    \/ CheckPrevious(p) \/ ListPending(p) \/ SupersedePending(p)
    \/ ReadPrevious(p) \/ SavePrevious(p) \/ InsertPlan(p)
    \/ InsertApproval(p)

CycleStep ==
    \/ AcceptPlan
    \/ \E s \in Steps : RequestApproval(s) \/ Dispatch(s)
    \/ FinishRequest
    \/ CheckRecovery \/ RefuseRecovery \/ StartRecovery \/ TimeOutTool
    \/ RecordOutcome \/ CompletePlan

Next ==
    \/ \E p \in Processes : Continue(p)
    \/ \E o \in Operators :
          \/ \E v \in Versions, s \in Steps, d \in Decisions : Decide(o, v, s, d)
          \/ CheckActivePlan(o)
    \/ \E t \in Ticks : Tick(t)
    \/ \E c \in Callbacks :
          \/ \E s \in Steps, n \in Attempts : FindCall(c, s, n)
          \/ FinishCall(c) \/ SettleCall(c)
          \/ \E v \in Versions, s \in Steps : FindRequest(c, v, s)
          \/ ExpireRequest(c)
    \/ CycleStep
    \/ \E p \in Bodies \cup {Cycle} : Body(p)
    \/ \E b \in Bodies : TimeOutSave(b) \/ TimeOutRequest(b)
    \/ \E t \in late : LateToolContinues(t)
    \/ Restart

\* The tick comes round, and its database calls return.  Nothing is assumed of
\* the operator and of the cycle.
Fairness == \A t \in Ticks : WF_vars(Tick(t)) /\ WF_vars(Continue(t))

Spec == Init /\ [][Next]_vars /\ Fairness

-----------------------------------------------------------------------------
(* Properties *)

\* Every row and everything a process has read has a value of its type.
TypeOK ==
    /\ latest \in 0..MaximumVersions
    /\ plan \in [Versions -> Plan]
    /\ approval \in [Versions -> [Steps -> ApprovalStatus]]
    /\ request \in [Versions -> [Steps -> CallStatus]]
    /\ call \in [Steps -> [Attempts -> CallStatus]]
    /\ local \in [Processes -> Local]
    /\ overlapped \subseteq Versions \X Steps
    /\ decided \in [Versions -> [Steps -> [Decisions -> Nat]]]
    /\ executed \in [Steps -> SUBSET (Versions \X Attempts)]
    /\ reported \in [Steps -> SUBSET (Attempts \X Outcomes)]
    /\ late \subseteq LateTool
    /\ restarts \in 0..MaximumRestarts

\* A recovery only ever starts under an approval that an operator granted for
\* this step in this version of the plan, whatever stale rows were written over
\* the step, whatever approval it was carried with, and however late its tool
\* comes to it (RecoveryTool.execute).
RecoveryIsAuthorized ==
    \A s \in Steps : \A e \in executed[s] : decided[e[1]][s]["approved"] > 0

\* An approval of an earlier version is pending only if a late body put it there: it was
\* requested while a save_recovery_plan whose call had timed out was still revising that
\* version, or by a request_approval whose own call had timed out.  Any other revision
\* leaves the operator nothing to decide on that belongs to an earlier plan.
PendingIsOfLatestPlan ==
    \A v \in Versions, s \in Steps :
        approval[v][s] = "pending" => v = latest \/ <<v, s>> \in overlapped

\* Each attempt starts one recovery in all versions together, and a retry starts only
\* after the call of the attempt before it was recorded as failed and retryable, although
\* stale rows and late results may take the status and the attempts of a step back: in a
\* plan with one recovery, and while decisions on an approval do not overlap.
RetriesOnlyFailures ==
    [][\A s \in Steps : \A e \in executed'[s] \ executed[s] :
          /\ ~Started(s, e[2])
          /\ e[2] > 1 => <<e[2] - 1, "retryable">> \in reported[s]]_vars

\* A step of any version that is completed has a recovery that was started and
\* reported success, although late results and stale rows are written over it.
CompletedMeansSucceeded ==
    \A v \in Versions, s \in Steps :
        plan[v].steps[s].status = "completed" =>
            \E n \in Attempts : Started(s, n) /\ <<n, "succeeded">> \in reported[s]

\* No approval stays on the desk for ever, even when a restart lost the cycle
\* that was about to link it to its step (expireOverdue).
PendingIsSettled ==
    \A v \in Versions, s \in Steps :
        (approval[v][s] = "pending") ~> (approval[v][s] # "pending")

Quiet == \A p \in Processes : At(p, "idle")

\* Claimed by the documentation: an approval is decided once.
DecidedOnce ==
    \A v \in Versions, s \in Steps :
        decided[v][s]["approved"] + decided[v][s]["rejected"] <= 1

\* Claimed by the documentation: an expired approval is requested again.
ExpiredIsRequestedAgain ==
    Quiet => \A s \in Steps : InPlan(s) =>
        ~(/\ plan[latest].steps[s].status = "awaiting-approval"
          /\ approval[latest][s] = "expired")

\* Claimed by the documentation: a revision supersedes the pending approvals of the plan
\* it replaces.
ObsoleteIsSuperseded ==
    \A v \in Versions, s \in Steps : approval[v][s] = "pending" => v = latest

\* Claimed by the comment of hasInFlightWork: running work wakes the loop when it
\* settles.  A step whose call is finished waits for an event that has passed.
RunningWorkIsOpen ==
    Quiet => \A s \in Steps : InPlan(s) =>
        (plan[latest].steps[s].status = "running" =>
            call[s][plan[latest].steps[s].attempts] = "running")
=============================================================================

--------------------------- MODULE RecoveryActions ---------------------------
(***************************************************************************)
(* The recovery of one service: execute_recovery (recovery-tools.ts) run   *)
(* by ToolsService, RecoveryService, which allocates capacity, records the *)
(* action and asks an adapter to carry it out, and the two adapters.  The  *)
(* simulated one delivers its result by a timer of the server's process;   *)
(* behind the HTTP one is an environment that answers the request, and may *)
(* call back before the server has written the answer, twice, or never.    *)
(*                                                                         *)
(* A tool call that times out is not interrupted, and AgentService         *)
(* dispatches the step again: two executions may overlap.  Each write of   *)
(* the incident is two steps, the read of its row and, after an await, the *)
(* write of every column of it: one that overlaps another undoes it.       *)
(***************************************************************************)
EXTENDS Integers, FiniteSets

CONSTANTS
    Modes,              \* the adapters of the configurations checked
    Cost,               \* recoveryCapacityUnits of the service
    Total,              \* totalCapacity of its region
    MaximumStepAttempts,
    HttpAttempts,       \* bound of this model on the attempts with the HTTP adapter
    MaximumCallbacks,   \* bound of this model on the callbacks of one action
    MaximumCrashes,     \* bound of this model on restarts of the server
    MaximumOthers       \* bound of this model on writes of the incident by other handlers

ASSUME RecoveryActionsAssumption ==
    /\ Modes \subseteq {"simulated", "http"}
    /\ Cost \in Nat \ {0} /\ Total \in Nat
    /\ MaximumStepAttempts \in Nat \ {0} /\ HttpAttempts \in Nat /\ MaximumCallbacks \in Nat \ {0}
    /\ MaximumCrashes \in Nat /\ MaximumOthers \in Nat

Attempts == 1..MaximumStepAttempts

\* Who may finish an action: its own execution, or a delivery of its result.
Own == 0
Workers == Own..MaximumCallbacks

VARIABLES
    mode,       \* the adapter
    row,        \* the row of the incident: the health of the service, whether every
                \* service it depends on is healthy, allocatedCapacity of the region
    copy,       \* copy[k][w]: the row as worker w of attempt k has read it, to write it
    other,      \* the row as another handler of the server has read it, to write it
    tool,       \* tool[k]: the row of the tool call of attempt k
    action,     \* action[k]: the row of its recovery action
    outcome,    \* outcome[k]: what became of the request in the environment
    at,         \* at[k][w]: where worker w of attempt k is
    given,      \* given[k][w]: the result it is applying
    check,      \* the status the verification observed, or what it made of its step
    crashes, others,
    torn        \* a history: a row was written that had changed since it was read

incident == <<row, copy, other, torn>>
vars == <<mode, row, copy, other, tool, action, outcome, at, given, check, crashes, others, torn>>

Outcomes == {"success", "partial", "failure"}
ActionStatus == {"none", "requested", "running", "succeeded", "partial", "failed"}
HealthStatus == {"healthy", "degraded", "down", "recovering"}
ToolStatus == {"unused", "running", "succeeded", "failed", "timed-out"}
Rows == [health : HealthStatus, upstream : BOOLEAN, allocated : 0..Total]
Unread == [health |-> "none", upstream |-> TRUE, allocated |-> 0]
Places == {"idle", "checking", "allocating", "allocated", "recovering", "requesting",
           "accepted", "returning", "finishing", "applying", "releasing", "emitting", "gone"}

TypeOK ==
    /\ mode \in Modes
    /\ row \in Rows /\ torn \in BOOLEAN
    /\ copy \in [Attempts -> [Workers -> Rows \cup {Unread}]] /\ other \in Rows \cup {Unread}
    /\ check \in HealthStatus \cup {"none", "completed", "followed-up", "failed"}
    /\ tool \in [Attempts -> ToolStatus] /\ action \in [Attempts -> ActionStatus]
    /\ outcome \in [Attempts -> {"none"} \cup Outcomes]
    /\ at \in [Attempts -> [Workers -> Places]]
    /\ given \in [Attempts -> [Workers -> {"none"} \cup Outcomes]]
    /\ crashes \in 0..MaximumCrashes /\ others \in 0..MaximumOthers

Init ==
    /\ mode \in Modes
    /\ row \in [health : {"down", "degraded"}, upstream : {TRUE}, allocated : {0}] /\ torn = FALSE
    /\ copy = [k \in Attempts |-> [w \in Workers |-> Unread]] /\ other = Unread
    /\ tool = [k \in Attempts |-> "unused"] /\ action = [k \in Attempts |-> "none"]
    /\ outcome = [k \in Attempts |-> "none"]
    /\ at = [k \in Attempts |-> [w \in Workers |-> "idle"]]
    /\ given = [k \in Attempts |-> [w \in Workers |-> "none"]]
    /\ check = "none" /\ crashes = 0 /\ others = 0

\* Worker w of attempt k goes from one place to another, or starts to apply a result.
Go(k, w, from, to) ==
    at[k][w] = from /\ at' = [at EXCEPT ![k][w] = to] /\ UNCHANGED given

Apply(k, w, from, result) ==
    /\ at[k][w] = from /\ at' = [at EXCEPT ![k][w] = "finishing"]
    /\ given' = [given EXCEPT ![k][w] = result]

Applied(k, w) ==
    /\ at[k][w] = "applying"
    /\ at' = [at EXCEPT ![k][w] = IF given[k][w] = "failure" THEN "releasing" ELSE "emitting"]
    /\ given' = [given EXCEPT ![k][w] = "none"]

\* A request that timed out goes on, and what it returns is ignored.
Settle(k, status) ==
    tool' = [tool EXCEPT ![k] = IF @ = "timed-out" THEN @ ELSE status]

\* The second half of a write of the incident: all columns, from the row that was read.
Write(k, w, new) ==
    /\ copy[k][w] # Unread
    /\ row' = new /\ torn' = (torn \/ copy[k][w] # row)
    /\ copy' = [copy EXCEPT ![k][w] = Unread] /\ UNCHANGED other

-----------------------------------------------------------------------------
(* Faulty variants of the definitions below: the mistakes the properties are     *)
(* there to catch.  Spec uses none of them.                                      *)

\* A failure that leaves the service as a partial recovery does.
FailureDegrades(result) == IF result = "success" THEN "healthy" ELSE "degraded"

\* The units of a failed recovery stay allocated.
ReleaseNothing(k, w) ==
    /\ Go(k, w, "releasing", "emitting")
    /\ Write(k, w, copy[k][w])
    /\ UNCHANGED <<mode, tool, action, outcome, check, crashes, others>>

\* Calls the environment has accepted are left to its callback.
ExpireUnaccepted(k) == tool[k] = "running" /\ action[k] # "running"

-----------------------------------------------------------------------------
(* ToolsService.execute and ExecuteRecoveryTool.execute                          *)

\* A step is dispatched, and again once a call of it has timed out.
Dispatch(k) ==
    /\ tool[k] = "unused" /\ (k > 1 => tool[k - 1] = "timed-out")
    /\ mode = "http" => k <= HttpAttempts
    /\ tool' = [tool EXCEPT ![k] = "running"]
    /\ Go(k, Own, "idle", "checking")
    /\ UNCHANGED <<mode, incident, action, outcome, check, crashes, others>>

CheckPreconditions(k) ==
    /\ IF row.upstream THEN Go(k, Own, "checking", "allocating") /\ UNCHANGED tool
       ELSE Go(k, Own, "checking", "gone") /\ Settle(k, "failed")
    /\ UNCHANGED <<mode, incident, action, outcome, check, crashes, others>>

\* runWithTimeout, while the execution is under way, and expireRunningCalls.
Expirable(k) == tool[k] = "running"

Expire(k) ==
    /\ Expirable(k)
    /\ tool' = [tool EXCEPT ![k] = "timed-out"]
    /\ UNCHANGED <<mode, incident, action, outcome, at, given, check, crashes, others>>

-----------------------------------------------------------------------------
(* RecoveryService.execute                                                       *)

\* The first half of the writes of the incident, by this execution or by a delivery.
ReadRow(k, w) ==
    /\ at[k][w] \in {"allocating", "allocated", "applying", "releasing"}
    /\ copy[k][w] = Unread /\ copy' = [copy EXCEPT ![k][w] = row]
    /\ UNCHANGED <<mode, row, other, torn, tool, action, outcome, at, given, check, crashes, others>>

AllocateCapacity(k) ==
    LET read == copy[k][Own] IN
    /\ \/ /\ read.allocated + Cost <= Total
          /\ Go(k, Own, "allocating", "allocated")
          /\ Write(k, Own, [read EXCEPT !.allocated = @ + Cost]) /\ UNCHANGED tool
       \/ /\ read # Unread /\ read.allocated + Cost > Total
          /\ Go(k, Own, "allocating", "gone") /\ Settle(k, "failed")
          /\ copy' = [copy EXCEPT ![k][Own] = Unread] /\ UNCHANGED <<row, other, torn>>
    /\ UNCHANGED <<mode, action, outcome, check, crashes, others>>

SetRecovering(k) ==
    /\ Go(k, Own, "allocated", "recovering")
    /\ Write(k, Own, [copy[k][Own] EXCEPT !.health = "recovering"])
    /\ UNCHANGED <<mode, tool, action, outcome, check, crashes, others>>

\* The row is inserted, and the adapter called.
Request(k) ==
    /\ Go(k, Own, "recovering", "requesting")
    /\ action' = [action EXCEPT ![k] = "requested"]
    /\ UNCHANGED <<mode, incident, tool, outcome, check, crashes, others>>

\* The environment takes the request, if it reaches it.
Take(k, result) ==
    /\ at[k][Own] = "requesting" /\ outcome[k] = "none"
    /\ outcome' = [outcome EXCEPT ![k] = result]
    /\ UNCHANGED <<mode, incident, tool, action, at, given, check, crashes, others>>

\* The adapter returns: the action was accepted,
Accepted(k) ==
    /\ outcome[k] # "none" /\ Go(k, Own, "requesting", "accepted")
    /\ UNCHANGED <<mode, incident, tool, action, outcome, check, crashes, others>>

\* it was carried out at once, or the request failed, for all the server knows.
Answered(k, result) ==
    /\ mode = "http" /\ result \in {outcome[k], "failure"} \ {"none"}
    /\ Apply(k, Own, "requesting", result)
    /\ UNCHANGED <<mode, incident, tool, action, outcome, check, crashes, others>>

\* The row read before the request is written back, whatever it has become.
WriteRunning(k) ==
    /\ Go(k, Own, "accepted", "returning")
    /\ action' = [action EXCEPT ![k] = "running"]
    /\ UNCHANGED <<mode, incident, tool, outcome, check, crashes, others>>

\* So is the row of the tool call.
Return(k) ==
    /\ Go(k, Own, "returning", "gone")
    /\ Settle(k, "running")
    /\ UNCHANGED <<mode, incident, action, outcome, check, crashes, others>>

-----------------------------------------------------------------------------
(* RecoveryService.complete, finish and applyResultToHarness                     *)

\* The timer of the simulated adapter, which fires once and outlives a write, or a
\* callback of the environment.
Delivers(k, w) ==
    /\ w # Own /\ outcome[k] # "none"
    /\ mode = "simulated" => (w = 1 /\ at[k][Own] = "gone")

\* complete: a finished action receives no other result.
Deliver(k, w) ==
    /\ Delivers(k, w) /\ action[k] \in {"requested", "running"}
    /\ Apply(k, w, "idle", outcome[k])
    /\ UNCHANGED <<mode, incident, tool, action, outcome, check, crashes, others>>

StatusOf(result) ==
    CASE result = "success" -> "succeeded" [] result = "partial" -> "partial" [] OTHER -> "failed"

Finish(k, w) ==
    /\ Go(k, w, "finishing", "applying")
    /\ action' = [action EXCEPT ![k] = StatusOf(given[k][w])]
    /\ UNCHANGED <<mode, incident, tool, outcome, check, crashes, others>>

\* setServiceStatus, and propagateDependencyHealth in it.
HealthOf(result) ==
    CASE result = "success" -> "healthy" [] result = "partial" -> "degraded" [] OTHER -> "down"

Propagated(r) == [r EXCEPT !.health = IF @ = "degraded" /\ r.upstream THEN "healthy" ELSE @]

ApplyResult(k, w) ==
    /\ Applied(k, w)
    /\ Write(k, w, Propagated([copy[k][w] EXCEPT !.health = HealthOf(given[k][w])]))
    /\ UNCHANGED <<mode, tool, action, outcome, check, crashes, others>>

ReleaseCapacity(k, w) ==
    /\ Go(k, w, "releasing", "emitting")
    /\ Write(k, w, [copy[k][w] EXCEPT !.allocated = IF @ < Cost THEN 0 ELSE @ - Cost])
    /\ UNCHANGED <<mode, tool, action, outcome, check, crashes, others>>

\* The result of the execution is that of its tool call; a delivered one is that of a
\* tool call that still waits for it.
Emit(k, w) ==
    /\ Go(k, w, "emitting", "gone")
    /\ IF w = Own \/ tool[k] = "running" THEN Settle(k, "succeeded") ELSE UNCHANGED tool
    /\ UNCHANGED <<mode, incident, action, outcome, check, crashes, others>>

-----------------------------------------------------------------------------
(* VerifyRecoveryTool and applyVerification: the step after a recovery that took *)
(* place, in full or in part                                                     *)

\* The execution whose action is verified: its call says the service was recovered.
Recovered(k) ==
    tool[k] = "succeeded" /\ action[k] # "failed" /\ outcome[k] \in {"success", "partial"}

\* What is recorded of the service.
AskedHealth == {row.health}

\* What an adapter observes: the simulated one what is recorded, the HTTP one what the
\* environment reports, or that the request failed.
Observed ==
    IF mode = "simulated" THEN AskedHealth
    ELSE {"down", IF \E k \in Attempts : outcome[k] = "success" THEN "healthy" ELSE "degraded"}

Verify(status) ==
    /\ check = "none" /\ \E k \in Attempts : Recovered(k)
    /\ status \in Observed /\ check' = status
    /\ UNCHANGED <<mode, incident, tool, action, outcome, at, given, crashes, others>>

\* The health of the service stays what the execution made it.
ApplyVerification ==
    /\ check \in HealthStatus
    /\ check' = CASE check = "healthy"  -> "completed"
                  [] check = "degraded" -> "followed-up"
                  [] OTHER -> "failed"
    /\ UNCHANGED <<mode, incident, tool, action, outcome, at, given, crashes, others>>

-----------------------------------------------------------------------------
(* The world around                                                              *)

\* Another handler writes the incident, also in two steps: an event by which what the
\* service depends on breaks or recovers, or a fact, a task or a decision, which leaves
\* these columns as they were read.
OtherReads ==
    /\ other = Unread /\ other' = row
    /\ others < MaximumOthers /\ others' = others + 1
    /\ UNCHANGED <<mode, row, copy, torn, tool, action, outcome, at, given, check, crashes>>

OtherWrites ==
    /\ other # Unread /\ other' = Unread /\ torn' = (torn \/ other # row)
    /\ row' \in {other, Propagated([other EXCEPT !.upstream = ~@])}
    /\ UNCHANGED <<mode, copy, tool, action, outcome, at, given, check, crashes, others>>

\* What was in flight is lost, and the timers with it; the environment goes on.
Restart ==
    /\ crashes < MaximumCrashes /\ crashes' = crashes + 1
    /\ at' = [k \in Attempts |-> [w \in Workers |->
                IF at[k][w] = "idle" /\ (mode = "http" \/ tool[k] = "unused")
                THEN "idle" ELSE "gone"]]
    /\ given' = [k \in Attempts |-> [w \in Workers |-> "none"]]
    /\ copy' = [k \in Attempts |-> [w \in Workers |-> Unread]] /\ other' = Unread
    /\ UNCHANGED <<mode, row, torn, tool, action, outcome, check, others>>

Next ==
    \/ \E k \in Attempts :
        \/ Dispatch(k) \/ CheckPreconditions(k) \/ Expire(k) \/ AllocateCapacity(k)
        \/ SetRecovering(k) \/ Request(k) \/ Accepted(k) \/ WriteRunning(k) \/ Return(k)
        \/ \E result \in Outcomes : Take(k, result) \/ Answered(k, result)
        \/ \E w \in Workers : \/ ReadRow(k, w) \/ Deliver(k, w) \/ Finish(k, w) \/ ApplyResult(k, w)
                              \/ ReleaseCapacity(k, w) \/ Emit(k, w)
    \/ \E status \in HealthStatus : Verify(status)
    \/ ApplyVerification \/ OtherReads \/ OtherWrites \/ Restart

Spec == Init /\ [][Next]_vars

\* The tick of the agent expires calls; nothing makes an environment answer.
FairSpec == Spec /\ \A k \in Attempts : WF_vars(Expire(k))

-----------------------------------------------------------------------------
(* Properties *)

InFlight == \E k \in Attempts, w \in Workers : at[k][w] \notin {"idle", "gone"}

\* With the simulated adapter, no restart and no write over a row that had changed since
\* it was read, the units allocated are those of the actions that did not fail, once
\* nothing is under way: neither a retry that overlaps a late execution nor a result that
\* arrives after its call has expired leaks units or gives them back twice.
UnitsAreHeld ==
    mode = "simulated" /\ crashes = 0 /\ ~torn /\ ~InFlight =>
        row.allocated = Cost * Cardinality({k \in Attempts : action[k] \notin {"none", "failed"}})

\* A service is recorded healthy only if the environment recovered it, in full or in part,
\* or what it depends on broke and recovered: a request that failed, an expired call, a
\* restart or a row written back late never reads as a recovery. With an environment, its
\* verification is completed only if a recovery succeeded in it.
HealthyWasRecovered ==
    /\ row.health = "healthy" =>
        \/ \E k \in Attempts : outcome[k] \in {"success", "partial"}
        \/ others > 1
    /\ mode = "http" /\ check = "completed" => \E k \in Attempts : outcome[k] = "success"

\* Every execution of a recovery ends for the agent, whatever becomes of its action: its
\* callback may be lost, late, or overwritten by the row of the request.
ToolCallsEnd == \A k \in Attempts : tool[k] = "running" ~> tool[k] # "running"
=============================================================================

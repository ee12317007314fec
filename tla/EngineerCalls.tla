---------------------------- MODULE EngineerCalls ----------------------------
(***************************************************************************)
(* The calls to one engineer, made by the attempts of one contact_engineer *)
(* step of a live run: EngineersService with its three adapters, the       *)
(* provider callbacks of InboundWebhooksController, ContactEngineerTool,   *)
(* and the part of ToolsService that starts, settles and expires the tool  *)
(* call of an attempt.                                                     *)
(*                                                                         *)
(* A row of the calls table is read, an await follows, and the whole row   *)
(* is written back: startCall, the poll of ElevenLabs, the callbacks of a  *)
(* provider and the timer of a simulated call do so at the same time.  The *)
(* phone of an attempt is outside of the program: it may ring although the *)
(* provider's answer to the request was lost.                              *)
(*                                                                         *)
(* The configuration of this commit selects the simulated adapter          *)
(* (configuration.factory.ts:222, engineers.module.ts:58); the code of the *)
(* two providers is kept, and modelled, for a configuration with live      *)
(* calls.                                                                  *)
(***************************************************************************)
EXTENDS Integers, FiniteSets

CONSTANTS
    Adapters,           \* engineerCall.provider, "simulated" for the simulated mode
    Requests,           \* provider callbacks and simulated timers in flight
    MaximumAttempts,    \* AGENT_MAXIMUM_STEP_ATTEMPTS
    MaximumReports,     \* bound of this model on in-call reports of permissions
    MaximumRestarts     \* bound of this model on server restarts

Poll == "poll"
Processes == Requests \cup {Poll}
Attempts == 1..MaximumAttempts
Providers == {"elevenlabs", "happyrobot"}

ASSUME CallsAssumption ==
    /\ MaximumAttempts \in Nat \ {0}
    /\ MaximumReports \in Nat /\ MaximumRestarts \in Nat
    /\ Adapters \subseteq Providers \cup {"simulated"}
    /\ Poll \notin Requests

VARIABLES
    adapter,    \* the configured adapter
    fallback,   \* engineerCall.fallbackToSimulated
    step,       \* status of the contact_engineer step
    attempt,    \* attempts of the step so far
    tool,       \* tool[n]: status of the tool call of attempt n
    row,        \* row[n]: the engineer call of attempt n
    phone,      \* phone[n]: what happens on the engineer's line for attempt n
    timer,      \* attempts whose simulated conversation is scheduled
    overdue,    \* attempts started callTimeoutMilliseconds ago
    dial,       \* the startCall in progress and the row it holds
    local,      \* local[p]: where process p is and what it has read
    finishing,  \* results for a tool call that was read as running
    switched,   \* attempts that fell back to the simulated mode (history)
    reports,    \* in-call reports so far (bound)
    restarts    \* restarts so far (bound)

calls == <<row, phone, timer, dial, local, switched, reports>>
work  == <<step, attempt, tool, finishing>>
vars  == <<adapter, fallback, work, calls, overdue, restarts>>

-----------------------------------------------------------------------------
\* "failed" also stands for "no-answer", which nothing tells apart from it.
Outcomes == {"completed", "failed"}
Open == {"dialing", "in-progress"}

\* provider: who is recorded as calling; "none" in the simulated mode.
\* result: who answered.  live: permissions reported during the call are kept.
Row == [status   : {"none"} \cup Open \cup Outcomes,
        mode     : {"live", "simulated"},
        provider : Providers \cup {"none"},
        result   : {"none", "person", "simulation"},
        live     : BOOLEAN]

NoRow == [status |-> "none", mode |-> "live", provider |-> "none",
          result |-> "none", live |-> FALSE]

Settlement == {"succeeded", "failed", "retryable"}
ToolStatus == {"none", "running"} \cup Settlement
Settled == [n : Attempts, outcome : Settlement]

\* timed: runWithTimeout has given the call up, startCall goes on.
Dial == [pc : {"idle", "trigger", "accept", "refused", "fallback", "return"},
         n : 0..MaximumAttempts, row : Row, timed : BOOLEAN]

NoDial == [pc |-> "idle", n |-> 0, row |-> NoRow, timed |-> FALSE]

Local == [pc : {"idle", "polled", "complete", "report", "authorize"},
          n : 0..MaximumAttempts, row : Row,
          outcome : Outcomes, result : {"person", "simulation"}, live : BOOLEAN]

Idle == [pc |-> "idle", n |-> 0, row |-> NoRow, outcome |-> "failed",
         result |-> "person", live |-> FALSE]

At(p, pc) == local[p].pc = pc
Go(p, next) == local' = [local EXCEPT ![p] = next]
Finished(r) == r.status \in Outcomes

\* mode of the tool call and of a new row: the configured adapter's.
Mode == IF adapter = "simulated" THEN "simulated" ELSE "live"

Conclude(r, outcome, result, live) ==
    [r EXCEPT !.status = outcome, !.result = result, !.live = live]

\* timeoutErrorFor: an engineer call is tried again only when it is simulated.
TimeoutSettlement == IF Mode = "simulated" THEN "retryable" ELSE "failed"

-----------------------------------------------------------------------------
(* Faulty variants of the definitions below: the mistakes the properties are     *)
(* there to catch.  Spec uses none of them.                                      *)

\* Every failure may be tried again.
AlwaysRetryable(r) ==
    IF r.status = "completed" /\ r.result # "none" THEN "succeeded" ELSE "retryable"

\* A failed conversation taken as an answered one.
AnyResultSucceeds(r) ==
    IF r.result # "none" THEN "succeeded"
    ELSE IF r.mode = "simulated" THEN "retryable" ELSE "failed"

\* Permissions saved with the row that was read before the update.
AuthorizeUnconditionally(p) ==
    /\ At(p, "authorize")
    /\ row' = [row EXCEPT ![local[p].n] = [local[p].row EXCEPT !.live = TRUE]]
    /\ Go(p, Idle)
    /\ UNCHANGED <<adapter, fallback, work, phone, timer, overdue, dial, switched,
                   reports, restarts>>

\* A poll that asks for the conversation first and never looks at the clock.
TimeOutNever(p) == FALSE

-----------------------------------------------------------------------------
(* ToolsService.execute, ContactEngineerTool.execute, EngineersService.startCall *)

\* onEngineerCallFinished: how the tool call of a finished call is settled.
SettlementOf(r) ==
    IF r.status = "completed" /\ r.result # "none" THEN "succeeded"
    ELSE IF r.mode = "simulated" THEN "retryable" ELSE "failed"

\* ENGINEER_CALL_FINISHED: emit calls complete, which reads the tool call at once and
\* writes it later, if it is still running.
Emit(n, r) ==
    finishing' = IF tool[n] = "running"
                 THEN finishing \cup {[n |-> n, outcome |-> SettlementOf(r)]}
                 ELSE finishing

Dispatch ==
    /\ step = "proposed" /\ attempt < MaximumAttempts /\ dial.pc = "idle"
    /\ LET n == attempt + 1
           r == [NoRow EXCEPT !.status = "dialing", !.mode = Mode,
                              !.provider = IF adapter = "simulated" THEN "none" ELSE adapter]
       IN  /\ attempt' = n
           /\ tool' = [tool EXCEPT ![n] = "running"]
           /\ row' = [row EXCEPT ![n] = r]
           /\ dial' = [pc |-> "trigger", n |-> n, row |-> r, timed |-> FALSE]
    /\ step' = "running"
    /\ UNCHANGED <<adapter, fallback, finishing, phone, timer, overdue, local,
                   switched, reports, restarts>>

\* The answers to a request, and whether the phone rings.  ElevenLabs and HappyRobot
\* accept with an identifier of the call; a request that failed, timed out or was answered
\* without one is refused, and the phone may ring all the same.
Refusals == {[pc |-> "refused", line |-> "ringing"], [pc |-> "refused", line |-> "none"]}

RequestOutcomes == {[pc |-> "accept", line |-> "ringing"]} \cup Refusals

\* EngineersService.dispatch
TriggerLive ==
    /\ dial.pc = "trigger" /\ Mode = "live"
    /\ \E answer \in RequestOutcomes :
          /\ dial' = [dial EXCEPT !.pc = answer.pc]
          /\ phone' = [phone EXCEPT ![dial.n] = answer.line]
    /\ UNCHANGED <<adapter, fallback, work, row, timer, overdue, local, switched,
                   reports, restarts>>

\* The simulated adapter schedules its conversation and always accepts.
TriggerSimulated ==
    /\ dial.pc = "fallback" \/ (dial.pc = "trigger" /\ Mode = "simulated")
    /\ timer' = timer \cup {dial.n}
    /\ dial' = [dial EXCEPT !.pc = "accept"]
    /\ UNCHANGED <<adapter, fallback, work, row, phone, overdue, local, switched,
                   reports, restarts>>

\* acceptCall: the row startCall holds, whatever has been written since.
AcceptCall ==
    /\ dial.pc = "accept"
    /\ LET r == [dial.row EXCEPT !.status = "in-progress"]
       IN  /\ row' = [row EXCEPT ![dial.n] = r]
           /\ dial' = [dial EXCEPT !.pc = "return", !.row = r]
    /\ UNCHANGED <<adapter, fallback, work, phone, timer, overdue, local, switched,
                   reports, restarts>>

Switched(r) == [r EXCEPT !.mode = "simulated", !.provider = "none"]

FallBack ==
    /\ dial.pc = "refused" /\ fallback
    /\ row' = [row EXCEPT ![dial.n] = Switched(dial.row)]
    /\ dial' = [dial EXCEPT !.pc = "fallback", !.row = Switched(dial.row)]
    /\ switched' = switched \cup {dial.n}
    /\ UNCHANGED <<adapter, fallback, work, phone, timer, overdue, local, reports, restarts>>

FailCall ==
    /\ dial.pc = "refused" /\ ~fallback
    /\ LET r == [dial.row EXCEPT !.status = "failed"]
       IN  /\ row' = [row EXCEPT ![dial.n] = r]
           /\ dial' = [dial EXCEPT !.pc = "return", !.row = r]
           /\ Emit(dial.n, r)
    /\ UNCHANGED <<adapter, fallback, step, attempt, tool, phone, timer,
                   overdue, local, switched, reports, restarts>>

-----------------------------------------------------------------------------
(* Settling the tool call: ToolsService.finish and what the step makes of it *)

\* recordToolOutcome: only the step that runs this attempt.
StepAfter(n, outcome) ==
    IF step # "running" \/ attempt # n THEN step
    ELSE CASE outcome = "succeeded" -> "completed"
           [] outcome = "retryable" /\ n < MaximumAttempts -> "proposed"
           [] OTHER -> "failed"

Finish(n, outcome) ==
    /\ tool' = [tool EXCEPT ![n] = outcome]
    /\ step' = StepAfter(n, outcome)

\* What the tool makes of the call that startCall returns.
Returned(r) == IF Finished(r) THEN SettlementOf(r) ELSE "running"

\* A call under way leaves the tool call running, whatever the row says by now.
Return ==
    /\ dial.pc = "return"
    /\ dial' = NoDial
    /\ IF dial.timed THEN UNCHANGED <<tool, step>>
       ELSE IF Returned(dial.row) = "running"
       THEN /\ tool' = [tool EXCEPT ![dial.n] = "running"]
            /\ UNCHANGED step
       ELSE Finish(dial.n, Returned(dial.row))
    /\ UNCHANGED <<adapter, fallback, attempt, finishing, row, phone, timer,
                   overdue, local, switched, reports, restarts>>

\* runWithTimeout: the race is lost while startCall waits.
TimeOutExecution ==
    /\ dial.pc \notin {"idle", "return"} /\ dial.n \in overdue /\ ~dial.timed
    /\ dial' = [dial EXCEPT !.timed = TRUE]
    /\ Finish(dial.n, TimeoutSettlement)
    /\ UNCHANGED <<adapter, fallback, attempt, finishing, row, phone, timer,
                   overdue, local, switched, reports, restarts>>

Expirable(n) == tool[n] = "running" /\ n \in overdue

\* expireRunningCalls found a tool call past its timeout.
Expire(n) ==
    /\ Expirable(n)
    /\ finishing' = finishing \cup {[n |-> n, outcome |-> TimeoutSettlement]}
    /\ UNCHANGED <<adapter, fallback, step, attempt, tool, calls, overdue, restarts>>

FinishTool(e) ==
    /\ e \in finishing
    /\ finishing' = finishing \ {e}
    /\ Finish(e.n, e.outcome)
    /\ UNCHANGED <<adapter, fallback, attempt, calls, overdue, restarts>>

-----------------------------------------------------------------------------
(* Results: the poll of ElevenLabs, the callback of HappyRobot, the timer *)

Polled(n) == row[n].status = "in-progress" /\ row[n].mode = "live"
                                           /\ row[n].provider = "elevenlabs"

PollRead(n) ==
    /\ At(Poll, "idle") /\ adapter = "elevenlabs" /\ Polled(n)
    /\ Go(Poll, [Idle EXCEPT !.pc = "polled", !.n = n, !.row = row[n]])
    /\ UNCHANGED <<adapter, fallback, work, row, phone, timer, overdue, dial, switched,
                   reports, restarts>>

TimesOut(p) == At(p, "polled") /\ local[p].n \in overdue

\* timeoutCall checks and writes the row the poll has read.
PollTimeout ==
    /\ TimesOut(Poll)
    /\ LET r == [local[Poll].row EXCEPT !.status = "failed"]
       IN  /\ row' = [row EXCEPT ![local[Poll].n] = r]
           /\ Emit(local[Poll].n, r)
    /\ Go(Poll, Idle)
    /\ UNCHANGED <<adapter, fallback, step, attempt, tool, phone, timer,
                   overdue, dial, switched, reports, restarts>>

\* completeCall reads the row and refuses a second result.
ReadCall(p, n, outcome, result, live) ==
    Go(p, IF Finished(row[n]) THEN Idle
          ELSE [pc |-> "complete", n |-> n, row |-> row[n],
                outcome |-> outcome, result |-> result, live |-> live])

\* getResult: nothing before the conversation has ended.
Ended(n) == phone[n] \in Outcomes

\* preferLive: a live report goes before the analysis, as far as the poll has read it.
PrefersLive(read) == read.live

PollFetch ==
    /\ At(Poll, "polled") /\ ~TimesOut(Poll)
    /\ LET l == local[Poll]
       IN  \/ Go(Poll, Idle)
           \/ /\ Ended(l.n)
              /\ ReadCall(Poll, l.n, phone[l.n], "person", PrefersLive(l.row))
    /\ UNCHANGED <<adapter, fallback, work, row, phone, timer, overdue, dial, switched,
                   reports, restarts>>

\* InboundWebhooksController.happyRobot: refused only when ElevenLabs has the call.
\* A callback may come again.
ResultCallback(p, n) ==
    /\ p \in Requests /\ At(p, "idle")
    /\ adapter = "happyrobot" /\ Ended(n)
    /\ row[n].provider # "elevenlabs" /\ ~Finished(row[n])
    /\ ReadCall(p, n, phone[n], "person", TRUE)
    /\ UNCHANGED <<adapter, fallback, work, row, phone, timer, overdue, dial, switched,
                   reports, restarts>>

SimulatedResult(p, n) ==
    /\ p \in Requests /\ At(p, "idle") /\ n \in timer
    /\ timer' = timer \ {n}
    /\ ReadCall(p, n, "completed", "simulation", FALSE)
    /\ UNCHANGED <<adapter, fallback, work, row, phone, overdue, dial, switched,
                   reports, restarts>>

CompleteCall(p) ==
    /\ At(p, "complete")
    /\ LET l == local[p]
           r == Conclude(l.row, l.outcome, l.result, l.live)
       IN  /\ row' = [row EXCEPT ![l.n] = r]
           /\ Emit(l.n, r)
    /\ Go(p, Idle)
    /\ UNCHANGED <<adapter, fallback, step, attempt, tool, phone, timer,
                   overdue, dial, switched, reports, restarts>>

-----------------------------------------------------------------------------
(* Permissions reported during the call *)

\* recordLiveAuthorizations (ElevenLabs) and recordAuthorizations (HappyRobot)
\* read the row and wait for isRunActive; what they refuse is left out.
ReadReport(p, n) ==
    /\ p \in Requests /\ At(p, "idle") /\ reports < MaximumReports
    /\ phone[n] # "none"
    /\ \/ adapter = "elevenlabs" /\ row[n].status = "in-progress"
       \/ /\ adapter = "happyrobot" /\ row[n].status \in Open
          /\ row[n].mode = "live" /\ row[n].provider = "happyrobot"
    /\ reports' = reports + 1
    /\ Go(p, [Idle EXCEPT !.pc = IF adapter = "elevenlabs" THEN "report" ELSE "authorize",
                          !.n = n, !.row = row[n]])
    /\ UNCHANGED <<adapter, fallback, work, row, phone, timer, overdue, dial, switched, restarts>>

\* updateEntity of the row that was in progress when it was read.
WriteReport(p) ==
    /\ At(p, "report")
    /\ row' = [row EXCEPT ![local[p].n] = [local[p].row EXCEPT !.live = TRUE]]
    /\ Go(p, Idle)
    /\ UNCHANGED <<adapter, fallback, work, phone, timer, overdue, dial, switched,
                   reports, restarts>>

\* An UPDATE of the result alone, where the call is still open.
Authorize(p) ==
    /\ At(p, "authorize")
    /\ row' = IF row[local[p].n].status \in Open
              THEN [row EXCEPT ![local[p].n].live = TRUE] ELSE row
    /\ Go(p, Idle)
    /\ UNCHANGED <<adapter, fallback, work, phone, timer, overdue, dial, switched,
                   reports, restarts>>

-----------------------------------------------------------------------------
(* The engineer's line, the clock and the server *)

HangUp(n) ==
    /\ phone[n] = "ringing"
    /\ \E outcome \in Outcomes : phone' = [phone EXCEPT ![n] = outcome]
    /\ UNCHANGED <<adapter, fallback, work, row, timer, overdue, dial, local, switched,
                   reports, restarts>>

TimePasses(n) ==
    /\ row[n].status \in Open \/ tool[n] = "running"
    /\ n \notin overdue
    /\ overdue' = overdue \cup {n}
    /\ UNCHANGED <<adapter, fallback, work, calls, restarts>>

\* Rows survive; what was being done is lost.
Restart ==
    /\ restarts < MaximumRestarts
    /\ restarts' = restarts + 1
    /\ dial' = NoDial
    /\ local' = [p \in Processes |-> Idle]
    /\ timer' = {} /\ finishing' = {}
    /\ UNCHANGED <<adapter, fallback, step, attempt, tool, row, phone, overdue, switched, reports>>

Init ==
    /\ adapter \in Adapters
    /\ fallback \in (IF adapter = "simulated" THEN {FALSE} ELSE BOOLEAN)
    /\ step = "proposed" /\ attempt = 0
    /\ tool = [n \in Attempts |-> "none"]
    /\ row = [n \in Attempts |-> NoRow]
    /\ phone = [n \in Attempts |-> "none"]
    /\ timer = {} /\ overdue = {} /\ finishing = {} /\ switched = {}
    /\ dial = NoDial
    /\ local = [p \in Processes |-> Idle]
    /\ reports = 0 /\ restarts = 0

Tick == \E n \in Attempts : Expire(n)
Settle == \E e \in Settled : FinishTool(e)
PollStep ==
    \/ \E n \in Attempts : PollRead(n)
    \/ PollTimeout \/ PollFetch \/ CompleteCall(Poll)
RequestStep(p) ==
    \/ \E n \in Attempts : ResultCallback(p, n) \/ SimulatedResult(p, n) \/ ReadReport(p, n)
    \/ CompleteCall(p) \/ WriteReport(p) \/ Authorize(p)
DialStep ==
    \/ TriggerLive \/ TriggerSimulated \/ AcceptCall \/ FallBack \/ FailCall
    \/ Return \/ TimeOutExecution

Next ==
    \/ Dispatch \/ DialStep
    \/ Settle \/ Tick \/ PollStep
    \/ \E p \in Requests : RequestStep(p)
    \/ \E n \in Attempts : HangUp(n) \/ TimePasses(n)
    \/ Restart

Spec == Init /\ [][Next]_vars

\* The interval timers fire, a handler that was started ends, and time passes.
Fairness ==
    /\ \A n \in Attempts : WF_vars(Expire(n)) /\ WF_vars(TimePasses(n))
    /\ \A e \in Settled : WF_vars(FinishTool(e))
    /\ WF_vars(DialStep) /\ WF_vars(PollStep)
    /\ \A p \in Requests : WF_vars(CompleteCall(p) \/ WriteReport(p))

FairSpec == Spec /\ Fairness

-----------------------------------------------------------------------------
(* Properties *)

\* Every variable has its type.
TypeOK ==
    /\ adapter \in Adapters /\ fallback \in BOOLEAN
    /\ step \in {"proposed", "running", "completed", "failed"}
    /\ attempt \in 0..MaximumAttempts
    /\ tool \in [Attempts -> ToolStatus]
    /\ row \in [Attempts -> Row]
    /\ phone \in [Attempts -> {"none", "ringing"} \cup Outcomes]
    /\ timer \subseteq Attempts /\ overdue \subseteq Attempts /\ switched \subseteq Attempts
    /\ dial \in Dial
    /\ local \in [Processes -> Local]
    /\ finishing \subseteq Settled
    /\ reports \in 0..MaximumReports /\ restarts \in 0..MaximumRestarts

Rung(n) == phone[n] # "none"

\* The engineer's phone never rings again behind a call that may still go on or that was
\* answered: an attempt is followed by another call only when it was switched to the
\* simulated mode and the call it had placed all the same failed (onEngineerCallFinished,
\* timeoutErrorFor).
RungAgainOnlyAfterFailure ==
    \A n, m \in Attempts :
        n < m /\ Rung(n) /\ Rung(m) => n \in switched /\ phone[n] = "failed"

\* The conversation of attempt n is simulated.
StoodIn(n) == Mode = "simulated" \/ n \in switched

\* A step is completed by a conversation: the engineer answered one of the attempts,
\* or a simulation stood in for it.
CompletedStepWasAnswered ==
    step = "completed" => \E n \in Attempts : phone[n] = "completed" \/ StoodIn(n)

\* Once startCall is over, no HappyRobot or simulated result reopens or rewrites a
\* finished call as an open one: its permissions are saved by a conditional update.
FinishedStaysFinished ==
    [][\A n \in Attempts :
          adapter # "elevenlabs" /\ Finished(row[n]) /\ dial.n # n => Finished(row'[n])]_vars

\* A call that ElevenLabs accepted does not stay in progress: the poll takes its result
\* or gives it up, also after a restart and after a late report has reopened it.
AcceptedCallsEnd == \A n \in Attempts : Polled(n) ~> ~Polled(n)

\* Claimed by the comment of ContactEngineerTool: a live call is never placed again.
NeverRedialed == \A n, m \in Attempts : n < m => ~(Rung(n) /\ Rung(m))

\* Claimed by the comment of preferLive: what the agent reported on the line wins, so a
\* report in the row is part of the result that is written over it.
ReportsAreKept ==
    [][\A n \in Attempts : row[n].live /\ row'[n].result = "person" => row'[n].live]_vars

=============================================================================

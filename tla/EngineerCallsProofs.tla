------------------------ MODULE EngineerCallsProofs ------------------------
(***************************************************************************)
(* Proofs about EngineerCalls: the engineer is rung again only behind a    *)
(* call that failed, for an attempt that was switched to the simulated     *)
(* mode; a completed step had a conversation; a finished call is not       *)
(* reopened by the handlers of HappyRobot and of the simulated mode; and   *)
(* about CallResults: what is taken for an authorized failover was said.   *)
(* They hold for any number of attempts, callbacks in flight, reports,     *)
(* restarts and conversations.                                             *)
(***************************************************************************)
EXTENDS CallResults, TLAPS

-----------------------------------------------------------------------------
(* The inductive invariant *)

\* A conversation: the engineer answered attempt n, or a simulation stood in.
Conversed(n) == phone[n] = "completed" \/ StoodIn(n)

\* Attempt n may be followed by another one: no phone rang, or the call failed that was
\* placed for an attempt switched to the simulated mode.
GaveUp(n) == Mode = "simulated" \/ (n \in switched /\ phone[n] = "failed")

\* An attempt that was not made has no row and no ringing phone; only a call that
\* startCall is about to place may still ring.
Future ==
    /\ \A n \in Attempts : n > attempt => row[n].status = "none" /\ phone[n] = "none"
    /\ dial.n <= attempt
    /\ dial.pc # "idle" => dial.n \in Attempts
    /\ dial.pc = "trigger" => phone[dial.n] = "none"
    /\ \A n \in timer : n <= attempt
    /\ \A p \in Processes : local[p].n <= attempt
    /\ \A p \in Processes : local[p].pc # "idle" => local[p].n \in Attempts

\* Whoever holds a row in the simulated mode holds it of an attempt that stood in;
\* without a provider no phone rings.
Modes ==
    /\ Mode = "simulated" => \A n \in Attempts : phone[n] = "none"
    /\ \A n \in Attempts : row[n].mode = "simulated" => StoodIn(n)
    /\ dial.row.mode = "simulated" => StoodIn(dial.n)
    /\ dial.pc = "fallback" => StoodIn(dial.n)
    /\ dial.pc \in {"trigger", "refused"} => dial.row.mode = Mode
    /\ \A p \in Processes : local[p].pc = "polled" => local[p].row.mode = "live"
    /\ \A p \in Processes : local[p].row.mode = "simulated" => StoodIn(local[p].n)
    /\ \A n \in timer : StoodIn(n)

\* What is about to be written as a result has its conversation, and a report that
\* writes back a whole row is one of ElevenLabs.
Results ==
    /\ dial.row.status # "completed"
    /\ dial.pc \notin {"idle", "return"} => ~Finished(dial.row)
    /\ Finished(dial.row) => dial.row.mode = Mode
    /\ \A p \in Processes :
          /\ local[p].pc = "complete" /\ local[p].outcome = "completed" => Conversed(local[p].n)
          /\ local[p].pc = "complete" /\ local[p].outcome = "failed"
               /\ local[p].row.mode = "simulated" => GaveUp(local[p].n)
          /\ local[p].pc = "report" => adapter = "elevenlabs"

\* A tool call on its way to be settled has its reason, and every attempt that was
\* followed by another one, or may be, stood in.
Reasons ==
    /\ \A e \in finishing : e.outcome = "retryable" => GaveUp(e.n)
    /\ \A e \in finishing : e.outcome = "succeeded" => Conversed(e.n)
    /\ step = "completed" => \E n \in Attempts : Conversed(n)
    /\ \A n \in Attempts : n < attempt => GaveUp(n)
    /\ step = "proposed" => \A n \in Attempts : n <= attempt => GaveUp(n)

Inv == TypeOK /\ Future /\ Modes /\ Results /\ Reasons

-----------------------------------------------------------------------------
(* Every step keeps the invariant: the types, and then each part in turn.     *)

LEMMA DispatchKeeps ==
    ASSUME Inv, Dispatch
    PROVE  Inv'
<1>1. TypeOK'
  <2> DEFINE n == attempt + 1
             r == [NoRow EXCEPT !.status = "dialing", !.mode = Mode,
                     !.provider = IF adapter = "simulated" THEN "none" ELSE adapter]
  <2>1. n \in Attempts /\ n \in 0..MaximumAttempts
    BY CallsAssumption DEF Inv, TypeOK, Dispatch, Attempts
  <2>2. r \in Row
    BY CallsAssumption DEF Inv, TypeOK, Row, NoRow, Mode, Outcomes, Open, Providers
  <2>3. dial' \in Dial
    BY <2>1, <2>2 DEF Dispatch, Dial
  <2>4. row' \in [Attempts -> Row]
    BY <2>1, <2>2 DEF Dispatch, Inv, TypeOK
  <2> QED
    BY <2>1, <2>3, <2>4 DEF Dispatch, Inv, TypeOK, ToolStatus
<1>2. Future'
  BY CallsAssumption DEF Inv, Dispatch, Attempts, NoRow, Local, Mode, TypeOK, Future
<1>3. Modes'
  BY DEF Inv, Dispatch, NoRow, Mode, TypeOK, StoodIn, GaveUp, Future, Modes
<1>4. Results'
  BY DEF Inv, Dispatch, Attempts, NoRow, Mode, StoodIn, GaveUp, Conversed, Future, Results,
         Finished, Outcomes
<1>5. Reasons'
  BY DEF Inv, Dispatch, Attempts, NoRow, Mode, TypeOK, StoodIn, GaveUp, Conversed, Future,
         Reasons
<1> QED  BY <1>1, <1>2, <1>3, <1>4, <1>5 DEF Inv

LEMMA TriggerLiveKeeps ==
    ASSUME Inv, TriggerLive
    PROVE  Inv'
<1>1. TypeOK'
  <2>1. PICK answer \in RequestOutcomes :
            /\ dial' = [dial EXCEPT !.pc = answer.pc]
            /\ phone' = [phone EXCEPT ![dial.n] = answer.line]
    BY DEF TriggerLive
  <2>2. answer.pc \in {"accept", "refused"} /\ answer.line \in {"ringing", "none"}
    BY DEF RequestOutcomes, Refusals
  <2>3. dial' \in Dial
    BY <2>1, <2>2 DEF Inv, TypeOK, Dial
  <2>4. phone' \in [Attempts -> {"none", "ringing"} \cup Outcomes]
    BY <2>1, <2>2 DEF Inv, TypeOK
  <2> QED
    BY <2>3, <2>4 DEF TriggerLive, Inv, TypeOK, work
<1>2. Future'
  BY DEF Inv, TriggerLive, Attempts, calls, work, Mode, Refusals, RequestOutcomes, TypeOK,
         Future
<1>3. Modes'
  BY DEF Inv, TriggerLive, calls, work, Mode, Refusals, RequestOutcomes, StoodIn, GaveUp,
         Future,
         Modes
<1>4. Results'
  BY DEF Inv, TriggerLive, calls, work, Mode, Refusals, RequestOutcomes, StoodIn, GaveUp,
         Conversed,
         Future, Results
<1>5. Reasons'
  BY DEF Inv, TriggerLive, calls, work, Mode, Refusals, RequestOutcomes, StoodIn, GaveUp,
         Conversed,
         Future, Reasons
<1> QED  BY <1>1, <1>2, <1>3, <1>4, <1>5 DEF Inv

LEMMA TriggerSimulatedKeeps ==
    ASSUME Inv, TriggerSimulated
    PROVE  Inv'
<1>1. TypeOK'
  <2>1. dial' \in Dial /\ dial.n \in Attempts
    BY DEF TriggerSimulated, Inv, TypeOK, Dial, Future
  <2> QED
    BY <2>1 DEF TriggerSimulated, Inv, TypeOK, work
<1>2. Future'
  BY DEF Inv, TriggerSimulated, calls, work, Mode, Future
<1>3. Modes'
  BY DEF Inv, TriggerSimulated, calls, work, Mode, StoodIn, GaveUp, Future, Modes
<1>4. Results'
  BY DEF Inv, TriggerSimulated, calls, work, Mode, StoodIn, GaveUp, Conversed, Future, Results
<1>5. Reasons'
  BY DEF Inv, TriggerSimulated, calls, work, Mode, StoodIn, GaveUp, Conversed, Future, Reasons
<1> QED  BY <1>1, <1>2, <1>3, <1>4, <1>5 DEF Inv

LEMMA AcceptCallKeeps ==
    ASSUME Inv, AcceptCall
    PROVE  Inv'
<1>1. TypeOK'
  BY DEF Inv, AcceptCall, calls, work, Outcomes, Open, Row, Dial, TypeOK
<1>2. Future'
  BY DEF Inv, AcceptCall, Attempts, calls, work, TypeOK, Future
<1>3. Modes'
  BY DEF Inv, AcceptCall, calls, work, Row, Dial, Mode, TypeOK, StoodIn, GaveUp, Future, Modes
<1>4. Results'
  BY DEF Inv, AcceptCall, calls, work, Row, Dial, Mode, TypeOK, StoodIn, GaveUp, Conversed,
         Future,
         Results, Finished, Outcomes
<1>5. Reasons'
  BY DEF Inv, AcceptCall, calls, work, Mode, StoodIn, GaveUp, Conversed, Future, Reasons
<1> QED  BY <1>1, <1>2, <1>3, <1>4, <1>5 DEF Inv

LEMMA FallBackKeeps ==
    ASSUME Inv, FallBack
    PROVE  Inv'
<1>1. TypeOK'
  <2> DEFINE r == [dial.row EXCEPT !.mode = "simulated", !.provider = "none"]
  <2>1. dial.n \in Attempts /\ dial.n \in 0..MaximumAttempts /\ dial.row \in Row
    BY DEF FallBack, Inv, TypeOK, Future, Dial
  <2>2. r \in Row
    BY <2>1 DEF Row, Outcomes, Open
  <2>3. row' \in [Attempts -> Row]
    BY <2>1, <2>2 DEF FallBack, Inv, TypeOK, Switched
  <2>4. dial' \in Dial
    BY <2>1, <2>2 DEF FallBack, Inv, TypeOK, Dial, Switched
  <2> QED
    BY <2>1, <2>3, <2>4 DEF FallBack, Inv, TypeOK, work
<1>2. Future'
  BY DEF Inv, FallBack, Attempts, calls, work, Switched, TypeOK, Future
<1>3. Modes'
  BY DEF Inv, FallBack, Providers, calls, work, Row, Settlement, ToolStatus, Dial, Mode,
         Switched, StoodIn, GaveUp, Future, Modes
<1>4. Results'
  <2>1. ~Finished(dial.row) /\ dial.row \in Row /\ dial.n \in Attempts
    BY DEF FallBack, Inv, TypeOK, Dial, Results, Future
  <2>2. Switched(dial.row).status = dial.row.status
    BY <2>1 DEF Switched, Row
  <2>3. dial'.row = Switched(dial.row) /\ dial'.pc = "fallback"
    BY DEF FallBack, Inv, TypeOK, Dial
  <2>4. /\ UNCHANGED <<adapter, phone, local>>
        /\ switched \subseteq switched'
    BY DEF FallBack
  <2>5. dial'.row.status # "completed" /\ ~Finished(dial'.row)
    BY <2>1, <2>2, <2>3 DEF Inv, Results, Finished
  <2>6. \A n : (Conversed(n) => Conversed(n)') /\ (GaveUp(n) => GaveUp(n)')
    BY <2>4 DEF Conversed, StoodIn, GaveUp, Mode
  <2> QED
    BY <2>4, <2>5, <2>6 DEF Inv, Results, Finished
<1>5. Reasons'
  BY DEF Inv, FallBack, calls, work, Mode, Switched, StoodIn, GaveUp, Conversed, Future, Reasons
<1> QED  BY <1>1, <1>2, <1>3, <1>4, <1>5 DEF Inv

LEMMA FailCallKeeps ==
    ASSUME Inv, FailCall
    PROVE  Inv'
<1>1. TypeOK'
  <2> DEFINE r == [dial.row EXCEPT !.status = "failed"]
  <2>1. dial.n \in Attempts /\ dial.n \in 0..MaximumAttempts /\ dial.row \in Row
    BY DEF FailCall, Inv, TypeOK, Future, Dial
  <2>2. r \in Row
    BY <2>1 DEF Row, Outcomes, Open
  <2>3. row' \in [Attempts -> Row]
    BY <2>1, <2>2 DEF FailCall, Inv, TypeOK
  <2>4. dial' \in Dial
    BY <2>1, <2>2 DEF FailCall, Inv, TypeOK, Dial
  <2>5. finishing' \subseteq Settled
    BY <2>1 DEF FailCall, Emit, SettlementOf, Inv, TypeOK, Settled, Settlement
  <2> QED
    BY <2>3, <2>4, <2>5 DEF FailCall, Inv, TypeOK
<1>2. Future'
  BY DEF Inv, FailCall, Attempts, SettlementOf, Emit, TypeOK, Future
<1>3. Modes'
  BY DEF Inv, FailCall, Row, Dial, Mode, SettlementOf, Emit, TypeOK, StoodIn, GaveUp, Future,
         Modes
<1>4. Results'
  <2>1. dial.row \in Row /\ dial'.row = [dial.row EXCEPT !.status = "failed"]
        /\ dial'.pc = "return" /\ dial.row.mode = Mode
    BY DEF FailCall, Inv, TypeOK, Dial, Modes
  <2>2. dial'.row.status = "failed" /\ dial'.row.mode = Mode
    BY <2>1 DEF Row
  <2>3. UNCHANGED <<adapter, phone, local, switched>>
    BY DEF FailCall
  <2> QED
    BY <2>1, <2>2, <2>3 DEF Inv, Results, Conversed, StoodIn, GaveUp, Mode
<1>5. Reasons'
  BY DEF Inv, FailCall, Mode, SettlementOf, Emit, StoodIn, GaveUp, Conversed, Future, Modes,
         Reasons
<1> QED  BY <1>1, <1>2, <1>3, <1>4, <1>5 DEF Inv

LEMMA ReturnKeeps ==
    ASSUME Inv, Return
    PROVE  Inv'
<1>1. TypeOK'
  <2>1. dial' \in Dial
    BY CallsAssumption DEF Return, NoDial, NoRow, Dial, Row
  <2>2. dial.n \in Attempts
    BY DEF Return, Inv, Future
  <2>3. tool' \in [Attempts -> ToolStatus]
    BY <2>2 DEF Return, Returned, SettlementOf, Finish, Inv, TypeOK, ToolStatus, Settlement
  <2>4. step' \in {"proposed", "running", "completed", "failed"}
    BY DEF Return, Finish, StepAfter, Inv, TypeOK
  <2> QED
    BY <2>1, <2>3, <2>4 DEF Return, Inv, TypeOK
<1>2. Future'
  BY DEF Inv, Return, NoRow, NoDial, Finished, SettlementOf, StepAfter, Finish, Returned,
         TypeOK, Future
<1>3. Modes'
  BY DEF Inv, Return, NoRow, NoDial, Finished, Mode, SettlementOf, StepAfter, Finish,
         Returned, StoodIn, GaveUp, Future, Modes
<1>4. Results'
  BY DEF Inv, Return, NoRow, NoDial, Finished, Mode, SettlementOf, StepAfter, Finish,
         Returned, StoodIn, GaveUp, Conversed, Future, Results, Outcomes
<1>5. Reasons'
  BY DEF Inv, Return, Attempts, NoRow, NoDial, Finished, Mode, SettlementOf, StepAfter,
         Finish, Returned, StoodIn, GaveUp, Conversed, Future, Modes, Results, Reasons
<1> QED  BY <1>1, <1>2, <1>3, <1>4, <1>5 DEF Inv

LEMMA TimeOutExecutionKeeps ==
    ASSUME Inv, TimeOutExecution
    PROVE  Inv'
<1>1. TypeOK'
  BY DEF Inv, TimeOutExecution, Providers, Settlement, ToolStatus, Dial, Mode,
         TimeoutSettlement, StepAfter, Finish, TypeOK
<1>2. Future'
  BY DEF Inv, TimeOutExecution, Mode, TimeoutSettlement, StepAfter, Finish, Future
<1>3. Modes'
  BY DEF Inv, TimeOutExecution, Mode, TimeoutSettlement, StepAfter, Finish, StoodIn, GaveUp,
         Future,
         Modes
<1>4. Results'
  BY DEF Inv, TimeOutExecution, Mode, TimeoutSettlement, StepAfter, Finish, StoodIn, GaveUp,
         Conversed, Future, Results
<1>5. Reasons'
  BY DEF Inv, TimeOutExecution, Mode, TimeoutSettlement, StepAfter, Finish, StoodIn, GaveUp,
         Conversed, Future, Reasons
<1> QED  BY <1>1, <1>2, <1>3, <1>4, <1>5 DEF Inv

LEMMA ExpireKeeps ==
    ASSUME Inv, NEW n \in Attempts, Expire(n)
    PROVE  Inv'
<1>1. TypeOK'
  BY DEF Inv, Expire, Providers, calls, Settlement, ToolStatus, Settled, Mode,
         TimeoutSettlement, Expirable, TypeOK
<1>2. Future'
  BY DEF Inv, Expire, calls, Mode, TimeoutSettlement, Expirable, Future
<1>3. Modes'
  BY DEF Inv, Expire, calls, Mode, TimeoutSettlement, Expirable, StoodIn, GaveUp, Future, Modes
<1>4. Results'
  BY DEF Inv, Expire, calls, Mode, TimeoutSettlement, Expirable, StoodIn, GaveUp, Conversed,
         Future,
         Results
<1>5. Reasons'
  BY DEF Inv, Expire, calls, Mode, TimeoutSettlement, Expirable, StoodIn, GaveUp, Conversed,
         Future,
         Reasons
<1> QED  BY <1>1, <1>2, <1>3, <1>4, <1>5 DEF Inv

LEMMA FinishToolKeeps ==
    ASSUME Inv, NEW e \in Settled, FinishTool(e)
    PROVE  Inv'
<1>1. TypeOK'
  BY DEF Inv, FinishTool, Providers, calls, Settlement, ToolStatus, Settled, StepAfter,
         Finish, TypeOK
<1>2. Future'
  BY DEF Inv, FinishTool, calls, StepAfter, Finish, Future
<1>3. Modes'
  BY DEF Inv, FinishTool, calls, Mode, StepAfter, Finish, StoodIn, GaveUp, Future, Modes
<1>4. Results'
  BY DEF Inv, FinishTool, calls, Mode, StepAfter, Finish, StoodIn, GaveUp, Conversed, Future,
         Results
<1>5. Reasons'
  <2>1. \A n : (StoodIn(n)' <=> StoodIn(n)) /\ (GaveUp(n)' <=> GaveUp(n)) /\ (Conversed(n)' <=> Conversed(n))
    BY DEF FinishTool, calls, StoodIn, GaveUp, Conversed, Mode
  <2>2. /\ e.outcome = "retryable" => GaveUp(e.n)
        /\ e.outcome = "succeeded" => Conversed(e.n)
        /\ e.n \in Attempts /\ attempt' = attempt /\ finishing' \subseteq finishing
    BY DEF FinishTool, Inv, Reasons, Settled
  <2>3. step' = "completed" => \E n \in Attempts : Conversed(n)
    BY <2>2 DEF FinishTool, Finish, StepAfter, Inv, Reasons
  <2>4. step' = "proposed" => \A n \in Attempts : n <= attempt => GaveUp(n)
    BY <2>2, CallsAssumption DEF FinishTool, Finish, StepAfter, Inv, TypeOK, Reasons, Attempts
  <2> QED
    BY <2>1, <2>2, <2>3, <2>4 DEF Inv, Reasons
<1> QED  BY <1>1, <1>2, <1>3, <1>4, <1>5 DEF Inv

LEMMA PollReadKeeps ==
    ASSUME Inv, NEW n \in Attempts, PollRead(n)
    PROVE  Inv'
<1>1. TypeOK'
  <2>1. Poll \in Processes /\ row[n] \in Row /\ n \in 0..MaximumAttempts
    BY CallsAssumption DEF Inv, TypeOK, Processes, Attempts
  <2>2. [Idle EXCEPT !.pc = "polled", !.n = n, !.row = row[n]] \in Local
    BY <2>1 DEF Idle, Local, Outcomes
  <2>3. local' \in [Processes -> Local]
    BY <2>1, <2>2 DEF PollRead, Go, Inv, TypeOK
  <2> QED
    BY <2>3 DEF PollRead, Inv, TypeOK, work
<1>2. Future'
  BY DEF Inv, PollRead, Attempts, calls, work, NoRow, Dial, Idle, At, Go, Polled, TypeOK,
         Future
<1>3. Modes'
  BY DEF Inv, PollRead, calls, work, NoRow, Idle, At, Go, Mode, Polled, StoodIn, GaveUp, Future,
         Modes
<1>4. Results'
  BY DEF Inv, PollRead, calls, work, NoRow, Idle, At, Go, Mode, Polled, StoodIn, GaveUp,
         Conversed,
         Future, Results
<1>5. Reasons'
  BY DEF Inv, PollRead, calls, work, NoRow, Idle, At, Go, Mode, Polled, StoodIn, GaveUp,
         Conversed,
         Future, Reasons
<1> QED  BY <1>1, <1>2, <1>3, <1>4, <1>5 DEF Inv

LEMMA PollTimeoutKeeps ==
    ASSUME Inv, PollTimeout
    PROVE  Inv'
<1>1. TypeOK'
  <2> DEFINE l == local[Poll]
             r == [l.row EXCEPT !.status = "failed"]
  <2>1. Poll \in Processes /\ l.n \in Attempts /\ l.row \in Row
    BY DEF PollTimeout, TimesOut, At, Inv, TypeOK, Future, Processes, Local
  <2>2. r \in Row
    BY <2>1 DEF Row, Outcomes, Open
  <2>3. row' \in [Attempts -> Row]
    BY <2>1, <2>2 DEF PollTimeout, Inv, TypeOK
  <2>4. Idle \in Local
    BY CallsAssumption DEF Idle, Local, Row, NoRow, Outcomes
  <2>5. local' \in [Processes -> Local]
    BY <2>1, <2>4 DEF PollTimeout, Go, Inv, TypeOK
  <2>6. finishing' \subseteq Settled
    BY <2>1 DEF PollTimeout, Emit, SettlementOf, Inv, TypeOK, Settled, Settlement
  <2> QED
    BY <2>3, <2>5, <2>6 DEF PollTimeout, Inv, TypeOK
<1>2. Future'
  BY DEF Inv, PollTimeout, Poll, Processes, Attempts, NoRow, Idle, At, Go, SettlementOf,
         Emit, TimesOut, TypeOK, Future
<1>3. Modes'
  BY DEF Inv, PollTimeout, Poll, Processes, NoRow, Idle, At, Go, Mode, SettlementOf, Emit,
         TimesOut, StoodIn, GaveUp, Future, Modes
<1>4. Results'
  BY DEF Inv, PollTimeout, NoRow, Idle, At, Go, Mode, SettlementOf, Emit, TimesOut, StoodIn,
         GaveUp,
         Conversed, Future, Results
<1>5. Reasons'
  BY DEF Inv, PollTimeout, Poll, Processes, NoRow, Idle, At, Go, Mode, SettlementOf, Emit,
         TimesOut, StoodIn, GaveUp, Conversed, Future, Modes, Reasons
<1> QED  BY <1>1, <1>2, <1>3, <1>4, <1>5 DEF Inv

LEMMA PollFetchKeeps ==
    ASSUME Inv, PollFetch
    PROVE  Inv'
<1>1. TypeOK'
  <2> DEFINE l == local[Poll]
             read == [pc |-> "complete", n |-> l.n, row |-> row[l.n], outcome |-> phone[l.n],
                      result |-> "person", live |-> l.row.live]
  <2>1. Poll \in Processes /\ l.n \in Attempts /\ l.n \in 0..MaximumAttempts /\ l.row \in Row
    BY DEF PollFetch, At, Inv, TypeOK, Future, Processes, Local
  <2>2. Idle \in Local
    BY CallsAssumption DEF Idle, Local, Row, NoRow, Outcomes
  <2>3. Ended(l.n) => read \in Local
    BY <2>1 DEF Ended, Inv, TypeOK, Local, Row, Outcomes
  <2>4. local' \in [Processes -> Local]
    BY <2>1, <2>2, <2>3 DEF PollFetch, ReadCall, PrefersLive, Go, Inv, TypeOK
  <2> QED
    BY <2>4 DEF PollFetch, Inv, TypeOK, work
<1>2. Future'
  BY DEF Inv, PollFetch, Poll, Processes, calls, work, NoRow, Idle, At, Go, Finished,
         TimesOut, ReadCall, Ended, PrefersLive, TypeOK, Future
<1>3. Modes'
  BY DEF Inv, PollFetch, Poll, Processes, calls, work, NoRow, Idle, At, Go, Finished, Mode,
         TimesOut, ReadCall, Ended, PrefersLive, TypeOK, StoodIn, GaveUp, Future, Modes
<1>4. Results'
  BY DEF Inv, PollFetch, Poll, Processes, calls, work, NoRow, Idle, At, Go, Finished, Mode,
         TimesOut, ReadCall, Ended, PrefersLive, TypeOK, StoodIn, GaveUp, Conversed, Future,
         Results, Outcomes, Modes
<1>5. Reasons'
  BY DEF Inv, PollFetch, calls, work, NoRow, Idle, At, Go, Finished, Mode, TimesOut,
         ReadCall, Ended, PrefersLive, StoodIn, GaveUp, Conversed, Future, Reasons
<1> QED  BY <1>1, <1>2, <1>3, <1>4, <1>5 DEF Inv

LEMMA CompleteCallKeeps ==
    ASSUME Inv, NEW p \in Processes, CompleteCall(p)
    PROVE  Inv'
<1>1. TypeOK'
  <2> DEFINE l == local[p]
             r == [l.row EXCEPT !.status = l.outcome, !.result = l.result, !.live = l.live]
  <2>1. l.n \in Attempts /\ l \in Local
    BY DEF CompleteCall, At, Inv, TypeOK, Future
  <2>2. r \in Row
    BY <2>1 DEF Local, Row
  <2>3. row' \in [Attempts -> Row]
    BY <2>1, <2>2 DEF CompleteCall, Conclude, Inv, TypeOK
  <2>4. Idle \in Local
    BY CallsAssumption DEF Idle, Local, Row, NoRow, Outcomes
  <2>5. local' \in [Processes -> Local]
    BY <2>4 DEF CompleteCall, Go, Inv, TypeOK
  <2>6. finishing' \subseteq Settled
    BY <2>1 DEF CompleteCall, Emit, SettlementOf, Inv, TypeOK, Settled, Settlement
  <2> QED
    BY <2>3, <2>5, <2>6 DEF CompleteCall, Inv, TypeOK
<1>2. Future'
  BY DEF Inv, CompleteCall, Attempts, NoRow, Idle, At, Go, Conclude, SettlementOf, Emit,
         TypeOK, Future
<1>3. Modes'
  BY DEF Inv, CompleteCall, NoRow, Idle, At, Go, Mode, Conclude, SettlementOf, Emit,
         StoodIn, GaveUp, Future, Modes
<1>4. Results'
  BY DEF Inv, CompleteCall, NoRow, Idle, At, Go, Mode, Conclude, SettlementOf, Emit,
         StoodIn, GaveUp, Conversed, Future, Results
<1>5. Reasons'
  BY DEF Inv, CompleteCall, NoRow, Idle, At, Go, Mode, Conclude, SettlementOf, Emit,
         StoodIn, GaveUp, Conversed, Future, Modes, Results, Reasons, Outcomes, Local, Row,
         TypeOK
<1> QED  BY <1>1, <1>2, <1>3, <1>4, <1>5 DEF Inv

LEMMA ResultCallbackKeeps ==
    ASSUME Inv, NEW p \in Requests, NEW n \in Attempts, ResultCallback(p, n)
    PROVE  Inv'
<1>1. TypeOK'
  BY DEF Inv, ResultCallback, Poll, Processes, Attempts, calls, work, NoRow, Local, Idle,
         At, Go, Finished, ReadCall, Ended, TypeOK
<1>2. Future'
  BY DEF Inv, ResultCallback, Attempts, calls, work, NoRow, Idle, At, Go, Finished,
         ReadCall, Ended, TypeOK, Future
<1>3. Modes'
  BY DEF Inv, ResultCallback, calls, work, NoRow, Idle, At, Go, Finished, Mode, ReadCall,
         Ended, StoodIn, GaveUp, Future, Modes
<1>4. Results'
  BY DEF Inv, ResultCallback, calls, work, NoRow, Idle, At, Go, Finished, Mode, ReadCall,
         Ended, StoodIn, GaveUp, Conversed, Future, Results, Outcomes, Modes
<1>5. Reasons'
  BY DEF Inv, ResultCallback, calls, work, NoRow, Idle, At, Go, Finished, Mode, ReadCall,
         Ended, StoodIn, GaveUp, Conversed, Future, Reasons
<1> QED  BY <1>1, <1>2, <1>3, <1>4, <1>5 DEF Inv

LEMMA SimulatedResultKeeps ==
    ASSUME Inv, NEW p \in Requests, NEW n \in Attempts, SimulatedResult(p, n)
    PROVE  Inv'
<1>1. TypeOK'
  BY CallsAssumption DEF Inv, SimulatedResult, Poll, Processes, Attempts, calls, work,
         Outcomes, Open, Row, NoRow, Local, Idle, At, Go, Finished, ReadCall, TypeOK
<1>2. Future'
  BY DEF Inv, SimulatedResult, calls, work, NoRow, Idle, At, Go, Finished, ReadCall, TypeOK,
         Future
<1>3. Modes'
  BY DEF Inv, SimulatedResult, calls, work, NoRow, Idle, At, Go, Finished, Mode, ReadCall,
         TypeOK, StoodIn, GaveUp, Future, Modes
<1>4. Results'
  BY DEF Inv, SimulatedResult, calls, work, NoRow, Idle, At, Go, Finished, Mode, ReadCall,
         StoodIn, GaveUp, Conversed, Future, Modes, Results
<1>5. Reasons'
  BY DEF Inv, SimulatedResult, calls, work, NoRow, Idle, At, Go, Finished, Mode, ReadCall,
         StoodIn, GaveUp, Conversed, Future, Reasons
<1> QED  BY <1>1, <1>2, <1>3, <1>4, <1>5 DEF Inv

LEMMA ReadReportKeeps ==
    ASSUME Inv, NEW p \in Requests, NEW n \in Attempts, ReadReport(p, n)
    PROVE  Inv'
<1>1. TypeOK'
  <2>1. p \in Processes /\ row[n] \in Row /\ n \in 0..MaximumAttempts
    BY DEF Inv, TypeOK, Processes, Attempts
  <2>2. \A pc \in {"report", "authorize"} :
           [Idle EXCEPT !.pc = pc, !.n = n, !.row = row[n]] \in Local
    BY <2>1 DEF Idle, Local, Outcomes
  <2>3. local' \in [Processes -> Local]
    BY <2>1, <2>2 DEF ReadReport, Go, Inv, TypeOK
  <2> QED
    BY <2>3, CallsAssumption DEF ReadReport, Inv, TypeOK, work
<1>2. Future'
  BY DEF Inv, ReadReport, Attempts, calls, work, NoRow, Idle, At, Go, TypeOK, Future
<1>3. Modes'
  BY DEF Inv, ReadReport, calls, work, NoRow, Idle, At, Go, Mode, StoodIn, GaveUp, Future, Modes
<1>4. Results'
  BY DEF Inv, ReadReport, calls, work, NoRow, Idle, At, Go, Mode, StoodIn, GaveUp, Conversed,
         Future, Results
<1>5. Reasons'
  BY DEF Inv, ReadReport, calls, work, NoRow, Idle, At, Go, Mode, StoodIn, GaveUp, Conversed,
         Future, Reasons
<1> QED  BY <1>1, <1>2, <1>3, <1>4, <1>5 DEF Inv

LEMMA WriteReportKeeps ==
    ASSUME Inv, NEW p \in Requests, WriteReport(p)
    PROVE  Inv'
<1>1. TypeOK'
  <2> DEFINE r == [local[p].row EXCEPT !.live = TRUE]
  <2>1. p \in Processes /\ local[p].n \in Attempts /\ local[p].row \in Row
    BY DEF WriteReport, At, Inv, TypeOK, Future, Processes, Local
  <2>2. r \in Row
    BY <2>1 DEF Row
  <2>3. row' \in [Attempts -> Row]
    BY <2>1, <2>2 DEF WriteReport, Inv, TypeOK
  <2>4. Idle \in Local
    BY CallsAssumption DEF Idle, Local, Row, NoRow, Outcomes
  <2>5. local' \in [Processes -> Local]
    BY <2>1, <2>4 DEF WriteReport, Go, Inv, TypeOK
  <2> QED
    BY <2>3, <2>5 DEF WriteReport, Inv, TypeOK, work
<1>2. Future'
  BY DEF Inv, WriteReport, Poll, Processes, Attempts, calls, work, NoRow, Idle, At, Go,
         TypeOK, Future
<1>3. Modes'
  BY DEF Inv, WriteReport, Poll, Processes, calls, work, NoRow, Idle, At, Go, Mode, StoodIn,
         GaveUp,
         Future, Modes
<1>4. Results'
  BY DEF Inv, WriteReport, calls, work, NoRow, Idle, At, Go, Mode, StoodIn, GaveUp, Conversed,
         Future, Results
<1>5. Reasons'
  BY DEF Inv, WriteReport, calls, work, NoRow, Idle, At, Go, Mode, StoodIn, GaveUp, Conversed,
         Future, Reasons
<1> QED  BY <1>1, <1>2, <1>3, <1>4, <1>5 DEF Inv

LEMMA AuthorizeKeeps ==
    ASSUME Inv, NEW p \in Requests, Authorize(p)
    PROVE  Inv'
<1>1. TypeOK'
  <2> DEFINE n == local[p].n
             r == [row[n] EXCEPT !.live = TRUE]
  <2>1. p \in Processes /\ n \in Attempts /\ row[n] \in Row
    BY DEF Authorize, At, Inv, TypeOK, Future, Processes
  <2>2. r \in Row
    BY <2>1 DEF Row
  <2>3. row' = row \/ row' = [row EXCEPT ![n] = r]
    BY DEF Authorize
  <2>4. row' \in [Attempts -> Row]
    BY <2>1, <2>2, <2>3 DEF Inv, TypeOK
  <2>5. Idle \in Local
    BY CallsAssumption DEF Idle, Local, Row, NoRow, Outcomes
  <2>6. local' \in [Processes -> Local]
    BY <2>1, <2>5 DEF Authorize, Go, Inv, TypeOK
  <2> QED
    BY <2>4, <2>6 DEF Authorize, Inv, TypeOK, work
<1>2. Future'
  BY DEF Inv, Authorize, calls, work, NoRow, Idle, At, Go, TypeOK, Future
<1>3. Modes'
  BY DEF Inv, Authorize, calls, work, NoRow, Idle, At, Go, Mode, StoodIn, GaveUp, Future, Modes
<1>4. Results'
  BY DEF Inv, Authorize, calls, work, NoRow, Idle, At, Go, Mode, StoodIn, GaveUp, Conversed,
         Future,
         Results
<1>5. Reasons'
  BY DEF Inv, Authorize, calls, work, NoRow, Idle, At, Go, Mode, StoodIn, GaveUp, Conversed,
         Future,
         Reasons
<1> QED  BY <1>1, <1>2, <1>3, <1>4, <1>5 DEF Inv

LEMMA HangUpKeeps ==
    ASSUME Inv, NEW n \in Attempts, HangUp(n)
    PROVE  Inv'
<1>1. TypeOK'
  BY DEF Inv, HangUp, calls, work, TypeOK
<1>2. Future'
  BY DEF Inv, HangUp, calls, work, Future
<1>3. Modes'
  BY DEF Inv, HangUp, calls, work, Mode, StoodIn, GaveUp, Future, Modes
<1>4. Results'
  BY DEF Inv, HangUp, calls, work, Mode, StoodIn, GaveUp, Conversed, Future, Results
<1>5. Reasons'
  BY DEF Inv, HangUp, calls, work, Mode, StoodIn, GaveUp, Conversed, Future, Reasons
<1> QED  BY <1>1, <1>2, <1>3, <1>4, <1>5 DEF Inv

LEMMA TimePassesKeeps ==
    ASSUME Inv, NEW n \in Attempts, TimePasses(n)
    PROVE  Inv'
<1>1. TypeOK'
  BY DEF Inv, TimePasses, calls, work, TypeOK
<1>2. Future'
  BY DEF Inv, TimePasses, calls, work, Future
<1>3. Modes'
  BY DEF Inv, TimePasses, calls, work, Mode, StoodIn, GaveUp, Future, Modes
<1>4. Results'
  BY DEF Inv, TimePasses, calls, work, Mode, StoodIn, GaveUp, Conversed, Future, Results
<1>5. Reasons'
  BY DEF Inv, TimePasses, calls, work, Mode, StoodIn, GaveUp, Conversed, Future, Reasons
<1> QED  BY <1>1, <1>2, <1>3, <1>4, <1>5 DEF Inv

LEMMA RestartKeeps ==
    ASSUME Inv, Restart
    PROVE  Inv'
<1>1. TypeOK'
  BY CallsAssumption DEF Inv, Restart, Outcomes, Open, Row, NoRow, Dial, NoDial, Local,
         Idle, TypeOK
<1>2. Future'
  BY DEF Inv, Restart, NoRow, NoDial, Idle, TypeOK, Future
<1>3. Modes'
  BY DEF Inv, Restart, NoRow, NoDial, Idle, Mode, StoodIn, GaveUp, Future, Modes
<1>4. Results'
  BY DEF Inv, Restart, NoRow, NoDial, Idle, Mode, Future, Results, Finished, Outcomes
<1>5. Reasons'
  BY DEF Inv, Restart, NoRow, NoDial, Idle, Mode, StoodIn, GaveUp, Conversed, Future, Reasons
<1> QED  BY <1>1, <1>2, <1>3, <1>4, <1>5 DEF Inv

-----------------------------------------------------------------------------
LEMMA InitInv ==
    ASSUME Init
    PROVE  Inv
<1> USE CallsAssumption
<1>1. NoRow \in Row /\ 0 \in 0..MaximumAttempts
  BY DEF NoRow, Row
<1>2. NoDial \in Dial /\ Idle \in Local
  BY <1>1 DEF NoDial, Idle, Dial, Local, Outcomes
<1>3. TypeOK
  <2>1. fallback \in BOOLEAN
    BY DEF Init
  <2>2. 0 \in 0..MaximumReports /\ 0 \in 0..MaximumRestarts
    BY CallsAssumption
  <2>3. /\ tool \in [Attempts -> ToolStatus] /\ row \in [Attempts -> Row]
        /\ local \in [Processes -> Local]
    BY <1>1, <1>2 DEF Init, ToolStatus
  <2> QED
    BY <1>1, <1>2, <2>1, <2>2, <2>3 DEF Init, TypeOK
<1>4. Future /\ Modes /\ Results
  BY DEF Init, Future, Modes, Results, NoDial, Idle, NoRow, Attempts, Finished, Outcomes
<1>5. Reasons
  BY DEF Init, Reasons, Attempts
<1> QED  BY <1>3, <1>4, <1>5 DEF Inv

LEMMA StepKeepsInv ==
    ASSUME Inv, [Next]_vars
    PROVE  Inv'
<1>1. CASE Dispatch
  BY <1>1, DispatchKeeps
<1>2. CASE DialStep
  BY <1>2, TriggerLiveKeeps, TriggerSimulatedKeeps, AcceptCallKeeps, FallBackKeeps,
     FailCallKeeps, ReturnKeeps, TimeOutExecutionKeeps DEF DialStep
<1>3. CASE Settle \/ Tick
  BY <1>3, FinishToolKeeps, ExpireKeeps DEF Settle, Tick
<1>4. CASE PollStep
  <2>1. Poll \in Processes
    BY DEF Processes
  <2> QED
    BY <1>4, <2>1, PollReadKeeps, PollTimeoutKeeps, PollFetchKeeps, CompleteCallKeeps
       DEF PollStep
<1>5. ASSUME NEW p \in Requests, RequestStep(p)
      PROVE  Inv'
  <2>1. p \in Processes
    BY DEF Processes
  <2> QED
    BY <1>5, <2>1, ResultCallbackKeeps, SimulatedResultKeeps, ReadReportKeeps,
       CompleteCallKeeps, WriteReportKeeps, AuthorizeKeeps DEF RequestStep
<1>6. ASSUME NEW n \in Attempts, HangUp(n) \/ TimePasses(n)
      PROVE  Inv'
  BY <1>6, HangUpKeeps, TimePassesKeeps
<1>7. CASE Restart
  BY <1>7, RestartKeeps
<1>8. CASE UNCHANGED vars
  BY <1>8 DEF vars, work, calls, Inv, TypeOK, Future, Modes, Results, Reasons, Conversed,
              StoodIn, GaveUp, Mode
<1> QED
  BY <1>1, <1>2, <1>3, <1>4, <1>5, <1>6, <1>7, <1>8 DEF Next

\* The strengthened invariant holds in every state of Spec.
THEOREM InvHolds == Spec => []Inv
<1> QED  BY InitInv, StepKeepsInv, PTL DEF Spec

\* Every variable keeps its type, for any number of attempts, callbacks and restarts.
THEOREM TypeCorrect == Spec => []TypeOK
<1>1. Inv => TypeOK
  BY DEF Inv
<1> QED  BY <1>1, InvHolds, PTL

\* The engineer's phone rings again only behind a call that failed and whose attempt was
\* switched to the simulated mode (onEngineerCallFinished, timeoutErrorFor).
THEOREM RungAgainOnlyAfterFailureHolds == Spec => []RungAgainOnlyAfterFailure
<1>1. Inv => RungAgainOnlyAfterFailure
  BY DEF Inv, TypeOK, Future, Modes, Reasons, GaveUp, Rung, Attempts,
         RungAgainOnlyAfterFailure
<1> QED  BY <1>1, InvHolds, PTL

\* A step is completed only by a conversation of one of its attempts, or by a simulation.
THEOREM CompletedStepWasAnsweredHolds == Spec => []CompletedStepWasAnswered
<1>1. Inv => CompletedStepWasAnswered
  BY DEF Inv, Reasons, Conversed, CompletedStepWasAnswered
<1> QED  BY <1>1, InvHolds, PTL

\* The writes of HappyRobot and of the simulated mode leave a finished call finished,
\* except those of the startCall that is still placing it.
LEMMA StepKeepsFinished ==
    ASSUME Inv, [Next]_vars, NEW n \in Attempts,
           adapter # "elevenlabs", Finished(row[n]), dial.n # n
    PROVE  Finished(row'[n])
<1> USE DEF Finished
<1>1. CASE Dispatch
  <2>1. n # attempt + 1
    BY CallsAssumption DEF Inv, TypeOK, Future, Attempts, Outcomes
  <2> QED
    BY <1>1, <2>1 DEF Dispatch, Inv, TypeOK
<1>2. CASE DialStep
  BY <1>2 DEF DialStep, TriggerLive, TriggerSimulated, AcceptCall, FallBack, FailCall, Return,
              TimeOutExecution, Inv, TypeOK
<1>3. CASE Settle \/ Tick
  BY <1>3 DEF Settle, Tick, FinishTool, Expire, calls
<1>4. ASSUME NEW p \in Processes, CompleteCall(p)
      PROVE  Finished(row'[n])
  BY <1>4 DEF CompleteCall, Conclude, Inv, TypeOK, Local, Row
<1>5. CASE PollStep
  <2>1. Poll \in Processes
    BY DEF Processes
  <2>2. CASE PollTimeout
    BY <2>2, <2>1 DEF PollTimeout, Outcomes, Inv, TypeOK, Local, Row
  <2> QED
    BY <1>4, <1>5, <2>1, <2>2 DEF PollStep, PollRead, PollFetch
<1>6. ASSUME NEW p \in Requests, RequestStep(p)
      PROVE  Finished(row'[n])
  <2>1. p \in Processes
    BY DEF Processes
  <2>2. ~WriteReport(p)
    BY <2>1 DEF WriteReport, At, Inv, Results
  <2>3. CASE Authorize(p)
    BY <2>3 DEF Authorize, Open, Outcomes, Inv, TypeOK
  <2> QED
    BY <1>4, <1>6, <2>1, <2>2, <2>3 DEF RequestStep, ResultCallback, SimulatedResult, ReadReport
<1>7. ASSUME NEW m \in Attempts, HangUp(m) \/ TimePasses(m)
      PROVE  Finished(row'[n])
  BY <1>7 DEF HangUp, TimePasses, calls
<1>8. CASE Restart \/ UNCHANGED vars
  BY <1>8 DEF Restart, vars, calls
<1> QED
  BY <1>1, <1>2, <1>3, <1>5, <1>6, <1>7, <1>8 DEF Next

\* Once startCall is over, a finished call of HappyRobot or of the simulated mode is never
\* reopened (EngineersService.completeCall, recordAuthorizations).
THEOREM FinishedStaysFinishedHolds == Spec => FinishedStaysFinished
<1>1. ASSUME Inv, [Next]_vars
      PROVE  [\A n \in Attempts :
                adapter # "elevenlabs" /\ Finished(row[n]) /\ dial.n # n => Finished(row'[n])]_vars
  BY <1>1, StepKeepsFinished
<1> QED  BY <1>1, InvHolds, PTL DEF Spec, FinishedStaysFinished

-----------------------------------------------------------------------------
(* What a finished call is taken for.  Only completeCall says that a person       *)
(* answered, and it says so with the outcome of the conversation; a row that is   *)
(* written back as a whole for any other reason has no result of a person yet.    *)

\* A row that has a person's result has the outcome of the engineer's line.
Outspoken(n, r) == r.result = "person" => r.status = phone[n] /\ phone[n] \in Outcomes

Talks ==
    /\ \A n \in Attempts : Outspoken(n, row[n])
    /\ dial.row.result # "person"
    /\ \A p \in Processes :
          /\ local[p].pc \in {"polled", "report"} => local[p].row.result # "person"
          /\ local[p].pc = "complete" /\ local[p].result = "person" =>
                local[p].outcome = phone[local[p].n]

LEMMA CompleteKeepsTalks ==
    ASSUME Inv, Talks, NEW p \in Processes, CompleteCall(p)
    PROVE  Talks'
<1> DEFINE l == local[p]
           r == Conclude(l.row, l.outcome, l.result, l.live)
<1>1. l \in Local /\ l.n \in Attempts /\ l.row \in Row
  BY DEF CompleteCall, At, Inv, TypeOK, Future, Local
<1>2. r.status = l.outcome /\ r.result = l.result /\ l.outcome \in Outcomes
  BY <1>1 DEF Conclude, Row, Local
<1>3. Outspoken(l.n, r)
  BY <1>2 DEF CompleteCall, At, Talks, Outspoken
<1>4. row' = [row EXCEPT ![l.n] = r] /\ local' = [local EXCEPT ![p] = Idle]
      /\ phone' = phone /\ dial' = dial
  BY DEF CompleteCall, Go
<1>5. row \in [Attempts -> Row] /\ local \in [Processes -> Local]
  BY DEF Inv, TypeOK
<1> HIDE DEF l, r
<1>6. \A n \in Attempts : Outspoken(n, row'[n])
  BY <1>1, <1>3, <1>4, <1>5 DEF Talks
<1> QED
  BY <1>4, <1>5, <1>6 DEF Talks, Outspoken, Idle, NoRow

LEMMA PollKeepsTalks ==
    ASSUME Inv, Talks, PollStep
    PROVE  Talks'
<1>1. Poll \in Processes /\ local \in [Processes -> Local] /\ row \in [Attempts -> Row]
  BY DEF Processes, Inv, TypeOK
<1>2. ASSUME NEW n \in Attempts, PollRead(n)
      PROVE  Talks'
  BY <1>1, <1>2 DEF PollRead, Polled, Go, Idle, NoRow, Talks, Outspoken, Outcomes
<1>3. CASE PollTimeout
  <2> DEFINE l == local[Poll]
             r == [l.row EXCEPT !.status = "failed"]
  <2>1. l.row \in Row /\ l.pc = "polled"
    BY <1>1, <1>3 DEF PollTimeout, TimesOut, At, Local
  <2>2. r.result # "person"
    BY <1>1, <2>1 DEF Talks, Row
  <2> QED
    BY <1>1, <1>3, <2>2 DEF PollTimeout, Go, Idle, NoRow, Talks, Outspoken
<1>4. CASE PollFetch
  BY <1>1, <1>4 DEF PollFetch, ReadCall, Ended, Go, Idle, NoRow, Talks, Outspoken
<1> QED
  BY <1>1, <1>2, <1>3, <1>4, CompleteKeepsTalks DEF PollStep

LEMMA RequestKeepsTalks ==
    ASSUME Inv, Talks, NEW p \in Requests, RequestStep(p)
    PROVE  Talks'
<1>1. p \in Processes /\ local \in [Processes -> Local] /\ row \in [Attempts -> Row]
  BY DEF Processes, Inv, TypeOK
<1>2. ASSUME NEW n \in Attempts, ResultCallback(p, n)
      PROVE  Talks'
  BY <1>1, <1>2 DEF ResultCallback, ReadCall, Ended, Go, Idle, NoRow, Talks, Outspoken
<1>3. ASSUME NEW n \in Attempts, SimulatedResult(p, n)
      PROVE  Talks'
  BY <1>1, <1>3 DEF SimulatedResult, ReadCall, Go, Idle, NoRow, Talks, Outspoken
<1>4. ASSUME NEW n \in Attempts, ReadReport(p, n)
      PROVE  Talks'
  BY <1>1, <1>4 DEF ReadReport, Go, Idle, NoRow, Talks, Outspoken, Outcomes
<1>5. CASE WriteReport(p)
  <2> DEFINE r == [local[p].row EXCEPT !.live = TRUE]
  <2>1. r.result # "person"
    BY <1>1, <1>5 DEF WriteReport, At, Talks, Local, Row
  <2> QED
    BY <1>1, <1>5, <2>1 DEF WriteReport, Go, Idle, NoRow, Talks, Outspoken
<1>6. CASE Authorize(p)
  <2>1. \A n \in Attempts :
          row'[n].status = row[n].status /\ row'[n].result = row[n].result
    BY <1>1, <1>6 DEF Authorize, Row
  <2> QED
    BY <1>1, <1>6, <2>1 DEF Authorize, Go, Idle, NoRow, Talks, Outspoken
<1> QED
  BY <1>1, <1>2, <1>3, <1>4, <1>5, <1>6, CompleteKeepsTalks DEF RequestStep

\* startCall writes rows without a result, and rings a phone that has not rung.
LEMMA DialKeepsTalks ==
    ASSUME Inv, Talks, Dispatch \/ DialStep
    PROVE  Talks'
<1>1. /\ dial \in Dial /\ dial.row \in Row /\ row \in [Attempts -> Row]
      /\ local \in [Processes -> Local]
      /\ phone \in [Attempts -> {"none", "ringing"} \cup Outcomes]
  BY DEF Inv, TypeOK, Dial
<1>2. CASE Dispatch
  <2> DEFINE m == attempt + 1
             r == [NoRow EXCEPT !.status = "dialing", !.mode = Mode,
                     !.provider = IF adapter = "simulated" THEN "none" ELSE adapter]
  <2>1. r.result = "none" /\ dial'.row = r /\ row' = [row EXCEPT ![m] = r]
        /\ phone' = phone /\ local' = local
    BY <1>2 DEF Dispatch, NoRow
  <2> HIDE DEF r
  <2> QED
    BY <1>1, <2>1 DEF Talks, Outspoken
<1>3. CASE TriggerLive
  <2>1. dial.n \in Attempts /\ phone[dial.n] = "none"
    BY <1>3 DEF TriggerLive, Inv, Future
  <2>2. /\ \A n \in Attempts : n # dial.n => phone'[n] = phone[n]
        /\ row' = row /\ local' = local /\ dial'.row = dial.row
    BY <1>1, <1>3 DEF TriggerLive, work, Dial
  <2>3. \A n \in Attempts : Outspoken(n, row[n])'
    BY <2>1, <2>2 DEF Talks, Outspoken, Outcomes
  <2>4. \A p \in Processes : local[p].pc = "complete" =>
             local[p].n \in Attempts /\ local[p].outcome \in Outcomes
    BY <1>1 DEF Inv, Future, Local
  <2> QED
    BY <2>1, <2>2, <2>3, <2>4 DEF Talks, Outcomes
<1>4. CASE FallBack
  <2> DEFINE r == Switched(dial.row)
  <2>1. r.result = dial.row.result
    BY <1>1 DEF Switched, Row
  <2>2. row' = [row EXCEPT ![dial.n] = r] /\ dial'.row = r /\ phone' = phone /\ local' = local
    BY <1>1, <1>4 DEF FallBack, Dial
  <2> HIDE DEF r
  <2> QED
    BY <1>1, <2>1, <2>2 DEF Talks, Outspoken
<1>5. CASE AcceptCall \/ FailCall
  <2> DEFINE r(status) == [dial.row EXCEPT !.status = status]
  <2>1. PICK status : row' = [row EXCEPT ![dial.n] = r(status)] /\ dial'.row = r(status)
    <3>1. CASE AcceptCall
      BY <1>1, <3>1 DEF AcceptCall, Dial
    <3>2. CASE FailCall
      BY <1>1, <3>2 DEF FailCall, Dial
    <3> QED
      BY <1>5, <3>1, <3>2
  <2>3. r(status).result = dial.row.result
    BY <1>1 DEF Row
  <2> HIDE DEF r
  <2>2. phone' = phone /\ local' = local
    BY <1>5 DEF AcceptCall, FailCall
  <2> QED
    BY <1>1, <2>1, <2>2, <2>3 DEF Talks, Outspoken
<1>6. CASE TriggerSimulated \/ Return \/ TimeOutExecution
  BY <1>1, <1>6 DEF TriggerSimulated, Return, TimeOutExecution, NoDial, NoRow, Dial, Talks,
                    Outspoken
<1> QED
  BY <1>2, <1>3, <1>4, <1>5, <1>6 DEF DialStep

LEMMA StepKeepsTalks ==
    ASSUME Inv, Talks, [Next]_vars
    PROVE  Talks'
<1>1. CASE Settle \/ Tick
  BY <1>1 DEF Settle, Tick, FinishTool, Expire, calls, Talks, Outspoken
<1>2. ASSUME NEW m \in Attempts, HangUp(m)
      PROVE  Talks'
  <2>1. /\ \A n \in Attempts : n # m => phone'[n] = phone[n]
        /\ phone[m] = "ringing" /\ row' = row /\ local' = local /\ dial' = dial
    BY <1>2 DEF HangUp, Inv, TypeOK
  <2>2. \A p \in Processes : local[p].pc = "complete" =>
             local[p].n \in Attempts /\ local[p].outcome \in Outcomes
    BY DEF Inv, TypeOK, Future, Local
  <2> QED
    BY <2>1, <2>2 DEF Talks, Outspoken, Outcomes
<1>3. ASSUME NEW m \in Attempts, TimePasses(m)
      PROVE  Talks'
  BY <1>3 DEF TimePasses, calls, Talks, Outspoken
<1>4. CASE Restart
  BY <1>4 DEF Restart, NoDial, Idle, NoRow, Talks, Outspoken
<1>5. CASE UNCHANGED vars
  BY <1>5 DEF vars, calls, Talks, Outspoken
<1> QED
  BY <1>1, <1>2, <1>3, <1>4, <1>5, DialKeepsTalks, PollKeepsTalks, RequestKeepsTalks DEF Next

\* The result of a call that a person answered agrees with what happened on the line:
\* buildResult finds no permission that was neither in the report the poll had read nor
\* analysed, turns no refusal of that report into one, notes a disagreement, and the
\* capacity is not confirmed without an entry for it or an authorized failover.
THEOREM FailoverWasAuthorizedHolds == Spec => []FailoverWasAuthorized
<1>1. Init => Talks
  BY DEF Init, NoDial, Idle, NoRow, Talks, Outspoken
<1>2. Talks => FailoverWasAuthorized
  <2> SUFFICES ASSUME Talks, NEW n \in Attempts, NEW c \in Conversations,
                      adapter = "elevenlabs", Finished(row[n]), row[n].result = "person"
               PROVE  LET r == row[n]
                          reported == IF r.live THEN c.reportsFailover ELSE "unsaid"
                          analysed == IF phone[n] = "completed" THEN c.analysedFailover
                                      ELSE "unsaid"
                          unconfirmed ==
                              \/ phone[n] # "completed"
                              \/ c.collected[CapacityQuestion]
                                    \in {"no", "doubtful", "missing"}
                      IN  /\ BuildResult(c, r).failover = "yes" =>
                                reported = "yes" \/ (reported = "unsaid" /\ analysed = "yes")
                          /\ {reported, analysed} = {"yes", "no"} => BuildResult(c, r).noted
                          /\ ConfirmsCapacity(c, r) /\ unconfirmed =>
                                /\ BuildResult(c, r).failover = "yes"
                                /\ ConfirmedFacts(c, r) = Questions
    BY DEF FailoverWasAuthorized
  <2> DEFINE r == row[n]
             reported == IF r.live THEN c.reportsFailover ELSE "unsaid"
             analysed == IF phone[n] = "completed" THEN c.analysedFailover ELSE "unsaid"
  <2>1. r.status = phone[n]
    BY DEF Talks, Outspoken
  <2>2. Analysed(c, r).failover = analysed /\ Live(c, r).failover = reported
    BY <2>1 DEF Analysed, Live, PrefersLive, NothingSaid
  <2>3. BuildResult(c, r).failover = PreferLive(analysed, reported)
    BY <2>2 DEF BuildResult
  <2>4. BuildResult(c, r).failover = "yes" =>
            reported = "yes" \/ (reported = "unsaid" /\ analysed = "yes")
    BY <2>3 DEF PreferLive
  <2>5. {reported, analysed} = {"yes", "no"} => BuildResult(c, r).noted
    <3>1. ASSUME {reported, analysed} = {"yes", "no"}
          PROVE  Contradicts(analysed, reported)
      BY <3>1 DEF Contradicts
    <3> QED
      BY <3>1, <2>2 DEF BuildResult, AuthorizationsDisagree
  <2>6. CapacityQuestion \in ConfirmedByAnswer(c, r) =>
            /\ phone[n] = "completed"
            /\ c.collected[CapacityQuestion] \notin {"no", "doubtful", "missing"}
    BY <2>1 DEF ConfirmedByAnswer, BuildResult, AnswersFrom, Confirms
  <2> QED
    BY <2>4, <2>5, <2>6 DEF ConfirmsCapacity, ConfirmedFacts
<1> QED
  BY <1>1, <1>2, StepKeepsTalks, InvHolds, PTL DEF Spec
=============================================================================

--------------------------- MODULE OutsideReports ---------------------------
(***************************************************************************)
(* What reaches a run from outside while the handlers of IncidentStore     *)
(* work on its row: a company that asks for priority (CompanyCallService)  *)
(* or an engineer who reports capacity (IncomingCallsService).  A request  *)
(* is accepted in a transaction that locks the row of the run, a report is *)
(* confirmed in one that locks the row of the call only.  The dispatcher   *)
(* of accepted requests and the wake-ups of the agent run beside them, and *)
(* a crash may come between any two of their steps.                        *)
(***************************************************************************)
EXTENDS IncidentStore

CONSTANTS
    Target,         \* the run the callers speak of
    Report,         \* the harness event of the capacity report
    Confirmers,     \* confirmations of the report in flight at once
    MaximumWakes,   \* bound of this model on the wake-ups of the agent in flight
    MaximumCrashes  \* bound of this model on crashes of the server

ASSUME ReportsAssumption ==
    /\ Target \in Runs
    /\ Report \in Events
    /\ MaximumWakes \in Nat \ {0}
    /\ MaximumCrashes \in Nat

VARIABLES
    caller,      \* who calls: a company or an engineer
    session,     \* processingState of the company's session
    due,         \* its nextDispatchAt has passed
    receiving,   \* the receive transaction holds the locks of session and run
    dispatcher,  \* where dispatchPending is
    wakes,       \* onCompanyPriority handlers in flight
    capacity,    \* status of the incoming call
    confirming,  \* confirming[c]: where a confirm request is, and its handler
    crashes

reports == <<caller, session, due, receiving, dispatcher, wakes, capacity, confirming, crashes>>
allVars == <<vars, reports>>

\* active: requests are accepted for an unresolved incident of a live run.
Unresolved(r) ==
    /\ r \in started /\ row[r].active /\ KindOf[r] # "replay"
    /\ row[r].status \notin {"normal", "reset", "recovered"}

-----------------------------------------------------------------------------
(* A company asks for priority. *)

\* initiate, in one transaction that share-locks the run.
Initiate ==
    /\ caller = "company" /\ session = "none"
    /\ Unresolved(Target)
    /\ session' = "idle"
    /\ UNCHANGED <<vars, caller, due, receiving, dispatcher, wakes, capacity, confirming, crashes>>

\* receive up to its writes: both rows are locked and the run is checked.
BeginReceive ==
    /\ session = "idle" /\ ~receiving
    /\ Unresolved(Target)
    /\ receiving' = TRUE
    /\ UNCHANGED <<vars, caller, session, due, dispatcher, wakes, capacity, confirming, crashes>>

\* The commit, and the event that wakes the agent.  A request that was accepted
\* is answered again without another write.
CommitReceive ==
    /\ receiving /\ wakes < MaximumWakes
    /\ receiving' = FALSE
    /\ session' = "pending" /\ due' = TRUE
    /\ wakes' = wakes + 1
    /\ UNCHANGED <<vars, caller, dispatcher, capacity, confirming, crashes>>

\* Faulty variant: the run is only read.
LocksNothing(r) == FALSE

\* SELECT ... FOR UPDATE: until the transaction ends nobody else writes the row.
Locked(r) == receiving /\ r = Target

\* onCompanyPriority: only a cycle that completed marks the request.
Observe ==
    /\ wakes > 0
    /\ wakes' = wakes - 1
    /\ session' = IF session = "pending" THEN "observed" ELSE session
    /\ UNCHANGED <<vars, caller, due, receiving, dispatcher, capacity, confirming, crashes>>

\* The cycle was skipped, refused because another one runs, or failed.
NotObserved ==
    /\ wakes > 0
    /\ wakes' = wakes - 1
    /\ UNCHANGED <<vars, caller, session, due, receiving, dispatcher, capacity, confirming, crashes>>

-----------------------------------------------------------------------------
(* dispatchPending *)

FindPending ==
    /\ dispatcher = "idle" /\ session = "pending" /\ due
    /\ dispatcher' = "found"
    /\ UNCHANGED <<vars, caller, session, due, receiving, wakes, capacity, confirming, crashes>>

ReadRun ==
    /\ dispatcher = "found"
    /\ dispatcher' = IF Unresolved(Target) THEN "claim" ELSE "close"
    /\ UNCHANGED <<vars, caller, session, due, receiving, wakes, capacity, confirming, crashes>>

\* The state of the session is not compared: it may have been observed meanwhile.
CloseRequest ==
    /\ dispatcher = "close"
    /\ dispatcher' = "idle"
    /\ session' = "stale"
    /\ UNCHANGED <<vars, caller, due, receiving, wakes, capacity, confirming, crashes>>

\* The claim sets the next attempt a minute ahead, if the row is as it was read.
ClaimRequest ==
    /\ dispatcher = "claim"
    /\ dispatcher' = "idle"
    /\ IF session = "pending" /\ due
       THEN wakes < MaximumWakes /\ wakes' = wakes + 1 /\ due' = FALSE
       ELSE UNCHANGED <<wakes, due>>
    /\ UNCHANGED <<vars, caller, session, receiving, capacity, confirming, crashes>>

MinutePasses ==
    /\ session = "pending" /\ ~due
    /\ due' = TRUE
    /\ UNCHANGED <<vars, caller, session, receiving, dispatcher, wakes, capacity, confirming, crashes>>

-----------------------------------------------------------------------------
(* An engineer reports capacity. *)

\* receive: the run is read some time before the insert, which ignores a retry.
ReceiveReport ==
    /\ caller = "engineer" /\ capacity = "none"
    /\ Target \in started /\ KindOf[Target] # "replay"
    /\ capacity' = "pending"
    /\ UNCHANGED <<vars, caller, session, due, receiving, dispatcher, wakes, confirming, crashes>>

At(c, pc) == confirming[c].pc = pc
Waiting == [pc |-> "idle", handler |-> {}]

\* Faulty variant: two confirmations read the call at the same time.
NeverHeld == FALSE

\* The row of the call is locked by one confirmation.
CallHeld == \E c \in Confirmers : confirming[c].pc # "idle"

Unapplied == Report \notin row[Target].events

\* confirm up to applyHarnessEvent: a call that is confirmed is answered as it is.
BeginConfirm(c) ==
    /\ At(c, "idle") /\ capacity = "pending" /\ ~CallHeld
    /\ AcceptsEvents(Target)
    /\ confirming' = [confirming EXCEPT ![c] =
                        [pc |-> IF Unapplied THEN "apply" ELSE "save", handler |-> {}]]
    /\ UNCHANGED <<vars, caller, session, due, receiving, dispatcher, wakes, capacity, crashes>>

\* applyHarnessEvent, on another connection: a report below what is allocated, or
\* one on a run that was reset meanwhile, is refused and rolls the confirmation back.
ApplyReport(c, h, available) ==
    /\ At(c, "apply")
    /\ IF AcceptsEvents(Target) /\ AcceptsCapacity(Target, available)
       THEN /\ Edit(h, Target, Answering(Target,
                  [row[Target] EXCEPT !.total = available, !.events = @ \cup {Report},
                                      !.status = DeriveIncidentStatus(@, row[Target].services)],
                  Report))
            /\ confirming' = [confirming EXCEPT ![c] = [pc |-> "applying", handler |-> {h}]]
       ELSE /\ confirming' = [confirming EXCEPT ![c] = Waiting]
            /\ UNCHANGED <<row, started, pending, starting, conflicts, acked>>
    /\ UNCHANGED <<claims, caller, session, due, receiving, dispatcher, wakes, capacity, crashes>>

\* applyHarnessEvent has returned, or thrown because the index refused the write.
Applied(c) ==
    /\ At(c, "applying")
    /\ \A h \in confirming[c].handler : pending[h] = NoWrite
    /\ confirming' = [confirming EXCEPT ![c] =
          IF Report \in acked[Target] THEN [pc |-> "save", handler |-> {}] ELSE Waiting]
    /\ UNCHANGED <<vars, caller, session, due, receiving, dispatcher, wakes, capacity, crashes>>

\* The commit of the confirmation; the agent is told afterwards.
SaveConfirmation(c) ==
    /\ At(c, "save")
    /\ capacity' = "confirmed"
    /\ confirming' = [confirming EXCEPT ![c] = Waiting]
    /\ UNCHANGED <<vars, caller, session, due, receiving, dispatcher, wakes, crashes>>

-----------------------------------------------------------------------------
\* What was being done is lost, and open transactions are rolled back.
Crash ==
    /\ crashes < MaximumCrashes
    /\ crashes' = crashes + 1
    /\ pending' = [h \in Handlers |-> NoWrite]
    /\ starting' = [h \in Handlers |-> NoTransaction]
    /\ receiving' = FALSE /\ dispatcher' = "idle" /\ wakes' = 0
    /\ confirming' = [c \in Confirmers |-> Waiting]
    /\ UNCHANGED <<row, started, conflicts, claims, acked, caller, session, due, capacity>>

\* The steps of IncidentStore: the writes wait for the lock, and the identifier of
\* the report is no other event's.
StoreStep(h) ==
    \/ \E r \in Runs : BeginStart(h, r) \/ AgentWrite(h, r)
    \/ \E r \in Runs : HarnessEvent(h, r) /\ Report \notin pending'[h].events
    \/ (\A r \in starting[h].stopped : ~Locked(r)) /\ CommitStart(h)
    \/ ~Locked(pending[h].run) /\ Save(h)

ReportsInit ==
    /\ Init
    /\ caller \in {"company", "engineer"}
    /\ session = "none" /\ due = FALSE /\ receiving = FALSE
    /\ dispatcher = "idle" /\ wakes = 0
    /\ capacity = "none"
    /\ confirming = [c \in Confirmers |-> Waiting]
    /\ crashes = 0

Company ==
    \/ Initiate \/ BeginReceive \/ CommitReceive
    \/ Observe \/ NotObserved
    \/ FindPending \/ ReadRun \/ CloseRequest \/ ClaimRequest \/ MinutePasses

Engineer(c) ==
    \/ BeginConfirm(c) \/ Applied(c) \/ SaveConfirmation(c)
    \/ \E h \in Handlers, available \in LimitedCapacities : ApplyReport(c, h, available)

ReportsNext ==
    \/ \E h \in Handlers : StoreStep(h) /\ UNCHANGED reports
    \/ Company
    \/ ReceiveReport
    \/ \E c \in Confirmers : Engineer(c)
    \/ Crash

ReportsSpec == ReportsInit /\ [][ReportsNext]_allVars

-----------------------------------------------------------------------------
(* Properties *)

ReportsTypeOK ==
    /\ caller \in {"company", "engineer"}
    /\ session \in {"none", "idle", "pending", "observed", "stale"}
    /\ {due, receiving} \subseteq BOOLEAN
    /\ dispatcher \in {"idle", "found", "claim", "close"}
    /\ wakes \in 0..MaximumWakes
    /\ capacity \in {"none", "pending", "confirmed"}
    /\ confirming \in [Confirmers -> [pc : {"idle", "apply", "applying", "save"},
                                      handler : SUBSET Handlers]]

\* A priority request is accepted only on a run that is active and unresolved at
\* the instant of the commit: no tab replaces the run, and no repair resolves it,
\* between the check and the commit of CompanyCallService.receive.
AcceptedOnActiveRun ==
    [][session = "idle" /\ session' = "pending" => Unresolved(Target)]_allVars

\* A confirmed capacity report is applied to the incident once: a confirmation that
\* is repeated, sent twice at once, or cut by a crash after the event was applied
\* never writes it over a row that has it (IncomingCallsService.confirm).
ReportAppliedOnce ==
    \A h \in Handlers : Report \in pending[h].events => Report \notin row[Target].events
=============================================================================

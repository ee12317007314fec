---------------------------- MODULE ActivityFeed ----------------------------
(* The activity log of one run and its readers. A server process numbers the  *)
(* events from a counter of its own (ActivityService), a company's priority   *)
(* request writes its event in a transaction of its own (CompanyCallService), *)
(* and every event that was inserted is announced to the streams. A browser   *)
(* reads the log twice: from an event stream that is cut and resumed          *)
(* (ActivityStreamController) and from the overview, which is only read again *)
(* when its revision has moved (OverviewController, DashboardProvider).       *)
(* The card of the running call is derived from both (activeCallView).        *)
EXTENDS FiniteSetsExt, Integers

CONSTANTS
    Started,           \* engineer-call.started of the one call
    Completed,         \* engineer-call.completed of that call
    Request,           \* the event of a company's priority request
    Others,            \* events about anything else
    PageLimit,         \* events in a page of the backlog
    RecentLimit,       \* RECENT_ACTIVITY_LIMIT
    MaximumCuts        \* bound on streams that are cut and restarts of the server

Events == {Started, Completed, Request} \cup Others
MaximumNumber == Cardinality(Events) + 1

ASSUME FeedAssumption ==
    /\ Cardinality({Started, Completed, Request}) = 3
    /\ IsFiniteSet(Others)
    /\ PageLimit \in Nat \ {0}
    /\ RecentLimit \in Nat \ {0}
    /\ MaximumCuts \in Nat

VARIABLES
    stage,      \* how far the recording of each event has come
    number,     \* its sequence; while a request is "read", the maximum it read
    counter,    \* sequences.get(run) of the process, Unset before it is seeded
    seed,       \* the answer of the seeding query in flight, Unset without one
    call,       \* the row of the engineer call
    conn,       \* the server's side of the browser's stream
    browser,    \* the refs and the state of DashboardProvider
    fetch,      \* the overview request in flight
    cuts        \* what the bound has counted

log == <<stage, number, counter, seed>>
vars == <<log, call, conn, browser, fetch, cuts>>

Unset == -1
Stored == {"committed", "announced", "silent"}
Rows == {e \in Events : stage[e] \in Stored}
Highest(S) == Max({number[e] : e \in S} \cup {0})

\* The rows of S with the lowest sequences, at most limit of them: what list
\* returns, which always counts from the beginning of its window.
Lowest(S, limit) ==
    {e \in S : Cardinality({d \in S : number[d] < number[e]}) < limit}

-----------------------------------------------------------------------------
(* Recording an event.                                                       *)

\* The handlers record the call's events after they have written its row.
Caused(e) ==
    CASE e = Started   -> call # "none"
      [] e = Completed -> call = "ended"
      [] OTHER         -> TRUE

\* nextSequence once the counter is known: read and raised without an await.
TakesNumber(e) ==
    /\ counter # Unset
    /\ counter < MaximumNumber
    /\ counter' = counter + 1
    /\ number' = [number EXCEPT ![e] = counter + 1]
    /\ stage' = [stage EXCEPT ![e] = "numbered"]
    /\ UNCHANGED seed

\* nextSequence before: the first of them queries, the others wait with it.
AwaitsSeed(e) ==
    /\ counter = Unset
    /\ stage' = [stage EXCEPT ![e] = "seeding"]
    /\ seed' = IF seed = Unset THEN Highest(Rows) ELSE seed
    /\ UNCHANGED <<number, counter>>

BeginRecord(e) ==
    /\ e # Request
    /\ stage[e] = "idle"
    /\ Caused(e)
    /\ TakesNumber(e) \/ AwaitsSeed(e)
    /\ UNCHANGED <<call, conn, browser, fetch, cuts>>

\* The counter a seeding query leaves: one that is set meanwhile stays.
Seeded == IF counter = Unset THEN seed ELSE counter

SeedArrives ==
    /\ seed # Unset
    /\ counter' = Seeded
    /\ seed' = Unset
    /\ UNCHANGED <<stage, number, call, conn, browser, fetch, cuts>>

ResumeRecord(e) ==
    /\ stage[e] = "seeding"
    /\ seed = Unset
    /\ TakesNumber(e)
    /\ UNCHANGED <<call, conn, browser, fetch, cuts>>

Insert(e) ==
    /\ stage[e] = "numbered"
    /\ stage' = [stage EXCEPT ![e] = "committed"]
    /\ UNCHANGED <<number, counter, seed, call, conn, browser, fetch, cuts>>

-----------------------------------------------------------------------------
(* A company's request: its transaction locks the session and the run, reads *)
(* the highest sequence, reserves the next one and inserts.                  *)

BeginReceive ==
    /\ stage[Request] = "idle"
    /\ stage' = [stage EXCEPT ![Request] = "read"]
    /\ number' = [number EXCEPT ![Request] = Highest(Rows)]
    /\ UNCHANGED <<counter, seed, call, conn, browser, fetch, cuts>>

\* Faulty variant: only the rows the transaction saw are counted.
ReservedAboveRows(persisted) == persisted + 1

\* reserveSequence: above the rows the transaction saw and above the counter.
Reserved(persisted) == Max({counter, persisted, 0}) + 1

ReserveSequence ==
    /\ stage[Request] = "read"
    /\ LET next == Reserved(number[Request])
       IN  /\ next <= MaximumNumber
           /\ counter' = next
           /\ number' = [number EXCEPT ![Request] = next]
    /\ stage' = [stage EXCEPT ![Request] = "reserved"]
    /\ UNCHANGED <<seed, call, conn, browser, fetch, cuts>>

CommitReceive ==
    /\ stage[Request] = "reserved"
    /\ stage' = [stage EXCEPT ![Request] = "committed"]
    /\ UNCHANGED <<number, counter, seed, call, conn, browser, fetch, cuts>>

\* A rollback leaves the reserved number unused.
RollBackReceive ==
    /\ stage[Request] \in {"read", "reserved"}
    /\ stage' = [stage EXCEPT ![Request] = "lost"]
    /\ UNCHANGED <<number, counter, seed, call, conn, browser, fetch, cuts>>

-----------------------------------------------------------------------------
(* The stream of the browser.                                                *)

Closed == [phase |-> "closed", after |-> 0, cursor |-> 0,
           page |-> {}, buffered |-> {}, delivered |-> {}]

\* What emit lets through: nothing twice, nothing up to the point of resumption.
Emitted(c, S) == {e \in S : e \notin c.delivered /\ number[e] > c.after}

Sending(c, S) ==
    [c EXCEPT !.delivered = @ \cup Emitted(c, S),
              !.cursor = Max({@} \cup {number[e] : e \in Emitted(c, S)})]

\* receive: the browser keeps the events and the id of the last message, which is the cursor of the stream.
Receiving(b, S, cursor) ==
    IF S = {} THEN b
    ELSE [b EXCEPT !.seen = @ \cup S,
                   !.lastId = cursor]

Send(c, S) ==
    /\ conn' = Sending(c, S)
    /\ browser' = Receiving(browser, Emitted(c, S), Sending(c, S).cursor)

\* Faulty variant: what is announced while the stream is catching up is dropped.
HearLive(e) ==
    IF conn.phase = "live" THEN Send(conn, {e}) ELSE UNCHANGED <<conn, browser>>

\* The listener of the stream: events are buffered while it is catching up.
Hear(e) ==
    CASE conn.phase = "live"   -> Send(conn, {e})
      [] conn.phase = "closed" -> UNCHANGED <<conn, browser>>
      [] OTHER -> conn' = [conn EXCEPT !.buffered = @ \cup {e}] /\ UNCHANGED browser

\* The insert has returned: the event is emitted to the counter, to the streams
\* and, for a request, to the agent.
Announce(e) ==
    /\ stage[e] = "committed"
    /\ stage' = [stage EXCEPT ![e] = "announced"]
    /\ counter' = Max({counter, number[e]})
    /\ Hear(e)
    /\ UNCHANGED <<number, seed, call, fetch, cuts>>

\* The EventSource connects: its header, once it has one, replaces its URL. The
\* stream listens before it queries.
OpenStream ==
    /\ conn.phase = "closed"
    /\ browser.opened # Unset
    /\ LET after == IF browser.lastId # 0 THEN browser.lastId ELSE browser.opened
       IN  conn' = [Closed EXCEPT !.phase = "paging", !.after = after, !.cursor = after]
    /\ UNCHANGED <<log, call, browser, fetch, cuts>>

QueryPage ==
    /\ conn.phase = "paging"
    /\ conn' = [conn EXCEPT !.phase = "fetched",
                            !.page = Lowest({e \in Rows : number[e] > conn.cursor}, PageLimit)]
    /\ UNCHANGED <<log, call, browser, fetch, cuts>>

\* A full page is followed by the next one; a short one by the buffered events.
DeliverPage ==
    /\ conn.phase = "fetched"
    /\ LET rest == [conn EXCEPT !.page = {}]
       IN  IF Cardinality(conn.page) < PageLimit
           THEN Send([rest EXCEPT !.phase = "live", !.buffered = {}],
                     conn.page \cup conn.buffered)
           ELSE Send([rest EXCEPT !.phase = "paging"], conn.page)
    /\ UNCHANGED <<log, call, fetch, cuts>>

\* 240 seconds have passed, or the connection was lost.
DropStream ==
    /\ conn.phase # "closed"
    /\ cuts < MaximumCuts
    /\ cuts' = cuts + 1
    /\ conn' = Closed
    /\ UNCHANGED <<log, call, browser, fetch>>

-----------------------------------------------------------------------------
(* The overview.                                                             *)

NoFetch == [step |-> "idle", revision |-> Unset, call |-> "none", recent |-> {}]

\* refreshOverview and the beginning of its handler, one reconciliation at a time:
\* the revision counts the rows before anything else is read, and a reconciliation
\* whose revision has not moved is answered with that alone.
RequestOverview ==
    /\ fetch.step = "idle"
    /\ browser.revision # Cardinality(Rows)
    /\ fetch' = [NoFetch EXCEPT !.step = "sampled", !.revision = Cardinality(Rows)]
    /\ UNCHANGED <<log, call, conn, browser, cuts>>

\* Of the rows the overview holds those that list returns first.
Recent == Lowest(Rows, RecentLimit)

LoadSnapshot ==
    /\ fetch.step = "sampled"
    /\ fetch' = [fetch EXCEPT !.step = "loaded", !.call = call, !.recent = Recent]
    /\ UNCHANGED <<log, call, conn, browser, cuts>>

\* Faulty variant: the snapshot is kept under the revision that is current when it arrives.
AppliesCurrentRevision ==
    /\ fetch.step = "loaded"
    /\ browser' = [browser EXCEPT
         !.revision = Cardinality(Rows), !.call = fetch.call,
         !.seen = @ \cup fetch.recent,
         !.opened = IF @ = Unset THEN Highest(fetch.recent) ELSE @]
    /\ fetch' = NoFetch
    /\ UNCHANGED <<log, call, conn, cuts>>

\* applyOverview: the rows it holds are merged into the ones the browser knows,
\* and the first overview opens the stream at the highest sequence it holds.
ApplyOverview ==
    /\ fetch.step = "loaded"
    /\ browser' = [browser EXCEPT
         !.revision = fetch.revision, !.call = fetch.call,
         !.seen = @ \cup fetch.recent,
         !.opened = IF @ = Unset THEN Highest(fetch.recent) ELSE @]
    /\ fetch' = NoFetch
    /\ UNCHANGED <<log, call, conn, cuts>>

-----------------------------------------------------------------------------
(* The call, as far as its card shows it.                                    *)

DialCall ==
    /\ call = "none"
    /\ call' = "live"
    /\ UNCHANGED <<log, conn, browser, fetch, cuts>>

EndCall ==
    /\ call = "live"
    /\ call' = "ended"
    /\ UNCHANGED <<log, conn, browser, fetch, cuts>>

StatusRank == [status \in {"none", "live", "ended"} |->
                 CASE status = "none" -> 0 [] status = "live" -> 2 [] OTHER -> 3]

\* The calls the browser knows of: the one in the overview, then the ones in the
\* payloads of the events. mergeCall keeps the later status whatever the order.
KnownStatuses ==
    {browser.call}
    \cup (IF Started \in browser.seen THEN {"live"} ELSE {})
    \cup (IF Completed \in browser.seen THEN {"ended"} ELSE {})

MergedStatus == CHOOSE status \in KnownStatuses :
                  \A other \in KnownStatuses : StatusRank[other] <= StatusRank[status]

\* activeCallView, of a call with a record.
Card ==
    CASE MergedStatus = "live"  -> "calling"
      [] MergedStatus = "ended" -> "ended"
      [] OTHER                  -> "none"

-----------------------------------------------------------------------------
\* The process ends: what it was recording is lost, what the database already
\* had is never announced, and requests and streams are cut.
Interrupted(e) ==
    CASE stage[e] \in {"seeding", "numbered", "read", "reserved"} -> "lost"
      [] stage[e] = "committed" -> "silent"
      [] stage[e] = "idle" /\ e \in {Started, Completed} /\ Caused(e) -> "lost"
      [] OTHER -> stage[e]

Restart ==
    /\ cuts < MaximumCuts
    /\ cuts' = cuts + 1
    /\ stage' = [e \in Events |-> Interrupted(e)]
    /\ counter' = Unset
    /\ seed' = Unset
    /\ conn' = Closed
    /\ fetch' = NoFetch
    /\ UNCHANGED <<number, call, browser>>

Init ==
    /\ stage = [e \in Events |-> "idle"]
    /\ number = [e \in Events |-> 0]
    /\ counter = Unset
    /\ seed = Unset
    /\ call = "none"
    /\ conn = Closed
    /\ browser = [seen |-> {}, lastId |-> 0, opened |-> Unset,
                  revision |-> Unset, call |-> "none"]
    /\ fetch = NoFetch
    /\ cuts = 0

Recording(e) == BeginRecord(e) \/ ResumeRecord(e) \/ Insert(e) \/ Announce(e)
Stream == OpenStream \/ QueryPage \/ DeliverPage
Overview == RequestOverview \/ LoadSnapshot \/ ApplyOverview

Next ==
    \/ \E e \in Events : Recording(e)
    \/ SeedArrives
    \/ BeginReceive \/ ReserveSequence \/ CommitReceive \/ RollBackReceive
    \/ Stream \/ DropStream
    \/ Overview
    \/ DialCall \/ EndCall
    \/ Restart

Spec == Init /\ [][Next]_vars

-----------------------------------------------------------------------------
TypeOK ==
    /\ stage \in [Events -> {"idle", "seeding", "numbered", "read", "reserved", "lost"} \cup Stored]
    /\ number \in [Events -> 0..MaximumNumber]
    /\ counter \in Unset..MaximumNumber
    /\ seed \in Unset..MaximumNumber
    /\ call \in {"none", "live", "ended"}
    /\ conn.phase \in {"closed", "paging", "fetched", "live"}
    /\ conn.page \subseteq Rows
    /\ conn.buffered \subseteq Rows
    /\ conn.delivered \subseteq Rows
    /\ browser.seen \subseteq Rows

\* No two events of a run have the same number, although a counter that is being
\* seeded, one that is raised by a transaction and one that is lost in a restart
\* all hand them out.
NumbersAreUnique ==
    \A d, e \in Events :
        /\ d # e
        /\ {stage[d], stage[e]} \subseteq Stored \cup {"numbered", "reserved"}
        => number[d] # number[e]

\* Once a stream is live it has sent every announced event past the point it was
\* resumed from: nothing falls between the subscription, the pages and the buffer
\* (the comment at activity-stream.controller.ts:74).
StreamIsComplete ==
    conn.phase = "live" =>
        \A e \in Events : stage[e] = "announced" /\ number[e] > conn.after => e \in conn.delivered

\* A browser that is told its overview is unchanged has every event of the
\* overview's window, and no call in it is live whose end is on the log (the
\* comment at overview.controller.ts:55).
UnchangedIsCurrent ==
    browser.revision = Cardinality(Rows) =>
        /\ Recent \subseteq browser.seen
        /\ Completed \in Rows => browser.call = "ended"

=============================================================================

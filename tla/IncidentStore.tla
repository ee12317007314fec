--------------------------- MODULE IncidentStore ---------------------------
(***************************************************************************)
(* The incident rows of the server and every handler of IncidentsService   *)
(* that changes them.                                                      *)
(*                                                                         *)
(* A handler awaits a read of the row, edits the copy in memory and awaits *)
(* updateEntity, which writes every column of that copy.  No version is    *)
(* compared and no row is locked, so any other handler may write between   *)
(* the two.  A handler is therefore two steps here: the action named after *)
(* the method reads the row and decides what will be written, and Save is  *)
(* the write.  Starting a run is the exception: it is one transaction      *)
(* under an advisory lock of the browser session.                          *)
(***************************************************************************)
EXTENDS IncidentState, FiniteSets

CONSTANTS
    Runs,               \* identifiers of the runs that may be started
    Handlers,           \* requests, timers and callbacks in flight at once
    SessionOf,          \* [Runs -> browser session], incidents.browserSessionId
    KindOf,             \* [Runs -> {"live", "replay"}], incidents.runKind
    ReportedCapacity,   \* capacity of the backup resource in the scenario
    Units,              \* capacity units a recovery action may ask for
    LimitedCapacities,  \* capacities a capacity-limited event may report
    Events,             \* identifiers of the harness events
    MaximumClaims,      \* bound of this model on the units granted to one run
    Repairable,         \* bound of this model: the runs whose services are recovered
    NoRun

ASSUME StoreAssumption ==
    /\ NoRun \notin Runs
    /\ KindOf \in [Runs -> {"live", "replay"}]
    /\ ReportedCapacity \in Nat
    /\ Units \subseteq Nat
    /\ LimitedCapacities \subseteq Nat
    /\ MaximumClaims \in Nat
    /\ Repairable \subseteq Runs

VARIABLES
    row,        \* row[r]: the committed row of run r
    started,    \* the runs that have a row
    pending,    \* pending[h]: the row handler h read, edited, and is to write
    starting,   \* starting[h]: the open insertRun transaction of handler h
    conflicts,  \* runs whose insertRun failed on the unique index (history)
    claims,     \* claims[r]: units granted to recovery actions not yet failed (history)
    acked       \* acked[r]: harness events whose handler answered (history)

vars == <<row, started, pending, starting, conflicts, claims, acked>>

-----------------------------------------------------------------------------
Row == [active    : BOOLEAN,
        status    : IncidentStatus,
        services  : [Services -> ServiceState],
        total     : Nat,
        allocated : Nat,
        events    : SUBSET Events]

Baseline == [active    |-> TRUE,
             status    |-> "normal",
             services  |-> BaselineServices,
             total     |-> ReportedCapacity,
             allocated |-> 0,
             events    |-> {}]

NotStarted == [Baseline EXCEPT !.active = FALSE]

\* What a handler still has to do once its row is written: the units it was
\* granted, the harness event it answers for.
Write == [run : Runs \cup {NoRun}, next : Row, units : Nat, events : SUBSET Events]

NoWrite == [run |-> NoRun, next |-> NotStarted, units |-> 0, events |-> {}]

Transaction == [run : Runs \cup {NoRun}, replaced : [Runs -> Row], stopped : SUBSET Runs]

NoTransaction == [run |-> NoRun, replaced |-> [r \in Runs |-> NotStarted], stopped |-> {}]

-----------------------------------------------------------------------------
(* Faulty variants of the definitions below: the mistakes the properties are     *)
(* there to catch.  Spec uses none of them.                                      *)

\* The replacement of every active run, whatever browser started it.
EverySession(r) == Runs

\* A database without the partial unique index.
WithoutIndex(r, next) == FALSE

\* insertRun without the advisory lock.
WithoutLock(r) == FALSE

\* A capacity report below what is already allocated.
AcceptsAnyCapacity(r, available) == TRUE

\* A harness event on a run that was reset.
AcceptsResetRun(r) == KindOf[r] # "replay"

-----------------------------------------------------------------------------
Idle(h) == pending[h].run = NoRun /\ starting[h].run = NoRun

SameSession(r) == {q \in Runs : SessionOf[q] = SessionOf[r]}

ActiveRuns(r) == {q \in SameSession(r) \cap started : row[q].active}

\* The partial unique index incidents_one_active_browser on the session of the
\* active rows: the write of an active row fails while another one is active.
ViolatesIndex(r, next) == next.active /\ ActiveRuns(r) \ {r} # {}

\* pg_advisory_xact_lock(hashtextextended(session)) is taken.
SessionLocked(r) ==
    \E g \in Handlers :
        starting[g].run # NoRun /\ SessionOf[starting[g].run] = SessionOf[r]

-----------------------------------------------------------------------------
\* insertRun: replaces the active runs of the browser session in one transaction.  A
\* start, a replay, a change of the language and a reset all come to it.

BeginStart(h, r) ==
    /\ Idle(h) /\ r \notin started
    /\ \A g \in Handlers : starting[g].run # r
    /\ ~SessionLocked(r)
    /\ starting' = [starting EXCEPT ![h] =
          [run      |-> r,
           stopped  |-> ActiveRuns(r),
           replaced |-> [q \in Runs |->
                           IF q \in ActiveRuns(r)
                           THEN [row[q] EXCEPT !.active = FALSE, !.status = "reset"]
                           ELSE NotStarted]]]
    /\ UNCHANGED <<row, started, pending, conflicts, claims, acked>>

CommitStart(h) ==
    LET tx == starting[h]
        r  == tx.run
    IN  /\ r # NoRun
        /\ starting' = [starting EXCEPT ![h] = NoTransaction]
        /\ IF ActiveRuns(r) \ tx.stopped = {}
           THEN /\ row' = [q \in Runs |-> IF q = r THEN Baseline
                                          ELSE IF q \in tx.stopped THEN tx.replaced[q]
                                          ELSE row[q]]
                /\ started' = started \cup {r}
                /\ UNCHANGED conflicts
           ELSE /\ conflicts' = conflicts \cup {r}
                /\ UNCHANGED <<row, started>>
        /\ UNCHANGED <<pending, claims, acked>>

-----------------------------------------------------------------------------
\* The first step of every other handler: it holds an edited copy of the row.

Edit(h, r, write) ==
    /\ Idle(h) /\ r \in started
    /\ pending' = [pending EXCEPT ![h] = write]
    /\ UNCHANGED <<row, started, starting, conflicts, acked>>

Granting(r, next, units) == [run |-> r, next |-> next, units |-> units, events |-> {}]

Answering(r, next, e) == [run |-> r, next |-> next, units |-> 0, events |-> {e}]

Rewrite(r, next) == Granting(r, next, 0)

\* allocateCapacity: insufficient capacity writes nothing.
AllocateCapacity(h, r, units) ==
    /\ units <= row[r].total - row[r].allocated
    /\ claims[r] + units <= MaximumClaims
    /\ Edit(h, r, Granting(r, [row[r] EXCEPT !.allocated = @ + units], units))
    /\ UNCHANGED claims

Released(allocated, units) == IF allocated > units THEN allocated - units ELSE 0

\* releaseCapacity, called when an action that was granted its units has failed.
ReleaseCapacity(h, r, units) ==
    /\ units <= claims[r]
    /\ Edit(h, r, Rewrite(r, [row[r] EXCEPT !.allocated = Released(@, units)]))
    /\ claims' = [claims EXCEPT ![r] = @ - units]

\* setServiceStatus, which checks nothing of the run either.
SetServiceStatus(h, r, s, health) ==
    LET services == PropagateDependencyHealth(UpdateServiceStatus(row[r].services, s, health))
    IN  /\ r \in Repairable
        /\ Edit(h, r, Rewrite(r, [row[r] EXCEPT !.services = services,
                                                !.status = DeriveIncidentStatus(@, services)]))
        /\ UNCHANGED claims

AcceptsEvents(r) == row[r].active /\ KindOf[r] # "replay"

\* applyHarnessEvent up to its write: the guard, the appended event and the
\* status derived from the row that mutateForEvent has edited.
ApplyHarnessEvent(h, r, e, mutated) ==
    /\ AcceptsEvents(r)
    /\ \A q \in Runs : e \notin acked[q] \cup row[q].events
    /\ \A g \in Handlers : e \notin pending[g].events
    /\ Edit(h, r, Answering(r, [mutated EXCEPT
                                  !.events = @ \cup {e},
                                  !.status = DeriveIncidentStatus(@, mutated.services)], e))
    /\ UNCHANGED claims

MeteoriteImpact(h, r, e) ==
    ApplyHarnessEvent(h, r, e,
        [row[r] EXCEPT !.services = ApplyImpact, !.status = "detected"])

AcceptsCapacity(r, available) == available >= row[r].allocated

CapacityLimited(h, r, e, available) ==
    /\ AcceptsCapacity(r, available)
    /\ ApplyHarnessEvent(h, r, e, [row[r] EXCEPT !.total = available])

ServiceHealthChanged(h, r, e, s, health) ==
    ApplyHarnessEvent(h, r, e,
        [row[r] EXCEPT !.services =
            PropagateDependencyHealth(UpdateServiceStatus(@, s, health))])

\* The facts column itself is not modelled.
FactReported(h, r, e) == ApplyHarnessEvent(h, r, e, row[r])

MarkResponding(h, r) ==
    /\ row[r].status = "detected"
    /\ Edit(h, r, Rewrite(r, [row[r] EXCEPT !.status = "responding"]))
    /\ UNCHANGED claims

\* The clock of a randomized run, setSimulationPaused and advanceSimulation: the
\* columns they edit are not modelled, the copy of all the others is.
AdvanceSimulation(h, r) ==
    /\ row[r].active /\ row[r].status \notin {"normal", "reset"}
    /\ Edit(h, r, Rewrite(r, row[r]))
    /\ UNCHANGED claims

\* recordFact, confirmResourceCapacity, setBackupRegion, incrementAgentCycles and
\* sampleRecoveryScript edit columns that are not modelled either, and check
\* nothing about the run: they also rewrite one that has been reset.
RewriteRow(h, r) ==
    /\ Edit(h, r, Rewrite(r, row[r]))
    /\ UNCHANGED claims

\* updateEntity: the whole row, or an exception when the index refuses it.
Save(h) ==
    LET w == pending[h]
        r == w.run
    IN  /\ r # NoRun
        /\ pending' = [pending EXCEPT ![h] = NoWrite]
        /\ IF ViolatesIndex(r, w.next)
           THEN UNCHANGED <<row, claims, acked>>
           ELSE /\ row' = [row EXCEPT ![r] = w.next]
                /\ claims' = [claims EXCEPT ![r] = @ + w.units]
                /\ acked' = [acked EXCEPT ![r] = @ \cup w.events]
        /\ UNCHANGED <<started, starting, conflicts>>

-----------------------------------------------------------------------------
Init ==
    /\ row = [r \in Runs |-> NotStarted]
    /\ started = {}
    /\ pending = [h \in Handlers |-> NoWrite]
    /\ starting = [h \in Handlers |-> NoTransaction]
    /\ conflicts = {}
    /\ claims = [r \in Runs |-> 0]
    /\ acked = [r \in Runs |-> {}]

HarnessEvent(h, r) ==
    \E e \in Events :
        \/ MeteoriteImpact(h, r, e)
        \/ \E c \in LimitedCapacities : CapacityLimited(h, r, e, c)
        \/ \E s \in Services, health \in Health : ServiceHealthChanged(h, r, e, s, health)
        \/ FactReported(h, r, e)

AgentWrite(h, r) ==
    \/ \E u \in Units : AllocateCapacity(h, r, u)
    \/ \E u \in Units : ReleaseCapacity(h, r, u)
    \/ \E s \in Services, health \in Health : SetServiceStatus(h, r, s, health)
    \/ MarkResponding(h, r)
    \/ AdvanceSimulation(h, r)
    \/ RewriteRow(h, r)

Next ==
    \E h \in Handlers :
        \/ \E r \in Runs : BeginStart(h, r) \/ HarnessEvent(h, r) \/ AgentWrite(h, r)
        \/ CommitStart(h)
        \/ Save(h)

Spec == Init /\ [][Next]_vars

-----------------------------------------------------------------------------
(* Properties *)

\* Every committed row, and every copy a handler is about to write, has the
\* columns of IncidentEntity with values of their types.
TypeOK ==
    /\ row \in [Runs -> Row]
    /\ started \subseteq Runs
    /\ pending \in [Handlers -> Write]
    /\ starting \in [Handlers -> Transaction]
    /\ conflicts \subseteq Runs
    /\ claims \in [Runs -> Nat]
    /\ acked \in [Runs -> SUBSET Events]

\* A browser session that has started a run always has exactly one active run,
\* whatever handlers of its earlier runs are still in flight (insertRun and the
\* index incidents_one_active_browser).
OneActiveRun ==
    \A r \in started : \E q \in ActiveRuns(r) : ActiveRuns(r) = {q}

\* Two tabs that start a run at the same time both get one: insertRun never
\* fails on the unique index, because the advisory lock serialises the
\* replacement ("Serialize replacement even when two tabs start together").
StartNeverConflicts == conflicts = {}

\* A run that was replaced or reset never becomes active again, although a
\* handler that read it while it was active still writes active = TRUE.
NeverReactivated ==
    [][\A r \in started : ~row[r].active => ~row'[r].active]_vars

\* A run stops being active only in the transaction that starts the next run of
\* the same browser session: no other session and no stale write can end it.
OnlyReplacedByItsSession ==
    [][\A r \in started : row[r].active /\ ~row'[r].active
          => \E q \in started' \ started : SessionOf[q] = SessionOf[r]]_vars

\* Status reset and active = false go together in every committed row: no late
\* event, recovery result or status derivation moves a reset run to a live
\* status, and no live run is shown as reset.
ResetMeansInactive ==
    \A r \in started : row[r].status = "reset" <=> ~row[r].active

\* The units allocated in a row never exceed the capacity in that row, even when
\* a capacity-limited event and an allocation decide on the same old row.
CapacityWithinTotal ==
    \A r \in started : row[r].allocated <= row[r].total

\* An impacted run is recovered exactly when all its services are healthy: a
\* service that breaks again moves the incident out of recovered, and the last
\* repair moves it in (the premise of executeCycle's recovered skip).
RecoveredMeansHealthy ==
    \A r \in started : row[r].status \notin {"normal", "reset"} =>
        (row[r].status = "recovered" <=> Unhealthy(row[r].services) = {})

\* Claimed by the documentation: the units granted to recovery actions that have
\* not failed stay within the capacity of the resource.
GrantedWithinCapacity ==
    \A r \in started : row[r].active => claims[r] <= row[r].total

\* Claimed by the documentation: a harness event that was answered is part of
\* the incident from then on.
AnsweredEventsAreKept ==
    \A r \in started : acked[r] \subseteq row[r].events
=============================================================================

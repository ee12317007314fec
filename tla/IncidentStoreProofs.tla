------------------------ MODULE IncidentStoreProofs ------------------------
(***************************************************************************)
(* Proofs about IncidentStore, for any number of runs, browser sessions,   *)
(* concurrent handlers, services and events, and about OutsideReports,     *)
(* for any number of confirmations and crashes.                            *)
(*                                                                         *)
(* None of the store's safety properties is inductive as it stands: what a *)
(* stale write may do to a row is decided by what its handler read         *)
(* earlier, and what a transaction commits by the rows it saw when it      *)
(* began.  Inv adds those two facts.  The heart of the argument is         *)
(* SaveKeepsActive: a save never changes which runs are active.            *)
(*                                                                         *)
(* The steps of OutsideReports preserve the same invariant: a crash may    *)
(* come at any time, and reports are applied beside the handlers.  For the *)
(* report itself the question is who still holds a copy of the row from    *)
(* before or after it was applied: while a confirmation is about to apply  *)
(* it, and whenever none is under way and the call is pending, every copy  *)
(* agrees with the row on whether the report is part of it.                *)
(***************************************************************************)
EXTENDS OutsideReports, TLAPS

-----------------------------------------------------------------------------
(* The inductive invariant *)

\* A row no handler may spoil: reset and inactive together, within capacity.
SoundRow(next) ==
    /\ next.status = "reset" <=> ~next.active
    /\ next.allocated <= next.total

\* What is true of a handler between its read and its write: the run exists,
\* and a copy read while the run was inactive is of a run that still is.
SoundWrite(w) ==
    w.run # NoRun =>
        /\ w.run \in started
        /\ ~w.next.active => ~row[w.run].active
        /\ SoundRow(w.next)

\* What is true of an open insertRun transaction: its run has no row yet, and
\* the rows it is to deactivate are still the active ones of the session.
SoundStart(tx) ==
    tx.run # NoRun =>
        /\ tx.run \notin started
        /\ tx.stopped = ActiveRuns(tx.run)
        /\ \A q \in tx.stopped : ~tx.replaced[q].active /\ SoundRow(tx.replaced[q])

\* The advisory lock: one open transaction per browser session.
OneStartPerSession ==
    \A g, h \in Handlers :
        /\ starting[g].run # NoRun /\ starting[h].run # NoRun
        /\ SessionOf[starting[g].run] = SessionOf[starting[h].run]
        => g = h

Inv ==
    /\ TypeOK
    /\ OneActiveRun
    /\ StartNeverConflicts
    /\ \A r \in started : SoundRow(row[r])
    /\ \A h \in Handlers : SoundWrite(pending[h])
    /\ \A h \in Handlers : SoundStart(starting[h])
    /\ OneStartPerSession

-----------------------------------------------------------------------------
(* The helpers of IncidentState *)

\* deriveIncidentStatus stays within the statuses of an incident, and neither
\* enters nor leaves reset.
LEMMA DeriveKeepsReset ==
    ASSUME NEW current \in IncidentStatus, NEW services
    PROVE  /\ DeriveIncidentStatus(current, services) \in IncidentStatus
           /\ DeriveIncidentStatus(current, services) = "reset" <=> current = "reset"
  BY DEF DeriveIncidentStatus, IncidentStatus

\* The edits of the services column produce services.
LEMMA ServicesType ==
    /\ BaselineServices \in [Services -> ServiceState]
    /\ ApplyImpact \in [Services -> ServiceState]
    /\ \A services \in [Services -> ServiceState] :
         /\ PropagateDependencyHealth(services) \in [Services -> ServiceState]
         /\ \A s \in Services, health \in Health :
              UpdateServiceStatus(services, s, health) \in [Services -> ServiceState]
  <1>1. \A health \in Health, changed \in BOOLEAN :
          [health |-> health, changedAfterImpact |-> changed] \in ServiceState
    BY DEF ServiceState
  <1>2. BaselineServices \in [Services -> ServiceState]
    BY <1>1 DEF BaselineServices, Health
  <1>3. ApplyImpact \in [Services -> ServiceState]
    BY <1>1, ServicesAssumption DEF ApplyImpact
  <1>4. ASSUME NEW services \in [Services -> ServiceState]
        PROVE  PropagateDependencyHealth(services) \in [Services -> ServiceState]
    BY <1>1 DEF PropagateDependencyHealth, Health
  <1>5. ASSUME NEW services \in [Services -> ServiceState],
               NEW s \in Services, NEW health \in Health
        PROVE  UpdateServiceStatus(services, s, health) \in [Services -> ServiceState]
    BY <1>1 DEF UpdateServiceStatus
  <1> QED
    BY <1>2, <1>3, <1>4, <1>5

-----------------------------------------------------------------------------
(* Rows *)

LEMMA RowType ==
    /\ Baseline \in Row
    /\ NotStarted \in Row
    /\ NoWrite \in Write
    /\ NoTransaction \in Transaction
    /\ NoWrite.run = NoRun
    /\ NoTransaction.run = NoRun
    /\ SoundRow(Baseline)
    /\ Baseline.active
  <1>1. Baseline \in Row /\ NotStarted \in Row
    BY ServicesType, StoreAssumption DEF Baseline, NotStarted, Row, IncidentStatus
  <1>2. NoWrite \in Write /\ NoTransaction \in Transaction
    BY <1>1 DEF NoWrite, Write, NoTransaction, Transaction
  <1> QED
    BY <1>1, <1>2, StoreAssumption
    DEF NoWrite, NoTransaction, SoundRow, Baseline

-----------------------------------------------------------------------------
(* The first step of a handler *)

\* What every handler has in hand after its first step: an edited copy of the
\* row that is sound and as active as the row was when it was read.
SoundEdit(h, r, w) ==
    /\ w \in Write
    /\ w.run = r
    /\ w.next.active = row[r].active
    /\ SoundRow(w.next)
    /\ Edit(h, r, w)
    /\ claims' \in [Runs -> Nat]

\* An edit that keeps the active column of a started run and writes a sound row.
LEMMA RewriteIsSound ==
    ASSUME TypeOK, NEW h \in Handlers, NEW r \in Runs,
           NEW next \in Row, next.active = row[r].active, SoundRow(next),
           Edit(h, r, Rewrite(r, next)), claims' \in [Runs -> Nat]
    PROVE  SoundEdit(h, r, Rewrite(r, next))
  BY DEF SoundEdit, Write, Rewrite, Granting

\* allocateCapacity and releaseCapacity keep the allocation within the capacity.
LEMMA CapacityEditsAreSound ==
    ASSUME Inv, NEW h \in Handlers, NEW r \in Runs, NEW u \in Units,
           AllocateCapacity(h, r, u) \/ ReleaseCapacity(h, r, u)
    PROVE  \E w : SoundEdit(h, r, w)
  <1> USE StoreAssumption DEF Inv, TypeOK
  <1> r \in started /\ row[r] \in Row /\ SoundRow(row[r]) /\ u \in Nat
    BY DEF AllocateCapacity, ReleaseCapacity, Edit
  <1>1. CASE AllocateCapacity(h, r, u)
    <2> DEFINE next == [row[r] EXCEPT !.allocated = @ + u]
    <2>1. row[r].allocated + u \in Nat
      BY DEF Row
    <2>2. next \in Row /\ next.active = row[r].active
      BY <2>1 DEF Row
    <2>3. SoundRow(next)
      BY <1>1 DEF AllocateCapacity, SoundRow, Row
    <2>4. Edit(h, r, Granting(r, next, u)) /\ claims' \in [Runs -> Nat]
      BY <1>1 DEF AllocateCapacity
    <2>5. Granting(r, next, u) \in Write
      BY <2>2 DEF Write, Granting
    <2> QED
      BY <2>2, <2>3, <2>4, <2>5 DEF SoundEdit, Granting
  <1>2. CASE ReleaseCapacity(h, r, u)
    <2> DEFINE next == [row[r] EXCEPT !.allocated = Released(@, u)]
    <2> row[r].allocated \in Nat /\ row[r].total \in Nat
      BY DEF Row
    <2> Released(row[r].allocated, u) \in Nat
      BY DEF Released
    <2> Released(row[r].allocated, u) <= row[r].allocated
      BY DEF Released
    <2>1. next \in Row /\ next.active = row[r].active
      BY DEF Row
    <2>2. SoundRow(next)
      BY DEF SoundRow, Row
    <2>3. Edit(h, r, Rewrite(r, next))
      BY <1>2 DEF ReleaseCapacity
    <2>4. claims' \in [Runs -> Nat]
      BY <1>2 DEF ReleaseCapacity
    <2> QED
      BY <2>1, <2>2, <2>3, <2>4, RewriteIsSound
  <1> QED
    BY <1>1, <1>2

\* The other writes of the agent and the simulation leave the allocation alone
\* and do not move a row into or out of reset.
LEMMA AgentEditsAreSound ==
    ASSUME Inv, NEW h \in Handlers, NEW r \in Runs, AgentWrite(h, r)
    PROVE  \E w : SoundEdit(h, r, w)
  <1> USE DEF Inv, TypeOK
  <1> r \in started /\ row[r] \in Row /\ SoundRow(row[r])
    BY DEF AgentWrite, AllocateCapacity, ReleaseCapacity, SetServiceStatus,
           MarkResponding, AdvanceSimulation, RewriteRow, Edit
  <1>1. ASSUME NEW u \in Units, AllocateCapacity(h, r, u) \/ ReleaseCapacity(h, r, u)
        PROVE  \E w : SoundEdit(h, r, w)
    BY <1>1, CapacityEditsAreSound
  <1>2. ASSUME NEW s \in Services, NEW health \in Health, SetServiceStatus(h, r, s, health)
        PROVE  \E w : SoundEdit(h, r, w)
    <2> DEFINE services == PropagateDependencyHealth(
                               UpdateServiceStatus(row[r].services, s, health))
               next == [row[r] EXCEPT !.services = services,
                                      !.status = DeriveIncidentStatus(@, services)]
    <2>1. services \in [Services -> ServiceState]
      BY ServicesType DEF Row
    <2>2. /\ DeriveIncidentStatus(row[r].status, services) \in IncidentStatus
          /\ DeriveIncidentStatus(row[r].status, services) = "reset"
               <=> row[r].status = "reset"
      BY DeriveKeepsReset DEF Row
    <2> HIDE DEF services
    <2>3. next \in Row /\ next.active = row[r].active /\ SoundRow(next)
      BY <2>1, <2>2 DEF Row, SoundRow
    <2>4. Edit(h, r, Rewrite(r, next)) /\ claims' \in [Runs -> Nat]
      BY <1>2 DEF SetServiceStatus, services
    <2> QED
      BY <2>3, <2>4, RewriteIsSound
  <1>3. CASE MarkResponding(h, r)
    <2> DEFINE next == [row[r] EXCEPT !.status = "responding"]
    <2>1. next \in Row /\ next.active = row[r].active /\ SoundRow(next)
      BY <1>3 DEF MarkResponding, Row, SoundRow, IncidentStatus
    <2>2. Edit(h, r, Rewrite(r, next)) /\ claims' \in [Runs -> Nat]
      BY <1>3 DEF MarkResponding
    <2> QED
      BY <2>1, <2>2, RewriteIsSound
  <1>4. CASE AdvanceSimulation(h, r) \/ RewriteRow(h, r)
    <2>1. Edit(h, r, Rewrite(r, row[r])) /\ claims' \in [Runs -> Nat]
      BY <1>4 DEF AdvanceSimulation, RewriteRow
    <2> QED
      BY <2>1, RewriteIsSound
  <1> QED
    BY <1>1, <1>2, <1>3, <1>4 DEF AgentWrite

\* applyHarnessEvent: whatever mutateForEvent made of an active row, the derived
\* status is not reset and the row stays active.
LEMMA AppliedEventIsSound ==
    ASSUME Inv, NEW h \in Handlers, NEW r \in Runs, NEW e \in Events,
           NEW mutated \in Row,
           mutated.active = row[r].active, mutated.status # "reset",
           mutated.allocated <= mutated.total,
           ApplyHarnessEvent(h, r, e, mutated)
    PROVE  \E w : SoundEdit(h, r, w)
  <1> DEFINE next == [mutated EXCEPT
                        !.events = @ \cup {e},
                        !.status = DeriveIncidentStatus(@, mutated.services)]
  <1>1. /\ DeriveIncidentStatus(mutated.status, mutated.services) \in IncidentStatus
        /\ DeriveIncidentStatus(mutated.status, mutated.services) # "reset"
    BY DeriveKeepsReset DEF Row
  <1>2. next \in Row /\ next.active = row[r].active /\ SoundRow(next)
    BY <1>1 DEF Row, SoundRow, ApplyHarnessEvent, AcceptsEvents
  <1>3. Edit(h, r, Answering(r, next, e)) /\ claims' \in [Runs -> Nat]
    BY DEF ApplyHarnessEvent, Inv, TypeOK
  <1>4. Answering(r, next, e) \in Write
    BY <1>2 DEF Answering, Write
  <1> QED
    BY <1>2, <1>3, <1>4 DEF SoundEdit, Answering

LEMMA HarnessEventsAreSound ==
    ASSUME Inv, NEW h \in Handlers, NEW r \in Runs, HarnessEvent(h, r)
    PROVE  \E w : SoundEdit(h, r, w)
  <1> USE DEF Inv, TypeOK
  <1>1. r \in started /\ row[r] \in Row /\ SoundRow(row[r]) /\ row[r].active
    BY DEF HarnessEvent, MeteoriteImpact, CapacityLimited, ServiceHealthChanged,
           FactReported, ApplyHarnessEvent, AcceptsEvents, Edit
  <1>2. row[r].status # "reset" /\ row[r].allocated <= row[r].total
    BY <1>1 DEF SoundRow
  <1>3. ASSUME NEW e \in Events, MeteoriteImpact(h, r, e)
        PROVE  \E w : SoundEdit(h, r, w)
    <2> DEFINE mutated == [row[r] EXCEPT !.services = ApplyImpact, !.status = "detected"]
    <2>1. /\ mutated \in Row /\ mutated.active = row[r].active
          /\ mutated.status # "reset" /\ mutated.allocated <= mutated.total
      BY <1>1, <1>2, ServicesType DEF Row, IncidentStatus
    <2>2. ApplyHarnessEvent(h, r, e, mutated)
      BY <1>3 DEF MeteoriteImpact
    <2> QED
      BY <2>1, <2>2, AppliedEventIsSound
  <1>4. ASSUME NEW e \in Events, NEW c \in LimitedCapacities, CapacityLimited(h, r, e, c)
        PROVE  \E w : SoundEdit(h, r, w)
    <2> DEFINE mutated == [row[r] EXCEPT !.total = c]
    <2>1. /\ mutated \in Row /\ mutated.active = row[r].active
          /\ mutated.status # "reset"
      BY <1>1, <1>2, StoreAssumption DEF Row
    <2>2. mutated.allocated <= mutated.total
      BY <1>1, <1>4 DEF CapacityLimited, AcceptsCapacity, Row
    <2>3. ApplyHarnessEvent(h, r, e, mutated)
      BY <1>4 DEF CapacityLimited
    <2> QED
      BY <2>1, <2>2, <2>3, AppliedEventIsSound
  <1>5. ASSUME NEW e \in Events, NEW s \in Services, NEW health \in Health,
               ServiceHealthChanged(h, r, e, s, health)
        PROVE  \E w : SoundEdit(h, r, w)
    <2> DEFINE services == PropagateDependencyHealth(
                               UpdateServiceStatus(row[r].services, s, health))
               mutated == [row[r] EXCEPT !.services = services]
    <2>1. services \in [Services -> ServiceState]
      BY <1>1, ServicesType DEF Row
    <2>2. ApplyHarnessEvent(h, r, e, mutated)
      BY <1>5 DEF ServiceHealthChanged
    <2> HIDE DEF services
    <2>3. /\ mutated \in Row /\ mutated.active = row[r].active
          /\ mutated.status # "reset" /\ mutated.allocated <= mutated.total
      BY <1>1, <1>2, <2>1 DEF Row
    <2> QED
      BY <2>2, <2>3, AppliedEventIsSound
  <1>6. ASSUME NEW e \in Events, FactReported(h, r, e)
        PROVE  \E w : SoundEdit(h, r, w)
    <2>1. ApplyHarnessEvent(h, r, e, row[r])
      BY <1>6 DEF FactReported
    <2> QED
      BY <1>1, <1>2, <2>1, AppliedEventIsSound
  <1> QED
    BY <1>3, <1>4, <1>5, <1>6 DEF HarnessEvent

-----------------------------------------------------------------------------
(* The steps preserve Inv *)

\* What SoundWrite and SoundStart say depends only on the runs and the active
\* column: they hold after a step that changes neither.
LEMMA SameActiveRuns ==
    ASSUME started' = started, \A q \in started : row'[q].active = row[q].active
    PROVE  \A r : ActiveRuns(r)' = ActiveRuns(r)
  BY DEF ActiveRuns, SameSession

LEMMA EditPreserves ==
    ASSUME Inv, NEW h \in Handlers, NEW r \in Runs, NEW w, SoundEdit(h, r, w)
    PROVE  Inv'
  <1> USE DEF Inv
  <1>1. /\ pending' = [pending EXCEPT ![h] = w]
        /\ r \in started
        /\ UNCHANGED <<row, started, starting, conflicts, acked>>
    BY DEF SoundEdit, Edit
  <1>2. \A q : ActiveRuns(q)' = ActiveRuns(q)
    BY <1>1, SameActiveRuns
  <1>3. TypeOK'
    BY <1>1 DEF SoundEdit, TypeOK
  <1>4. OneActiveRun' /\ StartNeverConflicts' /\ OneStartPerSession'
    BY <1>1, <1>2 DEF OneActiveRun, StartNeverConflicts, OneStartPerSession
  <1>5. (\A q \in started : SoundRow(row[q]))'
    BY <1>1 DEF SoundRow
  <1>6. (\A g \in Handlers : SoundWrite(pending[g]))'
    <2> SUFFICES ASSUME NEW g \in Handlers PROVE SoundWrite(pending[g])'
      OBVIOUS
    <2>1. CASE g = h
      <3>1. pending'[g] = w
        BY <1>1, <2>1 DEF TypeOK
      <3> QED
        BY <1>1, <3>1 DEF SoundEdit, SoundWrite, SoundRow
    <2>2. CASE g # h
      <3>1. pending'[g] = pending[g] /\ SoundWrite(pending[g])
        BY <1>1, <2>2 DEF TypeOK
      <3> QED
        BY <1>1, <3>1 DEF SoundWrite, SoundRow
    <2> QED
      BY <2>1, <2>2
  <1>7. (\A g \in Handlers : SoundStart(starting[g]))'
    BY <1>1, <1>2 DEF SoundStart, SoundRow
  <1> QED
    BY <1>3, <1>4, <1>5, <1>6, <1>7

\* insertRun begins: the rows it is going to write are sound because only the
\* active and status columns of existing rows change.
LEMMA BeginPreserves ==
    ASSUME Inv, NEW h \in Handlers, NEW r \in Runs, BeginStart(h, r)
    PROVE  Inv'
  <1> DEFINE replaced == [q \in Runs |->
                            IF q \in ActiveRuns(r)
                            THEN [row[q] EXCEPT !.active = FALSE, !.status = "reset"]
                            ELSE NotStarted]
             tx == [run |-> r, stopped |-> ActiveRuns(r), replaced |-> replaced]
  <1> USE DEF Inv
  <1>1. /\ starting' = [starting EXCEPT ![h] = tx]
        /\ UNCHANGED <<row, started, pending, conflicts, claims, acked>>
    BY DEF BeginStart
  <1>2. \A q : ActiveRuns(q)' = ActiveRuns(q)
    BY <1>1, SameActiveRuns
  <1>3. \A q \in ActiveRuns(r) : q \in started /\ q \in Runs
    BY DEF ActiveRuns, SameSession
  <1>4. \A q \in ActiveRuns(r) :
          LET reset == [row[q] EXCEPT !.active = FALSE, !.status = "reset"]
          IN  reset \in Row /\ ~reset.active /\ SoundRow(reset)
    <2> SUFFICES ASSUME NEW q \in ActiveRuns(r)
                 PROVE  LET reset == [row[q] EXCEPT !.active = FALSE, !.status = "reset"]
                        IN  reset \in Row /\ ~reset.active /\ SoundRow(reset)
      OBVIOUS
    <2>1. row[q] \in Row /\ SoundRow(row[q])
      BY <1>3 DEF TypeOK
    <2> QED
      BY <2>1 DEF Row, IncidentStatus, SoundRow
  <1>5. tx \in Transaction
    <2>1. replaced \in [Runs -> Row]
      BY <1>4, RowType
    <2>2. ActiveRuns(r) \in SUBSET Runs
      BY <1>3
    <2> QED
      BY <2>1, <2>2 DEF Transaction
  <1>6. TypeOK'
    BY <1>1, <1>5 DEF TypeOK
  <1>7. OneActiveRun' /\ StartNeverConflicts'
    BY <1>1, <1>2 DEF OneActiveRun, StartNeverConflicts
  <1>8. (\A q \in started : SoundRow(row[q]))'
    BY <1>1 DEF SoundRow
  <1>9. (\A g \in Handlers : SoundWrite(pending[g]))'
    BY <1>1 DEF SoundWrite, SoundRow
  <1>10. (\A g \in Handlers : SoundStart(starting[g]))'
    <2> SUFFICES ASSUME NEW g \in Handlers PROVE SoundStart(starting[g])'
      OBVIOUS
    <2>1. CASE g = h
      <3>1. starting'[g] = tx
        BY <1>1, <2>1 DEF TypeOK
      <3>2. r \notin started
        BY DEF BeginStart
      <3>3. \A q \in ActiveRuns(r) : ~replaced[q].active /\ SoundRow(replaced[q])
        BY <1>3, <1>4
      <3>4. tx.run = r /\ tx.stopped = ActiveRuns(r) /\ tx.replaced = replaced
        OBVIOUS
      <3> HIDE DEF tx, replaced
      <3>5. \A q \in ActiveRuns(r) :
              ~starting'[g].replaced[q].active /\ SoundRow(starting'[g].replaced[q])
        BY <3>1, <3>3, <3>4
      <3>6. starting'[g].run = r /\ starting'[g].stopped = ActiveRuns(r)
        BY <3>1, <3>4
      <3>7. UNCHANGED <<row, started>>
        BY <1>1
      <3> QED
        BY <3>2, <3>5, <3>6, <3>7
        DEF SoundStart, SoundRow, ActiveRuns, SameSession
    <2>2. CASE g # h
      <3>1. starting'[g] = starting[g] /\ SoundStart(starting[g])
        BY <1>1, <2>2 DEF TypeOK
      <3> HIDE DEF tx
      <3> QED
        BY <1>1, <3>1 DEF SoundStart, SoundRow, ActiveRuns, SameSession
    <2> QED
      BY <2>1, <2>2
  <1>11. OneStartPerSession'
    <2> HIDE DEF replaced
    <2>1. \A g \in Handlers : starting'[g] = IF g = h THEN tx ELSE starting[g]
      BY <1>1 DEF TypeOK
    <2>2. \A g \in Handlers : starting[g].run # NoRun
              => SessionOf[starting[g].run] # SessionOf[r]
      BY DEF BeginStart, SessionLocked
    <2> QED
      BY <2>1, <2>2 DEF OneStartPerSession
  <1> QED
    BY <1>6, <1>7, <1>8, <1>9, <1>10, <1>11

\* insertRun commits: the lock kept the active runs of the session as the
\* transaction saw them, so the index accepts the new run and it is the only one.
LEMMA CommitIsAccepted ==
    ASSUME Inv, NEW h \in Handlers, CommitStart(h)
    PROVE  LET tx == starting[h]
           IN  /\ tx.run \in Runs /\ tx.run \notin started
               /\ tx.stopped = ActiveRuns(tx.run)
               /\ row' = [q \in Runs |-> IF q = tx.run THEN Baseline
                                         ELSE IF q \in tx.stopped THEN tx.replaced[q]
                                         ELSE row[q]]
               /\ started' = started \cup {tx.run}
               /\ UNCHANGED conflicts
  <1>1. starting[h] \in Transaction /\ starting[h].run # NoRun
    BY DEF CommitStart, Inv, TypeOK
  <1>2. starting[h].run \in Runs
    BY <1>1 DEF Transaction
  <1>3. starting[h].run \notin started /\ starting[h].stopped = ActiveRuns(starting[h].run)
    BY <1>1 DEF Inv, SoundStart
  <1>4. ActiveRuns(starting[h].run) \ starting[h].stopped = {}
    BY <1>3
  <1> QED
    BY <1>2, <1>3, <1>4 DEF CommitStart

LEMMA CommitPreserves ==
    ASSUME Inv, NEW h \in Handlers, CommitStart(h)
    PROVE  Inv'
  <1> DEFINE tx == starting[h]
             r == tx.run
  <1> USE DEF Inv
  <1>1. /\ r \in Runs /\ r \notin started /\ r # NoRun
        /\ tx.stopped = ActiveRuns(r)
        /\ \A q \in ActiveRuns(r) : ~tx.replaced[q].active /\ SoundRow(tx.replaced[q])
    BY CommitIsAccepted DEF CommitStart, SoundStart
  <1>2. /\ started' = started \cup {r}
        /\ UNCHANGED <<conflicts, pending, claims, acked>>
        /\ starting' = [starting EXCEPT ![h] = NoTransaction]
    BY CommitIsAccepted DEF CommitStart
  <1>3. /\ row' = [q \in Runs |-> IF q = r THEN Baseline
                                  ELSE IF q \in ActiveRuns(r) THEN tx.replaced[q]
                                  ELSE row[q]]
    BY <1>1, CommitIsAccepted
  <1>4. /\ started \subseteq Runs /\ tx \in Transaction /\ row \in [Runs -> Row]
        /\ \A q \in ActiveRuns(r) : q \in started /\ SessionOf[q] = SessionOf[r]
    BY DEF TypeOK, ActiveRuns, SameSession
  <1>5. /\ row'[r] = Baseline
        /\ \A q \in ActiveRuns(r) : ~row'[q].active /\ SoundRow(row'[q])
        /\ \A q \in started \ ActiveRuns(r) : row'[q] = row[q]
    <2>1. \A q \in ActiveRuns(r) : q \in Runs /\ q # r
      BY <1>1, <1>4
    <2>2. \A q \in ActiveRuns(r) : row'[q] = tx.replaced[q]
      BY <1>3, <2>1
    <2>3. \A q \in started \ ActiveRuns(r) : row'[q] = row[q]
      BY <1>1, <1>3, <1>4
    <2> QED
      BY <1>1, <1>3, <2>2, <2>3
  <1> HIDE DEF tx, r
  <1>6. TypeOK'
    <2>1. row' \in [Runs -> Row]
      BY <1>3, <1>4, RowType DEF Transaction
    <2>2. starting' \in [Handlers -> Transaction]
      BY <1>2, RowType DEF TypeOK
    <2> QED
      BY <1>1, <1>2, <1>4, <2>1, <2>2 DEF TypeOK
  <1>7. \A q \in Runs : ActiveRuns(q)' =
            IF SessionOf[q] = SessionOf[r] THEN {r} ELSE ActiveRuns(q)
    <2> SUFFICES ASSUME NEW q \in Runs
                 PROVE  ActiveRuns(q)' =
                          IF SessionOf[q] = SessionOf[r] THEN {r} ELSE ActiveRuns(q)
      OBVIOUS
    <2>2. \A p \in started : SessionOf[p] = SessionOf[r] /\ row[p].active
              => p \in ActiveRuns(r)
      BY <1>4 DEF ActiveRuns, SameSession
    <2>3. ActiveRuns(q)' = {p \in Runs : /\ SessionOf[p] = SessionOf[q]
                                         /\ p \in started' /\ row'[p].active}
      BY DEF ActiveRuns, SameSession
    <2>4. CASE SessionOf[q] = SessionOf[r]
      <3>1. \A p \in started : SessionOf[p] = SessionOf[r] => ~row'[p].active
        BY <1>5, <2>2
      <3>2. row'[r].active
        BY <1>5, RowType
      <3> QED
        BY <1>1, <1>2, <2>3, <2>4, <3>1, <3>2
    <2>5. CASE SessionOf[q] # SessionOf[r]
      <3>1. \A p \in started : SessionOf[p] = SessionOf[q] => row'[p] = row[p]
        BY <1>4, <1>5, <2>5
      <3>2. ActiveRuns(q) = {p \in Runs : /\ SessionOf[p] = SessionOf[q]
                                          /\ p \in started /\ row[p].active}
        BY DEF ActiveRuns, SameSession
      <3>3. \A p : SessionOf[p] = SessionOf[q] => (p \in started' <=> p \in started)
        BY <1>2, <2>5
      <3> QED
        BY <2>3, <2>5, <3>1, <3>2, <3>3
    <2> QED
      BY <2>4, <2>5
  <1>8. OneActiveRun'
    <2> SUFFICES ASSUME NEW q \in started'
                 PROVE  \E p \in ActiveRuns(q)' : ActiveRuns(q)' = {p}
      BY DEF OneActiveRun
    <2> q \in Runs
      BY <1>1, <1>2, <1>4
    <2>1. CASE SessionOf[q] = SessionOf[r]
      BY <1>7, <2>1
    <2>2. CASE SessionOf[q] # SessionOf[r]
      <3>1. q \in started
        BY <1>2, <2>2
      <3>2. \E p \in ActiveRuns(q) : ActiveRuns(q) = {p}
        BY <3>1 DEF OneActiveRun
      <3>3. ActiveRuns(q)' = ActiveRuns(q)
        BY <1>7, <2>2
      <3> QED
        BY <3>2, <3>3
    <2> QED
      BY <2>1, <2>2
  <1>9. StartNeverConflicts'
    BY <1>2 DEF StartNeverConflicts
  <1>10. (\A q \in started : SoundRow(row[q]))'
    <2>1. \A q \in started : SoundRow(row'[q])
      BY <1>5
    <2>2. SoundRow(row'[r])
      BY <1>5, RowType
    <2>3. \A q \in started' : SoundRow(row'[q])
      BY <1>2, <2>1, <2>2
    <2> QED
      BY <2>3 DEF SoundRow
  <1>11. (\A g \in Handlers : SoundWrite(pending[g]))'
    <2> SUFFICES ASSUME NEW g \in Handlers PROVE SoundWrite(pending[g])'
      OBVIOUS
    <2>1. pending'[g] = pending[g] /\ SoundWrite(pending[g])
      BY <1>2
    <2>2. \A q \in started : ~row[q].active => ~row'[q].active
      BY <1>5
    <2> QED
      BY <1>2, <2>1, <2>2 DEF SoundWrite, SoundRow
  <1>12. (\A g \in Handlers : SoundStart(starting[g]))'
    <2> SUFFICES ASSUME NEW g \in Handlers PROVE SoundStart(starting[g])'
      OBVIOUS
    <2>1. CASE starting'[g].run = NoRun
      BY <2>1 DEF SoundStart
    <2>2. CASE starting'[g].run # NoRun
      <3> DEFINE other == starting[g]
      <3>1. g # h /\ starting'[g] = other
        BY <1>2, <2>2, RowType DEF TypeOK
      <3>2. /\ other.run # NoRun /\ other.run \in Runs /\ other.run \notin started
            /\ other.stopped = ActiveRuns(other.run)
            /\ \A q \in other.stopped :
                  ~other.replaced[q].active /\ SoundRow(other.replaced[q])
        BY <2>2, <3>1 DEF SoundStart, TypeOK, Transaction
      <3>3. SessionOf[other.run] # SessionOf[r]
        BY <1>1, <3>1, <3>2 DEF OneStartPerSession, tx, r
      <3> HIDE DEF other
      <3>4. other.run \notin started'
        BY <1>2, <3>2, <3>3
      <3>5. other.stopped = {p \in Runs : /\ SessionOf[p] = SessionOf[other.run]
                                          /\ p \in started' /\ row'[p].active}
        <4>1. \A q \in Runs : ActiveRuns(q)' = {p \in Runs :
                  SessionOf[p] = SessionOf[q] /\ p \in started' /\ row'[p].active}
          BY DEF ActiveRuns, SameSession
        <4> QED
          BY <1>7, <3>2, <3>3, <4>1
      <3> QED
        BY <3>1, <3>2, <3>4, <3>5 DEF SoundStart, SoundRow, ActiveRuns, SameSession
    <2> QED
      BY <2>1, <2>2
  <1>13. OneStartPerSession'
    BY <1>2, RowType DEF OneStartPerSession, TypeOK
  <1> QED
    BY <1>6, <1>8, <1>9, <1>10, <1>11, <1>12, <1>13

\* updateEntity: a save writes a row as active as the one it replaces.  A copy
\* read while the run was active meets, once the run was replaced, an active run
\* of the same session, and the unique index refuses it; a copy read while the
\* run was inactive is of a run that no later save activated.
LEMMA SaveKeepsActive ==
    ASSUME Inv, NEW h \in Handlers, Save(h)
    PROVE  /\ pending[h].run \in started
           /\ \A q \in Runs : /\ row'[q].active = row[q].active
                              /\ row'[q] # row[q] => SoundRow(row'[q])
  <1> DEFINE w == pending[h]
             r == w.run
  <1>1. /\ w \in Write /\ r \in started /\ r \in Runs
        /\ ~w.next.active => ~row[r].active
        /\ SoundRow(w.next)
    BY DEF Save, Inv, TypeOK, SoundWrite
  <1>2. w.next \in Row /\ row[r] \in Row /\ row \in [Runs -> Row]
    BY <1>1 DEF Write, Inv, TypeOK
  <1>3. CASE ViolatesIndex(r, w.next)
    BY <1>1, <1>3 DEF Save
  <1>4. CASE ~ViolatesIndex(r, w.next)
    <2>1. row' = [row EXCEPT ![r] = w.next]
      BY <1>4 DEF Save
    <2>2. w.next.active => row[r].active
      <3> SUFFICES ASSUME w.next.active, ~row[r].active PROVE FALSE
        BY <1>2 DEF Row
      <3>1. PICK q \in ActiveRuns(r) : ActiveRuns(r) = {q}
        BY <1>1 DEF Inv, OneActiveRun
      <3>2. r \notin ActiveRuns(r)
        BY DEF ActiveRuns
      <3> QED
        BY <1>4, <3>1, <3>2 DEF ViolatesIndex
    <2>3. w.next.active = row[r].active
      BY <1>1, <1>2, <2>2 DEF Row
    <2> QED
      BY <1>1, <1>2, <2>1, <2>3
  <1> QED
    BY <1>3, <1>4

LEMMA SavePreserves ==
    ASSUME Inv, NEW h \in Handlers, Save(h)
    PROVE  Inv'
  <1> USE DEF Inv
  <1>1. /\ pending' = [pending EXCEPT ![h] = NoWrite]
        /\ UNCHANGED <<started, starting, conflicts>>
        /\ started \subseteq Runs
    BY DEF Save, TypeOK
  <1>2. \A q \in Runs : /\ row'[q].active = row[q].active
                        /\ row'[q] # row[q] => SoundRow(row'[q])
    BY SaveKeepsActive
  <1>3. \A q : ActiveRuns(q)' = ActiveRuns(q)
    BY <1>1, <1>2, SameActiveRuns
  <1>4. TypeOK'
    <2>1. pending[h].run \in Runs /\ pending[h] \in Write
      BY <1>1, SaveKeepsActive DEF TypeOK
    <2>2. row' \in [Runs -> Row] /\ claims' \in [Runs -> Nat] /\ acked' \in [Runs -> SUBSET Events]
      BY <2>1 DEF Save, TypeOK, Write
    <2>3. pending' \in [Handlers -> Write]
      BY <1>1, RowType DEF TypeOK
    <2> QED
      BY <1>1, <2>2, <2>3 DEF TypeOK
  <1>5. OneActiveRun' /\ StartNeverConflicts' /\ OneStartPerSession'
    BY <1>1, <1>3 DEF OneActiveRun, StartNeverConflicts, OneStartPerSession
  <1>6. (\A q \in started : SoundRow(row[q]))'
    <2>1. \A q \in started : SoundRow(row'[q])
      BY <1>1, <1>2
    <2> QED
      BY <1>1, <2>1 DEF SoundRow
  <1>7. (\A g \in Handlers : SoundWrite(pending[g]))'
    <2> SUFFICES ASSUME NEW g \in Handlers PROVE SoundWrite(pending[g])'
      OBVIOUS
    <2>1. CASE g = h
      BY <1>1, <2>1, RowType DEF TypeOK, SoundWrite
    <2>2. CASE g # h
      <3>1. pending'[g] = pending[g] /\ SoundWrite(pending[g])
        BY <1>1, <2>2 DEF TypeOK
      <3> QED
        BY <1>1, <1>2, <3>1 DEF SoundWrite, SoundRow
    <2> QED
      BY <2>1, <2>2
  <1>8. (\A g \in Handlers : SoundStart(starting[g]))'
    <2> SUFFICES ASSUME NEW g \in Handlers PROVE SoundStart(starting[g])'
      OBVIOUS
    <2>1. starting'[g] = starting[g] /\ SoundStart(starting[g])
      BY <1>1
    <2>2. \A q \in started : row'[q].active = row[q].active
      BY <1>1, <1>2
    <2> QED
      BY <1>1, <2>1, <2>2 DEF SoundStart, SoundRow, ActiveRuns, SameSession
  <1> QED
    BY <1>4, <1>5, <1>6, <1>7, <1>8

-----------------------------------------------------------------------------
(* The theorems *)

LEMMA InitEstablishes == Init => Inv
  <1> SUFFICES ASSUME Init PROVE Inv
    OBVIOUS
  <1>1. TypeOK
    BY RowType DEF Init, TypeOK
  <1>2. OneActiveRun /\ StartNeverConflicts /\ OneStartPerSession
    BY RowType DEF Init, OneActiveRun, StartNeverConflicts, OneStartPerSession
  <1>3. \A h \in Handlers : SoundWrite(pending[h]) /\ SoundStart(starting[h])
    BY RowType DEF Init, SoundWrite, SoundStart
  <1>4. \A r \in started : SoundRow(row[r])
    BY DEF Init
  <1> QED
    BY <1>1, <1>2, <1>3, <1>4 DEF Inv

LEMMA NextPreserves == Inv /\ [Next]_vars => Inv'
  <1> SUFFICES ASSUME Inv, [Next]_vars PROVE Inv'
    OBVIOUS
  <1>1. ASSUME NEW h \in Handlers, NEW r \in Runs, BeginStart(h, r)
        PROVE  Inv'
    BY <1>1, BeginPreserves
  <1>2. ASSUME NEW h \in Handlers, NEW r \in Runs, HarnessEvent(h, r)
        PROVE  Inv'
    BY <1>2, HarnessEventsAreSound, EditPreserves
  <1>3. ASSUME NEW h \in Handlers, NEW r \in Runs, AgentWrite(h, r)
        PROVE  Inv'
    BY <1>3, AgentEditsAreSound, EditPreserves
  <1>4. ASSUME NEW h \in Handlers, CommitStart(h)
        PROVE  Inv'
    BY <1>4, CommitPreserves
  <1>5. ASSUME NEW h \in Handlers, Save(h)
        PROVE  Inv'
    BY <1>5, SavePreserves
  <1>6. CASE UNCHANGED vars
    BY <1>6 DEF vars, Inv, TypeOK, OneActiveRun, StartNeverConflicts, SoundRow, SoundWrite,
                SoundStart, OneStartPerSession, ActiveRuns, SameSession
  <1> QED
    BY <1>1, <1>2, <1>3, <1>4, <1>5, <1>6 DEF Next

\* Inv holds in every reachable state of every instance.
THEOREM InvHolds == Spec => []Inv
  BY InitEstablishes, NextPreserves, PTL DEF Spec

\* TypeOK for every instance: no handler of IncidentsService, however stale the
\* copy it writes, leaves a column outside its type.
THEOREM TypeCorrect == Spec => []TypeOK
  <1>1. Inv => TypeOK
    BY DEF Inv
  <1> QED
    BY <1>1, InvHolds, PTL

\* OneActiveRun for every number of runs, sessions and handlers: insertRun and
\* the unique index keep exactly one active run per session that started one.
THEOREM OneActiveRunHolds == Spec => []OneActiveRun
  <1>1. Inv => OneActiveRun
    BY DEF Inv
  <1> QED
    BY <1>1, InvHolds, PTL

\* StartNeverConflicts for every instance: under the advisory lock insertRun
\* never meets the unique index.
THEOREM StartNeverConflictsHolds == Spec => []StartNeverConflicts
  <1>1. Inv => StartNeverConflicts
    BY DEF Inv
  <1> QED
    BY <1>1, InvHolds, PTL

\* ResetMeansInactive for every instance: reset and inactive stay one thing
\* through every stale write.
THEOREM ResetMeansInactiveHolds == Spec => []ResetMeansInactive
  <1>1. Inv => ResetMeansInactive
    BY DEF Inv, SoundRow, ResetMeansInactive
  <1> QED
    BY <1>1, InvHolds, PTL

\* CapacityWithinTotal for every instance: the pair allocated, total that
\* allocateCapacity, releaseCapacity and a capacity report write is consistent
\* however their reads and writes interleave.
THEOREM CapacityWithinTotalHolds == Spec => []CapacityWithinTotal
  <1>1. Inv => CapacityWithinTotal
    BY DEF Inv, SoundRow, CapacityWithinTotal
  <1> QED
    BY <1>1, InvHolds, PTL

\* The active column in a step: only a commit turns it off, and nothing on.
LEMMA ActiveColumn ==
    ASSUME Inv, [Next]_vars, NEW r \in started
    PROVE  /\ ~row[r].active => ~row'[r].active
           /\ row[r].active /\ ~row'[r].active
                => \E q \in started' \ started : SessionOf[q] = SessionOf[r]
  <1> r \in Runs
    BY DEF Inv, TypeOK
  <1>1. CASE row' = row
    BY <1>1
  <1>2. ASSUME NEW h \in Handlers, Save(h)
        PROVE  row'[r].active = row[r].active
    BY <1>2, SaveKeepsActive
  <1>3. ASSUME NEW h \in Handlers, CommitStart(h)
        PROVE  /\ ~row[r].active => ~row'[r].active
               /\ row[r].active /\ ~row'[r].active
                    => \E q \in started' \ started : SessionOf[q] = SessionOf[r]
    <2> DEFINE tx == starting[h]
    <2>1. /\ tx.run \in Runs /\ tx.run \notin started
          /\ tx.stopped = ActiveRuns(tx.run)
          /\ row' = [q \in Runs |-> IF q = tx.run THEN Baseline
                                    ELSE IF q \in tx.stopped THEN tx.replaced[q]
                                    ELSE row[q]]
          /\ started' = started \cup {tx.run}
      BY <1>3, CommitIsAccepted
    <2>2. CASE r \in ActiveRuns(tx.run)
      <3>1. row[r].active /\ SessionOf[r] = SessionOf[tx.run]
        BY <2>2 DEF ActiveRuns, SameSession
      <3> QED
        BY <2>1, <3>1
    <2>3. CASE r \notin ActiveRuns(tx.run)
      BY <2>1, <2>3
    <2> QED
      BY <2>2, <2>3
  <1>4. ASSUME NEW h \in Handlers, NEW q \in Runs,
               BeginStart(h, q) \/ HarnessEvent(h, q) \/ AgentWrite(h, q)
        PROVE  row' = row
    BY <1>4, HarnessEventsAreSound, AgentEditsAreSound DEF BeginStart, SoundEdit, Edit
  <1>5. CASE UNCHANGED vars
    BY <1>5 DEF vars
  <1> QED
    BY <1>1, <1>2, <1>3, <1>4, <1>5 DEF Next

\* NeverReactivated for every instance: no save and no transaction brings a run
\* back that was replaced or reset.
THEOREM NeverReactivatedHolds == Spec => NeverReactivated
  <1>1. Inv /\ [Next]_vars => [\A r \in started : ~row[r].active => ~row'[r].active]_vars
    BY ActiveColumn
  <1> QED
    BY <1>1, InvHolds, PTL DEF Spec, NeverReactivated

\* OnlyReplacedByItsSession for every instance: a run ends only when its own
\* browser session starts another.
THEOREM OnlyReplacedByItsSessionHolds == Spec => OnlyReplacedByItsSession
  <1>1. Inv /\ [Next]_vars =>
          [\A r \in started : row[r].active /\ ~row'[r].active
              => \E q \in started' \ started : SessionOf[q] = SessionOf[r]]_vars
    BY ActiveColumn
  <1> QED
    BY <1>1, InvHolds, PTL DEF Spec, OnlyReplacedByItsSession
-----------------------------------------------------------------------------
(* The status of an incident and the health of its services                  *)

\* The scenario: the impact leaves no service healthy, and there are several.
WholeOutage ==
    /\ \A s \in Services : ImpactHealth[s] # "healthy"
    /\ \A s \in Services : \E t \in Services : t # s

\* A service is healthy again only by a change after the impact: when one of them
\* breaks, the others still show that there was a recovery.
Coherent(next) ==
    next.status \notin {"normal", "reset"} =>
        /\ next.status = "recovered" <=> Unhealthy(next.services) = {}
        /\ \A s \in Services : next.services[s].health = "healthy" =>
                                 next.services[s].changedAfterImpact

Coherence ==
    /\ \A r \in Runs : Coherent(row[r])
    /\ \A h \in Handlers : Coherent(pending[h].next)
    /\ \A h \in Handlers : \A q \in Runs : Coherent(starting[h].replaced[q])

LEMMA DerivedIsCoherent ==
    ASSUME NEW current \in IncidentStatus, NEW services, NEW next,
           next.services = services, next.status = DeriveIncidentStatus(current, services),
           current \notin {"normal", "reset"} =>
             /\ \A s \in Services : services[s].health = "healthy" => services[s].changedAfterImpact
             /\ current = "recovered" /\ Unhealthy(services) # {} =>
                  RecoveredAfterImpact(services) # {}
    PROVE  Coherent(next)
  BY DEF Coherent, DeriveIncidentStatus, IncidentStatus

\* A row whose services stay as they are.
LEMMA SameServicesAreCoherent ==
    ASSUME NEW old \in Row, Coherent(old), NEW next, next.services = old.services,
           next.status = DeriveIncidentStatus(old.status, old.services)
    PROVE  Coherent(next)
  BY DerivedIsCoherent DEF Coherent, Row

\* One service is set, and those that depend on it follow.
LEMMA UpdateIsCoherent ==
    ASSUME WholeOutage, NEW old \in Row, Coherent(old), NEW s \in Services, NEW health \in Health,
           NEW next,
           next.services = PropagateDependencyHealth(UpdateServiceStatus(old.services, s, health)),
           next.status = DeriveIncidentStatus(old.status, next.services)
    PROVE  Coherent(next)
  <1> DEFINE updated == UpdateServiceStatus(old.services, s, health)
             services == PropagateDependencyHealth(updated)
  <1>1. old.services \in [Services -> ServiceState] /\ old.status \in IncidentStatus
    BY DEF Row
  <1>2. \A t \in Services :
          updated[t] = IF t = s THEN [health |-> health, changedAfterImpact |-> TRUE]
                       ELSE old.services[t]
    BY <1>1 DEF UpdateServiceStatus
  <1> HIDE DEF updated
  <1>3. \A t \in Services :
          \/ services[t] = updated[t]
          \/ /\ updated[t].health = "degraded"
             /\ services[t] = [health |-> "healthy", changedAfterImpact |-> TRUE]
    BY DEF PropagateDependencyHealth
  <1> HIDE DEF services
  <1>4. ASSUME old.status \notin {"normal", "reset"}
        PROVE  \A t \in Services : services[t].health = "healthy" => services[t].changedAfterImpact
    BY <1>2, <1>3, <1>4 DEF Coherent
  <1>5. ASSUME old.status = "recovered"
        PROVE  RecoveredAfterImpact(services) # {}
    <2>1. CASE Services = {}
      BY <2>1
    <2>2. PICK t \in Services : t # s
      BY DEF WholeOutage
    <2>3. old.services[t].health = "healthy"
      BY <1>5 DEF Coherent, Unhealthy
    <2>4. services[t] = old.services[t]
      BY <1>2, <1>3, <2>2, <2>3
    <2>5. services[t].changedAfterImpact
      BY <1>4, <1>5, <2>3, <2>4
    <2> QED
      BY <2>3, <2>4, <2>5 DEF RecoveredAfterImpact
  <1>6. next.services = services /\ next.status = DeriveIncidentStatus(old.status, services)
    BY DEF services, updated
  <1> QED
    BY <1>1, <1>4, <1>5, <1>6, DerivedIsCoherent

\* The copy that a handler edits: each kind of edit keeps status and services together.
LEMMA EditsAreCoherent ==
    ASSUME WholeOutage, TypeOK, Coherence, NEW h \in Handlers, NEW r \in Runs,
           AgentWrite(h, r) \/ HarnessEvent(h, r)
    PROVE  \E w : Edit(h, r, w) /\ Coherent(w.next)
  <1>1. row[r] \in Row /\ Coherent(row[r])
    BY DEF TypeOK, Coherence
  <1>2. ASSUME NEW next, Edit(h, r, Rewrite(r, next)), Coherent(next)
        PROVE  \E w : Edit(h, r, w) /\ Coherent(w.next)
    BY <1>2 DEF Rewrite, Granting
  <1>3. ASSUME NEW next, next.services = row[r].services, next.status = row[r].status
        PROVE  Coherent(next)
    BY <1>1, <1>3 DEF Coherent
  <1>4. ASSUME NEW u \in Units, AllocateCapacity(h, r, u)
        PROVE  \E w : Edit(h, r, w) /\ Coherent(w.next)
    <2> DEFINE next == [row[r] EXCEPT !.allocated = @ + u]
    <2>1. Coherent(next)
      BY <1>1, <1>3 DEF Row
    <2> HIDE DEF next
    <2>2. Edit(h, r, Granting(r, next, u))
      BY <1>4 DEF AllocateCapacity, next
    <2> QED
      BY <2>1, <2>2 DEF Granting
  <1>5. ASSUME NEW u \in Units, ReleaseCapacity(h, r, u)
        PROVE  \E w : Edit(h, r, w) /\ Coherent(w.next)
    <2> DEFINE next == [row[r] EXCEPT !.allocated = Released(@, u)]
    <2>1. Coherent(next)
      BY <1>1, <1>3 DEF Row
    <2> QED
      BY <1>2, <1>5, <2>1 DEF ReleaseCapacity
  <1>6. ASSUME NEW s \in Services, NEW health \in Health, SetServiceStatus(h, r, s, health)
        PROVE  \E w : Edit(h, r, w) /\ Coherent(w.next)
    <2> DEFINE services == PropagateDependencyHealth(
                              UpdateServiceStatus(row[r].services, s, health))
               next == [row[r] EXCEPT !.services = services,
                                      !.status = DeriveIncidentStatus(@, services)]
    <2>1. next.services = services /\ next.status = DeriveIncidentStatus(row[r].status, services)
      BY <1>1 DEF Row
    <2>2. Edit(h, r, Rewrite(r, next))
      BY <1>6 DEF SetServiceStatus
    <2> HIDE DEF next
    <2>3. Coherent(next)
      BY <1>1, <2>1, UpdateIsCoherent
    <2> QED
      BY <1>2, <2>2, <2>3
  <1>7. CASE MarkResponding(h, r)
    <2> DEFINE next == [row[r] EXCEPT !.status = "responding"]
    <2>1. next.services = row[r].services /\ next.status = "responding"
      BY <1>1 DEF Row
    <2>2. Coherent(next)
      BY <1>1, <1>7, <2>1 DEF Coherent, MarkResponding
    <2> QED
      BY <1>2, <1>7, <2>2 DEF MarkResponding
  <1>8. CASE AdvanceSimulation(h, r) \/ RewriteRow(h, r)
    BY <1>1, <1>2, <1>8 DEF AdvanceSimulation, RewriteRow
  <1>9. ASSUME NEW e \in Events, NEW mutated \in Row, ApplyHarnessEvent(h, r, e, mutated),
               \A next : /\ next.services = mutated.services
                         /\ next.status = DeriveIncidentStatus(mutated.status, mutated.services)
                         => Coherent(next)
        PROVE  \E w : Edit(h, r, w) /\ Coherent(w.next)
    <2> DEFINE next == [mutated EXCEPT !.events = @ \cup {e},
                          !.status = DeriveIncidentStatus(@, mutated.services)]
    <2>1. /\ next.services = mutated.services
          /\ next.status = DeriveIncidentStatus(mutated.status, mutated.services)
      BY DEF Row
    <2>2. Edit(h, r, Answering(r, next, e))
      BY <1>9 DEF ApplyHarnessEvent
    <2> HIDE DEF next
    <2> QED
      BY <1>9, <2>1, <2>2 DEF Answering
  <1>10. ASSUME NEW e \in Events, MeteoriteImpact(h, r, e)
         PROVE  \E w : Edit(h, r, w) /\ Coherent(w.next)
    <2> DEFINE mutated == [row[r] EXCEPT !.services = ApplyImpact, !.status = "detected"]
    <2>1. mutated \in Row /\ mutated.services = ApplyImpact /\ mutated.status = "detected"
      BY <1>1, ServicesType DEF Row, IncidentStatus
    <2>2. ApplyHarnessEvent(h, r, e, mutated)
      BY <1>10 DEF MeteoriteImpact
    <2> HIDE DEF mutated
    <2>3. \A s \in Services : ApplyImpact[s].health # "healthy"
      BY DEF WholeOutage, ApplyImpact
    <2>4. "detected" \in IncidentStatus
      BY DEF IncidentStatus
    <2> QED
      BY <1>9, <2>1, <2>2, <2>3, <2>4, DerivedIsCoherent
  <1>11. ASSUME NEW e \in Events, NEW c \in LimitedCapacities, CapacityLimited(h, r, e, c)
         PROVE  \E w : Edit(h, r, w) /\ Coherent(w.next)
    <2> DEFINE mutated == [row[r] EXCEPT !.total = c]
    <2>1. /\ mutated \in Row /\ mutated.services = row[r].services
          /\ mutated.status = row[r].status
      BY <1>1, StoreAssumption DEF Row
    <2>2. ApplyHarnessEvent(h, r, e, mutated)
      BY <1>11 DEF CapacityLimited
    <2> HIDE DEF mutated
    <2> QED
      BY <1>1, <1>9, <2>1, <2>2, SameServicesAreCoherent
  <1>12. ASSUME NEW e \in Events, NEW s \in Services, NEW health \in Health,
                ServiceHealthChanged(h, r, e, s, health)
         PROVE  \E w : Edit(h, r, w) /\ Coherent(w.next)
    <2> DEFINE services == PropagateDependencyHealth(
                              UpdateServiceStatus(row[r].services, s, health))
               mutated == [row[r] EXCEPT !.services = services]
    <2>1. services \in [Services -> ServiceState]
      BY <1>1, ServicesType DEF Row
    <2>2. ApplyHarnessEvent(h, r, e, mutated)
      BY <1>12 DEF ServiceHealthChanged
    <2>3. \A next : next.services = services
                    /\ next.status = DeriveIncidentStatus(row[r].status, services)
                    => Coherent(next)
      BY <1>1, UpdateIsCoherent
    <2> HIDE DEF services
    <2>4. mutated \in Row /\ mutated.services = services /\ mutated.status = row[r].status
      BY <1>1, <2>1 DEF Row
    <2> HIDE DEF mutated
    <2> QED
      BY <1>9, <2>2, <2>3, <2>4
  <1>13. ASSUME NEW e \in Events, FactReported(h, r, e)
         PROVE  \E w : Edit(h, r, w) /\ Coherent(w.next)
    BY <1>1, <1>9, <1>13, SameServicesAreCoherent DEF FactReported
  <1> QED
    BY <1>4, <1>5, <1>6, <1>7, <1>8, <1>10, <1>11, <1>12, <1>13 DEF AgentWrite, HarnessEvent

LEMMA EditKeepsCoherence ==
    ASSUME TypeOK, Coherence, NEW h \in Handlers, NEW r \in Runs, NEW w,
           Edit(h, r, w), Coherent(w.next)
    PROVE  Coherence'
  BY DEF Edit, Coherence, Coherent, TypeOK

LEMMA StoreKeepsCoherence ==
    ASSUME WholeOutage, TypeOK, Coherence, [Next]_vars
    PROVE  Coherence'
  <1> USE DEF Coherence
  <1>1. Coherent(Baseline) /\ Coherent(NotStarted)
    BY DEF Coherent, Baseline, NotStarted
  <1>2. ASSUME NEW h \in Handlers, NEW r \in Runs, BeginStart(h, r)
        PROVE  Coherence'
    <2> DEFINE replaced == [q \in Runs |-> IF q \in ActiveRuns(r)
                                           THEN [row[q] EXCEPT !.active = FALSE, !.status = "reset"]
                                           ELSE NotStarted]
    <2>1. \A q \in Runs : Coherent(replaced[q])
      <3>1. \A q \in Runs : [row[q] EXCEPT !.active = FALSE, !.status = "reset"].status = "reset"
        BY DEF TypeOK, Row
      <3> QED
        BY <1>1, <3>1 DEF Coherent
    <2> HIDE DEF replaced
    <2>2. starting' = [starting EXCEPT ![h] = [run |-> r, stopped |-> ActiveRuns(r),
                                               replaced |-> replaced]]
          /\ row' = row /\ pending' = pending
      BY <1>2 DEF BeginStart, replaced
    <2>3. \A g \in Handlers : starting'[g].replaced = replaced
                              \/ starting'[g].replaced = starting[g].replaced
      BY <2>2 DEF TypeOK
    <2>4. ASSUME NEW g \in Handlers, NEW q \in Runs
          PROVE  Coherent(starting'[g].replaced[q])
      BY <2>1, <2>3
    <2> QED
      BY <2>2, <2>4 DEF Coherent
  <1>3. ASSUME NEW h \in Handlers, NEW r \in Runs, HarnessEvent(h, r) \/ AgentWrite(h, r)
        PROVE  Coherence'
    BY <1>3, EditsAreCoherent, EditKeepsCoherence
  <1>4. ASSUME NEW h \in Handlers, CommitStart(h)
        PROVE  Coherence'
    <2>1. \A q \in Runs : \/ row'[q] = Baseline \/ row'[q] = row[q]
                          \/ row'[q] = starting[h].replaced[q]
      BY <1>4 DEF CommitStart
    <2>2. \A g \in Handlers : starting'[g] = NoTransaction \/ starting'[g] = starting[g]
      BY <1>4 DEF CommitStart, TypeOK
    <2>3. \A q \in Runs : NoTransaction.replaced[q] = NotStarted
      BY DEF NoTransaction
    <2>4. ASSUME NEW g \in Handlers, NEW q \in Runs
          PROVE  Coherent(starting'[g].replaced[q])
      BY <1>1, <2>2, <2>3
    <2>5. ASSUME NEW q \in Runs
          PROVE  Coherent(row'[q])
      BY <1>1, <2>1
    <2>6. pending' = pending
      BY <1>4 DEF CommitStart
    <2> QED
      BY <2>4, <2>5, <2>6 DEF Coherent
  <1>5. ASSUME NEW h \in Handlers, Save(h)
        PROVE  Coherence'
    <2>1. \A q \in Runs : row'[q] = row[q] \/ row'[q] = pending[h].next
      BY <1>5 DEF Save, TypeOK
    <2>2. \A g \in Handlers : pending'[g] = NoWrite \/ pending'[g] = pending[g]
      BY <1>5 DEF Save, TypeOK
    <2>3. starting' = starting /\ NoWrite.next = NotStarted
      BY <1>5 DEF Save, NoWrite
    <2>4. ASSUME NEW q \in Runs
          PROVE  Coherent(row'[q])
      BY <2>1
    <2>5. ASSUME NEW g \in Handlers
          PROVE  Coherent(pending'[g].next)
      BY <1>1, <2>2, <2>3
    <2> QED
      BY <2>3, <2>4, <2>5 DEF Coherent
  <1>6. CASE UNCHANGED vars
    BY <1>6 DEF vars, Coherent
  <1> QED
    BY <1>2, <1>3, <1>4, <1>5, <1>6 DEF Next

LEMMA InitIsCoherent == Init => Coherence
  BY DEF Init, Coherence, Coherent, NoWrite, NoTransaction, NotStarted, Baseline

\* An impacted run is recovered exactly when all its services are healthy, through every
\* stale write and every order of repairs and breakdowns: in a scenario of several
\* services, none of which the impact leaves healthy.
THEOREM RecoveredMeansHealthyHolds ==
    ASSUME WholeOutage
    PROVE  Spec => []RecoveredMeansHealthy
  <1>1. TypeOK /\ Coherence => RecoveredMeansHealthy
    BY DEF TypeOK, Coherence, Coherent, RecoveredMeansHealthy
  <1>2. TypeOK /\ Coherence /\ [Next]_vars => Coherence'
    BY StoreKeepsCoherence
  <1> QED
    BY <1>1, <1>2, InitIsCoherent, TypeCorrect, PTL DEF Spec

-----------------------------------------------------------------------------
(* The rows *)

\* applyHarnessEvent of a report is an edit like any other.
LEMMA ReportIsSound ==
    ASSUME Inv, NEW c \in Confirmers, NEW h \in Handlers, NEW available \in LimitedCapacities,
           ApplyReport(c, h, available), pending' # pending
    PROVE  /\ SoundEdit(h, Target, pending'[h])
           /\ AcceptsEvents(Target)
           /\ pending' = [pending EXCEPT ![h] = pending'[h]]
           /\ pending'[h].run = Target /\ pending'[h].events = {Report}
           /\ confirming' = [confirming EXCEPT ![c] = [pc |-> "applying", handler |-> {h}]]
  <1> DEFINE next == [row[Target] EXCEPT !.total = available, !.events = @ \cup {Report},
                         !.status = DeriveIncidentStatus(@, row[Target].services)]
             w == Answering(Target, next, Report)
  <1>1. /\ AcceptsEvents(Target) /\ AcceptsCapacity(Target, available)
        /\ Edit(h, Target, w)
        /\ confirming' = [confirming EXCEPT ![c] = [pc |-> "applying", handler |-> {h}]]
        /\ claims' = claims
    BY DEF ApplyReport
  <1>2. /\ Target \in started /\ row[Target] \in Row /\ row[Target].active
        /\ SoundRow(row[Target]) /\ Report \in Events /\ Target \in Runs
        /\ available \in Nat /\ pending \in [Handlers -> Write]
    BY <1>1, ReportsAssumption, StoreAssumption DEF Edit, AcceptsEvents, Inv, TypeOK
  <1>3. /\ DeriveIncidentStatus(row[Target].status, row[Target].services) \in IncidentStatus
        /\ DeriveIncidentStatus(row[Target].status, row[Target].services) # "reset"
    BY <1>2, DeriveKeepsReset DEF Row, SoundRow
  <1>4. next \in Row /\ next.active = row[Target].active /\ SoundRow(next)
    BY <1>1, <1>2, <1>3 DEF Row, SoundRow, AcceptsCapacity
  <1> HIDE DEF next
  <1>5. w \in Write /\ w.run = Target /\ w.events = {Report} /\ w.next = next
    BY <1>2, <1>4 DEF Answering, Write
  <1> HIDE DEF w
  <1>6. pending' = [pending EXCEPT ![h] = w]
    BY <1>1 DEF Edit
  <1>7. pending'[h] = w
    BY <1>2, <1>6
  <1>8. SoundEdit(h, Target, w)
    BY <1>1, <1>4, <1>5 DEF SoundEdit, Inv, TypeOK
  <1> QED
    BY <1>1, <1>5, <1>6, <1>7, <1>8

\* A crash leaves no copy and no open transaction behind.
LEMMA CrashPreserves ==
    ASSUME Inv, Crash
    PROVE  Inv'
  <1> USE DEF Inv
  <1>1. TypeOK'
    BY RowType DEF Crash, TypeOK
  <1>2. \A h \in Handlers : pending'[h].run = NoRun /\ starting'[h].run = NoRun
    BY RowType DEF Crash
  <1>3. \A h \in Handlers : SoundWrite(pending[h])' /\ SoundStart(starting[h])'
    BY <1>2 DEF SoundWrite, SoundStart
  <1>4. OneStartPerSession'
    BY <1>2 DEF OneStartPerSession
  <1>5. OneActiveRun' /\ StartNeverConflicts'
    BY DEF Crash, OneActiveRun, ActiveRuns, SameSession, StartNeverConflicts
  <1>6. \A r \in started' : SoundRow(row[r])'
    BY DEF Crash, SoundRow
  <1> QED
    BY <1>1, <1>3, <1>4, <1>5, <1>6

\* What a step of the composition is for the store.
LEMMA StoreStepIsNext ==
    ASSUME NEW h \in Handlers, StoreStep(h)
    PROVE  Next
  BY DEF StoreStep, Next

LEMMA ReportsStepPreserves ==
    ASSUME Inv, [ReportsNext]_allVars
    PROVE  Inv'
  <1>1. ASSUME NEW h \in Handlers, StoreStep(h)
        PROVE  Inv'
    BY <1>1, StoreStepIsNext, NextPreserves
  <1>2. CASE UNCHANGED vars
    BY <1>2, NextPreserves
  <1>3. CASE Company \/ ReceiveReport
    BY <1>2, <1>3 DEF Company, Initiate, BeginReceive, CommitReceive, Observe, NotObserved,
       FindPending, ReadRun, CloseRequest, ClaimRequest, MinutePasses, ReceiveReport
  <1>4. ASSUME NEW c \in Confirmers, NEW h \in Handlers, NEW available \in LimitedCapacities,
               ApplyReport(c, h, available)
        PROVE  Inv'
    <2>1. CASE pending' = pending
      <3>1. UNCHANGED <<row, started, starting, conflicts, acked, claims>>
        BY <1>4 DEF ApplyReport, Edit
      <3> QED
        BY <1>2, <2>1, <3>1 DEF vars
    <2>2. CASE pending' # pending
      <3>1. SoundEdit(h, Target, pending'[h]) /\ Target \in Runs
        BY <1>4, <2>2, ReportIsSound, ReportsAssumption
      <3> QED
        BY <3>1, EditPreserves
    <2> QED
      BY <2>1, <2>2
  <1>5. ASSUME NEW c \in Confirmers, Engineer(c)
        PROVE  Inv'
    BY <1>2, <1>4, <1>5 DEF Engineer, BeginConfirm, Applied, SaveConfirmation
  <1>6. CASE Crash
    BY <1>6, CrashPreserves
  <1>7. CASE UNCHANGED allVars
    BY <1>2, <1>7 DEF allVars
  <1> QED
    BY <1>1, <1>3, <1>5, <1>6, <1>7 DEF ReportsNext

\* The rows, the copies and the transactions stay sound under crashes and reports: each
\* state property proved of IncidentStore holds of the composition.
THEOREM StoreStaysSound == ReportsSpec => []Inv
  <1>1. ReportsInit => Inv
    BY InitEstablishes DEF ReportsInit
  <1> QED
    BY <1>1, ReportsStepPreserves, PTL DEF ReportsSpec

\* In particular the sessions keep their one active run, starts do not conflict, and reset
\* and inactive go together, whenever the server crashes.
THEOREM SessionsSurviveCrashes ==
    ReportsSpec => [](OneActiveRun /\ StartNeverConflicts /\ ResetMeansInactive)
  <1>1. Inv => OneActiveRun /\ StartNeverConflicts /\ ResetMeansInactive
    BY DEF Inv, SoundRow, ResetMeansInactive
  <1> QED
    BY <1>1, StoreStaysSound, PTL

LEMMA ReportsKeepCoherence ==
    ASSUME WholeOutage, Inv, Coherence, [ReportsNext]_allVars
    PROVE  Coherence'
  <1>1. ASSUME NEW h \in Handlers, StoreStep(h)
        PROVE  Coherence'
    BY <1>1, StoreStepIsNext, StoreKeepsCoherence DEF Inv
  <1>2. CASE UNCHANGED vars
    BY <1>2, StoreKeepsCoherence DEF Inv
  <1>3. CASE Company \/ ReceiveReport
    BY <1>2, <1>3 DEF Company, Initiate, BeginReceive, CommitReceive, Observe, NotObserved,
       FindPending, ReadRun, CloseRequest, ClaimRequest, MinutePasses, ReceiveReport
  <1>4. ASSUME NEW c \in Confirmers, NEW h \in Handlers, NEW available \in LimitedCapacities,
               ApplyReport(c, h, available)
        PROVE  Coherence'
    <2> DEFINE next == [row[Target] EXCEPT !.total = available, !.events = @ \cup {Report},
                           !.status = DeriveIncidentStatus(@, row[Target].services)]
    <2>1. row[Target] \in Row /\ Coherent(row[Target]) /\ Target \in Runs
      BY ReportsAssumption DEF Inv, TypeOK, Coherence
    <2>2. /\ next.services = row[Target].services
          /\ next.status = DeriveIncidentStatus(row[Target].status, row[Target].services)
      BY <2>1 DEF Row
    <2>3. \/ Edit(h, Target, Answering(Target, next, Report))
          \/ UNCHANGED <<row, pending, starting>>
      BY <1>4 DEF ApplyReport
    <2> HIDE DEF next
    <2>4. Coherent(Answering(Target, next, Report).next)
      BY <2>1, <2>2, SameServicesAreCoherent DEF Answering
    <2>5. CASE Edit(h, Target, Answering(Target, next, Report))
      BY <2>1, <2>4, <2>5, EditKeepsCoherence DEF Inv
    <2>6. CASE UNCHANGED <<row, pending, starting>>
      BY <2>6 DEF Coherence, Coherent
    <2> QED
      BY <2>3, <2>5, <2>6
  <1>5. ASSUME NEW c \in Confirmers, Engineer(c)
        PROVE  Coherence'
    BY <1>2, <1>4, <1>5 DEF Engineer, BeginConfirm, Applied, SaveConfirmation
  <1>6. CASE Crash
    BY <1>6 DEF Crash, Coherence, Coherent, NoWrite, NoTransaction, NotStarted, Baseline
  <1>7. CASE UNCHANGED allVars
    BY <1>2, <1>7 DEF allVars
  <1> QED
    BY <1>1, <1>3, <1>5, <1>6, <1>7 DEF ReportsNext

\* And the status of an incident agrees with its services, also when the server crashes and
\* reports of capacity are applied beside the repairs.
THEOREM StatusSurvivesCrashes ==
    ASSUME WholeOutage
    PROVE  ReportsSpec => []RecoveredMeansHealthy
  <1>1. TypeOK /\ Coherence => RecoveredMeansHealthy
    BY DEF TypeOK, Coherence, Coherent, RecoveredMeansHealthy
  <1>2. Inv /\ Coherence /\ [ReportsNext]_allVars => Coherence'
    BY ReportsKeepCoherence
  <1>3. ReportsInit => Coherence
    BY InitIsCoherent DEF ReportsInit
  <1>4. Inv => TypeOK
    BY DEF Inv
  <1> QED
    BY <1>1, <1>2, <1>3, <1>4, StoreStaysSound, PTL DEF ReportsSpec

-----------------------------------------------------------------------------
(* Priority requests *)

\* What the lock of receive is there for: the run that was checked stays as it was.
LockedIsUnresolved == receiving => Unresolved(Target)

LEMMA LockHolds ==
    ASSUME Inv, LockedIsUnresolved, [ReportsNext]_allVars
    PROVE  LockedIsUnresolved'
  <1> USE DEF LockedIsUnresolved
  <1>1. CASE UNCHANGED <<row, started>> /\ receiving' = receiving
    BY <1>1 DEF Unresolved
  <1>2. ASSUME NEW h \in Handlers, StoreStep(h), UNCHANGED reports
        PROVE  LockedIsUnresolved'
    <2> SUFFICES ASSUME receiving'
                 PROVE  Unresolved(Target)'
      OBVIOUS
    <2>1. receiving' = receiving /\ Unresolved(Target) /\ Locked(Target) /\ Target \in Runs
      BY <1>2, ReportsAssumption DEF reports, Locked
    <2>2. CASE CommitStart(h) /\ \A r \in starting[h].stopped : ~Locked(r)
      <3>1. starting[h].run \notin started /\ Target \notin starting[h].stopped
        BY <2>1, <2>2, CommitIsAccepted
      <3>2. Target \in started /\ Target # starting[h].run
        BY <2>1, <3>1 DEF Unresolved
      <3>3. row'[Target] = row[Target]
        BY <2>1, <2>2, <3>1, <3>2, CommitIsAccepted
      <3>4. Target \in started'
        BY <2>2, <3>2, CommitIsAccepted
      <3> QED
        BY <2>1, <3>3, <3>4 DEF Unresolved
    <2>3. CASE Save(h) /\ ~Locked(pending[h].run)
      <3>1. pending[h].run # Target
        BY <2>1, <2>3
      <3>2. row'[Target] = row[Target] /\ started' = started
        BY <2>1, <2>3, <3>1 DEF Save, Inv, TypeOK
      <3> QED
        BY <2>1, <3>2 DEF Unresolved
    <2>4. CASE \E r \in Runs : BeginStart(h, r) \/ AgentWrite(h, r) \/ HarnessEvent(h, r)
      <3>1. UNCHANGED <<row, started>>
        BY <2>4, AgentEditsAreSound, HarnessEventsAreSound DEF BeginStart, SoundEdit, Edit
      <3> QED
        BY <1>1, <2>1, <3>1
    <2> QED
      BY <1>2, <2>2, <2>3, <2>4 DEF StoreStep
  <1>3. CASE Company
    BY <1>3 DEF Company, Initiate, BeginReceive, CommitReceive, Observe, NotObserved, FindPending,
       ReadRun, CloseRequest, ClaimRequest, MinutePasses, vars, Unresolved
  <1>4. CASE ReceiveReport \/ UNCHANGED allVars
    BY <1>1, <1>4 DEF ReceiveReport, allVars, vars, reports
  <1>5. ASSUME NEW c \in Confirmers, Engineer(c)
        PROVE  LockedIsUnresolved'
    BY <1>1, <1>5 DEF Engineer, BeginConfirm, ApplyReport, Edit, Applied, SaveConfirmation, vars
  <1>6. CASE Crash
    BY <1>6 DEF Crash
  <1> QED
    BY <1>2, <1>3, <1>4, <1>5, <1>6 DEF ReportsNext

\* A priority request is accepted only on a run that is active and unresolved when it is
\* committed, whatever tabs and handlers do meanwhile (CompanyCallService.receive).
THEOREM AcceptedOnActiveRunHolds == ReportsSpec => AcceptedOnActiveRun
  <1>1. ReportsInit => LockedIsUnresolved
    BY DEF ReportsInit, LockedIsUnresolved
  <1>2. ASSUME LockedIsUnresolved, [ReportsNext]_allVars
        PROVE  [session = "idle" /\ session' = "pending" => Unresolved(Target)]_allVars
    <2> SUFFICES ASSUME ReportsNext, session = "idle", session' = "pending"
                 PROVE  Unresolved(Target)
      BY <1>2 DEF allVars
    <2>1. receiving
      BY DEF ReportsNext, Company, Initiate, BeginReceive, CommitReceive, Observe, NotObserved,
         FindPending, ReadRun, CloseRequest, ClaimRequest, MinutePasses, ReceiveReport, Engineer,
         BeginConfirm, ApplyReport, Applied, SaveConfirmation, Crash, reports
    <2> QED
      BY <1>2, <2>1 DEF LockedIsUnresolved
  <1> QED
    BY <1>1, <1>2, LockHolds, StoreStaysSound, PTL DEF ReportsSpec, AcceptedOnActiveRun

-----------------------------------------------------------------------------
(* Capacity reports *)

Has(next) == Report \in next.events

\* Handler h is to write the row that its confirmation has made of the report.
Writing(h) == Report \in pending[h].events

\* Every copy of the row made for another purpose says what the row says.
Agree ==
    /\ \A h \in Handlers :
          pending[h].run = Target /\ ~Writing(h) => (Has(pending[h].next) <=> Has(row[Target]))
    /\ \A h \in Handlers : starting[h].run # NoRun /\ Target \in starting[h].stopped
          => (Has(starting[h].replaced[Target]) <=> Has(row[Target]))

Free == \A c \in Confirmers : At(c, "idle")

\* A confirmation has found, and may still rely on, a row without the report.
Unreported ==
    \/ \E c \in Confirmers : At(c, "apply")
    \/ \E h \in Handlers : Writing(h)
    \/ \E c \in Confirmers : At(c, "applying") /\ Report \notin acked[Target]

\* One confirmation holds the call, and only its handler writes the report.
Held ==
    /\ confirming \in [Confirmers -> [pc : {"idle", "apply", "applying", "save"},
                                      handler : SUBSET Handlers]]
    /\ \A c, d \in Confirmers : ~At(c, "idle") /\ ~At(d, "idle") => c = d
    /\ capacity = "confirmed" => Free
    /\ \A h \in Handlers : Writing(h) =>
          /\ pending[h].run = Target
          /\ \E c \in Confirmers : At(c, "applying") /\ confirming[c].handler = {h}

ReportInv ==
    /\ Inv
    /\ Held
    /\ Free /\ capacity # "confirmed" => Agree
    /\ Unreported => Agree /\ ~Has(row[Target])

\* The copy of every other edit has the report exactly if the row had it.
LEMMA EditsAgree ==
    ASSUME Inv, NEW h \in Handlers, NEW r \in Runs,
           AgentWrite(h, r) \/ (HarnessEvent(h, r) /\ Report \notin pending'[h].events)
    PROVE  /\ Idle(h) /\ pending' = [pending EXCEPT ![h] = pending'[h]]
           /\ pending'[h].run = r
           /\ Has(pending'[h].next) <=> Has(row[r])
           /\ Report \notin pending'[h].events
           /\ UNCHANGED <<row, started, starting, acked>>
  <1>1. row[r] \in Row /\ pending \in [Handlers -> Write]
    BY DEF Inv, TypeOK
  <1>2. ASSUME NEW next, NEW units, next.events = row[r].events,
               Edit(h, r, Granting(r, next, units))
        PROVE  /\ Idle(h) /\ pending' = [pending EXCEPT ![h] = pending'[h]]
               /\ pending'[h].run = r
               /\ Has(pending'[h].next) <=> Has(row[r])
               /\ Report \notin pending'[h].events
               /\ UNCHANGED <<row, started, starting, acked>>
    BY <1>1, <1>2 DEF Edit, Granting, Has
  <1>3. CASE AgentWrite(h, r)
    <2>1. \E next, units : next.events = row[r].events /\ Edit(h, r, Granting(r, next, units))
      BY <1>1, <1>3 DEF AgentWrite, AllocateCapacity, ReleaseCapacity, SetServiceStatus,
         MarkResponding, AdvanceSimulation, RewriteRow, Rewrite, Row
    <2> QED
      BY <1>2, <2>1
  <1>4. CASE HarnessEvent(h, r) /\ Report \notin pending'[h].events
    <2> DEFINE Edited == \E e \in Events, mutated \in Row : /\ mutated.events = row[r].events
                                                           /\ ApplyHarnessEvent(h, r, e, mutated)
    <2>1. Edited
      <3>1. ASSUME NEW e \in Events, NEW m, m \in Row, m.events = row[r].events,
                   ApplyHarnessEvent(h, r, e, m)
            PROVE  Edited
        BY <3>1
      <3>2. ASSUME NEW e \in Events, MeteoriteImpact(h, r, e)
            PROVE  Edited
        <4> DEFINE m == [row[r] EXCEPT !.services = ApplyImpact, !.status = "detected"]
        <4>1. m \in Row /\ m.events = row[r].events
          BY <1>1, ServicesType DEF Row, IncidentStatus
        <4>2. ApplyHarnessEvent(h, r, e, m)
          BY <3>2 DEF MeteoriteImpact
        <4> QED
          BY <3>1, <4>1, <4>2
      <3>3. ASSUME NEW e \in Events, NEW c \in LimitedCapacities, CapacityLimited(h, r, e, c)
            PROVE  Edited
        <4> DEFINE m == [row[r] EXCEPT !.total = c]
        <4>1. m \in Row /\ m.events = row[r].events
          BY <1>1, StoreAssumption DEF Row
        <4>2. ApplyHarnessEvent(h, r, e, m)
          BY <3>3 DEF CapacityLimited
        <4> QED
          BY <3>1, <4>1, <4>2
      <3>4. ASSUME NEW e \in Events, NEW s \in Services, NEW health \in Health,
                   ServiceHealthChanged(h, r, e, s, health)
            PROVE  Edited
        <4> DEFINE services == PropagateDependencyHealth(
                                  UpdateServiceStatus(row[r].services, s, health))
                   m == [row[r] EXCEPT !.services = services]
        <4>1. services \in [Services -> ServiceState]
          BY <1>1, ServicesType DEF Row
        <4>2. ApplyHarnessEvent(h, r, e, m)
          BY <3>4 DEF ServiceHealthChanged
        <4> HIDE DEF services
        <4>3. m \in Row /\ m.events = row[r].events
          BY <1>1, <4>1 DEF Row
        <4> QED
          BY <3>1, <4>2, <4>3
      <3>5. ASSUME NEW e \in Events, FactReported(h, r, e)
            PROVE  Edited
        BY <1>1, <3>1, <3>5 DEF FactReported
      <3> QED
        BY <1>4, <3>2, <3>3, <3>4, <3>5 DEF HarnessEvent
    <2>2. PICK e \in Events, mutated \in Row : /\ mutated.events = row[r].events
                                               /\ ApplyHarnessEvent(h, r, e, mutated)
      BY <2>1
    <2> DEFINE next == [mutated EXCEPT !.events = @ \cup {e},
                          !.status = DeriveIncidentStatus(@, mutated.services)]
    <2>3. Edit(h, r, Answering(r, next, e))
      BY <2>2 DEF ApplyHarnessEvent
    <2>4. next.events = row[r].events \cup {e}
      BY <2>2 DEF Row
    <2> HIDE DEF next
    <2>5. pending'[h] = Answering(r, next, e)
      BY <1>1, <2>3 DEF Edit
    <2>6. e # Report
      BY <1>4, <2>5 DEF Answering
    <2> QED
      BY <1>1, <2>3, <2>4, <2>5, <2>6 DEF Edit, Answering, Has
  <1> QED
    BY <1>3, <1>4

\* Nothing a step leaves alone of the confirmations, the copies and the row changes what
\* is said of the report.
LEMMA ReportKept ==
    ASSUME ReportInv, Inv', Held', Agree => Agree', Unreported' => Unreported,
           Free' /\ capacity' # "confirmed" => Free /\ capacity # "confirmed",
           Agree /\ ~Has(row[Target]) => ~Has(row[Target])'
    PROVE  ReportInv'
  BY DEF ReportInv

LEMMA EditKeepsReport ==
    ASSUME ReportInv, Inv', NEW h \in Handlers, NEW r \in Runs, UNCHANGED reports,
           AgentWrite(h, r) \/ (HarnessEvent(h, r) /\ Report \notin pending'[h].events)
    PROVE  ReportInv'
  <1>1. /\ Idle(h) /\ pending' = [pending EXCEPT ![h] = pending'[h]]
        /\ pending'[h].run = r
        /\ Has(pending'[h].next) <=> Has(row[r])
        /\ Report \notin pending'[h].events
        /\ UNCHANGED <<row, started, starting, acked>>
    BY EditsAgree DEF ReportInv
  <1>2. pending \in [Handlers -> Write] /\ Target \in Runs /\ NoRun \notin Runs
    BY ReportsAssumption, StoreAssumption DEF ReportInv, Inv, TypeOK
  <1>3. \A g \in Handlers : g # h => pending'[g] = pending[g]
    BY <1>1, <1>2
  <1>4. ~Writing(h) /\ ~Writing(h)'
    BY <1>1, <1>2 DEF Idle, Writing, ReportInv, Held
  <1>5. \A g \in Handlers : Writing(g)' <=> Writing(g)
    BY <1>3, <1>4 DEF Writing
  <1>6. Held' /\ (Unreported' <=> Unreported) /\ (Free' <=> Free) /\ capacity' = capacity
    BY <1>1, <1>3, <1>5 DEF ReportInv, Held, Unreported, Free, At, reports, Writing
  <1>7. Agree => Agree'
    BY <1>1, <1>3, <1>5 DEF Agree, Has
  <1> QED
    BY <1>1, <1>6, <1>7, ReportKept DEF Has

LEMMA BeginKeepsReport ==
    ASSUME ReportInv, Inv', NEW h \in Handlers, NEW r \in Runs, UNCHANGED reports,
           BeginStart(h, r)
    PROVE  ReportInv'
  <1>1. UNCHANGED <<row, started, pending, acked>>
    BY DEF BeginStart
  <1>2. Target \in starting'[h].stopped => starting'[h].replaced[Target].events = row[Target].events
    <2>1. Target \in Runs /\ row[Target] \in Row /\ starting \in [Handlers -> Transaction]
      BY ReportsAssumption DEF ReportInv, Inv, TypeOK
    <2>2. /\ starting'[h].stopped = ActiveRuns(r)
          /\ Target \in ActiveRuns(r) =>
               starting'[h].replaced[Target] = [row[Target] EXCEPT !.active = FALSE, !.status = "reset"]
      BY <2>1 DEF BeginStart
    <2> QED
      BY <2>1, <2>2 DEF Row
  <1>3. \A g \in Handlers : g # h => starting'[g] = starting[g]
    BY DEF BeginStart, ReportInv, Inv, TypeOK
  <1>4. Agree => Agree'
    BY <1>1, <1>2, <1>3 DEF Agree, Has, Writing
  <1>5. Held' /\ (Unreported' <=> Unreported) /\ (Free' <=> Free) /\ capacity' = capacity
    BY <1>1 DEF ReportInv, Held, Unreported, Free, At, reports, Writing
  <1> QED
    BY <1>1, <1>4, <1>5, ReportKept DEF Has

LEMMA CommitKeepsReport ==
    ASSUME ReportInv, Inv', NEW h \in Handlers, UNCHANGED reports, CommitStart(h)
    PROVE  ReportInv'
  <1> DEFINE tx == starting[h]
  <1>1. /\ tx.run \in Runs /\ tx.run \notin started
        /\ row' = [q \in Runs |-> IF q = tx.run THEN Baseline
                                 ELSE IF q \in tx.stopped THEN tx.replaced[q] ELSE row[q]]
    BY CommitIsAccepted DEF ReportInv
  <1>2. UNCHANGED <<pending, acked>> /\ starting' = [starting EXCEPT ![h] = NoTransaction]
    BY DEF CommitStart
  <1>3. NoTransaction.run = NoRun
    BY DEF NoTransaction
  <1>4. \A g \in Handlers : starting'[g].run # NoRun => starting'[g] = starting[g]
    BY <1>2, <1>3 DEF ReportInv, Inv, TypeOK
  <1>5. CASE Target = tx.run
    <2>1. row'[Target].events = {}
      BY <1>1, <1>5 DEF Baseline
    <2>2. \A g \in Handlers : pending[g].run # Target
      BY <1>1, <1>5, StoreAssumption DEF ReportInv, Inv, SoundWrite
    <2>3. \A g \in Handlers : starting'[g].run # NoRun => Target \notin starting'[g].stopped
      BY <1>1, <1>4, <1>5 DEF ReportInv, Inv, SoundStart, ActiveRuns
    <2>4. Agree' /\ ~Has(row[Target])'
      BY <1>2, <2>1, <2>2, <2>3 DEF Agree, Has
    <2>5. Held' /\ (Unreported' <=> Unreported) /\ (Free' <=> Free) /\ capacity' = capacity
      BY <1>2 DEF ReportInv, Held, Unreported, Free, At, reports, Writing
    <2> QED
      BY <2>4, <2>5 DEF ReportInv
  <1>6. CASE Target # tx.run
    <2>1. Agree => (Has(row'[Target]) <=> Has(row[Target]))
      BY <1>1, <1>6, ReportsAssumption, StoreAssumption DEF Agree
    <2>2. Agree => Agree'
      BY <1>2, <1>4, <2>1 DEF Agree, Writing, Has
    <2>3. Held' /\ (Unreported' <=> Unreported) /\ (Free' <=> Free) /\ capacity' = capacity
      BY <1>2 DEF ReportInv, Held, Unreported, Free, At, reports, Writing
    <2> QED
      BY <2>1, <2>2, <2>3, ReportKept DEF Has
  <1> QED
    BY <1>5, <1>6

LEMMA SaveKeepsReport ==
    ASSUME ReportInv, Inv', NEW h \in Handlers, UNCHANGED reports, Save(h)
    PROVE  ReportInv'
  <1> DEFINE w == pending[h]
             refused == ViolatesIndex(w.run, w.next)
  <1>1. /\ w \in Write /\ w.run \in Runs /\ row \in [Runs -> Row] /\ Target \in Runs
        /\ acked \in [Runs -> SUBSET Events] /\ pending' = [pending EXCEPT ![h] = NoWrite]
        /\ UNCHANGED <<started, starting>>
    BY ReportsAssumption DEF Save, Write, ReportInv, Inv, TypeOK
  <1>2. /\ refused => UNCHANGED <<row, acked>>
        /\ ~refused => /\ row' = [row EXCEPT ![w.run] = w.next]
                       /\ acked' = [acked EXCEPT ![w.run] = @ \cup w.events]
    BY DEF Save
  <1>3. /\ \A g \in Handlers : g # h => pending'[g] = pending[g]
        /\ pending'[h].run = NoRun /\ pending'[h].events = {}
    BY <1>1 DEF NoWrite, ReportInv, Inv, TypeOK
  <1>4. \A g \in Handlers : Writing(g)' <=> Writing(g) /\ g # h
    BY <1>3 DEF Writing
  <1>5. Held' /\ (Free' <=> Free) /\ capacity' = capacity
    BY <1>3, <1>4 DEF ReportInv, Held, Free, At, reports
  <1>6. (Has(row[Target])' <=> Has(row[Target])) /\ Agree => Agree'
    BY <1>1, <1>3, <1>4, StoreAssumption DEF Agree
  <1> HIDE DEF refused
  <1>7. CASE ~Writing(h)
    <2>1. Agree => (Has(row[Target])' <=> Has(row[Target]))
      BY <1>1, <1>2, <1>7 DEF Agree, Has
    <2>2. Report \in acked'[Target] <=> Report \in acked[Target]
      BY <1>1, <1>2, <1>7 DEF Writing
    <2>3. Unreported' => Unreported
      BY <1>4, <2>2 DEF Unreported, At, reports
    <2> QED
      BY <1>5, <1>6, <2>1, <2>3, ReportKept
  <1>8. CASE Writing(h)
    <2>1. w.run = Target /\ Agree /\ ~Has(row[Target]) /\ ~Free
      BY <1>8 DEF ReportInv, Held, Unreported, Free, At
    <2>2. CASE refused
      <3>1. Agree' /\ ~Has(row[Target])'
        BY <1>2, <1>6, <2>1, <2>2 DEF Has
      <3> QED
        BY <1>5, <2>1, <3>1 DEF ReportInv
    <2>3. CASE ~refused
      <3>1. Report \in acked'[Target]
        BY <1>1, <1>2, <1>8, <2>1, <2>3 DEF Writing
      <3>2. \A g \in Handlers : ~Writing(g)'
        BY <1>4, <1>8 DEF ReportInv, Held, At
      <3>3. \A c \in Confirmers : ~At(c, "apply")'
        BY <1>8 DEF ReportInv, Held, At, reports
      <3>4. ~Unreported'
        BY <3>1, <3>2, <3>3 DEF Unreported
      <3> QED
        BY <1>5, <2>1, <3>4 DEF ReportInv
    <2> QED
      BY <2>2, <2>3
  <1> QED
    BY <1>7, <1>8

\* The steps of one confirmation.
LEMMA BeginConfirmKeepsReport ==
    ASSUME ReportInv, Inv', NEW c \in Confirmers, BeginConfirm(c)
    PROVE  ReportInv'
  <1>1. /\ Free /\ capacity = "pending" /\ UNCHANGED <<row, pending, starting, acked, capacity>>
        /\ \A d \in Confirmers : d # c => confirming'[d] = confirming[d]
        /\ confirming'[c] = [pc |-> IF Unapplied THEN "apply" ELSE "save", handler |-> {}]
        /\ confirming' \in [Confirmers -> [pc : {"idle", "apply", "applying", "save"},
                                          handler : SUBSET Handlers]]
    BY DEF BeginConfirm, CallHeld, Free, At, vars, ReportInv, Held
  <1>2. Agree /\ \A h \in Handlers : ~Writing(h)
    BY <1>1 DEF ReportInv, Held, Free, At
  <1>3. Agree' /\ \A h \in Handlers : ~Writing(h)'
    BY <1>1, <1>2 DEF Agree, Writing, Has
  <1>4. Held'
    BY <1>1, <1>3 DEF Held, Free, At
  <1>5. Unreported' => ~Has(row[Target])'
    BY <1>1, <1>3 DEF Unreported, Free, At, Unapplied, Has
  <1> QED
    BY <1>3, <1>4, <1>5 DEF ReportInv

LEMMA ApplyKeepsReport ==
    ASSUME ReportInv, Inv', NEW c \in Confirmers, NEW h \in Handlers,
           NEW available \in LimitedCapacities, ApplyReport(c, h, available)
    PROVE  ReportInv'
  <1>1. /\ At(c, "apply") /\ UNCHANGED <<row, started, starting, acked, capacity>>
        /\ Agree /\ ~Has(row[Target])
    BY DEF ApplyReport, Edit, ReportInv, Unreported
  <1>2. /\ \A g \in Handlers : ~Writing(g)
        /\ \A d \in Confirmers : d # c => At(d, "idle")
        /\ capacity # "confirmed"
    BY <1>1 DEF ReportInv, Held, At, Free
  <1>3. CASE ~(AcceptsEvents(Target) /\ AcceptsCapacity(Target, available))
    <2>1. confirming' = [confirming EXCEPT ![c] = Waiting] /\ UNCHANGED pending
      BY <1>3 DEF ApplyReport
    <2>2. Agree' /\ ~Has(row[Target])' /\ \A g \in Handlers : ~Writing(g)'
      BY <1>1, <1>2, <2>1 DEF Agree, Has, Writing
    <2>3. Held'
      BY <1>1, <1>2, <2>1, <2>2 DEF ReportInv, Held, At, Waiting, Free
    <2> QED
      BY <2>2, <2>3 DEF ReportInv
  <1>4. CASE AcceptsEvents(Target) /\ AcceptsCapacity(Target, available)
    <2>1. pending' # pending
      <3> DEFINE next == [row[Target] EXCEPT !.total = available, !.events = @ \cup {Report},
                             !.status = DeriveIncidentStatus(@, row[Target].services)]
      <3>1. Edit(h, Target, Answering(Target, next, Report))
        BY <1>4 DEF ApplyReport
      <3> HIDE DEF next
      <3>2. Idle(h) /\ pending'[h].run = Target
        BY <3>1 DEF Edit, Answering, ReportInv, Inv, TypeOK
      <3> QED
        BY <3>2, ReportsAssumption, StoreAssumption DEF Idle
    <2>2. /\ pending' = [pending EXCEPT ![h] = pending'[h]]
          /\ pending'[h].run = Target /\ pending'[h].events = {Report}
          /\ confirming' = [confirming EXCEPT ![c] = [pc |-> "applying", handler |-> {h}]]
      BY <2>1, ReportIsSound DEF ReportInv
    <2>3. \A g \in Handlers : g # h => pending'[g] = pending[g]
      BY <2>2 DEF ReportInv, Inv, TypeOK
    <2>4. \A g \in Handlers : Writing(g)' <=> g = h
      BY <1>2, <2>2, <2>3 DEF Writing
    <2>5. Agree' /\ ~Has(row[Target])'
      BY <1>1, <1>2, <2>3, <2>4 DEF Agree, Has
    <2>6. Held'
      BY <1>1, <1>2, <2>2, <2>4 DEF ReportInv, Held, At, Free
    <2> QED
      BY <2>5, <2>6 DEF ReportInv
  <1> QED
    BY <1>3, <1>4

LEMMA AppliedKeepsReport ==
    ASSUME ReportInv, Inv', NEW c \in Confirmers, Applied(c)
    PROVE  ReportInv'
  <1>1. /\ At(c, "applying") /\ UNCHANGED <<row, pending, starting, acked, capacity>>
        /\ \A h \in confirming[c].handler : pending[h] = NoWrite
        /\ confirming' = [confirming EXCEPT ![c] =
              IF Report \in acked[Target] THEN [pc |-> "save", handler |-> {}] ELSE Waiting]
    BY DEF Applied, vars
  <1>2. /\ \A d \in Confirmers : d # c => At(d, "idle")
        /\ capacity # "confirmed"
        /\ \A g \in Handlers : ~Writing(g)
    <2>1. \A d \in Confirmers : d # c => At(d, "idle")
      BY <1>1 DEF ReportInv, Held, At
    <2>2. capacity # "confirmed"
      BY <1>1 DEF ReportInv, Held, At, Free
    <2>3. ASSUME NEW g \in Handlers, Writing(g) PROVE FALSE
      <3>1. PICK d \in Confirmers : At(d, "applying") /\ confirming[d].handler = {g}
        BY <2>3 DEF ReportInv, Held
      <3>2. d = c
        BY <2>1, <3>1 DEF At
      <3> QED
        BY <1>1, <2>3, <3>1, <3>2 DEF NoWrite, Writing
    <2> QED
      BY <2>1, <2>2, <2>3
  <1>3. \A g \in Handlers : ~Writing(g)'
    BY <1>1, <1>2 DEF Writing
  <1>4. Held' /\ ~Unreported'
    BY <1>1, <1>2, <1>3 DEF ReportInv, Held, Unreported, At, Waiting, Free
  <1>5. Free' => Agree
    BY <1>1 DEF Free, At, ReportInv, Held, Unreported
  <1>6. Free' => Agree'
    BY <1>1, <1>5 DEF Agree, Has, Writing
  <1> QED
    BY <1>4, <1>6 DEF ReportInv

LEMMA SaveConfirmationKeepsReport ==
    ASSUME ReportInv, Inv', NEW c \in Confirmers, SaveConfirmation(c)
    PROVE  ReportInv'
  <1>1. /\ At(c, "save") /\ UNCHANGED <<row, pending, starting, acked>> /\ capacity' = "confirmed"
        /\ confirming' = [confirming EXCEPT ![c] = Waiting]
    BY DEF SaveConfirmation, vars
  <1>2. /\ \A d \in Confirmers : d # c => At(d, "idle")
        /\ \A g \in Handlers : ~Writing(g) /\ ~Writing(g)'
    BY <1>1 DEF ReportInv, Held, At, Writing
  <1>3. Held' /\ ~Unreported'
    BY <1>1, <1>2 DEF ReportInv, Held, Unreported, At, Waiting, Free
  <1> QED
    BY <1>1, <1>3 DEF ReportInv

LEMMA CrashKeepsReport ==
    ASSUME ReportInv, Inv', Crash
    PROVE  ReportInv'
  <1>1. /\ \A h \in Handlers : pending'[h] = NoWrite /\ starting'[h] = NoTransaction
        /\ \A c \in Confirmers : confirming'[c] = Waiting
        /\ confirming' = [c \in Confirmers |-> Waiting]
    BY DEF Crash
  <1>2. Agree' /\ \A h \in Handlers : ~Writing(h)'
    BY <1>1, ReportsAssumption, StoreAssumption DEF Agree, Writing, NoWrite, NoTransaction
  <1>3. Held' /\ ~Unreported'
    BY <1>1, <1>2 DEF Held, Unreported, At, Waiting, Free
  <1> QED
    BY <1>2, <1>3 DEF ReportInv

LEMMA ReportsStepKeepsReport ==
    ASSUME ReportInv, [ReportsNext]_allVars
    PROVE  ReportInv'
  <1>1. Inv'
    BY ReportsStepPreserves DEF ReportInv
  <1>2. ASSUME NEW h \in Handlers, StoreStep(h), UNCHANGED reports
        PROVE  ReportInv'
    BY <1>1, <1>2, EditKeepsReport, BeginKeepsReport, CommitKeepsReport, SaveKeepsReport
       DEF StoreStep
  <1>3. CASE UNCHANGED <<vars, confirming, capacity>>
    BY <1>1, <1>3 DEF vars, ReportInv, Held, Agree, Unreported, Free, At, Has, Writing
  <1>4. CASE Company \/ UNCHANGED allVars
    BY <1>3, <1>4 DEF allVars, reports, Company, Initiate, BeginReceive, CommitReceive, Observe,
       NotObserved, FindPending, ReadRun, CloseRequest, ClaimRequest, MinutePasses
  <1>5. CASE ReceiveReport
    BY <1>1, <1>5 DEF ReceiveReport, vars, ReportInv, Held, Agree, Unreported, Free, At, Has,
       Writing
  <1>6. ASSUME NEW c \in Confirmers, Engineer(c)
        PROVE  ReportInv'
    BY <1>1, <1>6, BeginConfirmKeepsReport, ApplyKeepsReport, AppliedKeepsReport,
       SaveConfirmationKeepsReport DEF Engineer
  <1>7. CASE Crash
    BY <1>1, <1>7, CrashKeepsReport
  <1> QED
    BY <1>2, <1>4, <1>5, <1>6, <1>7 DEF ReportsNext

\* A confirmed report is written over a row that does not have it, however often it is
\* confirmed and whenever the server crashes (IncomingCallsService.confirm).
THEOREM ReportAppliedOnceHolds == ReportsSpec => []ReportAppliedOnce
  <1>1. ReportsInit => ReportInv
    <2> SUFFICES ASSUME ReportsInit PROVE ReportInv
      OBVIOUS
    <2>1. Inv
      BY InitEstablishes DEF ReportsInit
    <2>2. /\ \A h \in Handlers : pending[h] = NoWrite /\ starting[h] = NoTransaction
          /\ confirming = [c \in Confirmers |-> Waiting]
          /\ capacity = "none"
      BY DEF ReportsInit, Init
    <2>3. Agree /\ \A h \in Handlers : ~Writing(h)
      BY <2>2, ReportsAssumption, StoreAssumption DEF Agree, Writing, NoWrite, NoTransaction
    <2> QED
      BY <2>1, <2>2, <2>3 DEF ReportInv, Held, Unreported, Free, At, Waiting
  <1>2. ReportInv => ReportAppliedOnce
    BY DEF ReportInv, Unreported, Writing, Has, ReportAppliedOnce
  <1> QED
    BY <1>1, <1>2, ReportsStepKeepsReport, PTL DEF ReportsSpec
=============================================================================

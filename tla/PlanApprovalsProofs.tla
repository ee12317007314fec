------------------------ MODULE PlanApprovalsProofs ------------------------
(***************************************************************************)
(* Proofs about PlanApprovals: a recovery starts only under an approval    *)
(* that an operator granted for its step in its version of the plan, an    *)
(* earlier version has an approval to decide on only if a late body put it *)
(* there, a completed step has a recovery that was started and reported    *)
(* success, and an attempt starts one recovery.  They hold for any number  *)
(* of steps, versions, operators, sweeps, handlers of finished calls, late *)
(* bodies and restarts.                                                    *)
(*                                                                         *)
(* Nothing in the rows themselves shows why: the code writes whole rows    *)
(* that it has read before, so the invariant follows what every process    *)
(* still holds in its hands (Fits) beside what the rows say (Rows).        *)
(***************************************************************************)
EXTENDS PlanApprovals, WellFoundedInduction, TLAPS

-----------------------------------------------------------------------------
(* The inductive invariant *)

Succeeded(s) ==
    \E n \in Attempts : Started(s, n) /\ <<n, "succeeded">> \in reported[s]

\* Where a process that works on one step of one version of the plan is.
AtStep == ToolStage \cup {"decide", "record", "apply", "insert-approval",
                          "finish-request", "expire-request", "progress", "read"}

\* What a process has read is what it needs for its next step.
Located(l) ==
    /\ l.pc \in AtStep => l.version \in Versions
    /\ l.pc \in AtStep \cup {"finish", "settle"} => \E s \in Steps : l.steps = {s}
    /\ l.pc \in ToolStage \cup {"progress", "finish", "settle"} => l.attempt \in Attempts
    /\ l.pc \in ToolStage => l.approval \in 0..MaximumVersions
    /\ l.pc = "decide" => l.decision \in Decisions
    /\ l.pc = "record" => l.decision \in Decisions \cup {"superseded", "expired"}
    /\ l.pc = "apply" => l.decision \in Decisions \cup {"expired"}
    /\ l.pc = "progress" => l.outcome \in Outcomes \cup {"running"}
    /\ l.pc \in {"finish", "settle"} => l.outcome \in Outcomes

\* Nobody holds a completed step, or is about to complete one, without a success,
\* or reports a success of what was not started.
Sourced(l) ==
    \A s \in Steps :
       /\ l.pc = "read" /\ l.steps = {s} /\ l.status = "completed" => Succeeded(s)
       /\ l.pc = "settle" /\ l.steps = {s} /\ l.outcome = "succeeded" => Succeeded(s)
       /\ l.pc \in {"progress", "finish"} /\ l.steps = {s} /\ l.outcome = "succeeded" =>
             Started(s, l.attempt)
       /\ l.row.steps[s].status = "completed" => Succeeded(s)
       /\ l.draft[s].status = "completed" => Succeeded(s)

\* A save whose plan may still follow the latest one knows, from the time it has listed
\* the pending approvals until it inserts the new version, of every pending one that
\* was not requested beside it.
Revises(l) ==
    /\ l.pc \in Revising => l.version \in 0..latest /\ l.version < MaximumVersions
    /\ l.pc \in {"list", "supersede", "retire", "retired"} => l.version \in Versions
    /\ l.pc = "supersede" /\ l.version = latest =>
          \A v \in Versions, s \in Steps :
             approval[v][s] = "pending" => <<v, s>> \in l.pending \cup overlapped
    /\ l.pc \in {"retire", "retired", "insert-plan"} /\ l.version = latest =>
          \A v \in Versions, s \in Steps :
             approval[v][s] = "pending" => <<v, s>> \in overlapped

\* Only a late body, or the cycle beside one, inserts an approval that a revision may
\* already have passed by.
Asks(p, l) ==
    l.pc = "insert-approval" => \A s \in Steps : l.steps = {s} =>
       \/ <<l.version, s>> \in overlapped
       \/ p = Cycle /\ l.version = latest /\ ~Overtaken

\* The attempt the cycle's tool is at is its own: nobody else has started it or
\* will; before the start an approval was seen.
Owns(l) ==
    l.pc \in ToolStage => \A s \in Steps : l.steps = {s} =>
       /\ call[s][l.attempt] # "none" /\ ~Started(s, l.attempt)
       /\ \A t \in late : ~(t.step = s /\ t.attempt = l.attempt)
       /\ l.pc = "start" => decided[l.version][s]["approved"] > 0

\* Only the cycle and the late bodies save plans and request approvals.
Placed(p, l) == l.pc \in Revising \cup {"insert-approval"} => p \in Bodies \cup {Cycle}

Fits(p, l) ==
    /\ Located(l) /\ Sourced(l) /\ Revises(l) /\ Asks(p, l) /\ Placed(p, l)
    /\ p = Cycle => Owns(l)

\* The same of a tool whose call has timed out.
LateTools ==
    /\ \A t \in late : call[t.step][t.attempt] # "none" /\ ~Started(t.step, t.attempt)
    /\ \A t, u \in late : t.step = u.step /\ t.attempt = u.attempt => t = u
    /\ \A t \in late : t.stage = "start" => decided[t.version][t.step]["approved"] > 0

Calls ==
    \A s \in Steps, n \in Attempts :
       /\ Started(s, n) => call[s][n] # "none"
       /\ call[s][n] = "succeeded" => Started(s, n) /\ <<n, "succeeded">> \in reported[s]

Granted ==
    \A v \in Versions, s \in Steps :
       approval[v][s] = "approved" => decided[v][s]["approved"] > 0

Rows ==
    /\ LateTools /\ Calls /\ Granted
    /\ RecoveryIsAuthorized
    /\ PendingIsOfLatestPlan
    /\ CompletedMeansSucceeded

Inv == TypeOK /\ Rows /\ \A p \in Processes : Fits(p, local[p])

-----------------------------------------------------------------------------
(* The operators of the model *)

LEMMA Constants ==
    /\ 0 \in 0..MaximumVersions /\ 0 \in 0..LastAttempt
    /\ Versions \subseteq 0..MaximumVersions /\ Attempts \subseteq 0..LastAttempt
    /\ 0..MaximumVersions \subseteq Keep..MaximumVersions
    /\ 0..LastAttempt \subseteq Keep..LastAttempt
    /\ Keep \in Keep..MaximumVersions /\ Keep \in Keep..LastAttempt
    /\ MaximumAttempts \in Attempts
    /\ Cycle \in Processes /\ Cycle \notin Bodies /\ Bodies \subseteq Processes
  BY ApprovalsAssumption DEF Versions, Attempts, LastAttempt, Keep, Processes

LEMMA NoPlanIsPlan ==
    NoPlan \in Plan /\ NoPlan.steps \in [Steps -> Step] /\ Absent \in Step /\ Proposed \in Step
  <1>1. Absent \in Step /\ Proposed \in Step
    BY Constants DEF Absent, Proposed, Step, StepStatus
  <1> QED
    BY <1>1 DEF NoPlan, Plan, PlanStatus

LEMMA IdleIsLocal == Idle \in Local
  BY Constants, NoPlanIsPlan DEF Idle, Local, CallStatus, ApprovalStatus, StepStatus

\* The step a process works on is the one it holds.
LEMMA OneStep ==
    ASSUME NEW p, NEW s \in Steps, local[p].steps = {s}
    PROVE  StepOf(p) = s
  BY DEF StepOf

\* Where neither a plan is saved, nor an approval inserted, nor a tool at work.
Elsewhere(l) == l.pc \notin Revising \cup ToolStage \cup {"insert-approval"}

LEMMA ElsewhereFits ==
    ASSUME NEW p, NEW l, Elsewhere(l)
    PROVE  /\ Located(l) /\ Sourced(l) => Fits(p, l)
           /\ Located(l)' /\ Sourced(l)' => Fits(p, l)'
  BY DEF Fits, Revises, Asks, Placed, Owns, Elsewhere, Revising, ToolStage

LEMMA UpdateIsLocal ==
    ASSUME NEW v \in 0..MaximumVersions, NEW s \in Steps, NEW status \in StepStatus,
           NEW approval_ \in Keep..MaximumVersions, NEW attempts_ \in Keep..LastAttempt
    PROVE  /\ Update(v, s, status, approval_, attempts_) \in Local
           /\ Update(v, s, status, approval_, attempts_).pc = "read"
           /\ Update(v, s, status, approval_, attempts_).version = v
           /\ Update(v, s, status, approval_, attempts_).steps = {s}
           /\ Update(v, s, status, approval_, attempts_).status = status
           /\ Update(v, s, status, approval_, attempts_).row = NoPlan
           /\ Update(v, s, status, approval_, attempts_).draft = NoPlan.steps
  BY Constants, NoPlanIsPlan DEF Update, Idle, Local, CallStatus, ApprovalStatus, StepStatus

\* An update is fit to be held by anybody if it completes its step with reason.
LEMMA UpdateFits ==
    ASSUME NEW p, NEW v \in Versions, NEW s \in Steps, NEW status \in StepStatus,
           NEW approval_ \in Keep..MaximumVersions, NEW attempts_ \in Keep..LastAttempt,
           status = "completed" => Succeeded(s)
    PROVE  /\ Update(v, s, status, approval_, attempts_) \in Local
           /\ Update(v, s, status, approval_, attempts_).pc = "read"
           /\ Fits(p, Update(v, s, status, approval_, attempts_))
  <1> DEFINE l == Update(v, s, status, approval_, attempts_)
  <1>1. /\ l \in Local /\ l.pc = "read" /\ l.version = v /\ l.steps = {s}
        /\ l.status = status /\ l.row = NoPlan /\ l.draft = NoPlan.steps
    BY UpdateIsLocal, Constants
  <1> HIDE DEF l
  <1>2. Located(l)
    BY <1>1 DEF Located, AtStep, ToolStage
  <1>3. Sourced(l)
    BY <1>1 DEF Sourced, NoPlan, Absent
  <1>4. Elsewhere(l)
    BY <1>1 DEF Elsewhere, Revising, ToolStage
  <1> QED
    BY <1>1, <1>2, <1>3, <1>4, ElsewhereFits DEF l

\* The same after the step that goes there.
LEMMA UpdateFitsNext ==
    ASSUME NEW p, NEW l \in Local, NEW s \in Steps, l.pc = "read", l.version \in Versions,
           l.steps = {s}, l.row = NoPlan, l.draft = NoPlan.steps,
           l.status = "completed" => Succeeded(s)'
    PROVE  Fits(p, l)'
  <1>1. Located(l)'
    BY DEF Located, AtStep, ToolStage, Versions
  <1>2. Sourced(l)'
    BY DEF Sourced, NoPlan, Absent
  <1>3. Elsewhere(l)
    BY DEF Elsewhere, Revising, ToolStage
  <1> QED
    BY <1>1, <1>2, <1>3, ElsewhereFits

LEMMA IdleFits ==
    ASSUME NEW p
    PROVE  /\ Idle \in Local /\ Idle.pc = "idle" /\ Idle.pc \notin Revising
           /\ Fits(p, Idle) /\ Fits(p, Idle)'
  <1>1. Idle.pc = "idle" /\ Idle.row = NoPlan /\ Idle.draft = NoPlan.steps
    BY DEF Idle
  <1>2. Located(Idle) /\ Sourced(Idle) /\ Located(Idle)' /\ Sourced(Idle)'
    BY <1>1 DEF Located, AtStep, ToolStage, Sourced, NoPlan, Absent
  <1>3. Elsewhere(Idle)
    BY <1>1 DEF Elsewhere, Revising, ToolStage
  <1> QED
    BY <1>1, <1>2, <1>3, IdleIsLocal, ElsewhereFits DEF Revising

-----------------------------------------------------------------------------
(* Frames *)

Grows == \A s \in Steps : executed[s] \subseteq executed'[s] /\ reported[s] \subseteq reported'[s]

LEMMA SuccessLasts ==
    ASSUME Grows, NEW s \in Steps
    PROVE  /\ Succeeded(s) => Succeeded(s)'
           /\ \A n : Started(s, n) => Started(s, n)'
  BY DEF Grows, Succeeded, Started, Versions, Attempts, LastAttempt

\* A late body neither begins to save a plan nor changes the version it follows.
Tame(p, next) ==
    p \in Bodies /\ next.pc \in Revising =>
       local[p].pc \in Revising /\ next.version = local[p].version

LEMMA TameOvertakes ==
    ASSUME Inv, NEW p \in Processes, NEW next, Go(p, next), Tame(p, next), latest' = latest
    PROVE  Overtaken' => Overtaken
  <1> SUFFICES ASSUME NEW b \in Bodies, local'[b].pc \in Revising, local'[b].version = latest
               PROVE  local[b].pc \in Revising /\ local[b].version = latest
    BY DEF Overtaken
  <1>1. local' = [local EXCEPT ![p] = next] /\ local \in [Processes -> Local]
    BY DEF Go, Inv, TypeOK
  <1>2. CASE b = p
    BY <1>1, <1>2 DEF Tame
  <1>3. CASE b # p
    BY <1>1, <1>3, Constants
  <1> QED
    BY <1>2, <1>3

\* What the others hold still fits when p takes a step: successes last, and a step
\* beside the cycle does not touch the cycle's attempt.
LEMMA RestFits ==
    ASSUME Inv, NEW p \in Processes, Grows,
           \A q \in Processes \ {p} : local'[q] = local[q],
           \A q \in Processes \ {p} : Revises(local[q])' /\ Asks(q, local[q])',
           p # Cycle => Owns(local[Cycle])'
    PROVE  \A q \in Processes \ {p} : Fits(q, local[q])'
  <1> SUFFICES ASSUME NEW q \in Processes, q # p PROVE Fits(q, local[q])'
    OBVIOUS
  <1>1. Fits(q, local[q]) /\ local'[q] = local[q]
    BY DEF Inv
  <1>2. Located(local[q])' /\ Placed(q, local[q])'
    BY <1>1 DEF Fits, Located, Placed, Decisions, Outcomes, Versions, Attempts
  <1>3. Sourced(local[q])'
    BY <1>1, SuccessLasts DEF Fits, Sourced
  <1>4. Revises(local[q])' /\ Asks(q, local[q])' /\ (q = Cycle => Owns(local[q])')
    OBVIOUS
  <1> QED
    BY <1>2, <1>3, <1>4 DEF Fits

\* Nor does a step that leaves the latest version as it is and asks for no approval
\* that nobody expects.
LEMMA OthersFit ==
    ASSUME Inv, NEW p \in Processes, NEW next, Go(p, next), Tame(p, next), Grows,
           latest' = latest, overlapped \subseteq overlapped',
           \A v \in Versions, s \in Steps : approval'[v][s] = "pending" =>
              approval[v][s] = "pending" \/ <<v, s>> \in overlapped',
           p # Cycle => Owns(local[Cycle])'
    PROVE  \A q \in Processes \ {p} : Fits(q, local[q])'
  <1>1. \A q \in Processes \ {p} : local'[q] = local[q]
    BY DEF Inv, TypeOK, Go
  <1>2. Overtaken' => Overtaken
    BY TameOvertakes
  <1>3. ASSUME NEW q \in Processes, q # p PROVE Revises(local[q])' /\ Asks(q, local[q])'
    <2>1. Fits(q, local[q]) /\ local'[q] = local[q]
      BY <1>1, <1>3 DEF Inv
    <2>2. Revises(local[q])'
      BY <2>1 DEF Fits, Revises, Versions
    <2>3. Asks(q, local[q])'
      BY <1>2, <2>1 DEF Fits, Asks
    <2> QED
      BY <2>2, <2>3
  <1> QED
    BY <1>1, <1>3, RestFits

LEMMA StepKeeps ==
    ASSUME Inv, NEW p \in Processes, NEW next, Go(p, next), next \in Local,
           TypeOK', Rows', Fits(p, next)', \A q \in Processes \ {p} : Fits(q, local[q])'
    PROVE  Inv'
  <1>1. local'[p] = next
    BY DEF Inv, TypeOK, Go
  <1>2. Fits(p, local[p])'
    BY <1>1
  <1> QED
    BY <1>2 DEF Inv

\* A step that only reads, up to the rows of the requests and the note that one of
\* them overlapped a save.
LEMMA NoteKeeps ==
    ASSUME Inv, NEW p \in Processes, NEW next, Go(p, next), next \in Local, Fits(p, next)',
           Tame(p, next), request' \in [Versions -> [Steps -> CallStatus]],
           overlapped \subseteq overlapped', overlapped' \subseteq Versions \X Steps,
           UNCHANGED <<latest, plan, approval, call, decided, executed, reported, late,
                       restarts>>
    PROVE  Inv'
  <1>2. TypeOK'
    BY DEF Inv, TypeOK, Go, Local
  <1>3. Rows'
    BY DEF Inv, Rows, LateTools, Calls, Granted, Succeeded, Started,
           RecoveryIsAuthorized, PendingIsOfLatestPlan, CompletedMeansSucceeded
  <1>6. p # Cycle => Owns(local[Cycle])'
    <2>1. p # Cycle => local'[Cycle] = local[Cycle]
      BY Constants DEF Inv, TypeOK, Go
    <2>2. Owns(local[Cycle])
      BY Constants DEF Inv, Fits
    <2> QED
      BY <2>1, <2>2 DEF Owns, Started
  <1>7. Grows
    BY DEF Grows
  <1>8. \A q \in Processes \ {p} : Fits(q, local[q])'
    BY <1>6, <1>7, OthersFit
  <1> QED
    BY <1>2, <1>3, <1>8, StepKeeps

\* What fits before a step that writes nothing but plans and calls' requests fits after it.
LEMMA FitsNext ==
    ASSUME Inv, NEW p \in Processes, NEW next, Go(p, next), Tame(p, next), Fits(p, next),
           UNCHANGED <<latest, approval, call, overlapped, decided, executed, reported, late>>
    PROVE  Fits(p, next)'
  <1>1. Located(next)' /\ Sourced(next)' /\ Placed(p, next)'
    BY DEF Fits, Located, Sourced, Placed, Succeeded, Started
  <1>2. Revises(next)' /\ (p = Cycle => Owns(next)')
    BY DEF Fits, Revises, Owns, Started
  <1>3. Overtaken' => Overtaken
    BY TameOvertakes
  <1>4. Asks(p, next)'
    BY <1>3 DEF Fits, Asks
  <1> QED
    BY <1>1, <1>2, <1>4 DEF Fits

\* A step that only reads, up to the rows of the requests.
LEMMA ReadKeeps ==
    ASSUME Inv, NEW p \in Processes, NEW next, Go(p, next), next \in Local, Fits(p, next),
           Tame(p, next), request' \in [Versions -> [Steps -> CallStatus]],
           UNCHANGED <<latest, plan, approval, call, history, late, restarts>>
    PROVE  Inv'
  <1>1. UNCHANGED <<latest, plan, approval, call, decided, executed, reported, overlapped,
                    late, restarts>>
    BY DEF history
  <1>2. overlapped' \subseteq Versions \X Steps
    BY <1>1 DEF Inv, TypeOK
  <1>3. Fits(p, next)'
    BY <1>1, FitsNext
  <1> QED
    BY <1>1, <1>2, <1>3, NoteKeeps

LEMMA HasMaximum ==
    ASSUME NEW m \in Nat, NEW S \in SUBSET (0..m), S # {}
    PROVE  \E v \in S : \A w \in S : w <= v
  <1> DEFINE Less == OpToRel(<, Nat)
             T == {m - v : v \in S}
  <1>0. \A v \in S : m - v \in Nat
    OBVIOUS
  <1>1. T \subseteq Nat /\ T # {}
    BY <1>0
  <1>2. \E x \in T : \A y \in T : ~(<<y, x>> \in Less)
    BY <1>1, NatLessThanWellFounded, WFMin, Zenon
  <1>3. \A x, y \in T : <<y, x>> \notin Less => x <= y
    BY <1>1 DEF OpToRel
  <1> HIDE DEF Less
  <1>4. PICK x \in T : \A y \in T : x <= y
    BY <1>2, <1>3
  <1>5. PICK v \in S : x = m - v
    BY <1>4
  <1>6. \A w \in S : w <= v
    <2> TAKE w \in S
    <2>1. m - w \in T
      OBVIOUS
    <2> HIDE DEF T
    <2> QED
      BY <2>1, <1>4, <1>5
  <1> QED
    BY <1>6

LEMMA ActiveIsVersion ==
    ASSUME ActiveVersion # 0
    PROVE  ActiveVersion \in Versions
  <1>1. ActiveVersions # {}
    BY DEF ActiveVersion
  <1>2. ActiveVersions \in SUBSET (0..MaximumVersions)
    BY DEF ActiveVersions, Versions
  <1>3. \E v \in ActiveVersions : \A w \in ActiveVersions : w <= v
    BY <1>1, <1>2, ApprovalsAssumption, HasMaximum
  <1> QED
    BY <1>1, <1>3 DEF ActiveVersion, ActiveVersions

LEMMA UpdateRange ==
    /\ \A v \in 0..MaximumVersions : v \in Keep..MaximumVersions
    /\ \A n \in 0..LastAttempt : n \in Keep..LastAttempt
    /\ \A v \in Versions : v \in Keep..MaximumVersions
    /\ \A n \in Attempts : n \in Keep..LastAttempt
  BY ApprovalsAssumption DEF Versions, Attempts, Keep, LastAttempt

-----------------------------------------------------------------------------
(* The steps of updateStep and markCompleted *)

LEMMA ReadStepKeeps ==
    ASSUME Inv, NEW p \in Processes, ReadStep(p)
    PROVE  Inv'
  <1> DEFINE l == local[p]
  <1>1. /\ l \in Local /\ l.pc = "read" /\ Fits(p, l)
        /\ request' \in [Versions -> [Steps -> CallStatus]]
    BY DEF ReadStep, Inv, TypeOK, At
  <1>2. PICK s \in Steps : l.steps = {s}
    BY <1>1 DEF Fits, Located, AtStep
  <1>3. l.version \in Versions /\ StepOf(p) = s
    BY <1>1, <1>2, OneStep DEF Fits, Located, AtStep
  <1> DEFINE read == plan[l.version]
             updated == [status   |-> l.status,
                         approval |-> Filled(l.approval, read.steps[s].approval),
                         attempts |-> Filled(l.attempts, read.steps[s].attempts)]
             row == [read EXCEPT !.steps[s] = updated]
             next == [Idle EXCEPT !.pc = "save", !.version = l.version, !.row = row]
  <1>4. read \in Plan
    BY <1>3 DEF Inv, TypeOK
  <1>5. updated \in Step
    <2>1. read.steps[s] \in Step
      BY <1>4 DEF Plan
    <2>2. Filled(l.approval, read.steps[s].approval) \in 0..MaximumVersions
      BY <1>1, <2>1, ApprovalsAssumption DEF Local, Filled, Keep, Step
    <2>3. Filled(l.attempts, read.steps[s].attempts) \in 0..LastAttempt
      BY <1>1, <2>1, ApprovalsAssumption DEF Local, Filled, Keep, Step, LastAttempt
    <2> QED
      BY <1>1, <2>2, <2>3 DEF Step, Local
  <1>6. Go(p, next)
    BY <1>3 DEF ReadStep
  <1>7. \A x \in Steps : read.steps[x].status = "completed" => Succeeded(x)
    BY <1>3 DEF Inv, Rows, CompletedMeansSucceeded, Succeeded
  <1>8. updated.status = "completed" => Succeeded(s)
    BY <1>1, <1>2 DEF Fits, Sourced
  <1> HIDE DEF read, updated
  <1>9. row \in Plan
    BY <1>4, <1>5 DEF Plan
  <1>10. \A x \in Steps : row.steps[x].status = "completed" => Succeeded(x)
    BY <1>4, <1>7, <1>8 DEF Plan
  <1> HIDE DEF row
  <1>11. next \in Local /\ next.pc = "save" /\ next.row = row /\ next.draft = NoPlan.steps
    <2>1. next \in Local
      BY <1>1, <1>3, <1>9, IdleIsLocal, Constants DEF Local
    <2> QED
      BY <2>1 DEF Idle
  <1> HIDE DEF next
  <1>12. Fits(p, next) /\ Tame(p, next)
    <2>1. Located(next) /\ Sourced(next)
      BY <1>10, <1>11 DEF Located, AtStep, ToolStage, Sourced, NoPlan, Absent
    <2>2. Elsewhere(next) /\ Tame(p, next)
      BY <1>11 DEF Elsewhere, Tame, Revising, ToolStage
    <2> QED
      BY <2>1, <2>2, ElsewhereFits
  <1> QED
    BY <1>1, <1>6, <1>11, <1>12, ReadKeeps DEF ReadStep

\* The rows of the plan change, and nothing else that the invariant relates.
LEMMA WritePlan ==
    ASSUME Inv, NEW p \in Processes, NEW next, Go(p, next), next \in Local, Fits(p, next),
           Tame(p, next), plan' \in [Versions -> Plan],
           \A v \in Versions, s \in Steps :
              plan'[v].steps[s].status = "completed" => Succeeded(s),
           UNCHANGED <<latest, approval, request, call, history, late, restarts>>
    PROVE  Inv'
  <1>1. UNCHANGED <<latest, approval, request, call, decided, executed, reported, overlapped,
                    late, restarts>>
    BY DEF history
  <1>2. TypeOK'
    BY <1>1 DEF Inv, TypeOK, Go, Local
  <1>3. CompletedMeansSucceeded'
    BY <1>1 DEF CompletedMeansSucceeded, Succeeded, Started
  <1>4. Rows'
    BY <1>1, <1>3 DEF Inv, Rows, LateTools, Calls, Granted, Succeeded, Started,
                      RecoveryIsAuthorized, PendingIsOfLatestPlan
  <1>5. Fits(p, next)'
    BY <1>1, FitsNext
  <1>7. p # Cycle => Owns(local[Cycle])'
    <2>1. p # Cycle => local'[Cycle] = local[Cycle]
      BY Constants DEF Inv, TypeOK, Go
    <2>2. Owns(local[Cycle])
      BY Constants DEF Inv, Fits
    <2> QED
      BY <1>1, <2>1, <2>2 DEF Owns, Started
  <1>8. Grows
    BY <1>1 DEF Grows
  <1>9. \A q \in Processes \ {p} : Fits(q, local[q])'
    BY <1>1, <1>7, <1>8, OthersFit
  <1> QED
    BY <1>2, <1>4, <1>5, <1>9, StepKeeps

LEMMA SavePlanKeeps ==
    ASSUME Inv, NEW p \in Processes, SavePlan(p)
    PROVE  Inv'
  <1> DEFINE row == local[p].row
  <1>1. row \in Plan /\ plan \in [Versions -> Plan]
    BY DEF Inv, TypeOK, Local
  <1>2. \A s \in Steps : row.steps[s].status = "completed" => Succeeded(s)
    BY DEF Inv, Fits, Sourced
  <1>3. plan' = [plan EXCEPT ![local[p].version] = row] /\ Go(p, Idle)
    BY DEF SavePlan
  <1> HIDE DEF row
  <1>4. plan' \in [Versions -> Plan]
    BY <1>1, <1>3
  <1>5. ASSUME NEW v \in Versions, NEW s \in Steps, plan'[v].steps[s].status = "completed"
        PROVE  Succeeded(s)
    <2>1. plan'[v] = row \/ plan'[v] = plan[v]
      BY <1>1, <1>3
    <2>2. plan[v].steps[s].status = "completed" => Succeeded(s)
      BY DEF Inv, Rows, CompletedMeansSucceeded, Succeeded
    <2> QED
      BY <1>2, <1>5, <2>1, <2>2
  <1>6. Tame(p, Idle)
    BY IdleFits DEF Tame
  <1> QED
    BY <1>3, <1>4, <1>5, <1>6, IdleFits, WritePlan DEF SavePlan

-----------------------------------------------------------------------------
(* The steps of the decisions *)

\* Where decide and the sweep go: to a step of theirs whose approval was pending.
LEMMA LocatedFits ==
    ASSUME NEW p, NEW l \in Local, Located(l), l.pc \in {"decide", "record", "apply"},
           l.row = NoPlan, l.draft = NoPlan.steps
    PROVE  Fits(p, l) /\ Tame(p, l)
  <1>1. Sourced(l)
    BY DEF Sourced, NoPlan, Absent
  <1>2. Elsewhere(l) /\ Tame(p, l)
    BY DEF Elsewhere, Tame, Revising, ToolStage
  <1> QED
    BY <1>1, <1>2, ElsewhereFits

LEMMA DecideKeeps ==
    ASSUME Inv, NEW o \in Operators, NEW v \in Versions, NEW s \in Steps,
           NEW d \in Decisions, Decide(o, v, s, d)
    PROVE  Inv'
  <1> DEFINE next == [Idle EXCEPT !.pc = "decide", !.version = v, !.steps = {s},
                                  !.decision = d]
  <1>1. /\ Go(o, next) /\ o \in Processes
        /\ request' \in [Versions -> [Steps -> CallStatus]]
    BY DEF Decide, Inv, TypeOK, Processes
  <1>2. /\ next \in Local /\ next.pc = "decide" /\ next.version = v /\ next.steps = {s}
        /\ next.decision = d /\ next.row = NoPlan /\ next.draft = NoPlan.steps
    BY Constants, IdleIsLocal DEF Idle, Local, ApprovalStatus, Decisions
  <1> HIDE DEF next
  <1>3. Fits(o, next) /\ Tame(o, next)
    BY <1>2, LocatedFits DEF Located, AtStep, ToolStage
  <1> QED
    BY <1>1, <1>2, <1>3, ReadKeeps DEF Decide

LEMMA ExpireKeeps ==
    ASSUME Inv, NEW t \in Ticks, NEW v \in Versions, NEW s \in Steps, Expire(t, v, s)
    PROVE  Inv'
  <1> DEFINE next == [Idle EXCEPT !.pc = "record", !.version = v, !.steps = {s},
                                  !.decision = "expired"]
  <1>1. /\ Go(t, next) /\ t \in Processes
        /\ request' \in [Versions -> [Steps -> CallStatus]]
    BY DEF Expire, Inv, TypeOK, Processes
  <1>2. /\ next \in Local /\ next.pc = "record" /\ next.version = v /\ next.steps = {s}
        /\ next.decision = "expired" /\ next.row = NoPlan /\ next.draft = NoPlan.steps
    BY Constants, IdleIsLocal DEF Idle, Local, ApprovalStatus
  <1> HIDE DEF next
  <1>3. Fits(t, next) /\ Tame(t, next)
    BY <1>2, LocatedFits DEF Located, AtStep, ToolStage
  <1> QED
    BY <1>1, <1>2, <1>3, ReadKeeps DEF Expire

LEMMA CheckActivePlanKeeps ==
    ASSUME Inv, NEW o \in Operators, CheckActivePlan(o)
    PROVE  Inv'
  <1> DEFINE l == local[o]
             next == [l EXCEPT !.pc = "record",
                               !.decision = IF ActiveVersion = l.version THEN @ ELSE "superseded"]
  <1>1. /\ o \in Processes /\ l \in Local /\ l.pc = "decide" /\ Fits(o, l)
        /\ request' \in [Versions -> [Steps -> CallStatus]]
        /\ local \in [Processes -> Local]
    BY DEF CheckActivePlan, Inv, TypeOK, Processes, At
  <1>2. Go(o, next)
    BY <1>1 DEF CheckActivePlan, Go
  <1>3. /\ next \in Local /\ next.pc = "record" /\ next.version = l.version
        /\ next.steps = l.steps /\ next.row = l.row /\ next.draft = l.draft
        /\ next.decision \in {l.decision, "superseded"}
    <2>1. "record" # l.pc /\ "superseded" \in ApprovalStatus
      BY <1>1 DEF ApprovalStatus
    <2>2. next \in Local
      BY <1>1, <2>1 DEF Local
    <2>3. /\ next.pc = "record" /\ next.version = l.version
          /\ next.steps = l.steps /\ next.row = l.row /\ next.draft = l.draft
          /\ next.decision = IF ActiveVersion = l.version THEN l.decision ELSE "superseded"
      BY <1>1 DEF Local
    <2> QED
      BY <2>2, <2>3
  <1> HIDE DEF next
  <1>4. Fits(o, next)
    <2>1. Located(next)
      BY <1>1, <1>3 DEF Fits, Located, AtStep, ToolStage
    <2>2. Sourced(next)
      BY <1>1, <1>3 DEF Fits, Sourced
    <2>3. Elsewhere(next)
      BY <1>3 DEF Elsewhere, Revising, ToolStage
    <2> QED
      BY <2>1, <2>2, <2>3, ElsewhereFits
  <1>5. Tame(o, next)
    BY <1>3 DEF Tame, Revising
  <1> QED
    BY <1>1, <1>2, <1>3, <1>4, <1>5, ReadKeeps DEF CheckActivePlan

\* An approval is decided or set aside, and none is asked for.
LEMMA SettleApproval ==
    ASSUME Inv, NEW p \in Processes, NEW next, Go(p, next), next \in Local, Fits(p, next)',
           Tame(p, next), approval' \in [Versions -> [Steps -> ApprovalStatus]],
           decided' \in [Versions -> [Steps -> [Decisions -> Nat]]],
           \A v \in Versions, s \in Steps :
              /\ approval'[v][s] = "pending" => approval[v][s] = "pending"
              /\ decided[v][s]["approved"] > 0 => decided'[v][s]["approved"] > 0,
           Granted',
           UNCHANGED <<latest, plan, request, call, overlapped, executed, reported, late, restarts>>
    PROVE  Inv'
  <1>1. TypeOK'
    BY DEF Inv, TypeOK, Go, Local
  <1>2. RecoveryIsAuthorized'
    <2> SUFFICES ASSUME NEW s \in Steps, NEW e \in executed[s]
                 PROVE  decided'[e[1]][s]["approved"] > 0
      BY DEF RecoveryIsAuthorized
    <2>1. e[1] \in Versions
      BY DEF Inv, TypeOK
    <2> QED
      BY <2>1 DEF Inv, Rows, RecoveryIsAuthorized
  <1>3. PendingIsOfLatestPlan'
    BY DEF Inv, Rows, PendingIsOfLatestPlan
  <1>4. LateTools'
    <2>1. \A t \in late : t.version \in Versions /\ t.step \in Steps
      BY DEF Inv, TypeOK, LateTool
    <2> QED
      BY <2>1 DEF Inv, Rows, LateTools, Started
  <1>5. Rows'
    BY <1>2, <1>3, <1>4 DEF Inv, Rows, Calls, Succeeded, Started,
                            CompletedMeansSucceeded
  <1>6. \A q \in Processes \ {p} : local'[q] = local[q]
    BY DEF Inv, TypeOK, Go
  <1>7. p # Cycle => Owns(local[Cycle])'
    <2> SUFFICES ASSUME p # Cycle PROVE Owns(local[Cycle])'
      OBVIOUS
    <2>1. local'[Cycle] = local[Cycle]
      BY <1>6, Constants
    <2>2. Owns(local[Cycle]) /\ Located(local[Cycle])
      BY Constants DEF Inv, Fits
    <2>3. local[Cycle].pc \in ToolStage => local[Cycle].version \in Versions
      BY <2>2 DEF Located, AtStep
    <2> QED
      BY <2>1, <2>2, <2>3 DEF Owns, Started
  <1>8. Grows
    BY DEF Grows
  <1>9. \A q \in Processes \ {p} : Fits(q, local[q])'
    BY <1>7, <1>8, OthersFit
  <1> QED
    BY <1>1, <1>5, <1>9, StepKeeps

LEMMA RecordDecisionKeeps ==
    ASSUME Inv, NEW p \in Processes, RecordDecision(p)
    PROVE  Inv'
  <1>1. PICK l \in Local : /\ l = local[p] /\ l.pc = "record" /\ Located(l) /\ Sourced(l)
                           /\ local \in [Processes -> Local]
                           /\ approval \in [Versions -> [Steps -> ApprovalStatus]]
                           /\ decided \in [Versions -> [Steps -> [Decisions -> Nat]]]
    BY DEF RecordDecision, Inv, TypeOK, At, Fits
  <1>2. PICK s \in Steps : l.steps = {s}
    BY <1>1 DEF Located, AtStep
  <1>3. /\ l.version \in Versions /\ StepOf(p) = s
        /\ l.decision \in Decisions \cup {"superseded", "expired"}
    BY <1>1, <1>2, OneStep DEF Located, AtStep
  <1>4. /\ Go(p, IF l.decision = "superseded" THEN Idle ELSE [l EXCEPT !.pc = "apply"])
        /\ approval' = [approval EXCEPT ![l.version][s] = l.decision]
        /\ IF l.decision \in Decisions
           THEN decided' = [decided EXCEPT ![l.version][s][l.decision] = @ + 1]
           ELSE decided' = decided
        /\ UNCHANGED <<latest, plan, request, call, overlapped, executed, reported, late, restarts>>
    BY <1>1, <1>3 DEF RecordDecision, Invalidated
  <1>5. PICK next \in Local :
           /\ Go(p, next)
           /\ \/ next = Idle
              \/ /\ l.decision \in Decisions \cup {"expired"}
                 /\ next.pc = "apply" /\ next.version = l.version /\ next.steps = l.steps
                 /\ next.row = l.row /\ next.draft = l.draft /\ next.decision = l.decision
    <2>1. CASE l.decision = "superseded"
      BY <1>4, <2>1, IdleIsLocal
    <2>2. CASE l.decision # "superseded"
      <3> DEFINE moved == [l EXCEPT !.pc = "apply"]
      <3>1. /\ moved \in Local
            /\ moved.pc = "apply" /\ moved.version = l.version /\ moved.steps = l.steps
            /\ moved.row = l.row /\ moved.draft = l.draft /\ moved.decision = l.decision
        BY DEF Local
      <3>2. Go(p, moved)
        BY <1>4, <2>2
      <3> QED
        BY <1>3, <2>2, <3>1, <3>2
    <2> QED
      BY <2>1, <2>2
  <1>6. Fits(p, next)'
    <2>1. CASE next = Idle
      BY <2>1, IdleFits
    <2>2. CASE next # Idle
      <3>1. Located(next)'
        BY <1>2, <1>3, <1>5, <2>2 DEF Located, AtStep, ToolStage, Decisions, Versions
      <3>2. Sourced(next)'
        BY <1>1, <1>4, <1>5, <2>2 DEF Sourced, Succeeded, Started
      <3>3. Elsewhere(next)
        BY <1>5, <2>2 DEF Elsewhere, Revising, ToolStage
      <3> QED
        BY <3>1, <3>2, <3>3, ElsewhereFits
    <2> QED
      BY <2>1, <2>2
  <1>7. approval' \in [Versions -> [Steps -> ApprovalStatus]]
    BY <1>1, <1>3, <1>4 DEF ApprovalStatus, Decisions
  <1>8. /\ decided' \in [Versions -> [Steps -> [Decisions -> Nat]]]
        /\ \A v \in Versions, x \in Steps :
              decided[v][x]["approved"] > 0 => decided'[v][x]["approved"] > 0
        /\ l.decision = "approved" => decided'[l.version][s]["approved"] > 0
    <2>1. CASE l.decision \notin Decisions
      BY <1>1, <1>4, <2>1 DEF Decisions
    <2>2. CASE l.decision \in Decisions
      <3> DEFINE counts == [decided[l.version][s] EXCEPT ![l.decision] = @ + 1]
      <3>1. /\ decided[l.version][s] \in [Decisions -> Nat] /\ "approved" \in Decisions
            /\ decided[l.version] \in [Steps -> [Decisions -> Nat]]
        BY <1>1, <1>3 DEF Decisions
      <3>2. /\ counts \in [Decisions -> Nat]
            /\ counts["approved"] >= decided[l.version][s]["approved"]
            /\ l.decision = "approved" => counts["approved"] > 0
        BY <2>2, <3>1
      <3>3. decided' = [decided EXCEPT ![l.version] =
                          [decided[l.version] EXCEPT ![s] = counts]]
        BY <1>4, <2>2
      <3> HIDE DEF counts
      <3>4. decided' \in [Versions -> [Steps -> [Decisions -> Nat]]]
        BY <1>1, <1>3, <3>1, <3>2, <3>3
      <3>5. /\ \A v \in Versions, x \in Steps :
                  v # l.version \/ x # s => decided'[v][x] = decided[v][x]
            /\ decided'[l.version][s] = counts
        BY <1>1, <1>3, <3>1, <3>3
      <3>6. \A v \in Versions, x \in Steps : decided[v][x]["approved"] \in Nat
        BY <1>1, <3>1
      <3>7. counts["approved"] \in Nat
        BY <3>1, <3>2
      <3>8. ASSUME NEW v \in Versions, NEW x \in Steps, decided[v][x]["approved"] > 0
            PROVE  decided'[v][x]["approved"] > 0
        <4>1. CASE v = l.version /\ x = s
          BY <3>2, <3>5, <3>6, <3>7, <3>8, <4>1
        <4>2. CASE v # l.version \/ x # s
          BY <3>5, <3>8, <4>2
        <4> QED
          BY <4>1, <4>2
      <3> QED
        BY <3>2, <3>4, <3>5, <3>8
    <2> QED
      BY <2>1, <2>2
  <1>9. \A v \in Versions, x \in Steps :
           approval'[v][x] = approval[v][x]
             \/ (v = l.version /\ x = s /\ approval'[v][x] = l.decision)
    BY <1>1, <1>3, <1>4
  <1>10. \A v \in Versions, x \in Steps :
            approval'[v][x] = "pending" => approval[v][x] = "pending"
    BY <1>3, <1>9 DEF Decisions
  <1>11. Granted'
    <2> SUFFICES ASSUME NEW v \in Versions, NEW x \in Steps, approval'[v][x] = "approved"
                 PROVE  decided'[v][x]["approved"] > 0
      BY DEF Granted
    <2>1. CASE approval'[v][x] = approval[v][x]
      <3>1. decided[v][x]["approved"] > 0
        BY <2>1 DEF Inv, Rows, Granted
      <3> QED
        BY <1>8, <3>1
    <2>2. CASE v = l.version /\ x = s /\ approval'[v][x] = l.decision
      BY <1>8, <2>2
    <2> QED
      BY <1>9, <2>1, <2>2
  <1>12. UNCHANGED <<latest, plan, request, call, overlapped, executed, reported, late, restarts>>
    BY <1>4
  <1>13. /\ decided' \in [Versions -> [Steps -> [Decisions -> Nat]]]
         /\ \A v \in Versions, x \in Steps :
               /\ approval'[v][x] = "pending" => approval[v][x] = "pending"
               /\ decided[v][x]["approved"] > 0 => decided'[v][x]["approved"] > 0
    BY <1>8, <1>10
  <1>14. Tame(p, next)
    BY <1>5, IdleFits DEF Tame, Revising
  <1> QED
    BY <1>5, <1>6, <1>7, <1>11, <1>12, <1>13, <1>14, SettleApproval

LEMMA ApplyDecisionKeeps ==
    ASSUME Inv, NEW p \in Processes, ApplyDecision(p)
    PROVE  Inv'
  <1> DEFINE l == local[p]
  <1>1. /\ l \in Local /\ l.pc = "apply" /\ Fits(p, l)
        /\ request' \in [Versions -> [Steps -> CallStatus]]
    BY DEF ApplyDecision, Inv, TypeOK, At
  <1>2. PICK s \in Steps : l.steps = {s}
    BY <1>1 DEF Fits, Located, AtStep
  <1>3. /\ l.version \in Versions /\ StepOf(p) = s
        /\ l.decision \in Decisions \cup {"expired"}
    BY <1>1, <1>2, OneStep DEF Fits, Located, AtStep
  <1>4. PICK next : /\ Go(p, next)
                    /\ \/ next = Update(l.version, s, "proposed", 0, Keep)
                       \/ /\ l.decision \in Decisions
                          /\ next = Update(l.version, s, l.decision, Keep, Keep)
                       \/ next = Idle
    BY <1>3 DEF ApplyDecision
  <1>5. next \in Local /\ Fits(p, next) /\ next.pc \notin Revising
    <2>1. ASSUME NEW status \in {"proposed", "approved", "rejected"},
                 NEW approval_ \in {0, Keep}
          PROVE  /\ Update(l.version, s, status, approval_, Keep) \in Local
                 /\ Fits(p, Update(l.version, s, status, approval_, Keep))
                 /\ Update(l.version, s, status, approval_, Keep).pc = "read"
      <3>1. /\ status \in StepStatus /\ status # "completed"
            /\ approval_ \in Keep..MaximumVersions /\ Keep \in Keep..LastAttempt
        BY Constants DEF StepStatus
      <3> QED
        BY <1>3, <3>1, UpdateFits
    <2> QED
      BY <1>4, <2>1, IdleFits DEF Decisions, Revising
  <1>6. Tame(p, next)
    BY <1>5 DEF Tame
  <1> QED
    BY <1>1, <1>4, <1>5, <1>6, ReadKeeps DEF ApplyDecision

-----------------------------------------------------------------------------
(* The steps that save a plan, of the cycle or of a late body *)

\* What the cycle holds.
LEMMA AtCycle ==
    ASSUME Inv
    PROVE  /\ local[Cycle] \in Local /\ local \in [Processes -> Local]
           /\ Fits(Cycle, local[Cycle])
           /\ Located(local[Cycle]) /\ Sourced(local[Cycle])
           /\ Revises(local[Cycle]) /\ Owns(local[Cycle])
           /\ request \in [Versions -> [Steps -> CallStatus]]
  BY Constants DEF Inv, TypeOK, Fits

\* What any process holds, and that an entry of its own changes by Go.
LEMMA AtProcess ==
    ASSUME Inv, NEW p \in Processes
    PROVE  /\ local[p] \in Local /\ local \in [Processes -> Local]
           /\ Located(local[p]) /\ Sourced(local[p]) /\ Revises(local[p]) /\ Asks(p, local[p])
           /\ Placed(p, local[p]) /\ (p = Cycle => Owns(local[p]))
           /\ request \in [Versions -> [Steps -> CallStatus]]
           /\ latest \in 0..MaximumVersions /\ overlapped \subseteq Versions \X Steps
  BY DEF Inv, TypeOK, Fits

LEMMA AcceptPlanKeeps ==
    ASSUME Inv, AcceptPlan
    PROVE  Inv'
  <1>1. PICK draft \in [Steps -> Step] :
           /\ \A s \in Steps : draft[s] \in DraftSteps(s)
           /\ Go(Cycle, [Idle EXCEPT !.pc = "check-previous", !.version = latest,
                                     !.draft = draft])
    BY DEF AcceptPlan
  <1>2. latest \in 0..MaximumVersions /\ latest < MaximumVersions
    BY DEF AcceptPlan, Inv, TypeOK
  <1>3. PICK next \in Local :
           /\ Go(Cycle, next) /\ next.pc = "check-previous" /\ next.version = latest
           /\ next.row = NoPlan /\ next.draft = draft
    <2> DEFINE moved == [Idle EXCEPT !.pc = "check-previous", !.version = latest,
                                     !.draft = draft]
    <2>1. moved \in Local
      BY <1>2, IdleIsLocal DEF Local, Revising
    <2>2. /\ moved.pc = "check-previous" /\ moved.version = latest
          /\ moved.row = NoPlan /\ moved.draft = draft
      BY DEF Idle
    <2> QED
      BY <1>1, <2>1, <2>2
  <1>4. \A s \in Steps : draft[s].status = "completed" => Succeeded(s)
    <2> SUFFICES ASSUME NEW s \in Steps, draft[s].status = "completed"
                 PROVE  Succeeded(s)
      OBVIOUS
    <2>1. latest \in Versions /\ draft[s] = plan[latest].steps[s]
      BY <1>1, <1>2, ApprovalsAssumption DEF DraftSteps, Absent, Proposed, Versions
    <2> QED
      BY <2>1 DEF Inv, Rows, CompletedMeansSucceeded, Succeeded
  <1>5. Located(next) /\ Sourced(next) /\ Asks(Cycle, next) /\ Owns(next) /\ Placed(Cycle, next)
    BY <1>3, <1>4 DEF Located, Sourced, Asks, Owns, Placed, AtStep, ToolStage, NoPlan, Absent
  <1>6. Revises(next)
    BY <1>2, <1>3 DEF Revises, Revising
  <1>7. Tame(Cycle, next)
    BY Constants DEF Tame
  <1> QED
    BY <1>3, <1>5, <1>6, <1>7, AtCycle, Constants, ReadKeeps DEF AcceptPlan, Fits

\* A step of a save goes to the next one with the version and the draft it had.
LEMMA SaveGoesOn ==
    ASSUME NEW p, NEW l, NEW next, l.pc \in Revising, next.pc \in Revising,
           next.version = l.version, local[p] = l, Placed(p, l)
    PROVE  /\ Located(next)
           /\ Asks(p, next) /\ Placed(p, next) /\ Owns(next) /\ Tame(p, next)
  BY DEF Located, Asks, Placed, Owns, Tame, AtStep, ToolStage, Revising

LEMMA CheckPreviousKeeps ==
    ASSUME Inv, NEW p \in Processes, CheckPrevious(p)
    PROVE  Inv'
  <1> DEFINE l == local[p]
  <1>1. l.pc = "check-previous"
    BY DEF CheckPrevious, At
  <1>2. CASE l.version # latest
    <2>1. Go(p, Idle) /\ Tame(p, Idle)
      BY <1>2, IdleFits DEF CheckPrevious, Tame
    <2> QED
      BY <2>1, IdleFits, AtProcess, ReadKeeps DEF CheckPrevious
  <1>3. CASE l.version = latest
    <2>1. PICK next \in Local :
             /\ Go(p, next) /\ next.version = l.version
             /\ next.pc = IF latest = 0 THEN "insert-plan" ELSE "list"
             /\ next.row = l.row /\ next.draft = l.draft
      <3> DEFINE pc == IF latest = 0 THEN "insert-plan" ELSE "list"
                 moved == [l EXCEPT !.pc = pc]
      <3>2. Go(p, moved) /\ pc \in Revising /\ l \in Local
        BY <1>3, AtProcess DEF CheckPrevious, Revising
      <3>3. pc = IF latest = 0 THEN "insert-plan" ELSE "list"
        OBVIOUS
      <3> HIDE DEF pc
      <3>1. /\ moved \in Local /\ moved.version = l.version
            /\ moved.pc = IF latest = 0 THEN "insert-plan" ELSE "list"
            /\ moved.row = l.row /\ moved.draft = l.draft
        BY <3>2, <3>3 DEF Local
      <3> QED
        BY <3>1, <3>2
    <2>2. /\ Located(next) /\ Asks(p, next) /\ Placed(p, next) /\ Owns(next) /\ Tame(p, next)
      BY <1>1, <2>1, AtProcess, SaveGoesOn DEF Revising
    <2>3. Sourced(next)
      BY <2>1, AtProcess DEF Sourced
    <2>4. Revises(next)
      <3>1. latest = 0 => \A v \in Versions, s \in Steps :
                             approval[v][s] = "pending" => <<v, s>> \in overlapped
        BY ApprovalsAssumption DEF Inv, Rows, PendingIsOfLatestPlan, Versions
      <3>2. latest # 0 => latest \in Versions
        BY AtProcess, ApprovalsAssumption DEF Versions
      <3> QED
        BY <1>1, <1>3, <2>1, <3>1, <3>2, AtProcess DEF Revises, Revising
    <2> QED
      BY <2>1, <2>2, <2>3, <2>4, AtProcess, ReadKeeps DEF CheckPrevious, Fits
  <1> QED
    BY <1>2, <1>3

LEMMA ListPendingKeeps ==
    ASSUME Inv, NEW p \in Processes, ListPending(p)
    PROVE  Inv'
  <1> DEFINE l == local[p]
             listed == {a \in Versions \X Steps : approval[a[1]][a[2]] = "pending"}
  <1>1. l.pc = "list"
    BY DEF ListPending, At
  <1>2. PICK next \in Local :
           /\ Go(p, next)
           /\ next.pc = "supersede" /\ next.version = l.version /\ next.row = l.row
           /\ next.draft = l.draft /\ next.pending = listed
    <2> DEFINE moved == [l EXCEPT !.pc = "supersede", !.pending = listed]
    <2>2. Go(p, moved) /\ listed \in SUBSET (Versions \X Steps) /\ l \in Local
      BY AtProcess DEF ListPending, Go
    <2> HIDE DEF listed
    <2>1. /\ moved \in Local
          /\ moved.pc = "supersede" /\ moved.version = l.version /\ moved.row = l.row
          /\ moved.draft = l.draft /\ moved.pending = listed
      BY <2>2 DEF Local, Revising
    <2> QED
      BY <2>1, <2>2
  <1>3. Located(next) /\ Asks(p, next) /\ Placed(p, next) /\ Owns(next) /\ Tame(p, next)
    BY <1>1, <1>2, AtProcess, SaveGoesOn DEF Revising
  <1>4. Sourced(next)
    BY <1>2, AtProcess DEF Sourced
  <1>5. Revises(next)
    BY <1>1, <1>2, AtProcess DEF Revises, Revising
  <1> QED
    BY <1>2, <1>3, <1>4, <1>5, AtProcess, ReadKeeps DEF ListPending, Fits

LEMMA SupersedePendingKeeps ==
    ASSUME Inv, NEW p \in Processes, SupersedePending(p)
    PROVE  Inv'
  <1> DEFINE l == local[p]
  <1>1. l.pc = "supersede" /\ l \in Local
    BY AtProcess DEF SupersedePending, At
  <1>2. ASSUME NEW a \in l.pending, approval' = Invalidated(a[1], a[2], "superseded"),
               local' = [local EXCEPT ![p].pending = @ \ {a}]
        PROVE  Inv'
    <2>1. a \in Versions \X Steps
      BY <1>1 DEF Local
    <2>2. PICK next \in Local :
             /\ Go(p, next)
             /\ next.pc = l.pc /\ next.version = l.version /\ next.row = l.row
             /\ next.draft = l.draft /\ next.pending = l.pending \ {a}
      <3> DEFINE moved == [l EXCEPT !.pending = @ \ {a}]
      <3>1. /\ moved \in Local
            /\ moved.pc = l.pc /\ moved.version = l.version /\ moved.row = l.row
            /\ moved.draft = l.draft /\ moved.pending = l.pending \ {a}
        BY <1>1 DEF Local
      <3>2. Go(p, moved)
        BY <1>2, AtProcess DEF Go
      <3> QED
        BY <3>1, <3>2
    <2>3. UNCHANGED <<latest, plan, request, call, overlapped, decided, executed, reported,
                      late, restarts>>
      BY DEF SupersedePending, history
    <2>4. /\ approval \in [Versions -> [Steps -> ApprovalStatus]]
          /\ decided \in [Versions -> [Steps -> [Decisions -> Nat]]]
      BY DEF Inv, TypeOK
    <2>5. approval' = [approval EXCEPT ![a[1]][a[2]] = "superseded"]
      BY <1>2 DEF Invalidated
    <2>6. approval' \in [Versions -> [Steps -> ApprovalStatus]]
      BY <2>1, <2>4, <2>5 DEF ApprovalStatus
    <2>7. \A v \in Versions, s \in Steps :
             \/ approval'[v][s] = approval[v][s] /\ <<v, s>> # a
             \/ approval'[v][s] = "superseded"
      BY <2>1, <2>4, <2>5
    <2>8. Granted'
      BY <2>3, <2>7 DEF Inv, Rows, Granted
    <2>9. Tame(p, next) /\ Asks(p, next)' /\ Placed(p, next)' /\ Owns(next)' /\ Located(next)'
      <3>1. next.pc = "supersede" /\ Placed(p, l)
        BY <1>1, <2>2, AtProcess
      <3> QED
        BY <1>1, <2>2, <3>1 DEF Tame, Asks, Placed, Owns, Located, AtStep, ToolStage, Revising
    <2>10. Sourced(next)'
      BY <1>1, <2>2, <2>3, AtProcess DEF Sourced, Succeeded, Started
    <2>11. Revises(next)'
      BY <1>1, <2>2, <2>3, <2>7, AtProcess DEF Revises, Revising, Versions
    <2> QED
      BY <2>2, <2>3, <2>4, <2>6, <2>7, <2>8, <2>9, <2>10, <2>11, SettleApproval DEF Fits
  <1>3. ASSUME l.pending = {}, local' = [local EXCEPT ![p].pc = "retire"],
               UNCHANGED approval
        PROVE  Inv'
    <2>1. PICK next \in Local :
             /\ Go(p, next)
             /\ next.pc = "retire" /\ next.version = l.version /\ next.row = l.row
             /\ next.draft = l.draft
      <3> DEFINE moved == [l EXCEPT !.pc = "retire"]
      <3>1. /\ moved \in Local
            /\ moved.pc = "retire" /\ moved.version = l.version /\ moved.row = l.row
            /\ moved.draft = l.draft
        BY <1>1 DEF Local, Revising
      <3>2. Go(p, moved)
        BY <1>3, AtProcess DEF Go
      <3> QED
        BY <3>1, <3>2
    <2>2. Located(next) /\ Asks(p, next) /\ Placed(p, next) /\ Owns(next) /\ Tame(p, next)
      BY <1>1, <2>1, AtProcess, SaveGoesOn DEF Revising
    <2>3. Sourced(next)
      BY <2>1, AtProcess DEF Sourced
    <2>4. Revises(next)
      BY <1>1, <1>3, <2>1, AtProcess DEF Revises, Revising
    <2> QED
      BY <1>3, <2>1, <2>2, <2>3, <2>4, AtProcess, ReadKeeps DEF SupersedePending, Fits
  <1> QED
    BY <1>2, <1>3 DEF SupersedePending

LEMMA ReadPreviousKeeps ==
    ASSUME Inv, NEW p \in Processes, ReadPrevious(p)
    PROVE  Inv'
  <1> DEFINE l == local[p]
             row == [plan[l.version] EXCEPT !.status = "superseded"]
  <1>1. l.pc = "retire" /\ l \in Local
    BY AtProcess DEF ReadPrevious, At
  <1>2. l.version \in Versions /\ plan[l.version] \in Plan
    BY <1>1, AtProcess DEF Revises, Revising, Inv, TypeOK
  <1>3. row \in Plan /\ row.steps = plan[l.version].steps
    BY <1>2 DEF Plan, PlanStatus
  <1>4. \A s \in Steps : row.steps[s].status = "completed" => Succeeded(s)
    BY <1>2, <1>3 DEF Inv, Rows, CompletedMeansSucceeded, Succeeded
  <1>5. PICK next \in Local :
           /\ Go(p, next)
           /\ next.pc = "retired" /\ next.version = l.version /\ next.draft = l.draft
           /\ \A s \in Steps : next.row.steps[s].status = "completed" => Succeeded(s)
    <2> HIDE DEF row
    <2> DEFINE moved == [l EXCEPT !.pc = "retired", !.row = row]
    <2>1. /\ moved \in Local
          /\ moved.pc = "retired" /\ moved.version = l.version /\ moved.row = row
          /\ moved.draft = l.draft
      BY <1>1, <1>3 DEF Local, Revising
    <2>2. Go(p, moved)
      BY AtProcess DEF ReadPrevious, Go, row
    <2> QED
      BY <1>4, <2>1, <2>2
  <1>6. Located(next) /\ Asks(p, next) /\ Placed(p, next) /\ Owns(next) /\ Tame(p, next)
    BY <1>1, <1>5, AtProcess, SaveGoesOn DEF Revising
  <1>7. Sourced(next)
    BY <1>5, AtProcess DEF Sourced
  <1>8. Revises(next)
    BY <1>1, <1>5, AtProcess DEF Revises, Revising
  <1> QED
    BY <1>5, <1>6, <1>7, <1>8, AtProcess, ReadKeeps DEF ReadPrevious, Fits

LEMMA SavePreviousKeeps ==
    ASSUME Inv, NEW p \in Processes, SavePrevious(p)
    PROVE  Inv'
  <1> DEFINE l == local[p]
  <1>1. l.pc = "retired" /\ l \in Local /\ plan \in [Versions -> Plan]
    BY AtProcess DEF SavePrevious, At, Inv, TypeOK
  <1>2. l.version \in Versions /\ l.row \in Plan
    BY <1>1, AtProcess DEF Revises, Revising, Local
  <1>3. PICK next \in Local :
           /\ Go(p, next)
           /\ next.pc = "insert-plan" /\ next.version = l.version /\ next.row = NoPlan
           /\ next.draft = l.draft
    <2> DEFINE moved == [l EXCEPT !.pc = "insert-plan", !.row = NoPlan]
    <2>1. /\ moved \in Local
          /\ moved.pc = "insert-plan" /\ moved.version = l.version /\ moved.row = NoPlan
          /\ moved.draft = l.draft
      BY <1>1, NoPlanIsPlan DEF Local, Revising
    <2>2. Go(p, moved)
      BY AtProcess DEF SavePrevious, Go
    <2> QED
      BY <2>1, <2>2
  <1>4. plan' = [plan EXCEPT ![l.version] = l.row]
    BY DEF SavePrevious
  <1>5. plan' \in [Versions -> Plan]
    BY <1>1, <1>2, <1>4
  <1>6. ASSUME NEW v \in Versions, NEW s \in Steps, plan'[v].steps[s].status = "completed"
        PROVE  Succeeded(s)
    <2>1. plan'[v] = l.row \/ plan'[v] = plan[v]
      BY <1>1, <1>2, <1>4
    <2>2. plan[v].steps[s].status = "completed" => Succeeded(s)
      BY DEF Inv, Rows, CompletedMeansSucceeded, Succeeded
    <2>3. l.row.steps[s].status = "completed" => Succeeded(s)
      BY AtProcess DEF Sourced
    <2> QED
      BY <1>6, <2>1, <2>2, <2>3
  <1>7. Located(next) /\ Asks(p, next) /\ Placed(p, next) /\ Owns(next) /\ Tame(p, next)
    BY <1>1, <1>3, AtProcess, SaveGoesOn DEF Revising
  <1>8. Sourced(next)
    BY <1>3, AtProcess DEF Sourced, NoPlan, Absent
  <1>9. Revises(next)
    BY <1>1, <1>3, AtProcess DEF Revises, Revising
  <1> QED
    BY <1>3, <1>5, <1>6, <1>7, <1>8, <1>9, WritePlan DEF SavePrevious, Fits

LEMMA InsertPlanKeeps ==
    ASSUME Inv, NEW p \in Processes, InsertPlan(p)
    PROVE  Inv'
  <1> DEFINE l == local[p]
  <1>1. l.pc = "insert-plan" /\ l \in Local /\ Go(p, Idle) /\ Tame(p, Idle)
    BY AtProcess, IdleFits DEF InsertPlan, At, Tame
  <1>2. CASE l.version # latest
    BY <1>1, <1>2, IdleFits, AtProcess, ReadKeeps DEF InsertPlan
  <1>3. CASE l.version = latest
    <2>1. /\ latest \in 0..MaximumVersions /\ latest < MaximumVersions
          /\ \A v \in Versions, s \in Steps :
                approval[v][s] = "pending" => <<v, s>> \in overlapped
      BY <1>1, <1>3, AtProcess DEF Inv, TypeOK, Revises, Revising
    <2> DEFINE new == [status |-> "active", steps |-> l.draft]
    <2>2. /\ latest' = latest + 1
          /\ plan' = [plan EXCEPT ![latest'] = new]
          /\ UNCHANGED <<approval, request, call, overlapped, decided, executed, reported,
                         late, restarts>>
      BY <1>3 DEF InsertPlan, history
    <2>3. /\ plan \in [Versions -> Plan] /\ latest' \in Versions
          /\ latest' \in 0..MaximumVersions
      BY <2>1, <2>2, ApprovalsAssumption DEF Inv, TypeOK, Versions
    <2>4. new \in Plan /\ new.steps = l.draft
      BY <1>1 DEF Plan, PlanStatus, Local
    <2> HIDE DEF new
    <2>5. plan' \in [Versions -> Plan]
      BY <2>2, <2>3, <2>4
    <2>6. TypeOK'
      BY <1>1, <2>2, <2>3, <2>5, IdleIsLocal DEF Inv, TypeOK, Go
    <2>7. \A s \in Steps : Succeeded(s) => Succeeded(s)'
      BY <2>2 DEF Succeeded, Started
    <2>8. CompletedMeansSucceeded'
      <3> SUFFICES ASSUME NEW v \in Versions, NEW s \in Steps,
                          plan'[v].steps[s].status = "completed"
                   PROVE  Succeeded(s)'
        BY DEF CompletedMeansSucceeded, Succeeded, Versions, Attempts
      <3>1. plan'[v] = new \/ plan'[v] = plan[v]
        BY <2>2, <2>3
      <3>2. plan[v].steps[s].status = "completed" => Succeeded(s)
        BY DEF Inv, Rows, CompletedMeansSucceeded, Succeeded
      <3>3. l.draft[s].status = "completed" => Succeeded(s)
        BY AtProcess DEF Sourced
      <3> QED
        BY <2>4, <2>7, <3>1, <3>2, <3>3
    <2>9. PendingIsOfLatestPlan'
      BY <2>1, <2>2 DEF PendingIsOfLatestPlan, Versions
    <2>10. Rows'
      BY <2>2, <2>8, <2>9 DEF Inv, Rows, LateTools, Calls, Granted, Started,
                              RecoveryIsAuthorized
    <2>11. \A q \in Processes \ {p} : local'[q] = local[q]
      BY <1>1 DEF Inv, TypeOK, Go
    <2>12. ASSUME NEW q \in Processes, q # p
           PROVE  Revises(local[q])' /\ Asks(q, local[q])'
      <3>1. /\ local'[q] = local[q] /\ Revises(local[q]) /\ Asks(q, local[q])
            /\ Placed(q, local[q])
        BY <2>11, <2>12, AtProcess
      <3>2. Revises(local[q])'
        BY <2>1, <2>2, <3>1 DEF Revises, Versions
      <3>3. local[q].pc = "insert-approval" /\ Overtaken => Asks(q, local[q])'
        BY <2>2, <3>1 DEF Asks
      <3>4. Overtaken \/ q # Cycle
        <4>1. p \in Bodies \cup {Cycle}
          BY <1>1, AtProcess DEF Placed, Revising
        <4>2. p \in Bodies => Overtaken
          BY <1>1, <1>3 DEF Overtaken, Revising
        <4> QED
          BY <2>12, <4>1, <4>2
      <3>5. q # Cycle => Asks(q, local[q])'
        BY <2>2, <3>1 DEF Asks
      <3> QED
        BY <3>1, <3>2, <3>3, <3>4, <3>5 DEF Asks
    <2>13. p # Cycle => Owns(local[Cycle])'
      <3>1. p # Cycle => local'[Cycle] = local[Cycle]
        BY <2>11, Constants
      <3> QED
        BY <2>2, <3>1, AtCycle DEF Owns, Started
    <2>14. \A q \in Processes \ {p} : Fits(q, local[q])'
      BY <2>2, <2>11, <2>12, <2>13, RestFits DEF Grows
    <2> QED
      BY <1>1, <2>6, <2>10, <2>14, IdleFits, StepKeeps
  <1> QED
    BY <1>2, <1>3

\* The call of the cycle times out: what the cycle held goes to a body, and the cycle
\* goes on with next.
LEMMA HandOver ==
    ASSUME Inv, NEW b \in Bodies, NEW l, l = local[Cycle], NEW next \in Local,
           local' = [local EXCEPT ![b] = l, ![Cycle] = next],
           Fits(Cycle, next)', next.pc \notin Revising, Asks(b, l)',
           request' \in [Versions -> [Steps -> CallStatus]],
           overlapped \subseteq overlapped', overlapped' \subseteq Versions \X Steps,
           UNCHANGED <<latest, plan, approval, call, decided, executed, reported, late,
                       restarts>>
    PROVE  Inv'
  <1>1. /\ b # Cycle /\ b \in Processes /\ Cycle \in Processes
        /\ local'[b] = l /\ local'[Cycle] = next
        /\ \A q \in Processes \ {b, Cycle} : local'[q] = local[q]
        /\ local' \in [Processes -> Local]
    BY AtCycle, Constants
  <1>2. TypeOK'
    BY <1>1 DEF Inv, TypeOK
  <1>3. Rows'
    BY DEF Inv, Rows, LateTools, Calls, Granted, Succeeded, Started,
           RecoveryIsAuthorized, PendingIsOfLatestPlan, CompletedMeansSucceeded
  <1>4. Fits(b, local[b])'
    <2>1. Located(local[b])' /\ Sourced(local[b])'
      BY <1>1, AtCycle DEF Located, Sourced, Succeeded, Started, Decisions, Outcomes, Versions,
                           Attempts
    <2>2. Revises(local[b])'
      BY <1>1, AtCycle DEF Revises, Versions
    <2>3. Asks(b, local[b])' /\ Placed(b, local[b])'
      BY <1>1 DEF Placed
    <2> QED
      BY <1>1, <2>1, <2>2, <2>3 DEF Fits
  <1>5. Fits(Cycle, local[Cycle])'
    BY <1>1
  <1>6. ASSUME NEW q \in Processes \ {b, Cycle} PROVE Fits(q, local[q])'
    <2>1. Fits(q, local[q]) /\ local'[q] = local[q]
      BY <1>1 DEF Inv
    <2>2. Located(local[q])' /\ Sourced(local[q])' /\ Placed(q, local[q])'
      BY <2>1 DEF Fits, Located, Sourced, Placed, Succeeded, Started, Decisions, Outcomes,
                  Versions, Attempts
    <2>3. Revises(local[q])' /\ Asks(q, local[q])'
      BY <2>1 DEF Fits, Revises, Asks, Versions
    <2> QED
      BY <2>2, <2>3 DEF Fits
  <1> QED
    BY <1>2, <1>3, <1>4, <1>5, <1>6 DEF Inv

LEMMA TimeOutSaveKeeps ==
    ASSUME Inv, NEW b \in Bodies, TimeOutSave(b)
    PROVE  Inv'
  <1>1. /\ local[Cycle].pc \in Revising
        /\ local' = [local EXCEPT ![b] = local[Cycle], ![Cycle] = Idle]
        /\ UNCHANGED <<latest, plan, approval, request, call, overlapped, decided, executed,
                       reported, late, restarts>>
    BY DEF TimeOutSave, history
  <1> DEFINE l == local[Cycle]
  <1>2. \A held : held = l => Asks(b, held)'
    <2>1. l.pc # "insert-approval"
      BY <1>1 DEF Revising
    <2> QED
      BY <2>1 DEF Asks
  <1>3. /\ request' \in [Versions -> [Steps -> CallStatus]]
        /\ overlapped' \subseteq Versions \X Steps
    BY <1>1 DEF Inv, TypeOK
  <1> QED
    BY <1>1, <1>2, <1>3, IdleFits, HandOver


-----------------------------------------------------------------------------
(* The steps that request an approval, and the end of a request *)

LEMMA InPlanIsVersion ==
    ASSUME Inv, NEW s \in Steps, InPlan(s)
    PROVE  latest \in Versions
  BY ApprovalsAssumption DEF Inv, TypeOK, InPlan, Versions

LEMMA RequestApprovalKeeps ==
    ASSUME Inv, NEW s \in Steps, RequestApproval(s)
    PROVE  Inv'
  <1> DEFINE asking == [Idle EXCEPT !.pc = "insert-approval", !.version = latest,
                                    !.steps = {s}]
  <1>1. /\ latest \in Versions /\ request \in [Versions -> [Steps -> CallStatus]]
        /\ overlapped \subseteq Versions \X Steps
    BY InPlanIsVersion DEF RequestApproval, Inv, TypeOK
  <1>2. /\ request' \in [Versions -> [Steps -> CallStatus]]
        /\ overlapped \subseteq overlapped' /\ overlapped' \subseteq Versions \X Steps
    BY <1>1 DEF RequestApproval, CallStatus
  <1>3. PICK next :
           /\ Go(Cycle, next)
           /\ \/ next = asking /\ (Overtaken => <<latest, s>> \in overlapped')
              \/ next = Update(latest, s, "awaiting-approval", latest, Keep)
              \/ next = Update(latest, s, "failed", Keep, Keep)
    BY DEF RequestApproval, AwaitApproval
  <1>4. UNCHANGED <<latest, plan, approval, call, decided, executed, reported, late, restarts>>
    BY DEF RequestApproval
  <1>5. Tame(Cycle, next)
    BY Constants DEF Tame
  <1>6. next \in Local /\ Fits(Cycle, next)'
    <2>1. CASE next = asking /\ (Overtaken => <<latest, s>> \in overlapped')
      <3>1. /\ next \in Local /\ next.pc = "insert-approval" /\ next.version = latest
            /\ next.steps = {s} /\ next.row = NoPlan /\ next.draft = NoPlan.steps
        BY <1>1, <2>1, IdleIsLocal, Constants DEF Idle, Local
      <3>2. Overtaken' => Overtaken
        BY <1>3, <1>4, <1>5, Constants, TameOvertakes
      <3>3. Asks(Cycle, next)'
        BY <1>4, <2>1, <3>1, <3>2 DEF Asks
      <3>4. Located(next)' /\ Sourced(next)'
        BY <1>1, <1>4, <3>1 DEF Located, AtStep, ToolStage, Sourced, NoPlan, Absent, Versions
      <3>5. Revises(next)' /\ Owns(next)' /\ Placed(Cycle, next)'
        BY <3>1 DEF Revises, Owns, Placed, Revising, ToolStage
      <3> QED
        BY <3>1, <3>3, <3>4, <3>5 DEF Fits
    <2>2. CASE \/ next = Update(latest, s, "awaiting-approval", latest, Keep)
               \/ next = Update(latest, s, "failed", Keep, Keep)
      <3>1. /\ "awaiting-approval" \in StepStatus /\ "failed" \in StepStatus
            /\ latest \in Keep..MaximumVersions /\ latest \in 0..MaximumVersions
            /\ Keep \in Keep..MaximumVersions /\ Keep \in Keep..LastAttempt
        BY <1>1, Constants, UpdateRange DEF StepStatus
      <3>2. /\ next \in Local /\ next.pc = "read" /\ next.version = latest
            /\ next.steps = {s} /\ next.status # "completed" /\ next.row = NoPlan
            /\ next.draft = NoPlan.steps
        BY <2>2, <3>1, UpdateIsLocal
      <3> QED
        BY <1>1, <3>2, UpdateFitsNext
    <2> QED
      BY <1>3, <2>1, <2>2
  <1> QED
    BY <1>2, <1>3, <1>4, <1>5, <1>6, Constants, NoteKeeps

\* ApprovalsService.request, in the cycle or in a late body: if a save may still follow
\* the plan whose approval is requested, the request was noted as overlapping.
LEMMA InsertApprovalKeeps ==
    ASSUME Inv, NEW p \in Processes, InsertApproval(p)
    PROVE  Inv'
  <1> DEFINE l == local[p]
             v == l.version
  <1>1. l.pc = "insert-approval" /\ l \in Local /\ p \in Bodies \cup {Cycle}
    BY AtProcess DEF InsertApproval, At, Placed
  <1>2. PICK s \in Steps : l.steps = {s}
    BY <1>1, AtProcess DEF Located, AtStep
  <1>3. v \in Versions /\ StepOf(p) = s
    BY <1>1, <1>2, AtProcess, OneStep DEF Located, AtStep
  <1>4. \/ <<v, s>> \in overlapped
        \/ p = Cycle /\ v = latest /\ ~Overtaken
    BY <1>1, <1>2, AtProcess DEF Asks
  <1>5. PICK next \in Local :
           /\ Go(p, next)
           /\ \/ next = Idle
              \/ /\ next.pc = "finish-request" /\ next.version = v
                 /\ next.steps = l.steps /\ next.row = l.row /\ next.draft = l.draft
    <2> DEFINE moved == [l EXCEPT !.pc = "finish-request"]
    <2>1. /\ moved \in Local
          /\ moved.pc = "finish-request" /\ moved.version = v
          /\ moved.steps = l.steps /\ moved.row = l.row /\ moved.draft = l.draft
      BY <1>1 DEF Local
    <2>2. Go(p, moved) \/ Go(p, Idle)
      BY DEF InsertApproval
    <2> QED
      BY <2>1, <2>2, IdleIsLocal
  <1>6. /\ approval' = [approval EXCEPT ![v][s] = "pending"]
        /\ UNCHANGED <<latest, plan, request, call, overlapped, decided, executed, reported,
                       late, restarts>>
    BY <1>3 DEF InsertApproval, history
  <1>7. approval \in [Versions -> [Steps -> ApprovalStatus]]
    BY DEF Inv, TypeOK
  <1>8. /\ approval' \in [Versions -> [Steps -> ApprovalStatus]]
        /\ \A w \in Versions, x \in Steps :
              \/ approval'[w][x] = approval[w][x]
              \/ w = v /\ x = s /\ approval'[w][x] = "pending"
    BY <1>3, <1>6, <1>7 DEF ApprovalStatus
  <1>9. TypeOK'
    BY <1>5, <1>6, <1>8 DEF Inv, TypeOK, Go, Local
  <1>10. Granted' /\ PendingIsOfLatestPlan'
    BY <1>4, <1>6, <1>8 DEF Inv, Rows, Granted, PendingIsOfLatestPlan
  <1>11. Rows'
    BY <1>6, <1>10 DEF Inv, Rows, LateTools, Calls, Succeeded, Started,
                       RecoveryIsAuthorized, CompletedMeansSucceeded
  <1>12. Tame(p, next)
    BY <1>5, IdleFits DEF Tame, Revising
  <1>13. Fits(p, next)'
    <2>1. CASE next = Idle
      BY <2>1, IdleFits
    <2>2. CASE next # Idle
      <3>1. Located(next)'
        BY <1>2, <1>3, <1>5, <2>2 DEF Located, AtStep, ToolStage, Versions
      <3>2. Sourced(next)'
        BY <1>5, <1>6, <2>2, AtProcess DEF Sourced, Succeeded, Started
      <3>3. Elsewhere(next)
        BY <1>5, <2>2 DEF Elsewhere, Revising, ToolStage
      <3> QED
        BY <3>1, <3>2, <3>3, ElsewhereFits
    <2> QED
      BY <2>1, <2>2
  <1>14. \A q \in Processes \ {p} : local'[q] = local[q]
    BY <1>5, AtProcess DEF Go
  <1>15. p # Cycle => Owns(local[Cycle])'
    <2>1. p # Cycle => local'[Cycle] = local[Cycle]
      BY <1>14, Constants
    <2> QED
      BY <1>6, <2>1, AtCycle DEF Owns, Started
  <1>16. ASSUME NEW q \in Processes, q # p
         PROVE  Revises(local[q])' /\ Asks(q, local[q])'
    <2>1. /\ local'[q] = local[q] /\ Revises(local[q]) /\ Asks(q, local[q])
          /\ Placed(q, local[q])
      BY <1>14, <1>16, AtProcess
    <2>2. CASE <<v, s>> \in overlapped
      <3>1. Revises(local[q])'
        BY <1>6, <1>8, <2>1, <2>2 DEF Revises, Versions
      <3>2. Overtaken' => Overtaken
        BY <1>5, <1>6, <1>12, TameOvertakes
      <3>3. Asks(q, local[q])'
        BY <1>6, <2>1, <3>2 DEF Asks
      <3> QED
        BY <3>1, <3>3
    <2>3. CASE p = Cycle /\ ~Overtaken
      <3>1. local[q].pc \in Revising => local[q].version # latest
        BY <1>16, <2>1, <2>3 DEF Placed, Overtaken
      <3>2. Revises(local[q])'
        BY <1>6, <2>1, <3>1 DEF Revises, Revising, Versions
      <3>3. Asks(q, local[q])'
        BY <1>6, <1>16, <2>1, <2>3 DEF Asks
      <3> QED
        BY <3>2, <3>3
    <2> QED
      BY <1>4, <2>2, <2>3
  <1>17. Grows
    BY <1>6 DEF Grows
  <1>18. \A q \in Processes \ {p} : Fits(q, local[q])'
    BY <1>14, <1>15, <1>16, <1>17, RestFits
  <1> QED
    BY <1>5, <1>9, <1>11, <1>13, <1>18, StepKeeps

LEMMA FinishRequestKeeps ==
    ASSUME Inv, FinishRequest
    PROVE  Inv'
  <1> DEFINE v == local[Cycle].version
  <1>1. local[Cycle].pc = "finish-request"
    BY DEF FinishRequest, At
  <1>2. PICK s \in Steps : local[Cycle].steps = {s}
    BY <1>1, AtCycle DEF Located, AtStep
  <1>3. v \in Versions /\ StepOf(Cycle) = s
    BY <1>1, <1>2, AtCycle, OneStep DEF Located, AtStep
  <1>4. request' \in [Versions -> [Steps -> CallStatus]]
    BY <1>3, AtCycle DEF FinishRequest, CallStatus
  <1>5. Go(Cycle, Update(v, s, "awaiting-approval", v, Keep))
    BY <1>3 DEF FinishRequest, AwaitApproval
  <1>6. /\ "awaiting-approval" \in StepStatus /\ v \in Keep..MaximumVersions
        /\ Keep \in Keep..LastAttempt
    BY <1>3, Constants, UpdateRange DEF StepStatus
  <1>7. /\ Update(v, s, "awaiting-approval", v, Keep) \in Local
        /\ Fits(Cycle, Update(v, s, "awaiting-approval", v, Keep))
    BY <1>3, <1>6, UpdateFits
  <1>8. Tame(Cycle, Update(v, s, "awaiting-approval", v, Keep))
    BY Constants DEF Tame
  <1> QED
    BY <1>4, <1>5, <1>7, <1>8, Constants, ReadKeeps DEF FinishRequest

LEMMA TimeOutRequestKeeps ==
    ASSUME Inv, NEW b \in Bodies, TimeOutRequest(b)
    PROVE  Inv'
  <1> DEFINE v == local[Cycle].version
  <1>1. local[Cycle].pc = "insert-approval"
    BY DEF TimeOutRequest, At
  <1>2. PICK s \in Steps : local[Cycle].steps = {s}
    BY <1>1, AtCycle DEF Located, AtStep
  <1>3. v \in Versions /\ v \in 0..MaximumVersions /\ StepOf(Cycle) = s
    BY <1>1, <1>2, AtCycle, OneStep, Constants DEF Located, AtStep
  <1>4. PICK l, next : /\ l = local[Cycle] /\ next = Update(v, s, "failed", Keep, Keep)
                       /\ local' = [local EXCEPT ![b] = l, ![Cycle] = next]
    BY <1>3 DEF TimeOutRequest
  <1>5. /\ request' = [request EXCEPT ![v][s] = "failed"]
        /\ overlapped' = overlapped \cup {<<v, s>>}
        /\ UNCHANGED <<latest, plan, approval, call, decided, executed, reported, late,
                       restarts>>
    BY <1>3 DEF TimeOutRequest
  <1>6. /\ request' \in [Versions -> [Steps -> CallStatus]]
        /\ overlapped \subseteq overlapped' /\ overlapped' \subseteq Versions \X Steps
    BY <1>3, <1>5, AtCycle DEF CallStatus, Inv, TypeOK
  <1>7. /\ next \in Local /\ next.pc = "read" /\ next.version = v /\ next.steps = {s}
        /\ next.status = "failed" /\ next.row = NoPlan /\ next.draft = NoPlan.steps
    <2>1. "failed" \in StepStatus
      BY DEF StepStatus
    <2> QED
      BY <1>3, <1>4, <2>1, Constants, UpdateIsLocal
  <1>8. Fits(Cycle, next)' /\ next.pc \notin Revising
    <2>1. Fits(Cycle, next)'
      BY <1>3, <1>7, UpdateFitsNext
    <2> QED
      BY <1>7, <2>1 DEF Revising
  <1>9. Asks(b, l)'
    BY <1>2, <1>4, <1>5 DEF Asks
  <1> QED
    BY <1>4, <1>5, <1>6, <1>7, <1>8, <1>9, HandOver

\* expireRunningCalls, of a request.
LEMMA FindRequestKeeps ==
    ASSUME Inv, NEW c \in Callbacks, NEW v \in Versions, NEW s \in Steps,
           FindRequest(c, v, s)
    PROVE  Inv'
  <1> DEFINE next == [Idle EXCEPT !.pc = "expire-request", !.version = v, !.steps = {s}]
  <1>1. /\ Go(c, next) /\ c \in Processes
        /\ request' \in [Versions -> [Steps -> CallStatus]]
    BY DEF FindRequest, Inv, TypeOK, Processes
  <1>2. /\ next \in Local /\ next.pc = "expire-request" /\ next.version = v
        /\ next.steps = {s} /\ next.row = NoPlan /\ next.draft = NoPlan.steps
    BY Constants, IdleIsLocal DEF Idle, Local
  <1> HIDE DEF next
  <1>3. Located(next) /\ Sourced(next)
    BY <1>2 DEF Located, AtStep, ToolStage, Sourced, NoPlan, Absent
  <1>4. Elsewhere(next) /\ Tame(c, next)
    BY <1>2 DEF Elsewhere, Tame, Revising, ToolStage
  <1> QED
    BY <1>1, <1>2, <1>3, <1>4, ElsewhereFits, ReadKeeps DEF FindRequest

LEMMA ExpireRequestKeeps ==
    ASSUME Inv, NEW c \in Callbacks, ExpireRequest(c)
    PROVE  Inv'
  <1>1. c \in Processes /\ request' \in [Versions -> [Steps -> CallStatus]]
    BY DEF ExpireRequest, Inv, TypeOK, Processes, CallStatus
  <1>2. Tame(c, Idle)
    BY IdleFits DEF Tame
  <1> QED
    BY <1>1, <1>2, IdleFits, ReadKeeps DEF ExpireRequest

-----------------------------------------------------------------------------
(* The steps of the tool that starts a recovery *)

\* The step, the version and the attempt of the tool.
LEMMA InToolAt ==
    ASSUME Inv, InTool
    PROVE  /\ local[Cycle].version \in Versions /\ local[Cycle].attempt \in Attempts
           /\ StepOf(Cycle) \in Steps /\ local[Cycle].steps = {StepOf(Cycle)}
  <1>1. local[Cycle].pc \in ToolStage
    BY DEF InTool
  <1>2. PICK s \in Steps : local[Cycle].steps = {s}
    BY <1>1, AtCycle DEF Located, AtStep
  <1> QED
    BY <1>1, <1>2, AtCycle, OneStep DEF Located, AtStep

\* The update that applyToolResult or a recovery in progress asks for.
LEMMA OutcomeShape ==
    ASSUME NEW v \in Versions, NEW s \in Steps, NEW n \in Attempts, NEW outcome
    PROVE  LET l == Outcome(v, s, n, outcome)
           IN  /\ l \in Local /\ l.pc = "read" /\ l.version = v /\ l.steps = {s}
               /\ l.row = NoPlan /\ l.draft = NoPlan.steps
               /\ l.status = "completed" => outcome = "succeeded"
  <1>1. \E status \in StepStatus, m \in Keep..LastAttempt :
           /\ Outcome(v, s, n, outcome) = Update(v, s, status, Keep, m)
           /\ status = "completed" => outcome = "succeeded"
    <2>1. n \in Keep..LastAttempt /\ MaximumAttempts \in Keep..LastAttempt
      BY Constants, UpdateRange
    <2>2. {"completed", "proposed", "failed", "running"} \subseteq StepStatus
      BY DEF StepStatus
    <2>3. Outcome(v, s, n, outcome) \in
             {Update(v, s, IF outcome = "succeeded" THEN "completed" ELSE status, Keep, m) :
                 status \in {"proposed", "failed", "running"}, m \in {n, MaximumAttempts}}
      BY DEF Outcome, Result
    <2> QED
      BY <2>1, <2>2, <2>3
  <1> QED
    BY <1>1, Constants, UpdateIsLocal

LEMMA OutcomeFits ==
    ASSUME NEW p, NEW v \in Versions, NEW s \in Steps, NEW n \in Attempts, NEW outcome
    PROVE  LET l == Outcome(v, s, n, outcome)
           IN  /\ l \in Local /\ l.pc = "read"
               /\ (outcome = "succeeded" => Succeeded(s)) => Fits(p, l)
               /\ (outcome = "succeeded" => Succeeded(s)') => Fits(p, l)'
  <1> DEFINE l == Outcome(v, s, n, outcome)
  <1>1. /\ l \in Local /\ l.pc = "read" /\ l.version = v /\ l.steps = {s}
        /\ l.row = NoPlan /\ l.draft = NoPlan.steps
        /\ l.status = "completed" => outcome = "succeeded"
    BY OutcomeShape
  <1> SUFFICES ASSUME NEW next, next = l
               PROVE  /\ next \in Local /\ next.pc = "read"
                      /\ (outcome = "succeeded" => Succeeded(s)) => Fits(p, next)
                      /\ (outcome = "succeeded" => Succeeded(s)') => Fits(p, next)'
    BY DEF Outcome, Result, Update, Idle, Keep, NoPlan, Absent
  <1> HIDE DEF l
  <1>2. Elsewhere(next)
    BY <1>1 DEF Elsewhere, Revising, ToolStage
  <1>3. Located(next)
    BY <1>1 DEF Located, AtStep, ToolStage
  <1>4. (outcome = "succeeded" => Succeeded(s)) => Sourced(next)
    BY <1>1 DEF Sourced, NoPlan, Absent
  <1>5. (outcome = "succeeded" => Succeeded(s)') => Fits(p, next)'
    BY <1>1, UpdateFitsNext
  <1> QED
    BY <1>1, <1>2, <1>3, <1>4, <1>5, ElsewhereFits

\* A step that writes calls, or starts a recovery, and what it has to keep.
LEMMA WorkKeeps ==
    ASSUME Inv, NEW p \in Processes, NEW next, Go(p, next), next \in Local, Fits(p, next)',
           Tame(p, next), Grows,
           call' \in [Steps -> [Attempts -> CallStatus]],
           executed' \in [Steps -> SUBSET (Versions \X Attempts)],
           reported' \in [Steps -> SUBSET (Attempts \X Outcomes)],
           late' \subseteq LateTool,
           Calls', LateTools', RecoveryIsAuthorized',
           p # Cycle => Owns(local[Cycle])',
           UNCHANGED <<latest, plan, approval, request, overlapped, decided, restarts>>
    PROVE  Inv'
  <1>1. TypeOK'
    BY DEF Inv, TypeOK, Go, Local
  <1>2. CompletedMeansSucceeded'
    <2> SUFFICES ASSUME NEW v \in Versions, NEW s \in Steps, plan[v].steps[s].status = "completed"
                 PROVE  Succeeded(s)'
      BY DEF CompletedMeansSucceeded, Succeeded, Versions, Attempts
    <2>1. Succeeded(s)
      BY DEF Inv, Rows, CompletedMeansSucceeded, Succeeded
    <2> QED
      BY <2>1, SuccessLasts
  <1>3. Rows'
    BY <1>2 DEF Inv, Rows, Granted, PendingIsOfLatestPlan
  <1>4. \A q \in Processes \ {p} : Fits(q, local[q])'
    BY OthersFit
  <1> QED
    BY <1>1, <1>3, <1>4, StepKeeps

\* A call keeps being known, and nothing is started: the late tools and the cycle's own
\* keep what they have.
LEMMA CallsKeepOwners ==
    ASSUME Inv, executed' = executed, decided' = decided, late' = late,
           local'[Cycle] = local[Cycle],
           \A s \in Steps, n \in Attempts : call[s][n] # "none" => call'[s][n] # "none"
    PROVE  LateTools' /\ Owns(local[Cycle])'
  <1>1. LateTools'
    <2>1. \A t \in late : t.step \in Steps /\ t.attempt \in Attempts
      BY DEF Inv, TypeOK, LateTool
    <2> QED
      BY <2>1 DEF Inv, Rows, LateTools, Started
  <1>2. Owns(local[Cycle])'
    <2>1. SUFFICES ASSUME local[Cycle].pc \in ToolStage
                   PROVE  Owns(local[Cycle])'
      BY DEF Owns
    <2>2. PICK m \in Attempts : m = local[Cycle].attempt /\ m = local'[Cycle].attempt
      BY <2>1, AtCycle DEF Located
    <2>3. ASSUME NEW x \in Steps, local[Cycle].steps = {x}
          PROVE  /\ call'[x][m] # "none" /\ ~Started(x, m)'
                 /\ \A t \in late : ~(t.step = x /\ t.attempt = m)
                 /\ local[Cycle].pc = "start" =>
                       decided[local[Cycle].version][x]["approved"] > 0
      <3>1. /\ call[x][m] # "none" /\ ~Started(x, m)
            /\ \A t \in late : ~(t.step = x /\ t.attempt = m)
            /\ local[Cycle].pc = "start" =>
                  decided[local[Cycle].version][x]["approved"] > 0
        BY <2>1, <2>2, <2>3, AtCycle DEF Owns
      <3> QED
        BY <3>1 DEF Started
    <2> QED
      BY <2>1, <2>2, <2>3 DEF Owns, Started
  <1> QED
    BY <1>1, <1>2

LEMMA DispatchKeeps ==
    ASSUME Inv, NEW s \in Steps, Dispatch(s)
    PROVE  Inv'
  <1> DEFINE step == plan[latest].steps[s]
  <1>1. PICK n \in Attempts : n = step.attempts + 1 /\ latest \in Versions
    BY InPlanIsVersion DEF Dispatch
  <1> DEFINE tool == [Idle EXCEPT !.pc = "check-plan", !.version = latest, !.steps = {s},
                                  !.attempt = n, !.approval = step.approval]
  <1>2. /\ call \in [Steps -> [Attempts -> CallStatus]]
        /\ step \in Step
    BY <1>1 DEF Inv, TypeOK, Plan
  <1>3. ASSUME Known(s, n) PROVE Inv'
    <2>1. PICK next : Go(Cycle, next) /\ next = Outcome(latest, s, n, call[s][n])
      BY <1>1, <1>3 DEF Dispatch
    <2>2. next \in Local /\ Fits(Cycle, next)
      <3>1. call[s][n] = "succeeded" => Succeeded(s)
        BY <1>1 DEF Inv, Rows, Calls, Succeeded
      <3> QED
        BY <1>1, <2>1, <3>1, OutcomeFits
    <2>3. UNCHANGED <<latest, plan, approval, request, call, history, late, restarts>>
      BY <1>1, <1>3 DEF Dispatch
    <2>4. Tame(Cycle, next)
      BY Constants DEF Tame
    <2> QED
      BY <2>1, <2>2, <2>3, <2>4, AtCycle, Constants, ReadKeeps
  <1>4. ASSUME ~Known(s, n) PROVE Inv'
    <2>1. /\ call' = [call EXCEPT ![s][n] = "running"]
          /\ Go(Cycle, tool)
          /\ UNCHANGED <<latest, plan, approval, request, overlapped, decided, executed,
                         reported, late, restarts>>
      BY <1>1, <1>4 DEF Dispatch, history
    <2>2. PICK next \in Local :
             /\ Go(Cycle, next) /\ next.pc = "check-plan" /\ next.version = latest
             /\ next.steps = {s} /\ next.attempt = n /\ next.row = NoPlan
             /\ next.draft = NoPlan.steps /\ next.approval \in 0..MaximumVersions
      <3>1. /\ tool \in Local /\ tool.pc = "check-plan" /\ tool.version = latest
            /\ tool.steps = {s} /\ tool.attempt = n /\ tool.row = NoPlan
            /\ tool.draft = NoPlan.steps /\ tool.approval \in 0..MaximumVersions
        <4>1. /\ step.approval \in Keep..MaximumVersions /\ n \in 0..LastAttempt
              /\ step.approval \in 0..MaximumVersions
          BY <1>1, <1>2, UpdateRange, Constants DEF Step
        <4> HIDE DEF step
        <4> QED
          BY <1>1, <4>1, IdleIsLocal, Constants DEF Idle, Local, ToolStage
      <3> QED
        BY <2>1, <3>1
    <2>3. call[s][n] = "none"
      BY <1>4 DEF Known
    <2>4. /\ call' \in [Steps -> [Attempts -> CallStatus]]
          /\ call'[s][n] = "running"
          /\ \A x \in Steps, m \in Attempts : call'[x][m] = call[x][m] \/ call'[x][m] = "running"
      BY <1>1, <1>2, <2>1 DEF CallStatus
    <2>5. Calls'
      BY <2>1, <2>4 DEF Inv, Rows, Calls, Started, Attempts, LastAttempt
    <2>6. LateTools'
      <3>1. \A t \in late : t.step \in Steps /\ t.attempt \in Attempts
        BY DEF Inv, TypeOK, LateTool
      <3> QED
        BY <2>1, <2>4, <3>1 DEF Inv, Rows, LateTools, Started
    <2>7. Fits(Cycle, next)'
      <3>1. Located(next)'
        BY <1>1, <2>2 DEF Located, AtStep, ToolStage, Attempts, LastAttempt, Versions
      <3>2. Sourced(next)' /\ Revises(next)' /\ Asks(Cycle, next)' /\ Placed(Cycle, next)'
        BY <2>2 DEF Sourced, Revises, Revising, Asks, Placed, NoPlan, Absent
      <3>3. Owns(next)'
        <4>1. ~Started(s, n)
          BY <1>1, <2>3 DEF Inv, Rows, Calls
        <4>2. \A t \in late : ~(t.step = s /\ t.attempt = n)
          BY <2>3 DEF Inv, Rows, LateTools
        <4>3. ~Started(s, n)' /\ late' = late /\ call'[s][n] # "none"
          BY <2>1, <2>4, <4>1 DEF Started
        <4> QED
          BY <2>2, <4>2, <4>3 DEF Owns
      <3> QED
        BY <3>1, <3>2, <3>3 DEF Fits
    <2>8. Tame(Cycle, next) /\ Grows
      BY <2>1, Constants DEF Tame, Grows
    <2>9. /\ executed' \in [Steps -> SUBSET (Versions \X Attempts)]
          /\ reported' \in [Steps -> SUBSET (Attempts \X Outcomes)]
          /\ late' \subseteq LateTool /\ RecoveryIsAuthorized'
      BY <2>1 DEF Inv, TypeOK, Rows, RecoveryIsAuthorized
    <2> QED
      BY <2>1, <2>2, <2>4, <2>5, <2>6, <2>7, <2>8, <2>9, Constants, WorkKeeps
  <1> QED
    BY <1>3, <1>4

LEMMA CheckRecoveryKeeps ==
    ASSUME Inv, CheckRecovery
    PROVE  Inv'
  <1> DEFINE l == local[Cycle]
  <1>1. l.pc \in {"check-plan", "check-approval"} /\ l \in Local
    BY AtCycle DEF CheckRecovery, Following
  <1>2. InTool
    BY <1>1 DEF InTool, ToolStage
  <1>3. Following[l.pc] = IF l.pc = "check-plan" THEN "check-approval" ELSE "start"
    BY <1>1 DEF Following
  <1>4. PICK next \in Local :
           /\ Go(Cycle, next)
           /\ next.pc = Following[l.pc] /\ next.version = l.version
           /\ next.steps = l.steps /\ next.attempt = l.attempt /\ next.row = l.row
           /\ next.draft = l.draft /\ next.approval = l.approval
    <2> DEFINE moved == [l EXCEPT !.pc = Following[l.pc]]
    <2>1. /\ moved \in Local
          /\ moved.pc = Following[l.pc] /\ moved.version = l.version
          /\ moved.steps = l.steps /\ moved.attempt = l.attempt /\ moved.row = l.row
          /\ moved.draft = l.draft /\ moved.approval = l.approval
      BY <1>1, <1>3 DEF Local, ToolStage
    <2>2. Go(Cycle, moved)
      BY AtCycle, Constants DEF CheckRecovery, Go
    <2> QED
      BY <2>1, <2>2
  <1>5. Located(next) /\ Sourced(next)
    BY <1>1, <1>2, <1>3, <1>4, InToolAt, AtCycle DEF Located, Sourced, AtStep, ToolStage
  <1>6. Revises(next) /\ Asks(Cycle, next) /\ Placed(Cycle, next) /\ Tame(Cycle, next)
    BY <1>1, <1>3, <1>4, Constants DEF Revises, Asks, Placed, Tame, Revising
  <1>7. Owns(next)
    <2>1. next.pc = "start" => decided[l.version][StepOf(Cycle)]["approved"] > 0
      <3> SUFFICES ASSUME next.pc = "start"
                   PROVE  decided[l.version][StepOf(Cycle)]["approved"] > 0
        OBVIOUS
      <3>1. Authorizes(l.version, StepOf(Cycle), l.approval)
        BY <1>1, <1>3, <1>4 DEF CheckRecovery, Checked
      <3> QED
        BY <1>2, <3>1, InToolAt DEF Authorizes, Inv, Rows, Granted
    <2> QED
      BY <1>1, <1>2, <1>4, <2>1, InToolAt, AtCycle DEF Owns, ToolStage
  <1> QED
    BY <1>4, <1>5, <1>6, <1>7, AtCycle, Constants, ReadKeeps DEF CheckRecovery, Fits

\* What the tool returned, in the hands of execute.
LEMMA ReturnsShape ==
    ASSUME Inv, InTool, NEW outcome \in Outcomes \cup {"running"}, Returns(outcome)
    PROVE  \E next \in Local :
              /\ Go(Cycle, next) /\ Tame(Cycle, next) /\ next.pc = "progress"
              /\ next.outcome = outcome /\ next.version = local[Cycle].version
              /\ next.steps = {StepOf(Cycle)} /\ next.attempt = local[Cycle].attempt
              /\ next.row = local[Cycle].row /\ next.draft = local[Cycle].draft
  <1> DEFINE l == local[Cycle]
             moved == [l EXCEPT !.pc = "progress", !.outcome = outcome]
  <1>1. l \in Local /\ outcome \in CallStatus /\ l.steps = {StepOf(Cycle)}
    BY AtCycle, InToolAt DEF CallStatus, Outcomes
  <1>2. /\ moved \in Local /\ moved.pc = "progress" /\ moved.outcome = outcome
        /\ moved.version = l.version /\ moved.steps = l.steps
        /\ moved.attempt = l.attempt /\ moved.row = l.row /\ moved.draft = l.draft
    BY <1>1 DEF Local
  <1>3. Go(Cycle, moved) /\ Tame(Cycle, moved)
    BY AtCycle, Constants DEF Returns, Go, Tame
  <1> QED
    BY <1>1, <1>2, <1>3

LEMMA RefuseRecoveryKeeps ==
    ASSUME Inv, RefuseRecovery
    PROVE  Inv'
  <1>1. InTool /\ Returns("failed") /\ "failed" \in Outcomes \cup {"running"}
    BY DEF RefuseRecovery, Outcomes
  <1>2. PICK next \in Local :
              /\ Go(Cycle, next) /\ Tame(Cycle, next) /\ next.pc = "progress"
              /\ next.outcome = "failed" /\ next.version = local[Cycle].version
              /\ next.steps = {StepOf(Cycle)} /\ next.attempt = local[Cycle].attempt
              /\ next.row = local[Cycle].row /\ next.draft = local[Cycle].draft
    BY <1>1, ReturnsShape
  <1>3. Located(next) /\ Sourced(next) /\ Elsewhere(next)
    BY <1>1, <1>2, InToolAt, AtCycle
       DEF Located, AtStep, ToolStage, Sourced, Elsewhere, Revising, Outcomes
  <1> QED
    BY <1>2, <1>3, AtCycle, Constants, ElsewhereFits, ReadKeeps DEF RefuseRecovery

LEMMA TimeOutToolKeeps ==
    ASSUME Inv, TimeOutTool
    PROVE  Inv'
  <1>1. PICK t : /\ t = [stage |-> local[Cycle].pc, version |-> local[Cycle].version,
                         step |-> StepOf(Cycle), attempt |-> local[Cycle].attempt,
                         approval |-> local[Cycle].approval]
                 /\ late' = late \cup {t}
    BY DEF TimeOutTool
  <1>2. /\ InTool /\ Returns("retryable") /\ "retryable" \in Outcomes \cup {"running"}
        /\ UNCHANGED <<latest, plan, approval, request, call, overlapped, decided, executed,
                       reported, restarts>>
    BY DEF TimeOutTool, history, Outcomes
  <1>3. PICK next \in Local :
              /\ Go(Cycle, next) /\ Tame(Cycle, next) /\ next.pc = "progress"
              /\ next.outcome = "retryable" /\ next.version = local[Cycle].version
              /\ next.steps = {StepOf(Cycle)} /\ next.attempt = local[Cycle].attempt
              /\ next.row = local[Cycle].row /\ next.draft = local[Cycle].draft
    BY <1>2, ReturnsShape
  <1>4. \A n \in Attempts, v \in Versions, s \in Steps :
           n = local[Cycle].attempt /\ v = local[Cycle].version /\ s = StepOf(Cycle) =>
              /\ call[s][n] # "none" /\ ~Started(s, n)
              /\ \A u \in late : ~(u.step = s /\ u.attempt = n)
              /\ local[Cycle].pc = "start" => decided[v][s]["approved"] > 0
    BY <1>2, InToolAt, AtCycle DEF InTool, Owns
  <1>5. /\ t.step \in Steps /\ t.attempt \in Attempts /\ t.version \in Versions
        /\ call[t.step][t.attempt] # "none" /\ ~Started(t.step, t.attempt)
        /\ \A u \in late : ~(u.step = t.step /\ u.attempt = t.attempt)
        /\ t.stage = "start" => decided[t.version][t.step]["approved"] > 0
    BY <1>1, <1>2, <1>4, InToolAt
  <1>6. t \in LateTool
    <2>1. local[Cycle].approval \in 0..MaximumVersions
      BY <1>2, AtCycle DEF InTool, Located
    <2> QED
      BY <1>1, <1>2, <2>1, InToolAt DEF LateTool, InTool
  <1>7. LateTools /\ late \subseteq LateTool
    BY DEF Inv, Rows, TypeOK
  <1>8. LateTools'
    <2>1. ASSUME NEW u \in late'
          PROVE  /\ call'[u.step][u.attempt] # "none" /\ ~Started(u.step, u.attempt)'
                 /\ u.stage = "start" => decided'[u.version][u.step]["approved"] > 0
      <3>1. /\ call[u.step][u.attempt] # "none" /\ ~Started(u.step, u.attempt)
            /\ u.stage = "start" => decided[u.version][u.step]["approved"] > 0
        BY <1>1, <1>5, <1>7 DEF LateTools
      <3> QED
        BY <1>2, <3>1 DEF Started
    <2>2. ASSUME NEW u \in late', NEW w \in late', u.step = w.step, u.attempt = w.attempt
          PROVE  u = w
      BY <1>1, <1>5, <1>7, <2>2 DEF LateTools
    <2> QED
      BY <2>1, <2>2 DEF LateTools
  <1>9. late' \subseteq LateTool
    BY <1>1, <1>6, <1>7
  <1>10. Fits(Cycle, next)'
    <2>1. Located(next)'
      BY <1>2, <1>3, InToolAt DEF Located, AtStep, ToolStage, Outcomes, Versions, Attempts
    <2>2. Sourced(next)'
      BY <1>2, <1>3, AtCycle DEF Sourced, Succeeded, Started
    <2>3. Elsewhere(next)
      BY <1>3 DEF Elsewhere, Revising, ToolStage
    <2> QED
      BY <2>1, <2>2, <2>3, ElsewhereFits
  <1>11. Grows /\ Calls' /\ RecoveryIsAuthorized'
    BY <1>2 DEF Grows, Inv, Rows, Calls, Started, RecoveryIsAuthorized
  <1>12. /\ call' \in [Steps -> [Attempts -> CallStatus]]
         /\ executed' \in [Steps -> SUBSET (Versions \X Attempts)]
         /\ reported' \in [Steps -> SUBSET (Attempts \X Outcomes)]
    BY <1>2 DEF Inv, TypeOK
  <1> QED
    BY <1>2, <1>3, <1>8, <1>9, <1>10, <1>11, <1>12, Constants, WorkKeeps

\* A recovery starts, and nothing else is written.
LEMMA StartKeeps ==
    ASSUME Inv, NEW s \in Steps, NEW n \in Attempts, NEW v \in Versions,
           executed' = [executed EXCEPT ![s] = @ \cup {<<v, n>>}],
           call[s][n] # "none", decided[v][s]["approved"] > 0,
           UNCHANGED <<call, reported, decided>>
    PROVE  /\ executed' \in [Steps -> SUBSET (Versions \X Attempts)]
           /\ \A x \in Steps, m \in Attempts :
                 Started(x, m)' <=> Started(x, m) \/ (x = s /\ m = n)
           /\ Grows /\ Calls' /\ RecoveryIsAuthorized'
           /\ call' \in [Steps -> [Attempts -> CallStatus]]
           /\ reported' \in [Steps -> SUBSET (Attempts \X Outcomes)]
  <1>1. executed \in [Steps -> SUBSET (Versions \X Attempts)]
    BY DEF Inv, TypeOK
  <1>2. /\ executed' \in [Steps -> SUBSET (Versions \X Attempts)]
        /\ \A x \in Steps : x # s => executed'[x] = executed[x]
        /\ executed'[s] = executed[s] \cup {<<v, n>>}
    BY <1>1
  <1>3. ASSUME NEW x \in Steps, NEW m \in Attempts
        PROVE  Started(x, m)' <=> Started(x, m) \/ (x = s /\ m = n)
    <2>1. Started(x, m) \/ (x = s /\ m = n) => Started(x, m)'
      BY <1>2 DEF Started, Versions
    <2>2. ASSUME Started(x, m)' PROVE Started(x, m) \/ (x = s /\ m = n)
      <3>1. PICK w \in Versions : <<w, m>> \in executed'[x]
        BY <2>2 DEF Started, Versions
      <3>2. <<w, m>> \in executed[x] \/ (x = s /\ <<w, m>> = <<v, n>>)
        BY <1>2, <3>1
      <3> QED
        BY <3>2 DEF Started
    <2> QED
      BY <2>1, <2>2
  <1>4. Grows
    BY <1>2 DEF Grows
  <1>5. Calls'
    <2> SUFFICES ASSUME NEW x \in Steps, NEW m \in Attempts
                 PROVE  /\ Started(x, m)' => call'[x][m] # "none"
                        /\ call'[x][m] = "succeeded" =>
                              Started(x, m)' /\ <<m, "succeeded">> \in reported'[x]
      BY DEF Calls, Attempts, LastAttempt
    <2> QED
      BY <1>3 DEF Inv, Rows, Calls
  <1>6. RecoveryIsAuthorized'
    BY <1>2 DEF Inv, Rows, RecoveryIsAuthorized
  <1> QED
    BY <1>2, <1>3, <1>4, <1>5, <1>6 DEF Inv, TypeOK

LEMMA StartRecoveryKeeps ==
    ASSUME Inv, StartRecovery
    PROVE  Inv'
  <1> DEFINE l == local[Cycle]
  <1>1. l.pc = "start" /\ InTool /\ l \in Local
    BY AtCycle DEF StartRecovery, At, InTool, ToolStage
  <1>2. PICK s \in Steps, n \in Attempts, v \in Versions :
           s = StepOf(Cycle) /\ n = l.attempt /\ v = l.version /\ l.steps = {s}
    BY <1>1, InToolAt
  <1>3. /\ call[s][n] # "none" /\ ~Started(s, n)
        /\ \A t \in late : ~(t.step = s /\ t.attempt = n)
        /\ decided[v][s]["approved"] > 0
    BY <1>1, <1>2, AtCycle DEF InTool, Owns
  <1>4. /\ executed' = [executed EXCEPT ![s] = @ \cup {<<v, n>>}]
        /\ UNCHANGED <<latest, plan, approval, request, call, overlapped, decided, reported,
                       late, restarts>>
    BY <1>2 DEF StartRecovery
  <1>5. /\ executed' \in [Steps -> SUBSET (Versions \X Attempts)]
        /\ \A x \in Steps, m \in Attempts :
              Started(x, m)' <=> Started(x, m) \/ (x = s /\ m = n)
        /\ Grows /\ Calls' /\ RecoveryIsAuthorized'
        /\ call' \in [Steps -> [Attempts -> CallStatus]]
        /\ reported' \in [Steps -> SUBSET (Attempts \X Outcomes)]
    BY <1>3, <1>4, StartKeeps
  <1>6. PICK outcome \in Outcomes \cup {"running"} : Returns(outcome)
    BY DEF StartRecovery
  <1>7. PICK next \in Local :
              /\ Go(Cycle, next) /\ Tame(Cycle, next) /\ next.pc = "progress"
              /\ next.outcome = outcome /\ next.version = v
              /\ next.steps = {s} /\ next.attempt = n
              /\ next.row = l.row /\ next.draft = l.draft
    BY <1>1, <1>2, <1>6, ReturnsShape
  <1>8. Fits(Cycle, next)'
    <2>1. Located(next)'
      BY <1>7 DEF Located, AtStep, ToolStage, Outcomes, Versions, Attempts, LastAttempt
    <2>2. \A x \in Steps : Succeeded(x) => Succeeded(x)'
      BY <1>5, SuccessLasts
    <2>3. Started(s, n)'
      BY <1>5
    <2>4. Sourced(next)'
      BY <1>7, <2>2, <2>3, AtCycle DEF Sourced
    <2>5. Elsewhere(next)
      BY <1>7 DEF Elsewhere, Revising, ToolStage
    <2> QED
      BY <2>1, <2>4, <2>5, ElsewhereFits
  <1>9. LateTools' /\ late' \subseteq LateTool
    <2>1. LateTools /\ late \subseteq LateTool
      BY DEF Inv, Rows, TypeOK
    <2>2. ASSUME NEW t \in late
          PROVE  call'[t.step][t.attempt] # "none" /\ ~Started(t.step, t.attempt)'
      <3>1. t.step \in Steps /\ t.attempt \in Attempts
        BY <2>1 DEF LateTool
      <3> QED
        BY <1>3, <1>4, <1>5, <2>1, <3>1 DEF LateTools
    <2> QED
      BY <1>4, <2>1, <2>2 DEF LateTools
  <1> QED
    BY <1>4, <1>5, <1>7, <1>8, <1>9, Constants, WorkKeeps

\* A tool that goes on after its call has timed out.
LEMMA LateToolContinuesKeeps ==
    ASSUME Inv, NEW t \in late, LateToolContinues(t)
    PROVE  Inv'
  <1>1. /\ UNCHANGED <<latest, plan, approval, request, call, local, overlapped, decided,
                       reported, restarts>>
        /\ t.step \in Steps /\ t.attempt \in Attempts /\ t.version \in Versions
        /\ t \in LateTool /\ LateTools /\ late \subseteq LateTool
        /\ call[t.step][t.attempt] # "none" /\ ~Started(t.step, t.attempt)
    BY DEF LateToolContinues, Inv, TypeOK, Rows, LateTools, LateTool
  <1>2. PICK next : next = local[Cycle]
    OBVIOUS
  <1>3. /\ Go(Cycle, next) /\ Tame(Cycle, next) /\ next \in Local
        /\ Located(next) /\ Sourced(next) /\ Revises(next) /\ Asks(Cycle, next)
        /\ Placed(Cycle, next) /\ Owns(next)
    BY <1>1, <1>2, AtCycle, Constants DEF Go, Tame, Fits
  <1>4. Located(next)' /\ Revises(next)' /\ Placed(Cycle, next)'
    BY <1>1, <1>3 DEF Located, Revises, Placed
  <1>5. Asks(Cycle, next)'
    BY <1>1, <1>3 DEF Asks, Overtaken
  <1>6. CASE t.stage = "start"
    <2>1. /\ executed' = [executed EXCEPT ![t.step] = @ \cup {<<t.version, t.attempt>>}]
          /\ late' = late \ {t}
      BY <1>6 DEF LateToolContinues
    <2>2. decided[t.version][t.step]["approved"] > 0
      BY <1>1, <1>6 DEF LateTools
    <2>3. /\ executed' \in [Steps -> SUBSET (Versions \X Attempts)]
          /\ \A x \in Steps, m \in Attempts :
                Started(x, m)' <=> Started(x, m) \/ (x = t.step /\ m = t.attempt)
          /\ Grows /\ Calls' /\ RecoveryIsAuthorized'
          /\ call' \in [Steps -> [Attempts -> CallStatus]]
          /\ reported' \in [Steps -> SUBSET (Attempts \X Outcomes)]
      BY <1>1, <2>1, <2>2, StartKeeps
    <2>4. LateTools'
      <3>1. ASSUME NEW u \in late'
            PROVE  call'[u.step][u.attempt] # "none" /\ ~Started(u.step, u.attempt)'
        <4>1. /\ u \in late /\ u # t /\ u.step \in Steps /\ u.attempt \in Attempts
              /\ call[u.step][u.attempt] # "none" /\ ~Started(u.step, u.attempt)
          BY <1>1, <2>1 DEF LateTools, LateTool
        <4>2. ~(u.step = t.step /\ u.attempt = t.attempt)
          BY <1>1, <4>1 DEF LateTools
        <4> QED
          BY <1>1, <2>3, <4>1, <4>2
      <3>2. \A u, w \in late' : u.step = w.step /\ u.attempt = w.attempt => u = w
        BY <1>1, <2>1 DEF LateTools
      <3>3. \A u \in late' : u.stage = "start" => decided'[u.version][u.step]["approved"] > 0
        BY <1>1, <2>1 DEF LateTools
      <3> QED
        BY <3>1, <3>2, <3>3 DEF LateTools
    <2>5. Sourced(next)'
      <3>1. \A x \in Steps : Succeeded(x) => Succeeded(x)'
        BY <2>3, SuccessLasts
      <3>2. \A x \in Steps : \A m : Started(x, m) => Started(x, m)'
        BY <2>3, SuccessLasts
      <3> QED
        BY <1>3, <3>1, <3>2 DEF Sourced
    <2>6. Owns(next)'
      <3>1. SUFFICES ASSUME next.pc \in ToolStage
                     PROVE  Owns(next)'
        BY DEF Owns
      <3>2. PICK n \in Attempts : n = next.attempt
        BY <1>3, <3>1 DEF Located
      <3>3. ASSUME NEW s \in Steps, next.steps = {s}
            PROVE  /\ call[s][n] # "none" /\ ~Started(s, n)'
                   /\ \A u \in late' : ~(u.step = s /\ u.attempt = n)
                   /\ next.pc = "start" => decided[next.version][s]["approved"] > 0
        <4>1. /\ call[s][n] # "none" /\ ~Started(s, n)
              /\ \A u \in late : ~(u.step = s /\ u.attempt = n)
              /\ next.pc = "start" => decided[next.version][s]["approved"] > 0
          BY <1>3, <3>1, <3>2, <3>3 DEF Owns
        <4> QED
          BY <2>1, <2>3, <4>1
      <3> QED
        BY <1>1, <3>1, <3>2, <3>3 DEF Owns, Started
    <2>7. late' \subseteq LateTool
      BY <1>1, <2>1
    <2>8. Fits(Cycle, next)'
      BY <1>4, <1>5, <2>5, <2>6 DEF Fits
    <2> QED
      BY <1>1, <1>3, <2>3, <2>4, <2>7, <2>8, Constants, WorkKeeps
  <1>7. CASE t.stage # "start"
    <2>1. PICK u : u = [t EXCEPT !.stage = Following[@]]
      OBVIOUS
    <2>2. /\ t.stage \in {"check-plan", "check-approval"}
          /\ Following[t.stage] = IF t.stage = "check-plan" THEN "check-approval" ELSE "start"
      BY <1>1, <1>7 DEF LateTool, ToolStage, Following
    <2>3. /\ u \in LateTool /\ u.stage = Following[t.stage] /\ u.version = t.version
          /\ u.step = t.step /\ u.attempt = t.attempt
      BY <1>1, <2>1, <2>2 DEF LateTool, ToolStage
    <2>4. /\ Checked(t.stage, t.version, t.step, t.approval)
          /\ late' = (late \ {t}) \cup {u}
          /\ executed' = executed
      BY <1>7, <2>1 DEF LateToolContinues
    <2>5. u.stage = "start" => decided[u.version][u.step]["approved"] > 0
      BY <1>1, <2>2, <2>3, <2>4 DEF Checked, Authorizes, Inv, Rows, Granted
    <2>6. LateTools'
      <3>1. /\ \A w \in late' : call[w.step][w.attempt] # "none" /\ ~Started(w.step, w.attempt)
            /\ \A w \in late' : w.stage = "start" => decided[w.version][w.step]["approved"] > 0
        BY <1>1, <2>3, <2>4, <2>5 DEF LateTools
      <3>2. \A w, x \in late' : w.step = x.step /\ w.attempt = x.attempt => w = x
        BY <1>1, <2>3, <2>4 DEF LateTools
      <3> QED
        BY <1>1, <2>4, <3>1, <3>2 DEF LateTools, Started
    <2>7. late' \subseteq LateTool
      BY <1>1, <2>3, <2>4
    <2>8. Grows /\ Calls' /\ RecoveryIsAuthorized'
      BY <1>1, <2>4 DEF Grows, Inv, Rows, Calls, Started, RecoveryIsAuthorized
    <2>9. /\ call' \in [Steps -> [Attempts -> CallStatus]]
          /\ executed' \in [Steps -> SUBSET (Versions \X Attempts)]
          /\ reported' \in [Steps -> SUBSET (Attempts \X Outcomes)]
      BY <1>1, <2>4 DEF Inv, TypeOK
    <2>10. Sourced(next)'
      BY <1>1, <1>3, <2>4 DEF Sourced, Succeeded, Started
    <2>11. Owns(next)'
      <3>1. \A s \in Steps : \A n : (\A w \in late : ~(w.step = s /\ w.attempt = n)) =>
                                (\A w \in late' : ~(w.step = s /\ w.attempt = n))
        BY <2>3, <2>4
      <3>2. UNCHANGED <<call, decided>> /\ \A s, n : Started(s, n)' <=> Started(s, n)
        BY <1>1, <2>4 DEF Started
      <3> QED
        BY <1>3, <3>1, <3>2 DEF Owns
    <2>12. Fits(Cycle, next)'
      BY <1>4, <1>5, <2>10, <2>11 DEF Fits
    <2> QED
      BY <1>1, <1>3, <2>6, <2>7, <2>8, <2>9, <2>12, Constants, WorkKeeps
  <1> QED
    BY <1>6, <1>7

-----------------------------------------------------------------------------
(* The steps that write a call, and those of a call that ended *)

\* finish: the row of the call and what is reported of it.
LEMMA ReportKeepsCalls ==
    ASSUME Inv, NEW s \in Steps, NEW n \in Attempts, NEW outcome \in Outcomes,
           Report(s, n, outcome), executed' = executed,
           outcome = "succeeded" => Started(s, n)
    PROVE  /\ call' \in [Steps -> [Attempts -> CallStatus]]
           /\ reported' \in [Steps -> SUBSET (Attempts \X Outcomes)]
           /\ \A x \in Steps, m \in Attempts : call[x][m] # "none" => call'[x][m] # "none"
           /\ Calls' /\ Grows
           /\ outcome = "succeeded" => Succeeded(s)'
  <1>1. /\ call \in [Steps -> [Attempts -> CallStatus]]
        /\ reported \in [Steps -> SUBSET (Attempts \X Outcomes)]
    BY DEF Inv, TypeOK
  <1>2. /\ call' = [call EXCEPT ![s][n] = outcome]
        /\ reported' = [reported EXCEPT ![s] = @ \cup {<<n, outcome>>}]
        /\ \A x \in Steps, m \in Attempts : Started(x, m)' <=> Started(x, m)
    BY DEF Report, Started
  <1>3. /\ call' \in [Steps -> [Attempts -> CallStatus]] /\ call'[s][n] = outcome
        /\ \A x \in Steps, m \in Attempts : x # s \/ m # n => call'[x][m] = call[x][m]
    BY <1>1, <1>2 DEF CallStatus, Outcomes
  <1>4. /\ reported' \in [Steps -> SUBSET (Attempts \X Outcomes)]
        /\ \A x \in Steps : reported[x] \subseteq reported'[x]
        /\ <<n, outcome>> \in reported'[s]
    BY <1>1, <1>2
  <1>5. \A x \in Steps, m \in Attempts : call[x][m] # "none" => call'[x][m] # "none"
    BY <1>3 DEF Outcomes
  <1>6. ASSUME NEW x \in Steps, NEW m \in Attempts
        PROVE  /\ Started(x, m)' => call'[x][m] # "none"
               /\ call'[x][m] = "succeeded" =>
                     Started(x, m)' /\ <<m, "succeeded">> \in reported'[x]
    <2>1. /\ Started(x, m) => call[x][m] # "none"
          /\ call[x][m] = "succeeded" => Started(x, m) /\ <<m, "succeeded">> \in reported[x]
      BY DEF Inv, Rows, Calls
    <2> QED
      BY <1>2, <1>3, <1>4, <1>5, <2>1
  <1>7. Calls'
    BY <1>6 DEF Calls, Attempts, LastAttempt
  <1>8. outcome = "succeeded" => Succeeded(s)'
    BY <1>2, <1>4 DEF Succeeded, Attempts, LastAttempt
  <1>9. Grows
    BY <1>4 DEF Grows
  <1> QED
    BY <1>3, <1>4, <1>5, <1>7, <1>8, <1>9

LEMMA RecordOutcomeKeeps ==
    ASSUME Inv, RecordOutcome
    PROVE  Inv'
  <1> DEFINE l == local[Cycle]
  <1>1. l.pc = "progress"
    BY DEF RecordOutcome, At
  <1>2. PICK s \in Steps : l.steps = {s}
    BY <1>1, AtCycle DEF Located, AtStep
  <1>3. PICK v \in Versions, n \in Attempts, outcome \in Outcomes \cup {"running"} :
           v = l.version /\ n = l.attempt /\ outcome = l.outcome /\ StepOf(Cycle) = s
    BY <1>1, <1>2, AtCycle, OneStep DEF Located, AtStep
  <1>4. UNCHANGED <<latest, plan, approval, request, overlapped, decided, executed, late,
                    restarts>>
    BY DEF RecordOutcome
  <1>5. PICK next : next = Outcome(v, s, n, outcome) /\ Go(Cycle, next)
    BY <1>3 DEF RecordOutcome
  <1>6. /\ call' \in [Steps -> [Attempts -> CallStatus]]
        /\ reported' \in [Steps -> SUBSET (Attempts \X Outcomes)]
        /\ \A x \in Steps, m \in Attempts : call[x][m] # "none" => call'[x][m] # "none"
        /\ Calls' /\ Grows
        /\ outcome = "succeeded" => Succeeded(s)'
    <2>1. CASE outcome = "running"
      <3>1. /\ call' = [call EXCEPT ![s][n] = "running"] /\ reported' = reported
            /\ call \in [Steps -> [Attempts -> CallStatus]]
            /\ reported \in [Steps -> SUBSET (Attempts \X Outcomes)]
        BY <1>3, <2>1 DEF RecordOutcome, Inv, TypeOK
      <3>2. /\ call' \in [Steps -> [Attempts -> CallStatus]]
            /\ \A x \in Steps, m \in Attempts :
                  call'[x][m] = call[x][m] \/ call'[x][m] = "running"
        BY <3>1 DEF CallStatus
      <3>3. Calls'
        <4> SUFFICES ASSUME NEW x \in Steps, NEW m \in Attempts
                     PROVE  /\ Started(x, m)' => call'[x][m] # "none"
                            /\ call'[x][m] = "succeeded" =>
                                  Started(x, m)' /\ <<m, "succeeded">> \in reported'[x]
          BY DEF Calls, Attempts, LastAttempt
        <4>1. Started(x, m)' <=> Started(x, m)
          BY <1>4 DEF Started
        <4> QED
          BY <3>1, <3>2, <4>1 DEF Inv, Rows, Calls
      <3>4. Grows
        BY <1>4, <3>1 DEF Grows
      <3> QED
        BY <2>1, <3>1, <3>2, <3>3, <3>4
    <2>2. CASE outcome # "running"
      <3>1. Report(s, n, outcome) /\ outcome \in Outcomes
        BY <1>3, <2>2 DEF RecordOutcome
      <3>2. outcome = "succeeded" => Started(s, n)
        BY <1>1, <1>2, <1>3, AtCycle DEF Sourced
      <3> QED
        BY <1>4, <3>1, <3>2, ReportKeepsCalls
    <2> QED
      BY <2>1, <2>2
  <1>7. next \in Local /\ Fits(Cycle, next)'
    BY <1>5, <1>6, OutcomeFits
  <1>8. local'[Cycle] = next /\ Tame(Cycle, next)
    BY <1>5, AtCycle, Constants DEF Go, Tame
  <1>9. LateTools'
    <2>1. \A t \in late : t.step \in Steps /\ t.attempt \in Attempts
      BY DEF Inv, TypeOK, LateTool
    <2> QED
      BY <1>4, <1>6, <2>1 DEF Inv, Rows, LateTools, Started
  <1>10. /\ executed' \in [Steps -> SUBSET (Versions \X Attempts)]
         /\ late' \subseteq LateTool /\ RecoveryIsAuthorized'
    BY <1>4 DEF Inv, TypeOK, Rows, RecoveryIsAuthorized
  <1> QED
    BY <1>4, <1>5, <1>6, <1>7, <1>8, <1>9, <1>10, Constants, WorkKeeps

LEMMA FindCallKeeps ==
    ASSUME Inv, NEW c \in Callbacks, NEW s \in Steps, NEW n \in Attempts, FindCall(c, s, n)
    PROVE  Inv'
  <1>1. PICK outcome \in Outcomes :
           /\ Started(s, n) \/ outcome = "retryable"
           /\ Go(c, [Idle EXCEPT !.pc = "finish", !.steps = {s}, !.attempt = n,
                                 !.outcome = outcome])
    BY DEF FindCall
  <1> DEFINE next == [Idle EXCEPT !.pc = "finish", !.steps = {s}, !.attempt = n,
                                  !.outcome = outcome]
  <1>2. Go(c, next) /\ c \in Processes /\ request' \in [Versions -> [Steps -> CallStatus]]
    BY <1>1 DEF FindCall, Inv, TypeOK, Processes
  <1>3. /\ next \in Local /\ next.pc = "finish" /\ next.steps = {s} /\ next.attempt = n
        /\ next.outcome = outcome /\ next.row = NoPlan /\ next.draft = NoPlan.steps
    BY IdleIsLocal, Constants DEF Idle, Local, CallStatus, Outcomes
  <1> HIDE DEF next
  <1>4. Located(next) /\ Sourced(next)
    BY <1>1, <1>3 DEF Located, AtStep, ToolStage, Sourced, NoPlan, Absent
  <1>5. Elsewhere(next) /\ Tame(c, next)
    BY <1>3 DEF Elsewhere, Tame, Revising, ToolStage
  <1> QED
    BY <1>2, <1>3, <1>4, <1>5, ElsewhereFits, ReadKeeps DEF FindCall

LEMMA FinishCallKeeps ==
    ASSUME Inv, NEW c \in Callbacks, FinishCall(c)
    PROVE  Inv'
  <1> DEFINE l == local[c]
  <1>1. c \in Processes /\ c # Cycle /\ l.pc = "finish" /\ l \in Local
    BY ApprovalsAssumption DEF Processes, FinishCall, At, Inv, TypeOK
  <1>2. PICK s \in Steps : l.steps = {s}
    BY <1>1, AtProcess DEF Located
  <1>3. PICK n \in Attempts, outcome \in Outcomes :
           n = l.attempt /\ outcome = l.outcome /\ StepOf(c) = s
    BY <1>1, <1>2, AtProcess, OneStep DEF Located
  <1>4. /\ UNCHANGED <<latest, plan, approval, request, overlapped, decided, executed, late,
                       restarts>>
        /\ Report(s, n, outcome)
    BY <1>3 DEF FinishCall
  <1>5. PICK next \in Local :
           /\ Go(c, next) /\ next.pc = "settle" /\ next.steps = {s} /\ next.attempt = n
           /\ next.outcome = outcome /\ next.row = l.row /\ next.draft = l.draft
    <2> DEFINE moved == [l EXCEPT !.pc = "settle"]
    <2>1. /\ moved \in Local /\ moved.pc = "settle" /\ moved.steps = {s}
          /\ moved.attempt = n /\ moved.outcome = outcome /\ moved.row = l.row
          /\ moved.draft = l.draft
      BY <1>1, <1>2, <1>3 DEF Local
    <2>2. Go(c, moved)
      BY <1>1, AtProcess DEF FinishCall, Go
    <2> QED
      BY <2>1, <2>2
  <1>6. outcome = "succeeded" => Started(s, n)
    BY <1>1, <1>2, <1>3, AtProcess DEF Sourced
  <1>7. /\ call' \in [Steps -> [Attempts -> CallStatus]]
        /\ reported' \in [Steps -> SUBSET (Attempts \X Outcomes)]
        /\ \A x \in Steps, m \in Attempts : call[x][m] # "none" => call'[x][m] # "none"
        /\ Calls' /\ Grows
        /\ outcome = "succeeded" => Succeeded(s)'
    BY <1>4, <1>6, ReportKeepsCalls
  <1>8. Fits(c, next)'
    <2>1. Located(next)'
      BY <1>5 DEF Located, AtStep, ToolStage, Attempts, LastAttempt, Outcomes
    <2>2. \A x \in Steps : Succeeded(x) => Succeeded(x)'
      BY <1>7, SuccessLasts
    <2>3. Sourced(next)'
      BY <1>1, <1>5, <1>7, <2>2, AtProcess DEF Sourced
    <2>4. Elsewhere(next)
      BY <1>5 DEF Elsewhere, Revising, ToolStage
    <2> QED
      BY <2>1, <2>3, <2>4, ElsewhereFits
  <1>9. LateTools' /\ Owns(local[Cycle])'
    <2>1. local'[Cycle] = local[Cycle]
      BY <1>1, <1>5, AtCycle, Constants DEF Go
    <2> QED
      BY <1>4, <1>7, <2>1, CallsKeepOwners
  <1>10. /\ executed' \in [Steps -> SUBSET (Versions \X Attempts)]
         /\ late' \subseteq LateTool /\ RecoveryIsAuthorized'
    BY <1>4 DEF Inv, TypeOK, Rows, RecoveryIsAuthorized
  <1>11. Tame(c, next)
    BY <1>5 DEF Tame, Revising
  <1> QED
    BY <1>1, <1>4, <1>5, <1>7, <1>8, <1>9, <1>10, <1>11, WorkKeeps

LEMMA SettleCallKeeps ==
    ASSUME Inv, NEW c \in Callbacks, SettleCall(c)
    PROVE  Inv'
  <1> DEFINE l == local[c]
  <1>1. /\ c \in Processes /\ l.pc = "settle" /\ Located(l) /\ Sourced(l)
        /\ request' \in [Versions -> [Steps -> CallStatus]]
    BY DEF SettleCall, At, Inv, TypeOK, Fits, Processes
  <1>2. PICK s \in Steps : l.steps = {s}
    BY <1>1 DEF Located
  <1>3. /\ l.attempt \in Attempts /\ StepOf(c) = s /\ l.outcome \in Outcomes
        /\ l.outcome = "succeeded" => Succeeded(s)
    BY <1>1, <1>2, OneStep DEF Located, Sourced
  <1>4. PICK next :
           /\ Go(c, next)
           /\ \/ /\ ActiveVersion # 0
                 /\ next = Outcome(ActiveVersion, s, l.attempt, l.outcome)
              \/ next = Idle
    BY <1>3 DEF SettleCall, Outcome, Outcomes
  <1>5. next \in Local /\ Fits(c, next) /\ Tame(c, next)
    <2>1. CASE next = Idle
      BY <2>1, IdleFits DEF Tame
    <2>2. CASE next # Idle
      <3>1. ActiveVersion \in Versions
        BY <1>4, <2>2, ActiveIsVersion
      <3>2. next \in Local /\ next.pc = "read" /\ Fits(c, next)
        BY <1>3, <1>4, <2>2, <3>1, OutcomeFits
      <3> QED
        BY <3>2 DEF Tame, Revising
    <2> QED
      BY <2>1, <2>2
  <1> QED
    BY <1>1, <1>4, <1>5, ReadKeeps DEF SettleCall

LEMMA CompletePlanKeeps ==
    ASSUME Inv, CompletePlan
    PROVE  Inv'
  <1> DEFINE row == [plan[latest] EXCEPT !.status = "completed"]
  <1>1. latest \in Versions /\ plan[latest] \in Plan
    BY ApprovalsAssumption DEF CompletePlan, Inv, TypeOK, Versions
  <1>2. row \in Plan /\ row.steps = plan[latest].steps
    BY <1>1 DEF Plan, PlanStatus
  <1>3. \A s \in Steps : row.steps[s].status = "completed" => Succeeded(s)
    BY <1>1, <1>2 DEF Inv, Rows, CompletedMeansSucceeded, Succeeded
  <1>4. PICK next \in Local :
           /\ Go(Cycle, next) /\ next.pc = "save" /\ next.draft = NoPlan.steps
           /\ \A s \in Steps : next.row.steps[s].status = "completed" => Succeeded(s)
    <2> HIDE DEF row
    <2> DEFINE moved == [Idle EXCEPT !.pc = "save", !.version = latest, !.row = row]
    <2>1. moved \in Local /\ moved.pc = "save" /\ moved.row = row /\ moved.draft = NoPlan.steps
      BY <1>1, <1>2, IdleIsLocal, Constants DEF Idle, Local
    <2>2. Go(Cycle, moved)
      BY DEF CompletePlan, row
    <2> QED
      BY <1>3, <2>1, <2>2
  <1>5. Located(next) /\ Sourced(next)
    BY <1>4 DEF Located, AtStep, ToolStage, Sourced, NoPlan, Absent
  <1>6. Elsewhere(next) /\ Tame(Cycle, next)
    BY <1>4 DEF Elsewhere, Tame, Revising, ToolStage
  <1> QED
    BY <1>4, <1>5, <1>6, AtCycle, Constants, ElsewhereFits, ReadKeeps DEF CompletePlan

LEMMA RestartKeeps ==
    ASSUME Inv, Restart
    PROVE  Inv'
  <1>1. /\ local' = [p \in Processes |-> Idle] /\ late' = {}
        /\ restarts' \in 0..MaximumRestarts
        /\ UNCHANGED <<latest, plan, approval, request, call, decided, executed, reported,
                       overlapped>>
    BY ApprovalsAssumption DEF Restart, history, Inv, TypeOK
  <1>2. TypeOK'
    BY <1>1, IdleIsLocal DEF Inv, TypeOK
  <1>3. Rows'
    <2>1. LateTools'
      BY <1>1 DEF LateTools
    <2> QED
      BY <1>1, <2>1 DEF Inv, Rows, Calls, Granted, Succeeded, Started,
                    RecoveryIsAuthorized, PendingIsOfLatestPlan, CompletedMeansSucceeded
  <1>4. ASSUME NEW p \in Processes PROVE Fits(p, local[p])'
    <2>1. local'[p] = Idle
      BY <1>1
    <2> QED
      BY <2>1, IdleFits
  <1> QED
    BY <1>2, <1>3, <1>4 DEF Inv

-----------------------------------------------------------------------------
(* The theorems *)

LEMMA InitInv == Init => Inv
  <1> SUFFICES ASSUME Init PROVE Inv
    OBVIOUS
  <1>1. TypeOK
    BY IdleIsLocal, NoPlanIsPlan, ApprovalsAssumption
       DEF Init, TypeOK, ApprovalStatus, CallStatus
  <1>2. Rows
    BY DEF Init, Rows, LateTools, Calls, Granted, Started, NoPlan, Absent,
           RecoveryIsAuthorized, PendingIsOfLatestPlan, CompletedMeansSucceeded
  <1>3. \A p \in Processes : Fits(p, local[p])
    BY IdleFits DEF Init
  <1> QED
    BY <1>1, <1>2, <1>3 DEF Inv

LEMMA StepKeepsInv == Inv /\ [Next]_vars => Inv'
  <1> SUFFICES ASSUME Inv, [Next]_vars PROVE Inv'
    OBVIOUS
  <1>1. ASSUME NEW p \in Processes, Continue(p) PROVE Inv'
    BY <1>1, ReadStepKeeps, SavePlanKeeps, RecordDecisionKeeps, ApplyDecisionKeeps
       DEF Continue
  <1>2. ASSUME NEW o \in Operators, NEW v \in Versions, NEW s \in Steps, NEW d \in Decisions,
               Decide(o, v, s, d)
        PROVE  Inv'
    BY <1>2, DecideKeeps
  <1>3. ASSUME NEW o \in Operators, CheckActivePlan(o) PROVE Inv'
    BY <1>3, CheckActivePlanKeeps
  <1>4. ASSUME NEW t \in Ticks, Tick(t) PROVE Inv'
    BY <1>4, ExpireKeeps DEF Tick
  <1>5. ASSUME NEW c \in Callbacks, NEW s \in Steps, NEW n \in Attempts, FindCall(c, s, n)
        PROVE  Inv'
    BY <1>5, FindCallKeeps
  <1>6. ASSUME NEW c \in Callbacks, FinishCall(c) \/ SettleCall(c) \/ ExpireRequest(c)
        PROVE  Inv'
    BY <1>6, FinishCallKeeps, SettleCallKeeps, ExpireRequestKeeps
  <1>7. ASSUME NEW c \in Callbacks, NEW v \in Versions, NEW s \in Steps, FindRequest(c, v, s)
        PROVE  Inv'
    BY <1>7, FindRequestKeeps
  <1>8. ASSUME CycleStep PROVE Inv'
    BY <1>8, AcceptPlanKeeps, RequestApprovalKeeps, DispatchKeeps, FinishRequestKeeps,
       CheckRecoveryKeeps, RefuseRecoveryKeeps, StartRecoveryKeeps, TimeOutToolKeeps,
       RecordOutcomeKeeps, CompletePlanKeeps
       DEF CycleStep
  <1>9. ASSUME NEW p \in Bodies \cup {Cycle}, Body(p) PROVE Inv'
    <2>1. p \in Processes
      BY Constants
    <2> QED
      BY <1>9, <2>1, CheckPreviousKeeps, ListPendingKeeps, SupersedePendingKeeps,
         ReadPreviousKeeps, SavePreviousKeeps, InsertPlanKeeps, InsertApprovalKeeps
         DEF Body
  <1>10. ASSUME NEW b \in Bodies, TimeOutSave(b) \/ TimeOutRequest(b) PROVE Inv'
    BY <1>10, TimeOutSaveKeeps, TimeOutRequestKeeps
  <1>11. ASSUME NEW t \in late, LateToolContinues(t) PROVE Inv'
    BY <1>11, LateToolContinuesKeeps
  <1>12. ASSUME Restart PROVE Inv'
    BY <1>12, RestartKeeps
  <1>13. ASSUME UNCHANGED vars PROVE Inv'
    <2>1. PICK next : next = local[Cycle]
      OBVIOUS
    <2>2. /\ Go(Cycle, next) /\ Tame(Cycle, next) /\ next \in Local /\ Fits(Cycle, next)
          /\ request' \in [Versions -> [Steps -> CallStatus]]
      BY <1>13, <2>1, AtCycle, Constants DEF vars, Go, Tame
    <2> QED
      BY <1>13, <2>2, Constants, ReadKeeps DEF vars
  <1> QED
    BY <1>1, <1>2, <1>3, <1>4, <1>5, <1>6, <1>7, <1>8, <1>9, <1>10, <1>11, <1>12, <1>13
       DEF Next

\* The inductive invariant holds of every reachable state.
THEOREM InvHolds == Spec => []Inv
  <1> QED
    BY InitInv, StepKeepsInv, PTL DEF Spec

\* Every row and everything a process has read has a value of its type.
THEOREM TypeCorrect == Spec => []TypeOK
  <1>1. Inv => TypeOK
    BY DEF Inv
  <1> QED
    BY <1>1, InvHolds, PTL

\* No recovery starts without an approval that an operator granted for its step in
\* its version of the plan, whatever stale rows RecoveryTool.execute reads.
THEOREM RecoveryIsAuthorizedHolds == Spec => []RecoveryIsAuthorized
  <1>1. Inv => RecoveryIsAuthorized
    BY DEF Inv, Rows
  <1> QED
    BY <1>1, InvHolds, PTL

\* A revision leaves no approval of an earlier plan pending, except one that was
\* requested while a late save_recovery_plan was still revising that plan, or by a
\* request_approval that was late itself.
THEOREM PendingIsOfLatestPlanHolds == Spec => []PendingIsOfLatestPlan
  <1>1. Inv => PendingIsOfLatestPlan
    BY DEF Inv, Rows
  <1> QED
    BY <1>1, InvHolds, PTL

\* A step is completed in no version of the plan unless its recovery was started and
\* reported success.
THEOREM CompletedMeansSucceededHolds == Spec => []CompletedMeansSucceeded
  <1>1. Inv => CompletedMeansSucceeded
    BY DEF Inv, Rows
  <1> QED
    BY <1>1, InvHolds, PTL

\* An attempt of a step starts one recovery in all versions of the plan together:
\* its tool, in the hands of the cycle or timed out, is the only one that may.
THEOREM AttemptStartsOnce ==
    Spec => [][\A s \in Steps : \A e \in executed'[s] \ executed[s] : ~Started(s, e[2])]_vars
  <1> DEFINE Once == \A s \in Steps : \A e \in executed'[s] \ executed[s] : ~Started(s, e[2])
  <1>1. Inv /\ [Next]_vars => [Once]_vars
    <2> SUFFICES ASSUME Inv, Next, NEW s \in Steps, NEW e \in executed'[s] \ executed[s]
                 PROVE  ~Started(s, e[2])
      OBVIOUS
    <2>1. executed' # executed
      OBVIOUS
    <2>2. StartRecovery \/ \E t \in late : LateToolContinues(t)
      BY <2>1 DEF Next, Continue, Tick, Body, CycleStep, ReadStep, SavePlan, RecordDecision,
         ApplyDecision, Decide, CheckActivePlan, Expire, FindCall, FinishCall, SettleCall,
         FindRequest, ExpireRequest, AcceptPlan, CheckPrevious, ListPending,
         SupersedePending, ReadPrevious, SavePrevious, InsertPlan, TimeOutSave,
         RequestApproval, InsertApproval, FinishRequest, TimeOutRequest, Dispatch,
         CheckRecovery, RefuseRecovery, TimeOutTool, RecordOutcome, CompletePlan, Restart,
         history
    <2>3. executed \in [Steps -> SUBSET (Versions \X Attempts)]
      BY DEF Inv, TypeOK
    <2>4. CASE StartRecovery
      <3>1. local[Cycle].pc = "start" /\ InTool
        BY <2>4 DEF StartRecovery, At, InTool, ToolStage
      <3>2. PICK x \in Steps, v \in Versions, n \in Attempts :
               /\ x = StepOf(Cycle) /\ v = local[Cycle].version /\ n = local[Cycle].attempt
               /\ local[Cycle].steps = {x}
        BY <3>1, InToolAt
      <3>3. ~Started(x, n)
        BY <3>1, <3>2, AtCycle DEF InTool, Owns
      <3>4. executed' = [executed EXCEPT ![x] = @ \cup {<<v, n>>}]
        BY <2>4, <3>2 DEF StartRecovery
      <3>5. s = x /\ e = <<v, n>>
        BY <2>3, <3>4
      <3> QED
        BY <3>3, <3>5
    <2>5. ASSUME NEW t \in late, LateToolContinues(t)
          PROVE  ~Started(s, e[2])
      <3>1. /\ ~Started(t.step, t.attempt) /\ t.step \in Steps
        BY DEF Inv, Rows, LateTools, TypeOK, LateTool
      <3>2. executed' = [executed EXCEPT ![t.step] = @ \cup {<<t.version, t.attempt>>}]
        BY <2>1, <2>5 DEF LateToolContinues
      <3>3. s = t.step /\ e = <<t.version, t.attempt>>
        BY <2>3, <3>1, <3>2
      <3> QED
        BY <3>1, <3>3
    <2> QED
      BY <2>2, <2>4, <2>5
  <1> QED
    BY <1>1, InvHolds, PTL DEF Spec
=============================================================================

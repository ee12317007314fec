-------------------------- MODULE AgentCycleProofs --------------------------
(***************************************************************************)
(* Proofs about AgentCycle, for any number of executions and any bounds.   *)
(*                                                                         *)
(* OneWorkingCycle is not inductive: a reset makes the server forget the   *)
(* lock under a working cycle, and later triggers begin executions beside  *)
(* it.  What saves it is that the row is inactive before the lock is       *)
(* forgotten and for ever after, so that those executions are skipped      *)
(* before they work.  Inv says this: as long as the run is active the lock *)
(* excludes a second execution, and nothing enters the working stages once *)
(* it is not.                                                              *)
(***************************************************************************)
EXTENDS AgentCycle, TLAPS

-----------------------------------------------------------------------------
(* The inductive invariant *)

\* While the run is active at most one execution is in flight, working or not.
OneExecution ==
    active => \A c, d \in Slots : stage[c] # "idle" /\ stage[d] # "idle" => c = d

\* A lock belongs to an entry: finish releases only the lock of a known run.
LockIsKnown == entry.inProgress => entry.known

\* The lock is only forgotten after the row has become inactive.
ForgottenAfterReset == forgetDue => ~active

Exclusion == OneWorkingCycle /\ LockHeldByExecution /\ OneExecution /\ LockIsKnown

Inv == TypeOK /\ Exclusion /\ ForgottenAfterReset

-----------------------------------------------------------------------------
(* Exclusion through the steps of an execution and of the lock *)

\* An execution in flight moves on.  It only starts to work in an active run.
LEMMA MovingOn ==
    ASSUME TypeOK, Exclusion, NEW c \in Slots, stage[c] # "idle",
           NEW next \in Stage \ {"idle"},
           stage' = [stage EXCEPT ![c] = next],
           next \in Working => stage[c] \in Working \/ active,
           entry' = entry, active' = active
    PROVE  Exclusion'
  <1>1. stage \in [Slots -> Stage]
    BY DEF TypeOK
  <1>2. \A d \in Slots : stage'[d] = IF d = c THEN next ELSE stage[d]
    BY <1>1
  <1>3. \A d \in Slots : stage'[d] # "idle" <=> stage[d] # "idle"
    BY <1>2
  <1>4. OneExecution' /\ LockHeldByExecution' /\ LockIsKnown'
    BY <1>3 DEF Exclusion, OneExecution, LockHeldByExecution, LockIsKnown
  <1>5. OneWorkingCycle'
    <2>1. CASE stage[c] \in Working
      BY <1>2, <2>1 DEF Exclusion, OneWorkingCycle
    <2>2. CASE next \notin Working
      BY <1>2, <2>2 DEF Exclusion, OneWorkingCycle
    <2>3. CASE active
      BY <1>3, <1>4, <2>3 DEF OneExecution, OneWorkingCycle, Working
    <2> QED
      BY <2>1, <2>2, <2>3
  <1> QED
    BY <1>4, <1>5 DEF Exclusion

\* A step that leaves the executions and the lock alone, and does not revive the
\* run.
LEMMA LeavingAlone ==
    ASSUME Exclusion, stage' = stage, entry' = entry, active' => active
    PROVE  Exclusion'
  BY DEF Exclusion, OneWorkingCycle, LockHeldByExecution, OneExecution, LockIsKnown

\* requestCycle: a busy run is only marked, an idle one gets the execution c.
LEMMA RequestCycleExcludes ==
    ASSUME TypeOK, Exclusion, NEW c \in Slots, RequestCycle(c), active' = active
    PROVE  Exclusion'
  <1>1. stage \in [Slots -> Stage] /\ entry \in Entry
    BY DEF TypeOK
  <1>2. CASE entry.inProgress
    <2>1. stage' = stage /\ entry'.inProgress = entry.inProgress /\ entry'.known = entry.known
      BY <1>1, <1>2 DEF RequestCycle, execution, Entry
    <2> QED
      BY <2>1 DEF Exclusion, OneWorkingCycle, LockHeldByExecution, OneExecution, LockIsKnown
  <1>3. CASE ~entry.inProgress
    <2>1. /\ stage' = [stage EXCEPT ![c] = "checking"]
          /\ entry'.inProgress /\ entry'.known
      BY <1>1, <1>3 DEF RequestCycle, Begin, Entry
    <2>2. \A d \in Slots : stage'[d] = IF d = c THEN "checking" ELSE stage[d]
      BY <1>1, <2>1
    <2>3. OneWorkingCycle'
      BY <2>2 DEF Exclusion, OneWorkingCycle, Working
    <2>4. LockHeldByExecution' /\ LockIsKnown'
      BY <2>1, <2>2 DEF LockHeldByExecution, LockIsKnown
    <2>5. OneExecution'
      BY <1>3, <2>2 DEF Exclusion, LockHeldByExecution, OneExecution
    <2> QED
      BY <2>3, <2>4, <2>5 DEF Exclusion
  <1> QED
    BY <1>2, <1>3

\* The end of a cycle releases the lock exactly when no follow-up cycle begins.
LEMMA FinishExcludes ==
    ASSUME TypeOK, Exclusion, NEW c \in Slots, NEW used \in BOOLEAN, Finish(c, used)
    PROVE  Exclusion'
  <1> DEFINE outcome == IF active THEN result[c] ELSE "skipped"
             again   == RunsAgain(outcome, used)
  <1>1. /\ stage \in [Slots -> Stage] /\ entry \in Entry
        /\ stage[c] = "finishing" /\ active' = active
        /\ entry' = EntryAfter(outcome, again)
        /\ stage' = [stage EXCEPT ![c] = IF again THEN "checking" ELSE "idle"]
    BY DEF TypeOK, Finish, environment
  <1>2. \A d \in Slots :
          stage'[d] = IF d = c THEN IF again THEN "checking" ELSE "idle" ELSE stage[d]
    BY <1>1
  <1>3. OneWorkingCycle'
    BY <1>2 DEF Exclusion, OneWorkingCycle, Working
  <1>4. OneExecution'
    BY <1>1, <1>2 DEF Exclusion, OneExecution
  <1>5. LockIsKnown'
    BY <1>1 DEF EntryAfter, Exclusion, LockIsKnown
  <1>6. LockHeldByExecution'
    <2> SUFFICES ASSUME active
                 PROVE  entry'.inProgress <=> \E d \in Slots : stage'[d] # "idle"
      BY <1>1 DEF LockHeldByExecution
    <2>1. entry.inProgress /\ entry.known
      BY <1>1 DEF Exclusion, LockHeldByExecution, LockIsKnown
    <2>2. entry'.inProgress = again
      BY <1>1, <2>1 DEF EntryAfter
    <2>3. \A d \in Slots \ {c} : stage'[d] = "idle"
      BY <1>1, <1>2 DEF Exclusion, OneExecution
    <2>4. stage'[c] # "idle" <=> again
      BY <1>2
    <2> QED
      BY <2>2, <2>3, <2>4
  <1> QED
    BY <1>3, <1>4, <1>5, <1>6 DEF Exclusion

-----------------------------------------------------------------------------
(* Types *)

\* Every step keeps the types.  RunsAgain decides on booleans of the entry.
LEMMA RequestCycleType ==
    ASSUME TypeOK, NEW c \in Slots, RequestCycle(c)
    PROVE  /\ entry' \in Entry
           /\ stage' \in [Slots -> Stage]
           /\ turn' = turn /\ fresh' = fresh /\ result' = result
  <1>1. CASE entry.inProgress
    BY <1>1 DEF TypeOK, RequestCycle, Entry, execution
  <1>2. CASE ~entry.inProgress
    <2>1. Begin(c)
      BY <1>2 DEF RequestCycle
    <2>2. entry' \in Entry
      BY <2>1 DEF TypeOK, Begin, Entry
    <2>3. stage' \in [Slots -> Stage]
      BY <2>1 DEF TypeOK, Begin, Stage
    <2> QED
      BY <2>1, <2>2, <2>3 DEF Begin
  <1> QED
    BY <1>1, <1>2

LEMMA ExecuteType ==
    ASSUME TypeOK, NEW c \in Slots, Execute(c) \/ CycleThrows(c)
    PROVE  TypeOK'
  <1> USE CycleAssumption DEF TypeOK
  <1>1. CASE SkipCycle(c)
    BY <1>1 DEF SkipCycle, Return, environment, memory, bounds, Stage, Outcome
  <1>2. CASE StartCycle(c)
    <2>1. exhausted' \in BOOLEAN
      BY <1>2 DEF StartCycle
    <2>2. CASE exhausted'
      BY <1>2, <2>1, <2>2 DEF StartCycle, Return, memory, bounds, Stage, Outcome
    <2>3. CASE ~exhausted'
      <3>1. plan' \in PlanState /\ fresh' \in [Slots -> BOOLEAN]
        BY <1>2, <2>3 DEF StartCycle, Stale, PlanState
      <3> QED
        BY <1>2, <2>1, <2>3, <3>1 DEF StartCycle, memory, bounds, Stage
    <2> QED
      BY <2>2, <2>3
  <1>3. CASE Observe(c)
    <2>1. turn' \in [Slots -> 0..MaximumTurns]
      BY <1>3 DEF Observe, TurnsLeft
    <2> QED
      BY <1>3, <2>1 DEF Observe, Return, environment, memory, bounds, Stage, Outcome
  <1>4. CASE Answer(c)
    <2>1. CASE ProviderFails(c) \/ DiscardAnswer(c) \/ StaleAnswer(c)
      BY <2>1 DEF ProviderFails, DiscardAnswer, StaleAnswer, Return,
                  environment, memory, bounds, Stage, Outcome
    <2>2. CASE CompareAnswer(c) \/ RejectAnswer(c)
      BY <2>2 DEF CompareAnswer, RejectAnswer, environment, memory, bounds, Stage
    <2>3. CASE AcceptAction(c)
      BY <2>3 DEF AcceptAction, Stale, memory, bounds, Stage, PlanState
    <2>4. CASE AcceptWait(c)
      BY <2>4 DEF AcceptWait, Return, memory, bounds, Stage, Outcome
    <2> QED
      BY <1>4, <2>1, <2>2, <2>3, <2>4 DEF Answer, AcceptDecision
  <1>5. ASSUME NEW used \in BOOLEAN, Finish(c, used) PROVE TypeOK'
    <2>1. (IF active THEN result[c] ELSE "skipped") \in Outcome
      BY DEF Outcome
    <2>2. entry' \in Entry
      BY <1>5, <2>1 DEF Finish, EntryAfter, RunsAgain, Entry
    <2>3. stage' \in [Slots -> Stage] /\ turn' \in [Slots -> 0..MaximumTurns]
      BY <1>5 DEF Finish, Stage
    <2> QED
      BY <1>5, <2>2, <2>3 DEF Finish, environment, bounds, Outcome
  <1>6. CASE CycleThrows(c)
    BY <1>6 DEF CycleThrows, Return, environment, memory, Stage, Outcome
  <1> QED
    BY <1>1, <1>2, <1>3, <1>4, <1>5, <1>6 DEF Execute

LEMMA EnvironmentType ==
    ASSUME TypeOK, CooldownEnds \/ WorkSettles \/ OnRunDeactivated \/ External
    PROVE  TypeOK'
  <1> USE CycleAssumption DEF TypeOK
  <1>1. CASE CooldownEnds
    BY <1>1 DEF CooldownEnds, environment, execution, bounds
  <1>2. CASE WorkSettles
    BY <1>2 DEF WorkSettles, Emit, Stale, memory, PlanState
  <1>3. CASE OnRunDeactivated
    BY <1>3 DEF OnRunDeactivated, InitialState, Entry, Outcome, environment, execution, bounds
  <1>4. CASE ApplyChange
    <2>1. changes' \in 0..MaximumChanges /\ queue' \in 0..MaximumQueue
      BY <1>4 DEF ApplyChange, Emit
    <2>2. recovered' \in BOOLEAN /\ fresh' \in [Slots -> BOOLEAN]
      BY <1>4 DEF ApplyChange, Stale
    <2> QED
      BY <1>4, <2>1, <2>2 DEF ApplyChange, memory
  <1>5. CASE IncomingCallReceived
    BY <1>5 DEF IncomingCallReceived, Emit, Stale, memory
  <1>6. CASE IncomingCallConfirmed
    <2>1. queue' \in 0..MaximumQueue /\ fresh' \in [Slots -> BOOLEAN]
      BY <1>6 DEF IncomingCallConfirmed, Emit, Stale
    <2> QED
      BY <1>6, <2>1 DEF IncomingCallConfirmed, memory, bounds
  <1>7. CASE Deactivate
    BY <1>7 DEF Deactivate, Stale, bounds
  <1>8. CASE Restart
    <2>1. entry' \in Entry
      BY <1>8 DEF Restart, InitialState, Entry, Outcome
    <2>2. /\ stage' \in [Slots -> Stage] /\ turn' \in [Slots -> 0..MaximumTurns]
          /\ fresh' \in [Slots -> BOOLEAN] /\ result' \in [Slots -> Outcome]
      BY <1>8 DEF Restart, Stage, Stale, Outcome
    <2>3. queue' \in 0..MaximumQueue /\ restarts' \in 0..MaximumRestarts
      BY <1>8 DEF Restart
    <2> QED
      BY <1>8, <2>1, <2>2, <2>3 DEF Restart
  <1> QED
    BY <1>1, <1>2, <1>3, <1>4, <1>5, <1>6, <1>7, <1>8 DEF External

-----------------------------------------------------------------------------
(* The invariant *)

LEMMA InvInit == Init => Inv
  <1> SUFFICES ASSUME Init PROVE Inv
    OBVIOUS
  <1>1. TypeOK
    <2>1. entry \in Entry
      BY DEF Init, InitialState, Entry, Outcome
    <2>2. /\ stage \in [Slots -> Stage] /\ turn \in [Slots -> 0..MaximumTurns]
          /\ fresh \in [Slots -> BOOLEAN] /\ result \in [Slots -> Outcome]
      BY CycleAssumption DEF Init, Stage, Stale, Outcome
    <2>3. /\ queue \in 0..MaximumQueue /\ plan \in PlanState
          /\ changes \in 0..MaximumChanges /\ restarts \in 0..MaximumRestarts
      BY CycleAssumption DEF Init, PlanState
    <2> QED
      BY <2>1, <2>2, <2>3 DEF Init, TypeOK
  <1>2. Exclusion
    BY DEF Init, InitialState, Exclusion, OneWorkingCycle, LockHeldByExecution,
           OneExecution, LockIsKnown, Working
  <1> QED
    BY <1>1, <1>2 DEF Inv, Init, ForgottenAfterReset

\* Where a step takes an execution in flight.  It only starts to work in an active run.
MovesTo(c, next) ==
    /\ stage[c] # "idle" /\ stage' = [stage EXCEPT ![c] = next]
    /\ next \in Working => stage[c] \in Working \/ active

\* Every step of an execution is such a move, and only its end changes the lock.
LEMMA ExecutionMoves ==
    ASSUME NEW c \in Slots, Execute(c) \/ CycleThrows(c)
    PROVE  /\ active' = active
           /\ \E next \in Stage :
                /\ MovesTo(c, next)
                /\ \/ next # "idle" /\ entry' = entry
                   \/ \E used \in BOOLEAN : Finish(c, used)
  <1> DEFINE Goes(next) == MovesTo(c, next) /\ entry' = entry /\ active' = active
  <1>1. ASSUME NEW next \in Stage \ {"idle"}, Goes(next)
        PROVE  /\ active' = active
               /\ \E n \in Stage : MovesTo(c, n) /\ n # "idle" /\ entry' = entry
    BY <1>1
  <1> USE DEF Stage, Working, MovesTo
  <1>2. CASE SkipCycle(c) \/ CycleThrows(c)
    <2>1. Goes("finishing")
      BY <1>2 DEF SkipCycle, CycleThrows, Return, environment, memory
    <2> QED
      BY <1>1, <2>1
  <1>3. CASE StartCycle(c)
    <2>1. Goes("finishing") \/ Goes("observing")
      BY <1>3 DEF StartCycle, Return, memory
    <2> QED
      BY <1>1, <2>1
  <1>4. CASE Observe(c)
    <2>1. Goes("finishing") \/ Goes("deciding")
      BY <1>4 DEF Observe, Return, environment, memory
    <2> QED
      BY <1>1, <2>1
  <1>5. CASE ProviderFails(c) \/ DiscardAnswer(c) \/ StaleAnswer(c)
    <2>1. Goes("finishing") \/ Goes("observing")
      BY <1>5 DEF ProviderFails, DiscardAnswer, StaleAnswer, Return, environment, memory
    <2> QED
      BY <1>1, <2>1
  <1>6. CASE CompareAnswer(c) \/ RejectAnswer(c)
    <2>1. Goes("accepting") \/ Goes("observing")
      BY <1>6 DEF CompareAnswer, RejectAnswer, environment, memory
    <2> QED
      BY <1>1, <2>1
  <1>7. CASE AcceptDecision(c)
    <2>1. Goes("observing") \/ Goes("finishing")
      BY <1>7 DEF AcceptDecision, AcceptAction, AcceptWait, Return, memory
    <2> QED
      BY <1>1, <2>1
  <1>8. ASSUME NEW used \in BOOLEAN, Finish(c, used)
        PROVE  active' = active /\ \E next \in {"idle", "checking"} : MovesTo(c, next)
    BY <1>8 DEF Finish, environment
  <1> QED
    BY <1>2, <1>3, <1>4, <1>5, <1>6, <1>7, <1>8 DEF Execute, Answer

LEMMA ExecuteExcludes ==
    ASSUME TypeOK, Exclusion, NEW c \in Slots, Execute(c) \/ CycleThrows(c)
    PROVE  Exclusion'
  <1>1. active' = active
    BY ExecutionMoves
  <1>2. PICK next \in Stage :
          /\ MovesTo(c, next)
          /\ \/ next # "idle" /\ entry' = entry
             \/ \E used \in BOOLEAN : Finish(c, used)
    BY ExecutionMoves
  <1>3. CASE next # "idle" /\ entry' = entry
    BY <1>1, <1>2, <1>3, MovingOn DEF MovesTo
  <1>4. ASSUME NEW used \in BOOLEAN, Finish(c, used) PROVE Exclusion'
    BY <1>4, FinishExcludes
  <1> QED
    BY <1>2, <1>3, <1>4

LEMMA InvNext == Inv /\ [Next]_vars => Inv'
  <1> SUFFICES ASSUME Inv, [Next]_vars PROVE Inv'
    OBVIOUS
  <1> USE DEF Inv
  <1>1. ASSUME NEW c \in Slots, Execute(c) \/ CycleThrows(c) PROVE Inv'
    <2>1. active' = active /\ forgetDue' = forgetDue
      BY <1>1 DEF Execute, CycleThrows, SkipCycle, StartCycle, Observe, Answer, ProviderFails,
                  DiscardAnswer, StaleAnswer, CompareAnswer, RejectAnswer, AcceptDecision,
                  AcceptAction, AcceptWait, Finish, environment, memory
    <2> QED
      BY <1>1, <2>1, ExecuteType, ExecuteExcludes DEF ForgottenAfterReset
  <1>2. ASSUME NEW c \in Slots, Deliver(c) PROVE Inv'
    <2>1. RequestCycle(c) /\ active' = active /\ forgetDue' = forgetDue
      BY <1>2 DEF Deliver
    <2>2. TypeOK'
      BY <1>2, <2>1, RequestCycleType, CycleAssumption DEF Deliver, TypeOK, bounds
    <2> QED
      BY <2>1, <2>2, RequestCycleExcludes DEF ForgottenAfterReset
  <1>3. ASSUME NEW c \in Slots, ResumeStalledRun(c) PROVE Inv'
    <2>1. RequestCycle(c) /\ active' = active /\ forgetDue' = forgetDue
      BY <1>3 DEF ResumeStalledRun, environment
    <2>2. TypeOK'
      BY <1>3, <2>1, RequestCycleType DEF ResumeStalledRun, TypeOK, environment, bounds
    <2> QED
      BY <2>1, <2>2, RequestCycleExcludes DEF ForgottenAfterReset
  <1>4. CASE CooldownEnds \/ WorkSettles
    <2>1. /\ stage' = stage /\ entry' = entry
          /\ active' = active /\ forgetDue' = forgetDue
      BY <1>4 DEF CooldownEnds, WorkSettles, environment, execution, memory
    <2> QED
      BY <1>4, <2>1, EnvironmentType, LeavingAlone DEF ForgottenAfterReset
  <1>5. CASE ApplyChange \/ IncomingCallReceived \/ IncomingCallConfirmed
    <2>1. /\ stage' = stage /\ entry' = entry
          /\ active' = active /\ forgetDue' = forgetDue
      BY <1>5 DEF ApplyChange, IncomingCallReceived, IncomingCallConfirmed, memory
    <2> QED
      BY <1>5, <2>1, EnvironmentType, LeavingAlone DEF External, ForgottenAfterReset
  <1>6. CASE Deactivate
    <2>1. stage' = stage /\ entry' = entry /\ ~active'
      BY <1>6 DEF Deactivate
    <2> QED
      BY <1>6, <2>1, EnvironmentType, LeavingAlone DEF External, ForgottenAfterReset
  <1>7. CASE OnRunDeactivated
    <2>1. stage' = stage /\ ~active' /\ ~forgetDue' /\ entry' = InitialState
      BY <1>7 DEF OnRunDeactivated, ForgottenAfterReset, environment, execution
    <2>2. Exclusion'
      BY <2>1 DEF Exclusion, OneWorkingCycle, LockHeldByExecution, OneExecution,
                  LockIsKnown, InitialState
    <2> QED
      BY <1>7, <2>1, <2>2, EnvironmentType DEF ForgottenAfterReset
  <1>8. CASE Restart
    <2>1. /\ \A d \in Slots : stage'[d] = "idle"
          /\ ~entry'.inProgress /\ ~forgetDue'
      BY <1>8 DEF Restart, InitialState
    <2>2. Exclusion'
      BY <2>1 DEF Exclusion, OneWorkingCycle, LockHeldByExecution, OneExecution,
                  LockIsKnown, Working
    <2> QED
      BY <1>8, <2>1, <2>2, EnvironmentType DEF External, ForgottenAfterReset
  <1>9. CASE UNCHANGED vars
    <2>1. UNCHANGED <<active, stage, entry, forgetDue>> /\ TypeOK'
      BY <1>9 DEF TypeOK, vars, environment, memory, execution, bounds
    <2> QED
      BY <2>1, LeavingAlone DEF ForgottenAfterReset
  <1> QED
    BY <1>1, <1>2, <1>3, <1>4, <1>5, <1>6, <1>7, <1>8, <1>9 DEF Next, External

\* The invariant holds of every state that the cycles of a run can reach.
THEOREM InvHolds == Spec => []Inv
  BY InvInit, InvNext, PTL DEF Spec

\* Every component of the cycle state keeps its type: no turn beyond the maximum,
\* no outcome that requestCycle does not know.
THEOREM TypeCorrect == Spec => []TypeOK
  <1>1. Inv => TypeOK
    BY DEF Inv
  <1> QED
    BY <1>1, InvHolds, PTL

\* Two cycles of one run never work at the same time, for any number of triggers
\* and executions (AgentCycleStateService, executeCycle).
THEOREM OneWorkingCycleHolds == Spec => []OneWorkingCycle
  <1>1. Inv => OneWorkingCycle
    BY DEF Inv, Exclusion
  <1> QED
    BY <1>1, InvHolds, PTL

\* The lock of an active run is held exactly while an execution is in flight: no
\* path of failure leaks it.
THEOREM LockHeldByExecutionHolds == Spec => []LockHeldByExecution
  <1>1. Inv => LockHeldByExecution
    BY DEF Inv, Exclusion
  <1> QED
    BY <1>1, InvHolds, PTL
-----------------------------------------------------------------------------
(* The safety part of ExclusiveCycles, under the mapping of AgentCycle: every step     *)
(* starts to work, stops, resets the run or changes neither of the two variables.     *)

Worked == {c \in Slots : stage[c] \in Working}

\* While one execution works and another stage is entered, the others are not working.
LEMMA StageMoves ==
    ASSUME Inv, NEW c \in Slots, NEW next \in Stage, MovesTo(c, next), active' = active
    PROVE  Cycles!Next \/ UNCHANGED Cycles!vars
  <1> USE DEF MovesTo
  <1>1. \A d \in Slots : stage'[d] = IF d = c THEN next ELSE stage[d]
    BY DEF Inv, TypeOK
  <1>2. \A d \in Slots : stage[d] \in Working /\ stage[c] \in Working => d = c
    BY DEF Inv, Exclusion, OneWorkingCycle
  <1>3. CASE (stage[c] \in Working) = (next \in Working)
    <2>1. Worked' = Worked
      BY <1>1, <1>3 DEF Worked
    <2> QED
      BY <2>1 DEF Worked, Cycles!vars
  <1>4. CASE stage[c] \in Working /\ next \notin Working
    <2>1. Worked = {c} /\ Worked' = {}
      BY <1>1, <1>2, <1>4 DEF Worked
    <2> QED
      BY <2>1 DEF Worked, Cycles!Next, Cycles!StopWork
  <1>5. CASE stage[c] \notin Working /\ next \in Working
    <2>1. active
      BY <1>5
    <2>2. \A d \in Slots : stage[d] # "idle" => d = c
      BY <2>1 DEF Inv, Exclusion, OneExecution
    <2>3. Worked = {} /\ Worked' = {c}
      BY <1>1, <1>5, <2>2 DEF Worked, Working
    <2> QED
      BY <2>1, <2>3 DEF Worked, Cycles!Next, Cycles!StartWork
  <1> QED
    BY <1>3, <1>4, <1>5

\* A request for a cycle sets the rerun flag or moves an idle execution to its checks.
LEMMA RequestWorksNot ==
    ASSUME Inv, NEW c \in Slots, RequestCycle(c), active' = active
    PROVE  UNCHANGED Cycles!vars
  <1>1. \A d \in Slots : stage'[d] \in Working <=> stage[d] \in Working
    BY DEF Inv, TypeOK, RequestCycle, Begin, execution, Working
  <1>2. Worked' = Worked
    BY <1>1 DEF Worked
  <1> QED
    BY <1>2 DEF Worked, Cycles!vars

LEMMA StepKeepsCyclesExclusive ==
    ASSUME Inv, [Next]_vars
    PROVE  [Cycles!Next]_(Cycles!vars)
  <1>1. ASSUME NEW c \in Slots, Execute(c) \/ CycleThrows(c)
        PROVE  Cycles!Next \/ UNCHANGED Cycles!vars
    <2>1. PICK next \in Stage : MovesTo(c, next)
      BY <1>1, ExecutionMoves
    <2>2. active' = active
      BY <1>1, ExecutionMoves
    <2> QED
      BY <2>1, <2>2, StageMoves
  <1>2. ASSUME NEW c \in Slots, Deliver(c) \/ ResumeStalledRun(c)
        PROVE  UNCHANGED Cycles!vars
    <2>1. RequestCycle(c) /\ active' = active
      BY <1>2 DEF Deliver, ResumeStalledRun, environment
    <2> QED
      BY <2>1, RequestWorksNot
  <1>3. ASSUME stage' = stage, active' = active
        PROVE  UNCHANGED Cycles!vars
    BY <1>3 DEF Cycles!vars
  <1>4. CASE CooldownEnds \/ WorkSettles \/ OnRunDeactivated
    BY <1>3, <1>4 DEF CooldownEnds, WorkSettles, OnRunDeactivated, environment, execution
  <1>5. CASE ApplyChange \/ IncomingCallReceived \/ IncomingCallConfirmed
    BY <1>3, <1>5 DEF ApplyChange, IncomingCallReceived, IncomingCallConfirmed
  <1>6. CASE Deactivate
    <2>1. active /\ active' = FALSE /\ Worked' = Worked
      BY <1>6 DEF Deactivate, Worked
    <2> QED
      BY <2>1 DEF Worked, Cycles!Next, Cycles!Reset
  <1>7. CASE Restart
    <2>1. active' = active /\ Worked' = {}
      BY <1>7 DEF Restart, Worked, Working
    <2>2. CASE Worked = {}
      BY <2>1, <2>2 DEF Worked, Cycles!vars
    <2>3. CASE Worked # {}
      BY <2>1, <2>3 DEF Worked, Cycles!Next, Cycles!StopWork
    <2> QED
      BY <2>2, <2>3
  <1>8. CASE UNCHANGED vars
    BY <1>3, <1>8 DEF vars, environment, execution
  <1> QED
    BY <1>1, <1>2, <1>4, <1>5, <1>6, <1>7, <1>8 DEF Next, External

\* AgentCycle implements the safety part of ExclusiveCycles (KeepsCyclesExclusive): for any
\* number of triggers, executions, resets and restarts, executions work one after the
\* other and none starts to work on a run that was reset.
THEOREM CyclesAreExclusive == Spec => Cycles!Exclusive
  <1>1. Init => Cycles!Init
    BY DEF Init, Cycles!Init, Working
  <1>2. Inv /\ [Next]_vars => [Cycles!Next]_(Cycles!vars)
    BY StepKeepsCyclesExclusive
  <1> QED
    BY <1>1, <1>2, InvHolds, PTL DEF Spec, Cycles!Exclusive
=============================================================================

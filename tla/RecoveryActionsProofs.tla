------------------------- MODULE RecoveryActionsProofs -------------------------
(***************************************************************************)
(* Proofs about RecoveryActions, for any adapters, cost, capacity, number  *)
(* of attempts, callbacks and restarts.                                    *)
(***************************************************************************)
EXTENDS RecoveryActions, FiniteSetTheorems, TLAPS

-----------------------------------------------------------------------------
(* Types *)

LEMMA WorkersAre == Own \in Workers /\ 1 \in Workers /\ Own # 1
  BY RecoveryActionsAssumption DEF Workers, Own

Placed(p) == p \in [Attempts -> [Workers -> Places]]
Giving(g) == g \in [Attempts -> [Workers -> {"none"} \cup Outcomes]]

\* One step of a worker: who moved from where to where, and what it applies.
Step(k, w, from, to, result) ==
    /\ at[k][w] = from /\ at'[k][w] = to /\ given'[k][w] = result
    /\ \A j \in Attempts, v \in Workers :
         j # k \/ v # w => at'[j][v] = at[j][v] /\ given'[j][v] = given[j][v]
    /\ Placed(at') /\ Giving(given')

LEMMA GoIs ==
    ASSUME TypeOK, NEW k \in Attempts, NEW w \in Workers, NEW from, NEW to \in Places,
           Go(k, w, from, to)
    PROVE  Step(k, w, from, to, given[k][w])
  <1>1. Placed(at) /\ Giving(given)
    BY DEF TypeOK, Placed, Giving
  <1>2. at[k][w] = from /\ at' = [at EXCEPT ![k][w] = to] /\ given' = given
    BY DEF Go
  <1>3. /\ Placed(at') /\ at'[k][w] = to
        /\ \A j \in Attempts, v \in Workers : j # k \/ v # w => at'[j][v] = at[j][v]
    BY <1>1, <1>2 DEF Placed
  <1> QED
    BY <1>1, <1>2, <1>3 DEF Step

LEMMA ApplyIs ==
    ASSUME TypeOK, NEW k \in Attempts, NEW w \in Workers, NEW from, NEW result \in Outcomes,
           Apply(k, w, from, result)
    PROVE  Step(k, w, from, "finishing", result)
  <1>1. Placed(at) /\ Giving(given)
    BY DEF TypeOK, Placed, Giving
  <1>2. /\ at[k][w] = from /\ at' = [at EXCEPT ![k][w] = "finishing"]
        /\ given' = [given EXCEPT ![k][w] = result]
    BY DEF Apply
  <1>3. "finishing" \in Places
    BY DEF Places
  <1>4. /\ Placed(at') /\ at'[k][w] = "finishing"
        /\ \A j \in Attempts, v \in Workers : j # k \/ v # w => at'[j][v] = at[j][v]
    BY <1>1, <1>2, <1>3 DEF Placed
  <1>5. /\ Giving(given') /\ given'[k][w] = result
        /\ \A j \in Attempts, v \in Workers : j # k \/ v # w => given'[j][v] = given[j][v]
    BY <1>1, <1>2 DEF Giving
  <1> QED
    BY <1>2, <1>4, <1>5 DEF Step

LEMMA AppliedIs ==
    ASSUME TypeOK, NEW k \in Attempts, NEW w \in Workers, Applied(k, w)
    PROVE  Step(k, w, "applying", IF given[k][w] = "failure" THEN "releasing" ELSE "emitting", "none")
  <1> DEFINE to == IF given[k][w] = "failure" THEN "releasing" ELSE "emitting"
  <1>1. Placed(at) /\ Giving(given)
    BY DEF TypeOK, Placed, Giving
  <1>2. /\ at[k][w] = "applying" /\ at' = [at EXCEPT ![k][w] = to]
        /\ given' = [given EXCEPT ![k][w] = "none"]
    BY DEF Applied
  <1>3. to \in Places
    BY DEF Places
  <1> HIDE DEF to
  <1>4. /\ Placed(at') /\ at'[k][w] = to
        /\ \A j \in Attempts, v \in Workers : j # k \/ v # w => at'[j][v] = at[j][v]
    BY <1>1, <1>2, <1>3 DEF Placed
  <1>5. /\ Giving(given') /\ given'[k][w] = "none"
        /\ \A j \in Attempts, v \in Workers : j # k \/ v # w => given'[j][v] = given[j][v]
    BY <1>1, <1>2 DEF Giving
  <1>6. Step(k, w, "applying", to, "none")
    BY <1>2, <1>4, <1>5 DEF Step
  <1> QED
    BY <1>6 DEF to

LEMMA SettleIs ==
    ASSUME TypeOK, NEW k \in Attempts, NEW status \in ToolStatus, Settle(k, status)
    PROVE  tool' \in [Attempts -> ToolStatus]
  BY DEF Settle, TypeOK

\* A write of the incident replaces the row and forgets the copy it was made from.
Written(k, w, new) ==
    /\ copy[k][w] \in Rows /\ row' = new /\ torn' = (torn \/ copy[k][w] # row)
    /\ copy'[k][w] = Unread
    /\ \A j \in Attempts, v \in Workers : copy'[j][v] \in {copy[j][v], Unread}
    /\ copy' \in [Attempts -> [Workers -> Rows \cup {Unread}]] /\ other' = other

LEMMA WriteIs ==
    ASSUME TypeOK, NEW k \in Attempts, NEW w \in Workers, NEW new, Write(k, w, new)
    PROVE  Written(k, w, new)
  <1>1. copy \in [Attempts -> [Workers -> Rows \cup {Unread}]]
    BY DEF TypeOK
  <1>2. /\ copy[k][w] # Unread /\ row' = new /\ torn' = (torn \/ copy[k][w] # row)
        /\ copy' = [copy EXCEPT ![k][w] = Unread] /\ other' = other
    BY DEF Write
  <1> QED
    BY <1>1, <1>2 DEF Written

LEMMA RowIs ==
    ASSUME NEW r \in Rows
    PROVE  /\ r.health \in HealthStatus /\ r.upstream \in BOOLEAN /\ r.allocated \in 0..Total
           /\ \A h \in HealthStatus : /\ [r EXCEPT !.health = h] \in Rows
                                      /\ [r EXCEPT !.health = h].health = h
                                      /\ [r EXCEPT !.health = h].upstream = r.upstream
                                      /\ [r EXCEPT !.health = h].allocated = r.allocated
           /\ \A b \in BOOLEAN : /\ [r EXCEPT !.upstream = b] \in Rows
                                 /\ [r EXCEPT !.upstream = b].health = r.health
                                 /\ [r EXCEPT !.upstream = b].upstream = b
                                 /\ [r EXCEPT !.upstream = b].allocated = r.allocated
           /\ \A n \in 0..Total : /\ [r EXCEPT !.allocated = n] \in Rows
                                  /\ [r EXCEPT !.allocated = n].health = r.health
                                  /\ [r EXCEPT !.allocated = n].upstream = r.upstream
                                  /\ [r EXCEPT !.allocated = n].allocated = n
  BY DEF Rows

LEMMA FlippedIs ==
    ASSUME NEW r \in Rows
    PROVE  /\ [r EXCEPT !.upstream = ~@] \in Rows
           /\ [r EXCEPT !.upstream = ~@].health = r.health
           /\ [r EXCEPT !.upstream = ~@].allocated = r.allocated
           /\ [r EXCEPT !.upstream = ~@].upstream <=> ~r.upstream
  <1> DEFINE b == ~r.upstream
  <1>1. r.upstream \in BOOLEAN
    BY RowIs
  <1>2. b \in BOOLEAN /\ [r EXCEPT !.upstream = ~@] = [r EXCEPT !.upstream = b]
    OBVIOUS
  <1>3. b <=> ~r.upstream
    OBVIOUS
  <1> HIDE DEF b
  <1>4. /\ [r EXCEPT !.upstream = b] \in Rows
        /\ [r EXCEPT !.upstream = b].health = r.health
        /\ [r EXCEPT !.upstream = b].allocated = r.allocated
        /\ [r EXCEPT !.upstream = b].upstream = b
    BY <1>2, RowIs
  <1> QED
    BY <1>2, <1>3, <1>4

LEMMA PropagatedIs ==
    ASSUME NEW r \in Rows
    PROVE  /\ Propagated(r) \in Rows
           /\ Propagated(r).upstream = r.upstream /\ Propagated(r).allocated = r.allocated
           /\ Propagated(r).health = "healthy" =>
                \/ r.health = "healthy"
                \/ r.health = "degraded" /\ r.upstream
  <1> DEFINE h == IF r.health = "degraded" /\ r.upstream THEN "healthy" ELSE r.health
  <1>1. r.health \in HealthStatus
    BY RowIs
  <1>2. h \in HealthStatus
    BY <1>1 DEF HealthStatus
  <1>3. Propagated(r) = [r EXCEPT !.health = h]
    BY DEF Propagated
  <1>4. Propagated(r) \in Rows /\ Propagated(r).health = h
        /\ Propagated(r).upstream = r.upstream /\ Propagated(r).allocated = r.allocated
    <2> HIDE DEF h
    <2> QED
      BY <1>2, <1>3, RowIs
  <1> QED
    BY <1>4

\* The new row of each write of an execution or of a delivery.
LEMMA NewRows ==
    ASSUME TypeOK, NEW k \in Attempts, NEW w \in Workers, copy[k][w] \in Rows
    PROVE  /\ copy[k][w].allocated + Cost <= Total =>
                /\ [copy[k][w] EXCEPT !.allocated = @ + Cost] \in Rows
                /\ [copy[k][w] EXCEPT !.allocated = @ + Cost].health = copy[k][w].health
                /\ [copy[k][w] EXCEPT !.allocated = @ + Cost].upstream = copy[k][w].upstream
                /\ [copy[k][w] EXCEPT !.allocated = @ + Cost].allocated = copy[k][w].allocated + Cost
           /\ [copy[k][w] EXCEPT !.health = "recovering"] \in Rows
           /\ [copy[k][w] EXCEPT !.health = "recovering"].health = "recovering"
           /\ [copy[k][w] EXCEPT !.health = "recovering"].upstream = copy[k][w].upstream
           /\ [copy[k][w] EXCEPT !.health = "recovering"].allocated = copy[k][w].allocated
           /\ [copy[k][w] EXCEPT !.allocated = IF @ < Cost THEN 0 ELSE @ - Cost] \in Rows
           /\ [copy[k][w] EXCEPT !.allocated = IF @ < Cost THEN 0 ELSE @ - Cost].health = copy[k][w].health
           /\ [copy[k][w] EXCEPT !.allocated = IF @ < Cost THEN 0 ELSE @ - Cost].upstream = copy[k][w].upstream
           /\ [copy[k][w] EXCEPT !.allocated = IF @ < Cost THEN 0 ELSE @ - Cost].allocated
                = IF copy[k][w].allocated < Cost THEN 0 ELSE copy[k][w].allocated - Cost
  <1> DEFINE r == copy[k][w]
             less == IF r.allocated < Cost THEN 0 ELSE r.allocated - Cost
  <1>1. r.allocated \in 0..Total
    BY RowIs
  <1>2. r.allocated + Cost <= Total => r.allocated + Cost \in 0..Total
    BY <1>1, RecoveryActionsAssumption
  <1>3. less \in 0..Total
    BY <1>1, RecoveryActionsAssumption
  <1>4. "recovering" \in HealthStatus
    BY DEF HealthStatus
  <1>5. [r EXCEPT !.allocated = IF @ < Cost THEN 0 ELSE @ - Cost] = [r EXCEPT !.allocated = less]
    OBVIOUS
  <1>6. [r EXCEPT !.allocated = @ + Cost] = [r EXCEPT !.allocated = r.allocated + Cost]
    OBVIOUS
  <1> QED
    BY <1>2, <1>3, <1>4, <1>5, <1>6, RowIs

LEMMA AppliedRow ==
    ASSUME NEW r \in Rows, NEW result \in Outcomes \cup {"none"}
    PROVE  /\ Propagated([r EXCEPT !.health = HealthOf(result)]) \in Rows
           /\ Propagated([r EXCEPT !.health = HealthOf(result)]).upstream = r.upstream
           /\ Propagated([r EXCEPT !.health = HealthOf(result)]).allocated = r.allocated
           /\ Propagated([r EXCEPT !.health = HealthOf(result)]).health = "healthy" =>
                result \in {"success", "partial"}
  <1> DEFINE q == [r EXCEPT !.health = HealthOf(result)]
  <1>1. HealthOf(result) \in HealthStatus
    BY DEF HealthOf, HealthStatus
  <1>2. q \in Rows /\ q.health = HealthOf(result) /\ q.upstream = r.upstream /\ q.allocated = r.allocated
    BY <1>1, RowIs
  <1>3. q.health \in {"healthy", "degraded"} => result \in {"success", "partial"}
    BY <1>2 DEF HealthOf
  <1> HIDE DEF q
  <1>4. /\ Propagated(q) \in Rows
        /\ Propagated(q).upstream = q.upstream /\ Propagated(q).allocated = q.allocated
        /\ Propagated(q).health = "healthy" => q.health \in {"healthy", "degraded"}
    BY <1>2, PropagatedIs
  <1>5. /\ Propagated(q) \in Rows
        /\ Propagated(q).upstream = r.upstream /\ Propagated(q).allocated = r.allocated
        /\ Propagated(q).health = "healthy" => result \in {"success", "partial"}
    BY <1>2, <1>3, <1>4
  <1> QED
    BY <1>5 DEF q

LEMMA TypeInit == Init => TypeOK
  <1> SUFFICES ASSUME Init PROVE TypeOK
    OBVIOUS
  <1>1. row \in Rows
    <2>1. row \in [health : {"down", "degraded"}, upstream : {TRUE}, allocated : {0}]
      BY DEF Init
    <2>2. 0 \in 0..Total /\ {"down", "degraded"} \subseteq HealthStatus
      BY RecoveryActionsAssumption DEF HealthStatus
    <2> QED
      BY <2>1, <2>2 DEF Rows
  <1>2. mode \in Modes /\ check = "none" /\ torn \in BOOLEAN /\ other = Unread
    BY DEF Init
  <1>3. copy \in [Attempts -> [Workers -> Rows \cup {Unread}]]
    BY DEF Init
  <1>4. /\ tool \in [Attempts -> ToolStatus] /\ action \in [Attempts -> ActionStatus]
        /\ outcome \in [Attempts -> {"none"} \cup Outcomes]
        /\ at \in [Attempts -> [Workers -> Places]]
        /\ given \in [Attempts -> [Workers -> {"none"} \cup Outcomes]]
    BY DEF Init, ToolStatus, ActionStatus, Places
  <1>5. crashes \in 0..MaximumCrashes /\ others \in 0..MaximumOthers
    BY RecoveryActionsAssumption DEF Init
  <1> QED
    BY <1>1, <1>2, <1>3, <1>4, <1>5 DEF TypeOK

LEMMA TypeStep == TypeOK /\ [Next]_vars => TypeOK'
  <1> SUFFICES ASSUME TypeOK, [Next]_vars PROVE TypeOK'
    OBVIOUS
  <1> USE RecoveryActionsAssumption, WorkersAre
  <1>p. {"idle", "checking", "allocating", "allocated", "recovering", "requesting",
         "accepted", "returning", "finishing", "applying", "releasing", "emitting", "gone"} = Places
    BY DEF Places
  <1>t. {"failed", "running", "succeeded", "timed-out"} \subseteq ToolStatus
    BY DEF ToolStatus
  <1>1. ASSUME NEW k \in Attempts, Dispatch(k) PROVE TypeOK'
    <2>1. Step(k, Own, "idle", "checking", given[k][Own])
      BY <1>1, <1>p, GoIs DEF Dispatch
    <2> QED
      BY <1>1, <1>t, <2>1 DEF Dispatch, TypeOK, Step, Placed, Giving, incident
  <1>2. ASSUME NEW k \in Attempts, CheckPreconditions(k) PROVE TypeOK'
    <2>1. \E to \in Places : Step(k, Own, "checking", to, given[k][Own])
      BY <1>2, <1>p, GoIs DEF CheckPreconditions
    <2>2. tool' \in [Attempts -> ToolStatus]
      BY <1>2, <1>t, SettleIs DEF CheckPreconditions, TypeOK
    <2> QED
      BY <1>2, <2>1, <2>2 DEF CheckPreconditions, TypeOK, Step, Placed, Giving, incident
  <1>3. ASSUME NEW k \in Attempts, Expire(k) PROVE TypeOK'
    BY <1>3, <1>t DEF Expire, TypeOK, incident
  <1>4. ASSUME NEW k \in Attempts, AllocateCapacity(k) PROVE TypeOK'
    <2>1. \E to \in Places : Step(k, Own, "allocating", to, given[k][Own])
      BY <1>4, <1>p, GoIs DEF AllocateCapacity
    <2>2. tool' \in [Attempts -> ToolStatus]
      BY <1>4, <1>t, SettleIs DEF AllocateCapacity, TypeOK
    <2>3. /\ row' \in Rows /\ torn' \in BOOLEAN /\ other' = other
          /\ copy' \in [Attempts -> [Workers -> Rows \cup {Unread}]]
      <3>1. CASE /\ copy[k][Own].allocated + Cost <= Total
                 /\ Write(k, Own, [copy[k][Own] EXCEPT !.allocated = @ + Cost])
        <4>1. Written(k, Own, [copy[k][Own] EXCEPT !.allocated = @ + Cost])
          BY <3>1, WriteIs
        <4> QED
          BY <3>1, <4>1, NewRows DEF Written, TypeOK
      <3>2. CASE copy' = [copy EXCEPT ![k][Own] = Unread] /\ UNCHANGED <<row, other, torn>>
        BY <3>2 DEF TypeOK
      <3> QED
        BY <1>4, <3>1, <3>2 DEF AllocateCapacity
    <2> QED
      BY <1>4, <2>1, <2>2, <2>3 DEF AllocateCapacity, TypeOK, Step, Placed, Giving
  <1>5. ASSUME NEW k \in Attempts, Request(k) \/ Accepted(k) \/ WriteRunning(k)
        PROVE  TypeOK'
    <2>1. \E from \in Places, to \in Places : Step(k, Own, from, to, given[k][Own])
      BY <1>5, <1>p, GoIs DEF Request, Accepted, WriteRunning
    <2>2. action' \in [Attempts -> ActionStatus]
      BY <1>5 DEF Request, Accepted, WriteRunning, TypeOK, ActionStatus
    <2> QED
      BY <1>5, <2>1, <2>2
         DEF Request, Accepted, WriteRunning, TypeOK, Step, Placed, Giving, incident
  <1>19. ASSUME NEW k \in Attempts, SetRecovering(k) PROVE TypeOK'
    <2>1. Step(k, Own, "allocated", "recovering", given[k][Own])
      BY <1>19, <1>p, GoIs DEF SetRecovering
    <2>2. Written(k, Own, [copy[k][Own] EXCEPT !.health = "recovering"])
      BY <1>19, WriteIs DEF SetRecovering
    <2>3. row' \in Rows /\ torn' \in BOOLEAN
      BY <2>2, NewRows DEF Written, TypeOK
    <2> QED
      BY <1>19, <2>1, <2>2, <2>3 DEF SetRecovering, TypeOK, Step, Placed, Giving, Written
  <1>20. ASSUME NEW k \in Attempts, NEW w \in Workers, ReadRow(k, w) PROVE TypeOK'
    BY <1>20 DEF ReadRow, TypeOK
  <1>6. ASSUME NEW k \in Attempts, Return(k) PROVE TypeOK'
    <2>1. Step(k, Own, "returning", "gone", given[k][Own])
      BY <1>6, <1>p, GoIs DEF Return
    <2>2. tool' \in [Attempts -> ToolStatus]
      BY <1>6, <1>t, SettleIs DEF Return
    <2> QED
      BY <1>6, <2>1, <2>2 DEF Return, TypeOK, Step, Placed, Giving, incident
  <1>7. ASSUME NEW k \in Attempts, NEW result \in Outcomes, Take(k, result) PROVE TypeOK'
    BY <1>7 DEF Take, TypeOK, incident
  <1>8. ASSUME NEW k \in Attempts, NEW result \in Outcomes, Answered(k, result) PROVE TypeOK'
    <2>1. Step(k, Own, "requesting", "finishing", result)
      BY <1>8, ApplyIs DEF Answered
    <2> QED
      BY <1>8, <2>1 DEF Answered, TypeOK, Step, Placed, Giving, incident
  <1>9. ASSUME NEW k \in Attempts, NEW w \in Workers, Deliver(k, w) PROVE TypeOK'
    <2>1. outcome[k] \in Outcomes
      BY <1>9 DEF Deliver, Delivers, TypeOK
    <2>2. Step(k, w, "idle", "finishing", outcome[k])
      BY <1>9, <2>1, ApplyIs DEF Deliver
    <2> QED
      BY <1>9, <2>2 DEF Deliver, TypeOK, Step, Placed, Giving, incident
  <1>10. ASSUME NEW k \in Attempts, NEW w \in Workers, Finish(k, w) PROVE TypeOK'
    <2>1. Step(k, w, "finishing", "applying", given[k][w])
      BY <1>10, <1>p, GoIs DEF Finish
    <2>2. action' \in [Attempts -> ActionStatus]
      BY <1>10 DEF Finish, TypeOK, StatusOf, ActionStatus
    <2> QED
      BY <1>10, <2>1, <2>2 DEF Finish, TypeOK, Step, Placed, Giving, incident
  <1>11. ASSUME NEW k \in Attempts, NEW w \in Workers, ApplyResult(k, w) PROVE TypeOK'
    <2>1. \E to \in Places : Step(k, w, "applying", to, "none")
      BY <1>11, <1>p, AppliedIs DEF ApplyResult
    <2>2. Written(k, w, Propagated([copy[k][w] EXCEPT !.health = HealthOf(given[k][w])]))
      BY <1>11, WriteIs DEF ApplyResult
    <2>3. row' \in Rows /\ torn' \in BOOLEAN
      <3>1. given[k][w] \in Outcomes \cup {"none"}
        BY DEF TypeOK
      <3> QED
        BY <2>2, <3>1, AppliedRow DEF Written, TypeOK
    <2> QED
      BY <1>11, <2>1, <2>2, <2>3 DEF ApplyResult, TypeOK, Step, Placed, Giving, Written
  <1>12. ASSUME NEW k \in Attempts, NEW w \in Workers, ReleaseCapacity(k, w) PROVE TypeOK'
    <2>1. Step(k, w, "releasing", "emitting", given[k][w])
      BY <1>12, <1>p, GoIs DEF ReleaseCapacity
    <2>2. Written(k, w, [copy[k][w] EXCEPT !.allocated = IF @ < Cost THEN 0 ELSE @ - Cost])
      BY <1>12, WriteIs DEF ReleaseCapacity
    <2>3. row' \in Rows /\ torn' \in BOOLEAN
      BY <2>2, NewRows DEF Written, TypeOK
    <2> QED
      BY <1>12, <2>1, <2>2, <2>3 DEF ReleaseCapacity, TypeOK, Step, Placed, Giving, Written
  <1>13. ASSUME NEW k \in Attempts, NEW w \in Workers, Emit(k, w) PROVE TypeOK'
    <2>1. Step(k, w, "emitting", "gone", given[k][w])
      BY <1>13, <1>p, GoIs DEF Emit
    <2>2. tool' \in [Attempts -> ToolStatus]
      BY <1>13, <1>t, SettleIs DEF Emit, TypeOK
    <2> QED
      BY <1>13, <2>1, <2>2 DEF Emit, TypeOK, Step, Placed, Giving, incident
  <1>14. ASSUME NEW status \in HealthStatus, Verify(status) PROVE TypeOK'
    BY <1>14 DEF Verify, TypeOK, incident
  <1>15. CASE ApplyVerification
    <2>1. check' \in {"completed", "followed-up", "failed"}
      BY <1>15 DEF ApplyVerification
    <2> QED
      BY <1>15, <2>1 DEF ApplyVerification, TypeOK, incident
  <1>16. CASE OtherReads \/ OtherWrites
    <2>1. CASE OtherReads
      BY <2>1 DEF OtherReads, TypeOK
    <2>2. CASE OtherWrites
      <3>1. other \in Rows
        BY <2>2 DEF OtherWrites, TypeOK
      <3>2. [other EXCEPT !.upstream = ~@] \in Rows
        BY <3>1, FlippedIs
      <3>3. row' \in Rows
        BY <2>2, <3>1, <3>2, PropagatedIs DEF OtherWrites
      <3> QED
        BY <2>2, <3>3 DEF OtherWrites, TypeOK
    <2> QED
      BY <1>16, <2>1, <2>2
  <1>17. CASE Restart
    <2>1. at' \in [Attempts -> [Workers -> Places]] /\ given' \in [Attempts -> [Workers -> {"none"} \cup Outcomes]]
      BY <1>17, <1>p DEF Restart
    <2>2. copy' \in [Attempts -> [Workers -> Rows \cup {Unread}]] /\ other' = Unread
      BY <1>17 DEF Restart
    <2> QED
      BY <1>17, <2>1, <2>2 DEF Restart, TypeOK
  <1>18. CASE UNCHANGED vars
    BY <1>18 DEF vars, TypeOK
  <1> QED
    BY <1>1, <1>2, <1>3, <1>4, <1>5, <1>6, <1>7, <1>8, <1>9, <1>10, <1>11, <1>12, <1>13, <1>14,
       <1>15, <1>16, <1>17, <1>18, <1>19, <1>20 DEF Next

\* Every variable of a recovery has its type; capacity stays within its total.
THEOREM TypeCorrect == Spec => []TypeOK
  BY TypeInit, TypeStep, PTL DEF Spec

-----------------------------------------------------------------------------
(* Healthy services *)

\* A success or a partial one is only applied where the environment had it.
AppliedHappened ==
    \A k \in Attempts, w \in Workers :
        given[k][w] \in {"success", "partial"} => outcome[k] = given[k][w]

\* A verification that reads healthy saw a success.
SeenHappened ==
    mode = "http" /\ check \in {"healthy", "completed"} => \E k \in Attempts : outcome[k] = "success"

\* What may make a service healthy has happened.
Recoverable ==
    \/ \E k \in Attempts : outcome[k] \in {"success", "partial"}
    \/ others > 1

\* A row that reads healthy has a reason, and one in which what the service depends on is
\* broken was written by another handler: the stored row, and every copy of it that may
\* still be written back.
Good(r) ==
    /\ r.health = "healthy" => Recoverable
    /\ ~r.upstream => others >= 1

RowsGood ==
    /\ Good(row) /\ Good(other)
    /\ other # Unread => others >= 1
    /\ ~other.upstream => others > 1
    /\ \A k \in Attempts, w \in Workers : Good(copy[k][w])

HealthInv == TypeOK /\ AppliedHappened /\ SeenHappened /\ RowsGood

LEMMA OutcomesStay ==
    ASSUME TypeOK, [Next]_vars
    PROVE  /\ \A k \in Attempts : outcome[k] # "none" => outcome'[k] = outcome[k]
           /\ mode' = mode
           /\ others \in Nat /\ others' \in Nat /\ others' >= others
  <1> USE RecoveryActionsAssumption DEF TypeOK
  <1>1. CASE UNCHANGED <<outcome, mode, others>>
    BY <1>1
  <1>2. ASSUME NEW k \in Attempts, NEW result \in Outcomes, Take(k, result)
        PROVE  /\ \A j \in Attempts : outcome[j] # "none" => outcome'[j] = outcome[j]
               /\ UNCHANGED <<mode, others>>
    BY <1>2 DEF Take
  <1>3. CASE OtherReads \/ OtherWrites
    BY <1>3 DEF OtherReads, OtherWrites
  <1>4. ASSUME NEW k \in Attempts,
               \/ Dispatch(k) \/ CheckPreconditions(k) \/ Expire(k) \/ AllocateCapacity(k)
               \/ SetRecovering(k) \/ Request(k) \/ Accepted(k) \/ WriteRunning(k) \/ Return(k)
        PROVE  UNCHANGED <<outcome, mode, others>>
    BY <1>4 DEF Dispatch, CheckPreconditions, Expire, AllocateCapacity, SetRecovering, Request,
         Accepted, WriteRunning, Return
  <1>5. ASSUME NEW k \in Attempts, NEW w \in Workers,
               \/ ReadRow(k, w) \/ Deliver(k, w) \/ Finish(k, w) \/ ApplyResult(k, w)
               \/ ReleaseCapacity(k, w) \/ Emit(k, w)
        PROVE  UNCHANGED <<outcome, mode, others>>
    BY <1>5 DEF ReadRow, Deliver, Finish, ApplyResult, ReleaseCapacity, Emit
  <1>6. ASSUME NEW k \in Attempts, NEW result \in Outcomes, Answered(k, result)
        PROVE  UNCHANGED <<outcome, mode, others>>
    BY <1>6 DEF Answered
  <1>7. ASSUME NEW status \in HealthStatus, Verify(status) PROVE UNCHANGED <<outcome, mode, others>>
    BY <1>7 DEF Verify
  <1>8. CASE ApplyVerification \/ Restart \/ UNCHANGED vars
    BY <1>1, <1>8 DEF ApplyVerification, Restart, vars
  <1> QED
    BY <1>1, <1>2, <1>3, <1>4, <1>5, <1>6, <1>7, <1>8 DEF Next

\* What was given to the others stays, and the results stay what they were.
LEMMA AppliedKept ==
    ASSUME HealthInv, [Next]_vars, NEW k \in Attempts, NEW w \in Workers, NEW from, NEW to, NEW result,
           Step(k, w, from, to, result),
           result \in {"success", "partial"} => outcome[k] = result
    PROVE  AppliedHappened'
  <1> SUFFICES ASSUME NEW j \in Attempts, NEW v \in Workers, given'[j][v] \in {"success", "partial"}
               PROVE  outcome'[j] = given'[j][v]
    BY DEF AppliedHappened
  <1>1. \A i \in Attempts : outcome[i] # "none" => outcome'[i] = outcome[i]
    BY OutcomesStay DEF HealthInv
  <1>2. CASE j = k /\ v = w
    BY <1>1, <1>2 DEF Step
  <1>3. CASE j # k \/ v # w
    <2>1. given'[j][v] = given[j][v]
      BY <1>3 DEF Step
    <2> QED
      BY <1>1, <2>1 DEF HealthInv, AppliedHappened
  <1> QED
    BY <1>2, <1>3

LEMMA GoodStays ==
    ASSUME HealthInv, [Next]_vars
    PROVE  (Recoverable => Recoverable') /\ (others >= 1 => others' >= 1) /\ (others > 1 => others' > 1)
  <1>1. /\ \A k \in Attempts : outcome[k] # "none" => outcome'[k] = outcome[k]
        /\ others \in Nat /\ others' \in Nat /\ others' >= others
    BY OutcomesStay DEF HealthInv
  <1> QED
    BY <1>1 DEF Recoverable

\* Copies are forgotten or taken of the row, and the row is written for a reason.
LEMMA RowsStay ==
    ASSUME HealthInv, [Next]_vars, other' \in {other, Unread},
           \A k \in Attempts, w \in Workers : copy'[k][w] \in {copy[k][w], Unread, row},
           row'.health = "healthy" => Recoverable',
           ~row'.upstream => others' >= 1
    PROVE  RowsGood'
  <1>1. /\ Recoverable => Recoverable'
        /\ others >= 1 => others' >= 1
        /\ others > 1 => others' > 1
    BY GoodStays
  <1>2. /\ Good(row) /\ Good(other) /\ (~other.upstream => others > 1)
        /\ other # Unread => others >= 1
        /\ \A k \in Attempts, w \in Workers : Good(copy[k][w])
    BY DEF HealthInv, RowsGood
  <1>3. Unread.health # "healthy" /\ Unread.upstream
    BY DEF Unread
  <1>4. Good(row)'
    BY DEF Good
  <1>5. Good(other)' /\ (~other'.upstream => others' > 1) /\ (other' # Unread => others' >= 1)
    BY <1>1, <1>2, <1>3 DEF Good
  <1>6. ASSUME NEW k \in Attempts, NEW w \in Workers PROVE Good(copy[k][w])'
    <2>1. CASE copy'[k][w] = copy[k][w]
      BY <1>1, <1>2, <2>1 DEF Good
    <2>2. CASE copy'[k][w] = Unread
      BY <1>3, <2>2 DEF Good
    <2>3. CASE copy'[k][w] = row
      BY <1>1, <1>2, <2>3 DEF Good
    <2> QED
      BY <2>1, <2>2, <2>3
  <1> QED
    BY <1>4, <1>5, <1>6 DEF RowsGood

\* Steps that leave the row, and give nothing that is not the outcome.
LEMMA HealthKept ==
    ASSUME HealthInv, [Next]_vars, AppliedHappened', check' = check, row' = row,
           other' \in {other, Unread},
           \A k \in Attempts, w \in Workers : copy'[k][w] \in {copy[k][w], Unread, row}
    PROVE  HealthInv'
  <1>1. /\ \A k \in Attempts : outcome[k] # "none" => outcome'[k] = outcome[k]
        /\ mode' = mode
    BY OutcomesStay DEF HealthInv
  <1>2. TypeOK'
    BY TypeStep DEF HealthInv
  <1>3. SeenHappened'
    BY <1>1 DEF HealthInv, SeenHappened
  <1>4. RowsGood'
    BY GoodStays, RowsStay DEF HealthInv, RowsGood, Good
  <1> QED
    BY <1>2, <1>3, <1>4 DEF HealthInv

\* Steps that write the row.
LEMMA HealthWritten ==
    ASSUME HealthInv, [Next]_vars, AppliedHappened', check' = check,
           NEW k \in Attempts, NEW w \in Workers, NEW new, Written(k, w, new),
           new.health = "healthy" => copy[k][w].health = "healthy" \/ Recoverable',
           new.upstream = copy[k][w].upstream
    PROVE  HealthInv'
  <1>1. /\ \A j \in Attempts : outcome[j] # "none" => outcome'[j] = outcome[j]
        /\ mode' = mode
    BY OutcomesStay DEF HealthInv
  <1>2. TypeOK'
    BY TypeStep DEF HealthInv
  <1>3. SeenHappened'
    BY <1>1 DEF HealthInv, SeenHappened
  <1>4. Good(copy[k][w])
    BY DEF HealthInv, RowsGood
  <1>5. RowsGood'
    BY <1>4, GoodStays, RowsStay DEF Written, Good
  <1> QED
    BY <1>2, <1>3, <1>5 DEF HealthInv

LEMMA HealthStep == HealthInv /\ [Next]_vars => HealthInv'
  <1> SUFFICES ASSUME HealthInv, [Next]_vars PROVE HealthInv'
    OBVIOUS
  <1> USE WorkersAre
  <1>0. TypeOK /\ AppliedHappened /\ SeenHappened /\ RowsGood
    BY DEF HealthInv
  <1>o. /\ \A k \in Attempts : outcome[k] # "none" => outcome'[k] = outcome[k]
        /\ mode' = mode
        /\ others \in Nat /\ others' \in Nat /\ others' >= others
    BY <1>0, OutcomesStay
  <1>p. {"idle", "checking", "allocating", "allocated", "recovering", "requesting",
         "accepted", "returning", "finishing", "applying", "releasing", "emitting", "gone"} = Places
    BY DEF Places
  <1>u. UNCHANGED given => AppliedHappened'
    BY <1>0, <1>o DEF AppliedHappened
  <1>s. ASSUME UNCHANGED <<given, check, row, copy, other>> PROVE HealthInv'
    BY <1>s, <1>u, HealthKept
  <1>1. ASSUME NEW k \in Attempts,
               \/ Dispatch(k) \/ CheckPreconditions(k) \/ Expire(k) \/ Request(k)
               \/ Accepted(k) \/ WriteRunning(k) \/ Return(k)
        PROVE  HealthInv'
    BY <1>1, <1>s DEF Dispatch, CheckPreconditions, Expire, Request, Accepted, WriteRunning, Return,
         Go, incident
  <1>2. ASSUME NEW k \in Attempts, NEW result \in Outcomes, Take(k, result) PROVE HealthInv'
    BY <1>2, <1>s DEF Take, incident
  <1>3. ASSUME NEW k \in Attempts, NEW result \in Outcomes, Answered(k, result) PROVE HealthInv'
    <2>1. Step(k, Own, "requesting", "finishing", result) /\ UNCHANGED <<check, row, copy, other>>
      BY <1>3, <1>0, ApplyIs DEF Answered, incident
    <2>2. result \in {"success", "partial"} => outcome[k] = result
      BY <1>3 DEF Answered
    <2>3. AppliedHappened'
      BY <2>1, <2>2, AppliedKept
    <2> QED
      BY <2>1, <2>3, HealthKept
  <1>4. ASSUME NEW k \in Attempts, NEW w \in Workers, Deliver(k, w) PROVE HealthInv'
    <2>1. outcome[k] \in Outcomes
      BY <1>4, <1>0 DEF Deliver, Delivers, TypeOK
    <2>2. Step(k, w, "idle", "finishing", outcome[k]) /\ UNCHANGED <<check, row, copy, other>>
      BY <1>4, <2>1, <1>0, ApplyIs DEF Deliver, incident
    <2>3. AppliedHappened'
      BY <2>2, AppliedKept
    <2> QED
      BY <2>2, <2>3, HealthKept
  <1>5. ASSUME NEW k \in Attempts, NEW w \in Workers, Finish(k, w) \/ Emit(k, w) PROVE HealthInv'
    BY <1>5, <1>s DEF Finish, Emit, Go, incident
  <1>6. ASSUME NEW k \in Attempts, NEW w \in Workers, ApplyResult(k, w) PROVE HealthInv'
    <2> DEFINE new == Propagated([copy[k][w] EXCEPT !.health = HealthOf(given[k][w])])
    <2>1. /\ \E to \in Places : Step(k, w, "applying", to, "none")
          /\ UNCHANGED <<check, outcome>> /\ Written(k, w, new)
      BY <1>6, <1>0, <1>p, AppliedIs, WriteIs DEF ApplyResult
    <2>2. AppliedHappened'
      BY <2>1, AppliedKept
    <2>3. given[k][w] \in Outcomes \cup {"none"} /\ copy[k][w] \in Rows
      BY <2>1, <1>0 DEF TypeOK, Written
    <2>4. /\ new.upstream = copy[k][w].upstream
          /\ new.health = "healthy" => given[k][w] \in {"success", "partial"}
      BY <2>3, AppliedRow
    <2>5. new.health = "healthy" => Recoverable'
      BY <2>1, <2>4, <1>0 DEF AppliedHappened, Recoverable
    <2> HIDE DEF new
    <2> QED
      BY <2>1, <2>2, <2>4, <2>5, HealthWritten
  <1>7. ASSUME NEW status \in HealthStatus, Verify(status) PROVE HealthInv'
    <2>1. /\ UNCHANGED <<mode, row, copy, other, outcome, given, others>>
          /\ check' = status /\ status \in Observed
      BY <1>7 DEF Verify, incident
    <2>2. mode = "http" /\ status = "healthy" => \E k \in Attempts : outcome[k] = "success"
      BY <2>1 DEF Observed
    <2>3. status # "completed"
      BY DEF HealthStatus
    <2>4. SeenHappened'
      BY <2>1, <2>2, <2>3 DEF SeenHappened
    <2>5. RowsGood'
      BY <2>1, <1>0 DEF RowsGood, Good, Recoverable
    <2> QED
      BY <2>1, <2>4, <2>5, <1>0, <1>u, TypeStep DEF HealthInv
  <1>8. CASE ApplyVerification
    <2>1. UNCHANGED <<mode, row, copy, other, outcome, given, others>>
      BY <1>8 DEF ApplyVerification, incident
    <2>2. check' # "healthy" /\ (check' = "completed" => check = "healthy")
      BY <1>8 DEF ApplyVerification
    <2>3. SeenHappened'
      BY <2>1, <2>2, <1>0 DEF SeenHappened
    <2>4. RowsGood'
      BY <2>1, <1>0 DEF RowsGood, Good, Recoverable
    <2> QED
      BY <2>1, <2>3, <2>4, <1>0, <1>u, TypeStep DEF HealthInv
  <1>9. CASE OtherReads
    <2>1. /\ UNCHANGED <<mode, row, copy, outcome, given, check>> /\ other' = row
          /\ others' = others + 1
      BY <1>9 DEF OtherReads
    <2>2. SeenHappened'
      BY <2>1, <1>0 DEF SeenHappened
    <2>3. RowsGood'
      BY <2>1, <1>0, <1>o, GoodStays DEF RowsGood, Good
    <2> QED
      BY <2>1, <2>2, <2>3, <1>0, <1>u, TypeStep DEF HealthInv
  <1>10. CASE OtherWrites
    <2>1. /\ UNCHANGED <<mode, copy, outcome, given, check, others>> /\ other' = Unread
          /\ row' \in {other, Propagated([other EXCEPT !.upstream = ~@])}
      BY <1>10 DEF OtherWrites
    <2>2. other \in Rows /\ Good(other) /\ (~other.upstream => others > 1) /\ others >= 1
      BY <1>10, <1>0 DEF OtherWrites, TypeOK, RowsGood
    <2>3. Recoverable' = Recoverable
      BY <2>1 DEF Recoverable
    <2>4. /\ row'.health = "healthy" => Recoverable
          /\ ~row'.upstream => others >= 1
      <3>1. CASE row' = other
        BY <2>2, <3>1 DEF Good
      <3>2. CASE row' = Propagated([other EXCEPT !.upstream = ~@])
        <4> DEFINE q == [other EXCEPT !.upstream = ~@]
        <4>1. q \in Rows /\ (q.upstream <=> ~other.upstream) /\ q.health = other.health
          BY <2>2, FlippedIs
        <4> HIDE DEF q
        <4>2. /\ row'.upstream = q.upstream
              /\ row'.health = "healthy" => q.health = "healthy" \/ q.upstream
          BY <3>2, <4>1, PropagatedIs DEF q
        <4>3. row'.health = "healthy" => Recoverable
          BY <2>2, <4>1, <4>2 DEF Good, Recoverable
        <4> QED
          BY <2>2, <4>3
      <3> QED
        BY <2>1, <3>1, <3>2
    <2>5. RowsGood'
      BY <2>1, <2>3, <2>4, RowsStay
    <2>6. SeenHappened'
      BY <2>1, <1>0 DEF SeenHappened
    <2> QED
      BY <2>1, <2>5, <2>6, <1>0, <1>u, TypeStep DEF HealthInv
  <1>11. CASE Restart
    <2>1. /\ UNCHANGED <<check, row>> /\ other' = Unread
          /\ \A k \in Attempts, w \in Workers : given'[k][w] = "none" /\ copy'[k][w] = Unread
      BY <1>11 DEF Restart
    <2>2. AppliedHappened'
      BY <2>1 DEF AppliedHappened
    <2> QED
      BY <2>1, <2>2, HealthKept
  <1>12. CASE UNCHANGED vars
    BY <1>12, <1>s DEF vars
  <1>13. ASSUME NEW k \in Attempts, NEW w \in Workers, ReadRow(k, w) PROVE HealthInv'
    <2>1. /\ UNCHANGED <<given, check, row, other>>
          /\ \A j \in Attempts, v \in Workers : copy'[j][v] \in {copy[j][v], row}
      BY <1>13, <1>0 DEF ReadRow, TypeOK
    <2> QED
      BY <2>1, <1>u, HealthKept
  <1>14. ASSUME NEW k \in Attempts, AllocateCapacity(k) PROVE HealthInv'
    <2>1. UNCHANGED <<given, check>>
      BY <1>14 DEF AllocateCapacity, Go
    <2>2. CASE /\ copy[k][Own].allocated + Cost <= Total
               /\ Write(k, Own, [copy[k][Own] EXCEPT !.allocated = @ + Cost])
      <3>1. Written(k, Own, [copy[k][Own] EXCEPT !.allocated = @ + Cost])
        BY <2>2, <1>0, WriteIs
      <3>2. /\ [copy[k][Own] EXCEPT !.allocated = @ + Cost].health = copy[k][Own].health
            /\ [copy[k][Own] EXCEPT !.allocated = @ + Cost].upstream = copy[k][Own].upstream
        BY <1>0, <2>2, <3>1, NewRows DEF Written
      <3> QED
        BY <2>1, <3>1, <3>2, <1>u, HealthWritten
    <2>3. CASE copy' = [copy EXCEPT ![k][Own] = Unread] /\ UNCHANGED <<row, other, torn>>
      <3>1. \A j \in Attempts, v \in Workers : copy'[j][v] \in {copy[j][v], Unread}
        BY <2>3, <1>0 DEF TypeOK
      <3> QED
        BY <2>1, <2>3, <3>1, <1>u, HealthKept
    <2> QED
      BY <1>14, <2>2, <2>3 DEF AllocateCapacity
  <1>15. ASSUME NEW k \in Attempts, SetRecovering(k) PROVE HealthInv'
    <2>1. UNCHANGED <<given, check>> /\ Written(k, Own, [copy[k][Own] EXCEPT !.health = "recovering"])
      BY <1>15, <1>0, WriteIs DEF SetRecovering, Go
    <2>2. /\ [copy[k][Own] EXCEPT !.health = "recovering"].health # "healthy"
          /\ [copy[k][Own] EXCEPT !.health = "recovering"].upstream = copy[k][Own].upstream
      BY <1>0, <2>1, NewRows DEF Written
    <2> QED
      BY <2>1, <2>2, <1>u, HealthWritten
  <1>16. ASSUME NEW k \in Attempts, NEW w \in Workers, ReleaseCapacity(k, w) PROVE HealthInv'
    <2> DEFINE new == [copy[k][w] EXCEPT !.allocated = IF @ < Cost THEN 0 ELSE @ - Cost]
    <2>1. UNCHANGED <<given, check>> /\ Written(k, w, new)
      BY <1>16, <1>0, WriteIs DEF ReleaseCapacity, Go
    <2>2. new.health = copy[k][w].health /\ new.upstream = copy[k][w].upstream
      BY <1>0, <2>1, NewRows DEF Written
    <2> HIDE DEF new
    <2> QED
      BY <2>1, <2>2, <1>u, HealthWritten
  <1> QED
    BY <1>1, <1>2, <1>3, <1>4, <1>5, <1>6, <1>7, <1>8, <1>9, <1>10, <1>11, <1>12, <1>13, <1>14,
       <1>15, <1>16 DEF Next

\* A service reads as healthy, and its verification as completed, only after a
\* recovery that took place (applyResultToHarness, applyVerification), whatever
\* attempts, callbacks and restarts there are.
THEOREM HealthyWasRecoveredHolds == Spec => []HealthyWasRecovered
  <1>1. Init => HealthInv
    <2> SUFFICES ASSUME Init PROVE HealthInv
      OBVIOUS
    <2>1. AppliedHappened
      BY DEF Init, AppliedHappened
    <2>2. SeenHappened
      BY DEF Init, SeenHappened
    <2>3. RowsGood
      <3>1. row.health # "healthy" /\ row.upstream /\ Unread.health # "healthy" /\ Unread.upstream
        BY DEF Init, Unread
      <3>2. other = Unread /\ \A k \in Attempts, w \in Workers : copy[k][w] = Unread
        BY DEF Init
      <3> QED
        BY <3>1, <3>2 DEF RowsGood, Good
    <2> QED
      BY <2>1, <2>2, <2>3, TypeInit DEF HealthInv
  <1>2. HealthInv => HealthyWasRecovered
    BY DEF HealthInv, RowsGood, Good, Recoverable, SeenHappened, HealthyWasRecovered
  <1> QED
    BY <1>1, <1>2, HealthStep, PTL DEF Spec

-----------------------------------------------------------------------------
(* Units of capacity, with the simulated adapter, no restart and no torn write *)

Running == {"requested", "running"}
Kept == Running \cup {"succeeded", "partial"}

\* Where an attempt is says what became of its action: its own execution requests it,
\* and one timer, which starts when that has ended, finishes it.
Ordered(k) ==
    /\ at[k][Own] \in {"idle", "checking", "allocating", "allocated", "recovering",
                       "requesting", "accepted", "returning", "gone"}
    /\ at[k][1] \in {"idle", "finishing", "applying", "releasing", "emitting", "gone"}
    /\ \A w \in Workers \ {Own, 1} : at[k][w] = "idle"
    /\ at[k][1] # "idle" => at[k][Own] = "gone"
    /\ at[k][Own] \in {"idle", "checking", "allocating", "allocated", "recovering"} => action[k] = "none"
    /\ at[k][Own] \in {"requesting", "accepted", "returning"} => action[k] \in Running
    /\ at[k][Own] = "gone" /\ at[k][1] = "idle" => action[k] \in {"none"} \cup Running
    /\ at[k][1] = "finishing" => action[k] \in Running /\ given[k][1] \in Outcomes
    /\ at[k][1] = "applying" => action[k] = StatusOf(given[k][1]) /\ given[k][1] \in Outcomes
    /\ at[k][1] = "releasing" => action[k] = "failed"
    /\ at[k][1] \in {"emitting", "gone"} => action[k] \in {"succeeded", "partial", "failed"}

\* An attempt holds its units from the allocation until they are released.
Holds(k) ==
    \/ at[k][Own] \in {"allocated", "recovering"}
    \/ action[k] \in Kept
    \/ action[k] = "failed" /\ at[k][1] \in {"applying", "releasing"}

Holders == {k \in Attempts : Holds(k)}

Alone == mode = "simulated" /\ crashes = 0 /\ ~torn

UnitsInv ==
    Alone => /\ \A k \in Attempts : Ordered(k)
             /\ row.allocated = Cost * Cardinality(Holders)

LEMMA HoldersFinite ==
    \A H \in SUBSET Attempts : IsFiniteSet(H) /\ Cardinality(H) \in Nat
  <1>1. IsFiniteSet(Attempts)
    BY RecoveryActionsAssumption, FS_Interval DEF Attempts
  <1> QED
    BY <1>1, FS_Subset, FS_CardinalityType

\* Steps of one attempt leave the others in order.
LEMMA OthersOrdered ==
    ASSUME Alone, UnitsInv, NEW k \in Attempts, NEW w \in Workers, NEW from, NEW to, NEW result,
           Step(k, w, from, to, result),
           \A j \in Attempts : j # k => action'[j] = action[j],
           NEW j \in Attempts, j # k
    PROVE  Ordered(j)' /\ (Holds(j)' <=> Holds(j))
  <1>1. /\ \A v \in Workers : at'[j][v] = at[j][v] /\ given'[j][v] = given[j][v]
        /\ action'[j] = action[j]
    BY DEF Step
  <1>2. at'[j][Own] = at[j][Own] /\ at'[j][1] = at[j][1] /\ given'[j][1] = given[j][1]
    BY <1>1, WorkersAre
  <1>3. Ordered(j)
    BY DEF UnitsInv
  <1>4. Ordered(j)'
    BY <1>1, <1>2, <1>3 DEF Ordered
  <1> QED
    BY <1>1, <1>2, <1>4 DEF Holds

\* A step of one attempt that keeps the units where they are.
LEMMA UnitsKept ==
    ASSUME Alone, UnitsInv, NEW k \in Attempts, NEW w \in Workers, NEW from, NEW to, NEW result,
           Step(k, w, from, to, result),
           \A j \in Attempts : j # k => action'[j] = action[j],
           Ordered(k)', Holds(k)' <=> Holds(k), row'.allocated = row.allocated
    PROVE  UnitsInv'
  <1>1. \A j \in Attempts : Ordered(j)' /\ (Holds(j)' <=> Holds(j))
    BY OthersOrdered, Zenon
  <1>2. Holders' = Holders
    BY <1>1 DEF Holders
  <1>3. row.allocated = Cost * Cardinality(Holders)
    BY DEF UnitsInv
  <1> QED
    BY <1>1, <1>2, <1>3 DEF UnitsInv

LEMMA UnitsStep == TypeOK /\ UnitsInv /\ [Next]_vars => UnitsInv'
  <1> SUFFICES ASSUME TypeOK, UnitsInv, [Next]_vars, Alone' PROVE UnitsInv'
    BY DEF UnitsInv
  <1> USE WorkersAre
  <1>p. {"idle", "checking", "allocating", "allocated", "recovering", "requesting",
         "accepted", "returning", "finishing", "applying", "releasing", "emitting", "gone"} = Places
    BY DEF Places
  <1>a. action \in [Attempts -> ActionStatus]
    BY DEF TypeOK
  <1>1. ASSUME NEW k \in Attempts, Dispatch(k) PROVE UnitsInv'
    <2>1. Step(k, Own, "idle", "checking", given[k][Own]) /\ UNCHANGED <<mode, crashes, torn, action, row>>
      BY <1>1, <1>p, GoIs DEF Dispatch, incident
    <2>2. Alone /\ Ordered(k)
      BY <2>1 DEF Alone, UnitsInv
    <2>3. Ordered(k)' /\ (Holds(k)' <=> Holds(k))
      BY <2>1, <2>2 DEF Ordered, Holds, Step, Running
    <2> QED
      BY <2>1, <2>2, <2>3, UnitsKept
  <1>2. ASSUME NEW k \in Attempts, CheckPreconditions(k) PROVE UnitsInv'
    <2>1. PICK to \in {"allocating", "gone"} : Step(k, Own, "checking", to, given[k][Own])
      BY <1>2, <1>p, GoIs DEF CheckPreconditions
    <2>2. UNCHANGED <<mode, crashes, torn, action, row>>
      BY <1>2 DEF CheckPreconditions, incident
    <2>3. Alone /\ Ordered(k)
      BY <2>2 DEF Alone, UnitsInv
    <2>4. Ordered(k)' /\ (Holds(k)' <=> Holds(k))
      BY <2>1, <2>2, <2>3 DEF Ordered, Holds, Step, Running
    <2> QED
      BY <2>1, <2>2, <2>3, <2>4, UnitsKept
  <1>3. ASSUME UNCHANGED <<mode, crashes, torn, at, given, action, row>> PROVE UnitsInv'
    BY <1>3 DEF UnitsInv, Alone, Ordered, Holders, Holds
  <1>4. ASSUME NEW k \in Attempts, AllocateCapacity(k) PROVE UnitsInv'
    <2>1. UNCHANGED <<mode, crashes, action>>
      BY <1>4 DEF AllocateCapacity
    <2>5. torn => torn'
      BY <1>4 DEF AllocateCapacity, Write
    <2>2. Alone /\ Ordered(k)
      BY <2>1, <2>5 DEF Alone, UnitsInv
    <2>3. CASE Go(k, Own, "allocating", "gone") /\ UNCHANGED <<row, torn>>
      <3>1. Step(k, Own, "allocating", "gone", given[k][Own])
        BY <2>3, <1>p, GoIs
      <3>2. Ordered(k)' /\ (Holds(k)' <=> Holds(k))
        BY <2>1, <2>2, <3>1 DEF Ordered, Holds, Step, Running
      <3> QED
        BY <2>1, <2>2, <2>3, <3>1, <3>2, UnitsKept
    <2>4. CASE /\ Go(k, Own, "allocating", "allocated") /\ copy[k][Own].allocated + Cost <= Total
               /\ Write(k, Own, [copy[k][Own] EXCEPT !.allocated = @ + Cost])
      <3>9. Written(k, Own, [copy[k][Own] EXCEPT !.allocated = @ + Cost])
        BY <2>4, WriteIs
      <3>10. copy[k][Own] = row
        BY <3>9 DEF Written, Alone
      <3>11. row'.allocated = row.allocated + Cost
        BY <2>4, <3>9, <3>10, NewRows DEF Written
      <3>1. Step(k, Own, "allocating", "allocated", given[k][Own])
        BY <2>4, <1>p, GoIs
      <3>2. Ordered(k)' /\ Holds(k)' /\ ~Holds(k)
        BY <2>1, <2>2, <3>1 DEF Ordered, Holds, Step, Running, Kept
      <3>3. \A j \in Attempts : j # k => Ordered(j)' /\ (Holds(j)' <=> Holds(j))
        BY <2>1, <2>2, <3>1, OthersOrdered
      <3>4. Holders' = Holders \cup {k} /\ k \notin Holders
        BY <3>2, <3>3 DEF Holders
      <3>5. IsFiniteSet(Holders) /\ Cardinality(Holders) \in Nat
        BY HoldersFinite DEF Holders
      <3>6. Cardinality(Holders') = Cardinality(Holders) + 1
        BY <3>4, <3>5, FS_AddElement
      <3>7. \A n \in Nat : Cost * (n + 1) = Cost * n + Cost
        BY RecoveryActionsAssumption
      <3>8. row'.allocated = Cost * Cardinality(Holders')
        BY <2>2, <3>5, <3>6, <3>7, <3>11 DEF UnitsInv
      <3> QED
        BY <3>2, <3>3, <3>8 DEF UnitsInv
    <2> QED
      BY <1>4, <2>3, <2>4 DEF AllocateCapacity
  <1>17. ASSUME NEW k \in Attempts, SetRecovering(k) PROVE UnitsInv'
    <2>1. Step(k, Own, "allocated", "recovering", given[k][Own]) /\ UNCHANGED <<mode, crashes, action>>
      BY <1>17, <1>p, GoIs DEF SetRecovering
    <2>2. Written(k, Own, [copy[k][Own] EXCEPT !.health = "recovering"])
      BY <1>17, WriteIs DEF SetRecovering
    <2>3. copy[k][Own] = row /\ Alone /\ Ordered(k)
      BY <2>1, <2>2 DEF Written, Alone, UnitsInv
    <2>4. row'.allocated = row.allocated
      BY <2>2, <2>3, NewRows DEF Written
    <2>5. Ordered(k)' /\ (Holds(k)' <=> Holds(k))
      BY <2>1, <2>3 DEF Ordered, Holds, Step
    <2> QED
      BY <2>1, <2>3, <2>4, <2>5, UnitsKept
  <1>18. ASSUME NEW k \in Attempts, NEW w \in Workers, ReadRow(k, w) PROVE UnitsInv'
    BY <1>3, <1>18 DEF ReadRow
  <1>5. ASSUME NEW k \in Attempts, Request(k) \/ Accepted(k) \/ WriteRunning(k) \/ Return(k)
        PROVE  UnitsInv'
    <2>1. UNCHANGED <<mode, crashes, torn, row>>
      BY <1>5 DEF Request, Accepted, WriteRunning, Return, incident
    <2>2. Alone /\ Ordered(k)
      BY <2>1 DEF Alone, UnitsInv
    <2>4. CASE Request(k)
      <3>1. /\ Step(k, Own, "recovering", "requesting", given[k][Own])
            /\ action'[k] = "requested" /\ \A j \in Attempts : j # k => action'[j] = action[j]
        BY <2>4, <1>a, <1>p, GoIs DEF Request
      <3>2. Ordered(k)' /\ (Holds(k)' <=> Holds(k))
        BY <2>2, <3>1 DEF Ordered, Holds, Step, Kept, Running
      <3> QED
        BY <2>1, <2>2, <3>1, <3>2, UnitsKept
    <2>5. CASE Accepted(k)
      <3>1. Step(k, Own, "requesting", "accepted", given[k][Own]) /\ action' = action
        BY <2>5, <1>p, GoIs DEF Accepted
      <3>2. Ordered(k)' /\ (Holds(k)' <=> Holds(k))
        BY <2>2, <3>1 DEF Ordered, Holds, Step
      <3> QED
        BY <2>1, <2>2, <3>1, <3>2, UnitsKept
    <2>6. CASE WriteRunning(k)
      <3>1. /\ Step(k, Own, "accepted", "returning", given[k][Own])
            /\ action'[k] = "running" /\ \A j \in Attempts : j # k => action'[j] = action[j]
        BY <2>6, <1>a, <1>p, GoIs DEF WriteRunning
      <3>2. Ordered(k)' /\ (Holds(k)' <=> Holds(k))
        BY <2>2, <3>1 DEF Ordered, Holds, Step, Kept, Running
      <3> QED
        BY <2>1, <2>2, <3>1, <3>2, UnitsKept
    <2>7. CASE Return(k)
      <3>1. Step(k, Own, "returning", "gone", given[k][Own]) /\ action' = action
        BY <2>7, <1>p, GoIs DEF Return
      <3>2. Ordered(k)' /\ (Holds(k)' <=> Holds(k))
        BY <2>2, <3>1 DEF Ordered, Holds, Step
      <3> QED
        BY <2>1, <2>2, <3>1, <3>2, UnitsKept
    <2> QED
      BY <1>5, <2>4, <2>5, <2>6, <2>7
  <1>6. ASSUME NEW k \in Attempts, NEW result \in Outcomes, Take(k, result) PROVE UnitsInv'
    BY <1>3, <1>6 DEF Take, incident
  <1>7. ASSUME NEW k \in Attempts, NEW result \in Outcomes, Answered(k, result) PROVE UnitsInv'
    BY <1>7 DEF Answered, Alone
  <1>8. ASSUME NEW k \in Attempts, NEW w \in Workers, Deliver(k, w) PROVE UnitsInv'
    <2>1. UNCHANGED <<mode, crashes, torn, action, row>> /\ outcome[k] \in Outcomes /\ action[k] \in Running
      BY <1>8 DEF Deliver, Delivers, Running, TypeOK, incident
    <2>2. Alone /\ Ordered(k)
      BY <2>1 DEF Alone, UnitsInv
    <2>3. w = 1 /\ at[k][Own] = "gone"
      BY <2>2, <1>8 DEF Deliver, Delivers, Alone
    <2>4. Step(k, 1, "idle", "finishing", outcome[k])
      BY <1>8, <2>1, <2>3, ApplyIs DEF Deliver
    <2>5. Ordered(k)' /\ (Holds(k)' <=> Holds(k))
      BY <2>1, <2>2, <2>3, <2>4 DEF Ordered, Holds, Step
    <2> QED
      BY <2>1, <2>2, <2>4, <2>5, UnitsKept
  <1>9. ASSUME NEW k \in Attempts, NEW w \in Workers, Finish(k, w) PROVE UnitsInv'
    <2>1. /\ UNCHANGED <<mode, crashes, torn, row>>
          /\ Step(k, w, "finishing", "applying", given[k][w])
          /\ action'[k] = StatusOf(given[k][w]) /\ \A j \in Attempts : j # k => action'[j] = action[j]
      BY <1>9, <1>a, <1>p, GoIs DEF Finish, incident
    <2>2. Alone /\ Ordered(k)
      BY <2>1 DEF Alone, UnitsInv
    <2>3. w = 1
      BY <2>1, <2>2 DEF Ordered, Step
    <2>4. StatusOf(given[k][1]) \in {"succeeded", "partial", "failed"}
      BY DEF StatusOf
    <2>5. Ordered(k)' /\ (Holds(k)' <=> Holds(k))
      BY <2>1, <2>2, <2>3, <2>4 DEF Ordered, Holds, Step, Kept, Running
    <2> QED
      BY <2>1, <2>2, <2>5, UnitsKept
  <1>10. ASSUME NEW k \in Attempts, NEW w \in Workers, ApplyResult(k, w) PROVE UnitsInv'
    <2> DEFINE to == IF given[k][w] = "failure" THEN "releasing" ELSE "emitting"
    <2>1. UNCHANGED <<mode, crashes, action>> /\ Step(k, w, "applying", to, "none")
      BY <1>10, AppliedIs DEF ApplyResult
    <2>6. Written(k, w, Propagated([copy[k][w] EXCEPT !.health = HealthOf(given[k][w])]))
      BY <1>10, WriteIs DEF ApplyResult
    <2>2. copy[k][w] = row /\ Alone /\ Ordered(k)
      BY <2>1, <2>6 DEF Written, Alone, UnitsInv
    <2>7. row'.allocated = row.allocated
      <3>1. given[k][w] \in Outcomes \cup {"none"}
        BY DEF TypeOK
      <3> QED
        BY <2>2, <2>6, <3>1, AppliedRow DEF Written
    <2>3. w = 1
      BY <2>1, <2>2 DEF Ordered, Step
    <2>4. IF given[k][1] = "failure" THEN action[k] = "failed" ELSE action[k] \in {"succeeded", "partial"}
      BY <2>1, <2>2, <2>3 DEF Ordered, Step, StatusOf, Outcomes
    <2>5. Ordered(k)' /\ (Holds(k)' <=> Holds(k))
      BY <2>1, <2>2, <2>3, <2>4 DEF Ordered, Holds, Step, Kept
    <2> HIDE DEF to
    <2> QED
      BY <2>1, <2>2, <2>5, <2>7, UnitsKept
  <1>11. ASSUME NEW k \in Attempts, NEW w \in Workers, ReleaseCapacity(k, w) PROVE UnitsInv'
    <2>1. UNCHANGED <<mode, crashes, action>> /\ Step(k, w, "releasing", "emitting", given[k][w])
      BY <1>11, <1>p, GoIs DEF ReleaseCapacity
    <2>13. Written(k, w, [copy[k][w] EXCEPT !.allocated = IF @ < Cost THEN 0 ELSE @ - Cost])
      BY <1>11, WriteIs DEF ReleaseCapacity
    <2>2. copy[k][w] = row /\ Alone /\ Ordered(k)
      BY <2>1, <2>13 DEF Written, Alone, UnitsInv
    <2>14. row'.allocated = IF row.allocated < Cost THEN 0 ELSE row.allocated - Cost
      BY <2>2, <2>13, NewRows DEF Written
    <2>3. w = 1
      BY <2>1, <2>2 DEF Ordered, Step
    <2>4. Ordered(k)' /\ Holds(k) /\ ~Holds(k)'
      BY <2>1, <2>2, <2>3 DEF Ordered, Holds, Step, Kept, Running
    <2>5. \A j \in Attempts : j # k => Ordered(j)' /\ (Holds(j)' <=> Holds(j))
      BY <2>1, <2>2, OthersOrdered
    <2>6. Holders' = Holders \ {k} /\ k \in Holders
      BY <2>4, <2>5 DEF Holders
    <2>7. IsFiniteSet(Holders) /\ Cardinality(Holders) \in Nat /\ Cardinality(Holders') \in Nat
      BY <2>6, HoldersFinite DEF Holders
    <2>8. Cardinality(Holders) = Cardinality(Holders') + 1
      <3>1. Cardinality(Holders \ {k}) = Cardinality(Holders) - 1
        <4> HIDE DEF Holders
        <4> QED
          BY <2>6, <2>7, FS_RemoveElement
      <3>2. Cardinality(Holders') = Cardinality(Holders) - 1
        BY <2>6, <3>1, Zenon
      <3> QED
        BY <2>7, <3>2
    <2>9. \A n \in Nat : Cost * (n + 1) = Cost * n + Cost /\ Cost * n \in Nat
      BY RecoveryActionsAssumption
    <2>10. row.allocated = Cost * Cardinality(Holders)
      BY <2>2 DEF UnitsInv
    <2>11. row.allocated = Cost * Cardinality(Holders') + Cost /\ Cost * Cardinality(Holders') \in Nat
      BY <2>7, <2>8, <2>9, <2>10
    <2>12. row'.allocated = Cost * Cardinality(Holders')
      BY <2>11, <2>14, RecoveryActionsAssumption
    <2> QED
      BY <2>4, <2>5, <2>12 DEF UnitsInv
  <1>12. ASSUME NEW k \in Attempts, NEW w \in Workers, Emit(k, w) PROVE UnitsInv'
    <2>1. UNCHANGED <<mode, crashes, torn, action, row>> /\ Step(k, w, "emitting", "gone", given[k][w])
      BY <1>12, <1>p, GoIs DEF Emit, incident
    <2>2. Alone /\ Ordered(k)
      BY <2>1 DEF Alone, UnitsInv
    <2>3. w = 1
      BY <2>1, <2>2 DEF Ordered, Step
    <2>4. Ordered(k)' /\ (Holds(k)' <=> Holds(k))
      BY <2>1, <2>2, <2>3 DEF Ordered, Holds, Step
    <2> QED
      BY <2>1, <2>2, <2>4, UnitsKept
  <1>13. ASSUME NEW status \in HealthStatus, Verify(status) PROVE UnitsInv'
    BY <1>3, <1>13 DEF Verify, incident
  <1>14. ASSUME NEW k \in Attempts, Expire(k) PROVE UnitsInv'
    BY <1>3, <1>14 DEF Expire, incident
  <1>15. CASE ApplyVerification \/ OtherReads \/ UNCHANGED vars
    BY <1>3, <1>15 DEF ApplyVerification, OtherReads, vars, incident
  <1>19. CASE OtherWrites
    <2>1. /\ UNCHANGED <<mode, crashes, at, given, action>> /\ other \in Rows /\ other = row
          /\ row' \in {other, Propagated([other EXCEPT !.upstream = ~@])} /\ ~torn
      BY <1>19 DEF OtherWrites, Alone, TypeOK
    <2>2. /\ [other EXCEPT !.upstream = ~@] \in Rows
          /\ [other EXCEPT !.upstream = ~@].allocated = other.allocated
      BY <2>1, FlippedIs
    <2>3. row'.allocated = row.allocated
      BY <2>1, <2>2, PropagatedIs
    <2> QED
      BY <2>1, <2>3 DEF UnitsInv, Alone, Ordered, Holders, Holds
  <1>16. CASE Restart
    BY <1>16, RecoveryActionsAssumption DEF Restart, Alone, TypeOK
  <1> QED
    BY <1>1, <1>2, <1>4, <1>5, <1>6, <1>7, <1>8, <1>9, <1>10, <1>11, <1>12, <1>13, <1>14, <1>15, <1>16,
       <1>17, <1>18, <1>19
       DEF Next

\* Retries and late results leak no units and release none twice (allocateCapacity and
\* releaseCapacity in RecoveryService), whatever the cost, the total, the number of
\* attempts and of other writers, as long as no write is made over a row that has changed
\* since it was read.
THEOREM UnitsAreHeldHolds == Spec => []UnitsAreHeld
  <1>1. Init => UnitsInv
    <2> SUFFICES ASSUME Init PROVE UnitsInv
      OBVIOUS
    <2>1. \A k \in Attempts : Ordered(k) /\ ~Holds(k)
      BY WorkersAre DEF Init, Ordered, Holds, Kept, Running
    <2>2. Holders = {}
      BY <2>1 DEF Holders
    <2>3. row.allocated = 0 /\ Cardinality(Holders) = 0 /\ Cost * 0 = 0
      BY <2>2, FS_EmptySet, RecoveryActionsAssumption DEF Init
    <2> QED
      BY <2>1, <2>3 DEF UnitsInv
  <1>2. TypeOK /\ UnitsInv => UnitsAreHeld
    <2> SUFFICES ASSUME TypeOK, UnitsInv, Alone, ~InFlight
                 PROVE  row.allocated = Cost * Cardinality({k \in Attempts : action[k] \notin {"none", "failed"}})
      BY DEF UnitsAreHeld, Alone
    <2>1. ASSUME NEW k \in Attempts
          PROVE  Holds(k) <=> action[k] \notin {"none", "failed"}
      <3>1. at[k][Own] \in {"idle", "gone"} /\ at[k][1] \in {"idle", "gone"}
        BY WorkersAre DEF InFlight
      <3>2. action[k] \in ActionStatus
        BY DEF TypeOK
      <3> QED
        BY <3>1, <3>2 DEF Holds, Kept, Running, ActionStatus
    <2>2. Holders = {k \in Attempts : action[k] \notin {"none", "failed"}}
      BY <2>1 DEF Holders
    <2> QED
      BY <2>2 DEF UnitsInv
  <1> QED
    BY <1>1, <1>2, TypeInit, TypeStep, UnitsStep, PTL DEF Spec

=============================================================================

--------------------------- MODULE ExclusiveCycles ---------------------------
(***************************************************************************)
(* What the decision cycles of one run promise to the rest of the server,  *)
(* without the lock, the rerun flag, the triggers and the turns that       *)
(* AgentService and AgentCycleStateService keep the promise with: at most  *)
(* one execution works on a run at a time, none starts once the run was    *)
(* reset, and none works for ever.                                         *)
(***************************************************************************)
CONSTANT Executions

VARIABLES
    active,     \* the run was not reset
    working     \* the executions that observe, decide or act

vars == <<active, working>>

Init == active = TRUE /\ working = {}

StartWork ==
    /\ active /\ working = {}
    /\ \E c \in Executions : working' = {c}
    /\ UNCHANGED active

StopWork ==
    /\ working # {} /\ working' = {}
    /\ UNCHANGED active

Reset ==
    /\ active /\ active' = FALSE
    /\ UNCHANGED working

Next == StartWork \/ StopWork \/ Reset

Exclusive == Init /\ [][Next]_vars

Terminating == []<>(working = {})

Spec == Exclusive /\ Terminating
=============================================================================

--------------------------- MODULE MCActivityFeed ---------------------------
(* A small instance of ActivityFeed and of the panel AgentTrace derives from  *)
(* it: five readings of its three events for TLC.                              *)
EXTENDS AgentTrace

Activity(type, id) ==
    [type |-> type, identifier |-> id, at |-> id, turn |-> 0, disposition |-> "", approval |-> 0,
     tool |-> [identifier |-> 0, status |-> "", at |-> 0, recovers |-> "none"]]

Call(id, status, at, recovers) ==
    [identifier |-> id, status |-> status, at |-> at, recovers |-> recovers]
AboutCall(type, id, status) == [Activity(type, id) EXCEPT !.tool = Call(1, status, 1, "cards")]
AboutTurn(type, id, turn, disposition) ==
    [Activity(type, id) EXCEPT !.turn = turn, !.disposition = disposition]

\* A recovery whose payloads carry their status, and a decision of the desk.
OneRecovery ==
    [of |-> Started   :> AboutCall("tool-call.started", 5, "running")
         @@ Completed :> AboutCall("tool-call.completed", 6, "succeeded")
         @@ Request   :> [Activity("approval.decided", 7) EXCEPT !.approval = 3],
     row |-> Call(1, "", 1, "cards"), recovered |-> FALSE, cycle |-> FALSE, awaiting |-> FALSE]

\* The same, when the overview also knows of a recovery of another service.
TwoRecoveries == [OneRecovery EXCEPT !.row = Call(2, "", 1, "web")]

\* One recovery, of an incident that is over.
ClosedRecovery == [OneRecovery EXCEPT !.recovered = TRUE]

\* A turn is drafted and refused between two steps of a tool call of which only
\* the overview knows; the turn before it failed and is not named.
RefusedTurn ==
    [of |-> Started   :> AboutTurn("agent.llm-output", 5, 9, "")
         @@ Completed :> AboutTurn("agent.llm-rejected", 6, 9, "")
         @@ Request   :> AboutTurn("agent.llm-failed", 7, 0, "incomplete"),
     row |-> Call(2, "", 1, "none"), recovered |-> FALSE, cycle |-> TRUE, awaiting |-> FALSE]

\* Two turns that were thrown away one after the other, and a third one accepted.
ThrownAway ==
    [of |-> Started   :> AboutTurn("agent.llm-stale", 5, 9, "stale")
         @@ Completed :> AboutTurn("agent.llm-rejected", 6, 8, "rejected")
         @@ Request   :> AboutTurn("agent.llm-decision", 7, 4, "accepted"),
     row |-> Call(2, "", 1, "web"), recovered |-> FALSE, cycle |-> FALSE, awaiting |-> TRUE]

FiveReadings == <<OneRecovery, TwoRecoveries, ClosedRecovery, RefusedTurn, ThrownAway>>
=============================================================================

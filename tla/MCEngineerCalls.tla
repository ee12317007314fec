--------------------------- MODULE MCEngineerCalls ---------------------------
(* Small instances of EngineerCalls and CallResults for TLC. *)
EXTENDS CallResults, TLC

CONSTANTS r1, r2

OneRequest == {r1}
TwoRequests == {r1, r2}

\* Everything that can be said of the failover, and of the capacity.
FailoverTalks ==
    {[reportsNotify |-> "yes", reportsFailover |-> reported,
      analysedNotify |-> "unsaid", analysedFailover |-> analysed,
      collected |-> [q \in {"backup-capacity"} |-> entry]]
       : reported \in Permissions, analysed \in Permissions, entry \in Entries}
=============================================================================

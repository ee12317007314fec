-------------------------- MODULE MCIncidentStore --------------------------
(* Values for the constants of IncidentStore that a cfg cannot write down.   *)
EXTENDS IncidentStore, TLC

CONSTANTS r1, r2, r3, h1, h2, s1, s2, tabA, tabB

Alone == [s \in Services |-> {}]
Chain == [s \in Services |-> IF s = s2 THEN {s1} ELSE {}]
AllDown == [s \in Services |-> "down"]
DownThenDegraded == [s \in Services |-> IF s = s1 THEN "down" ELSE "degraded"]

OneSession == [r \in Runs |-> tabA]
TwoSessions == [r \in Runs |-> IF r = r3 THEN tabB ELSE tabA]
AllLive == [r \in Runs |-> "live"]

HandlerSymmetry == Permutations(Handlers)
=============================================================================

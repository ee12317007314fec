-------------------------- MODULE MCOutsideReports --------------------------
(* Values for the constants of OutsideReports that a cfg cannot write down.   *)
EXTENDS OutsideReports, TLC

CONSTANTS r1, r2, r3, h1, h2, c1, c2, s1, tabA, tabB, impact, report

Alone == [s \in Services |-> {}]
AllDown == [s \in Services |-> "down"]
TwoSessions == [r \in Runs |-> IF r = r3 THEN tabB ELSE tabA]
OtherIsReplay == [r \in Runs |-> IF r = r1 THEN "live" ELSE "replay"]

HandlerSymmetry == Permutations(Handlers) \cup Permutations(Confirmers)
=============================================================================

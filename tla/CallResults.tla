----------------------------- MODULE CallResults -----------------------------
(***************************************************************************)
(* What a finished ElevenLabs call says, in every state of EngineerCalls:  *)
(* the permissions the agent reported while on the line, when their report *)
(* was in the row that the poll read before it asked for the result,       *)
(* joined with the analysis of the conversation (buildResult), and the     *)
(* facts AgentService records of them.  What was said is a conversation;   *)
(* its texts are what they are taken for.                                  *)
(***************************************************************************)
EXTENDS EngineerCalls

CONSTANTS
    Questions,          \* keys of the questions of the call
    CapacityQuestion,   \* "backup-capacity", which confirms the capacity
    Conversations       \* the conversations that are looked at

\* A permission that was not spoken of has the value null.
Permissions == {"yes", "no", "unsaid"}

\* An entry of the collected data: a boolean, a text with or without doubt in it, one
\* with nothing in it, or no entry at all.
Entries == {"yes", "no", "sure", "doubtful", "empty", "missing"}

ASSUME CallResultsAssumption ==
    /\ CapacityQuestion \in Questions
    /\ Conversations \subseteq
         [reportsNotify : Permissions, reportsFailover : Permissions,
          analysedNotify : Permissions, analysedFailover : Permissions,
          collected : [Questions -> Entries]]

-----------------------------------------------------------------------------
(* Faulty variants of the definitions below.                                     *)

\* The analysis heard the whole conversation.
PreferAnalysed(analysed, live) == IF analysed = "unsaid" THEN live ELSE analysed

-----------------------------------------------------------------------------
(* buildResult of the call whose row is r                                        *)

NothingSaid == [notify |-> "unsaid", failover |-> "unsaid"]

\* authorizationFrom: there is no analysis of a conversation that failed.
Analysed(c, r) ==
    IF r.status = "completed"
    THEN [notify |-> c.analysedNotify, failover |-> c.analysedFailover] ELSE NothingSaid

\* What the agent had reported when the poll read the row.
Live(c, r) ==
    IF PrefersLive(r) THEN [notify |-> c.reportsNotify, failover |-> c.reportsFailover]
    ELSE NothingSaid

PreferLive(analysed, live) == IF live = "unsaid" THEN analysed ELSE live

Contradicts(analysed, live) == analysed # "unsaid" /\ live # "unsaid" /\ analysed # live

AuthorizationsDisagree(c, r) ==
    \/ Contradicts(Analysed(c, r).notify, Live(c, r).notify)
    \/ Contradicts(Analysed(c, r).failover, Live(c, r).failover)

\* answersFrom: only a boolean entry says by itself whether it confirms.
AnswersFrom(c, r) ==
    IF r.status = "completed" THEN {q \in Questions : c.collected[q] # "missing"} ELSE {}

BuildResult(c, r) ==
    [notify   |-> PreferLive(Analysed(c, r).notify, Live(c, r).notify),
     failover |-> PreferLive(Analysed(c, r).failover, Live(c, r).failover),
     noted    |-> AuthorizationsDisagree(c, r),
     answers  |-> AnswersFrom(c, r)]

-----------------------------------------------------------------------------
(* recordFactsFromCall and recordAuthorizationsFromCall                          *)

\* interpretAnswer of a live call: what is not negative confirms.
Confirms(entry) == entry \notin {"no", "doubtful"}

ConfirmedByAnswer(c, r) == {q \in BuildResult(c, r).answers : Confirms(c.collected[q])}

\* An authorized failover settles every question of the call and the capacity.
ConfirmedFacts(c, r) ==
    IF BuildResult(c, r).failover = "yes" THEN Questions ELSE ConfirmedByAnswer(c, r)

ConfirmsCapacity(c, r) ==
    BuildResult(c, r).failover = "yes" \/ CapacityQuestion \in ConfirmedByAnswer(c, r)

-----------------------------------------------------------------------------
\* In the result of an answered call a failover is authorized by what was said: by the
\* report in the row that the poll read before it asked for the result (a refusal read
\* there is not turned into a permission by the analysis), or, when it read none, by the
\* analysis of a conversation that took place.  When the two differ the result says so.
\* The capacity is confirmed by an authorized failover, which then confirms all facts, or by
\* a conversation that took place and has an entry for it that is not negative (one with
\* nothing in it is not negative; the comments at elevenlabs-engineer-call.adapter.ts:426 and :471).
\* A report saved after that read is not in the result: completeCall writes over it.
FailoverWasAuthorized ==
    \A n \in Attempts, c \in Conversations :
        LET r == row[n]
            reported == IF r.live THEN c.reportsFailover ELSE "unsaid"
            analysed == IF phone[n] = "completed" THEN c.analysedFailover ELSE "unsaid"
            unconfirmed == \/ phone[n] # "completed"
                           \/ c.collected[CapacityQuestion] \in {"no", "doubtful", "missing"}
        IN  adapter = "elevenlabs" /\ Finished(r) /\ r.result = "person" =>
              /\ BuildResult(c, r).failover = "yes" =>
                    reported = "yes" \/ (reported = "unsaid" /\ analysed = "yes")
              /\ {reported, analysed} = {"yes", "no"} => BuildResult(c, r).noted
              /\ ConfirmsCapacity(c, r) /\ unconfirmed =>
                    BuildResult(c, r).failover = "yes" /\ ConfirmedFacts(c, r) = Questions
=============================================================================

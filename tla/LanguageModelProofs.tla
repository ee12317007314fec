------------------------- MODULE LanguageModelProofs -------------------------
(***************************************************************************)
(* Proofs about the two sides of the language model: the loop of a cycle   *)
(* (AgentTurns), for every limit of turns, steps and messages, and the     *)
(* client its requests go through (LlmClient), for any number of calls,    *)
(* any longest pause and any window of the relief provider.                *)
(*                                                                         *)
(* A pause is honoured by whoever waits for it, and nobody else knows of   *)
(* it: a call sleeps through the cooldown once, when its turn in the chain *)
(* comes.  So the argument needs that nobody else is at work meanwhile,    *)
(* which is what the chain is for.  Chained says that the calls have       *)
(* places in a line, each one behind the call it was chained to, and that  *)
(* everybody behind a call that has not ended is queued; PausesKept says   *)
(* what the call at work has slept through already.                        *)
(***************************************************************************)
EXTENDS AgentTurns, LlmClient, FiniteSetTheorems, SequenceTheorems, TLAPS

-----------------------------------------------------------------------------
(* Conversations *)

Conversation(h) == h \in Seq(Messages) /\ Paired(h)

\* The most recent messages of a conversation, as Trimmed takes them first: only the
\* first of them can lack its partner.
Recent(h, limit) == IF Len(h) > limit THEN SubSeq(h, Len(h) - limit + 1, Len(h)) ELSE h

LEMMA RecentOnes ==
    ASSUME NEW h, Conversation(h), NEW limit \in Nat \ {0}, NEW recent,
           recent = Recent(h, limit)
    PROVE  /\ recent \in Seq(Messages)
           /\ \A i \in DOMAIN recent :
                /\ recent[i] = "tool" /\ i > 1 => recent[i - 1] = "assistant"
                /\ recent[i] = "assistant" => i < Len(recent) /\ recent[i + 1] = "tool"
           /\ Len(recent) <= limit
  <1> USE DEF Conversation, Recent
  <1>1. CASE Len(h) > limit
    <2> DEFINE k == Len(h) - limit
    <2>1. k \in Nat /\ k + limit = Len(h) /\ Len(h) \in Nat /\ k + 1 \in 1..Len(h)
      BY <1>1
    <2>2. recent = SubSeq(h, k + 1, Len(h))
      BY <1>1
    <2> HIDE DEF k
    <2>s. h \in Seq(Messages) /\ \A i \in (k + 1)..Len(h) : h[i] \in Messages
      BY <2>1
    <2>3. recent \in Seq(Messages) /\ Len(recent) = limit
      BY <2>1, <2>2, <2>s, SubSeqProperties
    <2>4. \A i \in 1..limit : recent[i] = h[k + i]
      <3> SUFFICES ASSUME NEW i \in 1..limit PROVE recent[i] = h[k + i]
        OBVIOUS
      <3>1. /\ k + 1 \in Int /\ Len(h) \in Int /\ i \in 1..(Len(h) - (k + 1) + 1)
            /\ (k + 1) + i - 1 = k + i
        BY <2>1
      <3>2. SubSeq(h, k + 1, Len(h))[i] = h[(k + 1) + i - 1]
        <4>1. \A j \in 1..(Len(h) - (k + 1) + 1) : SubSeq(h, k + 1, Len(h))[j] = h[(k + 1) + j - 1]
          BY <3>1, <2>s, SubSeqProperties
        <4> QED
          BY <3>1, <4>1, Zenon
      <3> QED
        BY <2>2, <3>1, <3>2
    <2>5. ASSUME NEW i \in 1..limit, recent[i] = "tool", i > 1 PROVE recent[i - 1] = "assistant"
      <3>0. k + i \in 1..Len(h) /\ i - 1 \in 1..limit /\ limit \in Nat
        BY <2>1, <2>5
      <3>1. k + i \in DOMAIN h /\ h[k + i] = "tool" /\ i - 1 \in 1..limit
        BY <3>0, <2>s, <2>4, <2>5
      <3>2. h[(k + i) - 1] = "assistant"
        BY <3>1, Zenon DEF Paired
      <3>3. recent[i - 1] = h[k + (i - 1)]
        BY <3>1, <2>4, Zenon
      <3>4. k + (i - 1) = (k + i) - 1
        BY <2>1
      <3> QED
        BY <3>2, <3>3, <3>4
    <2>6. ASSUME NEW i \in 1..limit, recent[i] = "assistant" PROVE i < limit /\ recent[i + 1] = "tool"
      <3>0. k + i \in 1..Len(h)
        BY <2>1, <2>6
      <3>1. k + i \in DOMAIN h /\ h[k + i] = "assistant"
        BY <3>0, <2>s, <2>4, <2>6
      <3>2. k + i < Len(h) /\ h[k + i + 1] = "tool"
        BY <3>1, Zenon DEF Paired
      <3>3. i + 1 \in 1..limit
        BY <3>2, <2>1
      <3>4. recent[i + 1] = h[k + (i + 1)]
        BY <3>3, <2>4
      <3> QED
        BY <2>1, <3>2, <3>3, <3>4
    <2>7. DOMAIN recent = 1..limit /\ Len(recent) <= limit
      BY <2>3
    <2> QED
      BY <2>3, <2>5, <2>6, <2>7
  <1>2. CASE ~ (Len(h) > limit)
    BY <1>2 DEF Paired
  <1> QED
    BY <1>1, <1>2

\* So what Trimmed leaves is paired again.
LEMMA TrimmedIsPaired ==
    ASSUME NEW h, Conversation(h), NEW limit \in Nat \ {0}
    PROVE  Conversation(Trimmed(h, limit)) /\ Len(Trimmed(h, limit)) <= limit
  <1> DEFINE recent == Recent(h, limit)
             tools == {i \in DOMAIN recent : \A j \in 1..i : recent[j] = "tool"}
  <1>1. /\ recent \in Seq(Messages)
        /\ \A i \in DOMAIN recent :
             /\ recent[i] = "tool" /\ i > 1 => recent[i - 1] = "assistant"
             /\ recent[i] = "assistant" => i < Len(recent) /\ recent[i + 1] = "tool"
        /\ Len(recent) <= limit
    BY RecentOnes, Zenon
  <1>2. Trimmed(h, limit) = SubSeq(recent, Cardinality(tools) + 1, Len(recent))
    BY Zenon DEF Trimmed, Recent
  <1> HIDE DEF recent
  <1>3. tools \subseteq {1}
    <2> SUFFICES ASSUME NEW i \in tools PROVE i = 1
      OBVIOUS
    <2>1. i \in 1..Len(recent) /\ recent[i] = "tool" /\ recent[1] = "tool"
      BY <1>1
    <2>2. CASE i > 1
      <3>1. i - 1 \in 1..i /\ recent[i - 1] = "assistant"
        BY <1>1, <2>1, <2>2
      <3>2. recent[i - 1] = "tool"
        BY <3>1
      <3> QED
        BY <3>1, <3>2
    <2> QED
      BY <2>1, <2>2
  <1>4. CASE Len(recent) >= 1 /\ recent[1] = "tool"
    <2>1. tools = {1}
      BY <1>1, <1>3, <1>4
    <2>2. Cardinality(tools) = 1
      BY <2>1, FS_Singleton
    <2>3. Trimmed(h, limit) = SubSeq(recent, 2, Len(recent))
      <3>1. Trimmed(h, limit) = SubSeq(recent, 1 + 1, Len(recent))
        BY <1>2, <2>2, Zenon
      <3> QED
        BY <3>1
    <2> DEFINE rest == SubSeq(recent, 2, Len(recent))
    <2>4. /\ rest \in Seq(Messages) /\ Len(rest) = Len(recent) - 1
          /\ \A i \in 1..Len(rest) : rest[i] = recent[i + 1]
      BY <1>1, <1>4
    <2> HIDE DEF rest
    <2>5. ASSUME NEW i \in DOMAIN rest, rest[i] = "tool"
          PROVE  i > 1 /\ rest[i - 1] = "assistant"
      <3>1. i + 1 \in DOMAIN recent /\ recent[i + 1] = "tool" /\ i + 1 > 1
        BY <1>1, <2>4, <2>5
      <3>2. recent[i] = "assistant"
        BY <1>1, <3>1, <2>4
      <3>3. i # 1
        BY <3>2, <1>4
      <3>4. i - 1 \in 1..Len(rest) /\ rest[i - 1] = recent[(i - 1) + 1]
        BY <2>4, <3>3
      <3> QED
        BY <2>4, <3>2, <3>3, <3>4
    <2>6. ASSUME NEW i \in DOMAIN rest, rest[i] = "assistant"
          PROVE  i < Len(rest) /\ rest[i + 1] = "tool"
      <3>1. i + 1 \in DOMAIN recent /\ recent[i + 1] = "assistant"
        BY <1>1, <2>4, <2>6
      <3>2. i + 1 < Len(recent) /\ recent[(i + 1) + 1] = "tool"
        BY <1>1, <3>1
      <3>3. i + 1 \in 1..Len(rest) /\ rest[i + 1] = recent[(i + 1) + 1]
        BY <1>1, <2>4, <3>2
      <3> QED
        BY <1>1, <2>4, <3>2, <3>3
    <2>7. Paired(rest)
      BY <2>5, <2>6, Zenon DEF Paired
    <2>8. Trimmed(h, limit) = rest
      BY <2>3 DEF rest
    <2> QED
      BY <1>1, <2>4, <2>7, <2>8 DEF Conversation
  <1>5. CASE ~ (Len(recent) >= 1 /\ recent[1] = "tool")
    <2>1. tools = {}
      <3> SUFFICES ASSUME NEW i \in tools PROVE FALSE
        OBVIOUS
      <3>1. i = 1 /\ i \in DOMAIN recent /\ recent[1] = "tool"
        BY <1>3
      <3> QED
        BY <1>1, <1>5, <3>1
    <2>2. Cardinality(tools) = 0
      BY <2>1, FS_EmptySet
    <2>3. Trimmed(h, limit) = SubSeq(recent, 1, Len(recent))
      <3>1. Trimmed(h, limit) = SubSeq(recent, 0 + 1, Len(recent))
        BY <1>2, <2>2, Zenon
      <3> QED
        BY <3>1
    <2>4. SubSeq(recent, 1, Len(recent)) = recent
      BY <1>1
    <2>5. Paired(recent)
      <3>1. ASSUME NEW i \in DOMAIN recent, recent[i] = "tool"
            PROVE  i > 1
        BY <1>1, <1>5, <3>1
      <3> QED
        BY <1>1, <3>1 DEF Paired
    <2> QED
      BY <1>1, <2>3, <2>4, <2>5 DEF Conversation
  <1> QED
    BY <1>4, <1>5

LEMMA ExchangeIsPaired ==
    ASSUME NEW h, Conversation(h), NEW limit \in Nat \ {0}
    PROVE  Conversation(Exchange(h, limit))
  <1> DEFINE longer == h \o <<"assistant", "tool">>
  <1>1. h \in Seq(Messages) /\ Len(h) \in Nat
    BY DEF Conversation
  <1>2. /\ longer \in Seq(Messages) /\ Len(longer) = Len(h) + 2
        /\ \A i \in 1..Len(h) : longer[i] = h[i]
        /\ longer[Len(h) + 1] = "assistant" /\ longer[Len(h) + 2] = "tool"
    BY <1>1 DEF Messages
  <1> HIDE DEF longer
  <1>3. ASSUME NEW i \in DOMAIN longer, longer[i] = "tool"
        PROVE  i > 1 /\ longer[i - 1] = "assistant"
    <2>1. CASE i \in 1..Len(h)
      <3>1. i > 1 /\ h[i - 1] = "assistant"
        BY <1>1, <1>2, <1>3, <2>1 DEF Conversation, Paired
      <3> QED
        BY <1>1, <1>2, <2>1, <3>1
    <2>2. CASE i = Len(h) + 1
      BY <1>2, <1>3, <2>2
    <2>3. CASE i = Len(h) + 2
      BY <1>1, <1>2, <2>3
    <2> QED
      BY <1>1, <1>2, <2>1, <2>2, <2>3
  <1>4. ASSUME NEW i \in DOMAIN longer, longer[i] = "assistant"
        PROVE  i < Len(longer) /\ longer[i + 1] = "tool"
    <2>1. CASE i \in 1..Len(h)
      <3>1. i < Len(h) /\ h[i + 1] = "tool"
        BY <1>1, <1>2, <1>4, <2>1 DEF Conversation, Paired
      <3> QED
        BY <1>1, <1>2, <2>1, <3>1
    <2>2. CASE i = Len(h) + 1
      BY <1>1, <1>2, <2>2
    <2>3. CASE i = Len(h) + 2
      BY <1>2, <1>4, <2>3
    <2> QED
      BY <1>1, <1>2, <2>1, <2>2, <2>3
  <1>5. Conversation(longer)
    BY <1>2, <1>3, <1>4 DEF Conversation, Paired
  <1> QED
    BY <1>5, TrimmedIsPaired DEF Exchange, longer

LEMMA ComplaintIsPaired ==
    ASSUME NEW h, Conversation(h)
    PROVE  Conversation(Complaint(h))
  <1> DEFINE longer == Append(h, "user")
  <1>1. h \in Seq(Messages) /\ Len(h) \in Nat
    BY DEF Conversation
  <1>2. /\ longer \in Seq(Messages) /\ Len(longer) = Len(h) + 1
        /\ \A i \in 1..Len(h) : longer[i] = h[i]
        /\ longer[Len(h) + 1] = "user"
    BY <1>1 DEF Messages
  <1> HIDE DEF longer
  <1>3. ASSUME NEW i \in DOMAIN longer
        PROVE  /\ longer[i] = "tool" => i > 1 /\ longer[i - 1] = "assistant"
               /\ longer[i] = "assistant" => i < Len(longer) /\ longer[i + 1] = "tool"
    <2>1. CASE i \in 1..Len(h)
      <3>1. /\ h[i] = "tool" => i > 1 /\ h[i - 1] = "assistant"
            /\ h[i] = "assistant" => i < Len(h) /\ h[i + 1] = "tool"
        BY <1>1, <2>1 DEF Conversation, Paired
      <3> QED
        BY <1>1, <1>2, <2>1, <3>1
    <2>2. CASE i = Len(h) + 1
      BY <1>2, <2>2
    <2> QED
      BY <1>1, <1>2, <2>1, <2>2
  <1> QED
    BY <1>2, <1>3 DEF Conversation, Paired, Complaint, longer

LEMMA EmptyIsPaired == Conversation(<<>>)
  BY DEF Conversation, Paired

-----------------------------------------------------------------------------
(* The inductive invariant: both conversations are paired; what the commander *)
(* was shown is still so in every part that has not changed since; and when   *)
(* something had changed before a decision was confirmed, the observation     *)
(* that confirms it has found that out or has still to read it.               *)

BothPaired == Conversation(history) /\ Conversation(subhistory)

Kept ==
    /\ unseen \subseteq Parts /\ unread \subseteq Parts
    /\ noted \in [active : BOOLEAN, blocked : BOOLEAN, inFlight : BOOLEAN, differs : BOOLEAN]
    /\ active \in BOOLEAN /\ blocked \in BOOLEAN /\ held \in BOOLEAN

\* The parts read so far by the observation a turn begins with.
Reading ==
    stage = "observing" =>
        /\ "incident" \notin unread \cup unseen => active = noted.active
        /\ "reports" \notin unread \cup unseen => blocked = noted.blocked
        /\ "plan" \notin unread \cup unseen => steps = seen

\* What the commander was shown when it was asked.
Shown ==
    stage \notin {"observing", "ended"} =>
        /\ "incident" \notin unseen => active = TRUE
        /\ "reports" \notin unseen => blocked = FALSE
        /\ "plan" \notin unseen => steps = seen

Found == unseen \cap unread # {} \/ noted.differs = TRUE

Doubted == stage = "confirming" => held = TRUE \/ Found

Started == stage = "dispatching" => held = TRUE

Seeing == Kept /\ Reading /\ Shown /\ Doubted /\ Started

\* The observation begins anew: nothing of it is read.
LEMMA ObservesIs ==
    ASSUME Observes
    PROVE  /\ unread' = Parts /\ noted' = Nothing
           /\ noted' \in [active : BOOLEAN, blocked : BOOLEAN, inFlight : BOOLEAN,
                          differs : BOOLEAN]
  BY DEF Observes, Nothing

\* A new turn, whatever was done before it.
LEMMA TurnOverSees ==
    ASSUME Kept, TurnOver, unseen' \subseteq Parts, active' \in BOOLEAN, blocked' \in BOOLEAN,
           held' \in BOOLEAN
    PROVE  Seeing'
  <1>1. unread' = Parts /\ stage' = "observing"
    BY DEF TurnOver, Observes
  <1>2. Kept'
    BY ObservesIs DEF Kept, TurnOver
  <1> QED
    BY <1>1, <1>2 DEF Seeing, Reading, Shown, Doubted, Started, Parts

\* A step that reads and changes nothing of the run and leaves the observation alone.
LEMMA QuietSees ==
    ASSUME Seeing, UNCHANGED <<active, blocked, steps, seen, held>>, UNCHANGED observation,
           unseen \subseteq unseen', unseen' \subseteq Parts,
           \/ stage' = stage
           \/ stage' = "ended"
           \/ /\ stage \notin {"observing", "ended"}
              /\ stage' \in {"asking", "rechecking", "acting", "delegating"}
    PROVE  Seeing'
  <1>1. unread' = unread /\ noted' = noted
    BY DEF observation
  <1>2. Kept' /\ Reading'
    BY <1>1 DEF Seeing, Kept, Reading
  <1>3. Shown'
    BY DEF Seeing, Shown
  <1>4. Doubted' /\ Started'
    BY <1>1 DEF Seeing, Doubted, Started, Found
  <1> QED
    BY <1>2, <1>3, <1>4 DEF Seeing

\* A change outside.
LEMMA ChangeSees ==
    ASSUME Seeing, NEW parts \in SUBSET Parts, Changed(parts),
           UNCHANGED <<observation, seen, held, stage>>,
           active' \in BOOLEAN /\ ("incident" \notin parts => active' = active),
           blocked' \in BOOLEAN /\ ("reports" \notin parts => blocked' = blocked),
           "plan" \notin parts => steps' = steps
    PROVE  Seeing'
  <1>1. unread' = unread /\ noted' = noted /\ unseen' = unseen \cup parts
    BY DEF observation, Changed
  <1>2. Kept' /\ Reading'
    BY <1>1 DEF Seeing, Kept, Reading
  <1>3. Shown'
    BY <1>1 DEF Seeing, Shown
  <1>4. Doubted' /\ Started'
    BY <1>1 DEF Seeing, Doubted, Started, Found
  <1> QED
    BY <1>2, <1>3, <1>4 DEF Seeing

\* One part is read.
LEMMA ReadSees ==
    ASSUME Seeing, NEW p \in Parts, Read(p)
    PROVE  Seeing'
  <1>1. /\ unread' = unread \ {p} /\ p \in unread
        /\ UNCHANGED <<active, blocked, steps, held, stage>>
        /\ stage \in {"observing", "rechecking", "confirming"}
    BY DEF Read, decision
  <1>2. PICK more \in BOOLEAN :
          noted' = [active   |-> IF p = "incident" THEN active ELSE noted.active,
                    blocked  |-> IF p = "reports" THEN blocked ELSE noted.blocked,
                    inFlight |-> IF p = "plan" /\ stage = "rechecking"
                                 THEN HasInFlightWork(steps) \/ more ELSE noted.inFlight,
                    differs  |-> noted.differs \/ (stage # "observing" /\ Differs(p))]
    BY DEF Read
  <1>3. /\ noted'.active = (IF p = "incident" THEN active ELSE noted.active)
        /\ noted'.blocked = (IF p = "reports" THEN blocked ELSE noted.blocked)
        /\ noted'.differs = (noted.differs \/ (stage # "observing" /\ Differs(p)))
    BY <1>2
  <1>4. noted' \in [active : BOOLEAN, blocked : BOOLEAN, inFlight : BOOLEAN, differs : BOOLEAN]
    <2>1. (IF p = "plan" /\ stage = "rechecking"
           THEN HasInFlightWork(steps) \/ more ELSE noted.inFlight) \in BOOLEAN
      BY DEF Seeing, Kept, HasInFlightWork
    <2>2. (noted.differs \/ (stage # "observing" /\ Differs(p))) \in BOOLEAN
      OBVIOUS
    <2> QED
      BY <1>2, <2>1, <2>2 DEF Seeing, Kept
  <1>5. CASE stage = "observing"
    <2>1. unseen' = unseen \ {p} /\ seen' = (IF p = "plan" THEN steps ELSE seen)
      BY <1>5 DEF Read
    <2>2. Kept'
      BY <1>1, <1>4, <2>1 DEF Seeing, Kept
    <2>3. Reading'
      BY <1>1, <1>3, <1>5, <2>1 DEF Seeing, Reading
    <2> QED
      BY <1>1, <1>5, <2>2, <2>3 DEF Seeing, Shown, Doubted, Started
  <1>6. CASE stage # "observing"
    <2>1. UNCHANGED <<unseen, seen>>
      BY <1>6 DEF Read
    <2>2. Kept' /\ Shown'
      BY <1>1, <1>4, <2>1 DEF Seeing, Kept, Shown
    <2>3. Doubted'
      <3>1. ASSUME Found PROVE Found'
        <4>1. CASE noted.differs = TRUE
          BY <1>3, <4>1 DEF Found
        <4>2. CASE p \in unseen
          BY <1>3, <1>6, <4>2 DEF Found, Differs
        <4>3. CASE unseen \cap unread # {} /\ p \notin unseen
          BY <1>1, <2>1, <4>3 DEF Found
        <4> QED
          BY <3>1, <4>1, <4>2, <4>3 DEF Found
      <3> QED
        BY <1>1, <3>1 DEF Seeing, Doubted
    <2> QED
      BY <1>1, <1>6, <2>2, <2>3 DEF Seeing, Reading, Started
  <1> QED
    BY <1>5, <1>6

\* A decision is to be confirmed: if all is not as the commander saw it, some part has
\* changed since, and is now to be read once more.
LEMMA ConfirmSees ==
    ASSUME Seeing, NEW what, Confirm(what), stage \in {"acting", "delegating"},
           UNCHANGED <<run, commander>>
    PROVE  Seeing'
  <1>1. /\ stage' = "confirming" /\ unread' = Parts /\ held' = AsSeen
        /\ UNCHANGED <<active, blocked, steps, unseen, seen>>
    BY DEF Confirm, Observes, run, commander
  <1>2. held' \in BOOLEAN
    BY <1>1, Zenon DEF AsSeen
  <1>3. Kept'
    BY <1>1, <1>2, ObservesIs DEF Seeing, Kept, Confirm
  <1>4. unseen = {} => AsSeen
    BY DEF Seeing, Shown, AsSeen
  <1>5. unseen # {} => unseen' \cap unread' # {}
    BY <1>1 DEF Seeing, Kept
  <1>6. Shown'
    BY <1>1 DEF Seeing, Shown
  <1>7. unseen = {} => held' = TRUE
    BY <1>1, <1>4
  <1>8. Doubted'
    BY <1>5, <1>7 DEF Doubted, Found
  <1> QED
    BY <1>1, <1>3, <1>6, <1>8 DEF Seeing, Reading, Started

\* The answer to a decision, whoever took it: a turn of the commander begins, or the
\* specialist goes on.
LEMMA AnswerSees ==
    ASSUME Seeing, Answer, Decided, stage \in {"confirming", "dispatching"},
           UNCHANGED <<active, blocked, seen>>,
           unseen' \subseteq Parts, unseen \subseteq unseen',
           steps' = steps \/ "plan" \in unseen'
    PROVE  Seeing'
  <1>1. held' = FALSE /\ held' \in BOOLEAN
    BY DEF Decided
  <1>2. CASE kind = "none"
    <2>1. TurnOver
      BY <1>2 DEF Answer, Told
    <2> QED
      BY <1>1, <2>1, TurnOverSees DEF Seeing, Kept
  <1>3. CASE kind # "none"
    <2>1. stage' = "delegating" /\ unread' = unread /\ noted' = noted
      BY <1>3 DEF Answer, observation
    <2> QED
      BY <1>1, <2>1 DEF Seeing, Kept, Reading, Shown, Doubted, Started
  <1> QED
    BY <1>2, <1>3

LEMMA SeeingNext == Seeing /\ [Next]_vars => Seeing'
  <1> SUFFICES ASSUME Seeing, [Next]_vars PROVE Seeing'
    OBVIOUS
  <1> USE DEF run, decision, commander
  <1>0. unseen \subseteq Parts /\ active \in BOOLEAN /\ blocked \in BOOLEAN /\ held \in BOOLEAN
    BY DEF Seeing, Kept
  <1>1. ASSUME NEW p \in Parts, Read(p) PROVE Seeing'
    BY <1>1, ReadSees
  <1>2. CASE Observed
    <2>1. unread = {} /\ stage = "observing" /\ UNCHANGED <<run, observation, decision, commander>>
      BY <1>2 DEF Observed
    <2>2. CASE stage' = "ended"
      BY <1>0, <2>1, <2>2, QuietSees
    <2>3. CASE stage' # "ended"
      <3>1. stage' = "asking" /\ noted.active = TRUE /\ noted.blocked = FALSE
        BY <1>2, <2>3 DEF Observed, EndCycle, Seeing, Kept
      <3>2. Shown'
        BY <2>1, <3>1 DEF Seeing, Reading, Shown
      <3> QED
        BY <2>1, <3>1, <3>2 DEF Seeing, Kept, Reading, Doubted, Started, observation
    <2> QED
      BY <2>2, <2>3
  <1>3. CASE OutOfTurns \/ ProviderFails
    <2>1. stage' = "ended" /\ UNCHANGED <<run, observation, decision, commander>>
      BY <1>3 DEF OutOfTurns, ProviderFails, EndCycle
    <2> QED
      BY <1>0, <2>1, QuietSees
  <1>4. CASE ProviderAnswers
    <2>1. /\ unread' = Parts /\ stage' = "rechecking" /\ stage = "asking"
          /\ UNCHANGED <<run, decision, commander>>
      BY <1>4 DEF ProviderAnswers, Observes
    <2>2. Kept'
      BY <1>4, <2>1, ObservesIs DEF ProviderAnswers, Seeing, Kept
    <2> QED
      BY <2>1, <2>2 DEF Seeing, Reading, Shown, Doubted, Started
  <1>5. CASE Stale
    <2>1. CASE TurnOver
      BY <1>0, <1>5, <2>1, TurnOverSees DEF Stale, Seeing
    <2>2. CASE ~TurnOver
      <3>1. stage' = "ended" /\ UNCHANGED <<run, observation, decision, seen>>
        BY <1>5, <2>2 DEF Stale, EndCycle
      <3> QED
        BY <1>0, <3>1, QuietSees
    <2> QED
      BY <2>1, <2>2
  <1>6. CASE Pending
    <2>1. /\ stage = "rechecking" /\ stage' = "acting"
          /\ UNCHANGED <<run, observation, decision, commander>>
      BY <1>6 DEF Pending
    <2> QED
      BY <1>0, <2>1, QuietSees
  <1>7. CASE NotOneCall \/ Malformed
    BY <1>0, <1>7, TurnOverSees DEF NotOneCall, Malformed, Told, Seeing
  <1>8. CASE WaitForInput
    <2>1. CASE TurnOver
      BY <1>0, <1>8, <2>1, TurnOverSees DEF WaitForInput, Seeing
    <2>2. CASE ~TurnOver
      <3>1. stage' = "ended" /\ UNCHANGED <<run, observation, decision, seen>>
        BY <1>8, <2>2 DEF WaitForInput, Told, EndCycle
      <3> QED
        BY <1>0, <3>1, QuietSees
    <2> QED
      BY <2>1, <2>2
  <1>9. CASE ProposePlan \/ \E s \in Steps : ExecuteStep(s)
    <2>1. PICK what \in Steps \cup {"plan"} : Confirm(what)
      BY <1>9 DEF ProposePlan, ExecuteStep
    <2>2. stage = "acting" /\ UNCHANGED <<run, commander>>
      BY <1>9 DEF ProposePlan, ExecuteStep
    <2> QED
      BY <2>1, <2>2, ConfirmSees
  <1>10. ASSUME NEW k \in Specialists, Delegate(k) PROVE Seeing'
    <2>1. /\ stage = "acting" /\ stage' = "delegating"
          /\ UNCHANGED <<run, observation, decision, commander>>
      BY <1>10 DEF Delegate
    <2> QED
      BY <1>0, <2>1, QuietSees
  <1>11. CASE Refuse
    <2>1. Answer /\ Decided /\ stage = "confirming" /\ UNCHANGED <<run, seen>>
      BY <1>11 DEF Refuse, Confirming
    <2> QED
      BY <1>0, <2>1, AnswerSees
  <1>12. CASE Accept
    <2>1. /\ stage = "confirming" /\ stage' = "dispatching" /\ unread = {}
          /\ noted.differs = FALSE /\ UNCHANGED <<run, observation, decision, commander>>
      BY <1>12 DEF Accept, Confirming, Holds, Seeing, Kept
    <2>2. held = TRUE
      BY <2>1 DEF Seeing, Doubted, Found
    <2> QED
      BY <2>1, <2>2 DEF Seeing, Kept, Reading, Shown, Doubted, Started, observation
  <1>13. CASE Dispatch
    <2>1. Answer /\ Decided /\ stage = "dispatching" /\ UNCHANGED <<active, blocked, seen>>
      BY <1>13 DEF Dispatch
    <2>2. unseen' = unseen \cup {"plan", "evidence"}
      BY <1>13 DEF Dispatch, Changed
    <2>3. unseen' \subseteq Parts /\ unseen \subseteq unseen' /\ "plan" \in unseen'
      BY <1>0, <2>2 DEF Parts
    <2> QED
      BY <2>1, <2>3, AnswerSees
  <1>14. CASE SavePlan
    <2>1. Answer /\ Decided /\ stage = "dispatching" /\ UNCHANGED <<active, blocked, seen>>
      BY <1>14 DEF SavePlan
    <2>2. unseen' = unseen \cup {"incident", "plan", "evidence"}
      BY <1>14 DEF SavePlan, Changed
    <2>3. unseen' \subseteq Parts /\ unseen \subseteq unseen' /\ "plan" \in unseen'
      BY <1>0, <2>2 DEF Parts
    <2> QED
      BY <2>1, <2>3, AnswerSees
  <1>15. CASE Reports \/ SpecialistFails \/ SpecialistExhausted
    <2>1. TurnOver /\ UNCHANGED <<run, decision>>
      BY <1>15 DEF Reports, SpecialistFails, SpecialistExhausted, EndDelegation, Told
    <2> QED
      BY <1>0, <2>1, TurnOverSees DEF Seeing
  <1>16. CASE SpecialistNotOneCall \/ SpecialistMalformed
    <2>1. UNCHANGED <<run, observation, decision, commander, stage>>
      BY <1>16 DEF SpecialistNotOneCall, SpecialistMalformed
    <2> QED
      BY <1>0, <2>1, QuietSees
  <1>17. CASE SpecialistReads
    <2>1. unseen' = unseen \cup {"evidence"}
          /\ UNCHANGED <<active, blocked, steps, observation, decision, commander, stage>>
      BY <1>17 DEF SpecialistReads, Changed
    <2>2. unseen' \subseteq Parts /\ unseen \subseteq unseen'
      BY <1>0, <2>1 DEF Parts
    <2> QED
      BY <2>1, <2>2, QuietSees
  <1>18. ASSUME NEW s \in Steps, SpecialistDispatches(s) PROVE Seeing'
    <2>1. Confirm(s) /\ stage = "delegating" /\ UNCHANGED <<run, commander>>
      BY <1>18 DEF SpecialistDispatches, Working
    <2> QED
      BY <2>1, ConfirmSees
  <1>19. CASE StepSettles
    <2>1. Changed({"plan"}) /\ UNCHANGED <<active, blocked, observation, decision, commander, stage>>
      BY <1>19 DEF StepSettles
    <2>2. {"plan"} \in SUBSET Parts
      BY DEF Parts
    <2> QED
      BY <1>0, <2>1, <2>2, ChangeSees
  <1>20. ASSUME NEW p \in Parts \ {"plan"}, EvidenceChanges(p) PROVE Seeing'
    <2>1. /\ Changed({p}) /\ {p} \in SUBSET Parts /\ "plan" \notin {p}
          /\ UNCHANGED <<steps, observation, decision, commander, stage>>
      BY <1>20 DEF EvidenceChanges
    <2>2. blocked' \in BOOLEAN /\ ("reports" \notin {p} => blocked' = blocked)
      BY <1>0, <1>20 DEF EvidenceChanges
    <2>3. active' \in BOOLEAN /\ ("incident" \notin {p} => active' = active)
      BY <1>0, <1>20 DEF EvidenceChanges
    <2> QED
      BY <2>1, <2>2, <2>3, ChangeSees
  <1>21. CASE UNCHANGED vars
    BY <1>0, <1>21, QuietSees DEF vars
  <1> QED
    BY <1>1, <1>2, <1>3, <1>4, <1>5, <1>6, <1>7, <1>8, <1>9, <1>10, <1>11, <1>12, <1>13,
       <1>14, <1>15, <1>16, <1>17, <1>18, <1>19, <1>20, <1>21
       DEF Next, CommanderTurn, SpecialistTurn

LEMMA PairedNext == BothPaired /\ [Next]_vars => BothPaired'
  <1> SUFFICES ASSUME BothPaired, [Next]_vars PROVE BothPaired'
    OBVIOUS
  <1>0. /\ HistoryLimit \in Nat \ {0} /\ SpecialistHistory \in Nat \ {0}
        /\ Conversation(history) /\ Conversation(subhistory)
    BY AgentTurnsAssumption DEF BothPaired
  <1>1. Conversation(Exchange(history, HistoryLimit)) /\ Conversation(Complaint(history))
    BY <1>0, ExchangeIsPaired, ComplaintIsPaired
  <1>2. Conversation(Exchange(subhistory, SpecialistHistory)) /\ Conversation(Complaint(subhistory))
    BY <1>0, ExchangeIsPaired, ComplaintIsPaired
  <1>3. CASE UNCHANGED <<history, subhistory>>
    BY <1>0, <1>3 DEF BothPaired
  <1>4. CASE \/ \E p \in Parts : Read(p) \/ EvidenceChanges(p)
             \/ Observed \/ OutOfTurns \/ ProviderFails \/ ProviderAnswers \/ Pending
             \/ ProposePlan \/ Accept \/ StepSettles \/ UNCHANGED vars
             \/ \E s \in Steps : ExecuteStep(s) \/ SpecialistDispatches(s)
    BY <1>3, <1>4
       DEF Read, EvidenceChanges, Observed, OutOfTurns, ProviderFails, ProviderAnswers, Pending,
           ProposePlan, Accept, StepSettles, vars, ExecuteStep, SpecialistDispatches, commander,
           specialist
  <1>5. CASE Stale
    BY <1>0, <1>5, EmptyIsPaired DEF Stale, BothPaired, specialist
  <1>6. CASE NotOneCall \/ Malformed \/ WaitForInput
    BY <1>0, <1>1, <1>6 DEF NotOneCall, Malformed, WaitForInput, Told, BothPaired, specialist
  <1>7. CASE \E k \in Specialists : Delegate(k)
    BY <1>0, <1>7, EmptyIsPaired DEF Delegate, BothPaired, commander
  <1>8. CASE Refuse \/ Dispatch \/ SavePlan
    <2>1. Answer
      BY <1>8 DEF Refuse, Dispatch, SavePlan
    <2> QED
      BY <1>0, <1>1, <1>2, <2>1 DEF Answer, Told, ToldSpecialist, BothPaired
  <1>9. CASE Reports \/ SpecialistFails \/ SpecialistExhausted
    <2>1. EndDelegation
      BY <1>9 DEF Reports, SpecialistFails, SpecialistExhausted
    <2> QED
      BY <1>0, <1>1, <2>1, EmptyIsPaired DEF EndDelegation, Told, BothPaired
  <1>10. CASE SpecialistNotOneCall \/ SpecialistMalformed \/ SpecialistReads
    BY <1>0, <1>2, <1>10
       DEF SpecialistNotOneCall, SpecialistMalformed, SpecialistReads, ToldSpecialist, BothPaired,
           commander
  <1> QED
    BY <1>4, <1>5, <1>6, <1>7, <1>8, <1>9, <1>10 DEF Next, CommanderTurn, SpecialistTurn

LEMMA TurnsBegin == Init => BothPaired /\ Seeing
  <1> SUFFICES ASSUME Init PROVE BothPaired /\ Seeing
    OBVIOUS
  <1>1. BothPaired
    BY EmptyIsPaired DEF Init, BothPaired
  <1>2. /\ unseen = Parts /\ unread = Parts /\ noted = Nothing /\ stage = "observing"
        /\ held = FALSE /\ active = TRUE /\ blocked = FALSE
    BY DEF Init
  <1>3. Kept
    BY <1>2 DEF Kept, Nothing
  <1> QED
    BY <1>1, <1>2, <1>3 DEF Seeing, Reading, Shown, Doubted, Started, Parts

\* No conversation, trimmed or not, separates a call from its result (pushExchange
\* of LlmLoopService and of SubagentRunnerService), whatever the limits.
THEOREM HistoryIsPairedHolds == Spec => []HistoryIsPaired
  <1>1. BothPaired => HistoryIsPaired
    BY DEF BothPaired, Conversation, HistoryIsPaired
  <1> QED
    BY TurnsBegin, PairedNext, <1>1, PTL DEF Spec

\* Whenever a tool is started or a plan is saved, there was a moment after the model had
\* answered at which the whole state was the one the model had been shown, although both
\* observations read it part by part and anything may happen between two of their reads
\* (observeForLlm and the comparison of fingerprints in actions.execute and actions.save).
THEOREM DispatchesAreCurrentHolds == Spec => []DispatchesAreCurrent
  <1>1. Seeing => DispatchesAreCurrent
    BY DEF Seeing, Started, DispatchesAreCurrent
  <1> QED
    BY TurnsBegin, SeeingNext, <1>1, PTL DEF Spec

-----------------------------------------------------------------------------
(* The inductive invariant of the client *)

Enqueued(c) == at[c] # "idle"
Ended(c) == at[c] \in {"answered", "failed"}
AtWork(c) == at[c] \in {"cooling", "asking", "pausing"}

\* Every call is right behind the call it was chained to.
BehindItsPredecessor(place) ==
    \A c \in Callers : Enqueued(c) =>
        \/ after[c] = NoCaller /\ place[c] = 0
        \/ /\ after[c] \in Callers /\ Enqueued(after[c])
           /\ place[c] = place[after[c]] + 1

OnePlaceEach(place) ==
    \A c, d \in Callers : Enqueued(c) /\ Enqueued(d) /\ place[c] = place[d] => c = d

LastIsLast(place) ==
    \/ last = NoCaller /\ \A c \in Callers : ~Enqueued(c)
    \/ /\ last \in Callers /\ Enqueued(last)
       /\ \A c \in Callers : Enqueued(c) => place[c] <= place[last]

OthersQueue(place) ==
    \A c, d \in Callers :
        Enqueued(c) /\ Enqueued(d) /\ ~Ended(c) /\ place[c] < place[d] => at[d] = "queued"

InLine(place) ==
    /\ BehindItsPredecessor(place)
    /\ OnePlaceEach(place)
    /\ LastIsLast(place)
    /\ OthersQueue(place)

Chained == \E place \in [Callers -> Nat] : InLine(place)

OneCallAtWork == \A c, d \in Callers : AtWork(c) /\ AtWork(d) => c = d

PausesKept ==
    /\ \A p \in Providers : asked[p] <= cooldown
    /\ \A c \in Callers, p \in Providers : at[c] = "cooling" => asked[p] <= wait[c]
    /\ \A c \in Callers : at[c] = "asking" => asked[provider[c]] = 0
    /\ \A c \in Callers : at[c] = "pausing" => asked[provider[c]] <= wait[c]
    /\ \A c \in Callers :
          at[c] \in {"asking", "pausing"} /\ provider[c] = "primary" => asked["relief"] = 0

ClientInv == ClientTypeOK /\ Chained /\ PausesKept

-----------------------------------------------------------------------------
(* The pauses *)

\* The pause before the next attempt is never shorter than the one the provider asked for.
LEMMA RetryWaits ==
    ASSUME NEW pause \in Pauses, NEW n \in 1..(MaximumAttempts - 1)
    PROVE  RetryWait(pause, n) \in pause..MaximumRetry
  <1>1. pause \in 1..MaximumRetry /\ MaximumRetry \in Nat
    BY LlmClientAssumption DEF Pauses
  <1>2. n \in {1, 2, 3, 4}
    BY LlmClientAssumption
  <1>3. 2 ^ (1 - 1) = 1 /\ 2 ^ (2 - 1) = 2 /\ 2 ^ (3 - 1) = 4 /\ 2 ^ (4 - 1) = 8
    OBVIOUS
  <1>4. 2 ^ (n - 1) \in {1, 2, 4, 8}
    BY <1>2, <1>3
  <1>5. \A k \in {1, 2, 4, 8} : Smaller(MaximumRetry, pause * k) \in pause..MaximumRetry
    BY <1>1 DEF Smaller
  <1> QED
    BY <1>4, <1>5 DEF RetryWait

LEMMA ClientInvInit == ClientInit => ClientInv
  <1> SUFFICES ASSUME ClientInit PROVE ClientInv
    OBVIOUS
  <1> USE LlmClientAssumption
  <1>1. ClientTypeOK
    BY DEF ClientInit, ClientTypeOK, CallStages, Providers
  <1>2. Chained
    <2> DEFINE place == [c \in Callers |-> 0]
    <2>1. place \in [Callers -> Nat]
      OBVIOUS
    <2>2. InLine(place)
      BY DEF ClientInit, InLine, BehindItsPredecessor, OnePlaceEach, LastIsLast, OthersQueue,
             Enqueued
    <2> QED
      BY <2>1, <2>2 DEF Chained
  <1>3. PausesKept
    BY DEF ClientInit, PausesKept, Providers
  <1> QED
    BY <1>1, <1>2, <1>3 DEF ClientInv

-----------------------------------------------------------------------------
(* Types *)

LEMMA ClientTypeNext == ClientTypeOK /\ [ClientNext]_clientVars => ClientTypeOK'
  <1> SUFFICES ASSUME ClientTypeOK, [ClientNext]_clientVars PROVE ClientTypeOK'
    OBVIOUS
  <1> USE LlmClientAssumption DEF ClientTypeOK, Providers, CallStages
  <1>1. CASE Tick
    BY <1>1 DEF Tick, Less
  <1>2. ASSUME NEW c \in Callers, Enqueue(c) PROVE ClientTypeOK'
    BY <1>2 DEF Enqueue, ChainedTo
  <1>3. ASSUME NEW c \in Callers, WaitForCooldown(c) PROVE ClientTypeOK'
    BY <1>3 DEF WaitForCooldown
  <1>4. ASSUME NEW c \in Callers, Begin(c) PROVE ClientTypeOK'
    BY <1>4 DEF Begin, FirstProvider
  <1>5. ASSUME NEW c \in Callers, Resume(c) PROVE ClientTypeOK'
    BY <1>5 DEF Resume
  <1>6. ASSUME NEW c \in Callers, NEW reason \in Failures \cup {"none"}, Reply(c, reason)
        PROVE  ClientTypeOK'
    BY <1>6 DEF Reply, Settle
  <1>7. ASSUME NEW c \in Callers, NEW pause \in Pauses, RateLimited(c, pause)
        PROVE  ClientTypeOK'
    <2> USE DEF Pauses
    <2>1. asked' \in [Providers -> 0..MaximumRetry]
      BY <1>7 DEF RateLimited, Larger
    <2>2. CASE Retry(c, pause)
      <3>1. attempt[c] \in 1..(MaximumAttempts - 1)
        BY <2>2 DEF Retry
      <3>2. RetryWait(pause, attempt[c]) \in 1..MaximumRetry
        BY <3>1, RetryWaits
      <3>3. cooldown' \in 0..MaximumRetry /\ wait' \in [Callers -> 0..MaximumRetry]
        BY <2>2, <3>2 DEF Retry, NoteRateLimit, Larger
      <3> QED
        BY <2>1, <2>2, <3>1, <3>3 DEF Retry
    <2>3. CASE Relieve(c, pause)
      BY <2>1, <2>3 DEF Relieve, NoteRateLimit, Larger
    <2>4. CASE GiveUp(c, pause)
      BY <2>1, <2>4, <1>7 DEF GiveUp, NoteRateLimit, Larger, Settle, RateLimited, Relieve
    <2> QED
      BY <1>7, <2>2, <2>3, <2>4 DEF RateLimited
  <1>8. CASE UNCHANGED clientVars
    BY <1>8 DEF clientVars
  <1> QED
    BY <1>1, <1>2, <1>3, <1>4, <1>5, <1>6, <1>7, <1>8 DEF ClientNext, Progress

-----------------------------------------------------------------------------
(* The line *)

\* A call that is not idle moves on: the line is as before. It only starts to work when
\* the call before it has ended.
LEMMA MovingOn ==
    ASSUME ClientTypeOK, Chained, NEW c \in Callers, Enqueued(c), ~Ended(c),
           NEW next \in CallStages \ {"idle", "queued"},
           at' = [at EXCEPT ![c] = next],
           at[c] = "queued" => Released(c),
           UNCHANGED <<last, after>>
    PROVE  Chained'
  <1> USE DEF Enqueued, Ended
  <1>1. PICK place \in [Callers -> Nat] : InLine(place)
    BY DEF Chained
  <1>2. \A d \in Callers : at'[d] = IF d = c THEN next ELSE at[d]
    BY DEF ClientTypeOK
  <1>3. \A d \in Callers : Enqueued(d)' <=> Enqueued(d)
    BY <1>2 DEF CallStages
  <1>4. BehindItsPredecessor(place)' /\ OnePlaceEach(place)' /\ LastIsLast(place)'
    BY <1>1, <1>3 DEF InLine, BehindItsPredecessor, OnePlaceEach, LastIsLast
  <1>5. \A b \in Callers : Enqueued(b) /\ place[b] < place[c] => Ended(b)
    <2> SUFFICES ASSUME NEW b \in Callers, Enqueued(b), place[b] < place[c], ~Ended(b)
                 PROVE  FALSE
      OBVIOUS
    <2>1. at[c] = "queued"
      BY <1>1 DEF InLine, OthersQueue
    <2>2. after[c] \in Callers /\ Enqueued(after[c]) /\ place[c] = place[after[c]] + 1
      BY <1>1 DEF InLine, BehindItsPredecessor
    <2>3. Ended(after[c])
      BY <2>1, <2>2 DEF Released
    <2>4. place[b] < place[after[c]] \/ place[b] = place[after[c]]
      BY <2>2
    <2>5. CASE place[b] = place[after[c]]
      BY <1>1, <2>2, <2>3, <2>5 DEF InLine, OnePlaceEach
    <2>6. CASE place[b] < place[after[c]]
      BY <1>1, <2>2, <2>3, <2>6 DEF InLine, OthersQueue
    <2> QED
      BY <2>4, <2>5, <2>6
  <1>6. OthersQueue(place)'
    <2> SUFFICES ASSUME NEW b \in Callers, NEW d \in Callers, Enqueued(b)', Enqueued(d)',
                        ~Ended(b)', place[b] < place[d]
                 PROVE  at'[d] = "queued"
      BY DEF OthersQueue
    <2>1. ~Ended(b)
      BY <1>2
    <2>2. d # c
      BY <1>3, <1>5, <2>1
    <2> QED
      BY <1>1, <1>2, <1>3, <2>1, <2>2 DEF InLine, OthersQueue
  <1> QED
    BY <1>1, <1>4, <1>6 DEF Chained, InLine

\* A new call goes to the end of the line.
LEMMA EnqueueChains ==
    ASSUME ClientTypeOK, Chained, NEW c \in Callers, Enqueue(c)
    PROVE  Chained'
  <1> USE DEF Enqueued, Ended, Enqueue, ChainedTo
  <1>1. PICK place \in [Callers -> Nat] : InLine(place)
    BY DEF Chained
  <1>2. PICK end \in Nat : end = IF last = NoCaller THEN 0 ELSE place[last] + 1
    <2>1. CASE last = NoCaller
      BY <2>1
    <2>2. CASE last # NoCaller
      <3>1. place[last] \in Nat
        BY <2>2 DEF ClientTypeOK
      <3> QED
        BY <2>2, <3>1
    <2> QED
      BY <2>1, <2>2
  <1>3. PICK line \in [Callers -> Nat] : \A d \in Callers : line[d] = IF d = c THEN end ELSE place[d]
    <2>1. [place EXCEPT ![c] = end] \in [Callers -> Nat]
      OBVIOUS
    <2> QED
      BY <2>1
  <1>4. \A d \in Callers : at'[d] = IF d = c THEN "queued" ELSE at[d]
    BY DEF ClientTypeOK
  <1>5. \A d \in Callers : after'[d] = IF d = c THEN last ELSE after[d]
    BY DEF ClientTypeOK
  <1>6. \A d \in Callers : Enqueued(d) => d # c /\ place[d] < end
    BY LlmClientAssumption, <1>1, <1>2 DEF InLine, LastIsLast
  <1>7. BehindItsPredecessor(line)'
    <2> SUFFICES ASSUME NEW d \in Callers, Enqueued(d)'
                 PROVE  \/ after'[d] = NoCaller /\ line[d] = 0
                        \/ /\ after'[d] \in Callers /\ at'[after'[d]] # "idle"
                           /\ line[d] = line[after'[d]] + 1
      BY DEF BehindItsPredecessor
    <2>1. CASE d = c /\ last = NoCaller
      BY <1>2, <1>3, <1>5, <2>1
    <2>2. CASE d = c /\ last # NoCaller
      <3>1. last \in Callers /\ Enqueued(last)
        BY <1>1, <2>2 DEF InLine, LastIsLast
      <3>2. last # c /\ Enqueued(last)'
        BY <1>4, <3>1
      <3> QED
        BY <1>2, <1>3, <1>5, <2>2, <3>1, <3>2
    <2>3. CASE d # c
      <3>1. Enqueued(d)
        BY <1>4, <2>3
      <3>2. \/ after[d] = NoCaller /\ place[d] = 0
            \/ /\ after[d] \in Callers /\ Enqueued(after[d])
               /\ place[d] = place[after[d]] + 1
        BY <1>1, <3>1 DEF InLine, BehindItsPredecessor
      <3> QED
        BY <1>3, <1>4, <1>5, <2>3, <3>2
    <2> QED
      BY <2>1, <2>2, <2>3
  <1>8. OnePlaceEach(line)'
    BY <1>1, <1>2, <1>3, <1>4, <1>6 DEF InLine, OnePlaceEach
  <1>9. LastIsLast(line)'
    BY <1>1, <1>2, <1>3, <1>4, <1>6 DEF LastIsLast
  <1>10. OthersQueue(line)'
    BY <1>1, <1>2, <1>3, <1>4, <1>6 DEF InLine, OthersQueue
  <1> QED
    BY <1>7, <1>8, <1>9, <1>10 DEF Chained, InLine

LEMMA ChainedExcludes == ASSUME Chained PROVE OneCallAtWork
  <1> SUFFICES ASSUME NEW c \in Callers, NEW d \in Callers, AtWork(c), AtWork(d), c # d
               PROVE  FALSE
    BY DEF OneCallAtWork
  <1>1. PICK place \in [Callers -> Nat] : InLine(place)
    BY DEF Chained
  <1>2. Enqueued(c) /\ Enqueued(d) /\ ~Ended(c) /\ ~Ended(d)
    BY DEF AtWork, Enqueued, Ended
  <1>3. place[c] < place[d] \/ place[d] < place[c]
    BY <1>1, <1>2 DEF InLine, OnePlaceEach
  <1> QED
    BY <1>1, <1>2, <1>3 DEF InLine, OthersQueue, AtWork

LEMMA ChainedNext == ClientTypeOK /\ Chained /\ [ClientNext]_clientVars => Chained'
  <1> SUFFICES ASSUME ClientTypeOK, Chained, [ClientNext]_clientVars PROVE Chained'
    OBVIOUS
  <1> USE DEF Enqueued, Ended
  <1>1. CASE UNCHANGED <<at, last, after>>
    BY <1>1 DEF Chained, InLine, BehindItsPredecessor, OnePlaceEach, LastIsLast, OthersQueue
  <1>2. ASSUME NEW c \in Callers, Progress(c) PROVE Chained'
    <2>1. CASE WaitForCooldown(c)
      BY <2>1, MovingOn DEF WaitForCooldown, CallStages
    <2>2. CASE Begin(c)
      BY <2>2, MovingOn DEF Begin, CallStages
    <2>3. CASE Resume(c)
      BY <2>3, MovingOn DEF Resume, CallStages
    <2>4. ASSUME NEW reason \in Failures \cup {"none"}, Reply(c, reason) PROVE Chained'
      <3>1. PICK next \in {"answered", "failed"} : Settle(c, next) /\ at[c] = "asking"
        BY <2>4 DEF Reply
      <3> QED
        BY <3>1, MovingOn DEF Settle, CallStages
    <2>5. ASSUME NEW pause \in Pauses, RateLimited(c, pause) PROVE Chained'
      <3>1. CASE Retry(c, pause)
        BY <2>5, <3>1, MovingOn DEF RateLimited, Retry, CallStages
      <3>2. CASE Relieve(c, pause)
        BY <1>1, <3>2 DEF Relieve
      <3>3. CASE GiveUp(c, pause)
        BY <2>5, <3>3, MovingOn DEF RateLimited, GiveUp, Settle, CallStages
      <3> QED
        BY <2>5, <3>1, <3>2, <3>3 DEF RateLimited
    <2> QED
      BY <1>2, <2>1, <2>2, <2>3, <2>4, <2>5 DEF Progress
  <1> QED
    BY <1>1, <1>2, EnqueueChains DEF ClientNext, Tick, clientVars

-----------------------------------------------------------------------------
(* The pauses are kept *)

LEMMA PausesNext == ClientTypeOK /\ OneCallAtWork /\ PausesKept /\ [ClientNext]_clientVars => PausesKept'
  <1> SUFFICES ASSUME ClientTypeOK, OneCallAtWork, PausesKept, [ClientNext]_clientVars PROVE PausesKept'
    OBVIOUS
  <1> USE LlmClientAssumption
  <1>1. CASE Tick
    <2>1. /\ \A p \in Providers : asked[p] \in Nat /\ asked'[p] = Less(asked[p])
          /\ \A c \in Callers : wait[c] \in Nat /\ wait'[c] = Less(wait[c])
          /\ cooldown \in Nat /\ cooldown' = Less(cooldown)
      BY <1>1 DEF ClientTypeOK, Tick
    <2>2. \A m, n \in Nat : m <= n => Less(m) <= Less(n)
      BY DEF Less
    <2>3. \A c \in Callers : provider[c] \in Providers
      BY DEF ClientTypeOK
    <2>4. /\ \A p \in Providers : asked'[p] <= cooldown'
          /\ \A c \in Callers, p \in Providers : at[c] = "cooling" => asked'[p] <= wait'[c]
          /\ \A c \in Callers : at[c] = "pausing" => asked'[provider[c]] <= wait'[c]
      BY <2>1, <2>2, <2>3 DEF PausesKept
    <2>5. /\ \A c \in Callers : at[c] = "asking" => asked'[provider[c]] = 0
          /\ \A c \in Callers :
                at[c] \in {"asking", "pausing"} /\ provider[c] = "primary" => asked'["relief"] = 0
      BY <2>1, <2>3 DEF PausesKept, Less, Providers
    <2> QED
      BY <1>1, <2>4, <2>5 DEF PausesKept, Tick
  <1>2. ASSUME NEW c \in Callers, Enqueue(c) PROVE PausesKept'
    BY <1>2 DEF ClientTypeOK, Enqueue, PausesKept
  <1>3. ASSUME NEW c \in Callers, WaitForCooldown(c) PROVE PausesKept'
    BY <1>3 DEF ClientTypeOK, WaitForCooldown, PausesKept
  <1>4. ASSUME NEW c \in Callers, Begin(c) PROVE PausesKept'
    <2>1. \A p \in Providers : asked[p] = 0
      BY <1>4 DEF ClientTypeOK, Begin, PausesKept
    <2>2. \A d \in Callers : provider'[d] \in Providers
      BY <1>4 DEF ClientTypeOK, Begin, FirstProvider, Providers
    <2> QED
      BY <1>4, <2>1, <2>2 DEF ClientTypeOK, Begin, PausesKept, Providers
  <1>5. ASSUME NEW c \in Callers, Resume(c) PROVE PausesKept'
    <2>1. asked[provider[c]] = 0
      BY <1>5 DEF ClientTypeOK, Resume, PausesKept
    <2> QED
      BY <1>5, <2>1 DEF ClientTypeOK, Resume, PausesKept
  <1>6. ASSUME NEW c \in Callers, NEW reason \in Failures \cup {"none"}, Reply(c, reason)
        PROVE  PausesKept'
    <2>1. PICK next \in {"answered", "failed"} : Settle(c, next)
      BY <1>6 DEF Reply
    <2> QED
      BY <1>6, <2>1 DEF ClientTypeOK, Reply, Settle, PausesKept
  <1>7. ASSUME NEW c \in Callers, NEW pause \in Pauses, RateLimited(c, pause)
        PROVE  PausesKept'
    <2> DEFINE p == provider[c]
    <2>1. at[c] = "asking" /\ p \in Providers /\ pause \in 1..MaximumRetry
      BY <1>7 DEF RateLimited, ClientTypeOK, Pauses
    <2>2. asked[p] = 0
      BY <2>1 DEF PausesKept
    <2>3. \A q \in Providers : asked'[q] = IF q = p THEN pause ELSE asked[q]
      BY <1>7, <2>1, <2>2 DEF RateLimited, ClientTypeOK, Larger
    <2>4. \A d \in Callers : d # c => at[d] \notin {"cooling", "asking", "pausing"}
      BY <2>1 DEF OneCallAtWork, AtWork
    <2>5. CASE Retry(c, pause)
      <3>1. attempt[c] \in 1..(MaximumAttempts - 1)
        BY <2>5 DEF Retry, ClientTypeOK
      <3>2. RetryWait(pause, attempt[c]) \in pause..MaximumRetry
        BY <3>1, RetryWaits
      <3>3. PICK sleep \in pause..MaximumRetry :
              cooldown' = Larger(cooldown, sleep) /\ wait' = [wait EXCEPT ![c] = sleep]
        BY <2>5, <3>2 DEF Retry, NoteRateLimit
      <3>4. \A q \in Providers : asked'[q] <= cooldown'
        BY <2>1, <2>3, <3>3 DEF PausesKept, ClientTypeOK, Larger
      <3>5. asked'[p] <= wait'[c]
        BY <2>1, <2>3, <3>3 DEF ClientTypeOK
      <3>6. \A d \in Callers : at'[d] = IF d = c THEN "pausing" ELSE at[d]
        BY <2>5 DEF Retry, ClientTypeOK
      <3>7. provider' = provider
        BY <2>5 DEF Retry
      <3>8. p = "primary" => asked'["relief"] = 0
        BY <2>1, <2>3 DEF PausesKept, Providers
      <3> QED
        BY <2>4, <3>4, <3>5, <3>6, <3>7, <3>8 DEF PausesKept
    <2>6. CASE Relieve(c, pause)
      <3>1. p = "primary" /\ asked["relief"] = 0
        BY <2>1, <2>6 DEF Relieve, PausesKept
      <3>2. \A q \in Providers : asked'[q] <= cooldown'
        BY <2>1, <2>3, <2>6 DEF Relieve, NoteRateLimit, PausesKept, ClientTypeOK, Larger
      <3>3. asked'["relief"] = 0
        BY <2>3, <3>1 DEF Providers
      <3>4. at' = at /\ \A d \in Callers : provider'[d] = IF d = c THEN "relief" ELSE provider[d]
        BY <2>6 DEF Relieve, ClientTypeOK
      <3> QED
        BY <2>1, <2>4, <3>2, <3>3, <3>4 DEF PausesKept
    <2>7. CASE GiveUp(c, pause)
      <3>1. \A q \in Providers : asked'[q] <= cooldown'
        BY <2>1, <2>3, <2>7 DEF GiveUp, NoteRateLimit, PausesKept, ClientTypeOK, Larger
      <3>2. \A d \in Callers : at'[d] \notin {"cooling", "asking", "pausing"}
        BY <2>4, <2>7 DEF GiveUp, Settle, ClientTypeOK
      <3> QED
        BY <3>1, <3>2 DEF PausesKept
    <2> QED
      BY <1>7, <2>5, <2>6, <2>7 DEF RateLimited
  <1>8. CASE UNCHANGED clientVars
    BY <1>8 DEF clientVars, PausesKept
  <1> QED
    BY <1>1, <1>2, <1>3, <1>4, <1>5, <1>6, <1>7, <1>8 DEF ClientNext, Progress

-----------------------------------------------------------------------------
(* The theorems *)

LEMMA ClientInvNext == ClientInv /\ [ClientNext]_clientVars => ClientInv'
  BY ClientTypeNext, ChainedNext, ChainedExcludes, PausesNext DEF ClientInv

LEMMA ClientInvHolds == ClientSpec => []ClientInv
  BY ClientInvInit, ClientInvNext, PTL DEF ClientSpec

\* The state of the client keeps its types (LlmClientService).
THEOREM ClientTypeCorrect == ClientSpec => []ClientTypeOK
  BY ClientInvHolds, PTL DEF ClientInv

\* The chain lets one call at a time ask, wait for the cooldown or sleep through a pause,
\* however many were made and whatever became of the calls before (enqueue).
THEOREM OneCallAtATime == ClientSpec => []OneCallAtWork
  <1>1. ClientInv => OneCallAtWork
    BY ChainedExcludes DEF ClientInv
  <1> QED
    BY <1>1, ClientInvHolds, PTL

\* No request is sent to a provider before the pause it asked for is over (enqueue,
\* attempt, attemptWithRelief).
THEOREM PausesAreHonouredHolds == ClientSpec => PausesAreHonoured
  <1> DEFINE Honoured == \A c \in Callers, p \in Providers : Asks(c, p) => asked[p] = 0
  <1>1. ClientInv /\ [ClientNext]_clientVars => [Honoured]_clientVars
    <2> SUFFICES ASSUME ClientInv, ClientNext, NEW c \in Callers, NEW p \in Providers, Asks(c, p)
                 PROVE  asked[p] = 0
      OBVIOUS
    <2> USE LlmClientAssumption DEF ClientInv, ClientTypeOK, Asks
    <2>1. CASE Tick
      BY <2>1 DEF Tick
    <2>2. ASSUME NEW d \in Callers, Enqueue(d) PROVE asked[p] = 0
      BY <2>2 DEF Enqueue
    <2>3. ASSUME NEW d \in Callers, WaitForCooldown(d) PROVE asked[p] = 0
      BY <2>3 DEF WaitForCooldown
    <2>4. ASSUME NEW d \in Callers, Begin(d) PROVE asked[p] = 0
      BY <2>4 DEF Begin, PausesKept
    <2>5. ASSUME NEW d \in Callers, Resume(d) PROVE asked[p] = 0
      BY <2>5 DEF Resume, PausesKept
    <2>6. ASSUME NEW d \in Callers, NEW reason \in Failures \cup {"none"}, Reply(d, reason)
          PROVE  asked[p] = 0
      BY <2>6 DEF Reply, Settle
    <2>7. ASSUME NEW d \in Callers, NEW pause \in Pauses, RateLimited(d, pause)
          PROVE  asked[p] = 0
      BY <2>7 DEF RateLimited, Retry, Relieve, GiveUp, Settle, PausesKept
    <2> QED
      BY <2>1, <2>2, <2>3, <2>4, <2>5, <2>6, <2>7 DEF ClientNext, Progress
  <1> QED
    BY <1>1, ClientInvHolds, PTL DEF ClientSpec, PausesAreHonoured
=============================================================================

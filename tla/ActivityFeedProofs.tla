------------------------- MODULE ActivityFeedProofs --------------------------
(***************************************************************************)
(* Proofs about ActivityFeed, for any events, pages and bounds.            *)
(***************************************************************************)
EXTENDS ActivityFeed, FiniteSetTheorems, WellFoundedInduction, TLAPS

-----------------------------------------------------------------------------
(* Numbers and sets of them *)

\* A set of natural numbers has a least one.
LEMMA LeastOf ==
    ASSUME NEW T, T \subseteq Nat, T # {}
    PROVE  \E n \in T : \A m \in T : n <= m
  <1>1. PICK n \in T : \A m \in T : <<m, n>> \notin OpToRel(<, Nat)
    BY NatLessThanWellFounded, WFMin, Zenon
  <1>2. \A m \in T : ~ (m < n)
    BY <1>1, Zenon DEF OpToRel
  <1> QED
    BY <1>2

\* A bounded one has a greatest.
LEMMA GreatestOf ==
    ASSUME NEW bound \in Nat, NEW T, T \subseteq 0..bound, T # {}
    PROVE  \E n \in T : \A m \in T : m <= n
  <1> DEFINE U == {bound - n : n \in T}
  <1>1. \A n \in T : bound - n \in Nat
    OBVIOUS
  <1>2. U \subseteq Nat
    BY <1>1
  <1>3. U # {}
    OBVIOUS
  <1>4. PICK u \in U : \A v \in U : u <= v
    BY <1>2, <1>3, LeastOf, Zenon
  <1>5. PICK n \in T : u = bound - n
    OBVIOUS
  <1>6. \A m \in T : u <= bound - m
    BY <1>4
  <1>7. \A m \in T : m <= n
    BY <1>5, <1>6
  <1> QED
    BY <1>7

\* Max of the community module picks the greatest element there is.
LEMMA MaxIs ==
    ASSUME NEW T, T \subseteq Int, NEW n \in T, \A m \in T : m <= n
    PROVE  Max(T) = n
  <1>1. \A m \in T : n >= m
    OBVIOUS
  <1>2. \A k \in T : (\A m \in T : k >= m) => k = n
    OBVIOUS
  <1> QED
    BY <1>1, <1>2 DEF Max

LEMMA EventsFinite == IsFiniteSet(Events) /\ MaximumNumber \in Nat
  <1>1. IsFiniteSet({Started})
    BY FS_Singleton
  <1>2. IsFiniteSet({Started} \cup {Completed})
    BY <1>1, FS_AddElement
  <1>3. IsFiniteSet(({Started} \cup {Completed}) \cup {Request})
    BY <1>2, FS_AddElement
  <1>4. IsFiniteSet((({Started} \cup {Completed}) \cup {Request}) \cup Others)
    BY <1>3, FeedAssumption, FS_Union
  <1>5. Events = (({Started} \cup {Completed}) \cup {Request}) \cup Others
    BY DEF Events
  <1>6. IsFiniteSet(Events)
    BY <1>4, <1>5, Zenon
  <1>7. Cardinality(Events) \in Nat
    BY <1>6, FS_CardinalityType
  <1> QED
    BY <1>6, <1>7 DEF MaximumNumber

LEMMA CallsEventsDiffer == Started # Completed /\ Completed # Request /\ Started # Request
  <1>1. Cardinality({Started, Completed, Request}) = 3
    BY FeedAssumption
  <1>2. ASSUME NEW a, NEW b
        PROVE  Cardinality({a, b}) <= 2
    <2>1. IsFiniteSet({a}) /\ Cardinality({a}) = 1
      BY FS_Singleton
    <2>2. Cardinality({a} \cup {b}) <= 2
      BY <2>1, FS_AddElement
    <2>3. {a} \cup {b} = {a, b}
      OBVIOUS
    <2> QED
      BY <2>2, <2>3
  <1>3. /\ Started = Completed => {Started, Completed, Request} = {Started, Request}
        /\ Completed = Request => {Started, Completed, Request} = {Started, Completed}
        /\ Started = Request => {Started, Completed, Request} = {Started, Completed}
    OBVIOUS
  <1> QED
    BY <1>1, <1>2, <1>3

LEMMA MaxOfThree ==
    ASSUME NEW a \in Int, NEW b \in Int, NEW c \in Int
    PROVE  Max({a, b, c}) \in {a, b, c} /\ \A n \in {a, b, c} : n <= Max({a, b, c})
  <1> DEFINE T == {a, b, c}
  <1>1. T \subseteq Int
    OBVIOUS
  <1>2. \E n \in T : \A m \in T : m <= n
    <2>1. CASE b <= a /\ c <= a
      BY <2>1
    <2>2. CASE a <= b /\ c <= b
      BY <2>2
    <2>3. CASE a <= c /\ b <= c
      BY <2>3
    <2> QED
      BY <2>1, <2>2, <2>3
  <1>3. PICK n \in T : \A m \in T : m <= n
    BY <1>2
  <1>4. Max(T) = n
    BY <1>1, <1>3, MaxIs
  <1> QED
    BY <1>3, <1>4

-----------------------------------------------------------------------------
(* Unique numbers *)

Stages == {"idle", "seeding", "numbered", "read", "reserved", "lost"} \cup Stored
Held(e) == stage[e] \in Stored \cup {"numbered", "reserved"}

LogTyped ==
    /\ stage \in [Events -> Stages]
    /\ number \in [Events -> 0..MaximumNumber]
    /\ counter \in Unset..MaximumNumber
    /\ seed \in Unset..MaximumNumber

\* Only a request reads and reserves, and it is not numbered like the others.
OnlyRequestReads == \A e \in Events : stage[e] \in {"read", "reserved"} => e = Request

\* The counter of the process is above every number that is in use.
BelowCounter == counter # Unset => \A e \in Events : Held(e) => number[e] <= counter

\* Before there is a counter nobody holds a number that is not on the log, and
\* no event of this process is.
NothingInFlight ==
    counter = Unset => \A e \in Events : stage[e] \notin {"numbered", "reserved", "committed"}

\* Until then the answer of the seeding query, and the maximum that the
\* transaction of a request has read, are above the log.
SeedCovers ==
    counter = Unset /\ seed # Unset => \A e \in Rows : number[e] <= seed
ReadCovers ==
    counter = Unset /\ stage[Request] = "read" => \A e \in Rows : number[e] <= number[Request]

NumberInv ==
    /\ LogTyped
    /\ OnlyRequestReads
    /\ BelowCounter
    /\ NothingInFlight
    /\ SeedCovers
    /\ ReadCovers
    /\ NumbersAreUnique

LEMMA HighestIs ==
    ASSUME LogTyped, NEW S, S \subseteq Events
    PROVE  /\ Highest(S) \in 0..MaximumNumber
           /\ \A e \in S : number[e] <= Highest(S)
  <1> DEFINE T == {number[e] : e \in S} \cup {0}
  <1>1. T \subseteq 0..MaximumNumber /\ T # {}
    BY EventsFinite DEF LogTyped
  <1>2. PICK n \in T : \A m \in T : m <= n
    BY <1>1, EventsFinite, GreatestOf, Zenon
  <1>3. T \subseteq Int
    BY <1>1
  <1>4. Max(T) = n
    BY <1>2, <1>3, MaxIs, Zenon
  <1>5. Highest(S) = n
    BY <1>4 DEF Highest
  <1>6. \A e \in S : number[e] <= n
    BY <1>2
  <1> QED
    BY <1>1, <1>2, <1>5, <1>6

LEMMA RequestIsEvent == Request \in Events /\ Started \in Events /\ Completed \in Events
  BY DEF Events

\* Taking the next number of the counter keeps the invariant.
LEMMA NumberTaken ==
    ASSUME NumberInv, NEW e \in Events, stage[e] \in {"idle", "seeding"}, TakesNumber(e)
    PROVE  NumberInv'
  <1> USE EventsFinite, RequestIsEvent DEF NumberInv, TakesNumber, Unset
  <1>1. counter \in 0..MaximumNumber /\ counter' = counter + 1 /\ counter' \in 0..MaximumNumber
    BY DEF LogTyped
  <1>2. LogTyped'
    BY <1>1 DEF LogTyped, Stages
  <1>3. /\ stage' = [stage EXCEPT ![e] = "numbered"]
        /\ number' = [number EXCEPT ![e] = counter + 1]
        /\ stage'[e] = "numbered" /\ number'[e] = counter + 1
        /\ \A d \in Events \ {e} : stage'[d] = stage[d] /\ number'[d] = number[d]
    BY DEF LogTyped
  <1>4. OnlyRequestReads'
    BY <1>3 DEF OnlyRequestReads
  <1>5. \A d \in Events \ {e} : Held(d)' => number'[d] <= counter
    BY <1>3, <1>1 DEF BelowCounter, Held
  <1>6. BelowCounter'
    <2> SUFFICES ASSUME NEW d \in Events, Held(d)'
                 PROVE  number'[d] <= counter'
      BY DEF BelowCounter
    <2>1. CASE d = e
      BY <2>1, <1>1, <1>3
    <2>2. CASE d # e
      BY <2>2, <1>1, <1>5, <1>2 DEF LogTyped
    <2> QED
      BY <2>1, <2>2
  <1>7. NothingInFlight' /\ SeedCovers' /\ ReadCovers'
    BY <1>1 DEF NothingInFlight, SeedCovers, ReadCovers
  <1>8. NumbersAreUnique'
    <2> SUFFICES ASSUME NEW c \in Events, NEW d \in Events, c # d, Held(c)', Held(d)'
                 PROVE  number'[c] # number'[d]
      BY DEF NumbersAreUnique, Held
    <2>1. CASE c = e
      BY <2>1, <1>3, <1>5, <1>1, <1>2 DEF LogTyped
    <2>2. CASE d = e
      BY <2>2, <1>3, <1>5, <1>1, <1>2 DEF LogTyped
    <2>3. CASE c # e /\ d # e
      BY <2>3, <1>3 DEF NumbersAreUnique, Held
    <2> QED
      BY <2>1, <2>2, <2>3
  <1> QED
    BY <1>2, <1>4, <1>6, <1>7, <1>8

\* A change of stages that lets no event hold a number it did not hold, and
\* puts none on the log without a counter, keeps it as well.
LEMMA NumbersKept ==
    ASSUME NumberInv, stage' \in [Events -> Stages], UNCHANGED <<number, counter, seed>>,
           \A e \in Events : Held(e)' => Held(e),
           \A e \in Events : stage'[e] \in {"numbered", "read", "reserved", "committed"} =>
             \/ stage'[e] = stage[e]
             \/ counter # Unset /\ stage'[e] \in {"numbered", "committed"},
           \A e \in Events : stage'[e] \in Stored /\ stage[e] \notin Stored => counter # Unset
    PROVE  NumberInv'
  <1> USE RequestIsEvent DEF NumberInv
  <1>1. LogTyped'
    BY DEF LogTyped
  <1>2. OnlyRequestReads'
    BY DEF OnlyRequestReads
  <1>3. BelowCounter'
    BY DEF BelowCounter
  <1>4. NothingInFlight'
    BY DEF NothingInFlight
  <1>5. counter = Unset => \A e \in Rows' : e \in Rows
    BY DEF Rows
  <1>6. SeedCovers' /\ ReadCovers'
    BY <1>5 DEF SeedCovers, ReadCovers
  <1>7. NumbersAreUnique'
    BY DEF NumbersAreUnique, Held
  <1> QED
    BY <1>1, <1>2, <1>3, <1>4, <1>6, <1>7

LEMMA NumberInvInit == Init => NumberInv
  <1> SUFFICES ASSUME Init PROVE NumberInv
    OBVIOUS
  <1> USE EventsFinite DEF Init, Unset, Stored
  <1>1. LogTyped
    BY DEF LogTyped, Stages
  <1>2. OnlyRequestReads /\ BelowCounter /\ NothingInFlight /\ SeedCovers /\ ReadCovers
    BY RequestIsEvent DEF OnlyRequestReads, BelowCounter, NothingInFlight, SeedCovers, ReadCovers, Rows
  <1>3. NumbersAreUnique
    BY DEF NumbersAreUnique
  <1> QED
    BY <1>1, <1>2, <1>3 DEF NumberInv

LEMMA NumberInvStep == NumberInv /\ [Next]_vars => NumberInv'
  <1> SUFFICES ASSUME NumberInv, [Next]_vars PROVE NumberInv'
    OBVIOUS
  <1> USE EventsFinite, RequestIsEvent DEF Unset
  <1>0. LogTyped
    BY DEF NumberInv
  <1>1. ASSUME NEW e \in Events, BeginRecord(e) PROVE NumberInv'
    <2>1. CASE TakesNumber(e)
      BY <2>1, <1>1, NumberTaken DEF BeginRecord
    <2>2. CASE AwaitsSeed(e)
      <3>1. /\ counter = Unset /\ counter' = Unset /\ number' = number
            /\ stage[e] = "idle" /\ stage' = [stage EXCEPT ![e] = "seeding"]
            /\ seed' = IF seed = Unset THEN Highest(Rows) ELSE seed
        BY <1>1, <2>2 DEF BeginRecord, AwaitsSeed
      <3>2. /\ stage'[e] = "seeding"
            /\ \A d \in Events \ {e} : stage'[d] = stage[d]
        BY <3>1, <1>0 DEF LogTyped
      <3>3. Rows' = Rows
        BY <3>1, <3>2 DEF Rows, Stored
      <3>4. /\ Highest(Rows) \in 0..MaximumNumber
            /\ \A d \in Rows : number[d] <= Highest(Rows)
        BY <1>0, HighestIs DEF Rows
      <3>5. LogTyped'
        BY <3>1, <3>4, <1>0 DEF LogTyped, Stages
      <3>6. OnlyRequestReads' /\ BelowCounter' /\ NothingInFlight'
        BY <3>1, <3>2 DEF NumberInv, OnlyRequestReads, BelowCounter, NothingInFlight
      <3>7. SeedCovers'
        BY <3>1, <3>3, <3>4 DEF NumberInv, SeedCovers
      <3>8. ReadCovers'
        BY <3>1, <3>2, <3>3 DEF NumberInv, ReadCovers
      <3>9. NumbersAreUnique'
        BY <3>1, <3>2 DEF NumberInv, NumbersAreUnique, Stored
      <3> QED
        BY <3>5, <3>6, <3>7, <3>8, <3>9 DEF NumberInv
    <2> QED
      BY <1>1, <2>1, <2>2 DEF BeginRecord
  <1>2. ASSUME NEW e \in Events, ResumeRecord(e) PROVE NumberInv'
    BY <1>2, NumberTaken DEF ResumeRecord
  <1>3. ASSUME NEW e \in Events, Insert(e) PROVE NumberInv'
    <2>1. counter # Unset
      BY <1>3 DEF Insert, NumberInv, NothingInFlight
    <2>2. /\ stage'[e] = "committed" /\ stage[e] = "numbered"
          /\ \A d \in Events \ {e} : stage'[d] = stage[d]
          /\ stage' \in [Events -> Stages]
      BY <1>3, <1>0 DEF Insert, LogTyped, Stages, Stored
    <2> QED
      BY <1>3, <2>1, <2>2, NumbersKept DEF Insert, Held, Stored
  <1>4. ASSUME NEW e \in Events, Announce(e) PROVE NumberInv'
    <2>1. counter # Unset /\ stage[e] = "committed" /\ number[e] <= counter
      BY <1>4 DEF Announce, NumberInv, NothingInFlight, BelowCounter, Held, Stored
    <2>2. counter' = counter
      <3>1. counter \in Int /\ number[e] \in Int
        BY <1>0 DEF LogTyped
      <3>2. Max({counter, number[e]}) = counter
        BY <3>1, <2>1, MaxIs
      <3> QED
        BY <3>2, <1>4 DEF Announce
    <2>3. /\ stage'[e] = "announced" /\ UNCHANGED <<number, seed>>
          /\ \A d \in Events \ {e} : stage'[d] = stage[d]
          /\ stage' \in [Events -> Stages]
      BY <1>4, <1>0 DEF Announce, LogTyped, Stages, Stored
    <2> QED
      BY <2>1, <2>2, <2>3, NumbersKept DEF Held, Stored
  <1>5. CASE SeedArrives
    <2>1. /\ seed # Unset /\ seed' = Unset /\ UNCHANGED <<stage, number>>
          /\ counter' = IF counter = Unset THEN seed ELSE counter
      BY <1>5 DEF SeedArrives, Seeded
    <2>2. counter' # Unset
      BY <2>1
    <2>3. LogTyped'
      BY <2>1, <1>0 DEF LogTyped
    <2>4. OnlyRequestReads' /\ NothingInFlight' /\ SeedCovers' /\ ReadCovers' /\ NumbersAreUnique'
      BY <2>1, <2>2
         DEF NumberInv, OnlyRequestReads, NothingInFlight, SeedCovers, ReadCovers, NumbersAreUnique
    <2>5. BelowCounter'
      BY <2>1 DEF NumberInv, BelowCounter, NothingInFlight, SeedCovers, Held, Rows, Stored
    <2> QED
      BY <2>3, <2>4, <2>5 DEF NumberInv
  <1>6. CASE BeginReceive
    <2>1. /\ stage[Request] = "idle" /\ stage'[Request] = "read"
          /\ number'[Request] = Highest(Rows)
          /\ \A d \in Events \ {Request} : stage'[d] = stage[d] /\ number'[d] = number[d]
          /\ UNCHANGED <<counter, seed>>
      BY <1>6, <1>0 DEF BeginReceive, LogTyped
    <2>2. /\ Highest(Rows) \in 0..MaximumNumber
          /\ \A d \in Rows : number[d] <= Highest(Rows)
      BY <1>0, HighestIs DEF Rows
    <2>3. LogTyped'
      BY <1>6, <2>2, <1>0 DEF BeginReceive, LogTyped, Stages
    <2>4. Rows' = Rows /\ Request \notin Rows
      BY <2>1 DEF Rows, Stored
    <2>5. \A d \in Rows : number'[d] = number[d]
      BY <2>1, <2>4 DEF Rows
    <2>6. OnlyRequestReads' /\ NothingInFlight'
      BY <2>1 DEF NumberInv, OnlyRequestReads, NothingInFlight
    <2>7. BelowCounter'
      BY <2>1 DEF NumberInv, BelowCounter, Held, Stored
    <2>8. SeedCovers' /\ ReadCovers'
      BY <2>1, <2>2, <2>4, <2>5 DEF NumberInv, SeedCovers, ReadCovers
    <2>9. NumbersAreUnique'
      BY <2>1 DEF NumberInv, NumbersAreUnique, Stored
    <2> QED
      BY <2>3, <2>6, <2>7, <2>8, <2>9 DEF NumberInv
  <1>7. CASE ReserveSequence
    <2> DEFINE next == Reserved(number[Request])
    <2>1. /\ stage[Request] = "read" /\ stage'[Request] = "reserved"
          /\ counter' = next /\ number'[Request] = next /\ next <= MaximumNumber
          /\ \A d \in Events \ {Request} : stage'[d] = stage[d] /\ number'[d] = number[d]
          /\ UNCHANGED seed
      BY <1>7, <1>0 DEF ReserveSequence, LogTyped
    <2>2. counter \in Int /\ number[Request] \in Int /\ counter >= -1
      BY <1>0 DEF LogTyped
    <2>3. next \in Nat /\ next > counter /\ next > number[Request] /\ next > 0
      <3>1. /\ Max({counter, number[Request], 0}) \in {counter, number[Request], 0}
            /\ \A n \in {counter, number[Request], 0} : n <= Max({counter, number[Request], 0})
        <4>1. 0 \in Int
          OBVIOUS
        <4> QED
          BY <2>2, <4>1, MaxOfThree, Zenon
      <3>2. next = Max({counter, number[Request], 0}) + 1
        BY DEF Reserved
      <3> QED
        BY <2>2, <3>1, <3>2
    <2>4. counter' # Unset
      BY <2>1, <2>3
    <2>5. LogTyped'
      BY <1>7, <2>1, <2>3, <1>0 DEF ReserveSequence, LogTyped, Stages
    <2>6. \A d \in Events : Held(d) => number[d] < next
      <3> SUFFICES ASSUME NEW d \in Events, Held(d) PROVE number[d] < next
        OBVIOUS
      <3>1. CASE counter # Unset
        <4>1. number[d] <= counter
          BY <3>1 DEF NumberInv, BelowCounter
        <4> QED
          BY <4>1, <2>2, <2>3, <1>0 DEF LogTyped
      <3>2. CASE counter = Unset
        <4>1. d \in Rows
          BY <3>2 DEF NumberInv, NothingInFlight, Held, Rows
        <4>2. number[d] <= number[Request]
          BY <3>2, <4>1, <2>1 DEF NumberInv, ReadCovers
        <4> QED
          BY <4>2, <2>2, <2>3, <1>0 DEF LogTyped
      <3> QED
        BY <3>1, <3>2
    <2>7. \A d \in Events \ {Request} : Held(d)' => Held(d) /\ number'[d] = number[d]
      BY <2>1 DEF Held
    <2>8. OnlyRequestReads'
      BY <2>1 DEF NumberInv, OnlyRequestReads
    <2>9. NothingInFlight' /\ SeedCovers' /\ ReadCovers'
      BY <2>4 DEF NothingInFlight, SeedCovers, ReadCovers
    <2>10. BelowCounter'
      <3> SUFFICES ASSUME NEW d \in Events, Held(d)' PROVE number'[d] <= counter'
        BY DEF BelowCounter
      <3>1. CASE d = Request
        BY <3>1, <2>1, <2>3
      <3>2. CASE d # Request
        BY <3>2, <2>1, <2>3, <2>6, <2>7, <1>0 DEF LogTyped
      <3> QED
        BY <3>1, <3>2
    <2>11. NumbersAreUnique'
      <3> SUFFICES ASSUME NEW c \in Events, NEW d \in Events, c # d, Held(c)', Held(d)'
                   PROVE  number'[c] # number'[d]
        BY DEF NumbersAreUnique, Held
      <3>1. CASE c = Request
        BY <3>1, <2>1, <2>3, <2>6, <2>7, <1>0 DEF LogTyped
      <3>2. CASE d = Request
        BY <3>2, <2>1, <2>3, <2>6, <2>7, <1>0 DEF LogTyped
      <3>3. CASE c # Request /\ d # Request
        BY <3>3, <2>7 DEF NumberInv, NumbersAreUnique, Held
      <3> QED
        BY <3>1, <3>2, <3>3
    <2> QED
      BY <2>5, <2>8, <2>9, <2>10, <2>11 DEF NumberInv
  <1>8. CASE CommitReceive
    <2>1. counter # Unset
      BY <1>8 DEF CommitReceive, NumberInv, NothingInFlight
    <2>2. /\ stage'[Request] = "committed" /\ stage[Request] = "reserved"
          /\ \A d \in Events \ {Request} : stage'[d] = stage[d]
          /\ stage' \in [Events -> Stages]
      BY <1>8, <1>0 DEF CommitReceive, LogTyped, Stages, Stored
    <2> QED
      BY <1>8, <2>1, <2>2, NumbersKept DEF CommitReceive, Held, Stored
  <1>9. CASE RollBackReceive
    <2>1. /\ stage'[Request] = "lost"
          /\ \A d \in Events \ {Request} : stage'[d] = stage[d]
          /\ stage' \in [Events -> Stages]
      BY <1>9, <1>0 DEF RollBackReceive, LogTyped, Stages, Stored
    <2> QED
      BY <1>9, <2>1, NumbersKept DEF RollBackReceive, Held, Stored
  <1>10. CASE Restart
    <2>1. /\ counter' = Unset /\ seed' = Unset /\ number' = number
          /\ \A e \in Events : stage'[e] = Interrupted(e)
          /\ stage' = [e \in Events |-> Interrupted(e)]
      BY <1>10 DEF Restart
    <2>2. \A e \in Events : /\ Interrupted(e) \in {"lost", "silent", "idle", "announced"}
                            /\ Interrupted(e) \in Stored => stage[e] \in Stored
      <3> SUFFICES ASSUME NEW e \in Events
                   PROVE  /\ Interrupted(e) \in {"lost", "silent", "idle", "announced"}
                          /\ Interrupted(e) \in Stored => stage[e] \in Stored
        OBVIOUS
      <3>1. stage[e] \in Stages
        BY <1>0 DEF LogTyped
      <3> QED
        BY <3>1 DEF Interrupted, Stages, Stored
    <2>3. LogTyped'
      BY <2>1, <2>2, <1>0 DEF LogTyped, Stages, Stored
    <2>4. OnlyRequestReads' /\ BelowCounter' /\ NothingInFlight' /\ SeedCovers' /\ ReadCovers'
      BY <2>1, <2>2 DEF OnlyRequestReads, BelowCounter, NothingInFlight, SeedCovers, ReadCovers
    <2>5. NumbersAreUnique'
      BY <2>1, <2>2 DEF NumberInv, NumbersAreUnique
    <2> QED
      BY <2>3, <2>4, <2>5 DEF NumberInv
  <1>11. ASSUME UNCHANGED log PROVE NumberInv'
    BY <1>11 DEF log, NumberInv, LogTyped, OnlyRequestReads, BelowCounter, NothingInFlight,
                 SeedCovers, ReadCovers, NumbersAreUnique, Held, Rows
  <1>12. CASE Stream \/ DropStream \/ Overview \/ DialCall \/ EndCall \/ UNCHANGED vars
    BY <1>11, <1>12 DEF Stream, OpenStream, QueryPage, DeliverPage, DropStream, Overview, RequestOverview,
                 LoadSnapshot, ApplyOverview, DialCall, EndCall, vars, log
  <1> QED
    BY <1>1, <1>2, <1>3, <1>4, <1>5, <1>6, <1>7, <1>8, <1>9, <1>10, <1>12 DEF Next, Recording

\* No two events of a run have the same number (nextSequence, reserveSequence and
\* the announcements of ActivityService), for any number of events and restarts.
THEOREM NumbersAreUniqueHolds == Spec => []NumbersAreUnique
  <1>1. NumberInv => NumbersAreUnique
    BY DEF NumberInv
  <1> QED
    BY NumberInvInit, NumberInvStep, <1>1, PTL DEF Spec

-----------------------------------------------------------------------------
(* What the readers know *)

Phases == {"closed", "paging", "fetched", "live"}
CallStatuses == {"none", "live", "ended"}

ReadersTyped ==
    /\ call \in CallStatuses
    /\ conn \in [phase : Phases, after : 0..MaximumNumber, cursor : 0..MaximumNumber,
                 page : SUBSET Events, buffered : SUBSET Events, delivered : SUBSET Events]
    /\ browser \in [seen : SUBSET Events, lastId : 0..MaximumNumber,
                    opened : Unset..MaximumNumber, revision : Int, call : CallStatuses]
    /\ fetch \in [step : {"idle", "sampled", "loaded"}, revision : Int,
                  call : CallStatuses, recent : SUBSET Events]

\* What a reader has got is on the log.
KnownAreStored ==
    /\ conn.page \subseteq Rows /\ conn.buffered \subseteq Rows /\ conn.delivered \subseteq Rows
    /\ browser.seen \subseteq Rows /\ fetch.recent \subseteq Rows

ReaderInv == ReadersTyped /\ KnownAreStored

LEMMA RowsGrow ==
    ASSUME LogTyped, [Next]_vars
    PROVE  Rows \subseteq Rows' /\ \A e \in Rows : number'[e] = number[e]
  <1> USE RequestIsEvent DEF LogTyped
  <1> DEFINE Grown == Rows \subseteq Rows' /\ \A e \in Rows : number'[e] = number[e]
  <1>1. ASSUME NEW e \in Events, Recording(e) PROVE Grown
    BY <1>1 DEF Recording, BeginRecord, ResumeRecord, TakesNumber, AwaitsSeed, Insert, Announce, Rows, Stored
  <1>2. CASE BeginReceive \/ ReserveSequence \/ CommitReceive \/ RollBackReceive
    BY <1>2 DEF BeginReceive, ReserveSequence, CommitReceive, RollBackReceive, Rows, Stored
  <1>3. CASE Restart
    <2>1. number' = number /\ \A e \in Events : stage'[e] = Interrupted(e)
      BY <1>3 DEF Restart
    <2>2. \A e \in Events : stage[e] \in Stored => Interrupted(e) \in Stored
      BY DEF Interrupted, Stored
    <2> QED
      BY <2>1, <2>2 DEF Rows
  <1>4. CASE UNCHANGED <<stage, number>>
    BY <1>4 DEF Rows
  <1>5. CASE SeedArrives \/ Stream \/ DropStream \/ Overview \/ DialCall \/ EndCall \/ UNCHANGED vars
    BY <1>4, <1>5 DEF SeedArrives, Stream, OpenStream, QueryPage, DeliverPage, DropStream, Overview,
         RequestOverview, LoadSnapshot, ApplyOverview, DialCall, EndCall, vars, log
  <1> QED
    BY <1>1, <1>2, <1>3, <1>5 DEF Next

LEMMA RowsFinite ==
    /\ Rows \subseteq Events
    /\ IsFiniteSet(Rows)
    /\ Cardinality(Rows) \in Nat
  <1>1. Rows \subseteq Events
    BY DEF Rows
  <1> QED
    BY <1>1, EventsFinite, FS_Subset, FS_CardinalityType

\* What a message leaves at both ends of a stream.
LEMMA SendIs ==
    ASSUME LogTyped,
           NEW c \in [phase : Phases, after : 0..MaximumNumber, cursor : 0..MaximumNumber,
                      page : SUBSET Events, buffered : SUBSET Events, delivered : SUBSET Events],
           NEW S, S \subseteq Rows, c.delivered \subseteq Rows, c.page \subseteq Rows,
           c.buffered \subseteq Rows, browser.seen \subseteq Rows,
           browser \in [seen : SUBSET Events, lastId : 0..MaximumNumber,
                        opened : Unset..MaximumNumber, revision : Int, call : CallStatuses],
           Send(c, S)
    PROVE  /\ conn' \in [phase : Phases, after : 0..MaximumNumber, cursor : 0..MaximumNumber,
                         page : SUBSET Events, buffered : SUBSET Events, delivered : SUBSET Events]
           /\ conn'.phase = c.phase /\ conn'.after = c.after
           /\ conn'.page = c.page /\ conn'.buffered = c.buffered
           /\ conn'.delivered \subseteq Rows
           /\ \A e \in S \cup c.delivered : number[e] > c.after => e \in conn'.delivered
           /\ c.delivered \subseteq conn'.delivered
           /\ conn'.cursor = c.cursor \/ \E e \in S : conn'.cursor = number[e]
           /\ browser' \in [seen : SUBSET Events, lastId : 0..MaximumNumber,
                            opened : Unset..MaximumNumber, revision : Int, call : CallStatuses]
           /\ browser'.seen \subseteq Rows /\ browser.seen \subseteq browser'.seen
           /\ browser'.revision = browser.revision /\ browser'.call = browser.call
  <1> DEFINE sent == Emitted(c, S)
             T == {c.cursor} \cup {number[e] : e \in sent}
  <1>1. sent = {e \in S : e \notin c.delivered /\ number[e] > c.after} /\ sent \subseteq S
    BY DEF Emitted
  <1>2. S \subseteq Events
    BY RowsFinite
  <1>3. T \subseteq 0..MaximumNumber /\ T # {}
    BY <1>1, <1>2 DEF LogTyped
  <1>4. PICK n \in T : \A m \in T : m <= n
    BY <1>3, EventsFinite, GreatestOf, Zenon
  <1>5. T \subseteq Int
    BY <1>3, EventsFinite
  <1>6. Max(T) = n /\ n \in 0..MaximumNumber
    BY <1>3, <1>4, <1>5, MaxIs, Zenon
  <1>7. n = c.cursor \/ \E e \in S : n = number[e]
    BY <1>1, <1>4
  <1>8. Sending(c, S) = [c EXCEPT !.delivered = c.delivered \cup sent, !.cursor = n]
    BY <1>6, Zenon DEF Sending
  <1>9. conn' = [c EXCEPT !.delivered = c.delivered \cup sent, !.cursor = n]
    BY <1>8, Zenon DEF Send
  <1> HIDE DEF sent, T
  <1>10. sent \subseteq Rows /\ sent \subseteq Events
    BY <1>1, <1>2
  <1>11. /\ conn' \in [phase : Phases, after : 0..MaximumNumber, cursor : 0..MaximumNumber,
                       page : SUBSET Events, buffered : SUBSET Events, delivered : SUBSET Events]
         /\ conn'.phase = c.phase /\ conn'.after = c.after
         /\ conn'.page = c.page /\ conn'.buffered = c.buffered
         /\ conn'.delivered = c.delivered \cup sent /\ conn'.cursor = n
    BY <1>6, <1>9, <1>10
  <1>12. \A e \in S \cup c.delivered : number[e] > c.after => e \in conn'.delivered
    BY <1>1, <1>11
  <1>13. browser' = IF sent = {} THEN browser
                    ELSE [browser EXCEPT !.seen = browser.seen \cup sent, !.lastId = n]
    <2>1. Sending(c, S).cursor = n
      BY <1>8, <1>9, <1>11
    <2> QED
      BY <2>1, Zenon DEF Send, Receiving, sent
  <1>14. /\ browser' \in [seen : SUBSET Events, lastId : 0..MaximumNumber,
                          opened : Unset..MaximumNumber, revision : Int, call : CallStatuses]
         /\ browser'.seen \subseteq Rows /\ browser.seen \subseteq browser'.seen
         /\ browser'.revision = browser.revision /\ browser'.call = browser.call
    BY <1>6, <1>10, <1>13
  <1> QED
    BY <1>7, <1>10, <1>11, <1>12, <1>14

LEMMA HearIs ==
    ASSUME NEW e, Hear(e)
    PROVE  /\ conn.phase = "live" => Send(conn, {e})
           /\ conn.phase = "closed" => UNCHANGED <<conn, browser>>
           /\ conn.phase \notin {"live", "closed"} =>
                conn' = [conn EXCEPT !.buffered = @ \cup {e}] /\ UNCHANGED browser
  BY DEF Hear

LEMMA DeliverIs ==
    ASSUME DeliverPage, ReaderInv, LogTyped
    PROVE  \E c \in [phase : Phases, after : 0..MaximumNumber, cursor : 0..MaximumNumber,
                     page : SUBSET Events, buffered : SUBSET Events, delivered : SUBSET Events] :
             /\ c.page = {} /\ c.after = conn.after /\ c.cursor = conn.cursor
             /\ c.delivered = conn.delivered
             /\ \/ /\ Cardinality(conn.page) < PageLimit
                   /\ c.phase = "live" /\ c.buffered = {}
                   /\ Send(c, conn.page \cup conn.buffered)
                \/ /\ ~ (Cardinality(conn.page) < PageLimit)
                   /\ c.phase = "paging" /\ c.buffered = conn.buffered
                   /\ Send(c, conn.page)
  <1> DEFINE short == [[conn EXCEPT !.page = {}] EXCEPT !.phase = "live", !.buffered = {}]
             full == [[conn EXCEPT !.page = {}] EXCEPT !.phase = "paging"]
             C == [phase : Phases, after : 0..MaximumNumber, cursor : 0..MaximumNumber,
                   page : SUBSET Events, buffered : SUBSET Events, delivered : SUBSET Events]
  <1>1. conn \in C
    BY DEF ReaderInv, ReadersTyped
  <1>2. /\ short \in C /\ short.page = {} /\ short.after = conn.after
        /\ short.cursor = conn.cursor /\ short.delivered = conn.delivered
        /\ short.phase = "live" /\ short.buffered = {}
    BY <1>1 DEF Phases
  <1>3. /\ full \in C /\ full.page = {} /\ full.after = conn.after
        /\ full.cursor = conn.cursor /\ full.delivered = conn.delivered
        /\ full.phase = "paging" /\ full.buffered = conn.buffered
    BY <1>1 DEF Phases
  <1>4. IF Cardinality(conn.page) < PageLimit
        THEN Send(short, conn.page \cup conn.buffered) ELSE Send(full, conn.page)
    BY Zenon DEF DeliverPage
  <1> HIDE DEF short, full
  <1>5. CASE Cardinality(conn.page) < PageLimit
    <2>1. Send(short, conn.page \cup conn.buffered)
      BY <1>4, <1>5, Zenon
    <2> QED
      BY <1>2, <1>5, <2>1, Zenon
  <1>6. CASE ~ (Cardinality(conn.page) < PageLimit)
    <2>1. Send(full, conn.page)
      BY <1>4, <1>6, Zenon
    <2> QED
      BY <1>3, <1>6, <2>1, Zenon
  <1> QED
    BY <1>5, <1>6, Zenon

LEMMA LowestInside ==
    ASSUME NEW S, NEW limit
    PROVE  Lowest(S, limit) \subseteq S
  BY DEF Lowest

LEMMA ReaderInvInit == Init => ReaderInv
  <1> SUFFICES ASSUME Init PROVE ReaderInv
    OBVIOUS
  <1>1. ReadersTyped
    BY EventsFinite DEF Init, ReadersTyped, Closed, NoFetch, Unset, Phases, CallStatuses
  <1>2. KnownAreStored
    BY DEF Init, KnownAreStored, Closed, NoFetch
  <1> QED
    BY <1>1, <1>2 DEF ReaderInv

LEMMA ReaderInvStep == NumberInv /\ ReaderInv /\ [Next]_vars => ReaderInv'
  <1> SUFFICES ASSUME NumberInv, ReaderInv, [Next]_vars PROVE ReaderInv'
    OBVIOUS
  <1> USE EventsFinite DEF Unset
  <1>0. LogTyped /\ ReadersTyped /\ KnownAreStored
    BY DEF NumberInv, ReaderInv
  <1>1. Rows \subseteq Rows' /\ \A e \in Rows : number'[e] = number[e]
    BY <1>0, RowsGrow
  <1>2. Rows \subseteq Events /\ Cardinality(Rows) \in Nat
    BY RowsFinite
  <1>3. ASSUME UNCHANGED <<conn, browser, fetch>>, call' \in CallStatuses PROVE ReaderInv'
    <2>1. ReadersTyped'
      BY <1>0, <1>3 DEF ReadersTyped
    <2>2. KnownAreStored'
      BY <1>0, <1>1, <1>3 DEF KnownAreStored
    <2> QED
      BY <2>1, <2>2 DEF ReaderInv
  <1>4. ASSUME NEW e \in Events, BeginRecord(e) \/ ResumeRecord(e) \/ Insert(e) PROVE ReaderInv'
    BY <1>0, <1>3, <1>4 DEF BeginRecord, ResumeRecord, Insert, ReadersTyped
  <1>5. ASSUME NEW e \in Events, Announce(e) PROVE ReaderInv'
    <2>1. e \in Rows /\ Hear(e) /\ UNCHANGED <<call, fetch, number>>
      BY <1>5 DEF Announce, Rows, Stored
    <2>2. CASE conn.phase = "live"
      <3>1. Send(conn, {e})
        BY <2>1, <2>2, HearIs
      <3>2. /\ conn' \in [phase : Phases, after : 0..MaximumNumber, cursor : 0..MaximumNumber,
                          page : SUBSET Events, buffered : SUBSET Events, delivered : SUBSET Events]
            /\ conn'.page = conn.page /\ conn'.buffered = conn.buffered
            /\ conn'.delivered \subseteq Rows
            /\ browser' \in [seen : SUBSET Events, lastId : 0..MaximumNumber,
                             opened : -1..MaximumNumber, revision : Int, call : CallStatuses]
            /\ browser'.seen \subseteq Rows
        BY <3>1, <2>1, <1>0, SendIs DEF ReadersTyped, KnownAreStored
      <3>3. ReadersTyped'
        BY <3>2, <2>1, <1>0 DEF ReadersTyped
      <3>4. KnownAreStored'
        BY <3>2, <2>1, <1>0, <1>1 DEF KnownAreStored
      <3> QED
        BY <3>3, <3>4 DEF ReaderInv
    <2>3. CASE conn.phase = "closed"
      BY <2>1, <2>3, <1>3, <1>0, HearIs DEF ReadersTyped
    <2>4. CASE conn.phase \notin {"live", "closed"}
      <3>1. conn' = [conn EXCEPT !.buffered = @ \cup {e}] /\ UNCHANGED browser
        BY <2>1, <2>4, HearIs
      <3>2. ReadersTyped'
        BY <3>1, <2>1, <1>0, <1>2 DEF ReadersTyped
      <3>3. KnownAreStored'
        BY <3>1, <2>1, <1>0, <1>1 DEF KnownAreStored, ReadersTyped
      <3> QED
        BY <3>2, <3>3 DEF ReaderInv
    <2> QED
      BY <2>2, <2>3, <2>4
  <1>6. CASE SeedArrives \/ BeginReceive \/ ReserveSequence \/ CommitReceive \/ RollBackReceive
    BY <1>0, <1>3, <1>6 DEF SeedArrives, BeginReceive, ReserveSequence, CommitReceive, RollBackReceive,
         ReadersTyped
  <1>7. CASE OpenStream
    <2> DEFINE after == IF browser.lastId # 0 THEN browser.lastId ELSE browser.opened
    <2>1. after \in 0..MaximumNumber
      BY <1>7, <1>0 DEF OpenStream, ReadersTyped
    <2>2. conn' = [Closed EXCEPT !.phase = "paging", !.after = after, !.cursor = after]
      BY <1>7 DEF OpenStream
    <2>3. UNCHANGED <<call, browser, fetch>>
      BY <1>7 DEF OpenStream
    <2> HIDE DEF after
    <2>4. ReadersTyped'
      BY <2>1, <2>2, <2>3, <1>0 DEF ReadersTyped, Closed, Phases
    <2>5. KnownAreStored'
      BY <2>2, <2>3, <1>0, <1>1 DEF KnownAreStored, Closed
    <2> QED
      BY <2>4, <2>5 DEF ReaderInv
  <1>8. CASE QueryPage
    <2> DEFINE page == Lowest({e \in Rows : number[e] > conn.cursor}, PageLimit)
    <2>1. page \subseteq Rows
      BY LowestInside
    <2>2. conn' = [conn EXCEPT !.phase = "fetched", !.page = page] /\ UNCHANGED <<call, browser, fetch>>
      BY <1>8 DEF QueryPage
    <2> HIDE DEF page
    <2>3. ReadersTyped'
      BY <2>1, <2>2, <1>0, <1>2 DEF ReadersTyped, Phases
    <2>4. KnownAreStored'
      BY <2>1, <2>2, <1>0, <1>1 DEF KnownAreStored, ReadersTyped
    <2> QED
      BY <2>3, <2>4 DEF ReaderInv
  <1>9. CASE DeliverPage
    <2>1. PICK c \in [phase : Phases, after : 0..MaximumNumber, cursor : 0..MaximumNumber,
                      page : SUBSET Events, buffered : SUBSET Events, delivered : SUBSET Events] :
             /\ c.page = {} /\ c.delivered = conn.delivered
             /\ c.buffered = {} \/ c.buffered = conn.buffered
             /\ Send(c, conn.page \cup conn.buffered) \/ Send(c, conn.page)
      BY <1>0, <1>9, DeliverIs DEF ReaderInv
    <2>2. /\ conn.page \subseteq Rows /\ conn.buffered \subseteq Rows /\ c.delivered \subseteq Rows
          /\ c.page \subseteq Rows /\ c.buffered \subseteq Rows /\ browser.seen \subseteq Rows
      BY <2>1, <1>0 DEF KnownAreStored
    <2>3. PICK S \in SUBSET Rows : Send(c, S)
      BY <2>1, <2>2
    <2>4. /\ conn' \in [phase : Phases, after : 0..MaximumNumber, cursor : 0..MaximumNumber,
                        page : SUBSET Events, buffered : SUBSET Events, delivered : SUBSET Events]
          /\ conn'.page = c.page /\ conn'.buffered = c.buffered
          /\ conn'.delivered \subseteq Rows
          /\ browser' \in [seen : SUBSET Events, lastId : 0..MaximumNumber,
                           opened : -1..MaximumNumber, revision : Int, call : CallStatuses]
          /\ browser'.seen \subseteq Rows
      BY <2>2, <2>3, <1>0, SendIs DEF ReadersTyped
    <2>5. UNCHANGED <<call, fetch>>
      BY <1>9 DEF DeliverPage
    <2>6. ReadersTyped'
      BY <2>4, <2>5, <1>0 DEF ReadersTyped
    <2>7. KnownAreStored'
      BY <2>2, <2>4, <2>5, <1>0, <1>1 DEF KnownAreStored
    <2> QED
      BY <2>6, <2>7 DEF ReaderInv
  <1>10. CASE DropStream
    <2>1. conn' = Closed /\ UNCHANGED <<call, browser, fetch>>
      BY <1>10 DEF DropStream
    <2>2. ReadersTyped'
      BY <2>1, <1>0 DEF ReadersTyped, Closed, Phases
    <2>3. KnownAreStored'
      BY <2>1, <1>0, <1>1 DEF KnownAreStored, Closed
    <2> QED
      BY <2>2, <2>3 DEF ReaderInv
  <1>11. CASE RequestOverview
    <2>1. fetch' = [NoFetch EXCEPT !.step = "sampled", !.revision = Cardinality(Rows)]
          /\ UNCHANGED <<call, browser, conn>>
      BY <1>11 DEF RequestOverview
    <2>4. fetch' \in [step : {"idle", "sampled", "loaded"}, revision : Int,
                     call : CallStatuses, recent : SUBSET Events]
      <3>1. PICK r \in Int : r = Cardinality(Rows)
        BY <1>2
      <3>2. fetch' = [NoFetch EXCEPT !.step = "sampled", !.revision = r]
        BY <2>1, <3>1, Zenon
      <3> QED
        BY <3>2 DEF NoFetch, CallStatuses
    <2>2. ReadersTyped'
      BY <2>1, <2>4, <1>0, Zenon DEF ReadersTyped
    <2>3. KnownAreStored'
      BY <2>1, <1>0, <1>1 DEF KnownAreStored, NoFetch
    <2> QED
      BY <2>2, <2>3 DEF ReaderInv
  <1>12. CASE LoadSnapshot
    <2>1. Recent \subseteq Rows
      BY LowestInside DEF Recent
    <2>2. fetch' = [fetch EXCEPT !.step = "loaded", !.call = call, !.recent = Recent]
          /\ UNCHANGED <<call, browser, conn>>
      BY <1>12 DEF LoadSnapshot
    <2>3. ReadersTyped'
      BY <2>1, <2>2, <1>0, <1>2 DEF ReadersTyped
    <2>4. KnownAreStored'
      BY <2>1, <2>2, <1>0, <1>1 DEF KnownAreStored, ReadersTyped
    <2> QED
      BY <2>3, <2>4 DEF ReaderInv
  <1>13. CASE ApplyOverview
    <2>1. Highest(fetch.recent) \in 0..MaximumNumber
      BY <1>0, HighestIs DEF ReadersTyped
    <2>2. PICK opened \in -1..MaximumNumber :
            browser' = [browser EXCEPT !.revision = fetch.revision, !.call = fetch.call,
                                       !.seen = @ \cup fetch.recent, !.opened = opened]
      <3>1. (IF browser.opened = Unset THEN Highest(fetch.recent) ELSE browser.opened) \in -1..MaximumNumber
        BY <2>1, <1>0 DEF ReadersTyped
      <3> QED
        BY <3>1, <1>13, Zenon DEF ApplyOverview
    <2>3. fetch' = NoFetch /\ UNCHANGED <<call, conn>>
      BY <1>13 DEF ApplyOverview
    <2>6. fetch' \in [step : {"idle", "sampled", "loaded"}, revision : Int,
                     call : CallStatuses, recent : SUBSET Events]
      BY <2>3 DEF NoFetch, CallStatuses
    <2>7. browser' \in [seen : SUBSET Events, lastId : 0..MaximumNumber,
                       opened : -1..MaximumNumber, revision : Int, call : CallStatuses]
      BY <2>2, <1>0 DEF ReadersTyped
    <2>4. ReadersTyped'
      BY <2>3, <2>6, <2>7, <1>0, Zenon DEF ReadersTyped
    <2>5. KnownAreStored'
      BY <2>2, <2>3, <1>0, <1>1 DEF KnownAreStored, NoFetch, ReadersTyped
    <2> QED
      BY <2>4, <2>5 DEF ReaderInv
  <1>14. CASE Restart
    <2>1. conn' = Closed /\ fetch' = NoFetch /\ UNCHANGED <<call, browser>>
      BY <1>14 DEF Restart
    <2>2. ReadersTyped'
      BY <2>1, <1>0 DEF ReadersTyped, Closed, NoFetch, Phases, CallStatuses
    <2>3. KnownAreStored'
      BY <2>1, <1>0, <1>1 DEF KnownAreStored, Closed, NoFetch
    <2> QED
      BY <2>2, <2>3 DEF ReaderInv
  <1>15. CASE DialCall \/ EndCall \/ UNCHANGED vars
    BY <1>3, <1>15, <1>0 DEF DialCall, EndCall, vars, ReadersTyped, CallStatuses
  <1> QED
    BY <1>4, <1>5, <1>6, <1>7, <1>8, <1>9, <1>10, <1>11, <1>12, <1>13, <1>14, <1>15
       DEF Next, Recording, Stream, Overview

-----------------------------------------------------------------------------
(* Complete streams *)

\* What Lowest leaves out is above all that it returns, and it returns enough.
LEMMA LowestIs ==
    ASSUME LogTyped, NEW S, S \subseteq Events, NEW limit \in Nat,
           NEW e \in S, e \notin Lowest(S, limit)
    PROVE  /\ \A d \in Lowest(S, limit) : number[d] < number[e]
           /\ Cardinality(Lowest(S, limit)) >= limit
  <1> DEFINE Below(d) == {c \in S : number[c] < number[d]}
             page == Lowest(S, limit)
  <1>1. page = {d \in S : Cardinality(Below(d)) < limit}
    BY DEF Lowest
  <1>2. \A d \in S : number[d] \in Nat
    BY EventsFinite DEF LogTyped
  <1>3. IsFiniteSet(S)
    BY EventsFinite, FS_Subset
  <1>4. \A d \in S : IsFiniteSet(Below(d)) /\ Cardinality(Below(d)) \in Nat
    <2>1. \A d \in S : Below(d) \in SUBSET S
      OBVIOUS
    <2> QED
      BY <2>1, <1>3, FS_Subset, FS_CardinalityType
  <1>5. IsFiniteSet(page) /\ Cardinality(page) \in Nat
    BY <1>1, <1>3, FS_Subset, FS_CardinalityType
  <1>6. ASSUME NEW d \in page PROVE number[d] < number[e]
    <2>1. d \in S /\ Cardinality(Below(d)) < limit
      BY <1>1, <1>6
    <2>2. ~ (Cardinality(Below(e)) < limit)
      BY <1>1
    <2>3. SUFFICES ASSUME number[e] <= number[d] PROVE FALSE
      BY <1>2, <2>1
    <2>4. Below(e) \in SUBSET Below(d)
      BY <1>2, <2>1, <2>3
    <2>5. Cardinality(Below(e)) <= Cardinality(Below(d))
      BY <2>1, <2>4, <1>4, FS_Subset
    <2> QED
      BY <2>1, <2>2, <2>5, <1>4
  <1>7. Cardinality(page) >= limit
    <2> DEFINE T == {number[d] : d \in S \ page}
    <2>1. T \subseteq Nat /\ T # {}
      BY <1>2
    <2>2. PICK n \in T : \A m \in T : n <= m
      BY <2>1, LeastOf, Zenon
    <2>3. PICK d \in S \ page : n = number[d]
      OBVIOUS
    <2>4. \A c \in S \ page : number[d] <= number[c]
      BY <2>2, <2>3
    <2>5. Below(d) \in SUBSET page
      BY <2>4, <1>2
    <2>6. Cardinality(Below(d)) <= Cardinality(page)
      BY <2>5, <1>5, FS_Subset
    <2>7. ~ (Cardinality(Below(d)) < limit)
      BY <1>1, <2>3
    <2> QED
      BY <2>3, <2>6, <2>7, <1>4, <1>5
  <1> QED
    BY <1>6, <1>7

\* Events beyond a full page.
BeyondPage(e) ==
    /\ Cardinality(conn.page) >= PageLimit
    /\ number[e] > conn.cursor
    /\ \A d \in conn.page : number[d] < number[e]

\* Where an announced event is, or that it is still to be queried.
Reached(e) ==
    /\ conn.phase = "live" => e \in conn.delivered
    /\ conn.phase = "paging" =>
         e \in conn.delivered \cup conn.buffered \/ number[e] > conn.cursor
    /\ conn.phase = "fetched" =>
         e \in conn.delivered \cup conn.buffered \cup conn.page \/ BeyondPage(e)

StreamReaches ==
    \A e \in Events : stage[e] = "announced" /\ number[e] > conn.after => Reached(e)

LEMMA StreamReachesStep == NumberInv /\ ReaderInv /\ StreamReaches /\ [Next]_vars => StreamReaches'
  <1> SUFFICES ASSUME NumberInv, ReaderInv, StreamReaches, [Next]_vars PROVE StreamReaches'
    OBVIOUS
  <1> USE EventsFinite DEF Unset
  <1>0. LogTyped /\ ReadersTyped /\ KnownAreStored
    BY DEF NumberInv, ReaderInv
  <1>1. Rows \subseteq Rows' /\ \A e \in Rows : number'[e] = number[e]
    BY <1>0, RowsGrow
  <1>2. \A e \in Events : stage[e] = "announced" => e \in Rows
    BY DEF Rows, Stored
  <1>3. \A e \in Events : number[e] \in Nat
    BY <1>0 DEF LogTyped
  <1>4. ASSUME UNCHANGED conn,
               \A e \in Events : stage'[e] = "announced" => stage[e] = "announced"
        PROVE  StreamReaches'
    <2> SUFFICES ASSUME NEW e \in Events, stage'[e] = "announced", number'[e] > conn.after
                 PROVE  Reached(e)'
      BY <1>4 DEF StreamReaches
    <2>1. stage[e] = "announced" /\ number'[e] = number[e]
      BY <1>4, <1>1, <1>2
    <2>2. Reached(e)
      BY <2>1 DEF StreamReaches
    <2>3. \A d \in conn.page : number'[d] = number[d]
      BY <1>0, <1>1 DEF KnownAreStored
    <2> QED
      BY <1>4, <2>1, <2>2, <2>3 DEF Reached, BeyondPage
  <1>5. ASSUME NEW e \in Events, BeginRecord(e) \/ ResumeRecord(e) \/ Insert(e) PROVE StreamReaches'
    BY <1>0, <1>4, <1>5
       DEF BeginRecord, ResumeRecord, Insert, TakesNumber, AwaitsSeed, LogTyped
  <1>6. ASSUME NEW e \in Events, Announce(e) PROVE StreamReaches'
    <2>1. /\ e \in Rows /\ Hear(e) /\ UNCHANGED number
          /\ \A d \in Events \ {e} : stage'[d] = stage[d]
      BY <1>6, <1>0 DEF Announce, Rows, Stored, LogTyped
    <2>2. CASE conn.phase = "live"
      <3>1. Send(conn, {e})
        BY <2>1, <2>2, HearIs
      <3>2. /\ conn'.phase = "live" /\ conn'.after = conn.after
            /\ \A d \in {e} \cup conn.delivered : number[d] > conn.after => d \in conn'.delivered
        BY <3>1, <2>1, <2>2, <1>0, SendIs DEF ReadersTyped, KnownAreStored
      <3>3. ASSUME NEW d \in Events, stage'[d] = "announced", number'[d] > conn'.after
            PROVE  Reached(d)'
        <4>1. d = e \/ d \in conn.delivered
          BY <2>1, <2>2, <3>2, <3>3 DEF StreamReaches, Reached
        <4> QED
          BY <2>1, <3>2, <3>3, <4>1 DEF Reached
      <3> QED
        BY <3>3 DEF StreamReaches
    <2>3. CASE conn.phase = "closed"
      BY <2>1, <2>3, HearIs DEF StreamReaches, Reached
    <2>4. CASE conn.phase \notin {"live", "closed"}
      <3>1. conn' = [conn EXCEPT !.buffered = @ \cup {e}]
        BY <2>1, <2>4, HearIs
      <3>2. /\ conn'.phase = conn.phase /\ conn'.after = conn.after /\ conn'.cursor = conn.cursor
            /\ conn'.page = conn.page /\ conn'.delivered = conn.delivered
            /\ conn'.buffered = conn.buffered \cup {e}
        BY <3>1, <1>0 DEF ReadersTyped
      <3>3. ASSUME NEW d \in Events, stage'[d] = "announced", number'[d] > conn'.after
            PROVE  Reached(d)'
        <4>1. CASE d = e
          BY <4>1, <2>4, <3>2 DEF Reached
        <4>2. CASE d # e
          <5>1. Reached(d)
            BY <4>2, <2>1, <3>2, <3>3 DEF StreamReaches
          <5> QED
            BY <5>1, <2>1, <3>2 DEF Reached, BeyondPage
        <4> QED
          BY <4>1, <4>2
      <3> QED
        BY <3>3 DEF StreamReaches
    <2> QED
      BY <2>2, <2>3, <2>4
  <1>7. CASE SeedArrives \/ BeginReceive \/ ReserveSequence \/ CommitReceive \/ RollBackReceive
    BY <1>0, <1>4, <1>7 DEF SeedArrives, BeginReceive, ReserveSequence, CommitReceive, RollBackReceive,
         LogTyped
  <1>8. CASE OpenStream
    <2> DEFINE after == IF browser.lastId # 0 THEN browser.lastId ELSE browser.opened
    <2>1. conn' = [Closed EXCEPT !.phase = "paging", !.after = after, !.cursor = after]
          /\ UNCHANGED <<stage, number>>
      BY <1>8 DEF OpenStream, log
    <2> HIDE DEF after
    <2>2. conn'.phase = "paging" /\ conn'.after = after /\ conn'.cursor = after
      BY <2>1 DEF Closed
    <2> QED
      BY <2>1, <2>2 DEF StreamReaches, Reached
  <1>9. CASE QueryPage
    <2> DEFINE S == {e \in Rows : number[e] > conn.cursor}
               page == Lowest(S, PageLimit)
    <2>1. conn.phase = "paging" /\ UNCHANGED <<stage, number>>
          /\ conn' = [conn EXCEPT !.phase = "fetched", !.page = page]
      BY <1>9 DEF QueryPage, log
    <2>2. /\ conn'.phase = "fetched" /\ conn'.after = conn.after /\ conn'.cursor = conn.cursor
          /\ conn'.buffered = conn.buffered /\ conn'.delivered = conn.delivered
          /\ conn'.page = page
      BY <2>1, <1>0 DEF ReadersTyped
    <2>3. ASSUME NEW e \in Events, stage'[e] = "announced", number'[e] > conn'.after
          PROVE  Reached(e)'
      <3>1. e \in conn.delivered \cup conn.buffered \/ number[e] > conn.cursor
        BY <2>1, <2>2, <2>3 DEF StreamReaches, Reached
      <3>2. CASE e \in conn.delivered \cup conn.buffered
        BY <2>2, <3>2 DEF Reached
      <3>3. CASE number[e] > conn.cursor /\ e \in page
        BY <2>2, <3>3 DEF Reached
      <3>4. CASE number[e] > conn.cursor /\ e \notin page
        <4>1. S \subseteq Events /\ e \in S /\ PageLimit \in Nat
          BY <3>4, <2>1, <2>3, <1>2, RowsFinite, FeedAssumption
        <4>2. /\ \A d \in page : number[d] < number[e]
              /\ Cardinality(page) >= PageLimit
          <5> HIDE DEF S
          <5> QED
            BY <4>1, <3>4, <1>0, LowestIs, Zenon
        <4> HIDE DEF page
        <4> QED
          BY <2>1, <2>2, <3>4, <4>2 DEF Reached, BeyondPage
      <3> QED
        BY <3>1, <3>2, <3>3, <3>4
    <2> QED
      BY <2>3 DEF StreamReaches
  <1>10. CASE DeliverPage
    <2>1. PICK c \in [phase : Phases, after : 0..MaximumNumber, cursor : 0..MaximumNumber,
                      page : SUBSET Events, buffered : SUBSET Events, delivered : SUBSET Events] :
             /\ c.page = {} /\ c.after = conn.after /\ c.cursor = conn.cursor
             /\ c.delivered = conn.delivered
             /\ \/ /\ Cardinality(conn.page) < PageLimit
                   /\ c.phase = "live" /\ c.buffered = {}
                   /\ Send(c, conn.page \cup conn.buffered)
                \/ /\ ~ (Cardinality(conn.page) < PageLimit)
                   /\ c.phase = "paging" /\ c.buffered = conn.buffered
                   /\ Send(c, conn.page)
      BY <1>0, <1>10, DeliverIs DEF ReaderInv
    <2>2. conn.phase = "fetched" /\ UNCHANGED <<stage, number>>
      BY <1>10 DEF DeliverPage, log
    <2>3. /\ conn.page \subseteq Rows /\ conn.buffered \subseteq Rows /\ c.delivered \subseteq Rows
          /\ c.page \subseteq Rows /\ c.buffered \subseteq Rows /\ browser.seen \subseteq Rows
      BY <2>1, <1>0 DEF KnownAreStored
    <2>4. IsFiniteSet(conn.page) /\ Cardinality(conn.page) \in Nat /\ PageLimit \in Nat
      BY <2>3, RowsFinite, FS_Subset, FS_CardinalityType, FeedAssumption
    <2>5. ASSUME NEW e \in Events, stage'[e] = "announced", number'[e] > conn'.after
          PROVE  Reached(e)'
      <3>1. CASE Cardinality(conn.page) < PageLimit
        <4> DEFINE S == conn.page \cup conn.buffered
        <4>1. c.phase = "live" /\ Send(c, S) /\ S \subseteq Rows
          BY <3>1, <2>1, <2>3
        <4>2. /\ conn'.phase = "live" /\ conn'.after = conn.after
              /\ \A d \in S \cup c.delivered : number[d] > conn.after => d \in conn'.delivered
          <5> HIDE DEF S
          <5> QED
            BY <4>1, <2>1, <2>3, <1>0, SendIs DEF ReadersTyped
        <4>3. e \in conn.delivered \cup conn.buffered \cup conn.page
          BY <2>2, <2>4, <2>5, <3>1, <4>2 DEF StreamReaches, Reached, BeyondPage
        <4> QED
          BY <2>1, <2>2, <2>5, <4>2, <4>3 DEF Reached
      <3>2. CASE ~ (Cardinality(conn.page) < PageLimit)
        <4>1. c.phase = "paging" /\ c.buffered = conn.buffered /\ Send(c, conn.page)
          BY <3>2, <2>1
        <4>2. /\ conn'.phase = "paging" /\ conn'.after = conn.after
              /\ conn'.buffered = conn.buffered /\ conn.delivered \subseteq conn'.delivered
              /\ \A d \in conn.page : number[d] > conn.after => d \in conn'.delivered
              /\ conn'.cursor = conn.cursor \/ \E d \in conn.page : conn'.cursor = number[d]
          BY <4>1, <2>1, <2>3, <1>0, SendIs DEF ReadersTyped
        <4>3. e \in conn.delivered \cup conn.buffered \cup conn.page \/ BeyondPage(e)
          BY <2>2, <2>5, <4>2 DEF StreamReaches, Reached
        <4> QED
          BY <2>2, <2>5, <4>2, <4>3 DEF Reached, BeyondPage
      <3> QED
        BY <3>1, <3>2
    <2> QED
      BY <2>5 DEF StreamReaches
  <1>11. CASE DropStream
    <2>1. conn'.phase = "closed"
      BY <1>11 DEF DropStream, Closed
    <2> QED
      BY <2>1 DEF StreamReaches, Reached
  <1>12. CASE Restart
    <2>1. conn'.phase = "closed"
      BY <1>12 DEF Restart, Closed
    <2> QED
      BY <2>1 DEF StreamReaches, Reached
  <1>13. CASE Overview \/ DialCall \/ EndCall \/ UNCHANGED vars
    BY <1>4, <1>13 DEF Overview, RequestOverview, LoadSnapshot, ApplyOverview, DialCall, EndCall, vars, log
  <1> QED
    BY <1>5, <1>6, <1>7, <1>8, <1>9, <1>10, <1>11, <1>12, <1>13 DEF Next, Recording, Stream

\* A live stream has sent every announced event past the point it was resumed
\* from (listen, pages, buffer of activity-stream.controller.ts).
THEOREM StreamIsCompleteHolds == Spec => []StreamIsComplete
  <1>1. Init => StreamReaches
    BY DEF Init, StreamReaches, Reached, Closed
  <1>2. StreamReaches => StreamIsComplete
    BY DEF StreamReaches, StreamIsComplete, Reached
  <1> QED
    BY NumberInvInit, NumberInvStep, ReaderInvInit, ReaderInvStep, StreamReachesStep, <1>1, <1>2,
       PTL DEF Spec

-----------------------------------------------------------------------------
(* Overviews that are not older than their revision *)

\* The end of the call is recorded after its row has changed.
EndsFirst == stage[Completed] \notin {"idle", "lost"} => call = "ended"

\* A revision was counted before what it stands for was read; while the log has
\* not grown past it, the two agree.
FetchIsCurrent ==
    /\ fetch.step # "idle" => fetch.revision <= Cardinality(Rows)
    /\ fetch.step = "loaded" /\ fetch.revision = Cardinality(Rows) =>
         /\ fetch.recent = Recent
         /\ Completed \in Rows => fetch.call = "ended"

BrowserIsCurrent == browser.revision <= Cardinality(Rows) /\ UnchangedIsCurrent

OverviewInv == EndsFirst /\ FetchIsCurrent /\ BrowserIsCurrent

LEMMA RowsCounted ==
    ASSUME LogTyped, [Next]_vars
    PROVE  /\ Cardinality(Rows) \in Nat /\ Cardinality(Rows') \in Nat
           /\ Cardinality(Rows) <= Cardinality(Rows')
           /\ Cardinality(Rows) = Cardinality(Rows') => Rows' = Rows /\ Recent' = Recent
  <1>1. Rows \subseteq Rows' /\ \A e \in Rows : number'[e] = number[e]
    BY RowsGrow
  <1>2. IsFiniteSet(Rows') /\ Cardinality(Rows') \in Nat
    <2>1. Rows' \in SUBSET Events
      BY DEF Rows
    <2> QED
      BY <2>1, EventsFinite, FS_Subset, FS_CardinalityType
  <1>3. /\ Cardinality(Rows) \in Nat
        /\ Cardinality(Rows) <= Cardinality(Rows')
        /\ Cardinality(Rows) = Cardinality(Rows') => Rows' = Rows
    BY <1>1, <1>2, FS_Subset, RowsFinite
  <1>4. ASSUME Rows' = Rows PROVE Recent' = Recent
    <2>1. ASSUME NEW e \in Rows
          PROVE  {d \in Rows : number'[d] < number'[e]} = {d \in Rows : number[d] < number[e]}
      BY <1>1, <2>1
    <2>2. Recent' = {e \in Rows : Cardinality({d \in Rows : number'[d] < number'[e]}) < RecentLimit}
      BY <1>4 DEF Recent, Lowest
    <2>3. Recent = {e \in Rows : Cardinality({d \in Rows : number[d] < number[e]}) < RecentLimit}
      BY DEF Recent, Lowest
    <2> QED
      BY <2>1, <2>2, <2>3, Zenon
  <1> QED
    BY <1>2, <1>3, <1>4

LEMMA EndsFirstStep == NumberInv /\ ReaderInv /\ EndsFirst /\ [Next]_vars => EndsFirst'
  <1> SUFFICES ASSUME NumberInv, ReaderInv, EndsFirst, [Next]_vars PROVE EndsFirst'
    OBVIOUS
  <1> USE RequestIsEvent, CallsEventsDiffer
  <1>0. LogTyped
    BY DEF NumberInv
  <1>1. ASSUME NEW e \in Events, BeginRecord(e) PROVE EndsFirst'
    <2>1. e = Completed => call = "ended"
      BY <1>1 DEF BeginRecord, Caused
    <2>2. call' = call /\ \A d \in Events \ {e} : stage'[d] = stage[d]
      BY <1>1, <1>0 DEF BeginRecord, TakesNumber, AwaitsSeed, LogTyped
    <2> QED
      BY <2>1, <2>2 DEF EndsFirst
  <1>2. ASSUME NEW e \in Events, ResumeRecord(e) \/ Insert(e) \/ Announce(e) PROVE EndsFirst'
    BY <1>0, <1>2 DEF EndsFirst, ResumeRecord, TakesNumber, Insert, Announce, LogTyped
  <1>3. CASE BeginReceive \/ ReserveSequence \/ CommitReceive \/ RollBackReceive
    BY <1>0, <1>3
       DEF EndsFirst, BeginReceive, ReserveSequence, CommitReceive, RollBackReceive, LogTyped
  <1>4. CASE Restart
    <2>1. call' = call /\ stage'[Completed] = Interrupted(Completed)
      BY <1>4 DEF Restart
    <2>2. stage[Completed] \in {"idle", "lost"} => Interrupted(Completed) \in {"idle", "lost"}
      BY DEF Interrupted
    <2> QED
      BY <2>1, <2>2 DEF EndsFirst
  <1>5. CASE DialCall \/ EndCall
    BY <1>5 DEF EndsFirst, DialCall, EndCall, log
  <1>6. CASE SeedArrives \/ Stream \/ DropStream \/ Overview \/ UNCHANGED vars
    BY <1>6 DEF EndsFirst, SeedArrives, Stream, OpenStream, QueryPage, DeliverPage, DropStream, Overview,
         RequestOverview, LoadSnapshot, ApplyOverview, vars, log
  <1> QED
    BY <1>1, <1>2, <1>3, <1>4, <1>5, <1>6 DEF Next, Recording

\* Steps that leave the request and the browser's overview alone.
LEMMA OverviewKept ==
    ASSUME LogTyped, ReadersTyped, [Next]_vars, FetchIsCurrent, BrowserIsCurrent,
           fetch' = fetch \/ fetch'.step = "idle",
           browser'.revision = browser.revision, browser'.call = browser.call,
           browser.seen \subseteq browser'.seen
    PROVE  FetchIsCurrent' /\ BrowserIsCurrent'
  <1>1. /\ Cardinality(Rows) \in Nat /\ Cardinality(Rows') \in Nat
        /\ Cardinality(Rows) <= Cardinality(Rows')
        /\ Cardinality(Rows) = Cardinality(Rows') => Rows' = Rows /\ Recent' = Recent
    BY RowsCounted
  <1>2. fetch.revision \in Int /\ browser.revision \in Int
    BY DEF ReadersTyped
  <1>3. FetchIsCurrent'
    <2>1. CASE fetch'.step = "idle"
      BY <2>1 DEF FetchIsCurrent
    <2>2. CASE fetch' = fetch
      BY <1>1, <1>2, <2>2 DEF FetchIsCurrent
    <2> QED
      BY <2>1, <2>2
  <1>4. BrowserIsCurrent'
    BY <1>1, <1>2 DEF BrowserIsCurrent, UnchangedIsCurrent
  <1> QED
    BY <1>3, <1>4

LEMMA OverviewInvStep == NumberInv /\ ReaderInv /\ OverviewInv /\ [Next]_vars => OverviewInv'
  <1> SUFFICES ASSUME NumberInv, ReaderInv, OverviewInv, [Next]_vars PROVE OverviewInv'
    OBVIOUS
  <1>0. LogTyped /\ ReadersTyped /\ KnownAreStored
    BY DEF NumberInv, ReaderInv
  <1>e. EndsFirst /\ EndsFirst' /\ FetchIsCurrent /\ BrowserIsCurrent
    BY EndsFirstStep DEF OverviewInv
  <1>1. ASSUME NEW e \in Events, Announce(e) PROVE OverviewInv'
    <2>1. e \in Rows /\ Hear(e) /\ fetch' = fetch
      BY <1>1 DEF Announce, Rows, Stored
    <2>2. /\ browser'.revision = browser.revision /\ browser'.call = browser.call
          /\ browser.seen \subseteq browser'.seen
      <3>1. CASE conn.phase = "live"
        <4>1. Send(conn, {e})
          BY <2>1, <3>1, HearIs
        <4> QED
          BY <4>1, <2>1, <1>0, SendIs DEF ReadersTyped, KnownAreStored
      <3>2. CASE conn.phase # "live"
        BY <2>1, <3>2, HearIs
      <3> QED
        BY <3>1, <3>2
    <2> QED
      BY <2>1, <2>2, <1>0, <1>e, OverviewKept DEF OverviewInv
  <1>2. CASE DeliverPage
    <2>1. PICK c \in [phase : Phases, after : 0..MaximumNumber, cursor : 0..MaximumNumber,
                      page : SUBSET Events, buffered : SUBSET Events, delivered : SUBSET Events] :
             /\ c.page = {} /\ c.delivered = conn.delivered
             /\ c.buffered = {} \/ c.buffered = conn.buffered
             /\ Send(c, conn.page \cup conn.buffered) \/ Send(c, conn.page)
      BY <1>0, <1>2, DeliverIs DEF ReaderInv
    <2>2. /\ conn.page \subseteq Rows /\ conn.buffered \subseteq Rows /\ c.delivered \subseteq Rows
          /\ c.page \subseteq Rows /\ c.buffered \subseteq Rows /\ browser.seen \subseteq Rows
      BY <2>1, <1>0 DEF KnownAreStored
    <2>3. PICK S \in SUBSET Rows : Send(c, S)
      BY <2>1, <2>2
    <2>4. /\ browser'.revision = browser.revision /\ browser'.call = browser.call
          /\ browser.seen \subseteq browser'.seen
      BY <2>2, <2>3, <1>0, SendIs DEF ReadersTyped
    <2>5. fetch' = fetch
      BY <1>2 DEF DeliverPage
    <2> QED
      BY <2>4, <2>5, <1>0, <1>e, OverviewKept DEF OverviewInv
  <1>3. ASSUME UNCHANGED <<browser, fetch>> PROVE OverviewInv'
    BY <1>3, <1>0, <1>e, OverviewKept DEF OverviewInv
  <1>4. ASSUME NEW e \in Events, BeginRecord(e) \/ ResumeRecord(e) \/ Insert(e) PROVE OverviewInv'
    BY <1>3, <1>4 DEF BeginRecord, ResumeRecord, Insert
  <1>5. CASE SeedArrives \/ BeginReceive \/ ReserveSequence \/ CommitReceive \/ RollBackReceive
               \/ OpenStream \/ QueryPage \/ DropStream \/ DialCall \/ EndCall \/ UNCHANGED vars
    BY <1>3, <1>5 DEF SeedArrives, BeginReceive, ReserveSequence, CommitReceive, RollBackReceive,
         OpenStream, QueryPage, DropStream, DialCall, EndCall, vars
  <1>6. CASE Restart
    <2>1. fetch'.step = "idle" /\ browser' = browser
      BY <1>6 DEF Restart, NoFetch
    <2> QED
      BY <2>1, <1>0, <1>e, OverviewKept DEF OverviewInv
  <1>7. CASE RequestOverview
    <2>1. /\ fetch' = [NoFetch EXCEPT !.step = "sampled", !.revision = Cardinality(Rows)]
          /\ UNCHANGED <<log, browser>>
      BY <1>7 DEF RequestOverview
    <2>2. fetch'.step = "sampled" /\ fetch'.revision = Cardinality(Rows)
      BY <2>1 DEF NoFetch
    <2>3. Rows' = Rows /\ Recent' = Recent /\ Cardinality(Rows) \in Nat
      BY <2>1, RowsFinite DEF Rows, log, Recent, Lowest
    <2>4. FetchIsCurrent'
      BY <2>2, <2>3 DEF FetchIsCurrent
    <2>5. BrowserIsCurrent'
      BY <2>1, <2>3, <1>e DEF BrowserIsCurrent, UnchangedIsCurrent
    <2> QED
      BY <2>4, <2>5, <1>e DEF OverviewInv
  <1>8. CASE LoadSnapshot
    <2>1. /\ fetch.step = "sampled"
          /\ fetch' = [fetch EXCEPT !.step = "loaded", !.call = call, !.recent = Recent]
          /\ UNCHANGED <<log, browser>>
      BY <1>8 DEF LoadSnapshot
    <2>2. fetch'.step = "loaded" /\ fetch'.revision = fetch.revision
          /\ fetch'.call = call /\ fetch'.recent = Recent
      BY <2>1, <1>0 DEF ReadersTyped
    <2>3. Rows' = Rows /\ Recent' = Recent
      BY <2>1 DEF Rows, log, Recent, Lowest
    <2>4. Completed \in Rows => call = "ended"
      BY <1>e DEF EndsFirst, Rows, Stored
    <2>5. FetchIsCurrent'
      BY <2>1, <2>2, <2>3, <2>4, <1>e DEF FetchIsCurrent
    <2>6. BrowserIsCurrent'
      BY <2>1, <2>3, <1>e DEF BrowserIsCurrent, UnchangedIsCurrent
    <2> QED
      BY <2>5, <2>6, <1>e DEF OverviewInv
  <1>9. CASE ApplyOverview
    <2>1. /\ fetch.step = "loaded" /\ fetch'.step = "idle" /\ UNCHANGED log
          /\ browser' = [browser EXCEPT
               !.revision = fetch.revision, !.call = fetch.call,
               !.seen = @ \cup fetch.recent,
               !.opened = IF @ = Unset THEN Highest(fetch.recent) ELSE @]
      BY <1>9 DEF ApplyOverview, NoFetch
    <2>2. /\ browser'.revision = fetch.revision /\ browser'.call = fetch.call
          /\ browser'.seen = browser.seen \cup fetch.recent
      BY <2>1, <1>0 DEF ReadersTyped
    <2>3. Rows' = Rows /\ Recent' = Recent
      BY <2>1 DEF Rows, log, Recent, Lowest
    <2>4. FetchIsCurrent'
      BY <2>1 DEF FetchIsCurrent
    <2>5. BrowserIsCurrent'
      BY <2>1, <2>2, <2>3, <1>e DEF FetchIsCurrent, BrowserIsCurrent, UnchangedIsCurrent
    <2> QED
      BY <2>4, <2>5, <1>e DEF OverviewInv
  <1> QED
    BY <1>1, <1>2, <1>4, <1>5, <1>6, <1>7, <1>8, <1>9 DEF Next, Recording, Stream, Overview

\* An overview answered as unchanged is not older than its revision (the revision
\* is counted first, overview.controller.ts): its window is known and a call whose
\* end is on the log is not shown as live.
THEOREM UnchangedIsCurrentHolds == Spec => []UnchangedIsCurrent
  <1>1. Init => OverviewInv
    <2> SUFFICES ASSUME Init PROVE OverviewInv
      OBVIOUS
    <2>1. EndsFirst /\ FetchIsCurrent
      BY RequestIsEvent DEF Init, EndsFirst, FetchIsCurrent, NoFetch
    <2>2. browser.revision = -1
      BY DEF Init, Unset
    <2>3. BrowserIsCurrent
      BY <2>2, RowsFinite DEF BrowserIsCurrent, UnchangedIsCurrent
    <2> QED
      BY <2>1, <2>3 DEF OverviewInv
  <1>2. OverviewInv => UnchangedIsCurrent
    BY DEF OverviewInv, BrowserIsCurrent
  <1> QED
    BY NumberInvInit, NumberInvStep, ReaderInvInit, ReaderInvStep, OverviewInvStep, <1>1, <1>2, PTL DEF Spec

-----------------------------------------------------------------------------
(* The card of the call *)

\* What is known of the call at one place is not ahead of what is known at another.
Follows(earlier, later) == earlier = later \/ earlier = "none" \/ later = "ended"

\* The call is recorded as begun after its row was written.
BeginsFirst == stage[Started] \notin {"idle", "lost"} => call # "none"

\* Neither the overview of the browser nor the one on its way is ahead of the row.
CallsInOrder ==
    /\ Follows(browser.call, call)
    /\ fetch.step = "loaded" => Follows(fetch.call, call)

CardInv == BeginsFirst /\ CallsInOrder

\* The card is ended as soon as one of the overview and the events says so, and
\* there is none only while neither says anything.
CardSays ==
    /\ Card \in {"none", "calling", "ended"}
    /\ Card = "ended" <=> browser.call = "ended" \/ Completed \in browser.seen
    /\ Card = "none" <=> /\ browser.call = "none"
                         /\ Started \notin browser.seen /\ Completed \notin browser.seen

LEMMA CardIs == ReaderInv => CardSays
  <1> SUFFICES ASSUME ReadersTyped PROVE CardSays
    BY DEF ReaderInv
  <1>1. /\ KnownStatuses \subseteq {"none", "live", "ended"} /\ KnownStatuses # {}
        /\ "ended" \in KnownStatuses <=> browser.call = "ended" \/ Completed \in browser.seen
        /\ "live" \in KnownStatuses <=> browser.call = "live" \/ Started \in browser.seen
        /\ browser.call \in {"none", "live", "ended"}
    BY DEF ReadersTyped, CallStatuses, KnownStatuses
  <1>2. StatusRank["none"] = 0 /\ StatusRank["live"] = 2 /\ StatusRank["ended"] = 3
    BY DEF StatusRank
  <1> DEFINE greatest == IF "ended" \in KnownStatuses THEN "ended"
                         ELSE IF "live" \in KnownStatuses THEN "live" ELSE "none"
  <1>3. /\ greatest \in KnownStatuses
        /\ \A other \in KnownStatuses : StatusRank[other] <= StatusRank[greatest]
    <2>1. CASE "ended" \in KnownStatuses
      BY <1>1, <1>2, <2>1
    <2>2. CASE "ended" \notin KnownStatuses /\ "live" \in KnownStatuses
      BY <1>1, <1>2, <2>2
    <2>3. CASE "ended" \notin KnownStatuses /\ "live" \notin KnownStatuses
      <3>1. KnownStatuses = {"none"}
        BY <1>1, <2>3
      <3> QED
        BY <1>2, <2>3, <3>1
    <2> QED
      BY <2>1, <2>2, <2>3
  <1>4. \A status \in KnownStatuses :
           (\A other \in KnownStatuses : StatusRank[other] <= StatusRank[status])
             => status = greatest
    BY <1>1, <1>2
  <1> HIDE DEF greatest
  <1>5. MergedStatus = greatest
    BY <1>3, <1>4 DEF MergedStatus
  <1> QED
    BY <1>1, <1>5 DEF CardSays, Card, greatest

\* A new overview is the one that was loaded; the events leave it alone.
LEMMA OverviewWasLoaded ==
    ASSUME NumberInv, ReaderInv, [Next]_vars
    PROVE  \/ browser'.call = browser.call
           \/ fetch.step = "loaded" /\ browser'.call = fetch.call
  <1> DEFINE Kept == browser'.call = browser.call
  <1>0. LogTyped /\ ReadersTyped /\ KnownAreStored
    BY DEF NumberInv, ReaderInv
  <1>1. ASSUME NEW e \in Events, Announce(e) PROVE Kept
    <2>1. e \in Rows /\ Hear(e)
      BY <1>1 DEF Announce, Rows, Stored
    <2>2. CASE conn.phase = "live"
      <3>1. Send(conn, {e})
        BY <2>1, <2>2, HearIs
      <3> QED
        BY <3>1, <2>1, <1>0, SendIs DEF ReadersTyped, KnownAreStored
    <2>3. CASE conn.phase # "live"
      BY <2>1, <2>3, HearIs
    <2> QED
      BY <2>2, <2>3
  <1>2. CASE DeliverPage
    <2>1. PICK c \in [phase : Phases, after : 0..MaximumNumber, cursor : 0..MaximumNumber,
                      page : SUBSET Events, buffered : SUBSET Events, delivered : SUBSET Events] :
             /\ c.page = {} /\ c.delivered = conn.delivered
             /\ c.buffered = {} \/ c.buffered = conn.buffered
             /\ Send(c, conn.page \cup conn.buffered) \/ Send(c, conn.page)
      BY <1>0, <1>2, DeliverIs DEF ReaderInv
    <2>2. /\ conn.page \subseteq Rows /\ conn.buffered \subseteq Rows /\ c.delivered \subseteq Rows
          /\ c.page \subseteq Rows /\ c.buffered \subseteq Rows /\ browser.seen \subseteq Rows
      BY <2>1, <1>0 DEF KnownAreStored
    <2>3. PICK S \in SUBSET Rows : Send(c, S)
      BY <2>1, <2>2
    <2> QED
      BY <2>2, <2>3, <1>0, SendIs DEF ReadersTyped
  <1>3. ASSUME NEW e \in Events, BeginRecord(e) \/ ResumeRecord(e) \/ Insert(e) PROVE Kept
    BY <1>3 DEF BeginRecord, ResumeRecord, Insert
  <1>4. CASE SeedArrives \/ BeginReceive \/ ReserveSequence \/ CommitReceive \/ RollBackReceive
               \/ OpenStream \/ QueryPage \/ DropStream \/ DialCall \/ EndCall \/ Restart
               \/ RequestOverview \/ LoadSnapshot \/ UNCHANGED vars
    BY <1>4 DEF SeedArrives, BeginReceive, ReserveSequence, CommitReceive, RollBackReceive,
         OpenStream, QueryPage, DropStream, DialCall, EndCall, Restart, RequestOverview,
         LoadSnapshot, vars
  <1>5. CASE ApplyOverview
    <2>1. fetch.step = "loaded" /\ browser'.call = fetch.call
      BY <1>0, <1>5 DEF ApplyOverview, ReadersTyped
    <2> QED
      BY <2>1
  <1> QED
    BY <1>1, <1>2, <1>3, <1>4, <1>5 DEF Next, Recording, Stream, Overview

\* The row of the call goes from none over live to ended, and a snapshot takes it
\* as it is.
LEMMA CallGrows ==
    ASSUME NumberInv, ReaderInv, [Next]_vars
    PROVE  /\ Follows(call, call')
           /\ fetch'.step = "loaded" =>
                \/ fetch.step = "loaded" /\ fetch'.call = fetch.call
                \/ fetch'.call = call
  <1>0. LogTyped /\ ReadersTyped
    BY DEF NumberInv, ReaderInv
  <1>1. CASE DialCall \/ EndCall
    BY <1>1 DEF DialCall, EndCall, Follows
  <1>2. CASE LoadSnapshot
    BY <1>0, <1>2 DEF LoadSnapshot, ReadersTyped, Follows
  <1>3. CASE RequestOverview \/ ApplyOverview \/ Restart
    <2>1. \/ fetch' = [NoFetch EXCEPT !.step = "sampled", !.revision = Cardinality(Rows)]
          \/ fetch' = NoFetch
      BY <1>3 DEF RequestOverview, ApplyOverview, Restart
    <2>2. call' = call
      BY <1>3 DEF RequestOverview, ApplyOverview, Restart
    <2>3. fetch'.step # "loaded"
      <3>1. CASE fetch' = NoFetch
        BY <3>1 DEF NoFetch
      <3>2. CASE fetch' = [NoFetch EXCEPT !.step = "sampled", !.revision = Cardinality(Rows)]
        <4>1. fetch'.step = "sampled"
          BY <3>2 DEF NoFetch
        <4> QED
          BY <4>1
      <3> QED
        BY <2>1, <3>1, <3>2
    <2> QED
      BY <2>2, <2>3 DEF Follows
  <1>4. ASSUME NEW e \in Events, Recording(e) PROVE fetch' = fetch /\ call' = call
    BY <1>4 DEF Recording, BeginRecord, ResumeRecord, Insert, Announce
  <1>5. CASE SeedArrives \/ BeginReceive \/ ReserveSequence \/ CommitReceive \/ RollBackReceive
               \/ Stream \/ DropStream \/ UNCHANGED vars
    <2>1. fetch' = fetch /\ call' = call
      BY <1>5 DEF SeedArrives, BeginReceive, ReserveSequence, CommitReceive, RollBackReceive,
           Stream, OpenStream, QueryPage, DeliverPage, DropStream, vars
    <2> QED
      BY <2>1 DEF Follows
  <1> QED
    BY <1>1, <1>2, <1>3, <1>4, <1>5 DEF Next, Overview, Follows

LEMMA BeginsFirstStep == NumberInv /\ ReaderInv /\ BeginsFirst /\ [Next]_vars => BeginsFirst'
  <1> SUFFICES ASSUME NumberInv, ReaderInv, BeginsFirst, [Next]_vars PROVE BeginsFirst'
    OBVIOUS
  <1> USE RequestIsEvent, CallsEventsDiffer
  <1>0. LogTyped
    BY DEF NumberInv
  <1>1. ASSUME NEW e \in Events, BeginRecord(e) PROVE BeginsFirst'
    <2>1. e = Started => call # "none"
      BY <1>1 DEF BeginRecord, Caused
    <2>2. call' = call /\ \A d \in Events \ {e} : stage'[d] = stage[d]
      BY <1>1, <1>0 DEF BeginRecord, TakesNumber, AwaitsSeed, LogTyped
    <2> QED
      BY <2>1, <2>2 DEF BeginsFirst
  <1>2. ASSUME NEW e \in Events, ResumeRecord(e) \/ Insert(e) \/ Announce(e) PROVE BeginsFirst'
    BY <1>0, <1>2 DEF BeginsFirst, ResumeRecord, TakesNumber, Insert, Announce, LogTyped
  <1>3. CASE BeginReceive \/ ReserveSequence \/ CommitReceive \/ RollBackReceive
    BY <1>0, <1>3
       DEF BeginsFirst, BeginReceive, ReserveSequence, CommitReceive, RollBackReceive, LogTyped
  <1>4. CASE Restart
    <2>1. call' = call /\ stage'[Started] = Interrupted(Started)
      BY <1>4 DEF Restart
    <2>2. stage[Started] \in {"idle", "lost"} => Interrupted(Started) \in {"idle", "lost"}
      BY DEF Interrupted
    <2> QED
      BY <2>1, <2>2 DEF BeginsFirst
  <1>5. CASE DialCall \/ EndCall
    BY <1>5 DEF BeginsFirst, DialCall, EndCall, log
  <1>6. CASE SeedArrives \/ Stream \/ DropStream \/ Overview \/ UNCHANGED vars
    BY <1>6 DEF BeginsFirst, SeedArrives, Stream, OpenStream, QueryPage, DeliverPage, DropStream,
         Overview, RequestOverview, LoadSnapshot, ApplyOverview, vars, log
  <1> QED
    BY <1>1, <1>2, <1>3, <1>4, <1>5, <1>6 DEF Next, Recording

LEMMA CardInvStep == NumberInv /\ ReaderInv /\ CardInv /\ [Next]_vars => CardInv'
  <1> SUFFICES ASSUME NumberInv, ReaderInv, CardInv, [Next]_vars PROVE CardInv'
    OBVIOUS
  <1>1. BeginsFirst'
    BY BeginsFirstStep DEF CardInv
  <1>2. CallsInOrder'
    BY OverviewWasLoaded, CallGrows DEF CardInv, CallsInOrder, Follows
  <1> QED
    BY <1>1, <1>2 DEF CardInv

LEMMA CardInvInit == Init => CardInv
  BY RequestIsEvent DEF Init, CardInv, BeginsFirst, CallsInOrder, NoFetch, Follows

\* The card never runs ahead of the call: it shows a call only after one was dialled
\* and shows it ended only after it has ended, and it shows it ended as soon as the
\* browser has seen its end (mergeCall and activeCallView, active-call.ts).
CardFollowsCall ==
    /\ Card = "calling" => call # "none"
    /\ Card = "ended" => call = "ended"
    /\ Completed \in browser.seen => Card = "ended"

THEOREM CardFollowsCallHolds == Spec => []CardFollowsCall
  <1>1. Init => EndsFirst
    BY RequestIsEvent DEF Init, EndsFirst
  <1>2. NumberInv /\ ReaderInv /\ EndsFirst /\ CardInv => CardFollowsCall
    <2> SUFFICES ASSUME NumberInv, ReaderInv, EndsFirst, CardInv PROVE CardFollowsCall
      OBVIOUS
    <2>1. CardSays /\ browser.seen \subseteq Rows
      BY CardIs DEF ReaderInv, KnownAreStored
    <2>2. /\ Completed \in browser.seen => call = "ended"
          /\ Started \in browser.seen => call # "none"
      BY <2>1 DEF EndsFirst, CardInv, BeginsFirst, Rows, Stored
    <2>3. Follows(browser.call, call)
      BY DEF CardInv, CallsInOrder
    <2> QED
      BY <2>1, <2>2, <2>3 DEF CardSays, CardFollowsCall, Follows
  <1> QED
    BY NumberInvInit, NumberInvStep, ReaderInvInit, ReaderInvStep, EndsFirstStep,
       CardInvInit, CardInvStep, <1>1, <1>2, PTL DEF Spec

\* Every variable of the feed has its type, and what its readers know is stored.
THEOREM TypeCorrect == Spec => []TypeOK
  <1>1. NumberInv /\ ReaderInv => TypeOK
    BY DEF NumberInv, LogTyped, Stages, ReaderInv, ReadersTyped, KnownAreStored, TypeOK,
           Phases, CallStatuses
  <1> QED
    BY NumberInvInit, NumberInvStep, ReaderInvInit, ReaderInvStep, <1>1, PTL DEF Spec
=============================================================================

-------------------------- MODULE PlanRevisionProofs --------------------------
(***************************************************************************)
(* Proofs about the plans of one run, PlanRevision, and the order of the   *)
(* companies, CustomerPriorities, for any services and dependencies, costs, *)
(* capacities, drafts of the model and answers of the ranking.             *)
(*                                                                         *)
(* The operators fold and sum over finite sets.  What a fold computes is   *)
(* shown by the least number for which it would be something else; the     *)
(* first part says so once, for any fold and for the units of a set of     *)
(* steps.                                                                  *)
(***************************************************************************)
EXTENDS CustomerPriorities, FiniteSetTheorems, WellFoundedInduction, TLAPS

-----------------------------------------------------------------------------
(* Inductions *)

LEMMA NumberInduction ==
    ASSUME NEW T, 0 \in T, \A n \in Nat : n \in T => n + 1 \in T
    PROVE  Nat \subseteq T
  <1> SUFFICES ASSUME Nat \ T # {} PROVE FALSE
    OBVIOUS
  <1>1. PICK n \in Nat \ T : \A m \in Nat \ T : <<m, n>> \notin OpToRel(<, Nat)
    BY NatLessThanWellFounded, WFMin, Zenon
  <1>2. \A m \in Nat \ T : ~ (m < n)
    BY <1>1, Zenon DEF OpToRel
  <1>3. n # 0 /\ n - 1 \in Nat /\ n - 1 < n
    OBVIOUS
  <1>4. n - 1 \in T
    BY <1>2, <1>3
  <1> QED
    BY <1>3, <1>4

\* What a set has if it has it as soon as all its subsets with one element less do.
LEMMA SubsetInduction ==
    ASSUME NEW S, IsFiniteSet(S), NEW T,
           \A s \in SUBSET S : (\A x \in s : s \ {x} \in T) => s \in T
    PROVE  SUBSET S \subseteq T
  <1> DEFINE N == {n \in Nat : \A s \in SUBSET S : Cardinality(s) = n => s \in T}
  <1>0. \A s \in SUBSET S : IsFiniteSet(s) /\ Cardinality(s) \in Nat
    BY FS_Subset, FS_CardinalityType
  <1>1. 0 \in N
    <2> SUFFICES ASSUME NEW s \in SUBSET S, Cardinality(s) = 0 PROVE s \in T
      OBVIOUS
    <2>1. s = {}
      BY <1>0, FS_EmptySet
    <2> QED
      BY <2>1
  <1>2. \A n \in Nat : n \in N => n + 1 \in N
    <2> SUFFICES ASSUME NEW n \in Nat, n \in N,
                        NEW s \in SUBSET S, Cardinality(s) = n + 1
                 PROVE  s \in T
      OBVIOUS
    <2>1. \A x \in s : Cardinality(s \ {x}) = n
      BY <1>0, FS_RemoveElement
    <2> QED
      BY <2>1
  <1> HIDE DEF N
  <1>3. Nat \subseteq N
    BY <1>1, <1>2, NumberInduction
  <1> QED
    BY <1>0, <1>3 DEF N

\* A finite set of numbers has a greatest and a least one, and Max and Min pick them.
LEMMA GreatestExists ==
    ASSUME NEW S, IsFiniteSet(S), S \subseteq Int, S # {}
    PROVE  \E n \in S : \A m \in S : n >= m
  <1> DEFINE T == {s \in SUBSET S : s # {} => \E n \in s : \A m \in s : n >= m}
  <1>1. ASSUME NEW s \in SUBSET S, \A x \in s : s \ {x} \in T
        PROVE  s \in T
    <2> SUFFICES ASSUME NEW x \in s PROVE \E n \in s : \A m \in s : n >= m
      OBVIOUS
    <2>1. CASE s \ {x} = {}
      <3>1. \A m \in s : m = x
        BY <2>1
      <3> QED
        BY <3>1
    <2>2. CASE s \ {x} # {}
      <3>1. PICK n \in s \ {x} : \A m \in s \ {x} : n >= m
        BY <1>1, <2>2
      <3>2. \A m \in s : m = x \/ n >= m
        BY <3>1
      <3>3. n \in Int /\ x \in Int /\ s \subseteq Int
        OBVIOUS
      <3>4. CASE n >= x
        BY <3>2, <3>3, <3>4
      <3>5. CASE ~(n >= x)
        BY <3>2, <3>3, <3>5
      <3> QED
        BY <3>4, <3>5
    <2> QED
      BY <2>1, <2>2
  <1> HIDE DEF T
  <1>2. SUBSET S \subseteq T
    BY <1>1, SubsetInduction
  <1>3. S \in T
    BY <1>2
  <1> QED
    BY <1>3 DEF T

LEMMA MaxPicks ==
    ASSUME NEW S, IsFiniteSet(S), S \subseteq Int, S # {}
    PROVE  Max(S) \in S /\ \A m \in S : Max(S) >= m
  BY GreatestExists DEF Max

LEMMA MinPicks ==
    ASSUME NEW S, IsFiniteSet(S), S \subseteq Int, S # {}
    PROVE  Min(S) \in S /\ \A m \in S : Min(S) <= m
  <1> DEFINE N == {0 - n : n \in S}
             f == [n \in S |-> 0 - n]
  <1>1. IsFiniteSet(N)
    <2>1. f \in Surjection(S, N)
      BY DEF Surjection
    <2> HIDE DEF f, N
    <2> QED
      BY <2>1, FS_Surjection
  <1>2. N \subseteq Int /\ N # {}
    <2>1. \A n \in S : 0 - n \in Int
      OBVIOUS
    <2> QED
      BY <2>1
  <1>3. PICK k \in N : \A m \in N : k >= m
    BY <1>1, <1>2, GreatestExists
  <1>4. PICK n \in S : k = 0 - n
    OBVIOUS
  <1>5. \A m \in S : n <= m
    BY <1>3, <1>4
  <1> QED
    BY <1>5 DEF Min

-----------------------------------------------------------------------------
(* Folds *)

\* Every element but the first one picked is folded before it.
Folds(f, S, pick, op, base) ==
    f = [s \in SUBSET S |-> IF s = {} THEN base ELSE op[<<pick[s], f[s \ {pick[s]}]>>]]

LEMMA FoldExists ==
    ASSUME NEW S, IsFiniteSet(S), NEW A, NEW base \in A, NEW op \in [S \X A -> A],
           NEW pick, \A s \in SUBSET S : s # {} => pick[s] \in s
    PROVE  \E f \in [SUBSET S -> A] : Folds(f, S, pick, op, base)
  <1> DEFINE Of(g, s) == IF s = {} THEN base ELSE op[<<pick[s], g[s \ {pick[s]}]>>]
             N == {n \in Nat : \E g \in [SUBSET S -> A] :
                       \A s \in SUBSET S : Cardinality(s) <= n => g[s] = Of(g, s)}
  <1>0. \A s \in SUBSET S : IsFiniteSet(s) /\ Cardinality(s) \in Nat
    BY FS_Subset, FS_CardinalityType
  <1>t. \A g \in [SUBSET S -> A], s \in SUBSET S : Of(g, s) \in A
    OBVIOUS
  <1>1. 0 \in N
    <2> DEFINE g == [s \in SUBSET S |-> base]
    <2>1. \A s \in SUBSET S : Cardinality(s) <= 0 => s = {}
      BY <1>0, FS_EmptySet
    <2>2. g \in [SUBSET S -> A] /\ \A s \in SUBSET S : Cardinality(s) <= 0 => g[s] = Of(g, s)
      BY <2>1
    <2> QED
      BY <2>2
  <1>2. \A n \in Nat : n \in N => n + 1 \in N
    <2> SUFFICES ASSUME NEW n \in Nat, n \in N PROVE n + 1 \in N
      OBVIOUS
    <2>1. PICK g \in [SUBSET S -> A] :
              \A s \in SUBSET S : Cardinality(s) <= n => g[s] = Of(g, s)
      OBVIOUS
    <2> DEFINE h == [s \in SUBSET S |-> Of(g, s)]
    <2>2. h \in [SUBSET S -> A] /\ \A s \in SUBSET S : h[s] = Of(g, s)
      BY <1>t
    <2> HIDE DEF h
    <2>3. ASSUME NEW s \in SUBSET S, Cardinality(s) <= n + 1
          PROVE  h[s] = Of(h, s)
      <3>1. CASE s = {}
        BY <3>1, <2>2
      <3>2. CASE s # {}
        <4>1. pick[s] \in s /\ s \ {pick[s]} \in SUBSET S
          BY <3>2
        <4>2. Cardinality(s \ {pick[s]}) <= n
          BY <4>1, <1>0, <2>3, FS_RemoveElement
        <4>3. g[s \ {pick[s]}] = h[s \ {pick[s]}]
          BY <4>1, <4>2, <2>1, <2>2
        <4> QED
          BY <3>2, <4>3, <2>2
      <3> QED
        BY <3>1, <3>2
    <2>4. \A s \in SUBSET S : Cardinality(s) <= n + 1 => h[s] = Of(h, s)
      BY <2>3
    <2> HIDE DEF Of
    <2>5. \E k \in [SUBSET S -> A] :
              \A s \in SUBSET S : Cardinality(s) <= n + 1 => k[s] = Of(k, s)
      BY <2>2, <2>4
    <2> QED
      BY <2>5
  <1>3. Nat \subseteq N
    <2> HIDE DEF N
    <2> QED
      BY <1>1, <1>2, NumberInduction
  <1>4. Cardinality(S) \in N
    BY <1>0, <1>3
  <1>5. PICK g \in [SUBSET S -> A] :
            \A s \in SUBSET S : Cardinality(s) <= Cardinality(S) => g[s] = Of(g, s)
    BY <1>4
  <1>6. \A s \in SUBSET S : Cardinality(s) <= Cardinality(S)
    BY FS_Subset
  <1>7. g = [s \in SUBSET S |-> Of(g, s)]
    BY <1>5, <1>6
  <1> QED
    BY <1>7 DEF Folds

\* One round of sequenceSteps.
Round(theSteps, done) ==
    done \cup {i \in DOMAIN theSteps : theSteps[i].after \cap DOMAIN theSteps \subseteq done}

\* Sequenced goes through as many rounds as there are steps, from no step ordered.
Rounds(theSteps, f) ==
    /\ f \in [SUBSET DOMAIN theSteps -> SUBSET DOMAIN theSteps]
    /\ f[{}] = {}
    /\ \A s \in SUBSET DOMAIN theSteps :
          s # {} => \E x \in s : f[s] = Round(theSteps, f[s \ {x}])

LEMMA SequencedInRounds ==
    ASSUME NEW theSteps, IsFiniteSet(DOMAIN theSteps)
    PROVE  \E f : Rounds(theSteps, f) /\ Sequenced(theSteps) = f[DOMAIN theSteps]
  <1> DEFINE D == DOMAIN theSteps
             pick == [s \in SUBSET D |-> CHOOSE x \in s : TRUE]
             op == [p \in D \X SUBSET D |-> Round(theSteps, p[2])]
             Is(g) == g = [s \in SUBSET D |->
                             IF s = {} THEN {}
                             ELSE Round(theSteps, g[s \ {CHOOSE x \in s : TRUE}])]
             f == CHOOSE g : Is(g)
  <1>1. Sequenced(theSteps) = f[D]
    BY DEF Sequenced, FoldSet, MapThenFoldSet, Round
  <1>2. \A s \in SUBSET D : s # {} => (CHOOSE x \in s : TRUE) \in s
    OBVIOUS
  <1>3. \A done \in SUBSET D : Round(theSteps, done) \in SUBSET D
    BY DEF Round
  <1> HIDE DEF D
  <1>4. \E g : Is(g)
    <2>1. PICK g \in [SUBSET D -> SUBSET D] : Folds(g, D, pick, op, {})
      <3>1. op \in [D \X SUBSET D -> SUBSET D]
        BY <1>3
      <3>2. \A s \in SUBSET D : s # {} => pick[s] \in s
        BY <1>2
      <3>3. IsFiniteSet(D) /\ {} \in SUBSET D
        BY DEF D
      <3> HIDE DEF pick, op
      <3> QED
        BY <3>1, <3>2, <3>3, FoldExists
    <2>2. \A s \in SUBSET D : s # {} =>
             op[<<pick[s], g[s \ {pick[s]}]>>] = Round(theSteps, g[s \ {CHOOSE x \in s : TRUE}])
      BY <1>2, <2>1
    <2> HIDE DEF pick, op
    <2>3. Is(g)
      BY <2>1, <2>2 DEF Folds
    <2> HIDE DEF Is
    <2> QED
      BY <2>3
  <1>5. Is(f)
    <2> HIDE DEF Is
    <2> QED
      BY <1>4
  <1> HIDE DEF f
  <1>6. DOMAIN f = SUBSET D /\ f[{}] = {}
    BY <1>5
  <1>7. \A s \in SUBSET D : s # {} => \E x \in s : f[s] = Round(theSteps, f[s \ {x}])
    BY <1>5, <1>2
  <1>8. \A s \in SUBSET D : f[s] \in SUBSET D
    <2> DEFINE T == {s \in SUBSET D : f[s] \in SUBSET D}
    <2>1. ASSUME NEW s \in SUBSET D, \A x \in s : s \ {x} \in T
          PROVE  s \in T
      <3>1. CASE s = {}
        BY <3>1, <1>6
      <3>2. CASE s # {}
        <4>1. PICK x \in s : f[s] = Round(theSteps, f[s \ {x}])
          BY <3>2, <1>7
        <4>2. f[s \ {x}] \in SUBSET D
          BY <2>1
        <4> QED
          BY <4>1, <4>2, <1>3
      <3> QED
        BY <3>1, <3>2
    <2>2. IsFiniteSet(D)
      BY DEF D
    <2> HIDE DEF T
    <2>3. SUBSET D \subseteq T
      BY <2>1, <2>2, SubsetInduction
    <2> QED
      BY <2>3 DEF T
  <1>9. f = [s \in SUBSET D |-> f[s]]
    BY <1>5
  <1> QED
    BY <1>1, <1>6, <1>7, <1>8, <1>9 DEF Rounds, D

-----------------------------------------------------------------------------
(* The units of a set of steps *)

StepsOfServices(S) == IsFiniteSet(S) /\ \A i \in S : i.service \in Services

FirstOf(s) == CHOOSE x \in s : TRUE
CostOf(i) == Cost[i.service]

\* What UnitsOf sums with.
Sums(f, S) ==
    f = [s \in SUBSET S |-> IF s = {} THEN 0 ELSE CostOf(FirstOf(s)) + f[s \ {FirstOf(s)}]]

LEMMA UnitsAreASum ==
    ASSUME NEW S
    PROVE  UnitsOf(S) = (CHOOSE f : Sums(f, S))[S]
  BY DEF UnitsOf, MapThenSumSet, MapThenFoldSet, Sums, FirstOf, CostOf

LEMMA SumExists ==
    ASSUME NEW S, StepsOfServices(S)
    PROVE  \E f \in [SUBSET S -> Nat] : Sums(f, S)
  <1> DEFINE pick == [s \in SUBSET S |-> FirstOf(s)]
             op == [p \in S \X Nat |-> CostOf(p[1]) + p[2]]
  <1>1. \A s \in SUBSET S : s # {} => FirstOf(s) \in s /\ pick[s] = FirstOf(s)
    BY DEF FirstOf
  <1>2. \A i \in S : CostOf(i) \in Nat
    BY PlanRulesAssumption DEF CostOf, StepsOfServices
  <1>3. op \in [S \X Nat -> Nat]
    BY <1>2
  <1>4. PICK f \in [SUBSET S -> Nat] : Folds(f, S, pick, op, 0)
    <2>1. IsFiniteSet(S) /\ 0 \in Nat /\ \A s \in SUBSET S : s # {} => pick[s] \in s
      BY <1>1 DEF StepsOfServices
    <2> HIDE DEF pick, op
    <2> QED
      BY <2>1, <1>3, FoldExists
  <1>5. \A s \in SUBSET S : s # {} =>
           op[<<pick[s], f[s \ {pick[s]}]>>] = CostOf(FirstOf(s)) + f[s \ {FirstOf(s)}]
    BY <1>1, <1>4
  <1> HIDE DEF pick, op
  <1>6. Sums(f, S)
    BY <1>4, <1>5 DEF Folds, Sums
  <1> QED
    BY <1>6

LEMMA SumIsOne ==
    ASSUME NEW S, IsFiniteSet(S), NEW T \in SUBSET S, NEW f, NEW g, Sums(f, S), Sums(g, T)
    PROVE  f[T] = g[T]
  <1> DEFINE E == {s \in SUBSET T : f[s] = g[s]}
  <1>1. ASSUME NEW s \in SUBSET T, \A x \in s : s \ {x} \in E
        PROVE  s \in E
    <2>1. s # {} => FirstOf(s) \in s
      BY DEF FirstOf
    <2>2. f[s] = IF s = {} THEN 0 ELSE CostOf(FirstOf(s)) + f[s \ {FirstOf(s)}]
      BY DEF Sums
    <2>3. g[s] = IF s = {} THEN 0 ELSE CostOf(FirstOf(s)) + g[s \ {FirstOf(s)}]
      BY DEF Sums
    <2> QED
      BY <1>1, <2>1, <2>2, <2>3
  <1>2. IsFiniteSet(T)
    BY FS_Subset
  <1> HIDE DEF E
  <1>3. SUBSET T \subseteq E
    BY <1>1, <1>2, SubsetInduction
  <1> QED
    BY <1>3 DEF E

\* The steps can be taken away in the order of the sum,
LEMMA UnitsUnfold ==
    ASSUME NEW S, StepsOfServices(S)
    PROVE  /\ UnitsOf(S) \in Nat
           /\ S = {} => UnitsOf(S) = 0
           /\ S # {} => UnitsOf(S) = CostOf(FirstOf(S)) + UnitsOf(S \ {FirstOf(S)})
  <1> DEFINE f == CHOOSE f : Sums(f, S)
  <1>1. PICK h \in [SUBSET S -> Nat] : Sums(h, S)
    BY SumExists
  <1>2. Sums(f, S)
    BY <1>1
  <1>3. UnitsOf(S) = f[S]
    BY UnitsAreASum
  <1> HIDE DEF f
  <1>4. f[S] = h[S]
    BY <1>1, <1>2, SumIsOne DEF StepsOfServices
  <1>5. S # {} => f[S \ {FirstOf(S)}] = UnitsOf(S \ {FirstOf(S)})
    <2> DEFINE T == S \ {FirstOf(S)}
    <2>1. StepsOfServices(T) /\ T \in SUBSET S
      BY FS_Subset DEF StepsOfServices
    <2> DEFINE g == CHOOSE g : Sums(g, T)
    <2> HIDE DEF T
    <2>2. Sums(g, T)
      BY <2>1, SumExists
    <2>3. UnitsOf(T) = g[T]
      BY UnitsAreASum
    <2> HIDE DEF g
    <2>4. f[T] = g[T]
      BY <2>1, <2>2, <1>2, SumIsOne DEF StepsOfServices
    <2> QED
      BY <2>3, <2>4 DEF T
  <1>6. f[S] = IF S = {} THEN 0 ELSE CostOf(FirstOf(S)) + f[S \ {FirstOf(S)}]
    BY <1>2 DEF Sums
  <1> QED
    BY <1>1, <1>3, <1>4, <1>5, <1>6

\* and in any other.
LEMMA UnitsWithout ==
    ASSUME NEW S, StepsOfServices(S), NEW x \in S
    PROVE  /\ UnitsOf(S) \in Nat /\ UnitsOf(S \ {x}) \in Nat /\ CostOf(x) \in Nat
           /\ UnitsOf(S) = CostOf(x) + UnitsOf(S \ {x})
  <1>0. /\ \A s \in SUBSET S : StepsOfServices(s)
        /\ \A y \in S : CostOf(y) \in Nat
    BY FS_Subset, PlanRulesAssumption DEF StepsOfServices, CostOf
  <1>1. \A s \in SUBSET S : UnitsOf(s) \in Nat
    BY <1>0, UnitsUnfold
  <1> DEFINE E == {s \in SUBSET S : \A y \in s : UnitsOf(s) = CostOf(y) + UnitsOf(s \ {y})}
  <1>2. ASSUME NEW s \in SUBSET S, \A y \in s : s \ {y} \in E
        PROVE  s \in E
    <2> SUFFICES ASSUME NEW y \in s PROVE UnitsOf(s) = CostOf(y) + UnitsOf(s \ {y})
      OBVIOUS
    <2> DEFINE p == FirstOf(s)
    <2>1. p \in s
      BY DEF FirstOf
    <2> HIDE DEF p
    <2>2. UnitsOf(s) = CostOf(p) + UnitsOf(s \ {p})
      BY <1>0, UnitsUnfold DEF p
    <2>3. CASE y = p
      BY <2>2, <2>3
    <2>4. CASE y # p
      <3>1. y \in s \ {p} /\ p \in s \ {y} /\ (s \ {p}) \ {y} = (s \ {y}) \ {p}
        BY <2>1, <2>4
      <3>2. UnitsOf(s \ {p}) = CostOf(y) + UnitsOf((s \ {p}) \ {y})
        BY <3>1, <1>2, <2>1
      <3>3. UnitsOf(s \ {y}) = CostOf(p) + UnitsOf((s \ {y}) \ {p})
        BY <3>1, <1>2
      <3>4. /\ UnitsOf((s \ {p}) \ {y}) \in Nat /\ CostOf(y) \in Nat /\ CostOf(p) \in Nat
        BY <1>0, <1>1, <2>1
      <3> QED
        BY <3>1, <3>2, <3>3, <3>4, <2>2
    <2> QED
      BY <2>3, <2>4
  <1>3. IsFiniteSet(S)
    BY DEF StepsOfServices
  <1> HIDE DEF E
  <1>4. SUBSET S \subseteq E
    BY <1>2, <1>3, SubsetInduction
  <1>5. S \in E
    BY <1>4
  <1> QED
    BY <1>0, <1>1, <1>5 DEF E

-----------------------------------------------------------------------------
(* The steps of drafts *)

IsStep(r) == r = [status |-> r.status, after |-> r.after]

TypedSteps(theSteps) ==
    /\ DOMAIN theSteps \subseteq Identifiers
    /\ \A i \in DOMAIN theSteps : IsStep(theSteps[i])

TypedDraft(d) == TypedSteps(d.steps) /\ d.assumed \in Int

TypedTrusted(t) ==
    TypedSteps(t.steps) /\ t.total \in Int /\ t.allocated \in Int /\ t.usable \in Int

LEMMA IdentifiersFinite == IsFiniteSet(Identifiers)
  <1> DEFINE E == {Execute(s) : s \in Services}
             O == {OwnExecute(s) : s \in Services}
             V == {Verify(s) : s \in Services}
             e == [s \in Services |-> Execute(s)]
             o == [s \in Services |-> OwnExecute(s)]
             v == [s \in Services |-> Verify(s)]
  <1>1. e \in Surjection(Services, E) /\ o \in Surjection(Services, O)
        /\ v \in Surjection(Services, V)
    <2> HIDE DEF Execute, OwnExecute, Verify
    <2> QED
      BY DEF Surjection
  <1>2. Identifiers = (({Call} \cup E) \cup O) \cup V
    BY DEF Identifiers
  <1> HIDE DEF e, o, v, E, O, V
  <1>3. IsFiniteSet(E) /\ IsFiniteSet(O) /\ IsFiniteSet(V)
    BY <1>1, FS_Surjection, PlanRulesAssumption
  <1>4. IsFiniteSet({Call} \cup E)
    BY <1>3, FS_Singleton, FS_Union
  <1>5. IsFiniteSet(({Call} \cup E) \cup O)
    BY <1>3, <1>4, FS_Union
  <1> QED
    BY <1>2, <1>3, <1>5, FS_Union

\* What an identifier is.
LEMMA OfIdentifiers ==
    /\ Call \in Identifiers
    /\ \A s \in Services : {Execute(s), OwnExecute(s), Verify(s)} \subseteq Identifiers
    /\ \A i \in Identifiers : i.tool \in {"call", "execute", "verify"}
    /\ \A i \in Identifiers : i.tool = "call" => i = Call
    /\ \A i \in Identifiers : i.tool # "call" => i.service \in Services
    /\ \A i \in Identifiers : i.tool = "verify" => i = Verify(i.service)
  <1>1. /\ Call.tool = "call"
        /\ \A s : Execute(s).tool = "execute" /\ Execute(s).service = s
        /\ \A s : OwnExecute(s).tool = "execute" /\ OwnExecute(s).service = s
        /\ \A s : Verify(s).tool = "verify" /\ Verify(s).service = s
    BY DEF Call, Execute, OwnExecute, Verify
  <1>2. \A s \in Services : {Call, Execute(s), OwnExecute(s), Verify(s)} \subseteq Identifiers
    BY DEF Identifiers
  <1>3. \A i \in Identifiers :
           \/ i = Call
           \/ \E s \in Services : i \in {Execute(s), OwnExecute(s), Verify(s)}
    BY DEF Identifiers
  <1>4. Call \in Identifiers
    BY DEF Identifiers
  <1> QED
    BY <1>1, <1>2, <1>3, <1>4

LEMMA ExecutesAreOfServices ==
    ASSUME NEW ids, ids \subseteq Identifiers
    PROVE  IsFiniteSet(ids) /\ StepsOfServices(Executes(ids))
  <1>1. IsFiniteSet(ids)
    BY IdentifiersFinite, FS_Subset
  <1>2. Executes(ids) \in SUBSET ids
    BY DEF Executes
  <1>3. IsFiniteSet(Executes(ids))
    BY <1>1, <1>2, FS_Subset
  <1> QED
    BY <1>1, <1>3, OfIdentifiers DEF Executes, StepsOfServices

\* Fitting chooses among the services it is given, one after the other.
FittingTypes(set) == [left : Int, chosen : SUBSET set]

Considered(set, n, acc) ==
    IF Ranking[n] \in set /\ Cost[Ranking[n]] <= acc.left
    THEN [left |-> acc.left - Cost[Ranking[n]], chosen |-> acc.chosen \cup {Ranking[n]}]
    ELSE acc

FitsWith(f, set, left) ==
    f = [s \in SUBSET DOMAIN Ranking |->
            IF s = {} THEN [left |-> left, chosen |-> {}]
            ELSE Considered(set, Max(s), f[s \ {Max(s)}])]

LEMMA ConsideredTypes ==
    ASSUME NEW set, set \subseteq Services, NEW n \in DOMAIN Ranking, NEW acc \in FittingTypes(set)
    PROVE  Considered(set, n, acc) \in FittingTypes(set)
  BY PlanRulesAssumption DEF Considered, FittingTypes

LEMMA RankingFinite ==
    /\ IsFiniteSet(DOMAIN Ranking)
    /\ \A s \in SUBSET DOMAIN Ranking : s # {} => Max(s) \in s /\ Min(s) \in s
  <1>1. DOMAIN Ranking = 1..Len(Ranking) /\ Len(Ranking) \in Nat
    BY PlanRulesAssumption
  <1>2. IsFiniteSet(DOMAIN Ranking)
    BY <1>1, FS_Interval
  <1>3. ASSUME NEW s \in SUBSET DOMAIN Ranking, s # {} PROVE Max(s) \in s /\ Min(s) \in s
    <2>1. IsFiniteSet(s) /\ s \subseteq Int
      BY <1>1, <1>2, FS_Subset
    <2> QED
      BY <1>3, <2>1, MaxPicks, MinPicks
  <1> QED
    BY <1>2, <1>3

LEMMA FitsExists ==
    ASSUME NEW set, set \subseteq Services, NEW left \in Int
    PROVE  \E f : FitsWith(f, set, left)
  <1> DEFINE D == DOMAIN Ranking
             A == FittingTypes(set)
             base == [left |-> left, chosen |-> {}]
             pick == [s \in SUBSET D |-> Max(s)]
             op == [p \in D \X A |-> Considered(set, p[1], p[2])]
  <1>1. op \in [D \X A -> A] /\ base \in A
    BY ConsideredTypes DEF FittingTypes
  <1>2. \A s \in SUBSET D : s # {} => Max(s) \in s /\ pick[s] = Max(s)
    BY RankingFinite
  <1> HIDE DEF A, base
  <1>3. PICK g \in [SUBSET D -> A] : Folds(g, D, pick, op, base)
    <2>1. IsFiniteSet(D) /\ \A s \in SUBSET D : s # {} => pick[s] \in s
      BY <1>2, RankingFinite
    <2> HIDE DEF D, pick, op
    <2> QED
      BY <1>1, <2>1, FoldExists
  <1>4. \A s \in SUBSET D : s # {} =>
           op[<<pick[s], g[s \ {pick[s]}]>>] = Considered(set, Max(s), g[s \ {Max(s)}])
    BY <1>2, <1>3
  <1> HIDE DEF pick, op
  <1>5. FitsWith(g, set, left)
    BY <1>3, <1>4 DEF Folds, FitsWith, base
  <1> QED
    BY <1>5

LEMMA FitsTyped ==
    ASSUME NEW set, set \subseteq Services, NEW left \in Int, NEW f, FitsWith(f, set, left)
    PROVE  f[DOMAIN Ranking] \in FittingTypes(set)
  <1> DEFINE D == DOMAIN Ranking
             T == {s \in SUBSET D : f[s] \in FittingTypes(set)}
  <1>1. ASSUME NEW s \in SUBSET D, \A x \in s : s \ {x} \in T
        PROVE  s \in T
    <2>1. CASE s = {}
      BY <2>1 DEF FitsWith, FittingTypes
    <2>2. CASE s # {}
      <3>1. Max(s) \in s /\ f[s] = Considered(set, Max(s), f[s \ {Max(s)}])
        BY <2>2, RankingFinite DEF FitsWith
      <3>2. f[s \ {Max(s)}] \in FittingTypes(set)
        BY <1>1, <3>1
      <3> QED
        BY <3>1, <3>2, ConsideredTypes
    <2> QED
      BY <2>1, <2>2
  <1>2. IsFiniteSet(D)
    BY RankingFinite
  <1>3. \A s \in SUBSET D : (\A x \in s : s \ {x} \in T) => s \in T
    BY <1>1
  <1> HIDE DEF T, D
  <1>4. SUBSET D \subseteq T
    BY <1>2, <1>3, SubsetInduction
  <1> QED
    BY <1>4 DEF T, D

LEMMA FittingChosen ==
    ASSUME NEW set, set \subseteq Services, NEW left \in Int
    PROVE  Fitting(set, left).chosen \subseteq set
  <1> DEFINE f == CHOOSE g : FitsWith(g, set, left)
  <1>1. Fitting(set, left) = f[DOMAIN Ranking]
    BY DEF Fitting, FoldLeft, MapThenFoldSet, FitsWith, Considered
  <1>2. FitsWith(f, set, left)
    BY FitsExists
  <1> HIDE DEF f
  <1> QED
    BY <1>1, <1>2, FitsTyped DEF FittingTypes

LEMMA UnitsOfExecutes ==
    ASSUME NEW ids, ids \subseteq Identifiers
    PROVE  UnitsOf(Executes(ids)) \in Nat
  BY ExecutesAreOfServices, UnitsUnfold

LEMMA CallTyped ==
    ASSUME NEW d, NEW t, TypedSteps(d.steps)
    PROVE  TypedSteps(WithCall(d, t))
  <1>1. IsStep(Proposed({}))
    BY DEF IsStep, Proposed
  <1>2. CASE WithCall(d, t) = d.steps
    BY <1>2
  <1>3. CASE WithCall(d, t) = [i \in DOMAIN d.steps \cup {Call} |->
                                 IF i = Call THEN Proposed({}) ELSE d.steps[i]]
    <2>1. DOMAIN WithCall(d, t) \subseteq Identifiers
      BY <1>3, OfIdentifiers DEF TypedSteps
    <2>2. \A i \in DOMAIN WithCall(d, t) : IsStep(WithCall(d, t)[i])
      BY <1>1, <1>3 DEF TypedSteps
    <2> QED
      BY <2>1, <2>2 DEF TypedSteps
  <1> QED
    BY <1>2, <1>3 DEF WithCall

LEMMA ResolvedInt ==
    ASSUME NEW d, NEW t, TypedDraft(d), TypedTrusted(t)
    PROVE  ResolvedAssumed(d, t) \in Int
  <1> DEFINE assumed == IF d.assumed = 0 /\ t.usable > 0 THEN t.usable ELSE d.assumed
  <1>1. assumed \in Int /\ t.total \in Int
    BY DEF TypedDraft, TypedTrusted
  <1>2. ResolvedAssumed(d, t) = Min({assumed, t.total})
    BY DEF ResolvedAssumed
  <1> HIDE DEF assumed
  <1>3. IsFiniteSet({assumed} \cup {t.total})
    BY FS_Singleton, FS_Union
  <1>4. {assumed} \cup {t.total} = {assumed, t.total}
    OBVIOUS
  <1>5. IsFiniteSet({assumed, t.total})
    BY <1>3, <1>4
  <1>6. Min({assumed, t.total}) \in {assumed, t.total}
    BY <1>1, <1>5, MinPicks
  <1> QED
    BY <1>1, <1>2, <1>6

LEMMA RemainingInt ==
    ASSUME NEW d, NEW t, TypedDraft(d), TypedTrusted(t), NEW theSteps, TypedSteps(theSteps)
    PROVE  RemainingOf(d, t, theSteps) \in Int
  <1>1. UnitsOf(Executes(DOMAIN theSteps \ Carried(t))) \in Nat
    BY UnitsOfExecutes DEF TypedSteps
  <1> QED
    BY <1>1, ResolvedInt DEF RemainingOf, TypedTrusted

LEMMA PromotedIsOne ==
    ASSUME NEW t, NEW decided, NEW left
    PROVE  Promoted(t, decided, left) \subseteq Services
  <1> DEFINE candidates == {s \in Services : /\ t.health[s] \in {"down", "degraded"}
                                             /\ OutcomeOf(t, left, s) = "recover-now"}
             places == {n \in DOMAIN Ranking : Ranking[n] \in candidates}
             planned == \E s \in Unhealthy(t) : decided[s] = "recover-now"
  <1>1. Promoted(t, decided, left) =
            IF candidates = {} \/ planned THEN {} ELSE {Ranking[Min(places)]}
    BY DEF Promoted
  <1>2. candidates \subseteq Services
    OBVIOUS
  <1> HIDE DEF candidates, planned
  <1>3. ASSUME candidates # {} PROVE Ranking[Min(places)] \in Services
    <2>1. \E n \in DOMAIN Ranking : Ranking[n] \in candidates
      BY <1>2, <1>3, PlanRulesAssumption DEF ToSet
    <2>2. places # {} /\ places \in SUBSET DOMAIN Ranking
      BY <2>1
    <2>3. Min(places) \in places
      BY <2>2, RankingFinite
    <2> QED
      BY <1>2, <2>3
  <1> QED
    BY <1>1, <1>3

LEMMA InjectedAreServices ==
    ASSUME NEW d, NEW t, TypedDraft(d), TypedTrusted(t), NEW theSteps, TypedSteps(theSteps)
    PROVE  WithRecoverNow(d, t, theSteps).inject \subseteq Services
  <1> DEFINE left       == RemainingOf(d, t, theSteps)
             incomplete == Incomplete(d, t, theSteps)
             eligible   == {s \in incomplete : OutcomeOf(t, left, s) = "recover-now"}
             fitting    == Fitting(eligible, left)
  <1>1. eligible \subseteq Services
    BY DEF Incomplete
  <1>2. \E decided : WithRecoverNow(d, t, theSteps).inject \subseteq
           fitting.chosen \cup Promoted(t, decided, fitting.left)
    BY DEF WithRecoverNow
  <1> HIDE DEF eligible
  <1>3. left \in Int
    BY RemainingInt
  <1> HIDE DEF left
  <1>4. fitting.chosen \subseteq eligible
    BY <1>1, <1>3, FittingChosen
  <1> HIDE DEF fitting
  <1> QED
    BY <1>1, <1>2, <1>4, PromotedIsOne

\* Repairing a draft adds steps of services, and leaves records what they are.
LEMMA RepairTyped ==
    ASSUME NEW d, NEW t, TypedDraft(d), TypedTrusted(t)
    PROVE  TypedSteps(Repair(d, t).steps)
  <1> DEFINE called == WithCall(d, t)
             recover == WithRecoverNow(d, t, called)
             inserted == WithRecoverySteps(called, recover.inject)
  <1>1. TypedSteps(called)
    BY CallTyped DEF TypedDraft
  <1> HIDE DEF called
  <1>2. recover.inject \subseteq Services
    BY <1>1, InjectedAreServices
  <1> HIDE DEF recover
  <1>3. TypedSteps(inserted)
    <2>1. DOMAIN inserted \subseteq Identifiers
      BY <1>1, <1>2, OfIdentifiers DEF WithRecoverySteps, TypedSteps
    <2>2. \A after : IsStep(Proposed(after))
      BY DEF IsStep, Proposed
    <2>3. \A i \in DOMAIN inserted : IsStep(inserted[i])
      BY <1>1, <2>2 DEF WithRecoverySteps, TypedSteps
    <2> QED
      BY <2>1, <2>3 DEF TypedSteps
  <1>4. Repair(d, t).steps =
          [i \in DOMAIN inserted |-> RepairStep(t, recover.decision, inserted, i)]
    BY DEF Repair, called, recover
  <1> HIDE DEF inserted
  <1>5. ASSUME NEW i \in DOMAIN inserted
        PROVE  IsStep(RepairStep(t, recover.decision, inserted, i))
    <2>1. CASE i \in Carried(t)
      BY <2>1 DEF RepairStep, Carried, TypedTrusted, TypedSteps
    <2>2. CASE i \notin Carried(t)
      <3>1. \A r, after : IsStep(r) => IsStep([r EXCEPT !.after = after])
        BY DEF IsStep
      <3> QED
        BY <1>3, <2>2, <3>1 DEF RepairStep, TypedSteps
    <2> QED
      BY <2>1, <2>2
  <1> QED
    BY <1>3, <1>4, <1>5 DEF TypedSteps

LEMMA ModelDraftsTyped ==
    ASSUME NEW t, TypedTrusted(t), NEW d \in ModelDrafts(t)
    PROVE  TypedDraft(d)
  <1>1. PICK recover \in SUBSET Unhealthy(t), form \in Forms, assumed \in {0, t.total} :
            d.steps = ModelSteps(t, recover, form) /\ d.assumed = assumed
    BY DEF ModelDrafts
  <1>2. d.assumed \in Int
    BY <1>1 DEF TypedTrusted
  <1> DEFINE Named(s) == IF form = "renamed" THEN OwnExecute(s) ELSE Execute(s)
             Taken(s) == {i \in Executes(Carried(t)) : i.service = s}
             new == {Named(s) : s \in {u \in recover : Taken(u) = {}}}
                    \cup {Verify(s) : s \in {u \in recover : Verify(u) \notin Carried(t)}}
             all == new \cup (IF form = "complete" THEN Carried(t) ELSE {})
  <1>3. DOMAIN ModelSteps(t, recover, form) = all
    BY DEF ModelSteps
  <1>4. new \subseteq Identifiers
    <2>1. recover \subseteq Services
      BY DEF Unhealthy
    <2> QED
      BY <2>1, OfIdentifiers
  <1>5. Carried(t) \subseteq DOMAIN t.steps
    BY DEF Carried
  <1>6. ASSUME NEW i \in all PROVE IsStep(ModelSteps(t, recover, form)[i])
    <2>1. \A after : IsStep(Proposed(after))
      BY DEF IsStep, Proposed
    <2>2. \E after : ModelSteps(t, recover, form)[i] = Proposed(after)
      BY <1>6 DEF ModelSteps
    <2> QED
      BY <2>1, <2>2
  <1>7. all \subseteq Identifiers
    BY <1>4, <1>5 DEF TypedTrusted, TypedSteps
  <1> HIDE DEF all
  <1> QED
    BY <1>1, <1>2, <1>3, <1>6, <1>7 DEF TypedDraft, TypedSteps

LEMMA BuiltStepIsStep ==
    ASSUME NEW t, TypedTrusted(t), NEW ids, NEW order, NEW i
    PROVE  IsStep(BuiltStep(t, ids, order, i))
  <1>1. \A after : IsStep(Proposed(after))
    BY DEF IsStep, Proposed
  <1>2. \A r : IsStep(r) => IsStep(CarryOrReset(r))
    BY DEF IsStep, CarryOrReset
  <1>3. \A r : IsStep(r) => IsStep(CarryOrCreate(t, i, r))
    BY <1>2 DEF CarryOrCreate, TypedTrusted, TypedSteps
  <1>4. \A r, after : IsStep(r) => IsStep(RefreshDependencies(r, after))
    BY DEF IsStep, RefreshDependencies
  <1> HIDE DEF IsStep
  <1>5. CASE i.tool = "execute"
    <2>1. \E r, after : BuiltStep(t, ids, order, i) =
              RefreshDependencies(CarryOrCreate(t, i, Proposed(r)), after)
      BY <1>5 DEF BuiltStep
    <2> QED
      BY <1>1, <1>3, <1>4, <2>1
  <1>6. CASE i.tool # "execute"
    <2>1. \E r : BuiltStep(t, ids, order, i) = CarryOrCreate(t, i, Proposed(r))
      BY <1>6 DEF BuiltStep
    <2> QED
      BY <1>1, <1>3, <2>1
  <1> QED
    BY <1>5, <1>6

LEMMA ScriptedTyped ==
    ASSUME NEW t, TypedTrusted(t)
    PROVE  TypedDraft(ScriptedDraft(t))
  <1> DEFINE built == BuiltDraft(t)
             choice == BuiltPriorities(t)
             recover == RecoverNow(choice)
             order == OrderByDependencies(Scored(t), recover)
             ids == BuiltCall(t) \cup {Execute(s) : s \in recover} \cup {Verify(s) : s \in recover}
             postponed == PostponedSteps(t, choice)
  <1>1. /\ built.steps = [i \in ids \cup DOMAIN postponed |->
                             IF i \in ids THEN BuiltStep(t, ids, order, i) ELSE postponed[i]]
        /\ built.assumed = t.usable
    BY DEF BuiltDraft
  <1> DEFINE listed == {i \in DOMAIN built.steps : built.steps[i].status # "postponed"}
  <1>2. /\ ScriptedDraft(t).steps =
             [i \in listed |-> IF i \in Carried(t) THEN t.steps[i]
                               ELSE [built.steps[i] EXCEPT !.status = "proposed"]]
        /\ ScriptedDraft(t).assumed = built.assumed
    BY DEF ScriptedDraft, BuiltDraft
  <1>3. ids \subseteq Identifiers
    BY OfIdentifiers DEF RecoverNow, BuiltCall
  <1>4. DOMAIN postponed \subseteq Identifiers
    BY OfIdentifiers DEF PostponedSteps
  <1>5. \A i \in DOMAIN postponed : IsStep(postponed[i])
    BY DEF PostponedSteps, IsStep, Proposed, Carried, TypedTrusted, TypedSteps
  <1> HIDE DEF ids, postponed, order, built
  <1>6. \A i \in DOMAIN built.steps : i \in Identifiers /\ IsStep(built.steps[i])
    BY <1>1, <1>3, <1>4, <1>5, BuiltStepIsStep
  <1>7. ASSUME NEW i \in listed
        PROVE  i \in Identifiers /\ IsStep(ScriptedDraft(t).steps[i])
    <2>1. \A r : IsStep(r) => IsStep([r EXCEPT !.status = "proposed"])
      BY DEF IsStep
    <2>2. i \in Carried(t) => IsStep(t.steps[i])
      BY DEF Carried, TypedTrusted, TypedSteps
    <2> QED
      BY <1>2, <1>6, <2>1, <2>2
  <1>8. DOMAIN ScriptedDraft(t).steps = listed
    BY <1>2
  <1> HIDE DEF listed
  <1>9. ScriptedDraft(t).assumed \in Int
    BY <1>1, <1>2 DEF TypedTrusted
  <1> QED
    BY <1>7, <1>8, <1>9 DEF TypedDraft, TypedSteps

-----------------------------------------------------------------------------
(* A plan that is accepted *)

IsPlan(theSteps) ==
    DOMAIN theSteps \subseteq Identifiers /\ \A i \in DOMAIN theSteps : theSteps[i] \in Step

Accepted(d, t) ==
    TypedSteps(d.steps) /\ TypedTrusted(t) /\ IsPlan(t.steps) /\ IsValid(d, t)

\* What running and completed steps become, and what else there is.
LEMMA AcceptedSteps ==
    ASSUME NEW d, NEW t, Accepted(d, t)
    PROVE  /\ IsPlan(Merged(d, t))
           /\ \A i \in Carried(t) : i \in DOMAIN Merged(d, t) /\ Merged(d, t)[i] = t.steps[i]
           /\ \A i \in DOMAIN Merged(d, t) \ Carried(t) :
                 /\ i \in DOMAIN d.steps /\ Merged(d, t)[i] = d.steps[i]
                 /\ Merged(d, t)[i].status \in {"proposed", "postponed"}
                 /\ ModelStepIsValid(d, t, i)
  <1> DEFINE m == Merged(d, t)
  <1>1. /\ \A i \in DOMAIN d.steps \cap Carried(t) : d.steps[i] = t.steps[i]
        /\ \A i \in DOMAIN d.steps \ Carried(t) : ModelStepIsValid(d, t, i)
        /\ DependenciesAreValid(m)
    BY DEF Accepted, IsValid
  <1>2. /\ DOMAIN m = DOMAIN d.steps \cup Carried(t)
        /\ \A i \in DOMAIN m : m[i] = IF i \in DOMAIN d.steps THEN d.steps[i] ELSE t.steps[i]
    BY DEF Merged
  <1> HIDE DEF m
  <1>3. Carried(t) \subseteq DOMAIN t.steps
    BY DEF Carried
  <1>4. DOMAIN m \subseteq Identifiers
    BY <1>2, <1>3 DEF Accepted, TypedSteps, IsPlan
  <1>5. \A i \in Carried(t) : i \in DOMAIN m /\ m[i] = t.steps[i]
    BY <1>1, <1>2
  <1>6. \A i \in DOMAIN m \ Carried(t) :
           /\ i \in DOMAIN d.steps /\ m[i] = d.steps[i]
           /\ m[i].status \in {"proposed", "postponed"} /\ ModelStepIsValid(d, t, i)
    BY <1>1, <1>2 DEF ModelStepIsValid
  <1>7. ASSUME NEW i \in DOMAIN m PROVE m[i] \in Step
    <2>1. CASE i \in Carried(t)
      BY <2>1, <1>3, <1>5 DEF Accepted, IsPlan
    <2>2. CASE i \notin Carried(t)
      <3>1. IsStep(m[i]) /\ m[i].status \in StepStatus
        BY <2>2, <1>6 DEF Accepted, TypedSteps, StepStatus
      <3>2. m[i].after \in SUBSET Identifiers
        BY <1>1, <1>4 DEF DependenciesAreValid
      <3> QED
        BY <3>1, <3>2 DEF IsStep, Step
    <2> QED
      BY <2>1, <2>2
  <1> QED
    BY <1>4, <1>5, <1>6, <1>7 DEF IsPlan, m

CanRunIn(theSteps, i) ==
    /\ theSteps[i].status = "proposed"
    /\ \A j \in theSteps[i].after : j \in DOMAIN theSteps /\ theSteps[j].status = "completed"

\* Among steps in an order there is a first proposed one.  If nothing is running, what it
\* depends on has completed.
LEMMA OrderedPlanStarts ==
    ASSUME NEW theSteps, IsFiniteSet(DOMAIN theSteps), DependenciesAreValid(theSteps),
           \A i \in DOMAIN theSteps :
               theSteps[i].status \in {"proposed", "postponed", "completed"},
           NEW work \in DOMAIN theSteps, theSteps[work].status = "proposed"
    PROVE  \E i \in DOMAIN theSteps : CanRunIn(theSteps, i)
  <1> SUFFICES ASSUME \A i \in DOMAIN theSteps : ~CanRunIn(theSteps, i) PROVE FALSE
    OBVIOUS
  <1> DEFINE D == DOMAIN theSteps
             Idle(s) == \A i \in s : theSteps[i].status # "proposed"
  <1>1. PICK f : Rounds(theSteps, f) /\ Sequenced(theSteps) = f[D]
    BY SequencedInRounds
  <1> DEFINE T == {s \in SUBSET D : Idle(f[s])}
  <1>2. ASSUME NEW done \in SUBSET D, Idle(done) PROVE Idle(Round(theSteps, done))
    <2> SUFFICES ASSUME NEW i \in D, theSteps[i].after \cap D \subseteq done,
                        theSteps[i].status = "proposed"
                 PROVE  FALSE
      BY <1>2 DEF Round
    <2>1. ASSUME NEW j \in theSteps[i].after
          PROVE  j \in D /\ theSteps[j].status = "completed"
      <3>1. j \in D /\ theSteps[j].status # "postponed"
        BY DEF DependenciesAreValid
      <3>2. theSteps[j].status # "proposed"
        BY <1>2, <3>1
      <3> QED
        BY <3>1, <3>2
    <2> QED
      BY <2>1 DEF CanRunIn
  <1>3. ASSUME NEW s \in SUBSET D, \A x \in s : s \ {x} \in T
        PROVE  s \in T
    <2>1. CASE s = {}
      BY <2>1, <1>1 DEF Rounds
    <2>2. CASE s # {}
      <3>1. PICK x \in s : f[s] = Round(theSteps, f[s \ {x}])
        BY <1>1, <2>2 DEF Rounds
      <3>2. f[s \ {x}] \in SUBSET D /\ Idle(f[s \ {x}])
        BY <1>1, <1>3 DEF Rounds
      <3>3. Idle(f[s])
        BY <3>1, <3>2, <1>2
      <3> QED
        BY <3>3
    <2> QED
      BY <2>1, <2>2
  <1>4. \A s \in SUBSET D : (\A x \in s : s \ {x} \in T) => s \in T
    BY <1>3
  <1> HIDE DEF T, D
  <1>5. IsFiniteSet(D)
    BY DEF D
  <1>6. SUBSET D \subseteq T
    BY <1>4, <1>5, SubsetInduction
  <1>7. Idle(f[D])
    BY <1>6 DEF T
  <1>8. work \in f[D]
    BY <1>1 DEF DependenciesAreValid, D
  <1> QED
    BY <1>7, <1>8

LEMMA AcceptedPlanStarts ==
    ASSUME NEW d, NEW t, Accepted(d, t),
           NEW work \in DOMAIN Merged(d, t), Merged(d, t)[work].status = "proposed"
    PROVE  \E i \in DOMAIN Merged(d, t) :
               Merged(d, t)[i].status = "running" \/ CanRunIn(Merged(d, t), i)
  <1> DEFINE m == Merged(d, t)
  <1>1. \A i \in DOMAIN m : m[i].status \in {"running", "completed", "proposed", "postponed"}
    BY AcceptedSteps DEF Carried
  <1>2. DependenciesAreValid(m)
    BY DEF Accepted, IsValid
  <1>3. IsFiniteSet(DOMAIN m)
    BY AcceptedSteps, ExecutesAreOfServices DEF IsPlan
  <1>4. work \in DOMAIN m /\ m[work].status = "proposed"
    OBVIOUS
  <1> HIDE DEF m
  <1>5. CASE \E i \in DOMAIN m : m[i].status = "running"
    BY <1>5 DEF m
  <1>6. CASE \A i \in DOMAIN m : m[i].status # "running"
    <2>1. \A i \in DOMAIN m : m[i].status \in {"proposed", "postponed", "completed"}
      BY <1>1, <1>6
    <2>2. \E i \in DOMAIN m : CanRunIn(m, i)
      BY <1>2, <1>3, <1>4, <2>1, OrderedPlanStarts
    <2> QED
      BY <2>2 DEF m
  <1> QED
    BY <1>5, <1>6

-----------------------------------------------------------------------------
(* The inductive invariant *)

StateTyped ==
    /\ IsPlan(steps) /\ steps = [i \in DOMAIN steps |-> steps[i]]
    /\ keys \in [Identifiers -> KeyStatus]
    /\ health \in [Services -> {"healthy", "degraded", "down", "recovering"}]
    /\ total \in Nat /\ confirmed \in BOOLEAN /\ insight \in Int /\ allocated \in Nat
    /\ breaks \in Nat /\ version \in Nat

FirstPlan == version = 0 => DOMAIN steps = {}

\* The tool call made of a step is the one the step shows, while it runs and for good.
KeysFollow ==
    /\ \A i \in DOMAIN steps : steps[i].status = "running" => keys[i] = "running"
    /\ \A i \in Identifiers :
          keys[i] \in {"running", "completed"} => i \in DOMAIN steps /\ steps[i].status = keys[i]

VerifiedWasRecovered ==
    \A v \in Verifies(DOMAIN steps) : steps[v].status = "completed" =>
        \E e \in Executes(DOMAIN steps) : e.service = v.service /\ steps[e].status = "completed"

\* A service that is healthy, and that nothing in the plan will touch.
AtRest(s) ==
    /\ health[s] = "healthy"
    /\ \A e \in Executes(DOMAIN steps) :
          e.service = s => steps[e].status \notin {"proposed", "running"}

RunningRecovers ==
    \A e \in Executes(DOMAIN steps) :
        steps[e].status = "running" => health[e.service] = "recovering"

\* What a recovery that waits depends on is at rest, or will be verified before it starts.
Prepared ==
    \A e \in Executes(DOMAIN steps) : steps[e].status = "proposed" =>
        \A s \in Dependencies[e.service] : AtRest(s) \/ Verify(s) \in steps[e].after

\* The same of every recovery that is not settled, while nothing breaks.
PrerequisitesHold ==
    \A e \in Executes(DOMAIN steps) :
        /\ steps[e].status = "running" =>
              /\ health[e.service] = "recovering"
              /\ \A s \in Dependencies[e.service] : AtRest(s)
        /\ steps[e].status = "completed" => health[e.service] = "healthy"
        /\ steps[e].status = "proposed" =>
              \A s \in Dependencies[e.service] : AtRest(s) \/ Verify(s) \in steps[e].after

Waiting == {e \in Executes(DOMAIN steps) : steps[e].status = "proposed"}

UnitsFit == allocated + UnitsOf(Waiting) <= total

PlanInv ==
    /\ StateTyped /\ FirstPlan
    /\ KeysFollow
    /\ OneRecoveryEach(steps)
    /\ VerifiedWasRecovered
    /\ breaks = 0 => PrerequisitesHold /\ UnitsFit

LEMMA ExecutesOf ==
    \A ids, i : i \in Executes(ids) <=> i \in ids /\ i.tool = "execute"
  BY DEF Executes

LEMMA WaitingSteps ==
    ASSUME StateTyped
    PROVE  StepsOfServices(Waiting)
  <1>1. Waiting \in SUBSET Executes(DOMAIN steps)
    BY DEF Waiting
  <1>2. StepsOfServices(Executes(DOMAIN steps))
    BY ExecutesAreOfServices DEF StateTyped, IsPlan
  <1> QED
    BY <1>1, <1>2, FS_Subset DEF StepsOfServices

LEMMA InvInit == Init => PlanInv
  <1> SUFFICES ASSUME Init PROVE PlanInv
    OBVIOUS
  <1>1. DOMAIN steps = {} /\ steps = [i \in DOMAIN steps |-> steps[i]]
    BY DEF Init, NoSteps
  <1>2. StateTyped
    <2>1. IsPlan(steps)
      BY <1>1 DEF IsPlan
    <2>2. keys \in [Identifiers -> KeyStatus]
      BY DEF Init, KeyStatus
    <2>3. health \in [Services -> {"healthy", "degraded", "down", "recovering"}]
      <3>1. health \in [Services -> {"healthy", "degraded", "down"}]
        BY PlanRevisionAssumption DEF Init
      <3> QED
        BY <3>1
    <2>4. total \in Nat /\ confirmed \in BOOLEAN /\ insight \in Int /\ allocated \in Nat
          /\ breaks \in Nat /\ version \in Nat
      <3>1. insight \in Int
        <4>1. NoAssumption \in Int /\ 0 \in Int
          BY DEF NoAssumption
        <4>2. insight \in {NoAssumption, 0}
          BY DEF Init
        <4> QED
          BY <4>1, <4>2
      <3>2. total \in Nat
        BY PlanRevisionAssumption DEF Init
      <3> QED
        BY <3>1, <3>2 DEF Init
    <2> QED
      BY <1>1, <2>1, <2>2, <2>3, <2>4 DEF StateTyped
  <1>3. KeysFollow
    BY <1>1 DEF Init, KeysFollow
  <1>4. Executes(DOMAIN steps) = {} /\ Verifies(DOMAIN steps) = {}
    BY <1>1 DEF Executes, Verifies
  <1>5. OneRecoveryEach(steps) /\ VerifiedWasRecovered /\ PrerequisitesHold
    BY <1>4 DEF OneRecoveryEach, VerifiedWasRecovered, PrerequisitesHold
  <1>6. UnitsFit
    <2>1. Waiting = {}
      BY <1>4 DEF Waiting
    <2>2. UnitsOf(Waiting) = 0
      BY <1>2, <2>1, WaitingSteps, UnitsUnfold
    <2> QED
      BY <1>2, <2>2 DEF UnitsFit, Init, StateTyped
  <1> QED
    BY <1>1, <1>2, <1>3, <1>5, <1>6 DEF PlanInv, FirstPlan

-----------------------------------------------------------------------------
(* Steps that change the status of one step of the plan *)

Becomes(i, status) == steps' = [steps EXCEPT ![i].status = status]

\* What such a step leaves as it is.
LEMMA BecomesIs ==
    ASSUME PlanInv, NEW i \in DOMAIN steps, NEW status \in StepStatus, Becomes(i, status),
           version' = version
    PROVE  /\ DOMAIN steps' = DOMAIN steps
           /\ IsPlan(steps)' /\ (steps = [j \in DOMAIN steps |-> steps[j]])'
           /\ \A j \in DOMAIN steps :
                 /\ steps'[j].after = steps[j].after
                 /\ steps'[j].status = IF j = i THEN status ELSE steps[j].status
           /\ OneRecoveryEach(steps)'
           /\ FirstPlan'
  <1>1. steps = [j \in DOMAIN steps |-> steps[j]] /\ IsPlan(steps)
    BY DEF PlanInv, StateTyped
  <1>2. DOMAIN steps' = DOMAIN steps /\ steps' = [j \in DOMAIN steps' |-> steps'[j]]
    BY <1>1 DEF Becomes
  <1>3. \A j \in DOMAIN steps :
           steps'[j] = IF j = i THEN [steps[j] EXCEPT !.status = status] ELSE steps[j]
    BY <1>1 DEF Becomes
  <1>4. \A j \in DOMAIN steps : steps[j] \in [status : StepStatus, after : SUBSET Identifiers]
    BY <1>1 DEF IsPlan, Step
  <1>5. \A j \in DOMAIN steps :
           /\ steps'[j].after = steps[j].after
           /\ steps'[j].status = IF j = i THEN status ELSE steps[j].status
    BY <1>3, <1>4
  <1>6. \A j \in DOMAIN steps : steps'[j] \in Step
    BY <1>3, <1>4 DEF Step
  <1>7. IsPlan(steps)'
    BY <1>1, <1>2, <1>6 DEF IsPlan
  <1>8. OneRecoveryEach(steps)'
    <2>1. OneRecoveryEach(steps)
      BY DEF PlanInv
    <2>2. \A v \in Verifies(DOMAIN steps) : steps'[v].after = steps[v].after
      BY <1>5 DEF Verifies
    <2> QED
      BY <1>2, <2>1, <2>2 DEF OneRecoveryEach
  <1>9. FirstPlan'
    BY <1>2 DEF PlanInv, FirstPlan
  <1> QED
    BY <1>2, <1>5, <1>7, <1>8, <1>9

VerifyFacts == \A s : Verify(s).tool = "verify" /\ Verify(s).service = s

LEMMA VerifyIs == VerifyFacts
  BY DEF VerifyFacts, Verify

\* What holds of the plan whoever changes the status of a step that is not settled: a
\* dispatch, a result, or a refusal, which makes no tool call.
StatusChange(i, status) ==
    /\ i \in DOMAIN steps /\ status \in {"running", "completed", "failed", "rejected"}
    /\ Becomes(i, status) /\ version' = version
    /\ steps[i].status \in {"proposed", "running"}
    /\ i.tool = "verify" => Runnable(i)
    /\ \/ keys' = [keys EXCEPT ![i] = status] /\ status # "rejected"
       \/ keys' = keys /\ status = "rejected" /\ steps[i].status = "proposed"

LEMMA StatusChangeIs ==
    ASSUME PlanInv, NEW i, NEW status, StatusChange(i, status)
    PROVE  /\ DOMAIN steps' = DOMAIN steps
           /\ IsPlan(steps)' /\ (steps = [j \in DOMAIN steps |-> steps[j]])'
           /\ \A j \in DOMAIN steps :
                 /\ steps'[j].after = steps[j].after
                 /\ steps'[j].status = IF j = i THEN status ELSE steps[j].status
           /\ OneRecoveryEach(steps)' /\ FirstPlan'
           /\ i \in DOMAIN steps
  <1>1. i \in DOMAIN steps /\ status \in StepStatus /\ Becomes(i, status) /\ version' = version
    BY DEF StatusChange, StepStatus
  <1> QED
    BY <1>1, BecomesIs

LEMMA KeysStillFollow ==
    ASSUME PlanInv, NEW i, NEW status, StatusChange(i, status)
    PROVE  keys' \in [Identifiers -> KeyStatus] /\ KeysFollow'
  <1>1. /\ DOMAIN steps' = DOMAIN steps /\ i \in DOMAIN steps
        /\ \A j \in DOMAIN steps : steps'[j].status = IF j = i THEN status ELSE steps[j].status
    BY StatusChangeIs
  <1>2. keys \in [Identifiers -> KeyStatus] /\ i \in Identifiers
    BY <1>1 DEF PlanInv, StateTyped, IsPlan
  <1>3. KeysFollow
    BY DEF PlanInv
  <1>4. CASE keys' = [keys EXCEPT ![i] = status] /\ status # "rejected"
    <2>1. status \in KeyStatus /\ status \in {"running", "completed", "failed"}
      BY <1>4 DEF StatusChange, KeyStatus
    <2>2. \A j \in Identifiers : keys'[j] = IF j = i THEN status ELSE keys[j]
      BY <1>2, <1>4
    <2>3. \A j \in DOMAIN steps : j \in Identifiers
      BY DEF PlanInv, StateTyped, IsPlan
    <2>4. keys' \in [Identifiers -> KeyStatus]
      BY <1>2, <1>4, <2>1
    <2>5. \A j \in DOMAIN steps : steps'[j].status = "running" => keys'[j] = "running"
      BY <1>1, <1>3, <2>2, <2>3 DEF KeysFollow
    <2>6. \A j \in Identifiers : keys'[j] \in {"running", "completed"} =>
              j \in DOMAIN steps /\ steps'[j].status = keys'[j]
      BY <1>1, <1>3, <2>2 DEF KeysFollow
    <2> QED
      BY <1>1, <2>4, <2>5, <2>6 DEF KeysFollow
  <1>5. CASE keys' = keys /\ status = "rejected" /\ steps[i].status = "proposed"
    BY <1>1, <1>2, <1>3, <1>5 DEF KeysFollow
  <1> QED
    BY <1>4, <1>5 DEF StatusChange

LEMMA VerifiedWasStillRecovered ==
    ASSUME PlanInv, NEW i, NEW status, StatusChange(i, status)
    PROVE  VerifiedWasRecovered'
  <1>1. /\ DOMAIN steps' = DOMAIN steps /\ i \in DOMAIN steps
        /\ \A j \in DOMAIN steps : steps'[j].status = IF j = i THEN status ELSE steps[j].status
    BY StatusChangeIs
  <1>2. SUFFICES ASSUME NEW v \in Verifies(DOMAIN steps), steps'[v].status = "completed"
                 PROVE  \E e \in Executes(DOMAIN steps) :
                            e.service = v.service /\ steps'[e].status = "completed"
    BY <1>1 DEF VerifiedWasRecovered
  <1>3. v \in DOMAIN steps /\ v.tool = "verify"
    BY DEF Verifies
  <1>4. CASE v = i
    <2>1. Runnable(i)
      BY <1>3, <1>4 DEF StatusChange
    <2>2. PICK e \in Executes(DOMAIN steps) : e.service = v.service /\ e \in steps[v].after
      BY DEF PlanInv, OneRecoveryEach
    <2>3. e.tool = "execute" /\ e # i
      BY <1>3, <1>4, ExecutesOf
    <2>4. steps[e].status = "completed"
      BY <1>4, <2>1, <2>2 DEF Runnable
    <2> QED
      BY <1>1, <2>2, <2>3, <2>4, ExecutesOf
  <1>5. CASE v # i
    <2>1. steps[v].status = "completed"
      BY <1>1, <1>2, <1>3, <1>5
    <2>2. PICK e \in Executes(DOMAIN steps) :
              e.service = v.service /\ steps[e].status = "completed"
      BY <2>1 DEF PlanInv, VerifiedWasRecovered
    <2>3. e # i /\ e \in DOMAIN steps
      BY <2>2, ExecutesOf DEF StatusChange
    <2> QED
      BY <1>1, <2>2, <2>3
  <1> QED
    BY <1>4, <1>5

\* The units a waiting recovery needs stay within the region when it stops waiting.
LEMMA UnitsStillFit ==
    ASSUME PlanInv, NEW i, NEW status, StatusChange(i, status), UnitsFit,
           total' = total, allocated' \in Nat,
           allocated' <= allocated + (IF i \in Waiting THEN Cost[i.service] ELSE 0)
    PROVE  UnitsFit'
  <1>1. /\ DOMAIN steps' = DOMAIN steps /\ i \in DOMAIN steps
        /\ \A j \in DOMAIN steps : steps'[j].status = IF j = i THEN status ELSE steps[j].status
    BY StatusChangeIs
  <1>2. Waiting' = Waiting \ {i}
    BY <1>1, ExecutesOf DEF Waiting, StatusChange
  <1>3. StepsOfServices(Waiting)
    BY WaitingSteps DEF PlanInv
  <1>4. allocated \in Nat /\ total \in Nat
    BY DEF PlanInv, StateTyped
  <1>5. UnitsFit' <=> allocated' + UnitsOf(Waiting \ {i}) <= total
    BY <1>2 DEF UnitsFit, UnitsOf, MapThenSumSet, MapThenFoldSet
  <1>6. CASE i \in Waiting
    <2>1. /\ UnitsOf(Waiting) \in Nat /\ UnitsOf(Waiting \ {i}) \in Nat /\ CostOf(i) \in Nat
          /\ UnitsOf(Waiting) = CostOf(i) + UnitsOf(Waiting \ {i})
      BY <1>3, <1>6, UnitsWithout
    <2> QED
      BY <1>4, <1>5, <1>6, <2>1 DEF UnitsFit, CostOf
  <1>7. CASE i \notin Waiting
    <2>1. Waiting \ {i} = Waiting /\ UnitsOf(Waiting) \in Nat
      BY <1>3, <1>7, UnitsUnfold
    <2>2. UnitsOf(Waiting \ {i}) = UnitsOf(Waiting)
      BY <2>1
    <2>3. allocated + UnitsOf(Waiting) <= total
      BY DEF UnitsFit
    <2>4. allocated' <= allocated
      BY <1>4, <1>7
    <2>5. allocated' + UnitsOf(Waiting \ {i}) <= total
      BY <1>4, <2>1, <2>2, <2>3, <2>4
    <2> QED
      BY <1>5, <2>5
  <1> QED
    BY <1>6, <1>7

\* A step that is no recovery, or a recovery that fails or is refused, disturbs none.
LEMMA OthersUndisturbed ==
    ASSUME PlanInv, NEW i, NEW status, StatusChange(i, status), PrerequisitesHold,
           health' = health, i.tool = "execute" => status \in {"failed", "rejected"}
    PROVE  PrerequisitesHold'
  <1>1. /\ DOMAIN steps' = DOMAIN steps /\ i \in DOMAIN steps
        /\ \A j \in DOMAIN steps :
              /\ steps'[j].after = steps[j].after
              /\ steps'[j].status = IF j = i THEN status ELSE steps[j].status
    BY StatusChangeIs
  <1>2. \A e \in Executes(DOMAIN steps) :
           /\ steps'[e].after = steps[e].after
           /\ steps'[e].status \in {steps[e].status, "failed", "rejected"}
    BY <1>1, ExecutesOf
  <1>3. \A s : AtRest(s) => AtRest(s)'
    BY <1>1, <1>2 DEF AtRest
  <1>4. ASSUME NEW e \in Executes(DOMAIN steps)
        PROVE  /\ steps'[e].status = "running" =>
                     /\ health'[e.service] = "recovering"
                     /\ \A s \in Dependencies[e.service] : AtRest(s)'
               /\ steps'[e].status = "completed" => health'[e.service] = "healthy"
               /\ steps'[e].status = "proposed" =>
                     \A s \in Dependencies[e.service] : AtRest(s)' \/ Verify(s) \in steps'[e].after
    <2>1. CASE steps'[e].status = steps[e].status
      BY <1>2, <1>3, <2>1 DEF PrerequisitesHold
    <2>2. CASE steps'[e].status \in {"failed", "rejected"}
      BY <2>2
    <2> QED
      BY <1>2, <2>1, <2>2
  <1>5. Executes(DOMAIN steps') = Executes(DOMAIN steps)
    BY <1>1
  <1> QED
    BY <1>4, <1>5 DEF PrerequisitesHold

\* The dependencies of a recovery that can run are at rest: what it waited for was verified,
\* and had been recovered.
LEMMA ReadyToRecover ==
    ASSUME PlanInv, PrerequisitesHold, NEW i \in Executes(DOMAIN steps), Runnable(i),
           NEW s \in Dependencies[i.service]
    PROVE  AtRest(s) /\ s # i.service
  <1>1. i \in DOMAIN steps /\ i.tool = "execute" /\ steps[i].status = "proposed"
    BY ExecutesOf DEF Runnable
  <1>2. AtRest(s)
    <2>1. CASE Verify(s) \in steps[i].after
      <3>1. Verify(s) \in DOMAIN steps /\ steps[Verify(s)].status = "completed"
        BY <2>1 DEF Runnable
      <3>2. Verify(s) \in Verifies(DOMAIN steps) /\ Verify(s).service = s
        BY <3>1, VerifyIs DEF VerifyFacts, Verifies
      <3>3. PICK e \in Executes(DOMAIN steps) : e.service = s /\ steps[e].status = "completed"
        BY <3>1, <3>2 DEF PlanInv, VerifiedWasRecovered
      <3>4. \A other \in Executes(DOMAIN steps) : other.service = s => other = e
        BY <3>3 DEF PlanInv, OneRecoveryEach
      <3>5. health[s] = "healthy"
        BY <3>3 DEF PrerequisitesHold
      <3> QED
        BY <3>3, <3>4, <3>5 DEF AtRest
    <2>2. CASE Verify(s) \notin steps[i].after
      BY <1>1, <2>2 DEF PrerequisitesHold
    <2> QED
      BY <2>1, <2>2
  <1> QED
    BY <1>1, <1>2 DEF AtRest

LEMMA RecoveryStarts ==
    ASSUME PlanInv, PrerequisitesHold, NEW i \in Executes(DOMAIN steps), Runnable(i),
           StatusChange(i, "running"), health' = [health EXCEPT ![i.service] = "recovering"]
    PROVE  PrerequisitesHold'
  <1>1. /\ DOMAIN steps' = DOMAIN steps
        /\ \A j \in DOMAIN steps :
              /\ steps'[j].after = steps[j].after
              /\ steps'[j].status = IF j = i THEN "running" ELSE steps[j].status
    BY StatusChangeIs
  <1>2. \A e \in Executes(DOMAIN steps) : e \in DOMAIN steps /\ e.service \in Services
    BY ExecutesOf, OfIdentifiers DEF PlanInv, StateTyped, IsPlan
  <1>3. /\ \A u \in Services : health'[u] = IF u = i.service THEN "recovering" ELSE health[u]
        /\ \A u \in Services : u = i.service => health'[u] = "recovering"
    BY DEF PlanInv, StateTyped
  <1>4. steps[i].status = "proposed"
    BY DEF Runnable
  <1>5. \A e \in Executes(DOMAIN steps) : e.service = i.service => e = i
    BY DEF PlanInv, OneRecoveryEach
  <1>6. \A u \in Services : AtRest(u) => AtRest(u)'
    <2> SUFFICES ASSUME NEW u \in Services, AtRest(u) PROVE AtRest(u)'
      OBVIOUS
    <2>1. u # i.service
      BY <1>4 DEF AtRest
    <2>2. \A e \in Executes(DOMAIN steps) :
             e.service = u => steps'[e].status \notin {"proposed", "running"}
      BY <1>1, <1>2, <2>1 DEF AtRest
    <2>3. health'[u] = "healthy"
      BY <1>3, <2>1 DEF AtRest
    <2> QED
      BY <1>1, <2>2, <2>3 DEF AtRest
  <1>7. \A e \in Executes(DOMAIN steps) : Dependencies[e.service] \subseteq Services
    BY <1>2, PlanRulesAssumption
  <1>8. ASSUME NEW e \in Executes(DOMAIN steps)
        PROVE  /\ steps'[e].status = "running" =>
                     /\ health'[e.service] = "recovering"
                     /\ \A s \in Dependencies[e.service] : AtRest(s)'
               /\ steps'[e].status = "completed" => health'[e.service] = "healthy"
               /\ steps'[e].status = "proposed" =>
                     \A s \in Dependencies[e.service] : AtRest(s)' \/ Verify(s) \in steps'[e].after
    <2>1. CASE e = i
      <3>1. steps'[e].status = "running" /\ health'[e.service] = "recovering"
        BY <1>1, <1>2, <1>3, <2>1
      <3>2. \A s \in Dependencies[e.service] : AtRest(s)'
        BY <1>6, <1>7, <2>1, ReadyToRecover
      <3> QED
        BY <3>1, <3>2
    <2>2. CASE e # i
      <3>1. /\ steps'[e].status = steps[e].status /\ steps'[e].after = steps[e].after
            /\ health'[e.service] = health[e.service]
        BY <1>1, <1>2, <1>3, <1>5, <2>2
      <3>2. \A s \in Dependencies[e.service] : AtRest(s) => AtRest(s)'
        BY <1>6, <1>7
      <3> QED
        BY <3>1, <3>2 DEF PrerequisitesHold
    <2> QED
      BY <2>1, <2>2
  <1>9. Executes(DOMAIN steps') = Executes(DOMAIN steps)
    BY <1>1
  <1> QED
    BY <1>8, <1>9 DEF PrerequisitesHold

LEMMA TwoOf ==
    ASSUME NEW m \in Int, NEW n \in Int
    PROVE  /\ Max({m, n}) \in {m, n} /\ Max({m, n}) >= m /\ Max({m, n}) >= n
           /\ Min({m, n}) \in {m, n} /\ Min({m, n}) <= m /\ Min({m, n}) <= n
  <1>1. {m} \cup {n} = {m, n}
    OBVIOUS
  <1>2. IsFiniteSet({m} \cup {n})
    BY FS_Singleton, FS_Union
  <1>3. IsFiniteSet({m, n}) /\ {m, n} \subseteq Int /\ {m, n} # {}
    BY <1>1, <1>2
  <1>4. /\ Max({m, n}) \in {m, n} /\ \A k \in {m, n} : Max({m, n}) >= k
        /\ Min({m, n}) \in {m, n} /\ \A k \in {m, n} : Min({m, n}) <= k
    BY <1>3, MaxPicks, MinPicks
  <1> QED
    BY <1>4

LEMMA NotNegative ==
    ASSUME NEW n \in Int
    PROVE  Max({0, n}) \in {0, n} /\ Max({0, n}) >= 0
  <1>1. 0 \in Int
    OBVIOUS
  <1> QED
    BY <1>1, TwoOf, Zenon

\* A change of one service leaves the others that are not degraded as they are.
LEMMA ChangedIs ==
    ASSUME StateTyped, NEW s \in Services, NEW status \in {"healthy", "degraded", "down"}
    PROVE  /\ Changed(s, status) \in [Services -> {"healthy", "degraded", "down", "recovering"}]
           /\ \A u \in Services \ {s} :
                 health[u] # "degraded" => Changed(s, status)[u] = health[u]
           /\ status = "healthy" => Changed(s, status)[s] = "healthy"
           /\ (\A d \in Dependencies[s] : d # s /\ health[d] = "healthy") =>
                 (status = "degraded" => Changed(s, status)[s] = "healthy")
  <1> DEFINE changed == [health EXCEPT ![s] = status]
  <1>1. /\ health \in [Services -> {"healthy", "degraded", "down", "recovering"}]
        /\ changed \in [Services -> {"healthy", "degraded", "down", "recovering"}]
        /\ \A u \in Services : changed[u] = IF u = s THEN status ELSE health[u]
    BY DEF StateTyped
  <1>2. Changed(s, status) =
          [u \in Services |->
              IF changed[u] = "degraded" /\ \A d \in Dependencies[u] : changed[d] = "healthy"
              THEN "healthy" ELSE changed[u]]
    BY DEF Changed
  <1>3. Dependencies[s] \subseteq Services
    BY PlanRulesAssumption
  <1> HIDE DEF changed
  <1>4. Changed(s, status) \in [Services -> {"healthy", "degraded", "down", "recovering"}]
    BY <1>1, <1>2
  <1>5. \A u \in Services \ {s} : health[u] # "degraded" => Changed(s, status)[u] = health[u]
    BY <1>1, <1>2
  <1>6. status = "healthy" => Changed(s, status)[s] = "healthy"
    BY <1>1, <1>2
  <1>7. ASSUME \A d \in Dependencies[s] : d # s /\ health[d] = "healthy", status = "degraded"
        PROVE  Changed(s, status)[s] = "healthy"
    <2>1. \A d \in Dependencies[s] : changed[d] = "healthy"
      BY <1>1, <1>3, <1>7
    <2> QED
      BY <1>1, <1>2, <1>7, <2>1
  <1> QED
    BY <1>4, <1>5, <1>6, <1>7

LEMMA RecoveryEnds ==
    ASSUME PlanInv, PrerequisitesHold, NEW i \in Executes(DOMAIN steps),
           steps[i].status = "running", NEW outcome \in {"healthy", "degraded", "down"},
           StatusChange(i, IF outcome = "down" THEN "failed" ELSE "completed"),
           health' = Changed(i.service, outcome)
    PROVE  PrerequisitesHold'
  <1> DEFINE status == IF outcome = "down" THEN "failed" ELSE "completed"
  <1>1. /\ DOMAIN steps' = DOMAIN steps
        /\ \A j \in DOMAIN steps :
              /\ steps'[j].after = steps[j].after
              /\ steps'[j].status = IF j = i THEN status ELSE steps[j].status
    BY StatusChangeIs
  <1>2. \A e \in Executes(DOMAIN steps) : e \in DOMAIN steps /\ e.service \in Services
    BY ExecutesOf, OfIdentifiers DEF PlanInv, StateTyped, IsPlan
  <1>3. \A e \in Executes(DOMAIN steps) : Dependencies[e.service] \subseteq Services
    BY <1>2, PlanRulesAssumption
  <1>4. health[i.service] = "recovering" /\ \A s \in Dependencies[i.service] : AtRest(s)
    BY DEF PrerequisitesHold
  <1>5. \A d \in Dependencies[i.service] : d # i.service /\ health[d] = "healthy"
    BY <1>4 DEF AtRest
  <1>6. /\ \A u \in Services \ {i.service} :
              health[u] # "degraded" => health'[u] = health[u]
        /\ outcome # "down" => health'[i.service] = "healthy"
    BY <1>2, <1>5, ChangedIs DEF PlanInv
  <1>7. \A e \in Executes(DOMAIN steps) : e.service = i.service => e = i
    BY DEF PlanInv, OneRecoveryEach
  <1>8. \A u \in Services : AtRest(u) => AtRest(u)'
    <2> SUFFICES ASSUME NEW u \in Services, AtRest(u) PROVE AtRest(u)'
      OBVIOUS
    <2>1. u # i.service /\ health[u] = "healthy"
      BY <1>4 DEF AtRest
    <2>2. \A e \in Executes(DOMAIN steps) :
             e.service = u => steps'[e].status \notin {"proposed", "running"}
      BY <1>1, <1>2, <2>1 DEF AtRest
    <2>3. health'[u] = "healthy"
      BY <1>6, <2>1
    <2> QED
      BY <1>1, <2>2, <2>3 DEF AtRest
  <1>9. ASSUME NEW e \in Executes(DOMAIN steps)
        PROVE  /\ steps'[e].status = "running" =>
                     /\ health'[e.service] = "recovering"
                     /\ \A s \in Dependencies[e.service] : AtRest(s)'
               /\ steps'[e].status = "completed" => health'[e.service] = "healthy"
               /\ steps'[e].status = "proposed" =>
                     \A s \in Dependencies[e.service] : AtRest(s)' \/ Verify(s) \in steps'[e].after
    <2>1. CASE e = i
      <3>1. steps'[e].status = status
        BY <1>1, <1>2, <2>1
      <3> QED
        BY <1>6, <2>1, <3>1
    <2>2. CASE e # i
      <3>1. /\ steps'[e].status = steps[e].status /\ steps'[e].after = steps[e].after
            /\ health[e.service] # "degraded" => health'[e.service] = health[e.service]
        BY <1>1, <1>2, <1>6, <1>7, <2>2
      <3>2. \A s \in Dependencies[e.service] : AtRest(s) => AtRest(s)'
        BY <1>3, <1>8
      <3> QED
        BY <3>1, <3>2 DEF PrerequisitesHold
    <2> QED
      BY <2>1, <2>2
  <1>10. Executes(DOMAIN steps') = Executes(DOMAIN steps)
    BY <1>1
  <1> QED
    BY <1>9, <1>10 DEF PrerequisitesHold

-----------------------------------------------------------------------------
(* The invariant is kept: dispatches and results *)

\* What is left to show of a change of status.
LEMMA InvAfterChange ==
    ASSUME PlanInv, NEW i, NEW status, StatusChange(i, status),
           UNCHANGED <<total, confirmed, insight, breaks>>, allocated' \in Nat,
           health' \in [Services -> {"healthy", "degraded", "down", "recovering"}],
           allocated' <= allocated + (IF i \in Waiting THEN Cost[i.service] ELSE 0),
           PrerequisitesHold => PrerequisitesHold'
    PROVE  PlanInv'
  <1>1. StateTyped'
    BY StatusChangeIs, KeysStillFollow DEF PlanInv, StateTyped, StatusChange
  <1>2. FirstPlan' /\ KeysFollow' /\ OneRecoveryEach(steps)' /\ VerifiedWasRecovered'
    BY StatusChangeIs, KeysStillFollow, VerifiedWasStillRecovered
  <1>3. ASSUME breaks = 0 PROVE PrerequisitesHold' /\ UnitsFit'
    <2>1. PrerequisitesHold /\ UnitsFit
      BY <1>3 DEF PlanInv
    <2> QED
      BY <2>1, UnitsStillFit
  <1>4. breaks' = breaks
    OBVIOUS
  <1> QED
    BY <1>1, <1>2, <1>3, <1>4 DEF PlanInv

LEMMA StatusesApart ==
    ASSUME PlanInv, NEW i \in DOMAIN steps
    PROVE  /\ i \in Identifiers /\ keys[i] \in KeyStatus
           /\ i.tool = "execute" =>
                 /\ i \in Executes(DOMAIN steps) /\ i.service \in Services
                 /\ Cost[i.service] \in Nat
           /\ allocated \in Nat /\ total \in Nat
           /\ health \in [Services -> {"healthy", "degraded", "down", "recovering"}]
  <1>1. i \in Identifiers /\ keys \in [Identifiers -> KeyStatus]
    BY DEF PlanInv, StateTyped, IsPlan
  <1>2. i.tool = "execute" => i \in Executes(DOMAIN steps) /\ i.service \in Services
    BY <1>1, ExecutesOf, OfIdentifiers
  <1> QED
    BY <1>1, <1>2, PlanRulesAssumption DEF PlanInv, StateTyped

\* The units of a recovery that waits are left.
LEMMA UnitsLeft ==
    ASSUME PlanInv, UnitsFit, NEW i \in Executes(DOMAIN steps), Runnable(i)
    PROVE  allocated + Cost[i.service] <= total
  <1>1. i \in Waiting
    BY DEF Waiting, Runnable
  <1>2. /\ UnitsOf(Waiting) \in Nat /\ UnitsOf(Waiting \ {i}) \in Nat /\ CostOf(i) \in Nat
        /\ UnitsOf(Waiting) = CostOf(i) + UnitsOf(Waiting \ {i})
    BY <1>1, WaitingSteps, UnitsWithout DEF PlanInv
  <1>3. allocated + CostOf(i) <= total
    BY <1>2 DEF UnitsFit, PlanInv, StateTyped
  <1> QED
    BY <1>3 DEF CostOf

\* While nothing broke, the dispatch of a recovery is refused by neither check.
LEMMA NotRefused ==
    ASSUME PlanInv, breaks = 0, NEW i \in Executes(DOMAIN steps), Runnable(i)
    PROVE  UnhealthyDependencies(Trusted, i.service) = {} /\ allocated + Cost[i.service] <= total
  <1>1. PrerequisitesHold /\ UnitsFit
    BY DEF PlanInv
  <1>2. \A s \in Dependencies[i.service] : health[s] = "healthy"
    BY <1>1, ReadyToRecover DEF AtRest
  <1>3. Trusted.health = health
    BY DEF Trusted
  <1>4. UnhealthyDependencies(Trusted, i.service) = {}
    BY <1>2, <1>3 DEF UnhealthyDependencies, Unhealthy
  <1> QED
    BY <1>1, <1>4, UnitsLeft

LEMMA ExecuteKeepsInv ==
    ASSUME PlanInv, NEW i \in DOMAIN steps, i.tool = "execute", Dispatch(i)
    PROVE  PlanInv'
  <1>1. /\ Runnable(i) /\ steps[i].status = "proposed" /\ DispatchExecute(i)
        /\ UNCHANGED <<total, confirmed, insight, version, breaks>>
    BY DEF Dispatch, Runnable
  <1>2. /\ i \in Executes(DOMAIN steps) /\ i.service \in Services /\ Cost[i.service] \in Nat
        /\ allocated \in Nat /\ total \in Nat
        /\ health \in [Services -> {"healthy", "degraded", "down", "recovering"}]
    BY StatusesApart
  <1>3. i \in Waiting
    BY <1>1, <1>2 DEF Waiting
  <1>4. CASE UnhealthyDependencies(Trusted, i.service) = {} /\ allocated + Cost[i.service] <= total
    <2>1. /\ Settle(i, "running") /\ allocated' = allocated + Cost[i.service]
          /\ health' = [health EXCEPT ![i.service] = "recovering"]
      BY <1>1, <1>4 DEF DispatchExecute
    <2>2. StatusChange(i, "running")
      BY <1>1, <2>1 DEF StatusChange, Settle, Becomes
    <2>3. PrerequisitesHold => PrerequisitesHold'
      BY <1>1, <1>2, <2>1, <2>2, RecoveryStarts
    <2>4. health' \in [Services -> {"healthy", "degraded", "down", "recovering"}]
      BY <1>2, <2>1
    <2>5. allocated' \in Nat
          /\ allocated' <= allocated + (IF i \in Waiting THEN Cost[i.service] ELSE 0)
      BY <1>2, <1>3, <2>1
    <2> QED
      BY <1>1, <2>2, <2>3, <2>4, <2>5, InvAfterChange
  <1>5. CASE ~(UnhealthyDependencies(Trusted, i.service) = {}
               /\ allocated + Cost[i.service] <= total)
    <2>1. Settle(i, "failed") /\ UNCHANGED <<allocated, health>>
      BY <1>1, <1>5 DEF DispatchExecute
    <2>2. StatusChange(i, "failed")
      BY <1>1, <2>1 DEF StatusChange, Settle, Becomes
    <2>3. PrerequisitesHold => PrerequisitesHold'
      BY <2>1, <2>2, OthersUndisturbed
    <2>4. allocated' \in Nat
          /\ allocated' <= allocated + (IF i \in Waiting THEN Cost[i.service] ELSE 0)
      BY <1>2, <2>1
    <2>5. health' \in [Services -> {"healthy", "degraded", "down", "recovering"}]
      BY <1>2, <2>1
    <2> QED
      BY <1>1, <2>2, <2>3, <2>4, <2>5, InvAfterChange
  <1> QED
    BY <1>4, <1>5

\* Nothing but the status of the step changes.
LEMMA OtherChangeKeepsInv ==
    ASSUME PlanInv, NEW i, NEW status, StatusChange(i, status),
           i.tool = "execute" => status \in {"failed", "rejected"},
           UNCHANGED <<health, total, confirmed, insight, allocated, breaks>>
    PROVE  PlanInv'
  <1>1. PrerequisitesHold => PrerequisitesHold'
    BY OthersUndisturbed
  <1>2. i \in DOMAIN steps
    BY DEF StatusChange
  <1>3. i \in Waiting => Cost[i.service] \in Nat
    BY <1>2, ExecutesOf, StatusesApart DEF Waiting
  <1>4. /\ allocated' \in Nat
        /\ allocated' <= allocated + (IF i \in Waiting THEN Cost[i.service] ELSE 0)
    BY <1>2, <1>3, StatusesApart
  <1>5. health' \in [Services -> {"healthy", "degraded", "down", "recovering"}]
    BY <1>2, StatusesApart
  <1> QED
    BY <1>1, <1>4, <1>5, InvAfterChange

LEMMA DispatchKeepsInv ==
    ASSUME PlanInv, NEW i \in DOMAIN steps, Dispatch(i)
    PROVE  PlanInv'
  <1>1. /\ Runnable(i) /\ steps[i].status = "proposed"
        /\ UNCHANGED <<total, confirmed, insight, version, breaks>>
    BY DEF Dispatch, Runnable
  <1>2. CASE i.tool = "execute"
    BY <1>2, ExecuteKeepsInv
  <1>3. CASE i.tool = "verify"
    <2>1. DispatchVerify(i)
      BY <1>3 DEF Dispatch
    <2> DEFINE status == IF health[i.service] \in {"healthy", "degraded"} THEN "completed" ELSE "failed"
    <2>2. Settle(i, status) /\ UNCHANGED <<allocated, health>> /\ status \in {"completed", "failed"}
      BY <2>1 DEF DispatchVerify
    <2> HIDE DEF status
    <2>3. StatusChange(i, status)
      BY <1>1, <2>2 DEF StatusChange, Settle, Becomes
    <2> QED
      BY <1>1, <1>3, <2>2, <2>3, OtherChangeKeepsInv
  <1>4. CASE i.tool # "execute" /\ i.tool # "verify"
    <2>1. Settle(i, "running") /\ UNCHANGED <<allocated, health>>
      BY <1>4 DEF Dispatch, DispatchCall
    <2>2. StatusChange(i, "running")
      BY <1>1, <1>4, <2>1 DEF StatusChange, Settle, Becomes
    <2> QED
      BY <1>1, <1>4, <2>1, <2>2, OtherChangeKeepsInv
  <1> QED
    BY <1>2, <1>3, <1>4

\* The tool call of a step that waits has failed, if there is one.
LEMMA UsedKeyFailed ==
    ASSUME PlanInv, NEW i \in DOMAIN steps, steps[i].status = "proposed", keys[i] # "unused"
    PROVE  keys[i] = "failed"
  <1>1. i \in Identifiers /\ keys[i] \in KeyStatus
    BY StatusesApart
  <1>2. keys[i] \in {"running", "completed"} => steps[i].status = keys[i]
    BY <1>1 DEF PlanInv, KeysFollow
  <1> QED
    BY <1>1, <1>2 DEF KeyStatus

LEMMA DispatchAgainKeepsInv ==
    ASSUME PlanInv, NEW i \in DOMAIN steps, DispatchAgain(i)
    PROVE  PlanInv'
  <1>1. /\ Runnable(i) /\ steps[i].status = "proposed" /\ keys[i] # "unused" /\ Settle(i, keys[i])
        /\ UNCHANGED <<health, total, confirmed, insight, allocated, version, breaks>>
    BY DEF DispatchAgain, Runnable, region
  <1>2. keys[i] = "failed"
    BY <1>1, UsedKeyFailed
  <1>3. StatusChange(i, "failed")
    BY <1>1, <1>2 DEF StatusChange, Settle, Becomes
  <1> QED
    BY <1>1, <1>3, OtherChangeKeepsInv

LEMMA RejectKeepsInv ==
    ASSUME PlanInv, NEW i \in DOMAIN steps, Reject(i)
    PROVE  PlanInv'
  <1>1. /\ Runnable(i) /\ steps[i].status = "proposed" /\ i.tool = "execute"
        /\ Becomes(i, "rejected") /\ keys' = keys
        /\ UNCHANGED <<health, total, confirmed, insight, allocated, version, breaks>>
    BY DEF Reject, Runnable, region, Becomes
  <1>2. StatusChange(i, "rejected")
    BY <1>1 DEF StatusChange
  <1> QED
    BY <1>1, <1>2, OtherChangeKeepsInv

LEMMA FinishCallKeepsInv ==
    ASSUME PlanInv, NEW answered \in BOOLEAN, FinishCall(answered)
    PROVE  PlanInv'
  <1> DEFINE status == IF answered THEN "completed" ELSE "failed"
  <1>1. /\ Call \in DOMAIN steps /\ steps[Call].status = "running" /\ Settle(Call, status)
        /\ UNCHANGED <<health, total, confirmed, insight, allocated, version, breaks>>
    BY DEF FinishCall, region
  <1>2. Call.tool = "call" /\ status \in {"completed", "failed"}
    BY DEF Call
  <1> HIDE DEF status
  <1>3. StatusChange(Call, status)
    BY <1>1, <1>2 DEF StatusChange, Settle, Becomes
  <1> QED
    BY <1>1, <1>2, <1>3, OtherChangeKeepsInv

LEMMA FinishKeepsInv ==
    ASSUME PlanInv, NEW i \in DOMAIN steps, NEW outcome \in {"healthy", "degraded", "down"},
           FinishExecute(i, outcome)
    PROVE  PlanInv'
  <1> DEFINE status == IF outcome = "down" THEN "failed" ELSE "completed"
  <1>1. /\ i.tool = "execute" /\ steps[i].status = "running" /\ Settle(i, status)
        /\ health' = Changed(i.service, outcome)
        /\ allocated' = IF outcome = "down" THEN Max({0, allocated - Cost[i.service]}) ELSE allocated
        /\ UNCHANGED <<total, confirmed, insight, version, breaks>>
    BY DEF FinishExecute
  <1>2. /\ i \in Executes(DOMAIN steps) /\ i.service \in Services /\ Cost[i.service] \in Nat
        /\ allocated \in Nat
    BY <1>1, StatusesApart
  <1>3. StatusChange(i, status)
    BY <1>1 DEF StatusChange, Settle, Becomes
  <1>4. PrerequisitesHold => PrerequisitesHold'
    BY <1>1, <1>2, <1>3, RecoveryEnds
  <1>5. health' \in [Services -> {"healthy", "degraded", "down", "recovering"}]
    BY <1>1, <1>2, ChangedIs DEF PlanInv
  <1>6. allocated' \in Nat /\ allocated' <= allocated
    <2> DEFINE left == allocated - Cost[i.service]
    <2>1. left \in Int /\ left <= allocated
      BY <1>2
    <2>2. allocated' \in {Max({0, left}), allocated}
      BY <1>1
    <2> HIDE DEF left
    <2>3. Max({0, left}) \in {0, left} /\ Max({0, left}) >= 0
      BY <2>1, NotNegative
    <2> QED
      BY <1>2, <2>1, <2>2, <2>3
  <1>7. i \notin Waiting
    BY <1>1 DEF Waiting
  <1>8. allocated' <= allocated + (IF i \in Waiting THEN Cost[i.service] ELSE 0)
    BY <1>2, <1>6, <1>7
  <1> HIDE DEF status
  <1> QED
    BY <1>1, <1>3, <1>4, <1>5, <1>6, <1>8, InvAfterChange

-----------------------------------------------------------------------------
(* The invariant is kept: events *)

LEMMA BreakKeepsInv ==
    ASSUME PlanInv, NEW s \in Services, NEW status \in {"degraded", "down"}, Break(s, status)
    PROVE  PlanInv'
  <1>1. /\ breaks' = breaks + 1 /\ health' = Changed(s, status)
        /\ UNCHANGED <<steps, keys, total, confirmed, insight, allocated, version>>
    BY DEF Break, plan, region
  <1>2. health' \in [Services -> {"healthy", "degraded", "down", "recovering"}]
    BY <1>1, ChangedIs DEF PlanInv
  <1>3. breaks' \in Nat /\ breaks' # 0
    BY <1>1 DEF PlanInv, StateTyped
  <1>4. StateTyped'
    BY <1>1, <1>2, <1>3 DEF PlanInv, StateTyped
  <1> QED
    BY <1>1, <1>3, <1>4 DEF PlanInv, FirstPlan, KeysFollow, VerifiedWasRecovered

LEMMA LimitKeepsInv ==
    ASSUME PlanInv, NEW capacity \in Totals, LimitCapacity(capacity)
    PROVE  PlanInv'
  <1>1. /\ breaks' = breaks + 1 /\ total' = capacity /\ confirmed' = TRUE
        /\ insight' = Learned(total, capacity)
        /\ UNCHANGED <<health, steps, keys, allocated, version>>
    BY DEF LimitCapacity, plan
  <1>2. capacity \in Nat /\ insight \in Int
    BY PlanRevisionAssumption DEF PlanInv, StateTyped
  <1>3. Learned(total, capacity) \in {insight, capacity, Min({insight, capacity})}
    BY DEF Learned
  <1>4. insight' \in Int
    <2>1. Min({insight, capacity}) \in {insight, capacity}
      BY <1>2, TwoOf
    <2> QED
      BY <1>1, <1>2, <1>3, <2>1
  <1>5. breaks' \in Nat /\ breaks' # 0
    BY <1>1 DEF PlanInv, StateTyped
  <1>6. StateTyped'
    BY <1>1, <1>2, <1>4, <1>5 DEF PlanInv, StateTyped
  <1> QED
    BY <1>1, <1>5, <1>6 DEF PlanInv, FirstPlan, KeysFollow, VerifiedWasRecovered

-----------------------------------------------------------------------------
(* The invariant is kept: new plans *)

LEMMA TrustedIs ==
    ASSUME StateTyped
    PROVE  /\ TypedTrusted(Trusted) /\ IsPlan(Trusted.steps)
           /\ Trusted.steps = steps /\ Trusted.health = health
           /\ Trusted.total = total /\ Trusted.allocated = allocated
  <1>1. /\ Trusted.steps = steps /\ Trusted.health = health
        /\ Trusted.total = total /\ Trusted.allocated = allocated
        /\ Trusted.usable = EffectiveCapacity(total, confirmed, Assumption)
    BY DEF Trusted
  <1>2. IsPlan(steps) /\ total \in Int /\ allocated \in Int /\ insight \in Int
    BY DEF StateTyped
  <1>3. Assumption \in Int
    BY <1>2 DEF Assumption, NoAssumption
  <1>4. EffectiveCapacity(total, confirmed, Assumption) \in {total, Min({total, Assumption})}
    BY DEF EffectiveCapacity
  <1>5. Trusted.usable \in Int
    BY <1>1, <1>2, <1>3, <1>4, TwoOf
  <1>6. TypedSteps(steps)
    BY <1>2 DEF IsPlan, TypedSteps, IsStep, Step
  <1> QED
    BY <1>1, <1>2, <1>5, <1>6 DEF TypedTrusted

LEMMA FirstPlanIsTheCall ==
    ASSUME PlanInv, OpenWithCall
    PROVE  /\ version = 0 /\ DOMAIN steps = {} /\ version' = version + 1
           /\ steps' = [i \in {Call} |-> Proposed({})]
           /\ UNCHANGED <<health, total, confirmed, insight, allocated, keys, breaks>>
  <1> DEFINE t == [Trusted EXCEPT !.steps = NoSteps]
             d == EngineerCallDraft(Trusted)
  <1>1. /\ version = 0 /\ version' = version + 1 /\ steps' = Merged(d, t)
        /\ UNCHANGED <<health, total, confirmed, insight, allocated, keys, breaks>>
    BY DEF OpenWithCall, Save, region
  <1>2. d.steps = [i \in {Call} |-> Proposed({})]
    BY DEF EngineerCallDraft
  <1>3. Carried(t) = {}
    BY DEF Carried, NoSteps, Trusted
  <1> HIDE DEF d, t
  <1>4. steps' = [i \in {Call} |-> Proposed({})]
    BY <1>1, <1>2, <1>3 DEF Merged
  <1> QED
    BY <1>1, <1>4 DEF PlanInv, FirstPlan

LEMMA OpenKeepsInv ==
    ASSUME PlanInv, OpenWithCall
    PROVE  PlanInv'
  <1>1. /\ version = 0 /\ DOMAIN steps = {} /\ version' = version + 1
        /\ steps' = [i \in {Call} |-> Proposed({})]
        /\ UNCHANGED <<health, total, confirmed, insight, allocated, keys, breaks>>
    BY FirstPlanIsTheCall
  <1>2. /\ DOMAIN steps' = {Call} /\ steps'[Call] = Proposed({})
        /\ steps' = [i \in DOMAIN steps' |-> steps'[i]]
    BY <1>1
  <1>3. IsPlan(steps)'
    <2>1. Proposed({}) \in Step
      BY DEF Proposed, Step, StepStatus
    <2>2. Call \in Identifiers
      BY OfIdentifiers
    <2> QED
      BY <1>2, <2>1, <2>2 DEF IsPlan
  <1>4. StateTyped'
    BY <1>1, <1>2, <1>3 DEF PlanInv, StateTyped
  <1>5. FirstPlan'
    BY <1>1 DEF PlanInv, StateTyped, FirstPlan
  <1>6. KeysFollow'
    <2>1. steps'[Call].status = "proposed"
      BY <1>2 DEF Proposed
    <2> QED
      BY <1>1, <1>2, <2>1 DEF PlanInv, KeysFollow
  <1>7. Executes(DOMAIN steps') = {} /\ Verifies(DOMAIN steps') = {}
    BY <1>2 DEF Executes, Verifies, Call
  <1>8. (OneRecoveryEach(steps) /\ VerifiedWasRecovered /\ PrerequisitesHold)'
    BY <1>7 DEF OneRecoveryEach, VerifiedWasRecovered, PrerequisitesHold
  <1>9. ASSUME breaks = 0 PROVE UnitsFit'
    <2>1. Waiting = {}
      BY <1>1 DEF Waiting, Executes
    <2>2. Waiting' = {}
      BY <1>7 DEF Waiting
    <2>3. UnitsFit' <=> allocated + UnitsOf(Waiting) <= total
      BY <1>1, <2>1, <2>2 DEF UnitsFit, UnitsOf, MapThenSumSet, MapThenFoldSet
    <2> QED
      BY <1>9, <2>3 DEF PlanInv, UnitsFit
  <1> QED
    BY <1>1, <1>4, <1>5, <1>6, <1>8, <1>9 DEF PlanInv

\* What a proposal saves is typed and accepted for the state it is made in.
LEMMA ProposalIs ==
    ASSUME PlanInv, ProposeModel \/ ProposeScripted
    PROVE  /\ \E d : /\ Accepted(d, Trusted) /\ d.assumed \in Int
                     /\ steps' = Merged(d, Trusted)
           /\ version' = version + 1
           /\ UNCHANGED <<health, total, confirmed, insight, allocated, keys, breaks>>
  <1>1. TypedTrusted(Trusted) /\ IsPlan(Trusted.steps)
    BY TrustedIs DEF PlanInv
  <1>2. \E drafts : /\ Propose(drafts)
                    /\ \A draft \in drafts : TypedDraft(draft)
    <2>1. CASE ProposeModel
      <3>1. \A draft \in ModelDrafts(Trusted) : TypedDraft(draft)
        BY <1>1, ModelDraftsTyped
      <3> QED
        BY <2>1, <3>1 DEF ProposeModel
    <2>2. CASE ProposeScripted
      <3>1. \A draft \in {ScriptedDraft(Trusted)} : TypedDraft(draft)
        BY <1>1, ScriptedTyped
      <3> QED
        BY <2>2, <3>1 DEF ProposeScripted
    <2> QED
      BY <2>1, <2>2
  <1>3. PICK drafts : Propose(drafts) /\ \A draft \in drafts : TypedDraft(draft)
    BY <1>2
  <1>4. PICK draft \in drafts : IsValid(Repair(draft, Trusted), Trusted)
                                /\ Save(Repair(draft, Trusted), Trusted)
    BY <1>3 DEF Propose
  <1>5. TypedDraft(draft)
    BY <1>3
  <1>6. TypedSteps(Repair(draft, Trusted).steps)
    BY <1>1, <1>5, RepairTyped
  <1>7. Repair(draft, Trusted).assumed = ResolvedAssumed(draft, Trusted)
    BY DEF Repair
  <1>8. Repair(draft, Trusted).assumed \in Int
    BY <1>1, <1>5, <1>7, ResolvedInt
  <1>9. steps' = Merged(Repair(draft, Trusted), Trusted) /\ version' = version + 1
    BY <1>4 DEF Save
  <1>10. UNCHANGED <<health, total, confirmed, insight, allocated, keys, breaks>>
    BY <1>3 DEF Propose, region
  <1> QED
    BY <1>1, <1>4, <1>6, <1>8, <1>9, <1>10 DEF Accepted

\* Of a service that is healthy, nothing new is executed, and nothing is that runs.
LEMMA StaysAtRest ==
    ASSUME PlanInv, RunningRecovers, NEW d, Accepted(d, Trusted),
           steps' = Merged(d, Trusted), health' = health, NEW s, health[s] = "healthy"
    PROVE  AtRest(s)'
  <1>1. /\ \A i \in Carried(Trusted) : i \in DOMAIN steps' /\ steps'[i] = Trusted.steps[i]
        /\ \A i \in DOMAIN steps' \ Carried(Trusted) : ModelStepIsValid(d, Trusted, i)
    BY AcceptedSteps
  <1>2. Trusted.steps = steps /\ Trusted.health = health
    BY TrustedIs DEF PlanInv
  <1>3. SUFFICES ASSUME NEW e \in Executes(DOMAIN steps'), e.service = s
                 PROVE  steps'[e].status \notin {"proposed", "running"}
    BY DEF AtRest
  <1>4. e \in DOMAIN steps' /\ e.tool = "execute"
    BY ExecutesOf
  <1>5. e \in Carried(Trusted)
    BY <1>1, <1>2, <1>3, <1>4 DEF ModelStepIsValid, ExecuteIsAllowed
  <1>6. /\ steps'[e] = steps[e] /\ steps[e].status \in {"running", "completed"}
        /\ e \in Executes(DOMAIN steps)
    BY <1>1, <1>2, <1>4, <1>5, ExecutesOf DEF Carried
  <1>7. steps[e].status # "running"
    BY <1>3, <1>6 DEF RunningRecovers
  <1> QED
    BY <1>6, <1>7

LEMMA NewlyPrepared ==
    ASSUME PlanInv, RunningRecovers, NEW d, Accepted(d, Trusted),
           steps' = Merged(d, Trusted), health' = health
    PROVE  Prepared'
  <1>1. /\ \A i \in Carried(Trusted) : i \in DOMAIN steps' /\ steps'[i] = Trusted.steps[i]
        /\ IsPlan(steps')
    BY AcceptedSteps
  <1>2. Trusted.steps = steps /\ Trusted.health = health
    BY TrustedIs DEF PlanInv
  <1>3. \A s : health[s] = "healthy" => AtRest(s)'
    BY StaysAtRest
  <1>4. SUFFICES ASSUME NEW e \in Executes(DOMAIN steps'), steps'[e].status = "proposed",
                        NEW s \in Dependencies[e.service]
                 PROVE  AtRest(s)' \/ Verify(s) \in steps'[e].after
    BY DEF Prepared
  <1>5. e \in DOMAIN steps' /\ e.tool = "execute" /\ e.service \in Services
    BY <1>1, ExecutesOf, OfIdentifiers DEF IsPlan
  <1>6. e \notin Carried(Trusted)
    BY <1>1, <1>4 DEF Carried
  <1>7. PrerequisitesAreRecovered(d, Trusted, steps', e)
    BY <1>6 DEF Accepted, IsValid, RecoveryIsValid
  <1>8. s \in Services
    BY <1>5, PlanRulesAssumption
  <1>9. CASE health[s] = "healthy"
    BY <1>3, <1>9
  <1>10. CASE health[s] # "healthy"
    <2>1. s \in UnhealthyDependencies(Trusted, e.service)
      BY <1>2, <1>8, <1>10 DEF UnhealthyDependencies, Unhealthy
    <2> QED
      BY <1>7, <2>1 DEF PrerequisitesAreRecovered
  <1> QED
    BY <1>9, <1>10

LEMMA NewPrerequisitesHold ==
    ASSUME PlanInv, PrerequisitesHold, NEW d, Accepted(d, Trusted),
           steps' = Merged(d, Trusted), health' = health
    PROVE  PrerequisitesHold'
  <1>1. /\ \A i \in Carried(Trusted) : i \in DOMAIN steps' /\ steps'[i] = Trusted.steps[i]
        /\ \A i \in DOMAIN steps' \ Carried(Trusted) :
              steps'[i].status \in {"proposed", "postponed"}
    BY AcceptedSteps
  <1>2. Trusted.steps = steps
    BY TrustedIs DEF PlanInv
  <1>3. RunningRecovers
    BY DEF PrerequisitesHold, RunningRecovers
  <1>4. Prepared' /\ \A s : AtRest(s) => AtRest(s)'
    BY <1>3, NewlyPrepared, StaysAtRest DEF AtRest
  <1>5. ASSUME NEW e \in Executes(DOMAIN steps'), steps'[e].status \in {"running", "completed"}
        PROVE  /\ e \in Executes(DOMAIN steps) /\ steps'[e] = steps[e]
    <2>1. e \in DOMAIN steps' /\ e.tool = "execute"
      BY ExecutesOf
    <2>2. e \in Carried(Trusted)
      BY <1>1, <1>5, <2>1
    <2> QED
      BY <1>1, <1>2, <2>1, <2>2, ExecutesOf DEF Carried
  <1>6. ASSUME NEW e \in Executes(DOMAIN steps')
        PROVE  /\ steps'[e].status = "running" =>
                     /\ health'[e.service] = "recovering"
                     /\ \A s \in Dependencies[e.service] : AtRest(s)'
               /\ steps'[e].status = "completed" => health'[e.service] = "healthy"
    BY <1>4, <1>5 DEF PrerequisitesHold
  <1> QED
    BY <1>4, <1>6 DEF PrerequisitesHold, Prepared

LEMMA FittingUnits ==
    ASSUME PlanInv, UnitsFit
    PROVE  allocated <= total
  <1>1. UnitsOf(Waiting) \in Nat
    BY WaitingSteps, UnitsUnfold DEF PlanInv
  <1> QED
    BY <1>1 DEF UnitsFit, PlanInv, StateTyped

LEMMA NewUnitsFit ==
    ASSUME PlanInv, allocated <= total, NEW d, Accepted(d, Trusted), d.assumed \in Int,
           steps' = Merged(d, Trusted), UNCHANGED <<total, allocated>>
    PROVE  UnitsFit'
  <1> DEFINE W == {e \in Executes(DOMAIN steps') : steps'[e].status = "proposed"}
  <1>1. /\ \A i \in Carried(Trusted) : i \in DOMAIN steps' /\ steps'[i] = Trusted.steps[i]
        /\ \A i \in DOMAIN steps' \ Carried(Trusted) :
              i \in DOMAIN d.steps /\ steps'[i] = d.steps[i]
        /\ IsPlan(steps')
    BY AcceptedSteps
  <1>2. \A i \in DOMAIN d.steps : i \in DOMAIN steps' /\ steps'[i] = d.steps[i]
    BY DEF Merged
  <1>3. \A i \in Carried(Trusted) : Trusted.steps[i].status # "proposed"
    BY DEF Carried
  <1>4. NothingReexecuted(d, Trusted) /\ UnitsAreValid(d, Trusted) /\ CapacityIsValid(d, Trusted)
    BY DEF Accepted, IsValid
  <1>5. W = {i \in Executes(DOMAIN d.steps) :
                d.steps[i].status = "proposed" /\ ~HasTrustedExecute(Trusted, i.service)}
    <2>1. \A i : i \in W <=> i \in DOMAIN steps' /\ i.tool = "execute" /\ steps'[i].status = "proposed"
      BY ExecutesOf
    <2>2. \A i : i \in W <=> i \in DOMAIN d.steps /\ i.tool = "execute" /\ d.steps[i].status = "proposed"
      BY <1>1, <1>2, <1>3, <2>1
    <2>3. \A i \in W : ~HasTrustedExecute(Trusted, i.service)
      BY <1>4, <2>2, ExecutesOf DEF NothingReexecuted
    <2> HIDE DEF W
    <2> QED
      BY <2>2, <2>3, ExecutesOf
  <1>6. W \in SUBSET Executes(DOMAIN steps')
    OBVIOUS
  <1>7. Waiting' = W
    BY DEF Waiting
  <1> HIDE DEF W
  <1>8. UnitsOf(W) = NewUnits(d, Trusted)
    BY <1>5 DEF NewUnits
  <1>9. StepsOfServices(W)
    <2>1. StepsOfServices(Executes(DOMAIN steps'))
      BY <1>1, ExecutesAreOfServices DEF IsPlan
    <2> QED
      BY <1>6, <2>1, FS_Subset DEF StepsOfServices
  <1>10. UnitsOf(W) \in Nat
    BY <1>9, UnitsUnfold
  <1>11. /\ Trusted.total = total /\ Trusted.allocated = allocated
         /\ total \in Nat /\ allocated \in Nat
    BY TrustedIs DEF PlanInv, StateTyped
  <1>12. d.assumed <= total
    BY <1>4, <1>11 DEF CapacityIsValid
  <1>13. UnitsOf(W) <= Max({0, d.assumed - allocated})
    BY <1>4, <1>8, <1>11 DEF UnitsAreValid
  <1>14. allocated + UnitsOf(W) <= total
    <2> DEFINE left == d.assumed - allocated
    <2>1. left \in Int /\ allocated + left <= total
      BY <1>11, <1>12
    <2>2. UnitsOf(W) <= Max({0, left})
      BY <1>13
    <2> HIDE DEF left
    <2>3. Max({0, left}) \in {0, left}
      BY <2>1, NotNegative
    <2> QED
      BY <1>10, <1>11, <2>1, <2>2, <2>3
  <1>15. UnitsFit' <=> allocated + UnitsOf(W) <= total
    BY <1>7 DEF UnitsFit, UnitsOf, MapThenSumSet, MapThenFoldSet
  <1> QED
    BY <1>14, <1>15

LEMMA ProposalKeepsInv ==
    ASSUME PlanInv, ProposeModel \/ ProposeScripted
    PROVE  PlanInv'
  <1>1. PICK d : /\ Accepted(d, Trusted) /\ d.assumed \in Int
                 /\ steps' = Merged(d, Trusted)
    BY ProposalIs
  <1>2. /\ version' = version + 1
        /\ UNCHANGED <<health, total, confirmed, insight, allocated, keys, breaks>>
    BY ProposalIs
  <1>3. /\ \A i \in Carried(Trusted) : i \in DOMAIN steps' /\ steps'[i] = Trusted.steps[i]
        /\ \A i \in DOMAIN steps' \ Carried(Trusted) :
              steps'[i].status \in {"proposed", "postponed"}
        /\ IsPlan(steps')
    BY <1>1, AcceptedSteps
  <1>4. Trusted.steps = steps
    BY TrustedIs DEF PlanInv
  <1>5. Carried(Trusted) = {i \in DOMAIN steps : steps[i].status \in {"running", "completed"}}
    BY <1>4 DEF Carried
  <1>6. \A i \in DOMAIN steps' : steps'[i].status \in {"running", "completed"} =>
           i \in DOMAIN steps /\ steps'[i] = steps[i]
    BY <1>3, <1>4, <1>5
  <1>7. \A i \in DOMAIN steps : steps[i].status \in {"running", "completed"} =>
           i \in DOMAIN steps' /\ steps'[i] = steps[i]
    BY <1>3, <1>4, <1>5
  <1>8. StateTyped'
    <2>1. steps' = [i \in DOMAIN steps' |-> steps'[i]]
      BY <1>1 DEF Merged
    <2>2. version' \in Nat
      BY <1>2 DEF PlanInv, StateTyped
    <2> QED
      BY <1>2, <1>3, <2>1, <2>2 DEF PlanInv, StateTyped
  <1>9. FirstPlan'
    BY <1>2 DEF PlanInv, StateTyped, FirstPlan
  <1>10. KeysFollow'
    <2>1. KeysFollow
      BY DEF PlanInv
    <2> QED
      BY <1>2, <1>6, <1>7, <2>1 DEF KeysFollow
  <1>11. OneRecoveryEach(steps)'
    BY <1>1 DEF Accepted, IsValid, RecoveryIsValid
  <1>12. VerifiedWasRecovered'
    <2> SUFFICES ASSUME NEW v \in Verifies(DOMAIN steps'), steps'[v].status = "completed"
                 PROVE  \E e \in Executes(DOMAIN steps') :
                            e.service = v.service /\ steps'[e].status = "completed"
      BY DEF VerifiedWasRecovered
    <2>1. v \in Verifies(DOMAIN steps) /\ steps[v].status = "completed"
      BY <1>6 DEF Verifies
    <2>2. PICK e \in Executes(DOMAIN steps) :
              e.service = v.service /\ steps[e].status = "completed"
      BY <2>1 DEF PlanInv, VerifiedWasRecovered
    <2>3. e \in Executes(DOMAIN steps') /\ steps'[e].status = "completed"
      BY <1>7, <2>2, ExecutesOf
    <2> QED
      BY <2>2, <2>3
  <1>13. ASSUME breaks = 0 PROVE PrerequisitesHold' /\ UnitsFit'
    <2>1. PrerequisitesHold /\ UnitsFit
      BY <1>13 DEF PlanInv
    <2> QED
      BY <1>1, <1>2, <2>1, NewPrerequisitesHold, FittingUnits, NewUnitsFit
  <1> QED
    BY <1>2, <1>8, <1>9, <1>10, <1>11, <1>12, <1>13 DEF PlanInv

LEMMA InvNext == PlanInv /\ [Next]_vars => PlanInv'
  <1> SUFFICES ASSUME PlanInv, [Next]_vars PROVE PlanInv'
    OBVIOUS
  <1>1. CASE OpenWithCall
    BY <1>1, OpenKeepsInv
  <1>2. CASE ProposeModel \/ ProposeScripted
    BY <1>2, ProposalKeepsInv
  <1>3. CASE \E i \in DOMAIN steps : Dispatch(i) \/ DispatchAgain(i) \/ Reject(i)
    BY <1>3, DispatchKeepsInv, DispatchAgainKeepsInv, RejectKeepsInv
  <1>4. CASE \E i \in DOMAIN steps, outcome \in {"healthy", "degraded", "down"} :
                 FinishExecute(i, outcome)
    BY <1>4, FinishKeepsInv
  <1>5. CASE \E answered \in BOOLEAN : FinishCall(answered)
    BY <1>5, FinishCallKeepsInv
  <1>6. CASE \E s \in Services, status \in {"degraded", "down"} : Break(s, status)
    BY <1>6, BreakKeepsInv
  <1>7. CASE \E capacity \in Totals : LimitCapacity(capacity)
    BY <1>7, LimitKeepsInv
  <1>8. CASE UNCHANGED vars
    <2>1. UNCHANGED <<health, total, confirmed, insight, allocated, steps, keys, version, breaks>>
      BY <1>8 DEF vars, plan, region
    <2>2. StateTyped' /\ FirstPlan' /\ KeysFollow' /\ OneRecoveryEach(steps)'
      BY <2>1 DEF PlanInv, StateTyped, FirstPlan, KeysFollow
    <2>3. VerifiedWasRecovered'
      BY <2>1 DEF PlanInv, VerifiedWasRecovered
    <2>4. PrerequisitesHold => PrerequisitesHold'
      BY <2>1 DEF PrerequisitesHold, AtRest
    <2>5. UnitsFit => UnitsFit'
      BY <2>1 DEF UnitsFit, Waiting, UnitsOf, MapThenSumSet, MapThenFoldSet
    <2> QED
      BY <2>1, <2>2, <2>3, <2>4, <2>5 DEF PlanInv
  <1> QED
    BY <1>1, <1>2, <1>3, <1>4, <1>5, <1>6, <1>7, <1>8 DEF Next

\* In every state of the recovery: the plan and its tool calls agree, a service has one
\* recovery and was recovered before it was verified, and, until something breaks, the
\* recoveries that wait have their prerequisites settled or waited for and fit, all
\* together, in the units the region has left.
THEOREM PlanInvHolds == Spec => []PlanInv
  <1> QED
    BY InvInit, InvNext, PTL DEF Spec

-----------------------------------------------------------------------------
(* What a revision keeps *)

\* Only a new plan has a new version.
LEMMA NewVersions ==
    ASSUME PlanInv, [Next]_vars, version' # version
    PROVE  OpenWithCall \/ ProposeModel \/ ProposeScripted
  <1>1. ASSUME NEW i \in DOMAIN steps, Dispatch(i) \/ DispatchAgain(i) \/ Reject(i)
        PROVE  version' = version
    BY <1>1 DEF Dispatch, DispatchAgain, Reject
  <1>2. ASSUME NEW i \in DOMAIN steps, NEW outcome \in {"healthy", "degraded", "down"},
               FinishExecute(i, outcome)
        PROVE  version' = version
    BY <1>2 DEF FinishExecute
  <1>3. ASSUME NEW answered \in BOOLEAN, FinishCall(answered) PROVE version' = version
    BY <1>3 DEF FinishCall
  <1>4. ASSUME NEW s \in Services, NEW status \in {"degraded", "down"}, Break(s, status)
        PROVE  version' = version
    BY <1>4 DEF Break, plan
  <1>5. ASSUME NEW capacity \in Totals, LimitCapacity(capacity) PROVE version' = version
    BY <1>5 DEF LimitCapacity, plan
  <1>6. ASSUME UNCHANGED vars PROVE version' = version
    BY <1>6 DEF vars, plan
  <1> QED
    BY <1>1, <1>2, <1>3, <1>4, <1>5, <1>6 DEF Next

LEMMA WorkIsCarriedStep ==
    ASSUME PlanInv, [Next]_vars, version' # version, NEW i \in DOMAIN steps,
           steps[i].status \in {"running", "completed"}
    PROVE  i \in DOMAIN steps' /\ steps'[i] = steps[i]
  <1>1. CASE OpenWithCall
    BY <1>1, FirstPlanIsTheCall
  <1>2. CASE ProposeModel \/ ProposeScripted
    <2>1. PICK d : Accepted(d, Trusted) /\ steps' = Merged(d, Trusted)
      BY <1>2, ProposalIs
    <2>2. Trusted.steps = steps
      BY TrustedIs DEF PlanInv
    <2>3. i \in Carried(Trusted)
      BY <2>2 DEF Carried
    <2> QED
      BY <2>1, <2>2, <2>3, AcceptedSteps
  <1> QED
    BY <1>1, <1>2, NewVersions

\* A revision keeps every running and completed step of propose_plan's previous plan as it
\* is, for any draft of those modelled that plan-repair.ts and plan-validation.ts let through.
THEOREM WorkIsCarriedHolds == Spec => WorkIsCarried
  <1>1. PlanInv /\ [Next]_vars =>
          [version' # version => \A i \in DOMAIN steps :
              steps[i].status \in {"running", "completed"} =>
                  i \in DOMAIN steps' /\ steps'[i] = steps[i]]_vars
    BY WorkIsCarriedStep
  <1> QED
    BY <1>1, PlanInvHolds, PTL DEF Spec, WorkIsCarried

LEMMA PlanCanStartStep ==
    ASSUME PlanInv, [Next]_vars, version' # version,
           NEW work \in DOMAIN steps', steps'[work].status = "proposed"
    PROVE  \E i \in DOMAIN steps' : steps'[i].status = "running" \/ CanRunIn(steps', i)
  <1>1. CASE OpenWithCall
    <2>1. steps' = [i \in {Call} |-> Proposed({})]
      BY <1>1, FirstPlanIsTheCall
    <2>2. CanRunIn(steps', Call) /\ Call \in DOMAIN steps'
      BY <2>1 DEF CanRunIn, Proposed
    <2> QED
      BY <2>2
  <1>2. CASE ProposeModel \/ ProposeScripted
    <2>1. PICK d : Accepted(d, Trusted) /\ steps' = Merged(d, Trusted)
      BY <1>2, ProposalIs
    <2> QED
      BY <2>1, AcceptedPlanStarts
  <1> QED
    BY <1>1, <1>2, NewVersions

\* A plan that is accepted with work left can be started: sequenceSteps ordered its steps,
\* and the first of them that is not done waits for none that is failed or postponed.
THEOREM PlanCanStartHolds == Spec => PlanCanStart
  <1>1. PlanInv /\ [Next]_vars =>
          [version' # version /\ (\E i \in DOMAIN steps' : steps'[i].status = "proposed")
             => \E i \in DOMAIN steps' : steps'[i].status = "running" \/ Runnable(i)']_vars
    <2>1. \A i : CanRunIn(steps', i) = Runnable(i)'
      BY DEF CanRunIn, Runnable
    <2> QED
      BY <2>1, PlanCanStartStep
  <1> QED
    BY <1>1, PlanInvHolds, PTL DEF Spec, PlanCanStart

-----------------------------------------------------------------------------
(* A recovery that was accepted *)

\* A verification that completed since the plan was accepted had passed its service.
Passed ==
    \A v \in Verifies(DOMAIN steps) : steps[v].status = "completed" =>
        v.service \in verified \/ health[v.service] \in {"healthy", "degraded"}

\* What holds of the latest plan while nothing changed since it was accepted, whatever
\* broke before.
SinceInv ==
    /\ RunningRecovers
    /\ allocated <= total
    /\ ~disturbed => UnitsFit /\ Prepared /\ Passed

LEMMA SinceInit == Init => SinceInv
  <1> SUFFICES ASSUME Init PROVE SinceInv
    OBVIOUS
  <1>1. DOMAIN steps = {}
    BY DEF Init, NoSteps
  <1>2. Executes(DOMAIN steps) = {} /\ Verifies(DOMAIN steps) = {}
    BY <1>1 DEF Executes, Verifies
  <1>3. RunningRecovers /\ Prepared /\ Passed
    BY <1>2 DEF RunningRecovers, Prepared, Passed
  <1>4. PlanInv /\ breaks = 0
    BY InvInit DEF Init
  <1>5. UnitsFit
    BY <1>4 DEF PlanInv
  <1> QED
    BY <1>3, <1>4, <1>5, FittingUnits DEF SinceInv

\* Only the service of a recovery that starts or ends changes for the worse.
HealthMoves(i) ==
    \A s \in Services :
        \/ health'[s] = health[s]
        \/ health[s] = "degraded" /\ health'[s] = "healthy"
        \/ i.tool = "execute" /\ i.service = s

LEMMA SinceAfterChange ==
    ASSUME PlanInv, SinceInv, NEW i, NEW status, StatusChange(i, status), HealthMoves(i),
           i.tool = "execute" /\ status = "running" => health'[i.service] = "recovering",
           i.tool = "verify" /\ status = "completed" => health[i.service] \in {"healthy", "degraded"},
           UNCHANGED <<total, verified, disturbed>>, allocated' \in Nat, allocated' <= total,
           allocated' <= allocated + (IF i \in Waiting THEN Cost[i.service] ELSE 0)
    PROVE  SinceInv'
  <1>1. /\ DOMAIN steps' = DOMAIN steps /\ i \in DOMAIN steps
        /\ \A j \in DOMAIN steps :
              /\ steps'[j].after = steps[j].after
              /\ steps'[j].status = IF j = i THEN status ELSE steps[j].status
    BY StatusChangeIs
  <1>2. /\ \A e \in Executes(DOMAIN steps) :
              e \in DOMAIN steps /\ e.tool = "execute" /\ e.service \in Services
        /\ \A v \in Verifies(DOMAIN steps) :
              v \in DOMAIN steps /\ v.tool = "verify" /\ v.service \in Services
    BY OfIdentifiers DEF Executes, Verifies, PlanInv, StateTyped, IsPlan
  <1>3. status # "proposed" /\ steps[i].status \in {"proposed", "running"}
    BY DEF StatusChange
  <1>4. \A e \in Executes(DOMAIN steps) :
           i.tool = "execute" /\ i.service = e.service => e = i
    BY <1>1, ExecutesOf DEF PlanInv, OneRecoveryEach
  <1>5. RunningRecovers'
    <2> SUFFICES ASSUME NEW e \in Executes(DOMAIN steps), steps'[e].status = "running"
                 PROVE  health'[e.service] = "recovering"
      BY <1>1 DEF RunningRecovers
    <2>1. CASE e = i
      BY <1>1, <1>2, <2>1
    <2>2. CASE e # i
      <3>1. health[e.service] = "recovering"
        BY <1>1, <1>2, <2>2 DEF SinceInv, RunningRecovers
      <3> QED
        BY <1>2, <1>4, <2>2, <3>1 DEF HealthMoves
    <2> QED
      BY <2>1, <2>2
  <1>6. ASSUME ~disturbed PROVE Prepared'
    <2>1. ASSUME NEW s \in Services, AtRest(s) PROVE AtRest(s)'
      <3>1. ~(i.tool = "execute" /\ i.service = s)
        BY <1>1, <1>3, <2>1, ExecutesOf DEF AtRest
      <3>2. health'[s] = "healthy"
        BY <2>1, <3>1 DEF HealthMoves, AtRest
      <3>3. \A e \in Executes(DOMAIN steps) :
               e.service = s => steps'[e].status \notin {"proposed", "running"}
        BY <1>1, <1>2, <2>1, <3>1 DEF AtRest
      <3> QED
        BY <1>1, <3>2, <3>3 DEF AtRest
    <2>2. ASSUME NEW e \in Executes(DOMAIN steps), steps'[e].status = "proposed",
                 NEW s \in Dependencies[e.service]
          PROVE  AtRest(s)' \/ Verify(s) \in steps'[e].after
      <3>1. /\ steps[e].status = "proposed" /\ steps'[e].after = steps[e].after
        BY <1>1, <1>2, <1>3, <2>2
      <3>2. s \in Services
        BY <1>2, PlanRulesAssumption
      <3>3. AtRest(s) \/ Verify(s) \in steps[e].after
        BY <1>6, <3>1 DEF SinceInv, Prepared
      <3> QED
        BY <2>1, <3>1, <3>2, <3>3
    <2> QED
      BY <1>1, <2>2 DEF Prepared
  <1>7. ASSUME ~disturbed PROVE Passed'
    <2> SUFFICES ASSUME NEW v \in Verifies(DOMAIN steps), steps'[v].status = "completed",
                        v.service \notin verified
                 PROVE  health'[v.service] \in {"healthy", "degraded"}
      BY <1>1 DEF Passed
    <2>1. health[v.service] \in {"healthy", "degraded"} /\ ~(i.tool = "execute" /\ i.service = v.service)
      <3>1. CASE v = i
        BY <1>1, <1>2, <3>1
      <3>2. CASE v # i
        <4>1. steps[v].status = "completed"
          BY <1>1, <1>2, <3>2
        <4>2. PICK e \in Executes(DOMAIN steps) :
                  e.service = v.service /\ steps[e].status = "completed"
          BY <4>1 DEF PlanInv, VerifiedWasRecovered
        <4>3. e # i
          BY <1>3, <4>2
        <4> QED
          BY <1>4, <1>7, <4>1, <4>2, <4>3 DEF SinceInv, Passed
      <3> QED
        BY <3>1, <3>2
    <2> QED
      BY <1>2, <2>1 DEF HealthMoves
  <1>8. ASSUME ~disturbed PROVE UnitsFit'
    BY <1>8, UnitsStillFit DEF SinceInv
  <1> QED
    BY <1>5, <1>6, <1>7, <1>8 DEF SinceInv

LEMMA DispatchKeepsSince ==
    ASSUME PlanInv, SinceInv, NEW i \in DOMAIN steps, Dispatch(i)
    PROVE  SinceInv'
  <1>1. /\ Runnable(i) /\ steps[i].status = "proposed" /\ UNCHANGED <<total, verified, disturbed, version>>
    BY DEF Dispatch, Runnable
  <1>2. /\ i \in Identifiers /\ allocated \in Nat /\ total \in Nat /\ allocated <= total
        /\ health \in [Services -> {"healthy", "degraded", "down", "recovering"}]
        /\ i \in Executes(DOMAIN steps) => i.service \in Services /\ Cost[i.service] \in Nat
    BY StatusesApart, ExecutesOf DEF SinceInv
  <1>3. i \in Waiting => Cost[i.service] \in Nat
    BY <1>2 DEF Waiting
  <1>4. CASE \/ i.tool # "execute"
             \/ ~(UnhealthyDependencies(Trusted, i.service) = {} /\ allocated + Cost[i.service] <= total)
    <2>1. \E status \in {"running", "completed", "failed"} :
             /\ Settle(i, status) /\ UNCHANGED <<allocated, health>>
             /\ i.tool = "execute" => status = "failed"
             /\ i.tool = "verify" /\ status = "completed" => health[i.service] \in {"healthy", "degraded"}
      <3>1. CASE i.tool = "execute"
        BY <1>4, <3>1 DEF Dispatch, DispatchExecute
      <3>2. CASE i.tool = "verify"
        BY <3>2 DEF Dispatch, DispatchVerify
      <3>3. CASE i.tool # "execute" /\ i.tool # "verify"
        BY <3>3 DEF Dispatch, DispatchCall
      <3> QED
        BY <3>1, <3>2, <3>3
    <2>2. PICK status \in {"running", "completed", "failed"} :
             /\ Settle(i, status) /\ UNCHANGED <<allocated, health>>
             /\ i.tool = "execute" => status = "failed"
             /\ i.tool = "verify" /\ status = "completed" => health[i.service] \in {"healthy", "degraded"}
      BY <2>1
    <2>3. StatusChange(i, status)
      BY <1>1, <2>2 DEF StatusChange, Settle, Becomes
    <2>4. HealthMoves(i)
      BY <2>2 DEF HealthMoves
    <2>5. /\ allocated' \in Nat /\ allocated' <= total
          /\ allocated' <= allocated + (IF i \in Waiting THEN Cost[i.service] ELSE 0)
      BY <1>2, <1>3, <2>2
    <2>6. i.tool = "execute" /\ status = "running" => health'[i.service] = "recovering"
      BY <2>2
    <2> QED
      BY <1>1, <2>2, <2>3, <2>4, <2>5, <2>6, SinceAfterChange
  <1>5. CASE /\ i.tool = "execute" /\ UnhealthyDependencies(Trusted, i.service) = {}
             /\ allocated + Cost[i.service] <= total
    <2>1. /\ Settle(i, "running") /\ allocated' = allocated + Cost[i.service]
          /\ health' = [health EXCEPT ![i.service] = "recovering"]
      BY <1>5 DEF Dispatch, DispatchExecute
    <2>2. i \in Waiting /\ i.service \in Services /\ Cost[i.service] \in Nat
      BY <1>1, <1>2, <1>5, ExecutesOf DEF Waiting
    <2>3. StatusChange(i, "running")
      BY <1>1, <1>5, <2>1 DEF StatusChange, Settle, Becomes
    <2>4. HealthMoves(i) /\ health'[i.service] = "recovering"
      BY <1>2, <1>5, <2>1, <2>2 DEF HealthMoves
    <2>5. /\ allocated' \in Nat /\ allocated' <= total
          /\ allocated' <= allocated + (IF i \in Waiting THEN Cost[i.service] ELSE 0)
      BY <1>2, <1>5, <2>1, <2>2
    <2> QED
      BY <1>1, <1>5, <2>3, <2>4, <2>5, SinceAfterChange
  <1> QED
    BY <1>4, <1>5

\* Steps that change no health and allocate nothing.
LEMMA OtherChangeKeepsSince ==
    ASSUME PlanInv, SinceInv, NEW i, NEW status, StatusChange(i, status),
           i.tool = "execute" => status # "running", i.tool = "verify" => status # "completed",
           UNCHANGED <<health, total, allocated, verified, disturbed>>
    PROVE  SinceInv'
  <1>1. HealthMoves(i)
    BY DEF HealthMoves
  <1>2. i \in DOMAIN steps
    BY DEF StatusChange
  <1>3. i \in Waiting => Cost[i.service] \in Nat
    BY <1>2, ExecutesOf, StatusesApart DEF Waiting
  <1>4. /\ allocated' \in Nat /\ allocated' <= total
        /\ allocated' <= allocated + (IF i \in Waiting THEN Cost[i.service] ELSE 0)
    BY <1>2, <1>3, StatusesApart DEF SinceInv
  <1> QED
    BY <1>1, <1>4, SinceAfterChange

LEMMA FinishKeepsSince ==
    ASSUME PlanInv, SinceInv, NEW i \in DOMAIN steps, NEW outcome \in {"healthy", "degraded", "down"},
           FinishExecute(i, outcome)
    PROVE  SinceInv'
  <1> DEFINE status == IF outcome = "down" THEN "failed" ELSE "completed"
  <1>1. /\ i.tool = "execute" /\ steps[i].status = "running" /\ Settle(i, status)
        /\ health' = Changed(i.service, outcome)
        /\ allocated' = IF outcome = "down" THEN Max({0, allocated - Cost[i.service]}) ELSE allocated
        /\ UNCHANGED <<total, version, verified, disturbed>>
    BY DEF FinishExecute
  <1>2. /\ i \in Executes(DOMAIN steps) /\ i.service \in Services /\ Cost[i.service] \in Nat
        /\ allocated \in Nat /\ total \in Nat /\ allocated <= total
        /\ health \in [Services -> {"healthy", "degraded", "down", "recovering"}]
    BY <1>1, StatusesApart DEF SinceInv
  <1>3. StatusChange(i, status)
    BY <1>1 DEF StatusChange, Settle, Becomes
  <1>4. HealthMoves(i)
    <2>1. ASSUME NEW u \in Services, u # i.service
          PROVE  health'[u] = health[u] \/ (health[u] = "degraded" /\ health'[u] = "healthy")
      BY <1>1, <1>2, <2>1 DEF Changed
    <2> QED
      BY <1>1, <2>1 DEF HealthMoves
  <1>5. allocated' \in Nat /\ allocated' <= allocated
    <2> DEFINE left == allocated - Cost[i.service]
    <2>1. left \in Int /\ left <= allocated
      BY <1>2
    <2>2. allocated' \in {Max({0, left}), allocated}
      BY <1>1
    <2> HIDE DEF left
    <2>3. Max({0, left}) \in {0, left} /\ Max({0, left}) >= 0
      BY <2>1, NotNegative
    <2> QED
      BY <1>2, <2>1, <2>2, <2>3
  <1>6. /\ allocated' \in Nat /\ allocated' <= total
        /\ allocated' <= allocated + (IF i \in Waiting THEN Cost[i.service] ELSE 0)
    BY <1>2, <1>5
  <1>7. status # "running"
    OBVIOUS
  <1> HIDE DEF status
  <1> QED
    BY <1>1, <1>3, <1>4, <1>6, <1>7, SinceAfterChange

\* A new plan is made for the health and the units it finds.
LEMMA ProposalKeepsSince ==
    ASSUME PlanInv, SinceInv, ProposeModel \/ ProposeScripted
    PROVE  SinceInv'
  <1>1. PICK d : /\ Accepted(d, Trusted) /\ d.assumed \in Int
                 /\ steps' = Merged(d, Trusted)
    BY ProposalIs
  <1>2. UNCHANGED <<health, total, allocated>>
    BY ProposalIs
  <1>3. Trusted.steps = steps
    BY TrustedIs DEF PlanInv
  <1>4. verified' = {s \in Services :
                        Verify(s) \in Carried(Trusted) /\ steps[Verify(s)].status = "completed"}
    BY <1>3 DEF ProposeModel, ProposeScripted, Propose, Save
  <1>5. /\ \A i \in Carried(Trusted) : i \in DOMAIN steps' /\ steps'[i] = steps[i]
        /\ \A i \in DOMAIN steps' \ Carried(Trusted) :
              steps'[i].status \in {"proposed", "postponed"}
        /\ IsPlan(steps')
    BY <1>1, <1>3, AcceptedSteps
  <1>6. Carried(Trusted) \subseteq DOMAIN steps
    BY <1>3 DEF Carried
  <1>7. RunningRecovers'
    <2> SUFFICES ASSUME NEW e \in Executes(DOMAIN steps'), steps'[e].status = "running"
                 PROVE  health'[e.service] = "recovering"
      BY DEF RunningRecovers
    <2>1. e \in Executes(DOMAIN steps) /\ steps[e].status = "running"
      BY <1>5, <1>6, ExecutesOf
    <2> QED
      BY <1>2, <2>1 DEF SinceInv, RunningRecovers
  <1>8. Prepared'
    BY <1>1, <1>2, NewlyPrepared DEF SinceInv
  <1>9. UnitsFit'
    BY <1>1, <1>2, NewUnitsFit DEF SinceInv
  <1>10. Passed'
    <2> SUFFICES ASSUME NEW v \in Verifies(DOMAIN steps'), steps'[v].status = "completed"
                 PROVE  v.service \in verified'
      BY DEF Passed
    <2>1. v \in DOMAIN steps' /\ v.tool = "verify" /\ v \in Identifiers
      BY <1>5 DEF Verifies, IsPlan
    <2>2. v \in Carried(Trusted) /\ steps[v].status = "completed"
      BY <1>5, <2>1
    <2>3. v.service \in Services /\ v = Verify(v.service)
      BY <2>1, OfIdentifiers
    <2> QED
      BY <1>4, <2>2, <2>3
  <1> QED
    BY <1>2, <1>7, <1>8, <1>9, <1>10 DEF SinceInv

LEMMA OpenKeepsSince ==
    ASSUME PlanInv, SinceInv, OpenWithCall
    PROVE  SinceInv'
  <1>1. /\ DOMAIN steps = {} /\ steps' = [i \in {Call} |-> Proposed({})]
        /\ UNCHANGED <<health, total, allocated>>
    BY FirstPlanIsTheCall
  <1>2. Executes(DOMAIN steps') = {} /\ Verifies(DOMAIN steps') = {}
    BY <1>1 DEF Executes, Verifies, Call
  <1>3. (RunningRecovers /\ Prepared /\ Passed)'
    BY <1>2 DEF RunningRecovers, Prepared, Passed
  <1>4. UnitsFit'
    <2>1. Waiting = {} /\ Waiting' = {}
      BY <1>1, <1>2 DEF Waiting, Executes
    <2>2. UnitsOf(Waiting) = 0
      BY <2>1, WaitingSteps, UnitsUnfold DEF PlanInv
    <2>3. UnitsFit' <=> allocated + UnitsOf(Waiting) <= total
      BY <1>1, <2>1 DEF UnitsFit, UnitsOf, MapThenSumSet, MapThenFoldSet
    <2> QED
      BY <2>2, <2>3 DEF SinceInv, PlanInv, StateTyped
  <1> QED
    BY <1>1, <1>3, <1>4 DEF SinceInv

LEMMA EventsKeepSince ==
    ASSUME PlanInv, SinceInv,
           \/ \E s \in Services, status \in {"degraded", "down"} : Break(s, status)
           \/ \E capacity \in Totals : LimitCapacity(capacity)
    PROVE  SinceInv'
  <1>1. disturbed' = TRUE /\ steps' = steps /\ allocated' = allocated
    BY DEF Break, LimitCapacity, plan, region
  <1>2. allocated' <= total'
    BY DEF Break, LimitCapacity, region, SinceInv
  <1>3. \A e \in Executes(DOMAIN steps) : e.service \in Services
    BY ExecutesOf, OfIdentifiers DEF PlanInv, StateTyped, IsPlan
  <1>4. \A u \in Services : health[u] = "recovering" => health'[u] = "recovering"
    <2>1. CASE \E s \in Services, status \in {"degraded", "down"} : Break(s, status)
      <3>1. PICK s \in Services, status \in {"degraded", "down"} : Break(s, status)
        BY <2>1
      <3>2. health[s] = "healthy" /\ health' = Changed(s, status)
        BY <3>1 DEF Break
      <3> QED
        BY <3>2, ChangedIs DEF PlanInv
    <2>2. CASE \E capacity \in Totals : LimitCapacity(capacity)
      BY <2>2 DEF LimitCapacity
    <2> QED
      BY <2>1, <2>2
  <1>5. RunningRecovers'
    BY <1>1, <1>3, <1>4 DEF SinceInv, RunningRecovers
  <1> QED
    BY <1>1, <1>2, <1>5 DEF SinceInv

LEMMA SinceNext == PlanInv /\ SinceInv /\ [Next]_vars => SinceInv'
  <1> SUFFICES ASSUME PlanInv, SinceInv, [Next]_vars PROVE SinceInv'
    OBVIOUS
  <1>1. CASE OpenWithCall
    BY <1>1, OpenKeepsSince
  <1>2. CASE ProposeModel \/ ProposeScripted
    BY <1>2, ProposalKeepsSince
  <1>3. ASSUME NEW i \in DOMAIN steps, DispatchAgain(i) PROVE SinceInv'
    <2>1. /\ Runnable(i) /\ steps[i].status = "proposed" /\ keys[i] # "unused" /\ Settle(i, keys[i])
          /\ UNCHANGED <<health, total, allocated, version, verified, disturbed>>
      BY <1>3 DEF DispatchAgain, Runnable, region
    <2>2. keys[i] = "failed"
      BY <2>1, UsedKeyFailed
    <2>3. StatusChange(i, "failed")
      BY <2>1, <2>2 DEF StatusChange, Settle, Becomes
    <2> QED
      BY <2>1, <2>3, OtherChangeKeepsSince
  <1>4. ASSUME NEW i \in DOMAIN steps, Reject(i) PROVE SinceInv'
    <2>1. /\ Runnable(i) /\ steps[i].status = "proposed" /\ i.tool = "execute"
          /\ Becomes(i, "rejected") /\ keys' = keys
          /\ UNCHANGED <<health, total, allocated, version, verified, disturbed>>
      BY <1>4 DEF Reject, Runnable, region, Becomes
    <2>2. StatusChange(i, "rejected")
      BY <2>1 DEF StatusChange
    <2> QED
      BY <2>1, <2>2, OtherChangeKeepsSince
  <1>5. ASSUME NEW answered \in BOOLEAN, FinishCall(answered) PROVE SinceInv'
    <2> DEFINE status == IF answered THEN "completed" ELSE "failed"
    <2>1. /\ Call \in DOMAIN steps /\ steps[Call].status = "running" /\ Settle(Call, status)
          /\ UNCHANGED <<health, total, allocated, version, verified, disturbed>>
      BY <1>5 DEF FinishCall, region
    <2>2. Call.tool = "call" /\ status \in {"completed", "failed"}
      BY DEF Call
    <2> HIDE DEF status
    <2>3. StatusChange(Call, status)
      BY <2>1, <2>2 DEF StatusChange, Settle, Becomes
    <2> QED
      BY <2>1, <2>2, <2>3, OtherChangeKeepsSince
  <1>6. ASSUME UNCHANGED vars PROVE SinceInv'
    <2>1. UNCHANGED <<health, total, allocated, steps, verified, disturbed>>
      BY <1>6 DEF vars, plan, region
    <2>2. RunningRecovers' /\ (Passed => Passed')
      BY <2>1 DEF RunningRecovers, SinceInv, Passed
    <2>3. Prepared => Prepared'
      BY <2>1 DEF Prepared, AtRest
    <2>4. UnitsFit => UnitsFit'
      BY <2>1 DEF UnitsFit, Waiting, UnitsOf, MapThenSumSet, MapThenFoldSet
    <2> QED
      BY <2>1, <2>2, <2>3, <2>4 DEF SinceInv
  <1> QED
    BY <1>1, <1>2, <1>3, <1>4, <1>5, <1>6, DispatchKeepsSince, FinishKeepsSince, EventsKeepSince
       DEF Next

\* What refuses a recovery that was prepared.
LEMMA RefusedForOneReason ==
    ASSUME PlanInv, SinceInv, ~disturbed, NEW i \in Executes(DOMAIN steps), Runnable(i),
           ~(UnhealthyDependencies(Trusted, i.service) = {} /\ allocated + Cost[i.service] <= total)
    PROVE  \E s \in Dependencies[i.service] : VerifiedInVain(s) /\ Verify(s) \in steps[i].after
  <1>1. UnitsFit /\ Prepared /\ Passed
    BY DEF SinceInv
  <1>2. allocated + Cost[i.service] <= total
    BY <1>1, UnitsLeft
  <1>3. PICK s \in UnhealthyDependencies(Trusted, i.service) : TRUE
    BY <1>2
  <1>4. Trusted.health = health
    BY DEF Trusted
  <1>5. s \in Dependencies[i.service] /\ health[s] # "healthy"
    BY <1>4 DEF UnhealthyDependencies, Unhealthy
  <1>6. Verify(s) \in steps[i].after
    BY <1>1, <1>5 DEF Prepared, AtRest, Runnable
  <1>7. Verify(s) \in DOMAIN steps /\ steps[Verify(s)].status = "completed"
    BY <1>6 DEF Runnable
  <1>8. s \in verified \/ health[s] = "degraded"
    <2>1. Verify(s) \in Verifies(DOMAIN steps) /\ Verify(s).service = s
      BY <1>7, VerifyIs DEF VerifyFacts, Verifies
    <2> QED
      BY <1>1, <1>5, <1>7, <2>1 DEF Passed
  <1> QED
    BY <1>5, <1>6, <1>7, <1>8 DEF VerifiedInVain

LEMMA RefusalIsDispatch ==
    ASSUME PlanInv, [Next]_vars, NEW i \in DOMAIN steps, i.tool = "execute",
           keys[i] = "unused", keys'[i] = "failed"
    PROVE  /\ Runnable(i) /\ i \in Executes(DOMAIN steps)
           /\ ~(UnhealthyDependencies(Trusted, i.service) = {} /\ allocated + Cost[i.service] <= total)
  <1> SUFFICES ASSUME ~(/\ Runnable(i)
                        /\ ~(/\ UnhealthyDependencies(Trusted, i.service) = {}
                             /\ allocated + Cost[i.service] <= total))
               PROVE  FALSE
    BY ExecutesOf
  <1>0. /\ i \in Identifiers /\ i \in Executes(DOMAIN steps)
        /\ keys \in [Identifiers -> KeyStatus] /\ DOMAIN steps \subseteq Identifiers
    BY StatusesApart DEF PlanInv, StateTyped, IsPlan
  <1>1. ASSUME NEW j \in DOMAIN steps, NEW status, Settle(j, status), j # i
        PROVE  FALSE
    BY <1>0, <1>1 DEF Settle
  <1>2. CASE keys' = keys
    BY <1>2
  <1>3. CASE OpenWithCall
    BY <1>2, <1>3 DEF OpenWithCall
  <1>4. CASE ProposeModel \/ ProposeScripted
    BY <1>2, <1>4, ProposalIs
  <1>5. ASSUME NEW j \in DOMAIN steps, Dispatch(j) PROVE FALSE
    <2>1. \E status : Settle(j, status)
      BY <1>5 DEF Dispatch, DispatchExecute, DispatchVerify, DispatchCall
    <2>2. j = i
      BY <1>1, <2>1
    <2>3. Runnable(i) /\ DispatchExecute(i)
      BY <1>5, <2>2 DEF Dispatch
    <2>4. Settle(i, "running")
      BY <2>3 DEF DispatchExecute
    <2> QED
      BY <1>0, <2>4 DEF Settle
  <1>6. ASSUME NEW j \in DOMAIN steps, DispatchAgain(j) PROVE FALSE
    BY <1>1, <1>6 DEF DispatchAgain
  <1>7. ASSUME NEW j \in DOMAIN steps, Reject(j) PROVE FALSE
    BY <1>2, <1>7 DEF Reject
  <1>8. ASSUME NEW j \in DOMAIN steps, NEW outcome \in {"healthy", "degraded", "down"},
               FinishExecute(j, outcome)
        PROVE  FALSE
    <2>1. keys[j] = "running"
      BY <1>8 DEF FinishExecute, PlanInv, KeysFollow
    <2>2. \E status : Settle(j, status)
      BY <1>8 DEF FinishExecute
    <2> QED
      BY <1>1, <2>1, <2>2
  <1>9. ASSUME NEW answered \in BOOLEAN, FinishCall(answered) PROVE FALSE
    <2>1. Call \in DOMAIN steps /\ \E status : Settle(Call, status)
      BY <1>9 DEF FinishCall
    <2>2. Call # i
      BY DEF Call
    <2> QED
      BY <1>1, <2>1, <2>2
  <1>10. ASSUME NEW s \in Services, NEW status \in {"degraded", "down"}, Break(s, status)
         PROVE  FALSE
    BY <1>2, <1>10 DEF Break
  <1>11. ASSUME NEW capacity \in Totals, LimitCapacity(capacity) PROVE FALSE
    BY <1>2, <1>11 DEF LimitCapacity
  <1>12. CASE UNCHANGED vars
    BY <1>2, <1>12 DEF vars
  <1> QED
    BY <1>3, <1>4, <1>5, <1>6, <1>7, <1>8, <1>9, <1>10, <1>11, <1>12 DEF Next

LEMMA RefusalStep ==
    ASSUME PlanInv, SinceInv, [Next]_vars, NEW i \in DOMAIN steps, i.tool = "execute",
           keys[i] = "unused", keys'[i] = "failed"
    PROVE  /\ breaks > 0
           /\ disturbed \/ \E s \in Dependencies[i.service] :
                            VerifiedInVain(s) /\ Verify(s) \in steps[i].after
  <1>1. /\ Runnable(i) /\ i \in Executes(DOMAIN steps)
        /\ ~(UnhealthyDependencies(Trusted, i.service) = {} /\ allocated + Cost[i.service] <= total)
    BY RefusalIsDispatch
  <1>2. breaks # 0 /\ breaks \in Nat
    BY <1>1, NotRefused DEF PlanInv, StateTyped
  <1> QED
    BY <1>1, <1>2, RefusedForOneReason

\* While nothing broke, the recoveries of an accepted plan are not refused when
\* RecoveryService.execute checks them again at their dispatch, in whatever order.  After
\* that, and for as long as nothing changes since the plan was accepted, one is refused only
\* for a prerequisite whose completed verification the plan found, or that passed as degraded.
THEOREM AcceptedRecoveryRunsHolds == Spec => AcceptedRecoveryRuns
  <1>1. SinceInv /\ PlanInv /\ [Next]_vars =>
          [\A i \in DOMAIN steps :
              i.tool = "execute" /\ keys[i] = "unused" /\ keys'[i] = "failed" =>
                  /\ breaks > 0
                  /\ disturbed \/ \E s \in Dependencies[i.service] :
                                   VerifiedInVain(s) /\ Verify(s) \in steps[i].after]_vars
    BY RefusalStep
  <1>2. Spec => []SinceInv
    BY SinceInit, SinceNext, PlanInvHolds, PTL DEF Spec
  <1> QED
    BY <1>1, <1>2, PlanInvHolds, PTL DEF Spec, AcceptedRecoveryRuns

-----------------------------------------------------------------------------
(* The order of the companies *)

\* In an order that decides between any two of a finite set, each has a place of its own,
\* further on than those before it, and every place is taken.
Orders(R, S) ==
    /\ \A c \in S : <<c, c>> \notin R
    /\ \A c, d \in S : c # d => <<c, d>> \in R \/ <<d, c>> \in R
    /\ \A b, c, d \in S : <<b, c>> \in R /\ <<c, d>> \in R => <<b, d>> \in R

PlaceIn(R, S, c) == 1 + Cardinality({d \in S : <<d, c>> \in R})

LEMMA PlacesGrow ==
    ASSUME NEW S, IsFiniteSet(S), NEW R, Orders(R, S), NEW c \in S, NEW d \in S, <<c, d>> \in R
    PROVE  PlaceIn(R, S, c) < PlaceIn(R, S, d)
  <1> DEFINE C == {b \in S : <<b, c>> \in R}
             D == {b \in S : <<b, d>> \in R}
  <1>1. C \in SUBSET D /\ D \in SUBSET S /\ c \in D /\ c \notin C
    BY DEF Orders
  <1>2. PlaceIn(R, S, c) = 1 + Cardinality(C) /\ PlaceIn(R, S, d) = 1 + Cardinality(D)
    BY DEF PlaceIn
  <1> HIDE DEF C, D
  <1>3. IsFiniteSet(D) /\ Cardinality(D) \in Nat
    BY <1>1, FS_Subset, FS_CardinalityType
  <1>4. Cardinality(C) <= Cardinality(D) /\ Cardinality(C) # Cardinality(D) /\ IsFiniteSet(C)
    BY <1>1, <1>3, FS_Subset
  <1>5. Cardinality(C) \in Nat
    BY <1>4, FS_CardinalityType
  <1> QED
    BY <1>2, <1>3, <1>4, <1>5

LEMMA PlacesTaken ==
    ASSUME NEW S, IsFiniteSet(S), NEW R, Orders(R, S), NEW n \in 1..Cardinality(S)
    PROVE  \E c \in S : PlaceIn(R, S, c) = n
  <1> DEFINE N == 1..Cardinality(S)
             place == [c \in S |-> PlaceIn(R, S, c)]
  <1>1. Cardinality(S) \in Nat
    BY FS_CardinalityType
  <1>2. IsFiniteSet(N) /\ Cardinality(N) = Cardinality(S)
    BY <1>1, FS_Interval
  <1>3. ASSUME NEW c \in S PROVE PlaceIn(R, S, c) \in N
    <2> DEFINE C == {b \in S : <<b, c>> \in R}
    <2>1. C \in SUBSET (S \ {c}) /\ S \ {c} \in SUBSET S
      BY DEF Orders
    <2>2. PlaceIn(R, S, c) = 1 + Cardinality(C)
      BY DEF PlaceIn
    <2> HIDE DEF C
    <2>3. IsFiniteSet(S \ {c}) /\ Cardinality(S \ {c}) = Cardinality(S) - 1
      BY FS_RemoveElement
    <2>4. IsFiniteSet(C) /\ Cardinality(C) <= Cardinality(S \ {c})
      BY <2>1, <2>3, FS_Subset
    <2>5. Cardinality(C) \in Nat
      BY <2>4, FS_CardinalityType
    <2> QED
      BY <1>1, <2>2, <2>3, <2>4, <2>5
  <1>4. ASSUME NEW c \in S, NEW d \in S, PlaceIn(R, S, c) = PlaceIn(R, S, d)
        PROVE  c = d
    <2>1. PlaceIn(R, S, c) \in Int
      BY <1>3
    <2>2. <<c, d>> \notin R /\ <<d, c>> \notin R
      BY <1>4, <2>1, PlacesGrow
    <2> QED
      BY <2>2 DEF Orders
  <1>5. place \in Injection(S, N)
    <2> HIDE DEF N
    <2> QED
      BY <1>3, <1>4 DEF Injection, IsInjective
  <1> HIDE DEF place
  <1>6. place \in Surjection(S, N)
    BY <1>2, <1>5, FS_Injection
  <1>7. \E c \in S : place[c] = n
    BY <1>6 DEF Surjection
  <1> QED
    BY <1>7 DEF place

\* Less, written out.
Less2(l, r) ==
    \/ l[1] < r[1]
    \/ l[1] = r[1] /\ l[2] < r[2]
Less3(l, r) ==
    \/ Less2(l, r)
    \/ l[1] = r[1] /\ l[2] = r[2] /\ l[3] < r[3]
Less5(l, r) ==
    \/ Less3(l, r)
    \/ l[1] = r[1] /\ l[2] = r[2] /\ l[3] = r[3] /\ l[4] < r[4]
    \/ l[1] = r[1] /\ l[2] = r[2] /\ l[3] = r[3] /\ l[4] = r[4] /\ l[5] < r[5]

LEMMA LessWrittenOut ==
    ASSUME NEW l, NEW r
    PROVE  /\ DOMAIN l = 1..2 => (Less(l, r) <=> Less2(l, r))
           /\ DOMAIN l = 1..3 => (Less(l, r) <=> Less3(l, r))
           /\ DOMAIN l = 1..5 => (Less(l, r) <=> Less5(l, r))
  <1> DEFINE At(n) == l[n] < r[n] /\ \A m \in 1..(n - 1) : l[m] = r[m]
  <1>1. /\ At(1) <=> l[1] < r[1]
        /\ At(2) <=> l[2] < r[2] /\ l[1] = r[1]
        /\ At(3) <=> l[3] < r[3] /\ l[1] = r[1] /\ l[2] = r[2]
        /\ At(4) <=> l[4] < r[4] /\ l[1] = r[1] /\ l[2] = r[2] /\ l[3] = r[3]
        /\ At(5) <=> l[5] < r[5] /\ l[1] = r[1] /\ l[2] = r[2] /\ l[3] = r[3] /\ l[4] = r[4]
    <2>1. /\ 1..0 = {} /\ 1..1 = {1} /\ 1..2 = {1, 2} /\ 1..3 = {1, 2, 3}
          /\ 1..4 = {1, 2, 3, 4}
      OBVIOUS
    <2> QED
      BY <2>1
  <1>2. Less(l, r) <=> \E n \in DOMAIN l : At(n)
    BY DEF Less
  <1> HIDE DEF At
  <1>3. ASSUME DOMAIN l = 1..2 PROVE Less(l, r) <=> At(1) \/ At(2)
    <2>1. 1..2 = {1, 2}
      OBVIOUS
    <2> QED
      BY <1>2, <1>3, <2>1
  <1>4. ASSUME DOMAIN l = 1..3 PROVE Less(l, r) <=> At(1) \/ At(2) \/ At(3)
    <2>1. 1..3 = {1, 2, 3}
      OBVIOUS
    <2> QED
      BY <1>2, <1>4, <2>1
  <1>5. ASSUME DOMAIN l = 1..5 PROVE Less(l, r) <=> At(1) \/ At(2) \/ At(3) \/ At(4) \/ At(5)
    <2>1. 1..5 = {1, 2, 3, 4, 5}
      OBVIOUS
    <2> QED
      BY <1>2, <1>5, <2>1
  <1>6. /\ Less2(l, r) <=> At(1) \/ At(2)
        /\ Less3(l, r) <=> At(1) \/ At(2) \/ At(3)
        /\ Less5(l, r) <=> At(1) \/ At(2) \/ At(3) \/ At(4) \/ At(5)
    BY <1>1 DEF Less2, Less3, Less5
  <1> QED
    BY <1>3, <1>4, <1>5, <1>6

LEMMA CustomersAre ==
    /\ Len(Customers) \in Nat /\ DOMAIN Customers = 1..Len(Customers)
    /\ \A n \in DOMAIN Customers : Customers[n] \in Customer /\ Customers[n].name = n
    /\ ToSet(Customers) = {Customers[n] : n \in DOMAIN Customers}
    /\ \A c \in ToSet(Customers) :
          c \in Customer /\ c.name \in DOMAIN Customers /\ c = Customers[c.name]
  <1>1. Len(Customers) \in Nat /\ DOMAIN Customers = 1..Len(Customers)
    BY CustomersAssumption
  <1>2. \A n \in DOMAIN Customers : Customers[n] \in Customer /\ Customers[n].name = n
    BY CustomersAssumption
  <1>3. ToSet(Customers) = {Customers[n] : n \in DOMAIN Customers}
    BY DEF ToSet
  <1> QED
    BY <1>1, <1>2, <1>3

\* As many rows as customers, when no two customers have the same.
LEMMA AsManyAsCustomers ==
    ASSUME NEW S, NEW f \in [DOMAIN Customers -> S], S = {f[n] : n \in DOMAIN Customers},
           \A m, n \in DOMAIN Customers : f[m] = f[n] => m = n
    PROVE  IsFiniteSet(S) /\ Cardinality(S) = Len(Customers)
  <1>1. f \in Surjection(DOMAIN Customers, S) /\ f \in Injection(DOMAIN Customers, S)
    BY DEF Surjection, Injection, IsInjective
  <1>2. IsFiniteSet(DOMAIN Customers) /\ Cardinality(DOMAIN Customers) = Len(Customers)
    BY CustomersAre, FS_Interval
  <1> QED
    BY <1>1, <1>2, FS_Surjection

Sorted(S, R, place, r) ==
    /\ IsFiniteSet(S) /\ Cardinality(S) = Len(Customers) /\ Orders(R, S)
    /\ \A c \in S : place[c] = PlaceIn(R, S, c)
    /\ r = [n \in DOMAIN Customers |-> CHOOSE c \in S : place[c] = n]

LEMMA SortedIs ==
    ASSUME NEW S, NEW R, NEW place, NEW r, Sorted(S, R, place, r)
    PROVE  /\ \A n \in DOMAIN Customers : r[n] \in S
           /\ \A m, n \in DOMAIN Customers : m < n => <<r[n], r[m]>> \notin R
  <1>0. /\ IsFiniteSet(S) /\ Cardinality(S) = Len(Customers) /\ Orders(R, S)
        /\ \A c \in S : place[c] = PlaceIn(R, S, c)
        /\ r = [n \in DOMAIN Customers |-> CHOOSE c \in S : place[c] = n]
    BY DEF Sorted
  <1>1. ASSUME NEW n \in DOMAIN Customers PROVE r[n] \in S /\ PlaceIn(R, S, r[n]) = n
    <2>1. n \in 1..Cardinality(S)
      BY <1>0, CustomersAre
    <2>2. \E c \in S : PlaceIn(R, S, c) = n
      BY <1>0, <2>1, PlacesTaken
    <2>3. \E c \in S : place[c] = n
      BY <1>0, <2>2
    <2>4. r[n] \in S /\ place[r[n]] = n
      BY <1>0, <2>3
    <2> QED
      BY <1>0, <2>4
  <1>2. ASSUME NEW m \in DOMAIN Customers, NEW n \in DOMAIN Customers, m < n,
               <<r[n], r[m]>> \in R
        PROVE  FALSE
    <2>0. r[n] \in S /\ r[m] \in S /\ PlaceIn(R, S, r[n]) = n /\ PlaceIn(R, S, r[m]) = m
      BY <1>1
    <2>1. n < m
      <3>1. PlaceIn(R, S, r[n]) < PlaceIn(R, S, r[m])
        BY <1>0, <1>2, <2>0, PlacesGrow
      <3> QED
        BY <2>0, <3>1
    <2>2. m \in Nat /\ n \in Nat
      BY CustomersAre
    <2> QED
      BY <1>2, <2>1, <2>2
  <1> QED
    BY <1>1, <1>2

-----------------------------------------------------------------------------
(* The scores of the customers *)

LEMMA LostIs ==
    ASSUME NEW c \in Customer
    PROVE  /\ Lost(c) \subseteq Services /\ IsFiniteSet(Lost(c)) /\ Cardinality(Lost(c)) \in Nat
           /\ Lost(c) # {} => Cardinality(Lost(c)) > 0
           /\ IsFiniteSet(BlockedDependents(c)) /\ Cardinality(BlockedDependents(c)) \in Nat
           /\ InProgress(c) \in Nat
  <1>1. Lost(c) \in SUBSET Services
    BY DEF Lost, Customer
  <1>2. IsFiniteSet(Lost(c)) /\ Cardinality(Lost(c)) \in Nat
    BY <1>1, PlanRulesAssumption, FS_Subset, FS_CardinalityType
  <1>3. Lost(c) # {} => Cardinality(Lost(c)) # 0
    BY <1>2, FS_EmptySet
  <1>4. BlockedDependents(c) \in SUBSET Services
    BY DEF BlockedDependents
  <1>5. IsFiniteSet(BlockedDependents(c)) /\ Cardinality(BlockedDependents(c)) \in Nat
    BY <1>4, PlanRulesAssumption, FS_Subset, FS_CardinalityType
  <1>6. InProgress(c) \in Nat
    <2> DEFINE P == {i \in Executes(Identifiers) : i.service \in c.services /\ keys[i] = "running"}
    <2>1. P \in SUBSET Identifiers
      BY DEF Executes
    <2>2. InProgress(c) = Cardinality(P)
      BY DEF InProgress
    <2> HIDE DEF P
    <2> QED
      BY <2>1, <2>2, IdentifiersFinite, FS_Subset, FS_CardinalityType
  <1> QED
    BY <1>1, <1>2, <1>3, <1>5, <1>6

LEMMA ImageFinite ==
    ASSUME NEW S, IsFiniteSet(S), NEW f
    PROVE  IsFiniteSet({f[s] : s \in S})
  <1> DEFINE T == {f[s] : s \in S}
             g == [s \in S |-> f[s]]
  <1>1. g \in Surjection(S, T)
    BY DEF Surjection
  <1> HIDE DEF g, T
  <1>2. IsFiniteSet(T)
    BY <1>1, FS_Surjection
  <1> QED
    BY <1>2 DEF T

\* The highest of some values, none of them negative, and the value of nothing.
LEMMA HighestOf ==
    ASSUME NEW S, IsFiniteSet(S), NEW f, \A s \in S : f[s] \in Nat
    PROVE  /\ Max({0} \cup {f[s] : s \in S}) \in Nat
           /\ S = {} => Max({0} \cup {f[s] : s \in S}) = 0
  <1> DEFINE A == {f[s] : s \in S}
             T == {0} \cup A
  <1>0. IsFiniteSet(A)
    BY ImageFinite
  <1>2. T \subseteq Nat /\ T # {} /\ (S = {} => T = {0})
    OBVIOUS
  <1> HIDE DEF A
  <1>1. IsFiniteSet(T)
    BY <1>0, FS_Singleton, FS_Union
  <1> HIDE DEF T
  <1>3. T \subseteq Int
    BY <1>2
  <1>4. Max(T) \in T
    BY <1>1, <1>2, <1>3, MaxPicks
  <1>5. Max(T) \in Nat /\ (S = {} => Max(T) = 0)
    <2>1. Max(T) \in Nat
      BY <1>2, <1>4
    <2>2. ASSUME S = {} PROVE Max(T) = 0
      <3>1. Max(T) \in {0}
        BY <1>2, <1>4, <2>2
      <3> QED
        BY <3>1
    <2> QED
      BY <2>1, <2>2
  <1> QED
    BY <1>5 DEF T, A

LEMMA LeastOfTwo ==
    ASSUME NEW m \in Nat, NEW n \in Nat
    PROVE  Min({m, n}) \in Nat /\ Min({m, n}) <= m
  <1>1. m \in Int /\ n \in Int
    OBVIOUS
  <1>2. Min({m, n}) \in {m, n} /\ Min({m, n}) <= m
    BY <1>1, TwoOf, Zenon
  <1> QED
    BY <1>2

LEMMA PointsAre ==
    ASSUME NEW c \in Customer
    PROVE  /\ HighestImpact(c) \in Nat /\ AffectedUsers(c) \in Nat /\ TimeDown(c) \in Nat
           /\ Lost(c) = {} => HighestImpact(c) = 0 /\ AffectedUsers(c) = 0 /\ TimeDown(c) = 0
  <1> DEFINE weight == [s \in Services |-> CUSTOMER_IMPACT_WEIGHTS[Impact[s]]]
  <1>0. IsFiniteSet(Lost(c)) /\ Lost(c) \subseteq Services
    BY LostIs
  <1>1. HighestImpact(c) \in Nat /\ (Lost(c) = {} => HighestImpact(c) = 0)
    <2>1. \A s \in Services : weight[s] \in Nat
      BY CustomersAssumption DEF CUSTOMER_IMPACT_WEIGHTS
    <2>2. {CUSTOMER_IMPACT_WEIGHTS[Impact[s]] : s \in Lost(c)} = {weight[s] : s \in Lost(c)}
      BY <1>0
    <2>3. HighestImpact(c) = Max({0} \cup {weight[s] : s \in Lost(c)})
      BY <2>2 DEF HighestImpact
    <2> HIDE DEF weight
    <2> QED
      BY <1>0, <2>1, <2>3, HighestOf
  <1>2. MinutesDown(c) \in Nat /\ (Lost(c) = {} => MinutesDown(c) = 0)
    <2>1. \A s \in Lost(c) : Minutes[s] \in Nat
      BY <1>0, CustomersAssumption
    <2> QED
      BY <1>0, <2>1, HighestOf DEF MinutesDown
  <1>3. AffectedUsers(c) \in Nat
    <2>1. c.users \div 500 \in Nat
      BY DEF Customer
    <2>2. Min({c.users \div 500, 30}) \in Nat
      BY <2>1, LeastOfTwo
    <2> QED
      BY <2>1, <2>2 DEF AffectedUsers, CUSTOMER_USERS_PER_POINT, CUSTOMER_USERS_MAXIMUM_POINTS
  <1>4. TimeDown(c) \in Nat /\ (Lost(c) = {} => TimeDown(c) = 0)
    <2> DEFINE points == MinutesDown(c) \div 5
    <2>1. points \in Nat /\ (Lost(c) = {} => points = 0)
      BY <1>2
    <2>2. TimeDown(c) = Min({points, 20})
      BY DEF TimeDown, CUSTOMER_MINUTES_PER_POINT, CUSTOMER_MINUTES_MAXIMUM_POINTS
    <2> HIDE DEF points
    <2>3. Min({points, 20}) \in Nat /\ Min({points, 20}) <= points
      BY <2>1, LeastOfTwo
    <2> QED
      BY <2>1, <2>2, <2>3
  <1>5. Lost(c) = {} => AffectedUsers(c) = 0
    BY DEF AffectedUsers
  <1> QED
    BY <1>1, <1>3, <1>4, <1>5

\* A customer that lost nothing has no points, one that nothing is done about has some.
LEMMA ScoresAre ==
    ASSUME NEW c \in Customer
    PROVE  /\ CustomerScore(c) \in Nat
           /\ StatusOf(c) = "healthy" => CustomerScore(c) = 0
           /\ StatusOf(c) \in {"down", "degraded"} => CustomerScore(c) > 0
  <1> DEFINE blocked == Cardinality(BlockedDependents(c))
             lost == Cardinality(Lost(c))
             score == HighestImpact(c) + blocked * 8 + lost * 6 + AffectedUsers(c) + TimeDown(c)
                      - InProgress(c) * 10
  <1>1. CustomerScore(c) = Max({0, score})
    BY DEF CustomerScore, CUSTOMER_BLOCKED_DEPENDENT_WEIGHT, CUSTOMER_UNHEALTHY_SERVICE_WEIGHT,
           CUSTOMER_RECOVERY_IN_PROGRESS_PENALTY
  <1>2. /\ HighestImpact(c) \in Nat /\ AffectedUsers(c) \in Nat /\ TimeDown(c) \in Nat
        /\ Lost(c) = {} => HighestImpact(c) = 0 /\ AffectedUsers(c) = 0 /\ TimeDown(c) = 0
    BY PointsAre
  <1>3. blocked \in Nat /\ lost \in Nat /\ InProgress(c) \in Nat /\ (Lost(c) # {} => lost > 0)
    BY LostIs
  <1>4. Lost(c) = {} => blocked = 0 /\ lost = 0
    <2>1. Lost(c) = {} => BlockedDependents(c) = {}
      BY DEF BlockedDependents
    <2> QED
      BY <2>1, FS_EmptySet
  <1>5. /\ StatusOf(c) = "healthy" => Lost(c) = {}
        /\ StatusOf(c) \in {"down", "degraded"} => Lost(c) # {} /\ ~(InProgress(c) > 0)
    <2>1. CASE Lost(c) = {}
      BY <2>1 DEF StatusOf
    <2>2. CASE Lost(c) # {} /\ (InProgress(c) > 0 \/ \E s \in Lost(c) : health[s] = "recovering")
      <3>1. StatusOf(c) = "recovering"
        BY <2>2 DEF StatusOf
      <3> QED
        BY <3>1
    <2>3. CASE Lost(c) # {} /\ ~(InProgress(c) > 0 \/ \E s \in Lost(c) : health[s] = "recovering")
      <3>1. StatusOf(c) \in {"down", "degraded"}
        BY <2>3 DEF StatusOf
      <3> QED
        BY <2>3, <3>1
    <2> QED
      BY <2>1, <2>2, <2>3
  <1>6. score \in Int
    BY <1>2, <1>3
  <1>7. Lost(c) = {} => score <= 0
    BY <1>2, <1>3, <1>4
  <1>8. Lost(c) # {} /\ ~(InProgress(c) > 0) => score > 0
    BY <1>2, <1>3
  <1> HIDE DEF score
  <1>9. Max({0, score}) \in {0, score} /\ Max({0, score}) >= 0 /\ Max({0, score}) >= score
    <2>1. 0 \in Int
      OBVIOUS
    <2> QED
      BY <1>6, <2>1, TwoOf, Zenon
  <1> QED
    BY <1>1, <1>5, <1>6, <1>7, <1>8, <1>9

-----------------------------------------------------------------------------
(* The orders of the customers *)

RowOrder == {p \in [1..5 -> Int] \X [1..5 -> Int] : Less5(p[1], p[2])}
Rows == {Row(c) : c \in ToSet(Customers)}

LEMMA RowsAre ==
    /\ \A c \in Customer :
          /\ Row(c) \in [1..5 -> Int]
          /\ Row(c)[1] = c.company /\ Row(c)[2] = c.sector
          /\ Row(c)[3] = -CustomerScore(c) /\ Row(c)[5] = c.name
    /\ Rows = {Row(Customers[n]) : n \in DOMAIN Customers}
    /\ IsFiniteSet(Rows) /\ Cardinality(Rows) = Len(Customers)
    /\ \A row \in Rows :
          row \in [1..5 -> Int] /\ row[5] \in DOMAIN Customers /\ row = Row(Customers[row[5]])
  <1>1. ASSUME NEW c \in Customer
        PROVE  /\ Row(c) \in [1..5 -> Int]
               /\ Row(c)[1] = c.company /\ Row(c)[2] = c.sector
               /\ Row(c)[3] = -CustomerScore(c) /\ Row(c)[5] = c.name
    <2>1. /\ c.company \in Int /\ c.sector \in Int /\ c.users \in Int /\ c.name \in Int
          /\ CustomerScore(c) \in Int
      BY ScoresAre DEF Customer, CUSTOMER_UNLISTED, CUSTOMER_SECTOR_UNRANKED
    <2>2. -CustomerScore(c) \in Int /\ -c.users \in Int
      BY <2>1
    <2> HIDE DEF CustomerScore
    <2> QED
      BY <2>1, <2>2 DEF Row
  <1>2. Rows = {Row(Customers[n]) : n \in DOMAIN Customers}
    BY CustomersAre DEF Rows
  <1> DEFINE f == [n \in DOMAIN Customers |-> Row(Customers[n])]
  <1>3. /\ f \in [DOMAIN Customers -> Rows] /\ Rows = {f[n] : n \in DOMAIN Customers}
        /\ \A m, n \in DOMAIN Customers : f[m] = f[n] => m = n
    <2>1. \A n \in DOMAIN Customers : f[n] = Row(Customers[n]) /\ f[n][5] = n
      BY <1>1, CustomersAre
    <2> QED
      BY <1>2, <2>1
  <1> HIDE DEF f
  <1>4. IsFiniteSet(Rows) /\ Cardinality(Rows) = Len(Customers)
    BY <1>3, AsManyAsCustomers
  <1>5. ASSUME NEW row \in Rows
        PROVE  row \in [1..5 -> Int] /\ row[5] \in DOMAIN Customers /\ row = Row(Customers[row[5]])
    <2>1. PICK n \in DOMAIN Customers : row = Row(Customers[n])
      BY <1>2
    <2>2. Customers[n] \in Customer /\ Customers[n].name = n
      BY CustomersAre
    <2> QED
      BY <1>1, <2>1, <2>2
  <1> QED
    BY <1>1, <1>2, <1>4, <1>5

LEMMA RowsOrdered == Orders(RowOrder, Rows)
  <1>1. \A row \in Rows : row \in [1..5 -> Int] /\ row = Row(Customers[row[5]])
    BY RowsAre
  <1>2. \A row \in Rows : /\ row[1] \in Int /\ row[2] \in Int /\ row[3] \in Int
                          /\ row[4] \in Int /\ row[5] \in Int
    BY <1>1
  <1>3. \A c, d \in Rows : <<c, d>> \in RowOrder <=> Less5(c, d)
    BY <1>1 DEF RowOrder
  <1>4. \A c \in Rows : ~Less5(c, c)
    BY <1>2 DEF Less5, Less3, Less2
  <1>5. \A c, d \in Rows : c # d => Less5(c, d) \/ Less5(d, c)
    <2>1. \A c, d \in Rows : c # d => c[5] # d[5]
      BY <1>1
    <2> QED
      BY <1>2, <2>1 DEF Less5, Less3, Less2
  <1>6. \A b, c, d \in Rows : Less5(b, c) /\ Less5(c, d) => Less5(b, d)
    BY <1>2 DEF Less5, Less3, Less2
  <1> QED
    BY <1>3, <1>4, <1>5, <1>6 DEF Orders

LEMMA PrioritizedIs ==
    /\ DOMAIN Prioritized = DOMAIN Customers
    /\ \A n \in DOMAIN Customers : Prioritized[n] \in Customer
    /\ \A m, n \in DOMAIN Customers : m < n => ~Less5(Row(Prioritized[n]), Row(Prioritized[m]))
  <1> DEFINE place == [c \in Rows |-> 1 + Cardinality({d \in Rows : Less(d, c)})]
             row == [n \in DOMAIN Customers |-> CHOOSE c \in Rows : place[c] = n]
  <1>1. Prioritized = [n \in DOMAIN Customers |-> Customers[row[n][5]]]
    BY DEF Prioritized, InOrder, Rows
  <1>2. ASSUME NEW c \in Rows PROVE place[c] = PlaceIn(RowOrder, Rows, c)
    <2>1. \A d \in Rows : d \in [1..5 -> Int]
      BY RowsAre
    <2>2. \A d \in Rows : Less(d, c) <=> Less5(d, c)
      BY <2>1, LessWrittenOut
    <2>3. {d \in Rows : Less(d, c)} = {d \in Rows : <<d, c>> \in RowOrder}
      BY <2>1, <2>2 DEF RowOrder
    <2> QED
      BY <2>3 DEF PlaceIn
  <1>3. row = [n \in DOMAIN Customers |-> CHOOSE c \in Rows : place[c] = n]
    OBVIOUS
  <1> HIDE DEF place, row
  <1>4. /\ \A n \in DOMAIN Customers : row[n] \in Rows
        /\ \A m, n \in DOMAIN Customers : m < n => <<row[n], row[m]>> \notin RowOrder
    <2>1. Sorted(Rows, RowOrder, place, row)
      BY <1>2, <1>3, RowsAre, RowsOrdered DEF Sorted
    <2> QED
      BY <2>1, SortedIs
  <1>5. ASSUME NEW n \in DOMAIN Customers
        PROVE  /\ Prioritized[n] \in Customer /\ Row(Prioritized[n]) = row[n]
               /\ row[n] \in [1..5 -> Int]
    <2>1. /\ row[n] \in [1..5 -> Int] /\ row[n][5] \in DOMAIN Customers
          /\ row[n] = Row(Customers[row[n][5]])
      BY <1>4, RowsAre
    <2>2. Prioritized[n] = Customers[row[n][5]]
      BY <1>1
    <2> QED
      BY <2>1, <2>2, CustomersAre
  <1>6. \A m, n \in DOMAIN Customers : m < n => ~Less5(row[n], row[m])
    BY <1>4, <1>5 DEF RowOrder
  <1> QED
    BY <1>1, <1>5, <1>6

\* What rankWithModel compares.
Key(answer, c) == <<c.company, c.sector, answer[c.name]>>
KeyOrder(answer) ==
    {p \in Customer \X Customer : Less3(Key(answer, p[1]), Key(answer, p[2]))}

LEMMA KeysOrdered ==
    ASSUME NEW answer, IsAnswer(answer)
    PROVE  Orders(KeyOrder(answer), ToSet(Customers))
  <1> DEFINE given == [n \in DOMAIN Customers |-> answer[n]]
  <1>1. \A m, n \in DOMAIN Customers : given[m] = given[n] => m = n
    <2>1. given \in Surjection(DOMAIN Customers, DOMAIN Customers)
      <3>1. DOMAIN answer = DOMAIN Customers /\ {answer[n] : n \in DOMAIN answer} = DOMAIN Customers
        BY DEF IsAnswer, Range
      <3>2. given \in [DOMAIN Customers -> DOMAIN Customers]
        BY <3>1
      <3>3. \A k \in DOMAIN Customers : \E n \in DOMAIN Customers : given[n] = k
        BY <3>1
      <3> QED
        BY <3>2, <3>3 DEF Surjection
    <2>2. IsFiniteSet(DOMAIN Customers)
      <3>1. DOMAIN Customers = 1..Len(Customers) /\ 1 \in Int /\ Len(Customers) \in Int
        BY CustomersAre
      <3>2. IsFiniteSet(1..Len(Customers))
        BY <3>1, FS_Interval
      <3> QED
        BY <3>1, <3>2
    <2> HIDE DEF given
    <2>3. given \in Injection(DOMAIN Customers, DOMAIN Customers)
      BY <2>1, <2>2, FS_Surjection
    <2> QED
      BY <2>3 DEF Injection, IsInjective
  <1>2. \A n \in DOMAIN Customers : answer[n] \in Int
    <2>1. \A n \in DOMAIN Customers : answer[n] \in DOMAIN Customers
      BY DEF IsAnswer, Range
    <2>2. DOMAIN Customers \subseteq Int
      BY CustomersAre
    <2> QED
      BY <2>1, <2>2
  <1> DEFINE S == ToSet(Customers)
  <1>3. \A c \in S : /\ c \in Customer /\ c.company \in Int /\ c.sector \in Int
                     /\ answer[c.name] \in Int
    BY <1>2, CustomersAre DEF Customer, CUSTOMER_UNLISTED, CUSTOMER_SECTOR_UNRANKED
  <1>4. \A c, d \in S : c # d => answer[c.name] # answer[d.name]
    BY <1>1, CustomersAre
  <1>5. \A c : Key(answer, c)[1] = c.company /\ Key(answer, c)[2] = c.sector
               /\ Key(answer, c)[3] = answer[c.name]
    BY DEF Key
  <1>6. \A c, d \in S : <<c, d>> \in KeyOrder(answer) <=> Less3(Key(answer, c), Key(answer, d))
    BY <1>3 DEF KeyOrder
  <1> HIDE DEF S, given
  <1>7. \A c \in S : ~Less3(Key(answer, c), Key(answer, c))
    BY <1>3, <1>5 DEF Less3, Less2
  <1>8. \A c, d \in S : c # d =>
           Less3(Key(answer, c), Key(answer, d)) \/ Less3(Key(answer, d), Key(answer, c))
    BY <1>3, <1>4, <1>5 DEF Less3, Less2
  <1>9. \A b, c, d \in S :
           Less3(Key(answer, b), Key(answer, c)) /\ Less3(Key(answer, c), Key(answer, d))
             => Less3(Key(answer, b), Key(answer, d))
    BY <1>3, <1>5 DEF Less3, Less2
  <1> QED
    BY <1>6, <1>7, <1>8, <1>9 DEF Orders, S

LEMMA RankWithModelIs ==
    ASSUME NEW answer \in Answers, IsAnswer(answer)
    PROVE  /\ DOMAIN RankWithModel[answer] = DOMAIN Customers
           /\ \A n \in DOMAIN Customers : RankWithModel[answer][n] \in Customer
           /\ \A m, n \in DOMAIN Customers : m < n =>
                 ~Less3(Key(answer, RankWithModel[answer][n]), Key(answer, RankWithModel[answer][m]))
  <1> DEFINE S == ToSet(Customers)
             place == [c \in S |-> 1 + Cardinality({d \in S : ModelPrefers(answer, d, c)})]
             r == [n \in DOMAIN Customers |-> CHOOSE c \in S : place[c] = n]
  <1>1. RankWithModel[answer] = r
    BY DEF RankWithModel, InOrder
  <1>2. \A c \in S : c \in Customer
    BY CustomersAre
  <1>3. ASSUME NEW c \in S PROVE place[c] = PlaceIn(KeyOrder(answer), S, c)
    <2>1. \A d : DOMAIN Key(answer, d) = 1..3
      BY DEF Key
    <2>2. \A d : ModelPrefers(answer, d, c) <=> Less3(Key(answer, d), Key(answer, c))
      BY <2>1, LessWrittenOut DEF ModelPrefers, Key
    <2>3. {d \in S : ModelPrefers(answer, d, c)} = {d \in S : <<d, c>> \in KeyOrder(answer)}
      BY <1>2, <2>2 DEF KeyOrder
    <2> QED
      BY <2>3 DEF PlaceIn
  <1>4. r = [n \in DOMAIN Customers |-> CHOOSE c \in S : place[c] = n]
    OBVIOUS
  <1>5. IsFiniteSet(S) /\ Cardinality(S) = Len(Customers)
    <2> DEFINE f == [n \in DOMAIN Customers |-> Customers[n]]
    <2>1. /\ f \in [DOMAIN Customers -> S] /\ S = {f[n] : n \in DOMAIN Customers}
          /\ \A m, n \in DOMAIN Customers : f[m] = f[n] => m = n
      BY CustomersAre
    <2> HIDE DEF f, S
    <2> QED
      BY <2>1, AsManyAsCustomers
  <1> HIDE DEF place, r
  <1>6. /\ \A n \in DOMAIN Customers : r[n] \in S
        /\ \A m, n \in DOMAIN Customers : m < n => <<r[n], r[m]>> \notin KeyOrder(answer)
    <2>1. Orders(KeyOrder(answer), S)
      BY KeysOrdered
    <2> HIDE DEF S
    <2>2. Sorted(S, KeyOrder(answer), place, r)
      BY <1>3, <1>4, <1>5, <2>1 DEF Sorted
    <2> QED
      BY <2>2, SortedIs
  <1>7. \A m, n \in DOMAIN Customers : m < n => ~Less3(Key(answer, r[n]), Key(answer, r[m]))
    BY <1>2, <1>6 DEF KeyOrder
  <1>8. DOMAIN r = DOMAIN Customers
    BY <1>4
  <1> QED
    BY <1>1, <1>2, <1>6, <1>7, <1>8

LEMMA CompaniesOrdered == CompaniesInOrder
  <1>1. \A l, k : /\ Less(Tier(l), Tier(k)) <=> Less2(Tier(l), Tier(k))
                  /\ Tier(l)[1] = l.company /\ Tier(l)[2] = l.sector
    <2>1. \A l : DOMAIN Tier(l) = 1..2 /\ Tier(l)[1] = l.company /\ Tier(l)[2] = l.sector
      BY DEF Tier
    <2> QED
      BY <2>1, LessWrittenOut
  <1>2. \A l \in Customer, k \in Customer : Less(Tier(l), Tier(k)) => Less5(Row(l), Row(k))
    BY <1>1, RowsAre DEF Less2, Less3, Less5
  <1>3. \A answer, l, k : Less(Tier(l), Tier(k)) => Less3(Key(answer, l), Key(answer, k))
    <2>1. \A answer, c : Key(answer, c)[1] = c.company /\ Key(answer, c)[2] = c.sector
      BY DEF Key
    <2> QED
      BY <1>1, <2>1 DEF Less2, Less3
  <1>4. ASSUME NEW answer \in Answers,
               NEW m \in DOMAIN RankedBy(answer), NEW n \in DOMAIN RankedBy(answer), m < n
        PROVE  ~Less(Tier(RankedBy(answer)[n]), Tier(RankedBy(answer)[m]))
    <2>1. CASE IsAnswer(answer)
      <3>1. RankedBy(answer) = RankWithModel[answer]
        BY <2>1 DEF RankedBy
      <3> QED
        BY <1>3, <1>4, <2>1, <3>1, RankWithModelIs
    <2>2. CASE ~IsAnswer(answer)
      <3>1. RankedBy(answer) = Prioritized
        BY <2>2 DEF RankedBy
      <3> QED
        BY <1>2, <1>4, <3>1, PrioritizedIs
    <2> QED
      BY <2>1, <2>2
  <1>5. ASSUME NEW m \in DOMAIN Prioritized, NEW n \in DOMAIN Prioritized, m < n,
               Tier(Prioritized[m]) = Tier(Prioritized[n]),
               StatusOf(Prioritized[m]) = "healthy",
               StatusOf(Prioritized[n]) \in {"down", "degraded"}
        PROVE  FALSE
    <2> DEFINE l == Prioritized[n]
               k == Prioritized[m]
    <2>1. l \in Customer /\ k \in Customer /\ ~Less5(Row(l), Row(k))
      BY <1>5, PrioritizedIs
    <2>2. CustomerScore(k) = 0 /\ CustomerScore(l) \in Nat /\ CustomerScore(l) > 0
      BY <1>5, <2>1, ScoresAre
    <2>3. l.company = k.company /\ l.sector = k.sector
      BY <1>1, <1>5
    <2> HIDE DEF l, k
    <2>4. Row(l)[3] < Row(k)[3] /\ Row(l)[1] = Row(k)[1] /\ Row(l)[2] = Row(k)[2]
      BY <2>1, <2>2, <2>3, RowsAre
    <2> QED
      BY <2>1, <2>4 DEF Less5, Less3
  <1> QED
    BY <1>4, <1>5 DEF CompaniesInOrder

\* The companies are in their order in every state of the recovery, whatever the model
\* answers: prioritizeCustomers and rankWithModel sort by the fixed order and the sectors
\* first, and a customer nothing is done about scores more than one that lost nothing.
THEOREM CompaniesInOrderHolds == Spec => []CompaniesInOrder
  <1> QED
    BY CompaniesOrdered, PTL
=============================================================================

---------------------------- MODULE TradeFlowProofs ----------------------------
(***************************************************************************)
(* Proofs about TradeFlow and the operators of OrderState it is built      *)
(* from: the type invariant for any strategies; and for one strategy, that *)
(* its position accounts for all the gateway has executed and that every   *)
(* executed order is finished once nothing is on its way.                  *)
(***************************************************************************)
EXTENDS TradeFlow, FiniteSetTheorems, WellFoundedInduction, TLAPS

--------------------------------------------------------------------------------
(* Folds.  FoldLeft, FoldSet and FoldFunction choose a function on subsets *)
(* that satisfies a recursive equation.  What follows shows that there is  *)
(* one for a finite set, and that a property each step keeps holds of the  *)
(* result; the induction is a minimal counterexample.                      *)

\* Induction over the subsets of a finite set.
LEMMA SubsetInduction ==
  ASSUME NEW S, IsFiniteSet(S), NEW G,
         \A T \in SUBSET S : (\A U \in SUBSET T : U # T => U \in G) => T \in G
  PROVE  S \in G
  <1> DEFINE Bad == {T \in SUBSET S : T \notin G}
  <1>1. SUFFICES ASSUME S \notin G PROVE FALSE
    OBVIOUS
  <1>2. IsWellFoundedOn(StrictSubsetOrdering(S), SUBSET S)
    BY FS_StrictSubsetOrderingWellFounded, FS_FiniteSubsetsOfFinite
  <1>3. Bad \subseteq SUBSET S /\ Bad # {}
    BY <1>1
  <1>4. \E T \in Bad : \A U \in Bad : ~ (<<U, T>> \in StrictSubsetOrdering(S))
    <2> HIDE DEF Bad
    <2>1. QED
      BY <1>2, <1>3, WFMin
  <1>5. PICK T \in Bad : \A U \in Bad : ~ (<<U, T>> \in StrictSubsetOrdering(S))
    BY <1>4
  <1>6. ASSUME NEW U \in SUBSET T, U # T PROVE U \in G
    <2>1. U \in SUBSET S /\ T \in SUBSET S
      BY <1>5
    <2>2. <<U, T>> \in StrictSubsetOrdering(S)
      BY <1>6, <2>1 DEF StrictSubsetOrdering
    <2>3. QED
      BY <1>5, <2>1, <2>2
  <1>7. QED
    BY <1>5, <1>6

\* A set of numbers has a least one.
LEMMA LeastNumber ==
  ASSUME NEW T, T \subseteq Nat, T # {}
  PROVE  \E n \in T : \A m \in T : n <= m
  <1>1. \E x \in T : \A y \in T : ~ (<<y, x>> \in OpToRel(<, Nat))
    BY NatLessThanWellFounded, WFMin
  <1>2. PICK x \in T : \A y \in T : ~ (<<y, x>> \in OpToRel(<, Nat))
    BY <1>1
  <1>3. ASSUME NEW y \in T PROVE x <= y
    <2>1. <<y, x>> \in Nat \X Nat
      OBVIOUS
    <2>2. ~ (y < x)
      BY <1>2, <2>1 DEF OpToRel
    <2>3. QED
      BY <2>2
  <1>4. QED
    BY <1>2, <1>3

\* g is the function that takes c[T] off T, as far as S goes.
Recursion(g, S, b, c, F) ==
  g = [T \in SUBSET S |-> IF T = {} THEN b ELSE F[c[T]][g[T \ {c[T]}]]]

\* A function that peels a chosen element off its argument, as the folds of the
\* community modules do, is defined on every subset of a finite set.
LEMMA RecursionExists ==
  ASSUME NEW S, IsFiniteSet(S), NEW V, NEW b \in V, NEW c, NEW F,
         \A T \in SUBSET S : T # {} => c[T] \in T,
         \A x \in S, v \in V : F[x][v] \in V
  PROVE  \E g \in [SUBSET S -> V] :
           Recursion(g, S, b, c, F)
  <1> DEFINE Step(g) == [T \in SUBSET S |-> IF T = {} THEN b ELSE F[c[T]][g[T \ {c[T]}]]]
             Upto(n, g) == \A T \in SUBSET S : Cardinality(T) <= n => g[T] = Step(g)[T]
             Bad == {n \in Nat : ~ \E g \in [SUBSET S -> V] : Upto(n, g)}
  <1>1. ASSUME NEW g \in [SUBSET S -> V] PROVE Step(g) \in [SUBSET S -> V]
    <2>1. ASSUME NEW T \in SUBSET S PROVE (IF T = {} THEN b ELSE F[c[T]][g[T \ {c[T]}]]) \in V
      <3>1. CASE T = {}
        BY <3>1
      <3>2. CASE T # {}
        <4>1. c[T] \in S /\ T \ {c[T]} \in SUBSET S
          BY <3>2
        <4>2. g[T \ {c[T]}] \in V
          BY <4>1
        <4>3. QED
          BY <3>2, <4>1, <4>2
      <3>3. QED
        BY <3>1, <3>2
    <2>2. QED
      BY <2>1
  <1>2. ASSUME NEW T \in SUBSET S PROVE IsFiniteSet(T) /\ Cardinality(T) \in Nat
    BY FS_Subset, FS_CardinalityType
  <1>3. 0 \notin Bad
    <2>1. [T \in SUBSET S |-> b] \in [SUBSET S -> V]
      OBVIOUS
    <2>2. ASSUME NEW T \in SUBSET S, Cardinality(T) <= 0
          PROVE  [U \in SUBSET S |-> b][T] = Step([U \in SUBSET S |-> b])[T]
      <3>1. T = {}
        BY <1>2, <2>2, FS_EmptySet
      <3>2. QED
        BY <3>1
    <2>3. QED
      BY <2>1, <2>2
  <1>4. ASSUME NEW n \in Nat, n \notin Bad PROVE n + 1 \notin Bad
    <2>1. PICK g \in [SUBSET S -> V] : Upto(n, g)
      BY <1>4
    <2>2. Step(g) \in [SUBSET S -> V]
      BY <1>1
    <2>3. ASSUME NEW T \in SUBSET S, Cardinality(T) <= n + 1
          PROVE  Step(g)[T] = Step(Step(g))[T]
      <3>1. CASE T = {}
        BY <3>1
      <3>2. CASE T # {}
        <4> DEFINE U == T \ {c[T]}
        <4>1. U \in SUBSET S /\ c[T] \in T
          BY <3>2
        <4>2. Cardinality(U) = Cardinality(T) - 1
          BY <1>2, <4>1, FS_RemoveElement
        <4>3. Cardinality(U) <= n
          <5> HIDE DEF Step, Upto, Bad, U
          <5>1. Cardinality(T) \in Nat
            BY <1>2
          <5>2. QED
            BY <2>3, <4>2, <5>1
        <4>4. g[U] = Step(g)[U]
          BY <2>1, <4>1, <4>3
        <4>5. Step(g)[T] = F[c[T]][g[U]]
          BY <3>2
        <4>6. Step(Step(g))[T] = F[c[T]][Step(g)[U]]
          BY <3>2
        <4>7. QED
          BY <4>4, <4>5, <4>6
      <3>3. QED
        BY <3>1, <3>2
    <2>4. Upto(n + 1, Step(g))
      BY <2>3
    <2>5. QED
      BY <2>2, <2>4
  <1>5. Bad = {}
    <2>1. SUFFICES ASSUME Bad # {} PROVE FALSE
      OBVIOUS
    <2>2. Bad \subseteq Nat
      OBVIOUS
    <2> HIDE DEF Bad, Step, Upto
    <2>3. PICK n \in Bad : \A m \in Bad : n <= m
      BY <2>1, <2>2, LeastNumber
    <2>4. n # 0 /\ n \in Nat
      BY <1>3, <2>2, <2>3
    <2>5. n - 1 \in Nat /\ n = (n - 1) + 1
      BY <2>4
    <2>6. n - 1 \notin Bad
      <3>1. ASSUME n - 1 \in Bad PROVE n <= n - 1
        BY <2>3, <3>1
      <3>2. ~ (n <= n - 1)
        BY <2>4
      <3>3. QED
        BY <3>1, <3>2
    <2>7. QED
      BY <1>4, <2>3, <2>5, <2>6
  <1>6. Cardinality(S) \in Nat /\ Cardinality(S) \notin Bad
    BY <1>2, <1>5
  <1>7. PICK g \in [SUBSET S -> V] : Upto(Cardinality(S), g)
    BY <1>6
  <1>8. ASSUME NEW T \in SUBSET S PROVE g[T] = Step(g)[T]
    BY <1>7, FS_Subset
  <1>9. g = Step(g)
    BY <1>8
  <1>10. QED
    BY <1>9 DEF Recursion

\* A set of indices has a largest one.
LEMMA MaxIsIn ==
  ASSUME NEW n \in Nat, NEW T \in SUBSET (1..n), T # {}
  PROVE  Max(T) \in T
  <1> DEFINE D == {n - t : t \in T}
  <1>1. D \subseteq Nat /\ D # {}
    <2>1. ASSUME NEW t \in T PROVE n - t \in Nat
      OBVIOUS
    <2>2. QED
      BY <2>1
  <1>2. PICK d \in D : \A e \in D : d <= e
    BY <1>1, LeastNumber
  <1>3. PICK t \in T : d = n - t
    BY <1>2
  <1>4. ASSUME NEW u \in T PROVE t >= u
    <2>1. n - u \in D
      OBVIOUS
    <2>2. n - t <= n - u
      BY <1>2, <1>3, <2>1
    <2>3. t \in Nat /\ u \in Nat
      OBVIOUS
    <2>4. QED
      BY <2>2, <2>3
  <1>5. QED
    BY <1>3, <1>4 DEF Max

\* ... the one FoldLeft uses, which takes off the last index.
LeftRecursion(h, n, b, F) ==
  h = [T \in SUBSET (1..n) |-> IF T = {} THEN b ELSE F[Max(T)][h[T \ {Max(T)}]]]

\* The function behind FoldLeft exists ...
LEMMA LeftFoldExists ==
  ASSUME NEW V, NEW b \in V, NEW n \in Nat, NEW F,
         \A i \in 1..n, v \in V : F[i][v] \in V
  PROVE  \E h \in [SUBSET (1..n) -> V] : LeftRecursion(h, n, b, F)
  <1> DEFINE S == 1..n
             c == [T \in SUBSET S |-> Max(T)]
  <1>1. IsFiniteSet(S)
    <2> HIDE DEF c
    <2>1. QED
      BY FS_Interval
  <1>2. ASSUME NEW T \in SUBSET S, T # {} PROVE c[T] \in T
    BY <1>2, MaxIsIn
  <1>3. \E h \in [SUBSET S -> V] : Recursion(h, S, b, c, F)
    <2>1. \A x \in S, v \in V : F[x][v] \in V
      OBVIOUS
    <2>2. \A T \in SUBSET S : T # {} => c[T] \in T
      BY <1>2
    <2> HIDE DEF S, c
    <2>3. QED
      BY <1>1, <2>1, <2>2, RecursionExists
  <1>4. PICK h \in [SUBSET S -> V] : Recursion(h, S, b, c, F)
    BY <1>3
  <1>5. LeftRecursion(h, n, b, F)
    BY <1>4 DEF Recursion, LeftRecursion
  <1>6. QED
    BY <1>5

\* ... and its value is in a set that each of its steps stays in.
LEMMA LeftFoldStays ==
  ASSUME NEW V, NEW n \in Nat, NEW g, g[{}] \in V,
         \A T \in SUBSET (1..n) :
            T # {} /\ Max(T) \in 1..n /\ g[T \ {Max(T)}] \in V => g[T] \in V
  PROVE  g[1..n] \in V
  <1> DEFINE G == {T \in SUBSET (1..n) : g[T] \in V}
  <1>1. ASSUME NEW T \in SUBSET (1..n), \A U \in SUBSET T : U # T => U \in G
        PROVE  T \in G
    <2>1. CASE T = {}
      BY <2>1
    <2>2. CASE T # {}
      <3>1. Max(T) \in T
        BY <2>2, MaxIsIn
      <3>2. T \ {Max(T)} \in SUBSET T /\ T \ {Max(T)} # T
        BY <3>1
      <3>3. T \ {Max(T)} \in G
        BY <1>1, <3>2
      <3>4. QED
        BY <2>2, <3>1, <3>3
    <2>3. QED
      BY <2>1, <2>2
  <1>2. IsFiniteSet(1..n)
    BY FS_Interval
  <1> DEFINE S == 1..n
  <1>3. S \in G
    <2>1. \A T \in SUBSET S : (\A U \in SUBSET T : U # T => U \in G) => T \in G
      BY <1>1
    <2>2. IsFiniteSet(S)
      BY <1>2
    <2> HIDE DEF G, S
    <2>3. QED
      BY <2>1, <2>2, SubsetInduction
  <1>4. QED
    BY <1>3

\* So a fold stays in a set that each step stays in: here the fold of Recorded ...
LEMMA RecordedStays ==
  ASSUME NEW V, NEW b \in V, NEW n \in Nat, NEW seq, DOMAIN seq = 1..n,
         \A v \in V : \A i \in 1..n : OnActionSent(v, seq[i]) \in V
  PROVE  FoldLeft(OnActionSent, b, seq) \in V
  <1> DEFINE F == [i \in 1..n |-> [v \in V |-> OnActionSent(v, seq[i])]]
             R(h) == [T \in SUBSET (1..n) |->
                        IF T = {} THEN b ELSE OnActionSent(h[T \ {Max(T)}], seq[Max(T)])]
             g == CHOOSE h : h = R(h)
  <1>1. \A i \in 1..n, v \in V : F[i][v] \in V
    OBVIOUS
  <1>2. \E h \in [SUBSET (1..n) -> V] : LeftRecursion(h, n, b, F)
    <2> HIDE DEF F
    <2>1. QED
      BY <1>1, LeftFoldExists
  <1>3. PICK h \in [SUBSET (1..n) -> V] : LeftRecursion(h, n, b, F)
    BY <1>2
  <1>4. ASSUME NEW T \in SUBSET (1..n), T # {}
        PROVE  F[Max(T)][h[T \ {Max(T)}]] = OnActionSent(h[T \ {Max(T)}], seq[Max(T)])
    <2>1. Max(T) \in 1..n /\ h[T \ {Max(T)}] \in V
      BY <1>4, MaxIsIn
    <2>2. QED
      BY <2>1
  <1>5. h = R(h)
    <2> HIDE DEF F
    <2>1. QED
      BY <1>3, <1>4 DEF LeftRecursion
  <1>6. g = R(g)
    BY <1>5
  <1>7. g[{}] = b
    <2>1. R(g)[{}] = b
      OBVIOUS
    <2>2. QED
      BY <1>6, <2>1
  <1>8. ASSUME NEW T \in SUBSET (1..n), T # {}, Max(T) \in 1..n, g[T \ {Max(T)}] \in V
        PROVE  g[T] \in V
    <2>1. R(g)[T] = OnActionSent(g[T \ {Max(T)}], seq[Max(T)])
      BY <1>8
    <2>2. R(g)[T] \in V
      BY <1>8, <2>1
    <2>3. QED
      BY <1>6, <2>2
  <1>9. g[1..n] \in V
    <2> HIDE DEF g
    <2>1. QED
      BY <1>7, <1>8, LeftFoldStays
  <1>10. FoldLeft(OnActionSent, b, seq) = g[1..n]
    BY DEF FoldLeft, MapThenFoldSet
  <1>11. QED
    BY <1>9, <1>10

\* ... that of Callbacks ...
LEMMA CallbacksStay ==
  ASSUME NEW V, NEW b \in V, NEW n \in Nat, NEW seq, DOMAIN seq = 1..n,
         \A v \in V : \A i \in 1..n : AfterCallback(v, seq[i]) \in V
  PROVE  FoldLeft(AfterCallback, b, seq) \in V
  <1> DEFINE F == [i \in 1..n |-> [v \in V |-> AfterCallback(v, seq[i])]]
             R(h) == [T \in SUBSET (1..n) |->
                        IF T = {} THEN b ELSE AfterCallback(h[T \ {Max(T)}], seq[Max(T)])]
             g == CHOOSE h : h = R(h)
  <1>1. \A i \in 1..n, v \in V : F[i][v] \in V
    OBVIOUS
  <1>2. \E h \in [SUBSET (1..n) -> V] : LeftRecursion(h, n, b, F)
    <2> HIDE DEF F
    <2>1. QED
      BY <1>1, LeftFoldExists
  <1>3. PICK h \in [SUBSET (1..n) -> V] : LeftRecursion(h, n, b, F)
    BY <1>2
  <1>4. ASSUME NEW T \in SUBSET (1..n), T # {}
        PROVE  F[Max(T)][h[T \ {Max(T)}]] = AfterCallback(h[T \ {Max(T)}], seq[Max(T)])
    <2>1. Max(T) \in 1..n /\ h[T \ {Max(T)}] \in V
      BY <1>4, MaxIsIn
    <2>2. QED
      BY <2>1
  <1>5. h = R(h)
    <2> HIDE DEF F
    <2>1. QED
      BY <1>3, <1>4 DEF LeftRecursion
  <1>6. g = R(g)
    BY <1>5
  <1>7. g[{}] = b
    <2>1. R(g)[{}] = b
      OBVIOUS
    <2>2. QED
      BY <1>6, <2>1
  <1>8. ASSUME NEW T \in SUBSET (1..n), T # {}, Max(T) \in 1..n, g[T \ {Max(T)}] \in V
        PROVE  g[T] \in V
    <2>1. R(g)[T] = AfterCallback(g[T \ {Max(T)}], seq[Max(T)])
      BY <1>8
    <2>2. R(g)[T] \in V
      BY <1>8, <2>1
    <2>3. QED
      BY <1>6, <2>2
  <1>9. g[1..n] \in V
    <2> HIDE DEF g
    <2>1. QED
      BY <1>7, <1>8, LeftFoldStays
  <1>10. FoldLeft(AfterCallback, b, seq) = g[1..n]
    BY DEF FoldLeft, MapThenFoldSet
  <1>11. QED
    BY <1>9, <1>10

\* ... and that of Execute.
LEMMA ExecuteStays ==
  ASSUME NEW V, NEW b \in V, NEW n \in Nat, NEW seq, DOMAIN seq = 1..n,
         NEW x, b = << >>,
         \A v \in V : \A i \in 1..n : v \o ActionsOf(seq[i], x, x.nextId + Drawn(v)) \in V
  PROVE  Execute(x, seq) \in V
  <1> DEFINE F == [i \in 1..n |-> [v \in V |-> v \o ActionsOf(seq[i], x, x.nextId + Drawn(v))]]
             R(h) == [T \in SUBSET (1..n) |->
                        IF T = {} THEN b
                        ELSE h[T \ {Max(T)}] \o ActionsOf(seq[Max(T)], x,
                               x.nextId + Drawn(h[T \ {Max(T)}]))]
             g == CHOOSE h : h = R(h)
  <1>1. \A i \in 1..n, v \in V : F[i][v] \in V
    OBVIOUS
  <1>2. \E h \in [SUBSET (1..n) -> V] : LeftRecursion(h, n, b, F)
    <2> HIDE DEF F
    <2>1. QED
      BY <1>1, LeftFoldExists
  <1>3. PICK h \in [SUBSET (1..n) -> V] : LeftRecursion(h, n, b, F)
    BY <1>2
  <1>4. ASSUME NEW T \in SUBSET (1..n), T # {}
        PROVE  F[Max(T)][h[T \ {Max(T)}]]
                 = h[T \ {Max(T)}] \o ActionsOf(seq[Max(T)], x,
                     x.nextId + Drawn(h[T \ {Max(T)}]))
    <2>1. Max(T) \in 1..n /\ h[T \ {Max(T)}] \in V
      BY <1>4, MaxIsIn
    <2>2. QED
      BY <2>1
  <1>5. h = R(h)
    <2> HIDE DEF F
    <2>1. QED
      BY <1>3, <1>4 DEF LeftRecursion
  <1>6. g = R(g)
    BY <1>5
  <1>7. g[{}] = b
    <2>1. R(g)[{}] = b
      OBVIOUS
    <2>2. QED
      BY <1>6, <2>1
  <1>8. ASSUME NEW T \in SUBSET (1..n), T # {}, Max(T) \in 1..n, g[T \ {Max(T)}] \in V
        PROVE  g[T] \in V
    <2>1. R(g)[T]
            = g[T \ {Max(T)}] \o ActionsOf(seq[Max(T)], x, x.nextId + Drawn(g[T \ {Max(T)}]))
      BY <1>8
    <2>2. R(g)[T] \in V
      BY <1>8, <2>1
    <2>3. QED
      BY <1>6, <2>2
  <1>9. g[1..n] \in V
    <2> HIDE DEF g
    <2>1. QED
      BY <1>7, <1>8, LeftFoldStays
  <1>10. Execute(x, seq) = g[1..n]
    BY DEF FoldLeft, MapThenFoldSet, Execute
  <1>11. QED
    BY <1>9, <1>10

--------------------------------------------------------------------------------
(* The books of one strategy, and what on_action_sent keeps of them.       *)

\* The types of the parts of the state.
Action == [kind : {"new"}, id : Nat, side : Sides, quantity : Nat]
          \cup [kind : {"cancel"}, id : Nat]
Books == {f \in UNION {[D -> Order] : D \in SUBSET Nat} : IsFiniteSet(DOMAIN f)}
Fills == {q \in Seq(Nat) : /\ Len(q) <= FillWindow
                           /\ \A i, j \in DOMAIN q : q[i] = q[j] => i = j}
Keys == Nat \X Statuses \X Nat \X Nat
RunnerState ==
  [orders : Books, seen : SUBSET Keys, position : Int, fills : Fills, nextId : Nat]

\* The orders a strategy knows are finitely many, under numbers.
LEMMA BooksFacts ==
  ASSUME NEW f \in Books
  PROVE  /\ DOMAIN f \subseteq Nat
         /\ IsFiniteSet(DOMAIN f)
         /\ \A id \in DOMAIN f : f[id] \in Order
         /\ f = [id \in DOMAIN f |-> f[id]]
  <1>1. PICK D \in SUBSET Nat : f \in [D -> Order]
    BY DEF Books
  <1>2. QED
    BY <1>1 DEF Books

\* A function from finitely many numbers to orders is such a map.
LEMMA BooksMember ==
  ASSUME NEW D, D \subseteq Nat, IsFiniteSet(D), NEW f \in [D -> Order]
  PROVE  f \in Books
  <1>1. DOMAIN f = D
    OBVIOUS
  <1>2. QED
    BY <1>1 DEF Books

\* What inserting an order does to the map.
LEMMA Entered ==
  ASSUME NEW f \in Books, NEW id \in Nat, NEW order \in Order
  PROVE  /\ Insert(f, id, order) \in Books
         /\ DOMAIN Insert(f, id, order) = DOMAIN f \cup {id}
         /\ Insert(f, id, order)[id] = order
         /\ \A j \in DOMAIN f \ {id} : Insert(f, id, order)[j] = f[j]
  <1> DEFINE h == Insert(f, id, order)
  <1>1. h = [j \in DOMAIN f \cup {id} |-> IF j = id THEN order ELSE f[j]]
    BY DEF Insert
  <1> HIDE DEF h
  <1>2. IsFiniteSet(DOMAIN f \cup {id}) /\ DOMAIN f \cup {id} \subseteq Nat
    BY BooksFacts, FS_AddElement
  <1>3. h \in [DOMAIN f \cup {id} -> Order]
    BY <1>1, BooksFacts
  <1>4. h \in Books
    BY <1>2, <1>3, BooksMember
  <1>5. DOMAIN h = DOMAIN f \cup {id} /\ h[id] = order
        /\ \A j \in DOMAIN f \ {id} : h[j] = f[j]
    BY <1>1
  <1>6. QED
    BY <1>4, <1>5 DEF h

OrderMsg == [queue : {"order"}, id : Nat, status : Statuses, filled : Nat, remaining : Nat]
TradeMsg == [queue : {"trade"}, trade : Nat, id : Nat, side : Sides, quantity : Nat]

\* All that a callback may change, and what it must leave.
Keeps(x, y) ==
  /\ y.position = x.position
  /\ y.fills = x.fills
  /\ y.seen = x.seen
  /\ \A id \in DOMAIN x.orders :
       id < x.nextId /\ x.orders[id].status \in Terminal =>
         id \in DOMAIN y.orders /\ y.orders[id].status \in Terminal

\* on_action_sent of an action that carries a new id touches neither the ledger nor an
\* order that was finished before.
LEMMA SentKeeps ==
  ASSUME NEW x \in RunnerState, NEW y \in RunnerState, Keeps(x, y), NEW a \in Action,
         a.kind = "new" => a.id >= x.nextId
  PROVE  /\ OnActionSent(y, a) \in RunnerState
         /\ Keeps(x, OnActionSent(y, a))
         /\ OnActionSent(y, a).nextId = y.nextId
  <1> DEFINE z == OnActionSent(y, a)
  <1>1. CASE a.kind = "new"
    <2> DEFINE order == Sent(a)
    <2>1. a.id \in Nat /\ order \in Order
      BY <1>1 DEF Action, Order, Statuses, Sent
    <2>2. z = [y EXCEPT !.orders = Insert(@, a.id, order)]
      BY <1>1 DEF OnActionSent
    <2> HIDE DEF order
    <2>3. y.orders \in Books
      BY DEF RunnerState
    <2>4. /\ Insert(y.orders, a.id, order) \in Books
          /\ \A j \in DOMAIN y.orders \ {a.id} : Insert(y.orders, a.id, order)[j] = y.orders[j]
          /\ DOMAIN Insert(y.orders, a.id, order) = DOMAIN y.orders \cup {a.id}
      <3>1. \A g \in Books : \A i \in Nat : \A o \in Order :
              /\ Insert(g, i, o) \in Books
              /\ \A j \in DOMAIN g \ {i} : Insert(g, i, o)[j] = g[j]
              /\ DOMAIN Insert(g, i, o) = DOMAIN g \cup {i}
        BY Entered
      <3>2. QED
        BY <2>1, <2>3, <3>1, Zenon
    <2> HIDE DEF z
    <2> DEFINE f == Insert(y.orders, a.id, order)
    <2>0. z = [y EXCEPT !.orders = f] /\ f \in Books
      BY <2>2, <2>4
    <2> HIDE DEF f
    <2>5. /\ z.position = y.position /\ z.fills = y.fills /\ z.seen = y.seen
          /\ z.nextId = y.nextId /\ z.orders = f
      BY <2>0 DEF RunnerState
    <2>6. z \in RunnerState
      BY <2>0 DEF RunnerState
    <2>7. ASSUME NEW id \in DOMAIN x.orders, id < x.nextId, x.orders[id].status \in Terminal
          PROVE  id \in DOMAIN z.orders /\ z.orders[id].status \in Terminal
      <3>1. id \in DOMAIN y.orders /\ y.orders[id].status \in Terminal
        BY <2>7 DEF Keeps
      <3>2. id # a.id
        <4>1. id \in Nat /\ x.nextId \in Nat
          BY BooksFacts DEF RunnerState
        <4>2. QED
          BY <1>1, <2>1, <2>7, <4>1
      <3>3. QED
        BY <2>4, <2>5, <3>1, <3>2 DEF f
    <2>8. QED
      BY <2>5, <2>6, <2>7 DEF Keeps, z
  <1>2. CASE a.kind # "new" /\ a.kind = "cancel" /\ a.id \in DOMAIN y.orders
                            /\ y.orders[a.id].status \notin Terminal
    <2>1. z = [y EXCEPT !.orders[a.id].status = "PendingCancel"]
      BY <1>2 DEF OnActionSent
    <2>2. y.orders \in Books /\ y.orders[a.id] \in Order
      BY <1>2, BooksFacts DEF RunnerState
    <2> DEFINE order == [y.orders[a.id] EXCEPT !.status = "PendingCancel"]
    <2>3. order \in Order
      BY <2>2 DEF Order, Statuses
    <2> DEFINE f == [y.orders EXCEPT ![a.id] = order]
    <2> HIDE DEF z
    <2>4. /\ z.position = y.position /\ z.fills = y.fills /\ z.seen = y.seen
          /\ z.nextId = y.nextId /\ z.orders = f
      BY <2>1 DEF RunnerState
    <2>5. f \in [DOMAIN y.orders -> Order]
      <3> HIDE DEF order
      <3>1. QED
        BY <2>2, <2>3, BooksFacts
    <2>6. f \in Books
      <3> HIDE DEF f
      <3>1. QED
        BY <2>2, <2>5, BooksFacts, BooksMember
    <2>7. z \in RunnerState
      <3> HIDE DEF f
      <3>1. z = [y EXCEPT !.orders = f]
        BY <2>1 DEF f
      <3>2. QED
        BY <3>1, <2>6 DEF RunnerState
    <2>8. ASSUME NEW id \in DOMAIN x.orders, id < x.nextId, x.orders[id].status \in Terminal
          PROVE  id \in DOMAIN z.orders /\ z.orders[id].status \in Terminal
      <3>1. id \in DOMAIN y.orders /\ y.orders[id].status \in Terminal
        BY <2>8 DEF Keeps
      <3>2. id # a.id
        BY <1>2, <3>1
      <3>3. QED
        BY <2>4, <3>1, <3>2
    <2>9. QED
      BY <2>4, <2>7, <2>8 DEF Keeps, z
  <1>3. CASE a.kind # "new" /\ ~ (a.kind = "cancel" /\ a.id \in DOMAIN y.orders
                                  /\ y.orders[a.id].status \notin Terminal)
    <2>1. z = y
      BY <1>3 DEF OnActionSent
    <2>2. QED
      BY <2>1
  <1>4. QED
    BY <1>1, <1>2, <1>3

--------------------------------------------------------------------------------
(* Order ids.                                                              *)

\* The order ids in a sequence of actions grow, from low up to below high.
Numbered(actions, low, high) ==
  /\ \A i \in DOMAIN actions : actions[i].kind = "new" =>
       low <= actions[i].id /\ actions[i].id < high
  /\ \A i, j \in DOMAIN actions :
       i < j /\ actions[i].kind = "new" /\ actions[j].kind = "new" =>
         actions[i].id < actions[j].id

\* Where a sequence has new orders.
News(actions) == {i \in DOMAIN actions : actions[i].kind = "new"}

\* An action sequence holds finitely many new orders.
LEMMA NewsFinite ==
  ASSUME NEW A, NEW a \in Seq(A)
  PROVE  IsFiniteSet(News(a)) /\ Cardinality(News(a)) \in Nat
         /\ Drawn(a) = Cardinality(News(a))
  <1>1. IsFiniteSet(1..Len(a)) /\ DOMAIN a = 1..Len(a)
    BY FS_Interval
  <1>2. News(a) \in SUBSET (1..Len(a))
    BY <1>1 DEF News
  <1>3. IsFiniteSet(News(a))
    BY <1>1, <1>2, FS_Subset
  <1>4. QED
    BY <1>3, FS_CardinalityType DEF Drawn, News

\* Two sequences after each other have drawn the ids of both.
LEMMA DrawnFrom ==
  ASSUME NEW A, NEW a \in Seq(A), NEW b \in Seq(A)
  PROVE  Drawn(a) \in Nat /\ Drawn(b) \in Nat /\ Drawn(a \o b) = Drawn(a) + Drawn(b)
  <1> DEFINE B == {i + Len(a) : i \in News(b)}
             f == [i \in News(b) |-> i + Len(a)]
  <1>1. a \o b \in Seq(A) /\ Len(a \o b) = Len(a) + Len(b) /\ Len(a) \in Nat
        /\ Len(b) \in Nat
        /\ DOMAIN a = 1..Len(a) /\ DOMAIN b = 1..Len(b)
             /\ DOMAIN (a \o b) = 1..(Len(a) + Len(b))
    OBVIOUS
  <1>2. \A i \in 1..Len(a) : (a \o b)[i] = a[i]
    OBVIOUS
  <1>3. \A i \in 1..Len(b) : (a \o b)[i + Len(a)] = b[i]
    OBVIOUS
  <1>4. News(a \o b) = News(a) \cup B
    <2>1. ASSUME NEW i \in News(a \o b) PROVE i \in News(a) \cup B
      <3>1. i \in 1..(Len(a) + Len(b)) /\ (a \o b)[i].kind = "new"
        BY <1>1 DEF News
      <3>2. CASE i <= Len(a)
        BY <1>1, <1>2, <3>1, <3>2 DEF News
      <3>3. CASE i > Len(a)
        <4>1. i - Len(a) \in 1..Len(b) /\ i = (i - Len(a)) + Len(a)
          BY <1>1, <3>1, <3>3
        <4>2. b[i - Len(a)].kind = "new"
          BY <1>3, <3>1, <4>1
        <4>3. i - Len(a) \in News(b)
          BY <1>1, <4>1, <4>2 DEF News
        <4>4. QED
          BY <4>1, <4>3
      <3>4. QED
        BY <1>1, <3>1, <3>2, <3>3
    <2>2. ASSUME NEW i \in News(a) PROVE i \in News(a \o b)
      BY <1>1, <1>2 DEF News
    <2>3. ASSUME NEW i \in News(b) PROVE i + Len(a) \in News(a \o b)
      <3>1. i \in 1..Len(b) /\ b[i].kind = "new"
        BY <1>1 DEF News
      <3>2. i + Len(a) \in 1..(Len(a) + Len(b))
        BY <1>1, <3>1
      <3>3. QED
        BY <1>1, <1>3, <3>1, <3>2 DEF News
    <2>4. QED
      BY <2>1, <2>2, <2>3
  <1>5. IsFiniteSet(B) /\ Cardinality(B) = Cardinality(News(b))
    <2>0. News(b) \subseteq 1..Len(b)
      BY <1>1 DEF News
    <2>1. f \in Bijection(News(b), B)
      <3>1. f \in [News(b) -> B]
        OBVIOUS
      <3>2. \A i, j \in News(b) : f[i] = f[j] => i = j
        BY <1>1, <2>0
      <3>3. \A y \in B : \E i \in News(b) : f[i] = y
        OBVIOUS
      <3>4. QED
        BY <3>1, <3>2, <3>3 DEF Bijection, Injection, Surjection, IsInjective
    <2>2. IsFiniteSet(News(b))
      BY NewsFinite
    <2>3. ExistsBijection(News(b), B)
      BY <2>1 DEF ExistsBijection
    <2>4. QED
      BY <2>2, <2>3, FS_Bijection
  <1>6. News(a) \cap B = {}
    <2>1. \A i \in News(a) : i <= Len(a)
      BY <1>1 DEF News
    <2>2. \A i \in B : i > Len(a)
      BY <1>1 DEF News
    <2>3. News(a) \subseteq Nat
      BY <1>1 DEF News
    <2>4. QED
      <3> HIDE DEF B, f
      <3>1. ASSUME NEW i \in News(a), i \in B PROVE FALSE
        BY <1>1, <2>1, <2>2, <2>3, <3>1
      <3>2. QED
        BY <3>1
  <1>7. Cardinality(News(a) \cup B) = Cardinality(News(a)) + Cardinality(B) - 0
    BY <1>5, <1>6, NewsFinite, FS_Union, FS_EmptySet
  <1>8. Drawn(a \o b) = Cardinality(News(a)) + Cardinality(News(b))
    <2>1. Drawn(a \o b) = Cardinality(News(a \o b))
      BY <1>1, NewsFinite
    <2>2. Cardinality(News(a)) \in Nat /\ Cardinality(News(b)) \in Nat
      BY NewsFinite
    <2>3. QED
      BY <1>4, <1>5, <1>7, <2>1, <2>2
  <1>9. QED
    BY <1>8, NewsFinite

\* Numbered sequences after each other are numbered, when the ranges of ids are.
LEMMA NumberedJoin ==
  ASSUME NEW a \in Seq(Action), NEW b \in Seq(Action), NEW low \in Nat, NEW mid \in Nat,
         NEW high \in Nat, low <= mid, mid <= high,
         Numbered(a, low, mid), Numbered(b, mid, high)
  PROVE  a \o b \in Seq(Action) /\ Numbered(a \o b, low, high)
  <1> DEFINE c == a \o b
  <1>1. c \in Seq(Action) /\ DOMAIN c = 1..(Len(a) + Len(b)) /\ Len(a) \in Nat
        /\ Len(b) \in Nat
        /\ DOMAIN a = 1..Len(a) /\ DOMAIN b = 1..Len(b)
    OBVIOUS
  <1>2. \A i \in 1..(Len(a) + Len(b)) :
          \/ i \in DOMAIN a /\ i <= Len(a) /\ c[i] = a[i]
          \/ i > Len(a) /\ i - Len(a) \in DOMAIN b /\ c[i] = b[i - Len(a)]
    OBVIOUS
  <1> HIDE DEF c
  <1>3. \A i \in DOMAIN c : c[i].kind = "new" => c[i].id \in Nat
    BY <1>1 DEF Action
  <1>4. ASSUME NEW i \in DOMAIN c, c[i].kind = "new" PROVE low <= c[i].id /\ c[i].id < high
    <2>1. CASE i \in DOMAIN a /\ c[i] = a[i]
      <3>1. low <= c[i].id /\ c[i].id < mid
        BY <1>4, <2>1 DEF Numbered
      <3>2. QED
        BY <1>3, <1>4, <3>1
    <2>2. CASE i - Len(a) \in DOMAIN b /\ c[i] = b[i - Len(a)]
      <3>1. mid <= c[i].id /\ c[i].id < high
        BY <1>4, <2>2 DEF Numbered
      <3>2. QED
        BY <1>3, <1>4, <3>1
    <2>3. QED
      BY <1>1, <1>2, <2>1, <2>2
  <1>5. ASSUME NEW i \in DOMAIN c, NEW j \in DOMAIN c, i < j,
               c[i].kind = "new", c[j].kind = "new"
        PROVE  c[i].id < c[j].id
    <2>1. CASE i > Len(a)
      <3>1. i \in Nat /\ j \in Nat /\ i \in 1..(Len(a) + Len(b))
            /\ j \in 1..(Len(a) + Len(b))
        BY <1>1
      <3>2. j > Len(a) /\ i - Len(a) < j - Len(a)
        BY <1>1, <1>5, <2>1, <3>1
      <3>3. ~ (i <= Len(a)) /\ ~ (j <= Len(a))
        BY <1>1, <2>1, <3>1, <3>2
      <3>4. i - Len(a) \in DOMAIN b /\ c[i] = b[i - Len(a)]
        BY <1>2, <3>1, <3>3
      <3>5. j - Len(a) \in DOMAIN b /\ c[j] = b[j - Len(a)]
        BY <1>2, <3>1, <3>3
      <3>6. QED
        BY <1>5, <3>2, <3>4, <3>5 DEF Numbered
    <2>2. CASE j <= Len(a)
      <3>1. i \in DOMAIN a /\ c[i] = a[i] /\ j \in DOMAIN a /\ c[j] = a[j]
        BY <1>1, <1>2, <1>5, <2>2
      <3>2. QED
        BY <1>5, <3>1 DEF Numbered
    <2>3. CASE i <= Len(a) /\ j > Len(a)
      <3>1. i \in DOMAIN a /\ c[i] = a[i] /\ j - Len(a) \in DOMAIN b /\ c[j] = b[j - Len(a)]
        BY <1>1, <1>2, <2>3
      <3>2. c[i].id < mid /\ mid <= c[j].id
        BY <1>5, <3>1 DEF Numbered
      <3>3. QED
        BY <1>3, <1>5, <3>2
    <2>4. QED
      BY <1>1, <2>1, <2>2, <2>3
  <1>6. QED
    BY <1>1, <1>4, <1>5 DEF Numbered, c

\* What a sequence over a set is.
LEMMA ElementOf ==
  ASSUME NEW A, NEW s \in Seq(A)
  PROVE  Len(s) \in Nat /\ DOMAIN s = 1..Len(s) /\ \A i \in 1..Len(s) : s[i] \in A
  OBVIOUS

\* An exposure is an integer ...
LEMMA ExposureTyped ==
  ASSUME NEW order \in Order
  PROVE  Exposure(order) \in Int
  BY DEF Exposure, Order, Signed

\* ... and so is their sum over the orders.
LEMMA EffectiveTyped ==
  ASSUME NEW x \in RunnerState
  PROVE  EffectivePosition(x) \in Int
  <1> DEFINE S == DOMAIN x.orders
             c == [T \in SUBSET S |-> CHOOSE id \in T : TRUE]
             F == [id \in S |-> [v \in Int |-> Exposure(x.orders[id]) + v]]
             R(h) == [T \in SUBSET S |->
                        IF T = {} THEN 0
                        ELSE Exposure(x.orders[CHOOSE id \in T : TRUE])
                             + h[T \ {CHOOSE id \in T : TRUE}]]
             g == CHOOSE h : h = R(h)
  <1>1. x.orders \in Books /\ x.position \in Int
    BY DEF RunnerState
  <1>2. IsFiniteSet(S) /\ \A id \in S : x.orders[id] \in Order
    BY <1>1, BooksFacts
  <1>3. ASSUME NEW T \in SUBSET S, T # {} PROVE c[T] \in T /\ (CHOOSE id \in T : TRUE) \in T
    BY <1>3
  <1>4. \A id \in S : Exposure(x.orders[id]) \in Int
    BY <1>2, ExposureTyped
  <1>5. \A id \in S, v \in Int : F[id][v] \in Int
    <2> HIDE DEF S
    <2>1. QED
      BY <1>4
  <1>6. \E h \in [SUBSET S -> Int] : Recursion(h, S, 0, c, F)
    <2> HIDE DEF S, F, c
    <2>1. \A T \in SUBSET S : T # {} => c[T] \in T
      BY <1>3
    <2>2. 0 \in Int
      OBVIOUS
    <2>3. QED
      BY <1>2, <1>5, <2>1, <2>2, RecursionExists
  <1>7. PICK h \in [SUBSET S -> Int] : Recursion(h, S, 0, c, F)
    BY <1>6
  <1>8. ASSUME NEW T \in SUBSET S, T # {}
        PROVE  F[c[T]][h[T \ {c[T]}]] = Exposure(x.orders[CHOOSE id \in T : TRUE])
                                       + h[T \ {CHOOSE id \in T : TRUE}]
    <2>1. (CHOOSE id \in T : TRUE) \in S /\ h[T \ {CHOOSE id \in T : TRUE}] \in Int
      BY <1>3, <1>8
    <2>2. QED
      BY <2>1
  <1>9. h = R(h)
    <2> HIDE DEF F, c
    <2>1. QED
      BY <1>7, <1>8 DEF Recursion
  <1>10. g = R(g)
    BY <1>9
  <1> DEFINE G == {T \in SUBSET S : g[T] \in Int}
  <1>11. ASSUME NEW T \in SUBSET S, \A U \in SUBSET T : U # T => U \in G
         PROVE  T \in G
    <2>1. CASE T = {}
      <3>1. R(g)[T] = 0
        BY <2>1
      <3>2. g[T] = 0
        <4> HIDE DEF g, R
        <4>1. QED
          BY <1>10, <3>1
      <3>3. QED
        BY <3>2
    <2>2. CASE T # {}
      <3>1. (CHOOSE id \in T : TRUE) \in T
        BY <1>3, <2>2
      <3>2. g[T \ {CHOOSE id \in T : TRUE}] \in Int
        BY <1>11, <3>1
      <3>3. R(g)[T] = Exposure(x.orders[CHOOSE id \in T : TRUE])
                      + g[T \ {CHOOSE id \in T : TRUE}]
        BY <2>2
      <3>4. R(g)[T] \in Int
        BY <1>4, <3>1, <3>2, <3>3
      <3>5. QED
        BY <1>10, <3>4
    <2>3. QED
      BY <2>1, <2>2
  <1>12. S \in G
    <2> HIDE DEF S, G
    <2>1. QED
      BY <1>2, <1>11, SubsetInduction
  <1>13. EffectivePosition(x) = x.position + g[S]
    BY DEF EffectivePosition, FoldFunction, FoldFunctionOnSet, MapThenFoldSet
  <1>14. g[S] \in Int
    BY <1>12
  <1>15. QED
    <2> HIDE DEF g, S
    <2>1. QED
      BY <1>1, <1>13, <1>14

\* One intent draws its order ids consecutively from the given one.
LEMMA ActionsNumbered ==
  ASSUME NEW x \in RunnerState, NEW intent \in Intents, NEW id \in Nat
  PROVE  LET a == ActionsOf(intent, x, id)
         IN  a \in Seq(Action) /\ Numbered(a, id, id + Drawn(a))
  <1> DEFINE a == ActionsOf(intent, x, id)
             delta == intent.target - EffectivePosition(x)
  <1> SUFFICES a \in Seq(Action) /\ Numbered(a, id, id + Drawn(a))
    OBVIOUS
  <1>1. ASSUME NEW s \in Seq(Action), News(s) = {} PROVE Numbered(s, id, id + Drawn(s))
    BY <1>1 DEF Numbered, News
  <1>2. ASSUME NEW n \in Nat, NEW s \in Seq(Action), Len(s) = n,
               \A i \in 1..n : s[i].kind = "new" /\ s[i].id = id + i - 1
        PROVE  Numbered(s, id, id + Drawn(s))
    <2>1. DOMAIN s = 1..n
      BY <1>2
    <2>2. News(s) = 1..n
      BY <1>2, <2>1 DEF News
    <2>3. Drawn(s) = n
      <3>1. Cardinality(1..n) = n
        BY FS_Interval
      <3>2. QED
        BY <2>2, <3>1, NewsFinite
    <2>4. QED
      BY <1>2, <2>1, <2>3 DEF Numbered
  <1>3. ASSUME NEW side \in Sides, NEW q \in Nat, a = <<NewOrder(id, side, q)>>
        PROVE  a \in Seq(Action) /\ Numbered(a, id, id + Drawn(a))
    <2>1. NewOrder(id, side, q) \in Action
      BY DEF NewOrder, Action
    <2>2. a \in Seq(Action) /\ Len(a) = 1 /\ a[1] = NewOrder(id, side, q)
      BY <1>3, <2>1
    <2> HIDE DEF a
    <2>3. \A i \in 1..1 : a[i].kind = "new" /\ a[i].id = id + i - 1
      BY <2>2 DEF NewOrder
    <2>4. QED
      BY <1>2, <2>2, <2>3
  <1>4. CASE intent.kind = "target"
    <2>1. delta \in Int
      <3>1. intent.target \in Int
        BY <1>4 DEF Intents
      <3>2. QED
        BY <3>1, EffectiveTyped
    <2>2. CASE delta = 0
      <3>1. a = << >>
        BY <1>4, <2>2 DEF ActionsOf
      <3>2. News(<< >>) = {}
        BY DEF News
      <3> HIDE DEF a
      <3>3. a \in Seq(Action) /\ News(a) = {}
        BY <3>1, <3>2
      <3>4. QED
        BY <1>1, <3>3
    <2>3. CASE delta > 0
      <3>1. a = <<NewOrder(id, "Buy", delta)>>
        BY <1>4, <2>1, <2>3 DEF ActionsOf
      <3> HIDE DEF a, delta
      <3>2. delta \in Nat /\ "Buy" \in Sides
        BY <2>1, <2>3 DEF Sides
      <3>3. QED
        BY <1>3, <3>1, <3>2
    <2>4. CASE delta < 0
      <3>1. a = <<NewOrder(id, "Sell", -delta)>>
        BY <1>4, <2>1, <2>4 DEF ActionsOf
      <3> HIDE DEF a, delta
      <3>2. -delta \in Nat /\ "Sell" \in Sides
        BY <2>1, <2>4 DEF Sides
      <3>3. QED
        BY <1>3, <3>1, <3>2
    <2>5. QED
      <3> HIDE DEF delta
      <3>1. QED
        BY <2>1, <2>2, <2>3, <2>4
  <1>5. CASE intent.kind = "orders"
    <2> DEFINE n == Len(intent.orders)
    <2>1. intent.orders \in Seq([side : Sides, quantity : Nat])
      BY <1>5 DEF Intents
    <2>2. n \in Nat /\ \A i \in 1..n : intent.orders[i] \in [side : Sides, quantity : Nat]
      BY <2>1, ElementOf
    <2>3. a = [i \in 1..n |->
                 NewOrder(id + i - 1, intent.orders[i].side, intent.orders[i].quantity)]
      BY <1>5 DEF ActionsOf
    <2> HIDE DEF a, n
    <2>4. ASSUME NEW i \in 1..n
          PROVE  /\ NewOrder(id + i - 1, intent.orders[i].side, intent.orders[i].quantity)
                      \in Action
                 /\ a[i].kind = "new" /\ a[i].id = id + i - 1
      <3>1. id + i - 1 \in Nat
        BY <2>2
      <3>2. QED
        BY <2>2, <2>3, <3>1 DEF NewOrder, Action
    <2>5. a \in [1..n -> Action]
      BY <2>3, <2>4
    <2>6. a \in Seq(Action) /\ Len(a) = n
      BY <2>2, <2>5
    <2>7. QED
      BY <1>2, <2>2, <2>4, <2>6
  <1>6. CASE intent.kind = "cancel"
    <2>1. a = <<[kind |-> "cancel", id |-> intent.id]>> /\ intent.id \in Nat
      BY <1>6 DEF ActionsOf, Intents
    <2> HIDE DEF a
    <2>2. a \in Seq(Action)
      BY <2>1 DEF Action
    <2>3. News(a) = {}
      BY <2>1 DEF News
    <2>4. QED
      BY <1>1, <2>2, <2>3
  <1>7. CASE intent.kind = "cancel_all"
    <2> DEFINE D == DOMAIN x.orders
               n == Cardinality(D)
               ids == SetToSeq(D)
    <2>1. D \subseteq Nat /\ IsFiniteSet(D)
      BY BooksFacts DEF RunnerState
    <2>2. n \in Nat /\ \E f : f \in [1..n -> D] /\ IsInjective(f)
      <3> HIDE DEF D
      <3>1. n \in Nat /\ ExistsBijection(1..n, D)
        BY <2>1, FS_CardinalityType
      <3>2. QED
        BY <3>1 DEF ExistsBijection, Bijection, Injection, IsInjective
    <2>3. ids \in [1..n -> D]
      <3> HIDE DEF D
      <3>1. QED
        BY <2>2 DEF SetToSeq
    <2>4. a = [i \in 1..Len(ids) |-> [kind |-> "cancel", id |-> ids[i]]]
      BY <1>7 DEF ActionsOf
    <2> HIDE DEF a, D, n, ids
    <2>5. Len(ids) = n
      BY <2>2, <2>3
    <2>6. a \in [1..n -> Action]
      BY <2>1, <2>3, <2>4, <2>5 DEF Action
    <2>7. a \in Seq(Action)
      BY <2>2, <2>6
    <2>8. News(a) = {}
      BY <2>4, <2>5 DEF News
    <2>9. QED
      BY <1>1, <2>7, <2>8
  <1>8. QED
    BY <1>4, <1>5, <1>6, <1>7 DEF Intents

\* A batch of intents draws its order ids consecutively from the counter.
LEMMA ExecuteNumbered ==
  ASSUME NEW x \in RunnerState, NEW batch \in Seq(Intents)
  PROVE  LET a == Execute(x, batch)
         IN  a \in Seq(Action) /\ Numbered(a, x.nextId, x.nextId + Drawn(a))
  <1> DEFINE V == {a \in Seq(Action) : Numbered(a, x.nextId, x.nextId + Drawn(a))}
  <1>1. x.nextId \in Nat
    BY DEF RunnerState
  <1>2. << >> \in V
    <2>1. << >> \in Seq(Action)
      OBVIOUS
    <2>2. Numbered(<< >>, x.nextId, x.nextId + Drawn(<< >>))
      BY DEF Numbered
    <2>3. QED
      BY <2>1, <2>2
  <1>3. ASSUME NEW v \in V, NEW i \in 1..Len(batch)
        PROVE  v \o ActionsOf(batch[i], x, x.nextId + Drawn(v)) \in V
    <2> DEFINE b == ActionsOf(batch[i], x, x.nextId + Drawn(v))
    <2>1. v \in Seq(Action) /\ Numbered(v, x.nextId, x.nextId + Drawn(v))
      OBVIOUS
    <2>2. x.nextId + Drawn(v) \in Nat /\ Drawn(v) \in Nat
      <3>1. Drawn(v) \in Nat
        BY <2>1, NewsFinite
      <3>2. QED
        BY <1>1, <3>1
    <2>3. batch[i] \in Intents
      BY ElementOf
    <2>4. b \in Seq(Action) /\ Numbered(b, x.nextId + Drawn(v), x.nextId + Drawn(v) + Drawn(b))
      <3> HIDE DEF V
      <3>1. QED
        BY <2>2, <2>3, ActionsNumbered
    <2>5. Drawn(b) \in Nat /\ Drawn(v \o b) = Drawn(v) + Drawn(b)
      <3> HIDE DEF V, b
      <3>1. QED
        BY <2>1, <2>4, DrawnFrom
    <2> DEFINE mid  == x.nextId + Drawn(v)
               high == x.nextId + Drawn(v \o b)
    <2>6. high = mid + Drawn(b) /\ mid \in Nat /\ high \in Nat /\ x.nextId <= mid
          /\ mid <= high
      <3> HIDE DEF V, b
      <3>1. QED
        BY <1>1, <2>2, <2>5
    <2>7. v \o b \in Seq(Action) /\ Numbered(v \o b, x.nextId, high)
      <3>1. Numbered(v, x.nextId, mid) /\ Numbered(b, mid, high)
        <4> HIDE DEF V, b
        <4>1. QED
          BY <2>1, <2>4, <2>6
      <3> HIDE DEF V, b, mid, high
      <3>2. QED
        BY <1>1, <2>1, <2>4, <2>6, <3>1, NumberedJoin
    <2> HIDE DEF b
    <2>8. QED
      BY <2>7 DEF b
  <1>4. Execute(x, batch) \in V
    <2>1. DOMAIN batch = 1..Len(batch) /\ Len(batch) \in Nat
      BY ElementOf
    <2>2. \A v \in V : \A i \in 1..Len(batch) :
            v \o ActionsOf(batch[i], x, x.nextId + Drawn(v)) \in V
      BY <1>3
    <2> HIDE DEF V
    <2>3. QED
      BY <1>2, <2>1, <2>2, ExecuteStays
  <1>5. QED
    BY <1>4

\* Recording what a batch became keeps ledger and finished orders, and moves the counter
\* past the ids drawn.
LEMMA RecordedKeeps ==
  ASSUME NEW x \in RunnerState, NEW a \in Seq(Action),
         Numbered(a, x.nextId, x.nextId + Drawn(a))
  PROVE  /\ Recorded(x, a) \in RunnerState
         /\ Keeps(x, Recorded(x, a))
         /\ Recorded(x, a).nextId = x.nextId + Drawn(a)
  <1> DEFINE b == [x EXCEPT !.nextId = @ + Drawn(a)]
             V == {y \in RunnerState : Keeps(x, y) /\ y.nextId = x.nextId + Drawn(a)}
  <1>1. x.nextId \in Nat /\ Drawn(a) \in Nat /\ x.nextId + Drawn(a) \in Nat
    <2>1. Drawn(a) \in Nat
      BY NewsFinite
    <2>2. QED
      BY <2>1 DEF RunnerState
  <1>2. b \in V
    <2>1. b \in RunnerState
      BY <1>1 DEF RunnerState
    <2>2. b.nextId = x.nextId + Drawn(a) /\ b.orders = x.orders /\ b.seen = x.seen
          /\ b.position = x.position /\ b.fills = x.fills
      BY DEF RunnerState
    <2>3. Keeps(x, b)
      BY <2>2 DEF Keeps
    <2>4. QED
      BY <2>1, <2>2, <2>3
  <1>3. ASSUME NEW y \in V, NEW i \in 1..Len(a) PROVE OnActionSent(y, a[i]) \in V
    <2>1. a[i] \in Action /\ i \in DOMAIN a
      BY ElementOf
    <2>2. a[i].kind = "new" => a[i].id >= x.nextId
      <3>1. a[i].kind = "new" => a[i].id \in Nat /\ x.nextId <= a[i].id
        BY <2>1 DEF Numbered, Action
      <3>2. QED
        BY <1>1, <3>1
    <2>3. y \in RunnerState /\ Keeps(x, y) /\ y.nextId = x.nextId + Drawn(a)
      OBVIOUS
    <2> HIDE DEF V
    <2>4. /\ OnActionSent(y, a[i]) \in RunnerState
          /\ Keeps(x, OnActionSent(y, a[i]))
          /\ OnActionSent(y, a[i]).nextId = y.nextId
      BY <2>1, <2>2, <2>3, SentKeeps
    <2>5. QED
      BY <2>3, <2>4 DEF V
  <1>4. Recorded(x, a) \in V
    <2>1. DOMAIN a = 1..Len(a) /\ Len(a) \in Nat
      BY ElementOf
    <2>2. \A y \in V : \A i \in 1..Len(a) : OnActionSent(y, a[i]) \in V
      BY <1>3
    <2>3. Recorded(x, a) = FoldLeft(OnActionSent, b, a)
      BY DEF Recorded
    <2> HIDE DEF V, b
    <2>4. QED
      BY <1>2, <2>1, <2>2, <2>3, RecordedStays
  <1>5. QED
    BY <1>4

\* What callbacks that start from x may lead to.
Outcomes(x) ==
  {o \in [state : RunnerState, actions : Seq(Action)] :
     /\ Keeps(x, o.state)
     /\ x.nextId <= o.state.nextId
     /\ Numbered(o.actions, x.nextId, o.state.nextId)}

\* One more callback.
LEMMA AfterCallbackKeeps ==
  ASSUME NEW x \in RunnerState, NEW o \in Outcomes(x), NEW batch \in Seq(Intents)
  PROVE  AfterCallback(o, batch) \in Outcomes(x)
  <1> DEFINE a == Execute(o.state, batch)
             y == Recorded(o.state, a)
             r == AfterCallback(o, batch)
  <1>1. /\ o.state \in RunnerState
        /\ o.actions \in Seq(Action)
        /\ Keeps(x, o.state)
        /\ x.nextId <= o.state.nextId
        /\ Numbered(o.actions, x.nextId, o.state.nextId)
    BY DEF Outcomes
  <1>2. a \in Seq(Action) /\ Numbered(a, o.state.nextId, o.state.nextId + Drawn(a))
    BY <1>1, ExecuteNumbered
  <1>3. r = [state |-> y, actions |-> o.actions \o a]
    BY DEF AfterCallback
  <1> HIDE DEF r, a
  <1>4. /\ y \in RunnerState
        /\ Keeps(o.state, y)
        /\ y.nextId = o.state.nextId + Drawn(a)
    BY <1>1, <1>2, RecordedKeeps
  <1> HIDE DEF y
  <1>5. /\ x.nextId \in Nat /\ o.state.nextId \in Nat /\ y.nextId \in Nat
        /\ o.state.nextId <= y.nextId /\ x.nextId <= y.nextId
    <2>1. Drawn(a) \in Nat
      BY <1>2, NewsFinite
    <2>2. x.nextId \in Nat /\ o.state.nextId \in Nat
      BY <1>1 DEF RunnerState
    <2>3. QED
      BY <1>1, <1>4, <2>1, <2>2
  <1>6. o.actions \o a \in Seq(Action) /\ Numbered(o.actions \o a, x.nextId, y.nextId)
    <2>1. Numbered(a, o.state.nextId, y.nextId)
      BY <1>2, <1>4
    <2>2. QED
      BY <1>1, <1>2, <1>5, <2>1, NumberedJoin
  <1>7. Keeps(x, y)
    <2>1. /\ y.position = x.position
          /\ y.fills = x.fills
          /\ y.seen = x.seen
      BY <1>1, <1>4 DEF Keeps
    <2>2. ASSUME NEW id \in DOMAIN x.orders, id < x.nextId, x.orders[id].status \in Terminal
          PROVE  id \in DOMAIN y.orders /\ y.orders[id].status \in Terminal
      <3>1. id \in DOMAIN o.state.orders /\ o.state.orders[id].status \in Terminal
        BY <1>1, <2>2 DEF Keeps
      <3>2. id < o.state.nextId
        <4>1. id \in Nat
          BY BooksFacts DEF RunnerState
        <4>2. QED
          BY <1>1, <1>5, <2>2, <4>1
      <3>3. QED
        BY <1>4, <3>1, <3>2 DEF Keeps
    <2>3. QED
      BY <2>1, <2>2 DEF Keeps
  <1>8. r \in [state : RunnerState, actions : Seq(Action)] /\ r.state = y
        /\ r.actions = o.actions \o a
    BY <1>3, <1>4, <1>6
  <1>9. QED
    BY <1>5, <1>6, <1>7, <1>8 DEF Outcomes, r

\* Whatever a handler's callbacks submit: the ledger, the events seen and the orders that
\* were finished stay, and the new ids are fresh.
LEMMA CallbacksKeep ==
  ASSUME NEW x \in RunnerState, NEW batches \in Seq(Seq(Intents))
  PROVE  Callbacks(x, batches) \in Outcomes(x)
  <1> DEFINE b == [state |-> x, actions |-> << >>]
  <1>1. b \in Outcomes(x)
    <2>1. << >> \in Seq(Action)
      OBVIOUS
    <2>2. Keeps(x, x) /\ x.nextId <= x.nextId
      BY DEF Keeps, RunnerState
    <2>3. Numbered(<< >>, x.nextId, x.nextId)
      BY DEF Numbered
    <2>4. QED
      BY <2>1, <2>2, <2>3 DEF Outcomes
  <1>2. \A v \in Outcomes(x) : \A i \in 1..Len(batches) :
          AfterCallback(v, batches[i]) \in Outcomes(x)
    <2>1. ASSUME NEW v \in Outcomes(x), NEW i \in 1..Len(batches)
          PROVE  AfterCallback(v, batches[i]) \in Outcomes(x)
      <3>1. batches[i] \in Seq(Intents)
        BY ElementOf
      <3>2. QED
        BY <3>1, AfterCallbackKeeps
    <2>2. QED
      BY <2>1
  <1>3. DOMAIN batches = 1..Len(batches) /\ Len(batches) \in Nat
    BY ElementOf
  <1>4. Callbacks(x, batches) = FoldLeft(AfterCallback, b, batches)
    BY DEF Callbacks
  <1> HIDE DEF b
  <1>5. QED
    BY <1>1, <1>2, <1>3, <1>4, CallbacksStay

--------------------------------------------------------------------------------
(* Events.                                                                 *)

\* What an order event does to the state.
LEMMA OrderEventApplied ==
  ASSUME NEW x \in RunnerState, NEW e \in OrderMsg
  PROVE  LET z == ApplyOrderEvent(x, e)
         IN  /\ z \in RunnerState
             /\ z.position = x.position
             /\ z.fills = x.fills
             /\ z.nextId = x.nextId
             /\ z.seen = x.seen \cup {EventKey(e)}
             /\ DOMAIN z.orders = DOMAIN x.orders \cup {e.id}
             /\ z.orders[e.id].status = e.status
             /\ \A j \in DOMAIN x.orders \ {e.id} : z.orders[j] = x.orders[j]
  <1> DEFINE z == ApplyOrderEvent(x, e)
             reported == e.filled + e.remaining
             known == IF e.id \in DOMAIN x.orders THEN x.orders[e.id]
                      ELSE [side |-> "Buy", quantity |-> reported, filled |-> 0,
                            status |-> e.status]
             order == [known EXCEPT !.status = e.status,
                                    !.filled = e.filled,
                                    !.quantity = IF reported > @ THEN reported ELSE @]
             f == Insert(x.orders, e.id, order)
             seen == x.seen \cup {EventKey(e)}
  <1>1. /\ x.orders \in Books /\ e.id \in Nat /\ e.status \in Statuses
        /\ e.filled \in Nat /\ e.remaining \in Nat
    BY DEF RunnerState, OrderMsg
  <1>2. z = [x EXCEPT !.seen = seen, !.orders = f]
    BY DEF ApplyOrderEvent
  <1>3. reported \in Nat
    BY <1>1
  <1>4. known \in Order
    <2>1. CASE e.id \in DOMAIN x.orders
      BY <1>1, <2>1, BooksFacts
    <2>2. CASE e.id \notin DOMAIN x.orders
      BY <1>1, <1>3, <2>2 DEF Order, Sides
    <2>3. QED
      BY <2>1, <2>2
  <1>5. order \in Order /\ order.status = e.status
    <2> HIDE DEF known, reported
    <2>1. QED
      BY <1>1, <1>3, <1>4 DEF Order
  <1>6. seen \in SUBSET Keys
    BY <1>1 DEF RunnerState, Keys, EventKey
  <1> HIDE DEF z, order, known, reported, seen
  <1>7. /\ f \in Books
        /\ DOMAIN f = DOMAIN x.orders \cup {e.id}
        /\ f[e.id] = order
        /\ \A j \in DOMAIN x.orders \ {e.id} : f[j] = x.orders[j]
    <2>1. \A g \in Books : \A i \in Nat : \A o \in Order :
            /\ Insert(g, i, o) \in Books
            /\ DOMAIN Insert(g, i, o) = DOMAIN g \cup {i}
            /\ Insert(g, i, o)[i] = o
            /\ \A j \in DOMAIN g \ {i} : Insert(g, i, o)[j] = g[j]
      BY Entered
    <2>2. QED
      BY <1>1, <1>5, <2>1, Zenon
  <1> HIDE DEF f
  <1>8. z.position = x.position /\ z.fills = x.fills /\ z.nextId = x.nextId /\ z.seen = seen
        /\ z.orders = f
    BY <1>2 DEF RunnerState
  <1>9. z \in RunnerState
    BY <1>2, <1>6, <1>7 DEF RunnerState
  <1>10. QED
    BY <1>5, <1>7, <1>8, <1>9 DEF z, seen

\* The window of trade ids stays within its size and without repetition.
LEMMA RememberedTyped ==
  ASSUME NEW q \in Fills, NEW n \in Nat, n \notin ToSet(q)
  PROVE  /\ Remembered(q, n) \in Fills
         /\ ToSet(Remembered(q, n)) \subseteq ToSet(q) \cup {n}
  <1> DEFINE all == Append(q, n)
             l == Len(q)
  <1>1. q \in Seq(Nat) /\ l \in Nat /\ l <= FillWindow /\ DOMAIN q = 1..l
        /\ \A i, j \in 1..l : q[i] = q[j] => i = j
    BY ElementOf DEF Fills
  <1>2. /\ all \in Seq(Nat) /\ Len(all) = l + 1 /\ DOMAIN all = 1..(l + 1)
        /\ \A i \in 1..l : all[i] = q[i]
        /\ all[l + 1] = n
    BY <1>1
  <1>3. \A i \in 1..l : q[i] # n /\ q[i] \in ToSet(q)
    BY <1>1 DEF ToSet
  <1>4. ToSet(all) = ToSet(q) \cup {n}
    BY <1>1, <1>2 DEF ToSet
  <1> HIDE DEF all, l
  <1>5. \A i, j \in 1..(l + 1) : all[i] = all[j] => i = j
    <2>1. ASSUME NEW i \in 1..(l + 1), NEW j \in 1..(l + 1), all[i] = all[j] PROVE i = j
      <3>1. (i \in 1..l \/ i = l + 1) /\ (j \in 1..l \/ j = l + 1)
        BY <1>1
      <3>2. QED
        BY <1>1, <1>2, <1>3, <2>1, <3>1
    <2>2. QED
      BY <2>1
  <1>6. FillWindow \in Nat
    BY FillWindowAssumption
  <1>7. Remembered(q, n) = IF Len(all) > FillWindow THEN Tail(all) ELSE all
    BY DEF Remembered, all
  <1>8. CASE Len(all) > FillWindow
    <2> DEFINE t == Tail(all)
    <2>1. /\ t \in Seq(Nat) /\ Len(t) = l /\ DOMAIN t = 1..l
          /\ \A i \in 1..l : t[i] = all[i + 1] /\ i + 1 \in 1..(l + 1)
      BY <1>1, <1>2
    <2>2. Remembered(q, n) = t
      BY <1>7, <1>8
    <2> HIDE DEF t
    <2>3. \A i, j \in DOMAIN t : t[i] = t[j] => i = j
      <3>1. ASSUME NEW i \in DOMAIN t, NEW j \in DOMAIN t, t[i] = t[j] PROVE i = j
        <4>1. i + 1 = j + 1
          <5>1. i + 1 \in 1..(l + 1) /\ j + 1 \in 1..(l + 1)
            BY <2>1
          <5>2. all[i + 1] = all[j + 1]
            BY <2>1, <3>1
          <5>3. QED
            BY <1>5, <5>1, <5>2
        <4>2. QED
          BY <1>1, <2>1, <4>1
      <3>2. QED
        BY <3>1
    <2>4. t \in Fills
      BY <1>1, <2>1, <2>3 DEF Fills
    <2>5. ToSet(t) \subseteq ToSet(all)
      BY <1>2, <2>1 DEF ToSet
    <2>6. QED
      BY <1>4, <2>2, <2>4, <2>5
  <1>9. CASE ~ (Len(all) > FillWindow)
    <2>1. Remembered(q, n) = all
      BY <1>7, <1>9
    <2>2. all \in Fills
      BY <1>1, <1>2, <1>5, <1>6, <1>9 DEF Fills
    <2>3. QED
      BY <1>4, <2>1, <2>2
  <1>10. QED
    BY <1>8, <1>9

\* What a trade not seen before does to the state: no finished order is opened again.
LEMMA TradeApplied ==
  ASSUME NEW x \in RunnerState, NEW t \in TradeMsg, IsNewTrade(x, t)
  PROVE  LET z == ApplyTradeEvent(x, t)
         IN  /\ z \in RunnerState
             /\ z.position = x.position + Signed(t.side, t.quantity)
             /\ ToSet(z.fills) \subseteq ToSet(x.fills) \cup {t.trade}
             /\ z.nextId = x.nextId
             /\ z.seen = x.seen
             /\ DOMAIN z.orders = DOMAIN x.orders
             /\ \A id \in DOMAIN x.orders :
                  x.orders[id].status \in Terminal => z.orders[id].status \in Terminal
  <1> DEFINE z == ApplyTradeEvent(x, t)
             f == [id \in DOMAIN x.orders |->
                     IF id = t.id THEN Filled(x.orders[id], t.quantity) ELSE x.orders[id]]
             fills == Remembered(x.fills, t.trade)
             position == x.position + Signed(t.side, t.quantity)
  <1>1. /\ x.orders \in Books /\ x.fills \in Fills /\ x.position \in Int
        /\ t.trade \in Nat /\ t.quantity \in Nat /\ t.side \in Sides
    BY DEF RunnerState, TradeMsg
  <1>2. z = [x EXCEPT !.fills = fills, !.position = position, !.orders = f]
    BY DEF ApplyTradeEvent
  <1>3. fills \in Fills /\ ToSet(fills) \subseteq ToSet(x.fills) \cup {t.trade}
    BY <1>1, RememberedTyped DEF IsNewTrade
  <1>4. position \in Int
    BY <1>1 DEF Signed
  <1>5. ASSUME NEW order \in Order
        PROVE  /\ Filled(order, t.quantity) \in Order
               /\ order.status \in Terminal => Filled(order, t.quantity).status \in Terminal
    <2>1. order.filled + t.quantity \in Nat
      BY <1>1 DEF Order
    <2> DEFINE status == IF order.filled + t.quantity >= order.quantity THEN "Filled"
                         ELSE IF order.status = "PendingNew" THEN "Active" ELSE order.status
    <2>2. status \in Statuses /\ (order.status \in Terminal => status \in Terminal)
      BY DEF Order, Statuses, Terminal
    <2> HIDE DEF status
    <2>3. Filled(order, t.quantity) = [order EXCEPT !.filled = order.filled + t.quantity,
                                                    !.status = status]
      BY DEF Filled, status
    <2>4. QED
      BY <2>1, <2>2, <2>3 DEF Order
  <1>6. DOMAIN x.orders \subseteq Nat /\ IsFiniteSet(DOMAIN x.orders)
        /\ \A id \in DOMAIN x.orders : x.orders[id] \in Order
    BY <1>1, BooksFacts
  <1>7. f \in [DOMAIN x.orders -> Order]
    BY <1>5, <1>6
  <1>8. DOMAIN f = DOMAIN x.orders /\ \A id \in DOMAIN x.orders :
          x.orders[id].status \in Terminal => f[id].status \in Terminal
    BY <1>5, <1>6
  <1> HIDE DEF z, f, fills, position
  <1>9. f \in Books
    BY <1>6, <1>7, BooksMember
  <1>10. z.position = position /\ z.fills = fills /\ z.nextId = x.nextId /\ z.seen = x.seen
         /\ z.orders = f
    BY <1>2 DEF RunnerState
  <1>11. z \in RunnerState
    BY <1>2, <1>3, <1>4, <1>9 DEF RunnerState
  <1>12. QED
    BY <1>3, <1>8, <1>10, <1>11 DEF z, position

--------------------------------------------------------------------------------
(* Totals.                                                                 *)

\* Items Total can add up.
Sized(items) == IsFiniteSet(items) /\ \A x \in items : Signed(x.side, x.quantity) \in Int

\* g is the function behind Total.
SumOf(g, S) ==
  g = [T \in SUBSET S |->
         IF T = {} THEN 0
         ELSE Signed((CHOOSE x \in T : TRUE).side, (CHOOSE x \in T : TRUE).quantity)
              + g[T \ {CHOOSE x \in T : TRUE}]]

\* The function behind Total exists ...
LEMMA SumExists ==
  ASSUME NEW S, Sized(S)
  PROVE  \E g \in [SUBSET S -> Int] : SumOf(g, S)
  <1> DEFINE c == [T \in SUBSET S |-> CHOOSE x \in T : TRUE]
             F == [x \in S |-> [v \in Int |-> Signed(x.side, x.quantity) + v]]
  <1>1. IsFiniteSet(S) /\ \A x \in S : Signed(x.side, x.quantity) \in Int
    BY DEF Sized
  <1>2. \A T \in SUBSET S : T # {} => c[T] \in T /\ c[T] = CHOOSE x \in T : TRUE
    OBVIOUS
  <1>3. \A x \in S, v \in Int : F[x][v] \in Int
    BY <1>1
  <1>4. \E g \in [SUBSET S -> Int] : Recursion(g, S, 0, c, F)
    <2>1. 0 \in Int
      OBVIOUS
    <2> HIDE DEF c, F
    <2>2. QED
      BY <1>1, <1>2, <1>3, <2>1, RecursionExists
  <1>5. PICK g \in [SUBSET S -> Int] : Recursion(g, S, 0, c, F)
    BY <1>4
  <1>6. ASSUME NEW T \in SUBSET S, T # {}
        PROVE  F[c[T]][g[T \ {c[T]}]]
                 = Signed((CHOOSE x \in T : TRUE).side, (CHOOSE x \in T : TRUE).quantity)
                   + g[T \ {CHOOSE x \in T : TRUE}]
    <2>1. (CHOOSE x \in T : TRUE) \in S /\ g[T \ {CHOOSE x \in T : TRUE}] \in Int
      BY <1>2, <1>6
    <2>2. QED
      BY <2>1
  <1>7. SumOf(g, S)
    <2> HIDE DEF F, c
    <2>1. QED
      BY <1>5, <1>6 DEF Recursion, SumOf
  <1>8. QED
    BY <1>7

\* ... does not depend on the set it is taken over ...
LEMMA SumUnique ==
  ASSUME NEW S, Sized(S), NEW T \in SUBSET S, NEW g, SumOf(g, S), NEW h, SumOf(h, T)
  PROVE  g[T] = h[T]
  <1> DEFINE G == {U \in SUBSET T : g[U] = h[U]}
  <1>1. IsFiniteSet(T)
    BY FS_Subset DEF Sized
  <1>2. ASSUME NEW U \in SUBSET T, \A W \in SUBSET U : W # U => W \in G
        PROVE  U \in G
    <2>1. CASE U = {}
      BY <2>1 DEF SumOf
    <2>2. CASE U # {}
      <3> DEFINE x == CHOOSE y \in U : TRUE
      <3>1. x \in U
        BY <2>2
      <3>2. U \ {x} \in SUBSET U /\ U \ {x} # U
        BY <3>1
      <3>3. g[U \ {x}] = h[U \ {x}]
        BY <1>2, <3>2
      <3>4. g[U] = Signed(x.side, x.quantity) + g[U \ {x}]
        BY <2>2 DEF SumOf
      <3>5. h[U] = Signed(x.side, x.quantity) + h[U \ {x}]
        BY <2>2 DEF SumOf
      <3>6. QED
        BY <3>3, <3>4, <3>5
    <2>3. QED
      BY <2>1, <2>2
  <1>3. T \in G
    <2> HIDE DEF G
    <2>1. QED
      BY <1>1, <1>2, SubsetInduction
  <1>4. QED
    BY <1>3

\* ... and gives the totals.
LEMMA TotalIsSum ==
  ASSUME NEW S, Sized(S)
  PROVE  \E g \in [SUBSET S -> Int] :
           SumOf(g, S) /\ \A T \in SUBSET S : Total(T) = g[T]
  <1>1. PICK g \in [SUBSET S -> Int] : SumOf(g, S)
    BY SumExists
  <1>2. ASSUME NEW T \in SUBSET S PROVE Total(T) = g[T]
    <2> DEFINE R(h) == [U \in SUBSET T |->
                          IF U = {} THEN 0
                          ELSE Signed((CHOOSE x \in U : TRUE).side,
                                      (CHOOSE x \in U : TRUE).quantity)
                               + h[U \ {CHOOSE x \in U : TRUE}]]
               k == CHOOSE h : h = R(h)
    <2>1. Sized(T)
      BY FS_Subset DEF Sized
    <2>2. PICK h \in [SUBSET T -> Int] : SumOf(h, T)
      BY <2>1, SumExists
    <2>3. h = R(h)
      BY <2>2 DEF SumOf
    <2>4. k = R(k)
      BY <2>3
    <2>5. SumOf(k, T)
      <3> HIDE DEF k
      <3>1. QED
        BY <2>4 DEF SumOf
    <2>6. Total(T) = k[T]
      BY DEF Total, FoldSet, MapThenFoldSet
    <2> HIDE DEF k
    <2>7. QED
      BY <1>1, <2>5, <2>6, SumUnique
  <1>3. QED
    BY <1>1, <1>2

\* The order of summation does not matter.
LEMMA TotalSplits ==
  ASSUME NEW S, Sized(S)
  PROVE  /\ Total(S) \in Int
         /\ Total({}) = 0
         /\ \A x \in S : Total(S) = Signed(x.side, x.quantity) + Total(S \ {x})
  <1>1. PICK g \in [SUBSET S -> Int] : SumOf(g, S) /\ \A T \in SUBSET S : Total(T) = g[T]
    BY TotalIsSum
  <1> DEFINE W(x) == Signed(x.side, x.quantity)
             G == {T \in SUBSET S : \A x \in T : g[T] = W(x) + g[T \ {x}]}
  <1>2. \A x \in S : W(x) \in Int
    BY DEF Sized
  <1>3. \A T \in SUBSET S : g[T] \in Int
    OBVIOUS
  <1>4. ASSUME NEW T \in SUBSET S, \A U \in SUBSET T : U # T => U \in G
        PROVE  T \in G
    <2> DEFINE y == CHOOSE x \in T : TRUE
    <2>1. ASSUME NEW x \in T PROVE g[T] = W(x) + g[T \ {x}]
      <3>1. y \in T
        OBVIOUS
      <3>2. g[T] = W(y) + g[T \ {y}]
        BY <1>1, <2>1 DEF SumOf
      <3>3. CASE x = y
        BY <3>2, <3>3
      <3>4. CASE x # y
        <4> HIDE DEF y
        <4>1. T \ {y} \in G /\ T \ {x} \in G
          <5>1. T \ {y} \in SUBSET T /\ T \ {y} # T /\ T \ {x} \in SUBSET T /\ T \ {x} # T
            BY <3>1
          <5> HIDE DEF G
          <5>2. QED
            BY <1>4, <5>1
        <4>2. x \in T \ {y} /\ y \in T \ {x}
          BY <3>1, <3>4
        <4>3. g[T \ {y}] = W(x) + g[(T \ {y}) \ {x}]
          BY <4>1, <4>2
        <4>4. g[T \ {x}] = W(y) + g[(T \ {x}) \ {y}]
          BY <4>1, <4>2
        <4>5. (T \ {y}) \ {x} = (T \ {x}) \ {y}
          OBVIOUS
        <4> DEFINE r == g[(T \ {x}) \ {y}]
        <4>6. r \in Int /\ W(x) \in Int /\ W(y) \in Int
          BY <1>2, <1>3, <3>1
        <4> HIDE DEF r, G, W
        <4>7. g[T] = W(y) + (W(x) + r)
          BY <3>2, <4>3, <4>5 DEF r
        <4>8. g[T \ {x}] = W(y) + r
          BY <4>4 DEF r
        <4>9. QED
          BY <4>6, <4>7, <4>8
      <3>5. QED
        BY <3>3, <3>4
    <2>2. QED
      BY <2>1
  <1>5. S \in G
    <2>1. IsFiniteSet(S)
      BY DEF Sized
    <2> HIDE DEF G
    <2>2. QED
      BY <1>4, <2>1, SubsetInduction
  <1>6. \A x \in S : Total(S) = W(x) + Total(S \ {x})
    BY <1>1, <1>5
  <1>7. Total({}) = 0
    <2>1. g[{}] = 0
      BY <1>1 DEF SumOf
    <2>2. QED
      BY <1>1, <2>1
  <1>8. Total(S) \in Int
    BY <1>1, <1>3
  <1>9. QED
    BY <1>6, <1>7, <1>8

--------------------------------------------------------------------------------
(* Types.                                                                  *)

Msg == OrderMsg \cup TradeMsg
Executions == [strategy : Strategies, id : Nat, side : Sides, quantity : Nat]

\* The types of all variables; TypeOK states the part worth reading.
StrategyTypes ==
  /\ stage \in [Strategies -> {"new", "opening", "joining", "running", "stopped"}]
  /\ st \in [Strategies -> RunnerState]
  /\ scan \in [Strategies -> {"market", "order", "trade"}]
  /\ books \in [Strategies -> 0..MaxBooks]
  /\ budget \in [Strategies -> 0..MaxActions]

QueueTypes ==
  /\ actionQ \in [Strategies -> Seq(Action)]
  /\ link \in [Strategies -> {"none", "announced", "reading"}]
  /\ hears \in [Strategies -> SUBSET {"order", "trade"}]
  /\ orderQ \in [Strategies -> Seq(OrderMsg)]
  /\ tradeQ \in [Strategies -> Seq(TradeMsg)]

GatewayTypes ==
  /\ gateway \in {"down", "registered", "running"}
  /\ outbox \in Seq(Msg)
  /\ nextTrade \in Nat
  /\ outages \in Nat
  /\ executed \subseteq Executions
  /\ IsFiniteSet(executed)

FlowTypes == StrategyTypes /\ QueueTypes /\ GatewayTypes

\* The types are strong enough.
LEMMA FlowTypesImplyTypeOK ==
  FlowTypes => TypeOK
  <1>1. ASSUME FlowTypes, NEW s \in Strategies
        PROVE  /\ \A id \in DOMAIN st[s].orders : id \in Nat /\ st[s].orders[id] \in Order
               /\ st[s].position \in Int
               /\ Len(st[s].fills) <= FillWindow
               /\ \A i, j \in DOMAIN st[s].fills : st[s].fills[i] = st[s].fills[j] => i = j
               /\ st[s].nextId \in Nat
    <2>1. st[s] \in RunnerState
      BY <1>1 DEF FlowTypes, StrategyTypes
    <2>2. st[s].orders \in Books /\ st[s].position \in Int /\ st[s].fills \in Fills
          /\ st[s].nextId \in Nat
      BY <2>1 DEF RunnerState
    <2>3. DOMAIN st[s].orders \subseteq Nat
          /\ \A id \in DOMAIN st[s].orders : st[s].orders[id] \in Order
      BY <2>2, BooksFacts
    <2>4. /\ Len(st[s].fills) <= FillWindow
          /\ \A i, j \in DOMAIN st[s].fills : st[s].fills[i] = st[s].fills[j] => i = j
      BY <2>2 DEF Fills
    <2>5. QED
      BY <2>2, <2>3, <2>4
  <1>2. QED
    BY <1>1 DEF FlowTypes, StrategyTypes, QueueTypes, GatewayTypes, TypeOK

\* A new strategy's state has its type.
LEMMA NewStateTyped ==
  NewState \in RunnerState
  <1>1. << >> \in Books
    <2> DEFINE f == [i \in {} |-> i]
    <2>1. << >> = f
      BY DEF f
    <2>2. f \in [{} -> Order]
      OBVIOUS
    <2>3. IsFiniteSet({})
      BY FS_EmptySet
    <2> HIDE DEF f
    <2>4. QED
      BY <2>1, <2>2, <2>3, BooksMember
  <1>2. << >> \in Fills
    <2>1. << >> \in Seq(Nat) /\ Len(<< >>) = 0 /\ DOMAIN << >> = {}
      OBVIOUS
    <2>2. QED
      BY <2>1, FillWindowAssumption DEF Fills
  <1>3. QED
    BY <1>1, <1>2 DEF NewState, RunnerState

\* The batches of one handler.
LEMMA BatchesTyped ==
  ASSUME NEW ticks \in Ticks, NEW batch
  PROVE  /\ ticks \in Seq(Seq(Intents))
         /\ batch \in Seq(Intents) => /\ <<batch>> \in Seq(Seq(Intents))
                                      /\ <<batch>> \o ticks \in Seq(Seq(Intents))
  <1>1. TimerBatches \subseteq Seq(Intents)
    BY TradeFlowAssumption
  <1>2. ticks \in Seq(Seq(Intents))
    <2>1. ticks = << >> \/ \E b \in TimerBatches : ticks = <<b>>
      BY DEF Ticks
    <2>2. \A b \in Seq(Intents) : <<b>> \in Seq(Seq(Intents))
      OBVIOUS
    <2>3. << >> \in Seq(Seq(Intents))
      OBVIOUS
    <2>4. QED
      BY <1>1, <2>1, <2>2, <2>3
  <1>3. QED
    BY <1>2

\* What callbacks submit are sequences of intents.
LEMMA SomeBatch ==
  /\ \A batch \in StartBatches : batch \in Seq(Intents)
  /\ \A batch \in BookBatches : batch \in Seq(Intents)
  /\ \A batch \in ReplyBatches : batch \in Seq(Intents)
  /\ \A batch \in TimerBatches : batch \in Seq(Intents)
  BY TradeFlowAssumption

\* The outcome of callbacks has its type.
LEMMA OutcomeTyped ==
  ASSUME NEW x, NEW o \in Outcomes(x)
  PROVE  o.state \in RunnerState /\ o.actions \in Seq(Action)
  BY DEF Outcomes

\* Writing an outcome keeps the types.
LEMMA WriteTyped ==
  ASSUME FlowTypes, NEW s \in Strategies, NEW x, NEW o \in Outcomes(x), Write(s, o)
  PROVE  /\ st' \in [Strategies -> RunnerState]
         /\ budget' \in [Strategies -> 0..MaxActions]
         /\ actionQ' \in [Strategies -> Seq(Action)]
  <1>1. o.state \in RunnerState /\ o.actions \in Seq(Action) /\ Len(o.actions) \in Nat
    BY OutcomeTyped
  <1>2. /\ st \in [Strategies -> RunnerState]
        /\ budget \in [Strategies -> 0..MaxActions]
        /\ actionQ \in [Strategies -> Seq(Action)]
    BY DEF FlowTypes, StrategyTypes, QueueTypes
  <1>3. st' \in [Strategies -> RunnerState]
    BY <1>1, <1>2 DEF Write
  <1>4. budget' \in [Strategies -> 0..MaxActions]
    <2>1. budget[s] - Len(o.actions) \in 0..MaxActions
      BY <1>1, <1>2, TradeFlowAssumption DEF Write
    <2>2. budget' = [budget EXCEPT ![s] = budget[s] - Len(o.actions)]
      BY DEF Write
    <2>3. QED
      BY <1>2, <2>1, <2>2
  <1>5. actionQ' \in [Strategies -> Seq(Action)]
    <2>1. actionQ[s] \o o.actions \in Seq(Action)
      BY <1>1, <1>2
    <2>2. QED
      BY <1>2, <2>1 DEF Write
  <1>6. QED
    BY <1>3, <1>4, <1>5

\* What the gateway answers to an action has its type.
LEMMA EventsTyped ==
  ASSUME NEW a \in Action, nextTrade \in Nat
  PROVE  /\ a.kind = "new" =>
              /\ a.id \in Nat /\ a.side \in Sides /\ a.quantity \in Nat
              /\ TradeEvent(a) \in TradeMsg
              /\ OrderEvent(a.id, "Active", 0, a.quantity) \in OrderMsg
              /\ OrderEvent(a.id, "Filled", a.quantity, 0) \in OrderMsg
         /\ a.kind # "new" => OrderEvent(a.id, "Cancelled", 0, 0) \in OrderMsg
         /\ EventsOf(a) \in Seq(Msg)
  <1>1. CASE a.kind = "new"
    <2>1. a.id \in Nat /\ a.side \in Sides /\ a.quantity \in Nat
      BY <1>1 DEF Action
    <2>2. TradeEvent(a) \in TradeMsg
      BY <2>1 DEF TradeEvent, TradeMsg
    <2>3. OrderEvent(a.id, "Active", 0, a.quantity) \in OrderMsg
      BY <2>1 DEF OrderEvent, OrderMsg, Statuses
    <2>4. OrderEvent(a.id, "Filled", a.quantity, 0) \in OrderMsg
      BY <2>1 DEF OrderEvent, OrderMsg, Statuses, Terminal
    <2>5. EventsOf(a) = <<OrderEvent(a.id, "Active", 0, a.quantity), TradeEvent(a),
                          OrderEvent(a.id, "Filled", a.quantity, 0)>>
      BY <1>1 DEF EventsOf
    <2>6. EventsOf(a) \in Seq(Msg)
      BY <2>2, <2>3, <2>4, <2>5 DEF Msg
    <2>7. QED
      BY <1>1, <2>1, <2>2, <2>3, <2>4, <2>6
  <1>2. CASE a.kind # "new"
    <2>1. a.id \in Nat
      BY <1>2 DEF Action
    <2>2. OrderEvent(a.id, "Cancelled", 0, 0) \in OrderMsg
      BY <2>1 DEF OrderEvent, OrderMsg, Statuses, Terminal
    <2>3. EventsOf(a) = <<OrderEvent(a.id, "Cancelled", 0, 0)>>
      BY <1>2 DEF EventsOf
    <2>4. EventsOf(a) \in Seq(Msg)
      BY <2>2, <2>3 DEF Msg
    <2>5. QED
      BY <1>2, <2>2, <2>4
  <1>3. QED
    BY <1>1, <1>2

\* The types hold at the beginning.
LEMMA FlowTypesStart ==
  Init => FlowTypes
  <1>1. ASSUME Init PROVE FlowTypes
    <2>1. StrategyTypes
      BY <1>1, NewStateTyped, TradeFlowAssumption DEF Init, StrategyTypes
    <2>2. QueueTypes
      BY <1>1 DEF Init, QueueTypes
    <2>3. GatewayTypes
      BY <1>1, FS_EmptySet DEF Init, GatewayTypes
    <2>4. QED
      BY <2>1, <2>2, <2>3 DEF FlowTypes
  <1>2. QED
    BY <1>1

\* They hold when nothing changes.
LEMMA FlowTypesStutter ==
  ASSUME FlowTypes, UNCHANGED vars
  PROVE  FlowTypes'
  BY DEF vars, strategyVars, queueVars, gatewayVars, FlowTypes, StrategyTypes, QueueTypes,
     GatewayTypes, Executions

\* What a strategy's step leaves alone.
LEMMA GatewayTypesKept ==
  ASSUME GatewayTypes, UNCHANGED gatewayVars
  PROVE  GatewayTypes'
  BY DEF gatewayVars, GatewayTypes, Executions

\* The types across on_start.
LEMMA TypesStart ==
  ASSUME FlowTypes, NEW s \in Strategies, NEW batch \in StartBatches, Start(s, batch)
  PROVE  FlowTypes'
  <1> DEFINE o == Callbacks(st[s], <<batch>>)
  <1>1. /\ st \in [Strategies -> RunnerState]
        /\ budget \in [Strategies -> 0..MaxActions]
    BY DEF FlowTypes, StrategyTypes
  <1>2. o \in Outcomes(st[s])
    <2>1. st[s] \in RunnerState /\ <<batch>> \in Seq(Seq(Intents))
      BY <1>1, SomeBatch
    <2>2. QED
      BY <2>1, CallbacksKeep
  <1>3. o.state \in RunnerState /\ Len(o.actions) \in Nat
    <2> HIDE DEF o
    <2>1. QED
      BY <1>2, OutcomeTyped
  <1>4. /\ Len(o.actions) <= budget[s]
        /\ st' = [st EXCEPT ![s] = o.state]
        /\ budget' = [budget EXCEPT ![s] = budget[s] - Len(o.actions)]
    BY DEF Start
  <1> HIDE DEF o
  <1>5. st' \in [Strategies -> RunnerState]
    BY <1>1, <1>3, <1>4
  <1>6. budget' \in [Strategies -> 0..MaxActions]
    <2>1. budget[s] - Len(o.actions) \in 0..MaxActions
      BY <1>1, <1>3, <1>4, TradeFlowAssumption
    <2>2. QED
      BY <1>1, <1>4, <2>1
  <1>7. StrategyTypes'
    BY <1>5, <1>6 DEF Start, FlowTypes, StrategyTypes
  <1>8. QueueTypes'
    BY DEF Start, FlowTypes, QueueTypes
  <1>9. GatewayTypes'
    BY GatewayTypesKept DEF Start, FlowTypes
  <1>10. QED
    BY <1>7, <1>8, <1>9 DEF FlowTypes

\* The types across connect_trade.
LEMMA TypesConnect ==
  ASSUME FlowTypes, NEW s \in Strategies, Connect(s)
  PROVE  FlowTypes'
  <1>1. CASE OpenOrderEvents(s)
    <2>1. StrategyTypes'
      BY <1>1 DEF OpenOrderEvents, FlowTypes, StrategyTypes
    <2>2. QueueTypes'
      BY <1>1 DEF OpenOrderEvents, Opened, FlowTypes, QueueTypes
    <2>3. GatewayTypes'
      BY <1>1, GatewayTypesKept DEF OpenOrderEvents, FlowTypes
    <2>4. QED
      BY <2>1, <2>2, <2>3 DEF FlowTypes
  <1>2. CASE OpenTradeEvents(s)
    <2>1. StrategyTypes'
      BY <1>2 DEF OpenTradeEvents, FlowTypes, StrategyTypes
    <2>2. QueueTypes'
      BY <1>2 DEF OpenTradeEvents, Opened, FlowTypes, QueueTypes
    <2>3. GatewayTypes'
      BY <1>2, GatewayTypesKept DEF OpenTradeEvents, FlowTypes
    <2>4. QED
      BY <2>1, <2>2, <2>3 DEF FlowTypes
  <1>3. QED
    BY <1>1, <1>2 DEF Connect

\* Every handler of a running strategy: its callbacks start from this state.
Handles(s, x, batches) ==
  /\ x \in RunnerState
  /\ batches \in Seq(Seq(Intents))
  /\ Write(s, Callbacks(x, batches))

\* Each handler as its callbacks from a state of the right type: on_order_book ...
LEMMA BookHandled ==
  ASSUME FlowTypes, NEW s \in Strategies, NEW batch \in BookBatches, NEW ticks \in Ticks,
         OnOrderBook(s, batch, ticks)
  PROVE  Handles(s, st[s], <<batch>> \o ticks)
  <1>1. st[s] \in RunnerState
    BY DEF FlowTypes, StrategyTypes
  <1>2. <<batch>> \o ticks \in Seq(Seq(Intents))
    BY BatchesTyped, SomeBatch
  <1>3. QED
    BY <1>1, <1>2 DEF Handles, OnOrderBook

\* ... on_order_event ...
LEMMA OrderEventHandled ==
  ASSUME FlowTypes, NEW s \in Strategies, NEW batch \in ReplyBatches, NEW ticks \in Ticks,
         OnOrderEvent(s, batch, ticks)
  PROVE  /\ Head(orderQ[s]) \in OrderMsg
         /\ \/ /\ IsNewOrderEvent(st[s], Head(orderQ[s]))
               /\ Handles(s, ApplyOrderEvent(st[s], Head(orderQ[s])), <<batch>> \o ticks)
            \/ /\ ~ IsNewOrderEvent(st[s], Head(orderQ[s]))
               /\ Handles(s, st[s], ticks)
  <1>1. st[s] \in RunnerState /\ orderQ[s] \in Seq(OrderMsg)
    BY DEF FlowTypes, StrategyTypes, QueueTypes
  <1>2. <<batch>> \o ticks \in Seq(Seq(Intents)) /\ ticks \in Seq(Seq(Intents))
    BY BatchesTyped, SomeBatch
  <1> DEFINE e == Head(orderQ[s])
  <1>3. e \in OrderMsg
    BY <1>1 DEF OnOrderEvent
  <1>4. CASE IsNewOrderEvent(st[s], e)
    <2>1. ApplyOrderEvent(st[s], e) \in RunnerState
      BY <1>1, <1>3, OrderEventApplied
    <2>2. Write(s, Callbacks(ApplyOrderEvent(st[s], e), <<batch>> \o ticks))
      BY <1>4 DEF OnOrderEvent
    <2>3. QED
      BY <1>2, <1>3, <1>4, <2>1, <2>2 DEF Handles
  <1>5. CASE ~ IsNewOrderEvent(st[s], e)
    <2>1. Write(s, Callbacks(st[s], ticks))
      BY <1>5 DEF OnOrderEvent
    <2>2. QED
      BY <1>1, <1>2, <1>3, <1>5, <2>1 DEF Handles
  <1>6. QED
    BY <1>4, <1>5

\* ... on_trade_event ...
LEMMA TradeEventHandled ==
  ASSUME FlowTypes, NEW s \in Strategies, NEW batch \in ReplyBatches, NEW ticks \in Ticks,
         OnTradeEvent(s, batch, ticks)
  PROVE  /\ Head(tradeQ[s]) \in TradeMsg
         /\ \/ /\ IsNewTrade(st[s], Head(tradeQ[s]))
               /\ Handles(s, ApplyTradeEvent(st[s], Head(tradeQ[s])), <<batch>> \o ticks)
            \/ /\ ~ IsNewTrade(st[s], Head(tradeQ[s]))
               /\ Handles(s, st[s], ticks)
  <1>1. st[s] \in RunnerState /\ tradeQ[s] \in Seq(TradeMsg)
    BY DEF FlowTypes, StrategyTypes, QueueTypes
  <1>2. <<batch>> \o ticks \in Seq(Seq(Intents)) /\ ticks \in Seq(Seq(Intents))
    BY BatchesTyped, SomeBatch
  <1> DEFINE e == Head(tradeQ[s])
  <1>3. e \in TradeMsg
    BY <1>1 DEF OnTradeEvent
  <1>4. CASE IsNewTrade(st[s], e)
    <2>1. ApplyTradeEvent(st[s], e) \in RunnerState
      BY <1>1, <1>3, <1>4, TradeApplied
    <2>2. Write(s, Callbacks(ApplyTradeEvent(st[s], e), <<batch>> \o ticks))
      BY <1>4 DEF OnTradeEvent
    <2>3. QED
      BY <1>2, <1>3, <1>4, <2>1, <2>2 DEF Handles
  <1>5. CASE ~ IsNewTrade(st[s], e)
    <2>1. Write(s, Callbacks(st[s], ticks))
      BY <1>5 DEF OnTradeEvent
    <2>2. QED
      BY <1>1, <1>2, <1>3, <1>5, <2>1 DEF Handles
  <1>6. QED
    BY <1>4, <1>5

\* ... and on_stop.
LEMMA ShutdownHandled ==
  ASSUME FlowTypes, NEW s \in Strategies, NEW batch \in TimerBatches, Shutdown(s, batch)
  PROVE  Handles(s, st[s], <<batch>>)
  <1>1. st[s] \in RunnerState
    BY DEF FlowTypes, StrategyTypes
  <1>2. <<batch>> \in Seq(Seq(Intents))
    BY SomeBatch
  <1>3. QED
    BY <1>1, <1>2 DEF Handles, Shutdown

\* A handler keeps the types of what it writes.
LEMMA HandlesTyped ==
  ASSUME FlowTypes, NEW s \in Strategies, NEW x, NEW batches, Handles(s, x, batches)
  PROVE  /\ Callbacks(x, batches) \in Outcomes(x)
         /\ st' \in [Strategies -> RunnerState]
         /\ budget' \in [Strategies -> 0..MaxActions]
         /\ actionQ' \in [Strategies -> Seq(Action)]
  <1>1. x \in RunnerState /\ batches \in Seq(Seq(Intents)) /\ Write(s, Callbacks(x, batches))
    BY DEF Handles
  <1>2. Callbacks(x, batches) \in Outcomes(x)
    BY <1>1, CallbacksKeep
  <1>3. QED
    BY <1>1, <1>2, WriteTyped

\* The types across a poll.
LEMMA TypesPoll ==
  ASSUME FlowTypes, NEW s \in Strategies, Poll(s)
  PROVE  FlowTypes'
  <1>1. ASSUME NEW ticks \in Ticks, NEW batch \in BookBatches, OnOrderBook(s, batch, ticks)
        PROVE  FlowTypes'
    <2>1. /\ st' \in [Strategies -> RunnerState]
          /\ budget' \in [Strategies -> 0..MaxActions]
          /\ actionQ' \in [Strategies -> Seq(Action)]
      BY <1>1, BookHandled, HandlesTyped
    <2>2. books' \in [Strategies -> 0..MaxBooks]
      <3>1. books \in [Strategies -> 0..MaxBooks]
        BY DEF FlowTypes, StrategyTypes
      <3>2. books[s] - 1 \in 0..MaxBooks /\ books' = [books EXCEPT ![s] = books[s] - 1]
        BY <1>1, <3>1, TradeFlowAssumption DEF OnOrderBook
      <3>3. QED
        BY <3>1, <3>2
    <2>3. StrategyTypes'
      BY <1>1, <2>1, <2>2 DEF OnOrderBook, FlowTypes, StrategyTypes
    <2>4. QueueTypes'
      BY <1>1, <2>1 DEF OnOrderBook, FlowTypes, QueueTypes
    <2>5. GatewayTypes'
      BY <1>1, GatewayTypesKept DEF OnOrderBook, FlowTypes
    <2>6. QED
      BY <2>3, <2>4, <2>5 DEF FlowTypes
  <1>2. ASSUME NEW ticks \in Ticks, NEW batch \in ReplyBatches, OnOrderEvent(s, batch, ticks)
        PROVE  FlowTypes'
    <2>1. /\ st' \in [Strategies -> RunnerState]
          /\ budget' \in [Strategies -> 0..MaxActions]
          /\ actionQ' \in [Strategies -> Seq(Action)]
      BY <1>2, OrderEventHandled, HandlesTyped
    <2>2. orderQ' \in [Strategies -> Seq(OrderMsg)]
      <3>1. orderQ \in [Strategies -> Seq(OrderMsg)]
        BY DEF FlowTypes, QueueTypes
      <3>2. Tail(orderQ[s]) \in Seq(OrderMsg)
            /\ orderQ' = [orderQ EXCEPT ![s] = Tail(orderQ[s])]
        BY <1>2, <3>1 DEF OnOrderEvent
      <3>3. QED
        BY <3>1, <3>2
    <2>3. StrategyTypes'
      BY <1>2, <2>1 DEF OnOrderEvent, Rescan, FlowTypes, StrategyTypes
    <2>4. QueueTypes'
      BY <1>2, <2>1, <2>2 DEF OnOrderEvent, FlowTypes, QueueTypes
    <2>5. GatewayTypes'
      BY <1>2, GatewayTypesKept DEF OnOrderEvent, FlowTypes
    <2>6. QED
      BY <2>3, <2>4, <2>5 DEF FlowTypes
  <1>3. ASSUME NEW ticks \in Ticks, NEW batch \in ReplyBatches, OnTradeEvent(s, batch, ticks)
        PROVE  FlowTypes'
    <2>1. /\ st' \in [Strategies -> RunnerState]
          /\ budget' \in [Strategies -> 0..MaxActions]
          /\ actionQ' \in [Strategies -> Seq(Action)]
      BY <1>3, TradeEventHandled, HandlesTyped
    <2>2. tradeQ' \in [Strategies -> Seq(TradeMsg)]
      <3>1. tradeQ \in [Strategies -> Seq(TradeMsg)]
        BY DEF FlowTypes, QueueTypes
      <3>2. Tail(tradeQ[s]) \in Seq(TradeMsg)
            /\ tradeQ' = [tradeQ EXCEPT ![s] = Tail(tradeQ[s])]
        BY <1>3, <3>1 DEF OnTradeEvent
      <3>3. QED
        BY <3>1, <3>2
    <2>3. StrategyTypes'
      BY <1>3, <2>1 DEF OnTradeEvent, Rescan, FlowTypes, StrategyTypes
    <2>4. QueueTypes'
      BY <1>3, <2>1, <2>2 DEF OnTradeEvent, FlowTypes, QueueTypes
    <2>5. GatewayTypes'
      BY <1>3, GatewayTypesKept DEF OnTradeEvent, FlowTypes
    <2>6. QED
      BY <2>3, <2>4, <2>5 DEF FlowTypes
  <1>4. ASSUME PollEmpty(s) PROVE FlowTypes'
    <2>1. StrategyTypes'
      BY <1>4 DEF PollEmpty, Rescan, FlowTypes, StrategyTypes
    <2>2. QueueTypes'
      BY <1>4 DEF PollEmpty, queueVars, FlowTypes, QueueTypes
    <2>3. GatewayTypes'
      BY <1>4, GatewayTypesKept DEF PollEmpty, FlowTypes
    <2>4. QED
      BY <2>1, <2>2, <2>3 DEF FlowTypes
  <1>5. QED
    BY <1>1, <1>2, <1>3, <1>4 DEF Poll

\* The types across a shutdown.
LEMMA TypesShutdown ==
  ASSUME FlowTypes, NEW s \in Strategies, NEW batch \in TimerBatches, Shutdown(s, batch)
  PROVE  FlowTypes'
  <1>1. /\ st' \in [Strategies -> RunnerState]
        /\ budget' \in [Strategies -> 0..MaxActions]
        /\ actionQ' \in [Strategies -> Seq(Action)]
    BY ShutdownHandled, HandlesTyped
  <1>2. StrategyTypes'
    BY <1>1 DEF Shutdown, FlowTypes, StrategyTypes
  <1>3. QueueTypes'
    <2>1. << >> \in Seq(OrderMsg) /\ << >> \in Seq(TradeMsg)
          /\ {} \in SUBSET {"order", "trade"}
      OBVIOUS
    <2>2. /\ hears' = [hears EXCEPT ![s] = {}]
          /\ orderQ' = [orderQ EXCEPT ![s] = << >>]
          /\ tradeQ' = [tradeQ EXCEPT ![s] = << >>]
          /\ link' = link
      BY DEF Shutdown
    <2>3. QED
      BY <1>1, <2>1, <2>2 DEF FlowTypes, QueueTypes
  <1>4. GatewayTypes'
    BY GatewayTypesKept DEF Shutdown, FlowTypes
  <1>5. QED
    BY <1>2, <1>3, <1>4 DEF FlowTypes

\* The types across the gateway's steps.
LEMMA TypesGateway ==
  ASSUME FlowTypes, GatewayStep \/ GatewayDown
  PROVE  FlowTypes'
  <1> USE DEF FlowTypes
  <1>1. ASSUME UNCHANGED strategyVars PROVE StrategyTypes'
    BY <1>1 DEF strategyVars, StrategyTypes
  <1>2. ASSUME GatewayRegister \/ GatewayStart PROVE FlowTypes'
    <2>1. StrategyTypes'
      BY <1>1, <1>2 DEF GatewayRegister, GatewayStart
    <2>2. QueueTypes'
      BY <1>2 DEF GatewayRegister, GatewayStart, queueVars, QueueTypes
    <2>3. GatewayTypes'
      BY <1>2 DEF GatewayRegister, GatewayStart, GatewayTypes, Executions
    <2>4. QED
      BY <2>1, <2>2, <2>3
  <1>3. ASSUME NEW s \in Strategies, AddActionQueue(s) PROVE FlowTypes'
    <2>1. StrategyTypes'
      BY <1>1, <1>3 DEF AddActionQueue
    <2>2. QueueTypes'
      BY <1>3 DEF AddActionQueue, QueueTypes
    <2>3. GatewayTypes'
      BY <1>3, GatewayTypesKept DEF AddActionQueue
    <2>4. QED
      BY <2>1, <2>2, <2>3
  <1>4. ASSUME NEW s \in Strategies, OnAction(s) PROVE FlowTypes'
    <2> DEFINE a == Head(actionQ[s])
    <2>1. actionQ \in [Strategies -> Seq(Action)] /\ actionQ[s] # << >> /\ nextTrade \in Nat
      BY <1>4 DEF OnAction, QueueTypes, GatewayTypes
    <2>2. a \in Action /\ Tail(actionQ[s]) \in Seq(Action)
      BY <2>1
    <2>3. /\ outbox' = EventsOf(a)
          /\ nextTrade' = IF a.kind = "new" THEN nextTrade + 1 ELSE nextTrade
          /\ executed' = IF a.kind = "new"
                         THEN executed \cup {[strategy |-> s, id |-> a.id, side |-> a.side,
                                              quantity |-> a.quantity]}
                         ELSE executed
          /\ actionQ' = [actionQ EXCEPT ![s] = Tail(actionQ[s])]
      BY <1>4 DEF OnAction
    <2> HIDE DEF a
    <2>4. outbox' \in Seq(Msg)
      BY <2>1, <2>2, <2>3, EventsTyped
    <2>5. executed' \subseteq Executions /\ IsFiniteSet(executed')
      <3>1. executed \subseteq Executions /\ IsFiniteSet(executed)
        BY DEF GatewayTypes
      <3>2. CASE a.kind = "new"
        <4>1. [strategy |-> s, id |-> a.id, side |-> a.side, quantity |-> a.quantity]
                \in Executions
          BY <2>1, <2>2, <3>2, EventsTyped DEF Executions
        <4>2. QED
          BY <2>3, <3>1, <3>2, <4>1, FS_AddElement
      <3>3. CASE a.kind # "new"
        BY <2>3, <3>1, <3>3
      <3>4. QED
        BY <3>2, <3>3
    <2>6. GatewayTypes'
      BY <1>4, <2>1, <2>3, <2>4, <2>5 DEF OnAction, GatewayTypes, Executions
    <2>7. QueueTypes'
      BY <1>4, <2>1, <2>2, <2>3 DEF OnAction, QueueTypes
    <2>8. StrategyTypes'
      BY <1>1, <1>4 DEF OnAction
    <2>9. QED
      BY <2>6, <2>7, <2>8
  <1>5. ASSUME Publish PROVE FlowTypes'
    <2> DEFINE event == Head(outbox)
    <2>1. outbox \in Seq(Msg) /\ outbox # << >>
      BY <1>5 DEF Publish, GatewayTypes
    <2>2. event \in Msg /\ Tail(outbox) \in Seq(Msg)
      BY <2>1
    <2>3. orderQ \in [Strategies -> Seq(OrderMsg)]
          /\ tradeQ \in [Strategies -> Seq(TradeMsg)]
      BY DEF QueueTypes
    <2>4. ASSUME event.queue = "order"
          PROVE  orderQ' \in [Strategies -> Seq(OrderMsg)]
                 /\ tradeQ' \in [Strategies -> Seq(TradeMsg)]
      <3>1. event \in OrderMsg
        BY <2>2, <2>4 DEF Msg, OrderMsg, TradeMsg
      <3>2. /\ orderQ' = [s \in Strategies |-> IF event.queue \in hears[s]
                                               THEN Append(orderQ[s], event) ELSE orderQ[s]]
            /\ tradeQ' = tradeQ
        BY <1>5, <2>4 DEF Publish
      <3> HIDE DEF event
      <3>3. orderQ' \in [Strategies -> Seq(OrderMsg)]
        <4>1. \A s \in Strategies : orderQ[s] \in Seq(OrderMsg)
                                    /\ Append(orderQ[s], event) \in Seq(OrderMsg)
          BY <2>3, <3>1
        <4>2. QED
          BY <3>2, <4>1
      <3>4. QED
        BY <2>3, <3>2, <3>3
    <2>5. ASSUME event.queue # "order"
          PROVE  orderQ' \in [Strategies -> Seq(OrderMsg)]
                 /\ tradeQ' \in [Strategies -> Seq(TradeMsg)]
      <3>1. event \in TradeMsg
        BY <2>2, <2>5 DEF Msg, OrderMsg, TradeMsg
      <3>2. /\ tradeQ' = [s \in Strategies |-> IF event.queue \in hears[s]
                                               THEN Append(tradeQ[s], event) ELSE tradeQ[s]]
            /\ orderQ' = orderQ
        BY <1>5, <2>5 DEF Publish
      <3> HIDE DEF event
      <3>3. tradeQ' \in [Strategies -> Seq(TradeMsg)]
        <4>1. \A s \in Strategies : tradeQ[s] \in Seq(TradeMsg)
                                    /\ Append(tradeQ[s], event) \in Seq(TradeMsg)
          BY <2>3, <3>1
        <4>2. QED
          BY <3>2, <4>1
      <3>4. QED
        BY <2>3, <3>2, <3>3
    <2>6. orderQ' \in [Strategies -> Seq(OrderMsg)]
          /\ tradeQ' \in [Strategies -> Seq(TradeMsg)]
      BY <2>4, <2>5
    <2>7. QueueTypes'
      BY <1>5, <2>6 DEF Publish, QueueTypes
    <2>8. GatewayTypes'
      BY <1>5, <2>2 DEF Publish, GatewayTypes, Executions
    <2>9. StrategyTypes'
      BY <1>1, <1>5 DEF Publish
    <2>10. QED
      BY <2>7, <2>8, <2>9
  <1>6. ASSUME GatewayDown PROVE FlowTypes'
    <2>1. StrategyTypes'
      BY <1>1, <1>6 DEF GatewayDown
    <2>2. QueueTypes'
      BY <1>6 DEF GatewayDown, QueueTypes
    <2>3. GatewayTypes'
      BY <1>6 DEF GatewayDown, GatewayTypes, Executions
    <2>4. QED
      BY <2>1, <2>2, <2>3
  <1>7. QED
    BY <1>2, <1>3, <1>4, <1>5, <1>6 DEF GatewayStep

\* Every step keeps the types.
LEMMA FlowTypesStep ==
  ASSUME FlowTypes, [Next]_vars
  PROVE  FlowTypes'
  <1>1. CASE UNCHANGED vars
    BY <1>1, FlowTypesStutter
  <1>2. CASE Next
    BY <1>2, TypesGateway, TypesStart, TypesConnect, TypesPoll, TypesShutdown DEF Next
  <1>3. QED
    BY <1>1, <1>2

\* TypeOK: every order a strategy knows is well formed, however events, trades and
\* cancels were applied to it; FillLedger's window never holds more than its size, and
\* no id twice; reactor, connection and gateway stay in their states.  For any number of
\* strategies, any batches their callbacks submit, and any size of the window.
THEOREM FlowTypeCorrect == Spec => []TypeOK
  <1>1. FlowTypes /\ [Next]_vars => FlowTypes'
    BY FlowTypesStep
  <1>2. QED
    BY <1>1, FlowTypesStart, FlowTypesImplyTypeOK, PTL DEF Spec

--------------------------------------------------------------------------------
(* One strategy and its gateway: the invariant, as a relation between the  *)
(* strategy's books, the three queues and what was executed.               *)

\* Two messages on their way, e ahead of f.
InOrder(e, f) ==
  /\ e.queue = "trade" /\ f.queue = "trade" => e.trade < f.trade
  /\ e.queue = "order" /\ f.queue = "order" /\ e.status = "Filled" /\ e.id = f.id =>
       f.status = "Cancelled"

\* The messages of one queue, and those of two.
Ordered(q) == \A i, j \in DOMAIN q : i < j => InOrder(q[i], q[j])
Ahead(q, r) == \A e \in ToSet(q), f \in ToSet(r) : InOrder(e, f)

\* Taking the first message of a queue.
LEMMA HeadOf ==
  ASSUME NEW A, NEW q \in Seq(A), q # << >>
  PROVE  /\ Head(q) \in A
         /\ Tail(q) \in Seq(A)
         /\ ToSet(q) = {Head(q)} \cup ToSet(Tail(q))
         /\ Ordered(q) => /\ Ordered(Tail(q))
                          /\ \A f \in ToSet(Tail(q)) : InOrder(Head(q), f)
  <1> DEFINE t == Tail(q)
             l == Len(q)
  <1>1. /\ l \in Nat /\ l > 0 /\ DOMAIN q = 1..l /\ DOMAIN t = 1..(l - 1)
        /\ t \in Seq(A) /\ Head(q) = q[1] /\ Head(q) \in A
        /\ \A i \in 1..(l - 1) : t[i] = q[i + 1] /\ i + 1 \in 1..l
    OBVIOUS
  <1> HIDE DEF t, l
  <1>2. ToSet(q) = {Head(q)} \cup ToSet(t)
    <2>1. ASSUME NEW i \in 1..l PROVE q[i] = Head(q) \/ q[i] \in ToSet(t)
      <3>1. CASE i = 1
        BY <1>1, <3>1
      <3>2. CASE i # 1
        <4>1. i - 1 \in 1..(l - 1) /\ i = (i - 1) + 1
          BY <1>1, <3>2
        <4>2. t[i - 1] = q[i]
          BY <1>1, <4>1
        <4>3. QED
          BY <1>1, <4>1, <4>2 DEF ToSet
      <3>3. QED
        BY <3>1, <3>2
    <2>2. \A f \in ToSet(t) : f \in ToSet(q)
      BY <1>1 DEF ToSet
    <2>3. Head(q) \in ToSet(q)
      BY <1>1 DEF ToSet
    <2>4. \A f \in ToSet(q) : f = Head(q) \/ f \in ToSet(t)
      BY <1>1, <2>1 DEF ToSet
    <2>5. QED
      BY <2>2, <2>3, <2>4
  <1>3. ASSUME Ordered(q) PROVE Ordered(t) /\ \A f \in ToSet(t) : InOrder(Head(q), f)
    <2>1. ASSUME NEW i \in DOMAIN t, NEW j \in DOMAIN t, i < j PROVE InOrder(t[i], t[j])
      <3>1. i + 1 \in 1..l /\ j + 1 \in 1..l /\ i + 1 < j + 1 /\ t[i] = q[i + 1]
            /\ t[j] = q[j + 1]
        BY <1>1, <2>1
      <3>2. QED
        BY <1>1, <1>3, <3>1 DEF Ordered
    <2>2. ASSUME NEW i \in DOMAIN t PROVE InOrder(Head(q), t[i])
      <3>1. 1 \in 1..l /\ i + 1 \in 1..l /\ 1 < i + 1 /\ t[i] = q[i + 1]
        BY <1>1
      <3>2. QED
        BY <1>1, <1>3, <3>1 DEF Ordered
    <2>3. QED
      BY <2>1, <2>2 DEF Ordered, ToSet
  <1>4. QED
    BY <1>1, <1>2, <1>3 DEF t

\* Adding a message to a queue.
LEMMA AppendOf ==
  ASSUME NEW A, NEW q \in Seq(A), NEW e \in A
  PROVE  /\ Append(q, e) \in Seq(A)
         /\ ToSet(Append(q, e)) = ToSet(q) \cup {e}
         /\ Ordered(q) /\ (\A f \in ToSet(q) : InOrder(f, e)) => Ordered(Append(q, e))
  <1> DEFINE r == Append(q, e)
             l == Len(q)
  <1>1. /\ l \in Nat /\ DOMAIN q = 1..l /\ DOMAIN r = 1..(l + 1) /\ r \in Seq(A)
        /\ r[l + 1] = e
        /\ \A i \in 1..l : r[i] = q[i]
    OBVIOUS
  <1> HIDE DEF r, l
  <1>2. \A i \in 1..(l + 1) : i \in 1..l \/ i = l + 1
    BY <1>1
  <1>3. ToSet(r) = ToSet(q) \cup {e}
    <2>1. \A i \in 1..l : i \in 1..(l + 1)
      BY <1>1
    <2>2. l + 1 \in 1..(l + 1)
      BY <1>1
    <2>3. QED
      BY <1>1, <1>2, <2>1, <2>2 DEF ToSet
  <1>4. ASSUME Ordered(q), \A f \in ToSet(q) : InOrder(f, e) PROVE Ordered(r)
    <2>1. ASSUME NEW i \in 1..(l + 1), NEW j \in 1..(l + 1), i < j PROVE InOrder(r[i], r[j])
      <3>1. i \in 1..l
        BY <1>1, <2>1
      <3>2. CASE j \in 1..l
        BY <1>1, <1>4, <2>1, <3>1, <3>2 DEF Ordered
      <3>3. CASE j = l + 1
        BY <1>1, <1>4, <3>1, <3>3 DEF ToSet
      <3>4. QED
        BY <1>2, <3>2, <3>3
    <2>2. QED
      BY <1>1, <2>1 DEF Ordered
  <1>5. QED
    BY <1>1, <1>3, <1>4 DEF r

\* The messages of a queue are finitely many.
LEMMA SetOf ==
  ASSUME NEW A, NEW q \in Seq(A)
  PROVE  ToSet(q) \subseteq A /\ IsFiniteSet(ToSet(q)) /\ ToSet(<< >>) = {}
  <1>1. Len(q) \in Nat /\ DOMAIN q = 1..Len(q) /\ \A i \in 1..Len(q) : q[i] \in A
    BY ElementOf
  <1>2. ToSet(q) \subseteq A
    BY <1>1 DEF ToSet
  <1>3. IsFiniteSet(ToSet(q))
    <2> DEFINE f == [i \in 1..Len(q) |-> q[i]]
    <2>1. f \in Surjection(1..Len(q), ToSet(q))
      BY <1>1 DEF Surjection, ToSet
    <2>2. IsFiniteSet(1..Len(q))
      BY <1>1, FS_Interval
    <2> HIDE DEF f
    <2>3. QED
      BY <2>1, <2>2, FS_Surjection
  <1>4. ToSet(<< >>) = {}
    BY DEF ToSet
  <1>5. QED
    BY <1>2, <1>3, <1>4

\* What the books of a strategy, its queues and the gateway say of each other.  Its ids:
\* an order not yet executed has a larger one than all that were.
IdsAgree(x, actions, done) ==
  /\ Numbered(actions, 0, x.nextId)
  /\ \A d \in done :
       /\ d.id < x.nextId
       /\ \A i \in DOMAIN actions : actions[i].kind = "new" => d.id < actions[i].id

\* The event streams, as they were and as they will be published.
StreamsOrdered(orders, trades, out) ==
  /\ Ordered(orders) /\ Ordered(trades) /\ Ordered(out)
  /\ Ahead(orders, out) /\ Ahead(trades, out)

\* All messages between the gateway and the strategy.
OnWay(orders, trades, out) == ToSet(orders) \cup ToSet(trades) \cup ToSet(out)

\* The strategy has applied the report that this order is filled.
SeenFilled(x, id) == \E key \in x.seen : key[1] = id /\ key[2] = "Filled"

\* The gateway has executed it.
Executed(done, id) == \E d \in done : d.id = id

\* What is on its way is new to the strategy, and is of executed orders only.
StillNews(x, pending, next, done) ==
  /\ \A f \in ToSet(x.fills) : f < next
  /\ \A id \in Nat : SeenFilled(x, id) => Executed(done, id)
  /\ \A e \in pending :
       /\ e.queue = "trade" => e.trade < next /\ \A f \in ToSet(x.fills) : f < e.trade
       /\ e.queue = "order" /\ e.status # "Cancelled" =>
            Executed(done, e.id) /\ ~ SeenFilled(x, e.id)

Finished(x, id) == id \in DOMAIN x.orders /\ x.orders[id].status \in Terminal

\* An executed order is finished, or the report of that is on its way.
Finishing(x, pending, done) ==
  \A d \in done :
     \/ \E e \in pending : e.queue = "order" /\ e.id = d.id /\ e.status = "Filled"
     \/ SeenFilled(x, d.id) /\ Finished(x, d.id)

\* The position and the trades on their way make up what was executed.
Accounted(x, trades, out, done) ==
  x.position + Total(TradesIn(trades)) + Total(TradesIn(out)) = Total(done)

\* The invariant of a strategy that is connected to its first gateway.
Consistent(x, actions, orders, trades, out, next, done) ==
  /\ IdsAgree(x, actions, done)
  /\ StreamsOrdered(orders, trades, out)
  /\ StillNews(x, OnWay(orders, trades, out), next, done)
  /\ Finishing(x, OnWay(orders, trades, out), done)
  /\ Accounted(x, trades, out, done)

\* Callbacks and what they write keep it.
LEMMA ConsistentAfterCallbacks ==
  ASSUME NEW x \in RunnerState, NEW o \in Outcomes(x), NEW actions \in Seq(Action),
         NEW orders, NEW trades, NEW out, NEW next, NEW done, done \subseteq Executions,
         Consistent(x, actions, orders, trades, out, next, done)
  PROVE  /\ Consistent(o.state, actions, orders, trades, out, next, done)
         /\ Consistent(o.state, actions \o o.actions, orders, trades, out, next, done)
  <1> DEFINE y == o.state
  <1>1. /\ y \in RunnerState /\ o.actions \in Seq(Action)
        /\ Keeps(x, y) /\ x.nextId <= y.nextId /\ Numbered(o.actions, x.nextId, y.nextId)
    BY DEF Outcomes
  <1> HIDE DEF y
  <1>2. x.nextId \in Nat /\ y.nextId \in Nat
    BY <1>1 DEF RunnerState
  <1>3. y.position = x.position /\ y.fills = x.fills /\ y.seen = x.seen
    BY <1>1 DEF Keeps
  <1>4. \A d \in done : d.id \in Nat
    BY DEF Executions
  <1>5. \A d \in done : d.id < x.nextId
    BY DEF Consistent, IdsAgree
  <1>6. \A d \in done : Finished(x, d.id) => Finished(y, d.id)
    BY <1>1, <1>5 DEF Finished, Keeps
  <1>7. StillNews(y, OnWay(orders, trades, out), next, done)
    BY <1>3 DEF StillNews, SeenFilled, Consistent
  <1>8. Finishing(y, OnWay(orders, trades, out), done)
    BY <1>3, <1>6 DEF Finishing, SeenFilled, Consistent
  <1>9. Accounted(y, trades, out, done)
    BY <1>3 DEF Accounted, Consistent
  <1>10. IdsAgree(y, actions, done) /\ IdsAgree(y, actions \o o.actions, done)
    <2> DEFINE c == actions \o o.actions
    <2>1. /\ Numbered(actions, 0, x.nextId)
          /\ \A d \in done : \A i \in DOMAIN actions :
                actions[i].kind = "new" => d.id < actions[i].id
      BY DEF Consistent, IdsAgree
    <2>2. Numbered(c, 0, y.nextId) /\ c \in Seq(Action)
      <3> HIDE DEF c
      <3>1. 0 \in Nat /\ 0 <= x.nextId
        BY <1>2
      <3>2. QED
        BY <1>1, <1>2, <2>1, <3>1, NumberedJoin DEF c
    <2>3. Numbered(actions, 0, y.nextId)
      <3>1. \A i \in DOMAIN actions : actions[i].kind = "new" => actions[i].id \in Nat
        BY ElementOf DEF Action
      <3>2. QED
        BY <1>1, <1>2, <2>1, <3>1 DEF Numbered
    <2>4. \A d \in done : d.id < y.nextId
      BY <1>1, <1>2, <1>4, <1>5
    <2>5. ASSUME NEW d \in done, NEW i \in DOMAIN c, c[i].kind = "new" PROVE d.id < c[i].id
      <3>1. \/ i \in DOMAIN actions /\ c[i] = actions[i]
            \/ i - Len(actions) \in DOMAIN o.actions /\ c[i] = o.actions[i - Len(actions)]
        BY <1>1, <2>2
      <3> HIDE DEF c
      <3>2. CASE i \in DOMAIN actions /\ c[i] = actions[i]
        BY <2>1, <2>5, <3>2
      <3>3. CASE i - Len(actions) \in DOMAIN o.actions /\ c[i] = o.actions[i - Len(actions)]
        <4>1. x.nextId <= c[i].id
          BY <1>1, <2>5, <3>3 DEF Numbered
        <4>2. c[i].id \in Nat
          BY <2>2, <2>5, ElementOf DEF Action
        <4>3. QED
          BY <1>2, <1>4, <1>5, <4>1, <4>2
      <3>4. QED
        BY <3>1, <3>2, <3>3
    <2> HIDE DEF c
    <2>6. QED
      BY <2>1, <2>2, <2>3, <2>4, <2>5 DEF IdsAgree, c
  <1>11. QED
    BY <1>7, <1>8, <1>9, <1>10 DEF Consistent, y

\* The trades of a queue can be totalled.
LEMMA TradesOf ==
  ASSUME NEW q \in Seq(Msg)
  PROVE  /\ TradesIn(q) \subseteq TradeMsg
         /\ TradesIn(q) \subseteq ToSet(q)
         /\ Sized(TradesIn(q))
  <1>1. ToSet(q) \subseteq Msg /\ IsFiniteSet(ToSet(q))
    BY SetOf
  <1>2. TradesIn(q) \subseteq TradeMsg /\ TradesIn(q) \subseteq ToSet(q)
    BY <1>1 DEF TradesIn, Msg, OrderMsg
  <1>3. \A x \in TradesIn(q) : Signed(x.side, x.quantity) \in Int
    BY <1>2 DEF TradeMsg, Signed
  <1>4. IsFiniteSet(TradesIn(q))
    BY <1>1, <1>2, FS_Subset
  <1>5. QED
    BY <1>2, <1>3, <1>4 DEF Sized

\* So can what the gateway has executed.
LEMMA ExecutionsSized ==
  ASSUME NEW done, done \subseteq Executions, IsFiniteSet(done)
  PROVE  Sized(done)
  BY DEF Sized, Executions, Signed

\* One more item adds its quantity.
LEMMA TotalAdds ==
  ASSUME NEW S, NEW x, Sized(S \cup {x}), x \notin S
  PROVE  Total(S \cup {x}) = Signed(x.side, x.quantity) + Total(S)
  <1>1. (S \cup {x}) \ {x} = S
    OBVIOUS
  <1>2. Total(S \cup {x}) = Signed(x.side, x.quantity) + Total((S \cup {x}) \ {x})
    BY TotalSplits
  <1>3. QED
    BY <1>1, <1>2

\* A message of one kind is a message.
LEMMA Messages ==
  /\ Seq(OrderMsg) \subseteq Seq(Msg)
  /\ Seq(TradeMsg) \subseteq Seq(Msg)
  /\ \A e \in OrderMsg : e.queue = "order"
  /\ \A e \in TradeMsg : e.queue = "trade"
  <1>1. OrderMsg \subseteq Msg /\ TradeMsg \subseteq Msg
    BY DEF Msg
  <1>2. ASSUME NEW q \in Seq(OrderMsg) PROVE q \in Seq(Msg)
    BY <1>1
  <1>3. ASSUME NEW q \in Seq(TradeMsg) PROVE q \in Seq(Msg)
    BY <1>1
  <1>4. QED
    BY <1>2, <1>3 DEF OrderMsg, TradeMsg

\* on_order_event keeps it.  A repeated event is never the pending report of a filled
\* order, since that one was not seen yet; and an event that reopens an order is never
\* one that comes after that report.
LEMMA ConsistentAfterOrderEvent ==
  ASSUME NEW x \in RunnerState, NEW actions,
         NEW orders \in Seq(OrderMsg), orders # << >>, NEW trades \in Seq(TradeMsg),
         NEW out \in Seq(Msg), NEW next, NEW done, done \subseteq Executions,
         Consistent(x, actions, orders, trades, out, next, done)
  PROVE  LET e == Head(orders)
         IN  Consistent(IF IsNewOrderEvent(x, e) THEN ApplyOrderEvent(x, e) ELSE x,
                        actions, Tail(orders), trades, out, next, done)
  <1> DEFINE e == Head(orders)
             t == Tail(orders)
             now == OnWay(orders, trades, out)
             then == OnWay(t, trades, out)
             y == IF IsNewOrderEvent(x, e) THEN ApplyOrderEvent(x, e) ELSE x
  <1>1. /\ IdsAgree(x, actions, done)
        /\ StreamsOrdered(orders, trades, out)
        /\ StillNews(x, now, next, done)
        /\ Finishing(x, now, done)
        /\ Accounted(x, trades, out, done)
    BY DEF Consistent
  <1>2. /\ e \in OrderMsg /\ t \in Seq(OrderMsg)
        /\ ToSet(orders) = {e} \cup ToSet(t)
        /\ Ordered(t) /\ \A f \in ToSet(t) : InOrder(e, f)
    BY <1>1, HeadOf DEF StreamsOrdered
  <1>3. e.queue = "order" /\ e.id \in Nat
    BY <1>2 DEF OrderMsg
  <1> HIDE DEF e, t
  <1>4. StreamsOrdered(t, trades, out)
    BY <1>1, <1>2 DEF StreamsOrdered, Ahead
  <1>5. now = {e} \cup then
    BY <1>2 DEF OnWay
  <1>6. \A f \in then : InOrder(e, f) \/ f.queue = "trade"
    <2>1. \A f \in ToSet(out) : InOrder(e, f)
      BY <1>1, <1>2 DEF StreamsOrdered, Ahead
    <2>2. \A f \in ToSet(trades) : f.queue = "trade"
      BY SetOf, Messages
    <2>3. QED
      BY <1>2, <2>1, <2>2 DEF OnWay
  <1>7. ~ IsNewOrderEvent(x, e) /\ e.status = "Filled" => SeenFilled(x, e.id)
    BY DEF IsNewOrderEvent, EventKey, SeenFilled
  <1>8. e.status = "Filled" => Executed(done, e.id) /\ ~ SeenFilled(x, e.id)
    BY <1>1, <1>3, <1>5 DEF StillNews
  <1>9. CASE IsNewOrderEvent(x, e)
    <2> DEFINE z == ApplyOrderEvent(x, e)
    <2>1. /\ z.position = x.position
          /\ z.fills = x.fills
          /\ z.nextId = x.nextId
          /\ z.seen = x.seen \cup {EventKey(e)}
          /\ DOMAIN z.orders = DOMAIN x.orders \cup {e.id}
          /\ z.orders[e.id].status = e.status
          /\ \A j \in DOMAIN x.orders \ {e.id} : z.orders[j] = x.orders[j]
      BY <1>2, OrderEventApplied
    <2> HIDE DEF z
    <2>2. \A id \in Nat : SeenFilled(z, id) <=>
            SeenFilled(x, id) \/ (e.id = id /\ e.status = "Filled")
      <3> DEFINE k == EventKey(e)
      <3>1. k[1] = e.id /\ k[2] = e.status
        BY DEF EventKey
      <3>2. z.seen = x.seen \cup {k}
        BY <2>1
      <3> HIDE DEF k, y, now, then
      <3>3. QED
        BY <3>1, <3>2 DEF SeenFilled
    <2>3. StillNews(z, then, next, done)
      <3>1. \A f \in ToSet(z.fills) : f < next
        BY <1>1, <2>1 DEF StillNews
      <3>2. \A id \in Nat : SeenFilled(z, id) => Executed(done, id)
        BY <1>1, <1>8, <2>2 DEF StillNews
      <3>3. ASSUME NEW f \in then, f.queue = "trade"
            PROVE  f.trade < next /\ \A g \in ToSet(z.fills) : g < f.trade
        BY <1>1, <1>5, <2>1, <3>3 DEF StillNews
      <3>4. ASSUME NEW f \in then, f.queue = "order", f.status # "Cancelled"
            PROVE  Executed(done, f.id) /\ ~ SeenFilled(z, f.id)
        <4>1. Executed(done, f.id) /\ ~ SeenFilled(x, f.id)
          BY <1>1, <1>5, <3>4 DEF StillNews
        <4>2. f.id \in Nat
          <5>1. PICK d \in done : d.id = f.id
            BY <4>1 DEF Executed
          <5>2. QED
            BY <5>1 DEF Executions
        <4>3. ~ (e.id = f.id /\ e.status = "Filled")
          <5>1. InOrder(e, f)
            BY <1>6, <3>4
          <5>2. QED
            BY <1>3, <3>4, <5>1 DEF InOrder
        <4>4. QED
          BY <2>2, <4>1, <4>2, <4>3
      <3>5. QED
        BY <3>1, <3>2, <3>3, <3>4 DEF StillNews
    <2>4. Finishing(z, then, done)
      <3>1. ASSUME NEW d \in done
            PROVE  \/ \E f \in then : f.queue = "order" /\ f.id = d.id /\ f.status = "Filled"
                   \/ SeenFilled(z, d.id) /\ Finished(z, d.id)
        <4>0. d.id \in Nat
          BY DEF Executions
        <4>1. CASE e.id = d.id /\ e.status = "Filled"
          <5>1. SeenFilled(z, d.id)
            BY <2>2, <4>0, <4>1
          <5>2. Finished(z, d.id)
            BY <2>1, <4>1 DEF Finished, Terminal
          <5>3. QED
            BY <5>1, <5>2
        <4>2. CASE SeenFilled(x, d.id) /\ Finished(x, d.id)
          <5>1. SeenFilled(z, d.id)
            BY <2>2, <4>0, <4>2
          <5>2. CASE e.id = d.id
            <6>1. e.status = "Cancelled"
              BY <1>1, <1>3, <1>5, <4>2, <5>2 DEF StillNews
            <6>2. Finished(z, d.id)
              BY <2>1, <5>2, <6>1 DEF Finished, Terminal
            <6>3. QED
              BY <5>1, <6>2
          <5>3. CASE e.id # d.id
            <6>1. Finished(z, d.id)
              BY <2>1, <4>2, <5>3 DEF Finished
            <6>2. QED
              BY <5>1, <6>1
          <5>4. QED
            BY <5>2, <5>3
        <4>3. CASE \E f \in then : f.queue = "order" /\ f.id = d.id /\ f.status = "Filled"
          BY <4>3
        <4>4. QED
          BY <1>1, <1>5, <4>1, <4>2, <4>3 DEF Finishing
      <3>2. QED
        BY <3>1 DEF Finishing
    <2>5. IdsAgree(z, actions, done) /\ Accounted(z, trades, out, done)
      BY <1>1, <2>1 DEF IdsAgree, Accounted
    <2>6. y = z
      BY <1>9 DEF z
    <2>7. QED
      BY <1>4, <2>3, <2>4, <2>5, <2>6 DEF Consistent, t, e, z
  <1>10. CASE ~ IsNewOrderEvent(x, e)
    <2>1. e.status # "Filled"
      BY <1>7, <1>8, <1>10
    <2>2. StillNews(x, then, next, done)
      BY <1>1, <1>5 DEF StillNews
    <2>3. Finishing(x, then, done)
      BY <1>1, <1>5, <2>1 DEF Finishing
    <2>4. y = x
      BY <1>10
    <2>5. QED
      BY <1>1, <1>4, <2>2, <2>3, <2>4 DEF Consistent, t, e
  <1>11. QED
    BY <1>9, <1>10

\* on_trade_event keeps it: a trade on its way is always newer than all the window
\* remembers, so it is booked, and booked once.
LEMMA ConsistentAfterTradeEvent ==
  ASSUME NEW x \in RunnerState, NEW actions,
         NEW orders \in Seq(OrderMsg), NEW trades \in Seq(TradeMsg), trades # << >>,
         NEW out \in Seq(Msg), NEW next \in Nat, NEW done, done \subseteq Executions,
         Consistent(x, actions, orders, trades, out, next, done)
  PROVE  LET e == Head(trades)
         IN  /\ IsNewTrade(x, e)
             /\ Consistent(ApplyTradeEvent(x, e), actions, orders, Tail(trades), out,
                           next, done)
  <1> DEFINE e == Head(trades)
             t == Tail(trades)
             now == OnWay(orders, trades, out)
             then == OnWay(orders, t, out)
             z == ApplyTradeEvent(x, e)
  <1>1. /\ IdsAgree(x, actions, done)
        /\ StreamsOrdered(orders, trades, out)
        /\ StillNews(x, now, next, done)
        /\ Finishing(x, now, done)
        /\ Accounted(x, trades, out, done)
    BY DEF Consistent
  <1>2. /\ e \in TradeMsg /\ t \in Seq(TradeMsg)
        /\ ToSet(trades) = {e} \cup ToSet(t)
        /\ Ordered(t) /\ \A f \in ToSet(t) : InOrder(e, f)
    BY <1>1, HeadOf DEF StreamsOrdered
  <1>3. e.queue = "trade" /\ e.trade \in Nat
    BY <1>2 DEF TradeMsg
  <1> HIDE DEF e, t
  <1>4. StreamsOrdered(orders, t, out)
    BY <1>1, <1>2 DEF StreamsOrdered, Ahead
  <1>5. now = {e} \cup then
    BY <1>2 DEF OnWay
  <1>6. e.trade < next /\ \A g \in ToSet(x.fills) : g < e.trade
    BY <1>1, <1>3, <1>5 DEF StillNews
  <1>7. x.fills \in Seq(Nat) /\ ToSet(x.fills) \subseteq Nat /\ x.position \in Int
    BY SetOf DEF RunnerState, Fills
  <1>8. IsNewTrade(x, e)
    BY <1>3, <1>6, <1>7 DEF IsNewTrade
  <1>9. /\ z.position = x.position + Signed(e.side, e.quantity)
        /\ ToSet(z.fills) \subseteq ToSet(x.fills) \cup {e.trade}
        /\ z.nextId = x.nextId
        /\ z.seen = x.seen
        /\ DOMAIN z.orders = DOMAIN x.orders
        /\ \A id \in DOMAIN x.orders :
             x.orders[id].status \in Terminal => z.orders[id].status \in Terminal
    BY <1>2, <1>8, TradeApplied
  <1> HIDE DEF z
  <1>10. \A f \in then : f.queue = "trade" => InOrder(e, f) /\ f \in TradeMsg
    <2>1. \A f \in ToSet(out) : InOrder(e, f)
      BY <1>1, <1>2 DEF StreamsOrdered, Ahead
    <2>2. ToSet(orders) \subseteq OrderMsg /\ ToSet(t) \subseteq TradeMsg
          /\ ToSet(out) \subseteq Msg
      BY <1>2, SetOf
    <2>3. \A f \in ToSet(orders) : f.queue # "trade"
      BY <2>2 DEF OrderMsg
    <2>4. \A f \in ToSet(out) : f.queue = "trade" => f \in TradeMsg
      BY <2>2 DEF Msg, OrderMsg
    <2>5. QED
      BY <1>2, <2>1, <2>2, <2>3, <2>4 DEF OnWay
  <1>11. StillNews(z, then, next, done)
    <2>1. \A f \in ToSet(z.fills) : f < next
      BY <1>1, <1>6, <1>9 DEF StillNews
    <2>2. \A id \in Nat : SeenFilled(z, id) <=> SeenFilled(x, id)
      BY <1>9 DEF SeenFilled
    <2>3. ASSUME NEW f \in then, f.queue = "trade"
          PROVE  f.trade < next /\ \A g \in ToSet(z.fills) : g < f.trade
      <3>1. f.trade < next /\ \A g \in ToSet(x.fills) : g < f.trade
        BY <1>1, <1>5, <2>3 DEF StillNews
      <3>2. e.trade < f.trade
        BY <1>3, <1>10, <2>3 DEF InOrder
      <3>3. QED
        BY <1>9, <3>1, <3>2
    <2>4. QED
      BY <1>1, <1>5, <1>9, <2>1, <2>2, <2>3 DEF StillNews, SeenFilled
  <1>12. Finishing(z, then, done)
    <2>1. \A d \in done : Finished(x, d.id) => Finished(z, d.id)
      BY <1>9 DEF Finished
    <2>2. QED
      BY <1>1, <1>3, <1>5, <1>9, <2>1 DEF Finishing, SeenFilled
  <1>13. Accounted(z, t, out, done)
    <2>1. trades \in Seq(Msg) /\ t \in Seq(Msg)
      BY <1>2, Messages
    <2>2. e \notin ToSet(t)
      <3>1. \A f \in ToSet(t) : f \in TradeMsg /\ InOrder(e, f)
        BY <1>2, SetOf
      <3>2. ~ (e.trade < e.trade)
        BY <1>3
      <3>3. QED
        BY <1>3, <3>1, <3>2 DEF InOrder
    <2>3. TradesIn(trades) = TradesIn(t) \cup {e} /\ e \notin TradesIn(t)
      BY <1>2, <1>3, <2>2 DEF TradesIn
    <2>4. Total(TradesIn(trades)) = Signed(e.side, e.quantity) + Total(TradesIn(t))
      <3>1. Sized(TradesIn(t) \cup {e})
        BY <2>1, <2>3, TradesOf
      <3>2. QED
        BY <2>3, <3>1, TotalAdds
    <2>5. Total(TradesIn(t)) \in Int /\ Total(TradesIn(out)) \in Int
      BY <2>1, TradesOf, TotalSplits
    <2>6. Signed(e.side, e.quantity) \in Int
      BY <1>2 DEF TradeMsg, Signed
    <2>7. x.position + Total(TradesIn(trades)) + Total(TradesIn(out)) = Total(done)
      BY <1>1 DEF Accounted
    <2>8. QED
      BY <1>7, <1>9, <2>4, <2>5, <2>6, <2>7 DEF Accounted
  <1>14. IdsAgree(z, actions, done)
    BY <1>1, <1>9 DEF IdsAgree
  <1>15. QED
    BY <1>4, <1>8, <1>11, <1>12, <1>13, <1>14 DEF Consistent, t, e, z

\* send_order keeps it: the order's id is fresh, so no event of it was seen or is on its way.
LEMMA ConsistentAfterAction ==
  ASSUME NEW s \in Strategies, NEW x \in RunnerState,
         NEW actions \in Seq(Action), actions # << >>,
         NEW orders \in Seq(OrderMsg), NEW trades \in Seq(TradeMsg),
         nextTrade \in Nat, NEW done, done \subseteq Executions, IsFiniteSet(done),
         Consistent(x, actions, orders, trades, << >>, nextTrade, done)
  PROVE  LET a == Head(actions)
         IN  Consistent(x, Tail(actions), orders, trades, EventsOf(a),
               IF a.kind = "new" THEN nextTrade + 1 ELSE nextTrade,
               IF a.kind = "new"
               THEN done \cup {[strategy |-> s, id |-> a.id, side |-> a.side,
                                quantity |-> a.quantity]}
               ELSE done)
  <1> DEFINE a == Head(actions)
             t == Tail(actions)
             out == EventsOf(a)
             d0 == [strategy |-> s, id |-> a.id, side |-> a.side, quantity |-> a.quantity]
             now == OnWay(orders, trades, << >>)
             then == OnWay(orders, trades, out)
  <1>1. /\ IdsAgree(x, actions, done)
        /\ StreamsOrdered(orders, trades, << >>)
        /\ StillNews(x, now, nextTrade, done)
        /\ Finishing(x, now, done)
        /\ Accounted(x, trades, << >>, done)
    BY DEF Consistent
  <1>2. a \in Action /\ t \in Seq(Action) /\ Numbered(t, 0, x.nextId)
        /\ (a.kind = "new" => a.id < x.nextId)
        /\ (a.kind = "new" => \A i \in DOMAIN t : t[i].kind = "new" => a.id < t[i].id)
        /\ (a.kind = "new" => \A d \in done : d.id < a.id)
        /\ \A d \in done : \A i \in DOMAIN t : t[i].kind = "new" => d.id < t[i].id
    <2> DEFINE l == Len(actions)
    <2>1. /\ l \in Nat /\ l > 0 /\ DOMAIN actions = 1..l /\ DOMAIN t = 1..(l - 1)
          /\ t \in Seq(Action) /\ a = actions[1] /\ a \in Action /\ 1 \in 1..l
          /\ \A i \in 1..(l - 1) : t[i] = actions[i + 1] /\ i + 1 \in 1..l /\ 1 < i + 1
      OBVIOUS
    <2> HIDE DEF a, t, l, now, then, out, d0
    <2>2. Numbered(actions, 0, x.nextId)
      BY <1>1 DEF IdsAgree
    <2>3. Numbered(t, 0, x.nextId)
      <3>1. ASSUME NEW i \in DOMAIN t, t[i].kind = "new"
              PROVE  0 <= t[i].id /\ t[i].id < x.nextId
        BY <2>1, <2>2, <3>1 DEF Numbered
      <3>2. ASSUME NEW i \in DOMAIN t, NEW j \in DOMAIN t, i < j,
                   t[i].kind = "new", t[j].kind = "new"
            PROVE  t[i].id < t[j].id
        <4>1. i + 1 < j + 1
          BY <2>1, <3>2
        <4>2. QED
          BY <2>1, <2>2, <3>2, <4>1 DEF Numbered
      <3>3. QED
        BY <3>1, <3>2 DEF Numbered
    <2>4. a.kind = "new" => a.id < x.nextId
      BY <2>1, <2>2 DEF Numbered
    <2>5. ASSUME a.kind = "new", NEW i \in DOMAIN t, t[i].kind = "new" PROVE a.id < t[i].id
      BY <2>1, <2>2, <2>5 DEF Numbered
    <2>6. ASSUME a.kind = "new", NEW d \in done PROVE d.id < a.id
      BY <1>1, <2>1, <2>6 DEF IdsAgree
    <2>7. ASSUME NEW d \in done, NEW i \in DOMAIN t, t[i].kind = "new" PROVE d.id < t[i].id
      BY <1>1, <2>1, <2>7 DEF IdsAgree
    <2>8. QED
      BY <2>1, <2>3, <2>4, <2>5, <2>6, <2>7
  <1> HIDE DEF a, t
  <1>3. /\ Ordered(orders) /\ Ordered(trades)
    BY <1>1 DEF StreamsOrdered
  <1>4. now = ToSet(orders) \cup ToSet(trades) /\ then = now \cup ToSet(out)
    BY SetOf DEF OnWay
  <1>5. ToSet(orders) \subseteq OrderMsg /\ ToSet(trades) \subseteq TradeMsg
    BY SetOf
  <1>6. \A d \in done : d.id \in Nat /\ d.id < x.nextId
    BY <1>1 DEF IdsAgree, Executions
  <1>7. CASE a.kind = "new"
    <2> DEFINE e1 == OrderEvent(a.id, "Active", 0, a.quantity)
               e2 == TradeEvent(a)
               e3 == OrderEvent(a.id, "Filled", a.quantity, 0)
               all == done \cup {d0}
    <2>1. /\ a.id \in Nat /\ a.side \in Sides /\ a.quantity \in Nat
          /\ e1 \in OrderMsg /\ e2 \in TradeMsg /\ e3 \in OrderMsg
      BY <1>2, <1>7, EventsTyped
    <2>2. out = <<e1, e2, e3>>
      BY <1>7 DEF EventsOf
    <2>3. /\ e1.queue = "order" /\ e1.id = a.id /\ e1.status = "Active"
          /\ e2.queue = "trade" /\ e2.trade = nextTrade /\ e2.side = a.side
          /\ e2.quantity = a.quantity
          /\ e3.queue = "order" /\ e3.id = a.id /\ e3.status = "Filled"
      BY DEF OrderEvent, TradeEvent
    <2>4. d0.id = a.id /\ d0.side = a.side /\ d0.quantity = a.quantity
      OBVIOUS
    <2>4a. d0 \in Executions
      BY <2>1 DEF Executions
    <2> HIDE DEF e1, e2, e3, out, d0, now, then
    <2>5. DOMAIN out = 1..3 /\ out[1] = e1 /\ out[2] = e2 /\ out[3] = e3
      BY <2>2
    <2>6. ToSet(out) = {e1, e2, e3}
      BY <2>5 DEF ToSet
    <2>7. ~ Executed(done, a.id)
      <3>1. \A d \in done : d.id < a.id
        BY <1>2, <1>7
      <3>2. QED
        BY <1>6, <2>1, <3>1 DEF Executed
    <2>8. \A id \in Nat : Executed(all, id) <=> Executed(done, id) \/ id = a.id
      BY <2>4 DEF Executed
    <2>9. IdsAgree(x, t, all)
      BY <1>2, <1>6, <1>7, <2>4 DEF IdsAgree
    <2>10. StreamsOrdered(orders, trades, out)
      <3>1. Ordered(out)
        <4>1. InOrder(e1, e2) /\ InOrder(e1, e3) /\ InOrder(e2, e3)
          BY <2>3 DEF InOrder
        <4>2. \A i, j \in 1..3 : i < j =>
                (i = 1 /\ j = 2) \/ (i = 1 /\ j = 3) \/ (i = 2 /\ j = 3)
          OBVIOUS
        <4>3. QED
          BY <2>5, <4>1, <4>2 DEF Ordered
      <3>2. ASSUME NEW e \in ToSet(orders), NEW f \in ToSet(out) PROVE InOrder(e, f)
        <4>1. e.queue = "order"
          BY <1>5 DEF OrderMsg
        <4>2. ~ (e.status = "Filled" /\ e.id = a.id)
          BY <1>1, <1>4, <2>7, <4>1 DEF StillNews
        <4>3. QED
          BY <2>3, <2>6, <4>1, <4>2 DEF InOrder
      <3>3. ASSUME NEW e \in ToSet(trades), NEW f \in ToSet(out) PROVE InOrder(e, f)
        <4>1. e.queue = "trade"
          BY <1>5 DEF TradeMsg
        <4>2. e.trade < nextTrade
          BY <1>1, <1>4, <4>1 DEF StillNews
        <4>3. QED
          BY <2>3, <2>6, <4>1, <4>2 DEF InOrder
      <3>4. QED
        BY <1>3, <3>1, <3>2, <3>3 DEF StreamsOrdered, Ahead
    <2>11. StillNews(x, then, nextTrade + 1, all)
      <3>0. ToSet(x.fills) \subseteq Nat
        BY SetOf DEF RunnerState, Fills
      <3>1. \A f \in ToSet(x.fills) : f < nextTrade + 1 /\ f < nextTrade
        BY <1>1, <3>0 DEF StillNews
      <3>2. \A id \in Nat : SeenFilled(x, id) => Executed(all, id)
        BY <1>1, <2>8 DEF StillNews
      <3>3. ASSUME NEW f \in then, f.queue = "trade"
            PROVE  f.trade < nextTrade + 1 /\ \A g \in ToSet(x.fills) : g < f.trade
        <4>1. CASE f \in now
          <5>1. f.trade < nextTrade /\ \A g \in ToSet(x.fills) : g < f.trade
            BY <1>1, <3>3, <4>1 DEF StillNews
          <5>2. f.trade \in Nat
            BY <1>4, <1>5, <3>3, <4>1 DEF OrderMsg, TradeMsg
          <5>3. QED
            BY <5>1, <5>2
        <4>2. CASE f \in ToSet(out)
          BY <2>3, <2>6, <3>1, <3>3, <4>2
        <4>3. QED
          BY <1>4, <4>1, <4>2
      <3>4. ASSUME NEW f \in then, f.queue = "order", f.status # "Cancelled"
            PROVE  Executed(all, f.id) /\ ~ SeenFilled(x, f.id)
        <4>1. CASE f \in now
          BY <1>1, <3>4, <4>1 DEF StillNews, Executed
        <4>2. CASE f \in ToSet(out)
          <5>1. f.id = a.id
            BY <2>3, <2>6, <3>4, <4>2
          <5>2. Executed(all, a.id)
            BY <2>1, <2>8
          <5>3. ~ SeenFilled(x, a.id)
            BY <1>1, <2>1, <2>7 DEF StillNews
          <5>4. QED
            BY <5>1, <5>2, <5>3
        <4>3. QED
          BY <1>4, <4>1, <4>2
      <3>5. QED
        BY <3>1, <3>2, <3>3, <3>4 DEF StillNews
    <2>12. Finishing(x, then, all)
      <3>1. e3 \in then
        BY <1>4, <2>6
      <3>2. QED
        BY <1>1, <1>4, <2>3, <2>4, <3>1 DEF Finishing
    <2>13. Accounted(x, trades, out, all)
      <3>1. TradesIn(out) = {e2}
        BY <2>3, <2>6 DEF TradesIn
      <3>2. Total({e2}) = Signed(a.side, a.quantity) + 0
        <4>1. {} \cup {e2} = {e2} /\ e2 \notin {}
          OBVIOUS
        <4>2. IsFiniteSet({e2}) /\ IsFiniteSet({})
          BY FS_Singleton, FS_EmptySet
        <4>3. Sized({e2}) /\ Sized({})
          BY <2>1, <2>3, <4>2 DEF Sized, Signed
        <4>4. Total({e2}) = Signed(e2.side, e2.quantity) + Total({})
          BY <4>1, <4>3, TotalAdds
        <4>5. Total({}) = 0
          BY <4>3, TotalSplits
        <4>6. QED
          BY <2>3, <4>4, <4>5
      <3>3. Total(all) = Signed(a.side, a.quantity) + Total(done)
        <4>1. d0 \notin done
          BY <2>4, <2>7 DEF Executed
        <4>2. all \subseteq Executions /\ IsFiniteSet(all)
          BY <2>4a, FS_AddElement
        <4>3. Sized(all)
          BY <4>2, ExecutionsSized
        <4>4. Total(done \cup {d0}) = Signed(d0.side, d0.quantity) + Total(done)
          BY <4>1, <4>3, TotalAdds
        <4>5. QED
          BY <2>4, <4>4
      <3>4. TradesIn(<< >>) = {} /\ Total({}) = 0
        <4>1. Sized({})
          BY FS_EmptySet DEF Sized
        <4>2. QED
          BY <4>1, SetOf, TotalSplits DEF TradesIn
      <3>5. x.position + Total(TradesIn(trades)) + 0 = Total(done)
        BY <1>1, <3>4 DEF Accounted
      <3>6. /\ x.position \in Int /\ Total(TradesIn(trades)) \in Int
            /\ Signed(a.side, a.quantity) \in Int
        BY <2>1, Messages, TradesOf, TotalSplits DEF RunnerState, Signed
      <3> HIDE DEF all
      <3>7. QED
        BY <3>1, <3>2, <3>3, <3>5, <3>6 DEF Accounted
    <2>14. QED
      BY <1>7, <2>9, <2>10, <2>11, <2>12, <2>13 DEF Consistent, a, t, out, then, d0
  <1>8. CASE a.kind # "new"
    <2> DEFINE e1 == OrderEvent(a.id, "Cancelled", 0, 0)
    <2>1. out = <<e1>> /\ e1 \in OrderMsg
      BY <1>2, <1>8, EventsTyped DEF EventsOf
    <2>2. e1.queue = "order" /\ e1.status = "Cancelled"
      BY DEF OrderEvent
    <2> HIDE DEF e1, out, now, then, d0
    <2>3. ToSet(out) = {e1} /\ DOMAIN out = 1..1
      BY <2>1 DEF ToSet
    <2>4. StreamsOrdered(orders, trades, out)
      <3>1. Ordered(out)
        BY <2>3 DEF Ordered
      <3>2. \A e : InOrder(e, e1)
        BY <2>2 DEF InOrder
      <3>3. QED
        BY <1>3, <2>3, <3>1, <3>2 DEF StreamsOrdered, Ahead
    <2>5. StillNews(x, then, nextTrade, done)
      BY <1>1, <1>4, <2>2, <2>3 DEF StillNews
    <2>6. Finishing(x, then, done)
      BY <1>1, <1>4 DEF Finishing
    <2>7. Accounted(x, trades, out, done)
      <3>1. TradesIn(out) = {} /\ TradesIn(<< >>) = {}
        BY <2>2, <2>3, SetOf DEF TradesIn
      <3>2. QED
        BY <1>1, <3>1 DEF Accounted
    <2>8. IdsAgree(x, t, done)
      BY <1>1, <1>2 DEF IdsAgree
    <2>9. QED
      BY <1>8, <2>4, <2>5, <2>6, <2>7, <2>8 DEF Consistent, a, t, out, then
  <1>9. QED
    BY <1>7, <1>8

\* Publishing an event to a strategy that reads both queues keeps it.
LEMMA ConsistentAfterPublish ==
  ASSUME NEW x \in RunnerState, NEW actions,
         NEW orders \in Seq(OrderMsg), NEW trades \in Seq(TradeMsg),
         NEW out \in Seq(Msg), out # << >>, NEW next, NEW done,
         Consistent(x, actions, orders, trades, out, next, done)
  PROVE  LET e == Head(out)
         IN  Consistent(x, actions,
               IF e.queue = "order" THEN Append(orders, e) ELSE orders,
               IF e.queue = "order" THEN trades ELSE Append(trades, e),
               Tail(out), next, done)
  <1> DEFINE e == Head(out)
             t == Tail(out)
             orders2 == IF e.queue = "order" THEN Append(orders, e) ELSE orders
             trades2 == IF e.queue = "order" THEN trades ELSE Append(trades, e)
  <1>1. /\ IdsAgree(x, actions, done)
        /\ StreamsOrdered(orders, trades, out)
        /\ StillNews(x, OnWay(orders, trades, out), next, done)
        /\ Finishing(x, OnWay(orders, trades, out), done)
        /\ Accounted(x, trades, out, done)
    BY DEF Consistent
  <1>2. /\ e \in Msg /\ t \in Seq(Msg)
        /\ ToSet(out) = {e} \cup ToSet(t)
        /\ Ordered(t) /\ \A f \in ToSet(t) : InOrder(e, f)
    BY <1>1, HeadOf DEF StreamsOrdered
  <1>3. /\ \A f \in ToSet(orders) : InOrder(f, e)
        /\ \A f \in ToSet(trades) : InOrder(f, e)
    BY <1>1, <1>2 DEF StreamsOrdered, Ahead
  <1> HIDE DEF e, t
  <1>4. CASE e.queue = "order"
    <2> DEFINE q == Append(orders, e)
    <2>1. e \in OrderMsg
      BY <1>2, <1>4 DEF Msg, TradeMsg
    <2>2. ToSet(q) = ToSet(orders) \cup {e} /\ Ordered(q)
      BY <1>1, <1>3, <2>1, AppendOf DEF StreamsOrdered
    <2> HIDE DEF q
    <2>3. OnWay(q, trades, t) = OnWay(orders, trades, out)
      BY <1>2, <2>2 DEF OnWay
    <2>4. StreamsOrdered(q, trades, t)
      BY <1>1, <1>2, <2>2 DEF StreamsOrdered, Ahead
    <2>5. TradesIn(t) = TradesIn(out)
      BY <1>2, <1>4 DEF TradesIn
    <2>6. Accounted(x, trades, t, done)
      BY <1>1, <2>5 DEF Accounted
    <2>7. Consistent(x, actions, q, trades, t, next, done)
      BY <1>1, <2>3, <2>4, <2>6 DEF Consistent
    <2>8. orders2 = q /\ trades2 = trades
      BY <1>4 DEF q
    <2>9. QED
      BY <2>7, <2>8 DEF e, t
  <1>5. CASE e.queue # "order"
    <2> DEFINE q == Append(trades, e)
    <2>1. e \in TradeMsg
      BY <1>2, <1>5 DEF Msg, OrderMsg
    <2>2. q \in Seq(TradeMsg) /\ ToSet(q) = ToSet(trades) \cup {e} /\ Ordered(q)
      BY <1>1, <1>3, <2>1, AppendOf DEF StreamsOrdered
    <2> HIDE DEF q
    <2>3. OnWay(orders, q, t) = OnWay(orders, trades, out)
      BY <1>2, <2>2 DEF OnWay
    <2>4. StreamsOrdered(orders, q, t)
      BY <1>1, <1>2, <2>2 DEF StreamsOrdered, Ahead
    <2>5. Accounted(x, q, t, done)
      <3>0. e.queue = "trade" /\ e.trade \in Nat
        BY <2>1 DEF TradeMsg
      <3>1. e \notin ToSet(trades) /\ e \notin ToSet(t)
        <4>1. ~ (e.trade < e.trade)
          BY <3>0
        <4>2. QED
          BY <1>2, <1>3, <3>0, <4>1 DEF InOrder
      <3>2. /\ TradesIn(q) = TradesIn(trades) \cup {e} /\ e \notin TradesIn(trades)
            /\ TradesIn(out) = TradesIn(t) \cup {e} /\ e \notin TradesIn(t)
        BY <1>2, <2>2, <3>0, <3>1 DEF TradesIn
      <3>3. q \in Seq(Msg) /\ trades \in Seq(Msg)
        BY <2>2, Messages
      <3>4. Sized(TradesIn(q)) /\ Sized(TradesIn(out)) /\ Sized(TradesIn(t))
            /\ Sized(TradesIn(trades))
        BY <1>2, <3>3, TradesOf
      <3>5. Total(TradesIn(q)) = Signed(e.side, e.quantity) + Total(TradesIn(trades))
        <4>1. Sized(TradesIn(trades) \cup {e})
          BY <3>2, <3>4
        <4>2. QED
          BY <3>2, <4>1, TotalAdds
      <3>6. Total(TradesIn(out)) = Signed(e.side, e.quantity) + Total(TradesIn(t))
        <4>1. Sized(TradesIn(t) \cup {e})
          BY <3>2, <3>4
        <4>2. QED
          BY <3>2, <4>1, TotalAdds
      <3>7. /\ x.position \in Int /\ Total(TradesIn(trades)) \in Int
            /\ Total(TradesIn(t)) \in Int /\ Signed(e.side, e.quantity) \in Int
        BY <2>1, <3>4, TotalSplits DEF RunnerState, TradeMsg, Signed
      <3>8. x.position + Total(TradesIn(trades)) + Total(TradesIn(out)) = Total(done)
        BY <1>1 DEF Accounted
      <3>9. QED
        BY <3>5, <3>6, <3>7, <3>8 DEF Accounted
    <2>6. Consistent(x, actions, orders, q, t, next, done)
      BY <1>1, <2>3, <2>4, <2>5 DEF Consistent
    <2>7. orders2 = orders /\ trades2 = q
      BY <1>5 DEF q
    <2>8. QED
      BY <2>6, <2>7 DEF e, t
  <1>6. QED
    BY <1>4, <1>5

--------------------------------------------------------------------------------
(* The steps of the specification.                                         *)

\* While neither the strategy nor the gateway has gone.
Live(s) == stage[s] # "stopped" /\ outages = 0

\* How far the connection of a strategy has come.
Joined(s) ==
  /\ stage[s] # "running" => actionQ[s] = << >> /\ outbox = << >> /\ executed = {}
  /\ stage[s] = "joining" => "order" \in hears[s]
  /\ stage[s] = "running" => hears[s] = {"order", "trade"}

Balanced(s) ==
  Consistent(st[s], actionQ[s], orderQ[s], tradeQ[s], outbox, nextTrade, executed)

FlowInv(s) == FlowTypes /\ (Live(s) => Joined(s) /\ Balanced(s))

\* It holds at the beginning.
LEMMA FlowInvStart ==
  ASSUME NEW s \in Strategies, Init
  PROVE  FlowInv(s)
  <1>1. FlowTypes
    BY FlowTypesStart
  <1>2. /\ stage[s] = "new" /\ st[s] = NewState /\ actionQ[s] = << >> /\ orderQ[s] = << >>
        /\ tradeQ[s] = << >> /\ outbox = << >> /\ executed = {}
    BY DEF Init
  <1>3. ToSet(<< >>) = {} /\ Ordered(<< >>)
    BY DEF ToSet, Ordered
  <1>4. Total({}) = 0 /\ TradesIn(<< >>) = {}
    <2>1. Sized({})
      BY FS_EmptySet DEF Sized
    <2>2. QED
      BY <1>3, <2>1, TotalSplits DEF TradesIn
  <1>5. NewState.seen = {} /\ NewState.fills = << >> /\ NewState.position = 0
    BY DEF NewState
  <1>6. Balanced(s)
    <2>1. IdsAgree(NewState, << >>, {})
      BY DEF IdsAgree, Numbered
    <2>2. StreamsOrdered(<< >>, << >>, << >>)
      BY <1>3 DEF StreamsOrdered, Ahead
    <2>3. StillNews(NewState, OnWay(<< >>, << >>, << >>), nextTrade, {})
      BY <1>3, <1>5 DEF StillNews, OnWay, SeenFilled
    <2>4. Finishing(NewState, OnWay(<< >>, << >>, << >>), {})
      BY DEF Finishing
    <2>5. Accounted(NewState, << >>, << >>, {})
      <3>1. Total(TradesIn(<< >>)) = 0
        BY <1>4
      <3>2. 0 + 0 + 0 = 0
        OBVIOUS
      <3>3. QED
        BY <1>4, <1>5, <3>1, <3>2 DEF Accounted
    <2>6. QED
      BY <1>2, <2>1, <2>2, <2>3, <2>4, <2>5 DEF Balanced, Consistent
  <1>7. QED
    BY <1>1, <1>2, <1>6 DEF FlowInv, Joined

\* A handler of a strategy that goes on running, after its event is applied.
LEMMA HandlerKeepsBalance ==
  ASSUME NEW s \in Strategies, FlowTypes, NEW x, NEW batches, Handles(s, x, batches),
         NEW orders, NEW trades,
         orderQ'[s] = orders, tradeQ'[s] = trades, UNCHANGED gatewayVars,
         Consistent(x, actionQ[s], orders, trades, outbox, nextTrade, executed)
  PROVE  Balanced(s)'
  <1> DEFINE o == Callbacks(x, batches)
  <1>1. x \in RunnerState /\ o \in Outcomes(x) /\ Write(s, o)
    BY HandlesTyped DEF Handles
  <1>2. actionQ[s] \in Seq(Action) /\ executed \subseteq Executions
    BY DEF FlowTypes, QueueTypes, GatewayTypes
  <1>3. /\ st'[s] = o.state
        /\ actionQ'[s] = IF link[s] = "reading" THEN actionQ[s] \o o.actions ELSE actionQ[s]
    BY <1>1 DEF Write, FlowTypes, StrategyTypes, QueueTypes
  <1> HIDE DEF o
  <1>4. /\ Consistent(o.state, actionQ[s], orders, trades, outbox, nextTrade, executed)
        /\ Consistent(o.state, actionQ[s] \o o.actions, orders, trades, outbox, nextTrade,
                      executed)
    BY <1>1, <1>2, ConsistentAfterCallbacks
  <1>5. outbox' = outbox /\ nextTrade' = nextTrade /\ executed' = executed
    BY DEF gatewayVars
  <1>6. Consistent(st'[s], actionQ'[s], orderQ'[s], tradeQ'[s], outbox', nextTrade', executed')
    <2>1. CASE link[s] = "reading"
      BY <1>3, <1>4, <1>5, <2>1
    <2>2. CASE link[s] # "reading"
      BY <1>3, <1>4, <1>5, <2>2
    <2>3. QED
      BY <2>1, <2>2
  <1>7. QED
    BY <1>6 DEF Balanced

\* on_start and register_queue keep it: nothing is written yet.
LEMMA InvStart ==
  ASSUME NEW s \in Strategies, FlowInv(s), Live(s), NEW batch \in StartBatches, Start(s, batch)
  PROVE  Joined(s)' /\ Balanced(s)'
  <1> DEFINE o == Callbacks(st[s], <<batch>>)
  <1>1. FlowTypes /\ Joined(s) /\ Balanced(s)
    BY DEF FlowInv
  <1>2. /\ st \in [Strategies -> RunnerState] /\ actionQ[s] \in Seq(Action)
        /\ executed \subseteq Executions
             /\ stage \in [Strategies -> {"new", "opening", "joining", "running", "stopped"}]
    BY <1>1 DEF FlowTypes, StrategyTypes, QueueTypes, GatewayTypes
  <1>3. o \in Outcomes(st[s])
    <2>1. st[s] \in RunnerState /\ <<batch>> \in Seq(Seq(Intents))
      BY <1>2, SomeBatch
    <2>2. QED
      BY <2>1, CallbacksKeep
  <1>4. st'[s] = o.state /\ stage[s] = "new" /\ stage'[s] = "opening"
        /\ actionQ' = actionQ /\ orderQ' = orderQ /\ tradeQ' = tradeQ /\ hears' = hears
        /\ outbox' = outbox /\ nextTrade' = nextTrade /\ executed' = executed
    BY <1>2 DEF Start, gatewayVars
  <1> HIDE DEF o
  <1>5. Consistent(o.state, actionQ[s], orderQ[s], tradeQ[s], outbox, nextTrade, executed)
    BY <1>1, <1>2, <1>3, ConsistentAfterCallbacks DEF Balanced
  <1>6. Joined(s)'
    BY <1>1, <1>4 DEF Joined
  <1>7. QED
    BY <1>4, <1>5, <1>6 DEF Balanced

\* connect_trade keeps it: nothing is on its way yet.
LEMMA InvConnect ==
  ASSUME NEW s \in Strategies, FlowInv(s), Live(s), Connect(s)
  PROVE  Joined(s)' /\ Balanced(s)'
  <1>1. FlowTypes /\ Joined(s) /\ Balanced(s) /\ outages = 0
    BY DEF FlowInv, Live
  <1>2. /\ hears \in [Strategies -> SUBSET {"order", "trade"}]
        /\ stage \in [Strategies -> {"new", "opening", "joining", "running", "stopped"}]
    BY <1>1 DEF FlowTypes, StrategyTypes, QueueTypes
  <1>3. CASE OpenOrderEvents(s)
    <2>1. /\ stage[s] = "opening" /\ stage'[s] = "joining" /\ gateway = "running"
          /\ st' = st /\ actionQ' = actionQ /\ orderQ' = orderQ /\ tradeQ' = tradeQ
          /\ outbox' = outbox /\ nextTrade' = nextTrade /\ executed' = executed
      BY <1>1, <1>2, <1>3 DEF OpenOrderEvents, CanOpen, gatewayVars
    <2>2. hears'[s] = hears[s] \cup {"order"}
      BY <1>2, <1>3, <2>1 DEF OpenOrderEvents, Opened
    <2>3. QED
      BY <1>1, <2>1, <2>2 DEF Joined, Balanced
  <1>4. CASE OpenTradeEvents(s)
    <2>1. /\ stage[s] = "joining" /\ stage'[s] = "running" /\ gateway = "running"
          /\ st' = st /\ actionQ' = actionQ /\ orderQ' = orderQ /\ tradeQ' = tradeQ
          /\ outbox' = outbox /\ nextTrade' = nextTrade /\ executed' = executed
      BY <1>1, <1>2, <1>4 DEF OpenTradeEvents, CanOpen, gatewayVars
    <2>2. hears'[s] = hears[s] \cup {"trade"}
      BY <1>2, <1>4, <2>1 DEF OpenTradeEvents, Opened
    <2>3. hears'[s] = {"order", "trade"}
      <3>1. hears[s] \subseteq {"order", "trade"} /\ "order" \in hears[s]
        BY <1>1, <1>2, <2>1 DEF Joined
      <3>2. QED
        BY <2>2, <3>1
    <2>4. QED
      BY <1>1, <2>1, <2>3 DEF Joined, Balanced
  <1>5. QED
    BY <1>3, <1>4 DEF Connect

\* A handler leaves a running strategy running and connected.
LEMMA JoinedKept ==
  ASSUME NEW s, Joined(s), stage[s] = "running", stage' = stage, hears' = hears
  PROVE  Joined(s)'
  BY DEF Joined

\* A poll keeps it.
LEMMA InvPoll ==
  ASSUME NEW s \in Strategies, FlowInv(s), Live(s), Poll(s)
  PROVE  Joined(s)' /\ Balanced(s)'
  <1>1. FlowTypes /\ Joined(s) /\ Balanced(s)
    BY DEF FlowInv
  <1>2. /\ st[s] \in RunnerState
        /\ orderQ \in [Strategies -> Seq(OrderMsg)]
             /\ tradeQ \in [Strategies -> Seq(TradeMsg)]
        /\ outbox \in Seq(Msg) /\ executed \subseteq Executions /\ nextTrade \in Nat
    BY <1>1 DEF FlowTypes, StrategyTypes, QueueTypes, GatewayTypes
  <1>3. Consistent(st[s], actionQ[s], orderQ[s], tradeQ[s], outbox, nextTrade, executed)
    BY <1>1 DEF Balanced
  <1>4. ASSUME NEW ticks \in Ticks, NEW batch \in BookBatches, OnOrderBook(s, batch, ticks)
        PROVE  Joined(s)' /\ Balanced(s)'
    <2>1. Handles(s, st[s], <<batch>> \o ticks)
      BY <1>1, <1>4, BookHandled
    <2>2. /\ stage[s] = "running" /\ stage' = stage /\ hears' = hears
          /\ orderQ' = orderQ /\ tradeQ' = tradeQ /\ UNCHANGED gatewayVars
      BY <1>4 DEF OnOrderBook, Polls
    <2>3. Balanced(s)'
      <3>1. orderQ'[s] = orderQ[s] /\ tradeQ'[s] = tradeQ[s]
        BY <2>2
      <3>2. QED
        BY <1>1, <1>3, <2>1, <2>2, <3>1, HandlerKeepsBalance
    <2>4. QED
      BY <1>1, <2>2, <2>3, JoinedKept
  <1>5. ASSUME NEW ticks \in Ticks, NEW batch \in ReplyBatches, OnOrderEvent(s, batch, ticks)
        PROVE  Joined(s)' /\ Balanced(s)'
    <2> DEFINE e == Head(orderQ[s])
               x == IF IsNewOrderEvent(st[s], e) THEN ApplyOrderEvent(st[s], e) ELSE st[s]
    <2>1. /\ stage[s] = "running" /\ stage' = stage /\ hears' = hears
          /\ orderQ[s] # << >> /\ orderQ'[s] = Tail(orderQ[s]) /\ tradeQ'[s] = tradeQ[s]
          /\ UNCHANGED gatewayVars
      BY <1>2, <1>5 DEF OnOrderEvent, Polls
    <2>2. \E batches : Handles(s, x, batches)
      BY <1>1, <1>5, OrderEventHandled
    <2>3. Consistent(x, actionQ[s], Tail(orderQ[s]), tradeQ[s], outbox, nextTrade, executed)
      BY <1>2, <1>3, <2>1, ConsistentAfterOrderEvent
    <2> HIDE DEF x, e
    <2>4. Balanced(s)'
      BY <1>1, <2>1, <2>2, <2>3, HandlerKeepsBalance
    <2>5. QED
      BY <1>1, <2>1, <2>4, JoinedKept
  <1>6. ASSUME NEW ticks \in Ticks, NEW batch \in ReplyBatches, OnTradeEvent(s, batch, ticks)
        PROVE  Joined(s)' /\ Balanced(s)'
    <2> DEFINE e == Head(tradeQ[s])
               x == ApplyTradeEvent(st[s], e)
    <2>1. /\ stage[s] = "running" /\ stage' = stage /\ hears' = hears
          /\ tradeQ[s] # << >> /\ tradeQ'[s] = Tail(tradeQ[s]) /\ orderQ'[s] = orderQ[s]
          /\ UNCHANGED gatewayVars
      BY <1>2, <1>6 DEF OnTradeEvent, Polls
    <2>2. /\ IsNewTrade(st[s], e)
          /\ Consistent(x, actionQ[s], orderQ[s], Tail(tradeQ[s]), outbox, nextTrade, executed)
      BY <1>2, <1>3, <2>1, ConsistentAfterTradeEvent
    <2>3. \E batches : Handles(s, x, batches)
      BY <1>1, <1>6, <2>2, TradeEventHandled
    <2> HIDE DEF x, e
    <2>4. Balanced(s)'
      BY <1>1, <2>1, <2>2, <2>3, HandlerKeepsBalance
    <2>5. QED
      BY <1>1, <2>1, <2>4, JoinedKept
  <1>7. ASSUME PollEmpty(s) PROVE Joined(s)' /\ Balanced(s)'
    BY <1>1, <1>7 DEF PollEmpty, queueVars, gatewayVars, Joined, Balanced
  <1>8. QED
    BY <1>4, <1>5, <1>6, <1>7 DEF Poll

\* The gateway's steps keep it, with one strategy: all it executes is that one's.
LEMMA InvGateway ==
  ASSUME NEW s \in Strategies, Strategies = {s}, FlowInv(s), Live(s), GatewayStep
  PROVE  Joined(s)' /\ Balanced(s)'
  <1>1. FlowTypes /\ Joined(s) /\ Balanced(s) /\ stage[s] # "stopped"
    BY DEF FlowInv, Live
  <1>2. /\ st[s] \in RunnerState /\ actionQ \in [Strategies -> Seq(Action)]
        /\ hears \in [Strategies -> SUBSET {"order", "trade"}]
        /\ orderQ[s] \in Seq(OrderMsg) /\ tradeQ[s] \in Seq(TradeMsg)
        /\ outbox \in Seq(Msg) /\ nextTrade \in Nat
        /\ executed \subseteq Executions /\ IsFiniteSet(executed)
    BY <1>1 DEF FlowTypes, StrategyTypes, QueueTypes, GatewayTypes
  <1>3. Consistent(st[s], actionQ[s], orderQ[s], tradeQ[s], outbox, nextTrade, executed)
    BY <1>1 DEF Balanced
  <1>4. CASE GatewayRegister \/ GatewayStart
    BY <1>1, <1>4 DEF GatewayRegister, GatewayStart, strategyVars, queueVars, Joined,
       Balanced
  <1>5. CASE AddActionQueue(s)
    BY <1>1, <1>5 DEF AddActionQueue, strategyVars, gatewayVars, Joined, Balanced
  <1>6. CASE OnAction(s)
    <2> DEFINE a == Head(actionQ[s])
    <2>1. /\ outbox = << >> /\ actionQ[s] # << >>
          /\ outbox' = EventsOf(a)
          /\ nextTrade' = IF a.kind = "new" THEN nextTrade + 1 ELSE nextTrade
          /\ executed' = IF a.kind = "new"
                         THEN executed \cup {[strategy |-> s, id |-> a.id, side |-> a.side,
                                              quantity |-> a.quantity]}
                         ELSE executed
          /\ actionQ'[s] = Tail(actionQ[s])
          /\ st' = st /\ stage' = stage /\ hears' = hears /\ orderQ' = orderQ
               /\ tradeQ' = tradeQ
      BY <1>2, <1>6 DEF OnAction, Waiting, strategyVars
    <2>2. Consistent(st[s], Tail(actionQ[s]), orderQ[s], tradeQ[s], EventsOf(a),
            IF a.kind = "new" THEN nextTrade + 1 ELSE nextTrade,
            IF a.kind = "new"
            THEN executed \cup {[strategy |-> s, id |-> a.id, side |-> a.side,
                                 quantity |-> a.quantity]}
            ELSE executed)
      BY <1>2, <1>3, <2>1, ConsistentAfterAction
    <2> HIDE DEF a
    <2>3. Balanced(s)'
      BY <2>1, <2>2 DEF Balanced
    <2>4. Joined(s)'
      BY <1>1, <2>1 DEF Joined
    <2>5. QED
      BY <2>3, <2>4
  <1>7. CASE Publish
    <2> DEFINE e == Head(outbox)
    <2>1. /\ outbox # << >> /\ outbox' = Tail(outbox)
          /\ st' = st /\ stage' = stage /\ hears' = hears /\ actionQ' = actionQ
          /\ nextTrade' = nextTrade /\ executed' = executed
      BY <1>7 DEF Publish, strategyVars
    <2>2. stage[s] = "running" /\ hears[s] = {"order", "trade"}
      BY <1>1, <2>1 DEF Joined
    <2>3. e.queue = "order" \/ e.queue = "trade"
      <3>1. e \in Msg
        BY <1>2, <2>1
      <3>2. QED
        BY <3>1 DEF Msg, OrderMsg, TradeMsg
    <2>4. /\ orderQ'[s] = IF e.queue = "order" THEN Append(orderQ[s], e) ELSE orderQ[s]
          /\ tradeQ'[s] = IF e.queue = "order" THEN tradeQ[s] ELSE Append(tradeQ[s], e)
      BY <1>7, <2>2, <2>3 DEF Publish
    <2>5. Consistent(st[s], actionQ[s],
            IF e.queue = "order" THEN Append(orderQ[s], e) ELSE orderQ[s],
            IF e.queue = "order" THEN tradeQ[s] ELSE Append(tradeQ[s], e),
            Tail(outbox), nextTrade, executed)
      BY <1>2, <1>3, <2>1, ConsistentAfterPublish
    <2> HIDE DEF e
    <2>6. Balanced(s)'
      BY <2>1, <2>4, <2>5 DEF Balanced
    <2>7. Joined(s)'
      BY <1>1, <2>1, <2>2 DEF Joined
    <2>8. QED
      BY <2>6, <2>7
  <1>8. QED
    BY <1>4, <1>5, <1>6, <1>7 DEF GatewayStep

\* Every step keeps the invariant.
LEMMA FlowInvStep ==
  ASSUME NEW s \in Strategies, Strategies = {s}, FlowInv(s), [Next]_vars
  PROVE  FlowInv(s)'
  <1>1. FlowTypes /\ FlowTypes'
    BY FlowTypesStep DEF FlowInv
  <1>2. ASSUME Live(s)' PROVE Joined(s)' /\ Balanced(s)'
    <2>1. CASE UNCHANGED vars
      BY <1>2, <2>1 DEF FlowInv, vars, strategyVars, queueVars, gatewayVars, Live,
         Joined, Balanced
    <2>2. CASE GatewayStep
      <3>1. Live(s)
        BY <1>2, <2>2 DEF Live, GatewayStep, GatewayRegister, GatewayStart, Publish,
           AddActionQueue, OnAction, strategyVars, gatewayVars
      <3>2. QED
        BY <2>2, <3>1, InvGateway
    <2>3. CASE GatewayDown
      <3>1. outages \in Nat /\ outages' = outages + 1
        BY <1>1, <2>3 DEF GatewayDown, FlowTypes, GatewayTypes
      <3>2. QED
        BY <1>2, <3>1 DEF Live
    <2>4. ASSUME NEW batch \in StartBatches, Start(s, batch) PROVE Joined(s)' /\ Balanced(s)'
      <3>1. Live(s)
        BY <1>2, <2>4 DEF Live, Start, gatewayVars
      <3>2. QED
        BY <2>4, <3>1, InvStart
    <2>5. CASE Connect(s)
      <3>1. Live(s)
        BY <1>2, <2>5 DEF Live, Connect, OpenOrderEvents, OpenTradeEvents, gatewayVars
      <3>2. QED
        BY <2>5, <3>1, InvConnect
    <2>6. CASE Poll(s)
      <3>1. Live(s)
        BY <1>2, <2>6 DEF Live, Poll, OnOrderBook, OnOrderEvent, OnTradeEvent, PollEmpty,
           gatewayVars
      <3>2. QED
        BY <2>6, <3>1, InvPoll
    <2>7. ASSUME NEW batch \in TimerBatches, Shutdown(s, batch) PROVE FALSE
      <3>1. stage'[s] = "stopped"
        BY <1>1, <2>7 DEF Shutdown, FlowTypes, StrategyTypes
      <3>2. QED
        BY <1>2, <3>1 DEF Live
    <2>8. QED
      BY <2>1, <2>2, <2>3, <2>4, <2>5, <2>6, <2>7 DEF Next
  <1>3. QED
    BY <1>1, <1>2 DEF FlowInv

\* The invariant implies both properties.
LEMMA FlowInvImplies ==
  ASSUME NEW s \in Strategies, Strategies = {s}, FlowInv(s)
  PROVE  PositionAccounted /\ SettledWhenQuiet
  <1>1. PositionAccounted
    BY DEF FlowInv, Live, Balanced, Consistent, Accounted, PositionAccounted
  <1>2. ASSUME Quiet(s), outages = 0, NEW x \in executed, x.strategy = s
        PROVE  Settled(s, x.id) /\ Exposure(st[s].orders[x.id]) = 0
    <2>1. /\ orderQ[s] = << >> /\ tradeQ[s] = << >> /\ outbox = << >> /\ Live(s)
      BY <1>2 DEF Quiet, Live
    <2>2. Finishing(st[s], OnWay(<< >>, << >>, << >>), executed)
      BY <2>1 DEF FlowInv, Balanced, Consistent
    <2>3. OnWay(<< >>, << >>, << >>) = {}
      BY DEF OnWay, ToSet
    <2>4. Finished(st[s], x.id)
      BY <1>2, <2>2, <2>3 DEF Finishing
    <2>5. QED
      BY <2>4 DEF Finished, Settled, Exposure
  <1>3. QED
    BY <1>1, <1>2 DEF SettledWhenQuiet

\* With a second strategy both properties are wrong: the event queues tell nobody whose
\* order an event is of.
OneStrategy == \E s : Strategies = {s}

\* PositionAccounted: at every moment until the gateway first goes down, the ledger's
\* position and the trades on their way to it make up exactly what the gateway has
\* executed, each trade with its sign - for every window of at least one trade id,
\* whatever the callbacks submit.
THEOREM PositionIsAccounted ==
  ASSUME OneStrategy
  PROVE  Spec => []PositionAccounted
  <1>1. PICK s : Strategies = {s}
    BY DEF OneStrategy
  <1>2. Init => FlowInv(s)
    BY <1>1, FlowInvStart
  <1>3. FlowInv(s) /\ [Next]_vars => FlowInv(s)'
    BY <1>1, FlowInvStep
  <1>4. FlowInv(s) => PositionAccounted
    BY <1>1, FlowInvImplies
  <1>5. QED
    BY <1>2, <1>3, <1>4, PTL DEF Spec

\* SettledWhenQuiet: once nothing is on its way, every order the gateway has executed is
\* finished in the strategy's books and leaves no exposure, whatever was cancelled
\* meanwhile and however the order and trade events overtook each other.
THEOREM QuietMeansSettled ==
  ASSUME OneStrategy
  PROVE  Spec => []SettledWhenQuiet
  <1>1. PICK s : Strategies = {s}
    BY DEF OneStrategy
  <1>2. Init => FlowInv(s)
    BY <1>1, FlowInvStart
  <1>3. FlowInv(s) /\ [Next]_vars => FlowInv(s)'
    BY <1>1, FlowInvStep
  <1>4. FlowInv(s) => SettledWhenQuiet
    BY <1>1, FlowInvImplies
  <1>5. QED
    BY <1>2, <1>3, <1>4, PTL DEF Spec

================================================================================

------------------------- MODULE ListServices_proofs -------------------------
(***************************************************************************)
(* The planner of a run: the plans it makes can run, and the calls it      *)
(* assigns add up; the tools that are offered, which resolve to what runs; *)
(* and the local tools, whose answers agree. Folds over lists are unrolled *)
(* to chains, one step for each element of the list, and an induction over *)
(* the places of a chain is one over a bounded set of numbers.             *)
(***************************************************************************)
EXTENDS ListServices, Integers, Sequences, FiniteSetTheorems, SequenceTheorems,
        WellFoundedInduction, TLAPS

\* A set of numbers that is not empty has a least element.
LEMMA Lowest ==
  ASSUME NEW S, S \subseteq Nat, S # {}
  PROVE  \E x \in S : \A y \in S : x <= y
<1>1. PICK x \in S : \A y \in S : ~ (<<y, x>> \in OpToRel(<, Nat))
  BY NatLessThanWellFounded, WFMin
<1>2. \A y \in S : ~(y < x)
  BY <1>1 DEF OpToRel
<1>3. \A y \in S : x \in Nat /\ y \in Nat
  OBVIOUS
<1> QED
  BY <1>2, <1>3

\* Induction, of a set of numbers.
LEMMA Climbs ==
  ASSUME NEW n \in Nat, NEW P, 0 \in P, \A i \in 1..n : i - 1 \in P => i \in P
  PROVE  \A i \in 0..n : i \in P
<1> DEFINE bad == (0..n) \ P
<1> SUFFICES ASSUME bad # {} PROVE FALSE
  OBVIOUS
<1>1. bad \subseteq Nat
  OBVIOUS
<1>2. PICK k \in bad : \A j \in bad : k <= j
  BY <1>1, Lowest
<1>3. k \in 0..n /\ k \notin P /\ k # 0
  OBVIOUS
<1>4. k - 1 \in 0..n /\ k \in 1..n /\ ~(k <= k - 1)
  BY <1>3
<1>5. k - 1 \in P
  BY <1>2, <1>4
<1> QED
  BY <1>3, <1>4, <1>5

\* The element that Folds picks from a set of places (Max of the library).
Highest(S) == CHOOSE x \in S : \A y \in S : x >= y

\* An element that no other exceeds is the greatest.
LEMMA GreatestIs ==
  ASSUME NEW S, NEW x \in S, S \subseteq Int, \A y \in S : x >= y
  PROVE  Highest(S) = x
<1>1. Highest(S) \in S /\ \A y \in S : Highest(S) >= y
  BY DEF Highest
<1>2. Highest(S) >= x /\ x >= Highest(S)
  BY <1>1
<1>3. Highest(S) \in Int /\ x \in Int
  BY <1>1
<1> QED
  BY <1>2, <1>3

\* Some places among the first n have a greatest.
LEMMA GreatestAmong ==
  ASSUME NEW n \in Nat, NEW S, S \subseteq 1..n, S # {}
  PROVE  Highest(S) \in S
<1> DEFINE back == {n - x : x \in S}
<1>1. back \subseteq Nat /\ back # {}
  <2>1. \A x \in S : n - x \in Nat
    <3> SUFFICES ASSUME NEW x \in S PROVE n - x \in Nat
      OBVIOUS
    <3>1. x \in 1..n
      OBVIOUS
    <3> QED
      BY <3>1
  <2> QED
    BY <2>1
<1>2. PICK b \in back : \A y \in back : b <= y
  BY <1>1, Lowest
<1>3. PICK x \in S : b = n - x
  BY <1>2
<1>4. \A y \in S : x >= y
  <2> SUFFICES ASSUME NEW y \in S PROVE x >= y
    OBVIOUS
  <2>1. b <= n - y
    BY <1>2
  <2>2. x \in 1..n /\ y \in 1..n
    OBVIOUS
  <2> QED
    BY <1>3, <2>1, <2>2
<1>5. \E z \in S : \A y \in S : z >= y
  BY <1>4
<1> QED
  BY <1>5, Zenon DEF Highest

\* A fold from the right end of 1..n, over a set of states T that the steps F
\* do not leave.
Folds(it, n, T, base, F) ==
  /\ it \in [SUBSET (1..n) -> T]
  /\ \A s \in SUBSET (1..n) :
        it[s] = IF s = {} THEN base ELSE F[Highest(s)][it[s \ {Highest(s)}]]

\* The recursive function that a fold is defined by exists.
LEMMA FoldExists ==
  ASSUME NEW n \in Nat, NEW T, NEW base \in T, NEW F \in [1..n -> [T -> T]]
  PROVE  \E it : Folds(it, n, T, base, F)
<1> DEFINE P == {k \in 0..n : \E it : Folds(it, k, T, base, F)}
<1>1. 0 \in P
  <2>1. SUBSET (1..0) = {{}}
    OBVIOUS
  <2>2. Folds([s \in SUBSET (1..0) |-> base], 0, T, base, F)
    BY <2>1 DEF Folds
  <2> QED
    BY <2>2
<1>2. ASSUME NEW k \in 1..n, k - 1 \in P
      PROVE  k \in P
  <2>1. PICK it : Folds(it, k - 1, T, base, F)
    BY <1>2
  <2> DEFINE g == [s \in SUBSET (1..k) |->
                     IF k \in s THEN F[k][it[s \ {k}]] ELSE it[s]]
  <2>2. ASSUME NEW s \in SUBSET (1..k), k \notin s
        PROVE  s \in SUBSET (1..(k - 1))
    <3> SUFFICES ASSUME NEW i \in s PROVE i \in 1..(k - 1)
      OBVIOUS
    <3>1. i \in 1..k /\ i # k
      BY <2>2
    <3> QED
      BY <3>1
  <2>3. ASSUME NEW s \in SUBSET (1..k), k \in s
        PROVE  s \ {k} \in SUBSET (1..(k - 1)) /\ Highest(s) = k
    <3>1. s \ {k} \in SUBSET (1..(k - 1))
      BY <2>2
    <3>2. s \subseteq Int /\ \A y \in s : k >= y
      OBVIOUS
    <3>3. Highest(s) = k
      BY <2>3, <3>2, GreatestIs
    <3> QED
      BY <3>1, <3>3
  <2>4. ASSUME NEW s \in SUBSET (1..k)
        PROVE  g[s] \in T
    <3>1. CASE k \in s
      BY <2>1, <2>3, <3>1 DEF Folds
    <3>2. CASE k \notin s
      BY <2>1, <2>2, <3>2 DEF Folds
    <3> QED
      BY <3>1, <3>2
  <2>5. ASSUME NEW s \in SUBSET (1..k)
        PROVE  g[s] = IF s = {} THEN base ELSE F[Highest(s)][g[s \ {Highest(s)}]]
    <3>1. CASE k \in s
      <4>1. s \ {k} \in SUBSET (1..(k - 1)) /\ Highest(s) = k
        BY <2>3, <3>1
      <4>2. s \ {k} \in SUBSET (1..k) /\ k \notin s \ {k}
        OBVIOUS
      <4>3. g[s \ {k}] = it[s \ {k}]
        BY <4>2
      <4>4. g[s] = F[k][it[s \ {k}]]
        BY <3>1
      <4> QED
        BY <3>1, <4>1, <4>3, <4>4
    <3>2. CASE k \notin s
      <4>1. s \in SUBSET (1..(k - 1))
        BY <2>2, <3>2
      <4>2. g[s] = it[s]
        BY <3>2
      <4>3. s \ {Highest(s)} \in SUBSET (1..k) /\ k \notin s \ {Highest(s)}
        BY <3>2
      <4>4. g[s \ {Highest(s)}] = it[s \ {Highest(s)}]
        BY <4>3
      <4>5. it[s] = IF s = {} THEN base ELSE F[Highest(s)][it[s \ {Highest(s)}]]
        BY <2>1, <4>1 DEF Folds
      <4> HIDE DEF g
      <4> QED
        BY <4>2, <4>4, <4>5
    <3> QED
      BY <3>1, <3>2
  <2>6. g \in [SUBSET (1..k) -> T]
    BY <2>4
  <2>7. Folds(g, k, T, base, F)
    <3> HIDE DEF g
    <3> QED
      BY <2>5, <2>6 DEF Folds
  <2> QED
    BY <2>7
<1>3. n \in P
  <2>1. \A k \in 1..n : k - 1 \in P => k \in P
    BY <1>2
  <2>2. n \in 0..n
    OBVIOUS
  <2> HIDE DEF P
  <2> QED
    BY <1>1, <2>1, <2>2, Climbs
<1> QED
  BY <1>3

\* The states that a fold goes through.
Chain(f, n, T, base, F) ==
  /\ f \in [0..n -> T]
  /\ f[0] = base
  /\ \A i \in 1..n : f[i] = F[i][f[i - 1]]

\* The same of a function of which the states are not known to be in T.
Unfolds(it, n, T, base, F) ==
  /\ it[{}] = base
  /\ \A s \in SUBSET (1..n) :
        s # {} /\ it[s \ {Highest(s)}] \in T
           => it[s] = F[Highest(s)][it[s \ {Highest(s)}]]

\* The states are in T, and each follows from the one before it.
Chained(it, n, T, base, F) == \E f : Chain(f, n, T, base, F) /\ it[1..n] = f[n]

\* A fold over n places is the last state of a chain of n steps.
LEMMA FoldIsChain ==
  ASSUME NEW n \in Nat, NEW T, NEW base \in T, NEW F \in [1..n -> [T -> T]],
         NEW it, Unfolds(it, n, T, base, F)
  PROVE  Chained(it, n, T, base, F)
<1> DEFINE f == [i \in 0..n |-> it[1..i]]
           P == {i \in 0..n : it[1..i] \in T}
<1>0. it[{}] = base
  BY DEF Unfolds
<1>1. 0 \in P
  <2>1. 1..0 = {}
    OBVIOUS
  <2> QED
    BY <1>0, <2>1
<1>2. ASSUME NEW i \in 1..n, it[1..(i - 1)] \in T
      PROVE  it[1..i] = F[i][it[1..(i - 1)]] /\ it[1..i] \in T
  <2>1. 1..i \in SUBSET (1..n) /\ i \in 1..i /\ 1..i \subseteq Int /\ \A y \in 1..i : i >= y
    OBVIOUS
  <2>2. Highest(1..i) = i
    BY <2>1, GreatestIs
  <2>3. (1..i) \ {i} = 1..(i - 1)
    OBVIOUS
  <2>4. 1..i # {} /\ (1..i) \ {Highest(1..i)} = 1..(i - 1)
    BY <2>1, <2>2, <2>3
  <2>5. it[1..i] = F[i][it[1..(i - 1)]]
    BY <1>2, <2>1, <2>2, <2>4 DEF Unfolds
  <2> QED
    BY <1>2, <2>5
<1>3. \A i \in 0..n : i \in P
  <2>1. \A i \in 1..n : i - 1 \in P => i \in P
    BY <1>2
  <2> HIDE DEF P
  <2> QED
    BY <1>1, <2>1, Climbs
<1>4. f \in [0..n -> T]
  BY <1>3
<1>5. f[0] = base
  <2>1. 1..0 = {} /\ 0 \in 0..n
    OBVIOUS
  <2> QED
    BY <1>0, <2>1
<1>6. ASSUME NEW i \in 1..n
      PROVE  f[i] = F[i][f[i - 1]]
  <2>1. i \in 0..n /\ i - 1 \in 0..n
    OBVIOUS
  <2> QED
    BY <1>2, <1>3, <2>1
<1>7. f[n] = it[1..n]
  OBVIOUS
<1> HIDE DEF f
<1> QED
  BY <1>4, <1>5, <1>6, <1>7 DEF Chain, Chained

-----------------------------------------------------------------------------
(***************************************************************************)
(* The folds of the planner: the states each goes through.                 *)
(***************************************************************************)

\* The steps of Dedup.
LEMMA DedupRuns ==
  ASSUME NEW E, NEW list \in Seq(E), 
         \A s \in Seq(E), i \in 1..Len(list) : Planning!AddLast(s, list[i]) \in Seq(E)
  PROVE  \E f \in [0..Len(list) -> Seq(E)] :
           /\ f[0] = <<>>
           /\ \A i \in 1..Len(list) : f[i] = Planning!AddLast(f[i - 1], list[i])
           /\ Planning!Dedup(list) = f[Len(list)]
<1> DEFINE T == Seq(E)
           n == Len(list)
           F == [i \in 1..n |-> [s \in T |-> Planning!AddLast(s, list[i])]]
           Fixes(g) == g = [s \in SUBSET (DOMAIN list) |->
                              IF s = {} THEN <<>>
                              ELSE Planning!AddLast(g[s \ {Highest(s)}], list[Highest(s)])]
           it == CHOOSE g : Fixes(g)
<1>0. <<>> \in T /\ n \in Nat /\ DOMAIN list = 1..n
  OBVIOUS
<1> HIDE DEF T
<1>1. F \in [1..n -> [T -> T]]
  BY DEF T
<1>2. PICK g : Folds(g, n, T, <<>>, F)
  <2> HIDE DEF F
  <2> QED
    BY <1>0, <1>1, FoldExists
<1>3. \A s \in SUBSET (1..n) : s # {} => Highest(s) \in 1..n
  BY <1>0, GreatestAmong
<1>4. Fixes(g)
  BY <1>0, <1>2, <1>3 DEF Folds
<1>5. Fixes(it)
  <2> HIDE DEF Fixes
  <2> QED
    BY <1>4, Zenon
<1>6. Planning!Dedup(list) = it[DOMAIN list]
  BY Zenon DEF Planning!Dedup, Planning!FoldLeft, Planning!MapThenFoldSet, Planning!Max, Highest
<1> HIDE DEF it
<1>7. PICK f : Chain(f, n, T, <<>>, F) /\ it[1..n] = f[n]
  <2>1. it[{}] = <<>>
    BY <1>5
  <2>2. ASSUME NEW s \in SUBSET (1..n), s # {}, it[s \ {Highest(s)}] \in T
        PROVE  it[s] = F[Highest(s)][it[s \ {Highest(s)}]]
    BY <1>0, <1>3, <1>5, <2>2
  <2>3. \A s \in SUBSET (1..n) : s # {} /\ it[s \ {Highest(s)}] \in T
           => it[s] = F[Highest(s)][it[s \ {Highest(s)}]]
    BY <2>2
  <2>4. Unfolds(it, n, T, <<>>, F)
    <3> HIDE DEF F, Fixes, it
    <3> QED
      BY <2>1, <2>3 DEF Unfolds
  <2> HIDE DEF F, Fixes, n
  <2>5. Chained(it, n, T, <<>>, F)
    BY <1>0, <1>1, <2>4, FoldIsChain
  <2> QED
    BY <2>5 DEF Chained
<1>8. \A i \in 1..n : f[i] = Planning!AddLast(f[i - 1], list[i])
  <2> SUFFICES ASSUME NEW i \in 1..n PROVE f[i] = Planning!AddLast(f[i - 1], list[i])
    OBVIOUS
  <2>1. i - 1 \in 0..n
    OBVIOUS
  <2>2. f[i - 1] \in T /\ f[i] = F[i][f[i - 1]]
    <3> HIDE DEF F
    <3> QED
      BY <1>7, <2>1 DEF Chain
  <2> QED
    BY <2>2
<1> QED
  BY <1>0, <1>6, <1>7, <1>8 DEF Chain, T

\* The steps of Only.
LEMMA OnlyRuns ==
  ASSUME NEW E, NEW list \in Seq(E), NEW wanted,
         \A s \in Seq(E), i \in 1..Len(list) : Planning!AddWanted(s, list[i], wanted) \in Seq(E)
  PROVE  \E f \in [0..Len(list) -> Seq(E)] :
           /\ f[0] = <<>>
           /\ \A i \in 1..Len(list) : f[i] = Planning!AddWanted(f[i - 1], list[i], wanted)
           /\ Planning!Only(list, wanted) = f[Len(list)]
<1> DEFINE T == Seq(E)
           n == Len(list)
           F == [i \in 1..n |-> [s \in T |-> Planning!AddWanted(s, list[i], wanted)]]
           Fixes(g) == g = [s \in SUBSET (DOMAIN list) |->
                              IF s = {} THEN <<>>
                              ELSE Planning!AddWanted(g[s \ {Highest(s)}], list[Highest(s)],
                                  wanted)]
           it == CHOOSE g : Fixes(g)
<1>0. <<>> \in T /\ n \in Nat /\ DOMAIN list = 1..n
  OBVIOUS
<1> HIDE DEF T
<1>1. F \in [1..n -> [T -> T]]
  BY DEF T
<1>2. PICK g : Folds(g, n, T, <<>>, F)
  <2> HIDE DEF F
  <2> QED
    BY <1>0, <1>1, FoldExists
<1>3. \A s \in SUBSET (1..n) : s # {} => Highest(s) \in 1..n
  BY <1>0, GreatestAmong
<1>4. Fixes(g)
  BY <1>0, <1>2, <1>3 DEF Folds
<1>5. Fixes(it)
  <2> HIDE DEF Fixes
  <2> QED
    BY <1>4, Zenon
<1>6. Planning!Only(list, wanted) = it[DOMAIN list]
  BY Zenon DEF Planning!Only, Planning!FoldLeft, Planning!MapThenFoldSet, Planning!Max, Highest
<1> HIDE DEF it
<1>7. PICK f : Chain(f, n, T, <<>>, F) /\ it[1..n] = f[n]
  <2>1. it[{}] = <<>>
    BY <1>5
  <2>2. ASSUME NEW s \in SUBSET (1..n), s # {}, it[s \ {Highest(s)}] \in T
        PROVE  it[s] = F[Highest(s)][it[s \ {Highest(s)}]]
    BY <1>0, <1>3, <1>5, <2>2
  <2>3. \A s \in SUBSET (1..n) : s # {} /\ it[s \ {Highest(s)}] \in T
           => it[s] = F[Highest(s)][it[s \ {Highest(s)}]]
    BY <2>2
  <2>4. Unfolds(it, n, T, <<>>, F)
    <3> HIDE DEF F, Fixes, it
    <3> QED
      BY <2>1, <2>3 DEF Unfolds
  <2> HIDE DEF F, Fixes, n
  <2>5. Chained(it, n, T, <<>>, F)
    BY <1>0, <1>1, <2>4, FoldIsChain
  <2> QED
    BY <2>5 DEF Chained
<1>8. \A i \in 1..n : f[i] = Planning!AddWanted(f[i - 1], list[i], wanted)
  <2> SUFFICES ASSUME NEW i \in 1..n PROVE f[i] = Planning!AddWanted(f[i - 1], list[i], wanted)
    OBVIOUS
  <2>1. i - 1 \in 0..n
    OBVIOUS
  <2>2. f[i - 1] \in T /\ f[i] = F[i][f[i - 1]]
    <3> HIDE DEF F
    <3> QED
      BY <1>7, <2>1 DEF Chain
  <2> QED
    BY <2>2
<1> QED
  BY <1>0, <1>6, <1>7, <1>8 DEF Chain, T

\* The steps of backward_chain over the goals.
LEMMA ChasedRuns ==
  ASSUME NEW E, NEW list \in Seq(E), NEW known,
         \A s \in Seq(Planning!Agents), i \in 1..Len(list) :
             Planning!Chase(s, list[i], known) \in Seq(Planning!Agents)
  PROVE  \E f \in [0..Len(list) -> Seq(Planning!Agents)] :
           /\ f[0] = <<>>
           /\ \A i \in 1..Len(list) : f[i] = Planning!Chase(f[i - 1], list[i], known)
           /\ Planning!Chased(list, known) = f[Len(list)]
<1> DEFINE T == Seq(Planning!Agents)
           n == Len(list)
           F == [i \in 1..n |-> [s \in T |-> Planning!Chase(s, list[i], known)]]
           Fixes(g) == g = [s \in SUBSET (DOMAIN list) |->
                              IF s = {} THEN <<>>
                              ELSE Planning!Chase(g[s \ {Highest(s)}], list[Highest(s)], known)]
           it == CHOOSE g : Fixes(g)
<1>0. <<>> \in T /\ n \in Nat /\ DOMAIN list = 1..n
  OBVIOUS
<1> HIDE DEF T
<1>1. F \in [1..n -> [T -> T]]
  BY DEF T
<1>2. PICK g : Folds(g, n, T, <<>>, F)
  <2> HIDE DEF F
  <2> QED
    BY <1>0, <1>1, FoldExists
<1>3. \A s \in SUBSET (1..n) : s # {} => Highest(s) \in 1..n
  BY <1>0, GreatestAmong
<1>4. Fixes(g)
  BY <1>0, <1>2, <1>3 DEF Folds
<1>5. Fixes(it)
  <2> HIDE DEF Fixes
  <2> QED
    BY <1>4, Zenon
<1>6. Planning!Chased(list, known) = it[DOMAIN list]
  BY Zenon DEF Planning!Chased, Planning!FoldLeft, Planning!MapThenFoldSet, Planning!Max, Highest
<1> HIDE DEF it
<1>7. PICK f : Chain(f, n, T, <<>>, F) /\ it[1..n] = f[n]
  <2>1. it[{}] = <<>>
    BY <1>5
  <2>2. ASSUME NEW s \in SUBSET (1..n), s # {}, it[s \ {Highest(s)}] \in T
        PROVE  it[s] = F[Highest(s)][it[s \ {Highest(s)}]]
    BY <1>0, <1>3, <1>5, <2>2
  <2>3. \A s \in SUBSET (1..n) : s # {} /\ it[s \ {Highest(s)}] \in T
           => it[s] = F[Highest(s)][it[s \ {Highest(s)}]]
    BY <2>2
  <2>4. Unfolds(it, n, T, <<>>, F)
    <3> HIDE DEF F, Fixes, it
    <3> QED
      BY <2>1, <2>3 DEF Unfolds
  <2> HIDE DEF F, Fixes, n
  <2>5. Chained(it, n, T, <<>>, F)
    BY <1>0, <1>1, <2>4, FoldIsChain
  <2> QED
    BY <2>5 DEF Chained
<1>8. \A i \in 1..n : f[i] = Planning!Chase(f[i - 1], list[i], known)
  <2> SUFFICES ASSUME NEW i \in 1..n PROVE f[i] = Planning!Chase(f[i - 1], list[i], known)
    OBVIOUS
  <2>1. i - 1 \in 0..n
    OBVIOUS
  <2>2. f[i - 1] \in T /\ f[i] = F[i][f[i - 1]]
    <3> HIDE DEF F
    <3> QED
      BY <1>7, <2>1 DEF Chain
  <2> QED
    BY <2>2
<1> QED
  BY <1>0, <1>6, <1>7, <1>8 DEF Chain, T

\* The steps of the topological pass.
LEMMA PlacedRuns ==
  ASSUME NEW list \in Seq(Planning!Agents), NEW policy,
         \A s \in Seq(Planning!Agents), i \in 1..Len(list) :
             Planning!Place(s, list, policy) \in Seq(Planning!Agents)
  PROVE  \E f \in [0..Len(list) -> Seq(Planning!Agents)] :
           /\ f[0] = <<>>
           /\ \A i \in 1..Len(list) : f[i] = Planning!Place(f[i - 1], list, policy)
           /\ Planning!Placed(list, policy) = f[Len(list)]
<1> DEFINE T == Seq(Planning!Agents)
           n == Len(list)
           F == [i \in 1..n |-> [s \in T |-> Planning!Place(s, list, policy)]]
           Fixes(g) == g = [s \in SUBSET (DOMAIN list) |->
                              IF s = {} THEN <<>>
                              ELSE Planning!Place(g[s \ {Highest(s)}], list, policy)]
           it == CHOOSE g : Fixes(g)
<1>0. <<>> \in T /\ n \in Nat /\ DOMAIN list = 1..n
  OBVIOUS
<1> HIDE DEF T
<1>1. F \in [1..n -> [T -> T]]
  BY DEF T
<1>2. PICK g : Folds(g, n, T, <<>>, F)
  <2> HIDE DEF F
  <2> QED
    BY <1>0, <1>1, FoldExists
<1>3. \A s \in SUBSET (1..n) : s # {} => Highest(s) \in 1..n
  BY <1>0, GreatestAmong
<1>4. Fixes(g)
  BY <1>0, <1>2, <1>3 DEF Folds
<1>5. Fixes(it)
  <2> HIDE DEF Fixes
  <2> QED
    BY <1>4, Zenon
<1>6. Planning!Placed(list, policy) = it[DOMAIN list]
  BY Zenon DEF Planning!Placed, Planning!FoldLeft, Planning!MapThenFoldSet, Planning!Max, Highest
<1> HIDE DEF it
<1>7. PICK f : Chain(f, n, T, <<>>, F) /\ it[1..n] = f[n]
  <2>1. it[{}] = <<>>
    BY <1>5
  <2>2. ASSUME NEW s \in SUBSET (1..n), s # {}, it[s \ {Highest(s)}] \in T
        PROVE  it[s] = F[Highest(s)][it[s \ {Highest(s)}]]
    BY <1>0, <1>3, <1>5, <2>2
  <2>3. \A s \in SUBSET (1..n) : s # {} /\ it[s \ {Highest(s)}] \in T
           => it[s] = F[Highest(s)][it[s \ {Highest(s)}]]
    BY <2>2
  <2>4. Unfolds(it, n, T, <<>>, F)
    <3> HIDE DEF F, Fixes, it
    <3> QED
      BY <2>1, <2>3 DEF Unfolds
  <2> HIDE DEF F, Fixes, n
  <2>5. Chained(it, n, T, <<>>, F)
    BY <1>0, <1>1, <2>4, FoldIsChain
  <2> QED
    BY <2>5 DEF Chained
<1>8. \A i \in 1..n : f[i] = Planning!Place(f[i - 1], list, policy)
  <2> SUFFICES ASSUME NEW i \in 1..n PROVE f[i] = Planning!Place(f[i - 1], list, policy)
    OBVIOUS
  <2>1. i - 1 \in 0..n
    OBVIOUS
  <2>2. f[i - 1] \in T /\ f[i] = F[i][f[i - 1]]
    <3> HIDE DEF F
    <3> QED
      BY <1>7, <2>1 DEF Chain
  <2> QED
    BY <2>2
<1> QED
  BY <1>0, <1>6, <1>7, <1>8 DEF Chain, T

\* The repair of a plan that lacks producers.
LEMMA RepairedRuns ==
  ASSUME NEW E, NEW list \in Seq(E), NEW ordered \in Seq(Planning!Agents) \ {<<>>},
         \A s \in (Seq(Planning!Agents) \ {<<>>}), i \in 1..Len(list) :
             Planning!BeforeLast(s, CHOOSE a \in Planning!Producers(list[i]) : TRUE)
             \in (Seq(Planning!Agents) \ {<<>>})
  PROVE  \E f \in [0..Len(list) -> (Seq(Planning!Agents) \ {<<>>})] :
           /\ f[0] = ordered
           /\ \A i \in 1..Len(list) : f[i] =
                  Planning!BeforeLast(f[i - 1], CHOOSE a \in Planning!Producers(list[i]) : TRUE)
           /\ Planning!Repaired(ordered, list) = f[Len(list)]
<1> DEFINE T == (Seq(Planning!Agents) \ {<<>>})
           n == Len(list)
           F == [i \in 1..n |-> [s \in T |-> Planning!BeforeLast(s,
               CHOOSE a \in Planning!Producers(list[i]) : TRUE)]]
           Fixes(g) == g = [s \in SUBSET (DOMAIN list) |->
                              IF s = {} THEN ordered
                              ELSE Planning!BeforeLast(g[s \ {Highest(s)}],
                                  CHOOSE a \in Planning!Producers(list[Highest(s)]) : TRUE)]
           it == CHOOSE g : Fixes(g)
<1>0. ordered \in T /\ n \in Nat /\ DOMAIN list = 1..n
  OBVIOUS
<1> HIDE DEF T
<1>1. F \in [1..n -> [T -> T]]
  BY DEF T
<1>2. PICK g : Folds(g, n, T, ordered, F)
  <2> HIDE DEF F
  <2> QED
    BY <1>0, <1>1, FoldExists
<1>3. \A s \in SUBSET (1..n) : s # {} => Highest(s) \in 1..n
  BY <1>0, GreatestAmong
<1>4. Fixes(g)
  BY <1>0, <1>2, <1>3 DEF Folds
<1>5. Fixes(it)
  <2> HIDE DEF Fixes
  <2> QED
    BY <1>4, Zenon
<1>6. Planning!Repaired(ordered, list) = it[DOMAIN list]
  BY Zenon DEF Planning!Repaired, Planning!FoldLeft, Planning!MapThenFoldSet, Planning!Max, Highest
<1> HIDE DEF it
<1>7. PICK f : Chain(f, n, T, ordered, F) /\ it[1..n] = f[n]
  <2>1. it[{}] = ordered
    BY <1>5
  <2>2. ASSUME NEW s \in SUBSET (1..n), s # {}, it[s \ {Highest(s)}] \in T
        PROVE  it[s] = F[Highest(s)][it[s \ {Highest(s)}]]
    BY <1>0, <1>3, <1>5, <2>2
  <2>3. \A s \in SUBSET (1..n) : s # {} /\ it[s \ {Highest(s)}] \in T
           => it[s] = F[Highest(s)][it[s \ {Highest(s)}]]
    BY <2>2
  <2>4. Unfolds(it, n, T, ordered, F)
    <3> HIDE DEF F, Fixes, it
    <3> QED
      BY <2>1, <2>3 DEF Unfolds
  <2> HIDE DEF F, Fixes, n
  <2>5. Chained(it, n, T, ordered, F)
    BY <1>0, <1>1, <2>4, FoldIsChain
  <2> QED
    BY <2>5 DEF Chained
<1>8. \A i \in 1..n : f[i] = Planning!BeforeLast(f[i - 1],
          CHOOSE a \in Planning!Producers(list[i]) : TRUE)
  <2> SUFFICES ASSUME NEW i \in 1..n PROVE f[i] =
                          Planning!BeforeLast(f[i - 1], CHOOSE a \in Planning!Producers(list[i]) :
                          TRUE)
    OBVIOUS
  <2>1. i - 1 \in 0..n
    OBVIOUS
  <2>2. f[i - 1] \in T /\ f[i] = F[i][f[i - 1]]
    <3> HIDE DEF F
    <3> QED
      BY <1>7, <2>1 DEF Chain
  <2> QED
    BY <2>2
<1> QED
  BY <1>0, <1>6, <1>7, <1>8 DEF Chain, T

\* The groups.
LEMMA GroupsRun ==
  ASSUME NEW list \in Seq(Planning!Agents), NEW policy,
         \A s \in Seq(Seq(Planning!Agents) \ {<<>>}), i \in 1..Len(list) :
             Planning!Grouped(s, list[i], policy) \in Seq(Seq(Planning!Agents) \ {<<>>})
  PROVE  \E f \in [0..Len(list) -> Seq(Seq(Planning!Agents) \ {<<>>})] :
           /\ f[0] = <<>>
           /\ \A i \in 1..Len(list) : f[i] = Planning!Grouped(f[i - 1], list[i], policy)
           /\ Planning!_parallel_groups(list, policy) = f[Len(list)]
<1> DEFINE T == Seq(Seq(Planning!Agents) \ {<<>>})
           n == Len(list)
           F == [i \in 1..n |-> [s \in T |-> Planning!Grouped(s, list[i], policy)]]
           Fixes(g) == g = [s \in SUBSET (DOMAIN list) |->
                              IF s = {} THEN <<>>
                              ELSE Planning!Grouped(g[s \ {Highest(s)}], list[Highest(s)], policy)]
           it == CHOOSE g : Fixes(g)
<1>0. <<>> \in T /\ n \in Nat /\ DOMAIN list = 1..n
  OBVIOUS
<1> HIDE DEF T
<1>1. F \in [1..n -> [T -> T]]
  BY DEF T
<1>2. PICK g : Folds(g, n, T, <<>>, F)
  <2> HIDE DEF F
  <2> QED
    BY <1>0, <1>1, FoldExists
<1>3. \A s \in SUBSET (1..n) : s # {} => Highest(s) \in 1..n
  BY <1>0, GreatestAmong
<1>4. Fixes(g)
  BY <1>0, <1>2, <1>3 DEF Folds
<1>5. Fixes(it)
  <2> HIDE DEF Fixes
  <2> QED
    BY <1>4, Zenon
<1>6. Planning!_parallel_groups(list, policy) = it[DOMAIN list]
  BY Zenon DEF Planning!_parallel_groups, Planning!FoldLeft, Planning!MapThenFoldSet,
         Planning!Max, Highest
<1> HIDE DEF it
<1>7. PICK f : Chain(f, n, T, <<>>, F) /\ it[1..n] = f[n]
  <2>1. it[{}] = <<>>
    BY <1>5
  <2>2. ASSUME NEW s \in SUBSET (1..n), s # {}, it[s \ {Highest(s)}] \in T
        PROVE  it[s] = F[Highest(s)][it[s \ {Highest(s)}]]
    BY <1>0, <1>3, <1>5, <2>2
  <2>3. \A s \in SUBSET (1..n) : s # {} /\ it[s \ {Highest(s)}] \in T
           => it[s] = F[Highest(s)][it[s \ {Highest(s)}]]
    BY <2>2
  <2>4. Unfolds(it, n, T, <<>>, F)
    <3> HIDE DEF F, Fixes, it
    <3> QED
      BY <2>1, <2>3 DEF Unfolds
  <2> HIDE DEF F, Fixes, n
  <2>5. Chained(it, n, T, <<>>, F)
    BY <1>0, <1>1, <2>4, FoldIsChain
  <2> QED
    BY <2>5 DEF Chained
<1>8. \A i \in 1..n : f[i] = Planning!Grouped(f[i - 1], list[i], policy)
  <2> SUFFICES ASSUME NEW i \in 1..n PROVE f[i] = Planning!Grouped(f[i - 1], list[i], policy)
    OBVIOUS
  <2>1. i - 1 \in 0..n
    OBVIOUS
  <2>2. f[i - 1] \in T /\ f[i] = F[i][f[i - 1]]
    <3> HIDE DEF F
    <3> QED
      BY <1>7, <2>1 DEF Chain
  <2> QED
    BY <2>2
<1> QED
  BY <1>0, <1>6, <1>7, <1>8 DEF Chain, T

\* The protection of a plan.
LEMMA ProtectRuns ==
  ASSUME NEW E, NEW list \in Seq(E), NEW refined \in Seq(Planning!Agents),
             NEW base \in Seq(Planning!Agents), Planning!Dedup(refined) \in Seq(Planning!Agents),
         \A s \in Seq(Planning!Agents), i \in 1..Len(list) :
             Planning!Protect(s, list[i], base) \in Seq(Planning!Agents)
  PROVE  \E f \in [0..Len(list) -> Seq(Planning!Agents)] :
           /\ f[0] = Planning!Dedup(refined)
           /\ \A i \in 1..Len(list) : f[i] = Planning!Protect(f[i - 1], list[i], base)
           /\ Planning!_protect_required_producers(refined, base, list) = f[Len(list)]
<1> DEFINE T == Seq(Planning!Agents)
           n == Len(list)
           F == [i \in 1..n |-> [s \in T |-> Planning!Protect(s, list[i], base)]]
           Fixes(g) == g = [s \in SUBSET (DOMAIN list) |->
                              IF s = {} THEN Planning!Dedup(refined)
                              ELSE Planning!Protect(g[s \ {Highest(s)}], list[Highest(s)], base)]
           it == CHOOSE g : Fixes(g)
<1>0. Planning!Dedup(refined) \in T /\ n \in Nat /\ DOMAIN list = 1..n
  OBVIOUS
<1> HIDE DEF T
<1>1. F \in [1..n -> [T -> T]]
  BY DEF T
<1>2. PICK g : Folds(g, n, T, Planning!Dedup(refined), F)
  <2> HIDE DEF F
  <2> QED
    BY <1>0, <1>1, FoldExists
<1>3. \A s \in SUBSET (1..n) : s # {} => Highest(s) \in 1..n
  BY <1>0, GreatestAmong
<1>4. Fixes(g)
  BY <1>0, <1>2, <1>3 DEF Folds
<1>5. Fixes(it)
  <2> HIDE DEF Fixes
  <2> QED
    BY <1>4, Zenon
<1>6. Planning!_protect_required_producers(refined, base, list) = it[DOMAIN list]
  BY Zenon DEF Planning!_protect_required_producers, Planning!FoldLeft, Planning!MapThenFoldSet,
         Planning!Max, Highest
<1> HIDE DEF it
<1>7. PICK f : Chain(f, n, T, Planning!Dedup(refined), F) /\ it[1..n] = f[n]
  <2>1. it[{}] = Planning!Dedup(refined)
    BY <1>5
  <2>2. ASSUME NEW s \in SUBSET (1..n), s # {}, it[s \ {Highest(s)}] \in T
        PROVE  it[s] = F[Highest(s)][it[s \ {Highest(s)}]]
    BY <1>0, <1>3, <1>5, <2>2
  <2>3. \A s \in SUBSET (1..n) : s # {} /\ it[s \ {Highest(s)}] \in T
           => it[s] = F[Highest(s)][it[s \ {Highest(s)}]]
    BY <2>2
  <2>4. Unfolds(it, n, T, Planning!Dedup(refined), F)
    <3> HIDE DEF F, Fixes, it
    <3> QED
      BY <2>1, <2>3 DEF Unfolds
  <2> HIDE DEF F, Fixes, n
  <2>5. Chained(it, n, T, Planning!Dedup(refined), F)
    BY <1>0, <1>1, <2>4, FoldIsChain
  <2> QED
    BY <2>5 DEF Chained
<1>8. \A i \in 1..n : f[i] = Planning!Protect(f[i - 1], list[i], base)
  <2> SUFFICES ASSUME NEW i \in 1..n PROVE f[i] = Planning!Protect(f[i - 1], list[i], base)
    OBVIOUS
  <2>1. i - 1 \in 0..n
    OBVIOUS
  <2>2. f[i - 1] \in T /\ f[i] = F[i][f[i - 1]]
    <3> HIDE DEF F
    <3> QED
      BY <1>7, <2>1 DEF Chain
  <2> QED
    BY <2>2
<1> QED
  BY <1>0, <1>6, <1>7, <1>8 DEF Chain, T

\* The divisions a round of grants goes through.
RoundOf(start, top, list, k, S) ==
  \E f \in [0..Len(list) -> [S -> Nat]] :
     /\ f[0] = start
     /\ \A i \in 1..Len(list) : f[i] = Planning!GrantAt(f[i - 1], top, list[i], k)
     /\ Planning!GrantEach(start, top, list, k) = f[Len(list)]

\* A round of grants.
LEMMA GrantsRun ==
  ASSUME NEW list \in Seq(Planning!Agents), NEW S, NEW start \in [S -> Nat], NEW top, NEW k,
         \A s \in [S -> Nat], i \in 1..Len(list) :
             Planning!GrantAt(s, top, list[i], k) \in [S -> Nat]
  PROVE  RoundOf(start, top, list, k, S)
<1> DEFINE T == [S -> Nat]
           n == Len(list)
           F == [i \in 1..n |-> [s \in T |-> Planning!GrantAt(s, top, list[i], k)]]
           Fixes(g) == g = [s \in SUBSET (DOMAIN list) |->
                              IF s = {} THEN start
                              ELSE Planning!GrantAt(g[s \ {Highest(s)}], top, list[Highest(s)], k)]
           it == CHOOSE g : Fixes(g)
<1>0. start \in T /\ n \in Nat /\ DOMAIN list = 1..n
  OBVIOUS
<1> HIDE DEF T
<1>1. F \in [1..n -> [T -> T]]
  BY DEF T
<1>2. PICK g : Folds(g, n, T, start, F)
  <2> HIDE DEF F
  <2> QED
    BY <1>0, <1>1, FoldExists
<1>3. \A s \in SUBSET (1..n) : s # {} => Highest(s) \in 1..n
  BY <1>0, GreatestAmong
<1>4. Fixes(g)
  BY <1>0, <1>2, <1>3 DEF Folds
<1>5. Fixes(it)
  <2> HIDE DEF Fixes
  <2> QED
    BY <1>4, Zenon
<1>6. Planning!GrantEach(start, top, list, k) = it[DOMAIN list]
  BY Zenon DEF Planning!GrantEach, Planning!FoldLeft, Planning!MapThenFoldSet, Planning!Max, Highest
<1> HIDE DEF it
<1>7. PICK f : Chain(f, n, T, start, F) /\ it[1..n] = f[n]
  <2>1. it[{}] = start
    BY <1>5
  <2>2. ASSUME NEW s \in SUBSET (1..n), s # {}, it[s \ {Highest(s)}] \in T
        PROVE  it[s] = F[Highest(s)][it[s \ {Highest(s)}]]
    BY <1>0, <1>3, <1>5, <2>2
  <2>3. \A s \in SUBSET (1..n) : s # {} /\ it[s \ {Highest(s)}] \in T
           => it[s] = F[Highest(s)][it[s \ {Highest(s)}]]
    BY <2>2
  <2>4. Unfolds(it, n, T, start, F)
    <3> HIDE DEF F, Fixes, it
    <3> QED
      BY <2>1, <2>3 DEF Unfolds
  <2> HIDE DEF F, Fixes, n
  <2>5. Chained(it, n, T, start, F)
    BY <1>0, <1>1, <2>4, FoldIsChain
  <2> QED
    BY <2>5 DEF Chained
<1>8. \A i \in 1..n : f[i] = Planning!GrantAt(f[i - 1], top, list[i], k)
  <2> SUFFICES ASSUME NEW i \in 1..n PROVE f[i] = Planning!GrantAt(f[i - 1], top, list[i], k)
    OBVIOUS
  <2>1. i - 1 \in 0..n
    OBVIOUS
  <2>2. f[i - 1] \in T /\ f[i] = F[i][f[i - 1]]
    <3> HIDE DEF F
    <3> QED
      BY <1>7, <2>1 DEF Chain
  <2> QED
    BY <2>2
<1> QED
  BY <1>0, <1>6, <1>7, <1>8 DEF Chain, T, RoundOf

\* The spread of an invalidation.
Spreads(names, list, V) ==
  \E f \in [0..Len(list) -> V] :
     /\ f[0] = names
     /\ \A i \in 1..Len(list) : f[i] = Planning!Spread(f[i - 1])
     /\ Planning!Expanded(names, list) = f[Len(list)]

\* The spreading of what is invalidated.
LEMMA SpreadRuns ==
  ASSUME NEW list \in Seq(Nat), NEW V, NEW names \in V,
         \A s \in V, i \in 1..Len(list) : Planning!Spread(s) \in V
  PROVE  Spreads(names, list, V)
<1> DEFINE T == V
           n == Len(list)
           F == [i \in 1..n |-> [s \in T |-> Planning!Spread(s)]]
           Fixes(g) == g = [s \in SUBSET (DOMAIN list) |->
                              IF s = {} THEN names
                              ELSE Planning!Spread(g[s \ {Highest(s)}])]
           it == CHOOSE g : Fixes(g)
<1>0. names \in T /\ n \in Nat /\ DOMAIN list = 1..n
  OBVIOUS
<1> HIDE DEF T
<1>1. F \in [1..n -> [T -> T]]
  BY DEF T
<1>2. PICK g : Folds(g, n, T, names, F)
  <2> HIDE DEF F
  <2> QED
    BY <1>0, <1>1, FoldExists
<1>3. \A s \in SUBSET (1..n) : s # {} => Highest(s) \in 1..n
  BY <1>0, GreatestAmong
<1>4. Fixes(g)
  BY <1>0, <1>2, <1>3 DEF Folds
<1>5. Fixes(it)
  <2> HIDE DEF Fixes
  <2> QED
    BY <1>4, Zenon
<1>6. Planning!Expanded(names, list) = it[DOMAIN list]
  BY Zenon DEF Planning!Expanded, Planning!FoldLeft, Planning!MapThenFoldSet, Planning!Max, Highest
<1> HIDE DEF it
<1>7. PICK f : Chain(f, n, T, names, F) /\ it[1..n] = f[n]
  <2>1. it[{}] = names
    BY <1>5
  <2>2. ASSUME NEW s \in SUBSET (1..n), s # {}, it[s \ {Highest(s)}] \in T
        PROVE  it[s] = F[Highest(s)][it[s \ {Highest(s)}]]
    BY <1>0, <1>3, <1>5, <2>2
  <2>3. \A s \in SUBSET (1..n) : s # {} /\ it[s \ {Highest(s)}] \in T
           => it[s] = F[Highest(s)][it[s \ {Highest(s)}]]
    BY <2>2
  <2>4. Unfolds(it, n, T, names, F)
    <3> HIDE DEF F, Fixes, it
    <3> QED
      BY <2>1, <2>3 DEF Unfolds
  <2> HIDE DEF F, Fixes, n
  <2>5. Chained(it, n, T, names, F)
    BY <1>0, <1>1, <2>4, FoldIsChain
  <2> QED
    BY <2>5 DEF Chained
<1>8. \A i \in 1..n : f[i] = Planning!Spread(f[i - 1])
  <2> SUFFICES ASSUME NEW i \in 1..n PROVE f[i] = Planning!Spread(f[i - 1])
    OBVIOUS
  <2>1. i - 1 \in 0..n
    OBVIOUS
  <2>2. f[i - 1] \in T /\ f[i] = F[i][f[i - 1]]
    <3> HIDE DEF F
    <3> QED
      BY <1>7, <2>1 DEF Chain
  <2> QED
    BY <2>2
<1> QED
  BY <1>0, <1>6, <1>7, <1>8 DEF Chain, T, Spreads

-----------------------------------------------------------------------------
(***************************************************************************)
(* What the helpers on lists make.                                         *)
(***************************************************************************)
LEMMA Appending ==
  ASSUME NEW E, NEW s \in Seq(E), NEW e \in E
  PROVE  /\ Append(s, e) \in Seq(E) /\ Len(Append(s, e)) = Len(s) + 1
         /\ Planning!ToSet(Append(s, e)) = Planning!ToSet(s) \union {e}
<1>1. /\ Append(s, e) \in Seq(E) /\ Len(Append(s, e)) = Len(s) + 1
      /\ \A i \in 1..Len(s) : Append(s, e)[i] = s[i]
      /\ Append(s, e)[Len(s) + 1] = e
      /\ DOMAIN s = 1..Len(s) /\ DOMAIN Append(s, e) = 1..(Len(s) + 1) /\ Len(s) \in Nat
  OBVIOUS
<1>2. ASSUME NEW x \in Planning!ToSet(Append(s, e))
      PROVE  x \in Planning!ToSet(s) \union {e}
  <2>1. PICK i \in 1..(Len(s) + 1) : x = Append(s, e)[i]
    BY <1>1 DEF Planning!ToSet
  <2>2. i \in 1..Len(s) \/ i = Len(s) + 1
    BY <1>1
  <2> QED
    BY <1>1, <2>1, <2>2 DEF Planning!ToSet
<1>3. ASSUME NEW x \in Planning!ToSet(s) \union {e}
      PROVE  x \in Planning!ToSet(Append(s, e))
  <2>1. CASE x \in Planning!ToSet(s)
    <3>1. PICK i \in 1..Len(s) : x = s[i]
      BY <1>1, <2>1 DEF Planning!ToSet
    <3>2. i \in 1..(Len(s) + 1)
      BY <1>1
    <3> QED
      BY <1>1, <3>1, <3>2 DEF Planning!ToSet
  <2>2. CASE x = e
    <3>1. Len(s) + 1 \in 1..(Len(s) + 1)
      BY <1>1
    <3> QED
      BY <1>1, <2>2, <3>1 DEF Planning!ToSet
  <2> QED
    BY <2>1, <2>2
<1> QED
  BY <1>1, <1>2, <1>3

\* What a list contains is what is in its range.
LEMMA ContainsIs ==
  ASSUME NEW E, NEW s \in Seq(E), NEW e
  PROVE  Planning!Contains(s, e) <=> e \in Planning!ToSet(s)
BY DEF Planning!Contains, Planning!ToSet

\* The range of a list.
LEMMA ToSetIs ==
  ASSUME NEW E, NEW s \in Seq(E)
  PROVE  Planning!ToSet(s) \subseteq E /\ (\A i \in 1..Len(s) : s[i] \in Planning!ToSet(s))
         /\ (\A x \in Planning!ToSet(s) : \E i \in 1..Len(s) : s[i] = x)
BY DEF Planning!ToSet

\* The elements of a list that are wanted.
LEMMA OnlyIs ==
  ASSUME NEW E, NEW list \in Seq(E), NEW wanted
  PROVE  /\ Planning!Only(list, wanted) \in Seq(E)
         /\ Planning!ToSet(Planning!Only(list, wanted)) = Planning!ToSet(list) \intersect wanted
<1> DEFINE n == Len(list)
<1>1. n \in Nat /\ DOMAIN list = 1..n /\ <<>> \in Seq(E) /\ \A i \in 1..n : list[i] \in E
  OBVIOUS
<1>2. \A s \in Seq(E), i \in 1..n :
        Planning!AddWanted(s, list[i], wanted) \in Seq(E)
  BY <1>1 DEF Planning!AddWanted
<1>3. PICK f \in [0..n -> Seq(E)] :
        /\ f[0] = <<>>
        /\ \A i \in 1..n : f[i] = Planning!AddWanted(f[i - 1], list[i], wanted)
        /\ Planning!Only(list, wanted) = f[n]
  <2>1. PICK got : got = Planning!Only(list, wanted)
    OBVIOUS
  <2> HIDE DEF n
  <2> QED
    BY <1>2, OnlyRuns, Zenon DEF n
<1> DEFINE P == {i \in 0..n : Planning!ToSet(f[i]) = {list[j] : j \in 1..i} \intersect wanted}
<1>4. 0 \in P
  <2>1. Planning!ToSet(<<>>) = {} /\ 1..0 = {}
    BY DEF Planning!ToSet
  <2> QED
    BY <1>1, <1>3, <2>1
<1>5. ASSUME NEW i \in 1..n, i - 1 \in P
      PROVE  i \in P
  <2>1. Planning!ToSet(f[i - 1]) = {list[j] : j \in 1..(i - 1)} \intersect wanted
    BY <1>5
  <2>2. i - 1 \in 0..n /\ i \in 0..n
    BY <1>1
  <2>3. f[i - 1] \in Seq(E)
    BY <1>3, <2>2
  <2>4. {list[j] : j \in 1..i} = {list[j] : j \in 1..(i - 1)} \union {list[i]}
    <3>1. 1..i = (1..(i - 1)) \union {i}
      BY <1>1
    <3> QED
      BY <3>1
  <2> HIDE DEF n
  <2>5. Planning!ToSet(f[i]) = {list[j] : j \in 1..i} \intersect wanted
    <3>1. CASE list[i] \in wanted
      <4>1. Planning!ToSet(f[i]) = Planning!ToSet(f[i - 1]) \union {list[i]}
        BY <1>1, <1>3, <2>3, <3>1, Appending DEF Planning!AddWanted
      <4> QED
        BY <2>1, <2>4, <3>1, <4>1
    <3>2. CASE list[i] \notin wanted
      <4>1. f[i] = f[i - 1]
        BY <1>3, <3>2 DEF Planning!AddWanted
      <4> QED
        BY <2>1, <2>4, <3>2, <4>1
    <3> QED
      BY <3>1, <3>2
  <2> QED
    BY <2>2, <2>5
<1>6. n \in P
  <2>1. \A i \in 1..n : i - 1 \in P => i \in P
    BY <1>5
  <2>2. \A i \in 0..n : i \in P
    <3> HIDE DEF P, n
    <3> QED
      BY <1>1, <1>4, <2>1, Climbs
  <2> QED
    BY <1>1, <2>2
<1>7. f[n] \in Seq(E) /\ Planning!ToSet(f[n]) = {list[j] : j \in 1..n} \intersect wanted
  BY <1>1, <1>3, <1>6
<1>8. Planning!ToSet(list) = {list[j] : j \in 1..n}
  BY <1>1 DEF Planning!ToSet
<1> HIDE DEF n
<1> QED
  BY <1>3, <1>7, <1>8

\* No element stands twice in the list.
Apart(s) == \A i, j \in 1..Len(s) : s[i] = s[j] => i = j

\* An element that a list does not have may be added to a list without repeats.
LEMMA AppendingApart ==
  ASSUME NEW E, NEW s \in Seq(E), NEW e \in E, Apart(s), e \notin Planning!ToSet(s)
  PROVE  Apart(Append(s, e))
<1>1. /\ Len(Append(s, e)) = Len(s) + 1 /\ Len(s) \in Nat
      /\ \A i \in 1..Len(s) : Append(s, e)[i] = s[i] /\ s[i] # e
      /\ Append(s, e)[Len(s) + 1] = e
  BY DEF Planning!ToSet
<1>2. \A i \in 1..(Len(s) + 1) : i \in 1..Len(s) \/ i = Len(s) + 1
  BY <1>1
<1> SUFFICES ASSUME NEW i \in 1..(Len(s) + 1), NEW j \in 1..(Len(s) + 1),
                    Append(s, e)[i] = Append(s, e)[j]
             PROVE  i = j
  BY <1>1 DEF Apart
<1> QED
  BY <1>1, <1>2 DEF Apart

\* The elements of a list, each once.
LEMMA DedupIs ==
  ASSUME NEW E, NEW list \in Seq(E)
  PROVE  /\ Planning!Dedup(list) \in Seq(E)
         /\ Planning!ToSet(Planning!Dedup(list)) = Planning!ToSet(list)
         /\ Apart(Planning!Dedup(list))
<1> DEFINE n == Len(list)
<1>1. n \in Nat /\ DOMAIN list = 1..n /\ <<>> \in Seq(E) /\ \A i \in 1..n : list[i] \in E
  OBVIOUS
<1>2. \A s \in Seq(E), i \in 1..n : Planning!AddLast(s, list[i]) \in Seq(E)
  BY <1>1 DEF Planning!AddLast
<1>3. PICK f \in [0..n -> Seq(E)] :
        /\ f[0] = <<>>
        /\ \A i \in 1..n : f[i] = Planning!AddLast(f[i - 1], list[i])
        /\ Planning!Dedup(list) = f[n]
  <2> HIDE DEF n
  <2> QED
    BY <1>1, <1>2, DedupRuns DEF n
<1> DEFINE P == {i \in 0..n : Planning!ToSet(f[i]) = {list[j] : j \in 1..i} /\ Apart(f[i])}
<1>4. 0 \in P
  <2>1. Planning!ToSet(<<>>) = {} /\ 1..0 = {} /\ Apart(<<>>)
    BY DEF Planning!ToSet, Apart
  <2> QED
    BY <1>1, <1>3, <2>1
<1>5. ASSUME NEW i \in 1..n, i - 1 \in P
      PROVE  i \in P
  <2>1. Planning!ToSet(f[i - 1]) = {list[j] : j \in 1..(i - 1)} /\ Apart(f[i - 1])
    BY <1>5
  <2>2. i - 1 \in 0..n /\ i \in 0..n
    BY <1>1
  <2>3. f[i - 1] \in Seq(E)
    BY <1>3, <2>2
  <2>4. {list[j] : j \in 1..i} = {list[j] : j \in 1..(i - 1)} \union {list[i]}
    <3>1. 1..i = (1..(i - 1)) \union {i}
      BY <1>1
    <3> QED
      BY <3>1
  <2> HIDE DEF n
  <2>5. Planning!ToSet(f[i]) = {list[j] : j \in 1..i} /\ Apart(f[i])
    <3>1. CASE Planning!Contains(f[i - 1], list[i])
      <4>1. f[i] = f[i - 1] /\ list[i] \in Planning!ToSet(f[i - 1])
        BY <1>3, <2>3, <3>1, ContainsIs DEF Planning!AddLast
      <4> QED
        BY <2>1, <2>4, <4>1
    <3>2. CASE ~Planning!Contains(f[i - 1], list[i])
      <4>1. f[i] = Append(f[i - 1], list[i]) /\ list[i] \notin Planning!ToSet(f[i - 1])
        BY <1>3, <2>3, <3>2, ContainsIs DEF Planning!AddLast
      <4>2. Planning!ToSet(f[i]) = Planning!ToSet(f[i - 1]) \union {list[i]}
        BY <1>1, <2>3, <4>1, Appending
      <4>3. Apart(f[i])
        BY <1>1, <2>1, <2>3, <4>1, AppendingApart
      <4> QED
        BY <2>1, <2>4, <4>2, <4>3
    <3> QED
      BY <3>1, <3>2
  <2> QED
    BY <2>2, <2>5
<1>6. n \in P
  <2>1. \A i \in 1..n : i - 1 \in P => i \in P
    BY <1>5
  <2>2. \A i \in 0..n : i \in P
    <3> HIDE DEF P, n
    <3> QED
      BY <1>1, <1>4, <2>1, Climbs
  <2> QED
    BY <1>1, <2>2
<1>7. f[n] \in Seq(E) /\ Planning!ToSet(f[n]) = {list[j] : j \in 1..n} /\ Apart(f[n])
  BY <1>1, <1>3, <1>6
<1>8. Planning!ToSet(list) = {list[j] : j \in 1..n}
  BY <1>1 DEF Planning!ToSet
<1> HIDE DEF n
<1> QED
  BY <1>3, <1>7, <1>8

\* The size of 1..n.
LEMMA RangeCounts ==
  ASSUME NEW n \in Nat
  PROVE  IsFiniteSet(1..n) /\ Cardinality(1..n) = n
<1> DEFINE one == 1
<1>1. one \in Int /\ n \in Int
  OBVIOUS
<1>2. IsFiniteSet(one..n) /\ Cardinality(one..n) = IF one > n THEN 0 ELSE n - one + 1
  <2> HIDE DEF one
  <2> QED
    BY <1>1, FS_Interval
<1>3. one = 1
  OBVIOUS
<1> HIDE DEF one
<1>4. (IF 1 > n THEN 0 ELSE n - 1 + 1) = n
  OBVIOUS
<1> QED
  BY <1>2, <1>3, <1>4

\* A list without repetitions has as many elements as places.
LEMMA ApartCounts ==
  ASSUME NEW E, NEW s \in Seq(E), Apart(s)
  PROVE  IsFiniteSet(Planning!ToSet(s)) /\ Cardinality(Planning!ToSet(s)) = Len(s)
<1> DEFINE n == Len(s)
<1>1. /\ n \in Nat /\ s \in [1..n -> Planning!ToSet(s)] /\ \A x \in Planning!ToSet(s) :
             \E i \in 1..n : s[i] = x
  BY DEF Planning!ToSet
<1>2. IsFiniteSet(1..n) /\ Cardinality(1..n) = n
  <2> HIDE DEF n
  <2> QED
    BY <1>1, RangeCounts
<1>3. s \in Surjection(1..n, Planning!ToSet(s))
  BY <1>1 DEF Surjection
<1> HIDE DEF n
<1>4. IsFiniteSet(Planning!ToSet(s)) /\ Cardinality(Planning!ToSet(s)) <= n
  BY <1>2, <1>3, FS_Surjection
<1>5. Cardinality(Planning!ToSet(s)) \in Nat
  BY <1>4, FS_CardinalityType
<1>6. ~(Cardinality(Planning!ToSet(s)) < n)
  <2> SUFFICES ASSUME Cardinality(Planning!ToSet(s)) < Cardinality(1..n)
               PROVE  FALSE
    BY <1>2
  <2>1. \E x, y \in 1..n : x # y /\ s[x] = s[y]
    BY <1>1, <1>2, <1>4, FS_PigeonHole
  <2> QED
    BY <2>1 DEF Apart, n
<1> QED
  BY <1>1, <1>4, <1>5, <1>6 DEF n

-----------------------------------------------------------------------------
(***************************************************************************)
(* The order of a plan.                                                    *)
(***************************************************************************)
\* The ranks of a policy are numbers.
Ranks(policy) == \A a : Planning!Rank(policy, a) \in Nat

\* Every agent has a rank.
LEMMA RankIs ==
  ASSUME NEW U, NEW policy, policy.order \in Seq(U)
  PROVE  Ranks(policy)
BY DEF Ranks, Planning!Rank, Planning!Contains

\* Among some places of a plan, one is preferred.
LEMMA BestExists ==
  ASSUME NEW policy, Ranks(policy),
         NEW list, NEW ready, ready # {}, ready \subseteq Nat
  PROVE  \E k \in ready : \A m \in ready :
            \/ Planning!Rank(policy, list[k]) < Planning!Rank(policy, list[m])
            \/ Planning!Rank(policy, list[k]) = Planning!Rank(policy, list[m]) /\ k <= m
<1> DEFINE ranks == {Planning!Rank(policy, list[k]) : k \in ready}
<1>1. \A k \in ready : Planning!Rank(policy, list[k]) \in Nat
  BY DEF Ranks
<1>2. ranks \subseteq Nat /\ ranks # {}
  BY <1>1
<1>3. PICK r \in ranks : \A q \in ranks : r <= q
  BY <1>2, Lowest
<1> DEFINE ties == {k \in ready : Planning!Rank(policy, list[k]) = r}
<1>4. ties \subseteq Nat /\ ties # {}
  BY <1>3
<1>5. PICK k \in ties : \A m \in ties : k <= m
  BY <1>4, Lowest
<1>6. k \in ready /\ Planning!Rank(policy, list[k]) = r
  OBVIOUS
<1>7. ASSUME NEW m \in ready
      PROVE  \/ Planning!Rank(policy, list[k]) < Planning!Rank(policy, list[m])
             \/ Planning!Rank(policy, list[k]) = Planning!Rank(policy, list[m]) /\ k <= m
  <2>1. r <= Planning!Rank(policy, list[m]) /\ Planning!Rank(policy, list[m]) \in Nat /\ r \in Nat
    BY <1>1, <1>2, <1>3
  <2>2. CASE Planning!Rank(policy, list[m]) = r
    BY <1>5, <1>6, <2>2
  <2>3. CASE Planning!Rank(policy, list[m]) # r
    BY <1>6, <2>1, <2>3
  <2> QED
    BY <2>2, <2>3
<1> QED
  BY <1>6, <1>7

\* One agent more of a list.
Lengthened(s, r, list) == \E e \in Planning!ToSet(list) \ Planning!ToSet(s) : r = Append(s, e)

\* As long as agents remain, one of them can be placed.
LEMMA PlaceIs ==
  ASSUME NEW policy, Ranks(policy),
         NEW list \in Seq(Planning!Agents), NEW s \in Seq(Planning!Agents)
  PROVE  /\ Planning!Place(s, list, policy) \in Seq(Planning!Agents)
         /\ Planning!ToSet(list) \ Planning!ToSet(s) # {}
                => Lengthened(s, Planning!Place(s, list, policy), list)
<1> DEFINE remaining == Planning!ToSet(list) \ Planning!ToSet(s)
           ready == {k \in DOMAIN list :
                       /\ list[k] \in remaining
                       /\ (Planning!Dependencies(list[k]) \intersect Planning!ToSet(list))
                              \subseteq Planning!ToSet(s)}
           best == CHOOSE k \in ready : \A m \in ready :
                       \/ Planning!Rank(policy, list[k]) < Planning!Rank(policy, list[m])
                       \/ Planning!Rank(policy, list[k]) = Planning!Rank(policy, list[m]) /\ k <= m
<1>1. Planning!Place(s, list, policy)
        = IF ready = {} THEN s \o Planning!Only(list, remaining) ELSE Append(s, list[best])
  BY DEF Planning!Place
<1>2. ready \subseteq Nat /\ \A k \in ready : list[k] \in remaining /\ list[k] \in Planning!Agents
  OBVIOUS
<1>3. ready # {} => best \in ready
  <2> SUFFICES ASSUME ready # {} PROVE best \in ready
    OBVIOUS
  <2>1. \E k \in ready : \A m \in ready :
            \/ Planning!Rank(policy, list[k]) < Planning!Rank(policy, list[m])
            \/ Planning!Rank(policy, list[k]) = Planning!Rank(policy, list[m]) /\ k <= m
    <3> HIDE DEF ready
    <3> QED
      BY <1>2, BestExists
  <2> HIDE DEF ready
  <2> QED
    BY <2>1
<1>4. remaining # {} => ready # {}
  <2> SUFFICES ASSUME remaining # {} PROVE ready # {}
    OBVIOUS
  <2>1. \A x \in remaining : \E k \in DOMAIN list : list[k] = x
    BY DEF Planning!ToSet
  <2>2. CASE \E x \in remaining : x # Planning!Terminal
    <3>1. PICK k \in DOMAIN list : list[k] \in remaining /\ list[k] # Planning!Terminal
      BY <2>1, <2>2
    <3>2. Planning!Dependencies(list[k]) = {}
      BY <3>1 DEF Planning!Dependencies
    <3> QED
      BY <3>1, <3>2
  <2>3. CASE \A x \in remaining : x = Planning!Terminal
    <3>1. PICK k \in DOMAIN list : list[k] \in remaining
      BY <2>1
    <3>2. Planning!Dependencies(list[k]) \intersect Planning!ToSet(list) \subseteq Planning!ToSet(s)
      BY <2>3 DEF Planning!Dependencies, Planning!Specialists, Planning!Terminal
    <3> QED
      BY <3>1, <3>2
  <2> QED
    BY <2>2, <2>3
<1> HIDE DEF ready, best
<1>5. CASE ready = {}
  <2>1. Planning!Only(list, remaining) \in Seq(Planning!Agents)
    BY OnlyIs
  <2>2. s \o Planning!Only(list, remaining) \in Seq(Planning!Agents)
    BY <2>1, ConcatProperties
  <2> QED
    BY <1>1, <1>4, <1>5, <2>2
<1>6. CASE ready # {}
  <2>1. list[best] \in remaining /\ list[best] \in Planning!Agents
    BY <1>2, <1>3, <1>6
  <2>2. Append(s, list[best]) \in Seq(Planning!Agents)
    BY <2>1
  <2> QED
    BY <1>1, <1>6, <2>1, <2>2 DEF Lengthened
<1> QED
  BY <1>5, <1>6

\* An ordered plan has the agents of the plan.
LEMMA PlacedIs ==
  ASSUME NEW policy, Ranks(policy),
         NEW list \in Seq(Planning!Agents), Apart(list)
  PROVE  /\ Planning!Placed(list, policy) \in Seq(Planning!Agents)
         /\ Planning!ToSet(Planning!Placed(list, policy)) = Planning!ToSet(list)
         /\ Apart(Planning!Placed(list, policy))
<1> DEFINE n == Len(list)
<1>1. n \in Nat
  OBVIOUS
<1>2. \A s \in Seq(Planning!Agents), i \in 1..n :
          Planning!Place(s, list, policy) \in Seq(Planning!Agents)
  BY PlaceIs
<1>3. PICK f \in [0..n -> Seq(Planning!Agents)] :
        /\ f[0] = <<>>
        /\ \A i \in 1..n : f[i] = Planning!Place(f[i - 1], list, policy)
        /\ Planning!Placed(list, policy) = f[n]
  BY <1>2, PlacedRuns, Zenon
<1>4. IsFiniteSet(Planning!ToSet(list)) /\ Cardinality(Planning!ToSet(list)) = n
  BY ApartCounts
<1> DEFINE P == {i \in 0..n : Len(f[i]) = i /\ Apart(f[i])
               /\ Planning!ToSet(f[i]) \subseteq Planning!ToSet(list)}
<1>5. 0 \in P
  BY <1>1, <1>3 DEF Apart, Planning!ToSet
<1>6. ASSUME NEW i \in 1..n, i - 1 \in P
      PROVE  i \in P
  <2>1. Len(f[i - 1]) = i - 1 /\ Apart(f[i - 1])
            /\ Planning!ToSet(f[i - 1]) \subseteq Planning!ToSet(list)
    BY <1>6
  <2>2. i - 1 \in 0..n /\ i \in 0..n /\ i - 1 < n
    BY <1>1
  <2>3. f[i - 1] \in Seq(Planning!Agents)
    BY <2>2
  <2> HIDE DEF n
  <2>4. Planning!ToSet(list) \ Planning!ToSet(f[i - 1]) # {}
    <3>1. Cardinality(Planning!ToSet(f[i - 1])) = i - 1
      BY <2>1, <2>3, ApartCounts
    <3>2. i - 1 # n
      BY <1>1, <2>2
    <3>3. Planning!ToSet(f[i - 1]) # Planning!ToSet(list)
      BY <1>4, <3>1, <3>2
    <3> QED
      BY <2>1, <3>3
  <2>5. PICK e \in Planning!ToSet(list) \ Planning!ToSet(f[i - 1]) : f[i] = Append(f[i - 1], e)
    <3>1. f[i] = Planning!Place(f[i - 1], list, policy)
      BY <1>3
    <3>2. Lengthened(f[i - 1], Planning!Place(f[i - 1], list, policy), list)
      BY <2>3, <2>4, PlaceIs
    <3> QED
      BY <3>1, <3>2 DEF Lengthened
  <2>6. e \in Planning!Agents
    BY ToSetIs
  <2>7. Len(f[i]) = i /\ Planning!ToSet(f[i]) \subseteq Planning!ToSet(list)
    <3>1. Len(f[i]) = Len(f[i - 1]) + 1 /\ Planning!ToSet(f[i]) = Planning!ToSet(f[i - 1])
              \union {e}
      BY <2>3, <2>5, <2>6, Appending
    <3> QED
      BY <2>1, <2>2, <3>1
  <2>8. Apart(f[i])
    BY <2>1, <2>3, <2>5, <2>6, AppendingApart
  <2> QED
    BY <2>2, <2>7, <2>8
<1>7. n \in P
  <2>1. \A i \in 1..n : i - 1 \in P => i \in P
    BY <1>6
  <2>2. \A i \in 0..n : i \in P
    <3> HIDE DEF P, n
    <3> QED
      BY <1>1, <1>5, <2>1, Climbs
  <2> QED
    BY <1>1, <2>2
<1>8. Len(f[n]) = n /\ Apart(f[n]) /\ Planning!ToSet(f[n]) \subseteq Planning!ToSet(list)
          /\ f[n] \in Seq(Planning!Agents)
  BY <1>1, <1>3, <1>7
<1>9. Planning!ToSet(f[n]) = Planning!ToSet(list)
  <2> HIDE DEF n
  <2>1. Cardinality(Planning!ToSet(f[n])) = Cardinality(Planning!ToSet(list))
    BY <1>4, <1>8, ApartCounts
  <2> QED
    BY <1>4, <1>8, <2>1, FS_Subset
<1> QED
  BY <1>3, <1>8, <1>9

\* The first m elements of a list.
LEMMA FirstIs ==
  ASSUME NEW E, NEW s \in Seq(E), NEW m \in 0..Len(s)
  PROVE  /\ SubSeq(s, 1, m) \in Seq(E) /\ Len(SubSeq(s, 1, m)) = m
         /\ \A i \in 1..m : SubSeq(s, 1, m)[i] = s[i]
<1>1. \A i \in 1..m : s[i] \in E
  OBVIOUS
<1>2. 1 \in Int /\ m \in Int /\ (IF 1 <= m THEN m - 1 + 1 ELSE 0) = m
  OBVIOUS
<1>3. /\ SubSeq(s, 1, m) \in Seq(E)
      /\ Len(SubSeq(s, 1, m)) = IF 1 <= m THEN m - 1 + 1 ELSE 0
      /\ \A i \in 1..(m - 1 + 1) : SubSeq(s, 1, m)[i] = s[1 + i - 1]
  BY <1>1, <1>2, SubSeqProperties
<1>4. 1..(m - 1 + 1) = 1..m /\ \A i \in 1..m : 1 + i - 1 = i
  OBVIOUS
<1> QED
  BY <1>2, <1>3, <1>4

\* The elements before the last.
LEMMA FrontIs ==
  ASSUME NEW E, NEW s \in Seq(E), s # <<>>
  PROVE  /\ Planning!Front(s) \in Seq(E) /\ Len(Planning!Front(s)) = Len(s) - 1
                /\ Len(s) \in Nat \ {0}
         /\ \A i \in 1..(Len(s) - 1) : Planning!Front(s)[i] = s[i]
         /\ Planning!Last(s) \in E
         /\ Planning!ToSet(s) = Planning!ToSet(Planning!Front(s)) \union {Planning!Last(s)}
<1>1. Len(s) \in Nat \ {0}
  OBVIOUS
<1>2. Len(s) - 1 \in 0..Len(s)
  BY <1>1
<1>3. /\ Planning!Front(s) \in Seq(E) /\ Len(Planning!Front(s)) = Len(s) - 1
      /\ \A i \in 1..(Len(s) - 1) : Planning!Front(s)[i] = s[i]
  BY <1>2, FirstIs DEF Planning!Front
<1>4. Planning!Last(s) \in E /\ Planning!Last(s) = s[Len(s)] /\ Len(s) \in 1..Len(s)
  BY <1>1 DEF Planning!Last
<1>5. ASSUME NEW x \in Planning!ToSet(s)
      PROVE  x \in Planning!ToSet(Planning!Front(s)) \union {Planning!Last(s)}
  <2>1. PICK i \in 1..Len(s) : s[i] = x
    BY DEF Planning!ToSet
  <2>2. i = Len(s) \/ i \in 1..(Len(s) - 1)
    BY <1>1
  <2> QED
    BY <1>3, <1>4, <2>1, <2>2 DEF Planning!ToSet
<1>6. ASSUME NEW x \in Planning!ToSet(Planning!Front(s)) \union {Planning!Last(s)}
      PROVE  x \in Planning!ToSet(s)
  <2>1. CASE x = Planning!Last(s)
    BY <1>4, <2>1 DEF Planning!ToSet
  <2>2. CASE x \in Planning!ToSet(Planning!Front(s))
    <3>1. PICK i \in 1..(Len(s) - 1) : x = Planning!Front(s)[i]
      BY <1>3, <2>2 DEF Planning!ToSet
    <3>2. i \in 1..Len(s) /\ x = s[i]
      BY <1>1, <1>3, <3>1
    <3> QED
      BY <3>2 DEF Planning!ToSet
  <2> QED
    BY <2>1, <2>2
<1> QED
  BY <1>1, <1>3, <1>4, <1>5, <1>6

\* A list has at least as many places as elements.
LEMMA PlacesCount ==
  ASSUME NEW E, NEW s \in Seq(E)
  PROVE  IsFiniteSet(Planning!ToSet(s)) /\ Cardinality(Planning!ToSet(s)) <= Len(s)
         /\ Cardinality(Planning!ToSet(s)) \in Nat
<1> DEFINE n == Len(s)
<1>1. /\ n \in Nat /\ s \in [1..n -> Planning!ToSet(s)] /\ \A x \in Planning!ToSet(s) :
             \E i \in 1..n : s[i] = x
  BY DEF Planning!ToSet
<1>2. IsFiniteSet(1..n) /\ Cardinality(1..n) = n
  <2> HIDE DEF n
  <2> QED
    BY <1>1, RangeCounts
<1>3. s \in Surjection(1..n, Planning!ToSet(s))
  BY <1>1 DEF Surjection
<1> HIDE DEF n
<1>4. IsFiniteSet(Planning!ToSet(s)) /\ Cardinality(Planning!ToSet(s)) <= n
  BY <1>2, <1>3, FS_Surjection
<1>5. Cardinality(Planning!ToSet(s)) \in Nat
  BY <1>4, FS_CardinalityType
<1> QED
  BY <1>4, <1>5 DEF n

\* One terminal agent closes the plan.
Closed(s) == /\ s \in Seq(Planning!Agents) /\ s # <<>> /\ Planning!Last(s) = Planning!Terminal
             /\ \A i \in 1..Len(s) : s[i] = Planning!Terminal => i = Len(s)

\* A plan that _ensure_unique_terminal returns is closed, and lost nobody.
LEMMA TerminalIs ==
  ASSUME NEW s \in Seq(Planning!Agents)
  PROVE  /\ Closed(Planning!_ensure_unique_terminal(s))
         /\ Planning!ToSet(Planning!_ensure_unique_terminal(s)) = Planning!ToSet(s)
                \union {Planning!Terminal}
<1> DEFINE o == Planning!Only(s, Planning!ToSet(s) \ {Planning!Terminal})
<1>1. o \in Seq(Planning!Agents) /\ Planning!ToSet(o) =
          Planning!ToSet(s) \intersect (Planning!ToSet(s) \ {Planning!Terminal})
  BY OnlyIs
<1>2. Planning!Terminal \in Planning!Agents
  BY DEF Planning!Agents
<1>3. Planning!_ensure_unique_terminal(s) = Append(o, Planning!Terminal)
  BY DEF Planning!_ensure_unique_terminal
<1> HIDE DEF o
<1>4. /\ Append(o, Planning!Terminal) \in Seq(Planning!Agents)
             /\ Len(Append(o, Planning!Terminal)) = Len(o) + 1
      /\ Planning!ToSet(Append(o, Planning!Terminal)) = Planning!ToSet(o) \union {Planning!Terminal}
  BY <1>1, <1>2, Appending
<1>5. /\ Len(o) \in Nat /\ Append(o, Planning!Terminal)[Len(o) + 1] = Planning!Terminal
      /\ \A i \in 1..Len(o) : Append(o, Planning!Terminal)[i] = o[i]
  BY <1>1, <1>2
<1>6. \A i \in 1..Len(o) : o[i] # Planning!Terminal
  <2>1. \A i \in 1..Len(o) : o[i] \in Planning!ToSet(o)
    BY <1>1, ToSetIs
  <2> QED
    BY <1>1, <2>1
<1>7. ASSUME NEW i \in 1..(Len(o) + 1), Append(o, Planning!Terminal)[i] = Planning!Terminal
      PROVE  i = Len(o) + 1
  <2>1. i = Len(o) + 1 \/ i \in 1..Len(o)
    BY <1>5
  <2> QED
    BY <1>5, <1>6, <1>7, <2>1
<1>8. Append(o, Planning!Terminal) # <<>>
          /\ Planning!Last(Append(o, Planning!Terminal)) = Planning!Terminal
  BY <1>4, <1>5 DEF Planning!Last
<1>9. Closed(Append(o, Planning!Terminal))
  BY <1>4, <1>7, <1>8 DEF Closed
<1> QED
  BY <1>1, <1>3, <1>4, <1>9

\* An ordered plan has all agents, or more than the limit.
LEMMA OrderIs ==
  ASSUME NEW policy, Ranks(policy), policy.maxAgents \in Int,
         NEW proposed \in Seq(Planning!Agents)
  PROVE  /\ Closed(Planning!_order_by_dependencies(proposed, policy))
         /\ Planning!AgentLimit(policy) \in Nat
         /\ \/ Planning!ToSet(Planning!_order_by_dependencies(proposed, policy)) =
                   Planning!ToSet(proposed) \union {Planning!Terminal}
            \/ Cardinality(Planning!ToSet(Planning!_order_by_dependencies(proposed, policy)))
                   > Planning!AgentLimit(policy)
<1> DEFINE list == Planning!Dedup(proposed)
           placed == Planning!Placed(list, policy)
           m == Planning!Lower(Planning!AgentLimit(policy) + 1, Len(placed))
           cut == SubSeq(placed, 1, m)
<1>1. list \in Seq(Planning!Agents) /\ Planning!ToSet(list) = Planning!ToSet(proposed)
          /\ Apart(list)
  BY DedupIs
<1> HIDE DEF list
<1>2. placed \in Seq(Planning!Agents) /\ Planning!ToSet(placed) = Planning!ToSet(list)
          /\ Apart(placed)
  BY <1>1, PlacedIs
<1>3. Planning!AgentLimit(policy) \in Nat /\ Planning!AgentLimit(policy) + 1 \in Nat
  BY DEF Planning!AgentLimit
<1> HIDE DEF placed
<1>4. m \in 0..Len(placed) /\ (m = Len(placed) \/ m = Planning!AgentLimit(policy) + 1)
  BY <1>2, <1>3 DEF Planning!Lower
<1> HIDE DEF m
<1>5. /\ cut \in Seq(Planning!Agents) /\ Len(cut) = m
      /\ \A i \in 1..m : cut[i] = placed[i]
  BY <1>2, <1>4, FirstIs
<1>6. Planning!_order_by_dependencies(proposed, policy) = Planning!_ensure_unique_terminal(cut)
  BY DEF Planning!_order_by_dependencies, m, placed, list
<1> HIDE DEF cut
<1>7. /\ Closed(Planning!_ensure_unique_terminal(cut))
      /\ Planning!ToSet(Planning!_ensure_unique_terminal(cut)) = Planning!ToSet(cut)
             \union {Planning!Terminal}
  BY <1>5, TerminalIs
<1>8. CASE m = Len(placed)
  <2>1. /\ \A i \in 1..m : cut[i] \in Planning!ToSet(cut)
        /\ \A x \in Planning!ToSet(cut) : \E i \in 1..m : cut[i] = x
    BY <1>5, ToSetIs
  <2>2. /\ \A i \in 1..m : placed[i] \in Planning!ToSet(placed)
        /\ \A x \in Planning!ToSet(placed) : \E i \in 1..m : placed[i] = x
    BY <1>2, <1>8, ToSetIs
  <2>3. \A i \in 1..m : cut[i] = placed[i]
    BY <1>5
  <2>4. ASSUME NEW x
        PROVE  x \in Planning!ToSet(cut) <=> x \in Planning!ToSet(placed)
    <3> HIDE DEF cut, placed, m
    <3>1. ASSUME x \in Planning!ToSet(cut)
          PROVE  x \in Planning!ToSet(placed)
      <4>1. PICK i \in 1..m : cut[i] = x
        BY <2>1, <3>1
      <4> QED
        BY <2>2, <2>3, <4>1
    <3>2. ASSUME x \in Planning!ToSet(placed)
          PROVE  x \in Planning!ToSet(cut)
      <4>1. PICK i \in 1..m : placed[i] = x
        BY <2>2, <3>2
      <4> QED
        BY <2>1, <2>3, <4>1
    <3> QED
      BY <3>1, <3>2
  <2>5. Planning!ToSet(cut) = Planning!ToSet(placed)
    BY <2>4
  <2> QED
    BY <1>1, <1>2, <1>3, <1>6, <1>7, <2>5
<1>9. CASE m = Planning!AgentLimit(policy) + 1
  <2>1. Apart(cut)
    BY <1>2, <1>4, <1>5 DEF Apart
  <2>2. Cardinality(Planning!ToSet(cut)) = m /\ m > Planning!AgentLimit(policy)
    BY <1>3, <1>5, <1>9, <2>1, ApartCounts
  <2>3. IsFiniteSet(Planning!ToSet(cut) \union {Planning!Terminal})
    <3>1. Planning!_ensure_unique_terminal(cut) \in Seq(Planning!Agents)
      BY <1>7 DEF Closed
    <3> QED
      BY <1>7, <3>1, PlacesCount
  <2>4. Cardinality(Planning!ToSet(cut)) <= Cardinality(Planning!ToSet(cut)
            \union {Planning!Terminal})
    BY <2>3, FS_Subset
  <2>5. Cardinality(Planning!ToSet(cut) \union {Planning!Terminal}) \in Nat
            /\ Cardinality(Planning!ToSet(cut)) \in Nat
    BY <1>5, <2>3, FS_CardinalityType, PlacesCount
  <2>6. Cardinality(Planning!ToSet(cut) \union {Planning!Terminal}) > Planning!AgentLimit(policy)
    BY <1>3, <2>2, <2>4, <2>5
  <2> QED
    BY <1>3, <1>6, <1>7, <2>6
<1> QED
  BY <1>4, <1>8, <1>9

\* An agent is put in front of the last one.
LEMMA BeforeLastIs ==
  ASSUME NEW s \in Seq(Planning!Agents), s # <<>>, NEW a \in Planning!Agents
  PROVE  /\ Planning!BeforeLast(s, a) \in Seq(Planning!Agents) \ {<<>>}
         /\ Planning!ToSet(s) \subseteq Planning!ToSet(Planning!BeforeLast(s, a))
                /\ a \in Planning!ToSet(Planning!BeforeLast(s, a))
<1>1. CASE Planning!Contains(s, a)
  BY <1>1, ContainsIs DEF Planning!BeforeLast
<1>2. CASE ~Planning!Contains(s, a)
  <2> DEFINE front == Append(Planning!Front(s), a)
             new == front \o <<Planning!Last(s)>>
  <2>1. Planning!BeforeLast(s, a) = new
    BY <1>2 DEF Planning!BeforeLast
  <2>2. /\ Planning!Front(s) \in Seq(Planning!Agents) /\ Planning!Last(s) \in Planning!Agents
        /\ Planning!ToSet(s) = Planning!ToSet(Planning!Front(s)) \union {Planning!Last(s)}
    BY FrontIs
  <2>3. front \in Seq(Planning!Agents) /\ Planning!ToSet(front) =
            Planning!ToSet(Planning!Front(s)) \union {a}
    BY <2>2, Appending
  <2> HIDE DEF front
  <2>4. new = Append(front, Planning!Last(s))
    BY <2>2, <2>3
  <2>5. /\ Append(front, Planning!Last(s)) \in Seq(Planning!Agents)
        /\ Len(Append(front, Planning!Last(s))) = Len(front) + 1
        /\ Planning!ToSet(Append(front, Planning!Last(s))) = Planning!ToSet(front)
               \union {Planning!Last(s)}
    BY <2>2, <2>3, Appending
  <2>6. Append(front, Planning!Last(s)) # <<>>
    BY <2>3, <2>5
  <2> HIDE DEF new
  <2> QED
    BY <2>1, <2>2, <2>3, <2>4, <2>5, <2>6
<1> QED
  BY <1>1, <1>2

\* The producer a repair takes.
MakerOf(g) == CHOOSE a \in Planning!Producers(g) : TRUE

\* What can be made has a maker among the agents.
LEMMA MakerIs ==
  ASSUME NEW g, Planning!Producers(g) # {}
  PROVE  MakerOf(g) \in Planning!Producers(g) /\ MakerOf(g) \in Planning!Agents
BY DEF MakerOf, Planning!Producers

\* A repaired plan has a producer of everything that was lacking.
LEMMA RepairedIs ==
  ASSUME NEW E, NEW list \in Seq(E), NEW ordered \in Seq(Planning!Agents), ordered # <<>>,
         \A i \in 1..Len(list) : Planning!Producers(list[i]) # {}
  PROVE  /\ Planning!Repaired(ordered, list) \in Seq(Planning!Agents)
         /\ Planning!ToSet(ordered) \subseteq Planning!ToSet(Planning!Repaired(ordered, list))
         /\ \A i \in 1..Len(list) : MakerOf(list[i])
                \in Planning!ToSet(Planning!Repaired(ordered, list))
<1> DEFINE n == Len(list)
<1>1. n \in Nat /\ ordered \in Seq(Planning!Agents) \ {<<>>}
  OBVIOUS
<1>2. \A i \in 1..n : MakerOf(list[i]) \in Planning!Agents
  BY MakerIs
<1>3. \A s \in Seq(Planning!Agents) \ {<<>>}, i \in 1..n :
        Planning!BeforeLast(s, CHOOSE a \in Planning!Producers(list[i]) : TRUE)
            \in Seq(Planning!Agents) \ {<<>>}
  BY <1>2, BeforeLastIs DEF MakerOf
<1>4. PICK f \in [0..n -> Seq(Planning!Agents) \ {<<>>}] :
        /\ f[0] = ordered
        /\ \A i \in 1..n : f[i] = Planning!BeforeLast(f[i - 1],
               CHOOSE a \in Planning!Producers(list[i]) : TRUE)
        /\ Planning!Repaired(ordered, list) = f[n]
  BY <1>1, <1>3, RepairedRuns, Zenon
<1> DEFINE P == {i \in 0..n : /\ Planning!ToSet(ordered) \subseteq Planning!ToSet(f[i])
                              /\ \A j \in 1..i : MakerOf(list[j]) \in Planning!ToSet(f[i])}
<1>5. 0 \in P
  BY <1>1, <1>4
<1>6. ASSUME NEW i \in 1..n, i - 1 \in P
      PROVE  i \in P
  <2>1. /\ Planning!ToSet(ordered) \subseteq Planning!ToSet(f[i - 1])
        /\ \A j \in 1..(i - 1) : MakerOf(list[j]) \in Planning!ToSet(f[i - 1])
    BY <1>6
  <2>2. i - 1 \in 0..n /\ i \in 0..n
    BY <1>1
  <2>3. f[i - 1] \in Seq(Planning!Agents) /\ f[i - 1] # <<>>
    BY <2>2
  <2>4. f[i] = Planning!BeforeLast(f[i - 1], MakerOf(list[i]))
    BY <1>4 DEF MakerOf
  <2> HIDE DEF n, P
  <2>5. Planning!ToSet(f[i - 1]) \subseteq Planning!ToSet(f[i])
            /\ MakerOf(list[i]) \in Planning!ToSet(f[i])
    BY <1>2, <2>3, <2>4, BeforeLastIs
  <2>6. \A j \in 1..i : j = i \/ j \in 1..(i - 1)
    BY <2>2
  <2>7. \A j \in 1..i : MakerOf(list[j]) \in Planning!ToSet(f[i])
    BY <2>1, <2>5, <2>6
  <2> QED
    BY <2>1, <2>2, <2>5, <2>7 DEF P
<1>7. n \in P
  <2>1. \A i \in 1..n : i - 1 \in P => i \in P
    BY <1>6
  <2>2. \A i \in 0..n : i \in P
    <3> HIDE DEF P, n
    <3> QED
      BY <1>1, <1>5, <2>1, Climbs
  <2> QED
    BY <1>1, <2>2
<1> QED
  BY <1>1, <1>4, <1>7

\* Somebody in the plan makes g, if it can be made.
MadeIn(s, g) == Planning!Producers(g) # {} => \E a \in Planning!Producers(g) :
    a \in Planning!ToSet(s)

\* What is producible is made by a producer.
LEMMA ProducibleIs ==
  ASSUME NEW s \in Seq(Planning!Agents), NEW g, g \in Planning!_producible_artifacts(s),
             Planning!Producers(g) # {}
  PROVE  \E a \in Planning!Producers(g) : a \in Planning!ToSet(s)
<1>1. PICK a \in Planning!ToSet(s) : g \in Planning!Produces[a]
  BY DEF Planning!_producible_artifacts
<1>2. a \in Planning!Agents
  BY ToSetIs
<1>3. a # "CoordinatorAgent"
  <2> SUFFICES ASSUME a = "CoordinatorAgent" PROVE FALSE
    OBVIOUS
  <2>1. g = "execution_plan"
    BY <1>1, <1>2 DEF Planning!Produces, Planning!Terminal
  <2>2. PICK b \in Planning!Agents \ {"CoordinatorAgent"} : g \in Planning!Produces[b]
    BY DEF Planning!Producers
  <2> QED
    BY <2>1, <2>2 DEF Planning!Produces, Planning!Agents, Planning!Specialists, Planning!Terminal
<1> QED
  BY <1>1, <1>2, <1>3 DEF Planning!Producers

\* What is finalized is closed by the terminal agent, and makes what is needed
\* unless it has more agents than the limit.
LEMMA FinalizeIs ==
  ASSUME NEW policy, Ranks(policy), policy.maxAgents \in Int,
         NEW proposed \in Seq(Planning!Agents), NEW E, NEW needed \in Seq(E), NEW kept
  PROVE  /\ Closed(Planning!_finalize(proposed, policy, needed, kept))
         /\ \/ Len(Planning!_finalize(proposed, policy, needed, kept)) > Planning!AgentLimit(policy)
            \/ \A g \in Planning!ToSet(needed) \ kept :
                  MadeIn(Planning!_finalize(proposed, policy, needed, kept), g)
<1> DEFINE first == Planning!_order_by_dependencies(proposed, policy)
           ordered == Planning!_ensure_unique_terminal(first)
           wanted == {g \in Planning!ToSet(needed) :
                        /\ g \notin kept
                        /\ g \notin Planning!_producible_artifacts(ordered)
                        /\ Planning!Producers(g) # {}}
           lacking == Planning!Only(needed, wanted)
           repaired == Planning!Repaired(ordered, lacking)
           second == Planning!_order_by_dependencies(repaired, policy)
           last == Planning!_ensure_unique_terminal(second)
<1>1. Closed(first) /\ first \in Seq(Planning!Agents)
  BY OrderIs DEF Closed
<1>2. Closed(ordered) /\ ordered \in Seq(Planning!Agents) /\ ordered # <<>>
  <2> HIDE DEF first
  <2> QED
    BY <1>1, TerminalIs DEF Closed
<1>3. Planning!_finalize(proposed, policy, needed, kept) = IF lacking = <<>> THEN ordered ELSE last
  BY DEF Planning!_finalize
<1> HIDE DEF first, ordered
<1>4. lacking \in Seq(E) /\ Planning!ToSet(lacking) = Planning!ToSet(needed) \intersect wanted
  <2> HIDE DEF wanted
  <2> QED
    BY OnlyIs
<1>5. CASE lacking = <<>>
  <2>1. Planning!ToSet(lacking) = {}
    <3> HIDE DEF lacking
    <3> QED
      BY <1>5 DEF Planning!ToSet
  <2>2. ASSUME NEW g \in Planning!ToSet(needed) \ kept
        PROVE  MadeIn(ordered, g)
    <3>1. g \in Planning!_producible_artifacts(ordered) \/ Planning!Producers(g) = {}
      BY <1>4, <2>1
    <3> QED
      BY <1>2, <3>1, ProducibleIs DEF MadeIn
  <2> QED
    BY <1>2, <1>3, <1>5, <2>2
<1>6. CASE lacking # <<>>
  <2>1. \A i \in 1..Len(lacking) : lacking[i] \in wanted /\ Planning!Producers(lacking[i]) # {}
    <3>1. \A i \in 1..Len(lacking) : lacking[i] \in Planning!ToSet(lacking)
      <4> HIDE DEF lacking
      <4> QED
        BY <1>4, ToSetIs
    <3> QED
      BY <1>4, <3>1
  <2>2. /\ repaired \in Seq(Planning!Agents)
               /\ Planning!ToSet(ordered) \subseteq Planning!ToSet(repaired)
        /\ \A i \in 1..Len(lacking) : MakerOf(lacking[i]) \in Planning!ToSet(repaired)
    <3> HIDE DEF lacking
    <3> QED
      BY <1>2, <1>4, <2>1, RepairedIs
  <2> HIDE DEF repaired
  <2>3. /\ Closed(second) /\ second \in Seq(Planning!Agents) /\ Planning!AgentLimit(policy) \in Nat
        /\ \/ Planning!ToSet(second) = Planning!ToSet(repaired) \union {Planning!Terminal}
           \/ Cardinality(Planning!ToSet(second)) > Planning!AgentLimit(policy)
    BY <2>2, OrderIs DEF Closed
  <2>4. Planning!Terminal \in Planning!ToSet(second)
    BY <2>3, FrontIs DEF Closed
  <2> HIDE DEF second
  <2>5. Closed(last) /\ last \in Seq(Planning!Agents)
            /\ Planning!ToSet(last) = Planning!ToSet(second)
    <3>1. Closed(last) /\ Planning!ToSet(last) = Planning!ToSet(second) \union {Planning!Terminal}
      BY <2>3, TerminalIs
    <3> QED
      BY <2>4, <3>1 DEF Closed
  <2> HIDE DEF last
  <2>6. CASE Cardinality(Planning!ToSet(second)) > Planning!AgentLimit(policy)
    <3>1. Cardinality(Planning!ToSet(last)) <= Len(last)
              /\ Cardinality(Planning!ToSet(last)) \in Nat
          /\ Len(last) \in Nat
      BY <2>5, PlacesCount
    <3>2. Len(last) > Planning!AgentLimit(policy)
      BY <2>3, <2>5, <2>6, <3>1
    <3> QED
      BY <1>3, <1>6, <2>5, <3>2
  <2>7. CASE Planning!ToSet(second) = Planning!ToSet(repaired) \union {Planning!Terminal}
    <3>1. ASSUME NEW g \in Planning!ToSet(needed) \ kept
          PROVE  MadeIn(last, g)
      <4>1. CASE g \in wanted
        <5>1. g \in Planning!ToSet(lacking) /\ Planning!Producers(g) # {}
          BY <1>4, <4>1
        <5>2. PICK i \in 1..Len(lacking) : lacking[i] = g
          <6> HIDE DEF lacking
          <6> QED
            BY <1>4, <5>1, ToSetIs
        <5>3. MakerOf(g) \in Planning!ToSet(last) /\ MakerOf(g) \in Planning!Producers(g)
          BY <2>2, <2>5, <2>7, <5>1, <5>2, MakerIs
        <5> QED
          BY <5>3 DEF MadeIn
      <4>2. CASE g \notin wanted
        <5>1. g \in Planning!_producible_artifacts(ordered) \/ Planning!Producers(g) = {}
          BY <4>2
        <5>2. MadeIn(ordered, g)
          BY <1>2, <5>1, ProducibleIs DEF MadeIn
        <5> QED
          BY <2>2, <2>5, <2>7, <5>2 DEF MadeIn
      <4> QED
        BY <4>1, <4>2
    <3> QED
      BY <1>3, <1>6, <2>5, <3>1
  <2> QED
    BY <2>3, <2>6, <2>7
<1> QED
  BY <1>5, <1>6

-----------------------------------------------------------------------------
(***************************************************************************)
(* The plan of a chain and of a proposal.                                  *)
(***************************************************************************)
\* The run types the planner knows.
Types == Planning!FullEval \union Planning!Simple \union {"unknown", "jd_gap"}

\* The names of artifacts.
Artifacts == STRING \union {"resume_facts", "jd_requirements", "technical_findings",
                        "project_findings", "risks", "final_report"}

\* The lists of a run type.
LEMMA ListsOfType ==
  ASSUME NEW type \in Types
  PROVE  Planning!Goals(type) \in Seq(Artifacts) /\ Planning!Pipeline(type) \in Seq(Planning!Agents)
<1> DEFINE r1 == <<"resume_facts", "jd_requirements", "technical_findings",
                     "project_findings", "risks", "final_report">>
           r2 == <<"resume_facts", "jd_requirements", "technical_findings", "final_report">>
<1>1. /\ r1 \in Seq(Artifacts) /\ r2 \in Seq(Artifacts)
      /\ <<"resume_facts", "project_findings", "final_report">> \in Seq(Artifacts)
      /\ <<"resume_facts", "risks", "final_report">> \in Seq(Artifacts)
      /\ <<"final_report">> \in Seq(Artifacts)
  <2>1. r1 \in Seq(Artifacts)
    BY DEF Artifacts
  <2>2. r2 \in Seq(Artifacts)
    BY DEF Artifacts
  <2>3. <<"resume_facts", "project_findings", "final_report">> \in Seq(Artifacts)
    BY DEF Artifacts
  <2>4. <<"resume_facts", "risks", "final_report">> \in Seq(Artifacts)
    BY DEF Artifacts
  <2>5. <<"final_report">> \in Seq(Artifacts)
    BY DEF Artifacts
  <2> QED
    BY <2>1, <2>2, <2>3, <2>4, <2>5, Zenon
<1>2. /\ <<"TechAgent", "ProjectAgent", "RiskAgent", "ReportAgent">> \in Seq(Planning!Agents)
      /\ <<"TechAgent", "ReportAgent">> \in Seq(Planning!Agents)
      /\ <<"ProjectAgent", "ReportAgent">> \in Seq(Planning!Agents)
      /\ <<"RiskAgent", "ReportAgent">> \in Seq(Planning!Agents)
      /\ <<"ReportAgent">> \in Seq(Planning!Agents)
  BY DEF Planning!Agents, Planning!Specialists, Planning!Terminal
<1>3. type \in Planning!FullEval \union {"unknown"} \union {"tech_match", "jd_gap"}
        \union {"project_analysis", "project_rewrite", "resume_optimize"}
        \union {"risk_check", "timeline_check", "interview_questions"}
        \union {"evidence_check", "followup"}
  BY DEF Types, Planning!Simple
<1>4. Planning!Goals(type) \in Seq(Artifacts)
  BY <1>1, <1>3 DEF Planning!Goals, Planning!FullEval
<1>5. Planning!Pipeline(type) \in Seq(Planning!Agents)
  BY <1>2, <1>3 DEF Planning!Pipeline, Planning!FullEval
<1> QED
  BY <1>4, <1>5

\* An element is added to a list.
LEMMA AddLastIs ==
  ASSUME NEW E, NEW s \in Seq(E), NEW e \in E
  PROVE  Planning!AddLast(s, e) \in Seq(E) /\ e \in Planning!ToSet(Planning!AddLast(s, e))
<1>1. CASE Planning!Contains(s, e)
  BY <1>1, ContainsIs DEF Planning!AddLast
<1>2. CASE ~Planning!Contains(s, e)
  BY <1>2, Appending DEF Planning!AddLast
<1> QED
  BY <1>1, <1>2

\* The goals of a run are a list.
LEMMA GoalIs ==
  ASSUME NEW type \in Types, NEW sig, NEW policy, policy.required \in Seq(Artifacts)
  PROVE  Planning!resolve_goal_artifacts(type, sig, policy) \in Seq(Artifacts)
<1> DEFINE asked == IF policy.required = <<>> THEN Planning!Goals(type) ELSE policy.required
           unsupported ==
             {g \in {"project_findings", "risks", "jd_requirements"} :
                \/ g = "project_findings" /\ ~sig.projects
                \/ g = "risks" /\ ~sig.timeline
                \/ g = "jd_requirements" /\ ~sig.jd}
           supported == Planning!Only(asked, Planning!ToSet(asked) \ unsupported)
           forced == IF /\ type \in Planning!FullEval
                        /\ sig.projects
                        /\ ~sig.sparse
                     THEN Planning!AddLast(supported, "project_findings") ELSE supported
           core == {"resume_facts", "jd_requirements", "technical_findings",
                    "final_report"}
                   \union (IF sig.projects THEN {"project_findings"} ELSE {})
                   \union (IF sig.timeline THEN {"risks"} ELSE {})
<1>1. asked \in Seq(Artifacts)
  BY ListsOfType
<1> HIDE DEF asked, unsupported
<1>2. supported \in Seq(Artifacts)
  BY <1>1, OnlyIs
<1> HIDE DEF supported, core
<1>3. forced \in Seq(Artifacts)
  <2>1. "project_findings" \in Artifacts
    BY DEF Artifacts
  <2>2. Planning!AddLast(supported, "project_findings") \in Seq(Artifacts)
    BY <1>2, <2>1, AddLastIs
  <2> QED
    BY <1>2, <2>2
<1> HIDE DEF forced
<1>4. Planning!Only(forced, core) \in Seq(Artifacts)
  BY <1>3, OnlyIs
<1>5. Planning!resolve_goal_artifacts(type, sig, policy)
        = IF sig.sparse /\ type \in Planning!FullEval THEN Planning!Only(forced, core) ELSE forced
  BY DEF Planning!resolve_goal_artifacts, forced, supported, asked, core, unsupported
<1> QED
  BY <1>3, <1>4, <1>5

\* The producers of goals are a plan.
LEMMA ChasedIs ==
  ASSUME NEW E, NEW list \in Seq(E), NEW known
  PROVE  Planning!Chased(list, known) \in Seq(Planning!Agents)
<1> DEFINE n == Len(list)
<1>1. n \in Nat
  OBVIOUS
<1>2. \A s \in Seq(Planning!Agents), i \in 1..n :
          Planning!Chase(s, list[i], known) \in Seq(Planning!Agents)
  <2> SUFFICES ASSUME NEW s \in Seq(Planning!Agents), NEW i \in 1..n
               PROVE  Planning!Chase(s, list[i], known) \in Seq(Planning!Agents)
    OBVIOUS
  <2>1. CASE list[i] \in known \/ Planning!Producers(list[i]) = {}
    BY <2>1 DEF Planning!Chase
  <2>2. CASE ~(list[i] \in known \/ Planning!Producers(list[i]) = {})
    <3>1. MakerOf(list[i]) \in Planning!Agents
      BY <2>2, MakerIs
    <3>2. Planning!Chase(s, list[i], known) = Planning!AddLast(s, MakerOf(list[i]))
      BY <2>2, Zenon DEF Planning!Chase, MakerOf
    <3> QED
      BY <3>1, <3>2, AddLastIs
  <2> QED
    BY <2>1, <2>2
<1>3. PICK f \in [0..n -> Seq(Planning!Agents)] :
        /\ f[0] = <<>>
        /\ \A i \in 1..n : f[i] = Planning!Chase(f[i - 1], list[i], known)
        /\ Planning!Chased(list, known) = f[n]
  BY <1>2, ChasedRuns, Zenon
<1> QED
  BY <1>1, <1>3

\* So is the chain from the goals back to the producers.
LEMMA ChainIs ==
  ASSUME NEW type \in Types, NEW sig, NEW policy, policy.required \in Seq(Artifacts),
         policy.maxAgents \in Int, NEW had
  PROVE  Planning!backward_chain(type, sig, policy, had) \in Seq(Planning!Agents)
<1> DEFINE list == Planning!resolve_goal_artifacts(type, sig, policy)
           known == had \union {"resume_facts", "parsed_resume"}
           chase == Planning!Chased(list, known)
           forced == IF /\ Planning!_forced_agents(type, sig, list) # {}
                        /\ "project_findings" \notin had
                     THEN Planning!AddLast(chase, "ProjectAgent") ELSE chase
           m == Planning!Lower(Planning!AgentLimit(policy), Len(Planning!Pipeline(type)))
           cut == SubSeq(Planning!Pipeline(type), 1, m)
<1>1. list \in Seq(Artifacts)
  BY GoalIs
<1> HIDE DEF list, known
<1>2. chase \in Seq(Planning!Agents)
  BY <1>1, ChasedIs
<1> HIDE DEF chase
<1>3. "ProjectAgent" \in Planning!Agents /\ Planning!Terminal \in Planning!Agents
  BY DEF Planning!Agents, Planning!Specialists
<1>4. forced \in Seq(Planning!Agents)
  BY <1>2, <1>3, AddLastIs
<1>5. Planning!Pipeline(type) \in Seq(Planning!Agents)
  BY ListsOfType
<1>6. m \in 0..Len(Planning!Pipeline(type))
  BY <1>5 DEF Planning!Lower, Planning!AgentLimit
<1> HIDE DEF m
<1>7. cut \in Seq(Planning!Agents)
  BY <1>5, <1>6, FirstIs
<1>8. Planning!base_plan(type, policy) \in Seq(Planning!Agents)
  <2>1. Planning!base_plan(type, policy) = Planning!AddLast(cut, Planning!Terminal)
    BY DEF Planning!base_plan, m
  <2> HIDE DEF cut
  <2> QED
    BY <1>3, <1>7, <2>1, AddLastIs
<1>9. Planning!backward_chain(type, sig, policy, had)
        = IF forced = <<>> THEN Planning!base_plan(type, policy) ELSE forced
  BY DEF Planning!backward_chain, chase, list, known
<1> HIDE DEF forced
<1> QED
  BY <1>4, <1>8, <1>9

\* A refined plan is a plan.
LEMMA ProtectedIs ==
  ASSUME NEW refined \in Seq(Planning!Agents), NEW base \in Seq(Planning!Agents), NEW E,
             NEW list \in Seq(E)
  PROVE  Planning!_protect_required_producers(refined, base, list) \in Seq(Planning!Agents)
<1> DEFINE n == Len(list)
<1>0. Planning!Dedup(refined) \in Seq(Planning!Agents)
  BY DedupIs
<1>1. n \in Nat
  OBVIOUS
<1>2. \A s \in Seq(Planning!Agents), i \in 1..n :
          Planning!Protect(s, list[i], base) \in Seq(Planning!Agents)
  <2> SUFFICES ASSUME NEW s \in Seq(Planning!Agents), NEW i \in 1..n
               PROVE  Planning!Protect(s, list[i], base) \in Seq(Planning!Agents)
    OBVIOUS
  <2> DEFINE hits == Planning!Only(base, Planning!Producers(list[i]))
  <2>1. hits \in Seq(Planning!Agents)
    BY OnlyIs
  <2>2. Planning!Protect(s, list[i], base)
          = IF hits = <<>> \/ \E a \in Planning!Producers(list[i]) : Planning!Contains(s, a) THEN s
            ELSE IF s # <<>> /\ Planning!Last(s) = Planning!Terminal
                 THEN Append(Planning!Front(s), Head(hits)) \o <<Planning!Terminal>>
                 ELSE Append(s, Head(hits))
    BY DEF Planning!Protect
  <2> HIDE DEF hits
  <2>3. hits # <<>> => Head(hits) \in Planning!Agents
    BY <2>1
  <2>4. hits # <<>> => Append(s, Head(hits)) \in Seq(Planning!Agents)
    BY <2>3
  <2>5. hits # <<>> /\ s # <<>> => Append(Planning!Front(s), Head(hits)) \o <<Planning!Terminal>>
            \in Seq(Planning!Agents)
    <3> SUFFICES ASSUME hits # <<>>, s # <<>>
                 PROVE  Append(Planning!Front(s), Head(hits)) \o <<Planning!Terminal>>
                            \in Seq(Planning!Agents)
      OBVIOUS
    <3>1. Planning!Front(s) \in Seq(Planning!Agents)
      BY FrontIs
    <3>2. Append(Planning!Front(s), Head(hits)) \in Seq(Planning!Agents)
              /\ <<Planning!Terminal>> \in Seq(Planning!Agents)
      BY <2>3, <3>1 DEF Planning!Agents
    <3> QED
      BY <3>2, ConcatProperties
  <2> QED
    BY <2>2, <2>4, <2>5
<1>3. PICK f \in [0..n -> Seq(Planning!Agents)] :
        /\ f[0] = Planning!Dedup(refined)
        /\ \A i \in 1..n : f[i] = Planning!Protect(f[i - 1], list[i], base)
        /\ Planning!_protect_required_producers(refined, base, list) = f[n]
  BY <1>0, <1>2, ProtectRuns, Zenon
<1> QED
  BY <1>1, <1>3

-----------------------------------------------------------------------------
(***************************************************************************)
(* The groups of a plan.                                                   *)
(***************************************************************************)
Bunch == Seq(Planning!Agents) \ {<<>>}

\* The groups up to each one, put together: all of them are s.
Flattens(fl, groups, s) ==
  /\ fl \in [1..Len(groups) -> Seq(Planning!Agents)]
  /\ groups = <<>> => s = <<>>
  /\ groups # <<>> => fl[1] = groups[1] /\ fl[Len(groups)] = s
  /\ \A j \in 2..Len(groups) : fl[j] = fl[j - 1] \o groups[j]

\* Then they flatten to s.
LEMMA FlattenIs ==
  ASSUME NEW groups \in Seq(Bunch), groups # <<>>, NEW s, NEW fl, Flattens(fl, groups, s)
  PROVE  Planning!FlattenSeq(groups) = s
<1> DEFINE n == Len(groups)
           Fixes(g) == g = [i \in 1..n |-> IF i = 1 THEN groups[i] ELSE g[i - 1] \o groups[i]]
           it == CHOOSE g : Fixes(g)
<1>1. n \in Nat /\ n # 0
  OBVIOUS
<1>2. /\ fl \in [1..n -> Seq(Planning!Agents)] /\ fl[1] = groups[1] /\ fl[n] = s
      /\ \A j \in 2..n : fl[j] = fl[j - 1] \o groups[j]
  BY DEF Flattens
<1>3. Fixes(fl)
  <2>1. \A i \in 1..n : i = 1 \/ i \in 2..n
    BY <1>1
  <2>2. \A i \in 1..n : fl[i] = IF i = 1 THEN groups[i] ELSE fl[i - 1] \o groups[i]
    BY <1>2, <2>1
  <2> QED
    BY <1>2, <2>2
<1>4. Fixes(it)
  <2> HIDE DEF Fixes
  <2> QED
    BY <1>3, Zenon
<1>5. Planning!FlattenSeq(groups) = it[n]
  <2>1. Len(groups) # 0
    BY <1>1
  <2> QED
    BY <2>1, Zenon DEF Planning!FlattenSeq
<1> HIDE DEF it
<1>6. \A i \in 1..n : it[i] = IF i = 1 THEN groups[i] ELSE it[i - 1] \o groups[i]
  BY <1>4
<1> DEFINE P == {i \in 0..n : i = 0 \/ it[i] = fl[i]}
<1>7. 0 \in P
  BY <1>1
<1>8. ASSUME NEW i \in 1..n, i - 1 \in P
      PROVE  i \in P
  <2>1. CASE i = 1
    BY <1>1, <1>2, <1>6, <2>1
  <2>2. CASE i # 1
    <3>1. i \in 2..n /\ i - 1 # 0
      BY <1>1, <2>2
    <3>2. it[i - 1] = fl[i - 1]
      BY <1>8, <3>1
    <3>3. it[i] = fl[i - 1] \o groups[i]
      BY <1>6, <2>2, <3>2
    <3>4. fl[i] = fl[i - 1] \o groups[i]
      BY <1>2, <3>1
    <3>5. it[i] = fl[i]
      BY <3>3, <3>4
    <3> QED
      BY <1>1, <3>5
  <2> QED
    BY <2>1, <2>2
<1>9. n \in P
  <2>1. \A i \in 1..n : i - 1 \in P => i \in P
    BY <1>8
  <2>2. \A i \in 0..n : i \in P
    <3> HIDE DEF P, n
    <3> QED
      BY <1>1, <1>7, <2>1, Climbs
  <2> QED
    BY <1>1, <2>2
<1> QED
  BY <1>1, <1>2, <1>5, <1>9

\* Where an agent goes.
Joins(groups, a, policy) ==
  /\ groups # <<>>
  /\ a \in Planning!Specialists
  /\ Planning!ToSet(Planning!Last(groups)) \subseteq Planning!Specialists
  /\ policy.parallel
  /\ Planning!Dependencies(a) \intersect Planning!ToSet(Planning!Last(groups)) = {}

\* An agent joins the last group or opens one.
LEMMA GroupedIs ==
  ASSUME NEW groups, NEW a, NEW policy
  PROVE  Planning!Grouped(groups, a, policy) = IF Joins(groups, a, policy)
                                      THEN Append(Planning!Front(groups),
                                          Append(Planning!Last(groups), a))
                                      ELSE Append(groups, <<a>>)
BY DEF Planning!Grouped, Joins

\* Groups of one agent more, in detail.
Joined(r, groups, a) ==
  /\ r \in Seq(Bunch) /\ Len(r) = Len(groups) /\ Len(r) \in Nat \ {0}
  /\ \A j \in 1..(Len(r) - 1) : r[j] = groups[j]
  /\ r[Len(r)] = Append(groups[Len(r)], a)

\* A group that is joined.
LEMMA JoiningIs ==
  ASSUME NEW groups \in Seq(Bunch), groups # <<>>, NEW a \in Planning!Agents
  PROVE  Joined(Append(Planning!Front(groups), Append(Planning!Last(groups), a)), groups, a)
<1>1. /\ Planning!Front(groups) \in Seq(Bunch) /\ Len(Planning!Front(groups)) = Len(groups) - 1
      /\ Len(groups) \in Nat \ {0}
      /\ \A i \in 1..(Len(groups) - 1) : Planning!Front(groups)[i] = groups[i]
      /\ Planning!Last(groups) \in Bunch
  BY FrontIs
<1> DEFINE last == Append(Planning!Last(groups), a)
<1>2. last \in Bunch
  <2>1. Planning!Last(groups) \in Seq(Planning!Agents)
    BY <1>1 DEF Bunch
  <2>2. last \in Seq(Planning!Agents) /\ Len(last) = Len(Planning!Last(groups)) + 1
            /\ Len(Planning!Last(groups)) \in Nat
    BY <2>1
  <2>3. last # <<>>
    BY <2>2
  <2> QED
    BY <2>2, <2>3 DEF Bunch
<1>3. last = Append(groups[Len(groups)], a)
  BY DEF Planning!Last
<1> HIDE DEF last
<1>4. /\ Append(Planning!Front(groups), last) \in Seq(Bunch)
      /\ Len(Append(Planning!Front(groups), last)) = Len(groups)
      /\ \A i \in 1..(Len(groups) - 1) : Append(Planning!Front(groups), last)[i] = groups[i]
      /\ Append(Planning!Front(groups), last)[Len(groups)] = last
  BY <1>1, <1>2
<1>5. Joined(Append(Planning!Front(groups), last), groups, a)
  BY <1>1, <1>3, <1>4 DEF Joined
<1> QED
  BY <1>5 DEF last

\* A group that is opened.
LEMMA OpeningIs ==
  ASSUME NEW groups \in Seq(Bunch), NEW a \in Planning!Agents, NEW r, r = Append(groups, <<a>>)
  PROVE  /\ r \in Seq(Bunch) /\ Len(r) = Len(groups) + 1 /\ Len(groups) \in Nat
         /\ \A j \in 1..Len(groups) : r[j] = groups[j]
         /\ r[Len(groups) + 1] = <<a>>
<1>1. <<a>> \in Bunch
  BY DEF Bunch
<1> QED
  BY <1>1

\* What the groups flatten to grows by the agent.
LEMMA GroupedFlattens ==
  ASSUME NEW groups \in Seq(Bunch), NEW a \in Planning!Agents, NEW policy,
         NEW s \in Seq(Planning!Agents), NEW fl, Flattens(fl, groups, s)
  PROVE  /\ Planning!Grouped(groups, a, policy) \in Seq(Bunch)
         /\ Planning!Grouped(groups, a, policy) # <<>>
         /\ \E g : Flattens(g, Planning!Grouped(groups, a, policy), Append(s, a))
<1> DEFINE r == Planning!Grouped(groups, a, policy)
           n == Len(groups)
           t == Append(s, a)
<1>0. n \in Nat /\ t \in Seq(Planning!Agents) /\ t = s \o <<a>> /\ (n = 0 <=> groups = <<>>)
  OBVIOUS
<1>1. /\ fl \in [1..n -> Seq(Planning!Agents)] /\ (groups = <<>> => s = <<>>)
      /\ (groups # <<>> => fl[1] = groups[1] /\ fl[n] = s)
      /\ \A j \in 2..n : fl[j] = fl[j - 1] \o groups[j]
  BY DEF Flattens
<1>2. CASE Joins(groups, a, policy)
  <2>1. groups # <<>>
    BY <1>2 DEF Joins
  <2>2. r = Append(Planning!Front(groups), Append(Planning!Last(groups), a))
    BY <1>2, GroupedIs
  <2> HIDE DEF r
  <2>3. /\ r \in Seq(Bunch) /\ Len(r) = n /\ n \in Nat \ {0}
        /\ \A j \in 1..(n - 1) : r[j] = groups[j]
        /\ r[n] = Append(groups[n], a)
    <3>1. Joined(r, groups, a)
      BY <2>1, <2>2, JoiningIs
    <3> QED
      BY <3>1 DEF Joined
  <2>5. groups[n] \in Seq(Planning!Agents)
    <3>1. groups[n] \in Bunch
      BY <2>3
    <3> QED
      BY <3>1 DEF Bunch
  <2> HIDE DEF n, t
  <2> DEFINE g == [j \in 1..n |-> IF j = n THEN t ELSE fl[j]]
  <2>4. g \in [1..n -> Seq(Planning!Agents)] /\ g[n] = t /\ r # <<>>
    BY <1>0, <1>1, <2>3
  <2>6. g[1] = r[1]
    <3>1. CASE n = 1
      BY <1>1, <2>1, <2>3, <2>4, <3>1 DEF t
    <3>2. CASE n # 1
      <4>1. 1 \in 1..(n - 1) /\ 1 \in 1..n
        BY <2>3, <3>2
      <4> QED
        BY <1>1, <2>1, <2>3, <3>2, <4>1
    <3> QED
      BY <3>1, <3>2
  <2>7. ASSUME NEW j \in 2..n
        PROVE  g[j] = g[j - 1] \o r[j]
    <3>1. j - 1 # n /\ j - 1 \in 1..n /\ j \in 1..n
      BY <2>3
    <3>2. g[j - 1] = fl[j - 1]
      BY <3>1
    <3>3. CASE j # n
      <4>1. j \in 1..(n - 1)
        BY <2>3, <3>1, <3>3
      <4> QED
        BY <1>1, <2>3, <3>1, <3>2, <3>3, <4>1
    <3>4. CASE j = n
      <4>1. s = fl[n - 1] \o groups[n] /\ fl[n - 1] \in Seq(Planning!Agents)
        BY <1>1, <2>1, <3>1, <3>4
      <4>2. t = (fl[n - 1] \o groups[n]) \o <<a>>
        BY <1>0, <4>1
      <4>3. (fl[n - 1] \o groups[n]) \o <<a>> = fl[n - 1] \o (groups[n] \o <<a>>)
        <5> DEFINE x == fl[n - 1]
                   y == groups[n]
                   z == <<a>>
        <5>1. x \in Seq(Planning!Agents) /\ y \in Seq(Planning!Agents) /\ z \in Seq(Planning!Agents)
          BY <2>5, <4>1
        <5> HIDE DEF x, y, z
        <5>2. (x \o y) \o z = x \o (y \o z)
          BY <5>1, ConcatAssociative, SMTT(30)
        <5> QED
          BY <5>2 DEF x, y, z
      <4>4. groups[n] \o <<a>> = Append(groups[n], a)
        BY <2>5
      <4>5. g[n] = t
        BY <2>4
      <4> QED
        BY <2>3, <3>2, <3>4, <4>2, <4>3, <4>4, <4>5
    <3> QED
      BY <3>3, <3>4
  <2> HIDE DEF g
  <2>8. Flattens(g, r, t)
    BY <2>3, <2>4, <2>6, <2>7 DEF Flattens
  <2> QED
    BY <2>3, <2>4, <2>8 DEF r, t
<1>3. CASE ~Joins(groups, a, policy)
  <2>2. r = Append(groups, <<a>>)
    BY <1>3, GroupedIs
  <2> HIDE DEF r
  <2>3. /\ r \in Seq(Bunch) /\ Len(r) = n + 1 /\ n \in Nat
        /\ \A j \in 1..n : r[j] = groups[j]
        /\ r[n + 1] = <<a>>
    BY <2>2, OpeningIs
  <2> HIDE DEF n, t
  <2> DEFINE g == [j \in 1..(n + 1) |-> IF j = n + 1 THEN t ELSE fl[j]]
  <2>4. g \in [1..(n + 1) -> Seq(Planning!Agents)] /\ g[n + 1] = t /\ r # <<>>
    <3>1. \A j \in 1..(n + 1) : j = n + 1 \/ j \in 1..n
      BY <2>3
    <3> QED
      BY <1>0, <1>1, <2>3, <3>1
  <2>6. g[1] = r[1]
    <3>1. CASE n = 0
      <4>1. s = <<>>
        BY <1>0, <1>1, <3>1
      <4>2. t = <<a>>
        BY <4>1 DEF t
      <4> QED
        BY <2>3, <2>4, <3>1, <4>2
    <3>2. CASE n # 0
      <4>1. 1 \in 1..n /\ 1 \in 1..(n + 1) /\ 1 # n + 1
        BY <2>3, <3>2
      <4> QED
        BY <1>0, <1>1, <2>3, <3>2, <4>1
    <3> QED
      BY <3>1, <3>2
  <2>7. ASSUME NEW j \in 2..(n + 1)
        PROVE  g[j] = g[j - 1] \o r[j]
    <3>1. j - 1 # n + 1 /\ j - 1 \in 1..(n + 1) /\ j \in 1..(n + 1) /\ j - 1 \in 1..n
      BY <2>3
    <3>2. g[j - 1] = fl[j - 1]
      BY <3>1
    <3>3. CASE j # n + 1
      <4>1. j \in 2..n /\ j \in 1..n
        BY <2>3, <3>1, <3>3
      <4> QED
        BY <1>1, <2>3, <3>1, <3>2, <3>3, <4>1
    <3>4. CASE j = n + 1
      <4>1. j - 1 = n /\ n # 0
        BY <2>3, <3>1, <3>4
      <4>2. s = fl[n] /\ g[j] = t
        BY <1>0, <1>1, <2>4, <3>4, <4>1
      <4> QED
        BY <1>0, <2>3, <3>2, <3>4, <4>1, <4>2
    <3> QED
      BY <3>3, <3>4
  <2> HIDE DEF g
  <2>8. Flattens(g, r, t)
    BY <2>3, <2>4, <2>6, <2>7 DEF Flattens
  <2> QED
    BY <2>3, <2>4, <2>8 DEF r, t
<1> QED
  BY <1>2, <1>3

\* The members of groups are the agents of A.
Covers(groups, A) ==
  /\ \A j \in 1..Len(groups) : Planning!ToSet(groups[j]) \subseteq A
  /\ \A x \in A : \E j \in 1..Len(groups) : x \in Planning!ToSet(groups[j])

\* The groups hold one agent more after each step.
LEMMA GroupedCovers ==
  ASSUME NEW groups \in Seq(Bunch), NEW a \in Planning!Agents, NEW policy, NEW A, Covers(groups, A)
  PROVE  Covers(Planning!Grouped(groups, a, policy), A \union {a})
<1> DEFINE r == Planning!Grouped(groups, a, policy)
<1>1. \A j \in 1..Len(groups) : groups[j] \in Seq(Planning!Agents)
  BY DEF Bunch
<1>2. CASE Joins(groups, a, policy)
  <2>1. groups # <<>>
    BY <1>2 DEF Joins
  <2>2. r = Append(Planning!Front(groups), Append(Planning!Last(groups), a))
    BY <1>2, GroupedIs
  <2> HIDE DEF r
  <2>3. /\ r \in Seq(Bunch) /\ Len(r) = Len(groups) /\ Len(r) \in Nat \ {0}
        /\ \A j \in 1..(Len(r) - 1) : r[j] = groups[j]
        /\ r[Len(r)] = Append(groups[Len(r)], a)
    BY <2>1, <2>2, JoiningIs DEF Joined
  <2>4. Planning!ToSet(r[Len(r)]) = Planning!ToSet(groups[Len(r)]) \union {a}
    <3>1. groups[Len(r)] \in Seq(Planning!Agents)
      BY <1>1, <2>3
    <3>2. Planning!ToSet(Append(groups[Len(r)], a)) = Planning!ToSet(groups[Len(r)]) \union {a}
      BY <3>1, Appending
    <3> QED
      BY <2>3, <3>2
  <2>5. \A j \in 1..Len(r) : Planning!ToSet(r[j]) = IF j = Len(r)
            THEN Planning!ToSet(groups[j]) \union {a}
                                           ELSE Planning!ToSet(groups[j])
    <3>1. \A j \in 1..Len(r) : j = Len(r) \/ j \in 1..(Len(r) - 1)
      BY <2>3
    <3>2. \A j \in 1..(Len(r) - 1) : j # Len(r)
      BY <2>3
    <3> QED
      BY <2>3, <2>4, <3>1, <3>2
  <2>6. Len(r) \in 1..Len(r)
    BY <2>3
  <2>7. \A j \in 1..Len(r) : Planning!ToSet(r[j]) \subseteq A \union {a}
    BY <2>3, <2>5 DEF Covers
  <2>8. ASSUME NEW x \in A \union {a}
        PROVE  \E j \in 1..Len(r) : x \in Planning!ToSet(r[j])
    <3>1. CASE x = a
      BY <2>5, <2>6, <3>1
    <3>2. CASE x \in A
      <4>1. PICK j \in 1..Len(r) : x \in Planning!ToSet(groups[j])
        BY <2>3, <3>2 DEF Covers
      <4> QED
        BY <2>5, <4>1
    <3> QED
      BY <3>1, <3>2
  <2> QED
    BY <2>7, <2>8 DEF Covers, r
<1>3. CASE ~Joins(groups, a, policy)
  <2>2. r = Append(groups, <<a>>)
    BY <1>3, GroupedIs
  <2> HIDE DEF r
  <2>3. /\ r \in Seq(Bunch) /\ Len(r) = Len(groups) + 1 /\ Len(groups) \in Nat
        /\ \A j \in 1..Len(groups) : r[j] = groups[j]
        /\ r[Len(groups) + 1] = <<a>>
    BY <2>2, OpeningIs
  <2>4. Planning!ToSet(<<a>>) = {a}
    BY DEF Planning!ToSet
  <2>5. \A j \in 1..Len(r) : j = Len(groups) + 1 \/ j \in 1..Len(groups)
    BY <2>3
  <2>6. Len(groups) + 1 \in 1..Len(r) /\ \A j \in 1..Len(groups) : j \in 1..Len(r)
    BY <2>3
  <2>7. \A j \in 1..Len(r) : Planning!ToSet(r[j]) \subseteq A \union {a}
    BY <2>3, <2>4, <2>5 DEF Covers
  <2>8. ASSUME NEW x \in A \union {a}
        PROVE  \E j \in 1..Len(r) : x \in Planning!ToSet(r[j])
    <3>1. CASE x = a
      BY <2>3, <2>4, <2>6, <3>1
    <3>2. CASE x \in A
      <4>1. PICK j \in 1..Len(groups) : x \in Planning!ToSet(groups[j])
        BY <3>2 DEF Covers
      <4>2. j \in 1..Len(r) /\ r[j] = groups[j]
        BY <2>3, <2>6, <4>1
      <4> QED
        BY <4>1, <4>2
    <3> QED
      BY <3>1, <3>2
  <2> QED
    BY <2>7, <2>8 DEF Covers, r
<1> QED
  BY <1>2, <1>3

\* The groups of a closed plan run the plan, and its terminal agent after all
\* the others.
GroupsRight(s, groups) ==
  /\ Planning!FlattenSeq(groups) = s
  /\ \A i \in DOMAIN groups : \A a \in Planning!ToSet(groups[i]) :
        \A d \in Planning!Dependencies(a) \intersect Planning!ToSet(s) :
           \E j \in 1..(i - 1) : Planning!Contains(groups[j], d)

\* The groups of a closed plan are right.
LEMMA GroupsAreRight ==
  ASSUME NEW s, Closed(s), NEW policy
  PROVE  GroupsRight(s, Planning!_parallel_groups(s, policy))
<1> DEFINE n == Len(s)
           upto(i) == {s[j] : j \in 1..i}
<1>1. s \in Seq(Planning!Agents) /\ s # <<>> /\ n \in Nat /\ n # 0
  BY DEF Closed
<1>2. s[n] = Planning!Terminal /\ \A i \in 1..n : s[i] \in Planning!Agents
          /\ (s[i] = Planning!Terminal => i = n)
  BY <1>1 DEF Closed, Planning!Last
<1>3. \A gs \in Seq(Bunch), i \in 1..n : Planning!Grouped(gs, s[i], policy) \in Seq(Bunch)
  <2> SUFFICES ASSUME NEW gs \in Seq(Bunch), NEW i \in 1..n
               PROVE  Planning!Grouped(gs, s[i], policy) \in Seq(Bunch)
    OBVIOUS
  <2>1. s[i] \in Planning!Agents
    BY <1>2
  <2>2. CASE Joins(gs, s[i], policy)
    <3>1. gs # <<>>
      BY <2>2 DEF Joins
    <3> QED
      BY <2>1, <2>2, <3>1, GroupedIs, JoiningIs DEF Joined
  <2>3. CASE ~Joins(gs, s[i], policy)
    BY <2>1, <2>3, GroupedIs, OpeningIs
  <2> QED
    BY <2>2, <2>3
<1>4. PICK f \in [0..n -> Seq(Bunch)] :
        /\ f[0] = <<>>
        /\ \A i \in 1..n : f[i] = Planning!Grouped(f[i - 1], s[i], policy)
        /\ Planning!_parallel_groups(s, policy) = f[n]
  BY <1>1, <1>3, GroupsRun, Zenon DEF Bunch
<1> DEFINE P == {i \in 0..n : /\ i = 0 \/ f[i] # <<>>
                              /\ \E fl : Flattens(fl, f[i], SubSeq(s, 1, i))
                              /\ Covers(f[i], upto(i))}
<1>5. 0 \in P
  <2>1. SubSeq(s, 1, 0) = <<>>
    BY <1>1, FirstIs
  <2>2. Flattens([j \in 1..0 |-> <<>>], <<>>, <<>>)
    BY DEF Flattens
  <2>3. Covers(<<>>, {}) /\ upto(0) = {}
    BY DEF Covers
  <2>4. Covers(f[0], upto(0))
    <3> HIDE DEF upto
    <3> QED
      BY <1>4, <2>3
  <2>5. \E fl : Flattens(fl, f[0], SubSeq(s, 1, 0))
    <3> HIDE DEF upto
    <3> QED
      BY <1>4, <2>1, <2>2, Zenon
  <2> HIDE DEF upto
  <2> QED
    BY <1>1, <2>4, <2>5
<1>6. ASSUME NEW i \in 1..n, i - 1 \in P
      PROVE  i \in P
  <2>1. i - 1 \in 0..n /\ i \in 0..n
    BY <1>1
  <2>2. f[i - 1] \in Seq(Bunch) /\ f[i] = Planning!Grouped(f[i - 1], s[i], policy)
            /\ s[i] \in Planning!Agents
    BY <1>2, <1>4, <2>1
  <2>3. PICK fl : Flattens(fl, f[i - 1], SubSeq(s, 1, i - 1))
    BY <1>6
  <2>4. SubSeq(s, 1, i - 1) \in Seq(Planning!Agents)
    BY <1>1, <2>1, FirstIs
  <2>5. Append(SubSeq(s, 1, i - 1), s[i]) = SubSeq(s, 1, i)
    <3>1. /\ SubSeq(s, 1, i - 1) \in Seq(Planning!Agents) /\ Len(SubSeq(s, 1, i - 1)) = i - 1
          /\ \A j \in 1..(i - 1) : SubSeq(s, 1, i - 1)[j] = s[j]
      BY <1>1, <2>1, FirstIs
    <3>2. /\ SubSeq(s, 1, i) \in Seq(Planning!Agents) /\ Len(SubSeq(s, 1, i)) = i
          /\ \A j \in 1..i : SubSeq(s, 1, i)[j] = s[j]
      BY <1>1, <2>1, FirstIs
    <3> DEFINE x == SubSeq(s, 1, i - 1)
               y == SubSeq(s, 1, i)
    <3> HIDE DEF x, y
    <3>3. /\ x \in Seq(Planning!Agents) /\ Len(x) = i - 1 /\ \A j \in 1..(i - 1) : x[j] = s[j]
          /\ y \in Seq(Planning!Agents) /\ Len(y) = i /\ \A j \in 1..i : y[j] = s[j]
      BY <3>1, <3>2 DEF x, y
    <3>4. Append(x, s[i]) \in Seq(Planning!Agents) /\ Len(Append(x, s[i])) = i
      BY <2>1, <2>2, <3>3
    <3>5. \A j \in 1..i : Append(x, s[i])[j] = y[j]
      BY <2>1, <3>3
    <3>6. Append(x, s[i]) = y
      BY <3>3, <3>4, <3>5
    <3> QED
      BY <3>6 DEF x, y
  <2>6. f[i] # <<>> /\ \E g : Flattens(g, f[i], SubSeq(s, 1, i))
    <3>1. /\ Planning!Grouped(f[i - 1], s[i], policy) # <<>>
          /\ \E g : Flattens(g, Planning!Grouped(f[i - 1], s[i], policy),
                 Append(SubSeq(s, 1, i - 1), s[i]))
      BY <2>2, <2>3, <2>4, GroupedFlattens
    <3> QED
      BY <2>2, <2>5, <3>1
  <2>7. Covers(f[i], upto(i))
    <3>1. Covers(f[i - 1], upto(i - 1))
      BY <1>6
    <3>2. upto(i) = upto(i - 1) \union {s[i]}
      <4>1. \A j \in 1..i : j = i \/ j \in 1..(i - 1)
        BY <2>1
      <4>2. i \in 1..i /\ \A j \in 1..(i - 1) : j \in 1..i
        BY <2>1
      <4> QED
        BY <4>1, <4>2
    <3> HIDE DEF upto
    <3>3. Covers(Planning!Grouped(f[i - 1], s[i], policy), upto(i - 1) \union {s[i]})
      BY <2>2, <3>1, GroupedCovers
    <3> QED
      BY <2>2, <3>2, <3>3
  <2> QED
    BY <2>1, <2>6, <2>7
<1>7. \A i \in 0..n : i \in P
  <2>1. \A i \in 1..n : i - 1 \in P => i \in P
    BY <1>6
  <2> HIDE DEF P, n
  <2> QED
    BY <1>1, <1>5, <2>1, Climbs
<1>7a. \A i \in 0..n :
          /\ i = 0 \/ f[i] # <<>>
          /\ \E fl : Flattens(fl, f[i], SubSeq(s, 1, i))
          /\ Covers(f[i], upto(i))
  <2> HIDE DEF upto, n
  <2> QED
    BY <1>7
<1>7b. n \in 0..n /\ n - 1 \in 0..n
  BY <1>1
<1>8. Planning!FlattenSeq(f[n]) = s
  <2>1. f[n] # <<>> /\ f[n] \in Seq(Bunch) /\ \E fl : Flattens(fl, f[n], SubSeq(s, 1, n))
    <3> HIDE DEF upto, n
    <3> QED
      BY <1>1, <1>4, <1>7a, <1>7b
  <2>2. SubSeq(s, 1, n) = s
    BY <1>1, SubSeqFull
  <2> QED
    BY <2>1, <2>2, FlattenIs
<1> DEFINE before == f[n - 1]
<1>9. before \in Seq(Bunch) /\ Covers(before, upto(n - 1))
  <2> HIDE DEF upto, n
  <2> QED
    BY <1>1, <1>4, <1>7a, <1>7b
<1>10. \A x \in upto(n - 1) : x # Planning!Terminal
  BY <1>1, <1>2
<1>11. \A x \in Planning!ToSet(s) : x = Planning!Terminal \/ x \in upto(n - 1)
  <2> SUFFICES ASSUME NEW x \in Planning!ToSet(s) PROVE x = Planning!Terminal \/ x \in upto(n - 1)
    OBVIOUS
  <2>1. PICK j \in 1..n : s[j] = x
    BY <1>1, ToSetIs
  <2>2. j = n \/ j \in 1..(n - 1)
    BY <1>1
  <2> QED
    BY <1>2, <2>1, <2>2
<1>12. f[n] = Append(before, <<Planning!Terminal>>)
  <2>1. n \in 1..n /\ f[n] = Planning!Grouped(f[n - 1], Planning!Terminal, policy)
    BY <1>1, <1>2, <1>4
  <2>2. ~Joins(before, Planning!Terminal, policy)
    BY DEF Joins, Planning!Terminal, Planning!Specialists
  <2> QED
    BY <2>1, <2>2, GroupedIs
<1> HIDE DEF before, upto, n
<1>13. ASSUME NEW i \in DOMAIN f[n], NEW a \in Planning!ToSet(f[n][i]),
              NEW d \in Planning!Dependencies(a) \intersect Planning!ToSet(s)
       PROVE  \E j \in 1..(i - 1) : Planning!Contains(f[n][j], d)
  <2>1. a = Planning!Terminal /\ d \in Planning!Specialists
    BY DEF Planning!Dependencies
  <2>2. /\ f[n] \in Seq(Bunch) /\ Len(f[n]) = Len(before) + 1 /\ Len(before) \in Nat
        /\ \A j \in 1..Len(before) : f[n][j] = before[j]
    <3>1. Planning!Terminal \in Planning!Agents
      BY DEF Planning!Agents
    <3> QED
      BY <1>9, <1>12, <3>1, OpeningIs
  <2>3. i \in 1..(Len(before) + 1)
    BY <2>2
  <2>4. i = Len(before) + 1
    <3> SUFFICES ASSUME i # Len(before) + 1 PROVE FALSE
      OBVIOUS
    <3>1. i \in 1..Len(before)
      BY <2>2, <2>3
    <3>2. a \in upto(n - 1)
      BY <1>9, <2>2, <3>1 DEF Covers
    <3> QED
      BY <1>10, <2>1, <3>2
  <2>5. d # Planning!Terminal /\ d \in upto(n - 1)
    BY <1>11, <2>1 DEF Planning!Specialists, Planning!Terminal
  <2>6. PICK j \in 1..Len(before) : d \in Planning!ToSet(before[j])
    BY <1>9, <2>5 DEF Covers
  <2>7. j \in 1..(i - 1) /\ f[n][j] = before[j] /\ before[j] \in Bunch
    BY <1>9, <2>2, <2>4
  <2>8. Planning!Contains(f[n][j], d)
    BY <2>6, <2>7, ContainsIs DEF Bunch
  <2> QED
    BY <2>7, <2>8
<1> QED
  BY <1>4, <1>8, <1>13 DEF GroupsRight

-----------------------------------------------------------------------------
(***************************************************************************)
(* What a revision reuses.                                                 *)
(***************************************************************************)
\* What may be invalidated along with names.
Reach(names) == names \union {"parsed_resume"} \union Artifacts

\* What one step of the spreading finds.
LEMMA SpreadIs ==
  ASSUME NEW found, NEW x
  PROVE  x \in Planning!Spread(found)
           <=> x \in found \/ \E a \in found : x \in Planning!ARTIFACT_INVALIDATION_GRAPH(a)
BY DEF Planning!Spread

\* What is invalidated with each artifact.
LEMMA GraphIs ==
  ASSUME NEW a
  PROVE  /\ Planning!ARTIFACT_INVALIDATION_GRAPH(a) \subseteq Artifacts
         /\ "resume_facts" \in Planning!ARTIFACT_INVALIDATION_GRAPH(a) => a = "parsed_resume"
         /\ "jd_requirements" \in Planning!ARTIFACT_INVALIDATION_GRAPH(a) => a = "resume_facts"
         /\ "technical_findings" \in Planning!ARTIFACT_INVALIDATION_GRAPH(a)
              => a \in {"resume_facts", "jd_requirements"}
         /\ "project_findings" \in Planning!ARTIFACT_INVALIDATION_GRAPH(a)
              => a \in {"resume_facts", "jd_requirements"}
         /\ "risks" \in Planning!ARTIFACT_INVALIDATION_GRAPH(a) => a = "resume_facts"
         /\ "parsed_resume" \notin Planning!ARTIFACT_INVALIDATION_GRAPH(a)
BY DEF Planning!ARTIFACT_INVALIDATION_GRAPH, Artifacts

\* The artifacts from which others are made.
Sources == {"parsed_resume", "resume_facts", "jd_requirements",
            "technical_findings", "project_findings", "risks"}

\* The sets a spread goes through.
Spreading(f, names, final) ==
  /\ f[0] = names /\ f[1] = Planning!Spread(f[0]) /\ f[2] = Planning!Spread(f[1])
  /\ f[3] = Planning!Spread(f[2]) /\ f[4] = Planning!Spread(f[3]) /\ final = f[4]

\* Four steps, one after the other.
LEMMA FourSteps ==
  ASSUME NEW V, NEW names \in V, NEW list \in Seq(Nat), Len(list) = 4,
         \A s \in V, i \in 1..Len(list) : Planning!Spread(s) \in V
  PROVE  \E f : Spreading(f, names, Planning!Expanded(names, list))
<1>1. PICK f \in [0..Len(list) -> V] :
        /\ f[0] = names
        /\ \A i \in 1..Len(list) : f[i] = Planning!Spread(f[i - 1])
        /\ Planning!Expanded(names, list) = f[Len(list)]
  <2>1. Spreads(names, list, V)
    BY SpreadRuns
  <2> QED
    BY <2>1 DEF Spreads
<1>2. \A i \in 1..4 : f[i] = Planning!Spread(f[i - 1])
  BY <1>1
<1>3. Spreading(f, names, Planning!Expanded(names, list))
  BY <1>1, <1>2 DEF Spreading
<1> QED
  BY <1>3

\* Four steps reach all that is made from something invalidated.
LEMMA ExpandedIs ==
  ASSUME NEW names
  PROVE  /\ names \subseteq Planning!expand_invalidated_artifacts(names)
         /\ \A a \in Sources : a \in Planning!expand_invalidated_artifacts(names)
              => Planning!ARTIFACT_INVALIDATION_GRAPH(a)
                  \subseteq Planning!expand_invalidated_artifacts(names)
<1> DEFINE list == <<1, 2, 3, 4>>
           U == SUBSET Reach(names)
<1>1. list \in Seq(Nat) /\ Len(list) = 4 /\ names \in U
  BY DEF Reach
<1>2. \A s \in U, i \in 1..Len(list) : Planning!Spread(s) \in U
  BY GraphIs, SpreadIs DEF Reach
<1> HIDE DEF U
<1>3. PICK f : Spreading(f, names, Planning!Expanded(names, list))
  <2> HIDE DEF list
  <2> QED
    BY <1>1, <1>2, FourSteps
<1>4. /\ f[0] = names /\ f[1] = Planning!Spread(f[0]) /\ f[2] = Planning!Spread(f[1])
      /\ f[3] = Planning!Spread(f[2]) /\ f[4] = Planning!Spread(f[3])
      /\ Planning!expand_invalidated_artifacts(names) = f[4]
  BY <1>3, Zenon DEF Spreading, Planning!expand_invalidated_artifacts
<1> DEFINE f0 == f[0]
           f1 == f[1]
           f2 == f[2]
           f3 == f[3]
           f4 == f[4]
           G(a) == Planning!ARTIFACT_INVALIDATION_GRAPH(a)
<1>5. \A x : /\ x \in f1 <=> x \in f0 \/ \E a \in f0 : x \in G(a)
             /\ x \in f2 <=> x \in f1 \/ \E a \in f1 : x \in G(a)
             /\ x \in f3 <=> x \in f2 \/ \E a \in f2 : x \in G(a)
             /\ x \in f4 <=> x \in f3 \/ \E a \in f3 : x \in G(a)
  BY <1>4, SpreadIs
<1> HIDE DEF f0, f1, f2, f3, f4, G
<1>6. f0 \subseteq f1 /\ f1 \subseteq f2 /\ f2 \subseteq f3 /\ f3 \subseteq f4
  BY <1>5
<1>7. /\ \A a \in f0 : G(a) \subseteq f1
      /\ \A a \in f1 : G(a) \subseteq f2
      /\ \A a \in f2 : G(a) \subseteq f3
      /\ \A a \in f3 : G(a) \subseteq f4
  BY <1>5
<1>8. \A a : /\ "resume_facts" \in G(a) => a = "parsed_resume"
             /\ "jd_requirements" \in G(a) => a = "resume_facts"
             /\ "technical_findings" \in G(a) => a \in {"resume_facts", "jd_requirements"}
             /\ "project_findings" \in G(a) => a \in {"resume_facts", "jd_requirements"}
             /\ "risks" \in G(a) => a = "resume_facts"
             /\ "parsed_resume" \notin G(a)
  BY GraphIs DEF G
<1>9. "parsed_resume" \in f4 => "parsed_resume" \in f0
  BY <1>5, <1>8
<1>10. "resume_facts" \in f4 => "resume_facts" \in f1
  <2>1. "parsed_resume" \in f3 => "parsed_resume" \in f0
    BY <1>6, <1>9
  <2>2. "parsed_resume" \in f2 => "parsed_resume" \in f0
    BY <1>6, <1>9
  <2>3. "parsed_resume" \in f1 => "parsed_resume" \in f0
    BY <1>6, <1>9
  <2>4. \A x : x \in f0 /\ "resume_facts" \in G(x) => "resume_facts" \in f1
    BY <1>7
  <2>5. "resume_facts" \in f2 => "resume_facts" \in f1
    BY <1>5, <1>8, <2>3, <2>4
  <2>6. "resume_facts" \in f3 => "resume_facts" \in f1
    BY <1>5, <1>8, <2>2, <2>4, <2>5
  <2> QED
    BY <1>5, <1>8, <2>1, <2>4, <2>6
<1>11. "jd_requirements" \in f4 => "jd_requirements" \in f2
  <2>1. "resume_facts" \in f3 => "resume_facts" \in f1
    BY <1>6, <1>10
  <2>2. "resume_facts" \in f2 => "resume_facts" \in f1
    BY <1>6, <1>10
  <2>4. \A x : x \in f1 /\ "jd_requirements" \in G(x) => "jd_requirements" \in f2
    BY <1>7
  <2>5. "jd_requirements" \in f3 => "jd_requirements" \in f2
    BY <1>5, <1>8, <2>2, <2>4
  <2> QED
    BY <1>5, <1>8, <2>1, <2>4, <2>5
<1>12. \A x \in {"technical_findings", "project_findings", "risks"} : x \in f4 => x \in f3
  <2>1. "resume_facts" \in f3 => "resume_facts" \in f2
    BY <1>6, <1>10
  <2>2. "jd_requirements" \in f3 => "jd_requirements" \in f2
    BY <1>6, <1>11
  <2> SUFFICES ASSUME NEW x \in {"technical_findings", "project_findings", "risks"},
                      x \in f4, x \notin f3
               PROVE  FALSE
    OBVIOUS
  <2>3. PICK a \in f3 : x \in G(a)
    BY <1>5
  <2>4. a \in {"resume_facts", "jd_requirements"}
    BY <1>8, <2>3
  <2>5. a \in f2
    BY <2>1, <2>2, <2>3, <2>4
  <2> QED
    BY <1>7, <2>3, <2>5
<1>13. ASSUME NEW a \in Sources, a \in f4
       PROVE  G(a) \subseteq f4
  <2>1. a \in f3
    BY <1>6, <1>9, <1>10, <1>11, <1>12, <1>13 DEF Sources
  <2> QED
    BY <1>7, <2>1
<1>14. Planning!expand_invalidated_artifacts(names) = f4 /\ names = f0
  BY <1>4 DEF f4, f0
<1> QED
  BY <1>6, <1>13, <1>14 DEF G

-----------------------------------------------------------------------------
(***************************************************************************)
(* The division of the calls.                                              *)
(***************************************************************************)
\* The calls of the agents of s, one by one.
CallsOf(s, q, a) == IF a \in s THEN q[a] ELSE 0
\* The calls of all agents.
Total(s, q) == CallsOf(s, q, "TechAgent") + CallsOf(s, q, "ProjectAgent")
               + CallsOf(s, q, "RiskAgent") + CallsOf(s, q, "ReportAgent")
               + CallsOf(s, q, "CoordinatorAgent")

\* The agents, one by one.
LEMMA AgentsAre ==
  Planning!Agents = {"TechAgent", "ProjectAgent", "RiskAgent", "ReportAgent", "CoordinatorAgent"}
BY DEF Planning!Agents, Planning!Specialists, Planning!Terminal

\* The calls of all agents, when those of one more are counted.
LEMMA TotalIs ==
  ASSUME NEW s \in SUBSET Planning!Agents, NEW q, \A a \in s : q[a] \in Nat
  PROVE  /\ Total(s, q) \in Nat
         /\ \A x \in s : Total(s, q) = q[x] + Total(s \ {x}, q)
<1>1. \A a : CallsOf(s, q, a) \in Nat
  BY DEF CallsOf
<1>2. \A x, a : CallsOf(s \ {x}, q, a) = IF a = x THEN 0 ELSE CallsOf(s, q, a)
  BY DEF CallsOf
<1>3. \A x \in s : CallsOf(s, q, x) = q[x]
  BY DEF CallsOf
<1>4. Total(s, q) \in Nat
  BY <1>1 DEF Total
<1>5. ASSUME NEW x \in s
      PROVE  Total(s, q) = q[x] + Total(s \ {x}, q)
  <2>1. x \in {"TechAgent", "ProjectAgent", "RiskAgent", "ReportAgent", "CoordinatorAgent"}
    BY AgentsAre
  <2> DEFINE t(a) == CallsOf(s, q, a)
             u(a) == CallsOf(s \ {x}, q, a)
  <2>0. /\ \A a : t(a) \in Nat /\ u(a) = IF a = x THEN 0 ELSE t(a)
        /\ t(x) = q[x]
        /\ Total(s, q) = t("TechAgent") + t("ProjectAgent") + t("RiskAgent")
                           + t("ReportAgent") + t("CoordinatorAgent")
        /\ Total(s \ {x}, q) = u("TechAgent") + u("ProjectAgent") + u("RiskAgent")
                               + u("ReportAgent") + u("CoordinatorAgent")
    BY <1>1, <1>2, <1>3 DEF Total
  <2> HIDE DEF t, u
  <2>2. CASE x = "TechAgent"
    <3>1. /\ u("TechAgent") = 0
          /\ u("ProjectAgent") = t("ProjectAgent")
          /\ u("RiskAgent") = t("RiskAgent")
          /\ u("ReportAgent") = t("ReportAgent")
          /\ u("CoordinatorAgent") = t("CoordinatorAgent")
      BY <2>0, <2>2
    <3> QED
      BY <2>0, <2>2, <3>1
  <2>3. CASE x = "ProjectAgent"
    <3>1. /\ u("TechAgent") = t("TechAgent")
          /\ u("ProjectAgent") = 0
          /\ u("RiskAgent") = t("RiskAgent")
          /\ u("ReportAgent") = t("ReportAgent")
          /\ u("CoordinatorAgent") = t("CoordinatorAgent")
      BY <2>0, <2>3
    <3> QED
      BY <2>0, <2>3, <3>1
  <2>4. CASE x = "RiskAgent"
    <3>1. /\ u("TechAgent") = t("TechAgent")
          /\ u("ProjectAgent") = t("ProjectAgent")
          /\ u("RiskAgent") = 0
          /\ u("ReportAgent") = t("ReportAgent")
          /\ u("CoordinatorAgent") = t("CoordinatorAgent")
      BY <2>0, <2>4
    <3> QED
      BY <2>0, <2>4, <3>1
  <2>5. CASE x = "ReportAgent"
    <3>1. /\ u("TechAgent") = t("TechAgent")
          /\ u("ProjectAgent") = t("ProjectAgent")
          /\ u("RiskAgent") = t("RiskAgent")
          /\ u("ReportAgent") = 0
          /\ u("CoordinatorAgent") = t("CoordinatorAgent")
      BY <2>0, <2>5
    <3> QED
      BY <2>0, <2>5, <3>1
  <2>6. CASE x = "CoordinatorAgent"
    <3>1. /\ u("TechAgent") = t("TechAgent")
          /\ u("ProjectAgent") = t("ProjectAgent")
          /\ u("RiskAgent") = t("RiskAgent")
          /\ u("ReportAgent") = t("ReportAgent")
          /\ u("CoordinatorAgent") = 0
      BY <2>0, <2>6
    <3> QED
      BY <2>0, <2>6, <3>1
  <2> QED
    BY <2>1, <2>2, <2>3, <2>4, <2>5, <2>6
<1> QED
  BY <1>4, <1>5

\* What is spent is the total of the agents.
LEMMA SpentIs ==
  ASSUME NEW S \in SUBSET Planning!Agents, NEW q \in [S -> Nat]
  PROVE  Planning!Spent(q) = Total(S, q) /\ Planning!Spent(q) \in Nat
<1> DEFINE one == [a \in Planning!Agents |-> 1]
           pick(s) == CHOOSE x \in s : TRUE
           Fixes(g) == g = [s \in SUBSET S |->
                              IF s = {} THEN 0 ELSE q[pick(s)] + g[s \ {pick(s)}]]
           it == CHOOSE g : Fixes(g)
           sum == [s \in SUBSET S |-> Total(s, q)]
<1>1. \A s \in SUBSET S : s \in SUBSET Planning!Agents /\ \A a \in s : q[a] \in Nat
          /\ one[a] \in Nat
  OBVIOUS
<1>2. \A s \in SUBSET S : s # {} => pick(s) \in s /\ s \ {pick(s)} \in SUBSET S
  OBVIOUS
<1> HIDE DEF pick
<1>3. Fixes(sum)
  <2>1. ASSUME NEW s \in SUBSET S
        PROVE  Total(s, q) = IF s = {} THEN 0 ELSE q[pick(s)] + sum[s \ {pick(s)}]
    <3>1. CASE s = {}
      BY <3>1 DEF Total, CallsOf
    <3>2. CASE s # {}
      <4>1. pick(s) \in s /\ s \ {pick(s)} \in SUBSET S
        BY <1>2, <3>2
      <4>2. Total(s, q) = q[pick(s)] + Total(s \ {pick(s)}, q)
        BY <1>1, <4>1, TotalIs
      <4> QED
        BY <3>2, <4>1, <4>2
    <3> QED
      BY <3>1, <3>2
  <2> QED
    BY <2>1
<1>4. Fixes(it)
  <2> HIDE DEF Fixes
  <2> QED
    BY <1>3, Zenon
<1>5. Planning!Spent(q) = it[S]
  <2>1. DOMAIN q = S
    OBVIOUS
  <2>2. Planning!Spent(q) = it[DOMAIN q]
    BY <2>1, Zenon DEF Planning!Spent, Planning!FoldFunction, Planning!FoldFunctionOnSet,
           Planning!MapThenFoldSet, pick
  <2> QED
    BY <2>1, <2>2
<1> HIDE DEF it
<1>6. \A s \in SUBSET S : it[s] = IF s = {} THEN 0 ELSE q[pick(s)] + it[s \ {pick(s)}]
  BY <1>4
<1> HIDE DEF one, sum, Fixes
<1> DEFINE bad == {s \in SUBSET S : it[s] # Total(s, q)}
           sizes == {Total(s, one) : s \in bad}
<1>7. bad = {}
  <2> SUFFICES ASSUME bad # {} PROVE FALSE
    OBVIOUS
  <2>1. sizes \subseteq Nat /\ sizes # {}
    <3>1. \A s \in bad : Total(s, one) \in Nat
      BY <1>1, TotalIs
    <3> QED
      BY <3>1
  <2>2. PICK m \in sizes : \A k \in sizes : m <= k
    BY <2>1, Lowest
  <2>3. PICK s \in bad : m = Total(s, one)
    BY <2>2
  <2>4. s \in SUBSET S /\ it[s] # Total(s, q)
    BY <2>3
  <2>5. s # {}
    <3> SUFFICES ASSUME s = {} PROVE FALSE
      OBVIOUS
    <3>1. Total({}, q) = 0
      BY DEF Total, CallsOf
    <3> QED
      BY <1>6, <2>4, <3>1
  <2>6. pick(s) \in s /\ s \ {pick(s)} \in SUBSET S
    BY <1>2, <2>4, <2>5
  <2>7. Total(s, one) = one[pick(s)] + Total(s \ {pick(s)}, one)
        /\ Total(s, q) = q[pick(s)] + Total(s \ {pick(s)}, q)
    BY <1>1, <2>4, <2>6, TotalIs
  <2>8. one[pick(s)] = 1
    BY <1>1, <2>4, <2>6 DEF one
  <2>9. Total(s \ {pick(s)}, one) \in Nat /\ ~(m <= Total(s \ {pick(s)}, one))
    <3>1. Total(s \ {pick(s)}, one) \in Nat
      BY <1>1, <2>6, TotalIs
    <3> QED
      BY <2>3, <2>7, <2>8, <3>1
  <2>10. s \ {pick(s)} \notin bad
    BY <2>2, <2>9
  <2>11. it[s \ {pick(s)}] = Total(s \ {pick(s)}, q)
    BY <2>6, <2>10
  <2> QED
    BY <1>6, <2>4, <2>5, <2>7, <2>11
<1>8. it[S] = Total(S, q)
  BY <1>7
<1>9. Total(S, q) \in Nat
  BY <1>1, TotalIs
<1> QED
  BY <1>5, <1>8, <1>9

\* A grant is spent.
Granted(r, q, c, a, n, S) ==
  /\ r \in [S -> Nat]
  /\ \A b \in S : r[b] = IF b = a THEN q[a] + Planning!Lower(n, c - Planning!Spent(q)) ELSE q[b]
  /\ Planning!Spent(r) = Planning!Spent(q) + Planning!Lower(n, c - Planning!Spent(q))
  /\ Planning!Spent(r) <= c
  /\ Planning!Lower(n, c - Planning!Spent(q)) \in Nat

\* What one grant changes.
LEMMA GrantIs ==
  ASSUME NEW S \in SUBSET Planning!Agents, NEW q \in [S -> Nat], NEW c \in Nat,
             Planning!Spent(q) <= c,
         NEW a \in S, NEW n \in Nat
  PROVE  Granted(Planning!Grant(q, c, a, n), q, c, a, n, S)
<1> DEFINE k == Planning!Lower(n, c - Planning!Spent(q))
           r == Planning!Grant(q, c, a, n)
<1>1. Planning!Spent(q) = Total(S, q) /\ Planning!Spent(q) \in Nat
  BY SpentIs
<1>2. k \in Nat /\ k <= c - Planning!Spent(q)
  BY <1>1 DEF Planning!Lower
<1>3. r = [q EXCEPT ![a] = @ + k]
  BY DEF Planning!Grant
<1> HIDE DEF k, r
<1>4. r \in [S -> Nat] /\ \A b \in S : r[b] = IF b = a THEN q[a] + k ELSE q[b]
  BY <1>2, <1>3
<1>5. Planning!Spent(r) = Total(S, r)
  BY <1>4, SpentIs
<1>6. Total(S, r) = r[a] + Total(S \ {a}, r) /\ Total(S, q) = q[a] + Total(S \ {a}, q)
  BY <1>4, TotalIs
<1>7. Total(S \ {a}, r) = Total(S \ {a}, q)
  <2>1. \A b : CallsOf(S \ {a}, r, b) = CallsOf(S \ {a}, q, b)
    BY <1>4 DEF CallsOf
  <2> QED
    BY <2>1 DEF Total
<1>8. Total(S \ {a}, q) \in Nat
  BY TotalIs
<1>9. r[a] = q[a] + k /\ q[a] \in Nat
  BY <1>4
<1>10. Planning!Spent(r) = Planning!Spent(q) + k
  BY <1>1, <1>2, <1>5, <1>6, <1>7, <1>8, <1>9
<1>11. Planning!Spent(r) <= c
  BY <1>1, <1>2, <1>10
<1> QED
  BY <1>2, <1>4, <1>10, <1>11 DEF k, r, Granted

\* A fair division: the report has a call if there is any, and either all are
\* spent with at most one for each specialist, or each specialist has one.
Experts(S) == S \intersect Planning!Specialists
\* Quotas within the cap: the terminal agent first, and no second call for a
\* specialist before every planned one has its first.
Fair(q, c, S) ==
  /\ q \in [S -> Nat] /\ Planning!Spent(q) <= c
  /\ c > 0 => q[Planning!Terminal] > 0
  /\ \/ Planning!Spent(q) >= c /\ \A b \in Experts(S) : q[b] <= 1
     \/ \A b \in Experts(S) : q[b] > 0

\* A grant keeps it.
LEMMA GrantFair ==
  ASSUME NEW S \in SUBSET Planning!Agents, Planning!Terminal \in S, NEW c \in Nat, NEW q,
             Fair(q, c, S),
         NEW a \in S, NEW n \in Nat
  PROVE  Fair(Planning!Grant(q, c, a, n), c, S)
<1> DEFINE r == Planning!Grant(q, c, a, n)
           k == Planning!Lower(n, c - Planning!Spent(q))
<1>1. q \in [S -> Nat] /\ Planning!Spent(q) <= c /\ Planning!Spent(q) \in Nat
  BY SpentIs DEF Fair
<1>2. /\ r \in [S -> Nat] /\ Planning!Spent(r) <= c /\ Planning!Spent(r) = Planning!Spent(q) + k
             /\ k \in Nat
      /\ \A b \in S : r[b] = IF b = a THEN q[a] + k ELSE q[b]
  BY <1>1, GrantIs DEF Granted
<1>3. \A b \in S : r[b] \in Nat /\ q[b] \in Nat /\ r[b] >= q[b]
  BY <1>1, <1>2
<1>4. Planning!Spent(q) >= c => k = 0
  BY <1>1 DEF Planning!Lower
<1> HIDE DEF r, k
<1>5. c > 0 => r[Planning!Terminal] > 0
  BY <1>3 DEF Fair
<1>6. CASE Planning!Spent(q) >= c /\ \A b \in Experts(S) : q[b] <= 1
  <2>1. \A b \in Experts(S) : r[b] <= 1
    BY <1>2, <1>3, <1>4, <1>6 DEF Experts
  <2>2. Planning!Spent(r) >= c
    BY <1>1, <1>2, <1>6
  <2> QED
    BY <1>2, <1>5, <2>1, <2>2 DEF Fair, r
<1>7. CASE \A b \in Experts(S) : q[b] > 0
  <2>1. \A b \in Experts(S) : r[b] > 0
    BY <1>3, <1>7 DEF Experts
  <2> QED
    BY <1>2, <1>5, <2>1 DEF Fair, r
<1> QED
  BY <1>6, <1>7 DEF Fair

\* So does every round of grants.
AtMostOne(r, q, c, a, k, S) ==
  /\ r \in [S -> Nat]
  /\ r = q \/ (a \in S /\ q[a] = k /\ Planning!Spent(q) < c /\ r = Planning!Grant(q, c, a, 1))

\* A step of a round grants at most one call.
LEMMA GrantAtIs ==
  ASSUME NEW S \in SUBSET Planning!Agents, NEW q \in [S -> Nat], NEW c \in Nat, NEW a, NEW k
  PROVE  AtMostOne(Planning!GrantAt(q, c, a, k), q, c, a, k, S)
<1>1. CASE a \in DOMAIN q /\ q[a] = k /\ Planning!Spent(q) < c
  <2>1. Planning!GrantAt(q, c, a, k) = Planning!Grant(q, c, a, 1)
    BY <1>1 DEF Planning!GrantAt
  <2>2. Planning!Spent(q) \in Nat
    BY SpentIs
  <2>3. a \in S /\ Planning!Spent(q) <= c
    BY <1>1, <2>2
  <2>4. Planning!Grant(q, c, a, 1) \in [S -> Nat]
    BY <2>3, GrantIs DEF Granted
  <2> QED
    BY <1>1, <2>1, <2>3, <2>4 DEF AtMostOne
<1>2. CASE ~(a \in DOMAIN q /\ q[a] = k /\ Planning!Spent(q) < c)
  BY <1>2 DEF Planning!GrantAt, AtMostOne
<1> QED
  BY <1>1, <1>2

\* A round of grants keeps quotas fair.
LEMMA GrantEachFair ==
  ASSUME NEW S \in SUBSET Planning!Agents, Planning!Terminal \in S, NEW c \in Nat, NEW q,
             Fair(q, c, S),
         NEW agents \in Seq(Planning!Agents), NEW k
  PROVE  Fair(Planning!GrantEach(q, c, agents, k), c, S)
<1> DEFINE n == Len(agents)
<1>1. n \in Nat /\ q \in [S -> Nat]
  BY DEF Fair
<1>2. \A s \in [S -> Nat], i \in 1..n : Planning!GrantAt(s, c, agents[i], k) \in [S -> Nat]
  BY GrantAtIs DEF AtMostOne
<1>3. PICK f \in [0..n -> [S -> Nat]] :
        /\ f[0] = q
        /\ \A i \in 1..n : f[i] = Planning!GrantAt(f[i - 1], c, agents[i], k)
        /\ Planning!GrantEach(q, c, agents, k) = f[n]
  <2>1. RoundOf(q, c, agents, k, S)
    BY <1>1, <1>2, GrantsRun
  <2> QED
    BY <2>1 DEF RoundOf
<1> DEFINE P == {i \in 0..n : Fair(f[i], c, S)}
<1>4. 0 \in P
  BY <1>1, <1>3
<1>5. ASSUME NEW i \in 1..n, i - 1 \in P
      PROVE  i \in P
  <2>1. i - 1 \in 0..n /\ i \in 0..n
    BY <1>1
  <2>2. Fair(f[i - 1], c, S) /\ f[i - 1] \in [S -> Nat]
    BY <1>5, <2>1
  <2>3. f[i] = Planning!GrantAt(f[i - 1], c, agents[i], k)
    BY <1>3
  <2>4. Fair(f[i], c, S)
    <3>1. CASE f[i] = f[i - 1]
      BY <2>2, <3>1
    <3>2. CASE agents[i] \in S /\ f[i] = Planning!Grant(f[i - 1], c, agents[i], 1)
      BY <2>2, <3>2, GrantFair
    <3> QED
      <4>1. AtMostOne(f[i], f[i - 1], c, agents[i], k, S)
        BY <2>2, <2>3, GrantAtIs
      <4> QED
        BY <3>1, <3>2, <4>1 DEF AtMostOne
  <2> QED
    BY <2>1, <2>4
<1>6. n \in P
  <2>1. \A i \in 1..n : i - 1 \in P => i \in P
    BY <1>5
  <2>2. \A i \in 0..n : i \in P
    <3> HIDE DEF P, n
    <3> QED
      BY <1>1, <1>4, <2>1, Climbs
  <2> QED
    BY <1>1, <2>2
<1> QED
  BY <1>1, <1>3, <1>6

\* Before the specialists have anything.
Untouched(q, c, S) ==
  /\ q \in [S -> Nat] /\ Planning!Spent(q) <= c
  /\ c > 0 => q[Planning!Terminal] > 0
  /\ \A b \in Experts(S) : q[b] = 0

\* The first round gives one call to each specialist, as far as the calls go.
LEMMA FirstRound ==
  ASSUME NEW S \in SUBSET Planning!Agents, Planning!Terminal \in S, NEW c \in Nat, NEW q,
             Untouched(q, c, S),
         NEW agents \in Seq(Planning!Agents), Experts(S) \subseteq Planning!ToSet(agents)
  PROVE  Fair(Planning!GrantEach(q, c, agents, 0), c, S)
<1> DEFINE n == Len(agents)
<1>1. n \in Nat /\ q \in [S -> Nat]
  BY DEF Untouched
<1>2. \A s \in [S -> Nat], i \in 1..n : Planning!GrantAt(s, c, agents[i], 0) \in [S -> Nat]
  BY GrantAtIs DEF AtMostOne
<1>3. PICK f \in [0..n -> [S -> Nat]] :
        /\ f[0] = q
        /\ \A i \in 1..n : f[i] = Planning!GrantAt(f[i - 1], c, agents[i], 0)
        /\ Planning!GrantEach(q, c, agents, 0) = f[n]
  <2>1. RoundOf(q, c, agents, 0, S)
    BY <1>1, <1>2, GrantsRun
  <2> QED
    BY <2>1 DEF RoundOf
<1> DEFINE Served(g, i) ==
             /\ g \in [S -> Nat] /\ Planning!Spent(g) <= c
             /\ c > 0 => g[Planning!Terminal] > 0
             /\ \A b \in Experts(S) : g[b] <= 1
             /\ \/ Planning!Spent(g) >= c
                \/ \A j \in 1..i : agents[j] \in Experts(S) => g[agents[j]] > 0
           P == {i \in 0..n : Served(f[i], i)}
<1>4. 0 \in P
  <2>1. Served(q, 0)
    BY <1>1 DEF Untouched
  <2> HIDE DEF Served
  <2> QED
    BY <1>1, <1>3, <2>1
<1>5. ASSUME NEW i \in 1..n, i - 1 \in P
      PROVE  i \in P
  <2> DEFINE g == f[i - 1]
             r == f[i]
             a == agents[i]
  <2>1. i - 1 \in 0..n /\ i \in 0..n
    BY <1>1
  <2>2. Served(g, i - 1)
    <3> HIDE DEF Served
    <3> QED
      BY <1>5
  <2>3. r = Planning!GrantAt(g, c, a, 0)
    BY <1>3
  <2>4. g \in [S -> Nat] /\ Planning!Spent(g) \in Nat
    BY <2>1, <2>2, SpentIs
  <2>5. \A j \in 1..i : j = i \/ j \in 1..(i - 1)
    BY <2>1
  <2> HIDE DEF g, r, a, n, P
  <2>6. r = g \/ (a \in S /\ g[a] = 0 /\ Planning!Spent(g) < c /\ r = Planning!Grant(g, c, a, 1))
    <3>1. AtMostOne(r, g, c, a, 0, S)
      BY <2>3, <2>4, GrantAtIs
    <3> QED
      BY <3>1 DEF AtMostOne
  <2>7. CASE a \in S /\ g[a] = 0 /\ Planning!Spent(g) < c
    <3>0. r = Planning!Grant(g, c, a, 1)
      BY <2>3, <2>4, <2>7 DEF Planning!GrantAt
    <3>1. Planning!Lower(1, c - Planning!Spent(g)) = 1
      BY <2>4, <2>7 DEF Planning!Lower
    <3>2. /\ r \in [S -> Nat] /\ Planning!Spent(r) <= c
          /\ \A b \in S : r[b] = IF b = a THEN g[a] + 1 ELSE g[b]
      <4>1. Planning!Spent(g) <= c
        BY <2>2
      <4> QED
        <5>1. Granted(Planning!Grant(g, c, a, 1), g, c, a, 1, S)
          BY <2>4, <2>7, <4>1, GrantIs
        <5> QED
          BY <3>0, <3>1, <5>1 DEF Granted
    <3>3. \A b \in S : r[b] = IF b = a THEN 1 ELSE g[b]
      BY <2>7, <3>2
    <3>4. c > 0 => r[Planning!Terminal] > 0
      BY <2>2, <3>3
    <3>5. \A b \in Experts(S) : r[b] <= 1
      BY <2>2, <3>3 DEF Experts
    <3>6. \A j \in 1..(i - 1) : agents[j] \in Experts(S) => g[agents[j]] > 0
      BY <2>2, <2>4, <2>7
    <3>7. \A j \in 1..i : agents[j] \in Experts(S) => r[agents[j]] > 0
      BY <2>5, <3>3, <3>6 DEF Experts, a
    <3>8. Served(r, i)
      BY <3>2, <3>4, <3>5, <3>7
    <3> HIDE DEF Served
    <3> QED
      BY <2>1, <3>8 DEF P, r
  <2>8. CASE ~(a \in S /\ g[a] = 0 /\ Planning!Spent(g) < c)
    <3>0. r = g
      BY <2>6, <2>8
    <3>1. Planning!Spent(g) >= c \/ (a \in Experts(S) => g[a] > 0)
      BY <2>4, <2>8 DEF Experts
    <3>2. Served(r, i)
      BY <2>2, <2>5, <3>0, <3>1 DEF a
    <3> HIDE DEF Served
    <3> QED
      BY <2>1, <3>2 DEF P, r
  <2> QED
    BY <2>7, <2>8
<1>6. Served(f[n], n)
  <2>1. \A i \in 1..n : i - 1 \in P => i \in P
    BY <1>5
  <2>2. \A i \in 0..n : i \in P
    <3> HIDE DEF P, n
    <3> QED
      BY <1>1, <1>4, <2>1, Climbs
  <2> HIDE DEF Served
  <2> QED
    BY <1>1, <2>2
<1>7. ASSUME NEW b \in Experts(S)
      PROVE  \E j \in 1..n : agents[j] = b
  BY ToSetIs
<1> HIDE DEF n
<1>8. CASE Planning!Spent(f[n]) >= c
  BY <1>3, <1>6, <1>8 DEF Fair
<1>9. CASE \A j \in 1..n : agents[j] \in Experts(S) => f[n][agents[j]] > 0
  <2>1. \A b \in Experts(S) : f[n][b] > 0
    BY <1>7, <1>9
  <2> QED
    BY <1>3, <1>6, <2>1 DEF Fair
<1> QED
  BY <1>6, <1>8, <1>9

\* The report is served first.
LEMMA ReportFirst ==
  ASSUME NEW S \in SUBSET Planning!Agents, Planning!Terminal \in S, NEW c \in Nat,
             NEW n \in Nat \ {0}
  PROVE  Untouched(Planning!Grant([a \in S |-> 0], c, Planning!Terminal, n), c, S)
<1> DEFINE q == [a \in S |-> 0]
           r == Planning!Grant(q, c, Planning!Terminal, n)
<1>1. q \in [S -> Nat] /\ \A b \in S : q[b] = 0
  OBVIOUS
<1>2. Planning!Spent(q) = 0
  <2>1. \A b : CallsOf(S, q, b) = 0
    BY DEF CallsOf
  <2>2. Total(S, q) = 0
    BY <2>1 DEF Total
  <2> HIDE DEF q
  <2> QED
    BY <1>1, <2>2, SpentIs
<1> HIDE DEF q
<1>3. /\ r \in [S -> Nat] /\ Planning!Spent(r) <= c
      /\ \A b \in S : r[b] = IF b = Planning!Terminal
             THEN q[Planning!Terminal] + Planning!Lower(n, c - Planning!Spent(q)) ELSE q[b]
      /\ Planning!Lower(n, c - Planning!Spent(q)) \in Nat
  <2>1. Planning!Spent(q) <= c /\ n \in Nat
    BY <1>2
  <2>2. Granted(Planning!Grant(q, c, Planning!Terminal, n), q, c, Planning!Terminal, n, S)
    BY <1>1, <2>1, GrantIs
  <2> QED
    BY <2>2 DEF Granted
<1>4. c > 0 => Planning!Lower(n, c - Planning!Spent(q)) > 0
  BY <1>2 DEF Planning!Lower
<1>5. \A b \in Experts(S) : b \in S /\ b # Planning!Terminal
  BY DEF Experts, Planning!Specialists, Planning!Terminal
<1> HIDE DEF r
<1>6. c > 0 => r[Planning!Terminal] > 0
  BY <1>1, <1>3, <1>4
<1>7. \A b \in Experts(S) : r[b] = 0
  BY <1>1, <1>3, <1>5
<1> QED
  BY <1>3, <1>6, <1>7 DEF Untouched, r, q

\* A full evaluation is divided fairly.
LEMMA SinglePassFair ==
  ASSUME NEW ordered \in Seq(Planning!Agents), Planning!Terminal \in Planning!ToSet(ordered),
             NEW c \in Nat, NEW sig
  PROVE  Fair(Planning!single_pass_quotas(ordered, c, sig), c, Planning!ToSet(ordered))
<1> DEFINE S == Planning!ToSet(ordered)
           report == Planning!Grant([a \in S |-> 0], c, Planning!Terminal, 3)
           each == Planning!GrantEach(report, c, Planning!Priority, 0)
           upto(q, a, top) == IF a \in DOMAIN q /\ q[a] < top
                              THEN Planning!Grant(q, c, a, top - q[a]) ELSE q
           stack == IF sig.stack THEN upto(each, "TechAgent", 4) ELSE each
           urls == IF sig.urls THEN upto(stack, "ProjectAgent", 3) ELSE stack
           remembered == Planning!Dedup(
               (IF sig.gaps THEN <<"ProjectAgent">> ELSE <<>>)
               \o (IF sig.risky THEN <<"RiskAgent">> ELSE <<>>) \o Planning!Priority)
<1>1. S \in SUBSET Planning!Agents /\ Planning!Terminal \in S
  BY ToSetIs
<1> HIDE DEF S
<1>2. Untouched(report, c, S)
  BY <1>1, ReportFirst
<1>3. Planning!Priority \in Seq(Planning!Agents)
          /\ Experts(S) \subseteq Planning!ToSet(Planning!Priority)
  <2>1. Planning!Priority \in Seq(Planning!Agents)
    BY DEF Planning!Priority, Planning!Agents, Planning!Specialists
  <2>2. Planning!ToSet(Planning!Priority) = {"TechAgent", "ProjectAgent", "RiskAgent"}
    BY DEF Planning!Priority, Planning!ToSet
  <2> QED
    BY <2>1, <2>2 DEF Experts, Planning!Specialists
<1> HIDE DEF report
<1>4. Fair(each, c, S)
  BY <1>1, <1>2, <1>3, FirstRound
<1>5. ASSUME NEW q, Fair(q, c, S), NEW a, NEW top \in Nat
      PROVE  Fair(upto(q, a, top), c, S)
  <2>1. q \in [S -> Nat]
    BY <1>5 DEF Fair
  <2>2. CASE a \in DOMAIN q /\ q[a] < top
    <3>1. a \in S /\ top - q[a] \in Nat
      BY <2>1, <2>2
    <3>2. Fair(Planning!Grant(q, c, a, top - q[a]), c, S)
      BY <1>1, <1>5, <3>1, GrantFair
    <3> QED
      BY <2>2, <3>2
  <2>3. CASE ~(a \in DOMAIN q /\ q[a] < top)
    BY <1>5, <2>3
  <2> QED
    BY <2>2, <2>3
<1> HIDE DEF each, upto
<1>6. Fair(stack, c, S)
  BY <1>4, <1>5
<1> HIDE DEF stack
<1>7. Fair(urls, c, S)
  BY <1>5, <1>6
<1>8. remembered \in Seq(Planning!Agents)
  <2> DEFINE x == IF sig.gaps THEN <<"ProjectAgent">> ELSE <<>>
             y == IF sig.risky THEN <<"RiskAgent">> ELSE <<>>
  <2>1. x \in Seq(Planning!Agents) /\ y \in Seq(Planning!Agents)
    <3>1. "ProjectAgent" \in Planning!Agents /\ "RiskAgent" \in Planning!Agents
      BY DEF Planning!Agents, Planning!Specialists
    <3>2. /\ <<"ProjectAgent">> \in Seq(Planning!Agents) /\ <<"RiskAgent">> \in Seq(Planning!Agents)
          /\ <<>> \in Seq(Planning!Agents)
      BY <3>1
    <3> QED
      BY <3>2
  <2> HIDE DEF x, y
  <2>2. x \o y \in Seq(Planning!Agents)
    BY <2>1, ConcatProperties
  <2>3. (x \o y) \o Planning!Priority \in Seq(Planning!Agents)
    BY <1>3, <2>2, ConcatProperties
  <2>4. remembered = Planning!Dedup((x \o y) \o Planning!Priority)
    BY DEF x, y
  <2> QED
    BY <2>3, <2>4, DedupIs
<1> HIDE DEF urls, remembered
<1>9. Fair(Planning!GrantEach(urls, c, remembered, 1), c, S)
  BY <1>1, <1>7, <1>8, GrantEachFair
<1>10. Planning!single_pass_quotas(ordered, c, sig) = Planning!GrantEach(urls, c, remembered, 1)
  BY DEF Planning!single_pass_quotas, urls, stack, upto, each, report, remembered, S
<1> QED
  BY <1>9, <1>10 DEF S

\* So are the floors of the other run types.
LEMMA FloorFair ==
  ASSUME NEW ordered \in Seq(Planning!Agents), Planning!Terminal \in Planning!ToSet(ordered),
             NEW c \in Nat,
         NEW reserve \in Int, NEW sig
  PROVE  Fair(Planning!floor_quotas(ordered, c, reserve, sig), c, Planning!ToSet(ordered))
<1> DEFINE S == Planning!ToSet(ordered)
           none == [a \in S |-> 0]
           m == IF reserve > 1 THEN reserve ELSE 1
           report == IF c > 0 THEN Planning!Grant(none, c, Planning!Terminal, m) ELSE none
           others == Planning!Only(ordered, Planning!ToSet(ordered) \ {Planning!Terminal})
           each == Planning!GrantEach(report, c, others, 0)
           floor == Planning!Lower(IF sig.urls THEN 4
               ELSE 2, Planning!TotalCap("ProjectAgent", sig))
           last == IF /\ "ProjectAgent" \in DOMAIN each
                      /\ each["ProjectAgent"] \in 1..(floor - 1)
                   THEN Planning!Grant(each, c, "ProjectAgent", floor - each["ProjectAgent"])
                   ELSE each
<1>1. S \in SUBSET Planning!Agents /\ Planning!Terminal \in S
  BY ToSetIs
<1>2. others \in Seq(Planning!Agents) /\ Experts(S) \subseteq Planning!ToSet(others)
  <2>1. others \in Seq(Planning!Agents) /\ Planning!ToSet(others) =
            S \intersect (S \ {Planning!Terminal})
    BY OnlyIs
  <2> QED
    BY <2>1 DEF Experts, Planning!Specialists, Planning!Terminal
<1> HIDE DEF S, others
<1>3. m \in Nat \ {0}
  OBVIOUS
<1>4. Untouched(report, c, S)
  <2>1. CASE c > 0
    BY <1>1, <1>3, <2>1, ReportFirst
  <2>2. CASE ~(c > 0)
    <3>1. none \in [S -> Nat] /\ \A b \in Experts(S) : none[b] = 0
      BY DEF Experts
    <3>2. Planning!Spent(none) = 0
      <4>1. \A b : CallsOf(S, none, b) = 0
        BY DEF CallsOf
      <4>2. Total(S, none) = 0
        BY <4>1 DEF Total
      <4> HIDE DEF none
      <4> QED
        BY <1>1, <3>1, <4>2, SpentIs
    <3> HIDE DEF none
    <3> QED
      BY <2>2, <3>1, <3>2 DEF Untouched
  <2> QED
    BY <2>1, <2>2
<1> HIDE DEF report, none, m
<1>5. Fair(each, c, S)
  BY <1>1, <1>2, <1>4, FirstRound
<1>6. floor \in Nat
  BY DEF Planning!Lower, Planning!TotalCap
<1> HIDE DEF each, floor
<1>7. Fair(last, c, S)
  <2>1. CASE "ProjectAgent" \in DOMAIN each /\ each["ProjectAgent"] \in 1..(floor - 1)
    <3>1. each \in [S -> Nat]
      BY <1>5 DEF Fair
    <3>2. "ProjectAgent" \in S /\ floor - each["ProjectAgent"] \in Nat
      BY <1>6, <2>1, <3>1
    <3>3. Fair(Planning!Grant(each, c, "ProjectAgent", floor - each["ProjectAgent"]), c, S)
      BY <1>1, <1>5, <3>2, GrantFair
    <3> QED
      BY <2>1, <3>3
  <2>2. CASE ~("ProjectAgent" \in DOMAIN each /\ each["ProjectAgent"] \in 1..(floor - 1))
    BY <1>5, <2>2
  <2> QED
    BY <2>1, <2>2
<1>8. Planning!floor_quotas(ordered, c, reserve, sig) = last
  BY DEF Planning!floor_quotas, last, each, floor, report, others, none, m, S
<1> QED
  BY <1>7, <1>8 DEF S

-----------------------------------------------------------------------------
(***************************************************************************)
(* The planner.                                                            *)
(***************************************************************************)

\* The slots of the planner, by their names there.
requested == s1
signals == s2
phase == s3
plan == s4
weigh == s5
cap == s6
quota == s7
USE DEF requested, signals, phase, plan, weigh, cap, quota

\* The run types are those the planner knows, a policy is a record of numbers
\* and lists of names, and a proposed plan names agents of the registry.
Planners ==
  /\ RunTypes \subseteq Types
  /\ \A policy \in Policies :
        /\ policy.maxAgents \in Int /\ policy.reserve \in Int
        /\ \E U : policy.order \in Seq(U)
        /\ policy.required \in Seq(Artifacts)
  /\ Caps \subseteq Nat
  /\ Proposals \subseteq Seq(Planning!Agents)

\* What is planned is closed, makes its goals unless it exceeds the limit, and
\* its calls are divided fairly.
PlanInv ==
  /\ requested \in [type : RunTypes, policy : Policies, revision : Revisions]
  /\ phase \in {"start", "refine", "budget", "share", "done"}
  /\ phase # "start" =>
        /\ Closed(plan)
        /\ \/ Len(plan) > Planning!AgentLimit(requested.policy)
           \/ \A g \in Planning!ToSet(Planning!goal) \ Planning!present : MadeIn(plan, g)
  /\ phase \in {"start", "refine", "budget"} => quota = <<>> /\ cap = 0
  /\ phase \in {"share", "done"} => cap \in Nat /\ Fair(quota, cap, Planning!ToSet(plan))

\* A closed plan names agents, among them the terminal one.
LEMMA ClosedIs ==
  ASSUME NEW s, Closed(s)
  PROVE  /\ s \in Seq(Planning!Agents) /\ Planning!ToSet(s) \in SUBSET Planning!Agents
                /\ Planning!Terminal \in Planning!ToSet(s)
         /\ \A i \in 1..Len(s) : s[i] = Planning!Terminal <=> i = Len(s)
         /\ Len(s) \in 1..Len(s)
<1>1. s \in Seq(Planning!Agents) /\ s # <<>> /\ Planning!Last(s) = Planning!Terminal
      /\ \A i \in 1..Len(s) : s[i] = Planning!Terminal => i = Len(s)
  BY DEF Closed
<1>2. Len(s) \in 1..Len(s) /\ s[Len(s)] = Planning!Terminal
  BY <1>1 DEF Planning!Last
<1>3. Planning!ToSet(s) \subseteq Planning!Agents /\ s[Len(s)] \in Planning!ToSet(s)
  BY <1>1, <1>2, ToSetIs
<1> QED
  BY <1>1, <1>2, <1>3

\* What a policy of the instance is.
LEMMA PolicyIs ==
  ASSUME Planners, PlanInv
  PROVE  /\ Ranks(requested.policy) /\ requested.policy.maxAgents \in Int
         /\ requested.policy.reserve \in Int
         /\ requested.policy.required \in Seq(Artifacts) /\ requested.type \in Types
         /\ Planning!goal \in Seq(Artifacts)
<1>1. requested.policy \in Policies /\ requested.type \in RunTypes
  BY DEF PlanInv
<1>2. /\ requested.policy.maxAgents \in Int /\ requested.policy.reserve \in Int
      /\ \E U : requested.policy.order \in Seq(U)
      /\ requested.policy.required \in Seq(Artifacts)
      /\ requested.type \in Types
  BY <1>1 DEF Planners
<1>3. PICK U : requested.policy.order \in Seq(U)
  BY <1>2
<1>4. Ranks(requested.policy)
  BY <1>3, RankIs
<1>5. Planning!goal \in Seq(Artifacts)
  BY <1>2, GoalIs DEF Planning!goal
<1> QED
  BY <1>2, <1>4, <1>5

\* What a plan is finalized to.
LEMMA FinalIs ==
  ASSUME Planners, PlanInv, NEW proposed \in Seq(Planning!Agents),
         NEW final, final = Planning!_finalize(proposed, requested.policy, Planning!goal,
             Planning!present)
  PROVE  /\ Closed(final)
         /\ \/ Len(final) > Planning!AgentLimit(requested.policy)
            \/ \A g \in Planning!ToSet(Planning!goal) \ Planning!present : MadeIn(final, g)
<1>1. Ranks(requested.policy) /\ requested.policy.maxAgents \in Int
          /\ Planning!goal \in Seq(Artifacts)
  BY PolicyIs
<1> QED
  BY <1>1, FinalizeIs

\* Every step of the planner keeps the invariant.
LEMMA PlanKeeps ==
  ASSUME Planners, PlanInv, [Planning!Next]_Planning!vars
  PROVE  PlanInv'
<1> USE DEF Planning!goal, Planning!present
<1>1. ASSUME Planning!plan_from_artifacts
      PROVE  PlanInv'
  <2> DEFINE chain == Planning!backward_chain(requested.type, signals, requested.policy,
                 Planning!present)
  <2>1. chain \in Seq(Planning!Agents)
    BY PolicyIs, ChainIs
  <2>2. /\ plan' = Planning!_finalize(chain, requested.policy, Planning!goal, Planning!present)
        /\ phase = "start" /\ phase' \in {"budget", "refine"}
        /\ UNCHANGED <<requested, signals, weigh, cap, quota>>
    BY <1>1 DEF Planning!plan_from_artifacts
  <2> HIDE DEF chain
  <2>3. /\ Closed(plan')
        /\ \/ Len(plan') > Planning!AgentLimit(requested.policy)
           \/ \A g \in Planning!ToSet(Planning!goal) \ Planning!present : MadeIn(plan', g)
    BY <2>1, <2>2, FinalIs
  <2> QED
    BY <2>2, <2>3 DEF PlanInv
<1>2. ASSUME NEW proposal \in Proposals, Planning!_refine(proposal)
      PROVE  PlanInv'
  <2> DEFINE base == IF proposal = <<>> THEN plan
                     ELSE Planning!_protect_required_producers(proposal, plan, Planning!goal)
  <2>1. /\ plan' = Planning!_finalize(base, requested.policy, Planning!goal, Planning!present)
        /\ phase = "refine" /\ phase' = "budget"
        /\ UNCHANGED <<requested, signals, weigh, cap, quota>>
    BY <1>2 DEF Planning!_refine
  <2>2. plan \in Seq(Planning!Agents)
    BY <2>1, ClosedIs DEF PlanInv
  <2>3. proposal \in Seq(Planning!Agents) /\ Planning!goal \in Seq(Artifacts)
    BY PolicyIs DEF Planners
  <2>4. base \in Seq(Planning!Agents)
    BY <2>2, <2>3, ProtectedIs
  <2> HIDE DEF base
  <2>5. /\ Closed(plan')
        /\ \/ Len(plan') > Planning!AgentLimit(requested.policy)
           \/ \A g \in Planning!ToSet(Planning!goal) \ Planning!present : MadeIn(plan', g)
    BY <2>1, <2>4, FinalIs
  <2> QED
    BY <2>1, <2>5 DEF PlanInv
<1>3. ASSUME NEW limit \in Caps, NEW sig \in Weighs, Planning!_budget_plan(limit, sig)
      PROVE  PlanInv'
  <2>1. phase = "budget" /\ UNCHANGED <<requested, signals, plan>>
    BY <1>3 DEF Planning!_budget_plan
  <2>2. Closed(plan) /\ plan \in Seq(Planning!Agents) /\ Planning!Terminal \in Planning!ToSet(plan)
    BY <2>1, ClosedIs DEF PlanInv
  <2>3. limit \in Nat /\ requested.policy.reserve \in Int
    BY PolicyIs DEF Planners
  <2>4. phase' \in {"share", "done"} /\ cap' \in Nat /\ Fair(quota', cap', Planning!ToSet(plan))
    <3>1. CASE requested.type \in Planning!FullEval
      <4>1. Planning!Lower(limit, 12) \in Nat
        BY <2>3 DEF Planning!Lower
      <4>2. /\ cap' = Planning!Lower(limit, 12) /\ phase' = "done"
            /\ quota' = Planning!single_pass_quotas(plan, cap', sig)
        BY <1>3, <3>1 DEF Planning!_budget_plan
      <4> QED
        BY <2>2, <4>1, <4>2, SinglePassFair
    <3>2. CASE requested.type \notin Planning!FullEval
      <4>1. /\ cap' = limit /\ phase' = "share"
            /\ quota' = Planning!floor_quotas(plan, limit, requested.policy.reserve, sig)
        BY <1>3, <3>2 DEF Planning!_budget_plan
      <4> QED
        BY <2>2, <2>3, <4>1, FloorFair
    <3> QED
      BY <3>1, <3>2
  <2> QED
    BY <2>1, <2>4 DEF PlanInv
<1>4. ASSUME NEW a \in Planning!Agents, Planning!GrantTurn(a)
      PROVE  PlanInv'
  <2>1. /\ phase = "share" /\ Planning!Spent(quota) < cap /\ a \in Planning!Pool
        /\ \A b \in Planning!Pool : quota[a] <= quota[b]
        /\ quota' = [quota EXCEPT ![a] = @ + 1]
        /\ UNCHANGED <<requested, signals, phase, plan, weigh, cap>>
    BY <1>4 DEF Planning!GrantTurn
  <2> DEFINE S == Planning!ToSet(plan)
  <2>2. S \in SUBSET Planning!Agents /\ Planning!Terminal \in S /\ cap \in Nat
            /\ Fair(quota, cap, S)
    BY <2>1, ClosedIs DEF PlanInv
  <2> HIDE DEF S
  <2>3. quota \in [S -> Nat] /\ a \in S
    BY <2>1, <2>2 DEF Fair, Planning!Pool, Planning!Eligible
  <2>4. Planning!Spent(quota) \in Nat
    BY <2>2, <2>3, SpentIs
  <2>5. Planning!Lower(1, cap - Planning!Spent(quota)) = 1
    BY <2>1, <2>2, <2>4 DEF Planning!Lower
  <2>6. quota' = Planning!Grant(quota, cap, a, 1)
    BY <2>1, <2>5 DEF Planning!Grant
  <2>7. Fair(quota', cap, S)
    BY <2>2, <2>3, <2>6, GrantFair
  <2> QED
    BY <2>1, <2>2, <2>7 DEF PlanInv, S
<1>5. ASSUME Planning!Shared
      PROVE  PlanInv'
  BY <1>5 DEF Planning!Shared, PlanInv
<1>6. CASE UNCHANGED Planning!vars
  BY <1>6 DEF Planning!vars, PlanInv
<1> QED
  BY <1>1, <1>2, <1>3, <1>4, <1>5, <1>6 DEF Planning!Next

\* The plan can run.
LEMMA PlanStands ==
  ASSUME Planners, PlanInv
  PROVE  Planning!PlanCanRun
<1>1. ASSUME Planning!Planned
      PROVE  /\ plan # <<>> /\ Planning!Last(plan) = Planning!Terminal
             /\ Planning!Cardinality({i \in DOMAIN plan : plan[i] = Planning!Terminal}) = 1
             /\ \/ Len(plan) > Planning!AgentLimit(requested.policy)
                \/ \A g \in Planning!ToSet(Planning!goal) \ Planning!present :
                      Planning!Producers(g) # {} => \E a \in Planning!Producers(g) :
                          Planning!Contains(plan, a)
             /\ GroupsRight(plan, Planning!Groups)
  <2>1. Closed(plan) /\ plan \in Seq(Planning!Agents)
    BY <1>1, ClosedIs DEF Planning!Planned, PlanInv
  <2>2. plan # <<>> /\ Planning!Last(plan) = Planning!Terminal
    BY <2>1 DEF Closed
  <2>3. Planning!Cardinality({i \in DOMAIN plan : plan[i] = Planning!Terminal}) = 1
    <3>1. {i \in DOMAIN plan : plan[i] = Planning!Terminal} = {Len(plan)}
      BY <2>1, ClosedIs
    <3>2. Cardinality({i \in DOMAIN plan : plan[i] = Planning!Terminal}) = 1
      BY <3>1, FS_Singleton
    <3> QED
      BY <3>2, Zenon DEF Planning!Cardinality, Cardinality
  <2>4. \/ Len(plan) > Planning!AgentLimit(requested.policy)
        \/ \A g \in Planning!ToSet(Planning!goal) \ Planning!present :
              Planning!Producers(g) # {} => \E a \in Planning!Producers(g) :
                  Planning!Contains(plan, a)
    BY <1>1, <2>1, ContainsIs DEF Planning!Planned, PlanInv, MadeIn
  <2>5. GroupsRight(plan, Planning!Groups)
    BY <2>1, GroupsAreRight DEF Planning!Groups
  <2> QED
    BY <2>2, <2>3, <2>4, <2>5
<1>2. Planning!PlanIsWhole
  BY <1>1 DEF Planning!PlanIsWhole, GroupsRight
<1>3. Planning!ReuseIsClean
  <2> DEFINE names == requested.revision.invalidated
  <2>1. Planning!present =
            requested.revision.previous \ Planning!expand_invalidated_artifacts(names)
    BY DEF Planning!present, Planning!reusable_artifacts
  <2>2. /\ names \subseteq Planning!expand_invalidated_artifacts(names)
        /\ \A a \in Sources : a \in Planning!expand_invalidated_artifacts(names)
             => Planning!ARTIFACT_INVALIDATION_GRAPH(a)
                 \subseteq Planning!expand_invalidated_artifacts(names)
    BY ExpandedIs
  <2>3. Planning!present \intersect names = {}
    BY <2>1, <2>2
  <2>4. \A a \in Sources : a \in Planning!expand_invalidated_artifacts(names)
             => Planning!ARTIFACT_INVALIDATION_GRAPH(a) \intersect Planning!present = {}
    BY <2>1, <2>2
  <2> QED
    BY <2>3, <2>4 DEF Planning!ReuseIsClean, Sources
<1> QED
  BY <1>2, <1>3 DEF Planning!PlanCanRun

\* The quotas are fair.
LEMMA QuotasStand ==
  ASSUME Planners, PlanInv
  PROVE  Planning!QuotasAreFair
<1>1. CASE phase \in {"start", "refine", "budget"}
  <2>1. quota = <<>> /\ cap = 0
    BY <1>1 DEF PlanInv
  <2>2. quota \in [{} -> Nat] /\ {} \in SUBSET Planning!Agents
    BY <2>1
  <2>3. Planning!Spent(quota) = Total({}, quota)
    BY <2>2, SpentIs
  <2>4. Total({}, quota) = 0
    BY DEF Total, CallsOf
  <2> QED
    BY <1>1, <2>1, <2>3, <2>4 DEF Planning!QuotasAreFair
<1>2. CASE phase \in {"share", "done"}
  <2> DEFINE S == Planning!ToSet(plan)
  <2>1. S \in SUBSET Planning!Agents /\ Planning!Terminal \in S /\ cap \in Nat
            /\ Fair(quota, cap, S)
    BY <1>2, ClosedIs DEF PlanInv
  <2> HIDE DEF S
  <2>2. quota \in [S -> Nat] /\ Planning!Spent(quota) <= cap
            /\ (cap > 0 => quota[Planning!Terminal] > 0)
    BY <2>1 DEF Fair
  <2>3. ASSUME NEW a \in DOMAIN quota \ {Planning!Terminal, "CoordinatorAgent"},
               NEW b \in DOMAIN quota \ {Planning!Terminal, "CoordinatorAgent"}, quota[a] > 1
        PROVE  quota[b] > 0
    <3>1. a \in Experts(S) /\ b \in Experts(S)
      BY <2>1, <2>2 DEF Experts, Planning!Agents
    <3>2. quota[a] \in Nat /\ ~(quota[a] <= 1)
      BY <2>2, <2>3
    <3> QED
      BY <2>1, <3>1, <3>2 DEF Fair
  <2> QED
    BY <2>2, <2>3 DEF Planning!QuotasAreFair
<1> QED
  BY <1>1, <1>2 DEF PlanInv

\* The planner starts with nothing planned.
LEMMA PlanStart ==
  ASSUME Planning!Init
  PROVE  PlanInv
BY DEF Planning!Init, PlanInv

-----------------------------------------------------------------------------
(***************************************************************************)
(* The tools that are offered.                                             *)
(***************************************************************************)

\* The steps of Among.
LEMMA AmongRuns ==
  ASSUME NEW E, NEW list \in Seq(E), NEW wanted,
         \A s \in Seq(E), i \in 1..Len(list) : Surface!Keep(s, list[i], wanted) \in Seq(E)
  PROVE  \E f \in [0..Len(list) -> Seq(E)] :
           /\ f[0] = <<>>
           /\ \A i \in 1..Len(list) : f[i] = Surface!Keep(f[i - 1], list[i], wanted)
           /\ Surface!Among(list, wanted) = f[Len(list)]
<1> DEFINE T == Seq(E)
           n == Len(list)
           F == [i \in 1..n |-> [s \in T |-> Surface!Keep(s, list[i], wanted)]]
           Fixes(g) == g = [s \in SUBSET (DOMAIN list) |->
                              IF s = {} THEN <<>>
                              ELSE Surface!Keep(g[s \ {Highest(s)}], list[Highest(s)], wanted)]
           it == CHOOSE g : Fixes(g)
<1>0. <<>> \in T /\ n \in Nat /\ DOMAIN list = 1..n
  OBVIOUS
<1> HIDE DEF T
<1>1. F \in [1..n -> [T -> T]]
  BY DEF T
<1>2. PICK g : Folds(g, n, T, <<>>, F)
  <2> HIDE DEF F
  <2> QED
    BY <1>0, <1>1, FoldExists
<1>3. \A s \in SUBSET (1..n) : s # {} => Highest(s) \in 1..n
  BY <1>0, GreatestAmong
<1>4. Fixes(g)
  BY <1>0, <1>2, <1>3 DEF Folds
<1>5. Fixes(it)
  <2> HIDE DEF Fixes
  <2> QED
    BY <1>4, Zenon
<1>6. Surface!Among(list, wanted) = it[DOMAIN list]
  BY Zenon DEF Surface!Among, Surface!FoldLeft, Surface!MapThenFoldSet,
               Surface!Max, Highest
<1> HIDE DEF it
<1>7. PICK f : Chain(f, n, T, <<>>, F) /\ it[1..n] = f[n]
  <2>1. it[{}] = <<>>
    BY <1>5
  <2>2. ASSUME NEW s \in SUBSET (1..n), s # {}, it[s \ {Highest(s)}] \in T
        PROVE  it[s] = F[Highest(s)][it[s \ {Highest(s)}]]
    BY <1>0, <1>3, <1>5, <2>2
  <2>3. \A s \in SUBSET (1..n) : s # {} /\ it[s \ {Highest(s)}] \in T
           => it[s] = F[Highest(s)][it[s \ {Highest(s)}]]
    BY <2>2
  <2>4. Unfolds(it, n, T, <<>>, F)
    <3> HIDE DEF F, Fixes, it
    <3> QED
      BY <2>1, <2>3 DEF Unfolds
  <2> HIDE DEF F, Fixes, n
  <2>5. Chained(it, n, T, <<>>, F)
    BY <1>0, <1>1, <2>4, FoldIsChain
  <2> QED
    BY <2>5 DEF Chained
<1>8. \A i \in 1..n : f[i] = Surface!Keep(f[i - 1], list[i], wanted)
  <2> SUFFICES ASSUME NEW i \in 1..n PROVE f[i] = Surface!Keep(f[i - 1], list[i], wanted)
    OBVIOUS
  <2>1. i - 1 \in 0..n
    OBVIOUS
  <2>2. f[i - 1] \in T /\ f[i] = F[i][f[i - 1]]
    <3> HIDE DEF F
    <3> QED
      BY <1>7, <2>1 DEF Chain
  <2> QED
    BY <2>2
<1> QED
  BY <1>0, <1>6, <1>7, <1>8 DEF Chain, T

\* The steps of openai_tools.
LEMMA OffersRun ==
  ASSUME NEW E, NEW list \in Seq(E), NEW T, Surface!NoTools \in T,
         \A s \in T, i \in 1..Len(list) : Surface!Offer(s, list[i]) \in T
  PROVE  \E f \in [0..Len(list) -> T] :
           /\ f[0] = Surface!NoTools
           /\ \A i \in 1..Len(list) : f[i] = Surface!Offer(f[i - 1], list[i])
           /\ Surface!openai_tools(list) = f[Len(list)]
<1> DEFINE n == Len(list)
           F == [i \in 1..n |-> [s \in T |-> Surface!Offer(s, list[i])]]
           Fixes(g) == g = [s \in SUBSET (DOMAIN list) |->
                              IF s = {} THEN Surface!NoTools
                              ELSE Surface!Offer(g[s \ {Highest(s)}], list[Highest(s)])]
           it == CHOOSE g : Fixes(g)
<1>0. Surface!NoTools \in T /\ n \in Nat /\ DOMAIN list = 1..n
  OBVIOUS
<1>1. F \in [1..n -> [T -> T]]
  OBVIOUS
<1>2. PICK g : Folds(g, n, T, Surface!NoTools, F)
  <2> HIDE DEF F
  <2> QED
    BY <1>0, <1>1, FoldExists
<1>3. \A s \in SUBSET (1..n) : s # {} => Highest(s) \in 1..n
  BY <1>0, GreatestAmong
<1>4. Fixes(g)
  BY <1>0, <1>2, <1>3 DEF Folds
<1>5. Fixes(it)
  <2> HIDE DEF Fixes
  <2> QED
    BY <1>4, Zenon
<1>6. Surface!openai_tools(list) = it[DOMAIN list]
  BY Zenon DEF Surface!openai_tools, Surface!FoldLeft, Surface!MapThenFoldSet,
               Surface!Max, Highest
<1> HIDE DEF it
<1>7. PICK f : Chain(f, n, T, Surface!NoTools, F) /\ it[1..n] = f[n]
  <2>1. it[{}] = Surface!NoTools
    BY <1>5
  <2>2. ASSUME NEW s \in SUBSET (1..n), s # {}, it[s \ {Highest(s)}] \in T
        PROVE  it[s] = F[Highest(s)][it[s \ {Highest(s)}]]
    BY <1>0, <1>3, <1>5, <2>2
  <2>3. \A s \in SUBSET (1..n) : s # {} /\ it[s \ {Highest(s)}] \in T
           => it[s] = F[Highest(s)][it[s \ {Highest(s)}]]
    BY <2>2
  <2>4. Unfolds(it, n, T, Surface!NoTools, F)
    <3> HIDE DEF F, Fixes, it
    <3> QED
      BY <2>1, <2>3 DEF Unfolds
  <2> HIDE DEF F, Fixes, n
  <2>5. Chained(it, n, T, Surface!NoTools, F)
    BY <1>0, <1>1, <2>4, FoldIsChain
  <2> QED
    BY <2>5 DEF Chained
<1>8. \A i \in 1..n : f[i] = Surface!Offer(f[i - 1], list[i])
  <2> SUFFICES ASSUME NEW i \in 1..n PROVE f[i] = Surface!Offer(f[i - 1], list[i])
    OBVIOUS
  <2>1. i - 1 \in 0..n
    OBVIOUS
  <2>2. f[i - 1] \in T /\ f[i] = F[i][f[i - 1]]
    <3> HIDE DEF F
    <3> QED
      BY <1>7, <2>1 DEF Chain
  <2> QED
    BY <2>2
<1> QED
  BY <1>0, <1>6, <1>7, <1>8 DEF Chain

\* The slots of the tools that are offered.
declared == s1
reached == s2
known == s3
serving == s4
functions == s5
naming == s6
revealed == s7
said == s8
arriving == s9
moment == s10
executed == s11
USE DEF declared, reached, known, serving, functions, naming, revealed, said, arriving,
        moment, executed

\* An agent lists tools by their names and has a route, and the suffix that a
\* tool gets when its name is taken is in the name of no other tool.
Offers ==
  /\ \A a \in DOMAIN Requested : Requested[a] \in Seq(STRING) /\ Route[a] \in Seq(STRING)
  /\ \A t, u \in DOMAIN Defs :
        t # u => Defs[t].suffixed \notin {Defs[u].safe, Defs[u].suffixed}

\* The members of a list that are wanted are a list of such members.
LEMMA AmongIs ==
  ASSUME NEW E, NEW list \in Seq(E), NEW wanted
  PROVE  /\ Surface!Among(list, wanted) \in Seq(E)
         /\ Surface!ToSet(Surface!Among(list, wanted)) \subseteq wanted
<1> DEFINE n == Len(list)
<1>1. \A s \in Seq(E), i \in 1..Len(list) : Surface!Keep(s, list[i], wanted) \in Seq(E)
  BY DEF Surface!Keep
<1>2. PICK f \in [0..n -> Seq(E)] :
         /\ f[0] = <<>>
         /\ \A i \in 1..n : f[i] = Surface!Keep(f[i - 1], list[i], wanted)
         /\ Surface!Among(list, wanted) = f[n]
  BY <1>1, AmongRuns
<1> DEFINE P == {i \in 0..n : \A j \in DOMAIN f[i] : f[i][j] \in wanted}
<1>3. 0 \in P
  BY <1>2
<1>4. ASSUME NEW i \in 1..n, i - 1 \in P
      PROVE  i \in P
  <2>1. f[i - 1] \in Seq(E) /\ i - 1 \in 0..n /\ i \in 0..n
    BY <1>2
  <2>2. CASE list[i] \in wanted
    <3>1. f[i] = Append(f[i - 1], list[i])
      BY <1>2, <2>2 DEF Surface!Keep
    <3>2. list[i] \in E
      OBVIOUS
    <3> QED
      BY <1>4, <2>1, <2>2, <3>1, <3>2
  <2>3. CASE list[i] \notin wanted
    <3>1. f[i] = f[i - 1]
      BY <1>2, <2>3 DEF Surface!Keep
    <3> QED
      BY <1>4, <2>1, <3>1
  <2> QED
    BY <2>2, <2>3
<1>5. n \in P
  <2>1. n \in Nat /\ n \in 0..n /\ \A i \in 1..n : i - 1 \in P => i \in P
    BY <1>4
  <2> HIDE DEF P
  <2> QED
    BY <1>3, <2>1, Climbs
<1>6. n \in 0..n
  OBVIOUS
<1> QED
  BY <1>2, <1>5, <1>6 DEF Surface!ToSet

\* The names that a tool may get.
NamesOf(t) == {Defs[t].safe, Defs[t].suffixed}
AllNames == UNION {NamesOf(t) : t \in DOMAIN Defs}

\* The functions that are offered and the names they resolve to.
OfferTypes ==
  [offered : Seq([name : AllNames, of : DOMAIN Defs]),
   aliases : UNION {[D -> DOMAIN Defs] : D \in SUBSET AllNames}]

\* A function resolves to the tool it was offered for, under a name of that
\* tool, and every name was offered.
Agreed(surface) ==
  /\ \A i \in DOMAIN surface.offered : LET f == surface.offered[i] IN
        /\ f.name \in DOMAIN surface.aliases /\ surface.aliases[f.name] = f.of
        /\ f.of \in DOMAIN Defs /\ f.name \in NamesOf(f.of)
  /\ \A n \in DOMAIN surface.aliases :
        \E i \in DOMAIN surface.offered :
           surface.offered[i].name = n /\ surface.offered[i].of = surface.aliases[n]

\* To offer one more tool under a name that is free or its own keeps the
\* agreement.
LEMMA NamedAgrees ==
  ASSUME NEW surface \in OfferTypes, Agreed(surface), NEW t \in DOMAIN Defs,
         NEW name \in NamesOf(t),
         \A i \in DOMAIN surface.offered :
            surface.offered[i].name = name => surface.offered[i].of = t
  PROVE  /\ Surface!Named(surface, t, name) \in OfferTypes
         /\ Agreed(Surface!Named(surface, t, name))
<1> DEFINE fs == surface.offered
           gs == Append(fs, [name |-> name, of |-> t])
           al == surface.aliases
           bl == [n \in DOMAIN al \union {name} |-> IF n = name THEN t ELSE al[n]]
<1>1. /\ fs \in Seq([name : AllNames, of : DOMAIN Defs])
      /\ al \in UNION {[D -> DOMAIN Defs] : D \in SUBSET AllNames}
  BY DEF OfferTypes
<1>2. PICK D \in SUBSET AllNames : al \in [D -> DOMAIN Defs]
  BY <1>1
<1>3. name \in AllNames
  BY DEF AllNames
<1>4. [name |-> name, of |-> t] \in [name : AllNames, of : DOMAIN Defs]
  BY <1>3
<1>5. gs \in Seq([name : AllNames, of : DOMAIN Defs])
  BY <1>1, <1>4
<1>6. bl \in [D \union {name} -> DOMAIN Defs] /\ D \union {name} \in SUBSET AllNames
  BY <1>2, <1>3
<1>7. Surface!Named(surface, t, name) = [offered |-> gs, aliases |-> bl]
  BY DEF Surface!Named
<1>8. Len(gs) = Len(fs) + 1 /\ gs[Len(gs)] = [name |-> name, of |-> t]
      /\ DOMAIN gs = DOMAIN fs \union {Len(gs)} /\ \A i \in DOMAIN fs : gs[i] = fs[i]
  BY <1>1, <1>4
<1>9. ASSUME NEW i \in DOMAIN gs
      PROVE  /\ gs[i].name \in DOMAIN bl /\ bl[gs[i].name] = gs[i].of
             /\ gs[i].of \in DOMAIN Defs /\ gs[i].name \in NamesOf(gs[i].of)
  <2>1. CASE i \in DOMAIN fs
    <3>1. gs[i] = fs[i]
      BY <1>8, <2>1
    <3>2. /\ fs[i].name \in DOMAIN al /\ al[fs[i].name] = fs[i].of
          /\ fs[i].of \in DOMAIN Defs /\ fs[i].name \in NamesOf(fs[i].of)
      BY <2>1 DEF Agreed
    <3>3. fs[i].name = name => fs[i].of = t
      BY <2>1
    <3> QED
      BY <3>1, <3>2, <3>3
  <2>2. CASE i = Len(gs)
    BY <1>8, <2>2
  <2> QED
    BY <1>8, <2>1, <2>2
<1>10. ASSUME NEW n \in DOMAIN bl
       PROVE  \E i \in DOMAIN gs : gs[i].name = n /\ gs[i].of = bl[n]
  <2>1. CASE n = name
    BY <1>8, <2>1
  <2>2. CASE n # name
    <3>1. n \in DOMAIN al /\ bl[n] = al[n]
      BY <2>2
    <3>2. PICK i \in DOMAIN fs : fs[i].name = n /\ fs[i].of = al[n]
      BY <3>1 DEF Agreed
    <3> QED
      BY <1>8, <3>1, <3>2
  <2> QED
    BY <2>1, <2>2
<1> HIDE DEF gs, bl
<1> DEFINE more == [offered |-> gs, aliases |-> bl]
<1>11. more.offered = gs /\ more.aliases = bl
  OBVIOUS
<1>12. more \in OfferTypes
  BY <1>5, <1>6 DEF OfferTypes
<1>13. Agreed(more)
  <2> HIDE DEF more
  <2> QED
    BY <1>9, <1>10, <1>11 DEF Agreed
<1> QED
  BY <1>7, <1>12, <1>13

\* Of two tools whose names become equal the later one gets a name of its own.
LEMMA OfferAgrees ==
  ASSUME Offers, NEW surface \in OfferTypes, Agreed(surface), NEW t \in DOMAIN Defs
  PROVE  Surface!Offer(surface, t) \in OfferTypes /\ Agreed(Surface!Offer(surface, t))
<1> DEFINE fs == surface.offered
           al == surface.aliases
           safe == Defs[t].safe
           taken == safe \in DOMAIN al /\ al[safe] # t
           name == IF taken THEN Defs[t].suffixed ELSE safe
<1>1. name \in NamesOf(t)
  BY DEF NamesOf
<1>2. ASSUME NEW i \in DOMAIN fs, fs[i].name = name
      PROVE  fs[i].of = t
  <2>1. /\ fs[i].name \in DOMAIN al /\ al[fs[i].name] = fs[i].of
        /\ fs[i].of \in DOMAIN Defs /\ fs[i].name \in NamesOf(fs[i].of)
    BY DEF Agreed
  <2>2. CASE taken
    BY <1>2, <2>1, <2>2 DEF Offers, NamesOf
  <2>3. CASE ~taken
    BY <1>2, <2>1, <2>3
  <2> QED
    BY <2>2, <2>3
<1>3. Surface!Offer(surface, t) = Surface!Named(surface, t, name)
  BY DEF Surface!Offer
<1> HIDE DEF name
<1> QED
  BY <1>1, <1>2, <1>3, NamedAgrees

\* What openai_tools makes of a catalogue agrees, and offers nothing else.
LEMMA OffersAre ==
  ASSUME Offers, NEW list \in Seq(DOMAIN Defs)
  PROVE  LET surface == Surface!openai_tools(list) IN
           /\ surface \in OfferTypes /\ Agreed(surface)
           /\ \A n \in DOMAIN surface.aliases :
                 surface.aliases[n] \in Surface!ToSet(list)
<1> DEFINE n == Len(list)
           only(s) == \A m \in DOMAIN s.aliases : s.aliases[m] \in Surface!ToSet(list)
           T == {s \in OfferTypes : Agreed(s) /\ only(s)}
<1>1. Surface!NoTools \in T
  <2>1. [m \in {} |-> ""] \in [{} -> DOMAIN Defs] /\ {} \in SUBSET AllNames
    OBVIOUS
  <2>2. Surface!NoTools \in OfferTypes
    <3>1. [m \in {} |-> ""] \in UNION {[D -> DOMAIN Defs] : D \in SUBSET AllNames}
      BY <2>1
    <3>2. <<>> \in Seq([name : AllNames, of : DOMAIN Defs])
      OBVIOUS
    <3> QED
      BY <3>1, <3>2 DEF OfferTypes, Surface!NoTools
  <2>3. Surface!NoTools.offered = <<>> /\ DOMAIN Surface!NoTools.aliases = {}
    BY DEF Surface!NoTools
  <2> QED
    BY <2>2, <2>3 DEF Agreed
<1>2. ASSUME NEW s \in T, NEW i \in 1..n
      PROVE  Surface!Offer(s, list[i]) \in T
  <2>1. list[i] \in DOMAIN Defs /\ list[i] \in Surface!ToSet(list)
    BY DEF Surface!ToSet
  <2>2. Surface!Offer(s, list[i]) \in OfferTypes /\ Agreed(Surface!Offer(s, list[i]))
    BY <2>1, OfferAgrees
  <2>3. only(Surface!Offer(s, list[i]))
    BY <2>1 DEF Surface!Offer, Surface!Named
  <2> QED
    BY <2>2, <2>3
<1>3. \A s \in T, i \in 1..Len(list) : Surface!Offer(s, list[i]) \in T
  BY <1>2
<1> HIDE DEF T
<1>4. PICK f \in [0..n -> T] : Surface!openai_tools(list) = f[n]
  BY <1>1, <1>3, OffersRun
<1>5. n \in 0..n
  OBVIOUS
<1>6. Surface!openai_tools(list) \in T
  BY <1>4, <1>5
<1> QED
  BY <1>6 DEF T

-----------------------------------------------------------------------------
\* Names resolve to what was offered, and only what the agent may use and the
\* candidate declared a use for is offered.
SurfaceInv ==
  /\ known \subseteq DOMAIN Defs
  /\ serving \in DOMAIN Requested
  /\ Agreed([offered |-> functions, aliases |-> naming])
  /\ \A n \in DOMAIN naming :
        naming[n] \in Surface!MCP => serving # "ReportAgent" /\ Surface!Useful(naming[n])
  /\ moment \in {"attach", "catalog"} => executed = {}
  /\ Surface!RunsAsOffered

\* Before the catalogue nothing is offered.
LEMMA SurfaceStart ==
  ASSUME Surface!Init
  PROVE  SurfaceInv
<1>1. /\ known \subseteq DOMAIN Defs /\ serving \in DOMAIN Requested
      /\ functions = <<>> /\ naming = [n \in {} |-> ""] /\ executed = {}
  BY DEF Surface!Init
<1>2. Agreed([offered |-> functions, aliases |-> naming])
  BY <1>1 DEF Agreed
<1>3. Surface!RunsAsOffered
  BY <1>1 DEF Surface!RunsAsOffered
<1> QED
  BY <1>1, <1>2, <1>3 DEF SurfaceInv

\* What the catalogue of an agent has is known, and of the public tools only
\* those that are of use and of its route.
LEMMA CatalogIs ==
  ASSUME Offers, SurfaceInv
  PROVE  /\ Surface!catalog_for_agent \in Seq(DOMAIN Defs)
         /\ \A t \in Surface!ToSet(Surface!catalog_for_agent) :
               t \in Surface!MCP => serving # "ReportAgent" /\ Surface!Useful(t)
<1> DEFINE routed == Surface!tools_for_agent
           more == Surface!Among(routed,
                      Surface!ToSet(routed) \ Surface!ToSet(Requested[serving]))
           names == Requested[serving] \o more
           fit == {t \in known : /\ t \in Surface!MCP => t \in Surface!ToSet(routed)
                                 /\ serving # "ReportAgent" => Surface!Useful(t)}
           list == Surface!Among(names, fit)
<1>1. Requested[serving] \in Seq(STRING) /\ Route[serving] \in Seq(STRING)
  BY DEF Offers, SurfaceInv
<1>2. routed \in Seq(STRING)
  <2>1. CASE serving = "ReportAgent"
    BY <2>1 DEF Surface!tools_for_agent
  <2>2. CASE serving # "ReportAgent"
    BY <1>1, <2>2, AmongIs DEF Surface!tools_for_agent
  <2> QED
    BY <2>1, <2>2
<1>3. serving = "ReportAgent" => Surface!ToSet(routed) = {}
  BY DEF Surface!tools_for_agent, Surface!ToSet
<1> HIDE DEF routed
<1>4. more \in Seq(STRING)
  BY <1>2, AmongIs
<1> HIDE DEF more
<1>5. names \in Seq(STRING)
  BY <1>1, <1>4
<1> HIDE DEF names
<1>6. list \in Seq(STRING) /\ Surface!ToSet(list) \subseteq fit
  BY <1>5, AmongIs
<1>7. Surface!catalog_for_agent = list
  BY DEF Surface!catalog_for_agent, names, more, routed
<1> HIDE DEF list
<1>8. list \in Seq(DOMAIN Defs)
  <2>1. \A i \in DOMAIN list : list[i] \in DOMAIN Defs
    BY <1>6 DEF Surface!ToSet, SurfaceInv
  <2> QED
    BY <1>6, <2>1
<1> QED
  BY <1>3, <1>6, <1>7, <1>8

\* What a call that ran has to be.
Resolved(c) ==
  /\ c.tool # Surface!Section =>
        /\ {f.of : f \in {g \in Surface!ToSet(functions) : g.name = c.name}} = {c.tool}
        /\ c.arrived \in {<<>>, Surface!Object}
        /\ c.tool \in Surface!MCP => serving # "ReportAgent" /\ Surface!Useful(c.tool)
        /\ Defs[c.tool].server = "deepwiki" => c.repo = declared.repo
  /\ c.tool = Surface!Section =>
        \/ c.arrived = <<>>
        \/ /\ Surface!IsPrefix(Surface!Object, c.arrived)
           /\ Surface!IsPrefix(c.arrived, Surface!Object \o Surface!Object)

\* A section is its object, or that object followed by a beginning of itself.
LEMMA SectionIs ==
  ASSUME NEW text, Surface!_parse_native_tool_arguments(text, TRUE)
  PROVE  \/ text = <<>>
         \/ /\ Surface!IsPrefix(Surface!Object, text)
            /\ Surface!IsPrefix(text, Surface!Object \o Surface!Object)
<1>1. CASE text = <<>>
  BY <1>1
<1>2. CASE text = Surface!Object
  BY <1>2 DEF Surface!Object, Surface!IsPrefix
<1>3. CASE text = Surface!Object \o SubSeq(Surface!Object, 1, 1)
  BY <1>3 DEF Surface!Object, Surface!IsPrefix
<1>4. CASE text = Surface!Object \o SubSeq(Surface!Object, 1, 2)
  BY <1>4 DEF Surface!Object, Surface!IsPrefix
<1> QED
  BY <1>1, <1>2, <1>3, <1>4 DEF Surface!_parse_native_tool_arguments

\* A call that is taken resolves to the tool that was offered under its name.
LEMMA CallResolved ==
  ASSUME SurfaceInv, NEW i \in DOMAIN said, Surface!Taken(i)
  PROVE  Resolved(Surface!Call(i))
<1> DEFINE c == Surface!Call(i)
           name == said[i].name
           tool == naming[name]
<1> SUFFICES Resolved(c)
  OBVIOUS
<1>1. /\ c.name = name /\ c.arrived = Surface!Arrived(i)
      /\ c.tool = IF name = Surface!Section THEN Surface!Section ELSE tool
      /\ c.repo = IF name # Surface!Section /\ Defs[tool].server = "deepwiki"
                  THEN declared.repo ELSE Surface!NoRepo
  BY DEF Surface!Call
<1> HIDE DEF c
<1>2. CASE name # Surface!Section
  <2>1. /\ name \in DOMAIN naming /\ c.tool = tool
        /\ Surface!_parse_native_tool_arguments(c.arrived, FALSE)
    BY <1>1, <1>2 DEF Surface!Taken, Surface!Executed
  <2>2. c.arrived \in {<<>>, Surface!Object}
    BY <2>1 DEF Surface!_parse_native_tool_arguments
  <2>3. {f.of : f \in {g \in Surface!ToSet(functions) : g.name = name}} = {tool}
    <3>1. \A j \in DOMAIN functions : functions[j].name = name => functions[j].of = tool
      BY DEF SurfaceInv, Agreed
    <3>2. \E j \in DOMAIN functions : functions[j].name = name /\ functions[j].of = tool
      BY <2>1 DEF SurfaceInv, Agreed
    <3> QED
      BY <3>1, <3>2 DEF Surface!ToSet
  <2>4. tool \in Surface!MCP => serving # "ReportAgent" /\ Surface!Useful(tool)
    BY <2>1 DEF SurfaceInv
  <2>5. Defs[tool].server = "deepwiki" => c.repo = declared.repo
    BY <1>1, <1>2
  <2>6. c.tool = Surface!Section =>
           \/ c.arrived = <<>>
           \/ /\ Surface!IsPrefix(Surface!Object, c.arrived)
              /\ Surface!IsPrefix(c.arrived, Surface!Object \o Surface!Object)
    BY <2>2, SectionIs DEF Surface!_parse_native_tool_arguments
  <2> HIDE DEF name, tool
  <2> QED
    BY <1>1, <1>2, <2>1, <2>2, <2>3, <2>4, <2>5, <2>6 DEF Resolved
<1>3. CASE name = Surface!Section
  <2>1. c.tool = Surface!Section /\ Surface!_parse_native_tool_arguments(c.arrived, TRUE)
    BY <1>1, <1>3 DEF Surface!Taken, Surface!Executed
  <2>2. \/ c.arrived = <<>>
        \/ /\ Surface!IsPrefix(Surface!Object, c.arrived)
           /\ Surface!IsPrefix(c.arrived, Surface!Object \o Surface!Object)
    BY <2>1, SectionIs
  <2> QED
    BY <2>1, <2>2 DEF Resolved
<1> QED
  BY <1>2, <1>3

\* A step that changes no offer keeps what is promised of it, if every call
\* that it runs is the one that was offered.
LEMMA SameOffer ==
  ASSUME SurfaceInv, UNCHANGED <<declared, serving, functions, naming>>,
         known' \subseteq DOMAIN Defs,
         moment' \in {"attach", "catalog"} => executed' = {},
         \A c \in executed' : Resolved(c)
  PROVE  SurfaceInv'
<1>1. \A t : Surface!Useful(t)' = Surface!Useful(t)
  BY DEF Surface!Useful
<1>2. Agreed([offered |-> functions, aliases |-> naming])'
  BY DEF SurfaceInv, Agreed
<1>3. \A n \in DOMAIN naming' : naming'[n] \in Surface!MCP
         => serving' # "ReportAgent" /\ Surface!Useful(naming'[n])
  BY DEF SurfaceInv
<1>4. (\A n \in DOMAIN naming :
          naming[n] \in Surface!MCP => serving # "ReportAgent" /\ Surface!Useful(naming[n]))'
  BY <1>3 DEF Surface!Useful
<1>5. Surface!RunsAsOffered'
  BY DEF Surface!RunsAsOffered, Resolved, Surface!Useful
<1>6. serving' \in DOMAIN Requested
  BY DEF SurfaceInv
<1> QED
  BY <1>2, <1>4, <1>5, <1>6 DEF SurfaceInv

\* The functions and the names they resolve to are made once, for one agent.
LEMMA SurfaceKeeps ==
  ASSUME Offers, SurfaceInv, [Surface!Next]_Surface!tsvars
  PROVE  SurfaceInv'
<1>0. \A c \in executed : Resolved(c)
  BY DEF SurfaceInv, Surface!RunsAsOffered, Resolved
<1>1. CASE Surface!register_into
  <2>1. /\ UNCHANGED <<declared, serving, functions, naming, executed>>
        /\ known' = known \union {t \in Surface!MCP : Defs[t].server \in reached}
        /\ executed = {}
    BY <1>1 DEF Surface!register_into, SurfaceInv
  <2>2. known' \subseteq DOMAIN Defs
    BY <2>1 DEF SurfaceInv, Surface!MCP
  <2> QED
    BY <2>1, <2>2, SameOffer
<1>2. ASSUME NEW s \in Surface!Servers, Surface!Health(s) PROVE SurfaceInv'
  <2>1. UNCHANGED <<declared, known, serving, functions, naming, moment, executed>>
    BY <1>2 DEF Surface!Health
  <2> QED
    BY <1>0, <2>1, SameOffer DEF SurfaceInv
<1>3. CASE Surface!Catalog
  <2> DEFINE surface == Surface!openai_tools(Surface!catalog_for_agent)
  <2>1. /\ moment = "catalog" /\ moment' = "turn"
        /\ functions' = surface.offered /\ naming' = surface.aliases
        /\ UNCHANGED <<declared, known, serving, executed>>
    BY <1>3 DEF Surface!Catalog
  <2>2. /\ surface \in OfferTypes /\ Agreed(surface)
        /\ \A n \in DOMAIN surface.aliases :
              surface.aliases[n] \in Surface!ToSet(Surface!catalog_for_agent)
    BY CatalogIs, OffersAre
  <2>3. \A n \in DOMAIN surface.aliases : surface.aliases[n] \in Surface!MCP
           => serving # "ReportAgent" /\ Surface!Useful(surface.aliases[n])
    BY <2>2, CatalogIs
  <2> HIDE DEF surface
  <2>4. executed' = {} /\ moment' = "turn"
    BY <2>1 DEF SurfaceInv
  <2>5. Agreed([offered |-> functions, aliases |-> naming])'
    BY <2>1, <2>2 DEF Agreed
  <2>6. (\A n \in DOMAIN naming : naming[n] \in Surface!MCP
           => serving # "ReportAgent" /\ Surface!Useful(naming[n]))'
    BY <2>1, <2>3 DEF Surface!Useful
  <2>7. Surface!RunsAsOffered'
    BY <2>4 DEF Surface!RunsAsOffered
  <2>8. known' \subseteq DOMAIN Defs /\ serving' \in DOMAIN Requested
    BY <2>1 DEF SurfaceInv
  <2> QED
    BY <2>4, <2>5, <2>6, <2>7, <2>8 DEF SurfaceInv
<1>4. ASSUME NEW words \in Streams, NEW kind \in {"actions", "final", "section"},
             Surface!Turn(words, kind)
      PROVE  SurfaceInv'
  <2>1. UNCHANGED <<declared, known, serving, functions, naming>> /\ executed' = {}
    BY <1>4 DEF Surface!Turn
  <2> QED
    BY <2>1, SameOffer DEF SurfaceInv
<1>5. ASSUME NEW i \in DOMAIN said, Surface!_invoke_stream(i) PROVE SurfaceInv'
  <2>1. UNCHANGED <<declared, known, serving, functions, naming, moment, executed>>
    BY <1>5 DEF Surface!_invoke_stream
  <2> QED
    BY <1>0, <2>1, SameOffer DEF SurfaceInv
<1>6. CASE Surface!Resolve
  <2>1. /\ moment' = "turn"
        /\ executed' = {Surface!Call(i) : i \in {j \in DOMAIN said : Surface!Taken(j)}}
        /\ UNCHANGED <<declared, known, serving, functions, naming>>
    BY <1>6 DEF Surface!Resolve
  <2>2. \A c \in executed' : Resolved(c)
    BY <2>1, CallResolved
  <2> QED
    BY <2>1, <2>2, SameOffer DEF SurfaceInv
<1>7. CASE UNCHANGED Surface!tsvars
  <2>1. UNCHANGED <<declared, known, serving, functions, naming, moment, executed>>
    BY <1>7 DEF Surface!tsvars
  <2> QED
    BY <1>0, <2>1, SameOffer DEF SurfaceInv
<1> QED
  BY <1>1, <1>2, <1>3, <1>4, <1>5, <1>6, <1>7 DEF Surface!Next

-----------------------------------------------------------------------------
(***************************************************************************)
(* The local tools.                                                        *)
(***************************************************************************)

\* The steps of extract_timeline.
LEMMA DatesRun ==
  ASSUME NEW list \in Seq(Lines), NEW T, <<>> \in T,
         \A s \in T, i \in 1..Len(list) : Builtin!Dated(s, list[i]) \in T
  PROVE  \E f \in [0..Len(list) -> T] :
           /\ f[0] = <<>>
           /\ \A i \in 1..Len(list) : f[i] = Builtin!Dated(f[i - 1], list[i])
           /\ Builtin!extract_timeline(list) = f[Len(list)]
<1> DEFINE n == Len(list)
           F == [i \in 1..n |-> [s \in T |-> Builtin!Dated(s, list[i])]]
           Fixes(g) == g = [s \in SUBSET (DOMAIN list) |->
                              IF s = {} THEN <<>>
                              ELSE Builtin!Dated(g[s \ {Highest(s)}], list[Highest(s)])]
           it == CHOOSE g : Fixes(g)
<1>0. <<>> \in T /\ n \in Nat /\ DOMAIN list = 1..n
  OBVIOUS
<1>1. F \in [1..n -> [T -> T]]
  OBVIOUS
<1>2. PICK g : Folds(g, n, T, <<>>, F)
  <2> HIDE DEF F
  <2> QED
    BY <1>0, <1>1, FoldExists
<1>3. \A s \in SUBSET (1..n) : s # {} => Highest(s) \in 1..n
  BY <1>0, GreatestAmong
<1>4. Fixes(g)
  BY <1>0, <1>2, <1>3 DEF Folds
<1>5. Fixes(it)
  <2> HIDE DEF Fixes
  <2> QED
    BY <1>4, Zenon
<1>6. Builtin!extract_timeline(list) = it[DOMAIN list]
  BY Zenon DEF Builtin!extract_timeline, Builtin!FoldLeft, Builtin!MapThenFoldSet,
               Builtin!Max, Highest
<1> HIDE DEF it
<1>7. PICK f : Chain(f, n, T, <<>>, F) /\ it[1..n] = f[n]
  <2>1. it[{}] = <<>>
    BY <1>5
  <2>2. ASSUME NEW s \in SUBSET (1..n), s # {}, it[s \ {Highest(s)}] \in T
        PROVE  it[s] = F[Highest(s)][it[s \ {Highest(s)}]]
    BY <1>0, <1>3, <1>5, <2>2
  <2>3. \A s \in SUBSET (1..n) : s # {} /\ it[s \ {Highest(s)}] \in T
           => it[s] = F[Highest(s)][it[s \ {Highest(s)}]]
    BY <2>2
  <2>4. Unfolds(it, n, T, <<>>, F)
    <3> HIDE DEF F, Fixes, it
    <3> QED
      BY <2>1, <2>3 DEF Unfolds
  <2> HIDE DEF F, Fixes, n
  <2>5. Chained(it, n, T, <<>>, F)
    BY <1>0, <1>1, <2>4, FoldIsChain
  <2> QED
    BY <2>5 DEF Chained
<1>8. \A i \in 1..n : f[i] = Builtin!Dated(f[i - 1], list[i])
  <2> SUFFICES ASSUME NEW i \in 1..n PROVE f[i] = Builtin!Dated(f[i - 1], list[i])
    OBVIOUS
  <2>1. i - 1 \in 0..n
    OBVIOUS
  <2>2. f[i - 1] \in T /\ f[i] = F[i][f[i - 1]]
    <3> HIDE DEF F
    <3> QED
      BY <1>7, <2>1 DEF Chain
  <2> QED
    BY <2>2
<1> QED
  BY <1>0, <1>6, <1>7, <1>8 DEF Chain

\* The slots of the local tools.
lines == s1
claimed == s2
drafted == s3
outcome == s4
USE DEF lines, claimed, drafted, outcome

\* A period has a start and an end, or is open; claims are finite sets of terms.
Resumes ==
  /\ \A line \in Lines : \/ line.period = Builtin!NoPeriod
                         \/ line.period \in [start : Nat, end : Nat \union {Builtin!Open}]
  /\ Now \in Nat
  /\ \A c \in Claims : IsFiniteSet(c)

\* A period from a month to a month.
Months == [start : Nat, end : Nat]

\* The sizes of sets are the same in the module of the tools.
LEMMA BuiltinSizes == ASSUME NEW S PROVE Builtin!Cardinality(S) = Cardinality(S)
BY Zenon DEF Builtin!Cardinality, Cardinality

\* The periods of a resume are made of numbers.
LEMMA TimelineIs ==
  ASSUME Resumes, NEW text \in Seq(Lines)
  PROVE  Builtin!extract_timeline(text)
            \in Seq([start : Nat, end : Nat \union {Builtin!Open}])
<1> DEFINE P == [start : Nat, end : Nat \union {Builtin!Open}]
           n == Len(text)
<1>1. \A s \in Seq(P), i \in 1..Len(text) : Builtin!Dated(s, text[i]) \in Seq(P)
  <2> SUFFICES ASSUME NEW s \in Seq(P), NEW i \in 1..Len(text)
               PROVE  Builtin!Dated(s, text[i]) \in Seq(P)
    OBVIOUS
  <2>1. text[i] \in Lines
    OBVIOUS
  <2>2. text[i].period = Builtin!NoPeriod \/ text[i].period \in P
    BY <2>1 DEF Resumes
  <2> HIDE DEF P
  <2> QED
    BY <2>2 DEF Builtin!Dated
<1>2. <<>> \in Seq(P) /\ n \in 0..n
  OBVIOUS
<1> HIDE DEF P
<1>3. PICK f \in [0..n -> Seq(P)] : Builtin!extract_timeline(text) = f[n]
  BY <1>1, <1>2, DatesRun
<1>4. f[n] \in Seq(P)
  BY <1>2
<1> QED
  BY <1>3, <1>4 DEF P

\* Some places of a list of periods can be put in the order of the sort: the
\* first is the least index of those with the least start.
LEMMA OrderExists ==
  ASSUME NEW n \in Nat, NEW ps \in [1..n -> Months], NEW kept \in SUBSET (1..n)
  PROVE  \E f \in [1..Cardinality(kept) -> kept] :
            \A i, j \in DOMAIN f : i < j => Builtin!Earlier(ps, f[i], f[j])
<1> DEFINE Ordered(f) == \A i, j \in DOMAIN f : i < j => Builtin!Earlier(ps, f[i], f[j])
           P == {k \in 0..n : \A T \in SUBSET (1..n) :
                    Cardinality(T) = k => \E f \in [1..k -> T] : Ordered(f)}
<1>1. 0 \in P
  <2>1. 1..0 = {} /\ 0 \in 0..n
    OBVIOUS
  <2>2. \A T : [i \in {} |-> 0] \in [{} -> T] /\ Ordered([i \in {} |-> 0])
    OBVIOUS
  <2> HIDE DEF Ordered
  <2> QED
    BY <2>1, <2>2
<1>2. ASSUME NEW k \in 1..n, k - 1 \in P
      PROVE  k \in P
  <2> SUFFICES ASSUME NEW T \in SUBSET (1..n), Cardinality(T) = k
               PROVE  \E f \in [1..k -> T] : Ordered(f)
    OBVIOUS
  <2>1. IsFiniteSet(T) /\ T # {}
    <3>1. IsFiniteSet(1..n)
      BY FS_Interval
    <3>2. IsFiniteSet(T)
      BY <3>1, FS_Subset
    <3>3. Cardinality({}) # k
      BY FS_EmptySet
    <3> QED
      BY <3>2, <3>3
  <2> DEFINE starts == {ps[t].start : t \in T}
  <2>2. starts \subseteq Nat /\ starts # {}
    BY <2>1 DEF Months
  <2>3. PICK x \in starts : \A y \in starts : x <= y
    BY <2>2, Lowest
  <2> DEFINE U == {t \in T : ps[t].start = x}
  <2>4. U \subseteq Nat /\ U # {}
    <3>1. PICK t \in T : x = ps[t].start
      BY <2>3
    <3>2. T \subseteq Nat
      <4>1. 1..n \subseteq Nat
        OBVIOUS
      <4> QED
        BY <4>1, Zenon
    <3> HIDE DEF starts
    <3> QED
      BY <3>1, <3>2
  <2>5. PICK m \in U : \A y \in U : m <= y
    BY <2>4, Lowest
  <2>6. \A t \in T \ {m} : Builtin!Earlier(ps, m, t)
    <3> SUFFICES ASSUME NEW t \in T \ {m} PROVE Builtin!Earlier(ps, m, t)
      OBVIOUS
    <3>1. ps[m].start = x /\ ps[t].start \in starts /\ m \in T
      OBVIOUS
    <3>2. x <= ps[t].start /\ ps[t].start \in Nat /\ x \in Nat
      BY <2>2, <2>3, <3>1
    <3>3. ps[t].start = x => m <= t
      BY <2>5
    <3>4. m \in Nat /\ t \in Nat /\ m # t
      BY <3>1
    <3> HIDE DEF starts, U
    <3> QED
      BY <3>1, <3>2, <3>3, <3>4 DEF Builtin!Earlier
  <2>7. Cardinality(T \ {m}) = k - 1 /\ T \ {m} \in SUBSET (1..n)
    BY <2>1, FS_RemoveElement
  <2>8. PICK g \in [1..(k - 1) -> T \ {m}] : Ordered(g)
    BY <1>2, <2>7
  <2> DEFINE f == [i \in 1..k |-> IF i = 1 THEN m ELSE g[i - 1]]
  <2>9. \A i \in 1..k : i # 1 => i - 1 \in 1..(k - 1)
    OBVIOUS
  <2>10. f \in [1..k -> T]
    BY <2>8, <2>9
  <2>11. Ordered(f)
    <3> SUFFICES ASSUME NEW i \in 1..k, NEW j \in 1..k, i < j
                 PROVE  Builtin!Earlier(ps, f[i], f[j])
      OBVIOUS
    <3>1. j # 1 /\ j - 1 \in 1..(k - 1) /\ f[j] = g[j - 1]
      BY <2>9
    <3>2. CASE i = 1
      <4>1. f[i] = m /\ g[j - 1] \in T \ {m}
        BY <2>8, <3>1, <3>2
      <4> QED
        BY <2>6, <3>1, <4>1
    <3>3. CASE i # 1
      <4>1. i - 1 \in 1..(k - 1) /\ f[i] = g[i - 1] /\ i - 1 < j - 1
        BY <2>9, <3>3
      <4> HIDE DEF f
      <4> QED
        BY <2>8, <3>1, <4>1
    <3> QED
      BY <3>2, <3>3
  <2> HIDE DEF f, Ordered
  <2> QED
    BY <2>10, <2>11
<1>3. \A i \in 0..n : i \in P
  <2>1. \A k \in 1..n : k - 1 \in P => k \in P
    BY <1>2
  <2> HIDE DEF P
  <2> QED
    BY <1>1, <2>1, Climbs
<1>4. IsFiniteSet(1..n) /\ Cardinality(1..n) = n
  BY FS_Interval
<1>5. Cardinality(kept) \in 0..n
  <2>1. IsFiniteSet(kept) /\ Cardinality(kept) <= n
    <3>1. IsFiniteSet(kept) /\ Cardinality(kept) <= Cardinality(1..n)
      BY <1>4, FS_Subset, Zenon
    <3> HIDE DEF P
    <3> QED
      BY <1>4, <3>1
  <2>2. Cardinality(kept) \in Nat
    BY <2>1, FS_CardinalityType
  <2> QED
    BY <2>1, <2>2
<1> QED
  BY <1>3, <1>5

\* The sort leaves the periods that are not inverted, by their start.
LEMMA NormalizedIs ==
  ASSUME NEW n \in Nat, NEW ps \in [1..n -> Months]
  PROVE  LET q == Builtin!Normalized(ps) IN
           /\ q \in Seq(Months)
           /\ \A i, j \in DOMAIN q : i < j => q[i].start <= q[j].start
           /\ \A i \in DOMAIN q : q[i].start <= q[i].end
           /\ \A k \in 1..n : ps[k].end >= ps[k].start => \E i \in DOMAIN q : q[i] = ps[k]
<1> DEFINE kept == {i \in DOMAIN ps : ps[i].end >= ps[i].start}
           c == Builtin!Cardinality(kept)
           Ordered(f) == \A i, j \in DOMAIN f : i < j => Builtin!Earlier(ps, f[i], f[j])
           order == CHOOSE f \in [1..c -> kept] : Ordered(f)
           q == [k \in DOMAIN order |-> ps[order[k]]]
<1>1. kept \in SUBSET (1..n) /\ \A k \in kept : ps[k] \in Months
  OBVIOUS
<1>2. IsFiniteSet(kept) /\ c \in Nat /\ c = Cardinality(kept)
  <2>1. IsFiniteSet(1..n)
    BY FS_Interval
  <2> HIDE DEF kept
  <2>2. IsFiniteSet(kept)
    BY <1>1, <2>1, FS_Subset
  <2>3. c = Cardinality(kept)
    BY BuiltinSizes
  <2> QED
    BY <2>2, <2>3, FS_CardinalityType
<1>3. Builtin!Normalized(ps) = q
  BY Zenon DEF Builtin!Normalized
<1>4. order \in [1..c -> kept] /\ Ordered(order)
  <2>1. \E f \in [1..c -> kept] : Ordered(f)
    <3> HIDE DEF kept
    <3> QED
      BY <1>1, <1>2, OrderExists
  <2> HIDE DEF Ordered, c, kept
  <2> QED
    BY <2>1
<1> HIDE DEF order
<1>5. \A i, j \in 1..c : i < j =>
         ps[order[i]].start <= ps[order[j]].start /\ order[i] # order[j]
  <2> SUFFICES ASSUME NEW i \in 1..c, NEW j \in 1..c, i < j
               PROVE  ps[order[i]].start <= ps[order[j]].start /\ order[i] # order[j]
    OBVIOUS
  <2>1. Builtin!Earlier(ps, order[i], order[j])
    BY <1>4
  <2>2. order[i] \in kept /\ order[j] \in kept
    BY <1>4
  <2>3. ps[order[i]].start \in Nat /\ ps[order[j]].start \in Nat
        /\ order[i] \in Nat /\ order[j] \in Nat
    BY <1>1, <2>2 DEF Months
  <2> HIDE DEF kept
  <2> QED
    BY <2>1, <2>3 DEF Builtin!Earlier
<1>6. \A k \in kept : \E i \in 1..c : order[i] = k
  <2>1. \A i, j \in 1..c : order[i] = order[j] => i = j
    <3> SUFFICES ASSUME NEW i \in 1..c, NEW j \in 1..c, i # j PROVE order[i] # order[j]
      OBVIOUS
    <3>1. i < j \/ j < i
      BY <1>2
    <3> QED
      BY <1>5, <3>1
  <2>2. order \in Injection(1..c, kept)
    <3> HIDE DEF kept, c, Ordered
    <3> QED
      BY <1>4, <2>1, Zenon DEF Injection, IsInjective
  <2>3. Cardinality(1..c) = c
    BY <1>2, FS_Interval
  <2>4. order \in Surjection(1..c, kept)
    <3> HIDE DEF kept, c
    <3> QED
      BY <1>2, <2>2, <2>3, FS_Injection
  <2> QED
    BY <2>4 DEF Surjection
<1>7. q \in Seq(Months) /\ DOMAIN q = 1..c /\ \A i \in 1..c : q[i] = ps[order[i]]
  <2>1. \A i \in 1..c : ps[order[i]] \in Months
    BY <1>1, <1>4
  <2> HIDE DEF kept, c
  <2> QED
    BY <1>2, <1>4, <2>1
<1>8. \A i \in 1..c : q[i].start <= q[i].end
  <2> SUFFICES ASSUME NEW i \in 1..c PROVE q[i].start <= q[i].end
    OBVIOUS
  <2>1. order[i] \in kept /\ q[i] = ps[order[i]] /\ q[i] \in Months
    BY <1>1, <1>4, <1>7
  <2>2. ps[order[i]].end >= ps[order[i]].start
    BY <2>1
  <2> HIDE DEF q, kept
  <2> QED
    BY <2>1, <2>2 DEF Months
<1>9. ASSUME NEW k \in 1..n, ps[k].end >= ps[k].start
      PROVE  \E i \in DOMAIN q : q[i] = ps[k]
  <2>1. k \in kept
    BY <1>9
  <2>2. PICK i \in 1..c : order[i] = k
    BY <1>6, <2>1
  <2> QED
    BY <1>7, <2>2
<1>10. \A i, j \in DOMAIN q : i < j => q[i].start <= q[j].start
  BY <1>5, <1>7
<1> HIDE DEF q, c, kept
<1> QED
  BY <1>3, <1>7, <1>8, <1>9, <1>10

\* The periods of a resume, with the open ones ended now.
LEMMA EndedIs ==
  ASSUME Resumes, NEW text \in Seq(Lines)
  PROVE  LET dated == Builtin!extract_timeline(text) IN
           \A i \in DOMAIN dated : Builtin!Ended(dated[i]) \in Months
<1> DEFINE dated == Builtin!extract_timeline(text)
<1> SUFFICES ASSUME NEW i \in DOMAIN dated PROVE Builtin!Ended(dated[i]) \in Months
  OBVIOUS
<1> DEFINE P == [start : Nat, end : Nat \union {Builtin!Open}]
<1>1. dated \in Seq(P)
  BY TimelineIs
<1>2. dated[i] \in P
  <2> HIDE DEF dated, P
  <2> QED
    BY <1>1
<1> HIDE DEF dated
<1> QED
  BY <1>2 DEF Builtin!Ended, Months, Resumes

\* What the check of a timeline promises, of its result and the valid periods.
Conclusive(timeline, valid) ==
  /\ (\E p, q \in valid : p # q /\ Builtin!Meet(p, q)) => timeline.overlaps # {}
  /\ \A o \in timeline.overlaps : o[1].start <= o[2].start /\ o[2].start < o[1].end
  /\ timeline.overlaps = {} => \A g \in timeline.gaps :
        \A p \in valid : p.end <= g[1] \/ p.start >= g[2]

\* When no period reaches into the next one, none reaches into any later one,
\* as these begin no earlier.
LEMMA NeighboursSuffice ==
  ASSUME NEW q \in Seq(Months),
         \A i, j \in DOMAIN q : i < j => q[i].start <= q[j].start,
         \A i \in 2..Len(q) : ~(q[i - 1].end - q[i].start > 0),
         NEW a \in DOMAIN q, NEW b \in DOMAIN q, a < b
  PROVE  q[a].end <= q[b].start
<1>1. a + 1 \in 2..Len(q) /\ a + 1 \in DOMAIN q /\ a = (a + 1) - 1
  OBVIOUS
<1>2. q[a] \in Months /\ q[a + 1] \in Months /\ q[b] \in Months
  <2>1. \A i \in DOMAIN q : q[i] \in Months
    OBVIOUS
  <2> QED
    BY <1>1, <2>1, Zenon
<1>3. q[a].end <= q[a + 1].start
  <2>1. ~(q[a].end - q[a + 1].start > 0)
    BY <1>1
  <2> QED
    BY <1>2, <2>1 DEF Months
<1>4. q[a + 1].start <= q[b].start
  <2>1. CASE b = a + 1
    BY <1>2, <2>1 DEF Months
  <2>2. CASE b # a + 1
    <3>1. a + 1 < b
      BY <2>2
    <3> QED
      BY <1>1, <3>1
  <2> QED
    BY <2>1, <2>2
<1> QED
  BY <1>2, <1>3, <1>4 DEF Months

\* Sorted periods compared with their neighbours: every conflict shows.
LEMMA SortedConcludes ==
  ASSUME NEW q \in Seq(Months), NEW timeline, NEW valid,
         \A i, j \in DOMAIN q : i < j => q[i].start <= q[j].start,
         \A i \in DOMAIN q : q[i].start <= q[i].end,
         \A p \in valid : \E i \in DOMAIN q : q[i] = p,
         timeline.overlaps = {<<q[i - 1], q[i]>> :
                                 i \in {j \in 2..Len(q) : q[j - 1].end - q[j].start > 0}},
         timeline.gaps = {<<q[i - 1].end, q[i].start>> :
                             i \in {j \in 2..Len(q) : -(q[j - 1].end - q[j].start) >= 6}}
  PROVE  Conclusive(timeline, valid)
<1>0. \A i \in DOMAIN q : q[i] \in Months
  OBVIOUS
<1>1. ASSUME timeline.overlaps = {}
      PROVE  \A i \in 2..Len(q) : ~(q[i - 1].end - q[i].start > 0)
  <2> SUFFICES ASSUME NEW i \in 2..Len(q), q[i - 1].end - q[i].start > 0 PROVE FALSE
    OBVIOUS
  <2>1. <<q[i - 1], q[i]>> \in timeline.overlaps
    OBVIOUS
  <2> QED
    BY <1>1, <2>1
<1>2. ASSUME timeline.overlaps = {}, NEW a \in DOMAIN q, NEW b \in DOMAIN q, a < b
      PROVE  q[a].end <= q[b].start
  BY <1>1, <1>2, NeighboursSuffice
<1>3. ASSUME NEW p \in valid, NEW r \in valid, p # r, Builtin!Meet(p, r)
      PROVE  timeline.overlaps # {}
  <2> SUFFICES ASSUME timeline.overlaps = {} PROVE FALSE
    OBVIOUS
  <2>1. PICK a \in DOMAIN q : q[a] = p
    OBVIOUS
  <2>2. PICK b \in DOMAIN q : q[b] = r
    OBVIOUS
  <2>3. p \in Months /\ r \in Months /\ p.start < r.end /\ r.start < p.end
    BY <1>0, <1>3, <2>1, <2>2 DEF Builtin!Meet
  <2>4. a < b \/ b < a
    BY <1>3, <2>1, <2>2
  <2>5. p.end <= r.start \/ r.end <= p.start
    BY <1>2, <2>1, <2>2, <2>4
  <2> QED
    BY <2>3, <2>5 DEF Months
<1>4. ASSUME NEW o \in timeline.overlaps
      PROVE  o[1].start <= o[2].start /\ o[2].start < o[1].end
  <2>1. PICK i \in 2..Len(q) : q[i - 1].end - q[i].start > 0 /\ o = <<q[i - 1], q[i]>>
    BY <1>4
  <2>2. i \in DOMAIN q /\ i - 1 \in DOMAIN q /\ i - 1 < i
    OBVIOUS
  <2>3. q[i - 1].start <= q[i].start /\ q[i] \in Months /\ q[i - 1] \in Months
    BY <1>0, <2>2
  <2>4. o[1] = q[i - 1] /\ o[2] = q[i]
    BY <2>1
  <2>5. q[i - 1].end \in Nat /\ q[i].start \in Nat
    BY <2>3 DEF Months
  <2>6. q[i].start < q[i - 1].end
    BY <2>1, <2>5
  <2> QED
    BY <2>3, <2>4, <2>6
<1>5. ASSUME timeline.overlaps = {}, NEW g \in timeline.gaps, NEW p \in valid
      PROVE  p.end <= g[1] \/ p.start >= g[2]
  <2>1. PICK i \in 2..Len(q) : g = <<q[i - 1].end, q[i].start>>
    BY <1>5
  <2>2. PICK k \in DOMAIN q : q[k] = p
    OBVIOUS
  <2>3. i \in DOMAIN q /\ i - 1 \in DOMAIN q /\ i \in Int /\ k \in Int
    OBVIOUS
  <2>4. q[i] \in Months /\ q[i - 1] \in Months /\ q[k] \in Months
    BY <1>0, <2>3
  <2>5. g[1] = q[i - 1].end /\ g[2] = q[i].start
    BY <2>1
  <2>6. CASE k < i - 1
    <3>1. q[k].end <= q[i - 1].start /\ q[i - 1].start <= q[i - 1].end
      BY <1>2, <1>5, <2>3, <2>6
    <3>2. q[k].end \in Nat /\ q[i - 1].start \in Nat /\ q[i - 1].end \in Nat
      BY <2>4 DEF Months
    <3>3. q[k].end <= q[i - 1].end
      BY <3>1, <3>2
    <3> QED
      BY <2>2, <2>5, <3>3
  <2>7. CASE k = i - 1
    BY <2>2, <2>4, <2>5, <2>7 DEF Months
  <2>8. CASE k = i
    BY <2>2, <2>4, <2>5, <2>8 DEF Months
  <2>9. CASE i < k
    <3>1. q[i].start <= q[k].start
      BY <2>3, <2>9
    <3> QED
      BY <2>2, <2>4, <2>5, <3>1 DEF Months
  <2> QED
    BY <2>3, <2>6, <2>7, <2>8, <2>9
<1> QED
  BY <1>3, <1>4, <1>5 DEF Conclusive

\* The check of the timeline misses no conflict altogether.
LEMMA TimelineConcludes ==
  ASSUME Resumes, lines \in Seq(Lines)
  PROVE  Conclusive(Builtin!check_timeline, Builtin!Valid)
<1> DEFINE dated == Builtin!extract_timeline(lines)
           ps == [i \in DOMAIN dated |-> Builtin!Ended(dated[i])]
           q == Builtin!Normalized(ps)
           timeline == Builtin!check_timeline
           n == Len(dated)
<1>1. dated \in Seq([start : Nat, end : Nat \union {Builtin!Open}])
  BY TimelineIs
<1>2. n \in Nat /\ DOMAIN dated = 1..n
  BY <1>1
<1>3. ps \in [1..n -> Months]
  BY <1>2, EndedIs
<1>4. /\ timeline.overlaps = {<<q[i - 1], q[i]>> :
                                 i \in {j \in 2..Len(q) : q[j - 1].end - q[j].start > 0}}
      /\ timeline.gaps = {<<q[i - 1].end, q[i].start>> :
                             i \in {j \in 2..Len(q) : -(q[j - 1].end - q[j].start) >= 6}}
  BY DEF Builtin!check_timeline
<1>5. \A p \in Builtin!Valid : \E k \in 1..n : ps[k] = p /\ ps[k].end >= ps[k].start
  <2> SUFFICES ASSUME NEW p \in Builtin!Valid
               PROVE  \E k \in 1..n : ps[k] = p /\ ps[k].end >= ps[k].start
    OBVIOUS
  <2>1. p.end >= p.start /\ \E r \in Builtin!ToSet(dated) : p = Builtin!Ended(r)
    BY DEF Builtin!Valid
  <2>2. PICK k \in 1..n : p = Builtin!Ended(dated[k])
    BY <1>2, <2>1 DEF Builtin!ToSet
  <2> QED
    BY <1>2, <2>1, <2>2
<1> HIDE DEF ps, n
<1>6. /\ q \in Seq(Months)
      /\ \A i, j \in DOMAIN q : i < j => q[i].start <= q[j].start
      /\ \A i \in DOMAIN q : q[i].start <= q[i].end
      /\ \A k \in 1..n : ps[k].end >= ps[k].start => \E i \in DOMAIN q : q[i] = ps[k]
  BY <1>2, <1>3, NormalizedIs
<1> HIDE DEF q, timeline
<1>7. \A p \in Builtin!Valid : \E i \in DOMAIN q : q[i] = p
  BY <1>5, <1>6
<1> QED
  BY <1>4, <1>6, <1>7, SortedConcludes DEF timeline

\* A claim that is located is covered: a line has no more of its terms than the
\* whole resume.
LEMMA LocatedIsCovered ==
  ASSUME Resumes, claimed \in {{}, Claims}, Builtin!locate_evidence.success,
         NEW c \in claimed, Builtin!locate_evidence.line[c] # 0
  PROVE  c \in Builtin!calculate_jd_coverage.covered
<1>1. claimed # {} /\ IsFiniteSet(c)
  BY DEF Resumes
<1> DEFINE Score(i) == Builtin!Hits(c, lines[i].terms)
           best == {i \in DOMAIN lines : \A j \in DOMAIN lines : Score(i) >= Score(j)}
           found == \E i \in best : Score(i) > 0 /\ 10 * Score(i) >= 4 * Builtin!Cardinality(c)
<1>2. Builtin!locate_evidence.line[c] = IF found THEN Builtin!Min(best) ELSE 0
  BY <1>1, Zenon DEF Builtin!locate_evidence
<1>3. PICK i \in DOMAIN lines : Score(i) > 0 /\ 10 * Score(i) >= 4 * Builtin!Cardinality(c)
  BY <1>2
<1> HIDE DEF best, found
<1>4. /\ Score(i) = Cardinality(c \intersect lines[i].terms)
      /\ Builtin!Hits(c, Builtin!Text) = Cardinality(c \intersect Builtin!Text)
      /\ Builtin!Cardinality(c) = Cardinality(c)
  BY BuiltinSizes DEF Builtin!Hits
<1>5. c \intersect lines[i].terms \subseteq c \intersect Builtin!Text
  BY DEF Builtin!Text
<1>6. IsFiniteSet(c \intersect Builtin!Text) /\ Cardinality(c) \in Nat
  BY <1>1, FS_Subset, FS_CardinalityType
<1>7. /\ Cardinality(c \intersect lines[i].terms) <= Cardinality(c \intersect Builtin!Text)
      /\ IsFiniteSet(c \intersect lines[i].terms)
  BY <1>5, <1>6, FS_Subset
<1>8. Cardinality(c \intersect lines[i].terms) \in Nat
      /\ Cardinality(c \intersect Builtin!Text) \in Nat
  BY <1>6, <1>7, FS_CardinalityType
<1> HIDE DEF Score
<1>9. Builtin!Covered(c)
  BY <1>3, <1>4, <1>6, <1>7, <1>8 DEF Builtin!Covered
<1> QED
  BY <1>1, <1>9 DEF Builtin!calculate_jd_coverage

\* The last place of some places of a list.
LEMMA LastIs ==
  ASSUME NEW S, NEW x \in S, S \subseteq Int, \A y \in S : x >= y
  PROVE  Builtin!Max(S) = x
<1>1. Builtin!Max(S) = Highest(S)
  BY Zenon DEF Builtin!Max, Highest
<1> QED
  BY <1>1, GreatestIs

\* A line that is no title is in the section of the line before it, or in the one
\* that this line opens.
LEMMA SectionsFollow ==
  ASSUME lines \in Seq(Lines), Builtin!parse_resume.success, NEW i \in 2..Len(lines),
         lines[i].title = "none"
  PROVE  \/ Builtin!parse_resume.sections[i] = Builtin!parse_resume.sections[i - 1]
         \/ Builtin!parse_resume.sections[i] = lines[i - 1].title
<1> DEFINE before(k) == {j \in 1..(k - 1) : lines[j].title # "none"}
           section(k) == IF lines[k].title # "none" THEN "title"
                         ELSE IF before(k) = {} THEN "none"
                         ELSE lines[Builtin!Max(before(k))].title
<1>1. i \in DOMAIN lines /\ i - 1 \in DOMAIN lines /\ lines # <<>>
  OBVIOUS
<1>2. \A k \in DOMAIN lines : Builtin!parse_resume.sections[k] = section(k)
  BY <1>1, Zenon DEF Builtin!parse_resume
<1>3. CASE lines[i - 1].title # "none"
  <2>1. i - 1 \in before(i) /\ before(i) \subseteq Int /\ \A y \in before(i) : i - 1 >= y
    BY <1>3
  <2>2. Builtin!Max(before(i)) = i - 1
    <3> HIDE DEF before
    <3> QED
      BY <2>1, LastIs
  <2>3. section(i) = lines[i - 1].title
    <3> HIDE DEF before
    <3> QED
      BY <2>1, <2>2
  <2> QED
    BY <1>1, <1>2, <2>3
<1>4. CASE lines[i - 1].title = "none"
  <2>1. before(i) = before(i - 1)
    <3>1. \A j : j \in 1..(i - 1) <=> j \in 1..((i - 1) - 1) \/ j = i - 1
      OBVIOUS
    <3> QED
      BY <1>4, <3>1
  <2>2. section(i) = section(i - 1)
    <3> HIDE DEF before
    <3> QED
      BY <1>4, <2>1
  <2> QED
    BY <1>1, <1>2, <2>2
<1> QED
  BY <1>3, <1>4

-----------------------------------------------------------------------------
\* What a tool has said is what it says of this resume.
BuiltinInv ==
  /\ lines \in Seq(Lines)
  /\ claimed \in {{}, Claims}
  /\ "check_timeline" \in DOMAIN outcome => outcome["check_timeline"] = Builtin!check_timeline
  /\ "parse_resume" \in DOMAIN outcome => outcome["parse_resume"] = Builtin!parse_resume
  /\ "locate_evidence" \in DOMAIN outcome =>
        outcome["locate_evidence"] = Builtin!locate_evidence
  /\ "calculate_jd_coverage" \in DOMAIN outcome =>
        outcome["calculate_jd_coverage"] = Builtin!calculate_jd_coverage

\* No tool has run.
LEMMA BuiltinStart ==
  ASSUME Builtin!Init, MaxLines \in Nat
  PROVE  BuiltinInv
<1>1. claimed \in {{}, Claims} /\ DOMAIN outcome = {}
  BY DEF Builtin!Init
<1>2. PICK n \in 0..MaxLines : lines \in [1..n -> Lines]
  BY DEF Builtin!Init
<1>3. lines \in Seq(Lines)
  BY <1>2
<1> QED
  BY <1>1, <1>3 DEF BuiltinInv

\* What the tools say depends on the resume and the claims only.
LEMMA SameAnswers ==
  ASSUME UNCHANGED <<lines, claimed>>
  PROVE  /\ Builtin!check_timeline' = Builtin!check_timeline
         /\ Builtin!parse_resume' = Builtin!parse_resume
         /\ Builtin!locate_evidence' = Builtin!locate_evidence
         /\ Builtin!calculate_jd_coverage' = Builtin!calculate_jd_coverage
<1>1. Builtin!extract_timeline(lines)' = Builtin!extract_timeline(lines)
  BY Zenon DEF Builtin!extract_timeline
<1>2. Builtin!check_timeline' = Builtin!check_timeline
  BY <1>1, Zenon DEF Builtin!check_timeline
<1>3. Builtin!parse_resume' = Builtin!parse_resume
  BY Zenon DEF Builtin!parse_resume
<1>4. Builtin!locate_evidence' = Builtin!locate_evidence
  BY DEF Builtin!locate_evidence
<1>5. Builtin!calculate_jd_coverage' = Builtin!calculate_jd_coverage
  <2>1. Builtin!Text' = Builtin!Text
    BY Zenon DEF Builtin!Text
  <2>2. \A c : Builtin!Covered(c)' <=> Builtin!Covered(c)
    BY <2>1, Zenon DEF Builtin!Covered
  <2>3. {c \in claimed : Builtin!Covered(c)}' = {c \in claimed : Builtin!Covered(c)}
    BY <2>2
  <2> QED
    BY <2>3, Zenon DEF Builtin!calculate_jd_coverage
<1> QED
  BY <1>2, <1>3, <1>4, <1>5

\* A tool that runs adds its answer.
LEMMA BuiltinKeeps ==
  ASSUME BuiltinInv, [Builtin!Next]_Builtin!bvars
  PROVE  BuiltinInv'
<1>1. ASSUME NEW t, Builtin!run_tool(t) PROVE BuiltinInv'
  <2>1. UNCHANGED <<lines, claimed>>
    BY <1>1 DEF Builtin!run_tool
  <2>2. DOMAIN outcome' = DOMAIN outcome \union {t}
    BY <1>1 DEF Builtin!run_tool
  <2>3. \A u \in DOMAIN outcome : u # t => outcome'[u] = outcome[u]
    BY <1>1 DEF Builtin!run_tool
  <2>4. t = "check_timeline" => outcome'[t] = Builtin!check_timeline
    BY <1>1 DEF Builtin!run_tool
  <2>5. t = "parse_resume" => outcome'[t] = Builtin!parse_resume
    BY <1>1 DEF Builtin!run_tool
  <2>6. t = "locate_evidence" => outcome'[t] = Builtin!locate_evidence
    BY <1>1 DEF Builtin!run_tool
  <2>7. t = "calculate_jd_coverage" => outcome'[t] = Builtin!calculate_jd_coverage
    BY <1>1 DEF Builtin!run_tool
  <2> QED
    BY <2>1, <2>2, <2>3, <2>4, <2>5, <2>6, <2>7, SameAnswers DEF BuiltinInv
<1>2. CASE UNCHANGED Builtin!bvars
  <2>1. UNCHANGED <<lines, claimed, outcome>>
    BY <1>2 DEF Builtin!bvars
  <2> QED
    BY <2>1, SameAnswers DEF BuiltinInv
<1> QED
  BY <1>1, <1>2 DEF Builtin!Next

\* The answers of the tools agree.
LEMMA BuiltinAgrees ==
  ASSUME Resumes, BuiltinInv
  PROVE  Builtin!ToolsAgree
<1>1. ASSUME Builtin!Ran("check_timeline")
      PROVE  Conclusive(outcome["check_timeline"], Builtin!Valid)
  BY <1>1, TimelineConcludes DEF BuiltinInv, Builtin!Ran
<1>2. ASSUME Builtin!Ran("calculate_jd_coverage"), Builtin!Ran("locate_evidence"),
             NEW c \in claimed, outcome["locate_evidence"].line[c] # 0
      PROVE  c \in outcome["calculate_jd_coverage"].covered
  BY <1>2, LocatedIsCovered DEF BuiltinInv, Builtin!Ran
<1>3. ASSUME Builtin!Ran("parse_resume"), NEW i \in 2..Len(lines), lines[i].title = "none"
      PROVE  \/ outcome["parse_resume"].sections[i] = outcome["parse_resume"].sections[i - 1]
             \/ outcome["parse_resume"].sections[i] = lines[i - 1].title
  BY <1>3, SectionsFollow DEF BuiltinInv, Builtin!Ran
<1> QED
  BY <1>1, <1>2, <1>3 DEF Builtin!ToolsAgree, Conclusive
==============================================================================

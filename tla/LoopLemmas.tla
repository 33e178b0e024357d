------------------------------ MODULE LoopLemmas ------------------------------
(***************************************************************************)
(* Induction for the proofs about loops.  A loop of the code over a queue, *)
(* a list of arguments or the receivers of a message is a recursive        *)
(* function of the number of rounds.  The theorems of NaturalsInduction    *)
(* take the property to show as an operator; here it is the set of numbers *)
(* that have it.                                                           *)
(***************************************************************************)
EXTENDS WellFoundedInduction, TLAPS

\* The library's well-founded sets give a minimum of every set of numbers.
LEMMA LeastElement ==
  ASSUME NEW T \in SUBSET Nat, T # {}
  PROVE  \E m \in T : \A n \in T : ~(n < m)
<1>1. IsWellFoundedOn(OpToRel(<, Nat), Nat)
  BY NatLessThanWellFounded
<1>2. PICK m \in T : \A n \in T : <<n, m>> \notin OpToRel(<, Nat)
  BY <1>1, WFMin
<1> QED
  BY <1>2 DEF OpToRel

LEMMA InductionUpTo ==
  ASSUME NEW N \in Nat, NEW T, 0 \in T,
         \A n \in 0..N - 1 : n \in T => n + 1 \in T
  PROVE  0..N \subseteq T
<1> SUFFICES ASSUME (0..N) \ T # {}
             PROVE  FALSE
  OBVIOUS
<1> DEFINE U == (0..N) \ T
<1>1. PICK m \in U : \A n \in U : ~(n < m)
  <2>1. U \in SUBSET Nat /\ U # {}
    OBVIOUS
  <2> QED
    BY <2>1, LeastElement
<1>2. m - 1 \in 0..N - 1 /\ m - 1 \notin T
  BY <1>1
<1> QED
  BY <1>1, <1>2

LEMMA GreatestElement ==
  ASSUME NEW m \in Nat, NEW n \in Nat, NEW T \in SUBSET (m..n), T # {}
  PROVE  \E k \in T : \A j \in T : ~(k < j)
<1> DEFINE U == {n - k : k \in T}
<1>1. U \in SUBSET Nat /\ U # {}
  <2>1. \A k \in T : n - k \in Nat
    OBVIOUS
  <2> QED
    BY <2>1
<1>2. PICK u \in U : \A v \in U : ~(v < u)
  BY <1>1, LeastElement
<1>3. PICK k \in T : u = n - k
  BY <1>2
<1>4. \A j \in T : n - j \in U /\ j \in Int
  OBVIOUS
<1> HIDE DEF U
<1>5. \A j \in T : ~(n - j < n - k)
  BY <1>2, <1>3, <1>4
<1>6. \A j \in T : ~(k < j)
  BY <1>4, <1>5
<1> QED
  BY <1>6

\* f gives the results of m rounds of F that start with q.
Runs(f, m, q, F) == f[0] = q /\ \A n \in 1..m : f[n] = F[n, f[n - 1]]

LEMMA LoopExists ==
  ASSUME NEW N \in Nat, NEW S, NEW q \in S, NEW F \in [(1..N) \X S -> S]
  PROVE  \E f \in [0..N -> S] : Runs(f, N, q, F)
<1> DEFINE T == {m \in 0..N : \E f \in [0..m -> S] : Runs(f, m, q, F)}
<1>1. 0 \in T
  <2>1. [n \in 0..0 |-> q] \in [0..0 -> S] /\ [n \in 0..0 |-> q][0] = q
    OBVIOUS
  <2>2. Runs([n \in 0..0 |-> q], 0, q, F)
    BY <2>1 DEF Runs
  <2> QED
    BY <2>1, <2>2
<1>2. ASSUME NEW n \in 0..N - 1, n \in T
      PROVE  n + 1 \in T
  <2>1. PICK f \in [0..n -> S] : Runs(f, n, q, F)
    BY <1>2
  <2>2. n \in Nat /\ n + 1 \in 1..N
    BY DEF T
  <2>3. f[n] \in S
    BY <2>2
  <2>4. PICK v \in S : v = F[n + 1, f[n]]
    BY <2>2, <2>3
  <2> DEFINE g == [i \in 0..n + 1 |-> IF i = n + 1 THEN v ELSE f[i]]
  <2>5. g \in [0..n + 1 -> S] /\ g[0] = f[0]
    BY <2>2
  <2>6. ASSUME NEW i \in 1..n + 1
        PROVE  g[i] = F[i, g[i - 1]]
    <3>1. CASE i = n + 1
      <4>1. g[i] = v /\ g[i - 1] = f[n]
        BY <3>1, <2>2
      <4> QED
        BY <4>1, <3>1, <2>4
    <3>2. CASE i # n + 1
      <4>1. i \in 1..n
        BY <3>2, <2>2
      <4>2. g[i] = f[i] /\ g[i - 1] = f[i - 1]
        BY <4>1, <2>2
      <4> QED
        BY <4>1, <4>2, <2>1 DEF Runs
    <3> QED
      BY <3>1, <3>2
  <2>7. Runs(g, n + 1, q, F)
    <3> HIDE DEF g
    <3> QED
      BY <2>1, <2>5, <2>6 DEF Runs
  <2> QED
    BY <2>2, <2>5, <2>7
<1>3. N \in T
  <2> HIDE DEF T
  <2>1. 0..N \subseteq T
    BY <1>1, <1>2, InductionUpTo
  <2> QED
    BY <2>1
<1> QED
  BY <1>3

=============================================================================

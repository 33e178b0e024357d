------------------------- MODULE RegistrationProofs -------------------------
(***************************************************************************)
(* Proofs about EventRegistration, for any number of clients and any size  *)
(* of a batch: what is in the queue and in kqueue belongs to whom, and that *)
(* applying one to the other fails for no open client.  The loops over the *)
(* queue are recursive functions, shown to exist with LoopLemmas.           *)
(***************************************************************************)
EXTENDS EventRegistration, LoopLemmas, FiniteSetTheorems, SequenceTheorems

-----------------------------------------------------------------------------
(***************************************************************************)
(* What kevent() does with the changes                                      *)
(***************************************************************************)

ErrorType   == [ident : Descriptors, filter : {"READ", "WRITE"}, udata : Client,
                flag : {"EV_ERROR"}]
ChangesType == [filters : SUBSET FilterType, errors : SUBSET ErrorType]

\* What an entry asks kqueue to watch, and the filter it replaces.
Asked(e)   == [ident |-> e.ident, filter |-> e.filter, udata |-> e.udata]
Same(f, e) == f.ident = e.ident /\ f.filter = e.filter

\* One change replaces or removes the filter it names, or it fails.
LEMMA ChangeApplied ==
  ASSUME NEW acc \in ChangesType, NEW e \in EntryType
  PROVE  /\ ApplyChange(acc, e) \in ChangesType
         /\ \A f : f \in ApplyChange(acc, e).filters <=>
              \/ f \in acc.filters /\ (e.ident \in OpenFds => ~Same(f, e))
              \/ e.ident \in OpenFds /\ e.flags = "EV_ADD" /\ f = Asked(e)
         /\ \A v : v \in ApplyChange(acc, e).errors <=>
              \/ v \in acc.errors
              \/ /\ v = Event(e, "EV_ERROR")
                 /\ \/ e.ident \notin OpenFds
                    \/ e.flags = "EV_DELETE" /\ \A f \in acc.filters : ~Same(f, e)
<1> DEFINE same == {f \in acc.filters : f.ident = e.ident /\ f.filter = e.filter}
           new  == {f \in {[ident |-> e.ident, filter |-> e.filter, udata |-> e.udata]} :
                      e.flags = "EV_ADD"}
<1>1. acc = [filters |-> acc.filters, errors |-> acc.errors]
      /\ acc.filters \in SUBSET FilterType /\ acc.errors \in SUBSET ErrorType
  BY DEF ChangesType
<1>2. Event(e, "EV_ERROR") \in ErrorType /\ Asked(e) \in FilterType
  BY DEF EntryType, ErrorType, FilterType, Event, Asked
<1>3. CASE e.ident \notin OpenFds \/ (e.flags = "EV_DELETE" /\ same = {})
  <2>1. ApplyChange(acc, e) =
          [filters |-> acc.filters, errors |-> acc.errors \union {Event(e, "EV_ERROR")}]
    BY <1>1, <1>3 DEF ApplyChange
  <2>2. e.ident \notin OpenFds \/ (e.flags = "EV_DELETE" /\ \A f \in acc.filters : ~Same(f, e))
    BY <1>3 DEF Same
  <2> QED
    BY <1>1, <1>2, <2>1, <2>2 DEF ChangesType
<1>4. CASE ~(e.ident \notin OpenFds \/ (e.flags = "EV_DELETE" /\ same = {}))
  <2>1. ApplyChange(acc, e) =
          [filters |-> (acc.filters \ same) \union new, errors |-> acc.errors]
    BY <1>1, <1>4 DEF ApplyChange
  <2>2. e.ident \in OpenFds
        /\ ~(e.flags = "EV_DELETE" /\ \A f \in acc.filters : ~Same(f, e))
    BY <1>4 DEF Same
  <2>3. \A f : f \in (acc.filters \ same) \union new <=>
          \/ f \in acc.filters /\ ~Same(f, e)
          \/ e.flags = "EV_ADD" /\ f = Asked(e)
    BY DEF Same, Asked
  <2>4. (acc.filters \ same) \union new \in SUBSET FilterType
    BY <1>1, <1>2, <2>3
  <2> HIDE DEF same, new
  <2> QED
    BY <1>1, <2>1, <2>2, <2>3, <2>4 DEF ChangesType
<1> QED
  BY <1>3, <1>4

Count == Len(mEventRegistrationQueue)

\* AppliedTo is what its definition says.
LEMMA AppliedSteps ==
  ASSUME TypeOK
  PROVE  /\ Count \in Nat
         /\ DOMAIN mEventRegistrationQueue = 1..Count
         /\ \A n \in 1..Count : mEventRegistrationQueue[n] \in EntryType
         /\ AppliedTo[0] = [filters |-> filters, errors |-> {}]
         /\ \A n \in 1..Count :
              AppliedTo[n] = ApplyChange(AppliedTo[n - 1], mEventRegistrationQueue[n])
         /\ \A n \in 0..Count : AppliedTo[n] \in ChangesType
<1> DEFINE base == [filters |-> filters, errors |-> {}]
           F == [x \in (1..Count) \X ChangesType |->
                   ApplyChange(x[2], mEventRegistrationQueue[x[1]])]
           Body(g) == [n \in 0..Count |->
                         IF n = 0 THEN base
                         ELSE ApplyChange(g[n - 1], mEventRegistrationQueue[n])]
<1>1. /\ Count \in Nat
      /\ DOMAIN mEventRegistrationQueue = 1..Count
      /\ \A n \in 1..Count : mEventRegistrationQueue[n] \in EntryType
  BY DEF TypeOK, Count
<1>2. base \in ChangesType
  BY DEF TypeOK, ChangesType
<1>3. \A n \in 1..Count, acc \in ChangesType :
        ApplyChange(acc, mEventRegistrationQueue[n]) \in ChangesType
  BY <1>1, ChangeApplied
<1>4. F \in [(1..Count) \X ChangesType -> ChangesType]
  <2>1. \A x \in (1..Count) \X ChangesType :
          x[1] \in 1..Count /\ x[2] \in ChangesType
    OBVIOUS
  <2>2. \A x \in (1..Count) \X ChangesType :
          ApplyChange(x[2], mEventRegistrationQueue[x[1]]) \in ChangesType
    BY <1>3, <2>1
  <2> QED
    BY <2>2
<1>5. PICK f \in [0..Count -> ChangesType] : Runs(f, Count, base, F)
  <2> HIDE DEF F, base
  <2> QED
    BY <1>1, <1>2, <1>4, LoopExists
<1>6. f = Body(f)
  <2>1. \A n \in 1..Count : f[n] = ApplyChange(f[n - 1], mEventRegistrationQueue[n])
    <3> TAKE n \in 1..Count
    <3>1. n - 1 \in 0..Count
      BY <1>1
    <3>2. f[n - 1] \in ChangesType
      BY <3>1, <1>5
    <3>3. f[n] = F[n, f[n - 1]]
      BY <1>5 DEF Runs
    <3>4. <<n, f[n - 1]>> \in (1..Count) \X ChangesType
      BY <3>2
    <3> QED
      BY <3>3, <3>4
  <2>2. f[0] = base
    BY <1>5 DEF Runs
  <2> HIDE DEF base
  <2>3. \A n \in 0..Count : n # 0 => n \in 1..Count
    BY <1>1
  <2> QED
    BY <2>1, <2>2, <2>3
<1>7. AppliedTo = Body(AppliedTo)
  BY <1>6, Zenon DEF AppliedTo, Count
<1>8. AppliedTo[0] = base
  BY <1>1, <1>7
<1>9. \A n \in 1..Count :
        AppliedTo[n] = ApplyChange(AppliedTo[n - 1], mEventRegistrationQueue[n])
  <2> TAKE n \in 1..Count
  <2>1. n \in 0..Count /\ n # 0
    BY <1>1
  <2> HIDE DEF base
  <2> QED
    BY <1>7, <2>1
<1>10. 0..Count \subseteq {n \in 0..Count : AppliedTo[n] \in ChangesType}
  <2> DEFINE T == {n \in 0..Count : AppliedTo[n] \in ChangesType}
  <2>1. 0 \in T
    BY <1>1, <1>2, <1>8
  <2>2. ASSUME NEW n \in 0..Count - 1, n \in T
        PROVE  n + 1 \in T
    <3>1. n + 1 \in 1..Count /\ n + 1 \in 0..Count /\ (n + 1) - 1 = n
      BY <1>1
    <3>2. AppliedTo[n + 1] = ApplyChange(AppliedTo[n], mEventRegistrationQueue[n + 1])
      BY <1>9, <3>1
    <3> QED
      BY <1>3, <2>2, <3>1, <3>2
  <2>3. 0..Count \subseteq T
    <3> HIDE DEF T
    <3> QED
      BY <1>1, <2>1, <2>2, InductionUpTo
  <2> QED
    BY <2>3
<1> QED
  BY <1>1, <1>8, <1>9, <1>10

\* A filter that is watched stays, unless a change replaces or removes it.
LEMMA Kept ==
  ASSUME TypeOK, NEW w, NEW m \in 0..Count, w \in AppliedTo[m].filters, NEW n \in m..Count,
         \A i \in m + 1..n :
           mEventRegistrationQueue[i].ident \in OpenFds /\ Same(w, mEventRegistrationQueue[i])
           => mEventRegistrationQueue[i].flags = "EV_ADD" /\ w = Asked(mEventRegistrationQueue[i])
  PROVE  w \in AppliedTo[n].filters
<1> DEFINE T == {k \in 0..n - m : w \in AppliedTo[m + k].filters}
<1>1. Count \in Nat /\ m \in Nat /\ n - m \in Nat /\ n \in Nat
  BY AppliedSteps
<1>2. 0 \in T
  BY <1>1
<1>3. ASSUME NEW k \in 0..(n - m) - 1, k \in T
      PROVE  k + 1 \in T
  <2>1. /\ m + k \in 0..Count /\ m + k + 1 \in 1..Count /\ m + k + 1 \in m + 1..n
        /\ (m + k + 1) - 1 = m + k /\ m + (k + 1) = m + k + 1 /\ k + 1 \in 0..n - m
    BY <1>1
  <2>2. AppliedTo[m + k + 1] = ApplyChange(AppliedTo[m + k], mEventRegistrationQueue[m + k + 1])
        /\ AppliedTo[m + k] \in ChangesType
        /\ mEventRegistrationQueue[m + k + 1] \in EntryType
    BY <2>1, AppliedSteps
  <2>3. w \in AppliedTo[m + k].filters
    BY <1>3
  <2>4. w \in AppliedTo[m + k + 1].filters
    BY <2>1, <2>2, <2>3, ChangeApplied
  <2> QED
    BY <2>1, <2>4
<1>4. n - m \in T
  <2>1. n - m \in 0..n - m
    BY <1>1
  <2> HIDE DEF T
  <2> QED
    BY <1>1, <1>2, <1>3, <2>1, InductionUpTo
<1>5. m + (n - m) = n
  BY <1>1
<1> QED
  BY <1>4, <1>5

\* What is watched was watched before or has been added; each filter is watched once;
\* an error belongs to a change that failed.
LEMMA AppliedFrom ==
  ASSUME TypeOK, NEW n \in 0..Count
  PROVE  /\ \A f \in AppliedTo[n].filters :
              \/ f \in filters
              \/ \E i \in 1..n : /\ mEventRegistrationQueue[i].ident \in OpenFds
                                 /\ mEventRegistrationQueue[i].flags = "EV_ADD"
                                 /\ f = Asked(mEventRegistrationQueue[i])
         /\ (\A f, g \in filters : Same(f, g) => f = g)
            => \A f, g \in AppliedTo[n].filters : Same(f, g) => f = g
         /\ \A v \in AppliedTo[n].errors : \E i \in 1..n :
              /\ v = Event(mEventRegistrationQueue[i], "EV_ERROR")
              /\ \/ mEventRegistrationQueue[i].ident \notin OpenFds
                 \/ /\ mEventRegistrationQueue[i].flags = "EV_DELETE"
                    /\ \A f \in AppliedTo[i - 1].filters : ~Same(f, mEventRegistrationQueue[i])
<1> DEFINE Added(f, k) ==
             \E i \in 1..k : /\ mEventRegistrationQueue[i].ident \in OpenFds
                             /\ mEventRegistrationQueue[i].flags = "EV_ADD"
                             /\ f = Asked(mEventRegistrationQueue[i])
           Once(fs) == \A f, g \in fs : Same(f, g) => f = g
           Failed(v, k) ==
             \E i \in 1..k :
              /\ v = Event(mEventRegistrationQueue[i], "EV_ERROR")
              /\ \/ mEventRegistrationQueue[i].ident \notin OpenFds
                 \/ /\ mEventRegistrationQueue[i].flags = "EV_DELETE"
                    /\ \A f \in AppliedTo[i - 1].filters : ~Same(f, mEventRegistrationQueue[i])
           T == {k \in 0..Count : /\ \A f \in AppliedTo[k].filters : f \in filters \/ Added(f, k)
                                  /\ Once(filters) => Once(AppliedTo[k].filters)
                                  /\ \A v \in AppliedTo[k].errors : Failed(v, k)}
<1>1. Count \in Nat
  BY AppliedSteps
<1>2. 0 \in T
  <2>1. AppliedTo[0].filters = filters /\ AppliedTo[0].errors = {} /\ 0 \in 0..Count
    BY <1>1, AppliedSteps
  <2> HIDE DEF Added, Once, Failed
  <2> QED
    BY <2>1
<1>3. ASSUME NEW k \in 0..Count - 1, k \in T
      PROVE  k + 1 \in T
  <2> DEFINE e == mEventRegistrationQueue[k + 1]
             old == AppliedTo[k]
             res == AppliedTo[k + 1]
  <2>1. k \in 0..Count /\ k + 1 \in 0..Count /\ k + 1 \in 1..Count /\ (k + 1) - 1 = k
    BY <1>1
  <2>2. old \in ChangesType /\ e \in EntryType
    BY <2>1, AppliedSteps
  <2>3. res = ApplyChange(old, e)
    BY <2>1, AppliedSteps
  <2>4. /\ \A f : f \in res.filters <=>
              \/ f \in old.filters /\ (e.ident \in OpenFds => ~Same(f, e))
              \/ e.ident \in OpenFds /\ e.flags = "EV_ADD" /\ f = Asked(e)
        /\ \A v : v \in res.errors <=>
              \/ v \in old.errors
              \/ /\ v = Event(e, "EV_ERROR")
                 /\ \/ e.ident \notin OpenFds
                    \/ e.flags = "EV_DELETE" /\ \A f \in old.filters : ~Same(f, e)
    <3> HIDE DEF old, e, res
    <3> QED
      BY <2>2, <2>3, ChangeApplied
  <2>5. \A f \in res.filters : f \in filters \/ Added(f, k + 1)
    <3> TAKE f \in res.filters
    <3>1. CASE f \in old.filters
      <4>1. f \in filters \/ Added(f, k)
        BY <1>3, <3>1
      <4>2. \A i \in 1..k : i \in 1..k + 1
        BY <2>1
      <4> QED
        BY <4>1, <4>2
    <3>2. CASE e.ident \in OpenFds /\ e.flags = "EV_ADD" /\ f = Asked(e)
      BY <2>1, <3>2
    <3> HIDE DEF res, old, e, Added
    <3> QED
      BY <2>4, <3>1, <3>2
  <2>6. Once(filters) => Once(res.filters)
    <3> SUFFICES ASSUME Once(filters), NEW f \in res.filters, NEW g \in res.filters, Same(f, g)
                 PROVE  f = g
      OBVIOUS
    <3>1. Once(old.filters)
      BY <1>3
    <3>2. Same(Asked(e), g) => Same(g, e)
      BY DEF Same, Asked
    <3>3. Same(f, Asked(e)) => Same(f, e)
      BY DEF Same, Asked
    <3> HIDE DEF res, old, e
    <3> QED
      BY <2>4, <3>1, <3>2, <3>3
  <2>7. \A v \in res.errors : Failed(v, k + 1)
    <3> TAKE v \in res.errors
    <3>1. CASE v \in old.errors
      <4>1. Failed(v, k)
        BY <1>3, <3>1
      <4>2. \A i \in 1..k : i \in 1..k + 1
        BY <2>1
      <4> QED
        BY <4>1, <4>2
    <3>2. CASE /\ v = Event(e, "EV_ERROR")
               /\ \/ e.ident \notin OpenFds
                  \/ e.flags = "EV_DELETE" /\ \A f \in old.filters : ~Same(f, e)
      <4>1. k + 1 \in 1..k + 1
        BY <2>1
      <4> QED
        BY <2>1, <3>2, <4>1
    <3> HIDE DEF res, old, e, Failed
    <3> QED
      BY <2>4, <3>1, <3>2
  <2> HIDE DEF Added, Once, Failed
  <2> QED
    BY <2>1, <2>5, <2>6, <2>7
<1>4. n \in T
  <2> HIDE DEF T
  <2> QED
    BY <1>1, <1>2, <1>3, InductionUpTo
<1> QED
  BY <1>4

-----------------------------------------------------------------------------
(***************************************************************************)
(* What the loop of forceDisconnectClient does with the queue               *)
(***************************************************************************)

\* The entries of r are entries of q, each at most once.
Places(q, r) == {p \in [DOMAIN r -> DOMAIN q] :
                   /\ \A k \in DOMAIN r : r[k] = q[p[k]]
                   /\ \A j, k \in DOMAIN r : p[j] = p[k] => j = k}

\* r is q without entries for fd, not necessarily all of them, in any order.
Thinned(q, r, fd) ==
  /\ r \in Seq(EntryType)
  /\ \E p \in Places(q, r) :
       \A j \in DOMAIN q : q[j].ident # fd => \E k \in DOMAIN r : p[k] = j
  /\ (\A j \in DOMAIN q : q[j].ident # fd) => r = q

LEMMA ThinnedReflexive ==
  ASSUME NEW q \in Seq(EntryType), NEW fd
  PROVE  Thinned(q, q, fd)
<1>1. [k \in DOMAIN q |-> k] \in Places(q, q)
  BY DEF Places
<1> QED
  BY <1>1 DEF Thinned

\* One more entry may go.
LEMMA RemoveAtThins ==
  ASSUME NEW q \in Seq(EntryType), NEW fd, NEW r, Thinned(q, r, fd), NEW i \in Nat \ {0}
  PROVE  Thinned(q, RemoveAtIndex(r, i, fd), fd)
<1>1. r \in Seq(EntryType) /\ Len(r) \in Nat /\ DOMAIN r = 1..Len(r)
  BY DEF Thinned
<1>2. CASE ~(i <= Len(r) /\ r[i].ident = fd)
  BY <1>2 DEF RemoveAtIndex
<1>3. CASE i <= Len(r) /\ r[i].ident = fd
  <2> DEFINE n == Len(r)
             s == RemoveAtIndex(r, i, fd)
  <2>1. i \in 1..n /\ n \in Nat /\ n \in 1..n /\ n - 1 \in Nat /\ DOMAIN r = 1..n
    BY <1>1, <1>3
  <2>2. s = SubSeq([r EXCEPT ![i] = r[n]], 1, n - 1)
    <3>1. Len([r EXCEPT ![i] = r[n]]) = n
      BY <1>1, <2>1
    <3> QED
      BY <1>3, <3>1 DEF RemoveAtIndex, Front, ReplaceAt, Last
  <2>3. [r EXCEPT ![i] = r[n]] \in Seq(EntryType)
    BY <1>1, <2>1
  <2>4. /\ s \in Seq(EntryType) /\ Len(s) = n - 1 /\ DOMAIN s = 1..n - 1
        /\ \A k \in 1..n - 1 : s[k] = IF k = i THEN r[n] ELSE r[k]
    <3>1. Len([r EXCEPT ![i] = r[n]]) = n
      BY <1>1, <2>1
    <3> HIDE DEF s, n
    <3> QED
      BY <1>1, <2>1, <2>2, <2>3, <3>1
  <2> HIDE DEF n, s
  <2>5. PICK p \in Places(q, r) :
          \A j \in DOMAIN q : q[j].ident # fd => \E k \in DOMAIN r : p[k] = j
    BY DEF Thinned
  <2>6. /\ p \in [1..n -> DOMAIN q]
        /\ \A k \in 1..n : r[k] = q[p[k]]
        /\ \A j, k \in 1..n : p[j] = p[k] => j = k
    <3>1. /\ p \in [DOMAIN r -> DOMAIN q]
          /\ \A k \in DOMAIN r : r[k] = q[p[k]]
          /\ \A j, k \in DOMAIN r : p[j] = p[k] => j = k
      BY <2>5 DEF Places
    <3> QED
      BY <2>1, <3>1, Zenon
  <2> DEFINE p2 == [k \in 1..n - 1 |-> IF k = i THEN p[n] ELSE p[k]]
  <2>7. p2 \in Places(q, s)
    <3>1. \A k \in 1..n - 1 : k \in 1..n /\ k # n
      BY <2>1
    <3>2. p2 \in [DOMAIN s -> DOMAIN q]
      BY <2>1, <2>4, <2>6, <3>1
    <3>3. \A k \in DOMAIN s : s[k] = q[p2[k]]
      BY <2>1, <2>4, <2>6, <3>1
    <3>4. \A j, k \in DOMAIN s : p2[j] = p2[k] => j = k
      BY <2>1, <2>4, <2>6, <3>1
    <3> QED
      BY <3>2, <3>3, <3>4 DEF Places
  <2>8. ASSUME NEW j \in DOMAIN q, q[j].ident # fd
        PROVE  \E k \in DOMAIN s : p2[k] = j
    <3>1. PICK k \in 1..n : p[k] = j
      BY <2>1, <2>5, <2>8
    <3>2. k # i
      BY <1>3, <2>6, <2>8, <3>1
    <3>3. CASE k = n
      <4>1. i \in 1..n - 1
        BY <2>1, <3>2, <3>3
      <4> QED
        BY <2>4, <3>1, <3>3, <4>1
    <3>4. CASE k # n
      <4>1. k \in 1..n - 1
        BY <2>1, <3>4
      <4> QED
        BY <2>4, <3>1, <3>2, <4>1
    <3> QED
      BY <3>3, <3>4
  <2>9. ~\A j \in DOMAIN q : q[j].ident # fd
    BY <1>3, <2>1, <2>6
  <2>10. Thinned(q, s, fd)
    <3> HIDE DEF p2
    <3> QED
      BY <2>4, <2>7, <2>8, <2>9 DEF Thinned
  <2> QED
    BY <2>10 DEF s
<1> QED
  BY <1>2, <1>3

LEMMA RemoveEntriesThins ==
  ASSUME NEW q \in Seq(EntryType), NEW fd
  PROVE  Thinned(q, RemoveEntries(q, fd), fd)
<1> DEFINE N == Len(q)
           S == {r \in Seq(EntryType) : Thinned(q, r, fd)}
           F == [x \in (1..N) \X S |-> RemoveAtIndex(x[2], x[1], fd)]
           Body(g) == [i \in 0..N |-> IF i = 0 THEN q ELSE RemoveAtIndex(g[i - 1], i, fd)]
           Removed == CHOOSE g : g = Body(g)
<1>1. N \in Nat
  OBVIOUS
<1>2. q \in S
  BY ThinnedReflexive
<1>3. \A i \in 1..N, r \in S : RemoveAtIndex(r, i, fd) \in S
  <2> TAKE i \in 1..N, r \in S
  <2>1. i \in Nat \ {0}
    BY <1>1
  <2>2. Thinned(q, RemoveAtIndex(r, i, fd), fd)
    BY <2>1, RemoveAtThins
  <2> QED
    BY <2>2 DEF Thinned
<1>4. F \in [(1..N) \X S -> S]
  <2> HIDE DEF S, N
  <2>1. \A x \in (1..N) \X S : x[1] \in 1..N /\ x[2] \in S
    OBVIOUS
  <2>2. \A x \in (1..N) \X S : RemoveAtIndex(x[2], x[1], fd) \in S
    BY <1>3, <2>1
  <2> QED
    BY <2>2
<1>5. PICK f \in [0..N -> S] : Runs(f, N, q, F)
  <2> HIDE DEF F, S, N
  <2> QED
    BY <1>1, <1>2, <1>4, LoopExists
<1>6. f = Body(f)
  <2> HIDE DEF S, N
  <2>1. \A n \in 1..N : f[n] = RemoveAtIndex(f[n - 1], n, fd)
    <3> TAKE n \in 1..N
    <3>1. n - 1 \in 0..N
      BY <1>1
    <3>2. f[n - 1] \in S
      BY <3>1, <1>5
    <3>3. f[n] = F[n, f[n - 1]]
      BY <1>5 DEF Runs
    <3>4. <<n, f[n - 1]>> \in (1..N) \X S
      BY <3>2
    <3> QED
      BY <3>3, <3>4
  <2>2. f[0] = q
    BY <1>5 DEF Runs
  <2>3. \A n \in 0..N : n # 0 => n \in 1..N
    BY <1>1
  <2> QED
    BY <2>1, <2>2, <2>3
<1>7. Removed = Body(Removed)
  BY <1>6, Zenon
<1>8. 0..N \subseteq {i \in 0..N : Removed[i] \in S}
  <2> DEFINE T == {i \in 0..N : Removed[i] \in S}
  <2> HIDE DEF S, N, Removed
  <2>1. 0 \in T
    BY <1>1, <1>2, <1>7
  <2>2. ASSUME NEW n \in 0..N - 1, n \in T
        PROVE  n + 1 \in T
    <3>1. n + 1 \in 1..N /\ n + 1 \in 0..N /\ (n + 1) - 1 = n /\ n + 1 # 0
      BY <1>1
    <3>2. Removed[n + 1] = RemoveAtIndex(Removed[n], n + 1, fd)
      BY <1>7, <3>1
    <3> QED
      BY <1>3, <2>2, <3>1, <3>2
  <2>3. 0..N \subseteq T
    <3> HIDE DEF T
    <3> QED
      BY <1>1, <2>1, <2>2, InductionUpTo
  <2> QED
    BY <2>3
<1>9. RemoveEntries(q, fd) = Removed[N]
  BY DEF RemoveEntries
<1> QED
  <2> HIDE DEF Removed, N
  <2> QED
    BY <1>1, <1>8, <1>9

-----------------------------------------------------------------------------
(***************************************************************************)
(* The inductive invariant                                                  *)
(***************************************************************************)

\* What kqueue watches for c and filter.
Watch(filter, c) == [ident |-> hSocket[c], filter |-> filter, udata |-> c]
Change(flags, w) ==
  [ident |-> w.ident, filter |-> w.filter, flags |-> flags, udata |-> w.udata]

\* Clients accepted in this batch: neither watched nor part of an event yet.
Fresh(c) ==
  /\ \A f \in filters : f.udata # c
  /\ \A e \in observedEvents : e.udata # c

ClientEvents == observedEvents \ {ListenEvent}

\* An open client has its descriptor alone.
DescriptorsDiffer == \A c, d \in Open : hSocket[c] = hSocket[d] => c = d

\* kqueue watches open descriptors, each filter once, READ for an open client.
FiltersInv ==
  \A f \in filters :
    /\ f.udata \in accepted /\ f.ident = hSocket[f.udata]
    /\ f.ident \in OpenFds
    /\ f.filter = "READ" => f.udata \in Open
    /\ \A g \in filters : g.ident = f.ident /\ g.filter = f.filter => g = f

\* READ is only ever added, for a client that nothing is known of yet, so that no
\* such entry can outlive its client.
ReadEntriesInv ==
  \A i \in DOMAIN mEventRegistrationQueue :
    LET e == mEventRegistrationQueue[i] IN
    e.filter = "READ" => e.flags = "EV_ADD" /\ e.udata \in Open /\ Fresh(e.udata)

\* WRITE of an open client is deleted once in a batch, after its event, while watched.
DeleteEntriesInv ==
  \A i \in DOMAIN mEventRegistrationQueue :
    LET e == mEventRegistrationQueue[i] IN
    e.flags = "EV_DELETE" /\ e.udata \in Open =>
      /\ Watch("WRITE", e.udata) \in filters
      /\ \A v \in observedEvents : v.udata = e.udata => v.filter # "WRITE"
      /\ \A j \in DOMAIN mEventRegistrationQueue :
           /\ mEventRegistrationQueue[j].flags = "EV_DELETE"
           /\ mEventRegistrationQueue[j].udata = e.udata
           => j = i

\* An entry carries the descriptor of its client; where the descriptor is another
\* one's now, that one has been accepted in this batch.
OwnersInv ==
  \A i \in DOMAIN mEventRegistrationQueue :
    LET e == mEventRegistrationQueue[i] IN
    /\ e.udata \in accepted /\ e.ident = hSocket[e.udata]
    /\ \A c \in Open : e.ident = hSocket[c] /\ e.udata # c => Fresh(c)

\* READ of an open client is watched or about to be.
ReadInv ==
  \A c \in Open :
    \/ Watch("READ", c) \in filters
    \/ \E i \in DOMAIN mEventRegistrationQueue :
         mEventRegistrationQueue[i] = Change("EV_ADD", Watch("READ", c))

\* Events of a batch: a client closed meanwhile waits in the release queue if it has a
\* READ event; the events of an open client are of filters that are watched.
EventsInv ==
  \A e \in ClientEvents :
    /\ phase = "events"
    /\ e.udata \in accepted /\ e.ident = hSocket[e.udata]
    /\ e.filter = "READ" => e.udata \notin Destroyed
    /\ e.udata \in Open =>
         /\ e.flag # "EV_ERROR"
         /\ Watch(e.filter, e.udata) \in filters
         /\ \A v \in ClientEvents : v.udata = e.udata /\ v.filter = e.filter => v = e

RegInv == /\ TypeOK /\ DescriptorsDiffer /\ FiltersInv
          /\ ReadEntriesInv /\ DeleteEntriesInv /\ OwnersInv
          /\ ReadInv /\ EventsInv

-----------------------------------------------------------------------------
(***************************************************************************)
(* What a step does to the queue                                            *)
(***************************************************************************)

\* An order of some clients has each of them at one place.
LEMMA Orders ==
  ASSUME NEW S \in SUBSET Client, NEW order \in SetToSeqs(S)
  PROVE  /\ Cardinality(S) \in Nat
         /\ order \in [1..Cardinality(S) -> S]
         /\ \A c \in S : \E k \in 1..Cardinality(S) : order[k] = c
<1> DEFINE D == 1..Cardinality(S)
<1>1. IsFiniteSet(S)
  BY ClientAssumption, FS_Subset
<1>2. Cardinality(S) \in Nat
  BY <1>1, FS_CardinalityType
<1>3. order \in [D -> S] /\ \A i, j \in D : i # j => order[i] # order[j]
  BY DEF SetToSeqs
<1>4. order \in Injection(D, S)
  BY <1>3 DEF Injection, IsInjective
<1>5. Cardinality(D) = Cardinality(S)
  <2>1. ExistsBijection(D, S)
    BY <1>1, FS_CardinalityType
  <2>2. ExistsBijection(D, D)
    <3>1. [i \in D |-> i] \in Bijection(D, D)
      BY DEF Bijection, Injection, Surjection, IsInjective
    <3> QED
      BY <3>1 DEF ExistsBijection
  <2> QED
    BY <1>2, <2>2, FS_CountingElements
<1>6. order \in Surjection(D, S)
  <2> HIDE DEF D
  <2> QED
    BY <1>1, <1>4, <1>5, FS_Injection
<1> QED
  BY <1>2, <1>3, <1>6 DEF Surjection

\* A queue with more entries at its end.
IsAppended(q, n, more) ==
  /\ q \in Seq(EntryType) /\ DOMAIN q = 1..Count + n
  /\ Len(q) = Count + n
  /\ \A k \in 1..Count : q[k] = mEventRegistrationQueue[k]
  /\ \A k \in 1..n : q[Count + k] = more[k]

LEMMA Appends ==
  ASSUME TypeOK, NEW n \in Nat, NEW more \in [1..n -> EntryType]
  PROVE  IsAppended(mEventRegistrationQueue \o more, n, more)
<1> DEFINE q == mEventRegistrationQueue \o more
<1>1. more \in Seq(EntryType) /\ Len(more) = n
  OBVIOUS
<1>2. mEventRegistrationQueue \in Seq(EntryType)
  BY DEF TypeOK
<1>3. Count \in Nat /\ DOMAIN mEventRegistrationQueue = 1..Count
  BY <1>2 DEF Count
<1>4. /\ q \in Seq(EntryType) /\ Len(q) = Count + n
      /\ \A k \in 1..Count + n :
           q[k] = IF k <= Count THEN mEventRegistrationQueue[k] ELSE more[k - Count]
  BY <1>1, <1>2, ConcatProperties DEF Count
<1> HIDE DEF q
<1>5. DOMAIN q = 1..Count + n
  BY <1>4
<1>6. \A k \in 1..Count : k \in 1..Count + n /\ k <= Count
  BY <1>3
<1>7. \A k \in 1..n : /\ Count + k \in 1..Count + n /\ ~(Count + k <= Count)
                      /\ (Count + k) - Count = k
  BY <1>3
<1>8. IsAppended(q, n, more)
  BY <1>4, <1>5, <1>6, <1>7 DEF IsAppended
<1> QED
  BY <1>8 DEF q

\* Clients that are sent something are open, and only the first message is registered.
LEMMA WritesAdded ==
  ASSUME TypeOK, NEW receivers \in SUBSET Open,
         NEW q \in WithWriteAdded(mEventRegistrationQueue, receivers)
  PROVE  /\ q \in Seq(EntryType) /\ Len(q) \in Nat /\ Count \in Nat /\ Count <= Len(q)
         /\ DOMAIN q = 1..Len(q)
         /\ \A k \in 1..Count : q[k] = mEventRegistrationQueue[k]
         /\ \A k \in Count + 1..Len(q) : \E c \in receivers \ MsgSendingQueue :
              q[k] = Change("EV_ADD", Watch("WRITE", c))
<1> DEFINE S == receivers \ MsgSendingQueue
<1>1. S \in SUBSET Client /\ \A c \in S : c \in accepted /\ hSocket[c] \in Descriptors
  BY DEF TypeOK, Open
<1>2. PICK order \in SetToSeqs(S) :
        q = mEventRegistrationQueue \o [i \in DOMAIN order |-> Entry("EV_ADD", "WRITE", order[i])]
  BY DEF WithWriteAdded
<1>3. PICK n \in Nat : order \in [1..n -> S]
  BY <1>1, Orders
<1> DEFINE more == [i \in DOMAIN order |-> Entry("EV_ADD", "WRITE", order[i])]
<1>4. \A c \in S : Entry("EV_ADD", "WRITE", c) = Change("EV_ADD", Watch("WRITE", c))
                   /\ Entry("EV_ADD", "WRITE", c) \in EntryType
  BY <1>1 DEF Entry, Change, Watch, EntryType
<1> HIDE DEF S
<1>5. more \in [1..n -> EntryType]
      /\ \A k \in 1..n : \E c \in S : more[k] = Change("EV_ADD", Watch("WRITE", c))
  BY <1>3, <1>4
<1>6. q = mEventRegistrationQueue \o more
  BY <1>2
<1> HIDE DEF more
<1>7. /\ q \in Seq(EntryType) /\ DOMAIN q = 1..Count + n
      /\ Len(q) = Count + n
      /\ \A k \in 1..Count : q[k] = mEventRegistrationQueue[k]
      /\ \A k \in 1..n : q[Count + k] = more[k]
  <2>1. IsAppended(q, n, more)
    BY <1>5, <1>6, Appends
  <2> QED
    BY <2>1 DEF IsAppended
<1>8. Count \in Nat
  BY AppliedSteps
<1>9. \A k \in Count + 1..Len(q) : k - Count \in 1..n /\ Count + (k - Count) = k
  BY <1>3, <1>7, <1>8
<1>10. \A k \in Count + 1..Len(q) : \E c \in S : q[k] = Change("EV_ADD", Watch("WRITE", c))
  BY <1>5, <1>7, <1>9
<1> QED
  BY <1>3, <1>7, <1>8, <1>10 DEF S

\* The queue, followed by more entries that add WRITE for open clients.
OnlyAdds(q) ==
  /\ Len(q) \in Nat /\ Count \in Nat /\ Count <= Len(q) /\ DOMAIN q = 1..Len(q)
  /\ \A k \in 1..Count : q[k] = mEventRegistrationQueue[k]
  /\ \A k \in Count + 1..Len(q) : \E c \in Open :
       q[k] = Change("EV_ADD", Watch("WRITE", c))

\* The entries of the new queue come from the old one or add WRITE for an open client;
\* only entries of clients in closing may be lost.
QueueFrom(closing) ==
  /\ mEventRegistrationQueue' \in Seq(EntryType)
  /\ \E p \in [DOMAIN mEventRegistrationQueue' -> DOMAIN mEventRegistrationQueue \union {0}] :
       /\ \A k \in DOMAIN mEventRegistrationQueue' :
            /\ p[k] # 0 => mEventRegistrationQueue'[k] = mEventRegistrationQueue[p[k]]
            /\ p[k] = 0 => \E c \in Open \ closing :
                 mEventRegistrationQueue'[k] = Change("EV_ADD", Watch("WRITE", c))
       /\ \A j, k \in DOMAIN mEventRegistrationQueue' : p[j] = p[k] /\ p[j] # 0 => j = k
       /\ \A j \in DOMAIN mEventRegistrationQueue :
            (\A c \in closing : mEventRegistrationQueue[j].ident # hSocket[c])
            => \E k \in DOMAIN mEventRegistrationQueue' : p[k] = j
  /\ (\A j \in DOMAIN mEventRegistrationQueue, c \in closing :
        mEventRegistrationQueue[j].ident # hSocket[c])
     => OnlyAdds(mEventRegistrationQueue')

LEMMA ThinnedIsFrom ==
  ASSUME TypeOK, DescriptorsDiffer, NEW closing \in SUBSET Open, NEW receivers \in SUBSET (Open \ closing),
         NEW q \in WithWriteAdded(mEventRegistrationQueue, receivers), NEW fd,
         closing # {} => \E c \in closing : fd = hSocket[c],
         closing = {} => mEventRegistrationQueue' = q,
         closing # {} => Thinned(q, mEventRegistrationQueue', fd)
  PROVE  QueueFrom(closing)
<1>1. /\ q \in Seq(EntryType) /\ Len(q) \in Nat /\ Count \in Nat /\ Count <= Len(q)
      /\ DOMAIN q = 1..Len(q)
      /\ \A k \in 1..Count : q[k] = mEventRegistrationQueue[k]
      /\ \A k \in Count + 1..Len(q) : \E c \in receivers \ MsgSendingQueue :
           q[k] = Change("EV_ADD", Watch("WRITE", c))
  BY WritesAdded
<1>2. DOMAIN mEventRegistrationQueue = 1..Count
  BY AppliedSteps
<1>3. /\ mEventRegistrationQueue' \in Seq(EntryType)
      /\ \E r \in Places(q, mEventRegistrationQueue') :
           \A j \in DOMAIN q : (\A c \in closing : q[j].ident # hSocket[c])
             => \E k \in DOMAIN mEventRegistrationQueue' : r[k] = j
  <2>1. CASE closing = {}
    <3>1. [k \in DOMAIN q |-> k] \in Places(q, q)
      BY DEF Places
    <3> QED
      BY <1>1, <2>1, <3>1
  <2>2. CASE closing # {}
    BY <2>2 DEF Thinned
  <2> QED
    BY <2>1, <2>2
<1>4. PICK r \in Places(q, mEventRegistrationQueue') :
        \A j \in DOMAIN q : (\A c \in closing : q[j].ident # hSocket[c])
          => \E k \in DOMAIN mEventRegistrationQueue' : r[k] = j
  BY <1>3
<1>5. /\ r \in [DOMAIN mEventRegistrationQueue' -> 1..Len(q)]
      /\ \A k \in DOMAIN mEventRegistrationQueue' : mEventRegistrationQueue'[k] = q[r[k]]
      /\ \A j, k \in DOMAIN mEventRegistrationQueue' : r[j] = r[k] => j = k
  BY <1>1, <1>4 DEF Places
<1> DEFINE D == DOMAIN mEventRegistrationQueue'
           p == [k \in D |-> IF r[k] <= Count THEN r[k] ELSE 0]
<1> HIDE DEF D
<1>6. \A k \in D : r[k] \in 1..Count \/ r[k] \in Count + 1..Len(q)
  BY <1>1, <1>5 DEF D
<1>7. \A k \in D : /\ r[k] \in 1..Count => r[k] <= Count /\ r[k] # 0
                   /\ r[k] \in Count + 1..Len(q) => ~(r[k] <= Count)
  BY <1>1, <1>5 DEF D
<1>8. p \in [D -> 1..Count \union {0}]
  BY <1>6, <1>7
<1>9. ASSUME NEW k \in D
      PROVE  /\ p[k] # 0 => p[k] = r[k] /\ r[k] \in 1..Count
             /\ p[k] = 0 => r[k] \in Count + 1..Len(q)
  BY <1>6, <1>7
<1>10. \A k \in D :
         /\ p[k] # 0 => mEventRegistrationQueue'[k] = mEventRegistrationQueue[p[k]]
         /\ p[k] = 0 => \E c \in Open \ closing :
              mEventRegistrationQueue'[k] = Change("EV_ADD", Watch("WRITE", c))
  <2> HIDE DEF p
  <2> QED
    BY <1>1, <1>5, <1>9 DEF D
<1>11. \A j, k \in D : p[j] = p[k] /\ p[j] # 0 => j = k
  <2> HIDE DEF p
  <2> QED
    BY <1>5, <1>9 DEF D
<1>12. ASSUME NEW j \in 1..Count, \A c \in closing : mEventRegistrationQueue[j].ident # hSocket[c]
       PROVE  \E k \in D : p[k] = j
  <2>1. j \in DOMAIN q /\ q[j] = mEventRegistrationQueue[j]
    BY <1>1
  <2>2. PICK k \in D : r[k] = j
    BY <1>4, <1>12, <2>1 DEF D
  <2> QED
    BY <1>7, <2>2
<1>13. ASSUME \A j \in 1..Count, c \in closing : mEventRegistrationQueue[j].ident # hSocket[c]
       PROVE  OnlyAdds(mEventRegistrationQueue')
  <2>1. OnlyAdds(q)
    BY <1>1 DEF OnlyAdds
  <2>2. CASE closing = {}
    BY <2>1, <2>2
  <2>3. CASE closing # {}
    <3>1. PICK c \in closing : fd = hSocket[c]
      BY <2>3
    <3>2. \A k \in 1..Count : q[k].ident # fd
      BY <1>1, <1>13, <3>1
    <3>3. ASSUME NEW k \in Count + 1..Len(q)
          PROVE  q[k].ident # fd
      <4>1. PICK d \in receivers : q[k] = Change("EV_ADD", Watch("WRITE", d))
        BY <1>1
      <4>2. q[k].ident = hSocket[d] /\ d \in Open /\ d # c /\ c \in Open
        BY <4>1 DEF Change, Watch
      <4> QED
        BY <3>1, <4>2 DEF DescriptorsDiffer
    <3>4. \A k \in 1..Len(q) : k \in 1..Count \/ k \in Count + 1..Len(q)
      BY <1>1
    <3>5. mEventRegistrationQueue' = q
      BY <1>1, <2>3, <3>2, <3>3, <3>4 DEF Thinned
    <3> QED
      BY <2>1, <3>5
  <2> QED
    BY <2>2, <2>3
<1> HIDE DEF p
<1> QED
  BY <1>2, <1>3, <1>8, <1>10, <1>11, <1>12, <1>13 DEF QueueFrom, D

-----------------------------------------------------------------------------
(***************************************************************************)
(* Every step is a kevent(), an accept, the end of a client's output, or    *)
(* one that closes some clients, one or none, and adds WRITE for others     *)
(***************************************************************************)

Disables(c) ==
  /\ c \in Open
  /\ \E e \in ClientEvents : /\ e.udata = c /\ e.filter = "WRITE"
                             /\ observedEvents' = observedEvents \ {e}
  /\ MsgSendingQueue' = MsgSendingQueue \ {c}
  /\ mEventRegistrationQueue' =
       mEventRegistrationQueue \o <<Change("EV_DELETE", Watch("WRITE", c))>>
  /\ UNCHANGED <<accepted, bExpired, bSocketClosed, hSocket, mClientReleaseQueue,
                 filters, phase, status>>

Closes(closing) ==
  /\ closing \subseteq Open
  /\ \A c \in closing : ~Fresh(c)
  /\ bExpired \union closing \subseteq bExpired' /\ bExpired' \subseteq accepted
  /\ bSocketClosed' = bSocketClosed \union closing
  /\ mClientReleaseQueue' = mClientReleaseQueue \union closing
  /\ filters' = {f \in filters : \A c \in closing : f.ident # hSocket[c]}
  /\ MsgSendingQueue' \subseteq accepted
  /\ observedEvents' \subseteq observedEvents
  /\ phase' = phase \/ (phase' = "kevent" /\ observedEvents = {})
  /\ status' \in {"running", "aborted"}
  /\ UNCHANGED <<accepted, hSocket>>
  /\ QueueFrom(closing)

LEMMA MembersAreOpen == Members \subseteq Open
BY DEF Members

\* forceDisconnectClient(c), whoever calls it.
LEMMA DisconnectionCloses ==
  ASSUME TypeOK, DescriptorsDiffer, NEW c \in Open, ~Fresh(c), NEW sending \in SUBSET accepted,
         forceDisconnectClient(c, sending),
         observedEvents' \subseteq observedEvents, UNCHANGED <<phase, status>>
  PROVE  Closes({c})
<1>1. PICK receivers \in SUBSET (IF c \in bExpired THEN {} ELSE Members \ {c}) :
        /\ \E queue \in WithWriteAdded(mEventRegistrationQueue, receivers) :
             mEventRegistrationQueue' = RemoveEntries(queue, hSocket[c])
        /\ MsgSendingQueue' = sending \union receivers
  BY DEF forceDisconnectClient
<1>2. receivers \in SUBSET (Open \ {c}) /\ receivers \in SUBSET Open
  BY MembersAreOpen
<1>3. PICK queue \in WithWriteAdded(mEventRegistrationQueue, receivers) :
        mEventRegistrationQueue' = RemoveEntries(queue, hSocket[c])
  BY <1>1
<1>4. queue \in Seq(EntryType)
  BY <1>2, <1>3, WritesAdded
<1>5. Thinned(queue, mEventRegistrationQueue', hSocket[c])
  BY <1>3, <1>4, RemoveEntriesThins
<1>6. QueueFrom({c})
  BY <1>2, <1>3, <1>5, ThinnedIsFrom
<1>7. /\ bExpired' = bExpired \union {c} /\ bSocketClosed' = bSocketClosed \union {c}
      /\ filters' = {f \in filters : f.ident # hSocket[c]}
      /\ mClientReleaseQueue' = mClientReleaseQueue \union {c}
      /\ UNCHANGED <<accepted, hSocket>>
  BY DEF forceDisconnectClient
<1>8. c \in accepted /\ bExpired \subseteq accepted /\ status \in {"running", "aborted"}
  BY DEF Open, TypeOK
<1>9. MsgSendingQueue' \subseteq accepted
  BY <1>1, <1>2 DEF Open
<1>10. filters' = {f \in filters : \A d \in {c} : f.ident # hSocket[d]}
  BY <1>7
<1> QED
  BY <1>6, <1>7, <1>8, <1>9, <1>10 DEF Closes

\* Messages, or nothing, and nobody is closed.
LEMMA SendingCloses ==
  ASSUME TypeOK, DescriptorsDiffer, NEW receivers \in SUBSET Open,
         mEventRegistrationQueue' \in WithWriteAdded(mEventRegistrationQueue, receivers),
         MsgSendingQueue' = MsgSendingQueue \union receivers,
         bExpired \subseteq bExpired', bExpired' \subseteq accepted,
         UNCHANGED <<accepted, bSocketClosed, hSocket, mClientReleaseQueue, filters,
                     observedEvents, phase, status>>
  PROVE  Closes({})
<1>1. QueueFrom({})
  BY ThinnedIsFrom
<1>2. filters' = {f \in filters : \A c \in {} : f.ident # hSocket[c]}
  OBVIOUS
<1>3. MsgSendingQueue' \subseteq accepted /\ status' \in {"running", "aborted"}
  BY DEF TypeOK, Open
<1> QED
  BY <1>1, <1>2, <1>3 DEF Closes

LEMMA SameQueueIsFrom ==
  ASSUME TypeOK, UNCHANGED mEventRegistrationQueue
  PROVE  QueueFrom({})
<1>1. mEventRegistrationQueue \in Seq(EntryType)
      /\ DOMAIN mEventRegistrationQueue = 1..Count /\ Count \in Nat
  BY AppliedSteps DEF TypeOK
<1> DEFINE p == [k \in DOMAIN mEventRegistrationQueue |-> k]
<1>2. p \in [DOMAIN mEventRegistrationQueue' -> DOMAIN mEventRegistrationQueue \union {0}]
  OBVIOUS
<1>3. \A k \in DOMAIN mEventRegistrationQueue : p[k] = k /\ p[k] # 0
  BY <1>1
<1>4. Len(mEventRegistrationQueue) = Count /\ \A k \in Count + 1..Count : FALSE
  BY <1>1 DEF Count
<1>5. OnlyAdds(mEventRegistrationQueue')
  <2>1. OnlyAdds(mEventRegistrationQueue)
    BY <1>1, <1>4 DEF OnlyAdds
  <2> QED
    BY <2>1
<1> HIDE DEF p
<1> QED
  BY <1>1, <1>2, <1>3, <1>5 DEF QueueFrom

LEMMA EveryStep ==
  ASSUME RegInv, [Next]_vars
  PROVE  \/ Kevent \/ AcceptClients
         \/ \E c \in Client : Disables(c)
         \/ \E closing \in SUBSET Client : Closes(closing)
<1>1. TypeOK /\ DescriptorsDiffer /\ EventsInv /\ FiltersInv
  BY DEF RegInv
<1>2. Open \subseteq accepted /\ accepted \subseteq Client /\ MsgSendingQueue \subseteq accepted
  BY <1>1 DEF TypeOK, Open
<1>3. ASSUME UNCHANGED <<accepted, bExpired, bSocketClosed, hSocket, MsgSendingQueue,
                         mEventRegistrationQueue, mClientReleaseQueue, filters>>,
             observedEvents' \subseteq observedEvents,
             phase' = phase \/ (phase' = "kevent" /\ observedEvents = {}),
             status' \in {"running", "aborted"}
      PROVE  \E closing \in SUBSET Client : Closes(closing)
  <2>1. QueueFrom({})
    BY <1>1, <1>3, SameQueueIsFrom
  <2>2. filters' = {f \in filters : \A c \in {} : f.ident # hSocket[c]}
    BY <1>3
  <2>3. bExpired \subseteq accepted
    BY <1>1 DEF TypeOK
  <2>4. Closes({})
    BY <1>2, <1>3, <2>1, <2>2, <2>3 DEF Closes
  <2> QED
    BY <2>4
<1>4. status \in {"running", "aborted"}
  BY <1>1 DEF TypeOK
<1>5. CASE BackToKevent
  BY <1>3, <1>4, <1>5 DEF BackToKevent
<1>6. CASE UNCHANGED vars
  BY <1>3, <1>4, <1>6 DEF vars
<1>7. ASSUME NEW e \in ClientEvents, DisconnectOnEvent(e)
      PROVE  \E closing \in SUBSET Client : Closes(closing)
  <2>1. e.udata \in Open /\ ~Fresh(e.udata) /\ observedEvents' \subseteq observedEvents
        /\ UNCHANGED <<phase, status>>
    BY <1>7 DEF DisconnectOnEvent, Take, Fresh
  <2>2. forceDisconnectClient(e.udata, MsgSendingQueue)
    BY <1>7 DEF DisconnectOnEvent
  <2>3. Closes({e.udata})
    BY <1>1, <1>2, <2>1, <2>2, DisconnectionCloses
  <2> QED
    BY <1>2, <2>1, <2>3
<1>8. ASSUME NEW e \in ClientEvents, SendLast(e)
      PROVE  \/ \E c \in Client : Disables(c)
             \/ \E closing \in SUBSET Client : Closes(closing)
  <2>1. /\ e.udata \in Open /\ ~Fresh(e.udata) /\ observedEvents' = observedEvents \ {e}
        /\ e.filter = "WRITE" /\ UNCHANGED <<phase, status>>
    BY <1>8 DEF SendLast, Take, Fresh
  <2>2. CASE /\ MsgSendingQueue' = MsgSendingQueue \ {e.udata}
             /\ mEventRegistrationQueue' =
                  Append(mEventRegistrationQueue, Entry("EV_DELETE", "WRITE", e.udata))
             /\ UNCHANGED <<accepted, bExpired, bSocketClosed, hSocket,
                            mClientReleaseQueue, filters>>
    <3>1. Entry("EV_DELETE", "WRITE", e.udata) = Change("EV_DELETE", Watch("WRITE", e.udata))
      BY DEF Entry, Change, Watch
    <3>2. mEventRegistrationQueue \in Seq(EntryType)
      BY <1>1 DEF TypeOK
    <3>3. Entry("EV_DELETE", "WRITE", e.udata) \in EntryType
      BY <1>1, <1>2, <2>1 DEF Entry, EntryType, TypeOK
    <3>4. mEventRegistrationQueue' =
            mEventRegistrationQueue \o <<Entry("EV_DELETE", "WRITE", e.udata)>>
      BY <2>2, <3>2, <3>3, AppendIsConcat
    <3>5. Disables(e.udata)
      BY <2>1, <2>2, <3>1, <3>4 DEF Disables
    <3> QED
      BY <1>2, <2>1, <3>5
  <2>3. CASE forceDisconnectClient(e.udata, MsgSendingQueue \ {e.udata})
    <3>1. Closes({e.udata})
      BY <1>1, <1>2, <2>1, <2>3, DisconnectionCloses
    <3> QED
      BY <1>2, <2>1, <3>1
  <2> QED
    BY <1>8, <2>2, <2>3 DEF SendLast
<1>9. ASSUME NEW e \in ClientEvents, OtherEvent(e)
      PROVE  \E closing \in SUBSET Client : Closes(closing)
  BY <1>3, <1>9 DEF OtherEvent, Take
<1>10. CASE SendMessages
  <2>1. PICK receivers \in SUBSET Members :
          /\ mEventRegistrationQueue' \in WithWriteAdded(mEventRegistrationQueue, receivers)
          /\ MsgSendingQueue' = MsgSendingQueue \union receivers
    BY <1>10 DEF SendMessages
  <2>2. receivers \in SUBSET Open /\ bExpired \subseteq accepted
    BY <1>1, MembersAreOpen DEF TypeOK
  <2>3. UNCHANGED <<accepted, bExpired, bSocketClosed, hSocket, mClientReleaseQueue,
                    filters, observedEvents, phase, status>>
    BY <1>10 DEF SendMessages
  <2>4. Closes({})
    BY <1>1, <2>1, <2>2, <2>3, SendingCloses
  <2> QED
    BY <2>4
<1>11. ASSUME NEW c \in Client, QUIT(c)
       PROVE  \E closing \in SUBSET Client : Closes(closing)
  <2>1. c \in Open /\ ~Fresh(c) /\ UNCHANGED <<observedEvents, phase, status>>
    BY <1>11 DEF QUIT, Members, Fresh
  <2>2. CASE forceDisconnectClient(c, MsgSendingQueue)
    <3>1. Closes({c})
      BY <1>1, <1>2, <2>1, <2>2, DisconnectionCloses
    <3> QED
      BY <3>1
  <2>3. CASE /\ bExpired' = bExpired \union {c}
             /\ \E receivers \in SUBSET (Members \ {c}) :
                  /\ mEventRegistrationQueue' \in
                       WithWriteAdded(mEventRegistrationQueue, receivers)
                  /\ MsgSendingQueue' = MsgSendingQueue \union receivers
             /\ UNCHANGED <<accepted, bSocketClosed, hSocket, mClientReleaseQueue, filters>>
    <3>1. PICK receivers \in SUBSET (Members \ {c}) :
            /\ mEventRegistrationQueue' \in
                 WithWriteAdded(mEventRegistrationQueue, receivers)
            /\ MsgSendingQueue' = MsgSendingQueue \union receivers
      BY <2>3
    <3>2. receivers \in SUBSET Open /\ bExpired \subseteq bExpired' /\ bExpired' \subseteq accepted
      BY <1>1, <1>2, <2>1, <2>3, MembersAreOpen DEF TypeOK
    <3>3. Closes({})
      BY <1>1, <2>1, <2>3, <3>1, <3>2, SendingCloses
    <3> QED
      BY <3>3
  <2> QED
    BY <1>11, <2>2, <2>3 DEF QUIT
<1> QED
  BY <1>5, <1>6, <1>7, <1>8, <1>9, <1>10, <1>11 DEF Next, Aborted, ClientEvents

-----------------------------------------------------------------------------
(***************************************************************************)
(* Every kind of step preserves the invariant                               *)
(***************************************************************************)

\* Watch and Fresh in the next state, of a client that is the same in both.
WatchNext(filter, c) == [ident |-> hSocket'[c], filter |-> filter, udata |-> c]
FreshNext(c) == /\ \A f \in filters' : f.udata # c
                /\ \A e \in observedEvents' : e.udata # c

LEMMA RegInvInit == Init => RegInv
<1> SUFFICES ASSUME Init
             PROVE  RegInv
  OBVIOUS
<1>1. /\ accepted = {} /\ bExpired = {} /\ bSocketClosed = {} /\ hSocket = <<>>
      /\ MsgSendingQueue = {} /\ mEventRegistrationQueue = <<>> /\ mClientReleaseQueue = {}
      /\ filters = {} /\ observedEvents = {} /\ phase = "kevent" /\ status = "running"
  BY DEF Init
<1>2. hSocket \in [accepted -> Descriptors]
  BY <1>1
<1>3. TypeOK
  BY <1>1, <1>2 DEF TypeOK
<1>4. Open = {} /\ ClientEvents = {} /\ DOMAIN mEventRegistrationQueue = {}
  BY <1>1 DEF Open, ClientEvents
<1> QED
  BY <1>1, <1>3, <1>4
  DEF RegInv, DescriptorsDiffer, FiltersInv, ReadEntriesInv, DeleteEntriesInv, OwnersInv,
      ReadInv, EventsInv

\* The entries of the queue in terms of their numbers, and the invariants about them.
LEMMA QueueFacts ==
  ASSUME RegInv
  PROVE  /\ Count \in Nat /\ DOMAIN mEventRegistrationQueue = 1..Count
         /\ \A i \in 1..Count :
              /\ mEventRegistrationQueue[i] \in EntryType
              /\ mEventRegistrationQueue[i].udata \in accepted
              /\ mEventRegistrationQueue[i].ident = hSocket[mEventRegistrationQueue[i].udata]
              /\ mEventRegistrationQueue[i].filter = "READ" =>
                   /\ mEventRegistrationQueue[i].flags = "EV_ADD"
                   /\ mEventRegistrationQueue[i].udata \in Open
                   /\ Fresh(mEventRegistrationQueue[i].udata)
         /\ \A c \in Open : hSocket[c] \in OpenFds
<1>1. TypeOK /\ ReadEntriesInv /\ OwnersInv
  BY DEF RegInv
<1>2. Count \in Nat /\ DOMAIN mEventRegistrationQueue = 1..Count
      /\ \A i \in 1..Count : mEventRegistrationQueue[i] \in EntryType
  BY <1>1, AppliedSteps
<1> QED
  BY <1>1, <1>2 DEF ReadEntriesInv, OwnersInv, OpenFds

\* A watched filter of an open client stays watched while no change deletes it.
LEMMA WatchIsKept ==
  ASSUME RegInv, NEW c \in Open, NEW filter \in {"READ", "WRITE"},
         NEW m \in 0..Count, Watch(filter, c) \in AppliedTo[m].filters, NEW n \in m..Count,
         \A i \in m + 1..n :
           /\ mEventRegistrationQueue[i].filter = filter
           /\ mEventRegistrationQueue[i].ident = hSocket[c]
           => mEventRegistrationQueue[i].flags = "EV_ADD" /\ mEventRegistrationQueue[i].udata = c
  PROVE  Watch(filter, c) \in AppliedTo[n].filters
<1>1. TypeOK
  BY DEF RegInv
<1>2. \A i \in m + 1..n :
        mEventRegistrationQueue[i].ident \in OpenFds
        /\ Same(Watch(filter, c), mEventRegistrationQueue[i])
        => mEventRegistrationQueue[i].flags = "EV_ADD"
           /\ Watch(filter, c) = Asked(mEventRegistrationQueue[i])
  BY DEF Same, Watch, Asked
<1> QED
  BY <1>1, <1>2, Kept

\* kevent() reports no error of an open client, and watches READ of every open client.
LEMMA AppliedFacts ==
  ASSUME RegInv
  PROVE  /\ \A c \in Open : Watch("READ", c) \in Applied.filters
         /\ \A v \in Applied.errors :
              /\ v.udata \in accepted /\ v.udata \notin Open
              /\ v.ident = hSocket[v.udata] /\ v.filter # "READ"
         /\ Applied \in ChangesType
<1>1. /\ TypeOK /\ DescriptorsDiffer /\ FiltersInv /\ DeleteEntriesInv /\ OwnersInv
      /\ ReadInv
  BY DEF RegInv
<1>2. /\ Count \in Nat /\ Count \in 0..Count /\ 0 \in 0..Count /\ Count \in 0..Count
      /\ AppliedTo[0].filters = filters /\ Applied = AppliedTo[Count]
      /\ DOMAIN mEventRegistrationQueue = 1..Count
  BY <1>1, AppliedSteps DEF Applied, Count
<1>3. ASSUME NEW c \in Open
      PROVE  Watch("READ", c) \in Applied.filters
  <2>1. ASSUME NEW i \in 1..Count, mEventRegistrationQueue[i].filter = "READ",
               mEventRegistrationQueue[i].ident = hSocket[c]
        PROVE  mEventRegistrationQueue[i].flags = "EV_ADD" /\ mEventRegistrationQueue[i].udata = c
               /\ Fresh(c)
    BY <1>1, <2>1, QueueFacts DEF DescriptorsDiffer
  <2>2. CASE Watch("READ", c) \in filters
    <3>1. \A i \in 0 + 1..Count : i \in 1..Count
      OBVIOUS
    <3> QED
      BY <1>2, <2>1, <2>2, <3>1, WatchIsKept
  <2>3. CASE \E i \in DOMAIN mEventRegistrationQueue :
               mEventRegistrationQueue[i] = Change("EV_ADD", Watch("READ", c))
    <3>1. PICK i \in 1..Count :
            mEventRegistrationQueue[i] = Change("EV_ADD", Watch("READ", c))
      BY <1>2, <2>3
    <3>2. i \in 0..Count /\ Count \in i..Count /\ i - 1 \in 0..Count
          /\ \A j \in i + 1..Count : j \in 1..Count
      BY <1>2
    <3>3. AppliedTo[i] = ApplyChange(AppliedTo[i - 1], mEventRegistrationQueue[i])
          /\ AppliedTo[i - 1] \in ChangesType /\ mEventRegistrationQueue[i] \in EntryType
      BY <1>1, <3>2, AppliedSteps
    <3>4. /\ mEventRegistrationQueue[i].ident \in OpenFds
          /\ mEventRegistrationQueue[i].flags = "EV_ADD"
          /\ Watch("READ", c) = Asked(mEventRegistrationQueue[i])
      BY <3>1, QueueFacts DEF Change, Watch, Asked
    <3>5. Watch("READ", c) \in AppliedTo[i].filters
      BY <3>3, <3>4, ChangeApplied
    <3> QED
      BY <1>2, <2>1, <3>2, <3>5, WatchIsKept
  <2> QED
    BY <1>1, <2>2, <2>3 DEF ReadInv
<1>4. ASSUME NEW v \in Applied.errors
      PROVE  /\ v.udata \in accepted /\ v.udata \notin Open
             /\ v.ident = hSocket[v.udata] /\ v.filter # "READ"
  <2>1. PICK i \in 1..Count :
          /\ v = Event(mEventRegistrationQueue[i], "EV_ERROR")
          /\ \/ mEventRegistrationQueue[i].ident \notin OpenFds
             \/ /\ mEventRegistrationQueue[i].flags = "EV_DELETE"
                /\ \A f \in AppliedTo[i - 1].filters : ~Same(f, mEventRegistrationQueue[i])
    BY <1>1, <1>2, AppliedFrom
  <2> DEFINE e == mEventRegistrationQueue[i]
  <2>2. /\ e \in EntryType /\ e.udata \in accepted /\ e.ident = hSocket[e.udata]
        /\ e.filter = "READ" => e.flags = "EV_ADD" /\ e.udata \in Open
        /\ e.udata \in Open => e.ident \in OpenFds
    BY QueueFacts
  <2>3. v.udata = e.udata /\ v.ident = e.ident /\ v.filter = e.filter
    BY <2>1 DEF Event
  <2>4. ASSUME e.udata \in Open
        PROVE  FALSE
    <3>1. e.flags = "EV_DELETE" /\ e.filter = "WRITE"
      BY <2>1, <2>2, <2>4 DEF EntryType
    <3>2. /\ Watch("WRITE", e.udata) \in filters
          /\ \A j \in 1..Count :
               /\ mEventRegistrationQueue[j].flags = "EV_DELETE"
               /\ mEventRegistrationQueue[j].udata = e.udata
               => j = i
      BY <1>1, <1>2, <2>4, <3>1 DEF DeleteEntriesInv
    <3>3. i - 1 \in 0..Count /\ i - 1 \in 0..Count
          /\ \A j \in 0 + 1..i - 1 : j \in 1..Count /\ j # i
      BY <1>2
    <3>4. ~Fresh(e.udata)
      BY <3>2 DEF Fresh, Watch
    <3>5. ASSUME NEW j \in 1..Count, j # i, mEventRegistrationQueue[j].ident = hSocket[e.udata]
          PROVE  mEventRegistrationQueue[j].flags = "EV_ADD"
                 /\ mEventRegistrationQueue[j].udata = e.udata
      <4>1. mEventRegistrationQueue[j].udata = e.udata
        BY <1>1, <1>2, <2>4, <3>4, <3>5 DEF OwnersInv
      <4>2. mEventRegistrationQueue[j].flags # "EV_DELETE"
        BY <3>2, <3>5, <4>1
      <4> QED
        BY <4>1, <4>2, QueueFacts DEF EntryType
    <3>6. Watch("WRITE", e.udata) \in AppliedTo[i - 1].filters
      BY <1>2, <2>4, <3>2, <3>3, <3>5, WatchIsKept
    <3>7. Same(Watch("WRITE", e.udata), e)
      BY <2>2, <3>1 DEF Same, Watch
    <3> QED
      BY <2>1, <2>2, <2>4, <3>6, <3>7
  <2> QED
    BY <2>1, <2>2, <2>3, <2>4
<1>5. Applied \in ChangesType
  BY <1>1, <1>2, AppliedSteps
<1> QED
  BY <1>3, <1>4, <1>5

\* The events of a call are of filters that are watched, one for each.
LEMMA EventsOfKevent ==
  ASSUME RegInv, NEW k,
         NEW events \in ReadyEvents(Applied.filters \union
                          {f \in {ListenFilter} : accepted # Client}, k)
  PROVE  \A e \in events \ {ListenEvent} :
           /\ e \in [ident : Descriptors, filter : {"READ", "WRITE"}, udata : Client,
                     flag : {"none", "EV_EOF"}]
           /\ [ident |-> e.ident, filter |-> e.filter, udata |-> e.udata] \in Applied.filters
           /\ \A v \in events \ {ListenEvent} :
                v.ident = e.ident /\ v.filter = e.filter /\ v.udata = e.udata => v = e
<1> DEFINE watched == Applied.filters \union {f \in {ListenFilter} : accepted # Client}
           flag(f, eof) == IF f \in eof THEN "EV_EOF" ELSE "none"
<1>1. PICK ready \in SUBSET watched : \E eof \in SUBSET (ready \ {ListenFilter}) :
        events = {Event(f, flag(f, eof)) : f \in ready}
  BY DEF ReadyEvents, kSubset
<1>2. PICK eof \in SUBSET (ready \ {ListenFilter}) :
        events = {Event(f, flag(f, eof)) : f \in ready}
  BY <1>1
<1>3. Applied.filters \subseteq FilterType
  BY AppliedFacts DEF ChangesType
<1>4. ASSUME NEW e \in events \ {ListenEvent}
      PROVE  \E f \in Applied.filters : f \in ready /\ e = Event(f, flag(f, eof))
  <2>1. PICK f \in ready : e = Event(f, flag(f, eof))
    BY <1>2, <1>4
  <2>2. f # ListenFilter
    BY <1>2, <1>4, <2>1 DEF ListenEvent
  <2> QED
    BY <1>1, <2>1, <2>2
<1>5. \A f \in FilterType :
        f = [ident |-> f.ident, filter |-> f.filter, udata |-> f.udata]
        /\ f.ident \in Descriptors /\ f.filter \in {"READ", "WRITE"} /\ f.udata \in Client
  BY DEF FilterType
<1>6. \A f : flag(f, eof) \in {"none", "EV_EOF"}
  OBVIOUS
<1> HIDE DEF flag, watched
<1>7. ASSUME NEW e \in events \ {ListenEvent}
      PROVE  \E f \in Applied.filters :
               /\ e = [ident |-> f.ident, filter |-> f.filter, udata |-> f.udata,
                       flag |-> flag(f, eof)]
               /\ f = [ident |-> e.ident, filter |-> e.filter, udata |-> e.udata]
               /\ e \in [ident : Descriptors, filter : {"READ", "WRITE"}, udata : Client,
                         flag : {"none", "EV_EOF"}]
  BY <1>3, <1>4, <1>5, <1>6 DEF Event
<1> QED
  BY <1>7

LEMMA KeventKeepsInv ==
  ASSUME RegInv, Kevent
  PROVE  RegInv'
<1>1. /\ TypeOK /\ DescriptorsDiffer /\ FiltersInv
  BY DEF RegInv
<1>2. /\ filters' = Applied.filters /\ mEventRegistrationQueue' = <<>>
      /\ mClientReleaseQueue' = {} /\ phase' \in {"events", "process"}
      /\ UNCHANGED <<accepted, bExpired, bSocketClosed, hSocket, MsgSendingQueue, status>>
  BY DEF Kevent
<1>3. Applied \in ChangesType /\ Applied.filters \subseteq FilterType
      /\ Applied.errors \subseteq ErrorType
  BY AppliedFacts DEF ChangesType
<1>4. /\ Open' = Open /\ OpenFds' = OpenFds /\ DOMAIN mEventRegistrationQueue' = {}
      /\ \A c, filter : Watch(filter, c)' = Watch(filter, c)
  BY <1>2 DEF Open, OpenFds, Watch
<1>5. /\ \A f \in Applied.filters :
           /\ f.udata \in accepted /\ f.ident = hSocket[f.udata]
           /\ f.ident \in OpenFds
           /\ f.filter = "READ" => f.udata \in Open
      /\ \A f, g \in Applied.filters : Same(f, g) => f = g
  <2>1. Count \in 0..Count /\ Applied = AppliedTo[Count]
    BY <1>1, AppliedSteps DEF Applied, Count
  <2>2. \A f, g \in filters : Same(f, g) => f = g
    BY <1>1 DEF FiltersInv, Same
  <2>3. \A f \in Applied.filters :
          \/ f \in filters
          \/ \E i \in 1..Count : /\ mEventRegistrationQueue[i].ident \in OpenFds
                                 /\ f = Asked(mEventRegistrationQueue[i])
    BY <1>1, <2>1, AppliedFrom
  <2>4. \A i \in 1..Count :
          LET f == Asked(mEventRegistrationQueue[i]) IN
          mEventRegistrationQueue[i].ident \in OpenFds =>
            /\ f.udata \in accepted /\ f.ident = hSocket[f.udata]
            /\ f.ident \in OpenFds
            /\ f.filter = "READ" => f.udata \in Open
    BY QueueFacts DEF Asked
  <2>5. \A f, g \in Applied.filters : Same(f, g) => f = g
    BY <1>1, <2>1, <2>2, AppliedFrom
  <2> QED
    BY <1>1, <2>3, <2>4, <2>5 DEF FiltersInv
<1>6. ASSUME NEW e \in ClientEvents'
      PROVE  /\ phase' = "events"
             /\ e \in [ident : Descriptors, filter : {"READ", "WRITE"}, udata : Client,
                       flag : {"none", "EV_EOF", "EV_ERROR"}]
             /\ e.udata \in accepted /\ e.ident = hSocket[e.udata]
             /\ e.filter = "READ" => e.udata \in Open
             /\ e.udata \in Open =>
                  /\ e.flag # "EV_ERROR" /\ Watch(e.filter, e.udata) \in Applied.filters
                  /\ \A v \in ClientEvents' : v.udata = e.udata /\ v.filter = e.filter => v = e
  <2>1. CASE observedEvents' = Applied.errors /\ phase' = "events"
    <3>1. e \in Applied.errors
      BY <1>6, <2>1 DEF ClientEvents
    <3>2. e \in ErrorType
      BY <1>3, <3>1
    <3> QED
      BY <2>1, <3>1, <3>2, AppliedFacts DEF ErrorType
  <2>2. ASSUME NEW k, observedEvents' \in ReadyEvents(Applied.filters \union
                 {f \in {ListenFilter} : accepted # Client}, k), phase' = "events"
        PROVE  /\ phase' = "events"
               /\ e \in [ident : Descriptors, filter : {"READ", "WRITE"}, udata : Client,
                         flag : {"none", "EV_EOF", "EV_ERROR"}]
               /\ e.udata \in accepted /\ e.ident = hSocket[e.udata]
               /\ e.filter = "READ" => e.udata \in Open
               /\ e.udata \in Open =>
                    /\ e.flag # "EV_ERROR" /\ Watch(e.filter, e.udata) \in Applied.filters
                    /\ \A v \in ClientEvents' :
                         v.udata = e.udata /\ v.filter = e.filter => v = e
    <3>1. \A v \in ClientEvents' :
           /\ v \in [ident : Descriptors, filter : {"READ", "WRITE"}, udata : Client,
                     flag : {"none", "EV_EOF"}]
           /\ [ident |-> v.ident, filter |-> v.filter, udata |-> v.udata] \in Applied.filters
           /\ \A w \in ClientEvents' :
                w.ident = v.ident /\ w.filter = v.filter /\ w.udata = v.udata => w = v
      BY <2>2, EventsOfKevent DEF ClientEvents, ListenEvent, ListenFilter, Event
    <3>2. \A v \in ClientEvents' :
            /\ v.udata \in accepted /\ v.ident = hSocket[v.udata]
            /\ v.filter = "READ" => v.udata \in Open
      <4> TAKE v \in ClientEvents'
      <4> DEFINE f == [ident |-> v.ident, filter |-> v.filter, udata |-> v.udata]
      <4>1. f \in Applied.filters
        BY <3>1
      <4>2. f.ident = v.ident /\ f.filter = v.filter /\ f.udata = v.udata
        OBVIOUS
      <4> HIDE DEF f
      <4> QED
        BY <1>5, <4>1, <4>2
    <3>3. Watch(e.filter, e.udata) \in Applied.filters
      BY <3>1, <3>2 DEF Watch
    <3> QED
      BY <2>2, <3>1, <3>2, <3>3
  <2>3. CASE observedEvents' = {} /\ phase' = "process"
    BY <2>3 DEF ClientEvents
  <2> QED
    BY <2>1, <2>2, <2>3 DEF Kevent
<1>7. ListenEvent' = ListenEvent
  BY DEF ListenEvent, ListenFilter, Event
<1>8. TypeOK'
  <2>1. observedEvents' \subseteq {ListenEvent} \union
       [ident : Descriptors, filter : {"READ", "WRITE"}, udata : Client,
        flag : {"none", "EV_EOF", "EV_ERROR"}]
    BY <1>6, <1>7 DEF ClientEvents
  <2> QED
    BY <1>1, <1>2, <1>3, <1>7, <2>1 DEF TypeOK
<1>9. DescriptorsDiffer'
  BY <1>1, <1>2, <1>4 DEF DescriptorsDiffer
<1>10. FiltersInv'
  BY <1>2, <1>4, <1>5 DEF FiltersInv, Same
<1>11. ReadEntriesInv' /\ DeleteEntriesInv' /\ OwnersInv'
  BY <1>4 DEF ReadEntriesInv, DeleteEntriesInv, OwnersInv
<1>12. ReadInv'
  BY <1>2, <1>4, AppliedFacts DEF ReadInv
<1>13. EventsInv'
  <2>1. \A c \in Open : c \notin Destroyed'
    BY <1>2 DEF Open, Destroyed
  <2> QED
    BY <1>2, <1>4, <1>6, <2>1 DEF EventsInv
<1> QED
  BY <1>8, <1>9, <1>10, <1>11, <1>12, <1>13 DEF RegInv

LEMMA AcceptKeepsInv ==
  ASSUME RegInv, AcceptClients
  PROVE  RegInv'
<1>1. /\ TypeOK /\ DescriptorsDiffer /\ FiltersInv /\ ReadEntriesInv /\ DeleteEntriesInv
      /\ OwnersInv /\ ReadInv /\ EventsInv
  BY DEF RegInv
<1>2. PICK new \in SUBSET (Client \ accepted) :
        \E order \in SetToSeqs(new), fd \in Injection(new, Descriptors \ OpenFds) :
          /\ accepted' = accepted \union new
          /\ hSocket' = [c \in accepted' |-> IF c \in accepted THEN hSocket[c] ELSE fd[c]]
          /\ mEventRegistrationQueue' = mEventRegistrationQueue \o
               [i \in DOMAIN order |->
                  [ident |-> fd[order[i]], filter |-> "READ",
                   flags |-> "EV_ADD", udata |-> order[i]]]
  BY DEF AcceptClients
<1>3. PICK order \in SetToSeqs(new), fd \in Injection(new, Descriptors \ OpenFds) :
        /\ accepted' = accepted \union new
        /\ hSocket' = [c \in accepted' |-> IF c \in accepted THEN hSocket[c] ELSE fd[c]]
        /\ mEventRegistrationQueue' = mEventRegistrationQueue \o
             [i \in DOMAIN order |->
                [ident |-> fd[order[i]], filter |-> "READ",
                 flags |-> "EV_ADD", udata |-> order[i]]]
  BY <1>2
<1>4. /\ UNCHANGED <<bExpired, bSocketClosed, MsgSendingQueue, mClientReleaseQueue,
                     filters, status, phase>>
      /\ observedEvents' = observedEvents \ {ListenEvent}
  BY DEF AcceptClients, Take
<1>5. /\ fd \in [new -> Descriptors \ OpenFds]
      /\ \A c, d \in new : fd[c] = fd[d] => c = d
  BY DEF Injection, IsInjective
<1>6. /\ hSocket \in [accepted -> Descriptors] /\ accepted \subseteq Client
      /\ bExpired \subseteq accepted /\ bSocketClosed \subseteq bExpired
      /\ mClientReleaseQueue \subseteq bSocketClosed
  BY <1>1 DEF TypeOK
<1>7. /\ hSocket' \in [accepted' -> Descriptors]
      /\ \A c \in accepted : hSocket'[c] = hSocket[c]
      /\ \A c \in new : hSocket'[c] = fd[c]
  BY <1>2, <1>3, <1>5, <1>6
<1>8. /\ Open' = Open \union new /\ Open \subseteq accepted
      /\ \A c \in Open : hSocket'[c] \in OpenFds
      /\ OpenFds \subseteq OpenFds'
      /\ \A c \in new : hSocket'[c] \notin OpenFds /\ hSocket'[c] \in Descriptors
  BY <1>3, <1>4, <1>5, <1>6, <1>7 DEF Open, OpenFds
<1>9. \A filter : \A c \in accepted : WatchNext(filter, c) = Watch(filter, c)
  BY <1>7 DEF Watch, WatchNext
<1>10. ClientEvents' = ClientEvents
  BY <1>4 DEF ClientEvents, ListenEvent, ListenFilter, Event
<1>11. /\ \A c \in accepted : Fresh(c) => FreshNext(c)
       /\ \A c \in new : FreshNext(c)
  <2>1. \A f \in filters : f.udata \in accepted
    BY <1>1 DEF FiltersInv
  <2>2. \A e \in observedEvents' : e.udata \in accepted
    BY <1>1, <1>4 DEF EventsInv, ClientEvents
  <2> QED
    BY <1>2, <1>4, <2>1, <2>2 DEF Fresh, FreshNext
<1> DEFINE Read(c) == Change("EV_ADD", WatchNext("READ", c))
<1>12. \A c \in new : /\ Read(c) \in EntryType
                      /\ Read(c) = [ident |-> fd[c], filter |-> "READ",
                                    flags |-> "EV_ADD", udata |-> c]
  BY <1>5, <1>7, <1>8 DEF Change, WatchNext, EntryType
<1>13. PICK n \in Nat : order \in [1..n -> new] /\ \A c \in new : \E k \in 1..n : order[k] = c
  BY Orders
<1> DEFINE more == [i \in DOMAIN order |->
                      [ident |-> fd[order[i]], filter |-> "READ",
                       flags |-> "EV_ADD", udata |-> order[i]]]
<1>14. /\ more \in [1..n -> EntryType]
       /\ \A k \in 1..n : more[k] = Read(order[k])
  <2> HIDE DEF Read
  <2> QED
    BY <1>12, <1>13
<1> DEFINE queue == mEventRegistrationQueue'
<1>15. queue = mEventRegistrationQueue \o more
  BY <1>3
<1> HIDE DEF more, Read, queue
<1>16. IsAppended(queue, n, more)
  BY <1>1, <1>14, <1>15, Appends
<1>17. /\ queue \in Seq(EntryType) /\ DOMAIN queue = 1..Count + n /\ Count \in Nat
       /\ \A k \in 1..Count : k \in DOMAIN queue /\ queue[k] = mEventRegistrationQueue[k]
       /\ \A c \in new : \E k \in DOMAIN queue : queue[k] = Read(c)
       /\ \A k \in DOMAIN queue : \/ k \in 1..Count
                                  \/ \E c \in new : queue[k] = Read(c)
  <2>1. Count \in Nat
    BY QueueFacts
  <2>2. \A k \in 1..n : queue[Count + k] = Read(order[k]) /\ Count + k \in DOMAIN queue
    BY <1>14, <1>16, <2>1 DEF IsAppended
  <2>3. \A k \in 1..Count + n : k \in 1..Count \/ (k - Count \in 1..n /\ Count + (k - Count) = k)
    BY <2>1
  <2>4. \A k \in 1..Count : k \in 1..Count + n
    BY <2>1
  <2>5. /\ queue \in Seq(EntryType) /\ DOMAIN queue = 1..Count + n
        /\ \A k \in 1..Count : k \in DOMAIN queue /\ queue[k] = mEventRegistrationQueue[k]
    BY <1>16, <2>4 DEF IsAppended
  <2>6. \A c \in new : \E k \in DOMAIN queue : queue[k] = Read(c)
    BY <1>13, <2>2
  <2>7. ASSUME NEW k \in DOMAIN queue
        PROVE  k \in 1..Count \/ \E c \in new : queue[k] = Read(c)
    <3>1. CASE k - Count \in 1..n /\ Count + (k - Count) = k
      <4>1. order[k - Count] \in new /\ queue[k] = Read(order[k - Count])
        BY <1>13, <2>2, <3>1
      <4> QED
        BY <4>1
    <3> QED
      BY <2>3, <2>5, <3>1
  <2> QED
    BY <2>1, <2>5, <2>6, <2>7
<1>18. /\ Count \in Nat /\ DOMAIN mEventRegistrationQueue = 1..Count
       /\ \A i \in 1..Count :
            /\ mEventRegistrationQueue[i].udata \in accepted
            /\ mEventRegistrationQueue[i].ident = hSocket[mEventRegistrationQueue[i].udata]
            /\ mEventRegistrationQueue[i].filter = "READ" =>
                 /\ mEventRegistrationQueue[i].flags = "EV_ADD"
                 /\ mEventRegistrationQueue[i].udata \in Open
                 /\ Fresh(mEventRegistrationQueue[i].udata)
  BY QueueFacts
<1>19. \A c \in new : /\ Read(c).udata = c /\ Read(c).ident = hSocket'[c]
                      /\ Read(c).flags = "EV_ADD" /\ Read(c).filter = "READ"
  BY <1>7, <1>12
<1>20. TypeOK'
  <2>1. ListenEvent' = ListenEvent
    BY DEF ListenEvent, ListenFilter, Event
  <2>2. observedEvents' \subseteq observedEvents
    BY <1>4
  <2> QED
    BY <1>1, <1>2, <1>3, <1>4, <1>7, <1>17, <2>1, <2>2 DEF TypeOK, queue
<1>21. DescriptorsDiffer'
  BY <1>1, <1>5, <1>7, <1>8 DEF DescriptorsDiffer
<1>22. FiltersInv'
  <2>1. \A f \in filters : f.udata \in accepted /\ f.ident = hSocket'[f.udata]
    BY <1>1, <1>7 DEF FiltersInv
  <2> QED
    BY <1>1, <1>3, <1>4, <1>8, <2>1 DEF FiltersInv
<1>23. ReadEntriesInv'
  <2> SUFFICES ASSUME NEW i \in DOMAIN queue, queue[i].filter = "READ"
               PROVE  queue[i].flags = "EV_ADD" /\ queue[i].udata \in Open' /\ FreshNext(queue[i].udata)
    BY DEF ReadEntriesInv, Fresh, FreshNext, queue
  <2>1. CASE i \in 1..Count
    BY <1>8, <1>11, <1>17, <1>18, <2>1
  <2>2. CASE \E c \in new : queue[i] = Read(c)
    BY <1>8, <1>11, <1>19, <2>2
  <2> QED
    BY <1>17, <2>1, <2>2
<1>24. DeleteEntriesInv'
  <2> SUFFICES ASSUME NEW i \in DOMAIN queue, queue[i].flags = "EV_DELETE",
                      queue[i].udata \in Open'
               PROVE  /\ WatchNext("WRITE", queue[i].udata) \in filters'
                      /\ \A v \in observedEvents' : v.udata = queue[i].udata => v.filter # "WRITE"
                      /\ \A j \in DOMAIN queue :
                           queue[j].flags = "EV_DELETE" /\ queue[j].udata = queue[i].udata => j = i
    BY DEF DeleteEntriesInv, Watch, WatchNext, queue
  <2>1. \A j \in DOMAIN queue : queue[j].flags = "EV_DELETE" =>
          j \in 1..Count /\ queue[j] = mEventRegistrationQueue[j]
    BY <1>17, <1>19
  <2>2. i \in 1..Count /\ queue[i] = mEventRegistrationQueue[i]
    BY <2>1
  <2>3. queue[i].udata \in accepted /\ queue[i].udata \in Open
    BY <1>2, <1>8, <1>18, <2>2
  <2>4. /\ Watch("WRITE", queue[i].udata) \in filters
        /\ \A v \in observedEvents : v.udata = queue[i].udata => v.filter # "WRITE"
        /\ \A j \in 1..Count :
             /\ mEventRegistrationQueue[j].flags = "EV_DELETE"
             /\ mEventRegistrationQueue[j].udata = queue[i].udata
             => j = i
    BY <1>1, <1>18, <2>2, <2>3 DEF DeleteEntriesInv
  <2> QED
    BY <1>4, <1>9, <2>1, <2>3, <2>4
<1>25. OwnersInv'
  <2> SUFFICES ASSUME NEW i \in DOMAIN queue
               PROVE  /\ queue[i].udata \in accepted' /\ queue[i].ident = hSocket'[queue[i].udata]
                      /\ \A c \in Open' : queue[i].ident = hSocket'[c] /\ queue[i].udata # c
                           => FreshNext(c)
    BY DEF OwnersInv, Fresh, FreshNext, queue
  <2>1. CASE i \in 1..Count
    <3>1. queue[i] = mEventRegistrationQueue[i]
      BY <1>17, <2>1
    <3>2. queue[i].udata \in accepted /\ queue[i].ident = hSocket'[queue[i].udata]
      BY <1>7, <1>18, <2>1, <3>1
    <3>3. ASSUME NEW c \in Open, queue[i].ident = hSocket'[c], queue[i].udata # c
          PROVE  FreshNext(c)
      BY <1>1, <1>7, <1>8, <1>11, <1>18, <2>1, <3>1, <3>3 DEF OwnersInv
    <3>4. \A c \in Open' : c \in Open \/ FreshNext(c)
      BY <1>8, <1>11
    <3>5. queue[i].udata \in accepted'
      BY <1>3, <3>2
    <3> QED
      BY <3>2, <3>3, <3>4, <3>5
  <2>2. CASE \E c \in new : queue[i] = Read(c)
    <3>1. PICK c \in new : queue[i] = Read(c)
      BY <2>2
    <3>2. queue[i].udata = c /\ queue[i].ident = hSocket'[c] /\ c \in accepted'
      BY <1>3, <1>19, <3>1
    <3>3. \A d \in Open' : hSocket'[d] = hSocket'[c] => d \in new
      BY <1>8
    <3> QED
      BY <1>11, <3>2, <3>3
  <2> QED
    BY <1>17, <2>1, <2>2
<1>26. ReadInv'
  <2> SUFFICES ASSUME NEW c \in Open'
               PROVE  \/ WatchNext("READ", c) \in filters'
                      \/ \E i \in DOMAIN queue : queue[i] = Read(c)
    BY DEF ReadInv, queue, Read, Watch, WatchNext, Change
  <2>1. CASE c \in new
    BY <1>17, <2>1
  <2>2. CASE c \in Open
    <3>1. WatchNext("READ", c) = Watch("READ", c)
      BY <1>8, <1>9, <2>2
    <3>2. Read(c) = Change("EV_ADD", Watch("READ", c))
      BY <3>1 DEF Read
    <3> QED
      BY <1>1, <1>4, <1>17, <1>18, <2>2, <3>1, <3>2 DEF ReadInv
  <2> QED
    BY <1>8, <2>1, <2>2
<1>27. EventsInv'
  <2> SUFFICES ASSUME NEW e \in ClientEvents
               PROVE  /\ phase = "events"
                      /\ e.udata \in accepted' /\ e.ident = hSocket'[e.udata]
                      /\ e.filter = "READ" => e.udata \notin Destroyed
                      /\ e.udata \in Open' =>
                           /\ e.flag # "EV_ERROR"
                           /\ WatchNext(e.filter, e.udata) \in filters
                           /\ \A v \in ClientEvents :
                                v.udata = e.udata /\ v.filter = e.filter => v = e
    BY <1>4, <1>10 DEF EventsInv, Destroyed, Watch, WatchNext
  <2>1. e.udata \in accepted
    BY <1>1 DEF EventsInv
  <2>2. e.udata \in Open' => e.udata \in Open
    BY <1>2, <1>8, <2>1
  <2>3. WatchNext(e.filter, e.udata) = Watch(e.filter, e.udata)
    BY <1>9, <2>1
  <2> QED
    BY <1>1, <1>3, <1>7, <2>1, <2>2, <2>3 DEF EventsInv
<1> QED
  BY <1>20, <1>21, <1>22, <1>23, <1>24, <1>25, <1>26, <1>27 DEF RegInv

\* The end of a client's output: its WRITE event is handled, and WRITE deleted.
LEMMA DisablesKeepsInv ==
  ASSUME RegInv, NEW c \in Client, Disables(c)
  PROVE  RegInv'
<1>1. /\ TypeOK /\ DescriptorsDiffer /\ FiltersInv /\ ReadEntriesInv /\ DeleteEntriesInv
      /\ OwnersInv /\ ReadInv /\ EventsInv
  BY DEF RegInv
<1>2. PICK event \in ClientEvents :
        event.udata = c /\ event.filter = "WRITE" /\ observedEvents' = observedEvents \ {event}
  BY DEF Disables
<1>3. /\ c \in Open /\ MsgSendingQueue' \subseteq MsgSendingQueue
      /\ UNCHANGED <<accepted, bExpired, bSocketClosed, hSocket, mClientReleaseQueue,
                     filters, phase, status>>
  BY DEF Disables
<1> DEFINE queue   == mEventRegistrationQueue'
           deleted == Change("EV_DELETE", Watch("WRITE", c))
<1>4. /\ deleted \in EntryType /\ deleted.flags = "EV_DELETE" /\ deleted.filter = "WRITE"
      /\ deleted.udata = c /\ deleted.ident = hSocket[c]
  BY <1>1, <1>3 DEF TypeOK, Open, Change, Watch, EntryType
<1>5. queue = mEventRegistrationQueue \o <<deleted>>
  BY DEF Disables
<1> HIDE DEF queue, deleted
<1>6. <<deleted>> \in [1..1 -> EntryType] /\ <<deleted>>[1] = deleted /\ 1 \in 1..1 /\ 1 \in Nat
  BY <1>4
<1>7. IsAppended(queue, 1, <<deleted>>)
  BY <1>1, <1>5, <1>6, Appends
<1>8. Count \in Nat /\ DOMAIN mEventRegistrationQueue = 1..Count
  BY QueueFacts
<1>9. /\ queue \in Seq(EntryType)
      /\ \A k \in 1..Count : k \in DOMAIN queue /\ queue[k] = mEventRegistrationQueue[k]
      /\ \A k \in DOMAIN queue : k \in 1..Count \/ (k = Count + 1 /\ queue[k] = deleted)
      /\ Count + 1 \notin 1..Count
  BY <1>6, <1>7, <1>8 DEF IsAppended
<1>10. /\ Open' = Open /\ Destroyed' = Destroyed /\ OpenFds' = OpenFds
       /\ \A filter, d : WatchNext(filter, d) = Watch(filter, d)
       /\ \A d : Fresh(d) => FreshNext(d)
  BY <1>2, <1>3 DEF Open, Destroyed, OpenFds, Watch, WatchNext, Fresh, FreshNext
<1>11. ListenEvent' = ListenEvent /\ ListenEvent.udata \notin Client
  BY NoClientAssumption DEF ListenEvent, ListenFilter, Event
<1>12. ClientEvents' \subseteq ClientEvents /\ event \notin ClientEvents'
  BY <1>2, <1>11 DEF ClientEvents
<1>13. TypeOK'
  BY <1>1, <1>2, <1>3, <1>9, <1>11 DEF TypeOK, queue
<1>14. DescriptorsDiffer'
  BY <1>1, <1>3, <1>10 DEF DescriptorsDiffer
<1>15. FiltersInv'
  BY <1>1, <1>3, <1>10 DEF FiltersInv
<1>16. ReadEntriesInv'
  <2> SUFFICES ASSUME NEW i \in DOMAIN queue, queue[i].filter = "READ"
               PROVE  queue[i].flags = "EV_ADD" /\ queue[i].udata \in Open /\ FreshNext(queue[i].udata)
    BY <1>10 DEF ReadEntriesInv, Fresh, FreshNext, queue
  <2>1. i \in 1..Count /\ queue[i] = mEventRegistrationQueue[i]
    BY <1>4, <1>9
  <2> QED
    BY <1>10, <2>1, QueueFacts
<1>17. /\ Watch("WRITE", c) \in filters
       /\ \A v \in ClientEvents : v.udata = c /\ v.filter = "WRITE" => v = event
       /\ event \in observedEvents
  BY <1>1, <1>2, <1>3 DEF EventsInv, ClientEvents
<1>18. DeleteEntriesInv'
  <2> SUFFICES ASSUME NEW i \in DOMAIN queue, queue[i].flags = "EV_DELETE",
                      queue[i].udata \in Open
               PROVE  /\ Watch("WRITE", queue[i].udata) \in filters
                      /\ \A v \in observedEvents' : v.udata = queue[i].udata => v.filter # "WRITE"
                      /\ \A j \in DOMAIN queue :
                           queue[j].flags = "EV_DELETE" /\ queue[j].udata = queue[i].udata => j = i
    BY <1>3, <1>10 DEF DeleteEntriesInv, Watch, WatchNext, queue
  <2>1. ASSUME NEW j \in 1..Count, mEventRegistrationQueue[j].flags = "EV_DELETE",
               mEventRegistrationQueue[j].udata \in Open
        PROVE  /\ Watch("WRITE", mEventRegistrationQueue[j].udata) \in filters
               /\ \A v \in observedEvents : v.udata = mEventRegistrationQueue[j].udata
                                            => v.filter # "WRITE"
               /\ \A k \in 1..Count :
                    /\ mEventRegistrationQueue[k].flags = "EV_DELETE"
                    /\ mEventRegistrationQueue[k].udata = mEventRegistrationQueue[j].udata
                    => k = j
    BY <1>1, <1>8, <2>1 DEF DeleteEntriesInv
  <2>2. \A j \in 1..Count : mEventRegistrationQueue[j].flags = "EV_DELETE" =>
          mEventRegistrationQueue[j].udata # c
    BY <1>2, <1>3, <1>17, <2>1
  <2>3. CASE i \in 1..Count
    <3>1. queue[i] = mEventRegistrationQueue[i] /\ queue[i].udata # c
      BY <1>9, <2>2, <2>3
    <3> QED
      BY <1>2, <1>4, <1>9, <2>1, <2>3, <3>1
  <2>4. CASE i = Count + 1 /\ queue[i] = deleted
    <3>1. ASSUME NEW v \in observedEvents', v.udata = c, v.filter = "WRITE"
          PROVE  FALSE
      <4>1. v \in ClientEvents /\ v # event
        BY <1>2, <1>11, <3>1 DEF ClientEvents
      <4> QED
        BY <1>17, <3>1, <4>1
    <3> QED
      BY <1>4, <1>9, <1>17, <2>2, <2>4, <3>1
  <2> QED
    BY <1>9, <2>3, <2>4
<1>19. OwnersInv'
  <2> SUFFICES ASSUME NEW i \in DOMAIN queue
               PROVE  /\ queue[i].udata \in accepted /\ queue[i].ident = hSocket[queue[i].udata]
                      /\ \A d \in Open : queue[i].ident = hSocket[d] /\ queue[i].udata # d
                           => FreshNext(d)
    BY <1>3, <1>10 DEF OwnersInv, Fresh, FreshNext, queue
  <2>1. CASE i \in 1..Count
    BY <1>1, <1>8, <1>9, <1>10, <2>1 DEF OwnersInv
  <2>2. CASE queue[i] = deleted
    BY <1>1, <1>3, <1>4, <2>2 DEF DescriptorsDiffer, Open
  <2> QED
    BY <1>9, <2>1, <2>2
<1>20. ReadInv'
  <2> SUFFICES ASSUME NEW d \in Open
               PROVE  \/ Watch("READ", d) \in filters
                      \/ \E i \in DOMAIN queue : queue[i] = Change("EV_ADD", Watch("READ", d))
    BY <1>3, <1>10 DEF ReadInv, queue, Watch, WatchNext, Change
  <2> QED
    BY <1>1, <1>8, <1>9 DEF ReadInv
<1>21. EventsInv'
  <2> SUFFICES ASSUME NEW e \in ClientEvents'
               PROVE  /\ phase = "events"
                      /\ e.udata \in accepted /\ e.ident = hSocket[e.udata]
                      /\ e.filter = "READ" => e.udata \notin Destroyed
                      /\ e.udata \in Open =>
                           /\ e.flag # "EV_ERROR"
                           /\ Watch(e.filter, e.udata) \in filters
                           /\ \A v \in ClientEvents' :
                                v.udata = e.udata /\ v.filter = e.filter => v = e
    BY <1>3, <1>10 DEF EventsInv, Watch, WatchNext
  <2> QED
    BY <1>1, <1>12 DEF EventsInv
<1> QED
  BY <1>13, <1>14, <1>15, <1>16, <1>18, <1>19, <1>20, <1>21 DEF RegInv

\* Disconnections, messages and all that changes less.
LEMMA ClosesKeepsInv ==
  ASSUME RegInv, NEW closing \in SUBSET Client, Closes(closing)
  PROVE  RegInv'
<1>1. /\ TypeOK /\ DescriptorsDiffer /\ FiltersInv /\ ReadEntriesInv /\ DeleteEntriesInv
      /\ OwnersInv /\ ReadInv /\ EventsInv
  BY DEF RegInv
<1>2. /\ closing \subseteq Open /\ \A c \in closing : ~Fresh(c)
      /\ bExpired \union closing \subseteq bExpired' /\ bExpired' \subseteq accepted
      /\ bSocketClosed' = bSocketClosed \union closing
      /\ mClientReleaseQueue' = mClientReleaseQueue \union closing
      /\ filters' = {f \in filters : \A c \in closing : f.ident # hSocket[c]}
      /\ MsgSendingQueue' \subseteq accepted
      /\ observedEvents' \subseteq observedEvents
      /\ phase' = phase \/ (phase' = "kevent" /\ observedEvents = {})
      /\ status' \in {"running", "aborted"}
      /\ UNCHANGED <<accepted, hSocket>>
      /\ QueueFrom(closing)
  BY DEF Closes
<1>3. /\ Open' = Open \ closing /\ Destroyed' \subseteq Destroyed
      /\ \A filter, d : WatchNext(filter, d) = Watch(filter, d)
      /\ \A d : Fresh(d) => FreshNext(d)
  BY <1>2 DEF Open, Destroyed, Watch, WatchNext, Fresh, FreshNext
<1>4. \A d \in Open \ closing : \A c \in closing : hSocket[d] # hSocket[c]
  BY <1>1, <1>2 DEF DescriptorsDiffer
<1>5. \A d \in Open \ closing : \A filter : Watch(filter, d) \in filters
        => Watch(filter, d) \in filters'
  BY <1>2, <1>4 DEF Watch
<1>6. ListenEvent' = ListenEvent
  BY DEF ListenEvent, ListenFilter, Event
<1>7. ClientEvents' \subseteq ClientEvents
  BY <1>2, <1>6 DEF ClientEvents
<1>8. DOMAIN mEventRegistrationQueue = 1..Count /\ Count \in Nat /\ 0 \notin 1..Count
  BY QueueFacts
<1> DEFINE queue == mEventRegistrationQueue'
           added(c) == Change("EV_ADD", Watch("WRITE", c))
           IsFrom(p) ==
             /\ \A k \in DOMAIN queue :
                  /\ p[k] # 0 => queue[k] = mEventRegistrationQueue[p[k]]
                  /\ p[k] = 0 => \E c \in Open \ closing : queue[k] = added(c)
             /\ \A j, k \in DOMAIN queue : p[j] = p[k] /\ p[j] # 0 => j = k
             /\ \A j \in DOMAIN mEventRegistrationQueue :
                  (\A c \in closing : mEventRegistrationQueue[j].ident # hSocket[c])
                  => \E k \in DOMAIN queue : p[k] = j
<1>9. PICK p \in [DOMAIN queue -> DOMAIN mEventRegistrationQueue \union {0}] : IsFrom(p)
  BY <1>2, Zenon DEF QueueFrom
<1>10. \A c : /\ added(c).flags = "EV_ADD" /\ added(c).filter = "WRITE"
              /\ added(c).udata = c /\ added(c).ident = hSocket[c]
  BY DEF Change, Watch
<1>11. queue \in Seq(EntryType)
  BY <1>2 DEF QueueFrom
<1> HIDE DEF queue, added, IsFrom
\* An entry is an old one, or adds WRITE for a client that stays open.
<1>12. \A k \in DOMAIN queue :
         \/ p[k] \in 1..Count /\ p[k] # 0 /\ queue[k] = mEventRegistrationQueue[p[k]]
         \/ \E c \in Open \ closing : queue[k] = added(c)
  BY <1>8, <1>9 DEF IsFrom
<1>13. TypeOK'
  BY <1>1, <1>2, <1>6, <1>11 DEF TypeOK, Open, queue
<1>14. DescriptorsDiffer'
  BY <1>1, <1>2, <1>3 DEF DescriptorsDiffer
<1>15. FiltersInv'
  <2> SUFFICES ASSUME NEW f \in filters'
               PROVE  /\ f.udata \in accepted /\ f.ident = hSocket[f.udata]
                      /\ \E d \in Open \ closing : hSocket[d] = f.ident
                      /\ f.filter = "READ" => f.udata \in Open \ closing
                      /\ \A g \in filters' : g.ident = f.ident /\ g.filter = f.filter => g = f
    BY <1>2, <1>3 DEF FiltersInv, OpenFds
  <2>1. f \in filters /\ \A c \in closing : f.ident # hSocket[c]
    BY <1>2
  <2> QED
    BY <1>1, <1>2, <2>1 DEF FiltersInv, OpenFds
<1>16. ReadEntriesInv'
  <2> SUFFICES ASSUME NEW k \in DOMAIN queue, queue[k].filter = "READ"
               PROVE  /\ queue[k].flags = "EV_ADD" /\ queue[k].udata \in Open \ closing
                      /\ FreshNext(queue[k].udata)
    BY <1>3 DEF ReadEntriesInv, Fresh, FreshNext, queue
  <2>1. p[k] \in 1..Count /\ queue[k] = mEventRegistrationQueue[p[k]]
    BY <1>10, <1>12
  <2>2. /\ queue[k].flags = "EV_ADD" /\ queue[k].udata \in Open
        /\ Fresh(queue[k].udata)
    BY <2>1, QueueFacts
  <2> QED
    BY <1>2, <1>3, <2>2
<1>17. DeleteEntriesInv'
  <2> SUFFICES ASSUME NEW k \in DOMAIN queue, queue[k].flags = "EV_DELETE",
                      queue[k].udata \in Open \ closing
               PROVE  /\ Watch("WRITE", queue[k].udata) \in filters'
                      /\ \A v \in observedEvents' : v.udata = queue[k].udata => v.filter # "WRITE"
                      /\ \A j \in DOMAIN queue :
                           queue[j].flags = "EV_DELETE" /\ queue[j].udata = queue[k].udata => j = k
    BY <1>3 DEF DeleteEntriesInv, Watch, WatchNext, queue
  <2>1. \A j \in DOMAIN queue : queue[j].flags = "EV_DELETE" =>
          p[j] \in 1..Count /\ p[j] # 0 /\ queue[j] = mEventRegistrationQueue[p[j]]
    BY <1>10, <1>12
  <2>2. /\ Watch("WRITE", queue[k].udata) \in filters
        /\ \A v \in observedEvents : v.udata = queue[k].udata => v.filter # "WRITE"
        /\ \A j \in 1..Count :
             /\ mEventRegistrationQueue[j].flags = "EV_DELETE"
             /\ mEventRegistrationQueue[j].udata = queue[k].udata
             => j = p[k]
    BY <1>1, <1>8, <2>1 DEF DeleteEntriesInv
  <2>3. ASSUME NEW j \in DOMAIN queue, queue[j].flags = "EV_DELETE",
               queue[j].udata = queue[k].udata
        PROVE  j = k
    BY <1>9, <2>1, <2>2, <2>3 DEF IsFrom
  <2> QED
    BY <1>2, <1>5, <2>2, <2>3
<1>18. OwnersInv'
  <2> SUFFICES ASSUME NEW k \in DOMAIN queue
               PROVE  /\ queue[k].udata \in accepted /\ queue[k].ident = hSocket[queue[k].udata]
                      /\ \A d \in Open \ closing :
                           queue[k].ident = hSocket[d] /\ queue[k].udata # d => FreshNext(d)
    BY <1>2, <1>3 DEF OwnersInv, Fresh, FreshNext, queue
  <2>1. CASE p[k] \in 1..Count /\ queue[k] = mEventRegistrationQueue[p[k]]
    BY <1>1, <1>3, <1>8, <2>1 DEF OwnersInv
  <2>2. CASE \E c \in Open \ closing : queue[k] = added(c)
    BY <1>1, <1>10, <2>2 DEF DescriptorsDiffer, Open
  <2> QED
    BY <1>12, <2>1, <2>2
<1>19. ReadInv'
  <2> SUFFICES ASSUME NEW d \in Open \ closing
               PROVE  \/ Watch("READ", d) \in filters'
                      \/ \E k \in DOMAIN queue : queue[k] = Change("EV_ADD", Watch("READ", d))
    BY <1>2, <1>3 DEF ReadInv, queue, Watch, WatchNext, Change
  <2>1. CASE Watch("READ", d) \in filters
    BY <1>5, <2>1
  <2>2. CASE \E i \in 1..Count : mEventRegistrationQueue[i] = Change("EV_ADD", Watch("READ", d))
    <3>1. PICK i \in 1..Count : mEventRegistrationQueue[i] = Change("EV_ADD", Watch("READ", d))
      BY <2>2
    <3>2. mEventRegistrationQueue[i].ident = hSocket[d]
      BY <3>1 DEF Change, Watch
    <3>3. PICK k \in DOMAIN queue : p[k] = i
      BY <1>4, <1>8, <1>9, <3>2 DEF IsFrom
    <3> QED
      BY <1>8, <1>9, <3>1, <3>3 DEF IsFrom
  <2> QED
    BY <1>1, <1>8, <2>1, <2>2 DEF ReadInv
<1>20. EventsInv'
  <2> SUFFICES ASSUME NEW e \in ClientEvents'
               PROVE  /\ phase' = "events"
                      /\ e.udata \in accepted /\ e.ident = hSocket[e.udata]
                      /\ e.filter = "READ" => e.udata \notin Destroyed
                      /\ e.udata \in Open \ closing =>
                           /\ e.flag # "EV_ERROR"
                           /\ Watch(e.filter, e.udata) \in filters'
                           /\ \A v \in ClientEvents' :
                                v.udata = e.udata /\ v.filter = e.filter => v = e
    BY <1>2, <1>3 DEF EventsInv, Watch, WatchNext
  <2>1. e \in ClientEvents /\ observedEvents # {}
    BY <1>7 DEF ClientEvents
  <2> QED
    BY <1>1, <1>2, <1>5, <1>7, <2>1 DEF EventsInv
<1> QED
  BY <1>13, <1>14, <1>15, <1>16, <1>17, <1>18, <1>19, <1>20 DEF RegInv

\* What the registration queue, kqueue and the events of a batch have to do with each
\* other, for any number of clients and any size of a batch.
THEOREM RegInvHolds == Spec => []RegInv
<1>1. RegInv /\ [Next]_vars => RegInv'
  <2> SUFFICES ASSUME RegInv, [Next]_vars
               PROVE  RegInv'
    OBVIOUS
  <2> QED
    BY EveryStep, KeventKeepsInv, AcceptKeepsInv, DisablesKeepsInv, ClosesKeepsInv
<1> QED
  BY RegInvInit, <1>1, PTL DEF Spec

\* The queue, the filters and the events are what they were declared to be, and a
\* client is accepted, expired, closed and released in this order.
THEOREM RegistrationTypeCorrect == Spec => []TypeOK
<1>1. RegInv => TypeOK
  BY DEF RegInv
<1> QED
  BY RegInvHolds, <1>1, PTL

\* forceDisconnectClient may reorder the queue and accept() reuse a descriptor: input
\* of every open client is watched nevertheless after the next kevent().
THEOREM ReadWatchedHolds == Spec => []ReadWatched
<1>1. RegInv => ReadWatched
  BY AppliedFacts DEF ReadWatched, Watches, Watch
<1> QED
  BY RegInvHolds, <1>1, PTL

\* READ events reach the client that has the descriptor, and it still exists: the
\* assertion after recv() holds, and the udata is no freed control block.
THEOREM ReadEventOwnerHolds == Spec => []ReadEventOwner
<1>1. RegInv => ReadEventOwner
  BY DEF RegInv, EventsInv, ClientEvents, ReadEventOwner
<1> QED
  BY RegInvHolds, <1>1, PTL

\* kevent() reports no failed change of an open client: no such client is disconnected
\* for an EV_ERROR.
THEOREM NoFalseErrorHolds == Spec => []NoFalseError
<1>1. RegInv => NoFalseError
  <2> SUFFICES ASSUME RegInv, NEW e \in observedEvents, e.flag = "EV_ERROR"
               PROVE  e.udata \notin Open
    BY DEF NoFalseError
  <2>1. ListenEvent.flag = "none"
    BY DEF ListenEvent, Event
  <2>2. e \in ClientEvents
    BY <2>1 DEF ClientEvents
  <2> QED
    BY <2>2 DEF RegInv, EventsInv
<1> QED
  BY RegInvHolds, <1>1, PTL

-----------------------------------------------------------------------------
(***************************************************************************)
(* How a registration is lost                                               *)
(***************************************************************************)

\* An entry that changes filter f, and the outcome of the first n entries: the last
\* one that changes f decides.
Live(f, e) == e.ident \in OpenFds /\ Same(f, e)
Adds(f, e) == e.ident \in OpenFds /\ e.flags = "EV_ADD" /\ f = Asked(e)
Decided(f, n) ==
  \/ f \in filters /\ \A i \in 1..n : ~Live(f, mEventRegistrationQueue[i])
  \/ \E i \in 1..n : /\ Adds(f, mEventRegistrationQueue[i])
                     /\ \A j \in i + 1..n : ~Live(f, mEventRegistrationQueue[j])

LastDecides == \A f : f \in Applied.filters <=> Decided(f, Count)

LEMMA LastChangeDecides == TypeOK => LastDecides
<1> SUFFICES ASSUME TypeOK
             PROVE  \A f : f \in Applied.filters <=> Decided(f, Count)
  BY DEF LastDecides
<1> DEFINE T == {n \in 0..Count : \A f : f \in AppliedTo[n].filters <=> Decided(f, n)}
<1>1. Count \in Nat /\ AppliedTo[0].filters = filters
  BY AppliedSteps
<1>2. 0 \in T
  <2>1. \A i \in 1..0 : FALSE
    OBVIOUS
  <2> QED
    BY <1>1, <2>1 DEF Decided
<1>3. ASSUME NEW n \in 0..Count - 1, n \in T
      PROVE  n + 1 \in T
  <2> DEFINE e == mEventRegistrationQueue[n + 1]
  <2>1. n \in 0..Count /\ n + 1 \in 0..Count /\ n + 1 \in 1..Count /\ (n + 1) - 1 = n /\ n \in Nat
    BY <1>1
  <2>2. \A f : f \in AppliedTo[n + 1].filters <=>
           (f \in AppliedTo[n].filters /\ ~Live(f, e)) \/ Adds(f, e)
    <3>1. AppliedTo[n] \in ChangesType /\ e \in EntryType
      BY <2>1, AppliedSteps
    <3>2. AppliedTo[n + 1] = ApplyChange(AppliedTo[n], e)
      BY <2>1, AppliedSteps
    <3> QED
      BY <3>1, <3>2, ChangeApplied DEF Live, Adds
  <2>3. /\ \A i \in 1..n + 1 : i \in 1..n \/ i = n + 1
        /\ \A i \in 1..n : i \in 1..n + 1 /\ n + 1 \in i + 1..n + 1
        /\ \A i \in 1..n : \A j \in i + 1..n + 1 : j \in i + 1..n \/ j = n + 1
        /\ \A i \in 1..n : \A j \in i + 1..n : j \in i + 1..n + 1
        /\ n + 1 \in 1..n + 1 /\ \A j \in (n + 1) + 1..n + 1 : FALSE
    BY <2>1
  <2>4. \A f : Adds(f, e) => Live(f, e)
    BY DEF Adds, Live, Same, Asked
  <2> HIDE DEF e
  <2>5. ASSUME NEW f
        PROVE  Decided(f, n + 1) <=> (Decided(f, n) /\ ~Live(f, e)) \/ Adds(f, e)
    <3>1. CASE Adds(f, e)
      BY <2>3, <3>1 DEF Decided, e
    <3>2. CASE ~Adds(f, e) /\ Live(f, e)
      BY <2>3, <3>2 DEF Decided, e
    <3>3. CASE ~Adds(f, e) /\ ~Live(f, e)
      BY <2>3, <3>3 DEF Decided, e
    <3> QED
      BY <3>1, <3>2, <3>3
  <2> QED
    BY <1>3, <2>1, <2>2, <2>5
<1>4. Count \in T
  <2>1. 0..Count \subseteq T /\ Count \in 0..Count
    <3> HIDE DEF T
    <3> QED
      BY <1>1, <1>2, <1>3, InductionUpTo
  <2> QED
    BY <2>1
<1> QED
  BY <1>4 DEF Applied, Count

\* WRITE of a client is watched after the next kevent() as before the step, if the step
\* adds entries at the end of the queue only, none of which deletes it.
LEMMA ExtensionKeeps ==
  ASSUME RegInv, TypeOK', NEW c \in Open, c \in Open', hSocket'[c] = hSocket[c],
         Watches("WRITE", c),
         Watch("WRITE", c) \in filters => Watch("WRITE", c) \in filters',
         NEW n \in Nat, n = Len(mEventRegistrationQueue'), Count <= n,
         \A k \in 1..Count : mEventRegistrationQueue'[k] = mEventRegistrationQueue[k],
         \A k \in Count + 1..n :
           Same(Watch("WRITE", c), mEventRegistrationQueue'[k])
           => /\ mEventRegistrationQueue'[k].flags = "EV_ADD"
              /\ Watch("WRITE", c) = Asked(mEventRegistrationQueue'[k])
  PROVE  Watches("WRITE", c)'
<1> DEFINE w     == Watch("WRITE", c)
           queue == mEventRegistrationQueue'
           K     == {k \in Count + 1..n : Same(w, queue[k])}
<1>1. TypeOK /\ Count \in Nat
  BY QueueFacts DEF RegInv
<1>2. LastDecides /\ LastDecides'
  <2>1. TypeOK' => LastDecides'
    BY LastChangeDecides, PTL
  <2> QED
    BY <1>1, <2>1, LastChangeDecides
<1>3. w.ident \in OpenFds /\ w.ident \in OpenFds'
  BY DEF Watch, OpenFds
<1>4. \A e : /\ Live(w, e) <=> Same(w, e)
             /\ Adds(w, e) <=> e.flags = "EV_ADD" /\ w = Asked(e)
  BY <1>3 DEF Live, Adds, Same, Asked
<1>5. Decided(w, Count)
  BY <1>2 DEF LastDecides, Watches, Watch
<1>6. SUFFICES \/ w \in filters' /\ \A i \in 1..n : ~Same(w, queue[i])
               \/ \E i \in 1..n : /\ queue[i].flags = "EV_ADD" /\ w = Asked(queue[i])
                                  /\ \A j \in i + 1..n : ~Same(w, queue[j])
  <2>1. \A e : e.flags = "EV_ADD" /\ w = Asked(e) => e.ident \in OpenFds'
    BY <1>3 DEF Asked
  <2>2. w \in Applied.filters' <=>
          \/ w \in filters' /\ \A i \in 1..n : ~(queue[i].ident \in OpenFds' /\ Same(w, queue[i]))
          \/ \E i \in 1..n : /\ queue[i].ident \in OpenFds' /\ queue[i].flags = "EV_ADD"
                             /\ w = Asked(queue[i])
                             /\ \A j \in i + 1..n :
                                  ~(queue[j].ident \in OpenFds' /\ Same(w, queue[j]))
    <3>1. \A f :
            f \in Applied.filters' <=>
              \/ /\ f \in filters'
                 /\ \A i \in 1..Len(mEventRegistrationQueue') :
                      ~(queue[i].ident \in OpenFds' /\ Same(f, queue[i]))
              \/ \E i \in 1..Len(mEventRegistrationQueue') :
                   /\ queue[i].ident \in OpenFds' /\ queue[i].flags = "EV_ADD" /\ f = Asked(queue[i])
                   /\ \A j \in i + 1..Len(mEventRegistrationQueue') :
                        ~(queue[j].ident \in OpenFds' /\ Same(f, queue[j]))
      BY <1>2 DEF LastDecides, Decided, Live, Adds, Count, Same, Asked
    <3>2. n = Len(mEventRegistrationQueue')
      OBVIOUS
    <3> HIDE DEF w, queue
    <3> QED
      BY <3>1, <3>2, Zenon
  <2>3. Watches("WRITE", c)' <=> w \in Applied.filters'
    BY DEF Watches, Watch
  <2> HIDE DEF w, queue
  <2> QED
    BY <2>1, <2>2, <2>3
<1> HIDE DEF w
<1>7. CASE K = {}
  <2>1. /\ \A i \in 1..n : i \in 1..Count \/ i \in Count + 1..n
        /\ \A i \in 1..Count : i \in 1..n
        /\ \A i \in 1..Count : \A j \in i + 1..n : j \in i + 1..Count \/ j \in Count + 1..n
        /\ \A i \in 1..Count : \A j \in i + 1..Count : j \in 1..Count
    BY <1>1
  <2>2. \A k \in Count + 1..n : ~Same(w, queue[k])
    BY <1>7
  <2> HIDE DEF queue, K
  <2> QED
    BY <1>4, <1>5, <2>1, <2>2 DEF Decided, queue, w
<1>8. CASE K # {}
  <2>1. PICK k \in K : \A j \in K : ~(k < j)
    <3>1. Count + 1 \in Nat /\ K \in SUBSET (Count + 1..n)
      BY <1>1
    <3> HIDE DEF K
    <3> QED
      BY <1>8, <3>1, GreatestElement
  <2>2. k \in Count + 1..n /\ k \in 1..n /\ \A j \in k + 1..n : k < j /\ j \in Count + 1..n
    BY <1>1
  <2>3. \A j \in k + 1..n : ~Same(w, queue[j])
    BY <2>1, <2>2
  <2>4. queue[k].flags = "EV_ADD" /\ w = Asked(queue[k])
    BY <2>2 DEF w
  <2> QED
    BY <2>2, <2>3, <2>4
<1> QED
  BY <1>7, <1>8

\* accept() adds READ entries at the end of the queue.
LEMMA AcceptAppends ==
  ASSUME RegInv, AcceptClients
  PROVE  /\ \A c \in Open : hSocket'[c] = hSocket[c]
         /\ UNCHANGED filters
         /\ \E n \in Nat : \E more :
              /\ IsAppended(mEventRegistrationQueue', n, more)
              /\ \A k \in 1..n : more[k].filter = "READ"
<1>1. TypeOK
  BY DEF RegInv
<1>2. PICK new \in SUBSET (Client \ accepted) :
        \E order \in SetToSeqs(new), fd \in Injection(new, Descriptors \ OpenFds) :
          /\ accepted' = accepted \union new
          /\ hSocket' = [c \in accepted' |-> IF c \in accepted THEN hSocket[c] ELSE fd[c]]
          /\ mEventRegistrationQueue' = mEventRegistrationQueue \o
               [i \in DOMAIN order |->
                  [ident |-> fd[order[i]], filter |-> "READ",
                   flags |-> "EV_ADD", udata |-> order[i]]]
  BY DEF AcceptClients
<1>3. PICK order \in SetToSeqs(new), fd \in Injection(new, Descriptors \ OpenFds) :
        /\ accepted' = accepted \union new
        /\ hSocket' = [c \in accepted' |-> IF c \in accepted THEN hSocket[c] ELSE fd[c]]
        /\ mEventRegistrationQueue' = mEventRegistrationQueue \o
             [i \in DOMAIN order |->
                [ident |-> fd[order[i]], filter |-> "READ",
                 flags |-> "EV_ADD", udata |-> order[i]]]
  BY <1>2
<1>4. \A c \in Open : hSocket'[c] = hSocket[c]
  BY <1>3 DEF Open
<1>5. PICK n \in Nat : order \in [1..n -> new]
  BY Orders
<1>6. fd \in [new -> Descriptors]
  BY DEF Injection
<1> DEFINE more == [i \in DOMAIN order |->
                      [ident |-> fd[order[i]], filter |-> "READ",
                       flags |-> "EV_ADD", udata |-> order[i]]]
<1>7. more \in [1..n -> EntryType] /\ \A k \in 1..n : more[k].filter = "READ"
  BY <1>2, <1>5, <1>6 DEF EntryType
<1>8. mEventRegistrationQueue' = mEventRegistrationQueue \o more
  BY <1>3
<1> HIDE DEF more
<1>9. IsAppended(mEventRegistrationQueue', n, more)
  BY <1>1, <1>7, <1>8, Appends
<1> QED
  BY <1>4, <1>7, <1>9 DEF AcceptClients

\* A change of another client's WRITE filter is no change of this one's.
LEMMA OthersDiffer ==
  ASSUME DescriptorsDiffer, NEW c \in Open, NEW d \in Open, c # d, NEW flags
  PROVE  ~Same(Watch("WRITE", c), Change(flags, Watch("WRITE", d)))
BY DEF DescriptorsDiffer, Same, Watch, Change

LEMMA LostStep ==
  ASSUME RegInv, [Next]_vars, NEW c \in Open, Watches("WRITE", c),
         c \in MsgSendingQueue', c \notin bSocketClosed',
         \A d \in bSocketClosed' \ bSocketClosed, i \in DOMAIN mEventRegistrationQueue :
           mEventRegistrationQueue[i].ident # hSocket[d]
  PROVE  Watches("WRITE", c)'
<1> DEFINE w == Watch("WRITE", c)
           n == Len(mEventRegistrationQueue')
<1>1. RegInv'
  BY EveryStep, KeventKeepsInv, AcceptKeepsInv, DisablesKeepsInv, ClosesKeepsInv
<1>2. TypeOK /\ DescriptorsDiffer /\ TypeOK' /\ Count \in Nat
      /\ DOMAIN mEventRegistrationQueue = 1..Count
  BY <1>1, QueueFacts DEF RegInv
<1>3. c \in Open'
  <2>1. accepted \subseteq accepted'
    BY EveryStep DEF Kevent, AcceptClients, Disables, Closes
  <2> QED
    BY <2>1 DEF Open
<1>4. n \in Nat
  BY <1>2 DEF TypeOK
<1>5. CASE Kevent
  <2>1. filters' = Applied.filters /\ n = 0 /\ hSocket' = hSocket
    BY <1>5 DEF Kevent
  <2>2. TypeOK' => LastDecides'
    BY LastChangeDecides, PTL
  <2>3. \A f : f \in filters' => f \in Applied.filters'
    <3>1. \A i \in 1..0 : FALSE
      OBVIOUS
    <3> QED
      BY <1>2, <2>1, <2>2, <3>1 DEF LastDecides, Decided, Count
  <2> QED
    BY <2>1, <2>3 DEF Watches
<1>6. CASE AcceptClients
  <2>1. PICK m \in Nat : \E more : /\ IsAppended(mEventRegistrationQueue', m, more)
                                   /\ \A k \in 1..m : more[k].filter = "READ"
    BY <1>6, AcceptAppends
  <2>2. PICK more : /\ IsAppended(mEventRegistrationQueue', m, more)
                    /\ \A k \in 1..m : more[k].filter = "READ"
    BY <2>1
  <2>3. /\ n = Count + m /\ Count <= n
        /\ \A k \in 1..Count : mEventRegistrationQueue'[k] = mEventRegistrationQueue[k]
        /\ \A k \in Count + 1..n : k - Count \in 1..m /\ Count + (k - Count) = k
    BY <1>2, <2>2 DEF IsAppended
  <2>4. \A k \in Count + 1..n : ~Same(w, mEventRegistrationQueue'[k])
    <3> TAKE k \in Count + 1..n
    <3>1. mEventRegistrationQueue'[k].filter = "READ"
      BY <2>2, <2>3 DEF IsAppended
    <3> QED
      BY <3>1 DEF Same, Watch
  <2>5. hSocket'[c] = hSocket[c] /\ filters' = filters
    BY <1>6, AcceptAppends
  <2> HIDE DEF w
  <2> QED
    BY <1>2, <1>3, <1>4, <2>3, <2>4, <2>5, ExtensionKeeps DEF w
<1>7. ASSUME NEW d \in Client, Disables(d)
      PROVE  Watches("WRITE", c)'
  <2> DEFINE deleted == Change("EV_DELETE", Watch("WRITE", d))
  <2>1. d \in Open /\ d # c /\ hSocket' = hSocket /\ filters' = filters
        /\ mEventRegistrationQueue' = mEventRegistrationQueue \o <<deleted>>
    BY <1>7 DEF Disables
  <2>2. deleted \in EntryType
    BY <1>2, <2>1 DEF TypeOK, Open, Change, Watch, EntryType
  <2> HIDE DEF deleted
  <2>3. <<deleted>> \in [1..1 -> EntryType] /\ <<deleted>>[1] = deleted /\ 1 \in 1..1 /\ 1 \in Nat
    BY <2>2
  <2>4. IsAppended(mEventRegistrationQueue', 1, <<deleted>>)
    BY <1>2, <2>1, <2>3, Appends
  <2>5. /\ n = Count + 1 /\ Count <= n
        /\ \A k \in 1..Count : mEventRegistrationQueue'[k] = mEventRegistrationQueue[k]
        /\ \A k \in Count + 1..n : mEventRegistrationQueue'[k] = deleted
    BY <1>2, <2>3, <2>4 DEF IsAppended
  <2>6. ~Same(w, deleted)
    BY <1>2, <2>1, OthersDiffer DEF deleted
  <2> HIDE DEF w
  <2> QED
    BY <1>2, <1>3, <1>4, <2>1, <2>5, <2>6, ExtensionKeeps DEF w
<1>8. ASSUME NEW closing \in SUBSET Client, Closes(closing)
      PROVE  Watches("WRITE", c)'
  <2>1. /\ closing \subseteq Open /\ bSocketClosed' = bSocketClosed \union closing
        /\ filters' = {f \in filters : \A d \in closing : f.ident # hSocket[d]}
        /\ hSocket' = hSocket /\ QueueFrom(closing)
    BY <1>8 DEF Closes
  <2>2. closing \subseteq bSocketClosed' \ bSocketClosed /\ c \notin closing
    BY <2>1 DEF Open
  <2>3. OnlyAdds(mEventRegistrationQueue')
    BY <2>1, <2>2 DEF QueueFrom
  <2>4. w \in filters => w \in filters'
    BY <1>2, <2>1, <2>2 DEF DescriptorsDiffer, Watch
  <2>5. /\ Count <= n
        /\ \A k \in 1..Count : mEventRegistrationQueue'[k] = mEventRegistrationQueue[k]
        /\ \A k \in Count + 1..n : \E d \in Open :
             mEventRegistrationQueue'[k] = Change("EV_ADD", Watch("WRITE", d))
    BY <2>3 DEF OnlyAdds
  <2>6. ASSUME NEW k \in Count + 1..n, Same(w, mEventRegistrationQueue'[k])
        PROVE  /\ mEventRegistrationQueue'[k].flags = "EV_ADD"
               /\ w = Asked(mEventRegistrationQueue'[k])
    <3>1. PICK d \in Open : mEventRegistrationQueue'[k] = Change("EV_ADD", Watch("WRITE", d))
      BY <2>5
    <3>2. d = c
      BY <1>2, <2>6, <3>1, OthersDiffer
    <3> QED
      BY <3>1, <3>2 DEF Change, Watch, Asked
  <2> HIDE DEF w
  <2> QED
    BY <1>2, <1>3, <1>4, <2>1, <2>4, <2>5, <2>6, ExtensionKeeps DEF w
<1> QED
  BY <1>5, <1>6, <1>7, <1>8, EveryStep

\* WRITE of an open client with messages is lost only when another client is disconnected
\* whose entries are in the queue, by the loop that moves the last entry.
THEOREM LostByRemovalHolds == Spec => LostByRemoval
<1> DEFINE Lost ==
      \A c \in Open :
        /\ Watches("WRITE", c)
        /\ c \in MsgSendingQueue'
        /\ c \notin bSocketClosed'
        /\ ~Watches("WRITE", c)'
        => \E d \in bSocketClosed' \ bSocketClosed :
             \E i \in DOMAIN mEventRegistrationQueue :
               mEventRegistrationQueue[i].ident = hSocket[d]
<1>1. RegInv /\ [Next]_vars => [Lost]_vars
  BY LostStep
<1> QED
  BY RegInvHolds, <1>1, PTL DEF Spec, LostByRemoval

=============================================================================

---------------------------- MODULE MemoryProofs ----------------------------
(***************************************************************************)
(* Proofs about the memory of the server: its shared pointers              *)
(* (SharedCount), for any finite set of pointer variables and any objects  *)
(* of which no two own each other (OwnershipAssumption), and its memory    *)
(* pools (MemoryPool), for chunks of any capacity and any number of them.  *)
(***************************************************************************)
EXTENDS Memory, FiniteSetTheorems, TLAPS

-----------------------------------------------------------------------------
(***************************************************************************)
(* Shared pointers.                                                        *)
(***************************************************************************)

\* A pointer refers to an object of its type that was created.
PointsRight ==
  \A s \in SharedSlot : shared[s] # NoObject => shared[s] \in Targets[s] \intersect allocated

StrongIsExact == \A o \in Object \ bExpired : StrongRefCount[o] = Cardinality(Holders(o))
WeakIsExact   == \A o \in Object : WeakRefCount[o] = Cardinality(Observers(o))

AliveIsCounted == \A o \in allocated \ bExpired : StrongRefCount[o] >= 1
ExpiredIsOne   == \A o \in bExpired : StrongRefCount[o] = 1

\* Whoever still points to an expired object is being reset.
ExpiredIsReset == \A s \in SharedSlot : shared[s] \in bExpired => Resetting(s)

WeakPointsRight == \A w \in WeakSlot : weak[w] # NoObject => weak[w] \in allocated \ freed

\* A running destructor belongs to the pointer that was reset; that pointer will be
\* assigned from a variable, if at all.
FrameInv(d) ==
  /\ d.object \in bExpired \ freed /\ shared[d.slot] = d.object
  /\ d.from # NoSlot => Owner[d.from] = NoObject /\ shared[d.from] \in Targets[d.slot]

\* Destructors nest once: the inner one belongs to a member of the outer object.
StackInv ==
  /\ Len(destructors) <= 2
  /\ \A i \in 1..Len(destructors) : FrameInv(destructors[i])
  /\ Len(destructors) = 2 =>
       /\ Owner[destructors[1].slot] = destructors[2].object
       /\ destructors[1].from = NoSlot

\* The inductive invariant.  CountsExact and NoDangling are not inductive: that a pointer
\* is the last one needs its count, and that a nested destructor cannot free the object
\* around it, or assign from a pointer it resets, needs the shape of the stack.
SharedInv ==
  /\ TypeOK
  /\ PointsRight /\ StrongIsExact /\ AliveIsCounted /\ ExpiredIsOne /\ ExpiredIsReset
  /\ StackInv
  /\ WeakIsExact /\ WeakPointsRight

-----------------------------------------------------------------------------
(***************************************************************************)
(* How many pointers refer to an object                                     *)
(***************************************************************************)
One(x, y) == IF x = y THEN 1 ELSE 0

At(S, f, o) == {t \in S : f[t] = o}

SameBut(S, f, g, s) == \A t \in S \ {s} : g[t] = f[t]

LEMMA SlotsFinite == IsFiniteSet(SharedSlot) /\ IsFiniteSet(WeakSlot)
<1>1. SharedSlot \subseteq Slot /\ WeakSlot \subseteq Slot
  BY DEF Slot
<1> QED BY <1>1, FS_Subset, SlotAssumption

\* One pointer of S changes.
LEMMA CountUpdate ==
  ASSUME NEW S, IsFiniteSet(S), NEW f, NEW g, NEW s \in S, NEW o,
         SameBut(S, f, g, s)
  PROVE  Cardinality(At(S, g, o)) =
           Cardinality(At(S, f, o)) - One(f[s], o) + One(g[s], o)
<1> DEFINE F == {t \in S : f[t] = o}
           G == {t \in S : g[t] = o}
           R == {t \in S \ {s} : f[t] = o}
<1>1. IsFiniteSet(R) /\ Cardinality(R) \in Nat
  BY FS_Subset, FS_CardinalityType
<1>2. Cardinality(R \union {s}) = Cardinality(R) + 1
  BY <1>1, FS_AddElement
<1>3. F = (IF f[s] = o THEN R \union {s} ELSE R)
  BY DEF SameBut
<1>4. G = (IF g[s] = o THEN R \union {s} ELSE R)
  BY DEF SameBut
<1> HIDE DEF F, G, R
<1>5. Cardinality(F) = Cardinality(R) + One(f[s], o)
  BY <1>1, <1>2, <1>3 DEF One
<1>6. Cardinality(G) = Cardinality(R) + One(g[s], o)
  BY <1>1, <1>2, <1>4 DEF One
<1>7. Cardinality(G) = Cardinality(F) - One(f[s], o) + One(g[s], o)
  BY <1>1, <1>5, <1>6 DEF One
<1> QED BY <1>7 DEF F, G, At

\* Two pointers of S change places.
Swapped(f, s, t) == [f EXCEPT ![s] = f[t], ![t] = f[s]]

LEMMA CountSwap ==
  ASSUME NEW S, IsFiniteSet(S), NEW f, DOMAIN f = S,
         NEW s \in S, NEW t \in S, NEW o
  PROVE  Cardinality(At(S, Swapped(f, s, t), o)) = Cardinality(At(S, f, o))
<1> DEFINE h == [f EXCEPT ![s] = f[t]]
           g == Swapped(f, s, t)
           F == Cardinality(At(S, f, o))
           H == Cardinality(At(S, h, o))
           G == Cardinality(At(S, g, o))
<1>1. SameBut(S, f, h, s) /\ SameBut(S, h, g, t)
  BY DEF SameBut, Swapped
<1>3. h[s] = f[t] /\ g[t] = f[s] /\ h[t] = f[t]
  BY DEF Swapped
<1>4. F \in Nat
  BY FS_Subset, FS_CardinalityType DEF At
<1> HIDE DEF h, g
<1>5. H = F - One(f[s], o) + One(h[s], o)
  BY <1>1, CountUpdate
<1>6. G = H - One(h[t], o) + One(g[t], o)
  BY <1>1, CountUpdate
<1> HIDE DEF F, G, H
<1>7. G = F
  BY <1>3, <1>4, <1>5, <1>6 DEF One
<1> QED BY <1>7 DEF F, G, g

LEMMA HoldersFinite ==
  \A o : /\ IsFiniteSet(Holders(o)) /\ Cardinality(Holders(o)) \in Nat
         /\ IsFiniteSet(Observers(o)) /\ Cardinality(Observers(o)) \in Nat
         /\ Holders(o) = At(SharedSlot, shared, o) /\ Observers(o) = At(WeakSlot, weak, o)
BY SlotsFinite, FS_Subset, FS_CardinalityType DEF Holders, Observers, At

\* A count function after one pointer was set to p, or let go of p.
LEMMA CountUp ==
  ASSUME NEW f \in [Object -> Int], NEW p \in Object
  PROVE  [f EXCEPT ![p] = @ + 1] = [x \in Object |-> f[x] + One(p, x)]
<1> DEFINE g == [f EXCEPT ![p] = @ + 1]
           h == [x \in Object |-> f[x] + One(p, x)]
<1>1. DOMAIN g = Object /\ DOMAIN h = Object /\ g = [x \in Object |-> g[x]]
  OBVIOUS
<1>2. ASSUME NEW x \in Object PROVE g[x] = h[x]
  BY DEF One
<1> HIDE DEF g, h
<1>3. g = h
  BY <1>1, <1>2 DEF h
<1> QED BY <1>3 DEF g, h

LEMMA CountDown ==
  ASSUME NEW f \in [Object -> Int], NEW p \in Object
  PROVE  /\ [f EXCEPT ![p] = @ - 1] = [x \in Object |-> f[x] - One(p, x)]
         /\ [f EXCEPT ![p] = @ - 1] \in [Object -> Int]
<1> DEFINE g == [f EXCEPT ![p] = @ - 1]
           h == [x \in Object |-> f[x] - One(p, x)]
<1>1. DOMAIN g = Object /\ DOMAIN h = Object /\ g \in [Object -> Int]
  OBVIOUS
<1>2. ASSUME NEW x \in Object PROVE g[x] = h[x]
  BY DEF One
<1> HIDE DEF g, h
<1>3. g = h
  BY <1>1, <1>2 DEF h
<1> QED BY <1>1, <1>3 DEF g, h

LEMMA NoCount == \A x \in Object : One(NoObject, x) = 0
BY NullAssumption DEF One

Moved(f, old, p) ==
  IF p = NoObject THEN [f EXCEPT ![old] = @ - 1]
  ELSE [[f EXCEPT ![old] = @ - 1] EXCEPT ![p] = @ + 1]

LEMMA CountMoved ==
  ASSUME NEW f \in [Object -> Int], NEW old \in Object, NEW p \in Object \union {NoObject}
  PROVE  Moved(f, old, p) = [x \in Object |-> f[x] - One(old, x) + One(p, x)]
<1> DEFINE g == [f EXCEPT ![old] = @ - 1]
<1>1. g = [x \in Object |-> f[x] - One(old, x)] /\ g \in [Object -> Int]
  BY CountDown
<1> HIDE DEF g
<1>2. CASE p = NoObject
  <2>1. \A x \in Object : g[x] = f[x] - One(old, x) + One(p, x)
    BY <1>1, <1>2, NoCount
  <2> QED BY <1>1, <1>2, <2>1 DEF g, Moved
<1>3. CASE p # NoObject
  <2>1. [g EXCEPT ![p] = @ + 1] = [x \in Object |-> g[x] + One(p, x)]
    BY <1>1, <1>3, CountUp
  <2>2. \A x \in Object : g[x] + One(p, x) = f[x] - One(old, x) + One(p, x)
    BY <1>1
  <2> QED BY <1>3, <2>1, <2>2 DEF g, Moved
<1> QED BY <1>2, <1>3

LEMMA Types ==
  ASSUME SharedInv
  PROVE  /\ shared \in [SharedSlot -> Object \union {NoObject}]
         /\ weak \in [WeakSlot -> Object \union {NoObject}]
         /\ StrongRefCount \in [Object -> Nat] /\ WeakRefCount \in [Object -> Nat]
         /\ StrongRefCount \in [Object -> Int] /\ WeakRefCount \in [Object -> Int]
         /\ allocated \subseteq Object /\ bExpired \subseteq allocated /\ freed \subseteq bExpired
BY DEF SharedInv, TypeOK

-----------------------------------------------------------------------------
(***************************************************************************)
(* The stack of destructors                                                 *)
(***************************************************************************)
Frame == [object : Object, slot : SharedSlot, from : SharedSlot \union {NoSlot}]

Running(o) == \E i \in DOMAIN destructors : destructors[i].object = o

\* The pointers that are being reset are exactly those that still point to an expired object.
LEMMA ResettingIsExpired ==
  ASSUME SharedInv
  PROVE  \A s \in SharedSlot : Resetting(s) <=> shared[s] \in bExpired
<1>1. DOMAIN destructors = 1..Len(destructors)
  BY DEF SharedInv, TypeOK
<1> QED BY <1>1 DEF SharedInv, StackInv, FrameInv, Resetting, ExpiredIsReset

LEMMA IdleFacts ==
  ASSUME SharedInv, Idle
  PROVE  /\ \A s \in SharedSlot : ~Resetting(s) /\ shared[s] \notin bExpired
         /\ \A o : ~Running(o)
         /\ DOMAIN destructors = {} /\ Len(destructors) = 0
<1>1. DOMAIN destructors = {} /\ Len(destructors) = 0
  BY DEF Idle
<1>2. \A s \in SharedSlot : ~Resetting(s)
  BY <1>1 DEF Resetting
<1> QED BY <1>1, <1>2, ResettingIsExpired DEF Running

\* The outermost and the innermost destructor.
LEMMA BusyFacts ==
  ASSUME SharedInv, ~Idle
  PROVE  /\ Len(destructors) \in 1..2 /\ DOMAIN destructors = 1..Len(destructors)
         /\ Dying = destructors[1] /\ Dying \in Frame /\ FrameInv(Dying)
         /\ Dying.object \in Object /\ Dying.slot \in SharedSlot
         /\ Dying.from \in SharedSlot \union {NoSlot}
         /\ \A i \in DOMAIN destructors : destructors[i] \in Frame /\ FrameInv(destructors[i])
<1>1. destructors \in Seq(Frame) /\ destructors # <<>>
  BY DEF SharedInv, TypeOK, Frame, Idle
<1>2. Len(destructors) \in Nat /\ Len(destructors) # 0 /\ DOMAIN destructors = 1..Len(destructors)
  BY <1>1
<1>3. Len(destructors) \in 1..2
  BY <1>2 DEF SharedInv, StackInv
<1>4. \A i \in DOMAIN destructors : destructors[i] \in Frame /\ FrameInv(destructors[i])
  BY <1>1, <1>2 DEF SharedInv, StackInv
<1>5. Dying = destructors[1]
  BY <1>1 DEF Dying
<1> QED BY <1>2, <1>3, <1>4, <1>5 DEF Frame

\* Inside a destructor, a member that still points somewhere points to an object that is
\* not expired, and there is only one destructor.
LEMMA MemberFacts ==
  ASSUME SharedInv, ~Idle, NEW s \in SharedSlot, Owner[s] = Dying.object, shared[s] # NoObject
  PROVE  /\ Len(destructors) = 1 /\ shared[s] \in Object \ bExpired
         /\ \A i \in DOMAIN destructors : destructors[i].slot # s /\ destructors[i].from # s
<1> DEFINE d == Dying
<1>1. /\ shared[d.slot] = d.object /\ d.object \in Object /\ d.slot \in SharedSlot
      /\ d.from # NoSlot => Owner[d.from] = NoObject
      /\ Len(destructors) \in 1..2 /\ DOMAIN destructors = 1..Len(destructors)
      /\ d = destructors[1]
  BY BusyFacts DEF FrameInv
<1>2. d.object \in Targets[d.slot] /\ shared[s] \in Targets[s] /\ shared[s] \in Object
  BY <1>1, NullAssumption DEF SharedInv, PointsRight, TypeOK
<1>3. Owner[s] # NoObject /\ Owner[d.slot] = NoObject
  BY <1>1, <1>2, NullAssumption, OwnershipAssumption
<1>4. Len(destructors) = 1
  <2>1. Len(destructors) = 2 => destructors[2].object \in Object
    BY <1>1, BusyFacts DEF Frame
  <2> QED BY <1>1, <1>3, <2>1, NullAssumption DEF SharedInv, StackInv
<1>5. d.slot # s
  BY <1>3
<1>6. shared[s] \notin bExpired
  BY <1>1, <1>4, <1>5, ResettingIsExpired DEF Resetting
<1> QED BY <1>1, <1>2, <1>3, <1>4, <1>5, <1>6, NullAssumption, OwnerAssumption DEF Slot

-----------------------------------------------------------------------------
(***************************************************************************)
(* What a step can do: a shared pointer changes, starts or ends a           *)
(* destructor; a weak pointer changes; two pointers change places           *)
(***************************************************************************)
SetShared(s, p) ==
  /\ shared[s] \notin bExpired
  /\ shared[s] # NoObject => StrongRefCount[shared[s]] # 1
  /\ p # NoObject => p \in Targets[s] \ bExpired
  /\ \A i \in DOMAIN destructors : destructors[i].slot # s /\ destructors[i].from # s
  /\ shared' = [shared EXCEPT ![s] = p]
  /\ StrongRefCount' = [o \in Object |-> StrongRefCount[o] - One(shared[s], o) + One(p, o)]
  /\ UNCHANGED <<weak, WeakRefCount, bExpired, freed, destructors>>

GainNew(s, p) ==
  /\ shared[s] = NoObject /\ p \in Object \ allocated
  /\ SetShared(s, p) /\ allocated' = allocated \union {p}

GainOld(s, p) ==
  /\ p # NoObject => p \in allocated
  /\ SetShared(s, p) /\ UNCHANGED allocated

Expire(s, from) ==
  /\ shared[s] \in Object \ bExpired /\ StrongRefCount[shared[s]] = 1
  /\ \/ Idle
     \/ Len(destructors) = 1 /\ from = NoSlot /\ Owner[s] = destructors[1].object
  /\ from # NoSlot => Owner[from] = NoObject /\ shared[from] \in Targets[s]
  /\ bExpired' = bExpired \union {shared[s]}
  /\ destructors' = <<[object |-> shared[s], slot |-> s, from |-> from]>> \o destructors
  /\ UNCHANGED <<shared, StrongRefCount, weak, WeakRefCount, allocated, freed>>

SetWeak(w, p) ==
  /\ p # NoObject => p \in allocated \ freed /\ ~Running(p)
  /\ weak' = [weak EXCEPT ![w] = p]
  /\ WeakRefCount' = [o \in Object |-> WeakRefCount[o] - One(weak[w], o) + One(p, o)]
  /\ UNCHANGED <<shared, StrongRefCount, bExpired, allocated, freed, destructors>>

Kinds ==
  \/ \E s \in SharedSlot, p \in Object \union {NoObject} : GainNew(s, p) \/ GainOld(s, p)
  \/ \E s \in SharedSlot, from \in SharedSlot \union {NoSlot} : Expire(s, from)
  \/ \E s, t \in SharedSlot : Idle /\ SwapShared(s, t)
  \/ \E w \in WeakSlot, p \in Object \union {NoObject} : SetWeak(w, p)
  \/ \E w, v \in WeakSlot : SwapWeak(w, v)
  \/ FinishReset
  \/ UNCHANGED vars

\* An object that nothing points to is not counted.
LEMMA UnbornIsNotCounted ==
  ASSUME SharedInv, NEW o \in Object \ allocated
  PROVE  StrongRefCount[o] = 0
<1>1. Holders(o) = {} /\ o \notin bExpired
  BY NullAssumption DEF SharedInv, PointsRight, Holders, TypeOK
<1> QED BY <1>1, FS_EmptySet DEF SharedInv, StrongIsExact

LEMMA MakeIsGain ==
  ASSUME SharedInv, NEW s \in SharedSlot, NEW o \in Object, MakeShared(s, o)
  PROVE  GainNew(s, o)
<1>1. StrongRefCount[o] = 0 /\ o \notin bExpired /\ shared[s] \notin bExpired
  BY UnbornIsNotCounted, IdleFacts DEF MakeShared, SharedInv, TypeOK
<1>2. StrongRefCount' = [x \in Object |-> StrongRefCount[x] - One(shared[s], x) + One(o, x)]
  <2>1. StrongRefCount' = [StrongRefCount EXCEPT ![o] = @ + 1]
    BY <1>1, Types DEF MakeShared
  <2>2. StrongRefCount' = [x \in Object |-> StrongRefCount[x] + One(o, x)]
    BY <2>1, CountUp, Types
  <2>3. \A x \in Object : StrongRefCount[x] - One(shared[s], x) = StrongRefCount[x]
    BY NoCount, Types DEF MakeShared
  <2> QED BY <2>2, <2>3
<1> QED BY <1>1, <1>2, IdleFacts DEF MakeShared, GainNew, SetShared

\* A pointer that is NULL becomes a copy of one to an object that is not expired.
LEMMA AliveIsGain ==
  ASSUME SharedInv, Idle, NEW s \in SharedSlot, shared[s] = NoObject,
         NEW p \in Object, p \in Targets[s] \intersect (allocated \ bExpired),
         shared' = [shared EXCEPT ![s] = p],
         StrongRefCount' = [StrongRefCount EXCEPT ![p] = @ + 1],
         UNCHANGED <<weak, WeakRefCount, bExpired, allocated, freed, destructors>>
  PROVE  GainOld(s, p)
<1>1. StrongRefCount' = [x \in Object |-> StrongRefCount[x] - One(shared[s], x) + One(p, x)]
  <2>1. StrongRefCount' = [x \in Object |-> StrongRefCount[x] + One(p, x)]
    BY CountUp, Types
  <2>2. \A x \in Object : StrongRefCount[x] - One(shared[s], x) = StrongRefCount[x]
    BY NoCount, Types
  <2> QED BY <2>1, <2>2
<1> QED BY <1>1, IdleFacts DEF GainOld, SetShared

LEMMA CopyIsGain ==
  ASSUME SharedInv, NEW s \in SharedSlot, NEW from \in SharedSlot, CopyShared(s, from)
  PROVE  GainOld(s, shared[from])
<1>1. shared[from] \in Object
  BY TypeAssumption DEF CopyShared, Slot
<1>2. shared[from] \in allocated \ bExpired
  BY <1>1, NullAssumption, IdleFacts DEF CopyShared, SharedInv, PointsRight
<1>3. from # NoSlot /\ shared[from] # NoObject
  BY <1>1, NullAssumption DEF Slot
<1> QED BY <1>1, <1>2, <1>3, AliveIsGain DEF CopyShared, Copied

LEMMA FromBlockIsGain ==
  ASSUME SharedInv, Idle, NEW s \in SharedSlot, shared[s] = NoObject,
         NEW o \in Object, o \in Targets[s] \intersect allocated,
         FromControlBlock(s, o),
         UNCHANGED <<weak, WeakRefCount, bExpired, allocated, freed, destructors>>
  PROVE  GainOld(s, o) \/ UNCHANGED vars
<1>1. CASE o \in bExpired
  BY <1>1 DEF FromControlBlock, vars
<1>2. CASE o \notin bExpired
  BY <1>2, AliveIsGain DEF FromControlBlock
<1> QED BY <1>1, <1>2

LEMMA LockIsGain ==
  ASSUME SharedInv, NEW s \in SharedSlot, NEW w \in WeakSlot, Lock(s, w)
  PROVE  GainOld(s, weak[w]) \/ UNCHANGED vars
<1>1. weak[w] \in Object
  BY TypeAssumption DEF Lock, Slot
<1>2. weak[w] \in Targets[s] \intersect allocated
  BY <1>1, NullAssumption DEF Lock, SharedInv, WeakPointsRight
<1>3. CASE StrongRefCount[weak[w]] > 0
  BY <1>1, <1>2, <1>3, FromBlockIsGain DEF Lock
<1>4. CASE ~(StrongRefCount[weak[w]] > 0)
  BY <1>4 DEF Lock, vars
<1> QED BY <1>3, <1>4

\* Reset() lets go of a reference, or starts the destructor.
LEMMA ResetKinds ==
  ASSUME SharedInv, NEW s \in SharedSlot, NEW from \in SharedSlot \union {NoSlot},
         shared[s] \in Object \ bExpired,
         \/ Idle
         \/ Len(destructors) = 1 /\ from = NoSlot /\ Owner[s] = destructors[1].object,
         \A i \in DOMAIN destructors : destructors[i].slot # s /\ destructors[i].from # s,
         from # NoSlot => /\ Owner[from] = NoObject /\ shared[from] \in Targets[s]
                          /\ shared[from] \notin bExpired,
         Reset(s, from), UNCHANGED <<weak, WeakRefCount, allocated, freed>>
  PROVE  Expire(s, from) \/ \E p \in Object \union {NoObject} : GainOld(s, p)
<1> DEFINE o == shared[s]
           p == IF from = NoSlot THEN NoObject ELSE [shared EXCEPT ![s] = NoObject][from]
<1>1. CASE StrongRefCount[o] = 1
  BY <1>1 DEF Reset, Expire
<1>2. CASE StrongRefCount[o] # 1
  <2>1. /\ Copied(s, from, [shared EXCEPT ![s] = NoObject], [StrongRefCount EXCEPT ![o] = @ - 1])
        /\ UNCHANGED <<bExpired, destructors>>
    BY <1>2 DEF Reset
  <2>2. shared' = [shared EXCEPT ![s] = p]
    BY <2>1 DEF Copied, SharedInv, TypeOK
  <2>3. p \in Object \union {NoObject}
    BY DEF SharedInv, TypeOK
  <2>4. p # NoObject => p \in (Targets[s] \intersect allocated) \ bExpired
    BY <2>3 DEF SharedInv, TypeOK, PointsRight
  <2>5. StrongRefCount' = Moved(StrongRefCount, o, p)
    BY <2>1 DEF Copied, Moved
  <2> HIDE DEF p
  <2>6. StrongRefCount' = [x \in Object |-> StrongRefCount[x] - One(o, x) + One(p, x)]
    BY <2>3, <2>5, Types, CountMoved
  <2>7. GainOld(s, p)
    BY <1>2, <2>1, <2>2, <2>4, <2>6 DEF GainOld, SetShared
  <2> QED BY <2>3, <2>7
<1> QED BY <1>1, <1>2

LEMMA ResetSharedKinds ==
  ASSUME SharedInv, NEW s \in SharedSlot, ResetShared(s)
  PROVE  Kinds
<1>1. shared[s] \in Object \ bExpired /\ \A i \in DOMAIN destructors : FALSE
  BY IdleFacts DEF ResetShared, SharedInv, TypeOK
<1>2. Expire(s, NoSlot) \/ \E p \in Object \union {NoObject} : GainOld(s, p)
  BY <1>1, ResetKinds DEF ResetShared
<1> QED BY <1>2 DEF Kinds

LEMMA AssignSharedKinds ==
  ASSUME SharedInv, NEW s \in SharedSlot, NEW from \in SharedSlot, AssignShared(s, from)
  PROVE  Kinds
<1>1. /\ shared[s] \in Object \ bExpired /\ shared[from] \notin bExpired
      /\ \A i \in DOMAIN destructors : FALSE
  BY IdleFacts DEF AssignShared, SharedInv, TypeOK
<1>2. Expire(s, from) \/ \E p \in Object \union {NoObject} : GainOld(s, p)
  BY <1>1, ResetKinds DEF AssignShared
<1> QED BY <1>2 DEF Kinds

LEMMA DestroySharedKinds ==
  ASSUME SharedInv, NEW s \in SharedSlot, DestroySharedMember(s)
  PROVE  Kinds
<1>1. /\ shared[s] \in Object \ bExpired /\ Len(destructors) = 1
      /\ \A i \in DOMAIN destructors : destructors[i].slot # s /\ destructors[i].from # s
      /\ Owner[s] = destructors[1].object
  BY MemberFacts, BusyFacts DEF DestroySharedMember
<1>2. Expire(s, NoSlot) \/ \E p \in Object \union {NoObject} : GainOld(s, p)
  BY <1>1, ResetKinds DEF DestroySharedMember
<1> QED BY <1>2 DEF Kinds

\* The control block of the old target is not deleted: its object is alive, or its
\* destructor left StrongRefCount at 1.
LEMMA WeakSetKinds ==
  ASSUME SharedInv, NEW w \in WeakSlot, NEW p \in Object \union {NoObject},
         p # NoObject => p \in allocated \ freed /\ ~Running(p),
         WeakSet(w, p),
         UNCHANGED <<shared, StrongRefCount, bExpired, allocated, destructors>>
  PROVE  SetWeak(w, p)
<1> DEFINE old == weak[w]
           count == IF old = NoObject THEN WeakRefCount ELSE [WeakRefCount EXCEPT ![old] = @ - 1]
<1>1. old \in Object \union {NoObject} /\ (old # NoObject => old \in allocated)
  BY Types DEF SharedInv, WeakPointsRight
<1>2. old # NoObject => StrongRefCount[old] # 0
  BY <1>1, Types DEF SharedInv, AliveIsCounted, ExpiredIsOne
<1>3. freed' = freed
  BY <1>2 DEF WeakSet
<1>4. WeakRefCount' = IF p = NoObject THEN count ELSE [count EXCEPT ![p] = @ + 1]
  BY DEF WeakSet
<1>5. WeakRefCount' = [x \in Object |-> WeakRefCount[x] - One(old, x) + One(p, x)]
  <2>1. CASE old = NoObject
    <3>1. \A x \in Object : WeakRefCount[x] - One(old, x) = WeakRefCount[x]
      BY <2>1, NoCount, Types
    <3>2. CASE p = NoObject
      <4>1. \A x \in Object : WeakRefCount[x] - One(old, x) + One(p, x) = WeakRefCount[x]
        BY <3>1, <3>2, NoCount, Types
      <4> QED BY <1>4, <2>1, <3>2, <4>1, Types
    <3>3. CASE p # NoObject
      <4>1. WeakRefCount' = [x \in Object |-> WeakRefCount[x] + One(p, x)]
        BY <1>4, <2>1, <3>3, CountUp, Types
      <4> QED BY <3>1, <4>1
    <3> QED BY <3>2, <3>3
  <2>2. CASE old # NoObject
    <3>1. WeakRefCount' = Moved(WeakRefCount, old, p)
      BY <2>2, <1>4 DEF Moved
    <3> QED BY <2>2, <3>1, <1>1, CountMoved, Types
  <2> QED BY <2>1, <2>2
<1> QED BY <1>3, <1>5 DEF SetWeak, WeakSet

LEMMA WeakFromSharedKinds ==
  ASSUME SharedInv, NEW w \in WeakSlot, NEW s \in SharedSlot, WeakFromShared(w, s)
  PROVE  Kinds
<1>1. shared[s] \in Object
  BY TypeAssumption DEF WeakFromShared, Slot
<1>2. shared[s] \in allocated \ freed /\ ~Running(shared[s])
  BY <1>1, NullAssumption, IdleFacts DEF WeakFromShared, SharedInv, PointsRight, TypeOK
<1>3. SetWeak(w, shared[s])
  BY <1>1, <1>2, WeakSetKinds DEF WeakFromShared
<1> QED BY <1>1, <1>3 DEF Kinds

LEMMA WeakFromWeakKinds ==
  ASSUME SharedInv, NEW w \in WeakSlot, NEW v \in WeakSlot, WeakFromWeak(w, v)
  PROVE  Kinds
<1> DEFINE p == IF w = v \/ StrongRefCount[weak[v]] = 0 THEN NoObject ELSE weak[v]
<1>1. p \in Object \union {NoObject}
  BY DEF SharedInv, TypeOK
<1>2. p # NoObject => p \in allocated \ freed /\ ~Running(p)
  BY IdleFacts DEF WeakFromWeak, SharedInv, WeakPointsRight
<1>3. WeakSet(w, p) /\ UNCHANGED <<shared, StrongRefCount, bExpired, allocated, destructors>>
  BY DEF WeakFromWeak
<1> HIDE DEF p
<1>4. SetWeak(w, p)
  BY <1>1, <1>2, <1>3, WeakSetKinds
<1> QED BY <1>1, <1>4 DEF Kinds

LEMMA WeakReset ==
  ASSUME SharedInv, NEW w \in WeakSlot, ResetWeak(w) \/ DestroyWeakMember(w)
  PROVE  Kinds
<1>1. SetWeak(w, NoObject)
  BY WeakSetKinds DEF ResetWeak, DestroyWeakMember
<1> QED BY <1>1 DEF Kinds

LEMMA EveryStep ==
  ASSUME SharedInv, [Next]_vars
  PROVE  Kinds
<1>1. CASE UNCHANGED vars
  BY <1>1 DEF Kinds
<1>2. ASSUME NEW s \in SharedSlot, NEW o \in Object, MakeShared(s, o) PROVE Kinds
  BY <1>2, MakeIsGain DEF Kinds
<1>3. ASSUME NEW s \in SharedSlot, NEW o \in Object, GetFromUdata(s, o) PROVE Kinds
  <2>1. GainOld(s, o) \/ UNCHANGED vars
    BY <1>3, FromBlockIsGain DEF GetFromUdata
  <2> QED BY <2>1 DEF Kinds
<1>4. ASSUME NEW s \in SharedSlot, NEW from \in SharedSlot, CopyShared(s, from) PROVE Kinds
  <2>1. GainOld(s, shared[from]) /\ shared[from] \in Object \union {NoObject}
    BY <1>4, CopyIsGain DEF SharedInv, TypeOK
  <2> QED BY <2>1 DEF Kinds
<1>5. ASSUME NEW s \in SharedSlot, NEW t \in SharedSlot, SwapShared(s, t) PROVE Kinds
  BY <1>5 DEF Kinds, SwapShared
<1>6. ASSUME NEW s \in SharedSlot, NEW w \in WeakSlot, Lock(s, w) PROVE Kinds
  <2>1. GainOld(s, weak[w]) \/ UNCHANGED vars
    BY <1>6, LockIsGain
  <2>2. weak[w] \in Object \union {NoObject}
    BY DEF SharedInv, TypeOK
  <2> QED BY <2>1, <2>2 DEF Kinds
<1>7. ASSUME NEW w \in WeakSlot, NEW v \in WeakSlot, SwapWeak(w, v) PROVE Kinds
  BY <1>7 DEF Kinds
<1>8. CASE FinishReset
  BY <1>8 DEF Kinds
<1> QED
  BY <1>1, <1>2, <1>3, <1>4, <1>5, <1>6, <1>7, <1>8, AssignSharedKinds, ResetSharedKinds,
     DestroySharedKinds, WeakFromSharedKinds, WeakFromWeakKinds, WeakReset DEF Next

-----------------------------------------------------------------------------
(***************************************************************************)
(* Every kind of step keeps the invariant                                   *)
(***************************************************************************)
LEMMA Frames ==
  ASSUME SharedInv
  PROVE  /\ destructors \in Seq(Frame) /\ Len(destructors) \in 0..2
         /\ DOMAIN destructors = 1..Len(destructors)
         /\ \A i \in DOMAIN destructors :
              /\ destructors[i] \in Frame /\ FrameInv(destructors[i])
              /\ destructors[i].object \in Object /\ destructors[i].slot \in SharedSlot
              /\ destructors[i].from \in SharedSlot \union {NoSlot}
<1>1. destructors \in Seq(Frame)
  BY DEF SharedInv, TypeOK, Frame
<1>2. Len(destructors) \in 0..2 /\ DOMAIN destructors = 1..Len(destructors)
  <2>1. Len(destructors) \in Nat /\ DOMAIN destructors = 1..Len(destructors)
    BY <1>1
  <2>2. Len(destructors) <= 2
    BY DEF SharedInv, StackInv
  <2> QED BY <2>1, <2>2
<1>3. \A i \in DOMAIN destructors : destructors[i] \in Frame /\ FrameInv(destructors[i])
  BY <1>1, <1>2 DEF SharedInv, StackInv
<1> QED BY <1>1, <1>2, <1>3 DEF Frame

\* A shared pointer changes: its old and its new object are counted.
LEMMA SetSharedCounts ==
  ASSUME SharedInv, NEW s \in SharedSlot, NEW p \in Object \union {NoObject},
         shared' = [shared EXCEPT ![s] = p], bExpired' = bExpired,
         NEW o \in Object \ bExpired
  PROVE  Cardinality(Holders(o)') = StrongRefCount[o] - One(shared[s], o) + One(p, o)
<1>1. SameBut(SharedSlot, shared, shared', s) /\ shared'[s] = p
  BY Types DEF SameBut
<1>2. Cardinality(At(SharedSlot, shared', o)) =
        Cardinality(At(SharedSlot, shared, o)) - One(shared[s], o) + One(p, o)
  <2>1. Cardinality(At(SharedSlot, shared', o)) =
          Cardinality(At(SharedSlot, shared, o)) - One(shared[s], o) + One(shared'[s], o)
    BY ONLY s \in SharedSlot, <1>1, CountUpdate, SlotsFinite
  <2> QED BY <1>1, <2>1
<1>3. Holders(o) = At(SharedSlot, shared, o) /\ Holders(o)' = At(SharedSlot, shared', o)
  BY DEF Holders, At
<1>4. StrongRefCount[o] = Cardinality(At(SharedSlot, shared, o))
  BY <1>3 DEF SharedInv, StrongIsExact
<1> QED BY <1>2, <1>3, <1>4

LEMMA GainKeepsInv ==
  ASSUME SharedInv, NEW s \in SharedSlot, NEW p \in Object \union {NoObject},
         GainNew(s, p) \/ GainOld(s, p)
  PROVE  SharedInv'
<1>1. /\ SetShared(s, p)
      /\ allocated \subseteq allocated' /\ allocated' \subseteq allocated \union {p}
      /\ p # NoObject => p \in allocated'
      /\ allocated' \subseteq Object
  BY Types DEF GainNew, GainOld
<1>2. shared' \in [SharedSlot -> Object \union {NoObject}] /\ shared'[s] = p
  BY <1>1, Types DEF SetShared
<1>3. \A t \in SharedSlot : t # s => shared'[t] = shared[t]
  BY <1>1, Types DEF SetShared
<1>4. p \notin bExpired /\ shared[s] \notin bExpired
  BY <1>1, Types, NullAssumption DEF SetShared
<1>5. \A o \in Object :
        /\ StrongRefCount'[o] = StrongRefCount[o] - One(shared[s], o) + One(p, o)
        /\ StrongRefCount[o] \in Nat
  BY <1>1, Types DEF SetShared
<1>6. \A o \in bExpired : StrongRefCount'[o] = 1
  <2> SUFFICES ASSUME NEW o \in bExpired PROVE StrongRefCount'[o] = 1
    OBVIOUS
  <2>1. o \in Object /\ StrongRefCount[o] = 1
    BY Types DEF SharedInv, ExpiredIsOne
  <2> QED BY <2>1, <1>4, <1>5 DEF One
<1>7. ASSUME NEW o \in allocated' \ bExpired PROVE o \in Object /\ StrongRefCount'[o] \in Nat \ {0}
  <2>1. CASE o = p
    <3>1. o \in Object /\ One(p, o) = 1
      BY <1>1, <2>1 DEF One
    <3>2. shared[s] = o => StrongRefCount[o] >= 1
      BY <3>1, <1>4, NullAssumption DEF SharedInv, PointsRight, AliveIsCounted
    <3> QED BY <3>1, <3>2, <1>5 DEF One
  <2>2. CASE o # p
    <3>1. o \in allocated /\ o \in Object /\ One(p, o) = 0
      BY <1>1, <2>2, Types DEF One
    <3>2. StrongRefCount[o] >= 1 /\ (shared[s] = o => StrongRefCount[o] # 1)
      BY <3>1, <1>1, <1>7, NullAssumption DEF SharedInv, AliveIsCounted, SetShared
    <3> QED BY <3>1, <3>2, <1>5 DEF One
  <2> QED BY <2>1, <2>2
<1>8. ASSUME NEW o \in Object, o \notin allocated' PROVE StrongRefCount'[o] \in Nat
  <2>1. o # p /\ o # shared[s]
    BY <1>1, <1>8, NullAssumption DEF SharedInv, PointsRight
  <2> QED BY <2>1, <1>5 DEF One
<1>9. StrongRefCount' \in [Object -> Nat]
  <2>1. \A o \in Object : StrongRefCount'[o] \in Nat
    BY <1>6, <1>7, <1>8
  <2>2. StrongRefCount' = [o \in Object |-> StrongRefCount'[o]]
    BY <1>1 DEF SetShared
  <2> QED BY <2>1, <2>2
<1>10. bExpired' = bExpired
  BY <1>1 DEF SetShared
<1>11. TypeOK'
  BY <1>1, <1>2, <1>9 DEF SetShared, SharedInv, TypeOK
<1>12. PointsRight'
  BY <1>1, <1>2, <1>3 DEF SetShared, SharedInv, PointsRight
<1>13. StrongIsExact'
  <2>1. \A o \in Object \ bExpired : StrongRefCount'[o] = Cardinality(Holders(o)')
    BY <1>1, <1>5, <1>10, SetSharedCounts DEF SetShared
  <2> QED BY <2>1, <1>10 DEF StrongIsExact
<1>14. AliveIsCounted' /\ ExpiredIsOne'
  BY <1>6, <1>7, <1>10 DEF AliveIsCounted, ExpiredIsOne
<1>15. ExpiredIsReset'
  BY <1>1, <1>2, <1>3, <1>4 DEF SetShared, SharedInv, ExpiredIsReset, Resetting
<1>16. StackInv'
  <2>1. ASSUME NEW i \in DOMAIN destructors PROVE FrameInv(destructors[i])'
    <3>1. destructors[i].slot # s /\ destructors[i].from # s
      BY <1>1 DEF SetShared
    <3> QED BY <3>1, <1>1, <1>3, Frames DEF FrameInv, SetShared
  <2> QED BY <2>1, <1>1, Frames DEF SetShared, SharedInv, StackInv
<1>17. WeakIsExact' /\ WeakPointsRight'
  BY <1>1 DEF SetShared, SharedInv, WeakIsExact, WeakPointsRight, Observers
<1> QED BY <1>11, <1>12, <1>13, <1>14, <1>15, <1>16, <1>17 DEF SharedInv

LEMMA Pushed ==
  ASSUME NEW S, NEW q \in Seq(S), NEW r \in S
  PROVE  /\ <<r>> \o q \in Seq(S) /\ Len(<<r>> \o q) = Len(q) + 1
         /\ (<<r>> \o q)[1] = r
         /\ \A i \in 1..Len(q) : (<<r>> \o q)[i + 1] = q[i]
OBVIOUS

\* An object that is not expired has an owner.
LEMMA AliveIsHeld ==
  ASSUME SharedInv, NEW o \in allocated \ bExpired
  PROVE  Holders(o) # {}
<1>1. o \in Object /\ StrongRefCount[o] >= 1 /\ StrongRefCount[o] = Cardinality(Holders(o))
  BY Types DEF SharedInv, AliveIsCounted, StrongIsExact
<1>2. Cardinality(Holders(o)) # 0
  BY <1>1, HoldersFinite
<1> QED BY <1>2, FS_EmptySet

\* The pointers that are reset after a destructor is started.
LEMMA ExpireFrames ==
  ASSUME SharedInv, NEW s \in SharedSlot, NEW from \in SharedSlot \union {NoSlot},
         Expire(s, from)
  PROVE  /\ destructors' \in Seq(Frame) /\ Len(destructors) \in 0..1
         /\ Len(destructors') = Len(destructors) + 1
         /\ DOMAIN destructors' = 1..Len(destructors')
         /\ destructors'[1] = [object |-> shared[s], slot |-> s, from |-> from]
         /\ \A i \in 1..Len(destructors) : destructors'[i + 1] = destructors[i]
         /\ \A i \in 1..Len(destructors') : i = 1 \/ i - 1 \in 1..Len(destructors)
         /\ \A t : Resetting(t)' <=> t = s \/ Resetting(t)
         /\ \A o : Running(o)' <=> o = shared[s] \/ Running(o)
<1> DEFINE r == [object |-> shared[s], slot |-> s, from |-> from]
<1>1. r \in Frame /\ destructors' = <<r>> \o destructors
  BY DEF Expire, Frame
<1>2. destructors \in Seq(Frame) /\ Len(destructors) \in 0..2
      /\ DOMAIN destructors = 1..Len(destructors)
  BY Frames
<1>3. Len(destructors) \in 0..1
  BY <1>2, IdleFacts DEF Expire
<1> HIDE DEF r
<1>4. /\ destructors' \in Seq(Frame) /\ Len(destructors') = Len(destructors) + 1
      /\ destructors'[1] = r
      /\ \A i \in 1..Len(destructors) : destructors'[i + 1] = destructors[i]
  BY <1>1, <1>2, Pushed
<1>5. DOMAIN destructors' = 1..Len(destructors')
  BY <1>4
<1>6. \A i \in 1..Len(destructors') : i = 1 \/ i - 1 \in 1..Len(destructors)
  BY <1>3, <1>4
<1>7. \A i \in 1..Len(destructors) : i + 1 \in 1..Len(destructors')
  BY <1>3, <1>4
<1>8. 1 \in 1..Len(destructors')
  BY <1>3, <1>4
<1>9. \A i \in DOMAIN destructors' :
        \/ destructors'[i] = r
        \/ i - 1 \in DOMAIN destructors /\ destructors'[i] = destructors[i - 1]
  <2> TAKE i \in DOMAIN destructors'
  <2>1. CASE i = 1
    BY <2>1, <1>4
  <2>2. CASE i # 1
    <3>1. i - 1 \in 1..Len(destructors) /\ (i - 1) + 1 = i
      BY <2>2, <1>3, <1>4, <1>5, <1>6
    <3> QED BY <3>1, <1>2, <1>4
  <2> QED BY <2>1, <2>2
<1>10. r.slot = s /\ r.object = shared[s]
  BY DEF r
<1>11. \A t : Resetting(t)' <=> t = s \/ Resetting(t)
  BY <1>2, <1>4, <1>5, <1>7, <1>8, <1>9, <1>10 DEF Resetting
<1>12. \A o : Running(o)' <=> o = shared[s] \/ Running(o)
  BY <1>2, <1>4, <1>5, <1>7, <1>8, <1>9, <1>10 DEF Running
<1> QED BY <1>3, <1>4, <1>5, <1>6, <1>11, <1>12 DEF r

LEMMA ExpireHolder ==
  ASSUME SharedInv, NEW s \in SharedSlot, NEW from \in SharedSlot \union {NoSlot},
         Expire(s, from)
  PROVE  Holders(shared[s]) = {s}
<1>1. Cardinality(Holders(shared[s])) = 1
  BY DEF Expire, SharedInv, StrongIsExact
<1>2. \E t : Holders(shared[s]) = {t}
  BY <1>1, HoldersFinite, FS_Singleton
<1> QED BY <1>2 DEF Holders

LEMMA ExpireKeepsInv ==
  ASSUME SharedInv, NEW s \in SharedSlot, NEW from \in SharedSlot \union {NoSlot},
         Expire(s, from)
  PROVE  SharedInv'
<1> DEFINE o == shared[s]
<1>1. /\ bExpired' = bExpired \union {o}
      /\ UNCHANGED <<shared, StrongRefCount, weak, WeakRefCount, allocated, freed>>
      /\ o \in Object \ bExpired /\ StrongRefCount[o] = 1
  BY DEF Expire
<1>2. o \in allocated
  BY <1>1, NullAssumption DEF SharedInv, PointsRight
<1>3. TypeOK'
  <2>1. destructors' \in Seq(Frame)
    BY ExpireFrames
  <2>2. bExpired' \subseteq allocated' /\ freed' \subseteq bExpired'
    BY <1>1, <1>2, Types
  <2> QED BY <1>1, <2>1, <2>2 DEF SharedInv, TypeOK, Frame
<1>4. PointsRight' /\ AliveIsCounted' /\ ExpiredIsOne' /\ WeakPointsRight'
  BY <1>1 DEF SharedInv, PointsRight, AliveIsCounted, ExpiredIsOne, WeakPointsRight
<1>5. StrongIsExact' /\ WeakIsExact'
  BY <1>1 DEF SharedInv, StrongIsExact, WeakIsExact, Holders, Observers
<1>6. ExpiredIsReset'
  <2>1. \A t \in SharedSlot : shared[t] = o => t = s
    BY ExpireHolder DEF Holders
  <2> QED BY <1>1, <2>1, ExpireFrames DEF SharedInv, ExpiredIsReset
<1>7. FrameInv(destructors[1])'
  <2>1. /\ destructors'[1].object = o /\ destructors'[1].slot = s
        /\ destructors'[1].from = from
    <3>1. destructors'[1] = [object |-> o, slot |-> s, from |-> from]
      BY ExpireFrames
    <3> QED BY <3>1
  <2> QED BY <1>1, <2>1, Types DEF FrameInv, Expire
<1>10. Len(destructors) \in 0..1 /\ Len(destructors') = Len(destructors) + 1
       /\ Len(destructors') \in 1..2
       /\ \A i \in 1..Len(destructors') : i = 1 \/ i - 1 \in 1..Len(destructors)
  <2>1. Len(destructors) \in 0..1 /\ Len(destructors') = Len(destructors) + 1
    BY ExpireFrames
  <2>2. \A i \in 1..Len(destructors') : i = 1 \/ i - 1 \in 1..Len(destructors)
    BY ExpireFrames
  <2>3. Len(destructors') \in 1..2
    <3> DEFINE n == Len(destructors)
               m == Len(destructors')
    <3>1. n \in 0..1 /\ m = n + 1
      BY <2>1
    <3> HIDE DEF n, m
    <3>2. m \in 1..2
      BY <3>1
    <3> QED BY <3>2 DEF m
  <2> QED BY <2>1, <2>2, <2>3
<1>8. ASSUME NEW i \in 1..Len(destructors') PROVE FrameInv(destructors[i])'
  <2>1. CASE i = 1
    BY <1>7, <2>1
  <2>2. CASE i # 1
    <3>1. i - 1 \in 1..Len(destructors) /\ (i - 1) + 1 = i
      BY <2>2, <1>10
    <3>2. destructors'[i] = destructors[i - 1] /\ FrameInv(destructors[i - 1])
      BY <3>1, ExpireFrames, Frames
    <3> QED BY <1>1, <3>2 DEF FrameInv
  <2> QED BY <2>1, <2>2
<1>9. Len(destructors') = 2 =>
        /\ Owner[destructors'[1].slot] = destructors'[2].object
        /\ destructors'[1].from = NoSlot
  <2> SUFFICES ASSUME Len(destructors') = 2
               PROVE  /\ Owner[destructors'[1].slot] = destructors'[2].object
                      /\ destructors'[1].from = NoSlot
    OBVIOUS
  <2>1. Len(destructors) = 1
    BY ExpireFrames
  <2>2. destructors'[2] = destructors[1]
    <3>1. 1 \in 1..Len(destructors) /\ 1 + 1 = 2
      BY <2>1
    <3> QED BY <3>1, ExpireFrames
  <2>3. Owner[s] = destructors[1].object /\ from = NoSlot
    BY <2>1, IdleFacts DEF Expire
  <2> QED BY <2>2, <2>3, ExpireFrames
<1>11. StackInv'
  BY <1>8, <1>9, <1>10 DEF StackInv
<1> QED BY <1>3, <1>4, <1>5, <1>6, <1>11 DEF SharedInv

\* Two shared pointers change places, when no destructor runs.
LEMMA SwapSharedKeepsInv ==
  ASSUME SharedInv, NEW s \in SharedSlot, NEW t \in SharedSlot, SwapShared(s, t)
  PROVE  SharedInv'
<1>1. /\ Idle /\ Targets[s] = Targets[t]
      /\ shared' = [shared EXCEPT ![s] = shared[t], ![t] = shared[s]]
      /\ UNCHANGED <<weak, StrongRefCount, WeakRefCount, bExpired, allocated, freed,
                     destructors>>
  BY DEF SwapShared
<1>2. \A x \in SharedSlot :
        shared'[x] = (IF x = t THEN shared[s] ELSE IF x = s THEN shared[t] ELSE shared[x])
  BY <1>1, Types
<1>3. TypeOK'
  <2>1. shared' \in [SharedSlot -> Object \union {NoObject}]
    BY <1>1, Types
  <2> QED BY <1>1, <2>1 DEF SharedInv, TypeOK
<1>4. PointsRight'
  BY <1>1, <1>2 DEF SharedInv, PointsRight
<1>5. StrongIsExact'
  <2> SUFFICES ASSUME NEW o \in Object \ bExpired
               PROVE  StrongRefCount[o] = Cardinality(Holders(o)')
    BY <1>1 DEF StrongIsExact
  <2>1. Holders(o)' = At(SharedSlot, Swapped(shared, s, t), o)
    BY <1>1 DEF Holders, At, Swapped
  <2>2. Cardinality(Holders(o)') = Cardinality(At(SharedSlot, shared, o))
    <3>1. DOMAIN shared = SharedSlot
      BY Types
    <3> QED BY ONLY s \in SharedSlot, t \in SharedSlot, <2>1, <3>1, CountSwap, SlotsFinite
  <2> QED BY <2>2, HoldersFinite DEF SharedInv, StrongIsExact
<1>6. ExpiredIsReset'
  BY <1>1, <1>2, IdleFacts DEF ExpiredIsReset
<1>7. StackInv'
  BY <1>1, IdleFacts DEF StackInv
<1>8. AliveIsCounted' /\ ExpiredIsOne' /\ WeakIsExact' /\ WeakPointsRight'
  BY <1>1 DEF SharedInv, AliveIsCounted, ExpiredIsOne, WeakIsExact, WeakPointsRight, Observers
<1> QED BY <1>3, <1>4, <1>5, <1>6, <1>7, <1>8 DEF SharedInv

\* A step that changes weak pointers only.
LEMMA WeakOnly ==
  ASSUME SharedInv,
         UNCHANGED <<shared, StrongRefCount, bExpired, allocated, freed, destructors>>
  PROVE  PointsRight' /\ StrongIsExact' /\ AliveIsCounted' /\ ExpiredIsOne'
         /\ ExpiredIsReset' /\ StackInv'
BY DEF SharedInv, PointsRight, StrongIsExact, AliveIsCounted, ExpiredIsOne, ExpiredIsReset,
       StackInv, FrameInv, Holders, Resetting

LEMMA SetWeakKeepsInv ==
  ASSUME SharedInv, NEW w \in WeakSlot, NEW p \in Object \union {NoObject}, SetWeak(w, p)
  PROVE  SharedInv'
<1>1. /\ UNCHANGED <<shared, StrongRefCount, bExpired, allocated, freed, destructors>>
      /\ p # NoObject => p \in allocated \ freed
      /\ weak' = [weak EXCEPT ![w] = p]
      /\ WeakRefCount' = [o \in Object |-> WeakRefCount[o] - One(weak[w], o) + One(p, o)]
  BY DEF SetWeak
<1>2. weak' \in [WeakSlot -> Object \union {NoObject}] /\ weak'[w] = p
      /\ SameBut(WeakSlot, weak, weak', w)
  BY <1>1, Types DEF SameBut
<1>3. ASSUME NEW o \in Object PROVE WeakRefCount'[o] = Cardinality(Observers(o)')
  <2>1. Cardinality(At(WeakSlot, weak', o)) =
          Cardinality(At(WeakSlot, weak, o)) - One(weak[w], o) + One(weak'[w], o)
    BY ONLY w \in WeakSlot, <1>2, CountUpdate, SlotsFinite
  <2>2. Observers(o)' = At(WeakSlot, weak', o) /\ Observers(o) = At(WeakSlot, weak, o)
    BY DEF Observers, At
  <2>3. WeakRefCount[o] = Cardinality(At(WeakSlot, weak, o))
    BY <2>2 DEF SharedInv, WeakIsExact
  <2> QED BY <1>1, <1>2, <2>1, <2>2, <2>3
<1>4. WeakRefCount' \in [Object -> Nat]
  <2>1. \A o \in Object : Cardinality(Observers(o)') \in Nat
    BY SlotsFinite, FS_Subset, FS_CardinalityType DEF Observers
  <2>2. WeakRefCount' = [o \in Object |-> WeakRefCount'[o]]
    BY <1>1
  <2> QED BY <1>3, <2>1, <2>2
<1>5. TypeOK'
  BY <1>1, <1>2, <1>4 DEF SharedInv, TypeOK
<1>6. WeakIsExact'
  BY <1>3 DEF WeakIsExact
<1>7. WeakPointsRight'
  BY <1>1, <1>2 DEF SharedInv, WeakPointsRight, SameBut
<1> QED BY <1>1, <1>5, <1>6, <1>7, WeakOnly DEF SharedInv

LEMMA SwapWeakKeepsInv ==
  ASSUME SharedInv, NEW w \in WeakSlot, NEW v \in WeakSlot, SwapWeak(w, v)
  PROVE  SharedInv'
<1>1. /\ weak' = [weak EXCEPT ![w] = weak[v], ![v] = weak[w]]
      /\ UNCHANGED <<shared, StrongRefCount, WeakRefCount, bExpired, allocated, freed,
                     destructors>>
  BY DEF SwapWeak
<1>2. \A x \in WeakSlot :
        weak'[x] = (IF x = v THEN weak[w] ELSE IF x = w THEN weak[v] ELSE weak[x])
  BY <1>1, Types
<1>3. TypeOK'
  <2>1. weak' \in [WeakSlot -> Object \union {NoObject}]
    BY <1>1, Types
  <2> QED BY <1>1, <2>1 DEF SharedInv, TypeOK
<1>4. WeakPointsRight'
  BY <1>1, <1>2 DEF SharedInv, WeakPointsRight
<1>5. WeakIsExact'
  <2> SUFFICES ASSUME NEW o \in Object PROVE WeakRefCount[o] = Cardinality(Observers(o)')
    BY <1>1 DEF WeakIsExact
  <2>1. Observers(o)' = At(WeakSlot, Swapped(weak, w, v), o)
    BY <1>1 DEF Observers, At, Swapped
  <2>2. Cardinality(Observers(o)') = Cardinality(At(WeakSlot, weak, o))
    <3>1. DOMAIN weak = WeakSlot
      BY Types
    <3> QED BY ONLY w \in WeakSlot, v \in WeakSlot, <2>1, <3>1, CountSwap, SlotsFinite
  <2> QED BY <2>2, HoldersFinite DEF SharedInv, WeakIsExact
<1> QED BY <1>1, <1>3, <1>4, <1>5, WeakOnly DEF SharedInv

\* What the slot is assigned when its destructor is done.
Assigned ==
  IF Dying.from \in {NoSlot, Dying.slot} THEN NoObject ELSE shared[Dying.from]

\* The destructor around the one that ends belongs to another object and another pointer.
LEMMA OuterFacts ==
  ASSUME SharedInv, ~Idle, Len(destructors) = 2
  PROVE  /\ destructors[2].object # Dying.object /\ destructors[2].slot # Dying.slot
         /\ destructors[2].from # Dying.slot /\ Dying.from = NoSlot
<1>1. /\ Dying = destructors[1] /\ 1 \in DOMAIN destructors /\ 2 \in DOMAIN destructors
      /\ FrameInv(destructors[1]) /\ FrameInv(destructors[2])
      /\ destructors[1].object \in Object /\ destructors[1].slot \in SharedSlot
      /\ destructors[2].object \in Object
  BY BusyFacts, Frames
<1>2. Owner[Dying.slot] = destructors[2].object /\ Dying.from = NoSlot
  BY <1>1 DEF SharedInv, StackInv
<1>3. shared[Dying.slot] = Dying.object /\ Dying.object \in Targets[Dying.slot]
  BY <1>1, NullAssumption DEF FrameInv, SharedInv, PointsRight
<1>4. destructors[2].object # Dying.object
  BY <1>1, <1>2, <1>3, OwnershipAssumption, NullAssumption
<1>5. destructors[2].slot # Dying.slot
  BY <1>1, <1>3, <1>4 DEF FrameInv
<1>6. destructors[2].from # Dying.slot
  <2>1. Owner[Dying.slot] # NoObject
    BY <1>1, <1>2, NullAssumption
  <2>2. Dying.slot # NoSlot
    BY <1>1, NullAssumption DEF Slot
  <2> QED BY <1>1, <2>1, <2>2 DEF FrameInv
<1> QED BY <1>2, <1>4, <1>5, <1>6

LEMMA Popped ==
  ASSUME NEW S, NEW q \in Seq(S), q # <<>>
  PROVE  /\ Tail(q) \in Seq(S) /\ Len(Tail(q)) = Len(q) - 1
         /\ \A i \in 1..(Len(q) - 1) : Tail(q)[i] = q[i + 1]
OBVIOUS

LEMMA FinishFrames ==
  ASSUME SharedInv, FinishReset
  PROVE  /\ destructors' \in Seq(Frame) /\ Len(destructors) \in 1..2
         /\ Len(destructors') = Len(destructors) - 1
         /\ \A i \in 1..Len(destructors') :
              i = 1 /\ Len(destructors) = 2 /\ destructors'[i] = destructors[2]
         /\ \A t : Resetting(t)' <=> t # Dying.slot /\ Resetting(t)
         /\ \A o : Running(o)' <=> o # Dying.object /\ Running(o)
<1>1. /\ destructors \in Seq(Frame) /\ Len(destructors) \in 1..2 /\ destructors # <<>>
      /\ DOMAIN destructors = 1..Len(destructors) /\ Dying = destructors[1]
  BY Frames, BusyFacts DEF FinishReset, Idle
<1>2. /\ destructors' \in Seq(Frame) /\ Len(destructors') = Len(destructors) - 1
      /\ \A i \in 1..(Len(destructors) - 1) : destructors'[i] = destructors[i + 1]
  BY <1>1, Popped DEF FinishReset
<1>3. DOMAIN destructors' = 1..Len(destructors')
  BY <1>2
<1>4. CASE Len(destructors) = 1
  <2>1. Len(destructors') = 0 /\ DOMAIN destructors' = {} /\ DOMAIN destructors = {1}
    BY <1>1, <1>2, <1>3, <1>4
  <2>2. \A i \in 1..Len(destructors') :
          i = 1 /\ Len(destructors) = 2 /\ destructors'[i] = destructors[2]
    BY <2>1
  <2>3. \A t : Resetting(t)' <=> t # Dying.slot /\ Resetting(t)
    BY <1>1, <2>1 DEF Resetting
  <2>4. \A o : Running(o)' <=> o # Dying.object /\ Running(o)
    BY <1>1, <2>1 DEF Running
  <2> QED BY <1>1, <1>2, <2>2, <2>3, <2>4
<1>5. CASE Len(destructors) = 2
  <2>1. Len(destructors') = 1 /\ DOMAIN destructors' = {1} /\ DOMAIN destructors = {1, 2}
    BY <1>1, <1>2, <1>3, <1>5
  <2>2. destructors'[1] = destructors[2]
    <3>1. 1 \in 1..(Len(destructors) - 1) /\ 1 + 1 = 2
      BY <1>5
    <3> QED BY <1>2, <3>1
  <2>3. destructors[2].object # Dying.object /\ destructors[2].slot # Dying.slot
    BY <1>5, OuterFacts DEF FinishReset
  <2>4. \A i \in 1..Len(destructors') : i = 1
    BY <2>1
  <2>5. \A t : Resetting(t)' <=> t # Dying.slot /\ Resetting(t)
    BY <1>1, <2>1, <2>2, <2>3 DEF Resetting
  <2>6. \A o : Running(o)' <=> o # Dying.object /\ Running(o)
    BY <1>1, <2>1, <2>2, <2>3 DEF Running
  <2> QED BY <1>1, <1>2, <1>5, <2>2, <2>4, <2>5, <2>6
<1>6. Len(destructors) = 1 \/ Len(destructors) = 2
  BY <1>1
<1> QED BY <1>4, <1>5, <1>6

LEMMA FinishFacts ==
  ASSUME SharedInv, FinishReset
  PROVE  /\ Dying.object \in bExpired \ freed /\ shared[Dying.slot] = Dying.object
         /\ Dying.slot \in SharedSlot /\ Assigned \in Object \union {NoObject}
         /\ Assigned # NoObject =>
              /\ Assigned \in (Targets[Dying.slot] \intersect allocated) \ bExpired
              /\ Dying.from \in SharedSlot /\ shared[Dying.from] = Assigned
         /\ shared' = [shared EXCEPT ![Dying.slot] = Assigned]
         /\ StrongRefCount' = [o \in Object |-> StrongRefCount[o] + One(Assigned, o)]
         /\ freed' = freed \union {o \in {Dying.object} : WeakRefCount[o] = 0}
         /\ UNCHANGED <<weak, WeakRefCount, bExpired, allocated>>
<1>1. /\ Dying.object \in bExpired \ freed /\ shared[Dying.slot] = Dying.object
      /\ Dying.slot \in SharedSlot /\ Dying.from \in SharedSlot \union {NoSlot}
      /\ Dying.from # NoSlot => shared[Dying.from] \in Targets[Dying.slot]
      /\ DOMAIN destructors = 1..Len(destructors) /\ Len(destructors) \in 1..2
      /\ Dying = destructors[1]
  BY BusyFacts DEF FinishReset, FrameInv
<1>2. Assigned \in Object \union {NoObject}
  BY <1>1, Types DEF Assigned
<1>3. ASSUME Assigned # NoObject
      PROVE  /\ Assigned \in (Targets[Dying.slot] \intersect allocated) \ bExpired
             /\ Dying.from \in SharedSlot /\ shared[Dying.from] = Assigned
  <2>1. /\ Dying.from \in SharedSlot /\ shared[Dying.from] = Assigned
        /\ Dying.from # NoSlot /\ Dying.from # Dying.slot
    BY <1>1, <1>3 DEF Assigned
  <2>2. ~Resetting(Dying.from)
    <3>1. Len(destructors) # 2
      BY <2>1, OuterFacts DEF FinishReset
    <3>2. Len(destructors) = 1
      BY <3>1, <1>1
    <3> QED BY <3>2, <2>1, <1>1 DEF Resetting
  <2>3. Assigned \notin bExpired
    BY <2>1, <2>2, ResettingIsExpired
  <2>4. Assigned \in allocated
    BY <2>1, <1>3 DEF SharedInv, PointsRight
  <2> QED BY <2>1, <2>3, <2>4, <1>1
<1> DEFINE old == [shared EXCEPT ![Dying.slot] = NoObject]
           new == IF Dying.from = NoSlot THEN NoObject ELSE old[Dying.from]
<1>4. new = Assigned
  BY <1>1, Types DEF Assigned
<1>5. /\ shared' = [[shared EXCEPT ![Dying.slot] = NoObject] EXCEPT ![Dying.slot] = Assigned]
      /\ StrongRefCount' = IF Assigned = NoObject THEN StrongRefCount
                           ELSE [StrongRefCount EXCEPT ![Assigned] = @ + 1]
  <2>1. /\ shared' = [old EXCEPT ![Dying.slot] = new]
        /\ StrongRefCount' = IF new = NoObject THEN StrongRefCount
                             ELSE [StrongRefCount EXCEPT ![new] = @ + 1]
    BY DEF FinishReset, Copied
  <2> HIDE DEF old, new
  <2>2. /\ shared' = [old EXCEPT ![Dying.slot] = Assigned]
        /\ StrongRefCount' = IF Assigned = NoObject THEN StrongRefCount
                             ELSE [StrongRefCount EXCEPT ![Assigned] = @ + 1]
    BY <1>4, <2>1
  <2> QED BY <2>2 DEF old
<1>6. shared' = [shared EXCEPT ![Dying.slot] = Assigned]
  BY <1>5, Types
<1>7. StrongRefCount' = [o \in Object |-> StrongRefCount[o] + One(Assigned, o)]
  <2>1. CASE Assigned = NoObject
    <3>1. \A o \in Object : StrongRefCount[o] + One(Assigned, o) = StrongRefCount[o]
      BY <2>1, NoCount, Types
    <3>2. StrongRefCount = [o \in Object |-> StrongRefCount[o]]
      BY Types
    <3> QED BY <1>5, <2>1, <3>1, <3>2
  <2>2. CASE Assigned # NoObject
    BY <2>2, <1>2, <1>5, CountUp, Types
  <2> QED BY <2>1, <2>2
<1> QED BY <1>1, <1>2, <1>3, <1>6, <1>7 DEF FinishReset

LEMMA FinishKeepsInv ==
  ASSUME SharedInv, FinishReset
  PROVE  SharedInv'
<1> DEFINE d == Dying
           p == Assigned
<1>1. /\ d.object \in bExpired \ freed /\ shared[d.slot] = d.object /\ d.slot \in SharedSlot
      /\ p \in Object \union {NoObject} /\ p \notin bExpired
      /\ p # NoObject => p \in Targets[d.slot] \intersect allocated
      /\ shared' = [shared EXCEPT ![d.slot] = p]
      /\ UNCHANGED <<weak, WeakRefCount, bExpired, allocated>>
  BY FinishFacts, Types, NullAssumption
<1>2. /\ shared' \in [SharedSlot -> Object \union {NoObject}] /\ shared'[d.slot] = p
      /\ \A t \in SharedSlot : t # d.slot => shared'[t] = shared[t]
  BY <1>1, Types
<1>3. freed' \subseteq bExpired /\ freed' \subseteq freed \union {d.object}
      /\ (d.object \in freed' => WeakRefCount[d.object] = 0)
  BY <1>1, FinishFacts, Types
<1>4. \A o \in Object : StrongRefCount'[o] = StrongRefCount[o] + One(p, o)
                        /\ StrongRefCount[o] \in Nat
  BY FinishFacts, Types
<1>5. StrongRefCount' \in [Object -> Nat]
  <2>1. \A o \in Object : StrongRefCount'[o] \in Nat
    BY <1>4 DEF One
  <2>2. StrongRefCount' = [o \in Object |-> StrongRefCount'[o]]
    BY FinishFacts
  <2> QED BY <2>1, <2>2
<1>6. TypeOK'
  <2>1. destructors' \in Seq(Frame)
    BY FinishFrames
  <2> QED BY <1>1, <1>2, <1>3, <1>5, <2>1 DEF SharedInv, TypeOK, Frame
<1>7. PointsRight'
  BY <1>1, <1>2 DEF SharedInv, PointsRight
<1>8. StrongIsExact'
  <2> SUFFICES ASSUME NEW o \in Object \ bExpired
               PROVE  StrongRefCount'[o] = Cardinality(Holders(o)')
    BY <1>1 DEF StrongIsExact
  <2>1. Cardinality(Holders(o)') = StrongRefCount[o] - One(shared[d.slot], o) + One(p, o)
    BY <1>1, SetSharedCounts
  <2>2. One(shared[d.slot], o) = 0
    BY <1>1 DEF One
  <2> QED BY <1>4, <2>1, <2>2
<1>9. AliveIsCounted' /\ ExpiredIsOne'
  <2>1. \A o \in allocated \ bExpired : StrongRefCount'[o] >= 1
    <3> SUFFICES ASSUME NEW o \in allocated \ bExpired PROVE StrongRefCount'[o] >= 1
      OBVIOUS
    <3>1. o \in Object /\ StrongRefCount[o] >= 1
      BY Types DEF SharedInv, AliveIsCounted
    <3> QED BY <1>4, <3>1 DEF One
  <2>2. \A o \in bExpired : StrongRefCount'[o] = 1
    <3> SUFFICES ASSUME NEW o \in bExpired PROVE StrongRefCount'[o] = 1
      OBVIOUS
    <3>1. o \in Object /\ StrongRefCount[o] = 1 /\ One(p, o) = 0
      BY <1>1, Types DEF SharedInv, ExpiredIsOne, One
    <3> QED BY <1>4, <3>1
  <2> QED BY <1>1, <2>1, <2>2 DEF AliveIsCounted, ExpiredIsOne
<1>10. ExpiredIsReset'
  <2> SUFFICES ASSUME NEW t \in SharedSlot, shared'[t] \in bExpired PROVE Resetting(t)'
    BY <1>1 DEF ExpiredIsReset
  <2>1. t # d.slot /\ shared[t] \in bExpired
    BY <1>1, <1>2
  <2> QED BY <2>1, FinishFrames DEF SharedInv, ExpiredIsReset
<1>11. StackInv'
  <2>1. ASSUME NEW i \in 1..Len(destructors') PROVE FrameInv(destructors[i])'
    <3>1. i = 1 /\ Len(destructors) = 2 /\ destructors'[i] = destructors[2]
      BY FinishFrames
    <3>2. /\ destructors[2].object # d.object /\ destructors[2].slot # d.slot
          /\ destructors[2].from # d.slot
      BY <3>1, OuterFacts DEF FinishReset
    <3>3. /\ FrameInv(destructors[2]) /\ destructors[2].slot \in SharedSlot
          /\ destructors[2].from \in SharedSlot \union {NoSlot}
      BY <3>1, Frames
    <3> QED BY <1>1, <1>2, <1>3, <3>1, <3>2, <3>3 DEF FrameInv
  <2>2. Len(destructors') <= 2 /\ Len(destructors') # 2
    <3>1. Len(destructors) \in 1..2 /\ Len(destructors') = Len(destructors) - 1
      BY FinishFrames
    <3> QED BY <3>1
  <2> QED BY <2>1, <2>2 DEF StackInv
<1>12. WeakIsExact'
  BY <1>1 DEF SharedInv, WeakIsExact, Observers
<1>13. WeakPointsRight'
  <2> SUFFICES ASSUME NEW w \in WeakSlot, weak[w] # NoObject PROVE weak[w] \notin freed'
    BY <1>1 DEF SharedInv, WeakPointsRight
  <2>1. CASE weak[w] = d.object
    <3>1. d.object \in Object /\ w \in Observers(d.object)
      BY <1>1, <2>1, Types DEF Observers
    <3>2. Cardinality(Observers(d.object)) # 0
      BY <3>1, HoldersFinite, FS_EmptySet
    <3>3. WeakRefCount[d.object] # 0
      BY <3>1, <3>2 DEF SharedInv, WeakIsExact
    <3> QED BY <1>3, <2>1, <3>3
  <2>2. CASE weak[w] # d.object
    BY <1>3, <2>2 DEF SharedInv, WeakPointsRight
  <2> QED BY <2>1, <2>2
<1> QED BY <1>6, <1>7, <1>8, <1>9, <1>10, <1>11, <1>12, <1>13 DEF SharedInv

-----------------------------------------------------------------------------
(***************************************************************************)
(* The theorems                                                             *)
(***************************************************************************)
LEMMA SharedInvInit == Init => SharedInv
<1> SUFFICES ASSUME Init PROVE SharedInv
  OBVIOUS
<1>1. destructors = <<>> /\ Len(destructors) = 0 /\ bExpired = {} /\ allocated = {}
  BY DEF Init
<1>2. TypeOK
  BY <1>1 DEF Init, TypeOK
<1>3. \A o \in Object : Holders(o) = {} /\ Observers(o) = {}
  BY NullAssumption DEF Init, Holders, Observers
<1>4. StrongIsExact /\ WeakIsExact
  BY <1>3, FS_EmptySet DEF Init, StrongIsExact, WeakIsExact
<1>5. PointsRight /\ WeakPointsRight
  BY DEF Init, PointsRight, WeakPointsRight
<1>6. AliveIsCounted /\ ExpiredIsOne /\ ExpiredIsReset
  BY <1>1 DEF AliveIsCounted, ExpiredIsOne, ExpiredIsReset
<1>7. StackInv
  BY <1>1 DEF StackInv
<1> QED BY <1>2, <1>4, <1>5, <1>6, <1>7 DEF SharedInv

LEMMA SharedInvStep == SharedInv /\ [Next]_vars => SharedInv'
<1> SUFFICES ASSUME SharedInv, [Next]_vars PROVE SharedInv'
  OBVIOUS
<1>1. CASE UNCHANGED vars
  BY <1>1 DEF vars, SharedInv, TypeOK, PointsRight, StrongIsExact, AliveIsCounted,
     ExpiredIsOne, ExpiredIsReset, StackInv, FrameInv, WeakIsExact, WeakPointsRight,
     Holders, Observers, Resetting
<1> QED
  BY <1>1, EveryStep, GainKeepsInv, ExpireKeepsInv, SwapSharedKeepsInv, SetWeakKeepsInv,
     SwapWeakKeepsInv, FinishKeepsInv DEF Kinds

LEMMA SharedInvHolds == Spec => []SharedInv
<1> QED BY SharedInvInit, SharedInvStep, PTL DEF Spec

\* SharedPtr.hpp: the fields of a control block and the pointers always have the values
\* of their types; a control block is allocated, then expired, then deleted.
THEOREM SharedTypeCorrect == Spec => []TypeOK
<1>1. SharedInv => TypeOK
  BY DEF SharedInv
<1> QED BY <1>1, SharedInvHolds, PTL

\* SharedPtr.hpp, WeakPtr.hpp: the counts are exact, also while destructors run inside
\* each other: strong until the object expires, weak as long as the control block exists.
THEOREM CountsExactHolds == Spec => []CountsExact
<1>1. SharedInv => CountsExact
  BY DEF SharedInv, CountsExact, StrongIsExact, WeakIsExact
<1> QED BY <1>1, SharedInvHolds, PTL

\* Nobody reaches a destroyed object through a SharedPtr, or a deleted control block
\* through a pointer, and an object that is not expired has an owner.
THEOREM NoDanglingHolds == Spec => []NoDangling
<1>1. ASSUME SharedInv PROVE NoDangling
  <2>1. \A s \in SharedSlot : shared[s] # NoObject /\ ~Resetting(s) =>
          shared[s] \in allocated \ bExpired
    BY <1>1, ResettingIsExpired DEF SharedInv, PointsRight
  <2>2. \A i \in DOMAIN destructors : destructors[i].object \notin freed
    BY <1>1, Frames DEF FrameInv
  <2>3. \A w \in WeakSlot : weak[w] # NoObject => weak[w] \in allocated \ freed
    BY <1>1 DEF SharedInv, WeakPointsRight
  <2>4. \A o \in allocated \ bExpired : Holders(o) # {}
    BY <1>1, AliveIsHeld
  <2> QED BY <2>1, <2>2, <2>3, <2>4 DEF NoDangling
<1> QED BY <1>1, SharedInvHolds, PTL

-----------------------------------------------------------------------------
(***************************************************************************)
(* The counts implement lifetimes: every kind of step is one of             *)
(* ObjectLifetime                                                           *)
(***************************************************************************)
LifeOf(o) ==
  IF o \notin allocated THEN "unborn"
  ELSE IF o \in freed THEN "freed"
  ELSE IF o \notin bExpired THEN "alive"
  ELSE IF Running(o) THEN "dying" ELSE "dead"

HeldBy(s) == IF shared[s] \in bExpired THEN NoObject ELSE shared[s]

Mapping ==
  /\ life = [o \in Object |-> LifeOf(o)]
  /\ holds = [s \in SharedSlot |-> HeldBy(s)]
  /\ \A o \in Object :
       /\ Lifetime!Held(o) <=> o \notin bExpired /\ Holders(o) # {}
       /\ Lifetime!Referred(o) <=> WeakRefCount[o] # 0
       /\ o \in allocated \ bExpired => Holders(o) # {}

LEMMA MappingIs == SharedInv => Mapping
<1> SUFFICES ASSUME SharedInv PROVE Mapping
  OBVIOUS
<1>1. life = [o \in Object |-> LifeOf(o)]
  <2>1. ASSUME NEW o \in Object
        PROVE  (CASE o \notin allocated -> "unborn"
                  [] o \in freed -> "freed"
                  [] o \in allocated \ bExpired -> "alive"
                  [] o \in bExpired \ freed
                     /\ (\E i \in DOMAIN destructors : destructors[i].object = o) -> "dying"
                  [] OTHER -> "dead") = LifeOf(o)
    BY Types DEF LifeOf, Running
  <2> QED BY <2>1 DEF life
<1>2. holds = [s \in SharedSlot |-> HeldBy(s)]
  <2>1. ASSUME NEW s \in SharedSlot
        PROVE  (IF Resetting(s) THEN NoObject ELSE shared[s]) = HeldBy(s)
    BY ResettingIsExpired DEF HeldBy
  <2> QED BY <2>1 DEF holds
<1>3. ASSUME NEW o \in Object
      PROVE  Lifetime!Held(o) <=> o \notin bExpired /\ Holders(o) # {}
  BY <1>2, NullAssumption DEF Lifetime!Held, HeldBy, Holders
<1>4. ASSUME NEW o \in Object
      PROVE  Lifetime!Referred(o) <=> WeakRefCount[o] # 0
  <2>1. Lifetime!Referred(o) <=> Observers(o) # {}
    BY DEF Lifetime!Referred, Observers
  <2> QED BY <2>1, HoldersFinite, FS_EmptySet DEF SharedInv, WeakIsExact
<1>5. \A o \in allocated \ bExpired : Holders(o) # {}
  BY AliveIsHeld
<1> QED BY <1>1, <1>2, <1>3, <1>4, <1>5 DEF Mapping

LEMMA GainNewMaps ==
  ASSUME SharedInv, Mapping, Mapping',
         NEW s \in SharedSlot, NEW p \in Object \union {NoObject}, GainNew(s, p)
  PROVE  p \in Object /\ Lifetime!Create(s, p)
<1>1. /\ p \in Object \ allocated /\ shared[s] = NoObject /\ p \notin bExpired /\ p \notin freed
      /\ shared' = [shared EXCEPT ![s] = p] /\ allocated' = allocated \union {p}
      /\ UNCHANGED <<weak, bExpired, freed, destructors>>
  BY Types DEF GainNew, SetShared
<1>2. ASSUME NEW o \in Object
      PROVE  LifeOf(o)' = IF o = p THEN "alive" ELSE LifeOf(o)
  BY <1>1 DEF LifeOf, Running
<1>3. ASSUME NEW t \in SharedSlot
      PROVE  HeldBy(t)' = IF t = s THEN p ELSE HeldBy(t)
  BY <1>1, Types DEF HeldBy
<1>4. LifeOf(p) = "unborn" /\ HeldBy(s) = NoObject
  BY <1>1 DEF LifeOf, HeldBy
<1>5. life[p] = "unborn" /\ holds[s] = NoObject
  BY <1>1, <1>4 DEF Mapping
<1>6. life' = [life EXCEPT ![p] = "alive"]
  BY <1>2 DEF Mapping
<1>7. holds' = [holds EXCEPT ![s] = p]
  BY <1>3 DEF Mapping
<1> QED BY <1>1, <1>5, <1>6, <1>7 DEF Lifetime!Create

LEMMA GainOldMaps ==
  ASSUME SharedInv, Mapping, Mapping',
         NEW s \in SharedSlot, NEW p \in Object \union {NoObject}, GainOld(s, p)
  PROVE  Lifetime!SetShared(s, p)
<1>1. /\ p # NoObject => p \in (Object \intersect allocated) \ bExpired
      /\ p # NoObject => p \notin freed
      /\ shared[s] \notin bExpired
      /\ shared' = [shared EXCEPT ![s] = p]
      /\ UNCHANGED <<weak, allocated, bExpired, freed, destructors>>
  BY Types DEF GainOld, SetShared
<1>2. ASSUME NEW o \in Object
      PROVE  LifeOf(o)' = LifeOf(o)
  BY <1>1 DEF LifeOf, Running
<1>3. ASSUME NEW t \in SharedSlot
      PROVE  HeldBy(t)' = IF t = s THEN p ELSE HeldBy(t)
  BY <1>1, Types, NullAssumption DEF HeldBy
<1>4. p # NoObject => life[p] = "alive"
  BY <1>1 DEF Mapping, LifeOf
<1>5. holds' = [holds EXCEPT ![s] = p]
  BY <1>3 DEF Mapping
<1>6. ASSUME NEW o \in Object, o = holds[s]
      PROVE  Lifetime!Held(o)'
  <2>1. o = shared[s] /\ o \in allocated \ bExpired
    BY <1>1, <1>6, NullAssumption DEF Mapping, HeldBy, SharedInv, PointsRight
  <2> QED BY <1>1, <2>1 DEF Mapping
<1>7. life' = [o \in Object |->
                 IF o = holds[s] /\ ~Lifetime!Held(o)' THEN "dying" ELSE life[o]]
  BY <1>2, <1>6 DEF Mapping
<1> QED BY <1>1, <1>4, <1>5, <1>7 DEF Lifetime!SetShared

LEMMA ExpireMaps ==
  ASSUME SharedInv, Mapping, Mapping',
         NEW s \in SharedSlot, NEW from \in SharedSlot \union {NoSlot}, Expire(s, from)
  PROVE  Lifetime!SetShared(s, NoObject)
<1> DEFINE x == shared[s]
<1>1. /\ x \in Object \ bExpired /\ bExpired' = bExpired \union {x}
      /\ UNCHANGED <<shared, weak, allocated, freed>>
  BY DEF Expire
<1>2. x \in allocated /\ x \notin freed
  BY <1>1, Types, NullAssumption DEF SharedInv, PointsRight
<1>3. \A o : Running(o)' <=> o = x \/ Running(o)
  BY ExpireFrames
<1>4. \A t \in SharedSlot : shared[t] = x => t = s
  BY ExpireHolder DEF Holders
<1> HIDE DEF x
<1>5. ASSUME NEW o \in Object
      PROVE  LifeOf(o)' = IF o = x THEN "dying" ELSE LifeOf(o)
  BY <1>1, <1>2, <1>3 DEF LifeOf
<1>6. ASSUME NEW t \in SharedSlot
      PROVE  HeldBy(t)' = IF t = s THEN NoObject ELSE HeldBy(t)
  BY <1>1, <1>4 DEF HeldBy, x
<1>7. holds' = [holds EXCEPT ![s] = NoObject]
  BY <1>6 DEF Mapping
<1>8. holds[s] = x /\ \A o \in Object : o = x => ~Lifetime!Held(o)'
  BY <1>1 DEF Mapping, HeldBy, x
<1>9. life' = [o \in Object |->
                 IF o = holds[s] /\ ~Lifetime!Held(o)' THEN "dying" ELSE life[o]]
  <2>1. ASSUME NEW o \in Object
        PROVE  LifeOf(o)' = IF o = holds[s] /\ ~Lifetime!Held(o)' THEN "dying" ELSE life[o]
    BY <1>5, <1>8 DEF Mapping
  <2> QED BY <2>1 DEF Mapping
<1> QED BY <1>1, <1>7, <1>9 DEF Lifetime!SetShared

LEMMA SwapSharedMaps ==
  ASSUME SharedInv, Mapping, Mapping',
         NEW s \in SharedSlot, NEW t \in SharedSlot, SwapShared(s, t)
  PROVE  Lifetime!SwapShared(s, t)
<1>1. /\ shared' = [shared EXCEPT ![s] = shared[t], ![t] = shared[s]]
      /\ UNCHANGED <<weak, bExpired, allocated, freed, destructors>>
  BY DEF SwapShared
<1>2. ASSUME NEW o \in Object
      PROVE  LifeOf(o)' = LifeOf(o)
  BY <1>1 DEF LifeOf, Running
<1>3. ASSUME NEW x \in SharedSlot
      PROVE  HeldBy(x)' = IF x = t THEN HeldBy(s) ELSE IF x = s THEN HeldBy(t) ELSE HeldBy(x)
  BY <1>1, Types DEF HeldBy
<1>4. life' = life
  BY <1>2 DEF Mapping
<1>5. holds' = [holds EXCEPT ![s] = holds[t], ![t] = holds[s]]
  BY <1>3 DEF Mapping
<1> QED BY <1>1, <1>4, <1>5 DEF Lifetime!SwapShared

LEMMA WeakOnlyMaps ==
  ASSUME Mapping, Mapping', UNCHANGED <<shared, bExpired, allocated, freed, destructors>>
  PROVE  life' = life /\ holds' = holds
<1>1. \A o \in Object : LifeOf(o)' = LifeOf(o)
  BY DEF LifeOf, Running
<1>2. \A s \in SharedSlot : HeldBy(s)' = HeldBy(s)
  BY DEF HeldBy
<1> QED BY <1>1, <1>2 DEF Mapping

LEMMA SetWeakMaps ==
  ASSUME SharedInv, Mapping, Mapping',
         NEW w \in WeakSlot, NEW p \in Object \union {NoObject}, SetWeak(w, p)
  PROVE  Lifetime!SetWeak(w, p)
<1>1. /\ UNCHANGED <<shared, bExpired, allocated, freed, destructors>>
      /\ weak' = [weak EXCEPT ![w] = p]
      /\ p # NoObject => p \in (Object \intersect allocated) \ freed /\ ~Running(p)
  BY DEF SetWeak
<1>2. p # NoObject => life[p] \in {"alive", "dead"}
  BY <1>1 DEF Mapping, LifeOf
<1>3. life' = life /\ holds' = holds
  BY <1>1, WeakOnlyMaps
<1> QED BY <1>1, <1>2, <1>3 DEF Lifetime!SetWeak

LEMMA SwapWeakMaps ==
  ASSUME SharedInv, Mapping, Mapping',
         NEW w \in WeakSlot, NEW v \in WeakSlot, SwapWeak(w, v)
  PROVE  Lifetime!SwapWeak(w, v)
<1>1. /\ weak' = [weak EXCEPT ![w] = weak[v], ![v] = weak[w]]
      /\ UNCHANGED <<shared, bExpired, allocated, freed, destructors>>
  BY DEF SwapWeak
<1>2. life' = life /\ holds' = holds
  BY <1>1, WeakOnlyMaps
<1> QED BY <1>1, <1>2 DEF Lifetime!SwapWeak

LEMMA FinishMaps ==
  ASSUME SharedInv, Mapping, Mapping', FinishReset
  PROVE  \E o \in Object : Lifetime!Destroyed(o)
<1> DEFINE x == Dying.object
           s == Dying.slot
           p == Assigned
<1>1. /\ x \in bExpired \ freed /\ shared[s] = x /\ s \in SharedSlot
      /\ p \in Object \union {NoObject} /\ p \notin bExpired
      /\ p # NoObject => Dying.from \in SharedSlot /\ shared[Dying.from] = p
      /\ shared' = [shared EXCEPT ![s] = p]
      /\ freed' = freed \union {o \in {x} : WeakRefCount[o] = 0}
      /\ UNCHANGED <<weak, bExpired, allocated>>
  BY FinishFacts, Types, NullAssumption
<1>2. x \in Object /\ x \in allocated
  BY <1>1, Types
<1>3. Running(x) /\ \A o : Running(o)' <=> o # x /\ Running(o)
  <2>1. Running(x)
    BY BusyFacts DEF FinishReset, Running
  <2> QED BY <2>1, FinishFrames
<1> HIDE DEF x, s, p
<1>4. ASSUME NEW o \in Object
      PROVE  LifeOf(o)' = IF o # x THEN LifeOf(o)
                          ELSE IF WeakRefCount[x] = 0 THEN "freed" ELSE "dead"
  BY <1>1, <1>2, <1>3 DEF LifeOf
<1>5. ASSUME NEW t \in SharedSlot
      PROVE  HeldBy(t)' = IF t = s THEN p ELSE HeldBy(t)
  BY <1>1, Types DEF HeldBy
<1>6. life[x] = "dying"
  BY <1>1, <1>2, <1>3 DEF LifeOf, Mapping
<1>7. Lifetime!Referred(x) <=> WeakRefCount[x] # 0
  BY <1>2 DEF Mapping
<1>8. life' = [life EXCEPT ![x] = IF WeakRefCount[x] = 0 THEN "freed" ELSE "dead"]
  BY <1>4 DEF Mapping
<1>9. holds[s] = NoObject /\ holds' = [holds EXCEPT ![s] = p]
  <2>1. HeldBy(s) = NoObject
    BY <1>1 DEF HeldBy
  <2> QED BY <1>1, <1>5, <2>1 DEF Mapping
<1>10. CASE p = NoObject
  <2>1. UNCHANGED holds
    BY <1>1, <1>9, <1>10 DEF Mapping
  <2> QED BY <1>1, <1>2, <1>6, <1>7, <1>8, <2>1 DEF Lifetime!Destroyed
<1>11. CASE p # NoObject
  <2>1. Dying.from \in SharedSlot /\ holds[Dying.from] = p
    BY <1>1, <1>11 DEF Mapping, HeldBy
  <2>2. \E t, u \in SharedSlot : /\ holds[t] = NoObject /\ holds[u] # NoObject
                                 /\ holds' = [holds EXCEPT ![t] = holds[u]]
    BY <1>1, <1>9, <1>11, <2>1
  <2> QED BY <1>1, <1>2, <1>6, <1>7, <1>8, <2>2 DEF Lifetime!Destroyed
<1> QED BY <1>10, <1>11

LEMMA LifetimeStep == SharedInv /\ SharedInv' /\ [Next]_vars => [Lifetime!Next]_(Lifetime!vars)
<1> SUFFICES ASSUME SharedInv, SharedInv', [Next]_vars PROVE [Lifetime!Next]_(Lifetime!vars)
  OBVIOUS
<1>1. Mapping
  BY MappingIs
<1>2. Mapping'
  BY MappingIs, PTL
<1>3. CASE UNCHANGED vars
  <2>1. life' = life /\ holds' = holds /\ weak' = weak
    BY <1>1, <1>2, <1>3, WeakOnlyMaps DEF vars
  <2> QED BY <2>1 DEF Lifetime!vars
<1>4. ASSUME NEW s \in SharedSlot, NEW p \in Object \union {NoObject},
             GainNew(s, p) \/ GainOld(s, p)
      PROVE  Lifetime!Next
  BY <1>1, <1>2, <1>4, GainNewMaps, GainOldMaps DEF Lifetime!Next
<1>5. ASSUME NEW s \in SharedSlot, NEW from \in SharedSlot \union {NoSlot}, Expire(s, from)
      PROVE  Lifetime!Next
  BY <1>1, <1>2, <1>5, ExpireMaps DEF Lifetime!Next
<1>6. ASSUME NEW s \in SharedSlot, NEW t \in SharedSlot, SwapShared(s, t)
      PROVE  Lifetime!Next
  BY <1>1, <1>2, <1>6, SwapSharedMaps DEF Lifetime!Next
<1>7. ASSUME NEW w \in WeakSlot, NEW p \in Object \union {NoObject}, SetWeak(w, p)
      PROVE  Lifetime!Next
  BY <1>1, <1>2, <1>7, SetWeakMaps DEF Lifetime!Next
<1>8. ASSUME NEW w \in WeakSlot, NEW v \in WeakSlot, SwapWeak(w, v)
      PROVE  Lifetime!Next
  BY <1>1, <1>2, <1>8, SwapWeakMaps DEF Lifetime!Next
<1>9. CASE FinishReset
  BY <1>1, <1>2, <1>9, FinishMaps DEF Lifetime!Next
<1> QED BY <1>3, <1>4, <1>5, <1>6, <1>7, <1>8, <1>9, EveryStep DEF Kinds

\* SharedPtr and WeakPtr implement lifetimes: an object is destroyed once, when its last
\* holder lets go, never comes back, and its control block is freed once, after everybody.
THEOREM ImplementsLifetimeHolds == Spec => ImplementsLifetime
<1>1. Init => Lifetime!Init
  <2> SUFFICES ASSUME Init PROVE Lifetime!Init
    OBVIOUS
  <2>1. Mapping
    BY SharedInvInit, MappingIs
  <2>2. \A o \in Object : LifeOf(o) = "unborn"
    BY DEF Init, LifeOf
  <2>3. \A s \in SharedSlot : HeldBy(s) = NoObject
    BY DEF Init, HeldBy
  <2> QED BY <2>1, <2>2, <2>3 DEF Mapping, Init, Lifetime!Init
<1> QED BY <1>1, LifetimeStep, SharedInvHolds, PTL
        DEF Spec, ImplementsLifetime, Lifetime!Spec

-----------------------------------------------------------------------------
(***************************************************************************)
(* Memory pools.  Each step works on one chunk; the free lists of the      *)
(* others stay.                                                            *)
(***************************************************************************)

\* The inductive invariant.  That a chunk with a slot in use has a cursor above 0 is
\* counted (UsedIsExact); that the count changes with every step needs the free list.
\* A chunk that is not created yet has no slot in use.
NotCreatedIsEmpty == \A c \in Chunk : c >= size => mCursor[c] = 0
PoolInv ==
  /\ PoolTypeOK /\ FreeListExact /\ UsedIsExact /\ UsersHaveSlots
  /\ NotCreatedIsEmpty /\ FirstWithSpace

LEMMA IndexFinite == IsFiniteSet(Index) /\ Cardinality(Index) = CAPACITY
BY FS_Interval, CapacityAssumption DEF Index

LEMMA LiveInFinite == \A c : IsFiniteSet(LiveIn(c)) /\ LiveIn(c) \subseteq Index
BY FS_Subset, IndexFinite DEF LiveIn

\* What an allocation in the chunk c does to its free list.
LEMMA AllocateKeepsList ==
  ASSUME PoolInv, NEW c \in Chunk, mCursor[c] < CAPACITY,
         AllocateInChunk(c), mIndices' = mIndices
  PROVE  /\ mIndices[c][mCursor[c]] \in Index \ LiveIn(c)
         /\ LiveIn(c)' = LiveIn(c) \union {mIndices[c][mCursor[c]]}
         /\ \A d \in Chunk \ {c} : LiveIn(d)' = LiveIn(d) /\ mCursor'[d] = mCursor[d]
         /\ mCursor'[c] = mCursor[c] + 1
         /\ mCursor' \in [Chunk -> 0..CAPACITY]
<1> DEFINE i == mIndices[c][mCursor[c]]
<1>1. mCursor[c] \in Index /\ mCursor[c] \in mCursor[c]..(CAPACITY - 1) /\ i \in Index
  BY CapacityAssumption DEF PoolInv, PoolTypeOK, Index
<1>2. i \notin LiveIn(c)
  BY <1>1 DEF PoolInv, FreeListExact
<1>3. LiveIn(c)' = LiveIn(c) \union {i}
  BY <1>1 DEF AllocateInChunk, LiveIn
<1>4. \A d \in Chunk \ {c} : LiveIn(d)' = LiveIn(d) /\ mCursor'[d] = mCursor[d]
  BY DEF AllocateInChunk, LiveIn, PoolInv, PoolTypeOK
<1>5. mCursor'[c] = mCursor[c] + 1 /\ mCursor' \in [Chunk -> 0..CAPACITY]
  BY CapacityAssumption DEF AllocateInChunk, PoolInv, PoolTypeOK
<1> QED BY <1>1, <1>2, <1>3, <1>4, <1>5

\* A slot that comes back goes to the place before the cursor.
LEMMA DeallocateKeepsList ==
  ASSUME PoolInv, NEW c \in Chunk, NEW i \in Index, Deallocate(c, i)
  PROVE  /\ mCursor[c] \in 1..CAPACITY
         /\ i \in LiveIn(c) /\ LiveIn(c)' = LiveIn(c) \ {i}
         /\ mCursor'[c] = mCursor[c] - 1
         /\ mCursor' \in [Chunk -> 0..CAPACITY] /\ mIndices' \in [Chunk -> [Index -> Index]]
         /\ mIndices'[c] = [mIndices[c] EXCEPT ![mCursor[c] - 1] = i]
         /\ \A d \in Chunk \ {c} : /\ LiveIn(d)' = LiveIn(d) /\ mCursor'[d] = mCursor[d]
                                   /\ mIndices'[d] = mIndices[d]
<1>1. i \in LiveIn(c)
  BY DEF Deallocate, LiveIn
<1>2. mCursor[c] # 0
  <2>1. Cardinality(LiveIn(c)) # 0
    BY <1>1, LiveInFinite, FS_EmptySet
  <2> QED BY <2>1 DEF PoolInv, UsedIsExact
<1>3. mCursor[c] \in 1..CAPACITY /\ mCursor[c] - 1 \in Index
  <2>1. mCursor[c] \in 0..CAPACITY
    BY DEF PoolInv, PoolTypeOK
  <2>2. mCursor[c] \in 1..CAPACITY
    BY <1>2, <2>1, CapacityAssumption
  <2> QED BY <2>2, CapacityAssumption DEF Index
<1>4. LiveIn(c)' = LiveIn(c) \ {i}
  BY DEF Deallocate, LiveIn
<1>5. mCursor'[c] = mCursor[c] - 1 /\ mCursor' \in [Chunk -> 0..CAPACITY]
  BY <1>3, CapacityAssumption DEF Deallocate, PoolInv, PoolTypeOK
<1>6. /\ mIndices'[c] = [mIndices[c] EXCEPT ![mCursor[c] - 1] = i]
      /\ mIndices' \in [Chunk -> [Index -> Index]]
  BY <1>3 DEF Deallocate, PoolInv, PoolTypeOK
<1>7. \A d \in Chunk \ {c} : /\ LiveIn(d)' = LiveIn(d) /\ mCursor'[d] = mCursor[d]
                             /\ mIndices'[d] = mIndices[d]
  BY DEF Deallocate, LiveIn, PoolInv, PoolTypeOK
<1> QED BY <1>1, <1>3, <1>4, <1>5, <1>6, <1>7

-----------------------------------------------------------------------------
LEMMA TypeInit == PoolInit => PoolTypeOK
BY CapacityAssumption, ChunksAssumption DEF PoolInit, PoolTypeOK, Chunk, Index

LEMMA PoolInvInit == PoolInit => PoolInv
<1> SUFFICES ASSUME PoolInit PROVE PoolInv
  OBVIOUS
<1>1. PoolTypeOK
  BY TypeInit
<1>2. \A c \in Chunk : LiveIn(c) = {} /\ mCursor[c] = 0 /\ \A i \in Index : mIndices[c][i] = i
  BY DEF PoolInit, LiveIn
<1>3. FreeListExact
  BY <1>2, CapacityAssumption DEF FreeListExact, Index
<1>4. UsedIsExact
  BY <1>2, FS_EmptySet DEF UsedIsExact
<1>5. UsersHaveSlots
  BY FS_EmptySet DEF PoolInit, UsersHaveSlots
<1>6. NotCreatedIsEmpty /\ FirstWithSpace
  BY <1>2 DEF PoolInit, NotCreatedIsEmpty, FirstWithSpace, Chunk
<1> QED BY <1>1, <1>3, <1>4, <1>5, <1>6 DEF PoolInv

\* An allocation is one in a chunk that has space.
LEMMA AllocateChunk ==
  ASSUME PoolInv, Allocate
  PROVE  \E c \in Chunk :
           /\ AllocateInChunk(c) /\ mIndices' = mIndices /\ users' = users + 1
           /\ mCursor[c] < CAPACITY /\ mChunkCursor <= c /\ c <= size
           /\ mChunkCursor' = c /\ size' = (IF c = size THEN size + 1 ELSE size)
           /\ \A d \in Chunk : mChunkCursor <= d /\ d < c => mCursor[d] = CAPACITY
<1>1. PICK c \in Chunk :
        /\ mChunkCursor <= c /\ c <= size
        /\ \A d \in Chunk : mChunkCursor <= d /\ d < c => IsCapacityFull(d)
        /\ c < size => ~IsCapacityFull(c)
        /\ mChunkCursor' = c
        /\ size' = (IF c = size THEN size + 1 ELSE size)
        /\ AllocateInChunk(c)
        /\ users' = users + 1
        /\ UNCHANGED mIndices
  BY DEF Allocate
<1>2. c \in Int /\ size \in Int /\ mCursor[c] \in 0..CAPACITY
  BY ChunksAssumption DEF Chunk, PoolInv, PoolTypeOK
<1>3. mCursor[c] < CAPACITY
  <2>1. CASE c < size
    BY <2>1, <1>1, <1>2, CapacityAssumption DEF IsCapacityFull
  <2>2. CASE c = size
    BY <2>2, <1>2, CapacityAssumption DEF PoolInv, NotCreatedIsEmpty
  <2> QED BY <2>1, <2>2, <1>1, <1>2
<1> QED BY <1>1, <1>3 DEF IsCapacityFull

LEMMA LiveFinite == ASSUME PoolTypeOK PROVE IsFiniteSet(live)
<1>1. IsFiniteSet(Chunk) /\ IsFiniteSet(Index)
  BY FS_Interval, ChunksAssumption, CapacityAssumption DEF Chunk, Index
<1>2. IsFiniteSet(Chunk \X Index)
  BY <1>1, FS_Product
<1> QED BY <1>2, FS_Subset DEF PoolTypeOK

LEMMA AllocateKeepsInv ==
  ASSUME PoolInv, Allocate
  PROVE  PoolInv'
<1>1. PICK c \in Chunk :
        /\ AllocateInChunk(c) /\ mIndices' = mIndices /\ users' = users + 1
        /\ mCursor[c] < CAPACITY /\ mChunkCursor <= c /\ c <= size
        /\ mChunkCursor' = c /\ size' = (IF c = size THEN size + 1 ELSE size)
        /\ \A d \in Chunk : mChunkCursor <= d /\ d < c => mCursor[d] = CAPACITY
  BY AllocateChunk
<1> DEFINE i == mIndices[c][mCursor[c]]
<1>2. /\ i \in Index \ LiveIn(c) /\ LiveIn(c)' = LiveIn(c) \union {i}
      /\ \A d \in Chunk \ {c} : LiveIn(d)' = LiveIn(d) /\ mCursor'[d] = mCursor[d]
      /\ mCursor'[c] = mCursor[c] + 1 /\ mCursor' \in [Chunk -> 0..CAPACITY]
  BY <1>1, AllocateKeepsList
<1>3. live' = live \union {<<c, i>>} /\ <<c, i>> \notin live
  BY <1>1, <1>2 DEF AllocateInChunk, LiveIn
<1>4. mCursor[c] \in Index /\ c \in Int /\ size \in Int /\ mIndices[c] \in [Index -> Index]
  BY <1>1, ChunksAssumption, CapacityAssumption DEF PoolInv, PoolTypeOK, Chunk, Index
<1>5. PoolTypeOK'
  <2>1. size' \in 0..CHUNKS_MAX /\ mChunkCursor' \in 0..size'
    BY <1>1, <1>4, ChunksAssumption DEF Chunk, PoolInv, PoolTypeOK
  <2>2. live' \subseteq Chunk \X Index /\ users' \in Nat
    BY <1>1, <1>2, <1>3 DEF PoolInv, PoolTypeOK
  <2> QED BY <1>1, <1>2, <2>1, <2>2 DEF PoolInv, PoolTypeOK
<1>6. FreeListExact'
  <2> SUFFICES ASSUME NEW d \in Chunk
               PROVE  /\ \A j \in mCursor'[d]..(CAPACITY - 1) : mIndices[d][j] \notin LiveIn(d)'
                      /\ \A j, k \in mCursor'[d]..(CAPACITY - 1) :
                           mIndices[d][j] = mIndices[d][k] => j = k
                      /\ \A x \in Index \ LiveIn(d)' :
                           \E j \in mCursor'[d]..(CAPACITY - 1) : mIndices[d][j] = x
    BY <1>1 DEF FreeListExact
  <2>1. CASE d # c
    BY <2>1, <1>2 DEF PoolInv, FreeListExact
  <2>2. CASE d = c
    <3>1. \A j \in mCursor[c]..(CAPACITY - 1) : mIndices[c][j] \notin LiveIn(c)
      BY DEF PoolInv, FreeListExact
    <3>2. \A j, k \in mCursor[c]..(CAPACITY - 1) : mIndices[c][j] = mIndices[c][k] => j = k
      BY DEF PoolInv, FreeListExact
    <3>3. \A x \in Index \ LiveIn(c) :
            \E j \in mCursor[c]..(CAPACITY - 1) : mIndices[c][j] = x
      BY DEF PoolInv, FreeListExact
    <3>4. /\ mCursor[c] \in Int /\ CAPACITY \in Int /\ mCursor[c] <= CAPACITY - 1
          /\ mCursor'[c] = mCursor[c] + 1
      BY <1>2, <1>4, CapacityAssumption DEF Index
    <3>5. \A j \in (mCursor[c] + 1)..(CAPACITY - 1) :
            j \in mCursor[c]..(CAPACITY - 1) /\ j # mCursor[c]
      BY <3>4
    <3>6. \A j \in (mCursor[c] + 1)..(CAPACITY - 1) : mIndices[c][j] # i
      BY <3>2, <3>4, <3>5
    <3>7. \A x \in Index \ LiveIn(c)' :
            \E j \in (mCursor[c] + 1)..(CAPACITY - 1) : mIndices[c][j] = x
      <4> SUFFICES ASSUME NEW x \in Index, x \notin LiveIn(c), x # i
                   PROVE  \E j \in (mCursor[c] + 1)..(CAPACITY - 1) : mIndices[c][j] = x
        BY <1>2
      <4>1. PICK j \in mCursor[c]..(CAPACITY - 1) : mIndices[c][j] = x
        BY <3>3
      <4>2. j \in (mCursor[c] + 1)..(CAPACITY - 1)
        BY <4>1, <3>4
      <4> QED BY <4>1, <4>2
    <3> QED BY <2>2, <3>1, <3>2, <3>4, <3>5, <3>6, <3>7, <1>2
  <2> QED BY <2>1, <2>2
<1>7. UsedIsExact'
  <2>1. Cardinality(LiveIn(c)') = Cardinality(LiveIn(c)) + 1
    <3>1. i \notin LiveIn(c) /\ LiveIn(c)' = LiveIn(c) \union {i}
      BY <1>2
    <3> QED BY <3>1, LiveInFinite, FS_AddElement
  <2>2. Cardinality(LiveIn(c)) = mCursor[c] /\ mCursor'[c] = mCursor[c] + 1
    BY <1>2 DEF PoolInv, UsedIsExact
  <2>3. Cardinality(LiveIn(c)') = mCursor'[c]
    BY <2>1, <2>2
  <2>4. \A d \in Chunk \ {c} : Cardinality(LiveIn(d)') = mCursor'[d]
    BY <1>2 DEF PoolInv, UsedIsExact
  <2>5. \A d \in Chunk : Cardinality(LiveIn(d)') = mCursor'[d]
    BY <2>3, <2>4
  <2> QED BY <2>5 DEF UsedIsExact
<1>8. UsersHaveSlots'
  BY <1>1, <1>3, LiveFinite, FS_AddElement DEF PoolInv, UsersHaveSlots
<1>9. NotCreatedIsEmpty'
  BY <1>1, <1>2, <1>4, ChunksAssumption DEF PoolInv, NotCreatedIsEmpty, Chunk
<1>10. FirstWithSpace'
  <2> SUFFICES ASSUME NEW d \in Chunk, d < c PROVE mCursor'[d] = CAPACITY
    BY <1>1 DEF FirstWithSpace, IsCapacityFull
  <2>1. d # c /\ d \in Int /\ mChunkCursor \in Int
    BY <1>4, ChunksAssumption DEF Chunk, PoolInv, PoolTypeOK
  <2> QED BY <2>1, <1>1, <1>2 DEF PoolInv, FirstWithSpace, IsCapacityFull
<1> QED BY <1>5, <1>6, <1>7, <1>8, <1>9, <1>10 DEF PoolInv

LEMMA DeallocateKeepsInv ==
  ASSUME PoolInv, NEW c \in Chunk, NEW i \in Index, Deallocate(c, i)
  PROVE  PoolInv'
<1> DEFINE p == mCursor[c] - 1
<1>1. /\ mCursor[c] \in 1..CAPACITY
      /\ i \in LiveIn(c) /\ LiveIn(c)' = LiveIn(c) \ {i}
      /\ mCursor'[c] = mCursor[c] - 1
      /\ mCursor' \in [Chunk -> 0..CAPACITY] /\ mIndices' \in [Chunk -> [Index -> Index]]
      /\ mIndices'[c] = [mIndices[c] EXCEPT ![p] = i]
      /\ \A d \in Chunk \ {c} : /\ LiveIn(d)' = LiveIn(d) /\ mCursor'[d] = mCursor[d]
                                /\ mIndices'[d] = mIndices[d]
  BY DeallocateKeepsList
<1>2. /\ live' = live \ {<<c, i>>} /\ users' = users - 1 /\ size' = size
      /\ mChunkCursor' = (IF c < mChunkCursor THEN c ELSE mChunkCursor) /\ <<c, i>> \in live
  BY DEF Deallocate
<1>3. p \in Index /\ mIndices[c] \in [Index -> Index] /\ mCursor[c] \in Int /\ CAPACITY \in Int
  <2>1. mIndices[c] \in [Index -> Index]
    BY DEF PoolInv, PoolTypeOK
  <2>2. CAPACITY \in Int /\ mCursor[c] \in 1..CAPACITY
    BY <1>1, CapacityAssumption
  <2>3. p \in 0..(CAPACITY - 1) /\ mCursor[c] \in Int
    BY <2>2
  <2>4. p \in Index
    BY <2>3 DEF Index
  <2> QED BY <2>1, <2>2, <2>3, <2>4
<1>4. Cardinality(live') = Cardinality(live) - 1
  BY <1>2, LiveFinite, FS_RemoveElement DEF PoolInv
<1>5. UsersHaveSlots' /\ users' \in Nat
  <2>1. IsFiniteSet(live') /\ Cardinality(live') \in Nat
    BY <1>2, LiveFinite, FS_Subset, FS_CardinalityType DEF PoolInv
  <2> QED BY <1>2, <1>4, <2>1 DEF PoolInv, UsersHaveSlots
<1>6. PoolTypeOK'
  <2>1. c \in Nat
    BY DEF Chunk
  <2>2. size' \in 0..CHUNKS_MAX /\ mChunkCursor' \in 0..size'
    BY <1>2, <2>1, ChunksAssumption DEF PoolInv, PoolTypeOK
  <2> QED BY <1>1, <1>2, <1>5, <2>2 DEF PoolInv, PoolTypeOK
<1>7. FreeListExact'
  <2> SUFFICES ASSUME NEW d \in Chunk
               PROVE  /\ \A j \in mCursor'[d]..(CAPACITY - 1) : mIndices'[d][j] \notin LiveIn(d)'
                      /\ \A j, k \in mCursor'[d]..(CAPACITY - 1) :
                           mIndices'[d][j] = mIndices'[d][k] => j = k
                      /\ \A x \in Index \ LiveIn(d)' :
                           \E j \in mCursor'[d]..(CAPACITY - 1) : mIndices'[d][j] = x
    BY DEF FreeListExact
  <2>1. CASE d # c
    BY <2>1, <1>1 DEF PoolInv, FreeListExact
  <2>2. CASE d = c
    <3>1. \A j \in mCursor[c]..(CAPACITY - 1) : mIndices[c][j] \notin LiveIn(c)
      BY DEF PoolInv, FreeListExact
    <3>2. \A j, k \in mCursor[c]..(CAPACITY - 1) : mIndices[c][j] = mIndices[c][k] => j = k
      BY DEF PoolInv, FreeListExact
    <3>3. \A x \in Index \ LiveIn(c) :
            \E j \in mCursor[c]..(CAPACITY - 1) : mIndices[c][j] = x
      BY DEF PoolInv, FreeListExact
    <3>4. mIndices'[c][p] = i
      BY <1>1, <1>3
    <3>5. \A j \in p..(CAPACITY - 1) :
            j = p \/ (/\ j \in mCursor[c]..(CAPACITY - 1) /\ j \in Index /\ j # p
                     /\ mIndices'[c][j] = mIndices[c][j])
      <4> SUFFICES ASSUME NEW j \in p..(CAPACITY - 1), j # p
                   PROVE  /\ j \in mCursor[c]..(CAPACITY - 1) /\ j \in Index
                          /\ mIndices'[c][j] = mIndices[c][j]
        OBVIOUS
      <4>1. j \in mCursor[c]..(CAPACITY - 1) /\ j \in Index
        BY <1>3 DEF Index
      <4> QED BY <4>1, <1>1, <1>3
    <3>6. \A j \in mCursor[c]..(CAPACITY - 1) : j \in p..(CAPACITY - 1) /\ j # p
      BY <1>3
    <3>7. \A j \in p..(CAPACITY - 1) : mIndices'[c][j] \notin LiveIn(c)'
      BY <3>1, <3>4, <3>5, <1>1
    <3>8. \A j, k \in p..(CAPACITY - 1) : mIndices'[c][j] = mIndices'[c][k] => j = k
      BY <3>1, <3>2, <3>4, <3>5, <1>1
    <3>9. \A x \in Index \ LiveIn(c)' : \E j \in p..(CAPACITY - 1) : mIndices'[c][j] = x
      <4> SUFFICES ASSUME NEW x \in Index, x \notin LiveIn(c)'
                   PROVE  \E j \in p..(CAPACITY - 1) : mIndices'[c][j] = x
        OBVIOUS
      <4>1. CASE x = i
        <5>1. p \in p..(CAPACITY - 1)
          BY <1>3 DEF Index
        <5> QED BY <5>1, <4>1, <3>4
      <4>2. CASE x # i
        <5>1. PICK j \in mCursor[c]..(CAPACITY - 1) : mIndices[c][j] = x
          BY <4>2, <3>3, <1>1
        <5>2. j \in p..(CAPACITY - 1) /\ mIndices'[c][j] = x
          BY <5>1, <3>5, <3>6
        <5> QED BY <5>2
      <4> QED BY <4>1, <4>2
    <3> QED BY <2>2, <3>7, <3>8, <3>9, <1>1
  <2> QED BY <2>1, <2>2
<1>8. UsedIsExact'
  <2>1. Cardinality(LiveIn(c)') = Cardinality(LiveIn(c)) - 1
    BY <1>1, LiveInFinite, FS_RemoveElement
  <2>2. \A d \in Chunk : Cardinality(LiveIn(d)') = mCursor'[d]
    BY <2>1, <1>1 DEF PoolInv, UsedIsExact
  <2> QED BY <2>2 DEF UsedIsExact
<1>9. NotCreatedIsEmpty'
  BY <1>1, <1>2 DEF PoolInv, NotCreatedIsEmpty
<1>10. FirstWithSpace'
  <2> SUFFICES ASSUME NEW d \in Chunk, d < mChunkCursor' PROVE mCursor'[d] = CAPACITY
    BY DEF FirstWithSpace, IsCapacityFull
  <2>1. d # c /\ d < mChunkCursor
    BY <1>2, ChunksAssumption DEF Chunk, PoolInv, PoolTypeOK
  <2> QED BY <2>1, <1>1 DEF PoolInv, FirstWithSpace, IsCapacityFull
<1> QED BY <1>5, <1>6, <1>7, <1>8, <1>9, <1>10 DEF PoolInv

\* PoolInv is an invariant.
THEOREM PoolInvHolds == PoolSpec => []PoolInv
<1>1. PoolInit => PoolInv
  BY PoolInvInit
<1>2. PoolInv /\ [PoolNext]_poolVars => PoolInv'
  <2> SUFFICES ASSUME PoolInv, [PoolNext]_poolVars PROVE PoolInv'
    OBVIOUS
  <2>1. CASE Allocate
    BY <2>1, AllocateKeepsInv
  <2>2. ASSUME NEW c \in Chunk, NEW i \in Index, Deallocate(c, i) PROVE PoolInv'
    BY <2>2, DeallocateKeepsInv
  <2>3. CASE UNCHANGED poolVars
    BY <2>3 DEF poolVars, PoolInv, PoolTypeOK, FreeListExact, UsedIsExact, UsersHaveSlots, LiveIn,
                NotCreatedIsEmpty, FirstWithSpace, IsCapacityFull
  <2> QED BY <2>1, <2>2, <2>3 DEF PoolNext
<1> QED BY <1>1, <1>2, PTL DEF PoolSpec

\* Whatever the order in which slots come back, the free lists hold every slot that is
\* not in use once, and every user has a slot of its own.
THEOREM FreeListExactHolds == PoolSpec => []FreeListExact
BY PoolInvHolds, PTL DEF PoolInv

\* Every user of the pool has a slot of its own.
THEOREM UsersHaveSlotsHolds == PoolSpec => []UsersHaveSlots
BY PoolInvHolds, PTL DEF PoolInv

\* No chunk before the chunk cursor has space.
THEOREM FirstWithSpaceHolds == PoolSpec => []FirstWithSpace
BY PoolInvHolds, PTL DEF PoolInv

\* Types, among them that no cursor leaves its chunk.
THEOREM PoolTypeCorrect == PoolSpec => []PoolTypeOK
BY PoolInvHolds, PTL DEF PoolInv

\* The cursor of a chunk is the number of its slots in use.
THEOREM UsedIsExactHolds == PoolSpec => []UsedIsExact
BY PoolInvHolds, PTL DEF PoolInv

\* A chunk is added only when all slots of all chunks are in use.
THEOREM GrowsWhenFullHolds == PoolSpec => GrowsWhenFull
<1>1. ASSUME PoolInv, [PoolNext]_poolVars, size' # size, NEW c \in Chunk, c < size
      PROVE  LiveIn(c) = Index
  <2>1. Allocate
    BY <1>1 DEF PoolNext, Deallocate, poolVars
  <2>2. PICK d \in Chunk :
          /\ mChunkCursor <= d /\ d <= size /\ size' = (IF d = size THEN size + 1 ELSE size)
          /\ \A e \in Chunk : mChunkCursor <= e /\ e < d => mCursor[e] = CAPACITY
    BY <1>1, <2>1, AllocateChunk
  <2>3. d = size
    BY <1>1, <2>2
  <2>4. mCursor[c] = CAPACITY
    <3>1. c \in Int /\ mChunkCursor \in Int
      BY ChunksAssumption, <1>1 DEF Chunk, PoolInv, PoolTypeOK
    <3>2. CASE c < mChunkCursor
      BY <3>2, <1>1 DEF PoolInv, FirstWithSpace, IsCapacityFull
    <3>3. CASE mChunkCursor <= c
      BY <3>3, <1>1, <2>2, <2>3
    <3> QED BY <3>1, <3>2, <3>3
  <2>5. \A i \in Index : i \in LiveIn(c)
    <3> SUFFICES ASSUME NEW i \in Index, i \notin LiveIn(c) PROVE FALSE
      OBVIOUS
    <3>1. \E j \in CAPACITY..(CAPACITY - 1) : mIndices[c][j] = i
      BY <1>1, <2>4 DEF PoolInv, FreeListExact
    <3> QED BY <3>1, CapacityAssumption
  <2> QED BY <2>5 DEF LiveIn
<1>2. PoolInv /\ [PoolNext]_poolVars => [size' # size => \A c \in Chunk : c < size => LiveIn(c) = Index]_poolVars
  BY <1>1
<1> QED BY PoolInvHolds, <1>2, PTL DEF PoolSpec, GrowsWhenFull

\* The pool implements the abstract allocator: every step hands out a place nobody has,
\* takes one back, or changes nothing that a user sees.
THEOREM ImplementsAllocatorHolds == PoolSpec => ImplementsAllocator
<1>1. PoolInit => AbstractPool!Init
  BY DEF PoolInit, AbstractPool!Init
<1>2. PoolInv /\ [PoolNext]_poolVars => [AbstractPool!Next]_<<live, users>>
  <2> SUFFICES ASSUME PoolInv, [PoolNext]_poolVars PROVE [AbstractPool!Next]_<<live, users>>
    OBVIOUS
  <2>1. CASE Allocate
    <3>1. PICK c \in Chunk : /\ AllocateInChunk(c) /\ mIndices' = mIndices
                             /\ users' = users + 1 /\ mCursor[c] < CAPACITY
      BY <2>1, AllocateChunk
    <3>2. mIndices[c][mCursor[c]] \in Index \ LiveIn(c)
      BY <3>1, AllocateKeepsList
    <3>3. <<c, mIndices[c][mCursor[c]]>> \in (Chunk \X Index) \ live
      BY <3>2 DEF LiveIn
    <3>4. AbstractPool!Allocate
      BY <3>1, <3>3 DEF AbstractPool!Allocate, AllocateInChunk
    <3> QED BY <3>4 DEF AbstractPool!Next
  <2>2. ASSUME NEW c \in Chunk, NEW i \in Index, Deallocate(c, i)
        PROVE  AbstractPool!Deallocate
    BY <2>2 DEF Deallocate, AbstractPool!Deallocate
  <2>3. CASE UNCHANGED poolVars
    BY <2>3 DEF poolVars
  <2> QED BY <2>1, <2>2, <2>3 DEF PoolNext, AbstractPool!Next
<1> QED BY <1>1, <1>2, PoolInvHolds, PTL DEF PoolSpec, ImplementsAllocator, AbstractPool!Spec

-----------------------------------------------------------------------------
(***************************************************************************)
(* The memory as a whole.                                                  *)
(***************************************************************************)

\* The two parts do not disturb each other: a step of the memory is a step of one part
\* and none of the other, so that it has every property that is proved of a part.
THEOREM MemoryIsItsParts == MemorySpec => Spec /\ PoolSpec
<1>1. MemoryInit => Init /\ PoolInit
  BY DEF MemoryInit
<1>2. [MemoryNext]_<<part, vars, poolVars>> => [Next]_vars /\ [PoolNext]_poolVars
  BY DEF MemoryNext
<1> QED
  BY <1>1, <1>2, PTL DEF MemorySpec, Spec, PoolSpec

\* Every state of the memory has the types of both of its parts.
THEOREM MemoryTypeCorrect == MemorySpec => []MemoryTypeOK
<1>1. TypeOK /\ PoolTypeOK => MemoryTypeOK
  BY DEF MemoryTypeOK
<1> QED
  BY <1>1, MemoryIsItsParts, SharedTypeCorrect, PoolTypeCorrect, PTL

=============================================================================

------------------------------ MODULE SharedCount ------------------------------
(****************************************************************************)
(* SharedPtr and WeakPtr (Core/SharedPtr.hpp, Core/WeakPtr.hpp): the counts *)
(* of the control blocks, with destructors that let go of the pointers the  *)
(* destroyed object holds, which may destroy further objects.               *)
(*                                                                          *)
(* A slot is a pointer variable: a local, an element of a container, or a   *)
(* member of an object.  An object is one control block and its data; a new *)
(* object is a new member of Object.                                        *)
(****************************************************************************)
EXTENDS Integers, Sequences, FiniteSets

CONSTANTS
  Object, NoObject,
  SharedSlot, WeakSlot, NoSlot,
  Owner,     \* [slots -> the object whose data it is part of, or NoObject]
  Targets    \* [slots -> the objects of the slot's type]

Slot == SharedSlot \union WeakSlot

ASSUME NullAssumption  == NoObject \notin Object /\ NoSlot \notin Slot
ASSUME SlotAssumption  == SharedSlot \intersect WeakSlot = {} /\ IsFiniteSet(Slot)
ASSUME OwnerAssumption == Owner \in [Slot -> Object \union {NoObject}]
ASSUME TypeAssumption  == Targets \in [Slot -> SUBSET Object]

\* Clients hold channels and blocks, which hold nothing: what the SharedPtr member of an
\* object refers to has no SharedPtr member itself, so there is no cycle of owners.
ASSUME OwnershipAssumption ==
  \A s, t \in SharedSlot : Owner[s] # NoObject => Owner[t] \notin Targets[s]

VARIABLES
  shared,          \* [SharedSlot -> Object or NoObject]
  weak,            \* [WeakSlot -> Object or NoObject]
  StrongRefCount, WeakRefCount,
  bExpired,        \* objects whose destructor was called
  allocated,       \* objects whose control block exists
  freed,           \* objects whose control block was deleted
  destructors      \* running destructors, the innermost first, each with the slot that
                   \* was reset and the slot it will be assigned from

vars == <<shared, weak, StrongRefCount, WeakRefCount, bExpired, allocated, freed,
          destructors>>

Init ==
  /\ shared = [s \in SharedSlot |-> NoObject]
  /\ weak = [w \in WeakSlot |-> NoObject]
  /\ StrongRefCount = [o \in Object |-> 0] /\ WeakRefCount = [o \in Object |-> 0]
  /\ bExpired = {} /\ allocated = {} /\ freed = {}
  /\ destructors = <<>>

\* Code other than destructors runs, and slots it can use: variables and members of
\* objects that exist.
Idle      == destructors = <<>>
Usable(s) == Owner[s] # NoObject => Owner[s] \in allocated \ (freed \union bExpired)

-----------------------------------------------------------------------------
(****************************************************************************)
(* SharedPtr                                                                *)
(****************************************************************************)

\* The slot s, which is NULL, becomes a copy of the pointer from (NULL for NoSlot).
Copied(s, from, pointers, counts) ==
  LET o == IF from = NoSlot THEN NoObject ELSE pointers[from] IN
  /\ shared' = [pointers EXCEPT ![s] = o]
  /\ StrongRefCount' = IF o = NoObject THEN counts ELSE [counts EXCEPT ![o] = @ + 1]

MakeShared(s, o) ==
  /\ Idle /\ Usable(s) /\ shared[s] = NoObject
  /\ o \in Targets[s] \ allocated
  /\ allocated' = allocated \union {o}
  /\ shared' = [shared EXCEPT ![s] = o]
  /\ StrongRefCount' = [StrongRefCount EXCEPT ![o] = 1]
  /\ UNCHANGED <<weak, WeakRefCount, bExpired, freed, destructors>>

CopyShared(s, from) ==
  /\ Idle /\ Usable(s) /\ Usable(from)
  /\ shared[s] = NoObject /\ shared[from] \in Targets[s]
  /\ Copied(s, from, shared, StrongRefCount)
  /\ UNCHANGED <<weak, WeakRefCount, bExpired, allocated, freed, destructors>>

\* SharedPtr(controlBlock), by WeakPtr::Lock and for the udata of an event: NULL if the
\* object is expired.  (Mutant: bExpired is not looked at.)
MutantFromExpired(s, o) ==
  /\ shared' = [shared EXCEPT ![s] = o]
  /\ StrongRefCount' = [StrongRefCount EXCEPT ![o] = @ + 1]

FromControlBlock(s, o) ==
  IF o \in bExpired
  THEN UNCHANGED <<shared, StrongRefCount>>
  ELSE /\ shared' = [shared EXCEPT ![s] = o]
       /\ StrongRefCount' = [StrongRefCount EXCEPT ![o] = @ + 1]

Lock(s, w) ==
  /\ Idle /\ Usable(s) /\ Usable(w)
  /\ shared[s] = NoObject /\ weak[w] \in Targets[s]
  /\ IF StrongRefCount[weak[w]] > 0
     THEN FromControlBlock(s, weak[w]) ELSE UNCHANGED <<shared, StrongRefCount>>
  /\ UNCHANGED <<weak, WeakRefCount, bExpired, allocated, freed, destructors>>

\* The caller has to make sure that the control block is not deleted.
GetFromUdata(s, o) ==
  /\ Idle /\ Usable(s)
  /\ shared[s] = NoObject /\ o \in Targets[s] \intersect (allocated \ freed)
  /\ FromControlBlock(s, o)
  /\ UNCHANGED <<weak, WeakRefCount, bExpired, allocated, freed, destructors>>

\* Reset() of s, which is then assigned from another slot.  The last strong reference
\* starts the destructor; StrongRefCount stays 1.  (Mutant: it becomes 0, as in
\* std::shared_ptr.)
MutantCountsDown(s, from) ==
  LET o == shared[s] IN
  IF StrongRefCount[o] = 1
  THEN /\ bExpired' = bExpired \union {o}
       /\ destructors' = <<[object |-> o, slot |-> s, from |-> from]>> \o destructors
       /\ StrongRefCount' = [StrongRefCount EXCEPT ![o] = 0]
       /\ UNCHANGED shared
  ELSE /\ Copied(s, from, [shared EXCEPT ![s] = NoObject],
                 [StrongRefCount EXCEPT ![o] = @ - 1])
       /\ UNCHANGED <<bExpired, destructors>>

Reset(s, from) ==
  LET o == shared[s] IN
  IF StrongRefCount[o] = 1
  THEN /\ bExpired' = bExpired \union {o}
       /\ destructors' = <<[object |-> o, slot |-> s, from |-> from]>> \o destructors
       /\ UNCHANGED <<shared, StrongRefCount>>
  ELSE /\ Copied(s, from, [shared EXCEPT ![s] = NoObject],
                 [StrongRefCount EXCEPT ![o] = @ - 1])
       /\ UNCHANGED <<bExpired, destructors>>

ResetShared(s) ==
  /\ Idle /\ Usable(s) /\ shared[s] # NoObject
  /\ Reset(s, NoSlot)
  /\ UNCHANGED <<weak, WeakRefCount, allocated, freed>>

\* operator=: Reset(), then the copy; from is a variable, and may be s itself.
AssignShared(s, from) ==
  /\ Idle /\ Usable(s) /\ Owner[from] = NoObject
  /\ shared[s] # NoObject /\ shared[from] \in Targets[s]
  /\ Reset(s, from)
  /\ UNCHANGED <<weak, WeakRefCount, allocated, freed>>

SwapShared(s, t) ==
  /\ Idle /\ Usable(s) /\ Usable(t) /\ Targets[s] = Targets[t]
  /\ shared' = [shared EXCEPT ![s] = shared[t], ![t] = shared[s]]
  /\ UNCHANGED <<weak, StrongRefCount, WeakRefCount, bExpired, allocated, freed,
                 destructors>>

-----------------------------------------------------------------------------
(****************************************************************************)
(* WeakPtr                                                                  *)
(****************************************************************************)

\* Reset() of w, which then becomes target: another weak pointer is not copied if its
\* StrongRefCount is 0.  (Mutants: the control block is deleted with the last weak
\* pointer; operator= does not Reset().)
MutantDeletesBlock(w, target) ==
  LET old   == weak[w]
      count == IF old = NoObject THEN WeakRefCount ELSE [WeakRefCount EXCEPT ![old] = @ - 1]
  IN /\ weak' = [weak EXCEPT ![w] = target]
     /\ freed' = freed \union {o \in {old} \ {NoObject} : count[o] = 0}
     /\ WeakRefCount' = IF target = NoObject THEN count
                        ELSE [count EXCEPT ![target] = @ + 1]

MutantOverwrites(w, target) ==
  /\ weak' = [weak EXCEPT ![w] = target]
  /\ WeakRefCount' = IF target = NoObject THEN WeakRefCount
                     ELSE [WeakRefCount EXCEPT ![target] = @ + 1]
  /\ UNCHANGED freed

WeakSet(w, target) ==
  LET old   == weak[w]
      count == IF old = NoObject THEN WeakRefCount ELSE [WeakRefCount EXCEPT ![old] = @ - 1]
  IN /\ weak' = [weak EXCEPT ![w] = target]
     /\ freed' = freed \union
          {o \in {old} \ {NoObject} : count[o] = 0 /\ StrongRefCount[o] = 0}
     /\ WeakRefCount' = IF target = NoObject THEN count
                        ELSE [count EXCEPT ![target] = @ + 1]

WeakFromShared(w, s) ==
  /\ Idle /\ Usable(w) /\ Usable(s)
  /\ shared[s] \in Targets[w]
  /\ WeakSet(w, shared[s])
  /\ UNCHANGED <<shared, StrongRefCount, bExpired, allocated, destructors>>

WeakFromWeak(w, v) ==
  /\ Idle /\ Usable(w) /\ Usable(v)
  /\ weak[v] \in Targets[w]
  /\ WeakSet(w, IF w = v \/ StrongRefCount[weak[v]] = 0 THEN NoObject ELSE weak[v])
  /\ UNCHANGED <<shared, StrongRefCount, bExpired, allocated, destructors>>

SwapWeak(w, v) ==
  /\ Idle /\ Usable(w) /\ Usable(v) /\ Targets[w] = Targets[v]
  /\ weak' = [weak EXCEPT ![w] = weak[v], ![v] = weak[w]]
  /\ UNCHANGED <<shared, StrongRefCount, WeakRefCount, bExpired, allocated, freed,
                 destructors>>

ResetWeak(w) ==
  /\ Idle /\ Usable(w) /\ weak[w] # NoObject
  /\ WeakSet(w, NoObject)
  /\ UNCHANGED <<shared, StrongRefCount, bExpired, allocated, destructors>>

-----------------------------------------------------------------------------
(****************************************************************************)
(* Destructors: ~T() destroys the members of the data, in any order ...     *)
(****************************************************************************)
Dying == Head(destructors)

DestroySharedMember(s) ==
  /\ ~Idle /\ Owner[s] = Dying.object /\ shared[s] # NoObject
  /\ Reset(s, NoSlot)
  /\ UNCHANGED <<weak, WeakRefCount, allocated, freed>>

DestroyWeakMember(w) ==
  /\ ~Idle /\ Owner[w] = Dying.object /\ weak[w] # NoObject
  /\ WeakSet(w, NoObject)
  /\ UNCHANGED <<shared, StrongRefCount, bExpired, allocated, destructors>>

\* ... and Reset() goes on: it deletes the control block unless weak pointers remain.
FinishReset ==
  /\ ~Idle
  /\ \A s \in SharedSlot : Owner[s] = Dying.object => shared[s] = NoObject
  /\ \A w \in WeakSlot : Owner[w] = Dying.object => weak[w] = NoObject
  /\ freed' = freed \union {o \in {Dying.object} : WeakRefCount[o] = 0}
  /\ Copied(Dying.slot, Dying.from, [shared EXCEPT ![Dying.slot] = NoObject],
            StrongRefCount)
  /\ destructors' = Tail(destructors)
  /\ UNCHANGED <<weak, WeakRefCount, bExpired, allocated>>

Next ==
  \/ \E s \in SharedSlot, o \in Object : MakeShared(s, o) \/ GetFromUdata(s, o)
  \/ \E s, from \in SharedSlot :
       CopyShared(s, from) \/ AssignShared(s, from) \/ SwapShared(s, from)
  \/ \E s \in SharedSlot : ResetShared(s) \/ DestroySharedMember(s)
  \/ \E s \in SharedSlot, w \in WeakSlot : Lock(s, w) \/ WeakFromShared(w, s)
  \/ \E w, v \in WeakSlot : WeakFromWeak(w, v) \/ SwapWeak(w, v)
  \/ \E w \in WeakSlot : ResetWeak(w) \/ DestroyWeakMember(w)
  \/ FinishReset

Spec == Init /\ [][Next]_vars

-----------------------------------------------------------------------------
(****************************************************************************)
(* Properties                                                               *)
(****************************************************************************)

\* Types; a control block is allocated, then expired, then freed.
TypeOK ==
  /\ shared \in [SharedSlot -> Object \union {NoObject}]
  /\ weak \in [WeakSlot -> Object \union {NoObject}]
  /\ StrongRefCount \in [Object -> Nat] /\ WeakRefCount \in [Object -> Nat]
  /\ allocated \subseteq Object /\ bExpired \subseteq allocated /\ freed \subseteq bExpired
  /\ destructors \in Seq([object : Object, slot : SharedSlot,
                          from : SharedSlot \union {NoSlot}])

Holders(o)   == {s \in SharedSlot : shared[s] = o}
Observers(o) == {w \in WeakSlot : weak[w] = o}

\* The counts are exact: strong until the object expires, weak as long as the control
\* block exists, also while destructors run inside each other.
CountsExact ==
  /\ \A o \in Object \ bExpired : StrongRefCount[o] = Cardinality(Holders(o))
  /\ \A o \in Object : WeakRefCount[o] = Cardinality(Observers(o))

\* A slot whose Reset() waits for a destructor still points to the expired object.
Resetting(s) == \E i \in DOMAIN destructors : destructors[i].slot = s

\* Nobody can reach a destroyed object through a SharedPtr, or a deleted control block
\* through any pointer, and an object that is not expired has an owner.
NoDangling ==
  /\ \A s \in SharedSlot : shared[s] # NoObject /\ ~Resetting(s) =>
       shared[s] \in allocated \ bExpired
  /\ \A i \in DOMAIN destructors : destructors[i].object \notin freed
  /\ \A w \in WeakSlot : weak[w] # NoObject => weak[w] \in allocated \ freed
  /\ \A o \in allocated \ bExpired : Holders(o) # {}

\* The counts implement lifetimes: an object is destroyed once, when its last holder
\* lets go, and its control block is freed once, after everybody.
life ==
  [o \in Object |->
     CASE o \notin allocated -> "unborn"
       [] o \in freed -> "freed"
       [] o \in allocated \ bExpired -> "alive"
       [] o \in bExpired \ freed /\ (\E i \in DOMAIN destructors : destructors[i].object = o)
            -> "dying"
       [] OTHER -> "dead"]
holds == [s \in SharedSlot |-> IF Resetting(s) THEN NoObject ELSE shared[s]]

Lifetime == INSTANCE ObjectLifetime WITH refers <- weak

ImplementsLifetime == Lifetime!Spec

=============================================================================

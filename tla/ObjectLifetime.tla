---------------------------- MODULE ObjectLifetime ----------------------------
(****************************************************************************)
(* What SharedPtr and WeakPtr promise about an object: it lives as long as  *)
(* somebody holds it, is destroyed once when the last holder lets go, never *)
(* comes back, and its control block outlives everybody who refers to it.   *)
(****************************************************************************)
CONSTANTS Object, SharedSlot, WeakSlot, NoObject

VARIABLES
  life,    \* [Object -> "unborn", "alive", "dying", "dead" or "freed"]
  holds,   \* [SharedSlot -> the object it keeps alive, or NoObject]
  refers   \* [WeakSlot -> the object it refers to, or NoObject]

vars == <<life, holds, refers>>

Init ==
  /\ life = [o \in Object |-> "unborn"]
  /\ holds = [s \in SharedSlot |-> NoObject]
  /\ refers = [w \in WeakSlot |-> NoObject]

Held(o)     == \E s \in SharedSlot : holds[s] = o
Referred(o) == \E w \in WeakSlot : refers[w] = o

Create(s, o) ==
  /\ life[o] = "unborn" /\ holds[s] = NoObject
  /\ life' = [life EXCEPT ![o] = "alive"]
  /\ holds' = [holds EXCEPT ![s] = o]
  /\ UNCHANGED refers

\* A shared pointer changes: only an object that is alive can be gained, and an object
\* nobody holds any more starts to be destroyed.
SetShared(s, target) ==
  /\ target # NoObject => life[target] = "alive"
  /\ holds' = [holds EXCEPT ![s] = target]
  /\ life' = [o \in Object |->
                IF o = holds[s] /\ ~Held(o)' THEN "dying" ELSE life[o]]
  /\ UNCHANGED refers

\* Two pointers of a kind change places.
SwapShared(s, t) ==
  /\ holds' = [holds EXCEPT ![s] = holds[t], ![t] = holds[s]]
  /\ UNCHANGED <<life, refers>>

SwapWeak(w, v) ==
  /\ refers' = [refers EXCEPT ![w] = refers[v], ![v] = refers[w]]
  /\ UNCHANGED <<life, holds>>

\* A weak pointer changes: it may refer to anything that is not freed; the control
\* block of a dead object may be freed with the last reference.
SetWeak(w, target) ==
  /\ target # NoObject => life[target] \in {"alive", "dead"}
  /\ refers' = [refers EXCEPT ![w] = target]
  /\ life' \in {life} \union
       {[life EXCEPT ![o] = "freed"] :
          o \in {p \in Object : p = refers[w] /\ life[p] = "dead" /\ ~Referred(p)'}}
  /\ UNCHANGED holds

\* The destructor has run: the control block is freed, or left to the weak pointers.
Destroyed(o) ==
  /\ life[o] = "dying"
  /\ \/ ~Referred(o) /\ life' = [life EXCEPT ![o] = "freed"]
     \/ Referred(o) /\ life' = [life EXCEPT ![o] = "dead"]
  /\ UNCHANGED refers
  \* the pointer that was assigned to takes its new value
  /\ \/ UNCHANGED holds
     \/ \E s \in SharedSlot, t \in SharedSlot :
          /\ holds[s] = NoObject /\ holds[t] # NoObject
          /\ holds' = [holds EXCEPT ![s] = holds[t]]

Next ==
  \/ \E s \in SharedSlot, o \in Object : Create(s, o)
  \/ \E s \in SharedSlot, o \in Object \union {NoObject} : SetShared(s, o)
  \/ \E w \in WeakSlot, o \in Object \union {NoObject} : SetWeak(w, o)
  \/ \E s, t \in SharedSlot : SwapShared(s, t)
  \/ \E w, v \in WeakSlot : SwapWeak(w, v)
  \/ \E o \in Object : Destroyed(o)

Spec == Init /\ [][Next]_vars

=============================================================================

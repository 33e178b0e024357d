------------------------------- MODULE Allocator -------------------------------
(****************************************************************************)
(* What a memory pool promises: a place is handed out to one user at a time.*)
(****************************************************************************)
EXTENDS Integers

CONSTANT Place

VARIABLES
  live,  \* places in use
  users  \* how many users hold a place

Init == live = {} /\ users = 0

Allocate   == \E p \in Place \ live : live' = live \union {p} /\ users' = users + 1
Deallocate == \E p \in live : live' = live \ {p} /\ users' = users - 1

Next == Allocate \/ Deallocate

Spec == Init /\ [][Next]_<<live, users>>

=============================================================================

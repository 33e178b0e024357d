------------------------------- MODULE Memory -------------------------------
(****************************************************************************)
(* The memory of the server: shared pointers and memory pools.  The parts   *)
(* share no state, and part says which of them is running.                  *)
(****************************************************************************)
EXTENDS SharedCount, MemoryPool

VARIABLE part  \* "pointers" or "pools"

MemoryInit == Init /\ PoolInit /\ part \in {"pointers", "pools"}

MemoryNext ==
  \/ part = "pointers" /\ Next /\ UNCHANGED <<part, poolVars>>
  \/ part = "pools" /\ PoolNext /\ UNCHANGED <<part, vars>>

\* Types of the variables of both parts.
MemoryTypeOK == TypeOK /\ PoolTypeOK

MemorySpec == MemoryInit /\ [][MemoryNext]_<<part, vars, poolVars>>

=============================================================================

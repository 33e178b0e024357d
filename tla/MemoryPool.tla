------------------------------ MODULE MemoryPool ------------------------------
(****************************************************************************)
(* FlexibleFixedMemoryPool: chunks, each a FixedMemoryPool that keeps the   *)
(* free slots in mIndices from mCursor on.  Client and message blocks and   *)
(* the control blocks of SharedPtr come from such pools.                    *)
(*                                                                          *)
(* A chunk that does not exist yet is as its constructor will leave it.     *)
(* live and users are history: the slots in use, as pairs of chunkIdx and   *)
(* index, and the number of pointers handed out and not given back.         *)
(****************************************************************************)
EXTENDS Integers, FiniteSets

CONSTANTS
  CAPACITY,   \* slots of a chunk
  CHUNKS_MAX  \* bound on the chunks; the code only warns when there are many

ASSUME CapacityAssumption == CAPACITY \in Nat \ {0}
ASSUME ChunksAssumption   == CHUNKS_MAX \in Nat

VARIABLES
  size,          \* mChunks.size()
  mChunkCursor,
  mIndices,      \* [Chunk -> [Index -> Index]]
  mCursor,       \* [Chunk -> 0..CAPACITY]
  live, users

poolVars == <<size, mChunkCursor, mIndices, mCursor, live, users>>

Chunk == 0..(CHUNKS_MAX - 1)
Index == 0..(CAPACITY - 1)

PoolInit ==
  /\ size = 0 /\ mChunkCursor = 0
  /\ mIndices = [c \in Chunk |-> [i \in Index |-> i]]
  /\ mCursor = [c \in Chunk |-> 0]
  /\ live = {} /\ users = 0

IsCapacityFull(c) == mCursor[c] = CAPACITY

-----------------------------------------------------------------------------
\* FixedMemoryPool::Allocate for the chunk c.  (Mutant: the cursor stays.)
MutantKeepsCursor(c) ==
  /\ live' = live \union {<<c, mIndices[c][mCursor[c]]>>}
  /\ UNCHANGED mCursor

AllocateInChunk(c) ==
  /\ live' = live \union {<<c, mIndices[c][mCursor[c]]>>}
  /\ mCursor' = [mCursor EXCEPT ![c] = @ + 1]

\* FlexibleFixedMemoryPool::Allocate: the first chunk with space from mChunkCursor on,
\* or a new one.
Allocate ==
  \E c \in Chunk :
    /\ mChunkCursor <= c /\ c <= size
    /\ \A d \in Chunk : mChunkCursor <= d /\ d < c => IsCapacityFull(d)
    /\ c < size => ~IsCapacityFull(c)
    /\ mChunkCursor' = c
    /\ size' = IF c = size THEN size + 1 ELSE size
    /\ AllocateInChunk(c)
    /\ users' = users + 1
    /\ UNCHANGED mIndices

\* Deallocate of a slot that is in use.  (Mutants: the slot is not put back; the chunk
\* cursor does not go back.)
MutantLosesSlot(c, i) ==
  /\ <<c, i>> \in live
  /\ mChunkCursor' = IF c < mChunkCursor THEN c ELSE mChunkCursor
  /\ mCursor' = [mCursor EXCEPT ![c] = @ - 1]
  /\ live' = live \ {<<c, i>>} /\ users' = users - 1
  /\ UNCHANGED <<size, mIndices>>

MutantStaysBehind(c, i) ==
  /\ <<c, i>> \in live
  /\ mCursor' = [mCursor EXCEPT ![c] = @ - 1]
  /\ mIndices' = [mIndices EXCEPT ![c][mCursor[c] - 1] = i]
  /\ live' = live \ {<<c, i>>} /\ users' = users - 1
  /\ UNCHANGED <<size, mChunkCursor>>

Deallocate(c, i) ==
  /\ <<c, i>> \in live
  /\ mChunkCursor' = IF c < mChunkCursor THEN c ELSE mChunkCursor
  /\ mCursor' = [mCursor EXCEPT ![c] = @ - 1]
  /\ mIndices' = [mIndices EXCEPT ![c][mCursor[c] - 1] = i]
  /\ live' = live \ {<<c, i>>} /\ users' = users - 1
  /\ UNCHANGED size

PoolNext == Allocate \/ \E c \in Chunk, i \in Index : Deallocate(c, i)

PoolSpec == PoolInit /\ [][PoolNext]_poolVars

-----------------------------------------------------------------------------
(****************************************************************************)
(* Properties                                                               *)
(****************************************************************************)

\* Types; the cursor of a chunk is within its bounds, as Assert(mCursor != 0) demands.
PoolTypeOK ==
  /\ size \in 0..CHUNKS_MAX /\ mChunkCursor \in 0..size
  /\ mIndices \in [Chunk -> [Index -> Index]]
  /\ mCursor \in [Chunk -> 0..CAPACITY]
  /\ live \subseteq Chunk \X Index /\ users \in Nat

LiveIn(c) == {i \in Index : <<c, i>> \in live}

\* The free list of every chunk holds each slot that is not in use, and holds it once:
\* no slot is handed out twice, and none is lost, in whatever order slots come back.
FreeListExact ==
  \A c \in Chunk :
    /\ \A j \in mCursor[c]..(CAPACITY - 1) : mIndices[c][j] \notin LiveIn(c)
    /\ \A j, k \in mCursor[c]..(CAPACITY - 1) : mIndices[c][j] = mIndices[c][k] => j = k
    /\ \A i \in Index \ LiveIn(c) :
         \E j \in mCursor[c]..(CAPACITY - 1) : mIndices[c][j] = i

\* Every user has a slot of its own.
UsersHaveSlots == users = Cardinality(live)

\* mCursor counts the slots in use (GetUsed, which the leak reports rely on).
UsedIsExact == \A c \in Chunk : Cardinality(LiveIn(c)) = mCursor[c]

\* "Index of the first chunk among the chunks with empty space"
\* (FlexibleFixedMemoryPool.hpp:111): no chunk before it has any.
FirstWithSpace == \A c \in Chunk : c < mChunkCursor => IsCapacityFull(c)

\* A chunk is added only when no slot of any chunk is free.
GrowsWhenFull ==
  [][size' # size => \A c \in Chunk : c < size => LiveIn(c) = Index]_poolVars

\* The pool implements an allocator of places.
AbstractPool == INSTANCE Allocator WITH Place <- Chunk \X Index
ImplementsAllocator == AbstractPool!Spec

=============================================================================

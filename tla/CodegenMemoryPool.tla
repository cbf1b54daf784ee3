------------------------- MODULE CodegenMemoryPool -------------------------
(***************************************************************************)
(* GlobalCodegenMemoryPool (pochivm/global_codegen_memory_pool.h): the     *)
(* process-wide cache of memory chunks shared by all threads that generate *)
(* code.  The free list is a lock-free queue, and its length is tracked by *)
(* a separate atomic counter: every access to either is a step of its own, *)
(* so a thread may be overtaken between the queue operation and the        *)
(* counter update that accounts for it.                                    *)
(***************************************************************************)
EXTENDS Integers, FiniteSets

CONSTANTS
    Thread,                \* the threads calling the pool
    Chunk,                 \* the addresses mmap may return
    NoChunk,               \* no call is using the chunk register
    MaxChunksInMemoryPool  \* x_maxChunksInMemoryPool

ASSUME ThreadAssumption == IsFiniteSet(Thread)
ASSUME NoChunkAssumption == NoChunk \notin Chunk
ASSUME MaxAssumption == MaxChunksInMemoryPool \in Nat

VARIABLES
    m_freeList,                    \* the chunks in the queue
    m_freeListSizeApproximation,   \* the atomic counter
    mapped,                        \* the chunks mapped into the process
    owned,                         \* the chunks each thread holds
    pc,                            \* where each thread is in the pool's code
    chunk,                         \* the chunk its call has in hand
    aborted                        \* a ReleaseAssert ended the process

poolVars == << m_freeList, m_freeListSizeApproximation, mapped, owned,
               pc, chunk, aborted >>

Label == {"idle", "dequeue", "decrement", "mmap",
          "load", "enqueue", "increment", "munmap"}

At(label) == {t \in Thread : pc[t] = label}

Init ==
    /\ m_freeList = {}
    /\ m_freeListSizeApproximation = 0
    /\ mapped = {}
    /\ owned = [t \in Thread |-> {}]
    /\ pc = [t \in Thread |-> "idle"]
    /\ chunk = [t \in Thread |-> NoChunk]
    /\ aborted = FALSE

Goto(t, from, to) ==
    /\ ~aborted
    /\ pc[t] = from
    /\ pc' = [pc EXCEPT ![t] = to]

-----------------------------------------------------------------------------
(* GetMemoryChunk *)

CallGet(t) ==
    /\ Goto(t, "idle", "dequeue")
    /\ UNCHANGED << m_freeList, m_freeListSizeApproximation, mapped, owned,
                    chunk, aborted >>

\* mutant: the chunk is peeked at and left in the queue
TryDequeuePeeks(t, c) ==
    /\ c \in m_freeList
    /\ Goto(t, "dequeue", "decrement")
    /\ owned' = [owned EXCEPT ![t] = @ \cup {c}]
    /\ chunk' = [chunk EXCEPT ![t] = c]
    /\ UNCHANGED << m_freeList, m_freeListSizeApproximation, mapped, aborted >>

TryDequeue(t, c) ==
    /\ c \in m_freeList
    /\ Goto(t, "dequeue", "decrement")
    /\ m_freeList' = m_freeList \ {c}
    /\ owned' = [owned EXCEPT ![t] = @ \cup {c}]
    /\ chunk' = [chunk EXCEPT ![t] = c]
    /\ UNCHANGED << m_freeListSizeApproximation, mapped, aborted >>

\* The queue only promises that a failed try_dequeue found each producer's
\* stream empty when it looked at it: it may fail on a queue that never is.
TryDequeueFails(t) ==
    /\ Goto(t, "dequeue", "mmap")
    /\ UNCHANGED << m_freeList, m_freeListSizeApproximation, mapped, owned,
                    chunk, aborted >>

FetchSub(t) ==
    /\ Goto(t, "decrement", "idle")
    /\ m_freeListSizeApproximation' = m_freeListSizeApproximation - 1
    /\ chunk' = [chunk EXCEPT ![t] = NoChunk]
    /\ UNCHANGED << m_freeList, mapped, owned, aborted >>

Mmap(t, c) ==
    /\ c \in Chunk \ mapped
    /\ Goto(t, "mmap", "idle")
    /\ mapped' = mapped \cup {c}
    /\ owned' = [owned EXCEPT ![t] = @ \cup {c}]
    /\ UNCHANGED << m_freeList, m_freeListSizeApproximation, chunk, aborted >>

MmapFails(t) ==
    /\ ~aborted
    /\ pc[t] = "mmap"
    /\ aborted' = TRUE
    /\ UNCHANGED << m_freeList, m_freeListSizeApproximation, mapped, owned,
                    pc, chunk >>

-----------------------------------------------------------------------------
(* FreeMemoryChunk, called with a chunk the caller holds *)

CallFree(t, c) ==
    /\ c \in owned[t]
    /\ Goto(t, "idle", "load")
    /\ chunk' = [chunk EXCEPT ![t] = c]
    /\ UNCHANGED << m_freeList, m_freeListSizeApproximation, mapped, owned,
                    aborted >>

\* mutant: the limit is not looked at
HasRoomUnchecked == TRUE

HasRoom == m_freeListSizeApproximation <= MaxChunksInMemoryPool

LoadSize(t) ==
    /\ Goto(t, "load", IF HasRoom THEN "enqueue" ELSE "munmap")
    /\ UNCHANGED << m_freeList, m_freeListSizeApproximation, mapped, owned,
                    chunk, aborted >>

Enqueue(t) ==
    /\ Goto(t, "enqueue", "increment")
    /\ m_freeList' = m_freeList \cup {chunk[t]}
    /\ owned' = [owned EXCEPT ![t] = @ \ {chunk[t]}]
    /\ chunk' = [chunk EXCEPT ![t] = NoChunk]
    /\ UNCHANGED << m_freeListSizeApproximation, mapped, aborted >>

\* mutant: the counter is updated although the chunk was not enqueued
EnqueueFailsCounted(t) ==
    /\ Goto(t, "enqueue", "munmap")
    /\ m_freeListSizeApproximation' = m_freeListSizeApproximation + 1
    /\ UNCHANGED << m_freeList, mapped, owned, chunk, aborted >>

\* enqueue() returns false when it runs out of memory
EnqueueFails(t) ==
    /\ Goto(t, "enqueue", "munmap")
    /\ UNCHANGED << m_freeList, m_freeListSizeApproximation, mapped, owned,
                    chunk, aborted >>

FetchAdd(t) ==
    /\ Goto(t, "increment", "idle")
    /\ m_freeListSizeApproximation' = m_freeListSizeApproximation + 1
    /\ UNCHANGED << m_freeList, mapped, owned, chunk, aborted >>

\* A failing munmap is only warned about: the chunk stays mapped, but from
\* then on nobody holds it.
Munmap(t) ==
    /\ Goto(t, "munmap", "idle")
    /\ mapped' \in {mapped \ {chunk[t]}, mapped}
    /\ owned' = [owned EXCEPT ![t] = @ \ {chunk[t]}]
    /\ chunk' = [chunk EXCEPT ![t] = NoChunk]
    /\ UNCHANGED << m_freeList, m_freeListSizeApproximation, aborted >>

-----------------------------------------------------------------------------

\* The steps inside a call, in the thread's own program order
GetStep(t) ==
    \/ \E c \in Chunk : TryDequeue(t, c) \/ Mmap(t, c)
    \/ TryDequeueFails(t)
    \/ FetchSub(t)
    \/ MmapFails(t)

FreeStep(t) ==
    \/ LoadSize(t)
    \/ Enqueue(t)
    \/ EnqueueFails(t)
    \/ FetchAdd(t)
    \/ Munmap(t)

Call(t) == CallGet(t) \/ \E c \in Chunk : CallFree(t, c)

\* The process is gone and nothing moves any more
Dead == aborted /\ UNCHANGED poolVars

Next == Dead \/ \E t \in Thread : Call(t) \/ GetStep(t) \/ FreeStep(t)

Spec == Init /\ [][Next]_poolVars

-----------------------------------------------------------------------------

TypeOK ==
    /\ m_freeList \in SUBSET Chunk
    /\ IsFiniteSet(m_freeList)
    /\ m_freeListSizeApproximation \in Int
    /\ mapped \in SUBSET Chunk
    /\ owned \in [Thread -> SUBSET Chunk]
    /\ pc \in [Thread -> Label]
    /\ chunk \in [Thread -> Chunk \cup {NoChunk}]
    /\ aborted \in BOOLEAN

\* Two threads that race through the queue never end up with the same chunk,
\* nobody still holds a chunk another thread may dequeue, and every chunk
\* that can be used is mapped (GetMemoryChunk and FreeMemoryChunk).
ExclusiveOwnership ==
    /\ \A t, u \in Thread : t # u => owned[t] \cap owned[u] = {}
    /\ \A t \in Thread : owned[t] \cap m_freeList = {}
    /\ m_freeList \cup UNION {owned[t] : t \in Thread} \subseteq mapped

\* FreeMemoryChunk checks the counter before the queue operation and updates
\* it after: threads that checked together all enqueue.  The cache may exceed
\* its limit, but only by one chunk per thread.
FreeListBounded ==
    Cardinality(m_freeList) <= MaxChunksInMemoryPool + Cardinality(Thread)

\* The counter differs from the length of the queue exactly by the updates
\* that are still to come, so it is exact whenever the pool is at rest: no
\* interleaving makes it drift away, in either direction.
CounterTracksFreeList ==
    m_freeListSizeApproximation =
        Cardinality(m_freeList) + Cardinality(At("decrement"))
                                - Cardinality(At("increment"))

\* The pool implements the abstract allocator: seen from its clients, chunks
\* move only from nobody to a thread and from their holder to nobody.
Allocator == INSTANCE ChunkAllocator
AllocatorSpec == Allocator!Spec
=============================================================================

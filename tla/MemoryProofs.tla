------------------------------ MODULE MemoryProofs ------------------------------
(***************************************************************************)
(* First CodegenMemoryPool, for any finite set of threads, any set of      *)
(* chunks and any limit.  The inductive invariant IInv adds to the typing: *)
(* what the chunk in hand is at every label, and how many threads are      *)
(* between the check of the counter and the enqueue it allowed.            *)
(*                                                                         *)
(* Then TempArenaAllocator, for any chunk size that is a multiple of the   *)
(* page size, any alignments that divide a page and any sizes the code     *)
(* accepts.  A step of an arena is a step of the pool, so that what is     *)
(* proved of the pool holds of arenas; the inductive invariant ArenaIInv   *)
(* adds to the pool's one where an arena is in its calls, where its bump   *)
(* pointer is, and in which chunk each allocation lies.                    *)
(***************************************************************************)
EXTENDS TempArenaAllocator, FiniteSetTheorems, TLAPS

\* Inside a call, the chunk in hand belongs to the caller until it is given up
InHandIsOwned ==
    \A t \in Thread :
        pc[t] \in {"decrement", "load", "enqueue", "munmap"} =>
            /\ chunk[t] \in Chunk
            /\ chunk[t] \in owned[t]

\* Each thread that has checked the counter may still add one chunk
RoomIsPromised ==
    Cardinality(m_freeList) + Cardinality(At("enqueue"))
        <= MaxChunksInMemoryPool + Cardinality(Thread)

IInv ==
    /\ TypeOK
    /\ InHandIsOwned
    /\ ExclusiveOwnership
    /\ CounterTracksFreeList
    /\ RoomIsPromised

-----------------------------------------------------------------------------

\* The threads at a label are a finite set of at most as many as there are.
LEMMA AtIsFinite ==
    ASSUME NEW label
    PROVE  /\ IsFiniteSet(At(label))
           /\ Cardinality(At(label)) \in Nat
           /\ Cardinality(At(label)) <= Cardinality(Thread)
           /\ IsFiniteSet(Thread)
           /\ Cardinality(Thread) \in Nat
<1>1. At(label) \subseteq Thread
  BY DEF At
<1>2. IsFiniteSet(At(label)) /\ Cardinality(At(label)) <= Cardinality(Thread)
  BY <1>1, ThreadAssumption, FS_Subset
<1>3. QED
  BY <1>2, ThreadAssumption, FS_CardinalityType

\* A thread that moves leaves one label and enters another one: the numbers
\* of threads at the labels change accordingly.
LEMMA MoveCounts ==
    ASSUME TypeOK,
           NEW t \in Thread, NEW from \in Label, NEW to \in Label,
           from # to, Goto(t, from, to)
    PROVE  /\ Cardinality(At(from)') = Cardinality(At(from)) - 1
           /\ Cardinality(At(to)') = Cardinality(At(to)) + 1
           /\ \A label \in Label \ {from, to} : At(label)' = At(label)
           /\ Cardinality(At(from)) \in Nat
           /\ Cardinality(At(to)) \in Nat
           /\ pc' \in [Thread -> Label]
<1>1. /\ pc \in [Thread -> Label]
      /\ pc[t] = from
      /\ pc' = [pc EXCEPT ![t] = to]
  BY DEF TypeOK, Goto
<1>2. At(from)' = At(from) \ {t} /\ t \in At(from)
  BY <1>1 DEF At
<1>3. At(to)' = At(to) \cup {t} /\ t \notin At(to)
  BY <1>1 DEF At
<1>4. \A label \in Label \ {from, to} : At(label)' = At(label)
  BY <1>1 DEF At
<1>5. IsFiniteSet(At(from)) /\ IsFiniteSet(At(to))
  BY AtIsFinite
<1>6. Cardinality(At(from)') = Cardinality(At(from)) - 1
  BY <1>2, <1>5, FS_RemoveElement
<1>7. Cardinality(At(to)') = Cardinality(At(to)) + 1
  BY <1>3, <1>5, FS_AddElement
<1>8. QED
  BY <1>1, <1>4, <1>5, <1>6, <1>7, FS_CardinalityType

-----------------------------------------------------------------------------

\* The invariant holds when the pool is created.
THEOREM InitIInv == Init => IInv
<1> SUFFICES ASSUME Init PROVE IInv
  OBVIOUS
<1>1. IsFiniteSet(m_freeList) /\ Cardinality(m_freeList) = 0
  BY FS_EmptySet DEF Init
<1>2. TypeOK
  <2>1. owned \in [Thread -> SUBSET Chunk]
    BY DEF Init
  <2>2. pc \in [Thread -> Label]
    BY DEF Init, Label
  <2>3. chunk \in [Thread -> Chunk \cup {NoChunk}]
    BY DEF Init
  <2>4. /\ m_freeList \in SUBSET Chunk
        /\ m_freeListSizeApproximation \in Int
        /\ mapped \in SUBSET Chunk
    BY DEF Init
  <2>5. aborted \in BOOLEAN
    BY DEF Init
  <2>6. QED
    BY <1>1, <2>1, <2>2, <2>3, <2>4, <2>5 DEF TypeOK
<1>3. At("decrement") = {} /\ At("increment") = {} /\ At("enqueue") = {}
  BY DEF Init, At
<1>4. /\ Cardinality(At("decrement")) = 0
      /\ Cardinality(At("increment")) = 0
      /\ Cardinality(At("enqueue")) = 0
  BY <1>3, FS_EmptySet
<1>5. CounterTracksFreeList
  BY <1>1, <1>4 DEF Init, CounterTracksFreeList
<1>6. RoomIsPromised
  BY <1>1, <1>4, MaxAssumption, AtIsFinite DEF RoomIsPromised
<1>7. InHandIsOwned /\ ExclusiveOwnership
  BY DEF Init, InHandIsOwned, ExclusiveOwnership
<1>8. QED
  BY <1>2, <1>5, <1>6, <1>7 DEF IInv

\* Any step of a thread, as one formula
Step(t) == Call(t) \/ GetStep(t) \/ FreeStep(t)

\* The typing is preserved.
LEMMA TypeStep ==
    ASSUME IInv, NEW t \in Thread, Step(t)
    PROVE  TypeOK'
<1> USE DEF IInv, TypeOK
<1>1. pc' \in [Thread -> Label]
  <2>1. \A from, to \in Label : Goto(t, from, to) => pc' \in [Thread -> Label]
    BY DEF Goto
  <2>2. pc' = pc \/ \E from, to \in Label : Goto(t, from, to)
    BY DEF Step, Call, GetStep, FreeStep, CallGet, CallFree, TryDequeue,
           TryDequeueFails, FetchSub, Mmap, MmapFails, LoadSize, Enqueue,
           EnqueueFails, FetchAdd, Munmap, Label
  <2>3. QED
    BY <2>1, <2>2
<1>2. CASE CallGet(t)
  BY <1>1, <1>2 DEF CallGet
<1>3. ASSUME NEW c \in Chunk, CallFree(t, c) PROVE TypeOK'
  BY <1>1, <1>3 DEF CallFree
<1>4. ASSUME NEW c \in Chunk, TryDequeue(t, c) PROVE TypeOK'
  <2>1. IsFiniteSet(m_freeList')
    BY <1>4, FS_RemoveElement DEF TryDequeue
  <2>2. QED
    BY <1>1, <1>4, <2>1 DEF TryDequeue
<1>5. ASSUME NEW c \in Chunk, Mmap(t, c) PROVE TypeOK'
  BY <1>1, <1>5 DEF Mmap
<1>6. CASE TryDequeueFails(t)
  BY <1>1, <1>6 DEF TryDequeueFails
<1>7. CASE FetchSub(t)
  BY <1>1, <1>7 DEF FetchSub
<1>8. CASE MmapFails(t)
  BY <1>8 DEF MmapFails
<1>9. CASE LoadSize(t)
  BY <1>1, <1>9 DEF LoadSize
<1>10. CASE Enqueue(t)
  <2>1. pc[t] = "enqueue" /\ chunk[t] \in Chunk
    BY <1>10 DEF Enqueue, Goto, InHandIsOwned
  <2>2. IsFiniteSet(m_freeList')
    BY <1>10, FS_AddElement DEF Enqueue
  <2>3. QED
    BY <1>1, <1>10, <2>1, <2>2 DEF Enqueue
<1>11. CASE EnqueueFails(t)
  BY <1>1, <1>11 DEF EnqueueFails
<1>12. CASE FetchAdd(t)
  BY <1>1, <1>12 DEF FetchAdd
<1>13. CASE Munmap(t)
  BY <1>1, <1>13 DEF Munmap
<1>14. QED
  BY <1>2, <1>3, <1>4, <1>5, <1>6, <1>7, <1>8, <1>9, <1>10, <1>11, <1>12,
     <1>13 DEF Step, Call, GetStep, FreeStep

\* Who holds what: chunks change hands only through the queue.
LEMMA OwnershipStep ==
    ASSUME IInv, NEW t \in Thread, Step(t)
    PROVE  InHandIsOwned' /\ ExclusiveOwnership'
<1> USE DEF IInv, TypeOK, InHandIsOwned, ExclusiveOwnership, Goto
<1>1. CASE CallGet(t)
  BY <1>1 DEF CallGet
<1>2. ASSUME NEW c \in Chunk, CallFree(t, c)
      PROVE  InHandIsOwned' /\ ExclusiveOwnership'
  BY <1>2 DEF CallFree
<1>3. ASSUME NEW c \in Chunk, TryDequeue(t, c)
      PROVE  InHandIsOwned' /\ ExclusiveOwnership'
  <2>1. InHandIsOwned'
    BY <1>3 DEF TryDequeue
  <2>2. ExclusiveOwnership'
    BY <1>3 DEF TryDequeue
  <2>3. QED
    BY <2>1, <2>2
<1>4. ASSUME NEW c \in Chunk, Mmap(t, c)
      PROVE  InHandIsOwned' /\ ExclusiveOwnership'
  <2>1. InHandIsOwned'
    BY <1>4 DEF Mmap
  <2>2. c \notin m_freeList /\ \A u \in Thread : c \notin owned[u]
    BY <1>4 DEF Mmap
  <2>3. ExclusiveOwnership'
    BY <1>4, <2>2 DEF Mmap
  <2>4. QED
    BY <2>1, <2>3
<1>5. CASE TryDequeueFails(t)
  BY <1>5 DEF TryDequeueFails
<1>6. CASE FetchSub(t)
  BY <1>6 DEF FetchSub
<1>7. CASE MmapFails(t)
  BY <1>7 DEF MmapFails
<1>8. CASE LoadSize(t)
  BY <1>8 DEF LoadSize
<1>9. CASE Enqueue(t)
  <2>1. \A u \in Thread : u # t => chunk[t] \notin owned[u]
    BY <1>9 DEF Enqueue
  <2>2. InHandIsOwned'
    BY <1>9 DEF Enqueue
  <2>3. ExclusiveOwnership'
    BY <1>9, <2>1 DEF Enqueue
  <2>4. QED
    BY <2>2, <2>3
<1>10. CASE EnqueueFails(t)
  BY <1>10 DEF EnqueueFails
<1>11. CASE FetchAdd(t)
  BY <1>11 DEF FetchAdd
<1>12. CASE Munmap(t)
  <2>1. chunk[t] \notin m_freeList
        /\ \A u \in Thread : u # t => chunk[t] \notin owned[u]
    BY <1>12 DEF Munmap
  <2>2. InHandIsOwned'
    BY <1>12 DEF Munmap
  <2>3. ExclusiveOwnership'
    BY <1>12, <2>1 DEF Munmap
  <2>4. QED
    BY <2>2, <2>3
<1>13. QED
  BY <1>1, <1>2, <1>3, <1>4, <1>5, <1>6, <1>7, <1>8, <1>9, <1>10, <1>11,
     <1>12 DEF Step, Call, GetStep, FreeStep

\* A step that leaves the queue and the counter alone, and does not move a
\* thread to or away from a counted label.
LEMMA QuietMove ==
    ASSUME IInv,
           NEW t \in Thread, NEW from \in Label, NEW to \in Label,
           from # to, Goto(t, from, to),
           {from, to} \cap {"decrement", "increment", "enqueue"} = {},
           UNCHANGED << m_freeList, m_freeListSizeApproximation >>
    PROVE  CounterTracksFreeList' /\ RoomIsPromised'
<1>1. \A label \in {"decrement", "increment", "enqueue"} :
         At(label)' = At(label)
  <2>1. \A label \in Label \ {from, to} : At(label)' = At(label)
    BY MoveCounts DEF IInv
  <2>2. {"decrement", "increment", "enqueue"} \subseteq Label \ {from, to}
    BY DEF Label
  <2>3. QED
    BY <2>1, <2>2
<1>2. QED
  BY <1>1 DEF IInv, CounterTracksFreeList, RoomIsPromised

\* The counter and the room promised to the threads that have checked it:
\* the steps that leave both the queue and the counter alone.
LEMMA QuietStepCounts ==
    ASSUME IInv, NEW t \in Thread,
           \/ CallGet(t) \/ TryDequeueFails(t) \/ MmapFails(t)
           \/ \E c \in Chunk : CallFree(t, c) \/ Mmap(t, c)
           \/ Munmap(t)
    PROVE  CounterTracksFreeList' /\ RoomIsPromised'
<1>1. CASE MmapFails(t)
  BY <1>1 DEF MmapFails, At, IInv, CounterTracksFreeList, RoomIsPromised
<1>2. CASE CallGet(t)
  BY <1>2, QuietMove DEF CallGet, Label
<1>3. CASE TryDequeueFails(t)
  BY <1>3, QuietMove DEF TryDequeueFails, Label
<1>4. CASE \E c \in Chunk : CallFree(t, c)
  BY <1>4, QuietMove DEF CallFree, Label
<1>5. CASE \E c \in Chunk : Mmap(t, c)
  BY <1>5, QuietMove DEF Mmap, Label
<1>6. CASE Munmap(t)
  BY <1>6, QuietMove DEF Munmap, Label
<1>7. QED
  BY <1>1, <1>2, <1>3, <1>4, <1>5, <1>6

\* ... and the steps that move a thread between the queue and the counter.
LEMMA CountedStepCounts ==
    ASSUME IInv, NEW t \in Thread,
           \/ \E c \in Chunk : TryDequeue(t, c)
           \/ FetchSub(t) \/ LoadSize(t)
           \/ Enqueue(t) \/ EnqueueFails(t) \/ FetchAdd(t)
    PROVE  CounterTracksFreeList' /\ RoomIsPromised'
<1> DEFINE free == Cardinality(m_freeList)
           dec == Cardinality(At("decrement"))
           inc == Cardinality(At("increment"))
           enq == Cardinality(At("enqueue"))
           threads == Cardinality(Thread)
<1> free \in Nat /\ dec \in Nat /\ inc \in Nat /\ enq \in Nat
    /\ threads \in Nat /\ MaxChunksInMemoryPool \in Nat
    /\ m_freeListSizeApproximation \in Int
  BY AtIsFinite, FS_CardinalityType, MaxAssumption DEF IInv, TypeOK
<1> /\ m_freeListSizeApproximation = free + dec - inc
    /\ free + enq <= MaxChunksInMemoryPool + threads
  BY DEF IInv, CounterTracksFreeList, RoomIsPromised
<1> SUFFICES /\ m_freeListSizeApproximation' = free' + dec' - inc'
             /\ free' + enq' <= MaxChunksInMemoryPool + threads
  BY DEF CounterTracksFreeList, RoomIsPromised
<1> HIDE DEF free, dec, inc, enq, threads
<1>1. ASSUME NEW c \in Chunk, TryDequeue(t, c)
      PROVE  /\ m_freeListSizeApproximation' = free' + dec' - inc'
             /\ free' + enq' <= MaxChunksInMemoryPool + threads
  <2>1. Goto(t, "dequeue", "decrement")
    BY <1>1 DEF TryDequeue
  <2>2. dec' = dec + 1 /\ inc' = inc /\ enq' = enq
    BY <2>1, MoveCounts DEF IInv, Label, dec, inc, enq
  <2>3. free' = free - 1
    BY <1>1, FS_RemoveElement DEF TryDequeue, IInv, TypeOK, free
  <2>4. UNCHANGED m_freeListSizeApproximation
    BY <1>1 DEF TryDequeue
  <2>5. QED
    BY <2>2, <2>3, <2>4
<1>2. CASE FetchSub(t)
  <2>1. Goto(t, "decrement", "idle")
    BY <1>2 DEF FetchSub
  <2>2. dec' = dec - 1 /\ inc' = inc /\ enq' = enq
    BY <2>1, MoveCounts DEF IInv, Label, dec, inc, enq
  <2>3. /\ free' = free
        /\ m_freeListSizeApproximation' = m_freeListSizeApproximation - 1
    BY <1>2 DEF FetchSub, free
  <2>4. QED
    BY <2>2, <2>3
<1>3. CASE LoadSize(t) /\ HasRoom
  <2>1. Goto(t, "load", "enqueue")
    BY <1>3 DEF LoadSize
  <2>2. dec' = dec /\ inc' = inc /\ enq' = enq + 1
    BY <2>1, MoveCounts DEF IInv, Label, dec, inc, enq
  <2>3. free' = free /\ UNCHANGED m_freeListSizeApproximation
    BY <1>3 DEF LoadSize, free
  \* the thread itself, those that promised and those that have yet to count
  \* are different threads: there is room for one chunk more
  <2>4. inc + enq + 1 <= threads
    <3> DEFINE busy == At("increment") \cup At("enqueue")
    <3>1. t \in Thread \ busy
      BY <2>1 DEF Goto, At
    <3>2. busy \cup {t} \subseteq Thread
      BY DEF At
    <3>3. IsFiniteSet(busy) /\ Cardinality(busy) = inc + enq
      <4>1. At("increment") \cap At("enqueue") = {}
        BY DEF At
      <4>2. IsFiniteSet(At("increment")) /\ IsFiniteSet(At("enqueue"))
        BY AtIsFinite
      <4>3. /\ IsFiniteSet(busy)
            /\ Cardinality(busy) =
                 Cardinality(At("increment")) + Cardinality(At("enqueue"))
                 - Cardinality(At("increment") \cap At("enqueue"))
        BY <4>2, FS_Union
      <4>4. Cardinality(At("increment") \cap At("enqueue")) = 0
        BY <4>1, FS_EmptySet
      <4>5. Cardinality(busy) = Cardinality(At("increment"))
                                + Cardinality(At("enqueue"))
        BY <4>3, <4>4, AtIsFinite
      <4>6. QED
        BY <4>3, <4>5 DEF inc, enq
    <3>4. Cardinality(busy \cup {t}) = inc + enq + 1
      BY <3>1, <3>3, FS_AddElement
    <3>5. QED
      BY <3>2, <3>4, ThreadAssumption, FS_Subset DEF threads
  <2>5. QED
    BY <1>3, <2>2, <2>3, <2>4 DEF HasRoom
<1>4. CASE LoadSize(t) /\ ~HasRoom
  <2>1. Goto(t, "load", "munmap")
    BY <1>4 DEF LoadSize
  <2>2. dec' = dec /\ inc' = inc /\ enq' = enq
    BY <2>1, MoveCounts DEF IInv, Label, dec, inc, enq
  <2>3. free' = free /\ UNCHANGED m_freeListSizeApproximation
    BY <1>4 DEF LoadSize, free
  <2>4. QED
    BY <2>2, <2>3
<1>5. CASE Enqueue(t)
  <2>1. Goto(t, "enqueue", "increment")
    BY <1>5 DEF Enqueue
  <2>2. dec' = dec /\ inc' = inc + 1 /\ enq' = enq - 1
    BY <2>1, MoveCounts DEF IInv, Label, dec, inc, enq
  <2>3. chunk[t] \notin m_freeList
    BY <2>1 DEF Goto, IInv, InHandIsOwned, ExclusiveOwnership
  <2>4. free' = free + 1
    BY <1>5, <2>3, FS_AddElement DEF Enqueue, IInv, TypeOK, free
  <2>5. UNCHANGED m_freeListSizeApproximation
    BY <1>5 DEF Enqueue
  <2>6. QED
    BY <2>2, <2>4, <2>5
<1>6. CASE EnqueueFails(t)
  <2>1. Goto(t, "enqueue", "munmap")
    BY <1>6 DEF EnqueueFails
  <2>2. dec' = dec /\ inc' = inc /\ enq' = enq - 1
    BY <2>1, MoveCounts DEF IInv, Label, dec, inc, enq
  <2>3. free' = free /\ UNCHANGED m_freeListSizeApproximation
    BY <1>6 DEF EnqueueFails, free
  <2>4. QED
    BY <2>2, <2>3
<1>7. CASE FetchAdd(t)
  <2>1. Goto(t, "increment", "idle")
    BY <1>7 DEF FetchAdd
  <2>2. dec' = dec /\ inc' = inc - 1 /\ enq' = enq
    BY <2>1, MoveCounts DEF IInv, Label, dec, inc, enq
  <2>3. /\ free' = free
        /\ m_freeListSizeApproximation' = m_freeListSizeApproximation + 1
    BY <1>7 DEF FetchAdd, free
  <2>4. QED
    BY <2>2, <2>3
<1>8. QED
  BY <1>1, <1>2, <1>3, <1>4, <1>5, <1>6, <1>7

-----------------------------------------------------------------------------

\* The invariant is inductive: every step of every thread preserves it.
THEOREM StepIInv == IInv /\ [Next]_poolVars => IInv'
<1> SUFFICES ASSUME IInv, [Next]_poolVars PROVE IInv'
  OBVIOUS
<1>1. CASE UNCHANGED poolVars
  BY <1>1 DEF IInv, TypeOK, InHandIsOwned, ExclusiveOwnership,
     CounterTracksFreeList, RoomIsPromised, At, poolVars
<1>2. ASSUME NEW t \in Thread, Step(t)
      PROVE  IInv'
  <2>1. TypeOK' /\ InHandIsOwned' /\ ExclusiveOwnership'
    BY <1>2, TypeStep, OwnershipStep
  <2>2. CounterTracksFreeList' /\ RoomIsPromised'
    BY <1>2, QuietStepCounts, CountedStepCounts
       DEF Step, Call, GetStep, FreeStep
  <2>3. QED
    BY <2>1, <2>2 DEF IInv
<1>3. QED
  BY <1>1, <1>2 DEF Next, Dead, Step

\* The inductive invariant holds in every reachable state of the pool, for
\* every set of threads, set of chunks and limit.
THEOREM Invariance == Spec => []IInv
BY InitIInv, StepIInv, PTL DEF Spec

\* The state of the pool is always well-typed (GlobalCodegenMemoryPool).
THEOREM TypeCorrect == Spec => []TypeOK
<1>1. IInv => TypeOK
  BY DEF IInv
<1>2. QED
  BY <1>1, Invariance, PTL

\* No chunk is ever held by two threads, or held and free at once
\* (GetMemoryChunk, FreeMemoryChunk).
THEOREM Ownership == Spec => []ExclusiveOwnership
<1>1. IInv => ExclusiveOwnership
  BY DEF IInv
<1>2. QED
  BY <1>1, Invariance, PTL

\* The counter never drifts from the length of the queue by more than the
\* updates in flight.
THEOREM CounterExact == Spec => []CounterTracksFreeList
<1>1. IInv => CounterTracksFreeList
  BY DEF IInv
<1>2. QED
  BY <1>1, Invariance, PTL

\* The cache exceeds its limit by at most one chunk per thread, for any
\* number of threads: the check and the enqueue are not atomic, but a thread
\* that passes the check finds room left by those that have yet to count.
THEOREM Bounded == Spec => []FreeListBounded
<1>1. IInv => FreeListBounded
  <2> SUFFICES ASSUME IInv PROVE FreeListBounded
    OBVIOUS
  <2>1. Cardinality(m_freeList) \in Nat
    BY FS_CardinalityType DEF IInv, TypeOK
  <2>2. QED
    BY <2>1, AtIsFinite, MaxAssumption
       DEF IInv, RoomIsPromised, FreeListBounded
<1>2. QED
  BY <1>1, Invariance, PTL

-----------------------------------------------------------------------------

\* The pool implements the abstract allocator: whatever the interleaving, a
\* chunk handed out was held by nobody, and one given up was the caller's.
THEOREM Implements == Spec => AllocatorSpec
<1>1. Init => Allocator!Init
  BY DEF Init, Allocator!Init
<1>2. ASSUME IInv, [Next]_poolVars
      PROVE  [Allocator!Next]_owned
  <2>1. CASE UNCHANGED poolVars
    BY <2>1 DEF poolVars
  <2>2. ASSUME NEW t \in Thread, NEW c \in Chunk, TryDequeue(t, c)
        PROVE  Allocator!Acquire(t, c)
    BY <1>2, <2>2 DEF TryDequeue, Allocator!Acquire, Allocator!Held, IInv,
       ExclusiveOwnership
  <2>3. ASSUME NEW t \in Thread, NEW c \in Chunk, Mmap(t, c)
        PROVE  Allocator!Acquire(t, c)
    BY <1>2, <2>3 DEF Mmap, Allocator!Acquire, Allocator!Held, IInv,
       ExclusiveOwnership
  <2>4. ASSUME NEW t \in Thread, Enqueue(t) \/ Munmap(t)
        PROVE  chunk[t] \in Chunk /\ Allocator!Release(t, chunk[t])
    BY <1>2, <2>4 DEF Enqueue, Munmap, Goto, Allocator!Release, IInv,
       InHandIsOwned
  <2>5. ASSUME NEW t \in Thread,
               \/ CallGet(t) \/ (\E c \in Chunk : CallFree(t, c))
               \/ TryDequeueFails(t) \/ FetchSub(t) \/ MmapFails(t)
               \/ LoadSize(t) \/ EnqueueFails(t) \/ FetchAdd(t)
        PROVE  UNCHANGED owned
    BY <2>5 DEF CallGet, CallFree, TryDequeueFails, FetchSub, MmapFails,
       LoadSize, EnqueueFails, FetchAdd
  <2>6. QED
    BY <1>2, <2>1, <2>2, <2>3, <2>4, <2>5
       DEF Next, Dead, Call, GetStep, FreeStep, Allocator!Next
<1>3. QED
  BY <1>1, <1>2, Invariance, PTL DEF Spec, AllocatorSpec, Allocator!Spec

-----------------------------------------------------------------------------

GetLabels == {"dequeue", "decrement", "mmap"}
FreeLabels == {"load", "enqueue", "munmap", "increment"}

\* The chunks the list of the arena should hold
Listed(t) == owned[t] \ InHand(t)

ListIsRight(t) ==
    /\ InHand(t) \subseteq owned[t]
    /\ ListHolds(link, FirstToFree(t), Listed(t))

\* A thread is inside GetMemoryChunk exactly while a request waits, and inside
\* FreeMemoryChunk only from FreeAllMemoryChunks, with the head of its list.
CallsNest(t) ==
    /\ request[t] # NoRequest <=> pc[t] \in GetLabels
    /\ pc[t] \in FreeLabels => resetting[t]
    /\ resetting[t] => request[t] = NoRequest /\ allocations[t] = << >>
    /\ pc[t] \in FreeLabels \ {"increment"} => chunk[t] = m_listHead[t]

\* Between two resets the arena fills the chunk at the head of its list
BumpPointerInHead(t) ==
    ~resetting[t] =>
        \/ /\ m_listHead[t] = Null
           /\ m_currentAddress[t] = 1
           /\ m_currentAddressEnd[t] = 0
        \/ /\ m_listHead[t] # Null
           /\ m_currentAddressEnd[t] = Base(m_listHead[t]) + ChunkWords
           /\ FirstAddress(m_listHead[t]) <= m_currentAddress[t]
           /\ m_currentAddress[t] <= m_currentAddressEnd[t]

End(allocation) == allocation[1] + allocation[2]

\* The allocation lies in the chunk, behind the word that holds the list
LiesIn(allocation, c) ==
    FirstAddress(c) <= allocation[1] /\ End(allocation) <= Base(c) + ChunkWords

\* Every allocation lies in a chunk of the list, and in the chunk at its head
\* before the bump pointer.
AllocationsPlaced(t) ==
    \A i \in DOMAIN allocations[t] : \E c \in Listed(t) :
        /\ LiesIn(allocations[t][i], c)
        /\ c = m_listHead[t] => End(allocations[t][i]) <= m_currentAddress[t]

\* Two allocations of one arena share no word
AllocationsApart(t) ==
    \A i, j \in DOMAIN allocations[t] :
        i # j => Words(allocations[t][i]) \cap Words(allocations[t][j]) = {}

\* Every allocation has the alignment it was asked for with
Aligned(t) ==
    \A i \in DOMAIN allocations[t] :
        allocations[t][i][1] % allocations[t][i][3] = 0

ThreadInv(t) ==
    /\ IsFiniteSet(owned[t])
    /\ CallsNest(t)
    /\ ListIsRight(t)
    /\ BumpPointerInHead(t)
    /\ AllocationsPlaced(t)
    /\ AllocationsApart(t)
    /\ Aligned(t)

ArenaIInv ==
    /\ IInv
    /\ ArenaTypeOK
    /\ \A t \in Thread : ThreadInv(t)

-----------------------------------------------------------------------------
(* Addresses *)

\* Aligning an address upwards moves it by less than the alignment, to a
\* multiple of it.
LEMMA AlignUpBounds ==
    ASSUME NEW x \in Nat, NEW a \in Nat \ {0}
    PROVE  /\ AlignUp(x, a) \in Nat
           /\ x <= AlignUp(x, a)
           /\ AlignUp(x, a) <= x + a - 1
           /\ AlignUp(x, a) % a = 0
<1> DEFINE n == x + a - 1
<1>1. n \in Nat
  OBVIOUS
<1>2. n \div a \in Nat /\ n % a \in 0 .. a - 1 /\ n = a * (n \div a) + (n % a)
  BY <1>1
<1>3. (n \div a) * a = a * (n \div a)
  BY <1>2
<1>4. ASSUME NEW k \in Nat PROVE (k * a) % a = 0
  <2> DEFINE m == k * a
  <2>1. m \in Nat /\ m % a \in 0 .. a - 1 /\ m \div a \in Nat
        /\ m = a * (m \div a) + (m % a)
    OBVIOUS
  <2>2. a * (k - (m \div a)) = m % a
    BY <2>1
  <2>3. k - (m \div a) = 0
    BY <2>1, <2>2, SMTT(30)
  <2>4. QED
    BY <2>2, <2>3
<1>5. AlignUp(x, a) % a = 0
  BY <1>2, <1>4 DEF AlignUp
<1>6. QED
  BY <1>1, <1>2, <1>3, <1>5 DEF AlignUp

\* An alignment is at most a page, the chunk addresses are natural numbers.
LEMMA WordTypes ==
    /\ ChunkWords \in Nat /\ PageWords \in Nat /\ ChunkWords > PageWords
    /\ \A a \in Alignments : a \in Nat \ {0} /\ a <= PageWords
    /\ \A s \in Sizes : s \in Nat /\ s <= ChunkWords - PageWords
    /\ \A c \in Chunk : c \in Nat \ {0} /\ Base(c) \in Nat
    /\ Null \notin Chunk
<1>1. ASSUME NEW a \in Alignments PROVE a \in Nat \ {0} /\ a <= PageWords
  <2>1. a \in Nat \ {0} /\ PageWords \in Nat \ {0} /\ PageWords % a = 0
    BY WordsAssumption
  <2>2. ASSUME a > PageWords PROVE FALSE
    BY <2>1, <2>2
  <2>3. QED
    BY <2>1, <2>2
<1>2. ASSUME NEW s \in Sizes PROVE s \in Nat /\ s <= ChunkWords - PageWords
  BY WordsAssumption
<1>3. ASSUME NEW c \in Chunk PROVE c \in Nat \ {0} /\ Base(c) \in Nat
  BY ChunkAssumption, WordsAssumption DEF Base
<1>4. QED
  BY <1>1, <1>2, <1>3, ChunkAssumption, WordsAssumption DEF Null

\* Different chunks do not overlap.
LEMMA ChunksApart ==
    ASSUME NEW c \in Chunk, NEW d \in Chunk, c # d
    PROVE  Base(c) + ChunkWords <= Base(d) \/ Base(d) + ChunkWords <= Base(c)
<1>1. c \in Nat /\ d \in Nat /\ ChunkWords \in Nat
  BY WordTypes
<1>2. ASSUME NEW m \in Nat, NEW n \in Nat, m < n
      PROVE  m * ChunkWords + ChunkWords <= n * ChunkWords
  <2>1. PICK k \in Nat : n = m + 1 + k
    BY <1>2
  <2>2. n * ChunkWords = m * ChunkWords + ChunkWords + k * ChunkWords
    BY <1>1, <2>1
  <2>3. k * ChunkWords \in Nat /\ m * ChunkWords \in Nat
    BY <1>1
  <2>4. QED
    BY <1>1, <2>2, <2>3
<1>3. c < d \/ d < c
  BY <1>1
<1>4. QED
  BY <1>1, <1>2, <1>3 DEF Base

\* Any request fits into an empty chunk: the alignment costs at most a page.
LEMMA FitsIntoNewChunk ==
    ASSUME NEW c \in Chunk, NEW a \in Alignments, NEW s \in Sizes
    PROVE  /\ AlignUp(FirstAddress(c), a) \in Nat
           /\ FirstAddress(c) <= AlignUp(FirstAddress(c), a)
           /\ AlignUp(FirstAddress(c), a) + s <= Base(c) + ChunkWords
           /\ AlignUp(FirstAddress(c), a) % a = 0
<1>1. a \in Nat \ {0} /\ a <= PageWords /\ s \in Nat
      /\ s <= ChunkWords - PageWords /\ Base(c) \in Nat
      /\ ChunkWords \in Nat /\ PageWords \in Nat
  BY WordTypes
<1>2. FirstAddress(c) \in Nat /\ FirstAddress(c) = Base(c) + 1
  BY <1>1 DEF FirstAddress
<1>3. /\ AlignUp(FirstAddress(c), a) \in Nat
      /\ FirstAddress(c) <= AlignUp(FirstAddress(c), a)
      /\ AlignUp(FirstAddress(c), a) <= FirstAddress(c) + a - 1
      /\ AlignUp(FirstAddress(c), a) % a = 0
  BY <1>1, <1>2, AlignUpBounds
<1>4. QED
  BY <1>1, <1>2, <1>3

\* Two pieces of memory of which one ends where the other begins, or before
LEMMA WordsApart ==
    ASSUME NEW x, x[1] \in Nat, x[2] \in Nat,
           NEW y, y[1] \in Nat, y[2] \in Nat,
           x[1] + x[2] <= y[1]
    PROVE  Words(x) \cap Words(y) = {} /\ Words(y) \cap Words(x) = {}
BY DEF Words

-----------------------------------------------------------------------------
(* The list *)

\* A change of links outside the list does not touch it.
LEMMA ListUntouched ==
    ASSUME NEW links, NEW other, NEW S, NEW head,
           ListHolds(links, head, S),
           \A c \in S : other[c] = links[c]
    PROVE  ListHolds(other, head, S)
BY DEF ListHolds

\* The null pointer is the empty list, and no other one.
LEMMA ListEmpty ==
    ASSUME NEW links, NEW S, Null \notin S
    PROVE  /\ ListHolds(links, Null, {})
           /\ ListHolds(links, Null, S) => S = {}
<1>1. ListHolds(links, Null, S) => S = {}
  BY DEF ListHolds
<1>2. ListHolds(links, Null, {})
  <2> DEFINE left == [c \in {} |-> 1]
  <2>1. left \in [{} -> 1 .. Cardinality({})]
    OBVIOUS
  <2>2. QED
    BY <2>1 DEF ListHolds
<1>3. QED
  BY <1>1, <1>2

\* A chunk put in front of the list (GetNewMemoryChunk).
LEMMA ListPush ==
    ASSUME NEW links, NEW S, IsFiniteSet(S), NEW head, NEW c, c \notin S,
           Null \notin S,
           ListHolds(links, head, S),
           NEW other,
           \A d \in S : other[d] = links[d],
           other[c] = head
    PROVE  ListHolds(other, c, S \cup {c})
<1> DEFINE n == Cardinality(S)
           T == S \cup {c}
<1>1. n \in Nat /\ Cardinality(T) = n + 1
  BY FS_CardinalityType, FS_AddElement
<1>2. PICK left \in [S -> 1 .. n] :
        /\ \A d, e \in S : left[d] = left[e] => d = e
        /\ IF S = {} THEN head = Null ELSE head \in S /\ left[head] = n
        /\ \A d \in S : IF left[d] = 1 THEN links[d] = Null
                        ELSE links[d] \in S /\ left[links[d]] = left[d] - 1
  BY DEF ListHolds
<1> DEFINE more == [d \in T |-> IF d = c THEN n + 1 ELSE left[d]]
<1>3. more \in [T -> 1 .. n + 1]
  BY <1>1, <1>2
<1>4. \A d \in S : more[d] = left[d] /\ left[d] \in 1 .. n
  BY <1>2
<1>5. more[c] = n + 1
  OBVIOUS
<1> HIDE DEF more
<1>6. \A d, e \in T : more[d] = more[e] => d = e
  BY <1>1, <1>2, <1>4, <1>5
<1>7. \A d \in T : IF more[d] = 1 THEN other[d] = Null
                   ELSE other[d] \in T /\ more[other[d]] = more[d] - 1
  <2>1. ASSUME NEW d \in S
        PROVE  IF more[d] = 1 THEN other[d] = Null
               ELSE other[d] \in T /\ more[other[d]] = more[d] - 1
    BY <1>2, <1>4
  <2>2. n = 0 <=> S = {}
    BY FS_EmptySet
  <2>3. IF more[c] = 1 THEN other[c] = Null
        ELSE other[c] \in T /\ more[other[c]] = more[c] - 1
    BY <1>1, <1>2, <1>4, <1>5, <2>2
  <2>4. QED
    BY <2>1, <2>3
<1>8. c \in T /\ T # {} /\ more[c] = Cardinality(T)
  BY <1>1, <1>5
<1>9. more \in [T -> 1 .. Cardinality(T)]
  BY <1>1, <1>3
<1>10. QED
  BY <1>6, <1>7, <1>8, <1>9 DEF ListHolds

\* The head taken off the list (FreeAllMemoryChunks).
LEMMA ListPop ==
    ASSUME NEW links, NEW S, IsFiniteSet(S), NEW head, head # Null,
           ListHolds(links, head, S)
    PROVE  head \in S /\ ListHolds(links, links[head], S \ {head})
<1> DEFINE n == Cardinality(S)
           T == S \ {head}
<1>1. PICK left \in [S -> 1 .. n] :
        /\ \A d, e \in S : left[d] = left[e] => d = e
        /\ IF S = {} THEN head = Null ELSE head \in S /\ left[head] = n
        /\ \A d \in S : IF left[d] = 1 THEN links[d] = Null
                        ELSE links[d] \in S /\ left[links[d]] = left[d] - 1
  BY DEF ListHolds
<1>2. head \in S /\ left[head] = n
  BY <1>1
<1>3. n \in Nat /\ Cardinality(T) = n - 1 /\ IsFiniteSet(T)
  BY <1>2, FS_CardinalityType, FS_RemoveElement
<1>4. \A d \in T : left[d] \in 1 .. n - 1
  BY <1>1, <1>2, <1>3
<1> DEFINE less == [d \in T |-> left[d]]
<1>5. less \in [T -> 1 .. Cardinality(T)]
  BY <1>3, <1>4
<1>6. \A d \in T : less[d] = left[d]
  OBVIOUS
<1> HIDE DEF less
<1>7. \A d, e \in T : less[d] = less[e] => d = e
  BY <1>1, <1>6
<1>8. ASSUME NEW d \in S, left[d] # 1
      PROVE  links[d] \in T /\ left[links[d]] = left[d] - 1
  <2>1. links[d] \in S /\ left[links[d]] = left[d] - 1
    BY <1>1, <1>8
  <2>2. left[d] \in 1 .. n
    BY <1>1
  <2>3. left[links[d]] # n
    BY <1>3, <2>1, <2>2
  <2>4. QED
    BY <1>2, <2>1, <2>3
<1>9. \A d \in T : IF less[d] = 1 THEN links[d] = Null
                   ELSE links[d] \in T /\ less[links[d]] = less[d] - 1
  BY <1>1, <1>6, <1>8
<1>10. IF T = {} THEN links[head] = Null
       ELSE links[head] \in T /\ less[links[head]] = Cardinality(T)
  <2>1. CASE n = 1
    <3>1. T = {}
      BY <1>3, <2>1, FS_EmptySet
    <3>2. QED
      BY <1>1, <1>2, <2>1, <3>1
  <2>2. CASE n # 1
    BY <1>2, <1>3, <1>6, <1>8, <2>2
  <2>3. QED
    BY <2>1, <2>2
<1>11. ListHolds(links, links[head], T)
  BY <1>5, <1>7, <1>9, <1>10 DEF ListHolds
<1>12. QED
  BY <1>2, <1>11

-----------------------------------------------------------------------------
(* Steps *)

\* What a thread does to its arena
ArenaStep(t) == Allocate(t) \/ Reset(t) \/ InsideCall(t)

\* A step of an arena is a step of the pool, or leaves the pool alone.
LEMMA PoolPart ==
    ASSUME TypeOK, NEW t \in Thread, ArenaStep(t)
    PROVE  Step(t) \/ UNCHANGED poolVars
<1>1. CASE Allocate(t)
  BY <1>1 DEF Allocate, AllocateFromChunk, AllocateNeedsChunk, Step, Call
<1>2. CASE Reset(t)
  BY <1>2 DEF Reset
<1>3. CASE PoolStep(t)
  BY <1>3 DEF PoolStep, Step, GetStep, FreeStep
<1>4. CASE ChunkArrives(t)
  BY <1>4 DEF ChunkArrives, ChunkFromPool, ChunkFromSystem, Step, GetStep
<1>5. CASE FreeHead(t)
  BY <1>5 DEF FreeHead, CallFree, Step, Call, TypeOK
<1>6. CASE Advance(t)
  BY <1>6 DEF Advance, Step, FreeStep
<1>7. CASE ResetDone(t)
  BY <1>7 DEF ResetDone
<1>8. QED
  BY <1>1, <1>2, <1>3, <1>4, <1>5, <1>6, <1>7 DEF ArenaStep, InsideCall

\* The pool's invariant is preserved, because every step is one of the pool's.
LEMMA PoolInvStep ==
    ASSUME IInv, NEW t \in Thread, ArenaStep(t)
    PROVE  IInv'
<1>1. Step(t) \/ UNCHANGED poolVars
  BY PoolPart DEF IInv
<1>2. [Next]_poolVars
  BY <1>1 DEF Next, Step
<1>3. QED
  BY <1>2, StepIInv

\* A chunk that arrives is used for the request that waits.
LEMMA ArrivalMeansRequest ==
    ASSUME ArenaIInv, NEW t \in Thread, pc[t] \in GetLabels
    PROVE  /\ request[t] \in Alignments \X Sizes
           /\ request[t][1] \in Alignments /\ request[t][2] \in Sizes
           /\ ~resetting[t]
<1>1. request[t] # NoRequest /\ ~resetting[t]
  BY DEF ArenaIInv, ThreadInv, CallsNest
<1>2. request[t] \in {NoRequest} \cup (Alignments \X Sizes)
  BY DEF ArenaIInv, ArenaTypeOK
<1>3. QED
  BY <1>1, <1>2

\* The next address to hand out and the bump pointer behind it are typed.
LEMMA HandOutType ==
    ASSUME ArenaIInv, NEW t \in Thread, NEW address \in Nat, NEW size \in Sizes,
           NEW a \in Alignments, HandOut(t, address, size, a)
    PROVE  /\ m_currentAddress' \in [Thread -> Nat]
           /\ m_currentAddress'[t] = address + size
           /\ allocations' \in [Thread -> Seq(Allocation)]
           /\ allocations'[t] = Append(allocations[t], << address, size, a >>)
<1>1. /\ m_currentAddress \in [Thread -> Nat]
      /\ allocations \in [Thread -> Seq(Allocation)]
  BY DEF ArenaIInv, ArenaTypeOK
<1>2. size \in Nat
  BY WordTypes
<1>3. << address, size, a >> \in Allocation
  BY DEF Allocation
<1>4. Append(allocations[t], << address, size, a >>) \in Seq(Allocation)
  BY <1>1, <1>3
<1>5. QED
  BY <1>1, <1>2, <1>4 DEF HandOut

\* The typing is preserved.
LEMMA ArenaTypeStep ==
    ASSUME ArenaIInv, NEW t \in Thread, ArenaStep(t)
    PROVE  ArenaTypeOK'
<1> USE DEF ArenaTypeOK
<1>1. TypeOK'
  BY PoolInvStep DEF ArenaIInv, IInv
<1>2. ArenaTypeOK
  BY DEF ArenaIInv
<1>3. ASSUME NEW a \in Alignments, NEW s \in Sizes, AllocateFromChunk(t, a, s)
      PROVE  ArenaTypeOK'
  <2>1. AlignUp(m_currentAddress[t], a) \in Nat
    BY <1>2, AlignUpBounds, WordTypes
  <2>2. HandOut(t, AlignUp(m_currentAddress[t], a), s, a)
    BY <1>3 DEF AllocateFromChunk
  <2>3. /\ m_currentAddress' \in [Thread -> Nat]
        /\ allocations' \in [Thread -> Seq(Allocation)]
    BY <2>1, <2>2, HandOutType
  <2>4. QED
    BY <1>1, <1>2, <1>3, <2>3 DEF AllocateFromChunk
<1>4. ASSUME NEW a \in Alignments, NEW s \in Sizes, AllocateNeedsChunk(t, a, s)
      PROVE  ArenaTypeOK'
  BY <1>1, <1>2, <1>4 DEF AllocateNeedsChunk
<1>5. CASE Reset(t)
  BY <1>1, <1>2, <1>5 DEF Reset
<1>6. CASE PoolStep(t)
  BY <1>1, <1>2, <1>6 DEF PoolStep, arenaVars
<1>7. ASSUME NEW c \in Chunk, UseNewChunk(t, c), pc[t] \in GetLabels
      PROVE  ArenaTypeOK'
  <2>1. request[t][1] \in Alignments /\ request[t][2] \in Sizes
    BY <1>7, ArrivalMeansRequest
  <2>2. AlignUp(FirstAddress(c), request[t][1]) \in Nat
    BY <2>1, FitsIntoNewChunk
  <2>3. HandOut(t, AlignUp(FirstAddress(c), request[t][1]), request[t][2],
                request[t][1])
    BY <1>7 DEF UseNewChunk
  <2>4. /\ m_currentAddress' \in [Thread -> Nat]
        /\ allocations' \in [Thread -> Seq(Allocation)]
    BY <2>1, <2>2, <2>3, HandOutType
  <2>5. Base(c) + ChunkWords \in Nat
    BY WordTypes
  <2>6. QED
    BY <1>1, <1>2, <1>7, <2>4, <2>5 DEF UseNewChunk
<1>8. CASE ChunkFromPool(t)
  <2>1. pc[t] = "decrement"
    BY <1>8 DEF ChunkFromPool, FetchSub, Goto
  <2>2. chunk[t] \in Chunk
    BY <2>1 DEF ArenaIInv, IInv, InHandIsOwned
  <2>3. QED
    BY <1>7, <1>8, <2>1, <2>2 DEF ChunkFromPool, GetLabels
<1>9. ASSUME NEW c \in Chunk, ChunkFromSystem(t, c) PROVE ArenaTypeOK'
  <2>1. pc[t] = "mmap"
    BY <1>9 DEF ChunkFromSystem, Mmap, Goto
  <2>2. QED
    BY <1>7, <1>9, <2>1 DEF ChunkFromSystem, GetLabels
<1>10. CASE FreeHead(t)
  <2>1. m_listHead[t] \in Chunk
    BY <1>2, <1>10 DEF FreeHead
  <2>2. QED
    BY <1>1, <1>2, <1>10, <2>1 DEF FreeHead
<1>11. CASE Advance(t)
  BY <1>1, <1>2, <1>11 DEF Advance
<1>12. CASE ResetDone(t)
  BY <1>1, <1>2, <1>12 DEF ResetDone
<1>13. QED
  BY <1>3, <1>4, <1>5, <1>6, <1>8, <1>9, <1>10, <1>11, <1>12
     DEF ArenaStep, Allocate, InsideCall, ChunkArrives

\* The state of one thread, of which its ThreadInv speaks besides the links
ofThread(t) == << owned[t], pc[t], chunk[t], m_listHead[t],
                  m_currentAddress[t], m_currentAddressEnd[t], request[t],
                  next[t], resetting[t], allocations[t] >>

\* A step of a thread writes to no chunk that another one owns, and to none of
\* its variables.
LEMMA OthersUntouched ==
    ASSUME ArenaIInv, NEW t \in Thread, ArenaStep(t), NEW u \in Thread, u # t
    PROVE  /\ ofThread(u)' = ofThread(u)
           /\ \A c \in owned[u] : link'[c] = link[c]
<1> USE DEF ofThread, Goto
<1>1. /\ ArenaTypeOK /\ TypeOK /\ ExclusiveOwnership
      /\ InHandIsOwned
  BY DEF ArenaIInv, IInv
<1>2. ASSUME NEW a \in Alignments, NEW s \in Sizes, AllocateFromChunk(t, a, s)
      PROVE  ofThread(u)' = ofThread(u) /\ link' = link
  BY <1>1, <1>2 DEF AllocateFromChunk, HandOut, poolVars, ArenaTypeOK
<1>3. ASSUME NEW a \in Alignments, NEW s \in Sizes, AllocateNeedsChunk(t, a, s)
      PROVE  ofThread(u)' = ofThread(u) /\ link' = link
  BY <1>1, <1>3 DEF AllocateNeedsChunk, CallGet, TypeOK, ArenaTypeOK
<1>4. CASE Reset(t)
  BY <1>1, <1>4 DEF Reset, poolVars, ArenaTypeOK
<1>5. CASE PoolStep(t)
  <2>1. UNCHANGED arenaVars
    BY <1>5 DEF PoolStep
  <2>2. owned'[u] = owned[u] /\ pc'[u] = pc[u] /\ chunk'[u] = chunk[u]
    BY <1>1, <1>5 DEF PoolStep, TryDequeue, TryDequeueFails, MmapFails,
       LoadSize, Enqueue, EnqueueFails, TypeOK
  <2>3. QED
    BY <2>1, <2>2 DEF arenaVars
<1>6. ASSUME NEW c \in Chunk, UseNewChunk(t, c), c \notin owned[u],
             owned'[u] = owned[u] /\ pc'[u] = pc[u] /\ chunk'[u] = chunk[u]
      PROVE  /\ ofThread(u)' = ofThread(u)
             /\ \A d \in owned[u] : link'[d] = link[d]
  <2>1. \A d \in owned[u] : d \in Chunk
    BY <1>1 DEF TypeOK
  <2>2. QED
    BY <1>1, <1>6, <2>1 DEF UseNewChunk, HandOut, ArenaTypeOK
<1>7. CASE ChunkFromPool(t)
  <2>1. chunk[t] \in Chunk /\ chunk[t] \in owned[t]
    BY <1>1, <1>7 DEF ChunkFromPool, FetchSub, InHandIsOwned
  <2>2. chunk[t] \notin owned[u]
    BY <1>1, <2>1 DEF ExclusiveOwnership
  <2>3. owned'[u] = owned[u] /\ pc'[u] = pc[u] /\ chunk'[u] = chunk[u]
    BY <1>1, <1>7 DEF ChunkFromPool, FetchSub, TypeOK
  <2>4. QED
    BY <1>6, <1>7, <2>1, <2>2, <2>3 DEF ChunkFromPool
<1>8. ASSUME NEW c \in Chunk, ChunkFromSystem(t, c)
      PROVE  /\ ofThread(u)' = ofThread(u)
             /\ \A d \in owned[u] : link'[d] = link[d]
  <2>1. c \notin owned[u]
    BY <1>1, <1>8 DEF ChunkFromSystem, Mmap, ExclusiveOwnership
  <2>2. owned'[u] = owned[u] /\ pc'[u] = pc[u] /\ chunk'[u] = chunk[u]
    BY <1>1, <1>8 DEF ChunkFromSystem, Mmap, TypeOK
  <2>3. QED
    BY <1>6, <1>8, <2>1, <2>2 DEF ChunkFromSystem
<1>9. CASE FreeHead(t)
  BY <1>1, <1>9 DEF FreeHead, CallFree, TypeOK, ArenaTypeOK
<1>10. CASE Advance(t)
  BY <1>1, <1>10 DEF Advance, FetchAdd, Munmap, TypeOK, ArenaTypeOK
<1>11. CASE ResetDone(t)
  BY <1>1, <1>11 DEF ResetDone, poolVars, ArenaTypeOK
<1>12. QED
  BY <1>2, <1>3, <1>4, <1>5, <1>7, <1>8, <1>9, <1>10, <1>11
     DEF ArenaStep, Allocate, InsideCall, ChunkArrives

\* What holds of a thread still holds if its state and its chunks are as
\* before.
LEMMA ThreadInvFrame ==
    ASSUME NEW u \in Thread, ThreadInv(u), ofThread(u)' = ofThread(u),
           \A c \in owned[u] : link'[c] = link[c]
    PROVE  ThreadInv(u)'
<1>1. /\ owned'[u] = owned[u] /\ pc'[u] = pc[u] /\ chunk'[u] = chunk[u]
      /\ m_listHead'[u] = m_listHead[u] /\ next'[u] = next[u]
      /\ m_currentAddress'[u] = m_currentAddress[u]
      /\ m_currentAddressEnd'[u] = m_currentAddressEnd[u]
      /\ request'[u] = request[u] /\ resetting'[u] = resetting[u]
      /\ allocations'[u] = allocations[u]
  BY DEF ofThread
<1>2. /\ InHand(u)' = InHand(u) /\ FirstToFree(u)' = FirstToFree(u)
      /\ Listed(u)' = Listed(u) /\ Listed(u) \subseteq owned[u]
  BY <1>1 DEF InHand, FirstToFree, Listed
<1>3. ListIsRight(u)'
  <2>1. InHand(u) \subseteq owned[u] /\ ListHolds(link, FirstToFree(u), Listed(u))
    BY DEF ThreadInv, ListIsRight
  <2>2. ListHolds(link', FirstToFree(u), Listed(u))
    BY <1>2, <2>1, ListUntouched
  <2>3. QED
    BY <1>1, <1>2, <2>1, <2>2 DEF ListIsRight
<1>4. CallsNest(u)' /\ BumpPointerInHead(u)'
  BY <1>1 DEF ThreadInv, CallsNest, BumpPointerInHead
<1>5. AllocationsPlaced(u)' /\ AllocationsApart(u)' /\ Aligned(u)'
  BY <1>1, <1>2 DEF ThreadInv, AllocationsPlaced, AllocationsApart, Aligned
<1>6. IsFiniteSet(owned'[u])
  BY <1>1 DEF ThreadInv
<1>7. QED
  BY <1>3, <1>4, <1>5, <1>6 DEF ThreadInv

-----------------------------------------------------------------------------
(* The thread that moves *)

\* Where an arena that is not being reset has its bump pointer in a chunk, that
\* chunk is one of its list.
LEMMA HeadIsListed ==
    ASSUME NEW t \in Thread, ThreadInv(t), pc[t] \notin FreeLabels,
           m_listHead[t] # Null
    PROVE  m_listHead[t] \in Listed(t)
<1>1. ListHolds(link, m_listHead[t], Listed(t))
  BY DEF ThreadInv, ListIsRight, FirstToFree, FreeLabels
<1>2. IsFiniteSet(Listed(t))
  BY FS_Subset DEF ThreadInv, Listed
<1>3. QED
  BY <1>1, <1>2, ListPop

\* An allocation is an address, a size and an alignment.
LEMMA AllocationType ==
    ASSUME NEW x \in Allocation
    PROVE  x[1] \in Nat /\ x[2] \in Nat /\ End(x) \in Nat
<1>1. x[1] \in Nat /\ x[2] \in Sizes
  BY DEF Allocation
<1>2. x[2] \in Nat
  BY <1>1, WordTypes
<1>3. QED
  BY <1>1, <1>2 DEF End

\* What an allocation adds to the allocations of an arena
LEMMA OneMore ==
    ASSUME NEW S, NEW s \in Seq(S), NEW e \in S
    PROVE  /\ Len(s) \in Nat
           /\ DOMAIN s = 1 .. Len(s)
           /\ DOMAIN Append(s, e) = 1 .. Len(s) + 1
           /\ \A i \in 1 .. Len(s) : Append(s, e)[i] = s[i] /\ s[i] \in S
           /\ Append(s, e)[Len(s) + 1] = e
OBVIOUS

\* A piece of memory is handed out in a chunk whose other allocations all end
\* before it: it lies apart from the allocations of every chunk.
LEMMA NewAllocationApart ==
    ASSUME ArenaIInv, NEW t \in Thread, NEW c \in Chunk,
           NEW new \in Allocation, LiesIn(new, c),
           \A i \in DOMAIN allocations[t] :
               \/ End(allocations[t][i]) <= new[1]
               \/ \E d \in Chunk \ {c} : LiesIn(allocations[t][i], d),
           allocations'[t] = Append(allocations[t], new)
    PROVE  AllocationsApart(t)'
<1> DEFINE old == allocations[t]
           n == Len(old)
<1>1. old \in Seq(Allocation) /\ AllocationsApart(t)
  BY DEF ArenaIInv, ArenaTypeOK, ThreadInv
<1>2. /\ DOMAIN allocations'[t] = 1 .. n + 1 /\ DOMAIN old = 1 .. n
      /\ \A i \in 1 .. n : allocations'[t][i] = old[i]
      /\ allocations'[t][n + 1] = new /\ n \in Nat
      /\ \A i \in 1 .. n : old[i] \in Allocation
  BY <1>1, OneMore
<1>3. ASSUME NEW i \in DOMAIN old
      PROVE  Words(old[i]) \cap Words(new) = {} /\ Words(new) \cap Words(old[i]) = {}
  <2>1. /\ old[i][1] \in Nat /\ old[i][2] \in Nat
        /\ new[1] \in Nat /\ new[2] \in Nat
    BY <1>2, <1>3, AllocationType
  <2>2. CASE End(old[i]) <= new[1]
    BY <2>1, <2>2, WordsApart DEF End
  <2>3. ASSUME NEW d \in Chunk \ {c}, LiesIn(old[i], d)
        PROVE  End(old[i]) <= new[1] \/ End(new) <= old[i][1]
    <3>1. Base(c) + ChunkWords <= Base(d) \/ Base(d) + ChunkWords <= Base(c)
      BY ChunksApart
    <3>2. Base(c) \in Nat /\ Base(d) \in Nat /\ ChunkWords \in Nat
      BY WordTypes
    <3>3. QED
      BY <2>1, <2>3, <3>1, <3>2, SMTT(30) DEF LiesIn, FirstAddress, End
  <2>4. End(old[i]) <= new[1] \/ End(new) <= old[i][1]
    BY <1>3, <2>3
  <2>5. QED
    BY <2>1, <2>4, WordsApart DEF End
<1>4. ASSUME NEW i \in 1 .. n + 1, NEW j \in 1 .. n + 1, i # j
      PROVE  Words(allocations'[t][i]) \cap Words(allocations'[t][j]) = {}
  <2>1. CASE i = n + 1
    <3>1. j \in 1 .. n
      BY <1>2, <1>4, <2>1
    <3>2. QED
      BY <1>2, <1>3, <2>1, <3>1
  <2>2. CASE j = n + 1
    <3>1. i \in 1 .. n
      BY <1>2, <1>4, <2>2
    <3>2. QED
      BY <1>2, <1>3, <2>2, <3>1
  <2>3. CASE i # n + 1 /\ j # n + 1
    <3>1. i \in 1 .. n /\ j \in 1 .. n
      BY <1>2, <2>3
    <3>2. QED
      BY <1>1, <1>2, <1>4, <3>1 DEF AllocationsApart
  <2>4. QED
    BY <2>1, <2>2, <2>3
<1>5. QED
  BY <1>2, <1>4 DEF AllocationsApart

\* Allocate from the current chunk.
LEMMA AllocateFromChunkStep ==
    ASSUME ArenaIInv, NEW t \in Thread,
           NEW a \in Alignments, NEW size \in Sizes,
           AllocateFromChunk(t, a, size)
    PROVE  ThreadInv(t)'
<1> DEFINE address == AlignUp(m_currentAddress[t], a)
           head == m_listHead[t]
           new == << address, size, a >>
           old == allocations[t]
           n == Len(old)
<1>1. ArenaTypeOK /\ ThreadInv(t) /\ TypeOK
  BY DEF ArenaIInv, IInv
<1>2. /\ pc[t] = "idle" /\ ~resetting[t] /\ request[t] = NoRequest
      /\ address + size <= m_currentAddressEnd[t]
      /\ HandOut(t, address, size, a)
      /\ UNCHANGED << poolVars, link, m_listHead, m_currentAddressEnd, request,
                      next, resetting >>
  BY DEF AllocateFromChunk, Quiet, Fits
<1>3. /\ address \in Nat /\ m_currentAddress[t] <= address
      /\ address % a = 0
      /\ m_currentAddress[t] \in Nat /\ size \in Nat
      /\ m_currentAddressEnd[t] \in Nat
  BY <1>1, AlignUpBounds, WordTypes DEF ArenaTypeOK
<1> HIDE DEF address
<1>4. /\ m_currentAddress'[t] = address + size
      /\ allocations'[t] = Append(old, new)
      /\ old \in Seq(Allocation)
  BY <1>1, <1>2, <1>3, HandOutType DEF ArenaTypeOK
<1>5. /\ head # Null /\ head \in Chunk
      /\ m_currentAddressEnd[t] = Base(head) + ChunkWords
      /\ FirstAddress(head) <= m_currentAddress[t]
  <2>1. m_currentAddressEnd[t] # 0 \/ m_currentAddress[t] # 1
    BY <1>2, <1>3
  <2>2. QED
    BY <1>1, <1>2, <2>1 DEF ThreadInv, BumpPointerInHead, ArenaTypeOK
<1>6. head \in Listed(t)
  BY <1>1, <1>2, <1>5, HeadIsListed DEF FreeLabels
<1>7. LiesIn(new, head) /\ End(new) = address + size
  <2>1. Base(head) \in Nat
    BY <1>5, WordTypes
  <2>2. QED
    BY <1>2, <1>3, <1>5, <2>1 DEF LiesIn, FirstAddress, End
<1>8. /\ Listed(t)' = Listed(t) /\ Listed(t) \subseteq Chunk
      /\ InHand(t)' = InHand(t) /\ FirstToFree(t)' = FirstToFree(t)
      /\ m_listHead' = m_listHead
  BY <1>1, <1>2 DEF Listed, InHand, FirstToFree, poolVars, TypeOK
<1>9. ListIsRight(t)' /\ IsFiniteSet(owned'[t])
  BY <1>1, <1>2, <1>8 DEF ThreadInv, ListIsRight, poolVars
<1>10. CallsNest(t)'
  BY <1>1, <1>2 DEF ThreadInv, CallsNest, poolVars
<1>11. BumpPointerInHead(t)'
  <2>1. Base(head) \in Nat
    BY <1>5, WordTypes
  <2>2. QED
    BY <1>2, <1>3, <1>4, <1>5, <2>1 DEF BumpPointerInHead, FirstAddress
<1>12. ASSUME NEW i \in 1 .. n
       PROVE  \E c \in Listed(t) :
                /\ LiesIn(old[i], c)
                /\ c = head => End(old[i]) <= m_currentAddress[t]
  BY <1>1, <1>4 DEF ThreadInv, AllocationsPlaced
<1>13. /\ DOMAIN allocations'[t] = 1 .. n + 1 /\ DOMAIN old = 1 .. n
       /\ \A i \in 1 .. n : allocations'[t][i] = old[i]
       /\ allocations'[t][n + 1] = new /\ n \in Nat
       /\ \A i \in 1 .. n : old[i] \in Allocation
  <2>1. new \in Allocation
    BY <1>3 DEF Allocation
  <2>2. QED
    BY <1>4, <2>1, OneMore
<1>14. AllocationsPlaced(t)'
  <2>1. ASSUME NEW i \in 1 .. n
        PROVE  \E c \in Listed(t) :
                 /\ LiesIn(old[i], c)
                 /\ c = head => End(old[i]) <= address + size
    <3>1. End(old[i]) \in Nat
      BY <1>13, AllocationType
    <3>2. QED
      BY <1>3, <1>12, <3>1
  <2>2. \E c \in Listed(t) :
          LiesIn(new, c) /\ (c = head => End(new) <= address + size)
    BY <1>3, <1>6, <1>7
  <2>3. ASSUME NEW i \in 1 .. n + 1
        PROVE  \E c \in Listed(t) :
                 /\ LiesIn(allocations'[t][i], c)
                 /\ c = head => End(allocations'[t][i]) <= address + size
    <3>1. CASE i = n + 1
      BY <1>13, <2>2, <3>1
    <3>2. CASE i # n + 1
      <4>1. i \in 1 .. n /\ allocations'[t][i] = old[i]
        BY <1>13, <3>2
      <4>2. QED
        BY <2>1, <4>1
    <3>3. QED
      BY <3>1, <3>2
  <2>4. QED
    BY <1>4, <1>8, <1>13, <2>3 DEF AllocationsPlaced
<1>15. AllocationsApart(t)'
  <2>1. ASSUME NEW i \in DOMAIN old
        PROVE  \/ End(old[i]) <= new[1]
               \/ \E d \in Chunk \ {head} : LiesIn(old[i], d)
    <3>1. PICK c \in Listed(t) :
            /\ LiesIn(old[i], c)
            /\ c = head => End(old[i]) <= m_currentAddress[t]
      BY <1>12, <1>13
    <3>2. End(old[i]) \in Nat
      BY <1>13, AllocationType
    <3>3. QED
      BY <1>3, <1>8, <3>1, <3>2
  <2>2. new \in Allocation
    BY <1>3 DEF Allocation
  <2>3. QED
    BY <1>4, <1>5, <1>7, <2>1, <2>2, NewAllocationApart
<1>16. Aligned(t)'
  BY <1>1, <1>3, <1>13 DEF ThreadInv, Aligned
<1>17. QED
  BY <1>9, <1>10, <1>11, <1>14, <1>15, <1>16 DEF ThreadInv

\* The first half of an Allocate that needs a chunk, and the call of Reset.
LEMMA CallStep ==
    ASSUME ArenaIInv, NEW t \in Thread,
           \/ \E a \in Alignments, s \in Sizes : AllocateNeedsChunk(t, a, s)
           \/ Reset(t)
    PROVE  ThreadInv(t)'
<1>1. ArenaTypeOK /\ ThreadInv(t) /\ TypeOK
  BY DEF ArenaIInv, IInv
<1>2. ASSUME NEW a \in Alignments, NEW s \in Sizes, AllocateNeedsChunk(t, a, s)
      PROVE  ThreadInv(t)'
  <2>1. /\ pc[t] = "idle" /\ pc'[t] = "dequeue" /\ ~resetting[t]
        /\ request'[t] = << a, s >>
        /\ UNCHANGED << owned, chunk, link, m_listHead, m_currentAddress,
                        m_currentAddressEnd, next, resetting, allocations >>
    BY <1>1, <1>2 DEF AllocateNeedsChunk, Quiet, CallGet, Goto, TypeOK, ArenaTypeOK
  <2>2. /\ Listed(t)' = Listed(t) /\ InHand(t)' = InHand(t)
        /\ FirstToFree(t)' = FirstToFree(t)
    BY <2>1 DEF Listed, InHand, FirstToFree
  <2>3. ListIsRight(t)' /\ BumpPointerInHead(t)' /\ AllocationsPlaced(t)'
        /\ AllocationsApart(t)' /\ Aligned(t)' /\ IsFiniteSet(owned'[t])
    BY <1>1, <2>1, <2>2 DEF ThreadInv, ListIsRight, BumpPointerInHead,
       AllocationsPlaced, AllocationsApart, Aligned
  <2>4. CallsNest(t)'
    BY <2>1 DEF CallsNest, GetLabels, FreeLabels, NoRequest
  <2>5. QED
    BY <2>3, <2>4 DEF ThreadInv
<1>3. CASE Reset(t)
  <2>1. /\ pc[t] = "idle" /\ request[t] = NoRequest /\ pc' = pc /\ owned' = owned
        /\ chunk' = chunk /\ request' = request /\ link' = link
        /\ resetting'[t] = TRUE /\ allocations'[t] = << >>
        /\ UNCHANGED << m_listHead, next >>
    BY <1>1, <1>3 DEF Reset, Quiet, poolVars, ArenaTypeOK
  <2>2. /\ Listed(t)' = Listed(t) /\ InHand(t)' = InHand(t)
        /\ FirstToFree(t)' = FirstToFree(t)
    BY <2>1 DEF Listed, InHand, FirstToFree
  <2>3. ListIsRight(t)' /\ IsFiniteSet(owned'[t])
    BY <1>1, <2>1, <2>2 DEF ThreadInv, ListIsRight
  <2>4. CallsNest(t)'
    BY <2>1 DEF CallsNest, GetLabels, FreeLabels
  <2>5. /\ BumpPointerInHead(t)' /\ AllocationsPlaced(t)'
        /\ AllocationsApart(t)' /\ Aligned(t)'
    BY <2>1 DEF BumpPointerInHead, AllocationsPlaced, AllocationsApart,
       Aligned
  <2>6. QED
    BY <2>3, <2>4, <2>5 DEF ThreadInv
<1>4. QED
  BY <1>2, <1>3

\* The pool at work: what the list should hold stays the same, because a chunk
\* is put into hand when it arrives and was in hand when it leaves.
LEMMA PoolStepStep ==
    ASSUME ArenaIInv, NEW t \in Thread, PoolStep(t)
    PROVE  ThreadInv(t)'
<1>1. /\ ArenaTypeOK /\ ThreadInv(t) /\ TypeOK /\ ExclusiveOwnership
      /\ InHandIsOwned
  BY DEF ArenaIInv, IInv
<1>2. UNCHANGED arenaVars
  BY DEF PoolStep
<1>3. /\ Listed(t)' = Listed(t) /\ FirstToFree(t)' = FirstToFree(t)
      /\ InHand(t)' \subseteq owned'[t] /\ IsFiniteSet(owned'[t])
      /\ CallsNest(t)'
  <2> USE <1>1, <1>2 DEF Goto, TypeOK, arenaVars, InHand, Listed, FirstToFree,
          CallsNest, GetLabels, FreeLabels, ThreadInv, InHandIsOwned
  <2>1. ASSUME NEW c \in Chunk, TryDequeue(t, c)
        PROVE  /\ Listed(t)' = Listed(t) /\ FirstToFree(t)' = FirstToFree(t)
               /\ InHand(t)' \subseteq owned'[t] /\ IsFiniteSet(owned'[t])
               /\ CallsNest(t)'
    <3>1. /\ pc[t] = "dequeue" /\ pc'[t] = "decrement" /\ chunk'[t] = c
          /\ owned'[t] = owned[t] \cup {c}
      BY <2>1 DEF TryDequeue
    <3>2. c \notin owned[t]
      BY <2>1 DEF TryDequeue, ExclusiveOwnership
    <3>3. IsFiniteSet(owned'[t])
      BY <3>1, FS_AddElement
    <3>4. Listed(t)' = Listed(t)
      BY <3>1, <3>2
    <3>5. QED
      BY <3>1, <3>3, <3>4
  <2>2. CASE TryDequeueFails(t)
    BY <2>2 DEF TryDequeueFails
  <2>3. CASE MmapFails(t)
    BY <2>3 DEF MmapFails
  <2>4. CASE LoadSize(t)
    BY <2>4 DEF LoadSize
  <2>5. CASE Enqueue(t)
    <3>1. /\ pc[t] = "enqueue" /\ pc'[t] = "increment"
          /\ owned'[t] = owned[t] \ {chunk[t]}
      BY <2>5 DEF Enqueue
    <3>2. IsFiniteSet(owned'[t])
      BY <3>1, FS_Subset
    <3>3. QED
      BY <3>1, <3>2
  <2>6. CASE EnqueueFails(t)
    BY <2>6 DEF EnqueueFails
  <2>7. QED
    BY <2>1, <2>2, <2>3, <2>4, <2>5, <2>6 DEF PoolStep
<1>4. ListIsRight(t)'
  BY <1>1, <1>2, <1>3 DEF ThreadInv, ListIsRight, arenaVars
<1>5. /\ BumpPointerInHead(t)' /\ AllocationsPlaced(t)'
      /\ AllocationsApart(t)' /\ Aligned(t)'
  BY <1>1, <1>2, <1>3 DEF ThreadInv, BumpPointerInHead, AllocationsPlaced,
     AllocationsApart, Aligned, arenaVars
<1>6. QED
  BY <1>3, <1>4, <1>5 DEF ThreadInv

\* A chunk arrives, goes to the head of the list and serves the request.
LEMMA UseNewChunkStep ==
    ASSUME ArenaIInv, NEW t \in Thread, NEW c \in Chunk, UseNewChunk(t, c),
           pc[t] \in GetLabels, pc'[t] = "idle",
           c \notin Listed(t), owned'[t] = Listed(t) \cup {c}
    PROVE  ThreadInv(t)'
<1> DEFINE address == AlignUp(FirstAddress(c), request[t][1])
           size == request[t][2]
           a == request[t][1]
           new == << address, size, a >>
           old == allocations[t]
           n == Len(old)
<1>1. ArenaTypeOK /\ ThreadInv(t) /\ TypeOK
  BY DEF ArenaIInv, IInv
<1>2. /\ HandOut(t, address, size, a) /\ ~resetting[t] /\ size \in Sizes
      /\ request[t][1] \in Alignments
  BY ArrivalMeansRequest DEF UseNewChunk
<1>3. /\ address \in Nat /\ FirstAddress(c) <= address /\ size \in Nat
      /\ address % a = 0
      /\ address + size <= Base(c) + ChunkWords
      /\ FirstAddress(c) \in Nat /\ Base(c) \in Nat /\ ChunkWords \in Nat
  BY <1>2, FitsIntoNewChunk, WordTypes DEF FirstAddress
<1> HIDE DEF address, size, a
<1>4. /\ m_currentAddress'[t] = address + size
      /\ allocations'[t] = Append(old, new)
      /\ old \in Seq(Allocation) /\ new \in Allocation
  <2>1. a \in Alignments
    BY <1>2 DEF a
  <2>2. new \in Allocation
    BY <1>2, <1>3, <2>1 DEF Allocation
  <2>3. old \in Seq(Allocation)
    BY <1>1 DEF ArenaTypeOK
  <2>4. QED
    BY <1>2, <1>3, <2>1, <2>2, <2>3, HandOutType
<1>5. /\ link' = [link EXCEPT ![c] = m_listHead[t]]
      /\ m_listHead'[t] = c /\ m_currentAddressEnd'[t] = Base(c) + ChunkWords
      /\ request'[t] = NoRequest /\ resetting' = resetting
  BY <1>1 DEF UseNewChunk, ArenaTypeOK
<1>6. /\ Listed(t) \subseteq Chunk /\ IsFiniteSet(Listed(t))
      /\ Listed(t)' = Listed(t) \cup {c} /\ InHand(t)' = {}
      /\ FirstToFree(t)' = c /\ FirstToFree(t) = m_listHead[t]
  <2>1. Listed(t) \subseteq owned[t] /\ owned[t] \subseteq Chunk
    BY <1>1 DEF Listed, TypeOK
  <2>2. IsFiniteSet(Listed(t))
    BY <1>1, <2>1, FS_Subset DEF ThreadInv
  <2>3. InHand(t)' = {}
    BY DEF InHand
  <2>4. QED
    BY <1>5, <2>1, <2>2, <2>3 DEF Listed, FirstToFree, GetLabels
<1>7. IsFiniteSet(owned'[t])
  BY <1>6, FS_AddElement
<1>8. ListIsRight(t)'
  <2>1. ListHolds(link, m_listHead[t], Listed(t))
    BY <1>1, <1>6 DEF ThreadInv, ListIsRight
  <2>2. link'[c] = m_listHead[t] /\ \A d \in Listed(t) : link'[d] = link[d]
    BY <1>1, <1>5, <1>6 DEF ArenaTypeOK
  <2>3. Null \notin Listed(t)
    BY <1>6, WordTypes
  <2>4. ListHolds(link', c, Listed(t) \cup {c})
    BY <1>6, <2>1, <2>2, <2>3, ListPush
  <2>5. QED
    BY <1>6, <2>4 DEF ListIsRight
<1>9. CallsNest(t)'
  BY <1>2, <1>5 DEF CallsNest, GetLabels, FreeLabels
<1>10. BumpPointerInHead(t)'
  <2>1. c # Null
    BY WordTypes
  <2>2. QED
    BY <1>3, <1>4, <1>5, <2>1 DEF BumpPointerInHead
<1>11. /\ DOMAIN allocations'[t] = 1 .. n + 1 /\ DOMAIN old = 1 .. n
       /\ \A i \in 1 .. n : allocations'[t][i] = old[i]
       /\ allocations'[t][n + 1] = new /\ n \in Nat
  BY <1>4, OneMore
<1>12. ASSUME NEW i \in 1 .. n
       PROVE  \E d \in Listed(t) : LiesIn(old[i], d)
  BY <1>1, <1>11 DEF ThreadInv, AllocationsPlaced
<1>13. LiesIn(new, c) /\ End(new) = address + size
  BY <1>3 DEF LiesIn, End
<1>14. AllocationsPlaced(t)'
  <2>1. ASSUME NEW i \in 1 .. n + 1
        PROVE  \E d \in Listed(t) \cup {c} :
                 /\ LiesIn(allocations'[t][i], d)
                 /\ d = c => End(allocations'[t][i]) <= address + size
    <3>1. CASE i = n + 1
      BY <1>3, <1>11, <1>13, <3>1, SMTT(30)
    <3>2. CASE i # n + 1
      <4>1. i \in 1 .. n /\ allocations'[t][i] = old[i]
        BY <1>11, <3>2
      <4>2. QED
        BY <1>12, <4>1
    <3>3. QED
      BY <3>1, <3>2
  <2>2. QED
    BY <1>4, <1>5, <1>6, <1>11, <2>1 DEF AllocationsPlaced
<1>15. AllocationsApart(t)'
  <2>1. ASSUME NEW i \in DOMAIN old
        PROVE  \E d \in Chunk \ {c} : LiesIn(old[i], d)
    BY <1>6, <1>11, <1>12
  <2>2. QED
    BY <1>4, <1>13, <2>1, NewAllocationApart
<1>16. Aligned(t)'
  <2>1. \A i \in 1 .. n : old[i][1] % old[i][3] = 0
    BY <1>1, <1>11 DEF ThreadInv, Aligned
  <2>2. new[1] % new[3] = 0
    BY <1>3
  <2>3. QED
    BY <1>11, <2>1, <2>2 DEF Aligned
<1>17. QED
  BY <1>7, <1>8, <1>9, <1>10, <1>14, <1>15, <1>16 DEF ThreadInv

\* The two ways a chunk arrives.
LEMMA ChunkArrivesStep ==
    ASSUME ArenaIInv, NEW t \in Thread, ChunkArrives(t)
    PROVE  ThreadInv(t)'
<1>1. /\ TypeOK /\ ExclusiveOwnership /\ InHandIsOwned
  BY DEF ArenaIInv, IInv
<1>2. CASE ChunkFromPool(t)
  <2>1. /\ pc[t] = "decrement" /\ pc'[t] = "idle" /\ owned' = owned
        /\ UseNewChunk(t, chunk[t])
    BY <1>1, <1>2 DEF ChunkFromPool, FetchSub, Goto, TypeOK
  <2>2. chunk[t] \in Chunk /\ chunk[t] \in owned[t]
    BY <1>1, <2>1 DEF InHandIsOwned
  <2>3. Listed(t) = owned[t] \ {chunk[t]}
    BY <2>1 DEF Listed, InHand
  <2>4. QED
    BY <2>1, <2>2, <2>3, UseNewChunkStep DEF GetLabels
<1>3. ASSUME NEW c \in Chunk, ChunkFromSystem(t, c) PROVE ThreadInv(t)'
  <2>1. /\ pc[t] = "mmap" /\ pc'[t] = "idle" /\ owned'[t] = owned[t] \cup {c}
        /\ UseNewChunk(t, c) /\ c \notin owned[t]
    BY <1>1, <1>3 DEF ChunkFromSystem, Mmap, Goto, TypeOK, ExclusiveOwnership
  <2>2. Listed(t) = owned[t]
    BY <2>1 DEF Listed, InHand
  <2>3. QED
    BY <2>1, <2>2, UseNewChunkStep DEF GetLabels
<1>4. QED
  BY <1>2, <1>3 DEF ChunkArrives

\* FreeAllMemoryChunks: the head leaves the list for the hand of the thread,
\* and its link is read before it is given up.
LEMMA FreeHeadStep ==
    ASSUME ArenaIInv, NEW t \in Thread, FreeHead(t)
    PROVE  ThreadInv(t)'
<1> DEFINE head == m_listHead[t]
<1>1. ArenaTypeOK /\ ThreadInv(t) /\ TypeOK
  BY DEF ArenaIInv, IInv
<1>2. /\ resetting[t] /\ pc[t] = "idle" /\ head # Null
      /\ pc'[t] = "load" /\ chunk'[t] = head /\ next'[t] = link[head]
      /\ UNCHANGED << owned, link, m_listHead, request, resetting, allocations >>
  BY <1>1 DEF FreeHead, CallFree, Goto, TypeOK, ArenaTypeOK
<1>3. Listed(t) = owned[t] /\ FirstToFree(t) = head
  BY <1>2 DEF Listed, InHand, FirstToFree
<1>4. head \in owned[t] /\ ListHolds(link, link[head], owned[t] \ {head})
  BY <1>1, <1>2, <1>3, ListPop DEF ThreadInv, ListIsRight
<1>5. ListIsRight(t)'
  BY <1>2, <1>4 DEF ListIsRight, Listed, InHand, FirstToFree
<1>6. CallsNest(t)'
  BY <1>1, <1>2 DEF ThreadInv, CallsNest, GetLabels, FreeLabels
<1>7. /\ BumpPointerInHead(t)' /\ AllocationsPlaced(t)'
      /\ AllocationsApart(t)' /\ Aligned(t)'
  BY <1>1, <1>2 DEF ThreadInv, CallsNest, BumpPointerInHead, AllocationsPlaced,
     AllocationsApart, Aligned
<1>8. QED
  BY <1>1, <1>2, <1>5, <1>6, <1>7 DEF ThreadInv

\* FreeAllMemoryChunks goes on with the link it has read, and ends.
LEMMA AdvanceStep ==
    ASSUME ArenaIInv, NEW t \in Thread, Advance(t) \/ ResetDone(t)
    PROVE  ThreadInv(t)'
<1>1. ArenaTypeOK /\ ThreadInv(t) /\ TypeOK
  BY DEF ArenaIInv, IInv
<1>2. CASE Advance(t)
  <2>1. /\ pc[t] \in {"increment", "munmap"} /\ pc'[t] = "idle"
        /\ m_listHead'[t] = next[t]
        /\ UNCHANGED << link, request, resetting, allocations >>
        /\ owned'[t] = Listed(t)
    BY <1>1, <1>2 DEF Advance, FetchAdd, Munmap, Goto, TypeOK, ArenaTypeOK,
       Listed, InHand
  <2>2. Listed(t)' = Listed(t) /\ InHand(t)' = {} /\ FirstToFree(t)' = FirstToFree(t)
    BY <2>1 DEF Listed, InHand, FirstToFree
  <2>3. ListIsRight(t)'
    BY <1>1, <2>1, <2>2 DEF ThreadInv, ListIsRight
  <2>4. CallsNest(t)'
    BY <1>1, <2>1 DEF ThreadInv, CallsNest, GetLabels, FreeLabels
  <2>5. resetting[t] /\ allocations[t] = << >>
    BY <1>1, <2>1 DEF ThreadInv, CallsNest, FreeLabels
  <2>6. /\ BumpPointerInHead(t)' /\ AllocationsPlaced(t)'
        /\ AllocationsApart(t)' /\ Aligned(t)'
    BY <2>1, <2>5 DEF BumpPointerInHead, AllocationsPlaced, AllocationsApart,
       Aligned
  <2>7. IsFiniteSet(owned'[t])
    BY <1>1, <2>1, FS_Subset DEF ThreadInv, Listed
  <2>8. QED
    BY <2>3, <2>4, <2>6, <2>7 DEF ThreadInv
<1>3. CASE ResetDone(t)
  <2>1. /\ resetting[t] /\ pc[t] = "idle" /\ m_listHead[t] = Null
        /\ m_currentAddress'[t] = 1 /\ m_currentAddressEnd'[t] = 0
        /\ resetting'[t] = FALSE
        /\ UNCHANGED << owned, pc, chunk, link, m_listHead, request, next,
                        allocations >>
    BY <1>1, <1>3 DEF ResetDone, poolVars, ArenaTypeOK
  <2>2. /\ Listed(t)' = Listed(t) /\ InHand(t)' = InHand(t)
        /\ FirstToFree(t)' = FirstToFree(t)
    BY <2>1 DEF Listed, InHand, FirstToFree
  <2>3. ListIsRight(t)' /\ IsFiniteSet(owned'[t])
    BY <1>1, <2>1, <2>2 DEF ThreadInv, ListIsRight
  <2>4. allocations[t] = << >> /\ request[t] = NoRequest
    BY <1>1, <2>1 DEF ThreadInv, CallsNest
  <2>5. CallsNest(t)'
    BY <2>1, <2>4 DEF CallsNest, GetLabels, FreeLabels
  <2>6. /\ BumpPointerInHead(t)' /\ AllocationsPlaced(t)'
        /\ AllocationsApart(t)' /\ Aligned(t)'
    BY <2>1, <2>4 DEF BumpPointerInHead, AllocationsPlaced, AllocationsApart,
       Aligned
  <2>7. QED
    BY <2>3, <2>5, <2>6 DEF ThreadInv
<1>4. QED
  BY <1>2, <1>3

-----------------------------------------------------------------------------

\* The invariant holds when the arenas are created.
THEOREM ArenaInitIInv == ArenaInit => ArenaIInv
<1> SUFFICES ASSUME ArenaInit PROVE ArenaIInv
  OBVIOUS
<1>1. IInv
  BY InitIInv DEF ArenaInit
<1>2. ArenaTypeOK
  BY <1>1 DEF IInv, ArenaInit, ArenaTypeOK, NoRequest, Null
<1>3. ASSUME NEW t \in Thread PROVE ThreadInv(t)
  <2>1. /\ owned[t] = {} /\ pc[t] = "idle" /\ m_listHead[t] = Null
        /\ request[t] = NoRequest /\ ~resetting[t] /\ allocations[t] = << >>
        /\ m_currentAddress[t] = 1 /\ m_currentAddressEnd[t] = 0
    BY DEF ArenaInit, Init
  <2>2. /\ Listed(t) = {} /\ InHand(t) = {} /\ FirstToFree(t) = Null
    BY <2>1 DEF Listed, InHand, FirstToFree
  <2>3. ListIsRight(t)
    BY <2>2, ListEmpty DEF ListIsRight
  <2>4. IsFiniteSet(owned[t])
    BY <2>1, FS_EmptySet
  <2>5. CallsNest(t)
    BY <2>1 DEF CallsNest, GetLabels, FreeLabels
  <2>6. /\ BumpPointerInHead(t) /\ AllocationsPlaced(t)
        /\ AllocationsApart(t) /\ Aligned(t)
    BY <2>1 DEF BumpPointerInHead, AllocationsPlaced, AllocationsApart,
       Aligned
  <2>7. QED
    BY <2>3, <2>4, <2>5, <2>6 DEF ThreadInv
<1>4. QED
  BY <1>1, <1>2, <1>3 DEF ArenaIInv

\* The invariant is inductive: every step of every thread preserves it.
THEOREM ArenaStepIInv == ArenaIInv /\ [ArenaNext]_vars => ArenaIInv'
<1> SUFFICES ASSUME ArenaIInv, [ArenaNext]_vars PROVE ArenaIInv'
  OBVIOUS
<1>1. CASE UNCHANGED vars
  <2>1. IInv'
    BY <1>1, StepIInv DEF ArenaIInv, vars
  <2>2. ArenaTypeOK'
    BY <1>1, <2>1 DEF ArenaIInv, ArenaTypeOK, IInv, vars, arenaVars
  <2>3. ASSUME NEW t \in Thread PROVE ThreadInv(t)'
    <3>1. ofThread(t)' = ofThread(t) /\ link' = link
      BY <1>1 DEF ofThread, vars, poolVars, arenaVars
    <3>2. QED
      BY <3>1, ThreadInvFrame DEF ArenaIInv
  <2>4. QED
    BY <2>1, <2>2, <2>3 DEF ArenaIInv
<1>2. ASSUME NEW t \in Thread, ArenaStep(t) PROVE ArenaIInv'
  <2>1. IInv' /\ ArenaTypeOK'
    BY <1>2, PoolInvStep, ArenaTypeStep DEF ArenaIInv
  <2>2. ThreadInv(t)'
    BY <1>2, AllocateFromChunkStep, CallStep, PoolStepStep, ChunkArrivesStep,
       FreeHeadStep, AdvanceStep DEF ArenaStep, Allocate, InsideCall
  <2>3. ASSUME NEW u \in Thread, u # t PROVE ThreadInv(u)'
    BY <1>2, <2>3, OthersUntouched, ThreadInvFrame DEF ArenaIInv
  <2>4. QED
    BY <2>1, <2>2, <2>3 DEF ArenaIInv
<1>3. QED
  BY <1>1, <1>2 DEF ArenaNext, ArenaDead, Dead, vars, ArenaStep

\* The inductive invariant implies what clients rely on.
LEMMA ArenaIInvIsSound == ArenaIInv => ArenaIsSound
<1> SUFFICES ASSUME ArenaIInv PROVE ArenaIsSound
  OBVIOUS
<1>1. ListIsWhatIsOwned
  BY DEF ArenaIInv, ThreadInv, ListIsRight, Listed, ListIsWhatIsOwned
<1>2. ASSUME NEW t \in Thread, NEW i \in DOMAIN allocations[t]
      PROVE  \E c \in owned[t] :
                /\ c \in Chunk
                /\ Words(allocations[t][i]) \subseteq Usable(c)
                /\ allocations[t][i][1] \in Usable(c) \cup {Base(c) + ChunkWords}
  <2>1. PICK c \in Listed(t) : LiesIn(allocations[t][i], c)
    BY <1>2 DEF ArenaIInv, ThreadInv, AllocationsPlaced
  <2>2. c \in owned[t] /\ c \in Chunk
    BY <2>1 DEF Listed, ArenaIInv, IInv, TypeOK
  <2>3. allocations[t][i] \in Allocation
    BY <1>2 DEF ArenaIInv, ArenaTypeOK
  <2>4. /\ allocations[t][i][1] \in Nat /\ allocations[t][i][2] \in Nat
        /\ Base(c) \in Nat /\ ChunkWords \in Nat
    BY <2>2, <2>3, AllocationType, WordTypes
  <2>5. /\ Words(allocations[t][i]) \subseteq Usable(c)
        /\ allocations[t][i][1] \in Usable(c) \cup {Base(c) + ChunkWords}
    BY <2>1, <2>4 DEF LiesIn, FirstAddress, End, Words, Usable
  <2>6. QED
    BY <2>2, <2>5
<1>3. \A t \in Thread : \A i \in DOMAIN allocations[t] :
        \E c \in owned[t] :
            /\ Words(allocations[t][i]) \subseteq Usable(c)
            /\ allocations[t][i][1] \in Usable(c) \cup {Base(c) + ChunkWords}
  BY <1>2
<1>4. ASSUME NEW t \in Thread, NEW u \in Thread, NEW i \in DOMAIN allocations[t],
             NEW j \in DOMAIN allocations[u], << t, i >> # << u, j >>
      PROVE  Words(allocations[t][i]) \cap Words(allocations[u][j]) = {}
  <2>1. CASE t = u
    BY <1>4, <2>1 DEF ArenaIInv, ThreadInv, AllocationsApart
  <2>2. CASE t # u
    <3>1. PICK c \in owned[t] :
            c \in Chunk /\ Words(allocations[t][i]) \subseteq Usable(c)
      BY <1>2
    <3>2. PICK d \in owned[u] :
            d \in Chunk /\ Words(allocations[u][j]) \subseteq Usable(d)
      BY <1>2
    <3>3. c # d
      BY <2>2, <3>1, <3>2 DEF ArenaIInv, IInv, ExclusiveOwnership
    <3>4. Usable(c) \cap Usable(d) = {}
      <4>1. Base(c) + ChunkWords <= Base(d) \/ Base(d) + ChunkWords <= Base(c)
        BY <3>1, <3>2, <3>3, ChunksApart
      <4>2. Base(c) \in Nat /\ Base(d) \in Nat /\ ChunkWords \in Nat
        BY <3>1, <3>2, WordTypes
      <4>3. QED
        BY <4>1, <4>2 DEF Usable
    <3>5. QED
      BY <3>1, <3>2, <3>4
  <2>3. QED
    BY <2>1, <2>2
<1>5. AllocationsDisjoint
  BY <1>3, <1>4 DEF AllocationsDisjoint
<1>6. AllocationsAligned
  BY DEF ArenaIInv, ThreadInv, Aligned, AllocationsAligned
<1>7. QED
  BY <1>1, <1>5, <1>6 DEF ArenaIsSound, ArenaIInv

\* In every reachable state the list of an arena holds exactly the chunks it
\* owns, no two live allocations of any arenas share a word or touch a link,
\* and each is aligned as it was asked for (TempArenaAllocator), whatever the
\* number of threads, the sizes, the alignments and the number of allocations.
THEOREM ArenaSound == ArenaSpec => []ArenaIsSound
BY ArenaInitIInv, ArenaStepIInv, ArenaIInvIsSound, PTL DEF ArenaSpec

\* Arenas use the pool as its specification allows: all that is proved of the
\* pool holds under arenas too.
THEOREM ArenaUsesPool == ArenaSpec => Spec
<1>1. ArenaIInv /\ [ArenaNext]_vars => [Next]_poolVars
  <2> SUFFICES ASSUME ArenaIInv, [ArenaNext]_vars PROVE [Next]_poolVars
    OBVIOUS
  <2>1. CASE UNCHANGED vars
    BY <2>1 DEF vars
  <2>2. CASE ArenaDead
    BY <2>2 DEF ArenaDead, Next
  <2>3. ASSUME NEW t \in Thread, ArenaStep(t) PROVE [Next]_poolVars
    <3>1. Step(t) \/ UNCHANGED poolVars
      BY <2>3, PoolPart DEF ArenaIInv, IInv
    <3>2. QED
      BY <3>1 DEF Next, Step
  <2>4. QED
    BY <2>1, <2>2, <2>3 DEF ArenaNext, ArenaStep
<1>2. ArenaInit => Init
  BY DEF ArenaInit
<1>3. QED
  BY <1>1, <1>2, ArenaInitIInv, ArenaStepIInv, PTL DEF ArenaSpec, Spec

\* Arenas that interleave in any way share the pool without ever sharing a
\* chunk, and leave its counter and its limit as exact as its own steps do.
THEOREM ArenasShareThePool ==
    ArenaSpec => /\ []ExclusiveOwnership
                 /\ []FreeListBounded
                 /\ []CounterTracksFreeList
                 /\ AllocatorSpec
BY ArenaUsesPool, Ownership, Bounded, CounterExact, Implements, PTL
=============================================================================

------------------------- MODULE TempArenaAllocator -------------------------
(***************************************************************************)
(* TempArenaAllocator (pochivm/codegen_arena_allocator.h): one bump        *)
(* allocator per thread on top of the shared CodegenMemoryPool.  The       *)
(* chunks of an arena form a linked list threaded through the first word   *)
(* of each chunk, in memory that belongs to whoever holds the chunk: once  *)
(* a chunk is given up its first word may change at any time.              *)
(*                                                                         *)
(* Addresses are counted in words of 8 bytes.  Chunk is a set of positive  *)
(* integers, and chunk c spans the addresses from Base(c) on; 0 is the     *)
(* null pointer and lies in no chunk.                                      *)
(***************************************************************************)
EXTENDS CodegenMemoryPool, Sequences

CONSTANTS
    ChunkWords,     \* x_memoryChunkSize
    PageWords,      \* 4096 bytes, the largest alignment
    Alignments,     \* the alignments clients ask for
    Sizes,          \* the sizes clients ask for
    MaxAllocations  \* bound: allocations an arena serves between two resets

ASSUME ChunkAssumption ==
    /\ Chunk \subseteq Nat \ {0}
    /\ NoChunk = 0
ASSUME WordsAssumption ==
    /\ PageWords \in Nat \ {0} /\ ChunkWords \in Nat
    /\ ChunkWords > PageWords /\ ChunkWords % PageWords = 0
    /\ \A a \in Alignments : a \in Nat \ {0} /\ PageWords % a = 0
    \* "TODO: support large size allocation"
    /\ Sizes \subseteq 0 .. (ChunkWords - PageWords)

Base(c) == c * ChunkWords
Null == 0

VARIABLES
    link,                  \* the first word of every chunk: Base of the next
    m_listHead,
    m_currentAddress,
    m_currentAddressEnd,
    request,               \* the <<alignment, size>> waiting for a chunk
    next,                  \* FreeAllMemoryChunks: the local of that name
    resetting,             \* inside FreeAllMemoryChunks
    allocations            \* history: the live allocations, as Allocation

arenaVars == << link, m_listHead, m_currentAddress, m_currentAddressEnd,
                request, next, resetting, allocations >>
vars == << poolVars, arenaVars >>

NoRequest == << >>

\* What was handed out: an address, a size and the alignment asked for
Allocation == Nat \X Sizes \X Alignments

ArenaInit ==
    /\ Init
    /\ link = [c \in Chunk |-> Null]
    /\ m_listHead = [t \in Thread |-> Null]
    /\ m_currentAddress = [t \in Thread |-> 1]
    /\ m_currentAddressEnd = [t \in Thread |-> 0]
    /\ request = [t \in Thread |-> NoRequest]
    /\ next = [t \in Thread |-> Null]
    /\ resetting = [t \in Thread |-> FALSE]
    /\ allocations = [t \in Thread |-> << >>]

-----------------------------------------------------------------------------
(* Allocate *)

AlignUp(address, a) == ((address + a - 1) \div a) * a

\* mutant: the end of the chunk itself is not accounted for
FitsOffByOne(t, a, size) ==
    AlignUp(m_currentAddress[t], a) + size <= m_currentAddressEnd[t] + 1

Fits(t, a, size) ==
    AlignUp(m_currentAddress[t], a) + size <= m_currentAddressEnd[t]

Quiet(t) ==
    /\ ~aborted /\ pc[t] = "idle" /\ ~resetting[t] /\ request[t] = NoRequest

HandOut(t, address, size, a) ==
    /\ m_currentAddress' = [m_currentAddress EXCEPT ![t] = address + size]
    /\ allocations' =
         [allocations EXCEPT ![t] = Append(@, << address, size, a >>)]

AllocateFromChunk(t, a, size) ==
    /\ Quiet(t)
    /\ Len(allocations[t]) < MaxAllocations
    /\ Fits(t, a, size)
    /\ HandOut(t, AlignUp(m_currentAddress[t], a), size, a)
    /\ UNCHANGED << poolVars, link, m_listHead, m_currentAddressEnd, request,
                    next, resetting >>

AllocateNeedsChunk(t, a, size) ==
    /\ Quiet(t)
    /\ Len(allocations[t]) < MaxAllocations
    /\ ~Fits(t, a, size)
    /\ CallGet(t)
    /\ request' = [request EXCEPT ![t] = << a, size >>]
    /\ UNCHANGED << link, m_listHead, m_currentAddress, m_currentAddressEnd,
                    next, resetting, allocations >>

FirstAddress(c) == Base(c) + 1

\* GetNewMemoryChunk after the pool has answered, and the rest of Allocate
UseNewChunk(t, c) ==
    /\ link' = [link EXCEPT ![c] = m_listHead[t]]
    /\ m_listHead' = [m_listHead EXCEPT ![t] = c]
    /\ m_currentAddressEnd' = [m_currentAddressEnd EXCEPT ![t] =
                                   Base(c) + ChunkWords]
    /\ HandOut(t, AlignUp(FirstAddress(c), request[t][1]), request[t][2],
               request[t][1])
    /\ request' = [request EXCEPT ![t] = NoRequest]
    /\ UNCHANGED << next, resetting >>

\* GetMemoryChunk returns from its last step: the counter update or the mmap
ChunkFromPool(t) ==
    /\ FetchSub(t)
    /\ UseNewChunk(t, chunk[t])

ChunkFromSystem(t, c) ==
    /\ Mmap(t, c)
    /\ UseNewChunk(t, c)

-----------------------------------------------------------------------------
(* Reset, and the destructor *)

Reset(t) ==
    /\ Quiet(t)
    /\ resetting' = [resetting EXCEPT ![t] = TRUE]
    /\ allocations' = [allocations EXCEPT ![t] = << >>]
    /\ UNCHANGED << poolVars, link, m_listHead, m_currentAddress,
                    m_currentAddressEnd, request, next >>

FreeHead(t) ==
    /\ resetting[t] /\ pc[t] = "idle" /\ m_listHead[t] # Null
    /\ CallFree(t, m_listHead[t])
    /\ next' = [next EXCEPT ![t] = link[m_listHead[t]]]
    /\ UNCHANGED << link, m_listHead, m_currentAddress, m_currentAddressEnd,
                    request, resetting, allocations >>

\* mutant: the link is read from the chunk that has just been given up
AdvanceAfterFree(t) ==
    /\ FetchAdd(t) \/ Munmap(t)
    /\ m_listHead' = [m_listHead EXCEPT ![t] = link[m_listHead[t]]]
    /\ UNCHANGED << link, m_currentAddress, m_currentAddressEnd, request, next,
                    resetting, allocations >>

\* FreeMemoryChunk returns from its last step, and the loop goes on
Advance(t) ==
    /\ FetchAdd(t) \/ Munmap(t)
    /\ m_listHead' = [m_listHead EXCEPT ![t] = next[t]]
    /\ next' = [next EXCEPT ![t] = Null]
    /\ UNCHANGED << link, m_currentAddress, m_currentAddressEnd, request,
                    resetting, allocations >>

ResetDone(t) ==
    /\ ~aborted /\ resetting[t] /\ pc[t] = "idle" /\ m_listHead[t] = Null
    /\ m_currentAddress' = [m_currentAddress EXCEPT ![t] = 1]
    /\ m_currentAddressEnd' = [m_currentAddressEnd EXCEPT ![t] = 0]
    /\ resetting' = [resetting EXCEPT ![t] = FALSE]
    /\ UNCHANGED << poolVars, link, m_listHead, request, next, allocations >>

-----------------------------------------------------------------------------

\* The steps of the pool that neither start nor end a call
PoolStep(t) ==
    /\ \/ \E c \in Chunk : TryDequeue(t, c)
       \/ TryDequeueFails(t) \/ MmapFails(t)
       \/ LoadSize(t) \/ Enqueue(t) \/ EnqueueFails(t)
    /\ UNCHANGED arenaVars

ChunkArrives(t) ==
    \/ ChunkFromPool(t)
    \/ \E c \in Chunk : ChunkFromSystem(t, c)

Allocate(t) ==
    \E a \in Alignments, size \in Sizes :
        AllocateFromChunk(t, a, size) \/ AllocateNeedsChunk(t, a, size)

ArenaDead == Dead /\ UNCHANGED arenaVars

\* What a thread does once it is inside Allocate or Reset
InsideCall(t) ==
    PoolStep(t) \/ ChunkArrives(t) \/ FreeHead(t) \/ Advance(t) \/ ResetDone(t)

ArenaNext ==
    \/ ArenaDead
    \/ \E t \in Thread : Allocate(t) \/ Reset(t) \/ InsideCall(t)

ArenaSpec == ArenaInit /\ [][ArenaNext]_vars

\* Nothing in a call waits for another thread: it goes on when it is scheduled
FairArenaSpec == ArenaSpec /\ \A t \in Thread : WF_vars(InsideCall(t))

-----------------------------------------------------------------------------

ArenaTypeOK ==
    /\ TypeOK
    /\ link \in [Chunk -> Chunk \cup {Null}]
    /\ m_listHead \in [Thread -> Chunk \cup {Null}]
    /\ m_currentAddress \in [Thread -> Nat]
    /\ m_currentAddressEnd \in [Thread -> Nat]
    /\ next \in [Thread -> Chunk \cup {Null}]
    /\ resetting \in [Thread -> BOOLEAN]
    /\ request \in [Thread -> {NoRequest} \cup (Alignments \X Sizes)]
    /\ allocations \in [Thread -> Seq(Allocation)]

\* The list from head on goes through the chunks of S and no others, each
\* once: left[c] chunks remain from c on, c included.
ListHolds(links, head, S) ==
    \E left \in [S -> 1 .. Cardinality(S)] :
        /\ \A c, d \in S : left[c] = left[d] => c = d
        /\ IF S = {} THEN head = Null
           ELSE head \in S /\ left[head] = Cardinality(S)
        /\ \A c \in S :
            IF left[c] = 1 THEN links[c] = Null
            ELSE links[c] \in S /\ left[links[c]] = left[c] - 1

\* Where the list starts: once FreeAllMemoryChunks has called the pool, at the
\* chunk after the one that is being freed and that other threads may already
\* be writing to.
FirstToFree(t) ==
    IF pc[t] \in {"load", "enqueue", "munmap", "increment"}
    THEN next[t] ELSE m_listHead[t]

\* The chunks held by the thread that are not in its list: the result of a
\* GetMemoryChunk, or the chunk FreeMemoryChunk is working on.
InHand(t) ==
    IF pc[t] \in {"decrement", "load", "enqueue", "munmap"}
    THEN {chunk[t]} ELSE {}

\* The list threaded through the memory of the chunks holds exactly the
\* chunks the arena owns, at every step and whatever the other threads do
\* with the chunks this one has given up: nothing is freed twice and nothing
\* is leaked (FreeAllMemoryChunks reads the link before it frees the chunk).
ListIsWhatIsOwned ==
    \A t \in Thread :
        /\ InHand(t) \subseteq owned[t]
        /\ ListHolds(link, FirstToFree(t), owned[t] \ InHand(t))

Words(allocation) == allocation[1] .. (allocation[1] + allocation[2] - 1)

Usable(c) == (Base(c) + 1) .. (Base(c) + ChunkWords - 1)

\* Live allocations of all the arenas are pairwise disjoint, and each lies in
\* a chunk of its own arena without touching the word that holds the list.
\* An allocation of no words still points into a chunk: the initial address
\* 8 with end 0 is what sends a first such request to the pool.
AllocationsDisjoint ==
    /\ \A t \in Thread : \A i \in DOMAIN allocations[t] :
        \E c \in owned[t] :
            /\ Words(allocations[t][i]) \subseteq Usable(c)
            /\ allocations[t][i][1] \in Usable(c) \cup {Base(c) + ChunkWords}
    /\ \A t, u \in Thread :
        \A i \in DOMAIN allocations[t], j \in DOMAIN allocations[u] :
            << t, i >> # << u, j >> =>
                Words(allocations[t][i]) \cap Words(allocations[u][j]) = {}

\* What was asked for with an alignment has it, in a chunk the arena had and
\* in one that has just come (the assertion before Allocate returns).
AllocationsAligned ==
    \A t \in Thread : \A i \in DOMAIN allocations[t] :
        allocations[t][i][1] % allocations[t][i][3] = 0

\* What a client of an arena relies on, whatever other threads do with the
\* chunks this one has given up.
ArenaIsSound ==
    /\ ArenaTypeOK /\ ListIsWhatIsOwned
    /\ AllocationsDisjoint /\ AllocationsAligned

\* A reset always runs to its end, however its steps interleave with threads
\* that recycle the chunks it gives up (unless the process is aborted).
ResetTerminates ==
    \A t \in Thread : resetting[t] ~> (~resetting[t] \/ aborted)
=============================================================================

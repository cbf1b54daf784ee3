--------------------------- MODULE QueueBlockPool ---------------------------
(***************************************************************************)
(* Where the lock-free queue under the codegen memory pool gets its blocks *)
(* (thirdparty_moodycamel_concurrentqueue_impl.h): an initial pool that is *)
(* handed out with one atomic index, and FreeList, a stack without locks.  *)
(* A node of the stack carries a reference count whose top bit says that   *)
(* the node should be on the stack: a node is only linked in while nobody  *)
(* refers to it, so that a thread that read the node's successor can trust *)
(* it.  Every access to a shared word is one action.                       *)
(***************************************************************************)
EXTENDS Integers, FiniteSets

CONSTANTS
    Thread,             \* the threads enqueueing and dequeueing
    Block,              \* the blocks there may be: natural numbers
    NoBlock,            \* nullptr
    initialBlockPoolSize,
    SHOULD_BE_ON_FREELIST   \* the flag; larger than any reference count

\* What the constants must be
ConstantsOK ==
    /\ IsFiniteSet(Thread) /\ NoBlock \notin Block
    /\ initialBlockPoolSize \in Nat
    /\ 0 .. initialBlockPoolSize - 1 \subseteq Block
    /\ SHOULD_BE_ON_FREELIST \in Nat
    /\ SHOULD_BE_ON_FREELIST > Cardinality(Thread) + 1

VARIABLES
    initialBlockPoolIndex,
    created,        \* the blocks made by create<Block>()
    freeListHead,
    freeListNext,   \* of each block
    freeListRefs,   \* of each block
    held,           \* the blocks each thread holds
    pc,             \* where each thread is
    node,           \* argument of add and of add_knowing_refcount_is_zero
    head,           \* local of try_get and of add_knowing_refcount_is_zero
    prevHead,       \* local of try_get
    next,           \* local of try_get
    refs,           \* local of try_get
    resume          \* the head try_get goes on with after it has added a node

shared == << initialBlockPoolIndex, created, freeListHead, freeListNext,
             freeListRefs >>
locals == << node, head, prevHead, next, refs, resume >>
vars == << shared, held, pc, locals >>

Label == {"idle", "initial", "fetchInitial", "loadHead", "loadRefs", "casRefs",
          "loadNext", "casHead", "subTwo", "subOne", "create",
          "addFlag", "readHead", "setNext", "setRefs", "link", "addBack"}

Set(f, t, v) == [f EXCEPT ![t] = v]

Goto(t, from, to) == pc[t] = from /\ pc' = Set(pc, t, to)

\* freeListRefs & REFS_MASK, and the flag
RefCount(r) == r % SHOULD_BE_ON_FREELIST
ShouldBeOnFreeList(b) == freeListRefs[b] >= SHOULD_BE_ON_FREELIST

Init ==
    /\ initialBlockPoolIndex = 0
    /\ created = {}
    /\ freeListHead = NoBlock
    /\ freeListNext = [b \in Block |-> NoBlock]
    /\ freeListRefs = [b \in Block |-> 0]
    /\ held = [t \in Thread |-> {}]
    /\ pc = [t \in Thread |-> "idle"]
    /\ node = [t \in Thread |-> NoBlock]
    /\ head = [t \in Thread |-> NoBlock]
    /\ prevHead = [t \in Thread |-> NoBlock]
    /\ next = [t \in Thread |-> NoBlock]
    /\ refs = [t \in Thread |-> 0]
    /\ resume = [t \in Thread |-> NoBlock]

\* A call ends, and with it its locals.  Within a call too, a local that will
\* not be read any more is cleared.
Return(t) ==
    /\ pc' = Set(pc, t, "idle")
    /\ node' = Set(node, t, NoBlock)
    /\ head' = Set(head, t, NoBlock)
    /\ prevHead' = Set(prevHead, t, NoBlock)
    /\ next' = Set(next, t, NoBlock)
    /\ refs' = Set(refs, t, 0)
    /\ resume' = Set(resume, t, NoBlock)

ReturnBlock(t, b) ==
    /\ held' = [held EXCEPT ![t] = @ \cup {b}]
    /\ Return(t)

-----------------------------------------------------------------------------
(* requisition_block, try_get_block_from_initial_pool *)

Requisition(t) ==
    /\ Goto(t, "idle", "initial")
    /\ UNCHANGED << shared, held, locals >>

LoadInitialIndex(t) ==
    /\ Goto(t, "initial", IF initialBlockPoolIndex >= initialBlockPoolSize
                          THEN "loadHead" ELSE "fetchInitial")
    /\ UNCHANGED << shared, held, locals >>

\* The index may pass the size: threads that checked together all add to it
FetchInitialIndex(t) ==
    /\ pc[t] = "fetchInitial"
    /\ initialBlockPoolIndex' = initialBlockPoolIndex + 1
    /\ IF initialBlockPoolIndex < initialBlockPoolSize
       THEN ReturnBlock(t, initialBlockPoolIndex)
       ELSE /\ pc' = Set(pc, t, "loadHead")
            /\ UNCHANGED << held, locals >>
    /\ UNCHANGED << created, freeListHead, freeListNext, freeListRefs >>

\* create<Block>(), or nullptr if there is no memory
Create(t, b) ==
    /\ pc[t] = "create"
    /\ b \in Block \ (created \cup 0 .. initialBlockPoolSize - 1)
    /\ created' = created \cup {b}
    /\ ReturnBlock(t, b)
    /\ UNCHANGED << initialBlockPoolIndex, freeListHead, freeListNext,
                    freeListRefs >>

CreateFails(t) ==
    /\ pc[t] = "create"
    /\ Return(t)
    /\ UNCHANGED << shared, held >>

-----------------------------------------------------------------------------
(* FreeList::try_get *)

\* The loop goes on unless the list was seen empty
LoopOn(h) == IF h = NoBlock THEN "create" ELSE "loadRefs"

LoadHead(t) ==
    /\ Goto(t, "loadHead", LoopOn(freeListHead))
    /\ head' = Set(head, t, freeListHead)
    /\ UNCHANGED << shared, held, node, prevHead, next, refs, resume >>

LoadRefs(t) ==
    /\ pc[t] = "loadRefs"
    /\ IF RefCount(freeListRefs[head[t]]) = 0
       THEN pc' = Set(pc, t, "loadHead") /\ UNCHANGED refs
       ELSE /\ pc' = Set(pc, t, "casRefs")
            /\ refs' = Set(refs, t, freeListRefs[head[t]])
    /\ UNCHANGED << shared, held, node, head, prevHead, next, resume >>

CasRefs(t) ==
    /\ pc[t] = "casRefs"
    /\ IF freeListRefs[head[t]] = refs[t]
       THEN /\ pc' = Set(pc, t, "loadNext")
            /\ freeListRefs' = [freeListRefs EXCEPT ![head[t]] = @ + 1]
       ELSE /\ pc' = Set(pc, t, "loadHead")
            /\ UNCHANGED freeListRefs
    /\ refs' = Set(refs, t, 0)
    /\ UNCHANGED << initialBlockPoolIndex, created, freeListHead, freeListNext,
                    held, node, head, prevHead, next, resume >>

LoadNext(t) ==
    /\ Goto(t, "loadNext", "casHead")
    /\ next' = Set(next, t, freeListNext[head[t]])
    /\ UNCHANGED << shared, held, node, head, prevHead, refs, resume >>

\* A failing compare_exchange leaves the head it found in head; prevHead is
\* the one the loop began with
CasHead(t) ==
    /\ pc[t] = "casHead"
    /\ IF freeListHead = head[t]
       THEN /\ pc' = Set(pc, t, "subTwo")
            /\ freeListHead' = next[t]
            /\ UNCHANGED << head, prevHead >>
       ELSE /\ pc' = Set(pc, t, "subOne")
            /\ head' = Set(head, t, freeListHead)
            /\ prevHead' = Set(prevHead, t, head[t])
            /\ UNCHANGED freeListHead
    /\ next' = Set(next, t, NoBlock)
    /\ UNCHANGED << initialBlockPoolIndex, created, freeListNext, freeListRefs,
                    held, node, refs, resume >>

\* Our reference and that of the list
SubTwo(t) ==
    LET h == head[t] IN
    /\ pc[t] = "subTwo"
    /\ freeListRefs' = [freeListRefs EXCEPT ![h] = @ - 2]
    /\ ReturnBlock(t, h)
    /\ UNCHANGED << initialBlockPoolIndex, created, freeListHead, freeListNext >>

\* The head has changed.  Whoever drops the last reference to a node that
\* should be on the list adds it, and then goes on with its own loop.
SubOne(t) ==
    LET p == prevHead[t] IN
    /\ pc[t] = "subOne"
    /\ freeListRefs' = [freeListRefs EXCEPT ![p] = @ - 1]
    /\ IF freeListRefs[p] = SHOULD_BE_ON_FREELIST + 1
       THEN /\ pc' = Set(pc, t, "readHead")
            /\ node' = Set(node, t, p)
            /\ resume' = Set(resume, t, head[t])
            /\ UNCHANGED prevHead
       ELSE /\ pc' = Set(pc, t, LoopOn(head[t]))
            /\ prevHead' = Set(prevHead, t, NoBlock)
            /\ UNCHANGED << node, resume >>
    /\ UNCHANGED << initialBlockPoolIndex, created, freeListHead, freeListNext,
                    held, head, next, refs >>

-----------------------------------------------------------------------------
(* FreeList::add, and add_knowing_refcount_is_zero, which try_get calls too *)

AddBlockToFreeList(t, b) ==
    /\ b \in held[t]
    /\ Goto(t, "idle", "addFlag")
    /\ held' = [held EXCEPT ![t] = @ \ {b}]
    /\ node' = Set(node, t, b)
    /\ UNCHANGED << shared, head, prevHead, next, refs, resume >>

AddFlag(t) ==
    LET b == node[t] IN
    /\ pc[t] = "addFlag"
    /\ freeListRefs' = [freeListRefs EXCEPT ![b] = @ + SHOULD_BE_ON_FREELIST]
    /\ IF freeListRefs[b] = 0
       THEN pc' = Set(pc, t, "readHead") /\ UNCHANGED locals
       ELSE Return(t)
    /\ UNCHANGED << initialBlockPoolIndex, created, freeListHead, freeListNext,
                    held >>

ReadHead(t) ==
    /\ Goto(t, "readHead", "setNext")
    /\ head' = Set(head, t, freeListHead)
    /\ UNCHANGED << shared, held, node, prevHead, next, refs, resume >>

SetNext(t) ==
    /\ Goto(t, "setNext", "setRefs")
    /\ freeListNext' = [freeListNext EXCEPT ![node[t]] = head[t]]
    /\ UNCHANGED << initialBlockPoolIndex, created, freeListHead, freeListRefs,
                    held, locals >>

SetRefs(t) ==
    /\ Goto(t, "setRefs", "link")
    /\ freeListRefs' = [freeListRefs EXCEPT ![node[t]] = 1]
    /\ UNCHANGED << initialBlockPoolIndex, created, freeListHead, freeListNext,
                    held, locals >>

\* add returns to its caller, or to the loop of try_get
AddReturns(t) ==
    IF prevHead[t] = NoBlock
    THEN Return(t)
    ELSE /\ pc' = Set(pc, t, LoopOn(resume[t]))
         /\ head' = Set(head, t, resume[t])
         /\ node' = Set(node, t, NoBlock)
         /\ resume' = Set(resume, t, NoBlock)
         /\ prevHead' = Set(prevHead, t, NoBlock)
         /\ UNCHANGED << next, refs >>

Link(t) ==
    /\ pc[t] = "link"
    /\ IF freeListHead = head[t]
       THEN freeListHead' = node[t] /\ AddReturns(t)
       ELSE /\ pc' = Set(pc, t, "addBack")
            /\ head' = Set(head, t, freeListHead)
            /\ UNCHANGED << freeListHead, node, prevHead, next, refs, resume >>
    /\ UNCHANGED << initialBlockPoolIndex, created, freeListNext, freeListRefs,
                    held >>

\* Linking failed: the node is left to whoever refers to it last
AddBack(t) ==
    LET b == node[t] IN
    /\ pc[t] = "addBack"
    /\ freeListRefs' = [freeListRefs EXCEPT ![b] =
                            @ + (SHOULD_BE_ON_FREELIST - 1)]
    /\ IF freeListRefs[b] = 1
       THEN pc' = Set(pc, t, "setNext") /\ UNCHANGED locals
       ELSE AddReturns(t)
    /\ UNCHANGED << initialBlockPoolIndex, created, freeListHead, freeListNext,
                    held >>

-----------------------------------------------------------------------------

Call(t) == Requisition(t) \/ \E b \in Block : AddBlockToFreeList(t, b)

Step(t) ==
    \/ LoadInitialIndex(t)
    \/ FetchInitialIndex(t)
    \/ \E b \in Block : Create(t, b)
    \/ CreateFails(t)
    \/ LoadHead(t)
    \/ LoadRefs(t)
    \/ CasRefs(t)
    \/ LoadNext(t)
    \/ CasHead(t)
    \/ SubTwo(t)
    \/ SubOne(t)
    \/ AddFlag(t)
    \/ ReadHead(t)
    \/ SetNext(t)
    \/ SetRefs(t)
    \/ Link(t)
    \/ AddBack(t)

Next == \E t \in Thread : Call(t) \/ Step(t)

Spec == Init /\ [][Next]_vars

-----------------------------------------------------------------------------

TypeOK ==
    /\ initialBlockPoolIndex \in Nat
    /\ created \subseteq Block
    /\ freeListHead \in Block \cup {NoBlock}
    /\ freeListNext \in [Block -> Block \cup {NoBlock}]
    /\ freeListRefs \in [Block -> Nat]
    /\ held \in [Thread -> SUBSET Block]
    /\ pc \in [Thread -> Label]
    /\ {node, head, prevHead, next, resume} \subseteq
           [Thread -> Block \cup {NoBlock}]
    /\ refs \in [Thread -> Nat]

\* The blocks on the list: the least set with the head and, with a block, its
\* successor.
HasList(S) ==
    /\ freeListHead \in S \cup {NoBlock}
    /\ \A b \in S : freeListNext[b] \in S \cup {NoBlock}

OnList == {b \in Block : \A S \in SUBSET Block : HasList(S) => b \in S}

Existing ==
    created \cup {b \in 0 .. initialBlockPoolSize - 1 : b < initialBlockPoolIndex}

\* The thread has a block of its own in hand: taken off the list and not yet
\* returned, or about to be put on the list
InHand(t) ==
    IF pc[t] = "subTwo" THEN {head[t]}
    ELSE IF pc[t] \in {"addFlag", "readHead", "setNext", "setRefs", "link"}
         THEN {node[t]} ELSE {}

\* The thread has counted itself among those that refer to the block
Refers(t, b) ==
    \/ pc[t] \in {"loadNext", "casHead", "subTwo"} /\ head[t] = b
    \/ pc[t] = "subOne" /\ prevHead[t] = b

\* A block is in one place only: in the hands of one thread, or on the list,
\* or waiting for the last thread that refers to it.  It is never lost: a
\* block in none of these places is one that somebody has promised to add
\* (FreeList::add, try_get and add_knowing_refcount_is_zero, racing).
Pending == {b \in Block : ShouldBeOnFreeList(b) /\ \E t \in Thread : Refers(t, b)}

BlocksAccountedFor ==
    /\ \A t, u \in Thread : t # u =>
           (held[t] \cup InHand(t)) \cap (held[u] \cup InHand(u)) = {}
    /\ \A t \in Thread : held[t] \cap (OnList \cup Pending \cup InHand(t)) = {}
    /\ \A b \in Existing :
           \/ b \in OnList \cup Pending
           \/ \E t \in Thread : b \in held[t] \cup InHand(t)
           \/ \E t \in Thread : pc[t] = "addBack" /\ node[t] = b

\* try_get asserts, when it has taken a node off the list, that nobody wants
\* to put it there; the count of a node is exactly what refers to it: the list
\* (also while the node is being linked in) and the threads in between.
CountsAreExact ==
    \A b \in Block :
        /\ RefCount(freeListRefs[b]) =
               Cardinality({t \in Thread : Refers(t, b)})
               + (IF b \in OnList \/ (\E t \in Thread :
                        \/ pc[t] = "subTwo" /\ head[t] = b
                        \/ pc[t] \in {"link", "addBack"} /\ node[t] = b)
                  THEN 1 ELSE 0)
        /\ (\E t \in Thread : pc[t] = "subTwo" /\ head[t] = b)
               => ~ShouldBeOnFreeList(b)

\* To its users the pool of blocks is an allocator: a block is handed out
\* only while nobody holds it.
Allocator == INSTANCE ChunkAllocator WITH Chunk <- Block, owned <- held
=============================================================================

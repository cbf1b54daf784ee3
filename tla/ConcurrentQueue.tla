-------------------------- MODULE ConcurrentQueue --------------------------
(***************************************************************************)
(* The lock-free queue that the codegen memory pool keeps its free chunks  *)
(* in (thirdparty_moodycamel_concurrentqueue_impl.h), as the pool uses it: *)
(* enqueue and try_dequeue, without tokens.  Every producer has a stream   *)
(* of its own (ImplicitProducer): an unbounded array of items, cut into    *)
(* blocks that a circular, growing index finds.  Only its producer writes  *)
(* to the end of a stream; any thread takes from its head.  An access to a *)
(* word another thread may access is one action; memory is taken to be     *)
(* sequentially consistent.                                                *)
(*                                                                         *)
(* Blocks come from QueueBlockPool and the list of producers from          *)
(* ImplicitProducerHash: here a block is handed out while nobody has it,   *)
(* and the list is given.                                                  *)
(***************************************************************************)
EXTENDS Integers, Sequences, FiniteSets

CONSTANTS
    Thread,
    Consumer,           \* the threads that dequeue
    ProducerList,       \* the producers' streams, in the order of the list;
                        \* a stream is named by the thread that fills it
    Block,
    NoItem, NoBlock,    \* nullptr
    Garbage,            \* what a block pointer holds before it is written
    BLOCK_SIZE,
    IMPLICIT_INITIAL_INDEX_SIZE,
    IndexMod,           \* 2 to the width of index_t
    MaxEnqueues         \* bound: items enqueued to one stream

Producer == {ProducerList[i] : i \in 1 .. Len(ProducerList)}

\* What the constants must be
ConstantsOK ==
    /\ Producer \cup Consumer \subseteq Thread /\ Len(ProducerList) >= 1
    /\ {NoBlock, Garbage} \cap Block = {}
    /\ BLOCK_SIZE \in {2, 4, 8}
    /\ IMPLICIT_INITIAL_INDEX_SIZE \in {2, 4, 8}
    /\ IndexMod \in Nat /\ IndexMod % (2 * BLOCK_SIZE) = 0
    /\ 2 * (MaxEnqueues + BLOCK_SIZE + Cardinality(Thread)) < IndexMod

INVALID_BLOCK_BASE == 1

VARIABLES
    tailIndex, headIndex, dequeueOptimisticCount, dequeueOvercommit,
    tailBlock,      \* of each stream, as the words above
    headers,        \* the block indices each stream has had; the last is
                    \* blockIndex.  A header has the capacity Len(index).
    entries,        \* the BlockIndexEntry records of each stream
    elements,       \* the memory of each block
    elementsCompletelyDequeued,     \* of each block
    freeBlocks,     \* the blocks of the allocator
    pc,
    local           \* the locals of each thread

counters == << tailIndex, headIndex, dequeueOptimisticCount, dequeueOvercommit >>
index == << headers, entries >>
memory == << elements, elementsCompletelyDequeued, freeBlocks, tailBlock >>
vars == << counters, index, memory, pc, local >>

NoLocals == [ item |-> NoItem, block |-> NoBlock, entry |-> 0, newTail |-> 0,
              turn |-> 0, tail |-> 0, overcommit |-> 0, index |-> 0,
              header |-> 0, indexTail |-> 0,
              scanned |-> 0, best |-> 0, bestSize |-> 0, nonEmptyCount |-> 0 ]

-----------------------------------------------------------------------------
(* Numbers *)

Plus(a, b) == (a + b) % IndexMod
Minus(a, b) == (a - b) % IndexMod
circular_less_than(a, b) == Minus(a, b) > IndexMod \div 2
Signed(a) == IF 2 * a >= IndexMod THEN a - IndexMod ELSE a
Slot(i) == i % BLOCK_SIZE
BlockBase(i) == i - Slot(i)

Set(f, x, v) == [f EXCEPT ![x] = v]
At(t, label) == pc[t] = label
Goto(t, label) == pc' = Set(pc, t, label)
Stream(t) == ProducerList[local[t].turn]

-----------------------------------------------------------------------------
(* The block index of a stream *)

blockIndex(p) == Len(headers[p])

\* Positions in a header count from 0, those in its sequence from 1
Capacity(h) == Len(h.index)
EntryAt(h, i) == h.index[(i % Capacity(h)) + 1]
NewEntry == [key |-> INVALID_BLOCK_BASE, value |-> Garbage]

\* new_block_index: twice the capacity (or the initial one), the old entries
\* in the order of their blocks, then as many unused ones
FirstHeader == [ tail |-> IMPLICIT_INITIAL_INDEX_SIZE - 1,
                 index |-> [i \in 1 .. IMPLICIT_INITIAL_INDEX_SIZE |-> i] ]

GrownHeader(prev) ==
    LET capacity == Capacity(prev) IN
    [ tail |-> capacity - 1,
      index |-> [i \in 1 .. 2 * capacity |->
                    IF i <= capacity THEN EntryAt(prev, prev.tail + i)
                                     ELSE i] ]

Grown(oldEntries) == oldEntries \o [i \in DOMAIN oldEntries |-> NewEntry]

-----------------------------------------------------------------------------

\* The constructor of a producer goes on without an index if there is no memory
Init ==
    /\ tailIndex = [p \in Producer |-> 0]
    /\ headIndex = [p \in Producer |-> 0]
    /\ dequeueOptimisticCount = [p \in Producer |-> 0]
    /\ dequeueOvercommit = [p \in Producer |-> 0]
    /\ tailBlock = [p \in Producer |-> NoBlock]
    /\ headers \in [Producer -> {<< >>, << FirstHeader >>}]
    /\ entries = [p \in Producer |->
                     [i \in 1 .. IMPLICIT_INITIAL_INDEX_SIZE |-> NewEntry]]
    /\ elements = [b \in Block |-> [i \in 0 .. BLOCK_SIZE - 1 |-> NoItem]]
    /\ elementsCompletelyDequeued = [b \in Block |-> 0]
    /\ freeBlocks = Block
    /\ pc = [t \in Thread |-> "idle"]
    /\ local = [t \in Thread |-> NoLocals]

Return(t) ==
    /\ Goto(t, "idle")
    /\ local' = Set(local, t, NoLocals)

-----------------------------------------------------------------------------
(* ImplicitProducer::enqueue, called by the producer's own thread p *)

\* The queue never looks at an item: the n-th that p enqueues is << p, n >>
CallEnqueue(p) ==
    /\ At(p, "idle")
    /\ tailIndex[p] < MaxEnqueues
    /\ local' = [local EXCEPT ![p].item = << p, tailIndex[p] >>]
    /\ Goto(p, IF Slot(tailIndex[p]) = 0 THEN "loadHead" ELSE "construct")
    /\ UNCHANGED << counters, index, memory >>

\* The stream is full when the indices would come half around
LoadHead(p) ==
    /\ At(p, "loadHead")
    /\ IF circular_less_than(headIndex[p], Plus(tailIndex[p], BLOCK_SIZE))
       THEN Goto(p, "findEntry") /\ UNCHANGED local
       ELSE Return(p)
    /\ UNCHANGED << counters, index, memory >>

\* insert_block_index_entry: the entry after the tail is looked at; the value
\* only if the entry was ever used
FindIndexEntry(p) ==
    LET h == headers[p][blockIndex(p)]
        e == EntryAt(h, h.tail + 1)
        free == \/ entries[p][e].key = INVALID_BLOCK_BASE
                \/ entries[p][e].value = NoBlock IN
    /\ At(p, "findEntry")
    /\ IF blockIndex(p) = 0
       THEN Return(p)
       ELSE IF free
       THEN /\ Goto(p, "storeKey")
            /\ local' = [local EXCEPT ![p].entry = e,
                             ![p].newTail = (h.tail + 1) % Capacity(h)]
       ELSE Goto(p, "newBlockIndex") /\ UNCHANGED local
    /\ UNCHANGED << counters, index, memory >>

\* The new header is published at once, with the entries shared
NewBlockIndex(p) ==
    LET h == GrownHeader(headers[p][blockIndex(p)]) IN
    /\ At(p, "newBlockIndex")
    /\ headers' = [headers EXCEPT ![p] = Append(@, h)]
    /\ entries' = [entries EXCEPT ![p] = Grown(@)]
    /\ local' = [local EXCEPT ![p].entry = EntryAt(h, h.tail + 1),
                              ![p].newTail = h.tail + 1]
    /\ Goto(p, "storeKey")
    /\ UNCHANGED << counters, memory >>

NewBlockIndexFails(p) ==
    /\ At(p, "newBlockIndex")
    /\ Return(p)
    /\ UNCHANGED << counters, index, memory >>

StoreKey(p) ==
    /\ At(p, "storeKey")
    /\ entries' = [entries EXCEPT ![p][local[p].entry].key = tailIndex[p]]
    /\ Goto(p, "storeIndexTail")
    /\ UNCHANGED << counters, headers, memory, local >>

StoreIndexTail(p) ==
    /\ At(p, "storeIndexTail")
    /\ headers' = [headers EXCEPT ![p][blockIndex(p)].tail = local[p].newTail]
    /\ Goto(p, "requisition")
    /\ UNCHANGED << counters, entries, memory, local >>

\* requisition_block and reset_empty: nobody else has the block
Requisition(p, b) ==
    /\ At(p, "requisition")
    /\ b \in freeBlocks
    /\ freeBlocks' = freeBlocks \ {b}
    /\ elementsCompletelyDequeued' = Set(elementsCompletelyDequeued, b, 0)
    /\ local' = [local EXCEPT ![p].block = b]
    /\ Goto(p, "storeValue")
    /\ UNCHANGED << counters, index, elements, tailBlock >>

RequisitionFails(p) ==
    /\ At(p, "requisition")
    /\ Goto(p, "rewind")
    /\ UNCHANGED << counters, index, memory, local >>

\* rewind_block_index_tail
RewindBlockIndexTail(p) ==
    /\ At(p, "rewind")
    /\ headers' = [headers EXCEPT ![p][blockIndex(p)].tail =
                      (@ - 1) % Capacity(headers[p][blockIndex(p)])]
    /\ Goto(p, "unsetValue")
    /\ UNCHANGED << counters, entries, memory, local >>

UnsetValue(p) ==
    /\ At(p, "unsetValue")
    /\ entries' = [entries EXCEPT ![p][local[p].entry].value = NoBlock]
    /\ Return(p)
    /\ UNCHANGED << counters, headers, memory >>

StoreValue(p) ==
    /\ At(p, "storeValue")
    /\ entries' = [entries EXCEPT ![p][local[p].entry].value = local[p].block]
    /\ tailBlock' = Set(tailBlock, p, local[p].block)
    /\ Goto(p, "construct")
    /\ local' = [local EXCEPT ![p].block = NoBlock, ![p].entry = 0,
                              ![p].newTail = 0]
    /\ UNCHANGED << counters, headers, elements, elementsCompletelyDequeued,
                    freeBlocks >>

Construct(p) ==
    /\ At(p, "construct")
    /\ elements' = [elements EXCEPT ![tailBlock[p]][Slot(tailIndex[p])] =
                        local[p].item]
    /\ Goto(p, "storeTail")
    /\ UNCHANGED << counters, index, elementsCompletelyDequeued, freeBlocks,
                    tailBlock, local >>

StoreTail(p) ==
    /\ At(p, "storeTail")
    /\ tailIndex' = [tailIndex EXCEPT ![p] = Plus(@, 1)]
    /\ Return(p)
    /\ UNCHANGED << headIndex, dequeueOptimisticCount, dequeueOvercommit,
                    index, memory >>

-----------------------------------------------------------------------------
(* try_dequeue: the streams are scored, the best is tried first, then all  *)

CallTryDequeue(t) ==
    /\ At(t, "idle")
    /\ Goto(t, "sizeTail")
    /\ local' = [local EXCEPT ![t].turn = 1]
    /\ UNCHANGED << counters, index, memory >>

\* size_approx: the tail first, so that the head may have passed it
LoadSizeTail(t) ==
    /\ At(t, "sizeTail")
    /\ Goto(t, "sizeHead")
    /\ local' = [local EXCEPT ![t].tail = tailIndex[Stream(t)]]
    /\ UNCHANGED << counters, index, memory >>

size_approx(t) ==
    IF circular_less_than(headIndex[Stream(t)], local[t].tail)
    THEN Minus(local[t].tail, headIndex[Stream(t)]) ELSE 0

LoadSizeHead(t) ==
    LET turn == local[t].turn
        size == size_approx(t)
        isBest == size > local[t].bestSize
        count == local[t].nonEmptyCount + (IF size > 0 THEN 1 ELSE 0)
        best == IF isBest THEN turn ELSE local[t].best
        goesOn == count < 3 /\ turn < Len(ProducerList) IN
    /\ At(t, "sizeHead")
    /\ IF goesOn
       THEN /\ Goto(t, "sizeTail")
            /\ local' = [local EXCEPT
                   ![t].turn = turn + 1, ![t].tail = 0,
                   ![t].best = best, ![t].nonEmptyCount = count,
                   ![t].bestSize = IF isBest THEN size ELSE @]
       ELSE IF count > 0
       THEN /\ Goto(t, "loadTail")
            /\ local' = Set(local, t, [NoLocals EXCEPT !.turn = best, !.best = best])
       ELSE Return(t)
    /\ UNCHANGED << counters, index, memory >>

\* dequeue(item) of one stream returns false
NextTry(t) ==
    LET left == {i \in local[t].scanned + 1 .. Len(ProducerList) :
                    i # local[t].best}
        turn == CHOOSE i \in left : \A j \in left : i <= j IN
    IF left = {}
    THEN Return(t)
    ELSE /\ Goto(t, "loadTail")
         /\ local' = Set(local, t, [NoLocals EXCEPT !.turn = turn,
                             !.scanned = turn, !.best = local[t].best])

-----------------------------------------------------------------------------
(* ImplicitProducer::dequeue.  headIndex is only advanced by threads that  *)
(* were counted in dequeueOptimisticCount and saw an item left for them;   *)
(* those counted in vain count themselves in dequeueOvercommit as well.    *)

LoadTail(t) ==
    /\ At(t, "loadTail")
    /\ Goto(t, "loadOvercommit")
    /\ local' = [local EXCEPT ![t].tail = tailIndex[Stream(t)]]
    /\ UNCHANGED << counters, index, memory >>

LoadOvercommit(t) ==
    /\ At(t, "loadOvercommit")
    /\ Goto(t, "loadOptimistic")
    /\ local' = [local EXCEPT ![t].overcommit = dequeueOvercommit[Stream(t)]]
    /\ UNCHANGED << counters, index, memory >>

LoadOptimistic(t) ==
    LET count == Minus(dequeueOptimisticCount[Stream(t)], local[t].overcommit) IN
    /\ At(t, "loadOptimistic")
    /\ IF circular_less_than(count, local[t].tail)
       THEN Goto(t, "addOptimistic") /\ local' = [local EXCEPT ![t].tail = 0]
       ELSE NextTry(t)
    /\ UNCHANGED << counters, index, memory >>

AddOptimistic(t) ==
    LET p == Stream(t) IN
    /\ At(t, "addOptimistic")
    /\ local' = [local EXCEPT ![t].index = dequeueOptimisticCount[p]]
    /\ dequeueOptimisticCount' = [dequeueOptimisticCount EXCEPT ![p] = Plus(@, 1)]
    /\ Goto(t, "reloadTail")
    /\ UNCHANGED << tailIndex, headIndex, dequeueOvercommit, index, memory >>

\* mutant: the item the first check saw is taken to be still there
ReloadTailTrusts(t) ==
    /\ At(t, "reloadTail")
    /\ Goto(t, "addHead")
    /\ local' = [local EXCEPT ![t].index = 0, ![t].overcommit = 0]
    /\ UNCHANGED << counters, index, memory >>

\* The overcommit used is the one loaded before: it can only have grown
ReloadTail(t) ==
    LET count == Minus(local[t].index, local[t].overcommit) IN
    /\ At(t, "reloadTail")
    /\ Goto(t, IF circular_less_than(count, tailIndex[Stream(t)])
               THEN "addHead" ELSE "addOvercommit")
    /\ local' = [local EXCEPT ![t].index = 0, ![t].overcommit = 0]
    /\ UNCHANGED << counters, index, memory >>

\* mutant: a thread counted in vain leaves it at that
AddOvercommitForgets(t) ==
    /\ At(t, "addOvercommit")
    /\ NextTry(t)
    /\ UNCHANGED << counters, index, memory >>

AddOvercommit(t) ==
    /\ At(t, "addOvercommit")
    /\ dequeueOvercommit' = [dequeueOvercommit EXCEPT ![Stream(t)] = Plus(@, 1)]
    /\ NextTry(t)
    /\ UNCHANGED << tailIndex, headIndex, dequeueOptimisticCount, index,
                    memory >>

AddHead(t) ==
    LET p == Stream(t) IN
    /\ At(t, "addHead")
    /\ headIndex' = [headIndex EXCEPT ![p] = Plus(@, 1)]
    /\ local' = [local EXCEPT ![t].index = headIndex[p]]
    /\ Goto(t, "loadIndex")
    /\ UNCHANGED << tailIndex, dequeueOptimisticCount, dequeueOvercommit,
                    index, memory >>

\* get_block_index_index_for_index: the index may grow and its tail move on
\* between any two of these loads, and entries are recycled
LoadBlockIndex(t) ==
    /\ At(t, "loadIndex")
    /\ Goto(t, "loadIndexTail")
    /\ local' = [local EXCEPT ![t].header = blockIndex(Stream(t))]
    /\ UNCHANGED << counters, index, memory >>

Header(t) == headers[Stream(t)][local[t].header]

LoadIndexTail(t) ==
    /\ At(t, "loadIndexTail")
    /\ Goto(t, "loadKey")
    /\ local' = [local EXCEPT ![t].indexTail = Header(t).tail]
    /\ UNCHANGED << counters, index, memory >>

TailBase(t) == entries[Stream(t)][EntryAt(Header(t), local[t].indexTail)].key

LoadKey(t) ==
    LET offset == Signed(Minus(BlockBase(local[t].index), TailBase(t)))
                      \div BLOCK_SIZE IN
    /\ At(t, "loadKey")
    /\ Goto(t, "loadValue")
    /\ local' = [local EXCEPT ![t].header = 0, ![t].indexTail = 0,
                     ![t].entry = EntryAt(Header(t), local[t].indexTail + offset)]
    /\ UNCHANGED << counters, index, memory >>

EntryFound(t) == entries[Stream(t)][local[t].entry]

LoadValue(t) ==
    /\ At(t, "loadValue")
    /\ EntryFound(t).value \in Block
    /\ Goto(t, "readElement")
    /\ local' = [local EXCEPT ![t].block = EntryFound(t).value]
    /\ UNCHANGED << counters, index, memory >>

\* The item is moved out and destroyed
ReadElement(t) ==
    LET b == local[t].block
        i == Slot(local[t].index) IN
    /\ At(t, "readElement")
    /\ local' = [local EXCEPT ![t].item = elements[b][i]]
    /\ elements' = [elements EXCEPT ![b][i] = NoItem]
    /\ Goto(t, "setEmpty")
    /\ UNCHANGED << counters, index, elementsCompletelyDequeued, freeBlocks,
                    tailBlock >>

\* set_empty: the last to finish with the block gives it back
SetEmpty(t) ==
    LET b == local[t].block IN
    /\ At(t, "setEmpty")
    /\ elementsCompletelyDequeued' = [elementsCompletelyDequeued EXCEPT ![b] = @ + 1]
    /\ IF elementsCompletelyDequeued[b] = BLOCK_SIZE - 1
       THEN Goto(t, "unsetEntry") /\ UNCHANGED local
       ELSE Return(t)
    /\ UNCHANGED << counters, index, elements, freeBlocks, tailBlock >>

\* mutant: the block is given back and stays in the index
UnsetEntryForgets(t) ==
    /\ At(t, "unsetEntry")
    /\ Goto(t, "addToFreeList")
    /\ UNCHANGED << counters, index, memory, local >>

UnsetEntry(t) ==
    /\ At(t, "unsetEntry")
    /\ entries' = [entries EXCEPT ![Stream(t)][local[t].entry].value = NoBlock]
    /\ Goto(t, "addToFreeList")
    /\ UNCHANGED << counters, headers, memory, local >>

AddBlockToFreeList(t) ==
    /\ At(t, "addToFreeList")
    /\ freeBlocks' = freeBlocks \cup {local[t].block}
    /\ Return(t)
    /\ UNCHANGED << counters, index, elements, elementsCompletelyDequeued,
                    tailBlock >>

-----------------------------------------------------------------------------
(* ~ImplicitProducer, when no call is in progress: the blocks it gives back *)

\* get_block_index_entry_for_index, with nobody interfering
BlockOf(p, i) ==
    LET h == headers[p][blockIndex(p)]
        base == entries[p][EntryAt(h, h.tail)].key
        offset == Signed(Minus(BlockBase(i), base)) \div BLOCK_SIZE
    IN  entries[p][EntryAt(h, h.tail + offset)].value

\* The block enqueue writes to, unless all of it has been dequeued
LastBlock(p) ==
    IF /\ tailBlock[p] # NoBlock
       /\ headIndex[p] # tailIndex[p] \/ Slot(tailIndex[p]) # 0
    THEN {tailBlock[p]} ELSE {}

\* The loop over the items gives a block back when it comes to the next one
BlocksOfItems(p) ==
    {BlockOf(p, i) : i \in {j \in headIndex[p] .. tailIndex[p] - 1 :
                                BlockBase(j) + BLOCK_SIZE < tailIndex[p]}}

-----------------------------------------------------------------------------

EnqueueStep(p) ==
    \/ LoadHead(p)
    \/ FindIndexEntry(p)
    \/ NewBlockIndex(p)
    \/ NewBlockIndexFails(p)
    \/ StoreKey(p)
    \/ StoreIndexTail(p)
    \/ \E b \in Block : Requisition(p, b)
    \/ RequisitionFails(p)
    \/ RewindBlockIndexTail(p)
    \/ UnsetValue(p)
    \/ StoreValue(p)
    \/ Construct(p)
    \/ StoreTail(p)

DequeueStep(t) ==
    \/ LoadSizeTail(t)
    \/ LoadSizeHead(t)
    \/ LoadTail(t)
    \/ LoadOvercommit(t)
    \/ LoadOptimistic(t)
    \/ AddOptimistic(t)
    \/ ReloadTail(t)
    \/ AddOvercommit(t)
    \/ AddHead(t)
    \/ LoadBlockIndex(t)
    \/ LoadIndexTail(t)
    \/ LoadKey(t)
    \/ LoadValue(t)
    \/ ReadElement(t)
    \/ SetEmpty(t)
    \/ UnsetEntry(t)
    \/ AddBlockToFreeList(t)

Step(t) == (t \in Producer /\ EnqueueStep(t)) \/ DequeueStep(t)

Next ==
    \/ \E p \in Producer : CallEnqueue(p)
    \/ \E t \in Consumer : CallTryDequeue(t)
    \/ \E t \in Thread : Step(t)

Spec == Init /\ [][Next]_vars

-----------------------------------------------------------------------------
(* Properties *)

Label == {"idle", "loadHead", "findEntry", "newBlockIndex", "storeKey",
          "storeIndexTail", "requisition", "rewind", "unsetValue", "storeValue",
          "construct", "storeTail", "sizeTail", "sizeHead", "loadTail",
          "loadOvercommit", "loadOptimistic", "addOptimistic", "reloadTail",
          "addOvercommit", "addHead", "loadIndex", "loadIndexTail", "loadKey",
          "loadValue", "readElement", "setEmpty", "unsetEntry",
          "addToFreeList"}

Index == 0 .. IndexMod - 1

\* The threads at one of some labels that work on the stream of p
Working(p, labels) ==
    {t \in Thread : pc[t] \in labels /\ local[t].turn > 0 /\ Stream(t) = p}

\* The claims of a stream: a thread between its increment of headIndex and the
\* end of its call has the item with that index
AfterClaim == {"loadIndex", "loadIndexTail", "loadKey", "loadValue",
               "readElement", "setEmpty", "unsetEntry", "addToFreeList"}
BeforeRead == AfterClaim \ {"setEmpty", "unsetEntry", "addToFreeList"}

\* Every word holds a value of its kind.
TypeOK ==
    /\ {tailIndex, headIndex, dequeueOptimisticCount, dequeueOvercommit}
           \subseteq [Producer -> Index]
    /\ tailBlock \in [Producer -> Block \cup {NoBlock}]
    /\ \A p \in Producer : \A i \in DOMAIN entries[p] :
           /\ entries[p][i].key \in Index
           /\ entries[p][i].value \in Block \cup {NoBlock, Garbage}
    /\ \A p \in Producer : \A i \in DOMAIN headers[p] :
           headers[p][i].tail \in 0 .. Capacity(headers[p][i]) - 1
    /\ elements \in [Block -> [0 .. BLOCK_SIZE - 1 ->
                              (Producer \X Index) \cup {NoItem}]]
    /\ elementsCompletelyDequeued \in [Block -> 0 .. BLOCK_SIZE]
    /\ freeBlocks \subseteq Block
    /\ pc \in [Thread -> Label]

\* The three counters of a stream always add up to the dequeues that have been
\* counted and are not decided yet.  When there are none, the first check of
\* dequeue is thus exact: an item in the stream is never out of reach because
\* of dequeues that were counted in vain.
CountersAgree ==
    \A p \in Producer :
        Minus(Minus(dequeueOptimisticCount[p], dequeueOvercommit[p]), headIndex[p])
            = Cardinality(Working(p, {"reloadTail", "addHead", "addOvercommit"}))

\* The threads that will increment headIndex without a further check all find
\* an item left, although each of them decided on counters it read one by one.
NoClaimBeyondTail ==
    \A p \in Producer :
        LET left == Minus(tailIndex[p], headIndex[p]) IN
        /\ left <= IndexMod \div 2
        /\ Cardinality(Working(p, {"addHead"})) <= left

\* The assertions of the code: the lookup of a claimed item finds the entry of
\* its block, whatever the producer does to the index meanwhile; a value that
\* was never written is not looked at; no block is emptied twice.
AssertionsHold ==
    /\ \A t \in Thread :
           /\ At(t, "loadKey") => TailBase(t) # INVALID_BLOCK_BASE
           /\ At(t, "loadValue") => /\ EntryFound(t).key = BlockBase(local[t].index)
                                    /\ EntryFound(t).value \in Block
           /\ At(t, "setEmpty") =>
                  elementsCompletelyDequeued[local[t].block] < BLOCK_SIZE
    /\ \A p \in Producer : \A i \in DOMAIN entries[p] :
           entries[p][i].value = Garbage =>
               \/ entries[p][i].key = INVALID_BLOCK_BASE
               \/ /\ local[p].entry = i
                  /\ pc[p] \in {"storeIndexTail", "requisition", "rewind",
                                "unsetValue", "storeValue"}

\* A block is free, in the hands of one thread or in one entry of one index.
BlocksAccountedFor ==
    \A b \in Block :
        LET inHand == {t \in Thread : /\ local[t].block = b
                                      /\ pc[t] \in {"storeValue", "addToFreeList"}}
            indexed == UNION {{<< p, i >> : i \in {j \in DOMAIN entries[p] :
                                                      entries[p][j].value = b}}
                                  : p \in Producer} IN
        Cardinality(inHand) + Cardinality(indexed)
            + (IF b \in freeBlocks THEN 1 ELSE 0) = 1

\* Whenever no call is in progress, the destructors would give back each block
\* that is not free, and each once: whether the last block of a stream is full,
\* partly filled, empty or already given back.
DestructorsFreeAll ==
    (\A t \in Thread : At(t, "idle")) =>
        LET freed == UNION {BlocksOfItems(p) \cup LastBlock(p) : p \in Producer} IN
        /\ freed = Block \ freeBlocks
        /\ \A p \in Producer : BlocksOfItems(p) \cap LastBlock(p) = {}

\* The abstract queue: a stream holds the items between its head and its tail;
\* a thread has the item it has claimed, once it has read one, the one it read.
StreamOf(p) ==
    [i \in 1 .. Minus(tailIndex[p], headIndex[p]) |-> << p, headIndex[p] + i - 1 >>]

InHand(t) ==
    IF pc[t] \in BeforeRead THEN << Stream(t), local[t].index >>
    ELSE IF pc[t] \in AfterClaim THEN local[t].item ELSE NoItem

\* The queue implements the streams: each item comes out once, in the order of
\* its producer, and is the one that was enqueued there.
Streams == INSTANCE QueueStreams WITH
    Nothing <- NoItem,
    produced <- tailIndex,
    stream <- [p \in Producer |-> StreamOf(p)],
    inHand <- [t \in Thread |-> InHand(t)]

=============================================================================

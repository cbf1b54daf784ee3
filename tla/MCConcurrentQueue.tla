------------------------- MODULE MCConcurrentQueue -------------------------
(***************************************************************************)
(* The lock-free queue for TLC.  Its components do not share state, so a   *)
(* behaviour here is one of one component, in one setting: Init picks it,  *)
(* and everything else stays as it is.                                     *)
(*                                                                         *)
(*   race     one producer, two consumers, three blocks                    *)
(*   index    one producer, one consumer: the index wraps, grows and wraps *)
(*   streams  two threads that both enqueue and dequeue                    *)
(*   hash     three threads register, two of them with ids that collide    *)
(*   pool     two threads take and give back three blocks                  *)
(*   drain    like race, smaller, for liveness                             *)
(*   register two threads with colliding ids register, for liveness        *)
(*   return   like pool, with two blocks, for liveness                     *)
(***************************************************************************)
EXTENDS Integers, Sequences, FiniteSets, TLC, TLAPS

CONSTANTS t1, t2, t3, b1, b2, b3, None, Garbage,
          Parts     \* the settings that are looked at

VARIABLES
    part, pc,
    \* ConcurrentQueue
    tailIndex, headIndex, dequeueOptimisticCount, dequeueOvercommit, tailBlock,
    headers, entries, elements, elementsCompletelyDequeued, freeBlocks, local,
    \* ImplicitProducerHash
    tables, main, count, resizing, used, list, mainHash, hash, index, newCount,
    mine, tail, returned,
    \* QueueBlockPool
    initialBlockPoolIndex, created, freeListHead, freeListNext, freeListRefs,
    held, node, head, prevHead, next, refs, resume

queueVars ==
    << tailIndex, headIndex, dequeueOptimisticCount, dequeueOvercommit,
       tailBlock, headers, entries, elements, elementsCompletelyDequeued,
       freeBlocks, local >>
hashVars ==
    << tables, main, count, resizing, used, list, mainHash, hash, index,
       newCount, mine, tail, returned >>
poolVars ==
    << initialBlockPoolIndex, created, freeListHead, freeListNext,
       freeListRefs, held, node, head, prevHead, next, refs, resume >>
suite == << part, pc, queueVars, hashVars, poolVars >>

Race == INSTANCE ConcurrentQueue WITH
    Thread <- {t1, t2, t3}, ProducerList <- << t1 >>, Consumer <- {t2, t3},
    Block <- {b1, b2, b3}, NoItem <- None, NoBlock <- None, BLOCK_SIZE <- 2,
    IMPLICIT_INITIAL_INDEX_SIZE <- 2, IndexMod <- 32, MaxEnqueues <- 4

Index == INSTANCE ConcurrentQueue WITH
    Thread <- {t1, t2}, ProducerList <- << t1 >>, Consumer <- {t2},
    Block <- {b1, b2, b3}, NoItem <- None, NoBlock <- None, BLOCK_SIZE <- 2,
    IMPLICIT_INITIAL_INDEX_SIZE <- 2, IndexMod <- 32, MaxEnqueues <- 10

TwoStreams == INSTANCE ConcurrentQueue WITH
    Thread <- {t1, t2}, ProducerList <- << t1, t2 >>, Consumer <- {t1, t2},
    Block <- {b1, b2}, NoItem <- None, NoBlock <- None, BLOCK_SIZE <- 2,
    IMPLICIT_INITIAL_INDEX_SIZE <- 2, IndexMod <- 32, MaxEnqueues <- 2

\* t2 and t3 start at the same slot of every table; with what is proved of it
HashTable == INSTANCE ImplicitProducerHashProofs WITH
    Thread <- {t1, t2, t3}, NoThread <- None, Producer <- 1 .. 4,
    NoProducer <- 0, InitialCapacity <- 2,
    Hash <- [t \in {t1, t2, t3} |-> IF t = t1 THEN 0 ELSE 3]

Drain == INSTANCE ConcurrentQueue WITH
    Thread <- {t1, t2, t3}, ProducerList <- << t1 >>, Consumer <- {t2, t3},
    Block <- {b1, b2}, NoItem <- None, NoBlock <- None, BLOCK_SIZE <- 2,
    IMPLICIT_INITIAL_INDEX_SIZE <- 2, IndexMod <- 32, MaxEnqueues <- 3

Register == INSTANCE ImplicitProducerHash WITH
    Thread <- {t2, t3}, NoThread <- None, Producer <- 1 .. 3,
    NoProducer <- 0, InitialCapacity <- 2, Hash <- [t \in {t2, t3} |-> 3]

Pool == INSTANCE QueueBlockPool WITH
    Thread <- {t2, t3}, Block <- 0 .. 2, NoBlock <- None,
    initialBlockPoolSize <- 2, SHOULD_BE_ON_FREELIST <- 8

SmallPool == INSTANCE QueueBlockPool WITH
    Thread <- {t2, t3}, Block <- 0 .. 1, NoBlock <- None,
    initialBlockPoolSize <- 1, SHOULD_BE_ON_FREELIST <- 8

ASSUME ConstantsAssumption ==
    /\ Race!ConstantsOK /\ Index!ConstantsOK /\ TwoStreams!ConstantsOK
    /\ Drain!ConstantsOK
    /\ HashTable!ConstantsOK /\ Register!ConstantsOK
    /\ Pool!ConstantsOK /\ SmallPool!ConstantsOK

NoQueue ==
    /\ tailIndex = 0 /\ headIndex = 0 /\ dequeueOptimisticCount = 0
    /\ dequeueOvercommit = 0 /\ tailBlock = 0 /\ headers = 0 /\ entries = 0
    /\ elements = 0 /\ elementsCompletelyDequeued = 0 /\ freeBlocks = 0
    /\ local = 0
NoHash ==
    /\ tables = 0 /\ main = 0 /\ count = 0 /\ resizing = 0 /\ used = 0
    /\ list = 0 /\ mainHash = 0 /\ hash = 0 /\ index = 0 /\ newCount = 0
    /\ mine = 0 /\ tail = 0 /\ returned = 0
NoPool ==
    /\ initialBlockPoolIndex = 0 /\ created = 0 /\ freeListHead = 0
    /\ freeListNext = 0 /\ freeListRefs = 0 /\ held = 0 /\ node = 0
    /\ head = 0 /\ prevHead = 0 /\ next = 0 /\ refs = 0 /\ resume = 0

Init ==
    /\ part \in Parts
    /\ \/ part = "race" /\ Race!Init /\ NoHash /\ NoPool
       \/ part = "index" /\ Index!Init /\ NoHash /\ NoPool
       \/ part = "streams" /\ TwoStreams!Init /\ NoHash /\ NoPool
       \/ part = "hash" /\ HashTable!Init /\ NoQueue /\ NoPool
       \/ part = "pool" /\ Pool!Init /\ NoQueue /\ NoHash
       \/ part = "drain" /\ Drain!Init /\ NoHash /\ NoPool
       \/ part = "register" /\ Register!Init /\ NoQueue /\ NoPool
       \/ part = "return" /\ SmallPool!Init /\ NoQueue /\ NoHash

RaceStep == part = "race" /\ Race!Next /\ UNCHANGED << part, hashVars, poolVars >>
IndexStep == part = "index" /\ Index!Next /\ UNCHANGED << part, hashVars, poolVars >>
StreamsStep ==
    part = "streams" /\ TwoStreams!Next /\ UNCHANGED << part, hashVars, poolVars >>
HashStep ==
    part = "hash" /\ HashTable!Next /\ UNCHANGED << part, queueVars, poolVars >>
PoolStep == part = "pool" /\ Pool!Next /\ UNCHANGED << part, queueVars, hashVars >>
DrainStep == part = "drain" /\ Drain!Next /\ UNCHANGED << part, hashVars, poolVars >>
RegisterStep ==
    part = "register" /\ Register!Next /\ UNCHANGED << part, queueVars, poolVars >>
ReturnStep == part = "return" /\ SmallPool!Next /\ UNCHANGED << part, queueVars, hashVars >>

Next ==
    \/ RaceStep \/ IndexStep \/ StreamsStep \/ HashStep \/ PoolStep
    \/ DrainStep \/ RegisterStep \/ ReturnStep

Spec == Init /\ [][Next]_suite

\* A thread inside a call is scheduled again and again
FairSpec ==
    /\ Spec
    /\ \A t \in {t1, t2, t3} :
           WF_suite(part = "drain" /\ Drain!Step(t)
                    /\ UNCHANGED << part, hashVars, poolVars >>)
    /\ \A t \in {t2, t3} :
           /\ WF_suite(part = "register" /\ Register!Step(t)
                       /\ UNCHANGED << part, queueVars, poolVars >>)
           /\ WF_suite(part = "return" /\ SmallPool!Step(t)
                       /\ UNCHANGED << part, queueVars, hashVars >>)

\* t1 is told apart as the producer and by its hash
Symmetry == Permutations({t2, t3}) \cup Permutations({b1, b2, b3})

-----------------------------------------------------------------------------

\* The counters of a stream (enqueue, dequeue and their four indices): those
\* that are decided and those that are not add up, nobody claims an item that
\* is not there, and every lookup through a block index that is grown, rewound
\* and recycled meanwhile finds the block of the item.
IndicesAgree ==
    /\ part = "race" => /\ Race!CountersAgree /\ Race!NoClaimBeyondTail
                        /\ Race!AssertionsHold
    /\ part = "index" => Index!AssertionsHold
    /\ part = "streams" => TwoStreams!TypeOK /\ TwoStreams!CountersAgree

\* Blocks are never lost, shared or given back twice: by a stream, its index
\* and its destructor, and by the pool and its list without locks, whose
\* reference counts are exact.
BlocksAccountedFor ==
    /\ part = "race" => Race!BlocksAccountedFor
    /\ part = "index" => Index!BlocksAccountedFor /\ Index!DestructorsFreeAll
    /\ part = "pool" => /\ Pool!TypeOK /\ Pool!BlocksAccountedFor
                        /\ Pool!CountsAreExact

\* The queue (enqueue and dequeue, access by access) implements one first-in-
\* first-out stream per producer; the pool of blocks implements an allocator
\* that hands out a block only while nobody holds it.
ImplementsAbstractions ==
    /\ part = "race" => Race!Streams!Init
    /\ part = "streams" => TwoStreams!Streams!Init
    /\ part = "pool" => Pool!Allocator!Init
    /\ [][/\ part = "race" => [Race!Streams!Next]_(Race!Streams!vars)
          /\ part = "streams" => [TwoStreams!Streams!Next]_(TwoStreams!Streams!vars)
          /\ part = "pool" => [Pool!Allocator!Next]_(held)
         ]_suite

\* Threads that register while the hash table is replaced: every probe finds an
\* end, no two threads get the same stream and none is missing from the list,
\* and the count of producers is exact.
ProducersAreListed ==
    part = "hash" => /\ HashTable!TypeOK /\ HashTable!RoomToProbe
                     /\ HashTable!StreamsAreOwnAndListed /\ HashTable!CountIsExact

\* A thread that was given a stream is given the same one ever after.
SameStreamForever ==
    [][part = "hash" =>
          \A t \in {t1, t2, t3} : returned[t] # 0 => returned'[t] = returned[t]]_suite

\* A thread that is left alone with the queue and goes on asking drains it,
\* whatever the calls of the others have left behind in the counters.
Draining(t) == part = "drain" /\ pc[t] # "idle"
Drained == part = "drain" => headIndex[t1] = tailIndex[t1]
LoneConsumerDrains ==
    \A t \in {t2, t3} :
        /\ <>[](\A u \in {t1, t2, t3} \ {t} : ~Draining(u))
        /\ []<>Draining(t)
        => []<>Drained

\* Every call that looks a thread up in the hash table ends: whoever waits for
\* a larger table gets one, or makes it.  The flag is no fair lock, so it is
\* assumed that malloc does not fail again and again.  And however the threads
\* are scheduled, those inside a call to the pool of blocks do not go round in
\* circles together, each undoing what another did.
MemoryIsFound ==
    <>[][part = "register" => \A t \in {t2, t3} : ~Register!AllocateFails(t)]_suite
CallsEnd ==
    /\ MemoryIsFound => \A t \in {t2, t3} :
           (part = "register" /\ pc[t] # "idle") ~> (pc[t] = "idle")
    /\ \A S \in SUBSET {t2, t3} \ {{}} :
           ~<>[](part = "return" /\ {t \in {t2, t3} : pc[t] # "idle"} = S)

-----------------------------------------------------------------------------
(* The hash table, from what is proved of it for any threads, hashes and   *)
(* capacities                                                              *)

SuiteHashInv == part = "hash" => HashTable!HashIInv

LEMMA HashStepOfSuite ==
    ASSUME SuiteHashInv, [Next]_suite, part' = "hash"
    PROVE  HashTable!HashIInv /\ [HashTable!Next]_HashTable!vars
<1>1. part = "hash" /\ (HashTable!Next \/ UNCHANGED << pc, hashVars >>)
      BY DEF Next, suite, RaceStep, IndexStep, StreamsStep, HashStep, PoolStep, DrainStep,
         RegisterStep, ReturnStep
<1>2. [HashTable!Next]_HashTable!vars
      BY <1>1 DEF hashVars, HashTable!vars, HashTable!shared, HashTable!locals
<1>3. QED
      BY <1>1, <1>2 DEF SuiteHashInv

LEMMA HashAlways == Spec => []SuiteHashInv
<1>1. Init => SuiteHashInv
      BY ConstantsAssumption, HashTable!InitHash DEF Init, SuiteHashInv
<1>2. SuiteHashInv /\ [Next]_suite => SuiteHashInv'
      BY ConstantsAssumption, HashStepOfSuite, HashTable!StepHash DEF SuiteHashInv
<1>3. QED
      BY <1>1, <1>2, PTL DEF Spec

\* However the calls of get_or_add_implicit_producer interleave: every probe of
\* every table finds an end, no two threads share a stream, none is missing from
\* the list, and the count of producers is exact.
THEOREM Registration == Spec => []ProducersAreListed
<1>1. SuiteHashInv => ProducersAreListed
      BY ConstantsAssumption, HashTable!HashIsTyped, HashTable!HashHasRoom, HashTable!HashStreams
         DEF SuiteHashInv, ProducersAreListed, HashTable!HashIInv
<1>2. QED
      BY <1>1, HashAlways, PTL

\* A thread that was given a stream gets no other one, through whichever table
\* it is found (get_or_add_implicit_producer).
THEOREM SameStream == Spec => SameStreamForever
<1>1. SuiteHashInv /\ [Next]_suite =>
          [part = "hash" =>
              \A t \in {t1, t2, t3} : returned[t] # 0 => returned'[t] = returned[t]]_suite
  <2>1. SUFFICES ASSUME SuiteHashInv, [Next]_suite, part = "hash", suite' # suite,
                        NEW t \in {t1, t2, t3}, returned[t] # 0
                 PROVE  returned'[t] = returned[t]
        OBVIOUS
  <2>2. part' = "hash"
        BY <2>1 DEF Next, RaceStep, IndexStep, StreamsStep, HashStep, PoolStep, DrainStep,
           RegisterStep, ReturnStep
  <2>3. HashTable!HashIInv /\ [HashTable!Next]_HashTable!vars
        BY <2>1, <2>2, HashStepOfSuite
  <2>4. QED
        BY <2>1, <2>3, ConstantsAssumption, HashTable!HashSameStream
<1>2. QED
      BY <1>1, HashAlways, PTL DEF Spec, SameStreamForever
=============================================================================

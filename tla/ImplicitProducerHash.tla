------------------------ MODULE ImplicitProducerHash ------------------------
(***************************************************************************)
(* How a thread finds its stream in the lock-free queue under the codegen  *)
(* memory pool (thirdparty_moodycamel_concurrentqueue_impl.h): a hash      *)
(* table without locks from thread ids to producers, replaced by a larger  *)
(* one while other threads still look into, and insert into, the old one;  *)
(* and the list of all producers, which those who dequeue walk along.      *)
(* The build does not define MOODYCAMEL_CPP11_THREAD_LOCAL_SUPPORTED: no   *)
(* producer becomes inactive, and a thread that gets the id of a thread    *)
(* that has ended gets its producer as well.  Here threads are their ids.  *)
(***************************************************************************)
EXTENDS Integers, FiniteSets, Sequences

CONSTANTS
    Thread,         \* the ids: thread_id()
    NoThread,       \* invalid_thread_id
    Producer,       \* the producers, numbered in the order they are created in
    NoProducer,     \* nullptr
    Hash,           \* hash_thread_id
    InitialCapacity \* INITIAL_IMPLICIT_PRODUCER_HASH_SIZE, a power of two

\* What the constants must be
ConstantsOK ==
    /\ IsFiniteSet(Thread) /\ NoThread \notin Thread
    /\ NoProducer = 0 /\ Producer \subseteq Nat \ {0}
    /\ Hash \in [Thread -> Nat]
    /\ InitialCapacity \in Nat \ {0}

VARIABLES
    tables,     \* every hash table made; pointers to them are positions
    main,       \* implicitProducerHash
    count,      \* implicitProducerHashCount
    resizing,   \* implicitProducerHashResizeInProgress
    used,       \* the producers created
    list,       \* the producers reachable from producerListTail
    pc,
    mainHash,   \* local: the table that is current for the call
    hash,       \* local: the table being probed
    index,      \* local
    newCount,   \* local
    mine,       \* local: value, or producer
    tail,       \* local of add_producer: prevTail
    returned    \* what get_or_add_implicit_producer last returned to the thread

shared == << tables, main, count, resizing, used, list >>
locals == << mainHash, hash, index, newCount, mine, tail >>
vars == << shared, pc, locals, returned >>

Set(f, t, v) == [f EXCEPT ![t] = v]
Goto(t, from, to) == pc[t] = from /\ pc' = Set(pc, t, to)

\* A table has a key and a value in each slot, and the table it replaced, if
\* any: 0 is the null pointer
EmptyTable(capacity, prev) ==
    [key |-> [i \in 0 .. capacity - 1 |-> NoThread],
     value |-> [i \in 0 .. capacity - 1 |-> NoProducer],
     prev |-> prev]
Capacity(k) == Cardinality(DOMAIN tables[k].key)
\* index &= capacity - 1
Slot(k, i) == i % Capacity(k)

Init ==
    /\ tables = << EmptyTable(InitialCapacity, 0) >>
    /\ main = 1
    /\ count = 0
    /\ resizing = FALSE
    /\ used = {}
    /\ list = << >>
    /\ pc = [t \in Thread |-> "idle"]
    /\ mainHash = [t \in Thread |-> 0]
    /\ hash = [t \in Thread |-> 0]
    /\ index = [t \in Thread |-> 0]
    /\ newCount = [t \in Thread |-> 0]
    /\ mine = [t \in Thread |-> NoProducer]
    /\ tail = [t \in Thread |-> << >>]
    /\ returned = [t \in Thread |-> NoProducer]

Return(t, p) ==
    /\ pc' = Set(pc, t, "idle")
    /\ returned' = Set(returned, t, p)
    /\ mainHash' = Set(mainHash, t, 0)
    /\ hash' = Set(hash, t, 0)
    /\ index' = Set(index, t, 0)
    /\ newCount' = Set(newCount, t, 0)
    /\ mine' = Set(mine, t, NoProducer)
    /\ tail' = Set(tail, t, << >>)

-----------------------------------------------------------------------------
(* get_or_add_implicit_producer: looking for the thread in all tables *)

LoadMain(t) ==
    /\ Goto(t, "idle", "probe")
    /\ mainHash' = Set(mainHash, t, main)
    /\ hash' = Set(hash, t, main)
    /\ index' = Set(index, t, Hash[t])
    /\ UNCHANGED << shared, newCount, mine, tail, returned >>

\* One round of the inner loop; it leaves for the previous table at an empty
\* slot, and for the insertion when there is no table left
Probe(t) ==
    LET k == hash[t]
        i == Slot(k, index[t])
        probedKey == tables[k].key[i]
    IN  /\ pc[t] = "probe"
        /\ \/ /\ probedKey = t
              /\ IF k = mainHash[t]
                 THEN Return(t, tables[k].value[i])
                 ELSE /\ pc' = Set(pc, t, "claim")
                      /\ mine' = Set(mine, t, tables[k].value[i])
                      /\ index' = Set(index, t, Hash[t])
                      /\ UNCHANGED << mainHash, hash, newCount, tail, returned >>
           \/ /\ probedKey = NoThread
              /\ IF tables[k].prev # 0
                 THEN /\ hash' = Set(hash, t, tables[k].prev)
                      /\ index' = Set(index, t, Hash[t])
                      /\ UNCHANGED pc
                 ELSE /\ pc' = Set(pc, t, "count")
                      /\ hash' = Set(hash, t, 0)
                      /\ index' = Set(index, t, 0)
              /\ UNCHANGED << mainHash, newCount, mine, tail, returned >>
           \/ /\ probedKey \notin {t, NoThread}
              /\ index' = Set(index, t, Slot(k, i + 1))
              /\ UNCHANGED << pc, mainHash, hash, newCount, mine, tail, returned >>
        /\ UNCHANGED shared

\* The thread puts its producer into the table it believes to be current: the
\* key with a compare_exchange, then, in a step of its own, the value
Claim(t) ==
    LET k == mainHash[t]
        i == Slot(k, index[t])
    IN  /\ pc[t] = "claim"
        /\ IF tables[k].key[i] = NoThread
           THEN /\ tables' = [tables EXCEPT ![k].key[i] = t]
                /\ pc' = Set(pc, t, "store")
                /\ index' = Set(index, t, i)
           ELSE /\ index' = Set(index, t, Slot(k, i + 1))
                /\ UNCHANGED << tables, pc >>
        /\ UNCHANGED << main, count, resizing, used, list, mainHash, hash,
                        newCount, mine, tail, returned >>

StoreValue(t) ==
    LET k == mainHash[t] IN
    /\ pc[t] = "store"
    /\ tables' = [tables EXCEPT ![k].value[index[t]] = mine[t]]
    /\ Return(t, mine[t])
    /\ UNCHANGED << main, count, resizing, used, list >>

-----------------------------------------------------------------------------
(* Inserting: a larger table if need be, and the wait for one *)

FetchCount(t) ==
    /\ Goto(t, "count", "resize?")
    /\ newCount' = Set(newCount, t, count + 1)
    /\ count' = count + 1
    /\ UNCHANGED << tables, main, resizing, used, list, mainHash, hash, index,
                    mine, tail, returned >>

HalfFull(t, k) == newCount[t] >= Capacity(k) \div 2

\* Less than three quarters full
RoomInOldTable(t) ==
    newCount[t] < Capacity(mainHash[t]) \div 2 + Capacity(mainHash[t]) \div 4

TestAndSet(t) ==
    /\ pc[t] = "resize?"
    /\ IF HalfFull(t, mainHash[t]) /\ ~resizing
       THEN /\ pc' = Set(pc, t, "reload")
            /\ resizing' = TRUE
       ELSE /\ pc' = Set(pc, t, "room?")
            /\ UNCHANGED resizing
    /\ UNCHANGED << tables, main, count, used, list, locals, returned >>

\* Only the holder of the flag changes implicitProducerHash
ReloadMain(t) ==
    /\ Goto(t, "reload", IF HalfFull(t, main) THEN "allocate" ELSE "clear")
    /\ mainHash' = Set(mainHash, t, main)
    /\ UNCHANGED << shared, hash, index, newCount, mine, tail, returned >>

\* The smallest doubling of which newCount is less than half, as a set of one
NewCapacities(t) ==
    LET doubled(n) == Capacity(mainHash[t]) * 2^n
        enough == {n \in 1 .. newCount[t] + 1 : newCount[t] < doubled(n) \div 2}
    IN  {doubled(n) : n \in {m \in enough : \A k \in enough : m <= k}}

\* mutant: the new table does not remember the one it replaces
AllocateForgets(t) ==
    /\ Goto(t, "allocate", "clear")
    /\ \E capacity \in NewCapacities(t) :
           tables' = Append(tables, EmptyTable(capacity, 0))
    /\ main' = Len(tables) + 1
    /\ mainHash' = Set(mainHash, t, Len(tables) + 1)
    /\ UNCHANGED << count, resizing, used, list, hash, index, newCount, mine,
                    tail, returned >>

Allocate(t) ==
    /\ Goto(t, "allocate", "clear")
    /\ \E capacity \in NewCapacities(t) :
           tables' = Append(tables, EmptyTable(capacity, mainHash[t]))
    /\ main' = Len(tables) + 1
    /\ mainHash' = Set(mainHash, t, Len(tables) + 1)
    /\ UNCHANGED << count, resizing, used, list, hash, index, newCount, mine,
                    tail, returned >>

AllocateFails(t) ==
    /\ Goto(t, "allocate", "unlock")
    /\ count' = count - 1
    /\ UNCHANGED << tables, main, resizing, used, list, locals, returned >>

ClearFlag(t) ==
    /\ Goto(t, "clear", "room?")
    /\ resizing' = FALSE
    /\ UNCHANGED << tables, main, count, used, list, locals, returned >>

\* mutant: when there is no memory the flag stays set
ClearFlagAndFailForgets(t) ==
    /\ pc[t] = "unlock"
    /\ Return(t, NoProducer)
    /\ UNCHANGED shared

ClearFlagAndFail(t) ==
    /\ pc[t] = "unlock"
    /\ resizing' = FALSE
    /\ Return(t, NoProducer)
    /\ UNCHANGED << tables, main, count, used, list >>

\* There is room, or the thread waits for whoever holds the flag
LookForRoom(t) ==
    /\ pc[t] = "room?"
    /\ IF RoomInOldTable(t)
       THEN pc' = Set(pc, t, "create") /\ UNCHANGED mainHash
       ELSE /\ pc' = Set(pc, t, "resize?")
            /\ mainHash' = Set(mainHash, t, main)
    /\ UNCHANGED << shared, hash, index, newCount, mine, tail, returned >>

\* recycle_or_create_producer finds no inactive producer, and makes one;
\* add_producer has read producerListTail
CreateProducer(t, p) ==
    /\ p \in Producer
    /\ p = Cardinality(used) + 1
    /\ Goto(t, "create", "link")
    /\ used' = used \cup {p}
    /\ mine' = Set(mine, t, p)
    /\ tail' = Set(tail, t, list)
    /\ UNCHANGED << tables, main, count, resizing, list, mainHash, hash, index,
                    newCount, returned >>

CreateProducerFails(t) ==
    /\ pc[t] = "create"
    /\ count' = count - 1
    /\ Return(t, NoProducer)
    /\ UNCHANGED << tables, main, resizing, used, list >>

\* mutant: the tail is stored, not exchanged
LinkProducerBlindly(t) ==
    /\ Goto(t, "link", "claim")
    /\ list' = << mine[t] >> \o tail[t]
    /\ tail' = Set(tail, t, << >>)
    /\ index' = Set(index, t, Hash[t])
    /\ UNCHANGED << tables, main, count, resizing, used, mainHash, hash,
                    newCount, mine, returned >>

\* compare_exchange_weak in a loop: a failure, spurious or not, reads the tail
LinkProducer(t) ==
    /\ pc[t] = "link"
    /\ \/ /\ list = tail[t]
          /\ list' = << mine[t] >> \o tail[t]
          /\ pc' = Set(pc, t, "claim")
          /\ tail' = Set(tail, t, << >>)
          /\ index' = Set(index, t, Hash[t])
       \/ /\ list # tail[t]
          /\ tail' = Set(tail, t, list)
          /\ UNCHANGED << list, pc, index >>
    /\ UNCHANGED << tables, main, count, resizing, used, mainHash, hash,
                    newCount, mine, returned >>

-----------------------------------------------------------------------------

Step(t) ==
    \/ Probe(t)
    \/ Claim(t)
    \/ StoreValue(t)
    \/ FetchCount(t)
    \/ TestAndSet(t)
    \/ ReloadMain(t)
    \/ Allocate(t)
    \/ AllocateFails(t)
    \/ ClearFlag(t)
    \/ ClearFlagAndFail(t)
    \/ LookForRoom(t)
    \/ \E p \in Producer : CreateProducer(t, p)
    \/ CreateProducerFails(t)
    \/ LinkProducer(t)

Next == \E t \in Thread : LoadMain(t) \/ Step(t)

Spec == Init /\ [][Next]_vars

-----------------------------------------------------------------------------

Label == {"idle", "probe", "claim", "store", "count", "resize?", "reload",
          "allocate", "unlock", "clear", "room?", "create", "link"}

TypeOK ==
    /\ main \in 1 .. Len(tables)
    /\ \A k \in 1 .. Len(tables) :
           /\ tables[k].key \in [0 .. Capacity(k) - 1 -> Thread \cup {NoThread}]
           /\ tables[k].value \in [0 .. Capacity(k) - 1 -> Producer \cup {NoProducer}]
           /\ tables[k].prev \in 0 .. k - 1
    /\ count \in Nat
    /\ resizing \in BOOLEAN
    /\ list \in Seq(used)
    /\ used \subseteq Producer
    /\ pc \in [Thread -> Label]
    /\ {mine, returned} \subseteq [Thread -> Producer \cup {NoProducer}]
    /\ {mainHash, hash} \subseteq [Thread -> 0 .. Len(tables)]

\* "Not an infinite loop because at least one slot is free in the hash table":
\* that holds for every table at every moment, also for an old one that
\* threads still fill because they have not seen its successor, and for the
\* current one, into which threads copy what they found in older ones without
\* being counted again.
RoomToProbe ==
    \A k \in 1 .. Len(tables) : \E i \in DOMAIN tables[k].key :
        tables[k].key[i] = NoThread

\* No two threads are given the same stream (a stream has one writer), and a
\* stream is on the list those who dequeue walk along before anything can be
\* put into it: else its elements would be lost.
StreamsAreOwnAndListed ==
    \A t \in Thread : returned[t] # NoProducer =>
        /\ \A u \in Thread \ {t} : returned[u] # returned[t]
        /\ \E i \in 1 .. Len(list) : list[i] = returned[t]

\* The counter that decides when a table is too small counts every thread once
\* that has a producer or is getting one, however often its entry was copied
\* and on whichever path a call gave up.
Registered(t) ==
    \E k \in 1 .. Len(tables), p \in Producer :
        \E i \in DOMAIN tables[k].key :
            tables[k].key[i] = t /\ tables[k].value[i] = p
Counted(t) ==
    \/ Registered(t)
    \/ pc[t] \in {"resize?", "reload", "allocate", "clear", "room?", "create",
                   "link", "claim", "store"}
CountIsExact == count = Cardinality({t \in Thread : Counted(t)})

=============================================================================

---------------------- MODULE ImplicitProducerHashProofs ----------------------
(***************************************************************************)
(* The hash table of producers for any finite set of threads, any hash     *)
(* function and any initial capacity: every probe finds an end, no two     *)
(* threads get the same stream, a thread gets the same one ever after, none*)
(* is missing from the list, and the count is exact.                       *)
(***************************************************************************)
EXTENDS ImplicitProducerHash, FiniteSetTheorems, TLAPS

-----------------------------------------------------------------------------
(* The inductive invariant *)

\* A table of so many slots
Table(c) == [key : [0 .. c - 1 -> Thread \cup {NoThread}],
             value : [0 .. c - 1 -> Producer \cup {NoProducer}],
             prev : Nat]
AllTables == UNION {Table(c) : c \in Nat \ {0}}

Slots(k) == DOMAIN tables[k].key

\* The slots that a probe for t comes to, beginning at slot h: those in every
\* set that has h and, with a slot that holds another thread, the next one.
Closed(k, t, S) ==
    \A i \in S : tables[k].key[i] \notin {t, NoThread} => Slot(k, i + 1) \in S
OnPath(k, t, h, s) ==
    \A S \in SUBSET Slots(k) : h \in S /\ Closed(k, t, S) => s \in S
Probed(k, t, s) == OnPath(k, t, Slot(k, Hash[t]), s)

InTable(k, t) == \E i \in Slots(k) : tables[k].key[i] = t
InTables(t, p) ==
    \E k \in 1 .. Len(tables) : \E i \in Slots(k) :
        tables[k].key[i] = t /\ tables[k].value[i] = p

\* A call, by how far it has come
Holding == {"reload", "allocate", "unlock", "clear"}
Pending == {"resize?", "reload", "allocate", "clear", "room?"}
Registering == Pending \cup {"count", "unlock", "create", "link"}
Committed == {"create", "link", "claim", "store"}

\* Every variable has its type; the current table is the last one.
SharedType ==
    /\ tables \in Seq(AllTables) /\ main = Len(tables) /\ main >= 1
    /\ count \in Nat /\ resizing \in BOOLEAN
    /\ used \subseteq Producer /\ \E n \in Nat : used = 1 .. n
    /\ list \in Seq(used)
LocalsType ==
    /\ pc \in [Thread -> Label]
    /\ mainHash \in [Thread -> Nat] /\ hash \in [Thread -> Nat]
    /\ index \in [Thread -> Nat] /\ newCount \in [Thread -> Nat]
    /\ mine \in [Thread -> Producer \cup {NoProducer}]
    /\ returned \in [Thread -> Producer \cup {NoProducer}]
HashType == SharedType /\ LocalsType

\* A table remembers the one before it, and is not smaller.
TablesGrow ==
    /\ \A k \in 1 .. Len(tables) : tables[k].prev = k - 1
    /\ \A j, k \in 1 .. Len(tables) : j <= k => Capacity(j) <= Capacity(k)

\* The flag is a lock, and whoever allocates has seen the last table.
FlagIsLock ==
    /\ \A t \in Thread : pc[t] \in Holding => resizing
    /\ \A t, u \in Thread : pc[t] \in Holding /\ pc[u] \in Holding => t = u
    /\ \A t \in Thread :
           pc[t] = "allocate" => mainHash[t] = main /\ HalfFull(t, main)

\* A key is in one slot of a table, where a probe for it ends; it has a value
\* unless its thread is about to store it.
KeysOK(k) ==
    /\ \A i, j \in Slots(k) :
           tables[k].key[i] = tables[k].key[j] /\ tables[k].key[i] # NoThread => i = j
    /\ \A i \in Slots(k) : tables[k].key[i] = NoThread => tables[k].value[i] = NoProducer
    /\ \A t \in Thread : \A i \in Slots(k) : tables[k].key[i] = t =>
           /\ Probed(k, t, i)
           /\ tables[k].value[i] = NoProducer =>
                  pc[t] = "store" /\ mainHash[t] = k /\ index[t] = i

\* What a call knows: where the thread is not, and that its place is on the
\* path of its probe.
CallOK(t) ==
    /\ mainHash[t] \in 0 .. Len(tables) /\ hash[t] \in 0 .. Len(tables)
    /\ pc[t] # "idle" => mainHash[t] # 0
    /\ pc[t] = "probe" =>
           /\ hash[t] \in 1 .. mainHash[t]
           /\ Probed(hash[t], t, Slot(hash[t], index[t]))
           /\ \A j \in hash[t] + 1 .. Len(tables) : ~InTable(j, t)
    /\ pc[t] \in Registering =>
           /\ \A j \in 1 .. Len(tables) : ~InTable(j, t)
           /\ returned[t] = NoProducer
    /\ pc[t] = "claim" =>
           /\ Probed(mainHash[t], t, Slot(mainHash[t], index[t]))
           /\ \A j \in mainHash[t] .. Len(tables) : ~InTable(j, t)
    /\ pc[t] = "store" =>
           /\ index[t] \in Slots(mainHash[t])
           /\ tables[mainHash[t]].key[index[t]] = t
           /\ tables[mainHash[t]].value[index[t]] = NoProducer
    /\ pc[t] \in {"link", "claim", "store"} => mine[t] # NoProducer

\* A producer belongs to the thread it was made for, and is on the list when
\* that thread goes on.
Owns(t, p) ==
    \/ InTables(t, p)
    \/ pc[t] \in {"link", "claim", "store"} /\ mine[t] = p
    \/ returned[t] = p
OwnersOK ==
    /\ \A t, u \in Thread : \A p, q \in Producer :
           Owns(t, p) /\ Owns(u, q) => (t = u <=> p = q)
    /\ \A t \in Thread : \A p \in Producer : Owns(t, p) =>
           /\ p \in used
           /\ pc[t] # "link" => \E i \in 1 .. Len(list) : list[i] = p
    /\ \A t \in Thread : \A p \in Producer : returned[t] = p => InTables(t, p)

\* The threads that are in the table or an older one, or will be put there; and
\* those that may be found room in it, having counted v threads or fewer.
Settled(k, t) ==
    \/ \E j \in 1 .. k : InTable(j, t)
    \/ pc[t] \in Committed /\ mainHash[t] <= k
Claimants(k, v) ==
    {t \in Thread : Settled(k, t) \/ (pc[t] \in Pending /\ newCount[t] <= v)}

\* "Every subsequent table implicitly reserves space for all previous tables":
\* whoever counted v threads, itself included, was the last of v at most.
Limit(k) == Capacity(k) \div 2 + Capacity(k) \div 4
RoomIsReserved ==
    \A k \in 1 .. Len(tables) : \A v \in Nat :
        v + 1 >= Limit(k) => Cardinality(Claimants(k, v)) <= v

CountedThreads == {t \in Thread : Counted(t)}

HashIInv ==
    /\ HashType /\ TablesGrow /\ FlagIsLock
    /\ \A k \in 1 .. Len(tables) : KeysOK(k)
    /\ \A t \in Thread : CallOK(t)
    /\ OwnersOK /\ CountIsExact /\ RoomIsReserved

-----------------------------------------------------------------------------
(* Tables, and the path of a probe *)

\* The shape of a table.
LEMMA TableShape ==
    ASSUME tables \in Seq(AllTables), NEW k \in 1 .. Len(tables)
    PROVE  /\ Capacity(k) \in Nat \ {0}
           /\ Slots(k) = 0 .. Capacity(k) - 1
           /\ tables[k] \in Table(Capacity(k))
           /\ tables[k].key \in [Slots(k) -> Thread \cup {NoThread}]
           /\ tables[k].value \in [Slots(k) -> Producer \cup {NoProducer}]
<1>1. PICK c \in Nat \ {0} : tables[k] \in Table(c)
      BY DEF AllTables
<1>2. Slots(k) = 0 .. c - 1
      BY <1>1 DEF Table, Slots
<1>3. Cardinality(0 .. c - 1) = c
      BY FS_Interval
<1>4. Capacity(k) = c
      BY <1>2, <1>3 DEF Capacity, Slots
<1>5. QED
      BY <1>1, <1>2, <1>4 DEF Table

\* A new table.
LEMMA EmptyShape ==
    ASSUME NEW c \in Nat \ {0}, NEW prev \in Nat
    PROVE  EmptyTable(c, prev) \in Table(c)
  BY DEF EmptyTable, Table

\* An index is brought into the table.
LEMMA SlotInTable ==
    ASSUME tables \in Seq(AllTables), NEW k \in 1 .. Len(tables), NEW n \in Nat
    PROVE  /\ Slot(k, n) \in Slots(k)
           /\ Slot(k, n) \in Nat
           /\ Slot(k, Slot(k, n)) = Slot(k, n)
<1> DEFINE c == Capacity(k)
<1>1. c \in Nat \ {0} /\ Slots(k) = 0 .. c - 1
      BY TableShape
<1> HIDE DEF c
<1>2. n % c \in 0 .. c - 1 /\ (n % c) % c = n % c
      BY <1>1, SMT
<1>3. PICK m : m = n % c
      OBVIOUS
<1>4. Slot(k, n) = m /\ Slot(k, m) = m % c
      BY <1>3 DEF Slot, c
<1>5. m \in 0 .. c - 1 /\ m % c = m
      BY <1>2, <1>3
<1>6. m \in Slots(k) /\ m \in Nat
      BY <1>1, <1>5
<1>7. QED
      BY <1>4, <1>5, <1>6, Zenon

\* Slots are natural numbers.
LEMMA SlotIsNatural ==
    ASSUME tables \in Seq(AllTables), NEW k \in 1 .. Len(tables), NEW i \in Slots(k)
    PROVE  i \in Nat /\ Slot(k, i) = i
<1>1. Capacity(k) \in Nat \ {0} /\ i \in 0 .. Capacity(k) - 1
      BY TableShape
<1>2. QED
      BY <1>1, SMT DEF Slot

\* A probe begins on its path, and goes on along it.
LEMMA ProbeBegins ==
    ASSUME NEW k, NEW t
    PROVE  Probed(k, t, Slot(k, Hash[t]))
  BY DEF Probed, OnPath

LEMMA ProbeGoesOn ==
    ASSUME NEW k, NEW t, NEW i \in Slots(k), Probed(k, t, i),
           tables[k].key[i] \notin {t, NoThread}
    PROVE  Probed(k, t, Slot(k, i + 1))
  BY DEF Probed, OnPath, Closed

\* A path ends in one slot only.
LEMMA PathEnds ==
    ASSUME NEW k, NEW t, NEW h, NEW i \in Slots(k), NEW j \in Slots(k),
           OnPath(k, t, h, i), OnPath(k, t, h, j), h \in Slots(k),
           \A s \in Slots(k) : Slot(k, s + 1) \in Slots(k),
           tables[k].key[i] \in {t, NoThread}, tables[k].key[j] \in {t, NoThread}
    PROVE  i = j
<1> DEFINE T == {s \in Slots(k) : OnPath(k, t, s, i)}
<1>1. h \in T
      OBVIOUS
<1>2. Closed(k, t, T)
  <2>1. SUFFICES ASSUME NEW s \in T, tables[k].key[s] \notin {t, NoThread}
                 PROVE  Slot(k, s + 1) \in T
        BY DEF Closed
  <2>2. SUFFICES ASSUME NEW S \in SUBSET Slots(k), Slot(k, s + 1) \in S, Closed(k, t, S)
                 PROVE  i \in S
        BY DEF OnPath
  <2>3. Closed(k, t, S \cup {s})
        BY <2>2 DEF Closed
  <2>4. i \in S \cup {s}
        BY <2>3 DEF OnPath
  <2>5. QED
        BY <2>1, <2>4
<1>3. j \in T
      BY <1>1, <1>2 DEF OnPath
<1>4. Closed(k, t, {j})
      BY DEF Closed
<1>5. i \in {j}
      BY <1>3, <1>4 DEF OnPath
<1>6. QED
      BY <1>5

\* A probe that comes to an empty slot has not missed its thread, and one that
\* finds its thread has found the only slot.
LEMMA ProbeIsRight ==
    ASSUME HashType, NEW t \in Thread, Hash[t] \in Nat,
           NEW k \in 1 .. Len(tables), KeysOK(k),
           NEW i \in Slots(k), Probed(k, t, i), tables[k].key[i] \in {t, NoThread},
           NEW j \in Slots(k), tables[k].key[j] = t
    PROVE  i = j
<1>1. tables \in Seq(AllTables)
      BY DEF HashType, SharedType, LocalsType
<1>2. Slot(k, Hash[t]) \in Slots(k)
      BY <1>1, SlotInTable
<1>3. \A s \in Slots(k) : Slot(k, s + 1) \in Slots(k)
  <2>1. SUFFICES ASSUME NEW s \in Slots(k) PROVE Slot(k, s + 1) \in Slots(k)
        OBVIOUS
  <2>2. s + 1 \in Nat
        BY <1>1, SlotIsNatural
  <2>3. QED
        BY <1>1, <2>2, SlotInTable
<1>4. Probed(k, t, j)
      BY DEF KeysOK
<1>5. QED
      BY <1>2, <1>3, <1>4, PathEnds DEF Probed

-----------------------------------------------------------------------------
(* What a step of one thread leaves alone *)

\* Tables are only added, keys and values only put into empty places: by t.
Grown(t) ==
    /\ Len(tables) <= Len(tables')
    /\ \A k \in 1 .. Len(tables) :
           /\ DOMAIN tables'[k].key = Slots(k)
           /\ tables'[k].prev = tables[k].prev
           /\ \A i \in Slots(k) :
                  /\ \/ tables'[k].key[i] = tables[k].key[i]
                     \/ tables[k].key[i] = NoThread /\ tables'[k].key[i] = t
                  /\ \/ tables'[k].value[i] = tables[k].value[i]
                     \/ tables[k].value[i] = NoProducer /\ tables[k].key[i] = t
    /\ \A k \in Len(tables) + 1 .. Len(tables') : \A i \in DOMAIN tables'[k].key :
           tables'[k].key[i] = NoThread /\ tables'[k].value[i] = NoProducer

OtherLocals(t) ==
    \A u \in Thread \ {t} :
        /\ pc'[u] = pc[u] /\ mainHash'[u] = mainHash[u] /\ hash'[u] = hash[u]
        /\ index'[u] = index[u] /\ newCount'[u] = newCount[u]
        /\ mine'[u] = mine[u] /\ returned'[u] = returned[u]

LEMMA TablesKept ==
    ASSUME NEW t \in Thread, UNCHANGED tables, tables \in Seq(AllTables)
    PROVE  Grown(t)
  BY DEF Grown, Slots

\* Sizes stay, and paths only grow.
LEMMA GrownSizes ==
    ASSUME NEW t \in Thread, Grown(t), NEW k \in 1 .. Len(tables)
    PROVE  /\ Slots(k)' = Slots(k)
           /\ Capacity(k)' = Capacity(k)
           /\ \A i : Slot(k, i)' = Slot(k, i)
           /\ Limit(k)' = Limit(k)
<1>1. DOMAIN tables'[k].key = Slots(k)
      BY DEF Grown
<1>2. Slots(k)' = Slots(k)
      BY <1>1 DEF Slots
<1>3. Capacity(k)' = Capacity(k)
      BY <1>1 DEF Capacity, Slots
<1>4. QED
      BY <1>2, <1>3 DEF Slot, Limit

LEMMA GrownPath ==
    ASSUME NEW t \in Thread, NoThread \notin Thread, Grown(t), NEW k \in 1 .. Len(tables),
           NEW u \in Thread, NEW s, Probed(k, u, s)
    PROVE  Probed(k, u, s)'
<1>1. /\ Slots(k)' = Slots(k)
      /\ \A i : Slot(k, i)' = Slot(k, i)
      BY GrownSizes
<1>2. SUFFICES ASSUME NEW S \in SUBSET Slots(k), Slot(k, Hash[u]) \in S, Closed(k, u, S)'
               PROVE  s \in S
      BY <1>1 DEF Probed, OnPath
<1>3. Closed(k, u, S)
  <2>1. SUFFICES ASSUME NEW i \in S, tables[k].key[i] \notin {u, NoThread}
                 PROVE  Slot(k, i + 1) \in S
        BY DEF Closed
  <2>2. tables'[k].key[i] = tables[k].key[i]
        BY <2>1 DEF Grown
  <2>3. Slot(k, i + 1)' \in S
        BY <1>2, <2>1, <2>2 DEF Closed
  <2>4. QED
        BY <1>1, <2>3
<1>4. QED
      BY <1>2, <1>3 DEF Probed, OnPath

\* Where a thread is, it stays; and no step of another one puts it anywhere.
LEMMA GrownKeys ==
    ASSUME NEW t \in Thread, NoThread \notin Thread, Grown(t), NEW k \in 1 .. Len(tables),
           NEW u \in Thread
    PROVE  /\ InTable(k, u) => InTable(k, u)'
           /\ u # t => (InTable(k, u)' <=> InTable(k, u))
<1>1. Slots(k)' = Slots(k)
      BY GrownSizes
<1>2. \A i \in Slots(k) : \/ tables'[k].key[i] = tables[k].key[i]
                          \/ tables[k].key[i] = NoThread /\ tables'[k].key[i] = t
      BY DEF Grown
<1>3. QED
      BY <1>1, <1>2 DEF InTable

LEMMA NewTableIsEmpty ==
    ASSUME NEW t \in Thread, NoThread \notin Thread, Grown(t),
           NEW k \in Len(tables) + 1 .. Len(tables'), NEW u \in Thread
    PROVE  ~InTable(k, u)'
  BY DEF Grown, InTable, Slots

LEMMA GrownValues ==
    ASSUME ConstantsOK, tables \in Seq(AllTables), tables' \in Seq(AllTables),
           NEW t \in Thread, Grown(t), NEW u \in Thread, NEW p \in Producer
    PROVE  /\ InTables(u, p) => InTables(u, p)'
           /\ u # t => (InTables(u, p)' <=> InTables(u, p))
<1> USE DEF ConstantsOK
<1>1. Len(tables) \in Nat /\ Len(tables') \in Nat /\ Len(tables) <= Len(tables')
      BY DEF Grown
<1>2. ASSUME NEW k \in 1 .. Len(tables), NEW i \in Slots(k),
             tables[k].key[i] = u, tables[k].value[i] = p
      PROVE  InTables(u, p)'
  <2>1. tables'[k].key[i] = u /\ tables'[k].value[i] = p /\ i \in DOMAIN tables'[k].key
        BY <1>2 DEF Grown
  <2>2. k \in 1 .. Len(tables')
        BY <1>1
  <2>3. QED
        BY <2>1, <2>2 DEF InTables, Slots
<1>3. ASSUME u # t, NEW k \in 1 .. Len(tables'), NEW i \in DOMAIN tables'[k].key,
             tables'[k].key[i] = u, tables'[k].value[i] = p
      PROVE  InTables(u, p)
  <2>1. k \in 1 .. Len(tables)
    <3>1. CASE k \in Len(tables) + 1 .. Len(tables')
          BY <1>3, <3>1 DEF Grown
    <3>2. QED
          BY <1>1, <3>1
  <2>2. i \in Slots(k) /\ tables[k].key[i] = u /\ tables[k].value[i] = p
        BY <1>3, <2>1 DEF Grown
  <2>3. QED
        BY <2>1, <2>2 DEF InTables
<1>4. QED
      BY <1>2, <1>3 DEF InTables, Slots

\* What another call knows remains true.
LEMMA OtherCallKept ==
    ASSUME ConstantsOK, HashIInv, NEW t \in Thread, Grown(t), tables' \in Seq(AllTables),
           OtherLocals(t), NEW u \in Thread, u # t
    PROVE  CallOK(u)'
<1> USE DEF ConstantsOK
<1>1. /\ pc'[u] = pc[u] /\ mainHash'[u] = mainHash[u] /\ hash'[u] = hash[u]
      /\ index'[u] = index[u] /\ mine'[u] = mine[u] /\ returned'[u] = returned[u]
      BY DEF OtherLocals
<1>2. /\ Len(tables) \in Nat /\ Len(tables') \in Nat /\ Len(tables) <= Len(tables')
      /\ mainHash[u] \in Nat /\ hash[u] \in Nat /\ index[u] \in Nat /\ CallOK(u)
      BY DEF HashIInv, HashType, SharedType, LocalsType, Grown
<1>3. \A j \in 1 .. Len(tables') : InTable(j, u)' => j \in 1 .. Len(tables) /\ InTable(j, u)
  <2>1. SUFFICES ASSUME NEW j \in 1 .. Len(tables'), InTable(j, u)'
                 PROVE  j \in 1 .. Len(tables) /\ InTable(j, u)
        OBVIOUS
  <2>2. CASE j \in 1 .. Len(tables)
        BY <2>1, <2>2, GrownKeys
  <2>3. CASE j \notin 1 .. Len(tables)
    <3>1. j \in Len(tables) + 1 .. Len(tables')
          BY <1>2, <2>3
    <3>2. QED
          BY <3>1, <2>1, NewTableIsEmpty
  <2>4. QED
        BY <2>2, <2>3
<1>4. /\ mainHash[u] \in 0 .. Len(tables') /\ hash[u] \in 0 .. Len(tables')
      /\ pc[u] # "idle" => mainHash[u] \in 1 .. Len(tables) /\ mainHash[u] # 0
      BY <1>2 DEF CallOK
<1>5. ASSUME pc[u] = "probe"
      PROVE  /\ hash[u] \in 1 .. mainHash[u]
             /\ Probed(hash[u], u, Slot(hash[u], index[u]))'
             /\ \A j \in hash[u] + 1 .. Len(tables') : ~InTable(j, u)'
  <2>1. hash[u] \in 1 .. mainHash[u] /\ hash[u] \in 1 .. Len(tables)
        BY <1>2, <1>4, <1>5 DEF CallOK
  <2>2. \A j \in hash[u] + 1 .. Len(tables) : ~InTable(j, u)
        BY <1>2, <1>5 DEF CallOK
  <2>3. PICK k \in 1 .. Len(tables) : k = hash[u]
        BY <2>1
  <2>4. PICK i : i = index[u]
        OBVIOUS
  <2>5. Probed(k, u, Slot(k, i))
        BY <1>2, <1>5, <2>3, <2>4 DEF CallOK
  <2>6. Slot(k, i)' = Slot(k, i)
        BY GrownSizes
  <2>7. Probed(k, u, Slot(k, i))'
    <3>1. PICK s : s = Slot(k, i)
          OBVIOUS
    <3>2. Probed(k, u, s)'
          BY <2>5, <3>1, GrownPath
    <3>3. s = Slot(k, i)'
          BY <2>6, <3>1
    <3>4. QED
          BY <3>2, <3>3 DEF Probed, OnPath
  <2>8. \A j \in hash[u] + 1 .. Len(tables') : j \in 1 .. Len(tables') /\ ~InTable(j, u)'
    <3>1. SUFFICES ASSUME NEW j \in hash[u] + 1 .. Len(tables')
                   PROVE  j \in 1 .. Len(tables') /\ ~InTable(j, u)'
          OBVIOUS
    <3>2. j \in 1 .. Len(tables')
          BY <1>2, <2>1
    <3>3. QED
          BY <3>2, <1>2, <1>3, <2>2
  <2>9. QED
        BY <1>1, <2>1, <2>3, <2>4, <2>7, <2>8
<1>6. ASSUME pc[u] \in Registering
      PROVE  /\ \A j \in 1 .. Len(tables') : ~InTable(j, u)'
             /\ returned[u] = NoProducer
      BY <1>2, <1>3, <1>6 DEF CallOK
<1>7. ASSUME pc[u] = "claim"
      PROVE  /\ Probed(mainHash[u], u, Slot(mainHash[u], index[u]))'
             /\ \A j \in mainHash[u] .. Len(tables') : ~InTable(j, u)'
  <2>1. mainHash[u] \in 1 .. Len(tables)
        BY <1>4, <1>7
  <2>2. PICK k \in 1 .. Len(tables) : k = mainHash[u]
        BY <2>1
  <2>3. PICK i : i = index[u]
        OBVIOUS
  <2>4. PICK s : s = Slot(k, i)
        OBVIOUS
  <2>5. Probed(k, u, s)
        BY <1>2, <1>7, <2>2, <2>3, <2>4 DEF CallOK
  <2>6. Probed(k, u, s)' /\ s = Slot(k, i)'
        BY <2>4, <2>5, GrownPath, GrownSizes
  <2>7. Probed(mainHash[u], u, Slot(mainHash[u], index[u]))'
        BY <1>1, <2>2, <2>3, <2>6 DEF Probed, OnPath
  <2>8. \A j \in mainHash[u] .. Len(tables) : ~InTable(j, u)
        BY <1>2, <1>7 DEF CallOK
  <2>9. \A j \in mainHash[u] .. Len(tables') : ~InTable(j, u)'
    <3>1. SUFFICES ASSUME NEW j \in mainHash[u] .. Len(tables') PROVE ~InTable(j, u)'
          OBVIOUS
    <3>2. j \in 1 .. Len(tables')
          BY <1>2, <2>1
    <3>3. QED
          BY <3>2, <1>2, <1>3, <2>8
  <2>10. QED
        BY <2>7, <2>9
<1>8. ASSUME pc[u] = "store"
      PROVE  /\ index[u] \in Slots(mainHash[u])'
             /\ tables'[mainHash[u]].key[index[u]] = u
             /\ tables'[mainHash[u]].value[index[u]] = NoProducer
  <2>1. mainHash[u] \in 1 .. Len(tables)
        BY <1>4, <1>8
  <2>2. PICK k \in 1 .. Len(tables) : k = mainHash[u]
        BY <2>1
  <2>3. index[u] \in Slots(k) /\ tables[k].key[index[u]] = u
        /\ tables[k].value[index[u]] = NoProducer
        BY <1>2, <1>8, <2>2 DEF CallOK
  <2>4. PICK i \in Slots(k) : i = index[u]
        BY <2>3
  <2>5. /\ DOMAIN tables'[k].key = Slots(k)
        /\ \/ tables'[k].key[i] = tables[k].key[i]
           \/ tables[k].key[i] = NoThread
        /\ \/ tables'[k].value[i] = tables[k].value[i]
           \/ tables[k].key[i] = t
        BY DEF Grown
  <2>6. tables[k].key[i] = u /\ u # NoThread /\ tables[k].value[i] = NoProducer
        BY <2>3, <2>4
  <2>7. tables'[k].key[i] = u /\ tables'[k].value[i] = NoProducer
        BY <2>5, <2>6
  <2>8. QED
        BY <1>1, <2>2, <2>4, <2>5, <2>7 DEF Slots
<1>9. pc[u] \in {"link", "claim", "store"} => mine[u] # NoProducer
      BY <1>2 DEF CallOK
<1>10. QED
      BY <1>1, <1>4, <1>5, <1>6, <1>7, <1>8, <1>9 DEF CallOK

\* A step that leaves the tables alone leaves their order and keys right.
LEMMA KeysKept ==
    ASSUME HashIInv, NEW t \in Thread, UNCHANGED tables, OtherLocals(t), pc[t] # "store"
    PROVE  TablesGrow' /\ \A k \in 1 .. Len(tables') : KeysOK(k)'
<1>1. TablesGrow'
      BY DEF HashIInv, TablesGrow, Capacity
<1>2. ASSUME NEW k \in 1 .. Len(tables) PROVE KeysOK(k)'
  <2>1. KeysOK(k)
        BY DEF HashIInv
  <2>2. \A u, i : Probed(k, u, i)' <=> Probed(k, u, i)
        BY DEF Probed, OnPath, Closed, Slots, Slot, Capacity
  <2>3. ASSUME NEW u \in Thread, NEW i \in Slots(k), tables[k].key[i] = u
        PROVE  /\ Probed(k, u, i)'
               /\ tables[k].value[i] = NoProducer =>
                      pc'[u] = "store" /\ mainHash'[u] = k /\ index'[u] = i
        BY <2>1, <2>2, <2>3 DEF KeysOK, OtherLocals
  <2>4. QED
        BY <2>1, <2>3 DEF KeysOK, Slots
<1>3. QED
      BY <1>1, <1>2

\* Owners remain owners when the step gives its thread nothing new.
LEMMA OwnersKept ==
    ASSUME ConstantsOK, HashIInv, NEW t \in Thread, Grown(t), tables' \in Seq(AllTables),
           OtherLocals(t), UNCHANGED << used, list >>, pc[t] # "link",
           \A p \in Producer : Owns(t, p)' => Owns(t, p),
           \A p \in Producer : returned'[t] = p => InTables(t, p)'
    PROVE  OwnersOK'
<1>1. OwnersOK /\ tables \in Seq(AllTables)
      BY DEF HashIInv, HashType, SharedType, LocalsType
<1>2. \A u \in Thread, p \in Producer : Owns(u, p)' => Owns(u, p)
  <2>1. ASSUME NEW u \in Thread, NEW p \in Producer, u # t, Owns(u, p)'
        PROVE  Owns(u, p)
    <3>1. InTables(u, p)' <=> InTables(u, p)
          BY <1>1, <2>1, GrownValues
    <3>2. pc'[u] = pc[u] /\ mine'[u] = mine[u] /\ returned'[u] = returned[u]
          BY <2>1 DEF OtherLocals
    <3>3. QED
          BY <2>1, <3>1, <3>2 DEF Owns
  <2>2. QED
        BY <2>1
<1>3. \A u, w \in Thread : \A p, q \in Producer :
          Owns(u, p)' /\ Owns(w, q)' => (u = w <=> p = q)
      BY <1>1, <1>2 DEF OwnersOK
<1>4. ASSUME NEW u \in Thread, NEW p \in Producer, Owns(u, p)'
      PROVE  p \in used' /\ (pc'[u] # "link" => \E i \in 1 .. Len(list') : list'[i] = p)
  <2>1. p \in used /\ (pc[u] # "link" => \E i \in 1 .. Len(list) : list[i] = p)
        BY <1>1, <1>2, <1>4 DEF OwnersOK
  <2>2. u # t => pc'[u] = pc[u]
        BY DEF OtherLocals
  <2>3. QED
        BY <2>1, <2>2
<1>5. ASSUME NEW u \in Thread, NEW p \in Producer, returned'[u] = p
      PROVE  InTables(u, p)'
  <2>1. CASE u = t
        BY <2>1, <1>5
  <2>2. CASE u # t
    <3>1. returned[u] = p
          BY <2>2, <1>5 DEF OtherLocals
    <3>2. InTables(u, p)
          BY <1>1, <3>1 DEF OwnersOK
    <3>3. QED
          BY <1>1, <3>2, GrownValues
  <2>3. QED
        BY <2>1, <2>2
<1>6. QED
      BY <1>3, <1>4, <1>5 DEF OwnersOK

\* Who is counted: a thread with a producer in a table, or about to have one.
LEMMA CountedIs ==
    ASSUME NEW u
    PROVE  Counted(u) <=> \/ \E p \in Producer : InTables(u, p)
                          \/ pc[u] \in {"resize?", "reload", "allocate", "clear", "room?",
                                        "create", "link", "claim", "store"}
  BY DEF Counted, Registered, InTables, Slots

LEMMA OthersCounted ==
    ASSUME ConstantsOK, HashIInv, NEW t \in Thread, Grown(t), tables' \in Seq(AllTables),
           OtherLocals(t), NEW u \in Thread, u # t
    PROVE  Counted(u)' <=> Counted(u)
<1>1. tables \in Seq(AllTables)
      BY DEF HashIInv, HashType, SharedType, LocalsType
<1>2. \A p \in Producer : InTables(u, p)' <=> InTables(u, p)
      BY <1>1, GrownValues
<1>3. pc'[u] = pc[u]
      BY DEF OtherLocals
<1>4. QED
      BY <1>2, <1>3 DEF Counted, Registered, InTables, Slots

\* The counter follows the one thread that takes a step.
LEMMA CountFollows ==
    ASSUME ConstantsOK, HashIInv, NEW t \in Thread, Grown(t), tables' \in Seq(AllTables),
           OtherLocals(t),
           count' = count + (IF Counted(t)' THEN 1 ELSE 0) - (IF Counted(t) THEN 1 ELSE 0)
    PROVE  CountIsExact' /\ count' \in Nat
<1>1. IsFiniteSet(CountedThreads) /\ IsFiniteSet(CountedThreads')
      BY FS_Subset DEF ConstantsOK, CountedThreads
<1>2. count = Cardinality(CountedThreads) /\ count \in Nat
      BY DEF HashIInv, HashType, SharedType, LocalsType, CountIsExact, CountedThreads
<1>3. CountedThreads' \ {t} = CountedThreads \ {t}
  <2>1. \A u \in Thread \ {t} : Counted(u)' <=> Counted(u)
        BY OthersCounted
  <2>2. QED
        BY <2>1 DEF CountedThreads
<1>4. (t \in CountedThreads <=> Counted(t)) /\ (t \in CountedThreads' <=> Counted(t)')
      BY DEF CountedThreads
<1>5. count' = Cardinality(CountedThreads')
  <2>1. CASE Counted(t) <=> Counted(t)'
    <3>1. CountedThreads' = CountedThreads
      <4>1. t \in CountedThreads' <=> t \in CountedThreads
            BY <1>4, <2>1
      <4>2. \A u : u \in CountedThreads' <=> u \in CountedThreads
            BY <1>3, <4>1
      <4>3. QED
            BY <4>2
    <3>2. count' = count
          BY <2>1, <1>2
    <3>3. QED
          BY <3>1, <3>2, <1>2
  <2>2. CASE Counted(t) /\ ~Counted(t)'
    <3>1. CountedThreads' = CountedThreads \ {t}
          BY <1>3, <1>4, <2>2
    <3>2. Cardinality(CountedThreads') = Cardinality(CountedThreads) - 1
          BY <3>1, <1>1, <1>4, <2>2, FS_RemoveElement
    <3>3. QED
          BY <3>2, <2>2, <1>2
  <2>3. CASE ~Counted(t) /\ Counted(t)'
    <3>1. CountedThreads' = CountedThreads \cup {t}
          BY <1>3, <1>4, <2>3
    <3>2. Cardinality(CountedThreads') = Cardinality(CountedThreads) + 1
          BY <3>1, <1>1, <1>4, <2>3, FS_AddElement
    <3>3. QED
          BY <3>2, <2>3, <1>2
  <2>4. QED
        BY <2>1, <2>2, <2>3
<1>6. Cardinality(CountedThreads') \in Nat
      BY <1>1, FS_CardinalityType
<1>7. QED
      BY <1>5, <1>6 DEF CountIsExact, CountedThreads

\* Who may be found room in a table, when t's step makes nobody new.
LEMMA OthersClaim ==
    ASSUME NoThread \notin Thread, NEW t \in Thread, Grown(t), OtherLocals(t),
           NEW k \in 1 .. Len(tables), NEW v, NEW u \in Thread, u # t, Len(tables) \in Nat
    PROVE  u \in Claimants(k, v)' <=> u \in Claimants(k, v)
<1>1. \A j \in 1 .. k : InTable(j, u)' <=> InTable(j, u)
      BY GrownKeys
<1>2. pc'[u] = pc[u] /\ mainHash'[u] = mainHash[u] /\ newCount'[u] = newCount[u]
      BY DEF OtherLocals
<1>3. Settled(k, u)' <=> Settled(k, u)
      BY <1>1, <1>2 DEF Settled
<1>4. QED
      BY <1>2, <1>3 DEF Claimants

LEMMA RoomInTables ==
    ASSUME ConstantsOK, HashIInv, NEW t \in Thread, Grown(t), OtherLocals(t),
           \A k \in 1 .. Len(tables) : \A v \in Nat :
               v + 1 >= Limit(k) /\ t \in Claimants(k, v)' => t \in Claimants(k, v)
    PROVE  \A k \in 1 .. Len(tables) : \A v \in Nat :
               v + 1 >= Limit(k)' => Cardinality(Claimants(k, v)') <= v
<1>1. SUFFICES ASSUME NEW k \in 1 .. Len(tables), NEW v \in Nat, v + 1 >= Limit(k)
               PROVE  Cardinality(Claimants(k, v)') <= v
  <2>1. \A k \in 1 .. Len(tables) : Limit(k)' = Limit(k)
        BY GrownSizes
  <2>2. QED
        BY <1>1, <2>1
<1>2. Claimants(k, v)' \subseteq Claimants(k, v)
  <2>1. Len(tables) \in Nat
        BY DEF HashIInv, HashType, SharedType, LocalsType
  <2>2. SUFFICES ASSUME NEW u \in Claimants(k, v)' PROVE u \in Claimants(k, v)
        OBVIOUS
  <2>3. u \in Thread
        BY DEF Claimants
  <2>4. CASE u = t
        BY <1>1, <2>4
  <2>5. CASE u # t
        BY <2>1, <2>3, <2>5, OthersClaim DEF ConstantsOK
  <2>6. QED
        BY <2>4, <2>5
<1>3. IsFiniteSet(Claimants(k, v))
      BY FS_Subset DEF Claimants, ConstantsOK
<1>4. Cardinality(Claimants(k, v)') <= Cardinality(Claimants(k, v))
      BY <1>2, <1>3, FS_Subset
<1>5. Cardinality(Claimants(k, v)) <= v
      BY <1>1 DEF HashIInv, RoomIsReserved
<1>6. Cardinality(Claimants(k, v)) \in Nat /\ Cardinality(Claimants(k, v)') \in Nat
      BY <1>2, <1>3, FS_Subset, FS_CardinalityType
<1>7. QED
      BY <1>4, <1>5, <1>6


LEMMA RoomKept ==
    ASSUME ConstantsOK, HashIInv, NEW t \in Thread, Grown(t), OtherLocals(t),
           Len(tables') = Len(tables),
           \A k \in 1 .. Len(tables) : \A v \in Nat :
               v + 1 >= Limit(k) /\ t \in Claimants(k, v)' => t \in Claimants(k, v)
    PROVE  RoomIsReserved'
  BY RoomInTables DEF RoomIsReserved

-----------------------------------------------------------------------------
(* Steps that leave the tables and the list alone *)

LEMMA SameTables ==
    ASSUME UNCHANGED tables
    PROVE  /\ \A k, u, s : Probed(k, u, s)' <=> Probed(k, u, s)
           /\ \A k, i : Slot(k, i)' = Slot(k, i)
           /\ \A k, u : InTable(k, u)' <=> InTable(k, u)
           /\ \A u, p : InTables(u, p)' <=> InTables(u, p)
           /\ \A k : Slots(k)' = Slots(k) /\ Capacity(k)' = Capacity(k) /\ Limit(k)' = Limit(k)
<1>1. \A k, u, s : Probed(k, u, s)' <=> Probed(k, u, s)
      BY DEF Probed, OnPath, Closed, Slots, Slot, Capacity
<1>2. \A k, i : Slot(k, i)' = Slot(k, i)
      BY DEF Slot, Capacity
<1>3. \A k, u : InTable(k, u)' <=> InTable(k, u)
      BY DEF InTable, Slots
<1>4. \A u, p : InTables(u, p)' <=> InTables(u, p)
      BY DEF InTables, Slots
<1>5. QED
      BY <1>1, <1>2, <1>3, <1>4 DEF Slots, Capacity, Limit

\* Where a call leaves the function, nothing is left to know.
LEMMA ReturnKeepsCall ==
    ASSUME HashType, HashType', NEW t \in Thread, NEW p, Return(t, p)
    PROVE  CallOK(t)' /\ pc'[t] = "idle" /\ returned'[t] = p /\ OtherLocals(t)
<1>1. /\ pc'[t] = "idle" /\ mainHash'[t] = 0 /\ hash'[t] = 0 /\ returned'[t] = p
      /\ OtherLocals(t)
      BY DEF HashType, SharedType, LocalsType, Return, Set, OtherLocals
<1>2. Len(tables') \in Nat
      BY DEF HashType, SharedType, LocalsType
<1>3. CallOK(t)'
      BY <1>1, <1>2 DEF CallOK, Registering, Pending
<1>4. QED
      BY <1>1, <1>3

\* The lock stays with the thread that has it.
LEMMA FlagKept ==
    ASSUME HashIInv, NEW t \in Thread, Grown(t), OtherLocals(t), UNCHANGED << main, resizing >>,
           pc'[t] \in Holding => pc[t] \in Holding,
           pc'[t] = "allocate" => mainHash'[t] = main /\ HalfFull(t, main)'
    PROVE  FlagIsLock'
<1>1. FlagIsLock /\ main \in 1 .. Len(tables)
      BY DEF HashIInv, HashType, SharedType, LocalsType
<1>2. Capacity(main)' = Capacity(main)
  <2>1. PICK k \in 1 .. Len(tables) : k = main
        BY <1>1
  <2>2. Capacity(k)' = Capacity(k)
        BY GrownSizes
  <2>3. QED
        BY <2>1, <2>2 DEF Capacity
<1>3. \A u \in Thread \ {t} : (HalfFull(u, main)' <=> HalfFull(u, main))
  <2>1. SUFFICES ASSUME NEW u \in Thread \ {t}
                 PROVE  HalfFull(u, main)' <=> HalfFull(u, main)
        OBVIOUS
  <2>2. newCount'[u] = newCount[u]
        BY DEF OtherLocals
  <2>3. QED
        BY <1>2, <2>2 DEF HalfFull, Capacity
<1>4. \A u \in Thread \ {t} : pc'[u] = pc[u] /\ mainHash'[u] = mainHash[u]
      BY DEF OtherLocals
<1>5. \A u \in Thread : pc'[u] \in Holding => pc[u] \in Holding
      BY <1>4
<1>6. \A u \in Thread : pc'[u] = "allocate" => mainHash'[u] = main /\ HalfFull(u, main)'
      BY <1>1, <1>3, <1>4 DEF FlagIsLock
<1>7. QED
      BY <1>1, <1>5, <1>6 DEF FlagIsLock

\* What is left to show for a step that changes neither tables nor list.
LEMMA CountingStep ==
    ASSUME ConstantsOK, HashIInv, NEW t \in Thread,
           UNCHANGED << tables, used, list >>, OtherLocals(t), pc[t] \notin {"store", "link"},
           HashType', FlagIsLock', CallOK(t)',
           \A p \in Producer : Owns(t, p)' => Owns(t, p),
           \A p \in Producer : returned'[t] = p => InTables(t, p),
           count' = count + (IF Counted(t)' THEN 1 ELSE 0) - (IF Counted(t) THEN 1 ELSE 0),
           RoomIsReserved'
    PROVE  HashIInv'
<1>1. tables \in Seq(AllTables) /\ tables' \in Seq(AllTables) /\ Grown(t)
      BY TablesKept DEF HashIInv, HashType, SharedType, LocalsType
<1>2. TablesGrow' /\ \A k \in 1 .. Len(tables') : KeysOK(k)'
      BY KeysKept
<1>3. \A u \in Thread : CallOK(u)'
      BY <1>1, OtherCallKept
<1>4. OwnersOK'
      BY <1>1, OwnersKept, SameTables
<1>5. CountIsExact'
      BY <1>1, CountFollows
<1>6. QED
      BY <1>2, <1>3, <1>4, <1>5 DEF HashIInv

LEMMA QuietStep ==
    ASSUME ConstantsOK, HashIInv, NEW t \in Thread,
           UNCHANGED << tables, used, list >>, OtherLocals(t), pc[t] \notin {"store", "link"},
           HashType', FlagIsLock', CallOK(t)',
           \A p \in Producer : Owns(t, p)' => Owns(t, p),
           \A p \in Producer : returned'[t] = p => InTables(t, p),
           count' = count + (IF Counted(t)' THEN 1 ELSE 0) - (IF Counted(t) THEN 1 ELSE 0),
           \A k \in 1 .. Len(tables) : \A v \in Nat :
               v + 1 >= Limit(k) /\ t \in Claimants(k, v)' => t \in Claimants(k, v)
    PROVE  HashIInv'
<1>1. Grown(t)
      BY TablesKept DEF HashIInv, HashType, SharedType
<1>2. RoomIsReserved'
      BY <1>1, RoomKept
<1>3. QED
      BY <1>2, CountingStep

\* The step of a call that is not counted before or after it.
LEMMA UncountedStep ==
    ASSUME NEW t \in Thread, UNCHANGED << tables, count >>, count \in Nat,
           pc[t] \in {"idle", "probe", "count", "unlock"},
           pc'[t] \in {"idle", "probe", "count", "unlock"}
    PROVE  count' = count + (IF Counted(t)' THEN 1 ELSE 0) - (IF Counted(t) THEN 1 ELSE 0)
<1>1. Counted(t)' <=> Counted(t)
  <2>1. Registered(t)' <=> Registered(t)
        BY DEF Registered
  <2>2. QED
        BY <2>1 DEF Counted
<1>2. QED
      BY <1>1


\* A thread that goes nowhere near a table gets nothing new.
LEMMA NothingNew ==
    ASSUME NEW t \in Thread, UNCHANGED tables, pc'[t] \notin {"link", "claim", "store"},
           \A p \in Producer : returned'[t] = p => InTables(t, p)
    PROVE  \A p \in Producer : Owns(t, p)' => Owns(t, p)
  BY SameTables DEF Owns

LEMMA NoRoomAsked ==
    ASSUME NEW t \in Thread, UNCHANGED tables, pc'[t] \notin Committed \cup Pending,
           NEW k, NEW v, t \in Claimants(k, v)'
    PROVE  t \in Claimants(k, v)
  BY SameTables DEF Claimants, Settled

LEMMA LoadMainStep ==
    ASSUME ConstantsOK, HashIInv, NEW t \in Thread, LoadMain(t)
    PROVE  HashIInv'
<1> USE DEF ConstantsOK
<1>1. /\ pc[t] = "idle" /\ pc'[t] = "probe" /\ mainHash'[t] = main /\ hash'[t] = main
      /\ index'[t] = Hash[t] /\ returned'[t] = returned[t]
      /\ UNCHANGED shared /\ OtherLocals(t)
      BY DEF LoadMain, Goto, Set, HashIInv, HashType, SharedType, LocalsType, OtherLocals
<1>2. HashType'
  <2>1. SharedType'
        BY <1>1 DEF HashIInv, HashType, SharedType, shared
  <2>2. LocalsType'
    <3>1. LocalsType /\ main \in Nat
          BY DEF HashIInv, HashType, SharedType
    <3>2. QED
          BY <3>1 DEF LoadMain, Goto, Set, LocalsType, Label
  <2>3. QED
        BY <2>1, <2>2 DEF HashType
<1>3. tables \in Seq(AllTables) /\ main = Len(tables) /\ main \in 1 .. Len(tables)
      /\ count \in Nat
      BY DEF HashIInv, HashType, SharedType, LocalsType
<1>4. Grown(t)
      BY <1>1, <1>3, TablesKept DEF shared
<1>5. FlagIsLock'
      BY <1>1, <1>4, FlagKept DEF shared, Holding
<1>6. CallOK(t)'
  <2>1. PICK k \in 1 .. Len(tables) : k = main
        BY <1>3
  <2>2. PICK s : s = Slot(k, Hash[t])
        OBVIOUS
  <2>3. Probed(k, t, s)
        BY <2>2, ProbeBegins
  <2>4. Probed(k, t, s)' /\ s = Slot(k, Hash[t])'
        BY <1>1, <2>2, <2>3, SameTables DEF shared
  <2>5. Probed(hash[t], t, Slot(hash[t], index[t]))'
        BY <1>1, <2>1, <2>4 DEF Probed, OnPath
  <2>6. tables' = tables
        BY <1>1 DEF shared
  <2>7. /\ mainHash'[t] \in 0 .. Len(tables') /\ hash'[t] \in 0 .. Len(tables')
        /\ mainHash'[t] # 0 /\ hash'[t] \in 1 .. mainHash'[t]
        /\ \A j : j \notin hash'[t] + 1 .. Len(tables')
        BY <1>1, <1>3, <2>6
  <2>8. QED
        BY <1>1, <2>5, <2>7 DEF CallOK, Registering, Pending
<1>7. \A p \in Producer : returned'[t] = p => InTables(t, p)
      BY <1>1 DEF HashIInv, OwnersOK
<1>8. \A p \in Producer : Owns(t, p)' => Owns(t, p)
      BY <1>1, <1>7, NothingNew DEF shared
<1>9. count' = count + (IF Counted(t)' THEN 1 ELSE 0) - (IF Counted(t) THEN 1 ELSE 0)
      BY <1>1, <1>3, UncountedStep DEF shared
<1>10. \A k \in 1 .. Len(tables) : \A v \in Nat : t \in Claimants(k, v)' => t \in Claimants(k, v)
      BY <1>1, NoRoomAsked DEF shared, Committed, Pending
<1>11. QED
      BY <1>1, <1>2, <1>5, <1>6, <1>7, <1>8, <1>9, <1>10, QuietStep DEF shared


\* What a return does to the types, and to the rest of the invariant.
LEMMA ReturnTypes ==
    ASSUME LocalsType, NoProducer \in Nat, NEW t \in Thread, NEW p \in Producer \cup {NoProducer},
           Return(t, p)
    PROVE  LocalsType'
  BY DEF LocalsType, Return, Set, Label

LEMMA QuietReturn ==
    ASSUME ConstantsOK, HashIInv, NEW t \in Thread, NEW p \in Producer \cup {NoProducer},
           Return(t, p), UNCHANGED << tables, used, list >>,
           pc[t] \notin {"store", "link"}, p \in Producer => InTables(t, p),
           SharedType', FlagIsLock',
           count' = count + (IF Counted(t)' THEN 1 ELSE 0) - (IF Counted(t) THEN 1 ELSE 0)
    PROVE  HashIInv'
<1> USE DEF ConstantsOK
<1>1. HashType' /\ HashType
      BY ReturnTypes DEF HashIInv, HashType
<1>2. CallOK(t)' /\ pc'[t] = "idle" /\ returned'[t] = p /\ OtherLocals(t)
      BY <1>1, ReturnKeepsCall
<1>3. \A q \in Producer : returned'[t] = q => InTables(t, q)
      BY <1>2
<1>4. \A q \in Producer : Owns(t, q)' => Owns(t, q)
      BY <1>2, <1>3, NothingNew
<1>5. \A k \in 1 .. Len(tables) : \A v \in Nat : t \in Claimants(k, v)' => t \in Claimants(k, v)
      BY <1>2, NoRoomAsked DEF Committed, Pending
<1>6. QED
      BY <1>1, <1>2, <1>3, <1>4, <1>5, QuietStep

\* What a thread that probes knows.
LEMMA ProbeFacts ==
    ASSUME ConstantsOK, HashIInv, NEW t \in Thread, pc[t] = "probe"
    PROVE  /\ hash[t] \in 1 .. Len(tables) /\ hash[t] \in 1 .. mainHash[t]
           /\ mainHash[t] \in 1 .. Len(tables) /\ index[t] \in Nat
           /\ Slot(hash[t], index[t]) \in Slots(hash[t])
           /\ Probed(hash[t], t, Slot(hash[t], index[t]))
           /\ \A j \in hash[t] + 1 .. Len(tables) : ~InTable(j, t)
           /\ tables \in Seq(AllTables) /\ Len(tables) \in Nat /\ Len(tables) = main
           /\ KeysOK(hash[t]) /\ Hash[t] \in Nat /\ HashType /\ count \in Nat
<1>1. /\ tables \in Seq(AllTables) /\ Len(tables) \in Nat /\ index[t] \in Nat /\ count \in Nat
      /\ mainHash[t] \in Nat /\ hash[t] \in Nat /\ HashType /\ CallOK(t) /\ Len(tables) = main
  <2>1. HashType /\ CallOK(t)
        BY DEF HashIInv
  <2>2. tables \in Seq(AllTables) /\ count \in Nat /\ Len(tables) = main
        BY <2>1 DEF HashType, SharedType
  <2>3. index[t] \in Nat /\ mainHash[t] \in Nat /\ hash[t] \in Nat
        BY <2>1 DEF HashType, LocalsType
  <2>4. QED
        BY <2>1, <2>2, <2>3
<1>2. /\ hash[t] \in 1 .. mainHash[t] /\ mainHash[t] \in 0 .. Len(tables)
      /\ Probed(hash[t], t, Slot(hash[t], index[t]))
      /\ \A j \in hash[t] + 1 .. Len(tables) : ~InTable(j, t)
      BY <1>1 DEF CallOK
<1>3. hash[t] \in 1 .. Len(tables) /\ mainHash[t] \in 1 .. Len(tables)
      BY <1>1, <1>2
<1>4. Slot(hash[t], index[t]) \in Slots(hash[t])
      BY <1>1, <1>3, SlotInTable
<1>5. KeysOK(hash[t]) /\ Hash[t] \in Nat
      BY <1>3 DEF HashIInv, ConstantsOK
<1>6. QED
      BY <1>1, <1>2, <1>3, <1>4, <1>5

LEMMA ProbeStep ==
    ASSUME ConstantsOK, HashIInv, NEW t \in Thread, Probe(t)
    PROVE  HashIInv'
<1> USE DEF ConstantsOK
<1>0. pc[t] = "probe" /\ UNCHANGED shared
      BY DEF Probe
<1>1. PICK k \in 1 .. Len(tables) : k = hash[t]
      BY <1>0, ProbeFacts
<1>2. PICK i \in Slots(k) : i = Slot(k, index[t])
      BY <1>0, <1>1, ProbeFacts
<1>3. /\ k <= mainHash[t] /\ mainHash[t] \in 1 .. Len(tables) /\ Probed(k, t, i)
      /\ \A j \in k + 1 .. Len(tables) : ~InTable(j, t)
      /\ tables \in Seq(AllTables) /\ Len(tables) \in Nat /\ Len(tables) = main
      /\ KeysOK(k) /\ Hash[t] \in Nat /\ HashType /\ count \in Nat
      BY <1>0, <1>1, <1>2, ProbeFacts
<1>4. /\ UNCHANGED << tables, main, count, resizing, used, list >>
      BY <1>0 DEF shared
<1>5. Grown(t)
      BY <1>3, <1>4, TablesKept
<1>6. SharedType'
      BY <1>3, <1>4 DEF HashType, SharedType
<1>7. tables[k].value[i] \in Producer \cup {NoProducer}
      /\ tables[k].key[i] \in Thread \cup {NoThread}
      BY <1>3, TableShape
<1>8. \A p \in Producer : returned[t] = p => InTables(t, p)
      BY DEF HashIInv, OwnersOK
<1>9. ASSUME tables[k].key[i] = NoThread PROVE ~InTable(k, t)
  <2>1. \A j \in Slots(k) : tables[k].key[j] # t
        BY <1>3, <1>9, ProbeIsRight
  <2>2. QED
        BY <2>1 DEF InTable
<1>10. CASE tables[k].key[i] = t /\ k = mainHash[t]
  <2>1. PICK p \in Producer \cup {NoProducer} : p = tables[k].value[i]
        BY <1>7
  <2>2. Return(t, p)
        BY <1>10, <1>1, <1>2, <2>1 DEF Probe
  <2>3. pc'[t] = "idle" /\ OtherLocals(t)
        BY <1>3, <1>6, <2>2, ReturnTypes, ReturnKeepsCall DEF HashType
  <2>4. FlagIsLock'
        BY <1>4, <1>5, <2>3, FlagKept DEF Holding
  <2>5. count' = count + (IF Counted(t)' THEN 1 ELSE 0) - (IF Counted(t) THEN 1 ELSE 0)
        BY <1>0, <1>3, <1>4, <2>3, UncountedStep
  <2>6. p \in Producer => InTables(t, p)
        BY <1>10, <2>1 DEF InTables
  <2>7. QED
        BY <1>0, <1>4, <1>6, <2>2, <2>4, <2>5, <2>6, QuietReturn
<1>11. CASE tables[k].key[i] = t /\ k # mainHash[t]
  <2>1. PICK p \in Producer \cup {NoProducer} : p = tables[k].value[i]
        BY <1>7
  <2>2. /\ pc' = Set(pc, t, "claim") /\ mine' = Set(mine, t, p)
        /\ index' = Set(index, t, Hash[t])
        /\ UNCHANGED << mainHash, hash, newCount, tail, returned >>
        BY <1>11, <1>1, <1>2, <2>1 DEF Probe
  <2>3. /\ pc'[t] = "claim" /\ mine'[t] = p /\ index'[t] = Hash[t] /\ OtherLocals(t)
        BY <1>3, <2>2 DEF HashType, LocalsType, Set, OtherLocals
  <2>4. LocalsType'
        BY <1>3, <2>2 DEF HashType, LocalsType, Set, Label
  <2>5. p \in Producer /\ InTables(t, p) /\ InTable(k, t)
    <3>1. p # NoProducer
          BY <1>0, <1>3, <1>11, <2>1 DEF KeysOK
    <3>2. QED
          BY <1>11, <2>1, <3>1 DEF InTables, InTable
  <2>6. FlagIsLock'
        BY <1>4, <1>5, <2>3, FlagKept DEF Holding
  <2>7. CallOK(t)'
    <3>1. PICK m \in 1 .. Len(tables) : m = mainHash[t]
          BY <1>3
    <3>2. PICK s : s = Slot(m, Hash[t])
          OBVIOUS
    <3>3. Probed(m, t, s)' /\ s = Slot(m, Hash[t])'
          BY <1>4, <3>2, ProbeBegins, SameTables
    <3>4. Probed(mainHash[t], t, Slot(mainHash[t], index[t]))'
          BY <2>2, <2>3, <3>1, <3>3 DEF Probed, OnPath
    <3>5. \A j \in mainHash[t] .. Len(tables) : ~InTable(j, t)
          BY <1>3, <1>11
    <3>6. \A j \in mainHash'[t] .. Len(tables') : ~InTable(j, t)'
          BY <1>4, <2>2, <3>5, SameTables
    <3>7. mainHash[t] # 0 /\ mainHash[t] \in 0 .. Len(tables) /\ hash[t] \in 0 .. Len(tables)
          BY <1>1, <1>3
    <3>8. QED
          BY <1>4, <2>2, <2>3, <2>5, <3>4, <3>6, <3>7 DEF CallOK, Registering, Pending
  <2>8. \A q \in Producer : Owns(t, q)' => Owns(t, q)
        BY <1>4, <1>8, <2>2, <2>3, <2>5, SameTables DEF Owns
  <2>9. count' = count + (IF Counted(t)' THEN 1 ELSE 0) - (IF Counted(t) THEN 1 ELSE 0)
    <3>1. Counted(t) /\ Counted(t)'
          BY <2>3, <2>5, CountedIs DEF Counted
    <3>2. QED
          BY <1>3, <1>4, <3>1
  <2>10. \A m \in 1 .. Len(tables) : \A v \in Nat : t \in Claimants(m, v)' => t \in Claimants(m, v)
    <3>1. SUFFICES ASSUME NEW m \in 1 .. Len(tables), NEW v \in Nat, t \in Claimants(m, v)'
                   PROVE  Settled(m, t)
          BY DEF Claimants
    <3>2. \/ \E j \in 1 .. m : InTable(j, t)
          \/ mainHash[t] <= m
          BY <1>4, <2>2, <2>3, <3>1, SameTables DEF Claimants, Settled, Pending
    <3>3. CASE mainHash[t] <= m
      <4>1. k \in 1 .. m
            BY <1>3, <3>3
      <4>2. QED
            BY <4>1, <2>5 DEF Settled
    <3>4. QED
          BY <3>2, <3>3 DEF Settled
  <2>11. QED
        BY <1>0, <1>4, <1>6, <1>8, <2>2, <2>3, <2>4, <2>6, <2>7, <2>8, <2>9, <2>10, QuietStep
        DEF HashType
<1>12. CASE tables[k].key[i] = NoThread /\ tables[k].prev # 0
  <2>1. /\ hash' = Set(hash, t, tables[k].prev) /\ index' = Set(index, t, Hash[t])
        /\ UNCHANGED << pc, mainHash, newCount, mine, tail, returned >>
        BY <1>12, <1>1, <1>2 DEF Probe
  <2>2. tables[k].prev = k - 1 /\ k - 1 \in 1 .. Len(tables)
    <3>1. tables[k].prev = k - 1
          BY DEF HashIInv, TablesGrow
    <3>2. QED
          BY <1>12, <3>1
  <2>3. /\ hash'[t] = k - 1 /\ index'[t] = Hash[t] /\ OtherLocals(t)
        BY <1>3, <2>1, <2>2 DEF HashType, LocalsType, Set, OtherLocals
  <2>4. LocalsType'
        BY <1>3, <2>1, <2>2 DEF HashType, LocalsType, Set
  <2>5. FlagIsLock'
        BY <1>0, <1>4, <1>5, <2>1, <2>3, FlagKept DEF Holding
  <2>6. CallOK(t)'
    <3>1. PICK m \in 1 .. Len(tables) : m = k - 1
          BY <2>2
    <3>2. PICK s : s = Slot(m, Hash[t])
          OBVIOUS
    <3>3. Probed(m, t, s)' /\ s = Slot(m, Hash[t])'
          BY <1>4, <3>2, ProbeBegins, SameTables
    <3>4. Probed(hash[t], t, Slot(hash[t], index[t]))'
          BY <2>3, <3>1, <3>3 DEF Probed, OnPath
    <3>5. \A j \in m + 1 .. Len(tables) : ~InTable(j, t)
          BY <1>3, <1>9, <1>12, <3>1
    <3>6. \A j \in hash'[t] + 1 .. Len(tables') : ~InTable(j, t)'
          BY <1>4, <2>3, <3>1, <3>5, SameTables
    <3>7. /\ mainHash[t] # 0 /\ mainHash[t] \in 0 .. Len(tables)
          /\ hash'[t] \in 0 .. Len(tables) /\ hash'[t] \in 1 .. mainHash[t]
          BY <1>3, <2>2, <2>3
    <3>8. QED
          BY <1>0, <1>4, <2>1, <3>4, <3>6, <3>7 DEF CallOK, Registering, Pending
  <2>7. \A q \in Producer : Owns(t, q)' => Owns(t, q)
        BY <1>0, <1>4, <1>8, <2>1, NothingNew
  <2>8. count' = count + (IF Counted(t)' THEN 1 ELSE 0) - (IF Counted(t) THEN 1 ELSE 0)
        BY <1>0, <1>3, <1>4, <2>1, UncountedStep
  <2>9. \A m \in 1 .. Len(tables) : \A v \in Nat : t \in Claimants(m, v)' => t \in Claimants(m, v)
        BY <1>0, <1>4, <2>1, NoRoomAsked DEF Committed, Pending
  <2>10. QED
        BY <1>0, <1>4, <1>6, <1>8, <2>1, <2>3, <2>4, <2>5, <2>6, <2>7, <2>8, <2>9, QuietStep
        DEF HashType
<1>13. CASE tables[k].key[i] = NoThread /\ tables[k].prev = 0
  <2>1. /\ pc' = Set(pc, t, "count") /\ hash' = Set(hash, t, 0) /\ index' = Set(index, t, 0)
        /\ UNCHANGED << mainHash, newCount, mine, tail, returned >>
        BY <1>13, <1>1, <1>2 DEF Probe
  <2>2. k = 1
    <3>1. tables[k].prev = k - 1
          BY DEF HashIInv, TablesGrow
    <3>2. QED
          BY <1>13, <3>1
  <2>3. /\ pc'[t] = "count" /\ hash'[t] = 0 /\ OtherLocals(t)
        BY <1>3, <2>1 DEF HashType, LocalsType, Set, OtherLocals
  <2>4. LocalsType'
        BY <1>3, <2>1 DEF HashType, LocalsType, Set, Label
  <2>5. FlagIsLock'
        BY <1>4, <1>5, <2>3, FlagKept DEF Holding
  <2>6. \A j \in 1 .. Len(tables) : ~InTable(j, t)
        BY <1>3, <1>9, <1>13, <2>2
  <2>7. CallOK(t)'
    <3>1. \A p \in Producer : ~InTables(t, p)
          BY <2>6 DEF InTables, InTable
    <3>2. returned[t] = NoProducer
          BY <1>3, <1>8, <3>1 DEF HashType, LocalsType
    <3>3. \A j \in 1 .. Len(tables') : ~InTable(j, t)'
          BY <1>4, <2>6, SameTables
    <3>4. mainHash[t] # 0 /\ mainHash[t] \in 0 .. Len(tables) /\ hash'[t] \in 0 .. Len(tables)
          BY <1>3, <2>3
    <3>5. QED
          BY <1>4, <2>1, <2>3, <3>2, <3>3, <3>4 DEF CallOK
  <2>8. \A q \in Producer : Owns(t, q)' => Owns(t, q)
        BY <1>4, <1>8, <2>1, <2>3, NothingNew
  <2>9. count' = count + (IF Counted(t)' THEN 1 ELSE 0) - (IF Counted(t) THEN 1 ELSE 0)
        BY <1>0, <1>3, <1>4, <2>3, UncountedStep
  <2>10. \A m \in 1 .. Len(tables) : \A v \in Nat : t \in Claimants(m, v)' => t \in Claimants(m, v)
        BY <1>4, <2>3, NoRoomAsked DEF Committed, Pending
  <2>11. QED
        BY <1>0, <1>4, <1>6, <1>8, <2>1, <2>3, <2>4, <2>5, <2>7, <2>8, <2>9, <2>10, QuietStep
        DEF HashType
<1>14. CASE tables[k].key[i] \notin {t, NoThread}
  <2>1. /\ index' = Set(index, t, Slot(k, i + 1))
        /\ UNCHANGED << pc, mainHash, hash, newCount, mine, tail, returned >>
        BY <1>14, <1>1, <1>2 DEF Probe
  <2>2. PICK s : s = Slot(k, i + 1)
        OBVIOUS
  <2>3. s \in Nat /\ Slot(k, s) = s
    <3>1. i + 1 \in Nat
          BY <1>3, SlotIsNatural
    <3>2. QED
          BY <1>3, <2>2, <3>1, SlotInTable
  <2>4. index'[t] = s /\ OtherLocals(t)
        BY <1>3, <2>1, <2>2 DEF HashType, LocalsType, Set, OtherLocals
  <2>5. LocalsType'
        BY <1>3, <2>1, <2>2, <2>3 DEF HashType, LocalsType, Set
  <2>6. FlagIsLock'
        BY <1>0, <1>4, <1>5, <2>1, <2>4, FlagKept DEF Holding
  <2>7. CallOK(t)'
    <3>1. Probed(k, t, s)' /\ s = Slot(k, s)'
          BY <1>3, <1>4, <1>14, <2>2, <2>3, ProbeGoesOn, SameTables
    <3>2. Probed(hash[t], t, Slot(hash[t], index[t]))'
          BY <1>1, <2>1, <2>4, <3>1 DEF Probed, OnPath
    <3>3. \A j \in hash'[t] + 1 .. Len(tables') : ~InTable(j, t)'
          BY <1>1, <1>3, <1>4, <2>1, SameTables
    <3>4. /\ mainHash[t] # 0 /\ mainHash[t] \in 0 .. Len(tables)
          /\ hash[t] \in 0 .. Len(tables) /\ hash[t] \in 1 .. mainHash[t]
          BY <1>1, <1>3
    <3>5. QED
          BY <1>0, <1>4, <2>1, <3>2, <3>3, <3>4 DEF CallOK, Registering, Pending
  <2>8. \A q \in Producer : Owns(t, q)' => Owns(t, q)
        BY <1>0, <1>4, <1>8, <2>1, NothingNew
  <2>9. count' = count + (IF Counted(t)' THEN 1 ELSE 0) - (IF Counted(t) THEN 1 ELSE 0)
        BY <1>0, <1>3, <1>4, <2>1, UncountedStep
  <2>10. \A m \in 1 .. Len(tables) : \A v \in Nat : t \in Claimants(m, v)' => t \in Claimants(m, v)
        BY <1>0, <1>4, <2>1, NoRoomAsked DEF Committed, Pending
  <2>11. QED
        BY <1>0, <1>4, <1>6, <1>8, <2>1, <2>4, <2>5, <2>6, <2>7, <2>8, <2>9, <2>10, QuietStep
        DEF HashType
<1>15. QED
      BY <1>10, <1>11, <1>12, <1>13, <1>14


-----------------------------------------------------------------------------
(* Steps of a call that has counted its thread *)

\* A thread that is not in a table is not registered.
LEMMA NotInTables ==
    ASSUME HashIInv, NEW t \in Thread, pc[t] \in Registering
    PROVE  /\ \A j \in 1 .. Len(tables) : ~InTable(j, t)
           /\ \A p \in Producer : ~InTables(t, p)
           /\ ~Registered(t)
           /\ returned[t] = NoProducer
           /\ mainHash[t] \in 1 .. Len(tables) /\ hash[t] \in 0 .. Len(tables)
<1>1. CallOK(t)
      BY DEF HashIInv
<1>2. pc[t] # "idle"
      BY DEF Registering, Pending
<1>3. /\ \A j \in 1 .. Len(tables) : ~InTable(j, t)
      /\ returned[t] = NoProducer
      /\ mainHash[t] \in 1 .. Len(tables) /\ hash[t] \in 0 .. Len(tables)
      BY <1>1, <1>2 DEF CallOK
<1>4. QED
      BY <1>3 DEF InTable, InTables, Registered, Slots

\* The tables, the current one and the producers stay as they are.
LEMMA SharedKept ==
    ASSUME SharedType, UNCHANGED << tables, main, used, list >>, count' \in Nat,
           resizing' \in BOOLEAN
    PROVE  SharedType'
  BY DEF SharedType

LEMMA RegisteringStays ==
    ASSUME HashIInv, NEW t \in Thread, pc[t] \in Registering,
           pc'[t] \in Registering \ {"link"}, mainHash'[t] \in 1 .. Len(tables),
           hash'[t] = hash[t], returned'[t] = returned[t], UNCHANGED tables
    PROVE  CallOK(t)'
<1>1. \A j \in 1 .. Len(tables') : ~InTable(j, t)'
      BY NotInTables, SameTables
<1>2. hash'[t] \in 0 .. Len(tables') /\ mainHash'[t] \in 1 .. Len(tables')
      /\ mainHash'[t] \in 0 .. Len(tables') /\ mainHash'[t] # 0 /\ returned'[t] = NoProducer
  <2>1. hash[t] \in 0 .. Len(tables) /\ returned[t] = NoProducer
        BY NotInTables
  <2>2. QED
        BY <2>1
<1>3. QED
      BY <1>1, <1>2 DEF CallOK, Registering, Pending

LEMMA PendingStep ==
    ASSUME ConstantsOK, HashIInv, NEW t \in Thread, pc[t] \in Pending, pc'[t] \in Pending,
           OtherLocals(t), mainHash'[t] \in 1 .. Len(tables),
           UNCHANGED << tables, main, count, used, list, hash, index, newCount, mine, returned >>,
           resizing' \in BOOLEAN, LocalsType', FlagIsLock'
    PROVE  HashIInv'
<1>1. HashType /\ count \in Nat
      BY DEF HashIInv, HashType, SharedType
<1>2. HashType'
      BY <1>1, SharedKept DEF HashType
<1>3. /\ pc[t] \in Registering /\ pc'[t] \in Registering \ {"link"}
      /\ pc[t] \notin {"store", "link"} /\ pc'[t] \notin {"link", "claim", "store"}
      BY DEF Registering, Pending
<1>4. CallOK(t)'
      BY <1>3, RegisteringStays
<1>5. \A p \in Producer : returned'[t] = p => InTables(t, p)
      BY DEF HashIInv, OwnersOK
<1>6. \A p \in Producer : Owns(t, p)' => Owns(t, p)
      BY <1>3, <1>5, NothingNew
<1>7. count' = count + (IF Counted(t)' THEN 1 ELSE 0) - (IF Counted(t) THEN 1 ELSE 0)
  <2>1. Counted(t) /\ Counted(t)'
        BY DEF Counted, Pending
  <2>2. QED
        BY <1>1, <2>1
<1>8. \A k \in 1 .. Len(tables) : \A v \in Nat : t \in Claimants(k, v)' => t \in Claimants(k, v)
      BY SameTables DEF Claimants, Settled, Committed, Pending
<1>9. QED
      BY <1>2, <1>3, <1>4, <1>5, <1>6, <1>7, <1>8, QuietStep

LEMMA TestAndSetStep ==
    ASSUME ConstantsOK, HashIInv, NEW t \in Thread, TestAndSet(t)
    PROVE  HashIInv'
<1>1. HashType /\ FlagIsLock /\ tables \in Seq(AllTables) /\ resizing \in BOOLEAN
      BY DEF HashIInv, HashType, SharedType
<1>2. /\ pc[t] = "resize?" /\ pc'[t] \in {"reload", "room?"}
      /\ UNCHANGED << tables, main, count, used, list, mainHash, hash, index, newCount, mine,
                      returned >>
      /\ OtherLocals(t)
      BY <1>1 DEF TestAndSet, HashType, LocalsType, Set, OtherLocals, locals
<1>3. LocalsType' /\ resizing' \in BOOLEAN
      BY <1>1 DEF TestAndSet, HashType, LocalsType, Set, Label, locals
<1>4. FlagIsLock'
  <2>1. CASE HalfFull(t, mainHash[t]) /\ ~resizing
    <3>1. /\ \A u \in Thread \ {t} : pc'[u] = pc[u]
          /\ pc'[t] = "reload" /\ resizing'
          BY <1>2, <2>1, <1>1 DEF TestAndSet, OtherLocals, HashType, LocalsType, Set
    <3>2. \A u \in Thread : pc[u] \notin Holding
          BY <1>1, <2>1 DEF FlagIsLock
    <3>3. \A u \in Thread : pc'[u] \in Holding => u = t
          BY <3>1, <3>2
    <3>4. \A u \in Thread : pc'[u] # "allocate"
          BY <3>1, <3>2, <3>3 DEF Holding
    <3>5. QED
          BY <3>1, <3>3, <3>4 DEF FlagIsLock
  <2>2. CASE ~(HalfFull(t, mainHash[t]) /\ ~resizing)
    <3>1. pc'[t] = "room?" /\ UNCHANGED resizing
          BY <2>2, <1>1 DEF TestAndSet, HashType, LocalsType, Set
    <3>2. Grown(t)
          BY <1>1, <1>2, TablesKept
    <3>3. QED
          BY <1>2, <3>1, <3>2, FlagKept DEF Holding
  <2>3. QED
        BY <2>1, <2>2
<1>5. mainHash'[t] \in 1 .. Len(tables)
      BY <1>2, NotInTables DEF Registering, Pending
<1>6. QED
      BY <1>2, <1>3, <1>4, <1>5, PendingStep DEF Pending

LEMMA ReloadMainStep ==
    ASSUME ConstantsOK, HashIInv, NEW t \in Thread, ReloadMain(t)
    PROVE  HashIInv'
<1>1. /\ HashType /\ LocalsType /\ tables \in Seq(AllTables) /\ resizing \in BOOLEAN
      /\ main \in 1 .. Len(tables) /\ main \in Nat
      BY DEF HashIInv, HashType, SharedType
<1>2. /\ pc[t] = "reload" /\ mainHash'[t] = main
      /\ pc'[t] = IF HalfFull(t, main) THEN "allocate" ELSE "clear"
      /\ UNCHANGED << tables, main, count, resizing, used, list, hash, index, newCount, mine,
                      returned >>
      /\ OtherLocals(t)
      BY <1>1 DEF ReloadMain, Goto, LocalsType, Set, OtherLocals, shared
<1>3. LocalsType'
      BY <1>1 DEF ReloadMain, Goto, LocalsType, Set, Label
<1>4. Grown(t)
      BY <1>1, <1>2, TablesKept
<1>5. HalfFull(t, main)' <=> HalfFull(t, main)
      BY <1>2 DEF HalfFull, Capacity
<1>6. FlagIsLock'
      BY <1>2, <1>4, <1>5, FlagKept DEF Holding
<1>7. QED
      BY <1>1, <1>2, <1>3, <1>6, PendingStep DEF Pending

LEMMA ClearFlagStep ==
    ASSUME ConstantsOK, HashIInv, NEW t \in Thread, ClearFlag(t)
    PROVE  HashIInv'
<1>1. /\ HashType /\ LocalsType /\ FlagIsLock
      BY DEF HashIInv, HashType, SharedType
<1>2. /\ pc[t] = "clear" /\ pc'[t] = "room?" /\ resizing' = FALSE
      /\ UNCHANGED << tables, main, count, used, list, mainHash, hash, index, newCount, mine,
                      returned >>
      /\ OtherLocals(t)
      BY <1>1 DEF ClearFlag, Goto, LocalsType, Set, OtherLocals, locals
<1>3. LocalsType'
      BY <1>1 DEF ClearFlag, Goto, LocalsType, Set, Label, locals
<1>4. FlagIsLock'
  <2>1. \A u \in Thread \ {t} : pc[u] \notin Holding /\ pc'[u] = pc[u]
        BY <1>1, <1>2 DEF FlagIsLock, Holding, OtherLocals
  <2>2. \A u \in Thread : pc'[u] \notin Holding
        BY <1>2, <2>1 DEF Holding
  <2>3. QED
        BY <2>2 DEF FlagIsLock, Holding
<1>5. mainHash'[t] \in 1 .. Len(tables)
      BY <1>2, NotInTables DEF Registering, Pending
<1>6. QED
      BY <1>2, <1>3, <1>4, <1>5, PendingStep DEF Pending


LEMMA LookForRoomStep ==
    ASSUME ConstantsOK, HashIInv, NEW t \in Thread, LookForRoom(t)
    PROVE  HashIInv'
<1>1. /\ HashType /\ LocalsType /\ tables \in Seq(AllTables) /\ resizing \in BOOLEAN
      /\ main \in 1 .. Len(tables) /\ main \in Nat /\ count \in Nat /\ newCount[t] \in Nat
  <2>1. HashType /\ SharedType /\ LocalsType
        BY DEF HashIInv, HashType
  <2>2. QED
        BY <2>1 DEF SharedType, LocalsType
<1>2. /\ pc[t] = "room?" /\ OtherLocals(t)
      /\ UNCHANGED << tables, main, count, resizing, used, list, hash, index, newCount, mine,
                      returned >>
      BY <1>1 DEF LookForRoom, LocalsType, Set, OtherLocals, shared
<1>3. LocalsType' /\ resizing' \in BOOLEAN
  <2>1. CASE RoomInOldTable(t)
        BY <1>1, <2>1 DEF LookForRoom, LocalsType, Set, Label, shared
  <2>2. CASE ~RoomInOldTable(t)
        BY <1>1, <2>2 DEF LookForRoom, LocalsType, Set, Label, shared
  <2>3. QED
        BY <2>1, <2>2
<1>4. Grown(t)
      BY <1>1, <1>2, TablesKept
<1>5. CASE ~RoomInOldTable(t)
  <2>1. pc'[t] = "resize?" /\ mainHash'[t] = main
        BY <1>1, <1>5 DEF LookForRoom, LocalsType, Set
  <2>2. FlagIsLock'
        BY <1>2, <1>4, <2>1, FlagKept DEF Holding
  <2>3. QED
        BY <1>1, <1>2, <1>3, <2>1, <2>2, PendingStep DEF Pending
<1>6. CASE RoomInOldTable(t)
  <2>1. pc'[t] = "create" /\ mainHash'[t] = mainHash[t]
        BY <1>1, <1>6 DEF LookForRoom, LocalsType, Set
  <2>2. FlagIsLock'
        BY <1>2, <1>4, <2>1, FlagKept DEF Holding
  <2>3. HashType'
        BY <1>1, <1>2, <1>3, SharedKept DEF HashType
  <2>4. /\ pc[t] \in Registering /\ pc'[t] \in Registering \ {"link"}
        BY <1>2, <2>1 DEF Registering, Pending
  <2>5. PICK m \in 1 .. Len(tables) : m = mainHash[t]
        BY <2>4, NotInTables
  <2>6. CallOK(t)'
        BY <1>2, <2>1, <2>4, <2>5, RegisteringStays
  <2>7. \A p \in Producer : returned'[t] = p => InTables(t, p)
        BY <1>2 DEF HashIInv, OwnersOK
  <2>8. \A p \in Producer : Owns(t, p)' => Owns(t, p)
        BY <1>2, <2>1, <2>7, NothingNew
  <2>9. count' = count + (IF Counted(t)' THEN 1 ELSE 0) - (IF Counted(t) THEN 1 ELSE 0)
    <3>1. Counted(t) /\ Counted(t)'
          BY <1>2, <2>1 DEF Counted
    <3>2. QED
          BY <1>1, <1>2, <3>1
  <2>10. ASSUME NEW k \in 1 .. Len(tables), NEW v \in Nat, v + 1 >= Limit(k),
                t \in Claimants(k, v)'
         PROVE  t \in Claimants(k, v)
    <3>1. m <= k
      <4>1. \A j \in 1 .. k : ~InTable(j, t)'
            BY <1>1, <1>2, <2>4, NotInTables, SameTables
      <4>2. QED
            BY <2>1, <2>5, <2>10, <4>1 DEF Claimants, Settled, Pending
    <3>2. Capacity(m) <= Capacity(k) /\ Capacity(m) \in Nat /\ Capacity(k) \in Nat
          BY <1>1, <3>1, TableShape DEF HashIInv, TablesGrow
    <3>3. newCount[t] < Limit(m)
          BY <1>6, <2>5 DEF RoomInOldTable, Limit
    <3>4. Limit(m) <= Limit(k) /\ Limit(m) \in Nat /\ Limit(k) \in Nat
          BY <3>2 DEF Limit
    <3>5. newCount[t] <= v
          BY <1>1, <2>10, <3>3, <3>4
    <3>6. QED
          BY <1>2, <3>5 DEF Claimants, Pending
  <2>11. QED
        BY <1>2, <2>2, <2>3, <2>6, <2>7, <2>8, <2>9, <2>10, QuietStep
<1>7. QED
      BY <1>5, <1>6

\* A call that gives up takes its thread off the count again.
LEMMA CountedOff ==
    ASSUME HashIInv, NEW t \in Thread, pc[t] \in {"allocate", "create"},
           pc'[t] \in {"unlock", "idle"}, UNCHANGED tables, count' = count - 1
    PROVE  count' = count + (IF Counted(t)' THEN 1 ELSE 0) - (IF Counted(t) THEN 1 ELSE 0)
<1>1. count \in Nat
      BY DEF HashIInv, HashType, SharedType
<1>2. ~Registered(t)
      BY NotInTables DEF Registering, Pending
<1>3. ~Registered(t)'
      BY <1>2 DEF Registered
<1>4. Counted(t) /\ ~Counted(t)'
      BY <1>3 DEF Counted
<1>5. QED
      BY <1>1, <1>4

LEMMA AllocateFailsStep ==
    ASSUME ConstantsOK, HashIInv, NEW t \in Thread, AllocateFails(t)
    PROVE  HashIInv'
<1>1. /\ HashType /\ LocalsType /\ tables \in Seq(AllTables) /\ resizing \in BOOLEAN
      BY DEF HashIInv, HashType, SharedType, LocalsType
<1>2. /\ pc[t] = "allocate" /\ pc'[t] = "unlock" /\ OtherLocals(t) /\ count' = count - 1
      /\ UNCHANGED << tables, main, resizing, used, list, mainHash, hash, index, newCount, mine,
                      returned >>
      BY <1>1 DEF AllocateFails, Goto, LocalsType, Set, OtherLocals, locals
<1>3. LocalsType'
      BY <1>1 DEF AllocateFails, Goto, LocalsType, Set, Label, locals
<1>4. Grown(t)
      BY <1>1, <1>2, TablesKept
<1>5. count' = count + (IF Counted(t)' THEN 1 ELSE 0) - (IF Counted(t) THEN 1 ELSE 0)
      BY <1>2, CountedOff
<1>6. count' \in Nat
      BY <1>1, <1>2, <1>4, <1>5, CountFollows
<1>7. HashType'
      BY <1>1, <1>2, <1>3, <1>6, SharedKept DEF HashType
<1>8. FlagIsLock'
      BY <1>2, <1>4, FlagKept DEF Holding
<1>9. CallOK(t)'
  <2>1. pc[t] \in Registering /\ pc'[t] \in Registering \ {"link"}
        BY <1>2 DEF Registering, Pending
  <2>2. QED
        BY <1>2, <2>1, NotInTables, RegisteringStays
<1>10. \A p \in Producer : returned'[t] = p => InTables(t, p)
      BY <1>2 DEF HashIInv, OwnersOK
<1>11. \A p \in Producer : Owns(t, p)' => Owns(t, p)
      BY <1>2, <1>10, NothingNew
<1>12. \A k \in 1 .. Len(tables) : \A v \in Nat : t \in Claimants(k, v)' => t \in Claimants(k, v)
      BY <1>2, NoRoomAsked DEF Committed, Pending
<1>13. QED
      BY <1>2, <1>5, <1>7, <1>8, <1>9, <1>10, <1>11, <1>12, QuietStep

LEMMA ClearFlagAndFailStep ==
    ASSUME ConstantsOK, HashIInv, NEW t \in Thread, ClearFlagAndFail(t)
    PROVE  HashIInv'
<1> USE DEF ConstantsOK
<1>1. /\ HashType /\ SharedType /\ LocalsType /\ FlagIsLock /\ count \in Nat
      BY DEF HashIInv, HashType, SharedType
<1>2. /\ pc[t] = "unlock" /\ Return(t, NoProducer) /\ resizing' = FALSE
      /\ UNCHANGED << tables, main, count, used, list >>
      BY DEF ClearFlagAndFail
<1>3. SharedType'
      BY <1>1, <1>2, SharedKept
<1>4. pc'[t] = "idle" /\ OtherLocals(t)
      BY <1>1, <1>2, <1>3, ReturnTypes, ReturnKeepsCall DEF HashType
<1>5. FlagIsLock'
  <2>1. \A u \in Thread \ {t} : pc[u] \notin Holding /\ pc'[u] = pc[u]
        BY <1>1, <1>2, <1>4 DEF FlagIsLock, Holding, OtherLocals
  <2>2. \A u \in Thread : pc'[u] \notin Holding
        BY <1>4, <2>1 DEF Holding
  <2>3. QED
        BY <2>2 DEF FlagIsLock, Holding
<1>6. count' = count + (IF Counted(t)' THEN 1 ELSE 0) - (IF Counted(t) THEN 1 ELSE 0)
      BY <1>1, <1>2, <1>4, UncountedStep
<1>7. NoProducer \notin Producer
      OBVIOUS
<1>8. QED
      BY <1>2, <1>3, <1>5, <1>6, <1>7, QuietReturn

LEMMA CreateProducerFailsStep ==
    ASSUME ConstantsOK, HashIInv, NEW t \in Thread, CreateProducerFails(t)
    PROVE  HashIInv'
<1> USE DEF ConstantsOK
<1>1. /\ HashType /\ SharedType /\ LocalsType /\ tables \in Seq(AllTables) /\ resizing \in BOOLEAN
      BY DEF HashIInv, HashType, SharedType
<1>2. /\ pc[t] = "create" /\ Return(t, NoProducer) /\ count' = count - 1
      /\ UNCHANGED << tables, main, resizing, used, list >>
      BY DEF CreateProducerFails
<1>3. pc'[t] = "idle" /\ OtherLocals(t)
      BY <1>1, <1>2 DEF LocalsType, Return, Set, OtherLocals
<1>4. Grown(t)
      BY <1>1, <1>2, TablesKept
<1>5. count' = count + (IF Counted(t)' THEN 1 ELSE 0) - (IF Counted(t) THEN 1 ELSE 0)
      BY <1>2, <1>3, CountedOff
<1>6. count' \in Nat
      BY <1>1, <1>2, <1>3, <1>4, <1>5, CountFollows
<1>7. SharedType'
      BY <1>1, <1>2, <1>6, SharedKept
<1>8. FlagIsLock'
      BY <1>2, <1>3, <1>4, FlagKept DEF Holding
<1>9. NoProducer \notin Producer
      OBVIOUS
<1>10. QED
      BY <1>2, <1>5, <1>7, <1>8, <1>9, QuietReturn

\* Whoever may be found room has been counted.
LEMMA ClaimantsAreCounted ==
    ASSUME HashIInv, NEW k \in 1 .. Len(tables), NEW v
    PROVE  Claimants(k, v) \subseteq CountedThreads
<1>1. SUFFICES ASSUME NEW t \in Thread, t \in Claimants(k, v)
               PROVE  Counted(t)
      BY DEF Claimants, CountedThreads
<1>2. CASE pc[t] \in Committed \cup Pending
      BY <1>2 DEF Committed, Pending, Counted
<1>3. CASE pc[t] \notin Committed \cup Pending
  <2>1. PICK j \in 1 .. k : InTable(j, t)
        BY <1>1, <1>3 DEF Claimants, Settled
  <2>2. j \in 1 .. Len(tables) /\ tables \in Seq(AllTables)
        BY DEF HashIInv, HashType, SharedType
  <2>3. PICK i \in Slots(j) : tables[j].key[i] = t
        BY <2>1 DEF InTable
  <2>4. tables[j].value[i] # NoProducer
        BY <1>3, <2>2, <2>3 DEF HashIInv, KeysOK, Committed
  <2>5. tables[j].value[i] \in Producer
        BY <2>2, <2>3, <2>4, TableShape
  <2>6. InTables(t, tables[j].value[i])
        BY <2>2, <2>3 DEF InTables
  <2>7. QED
        BY <2>5, <2>6, CountedIs
<1>4. QED
      BY <1>2, <1>3

LEMMA FetchCountStep ==
    ASSUME ConstantsOK, HashIInv, NEW t \in Thread, FetchCount(t)
    PROVE  HashIInv'
<1> USE DEF ConstantsOK
<1>1. /\ HashType /\ SharedType /\ LocalsType /\ tables \in Seq(AllTables) /\ resizing \in BOOLEAN
      /\ count \in Nat /\ count = Cardinality(CountedThreads) /\ Len(tables) \in Nat
  <2>1. HashType /\ SharedType /\ LocalsType /\ CountIsExact
        BY DEF HashIInv, HashType
  <2>2. QED
        BY <2>1 DEF SharedType, CountIsExact, CountedThreads
<1>2. /\ pc[t] = "count" /\ pc'[t] = "resize?" /\ OtherLocals(t) /\ count' = count + 1
      /\ newCount'[t] = count + 1
      /\ UNCHANGED << tables, main, resizing, used, list, mainHash, hash, index, mine, returned >>
      BY <1>1 DEF FetchCount, Goto, LocalsType, Set, OtherLocals
<1>3. HashType'
  <2>1. LocalsType'
        BY <1>1 DEF FetchCount, Goto, LocalsType, Set, Label
  <2>2. QED
        BY <1>1, <1>2, <2>1, SharedKept DEF HashType
<1>4. Grown(t)
      BY <1>1, <1>2, TablesKept
<1>5. FlagIsLock'
      BY <1>2, <1>4, FlagKept DEF Holding
<1>6. pc[t] \in Registering /\ pc'[t] \in Registering \ {"link"}
      BY <1>2 DEF Registering, Pending
<1>7. CallOK(t)'
      BY <1>2, <1>6, NotInTables, RegisteringStays
<1>8. \A p \in Producer : returned'[t] = p => InTables(t, p)
      BY <1>2 DEF HashIInv, OwnersOK
<1>9. \A p \in Producer : Owns(t, p)' => Owns(t, p)
      BY <1>2, <1>8, NothingNew
<1>10. ~Counted(t) /\ Counted(t)'
  <2>1. ~Registered(t)
        BY <1>6, NotInTables
  <2>2. QED
        BY <1>2, <2>1 DEF Counted
<1>11. count' = count + (IF Counted(t)' THEN 1 ELSE 0) - (IF Counted(t) THEN 1 ELSE 0)
      BY <1>1, <1>2, <1>10
<1>12. RoomIsReserved'
  <2>1. SUFFICES ASSUME NEW k \in 1 .. Len(tables), NEW v \in Nat, v + 1 >= Limit(k)
                 PROVE  Cardinality(Claimants(k, v)') <= v
    <3>1. \A k \in 1 .. Len(tables) : Limit(k)' = Limit(k)
          BY <1>2, SameTables
    <3>2. QED
          BY <1>2, <2>1, <3>1 DEF RoomIsReserved
  <2>2. Claimants(k, v)' \subseteq Claimants(k, v) \cup {t}
    <3>1. SUFFICES ASSUME NEW u \in Thread, u \in Claimants(k, v)', u # t
                   PROVE  u \in Claimants(k, v)
          BY DEF Claimants
    <3>2. QED
          BY <1>1, <1>2, <1>4, <3>1, OthersClaim
  <2>3. IsFiniteSet(Claimants(k, v)) /\ IsFiniteSet(CountedThreads)
        BY FS_Subset DEF Claimants, CountedThreads
  <2>4. Cardinality(Claimants(k, v)) <= v /\ Cardinality(Claimants(k, v)) \in Nat
        BY <2>1, <2>3, FS_CardinalityType DEF HashIInv, RoomIsReserved
  <2>5. CASE count + 1 <= v
    <3>1. Claimants(k, v)' \subseteq CountedThreads \cup {t}
          BY <2>2, ClaimantsAreCounted
    <3>2. IsFiniteSet(CountedThreads \cup {t}) /\ Cardinality(CountedThreads \cup {t}) = count + 1
      <4>1. t \notin CountedThreads
            BY <1>10 DEF CountedThreads
      <4>2. QED
            BY <1>1, <2>3, <4>1, FS_AddElement
    <3>3. /\ Cardinality(Claimants(k, v)') <= count + 1
          /\ Cardinality(Claimants(k, v)') \in Nat
          BY <3>1, <3>2, FS_Subset, FS_CardinalityType
    <3>4. QED
          BY <1>1, <2>5, <3>3
  <2>6. CASE ~(count + 1 <= v)
    <3>1. t \notin Claimants(k, v)'
      <4>1. \A j \in 1 .. k : ~InTable(j, t)'
            BY <1>1, <1>2, <1>6, NotInTables, SameTables
      <4>2. QED
            BY <1>2, <2>6, <4>1 DEF Claimants, Settled, Committed, Pending
    <3>2. Claimants(k, v)' \subseteq Claimants(k, v)
          BY <2>2, <3>1
    <3>3. /\ Cardinality(Claimants(k, v)') <= Cardinality(Claimants(k, v))
          /\ Cardinality(Claimants(k, v)') \in Nat
          BY <2>3, <3>2, FS_Subset, FS_CardinalityType
    <3>4. QED
          BY <2>4, <3>3
  <2>7. QED
        BY <2>5, <2>6
<1>13. QED
      BY <1>2, <1>3, <1>5, <1>7, <1>8, <1>9, <1>11, <1>12, CountingStep


-----------------------------------------------------------------------------
(* Steps that make a producer and list it *)

\* A thread that has been found room is neither in a table nor an owner, but
\* for a producer it has made.
LEMMA CommittedStep ==
    ASSUME ConstantsOK, HashIInv, NEW t \in Thread, UNCHANGED << tables, main, count, resizing >>,
           OtherLocals(t), pc[t] \in {"create", "link"}, pc'[t] \in {"link", "claim"},
           mainHash'[t] = mainHash[t], HashType', CallOK(t)', OwnersOK'
    PROVE  HashIInv'
<1>1. tables \in Seq(AllTables) /\ tables' \in Seq(AllTables) /\ Grown(t) /\ count \in Nat
      BY TablesKept DEF HashIInv, HashType, SharedType
<1>2. TablesGrow' /\ \A k \in 1 .. Len(tables') : KeysOK(k)'
      BY KeysKept
<1>3. \A u \in Thread : CallOK(u)'
      BY <1>1, OtherCallKept
<1>4. FlagIsLock'
      BY <1>1, FlagKept DEF Holding
<1>5. Counted(t) /\ Counted(t)'
      BY DEF Counted
<1>6. CountIsExact'
      BY <1>1, <1>5, CountFollows
<1>7. \A k, v : t \in Claimants(k, v)' => t \in Claimants(k, v)
      BY SameTables DEF Claimants, Settled, Committed, Pending
<1>8. RoomIsReserved'
      BY <1>1, <1>7, RoomKept
<1>9. QED
      BY <1>2, <1>3, <1>4, <1>6, <1>8 DEF HashIInv

LEMMA CreateProducerStep ==
    ASSUME ConstantsOK, HashIInv, NEW t \in Thread, NEW p \in Producer, CreateProducer(t, p)
    PROVE  HashIInv'
<1> USE DEF ConstantsOK
<1>1. HashType /\ SharedType /\ LocalsType /\ OwnersOK /\ list \in Seq(used)
      BY DEF HashIInv, HashType, SharedType
<1>2. /\ pc[t] = "create" /\ pc'[t] = "link" /\ OtherLocals(t) /\ mine'[t] = p
      /\ UNCHANGED << tables, main, count, resizing, list, mainHash, hash, index, newCount,
                      returned >>
      /\ used' = used \cup {p} /\ p = Cardinality(used) + 1
      BY <1>1 DEF CreateProducer, Goto, LocalsType, Set, OtherLocals
<1>3. PICK n \in Nat : used = 1 .. n
      BY <1>1 DEF SharedType
<1>4. p = n + 1 /\ p \notin used
  <2>1. Cardinality(1 .. n) = n
        BY FS_Interval
  <2>2. QED
        BY <1>2, <1>3, <2>1
<1>5. HashType'
  <2>1. LocalsType'
        BY <1>1 DEF CreateProducer, Goto, LocalsType, Set, Label
  <2>2. used' = 1 .. n + 1 /\ n + 1 \in Nat
        BY <1>2, <1>3, <1>4
  <2>3. list' \in Seq(used')
        BY <1>1, <1>2
  <2>4. SharedType'
        BY <1>1, <1>2, <2>2, <2>3 DEF SharedType
  <2>5. QED
        BY <2>1, <2>4 DEF HashType
<1>6. /\ \A j \in 1 .. Len(tables) : ~InTable(j, t)
      /\ \A q \in Producer : ~InTables(t, q)
      /\ returned[t] = NoProducer
      /\ mainHash[t] \in 1 .. Len(tables) /\ hash[t] \in 0 .. Len(tables)
      BY <1>2, NotInTables DEF Registering
<1>7. CallOK(t)'
  <2>1. \A j \in 1 .. Len(tables') : ~InTable(j, t)'
        BY <1>2, <1>6, SameTables
  <2>2. hash'[t] \in 0 .. Len(tables') /\ mainHash'[t] \in 0 .. Len(tables') /\ mainHash'[t] # 0
        /\ returned'[t] = NoProducer /\ mine'[t] # NoProducer
        BY <1>2, <1>6
  <2>3. QED
        BY <1>2, <2>1, <2>2 DEF CallOK, Registering, Pending
<1>8. \A q \in Producer : (Owns(t, q)' <=> q = p)
      BY <1>2, <1>6, SameTables DEF Owns
<1>9. \A u \in Thread \ {t}, q \in Producer : Owns(u, q)' <=> Owns(u, q)
      BY <1>2, SameTables DEF Owns, OtherLocals
<1>10. \A u \in Thread, q \in Producer : Owns(u, q) => q \in used /\ q # p
  <2>1. ASSUME NEW u \in Thread, NEW q \in Producer, Owns(u, q)
        PROVE  q \in used
        BY <1>1, <2>1 DEF OwnersOK
  <2>2. QED
        BY <1>4, <2>1
<1>11. OwnersOK'
  <2>1. ASSUME NEW u \in Thread, NEW w \in Thread, NEW q \in Producer, NEW r \in Producer,
               Owns(u, q)', Owns(w, r)'
        PROVE  u = w <=> q = r
    <3>1. CASE u # t /\ w # t
      <4>1. Owns(u, q) /\ Owns(w, r)
            BY <1>9, <2>1, <3>1
      <4>2. QED
            BY <1>1, <4>1 DEF OwnersOK
    <3>2. CASE u = t \/ w = t
          BY <1>8, <1>9, <1>10, <2>1, <3>2
    <3>3. QED
          BY <3>1, <3>2
  <2>2. ASSUME NEW u \in Thread, NEW q \in Producer, Owns(u, q)'
        PROVE  q \in used' /\ (pc'[u] # "link" => \E i \in 1 .. Len(list') : list'[i] = q)
    <3>1. CASE u = t
          BY <1>2, <1>8, <2>2, <3>1
    <3>2. CASE u # t
          BY <1>1, <1>2, <1>9, <2>2, <3>2 DEF OwnersOK, OtherLocals
    <3>3. QED
          BY <3>1, <3>2
  <2>3. \A u \in Thread : \A q \in Producer : returned'[u] = q => InTables(u, q)'
        BY <1>1, <1>2, SameTables DEF OwnersOK
  <2>4. QED
        BY <2>1, <2>2, <2>3 DEF OwnersOK
<1>12. QED
      BY <1>2, <1>5, <1>7, <1>11, CommittedStep

LEMMA LinkProducerStep ==
    ASSUME ConstantsOK, HashIInv, NEW t \in Thread, LinkProducer(t)
    PROVE  HashIInv'
<1> USE DEF ConstantsOK
<1>1. HashType /\ SharedType /\ LocalsType /\ OwnersOK /\ list \in Seq(used) /\ CallOK(t)
      BY DEF HashIInv, HashType, SharedType
<1>2. /\ pc[t] = "link"
      /\ UNCHANGED << tables, main, count, resizing, used, mainHash, hash, newCount, mine,
                      returned >>
      BY DEF LinkProducer
<1>3. /\ \A j \in 1 .. Len(tables) : ~InTable(j, t)
      /\ \A q \in Producer : ~InTables(t, q)
      /\ returned[t] = NoProducer
      /\ mainHash[t] \in 1 .. Len(tables) /\ hash[t] \in 0 .. Len(tables)
      BY <1>2, NotInTables DEF Registering
<1>4. mine[t] \in Producer /\ Owns(t, mine[t]) /\ mine[t] \in used
  <2>1. mine[t] \in Producer
        BY <1>1, <1>2 DEF CallOK, LocalsType
  <2>2. QED
        BY <1>1, <1>2, <2>1 DEF Owns, OwnersOK
<1>5. \A j \in 1 .. Len(tables') : ~InTable(j, t)'
      BY <1>2, <1>3, SameTables
<1>6. CASE list = tail[t]
  <2>1. /\ list' = << mine[t] >> \o list /\ pc' = Set(pc, t, "claim")
        /\ index' = Set(index, t, Hash[t])
        BY <1>6 DEF LinkProducer
  <2>2. pc'[t] = "claim" /\ index'[t] = Hash[t] /\ OtherLocals(t)
        BY <1>1, <1>2, <2>1 DEF LocalsType, Set, OtherLocals
  <2>3. HashType'
    <3>1. LocalsType'
          BY <1>1, <1>2, <2>1 DEF LocalsType, Set, Label
    <3>2. list' \in Seq(used')
          BY <1>1, <1>2, <1>4, <2>1
    <3>3. QED
          BY <1>1, <1>2, <3>1, <3>2 DEF HashType, SharedType
  <2>4. CallOK(t)'
    <3>1. PICK m \in 1 .. Len(tables) : m = mainHash[t]
          BY <1>3
    <3>2. PICK s : s = Slot(m, Hash[t])
          OBVIOUS
    <3>3. Probed(m, t, s)' /\ s = Slot(m, Hash[t])'
          BY <1>2, <3>2, ProbeBegins, SameTables
    <3>4. Probed(mainHash[t], t, Slot(mainHash[t], index[t]))'
          BY <1>2, <2>2, <3>1, <3>3 DEF Probed, OnPath
    <3>5. /\ mainHash'[t] \in 0 .. Len(tables') /\ hash'[t] \in 0 .. Len(tables')
          /\ mainHash'[t] # 0 /\ mine'[t] # NoProducer
          BY <1>2, <1>3, <1>4
    <3>6. \A j \in mainHash'[t] .. Len(tables') : ~InTable(j, t)'
          BY <1>2, <1>3, <1>5
    <3>7. QED
          BY <1>2, <2>2, <3>4, <3>5, <3>6 DEF CallOK, Registering, Pending
  <2>5. \A u \in Thread, q \in Producer : Owns(u, q)' <=> Owns(u, q)
    <3>1. \A u \in Thread \ {t}, q \in Producer : Owns(u, q)' <=> Owns(u, q)
          BY <1>2, <2>2, SameTables DEF Owns, OtherLocals
    <3>2. \A q \in Producer : Owns(t, q)' <=> Owns(t, q)
          BY <1>2, <2>2, SameTables DEF Owns
    <3>3. QED
          BY <3>1, <3>2
  <2>6. OwnersOK'
    <3>1. /\ Len(list') = Len(list) + 1 /\ Len(list) \in Nat /\ list'[1] = mine[t]
          /\ \A i \in 1 .. Len(list) : list'[i + 1] = list[i]
          BY <1>1, <1>4, <2>1
    <3>2. \A q : (\E i \in 1 .. Len(list) : list[i] = q) => \E i \in 1 .. Len(list') : list'[i] = q
      <4>1. SUFFICES ASSUME NEW q, NEW i \in 1 .. Len(list), list[i] = q
                     PROVE  \E j \in 1 .. Len(list') : list'[j] = q
            OBVIOUS
      <4>2. i + 1 \in 1 .. Len(list') /\ list'[i + 1] = q
            BY <3>1, <4>1
      <4>3. QED
            BY <4>2
    <3>3. \E i \in 1 .. Len(list') : list'[i] = mine[t]
      <4>1. 1 \in 1 .. Len(list') /\ list'[1] = mine[t]
            BY <3>1
      <4>2. QED
            BY <4>1
    <3>4. ASSUME NEW u \in Thread, NEW q \in Producer, Owns(u, q)'
          PROVE  q \in used' /\ (pc'[u] # "link" => \E i \in 1 .. Len(list') : list'[i] = q)
      <4>1. Owns(u, q) /\ q \in used /\ (pc[u] # "link" => \E i \in 1 .. Len(list) : list[i] = q)
            BY <1>1, <2>5, <3>4 DEF OwnersOK
      <4>2. CASE u = t
        <5>1. q = mine[t]
              BY <1>1, <1>4, <4>1, <4>2 DEF OwnersOK
        <5>2. QED
              BY <1>2, <3>3, <4>1, <5>1
      <4>3. CASE u # t
            BY <1>2, <2>2, <3>2, <4>1, <4>3 DEF OtherLocals
      <4>4. QED
            BY <4>2, <4>3
    <3>5. \A u, w \in Thread : \A q, r \in Producer :
              Owns(u, q)' /\ Owns(w, r)' => (u = w <=> q = r)
      <4>1. \A u, w \in Thread : \A q, r \in Producer :
                Owns(u, q) /\ Owns(w, r) => (u = w <=> q = r)
            BY <1>1 DEF OwnersOK
      <4>2. QED
            BY <4>1, <2>5
    <3>6. \A u \in Thread : \A q \in Producer : returned'[u] = q => InTables(u, q)'
      <4>1. \A u \in Thread : \A q \in Producer : returned[u] = q => InTables(u, q)
            BY <1>1 DEF OwnersOK
      <4>2. \A u, q : InTables(u, q)' <=> InTables(u, q)
            BY <1>2, SameTables
      <4>3. QED
            BY <1>2, <4>1, <4>2
    <3>7. QED
          BY <3>4, <3>5, <3>6 DEF OwnersOK
  <2>7. QED
        BY <1>2, <2>2, <2>3, <2>4, <2>6, CommittedStep
<1>7. CASE list # tail[t]
  <2>1. UNCHANGED << list, pc, index >>
        BY <1>7 DEF LinkProducer
  <2>2. OtherLocals(t)
        BY <1>2, <2>1 DEF OtherLocals
  <2>3. HashType'
    <3>1. SharedType'
          BY <1>1, <1>2, <2>1 DEF SharedType
    <3>2. LocalsType'
          BY <1>1, <1>2, <2>1 DEF LocalsType
    <3>3. QED
          BY <3>1, <3>2 DEF HashType
  <2>4. CallOK(t)'
    <3>1. /\ mainHash'[t] \in 0 .. Len(tables') /\ hash'[t] \in 0 .. Len(tables')
          /\ mainHash'[t] # 0 /\ mine'[t] # NoProducer /\ returned'[t] = NoProducer
          BY <1>2, <1>3, <1>4
    <3>2. QED
          BY <1>2, <1>5, <2>1, <3>1 DEF CallOK, Registering, Pending
  <2>5. OwnersOK'
    <3>1. \A u \in Thread, q \in Producer : Owns(u, q)' <=> Owns(u, q)
          BY <1>2, <2>1, SameTables DEF Owns
    <3>2. QED
          BY <1>1, <1>2, <2>1, <3>1, SameTables DEF OwnersOK
  <2>6. QED
        BY <1>2, <2>1, <2>2, <2>3, <2>4, <2>5, CommittedStep
<1>8. QED
      BY <1>6, <1>7


-----------------------------------------------------------------------------
(* Steps that change the tables *)

\* The keys of a table that a step does not touch.
LEMMA OtherKeysKept ==
    ASSUME ConstantsOK, HashIInv, NEW t \in Thread, Grown(t), OtherLocals(t),
           NEW k \in 1 .. Len(tables), tables'[k] = tables[k],
           pc[t] = "store" => mainHash[t] # k
    PROVE  KeysOK(k)'
<1>1. KeysOK(k)
      BY DEF HashIInv
<1>2. ASSUME NEW u \in Thread, NEW i \in Slots(k), tables[k].key[i] = u
      PROVE  /\ Probed(k, u, i)'
             /\ tables[k].value[i] = NoProducer =>
                    pc'[u] = "store" /\ mainHash'[u] = k /\ index'[u] = i
  <2>1. Probed(k, u, i)
        BY <1>1, <1>2 DEF KeysOK
  <2>2. Probed(k, u, i)'
        BY <2>1, GrownPath DEF ConstantsOK
  <2>3. tables[k].value[i] = NoProducer =>
            u # t /\ pc[u] = "store" /\ mainHash[u] = k /\ index[u] = i
        BY <1>1, <1>2 DEF KeysOK
  <2>4. QED
        BY <2>2, <2>3 DEF OtherLocals
<1>3. QED
      BY <1>1, <1>2 DEF KeysOK, Slots

\* The order of the tables, when none is added.
LEMMA OrderKept ==
    ASSUME HashIInv, NEW t \in Thread, Grown(t), Len(tables') = Len(tables)
    PROVE  TablesGrow'
<1>1. \A k \in 1 .. Len(tables) : Capacity(k)' = Capacity(k) /\ tables'[k].prev = tables[k].prev
      BY GrownSizes DEF Grown
<1>2. QED
      BY <1>1 DEF HashIInv, TablesGrow

\* A key or a value put into a table.
LEMMA PutKey ==
    ASSUME NEW c \in Nat \ {0}, NEW r \in Table(c), NEW i \in 0 .. c - 1, NEW t \in Thread
    PROVE  [r EXCEPT !.key[i] = t] \in Table(c)
<1>1. r.key \in [0 .. c - 1 -> Thread \cup {NoThread}]
      BY DEF Table
<1>2. [r.key EXCEPT ![i] = t] \in [0 .. c - 1 -> Thread \cup {NoThread}]
      BY <1>1
<1>3. [r EXCEPT !.key[i] = t] = [r EXCEPT !.key = [r.key EXCEPT ![i] = t]]
      OBVIOUS
<1>4. QED
      BY <1>2, <1>3 DEF Table

LEMMA ClaimStep ==
    ASSUME ConstantsOK, HashIInv, NEW t \in Thread, Claim(t)
    PROVE  HashIInv'
<1> USE DEF ConstantsOK
<1>1. /\ HashType /\ SharedType /\ LocalsType /\ OwnersOK /\ CallOK(t) /\ count \in Nat
      /\ tables \in Seq(AllTables) /\ Len(tables) \in Nat /\ index[t] \in Nat
  <2>1. HashType /\ SharedType /\ LocalsType /\ OwnersOK /\ CallOK(t)
        BY DEF HashIInv, HashType
  <2>2. tables \in Seq(AllTables) /\ Len(tables) \in Nat /\ count \in Nat
        BY <2>1 DEF SharedType
  <2>3. index[t] \in Nat
        BY <2>1 DEF LocalsType
  <2>4. QED
        BY <2>1, <2>2, <2>3
<1>2. /\ pc[t] = "claim"
      /\ UNCHANGED << main, count, resizing, used, list, mainHash, hash, newCount, mine, tail,
                      returned >>
      BY DEF Claim
<1>3. PICK k \in 1 .. Len(tables) : k = mainHash[t]
      BY <1>1, <1>2 DEF CallOK
<1>4. PICK i \in Slots(k) : i = Slot(k, index[t])
      BY <1>1, SlotInTable
<1>5. /\ Probed(k, t, i) /\ \A j \in k .. Len(tables) : ~InTable(j, t)
      /\ mine[t] # NoProducer /\ hash[t] \in 0 .. Len(tables)
      BY <1>1, <1>2, <1>3, <1>4 DEF CallOK
<1>6. \A j \in Slots(k) : tables[k].key[j] # t
      BY <1>1, <1>5 DEF InTable
<1>7. \A p \in Producer : returned'[t] = p => InTables(t, p)
      BY <1>1, <1>2 DEF OwnersOK
<1>8. CASE tables[k].key[i] # NoThread
  <2>1. index' = Set(index, t, Slot(k, i + 1)) /\ UNCHANGED << tables, pc >>
        BY <1>3, <1>4, <1>8 DEF Claim
  <2>2. PICK s : s = Slot(k, i + 1)
        OBVIOUS
  <2>3. s \in Nat /\ Slot(k, s) = s
    <3>1. i + 1 \in Nat
          BY <1>1, SlotIsNatural
    <3>2. QED
          BY <1>1, <2>2, <3>1, SlotInTable
  <2>4. index'[t] = s /\ OtherLocals(t)
        BY <1>1, <1>2, <2>1, <2>2 DEF LocalsType, Set, OtherLocals
  <2>5. HashType'
    <3>1. LocalsType'
          BY <1>1, <1>2, <2>1, <2>2, <2>3 DEF LocalsType, Set
    <3>2. SharedType'
          BY <1>1, <1>2, <2>1 DEF SharedType
    <3>3. QED
          BY <3>1, <3>2 DEF HashType
  <2>6. FlagIsLock'
        BY <1>1, <1>2, <2>1, <2>4, TablesKept, FlagKept DEF Holding
  <2>7. CallOK(t)'
    <3>1. Probed(k, t, s)' /\ s = Slot(k, s)'
          BY <1>5, <1>6, <1>8, <2>1, <2>2, <2>3, ProbeGoesOn, SameTables
    <3>2. Probed(mainHash[t], t, Slot(mainHash[t], index[t]))'
          BY <1>2, <1>3, <2>4, <3>1 DEF Probed, OnPath
    <3>3. \A j \in mainHash'[t] .. Len(tables') : ~InTable(j, t)'
          BY <1>2, <1>3, <1>5, <2>1, SameTables
    <3>4. /\ mainHash'[t] \in 0 .. Len(tables') /\ hash'[t] \in 0 .. Len(tables')
          /\ mainHash'[t] # 0 /\ mine'[t] # NoProducer
          BY <1>1, <1>2, <1>3, <1>5, <2>1
    <3>5. QED
          BY <1>2, <2>1, <3>2, <3>3, <3>4 DEF CallOK, Registering, Pending
  <2>8. \A p \in Producer : Owns(t, p)' => Owns(t, p)
        BY <1>2, <1>7, <2>1, SameTables DEF Owns
  <2>9. Counted(t) /\ Counted(t)'
        BY <1>2, <2>1 DEF Counted
  <2>10. \A m, v : t \in Claimants(m, v)' => t \in Claimants(m, v)
        BY <1>2, <2>1, SameTables DEF Claimants, Settled
  <2>11. QED
        BY <1>1, <1>2, <1>7, <2>1, <2>4, <2>5, <2>6, <2>7, <2>8, <2>9, <2>10, QuietStep
<1>9. CASE tables[k].key[i] = NoThread
  <2>1. /\ tables' = [tables EXCEPT ![k].key[i] = t]
        /\ pc' = Set(pc, t, "store") /\ index' = Set(index, t, i)
        BY <1>3, <1>4, <1>9 DEF Claim
  <2>2. pc'[t] = "store" /\ index'[t] = i /\ OtherLocals(t)
        BY <1>1, <1>2, <2>1 DEF LocalsType, Set, OtherLocals
  <2>3. PICK c \in Nat \ {0} : c = Capacity(k)
        BY <1>1, TableShape
  <2>4. tables[k] \in Table(c) /\ Slots(k) = 0 .. c - 1
        BY <1>1, <2>3, TableShape
  <2>5. /\ tables'[k] = [tables[k] EXCEPT !.key[i] = t] /\ Len(tables') = Len(tables)
        /\ \A j \in 1 .. Len(tables) : j # k => tables'[j] = tables[j]
    <3>1. DOMAIN tables = 1 .. Len(tables)
          BY <1>1
    <3>2. tables' = [tables EXCEPT ![k] = [tables[k] EXCEPT !.key[i] = t]]
          BY <2>1
    <3>3. QED
          BY <1>1, <3>1, <3>2
  <2>6. /\ tables'[k].key = [tables[k].key EXCEPT ![i] = t]
        /\ tables'[k].value = tables[k].value /\ tables'[k].prev = tables[k].prev
        /\ DOMAIN tables'[k].key = Slots(k) /\ tables'[k].key[i] = t
        /\ \A j \in Slots(k) : j # i => tables'[k].key[j] = tables[k].key[j]
        BY <2>4, <2>5 DEF Table
  <2>7. tables' \in Seq(AllTables)
    <3>1. tables'[k] \in Table(c)
          BY <2>4, <2>5, PutKey
    <3>2. tables'[k] \in AllTables
          BY <3>1 DEF AllTables
    <3>3. QED
          BY <1>1, <2>1, <2>5, <3>2
  <2>8. Grown(t)
    <3>1. ASSUME NEW j \in 1 .. Len(tables)
          PROVE  /\ DOMAIN tables'[j].key = Slots(j) /\ tables'[j].prev = tables[j].prev
                 /\ tables'[j].value = tables[j].value
                 /\ \A n \in Slots(j) : \/ tables'[j].key[n] = tables[j].key[n]
                                        \/ tables[j].key[n] = NoThread /\ tables'[j].key[n] = t
      <4>1. CASE j = k
            BY <1>9, <2>6, <4>1
      <4>2. CASE j # k
            BY <2>5, <4>2 DEF Slots
      <4>3. QED
            BY <4>1, <4>2
    <3>2. Len(tables) + 1 .. Len(tables') = {}
          BY <1>1, <2>5
    <3>3. QED
          BY <1>1, <2>5, <3>1, <3>2 DEF Grown
  <2>9. HashType'
    <3>1. i \in Nat
          BY <1>1, SlotIsNatural
    <3>2. LocalsType'
          BY <1>1, <1>2, <2>1, <3>1 DEF LocalsType, Set, Label
    <3>3. SharedType'
          BY <1>1, <1>2, <2>5, <2>7 DEF SharedType
    <3>4. QED
          BY <3>2, <3>3 DEF HashType
  <2>10. TablesGrow'
        BY <2>5, <2>8, OrderKept
  <2>11. FlagIsLock'
        BY <1>2, <2>2, <2>8, FlagKept DEF Holding
  <2>12. KeysOK(k)'
    <3>1. KeysOK(k) /\ tables[k].value[i] = NoProducer
          BY <1>9 DEF HashIInv, KeysOK
    <3>2. \A m, n \in Slots(k) : tables'[k].key[m] = tables'[k].key[n]
              /\ tables'[k].key[m] # NoThread => m = n
          BY <1>6, <2>6, <3>1 DEF KeysOK
    <3>3. \A n \in Slots(k) :
              tables'[k].key[n] = NoThread => tables'[k].value[n] = NoProducer
          BY <2>6, <3>1 DEF KeysOK
    <3>4. ASSUME NEW u \in Thread, NEW n \in Slots(k), tables'[k].key[n] = u
          PROVE  /\ Probed(k, u, n)'
                 /\ tables'[k].value[n] = NoProducer =>
                        pc'[u] = "store" /\ mainHash'[u] = k /\ index'[u] = n
      <4>1. CASE n = i
        <5>1. u = t
              BY <2>6, <3>4, <4>1
        <5>2. Probed(k, t, i)'
              BY <1>5, <2>8, GrownPath
        <5>3. QED
              BY <1>2, <1>3, <2>2, <4>1, <5>1, <5>2
      <4>2. CASE n # i
        <5>1. tables[k].key[n] = u /\ u # t
              BY <1>6, <2>6, <3>4, <4>2
        <5>2. Probed(k, u, n)
              BY <3>1, <5>1 DEF KeysOK
        <5>3. Probed(k, u, n)'
              BY <5>2, <2>8, GrownPath
        <5>4. tables[k].value[n] = NoProducer =>
                  pc[u] = "store" /\ mainHash[u] = k /\ index[u] = n
              BY <3>1, <5>1 DEF KeysOK
        <5>5. QED
              BY <2>2, <2>6, <5>1, <5>3, <5>4 DEF OtherLocals
      <4>3. QED
            BY <4>1, <4>2
    <3>5. QED
          BY <2>6, <3>2, <3>3, <3>4 DEF KeysOK, Slots
  <2>13. \A j \in 1 .. Len(tables') : KeysOK(j)'
        BY <1>2, <2>2, <2>5, <2>8, <2>12, OtherKeysKept
  <2>14. CallOK(t)'
    <3>1. tables[k].value[i] = NoProducer
          BY <1>9 DEF HashIInv, KeysOK
    <3>2. /\ index'[t] \in Slots(mainHash[t])' /\ tables'[mainHash'[t]].key[index'[t]] = t
          /\ tables'[mainHash'[t]].value[index'[t]] = NoProducer
          BY <1>2, <1>3, <2>2, <2>6, <3>1 DEF Slots
    <3>3. /\ mainHash'[t] \in 0 .. Len(tables') /\ hash'[t] \in 0 .. Len(tables')
          /\ mainHash'[t] # 0 /\ mine'[t] # NoProducer
          BY <1>1, <1>2, <1>3, <1>5, <2>5
    <3>4. QED
          BY <2>2, <3>2, <3>3 DEF CallOK, Registering, Pending
  <2>15. \A u \in Thread : CallOK(u)'
        BY <2>2, <2>7, <2>8, <2>14, OtherCallKept
  <2>16. \A p \in Producer : InTables(t, p)' => InTables(t, p)
    <3>1. SUFFICES ASSUME NEW p \in Producer, NEW j \in 1 .. Len(tables'),
                          NEW n \in DOMAIN tables'[j].key,
                          tables'[j].key[n] = t, tables'[j].value[n] = p
                   PROVE  InTables(t, p)
          BY DEF InTables, Slots
    <3>2. j \in 1 .. Len(tables)
          BY <2>5
    <3>3. CASE j = k
      <4>1. n = i
            BY <1>6, <2>6, <3>1, <3>3
      <4>2. tables'[k].value[n] = NoProducer
            BY <1>9, <2>6, <4>1 DEF HashIInv, KeysOK
      <4>3. QED
            BY <3>1, <3>3, <4>2
    <3>4. CASE j # k
          BY <2>5, <3>1, <3>2, <3>4 DEF InTables, Slots
    <3>5. QED
          BY <3>3, <3>4
  <2>17. OwnersOK'
    <3>1. \A p \in Producer : Owns(t, p)' => Owns(t, p)
          BY <1>2, <2>2, <2>16 DEF Owns
    <3>2. \A p \in Producer : returned'[t] = p => InTables(t, p)'
          BY <1>1, <1>7, <2>7, <2>8, GrownValues
    <3>3. QED
          BY <1>2, <2>2, <2>7, <2>8, <3>1, <3>2, OwnersKept
  <2>18. CountIsExact'
    <3>1. Counted(t) /\ Counted(t)'
          BY <1>2, <2>2 DEF Counted
    <3>2. QED
          BY <1>1, <1>2, <2>2, <2>7, <2>8, <3>1, CountFollows
  <2>19. RoomIsReserved'
    <3>1. ASSUME NEW m \in 1 .. Len(tables), NEW v \in Nat, t \in Claimants(m, v)'
          PROVE  t \in Claimants(m, v)
      <4>1. \/ \E j \in 1 .. m : InTable(j, t)'
            \/ k <= m
            BY <1>2, <1>3, <2>2, <3>1 DEF Claimants, Settled, Pending
      <4>2. CASE k <= m
            BY <1>2, <1>3, <4>2 DEF Claimants, Settled, Committed
      <4>3. CASE ~(k <= m)
        <5>1. PICK j \in 1 .. m : InTable(j, t)'
              BY <4>1, <4>3
        <5>2. j # k /\ j \in 1 .. Len(tables)
              BY <1>1, <4>3
        <5>3. InTable(j, t)
              BY <2>5, <5>1, <5>2 DEF InTable, Slots
        <5>4. QED
              BY <5>3 DEF Claimants, Settled
      <4>4. QED
            BY <4>2, <4>3
    <3>2. QED
          BY <2>2, <2>5, <2>8, <3>1, RoomKept
  <2>20. QED
        BY <2>9, <2>10, <2>11, <2>13, <2>15, <2>17, <2>18, <2>19 DEF HashIInv
<1>10. QED
      BY <1>8, <1>9


LEMMA PutValue ==
    ASSUME NEW c \in Nat \ {0}, NEW r \in Table(c), NEW i \in 0 .. c - 1, NEW p \in Producer
    PROVE  [r EXCEPT !.value[i] = p] \in Table(c)
<1>1. r.value \in [0 .. c - 1 -> Producer \cup {NoProducer}]
      BY DEF Table
<1>2. [r.value EXCEPT ![i] = p] \in [0 .. c - 1 -> Producer \cup {NoProducer}]
      BY <1>1
<1>3. [r EXCEPT !.value[i] = p] = [r EXCEPT !.value = [r.value EXCEPT ![i] = p]]
      OBVIOUS
<1>4. QED
      BY <1>2, <1>3 DEF Table

LEMMA StoreValueStep ==
    ASSUME ConstantsOK, HashIInv, NEW t \in Thread, StoreValue(t)
    PROVE  HashIInv'
<1> USE DEF ConstantsOK
<1>1. /\ HashType /\ SharedType /\ LocalsType /\ OwnersOK /\ CallOK(t) /\ count \in Nat
      /\ tables \in Seq(AllTables) /\ Len(tables) \in Nat
      /\ mine[t] \in Producer \cup {NoProducer}
  <2>1. HashType /\ SharedType /\ LocalsType /\ OwnersOK /\ CallOK(t)
        BY DEF HashIInv, HashType
  <2>2. tables \in Seq(AllTables) /\ Len(tables) \in Nat /\ count \in Nat
        BY <2>1 DEF SharedType
  <2>3. mine[t] \in Producer \cup {NoProducer}
        BY <2>1 DEF LocalsType
  <2>4. QED
        BY <2>1, <2>2, <2>3
<1>2. /\ pc[t] = "store" /\ Return(t, mine[t])
      /\ UNCHANGED << main, count, resizing, used, list >>
      BY DEF StoreValue
<1>3. PICK k \in 1 .. Len(tables) : k = mainHash[t]
      BY <1>1, <1>2 DEF CallOK
<1>4. PICK p \in Producer : p = mine[t]
      BY <1>1, <1>2 DEF CallOK
<1>5. PICK i \in Slots(k) : i = index[t]
      BY <1>1, <1>2, <1>3 DEF CallOK
<1>6. tables[k].key[i] = t /\ tables[k].value[i] = NoProducer
      BY <1>1, <1>2, <1>3, <1>5 DEF CallOK
<1>7. tables' = [tables EXCEPT ![k].value[i] = p]
      BY <1>3, <1>4, <1>5 DEF StoreValue
<1>8. PICK c \in Nat \ {0} : c = Capacity(k)
      BY <1>1, TableShape
<1>9. tables[k] \in Table(c) /\ Slots(k) = 0 .. c - 1
      BY <1>1, <1>8, TableShape
<1>10. /\ tables'[k] = [tables[k] EXCEPT !.value[i] = p] /\ Len(tables') = Len(tables)
       /\ \A j \in 1 .. Len(tables) : j # k => tables'[j] = tables[j]
  <2>1. DOMAIN tables = 1 .. Len(tables)
        BY <1>1
  <2>2. tables' = [tables EXCEPT ![k] = [tables[k] EXCEPT !.value[i] = p]]
        BY <1>7
  <2>3. QED
        BY <1>1, <2>1, <2>2
<1>11. /\ tables'[k].key = tables[k].key /\ tables'[k].prev = tables[k].prev
       /\ tables'[k].value[i] = p
       /\ \A j \in Slots(k) : j # i => tables'[k].value[j] = tables[k].value[j]
      BY <1>9, <1>10 DEF Table
<1>12. tables' \in Seq(AllTables)
  <2>1. tables'[k] \in Table(c)
        BY <1>9, <1>10, PutValue
  <2>2. tables'[k] \in AllTables
        BY <2>1 DEF AllTables
  <2>3. QED
        BY <1>1, <1>7, <1>10, <2>2
<1>13. \A j \in 1 .. Len(tables) :
           tables'[j].key = tables[j].key /\ tables'[j].prev = tables[j].prev
      BY <1>10, <1>11
<1>14. Grown(t)
  <2>1. ASSUME NEW j \in 1 .. Len(tables), NEW n \in Slots(j)
        PROVE  \/ tables'[j].value[n] = tables[j].value[n]
               \/ tables[j].value[n] = NoProducer /\ tables[j].key[n] = t
        BY <1>6, <1>10, <1>11
  <2>2. Len(tables) + 1 .. Len(tables') = {}
        BY <1>1, <1>10
  <2>3. QED
        BY <1>1, <1>10, <1>13, <2>1, <2>2 DEF Grown, Slots
<1>15. HashType'
  <2>1. LocalsType'
        BY <1>1, <1>2, ReturnTypes
  <2>2. SharedType'
        BY <1>1, <1>2, <1>10, <1>12 DEF SharedType
  <2>3. QED
        BY <2>1, <2>2 DEF HashType
<1>16. CallOK(t)' /\ pc'[t] = "idle" /\ returned'[t] = p /\ OtherLocals(t)
      BY <1>1, <1>2, <1>4, <1>15, ReturnKeepsCall
<1>17. TablesGrow'
      BY <1>10, <1>14, OrderKept
<1>18. FlagIsLock'
      BY <1>2, <1>14, <1>16, FlagKept DEF Holding
<1>19. KeysOK(k)'
  <2>1. KeysOK(k)
        BY DEF HashIInv
  <2>2. \A m, n \in Slots(k) : tables'[k].key[m] = tables'[k].key[n]
            /\ tables'[k].key[m] # NoThread => m = n
        BY <1>11, <2>1 DEF KeysOK
  <2>3. \A n \in Slots(k) :
            tables'[k].key[n] = NoThread => tables'[k].value[n] = NoProducer
        BY <1>6, <1>11, <2>1 DEF KeysOK
  <2>4. ASSUME NEW u \in Thread, NEW n \in Slots(k), tables'[k].key[n] = u
        PROVE  /\ Probed(k, u, n)'
               /\ tables'[k].value[n] = NoProducer =>
                      pc'[u] = "store" /\ mainHash'[u] = k /\ index'[u] = n
    <3>1. Probed(k, u, n)
          BY <1>11, <2>1, <2>4 DEF KeysOK
    <3>2. Probed(k, u, n)'
          BY <1>14, <3>1, GrownPath
    <3>3. CASE n = i
          BY <1>11, <3>2, <3>3
    <3>4. CASE n # i
      <4>1. u # t
            BY <1>6, <1>11, <2>1, <2>4, <3>4 DEF KeysOK
      <4>2. tables[k].value[n] = NoProducer =>
                pc[u] = "store" /\ mainHash[u] = k /\ index[u] = n
            BY <1>11, <2>1, <2>4 DEF KeysOK
      <4>3. QED
            BY <1>11, <1>16, <3>2, <3>4, <4>1, <4>2 DEF OtherLocals
    <3>5. QED
          BY <3>3, <3>4
  <2>5. QED
        BY <1>11, <2>2, <2>3, <2>4 DEF KeysOK, Slots
<1>20. \A j \in 1 .. Len(tables') : KeysOK(j)'
      BY <1>3, <1>10, <1>14, <1>16, <1>19, OtherKeysKept
<1>21. \A u \in Thread : CallOK(u)'
      BY <1>12, <1>14, <1>16, OtherCallKept
<1>22. InTables(t, p)'
      BY <1>6, <1>10, <1>11 DEF InTables, Slots
<1>23. Owns(t, p)
      BY <1>2, <1>4 DEF Owns
<1>24. \A q \in Producer : InTables(t, q)' => Owns(t, q)
  <2>1. SUFFICES ASSUME NEW q \in Producer, NEW j \in 1 .. Len(tables'),
                        NEW n \in DOMAIN tables'[j].key,
                        tables'[j].key[n] = t, tables'[j].value[n] = q
                 PROVE  Owns(t, q)
        BY DEF InTables, Slots
  <2>2. j \in 1 .. Len(tables) /\ n \in Slots(j) /\ tables[j].key[n] = t
        BY <1>10, <1>13, <2>1 DEF Slots
  <2>3. CASE j = k /\ n = i
        BY <1>11, <1>23, <2>1, <2>3
  <2>4. CASE ~(j = k /\ n = i)
    <3>1. tables[j].value[n] = q
          BY <1>10, <1>11, <2>1, <2>2, <2>4
    <3>2. InTables(t, q)
          BY <2>2, <3>1 DEF InTables
    <3>3. QED
          BY <3>2 DEF Owns
  <2>5. QED
        BY <2>3, <2>4
<1>25. OwnersOK'
  <2>1. \A q \in Producer : Owns(t, q)' => Owns(t, q)
        BY <1>16, <1>23, <1>24 DEF Owns
  <2>2. \A q \in Producer : returned'[t] = q => InTables(t, q)'
        BY <1>16, <1>22
  <2>3. QED
        BY <1>2, <1>12, <1>14, <1>16, <2>1, <2>2, OwnersKept
<1>26. CountIsExact'
  <2>1. Counted(t)
        BY <1>2 DEF Counted
  <2>2. Registered(t)'
        BY <1>22 DEF InTables, Registered, Slots
  <2>3. Counted(t)'
        BY <2>2 DEF Counted
  <2>4. QED
        BY <1>1, <1>2, <1>12, <1>14, <1>16, <2>1, <2>3, CountFollows
<1>27. RoomIsReserved'
  <2>1. ASSUME NEW m \in 1 .. Len(tables), NEW v \in Nat, t \in Claimants(m, v)'
        PROVE  t \in Claimants(m, v)
    <3>1. PICK j \in 1 .. m : InTable(j, t)'
          BY <1>16, <2>1 DEF Claimants, Settled, Committed, Pending
    <3>2. j \in 1 .. Len(tables)
          BY <1>1
    <3>3. tables'[j].key = tables[j].key
          BY <1>13, <3>2
    <3>4. InTable(j, t)
          BY <3>1, <3>3 DEF InTable, Slots
    <3>5. QED
          BY <3>4 DEF Claimants, Settled
  <2>2. QED
        BY <1>10, <1>14, <1>16, <2>1, RoomKept
<1>28. QED
      BY <1>15, <1>17, <1>18, <1>20, <1>21, <1>25, <1>26, <1>27 DEF HashIInv

\* The new table is larger, and half of it is more than was counted.
LEMMA NewCapacity ==
    ASSUME ConstantsOK, HashIInv, NEW t \in Thread, pc[t] = "allocate",
           NEW capacity \in NewCapacities(t)
    PROVE  capacity \in Nat \ {0} /\ Capacity(main) <= capacity /\ main \in 1 .. Len(tables)
<1>1. HashType /\ SharedType /\ LocalsType /\ FlagIsLock
      BY DEF HashIInv, HashType
<1>2. tables \in Seq(AllTables) /\ main \in 1 .. Len(tables) /\ main = Len(tables)
      BY <1>1 DEF SharedType
<1>3. newCount[t] \in Nat
      BY <1>1 DEF LocalsType
<1>4. mainHash[t] = main /\ newCount[t] >= Capacity(main) \div 2
      BY <1>1 DEF FlagIsLock, HalfFull
<1>5. Capacity(main) \in Nat \ {0}
      BY <1>2, TableShape
<1>6. PICK n \in Nat : /\ capacity = Capacity(main) * 2^n
                       /\ newCount[t] < (Capacity(main) * 2^n) \div 2
  <2>1. PICK n \in 1 .. newCount[t] + 1 : /\ capacity = Capacity(mainHash[t]) * 2^n
                                          /\ newCount[t] < (Capacity(mainHash[t]) * 2^n) \div 2
        BY DEF NewCapacities
  <2>2. QED
        BY <1>3, <1>4, <2>1
<1>7. capacity \in Int
  <2>1. 2^n \in Int
        BY SMT
  <2>2. QED
        BY <1>5, <1>6, <2>1
<1>8. newCount[t] < capacity \div 2
      BY <1>6
<1>9. QED
      BY <1>2, <1>3, <1>4, <1>5, <1>7, <1>8

LEMMA AllocateStep ==
    ASSUME ConstantsOK, HashIInv, NEW t \in Thread, Allocate(t)
    PROVE  HashIInv'
<1> USE DEF ConstantsOK
<1>1. /\ HashType /\ SharedType /\ LocalsType /\ FlagIsLock /\ count \in Nat
      /\ tables \in Seq(AllTables) /\ Len(tables) \in Nat /\ main = Len(tables) /\ main >= 1
  <2>1. HashType /\ SharedType /\ LocalsType /\ FlagIsLock
        BY DEF HashIInv, HashType
  <2>2. QED
        BY <2>1 DEF SharedType
<1>2. /\ pc[t] = "allocate" /\ pc'[t] = "clear" /\ OtherLocals(t)
      /\ main' = Len(tables) + 1 /\ mainHash'[t] = Len(tables) + 1
      /\ UNCHANGED << count, resizing, used, list, hash, index, newCount, mine, returned >>
      BY <1>1 DEF Allocate, Goto, LocalsType, Set, OtherLocals
<1>3. PICK capacity \in NewCapacities(t) :
          tables' = Append(tables, EmptyTable(capacity, mainHash[t]))
      BY DEF Allocate
<1>4. capacity \in Nat \ {0} /\ Capacity(main) <= capacity
      BY <1>2, NewCapacity
<1>5. mainHash[t] = main
      BY <1>1, <1>2 DEF FlagIsLock
<1>6. PICK L \in Nat \ {0} : L = Len(tables)
      BY <1>1
<1>7. EmptyTable(capacity, L) \in AllTables
  <2>1. EmptyTable(capacity, L) \in Table(capacity)
        BY <1>4, EmptyShape
  <2>2. QED
        BY <1>4, <2>1 DEF AllTables
<1>8. /\ Len(tables') = L + 1 /\ tables'[L + 1] = EmptyTable(capacity, L)
      /\ \A k \in 1 .. L : tables'[k] = tables[k]
      /\ tables' \in Seq(AllTables)
      BY <1>1, <1>3, <1>5, <1>6, <1>7
<1>9. /\ DOMAIN tables'[L + 1].key = 0 .. capacity - 1 /\ tables'[L + 1].prev = L
      /\ \A i \in 0 .. capacity - 1 : /\ tables'[L + 1].key[i] = NoThread
                                      /\ tables'[L + 1].value[i] = NoProducer
      BY <1>8 DEF EmptyTable
<1>10. Grown(t)
  <2>1. \A k \in Len(tables) + 1 .. Len(tables') : k = L + 1
        BY <1>6, <1>8
  <2>2. \A k \in Len(tables) + 1 .. Len(tables') : \A i \in DOMAIN tables'[k].key :
            tables'[k].key[i] = NoThread /\ tables'[k].value[i] = NoProducer
        BY <1>9, <2>1
  <2>3. Len(tables) <= Len(tables') /\ \A k \in 1 .. Len(tables) : tables'[k] = tables[k]
        BY <1>6, <1>8
  <2>4. QED
        BY <2>2, <2>3 DEF Grown, Slots
<1>11. HashType'
  <2>1. LocalsType'
        BY <1>1 DEF Allocate, Goto, LocalsType, Set, Label
  <2>2. main' = Len(tables') /\ main' >= 1
        BY <1>2, <1>6, <1>8
  <2>3. tables' \in Seq(AllTables)
        BY <1>8
  <2>4. SharedType'
        BY <1>1, <1>2, <2>2, <2>3 DEF SharedType
  <2>5. QED
        BY <2>1, <2>4 DEF HashType
<1>12. Capacity(L + 1)' = capacity
  <2>1. Cardinality(0 .. capacity - 1) = capacity
        BY <1>4, FS_Interval
  <2>2. QED
        BY <1>9, <2>1 DEF Capacity
<1>13. TablesGrow /\ \A k \in 1 .. L : Capacity(k)' = Capacity(k)
      BY <1>6, <1>10, GrownSizes DEF HashIInv
<1>14. TablesGrow'
  <2>1. \A k \in 1 .. Len(tables') : tables'[k].prev = k - 1
        BY <1>6, <1>8, <1>9, <1>13 DEF TablesGrow
  <2>2. ASSUME NEW j \in 1 .. Len(tables'), NEW k \in 1 .. Len(tables'), j <= k
        PROVE  Capacity(j)' <= Capacity(k)'
    <3>1. CASE k \in 1 .. L
      <4>1. j \in 1 .. L
            BY <2>2, <3>1
      <4>2. QED
            BY <1>6, <1>13, <2>2, <3>1, <4>1 DEF TablesGrow
    <3>2. CASE k = L + 1 /\ j \in 1 .. L
      <4>1. Capacity(j) <= Capacity(L)
            BY <1>6, <1>13, <3>2 DEF TablesGrow
      <4>2. Capacity(j) \in Nat /\ Capacity(L) \in Nat
            BY <1>1, <1>6, <3>2, TableShape
      <4>3. Capacity(j)' = Capacity(j) /\ Capacity(k)' = capacity
            BY <1>12, <1>13, <3>2
      <4>4. QED
            BY <1>1, <1>4, <1>6, <4>1, <4>2, <4>3
    <3>3. CASE k = L + 1 /\ j = L + 1
      <4>1. Capacity(j)' = capacity /\ Capacity(k)' = capacity
            BY <1>12, <3>3
      <4>2. QED
            BY <1>4, <4>1
    <3>4. QED
          BY <1>8, <2>2, <3>1, <3>2, <3>3
  <2>3. QED
        BY <2>1, <2>2 DEF TablesGrow
<1>15. FlagIsLock'
  <2>1. \A u \in Thread \ {t} : pc[u] \notin Holding /\ pc'[u] = pc[u]
        BY <1>1, <1>2 DEF FlagIsLock, Holding, OtherLocals
  <2>2. \A u \in Thread : pc'[u] \in Holding => u = t
        BY <2>1
  <2>3. resizing'
        BY <1>1, <1>2 DEF FlagIsLock, Holding
  <2>4. \A u \in Thread : pc'[u] # "allocate"
        BY <1>2, <2>1 DEF Holding
  <2>5. QED
        BY <2>2, <2>3, <2>4 DEF FlagIsLock
<1>16. KeysOK(L + 1)'
      BY <1>9 DEF KeysOK, Slots, ConstantsOK
<1>17. \A k \in 1 .. Len(tables') : KeysOK(k)'
  <2>1. \A k \in 1 .. L : KeysOK(k)'
        BY <1>2, <1>6, <1>8, <1>10, OtherKeysKept
  <2>2. QED
        BY <1>8, <1>16, <2>1
<1>18. /\ \A j \in 1 .. L : ~InTable(j, t)
       /\ returned[t] = NoProducer /\ hash[t] \in 0 .. L
      BY <1>2, <1>6, NotInTables DEF Registering, Pending
<1>19. \A u \in Thread : \A j \in 1 .. L + 1 : InTable(j, u)' => j \in 1 .. L /\ InTable(j, u)
  <2>1. SUFFICES ASSUME NEW u \in Thread, NEW j \in 1 .. L + 1, InTable(j, u)'
                 PROVE  j \in 1 .. L /\ InTable(j, u)
        OBVIOUS
  <2>2. CASE j \in 1 .. L
        BY <1>8, <2>1, <2>2 DEF InTable, Slots
  <2>3. CASE j = L + 1
        BY <1>9, <2>1, <2>3 DEF InTable, Slots
  <2>4. QED
        BY <2>2, <2>3
<1>20. CallOK(t)'
  <2>1. \A j \in 1 .. Len(tables') : ~InTable(j, t)'
        BY <1>8, <1>18, <1>19
  <2>2. /\ mainHash'[t] \in 0 .. Len(tables') /\ hash'[t] \in 0 .. Len(tables')
        /\ mainHash'[t] # 0 /\ returned'[t] = NoProducer
        BY <1>2, <1>6, <1>8, <1>18
  <2>3. QED
        BY <1>2, <2>1, <2>2 DEF CallOK, Registering, Pending
<1>21. \A u \in Thread : CallOK(u)'
      BY <1>2, <1>8, <1>10, <1>20, OtherCallKept
<1>22. OwnersOK'
  <2>1. \A p \in Producer : InTables(t, p)' => InTable(1, t)' \/ \E j \in 1 .. L + 1 : InTable(j, t)'
        BY <1>8 DEF InTables, InTable
  <2>2. \A p \in Producer : ~InTables(t, p)'
        BY <1>6, <1>18, <1>19, <2>1
  <2>3. \A p \in Producer : returned'[t] = p => InTables(t, p)'
        BY <1>2, <1>18
  <2>4. \A p \in Producer : Owns(t, p)' => Owns(t, p)
        BY <1>2, <2>2 DEF Owns
  <2>5. QED
        BY <1>2, <1>8, <1>10, <2>3, <2>4, OwnersKept
<1>23. CountIsExact'
  <2>1. Counted(t) /\ Counted(t)'
        BY <1>2 DEF Counted
  <2>2. QED
        BY <1>1, <1>2, <1>8, <1>10, <2>1, CountFollows
<1>24. RoomIsReserved'
  <2>1. ASSUME NEW k \in 1 .. Len(tables), NEW v \in Nat, t \in Claimants(k, v)'
        PROVE  t \in Claimants(k, v)
    <3>1. \A j \in 1 .. k : ~InTable(j, t)'
          BY <1>6, <1>18, <1>19
    <3>2. newCount'[t] <= v
          BY <1>2, <2>1, <3>1 DEF Claimants, Settled, Committed
    <3>3. QED
          BY <1>2, <3>2 DEF Claimants, Pending
  <2>2. \A k \in 1 .. L : \A v \in Nat :
            v + 1 >= Limit(k)' => Cardinality(Claimants(k, v)') <= v
        BY <1>2, <1>6, <1>10, <2>1, RoomInTables
  <2>3. ASSUME NEW v \in Nat, v + 1 >= Limit(L + 1)'
        PROVE  Cardinality(Claimants(L + 1, v)') <= v
    <3>1. Limit(L) <= Limit(L + 1)' /\ Limit(L) \in Nat /\ Limit(L + 1)' \in Nat
      <4>1. Capacity(L) \in Nat /\ Capacity(L) <= capacity
            BY <1>1, <1>4, <1>6, TableShape
      <4>2. Limit(L + 1)' = capacity \div 2 + capacity \div 4
            BY <1>12 DEF Limit
      <4>3. QED
            BY <1>4, <4>1, <4>2 DEF Limit
    <3>2. v + 1 >= Limit(L)
          BY <2>3, <3>1
    <3>3. Claimants(L + 1, v)' \subseteq Claimants(L, v)
      <4>1. SUFFICES ASSUME NEW u \in Thread, u \in Claimants(L + 1, v)'
                     PROVE  u \in Claimants(L, v)
            BY DEF Claimants
      <4>2. CASE \E j \in 1 .. L + 1 : InTable(j, u)'
            BY <1>19, <4>2 DEF Claimants, Settled
      <4>3. CASE pc'[u] \in Committed
        <5>1. u # t /\ pc[u] \in Committed /\ CallOK(u)
              BY <1>2, <4>3 DEF Committed, OtherLocals, HashIInv
        <5>2. mainHash[u] <= L
              BY <1>6, <5>1 DEF CallOK
        <5>3. QED
              BY <5>1, <5>2 DEF Claimants, Settled
      <4>4. CASE pc'[u] \in Pending /\ newCount'[u] <= v
            BY <1>2, <4>4 DEF Claimants, Pending, OtherLocals
      <4>5. QED
            BY <4>1, <4>2, <4>3, <4>4 DEF Claimants, Settled
    <3>4. IsFiniteSet(Claimants(L, v))
          BY FS_Subset DEF Claimants
    <3>5. Cardinality(Claimants(L, v)) <= v
          BY <1>6, <3>2 DEF HashIInv, RoomIsReserved
    <3>6. QED
          BY <3>3, <3>4, <3>5, FS_Subset, FS_CardinalityType
  <2>4. QED
        BY <1>8, <2>2, <2>3 DEF RoomIsReserved
<1>25. QED
      BY <1>11, <1>14, <1>15, <1>17, <1>21, <1>22, <1>23, <1>24 DEF HashIInv


-----------------------------------------------------------------------------
(* The invariant *)

LEMMA InitHash ==
    ASSUME ConstantsOK, Init
    PROVE  HashIInv
<1> USE DEF ConstantsOK
<1>1. /\ tables = << EmptyTable(InitialCapacity, 0) >> /\ Len(tables) = 1
      /\ tables[1] = EmptyTable(InitialCapacity, 0)
      BY DEF Init
<1>2. tables \in Seq(AllTables)
  <2>1. EmptyTable(InitialCapacity, 0) \in Table(InitialCapacity)
        BY EmptyShape
  <2>2. EmptyTable(InitialCapacity, 0) \in AllTables
        BY <2>1 DEF AllTables
  <2>3. QED
        BY <1>1, <2>2
<1>3. /\ tables[1].prev = 0 /\ Slots(1) = 0 .. InitialCapacity - 1
      /\ \A i \in Slots(1) :
             tables[1].key[i] = NoThread /\ tables[1].value[i] = NoProducer
      BY <1>1 DEF EmptyTable, Slots
<1>4. SharedType
  <2>1. used = 1 .. 0 /\ used \subseteq Producer /\ list \in Seq(used)
        BY DEF Init
  <2>2. main = Len(tables) /\ main >= 1 /\ count \in Nat
    <3>1. main = 1 /\ count = 0
          BY DEF Init
    <3>2. QED
          BY <1>1, <3>1
  <2>3. resizing \in BOOLEAN
        BY DEF Init
  <2>4. QED
        BY <1>2, <2>1, <2>2, <2>3 DEF SharedType
<1>5. LocalsType
      BY DEF Init, LocalsType, Label
<1>6. TablesGrow
  <2>1. Capacity(1) \in Nat
        BY <1>1, <1>2, TableShape
  <2>2. QED
        BY <1>1, <1>3, <2>1 DEF TablesGrow
<1>7. \A t \in Thread : pc[t] = "idle" /\ mainHash[t] = 0 /\ hash[t] = 0 /\ returned[t] = NoProducer
      BY DEF Init
<1>8. FlagIsLock
      BY <1>7 DEF FlagIsLock, Holding
<1>9. \A k \in 1 .. Len(tables) : KeysOK(k)
  <2>1. KeysOK(1)
        BY <1>3 DEF KeysOK
  <2>2. QED
        BY <1>1, <2>1
<1>10. \A t \in Thread : CallOK(t)
      BY <1>1, <1>7 DEF CallOK, Registering, Pending
<1>11. \A t \in Thread : \A k \in 1 .. Len(tables) : ~InTable(k, t)
      BY <1>1, <1>3 DEF InTable
<1>12. \A t \in Thread, p \in Producer : ~InTables(t, p)
      BY <1>11 DEF InTables, InTable
<1>13. OwnersOK
      BY <1>7, <1>12 DEF OwnersOK, Owns
<1>14. CountIsExact
  <2>1. \A t \in Thread : ~Counted(t)
        BY <1>7, <1>12, CountedIs
  <2>2. {t \in Thread : Counted(t)} = {}
        BY <2>1
  <2>3. QED
        BY <2>2, FS_EmptySet DEF Init, CountIsExact
<1>15. RoomIsReserved
  <2>1. \A v : Claimants(1, v) = {}
        BY <1>1, <1>7, <1>11 DEF Claimants, Settled, Committed, Pending
  <2>2. QED
        BY <1>1, <2>1, FS_EmptySet DEF RoomIsReserved
<1>16. QED
      BY <1>4, <1>5, <1>6, <1>8, <1>9, <1>10, <1>13, <1>14, <1>15 DEF HashIInv, HashType

LEMMA StutterHash ==
    ASSUME HashIInv, UNCHANGED vars
    PROVE  HashIInv'
<1>1. /\ UNCHANGED << tables, main, count, resizing, used, list >>
      /\ UNCHANGED << pc, mainHash, hash, index, newCount, mine, returned >>
      BY DEF vars, shared, locals
<1>2. HashType'
      BY <1>1 DEF HashIInv, HashType, SharedType, LocalsType
<1>3. TablesGrow' /\ FlagIsLock'
      BY <1>1 DEF HashIInv, TablesGrow, FlagIsLock, HalfFull, Capacity
<1>4. \A k \in 1 .. Len(tables') : KeysOK(k)'
  <2>1. \A k : KeysOK(k) => KeysOK(k)'
        BY <1>1, SameTables DEF KeysOK
  <2>2. QED
        BY <1>1, <2>1 DEF HashIInv
<1>5. ASSUME NEW t \in Thread PROVE CallOK(t)'
  <2>1. CallOK(t)
        BY DEF HashIInv
  <2>2. Probed(hash[t], t, Slot(hash[t], index[t]))' <=> Probed(hash[t], t, Slot(hash[t], index[t]))
        BY <1>1 DEF Probed, OnPath, Closed, Slots, Slot, Capacity
  <2>3. Probed(mainHash[t], t, Slot(mainHash[t], index[t]))'
            <=> Probed(mainHash[t], t, Slot(mainHash[t], index[t]))
        BY <1>1 DEF Probed, OnPath, Closed, Slots, Slot, Capacity
  <2>4. QED
        BY <1>1, <2>1, <2>2, <2>3, SameTables DEF CallOK, Slots
<1>6. OwnersOK'
      BY <1>1 DEF HashIInv, OwnersOK, Owns, InTables, Slots
<1>7. CountIsExact'
      BY <1>1 DEF HashIInv, CountIsExact, Counted, Registered
<1>8. RoomIsReserved'
      BY <1>1 DEF HashIInv, RoomIsReserved, Claimants, Settled, InTable, Slots, Limit, Capacity
<1>9. QED
      BY <1>2, <1>3, <1>4, <1>5, <1>6, <1>7, <1>8 DEF HashIInv

LEMMA StepHash ==
    ASSUME ConstantsOK, HashIInv, [Next]_vars
    PROVE  HashIInv'
<1>1. ASSUME NEW t \in Thread, LoadMain(t) \/ Step(t)
      PROVE  HashIInv'
      BY <1>1, LoadMainStep, ProbeStep, ClaimStep, StoreValueStep, FetchCountStep,
         TestAndSetStep, ReloadMainStep, AllocateStep, AllocateFailsStep, ClearFlagStep,
         ClearFlagAndFailStep, LookForRoomStep, CreateProducerStep, CreateProducerFailsStep,
         LinkProducerStep DEF Step
<1>2. QED
      BY <1>1, StutterHash DEF Next

-----------------------------------------------------------------------------
(* What it says *)

LEMMA HashIsTyped ==
    ASSUME ConstantsOK, HashIInv
    PROVE  TypeOK
<1>1. SharedType /\ LocalsType
      BY DEF HashIInv, HashType
<1>2. main \in 1 .. Len(tables) /\ tables \in Seq(AllTables)
      BY <1>1 DEF SharedType
<1>3. ASSUME NEW k \in 1 .. Len(tables)
      PROVE  /\ tables[k].key \in [0 .. Capacity(k) - 1 -> Thread \cup {NoThread}]
             /\ tables[k].value \in [0 .. Capacity(k) - 1 -> Producer \cup {NoProducer}]
             /\ tables[k].prev \in 0 .. k - 1
  <2>1. tables[k].prev = k - 1
        BY DEF HashIInv, TablesGrow
  <2>2. QED
        BY <1>2, <2>1, TableShape
<1>4. mainHash \in [Thread -> 0 .. Len(tables)] /\ hash \in [Thread -> 0 .. Len(tables)]
  <2>1. \A t \in Thread : mainHash[t] \in 0 .. Len(tables) /\ hash[t] \in 0 .. Len(tables)
        BY DEF HashIInv, CallOK
  <2>2. QED
        BY <1>1, <2>1 DEF LocalsType
<1>5. QED
      BY <1>1, <1>2, <1>3, <1>4 DEF TypeOK, SharedType, LocalsType

\* Every thread in a table claims a place in it, and those who do are fewer
\* than it has slots.
LEMMA HashHasRoom ==
    ASSUME ConstantsOK, HashIInv
    PROVE  RoomToProbe
<1>1. SUFFICES ASSUME NEW k \in 1 .. Len(tables),
                      \A i \in Slots(k) : tables[k].key[i] # NoThread
               PROVE  FALSE
      BY DEF RoomToProbe, Slots
<1>2. tables \in Seq(AllTables)
      BY DEF HashIInv, HashType, SharedType
<1>3. PICK c \in Nat \ {0} : c = Capacity(k)
      BY <1>2, TableShape
<1>4. Slots(k) = 0 .. c - 1 /\ tables[k].key \in [Slots(k) -> Thread \cup {NoThread}]
      BY <1>2, <1>3, TableShape
<1>5. PICK v \in Nat : v = c - 1
      OBVIOUS
<1>6. Cardinality(Claimants(k, v)) <= v
  <2>1. v + 1 >= Limit(k)
        BY <1>3, <1>5 DEF Limit
  <2>2. QED
        BY <2>1 DEF HashIInv, RoomIsReserved
<1>7. \A i \in Slots(k) : tables[k].key[i] \in Claimants(k, v)
  <2>1. \A i \in Slots(k) : tables[k].key[i] \in Thread /\ InTable(k, tables[k].key[i])
        BY <1>1, <1>4 DEF InTable
  <2>2. QED
        BY <2>1 DEF Claimants, Settled
<1>8. IsFiniteSet(Claimants(k, v)) /\ Cardinality(Claimants(k, v)) \in Nat
      BY FS_Subset, FS_CardinalityType DEF Claimants, ConstantsOK
<1>9. IsFiniteSet(Slots(k)) /\ Cardinality(Slots(k)) = c
      BY <1>4, FS_Interval
<1>10. Cardinality(Claimants(k, v)) < Cardinality(Slots(k))
      BY <1>5, <1>6, <1>8, <1>9
<1>11. tables[k].key \in [Slots(k) -> Claimants(k, v)]
      BY <1>4, <1>7
<1>12. \E i, j \in Slots(k) : i # j /\ tables[k].key[i] = tables[k].key[j]
      BY <1>8, <1>9, <1>10, <1>11, FS_PigeonHole
<1>13. QED
      BY <1>1, <1>12 DEF HashIInv, KeysOK

LEMMA HashStreams ==
    ASSUME ConstantsOK, HashIInv
    PROVE  StreamsAreOwnAndListed
<1>1. SUFFICES ASSUME NEW t \in Thread, returned[t] # NoProducer
               PROVE  /\ \A u \in Thread \ {t} : returned[u] # returned[t]
                      /\ \E i \in 1 .. Len(list) : list[i] = returned[t]
      BY DEF StreamsAreOwnAndListed
<1>2. LocalsType /\ OwnersOK /\ CallOK(t)
      BY DEF HashIInv, HashType
<1>3. PICK p \in Producer : p = returned[t]
      BY <1>1, <1>2 DEF LocalsType
<1>4. Owns(t, p)
      BY <1>3 DEF Owns
<1>5. pc[t] # "link"
      BY <1>1, <1>2 DEF CallOK, Registering
<1>6. \A u \in Thread : returned[u] = p => Owns(u, p)
      BY DEF Owns
<1>7. QED
      BY <1>2, <1>3, <1>4, <1>5, <1>6 DEF OwnersOK

\* A thread that was given a stream finds it again: it is in a table, and no
\* other is.
LEMMA HashSameStream ==
    ASSUME ConstantsOK, HashIInv, [Next]_vars, NEW t \in Thread, returned[t] # NoProducer
    PROVE  returned'[t] = returned[t]
<1>1. LocalsType /\ OwnersOK /\ OwnersOK' /\ LocalsType' /\ CallOK(t)
      BY StepHash DEF HashIInv, HashType
<1>2. PICK p \in Producer : p = returned[t]
      BY <1>1 DEF LocalsType
<1>3. InTables(t, p)
      BY <1>1, <1>2 DEF OwnersOK
<1>4. pc[t] \notin Registering
      BY <1>1 DEF CallOK
<1>5. ASSUME returned'[t] # returned[t]
      PROVE  \E q \in Producer : Owns(t, q) /\ returned'[t] = q
  <2>1. CASE Probe(t)
    <3>1. PICK k \in 1 .. Len(tables) : k = hash[t]
          BY <2>1, ProbeFacts DEF Probe
    <3>2. PICK i \in Slots(k) : i = Slot(k, index[t])
          BY <2>1, <3>1, ProbeFacts DEF Probe
    <3>3. tables[k].key[i] = t /\ Return(t, tables[k].value[i])
          BY <1>5, <2>1, <3>1, <3>2 DEF Probe
    <3>4. returned'[t] = tables[k].value[i]
          BY <1>1, <3>3 DEF Return, Set, LocalsType
    <3>5. tables[k].value[i] \in Producer \cup {NoProducer}
          BY TableShape DEF HashIInv, HashType, SharedType
    <3>6. tables[k].value[i] # NoProducer
          BY <2>1, <3>3 DEF Probe, HashIInv, KeysOK
    <3>7. InTables(t, tables[k].value[i])
          BY <3>3 DEF InTables
    <3>8. QED
          BY <3>4, <3>5, <3>6, <3>7 DEF Owns
  <2>2. CASE StoreValue(t)
    <3>1. pc[t] = "store" /\ Return(t, mine[t])
          BY <2>2 DEF StoreValue
    <3>2. returned'[t] = mine[t] /\ mine[t] \in Producer
          BY <1>1, <3>1 DEF Return, Set, LocalsType, CallOK
    <3>3. QED
          BY <3>1, <3>2 DEF Owns
  <2>3. CASE ~Probe(t) /\ ~StoreValue(t)
    <3>1. ASSUME NEW u \in Thread, LoadMain(u) \/ Step(u), u # t
          PROVE  FALSE
      <4>1. ASSUME NEW p1, Return(u, p1) PROVE FALSE
            BY <1>1, <1>5, <3>1, <4>1 DEF Return, Set, LocalsType
      <4>2. QED
            BY <1>5, <3>1, <4>1 DEF LoadMain, Step, Probe, Claim, StoreValue, FetchCount,
               TestAndSet, ReloadMain, Allocate, AllocateFails, ClearFlag, ClearFlagAndFail,
               LookForRoom, CreateProducer, CreateProducerFails, LinkProducer
    <3>2. ASSUME LoadMain(t) \/ Step(t)
          PROVE  FALSE
          BY <1>4, <1>5, <2>3, <3>2 DEF LoadMain, Step, Claim, FetchCount,
             TestAndSet, ReloadMain, Allocate, AllocateFails, ClearFlag, ClearFlagAndFail,
             LookForRoom, CreateProducer, CreateProducerFails, LinkProducer, Registering, Pending
    <3>3. ~UNCHANGED vars
          BY <1>5 DEF vars
    <3>4. QED
          BY <3>1, <3>2, <3>3 DEF Next
  <2>4. QED
        BY <2>1, <2>2, <2>3
<1>6. Owns(t, p)
      BY <1>3 DEF Owns
<1>7. QED
      BY <1>1, <1>2, <1>5, <1>6 DEF OwnersOK

\* Threads that register while the tables are replaced by larger ones
\* (get_or_add_implicit_producer): every probe of every table finds an end, no
\* two threads get the same stream, none is missing from the list, and the
\* count of producers is exact.
THEOREM Registration ==
    ASSUME ConstantsOK
    PROVE  Spec => [](TypeOK /\ RoomToProbe /\ StreamsAreOwnAndListed /\ CountIsExact)
<1>1. Init => HashIInv
      BY InitHash
<1>2. HashIInv /\ [Next]_vars => HashIInv'
      BY StepHash
<1>3. HashIInv => TypeOK /\ RoomToProbe /\ StreamsAreOwnAndListed /\ CountIsExact
      BY HashIsTyped, HashHasRoom, HashStreams DEF HashIInv
<1>4. QED
      BY <1>1, <1>2, <1>3, PTL DEF Spec

\* A thread that was given a stream is given the same one ever after, through
\* whichever table it is found.
THEOREM SameStream ==
    ASSUME ConstantsOK
    PROVE  Spec => [][\A t \in Thread :
                          returned[t] # NoProducer => returned'[t] = returned[t]]_vars
<1>1. Init => HashIInv
      BY InitHash
<1>2. HashIInv /\ [Next]_vars => HashIInv'
      BY StepHash
<1>3. HashIInv /\ [Next]_vars =>
          [\A t \in Thread : returned[t] # NoProducer => returned'[t] = returned[t]]_vars
      BY HashSameStream
<1>4. QED
      BY <1>1, <1>2, <1>3, PTL DEF Spec


=============================================================================

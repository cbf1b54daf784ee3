------------------------- MODULE QueueBlockPoolProofs -------------------------
(***************************************************************************)
(* The pool of blocks of the lock-free queue, for any number of threads    *)
(* and any blocks: however its steps interleave, a block is in one place,  *)
(* reference counts are exact, and nobody is handed what somebody has.     *)
(***************************************************************************)
EXTENDS QueueBlockPool, FiniteSetTheorems, TLAPS

-----------------------------------------------------------------------------
(* The invariant                                                           *)

Takes(t, b) == pc[t] = "subTwo" /\ head[t] = b

AddLabel == {"addFlag", "readHead", "setNext", "setRefs", "link", "addBack"}
Adds(t, b) == pc[t] \in AddLabel /\ node[t] = b

\* The block is in the hands of the thread, or of who called it.
Has(t, b) == b \in held[t] \/ Takes(t, b) \/ Adds(t, b)

\* The flag is up, and nobody else may touch the block.
Prepares(t, b) == pc[t] \in {"readHead", "setNext", "setRefs"} /\ node[t] = b

\* One reference is that of the list, though the block is not on it.
Links(t, b) == pc[t] \in {"link", "addBack"} /\ node[t] = b

LocalsOK(t) ==
    /\ pc[t] \in {"loadRefs", "casRefs", "loadNext", "casHead", "subTwo"} => head[t] \in Block
    /\ pc[t] = "subOne" => prevHead[t] \in Block
    /\ pc[t] \in AddLabel => node[t] \in Block
    /\ pc[t] = "casRefs" => RefCount(refs[t]) # 0
    /\ pc[t] \in {"setRefs", "link"} => freeListNext[node[t]] = head[t]

\* The successor of a block that was referred to when it was read is still
\* the right one, if the block is on the list or about to be.
NextIsRight(t) ==
    pc[t] = "casHead" /\ (head[t] \in OnList \/ \E u \in Thread : pc[u] = "link" /\ node[u] = head[t])
        => next[t] = freeListNext[head[t]]

\* No block is reached on two ways.
ListOK ==
    /\ \A b \in OnList : freeListNext[b] # freeListHead
    /\ \A a, b \in OnList : freeListNext[a] = freeListNext[b] /\ freeListNext[a] # NoBlock => a = b

Owned(b) == b \in OnList \/ \E t \in Thread : Has(t, b)
Prepared(b) == \E t \in Thread : Prepares(t, b)

\* A block has one owner.
OneOwner(b) ==
    /\ \A t, u \in Thread : Has(t, b) /\ Has(u, b) => t = u
    /\ \A t \in Thread : Has(t, b) => b \notin OnList /\ ~(b \in held[t] /\ (Takes(t, b) \/ Adds(t, b)))
    /\ Owned(b) => b \in Existing

Referring(b) == {t \in Thread : Refers(t, b)}
References(b) ==
    Cardinality(Referring(b))
        + (IF b \in OnList \/ \E t \in Thread : Takes(t, b) \/ Links(t, b) THEN 1 ELSE 0)

\* Who has no owner waits for those who refer to it.
CountOK(b) ==
    /\ Prepared(b) => freeListRefs[b] = SHOULD_BE_ON_FREELIST /\ Referring(b) = {}
    /\ ~Prepared(b) /\ (Owned(b) \/ b \notin Existing) => freeListRefs[b] = References(b)
    /\ ~Owned(b) /\ b \in Existing =>
          /\ freeListRefs[b] = SHOULD_BE_ON_FREELIST + Cardinality(Referring(b))
          /\ Referring(b) # {}

PoolIInv ==
    /\ TypeOK
    /\ created \cap (0 .. initialBlockPoolSize - 1) = {}
    /\ \A t \in Thread : LocalsOK(t) /\ NextIsRight(t)
    /\ ListOK
    /\ \A b \in Block : OneOwner(b) /\ CountOK(b)
-----------------------------------------------------------------------------
(* Numbers and sets                                                        *)

\* The flag and the count can be told apart.
LEMMA FlagAndCount ==
    ASSUME NEW F \in Nat, NEW n \in Nat, n < F
    PROVE  n % F = n /\ (F + n) % F = n
OBVIOUS

\* One reference more, one less.
LEMMA OneReferenceMore ==
    ASSUME IsFiniteSet(Thread), NEW S \in SUBSET Thread, NEW t \in Thread \ S
    PROVE  /\ Cardinality(S) \in Nat /\ Cardinality(S \cup {t}) = Cardinality(S) + 1
           /\ Cardinality(S) <= Cardinality(Thread) - 1 /\ Cardinality(Thread) \in Nat
<1>1. IsFiniteSet(S) /\ IsFiniteSet(S \cup {t})
      BY FS_Subset
<1>2. Cardinality(S \cup {t}) = Cardinality(S) + 1 /\ Cardinality(S) \in Nat /\ Cardinality(Thread) \in Nat
      BY <1>1, FS_AddElement, FS_CardinalityType
<1>3. Cardinality(S \cup {t}) <= Cardinality(Thread)
      BY FS_Subset
<1>4. QED
      BY <1>2, <1>3

LEMMA OneReferenceLess ==
    ASSUME IsFiniteSet(Thread), NEW S \in SUBSET Thread, NEW t \in S
    PROVE  /\ Cardinality(S) \in Nat \ {0} /\ Cardinality(S \ {t}) = Cardinality(S) - 1
           /\ Cardinality(S \ {t}) = 0 <=> S \ {t} = {}
<1>1. IsFiniteSet(S) /\ IsFiniteSet(S \ {t})
      BY FS_Subset
<1>2. Cardinality(S) \in Nat /\ Cardinality(S \ {t}) \in Nat /\ Cardinality(S \ {t}) = Cardinality(S) - 1
      BY <1>1, FS_RemoveElement, FS_CardinalityType
<1>3. Cardinality(S \ {t}) = 0 <=> S \ {t} = {}
      BY <1>1, FS_EmptySet
<1>4. QED
      BY <1>2, <1>3

\* There are fewer references than the flag.
LEMMA ReferencesAreFew ==
    ASSUME ConstantsOK, NEW b \in Block
    PROVE  /\ Cardinality(Referring(b)) \in Nat /\ References(b) \in Nat
           /\ References(b) \in {Cardinality(Referring(b)), Cardinality(Referring(b)) + 1}
           /\ References(b) < SHOULD_BE_ON_FREELIST /\ SHOULD_BE_ON_FREELIST \in Nat
           /\ Referring(b) = {} <=> Cardinality(Referring(b)) = 0
<1>1. Referring(b) \subseteq Thread /\ IsFiniteSet(Thread)
      BY DEF Referring, ConstantsOK
<1>2. IsFiniteSet(Referring(b)) /\ Cardinality(Referring(b)) <= Cardinality(Thread)
      BY <1>1, FS_Subset
<1>3. Cardinality(Referring(b)) \in Nat /\ Cardinality(Thread) \in Nat
      BY <1>1, <1>2, FS_CardinalityType
<1>4. References(b) \in {Cardinality(Referring(b)), Cardinality(Referring(b)) + 1}
      BY <1>3 DEF References
<1>5. SHOULD_BE_ON_FREELIST \in Nat /\ SHOULD_BE_ON_FREELIST > Cardinality(Thread) + 1
      BY DEF ConstantsOK
<1>6. Referring(b) = {} <=> Cardinality(Referring(b)) = 0
      BY <1>2, FS_EmptySet
<1>7. QED
      BY <1>2, <1>3, <1>4, <1>5, <1>6

-----------------------------------------------------------------------------
(* The list                                                                *)

\* L is the least set of blocks with h and the successors of its members.
Closed(h, nx, S) == h \in S \cup {NoBlock} /\ \A b \in S : nx[b] \in S \cup {NoBlock}
IsList(h, nx, L) == /\ L \subseteq Block /\ Closed(h, nx, L)
                    /\ \A S \in SUBSET Block : Closed(h, nx, S) => L \subseteq S
\* No block of it is reached on two ways.
IsPath(h, nx, L) ==
    /\ \A b \in L : nx[b] # h
    /\ \A a, b \in L : nx[a] = nx[b] /\ nx[a] # NoBlock => a = b

TheList == IsList(freeListHead, freeListNext, OnList)

LEMMA ListIsLeast == TypeOK => TheList
<1> SUFFICES ASSUME TypeOK PROVE TheList
    OBVIOUS
<1>1. freeListHead \in Block \cup {NoBlock} /\ freeListNext \in [Block -> Block \cup {NoBlock}]
      BY DEF TypeOK
<1>2. freeListHead \in OnList \cup {NoBlock}
      BY <1>1 DEF OnList, HasList
<1>3. ASSUME NEW b \in OnList PROVE freeListNext[b] \in OnList \cup {NoBlock}
  <2>1. b \in Block /\ freeListNext[b] \in Block \cup {NoBlock}
        BY <1>1, <1>3 DEF OnList
  <2>2. ASSUME NEW S \in SUBSET Block, HasList(S) PROVE freeListNext[b] \in S \cup {NoBlock}
        BY <2>2, <1>3 DEF OnList, HasList
  <2>3. QED
        BY <2>1, <2>2 DEF OnList
<1>4. QED
      BY <1>2, <1>3 DEF TheList, OnList, HasList, IsList, Closed

LEMMA ListIsLeastNext == TypeOK' => TheList'
<1>1. TypeOK => TheList
      BY ListIsLeast
<1>2. QED
      BY <1>1, PTL

\* The head is taken off.
LEMMA ListPop ==
    ASSUME NoBlock \notin Block, NEW h \in Block, NEW nx, NEW L, NEW M,
           IsList(h, nx, L), IsPath(h, nx, L), IsList(nx[h], nx, M)
    PROVE  h \in L /\ M = L \ {h} /\ IsPath(nx[h], nx, M)
<1>1. L \subseteq Block /\ Closed(h, nx, L) /\ \A S \in SUBSET Block : Closed(h, nx, S) => L \subseteq S
      BY DEF IsList
<1>2. M \subseteq Block /\ Closed(nx[h], nx, M) /\ \A S \in SUBSET Block : Closed(nx[h], nx, S) => M \subseteq S
      BY DEF IsList
<1>3. h \in L
      BY <1>1 DEF Closed
<1>4. L \ {h} \in SUBSET Block /\ Closed(nx[h], nx, L \ {h})
      BY <1>1, <1>3 DEF Closed, IsPath
<1>5. M \cup {h} \in SUBSET Block /\ Closed(h, nx, M \cup {h})
      BY <1>2 DEF Closed
<1>6. M = L \ {h}
      BY <1>1, <1>2, <1>4, <1>5, <1>3
<1>7. IsPath(nx[h], nx, M)
  <2>1. ASSUME NEW b \in M PROVE nx[b] # nx[h]
    <3>1. b \in L /\ b # h /\ nx[b] \in M \cup {NoBlock}
          BY <1>2, <1>6 DEF Closed
    <3>2. nx[h] = NoBlock => M = {}
      <4>1. nx[h] = NoBlock => Closed(nx[h], nx, {})
            BY DEF Closed
      <4>2. QED
            BY <4>1, <1>2
    <3>3. QED
          BY <3>1, <3>2, <1>3 DEF IsPath
  <2>2. QED
        BY <2>1, <1>6 DEF IsPath
<1>8. QED
      BY <1>3, <1>6, <1>7

\* A block that is not on the list is put in front.
LEMMA ListPush ==
    ASSUME NoBlock \notin Block, NEW h, NEW nx, NEW L, NEW M, NEW n \in Block,
           IsList(h, nx, L), IsPath(h, nx, L), n \notin L, nx[n] = h, IsList(n, nx, M)
    PROVE  M = L \cup {n} /\ IsPath(n, nx, M)
<1>1. L \subseteq Block /\ Closed(h, nx, L) /\ \A S \in SUBSET Block : Closed(h, nx, S) => L \subseteq S
      BY DEF IsList
<1>2. M \subseteq Block /\ Closed(n, nx, M) /\ \A S \in SUBSET Block : Closed(n, nx, S) => M \subseteq S
      BY DEF IsList
<1>3. L \cup {n} \in SUBSET Block /\ Closed(n, nx, L \cup {n})
      BY <1>1 DEF Closed
<1>4. n \in M /\ Closed(h, nx, M)
      BY <1>2 DEF Closed
<1>5. M = L \cup {n}
      BY <1>1, <1>2, <1>3, <1>4
<1>6. IsPath(n, nx, M)
  <2>1. h = NoBlock => L = {}
    <3>1. h = NoBlock => Closed(h, nx, {})
          BY DEF Closed
    <3>2. QED
          BY <3>1, <1>1
  <2>2. \A b \in L : nx[b] # n /\ nx[b] # h
        BY <1>1 DEF Closed, IsPath
  <2>3. h # n
        BY <1>1 DEF Closed
  <2>4. QED
        BY <2>1, <2>2, <2>3, <1>5 DEF IsPath
<1>7. QED
      BY <1>5, <1>6

\* The successor of a block that is not on the list does not matter.
LEMMA ListElsewhere ==
    ASSUME NEW h, NEW nx, NEW ny, NEW L, NEW M, NEW n \in Block,
           IsList(h, nx, L), IsPath(h, nx, L), n \notin L,
           \A b \in Block \ {n} : ny[b] = nx[b], IsList(h, ny, M)
    PROVE  M = L /\ IsPath(h, ny, M)
<1>1. L \subseteq Block /\ Closed(h, nx, L) /\ \A S \in SUBSET Block : Closed(h, nx, S) => L \subseteq S
      BY DEF IsList
<1>2. M \subseteq Block /\ Closed(h, ny, M) /\ \A S \in SUBSET Block : Closed(h, ny, S) => M \subseteq S
      BY DEF IsList
<1>3. Closed(h, ny, L)
      BY <1>1 DEF Closed
<1>4. M \subseteq L
      BY <1>1, <1>2, <1>3
<1>5. Closed(h, nx, M)
      BY <1>1, <1>2, <1>4 DEF Closed
<1>6. M = L
      BY <1>1, <1>2, <1>4, <1>5
<1>7. \A b \in L : ny[b] = nx[b]
      BY <1>1
<1>8. QED
      BY <1>6, <1>7 DEF IsPath

-----------------------------------------------------------------------------
(* What a step of one thread leaves alone                                  *)

OnlyThread(t) ==
    \A u \in Thread \ {t} :
        /\ pc'[u] = pc[u] /\ node'[u] = node[u] /\ head'[u] = head[u] /\ prevHead'[u] = prevHead[u]
        /\ next'[u] = next[u] /\ refs'[u] = refs[u] /\ held'[u] = held[u]

\* The thread has the same to do with the block as before.
SameTo(t, b) ==
    /\ b \in held'[t] <=> b \in held[t]
    /\ Takes(t, b)' <=> Takes(t, b)
    /\ Adds(t, b)' <=> Adds(t, b)
    /\ Prepares(t, b)' <=> Prepares(t, b)
    /\ Links(t, b)' <=> Links(t, b)
    /\ Refers(t, b)' <=> Refers(t, b)

LEMMA Bystanders ==
    ASSUME NEW t \in Thread, OnlyThread(t), NEW u \in Thread \ {t}, NEW b
    PROVE  SameTo(u, b) /\ (Has(u, b)' <=> Has(u, b))
BY DEF OnlyThread, SameTo, Has, Takes, Adds, Prepares, Links, Refers

LEMMA ReferringSame ==
    ASSUME NEW t \in Thread, OnlyThread(t), NEW b, Refers(t, b)' <=> Refers(t, b)
    PROVE  Referring(b)' = Referring(b)
BY Bystanders DEF Referring, SameTo

LEMMA ReferringMore ==
    ASSUME ConstantsOK, NEW t \in Thread, OnlyThread(t), NEW b, ~Refers(t, b), Refers(t, b)'
    PROVE  /\ Referring(b)' = Referring(b) \cup {t} /\ Referring(b)' # {}
           /\ Cardinality(Referring(b)') = Cardinality(Referring(b)) + 1
           /\ Cardinality(Referring(b)) \in Nat
<1>1. Referring(b)' = Referring(b) \cup {t} /\ Referring(b) \in SUBSET Thread /\ t \in Thread \ Referring(b)
      BY Bystanders DEF Referring, SameTo
<1>2. QED
      BY <1>1, OneReferenceMore DEF ConstantsOK

LEMMA ReferringLess ==
    ASSUME ConstantsOK, NEW t \in Thread, OnlyThread(t), NEW b, Refers(t, b), ~Refers(t, b)'
    PROVE  /\ Referring(b)' = Referring(b) \ {t} /\ t \in Referring(b)
           /\ Cardinality(Referring(b)') = Cardinality(Referring(b)) - 1
           /\ Cardinality(Referring(b)) \in Nat \ {0}
           /\ Cardinality(Referring(b)') = 0 <=> Referring(b)' = {}
<1>1. Referring(b)' = Referring(b) \ {t} /\ Referring(b) \in SUBSET Thread /\ t \in Referring(b)
      BY Bystanders DEF Referring, SameTo
<1>2. QED
      BY <1>1, OneReferenceLess DEF ConstantsOK

\* A block that the step is not about.
LEMMA BlockKept ==
    ASSUME NEW t \in Thread, OnlyThread(t), NEW b, SameTo(t, b),
           OneOwner(b), CountOK(b), b \in OnList' <=> b \in OnList,
           b \in Existing' <=> b \in Existing, freeListRefs'[b] = freeListRefs[b]
    PROVE  OneOwner(b)' /\ CountOK(b)'
<1>1. \A u \in Thread : SameTo(u, b)
      BY Bystanders
<1>2. \A u \in Thread : Has(u, b)' <=> Has(u, b)
      BY <1>1 DEF SameTo, Has
<1>3. Owned(b)' <=> Owned(b)
      BY <1>2 DEF Owned
<1>4. Prepared(b)' <=> Prepared(b)
      BY <1>1 DEF SameTo, Prepared
<1>5. Referring(b)' = Referring(b)
      BY <1>1 DEF SameTo, Referring
<1>6. References(b)' = References(b)
  <2>1. (\E u \in Thread : Takes(u, b) \/ Links(u, b))' <=> \E u \in Thread : Takes(u, b) \/ Links(u, b)
        BY <1>1 DEF SameTo
  <2>2. QED
        BY <2>1, <1>5 DEF References
<1>7. OneOwner(b)'
      BY <1>1, <1>2, <1>3 DEF OneOwner, SameTo
<1>8. CountOK(b)'
      BY <1>3, <1>4, <1>5, <1>6 DEF CountOK
<1>9. QED
      BY <1>7, <1>8

LEMMA ListSame ==
    ASSUME UNCHANGED <<freeListHead, freeListNext>>
    PROVE  OnList' = OnList /\ (ListOK => ListOK')
BY DEF OnList, HasList, ListOK

\* Other threads know the same as before.
LEMMA OthersKnow ==
    ASSUME PoolIInv, NEW t \in Thread, OnlyThread(t), OnList' \subseteq OnList,
           UNCHANGED freeListNext, pc'[t] = "link" => pc[t] = "link" /\ node'[t] = node[t],
           NEW u \in Thread \ {t}
    PROVE  LocalsOK(u)' /\ NextIsRight(u)'
<1>1. LocalsOK(u) /\ NextIsRight(u)
      BY DEF PoolIInv
<1>2. LocalsOK(u)'
      BY <1>1 DEF OnlyThread, LocalsOK
<1>3. \A b : (\E v \in Thread : pc[v] = "link" /\ node[v] = b)' => \E v \in Thread : pc[v] = "link" /\ node[v] = b
      BY DEF OnlyThread
<1>4. NextIsRight(u)'
      BY <1>1, <1>3 DEF OnlyThread, NextIsRight
<1>5. QED
      BY <1>2, <1>4

\* A step that no block notices.
LEMMA QuietStep ==
    ASSUME PoolIInv, NEW t \in Thread, OnlyThread(t), TypeOK', \A b \in Block : SameTo(t, b),
           UNCHANGED <<created, freeListHead, freeListNext, freeListRefs>>, Existing' = Existing,
           LocalsOK(t)', NextIsRight(t)', pc'[t] = "link" => pc[t] = "link" /\ node'[t] = node[t]
    PROVE  PoolIInv'
<1>1. OnList' = OnList /\ ListOK'
      BY ListSame DEF PoolIInv
<1>2. \A u \in Thread : LocalsOK(u)' /\ NextIsRight(u)'
      BY <1>1, OthersKnow
<1>3. ASSUME NEW b \in Block PROVE OneOwner(b)' /\ CountOK(b)'
      BY <1>1, BlockKept DEF PoolIInv
<1>4. QED
      BY <1>1, <1>2, <1>3 DEF PoolIInv

-----------------------------------------------------------------------------
(* Steps that no block notices                                             *)

\* The types, one by one
SharedTyped ==
    /\ initialBlockPoolIndex \in Nat /\ created \subseteq Block
    /\ freeListHead \in Block \cup {NoBlock}
    /\ freeListNext \in [Block -> Block \cup {NoBlock}] /\ freeListRefs \in [Block -> Nat]
LocalsTyped ==
    /\ held \in [Thread -> SUBSET Block] /\ pc \in [Thread -> Label] /\ refs \in [Thread -> Nat]
    /\ node \in [Thread -> Block \cup {NoBlock}] /\ head \in [Thread -> Block \cup {NoBlock}]
    /\ prevHead \in [Thread -> Block \cup {NoBlock}] /\ next \in [Thread -> Block \cup {NoBlock}]
    /\ resume \in [Thread -> Block \cup {NoBlock}]

LEMMA Typed == TypeOK <=> SharedTyped /\ LocalsTyped
BY DEF TypeOK, SharedTyped, LocalsTyped

LEMMA TypedNext == TypeOK' <=> SharedTyped' /\ LocalsTyped'
BY DEF TypeOK, SharedTyped, LocalsTyped

\* The thread goes on, with other locals; the others stay where they are.
Goes(t) == OnlyThread(t) /\ LocalsTyped'

\* A thread between two calls, or asking for a block
LEMMA AskingStep ==
    ASSUME ConstantsOK, PoolIInv, NEW t \in Thread,
           Requisition(t) \/ LoadInitialIndex(t) \/ CreateFails(t)
           \/ (FetchInitialIndex(t) /\ initialBlockPoolIndex >= initialBlockPoolSize)
    PROVE  PoolIInv'
<1> DEFINE Outside == {"idle", "initial", "fetchInitial", "loadHead", "create"}
<1>1. SharedTyped /\ LocalsTyped /\ initialBlockPoolSize \in Nat
      BY Typed DEF PoolIInv, ConstantsOK
<1>2. /\ pc[t] \in Outside /\ \E x \in Outside : pc' = [pc EXCEPT ![t] = x]
      /\ UNCHANGED <<created, freeListHead, freeListNext, freeListRefs, held>>
      /\ \/ initialBlockPoolIndex' = initialBlockPoolIndex
         \/ /\ initialBlockPoolIndex >= initialBlockPoolSize
            /\ initialBlockPoolIndex' = initialBlockPoolIndex + 1
  <2>1. CASE FetchInitialIndex(t) /\ initialBlockPoolIndex >= initialBlockPoolSize
    <3>1. ~(initialBlockPoolIndex < initialBlockPoolSize)
          BY <2>1, <1>1 DEF SharedTyped, LocalsTyped
    <3>2. QED
          BY <2>1, <3>1 DEF FetchInitialIndex, Set
  <2>2. CASE Requisition(t) \/ LoadInitialIndex(t)
        BY <2>2 DEF Requisition, LoadInitialIndex, Goto, Set, shared
  <2>3. CASE CreateFails(t)
        BY <2>3 DEF CreateFails, Set, Return, shared
  <2>4. QED
        BY <2>1, <2>2, <2>3
<1>3. Goes(t)
  <2>1. CASE CreateFails(t)
        BY <2>1, <1>1, <1>2 DEF CreateFails, Return, Set, Goes, Label, SharedTyped, LocalsTyped, OnlyThread
  <2>2. CASE UNCHANGED locals
        BY <2>2, <1>1, <1>2 DEF locals, Goes, Label, SharedTyped, LocalsTyped, OnlyThread
  <2>3. QED
        BY <2>1, <2>2, <1>1 DEF Requisition, LoadInitialIndex, FetchInitialIndex, SharedTyped, LocalsTyped
<1>4. OnlyThread(t) /\ TypeOK'
  <2>1. TypeOK /\ initialBlockPoolIndex' \in Nat
        BY <1>1, <1>2 DEF PoolIInv, SharedTyped, LocalsTyped
  <2>2. QED
        BY <2>1, <1>1, <1>2, <1>3, TypedNext DEF Goes, SharedTyped
<1>6. pc'[t] \in Outside
      BY <1>1, <1>2 DEF SharedTyped, LocalsTyped
<1>7. \A b \in Block : SameTo(t, b)
      BY <1>2, <1>6 DEF SameTo, Takes, Adds, Prepares, Links, Refers, AddLabel
<1>8. Existing' = Existing
      BY <1>1, <1>2 DEF Existing, SharedTyped, LocalsTyped
<1>9. LocalsOK(t)' /\ NextIsRight(t)'
      BY <1>6 DEF LocalsOK, NextIsRight, AddLabel
<1>10. QED
       BY <1>2, <1>4, <1>6, <1>7, <1>8, <1>9, QuietStep

\* try_get, up to its reference, and when the head has changed
LEMMA SearchingStep ==
    ASSUME ConstantsOK, PoolIInv, NEW t \in Thread,
           LoadHead(t) \/ LoadRefs(t) \/ (CasRefs(t) /\ freeListRefs[head[t]] # refs[t]) \/ LoadNext(t)
           \/ (CasHead(t) /\ freeListHead # head[t])
    PROVE  PoolIInv'
<1>1. SharedTyped /\ LocalsTyped
      BY Typed DEF PoolIInv
<1>2. LocalsOK(t)
      BY DEF PoolIInv
<1>3. UNCHANGED <<initialBlockPoolIndex, created, freeListHead, freeListNext, freeListRefs, held, node, resume>>
      BY DEF LoadHead, LoadRefs, CasRefs, LoadNext, CasHead, shared
<1>4. /\ Goes(t) /\ LocalsOK(t)' /\ NextIsRight(t)' /\ pc'[t] # "link"
      /\ \A b \in Block : SameTo(t, b)
  <2>1. ASSUME LoadHead(t) PROVE <1>4!:
    <3>1. /\ pc[t] = "loadHead" /\ pc' = [pc EXCEPT ![t] = LoopOn(freeListHead)]
          /\ head' = [head EXCEPT ![t] = freeListHead] /\ UNCHANGED <<prevHead, next, refs>>
          BY <2>1 DEF LoadHead, Goto, Set
    <3>2. Goes(t)
          BY <3>1, <1>1, <1>3 DEF Goes, Label, LoopOn, SharedTyped, LocalsTyped, OnlyThread
    <3>3. /\ pc'[t] = LoopOn(freeListHead) /\ head'[t] = freeListHead
          BY <3>1, <1>1 DEF SharedTyped, LocalsTyped
    <3>4. LocalsOK(t)' /\ NextIsRight(t)'
          BY <3>3, <1>1 DEF LocalsOK, NextIsRight, LoopOn, AddLabel, SharedTyped, LocalsTyped
    <3>5. QED
          BY <3>1, <3>2, <3>3, <3>4, <1>3 DEF SameTo, Takes, Adds, Prepares, Links, Refers, AddLabel, LoopOn
  <2>2. ASSUME LoadRefs(t) PROVE <1>4!:
    <3>1. /\ pc[t] = "loadRefs" /\ UNCHANGED <<head, prevHead, next>>
          /\ \/ pc' = [pc EXCEPT ![t] = "loadHead"] /\ UNCHANGED refs
             \/ /\ RefCount(freeListRefs[head[t]]) # 0
                /\ pc' = [pc EXCEPT ![t] = "casRefs"] /\ refs' = [refs EXCEPT ![t] = freeListRefs[head[t]]]
          BY <2>2 DEF LoadRefs, Set
    <3>2. head[t] \in Block
          BY <3>1, <1>2 DEF LocalsOK
    <3>3. Goes(t)
          BY <3>1, <3>2, <1>1, <1>3 DEF Goes, Label, SharedTyped, LocalsTyped, OnlyThread
    <3>4. /\ pc'[t] \in {"loadHead", "casRefs"} /\ head'[t] \in Block
          /\ pc'[t] = "casRefs" => RefCount(refs'[t]) # 0
          BY <3>1, <3>2, <1>1 DEF SharedTyped, LocalsTyped
    <3>5. LocalsOK(t)' /\ NextIsRight(t)'
          BY <3>4 DEF LocalsOK, NextIsRight, AddLabel, RefCount
    <3>6. QED
          BY <3>1, <3>3, <3>4, <3>5, <1>3 DEF SameTo, Takes, Adds, Prepares, Links, Refers, AddLabel
  <2>3. ASSUME CasRefs(t), freeListRefs[head[t]] # refs[t] PROVE <1>4!:
    <3>1. /\ pc[t] = "casRefs" /\ UNCHANGED <<head, prevHead, next>>
          /\ pc' = [pc EXCEPT ![t] = "loadHead"] /\ refs' = [refs EXCEPT ![t] = 0]
          BY <2>3 DEF CasRefs, Set
    <3>2. Goes(t)
          BY <3>1, <1>1, <1>3 DEF Goes, Label, SharedTyped, LocalsTyped, OnlyThread
    <3>3. pc'[t] = "loadHead"
          BY <3>1, <1>1 DEF SharedTyped, LocalsTyped
    <3>4. LocalsOK(t)' /\ NextIsRight(t)'
          BY <3>3 DEF LocalsOK, NextIsRight, AddLabel
    <3>5. QED
          BY <3>1, <3>2, <3>3, <3>4, <1>3 DEF SameTo, Takes, Adds, Prepares, Links, Refers, AddLabel
  <2>4. ASSUME LoadNext(t) PROVE <1>4!:
    <3>1. /\ pc[t] = "loadNext" /\ pc' = [pc EXCEPT ![t] = "casHead"]
          /\ next' = [next EXCEPT ![t] = freeListNext[head[t]]] /\ UNCHANGED <<head, prevHead, refs>>
          BY <2>4 DEF LoadNext, Goto, Set
    <3>2. head[t] \in Block
          BY <3>1, <1>2 DEF LocalsOK
    <3>3. Goes(t)
          BY <3>1, <3>2, <1>1, <1>3 DEF Goes, Label, SharedTyped, LocalsTyped, OnlyThread
    <3>4. /\ pc'[t] = "casHead" /\ next'[t] = freeListNext'[head'[t]] /\ head'[t] \in Block
          BY <3>1, <3>2, <1>1, <1>3 DEF SharedTyped, LocalsTyped
    <3>5. LocalsOK(t)' /\ NextIsRight(t)'
          BY <3>4 DEF LocalsOK, NextIsRight, AddLabel
    <3>6. QED
          BY <3>1, <3>3, <3>4, <3>5, <1>3 DEF SameTo, Takes, Adds, Prepares, Links, Refers, AddLabel
  <2>5. ASSUME CasHead(t), freeListHead # head[t] PROVE <1>4!:
    <3>1. /\ pc[t] = "casHead" /\ pc' = [pc EXCEPT ![t] = "subOne"]
          /\ head' = [head EXCEPT ![t] = freeListHead] /\ prevHead' = [prevHead EXCEPT ![t] = head[t]]
          /\ next' = [next EXCEPT ![t] = NoBlock] /\ UNCHANGED refs
          BY <2>5 DEF CasHead, Set
    <3>2. head[t] \in Block
          BY <3>1, <1>2 DEF LocalsOK
    <3>3. Goes(t)
          BY <3>1, <3>2, <1>1, <1>3 DEF Goes, Label, SharedTyped, LocalsTyped, OnlyThread
    <3>4. /\ pc'[t] = "subOne" /\ prevHead'[t] = head[t]
          BY <3>1, <3>2, <1>1, <1>3 DEF SharedTyped, LocalsTyped
    <3>5. LocalsOK(t)' /\ NextIsRight(t)'
          BY <3>4, <3>2 DEF LocalsOK, NextIsRight, AddLabel
    <3>6. QED
          BY <3>1, <3>3, <3>4, <3>5, <1>3 DEF SameTo, Takes, Adds, Prepares, Links, Refers, AddLabel
  <2>6. QED
        BY <2>1, <2>2, <2>3, <2>4, <2>5
<1>5. OnlyThread(t) /\ TypeOK'
      BY <1>1, <1>3, <1>4, TypedNext DEF Goes, SharedTyped
<1>6. Existing' = Existing
      BY <1>3 DEF Existing
<1>7. QED
      BY <1>3, <1>4, <1>5, <1>6, QuietStep

-----------------------------------------------------------------------------
(* Steps about one block                                                   *)

\* Where nobody else has the block, only this thread and the list matter.
NobodyElse(t, b) == \A u \in Thread \ {t} : ~Has(u, b)
OfList(t, b) == b \in OnList \/ Takes(t, b) \/ Links(t, b)
Alone(t, b) ==
    /\ Owned(b) <=> b \in OnList \/ Has(t, b)
    /\ Prepared(b) <=> Prepares(t, b)
    /\ References(b) = Cardinality(Referring(b)) + (IF OfList(t, b) THEN 1 ELSE 0)
    /\ OneOwner(b) <=>
           /\ Has(t, b) => b \notin OnList /\ ~(b \in held[t] /\ (Takes(t, b) \/ Adds(t, b)))
           /\ b \in OnList \/ Has(t, b) => b \in Existing

LEMMA NobodyElseHas == ASSUME NEW t \in Thread, NEW b PROVE NobodyElse(t, b) => Alone(t, b)
<1> SUFFICES ASSUME NobodyElse(t, b) PROVE Alone(t, b)
    OBVIOUS
<1>1. \A u \in Thread : u = t \/ (~Has(u, b) /\ ~Takes(u, b) /\ ~Prepares(u, b) /\ ~Links(u, b))
      BY DEF NobodyElse, Has, Adds, AddLabel, Prepares, Links
<1>2. Prepared(b) <=> Prepares(t, b)
      BY <1>1 DEF Prepared
<1>3. Owned(b) <=> b \in OnList \/ Has(t, b)
      BY <1>1 DEF Owned
<1>4. (\E u \in Thread : Takes(u, b) \/ Links(u, b)) <=> Takes(t, b) \/ Links(t, b)
      BY <1>1
<1>5. References(b) = Cardinality(Referring(b)) + (IF OfList(t, b) THEN 1 ELSE 0)
      BY <1>4 DEF References, OfList
<1>6. OneOwner(b) <=>
          /\ Has(t, b) => b \notin OnList /\ ~(b \in held[t] /\ (Takes(t, b) \/ Adds(t, b)))
          /\ b \in OnList \/ Has(t, b) => b \in Existing
      BY <1>1, <1>3 DEF OneOwner
<1>7. QED
      BY <1>2, <1>3, <1>5, <1>6 DEF Alone

LEMMA NobodyElseHasNext == ASSUME NEW t \in Thread, NEW b PROVE NobodyElse(t, b)' => Alone(t, b)'
<1>1. NobodyElse(t, b) => Alone(t, b)
      BY NobodyElseHas
<1>2. QED
      BY <1>1, PTL

LEMMA NobodyElseNext ==
    ASSUME NEW t \in Thread, OnlyThread(t), NEW b, NobodyElse(t, b)
    PROVE  Alone(t, b) /\ Alone(t, b)'
<1>1. NobodyElse(t, b)'
      BY Bystanders DEF NobodyElse
<1>2. QED
      BY <1>1, NobodyElseHas, NobodyElseHasNext

\* Nobody else has what a thread has, what is on the list, and what has no owner.
LEMMA WhoHas ==
    ASSUME PoolIInv, NEW t \in Thread, NEW b \in Block, Has(t, b) \/ b \in OnList \/ ~Owned(b)
    PROVE  NobodyElse(t, b)
BY DEF PoolIInv, OneOwner, Owned, NobodyElse

\* The step is about the block h only.
Elsewhere(t, h) ==
    \A b \in Block \ {h} :
        /\ SameTo(t, b) /\ (b \in OnList' <=> b \in OnList) /\ (b \in Existing' <=> b \in Existing)
        /\ freeListRefs'[b] = freeListRefs[b]

LEMMA StepOnBlock ==
    ASSUME PoolIInv, NEW t \in Thread, Goes(t), SharedTyped', NEW h \in Block, Elsewhere(t, h),
           created' \cap (0 .. initialBlockPoolSize - 1) = {}, ListOK',
           \A u \in Thread : LocalsOK(u)' /\ NextIsRight(u)', OneOwner(h)', CountOK(h)'
    PROVE  PoolIInv'
<1>1. TypeOK' /\ OnlyThread(t)
      BY TypedNext DEF Goes
<1>2. ASSUME NEW b \in Block \ {h} PROVE OneOwner(b)' /\ CountOK(b)'
      BY <1>1, BlockKept DEF PoolIInv, Elsewhere
<1>3. QED
      BY <1>1, <1>2 DEF PoolIInv

\* The list stays.
LEMMA StepOffList ==
    ASSUME PoolIInv, NEW t \in Thread, Goes(t), NEW h \in Block,
           UNCHANGED <<freeListHead, freeListNext>>, freeListRefs' \in [Block -> Nat],
           initialBlockPoolIndex' \in Nat, created' \subseteq Block,
           \A b \in Block \ {h} :
               SameTo(t, b) /\ (b \in Existing' <=> b \in Existing) /\ freeListRefs'[b] = freeListRefs[b],
           created' \cap (0 .. initialBlockPoolSize - 1) = {},
           pc'[t] # "link", LocalsOK(t)', NextIsRight(t)', OneOwner(h)', CountOK(h)'
    PROVE  PoolIInv'
<1>1. OnList' = OnList /\ ListOK'
      BY ListSame DEF PoolIInv
<1>2. \A u \in Thread : LocalsOK(u)' /\ NextIsRight(u)'
      BY <1>1, OthersKnow DEF Goes
<1>3. SharedTyped'
      BY Typed DEF PoolIInv, SharedTyped
<1>4. Elsewhere(t, h)
      BY <1>1 DEF Elsewhere
<1>5. QED
      BY <1>1, <1>2, <1>3, <1>4, StepOnBlock

\* A block is handed out for the first time.
LEMMA NewBlock ==
    ASSUME ConstantsOK, PoolIInv, NEW t \in Thread, NEW h \in Block, h \notin Existing,
           pc[t] \in {"fetchInitial", "create"}, ReturnBlock(t, h), Existing' = Existing \cup {h},
           initialBlockPoolIndex' \in Nat, created' \subseteq Block,
           created' \cap (0 .. initialBlockPoolSize - 1) = {},
           UNCHANGED <<freeListHead, freeListNext, freeListRefs>>
    PROVE  PoolIInv'
<1>1. SharedTyped /\ LocalsTyped /\ OneOwner(h) /\ CountOK(h)
      BY Typed DEF PoolIInv
<1>2. /\ held' = [held EXCEPT ![t] = @ \cup {h}] /\ pc' = [pc EXCEPT ![t] = "idle"]
      /\ node' = [node EXCEPT ![t] = NoBlock] /\ head' = [head EXCEPT ![t] = NoBlock]
      /\ prevHead' = [prevHead EXCEPT ![t] = NoBlock] /\ next' = [next EXCEPT ![t] = NoBlock]
      /\ refs' = [refs EXCEPT ![t] = 0] /\ resume' = [resume EXCEPT ![t] = NoBlock]
      BY DEF ReturnBlock, Return, Set
<1>3. Goes(t)
      BY <1>1, <1>2 DEF Goes, OnlyThread, LocalsTyped, Label
<1>4. pc'[t] = "idle" /\ held'[t] = held[t] \cup {h}
      BY <1>1, <1>2 DEF LocalsTyped
<1>5. \A b \in Block \ {h} : SameTo(t, b) /\ (b \in Existing' <=> b \in Existing)
      BY <1>4 DEF SameTo, Takes, Adds, Prepares, Links, Refers, AddLabel
<1>6. LocalsOK(t)' /\ NextIsRight(t)'
      BY <1>4 DEF LocalsOK, NextIsRight, AddLabel
<1>7. OnlyThread(t) /\ OnList' = OnList
      BY <1>3, ListSame DEF Goes
<1>8. ~Owned(h) /\ NobodyElse(t, h) /\ h \notin OnList /\ ~Has(t, h)
      BY <1>1, WhoHas DEF OneOwner, Owned
<1>9. Alone(t, h) /\ Alone(t, h)'
      BY <1>7, <1>8, NobodyElseNext
<1>10. /\ Has(t, h)' /\ ~Takes(t, h)' /\ ~Adds(t, h)' /\ ~Links(t, h)' /\ ~Prepares(t, h)'
       /\ ~Takes(t, h) /\ ~Adds(t, h) /\ ~Links(t, h) /\ ~Prepares(t, h)
       /\ Referring(h)' = Referring(h)
  <2>1. Refers(t, h)' <=> Refers(t, h)
        BY <1>4 DEF Refers
  <2>2. QED
        BY <1>4, <1>7, <2>1, ReferringSame DEF Has, Takes, Adds, Links, Prepares, AddLabel
<1>11. OneOwner(h)'
       BY <1>7, <1>8, <1>9, <1>10 DEF Alone
<1>12. CountOK(h)'
       BY <1>1, <1>7, <1>8, <1>9, <1>10 DEF Alone, CountOK, OfList
<1>13. freeListRefs' \in [Block -> Nat]
       BY <1>1 DEF SharedTyped
<1>14. QED
       BY <1>3, <1>4, <1>5, <1>6, <1>11, <1>12, <1>13, StepOffList

LEMMA NewBlockStep ==
    ASSUME ConstantsOK, PoolIInv, NEW t \in Thread,
           (FetchInitialIndex(t) /\ initialBlockPoolIndex < initialBlockPoolSize) \/ \E b \in Block : Create(t, b)
    PROVE  PoolIInv'
<1>1. /\ initialBlockPoolIndex \in Nat /\ created \subseteq Block /\ initialBlockPoolSize \in Nat
      /\ 0 .. initialBlockPoolSize - 1 \subseteq Block /\ created \cap (0 .. initialBlockPoolSize - 1) = {}
      BY DEF PoolIInv, TypeOK, ConstantsOK
<1>2. CASE FetchInitialIndex(t) /\ initialBlockPoolIndex < initialBlockPoolSize
  <2>1. /\ pc[t] = "fetchInitial" /\ ReturnBlock(t, initialBlockPoolIndex)
        /\ initialBlockPoolIndex' = initialBlockPoolIndex + 1
        /\ UNCHANGED <<created, freeListHead, freeListNext, freeListRefs>>
        BY <1>2 DEF FetchInitialIndex
  <2>2. initialBlockPoolIndex \in 0 .. initialBlockPoolSize - 1
        BY <1>1, <1>2
  <2>3. initialBlockPoolIndex \in Block /\ initialBlockPoolIndex \notin Existing
        BY <1>1, <2>2 DEF Existing
  <2>4. Existing' = Existing \cup {initialBlockPoolIndex}
        BY <1>1, <2>1, <2>2 DEF Existing
  <2>5. QED
        BY <1>1, <2>1, <2>3, <2>4, NewBlock
<1>3. ASSUME NEW b \in Block, Create(t, b) PROVE PoolIInv'
  <2>1. /\ pc[t] = "create" /\ ReturnBlock(t, b) /\ created' = created \cup {b}
        /\ b \notin created /\ b \notin 0 .. initialBlockPoolSize - 1
        /\ UNCHANGED <<initialBlockPoolIndex, freeListHead, freeListNext, freeListRefs>>
        BY <1>3 DEF Create
  <2>2. b \notin Existing /\ Existing' = Existing \cup {b}
        BY <2>1 DEF Existing
  <2>3. initialBlockPoolIndex' \in Nat /\ created' \subseteq Block
        /\ created' \cap (0 .. initialBlockPoolSize - 1) = {}
        BY <1>1, <2>1
  <2>4. QED
        BY <2>1, <2>2, <2>3, NewBlock
<1>4. QED
      BY <1>2, <1>3

\* A thread gives a block back.
LEMMA GiveBackStep ==
    ASSUME ConstantsOK, PoolIInv, NEW t \in Thread, NEW h \in Block, AddBlockToFreeList(t, h)
    PROVE  PoolIInv'
<1>1. SharedTyped /\ LocalsTyped /\ OneOwner(h) /\ CountOK(h)
      BY Typed DEF PoolIInv
<1>2. /\ h \in held[t] /\ pc[t] = "idle" /\ pc' = [pc EXCEPT ![t] = "addFlag"]
      /\ held' = [held EXCEPT ![t] = @ \ {h}] /\ node' = [node EXCEPT ![t] = h]
      /\ UNCHANGED <<initialBlockPoolIndex, created, freeListHead, freeListNext, freeListRefs>>
      /\ UNCHANGED <<head, prevHead, next, refs, resume>>
      BY DEF AddBlockToFreeList, Goto, Set, shared
<1>3. Goes(t)
      BY <1>1, <1>2 DEF Goes, OnlyThread, LocalsTyped, Label
<1>4. pc'[t] = "addFlag" /\ held'[t] = held[t] \ {h} /\ node'[t] = h
      BY <1>1, <1>2 DEF LocalsTyped
<1>5. Existing' = Existing
      BY <1>2 DEF Existing
<1>6. \A b \in Block \ {h} : SameTo(t, b)
      BY <1>2, <1>4 DEF SameTo, Takes, Adds, Prepares, Links, Refers, AddLabel
<1>7. LocalsOK(t)' /\ NextIsRight(t)'
      BY <1>4 DEF LocalsOK, NextIsRight, AddLabel
<1>8. OnlyThread(t) /\ OnList' = OnList
      BY <1>2, <1>3, ListSame DEF Goes
<1>9. Has(t, h) /\ NobodyElse(t, h) /\ h \notin OnList
      BY <1>1, <1>2, WhoHas DEF OneOwner, Has
<1>10. Alone(t, h) /\ Alone(t, h)'
       BY <1>8, <1>9, NobodyElseNext
<1>11. /\ Has(t, h)' /\ ~Takes(t, h)' /\ ~Links(t, h)' /\ ~Prepares(t, h)' /\ h \notin held'[t]
       /\ ~Takes(t, h) /\ ~Links(t, h) /\ ~Prepares(t, h)
       /\ Referring(h)' = Referring(h)
  <2>1. Refers(t, h)' <=> Refers(t, h)
        BY <1>2, <1>4 DEF Refers
  <2>2. QED
        BY <1>2, <1>4, <1>8, <2>1, ReferringSame DEF Has, Takes, Adds, Links, Prepares, AddLabel
<1>12. OneOwner(h)'
       BY <1>1, <1>5, <1>8, <1>9, <1>10, <1>11 DEF Alone
<1>13. CountOK(h)'
       BY <1>1, <1>2, <1>5, <1>8, <1>9, <1>10, <1>11 DEF Alone, CountOK, OfList
<1>14. /\ freeListRefs' \in [Block -> Nat] /\ initialBlockPoolIndex' \in Nat /\ created' \subseteq Block
       /\ created' \cap (0 .. initialBlockPoolSize - 1) = {}
       BY <1>1, <1>2 DEF SharedTyped, PoolIInv
<1>15. QED
       BY <1>2, <1>3, <1>4, <1>5, <1>6, <1>7, <1>12, <1>13, <1>14, StepOffList

\* try_get counts itself: the count was not zero, so nobody prepares the block.
LEMMA ReferStep ==
    ASSUME ConstantsOK, PoolIInv, NEW t \in Thread, CasRefs(t), freeListRefs[head[t]] = refs[t]
    PROVE  PoolIInv'
<1>1. SharedTyped /\ LocalsTyped /\ LocalsOK(t)
      BY Typed DEF PoolIInv
<1>0. PICK h \in Block : h = head[t]
  <2>1. pc[t] = "casRefs"
        BY DEF CasRefs
  <2>2. QED
        BY <2>1, <1>1 DEF LocalsOK
<1>2. /\ pc[t] = "casRefs" /\ pc' = [pc EXCEPT ![t] = "loadNext"]
      /\ freeListRefs' = [freeListRefs EXCEPT ![h] = @ + 1] /\ refs' = [refs EXCEPT ![t] = 0]
      /\ UNCHANGED <<initialBlockPoolIndex, created, freeListHead, freeListNext>>
      /\ UNCHANGED <<held, node, head, prevHead, next, resume>>
      BY <1>0 DEF CasRefs, Set
<1>3. h \in Block /\ h = head[t] /\ RefCount(freeListRefs[h]) # 0
      BY <1>0, <1>1, <1>2 DEF LocalsOK
<1>4. CountOK(h) /\ OneOwner(h) /\ freeListRefs[h] \in Nat
      BY <1>1, <1>3 DEF PoolIInv, SharedTyped
<1>5. Goes(t)
      BY <1>1, <1>2 DEF Goes, OnlyThread, LocalsTyped, Label
<1>6. pc'[t] = "loadNext" /\ freeListRefs'[h] = freeListRefs[h] + 1 /\ head'[t] = h
      BY <1>1, <1>2, <1>3 DEF LocalsTyped, SharedTyped
<1>7. /\ freeListRefs' \in [Block -> Nat] /\ initialBlockPoolIndex' \in Nat /\ created' \subseteq Block
      /\ created' \cap (0 .. initialBlockPoolSize - 1) = {} /\ Existing' = Existing
      /\ \A b \in Block \ {h} : freeListRefs'[b] = freeListRefs[b]
      BY <1>1, <1>2, <1>3 DEF SharedTyped, PoolIInv, Existing
<1>8. \A b \in Block \ {h} : SameTo(t, b)
      BY <1>2, <1>6 DEF SameTo, Takes, Adds, Prepares, Links, Refers, AddLabel
<1>9. LocalsOK(t)' /\ NextIsRight(t)'
      BY <1>3, <1>6 DEF LocalsOK, NextIsRight, AddLabel
<1>10. OnlyThread(t) /\ OnList' = OnList
       BY <1>2, <1>5, ListSame DEF Goes
<1>11. \A u \in Thread : /\ (Has(u, h)' <=> Has(u, h)) /\ (Prepares(u, h)' <=> Prepares(u, h))
                         /\ (Takes(u, h)' <=> Takes(u, h)) /\ (Links(u, h)' <=> Links(u, h))
                         /\ (Adds(u, h)' <=> Adds(u, h)) /\ (h \in held'[u] <=> h \in held[u])
  <2>1. ASSUME NEW u \in Thread \ {t}
        PROVE  SameTo(u, h) /\ (Has(u, h)' <=> Has(u, h))
        BY <1>10, Bystanders
  <2>2. /\ (Has(t, h)' <=> Has(t, h)) /\ (Prepares(t, h)' <=> Prepares(t, h))
        /\ (Takes(t, h)' <=> Takes(t, h)) /\ (Links(t, h)' <=> Links(t, h))
        /\ (Adds(t, h)' <=> Adds(t, h)) /\ (h \in held'[t] <=> h \in held[t])
        BY <1>2, <1>6 DEF Has, Takes, Adds, Links, Prepares, AddLabel
  <2>3. QED
        BY <2>1, <2>2 DEF SameTo
<1>12. /\ (Owned(h)' <=> Owned(h)) /\ (Prepared(h)' <=> Prepared(h))
       /\ (\E u \in Thread : Takes(u, h) \/ Links(u, h))' <=> (\E u \in Thread : Takes(u, h) \/ Links(u, h))
       BY <1>10, <1>11 DEF Owned, Prepared
<1>13. OneOwner(h)'
       BY <1>4, <1>7, <1>10, <1>11, <1>12 DEF OneOwner
<1>14. /\ Cardinality(Referring(h)') = Cardinality(Referring(h)) + 1 /\ Referring(h)' # {}
       /\ Cardinality(Referring(h)) \in Nat
  <2>1. ~Refers(t, h) /\ Refers(t, h)'
        BY <1>2, <1>6 DEF Refers
  <2>2. QED
        BY <2>1, <1>10, ReferringMore
<1>15. References(h)' = References(h) + 1 /\ References(h) \in Nat
       BY <1>10, <1>12, <1>14 DEF References
<1>16. ~Prepared(h)
  <2>1. SHOULD_BE_ON_FREELIST \in Nat /\ 0 < SHOULD_BE_ON_FREELIST
        BY ReferencesAreFew
  <2>2. RefCount(SHOULD_BE_ON_FREELIST + 0) = 0
        BY <2>1, FlagAndCount DEF RefCount
  <2>3. QED
        BY <2>1, <2>2, <1>3, <1>4 DEF CountOK
<1>17. SHOULD_BE_ON_FREELIST \in Nat
       BY DEF ConstantsOK
<1>18. CountOK(h)'
       BY <1>4, <1>6, <1>7, <1>12, <1>14, <1>15, <1>16, <1>17 DEF CountOK
<1>19. QED
       BY <1>2, <1>3, <1>5, <1>6, <1>7, <1>8, <1>9, <1>13, <1>18, StepOffList

\* try_get takes the head of the list: its successor has not changed since.
LEMMA TakeStep ==
    ASSUME ConstantsOK, PoolIInv, NEW t \in Thread, CasHead(t), freeListHead = head[t]
    PROVE  PoolIInv'
<1>1. SharedTyped /\ LocalsTyped /\ LocalsOK(t) /\ NextIsRight(t) /\ TypeOK /\ ListOK
      BY Typed DEF PoolIInv
<1>0. PICK h \in Block : h = head[t]
  <2>1. pc[t] = "casHead"
        BY DEF CasHead
  <2>2. QED
        BY <2>1, <1>1 DEF LocalsOK
<1>2. /\ pc[t] = "casHead" /\ pc' = [pc EXCEPT ![t] = "subTwo"]
      /\ freeListHead' = next[t] /\ next' = [next EXCEPT ![t] = NoBlock]
      /\ UNCHANGED <<initialBlockPoolIndex, created, freeListNext, freeListRefs>>
      /\ UNCHANGED <<held, node, head, prevHead, refs, resume>>
      BY DEF CasHead, Set
<1>3. h \in Block /\ h = head[t] /\ h = freeListHead
      BY <1>0
<1>4. CountOK(h) /\ OneOwner(h) /\ freeListRefs[h] \in Nat
      BY <1>1, <1>3 DEF PoolIInv, SharedTyped
<1>5. Goes(t)
      BY <1>1, <1>2 DEF Goes, OnlyThread, LocalsTyped, Label
<1>6. pc'[t] = "subTwo" /\ head'[t] = h
      BY <1>1, <1>2, <1>3 DEF LocalsTyped, SharedTyped
<1>7. SharedTyped' /\ created' \cap (0 .. initialBlockPoolSize - 1) = {} /\ Existing' = Existing
      BY <1>1, <1>2, <1>3 DEF SharedTyped, LocalsTyped, PoolIInv, Existing
<1>8. OnlyThread(t) /\ TypeOK'
      BY <1>5, <1>7, TypedNext DEF Goes
<1>9. TheList /\ TheList'
      BY <1>1, <1>8, ListIsLeast, ListIsLeastNext
<1>10. h \in OnList
       BY <1>3, <1>9 DEF TheList, IsList, Closed, ConstantsOK
<1>11. freeListHead' = freeListNext[h]
       BY <1>1, <1>2, <1>3, <1>10 DEF NextIsRight
<1>12. OnList' = OnList \ {h} /\ ListOK'
  <2>1. IsList(h, freeListNext, OnList) /\ IsList(freeListNext[h], freeListNext, OnList')
        BY <1>2, <1>3, <1>9, <1>11 DEF TheList
  <2>2. IsPath(h, freeListNext, OnList)
        BY <1>1, <1>3 DEF ListOK, IsPath
  <2>3. NoBlock \notin Block
        BY DEF ConstantsOK
  <2>4. OnList' = OnList \ {h} /\ IsPath(freeListNext[h], freeListNext, OnList')
        BY <1>3, <2>1, <2>2, <2>3, ListPop
  <2>5. QED
        BY <2>4, <1>2, <1>11 DEF ListOK, IsPath
<1>13. \A b \in Block \ {h} : SameTo(t, b)
       BY <1>2, <1>6 DEF SameTo, Takes, Adds, Prepares, Links, Refers, AddLabel
<1>14. Elsewhere(t, h)
       BY <1>2, <1>7, <1>12, <1>13 DEF Elsewhere
<1>15. \A u \in Thread : LocalsOK(u)' /\ NextIsRight(u)'
  <2>1. LocalsOK(t)' /\ NextIsRight(t)'
        BY <1>3, <1>6 DEF LocalsOK, NextIsRight, AddLabel
  <2>2. QED
        BY <2>1, <1>2, <1>6, <1>8, <1>12, OthersKnow
<1>16. Alone(t, h) /\ Alone(t, h)' /\ ~Has(t, h)
       BY <1>4, <1>8, <1>3, <1>10, WhoHas, NobodyElseNext DEF OneOwner
<1>17. /\ Has(t, h)' /\ Takes(t, h)' /\ ~Adds(t, h)' /\ ~Prepares(t, h)' /\ h \notin held'[t]
       /\ ~Takes(t, h) /\ ~Adds(t, h) /\ ~Prepares(t, h)
       /\ Referring(h)' = Referring(h)
  <2>1. Refers(t, h)' <=> Refers(t, h)
        BY <1>2, <1>6 DEF Refers
  <2>2. Referring(h)' = Referring(h)
        BY <1>8, <2>1, ReferringSame
  <2>3. QED
        BY <1>2, <1>6, <1>16, <2>2 DEF Has, Takes, Adds, Prepares, AddLabel
<1>18. OneOwner(h)'
       BY <1>4, <1>7, <1>10, <1>12, <1>16, <1>17 DEF Alone
<1>19. CountOK(h)'
       BY <1>2, <1>4, <1>7, <1>10, <1>12, <1>16, <1>17 DEF Alone, CountOK, OfList
<1>20. QED
       BY <1>3, <1>5, <1>7, <1>12, <1>14, <1>15, <1>18, <1>19, StepOnBlock

\* try_get returns the block, without its two references.
LEMMA HandOutStep ==
    ASSUME ConstantsOK, PoolIInv, NEW t \in Thread, SubTwo(t)
    PROVE  PoolIInv'
<1>1. SharedTyped /\ LocalsTyped /\ LocalsOK(t)
      BY Typed DEF PoolIInv
<1>0. PICK h \in Block : h = head[t]
  <2>1. pc[t] = "subTwo"
        BY DEF SubTwo
  <2>2. QED
        BY <2>1, <1>1 DEF LocalsOK
<1>2. /\ pc[t] = "subTwo" /\ pc' = [pc EXCEPT ![t] = "idle"]
      /\ freeListRefs' = [freeListRefs EXCEPT ![h] = @ - 2] /\ held' = [held EXCEPT ![t] = @ \cup {h}]
      /\ node' = [node EXCEPT ![t] = NoBlock] /\ head' = [head EXCEPT ![t] = NoBlock]
      /\ prevHead' = [prevHead EXCEPT ![t] = NoBlock] /\ next' = [next EXCEPT ![t] = NoBlock]
      /\ refs' = [refs EXCEPT ![t] = 0] /\ resume' = [resume EXCEPT ![t] = NoBlock]
      /\ UNCHANGED <<initialBlockPoolIndex, created, freeListHead, freeListNext>>
      BY <1>0 DEF SubTwo, ReturnBlock, Return, Set
<1>3. Goes(t)
      BY <1>1, <1>2 DEF Goes, OnlyThread, LocalsTyped, Label
<1>4. /\ pc'[t] = "idle" /\ held'[t] = held[t] \cup {h} /\ freeListRefs'[h] = freeListRefs[h] - 2
      /\ \A b \in Block \ {h} : freeListRefs'[b] = freeListRefs[b]
      BY <1>1, <1>2 DEF LocalsTyped, SharedTyped
<1>5. \A b \in Block \ {h} : SameTo(t, b)
      BY <1>0, <1>2, <1>4 DEF SameTo, Takes, Adds, Prepares, Links, Refers, AddLabel
<1>6. LocalsOK(t)' /\ NextIsRight(t)'
      BY <1>4 DEF LocalsOK, NextIsRight, AddLabel
<1>7. OnlyThread(t) /\ OnList' = OnList /\ Existing' = Existing
      BY <1>2, <1>3, ListSame DEF Goes, Existing
<1>8. CountOK(h) /\ OneOwner(h) /\ freeListRefs[h] \in Nat
      BY <1>1 DEF PoolIInv, SharedTyped
<1>9. Takes(t, h) /\ Has(t, h) /\ NobodyElse(t, h) /\ h \notin OnList
      BY <1>0, <1>2, <1>8, WhoHas DEF OneOwner, Has, Takes
<1>10. Alone(t, h) /\ Alone(t, h)'
       BY <1>7, <1>9, NobodyElseNext
<1>11. /\ Has(t, h)' /\ ~Takes(t, h)' /\ ~Adds(t, h)' /\ ~Links(t, h)' /\ ~Prepares(t, h)'
       /\ ~Prepares(t, h)
       BY <1>2, <1>4 DEF Has, Takes, Adds, Links, Prepares, AddLabel
<1>12. /\ Cardinality(Referring(h)') = Cardinality(Referring(h)) - 1
       /\ Cardinality(Referring(h)) \in Nat \ {0}
  <2>1. Refers(t, h) /\ ~Refers(t, h)'
        BY <1>0, <1>2, <1>4 DEF Refers
  <2>2. QED
        BY <2>1, <1>7, ReferringLess
<1>13. freeListRefs[h] = Cardinality(Referring(h)) + 1
       BY <1>8, <1>9, <1>10, <1>11 DEF Alone, CountOK, OfList
<1>14. OneOwner(h)'
       BY <1>7, <1>8, <1>9, <1>10, <1>11 DEF Alone
<1>15. References(h)' = Cardinality(Referring(h)')
  <2>1. References(h)' = Cardinality(Referring(h)') + 0
        BY <1>7, <1>9, <1>10, <1>11 DEF Alone, OfList
  <2>2. QED
        BY <2>1, <1>12
<1>16. freeListRefs'[h] = References(h)' /\ freeListRefs'[h] \in Nat
       BY <1>4, <1>12, <1>13, <1>15
<1>17. CountOK(h)'
       BY <1>10, <1>11, <1>16 DEF Alone, CountOK
<1>18. /\ freeListRefs' \in [Block -> Nat] /\ initialBlockPoolIndex' \in Nat /\ created' \subseteq Block
       /\ created' \cap (0 .. initialBlockPoolSize - 1) = {}
       BY <1>1, <1>2, <1>4, <1>16 DEF SharedTyped, PoolIInv
<1>19. QED
       BY <1>2, <1>3, <1>4, <1>5, <1>6, <1>7, <1>14, <1>17, <1>18, StepOffList

\* try_get drops its reference: the last one to a block without an owner adds it.
LEMMA DropStep ==
    ASSUME ConstantsOK, PoolIInv, NEW t \in Thread, SubOne(t)
    PROVE  PoolIInv'
<1>1. SharedTyped /\ LocalsTyped /\ LocalsOK(t)
      BY Typed DEF PoolIInv
<1>0. PICK h \in Block : h = prevHead[t]
  <2>1. pc[t] = "subOne"
        BY DEF SubOne
  <2>2. QED
        BY <2>1, <1>1 DEF LocalsOK
<1>2. /\ pc[t] = "subOne"
      /\ freeListRefs' = [freeListRefs EXCEPT ![h] = @ - 1]
      /\ UNCHANGED <<initialBlockPoolIndex, created, freeListHead, freeListNext>>
      /\ UNCHANGED <<held, head, next, refs>>
      BY <1>0 DEF SubOne, Set
<1>3. \/ /\ freeListRefs[h] = SHOULD_BE_ON_FREELIST + 1
         /\ pc' = [pc EXCEPT ![t] = "readHead"] /\ node' = [node EXCEPT ![t] = h]
         /\ resume' = [resume EXCEPT ![t] = head[t]] /\ UNCHANGED prevHead
      \/ /\ freeListRefs[h] # SHOULD_BE_ON_FREELIST + 1
         /\ pc' = [pc EXCEPT ![t] = LoopOn(head[t])]
         /\ prevHead' = [prevHead EXCEPT ![t] = NoBlock] /\ UNCHANGED <<node, resume>>
      BY <1>0 DEF SubOne, Set
<1>4. LoopOn(head[t]) \in {"create", "loadRefs"} /\ (LoopOn(head[t]) = "loadRefs" => head[t] \in Block)
      BY <1>1 DEF LoopOn, LocalsTyped
<1>5. Goes(t)
      BY <1>1, <1>2, <1>3, <1>4 DEF Goes, OnlyThread, LocalsTyped, Label
<1>6. /\ freeListRefs'[h] = freeListRefs[h] - 1
      /\ \A b \in Block \ {h} : freeListRefs'[b] = freeListRefs[b]
      BY <1>1, <1>2 DEF SharedTyped
<1>7. \/ /\ freeListRefs[h] = SHOULD_BE_ON_FREELIST + 1 /\ pc'[t] = "readHead" /\ node'[t] = h
      \/ /\ freeListRefs[h] # SHOULD_BE_ON_FREELIST + 1 /\ pc'[t] \in {"create", "loadRefs"}
         /\ pc'[t] = "loadRefs" => head'[t] \in Block
      BY <1>1, <1>2, <1>3, <1>4 DEF LocalsTyped
<1>8. \A b \in Block \ {h} : SameTo(t, b)
      BY <1>0, <1>2, <1>7 DEF SameTo, Takes, Adds, Prepares, Links, Refers, AddLabel
<1>9. LocalsOK(t)' /\ NextIsRight(t)'
      BY <1>7 DEF LocalsOK, NextIsRight, AddLabel
<1>10. OnlyThread(t) /\ OnList' = OnList /\ Existing' = Existing
       BY <1>2, <1>5, ListSame DEF Goes, Existing
<1>11. CountOK(h) /\ OneOwner(h) /\ freeListRefs[h] \in Nat
       BY <1>1 DEF PoolIInv, SharedTyped
<1>12. /\ Cardinality(Referring(h)') = Cardinality(Referring(h)) - 1
       /\ Cardinality(Referring(h)) \in Nat \ {0} /\ Referring(h) # {}
       /\ Cardinality(Referring(h)') = 0 <=> Referring(h)' = {}
  <2>1. Refers(t, h) /\ ~Refers(t, h)'
        BY <1>0, <1>2, <1>7 DEF Refers
  <2>2. QED
        BY <2>1, <1>10, ReferringLess
<1>13. ~Prepared(h)
       BY <1>11, <1>12 DEF CountOK
<1>14. /\ SHOULD_BE_ON_FREELIST \in Nat /\ References(h) \in Nat
       /\ References(h) < SHOULD_BE_ON_FREELIST
       BY ReferencesAreFew
<1>15. CASE Owned(h) \/ h \notin Existing
  <2>1. freeListRefs[h] = References(h)
        BY <1>11, <1>13, <1>15 DEF CountOK
  <2>2. pc'[t] \in {"create", "loadRefs"}
        BY <2>1, <1>7, <1>14
  <2>4. ASSUME NEW u \in Thread
        PROVE  /\ (Has(u, h)' <=> Has(u, h)) /\ (Prepares(u, h)' <=> Prepares(u, h))
               /\ (Takes(u, h)' <=> Takes(u, h)) /\ (Links(u, h)' <=> Links(u, h))
               /\ (Adds(u, h)' <=> Adds(u, h)) /\ (h \in held'[u] <=> h \in held[u])
    <3>1. CASE u = t
          BY <3>1, <1>2, <2>2 DEF Has, Takes, Adds, Links, Prepares, AddLabel
    <3>2. CASE u # t
          BY <3>2, <1>10, Bystanders DEF SameTo
    <3>3. QED
          BY <3>1, <3>2
  <2>5. /\ (Owned(h)' <=> Owned(h)) /\ (Prepared(h)' <=> Prepared(h))
        /\ (\E u \in Thread : Takes(u, h) \/ Links(u, h))' <=> (\E u \in Thread : Takes(u, h) \/ Links(u, h))
        BY <1>10, <2>4 DEF Owned, Prepared
  <2>6. OneOwner(h)'
        BY <1>10, <1>11, <2>4, <2>5 DEF OneOwner
  <2>7. References(h)' = References(h) - 1 /\ References(h) \in Nat \ {0}
        BY <1>10, <1>12, <1>14, <2>5 DEF References
  <2>8. CountOK(h)' /\ freeListRefs'[h] \in Nat
        BY <1>6, <1>10, <1>13, <1>15, <2>1, <2>5, <2>7 DEF CountOK
  <2>9. QED
        BY <2>6, <2>8, <1>1, <1>2, <1>5, <1>6, <1>7, <1>8, <1>9, <1>10, StepOffList DEF SharedTyped, PoolIInv
<1>16. CASE ~Owned(h) /\ h \in Existing
  <2>1. /\ freeListRefs[h] = SHOULD_BE_ON_FREELIST + Cardinality(Referring(h))
        BY <1>11, <1>16 DEF CountOK
  <2>2. Alone(t, h) /\ Alone(t, h)' /\ ~Has(t, h) /\ h \notin OnList
        BY <1>10, <1>16, WhoHas, NobodyElseNext DEF Owned
  <2>3. CASE freeListRefs[h] = SHOULD_BE_ON_FREELIST + 1
    <3>1. pc'[t] = "readHead" /\ node'[t] = h /\ freeListRefs'[h] = SHOULD_BE_ON_FREELIST
          BY <2>3, <1>6, <1>7, <1>14
    <3>2. Referring(h)' = {}
          BY <2>1, <2>3, <1>12, <1>14
    <3>3. Prepares(t, h)' /\ Adds(t, h)' /\ Has(t, h)' /\ ~Takes(t, h)' /\ h \notin held'[t]
          BY <3>1, <2>2, <1>2 DEF Prepares, Has, Adds, Takes, AddLabel
    <3>4. OneOwner(h)' /\ CountOK(h)'
          BY <3>1, <3>2, <3>3, <2>2, <1>10, <1>16 DEF Alone, CountOK
    <3>5. QED
          BY <3>1, <3>4, <1>1, <1>2, <1>5, <1>6, <1>8, <1>9, <1>10, <1>14, StepOffList DEF SharedTyped, PoolIInv
  <2>4. CASE freeListRefs[h] # SHOULD_BE_ON_FREELIST + 1
    <3>1. pc'[t] \in {"create", "loadRefs"}
          BY <2>4, <1>7
    <3>2. /\ freeListRefs'[h] = SHOULD_BE_ON_FREELIST + Cardinality(Referring(h)') /\ Referring(h)' # {}
          /\ freeListRefs'[h] \in Nat
          BY <2>1, <2>4, <1>6, <1>12, <1>14
    <3>3. ~Prepares(t, h)' /\ ~Has(t, h)'
          BY <3>1, <2>2, <1>2 DEF Prepares, Has, Adds, Takes, AddLabel
    <3>4. OneOwner(h)' /\ CountOK(h)'
          BY <3>2, <3>3, <2>2, <1>10, <1>16 DEF Alone, CountOK
    <3>5. QED
          BY <3>1, <3>2, <3>4, <1>1, <1>2, <1>5, <1>6, <1>8, <1>9, <1>10, StepOffList DEF SharedTyped, PoolIInv
  <2>5. QED
        BY <2>3, <2>4
<1>17. QED
       BY <1>15, <1>16

\* add returns to its caller, or goes on in the loop of try_get.
LEMMA AfterAdd ==
    ASSUME LocalsTyped, NEW t \in Thread, AddReturns(t) \/ Return(t), UNCHANGED held
    PROVE  /\ Goes(t) /\ pc'[t] \in {"idle", "create", "loadRefs"}
           /\ pc'[t] = "loadRefs" => head'[t] \in Block
           /\ LocalsOK(t)' /\ NextIsRight(t)'
<1>1. CASE Return(t)
  <2>1. /\ pc' = [pc EXCEPT ![t] = "idle"]
        /\ node' = [node EXCEPT ![t] = NoBlock] /\ head' = [head EXCEPT ![t] = NoBlock]
        /\ prevHead' = [prevHead EXCEPT ![t] = NoBlock] /\ next' = [next EXCEPT ![t] = NoBlock]
        /\ refs' = [refs EXCEPT ![t] = 0] /\ resume' = [resume EXCEPT ![t] = NoBlock]
        BY <1>1 DEF Return, Set
  <2>2. Goes(t)
        BY <2>1 DEF Goes, OnlyThread, LocalsTyped, Label
  <2>3. pc'[t] = "idle"
        BY <2>1 DEF LocalsTyped
  <2>4. LocalsOK(t)' /\ NextIsRight(t)'
        BY <2>3 DEF LocalsOK, NextIsRight, AddLabel
  <2>5. QED
        BY <2>2, <2>3, <2>4
<1>2. CASE AddReturns(t) /\ ~Return(t)
  <2>1. /\ pc' = [pc EXCEPT ![t] = LoopOn(resume[t])] /\ head' = [head EXCEPT ![t] = resume[t]]
        /\ node' = [node EXCEPT ![t] = NoBlock] /\ resume' = [resume EXCEPT ![t] = NoBlock]
        /\ prevHead' = [prevHead EXCEPT ![t] = NoBlock] /\ UNCHANGED <<next, refs>>
        BY <1>2 DEF AddReturns, Set
  <2>2. LoopOn(resume[t]) \in {"create", "loadRefs"} /\ (LoopOn(resume[t]) = "loadRefs" => resume[t] \in Block)
        BY DEF LoopOn, LocalsTyped
  <2>3. Goes(t)
        BY <2>1, <2>2 DEF Goes, OnlyThread, LocalsTyped, Label
  <2>4. pc'[t] \in {"create", "loadRefs"} /\ (pc'[t] = "loadRefs" => head'[t] \in Block)
        BY <2>1, <2>2 DEF LocalsTyped
  <2>5. LocalsOK(t)' /\ NextIsRight(t)'
        BY <2>4 DEF LocalsOK, NextIsRight, AddLabel
  <2>6. QED
        BY <2>3, <2>4, <2>5
<1>3. QED
      BY <1>1, <1>2

\* The thread leaves a block that somebody still refers to without an owner.
LEMMA LeaveStep ==
    ASSUME ConstantsOK, PoolIInv, NEW t \in Thread, NEW h \in Block, h = node[t],
           pc[t] \in {"addFlag", "addBack"}, AddReturns(t) \/ Return(t), UNCHANGED held,
           UNCHANGED <<initialBlockPoolIndex, created, freeListHead, freeListNext>>,
           freeListRefs' \in [Block -> Nat],
           \A b \in Block \ {h} : freeListRefs'[b] = freeListRefs[b],
           Referring(h) # {},
           freeListRefs'[h] = SHOULD_BE_ON_FREELIST + Cardinality(Referring(h))
    PROVE  PoolIInv'
<1>1. SharedTyped /\ LocalsTyped /\ OneOwner(h)
      BY Typed DEF PoolIInv
<1>2. /\ Goes(t) /\ pc'[t] \in {"idle", "create", "loadRefs"} /\ LocalsOK(t)' /\ NextIsRight(t)'
      BY <1>1, AfterAdd
<1>3. OnlyThread(t) /\ OnList' = OnList /\ Existing' = Existing
      BY <1>2, ListSame DEF Goes, Existing
<1>4. \A b \in Block \ {h} : SameTo(t, b)
      BY <1>2 DEF SameTo, Takes, Adds, Prepares, Links, Refers, AddLabel
<1>5. Has(t, h) /\ NobodyElse(t, h) /\ h \notin OnList /\ h \notin held[t] /\ h \in Existing
  <2>1. Has(t, h) /\ Adds(t, h)
        BY DEF Has, Adds, AddLabel
  <2>2. QED
        BY <2>1, <1>1, WhoHas DEF OneOwner, Owned
<1>6. Alone(t, h)'
      BY <1>3, <1>5, NobodyElseNext
<1>7. ~Has(t, h)' /\ ~Prepares(t, h)'
      BY <1>2, <1>5 DEF Has, Takes, Adds, Prepares, AddLabel
<1>8. Referring(h)' = Referring(h)
  <2>1. Refers(t, h)' <=> Refers(t, h)
        BY <1>2 DEF Refers
  <2>2. QED
        BY <2>1, <1>3, ReferringSame
<1>9. OneOwner(h)' /\ CountOK(h)'
      BY <1>3, <1>5, <1>6, <1>7, <1>8 DEF Alone, CountOK
<1>10. /\ initialBlockPoolIndex' \in Nat /\ created' \subseteq Block
       /\ created' \cap (0 .. initialBlockPoolSize - 1) = {}
       BY <1>1 DEF SharedTyped, PoolIInv
<1>11. pc'[t] # "link"
       BY <1>2
<1>12. \A b \in Block \ {h} : (b \in Existing' <=> b \in Existing)
       BY <1>3
<1>13. QED
       BY <1>2, <1>4, <1>9, <1>10, <1>11, <1>12, StepOffList

\* The thread finds that nobody refers to the block, and prepares to link it in.
LEMMA PrepareStep ==
    ASSUME ConstantsOK, PoolIInv, NEW t \in Thread, NEW h \in Block, h = node[t],
           pc[t] \in {"addFlag", "addBack"}, NEW x \in {"readHead", "setNext"},
           pc' = [pc EXCEPT ![t] = x], UNCHANGED <<held, locals>>,
           UNCHANGED <<initialBlockPoolIndex, created, freeListHead, freeListNext>>,
           freeListRefs' \in [Block -> Nat],
           \A b \in Block \ {h} : freeListRefs'[b] = freeListRefs[b],
           Referring(h) = {}, freeListRefs'[h] = SHOULD_BE_ON_FREELIST
    PROVE  PoolIInv'
<1>1. SharedTyped /\ LocalsTyped /\ OneOwner(h)
      BY Typed DEF PoolIInv
<1>2. Goes(t) /\ pc'[t] = x /\ node'[t] = h /\ held'[t] = held[t]
      BY <1>1 DEF Goes, OnlyThread, LocalsTyped, Label, locals
<1>3. OnlyThread(t) /\ OnList' = OnList /\ Existing' = Existing
      BY <1>2, ListSame DEF Goes, Existing
<1>4. \A b \in Block \ {h} : SameTo(t, b)
      BY <1>2 DEF SameTo, Takes, Adds, Prepares, Links, Refers, AddLabel
<1>5. Has(t, h) /\ NobodyElse(t, h) /\ h \notin OnList /\ h \notin held[t] /\ h \in Existing
  <2>1. Has(t, h) /\ Adds(t, h)
        BY DEF Has, Adds, AddLabel
  <2>2. QED
        BY <2>1, <1>1, WhoHas DEF OneOwner, Owned
<1>6. Alone(t, h)'
      BY <1>3, <1>5, NobodyElseNext
<1>7. Has(t, h)' /\ Prepares(t, h)' /\ h \notin held'[t]
      BY <1>2, <1>5 DEF Has, Takes, Adds, Prepares, AddLabel
<1>8. Referring(h)' = Referring(h)
  <2>1. Refers(t, h)' <=> Refers(t, h)
        BY <1>2 DEF Refers
  <2>2. QED
        BY <2>1, <1>3, ReferringSame
<1>9. OneOwner(h)' /\ CountOK(h)'
      BY <1>3, <1>5, <1>6, <1>7, <1>8 DEF Alone, CountOK
<1>10. LocalsOK(t)' /\ NextIsRight(t)'
       BY <1>2 DEF LocalsOK, NextIsRight, AddLabel
<1>11. /\ initialBlockPoolIndex' \in Nat /\ created' \subseteq Block /\ pc'[t] # "link"
       /\ created' \cap (0 .. initialBlockPoolSize - 1) = {}
       BY <1>1, <1>2 DEF SharedTyped, PoolIInv
<1>12. \A b \in Block \ {h} : (b \in Existing' <=> b \in Existing)
       BY <1>3
<1>13. QED
       BY <1>2, <1>4, <1>9, <1>10, <1>11, <1>12, StepOffList

\* What is known of the block a thread adds
LEMMA Added ==
    ASSUME ConstantsOK, PoolIInv, NEW t \in Thread, pc[t] \in AddLabel, NEW h, h = node[t]
    PROVE  /\ h \in Block /\ Has(t, h) /\ Adds(t, h) /\ NobodyElse(t, h) /\ Alone(t, h)
           /\ h \notin OnList /\ h \notin held[t] /\ h \in Existing
           /\ freeListRefs[h] \in Nat /\ Cardinality(Referring(h)) \in Nat
           /\ Cardinality(Referring(h)) = 0 <=> Referring(h) = {}
           /\ pc[t] = "addFlag" => freeListRefs[h] = Cardinality(Referring(h))
           /\ pc[t] \in {"link", "addBack"} => freeListRefs[h] = Cardinality(Referring(h)) + 1
           /\ Prepares(t, h) => freeListRefs[h] = SHOULD_BE_ON_FREELIST /\ Referring(h) = {}
<1>1. LocalsOK(t) /\ TypeOK
      BY DEF PoolIInv
<1>2. h \in Block /\ Has(t, h) /\ Adds(t, h) /\ ~Takes(t, h)
      BY <1>1 DEF LocalsOK, Has, Adds, Takes, AddLabel
<1>3. OneOwner(h) /\ CountOK(h) /\ freeListRefs[h] \in Nat
      BY <1>1, <1>2 DEF PoolIInv, TypeOK
<1>4. NobodyElse(t, h) /\ Alone(t, h)
      BY <1>2, WhoHas, NobodyElseHas
<1>5. Owned(h) /\ h \notin OnList /\ h \notin held[t] /\ h \in Existing
      BY <1>2, <1>3 DEF OneOwner, Owned
<1>6. Cardinality(Referring(h)) \in Nat /\ (Cardinality(Referring(h)) = 0 <=> Referring(h) = {})
      BY <1>2, ReferencesAreFew
<1>7. Prepares(t, h) => freeListRefs[h] = SHOULD_BE_ON_FREELIST /\ Referring(h) = {}
      BY <1>3 DEF CountOK, Prepared
<1>8. ~Prepares(t, h) => freeListRefs[h] = References(h)
      BY <1>3, <1>4, <1>5 DEF CountOK, Alone
<1>9. ASSUME pc[t] = "addFlag" PROVE freeListRefs[h] = Cardinality(Referring(h))
  <2>1. ~Prepares(t, h) /\ ~Links(t, h)
        BY <1>9 DEF Prepares, Links
  <2>2. References(h) = Cardinality(Referring(h)) + 0
        BY <2>1, <1>2, <1>4, <1>5 DEF Alone, OfList
  <2>3. QED
        BY <2>1, <2>2, <1>6, <1>8
<1>10. ASSUME pc[t] \in {"link", "addBack"} PROVE freeListRefs[h] = Cardinality(Referring(h)) + 1
  <2>1. ~Prepares(t, h) /\ Links(t, h)
        BY <1>10 DEF Prepares, Links
  <2>2. QED
        BY <2>1, <1>4, <1>8 DEF Alone, OfList
<1>11. QED
       BY <1>2, <1>3, <1>4, <1>5, <1>6, <1>7, <1>9, <1>10

\* FreeList::add raises the flag; linking that failed raises it again.
LEMMA FlagStep ==
    ASSUME ConstantsOK, PoolIInv, NEW t \in Thread, AddFlag(t) \/ AddBack(t)
    PROVE  PoolIInv'
<1>1. SharedTyped /\ LocalsTyped /\ SHOULD_BE_ON_FREELIST \in Nat /\ SHOULD_BE_ON_FREELIST > 0
  <2>1. PICK b : b = node[t]
        OBVIOUS
  <2>2. b \in Block
        BY <2>1, Added DEF AddFlag, AddBack, AddLabel
  <2>3. SHOULD_BE_ON_FREELIST \in Nat /\ SHOULD_BE_ON_FREELIST > 0
        BY <2>2, ReferencesAreFew
  <2>4. QED
        BY <2>3, Typed DEF PoolIInv
<1>2. PICK h : h = node[t]
      OBVIOUS
<1>3. pc[t] \in {"addFlag", "addBack"} /\ pc[t] \in AddLabel
      BY DEF AddFlag, AddBack, AddLabel
<1>4. /\ h \in Block /\ freeListRefs[h] \in Nat /\ Cardinality(Referring(h)) \in Nat
      /\ Cardinality(Referring(h)) = 0 <=> Referring(h) = {}
      /\ pc[t] = "addFlag" => freeListRefs[h] = Cardinality(Referring(h))
      /\ pc[t] = "addBack" => freeListRefs[h] = Cardinality(Referring(h)) + 1
      BY <1>2, <1>3, Added
<1>5. UNCHANGED <<initialBlockPoolIndex, created, freeListHead, freeListNext, held>>
      BY DEF AddFlag, AddBack
<1>6. /\ freeListRefs'[h] = SHOULD_BE_ON_FREELIST + Cardinality(Referring(h))
      /\ freeListRefs' \in [Block -> Nat] /\ \A b \in Block \ {h} : freeListRefs'[b] = freeListRefs[b]
  <2>1. CASE AddFlag(t)
    <3>1. freeListRefs' = [freeListRefs EXCEPT ![h] = @ + SHOULD_BE_ON_FREELIST] /\ pc[t] = "addFlag"
          BY <2>1, <1>2 DEF AddFlag
    <3>2. QED
          BY <3>1, <1>1, <1>4 DEF SharedTyped
  <2>2. CASE AddBack(t)
    <3>1. freeListRefs' = [freeListRefs EXCEPT ![h] = @ + (SHOULD_BE_ON_FREELIST - 1)] /\ pc[t] = "addBack"
          BY <2>2, <1>2 DEF AddBack
    <3>2. QED
          BY <3>1, <1>1, <1>4 DEF SharedTyped
  <2>3. QED
        BY <2>1, <2>2
<1>7. CASE Referring(h) = {}
  <2>1. \E x \in {"readHead", "setNext"} : pc' = [pc EXCEPT ![t] = x]
        BY <1>2, <1>4, <1>7 DEF AddFlag, AddBack, Set
  <2>2. UNCHANGED locals
        BY <1>2, <1>4, <1>7 DEF AddFlag, AddBack
  <2>3. freeListRefs'[h] = SHOULD_BE_ON_FREELIST
        BY <1>1, <1>4, <1>6, <1>7
  <2>4. QED
        BY <2>1, <2>2, <2>3, <1>2, <1>3, <1>4, <1>5, <1>6, <1>7, PrepareStep
<1>8. CASE Referring(h) # {}
  <2>1. AddReturns(t) \/ Return(t)
        BY <1>2, <1>4, <1>8 DEF AddFlag, AddBack
  <2>2. QED
        BY <2>1, <1>2, <1>3, <1>4, <1>5, <1>6, <1>8, LeaveStep
<1>9. QED
      BY <1>7, <1>8

\* The head is read, or has changed before the node could be linked in.
LEMMA ReadingStep ==
    ASSUME ConstantsOK, PoolIInv, NEW t \in Thread,
           ReadHead(t) \/ (Link(t) /\ freeListHead # head[t])
    PROVE  PoolIInv'
<1>1. SharedTyped /\ LocalsTyped /\ LocalsOK(t) /\ TypeOK
      BY Typed DEF PoolIInv
<1>2. /\ \/ pc[t] = "readHead" /\ pc' = [pc EXCEPT ![t] = "setNext"]
         \/ pc[t] = "link" /\ pc' = [pc EXCEPT ![t] = "addBack"]
      /\ head' = [head EXCEPT ![t] = freeListHead]
      /\ UNCHANGED <<initialBlockPoolIndex, created, freeListHead, freeListNext, freeListRefs>>
      /\ UNCHANGED <<held, node, prevHead, next, refs, resume>>
      BY DEF ReadHead, Link, Goto, Set, shared
<1>3. Goes(t)
      BY <1>1, <1>2 DEF Goes, OnlyThread, LocalsTyped, SharedTyped, Label
<1>4. /\ \/ pc[t] = "readHead" /\ pc'[t] = "setNext"
         \/ pc[t] = "link" /\ pc'[t] = "addBack"
      /\ node'[t] = node[t] /\ node[t] \in Block
      BY <1>1, <1>2 DEF LocalsTyped, LocalsOK, AddLabel
<1>5. \A b \in Block : SameTo(t, b)
      BY <1>2, <1>4 DEF SameTo, Takes, Adds, Prepares, Links, Refers, AddLabel
<1>6. LocalsOK(t)' /\ NextIsRight(t)' /\ pc'[t] # "link"
      BY <1>4 DEF LocalsOK, NextIsRight, AddLabel
<1>7. OnlyThread(t) /\ TypeOK' /\ Existing' = Existing
      BY <1>1, <1>2, <1>3, TypedNext DEF Goes, SharedTyped, Existing
<1>8. QED
      BY <1>2, <1>5, <1>6, <1>7, QuietStep

\* Others know nothing of a block that nobody refers to and one thread adds.
LEMMA OthersKnowNot ==
    ASSUME PoolIInv, NEW t \in Thread, OnlyThread(t), NEW h \in Block, Referring(h) = {}, Adds(t, h),
           OnList' = OnList, \A b \in Block \ {h} : freeListNext'[b] = freeListNext[b],
           pc'[t] = "link" => node'[t] = h, NEW u \in Thread \ {t}
    PROVE  LocalsOK(u)' /\ NextIsRight(u)'
<1>1. LocalsOK(u) /\ NextIsRight(u) /\ OneOwner(h)
      BY DEF PoolIInv
<1>2. ~(pc[u] \in AddLabel /\ node[u] = h)
      BY <1>1 DEF OneOwner, Has, Adds
<1>3. ~(pc[u] = "casHead" /\ head[u] = h)
      BY DEF Referring, Refers
<1>4. /\ pc'[u] = pc[u] /\ node'[u] = node[u] /\ head'[u] = head[u] /\ prevHead'[u] = prevHead[u]
      /\ next'[u] = next[u] /\ refs'[u] = refs[u]
      BY DEF OnlyThread
<1>5. LocalsOK(u)'
  <2>1. pc[u] \in {"setRefs", "link"} => freeListNext'[node[u]] = freeListNext[node[u]]
        BY <1>1, <1>2 DEF LocalsOK, AddLabel
  <2>2. QED
        BY <2>1, <1>1, <1>4 DEF LocalsOK, AddLabel
<1>6. \A b \in Block \ {h} :
          (\E v \in Thread : pc[v] = "link" /\ node[v] = b)' => \E v \in Thread : pc[v] = "link" /\ node[v] = b
  <2>1. ASSUME NEW b \in Block \ {h}, NEW v \in Thread, pc'[v] = "link" /\ node'[v] = b
        PROVE  pc[v] = "link" /\ node[v] = b
        BY <2>1 DEF OnlyThread
  <2>2. QED
        BY <2>1
<1>7. pc[u] = "casHead" => head[u] \in Block \ {h}
      BY <1>1, <1>3 DEF LocalsOK
<1>8. NextIsRight(u)'
      BY <1>1, <1>4, <1>6, <1>7 DEF NextIsRight
<1>9. QED
      BY <1>5, <1>8

\* The successor of the block is set.
LEMMA SetNextStep ==
    ASSUME ConstantsOK, PoolIInv, NEW t \in Thread, SetNext(t)
    PROVE  PoolIInv'
<1>1. SharedTyped /\ LocalsTyped /\ LocalsOK(t) /\ TypeOK /\ ListOK
      BY Typed DEF PoolIInv
<1>2. PICK h : h = node[t]
      OBVIOUS
<1>3. /\ pc[t] = "setNext" /\ pc' = [pc EXCEPT ![t] = "setRefs"]
      /\ freeListNext' = [freeListNext EXCEPT ![h] = head[t]]
      /\ UNCHANGED <<initialBlockPoolIndex, created, freeListHead, freeListRefs>>
      /\ UNCHANGED <<held, node, head, prevHead, next, refs, resume>>
      BY <1>2 DEF SetNext, Goto, Set, locals
<1>4. h \in Block /\ Adds(t, h) /\ h \notin OnList /\ Referring(h) = {}
  <2>1. pc[t] \in AddLabel /\ Prepares(t, h)
        BY <1>2, <1>3 DEF AddLabel, Prepares
  <2>2. QED
        BY <2>1, <1>2, Added
<1>5. Goes(t)
      BY <1>1, <1>3 DEF Goes, OnlyThread, LocalsTyped, Label
<1>6. /\ pc'[t] = "setRefs" /\ node'[t] = h /\ head'[t] = head[t] /\ freeListNext'[h] = head[t]
      /\ \A b \in Block \ {h} : freeListNext'[b] = freeListNext[b]
      BY <1>1, <1>2, <1>3, <1>4 DEF LocalsTyped, SharedTyped
<1>7. /\ SharedTyped' /\ created' \cap (0 .. initialBlockPoolSize - 1) = {} /\ Existing' = Existing
      BY <1>1, <1>3, <1>4 DEF SharedTyped, LocalsTyped, PoolIInv, Existing
<1>8. OnlyThread(t) /\ TypeOK'
      BY <1>5, <1>7, TypedNext DEF Goes
<1>9. OnList' = OnList /\ ListOK'
  <2>1. TheList /\ TheList'
        BY <1>1, <1>8, ListIsLeast, ListIsLeastNext
  <2>2. IsList(freeListHead, freeListNext, OnList) /\ IsList(freeListHead, freeListNext', OnList')
        BY <2>1, <1>3 DEF TheList
  <2>3. IsPath(freeListHead, freeListNext, OnList)
        BY <1>1 DEF ListOK, IsPath
  <2>4. OnList' = OnList /\ IsPath(freeListHead, freeListNext', OnList')
        BY <2>2, <2>3, <1>4, <1>6, ListElsewhere
  <2>5. QED
        BY <2>4, <1>3 DEF ListOK, IsPath
<1>10. \A b \in Block : SameTo(t, b)
       BY <1>2, <1>3, <1>6 DEF SameTo, Takes, Adds, Prepares, Links, Refers, AddLabel
<1>11. LocalsOK(t)' /\ NextIsRight(t)'
       BY <1>4, <1>6 DEF LocalsOK, NextIsRight, AddLabel
<1>12. \A u \in Thread : LocalsOK(u)' /\ NextIsRight(u)'
       BY <1>4, <1>6, <1>8, <1>9, <1>11, OthersKnowNot
<1>13. OneOwner(h)' /\ CountOK(h)'
       BY <1>3, <1>4, <1>7, <1>8, <1>9, <1>10, BlockKept DEF PoolIInv
<1>14. Elsewhere(t, h)
       BY <1>3, <1>7, <1>9, <1>10 DEF Elsewhere
<1>15. QED
       BY <1>4, <1>5, <1>7, <1>9, <1>12, <1>13, <1>14, StepOnBlock

\* The reference of the list is counted before the block is on it.
LEMMA SetRefsStep ==
    ASSUME ConstantsOK, PoolIInv, NEW t \in Thread, SetRefs(t)
    PROVE  PoolIInv'
<1>1. SharedTyped /\ LocalsTyped /\ LocalsOK(t)
      BY Typed DEF PoolIInv
<1>2. PICK h : h = node[t]
      OBVIOUS
<1>3. /\ pc[t] = "setRefs" /\ pc' = [pc EXCEPT ![t] = "link"]
      /\ freeListRefs' = [freeListRefs EXCEPT ![h] = 1]
      /\ UNCHANGED <<initialBlockPoolIndex, created, freeListHead, freeListNext>>
      /\ UNCHANGED <<held, node, head, prevHead, next, refs, resume>>
      BY <1>2 DEF SetRefs, Goto, Set, locals
<1>4. /\ h \in Block /\ Adds(t, h) /\ h \notin OnList /\ h \notin held[t] /\ Referring(h) = {}
      /\ NobodyElse(t, h) /\ h \in Existing /\ Cardinality(Referring(h)) = 0
  <2>1. pc[t] \in AddLabel /\ Prepares(t, h)
        BY <1>2, <1>3 DEF AddLabel, Prepares
  <2>2. QED
        BY <2>1, <1>2, Added
<1>5. Goes(t)
      BY <1>1, <1>3 DEF Goes, OnlyThread, LocalsTyped, Label
<1>6. /\ pc'[t] = "link" /\ node'[t] = h /\ head'[t] = head[t] /\ freeListRefs'[h] = 1
      /\ freeListRefs' \in [Block -> Nat]
      /\ \A b \in Block \ {h} : freeListRefs'[b] = freeListRefs[b]
      BY <1>1, <1>2, <1>3, <1>4 DEF LocalsTyped, SharedTyped
<1>7. /\ SharedTyped' /\ created' \cap (0 .. initialBlockPoolSize - 1) = {} /\ Existing' = Existing
      BY <1>1, <1>3, <1>6 DEF SharedTyped, PoolIInv, Existing
<1>8. OnlyThread(t) /\ OnList' = OnList /\ ListOK'
      BY <1>3, <1>5, ListSame DEF Goes, PoolIInv
<1>9. \A b \in Block \ {h} : SameTo(t, b)
      BY <1>2, <1>3, <1>6 DEF SameTo, Takes, Adds, Prepares, Links, Refers, AddLabel
<1>10. LocalsOK(t)' /\ NextIsRight(t)'
       BY <1>1, <1>2, <1>3, <1>4, <1>6 DEF LocalsOK, NextIsRight, AddLabel
<1>11. \A u \in Thread : LocalsOK(u)' /\ NextIsRight(u)'
       BY <1>3, <1>4, <1>6, <1>8, <1>10, OthersKnowNot
<1>12. Alone(t, h)'
       BY <1>4, <1>8, NobodyElseNext
<1>13. Has(t, h)' /\ Links(t, h)' /\ ~Prepares(t, h)' /\ ~Takes(t, h)' /\ h \notin held'[t]
       BY <1>3, <1>4, <1>6 DEF Has, Takes, Adds, Links, Prepares, AddLabel
<1>14. Referring(h)' = Referring(h)
  <2>1. Refers(t, h)' <=> Refers(t, h)
        BY <1>3, <1>6 DEF Refers
  <2>2. QED
        BY <2>1, <1>8, ReferringSame
<1>15. OneOwner(h)' /\ CountOK(h)'
       BY <1>4, <1>6, <1>7, <1>8, <1>12, <1>13, <1>14 DEF Alone, CountOK, OfList
<1>16. Elsewhere(t, h)
       BY <1>6, <1>7, <1>8, <1>9 DEF Elsewhere
<1>17. QED
       BY <1>4, <1>5, <1>7, <1>8, <1>11, <1>15, <1>16, StepOnBlock

\* The block becomes the head of the list.
LEMMA LinkStep ==
    ASSUME ConstantsOK, PoolIInv, NEW t \in Thread, Link(t), freeListHead = head[t]
    PROVE  PoolIInv'
<1>1. SharedTyped /\ LocalsTyped /\ LocalsOK(t) /\ TypeOK /\ ListOK
      BY Typed DEF PoolIInv
<1>2. PICK h : h = node[t]
      OBVIOUS
<1>3. /\ pc[t] = "link" /\ freeListHead' = h /\ AddReturns(t)
      /\ UNCHANGED <<initialBlockPoolIndex, created, freeListNext, freeListRefs, held>>
      BY <1>2 DEF Link
<1>4. /\ h \in Block /\ Adds(t, h) /\ h \notin OnList /\ h \notin held[t]
      /\ NobodyElse(t, h) /\ h \in Existing /\ Cardinality(Referring(h)) \in Nat
      /\ freeListRefs[h] = Cardinality(Referring(h)) + 1
  <2>1. pc[t] \in AddLabel
        BY <1>3 DEF AddLabel
  <2>2. QED
        BY <2>1, <1>2, <1>3, Added
<1>5. freeListNext[h] = freeListHead
      BY <1>1, <1>2, <1>3 DEF LocalsOK
<1>6. Goes(t) /\ pc'[t] \in {"idle", "create", "loadRefs"} /\ LocalsOK(t)' /\ NextIsRight(t)'
      BY <1>1, <1>3, AfterAdd
<1>7. /\ SharedTyped' /\ created' \cap (0 .. initialBlockPoolSize - 1) = {} /\ Existing' = Existing
      BY <1>1, <1>3, <1>4 DEF SharedTyped, PoolIInv, Existing
<1>8. OnlyThread(t) /\ TypeOK'
      BY <1>6, <1>7, TypedNext DEF Goes
<1>9. OnList' = OnList \cup {h} /\ ListOK'
  <2>1. TheList /\ TheList'
        BY <1>1, <1>8, ListIsLeast, ListIsLeastNext
  <2>2. IsList(freeListHead, freeListNext, OnList) /\ IsList(h, freeListNext, OnList')
        BY <2>1, <1>3 DEF TheList
  <2>3. IsPath(freeListHead, freeListNext, OnList) /\ NoBlock \notin Block
        BY <1>1 DEF ListOK, IsPath, ConstantsOK
  <2>4. OnList' = OnList \cup {h} /\ IsPath(h, freeListNext, OnList')
        BY <2>2, <2>3, <1>4, <1>5, ListPush
  <2>5. QED
        BY <2>4, <1>3 DEF ListOK, IsPath
<1>10. \A b \in Block \ {h} : SameTo(t, b)
       BY <1>2, <1>3, <1>6 DEF SameTo, Takes, Adds, Prepares, Links, Refers, AddLabel
<1>11. ASSUME NEW u \in Thread \ {t} PROVE LocalsOK(u)' /\ NextIsRight(u)'
  <2>1. LocalsOK(u) /\ NextIsRight(u)
        BY DEF PoolIInv
  <2>2. LocalsOK(u)'
        BY <2>1, <1>3, <1>8 DEF LocalsOK, OnlyThread
  <2>3. \A b : (b \in OnList \/ \E v \in Thread : pc[v] = "link" /\ node[v] = b)'
                   => b \in OnList \/ \E v \in Thread : pc[v] = "link" /\ node[v] = b
        BY <1>2, <1>3, <1>6, <1>8, <1>9 DEF OnlyThread
  <2>4. NextIsRight(u)'
        BY <2>1, <2>3, <1>3, <1>8 DEF NextIsRight, OnlyThread
  <2>5. QED
        BY <2>2, <2>4
<1>12. Alone(t, h)'
       BY <1>4, <1>8, NobodyElseNext
<1>13. ~Has(t, h)' /\ ~Prepares(t, h)'
       BY <1>3, <1>4, <1>6 DEF Has, Takes, Adds, Prepares, AddLabel
<1>14. Referring(h)' = Referring(h)
  <2>1. Refers(t, h)' <=> Refers(t, h)
        BY <1>3, <1>6 DEF Refers
  <2>2. QED
        BY <2>1, <1>8, ReferringSame
<1>15. OneOwner(h)' /\ CountOK(h)'
       BY <1>3, <1>4, <1>7, <1>9, <1>12, <1>13, <1>14 DEF Alone, CountOK, OfList
<1>16. Elsewhere(t, h)
       BY <1>3, <1>7, <1>9, <1>10 DEF Elsewhere
<1>17. \A u \in Thread : LocalsOK(u)' /\ NextIsRight(u)'
       BY <1>6, <1>11
<1>18. QED
       BY <1>4, <1>6, <1>7, <1>9, <1>15, <1>16, <1>17, StepOnBlock

-----------------------------------------------------------------------------
(* All steps                                                               *)

LEMMA StepKeepsPool == ASSUME ConstantsOK, PoolIInv, Next PROVE PoolIInv'
<1>1. PICK t \in Thread : Call(t) \/ Step(t)
      BY DEF Next
<1>2. CASE Requisition(t) \/ LoadInitialIndex(t) \/ CreateFails(t)
      BY <1>2, AskingStep
<1>3. CASE FetchInitialIndex(t)
  <2>1. initialBlockPoolIndex < initialBlockPoolSize \/ initialBlockPoolIndex >= initialBlockPoolSize
        BY DEF PoolIInv, TypeOK, ConstantsOK
  <2>2. QED
        BY <2>1, <1>3, AskingStep, NewBlockStep
<1>4. CASE \E b \in Block : Create(t, b)
      BY <1>4, NewBlockStep
<1>5. CASE \E b \in Block : AddBlockToFreeList(t, b)
      BY <1>5, GiveBackStep
<1>6. CASE LoadHead(t) \/ LoadRefs(t) \/ LoadNext(t)
      BY <1>6, SearchingStep
<1>7. CASE CasRefs(t)
      BY <1>7, SearchingStep, ReferStep
<1>8. CASE CasHead(t)
      BY <1>8, SearchingStep, TakeStep
<1>9. CASE SubTwo(t)
      BY <1>9, HandOutStep
<1>10. CASE SubOne(t)
       BY <1>10, DropStep
<1>11. CASE AddFlag(t) \/ AddBack(t)
       BY <1>11, FlagStep
<1>12. CASE ReadHead(t)
       BY <1>12, ReadingStep
<1>13. CASE SetNext(t)
       BY <1>13, SetNextStep
<1>14. CASE SetRefs(t)
       BY <1>14, SetRefsStep
<1>15. CASE Link(t)
       BY <1>15, ReadingStep, LinkStep
<1>16. QED
       BY <1>1, <1>2, <1>3, <1>4, <1>5, <1>6, <1>7, <1>8, <1>9, <1>10, <1>11, <1>12, <1>13, <1>14, <1>15
       DEF Call, Step

LEMMA InitIsPool == ASSUME ConstantsOK, Init PROVE PoolIInv
<1>1. TypeOK
      BY DEF Init, TypeOK, Label
<1>2. OnList = {}
  <2>1. HasList({})
        BY DEF Init, HasList
  <2>2. QED
        BY <2>1 DEF OnList
<1>3. Existing = {}
  <2>1. \A b \in 0 .. initialBlockPoolSize - 1 : ~(b < 0)
        BY DEF ConstantsOK
  <2>2. QED
        BY <2>1 DEF Init, Existing
<1>4. \A t \in Thread : pc[t] = "idle" /\ held[t] = {}
      BY DEF Init
<1>5. \A t \in Thread : LocalsOK(t) /\ NextIsRight(t)
      BY <1>4 DEF LocalsOK, NextIsRight, AddLabel
<1>6. ASSUME NEW b \in Block PROVE OneOwner(b) /\ CountOK(b)
  <2>1. \A t \in Thread : ~Has(t, b) /\ ~Takes(t, b) /\ ~Links(t, b) /\ ~Prepares(t, b) /\ ~Refers(t, b)
        BY <1>4 DEF Has, Takes, Adds, Links, Prepares, Refers, AddLabel
  <2>2. Referring(b) = {} /\ ~Owned(b) /\ ~Prepared(b)
        BY <2>1, <1>2 DEF Referring, Owned, Prepared
  <2>3. References(b) = Cardinality(Referring(b)) + 0
        BY <2>1, <1>2 DEF References
  <2>4. References(b) = 0
        BY <2>2, <2>3, ReferencesAreFew
  <2>5. freeListRefs[b] = 0
        BY DEF Init
  <2>6. QED
        BY <2>1, <2>2, <2>4, <2>5, <1>2, <1>3 DEF OneOwner, CountOK
<1>7. QED
      BY <1>1, <1>2, <1>5, <1>6 DEF PoolIInv, ListOK, Init

LEMMA StutterKeepsPool == ASSUME PoolIInv, UNCHANGED vars PROVE PoolIInv'
<1>1. /\ UNCHANGED <<initialBlockPoolIndex, created, freeListHead, freeListNext, freeListRefs>>
      /\ UNCHANGED <<held, pc, node, head, prevHead, next, refs, resume>>
      BY DEF vars, shared, locals
<1>2. TypeOK' /\ created' \cap (0 .. initialBlockPoolSize - 1) = {}
      BY <1>1 DEF PoolIInv, TypeOK
<1>3. OnList' = OnList /\ ListOK' /\ Existing' = Existing
      BY <1>1, ListSame DEF PoolIInv, Existing
<1>4. ASSUME NEW t \in Thread PROVE LocalsOK(t)' /\ NextIsRight(t)'
      BY <1>1, <1>3 DEF PoolIInv, LocalsOK, NextIsRight
<1>5. ASSUME NEW b \in Block PROVE OneOwner(b)' /\ CountOK(b)'
  <2>1. OneOwner(b) /\ CountOK(b)
        BY DEF PoolIInv
  <2>2. \A t \in Thread : /\ SameTo(t, b) /\ (Has(t, b)' <=> Has(t, b)) /\ held'[t] = held[t]
        BY <1>1 DEF SameTo, Has, Takes, Adds, Prepares, Links, Refers
  <2>3. Referring(b)' = Referring(b) /\ References(b)' = References(b)
        BY <1>3, <2>2 DEF SameTo, Referring, References
  <2>4. (Owned(b)' <=> Owned(b)) /\ (Prepared(b)' <=> Prepared(b)) /\ freeListRefs'[b] = freeListRefs[b]
        BY <1>1, <1>3, <2>2 DEF SameTo, Owned, Prepared
  <2>5. QED
        BY <2>1, <2>2, <2>3, <2>4, <1>3 DEF OneOwner, CountOK, SameTo
<1>6. QED
      BY <1>2, <1>3, <1>4, <1>5 DEF PoolIInv

LEMMA PoolAlways == ASSUME ConstantsOK PROVE Spec => []PoolIInv
<1>1. Init => PoolIInv
      BY InitIsPool
<1>2. PoolIInv /\ [Next]_vars => PoolIInv'
      BY StepKeepsPool, StutterKeepsPool
<1>3. QED
      BY <1>1, <1>2, PTL DEF Spec

-----------------------------------------------------------------------------
(* What it says of the blocks                                              *)

LEMMA InvIsAccounted == ASSUME ConstantsOK, PoolIInv PROVE BlocksAccountedFor
<1>1. /\ TypeOK /\ created \subseteq Block /\ 0 .. initialBlockPoolSize - 1 \subseteq Block
      /\ \A t \in Thread : LocalsOK(t) /\ held[t] \subseteq Block
      /\ \A b \in Block : OneOwner(b) /\ CountOK(b)
      BY DEF PoolIInv, TypeOK, ConstantsOK
<1>2. ASSUME NEW t \in Thread, NEW b \in held[t] \cup InHand(t)
      PROVE  b \in Block /\ Has(t, b) /\ (b \in InHand(t) => Takes(t, b) \/ Adds(t, b))
      BY <1>1 DEF InHand, LocalsOK, Has, Takes, Adds, AddLabel
<1>3. ASSUME NEW b \in Block, Owned(b), ~Prepared(b) PROVE b \notin Pending
  <2>1. freeListRefs[b] = References(b) /\ freeListRefs[b] < SHOULD_BE_ON_FREELIST
        BY <1>1, <1>3, ReferencesAreFew DEF CountOK
  <2>2. ~ShouldBeOnFreeList(b)
        BY <2>1, <1>1, ReferencesAreFew DEF ShouldBeOnFreeList
  <2>3. QED
        BY <2>2 DEF Pending
<1>4. ASSUME NEW t \in Thread, NEW u \in Thread, t # u
      PROVE  (held[t] \cup InHand(t)) \cap (held[u] \cup InHand(u)) = {}
      BY <1>1, <1>2, <1>4 DEF OneOwner
<1>5. ASSUME NEW t \in Thread, NEW b \in held[t] PROVE b \notin OnList \cup Pending \cup InHand(t)
  <2>1. b \in Block /\ Has(t, b) /\ OneOwner(b) /\ Owned(b)
        BY <1>1, <1>2 DEF Owned
  <2>2. b \notin OnList /\ b \notin InHand(t)
        BY <2>1, <1>2 DEF OneOwner
  <2>3. ~Prepared(b)
        BY <2>1 DEF OneOwner, Prepared, Prepares, Has, Adds, AddLabel
  <2>4. QED
        BY <2>1, <2>2, <2>3, <1>3
<1>6. ASSUME NEW b \in Existing
      PROVE  \/ b \in OnList \cup Pending
             \/ \E t \in Thread : b \in held[t] \cup InHand(t)
             \/ \E t \in Thread : pc[t] = "addBack" /\ node[t] = b
  <2>1. b \in Block
        BY <1>1 DEF Existing
  <2>2. CASE Owned(b)
        BY <2>2 DEF Owned, Has, Takes, Adds, InHand, AddLabel
  <2>3. CASE ~Owned(b)
    <3>1. freeListRefs[b] = SHOULD_BE_ON_FREELIST + Cardinality(Referring(b)) /\ Referring(b) # {}
          BY <2>1, <2>3, <1>1 DEF CountOK
    <3>2. ShouldBeOnFreeList(b)
          BY <2>1, <3>1, ReferencesAreFew DEF ShouldBeOnFreeList
    <3>3. QED
          BY <2>1, <3>1, <3>2 DEF Pending, Referring
  <2>4. QED
        BY <2>2, <2>3
<1>7. QED
      BY <1>4, <1>5, <1>6 DEF BlocksAccountedFor

LEMMA InvIsExact == ASSUME ConstantsOK, PoolIInv PROVE CountsAreExact
<1> SUFFICES ASSUME NEW b \in Block
             PROVE  /\ RefCount(freeListRefs[b]) = References(b)
                    /\ (\E t \in Thread : Takes(t, b)) => ~ShouldBeOnFreeList(b)
    BY DEF CountsAreExact, References, Referring, Takes, Links
<1>1. OneOwner(b) /\ CountOK(b)
      BY DEF PoolIInv
<1>2. /\ Cardinality(Referring(b)) \in Nat /\ References(b) \in Nat
      /\ References(b) < SHOULD_BE_ON_FREELIST /\ SHOULD_BE_ON_FREELIST \in Nat
      /\ Cardinality(Referring(b)) < SHOULD_BE_ON_FREELIST
      /\ Referring(b) = {} <=> Cardinality(Referring(b)) = 0
      BY ReferencesAreFew
<1>3. CASE Prepared(b)
  <2>1. PICK t \in Thread : Prepares(t, b)
        BY <1>3 DEF Prepared
  <2>2. Has(t, b) /\ ~Takes(t, b) /\ ~Links(t, b)
        BY <2>1 DEF Prepares, Has, Adds, Takes, Links, AddLabel
  <2>3. b \notin OnList /\ \A u \in Thread : ~Takes(u, b) /\ ~Links(u, b)
        BY <2>2, <1>1 DEF OneOwner, Has, Adds, Links, AddLabel
  <2>4. References(b) = Cardinality(Referring(b)) + 0
        BY <2>3 DEF References
  <2>5. freeListRefs[b] = SHOULD_BE_ON_FREELIST + 0 /\ References(b) = 0
        BY <2>4, <1>1, <1>2, <1>3 DEF CountOK
  <2>6. RefCount(SHOULD_BE_ON_FREELIST + 0) = 0
        BY <1>2, FlagAndCount DEF RefCount
  <2>7. QED
        BY <2>3, <2>5, <2>6
<1>4. CASE ~Prepared(b) /\ (Owned(b) \/ b \notin Existing)
  <2>1. freeListRefs[b] = References(b)
        BY <1>1, <1>4 DEF CountOK
  <2>2. RefCount(freeListRefs[b]) = References(b)
        BY <2>1, <1>2, FlagAndCount DEF RefCount
  <2>3. ~ShouldBeOnFreeList(b)
        BY <2>1, <1>2 DEF ShouldBeOnFreeList
  <2>4. QED
        BY <2>2, <2>3
<1>5. CASE ~Owned(b) /\ b \in Existing
  <2>1. freeListRefs[b] = SHOULD_BE_ON_FREELIST + Cardinality(Referring(b))
        BY <1>1, <1>5 DEF CountOK
  <2>2. b \notin OnList /\ \A u \in Thread : ~Takes(u, b) /\ ~Links(u, b)
        BY <1>5 DEF Owned, Has, Adds, Links, AddLabel
  <2>3. References(b) = Cardinality(Referring(b)) + 0
        BY <2>2 DEF References
  <2>4. RefCount(freeListRefs[b]) = References(b)
        BY <2>1, <2>3, <1>2, FlagAndCount DEF RefCount
  <2>5. QED
        BY <2>2, <2>4
<1>6. QED
      BY <1>3, <1>4, <1>5

\* Every block is in one place and none is lost; the reference counts are
\* exact, so that a block taken off the list is one that nobody wants to put
\* there: for any number of threads (FreeList::add, try_get and
\* add_knowing_refcount_is_zero, in any order).
THEOREM BlocksAreSafe ==
    ASSUME ConstantsOK
    PROVE  Spec => [](TypeOK /\ BlocksAccountedFor /\ CountsAreExact)
<1>1. PoolIInv => TypeOK /\ BlocksAccountedFor /\ CountsAreExact
      BY InvIsAccounted, InvIsExact DEF PoolIInv
<1>2. Spec => []PoolIInv
      BY PoolAlways
<1>3. QED
      BY <1>1, <1>2, PTL

\* To its users the pool of blocks is an allocator: a block is handed out only
\* while nobody holds it, and given up only by who holds it.
THEOREM PoolImplementsAllocator ==
    ASSUME ConstantsOK
    PROVE  Spec => Allocator!Spec
<1>1. Init => Allocator!Init
      BY DEF Init, Allocator!Init
<1>2. PoolIInv /\ [Next]_vars => [Allocator!Next]_held
  <2>1. ASSUME PoolIInv, Next, held' # held PROVE Allocator!Next
    <3>1. /\ TypeOK /\ created \cap (0 .. initialBlockPoolSize - 1) = {}
          /\ 0 .. initialBlockPoolSize - 1 \subseteq Block
          /\ \A b \in Block : OneOwner(b) /\ CountOK(b)
          BY <2>1 DEF PoolIInv, ConstantsOK
    <3>2. PICK t \in Thread : Call(t) \/ Step(t)
          BY <2>1 DEF Next
    <3>3. ASSUME NEW b \in Block, ReturnBlock(t, b), \A u \in Thread : b \notin held[u]
          PROVE  Allocator!Next
          BY <3>3 DEF ReturnBlock, Allocator!Next, Allocator!Acquire, Allocator!Held
    <3>4. CASE FetchInitialIndex(t)
      <4>1. initialBlockPoolIndex < initialBlockPoolSize /\ ReturnBlock(t, initialBlockPoolIndex)
            BY <2>1, <3>4 DEF FetchInitialIndex
      <4>2. initialBlockPoolIndex \in Block /\ initialBlockPoolIndex \notin Existing
            BY <3>1, <4>1 DEF TypeOK, Existing, ConstantsOK
      <4>3. \A u \in Thread : initialBlockPoolIndex \notin held[u]
            BY <3>1, <4>2 DEF OneOwner, Owned, Has
      <4>4. QED
            BY <3>3, <4>1, <4>2, <4>3
    <3>5. ASSUME NEW b \in Block, Create(t, b) PROVE Allocator!Next
      <4>1. ReturnBlock(t, b) /\ b \notin Existing
            BY <3>5 DEF Create, Existing
      <4>2. \A u \in Thread : b \notin held[u]
            BY <3>1, <4>1 DEF OneOwner, Owned, Has
      <4>3. QED
            BY <3>3, <4>1, <4>2
    <3>6. CASE SubTwo(t)
      <4>1. PICK b : b = head[t] /\ ReturnBlock(t, b) /\ pc[t] = "subTwo"
            BY <3>6 DEF SubTwo
      <4>2. b \in Block /\ Takes(t, b)
            BY <4>1, <2>1 DEF PoolIInv, LocalsOK, Takes
      <4>3. \A u \in Thread : b \notin held[u]
            BY <3>1, <4>2 DEF OneOwner, Has
      <4>4. QED
            BY <3>3, <4>1, <4>2, <4>3
    <3>7. ASSUME NEW b \in Block, AddBlockToFreeList(t, b) PROVE Allocator!Next
          BY <3>7 DEF AddBlockToFreeList, Allocator!Next, Allocator!Release
    <3>8. QED
          BY <2>1, <3>2, <3>4, <3>5, <3>6, <3>7
          DEF Call, Step, Requisition, LoadInitialIndex, CreateFails, LoadHead, LoadRefs, CasRefs,
              LoadNext, CasHead, SubOne, AddFlag, ReadHead, SetNext, SetRefs, Link, AddBack, shared
  <2>2. UNCHANGED vars => UNCHANGED held
        BY DEF vars
  <2>3. QED
        BY <2>1, <2>2
<1>3. Spec => []PoolIInv
      BY PoolAlways
<1>4. QED
      BY <1>1, <1>2, <1>3, PTL DEF Spec, Allocator!Spec
=============================================================================

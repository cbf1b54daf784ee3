--------------------------- MODULE DebugInterpFrame ---------------------------
(***************************************************************************)
(* The stack frame of a function in debug-interp mode:                     *)
(* AstFunction::PrepareForDebugInterp (pochivm/function_proto.h).          *)
(* One traversal gives each variable, and each rvalue that is bound to a   *)
(* const reference, a place behind the return value.  A variable occurs in *)
(* the tree wherever it is used, a parameter also if it is not used.       *)
(***************************************************************************)
EXTENDS Integers, Sequences, FiniteSets

CONSTANTS Nodes,       \* the nodes of the tree
          Storage,     \* the size of what a node needs in the frame, or 0
          ReturnSizes, \* the sizes of return values, 0 for void
          ParamLists,  \* the parameters of functions
          Bodies       \* the nodes of bodies, in the order of the traversal

ASSUME StorageAssumption == Storage \in [Nodes -> Nat]
ASSUME ReturnSizesAssumption == ReturnSizes \subseteq Nat
\* Parameters are variables.
ASSUME ParamListsAssumption == \A ps \in ParamLists : /\ ps \in Seq(Nodes)
                                                      /\ \A i \in 1 .. Len(ps) : Storage[ps[i]] > 0
ASSUME BodiesAssumption == Bodies \subseteq Seq(Nodes)

VARIABLES returnSize, params, body,
          next,    \* the parameter or node that is looked at next
          pc,      \* "params", "body" or "done"
          colored, \* the nodes that are marked with color A
          offset,  \* of the nodes that have a place
          size     \* of the frame so far; in the end, m_debugInterpStackFrameSize

vars == <<returnSize, params, body, next, pc, colored, offset, size>>

Lesser(m, n) == IF m <= n THEN m ELSE n

\* mutant: the padding is computed from the size of the padding
UpAlignShort(n, align) == IF n % align = 0 THEN n ELSE (n \div align) * align

UpAlign(n, align) == IF n % align = 0 THEN n ELSE (n \div align) * align + align

Init ==
    /\ returnSize \in ReturnSizes
    /\ params \in ParamLists
    /\ body \in Bodies
    /\ next = 1 /\ pc = "params"
    /\ colored = {} /\ offset = << >>
    /\ size = returnSize

\* mutant: places are not aligned
SetUpUnaligned(n) ==
    /\ colored' = colored \cup {n}
    /\ IF Storage[n] = 0
       THEN UNCHANGED <<offset, size>>
       ELSE /\ offset' = [m \in DOMAIN offset \cup {n} |-> IF m = n THEN size ELSE offset[m]]
            /\ size' = size + Storage[n]

\* interpSetupFn: the next place is padded to the alignment min(8, storageSize).
SetUp(n) ==
    /\ colored' = colored \cup {n}
    /\ IF Storage[n] = 0
       THEN UNCHANGED <<offset, size>>
       ELSE LET at == UpAlign(size, Lesser(8, Storage[n]))
            IN  /\ offset' = [m \in DOMAIN offset \cup {n} |-> IF m = n THEN at ELSE offset[m]]
                /\ size' = at + Storage[n]

SetUpParam ==
    /\ pc = "params" /\ next <= Len(params)
    /\ SetUp(params[next])
    /\ next' = next + 1
    /\ UNCHANGED <<returnSize, params, body, pc>>

ParamsAreSetUp ==
    /\ pc = "params" /\ next > Len(params)
    /\ pc' = "body" /\ next' = 1
    /\ UNCHANGED <<returnSize, params, body, colored, offset, size>>

\* traverseFn: a node with color A is not looked at again.
Visit ==
    /\ pc = "body" /\ next <= Len(body)
    /\ IF body[next] \in colored
       THEN UNCHANGED <<colored, offset, size>>
       ELSE SetUp(body[next])
    /\ next' = next + 1
    /\ UNCHANGED <<returnSize, params, body, pc>>

\* mutant: the frame ends where the last place begins to be free, rounded down
FinishRoundingDown ==
    /\ pc = "body" /\ next > Len(body)
    /\ size' = IF size < 8 THEN 8 ELSE (size \div 8) * 8
    /\ pc' = "done"
    /\ UNCHANGED <<returnSize, params, body, next, colored, offset>>

Finish ==
    /\ pc = "body" /\ next > Len(body)
    /\ size' = UpAlign(IF size < 8 THEN 8 ELSE size, 8)
    /\ pc' = "done"
    /\ UNCHANGED <<returnSize, params, body, next, colored, offset>>

Next == SetUpParam \/ ParamsAreSetUp \/ Visit \/ Finish

Spec == Init /\ [][Next]_vars

-----------------------------------------------------------------------------
TypeOK ==
    /\ returnSize \in ReturnSizes /\ params \in ParamLists /\ body \in Bodies
    /\ pc \in {"params", "body", "done"}
    /\ next \in Nat \ {0}
    /\ colored \subseteq Nodes
    /\ DOMAIN offset \subseteq Nodes /\ offset \in [DOMAIN offset -> Nat]
    /\ size \in Nat

\* Writing one variable changes no other one and not the return value, which
\* a return statement stores before the destructors of the scopes it leaves.
PlacesDisjoint ==
    \A n \in DOMAIN offset :
        /\ returnSize <= offset[n]
        /\ \A m \in DOMAIN offset : m # n => \/ offset[m] + Storage[m] <= offset[n]
                                             \/ offset[n] + Storage[n] <= offset[m]

\* The frame that a call allocates is as large as what is stored in it.
FrameCoversPlaces ==
    /\ returnSize <= size
    /\ \A n \in DOMAIN offset : offset[n] + Storage[n] <= size

\* A place has the alignment of its type: C++ makes it a divisor of the size;
\* up to 8 is promised, for a base that is aligned as alloca aligns it.
PlacesAligned ==
    \A n \in DOMAIN offset : \A a \in 1 .. 8 : Storage[n] % a = 0 /\ a \in {1, 2, 4, 8} => offset[n] % a = 0

==============================================================================

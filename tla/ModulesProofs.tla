------------------------------ MODULE ModulesProofs ------------------------------
(***************************************************************************)
(* The parts of MCModules for every value of the constants: the frame of   *)
(* the debug interpreter for any function, whatever nodes of whatever size *)
(* its body repeats in whatever order; the search for a frame size         *)
(* category; the words of function pointers; and, with FIStackFrameProofs  *)
(* and ModuleLifecycleProofs, the frame of FastInterp mode and the modules *)
(* of a thread as the run checks them.                                     *)
(***************************************************************************)
EXTENDS MCModules, TLAPS

-----------------------------------------------------------------------------
(* The frame of the debug interpreter                                      *)

IInv == TypeOK /\ PlacesDisjoint /\ FrameCoversPlaces

\* Padding moves up, to a multiple.
LEMMA PaddingGrows ==
    ASSUME NEW n \in Nat, NEW align \in 1 .. 8
    PROVE  /\ UpAlign(n, align) \in Nat
           /\ UpAlign(n, align) >= n
           /\ UpAlign(n, align) % align = 0
<1>1. CASE align = 1
      BY <1>1, Z3 DEF UpAlign
<1>2. CASE align = 2
      BY <1>2, Z3 DEF UpAlign
<1>3. CASE align = 3
      BY <1>3, Z3 DEF UpAlign
<1>4. CASE align = 4
      BY <1>4, Z3 DEF UpAlign
<1>5. CASE align = 5
      BY <1>5, Z3 DEF UpAlign
<1>6. CASE align = 6
      BY <1>6, Z3 DEF UpAlign
<1>7. CASE align = 7
      BY <1>7, Z3 DEF UpAlign
<1>8. CASE align = 8
      BY <1>8, Z3 DEF UpAlign
<1>9. QED
      BY <1>1, <1>2, <1>3, <1>4, <1>5, <1>6, <1>7, <1>8

\* A place is padded to at least 1 and at most 8.
LEMMA AlignmentInRange ==
    ASSUME NEW n \in Nat, n > 0
    PROVE  Lesser(8, n) \in 1 .. 8
  BY DEF Lesser

\* At the beginning there is only the return value.
LEMMA InitIInv == Init => IInv
<1> SUFFICES ASSUME Init PROVE IInv
    OBVIOUS
<1>1. returnSize \in Nat /\ DOMAIN offset = {} /\ size = returnSize
      BY ReturnSizesAssumption DEF Init
<1>2. TypeOK
      BY <1>1 DEF Init, TypeOK
<1>3. QED
      BY <1>1, <1>2 DEF IInv, PlacesDisjoint, FrameCoversPlaces

\* Setting a node up keeps the places apart: the new one begins behind all
\* others, whatever the node.
LEMMA SetUpKeepsPlaces ==
    ASSUME IInv, NEW n \in Nodes, SetUp(n),
           UNCHANGED returnSize
    PROVE  /\ colored' \subseteq Nodes
           /\ DOMAIN offset' \subseteq Nodes /\ offset' \in [DOMAIN offset' -> Nat]
           /\ size' \in Nat
           /\ PlacesDisjoint'
           /\ FrameCoversPlaces'
<1> USE StorageAssumption, ReturnSizesAssumption
<1>1. CASE Storage[n] = 0
      BY <1>1 DEF SetUp, IInv, TypeOK, PlacesDisjoint, FrameCoversPlaces
<1>2. CASE Storage[n] # 0
  <2> DEFINE at == UpAlign(size, Lesser(8, Storage[n]))
  <2>1. Storage[n] \in Nat /\ Storage[n] > 0 /\ size \in Nat /\ returnSize \in Nat
        BY <1>2 DEF IInv, TypeOK
  <2>2. at \in Nat /\ at >= size
        BY <2>1, AlignmentInRange, PaddingGrows
  <2>3. /\ offset' = [m \in DOMAIN offset \cup {n} |-> IF m = n THEN at ELSE offset[m]]
        /\ size' = at + Storage[n]
        /\ colored' = colored \cup {n}
        BY <1>2 DEF SetUp
  <2> HIDE DEF at
  <2>4. DOMAIN offset' = DOMAIN offset \cup {n}
        BY <2>3
  <2>5. \A m \in DOMAIN offset : /\ offset[m] \in Nat /\ m \in Nodes /\ Storage[m] \in Nat
                                 /\ offset[m] + Storage[m] <= size
        BY DEF IInv, TypeOK, FrameCoversPlaces
  <2>6. offset'[n] = at /\ \A m \in DOMAIN offset : m # n => offset'[m] = offset[m]
        BY <2>3
  <2>7. colored' \subseteq Nodes /\ DOMAIN offset' \subseteq Nodes /\ size' \in Nat
        BY <2>1, <2>2, <2>3, <2>4 DEF IInv, TypeOK
  <2>8. offset' \in [DOMAIN offset' -> Nat]
        BY <2>2, <2>3, <2>4, <2>5
  <2>9. FrameCoversPlaces'
    <3>1. returnSize' <= size'
          BY <2>1, <2>2, <2>3 DEF IInv, FrameCoversPlaces
    <3>2. ASSUME NEW m \in DOMAIN offset' PROVE offset'[m] + Storage[m] <= size'
      <4>1. CASE m = n
            BY <4>1, <2>1, <2>2, <2>3, <2>6
      <4>2. CASE m # n
        <5>1. m \in DOMAIN offset /\ offset'[m] = offset[m]
              BY <4>2, <2>4, <2>6
        <5>2. QED
              BY <5>1, <2>1, <2>2, <2>3, <2>5
      <4>3. QED
            BY <4>1, <4>2
    <3>3. QED
          BY <3>1, <3>2 DEF FrameCoversPlaces
  <2>10. PlacesDisjoint'
    <3>1. ASSUME NEW k \in DOMAIN offset' PROVE returnSize' <= offset'[k]
      <4>1. CASE k = n
            BY <4>1, <2>1, <2>2, <2>6 DEF IInv, FrameCoversPlaces
      <4>2. CASE k # n
            BY <4>2, <2>4, <2>6 DEF IInv, PlacesDisjoint
      <4>3. QED
            BY <4>1, <4>2
    <3>2. ASSUME NEW k \in DOMAIN offset', NEW m \in DOMAIN offset', m # k
          PROVE  \/ offset'[m] + Storage[m] <= offset'[k]
                 \/ offset'[k] + Storage[k] <= offset'[m]
      <4>1. CASE k = n
        <5>1. m \in DOMAIN offset /\ offset'[m] = offset[m]
              BY <3>2, <4>1, <2>4, <2>6
        <5>2. QED
              BY <5>1, <4>1, <2>1, <2>2, <2>5, <2>6
      <4>2. CASE m = n
        <5>1. k \in DOMAIN offset /\ offset'[k] = offset[k]
              BY <3>2, <4>2, <2>4, <2>6
        <5>2. QED
              BY <5>1, <4>2, <2>1, <2>2, <2>5, <2>6
      <4>3. CASE k # n /\ m # n
        <5>1. /\ k \in DOMAIN offset /\ offset'[k] = offset[k]
              /\ m \in DOMAIN offset /\ offset'[m] = offset[m]
              BY <4>3, <2>4, <2>6
        <5>2. QED
              BY <5>1, <3>2 DEF IInv, PlacesDisjoint
      <4>4. QED
            BY <4>1, <4>2, <4>3
    <3>3. QED
          BY <3>1, <3>2 DEF PlacesDisjoint
  <2>11. QED
         BY <2>7, <2>8, <2>9, <2>10
<1>3. QED
      BY <1>1, <1>2

\* A multiple of the padding is a multiple of every alignment that divides
\* the size.
LEMMA PaddingAligns ==
    ASSUME NEW s \in Nat, s > 0, NEW b \in {1, 2, 4, 8}, s % b = 0,
           NEW x \in Nat, x % Lesser(8, s) = 0
    PROVE  x % b = 0
<1>1. CASE s > 7
  <2>1. x % 8 = 0
        BY <1>1 DEF Lesser
  <2>2. QED
        BY <2>1
<1>2. CASE s \in 1 .. 7
  <2>1. x % s = 0
        BY <1>2 DEF Lesser
  <2>2. CASE b = 1
        BY <2>2
  <2>3. CASE b = 2
    <3>1. s = 2 \/ s = 4 \/ s = 6
          BY <1>2, <2>3
    <3>2. QED
          BY <2>1, <2>3, <3>1
  <2>4. CASE b = 4
    <3>1. s = 4
          BY <1>2, <2>4
    <3>2. QED
          BY <2>1, <2>4, <3>1
  <2>5. CASE b = 8
        BY <1>2, <2>5
  <2>6. QED
        BY <2>2, <2>3, <2>4, <2>5
<1>3. QED
      BY <1>1, <1>2

\* A place is aligned when it is given.
LEMMA SetUpKeepsAlignment ==
    ASSUME IInv, PlacesAligned, NEW n \in Nodes, SetUp(n)
    PROVE  PlacesAligned'
<1> USE StorageAssumption
<1>1. CASE Storage[n] = 0
      BY <1>1 DEF SetUp, PlacesAligned
<1>2. CASE Storage[n] # 0
  <2> DEFINE at == UpAlign(size, Lesser(8, Storage[n]))
  <2>1. Storage[n] \in Nat /\ Storage[n] > 0 /\ size \in Nat
        BY <1>2 DEF IInv, TypeOK
  <2>2. at \in Nat /\ at % Lesser(8, Storage[n]) = 0
        BY <2>1, AlignmentInRange, PaddingGrows
  <2>3. offset' = [m \in DOMAIN offset \cup {n} |-> IF m = n THEN at ELSE offset[m]]
        BY <1>2 DEF SetUp
  <2> HIDE DEF at
  <2>4. ASSUME NEW m \in DOMAIN offset', NEW a \in 1 .. 8, Storage[m] % a = 0, a \in {1, 2, 4, 8}
        PROVE  offset'[m] % a = 0
    <3>1. CASE m = n
      <4>1. offset'[m] = at
            BY <3>1, <2>3
      <4>2. QED
            BY <4>1, <3>1, <2>1, <2>2, <2>4, PaddingAligns
    <3>2. CASE m # n
      <4>1. m \in DOMAIN offset /\ offset'[m] = offset[m]
            BY <3>2, <2>3
      <4>2. QED
            BY <4>1, <2>4 DEF PlacesAligned
    <3>3. QED
          BY <3>1, <3>2
  <2>5. QED
        BY <2>4 DEF PlacesAligned
<1>3. QED
      BY <1>1, <1>2

\* Every step keeps the invariant.
LEMMA StepIInv == IInv /\ [Next]_vars => IInv'
<1> SUFFICES ASSUME IInv, [Next]_vars PROVE IInv'
    OBVIOUS
<1> USE StorageAssumption
<1>1. CASE SetUpParam
  <2>1. params[next] \in Nodes /\ SetUp(params[next]) /\ UNCHANGED returnSize
        BY <1>1, ParamListsAssumption DEF SetUpParam, IInv, TypeOK
  <2>2. QED
        BY <2>1, <1>1, SetUpKeepsPlaces DEF SetUpParam, IInv, TypeOK
<1>2. CASE ParamsAreSetUp
      BY <1>2 DEF ParamsAreSetUp, IInv, TypeOK, PlacesDisjoint, FrameCoversPlaces
<1>3. CASE Visit
  <2>1. body[next] \in Nodes
        BY <1>3, BodiesAssumption DEF Visit, IInv, TypeOK
  <2>2. CASE body[next] \in colored
        BY <1>3, <2>2 DEF Visit, IInv, TypeOK, PlacesDisjoint, FrameCoversPlaces
  <2>3. CASE body[next] \notin colored
    <3>1. SetUp(body[next]) /\ UNCHANGED returnSize
          BY <1>3, <2>3 DEF Visit
    <3>2. QED
          BY <3>1, <2>1, <1>3, SetUpKeepsPlaces DEF Visit, IInv, TypeOK
  <2>4. QED
        BY <2>2, <2>3
<1>4. CASE Finish
  <2> DEFINE atLeast == IF size < 8 THEN 8 ELSE size
  <2>1. size \in Nat /\ atLeast \in Nat /\ atLeast >= size
        BY DEF IInv, TypeOK
  <2>2. size' = UpAlign(atLeast, 8)
        BY <1>4 DEF Finish
  <2> HIDE DEF atLeast
  <2>3. size' \in Nat /\ size' >= size
        BY <2>1, <2>2, PaddingGrows
  <2>4. /\ UNCHANGED <<returnSize, params, body, next, colored, offset>>
        /\ pc' = "done"
        BY <1>4 DEF Finish
  <2>5. TypeOK' /\ PlacesDisjoint'
        BY <2>3, <2>4 DEF IInv, TypeOK, PlacesDisjoint
  <2>6. FrameCoversPlaces'
    <3>1. returnSize \in Nat /\ returnSize <= size
          BY ReturnSizesAssumption DEF IInv, TypeOK, FrameCoversPlaces
    <3>2. \A n \in DOMAIN offset : /\ offset[n] \in Nat /\ Storage[n] \in Nat
                                   /\ offset[n] + Storage[n] <= size
          BY DEF IInv, TypeOK, FrameCoversPlaces
    <3>3. QED
          BY <3>1, <3>2, <2>1, <2>3, <2>4 DEF FrameCoversPlaces
  <2>7. QED
        BY <2>5, <2>6 DEF IInv
<1>5. CASE UNCHANGED vars
      BY <1>5 DEF vars, IInv, TypeOK, PlacesDisjoint, FrameCoversPlaces
<1>6. QED
      BY <1>1, <1>2, <1>3, <1>4, <1>5 DEF Next

\* No two variables, and no variable and the return value, share a byte.
THEOREM Disjoint == Spec => []PlacesDisjoint
<1>1. IInv => PlacesDisjoint
      BY DEF IInv
<1>2. QED
      BY InitIInv, StepIInv, <1>1, PTL DEF Spec

\* Nothing is stored behind the frame.
THEOREM Covered == Spec => []FrameCoversPlaces
<1>1. IInv => FrameCoversPlaces
      BY DEF IInv
<1>2. QED
      BY InitIInv, StepIInv, <1>1, PTL DEF Spec

\* Every place has the alignment of its type.
THEOREM Aligned == Spec => []PlacesAligned
<1>1. Init => IInv /\ PlacesAligned
      BY InitIInv DEF Init, PlacesAligned
<1>2. IInv /\ PlacesAligned /\ [Next]_vars => (IInv /\ PlacesAligned)'
  <2> SUFFICES ASSUME IInv, PlacesAligned, [Next]_vars PROVE IInv' /\ PlacesAligned'
      OBVIOUS
  <2>1. IInv'
        BY StepIInv
  <2>2. CASE SetUpParam
    <3>1. params[next] \in Nodes /\ SetUp(params[next])
          BY <2>2, ParamListsAssumption DEF SetUpParam, IInv, TypeOK
    <3>2. QED
          BY <2>1, <3>1, SetUpKeepsAlignment
  <2>3. CASE ParamsAreSetUp
        BY <2>1, <2>3 DEF ParamsAreSetUp, PlacesAligned
  <2>4. CASE Visit
    <3>1. body[next] \in Nodes
          BY <2>4, BodiesAssumption DEF Visit, IInv, TypeOK
    <3>2. CASE body[next] \in colored
          BY <2>1, <2>4, <3>2 DEF Visit, PlacesAligned
    <3>3. CASE body[next] \notin colored
      <4>1. SetUp(body[next])
            BY <2>4, <3>3 DEF Visit
      <4>2. QED
            BY <4>1, <2>1, <3>1, SetUpKeepsAlignment
    <3>4. QED
          BY <3>2, <3>3
  <2>5. CASE Finish
        BY <2>1, <2>5 DEF Finish, PlacesAligned
  <2>6. CASE UNCHANGED vars
        BY <2>1, <2>6 DEF vars, PlacesAligned
  <2>7. QED
        BY <2>2, <2>3, <2>4, <2>5, <2>6 DEF Next
<1>3. QED
      BY <1>1, <1>2, PTL DEF Spec

-----------------------------------------------------------------------------
(* The frame of FastInterp mode                                            *)

SuiteFrameInv == part = "fast" => Fast!FrameIInv

SuiteVars == <<part, vars, fastVars, searchVars, pointerVars, moduleVars>>

\* The frame, whatever the registers, the layouts and the order of pushes and
\* pops: no slot is given to two temporaries or lost, no local loses a byte,
\* all of it is covered, the newest are in registers
\* (fastinterp_operand_stack.h).
THEOREM FastFrame == SuiteSpec => []FastFrameIsSound
<1>1. SuiteInit => SuiteFrameInv
      BY FastConstants, Fast!InitFrame DEF SuiteInit, SuiteFrameInv
<1>2. SuiteFrameInv /\ [SuiteNext]_SuiteVars => SuiteFrameInv'
  <2> SUFFICES ASSUME SuiteFrameInv, [SuiteNext]_SuiteVars, part' = "fast" PROVE Fast!FrameIInv'
      BY DEF SuiteFrameInv
  <2>1. part = "fast" /\ (Fast!Next \/ UNCHANGED fastVars)
        BY DEF SuiteNext, SuiteVars, DebugStep, FastStep, CategoriesStep, PointersStep, ModulesStep
  <2>2. [Fast!Next]_Fast!vars
        BY <2>1 DEF fastVars, Fast!vars
  <2>3. QED
        BY <2>1, <2>2, FastConstants, Fast!StepFrame DEF SuiteFrameInv
<1>3. SuiteFrameInv => FastFrameIsSound
      BY FastConstants, Fast!FrameIsTyped, Fast!FrameSlots, Fast!FrameBytes, Fast!FrameRegisters
         DEF SuiteFrameInv, FastFrameIsSound
<1>4. QED
      BY <1>1, <1>2, <1>3, PTL DEF SuiteSpec, SuiteVars

-----------------------------------------------------------------------------
(* The search is correct for every list of increasing sizes, of any length *)

SearchIInv == SearchTypeOK /\ AnswerIsBetween

\* The middle of two different bounds lies below the upper one.
LEMMA MiddleIsBelow ==
    ASSUME NEW a \in Nat, NEW b \in Nat, a < b
    PROVE  /\ (a + b) \div 2 \in Nat
           /\ a <= (a + b) \div 2
           /\ (a + b) \div 2 < b
  OBVIOUS

\* At the beginning the largest category is large enough.
LEMMA SearchInitIInv == SearchInit => SearchIInv
  BY NumCategoriesAssumption, SizesAssumption, FrameSizesAssumption
     DEF SearchInit, SearchIInv, SearchTypeOK, AnswerIsBetween

\* A round keeps the answer between the bounds.
LEMMA SearchStepIInv == SearchIInv /\ [SearchNext]_searchVars => SearchIInv'
<1> SUFFICES ASSUME SearchIInv, [SearchNext]_searchVars PROVE SearchIInv'
    OBVIOUS
<1> USE NumCategoriesAssumption, SizesAssumption, FrameSizesAssumption
<1>1. CASE Halve
  <2>1. l \in Nat /\ r \in Nat /\ l < r
        BY <1>1 DEF SearchIInv, SearchTypeOK, AnswerIsBetween, Halve
  <2>2. Mid \in Nat /\ l <= Mid /\ Mid < r
        BY <2>1, MiddleIsBelow DEF Mid
  <2>3. Mid \in 0 .. NumCategories - 1 /\ Mid + 1 \in 0 .. NumCategories - 1
        BY <2>2 DEF SearchIInv, SearchTypeOK
  <2>4. neededSize \in Nat /\ \A i \in 0 .. NumCategories - 1 : Sizes[i] \in Nat
        BY DEF SearchIInv, SearchTypeOK
  <2>5. CASE Sizes[Mid] >= neededSize
    <3>1. r' = Mid /\ l' = l /\ neededSize' = neededSize
          BY <1>1, <2>5 DEF Halve
    <3>2. QED
          BY <3>1, <2>2, <2>3, <2>4, <2>5 DEF SearchIInv, SearchTypeOK, AnswerIsBetween
  <2>6. CASE ~(Sizes[Mid] >= neededSize)
    <3>1. l' = Mid + 1 /\ r' = r /\ neededSize' = neededSize
          BY <1>1, <2>6 DEF Halve
    <3>2. \A i \in 0 .. Mid : Sizes[i] < neededSize
      <4>1. SUFFICES ASSUME NEW i \in 0 .. Mid PROVE Sizes[i] < neededSize
            OBVIOUS
      <4>2. i \in 0 .. NumCategories - 1 /\ Sizes[i] <= Sizes[Mid]
            BY <2>2, <2>3, <2>4
      <4>3. QED
            BY <4>2, <2>3, <2>4, <2>6
    <3>3. 0 .. l' - 1 = 0 .. Mid
          BY <3>1, <2>2
    <3>4. QED
          BY <3>1, <3>2, <3>3, <2>2, <2>3, <2>4 DEF SearchIInv, SearchTypeOK, AnswerIsBetween
  <2>7. QED
        BY <2>5, <2>6
<1>2. CASE UNCHANGED searchVars
      BY <1>2 DEF searchVars, SearchIInv, SearchTypeOK, AnswerIsBetween
<1>3. QED
      BY <1>1, <1>2 DEF SearchNext

\* SelectCategory never loses the category that it looks for, whatever the
\* list of sizes, as long as it increases.
THEOREM SearchCorrect == SearchSpec => []AnswerIsBetween
<1>1. SearchIInv => AnswerIsBetween
      BY DEF SearchIInv
<1>2. QED
      BY SearchInitIInv, SearchStepIInv, <1>1, PTL DEF SearchSpec

\* What the search returns: the first category in which the frame fits.
THEOREM FirstThatFits == SearchSpec => [](l = r => /\ Sizes[r] >= neededSize
                                             /\ \A i \in 0 .. r - 1 : Sizes[i] < neededSize)
<1>1. SearchIInv => (l = r => /\ Sizes[r] >= neededSize
                        /\ \A i \in 0 .. r - 1 : Sizes[i] < neededSize)
      BY DEF SearchIInv, AnswerIsBetween
<1>2. QED
      BY SearchInitIInv, SearchStepIInv, <1>1, PTL DEF SearchSpec

-----------------------------------------------------------------------------
(* Pointers to generated functions *)

\* The number that is read from the field of the category is the one that was
\* written: the fold over its bits is the one solution of its equation.
LEMMA CategoryIsRead ==
    ASSUME NEW n \in 0 .. 2 ^ Pointers!CategoryBits - 1, NEW bits,
           \A i \in 0 .. 12 : (48 + i \in bits) <=> ((n \div 2 ^ i) % 2 = 1)
    PROVE  Pointers!Field(bits, 48, Pointers!CategoryBits) = n
<1> DEFINE Round(f) == [i \in 0 .. 13 |-> IF i = 0 THEN 0
                           ELSE f[i - 1] + (IF 48 + i - 1 \in bits THEN 2 ^ (i - 1) ELSE 0)]
           value == CHOOSE f : f = Round(f)
           read == [i \in 0 .. 13 |-> n % 2 ^ i]
<1>1. n \in Nat /\ n < 8192 /\ Pointers!CategoryBits = 13
      BY DEF Pointers!CategoryBits
<1>2. \A i \in 1 .. 13 : n % 2 ^ i = (n % 2 ^ (i - 1))
                             + (IF (n \div 2 ^ (i - 1)) % 2 = 1 THEN 2 ^ (i - 1) ELSE 0)
  <2>1. n % 2 ^ 1 = (n % 2 ^ 0) + (IF (n \div 2 ^ 0) % 2 = 1 THEN 2 ^ 0 ELSE 0)
        BY <1>1, Z3
  <2>2. n % 2 ^ 2 = (n % 2 ^ 1) + (IF (n \div 2 ^ 1) % 2 = 1 THEN 2 ^ 1 ELSE 0)
        BY <1>1, Z3
  <2>3. n % 2 ^ 3 = (n % 2 ^ 2) + (IF (n \div 2 ^ 2) % 2 = 1 THEN 2 ^ 2 ELSE 0)
        BY <1>1, Z3
  <2>4. n % 2 ^ 4 = (n % 2 ^ 3) + (IF (n \div 2 ^ 3) % 2 = 1 THEN 2 ^ 3 ELSE 0)
        BY <1>1, Z3
  <2>5. n % 2 ^ 5 = (n % 2 ^ 4) + (IF (n \div 2 ^ 4) % 2 = 1 THEN 2 ^ 4 ELSE 0)
        BY <1>1, Z3
  <2>6. n % 2 ^ 6 = (n % 2 ^ 5) + (IF (n \div 2 ^ 5) % 2 = 1 THEN 2 ^ 5 ELSE 0)
        BY <1>1, Z3
  <2>7. n % 2 ^ 7 = (n % 2 ^ 6) + (IF (n \div 2 ^ 6) % 2 = 1 THEN 2 ^ 6 ELSE 0)
        BY <1>1, Z3
  <2>8. n % 2 ^ 8 = (n % 2 ^ 7) + (IF (n \div 2 ^ 7) % 2 = 1 THEN 2 ^ 7 ELSE 0)
        BY <1>1, Z3
  <2>9. n % 2 ^ 9 = (n % 2 ^ 8) + (IF (n \div 2 ^ 8) % 2 = 1 THEN 2 ^ 8 ELSE 0)
        BY <1>1, Z3
  <2>10. n % 2 ^ 10 = (n % 2 ^ 9) + (IF (n \div 2 ^ 9) % 2 = 1 THEN 2 ^ 9 ELSE 0)
        BY <1>1, Z3
  <2>11. n % 2 ^ 11 = (n % 2 ^ 10) + (IF (n \div 2 ^ 10) % 2 = 1 THEN 2 ^ 10 ELSE 0)
        BY <1>1, Z3
  <2>12. n % 2 ^ 12 = (n % 2 ^ 11) + (IF (n \div 2 ^ 11) % 2 = 1 THEN 2 ^ 11 ELSE 0)
        BY <1>1, Z3
  <2>13. n % 2 ^ 13 = (n % 2 ^ 12) + (IF (n \div 2 ^ 12) % 2 = 1 THEN 2 ^ 12 ELSE 0)
        BY <1>1, Z3
  <2>14. SUFFICES ASSUME NEW i \in 1 .. 13
                  PROVE  n % 2 ^ i = (n % 2 ^ (i - 1))
                             + (IF (n \div 2 ^ (i - 1)) % 2 = 1 THEN 2 ^ (i - 1) ELSE 0)
         OBVIOUS
  <2>15. \/ i = 1 \/ i = 2 \/ i = 3 \/ i = 4 \/ i = 5 \/ i = 6 \/ i = 7
         \/ i = 8 \/ i = 9 \/ i = 10 \/ i = 11 \/ i = 12 \/ i = 13
         OBVIOUS
  <2>21. CASE i = 1
        BY <2>21, <2>1, 1 - 1 = 0
  <2>22. CASE i = 2
        BY <2>22, <2>2, 2 - 1 = 1
  <2>23. CASE i = 3
        BY <2>23, <2>3, 3 - 1 = 2
  <2>24. CASE i = 4
        BY <2>24, <2>4, 4 - 1 = 3
  <2>25. CASE i = 5
        BY <2>25, <2>5, 5 - 1 = 4
  <2>26. CASE i = 6
        BY <2>26, <2>6, 6 - 1 = 5
  <2>27. CASE i = 7
        BY <2>27, <2>7, 7 - 1 = 6
  <2>28. CASE i = 8
        BY <2>28, <2>8, 8 - 1 = 7
  <2>29. CASE i = 9
        BY <2>29, <2>9, 9 - 1 = 8
  <2>30. CASE i = 10
        BY <2>30, <2>10, 10 - 1 = 9
  <2>31. CASE i = 11
        BY <2>31, <2>11, 11 - 1 = 10
  <2>32. CASE i = 12
        BY <2>32, <2>12, 12 - 1 = 11
  <2>33. CASE i = 13
        BY <2>33, <2>13, 13 - 1 = 12
  <2>40. QED
         BY <2>15, <2>21, <2>22, <2>23, <2>24, <2>25, <2>26, <2>27, <2>28, <2>29, <2>30, <2>31, <2>32, <2>33
<1>3. \A i \in 1 .. 13 : (48 + i - 1 \in bits) <=> ((n \div 2 ^ (i - 1)) % 2 = 1)
  <2>1. \A i \in 1 .. 13 : i - 1 \in 0 .. 12 /\ 48 + (i - 1) = 48 + i - 1
        OBVIOUS
  <2>2. QED
        BY <2>1
<1>4. read = Round(read)
  <2>1. SUFFICES ASSUME NEW i \in 0 .. 13 PROVE read[i] = Round(read)[i]
        OBVIOUS
  <2>2. CASE i = 0
        BY <2>2, <1>1
  <2>3. CASE i # 0
    <3>1. i \in 1 .. 13 /\ i - 1 \in 0 .. 13
          BY <2>3
    <3>2. read[i - 1] = n % 2 ^ (i - 1) /\ read[i] = n % 2 ^ i
          BY <3>1
    <3>3. QED
          BY <3>1, <3>2, <1>2, <1>3, <2>3
  <2>4. QED
        BY <2>2, <2>3
<1>5. value = Round(value)
      BY <1>4
<1>6. value[13] = n
  <2> HIDE DEF value
  <2>1. value[0] = 0
        BY <1>5
  <2>2. \A i \in 1 .. 13 : value[i] = value[i - 1] + (IF (n \div 2 ^ (i - 1)) % 2 = 1 THEN 2 ^ (i - 1) ELSE 0)
    <3>1. SUFFICES ASSUME NEW i \in 1 .. 13
          PROVE  value[i] = value[i - 1] + (IF (n \div 2 ^ (i - 1)) % 2 = 1 THEN 2 ^ (i - 1) ELSE 0)
          OBVIOUS
    <3>2. value[i] = value[i - 1] + (IF 48 + i - 1 \in bits THEN 2 ^ (i - 1) ELSE 0)
      <4>1. value[i] = Round(value)[i]
            BY <1>5
      <4>2. i \in 0 .. 13 /\ i # 0
            OBVIOUS
      <4>3. QED
            BY <4>1, <4>2
    <3>3. CASE 48 + i - 1 \in bits
          BY <3>2, <3>3, <1>3
    <3>4. CASE 48 + i - 1 \notin bits
          BY <3>2, <3>4, <1>3
    <3>5. QED
          BY <3>3, <3>4
  <2>3. value[0] = n % 2 ^ 0
        BY <2>1, <1>1
  <2>4. \A i \in 1 .. 13 : value[i - 1] = n % 2 ^ (i - 1) => value[i] = n % 2 ^ i
        BY <2>2, <1>2
  <2>5. value[1] = n % 2 ^ 1
        BY <2>3, <2>4, 1 \in 1 .. 13, 1 - 1 = 0
  <2>6. value[2] = n % 2 ^ 2
        BY <2>5, <2>4, 2 \in 1 .. 13, 2 - 1 = 1
  <2>7. value[3] = n % 2 ^ 3
        BY <2>6, <2>4, 3 \in 1 .. 13, 3 - 1 = 2
  <2>8. value[4] = n % 2 ^ 4
        BY <2>7, <2>4, 4 \in 1 .. 13, 4 - 1 = 3
  <2>9. value[5] = n % 2 ^ 5
        BY <2>8, <2>4, 5 \in 1 .. 13, 5 - 1 = 4
  <2>10. value[6] = n % 2 ^ 6
        BY <2>9, <2>4, 6 \in 1 .. 13, 6 - 1 = 5
  <2>11. value[7] = n % 2 ^ 7
        BY <2>10, <2>4, 7 \in 1 .. 13, 7 - 1 = 6
  <2>12. value[8] = n % 2 ^ 8
        BY <2>11, <2>4, 8 \in 1 .. 13, 8 - 1 = 7
  <2>13. value[9] = n % 2 ^ 9
        BY <2>12, <2>4, 9 \in 1 .. 13, 9 - 1 = 8
  <2>14. value[10] = n % 2 ^ 10
        BY <2>13, <2>4, 10 \in 1 .. 13, 10 - 1 = 9
  <2>15. value[11] = n % 2 ^ 11
        BY <2>14, <2>4, 11 \in 1 .. 13, 11 - 1 = 10
  <2>16. value[12] = n % 2 ^ 12
        BY <2>15, <2>4, 12 \in 1 .. 13, 12 - 1 = 11
  <2>17. value[13] = n % 2 ^ 13
        BY <2>16, <2>4, 13 \in 1 .. 13, 13 - 1 = 12
  <2>18. QED
        BY <2>17, <1>1
<1>7. Pointers!Field(bits, 48, Pointers!CategoryBits) = value[13]
      BY <1>1 DEF Pointers!Field
<1>8. QED
      BY <1>6, <1>7

\* The same for the field of the type.
LEMMA TypeIsRead ==
    ASSUME NEW bits
    PROVE  Pointers!GetType(bits) = (IF 62 \in bits THEN 1 ELSE 0) + (IF 63 \in bits THEN 2 ELSE 0)
<1> DEFINE Round(f) == [i \in 0 .. 2 |-> IF i = 0 THEN 0
                           ELSE f[i - 1] + (IF 62 + i - 1 \in bits THEN 2 ^ (i - 1) ELSE 0)]
           value == CHOOSE f : f = Round(f)
           low == IF 62 \in bits THEN 1 ELSE 0
           high == IF 63 \in bits THEN 2 ELSE 0
           read == [i \in 0 .. 2 |-> IF i = 0 THEN 0 ELSE IF i = 1 THEN low ELSE low + high]
<1>1. read = Round(read)
  <2>1. SUFFICES ASSUME NEW i \in 0 .. 2 PROVE read[i] = Round(read)[i]
        OBVIOUS
  <2>2. CASE i = 0
        BY <2>2
  <2>3. CASE i = 1
        BY <2>3
  <2>4. CASE i = 2
        BY <2>4
  <2>5. QED
        BY <2>2, <2>3, <2>4
<1>2. value = Round(value)
      BY <1>1
<1>3. value[2] = low + high
  <2> HIDE DEF value
  <2>1. value[0] = 0
        BY <1>2
  <2>2. value[1] = Round(value)[1] /\ value[2] = Round(value)[2]
        BY <1>2
  <2>3. value[1] = low
        BY <2>1, <2>2
  <2>4. QED
        BY <2>2, <2>3
<1>4. Pointers!GetType(bits) = value[2]
      BY DEF Pointers!GetType, Pointers!Field
<1>5. QED
      BY <1>3, <1>4

\* What the word of a FastInterp function holds.
LEMMA FastWord ==
    ASSUME Pointers!ConstantsOK, NEW fn \in Pointers!Functions, fn.mode = "fast",
           NEW bits, bits = Pointers!ControlValue(fn)
    PROVE  /\ Pointers!GetType(bits) = 1
           /\ (Pointers!IsNoExcept(bits) <=> fn.noexcept)
           /\ Pointers!GetStackFrameCategory(bits) = CategoryOfSize[fn.frameSize]
           /\ Pointers!GetPointer(bits) = fn.code
           /\ bits \subseteq Pointers!WordBits
<1> DEFINE category == CategoryOfSize[fn.frameSize]
           number == {j \in 0 .. 12 : (category \div 2 ^ j) % 2 = 1}
<1>1. category \in 0 .. 2 ^ Pointers!CategoryBits - 1 /\ fn.code \subseteq 0 .. 46
  <2>1. fn.frameSize \in DOMAIN CategoryOfSize /\ fn.code \in PointerAddresses
        BY DEF Pointers!Functions
  <2>2. Pointers!AddressBits - 2 = 46
        BY DEF Pointers!AddressBits
  <2>3. QED
        BY <2>1, <2>2 DEF Pointers!ConstantsOK
<1>2. bits = Pointers!BitsOf(1, 2, 62) \cup (IF fn.noexcept THEN {61} ELSE {})
                 \cup {48 + i : i \in number} \cup fn.code
      BY DEF Pointers!ControlValue, Pointers!GetControlValueForFastInterpFn, Pointers!BitsOf, Pointers!CategoryBits
<1>3. Pointers!BitsOf(1, 2, 62) = {62}
  <2>1. {j \in 0 .. 2 - 1 : (1 \div 2 ^ j) % 2 = 1} = {0}
    <3>1. (1 \div 2 ^ 0) % 2 = 1 /\ (1 \div 2 ^ 1) % 2 = 0
          OBVIOUS
    <3>2. 0 .. 2 - 1 = {0, 1}
          OBVIOUS
    <3>3. QED
          BY <3>1, <3>2
  <2>2. {62 + i : i \in {0}} = {62}
        OBVIOUS
  <2>3. QED
        BY <2>1, <2>2 DEF Pointers!BitsOf
<1> HIDE DEF category
<1>4. 62 \in bits /\ 63 \notin bits /\ (61 \in bits <=> fn.noexcept)
      BY <1>1, <1>2, <1>3
<1>5. \A i \in 0 .. 12 : (48 + i \in bits) <=> ((category \div 2 ^ i) % 2 = 1)
  <2>1. SUFFICES ASSUME NEW i \in 0 .. 12
                 PROVE  (48 + i \in bits) <=> i \in number
        OBVIOUS
  <2>2. 48 + i \notin fn.code /\ 48 + i \notin {61, 62}
        BY <1>1
  <2>3. (48 + i \in {48 + j : j \in number}) <=> i \in number
        OBVIOUS
  <2>4. QED
        BY <2>2, <2>3, <1>2, <1>3
<1>6. Pointers!GetType(bits) = 1
      BY <1>4, TypeIsRead
<1>7. Pointers!GetStackFrameCategory(bits) = category
      BY <1>1, <1>5, CategoryIsRead DEF Pointers!GetStackFrameCategory
<1>8. bits \cap (0 .. 47) = fn.code /\ bits \subseteq 0 .. 63
      BY <1>1, <1>2, <1>3
<1>9. QED
      BY <1>4, <1>6, <1>7, <1>8 DEF Pointers!IsNoExcept, Pointers!GetPointer, Pointers!AddressBits, Pointers!WordBits, category

\* What the words of other functions hold.
LEMMA OtherWords ==
    ASSUME Pointers!ConstantsOK, NEW fn \in Pointers!Functions, NEW bits, bits = Pointers!ControlValue(fn)
    PROVE  /\ fn.mode = "llvm" => Pointers!GetType(bits) = 0 /\ bits = fn.code
           /\ fn.mode = "debug" => Pointers!GetType(bits) = 2 /\ Pointers!GetPointer(bits) = fn.object
           /\ fn.mode \in {"llvm", "debug"} => bits \subseteq Pointers!WordBits
<1>1. fn.code \subseteq 0 .. 46 /\ fn.object \subseteq 0 .. 46
  <2>1. fn.object \in PointerAddresses /\ fn.code \in PointerAddresses
        BY DEF Pointers!Functions
  <2>2. Pointers!AddressBits - 2 = 46
        BY DEF Pointers!AddressBits
  <2>3. QED
        BY <2>1, <2>2 DEF Pointers!ConstantsOK
<1>2. CASE fn.mode = "llvm"
  <2>1. bits = fn.code
        BY <1>2 DEF Pointers!ControlValue
  <2>2. 62 \notin bits /\ 63 \notin bits
        BY <1>1, <2>1
  <2>3. QED
        BY <1>1, <1>2, <2>1, <2>2, TypeIsRead DEF Pointers!WordBits
<1>3. CASE fn.mode = "debug"
  <2>1. {j \in 0 .. 2 - 1 : (2 \div 2 ^ j) % 2 = 1} = {1}
    <3>1. (2 \div 2 ^ 1) % 2 = 1 /\ (2 \div 2 ^ 0) % 2 = 0
          OBVIOUS
    <3>2. 0 .. 2 - 1 = {0, 1}
          OBVIOUS
    <3>3. QED
          BY <3>1, <3>2
  <2>2. bits = {63} \cup fn.object
        BY <1>3, <2>1 DEF Pointers!ControlValue, Pointers!GetControlValueForDebugInterpFn, Pointers!BitsOf
  <2>3. 62 \notin bits /\ 63 \in bits
        BY <1>1, <2>2
  <2>4. Pointers!GetType(bits) = 2
        BY <2>3, TypeIsRead
  <2>5. bits \cap (0 .. 47) = fn.object /\ bits \subseteq 0 .. 63
        BY <1>1, <2>2
  <2>6. QED
        BY <1>3, <2>4, <2>5 DEF Pointers!GetPointer, Pointers!AddressBits, Pointers!WordBits
<1>4. QED
      BY <1>2, <1>3

\* The word is not written to after it was made.
PointerIInv ==
    /\ Pointers!TypeOK
    /\ word # {} => word = Pointers!ControlValue(target)
    /\ Pointers!ReachesTheFunction /\ Pointers!FrameIsLargeEnough /\ Pointers!ConventionAgrees

LEMMA InitPointer == Pointers!Init => PointerIInv
  BY DEF Pointers!Init, PointerIInv, Pointers!TypeOK, Pointers!ReachesTheFunction, Pointers!FrameIsLargeEnough, Pointers!ConventionAgrees

LEMMA StepPointer ==
    ASSUME Pointers!ConstantsOK, PointerIInv, [Pointers!Next]_Pointers!vars
    PROVE  PointerIInv'
<1>1. target \in Pointers!Functions /\ target.mode \in {"llvm", "fast", "debug"} /\ target.noexcept \in BOOLEAN
      BY DEF PointerIInv, Pointers!TypeOK, Pointers!Functions
<1>2. CASE Pointers!TakeAddress
  <2>1. word' = Pointers!ControlValue(target) /\ UNCHANGED << target, called >>
        BY <1>2 DEF Pointers!TakeAddress
  <2>2. word' \subseteq Pointers!WordBits
        BY <2>1, <1>1, FastWord, OtherWords
  <2>3. QED
        BY <2>1, <2>2 DEF PointerIInv, Pointers!TypeOK, Pointers!ReachesTheFunction, Pointers!FrameIsLargeEnough, Pointers!ConventionAgrees
<1>3. CASE \E asNoexcept \in BOOLEAN : Pointers!Call(asNoexcept)
  <2>1. PICK asNoexcept \in BOOLEAN : Pointers!Call(asNoexcept)
        BY <1>3
  <2>2. /\ word = Pointers!ControlValue(target)
        /\ asNoexcept => target.noexcept
        /\ called' = Pointers!Dispatch(asNoexcept) /\ UNCHANGED << target, word >>
        BY <2>1 DEF Pointers!Call, PointerIInv
  <2>3. Pointers!ReachesTheFunction' /\ Pointers!FrameIsLargeEnough' /\ Pointers!ConventionAgrees'
    <3>1. CASE target.mode = "llvm"
      <4>1. Pointers!GetType(word) = 0 /\ word = target.code
            BY <3>1, <2>2, <1>1, OtherWords
      <4>2. called' = [as |-> "llvm", at |-> word, plain |-> asNoexcept, frame |-> 0]
            BY <4>1, <2>2 DEF Pointers!Dispatch
      <4>3. called'.as = "llvm" /\ called'.at = target.code /\ target' = target
            BY <4>1, <4>2, <2>2
      <4>4. QED
            BY <3>1, <4>3 DEF Pointers!ReachesTheFunction, Pointers!FrameIsLargeEnough, Pointers!ConventionAgrees
    <3>2. CASE target.mode = "fast"
      <4> DEFINE category == CategoryOfSize[target.frameSize]
      <4>0. /\ Pointers!GetType(word) = 1 /\ (Pointers!IsNoExcept(word) <=> target.noexcept)
            /\ Pointers!GetStackFrameCategory(word) = category /\ Pointers!GetPointer(word) = target.code
            BY <3>2, <2>2, <1>1, FastWord
      <4>1. called' = [as |-> "fast", at |-> target.code, plain |-> asNoexcept \/ Pointers!IsNoExcept(word),
                       frame |-> Sizes[category]]
            BY <4>0, <2>2 DEF Pointers!Dispatch
      <4>2. Sizes[category] >= target.frameSize
            BY <1>1 DEF Pointers!ConstantsOK, Pointers!Functions
      <4>3. (asNoexcept \/ Pointers!IsNoExcept(word)) = target.noexcept
            BY <4>0, <2>2, <1>1
      <4>4. /\ called'.as = "fast" /\ called'.at = target.code
            /\ called'.plain = target.noexcept /\ called'.frame = Sizes[category]
            BY <4>1, <4>3
      <4>5. QED
            BY <3>2, <4>2, <4>4, <2>2 DEF Pointers!ReachesTheFunction, Pointers!FrameIsLargeEnough, Pointers!ConventionAgrees
    <3>3. CASE target.mode = "debug"
      <4>1. Pointers!GetType(word) = 2 /\ Pointers!GetPointer(word) = target.object
            BY <3>3, <2>2, <1>1, OtherWords
      <4>2. called' = [as |-> "debug", at |-> target.object, plain |-> asNoexcept, frame |-> 0]
            BY <4>1, <2>2 DEF Pointers!Dispatch
      <4>3. QED
            BY <3>3, <4>2, <2>2 DEF Pointers!ReachesTheFunction, Pointers!FrameIsLargeEnough, Pointers!ConventionAgrees
    <3>4. QED
          BY <3>1, <3>2, <3>3, <1>1
  <2>4. Pointers!TypeOK' /\ (word' # {} => word' = Pointers!ControlValue(target'))
        BY <2>2 DEF PointerIInv, Pointers!TypeOK
  <2>5. QED
        BY <2>3, <2>4, <2>2 DEF PointerIInv, Pointers!ControlValue, Pointers!GetControlValueForFastInterpFn, Pointers!GetControlValueForDebugInterpFn
<1>4. CASE UNCHANGED Pointers!vars
      BY <1>4 DEF Pointers!vars, PointerIInv, Pointers!TypeOK, Pointers!ReachesTheFunction, Pointers!FrameIsLargeEnough, Pointers!ConventionAgrees
<1>5. QED
      BY <1>2, <1>3, <1>4 DEF Pointers!Next

SuitePointerInv == part = "pointers" => PointerIInv

\* C++ reaches every function it has the word of, in its mode, with a frame that
\* is as large as was planned and the right convention for exceptions, whatever
\* the addresses, the categories and the sizes of frames
\* (GeneratedFunctionPointerImpl).
THEOREM PointersReach == SuiteSpec => []ReachesTheFunction
<1>1. SuiteInit => SuitePointerInv
      BY InitPointer DEF SuiteInit, SuitePointerInv
<1>2. SuitePointerInv /\ [SuiteNext]_SuiteVars => SuitePointerInv'
  <2> SUFFICES ASSUME SuitePointerInv, [SuiteNext]_SuiteVars, part' = "pointers" PROVE PointerIInv'
      BY DEF SuitePointerInv
  <2>1. part = "pointers" /\ (Pointers!Next \/ UNCHANGED pointerVars)
        BY DEF SuiteNext, SuiteVars, DebugStep, FastStep, CategoriesStep, PointersStep, ModulesStep
  <2>2. [Pointers!Next]_Pointers!vars
        BY <2>1 DEF pointerVars, Pointers!vars
  <2>3. QED
        BY <2>1, <2>2, PointersConstants, StepPointer DEF SuitePointerInv
<1>3. SuitePointerInv => ReachesTheFunction
      BY DEF SuitePointerInv, ReachesTheFunction, PointerIInv
<1>4. QED
      BY <1>1, <1>2, <1>3, PTL DEF SuiteSpec, SuiteVars

-----------------------------------------------------------------------------
(* The modules of a thread                                                 *)

SuiteLifeInv == part = "modules" => Modules!LifeIInv

\* In whatever order the modules are prepared for the modes, and however often:
\* calls reach the function of that name in the module of the caller with a
\* frame that is large enough, handles lead to code that is there, and no
\* assertion of AstModule fails (function_proto.h).
THEOREM ModulesApart == SuiteSpec => []ModulesStayApart
<1>1. SuiteInit => SuiteLifeInv
      BY ModulesConstants, Modules!InitLife DEF SuiteInit, SuiteLifeInv
<1>2. SuiteLifeInv /\ [SuiteNext]_SuiteVars => SuiteLifeInv'
  <2> SUFFICES ASSUME SuiteLifeInv, [SuiteNext]_SuiteVars, part' = "modules" PROVE Modules!LifeIInv'
      BY DEF SuiteLifeInv
  <2>1. part = "modules" /\ (Modules!Next \/ UNCHANGED moduleVars)
        BY DEF SuiteNext, SuiteVars, DebugStep, FastStep, CategoriesStep, PointersStep, ModulesStep
  <2>2. [Modules!Next]_Modules!vars
        BY <2>1 DEF moduleVars, Modules!vars
  <2>3. QED
        BY <2>1, <2>2, ModulesConstants, Modules!StepLife DEF SuiteLifeInv
<1>3. SuiteLifeInv => ModulesStayApart
      BY Modules!LifeIsTyped, Modules!CallsAreBound, Modules!LifeFramesFit, Modules!LifeHandles
         DEF SuiteLifeInv, ModulesStayApart, Modules!LifeIInv, Modules!AssertionsHold
<1>4. QED
      BY <1>1, <1>2, <1>3, PTL DEF SuiteSpec, SuiteVars
=============================================================================

----------------------------- MODULE MCModules -----------------------------
(***************************************************************************)
(* Modules, the stack frames of their functions and pointers to them.  A   *)
(* behaviour is one of the frame of the debug interpreter ("debug") or of  *)
(* FastInterp mode ("fast"), of the search for a stack frame category      *)
(* ("categories"), of a pointer to a generated function ("pointers"), or   *)
(* of the modules of a thread ("modules"); the variables of the others     *)
(* stay as they are.                                                       *)
(*                                                                         *)
(* The search is on the real list of sizes, at and around every size.      *)
(***************************************************************************)
EXTENDS DebugInterpFrame, FrameSizeCategories, SequencesExt

CONSTANTS p1, p2, v1, v2, ref, call

(* Frames of the debug interpreter: parameters are primitive, variables    *)
(* may be classes of any size.                                             *)

MCNodes == {p1, p2, v1, v2, ref, call}
MCStorage == [n \in MCNodes |->
                CASE n = p1 -> 1 [] n = p2 -> 8 [] n = v1 -> 12 [] n = v2 -> 6
                  [] n = ref -> 2 [] OTHER -> 0]

MCReturnSizes == {0, 1, 4, 8}
MCParamLists == {<<>>, <<p1>>, <<p1, p2>>, <<p2, p1>>}
MCBodies == SeqOf(MCNodes, 4)

\* A body uses no parameters that the function has not
BodyFits ==
    \A i \in DOMAIN body : body[i] \in {p1, p2} =>
        \E j \in DOMAIN params : params[j] = body[i]

(* The list of frame sizes, written out: TLC checks that it is the list. *)

Listed ==
    <<16, 32, 48, 64, 80, 96, 112, 128, 144, 160, 176, 208, 240, 272, 304,
      336, 384, 432, 480, 528, 592, 656, 736, 816, 912, 1008, 1120, 1232,
      1360, 1504, 1664, 1840, 2032, 2240, 2464, 2720, 2992, 3296, 3632, 4000,
      4400, 4848, 5344, 5888, 6480, 7136, 7856, 8656, 9536, 10496, 11552,
      12720, 14000, 15408, 16960, 18656, 20528, 22592, 24864, 27360, 30096,
      33120, 36432, 40080, 44096, 48512, 53376, 58720, 64592, 71056, 78176,
      86000, 94608, 104080, 114496, 125952, 138560, 152416, 167664, 184432,
      202880, 223168, 245488, 270048, 297056, 326768, 359456, 395408, 434960,
      478464, 526320, 578960, 636864, 700560, 770624, 847696, 932480,
      1025728, 1128304, 1241136, 1365264, 1501792, 1651984, 1817184, 1998912,
      2198816, 2418704, 2660576, 2926640, 3219312, 3541248, 3895376, 4284928,
      4713424, 5184768, 5703248, 6273584, 6900944, 7591040, 8350144, 9185168,
      10103696, 11114080, 12225488, 13448048, 14792864, 16272160, 17899376,
      19689328, 21658272, 23824112, 26206528, 28827184, 31709904, 34880896,
      38368992, 42205904, 46426496, 51069152, 56176080, 61793696, 67973072,
      74770384, 82247424, 90472176, 99519408, 109471360, 120418496,
      132460352, 145706400, 160277040, 176304752, 193935232, 213328768,
      234661648, 258127824, 283940608, 312334672, 343568144, 377924960,
      415717456, 457289216, 503018144, 553319968, 608651968, 669517168,
      736468896, 810115792, 891127376, 980240128, 1078264144, 1186090560,
      1304699616, 1435169584, 1578686544, 1736555200, 1910210720, 2101231792>>

AllSizes == [i \in 0 .. CategoryCount - 1 |-> Listed[i + 1]]

ASSUME IsTheList == IsSizeList(AllSizes)
\* the static_assert below the list
ASSUME LargestSize == AllSizes[CategoryCount - 1] = 2101231792

Largest == AllSizes[CategoryCount - 1]
Around(S) == {n \in UNION {{i - 1, i, i + 1} : i \in S} : n <= Largest}

AllFrameSizes ==
    Around({AllSizes[i] : i \in DOMAIN AllSizes}) \cup {0}
    \* frames of C++ functions
    \cup {8 * (2 * numParams + 1) : numParams \in 0 .. 120}

-----------------------------------------------------------------------------
VARIABLES part,
          frame, tempStack, locals,
          target, word, called,
          mods, error, epoch, bound, engine, fixList, program, live, handles,
          task, failed

(* Frames of FastInterp mode: one register per class instead of three makes *)
(* the third pending temporary of a class the second to spill.  The types:  *)
(* an int, and a class of 12 bytes.                                         *)

CONSTANTS NoSpillLimit, VarLayouts, StartOffset, MaxTemps, MaxLocals

OneRegister == [c \in {"integral", "float"} |-> 1]
IntAndClass == {<< 4, 4 >>, << 12, 8 >>}

\* with what is proved of them
Fast == INSTANCE FIStackFrameProofs

ASSUME FastConstants == Fast!ConstantsOK

(* Pointers: the smallest category, the largest and some in between, with  *)
(* all carries; frames that fit exactly, are smaller and larger by a byte. *)

FilledCategories == {0, 1, 2, 63, 64, 127, 128, 170, 177}
CategoryThatFits ==
    [n \in Around({AllSizes[c] : c \in FilledCategories}) |->
        CHOOSE c \in DOMAIN AllSizes : /\ AllSizes[c] >= n
                                       /\ \A d \in 0 .. c - 1 : AllSizes[d] < n]

SomeCategories == {CategoryThatFits[n] : n \in DOMAIN CategoryThatFits}
SomeAddresses == {{4}, {46}, 4 .. 46, {5, 44}}

CONSTANTS PointerCategories, CategoryOfSize, PointerAddresses

Pointers == INSTANCE GeneratedFunctionPointers WITH
    Categories <- PointerCategories, SizeOf <- Sizes, CategoryFor <- CategoryOfSize,
    Addresses <- PointerAddresses

ASSUME PointersConstants == Pointers!ConstantsOK

(* Modules: functions that call themselves, each other, or nothing; with   *)
(* frames of different sizes; with an object and without; one is invalid.  *)

CONSTANTS fn1, fn2, MaxModules, MaxHandles

FunctionNames == {fn1, fn2}
Symmetry == Permutations(FunctionNames)

Definition(calls, bad, hasObject, bytes) ==
    [calls |-> calls, bad |-> bad, hasObject |-> hasObject, frame |-> bytes]

\* with what is proved of them
Modules == INSTANCE ModuleLifecycleProofs WITH
    Names <- FunctionNames,
    Definitions <- {Definition("none", FALSE, TRUE, 1), Definition("none", TRUE, FALSE, 1)}
                       \cup {Definition(n, FALSE, FALSE, 2) : n \in FunctionNames}

ASSUME ModulesConstants == Modules!ConstantsOK

-----------------------------------------------------------------------------
fastVars == <<frame, tempStack, locals>>
pointerVars == <<target, word, called>>
moduleVars == <<mods, error, epoch, bound, engine, fixList, program, live, handles, task, failed>>

NoDebug == Init /\ returnSize = 0 /\ params = <<>> /\ body = <<>>
NoFast == frame = 0 /\ tempStack = 0 /\ locals = 0
NoSearch == neededSize = 0 /\ l = 0 /\ r = NumCategories - 1
NoPointers == target = 0 /\ word = 0 /\ called = 0
NoModules ==
    /\ mods = 0 /\ error = 0 /\ epoch = 0 /\ bound = 0 /\ engine = 0 /\ fixList = 0
    /\ program = 0 /\ live = 0 /\ handles = 0 /\ task = 0 /\ failed = 0

SuiteInit ==
    \/ part = "debug" /\ Init /\ BodyFits /\ NoFast /\ NoSearch /\ NoPointers /\ NoModules
    \/ part = "fast" /\ NoDebug /\ Fast!Init /\ NoSearch /\ NoPointers /\ NoModules
    \/ part = "categories" /\ NoDebug /\ NoFast /\ SearchInit /\ NoPointers /\ NoModules
    \/ part = "pointers" /\ NoDebug /\ NoFast /\ NoSearch /\ Pointers!Init /\ NoModules
    \/ part = "modules" /\ NoDebug /\ NoFast /\ NoSearch /\ NoPointers /\ Modules!Init

DebugStep ==
    part = "debug" /\ Next /\ UNCHANGED <<part, fastVars, searchVars, pointerVars, moduleVars>>
FastStep ==
    part = "fast" /\ Fast!Next /\ UNCHANGED <<part, vars, searchVars, pointerVars, moduleVars>>
CategoriesStep ==
    part = "categories" /\ SearchNext /\ UNCHANGED <<part, vars, fastVars, pointerVars, moduleVars>>
PointersStep ==
    part = "pointers" /\ Pointers!Next /\ UNCHANGED <<part, vars, fastVars, searchVars, moduleVars>>
ModulesStep ==
    part = "modules" /\ Modules!Next /\ UNCHANGED <<part, vars, fastVars, searchVars, pointerVars>>

SuiteNext == DebugStep \/ FastStep \/ CategoriesStep \/ PointersStep \/ ModulesStep

SuiteSpec == SuiteInit /\ [][SuiteNext]_<<part, vars, fastVars, searchVars, pointerVars, moduleVars>>

\* The frame that generated code runs in (FIStackFramePlanner and both stacks
\* of FITempOperandStack): no spill slot is handed out twice or lost, locals
\* keep their bytes whatever comes and goes in inner scopes, the final size
\* covers all of it, and what is in registers is what the newest are.
FastFrameIsSound ==
    part = "fast" => /\ Fast!TypeOK /\ Fast!SlotsExclusive /\ Fast!LocalsIntact
                     /\ Fast!FrameCovers /\ Fast!NewestInRegisters

\* C++ that calls a word it was given reaches the function, in the mode it was
\* prepared for, with a frame as large as was planned for it, and looks for an
\* exception exactly in what may hold one (pochivm_function_pointer.h).
ReachesTheFunction ==
    part = "pointers" => /\ Pointers!TypeOK /\ Pointers!ReachesTheFunction
                         /\ Pointers!FrameIsLargeEnough /\ Pointers!ConventionAgrees

\* Whatever order a module is prepared in for the modes, calls reach the function
\* of that name in the module of the caller, with a frame as large as it needs;
\* handles lead to the one program that is mapped; no assertion fails.
ModulesStayApart ==
    part = "modules" => /\ Modules!TypeOK /\ Modules!AssertionsHold
                        /\ Modules!CallsStayInModule /\ Modules!FramesFit
                        /\ Modules!HandlesAreUsable
=============================================================================

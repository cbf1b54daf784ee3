----------------------- MODULE GeneratedFunctionPointers -----------------------
(***************************************************************************)
(* Pointers to generated functions (pochivm/pochivm_function_pointer.h).   *)
(* Generated code computes a word of 64 bits that says, for each mode, what*)
(* C++ has to know to call the function; C++ keeps the word in whatever    *)
(* object it likes and calls it later, knowing only the word and the type  *)
(* that it believes the function to have.                                  *)
(*                                                                         *)
(* A word is the set of its bits that are 1, so that a field that runs     *)
(* over into its neighbour is seen.                                        *)
(***************************************************************************)
EXTENDS Integers, FiniteSets

CONSTANTS Categories,    \* the stack frame categories that occur
          SizeOf,        \* FIStackframeSizeCategoryHelper::GetSize
          CategoryFor,   \* SelectCategory, by frame size
          Addresses      \* of code and of AstFunction objects: sets of bits

WordBits     == 0 .. 63
AddressBits  == 48
CategoryBits == 13

\* Addresses of a user process have their 17 highest bits clear; a category
\* fits its field (a static_assert); SelectCategory finds one that is as large
\* as the frame (FrameSizeCategories).
ConstantsOK ==
    /\ Addresses \subseteq SUBSET (0 .. AddressBits - 2)
    /\ Categories \subseteq 0 .. 2 ^ CategoryBits - 1
    /\ \A size \in DOMAIN CategoryFor : /\ CategoryFor[size] \in Categories
                                        /\ SizeOf[CategoryFor[size]] >= size

-----------------------------------------------------------------------------
(* The word                                                                *)

\* The bits of a number of so many bits, shifted left by k.
BitsOf(n, width, k) == {k + i : i \in {j \in 0 .. width - 1 : (n \div 2 ^ j) % 2 = 1}}
\* The number in such a field of a word.
Field(word, k, width) ==
    LET value[i \in 0 .. width] ==
            IF i = 0 THEN 0 ELSE value[i - 1] + (IF k + i - 1 \in word THEN 2 ^ (i - 1) ELSE 0)
    IN  value[width]

GetType(word)               == Field(word, 62, 2)
IsNoExcept(word)            == 61 \in word
GetStackFrameCategory(word) == Field(word, 48, CategoryBits)
GetPointer(word)            == word \cap (0 .. AddressBits - 1)

GetControlValueForFastInterpFn(fn) ==
    BitsOf(1, 2, 62) \cup (IF fn.noexcept THEN {61} ELSE {})
        \cup BitsOf(CategoryFor[fn.frameSize], CategoryBits, 48) \cup fn.code

GetControlValueForDebugInterpFn(fn) == BitsOf(2, 2, 62) \cup fn.object

\* In LLVM mode the word is the address of the code.
ControlValue(fn) ==
    CASE fn.mode = "llvm"  -> fn.code
      [] fn.mode = "fast"  -> GetControlValueForFastInterpFn(fn)
      [] fn.mode = "debug" -> GetControlValueForDebugInterpFn(fn)

-----------------------------------------------------------------------------
(* A function whose address generated code takes, the C++ code that keeps  *)
(* the word, and what a call of it does                                    *)

VARIABLES target, \* the generated function
          word,   \* what C++ keeps; {} before it has it
          called  \* how C++ called it last: the callee, as it was reached

vars == <<target, word, called>>

NotCalled == [as |-> "none"]

Functions == [mode      : {"llvm", "fast", "debug"},
              noexcept  : BOOLEAN,
              frameSize : DOMAIN CategoryFor,
              code      : Addresses,
              object    : Addresses]

Init ==
    /\ target \in Functions
    /\ word = {} /\ called = NotCalled

\* The value of an AstGeneratedFunctionPointerExpr.
TakeAddress ==
    /\ word = {}
    /\ word' = ControlValue(target)
    /\ UNCHANGED <<target, called>>

\* mutant: the flag in the word is not read
DispatchAsTyped(asNoexcept) ==
    CASE GetType(word) = 0 ->
            [as |-> "llvm", at |-> word, plain |-> asNoexcept, frame |-> 0]
      [] GetType(word) = 1 ->
            [as |-> "fast", at |-> GetPointer(word),
             plain |-> asNoexcept, frame |-> SizeOf[GetStackFrameCategory(word)]]
      [] OTHER ->
            [as |-> "debug", at |-> GetPointer(word), plain |-> asNoexcept, frame |-> 0]

\* GeneratedFunctionPointerImpl::Call.  plain: the value is taken to be
\* returned as it is, and not as one that may be an exception.
Dispatch(asNoexcept) ==
    CASE GetType(word) = 0 ->
            [as |-> "llvm", at |-> word, plain |-> asNoexcept, frame |-> 0]
      [] GetType(word) = 1 ->
            [as |-> "fast", at |-> GetPointer(word),
             plain |-> asNoexcept \/ IsNoExcept(word), frame |-> SizeOf[GetStackFrameCategory(word)]]
      [] OTHER ->
            [as |-> "debug", at |-> GetPointer(word), plain |-> asNoexcept, frame |-> 0]

\* C++ calls a noexcept function as one that is or is not, and another one as
\* what it is (a TestAssert in FastInterp mode).
Call(asNoexcept) ==
    /\ word # {}
    /\ asNoexcept => target.noexcept
    /\ called' = Dispatch(asNoexcept)
    /\ UNCHANGED <<target, word>>

Next == TakeAddress \/ \E asNoexcept \in BOOLEAN : Call(asNoexcept)

Spec == Init /\ [][Next]_vars

-----------------------------------------------------------------------------
TypeOK ==
    /\ target \in Functions
    /\ word \subseteq WordBits

\* C++ reaches the function, in the mode it was prepared for: none of the
\* fields of the word has run over into another one.
ReachesTheFunction ==
    called # NotCalled =>
        /\ called.as = target.mode
        /\ called.at = IF target.mode = "debug" THEN target.object ELSE target.code

\* The frame that C++ allocates from the category in the word is as large as
\* the one that was planned when the function was generated.
FrameIsLargeEnough ==
    called # NotCalled /\ target.mode = "fast" => called.frame >= target.frameSize

\* A FastInterp function that is noexcept returns a plain value, and the caller
\* that does not know this from the type learns it from the word: the caller
\* looks for an exception exactly in what may hold one.
ConventionAgrees ==
    called # NotCalled /\ target.mode = "fast" => called.plain = target.noexcept
==============================================================================

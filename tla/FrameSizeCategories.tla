------------------------- MODULE FrameSizeCategories -------------------------
(***************************************************************************)
(* The stack frame size categories of FastInterp mode                      *)
(* (fastinterp/fastinterp_tpl_stackframe_category.h) and the binary search *)
(* that finds the category of a frame: a generated caller and a            *)
(* GeneratedFunctionPointer allocate as much as the category says, and the *)
(* callee uses as much as was planned for it.                              *)
(***************************************************************************)
EXTENDS Integers

(* The list (internal_get_stackframe_size and x_size_list). *)

\* x_num_categories and x_fastinterp_function_stack_alignment
CategoryCount  == 178
StackAlignment == 16

UpToAlignment(n) == ((n + StackAlignment - 1) \div StackAlignment) * StackAlignment

\* The next size of the list.  n * 11 / 10 is written as n + n / 10, which is
\* the same number and stays within the integers of the model checker.
Grown(n) == UpToAlignment(n + n \div 10)

\* internal_get_stackframe_size: what the list holds at each index.
IsSizeList(list) ==
    /\ DOMAIN list = 0 .. CategoryCount - 1
    /\ list[0] = UpToAlignment(16)
    /\ \A i \in 1 .. CategoryCount - 1 : list[i] = Grown(list[i - 1])

-----------------------------------------------------------------------------
(* The search, for any list of increasing sizes *)

CONSTANTS NumCategories, \* x_num_categories
          Sizes,         \* x_size_list, from 0 on
          FrameSizes     \* the sizes that are asked for

ASSUME NumCategoriesAssumption == NumCategories \in Nat \ {0}
ASSUME SizesAssumption == /\ Sizes \in [0 .. NumCategories - 1 -> Nat]
                          /\ \A i, j \in 0 .. NumCategories - 1 : i < j => Sizes[i] < Sizes[j]
\* Larger frames are refused by a ReleaseAssert.
ASSUME FrameSizesAssumption == FrameSizes \subseteq 0 .. Sizes[NumCategories - 1]

VARIABLES neededSize, l, r

searchVars == <<neededSize, l, r>>

Mid == (l + r) \div 2

SearchInit ==
    /\ neededSize \in FrameSizes
    /\ l = 0 /\ r = NumCategories - 1

\* mutant: a category of exactly the needed size is passed over
HalveStrictly ==
    /\ l # r
    /\ IF Sizes[Mid] > neededSize
       THEN r' = Mid /\ UNCHANGED l
       ELSE l' = Mid + 1 /\ UNCHANGED r
    /\ UNCHANGED neededSize

\* One round of the loop of SelectCategory.
Halve ==
    /\ l # r
    /\ IF Sizes[Mid] >= neededSize
       THEN r' = Mid /\ UNCHANGED l
       ELSE l' = Mid + 1 /\ UNCHANGED r
    /\ UNCHANGED neededSize

SearchNext == Halve

SearchSpec == SearchInit /\ [][SearchNext]_searchVars

-----------------------------------------------------------------------------
SearchTypeOK ==
    /\ neededSize \in FrameSizes
    /\ l \in 0 .. NumCategories - 1 /\ r \in 0 .. NumCategories - 1

\* The category that is searched stays between the two bounds: all below l
\* are too small and r is large enough, so that where they meet the frame
\* fits, and in no smaller category (the two assertions at the end of
\* SelectCategory).
AnswerIsBetween ==
    /\ l <= r
    /\ Sizes[r] >= neededSize
    /\ \A i \in 0 .. l - 1 : Sizes[i] < neededSize

==============================================================================

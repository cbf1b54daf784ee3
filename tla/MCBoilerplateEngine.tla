------------------------ MODULE MCBoilerplateEngine ------------------------
(***************************************************************************)
(* The engine with three sets of blueprints: "jumps", where instances link *)
(* in every way and the layout is what matters, "code", where they have    *)
(* conditions and the distances are what matters, and "pointers", where    *)
(* the code has calls and addresses of functions.                          *)
(*                                                                         *)
(* The lengths put jumps around both ends of what fits in a byte: backward *)
(* jcc and jmp, the last of a loop, go -128 and -129 bytes; jcc forward,   *)
(* over the rest of Condition, goes 126 and 128.  A jmp forward would be   *)
(* to what has another place already, which lies behind it.                *)
(***************************************************************************)
EXTENDS BoilerplateEngine

Body(n) == [op |-> "body", len |-> n, ord |-> 0]
Jmp(ord) == [op |-> "jmp", len |-> 5, ord |-> ord]
Jcc(ord) == [op |-> "jcc", len |-> 6, ord |-> ord]
CallTo(ord) == [op |-> "call", len |-> 5, ord |-> ord]
Value == [op |-> "value", len |-> 10, ord |-> 0]
Ret == [op |-> "ret", len |-> 1, ord |-> 0]

Near == <<Body(3), Jmp(0)>>
Far == <<Body(123), Jmp(0)>>
Leave == <<Body(2), Ret>>
Condition == <<Body(3), Jcc(1), Body(112), Jmp(0)>>
Call == <<Body(7), CallTo(1), Jmp(0)>>
Pointer == <<Value, Jmp(0)>>
Wrapper == <<Body(1), CallTo(0), Ret>>

\* Near and Far have the same placeholders: each may be replaced by the other,
\* which has another length.
CodeBluePrints == {Condition, Near, Far}
PointerBluePrints == {Call, Pointer}
JumpBluePrints == {Near, Leave}

VARIABLE part

Jumps == INSTANCE BoilerplateEngine WITH
    BluePrints <- JumpBluePrints, Functions <- {}, Alignments <- {4}, MaxInstances <- 4

Pointers == INSTANCE BoilerplateEngine WITH BluePrints <- PointerBluePrints

SuiteInit == part \in {"jumps", "code", "pointers"} /\ Init

JumpsStep == part = "jumps" /\ Jumps!Next /\ UNCHANGED part
CodeStep == part = "code" /\ Next /\ UNCHANGED part
PointersStep == part = "pointers" /\ Pointers!Next /\ UNCHANGED part

SuiteNext == JumpsStep \/ CodeStep \/ PointersStep

\* The loops of Materialize run until they end.
SuiteSpec ==
    /\ SuiteInit /\ [][SuiteNext]_<<part, vars>>
    /\ WF_<<part, vars>>(Place /\ UNCHANGED part)

\* No order of the instances removes more tail calls than the greedy one
\* (fastinterp_codegen_helper.hpp:58); the instances and their padding tile the
\* program, every place has the alignment asked for, and what follows a removed
\* tail call is its target.
LayoutIsOptimal ==
    (part = "code" => TypeOK) /\ PlacesAreRight /\ RegionsTile /\ GreedyIsOptimal
=============================================================================

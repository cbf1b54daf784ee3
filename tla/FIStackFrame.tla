---------------------------- MODULE FIStackFrame ----------------------------
(***************************************************************************)
(* The stack frame of one function in fast interpreter mode, as planned    *)
(* while its code is generated (fastinterp/fastinterp_operand_stack.h):    *)
(* FIStackFramePlanner lays out local variables and 8-byte spill slots,    *)
(* and two FITempOperandStack, one for integral and one for floating point *)
(* temporaries, decide which temporaries stay in registers.  Both stacks   *)
(* take their slots from the one planner.                                  *)
(*                                                                         *)
(* The methods are operators from a frame to a frame, so that the passes   *)
(* over an expression can use them too; the state machine below is any     *)
(* client that respects the contract the assertions of the code spell out. *)
(***************************************************************************)
EXTENDS Integers, Sequences, FiniteSets

CONSTANTS
    NoSpillLimit, \* x_fastinterp_max_integral_params, ..._floating_point_params
    VarLayouts,   \* the <<size, alignment>> of the types of local variables
    StartOffset,  \* where the locals start: after the parameters
    MaxTemps,     \* bound: pending temporaries per stack
    MaxLocals     \* bound: nested local variables

Class == {"integral", "float"}         \* the two operand stacks

\* What the constants must be
ConstantsOK ==
    /\ NoSpillLimit \in [Class -> Nat \ {0}]
    /\ VarLayouts \subseteq (Nat \ {0}) \X {1, 2, 4, 8}
    /\ StartOffset \in Nat /\ StartOffset % 8 = 0
    /\ MaxTemps \in Nat /\ MaxLocals \in Nat

NoSpill == -1                          \* x_nospill

Larger(a, b) == IF a >= b THEN a ELSE b
Smaller(a, b) == IF a <= b THEN a ELSE b

UpAlign(value, alignment) == ((value + alignment - 1) \div alignment) * alignment

EmptyFrame(start) ==
    [base |-> start, top |-> start, max |-> start, free |-> << >>,
     old |-> << >>,
     stack |-> [c \in Class |-> << >>], firstNoSpill |-> [c \in Class |-> 0]]

-----------------------------------------------------------------------------
(* FIStackFramePlanner and FITempOperandStack *)

\* The k-th slot GetTemp returns: the free list from its back, then new ones
Slot(f, k) ==
    IF k <= Len(f.free)
    THEN f.free[Len(f.free) + 1 - k]
    ELSE f.top + 8 * (k - Len(f.free) - 1)

\* GetTemp, called n times
TakeTemps(f, n) ==
    LET reused == Smaller(n, Len(f.free))
        top == f.top + 8 * (n - reused)
    IN  [f EXCEPT !.free = SubSeq(@, 1, Len(@) - reused),
                  !.top = top,
                  !.max = Larger(@, top)]

SpillUpTo(f, c, bound) ==
    LET first == f.firstNoSpill[c]
        n == Larger(bound - first, 0)
    IN  [TakeTemps(f, n) EXCEPT
            !.stack[c] = [i \in DOMAIN @ |->
                IF i \in (first + 1) .. bound THEN Slot(f, i - first) ELSE @[i]],
            !.firstNoSpill[c] = first + n]

PushTemp(f, c, spill) ==
    LET pushed == [f EXCEPT !.stack[c] = Append(@, NoSpill)]
        size == Len(pushed.stack[c])
    IN  SpillUpTo(pushed, c, IF spill THEN size
                                      ELSE Larger(size - NoSpillLimit[c], 0))

PeekTemp(f, c) == f.stack[c][Len(f.stack[c])]

\* mutant: the slot of a popped temporary is not given back
PopTempLeaks(f, c) ==
    LET size == Len(f.stack[c]) - 1
    IN  [f EXCEPT !.stack[c] = SubSeq(@, 1, size),
                  !.firstNoSpill[c] = Smaller(@, size)]

PopTemp(f, c) ==
    LET size == Len(f.stack[c]) - 1
        spillLoc == PeekTemp(f, c)
    IN  [f EXCEPT !.stack[c] = SubSeq(@, 1, size),
                  !.firstNoSpill[c] = Smaller(@, size),
                  !.free = IF spillLoc = NoSpill THEN @ ELSE Append(@, spillLoc)]

ReserveTemp(f, c) == PopTemp(PushTemp(f, c, FALSE), c)

NumNoSpill(f, c) == Len(f.stack[c]) - f.firstNoSpill[c]

CanReserveWithoutSpill(f, c) == NumNoSpill(f, c) < NoSpillLimit[c]

ForceSpillAll(f) ==
    LET g == SpillUpTo(f, "integral", Len(f.stack["integral"]))
    IN  SpillUpTo(g, "float", Len(g.stack["float"]))

LocalVarOffset(f, layout) == UpAlign(f.base, layout[2])

PushLocalVar(f, layout) ==
    LET base == LocalVarOffset(f, layout) + layout[1]
        top == UpAlign(base, 8)
    IN  [f EXCEPT !.old = Append(@, f.base), !.base = base, !.top = top,
                  !.max = Larger(@, top), !.free = << >>]

PopLocalVar(f) ==
    LET base == f.old[Len(f.old)]
    IN  [f EXCEPT !.old = SubSeq(@, 1, Len(@) - 1), !.base = base,
                  !.top = UpAlign(base, 8), !.free = << >>]

-----------------------------------------------------------------------------
(* FIStackFrameManager and its clients *)

VARIABLES
    frame,       \* the planner and both stacks
    tempStack,   \* m_tempStack: the classes of the pending temporaries
    locals       \* m_localVarStack, with what each variable was given

vars == << frame, tempStack, locals >>

Init ==
    /\ frame = EmptyFrame(StartOffset)
    /\ tempStack = << >>
    /\ locals = << >>

\* A temporary may only be spilled at once if those below it are
PushTempStep(c, spill) ==
    /\ Len(frame.stack[c]) < MaxTemps
    /\ spill /\ frame.stack[c] # << >> => PeekTemp(frame, c) # NoSpill
    /\ frame' = PushTemp(frame, c, spill)
    /\ tempStack' = Append(tempStack, c)
    /\ UNCHANGED locals

PopTempStep ==
    /\ tempStack # << >>
    /\ frame' = PopTemp(frame, tempStack[Len(tempStack)])
    /\ tempStack' = SubSeq(tempStack, 1, Len(tempStack) - 1)
    /\ UNCHANGED locals

ReserveTempStep(c) ==
    /\ Len(frame.stack[c]) < MaxTemps
    /\ frame' = ReserveTemp(frame, c)
    /\ UNCHANGED << tempStack, locals >>

ForceSpillAllStep ==
    /\ frame' = ForceSpillAll(frame)
    /\ UNCHANGED << tempStack, locals >>

PushLocalVarStep(layout) ==
    /\ tempStack = << >> /\ Len(locals) < MaxLocals
    /\ frame' = PushLocalVar(frame, layout)
    /\ locals' = Append(locals, << LocalVarOffset(frame, layout), layout[1] >>)
    /\ UNCHANGED tempStack

PopLocalVarStep ==
    /\ tempStack = << >> /\ locals # << >>
    /\ frame' = PopLocalVar(frame)
    /\ locals' = SubSeq(locals, 1, Len(locals) - 1)
    /\ UNCHANGED tempStack

Next ==
    \/ \E c \in Class :
        ReserveTempStep(c) \/ \E spill \in BOOLEAN : PushTempStep(c, spill)
    \/ PopTempStep
    \/ ForceSpillAllStep
    \/ \E layout \in VarLayouts : PushLocalVarStep(layout)
    \/ PopLocalVarStep

Spec == Init /\ [][Next]_vars

-----------------------------------------------------------------------------

Offsets == 0 .. frame.max

TypeOK ==
    /\ frame.base \in Offsets /\ frame.top \in Offsets /\ frame.max \in Nat
    /\ frame.free \in Seq(Offsets) /\ frame.old \in Seq(Offsets)
    /\ \A c \in Class :
        /\ frame.stack[c] \in Seq(Offsets \cup {NoSpill})
        /\ frame.firstNoSpill[c] \in 0 .. Len(frame.stack[c])
    /\ tempStack \in Seq(Class)
    /\ locals \in Seq(Offsets \X Nat)

Spilled == {p \in Class \X (1 .. MaxTemps) :
                p[2] <= Len(frame.stack[p[1]])
                /\ frame.stack[p[1]][p[2]] # NoSpill}

SlotOf(p) == frame.stack[p[1]][p[2]]

\* The slots of pending temporaries of both stacks and the free slots are all
\* different, and together they are the whole region above the locals: no
\* slot is handed out twice and none is lost (GetTemp, FreeTemp and the
\* assertions of IsNoTempInUse).
SlotsExclusive ==
    LET bottom == UpAlign(frame.base, 8)
        taken == {SlotOf(p) : p \in Spilled}
        free == {frame.free[i] : i \in DOMAIN frame.free}
    IN  /\ Cardinality(taken) = Cardinality(Spilled)
        /\ Cardinality(free) = Len(frame.free)
        /\ taken \cap free = {}
        /\ taken \cup free =
               {bottom + 8 * k : k \in 0 .. (frame.top - bottom) \div 8 - 1}

Bytes(offset, size) == offset .. (offset + size - 1)

\* A live local keeps its bytes for itself: later variables are laid out
\* after it and no spill slot reaches into it, also after inner variables of
\* other alignments have come and gone (GetLocalVar, PopLocalVar).
LocalsIntact ==
    \A i \in DOMAIN locals :
        LET mine == Bytes(locals[i][1], locals[i][2])
        IN  /\ \A j \in (i + 1) .. Len(locals) :
                   mine \cap Bytes(locals[j][1], locals[j][2]) = {}
            /\ \A p \in Spilled : mine \cap Bytes(SlotOf(p), 8) = {}
            /\ mine \subseteq Bytes(StartOffset, frame.base - StartOffset)

\* The frame size the function ends with covers everything that is ever
\* handed out, in any nested scope (UpdateMaxOffsetEver).
FrameCovers ==
    /\ \A i \in DOMAIN locals : locals[i][1] + locals[i][2] <= frame.max
    /\ \A p \in Spilled : SlotOf(p) + 8 <= frame.max

\* What is in registers are the newest temporaries of each class, never more
\* than the generated code has opaque parameters for (GetNumNoSpill).
NewestInRegisters ==
    \A c \in Class :
        /\ NumNoSpill(frame, c) <= NoSpillLimit[c]
        /\ \A i \in DOMAIN frame.stack[c] :
            frame.stack[c][i] = NoSpill <=> i > frame.firstNoSpill[c]
=============================================================================

--------------------------- MODULE MCExpressions ---------------------------
(* How expressions are compiled and what they compute.  A behaviour is one   *)
(* of FISpillPasses ("passes": code generation for the fast interpreter) or  *)
(* one of ExpressionSemantics ("values": all three modes); the variables of  *)
(* the other stay as they are.                                               *)
(*                                                                           *)
(* The values are those of expressions over two variables of each integer    *)
(* type, pointers to an array and to a class whose size is no power of two,  *)
(* and functions that change a variable, run on memories with the extremes   *)
(* of the types.  The types are scaled down; an int holds every product of   *)
(* two characters.                                                           *)
EXTENDS ExpressionSemantics

ScaledBits == [bool |-> 1, i8 |-> 2, u8 |-> 2, i32 |-> 5, u32 |-> 5,
               i64 |-> 6, u64 |-> 6]

ScaledSize == [bool |-> 1, i8 |-> 1, u8 |-> 1, i32 |-> 2, u32 |-> 2,
               i64 |-> 4, u64 |-> 4, double |-> 4, class |-> 3]

I32 == Type("i32")
Integer == {Type(b) : b \in {"i8", "u8", "i32", "u32"}}
Class == Type("class")

\* Variables, and the elements of an array of three
Left == [i8 |-> 1, u8 |-> 2, i32 |-> 3, u32 |-> 4, bool |-> 5, double |-> 6]
Right == [i8 |-> 7, u8 |-> 8, i32 |-> 9, u32 |-> 10, bool |-> 11, double |-> 12]
Index == 13
Pointer == 14
ClassPointer == 15
FieldBase == 16
Changed == 17
Flag == 18
Temporary == 19
Element == {32, 34, 36}

AllCellTypes ==
    [a \in 1 .. 19 \cup Element |->
        CASE \E b \in DOMAIN Left : a \in {Left[b], Right[b]} ->
                Type(CHOOSE b \in DOMAIN Left : a \in {Left[b], Right[b]})
          [] a = Index -> Type("i64")
          [] a = Pointer -> AddPointer(I32)
          [] a = ClassPointer -> AddPointer(Class)
          [] a = FieldBase -> U64
          [] a = Flag -> Bool
          [] OTHER -> I32]

\* Every left variable is l and every right one r, as far as they fit
Memory(l, r) ==
    [a \in DOMAIN AllCellTypes |->
        LET t == AllCellTypes[a] IN
        CASE \E b \in DOMAIN Left : a = Left[b] -> IF t = Double THEN l ELSE Pattern(t, l)
          [] \E b \in DOMAIN Right : a = Right[b] -> IF t = Double THEN r ELSE Pattern(t, r)
          [] a = Index -> Pattern(t, (r % 3) - 1)
          [] a = Pointer -> IF l = r THEN Left["i32"] ELSE 34
          [] a = ClassPointer -> l
          [] a = FieldBase -> 32
          [] a \in Element -> Pattern(t, l + a)
          [] OTHER -> 0]

Extremes == {0, 1, 2, 15, 16, 31}

NotANumber == 99

AllMemories ==
    {Memory(l, r) : l, r \in Extremes}
    \cup {[Memory(1, 2) EXCEPT ![Left["double"]] = NotANumber],
          [Memory(1, 2) EXCEPT ![Right["double"]] = NotANumber],
          [Memory(1, 2) EXCEPT ![Left["double"]] = NotANumber,
                               ![Right["double"]] = NotANumber]}

L(t) == Variable(t, Left[t.base])
R(t) == Variable(t, Right[t.base])
P == Variable(AddPointer(I32), Pointer).value
S == Variable(AddPointer(Class), ClassPointer).value
J == Variable(Type("i64"), Index).value

FieldAddress ==
    ReinterpretCast(AddPointer(I32),
        Arithmetic("add", Variable(U64, FieldBase).value, Literal(U64, 2)))

\* p[j], *p, p[0], p[1], (p + 1)[j], a field
Memories1 == {Subscript(P, J), Reference(P), SubscriptLiteral(P, I32, 0),
              SubscriptLiteral(P, I32, 1),
              Subscript(Forward(P, Literal(I32, 1)), J),
              Subscript(P, Literal(Type("i64"), 1)),
              Subscript(P, L(I32).value),
              Reference(FieldAddress)}

Change == Call(I32, Changed, 1)
ChangeFlag == Call(Bool, Flag, 1)

Simple(t) == {L(t).value, R(t).value, Literal(t, 0), Literal(t, 1)}

Nested(t) == {Arithmetic("add", L(t).value, R(t).value)}

Complex == {m.value : m \in Memories1} \cup {Change} \cup Nested(I32)

Op == {"add", "sub", "mul", "div", "mod"}
Comparisons == {"eq", "ne"} \cup Orders

Pairs(t) ==
    Simple(t) \X (Simple(t) \cup Nested(t)) \cup Nested(t) \X Simple(t)
    \cup (IF t # I32 THEN {}
          ELSE {L(t).value, Literal(t, 1)} \X Complex
               \cup Complex \X {L(t).value, Literal(t, 1)})

Arithmetics ==
    {Arithmetic(op, p[1], p[2]) : op \in Op,
                                  p \in UNION {Pairs(t) : t \in Integer}}

Compares ==
    {Comparison(op, p[1], p[2]) : op \in Comparisons,
                          p \in UNION {Pairs(t) : t \in Integer}}
    \cup {Comparison(op, L(Bool).value, R(Bool).value) : op \in {"eq", "ne"}}
    \cup {Comparison(op, L(Double).value, R(Double).value) : op \in Comparisons}

Logic ==
    LET links == {L(Bool).value, Not(R(Bool).value), ChangeFlag,
                  Comparison("lt", Change, Literal(I32, 1))}
    IN  {And(l, r) : l, r \in links} \cup {Or(l, r) : l, r \in links}
        \cup {Or(And(l, Not(r)), ChangeFlag) : l, r \in links}

Conversions ==
    {StaticCast(u, L(t).value) :
        t \in Integer \cup {Bool},
        u \in Integer \cup {Bool, Type("i64"), U64, Double}}
    \cup {Upcast(AddPointer(Class), S, d) : d \in {0, 2}}
    \cup {ReinterpretCast(U64, P)}

PointerArithmetic ==
    LET indices == {J, L(I32).value, L(Type("u32")).value, Literal(I32, 1),
                    Change, StaticCast(Type("i64"), L(Type("i8")).value)}
    IN  {Forward(b, i) : b \in {P, S, Forward(P, J)}, i \in indices}
        \cup {Backward(b, i) : b \in {P, S}, i \in indices}

Sources == {Literal(I32, 0), L(I32).value, Change} \cup Nested(I32)
           \cup {m.value : m \in Memories1}
           \cup {Arithmetic(op, L(I32).value, r) : op \in Op,
                     r \in {R(I32).value, Subscript(P, J).value}}

Assignments ==
    {Assign(d, e) : d \in {R(I32)} \cup Memories1, e \in Sources}
    \cup {Increment(L(t)) : t \in Integer}

ConstRefs == {ConstRef(e) : e \in {L(I32).value, Literal(I32, 1), Change,
                                    L(Bool).value, Not(L(Bool).value)}
                                   \cup Nested(I32)}

AllExpressions ==
    Arithmetics \cup Compares \cup Logic \cup Conversions
    \cup PointerArithmetic \cup Assignments \cup ConstRefs

\* Every one of them is an expression a host program can write
RECURSIVE CompilesWhole(_)
CompilesWhole(e) == Compiles(e) /\ \A i \in DOMAIN e.kids : CompilesWhole(e.kids[i])

ASSUME HostCanWriteThem == \A e \in AllExpressions : CompilesWhole(e)

-----------------------------------------------------------------------------
(* x + f(), where f changes x: the modes do not agree about it *)

ReadsAndChanges ==
    {Arithmetic("add", L(I32).value, Call(I32, Left["i32"], 1))}

-----------------------------------------------------------------------------

VARIABLES part, root, phase, todo, frame, lhsSpilled, newSfSpillAt, snippets,
          code, pc, regs, mem

passVars == << root, phase, todo, frame, lhsSpilled, newSfSpillAt, snippets,
               code, pc, regs, mem >>

\* The numbers of registers the library is built with
AllRegisters == [c \in {"integral", "float"} |-> 3]

Inputs == INSTANCE MCSpillInputs WITH NoSpillLimit <- AllRegisters
Passes == INSTANCE FISpillPasses WITH
    Expressions <- Inputs!AllExpressions, NoSpillLimit <- AllRegisters

ASSUME PassesConstants == Passes!RegistersOK

SuiteInit ==
    \/ /\ part = "values" /\ Init
       /\ root = 0 /\ phase = 0 /\ todo = 0 /\ frame = 0 /\ lhsSpilled = 0
       /\ newSfSpillAt = 0 /\ snippets = 0 /\ code = 0 /\ pc = 0 /\ regs = 0
       /\ mem = 0
    \/ /\ part = "passes" /\ Passes!Init
       /\ expr = 0 /\ memory = 0 /\ outcomes = 0

ValuesStep == part = "values" /\ Run /\ UNCHANGED << part, passVars >>
PassesStep == part = "passes" /\ Passes!Next /\ UNCHANGED << part, vars >>

\* An expression has been run in every mode
ValuesDone ==
    /\ part = "values" /\ Len(Modes) = Cardinality(DOMAIN outcomes)
    /\ UNCHANGED << part, passVars, vars >>

SuiteNext == ValuesStep \/ ValuesDone \/ PassesStep

SuiteSpec == SuiteInit /\ [][SuiteNext]_<< part, passVars, vars >>

\* ExpressionSemantics alone
ValuesSpec ==
    SuiteInit /\ part = "values" /\ [][SuiteNext]_<< part, passVars, vars >>

\* What the debug interpreter computes, LLVM mode computes (arith_expr_llvm.cpp,
\* cast_expr_llvm.cpp and the others), for every value of the operands for which
\* C++ defines the result, but in the three cases of LLVMDiffers, where it never
\* does: a comparison with NaN other than !=, the smallest narrow integer
\* divided by -1, and an rvalue for a parameter of type const bool&.
LLVMAgrees == part = "values" => TypeOK /\ DebugAndLLVMAgree

\* What the debug interpreter computes, the boilerplates compute, whichever
\* operands are inlined, unless one operand changes what another reads.
BoilerplatesAgree == part = "values" => FastInterpAgrees

\* Every boilerplate code generation asks for is one the library was built with,
\* for every expression, operand shape and number of pending values.
BlueprintsExist == part = "passes" => Passes!BlueprintsExist

\* Both walks over an expression agree, and when the code runs, every operand is
\* where the code that uses it looks for it, also after spills and exceptions.
OperandsInPlace ==
    part = "passes" => /\ Passes!TypeOK /\ Passes!WalksAgree
                       /\ Passes!OperandsInPlace
=============================================================================

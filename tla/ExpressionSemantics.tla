------------------------ MODULE ExpressionSemantics ------------------------
(***************************************************************************)
(* The expressions the host program can write, and what they compute.       *)
(*                                                                         *)
(* Value<T> and Reference<T> give C++ types to AST nodes, and their         *)
(* operators build the nodes; what the templates refuse to compile is not   *)
(* an expression.  A node is one of FIAstNodes', with its type and what     *)
(* else it is built from: the value of a literal, the variable, what a call *)
(* does.  A reference is the node of its address and the node that reads    *)
(* it.                                                                      *)
(*                                                                         *)
(* What an expression computes in each execution mode.  The debug           *)
(* interpreter and the boilerplates of the fast interpreter are C++         *)
(* templates over the types of the operands: they compute on numbers, by    *)
(* the rules of C++.  LLVM mode emits instructions on bit patterns, chosen  *)
(* by the signedness of the types.  The modes evaluate operands in          *)
(* different orders, and the fast interpreter reads an operand that is part *)
(* of a boilerplate when that runs, after the others are computed.          *)
(*                                                                         *)
(* Memory maps the addresses of variables and array elements to the bit     *)
(* patterns in them, and a double is a number.  The outcome of a run is a   *)
(* value and the memory it leaves, or undefined: what C++ or the            *)
(* instruction leaves undefined, or an assertion of the debug interpreter.  *)
(***************************************************************************)
EXTENDS Integers, Sequences, FiniteSets

CONSTANTS
    Bits,      \* the width of each integer type
    Size       \* sizeof, by type

IntegerBase == {"bool", "i8", "u8", "i32", "u32", "i64", "u64"}
SignedBase == {"i8", "i32", "i64"}

\* The integer types in the order of their ranks; an int holds the product of two characters
ASSUME WidthAssumption ==
    /\ Bits \in [IntegerBase -> Nat \ {0}]
    /\ Bits["bool"] <= Bits["i8"] /\ Bits["i8"] = Bits["u8"]
    /\ 2 * Bits["u8"] < Bits["i32"] /\ Bits["i32"] = Bits["u32"]
    /\ Bits["i32"] < Bits["i64"] /\ Bits["i64"] = Bits["u64"]

-----------------------------------------------------------------------------
(* TypeId *)

Type(base) == [base |-> base, stars |-> 0]
AddPointer(t) == [t EXCEPT !.stars = @ + 1]
RemovePointer(t) == [t EXCEPT !.stars = @ - 1]

Bool == Type("bool")
U64 == Type("u64")
Double == Type("double")
Void == Type("void")

IsPointer(t) == t.stars > 0
IsPrimitiveInt(t) == ~IsPointer(t) /\ t.base \in IntegerBase
IsPrimitive(t) == IsPrimitiveInt(t) \/ t = Double
IsSigned(t) == ~IsPointer(t) /\ t.base \in SignedBase
Width(t) == IF IsPointer(t) THEN Bits["u64"] ELSE Bits[t.base]
SizeOf(t) == IF IsPointer(t) THEN Size["u64"] ELSE Size[t.base]

\* primitive_type_supports_binary_op
Orders == {"lt", "le", "gt", "ge"}

Supports(op, t) ==
    CASE op \in {"add", "sub", "mul", "div"} -> IsPrimitive(t) /\ t # Bool
      [] op = "mod" -> IsPrimitiveInt(t) /\ t # Bool
      [] op \in {"eq", "ne"} -> IsPrimitive(t)
      [] op \in Orders -> IsPrimitive(t) /\ t # Bool

\* may_explicit_convert
MayConvert(t, u) ==
    \/ IsPrimitiveInt(t) /\ IsPrimitive(u)
    \/ t = Double /\ u = Double

MayReinterpretCast(t, u) ==
    \/ IsPointer(t) /\ IsPointer(u)
    \/ IsPointer(t) /\ u = U64
    \/ t = U64 /\ IsPointer(u)

-----------------------------------------------------------------------------
(* Nodes *)

Node(node, kind, type, kids, arg) ==
    [node |-> node, kind |-> kind, type |-> type, kids |-> kids, arg |-> arg,
     class |-> IF type = Double THEN "float" ELSE "integral"]

\* IsTypeIdConstantValidForSmallCodeModel
FitsSmallCodeModel(t) ==
    /\ IsPrimitiveInt(t) /\ t # Type("u32")
    /\ Width(t) <= Bits["i32"]

Literal(t, n) ==
    Node("literal",
         IF n = 0 THEN "zero" ELSE IF FitsSmallCodeModel(t) THEN "small" ELSE "wide",
         t, << >>, n)

Arithmetic(op, l, r) == Node("arith", op, l.type, << l, r >>, 0)
Comparison(op, l, r) == Node("compare", op, Bool, << l, r >>, 0)
And(l, r) == Node("andOr", "and", Bool, << l, r >>, 0)
Or(l, r) == Node("andOr", "or", Bool, << l, r >>, 0)
Not(e) == Node("not", "", Bool, << e >>, 0)
StaticCast(t, e) == Node("staticCast", "other", t, << e >>, 0)
ReinterpretCast(t, e) == Node("reinterpretCast", "", t, << e >>, 0)

\* An up-cast moves the pointer to the base class within the object
Upcast(t, e, offset) ==
    Node("staticCast", IF offset = 0 THEN "noop" ELSE "upcast", t, << e >>, offset)

Forward(base, index) == Node("ptrArith", "add", base.type, << base, index >>, 0)
Backward(base, index) == Node("ptrArith", "sub", base.type, << base, index >>, 0)

-----------------------------------------------------------------------------
(* References *)

Reference(ptr) ==
    [ref |-> ptr,
     value |-> Node("deref", "", RemovePointer(ptr.type), << ptr >>, 0)]

Variable(t, x) ==
    [ref |-> Node("variable", "", AddPointer(t), << >>, x),
     value |-> Node("derefVar", "", t, << >>, x)]

Subscript(base, index) == Reference(Forward(base, index))

\* operator[] of a C++ integer, zero being no arithmetic at all
SubscriptLiteral(base, t, n) ==
    IF n = 0 THEN Reference(base) ELSE Subscript(base, Literal(t, n))

Assign(reference, e) == Node("assign", "", Void, << reference.ref, e >>, 0)

Increment(reference) ==
    LET e == reference.value
    IN  Assign(reference, Arithmetic("add", e, Literal(e.type, 1)))

\* What the templates let through.  Both operands have one type.
Compiles(e) ==
    CASE e.node \in {"arith", "compare"} ->
            /\ e.kids[1].type = e.kids[2].type
            /\ Supports(e.kind, e.kids[1].type)
      [] e.node = "staticCast" /\ e.kind = "other" -> MayConvert(e.kids[1].type, e.type)
      [] e.node = "reinterpretCast" -> MayReinterpretCast(e.kids[1].type, e.type)
      [] OTHER -> TRUE

\* A parameter of type const T&: the address of the reference, or of a copy
ConstRef(e) == Node("constRef", "", AddPointer(e.type), << e >>, 0)

-----------------------------------------------------------------------------
(* The modes *)

CONSTANTS
    Expressions,   \* what the host builds and runs
    Memories,      \* the memory it runs them in
    CellType,      \* the type of the object at each address
    TempAddress,   \* where an rvalue passed by const reference is put
    NaN            \* the number of a double that is none

Fast == INSTANCE FIAstNodes WITH
    NoSpillLimit <- [c \in {"integral", "float"} |-> 3]

VARIABLES
    expr, memory,  \* what runs, and where
    outcomes       \* by the modes it has run in

vars == << expr, memory, outcomes >>

Modes == << "debug", "fastinterp", "llvm" >>

Is(e, node) == e.node = node
Divisions == {"div", "mod"}

Number(t, bits) ==
    IF IsSigned(t) /\ bits >= 2 ^ (Width(t) - 1) THEN bits - 2 ^ Width(t) ELSE bits

Pattern(t, n) == IF t \in {Double, Void} THEN n ELSE n % 2 ^ Width(t)

\* A value as a mode holds it
Held(mode, t, bits) == IF mode = "llvm" THEN bits ELSE Number(t, bits)
Stored(mode, t, v) == IF mode = "llvm" THEN v ELSE Pattern(t, v)

-----------------------------------------------------------------------------
(* Outcomes *)

Outcome(v, mem) == [defined |-> TRUE, v |-> v, mem |-> mem]
Undefined == [defined |-> FALSE, v |-> 0, mem |-> << >>]

Then(outcome, Continue(_, _)) ==
    IF outcome.defined THEN Continue(outcome.v, outcome.mem) ELSE outcome

Check(condition, outcome) == IF condition THEN outcome ELSE Undefined

Load(mode, t, address, mem) ==
    IF address \in DOMAIN mem /\ CellType[address] = t
    THEN Outcome(Held(mode, t, mem[address]), mem)
    ELSE Undefined

Store(mode, t, address, v, mem) ==
    IF address \in DOMAIN mem /\ CellType[address] = t
    THEN Outcome(0, [mem EXCEPT ![address] = Stored(mode, t, v)])
    ELSE Undefined

-----------------------------------------------------------------------------
(* Arithmetic.  C++ computes integers narrower than int as ints; what a     *)
(* signed type cannot represent is undefined.                               *)

Magnitude(n) == IF n < 0 THEN -n ELSE n

\* Towards zero
Quotient(l, r) ==
    LET q == Magnitude(l) \div Magnitude(r)
    IN  IF (l < 0) = (r < 0) THEN q ELSE -q

Exact(op, l, r) ==
    CASE op = "add" -> l + r
      [] op = "sub" -> l - r
      [] op = "mul" -> l * r
      [] op = "div" -> Quotient(l, r)
      [] op = "mod" -> l - r * Quotient(l, r)

Represents(t, n) == n \in -(2 ^ (Width(t) - 1)) .. 2 ^ (Width(t) - 1) - 1

Promoted(t) == IF Width(t) < Bits["i32"] THEN Type("i32") ELSE t

\* What must be representable: the quotient, of a remainder too
Divides(op, t, l, r) ==
    op \in Divisions => r # 0 /\ (IsSigned(t) => Represents(t, Quotient(l, r)))

CppArithmetic(op, t, l, r, mem) ==
    Check(/\ Divides(op, Promoted(t), l, r)
          /\ IsSigned(Promoted(t)) /\ op \notin Divisions =>
                 Represents(Promoted(t), Exact(op, l, r)),
          Outcome(Number(t, Pattern(t, Exact(op, l, r))), mem))

\* add, sub and mul wrap; sdiv, udiv, srem or urem
LLVMArithmetic(op, t, l, r, mem) ==
    IF op \in Divisions
    THEN Check(Divides(op, t, Number(t, l), Number(t, r)),
               Outcome(Pattern(t, Exact(op, Number(t, l), Number(t, r))), mem))
    ELSE Outcome(Pattern(t, Exact(op, l, r)), mem)

(* Comparison *)

Ordered(op, l, r) ==
    CASE op = "eq" -> l = r
      [] op = "ne" -> l # r
      [] op = "lt" -> l < r
      [] op = "le" -> l <= r
      [] op = "gt" -> l > r
      [] op = "ge" -> l >= r

Truth(b) == IF b THEN 1 ELSE 0

CppComparison(op, t, l, r) ==
    Truth(IF t = Double /\ NaN \in {l, r} THEN op = "ne" ELSE Ordered(op, l, r))

\* icmp by signedness, and the fcmp that is true of an unordered pair
LLVMComparison(op, t, l, r) ==
    Truth(IF t = Double THEN NaN \in {l, r} \/ Ordered(op, l, r)
                        ELSE Ordered(op, Number(t, l), Number(t, r)))

-----------------------------------------------------------------------------
(* Conversions and addresses *)

CppConversion(from, to, n) ==
    CASE to = Bool -> Truth(n # 0)
      [] to = Double -> n
      [] OTHER -> Number(to, Pattern(to, n))

\* mutant: an integer is widened by the signedness of what it becomes
LLVMConversionByTarget(from, to, bits) ==
    CASE from = to -> bits
      [] to = Bool -> Truth(bits # 0)
      [] to = Double -> Number(from, bits)
      [] OTHER -> Pattern(to, IF IsSigned(to) /\ bits >= 2 ^ (Width(from) - 1)
                              THEN bits - 2 ^ Width(from) ELSE bits)

\* icmp ne, sitofp or uitofp, sext, zext or trunc
LLVMConversion(from, to, bits) ==
    CASE from = to -> bits
      [] to = Bool -> Truth(bits # 0)
      [] to = Double -> Number(from, bits)
      [] OTHER -> Pattern(to, Number(from, bits))

\* The debug interpreter asserts that no null pointer is cast
Cast(mode, e, v, mem) ==
    IF ~IsPointer(e.type)
    THEN Outcome(IF mode = "llvm" THEN LLVMConversion(e.kids[1].type, e.type, v)
                                  ELSE CppConversion(e.kids[1].type, e.type, v), mem)
    ELSE Check(mode = "debug" => v # 0, Outcome(Pattern(U64, v + e.arg), mem))

Forwards(pointer, base, index) ==
    Pattern(U64, base + index * SizeOf(RemovePointer(pointer)))

Moved(kind, pointer, base, index) ==
    Forwards(pointer, base, IF kind = "add" THEN index ELSE -index)

\* The index is extended to the width of a pointer first
LLVMMoved(kind, pointer, indexType, base, index) ==
    LET wide == LLVMConversion(indexType, U64, index)
    IN  Forwards(pointer, base,
                 IF kind = "add" THEN wide ELSE Pattern(U64, -wide))

-----------------------------------------------------------------------------
(* What a node makes of the values of its operands *)

Apply(mode, e, v, mem) ==
    LET operandType == e.kids[1].type
        llvm == mode = "llvm"
    IN
    CASE Is(e, "arith") ->
            IF llvm THEN LLVMArithmetic(e.kind, e.type, v[1], v[2], mem)
                    ELSE CppArithmetic(e.kind, e.type, v[1], v[2], mem)
      [] Is(e, "compare") ->
            Outcome(IF llvm THEN LLVMComparison(e.kind, operandType, v[1], v[2])
                            ELSE CppComparison(e.kind, operandType, v[1], v[2]), mem)
      [] Is(e, "not") -> Outcome(1 - v[1], mem)
      [] Is(e, "staticCast") -> Cast(mode, e, v[1], mem)
      [] Is(e, "reinterpretCast") -> Outcome(v[1], mem)
      [] Is(e, "ptrArith") ->
            Outcome(IF llvm
                    THEN LLVMMoved(e.kind, e.type, e.kids[2].type, v[1], v[2])
                    ELSE Moved(e.kind, e.type, v[1], v[2]), mem)
      [] Is(e, "deref") -> Load(mode, e.type, v[1], mem)
      [] Is(e, "assign") -> Store(mode, e.kids[2].type, v[1], v[2], mem)

\* A function the host registered: it has the address of a variable, assigns
\* the variable and returns what it has assigned
Call(t, x, n) == Node("call", "noexcept", t, << >>, << x, n >>)

Leaf(mode, e, mem) ==
    CASE Is(e, "literal") -> Outcome(Held(mode, e.type, Pattern(e.type, e.arg)), mem)
      [] Is(e, "variable") -> Outcome(e.arg, mem)
      [] Is(e, "derefVar") -> Load(mode, e.type, e.arg, mem)
      [] Is(e, "call") ->
            LET x == e.arg[1]  bits == Pattern(e.type, e.arg[2])
            IN  Outcome(Held(mode, e.type, bits), [mem EXCEPT ![x] = bits])

\* The alloca for a bool is an i1, which the helper that stores one refuses
Materialize(mode, t, v, mem) ==
    IF mode = "llvm" /\ t = Bool THEN Undefined
    ELSE Outcome(TempAddress, [mem EXCEPT ![TempAddress] = Stored(mode, t, v)])

ShortCircuits(e, v) == v = Truth(e.kind = "or")

-----------------------------------------------------------------------------
(* Debug interpreter and LLVM mode: operands in order, the source of an     *)
(* assignment before its destination                                        *)

RECURSIVE Evaluate(_, _, _)
Evaluate(mode, e, mem) ==
    LET both(first, second) ==
            Then(Evaluate(mode, e.kids[first], mem), LAMBDA v1, mem1 :
            Then(Evaluate(mode, e.kids[second], mem1), LAMBDA v2, mem2 :
            Apply(mode, e, IF first = 1 THEN << v1, v2 >> ELSE << v2, v1 >>, mem2)))
    IN
    CASE Is(e, "andOr") ->
            Then(Evaluate(mode, e.kids[1], mem), LAMBDA v, mem1 :
                 IF ShortCircuits(e, v) THEN Outcome(v, mem1)
                                        ELSE Evaluate(mode, e.kids[2], mem1))
      [] Is(e, "constRef") ->
            Then(Evaluate(mode, e.kids[1], mem), LAMBDA v, mem1 :
                 Materialize(mode, e.kids[1].type, v, mem1))
      [] Is(e, "assign") -> both(2, 1)
      [] Len(e.kids) = 0 -> Leaf(mode, e, mem)
      [] Len(e.kids) = 1 ->
            Then(Evaluate(mode, e.kids[1], mem), LAMBDA v, mem1 :
                 Apply(mode, e, << v >>, mem1))
      [] Len(e.kids) = 2 /\ ~Is(e, "andOr") /\ ~Is(e, "assign") -> both(1, 2)

-----------------------------------------------------------------------------
(* Fast interpreter *)

\* AstFIOperandShape::get_address: the address of an element of type t, whose
\* variables are read when the boilerplate runs
ElementAddress(t, e, mem) ==
    LET shape == Fast!AddressShape(e)
        pointer(variable) == mem[variable.arg]
    IN
    CASE shape = "variable" -> e.arg
      [] shape = "varptrDeref" ->
            pointer(CASE Is(e, "derefVar") -> e
                      [] Is(e, "ptrArith") -> e.kids[1]
                      [] Is(e, "reinterpretCast") -> e.kids[1].kids[1])
      [] shape \in {"varptrVar", "varptrLit"} ->
            Forwards(AddPointer(t), pointer(e.kids[1]),
                     Leaf("fastinterp", e.kids[2], mem).v)
      [] shape = "varptrOffset" ->
            Pattern(U64, pointer(e.kids[1].kids[1]) + e.kids[1].kids[2].arg)

\* FIOperandShapeCategoryHelper::get
Inlined(e, mem) ==
    IF Is(e, "deref")
    THEN Load("fastinterp", e.type, ElementAddress(e.type, e.kids[1], mem), mem)
    ELSE Leaf("fastinterp", e, mem)

\* Operand i: computed before, as one of args, or inlined
Operand(e, i, args, mem) ==
    LET paths == Fast!Operands(e)
        computed == {k \in DOMAIN paths : paths[k] = << i >>}
    IN
    IF computed # {}
    THEN Outcome(args[CHOOSE k \in computed : TRUE], mem)
    ELSE IF Is(e, "assign") /\ i = 1
         THEN Outcome(ElementAddress(e.kids[2].type, e.kids[1], mem), mem)
         ELSE Inlined(e.kids[i], mem)

\* v = a op b in one boilerplate
AssignArithmetic(e, mem) ==
    LET src == e.kids[2] IN
    Then(Inlined(src.kids[1], mem), LAMBDA l, m1 :
    Then(Inlined(src.kids[2], mem), LAMBDA r, m2 :
    Then(CppArithmetic(src.kind, src.type, l, r, mem), LAMBDA v, m3 :
    Store("fastinterp", src.type, e.kids[1].arg, v, mem))))

\* mutant: an element lies index bytes after the first
IndexedByBytes(e, args, mem) ==
    LET base == IF args = << >> THEN mem[e.kids[1].kids[1].arg] ELSE args[1] IN
    Then(Inlined(e.kids[1].kids[2], mem), LAMBDA index, m1 :
    Load("fastinterp", e.type, Pattern(U64, base + index), mem))

\* base[index] in one boilerplate: the base is read after the index
Indexed(e, args, mem) ==
    LET base == IF args = << >> THEN mem[e.kids[1].kids[1].arg] ELSE args[1] IN
    Then(Inlined(e.kids[1].kids[2], mem), LAMBDA index, m1 :
    Load("fastinterp", e.type,
         Forwards(AddPointer(e.type), base, index), mem))

Boilerplate(e, args, mem) ==
    CASE Is(e, "assign") /\ Fast!AssignsInlinedArith(e) -> AssignArithmetic(e, mem)
      [] Is(e, "deref") /\ Fast!IndexesInlined(e) -> Indexed(e, args, mem)
      [] Len(e.kids) = 0 -> Leaf("fastinterp", e, mem)
      [] Len(e.kids) = 1 ->
            Then(Operand(e, 1, args, mem), LAMBDA v, m1 :
            Apply("fastinterp", e, << v >>, mem))
      [] OTHER ->
            Then(Operand(e, 1, args, mem), LAMBDA v1, m1 :
            Then(Operand(e, 2, args, mem), LAMBDA v2, m2 :
            Apply("fastinterp", e, << v1, v2 >>, mem)))

RECURSIVE FastEvaluate(_, _)
FastEvaluate(e, mem) ==
    LET paths == Fast!Operands(e)
        operand(k) == Fast!Sub(e, paths[k])
    IN
    CASE Is(e, "andOr") ->
            Then(FastEvaluate(e.kids[1], mem), LAMBDA v, mem1 :
            IF ShortCircuits(e, v) THEN Outcome(v, mem1)
                                   ELSE FastEvaluate(e.kids[2], mem1))
      [] Is(e, "constRef") ->
            Then(FastEvaluate(e.kids[1], mem), LAMBDA v, mem1 :
            Materialize("fastinterp", e.kids[1].type, v, mem1))
      [] OTHER ->
            CASE Len(paths) = 0 -> Boilerplate(e, << >>, mem)
              [] Len(paths) = 1 ->
                    Then(FastEvaluate(operand(1), mem), LAMBDA v, mem1 :
                    Boilerplate(e, << v >>, mem1))
              [] OTHER ->
                    Then(FastEvaluate(operand(1), mem), LAMBDA v1, mem1 :
                    Then(FastEvaluate(operand(2), mem1), LAMBDA v2, mem2 :
                    Boilerplate(e, << v1, v2 >>, mem2)))

-----------------------------------------------------------------------------
TypeOf(mode, t) ==
    CASE t = Void -> {0}
      [] t = Double -> Int
      [] mode = "llvm" \/ ~IsSigned(t) -> 0 .. 2 ^ Width(t) - 1
      [] OTHER -> -(2 ^ (Width(t) - 1)) .. 2 ^ (Width(t) - 1) - 1

\* The host runs it in one mode after the other, each time on the same memory
Run ==
    /\ Cardinality(DOMAIN outcomes) < Len(Modes)
    /\ LET mode == Modes[Cardinality(DOMAIN outcomes) + 1]
       IN  outcomes' = [m \in DOMAIN outcomes \cup {mode} |->
               IF m # mode THEN outcomes[m]
               ELSE IF m = "fastinterp" THEN FastEvaluate(expr, memory)
               ELSE Evaluate(m, expr, memory)]
    /\ UNCHANGED << expr, memory >>

Init ==
    /\ expr \in Expressions
    /\ memory \in Memories
    /\ outcomes = << >>

Spec == Init /\ [][Run]_vars

-----------------------------------------------------------------------------
(* Properties *)

\* A value is one of its type as the mode holds it, and every object keeps a
\* bit pattern of its own type.
TypeOK ==
    \A mode \in DOMAIN outcomes : outcomes[mode].defined =>
        /\ outcomes[mode].v \in TypeOf(mode, expr.type)
        /\ DOMAIN outcomes[mode].mem = DOMAIN memory
        /\ \A x \in DOMAIN memory :
               outcomes[mode].mem[x] \in TypeOf("llvm", CellType[x])

\* The two modes that ran end alike: the value and all of memory
Alike(m1, m2) ==
    /\ outcomes[m2].defined
    /\ outcomes[m2].mem = outcomes[m1].mem
    /\ Stored(m2, expr.type, outcomes[m2].v) = Stored(m1, expr.type, outcomes[m1].v)

Compared(m1, m2) == {m1, m2} \subseteq DOMAIN outcomes /\ outcomes[m1].defined

(* Where the instructions of LLVM mode are not C++.  The operands are those  *)
(* that the debug interpreter computes.                                      *)

Value(e) == Evaluate("debug", e, memory).v

\* Every comparison with NaN is true, where C++ has only != true
ComparesNaN(e) ==
    /\ Is(e, "compare") /\ e.kind # "ne" /\ e.kids[1].type = Double
    /\ NaN \in {Value(e.kids[1]), Value(e.kids[2])}

\* The smallest narrow integer and -1: C++ divides them as ints
NarrowQuotientOverflows(e) ==
    /\ Is(e, "arith") /\ e.kind \in Divisions /\ Promoted(e.type) # e.type
    /\ IsSigned(e.type)
    /\ Value(e.kids[1]) = -(2 ^ (Width(e.type) - 1)) /\ Value(e.kids[2]) = -1

\* The helper that stores a bool refuses the memory of the copy
RefersToBoolCopy(e) == Is(e, "constRef") /\ e.kids[1].type = Bool

RECURSIVE Nodes(_)
Nodes(e) == {e} \cup UNION {Nodes(e.kids[i]) : i \in DOMAIN e.kids}

LLVMDiffers ==
    \E e \in Nodes(expr) :
        ComparesNaN(e) \/ NarrowQuotientOverflows(e) \/ RefersToBoolCopy(e)

\* What the debug interpreter computes, LLVM mode computes: the instructions
\* chosen by signedness, the widening of indices, the conversions and the
\* short circuits are those of C++, for every value of the operands for which
\* C++ defines the result but in three cases, in all of which the modes differ:
\* a comparison with NaN other than != (arith_expr_llvm.cpp:109), the smallest
\* narrow integer divided by -1 (:58), and the copy of a bool for a parameter
\* of type const bool& (common_expr_llvm.cpp:164).
DebugAndLLVMAgree ==
    Compared("debug", "llvm") => (Alike("debug", "llvm") <=> ~LLVMDiffers)

\* Nothing an operand does is seen by its sibling
RECURSIVE Calls(_)
Calls(e) ==
    (IF Is(e, "call") THEN {e.arg[1]} ELSE {})
    \cup UNION {Calls(e.kids[i]) : i \in DOMAIN e.kids}

RECURSIVE Reads(_)
Reads(e) ==
    CASE Is(e, "derefVar") -> {e.arg}
      [] Is(e, "deref") -> DOMAIN CellType
      [] OTHER -> UNION {Reads(e.kids[i]) : i \in DOMAIN e.kids}

RECURSIVE Independent(_)
Independent(e) ==
    /\ \A i, j \in DOMAIN e.kids :
           i # j /\ ~Is(e, "andOr") =>
               Calls(e.kids[i]) \cap (Calls(e.kids[j]) \cup Reads(e.kids[j])) = {}
    /\ \A i \in DOMAIN e.kids : Independent(e.kids[i])

\* What the debug interpreter computes, the boilerplates compute, whichever
\* operands are inlined and though these are read last, unless one operand
\* changes what another reads.
FastInterpAgrees ==
    Compared("debug", "fastinterp") /\ Independent(expr) =>
        Alike("debug", "fastinterp")

\* "Important to evaluate left side first: it may have side effects"
\* (arith_expr_llvm.cpp), in whichever mode. Violated: the right operand of a
\* boilerplate that inlines the left one runs first.
LeftSideFirst == Compared("debug", "fastinterp") => Alike("debug", "fastinterp")
=============================================================================

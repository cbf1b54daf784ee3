----------------------------- MODULE FIAstNodes -----------------------------
(***************************************************************************)
(* Expressions in fast interpreter mode.                                   *)
(*                                                                         *)
(* First the boilerplates, one operator per fastinterp_tpl_*.cpp.  A       *)
(* boilerplate is a function that is entered with the pending values of    *)
(* each class in registers, topped by the operands it takes from registers *)
(* and continues with the pending values, topped by its result unless that *)
(* goes to the stack.  Templates are specialised for the number of pending *)
(* values, and only the specialisations their cond() admits are built.     *)
(* The data they work on is left out; what they read and where, and what   *)
(* exists, is not.  n[c] is the numOIP, numOFP a blueprint is selected     *)
(* with: exactly so many pending values, or at the limit all there may be. *)
(*                                                                         *)
(* Then what each expression node compiles to: which of its operands are   *)
(* inlined into its boilerplate and which are computed by code of their    *)
(* own (the inline shape, chosen by FastInterpSetupSpillLocation), and the *)
(* boilerplate PrepareForFastInterp then selects.  A node is               *)
(* [node, kind, class, kids]: the C++ class, the operator or the literal   *)
(* where the code looks at it, the register class of its type, and its     *)
(* operands.  Index types are the 32- and 64-bit integers.                 *)
(***************************************************************************)
EXTENDS Integers, Sequences

CONSTANT NoSpillLimit  \* x_fastinterp_max_{integral,floating_point}_params

Class == {"integral", "float"}

\* The address of a new stack frame and one parameter must fit
RegistersOK ==
    NoSpillLimit \in [Class -> Nat \ {0}] /\ NoSpillLimit["integral"] >= 2

NoSpill == -1                          \* x_FINoSpill

\* A value of a class, where it is kept, and which one it is
Value(c, loc, tag) == [class |-> c, loc |-> loc, tag |-> tag]

InRegister(v) == v.loc = NoSpill

\* exists: whether the library has the specialisation
Boilerplate(exists, reads, out, n) ==
    [exists |-> exists, reads |-> reads,
     out |-> SelectSeq(out, LAMBDA v : v.class \in Class),
     opaque |-> n, skip |-> 0, checks |-> FALSE, binds |-> FALSE,
     exits |-> << >>]

\* FIOpaqueParamsHelper::CanPush
CanPush(n, c, k) == n[c] + k <= NoSpillLimit[c]

AllOpaque(n, c) == ~CanPush(n, c, 1)

\* As many values as a list of operands takes from the registers of a class
FromRegisters(args, c) ==
    Len(SelectSeq(args, LAMBDA v : v.class = c /\ InRegister(v)))

\* "just assume the max, so less templates are generated"
ExactOnlyFor(S, n) == \A c \in Class \ S : AllOpaque(n, c)

-----------------------------------------------------------------------------
(* Arithmetic *)

Divisions == {"div", "mod"}

InlinedArithmeticExpr(rhsShape, op, out, n) ==
    Boilerplate(/\ ~(op \in Divisions /\ rhsShape = "zero")
                /\ InRegister(out) => CanPush(n, out.class, 1),
                << >>, << out >>, n)

PartialInlineArithmeticExpr(shape, inlinedLhs, op, args, out, n) ==
    Boilerplate(/\ CanPush(n, out.class, 1) /\ ExactOnlyFor({out.class}, n)
                /\ ~(~inlinedLhs /\ op \in Divisions /\ shape = "zero"),
                args, << out >>, n)

OutlinedArithmeticExpr(args, out, n) ==
    Boilerplate(CanPush(n, out.class, FromRegisters(args, out.class)),
                args, << out >>, n)

(* Comparison *)

InlinedComparisonExpr(lhsShape, rhsShape, out, n) ==
    Boilerplate(/\ ~(lhsShape = "literal" /\ rhsShape = "literal")
                /\ InRegister(out) => CanPush(n, "integral", 1)
                /\ AllOpaque(n, "float"),
                << >>, << out >>, n)

PartialInlineComparisonExpr(args, out, n) ==
    LET c == args[1].class
    IN  Boilerplate(/\ InRegister(out) => CanPush(n, "integral", 1)
                    /\ CanPush(n, c, 1)
                    /\ c # "float" => AllOpaque(n, "float"),
                    args, << out >>, n)

OutlinedComparisonExpr(args, out, n) ==
    LET c == args[2].class
    IN  Boilerplate(/\ ~InRegister(out) => CanPush(n, "integral", 1)
                    /\ CanPush(n, c, FromRegisters(args, c))
                    /\ c # "float" => AllOpaque(n, "float"),
                    args, << out >>, n)

(* Assignment *)

InlinedAssignArithExpr(rhsShape, op, n) ==
    Boilerplate(/\ ExactOnlyFor({}, n)
                /\ ~(op \in Divisions /\ rhsShape = "zero"),
                << >>, << >>, n)

InlinedAssign(n) == Boilerplate(ExactOnlyFor({}, n), << >>, << >>, n)

PartialInlineLhsAssign(args, n) ==
    LET c == args[1].class
    IN  Boilerplate(CanPush(n, c, 1) /\ ExactOnlyFor({c}, n), args, << >>, n)

PartialInlineRhsAssign(args, n) ==
    Boilerplate(CanPush(n, "integral", 1) /\ AllOpaque(n, "float"),
                args, << >>, n)

OutlinedAssign(args, n) ==
    Boilerplate(/\ CanPush(n, "integral", FromRegisters(args, "integral"))
                /\ IF args[2].class = "float" THEN CanPush(n, "float", 1)
                                              ELSE AllOpaque(n, "float"),
                args, << >>, n)

(* Memory *)

InlinedDereference(out, n) ==
    Boilerplate(\A c \in Class : IF InRegister(out) /\ out.class = c
                                 THEN CanPush(n, c, 1) ELSE AllOpaque(n, c),
                << >>, << out >>, n)

PartialInlineRhsDereference(args, out, n) ==
    Boilerplate(/\ CanPush(n, "integral", 1)
                /\ IF InRegister(out) /\ out.class = "float"
                   THEN CanPush(n, "float", 1) ELSE AllOpaque(n, "float"),
                args, << out >>, n)

OutlinedPointerArithmetic(args, out, n) ==
    Boilerplate(CanPush(n, "integral", 2) /\ AllOpaque(n, "float"),
                args, << out >>, n)

PartialInlineLhsPointerArithmetic(args, out, n) ==
    Boilerplate(CanPush(n, "integral", 1) /\ AllOpaque(n, "float"),
                args, << out >>, n)

DerefVariable(out, n) ==
    Boilerplate(\A c \in Class : IF InRegister(out) /\ out.class = c
                                 THEN CanPush(n, c, 1) ELSE AllOpaque(n, c),
                << >>, << out >>, n)

Variable(out, n) ==
    Boilerplate(InRegister(out) => CanPush(n, "integral", 1),
                << >>, << out >>, n)

LiteralExists(out, n) ==
    \A c \in Class : IF InRegister(out) /\ out.class = c
                     THEN CanPush(n, c, 1) ELSE AllOpaque(n, c)

LiteralMcSmall(wide, out, n) ==
    Boilerplate(~wide /\ LiteralExists(out, n), << >>, << out >>, n)

LiteralMcMedium(wide, out, n) ==
    Boilerplate(wide /\ LiteralExists(out, n), << >>, << out >>, n)

(* Conversions and logic *)

PointerCast(isNoop, args, out, n) ==
    Boilerplate(/\ ~(isNoop /\ InRegister(out))
                /\ CanPush(n, "integral", 1) /\ AllOpaque(n, "float"),
                args, << out >>, n)

StaticCast(args, out, n) ==
    Boilerplate(/\ ~(args[1].class = "float" /\ out.class = "integral")
                /\ CanPush(n, args[1].class, 1)
                /\ InRegister(out) => CanPush(n, out.class, 1),
                args, << out >>, n)

StaticCastU64Double(args, out, n) ==
    Boilerplate(/\ CanPush(n, "integral", 1)
                /\ InRegister(out) => CanPush(n, "float", 1),
                args, << out >>, n)

LogicalNot(args, out, n) ==
    Boilerplate(CanPush(n, "integral", 1) /\ AllOpaque(n, "float"),
                args, << out >>, n)

\* The result is produced when the left operand decides, with a jump over
\* the code of the right one
LogicalAndOr(args, out, n, skip) ==
    [Boilerplate(CanPush(n, "integral", 1) /\ AllOpaque(n, "float"),
                 args, << out >>, n)
     EXCEPT !.skip = skip]

(* Conditional branches: continuation 0 is the true branch, 1 the false one.  *)
(* The variants lay the jump out differently: one favours the true branch.    *)

TrueBr == -1
FalseBr == -2

ConditionalBranch(exists, args, n) ==
    [Boilerplate(exists, args, << >>, n) EXCEPT !.exits = << TrueBr, FalseBr >>]

FullyInlinedComparisonFavourTrueBranch(lhsShape, rhsShape, n) ==
    ConditionalBranch(/\ ~(lhsShape = "literal" /\ rhsShape = "literal")
                      /\ ExactOnlyFor({}, n),
                      << >>, n)

FullyInlinedComparisonUnpredictableBranch(lhsShape, rhsShape, n) ==
    ConditionalBranch(/\ ~(lhsShape = "literal" /\ rhsShape = "literal")
                      /\ ExactOnlyFor({}, n),
                      << >>, n)

PartialInlinedComparisonFavourTrueBranch(args, n) ==
    ConditionalBranch(/\ CanPush(n, args[1].class, 1)
                      /\ ExactOnlyFor({args[1].class}, n),
                      args, n)

PartialInlinedComparisonUnpredictableBranch(args, n) ==
    ConditionalBranch(/\ CanPush(n, args[1].class, 1)
                      /\ ExactOnlyFor({args[1].class}, n),
                      args, n)

OutlinedConditionalFavourTrueBranch(args, n) ==
    ConditionalBranch(CanPush(n, "integral", 1) /\ AllOpaque(n, "float"), args, n)

OutlinedConditionalUnpredictableBranch(args, n) ==
    ConditionalBranch(CanPush(n, "integral", 1) /\ AllOpaque(n, "float"), args, n)

Noop(n) == Boilerplate(ExactOnlyFor({}, n), << >>, << >>, n)

(* Calls and returns *)

NothingPending == [c \in Class |-> 0]

\* CallExpr enters its continuation with the new stack frame address on top of
\* the stack frame register; no pending values survive the call.
CallExprEnter(newSf) ==
    Boilerplate(TRUE, << >>, << newSf >>, NothingPending)

CallExprReturn(out, exn) ==
    Boilerplate(TRUE, << >>, << out >> \o exn, NothingPending)

StoreParam(newSf, param, hasMore) ==
    Boilerplate(TRUE, << newSf, param >>,
                IF InRegister(newSf) /\ hasMore THEN << newSf >> ELSE << >>,
                NothingPending)

\* Copies the value into the new stack frame and passes the copy's address.
\* It is instantiated for the type of the reference, which is a pointer.
StoreConstRef(newSf, value, hasMore) ==
    [StoreParam(newSf, [value EXCEPT !.class = "integral"], hasMore)
     EXCEPT !.binds = TRUE]

SpillStackAddr(newSf, to) ==
    Boilerplate(TRUE, << newSf >>, << to >>, NothingPending)

FakeSpillStackAddr(newSf) ==
    Boilerplate(TRUE, << newSf >>, << >>, NothingPending)

CheckException(exn, n) ==
    [Boilerplate(n["integral"] + n["float"] <= 1, << exn >>, << >>, n)
     EXCEPT !.checks = TRUE]

InlinedReturn == Boilerplate(TRUE, << >>, << >>, NothingPending)

OutlinedReturn(args, n) ==
    Boilerplate(\A i \in DOMAIN args : CanPush(n, args[i].class, 1),
                args, << >>, n)

ReturnSpilledLocation(args) == Boilerplate(TRUE, args, << >>, NothingPending)

-----------------------------------------------------------------------------
(* What each expression node compiles to *)

Is(e, node) == e.node = node

\* AstFISimpleOperandShape::TryMatch
SimpleShape(e) ==
    CASE Is(e, "derefVar") -> "variable"
      [] Is(e, "literal") /\ e.kind = "zero" -> "zero"
      [] Is(e, "literal") /\ e.kind = "small" -> "literal"
      [] OTHER -> "none"

\* InternalTryMatchIndexShape: *v, v[i], v[12] and the fields of a struct
IndexShape(e) ==
    LET inner == e.kids[1]
    IN  CASE Is(e, "derefVar") -> "varptrDeref"
          [] Is(e, "ptrArith") /\ e.kind = "add" /\ Is(inner, "derefVar") ->
                CASE Is(e.kids[2], "derefVar") -> "varptrVar"
                  [] Is(e.kids[2], "literal") /\ e.kids[2].kind = "zero" ->
                        "varptrDeref"
                  [] Is(e.kids[2], "literal") /\ e.kids[2].kind = "small" ->
                        "varptrLit"
                  [] OTHER -> "none"
          [] Is(e, "reinterpretCast") /\ Is(inner, "arith")
             /\ inner.kind = "add" /\ Is(inner.kids[1], "derefVar")
             /\ Is(inner.kids[2], "literal") ->
                IF inner.kids[2].kind = "zero" THEN "varptrDeref"
                                               ELSE "varptrOffset"
          [] OTHER -> "none"

\* AstFIOperandShape::TryMatch, TryMatchAddress
OperandShape(e) ==
    CASE Is(e, "derefVar") \/ Is(e, "literal") -> SimpleShape(e)
      [] Is(e, "deref") -> IndexShape(e.kids[1])
      [] OTHER -> "none"

AddressShape(e) == IF Is(e, "variable") THEN "variable" ELSE IndexShape(e)

Matches(shape) == shape # "none"
BothMatch(s, t) == Matches(s) /\ Matches(t)

-----------------------------------------------------------------------------
(* Inline shapes: the operands computed by code of their own, by path *)

None == << >>
Lhs == << << 1 >> >>
Rhs == << << 2 >> >>
BothSides == << << 1 >>, << 2 >> >>

ByZero(e, shape) == e.kind \in Divisions /\ shape = "zero"

\* mutant: the division by a literal zero is inlined like any other
ArithmeticOperandsInlineZero(e) ==
    LET l == e.kids[1]  r == e.kids[2] IN
    CASE BothMatch(SimpleShape(l), SimpleShape(r)) -> None
      [] Matches(OperandShape(l)) -> Rhs
      [] Matches(OperandShape(r)) -> Lhs
      [] OTHER -> BothSides

ArithmeticOperands(e) ==
    LET l == e.kids[1]  r == e.kids[2] IN
    CASE BothMatch(SimpleShape(l), SimpleShape(r)) /\ ~ByZero(e, SimpleShape(r)) ->
            None
      [] Matches(OperandShape(l)) -> Rhs
      [] Matches(OperandShape(r)) /\ ~ByZero(e, OperandShape(r)) -> Lhs
      [] OTHER -> BothSides

ComparisonOperands(e) ==
    LET l == e.kids[1]  r == e.kids[2] IN
    CASE /\ BothMatch(SimpleShape(l), SimpleShape(r))
         /\ ~(SimpleShape(l) = "literal" /\ SimpleShape(r) = "literal") -> None
      [] Matches(OperandShape(l)) -> Rhs
      [] Matches(OperandShape(r)) -> Lhs
      [] OTHER -> BothSides

\* FIShape::INLINE_ARITH: v = a op b
AssignsInlinedArith(e) ==
    LET dst == e.kids[1]  src == e.kids[2] IN
    /\ Is(dst, "variable") /\ Is(src, "arith")
    /\ BothMatch(OperandShape(src.kids[1]), OperandShape(src.kids[2]))

AssignOperands(e) ==
    LET dst == e.kids[1]  src == e.kids[2] IN
    CASE AssignsInlinedArith(e) -> None
      [] BothMatch(AddressShape(dst), OperandShape(src)) -> None
      [] Matches(AddressShape(dst)) -> Rhs
      [] Matches(OperandShape(src)) -> Lhs
      [] OTHER -> BothSides

\* base[index], inlined as far as the index is
IndexesInlined(e) ==
    LET address == e.kids[1] IN
    /\ Is(address, "ptrArith") /\ address.kind = "add"
    /\ Matches(OperandShape(address.kids[2]))

DereferenceOperands(e) ==
    CASE IndexesInlined(e) /\ Is(e.kids[1].kids[1], "derefVar") -> None
      [] IndexesInlined(e) -> << << 1, 1 >> >>
      [] OTHER -> Lhs

PointerArithmeticOperands(e) ==
    IF Is(e.kids[1], "derefVar") THEN Rhs ELSE BothSides

ReturnOperands(e) ==
    IF e.kids = << >> \/ (e.kind # "dtors" /\ Matches(OperandShape(e.kids[1])))
    THEN None ELSE Lhs

\* FIGenerateConditionalBranchHelper, for a condition that is not a chain: a
\* comparison is inlined with shapes its own code would not inline both of.
BranchOperands(e) ==
    LET cond == e.kids[1]
        lhs == OperandShape(cond.kids[1])  rhs == OperandShape(cond.kids[2])
    IN
    CASE ~Is(cond, "compare") -> Lhs
      [] BothMatch(lhs, rhs) /\ ~(lhs = "literal" /\ rhs = "literal") -> None
      [] Matches(lhs) -> << << 1, 2 >> >>
      [] Matches(rhs) -> << << 1, 1 >> >>
      [] OTHER -> Lhs

Operands(e) ==
    CASE Is(e, "arith") -> ArithmeticOperands(e)
      [] Is(e, "compare") -> ComparisonOperands(e)
      [] Is(e, "assign") -> AssignOperands(e)
      [] Is(e, "deref") -> DereferenceOperands(e)
      [] Is(e, "ptrArith") -> PointerArithmeticOperands(e)
      [] Is(e, "return") -> ReturnOperands(e)
      [] Is(e, "branch") -> BranchOperands(e)
      [] e.node \in {"staticCast", "reinterpretCast", "not"} -> Lhs
      [] OTHER -> None

Sub(e, path) ==
    IF Len(path) = 1 THEN e.kids[path[1]] ELSE e.kids[path[1]].kids[path[2]]

\* The name of an operand: a branch only stands for its condition
OperandAt(e, at, path) == at \o (IF Is(e, "branch") THEN Tail(path) ELSE path)

-----------------------------------------------------------------------------
(* PrepareForFastInterp: the boilerplates, for the operands args computed   *)
(* before, the place the result goes to, and the values pending             *)

\* Exact numbers for some classes, the maximum for the others
Only(S, pending) ==
    [c \in Class |-> IF c \in S THEN pending[c] ELSE NoSpillLimit[c]]

ArithmeticCode(e, args, out, pending) ==
    LET l == e.kids[1]  r == e.kids[2]
        inlinedLhs == Operands(e) = Rhs
    IN  CASE args = << >> ->
                InlinedArithmeticExpr(SimpleShape(r), e.kind, out, pending)
          [] Len(args) = 1 ->
                PartialInlineArithmeticExpr(
                    OperandShape(IF inlinedLhs THEN l ELSE r), inlinedLhs,
                    e.kind, args, out, Only({e.class}, pending))
          [] OTHER -> OutlinedArithmeticExpr(args, out, pending)

\* The class of the operands, and always the class of the result
ComparisonCode(e, args, out, pending) ==
    LET l == e.kids[1]  r == e.kids[2]
        n == IF l.class = "float" THEN pending ELSE Only({"integral"}, pending)
    IN  CASE args = << >> ->
                InlinedComparisonExpr(SimpleShape(l), SimpleShape(r), out,
                                      Only({"integral"}, pending))
          [] Len(args) = 1 -> PartialInlineComparisonExpr(args, out, n)
          [] OTHER -> OutlinedComparisonExpr(args, out, n)

AssignCode(e, args, pending) ==
    LET src == e.kids[2]
    IN  CASE AssignsInlinedArith(e) ->
                InlinedAssignArithExpr(OperandShape(src.kids[2]), src.kind,
                                       Only({}, pending))
          [] args = << >> -> InlinedAssign(Only({}, pending))
          [] Operands(e) = Rhs ->
                PartialInlineLhsAssign(args, Only({src.class}, pending))
          [] Operands(e) = Lhs ->
                PartialInlineRhsAssign(args, Only({"integral"}, pending))
          [] OTHER ->
                OutlinedAssign(args, IF src.class = "float" THEN pending
                                     ELSE Only({"integral"}, pending))

DereferenceCode(e, args, out, pending) ==
    LET toRegister == IF InRegister(out) THEN {e.class} ELSE {}
    IN  IF args = << >>
        THEN InlinedDereference(out, Only(toRegister, pending))
        ELSE PartialInlineRhsDereference(args, out,
                 Only({"integral"} \cup toRegister, pending))

\* A spilled base is read like a variable
PointerArithmeticCode(e, args, out, pending) ==
    LET n == Only({"integral"}, pending)
    IN  IF Len(args) = 2 /\ InRegister(args[1])
        THEN OutlinedPointerArithmetic(args, out, n)
        ELSE PartialInlineLhsPointerArithmetic(args, out, n)

LiteralCode(e, out, pending) ==
    LET n == Only(IF InRegister(out) THEN {e.class} ELSE {}, pending)
        wide == e.kind = "wide"
    IN  IF wide THEN LiteralMcMedium(wide, out, n)
                ELSE LiteralMcSmall(wide, out, n)

DerefVariableCode(e, out, pending) ==
    DerefVariable(out, Only(IF InRegister(out) THEN {e.class} ELSE {}, pending))

VariableCode(e, out, pending) == Variable(out, pending)

\* Nothing is generated when the value can stay where it is
ReinterpretCastCode(e, args, out, pending) ==
    IF InRegister(out) THEN << >>
    ELSE << PointerCast(TRUE, args, out, Only({"integral"}, pending)) >>

StaticCastCode(e, args, out, pending) ==
    CASE e.kind = "upcast" ->
            << PointerCast(FALSE, args, out, Only({"integral"}, pending)) >>
      [] e.kind = "noop" -> ReinterpretCastCode(e, args, out, pending)
      [] e.kind = "u64Double" -> << StaticCastU64Double(args, out, pending) >>
      [] OTHER -> << StaticCast(args, out, pending) >>

LogicalNotCode(e, args, out, pending) ==
    LogicalNot(args, out, Only({"integral"}, pending))

ReturnCode(e, args, pending) ==
    IF Operands(e) = None /\ e.kids # << >>
    THEN InlinedReturn ELSE OutlinedReturn(args, pending)

\* Kind "favourTrue" or "unpredictable"
BranchCode(e, args, pending) ==
    LET favourTrue == e.kind = "favourTrue"
        cond == e.kids[1]
        shape(i) == OperandShape(cond.kids[i])
    IN  CASE args = << >> ->
                IF favourTrue
                THEN FullyInlinedComparisonFavourTrueBranch(
                         shape(1), shape(2), Only({}, pending))
                ELSE FullyInlinedComparisonUnpredictableBranch(
                         shape(1), shape(2), Only({}, pending))
          [] Operands(e) # Lhs ->
                IF favourTrue
                THEN PartialInlinedComparisonFavourTrueBranch(
                         args, Only({args[1].class}, pending))
                ELSE PartialInlinedComparisonUnpredictableBranch(
                         args, Only({args[1].class}, pending))
          [] OTHER ->
                IF favourTrue
                THEN OutlinedConditionalFavourTrueBranch(
                         args, Only({"integral"}, pending))
                ELSE OutlinedConditionalUnpredictableBranch(
                         args, Only({"integral"}, pending))

Code(e, args, out, pending) ==
    CASE Is(e, "arith") -> << ArithmeticCode(e, args, out, pending) >>
      [] Is(e, "compare") -> << ComparisonCode(e, args, out, pending) >>
      [] Is(e, "assign") -> << AssignCode(e, args, pending) >>
      [] Is(e, "deref") -> << DereferenceCode(e, args, out, pending) >>
      [] Is(e, "ptrArith") -> << PointerArithmeticCode(e, args, out, pending) >>
      [] Is(e, "literal") -> << LiteralCode(e, out, pending) >>
      [] Is(e, "derefVar") -> << DerefVariableCode(e, out, pending) >>
      [] Is(e, "variable") -> << VariableCode(e, out, pending) >>
      [] Is(e, "reinterpretCast") -> ReinterpretCastCode(e, args, out, pending)
      [] Is(e, "staticCast") -> StaticCastCode(e, args, out, pending)
      [] Is(e, "not") -> << LogicalNotCode(e, args, out, pending) >>
      [] Is(e, "return") -> << ReturnCode(e, args, pending) >>
      [] Is(e, "branch") -> << BranchCode(e, args, pending) >>
=============================================================================

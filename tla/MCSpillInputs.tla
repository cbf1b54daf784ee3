--------------------------- MODULE MCSpillInputs ---------------------------
(* Expressions for FISpillPasses: every well-typed nesting of the nodes to  *)
(* a small depth, the statements over them, and every node under deep       *)
(* stacks of pending operands of both classes.                              *)
EXTENDS FIAstNodes, FiniteSets

Node(node, kind, class, kids) ==
    [node |-> node, kind |-> kind, class |-> class, kids |-> kids]

Var(c) == Node("derefVar", "", c, << >>)        \* the value of a variable
Address == Node("variable", "", "integral", << >>)
Literal(c, kind) == Node("literal", kind, c, << >>)
Wide(c) == Literal(c, "wide")                   \* computed by its own code

Arith(op, l, r) == Node("arith", op, l.class, << l, r >>)
Compare(l, r) == Node("compare", "", "integral", << l, r >>)
Deref(c, e) == Node("deref", "", c, << e >>)
Index(base, i) == Node("ptrArith", "add", "integral", << base, i >>)
IndexBack(base, i) == Node("ptrArith", "sub", "integral", << base, i >>)
Reinterpret(e) == Node("reinterpretCast", "", "integral", << e >>)
Convert(kind, c, e) == Node("staticCast", kind, c, << e >>)
Not(e) == Node("not", "", "integral", << e >>)
AndOr(l, r) == Node("andOr", "and", "integral", << l, r >>)
Or(l, r) == Node("andOr", "or", "integral", << l, r >>)
Call(kind, c, ps) == Node("call", kind, c, ps)
ConstRef(e) == Node("constRef", "", "integral", << e >>)
Assign(dst, src) == Node("assign", "", "void", << dst, src >>)
If(kind, cond) == Node("branch", kind, "void", << cond >>)
Return(kind, kids) == Node("return", kind, "void", kids)

Field == Reinterpret(Arith("add", Var("integral"), Literal("integral", "small")))
Indexed(c) == Deref(c, Index(Var("integral"), Var("integral")))

\* What may be beside an operand of a node
Beside(c) == {Wide(c), Var(c)}

OfBoth(l, r) ==
    {Arith("add", l, r), Arith("div", l, r), Compare(l, r)}
    \cup (IF l.class = "integral"
          THEN {Arith("mod", l, r), Index(l, r), IndexBack(l, r), AndOr(l, r)}
          ELSE {})
    \cup {Call("noexcept", "integral", << l, r >>)}

OfOne(e) ==
    {Call(k, c, << e >>) : k \in {"noexcept", "throws"}, c \in Class}
    \cup (IF e.class = "integral"
          THEN {Call("throws", "float", << ConstRef(e), e >>)}
               \cup {Deref(c, e) : c \in Class}
               \cup {Deref(c, Index(e, Var("integral"))) : c \in Class}
               \cup {Reinterpret(e), Convert("upcast", "integral", e),
                     Convert("noop", "integral", e),
                     Convert("u64Double", "float", e),
                     Convert("other", "integral", e),
                     Convert("other", "float", e), Not(e)}
          ELSE {Convert("other", "float", e)})

\* What e can be the one or the other operand of
Around(e, others) ==
    OfOne(e) \cup UNION {OfBoth(e, x) \cup OfBoth(x, e) : x \in others}

Leaves ==
    {Literal(c, k) : c \in Class, k \in {"zero", "small", "wide"}}
    \cup {Var(c) : c \in Class} \cup {Address, Call("throws", "float", << >>)}

One == UNION {Around(e, Beside(e.class) \cup {Literal(e.class, "zero")}) :
                 e \in {Wide(c) : c \in Class} \cup {Var("integral"), Address}}
       \cup {Field, Indexed("integral"), Indexed("float"), Deref("float", Field)}

\* Statements over an expression
Statements(e) ==
    {Return(k, << e >>) : k \in {"plain", "dtors"}}
    \cup {Assign(d, e) : d \in {Address, Field, Wide("integral"),
                                Deref("integral", Wide("integral"))}}
    \cup {Call(k, "void", << e >>) : k \in {"sret", "sretThrows", "throws"}}
    \cup (IF e.class = "integral"
          THEN {Assign(e, Var("float")), Assign(e, Wide("float")),
                Assign(e, Wide("integral"))} ELSE {})

\* v = a / 0 and v = a % 0 select a boilerplate that does not exist: code
\* generation of an assignment does not exclude them (common_expr.cpp).
DividesByZero(e) ==
    /\ Is(e, "assign") /\ AssignsInlinedArith(e)
    /\ ByZero(e.kids[2], OperandShape(e.kids[2].kids[2]))

Statement == {s \in UNION {Statements(e) : e \in Leaves \cup One} :
                 ~DividesByZero(s)}
             \cup {Return("plain", << >>), Call("sret", "void", << >>)}

\* Conditions of if, while and for: every comparison of operands of the
\* shapes that can be inlined and of one that cannot, and chains of them
Operand == {Var("integral"), Literal("integral", "small"),
            Literal("integral", "zero"), Indexed("integral"),
            Wide("integral"), Arith("add", Wide("integral"), Wide("integral")),
            Var("float"), Wide("float"), Deref("float", Field)}

Condition ==
    {Compare(p[1], p[2]) : p \in {q \in Operand \X Operand : q[1].class = q[2].class}}
    \cup {e \in One : e.class = "integral"} \cup {Var("integral")}

ChainLink == {Compare(Var("integral"), Wide("integral")), Var("integral"),
          Compare(Indexed("float"), Var("float")),
          Call("throws", "integral", << Wide("float") >>)}

Chain ==
    LET two == {AndOr(l, r) : l, r \in ChainLink} \cup {Or(l, r) : l, r \in ChainLink}
    IN  two \cup UNION {{Or(c, l), AndOr(l, c), AndOr(Not(c), l)} :
                        c \in two, l \in ChainLink}

Branches == {If(k, c) : k \in {"favourTrue", "unpredictable"},
                        c \in Condition \cup Chain}

\* e with one more operand pending around it: of its class, or of the other
Under(e) ==
    IF e.class = "integral"
    THEN {Arith("add", Wide("integral"), e), Convert("other", "float", e)}
    ELSE {Arith("add", Wide("float"), e), Compare(Wide("float"), e)}

Deeper(S) == UNION {Under(e) : e \in S}

Inner == Leaves \cup OfOne(Wide("integral")) \cup OfOne(Wide("float"))
    \cup UNION {OfBoth(Wide(c), Wide(c)) \cup OfBoth(Wide(c), Var(c))
                \cup OfBoth(Var(c), Wide(c)) : c \in Class}
    \cup {Call("throws", "integral", << Wide("float"), Wide("integral"),
             Arith("add", Wide("integral"),
                   Arith("add", Wide("integral"), Wide("integral"))) >>)}

AllExpressions ==
    LET D3 == Deeper(Deeper(Deeper(Inner)))
        D5 == Deeper(Deeper(D3))
    IN  Leaves \cup One \cup Statement \cup Branches \cup D3 \cup D5
        \cup {Assign(Wide("integral"), e) : e \in D3}
        \cup UNION {Around(e, Beside(e.class)) : e \in One}
=============================================================================

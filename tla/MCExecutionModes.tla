-------------------------- MODULE MCExecutionModes --------------------------
(***************************************************************************)
(* The functions that the execution modes are run on: every way to fill a  *)
(* few shapes that nest scopes, branches and loops.  All variables are of  *)
(* a class with a destructor unless said otherwise.                        *)
(*                                                                         *)
(* A behaviour is one of ExecutionModes ("fastinterp": the fast            *)
(* interpreter beside the debug interpreter) or one of LLVMStatements      *)
(* ("llvm": LLVM mode beside the debug interpreter).                       *)
(***************************************************************************)
EXTENDS StatementSemantics

\* The sequences over S with at most n members.
UpTo(S, n) == UNION {[1..k -> S] : k \in 0..n}

Scope(ns) == [k |-> "scope", body |-> ns]
Block(ns) == [k |-> "block", body |-> ns]
Decl(v)   == [k |-> "decl", v |-> v, class |-> TRUE, init |-> "call"]
Plain(v)  == [k |-> "decl", v |-> v, class |-> FALSE, init |-> "none"]
UseOf(v)  == [k |-> "use", v |-> v]
Call      == [k |-> "call", mayThrow |-> FALSE]
Risky     == [k |-> "call", mayThrow |-> TRUE]
Raising(operand) == [k |-> "throw", operand |-> operand]
Return    == [k |-> "return", val |-> "void"]
ReturnOf(val) == [k |-> "return", val |-> val]
Jumps     == {[k |-> "break"], [k |-> "continue"], Return}
Test(mayThrow) == [k |-> "test", mayThrow |-> mayThrow]
If(c, then, else)  == [k |-> "if", cond |-> c, then |-> then, else |-> else]
While(c, ns)       == [k |-> "while", cond |-> c, body |-> Scope(ns)]
For(init, c, step, ns) ==
    [k |-> "for", init |-> Block(init), cond |-> c, step |-> Block(step), body |-> Scope(ns)]

Function(ns, noexcept, void) == [body |-> Scope(ns), noexcept |-> noexcept, void |-> void]

-----------------------------------------------------------------------------
\* Jumps: a branch inside a loop inside a function that has an object of its
\* own at each level, and a loop inside a loop.
Small == UpTo({Decl("x"), Call} \cup Jumps, 2)
Loops(ns) == {While(Test(FALSE), ns), For(<<Decl("i")>>, Test(FALSE), <<Call>>, ns)}
Branches == {If(Test(FALSE), Scope(s), e) : s \in Small, e \in {NoElse} \cup {Scope(t) : t \in UpTo({Call} \cup Jumps, 1)}}
InLoop   == UNION {Loops(<<Decl("y"), Decl("w"), b>>) \cup Loops(<<b, Risky>>) : b \in Branches}
Nested   == UNION {Loops(<<Decl("y"), inner, Risky>>) :
                     inner \in UNION {Loops(s) : s \in Small}}
JumpFunctions ==
    {Function(<<Decl("f"), l>>, FALSE, TRUE) : l \in InLoop \cup Nested}

-----------------------------------------------------------------------------
\* Exceptions: calls that throw before, between and after the declarations of
\* three nested scopes, with and without noexcept.
Risks == {Decl("x"), Plain("x"), Risky, Call, Raising("lvalue"), Raising("ctor")}
Inner == {Decl("z"), Risky, Raising("value"), ReturnOf("call")}
UnwindFunctions ==
    {Function(<<a, Scope(<<b, Decl("y"), Scope(s), c>>), ReturnOf("call")>>, noexcept, FALSE) :
        a \in {Decl("f"), Call}, b \in Risks, s \in UpTo(Inner, 2),
        c \in {Risky, Decl("w"), ReturnOf("literal"), Raising("ctor")}, noexcept \in BOOLEAN}
    \cup
    {Function(<<Decl("f"), Scope(s), Scope(u)>>, FALSE, void) :
        s \in UpTo(Inner, 2), u \in UpTo({Decl("y"), Risky, Raising("ctor")}, 2), void \in BOOLEAN}

-----------------------------------------------------------------------------
\* Conditions: every tree of three operators over tests that may throw, as the
\* condition of each statement that has one.
Tests == {Test(mayThrow) : mayThrow \in BOOLEAN}
Op(S, R) == {[k |-> op, lhs |-> l, rhs |-> r] : op \in {"and", "or"}, l \in S, r \in R}
Conditions == Tests \cup Op(Tests, Tests)
                \cup Op(Op(Tests, Tests), Op(Tests, {Test(FALSE)}) \cup Tests)
                \cup Op(Tests, Op(Tests, Tests))
ConditionFunctions ==
    {Function(<<Decl("f")>> \o s, FALSE, TRUE) :
        s \in UNION {{<<If(c, Scope(<<>>), NoElse)>>, <<If(c, Scope(<<Call>>), Scope(<<Decl("x")>>)), Risky>>,
                      <<While(c, <<Decl("x")>>)>>, <<For(<<Decl("i")>>, c, <<>>, <<Call>>)>>} : c \in Conditions}}

-----------------------------------------------------------------------------
\* Validation: statements in any order, reachable or not, and variables used in
\* and out of their scopes.
Odd == {Decl("x"), UseOf("x"), Call} \cup Jumps
OddIfs == {If(Test(FALSE), Scope(s), e) : s \in UpTo(Odd, 1), e \in {NoElse} \cup {Scope(t) : t \in UpTo(Odd, 1)}}
OddLoops == {While(Test(FALSE), s) : s \in UpTo(Odd, 2)}
            \cup {For(<<i>>, Test(FALSE), <<t>>, s) : i \in {Decl("x"), Call}, t \in {UseOf("x"), Call}, s \in UpTo(Odd, 2)}
            \cup {For(<<Call>>, Test(FALSE), <<UseOf("x")>>, <<Decl("y"), i>>) : i \in OddIfs}
            \cup {While(Test(FALSE), <<i, UseOf("x"), Decl("x")>>) : i \in OddIfs}
OddFunctions ==
    {Function(<<Call, s, t>>, FALSE, TRUE) : s \in Odd \cup OddIfs \cup OddLoops, t \in Odd \cup {Scope(<<>>)}}

-----------------------------------------------------------------------------
\* Statements behind a throw, and functions without code: validation lets both
\* through.
Ends == {<<Raising("value")>>, <<Raising("ctor")>>, <<Return>>}
AfterThrowFunctions ==
    {Function(<<Decl("f"), s, t>>, FALSE, TRUE) :
        s \in {If(Test(FALSE), Scope(e), Scope(u)) : e, u \in Ends}
              \cup {Raising("lvalue"), Scope(<<Decl("x"), Raising("ctor")>>),
                    For(<<Raising("value")>>, Test(FALSE), <<Call>>, <<>>),
                    For(<<>>, Test(FALSE), <<Raising("ctor")>>, <<Risky>>),
                    While(Test(TRUE), <<Decl("y"), Raising("ctor")>>)},
        t \in {Call, Plain("z"), Decl("z"), UseOf("f"), Scope(<<>>), Scope(<<Plain("z"), Risky>>),
               If(Test(FALSE), Scope(<<>>), NoElse), While(Test(FALSE), <<>>),
               Raising("value"), Return}}

SilentFunctions ==
    {Function(ns, FALSE, void) :
        ns \in UpTo({Plain("x"), Scope(<<>>), Scope(<<Plain("y"), Scope(<<>>)>>)}, 2), void \in BOOLEAN}

AllFunctions ==
    JumpFunctions \cup UnwindFunctions \cup ConditionFunctions \cup OddFunctions
        \cup AfterThrowFunctions \cup SilentFunctions

-----------------------------------------------------------------------------
\* Throws in branches and loops, of each operand.
ThrowFunctions ==
    {Function(<<Decl("f"), s>> \o t, noexcept, TRUE) :
        s \in UNION {{If(Test(m), Scope(<<Decl("x"), Raising(o)>>), e),
                      While(Test(m), <<Decl("x"), If(Test(FALSE), Scope(<<Raising(o)>>), e)>>)} :
                         m \in BOOLEAN, o \in {"lvalue", "ctor", "value"},
                         e \in {NoElse, Scope(<<Risky>>), Scope(<<Decl("z"), Raising("ctor")>>)}},
        t \in {<<>>, <<Risky>>}, noexcept \in BOOLEAN}

Emitted == AllFunctions \cup ThrowFunctions

-----------------------------------------------------------------------------

VARIABLES part, fn, made, pc, live, d,
          verdict,          \* of ExecutionModes
          from, ssa, raw    \* of LLVMStatements

suite == << part, fn, made, pc, live, d, verdict, from, ssa, raw >>

FastInterp == INSTANCE ExecutionModes WITH Functions <- AllFunctions
LLVM == INSTANCE LLVMStatements WITH Functions <- Emitted

Init ==
    \/ /\ part = "fastinterp" /\ FastInterp!Init
       /\ from = 0 /\ ssa = 0 /\ raw = 0
    \/ part = "llvm" /\ LLVM!Init /\ verdict = 0

FastInterpStep ==
    part = "fastinterp" /\ FastInterp!Next /\ UNCHANGED << part, from, ssa, raw >>
LLVMStep == part = "llvm" /\ LLVM!Next /\ UNCHANGED << part, verdict >>

Next == FastInterpStep \/ LLVMStep

Spec == Init /\ [][Next]_suite

\* A function that passes Validate (function_proto.cpp) compiles in both modes
\* that generate code, with two exceptions: no assertion of the generator fails,
\* all is populated, the verifier of LLVM accepts the blocks.  The exceptions are
\* exact: FastInterp mode fails on a function none of whose statements generates
\* code (function_proto_fastinterp.cpp:566), LLVM mode on one with code behind a
\* throw (function_proto_llvm.cpp:163), and on no other.  And a function is
\* rejected for what it would do: what Validate calls unreachable is never
\* executed, what it calls undeclared does not exist when it is used.
ValidationIsExact ==
    /\ part = "fastinterp" => FastInterp!CompilesWhatValidates /\ FastInterp!RejectionsAreJustified
    /\ part = "llvm" => LLVM!EmitsWhatValidates

\* Between two events the modes may differ; at an event they are about to do the
\* same thing, to the same variable, at the same node (the statements of
\* lang_constructs_fastinterp.cpp, lang_constructs_llvm.cpp against interp).
\* Excepted is the end of a function that owes a value, where LLVM mode returns
\* zero to its caller (function_proto_llvm.cpp:137) and the interpreters stop;
\* LLVM mode does not run functions with code behind a throw here.
ModesAgree ==
    /\ part = "fastinterp" => FastInterp!ModesAgree
    /\ part = "llvm" => LLVM!ModesAgree

\* Destructors run on the newest object, on every path out of a scope; no object
\* outlives the activation, and none is used before or after its life.
ObjectsAreDestroyed ==
    /\ part = "fastinterp" =>
           /\ FastInterp!TypeOK
           /\ FastInterp!NewestIsDestroyedFirst
           /\ FastInterp!NothingOutlivesTheActivation
           /\ FastInterp!UsesAreLive
    /\ part = "llvm" =>
           /\ LLVM!TypeOK
           /\ LLVM!NewestIsDestroyedFirst
           /\ LLVM!NothingOutlivesTheActivation
=============================================================================

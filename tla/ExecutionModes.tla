-------------------------- MODULE ExecutionModes --------------------------
(***************************************************************************)
(* How FastInterp mode generates the statements of a function:             *)
(* PrepareForFastInterp of the statement nodes                             *)
(* (lang_constructs_fastinterp.cpp, function_proto_fastinterp.cpp,         *)
(* ast_catch_throw_fastinterp.cpp) over the destructor bookkeeping of      *)
(* ScopedVariableManager.  Expressions are the subject of FISpillPasses:   *)
(* here an expression is the call it may contain.                          *)
(*                                                                         *)
(* Then one activation of one generated function in two execution modes    *)
(* at once: the code generated for it and the structured interpreter of    *)
(* StatementSemantics, which meet at every event.  The host decides what   *)
(* calls return or throw and how tests come out, the same way for both.    *)
(*                                                                         *)
(* A function that Validate rejects is run by the interpreter alone, to    *)
(* see whether the rejection was deserved.                                 *)
(***************************************************************************)
EXTENDS ScopedVariableManager, StatementSemantics

Obj(v, class) == [v |-> v, class |-> class]

-----------------------------------------------------------------------------
(* Expressions                                                             *)

\* Instance inst branches to the cleanup for the current position.
ToCleanup(r, inst, ordinal) == Populate(r.g, inst, ordinal, r.to)
Checked(r) ==
    [r EXCEPT !.g = ToCleanup(FIGenerateEHEntryPointForCurrentPosition(@), r.s.tail, "alt")]

\* A call; what it constructs, if anything, is alive once it has returned.
\* A callee that may throw is followed by a check.
GenCall(g, mayThrow, constructs, p) ==
    IF mayThrow THEN Checked(Emit(g, "checked call", constructs, p)) ELSE Emit(g, "call", constructs, p)

GenUse(g, v, p) == Emit(AssertThat(g, "variable has no offset", v \in g.placed), "use", v, p)

\* FIGenerateConditionalBranchHelper: a logical operator becomes a chain of
\* branches, its right side made first.  [g, entry]
RECURSIVE GenCondition(_, _, _, _, _)

Branching(r, trueBr, falseBr) ==
    [g |-> Populate(Populate(r.g, r.s.tail, "next", trueBr), r.s.tail, "alt", falseBr), entry |-> r.s.entry]

GenLeft(rhs, c, p, trueBr, falseBr) ==
    IF c.k = "and" THEN GenCondition(rhs.g, c.lhs, p \o <<1>>, rhs.entry, falseBr)
                   ELSE GenCondition(rhs.g, c.lhs, p \o <<1>>, trueBr, rhs.entry)

GenCondition(g, c, p, trueBr, falseBr) ==
    IF c.k = "test"
    THEN Branching(After(IF c.mayThrow THEN GenCall(g, TRUE, "", p) ELSE Nothing(g),
                         LAMBDA h : Emit(h, "branch", "", p)), trueBr, falseBr)
    ELSE GenLeft(GenCondition(g, c.rhs, p \o <<2>>, trueBr, falseBr), c, p, trueBr, falseBr)

-----------------------------------------------------------------------------
(* Statements without statements inside                                    *)

Uncontinuable(r) == [r EXCEPT !.s.tail = 0]

\* The variable exists once its initializer has returned.
Declared(r, n) == [r EXCEPT !.g = PushObject(@, Obj(n.v, n.class))]

Placed(g, v) == [g EXCEPT !.placed = @ \cup {v}]

GenDeclare(g, n, p) ==
    Declared(IF n.init = "none" THEN Nothing(Placed(g, n.v))
             ELSE GenCall(Placed(g, n.v), TRUE, Constructed(n), p), n)

\* The value is computed before the destructors run, although they are
\* generated first.
Value(g, n, p) == IF n.val = "call" THEN GenCall(g, TRUE, "", p) ELSE Nothing(g)
Before(r, s) == AddContinuation(r.g, r.s, s)
GenReturnOver(dtors, n, p) ==
    Uncontinuable(After(Before(Value(dtors.g, n, p), dtors.s), LAMBDA g : Emit(g, "return", "", p)))
GenReturn(g, n, p) == GenReturnOver(FIGenerateDestructorSequenceUntilScope(g, NullScope), n, p)

\* Break and continue: destroy up to the scope of the loop body, inclusive,
\* and jump.
JumpTo(r, to) == Uncontinuable([r EXCEPT !.g = Populate(@, r.s.tail, "next", to)])
GenJump(g, kind) ==
    JumpTo(NonEmpty(FIGenerateDestructorSequenceUntilScope(g, Last(g.targets).scope)), Last(g.targets)[kind])

\* The exception object lives in a scope of its own, without identity.
Operand(g, n, p) == IF n.operand = "ctor" THEN GenCall(g, TRUE, "exn", p) ELSE Nothing(g)
Thrown(r, n) ==
    IF n.operand = "lvalue" THEN r ELSE [r EXCEPT !.g = PushObject(@, Obj("exn", n.operand = "ctor"))]

\* The snippet ends in a noop nothing leads to.
WithDeadEnd(r, end) == [g |-> PopScope(end.g, NullScope), s |-> [entry |-> r.s.entry, tail |-> end.s.tail]]
Unwinding(r) ==
    WithDeadEnd(r, FIGetNoopBoilerplate(
        ToCleanup(FIGenerateEHEntryPointForCurrentPosition(r.g), r.s.tail, "next")))
GenThrow(g, n, p) ==
    Unwinding(After(Thrown(Operand(PushScope(g, NullScope), n, p), n), LAMBDA h : Emit(h, "throw", "", p)))

-----------------------------------------------------------------------------
(* Statements with statements inside                                       *)

RECURSIVE Gen(_, _, _)

GenBlock(g, ns, p) ==
    FoldLeft(LAMBDA acc, i : After(acc, LAMBDA h : Gen(h, ns[i], p \o <<i>>)),
             Nothing(g), [i \in 1..Len(ns) |-> i])

Closed(r, p) == [r EXCEPT !.g = PopScope(@, p)]
WithDestructors(r, p) ==
    IF IsUncontinuable(r.s) THEN r
    ELSE After(r, LAMBDA g : FIGenerateDestructorSequenceUntilScope(g, p))
GenScope(g, ns, p) == Closed(WithDestructors(GenBlock(PushScope(g, p), ns, p), p), p)

\* A noop joins the branches when both go on or one of them has no code.
Joined(g, s, noop) == IF IsUncontinuable(s) THEN [g |-> g, s |-> s] ELSE AddContinuation(g, s, noop)
From(c, tail) == [g |-> c.g, s |-> [entry |-> c.entry, tail |-> tail]]
Choice(g, then, else, tail, n, p) ==
    From(GenCondition(g, n.cond, p \o <<0>>, then.entry, else.entry), tail)
ChoiceAfter(then, else, noop, n, p) == Choice(else.g, then, else.s, noop.tail, n, p)
JoinElse(then, else, noop, n, p) == ChoiceAfter(then.s, Joined(then.g, else, noop), noop, n, p)
JoinBoth(then, else, noop, n, p) == JoinElse(Joined(noop.g, then, noop.s), else, noop.s, n, p)
GenChoice(then, else, n, p) ==
    IF \/ ~IsUncontinuable(then.s) /\ ~IsUncontinuable(else.s)
       \/ IsEmpty(then.s) \/ IsEmpty(else.s)
    THEN JoinBoth(then.s, else.s, FIGetNoopBoilerplate(else.g), n, p)
    ELSE Choice(else.g, then.s, else.s, IF IsUncontinuable(then.s) THEN else.s.tail ELSE then.s.tail, n, p)
GenElse(then, n, p) ==
    GenChoice(then, IF n.else = NoElse THEN Nothing(then.g) ELSE Gen(then.g, n.else, p \o <<2>>), n, p)
GenIf(g, n, p) == GenElse(Gen(g, n.then, p \o <<1>>), n, p)

\* A loop in the making is a record l of the generation state g and the
\* snippets made so far, by name.
With(l, part, r) == [l EXCEPT !.g = r.g, ![part] = r.s]

\* A snippet goes on to instance to, unless it never gets there.
Onward(g, s, to) == IF IsUncontinuable(s) THEN g ELSE Populate(g, s.tail, "next", to)

\* The two instances that jumps lead to: the step, or head of the loop, and
\* what comes after it.
MakeHeads(g) ==
    [g |-> Instantiate(Instantiate(g, "noop", "", <<>>), "noop", "", <<>>),
     head |-> [entry |-> Len(g.code) + 1, tail |-> Len(g.code) + 1],
     after |-> [entry |-> Len(g.code) + 2, tail |-> Len(g.code) + 2],
     init |-> EmptySnippet, body |-> EmptySnippet]

\* mutant: continue leaves the loop
TargetsToAfter(l, body) == [l EXCEPT !.g = PushTargets(@, l.after.entry, l.after.entry, body)]

Targets(l, body) == [l EXCEPT !.g = PushTargets(@, l.after.entry, l.head.entry, body)]

MakeBody(l, n, p) == With(l, "body", NonEmpty(Gen(l.g, n.body, p)))
LoopCondition(l, n, p) == GenCondition(l.g, n.cond, p \o <<0>>, l.body.entry, l.after.entry)

LinkWhile(l, c) ==
    [g |-> PopTargets(Onward(Populate(c.g, l.head.tail, "next", c.entry), l.body, l.head.entry)),
     s |-> [entry |-> l.head.entry, tail |-> l.after.tail]]
CloseWhile(l, n, p) == LinkWhile(l, LoopCondition(l, n, p))
GenWhile(g, n, p) == CloseWhile(MakeBody(Targets(MakeHeads(g), p \o <<1>>), n, p \o <<1>>), n, p)

\* Jumps are not allowed in the header of a for loop.
Straight(r, what) == [r EXCEPT !.g = AssertThat(@, what, ~IsUncontinuable(r.s))]

MakeInit(l, n, p) == With(l, "init", Straight(Gen(l.g, n.init, p \o <<1>>), "init block"))
MakeStep(l, n, p) ==
    With(l, "head", After([g |-> l.g, s |-> l.head],
                          LAMBDA g : Straight(Gen(g, n.step, p \o <<3>>), "step block")))
MakeAfter(l, p) == With(l, "after", WithDestructors([g |-> l.g, s |-> l.after], p))

LinkFor(l, c) ==
    AddContinuation(Populate(Onward(c.g, l.body, l.head.entry), l.head.tail, "next", c.entry),
                    l.init, [entry |-> c.entry, tail |-> l.after.tail])
CloseFor(l, n, p) == LinkFor(l, LoopCondition(l, n, p))

\* The loop is itself the scope of the variables its init block declares.
LeaveFor(r, p) == [r EXCEPT !.g = PopScope(PopTargets(@), p)]
GenFor(g, n, p) ==
    LeaveFor(CloseFor(MakeAfter(MakeStep(MakeBody(
        MakeInit(Targets(MakeHeads(PushScope(g, p)), p \o <<2>>), n, p),
        n, p \o <<2>>), n, p), p), n, p), p)

Gen(g, n, p) ==
    CASE n.k = "block"    -> GenBlock(g, n.body, p)
      [] n.k = "scope"    -> GenScope(g, n.body, p)
      [] n.k = "if"       -> GenIf(g, n, p)
      [] n.k = "while"    -> GenWhile(g, n, p)
      [] n.k = "for"      -> GenFor(g, n, p)
      [] n.k \in {"break", "continue"} -> GenJump(g, n.k)
      [] n.k = "return"   -> GenReturn(g, n, p)
      [] n.k = "decl"     -> GenDeclare(g, n, p)
      [] n.k = "call"     -> GenCall(g, n.mayThrow, "", p)
      [] n.k = "throw"    -> GenThrow(g, n, p)
      [] n.k = "use"      -> GenUse(g, n.v, p)

\* AstFunction::PrepareForFastInterp: the body, then a return or, where the
\* function owes a value, a trap.  [g, entry]
WithReturn(r, void) ==
    IF r.s.tail = 0 THEN r ELSE After(r, LAMBDA g : Emit(g, IF void THEN "return" ELSE "trap", "", <<>>))
Finished(r) ==
    [g |-> AssertInCleanState(AssertThat(r.g, "function has no entry point", ~IsEmpty(r.s))), entry |-> r.s.entry]
PrepareForFastInterp(body, noexcept, void) ==
    Finished(WithReturn(GenScope(NewGeneration(noexcept), body.body, <<>>), void))

\* The placeholders of an instance; Materialize wants each of them populated.
UsedPlaceholders(op) ==
    CASE op \in {"branch", "checked call"} -> {"next", "alt"}
      [] op \in {"return", "trap", "propagate", "terminate"} -> {}
      [] OTHER -> {"next"}

AllPopulated(code) ==
    \A i \in DOMAIN code : \A o \in {"next", "alt"} : code[i][o] # 0 <=> o \in UsedPlaceholders(code[i].op)

-----------------------------------------------------------------------------
(* Execution                                                               *)

CONSTANTS Functions     \* the functions: [body, noexcept, void]

VARIABLES fn,       \* the function
          verdict,  \* what Validate says of it
          made,     \* the generated code: [code, failed]
          pc,       \* the instance about to run, 0 once the function has ended
          live,     \* the C++ class objects that exist in FastInterp mode, oldest first
          d         \* the interpreter

vars == <<fn, verdict, made, pc, live, d>>

\* Rejections that say something about executions.
Deserved == {"unreachable", "undeclared", "out of scope"}

Init ==
    /\ fn \in Functions
    /\ verdict = Validate(fn.body, fn.void)
    /\ IF verdict.ok
       THEN \E gen \in {PrepareForFastInterp(fn.body, fn.noexcept, fn.void)} :
               made = [code |-> gen.g.code, failed |-> gen.g.failed] /\ pc = gen.entry
       ELSE made = [code |-> <<>>, failed |-> {}] /\ pc = 0
    /\ live = <<>>
    /\ d = InitialInterp(fn.body)

\* The assertions of the generator exist in test builds only: what it has
\* generated runs.
Compiled == verdict.ok
Inst == made.code[pc]

\* The event the generated code is about to cause.
FIEvent == IF Inst.op = "noop" THEN Silent ELSE Event(Inst.op, Inst.obj, Inst.at)
DIEvent == InterpEvent(d, fn.noexcept, fn.void)

\* The interpreter names no node for what the function does as it ends.
Exits == {"return", "trap", "propagate", "terminate"}
SameEvent == IF FIEvent.k \in Exits THEN FIEvent.k = DIEvent.k ELSE FIEvent = DIEvent

Running == IF Compiled THEN pc # 0 ELSE verdict.why \in Deserved

\* What happens next, once the interpreter is at an event as well.
NextEvent == IF Compiled THEN FIEvent ELSE DIEvent
AtEvent(k) == Running /\ DIEvent # Silent /\ NextEvent.k = k

\* The generated code goes on to instance i, the interpreter to state e unless
\* it was about to do something else.
Proceed(i, e) ==
    /\ pc' = i
    /\ d' = IF Compiled /\ ~SameEvent THEN d ELSE e
    /\ UNCHANGED <<fn, verdict, made>>
Target(placeholder) == IF Compiled THEN Inst[placeholder] ELSE pc

-----------------------------------------------------------------------------

FISkip ==
    /\ Compiled /\ pc # 0 /\ FIEvent = Silent
    /\ pc' = Inst.next
    /\ UNCHANGED <<fn, verdict, made, live, d>>

InterpStep ==
    /\ Running /\ (Compiled => FIEvent # Silent) /\ DIEvent = Silent
    /\ d' = InterpSilentStep(d)
    /\ UNCHANGED <<fn, verdict, made, pc, live>>

\* A call returns; the object it constructs, if any, exists.
CallReturns ==
    /\ AtEvent("call") \/ AtEvent("checked call")
    /\ Proceed(Target("next"), Returned(d))
    /\ live' = IF NextEvent.obj = "" THEN live ELSE Append(live, NextEvent.obj)

CallThrows ==
    /\ AtEvent("checked call")
    /\ Proceed(Target("alt"), Raise(d))
    /\ UNCHANGED live

Throw ==
    /\ AtEvent("throw")
    /\ Proceed(Target("next"), Raise(d))
    /\ UNCHANGED live

Use ==
    /\ AtEvent("use")
    /\ Proceed(Target("next"), Replace(d, <<>>))
    /\ UNCHANGED live

Branch(outcome) ==
    /\ AtEvent("branch")
    /\ Proceed(Target(IF outcome THEN "next" ELSE "alt"), Branched(d, outcome))
    /\ UNCHANGED live

\* The destructor called is the one of the variable the code names.
Destroy ==
    /\ AtEvent("dtor")
    /\ Proceed(Target("next"), Destroyed(d))
    /\ live' = SelectSeq(live, LAMBDA v : v # NextEvent.obj)

End ==
    /\ Compiled /\ \E k \in Exits : AtEvent(k)
    /\ Proceed(0, d)
    /\ UNCHANGED live

\* Nothing left to do: the function has ended, or is not run.
Ended ==
    /\ IF Compiled THEN pc = 0 ELSE verdict.why \notin Deserved \/ DIEvent.k \in Exits
    /\ UNCHANGED vars

Next ==
    \/ FISkip \/ InterpStep
    \/ CallReturns \/ CallThrows \/ Throw \/ Use
    \/ \E outcome \in BOOLEAN : Branch(outcome)
    \/ Destroy
    \/ End \/ Ended

Spec == Init /\ [][Next]_vars

-----------------------------------------------------------------------------

TypeOK ==
    /\ verdict.ok \in BOOLEAN
    /\ pc \in 0..Len(made.code)
    /\ d.sig \in {"None", "Break", "Continue", "Return", "Exn"} /\ d.val \in BOOLEAN
    /\ Len(d.scopes) <= Len(d.frames)

\* A function that passes validation compiles, unless no statement of it
\* generates code: no assertion of the generator fails, every placeholder of
\* every instance is populated, once, and the manager is left clean for the
\* next function.  A body without code fails exactly the assertion that the
\* function has an entry point, !body.IsEmpty().
CompilesWhatValidates ==
    verdict.ok =>
        /\ made.failed = IF HasCode(fn.body) THEN {} ELSE {"function has no entry point"}
        /\ AllPopulated(made.code)

\* Between two events the two modes may differ; at an event they are about to
\* do the same thing, to the same variable, at the same node.
ModesAgree ==
    Compiled /\ pc # 0 /\ FIEvent # Silent /\ DIEvent # Silent => SameEvent

\* The generated code destroys existing objects only, and always the newest.
NewestIsDestroyedFirst ==
    Compiled /\ pc # 0 /\ FIEvent.k = "dtor" => live # <<>> /\ FIEvent.obj = Last(live)

\* No object outlives the activation, however it is left: through a return,
\* the end of the body, or an exception.  Only std::terminate and the trap
\* for a missing return value abandon objects.
NothingOutlivesTheActivation ==
    Compiled /\ pc # 0 /\ FIEvent.k \in {"return", "propagate"} => live = <<>>

\* A validated function reads class variables only while they exist, and no
\* constructor runs on one that does: leaving a loop body by any path destroys
\* what the body constructed before it can be entered again.
UsesAreLive ==
    Compiled /\ pc # 0 =>
        /\ FIEvent.k = "use" => FIEvent.obj \in ToSet(live)
        /\ FIEvent.k = "checked call" => FIEvent.obj \notin ToSet(live)

\* Validation rejects code for what it would do: the statement it calls
\* unreachable is never executed, and the variable it calls undeclared or out
\* of scope does not exist when the execution gets to its use.
RejectionsAreJustified ==
    LET reached == d.frames # <<>> /\ d.sig = "None" /\ Top(d).k = "exec" /\ Top(d).p = verdict.at
    IN ~verdict.ok /\ verdict.why \in Deserved /\ reached
       => verdict.why # "unreachable" /\ Top(d).n.v \notin UNION {ToSet(s) : s \in ToSet(d.scopes)}
=============================================================================

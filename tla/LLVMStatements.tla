--------------------------- MODULE LLVMStatements ---------------------------
(***************************************************************************)
(* How LLVM mode emits the statements of a function, and executes them.    *)
(*                                                                         *)
(* The destructor bookkeeping (scoped_variable_manager_llvm.cpp,           *)
(* exception_helper_llvm.cpp) and the position of the IR builder: scopes,  *)
(* objects and targets are those of ScopedVariableManager; in this mode a  *)
(* target is a basic block.  A generation state g has, instead of          *)
(* instances,                                                              *)
(*   blocks         the basic blocks of the function, each the sequence of *)
(*                  the instructions inserted into it                      *)
(*   dummy          what was inserted into m_dummyBlock                    *)
(*   at             the block the builder appends to, DummyBlock for none  *)
(*   cursorAtDummy  m_isCursorAtDummyBlock                                 *)
(* An instruction names the block it goes to in next and alt: 0 is the     *)
(* instruction behind it in its block for next, and for alt the end of the *)
(* activation, which an exception without landing pad unwinds.             *)
(*                                                                         *)
(* Then EmitIRImpl of the statement nodes (lang_constructs_llvm.cpp,       *)
(* function_proto_llvm.cpp, ast_catch_throw_llvm.cpp,                      *)
(* logical_operator_llvm.cpp), and the passes of AstModule::EmitIR around  *)
(* it.  As in FIStatements an expression is the call it may contain; here  *)
(* a test also leaves a value, named by its node.                          *)
(***************************************************************************)
EXTENDS ScopedVariableManager, StatementSemantics

DummyBlock == 0
EntryBlock == 1
BodyBlock  == 2

NewFunction(noexcept) ==
    [blocks |-> << <<>>, <<>> >>, dummy |-> <<>>, at |-> BodyBlock, cursorAtDummy |-> FALSE,
     scopes |-> <<>>, tree |-> <<>>, catch |-> 0, targets |-> <<>>, nontrivial |-> 0,
     noexcept |-> noexcept, failed |-> {}]

Instr(op, obj, at, next, alt) ==
    [op |-> op, obj |-> obj, at |-> at, next |-> next, alt |-> alt, incoming |-> <<>>]
Br(to) == Instr("br", "", <<>>, to, 0)
CondBr(value, trueBr, falseBr) == Instr("condbr", "", value, trueBr, falseBr)
Phi(value, incoming) == [Instr("phi", "", value, 0, 0) EXCEPT !.incoming = incoming]

Terminators == {"br", "condbr", "return", "return zero", "resume", "terminate", "unreachable"}
IsTerminator(i) == i.op \in Terminators \/ (i.op # "phi" /\ i.next # 0)

Insert(g, i) ==
    IF g.at = DummyBlock THEN [g EXCEPT !.dummy = Append(@, i)]
                         ELSE [g EXCEPT !.blocks[g.at] = Append(@, i)]

\* BasicBlock::Create: the new blocks are NewBlock(g), NewBlock(g) + 1, ...
NewBlock(g) == Len(g.blocks) + 1
CreateBlocks(g, n) == [g EXCEPT !.blocks = @ \o [k \in 1..n |-> <<>>]]

SetInsertPoint(g, b) == [g EXCEPT !.at = b]
SetInsertPointToDummyBlock(g) == [g EXCEPT !.at = DummyBlock, !.cursorAtDummy = TRUE]
Revive(g, b) == [g EXCEPT !.at = b, !.cursorAtDummy = FALSE]

AssertLive(g) == AssertThat(g, "code after the end of control flow", ~g.cursorAtDummy)

\* i as the only content of a new block, the builder staying where it is.
InNewBlock(g, i) == [g EXCEPT !.blocks = Append(@, <<i>>)]

-----------------------------------------------------------------------------
(* Destructor sequences *)

\* The memory of an exception being constructed counts as an object.
RawException == [v |-> "raw exn", class |-> TRUE]

EmitDestructorIR(g, obj) ==
    Insert(g, Instr(IF obj = RawException THEN "free" ELSE "dtor", obj.v, <<>>, 0, 0))

EmitDestructors(g, objs) == FoldLeft(EmitDestructorIR, g, Reverse(objs))

EmitIRDestructAllVariablesUntilScope(g, boundary) ==
    LET levels == Len(g.scopes)
        hits   == {i \in 1..levels : g.scopes[i].id = boundary}
        low    == IF hits = {} THEN 1 ELSE CHOOSE i \in hits : \A j \in hits : j <= i
        h      == AssertThat(AssertLive(g), "boundary scope", (boundary = NullScope) <=> (hits = {}))
    IN FoldLeft(LAMBDA acc, i : EmitDestructors(acc, g.scopes[i].objs),
                h, [k \in 1..(levels + 1 - low) |-> levels + 1 - k])

-----------------------------------------------------------------------------
(* Exception cleanup *)

CreateCatchBlock(g) ==
    IF g.catch # 0 THEN g
    ELSE [InNewBlock(g, Instr(IF g.noexcept THEN "terminate" ELSE "resume", "", <<>>, 0, 0))
             EXCEPT !.catch = NewBlock(g)]

\* A block that destroys the objects of a scope from number first on and goes
\* on to parent; it becomes the entry of the tree for its scope.
EmitDtorBlock(g, level, first, parent) ==
    LET objs == g.scopes[level].objs
        b == NewBlock(g)
        made == Insert(EmitDestructors(SetInsertPoint(CreateBlocks(g, 1), b),
                                       SubSeq(objs, first, Len(objs))), Br(parent))
    IN [made EXCEPT !.at = g.at,
            !.tree = Append(SubSeq(@, 1, level - 1), [boundary |-> Len(objs), target |-> b])]

EmitRoot(g) == IF g.tree # <<>> THEN g ELSE EmitDtorBlock(g, 1, 1, g.catch)

\* A block for what was pushed into the deepest scope since its block was made.
EmitTopUp(g) ==
    LET m == Len(g.tree)
        pushed == Len(g.scopes[m].objs)
    IN IF g.tree[m].boundary < pushed
       THEN EmitDtorBlock(g, m, g.tree[m].boundary + 1, g.tree[m].target)
       ELSE AssertThat(g, "boundary beyond the scope", g.tree[m].boundary = pushed)

\* A block for each scope opened since.
EmitDeepen(g) ==
    FoldLeft(LAMBDA h, i : EmitDtorBlock(h, i, 1, h.tree[i - 1].target), g,
             [k \in 1..(Len(g.scopes) - Len(g.tree)) |-> Len(g.tree) + k])

EmitDtorTree(g) == EmitDeepen(EmitTopUp(EmitRoot(g)))

AssertTreeComplete(g) ==
    AssertThat(g, "stale tree", Len(g.tree) = Len(g.scopes) /\ TreeUpToDate(g))

\* EmitIRExceptionHandlerCleanupLogic, and the block it returns
WithCleanup(g) ==
    IF g.noexcept THEN g ELSE AssertTreeComplete(EmitDtorTree(AssertThat(g, "stale tree", TreeUpToDate(g))))
EmitCleanup(g) == WithCleanup(CreateCatchBlock(AssertThat(g, "no scope", g.scopes # <<>>)))
CleanupEntry(g) == IF g.noexcept THEN g.catch ELSE Last(g.tree).target

\* The landing pad, the newest block, keeps the exception and goes to the cleanup.
LandingPad(g) == InNewBlock(g, Br(CleanupEntry(g)))
EmitEHLandingPadForCurrentPosition(g) == LandingPad(EmitCleanup(g))

IsNoLandingPadNeeded(g) == g.nontrivial = 0 /\ ~g.noexcept

\* What may unwind is invoked, with a landing pad and a block to return to.
InvokeWithPad(g, i) ==
    SetInsertPoint(Insert(CreateBlocks(g, 1), [i EXCEPT !.next = NewBlock(g), !.alt = Len(g.blocks)]),
                   NewBlock(g))
Invoke(g, i) == InvokeWithPad(EmitEHLandingPadForCurrentPosition(g), i)

CallOrInvoke(g, i) == IF IsNoLandingPadNeeded(g) THEN Insert(g, i) ELSE Invoke(g, i)

-----------------------------------------------------------------------------
(* Calls *)

EmitCall(g, mayThrow, constructs, p) ==
    IF mayThrow THEN CallOrInvoke(AssertLive(g), Instr("checked call", constructs, p, 0, 0))
                ELSE Insert(AssertLive(g), Instr("call", constructs, p, 0, 0))

-----------------------------------------------------------------------------
(* Conditions.  Each leaves its value under its own name. *)

RECURSIVE EmitCondition(_, _, _)

\* The operands may themselves end in other blocks than they begin in.
EmitAfterOp(r, lhsEnd, afterOp, p) ==
    Insert(SetInsertPoint(Insert(AssertLive(r), Br(afterOp)), afterOp),
           Phi(p, << <<lhsEnd, p \o <<1>> >>, <<r.at, p \o <<2>> >> >>))

\* l has the left operand; the right one is evaluated in the next block, if at all.
EmitRhs(l, c, p, evalRhs, afterOp) ==
    EmitAfterOp(EmitCondition(SetInsertPoint(Insert(CreateBlocks(l, 2),
                    IF c.k = "and" THEN CondBr(p \o <<1>>, evalRhs, afterOp)
                                   ELSE CondBr(p \o <<1>>, afterOp, evalRhs)), evalRhs),
                              c.rhs, p \o <<2>>), l.at, afterOp, p)
EmitLogicalOn(l, c, p) == EmitRhs(l, c, p, NewBlock(l), NewBlock(l) + 1)
EmitLogical(g, c, p) == EmitLogicalOn(EmitCondition(AssertLive(g), c.lhs, p \o <<1>>), c, p)

EmitCondition(g, c, p) ==
    IF c.k # "test" THEN EmitLogical(g, c, p)
    ELSE Insert(IF c.mayThrow THEN EmitCall(g, TRUE, "", p) ELSE g, Instr("branch", "", p, 0, 0))

-----------------------------------------------------------------------------
(* Statements without statements inside *)

\* "first call constructor, then push it into scope"
EmitInit(g, n, p) == IF n.init = "none" THEN g ELSE EmitCall(g, TRUE, Constructed(n), p)
EmitDeclare(g, n, p) ==
    IF n.class THEN PushObject(EmitInit(g, n, p), [v |-> n.v, class |-> TRUE]) ELSE EmitInit(g, n, p)

EmitReturn(g, n, p) ==
    LET h == IF n.val = "call" THEN EmitCall(g, TRUE, "", p) ELSE g
    IN SetInsertPointToDummyBlock(
           Insert(EmitIRDestructAllVariablesUntilScope(h, NullScope), Instr("return", "", p, 0, 0)))

EmitJump(g, kind) ==
    LET target == Last(g.targets)
    IN SetInsertPointToDummyBlock(
           Insert(EmitIRDestructAllVariablesUntilScope(AssertLive(g), target.scope), Br(target[kind])))

\* The exception is constructed in the memory it is thrown in: a copy of an
\* object, what a constructor makes, or a value.
ConstructException(g, n, p) ==
    CASE n.operand = "ctor"   -> EmitCall(g, TRUE, "exn", p)
      [] n.operand = "lvalue" -> CallOrInvoke(AssertLive(g), Instr("copy", "", p, 0, 0))
      [] n.operand = "value"  -> g

\* While the exception is constructed its memory is in a scope of its own.
EmitThrow(g, n, p) ==
    LET h == Insert(AssertLive(g), Instr("alloc", "", p, 0, 0))
        made == ConstructException(PushObject(PushScope(h, NullScope), RawException), n, p)
        thrown == CallOrInvoke(PopScope(made, NullScope), Instr("throw", "", p, 0, 0))
    IN SetInsertPointToDummyBlock(Insert(thrown, Instr("unreachable", "", <<>>, 0, 0)))

EmitUse(g, v, p) == Insert(g, Instr("use", v, p, 0, 0))

-----------------------------------------------------------------------------
(* Statements with statements inside *)

RECURSIVE EmitIR(_, _, _)

EmitBlock(g, ns, p) ==
    FoldLeft(LAMBDA h, i : EmitIR(h, ns[i], p \o <<i>>), g, [i \in 1..Len(ns) |-> i])

LeaveScope(g, p) == IF g.cursorAtDummy THEN g ELSE EmitIRDestructAllVariablesUntilScope(g, p)
EmitScope(g, ns, p) == PopScope(LeaveScope(EmitBlock(PushScope(g, p), ns, p), p), p)

\* Control flows on to block b, where it flows at all.
FallThrough(g, b) == IF g.cursorAtDummy THEN g ELSE Insert(g, Br(b))

\* The code behind the statement exists if something goes there.
AfterElse(else, thenEnds, afterIf) ==
    IF thenEnds /\ else.cursorAtDummy THEN else ELSE Revive(FallThrough(else, afterIf), afterIf)

EmitElse(then, n, p, afterIf) ==
    IF n.else = NoElse THEN Revive(FallThrough(then, afterIf), afterIf)
    ELSE AfterElse(EmitIR(Revive(FallThrough(then, afterIf), afterIf + 1), n.else, p \o <<2>>),
                   then.cursorAtDummy, afterIf)

\* thenBlock is the next block, then afterIf, then the else block if there is one.
EmitBranches(c, n, p, thenBlock, blocks) ==
    EmitElse(EmitIR(SetInsertPoint(Insert(CreateBlocks(c, blocks),
                                          CondBr(p \o <<0>>, thenBlock, thenBlock + blocks - 1)),
                                   thenBlock), n.then, p \o <<1>>),
             n, p, thenBlock + 1)

EmitIfOn(c, n, p) == EmitBranches(c, n, p, NewBlock(c), IF n.else = NoElse THEN 2 ELSE 3)
EmitIf(g, n, p) == EmitIfOn(EmitCondition(AssertLive(g), n.cond, p \o <<0>>), n, p)

\* The loop's test, and what it decides about, up to the jump to block to.
EmitTest(g, n, p, loopHead) ==
    EmitCondition(SetInsertPoint(Insert(AssertLive(g), Br(loopHead)), loopHead), n.cond, p \o <<0>>)
EmitBody(g, n, p, at, loopBody, afterLoop, to) ==
    FallThrough(EmitIR(SetInsertPoint(Insert(AssertLive(g), CondBr(p \o <<0>>, loopBody, afterLoop)),
                                      loopBody), n.body, at), to)

\* loopHead is the next block, then the body and afterLoop.
EmitWhileAt(g, n, p, loopHead) ==
    PopTargets(AssertLive(Revive(
        EmitBody(EmitTest(PushTargets(CreateBlocks(AssertLive(g), 3), loopHead + 2, loopHead, p \o <<1>>),
                          n, p, loopHead),
                 n, p, p \o <<1>>, loopHead + 1, loopHead + 2, loopHead), loopHead + 2)))
EmitWhile(g, n, p) == EmitWhileAt(g, n, p, NewBlock(g))

\* The loop is itself the scope of the variables its init block declares.  Its
\* blocks are loopHead, the body, loopStep and afterLoop.
EmitForInit(g, n, p, afterLoop, loopStep) ==
    EmitIR(PushTargets(PushScope(CreateBlocks(AssertLive(g), 4), p), afterLoop, loopStep, p \o <<2>>),
           n.init, p \o <<1>>)
EmitStep(g, n, p, loopHead, loopStep) ==
    SetInsertPoint(Insert(AssertLive(EmitIR(Revive(g, loopStep), n.step, p \o <<3>>)), Br(loopHead)),
                   loopStep + 1)
EmitForAt(g, n, p, loopHead) ==
    PopScope(PopTargets(EmitIRDestructAllVariablesUntilScope(
        EmitStep(EmitBody(EmitTest(EmitForInit(g, n, p, loopHead + 3, loopHead + 2), n, p, loopHead),
                          n, p, p \o <<2>>, loopHead + 1, loopHead + 3, loopHead + 2),
                 n, p, loopHead, loopHead + 2), p)), p)
EmitFor(g, n, p) == EmitForAt(g, n, p, NewBlock(g))

EmitIR(g, n, p) ==
    CASE n.k = "block"    -> EmitBlock(g, n.body, p)
      [] n.k = "scope"    -> EmitScope(g, n.body, p)
      [] n.k = "if"       -> EmitIf(g, n, p)
      [] n.k = "while"    -> EmitWhile(g, n, p)
      [] n.k = "for"      -> EmitFor(g, n, p)
      [] n.k \in {"break", "continue"} -> EmitJump(g, n.k)
      [] n.k = "return"   -> EmitReturn(g, n, p)
      [] n.k = "decl"     -> EmitDeclare(g, n, p)
      [] n.k = "call"     -> EmitCall(g, n.mayThrow, "", p)
      [] n.k = "throw"    -> EmitThrow(g, n, p)
      [] n.k = "use"      -> EmitUse(g, n.v, p)

-----------------------------------------------------------------------------
(* The passes over the module *)

\* The first pass: the functions the code calls and the C++ exception ABI, as
\* far as the traversal of the body finds them.
RECURSIVE LinkedIn(_, _), LinkedInByCondition(_, _)

Fn(p) == <<"fn", p>>
Dtor == <<"dtor", <<>> >>
CxaSymbols == <<"cxa", <<>> >>

LinkedInByCondition(c, p) ==
    IF c.k = "test" THEN IF c.mayThrow THEN {Fn(p)} ELSE {}
    ELSE LinkedInByCondition(c.lhs, p \o <<1>>) \cup LinkedInByCondition(c.rhs, p \o <<2>>)

LinkedIn(n, p) ==
    CASE n.k \in {"block", "scope"} -> UNION {LinkedIn(n.body[i], p \o <<i>>) : i \in DOMAIN n.body}
      [] n.k = "if"    -> LinkedInByCondition(n.cond, p \o <<0>>) \cup LinkedIn(n.then, p \o <<1>>)
                             \cup LinkedIn(n.else, p \o <<2>>)
      [] n.k = "while" -> LinkedInByCondition(n.cond, p \o <<0>>) \cup LinkedIn(n.body, p \o <<1>>)
      [] n.k = "for"   -> LinkedInByCondition(n.cond, p \o <<0>>) \cup LinkedIn(n.init, p \o <<1>>)
                             \cup LinkedIn(n.body, p \o <<2>>) \cup LinkedIn(n.step, p \o <<3>>)
      [] n.k = "call" \/ (n.k = "return" /\ n.val = "call") -> {Fn(p)}
      [] n.k = "decl"  -> (IF n.init = "call" THEN {Fn(p)} ELSE {}) \cup (IF n.class THEN {Dtor} ELSE {})
      [] n.k = "throw" -> {CxaSymbols} \cup (IF n.operand = "value" THEN {} ELSE {Fn(p), Dtor})
      [] OTHER -> {}

Symbols(i) ==
    CASE i.op \in {"call", "checked call", "copy"} -> {Fn(i.at)}
      [] i.op = "dtor" -> {Dtor}
      [] i.op \in {"alloc", "free", "throw"} -> {CxaSymbols}
      [] OTHER -> {}

\* What llvm::verifyFunction wants of the blocks that were inserted: each ends
\* at its one terminator, and a phi names the predecessors of its block.
Instructions(blocks) == UNION {ToSet(blocks[b]) : b \in DOMAIN blocks}
Successors(b) == IF b = <<>> THEN {} ELSE {Last(b).next} \cup (IF Last(b).op = "br" THEN {} ELSE {Last(b).alt})
Inserted(blocks) ==
    {b \in DOMAIN blocks : b = EntryBlock \/ blocks[b] # <<>>
                              \/ \E c \in DOMAIN blocks : b \in Successors(blocks[c])}
VerifyFunction(blocks) ==
    \A b \in Inserted(blocks) :
        LET code == blocks[b]
        IN /\ code # <<>> /\ \A i \in DOMAIN code : IsTerminator(code[i]) <=> i = Len(code)
           /\ \A i \in DOMAIN code : code[i].op = "phi" =>
                 {x[1] : x \in ToSet(code[i].incoming)}
                    = {c \in DOMAIN blocks : b \in Successors(blocks[c])}

\* AstFunction::EmitIR: the body, a return of nothing or of zero where control
\* reaches the end, and the entry block, which falls through to the body.
EmitEnd(g, void) ==
    IF g.cursorAtDummy THEN g
    ELSE Insert(g, Instr(IF void THEN "return" ELSE "return zero", "", <<>>, 0, 0))
AssertEmitted(g, body) ==
    AssertInCleanState(AssertThat(AssertThat(AssertThat(g,
        "function does not verify", VerifyFunction(g.blocks)),
        "callee is not linked in",
        UNION {Symbols(i) : i \in Instructions(g.blocks)} \subseteq LinkedIn(body, <<>>)),
        "code in the dummy block", g.dummy = <<>>))
EmitFunction(body, noexcept, void) ==
    AssertEmitted(Insert(SetInsertPoint(EmitEnd(EmitScope(NewFunction(noexcept), body.body, <<>>), void),
                                        EntryBlock), Br(BodyBlock)), body)

-----------------------------------------------------------------------------
(***************************************************************************)
(* One activation of one emitted function, as the backend of LLVM executes *)
(* its blocks, and the structured interpreter at once: the counterpart of  *)
(* ExecutionModes for the third execution mode.                            *)
(*                                                                         *)
(* LLVM mode constructs an exception in the memory it is thrown in, the    *)
(* interpreter in a temporary that it copies: the copy and the destructor  *)
(* of the temporary are the two steps that only one of the modes makes.    *)
(***************************************************************************)

CONSTANTS Functions     \* the functions: [body, noexcept, void]

VARIABLES fn,       \* the function
          made,     \* the emitted function: [blocks, dummy, failed]
          pc,       \* the block and the number of the instruction about to run
          from,     \* the block that was left last
          ssa,      \* the values of the conditions evaluated so far
          raw,      \* how many exceptions are allocated, neither thrown nor freed
          live,     \* the C++ class objects that exist, oldest first
          d         \* the interpreter

vars == <<fn, made, pc, from, ssa, raw, live, d>>

Gone    == <<0, 0>>     \* the function has ended
Unwound == <<0, 1>>     \* an exception has found no landing pad in the function

\* What is kept of the final generation state.  Functions with code behind a
\* throw are emitted but not run: what becomes of the dummy block is not modelled.
Emission(g) == [blocks |-> g.blocks, dummy |-> g.dummy, failed |-> g.failed]

Init ==
    /\ fn \in {f \in Functions : Validate(f.body, f.void).ok}
    /\ made = Emission(EmitFunction(fn.body, fn.noexcept, fn.void))
    /\ pc = IF HasCodeAfterThrow(fn.body) THEN Gone ELSE <<EntryBlock, 1>>
    /\ from = EntryBlock
    /\ ssa = <<>> /\ raw = 0 /\ live = <<>>
    /\ d = InitialInterp(fn.body)

Running == pc # Gone
Inst == IF pc = Unwound THEN Instr("resume", "", <<>>, 0, 0) ELSE made.blocks[pc[1]][pc[2]]

At(b)   == <<b, 1>>
Onward  == IF Inst.next = 0 THEN <<pc[1], pc[2] + 1>> ELSE At(Inst.next)
Landing == IF Inst.alt = 0 THEN Unwound ELSE At(Inst.alt)

\* The event the instruction causes, in the words of the interpreter, which has
\* none for a return of zero.
LLVMEvent ==
    CASE Inst.op = "resume"      -> Event("propagate", "", <<>>)
      [] Inst.op \in {"call", "checked call", "branch", "dtor", "use", "throw", "return",
                     "return zero", "terminate"} ->
            Event(Inst.op, Inst.obj, Inst.at)
      [] OTHER -> Silent
DIEvent == InterpEvent(d, fn.noexcept, fn.void)

\* The destructor of the temporary that was thrown.
IsElided(e) == e.k = "dtor" /\ e.obj = "exn"

Exits == {"return", "return zero", "propagate", "terminate"}
SameEvent == IF LLVMEvent.k \in Exits THEN LLVMEvent.k = DIEvent.k ELSE LLVMEvent = DIEvent

\* Control has reached the end of a function that owes a value: LLVM mode hands
\* zero to the caller, which goes on, where the interpreters stop.
ZeroForTrap == LLVMEvent.k = "return zero" /\ DIEvent.k = "trap"

\* Both are at an event, LLVM mode at one of kind k.
Meeting == Running /\ LLVMEvent # Silent /\ DIEvent # Silent /\ ~IsElided(DIEvent)
AtEvent(k) == Meeting /\ LLVMEvent.k = k

\* LLVM mode goes on to position i, the interpreter to state e unless it was
\* about to do something else.
Proceed(i, e) ==
    /\ pc' = i
    /\ d' = IF SameEvent THEN e ELSE d
    /\ UNCHANGED <<fn, made>>

-----------------------------------------------------------------------------
(* Steps of LLVM mode alone *)

Enters(b) == pc' = At(b) /\ from' = pc[1]

Jump ==
    /\ Running /\ Inst.op = "br"
    /\ Enters(Inst.next)
    /\ UNCHANGED <<fn, made, ssa, raw, live, d>>

CondJump ==
    /\ Running /\ Inst.op = "condbr"
    /\ Enters(IF ssa[Inst.at] THEN Inst.next ELSE Inst.alt)
    /\ UNCHANGED <<fn, made, ssa, raw, live, d>>

Define(value, outcome) == ssa' = [v \in DOMAIN ssa \cup {value} |-> IF v = value THEN outcome ELSE ssa[v]]

SelectIncoming ==
    /\ Running /\ Inst.op = "phi"
    /\ \E x \in ToSet(Inst.incoming) : x[1] = from /\ Define(Inst.at, ssa[x[2]])
    /\ pc' = Onward
    /\ UNCHANGED <<fn, made, from, raw, live, d>>

ExceptionMemory ==
    /\ Running /\ Inst.op \in {"alloc", "free"}
    /\ raw' = IF Inst.op = "alloc" THEN raw + 1 ELSE raw - 1
    /\ pc' = Onward
    /\ UNCHANGED <<fn, made, from, ssa, live, d>>

\* The exception is copied into its memory, which may throw instead.
CopyReturns ==
    /\ Running /\ Inst.op = "copy"
    /\ pc' = Onward /\ from' = pc[1]
    /\ UNCHANGED <<fn, made, ssa, raw, live, d>>

CopyThrows ==
    /\ Running /\ Inst.op = "copy" /\ DIEvent.k = "throw"
    /\ pc' = Landing /\ from' = pc[1]
    /\ d' = Raise(d)
    /\ UNCHANGED <<fn, made, ssa, raw, live>>

\* Steps of the interpreter alone
InterpStep ==
    /\ Running /\ (LLVMEvent # Silent \/ Inst.op = "copy")
    /\ \/ DIEvent = Silent /\ d' = InterpSilentStep(d)
       \/ IsElided(DIEvent) /\ d' = Destroyed(d)
    /\ UNCHANGED <<fn, made, pc, from, ssa, raw, live>>

-----------------------------------------------------------------------------
(* Events *)

CallReturns ==
    /\ AtEvent("call") \/ AtEvent("checked call")
    /\ Proceed(Onward, Returned(d))
    /\ from' = pc[1]
    /\ live' = IF Inst.obj \in {"", "exn"} THEN live ELSE Append(live, Inst.obj)
    /\ UNCHANGED <<ssa, raw>>

CallThrows ==
    /\ AtEvent("checked call")
    /\ Proceed(Landing, Raise(d))
    /\ from' = pc[1]
    /\ UNCHANGED <<ssa, raw, live>>

\* The runtime owns the exception from here on.
Throw ==
    /\ AtEvent("throw")
    /\ Proceed(Landing, Raise(d))
    /\ from' = pc[1] /\ raw' = raw - 1
    /\ UNCHANGED <<ssa, live>>

Use ==
    /\ AtEvent("use")
    /\ Proceed(Onward, Replace(d, <<>>))
    /\ UNCHANGED <<from, ssa, raw, live>>

Branch(outcome) ==
    /\ AtEvent("branch")
    /\ Proceed(Onward, Branched(d, outcome))
    /\ Define(Inst.at, outcome)
    /\ UNCHANGED <<from, raw, live>>

Destroy ==
    /\ AtEvent("dtor")
    /\ Proceed(Onward, Destroyed(d))
    /\ live' = SelectSeq(live, LAMBDA v : v # Inst.obj)
    /\ UNCHANGED <<from, ssa, raw>>

End ==
    /\ \E k \in Exits : AtEvent(k)
    /\ Proceed(Gone, d)
    /\ UNCHANGED <<from, ssa, raw, live>>

Ended == pc = Gone /\ UNCHANGED vars

Next ==
    \/ Jump \/ CondJump \/ SelectIncoming \/ ExceptionMemory
    \/ CopyReturns \/ CopyThrows \/ InterpStep
    \/ CallReturns \/ CallThrows \/ Throw \/ Use
    \/ \E outcome \in BOOLEAN : Branch(outcome)
    \/ Destroy
    \/ End \/ Ended

Spec == Init /\ [][Next]_vars

-----------------------------------------------------------------------------

\* Control stays inside the emitted blocks, conditional branches read values
\* that exist, and no exception is freed twice or freed after it was thrown.
TypeOK ==
    /\ \/ pc \in {Gone, Unwound}
       \/ pc[1] \in DOMAIN made.blocks /\ pc[2] \in DOMAIN made.blocks[pc[1]]
    /\ Running /\ Inst.op = "condbr" => Inst.at \in DOMAIN ssa
    /\ raw \in {0, 1}
    /\ Len(d.scopes) <= Len(d.frames)

\* A validated function is emitted without a failed assertion exactly if it has
\* no code behind a throw: LLVM's verifier accepts its blocks, every function it
\* calls has been linked in, nothing is left in the dummy block and the manager
\* is clean.
EmitsWhatValidates == made.failed = {} <=> ~HasCodeAfterThrow(fn.body)

\* Between two events the two modes may differ; at an event they are about to
\* do the same thing, to the same variable, at the same node, but for the end
\* of a function that owes a value: "we just return 0", where the interpreter
\* asserts that there was a return (function_proto.h:268).
ModesAgree == Meeting => SameEvent \/ ZeroForTrap

\* The emitted code destroys existing objects only, and always the newest.
NewestIsDestroyedFirst ==
    Running /\ Inst.op = "dtor" => live # <<>> /\ Inst.obj = Last(live)

\* No object and no memory of an exception that was not thrown outlives the
\* activation, whether it returns, reaches the end of a body that should have
\* returned a value, or propagates an exception.
NothingOutlivesTheActivation ==
    Running /\ LLVMEvent.k \in Exits \ {"terminate"} => live = <<>> /\ raw = 0

=============================================================================

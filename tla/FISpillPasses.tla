--------------------------- MODULE FISpillPasses ---------------------------
(***************************************************************************)
(* How the fast interpreter compiles one expression or statement.  Code    *)
(* generation walks it twice: FastInterpSetupSpillLocation pretends to     *)
(* generate code and notes which operands did not stay in registers, and   *)
(* PrepareForFastInterp generates it, spilling those from the moment they  *)
(* are pushed.  Both walks visit an operator's right operand before its    *)
(* left one, so that a pending left operand has its location before the    *)
(* code that computes it is emitted, although that code runs first.        *)
(*                                                                         *)
(* The model runs both walks task by task on the FIStackFrame, with the    *)
(* nodes of FIAstNodes, emits the code, and then runs it on registers and  *)
(* stack slots.  A value is named by the path of the node that computes it. *)
(***************************************************************************)
EXTENDS FIAstNodes, FiniteSets, SequencesExt

CONSTANT Expressions     \* the expressions and statements to compile

Frames == INSTANCE FIStackFrame WITH
    VarLayouts <- {}, StartOffset <- 8, MaxTemps <- 0, MaxLocals <- 0,
    frame <- 0, tempStack <- 0, locals <- 0

VARIABLES
    root,          \* the expression being compiled
    phase,         \* "plan", "generate", "run", "unwound"
    todo,          \* the tasks the current walk still has to do
    frame,         \* the FIStackFrameManager
    lhsSpilled,    \* m_fiIsLhsSpill, m_fiIsBaseSpill: by path
    newSfSpillAt,  \* m_fastInterpSpillNewSfAddrAt: << path, parameter >>
    snippets,      \* code generated and not yet joined, newest last
    code,          \* the code of the whole expression, once generated
    pc, regs, mem  \* the machine that runs it

vars == << root, phase, todo, frame, lhsSpilled, newSfSpillAt, snippets,
           code, pc, regs, mem >>

machine == << code, pc, regs, mem >>

-----------------------------------------------------------------------------
(* The first walk: FastInterpSetupSpillLocation *)

Child(at, i) == Append(at, i)

Setup(e, at) == [do |-> "setup", e |-> e, at |-> at]
Reserve(c) == [do |-> "reserve", class |-> c]
Push(c) == [do |-> "push", class |-> c]
Note(at, c) == [do |-> "note", at |-> at, class |-> c]
SpillAll == [do |-> "spillAll"]
NoteNewSf(at, i) == [do |-> "noteNewSf", at |-> at, param |-> i]
DropNewSf == [do |-> "dropNewSf"]

SetupOne(e, at, path) ==
    LET arg == Sub(e, path)
    IN  << Reserve(arg.class), Setup(arg, at \o path) >>

SetupBoth(e, at) ==
    LET l == e.kids[1]  r == e.kids[2]
    IN  << Push(l.class), Reserve(r.class), Setup(r, Child(at, 2)),
           Note(at, l.class), Setup(l, Child(at, 1)) >>

SetupAndOr(e, at) ==
    << Reserve("integral"), Setup(e.kids[1], Child(at, 1)),
       Setup(e.kids[2], Child(at, 2)) >>

\* The address of the new stack frame is pending while the parameters are
\* evaluated, in order; it is noted after which of them it got spilled.
SetupCall(e, at) ==
    << SpillAll, Push("integral") >>
    \o FlattenSeq([i \in DOMAIN e.kids |->
           << Reserve(e.kids[i].class), Setup(e.kids[i], Child(at, i)),
              NoteNewSf(at, i) >>])
    \o << DropNewSf >>

\* AstRvalueToConstPrimitiveRefExpr: only its operand is ever generated
SetupConstRef(e, at) ==
    << Reserve(e.kids[1].class), Setup(e.kids[1], at) >>

\* A condition is set up as the expression it is, however it is going to be
\* inlined; so is a returned value.
SetupTasks(e, at) ==
    CASE Is(e, "call") -> SetupCall(e, at)
      [] Is(e, "andOr") -> SetupAndOr(e, at)
      [] Is(e, "constRef") -> SetupConstRef(e, at)
      [] Is(e, "branch") -> << Setup(e.kids[1], at) >>
      [] Is(e, "return") /\ e.kids # << >> -> SetupOne(e, at, << 1 >>)
      [] OTHER ->
            CASE Len(Operands(e)) = 0 -> << >>
              [] Len(Operands(e)) = 1 -> SetupOne(e, at, Operands(e)[1])
              [] OTHER -> SetupBoth(e, at)

task == Head(todo)

PlanSetup ==
    /\ task.do = "setup"
    /\ todo' = SetupTasks(task.e, task.at) \o Tail(todo)
    /\ UNCHANGED << frame, lhsSpilled, newSfSpillAt >>

PlanFrameOperation ==
    /\ task.do \in {"reserve", "push", "spillAll", "dropNewSf"}
    /\ frame' = CASE task.do = "reserve" -> Frames!ReserveTemp(frame, task.class)
                  [] task.do = "push" -> Frames!PushTemp(frame, task.class, FALSE)
                  [] task.do = "spillAll" -> Frames!ForceSpillAll(frame)
                  [] task.do = "dropNewSf" -> Frames!PopTemp(frame, "integral")
    /\ todo' = Tail(todo)
    /\ UNCHANGED << lhsSpilled, newSfSpillAt >>

PlanNote ==
    /\ task.do = "note"
    /\ frame' = Frames!PopTemp(frame, task.class)
    /\ lhsSpilled' = IF Frames!PeekTemp(frame, task.class) # NoSpill
                     THEN lhsSpilled \cup {task.at} ELSE lhsSpilled
    /\ todo' = Tail(todo)
    /\ UNCHANGED newSfSpillAt

\* mutant: the last parameter that sees it spilled is noted, not the first
FirstSpillNotedLast(at, i) == Frames!PeekTemp(frame, "integral") # NoSpill

FirstSpill(at, i) ==
    /\ Frames!PeekTemp(frame, "integral") # NoSpill
    /\ \A n \in newSfSpillAt : n[1] # at

PlanNoteNewSf ==
    /\ task.do = "noteNewSf"
    /\ newSfSpillAt' = IF FirstSpill(task.at, task.param)
                       THEN {n \in newSfSpillAt : n[1] # task.at}
                            \cup {<< task.at, task.param >>}
                       ELSE newSfSpillAt
    /\ todo' = Tail(todo)
    /\ UNCHANGED << frame, lhsSpilled >>

Plan ==
    /\ phase = "plan" /\ todo # << >>
    /\ PlanSetup \/ PlanFrameOperation \/ PlanNote \/ PlanNoteNewSf
    /\ UNCHANGED << root, phase, snippets, machine >>

-----------------------------------------------------------------------------
(* The second walk: PrepareForFastInterp *)

Emit(e, at, tag, loc) ==
    [do |-> "emit", e |-> e, at |-> at, tag |-> tag, loc |-> loc]
Finish(e, at, tag, loc, lhsLoc) ==
    [do |-> "finish", e |-> e, at |-> at, tag |-> tag, loc |-> loc,
     lhsLoc |-> lhsLoc]
PopLhs(e, at, tag, loc) ==
    [do |-> "popLhs", e |-> e, at |-> at, tag |-> tag, loc |-> loc]
BeginParam(e, at, i) == [do |-> "beginParam", e |-> e, at |-> at, param |-> i]
EndParam(e, at, i) == [do |-> "endParam", e |-> e, at |-> at, param |-> i]

\* GetNumNoSpillIntegral, GetNumNoSpillFloat
PendingNow == [c \in Class |-> Frames!NumNoSpill(frame, c)]

\* A conversion that changes nothing leaves the value where it is
PassesOn(e, loc) ==
    /\ loc = NoSpill
    /\ Is(e, "reinterpretCast") \/ (Is(e, "staticCast") /\ e.kind = "noop")

EmitNone(e, at, tag, loc) ==
    /\ snippets' = Append(snippets,
           Code(e, << >>, Value(e.class, loc, tag), PendingNow))
    /\ todo' = Tail(todo)
    /\ UNCHANGED frame

EmitOne(e, at, tag, loc) ==
    LET path == Operands(e)[1]
        place == OperandAt(e, at, path)
        argTag == IF PassesOn(e, loc) THEN tag ELSE place
    IN  /\ todo' = << Emit(Sub(e, path), place, argTag, NoSpill),
                      Finish(e, at, tag, loc, NoSpill) >> \o Tail(todo)
        /\ UNCHANGED << frame, snippets >>

EmitBoth(e, at, tag, loc) ==
    /\ frame' = Frames!PushTemp(frame, e.kids[1].class, at \in lhsSpilled)
    /\ todo' = << Emit(e.kids[2], Child(at, 2), Child(at, 2), NoSpill),
                  PopLhs(e, at, tag, loc) >> \o Tail(todo)
    /\ UNCHANGED snippets

\* The right condition is generated first, for the left one to continue with.
\* Only a conjunction keeps favouring its true branch.
EmitChain(e, at, tag) ==
    LET cond == e.kids[1]
        kind == IF cond.kind = "and" THEN e.kind ELSE "unpredictable"
        part(i) == [e EXCEPT !.kind = kind, !.kids = << cond.kids[i] >>]
    IN  /\ todo' = << Emit(part(2), Child(at, 2), tag, NoSpill),
                      Emit(part(1), Child(at, 1), tag, NoSpill),
                      Finish(e, at, tag, NoSpill, NoSpill) >> \o Tail(todo)
        /\ UNCHANGED << frame, snippets >>

\* "lhs is always no spill ... rhs will do the same spilling": the right
\* operand computes the value of the whole expression, in its location.
EmitAndOr(e, at, tag, loc) ==
    /\ todo' = << Emit(e.kids[1], Child(at, 1), Child(at, 1), NoSpill),
                  Emit(e.kids[2], Child(at, 2), tag, loc),
                  Finish(e, at, tag, loc, NoSpill) >> \o Tail(todo)
    /\ UNCHANGED << frame, snippets >>

NewSf(at) == Child(at, 0)

Throws(e) == e.kind \in {"throws", "sretThrows"}
UsesSret(e) == e.kind \in {"sret", "sretThrows"}

CallTasks(e, at, tag, loc) ==
    [i \in DOMAIN e.kids |-> BeginParam(e, at, i)]
    \o << Finish(e, at, tag, loc, NoSpill) >>
    \o (IF Throws(e) THEN << [Finish(e, at, tag, loc, NoSpill)
                              EXCEPT !.do = "checkException"] >> ELSE << >>)

\* The address of the object to return in goes into the first parameter
SretCode(e, at, pending) ==
    LET newSf == Value("integral", NoSpill, NewSf(at))
        var == Value("integral", NoSpill, Child(at, -2))
    IN  << Variable(var, pending), StoreParam(newSf, var, e.kids # << >>) >>

EmitCall(e, at, tag, loc) ==
    LET g == Frames!PushTemp(Frames!ForceSpillAll(frame), "integral", FALSE)
        pending == [c \in Class |-> Frames!NumNoSpill(g, c)]
    IN  /\ frame' = g
        /\ snippets' = Append(snippets,
               << CallExprEnter(Value("integral", NoSpill, NewSf(at))) >>
               \o (IF UsesSret(e) THEN SretCode(e, at, pending) ELSE << >>))
        /\ todo' = CallTasks(e, at, tag, loc) \o Tail(todo)

ReturnLayout == << 8, 8 >>

\* A value returned from under destructors waits in memory while they run
EmitReturnUnderDestructors(e, at, tag) ==
    /\ frame' = Frames!PushLocalVar(frame, ReturnLayout)
    /\ todo' = << Emit(e.kids[1], Child(at, 1), Child(at, 1),
                       Frames!LocalVarOffset(frame, ReturnLayout)),
                  Finish(e, at, tag, Frames!LocalVarOffset(frame, ReturnLayout),
                         NoSpill) >> \o Tail(todo)
    /\ UNCHANGED snippets

UnderDestructors(e) == Is(e, "return") /\ e.kind = "dtors"

IsChain(e) == Is(e, "branch") /\ Is(e.kids[1], "andOr")

GenerateEmit ==
    /\ task.do = "emit"
    /\ LET e == task.e  at == task.at  tag == task.tag  loc == task.loc
           ordinary == /\ ~Is(e, "call") /\ ~Is(e, "andOr")
                       /\ ~UnderDestructors(e) /\ ~IsChain(e)
       IN
        \/ ordinary /\ Len(Operands(e)) = 0 /\ EmitNone(e, at, tag, loc)
        \/ ordinary /\ Len(Operands(e)) = 1 /\ EmitOne(e, at, tag, loc)
        \/ ordinary /\ Len(Operands(e)) = 2 /\ EmitBoth(e, at, tag, loc)
        \/ UnderDestructors(e) /\ EmitReturnUnderDestructors(e, at, tag)
        \/ IsChain(e) /\ EmitChain(e, at, tag)
        \/ Is(e, "andOr") /\ EmitAndOr(e, at, tag, loc)
        \/ Is(e, "call") /\ EmitCall(e, at, tag, loc)

GeneratePopLhs ==
    /\ task.do = "popLhs"
    /\ LET e == task.e
           lhsLoc == Frames!PeekTemp(frame, e.kids[1].class)
       IN  /\ todo' = << Emit(e.kids[1], Child(task.at, 1), Child(task.at, 1),
                              lhsLoc),
                         Finish(e, task.at, task.tag, task.loc, lhsLoc) >>
                      \o Tail(todo)
           /\ frame' = Frames!PopTemp(frame, e.kids[1].class)
    /\ UNCHANGED snippets

\* A reference to a primitive is bound to a copy of the operand's value
ParamNode(e, i) ==
    IF Is(e.kids[i], "constRef") THEN e.kids[i].kids[1] ELSE e.kids[i]

GenerateBeginParam ==
    /\ task.do = "beginParam"
    /\ LET e == task.e  at == task.at  i == task.param IN
        /\ frame' = IF << at, i >> \in newSfSpillAt
                    THEN Frames!ForceSpillAll(frame) ELSE frame
        /\ todo' = << Emit(ParamNode(e, i), Child(at, i), Child(at, i), NoSpill),
                      EndParam(e, at, i) >> \o Tail(todo)
    /\ UNCHANGED snippets

\* The address travels in a register until it is spilled, just before the
\* parameter that needs its register, or no longer needed.
GenerateEndParam ==
    /\ task.do = "endParam"
    /\ LET e == task.e  at == task.at  i == task.param
           n == Len(snippets)
           inRegister == Value("integral", NoSpill, NewSf(at))
           newSf == Value("integral", Frames!PeekTemp(frame, "integral"), NewSf(at))
           param == Value(ParamNode(e, i).class, NoSpill, Child(at, i))
           spill == IF << at, i >> \in newSfSpillAt
                    THEN << SpillStackAddr(inRegister, newSf) >> ELSE << >>
           store == IF Is(e.kids[i], "constRef")
                    THEN StoreConstRef(newSf, param, i < Len(e.kids))
                    ELSE StoreParam(newSf, param, i < Len(e.kids))
       IN  snippets' = Append(SubSeq(snippets, 1, n - 2),
               snippets[n - 1] \o spill \o snippets[n] \o << store >>)
    /\ todo' = Tail(todo)
    /\ UNCHANGED frame

Exception(at) == Value("integral", NoSpill, Child(at, -1))

\* FICallExprImpl continues with what the callee returned.  A call without
\* parameters has to drop the frame address on its own.
FinishCall(e, at, tag, loc) ==
    LET n == Len(snippets)
        drop == FakeSpillStackAddr(Value("integral", NoSpill, NewSf(at)))
        exn == IF Throws(e) THEN << Exception(at) >> ELSE << >>
    IN  /\ snippets' = Append(SubSeq(snippets, 1, n - 1),
               snippets[n]
               \o (IF e.kids = << >> /\ ~UsesSret(e) THEN << drop >> ELSE << >>)
               \o << CallExprReturn(Value(e.class, loc, tag), exn) >>)
        /\ frame' = Frames!PopTemp(frame, "integral")

\* The result is pending while the callee's exception is checked for
GenerateCheckException ==
    /\ task.do = "checkException"
    /\ LET e == task.e
           n == Len(snippets)
           pushed == e.class \in Class /\ task.loc = NoSpill
           g == IF pushed THEN Frames!PushTemp(frame, e.class, FALSE) ELSE frame
           pending == [c \in Class |-> Frames!NumNoSpill(g, c)]
       IN  /\ snippets' = [snippets EXCEPT ![n] =
                   Append(@, CheckException(Exception(task.at), pending))]
           /\ frame' = IF pushed THEN Frames!PopTemp(g, e.class) ELSE frame
    /\ todo' = Tail(todo)

FinishOne(e, at, tag, loc) ==
    LET n == Len(snippets)
        path == Operands(e)[1]
        arg == Value(Sub(e, path).class, NoSpill, OperandAt(e, at, path))
    IN  /\ snippets' = [snippets EXCEPT ![n] =
               @ \o Code(e, << arg >>, Value(e.class, loc, tag), PendingNow)]
        /\ UNCHANGED frame

\* lhs.AddContinuation(rhs).AddContinuation(inst)
FinishBoth(e, at, tag, loc, lhsLoc) ==
    LET n == Len(snippets)
        args == << Value(e.kids[1].class, lhsLoc, Child(at, 1)),
                   Value(e.kids[2].class, NoSpill, Child(at, 2)) >>
    IN  /\ snippets' = Append(SubSeq(snippets, 1, n - 2),
               snippets[n] \o snippets[n - 1]
               \o Code(e, args, Value(e.class, loc, tag), PendingNow))
        /\ UNCHANGED frame

FinishAndOr(e, at, tag, loc) ==
    LET n == Len(snippets)
        op == LogicalAndOr(<< Value("integral", NoSpill, Child(at, 1)) >>,
                           Value("integral", loc, tag),
                           Only({"integral"}, PendingNow), Len(snippets[n]))
    IN  /\ snippets' = Append(SubSeq(snippets, 1, n - 2),
               Append(snippets[n - 1], op) \o snippets[n]
               \o << Noop(Only({}, PendingNow)) >>)
        /\ UNCHANGED frame

\* The branches of s that leave by exit continue right after s
ContinueAfter(s, exit) ==
    [i \in DOMAIN s |-> [s[i] EXCEPT !.exits =
        [x \in DOMAIN @ |-> IF @[x] = exit THEN Len(s) - i ELSE @[x]]]]

\* The left condition is newest
FinishChain(e, at) ==
    LET n == Len(snippets)
        decided == IF e.kids[1].kind = "and" THEN TrueBr ELSE FalseBr
    IN  /\ snippets' = Append(SubSeq(snippets, 1, n - 2),
               ContinueAfter(snippets[n], decided) \o snippets[n - 1])
        /\ UNCHANGED frame

FinishReturn(e, at, loc) ==
    LET n == Len(snippets)
        ret == Value(e.kids[1].class, loc, Child(at, 1))
    IN  /\ snippets' = [snippets EXCEPT ![n] =
               Append(@, ReturnSpilledLocation(<< ret >>))]
        /\ frame' = Frames!PopLocalVar(frame)

GenerateFinish ==
    /\ task.do = "finish"
    /\ LET e == task.e  at == task.at  tag == task.tag  loc == task.loc
           ordinary == /\ ~Is(e, "call") /\ ~Is(e, "andOr")
                       /\ ~UnderDestructors(e) /\ ~IsChain(e)
       IN
        \/ ordinary /\ Len(Operands(e)) = 1 /\ FinishOne(e, at, tag, loc)
        \/ ordinary /\ Len(Operands(e)) = 2
           /\ FinishBoth(e, at, tag, loc, task.lhsLoc)
        \/ UnderDestructors(e) /\ FinishReturn(e, at, loc)
        \/ IsChain(e) /\ FinishChain(e, at)
        \/ Is(e, "andOr") /\ FinishAndOr(e, at, tag, loc)
        \/ Is(e, "call") /\ FinishCall(e, at, tag, loc)
    /\ todo' = Tail(todo)

Generate ==
    /\ phase = "generate" /\ todo # << >>
    /\ GenerateEmit \/ GeneratePopLhs \/ GenerateBeginParam \/ GenerateEndParam
       \/ GenerateCheckException \/ GenerateFinish
    /\ UNCHANGED << root, phase, lhsSpilled, newSfSpillAt, machine >>

-----------------------------------------------------------------------------
(* The generated code, run *)

\* Continuations pass the pending registers on, without the operands consumed
\* and with the results, unless they go to the stack.
Execute(b, out) ==
    LET produced(c) == SelectSeq(out, LAMBDA v : v.class = c /\ InRegister(v))
        stored == {out[i] : i \in {j \in DOMAIN out : ~InRegister(out[j])}}
    IN  /\ regs' = [c \in Class |->
               SubSeq(regs[c], 1, Len(regs[c]) - FromRegisters(b.reads, c))
               \o [i \in DOMAIN produced(c) |-> produced(c)[i].tag]]
        /\ mem' = [o \in DOMAIN mem \cup {v.loc : v \in stored} |->
               IF \E v \in stored : v.loc = o
               THEN (CHOOSE v \in stored : v.loc = o).tag ELSE mem[o]]

RunStep(b) ==
    /\ Execute(b, b.out)
    /\ pc' = pc + 1
    /\ UNCHANGED phase

\* The value is known without the right operand
ShortCircuit(b) ==
    /\ b.skip > 0
    /\ Execute(b, b.out)
    /\ pc' = pc + 1 + b.skip
    /\ UNCHANGED phase

\* The right operand is to compute it: nothing is produced here
FallThrough(b) ==
    /\ b.skip > 0
    /\ Execute(b, << >>)
    /\ pc' = pc + 1
    /\ UNCHANGED phase

\* To code behind, or out to one of the branches of the statement
Branch(b) ==
    /\ Execute(b, << >>)
    /\ \E x \in DOMAIN b.exits :
        pc' = IF b.exits[x] < 0 THEN Len(code) + 1 ELSE pc + 1 + b.exits[x]
    /\ UNCHANGED phase

\* The callee threw: control leaves for the exception handling code
Unwind(b) ==
    /\ b.checks
    /\ phase' = "unwound"
    /\ UNCHANGED << pc, regs, mem >>

Run ==
    /\ phase = "run" /\ pc <= Len(code)
    /\ \/ code[pc].skip = 0 /\ code[pc].exits = << >> /\ RunStep(code[pc])
       \/ Branch(code[pc])
       \/ ShortCircuit(code[pc])
       \/ FallThrough(code[pc])
       \/ Unwind(code[pc])
    /\ UNCHANGED << root, todo, frame, lhsSpilled, newSfSpillAt, snippets, code >>

-----------------------------------------------------------------------------

Init ==
    /\ root \in Expressions
    /\ phase = "plan"
    /\ todo = << Setup(root, << >>) >>
    /\ frame = Frames!EmptyFrame(8)
    /\ lhsSpilled = {} /\ newSfSpillAt = {}
    /\ snippets = << >>
    /\ code = << >> /\ pc = 1
    /\ regs = [c \in Class |-> << >>]
    /\ mem = [o \in {} |-> << >>]

\* The frame is not reset between the walks
StartGenerate ==
    /\ phase = "plan" /\ todo = << >>
    /\ phase' = "generate"
    /\ todo' = << Emit(root, << >>, << >>, NoSpill) >>
    /\ UNCHANGED << root, frame, lhsSpilled, newSfSpillAt, snippets, machine >>

StartRun ==
    /\ phase = "generate" /\ todo = << >>
    /\ phase' = "run"
    /\ code' = snippets[1]
    /\ UNCHANGED << root, todo, frame, lhsSpilled, newSfSpillAt, snippets, pc,
                    regs, mem >>

Done ==
    /\ phase = "unwound" \/ (phase = "run" /\ pc > Len(code))
    /\ UNCHANGED vars

Next == Plan \/ StartGenerate \/ Generate \/ StartRun \/ Run \/ Done

Spec == Init /\ [][Next]_vars

-----------------------------------------------------------------------------

TypeOK ==
    /\ phase \in {"plan", "generate", "run", "unwound"}
    /\ pc \in 1 .. Len(code) + 1
    /\ \A c \in Class : Len(regs[c]) \in 0 .. NoSpillLimit[c]
    /\ DOMAIN mem \subseteq 8 .. frame.max - 8
    /\ \A n \in newSfSpillAt : Len(n) = 2

\* Every blueprint that is selected is one the boilerplate library was built
\* with: "It is a programming error to select a non-existent boilerplate!"
\* (SelectBoilerplateBluePrint).  The numbers of pending values decide that,
\* so this is about the spilling of everything around a node.
BlueprintsExist ==
    \A i \in DOMAIN snippets :
        \A j \in DOMAIN snippets[i] : snippets[i][j].exists

FromStack(v) == v.loc \in DOMAIN mem /\ mem[v.loc] = v.tag

\* Whenever a boilerplate runs, it finds in the registers exactly the pending
\* values it was specialised to pass on (or no more than the most there can
\* be), topped by its own operands, and its other operands in their stack
\* slots: no slot was reused too early by either operand stack, and no call
\* or conversion lost a register.  At the end of the code the value of the
\* expression is the one thing left.
OperandsInPlace ==
    /\ (phase = "run" /\ pc <= Len(code)) =>
        LET b == code[pc] IN
        /\ \A c \in Class :
            LET mine == SelectSeq(b.reads, LAMBDA v : v.class = c /\ InRegister(v))
                n == Len(regs[c]) - Len(mine)
            IN  /\ n = b.opaque[c] \/ (n >= 0 /\ AllOpaque(b.opaque, c))
                /\ \A i \in DOMAIN mine : regs[c][n + i] = mine[i].tag
        /\ \A i \in DOMAIN b.reads : ~InRegister(b.reads[i]) => FromStack(b.reads[i])
    /\ (phase = "run" /\ pc = Len(code) + 1) =>
        regs = [c \in Class |-> IF c = root.class THEN << << >> >> ELSE << >>]

\* The walks agree: an operand is in a register in the second exactly if it
\* was at the end of the first, and the frame address of a call leaves its
\* register at the noted parameter and at no other (the TestAssertIff's of
\* the PrepareForFastInterp functions).  Whenever the code of an operand is
\* about to be generated there is a register for it, as the first walk has
\* arranged (TestAssert(CanReserveWithoutSpill) before each recursive call).
WalksAgree ==
    (phase = "generate" /\ todo # << >>) =>
        /\ task.do = "popLhs" =>
            (task.at \in lhsSpilled
                <=> Frames!PeekTemp(frame, task.e.kids[1].class) # NoSpill)
        /\ task.do = "endParam" =>
            ((\E i \in 1 .. task.param : << task.at, i >> \in newSfSpillAt)
                <=> Frames!PeekTemp(frame, "integral") # NoSpill)
        /\ (task.do = "beginParam" /\ << task.at, task.param >> \in newSfSpillAt) =>
            PendingNow = [c \in Class |-> IF c = "integral" THEN 1 ELSE 0]
        /\ (task.do = "emit" /\ task.e.class \in Class /\ task.loc = NoSpill) =>
            Frames!CanReserveWithoutSpill(frame, task.e.class)
=============================================================================

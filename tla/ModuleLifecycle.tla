---------------------------- MODULE ModuleLifecycle ----------------------------
(***************************************************************************)
(* What a thread does with its modules (AstModule in                       *)
(* pochivm/function_proto.h): it builds one, validates it, prepares it for *)
(* each mode in any order, and gets handles to its functions.  Functions   *)
(* call each other by name, in any direction, so every mode has a way to   *)
(* bind a call to a function that it has not come to yet.                  *)
(*                                                                         *)
(* The modules of a thread share its contexts: the color of traversals, the*)
(* engine with its instances, the list of calls to fix, the generated      *)
(* program, the current module in which names are looked up, the error.    *)
(***************************************************************************)
EXTENDS Integers, Sequences, FiniteSets

CONSTANTS Names,      \* of functions
          Definitions,\* the functions that the host defines: see NewFn
          MaxModules, \* a bound on the modules of the thread
          MaxHandles  \* a bound on the handles that the host gets

None == "none"

ConstantsOK ==
    /\ MaxModules \in Nat \ {0} /\ MaxHandles \in Nat
    /\ None \notin Names
    /\ \A f \in Definitions : /\ f.calls \in Names \cup {None} /\ f.frame \in Nat
                            /\ f.bad \in BOOLEAN /\ f.hasObject \in BOOLEAN

VARIABLES mods,     \* the modules, the last one is m_curModule
          error,    \* thread_errorContext has an error
          epoch,    \* m_astTraverseColorMark: how often ClearAll was called
          bound,    \* the function that a call was bound to, by mode and caller
          engine,   \* the engine: its epoch, and its call instances
          fixList,  \* m_fastInterpFnCallFixList
          program,  \* m_fastInterpGeneratedProgram, with its call instances
          live,     \* the programs that are mapped
          handles,  \* what the host has got
          task,     \* what AstModule is doing, for the functions in task.rest
          failed    \* the assertions that did not hold

vars == <<mods, error, epoch, bound, engine, fixList, program, live, handles, task, failed>>

(* A function: the name it calls, if any, whether it breaks a rule of      *)
(* Validate, whether it has a class variable, and what the modes have left *)
(* in it: the color of its nodes, its frame size and size category, the    *)
(* destructor instance kept in the variable (the epoch of its engine), its *)
(* entry point (the program), its prototype; 0 is none.                    *)
NewFn(f) ==
    [calls |-> f.calls, bad |-> f.bad, hasObject |-> f.hasObject, frame |-> f.frame,
     color |-> 0, debugReady |-> FALSE, size |-> 0, category |-> 0, dtorOp |-> 0, entry |-> 0, proto |-> FALSE]
NoFn == [calls |-> None, bad |-> TRUE]

EmptyModule == [fns |-> [n \in Names |-> NoFn], validated |-> "no", debug |-> FALSE, fast |-> FALSE, ir |-> "no"]

Idle == [what |-> "idle", rest |-> {}]
NoProgram == [id |-> 0, calls |-> {}]

cur == Len(mods)
Fns(m) == {n \in Names : mods[m].fns[n] # NoFn}
Fn(m, n) == mods[m].fns[n]
IsIdle == task = Idle

\* mutant: the module that was made first is asked
LookupFirst(n) == IF n \in Fns(1) THEN <<1, n>> ELSE <<0, None>>

\* GetAstFunction of the current module
Lookup(n) == IF n \in Fns(cur) THEN <<cur, n>> ELSE <<0, None>>

Init ==
    /\ mods = <<>> /\ error = FALSE /\ epoch = 1
    /\ bound = [debug |-> {}, fast |-> {}, llvm |-> {}]
    /\ engine = [epoch |-> 0, calls |-> {}]
    /\ fixList = {} /\ program = NoProgram /\ live = {}
    /\ handles = {} /\ task = Idle /\ failed = {}

Expect(name, holds) == failed' = failed \cup (IF holds THEN {} ELSE {name})

Bind(mode, m, n, callee) ==
    bound' = [bound EXCEPT ![mode] = @ \cup (IF callee = None THEN {} ELSE {[caller |-> <<m, n>>, callee |-> Lookup(callee)]})]

-----------------------------------------------------------------------------
(* Building and validating                                                 *)

NewModule ==
    /\ IsIdle /\ cur < MaxModules
    /\ mods' = Append(mods, EmptyModule)
    /\ UNCHANGED <<error, epoch, bound, engine, fixList, program, live, handles, task, failed>>

NewAstFunction(n, f) ==
    /\ IsIdle /\ cur > 0 /\ mods[cur].validated = "no"
    /\ n \notin Fns(cur)
    /\ mods' = [mods EXCEPT ![cur].fns[n] = NewFn(f)]
    /\ UNCHANGED <<error, epoch, bound, engine, fixList, program, live, handles, task, failed>>

\* A function passes: its own rules hold and the callee exists.
Passes(n) == ~Fn(cur, n).bad /\ (Fn(cur, n).calls = None \/ Lookup(Fn(cur, n).calls)[1] # 0)

\* Validate goes through the functions in some order, up to the first that
\* does not pass, whose error is set; the nodes it has seen keep their color.
Validate ==
    /\ IsIdle /\ cur > 0 /\ Fns(cur) # {} /\ mods[cur].validated = "no" /\ ~error
    /\ epoch' = epoch + 1
    /\ \E seen \in SUBSET Fns(cur) :
          /\ \/ seen = Fns(cur) /\ (\A n \in seen : Passes(n)) /\ error' = FALSE
             \/ (\E n \in seen : ~Passes(n) /\ \A k \in seen \ {n} : Passes(k)) /\ error' = TRUE
          /\ Expect("used twice", \A n \in seen : Fn(cur, n).color # epoch')
          /\ mods' = [mods EXCEPT ![cur] =
                 [@ EXCEPT !.validated = IF error' THEN "error" ELSE "ok",
                           !.fns = [n \in Names |-> IF n \in seen THEN [Fn(cur, n) EXCEPT !.color = epoch'] ELSE Fn(cur, n)]]]
    /\ UNCHANGED <<bound, engine, fixList, program, live, handles, task>>

\* AutoThreadErrorContext: the only way to forget an error.
NewErrorContext ==
    /\ IsIdle /\ error
    /\ error' = FALSE
    /\ UNCHANGED <<mods, epoch, bound, engine, fixList, program, live, handles, task, failed>>

IsReady == IsIdle /\ cur > 0 /\ mods[cur].validated = "ok"

-----------------------------------------------------------------------------
(* Debug-interp mode                                                       *)

StartDebug ==
    /\ IsReady /\ ~mods[cur].debug
    /\ mods' = [mods EXCEPT ![cur].debug = TRUE]
    /\ epoch' = epoch + 1
    /\ task' = [what |-> "debug", rest |-> Fns(cur)]
    /\ UNCHANGED <<error, bound, engine, fixList, program, live, handles, failed>>

Done(n) == task' = IF task.rest = {n} THEN Idle ELSE [task EXCEPT !.rest = @ \ {n}]

\* PrepareForDebugInterp of a function: its nodes are colored, its call is
\* bound to the callee of that name.
PrepareDebug(n) ==
    /\ task.what = "debug" /\ n \in task.rest
    /\ Expect("no color", Fn(cur, n).color # epoch)
    /\ mods' = [mods EXCEPT ![cur].fns[n] = [@ EXCEPT !.color = epoch, !.debugReady = TRUE]]
    /\ Bind("debug", cur, n, Fn(cur, n).calls)
    /\ Done(n)
    /\ UNCHANGED <<error, epoch, engine, fixList, program, live, handles>>

-----------------------------------------------------------------------------
(* FastInterp mode                                                         *)

\* The category of a frame is its size here: what matters is which frame.
CategoryOf(size) == size

\* PrepareForFastInterp: the engine and the list of the thread start anew.
StartFast ==
    /\ IsReady /\ ~mods[cur].fast
    /\ mods' = [mods EXCEPT ![cur].fast = TRUE]
    /\ engine' = [epoch |-> engine.epoch + 1, calls |-> {}]
    /\ fixList' = {}
    /\ epoch' = epoch + 1
    /\ task' = [what |-> "fast", rest |-> Fns(cur)]
    /\ UNCHANGED <<error, bound, program, live, handles, failed>>

\* A call instance: who calls whom, the frame it allocates, its engine.
CallInst(n, callee, category) == [caller |-> <<cur, n>>, callee |-> callee, category |-> category, engine |-> engine.epoch]

\* PrepareForFastInterp of a function.  The frame of the callee may not be
\* known yet, so that a call is made for the smallest one and noted down.
\* A class variable makes its destructor call once and keeps it.
GenerateFast(n) ==
    LET f      == Fn(cur, n)
        callee == Lookup(f.calls)
        inst   == CallInst(n, callee, 0)
    IN  /\ task.what = "fast" /\ n \in task.rest
        /\ IF f.calls = None
           THEN UNCHANGED <<engine, fixList>>
           ELSE /\ engine' = [engine EXCEPT !.calls = @ \cup {inst}]
                /\ fixList' = fixList \cup {[target |-> callee, inst |-> inst]}
        /\ Bind("fast", cur, n, f.calls)
        /\ failed' = failed \cup (IF f.size = 0 THEN {} ELSE {"frame size is set once"})
                            \cup (IF f.hasObject /\ f.dtorOp \notin {0, engine.epoch} THEN {"instance of this engine"} ELSE {})
        /\ mods' = [mods EXCEPT ![cur].fns[n] =
                       [f EXCEPT !.size = f.frame, !.dtorOp = IF f.hasObject /\ @ = 0 THEN engine.epoch ELSE @]]
        /\ task' = IF task.rest = {n} THEN [what |-> "fix", rest |-> {}] ELSE [task EXCEPT !.rest = @ \ {n}]
        /\ UNCHANGED <<error, epoch, program, live, handles>>

\* FastInterpFixStackFrameSize of each call in the list.  The category of a
\* function is computed when it is first asked for, and kept.
FixCalls ==
    /\ task.what = "fix"
    /\ LET Category(t) == IF Fn(t[1], t[2]).category # 0 THEN Fn(t[1], t[2]).category
                          ELSE CategoryOf(Fn(t[1], t[2]).size)
           targets     == {x.target : x \in fixList}
           fixed       == {x.inst : x \in fixList}
       IN  /\ mods' = [m \in DOMAIN mods |-> [mods[m] EXCEPT !.fns =
                          [n \in Names |-> IF <<m, n>> \in targets THEN [@[n] EXCEPT !.category = Category(<<m, n>>)] ELSE @[n]]]]
           /\ engine' = [engine EXCEPT !.calls = (@ \ fixed) \cup
                            {[x.inst EXCEPT !.category = Category(x.target)] : x \in {y \in fixList : y.inst \in @}}]
           /\ Expect("instance of this engine", \A i \in fixed : i.engine = engine.epoch)
    /\ task' = [what |-> "materialize", rest |-> {}]
    /\ UNCHANGED <<error, epoch, bound, fixList, program, live, handles>>

\* The new program replaces the one of the thread, which is unmapped.  That
\* the memory may not be there is in BoilerplateEngine.
Materialize ==
    /\ task.what = "materialize"
    /\ program' = [id |-> engine.epoch, calls |-> engine.calls]
    /\ live' = (live \ {program.id}) \cup {engine.epoch}
    /\ task' = [what |-> "entries", rest |-> Fns(cur)]
    /\ UNCHANGED <<mods, error, epoch, bound, engine, fixList, handles, failed>>

\* The program is asked for the address of each function.
SetEntry(n) ==
    /\ task.what = "entries" /\ n \in task.rest
    /\ Expect("entry point is set once", Fn(cur, n).entry = 0)
    /\ mods' = [mods EXCEPT ![cur].fns[n].entry = program.id]
    /\ Done(n)
    /\ UNCHANGED <<error, epoch, bound, engine, fixList, program, live, handles>>

-----------------------------------------------------------------------------
(* LLVM mode                                                               *)

EmitIR ==
    /\ IsReady /\ mods[cur].ir = "no"
    /\ mods' = [mods EXCEPT ![cur].ir = "emitted"]
    /\ epoch' = epoch + 1
    /\ task' = [what |-> "define", rest |-> Fns(cur)]
    /\ UNCHANGED <<error, bound, engine, fixList, program, live, handles, failed>>

\* The second pass: the prototypes of all functions.
EmitDefinition(n) ==
    /\ task.what = "define" /\ n \in task.rest
    /\ mods' = [mods EXCEPT ![cur].fns[n].proto = TRUE]
    /\ task' = IF task.rest = {n} THEN [what |-> "emit", rest |-> Fns(cur)] ELSE [task EXCEPT !.rest = @ \ {n}]
    /\ UNCHANGED <<error, epoch, bound, engine, fixList, program, live, handles, failed>>

\* The third pass: the bodies, in which calls need the prototypes.
EmitBody(n) ==
    /\ task.what = "emit" /\ n \in task.rest
    /\ LET callee == Lookup(Fn(cur, n).calls)
       IN  Expect("prototype exists", Fn(cur, n).proto /\ (Fn(cur, n).calls # None => Fn(callee[1], callee[2]).proto))
    /\ Bind("llvm", cur, n, Fn(cur, n).calls)
    /\ Done(n)
    /\ UNCHANGED <<mods, error, epoch, engine, fixList, program, live, handles>>

OptimizeIR ==
    /\ IsReady /\ mods[cur].ir = "emitted"
    /\ mods' = [mods EXCEPT ![cur].ir = "optimized"]
    /\ UNCHANGED <<error, epoch, bound, engine, fixList, program, live, handles, task, failed>>

\* The module goes to the JIT, with its context.
GetThreadSafeModule ==
    /\ IsReady /\ mods[cur].ir \in {"emitted", "optimized"}
    /\ mods' = [mods EXCEPT ![cur].ir = "taken"]
    /\ UNCHANGED <<error, epoch, bound, engine, fixList, program, live, handles, task, failed>>

-----------------------------------------------------------------------------
(* Handles                                                                 *)

\* GetDebugInterpGeneratedFunction and GetFastInterpGeneratedFunction of the
\* current module.
GetHandle(mode, n) ==
    /\ IsReady /\ n \in Fns(cur) /\ Cardinality(handles) < MaxHandles
    /\ IF mode = "debug" THEN mods[cur].debug ELSE mods[cur].fast
    /\ handles' = handles \cup {[mode |-> mode, fn |-> <<cur, n>>,
                                 program |-> IF mode = "fast" THEN Fn(cur, n).entry ELSE 0]}
    /\ UNCHANGED <<mods, error, epoch, bound, engine, fixList, program, live, task, failed>>

Next ==
    \/ NewModule \/ Validate \/ NewErrorContext
    \/ \E n \in Names, f \in Definitions : NewAstFunction(n, f)
    \/ StartDebug \/ StartFast \/ FixCalls \/ Materialize
    \/ EmitIR \/ OptimizeIR \/ GetThreadSafeModule
    \/ \E n \in Names : PrepareDebug(n) \/ GenerateFast(n) \/ SetEntry(n) \/ EmitDefinition(n) \/ EmitBody(n)
    \/ \E n \in Names, mode \in {"debug", "fast"} : GetHandle(mode, n)

Spec == Init /\ [][Next]_vars

-----------------------------------------------------------------------------
TypeOK ==
    /\ cur <= MaxModules /\ error \in BOOLEAN /\ epoch \in Nat
    /\ task.what \in {"idle", "debug", "fast", "fix", "materialize", "entries", "define", "emit"}
    /\ task.rest \subseteq Names
    /\ \A m \in DOMAIN mods : mods[m].validated \in {"no", "ok", "error"}
                            /\ mods[m].ir \in {"no", "emitted", "optimized", "taken"}
    /\ \A m \in DOMAIN mods : \A n \in Fns(m) : /\ Fn(m, n).color \in 0 .. epoch
                                              /\ Fn(m, n).dtorOp \in 0 .. engine.epoch
                                              /\ Fn(m, n).entry \in 0 .. engine.epoch

\* No assertion fails, as long as the host does each thing once and with the
\* current module: no traversal is disturbed by the colors of another one, no
\* instance of an engine that was reset is used, every call finds the
\* prototype of its callee.
AssertionsHold == failed = {}

\* A call reaches the function of that name in the module of the caller, in
\* every mode, though names are looked up in the current module of the
\* thread and another one may have a function of the same name.
CallsStayInModule ==
    \A mode \in DOMAIN bound : \A b \in bound[mode] :
        b.callee = <<b.caller[1], Fn(b.caller[1], b.caller[2]).calls>>

\* In the program, a call allocates a frame that is as large as its callee
\* needs: also if the callee was generated after the caller, or is the caller.
FramesFit ==
    \A c \in program.calls : c.category >= CategoryOf(Fn(c.callee[1], c.callee[2]).size)

\* One program is mapped at most, and the handles to the functions of the
\* module it was made of point into it.  A handle for debug-interp mode is
\* to a function that is prepared, and so is all that it calls.
HandlesAreUsable ==
    /\ live \subseteq {program.id}
    /\ \A h \in handles :
          IF h.mode = "debug"
          THEN /\ Fn(h.fn[1], h.fn[2]).debugReady
               /\ \A b \in bound.debug : b.caller = h.fn => Fn(b.callee[1], b.callee[2]).debugReady
          ELSE h.program = program.id \/ \E m \in h.fn[1] + 1 .. cur : mods[m].fast
==============================================================================

------------------------ MODULE ModuleLifecycleProofs ------------------------
(***************************************************************************)
(* ModuleLifecycle for any names, any definitions, and any number of       *)
(* modules and handles.  The inductive invariant LifeIInv says what is     *)
(* done and what is still to do at every point of a preparation: for each  *)
(* function (FnOK), for the module, and for the program of the thread.     *)
(***************************************************************************)
EXTENDS ModuleLifecycle, SequenceTheorems, TLAPS

FnRecords ==
    [calls : Names \cup {None}, bad : BOOLEAN, hasObject : BOOLEAN, frame : Nat, color : Nat,
     debugReady : BOOLEAN, size : Nat, category : Nat, dtorOp : Nat, entry : Nat, proto : BOOLEAN]
ModuleRecords ==
    [fns : [Names -> FnRecords \cup {NoFn}], validated : {"no", "ok", "error"}, debug : BOOLEAN,
     fast : BOOLEAN, ir : {"no", "emitted", "optimized", "taken"}]
Places == Nat \X Names
Insts == [caller : Places, callee : Places, category : Nat, engine : Nat]

FastSteps == {"fast", "fix", "materialize", "entries"}
Steps == {"idle", "debug", "define", "emit"} \cup FastSteps

Typed ==
    /\ mods \in Seq(ModuleRecords) /\ cur <= MaxModules
    /\ error \in BOOLEAN /\ epoch \in Nat
    /\ bound \in [{"debug", "fast", "llvm"} -> SUBSET [caller : Places, callee : Places]]
    /\ engine \in [epoch : Nat, calls : SUBSET Insts]
    /\ fixList \in SUBSET [target : Places, inst : Insts]
    /\ program \in [id : Nat, calls : SUBSET Insts] /\ program.id <= engine.epoch
    /\ handles \in SUBSET [mode : {"debug", "fast"}, fn : Places, program : Nat]
    /\ task \in [what : Steps, rest : SUBSET Names]

\* The module that is prepared passed Validate, and is marked.
TaskOK ==
    \/ task = Idle
    \/ /\ task.what # "idle" /\ cur > 0 /\ mods[cur].validated = "ok"
       /\ task.rest \subseteq Fns(cur)
       /\ task.what = "debug" => mods[cur].debug
       /\ task.what \in FastSteps => mods[cur].fast

\* What passed Validate calls functions of its module; nothing else is prepared.
ModuleOK(m) ==
    /\ mods[m].debug \/ mods[m].fast => mods[m].validated = "ok"
    /\ mods[m].validated = "ok" =>
          \A n \in Fns(m) : Fn(m, n).calls # None => Fn(m, n).calls \in Fns(m)

Doing(m, steps) == m = cur /\ task.what \in steps

\* A function, from the first mode it is prepared for to the last
FnOK(m, n) ==
    /\ Fn(m, n).color <= epoch /\ Fn(m, n).dtorOp <= engine.epoch /\ Fn(m, n).entry <= engine.epoch
    /\ Doing(m, {"debug"}) => IF n \in task.rest THEN Fn(m, n).color < epoch ELSE Fn(m, n).debugReady
    /\ mods[m].debug /\ ~Doing(m, {"debug"}) => Fn(m, n).debugReady
    /\ ~mods[m].fast => /\ Fn(m, n).size = 0 /\ Fn(m, n).category = 0
                        /\ Fn(m, n).dtorOp = 0 /\ Fn(m, n).entry = 0
    /\ Doing(m, {"fast"}) /\ n \in task.rest => Fn(m, n).size = 0 /\ Fn(m, n).dtorOp = 0
    /\ Doing(m, {"fast", "fix"}) => Fn(m, n).category = 0
    /\ Doing(m, {"fast", "fix", "materialize"}) => Fn(m, n).entry = 0
    /\ Doing(m, {"entries"}) => Fn(m, n).entry = IF n \in task.rest THEN 0 ELSE program.id
    /\ m = cur /\ mods[m].fast /\ ~Doing(m, FastSteps) => Fn(m, n).entry = program.id
    /\ Doing(m, {"define"}) /\ n \notin task.rest => Fn(m, n).proto
    /\ Doing(m, {"emit"}) => Fn(m, n).proto

IsFn(p) == p[1] \in 1 .. cur /\ p[2] \in Fns(p[1])

\* A call is bound to its callee, in a module that nothing is added to.
BoundOK(b) ==
    /\ IsFn(b.caller) /\ IsFn(b.callee)
    /\ mods[b.caller[1]].validated = "ok"
    /\ b.callee = <<b.caller[1], Fn(b.caller[1], b.caller[2]).calls>>

\* The calls of the engine: all are noted, until all have got their frames.
EngineOK ==
    /\ \A x \in fixList : x.inst.engine = engine.epoch /\ x.inst.callee = x.target
    /\ task.what \in {"fast", "fix"} =>
          /\ \A i \in engine.calls : \E x \in fixList : x.inst = i
          /\ \A x \in fixList : x.target[1] = cur /\ x.target[2] \in Fns(cur)
    /\ task.what = "materialize" =>
          \A i \in engine.calls : /\ i.callee[1] = cur /\ i.callee[2] \in Fns(cur)
                                  /\ i.category >= Fn(cur, i.callee[2]).size

\* The calls of the program, to functions whose frames are final
ProgramOK ==
    /\ live \subseteq {program.id}
    /\ \A c \in program.calls :
          /\ IsFn(c.callee) /\ mods[c.callee[1]].fast
          /\ ~Doing(c.callee[1], {"fast", "fix", "materialize"})
          /\ c.category >= Fn(c.callee[1], c.callee[2]).size

HandleOK(h) ==
    /\ IsFn(h.fn) /\ mods[h.fn[1]].validated = "ok"
    /\ h.mode = "debug" => mods[h.fn[1]].debug /\ ~Doing(h.fn[1], {"debug"})
    /\ h.mode = "fast" => /\ mods[h.fn[1]].fast /\ ~Doing(h.fn[1], FastSteps)
                          /\ h.program = program.id \/ \E k \in h.fn[1] + 1 .. cur : mods[k].fast

LifeIInv ==
    /\ Typed /\ TaskOK
    /\ \A m \in 1 .. cur : ModuleOK(m) /\ \A n \in Fns(m) : FnOK(m, n)
    /\ \A mode \in {"debug", "fast", "llvm"} : \A b \in bound[mode] : BoundOK(b)
    /\ EngineOK /\ ProgramOK
    /\ \A h \in handles : HandleOK(h)
    /\ failed = {}

-----------------------------------------------------------------------------
(* Types                                                                   *)

\* A place of a module is empty or holds a function.
LEMMA FunctionIsNotNoFn == \A f \in FnRecords : f # NoFn
<1> SUFFICES ASSUME NEW f \in FnRecords, f = NoFn PROVE FALSE
    OBVIOUS
<1>1. "color" \in DOMAIN f
      BY DEF FnRecords
<1>2. "color" \notin DOMAIN NoFn
      BY DEF NoFn
<1>3. QED
      BY <1>1, <1>2

LEMMA ModuleTypes ==
    ASSUME Typed
    PROVE  /\ cur \in Nat /\ \A m \in 1 .. cur : mods[m] \in ModuleRecords
           /\ \A m \in 1 .. cur : Fns(m) \subseteq Names
           /\ \A m \in 1 .. cur : \A n \in Fns(m) : Fn(m, n) \in FnRecords
<1>1. cur \in Nat /\ \A m \in 1 .. cur : mods[m] \in ModuleRecords
      BY DEF Typed, cur
<1>2. \A m \in 1 .. cur : \A n \in Fns(m) : Fn(m, n) \in FnRecords
      BY <1>1 DEF Fns, Fn, ModuleRecords
<1>3. QED
      BY <1>1, <1>2 DEF Fns

\* One function of the current module is replaced.
LEMMA FnChanges ==
    ASSUME Typed, cur > 0, NEW n \in Fns(cur), NEW f \in FnRecords,
           mods' = [mods EXCEPT ![cur].fns[n] = f]
    PROVE  /\ mods' \in Seq(ModuleRecords) /\ cur' = cur
           /\ \A m \in 1 .. cur : /\ Fns(m)' = Fns(m)
                                  /\ mods'[m].validated = mods[m].validated /\ mods'[m].ir = mods[m].ir
                                  /\ mods'[m].debug = mods[m].debug /\ mods'[m].fast = mods[m].fast
           /\ Fn(cur, n)' = f
           /\ \A m \in 1 .. cur : \A k \in Names : m # cur \/ k # n => Fn(m, k)' = Fn(m, k)
<1> DEFINE N == cur
<1>1. N \in Nat /\ N \in 1 .. N /\ \A m \in 1 .. N : mods[m] \in ModuleRecords
      BY ModuleTypes
<1>2. n \in Names
      BY DEF Fns
<1>3. DOMAIN mods = 1 .. N /\ mods = [m \in 1 .. N |-> mods[m]]
      BY DEF Typed, cur
<1> HIDE DEF N
<1> DEFINE M == [mods[N] EXCEPT !.fns[n] = f]
<1>4. M \in ModuleRecords
      BY <1>1, <1>2 DEF ModuleRecords
<1>5. /\ M.validated = mods[N].validated /\ M.ir = mods[N].ir /\ M.debug = mods[N].debug
      /\ M.fast = mods[N].fast /\ M.fns = [mods[N].fns EXCEPT ![n] = f]
      BY <1>1 DEF ModuleRecords
<1>6. M.fns[n] = f /\ \A k \in Names : k # n => M.fns[k] = mods[N].fns[k]
      BY <1>1, <1>2, <1>5 DEF ModuleRecords
<1>7. mods' = [mods EXCEPT ![N] = M]
      BY DEF N
<1> HIDE DEF M
<1>8. mods'[N] = M /\ \A m \in 1 .. N : m # N => mods'[m] = mods[m]
      BY <1>1, <1>3, <1>7
<1>9. mods' \in Seq(ModuleRecords) /\ Len(mods') = N
      BY <1>1, <1>3, <1>4, <1>7 DEF Typed, N, cur
<1>10. ASSUME NEW m \in 1 .. N, m = N PROVE Fns(m)' = Fns(m)
  <2>1. \A k \in Names : mods'[m].fns[k] # NoFn <=> mods[m].fns[k] # NoFn
    <3>1. n \in Fns(m)
          BY <1>10 DEF N
    <3>2. mods[m].fns[n] # NoFn /\ mods'[m].fns[n] = f
          BY <3>1, <1>6, <1>8, <1>10 DEF Fns, Fn
    <3>3. QED
          BY <3>2, <1>6, <1>8, <1>10, FunctionIsNotNoFn
  <2>2. QED
        BY <2>1 DEF Fns, Fn
<1>11. \A m \in 1 .. N : m # N => Fns(m)' = Fns(m)
      BY <1>8 DEF Fns, Fn
<1>12. QED
      BY <1>1, <1>2, <1>5, <1>6, <1>8, <1>9, <1>10, <1>11 DEF Fn, N, cur

-----------------------------------------------------------------------------
(* What no step undoes                                                     *)

Unfinished == {"fast", "fix", "materialize"}

\* What is prepared or validated stays so, with its functions; a module is not
\* prepared twice; the program changes only when it is materialized.
Keeps ==
    /\ cur' \in Nat /\ cur <= cur' /\ (cur' = cur \/ task'.what = "idle")
    /\ \A m \in 1 .. cur :
        /\ mods[m].debug => mods'[m].debug
        /\ mods[m].fast => mods'[m].fast
        /\ mods[m].validated = "ok" =>
            /\ mods'[m].validated = "ok" /\ Fns(m)' = Fns(m)
            /\ \A n \in Fns(m) : /\ Fn(m, n)'.calls = Fn(m, n).calls
                                 /\ mods[m].fast /\ ~Doing(m, {"fast"}) => Fn(m, n)'.size = Fn(m, n).size
    /\ task'.what = "debug" => task.what = "debug" \/ ~mods[cur].debug
    /\ task'.what \in FastSteps => task.what \in FastSteps \/ ~mods[cur].fast
    /\ task'.what \in Unfinished => task.what \in Unfinished \/ ~mods[cur].fast
    /\ program' = program \/ task.what = "materialize"

LEMMA ModuleKept ==
    ASSUME NEW m \in 1 .. cur, ModuleOK(m), Keeps,
           mods'[m].validated = "ok" => mods[m].validated = "ok",
           mods'[m].debug \/ mods'[m].fast => mods[m].validated = "ok"
    PROVE  ModuleOK(m)'
BY DEF ModuleOK, Keeps

LEMMA BoundKept ==
    ASSUME Typed, NEW b, BoundOK(b), Keeps
    PROVE  BoundOK(b)'
<1> DEFINE m == b.caller[1]
           n == b.caller[2]
<1>1. /\ m \in 1 .. cur /\ n \in Fns(m) /\ mods[m].validated = "ok"
      /\ b.callee = <<m, Fn(m, n).calls>> /\ Fn(m, n).calls \in Fns(m)
      BY DEF BoundOK, IsFn
<1>2. m \in 1 .. cur' /\ cur \in Nat
      BY <1>1, ModuleTypes DEF Keeps
<1>3. mods'[m].validated = "ok" /\ Fns(m)' = Fns(m) /\ Fn(m, n)'.calls = Fn(m, n).calls
      BY <1>1 DEF Keeps
<1>4. QED
      BY <1>1, <1>2, <1>3 DEF BoundOK, IsFn

LEMMA HandleKept ==
    ASSUME Typed, TaskOK, NEW h \in handles, HandleOK(h), Keeps
    PROVE  HandleOK(h)'
<1> DEFINE m == h.fn[1]
<1>1. /\ m \in 1 .. cur /\ h.fn[2] \in Fns(m) /\ mods[m].validated = "ok" /\ cur \in Nat
      BY ModuleTypes DEF HandleOK, IsFn
<1>2. m \in 1 .. cur' /\ cur' \in Nat /\ mods'[m].validated = "ok" /\ Fns(m)' = Fns(m)
      BY <1>1 DEF Keeps
<1>3. ASSUME h.mode = "debug" PROVE mods'[m].debug /\ ~Doing(m, {"debug"})'
      BY <1>1, <1>3 DEF HandleOK, Keeps, Doing
<1>4. ASSUME h.mode = "fast"
      PROVE  /\ mods'[m].fast /\ ~Doing(m, FastSteps)'
             /\ h.program = program'.id \/ \E k \in m + 1 .. cur' : mods'[k].fast
  <2>1. mods[m].fast /\ ~Doing(m, FastSteps)
        BY <1>4 DEF HandleOK
  <2>2. mods'[m].fast /\ ~Doing(m, FastSteps)'
        BY <1>1, <2>1 DEF Keeps, Doing, FastSteps
  <2>3. CASE \E k \in m + 1 .. cur : mods[k].fast
    <3>1. PICK k \in m + 1 .. cur : mods[k].fast
          BY <2>3
    <3>2. k \in 1 .. cur /\ k \in m + 1 .. cur'
          BY <1>1 DEF Keeps
    <3>3. mods'[k].fast
          BY <3>1, <3>2 DEF Keeps
    <3>4. QED
          BY <2>2, <3>2, <3>3
  <2>4. CASE h.program = program.id /\ program' = program
        BY <2>2, <2>4
  <2>5. CASE task.what = "materialize"
    <3>1. cur > 0 /\ mods[cur].fast /\ m # cur
          BY <2>1, <2>5 DEF TaskOK, Idle, FastSteps, Doing
    <3>2. cur \in m + 1 .. cur' /\ cur \in 1 .. cur
          BY <1>1, <3>1 DEF Keeps
    <3>3. mods'[cur].fast
          BY <3>1, <3>2 DEF Keeps
    <3>4. QED
          BY <2>2, <3>2, <3>3
  <2>6. QED
        BY <1>4, <2>3, <2>4, <2>5 DEF HandleOK, Keeps
<1>5. QED
      BY <1>1, <1>2, <1>3, <1>4 DEF HandleOK, IsFn

\* A call of the program
CallOK(c) ==
    /\ IsFn(c.callee) /\ mods[c.callee[1]].fast
    /\ ~Doing(c.callee[1], Unfinished)
    /\ c.category >= Fn(c.callee[1], c.callee[2]).size

LEMMA CallKept ==
    ASSUME Typed, NEW c, CallOK(c), \A m \in 1 .. cur : ModuleOK(m), Keeps
    PROVE  CallOK(c)'
<1> DEFINE m == c.callee[1]
           n == c.callee[2]
<1>1. /\ m \in 1 .. cur /\ n \in Fns(m) /\ mods[m].fast /\ mods[m].validated = "ok" /\ cur \in Nat
      /\ ~Doing(m, Unfinished) /\ c.category >= Fn(m, n).size
      BY ModuleTypes DEF CallOK, IsFn, ModuleOK
<1>2. /\ m \in 1 .. cur' /\ cur' \in Nat /\ mods'[m].fast /\ Fns(m)' = Fns(m)
      /\ Fn(m, n)'.size = Fn(m, n).size
      BY <1>1 DEF Keeps, Doing, Unfinished
<1>3. ~Doing(m, Unfinished)'
      BY <1>1 DEF Keeps, Doing, Unfinished
<1>4. QED
      BY <1>1, <1>2, <1>3 DEF CallOK, IsFn

\* A function of a module that nothing is done with
LEMMA FnKept ==
    ASSUME Typed, Typed', NEW m \in 1 .. cur, NEW n \in Fns(m), FnOK(m, n),
           Fn(m, n)' = Fn(m, n), mods'[m].debug = mods[m].debug, mods'[m].fast = mods[m].fast,
           m # cur \/ task.what = "idle", m # cur' \/ (task'.what = "idle" /\ program' = program),
           cur' = cur \/ m # cur', epoch <= epoch', engine.epoch <= engine'.epoch
    PROVE  FnOK(m, n)'
<1>1. Fn(m, n).color \in Nat /\ Fn(m, n).dtorOp \in Nat /\ Fn(m, n).entry \in Nat
      BY ModuleTypes DEF FnRecords
<1>2. epoch \in Nat /\ epoch' \in Nat /\ engine.epoch \in Nat /\ engine'.epoch \in Nat
      BY DEF Typed
<1>3. \A steps : Doing(m, steps) <=> m = cur /\ task.what \in steps
      BY DEF Doing
<1>4. \A steps : Doing(m, steps)' <=> m = cur' /\ task'.what \in steps
      BY DEF Doing
<1>5. QED
      BY <1>1, <1>2, <1>3, <1>4 DEF FnOK, FastSteps

-----------------------------------------------------------------------------
(* The steps                                                               *)

FnsOK == \A m \in 1 .. cur : ModuleOK(m) /\ \A n \in Fns(m) : FnOK(m, n)

\* What is left to show of a step that keeps what is there
LEMMA StepIsSound ==
    ASSUME LifeIInv, Keeps, Typed', TaskOK', FnsOK', EngineOK',
           live' \subseteq {program'.id},
           \A c \in program'.calls : c \in program.calls \/ CallOK(c)',
           \A mode \in {"debug", "fast", "llvm"} :
               \A b \in bound'[mode] : b \in bound[mode] \/ BoundOK(b)',
           \A h \in handles' : h \in handles \/ HandleOK(h)',
           failed' = {}
    PROVE  LifeIInv'
<1>1. Typed /\ TaskOK /\ (\A m \in 1 .. cur : ModuleOK(m))
      BY DEF LifeIInv
<1>2. ASSUME NEW mode \in {"debug", "fast", "llvm"}, NEW b \in bound'[mode] PROVE BoundOK(b)'
  <2>1. CASE b \in bound[mode]
    <3>1. BoundOK(b)
          BY <2>1 DEF LifeIInv
    <3>2. QED
          BY <3>1, <1>1, BoundKept
  <2>2. QED
        BY <2>1, <1>2
<1>3. ASSUME NEW h \in handles' PROVE HandleOK(h)'
  <2>1. CASE h \in handles
    <3>1. HandleOK(h)
          BY <2>1 DEF LifeIInv
    <3>2. QED
          BY <3>1, <2>1, <1>1, HandleKept
  <2>2. QED
        BY <2>1, <1>3
<1>4. ASSUME NEW c \in program'.calls PROVE CallOK(c)'
  <2>1. CASE c \in program.calls
    <3>1. CallOK(c)
          BY <2>1 DEF LifeIInv, ProgramOK, CallOK, Unfinished
    <3>2. QED
          BY <3>1, <1>1, CallKept
  <2>2. QED
        BY <2>1, <1>4
<1>5. ProgramOK'
      BY <1>4 DEF ProgramOK, CallOK, Unfinished
<1>6. QED
      BY <1>2, <1>3, <1>5 DEF LifeIInv, FnsOK

\* The current module is marked.
LEMMA FlagsChange ==
    ASSUME Typed, cur > 0, NEW M \in ModuleRecords, M.fns = mods[cur].fns,
           mods' = [mods EXCEPT ![cur] = M]
    PROVE  /\ mods' \in Seq(ModuleRecords) /\ cur' = cur /\ mods'[cur] = M
           /\ \A m \in 1 .. cur : m # cur => mods'[m] = mods[m]
           /\ \A m \in 1 .. cur : Fns(m)' = Fns(m) /\ \A n \in Names : Fn(m, n)' = Fn(m, n)
<1> DEFINE N == cur
<1>1. N \in Nat /\ N \in 1 .. N
      BY ModuleTypes
<1>2. DOMAIN mods = 1 .. N
      BY DEF Typed, cur
<1>3. mods' = [mods EXCEPT ![N] = M]
      OBVIOUS
<1> HIDE DEF N
<1>4. mods'[N] = M /\ \A m \in 1 .. N : m # N => mods'[m] = mods[m]
      BY <1>1, <1>2, <1>3
<1>5. mods' \in Seq(ModuleRecords) /\ Len(mods') = N
      BY <1>1, <1>2, <1>3 DEF Typed, N, cur
<1>6. \A m \in 1 .. N : mods'[m].fns = mods[m].fns
      BY <1>4 DEF N
<1>7. QED
      BY <1>4, <1>5, <1>6 DEF Fns, Fn, N, cur

\* Steps that leave the modules and the program alone keep all of that.
LEMMA SameModules ==
    ASSUME LifeIInv, UNCHANGED mods,
           task'.what = "debug" => task.what = "debug",
           task'.what \in FastSteps => task.what \in FastSteps,
           task'.what \in Unfinished => task.what \in Unfinished,
           program' = program \/ task.what = "materialize"
    PROVE  Keeps /\ cur' = cur /\ \A m : Fns(m)' = Fns(m) /\ \A n : Fn(m, n)' = Fn(m, n)
<1>1. cur \in Nat /\ cur' = cur
      BY ModuleTypes DEF LifeIInv, cur
<1>2. \A m : Fns(m)' = Fns(m) /\ \A n : Fn(m, n)' = Fn(m, n)
      BY DEF Fns, Fn
<1>3. QED
      BY <1>1, <1>2 DEF Keeps

LEMMA NewErrorContextStep ==
    ASSUME LifeIInv, NewErrorContext
    PROVE  LifeIInv'
<1>1. UNCHANGED <<mods, epoch, bound, engine, fixList, program, live, handles, task, failed>> /\ error' = FALSE
      BY DEF NewErrorContext
<1>2. Keeps /\ cur' = cur /\ \A m : Fns(m)' = Fns(m) /\ \A n : Fn(m, n)' = Fn(m, n)
      BY <1>1, SameModules
<1>3. Typed' /\ TaskOK' /\ EngineOK'
      BY <1>1, <1>2 DEF LifeIInv, Typed, TaskOK, EngineOK
<1>4. FnsOK'
      BY <1>1, <1>2 DEF LifeIInv, FnsOK, FnOK, ModuleOK, Doing
<1>5. QED
      BY <1>1, <1>2, <1>3, <1>4, StepIsSound DEF LifeIInv, ProgramOK

LEMMA GetHandleStep ==
    ASSUME LifeIInv, NEW mode \in {"debug", "fast"}, NEW n \in Names, GetHandle(mode, n)
    PROVE  LifeIInv'
<1> DEFINE new == [mode |-> mode, fn |-> <<cur, n>>, program |-> IF mode = "fast" THEN Fn(cur, n).entry ELSE 0]
<1>1. /\ UNCHANGED <<mods, error, epoch, bound, engine, fixList, program, live, task, failed>>
      /\ handles' = handles \cup {new} /\ task = Idle /\ cur > 0 /\ mods[cur].validated = "ok"
      /\ n \in Fns(cur) /\ IF mode = "debug" THEN mods[cur].debug ELSE mods[cur].fast
      BY DEF GetHandle, IsReady, IsIdle
<1>2. Keeps /\ cur' = cur /\ \A m : Fns(m)' = Fns(m) /\ \A k : Fn(m, k)' = Fn(m, k)
      BY <1>1, SameModules
<1>3. Typed /\ cur \in Nat /\ cur \in 1 .. cur /\ Fn(cur, n) \in FnRecords /\ FnOK(cur, n)
      BY <1>1, ModuleTypes DEF LifeIInv
<1>4. new \in [mode : {"debug", "fast"}, fn : Places, program : Nat]
      BY <1>3 DEF Places, FnRecords
<1>5. Typed'
      BY <1>1, <1>2, <1>3, <1>4 DEF Typed
<1>6. TaskOK' /\ EngineOK'
      BY <1>1, <1>2 DEF LifeIInv, TaskOK, EngineOK
<1>7. FnsOK'
      BY <1>1, <1>2 DEF LifeIInv, FnsOK, FnOK, ModuleOK, Doing
<1>8. HandleOK(new)'
  <2>1. mode = "fast" => Fn(cur, n).entry = program.id
        BY <1>1, <1>3 DEF FnOK, Doing, Idle, FastSteps
  <2>2. task'.what = "idle"
        BY <1>1 DEF Idle
  <2>3. QED
        BY <1>1, <1>2, <1>3, <2>1, <2>2 DEF HandleOK, IsFn, Doing, FastSteps
<1>9. QED
      BY <1>1, <1>2, <1>5, <1>6, <1>7, <1>8, StepIsSound DEF LifeIInv, ProgramOK

LEMMA StartDebugStep ==
    ASSUME LifeIInv, StartDebug
    PROVE  LifeIInv'
<1> DEFINE M == [mods[cur] EXCEPT !.debug = TRUE]
<1>1. /\ UNCHANGED <<error, bound, engine, fixList, program, live, handles, failed>>
      /\ mods' = [mods EXCEPT ![cur] = M] /\ epoch' = epoch + 1
      /\ task' = [what |-> "debug", rest |-> Fns(cur)]
      /\ task = Idle /\ task.what = "idle" /\ cur > 0 /\ mods[cur].validated = "ok" /\ ~mods[cur].debug
      BY DEF StartDebug, IsReady, IsIdle, Idle
<1>2. /\ Typed /\ cur \in Nat /\ cur \in 1 .. cur /\ mods[cur] \in ModuleRecords /\ Fns(cur) \subseteq Names
      /\ \A m \in 1 .. cur : \A n \in Fns(m) : n \in Names /\ Fn(m, n) \in FnRecords
      BY <1>1, ModuleTypes DEF LifeIInv
<1>3. M \in ModuleRecords /\ M.fns = mods[cur].fns /\ M.debug /\ M.fast = mods[cur].fast /\ M.validated = "ok"
      BY <1>1, <1>2 DEF ModuleRecords
<1> HIDE DEF M
<1>4. /\ mods' \in Seq(ModuleRecords) /\ cur' = cur /\ mods'[cur] = M
      /\ \A m \in 1 .. cur : m # cur => mods'[m] = mods[m]
      /\ \A m \in 1 .. cur : Fns(m)' = Fns(m) /\ \A n \in Names : Fn(m, n)' = Fn(m, n)
      BY <1>1, <1>2, <1>3, FlagsChange
<1>5. Keeps
      BY <1>1, <1>2, <1>3, <1>4 DEF Keeps, FastSteps, Unfinished
<1>6. Typed'
      BY <1>1, <1>2, <1>4 DEF Typed, Steps
<1>7. TaskOK' /\ EngineOK'
      BY <1>1, <1>2, <1>3, <1>4 DEF LifeIInv, TaskOK, EngineOK, FastSteps
<1>8. FnsOK'
  <2>1. ASSUME NEW m \in 1 .. cur PROVE ModuleOK(m)'
        BY <1>1, <1>3, <1>4, <1>5, ModuleKept DEF LifeIInv, ModuleOK
  <2>2. ASSUME NEW m \in 1 .. cur, NEW n \in Fns(m) PROVE FnOK(m, n)'
    <3>1. FnOK(m, n) /\ Fn(m, n)' = Fn(m, n)
          BY <1>2, <1>4 DEF LifeIInv
    <3>2. CASE m # cur
          BY <3>1, <3>2, <1>1, <1>2, <1>4, <1>6, FnKept DEF Typed
    <3>3. CASE m = cur
      <4>1. /\ Fn(m, n)'.color = Fn(m, n).color /\ Fn(m, n).color \in Nat /\ epoch \in Nat
            /\ n \in task'.rest /\ mods'[m].fast = mods[m].fast
            BY <3>1, <3>3, <1>1, <1>2, <1>3, <1>4 DEF FnRecords, Typed
      <4>2. QED
            BY <4>1, <3>1, <3>3, <1>1, <1>4 DEF FnOK, Doing, FastSteps
    <3>4. QED
          BY <3>2, <3>3
  <2>3. QED
        BY <2>1, <2>2, <1>4 DEF FnsOK
<1>9. QED
      BY <1>1, <1>5, <1>6, <1>7, <1>8, StepIsSound DEF LifeIInv, ProgramOK

LEMMA StartFastStep ==
    ASSUME LifeIInv, StartFast
    PROVE  LifeIInv'
<1> DEFINE M == [mods[cur] EXCEPT !.fast = TRUE]
<1>1. /\ UNCHANGED <<error, bound, program, live, handles, failed>>
      /\ mods' = [mods EXCEPT ![cur] = M] /\ epoch' = epoch + 1
      /\ engine' = [epoch |-> engine.epoch + 1, calls |-> {}] /\ fixList' = {}
      /\ task' = [what |-> "fast", rest |-> Fns(cur)]
      /\ task = Idle /\ task.what = "idle" /\ cur > 0 /\ mods[cur].validated = "ok" /\ ~mods[cur].fast
      BY DEF StartFast, IsReady, IsIdle, Idle
<1>2. /\ Typed /\ cur \in Nat /\ cur \in 1 .. cur /\ mods[cur] \in ModuleRecords /\ Fns(cur) \subseteq Names
      /\ \A m \in 1 .. cur : \A n \in Fns(m) : n \in Names /\ Fn(m, n) \in FnRecords
      BY <1>1, ModuleTypes DEF LifeIInv
<1>3. M \in ModuleRecords /\ M.fns = mods[cur].fns /\ M.fast /\ M.debug = mods[cur].debug /\ M.validated = "ok"
      BY <1>1, <1>2 DEF ModuleRecords
<1> HIDE DEF M
<1>4. /\ mods' \in Seq(ModuleRecords) /\ cur' = cur /\ mods'[cur] = M
      /\ \A m \in 1 .. cur : m # cur => mods'[m] = mods[m]
      /\ \A m \in 1 .. cur : Fns(m)' = Fns(m) /\ \A n \in Names : Fn(m, n)' = Fn(m, n)
      BY <1>1, <1>2, <1>3, FlagsChange
<1>5. Keeps
      BY <1>1, <1>2, <1>3, <1>4 DEF Keeps, FastSteps, Unfinished
<1>6. Typed'
      BY <1>1, <1>2, <1>4 DEF Typed, Steps, FastSteps
<1>7. TaskOK' /\ EngineOK'
      BY <1>1, <1>2, <1>3, <1>4 DEF LifeIInv, TaskOK, EngineOK, FastSteps
<1>8. FnsOK'
  <2>1. ASSUME NEW m \in 1 .. cur PROVE ModuleOK(m)'
        BY <1>1, <1>3, <1>4, <1>5, ModuleKept DEF LifeIInv, ModuleOK
  <2>2. ASSUME NEW m \in 1 .. cur, NEW n \in Fns(m) PROVE FnOK(m, n)'
    <3>1. FnOK(m, n) /\ Fn(m, n)' = Fn(m, n) /\ engine.epoch \in Nat /\ engine'.epoch = engine.epoch + 1
          BY <1>1, <1>2, <1>4 DEF LifeIInv, Typed
    <3>2. CASE m # cur
          BY <3>1, <3>2, <1>1, <1>2, <1>4, <1>6, FnKept DEF Typed
    <3>3. CASE m = cur
      <4>1. /\ Fn(m, n).color \in Nat /\ Fn(m, n).dtorOp \in Nat /\ Fn(m, n).entry \in Nat /\ epoch \in Nat
            /\ n \in task'.rest /\ mods'[m].debug = mods[m].debug /\ mods'[m].fast
            BY <3>1, <3>3, <1>1, <1>2, <1>3, <1>4 DEF FnRecords, Typed
      <4>2. QED
            BY <4>1, <3>1, <3>3, <1>1, <1>4 DEF FnOK, Doing, FastSteps
    <3>4. QED
          BY <3>2, <3>3
  <2>3. QED
        BY <2>1, <2>2, <1>4 DEF FnsOK
<1>9. QED
      BY <1>1, <1>5, <1>6, <1>7, <1>8, StepIsSound DEF LifeIInv, ProgramOK

\* The three steps on the IR of the module
IRStep(ir) ==
    /\ IsReady /\ ir \in {"emitted", "optimized", "taken"}
    /\ mods' = [mods EXCEPT ![cur].ir = ir]
    /\ \/ ir = "emitted" /\ epoch' = epoch + 1 /\ task' = [what |-> "define", rest |-> Fns(cur)]
       \/ UNCHANGED <<epoch, task>>
    /\ UNCHANGED <<error, bound, engine, fixList, program, live, handles, failed>>

LEMMA IRStepStep ==
    ASSUME LifeIInv, NEW ir, IRStep(ir)
    PROVE  LifeIInv'
<1> DEFINE M == [mods[cur] EXCEPT !.ir = ir]
<1>1. /\ UNCHANGED <<error, bound, engine, fixList, program, live, handles, failed>>
      /\ mods' = [mods EXCEPT ![cur] = M] /\ ir \in {"no", "emitted", "optimized", "taken"}
      /\ epoch' \in {epoch, epoch + 1}
      /\ task' = task \/ task' = [what |-> "define", rest |-> Fns(cur)]
      /\ task = Idle /\ task.what = "idle" /\ cur > 0 /\ mods[cur].validated = "ok"
      BY DEF IRStep, IsReady, IsIdle, Idle
<1>2. /\ Typed /\ cur \in Nat /\ cur \in 1 .. cur /\ mods[cur] \in ModuleRecords /\ Fns(cur) \subseteq Names
      /\ \A m \in 1 .. cur : \A n \in Fns(m) : n \in Names /\ Fn(m, n) \in FnRecords
      BY <1>1, ModuleTypes DEF LifeIInv
<1>3. /\ M \in ModuleRecords /\ M.fns = mods[cur].fns /\ M.validated = "ok"
      /\ M.fast = mods[cur].fast /\ M.debug = mods[cur].debug
      BY <1>1, <1>2 DEF ModuleRecords
<1> HIDE DEF M
<1>4. /\ mods' \in Seq(ModuleRecords) /\ cur' = cur /\ mods'[cur] = M
      /\ \A m \in 1 .. cur : m # cur => mods'[m] = mods[m]
      /\ \A m \in 1 .. cur : Fns(m)' = Fns(m) /\ \A n \in Names : Fn(m, n)' = Fn(m, n)
      BY <1>1, <1>2, <1>3, FlagsChange
<1>5. /\ task'.what \in {"idle", "define"} /\ task'.rest \subseteq Fns(cur) /\ epoch' \in Nat
      /\ task' = Idle \/ (task'.what = "define" /\ task'.rest = Fns(cur))
      /\ task' \in [what : Steps, rest : SUBSET Names] /\ epoch <= epoch'
      BY <1>1, <1>2 DEF Idle, Typed, Steps
<1>6. Keeps
      BY <1>1, <1>2, <1>3, <1>4, <1>5 DEF Keeps, FastSteps, Unfinished
<1>7. Typed'
      BY <1>1, <1>2, <1>4, <1>5 DEF Typed
<1>8. TaskOK' /\ EngineOK'
      BY <1>1, <1>2, <1>3, <1>4, <1>5 DEF LifeIInv, TaskOK, EngineOK, FastSteps
<1>9. FnsOK'
  <2>1. ASSUME NEW m \in 1 .. cur PROVE ModuleOK(m)'
        BY <1>1, <1>3, <1>4, <1>6, ModuleKept DEF LifeIInv, ModuleOK
  <2>2. ASSUME NEW m \in 1 .. cur, NEW n \in Fns(m) PROVE FnOK(m, n)'
    <3>1. FnOK(m, n) /\ Fn(m, n)' = Fn(m, n)
          BY <1>2, <1>4 DEF LifeIInv
    <3>2. mods'[m].fast = mods[m].fast /\ mods'[m].debug = mods[m].debug
          BY <1>3, <1>4
    <3>3. Fn(m, n).color \in Nat /\ epoch \in Nat
          BY <1>2 DEF FnRecords, Typed
    <3>4. QED
          BY <3>1, <3>2, <3>3, <1>1, <1>4, <1>5 DEF FnOK, Doing, FastSteps
  <2>3. QED
        BY <2>1, <2>2, <1>4 DEF FnsOK
<1>10. QED
      BY <1>1, <1>6, <1>7, <1>8, <1>9, StepIsSound DEF LifeIInv, ProgramOK

\* A function is bound to the callee of that name in the same module.
LEMMA BindIsSound ==
    ASSUME ConstantsOK, LifeIInv, cur > 0, mods[cur].validated = "ok", NEW n \in Fns(cur),
           NEW mode \in {"debug", "fast", "llvm"}, Bind(mode, cur, n, Fn(cur, n).calls)
    PROVE  /\ bound' \in [{"debug", "fast", "llvm"} -> SUBSET [caller : Places, callee : Places]]
           /\ \A md \in {"debug", "fast", "llvm"} : \A b \in bound'[md] : b \in bound[md] \/ BoundOK(b)
<1> DEFINE callee == Fn(cur, n).calls
           new == [caller |-> <<cur, n>>, callee |-> <<cur, callee>>]
<1>1. /\ Typed /\ cur \in Nat /\ cur \in 1 .. cur /\ Fn(cur, n) \in FnRecords /\ n \in Names
      /\ ModuleOK(cur) /\ Fns(cur) \subseteq Names
      BY ModuleTypes DEF LifeIInv
<1>2. CASE callee = None
  <2>1. bound' = [bound EXCEPT ![mode] = @ \cup {}]
        BY <1>2 DEF Bind
  <2>2. QED
        BY <2>1, <1>1 DEF Typed
<1>3. CASE callee # None
  <2>1. callee \in Fns(cur)
        BY <1>1, <1>3 DEF ModuleOK
  <2>2. bound' = [bound EXCEPT ![mode] = @ \cup {new}]
        BY <2>1, <1>3 DEF Bind, Lookup
  <2>3. new \in [caller : Places, callee : Places]
        BY <2>1, <1>1 DEF Places
  <2>4. BoundOK(new)
        BY <2>1, <1>1 DEF BoundOK, IsFn
  <2> HIDE DEF new
  <2>5. QED
        BY <2>2, <2>3, <2>4, <1>1 DEF Typed
<1>4. QED
      BY <1>2, <1>3

\* What is left to do with the function at hand: nothing.
Advances(n) ==
    \/ task.what # "idle" /\ task' = [task EXCEPT !.rest = @ \ {n}]
    \/ /\ task.rest = {n}
       /\ \/ task.what = "debug" /\ task' = Idle
          \/ task.what = "fast" /\ task' = [what |-> "fix", rest |-> {}]
          \/ task.what = "entries" /\ task' = Idle
          \/ task.what = "define" /\ task' = [what |-> "emit", rest |-> Fns(cur)]
          \/ task.what = "emit" /\ task' = Idle

LEMMA AdvancedPast ==
    ASSUME task \in [what : Steps, rest : SUBSET Names], NEW n, Advances(n)
    PROVE  /\ task.what # "define" => n \notin task'.rest
           /\ task.what \in {"debug", "entries", "emit"} => task'.what = task.what \/ task'.what = "idle"
           /\ task.what = "define" => task'.what = "define" \/ task'.what = "emit"
           /\ task.what = "fast" => task'.what = "fast" \/ (task'.what = "fix" /\ task.rest = {n})
<1>1. CASE task' = [task EXCEPT !.rest = @ \ {n}]
  <2>1. task'.what = task.what /\ task'.rest = task.rest \ {n}
        BY <1>1
  <2>2. QED
        BY <2>1
<1>2. CASE task.what = "define" /\ task' = [what |-> "emit", rest |-> Fns(cur)]
      BY <1>2
<1>3. CASE task.what # "define" /\ task' = Idle
      BY <1>3 DEF Advances, Idle
<1>4. CASE task.what = "fast" /\ task' = [what |-> "fix", rest |-> {}]
      BY <1>4 DEF Advances, Idle
<1>5. QED
      BY <1>1, <1>2, <1>3, <1>4 DEF Advances

\* The other functions
LEMMA OthersStayOK ==
    ASSUME task \in [what : Steps, rest : SUBSET Names], NEW n, NEW m, NEW k, FnOK(m, k), Fn(m, k)' = Fn(m, k), m # cur \/ k # n,
           mods'[m].debug = mods[m].debug, mods'[m].fast = mods[m].fast,
           cur' = cur, epoch' = epoch, engine'.epoch = engine.epoch, program' = program, Advances(n)
    PROVE  FnOK(m, k)'
<1>1. CASE m # cur
      BY <1>1 DEF FnOK, Doing
<1>2. CASE m = cur /\ k # n
  <2>1. CASE task'.what = task.what /\ (k \in task'.rest <=> k \in task.rest)
        BY <2>1, <1>2 DEF FnOK, Doing
  <2>2. CASE /\ k \notin task.rest
             /\ \/ task.what = "debug" /\ task'.what = "idle"
                \/ task.what = "fast" /\ task'.what = "fix"
                \/ task.what = "entries" /\ task'.what = "idle"
                \/ task.what = "define" /\ task'.what = "emit"
                \/ task.what = "emit" /\ task'.what = "idle"
        BY <2>2, <1>2 DEF FnOK, Doing, FastSteps
  <2>3. QED
        BY <2>1, <2>2, <1>2 DEF Advances, Idle
<1>3. QED
      BY <1>1, <1>2

\* What such a step of the current module does to the modules
LEMMA FnStep ==
    ASSUME LifeIInv, cur > 0, mods[cur].validated = "ok", NEW n \in Fns(cur), NEW f \in FnRecords,
           mods' = [mods EXCEPT ![cur].fns[n] = f], f.calls = Fn(cur, n).calls,
           mods[cur].fast /\ task.what # "fast" => f.size = Fn(cur, n).size,
           epoch' = epoch, engine'.epoch = engine.epoch, program' = program, Advances(n),
           FnOK(cur, n) => FnOK(cur, n)'
    PROVE  /\ mods' \in Seq(ModuleRecords) /\ cur' = cur
           /\ Keeps /\ TaskOK' /\ FnsOK' /\ task' \in [what : Steps, rest : SUBSET Names]
           /\ \A m \in 1 .. cur : Fns(m)' = Fns(m)
           /\ Fn(cur, n)' = f
           /\ \A m \in 1 .. cur : \A k \in Names : m # cur \/ k # n => Fn(m, k)' = Fn(m, k)
<1>1. /\ Typed /\ cur \in Nat /\ cur \in 1 .. cur /\ Fns(cur) \subseteq Names
      /\ \A m \in 1 .. cur : \A k \in Fns(m) : k \in Names
      BY ModuleTypes DEF LifeIInv
<1>2. /\ mods' \in Seq(ModuleRecords) /\ cur' = cur
      /\ \A m \in 1 .. cur : /\ Fns(m)' = Fns(m)
                             /\ mods'[m].validated = mods[m].validated /\ mods'[m].ir = mods[m].ir
                             /\ mods'[m].debug = mods[m].debug /\ mods'[m].fast = mods[m].fast
      /\ Fn(cur, n)' = f
      /\ \A m \in 1 .. cur : \A k \in Names : m # cur \/ k # n => Fn(m, k)' = Fn(m, k)
      BY <1>1, FnChanges
<1>3. /\ task'.what = "debug" => task.what = "debug"
      /\ task'.what \in FastSteps => task.what \in FastSteps
      /\ task'.what \in Unfinished => task.what \in Unfinished
      BY <1>1 DEF Advances, Idle, FastSteps, Unfinished, Typed
<1>4. ASSUME NEW m \in 1 .. cur, NEW k \in Fns(m)
      PROVE  /\ Fn(m, k)'.calls = Fn(m, k).calls
             /\ mods[m].fast /\ ~Doing(m, {"fast"}) => Fn(m, k)'.size = Fn(m, k).size
      BY <1>1, <1>2, <1>4 DEF Doing
<1>5. Keeps
      BY <1>1, <1>2, <1>3, <1>4 DEF Keeps
<1>6. /\ TaskOK /\ task.what \in Steps /\ task.rest \subseteq Names
      BY <1>1 DEF LifeIInv, Typed
<1>7. task # Idle
      BY <1>6 DEF Advances, Idle
<1>8. task' \in [what : Steps, rest : SUBSET Names] /\ (task' = Idle \/ (task'.what # "idle" /\ task'.rest \subseteq Fns(cur)))
  <2>1. task.rest \subseteq Fns(cur)
        BY <1>6, <1>7 DEF TaskOK
  <2>2. CASE task.what # "idle" /\ task' = [task EXCEPT !.rest = @ \ {n}]
    <3>1. task \in [what : Steps, rest : SUBSET Names]
          BY <1>1 DEF Typed
    <3>2. task'.what = task.what /\ task'.rest = task.rest \ {n} /\ task' \in [what : Steps, rest : SUBSET Names]
          BY <3>1, <2>2
    <3>3. QED
          BY <3>2, <2>1, <2>2
  <2>3. CASE task' = Idle \/ task' = [what |-> "fix", rest |-> {}] \/ task' = [what |-> "emit", rest |-> Fns(cur)]
        BY <1>1, <2>3 DEF Idle, Steps, FastSteps
  <2>4. QED
        BY <2>2, <2>3 DEF Advances
<1>9. TaskOK'
      BY <1>1, <1>2, <1>3, <1>6, <1>7, <1>8 DEF TaskOK, Idle
<1>10. FnsOK'
  <2>1. ASSUME NEW m \in 1 .. cur PROVE ModuleOK(m)'
        BY <1>2, <1>5, ModuleKept DEF LifeIInv, ModuleOK
  <2>2. ASSUME NEW m \in 1 .. cur, NEW k \in Fns(m) PROVE FnOK(m, k)'
    <3>1. FnOK(m, k) /\ k \in Names
          BY <1>1 DEF LifeIInv
    <3>2. CASE m # cur \/ k # n
      <4>1. /\ Fn(m, k)' = Fn(m, k) /\ mods'[m].debug = mods[m].debug /\ mods'[m].fast = mods[m].fast
            /\ task \in [what : Steps, rest : SUBSET Names]
            BY <3>1, <3>2, <1>1, <1>2 DEF Typed
      <4>2. QED
            BY <4>1, <3>1, <3>2, <1>2, OthersStayOK
    <3>3. CASE m = cur /\ k = n
          BY <3>1, <3>3, <1>2
    <3>4. QED
          BY <3>2, <3>3
  <2>3. QED
        BY <2>1, <2>2, <1>2 DEF FnsOK
<1>11. QED
       BY <1>2, <1>5, <1>8, <1>9, <1>10

LEMMA PrepareDebugStep ==
    ASSUME ConstantsOK, LifeIInv, NEW n \in Names, PrepareDebug(n)
    PROVE  LifeIInv'
<1> DEFINE f == [Fn(cur, n) EXCEPT !.color = epoch, !.debugReady = TRUE]
<1>1. /\ UNCHANGED <<error, epoch, engine, fixList, program, live, handles>>
      /\ task.what = "debug" /\ n \in task.rest
      /\ failed' = failed \cup (IF Fn(cur, n).color # epoch THEN {} ELSE {"no color"})
      /\ Advances(n)
      BY DEF PrepareDebug, Done, Expect, Advances
<1>2. /\ cur > 0 /\ mods[cur].validated = "ok" /\ n \in Fns(cur) /\ task.rest \subseteq Fns(cur)
      /\ mods[cur].debug
  <2>1. TaskOK /\ task.what = "debug" /\ n \in task.rest
        BY <1>1 DEF LifeIInv
  <2>2. task # Idle
        BY <2>1 DEF Idle
  <2>3. QED
        BY ONLY <2>1, <2>2 DEF TaskOK
<1>3. /\ Typed /\ cur \in Nat /\ cur \in 1 .. cur /\ Fn(cur, n) \in FnRecords /\ FnOK(cur, n)
      /\ epoch \in Nat /\ task \in [what : Steps, rest : SUBSET Names]
      BY <1>2, ModuleTypes DEF LifeIInv, Typed
<1>4. mods' = [mods EXCEPT ![cur].fns[n] = f]
      BY DEF PrepareDebug, Fn
<1>5. /\ f \in FnRecords
      /\ f.calls = Fn(cur, n).calls /\ f.size = Fn(cur, n).size /\ f.category = Fn(cur, n).category
      /\ f.dtorOp = Fn(cur, n).dtorOp /\ f.entry = Fn(cur, n).entry /\ f.proto = Fn(cur, n).proto
      /\ f.color = epoch /\ f.debugReady
      BY <1>3 DEF FnRecords
<1> HIDE DEF f
<1>6. /\ cur' = cur /\ Fn(cur, n)' = f /\ mods'[cur].debug = mods[cur].debug /\ mods'[cur].fast = mods[cur].fast
      BY <1>2, <1>3, <1>4, <1>5, FnChanges
<1>7. n \notin task'.rest /\ (task'.what = "idle" \/ task'.what = "debug")
      BY <1>1, <1>3, AdvancedPast
<1>8. FnOK(cur, n)'
  <2>1. epoch' = epoch /\ engine' = engine /\ program' = program /\ task.what = "debug"
        BY <1>1
  <2>2. QED
        BY <2>1, <1>2, <1>3, <1>5, <1>6, <1>7 DEF FnOK, Doing, FastSteps
<1>9. /\ mods' \in Seq(ModuleRecords)
      /\ Keeps /\ TaskOK' /\ FnsOK' /\ task' \in [what : Steps, rest : SUBSET Names]
      BY <1>1, <1>2, <1>4, <1>5, <1>8, FnStep
<1>10. /\ bound' \in [{"debug", "fast", "llvm"} -> SUBSET [caller : Places, callee : Places]]
       /\ \A md \in {"debug", "fast", "llvm"} : \A b \in bound'[md] : b \in bound[md] \/ BoundOK(b)
       BY <1>2, BindIsSound DEF PrepareDebug
<1>11. \A md \in {"debug", "fast", "llvm"} : \A b \in bound'[md] : b \in bound[md] \/ BoundOK(b)'
       BY <1>3, <1>9, <1>10, BoundKept
<1>12. Typed'
       BY <1>1, <1>3, <1>6, <1>9, <1>10 DEF Typed
<1>13. EngineOK'
       BY <1>1, <1>7 DEF LifeIInv, EngineOK
<1>14. failed' = {}
  <2>1. Fn(cur, n).color < epoch /\ Fn(cur, n).color \in Nat /\ epoch \in Nat /\ failed = {}
        BY <1>1, <1>3 DEF LifeIInv, FnOK, Doing, FnRecords
  <2>2. Fn(cur, n).color # epoch
        BY <2>1
  <2>3. failed' = failed \cup {}
        BY <2>2, <1>1
  <2>4. QED
        BY <2>1, <2>3
<1>15. QED
       BY <1>1, <1>9, <1>11, <1>12, <1>13, <1>14, StepIsSound DEF LifeIInv, ProgramOK

LEMMA EmitDefinitionStep ==
    ASSUME ConstantsOK, LifeIInv, NEW n \in Names, EmitDefinition(n)
    PROVE  LifeIInv'
<1> DEFINE f == [Fn(cur, n) EXCEPT !.proto = TRUE]
<1>1. /\ UNCHANGED <<error, epoch, bound, engine, fixList, program, live, handles, failed>>
      /\ task.what = "define" /\ n \in task.rest
      /\ Advances(n)
      BY DEF EmitDefinition, Advances
<1>2. /\ cur > 0 /\ mods[cur].validated = "ok" /\ n \in Fns(cur) /\ task.rest \subseteq Fns(cur)
  <2>1. TaskOK /\ task.what = "define" /\ n \in task.rest
        BY <1>1 DEF LifeIInv
  <2>2. task # Idle
        BY <2>1 DEF Idle
  <2>3. QED
        BY ONLY <2>1, <2>2 DEF TaskOK
<1>3. /\ Typed /\ cur \in Nat /\ cur \in 1 .. cur /\ Fn(cur, n) \in FnRecords /\ FnOK(cur, n)
      /\ task \in [what : Steps, rest : SUBSET Names]
      BY <1>2, ModuleTypes DEF LifeIInv, Typed
<1>4. mods' = [mods EXCEPT ![cur].fns[n] = f]
      BY DEF EmitDefinition, Fn
<1>5. /\ f \in FnRecords
      /\ f.calls = Fn(cur, n).calls /\ f.size = Fn(cur, n).size /\ f.category = Fn(cur, n).category
      /\ f.dtorOp = Fn(cur, n).dtorOp /\ f.entry = Fn(cur, n).entry /\ f.proto
      /\ f.color = Fn(cur, n).color /\ f.debugReady = Fn(cur, n).debugReady
      BY <1>3 DEF FnRecords
<1> HIDE DEF f
<1>6. /\ cur' = cur /\ Fn(cur, n)' = f /\ mods'[cur].debug = mods[cur].debug /\ mods'[cur].fast = mods[cur].fast
      BY <1>2, <1>3, <1>4, <1>5, FnChanges
<1>7. task'.what = "define" \/ task'.what = "emit"
      BY <1>1, <1>3 DEF Advances
<1>8. FnOK(cur, n)'
      BY <1>1, <1>3, <1>5, <1>6, <1>7 DEF FnOK, Doing, FastSteps
<1>9. /\ mods' \in Seq(ModuleRecords)
      /\ Keeps /\ TaskOK' /\ FnsOK' /\ task' \in [what : Steps, rest : SUBSET Names]
      BY <1>1, <1>2, <1>4, <1>5, <1>8, FnStep
<1>10. Typed'
       BY <1>1, <1>3, <1>6, <1>9 DEF Typed
<1>11. EngineOK'
       BY <1>1, <1>7 DEF LifeIInv, EngineOK
<1>12. QED
       BY <1>1, <1>9, <1>10, <1>11, StepIsSound DEF LifeIInv, ProgramOK

LEMMA SetEntryStep ==
    ASSUME ConstantsOK, LifeIInv, NEW n \in Names, SetEntry(n)
    PROVE  LifeIInv'
<1> DEFINE f == [Fn(cur, n) EXCEPT !.entry = program.id]
<1>1. /\ UNCHANGED <<error, epoch, bound, engine, fixList, program, live, handles>>
      /\ task.what = "entries" /\ n \in task.rest
      /\ failed' = failed \cup (IF Fn(cur, n).entry = 0 THEN {} ELSE {"entry point is set once"})
      /\ Advances(n)
      BY DEF SetEntry, Done, Expect, Advances
<1>2. /\ cur > 0 /\ mods[cur].validated = "ok" /\ n \in Fns(cur) /\ task.rest \subseteq Fns(cur)
      /\ mods[cur].fast
  <2>1. TaskOK /\ task.what = "entries" /\ n \in task.rest
        BY <1>1 DEF LifeIInv
  <2>2. task # Idle
        BY <2>1 DEF Idle
  <2>3. QED
        BY ONLY <2>1, <2>2 DEF TaskOK, FastSteps
<1>3. /\ Typed /\ cur \in Nat /\ cur \in 1 .. cur /\ Fn(cur, n) \in FnRecords /\ FnOK(cur, n)
      /\ task \in [what : Steps, rest : SUBSET Names] /\ program.id \in Nat /\ program.id <= engine.epoch
      BY <1>2, ModuleTypes DEF LifeIInv, Typed
<1>4. mods' = [mods EXCEPT ![cur].fns[n] = f]
      BY DEF SetEntry, Fn
<1>5. /\ f \in FnRecords
      /\ f.calls = Fn(cur, n).calls /\ f.size = Fn(cur, n).size /\ f.category = Fn(cur, n).category
      /\ f.dtorOp = Fn(cur, n).dtorOp /\ f.entry = program.id /\ f.proto = Fn(cur, n).proto
      /\ f.color = Fn(cur, n).color /\ f.debugReady = Fn(cur, n).debugReady
      BY <1>3 DEF FnRecords
<1> HIDE DEF f
<1>6. /\ cur' = cur /\ Fn(cur, n)' = f /\ mods'[cur].debug = mods[cur].debug /\ mods'[cur].fast = mods[cur].fast
      BY <1>2, <1>3, <1>4, <1>5, FnChanges
<1>7. n \notin task'.rest /\ (task'.what = "idle" \/ task'.what = "entries")
      BY <1>1, <1>3, AdvancedPast
<1>8. FnOK(cur, n)'
      BY <1>1, <1>2, <1>3, <1>5, <1>6, <1>7 DEF FnOK, Doing, FastSteps
<1>9. /\ mods' \in Seq(ModuleRecords)
      /\ Keeps /\ TaskOK' /\ FnsOK' /\ task' \in [what : Steps, rest : SUBSET Names]
      BY <1>1, <1>2, <1>4, <1>5, <1>8, FnStep
<1>10. Typed'
       BY <1>1, <1>3, <1>6, <1>9 DEF Typed
<1>11. EngineOK'
       BY <1>1, <1>7 DEF LifeIInv, EngineOK
<1>12. failed' = {}
       BY <1>1, <1>3 DEF LifeIInv, FnOK, Doing
<1>13. QED
       BY <1>1, <1>9, <1>10, <1>11, <1>12, StepIsSound DEF LifeIInv, ProgramOK

LEMMA EmitBodyStep ==
    ASSUME ConstantsOK, LifeIInv, NEW n \in Names, EmitBody(n)
    PROVE  LifeIInv'
<1> DEFINE callee == Fn(cur, n).calls
<1>1. /\ UNCHANGED <<mods, error, epoch, engine, fixList, program, live, handles>>
      /\ task.what = "emit" /\ n \in task.rest
      /\ Advances(n)
      BY DEF EmitBody, Done, Advances
<1>2. /\ cur > 0 /\ mods[cur].validated = "ok" /\ n \in Fns(cur) /\ task.rest \subseteq Fns(cur)
  <2>1. TaskOK /\ task.what = "emit" /\ n \in task.rest
        BY <1>1 DEF LifeIInv
  <2>2. task # Idle
        BY <2>1 DEF Idle
  <2>3. QED
        BY ONLY <2>1, <2>2 DEF TaskOK
<1>3. /\ Typed /\ cur \in Nat /\ cur \in 1 .. cur /\ ModuleOK(cur)
      /\ task \in [what : Steps, rest : SUBSET Names]
      /\ \A k \in Fns(cur) : Fn(cur, k).proto
      BY <1>1, <1>2, ModuleTypes DEF LifeIInv, Typed, FnOK, Doing
<1>4. task'.what = "idle" \/ task'.what = "emit"
      BY <1>1, <1>3, AdvancedPast
<1>5. Keeps /\ cur' = cur /\ \A m : Fns(m)' = Fns(m) /\ \A k : Fn(m, k)' = Fn(m, k)
      BY <1>1, <1>4, SameModules DEF FastSteps, Unfinished
<1>6. /\ task' \in [what : Steps, rest : SUBSET Names]
      /\ task' = Idle \/ (task'.what = "emit" /\ task'.rest \subseteq Fns(cur))
  <2>1. CASE task' = [task EXCEPT !.rest = @ \ {n}]
    <3>1. task'.rest = task.rest \ {n} /\ task' \in [what : Steps, rest : SUBSET Names] /\ task'.what = task.what
          BY <2>1, <1>3
    <3>2. QED
          BY <3>1, <1>1, <1>2
  <2>2. CASE task' = Idle
        BY <2>2 DEF Idle, Steps
  <2>3. QED
        BY <2>1, <2>2, <1>1 DEF Advances
<1>7. TaskOK' /\ EngineOK'
      BY <1>1, <1>2, <1>5, <1>6, <1>4 DEF LifeIInv, TaskOK, EngineOK, FastSteps
<1>8. FnsOK'
  <2>1. ASSUME NEW m \in 1 .. cur PROVE ModuleOK(m)'
        BY <1>1, <1>5, ModuleKept DEF LifeIInv, ModuleOK
  <2>2. ASSUME NEW m \in 1 .. cur, NEW k \in Fns(m) PROVE FnOK(m, k)'
    <3>1. FnOK(m, k) /\ Fn(m, k)' = Fn(m, k)
          BY <1>5 DEF LifeIInv
    <3>2. QED
          BY <3>1, <1>1, <1>4, <1>5 DEF FnOK, Doing, FastSteps
  <2>3. QED
        BY <2>1, <2>2, <1>5 DEF FnsOK
<1>9. /\ bound' \in [{"debug", "fast", "llvm"} -> SUBSET [caller : Places, callee : Places]]
      /\ \A md \in {"debug", "fast", "llvm"} : \A b \in bound'[md] : b \in bound[md] \/ BoundOK(b)
      BY <1>2, BindIsSound DEF EmitBody
<1>10. \A md \in {"debug", "fast", "llvm"} : \A b \in bound'[md] : b \in bound[md] \/ BoundOK(b)'
       BY <1>3, <1>5, <1>9, BoundKept
<1>11. Typed'
       BY <1>1, <1>3, <1>5, <1>6, <1>9 DEF Typed
<1>12. failed' = {}
  <2>1. Fn(cur, n).proto /\ (callee # None => Fn(Lookup(callee)[1], Lookup(callee)[2]).proto)
        BY <1>2, <1>3 DEF Lookup, ModuleOK
  <2>2. QED
        BY <2>1 DEF EmitBody, Expect, LifeIInv
<1>13. QED
       BY <1>1, <1>5, <1>7, <1>8, <1>10, <1>11, <1>12, StepIsSound DEF LifeIInv, ProgramOK

LEMMA GenerateFastStep ==
    ASSUME ConstantsOK, LifeIInv, NEW n \in Names, GenerateFast(n)
    PROVE  LifeIInv'
<1> DEFINE g == Fn(cur, n)
           op == IF g.hasObject /\ g.dtorOp = 0 THEN engine.epoch ELSE g.dtorOp
           f == [g EXCEPT !.size = g.frame, !.dtorOp = op]
           target == <<cur, g.calls>>
           inst == CallInst(n, target, 0)
<1>1. /\ UNCHANGED <<error, epoch, program, live, handles>>
      /\ task.what = "fast" /\ n \in task.rest
      /\ Advances(n)
      BY DEF GenerateFast, Advances
<1>2. /\ cur > 0 /\ mods[cur].validated = "ok" /\ n \in Fns(cur) /\ task.rest \subseteq Fns(cur)
      /\ mods[cur].fast
  <2>1. TaskOK /\ task.what = "fast" /\ n \in task.rest
        BY <1>1 DEF LifeIInv
  <2>2. task # Idle
        BY <2>1 DEF Idle
  <2>3. QED
        BY ONLY <2>1, <2>2 DEF TaskOK, FastSteps
<1>3. /\ Typed /\ cur \in Nat /\ cur \in 1 .. cur /\ g \in FnRecords /\ FnOK(cur, n)
      /\ task \in [what : Steps, rest : SUBSET Names] /\ engine.epoch \in Nat
      /\ ModuleOK(cur) /\ Fns(cur) \subseteq Names
      BY <1>2, ModuleTypes DEF LifeIInv, Typed
<1>4. g.size = 0 /\ g.dtorOp = 0 /\ g.category = 0 /\ g.entry = 0
      BY <1>1, <1>3 DEF FnOK, Doing
<1>5. mods' = [mods EXCEPT ![cur].fns[n] = f]
  <2> DEFINE h == [g EXCEPT !.size = g.frame, !.dtorOp = IF g.hasObject /\ @ = 0 THEN engine.epoch ELSE @]
  <2>1. h = f
        BY <1>3 DEF FnRecords
  <2>2. mods' = [mods EXCEPT ![cur].fns[n] = h]
        BY DEF GenerateFast
  <2>3. QED
        BY <2>1, <2>2
<1>6. op \in Nat /\ op <= engine.epoch
      BY <1>3, <1>4
<1>7. /\ f \in FnRecords
      /\ f.calls = g.calls /\ f.size = g.frame /\ f.category = g.category
      /\ f.dtorOp = op /\ f.entry = g.entry /\ f.proto = g.proto
      /\ f.color = g.color /\ f.debugReady = g.debugReady
  <2> HIDE DEF op
  <2>1. QED
        BY <1>3, <1>6 DEF FnRecords
<1>8. IF g.calls = None
      THEN UNCHANGED <<engine, fixList>>
      ELSE /\ engine' = [engine EXCEPT !.calls = @ \cup {inst}]
           /\ fixList' = fixList \cup {[target |-> target, inst |-> inst]}
           /\ g.calls \in Fns(cur)
  <2>1. g.calls # None => g.calls \in Fns(cur) /\ Lookup(g.calls) = target
        BY <1>2, <1>3 DEF ModuleOK, Lookup
  <2>2. QED
        BY <2>1 DEF GenerateFast
<1>9. inst.engine = engine.epoch /\ inst.callee = target /\ (g.calls # None => inst \in Insts /\ target \in Places)
      BY <1>3, <1>8 DEF CallInst, Insts, Places
<1> HIDE DEF f, inst, op
<1>10. /\ engine' \in [epoch : Nat, calls : SUBSET Insts] /\ engine'.epoch = engine.epoch
       /\ fixList' \in SUBSET [target : Places, inst : Insts]
  <2>1. engine \in [epoch : Nat, calls : SUBSET Insts] /\ fixList \in SUBSET [target : Places, inst : Insts]
        BY <1>3 DEF Typed
  <2>2. CASE g.calls = None
        BY <2>1, <2>2, <1>8
  <2>3. CASE g.calls # None
        BY <2>1, <2>3, <1>8, <1>9
  <2>4. QED
        BY <2>2, <2>3
<1>11. /\ cur' = cur /\ Fn(cur, n)' = f /\ mods'[cur].debug = mods[cur].debug /\ mods'[cur].fast = mods[cur].fast
       /\ \A m \in 1 .. cur : Fns(m)' = Fns(m)
       BY <1>2, <1>3, <1>5, <1>7, FnChanges
<1>12. n \notin task'.rest /\ (task'.what = "fast" \/ task'.what = "fix")
       BY <1>1, <1>3, AdvancedPast
<1>13. FnOK(cur, n)'
  <2>1. epoch' = epoch /\ program' = program /\ task.what = "fast"
        BY <1>1
  <2>2. QED
        BY <2>1, <1>2, <1>3, <1>4, <1>6, <1>7, <1>10, <1>11, <1>12 DEF FnOK, Doing, FastSteps
<1>14. /\ mods' \in Seq(ModuleRecords)
       /\ Keeps /\ TaskOK' /\ FnsOK' /\ task' \in [what : Steps, rest : SUBSET Names]
       BY <1>1, <1>2, <1>5, <1>7, <1>10, <1>13, FnStep
<1>15. /\ bound' \in [{"debug", "fast", "llvm"} -> SUBSET [caller : Places, callee : Places]]
       /\ \A md \in {"debug", "fast", "llvm"} : \A b \in bound'[md] : b \in bound[md] \/ BoundOK(b)
       BY <1>2, BindIsSound DEF GenerateFast
<1>16. \A md \in {"debug", "fast", "llvm"} : \A b \in bound'[md] : b \in bound[md] \/ BoundOK(b)'
       BY <1>3, <1>14, <1>15, BoundKept
<1>17. Typed'
       BY <1>1, <1>3, <1>10, <1>11, <1>14, <1>15 DEF Typed
<1>18. EngineOK'
  <2>1. EngineOK /\ task.what = "fast"
        BY <1>1 DEF LifeIInv
  <2>2. CASE g.calls = None
        BY <2>1, <2>2, <1>2, <1>3, <1>8, <1>11, <1>12 DEF EngineOK
  <2>3. CASE g.calls # None
    <3> DEFINE new == [target |-> target, inst |-> inst]
    <3>1. new.target = target /\ new.inst = inst /\ new \in fixList' /\ target[1] = cur /\ target[2] \in Fns(cur)
          BY <2>3, <1>8
    <3>2. fixList' = fixList \cup {new} /\ engine'.calls = engine.calls \cup {inst}
          BY <2>3, <1>3, <1>8 DEF Typed
    <3> HIDE DEF new, target
    <3>3. \A x \in fixList' : /\ x.inst.engine = engine'.epoch /\ x.inst.callee = x.target
                              /\ x.target[1] = cur /\ x.target[2] \in Fns(cur)
          BY <2>1, <3>1, <3>2, <1>9, <1>10 DEF EngineOK
    <3>4. \A i \in engine'.calls : \E x \in fixList' : x.inst = i
          BY <2>1, <3>1, <3>2 DEF EngineOK
    <3>5. QED
          BY <3>3, <3>4, <1>2, <1>3, <1>11, <1>12 DEF EngineOK
  <2>4. QED
        BY <2>2, <2>3
<1>19. failed' = {}
       BY <1>4 DEF GenerateFast, LifeIInv
<1>20. QED
       BY <1>1, <1>14, <1>16, <1>17, <1>18, <1>19, StepIsSound DEF LifeIInv, ProgramOK

LEMMA MaterializeStep ==
    ASSUME ConstantsOK, LifeIInv, Materialize
    PROVE  LifeIInv'
<1>1. /\ UNCHANGED <<mods, error, epoch, bound, engine, fixList, handles, failed>>
      /\ task.what = "materialize" /\ task' = [what |-> "entries", rest |-> Fns(cur)]
      /\ program' = [id |-> engine.epoch, calls |-> engine.calls]
      /\ live' = (live \ {program.id}) \cup {engine.epoch}
      BY DEF Materialize
<1>2. /\ cur > 0 /\ mods[cur].validated = "ok" /\ mods[cur].fast
  <2>1. TaskOK /\ task # Idle
        BY <1>1 DEF LifeIInv, Idle
  <2>2. QED
        BY ONLY <2>1, <1>1 DEF TaskOK, FastSteps
<1>3. /\ Typed /\ cur \in Nat /\ cur \in 1 .. cur /\ Fns(cur) \subseteq Names
      /\ engine.epoch \in Nat /\ engine.calls \subseteq Insts
      BY <1>2, ModuleTypes DEF LifeIInv, Typed
<1>4. Keeps /\ cur' = cur /\ \A m : Fns(m)' = Fns(m) /\ \A k : Fn(m, k)' = Fn(m, k)
      BY <1>1, SameModules DEF FastSteps, Unfinished
<1>5. Typed'
      BY <1>1, <1>3, <1>4 DEF Typed, Steps, FastSteps
<1>6. TaskOK' /\ EngineOK'
      BY <1>1, <1>2, <1>4 DEF LifeIInv, TaskOK, EngineOK, FastSteps
<1>7. FnsOK'
  <2>1. ASSUME NEW m \in 1 .. cur PROVE ModuleOK(m)'
        BY <1>1, <1>4, ModuleKept DEF LifeIInv, ModuleOK
  <2>2. ASSUME NEW m \in 1 .. cur, NEW k \in Fns(m) PROVE FnOK(m, k)'
    <3>1. FnOK(m, k) /\ Fn(m, k)' = Fn(m, k)
          BY <1>4 DEF LifeIInv
    <3>2. QED
          BY <3>1, <1>1, <1>4 DEF FnOK, Doing, FastSteps
  <2>3. QED
        BY <2>1, <2>2, <1>4 DEF FnsOK
<1>8. ASSUME NEW c \in program'.calls PROVE CallOK(c)'
  <2>1. c \in engine.calls /\ EngineOK
        BY <1>1, <1>8 DEF LifeIInv
  <2>2. c.callee[1] = cur /\ c.callee[2] \in Fns(cur) /\ c.category >= Fn(cur, c.callee[2]).size
        BY <2>1, <1>1 DEF EngineOK
  <2>3. QED
        BY <2>2, <1>1, <1>2, <1>3, <1>4 DEF CallOK, IsFn, Doing, Unfinished
<1>9. live' \subseteq {program'.id}
      BY <1>1 DEF LifeIInv, ProgramOK
<1>10. QED
       BY <1>1, <1>4, <1>5, <1>6, <1>7, <1>8, <1>9, StepIsSound DEF LifeIInv

LEMMA FixCallsStep ==
    ASSUME ConstantsOK, LifeIInv, FixCalls
    PROVE  LifeIInv'
<1> DEFINE Category(t) == IF Fn(t[1], t[2]).category # 0 THEN Fn(t[1], t[2]).category
                          ELSE CategoryOf(Fn(t[1], t[2]).size)
           targets == {x.target : x \in fixList}
           fixed   == {x.inst : x \in fixList}
           G(m)    == [k \in Names |-> IF <<m, k>> \in targets
                                       THEN [mods[m].fns[k] EXCEPT !.category = Category(<<m, k>>)] ELSE mods[m].fns[k]]
<1>1. /\ UNCHANGED <<error, epoch, bound, fixList, program, live, handles>>
      /\ task.what = "fix" /\ task' = [what |-> "materialize", rest |-> {}]
      /\ mods' = [m \in DOMAIN mods |-> [mods[m] EXCEPT !.fns = G(m)]]
      /\ engine' = [engine EXCEPT !.calls = (@ \ fixed) \cup
                       {[x.inst EXCEPT !.category = Category(x.target)] : x \in {y \in fixList : y.inst \in @}}]
      /\ failed' = failed \cup (IF \A i \in fixed : i.engine = engine.epoch THEN {} ELSE {"instance of this engine"})
      BY DEF FixCalls, Expect
<1>2. /\ cur > 0 /\ mods[cur].validated = "ok" /\ mods[cur].fast
  <2>1. TaskOK
        BY DEF LifeIInv
  <2>2. task.what = "fix"
        BY DEF FixCalls
  <2>3. QED
        BY ONLY <2>1, <2>2 DEF TaskOK, FastSteps, Idle
<1>3. /\ Typed /\ cur \in Nat /\ cur \in 1 .. cur
      /\ \A m \in 1 .. cur : mods[m] \in ModuleRecords /\ \A k \in Fns(m) : k \in Names /\ Fn(m, k) \in FnRecords
      /\ engine \in [epoch : Nat, calls : SUBSET Insts] /\ fixList \in SUBSET [target : Places, inst : Insts]
      BY <1>2, ModuleTypes DEF LifeIInv, Typed
<1>4. /\ \A x \in fixList : /\ x.inst.engine = engine.epoch /\ x.inst.callee = x.target
                            /\ x.target[1] = cur /\ x.target[2] \in Fns(cur)
      /\ \A i \in engine.calls : \E x \in fixList : x.inst = i
      BY <1>1 DEF LifeIInv, EngineOK
<1>5. ASSUME NEW x \in fixList
      PROVE  /\ Category(x.target) = Fn(cur, x.target[2]).size /\ Category(x.target) \in Nat
             /\ x.target = <<cur, x.target[2]>> /\ x.inst \in Insts
  <2>1. FnOK(cur, x.target[2]) /\ Fn(cur, x.target[2]) \in FnRecords /\ x.target \in Places /\ x.inst \in Insts
        BY <1>3, <1>4 DEF LifeIInv
  <2>2. Fn(cur, x.target[2]).category = 0 /\ Fn(cur, x.target[2]).size \in Nat
        BY <2>1, <1>1 DEF FnOK, Doing, FnRecords
  <2>3. QED
        BY <2>1, <2>2, <1>4 DEF CategoryOf, Places
<1> HIDE DEF Category
\* Only categories of functions of the current module change.
<1>6. ASSUME NEW m \in 1 .. cur, NEW k \in Names
      PROVE  /\ G(m)[k] \in FnRecords \cup {NoFn} /\ (G(m)[k] = NoFn <=> mods[m].fns[k] = NoFn)
             /\ mods[m].fns[k] # NoFn => \E c \in Nat : /\ G(m)[k] = [Fn(m, k) EXCEPT !.category = c]
                                                        /\ m # cur => c = Fn(m, k).category
  <2>1. mods[m].fns[k] \in FnRecords \cup {NoFn}
        BY <1>3 DEF ModuleRecords
  <2>2. CASE <<m, k>> \in targets
    <3>1. PICK x \in fixList : <<m, k>> = x.target
          BY <2>2
    <3>2. m = cur /\ k \in Fns(cur) /\ Category(<<m, k>>) \in Nat
          BY <3>1, <1>4, <1>5
    <3>3. Fn(m, k) = mods[m].fns[k] /\ Fn(m, k) \in FnRecords /\ mods[m].fns[k] # NoFn
          BY <3>2 , <1>3 DEF Fn, Fns
    <3>4. G(m)[k] = [Fn(m, k) EXCEPT !.category = Category(<<m, k>>)]
          BY <2>2, <3>3
    <3>5. [Fn(m, k) EXCEPT !.category = Category(<<m, k>>)] \in FnRecords
          BY <3>2, <3>3 DEF FnRecords
    <3>6. QED
          BY <3>2, <3>3, <3>4, <3>5, FunctionIsNotNoFn
  <2>3. CASE <<m, k>> \notin targets
    <3>1. G(m)[k] = mods[m].fns[k]
          BY <2>3
    <3>2. mods[m].fns[k] # NoFn => /\ Fn(m, k) \in FnRecords /\ Fn(m, k).category \in Nat
                                   /\ Fn(m, k) = mods[m].fns[k]
          BY <2>1 DEF Fn, FnRecords
    <3>3. mods[m].fns[k] # NoFn => Fn(m, k) = [Fn(m, k) EXCEPT !.category = Fn(m, k).category]
          BY <3>2 DEF FnRecords
    <3>4. QED
          BY <3>1, <3>2, <3>3, <2>1
  <2>4. QED
        BY <2>2, <2>3
<1>7. ASSUME NEW m \in 1 .. cur
      PROVE  /\ mods'[m] = [mods[m] EXCEPT !.fns = G(m)] /\ mods'[m] \in ModuleRecords
             /\ mods'[m].fns = G(m) /\ mods'[m].validated = mods[m].validated
             /\ mods'[m].debug = mods[m].debug /\ mods'[m].fast = mods[m].fast
  <2>1. m \in DOMAIN mods
        BY <1>3 DEF Typed, cur
  <2>2. G(m) \in [Names -> FnRecords \cup {NoFn}]
        BY <1>6
  <2> HIDE DEF G
  <2>3. mods'[m] = [mods[m] EXCEPT !.fns = G(m)]
        BY <2>1, <1>1
  <2>4. QED
        BY <2>2, <2>3, <1>3 DEF ModuleRecords
<1>8. cur' = cur /\ mods' \in Seq(ModuleRecords)
  <2>1. DOMAIN mods = 1 .. cur
        BY <1>3 DEF Typed, cur
  <2> DEFINE R(m) == [mods[m] EXCEPT !.fns = G(m)]
  <2>2. \A m \in 1 .. cur : R(m) \in ModuleRecords
        BY <1>7
  <2>3. mods' = [m \in 1 .. cur |-> R(m)]
        BY <1>1, <2>1
  <2> HIDE DEF R
  <2>4. QED
        BY <2>2, <2>3, <1>3 DEF cur
<1>9. ASSUME NEW m \in 1 .. cur
      PROVE  /\ Fns(m)' = Fns(m)
             /\ \A k \in Fns(m) : \E c \in Nat : /\ Fn(m, k)' = [Fn(m, k) EXCEPT !.category = c]
                                                 /\ m # cur => c = Fn(m, k).category
  <2>1. \A k \in Names : mods'[m].fns[k] = G(m)[k]
        BY <1>7
  <2> HIDE DEF G
  <2>2. Fns(m)' = Fns(m)
        BY <2>1, <1>6 DEF Fns, Fn
  <2>3. QED
        BY <2>1, <2>2, <1>6 DEF Fns, Fn
<1> HIDE DEF G
<1>10. ASSUME NEW m \in 1 .. cur, NEW k \in Fns(m)
       PROVE  /\ Fn(m, k)'.calls = Fn(m, k).calls /\ Fn(m, k)'.size = Fn(m, k).size
              /\ Fn(m, k)'.color = Fn(m, k).color /\ Fn(m, k)'.debugReady = Fn(m, k).debugReady
              /\ Fn(m, k)'.dtorOp = Fn(m, k).dtorOp /\ Fn(m, k)'.entry = Fn(m, k).entry
              /\ Fn(m, k)'.proto = Fn(m, k).proto
              /\ m # cur => Fn(m, k)'.category = Fn(m, k).category
  <2>1. PICK c \in Nat : Fn(m, k)' = [Fn(m, k) EXCEPT !.category = c] /\ (m # cur => c = Fn(m, k).category)
        BY <1>9
  <2>2. Fn(m, k) \in FnRecords
        BY <1>3
  <2>3. QED
        BY <2>1, <2>2 DEF FnRecords
<1>11. Keeps
  <2>1. program' = program /\ task.what = "fix" /\ task'.what = "materialize" /\ cur \in Nat
        BY <1>1, <1>3
  <2>2. \A m \in 1 .. cur : \A k \in Fns(m) : Fn(m, k)'.calls = Fn(m, k).calls /\ Fn(m, k)'.size = Fn(m, k).size
        BY <1>10
  <2>3. \A m \in 1 .. cur : /\ mods'[m].validated = mods[m].validated /\ Fns(m)' = Fns(m)
                            /\ mods'[m].debug = mods[m].debug /\ mods'[m].fast = mods[m].fast
        BY <1>7, <1>9
  <2>4. QED
        BY ONLY <2>1, <2>2, <2>3, <1>8 DEF Keeps, FastSteps, Unfinished
<1>12. /\ engine'.epoch = engine.epoch /\ engine' \in [epoch : Nat, calls : SUBSET Insts]
       /\ \A i \in engine'.calls : /\ i.callee[1] = cur /\ i.callee[2] \in Fns(cur)
                                   /\ i.category = Fn(cur, i.callee[2]).size /\ i \in Insts
  <2> DEFINE fixedCalls == {[x.inst EXCEPT !.category = Category(x.target)] : x \in {y \in fixList : y.inst \in engine.calls}}
  <2>1. engine.calls \ fixed = {}
        BY <1>4
  <2>2. engine' = [engine EXCEPT !.calls = (engine.calls \ fixed) \cup fixedCalls]
        BY <1>1
  <2>3. engine'.epoch = engine.epoch /\ engine'.calls = (engine.calls \ fixed) \cup fixedCalls
        BY <2>2, <1>3
  <2>4. ASSUME NEW i \in fixedCalls
        PROVE  /\ i.callee[1] = cur /\ i.callee[2] \in Fns(cur)
               /\ i.category = Fn(cur, i.callee[2]).size /\ i \in Insts
    <3>1. PICK x \in fixList : i = [x.inst EXCEPT !.category = Category(x.target)]
          OBVIOUS
    <3>2. x.inst \in Insts /\ Category(x.target) = Fn(cur, x.target[2]).size /\ Category(x.target) \in Nat
          BY <1>5
    <3>3. i \in Insts /\ i.callee = x.inst.callee /\ i.category = Category(x.target)
          BY <3>1, <3>2 DEF Insts
    <3>4. QED
          BY <3>2, <3>3, <1>4
  <2> HIDE DEF fixedCalls
  <2>5. engine'.calls = fixedCalls
        BY <2>1, <2>3
  <2>6. QED
        BY <2>2, <2>3, <2>4, <2>5, <1>3
<1>13. Typed'
       BY <1>1, <1>3, <1>8, <1>12 DEF Typed, Steps, FastSteps
<1>14. TaskOK'
       BY <1>1, <1>2, <1>3, <1>7, <1>8 DEF TaskOK, FastSteps
<1>15. EngineOK'
  <2>1. \A i \in engine'.calls : /\ i.callee[1] = cur' /\ i.callee[2] \in Fns(cur)'
                                 /\ i.category >= Fn(cur, i.callee[2])'.size
    <3>1. SUFFICES ASSUME NEW i \in engine'.calls
                   PROVE  i.callee[1] = cur /\ i.callee[2] \in Fns(cur) /\ i.category >= Fn(cur, i.callee[2]).size
          BY <1>3, <1>8, <1>9, <1>10, <1>12
    <3>2. Fn(cur, i.callee[2]) \in FnRecords
          BY <1>3, <1>12
    <3>3. Fn(cur, i.callee[2]).size \in Nat
          BY <3>2 DEF FnRecords
    <3>4. QED
          BY <3>3, <1>12
  <2>2. \A x \in fixList' : x.inst.engine = engine'.epoch /\ x.inst.callee = x.target
        BY <1>1, <1>4, <1>12
  <2>3. QED
        BY <2>1, <2>2, <1>1 DEF EngineOK
<1>16. FnsOK'
  <2>1. ASSUME NEW m \in 1 .. cur PROVE ModuleOK(m)'
        BY <1>7, <1>11, ModuleKept DEF LifeIInv, ModuleOK
  <2>2. ASSUME NEW m \in 1 .. cur, NEW k \in Fns(m) PROVE FnOK(m, k)'
    <3>1. FnOK(m, k) /\ mods'[m].debug = mods[m].debug /\ mods'[m].fast = mods[m].fast
          BY <1>7 DEF LifeIInv
    <3>2. epoch' = epoch /\ program' = program /\ task.what = "fix" /\ task'.what = "materialize"
          BY <1>1
    <3>3. QED
          BY <3>1, <3>2, <1>2, <1>8, <1>10, <1>12 DEF FnOK, Doing, FastSteps
  <2>3. QED
        BY <2>1, <2>2, <1>8, <1>9 DEF FnsOK
<1>17. failed' = {}
  <2>1. \A i \in fixed : i.engine = engine.epoch
        BY <1>4
  <2> HIDE DEF fixed
  <2>2. failed' = failed \cup {}
        BY <2>1, <1>1
  <2>3. QED
        BY <2>2 DEF LifeIInv
<1>18. QED
       BY <1>1, <1>11, <1>13, <1>14, <1>15, <1>16, <1>17, StepIsSound DEF LifeIInv, ProgramOK

LEMMA NewModuleStep ==
    ASSUME ConstantsOK, LifeIInv, NewModule
    PROVE  LifeIInv'
<1> DEFINE N == cur
<1>1. /\ UNCHANGED <<error, epoch, bound, engine, fixList, program, live, handles, task, failed>>
      /\ task = Idle /\ task.what = "idle" /\ N < MaxModules /\ mods' = Append(mods, EmptyModule)
      BY DEF NewModule, IsIdle, Idle
<1>2. Typed /\ N \in Nat /\ mods \in Seq(ModuleRecords)
      BY ModuleTypes DEF LifeIInv, Typed
<1>3. EmptyModule \in ModuleRecords /\ \A k \in Names : EmptyModule.fns[k] = NoFn
      BY DEF EmptyModule, ModuleRecords
<1>4. /\ mods' \in Seq(ModuleRecords) /\ Len(mods') = Len(mods) + 1
      /\ \A m \in 1 .. Len(mods) : mods'[m] = mods[m]
      /\ mods'[Len(mods) + 1] = EmptyModule
      BY <1>1, <1>2, <1>3, AppendProperties
<1>5. cur' = N + 1 /\ mods'[N + 1] = EmptyModule /\ \A m \in 1 .. N : mods'[m] = mods[m]
      BY <1>4 DEF cur
<1>6. \A m \in 1 .. N : Fns(m)' = Fns(m) /\ \A k : Fn(m, k)' = Fn(m, k)
      BY <1>5 DEF Fns, Fn
<1>7. ~mods'[N + 1].debug /\ ~mods'[N + 1].fast /\ mods'[N + 1].validated = "no" /\ Fns(cur)' = {}
  <2>1. \A k : k \in Fns(cur)' <=> k \in Names /\ mods'[N + 1].fns[k] # NoFn
        BY <1>5 DEF Fns, Fn
  <2>2. QED
        BY <2>1, <1>3, <1>5 DEF EmptyModule
<1> HIDE DEF N
<1>8. N = cur
      BY DEF N
<1>9. Keeps
  <2>1. N <= cur' /\ cur' \in Nat
        BY <1>2, <1>5
  <2>2. QED
        BY <2>1, <1>1, <1>5, <1>6, <1>8 DEF Keeps, FastSteps, Unfinished
<1>10. Typed'
  <2>1. cur' <= MaxModules
        BY <1>1, <1>2, <1>5 DEF ConstantsOK
  <2>2. QED
        BY <2>1, <1>1, <1>2, <1>4 DEF Typed
<1>11. TaskOK' /\ EngineOK'
       BY <1>1 DEF LifeIInv, TaskOK, EngineOK
<1>12. FnsOK'
  <2>1. ASSUME NEW m \in 1 .. N, NEW k \in Fns(m) PROVE ModuleOK(m)' /\ FnOK(m, k)'
    <3>1. ModuleOK(m) /\ FnOK(m, k) /\ m # cur'
          BY <1>2, <1>5, <1>8 DEF LifeIInv
    <3>2. ModuleOK(m)'
          BY <3>1, <1>5, <1>8, <1>9, ModuleKept DEF ModuleOK
    <3>4. epoch <= epoch' /\ engine.epoch <= engine'.epoch
          BY <1>1, <1>2 DEF Typed
    <3>5. Fn(m, k)' = Fn(m, k) /\ mods'[m] = mods[m] /\ m \in 1 .. cur
          BY <1>5, <1>6, <1>8
    <3>3. FnOK(m, k)'
          BY <3>1, <3>4, <3>5, <1>1, <1>2, <1>10, FnKept
    <3>6. QED
          BY <3>2, <3>3
  <2>2. ASSUME NEW m \in 1 .. N PROVE ModuleOK(m)'
    <3>1. ModuleOK(m)
          BY <1>8 DEF LifeIInv
    <3>2. QED
          BY <3>1, <1>5, <1>8, <1>9, ModuleKept DEF ModuleOK
  <2>3. \A m \in 1 .. cur' : m \in 1 .. N \/ m = cur'
        BY <1>2, <1>5
  <2>4. ModuleOK(cur)'
        BY <1>5, <1>7 DEF ModuleOK
  <2>5. QED
        BY <2>1, <2>2, <2>3, <2>4, <1>6, <1>7 DEF FnsOK
<1>13. QED
       BY <1>1, <1>9, <1>10, <1>11, <1>12, StepIsSound DEF LifeIInv, ProgramOK

LEMMA NewAstFunctionStep ==
    ASSUME ConstantsOK, LifeIInv, NEW n \in Names, NEW d \in Definitions, NewAstFunction(n, d)
    PROVE  LifeIInv'
<1> DEFINE N == cur
           f == NewFn(d)
           M == [mods[N] EXCEPT !.fns[n] = f]
<1>1. /\ UNCHANGED <<error, epoch, bound, engine, fixList, program, live, handles, task, failed>>
      /\ task = Idle /\ task.what = "idle" /\ N > 0 /\ mods[N].validated = "no" /\ n \notin Fns(N)
      /\ mods' = [mods EXCEPT ![N] = M]
      BY DEF NewAstFunction, IsIdle, Idle
<1>2. Typed /\ N \in Nat /\ N \in 1 .. N /\ mods[N] \in ModuleRecords /\ DOMAIN mods = 1 .. N
      BY <1>1, ModuleTypes DEF LifeIInv, Typed, cur
<1>3. /\ f \in FnRecords /\ f # NoFn /\ f.color = 0 /\ f.dtorOp = 0 /\ f.entry = 0 /\ f.size = 0
      /\ f.category = 0
  <2>1. f \in FnRecords
        BY DEF ConstantsOK, NewFn, FnRecords
  <2>2. QED
        BY <2>1, FunctionIsNotNoFn DEF NewFn
<1>4. ~mods[N].debug /\ ~mods[N].fast
      BY <1>1, <1>2 DEF LifeIInv, ModuleOK
<1> HIDE DEF f
<1>5. /\ M \in ModuleRecords /\ M.validated = mods[N].validated /\ M.debug = mods[N].debug
      /\ M.fast = mods[N].fast /\ M.fns = [mods[N].fns EXCEPT ![n] = f]
      BY <1>2, <1>3 DEF ModuleRecords
<1>6. M.fns[n] = f /\ \A k \in Names : k # n => M.fns[k] = mods[N].fns[k]
      BY <1>2, <1>5 DEF ModuleRecords
<1> HIDE DEF M, N
<1>7. N = cur
      BY DEF N
<1>8. mods'[N] = M /\ (\A m \in 1 .. N : m # N => mods'[m] = mods[m]) /\ cur' = N /\ mods' \in Seq(ModuleRecords)
  <2>1. mods'[N] = M /\ \A m \in 1 .. N : m # N => mods'[m] = mods[m]
        BY <1>1, <1>2
  <2>2. mods' \in Seq(ModuleRecords) /\ Len(mods') = N
        BY <1>1, <1>2, <1>5, <1>7 DEF Typed, cur
  <2>3. QED
        BY <2>1, <2>2 DEF cur
<1>9. \A m \in 1 .. N : m # N => Fns(m)' = Fns(m) /\ \A k : Fn(m, k)' = Fn(m, k)
      BY <1>8 DEF Fns, Fn
<1>10. /\ \A k : k \in Fns(N) \/ k = n <=> k \in Fns(cur)'
       /\ Fn(cur, n)' = f /\ \A k \in Fns(N) : Fn(cur, k)' = Fn(N, k)
       BY <1>1, <1>3, <1>6, <1>8 DEF Fns, Fn
<1>11. Keeps
       BY <1>1, <1>2, <1>4, <1>5, <1>7, <1>8, <1>9 DEF Keeps, FastSteps, Unfinished
<1>12. Typed'
       BY <1>1, <1>2, <1>7, <1>8 DEF Typed
<1>13. TaskOK' /\ EngineOK'
       BY <1>1 DEF LifeIInv, TaskOK, EngineOK
<1>14. FnsOK'
  <2>1. ASSUME NEW m \in 1 .. N PROVE ModuleOK(m)'
    <3>1. ModuleOK(m)
          BY <1>7 DEF LifeIInv
    <3>2. QED
          BY <3>1, <1>1, <1>5, <1>7, <1>8, <1>11, ModuleKept DEF ModuleOK
  <2>2. ASSUME NEW m \in 1 .. N, NEW k \in Fns(m) PROVE FnOK(m, k)'
    <3>1. /\ FnOK(m, k) /\ Fn(m, k)' = Fn(m, k)
          /\ mods'[m].debug = mods[m].debug /\ mods'[m].fast = mods[m].fast
          BY <1>5, <1>7, <1>8, <1>9, <1>10 DEF LifeIInv
    <3>2. QED
          BY <3>1, <1>1, <1>2, <1>7, <1>8, <1>12, FnKept DEF Typed
  <2>3. FnOK(cur, n)'
    <3>1. epoch' \in Nat /\ engine'.epoch \in Nat /\ ~mods'[N].debug /\ ~mods'[N].fast /\ task'.what = "idle"
          BY <1>1, <1>4, <1>5, <1>8, <1>12 DEF Typed
    <3>2. QED
          BY <3>1, <1>3, <1>8, <1>10 DEF FnOK, Doing, FastSteps
  <2>4. ASSUME NEW m \in 1 .. cur', NEW k \in Fns(m)' PROVE FnOK(m, k)'
    <3>1. CASE m = N
          BY <3>1, <2>2, <2>3, <2>4, <1>2, <1>8, <1>10
    <3>2. CASE m # N
          BY <3>2, <2>2, <2>4, <1>8, <1>9
    <3>3. QED
          BY <3>1, <3>2
  <2>5. QED
        BY <2>1, <2>4, <1>8 DEF FnsOK
<1>15. QED
       BY <1>1, <1>11, <1>12, <1>13, <1>14, StepIsSound DEF LifeIInv, ProgramOK

LEMMA ValidateStep ==
    ASSUME LifeIInv, Validate
    PROVE  LifeIInv'
<1> DEFINE N == cur
<1>1. PICK seen \in SUBSET Fns(N) :
        /\ \/ seen = Fns(N) /\ (\A n \in seen : Passes(n)) /\ error' = FALSE
           \/ (\E n \in seen : ~Passes(n) /\ \A k \in seen \ {n} : Passes(k)) /\ error' = TRUE
        /\ failed' = failed \cup (IF \A n \in seen : Fn(N, n).color # epoch' THEN {} ELSE {"used twice"})
        /\ mods' = [mods EXCEPT ![N] =
               [@ EXCEPT !.validated = IF error' THEN "error" ELSE "ok",
                         !.fns = [n \in Names |-> IF n \in seen THEN [Fn(N, n) EXCEPT !.color = epoch'] ELSE Fn(N, n)]]]
      BY DEF Validate, Expect
<1>2. /\ UNCHANGED <<bound, engine, fixList, program, live, handles, task>> /\ epoch' = epoch + 1
      /\ task = Idle /\ task.what = "idle" /\ N > 0 /\ mods[N].validated = "no"
      BY DEF Validate, IsIdle, Idle
<1>3. /\ Typed /\ N \in Nat /\ N \in 1 .. N /\ mods[N] \in ModuleRecords /\ DOMAIN mods = 1 .. N /\ epoch \in Nat
      /\ \A n \in Fns(N) : Fn(N, n) \in FnRecords /\ n \in Names
      BY <1>2, ModuleTypes DEF LifeIInv, Typed, cur, Fns
<1>4. ~mods[N].debug /\ ~mods[N].fast
      BY <1>2, <1>3 DEF LifeIInv, ModuleOK
<1> DEFINE v == IF error' THEN "error" ELSE "ok"
           G == [n \in Names |-> IF n \in seen THEN [Fn(N, n) EXCEPT !.color = epoch'] ELSE Fn(N, n)]
           M == [mods[N] EXCEPT !.validated = v, !.fns = G]
<1>5. mods' = [mods EXCEPT ![N] = M]
      BY <1>1
<1>6. /\ error' \in BOOLEAN /\ v \in {"error", "ok"}
      /\ v = "ok" => \A n \in Fns(N) : Passes(n)
      BY <1>1
<1> HIDE DEF v
<1>7. ASSUME NEW n \in Names
      PROVE  /\ G[n] \in FnRecords \cup {NoFn} /\ (G[n] = NoFn <=> mods[N].fns[n] = NoFn)
             /\ n \in seen => n \in Fns(N) /\ G[n] = [Fn(N, n) EXCEPT !.color = epoch']
             /\ n \notin seen => G[n] = Fn(N, n)
  <2>1. CASE n \in seen
    <3>1. n \in Fns(N) /\ Fn(N, n) \in FnRecords /\ Fn(N, n) = mods[N].fns[n] /\ mods[N].fns[n] # NoFn
          BY <2>1, <1>3 DEF Fn, Fns
    <3>4. epoch' \in Nat
          BY <1>2, <1>3
    <3>2. [Fn(N, n) EXCEPT !.color = epoch'] \in FnRecords
          BY ONLY <3>1, <3>4 DEF FnRecords
    <3>3. QED
          BY <2>1, <3>1, <3>2, FunctionIsNotNoFn
  <2>2. CASE n \notin seen
        BY <2>2, <1>3 DEF Fn, ModuleRecords
  <2>3. QED
        BY <2>1, <2>2
<1>8. /\ M \in ModuleRecords /\ M.validated = v /\ M.fns = G
      /\ M.debug = mods[N].debug /\ M.fast = mods[N].fast
  <2>1. G \in [Names -> FnRecords \cup {NoFn}]
        BY <1>7
  <2> HIDE DEF G
  <2>2. QED
        BY <2>1, <1>3, <1>6 DEF ModuleRecords
<1> HIDE DEF G, M, N
<1>9. N = cur
      BY DEF N
<1>10. mods'[N] = M /\ (\A m \in 1 .. N : m # N => mods'[m] = mods[m]) /\ cur' = N /\ mods' \in Seq(ModuleRecords)
  <2>1. mods'[N] = M /\ \A m \in 1 .. N : m # N => mods'[m] = mods[m]
        BY <1>3, <1>5
  <2>2. mods' \in Seq(ModuleRecords) /\ Len(mods') = N
        BY <1>3, <1>5, <1>8, <1>9 DEF Typed, cur
  <2>3. QED
        BY <2>1, <2>2 DEF cur
<1>11. \A m \in 1 .. N : m # N => Fns(m)' = Fns(m) /\ \A k : Fn(m, k)' = Fn(m, k)
       BY <1>10 DEF Fns, Fn
<1>12. /\ Fns(cur)' = Fns(N)
       /\ \A n \in Fns(N) : /\ n \in seen => Fn(cur, n)' = [Fn(N, n) EXCEPT !.color = epoch']
                            /\ n \notin seen => Fn(cur, n)' = Fn(N, n)
       BY <1>3, <1>7, <1>8, <1>10 DEF Fns, Fn
<1>13. Keeps
       BY <1>2, <1>3, <1>4, <1>9, <1>10, <1>11 DEF Keeps, FastSteps, Unfinished
<1>14. Typed'
       BY <1>2, <1>3, <1>6, <1>9, <1>10 DEF Typed
<1>15. TaskOK' /\ EngineOK'
       BY <1>2 DEF LifeIInv, TaskOK, EngineOK
<1>16. ASSUME NEW n \in Fns(N)
       PROVE  /\ Fn(cur, n)'.calls = Fn(N, n).calls /\ FnOK(N, n) /\ FnOK(cur, n)'
  <2>1. /\ Fn(N, n) \in FnRecords /\ FnOK(N, n)
        BY <1>3, <1>9 DEF LifeIInv
  <2>2. /\ Fn(cur, n)'.calls = Fn(N, n).calls /\ Fn(cur, n)'.size = Fn(N, n).size
        /\ Fn(cur, n)'.category = Fn(N, n).category /\ Fn(cur, n)'.dtorOp = Fn(N, n).dtorOp
        /\ Fn(cur, n)'.entry = Fn(N, n).entry
        /\ Fn(cur, n)'.color \in {Fn(N, n).color, epoch'}
        BY <2>1, <1>12 DEF FnRecords
  <2>3. Fn(N, n).color \in Nat /\ epoch' = epoch + 1 /\ Fn(N, n).color <= epoch /\ epoch \in Nat
        BY <2>1, <1>2, <1>3 DEF FnRecords, FnOK
  <2>4. ~mods'[N].debug /\ ~mods'[N].fast /\ task'.what = "idle" /\ engine' = engine
        BY <1>2, <1>4, <1>8, <1>10
  <2>5. QED
        BY <2>1, <2>2, <2>3, <2>4, <1>4, <1>10 DEF FnOK, Doing, FastSteps
<1>17. FnsOK'
  <2>1. ModuleOK(cur)'
    <3>1. ASSUME v = "ok", NEW n \in Fns(N) PROVE Fn(N, n).calls # None => Fn(N, n).calls \in Fns(N)
          BY <3>1, <1>6, <1>9 DEF Passes, Lookup
    <3>2. QED
          BY <3>1, <1>4, <1>8, <1>10, <1>12, <1>16 DEF ModuleOK
  <2>2. ASSUME NEW m \in 1 .. N, m # N PROVE ModuleOK(m)'
    <3>1. ModuleOK(m) /\ mods'[m] = mods[m]
          BY <2>2, <1>9, <1>10 DEF LifeIInv
    <3>2. QED
          BY <3>1, <1>9, <1>13, ModuleKept DEF ModuleOK
  <2>3. ASSUME NEW m \in 1 .. N, m # N, NEW k \in Fns(m) PROVE FnOK(m, k)'
    <3>1. /\ FnOK(m, k) /\ Fn(m, k)' = Fn(m, k) /\ mods'[m] = mods[m]
          BY <2>3, <1>9, <1>10, <1>11 DEF LifeIInv
    <3>2. epoch <= epoch' /\ engine.epoch <= engine'.epoch
          BY <1>2, <1>3 DEF Typed
    <3>3. QED
          BY <3>1, <3>2, <2>3, <1>2, <1>3, <1>9, <1>10, <1>14, FnKept
  <2>4. QED
        BY <2>1, <2>2, <2>3, <1>10, <1>11, <1>12, <1>16 DEF FnsOK
<1>18. failed' = {}
  <2>1. ASSUME NEW n \in seen PROVE Fn(N, n).color # epoch'
    <3>1. n \in Fns(N)
          OBVIOUS
    <3>2. Fn(N, n).color \in Nat /\ Fn(N, n).color <= epoch
          BY <3>1, <1>3, <1>16 DEF FnRecords, FnOK
    <3>3. QED
          BY <3>2, <1>2, <1>3
  <2>2. failed' = failed \cup {}
        BY <2>1, <1>1
  <2>3. QED
        BY <2>2 DEF LifeIInv
<1>19. QED
       BY <1>2, <1>13, <1>14, <1>15, <1>17, <1>18, StepIsSound DEF LifeIInv, ProgramOK

-----------------------------------------------------------------------------
(* The invariant                                                           *)

LEMMA InitLife == ConstantsOK /\ Init => LifeIInv
<1> SUFFICES ASSUME ConstantsOK, Init PROVE LifeIInv
    OBVIOUS
<1>1. /\ mods = <<>> /\ error = FALSE /\ epoch = 1
      /\ bound = [debug |-> {}, fast |-> {}, llvm |-> {}]
      /\ engine = [epoch |-> 0, calls |-> {}] /\ fixList = {} /\ program = [id |-> 0, calls |-> {}]
      /\ live = {} /\ handles = {} /\ task = [what |-> "idle", rest |-> {}] /\ failed = {}
      BY DEF Init, NoProgram, Idle
<1>2. mods \in Seq(ModuleRecords) /\ cur = 0
      BY <1>1 DEF cur
<1>3. Typed
  <2>1. /\ mods \in Seq(ModuleRecords) /\ cur <= MaxModules
        /\ error \in BOOLEAN /\ epoch \in Nat
    <3>1. cur <= MaxModules
          BY <1>2 DEF ConstantsOK
    <3>2. error \in BOOLEAN /\ epoch \in Nat
          BY <1>1
    <3>3. QED
          BY <1>2, <3>1, <3>2
  <2>2. bound \in [{"debug", "fast", "llvm"} -> SUBSET [caller : Places, callee : Places]]
        BY <1>1
  <2>3. /\ engine \in [epoch : Nat, calls : SUBSET Insts]
        /\ program \in [id : Nat, calls : SUBSET Insts] /\ program.id <= engine.epoch
        BY <1>1
  <2>4. /\ fixList \in SUBSET [target : Places, inst : Insts]
        /\ handles \in SUBSET [mode : {"debug", "fast"}, fn : Places, program : Nat]
        BY <1>1
  <2>5. task \in [what : Steps, rest : SUBSET Names]
        BY <1>1 DEF Steps
  <2>6. QED
        BY <2>1, <2>2, <2>3, <2>4, <2>5 DEF Typed
<1>4. TaskOK /\ EngineOK
      BY <1>1 DEF TaskOK, Idle, EngineOK
<1>5. ProgramOK
      BY <1>1 DEF ProgramOK
<1>6. \A mode \in {"debug", "fast", "llvm"} : bound[mode] = {}
      BY <1>1
<1>7. QED
      BY <1>1, <1>2, <1>3, <1>4, <1>5, <1>6 DEF LifeIInv

LEMMA StutterStep ==
    ASSUME LifeIInv, UNCHANGED vars
    PROVE  LifeIInv'
<1>1. UNCHANGED <<mods, error, epoch, bound, engine, fixList, program, live, handles, task, failed>>
      BY DEF vars
<1>2. Keeps /\ cur' = cur /\ \A m : Fns(m)' = Fns(m) /\ \A n : Fn(m, n)' = Fn(m, n)
      BY <1>1, SameModules
<1>3. Typed' /\ TaskOK' /\ EngineOK'
      BY <1>1, <1>2 DEF LifeIInv, Typed, TaskOK, EngineOK
<1>4. FnsOK'
      BY <1>1, <1>2 DEF LifeIInv, FnsOK, FnOK, ModuleOK, Doing
<1>5. QED
      BY <1>1, <1>2, <1>3, <1>4, StepIsSound DEF LifeIInv, ProgramOK

LEMMA StepLife == ConstantsOK /\ LifeIInv /\ [Next]_vars => LifeIInv'
<1> SUFFICES ASSUME ConstantsOK, LifeIInv, [Next]_vars PROVE LifeIInv'
    OBVIOUS
<1>1. ASSUME EmitIR PROVE LifeIInv'
  <2>1. IRStep("emitted")
        BY <1>1 DEF EmitIR, IRStep, IsReady
  <2>2. QED
        BY <2>1, IRStepStep
<1>2. ASSUME OptimizeIR PROVE LifeIInv'
  <2>1. IRStep("optimized")
        BY <1>2 DEF OptimizeIR, IRStep
  <2>2. QED
        BY <2>1, IRStepStep
<1>3. ASSUME GetThreadSafeModule PROVE LifeIInv'
  <2>1. IRStep("taken")
        BY <1>3 DEF GetThreadSafeModule, IRStep
  <2>2. QED
        BY <2>1, IRStepStep
<1>4. CASE NewModule
      BY <1>4, NewModuleStep
<1>5. CASE Validate
      BY <1>5, ValidateStep
<1>6. CASE NewErrorContext
      BY <1>6, NewErrorContextStep
<1>7. ASSUME NEW n \in Names, NEW f \in Definitions, NewAstFunction(n, f) PROVE LifeIInv'
      BY <1>7, NewAstFunctionStep
<1>8. CASE StartDebug
      BY <1>8, StartDebugStep
<1>9. CASE StartFast
      BY <1>9, StartFastStep
<1>10. CASE FixCalls
       BY <1>10, FixCallsStep
<1>11. CASE Materialize
       BY <1>11, MaterializeStep
<1>12. ASSUME NEW n \in Names, PrepareDebug(n) PROVE LifeIInv'
       BY <1>12, PrepareDebugStep
<1>13. ASSUME NEW n \in Names, GenerateFast(n) PROVE LifeIInv'
       BY <1>13, GenerateFastStep
<1>14. ASSUME NEW n \in Names, SetEntry(n) PROVE LifeIInv'
       BY <1>14, SetEntryStep
<1>15. ASSUME NEW n \in Names, EmitDefinition(n) PROVE LifeIInv'
       BY <1>15, EmitDefinitionStep
<1>16. ASSUME NEW n \in Names, EmitBody(n) PROVE LifeIInv'
       BY <1>16, EmitBodyStep
<1>17. ASSUME NEW mode \in {"debug", "fast"}, NEW n \in Names, GetHandle(mode, n) PROVE LifeIInv'
       BY <1>17, GetHandleStep
<1>18. CASE UNCHANGED vars
       BY <1>18, StutterStep
<1>19. QED
       BY <1>1, <1>2, <1>3, <1>4, <1>5, <1>6, <1>7, <1>8, <1>9, <1>10, <1>11, <1>12, <1>13,
          <1>14, <1>15, <1>16, <1>17, <1>18 DEF Next

-----------------------------------------------------------------------------
(* What it is for                                                          *)

LEMMA LifeIsTyped == LifeIInv => TypeOK
<1> SUFFICES ASSUME LifeIInv PROVE TypeOK
    OBVIOUS
<1>1. /\ Typed /\ cur \in Nat /\ DOMAIN mods = 1 .. cur
      /\ \A m \in 1 .. cur : mods[m] \in ModuleRecords
      /\ \A m \in 1 .. cur : \A n \in Fns(m) : Fn(m, n) \in FnRecords
      BY ModuleTypes DEF LifeIInv, Typed, cur
<1>2. /\ cur <= MaxModules /\ error \in BOOLEAN /\ epoch \in Nat
      /\ task.what \in {"idle", "debug", "fast", "fix", "materialize", "entries", "define", "emit"}
      /\ task.rest \subseteq Names
      BY <1>1 DEF Typed, Steps, FastSteps
<1>3. \A m \in 1 .. cur : mods[m].validated \in {"no", "ok", "error"}
                          /\ mods[m].ir \in {"no", "emitted", "optimized", "taken"}
      BY <1>1 DEF ModuleRecords
<1>4. ASSUME NEW m \in 1 .. cur, NEW n \in Fns(m)
      PROVE  /\ Fn(m, n).color \in 0 .. epoch /\ Fn(m, n).dtorOp \in 0 .. engine.epoch
             /\ Fn(m, n).entry \in 0 .. engine.epoch
  <2>1. FnOK(m, n) /\ epoch \in Nat /\ engine.epoch \in Nat
        BY <1>1 DEF LifeIInv, Typed
  <2>2. Fn(m, n).color \in Nat /\ Fn(m, n).dtorOp \in Nat /\ Fn(m, n).entry \in Nat
        BY <1>1 DEF FnRecords
  <2>3. Fn(m, n).color <= epoch /\ Fn(m, n).dtorOp <= engine.epoch /\ Fn(m, n).entry <= engine.epoch
        BY <2>1 DEF FnOK
  <2>4. QED
        BY <2>1, <2>2, <2>3
<1>5. QED
      BY <1>1, <1>2, <1>3, <1>4 DEF TypeOK

LEMMA CallsAreBound == LifeIInv => CallsStayInModule
<1> SUFFICES ASSUME LifeIInv, NEW mode \in DOMAIN bound, NEW b \in bound[mode]
             PROVE  b.callee = <<b.caller[1], Fn(b.caller[1], b.caller[2]).calls>>
    BY DEF CallsStayInModule
<1>1. mode \in {"debug", "fast", "llvm"}
      BY DEF LifeIInv, Typed
<1>2. QED
      BY <1>1 DEF LifeIInv, BoundOK

LEMMA LifeFramesFit == LifeIInv => FramesFit
BY DEF LifeIInv, ProgramOK, FramesFit, CategoryOf

LEMMA LifeHandles == LifeIInv => HandlesAreUsable
<1> SUFFICES ASSUME LifeIInv PROVE HandlesAreUsable
    OBVIOUS
<1>1. ASSUME NEW h \in handles, h.mode = "debug"
      PROVE  /\ Fn(h.fn[1], h.fn[2]).debugReady
             /\ \A b \in bound.debug : b.caller = h.fn => Fn(b.callee[1], b.callee[2]).debugReady
  <2>1. IsFn(h.fn) /\ mods[h.fn[1]].debug /\ ~Doing(h.fn[1], {"debug"})
        BY <1>1 DEF LifeIInv, HandleOK
  <2>2. \A n \in Fns(h.fn[1]) : Fn(h.fn[1], n).debugReady
        BY <2>1 DEF LifeIInv, FnOK, IsFn
  <2>3. ASSUME NEW b \in bound.debug, b.caller = h.fn
        PROVE  b.callee[1] = h.fn[1] /\ b.callee[2] \in Fns(h.fn[1])
    <3>1. BoundOK(b)
          BY DEF LifeIInv
    <3>2. QED
          BY <3>1, <2>3 DEF BoundOK, IsFn
  <2>4. QED
        BY <2>1, <2>2, <2>3 DEF IsFn
<1>2. ASSUME NEW h \in handles, h.mode # "debug"
      PROVE  h.program = program.id \/ \E m \in h.fn[1] + 1 .. cur : mods[m].fast
  <2>1. HandleOK(h) /\ h.mode \in {"debug", "fast"}
        BY DEF LifeIInv, Typed
  <2>2. QED
        BY <2>1, <1>2 DEF HandleOK
<1>3. live \subseteq {program.id}
      BY DEF LifeIInv, ProgramOK
<1>4. QED
      BY <1>1, <1>2, <1>3 DEF HandlesAreUsable

\* Whatever names, functions and modules there are, and in whatever order the
\* modules of a thread are validated and prepared for the modes: no assertion
\* of AstModule fails, calls stay in the module of the caller, what they
\* allocate is large enough, handles lead to code that is there.
THEOREM LifecycleIsSound ==
    ASSUME ConstantsOK
    PROVE  Spec => [](TypeOK /\ AssertionsHold /\ CallsStayInModule /\ FramesFit /\ HandlesAreUsable)
<1>1. LifeIInv => TypeOK /\ AssertionsHold /\ CallsStayInModule /\ FramesFit /\ HandlesAreUsable
      BY LifeIsTyped, CallsAreBound, LifeFramesFit, LifeHandles DEF LifeIInv, AssertionsHold
<1>2. Init => LifeIInv
      BY InitLife
<1>3. LifeIInv /\ [Next]_vars => LifeIInv'
      BY StepLife
<1>4. QED
      BY <1>1, <1>2, <1>3, PTL DEF Spec
==============================================================================

# A TLA+ verification of PochiVM

PochiVM lets a C++ program build functions at run time: overloaded operators
make an abstract syntax tree, which is validated and then executed in one of
three modes: a **debug interpreter** that walks the tree, a **fast interpreter**
("FastInterp") that copies pre-compiled boilerplates and patches them together,
and **LLVM**. Two build-time programs prepare what this needs: one compiles the
boilerplates and makes the tables they are selected from, the other one
extracts the C++ functions that generated code may call. This directory holds
TLA+ models of these parts, TLC configurations that check them on small
instances, and TLAPS proofs.

To run: `tlc -config memory.cfg TempArenaAllocator` (the table under
[Runs](#runs) pairs modules with configurations), and
`tlapm MemoryProofs.tla`. All line numbers are those of the files
under `src/`. `PROJECT.json` maps the definitions to the lines they
model; a small helper without an entry of its own stands for some of the lines of the definitions that use it.

## Inventory

### What there is, and what it keeps

| Component | Source | State | Operations | Module |
|---|---|---|---|---|
| Codegen memory pool | `pochivm/global_codegen_memory_pool.h` | a lock-free queue of free chunks, an atomic counter of its length | `GetMemoryChunk`, `FreeMemoryChunk`, from any thread | `CodegenMemoryPool` |
| Arena allocator | `pochivm/codegen_arena_allocator.h` | list of chunks threaded through the chunks, bump pointer and end | `Allocate`, `Reset`, destructor; one arena a thread | `TempArenaAllocator` |
| Lock-free queue | `pochivm/thirdparty_moodycamel_concurrentqueue_impl.h` | per stream: two indices, two dequeue counters, a block index; the free list of blocks; the hash of streams | `enqueue`, `try_dequeue`, what they call | `ConcurrentQueue`, `QueueStreams`, `QueueBlockPool`, `ImplicitProducerHash` |
| API layer | `pochivm/api_base.h`, `ast_type_helper.h` | none: the tree it builds | operators of `Value` and `Reference` | `ExpressionSemantics` |
| Expressions | `pochivm/*_expr*.{h,cpp}`, `fastinterp_tpl_*.cpp` | memory | `InterpImpl`, `EmitIRImpl` and the boilerplates of every node | `ExpressionSemantics`, `FIAstNodes` |
| Stack frame planner | `fastinterp/fastinterp_operand_stack.h` | offsets of locals, free temporary slots, two operand stacks, frame size | push, pop, reserve, force-spill, push and pop local | `FIStackFrame` |
| Expression code generation | `pochivm/*_fastinterp.cpp`, `fastinterp_ast_helper.hpp` | what the first walk has noted in the nodes; the planner | `FastInterpSetupSpillLocation`, then `PrepareForFastInterp` of each node | `FIAstNodes`, `FISpillPasses` |
| Scoped variable manager | `pochivm/scoped_variable_manager*` | scope stack, cleanup tree, break and continue targets | enter and leave scopes, destructor sequences, cleanup entry points, landing pads | `ScopedVariableManager`, `LLVMStatements` |
| Validation | `AstFunction::Validate` | reachability, scopes and loops on the path | one traversal | `StatementSemantics` |
| Statement code generation | `lang_constructs_fastinterp.cpp`, ... | instances and the links between them | `PrepareForFastInterp` of statements, functions | `ExecutionModes` |
| LLVM backend | `pochivm/*_llvm.cpp` | basic blocks, insertion point, dummy block | `EmitIRImpl` of statements, functions | `LLVMStatements` |
| Debug interpreter, statements | `lang_constructs.h`, `function_proto.h` | C++ stack, control signal, scope stack | `InterpImpl` | `StatementSemantics` |
| Debug interpreter, frames | `function_proto.h` | offsets of variables, frame size | `PrepareForDebugInterp` | `DebugInterpFrame` |
| Debug interpreter, calls | `function_proto.h`, `destructor_helper.h` | `thread_pochiVMContext`: frame base, scope stack | call, return, callback, throw | `DebugInterpCalls` |
| FastInterp calls | `pochivm_function_pointer.h`, `ast_type_helper.h`, `exception_helper.h` | the outstanding exception of the thread | call, return, throw, cleanup, across generated and C++ functions | `FICalls` |
| Function pointers | `pochivm_function_pointer.h` | one word | make, dispatch | `GeneratedFunctionPointers` |
| Frame size categories | `fastinterp_tpl_stackframe_category.h` | a list of sizes | binary search | `FrameSizeCategories` |
| Copy-and-patch engine | `fastinterp/fastinterp_codegen_helper.*` | instances, placeholders, fix lists, the mapped program | instantiate, populate, replace, `Materialize`, `Reset` | `BoilerplateEngine` |
| Module lifecycle | `function_proto.h`, `pochivm_context.h` | stage flags of each module, colors of nodes, the thread's last program, handles | new function, validate, prepare, emit, get handles | `ModuleLifecycle` |
| Boilerplate library generator | `fastinterp/build_fast_interp_lib.cpp`, `metavar.hpp`, ... | enumerated instances, cuckoo tables, relocations; files and checksums | enumerate, insert, select, rewrite, copy; build | `BoilerplateLibrary` |
| Runtime library builder | `runtime_lib_builder/*` | bitcode, stripped files, symbol lists, matches, objects, headers, checksums | the steps of a build; extraction; addresses; template arguments | `RuntimeLibBuild`, `SymbolExtraction`, `SymbolAddresses`, `TemplateParameters` |
| Reflection | `pochivm/pochivm_reflection_helper.h`, `reflective_stringify_helper.h` | type ids, wrappers, metadata of functions | registration, printing of headers | `FunctionWrappers` |
| Post-build verifier | `post_build_verifier/*` | undefined symbols of the modules, symbols of the binary | verify | `SymbolExtraction`, `FunctionWrappers` |
| Query plans | `mini_db_backend/*.hpp` | rows, hash tables, lists | row generators, processors, outputters, order by | `QueryPlans` |

### How they interact

The API builds nodes in the arena of its thread (`TempArenaAllocator`), which
takes chunks from the process-wide pool, which keeps them in the queue: the only
state shared by threads at run time. `Validate` walks the tree once. In
debug-interp mode `InterpImpl` then runs it on the C++ stack, with the frame and
the scopes of the running function in a thread-local context. In FastInterp mode
each statement generates snippets of boilerplate instances; for the expressions
it walks the tree twice on one stack frame planner; around them, the scoped
variable manager supplies destructor sequences and cleanup code; the engine lays
all instances out and copies them into executable memory. In LLVM mode the same
statements emit basic blocks, and the manager landing pads. Generated functions
then call one another and C++, C++ calls them back, and exceptions cross all of
these borders. A thread works on one module after another; they share the
engine, the colors of nodes and the memory of the last program.

The boilerplate library and the runtime library come out of incremental builds:
programs that read and write files, guarded by checksums and renames, some of
them with several threads. Query plans are a user of all this: a plan is
compiled into nested loops over the API.

### What is hard about it

* *Interleaving.* The pool updates queue and counter separately; a chunk given up
  by one thread is used by another one while the first is still inside
  `FreeMemoryChunk`; an arena's list lives in the memory it is giving up. The
  queue below has counters that are read one after the other, a free list with
  reference counts, and a hash table that grows while threads insert.
* *Two walks that must agree.* Whether an operand is spilled is decided in one
  walk and relied on in another one, in an order (right operand first) that is
  not the order of execution.
* *Every combination of template parameters.* A boilerplate that was not
  built is discovered when a user's expression needs it.
* *Three implementations of one meaning.* Each node computes the same in the
  interpreter, in a boilerplate for each shape of operands, and in LLVM.
* *Exits.* `break`, `continue`, `return`, falling off the end and exceptions leave
  nested scopes with different objects alive; the cleanup code is shared.
* *Exceptions across representations.* Out of generated code, an exception is a
  return code and a thread-local pointer; in C++, an exception. In debug-interp
  mode, the context of a function must be restored on every path.
* *Bytes.* Removed tail calls, NOP padding, short and long forms of jumps are
  decided at -128 and 127, and instances are not written in the order of their
  addresses.
* *Stale files.* A build is interrupted, fails or sees an edit; the next one believes
  the files it finds.
* *Tables that move.* Hash tables expand in the middle of an insertion; cuckoo
  tables evict entries of which only one of the hashes is known.

`PROJECT.json` lists these as 40 hazards, each at its line, with the properties
that would catch it.

### What makes each component correct

* Pool: no chunk has two holders; the cache stays within its limit, but for what
  was in flight; the counter is the length, but for what is in flight; a caller
  sees a plain allocator (`ChunkAllocator`).
* Arena: live allocations are disjoint and inside owned chunks; the list is
  exactly what is owned; `Reset` ends.
* Queue: a stream gives every item out once, in order of its positions
  (`QueueStreams`); a block is in use or free, in one place; a thread has one
  stream, always the same one; who is alone drains the queue.
* Expressions: the three modes compute the same; the selected boilerplate exists
  and, when it runs, finds its operands where the code generator thought they were.
* Statements: what validates compiles; the modes do the same; objects are
  destroyed newest first, all of them, and only once; what is rejected deserves it.
* Frames: places of variables do not overlap, are aligned, and are covered by the frame
  the caller allocates; the category of a frame fits and no smaller one does.
* Calls: an activation always runs in its own context and what exists is
  registered for destruction; FastInterp code behaves to C++ as C++ does
  (`CxxCalls`); a word reaches the function it was made for.
* Engine: regions tile the program, executing the memory is executing the
  linked blueprints, the layout is as good as any, and it is found in finite time.
* Modules: calls reach the function of the caller's module, handles the mapped program.
* Libraries: after a build that reports success every file is of the current
  sources; what is extracted is what the host can resolve; names are those of the
  functions registered, and the types those they are called with; a boilerplate
  is found by its metavars and only by them, and its copy does what its code does.
* Queries: each stage computes what the query says, and a table has every key once,
  where probing finds it.

## Modules

    ChunkAllocator  <- CodegenMemoryPool <- TempArenaAllocator <- MemoryProofs

    QueueStreams <- ConcurrentQueue, ImplicitProducerHash, QueueBlockPool
                             <- MCConcurrentQueue
    ChunkAllocator <- QueueBlockPool <- QueueBlockPoolProofs
    ImplicitProducerHash <- ImplicitProducerHashProofs <- MCConcurrentQueue

    ExpressionSemantics <- FIAstNodes <- FISpillPasses -> FIStackFrame
          ^-----------------------+-- MCExpressions (+ MCSpillInputs)

    StatementSemantics <----+- ExecutionModes <--------------------+
                            |                                      +- MCExecutionModes
    ScopedVariableManager <-+- LLVMStatements <--------------------+

    CxxCalls <- FICalls, DebugInterpCalls <- MCCalls <- CallsProofs
    BoilerplateEngine <- MCBoilerplateEngine

    FIStackFrame <- FIStackFrameProofs, ModuleLifecycle <- ModuleLifecycleProofs,
    DebugInterpFrame, FrameSizeCategories, GeneratedFunctionPointers
                                              <- MCModules <- ModulesProofs

    RuntimeLibBuild, SymbolExtraction, SymbolAddresses, TemplateParameters,
    FunctionWrappers, BoilerplateLibrary         <- MCRuntimeLibrary

    QueryPlans <- MCQueries

(`A <- B`: B extends, instantiates or refines A.) An `MC...` module has the
values TLC needs; where it puts several components next to each other, a
variable `part` says which one a behaviour is about, and the variables of the
others do not change.

### Memory

**CodegenMemoryPool.** Each access to the queue or to the counter, each `mmap` and
`munmap` is an action of one thread; `pc` says where in the code it is and `chunk`
what it has in its hand. `owned` is the ghost of what callers hold. The vendored
queue is abstracted to a set with two liberties that its documentation gives it:
any member may be dequeued, and a dequeue may fail though something is there.
`enqueue` may fail (out of memory), and a failed `mmap` ends the process
(`ReleaseAssert`). **ChunkAllocator** is the abstract specification: acquire a
chunk nobody holds, release one. **TempArenaAllocator** extends the pool: the
arena's calls *are* the pool's actions. `link[c]` is the first word of chunk `c`;
whoever holds a chunk writes to it, so a link read too late is wrong. Addresses
are in words of 8 bytes; a chunk is a few words.

### The queue

What the pool reaches in the vendored queue, one action to an access to shared
memory. **ConcurrentQueue** is the streams (implicit producers): `enqueue` finds
or makes a block and an index entry, `try_dequeue` claims a position with the
optimistic count and the overcommit, finds the block through the index by the
distance of keys, and gives it back when it was the last to finish. Items are
their positions; no code looks at them. **QueueStreams** is the abstract
specification: a sequence per stream, from which a consumer removes the next
position. **QueueBlockPool** is the free list with reference counts and the flag
of a node that somebody wants to add; what is on the list is the least set with the
head and the successors of its members. **ImplicitProducerHash** the tables in
which a thread finds its stream, with their growth. `requisition_block` and
`reset_empty` are one step where no other thread can tell. Memory is sequentially
consistent; the 64-bit indices do not wrap (`IndexMod` is larger than what
`MaxEnqueues` can reach), while the block index does.

### Expressions

**ExpressionSemantics** has the trees a host can write: nodes with their types, and
what the templates let through (`Compiles`). It computes
every node in the debug interpreter, in LLVM mode (by the instructions selected
and the LLVM types they are applied to) and in the boilerplates (by which operands
are inlined and are therefore read late), on one memory. A state is one expression
on one memory with the outcomes so far; an outcome is a value and a memory, or
none where C++ leaves the result undefined.

**FIStackFrame** is a set of pure operators on a planner record, plus the state
machine of `FIStackFrameManager`. **FIAstNodes** has one operator per template
(which values it reads, from registers or from which slot, where the result goes,
and its `cond()`), the inline shapes, and the selection of boilerplates.
**FISpillPasses** executes both walks task by task (a task is a statement of the
C++ functions; recursion becomes the list `todo`), on the operators of
`FIStackFrame`, and then runs the generated code on a machine that has three
registers per class and a memory of slots. Values are names (the path of the
node that computes them), so a value in the wrong place is seen whatever it is.

### Statements in three modes

**ScopedVariableManager** and the first half of **ExecutionModes** generate code, as functions from a
generation state to a generation state. An instance is its operation and its two
continuations; the assertions of the C++ code that do not hold are recorded in
`failed`. **LLVMStatements** does the same for basic
blocks: landing pads and cleanups that positions share, the blocks that phis
name, the dummy block behind a return. **StatementSemantics** is `Validate`, and a
small-step machine whose frames are the `InterpImpl` calls in progress. The second halves of
**ExecutionModes** and **LLVMStatements** run generated code and interpreter on the same function: at each *event* (a call, a
destructor, a test, a return, an exception) they have to agree, and the host
decides what comes out, for both. A function that does not validate is only
interpreted, to see whether the rejection is deserved.

### Calls, frames, modules

**DebugInterpCalls**: the state is the C++ stack, with the locals in which
`DebugInterp` saves the context. **FICalls**: the state is the stack of generated
and C++ activations, the thread's outstanding exception, the C++ exception that is
being thrown, and what the last callee returned. Its refinement mapping to
**CxxCalls** (calls, objects and exceptions as the C++ standard has them) says
which exception each activation is being left by, from these three places.

**DebugInterpFrame** is the traversal that gives parameters and variables their
offsets; **FrameSizeCategories** the binary search, one action to an iteration;
**GeneratedFunctionPointers** the word of a function pointer as a set of bits, and
what each mode makes of it. **ModuleLifecycle**: the modules of a thread, each with
its functions and the traces that modes leave in them (colors, frame sizes, entry
points, prototypes), the engine with its epoch, the list of calls to fix, and the
handles the host has. The host uses the current module and each of its stages once,
as it must.

### The engine

**BoilerplateEngine**: making, linking, aligning and replacing instances while
`pc = "building"`; then each loop of `Materialize` is an action (placing of one
instance is one step), up to `mprotect`, and `Reset`. A blueprint is a sequence
of instructions with lengths; the memory is a set of instructions with addresses
and operands, so overwriting and wrong displacements can be seen.

### The two libraries

**BoilerplateLibrary** has three machines. *Selection*: the enumeration of
metavars under conditions on prefixes, and the cuckoo table, insertion by
insertion, with hash functions drawn anew at a failure; then the selection by
metavars. *Copies*: code with relocations becomes placeholders in a data array,
and the copy made at a destination is compared with the code. *Builds*: threads
that compile templates, register packs under a mutex, and rename checksums; files
carry the version of the content they were made from. **RuntimeLibBuild** is the
incremental build of the runtime library in the same manner, with a step for each
command and file; an edit, a failing command and an interruption may come in
between any two. **SymbolExtraction** is what `update_symbol_matches` keeps of
a module for one function, and the post-build verifier that looks for its
undefined symbols in the binary. **SymbolAddresses** is the fake address each
function registers with, and the way back from addresses to names;
**TemplateParameters** the parser of a demangled name, backwards, bracket by
bracket. **FunctionWrappers** goes from a C++ function to its type ids, whether it
needs a wrapper, the text of its prototype in the generated header, and the
lowered function that is called.

### Queries

**QueryPlans** is what the generated code of a plan does, row by row: generators
(tables, temporary tables, groups), processors (filter, project, limit, join),
outputters (print, temporary table, hash tables, aggregates), and the sort. A row
is an address with fields. Next to it, the relational meaning of each stage.

## Runs

| Run | Module | Bounds | Checks |
|---|---|---|---|
| `memory` | TempArenaAllocator | 2 threads, 3 chunks of 6 words, pages of 2, limit 0, size 1, alignment 2, 3 allocations between resets | `ExclusiveOwnership`, `FreeListBounded`, `CounterTracksFreeList`, `ArenaIsSound`, refinement `AllocatorSpec`, liveness `ResetTerminates` |
| `queue` | MCConcurrentQueue | five settings of 2 or 3 threads, blocks of 2 items, 2 or 3 blocks | `IndicesAgree`, `BlocksAccountedFor`, `ProducersAreListed`, refinement `ImplementsAbstractions`, action property `SameStreamForever` |
| `queue_live` | MCConcurrentQueue | three smaller settings | liveness `LoneConsumerDrains`, `CallsEnd` |
| `expressions` | MCExpressions | all operators over operands of all shapes, on 36 memories; every well-typed nesting to depth 3 and every node under up to 5 pending operands, 3 registers a class | `LLVMAgrees`, `BoilerplatesAgree`, `BlueprintsExist`, `OperandsInPlace` |
| `modes` | MCExecutionModes | families of functions (below) | `ValidationIsExact`, `ModesAgree`, `ObjectsAreDestroyed` |
| `engine` | MCBoilerplateEngine | 4 instances of 2 blueprints with all links; 3 instances of 3 or of 2 other blueprints, a function and its wrapper | `LayoutIsOptimal`, `CodeFollowsPlaceholders`, `PointersAreEntryPoints`, liveness `PlacementEnds` |
| `calls` | MCCalls | 8 C++ frames, 2 variables, 2 nested scopes; 5 activations, 2 exceptions, 2 objects | `ContextIsKept`, `AssertionsHold`, refinement `CxxSpec` |
| `modules` | MCModules | bodies of 4 nodes, the real list of sizes, 9 categories of pointers, 2 modules of 2 functions | `PlacesDisjoint`, `FrameCoversPlaces`, `PlacesAligned`, `FastFrameIsSound`, `AnswerIsBetween`, `ReachesTheFunction`, `ModulesStayApart` |
| `library` | MCRuntimeLibrary | 2 sources and a registration, 2 edits and 2 failures, and 3 edits and 1 failure, any of them setting a file back; modules of 4 symbols; names of 2 template arguments; 3 to 5 instances a template | `BuildsAreCurrent`, `HostResolves`, `RegistrationsAreRight`, `BoilerplatesAreFaithful` |
| `queries` | MCQueries | all tables of 3 rows, tables of 5 rows with 4 keys; hash tables of 4 slots that expand at 2 | `StagesAreRight`, `TablesAreSound` |

All end in at most about two minutes with two workers. Two runs find a
disagreement of the code with its own comments or assertions:

| Run | Property | What it shows |
|---|---|---|
| `calls_throw` | `ScopeFindsItsVariables` | debug interpreter: an exception that leaves a generated function called by a generated function finds the wrong scope stack |
| `operand_order` | `LeftSideFirst` | FastInterp: `x + f()` reads `x` after `f` has changed it, when the left operand is inlined |

Some properties of the `MC` modules join those of components:

* `ArenaIsSound`: the list is what is owned, and allocations are in its chunks, aligned as
  they were asked for, and disjoint.
* `ValidationIsExact`: what validates compiles in FastInterp and LLVM mode, and what is
  rejected is what would go wrong in the interpreter.
* `ModulesStayApart`: calls stay in their module, frames fit, handles are usable and no
  assertion fails.
* `BuildsAreCurrent`: of both builders; after a success nothing is stale, and no header
  is ever half-written. Of the runtime library the code does not keep all of this when builds
  are stopped and files set back; what it does not keep is named exactly (see below).
* `HostResolves`: an extracted function refers only to what the host has, copies only
  what is a value, and the verifier accepts the binary.
* `RegistrationsAreRight`: fake addresses are unique, names are right and an abort
  is due to an ambiguity (`SymbolAddresses`); the parser returns the arguments
  (`TemplateParameters`); no function is rejected, a call through the generated
  prototype is the call of the function, exceptions of a noexcept function are known, and what
  is created can be destroyed (`FunctionWrappers`).
* `BoilerplatesAreFaithful`: the enumeration is complete, selection finds the instance of
  the metavars asked for, the table is ordered, the copy does what the code does.
* `CallsEnd`: registration ends, and threads that return blocks do not drive each other
  round for ever, somebody gets through.
* `TablesAreSound` includes the type invariant of `QueryPlans`; the other type
  invariants are in `ArenaIsSound`, `FastFrameIsSound` and the like.

Every property of a passing run has a mutant in `PROJECT.json`: a definition of
the model replaced by a version with a plausible bug (kept next to it, marked
`mutant`), with which TLC finds the property violated in the same run. Deadlock is
checked, but in `modules`, `library` and `queries`, where searches, parsers and
queries end.

### Why the bounds are enough

* `memory`: two threads exchange chunks through a pool whose limit they overshoot
  together; three chunks let an arena hold two while the other one returns; an
  alignment of 2 words reaches the comparisons at both ends of a chunk. The
  theorems remove the bounds of pool and arenas; they have the allocations of no words, too.
* `queue`: the *race* setting has two consumers and four items in blocks of two: claims,
  overcommits, the last finisher that is not the last item. *index* has ten items on an
  index of two entries: it wraps, grows and wraps again. *streams* has a thread that
  consumes from another one. *hash* has two threads with ids that collide and a table that
  grows twice. *pool* has every state of the reference counts that two threads reach. The theorems remove the
  bounds of *hash* and *pool*.
* `expressions`: types have few bits (an `int` holds every product of two `char`s, as it
  does with 8 and 32), so that operands take their extremes and overflow; the register
  limits are the real ones, because which boilerplates exist depends on them; five operands
  pending fill both classes and spill.
* `modes`: *jumps* (a branch in a loop in a function, and loops in loops, with an
  object at each level), *exceptions* (throwing calls before, between and after
  the declarations of three nested scopes), *conditions* (every tree of up to
  three operators, of tests that may throw), *throws* (in branches and loops), *validation*
  (statements in any order, in and out of scope, reachable or not).
* `calls`: nesting of generated and C++ functions in any order up to
  four deep; the C++ functions in the middle may catch and throw again.
* `engine`: lengths are such that `jcc` and `jmp` go back by -128 and -129 bytes, and `jcc` forward
  by 126 and 128: the last that fit in a byte, or nearly, and the first that do not. A `jmp` that is
  left goes backward, to what has been placed before. Optimality is compared with all orders.
* `modules`: every order of a body that repeats nodes; words of functions at the limits of their fields; the search runs at each size
  of the list and one byte to both sides; FastInterp frames have one register a class,
  so that the second push spills, and layouts that leave the base misaligned; two modules
  are the one before and the current one, all that the code tells apart.
* `library`: two edits change a source twice, or a source and the registration or a tool, with a
  failure at any step in between; an edit may set a file back, so that two of them and a failure make a
  file that is half built and taken for unchanged, and a third one changes another file after that. A
  module has the function, another one, and two variables with every linkage and use. A
  reservation of two addresses is left and a next one begun; names nest templates in
  functions in templates. The tables have 3 to 7 slots, so that entries evict each other.
* `queries`: keys 0, 4 and 8 begin in one slot of a table of four, and four keys
  expand it once or twice; `RealTablesHaveAnEnd` checks the probing itself for sizes up
  to 256.

Names of bounds: `MaxAllocations`, `MaxEnqueues`, `MaxTemps`, `MaxLocals`, `MaxFrames`,
`MaxActivations`, `MaxScopes`, `MaxObjects`, `MaxThrowDepth`, `MaxInstances`,
`MaxInstructions`, `MaxModules`, `MaxHandles`, `MaxEdits`, `MoreEdits`,
`MaxTemplateEdits`, `MaxFailures`, `MaxTools`; each guards an action and models
nothing of the code.

### Fairness

`FairArenaSpec` has weak fairness of each thread's steps inside a call: nothing
there waits for another thread, so a thread goes on when it is scheduled. Nothing
is assumed about when threads call. `SuiteSpec` of the engine has weak fairness of
`Place`: it is a loop of one thread that waits for nothing. `FairSpec` of the queue has
weak fairness of each thread's step, and assumes that memory is found: a failed
allocation makes `enqueue` return false, after which the caller need not come back. That a
consumer drains the queue is promised for one that is alone: two dequeuers that
overcommit in turn can make each other fail for as long as they like. The other
properties are safety properties.

## Proofs

Each proof names an inductive invariant, shows that the initial states have it and
that every step keeps it, and derives the property. All assumptions on constants
are those named in the component's module, which TLC evaluates in the runs.

| Module | Proves, for every value of the constants | Listed theorems |
|---|---|---|
| `MemoryProofs` | pool and arenas | `Ownership`, `CounterExact`, `Bounded`, `Implements`, `ArenaSound`, `ArenaUsesPool`, `ArenasShareThePool` |
| `QueueBlockPoolProofs` | the pool of blocks of the queue, its list without locks | `PoolAlways`, `BlocksAreSafe`, `PoolImplementsAllocator` |
| `ImplicitProducerHashProofs` | the hash table of producers of the queue | `Registration`, `SameStream` |
| `MCConcurrentQueue` | the same in the runs `queue` and `queue_live` | `Registration`, `SameStream` |
| `CallsProofs` | calls and exceptions of FastInterp mode and of the debug interpreter | `FastInvariance`, `OutstandingExceptionIsHandled`, `GeneratedCodeActsAsCxx`, `DebugInvariance`, `DebugContextIsKept` |
| `FIStackFrameProofs` | the frame of FastInterp mode | `FrameIsSound` |
| `ModuleLifecycleProofs` | the modules of a thread | `LifecycleIsSound` |
| `ModulesProofs` | the frame of the debug interpreter, the search for a category, function pointers, and the two above in the run `modules` | `Disjoint`, `Covered`, `Aligned`, `SearchCorrect`, `FirstThatFits`, `PointersReach`, `FastFrame`, `ModulesApart` |

### Memory

The first half of `MemoryProofs` proves for **every finite set of threads, every
set of chunks and every limit in `Nat`**, from the assumptions named in
`CodegenMemoryPool` and nothing else:

| Theorem | Statement |
|---|---|
| `InitIInv`, `StepIInv`, `Invariance` | `Init => IInv`; `IInv /\ [Next]_poolVars => IInv'`; `Spec => []IInv` |
| `TypeCorrect` | `Spec => []TypeOK` |
| `Ownership` | `Spec => []ExclusiveOwnership` |
| `CounterExact` | `Spec => []CounterTracksFreeList` |
| `Bounded` | `Spec => []FreeListBounded` |
| `Implements` | `Spec => AllocatorSpec`: the pool implements the abstract allocator |

The inductive invariant is

    IInv == TypeOK /\ InHandIsOwned /\ ExclusiveOwnership
            /\ CounterTracksFreeList /\ RoomIsPromised

`ExclusiveOwnership` is not inductive alone: it needs that the chunk a thread is
about to enqueue or unmap is still its own (`InHandIsOwned`).
`CounterTracksFreeList` needs in turn that an enqueued chunk was not in the queue.
`FreeListBounded` speaks of the queue only; it is kept because every thread
between the check of the counter and the enqueue has one chunk promised:
`RoomIsPromised` bounds queue plus promises. A new promise needs the counter,
compared with the limit, to be the length of the queue minus what is in flight:
`CounterTracksFreeList`. The lemma `MoveCounts` (a thread that goes from one label
to another changes the two cardinalities by one) carries all the counting;
`QuietStepCounts` and `CountedStepCounts` apply it to the actions.

The second half adds the arenas, for **every size and alignment** the code can be
asked for that fits a chunk. `ArenaUsesPool` (`ArenaSpec => Spec`) shows that the arenas do to the
pool only what the pool allows, so `ArenasShareThePool` has all of the above with arenas on top.
`ArenaSound` needs `ArenaIInv`, which says for each thread: its list, followed from the head through the words
in the chunks, ends and visits exactly what it owns, but for what a call in progress is taking
or giving up (`ListIsRight`); the bump pointer is inside the chunk at the head
(`BumpPointerInHead`); every allocation is aligned as asked, in a chunk of the list, and in the head it is behind the bump pointer
(`AllocationsPlaced`), from which `NewAllocationApart` concludes that a new one is apart from all others.
That another thread cannot change the list (`OthersUntouched`) is exclusive ownership.

### The list without locks

`QueueBlockPoolProofs` proves for **any finite set of threads, any blocks and any initial pool**, from
`ConstantsOK` of `QueueBlockPool` (the flag is larger than what the threads can count to):
`BlocksAreSafe` (`Spec => [](TypeOK /\ BlocksAccountedFor /\ CountsAreExact)`) and
`PoolImplementsAllocator` (`Spec => Allocator!Spec`). The invariant `PoolIInv` says

* of the list (`ListOK`): no block is reached on two ways, so that it is the least set of its kind
  and stays one when its head is taken off (`ListPop`), a block is put in front (`ListPush`), or the
  successor of another block is set (`ListElsewhere`): induction along the list is never needed;
* of a block (`OneOwner`): it is on the list, held by one thread, being taken by one, or being
  added by one; and if none of these, it waits for those who refer to it;
* of its count (`CountOK`): exact, with the flag up exactly while it waits or is prepared for linking,
  and nobody refers to what is prepared;
* of a thread (`NextIsRight`): the successor it has read is still right if the block is on the list
  *or about to be linked in again*. This is why the list has no ABA: to change the
  successor, a thread must see a count of zero, and the reader counts.

`StepOffList` and `StepOnBlock` reduce a step to the one block it is about; `NobodyElseHas` says what
remains to be shown for a block that nobody else has.

### The hash table of producers

`ImplicitProducerHashProofs` proves for **any finite set of threads, any hash function and any initial
capacity**, with a table replaced any number of times and allocations that fail whenever they like, from
`ConstantsOK` of `ImplicitProducerHash`: `Registration` (every table has a free slot, a stream is its
thread's own and on the list, the count is exact) and `SameStream` (a thread gets the same stream ever
after). `MCConcurrentQueue` has both in the words of the runs. The invariant `HashIInv` says

* of a probe (`CallOK`, `KeysOK`): the slot it is at, and the slot a key is in, are on the path of the
  probe. A path is the least set that goes on from an occupied slot to the next one (`OnPath` says so with
  a quantifier over sets, `PathEnds` that it ends in one slot): what is on a path stays on it when other
  threads fill slots (`GrownPath`), so a probe that comes to an empty slot has not missed its key, with no
  induction along the slots;
* of a call: which tables its thread is known not to be in, while others replace the current one. A thread
  that copies its entry does so into a table that it is not in, nor in a later one;
* of the flag (`FlagIsLock`): one thread holds it, and the table it replaces is still the last;
* of a stream (`OwnersOK`): one thread has it, in a table, in its hand or as the last answer, and it is
  on the list, but in the step before it is linked;
* of the room (`RoomIsReserved`): the comment of the code says that a new table implicitly reserves the
  space for all older ones. `Claimants(k, v)` are the threads that are in table `k` or an older one, are about
  to be put there, or may still find that there is room because they have counted no more than `v` threads. With
  `v + 1` at least three quarters of the capacity there are at most `v` of them. A thread that counts adds itself and is one more
  than the count was, which is exact (`CountIsExact`); a thread that gives up leaves both. This
  is why an old table cannot overflow though late threads still insert into it without looking at its
  successors.

There is a lemma for each action (`LoadMainStep` to `AllocateStep`), and `StepHash` combines them. `CountingStep`,
`QuietStep` and `UncountedStep` tell the actions apart by what they do to the count, `PendingStep` and `CommittedStep`
by where their thread goes.

### Calls

`CallsProofs` is about `SuiteSpec` of `MCCalls` for **any functions, objects and exceptions, and any
bound on the stacks**, with `DestructorsCallBack = FALSE`, the condition that the code asserts.
`FastInv` says which activations may be on which (`WellFormed`) and where an exception in flight
is: in the C++ runtime, or in the outstanding pointer, never in both, and the latter exactly while
generated code is on its way out, with at most a destructor on top of it. The assertions follow
(`OutstandingExceptionIsHandled`). `GeneratedCodeActsAsCxx` is the refinement, step by step: under the mapping of `FICalls`
each activation is shown with the exception it is being left by; calls, throws, catches,
returns, propagation and termination map to the steps of `CxxCalls` with that name
(`MapsToCall`, ..., `MapsToTerminate`), the return codes and the transfer of
the pointer to stutters.

For the debug interpreter, `DebugContextIsKept` proves `ContextIsKept` for **any variables and
arities and any bounds on the C++ stack and its scopes**, from `BoundsAssumption` and `MaxThrowDepth <= 1`: exceptions are
thrown by the outermost activation and the C++ functions it calls. That hypothesis cannot go: with one activation more
the run `calls_throw` finds the defect listed under the findings. `ContextIsKept` is not inductive, because it says
nothing of the contexts in the locals of suspended calls but which objects they hold.
`DebugIInv` says of each activation on the C++ stack that it has saved the frame base and the scope stack of the
activation below (`StackOK`, with `Kept`: the scope stack is as long as there are scope frames from that activation up to
the call), and the same of the installed context and the top of the stack. Bases increase upwards, so the
objects of two activations are told apart by their addresses, and what the destructor of a scope
destroys is in no other scope stack (`ScopeDestroyed`). A step that pushes or pops one frame is
`StackPushed` or `StackPopped`; `KeptBelow` says that a context depends on what is below it only.

### Frames

`FIStackFrameProofs` proves `FrameIsSound` for **any number of registers, any layouts, and any nesting of
temporaries and locals**. `FrameOK` is the invariant of the planner itself: every slot between the
locals and the top has one holder and no more, a place in the free list or a spilled
temporary, and the spilled ones are the oldest of their class. Each method keeps it
(`SpillKeepsFrame`, `PushKeepsFrame`, ..., `PopLocalKeepsFrame`), so that it holds in the middle of
`ReserveTemp` and `ForceSpillAll` too. `StacksAgree` ties the operand stacks to what is pending;
`LocalsFollow` adds that the saved bases and the locals are interleaved in one increasing
sequence, without which popping a local could give back bytes of an older one.

`ModulesProofs` proves of `FrameSizeCategories`, for **every increasing list of sizes and every frame**
that fits its last entry: `SearchCorrect` (`SearchSpec => []AnswerIsBetween`: the first
category that fits is between the bounds of the search) and `FirstThatFits` (when the
bounds meet, that category fits and no smaller one does). The invariant is the claim
itself together with the types; the lemma `MiddleIsBelow` says that halving stays in
between.

It proves of `DebugInterpFrame` for **every function**, that is for any nodes, sizes, parameters
and body, `Disjoint`, `Covered` and `Aligned`: no two places overlap, the frame of the debug interpreter covers
all of them, and each is aligned for types of up to 8 bytes. The inductive invariant is
`TypeOK /\ PlacesDisjoint /\ FrameCoversPlaces`: a new place is disjoint from the others
because the frame so far covers them, so that the two can only be proved together
(`SetUpKeepsPlaces`). Alignment follows with it (`SetUpKeepsAlignment`); `PaddingAligns`
is the arithmetic of the rounding. `FastFrame` and `ModulesApart` carry the results of the two other
modules over to the specification of the run, whose properties they state.

### Function pointers

`PointersReach` holds for **any addresses and any sizes of frames whose category fits its field and is large
enough** (`ConstantsOK` of `GeneratedFunctionPointers`, which `FirstThatFits` justifies for the categories that the
search finds). A word is a set of bits; that a field is read back as it was written (`CategoryIsRead`, for
each of the 13 bits, and `TypeIsRead`) is the arithmetic, and `FastWord` and `OtherWords` say that nothing else
of a word lies in these bits. The invariant adds that a word, once taken, is that of the target.

### Modules

`ModuleLifecycleProofs` proves `LifecycleIsSound` for **any names and definitions of functions, any number of modules
and handles**. What holds when a module is ready is not inductive: between the loops of
`PrepareForFastInterp` calls exist whose frames have no category yet, and the list of calls to fix holds them.
`LifeIInv` therefore says of each function what has been done to it and what is
still to do, at each stage of the task and for functions in `task.rest` or not (`FnOK`); of a call
instance of the engine that it is noted in the list until it has got its category (`EngineOK`); of the program that
it calls only functions whose frames are final (`ProgramOK`); of a bound call that its module passed
validation, after which nothing is added to it (`BoundOK`), the reason why `Lookup` in the current module
finds the right function though names repeat. `FnKept`, `CallKept` and `HandleKept` say that a step that does not touch a
function's module keeps what is known of it.

### Only model-checked

* *Liveness* and ENABLED are out of the prover's reach: `ResetTerminates`, `PlacementEnds`,
  `LoneConsumerDrains`, `CallsEnd`.
* *Induction over data* is, too, so what the recursive code generators compute for every
  tree; and so are modules with RECURSIVE operators (`StatementSemantics`, `ExecutionModes`,
  `LLVMStatements`, `ExpressionSemantics`, `SymbolExtraction` and what uses them): `LLVMAgrees`,
  `BoilerplatesAgree`, `BlueprintsExist`, `OperandsInPlace`, `ValidationIsExact`, `ModesAgree`,
  `ObjectsAreDestroyed`, and the properties of `library` and `queries`.
* Exceptions from inner calls of the debug interpreter: `ContextIsKept` is false with them (`calls_throw`), and
  proved without.
* The streams of the queue (`IndicesAgree`, `BlocksAccountedFor` and `ImplementsAbstractions` as far as they
  are about them) and the engine: see the plan.

## Abstractions

* *Data.* Values are names, or small integers where modes are compared; strings,
  formatting and logging are left out, but where they are the subject (the parser of
  names, the prototypes of headers), as sequences of tokens.
* *The queue* of the pool is a set (see above). The queue itself is modelled access by
  access with sequentially consistent memory: what its memory orders allow beyond this is
  not. Its list of producers is fixed in a setting. Left out, because the program never
  calls them: explicit producers and tokens, bulk operations, swap and move, the blocking
  queue.
* *Expressions.* The arithmetic of floating point numbers is left out (it is the same
  instruction in each mode), as is `m_fiPrediction`, which nothing sets. There are no product
  of two `uint16_t` and no literal offset of 2^31 and more among the inputs.
* *C++ functions* called by generated code do anything that the C++ rules allow:
  call back, catch, throw, return.
* *Threads.* Only the pool and the queue are shared, and the packs of a boilerplate
  build. All else runs on one thread, as in the code,
  where every other piece of state is thread-local or of one module.
* *`DebugInterpCalls`* stops at the first undefined behavior (`halted`). The run
  `calls` lets exceptions out of the outermost activation and of C++ functions it
  calls only (`MaxThrowDepth = 1`): there the code works, and `calls_throw` shows
  that one activation deeper it does not.
* *`FICalls`* with `DestructorsCallBack = FALSE`: no destructor that runs because
  of an exception calls a generated function. The code asserts it
  (`pochivm_function_pointer.h:91`). With `TRUE` TLC finds `AssertionsHold`
  violated.
* *LLVM mode* constructs exceptions in place. A function with code behind a throw (see below) is
  emitted, with the assertion that fails, and not executed; nor is one without any code in FastInterp mode.
* *The engine* does not follow the memory of the program after `Reset`.
* *`ModuleLifecycle`*: the error context has no reset; a program that a thread leaves
  mapped when it ends is not followed.
* *Builds.* A file is the version of what it was made from. A failing command and an
  interruption leave the same files. Edits may come during a build of boilerplates, where no file is set
  back to what it was; in the runtime library edits come between builds and may set files back, to
  contents, not to times. The tools only get newer.
  Not tracked: a change of options of `llc`, of the builder itself, and aliases.
* *Boilerplates.* Hashes are modulo 12, there is one primitive type, addresses are
  integers that do not wrap at 32 bits, a chain of evictions is limited by the table instead
  of by 1000. The three part files of a template are written in one step.
  Symbols that vanish by an edit between the two parses, and boilerplates with one address,
  abort the build and are left out.
* *Wrappers.* Functions of up to two parameters; no array, vector or function types, no rvalue
  references, no varargs, which registration rejects at compile time. How clang passes a
  class (in registers, in memory) is external.
* *Queries.* The bytes of a row and `QueryExecutionTempAllocator` are left out; a sort is any
  order that the comparison allows. Hash tables and lists are smaller than those
  of the code (4 slots and a threshold of 2 for 32 and 12, lists of 2 for 8).

## Disagreements met while modelling

Two have a run (above, and under "findings" in `PROJECT.json`). The others are
modelled as the code does, or excluded by name, without a run of their own:

* *FastInterp expressions.* A `const double&` parameter of a C++ function, bound to an rvalue, is
  read from an integer register (`function_proto_fastinterp.cpp:395`). `v = a / 0` and
  `v = a % 0` with a literal zero select a specialisation that does not exist
  (`common_expr_fastinterp.cpp:194`; arithmetic outside of assignments is careful
  about this). Both are left out of the inputs.
* *LLVM expressions.* Comparisons use the predicates that are true when an operand is
  NaN (`arith_expr_llvm.cpp:135`), where C++ and the interpreters say false. The rvalue
  of a `const bool&` parameter gets memory of type `i1`, which `create_store_helper` refuses
  (`common_expr_llvm.cpp:158`). The smallest `int8_t` divided by -1 is defined in C++, by promotion,
  and not in LLVM (`arith_expr.h:34`). All three are among the inputs, and `LLVMAgrees` says that
  the modes differ in these cases and in no others.
* *Statements.* A function that generates no code passes validation and fails the assertion that
  the body is not empty in FastInterp mode (`function_proto_fastinterp.cpp:566`). Code behind a throw
  passes validation; LLVM mode emits it into the dummy block, where `function_proto_llvm.cpp:163` asserts
  that nothing is. Where control falls off the end of a function that returns a value, the interpreter
  asserts (`function_proto.h:268`), FastInterp mode traps, and LLVM mode returns zero to the caller, with which the program goes on
  (`function_proto_llvm.cpp:137`). `ValidationIsExact` and `ModesAgree` say that exactly these functions
  fail, and that the modes differ at this event and no other.
* *Calls.* In debug-interp mode `noexcept` is enforced where C++ calls: the host, and callbacks
  through a pointer of a noexcept type (`pochivm_function_pointer.h:253`). It is not between
  generated functions (`function_proto.h:797`), although `test_call_cpp_func.cpp:5319` says that
  `std::terminate` is called; nor where a pointer's type does not say that its function is noexcept.
  A callback to a function without parameters reads the type of parameter 0
  (`pochivm_function_pointer.cpp:32`): `DebugInterpCalls` halts there. A destructor that runs
  because of an exception cannot call generated code (`pochivm_function_pointer.h:91`).
* *Modules.* When `mmap` or `mprotect` fails, `Materialize` returns null and its caller uses
  the result (`function_proto_fastinterp.cpp:641`): the state "null dereference"
  of `BoilerplateEngine`. The destructor snippet of a variable is cached in its node
  (`ast_variable_fastinterp.cpp:30`), so a module may be prepared only once; the
  rule is an assertion of test builds. A handle of FastInterp mode to a function of the
  module before leads to memory that is unmapped.
* *Runtime library.* The checksums are updated before `libruntime.a` is made
  (`build_lib_wrapper.cpp:188`): a build interrupted in between leaves an old library that the
  next build takes for new. A source that is edited, half built and set back is taken
  for unchanged, with the files of the edit (`:113`); it may then stop at a function that is in the
  list of symbols and not in the bitcode (`update_symbol_matches.cpp:252`). Another bitcode is not dumped again when
  only the registration changes, from which it has its type names (`:120`, against the comment
  at `:92`). `BuildsAreCurrent` holds but for these three, each named by a variable that follows the
  history of the builds (`halfBuilt`, `unarchived`, `renamed`), and the run meets all of them: without any of the
  exceptions it is violated. A name without template arguments that ends in `>`
  (`operator>`, `operator>>`, a conversion to a template) is taken for one that has them
  (`dump_symbols.cpp:222`).
* *Boilerplates.* The addend of a thread-local symbol's relocation is dropped
  (`build_fast_interp_lib.cpp:1332`); the inputs have addend 0.
* *Queries.* `s != ""` is always true (`query_plan_ast.hpp:104`); the inputs have no empty
  literal.

## Not modelled

What LLVM does with the IR (optimization, compilation): it is a library. The rest of the API
layer (calls of registered functions, builders of statements: templates over argument
lists, decided when the host is compiled). In reflection, operators
defined out of line, exception types, and the printing of type names. Of the generated
headers, all but prototypes and wrappers. The allocator and the dump reader of the mini database,
the fixtures of the runtime, the tests and the vendored test framework: pure input and output, or
statements about the code. The parts of the vendored queue the program never calls.
`PROJECT.json` names each with its sources.

## Plan

Done, in this order: pool and its proofs; arena; stack frame; expressions; scoped
variables, statements and modes; calls; engine; queue; LLVM mode; frames, categories and
pointers with their proofs; modules; runtime library; values of expressions; boilerplate
library; queries; wrappers and verifier; proofs of the arenas, of calls and
exceptions in both interpreters, of the FastInterp frame, of the module lifecycle, of the pool of blocks, of
the hash table of producers and of function pointers.

To model next:

1. The pool on the queue, as one specification, so that the set of the pool is an
   instance of the refinement `ImplementsAbstractions` instead of a promise.
2. The weak memory orders of the queue's free list.
3. The printing of type names, and the parser of dumped symbols that reads them.

To prove next:

1. `ConcurrentQueue`: `BlocksAccountedFor`, that a block has one place. The refinement of
   `QueueStreams` needs in addition that the two dequeue counters never fall behind the index.
2. `BoilerplateEngine`: that the regions tile and the copy follows the placeholders, for any instances.

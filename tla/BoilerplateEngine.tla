------------------------- MODULE BoilerplateEngine -------------------------
(***************************************************************************)
(* The copy-and-patch engine of FastInterp mode: FastInterpCodegenEngine   *)
(* and FastInterpBoilerplateInstance (fastinterp_codegen_helper.h, .hpp),  *)
(* the copying of a boilerplate (fastinterp_helper.h), the rewriting of    *)
(* jumps, and AstModule::PrepareForFastInterp, which uses the engine.      *)
(*                                                                         *)
(* Instances of boilerplates are made and linked through placeholders.     *)
(* Materialize orders them so that as many tail calls as possible become   *)
(* fall-throughs, and copies them to executable memory.  It is one         *)
(* function of the code, run by one thread; its loops are actions here.    *)
(*                                                                         *)
(* A blueprint is the sequence of its instructions; the bytes between      *)
(* those that name something are one "body".                               *)
(***************************************************************************)
EXTENDS Integers, Sequences, SequencesExt, FiniteSets, FiniteSetsExt

CONSTANTS BluePrints,     \* the boilerplates that are instantiated
          CdeclInterface, \* the boilerplate that wraps functions for C++
          Functions,      \* the generated functions
          Alignments,     \* the log2 of alignments asked for
          MaxInstances,   \* a bound on the number of instances
          BaseAddress     \* where mmap maps the program

Ops == {"body", "call", "jcc", "jmp", "value", "ret"}

ASSUME BluePrintsAssumption ==
    \A bp \in BluePrints \cup {CdeclInterface} :
       bp # <<>> /\ \A k \in DOMAIN bp : bp[k].op \in Ops /\ bp[k].len \in Nat \ {0} /\ bp[k].ord \in Nat
ASSUME LayoutAssumption ==
    Alignments \subseteq 0..6 /\ BaseAddress \in Nat /\ BaseAddress % 4096 = 0 /\ MaxInstances \in Nat

VARIABLES insts,             \* m_allBoilerplateInstances
          entryPoint,        \* m_functionEntryPoint: the instance and the wrapper of a function
          entryPlaceholders, \* m_boilerplateFnEntryPointPlaceholders
          fnPtrFixes,        \* m_fastInterpFnPtrFixList
          pc,                \* where Materialize is
          pass, index,       \* its loop over the instances
          current,           \* the instance of the chain to place, or NoInst
          addr, padding,     \* of the instances that have been placed
          strip,             \* the instances whose last tail call is removed
          length,            \* codeSectionLength
          memory,            \* the instructions written to the mapping
          mapped,            \* the mapping exists
          program,           \* the program that was made: its entry points, or none
          prepared           \* what PrepareForFastInterp has come to

engine == <<insts, entryPoint, entryPlaceholders, fnPtrFixes>>
layout == <<pass, index, current, addr, padding, strip, length>>
output == <<memory, mapped, program, prepared>>
vars   == <<engine, pc, layout, output>>

NoInst    == 0
NoOrd     == -1
NoProgram == {}

-----------------------------------------------------------------------------
(* Blueprints                                                              *)

Branches == {"call", "jcc", "jmp"}
OffsetOf(bp, k) == FoldLeft(LAMBDA n, instr : n + instr.len, 0, SubSeq(bp, 1, k - 1))
CodeLength(bp) == OffsetOf(bp, Len(bp) + 1)
UsedPlaceholders(bp) == {bp[k].ord : k \in {j \in DOMAIN bp : bp[j].op \in Branches}}
LastInstructionTailCallOrd(bp) == IF Last(bp).op = "jmp" THEN Last(bp).ord ELSE NoOrd
JmpLength == 5

Insts == 1..Len(insts)
Extend(f, x, y) == [z \in DOMAIN f \cup {x} |-> IF z = x THEN y ELSE f[z]]
Linked(inst) == DOMAIN inst.fixups

-----------------------------------------------------------------------------
(* Building                                                                *)

NewInstance(bp) == [bp |-> bp, align |-> 0, fixups |-> <<>>, litc |-> NoInst, isContinuation |-> FALSE, value |-> 0]

\* PopulateBoilerplateFnPtrPlaceholder: the last tail call of an instance is
\* remembered on both sides.
Link(is, i, ord, j) ==
    LET linked == [is EXCEPT ![i].fixups = Extend(@, ord, j)]
    IN IF ord = LastInstructionTailCallOrd(is[i].bp)
       THEN [[linked EXCEPT ![i].litc = j] EXCEPT ![j].isContinuation = TRUE]
       ELSE linked

Pending == {<<entryPlaceholders[n].inst, entryPlaceholders[n].ord>> : n \in DOMAIN entryPlaceholders}
Free(i, ord) == /\ ord \in UsedPlaceholders(insts[i].bp) \ Linked(insts[i])
                /\ <<i, ord>> \notin Pending

InstantiateBoilerplate(bp) ==
    /\ pc = "building" /\ Len(insts) < MaxInstances
    /\ insts' = Append(insts, NewInstance(bp))
    /\ UNCHANGED <<entryPoint, entryPlaceholders, fnPtrFixes, pc, layout, output>>

PopulateBoilerplateFnPtrPlaceholder(i, ord, j) ==
    /\ pc = "building" /\ Free(i, ord)
    /\ insts' = Link(insts, i, ord, j)
    /\ UNCHANGED <<entryPoint, entryPlaceholders, fnPtrFixes, pc, layout, output>>

PopulateAsFunctionEntryPoint(i, ord, fn) ==
    /\ pc = "building" /\ Free(i, ord)
    /\ entryPlaceholders' = Append(entryPlaceholders, [inst |-> i, ord |-> ord, fn |-> fn])
    /\ UNCHANGED <<insts, entryPoint, fnPtrFixes, pc, layout, output>>

SetAlignmentLog2(i, align) ==
    /\ pc = "building"
    /\ insts' = [insts EXCEPT ![i].align = align]
    /\ UNCHANGED <<entryPoint, entryPlaceholders, fnPtrFixes, pc, layout, output>>

\* Only a blueprint with the same placeholders may take the place of another,
\* and boilerplates that are alike end alike.
ReplaceBluePrint(i, bp) ==
    /\ pc = "building" /\ UsedPlaceholders(bp) = UsedPlaceholders(insts[i].bp)
    /\ LastInstructionTailCallOrd(bp) = LastInstructionTailCallOrd(insts[i].bp)
    /\ insts' = [insts EXCEPT ![i].bp = bp]
    /\ UNCHANGED <<entryPoint, entryPlaceholders, fnPtrFixes, pc, layout, output>>

RegisterGeneratedFunctionEntryPoint(fn, i) ==
    /\ pc = "building" /\ fn \notin DOMAIN entryPoint /\ Len(insts) < MaxInstances
    /\ LET wrapper == Len(insts) + 1
       IN /\ insts' = Link(Append(insts, NewInstance(CdeclInterface)), wrapper, 0, i)
          /\ entryPoint' = Extend(entryPoint, fn, [inst |-> i, wrapper |-> wrapper])
    /\ UNCHANGED <<entryPlaceholders, fnPtrFixes, pc, layout, output>>

AppendFnPtrFixList(fn, i) ==
    /\ pc = "building" /\ \E k \in DOMAIN insts[i].bp : insts[i].bp[k].op = "value"
    /\ \A n \in DOMAIN fnPtrFixes : fnPtrFixes[n].inst # i
    /\ fnPtrFixes' = Append(fnPtrFixes, [inst |-> i, fn |-> fn])
    /\ UNCHANGED <<insts, entryPoint, entryPlaceholders, pc, layout, output>>

-----------------------------------------------------------------------------
(* Materialize, phase 1                                                    *)

\* All placeholders are populated, and the functions they name exist.
Complete ==
    /\ \A i \in Insts : \A ord \in UsedPlaceholders(insts[i].bp) : ~Free(i, ord)
    /\ {entryPlaceholders[n].fn : n \in DOMAIN entryPlaceholders}
         \cup {fnPtrFixes[n].fn : n \in DOMAIN fnPtrFixes} \subseteq DOMAIN entryPoint

\* The calls between functions go to the instance, not to its wrapper.
PopulateFunctionPlaceholders ==
    /\ pc = "building" /\ Complete /\ insts # <<>>
    /\ insts' = FoldLeft(LAMBDA is, p : Link(is, p.inst, p.ord, entryPoint[p.fn].inst), insts, entryPlaceholders)
    /\ pc' = "place"
    /\ UNCHANGED <<entryPoint, entryPlaceholders, fnPtrFixes, layout, output>>

-----------------------------------------------------------------------------
(* Phase 2: placement                                                      *)

IsPlaced(i) == i \in DOMAIN addr

\* mutant: chains start anywhere in the first pass
StartsChainAnywhere(i) == ~IsPlaced(i)

\* In the first pass only an instance without inbound edge; what it leaves
\* are loops.
StartsChain(i) == ~IsPlaced(i) /\ (pass = 0 => ~insts[i].isContinuation)

SkipInstance ==
    /\ pc = "place" /\ current = NoInst /\ index \in Insts /\ ~StartsChain(index)
    /\ index' = index + 1
    /\ UNCHANGED <<engine, pc, pass, current, addr, padding, strip, length, output>>

\* The beginning of a code sequence is aligned to 16 bytes.
StartChain ==
    /\ pc = "place" /\ current = NoInst /\ index \in Insts /\ StartsChain(index)
    /\ insts' = [insts EXCEPT ![index].align = 4]
    /\ current' = index /\ index' = index + 1
    /\ UNCHANGED <<entryPoint, entryPlaceholders, fnPtrFixes, pc, pass, addr, padding, strip, length, output>>

PaddingAt(n, align) == LET rest == n % 2^align IN IF rest = 0 THEN 0 ELSE 2^align - rest

\* mutant: the next instance of the chain may have been placed
FollowsEvenPlaced(i) == insts[i].litc # NoInst
\* The tail call of an instance is removed when its target can come next.
Follows(i) == insts[i].litc # NoInst /\ insts[i].litc \notin DOMAIN addr \cup {i}

PlaceCurrent ==
    /\ pc = "place" /\ current # NoInst
    /\ LET pad   == PaddingAt(length, insts[current].align)
           start == length + pad
           end   == start + CodeLength(insts[current].bp)
       IN /\ addr' = Extend(addr, current, start)
          /\ padding' = Extend(padding, current, pad)
          /\ IF Follows(current)
             THEN /\ strip' = strip \cup {current}
                  /\ current' = insts[current].litc
                  /\ length' = end - JmpLength
             ELSE strip' = strip /\ current' = NoInst /\ length' = end
    /\ UNCHANGED <<engine, pc, pass, index, output>>

\* mutant: the second pass is like the first
EndPassRepeats ==
    /\ pc = "place" /\ current = NoInst /\ index \notin Insts
    /\ IF DOMAIN addr = Insts THEN pc' = "mmap" /\ UNCHANGED index ELSE index' = 1 /\ UNCHANGED pc
    /\ UNCHANGED <<engine, pass, current, addr, padding, strip, length, output>>

\* The second pass is only made when the first has left something.
EndPass ==
    /\ pc = "place" /\ current = NoInst /\ index \notin Insts
    /\ IF pass = 1 \/ DOMAIN addr = Insts
       THEN pc' = "mmap" /\ UNCHANGED <<pass, index>>
       ELSE pass' = 1 /\ index' = 1 /\ UNCHANGED pc
    /\ UNCHANGED <<engine, current, addr, padding, strip, length, output>>

-----------------------------------------------------------------------------
(* Phase 3: the code                                                       *)

AddressOf(i) == BaseAddress + addr[i]

Instr(at, op, len, arg) == [at |-> at, op |-> op, len |-> len, arg |-> arg]
\* The longest recommended NOP instruction has 9 bytes.
Nops(at, n) == {Instr(at + 9 * k, "nop", IF n - 9 * k < 9 THEN n - 9 * k ELSE 9, 0) : k \in {j \in 0..n : 9 * j < n}}

FitsInByte(n) == n \in -128..127
\* What the operand of 8 bits holds.
Int8(n) == ((n + 128) % 256) - 128

\* x86_64_try_rewrite_jmp_instruction and ..._jcc_instruction: an operand of
\* 32 bits becomes one of 8 bits if it fits, counted from where the shorter
\* instruction ends.
RewriteJmp(at, disp) ==
    IF FitsInByte(disp + 3)
    THEN {Instr(at, "jmp", 2, Int8(disp + 3))} \cup Nops(at + 2, 3)
    ELSE {Instr(at, "jmp", 5, disp)}
RewriteJcc(at, disp) ==
    IF FitsInByte(disp + 4)
    THEN {Instr(at, "jcc", 2, Int8(disp + 4))} \cup Nops(at + 2, 4)
    ELSE {Instr(at, "jcc", 6, disp)}

\* What one instruction of a blueprint becomes, its operand filled in.
Fixup(inst, at, instr) ==
    LET disp == AddressOf(inst.fixups[instr.ord]) - (at + instr.len)
    IN CASE instr.op = "jmp" -> RewriteJmp(at, disp)
         [] instr.op = "jcc" -> RewriteJcc(at, disp)
         [] instr.op = "call" -> {Instr(at, "call", instr.len, disp)}
         [] instr.op = "value" -> {Instr(at, "value", instr.len, inst.value)}
         [] OTHER -> {Instr(at, instr.op, instr.len, 0)}

\* The padding before the instance is filled; then its code, without the
\* last tail call if that was removed.
MaterializeCode(is, i) ==
    LET bp == is[i].bp
        n  == IF i \in strip THEN Len(bp) - 1 ELSE Len(bp)
    IN Nops(AddressOf(i) - padding[i], padding[i])
         \cup UNION {Fixup(is[i], AddressOf(i) + OffsetOf(bp, k), bp[k]) : k \in 1..n}

\* mutant: the entry points are those generated code calls
EntryPointsPastWrappers == [fn \in DOMAIN entryPoint |-> AddressOf(entryPoint[fn].inst)]

EntryPointMap == [fn \in DOMAIN entryPoint |-> AddressOf(entryPoint[fn].wrapper)]

\* mutant: a pointer leads to the instance C++ code cannot call
PointerPastWrapper(fn) == AddressOf(entryPoint[fn].inst)

\* C++ code calls through the wrapper, by whichever pointer.  What the control
\* value says besides the address is module GeneratedFunctionPointers.
PointerValue(fn) == EntryPointMap[fn]

Mmap ==
    /\ pc = "mmap"
    /\ mapped' = TRUE
    /\ pc' = "materialize"
    /\ UNCHANGED <<engine, layout, memory, program, prepared>>

MmapFails ==
    /\ pc = "mmap"
    /\ pc' = "done"
    /\ UNCHANGED <<engine, layout, output>>

MaterializeInstances ==
    /\ pc = "materialize"
    /\ insts' = FoldLeft(LAMBDA is, f : [is EXCEPT ![f.inst].value = PointerValue(f.fn)], insts, fnPtrFixes)
    /\ memory' = UNION {MaterializeCode(insts', i) : i \in Insts}
    /\ pc' = "mprotect"
    /\ UNCHANGED <<entryPoint, entryPlaceholders, fnPtrFixes, layout, mapped, program, prepared>>

Mprotect ==
    /\ pc = "mprotect"
    /\ program' = {EntryPointMap}
    /\ pc' = "done"
    /\ UNCHANGED <<engine, layout, memory, mapped, prepared>>

MprotectFails ==
    /\ pc = "mprotect"
    /\ mapped' = FALSE /\ memory' = {}
    /\ pc' = "done"
    /\ UNCHANGED <<engine, layout, program, prepared>>

-----------------------------------------------------------------------------
(* The module                                                              *)

\* PrepareForFastInterp asks the program for the entry point of each function
\* of the module, all of which have one; it does not ask whether there is a
\* program.
SetFastInterpCppEntryPoints ==
    /\ pc = "done" /\ prepared = "no"
    /\ prepared' = IF program = NoProgram /\ entryPoint # <<>> THEN "null dereference" ELSE "yes"
    /\ UNCHANGED <<engine, pc, layout, memory, mapped, program>>

Init ==
    /\ insts = <<>> /\ entryPoint = <<>> /\ entryPlaceholders = <<>> /\ fnPtrFixes = <<>>
    /\ pc = "building"
    /\ pass = 0 /\ index = 1 /\ current = NoInst
    /\ addr = <<>> /\ padding = <<>> /\ strip = {} /\ length = 0
    /\ memory = {} /\ mapped = FALSE /\ program = NoProgram /\ prepared = "no"

\* Reset, for the next module.  The program of the last one is deleted only
\* when the next one has been made; the model does not follow it until then.
Reset ==
    /\ pc = "done" /\ prepared = "yes"
    /\ insts' = <<>> /\ entryPoint' = <<>> /\ entryPlaceholders' = <<>> /\ fnPtrFixes' = <<>>
    /\ pc' = "building"
    /\ pass' = 0 /\ index' = 1 /\ current' = NoInst
    /\ addr' = <<>> /\ padding' = <<>> /\ strip' = {} /\ length' = 0
    /\ memory' = {} /\ mapped' = FALSE /\ program' = NoProgram /\ prepared' = "no"

Build ==
    \/ \E bp \in BluePrints : InstantiateBoilerplate(bp)
    \/ \E i \in Insts :
         \/ \E ord \in UsedPlaceholders(insts[i].bp) :
              \/ \E j \in Insts : PopulateBoilerplateFnPtrPlaceholder(i, ord, j)
              \/ \E fn \in Functions : PopulateAsFunctionEntryPoint(i, ord, fn)
         \/ \E align \in Alignments : SetAlignmentLog2(i, align)
         \/ \E bp \in BluePrints : ReplaceBluePrint(i, bp)
         \/ \E fn \in Functions : RegisterGeneratedFunctionEntryPoint(fn, i) \/ AppendFnPtrFixList(fn, i)

Place == SkipInstance \/ StartChain \/ PlaceCurrent \/ EndPass

\* The null pointer was followed.
Crashed == prepared = "null dereference" /\ UNCHANGED vars

Next ==
    \/ Build
    \/ PopulateFunctionPlaceholders \/ Place
    \/ Mmap \/ MmapFails \/ MaterializeInstances \/ Mprotect \/ MprotectFails
    \/ SetFastInterpCppEntryPoints \/ Reset \/ Crashed

Spec == Init /\ [][Next]_vars
\* The loops of Materialize run until they end.
FairSpec == Spec /\ WF_vars(Place)

-----------------------------------------------------------------------------
(* Properties                                                              *)

InstanceOK(inst) ==
    /\ inst.bp \in BluePrints \cup {CdeclInterface}
    /\ inst.align \in 0..6
    /\ Linked(inst) \subseteq UsedPlaceholders(inst.bp)
    /\ inst.litc \in 0..Len(insts)

\* Typing; which instances have places, and what the loop is at.
TypeOK ==
    /\ \A i \in Insts : InstanceOK(insts[i])
    /\ \A fn \in DOMAIN entryPoint : entryPoint[fn].inst \in Insts /\ entryPoint[fn].wrapper \in Insts
    /\ pc \in {"building", "place", "mmap", "materialize", "mprotect", "done"}
    /\ current \in {NoInst} \cup (Insts \ DOMAIN addr)
    /\ DOMAIN addr \subseteq Insts /\ DOMAIN padding = DOMAIN addr /\ strip \subseteq DOMAIN addr
    /\ length \in Nat
    /\ mapped \in BOOLEAN

\* The bytes of an instance and of the padding before it.
Begin(i) == addr[i] - padding[i]
End(i) == addr[i] + CodeLength(insts[i].bp) - (IF i \in strip THEN JmpLength ELSE 0)

\* The instances that have been placed, with the padding before them, share
\* no byte and leave none out: what one of them writes no other one writes,
\* whatever the order they are written in.
RegionsTile ==
    /\ \A i \in DOMAIN addr : 0 <= Begin(i) /\ Begin(i) <= addr[i] /\ addr[i] <= End(i) /\ End(i) <= length
    /\ \A i, j \in DOMAIN addr : i = j \/ End(i) <= Begin(j) \/ End(j) <= Begin(i)
    /\ FoldSet(LAMBDA i, n : n + End(i) - Begin(i), 0, DOMAIN addr) = length

\* Every instance gets one place, at an address with the alignment it asked
\* for; the code that follows a removed tail call is the code of its target,
\* or padding before that.
PlacesAreRight ==
    /\ pc \notin {"building", "place"} => DOMAIN addr = Insts
    /\ \A i \in DOMAIN addr : addr[i] % 2^insts[i].align = 0
    /\ \A i \in strip : LET j == insts[i].litc IN IF j \in DOMAIN addr THEN Begin(j) = End(i) ELSE j = current /\ length = End(i)

\* The most neighbors with an edge between them that any order of the
\* instances has.
MostNeighbors ==
    LET neighbors(order) == {k \in 1..Len(insts) - 1 : insts[order[k]].litc = order[k + 1]}
    IN Max({Cardinality(neighbors(order)) : order \in {f \in [Insts -> Insts] : Cardinality({f[k] : k \in Insts}) = Len(insts)}})

\* No order of the instances would remove more tail calls than the greedy
\* one (fastinterp_codegen_helper.hpp:58).
GreedyIsOptimal == pc = "mmap" => Cardinality(strip) = MostNeighbors

\* Reading the memory from an address: where the first instruction at or
\* after it is that is no NOP, and the instruction.
SkipNops == LET skip[a \in BaseAddress..BaseAddress + length] ==
                  IF \E w \in memory : w.at = a /\ w.op = "nop"
                  THEN skip[a + (CHOOSE w \in memory : w.at = a /\ w.op = "nop").len]
                  ELSE a
            IN skip
At(a) == {w \in memory : w.at = a /\ w.op # "nop"}

\* What the processor does at p is the k-th instruction of instance i, with
\* the operand the placeholders ask for.
Executes(i, k, p) ==
    LET instr == insts[i].bp[k]
    IN IF i \in strip /\ k = Len(insts[i].bp)
       THEN p = SkipNops[AddressOf(insts[i].fixups[instr.ord])]
       ELSE \E w \in At(p) :
              /\ w.op = instr.op
              /\ instr.op \in Branches => p + w.len + w.arg = AddressOf(insts[i].fixups[instr.ord])
              /\ instr.op = "value" => w.arg = insts[i].value

\* Where the first n instructions are found that are met from address a on.
Meets(a, n) ==
    LET place[k \in 1..n] == IF k = 1 THEN SkipNops[a]
                             ELSE SkipNops[place[k - 1] + (CHOOSE w \in At(place[k - 1]) : TRUE).len]
    IN place

\* Execution of the memory, from the address of an instance, is execution of
\* its blueprint: it meets the same instructions, and every branch, short,
\* long or removed, arrives at the instance its placeholder names.
CodeFollowsPlaceholders ==
    pc = "mprotect" =>
        \A i \in Insts :
            LET code  == insts[i].bp
                place == Meets(AddressOf(i), Len(code))
            IN \A k \in 1..Len(code) : (\A j \in 1..k - 1 : At(place[j]) # {}) /\ Executes(i, k, place[k])

\* What is found in the memory at address p is the code C++ can call, and the
\* call in it arrives at instance i.
LeadsThroughWrapper(p, i) ==
    LET place == Meets(p, Len(CdeclInterface))
    IN /\ p \in DOMAIN SkipNops
       /\ \A k \in DOMAIN CdeclInterface :
            \E w \in At(place[k]) :
              /\ w.op = CdeclInterface[k].op /\ w.len = CdeclInterface[k].len
              /\ w.op = "call" => place[k] + w.len + w.arg = AddressOf(i)

\* The addresses in the code of instance i, as they are in the memory.
ValuesIn(i) ==
    LET place == Meets(AddressOf(i), Len(insts[i].bp))
    IN UNION {{w.arg : w \in At(place[k])} : k \in {j \in DOMAIN insts[i].bp : insts[i].bp[j].op = "value"}}

\* Whatever address C++ code reaches a function by, the entry point the
\* program reports or a pointer that generated code has made, there is a
\* wrapper with the C++ calling convention in the memory at that address, and
\* it calls the code that generated functions call: constants that were
\* patched into the code lead through the code that was placed and patched
\* (fastinterp_codegen_helper.hpp:148-172).
PointersAreEntryPoints ==
    pc = "done" /\ program # NoProgram =>
        /\ \A entries \in program :
              /\ DOMAIN entries = DOMAIN entryPoint
              /\ \A fn \in DOMAIN entries : LeadsThroughWrapper(entries[fn], entryPoint[fn].inst)
        /\ \A n \in DOMAIN fnPtrFixes : \A p \in ValuesIn(fnPtrFixes[n].inst) :
              LeadsThroughWrapper(p, entryPoint[fnPtrFixes[n].fn].inst)

\* Placement ends, whatever loops the tail calls make.
PlacementEnds == pc = "place" ~> pc = "mmap"
=============================================================================

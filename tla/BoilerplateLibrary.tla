------------------------- MODULE BoilerplateLibrary -------------------------
(***************************************************************************)
(* How the boilerplates of FastInterp are made at build time and found at  *)
(* run time (build_fast_interp_lib.cpp and the headers around it).         *)
(*                                                                         *)
(* Selection: a template with metavars is enumerated, and a cuckoo hash    *)
(* table from the values of the metavars to the blueprints is generated.   *)
(*                                                                         *)
(* Copying: the object code of a boilerplate becomes a blueprint, contents *)
(* and lists of what to fix, from which the engine makes its copies.       *)
(*                                                                         *)
(* Building: threads work on the bitcode files that changed; the results   *)
(* are in files, from which the two generated headers are put together.    *)
(***************************************************************************)
EXTENDS Integers, Sequences, FiniteSets, SequencesExt, FiniteSetsExt

CONSTANTS
    NumPrimitives,  \* the primitive types
    PtrInc,         \* x_pointer_typeid_inc
    HashMod,        \* 2^32
    Templates,      \* what is enumerated: metavars and conditions
    Symbols,        \* the placeholders that occur in object code
    MaxInstructions,
    Destinations,   \* where copies are placed
    BcFiles,        \* the bitcode files, in their order
    Workers,        \* the threads of the builder
    Content,        \* what a bitcode file may contain, numbered as it is written
    Packs,          \* the packs that each content of each file registers
    MaxEdits, MaxTools, MaxFailures,    \* bounds of a run
    None

File == ToSet(BcFiles)
Self == "build_fast_interp_lib"

ConstantsOK ==
    /\ NumPrimitives \in Nat \ {0} /\ PtrInc > NumPrimitives /\ HashMod > 2 * PtrInc
    /\ IsInjective(BcFiles) /\ Workers # {} /\ Content \subseteq Nat /\ 0 \in Content
    /\ \A t \in Templates : Len(t.metavars) > 0 /\ Len(t.metavars) \in DOMAIN t.cond

VARIABLES
    stage,
    input,      \* a template, or code to be copied
    fns,        \* the two hash functions
    made,       \* the hash table, or the copy
    bc, tool,   \* contents of the bitcode files, version of the builder
    md5,        \* <file>.md5
    md5tmp,     \* <file>.md5.tmp, made at the start of a build
    todo,       \* the queue of tasks
    at,         \* the work of each thread
    packs,      \* g_allBoilerplatePacks
    parts,      \* the two parts of headers and the source file made for a file
    fwdHeader, libHeader,   \* the generated headers: a part for every file
    edits, failures

pure == <<input, fns, made>>
build == <<bc, tool, md5, md5tmp, todo, at, packs, parts, fwdHeader, libHeader, edits, failures>>
vars == <<stage, pure, build>>

-----------------------------------------------------------------------------
(* Enumeration.  A metavar is a type, a Boolean or an enum; two enums give *)
(* the number of opaque parameters of the function.                        *)

Void == 0
VoidPtrPtr == 2 * PtrInc
EnumeratedTypes == 0 .. NumPrimitives \cup {PtrInc + t : t \in 0 .. NumPrimitives} \cup {VoidPtrPtr}

Values(metavar) ==
    CASE metavar.kind = "type" -> EnumeratedTypes
      [] metavar.kind = "bool" -> {0, 1}
      [] OTHER -> 0 .. metavar.bound - 1

\* What CreateMetaVarList insists on: types come first, and the numbers of
\* opaque parameters are given at most once.
IsSane(metavars) ==
    /\ \A m, n \in DOMAIN metavars :
        m < n /\ metavars[n].kind = "type" => metavars[m].kind = "type"
    /\ \A k \in {"ints", "floats"} : Cardinality({m \in DOMAIN metavars : metavars[m].kind = k}) <= 1

\* The condition of a template may exist for a prefix of the values; where it
\* does not, the prefix is accepted.
PrefixHolds(t, v) == Len(v) \in DOMAIN t.cond => v \in t.cond[Len(v)]

\* The values enumerated for the first n metavars.
Partial(t) ==
    LET partial[n \in 0 .. Len(t.metavars)] ==
            IF n = 0 THEN {<<>>}
            ELSE {Append(v, x) : v \in {u \in partial[n - 1] : PrefixHolds(t, u)}, x \in Values(t.metavars[n])}
    IN partial

\* Values are enumerated in increasing order, the last metavar fastest.
Precedes(u, v) == \E n \in DOMAIN u : u[n] < v[n] /\ \A m \in 1 .. n - 1 : u[m] = v[m]

ValueOf(t, kind, v) ==
    LET ms == {m \in DOMAIN v : t.metavars[m].kind = kind}
    IN IF ms = {} THEN 0 ELSE v[CHOOSE m \in ms : TRUE]

\* f of the template, with its opaque parameters.
UserFn(t, v) == [values |-> v, ints |-> ValueOf(t, "ints", v), floats |-> ValueOf(t, "floats", v)]

Materialize(t) ==
    LET accepted == {v \in Partial(t)[Len(t.metavars)] : PrefixHolds(t, v)}
    IN SetToSortSeq(accepted, Precedes)

(* The types of a program, with layers of pointers, and the types they are *)
(* selected by.                                                            *)

CppClass == NumPrimitives + 1
Types == [base : 0 .. CppClass, ptrs : 0 .. 3]
IsValue(t) == t.base # CppClass \/ t.ptrs > 0

TypeIdOf(t) == t.base + t.ptrs * PtrInc
GetDefaultFastInterpTypeId(t) ==
    CASE t.ptrs >= 2 -> VoidPtrPtr
      [] t.ptrs = 1 /\ t.base = CppClass -> Void + PtrInc
      [] OTHER -> TypeIdOf(t)
GetOneLevelPtrFastInterpTypeId(t) == IF t.ptrs >= 1 THEN Void + PtrInc ELSE TypeIdOf(t)

-----------------------------------------------------------------------------
(* The table.  Every value has two slots; the entry in one of them carries *)
(* the hash that belongs to the other as its fingerprint.                  *)

is_prime(x) == x > 1 /\ \A d \in 2 .. x - 1 : x % d # 0
htSize(n) ==
    LET x == (5 * n) \div 2
    IN IF x < 5 THEN 5 ELSE CHOOSE p \in x .. 2 * x : is_prime(p) /\ \A q \in x .. p - 1 : ~is_prime(q)

OddValues == {h \in 0 .. HashMod - 1 : h % 2 = 1}
HashFns(n) == [1 .. n -> OddValues]

NoFingerprint == HashMod - 1
ComputeHash(fn, key) == FoldLeft(LAMBDA h, n : (h + key[n] * fn[n]) % HashMod, 0, [n \in DOMAIN key |-> n])
MapToHashTableSlot(h, size) == (h * size) \div HashMod

Hashes(f, key) == <<ComputeHash(f[1], key), ComputeHash(f[2], key)>>
TwoSlots(f, key, size) == [k \in 1 .. 2 |-> MapToHashTableSlot(Hashes(f, key)[k], size)]

\* Where a value may be found, and under which fingerprint.
Places(f, key, size) ==
    LET h == Hashes(f, key)  p == TwoSlots(f, key, size)
    IN IF p[1] = p[2] THEN {<<p[1], h[2]>>} ELSE {<<p[1], h[2]>>, <<p[2], h[1]>>}

Collide(f, u, v, size) == Places(f, u, size) \cap Places(f, v, size) # {}

Usable(f, list, size) ==
    /\ \A n \in DOMAIN list : NoFingerprint \notin Range(Hashes(f, list[n]))
    /\ \A m, n \in DOMAIN list : m < n => ~Collide(f, list[m], list[n], size)

Empty == [item |-> None, fingerprint |-> NoFingerprint]
IsFree(ht, p) == ht[p].item = None

OtherSlot(f, key, size, p) == LET s == TwoSlots(f, key, size) IN s[1] + s[2] - p

\* The tables in which a slot has been made free by moving its entry, and the
\* entries in its way, to their other slots: one, or none.
TryDisplace(f, list, ht, slot) ==
    LET size == Cardinality(DOMAIN ht)
        path[k \in 0 .. size] ==
            IF k = 0 THEN slot
            ELSE LET p == path[k - 1]
                 IN IF IsFree(ht, p) THEN p ELSE OtherSlot(f, list[ht[p].item], size, p)
        ends == {k \in 0 .. size : IsFree(ht, path[k])}
    IN IF ends = {} THEN {}
       ELSE {[p \in DOMAIN ht |->
                IF \E k \in 1 .. Min(ends) : path[k] = p
                THEN ht[path[CHOOSE k \in 0 .. Min(ends) - 1 : path[k + 1] = p /\ path[k] # p]]
                ELSE IF p = slot THEN Empty ELSE ht[p]]}

Put(ht, p, n) == [ht EXCEPT ![p] = [item |-> n, fingerprint |-> NoFingerprint]]

\* The tables after the n-th value has been added: one, two if a slot has to be
\* chosen at random, or none.
Insert(f, list, ht, n) ==
    LET p == TwoSlots(f, list[n], Cardinality(DOMAIN ht))
    IN IF IsFree(ht, p[1]) THEN {Put(ht, p[1], n)}
       ELSE IF IsFree(ht, p[2]) THEN {Put(ht, p[2], n)}
       ELSE UNION {{Put(moved, p[k], n) : moved \in TryDisplace(f, list, ht, p[k])} : k \in 1 .. 2}

Fingerprint(f, key, p, size) ==
    IF TwoSlots(f, key, size)[1] = p THEN Hashes(f, key)[2] ELSE Hashes(f, key)[1]
WithFingerprints(f, list, ht) ==
    [p \in DOMAIN ht |->
        IF IsFree(ht, p) THEN Empty
        ELSE [ht[p] EXCEPT !.fingerprint = Fingerprint(f, list[ht[p].item], p, Cardinality(DOMAIN ht))]]

SelectedSlot(f, ht, key) ==
    LET size == Cardinality(DOMAIN ht)  h == Hashes(f, key)  p == TwoSlots(f, key, size)
    IN IF ht[p[1]].fingerprint = h[2] THEN p[1] ELSE p[2]
SelectBoilerplateBluePrint(f, ht, key) == ht[SelectedSlot(f, ht, key)].item

\* What SelectBoilerplateBluePrint asserts on its way.
SelectionAsserts(f, ht, key) ==
    LET size == Cardinality(DOMAIN ht)  h == Hashes(f, key)  p == TwoSlots(f, key, size)
    IN IF ht[p[1]].fingerprint = h[2]
       THEN p[1] = p[2] \/ ht[p[2]].fingerprint # h[1]
       ELSE ht[p[2]].fingerprint = h[1]

List == Materialize(input)
NoTable == [ht |-> None, next |-> 0]
SelectionInit ==
    /\ stage = "enumerate" /\ input \in Templates /\ fns = None /\ made = NoTable

\* GetCuckooHashTable draws functions until one of its attempts succeeds.
DrawHashFns ==
    /\ stage \in {"enumerate", "draw"} /\ IsSane(input.metavars)
    /\ LET list == List  n == Len(input.metavars)  size == htSize(Len(list)) IN
       /\ list # <<>>
       /\ fns' \in {f \in HashFns(n) \X HashFns(n) : Usable(f, list, size)}
       /\ made' = [ht |-> [p \in 0 .. size - 1 |-> Empty], next |-> 1]
    /\ stage' = "insert"
    /\ UNCHANGED <<input, build>>

InsertNext ==
    /\ stage = "insert" /\ made.next <= Len(List)
    /\ \E t \in Insert(fns, List, made.ht, made.next) :
        made' = [ht |-> t, next |-> made.next + 1]
    /\ UNCHANGED <<stage, input, fns, build>>

InsertFails ==
    /\ stage = "insert" /\ made.next <= Len(List)
    /\ LET p == TwoSlots(fns, List[made.next], Cardinality(DOMAIN made.ht)) IN
       /\ ~IsFree(made.ht, p[1]) /\ ~IsFree(made.ht, p[2])
       /\ \E k \in 1 .. 2 : TryDisplace(fns, List, made.ht, p[k]) = {}
    /\ stage' = "draw" /\ fns' = None /\ made' = NoTable
    /\ UNCHANGED <<input, build>>

FinishTable ==
    /\ stage = "insert" /\ made.next > Len(List)
    /\ made' = [made EXCEPT !.ht = WithFingerprints(fns, List, @)]
    /\ stage' = "table"
    /\ UNCHANGED <<input, fns, build>>

SelectionNext == DrawHashFns \/ InsertNext \/ InsertFails \/ FinishTable

-----------------------------------------------------------------------------
(* From object code to copies.  An instruction may refer to one of the     *)
(* placeholders: through a relocation of a type, with an addend, in a      *)
(* field at a place of its own.  Addresses and values are integers.        *)

\* Length, place and width of the field, and relocation of an instruction.
Shape(op) ==
    CASE op = "jmp"   -> [len |-> 5,  field |-> 1, width |-> 4, reloc |-> "PC32"]
      [] op = "jcc"   -> [len |-> 6,  field |-> 2, width |-> 4, reloc |-> "PC32"]
      [] op = "call"  -> [len |-> 5,  field |-> 1, width |-> 4, reloc |-> "PC32"]
      [] op = "imm32" -> [len |-> 7,  field |-> 3, width |-> 4, reloc |-> "32S"]
      [] op = "imm64" -> [len |-> 10, field |-> 2, width |-> 8, reloc |-> "64"]
      [] op = "tls"   -> [len |-> 9,  field |-> 5, width |-> 4, reloc |-> "TPOFF32"]
      [] op = "body"  -> [len |-> 3,  field |-> 0, width |-> 0, reloc |-> "none"]

LengthOf(code) == FoldLeft(LAMBDA n, i : n + Shape(i.op).len, 0, code)
OffsetOf(code, k) == LengthOf(SubSeq(code, 1, k - 1)) + Shape(code[k].op).field
Relocated(code) == {k \in DOMAIN code : Shape(code[k].op).reloc # "none"}

IsBoilerplate(sym) == sym.kind \in {"musttail", "notail"}

\* What the compiler may make of a reference to a placeholder: being marked is a
\* hint for tail calls, a prohibition for others.
MayBecome(kind) ==
    CASE kind = "musttail" -> {"jmp", "jcc", "call", "imm64"}
      [] kind = "notail" -> {"call", "imm64"}
      [] kind = "cpp" -> {"imm64"}
      [] kind = "data" -> {"imm32", "imm64"}
IsLast(code, k) == k = Len(code)
OfKind(code, kinds) == {k \in Relocated(code) : code[k].op # "tls" /\ code[k].sym.kind \in kinds}
Relative(code) == {k \in Relocated(code) : Shape(code[k].op).reloc = "PC32"}

\* The compiler has not made of a placeholder what the builder relies on.
IsUnexpected(code, k) ==
    LET i == code[k] IN
    CASE i.op = "tls" -> FALSE
      [] IsBoilerplate(i.sym) ->
            \/ Shape(i.op).reloc \notin {"PC32", "64"}
            \/ /\ Shape(i.op).reloc = "PC32"
               /\ IF i.sym.kind = "musttail"
                  THEN i.op = "call" \/ (IsLast(code, k) /\ i.op # "jmp")
                  ELSE i.op # "call"
      [] i.sym.kind = "cpp" -> Shape(i.op).reloc # "64"
      [] OTHER -> Shape(i.op).reloc \notin {"64", "32S"}

EndsInTailCall(code) ==
    code # <<>> /\ Last(code).op \in {"jmp", "jcc"} /\ Last(code).sym.kind = "musttail"

\* The builder gives up on a boilerplate.
Aborts(in) ==
    \/ \E k \in Relocated(in.code) : IsUnexpected(in.code, k)
    \/ EndsInTailCall(in.code) = in.noContinuation
    \/ in.appendUd2 /\ ~in.noContinuation

\* One more than the highest ordinal among the placeholders of some kinds.
HighestOrdinal(code, kinds) == Max({0} \cup {code[k].sym.ord + 1 : k \in OfKind(code, kinds)})
highestBPFPOrdinal(code) == HighestOrdinal(code, {"musttail", "notail"})
highestCFPOrdinal(code) == HighestOrdinal(code, {"cpp"})
highestU64Ordinal(code) == HighestOrdinal(code, {"data"})
\* Mutant: the pointers to C++ functions are not counted.
FirstOrdinalOfKindSkips(code, kind) ==
    CASE kind = "cpp" -> highestBPFPOrdinal(code)
      [] kind = "data" -> highestBPFPOrdinal(code)
      [] OTHER -> 0

\* The three kinds of placeholders share one array of values.
FirstOrdinalOfKind(code, kind) ==
    CASE kind = "cpp" -> highestBPFPOrdinal(code)
      [] kind = "data" -> highestBPFPOrdinal(code) + highestCFPOrdinal(code)
      [] OTHER -> 0

OrdinalIntoPlaceholderArray(code, sym) == FirstOrdinalOfKind(code, sym.kind) + sym.ord

Offsets(code, ks) == SetToSortSeq({OffsetOf(code, k) : k \in ks}, <)
Fixups(code, width) ==
    SetToSortSeq({[offset |-> OffsetOf(code, k), ordinal |-> OrdinalIntoPlaceholderArray(code, code[k].sym)] :
                    k \in {j \in OfKind(code, {"musttail", "notail", "cpp", "data"}) : Shape(code[j].op).width = width}},
                 LAMBDA x, y : x.offset < y.offset)

\* What the contents of a blueprint have in the field of a relocation.  (The
\* addend of a thread-local variable is dropped: boilerplates use its start.)
InitialField(code, k) ==
    CASE Shape(code[k].op).reloc = "PC32" -> code[k].addend - OffsetOf(code, k)
      [] Shape(code[k].op).reloc = "TPOFF32" -> 0
      [] OTHER -> code[k].addend

BluePrint(in) ==
    [contents |-> [o \in {OffsetOf(in.code, k) : k \in Relocated(in.code)} |->
                    InitialField(in.code, CHOOSE k \in Relocated(in.code) : OffsetOf(in.code, k) = o)],
     length |-> LengthOf(in.code) + (IF in.appendUd2 THEN 2 ELSE 0),
     endsInJmp |-> in.code # <<>> /\ Last(in.code).op = "jmp" /\ ~in.appendUd2,
     addr32 |-> Offsets(in.code, Relative(in.code)),
     symbol32 |-> Fixups(in.code, 4),
     symbol64 |-> Fixups(in.code, 8),
     jmp32 |-> Offsets(in.code, {k \in Relative(in.code) : in.code[k].op = "jmp"}),
     jcc32 |-> Offsets(in.code, {k \in Relative(in.code) : in.code[k].op = "jcc"}),
     tpoff32 |-> {OffsetOf(in.code, k) : k \in {j \in Relocated(in.code) : in.code[j].op = "tls"}},
     boilerplates |-> highestBPFPOrdinal(in.code),
     cpps |-> highestCFPOrdinal(in.code),
     constants |-> highestU64Ordinal(in.code),
     litc |-> IF EndsInTailCall(in.code) THEN Last(in.code).sym.ord ELSE -1]

\* What its constructor asserts.
BluePrintAsserts(bp) ==
    LET n == bp.boilerplates + bp.cpps + bp.constants IN
    /\ \A x \in Range(bp.addr32) : x + 4 <= bp.length
    /\ \A x \in Range(bp.symbol32) : x.offset + 4 <= bp.length /\ x.ordinal < n
    /\ \A x \in Range(bp.symbol64) : x.offset + 8 <= bp.length /\ x.ordinal < n
    /\ \A o \in bp.tpoff32 : o + 4 <= bp.length

\* The values of the placeholders, all different, and the offset of the
\* thread-local context.
ValueOfPlaceholder(sym) ==
    (CASE sym.kind = "cpp" -> 20000 [] sym.kind = "data" -> 30000 [] OTHER -> 10000) + 100 * sym.ord
TpOffset == -64

\* The array the instance is populated with; constants that the compiler has
\* optimized out are not written.
fixupValues(bp) ==
    [n \in 0 .. bp.boilerplates + bp.cpps + bp.constants - 1 |->
        IF n < bp.boilerplates THEN ValueOfPlaceholder([kind |-> "musttail", ord |-> n])
        ELSE IF n < bp.boilerplates + bp.cpps
             THEN ValueOfPlaceholder([kind |-> "cpp", ord |-> n - bp.boilerplates])
             ELSE ValueOfPlaceholder([kind |-> "data", ord |-> n - bp.boilerplates - bp.cpps])]

JmpLength == 5

\* MaterializeCodeSection, up to the rewriting of jumps: the list of the fields
\* of the copy, after those that belong to the start of the program.
Kept(list, strip) == IF strip THEN Front(list) ELSE list
MaterializeCodeSection(bp, dest, strip) ==
    LET length == bp.length - (IF strip THEN JmpLength ELSE 0)
        symbols == Range(Kept(bp.symbol32, strip)) \cup Range(bp.symbol64)
    IN [o \in {x \in DOMAIN bp.contents : x < length} |->
          bp.contents[o]
            + (IF o \in bp.tpoff32 THEN TpOffset ELSE 0)
            - (IF o \in Range(Kept(bp.addr32, strip)) THEN dest ELSE 0)
            + FoldSet(LAMBDA x, n : n + fixupValues(bp)[x.ordinal], 0, {x \in symbols : x.offset = o})]

\* What it asserts when it leaves out the last instruction.
StripAsserts(bp) ==
    LET o == bp.length - JmpLength + 1 IN
    /\ bp.endsInJmp
    /\ bp.addr32 # <<>> /\ Last(bp.addr32) = o
    /\ bp.symbol32 # <<>> /\ Last(bp.symbol32).offset = o
    /\ bp.jmp32 # <<>> /\ Last(bp.jmp32) = o

Plain(op, addend) == [op |-> op, sym |-> None, addend |-> addend]
\* A relative field counts from the end of its instruction; other references are
\* to the start of a symbol, or some bytes into it.
Instructions ==
    {Plain("body", 0), Plain("tls", 0)}
        \cup UNION {{[op |-> o, sym |-> s, addend |-> a] :
                        o \in MayBecome(s.kind), a \in (IF s.kind = "data" THEN {0, 3} ELSE {0})} : s \in Symbols}
Compiled(i) == IF i.op \in {"jmp", "jcc", "call"} THEN [i EXCEPT !.addend = -4] ELSE i
Codes ==
    [code : UNION {[1 .. n -> {Compiled(i) : i \in Instructions}] : n \in 1 .. MaxInstructions},
     noContinuation : BOOLEAN, appendUd2 : BOOLEAN]

CopyInit == stage = "code" /\ input \in Codes /\ fns = None /\ made = None

Refuse ==
    /\ stage = "code" /\ Aborts(input)
    /\ stage' = "refused"
    /\ UNCHANGED <<pure, build>>

\* An instance of the blueprint is copied; the last tail call may be left out.
Copy(dest, strip) ==
    /\ stage = "code" /\ ~Aborts(input)
    /\ strip => BluePrint(input).litc # -1
    /\ made' = [dest |-> dest, strip |-> strip,
                fields |-> MaterializeCodeSection(BluePrint(input), dest, strip)]
    /\ stage' = "copied"
    /\ UNCHANGED <<input, fns, build>>

CopyNext == Refuse \/ \E dest \in Destinations, strip \in BOOLEAN : Copy(dest, strip)

-----------------------------------------------------------------------------
(* The builder.  What a thread does for a file is a sequence of steps, of  *)
(* which those between clearing and copying the global list of packs are   *)
(* done by one thread at a time.  Sources may be edited at any time.       *)

Running == stage \in {"work", "library", "self"}
Finished == stage = "built"
IdleWorker == [step |-> "idle", file |-> None, parsed |-> None, compiled |-> None, packs |-> <<>>]
Missing == None             \* a part that is not there, or not complete
Part(w) ==
    [parsed |-> at[w].parsed, compiled |-> at[w].compiled, by |-> tool, packs |-> at[w].packs,
     draw |-> IF parts[at[w].file] = Missing THEN 0 ELSE 1 - parts[at[w].file].draw]

BuildInit ==
    /\ stage = "idle" /\ input = None /\ fns = None /\ made = None
    /\ bc = [f \in File |-> 0] /\ tool = 0
    /\ md5 = [x \in File \cup {Self} |-> None] /\ md5tmp = [x \in File \cup {Self} |-> None]
    /\ todo = <<>> /\ at = [w \in Workers |-> IdleWorker] /\ packs = <<>>
    /\ parts = [f \in File |-> Missing]
    /\ fwdHeader = None /\ libHeader = None
    /\ edits = 0 /\ failures = 0

\* A template is edited and compiled to bitcode.
EditTemplate(f, c) ==
    /\ edits < MaxEdits /\ c > bc[f]
    /\ bc' = [bc EXCEPT ![f] = c]
    /\ edits' = edits + 1
    /\ UNCHANGED <<stage, pure, tool, md5, md5tmp, todo, at, packs, parts, fwdHeader, libHeader, failures>>

RebuildBuilder ==
    /\ ~Running /\ edits < MaxEdits /\ tool < MaxTools
    /\ tool' = tool + 1 /\ edits' = edits + 1
    /\ UNCHANGED <<stage, pure, bc, md5, md5tmp, todo, at, packs, parts, fwdHeader, libHeader, failures>>

CheckMd5Match(x, sums) == md5[x] = sums[x]

\* main: all checksums are taken before the first thread starts.
Start ==
    /\ ~Running
    /\ LET sums == [x \in File \cup {Self} |-> IF x = Self THEN tool ELSE bc[x]]
       IN /\ md5tmp' = sums
          /\ todo' = SelectSeq(BcFiles, LAMBDA f : ~CheckMd5Match(Self, sums) \/ ~CheckMd5Match(f, sums))
    /\ stage' = "work"
    /\ UNCHANGED <<pure, bc, tool, md5, at, packs, parts, fwdHeader, libHeader, edits, failures>>

\* A thread takes a task, parses the bitcode and finds the entry point.
TakeTask(w) ==
    /\ stage = "work" /\ at[w].step = "idle" /\ todo # <<>>
    /\ at' = [at EXCEPT ![w] = [IdleWorker EXCEPT !.step = "parsed", !.file = Head(todo), !.parsed = bc[Head(todo)]]]
    /\ todo' = Tail(todo)
    /\ UNCHANGED <<stage, pure, bc, tool, md5, md5tmp, packs, parts, fwdHeader, libHeader, edits, failures>>

IsLocked == \E w \in Workers : at[w].step = "registering"

ClearPacks(w) ==
    /\ at[w].step = "parsed" /\ ~IsLocked
    /\ packs' = <<>>
    /\ at' = [at EXCEPT ![w].step = "registering"]
    /\ UNCHANGED <<stage, pure, bc, tool, md5, md5tmp, todo, parts, fwdHeader, libHeader, edits, failures>>

\* The entry point of the file registers its packs one after the other.
Registered(w) == Packs[at[w].file][at[w].parsed]
RegisterBoilerplate(w) ==
    /\ at[w].step = "registering" /\ Len(packs) < Len(Registered(w))
    /\ packs' = Append(packs, Registered(w)[Len(packs) + 1])
    /\ UNCHANGED <<stage, pure, bc, tool, md5, md5tmp, todo, at, parts, fwdHeader, libHeader, edits, failures>>

CopyPacks(w) ==
    /\ at[w].step = "registering" /\ Len(packs) >= Len(Registered(w))
    /\ at' = [at EXCEPT ![w].step = "copied", ![w].packs = packs]
    /\ UNCHANGED <<stage, pure, bc, tool, md5, md5tmp, todo, packs, parts, fwdHeader, libHeader, edits, failures>>

\* The bitcode is parsed again and compiled; then the three output files are
\* opened, which empties them.
SameCodeModel(ps) == \A m, n \in DOMAIN ps : ps[m].model = ps[n].model
Compile(w) ==
    /\ at[w].step = "copied" /\ SameCodeModel(at[w].packs)
    /\ at' = [at EXCEPT ![w].step = "compiled", ![w].compiled = bc[at[w].file]]
    /\ UNCHANGED <<stage, pure, bc, tool, md5, md5tmp, todo, packs, parts, fwdHeader, libHeader, edits, failures>>

WriteParts(w) ==
    /\ at[w].step = "compiled"
    /\ parts' = [parts EXCEPT ![at[w].file] = Part(w)]
    /\ at' = [at EXCEPT ![w].step = "written"]
    /\ UNCHANGED <<stage, pure, bc, tool, md5, md5tmp, todo, packs, fwdHeader, libHeader, edits, failures>>

\* The checksum that was taken at the start gets its name.
UpdateMd5Checksum(w) ==
    /\ at[w].step = "written"
    /\ md5' = [md5 EXCEPT ![at[w].file] = md5tmp[at[w].file]]
    /\ at' = [at EXCEPT ![w] = IdleWorker]
    /\ UNCHANGED <<stage, pure, bc, tool, md5tmp, todo, packs, parts, fwdHeader, libHeader, edits, failures>>

\* The process is killed, or one of its threads calls abort: a part that a
\* thread has opened is not complete.
Broken(w) == at[w].step = "compiled"
Stop ==
    /\ parts' = [f \in File |-> IF \E w \in Workers : Broken(w) /\ at[w].file = f THEN Missing ELSE parts[f]]
    /\ stage' = "stopped" /\ todo' = <<>> /\ at' = [w \in Workers |-> IdleWorker] /\ packs' = <<>>
    /\ UNCHANGED <<pure, bc, tool, md5, md5tmp, fwdHeader, libHeader, edits>>

Interrupt ==
    /\ Running /\ failures < MaxFailures
    /\ failures' = failures + 1
    /\ Stop

Abort(w) ==
    /\ at[w].step = "copied" /\ ~SameCodeModel(at[w].packs)
    /\ Stop /\ UNCHANGED failures

\* When all threads have ended, the parts of all files are put together under
\* other names, and the two headers renamed one after the other.
RenameFwdHeader ==
    /\ stage = "work" /\ todo = <<>> /\ \A w \in Workers : at[w].step = "idle"
    /\ fwdHeader' = parts
    /\ stage' = "library"
    /\ UNCHANGED <<pure, bc, tool, md5, md5tmp, todo, at, packs, parts, libHeader, edits, failures>>

RenameLibHeader ==
    /\ stage = "library"
    /\ libHeader' = parts
    /\ stage' = "self"
    /\ UNCHANGED <<pure, bc, tool, md5, md5tmp, todo, at, packs, parts, fwdHeader, edits, failures>>

UpdateSelfChecksum ==
    /\ stage = "self"
    /\ md5' = [md5 EXCEPT ![Self] = md5tmp[Self]]
    /\ stage' = "built"
    /\ UNCHANGED <<pure, bc, tool, md5tmp, todo, at, packs, parts, fwdHeader, libHeader, edits, failures>>

Work(w) ==
    \/ TakeTask(w) \/ ClearPacks(w) \/ RegisterBoilerplate(w) \/ CopyPacks(w)
    \/ Compile(w) \/ WriteParts(w) \/ UpdateMd5Checksum(w) \/ Abort(w)
BuildNext ==
    \/ \E f \in File, c \in Content : EditTemplate(f, c)
    \/ RebuildBuilder \/ Start \/ Interrupt
    \/ \E w \in Workers : Work(w)
    \/ RenameFwdHeader \/ RenameLibHeader \/ UpdateSelfChecksum

-----------------------------------------------------------------------------
(* Properties. *)

\* Every combination of values a template accepts has a function of its own with
\* as many opaque parameters as the values say, and every type of a program is
\* selected by a type that is enumerated.
EnumerationIsComplete ==
    stage = "enumerate" =>
        /\ ToSet(List) = {v \in Partial(input)[Len(input.metavars)] :
                            \A n \in DOMAIN input.cond : SubSeq(v, 1, n) \in input.cond[n]}
        /\ \A u, v \in ToSet(List) : u # v => UserFn(input, u) # UserFn(input, v)
        /\ \A t \in Types : IsValue(t) =>
            {GetDefaultFastInterpTypeId(t), GetOneLevelPtrFastInterpTypeId(t)} \subseteq EnumeratedTypes

\* Whatever functions were drawn, and wherever entries were moved, the values of a
\* boilerplate select its own blueprint, and no assertion fails on the way.
SelectsItsOwn ==
    stage = "table" =>
        \A n \in DOMAIN List :
            /\ SelectBoilerplateBluePrint(fns, made.ht, List[n]) = n
            /\ SelectionAsserts(fns, made.ht, List[n])

\* A table in the making holds each value once, in one of its slots.
TableIsOrdered ==
    stage \in {"insert", "table"} =>
        \A n \in 1 .. made.next - 1 :
            \E p \in Range(TwoSlots(fns, List[n], Cardinality(DOMAIN made.ht))) :
                {q \in DOMAIN made.ht : made.ht[q].item = n} = {p}

\* Every field of a copy refers to what its instruction referred to in the object
\* code, wherever the copy is; only the last tail call may be missing, and no
\* assertion of the builder, the blueprint or the copying fails.
CopyIsFaithful ==
    /\ stage = "code" /\ ~Aborts(input) => BluePrintAsserts(BluePrint(input))
    /\ stage = "copied" =>
        LET code == input.code
            kept == {k \in Relocated(code) : ~(made.strip /\ IsLast(code, k))}
            Target(k) == IF code[k].op = "tls" THEN TpOffset ELSE ValueOfPlaceholder(code[k].sym) + code[k].addend
        IN /\ DOMAIN made.fields = {OffsetOf(code, k) : k \in kept}
           /\ \A k \in kept : made.fields[OffsetOf(code, k)] =
                Target(k) - (IF k \in Relative(code) THEN made.dest + OffsetOf(code, k) ELSE 0)
           /\ made.strip => StripAsserts(BluePrint(input))

\* After a build, the headers and the source file of every file that was not
\* edited meanwhile come from one and the same run on its present bitcode by the
\* builder of then, with the packs of that file and no others; also after builds
\* that were interrupted anywhere.
LibraryIsCurrent ==
    Finished =>
        \A f \in File : md5tmp[f] = bc[f] =>
            LET p == parts[f] IN
            /\ p # Missing /\ p.parsed = bc[f] /\ p.compiled = bc[f] /\ p.by = md5tmp[Self]
            /\ p.packs = Packs[f][bc[f]]
            /\ fwdHeader[f] = p /\ libHeader[f] = p

\* A generated header has the parts of all files, whole, at any time.
HeadersAreWhole == \A h \in {fwdHeader, libHeader} : h = None \/ Missing \notin Range(h)
=============================================================================

-------------------------- MODULE RuntimeLibBuild --------------------------
(***************************************************************************)
(* The incremental build of the runtime library (src/runtime_lib_builder). *)
(* build_lib_wrapper looks at the bitcode files of src/runtime, calls      *)
(* dump_symbols and llc for those that changed, lets build_runtime_lib     *)
(* look for the registered functions (calling update_symbol_matches for    *)
(* one file after the other) and archives the object files.  All state     *)
(* between the steps is in files, and the next build believes what it      *)
(* finds there, so every file carries what it was made from: a content of  *)
(* a bitcode file, and versions of the tools.  A command may fail and the  *)
(* build may be interrupted between any two steps.                         *)
(***************************************************************************)
EXTENDS Naturals, Sequences, FiniteSets, SequencesExt

CONSTANTS
    SourceBc,       \* the bitcode files of the ordinary sources, a sequence
    Register,       \* the bitcode file of pochivm_register_runtime.cpp
    Symbol,         \* the functions that may be registered
    Wrapped,        \* those that are called through a wrapper
    Content,        \* what a bitcode file may contain
    Defines,        \* the public functions in each content of each bitcode file
    Registers,      \* the functions registered by each content of Register
    MaxEdits, MaxFailures, MaxTools,    \* bounds of a run
    None            \* no such file

allBitcodefiles == Append(SourceBc, Register)
Bitcode == ToSet(allBitcodefiles)
Tool == {"dump_symbols", "update_symbol_matches"}

ConstantsOK ==
    /\ Register \notin ToSet(SourceBc) /\ IsInjective(SourceBc)
    /\ Wrapped \subseteq Symbol
    /\ Content \subseteq Nat /\ 0 \in Content /\ None \notin Content
    /\ Defines \in [Bitcode -> [Content -> SUBSET Symbol]]
    /\ Registers \in [Content -> SUBSET Symbol]

VARIABLES
    bc,         \* content of each bitcode file, as the compiler left it
    tool,       \* version of each tool
    md5,        \* <file>.md5, of bitcode files and tools
    stripped,   \* <bc>.stripped.bc
    syms,       \* <bc>.syms: the public definitions of the file
    matches,    \* <bc>.syms.matches: what has been extracted from the file
    obj,        \* <bc>.obj.o
    needed,     \* __pochivm_all_needed_symbols__.txt
    impl,       \* extracted.<hash of *symbol>.bc
    header,     \* bc.<hash of symbol>.data.h
    included,   \* pochivm_runtime_library.generated.cpp
    lib,        \* libruntime.a
    stage,      \* where the build is
    todo,       \* the bitcode files still to be gone through, in order
    changed,    \* the tools and the current file, as CheckMd5Match found them
    shouldRebuildLibrary,
    remaining,  \* remainingSymbols of build_runtime_lib
    found,      \* allSymbolMatches of update_symbol_matches, what is new of it
    edits, failures,
    \* What the files do not tell, for the properties only:
    halfBuilt,  \* what was made of a file since its checksum was updated
    unarchived, \* the files whose checksum was updated since libruntime.a was made
    renamed     \* the files not dumped since Register was with another content
files == <<bc, tool, md5, stripped, syms, matches, obj, needed, impl, header, included, lib>>
locals == <<todo, changed, shouldRebuildLibrary, remaining, found>>
history == <<halfBuilt, unarchived, renamed>>
vars == <<files, stage, locals, edits, failures, history>>

(***************************************************************************)
(* A registered function is needed as such; one with a wrapper is needed   *)
(* twice: its implementation ("*symbol"), for which no header is made, and *)
(* the wrapper around it ("wrapper,symbol").                               *)
(***************************************************************************)
Plain(s) == <<"", s>>
Impl(s) == <<"*", s>>
Pair(s) == <<"wrapper,", s>>
Entry == {"", "*", "wrapper,"} \X Symbol
IsPair(e) == e[1] = "wrapper,"

NeededSymbols(registered) ==
    {Plain(s) : s \in registered \ Wrapped}
        \cup UNION {{Impl(s), Pair(s)} : s \in registered \cap Wrapped}

\* The bitcode dump_symbols leaves behind: its content, the content of Register
\* its type names were taken from, and the version of dump_symbols.
Stripped(f, canon) == [of |-> bc[f], canon |-> canon, by |-> tool["dump_symbols"]]
StrippedFile == [of : Content, canon : Content \cup {None}, by : 0 .. MaxTools]

\* What ExtractFunction writes: from which file, and with which implementation.
Extracted(f, i) ==
    [from |-> f, ir |-> stripped[f], impl |-> i, by |-> tool["update_symbol_matches"]]

Init ==
    /\ bc = [f \in Bitcode |-> 0] /\ tool = [t \in Tool |-> 0]
    /\ md5 = [x \in Bitcode \cup Tool |-> None]
    /\ stripped = [f \in Bitcode |-> None]
    /\ syms = [f \in Bitcode |-> {}] /\ matches = [f \in Bitcode |-> {}]
    /\ obj = [f \in Bitcode |-> None] /\ needed = {}
    /\ impl = [s \in Symbol |-> None] /\ header = [s \in Symbol |-> None]
    /\ included = {} /\ lib = None
    /\ stage = "idle" /\ todo = <<>> /\ changed = {} /\ shouldRebuildLibrary = FALSE
    /\ remaining = {} /\ found = {} /\ edits = 0 /\ failures = 0
    /\ halfBuilt = {} /\ unarchived = {} /\ renamed = {}

Running == stage \notin {"idle", "done", "missing", "vanished", "failed"}
f0 == Head(todo)

-----------------------------------------------------------------------------
(* The user, between two builds. *)

\* A source is edited, or set back, and compiled.
Edit(f, c) ==
    /\ ~Running /\ edits < MaxEdits
    /\ c # bc[f]
    /\ bc' = [bc EXCEPT ![f] = c]
    /\ stage' = "idle" /\ edits' = edits + 1
    /\ UNCHANGED <<tool, md5, stripped, syms, matches, obj, needed, impl, header, included, lib,
                   locals, failures, history>>

\* One of the tools is changed and built.
RebuildTool(t) ==
    /\ ~Running /\ edits < MaxEdits /\ tool[t] < MaxTools
    /\ tool' = [tool EXCEPT ![t] = @ + 1]
    /\ stage' = "idle" /\ edits' = edits + 1
    /\ UNCHANGED <<bc, md5, stripped, syms, matches, obj, needed, impl, header, included, lib,
                   locals, failures, history>>

\* A command fails, or the build is interrupted.
Fail ==
    /\ Running /\ failures < MaxFailures
    /\ stage' = "failed" /\ failures' = failures + 1
    /\ todo' = <<>> /\ changed' = {} /\ shouldRebuildLibrary' = FALSE
    /\ remaining' = {} /\ found' = {}
    /\ UNCHANGED <<files, edits, history>>

-----------------------------------------------------------------------------
(* build_lib_wrapper: dump_symbols and llc for every bitcode file. *)

CheckMd5Match(x, is) == md5[x] = is

\* Register comes first: the type names of the others are taken from it.
Start ==
    /\ ~Running
    /\ changed' = {t \in Tool : ~CheckMd5Match(t, tool[t])}
    /\ todo' = <<Register>> \o SourceBc
    /\ shouldRebuildLibrary' = FALSE
    /\ stage' = "check"
    /\ UNCHANGED <<files, remaining, found, edits, failures, history>>

IsUnchanged == f0 \notin changed

ShouldDump(f, unchanged) == ~unchanged \/ f = Register \/ changed \cap Tool # {}

CheckBitcode ==
    /\ stage = "check" /\ todo # <<>>
    /\ LET unchanged == CheckMd5Match(f0, bc[f0]) IN
       /\ changed' = (changed \cap Tool) \cup (IF unchanged THEN {} ELSE {f0})
       /\ IF ShouldDump(f0, unchanged)
          THEN stage' = "dump" /\ UNCHANGED todo
          ELSE stage' = "check" /\ todo' = Tail(todo)
    /\ UNCHANGED <<files, shouldRebuildLibrary, remaining, found, edits, failures, history>>

\* dump_symbols writes the bitcode without debug info; for an ordinary file the
\* names of its types are removed as well, and taken from Register afterwards.
DumpStripped ==
    /\ stage = "dump"
    /\ stripped' = [stripped EXCEPT ![f0] = Stripped(f0, None)]
    /\ stage' = IF f0 = Register THEN "clear" ELSE "canonicalize"
    /\ halfBuilt' = IF IsUnchanged THEN halfBuilt \ {<<f0, "dump">>} ELSE halfBuilt \cup {<<f0, "dump">>}
    /\ renamed' = IF f0 = Register /\ (stripped[f0] = None \/ stripped[f0].of # bc[f0])
                  THEN ToSet(SourceBc) ELSE renamed
    /\ UNCHANGED <<bc, tool, md5, syms, matches, obj, needed, impl, header, included, lib,
                   locals, edits, failures, unarchived>>

DumpCanonical ==
    /\ stage = "canonicalize"
    /\ stripped' = [stripped EXCEPT ![f0] = Stripped(f0, stripped[Register].of)]
    /\ stage' = "clear"
    /\ renamed' = renamed \ {f0}
    /\ UNCHANGED <<bc, tool, md5, syms, matches, obj, needed, impl, header, included, lib,
                   locals, edits, failures, halfBuilt, unarchived>>

\* Mutant: only what was extracted from Register is forgotten.
ClearMatchesOfRegister ==
    /\ stage = "clear"
    /\ matches' = IF f0 = Register THEN [matches EXCEPT ![f0] = {}] ELSE matches
    /\ stage' = IF f0 = Register THEN "list" ELSE "symbols"
    /\ UNCHANGED <<bc, tool, md5, stripped, syms, obj, needed, impl, header, included, lib,
                   locals, edits, failures, history>>

ClearMatches ==
    /\ stage = "clear"
    /\ matches' = [matches EXCEPT ![f0] = {}]
    /\ stage' = IF f0 = Register THEN "list" ELSE "symbols"
    /\ UNCHANGED <<bc, tool, md5, stripped, syms, obj, needed, impl, header, included, lib,
                   locals, edits, failures, history>>

\* --dump-list runs the registration and writes what it asked for.
DumpList ==
    /\ stage = "list"
    /\ needed' = NeededSymbols(Registers[bc[Register]])
    /\ stage' = "symbols"
    /\ UNCHANGED <<bc, tool, md5, stripped, syms, matches, obj, impl, header, included, lib,
                   locals, edits, failures, history>>

NextBitcode == todo' = Tail(todo) /\ stage' = "check"

\* The end of dump_symbols: the list of symbols gets its name.
RenameSymbols ==
    /\ stage = "symbols"
    /\ syms' = [syms EXCEPT ![f0] = Defines[f0][bc[f0]]]
    /\ IF IsUnchanged THEN NextBitcode ELSE stage' = "llc" /\ UNCHANGED todo
    /\ UNCHANGED <<bc, tool, md5, stripped, matches, obj, needed, impl, header, included, lib,
                   changed, shouldRebuildLibrary, remaining, found, edits, failures, history>>

Llc ==
    /\ stage = "llc"
    /\ shouldRebuildLibrary' = TRUE
    /\ obj' = [obj EXCEPT ![f0] = bc[f0]]
    /\ stage' = "checksum"
    /\ halfBuilt' = halfBuilt \cup {<<f0, "llc">>}
    /\ UNCHANGED <<bc, tool, md5, stripped, syms, matches, needed, impl, header, included, lib,
                   todo, changed, remaining, found, edits, failures, unarchived, renamed>>

UpdateMd5Checksum ==
    /\ stage = "checksum"
    /\ md5' = [md5 EXCEPT ![f0] = bc[f0]]
    /\ NextBitcode
    /\ halfBuilt' = halfBuilt \ {<<f0, "dump">>, <<f0, "llc">>}
    /\ unarchived' = unarchived \cup {f0}
    /\ UNCHANGED <<bc, tool, stripped, syms, matches, obj, needed, impl, header, included, lib,
                   changed, shouldRebuildLibrary, remaining, found, edits, failures, renamed>>

\* Before and after build_runtime_lib, the checksum of a changed tool is updated.
UpdateToolChecksum(t, from, to) ==
    /\ stage = from /\ todo = <<>>
    /\ md5' = IF t \in changed THEN [md5 EXCEPT ![t] = tool[t]] ELSE md5
    /\ stage' = to
    /\ UNCHANGED <<bc, tool, stripped, syms, matches, obj, needed, impl, header, included, lib,
                   locals, edits, failures, history>>

-----------------------------------------------------------------------------
(* build_runtime_lib, and the update_symbol_matches it calls. *)

\* What an earlier build has extracted is not looked for again.
RemoveMatches ==
    /\ stage = "remove"
    /\ remaining' = needed \ UNION {matches[f] : f \in Bitcode}
    /\ todo' = allBitcodefiles /\ found' = {}
    /\ stage' = "match"
    /\ UNCHANGED <<files, changed, shouldRebuildLibrary, edits, failures, history>>

\* The symbols a call of update_symbol_matches finds; wrappers come last and are
\* all in Register (--extract-wrappers).
FirstPass == {e \in remaining : ~IsPair(e) /\ e[2] \in syms[f0]}
SecondPass == IF f0 = Register THEN {e \in remaining : IsPair(e)} ELSE {}

\* The implementation of a wrapper has been found, in this file or before.
ImplIsFound(s) == Impl(s) \in remaining => Impl(s) \in matches[f0] \cup found

ExtractImpl(e) ==
    /\ impl' = [impl EXCEPT ![e[2]] = Extracted(f0, None)]
    /\ UNCHANGED header

ExtractPlain(e) ==
    /\ header' = [header EXCEPT ![e[2]] = Extracted(f0, None)]
    /\ UNCHANGED impl

ExtractPair(e) ==
    /\ header' = [header EXCEPT ![e[2]] = Extracted(f0, impl[e[2]])]
    /\ UNCHANGED impl

\* What is listed in <bc>.syms may have gone from the bitcode, if a build was
\* stopped between the two.
IsInBitcode(e) == IsPair(e) \/ e[2] \in Defines[f0][stripped[f0].of]

ExtractFunction(e) ==
    /\ stage = "match" /\ todo # <<>>
    /\ e \in FirstPass \cup SecondPass /\ e \notin found /\ IsInBitcode(e)
    /\ IsPair(e) => FirstPass \subseteq found /\ ImplIsFound(e[2])
    /\ \/ e = Plain(e[2]) /\ ExtractPlain(e)
       \/ e = Impl(e[2]) /\ ExtractImpl(e)
       \/ e = Pair(e[2]) /\ ExtractPair(e)
    /\ found' = found \cup {e}
    /\ UNCHANGED <<bc, tool, md5, stripped, syms, matches, obj, needed, included, lib,
                   stage, todo, changed, shouldRebuildLibrary, remaining, edits, failures, history>>

FunctionVanished ==
    /\ stage = "match" /\ todo # <<>> /\ \E e \in FirstPass \ found : ~IsInBitcode(e)
    /\ stage' = "vanished"
    /\ todo' = <<>> /\ changed' = {} /\ shouldRebuildLibrary' = FALSE
    /\ remaining' = {} /\ found' = {}
    /\ UNCHANGED <<files, edits, failures, history>>

\* Only now the file of the matches is replaced.
RenameMatches ==
    /\ stage = "match" /\ todo # <<>> /\ remaining # {}
    /\ FirstPass \cup SecondPass \subseteq found
    /\ matches' = [matches EXCEPT ![f0] = @ \cup found]
    /\ remaining' = remaining \ found
    /\ todo' = Tail(todo) /\ found' = {}
    /\ UNCHANGED <<bc, tool, md5, stripped, syms, obj, needed, impl, header, included, lib,
                   stage, changed, shouldRebuildLibrary, edits, failures, history>>

\* A symbol is in no file: by build_runtime_lib in the end, or by
\* update_symbol_matches for the implementation of a wrapper.
IsMissing ==
    /\ remaining # {}
    /\ \/ todo = <<>>
       \/ /\ todo = <<Register>> /\ FirstPass \subseteq found
          /\ \E e \in SecondPass \ found : ~ImplIsFound(e[2])

SymbolMissing ==
    /\ stage = "match" /\ IsMissing
    /\ stage' = "missing"
    /\ todo' = <<>> /\ changed' = {} /\ shouldRebuildLibrary' = FALSE
    /\ remaining' = {} /\ found' = {}
    /\ UNCHANGED <<files, edits, failures, history>>

Generate ==
    /\ stage = "match" /\ remaining = {}
    /\ included' = {e[2] : e \in {n \in needed : n # Impl(n[2])}}
    /\ stage' = "matched" /\ todo' = <<>>
    /\ UNCHANGED <<bc, tool, md5, stripped, syms, matches, obj, needed, impl, header, lib,
                   changed, shouldRebuildLibrary, remaining, found, edits, failures, history>>

\* ar makes the archive under another name, which is then renamed.
Archive ==
    /\ stage = "archive"
    /\ lib' = IF shouldRebuildLibrary THEN obj ELSE lib
    /\ unarchived' = IF shouldRebuildLibrary THEN {} ELSE unarchived
    /\ stage' = "done" /\ changed' = {} /\ shouldRebuildLibrary' = FALSE
    /\ UNCHANGED <<bc, tool, md5, stripped, syms, matches, obj, needed, impl, header, included,
                   todo, remaining, found, edits, failures, halfBuilt, renamed>>

-----------------------------------------------------------------------------
Next ==
    \/ \E f \in Bitcode, c \in Content : Edit(f, c)
    \/ \E t \in Tool : RebuildTool(t)
    \/ Fail
    \/ Start \/ CheckBitcode \/ DumpStripped \/ DumpCanonical \/ ClearMatches \/ DumpList
    \/ RenameSymbols \/ Llc \/ UpdateMd5Checksum
    \/ UpdateToolChecksum("dump_symbols", "check", "remove")
    \/ RemoveMatches
    \/ \E e \in Entry : ExtractFunction(e)
    \/ FunctionVanished \/ RenameMatches \/ SymbolMissing \/ Generate
    \/ UpdateToolChecksum("update_symbol_matches", "matched", "archive")
    \/ Archive

Spec == Init /\ [][Next]_vars

-----------------------------------------------------------------------------
(* Properties. *)

\* Type invariant of the files and of the builder.
TypeOK ==
    /\ bc \in [Bitcode -> Content] /\ tool \in [Tool -> 0 .. MaxTools]
    /\ \A f \in Bitcode : md5[f] \in Content \cup {None} /\ obj[f] \in Content \cup {None}
    /\ \A t \in Tool : md5[t] \in {None} \cup 0 .. tool[t]
    /\ stripped \in [Bitcode -> StrippedFile \cup {None}]
    /\ syms \in [Bitcode -> SUBSET Symbol] /\ matches \in [Bitcode -> SUBSET Entry]
    /\ needed \subseteq Entry /\ remaining \subseteq needed /\ found \subseteq remaining
    /\ included \subseteq Symbol /\ lib \in {None} \cup [Bitcode -> Content]
    /\ changed \subseteq Bitcode \cup Tool /\ shouldRebuildLibrary \in BOOLEAN
    /\ Running \/ (todo = <<>> /\ found = {})
    /\ halfBuilt \subseteq Bitcode \X {"dump", "llc"}
    /\ unarchived \subseteq Bitcode /\ renamed \subseteq ToSet(SourceBc)

Built == stage = "done"

\* After a build has looked at all files: those that a build dumped, or compiled,
\* that was stopped before it updated their checksum, and that were set back, so
\* that they are taken for unchanged (build_lib_wrapper.cpp:113).
HalfDumped == {f \in Bitcode : <<f, "dump">> \in halfBuilt}
HalfCompiled == {f \in Bitcode : <<f, "llc">> \in halfBuilt}

\* What was extracted is what a build from nothing would extract from that file,
\* and the file still defines the function.  The type names are those of an older
\* registration in a file that was not dumped since (build_lib_wrapper.cpp:120).
IsCurrent(x, s) ==
    /\ x # None
    /\ x.ir.by = tool["dump_symbols"] /\ x.by = tool["update_symbol_matches"]
    /\ \/ x.from \in HalfDumped
       \/ /\ x.ir.of = bc[x.from] /\ s \in Defines[x.from][bc[x.from]]
          /\ x.from \in renamed \cup {Register} \/ x.ir.canon = bc[Register]

\* When the build succeeds, the headers with the bitcode of the registered
\* functions are there and up to date, for these functions and no others, and a
\* header of a wrapped function has the present implementation in it.
HeadersCurrent ==
    Built =>
        /\ included = Registers[bc[Register]]
        /\ \A s \in included \ Wrapped : IsCurrent(header[s], s) /\ header[s].impl = None
        /\ \A s \in included \cap Wrapped :
            /\ header[s] # None /\ header[s].from = Register
            /\ header[s].ir.of = bc[Register] /\ header[s].by = tool["update_symbol_matches"]
            /\ IsCurrent(header[s].impl, s)

\* What build_runtime_lib says of the matches it removes first: any match is
\* always up to date, since the file is cleared whenever the bitcode changes
\* (src/runtime_lib_builder/build_runtime_lib.cpp:25).
MatchesUpToDate ==
    stage \in {"remove", "match"} =>
        \A f \in Bitcode : <<f, "dump">> \notin halfBuilt => \A e \in matches[f] :
            LET x == IF e = Impl(e[2]) THEN impl[e[2]] ELSE header[e[2]] IN
            /\ x # None /\ x.from = f /\ x.ir = stripped[f] /\ x.ir.of = bc[f]
            /\ x.by = tool["update_symbol_matches"]

\* The build only stops with "cannot be found" for a function that no bitcode
\* file defines, and never succeeds with such a function registered; and it only
\* stops for a function that is listed and not there where a file was half built
\* and set back, whose list and bitcode differ.
MissingIsMissing ==
    LET DefinedIn(fs) == UNION {Defines[f][bc[f]] : f \in fs} IN
    /\ stage = "missing" => ~(Registers[bc[Register]] \subseteq DefinedIn(Bitcode \ HalfDumped))
    /\ Built => Registers[bc[Register]] \subseteq DefinedIn(Bitcode) \/ HalfDumped # {}
    /\ stage = "vanished" => HalfDumped # {}

\* When the build succeeds, the host links with object files made from the same
\* bitcode as the headers: every file gives all or nothing, so that an interrupted
\* build is made good by the next (src/runtime_lib_builder/dump_symbols.cpp:2639).
\* It is not for a file whose checksum the interrupted build had updated already,
\* until another file makes a build rebuild the library
\* (build_lib_wrapper.cpp:156, :188), nor for one that was set back.
LibraryCurrent ==
    Built => \A f \in Bitcode :
        f \in unarchived \cup HalfCompiled \/ (lib # None /\ lib[f] = bc[f])
=============================================================================

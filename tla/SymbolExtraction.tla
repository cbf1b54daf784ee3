-------------------------- MODULE SymbolExtraction --------------------------
(***************************************************************************)
(* How update_symbol_matches cuts one function out of the bitcode of a     *)
(* source file (ExtractFunction), so that generated code can inline it.    *)
(* The host process has the whole program: whatever the function refers to *)
(* must be found there under its name, and a variable must be the one of   *)
(* the host, not a copy.  What the function uses is followed through       *)
(* variables but not through other functions, whose bodies are dropped.    *)
(* A module is a set of global values: functions and variables, with their *)
(* linkage and the global values their body or initializer uses.  Aliases  *)
(* are left out.                                                           *)
(***************************************************************************)
EXTENDS Naturals, FiniteSets

CONSTANTS
    Modules,    \* the modules to extract from, functions from names to global values
    target      \* the name of the function to extract

Local == "internal"
Linkages == {"external", "linkonce_odr", Local}
\* Of a function, or of a variable: whether its value changes, whether the
\* address of the constant matters (it does not have local_unnamed_addr).
Kinds == {"function", "variable", "constant", "unnamed_constant"}
GlobalValue(names) ==
    [kind : Kinds, linkage : Linkages, isDefined : BOOLEAN, uses : SUBSET names]

ConstantsOK ==
    \A m \in Modules :
        /\ m \in [DOMAIN m -> GlobalValue(DOMAIN m)]
        /\ target \in DOMAIN m /\ m[target].kind = "function" /\ m[target].isDefined
        /\ \A x \in DOMAIN m : m[x].linkage = Local => m[x].isDefined
        /\ \A x \in DOMAIN m : ~m[x].isDefined => m[x].uses = {}

VARIABLES
    orig,       \* the module in the .stripped.bc file
    module,     \* what is left of it
    isNeeded,   \* the global values reached so far
    unvisited,  \* those the search still has to go to
    stage
vars == <<orig, module, isNeeded, unvisited, stage>>

IsFunction(x) == module[x].kind = "function"
IsLocal(x) == module[x].linkage = Local
Declaration(gv) == [gv EXCEPT !.linkage = "external", !.isDefined = FALSE, !.uses = {}]

Init ==
    /\ orig \in Modules /\ module = orig
    /\ isNeeded = {} /\ unvisited = {} /\ stage = "drop"

\* Every variable must be the host's, and every constant whose address may be
\* compared.
mustDropDefinition(gv) == gv.kind \in {"variable", "constant"}

\* A local one cannot be dropped: nobody else has its name.
DropDefinitions ==
    /\ stage = "drop"
    /\ module' = [x \in DOMAIN module |->
                    IF mustDropDefinition(module[x]) /\ ~IsLocal(x)
                    THEN Declaration(module[x]) ELSE module[x]]
    /\ stage' = "target"
    /\ UNCHANGED <<orig, isNeeded, unvisited>>

\* A local function could not be called where it is not inlined.
StartSearch ==
    /\ stage = "target"
    /\ IF IsLocal(target)
       THEN stage' = "rejected" /\ UNCHANGED <<isNeeded, unvisited>>
       ELSE stage' = "search" /\ isNeeded' = {target} /\ unvisited' = module[target].uses \ {target}
    /\ UNCHANGED <<orig, module>>

\* dfs stops at functions: they become declarations.
Visit(x) ==
    /\ stage = "search" /\ x \in unvisited
    /\ isNeeded' = isNeeded \cup {x}
    /\ unvisited' = (unvisited \cup (IF IsFunction(x) THEN {} ELSE module[x].uses)) \ isNeeded'
    /\ UNCHANGED <<orig, module, stage>>

callees == {x \in isNeeded \ {target} : IsFunction(x)}

\* Mutant: only the calls of the function itself are looked at.
CheckDirectCallees ==
    /\ stage = "search" /\ unvisited = {}
    /\ stage' = IF \E x \in callees \cap module[target].uses : IsLocal(x) THEN "rejected" ELSE "delete"
    /\ UNCHANGED <<orig, module, isNeeded, unvisited>>

\* The host has a local function, but not under its name.
CheckCallees ==
    /\ stage = "search" /\ unvisited = {}
    /\ stage' = IF \E x \in callees : IsLocal(x) THEN "rejected" ELSE "delete"
    /\ UNCHANGED <<orig, module, isNeeded, unvisited>>

DeleteBodies ==
    /\ stage = "delete"
    /\ module' = [x \in DOMAIN module |->
                    IF x = target THEN [module[x] EXCEPT !.linkage = "external"]
                    ELSE IF IsFunction(x) \/ x \notin isNeeded THEN Declaration(module[x])
                    ELSE module[x]]
    /\ stage' = "eliminate"
    /\ UNCHANGED <<orig, isNeeded, unvisited>>

\* The global dead code elimination of LLVM: what is defined and visible outside
\* stays, with all it uses; other definitions and unused declarations go.
Roots == {x \in DOMAIN module : module[x].isDefined /\ module[x].linkage = "external"}
RECURSIVE UsedFrom(_)
UsedFrom(S) ==
    LET T == S \cup UNION {module[x].uses : x \in S} IN IF T = S THEN S ELSE UsedFrom(T)

GlobalDCE ==
    /\ stage = "eliminate"
    /\ module' = [x \in UsedFrom(Roots) |-> module[x]]
    /\ stage' = "check"
    /\ UNCHANGED <<orig, isNeeded, unvisited>>

\* What is left must be what the search found, and after that no local variable
\* may be left that should have been the host's.
CheckResult ==
    /\ stage = "check"
    /\ stage' = IF DOMAIN module # isNeeded THEN "internal_error"
                ELSE IF \E x \in DOMAIN module : mustDropDefinition(module[x]) /\ IsLocal(x)
                THEN "rejected" ELSE "extracted"
    /\ UNCHANGED <<orig, module, isNeeded, unvisited>>

-----------------------------------------------------------------------------
(* The post-build verifier: does the linked program have what was extracted? *)

\* The asserts about a bitcode stub: what is defined is the function or a constant,
\* everything else is to be found elsewhere.
StubIsSound(m) ==
    /\ target \in DOMAIN m /\ m[target].isDefined /\ m[target].linkage = "external"
    /\ \A x \in DOMAIN m \ {target} :
           IF m[x].isDefined THEN m[x].kind \in {"constant", "unnamed_constant"}
           ELSE m[x].linkage = "external"

\* The symbols the program must have, the function's own among them
FindAllSymbols(m) == {x \in DOMAIN m : m[x].kind = "function" \/ ~m[x].isDefined}

\* What nm lists: the public names of the program, those that it takes from the
\* libraries as undefined, with the library they come from.
Line(symbol, type, library) == [symbol |-> symbol, type |-> type, library |-> library]
BinaryLines(shared) ==
    {Line(x, IF x \in shared THEN "U" ELSE "T", x \in shared) :
        x \in {y \in DOMAIN orig : orig[y].linkage # Local}}

NmIsUnderstood(lines) ==
    /\ \A l \in lines : l.type = "U" => l.library
    /\ \A l, k \in lines : l.symbol = k.symbol => l = k

Verify ==
    /\ stage = "extracted"
    /\ \E shared \in SUBSET {x \in DOMAIN orig : ~orig[x].isDefined} :
           LET lines == BinaryLines(shared)
           IN stage' = IF /\ StubIsSound(module) /\ NmIsUnderstood(lines)
                          /\ FindAllSymbols(module) \subseteq {l.symbol : l \in lines}
                       THEN "verified" ELSE "verifier_error"
    /\ UNCHANGED <<orig, module, isNeeded, unvisited>>

Stopped == stage \in {"rejected", "internal_error", "verified", "verifier_error"} /\ UNCHANGED vars

Next ==
    \/ DropDefinitions \/ StartSearch
    \/ \E x \in unvisited : Visit(x)
    \/ CheckCallees \/ DeleteBodies \/ GlobalDCE \/ CheckResult \/ Verify
    \/ Stopped

Spec == Init /\ [][Next]_vars

-----------------------------------------------------------------------------
(* Properties. *)

\* Type invariant; what is left of the module has its names and its uses within.
TypeOK ==
    /\ DOMAIN module \subseteq DOMAIN orig
    /\ module \in [DOMAIN module -> GlobalValue(DOMAIN module)]
    /\ isNeeded \subseteq DOMAIN orig /\ unvisited \subseteq DOMAIN orig \ isNeeded

\* Whatever the extracted module does not define is public in the source file, so
\* that the host process resolves it; the function itself is there with its body.
HostResolves ==
    stage = "extracted" =>
        /\ module[target].isDefined /\ module[target].uses = orig[target].uses
        /\ \A x \in DOMAIN module : ~module[x].isDefined => orig[x].linkage # Local

\* Generated code and the host share every variable, and every constant whose
\* address can be told apart: only other constants are copied, with their value.
OnlyValuesAreCopied ==
    stage = "extracted" =>
        \A x \in DOMAIN module \ {target} :
            module[x].isDefined => module[x].kind = "unnamed_constant" /\ module[x] = orig[x]

\* The passes of LLVM leave exactly what the search found: the errors that ask
\* for a bug report are never printed.
NoInternalError == stage # "internal_error"

\* Nor does the verifier, which looks the symbols up in the linked program, find
\* anything to complain about.
VerifierAccepts == stage # "verifier_error"

\* A function is refused only if it cannot be extracted: it is local, or it uses,
\* directly or through constants that are copied, something local that may not be
\* copied.
RejectionsAreJustified ==
    LET IsCopied(x) == orig[x].kind = "unnamed_constant" \/ orig[x].linkage = Local
        Reached == {x \in DOMAIN orig \ {target} :
            \E n \in 1 .. Cardinality(DOMAIN orig) :
                \E p \in [1 .. n -> DOMAIN orig \ {target}] :
                    /\ p[1] \in orig[target].uses /\ p[n] = x
                    /\ \A i \in 1 .. n - 1 :
                        /\ orig[p[i]].kind # "function" /\ IsCopied(p[i])
                        /\ p[i + 1] \in orig[p[i]].uses}
    IN stage = "rejected" =>
        \/ orig[target].linkage = Local
        \/ \E x \in Reached : orig[x].linkage = Local /\ orig[x].kind # "unnamed_constant"

=============================================================================

-------------------------- MODULE MCRuntimeLibrary --------------------------
(***************************************************************************)
(* How the runtime library and the boilerplate library are built.  A       *)
(* behaviour is one of the build scripts ("builds", where more commands    *)
(* fail, or "edits", with more edits), of the extraction of a function     *)
(* ("extraction"), of the names of registered functions ("addresses"), of  *)
(* the parser of demangled names ("parser"), of the tables that select     *)
(* boilerplates ("selection"), of their copies ("copies"), of their        *)
(* builder ("boilerplates"), or of the types of a registered function      *)
(* ("wrappers"); the other variables stay as they are.                     *)
(***************************************************************************)
EXTENDS Naturals, Sequences, FiniteSets, TLC

CONSTANTS None, NoTemplate, MaxEdits, MoreEdits, MaxTemplateEdits, MaxFailures

(* Builds: two sources, a function in both of them (inline), one in either *)
(* of them (moved), one that is called through a wrapper, and              *)
(* registrations that grow, shrink and ask for what is not there.          *)

SourceBc == <<"a.bc", "b.bc">>
Defines ==
    [f \in {"a.bc", "b.bc", "register.bc"} |->
        CASE f = "a.bc" -> (0 :> {"inline", "moved"} @@ 1 :> {"inline"} @@ 2 :> {"inline", "moved"})
          [] f = "b.bc" -> (0 :> {"wrapped"} @@ 1 :> {"wrapped", "moved"} @@ 2 :> {"inline"})
          [] OTHER -> [c \in 0 .. 2 |-> {"inline"}]]
Registers ==
    0 :> {"inline", "wrapped"} @@ 1 :> {"inline", "wrapped", "moved"} @@ 2 :> {"moved"}

(* Extraction: every module with a function to extract, another function   *)
(* and two variables that may refer to each other and to the function.     *)

VariableKinds == {"variable", "constant", "unnamed_constant"}
Value(kind, linkage, defined, uses) ==
    [kind |-> kind, linkage |-> linkage, isDefined |-> defined, uses |-> uses]

FunctionValues(uses) ==
    {Value("function", l, TRUE, uses) : l \in {"external", "linkonce_odr", "internal"}} \cup {Value("function", "external", FALSE, {})}
VariableValues(kinds, names) ==
    {Value(k, l, TRUE, u) : k \in kinds, l \in {"external", "linkonce_odr", "internal"}, u \in SUBSET names}
        \cup {Value(k, "external", FALSE, {}) : k \in kinds}
TargetValues ==
    {Value("function", "linkonce_odr", TRUE, u) : u \in SUBSET {"f", "v", "w"}}
        \cup {Value("function", "external", TRUE, {"t", "v"}), Value("function", "internal", TRUE, {})}

ExtractedModules ==
    {("t" :> t) @@ ("f" :> f) @@ ("v" :> v) @@ ("w" :> w) :
        t \in TargetValues, f \in FunctionValues({"w"}), v \in VariableValues(VariableKinds, {"f", "w"}),
        w \in VariableValues({"variable", "constant"}, {"t", "v"})}

(* Addresses: two wrappers, a function defined with the registration, a    *)
(* destructor with two names in the builder's process, and three functions *)
(* of which the builder knows nothing; a reservation holds two addresses.  *)

Declared == {"w1", "w2", "inline", "dtor1", "dtor2", "x", "y", "z"}
Jitted == "w1" :> 5 @@ "w2" :> 9 @@ "inline" :> 7
Hosted == "dtor1" :> 4 @@ "dtor2" :> 4
ReservedMemory == {1, 20, 30}
Called(f) == [fn |-> f, wrapper |-> None]
Through(f, w) == [fn |-> f, wrapper |-> w]
RegistrationOrders ==
    {<<Called("x"), Through("y", "w1"), Through("inline", "w2"), Called("x"), Called("z")>>,
     <<Called("dtor1"), Called("x"), Called("dtor2")>>,
     <<Through("z", "w2"), Called("inline"), Through("x", "w1")>>}

(* Parser: functions of classes and of templates of up to two arguments,   *)
(* which are types, templates of types, functions and expressions.         *)

Args ==
    {<<"int">>, <<"A", "<", "int", ",", "B", "<", "int", ">", ">">>,
     <<"void", "(", "*", ")", "(", "int", ",", "A", "<", "int", ">", ")">>,
     <<"(", "bool", ")", "1">>,
     <<"(", "&", "(", "A", "::", "operator", ">", "(", "A", ",", "A", ")", ")", ")">>}
ArgLists == {NoTemplate, <<>>} \cup {<<a>> : a \in Args} \cup (Args \X Args)
Scopes == {<<>>, <<"int", "A", "<", "int", ",", "1", ">", "::">>}
ParamLists == {<<>>, <<"int", ",", "A", "<", "int", ">">>, <<"void", "(", "*", ")", "(", "int", ")">>}
Qualifiers == {<<>>, <<"const">>}
Bases == {<<"foo">>, <<"operator", "-", ">">>, <<"operator", "(", ")">>, <<"operator", "*">>}

NameOf(bases, argLists, paramLists) ==
    {[scope |-> s, base |-> b, args |-> a, params |-> p, suffix |-> q] :
        s \in Scopes, b \in bases, a \in argLists, p \in paramLists, q \in Qualifiers}

FunctionNames == NameOf(Bases, ArgLists, ParamLists)

(* Boilerplates: one primitive type; templates over types, enums and       *)
(* numbers of opaque parameters, with and without conditions on prefixes;  *)
(* code of up to three instructions; and two templates that are edited,    *)
(* one of them to packs that cannot be compiled together.                  *)

Metavar(kind, bound) == [kind |-> kind, bound |-> bound]
Bool == Metavar("bool", 2)
Pairs(m, n) == {<<x, y>> : x \in 0 .. m - 1, y \in 0 .. n - 1}
SelectionTemplates ==
    {[metavars |-> <<Metavar("type", 0)>>, cond |-> 1 :> {<<t>> : t \in 0 .. 4}],
     [metavars |-> <<Metavar("type", 0), Bool>>,
      cond |-> 1 :> {<<0>>, <<3>>} @@ 2 :> {<<0, 0>>, <<0, 1>>, <<3, 1>>, <<4, 0>>}],
     [metavars |-> <<Bool, Metavar("ints", 2)>>, cond |-> 2 :> Pairs(2, 2)],
     [metavars |-> <<Metavar("ints", 3), Metavar("floats", 2)>>, cond |-> 2 :> Pairs(3, 2) \ {<<2, 1>>}]}

Sym(kind, ord) == [kind |-> kind, ord |-> ord]
PlaceholderSymbols ==
    {Sym("musttail", 0), Sym("musttail", 1), Sym("notail", 1), Sym("cpp", 0), Sym("cpp", 1), Sym("data", 0), Sym("data", 1)}

Pack(n, m) == [name |-> n, model |-> m]
TemplatePacks ==
    "literals" :> (0 :> <<Pack("small", "small")>> @@ 1 :> <<Pack("small", "small"), Pack("tiny", "small")>> @@ 2 :> <<>>)
    @@ "calls" :> (0 :> <<Pack("call", "large"), Pack("enter", "large")>>
                   @@ 1 :> <<Pack("call", "large"), Pack("leave", "small")>>
                   @@ 2 :> <<Pack("enter", "large")>>)

(* Wrappers: functions of one parameter of any type, or of two, of classes *)
(* passed in registers or in memory, of which one may fail to be copied.   *)

RegisteredClass == {"Small", "Large", "Throws"}
Cpp(base, depth, ref, const) == [base |-> base, depth |-> depth, ref |-> ref, const |-> const]
Void == Cpp("void", 0, FALSE, FALSE)
ValueTypes ==
    {Cpp(b, d, r, FALSE) : b \in RegisteredClass \cup {"bool", "char", "i32"}, d \in 0 .. 2, r \in BOOLEAN}
        \cup {Cpp("i32", 0, TRUE, TRUE), Cpp("void", 1, FALSE, FALSE), Cpp("void", 1, TRUE, FALSE),
              Cpp("void", 2, FALSE, FALSE), Cpp("double", 0, FALSE, FALSE)}
FewTypes ==
    {Cpp("i32", 0, FALSE, FALSE), Cpp("Throws", 0, FALSE, FALSE), Cpp("Large", 0, TRUE, TRUE),
     Cpp("Large", 0, FALSE, FALSE), Cpp("bool", 1, FALSE, FALSE)}
Function(kind, class, ret, params, noexcept) ==
    [kind |-> kind, class |-> class, ret |-> ret, params |-> params, noexcept |-> noexcept]
ParamsOfOne == {<<>>} \cup {<<t>> : t \in ValueTypes}
RegisteredFunctions ==
    {Function(k, "Large", r, p, n) :
        k \in {"free", "member"}, r \in ValueTypes \cup {Void}, p \in ParamsOfOne, n \in BOOLEAN}
    \cup {Function("member", "Large", r, p, TRUE) : r \in FewTypes \cup {Void}, p \in FewTypes \X FewTypes}
    \cup {Function("constructor", "Throws", Void, p, n) : p \in ParamsOfOne, n \in BOOLEAN}
    \cup {Function("destructor", c, Void, <<>>, TRUE) : c \in RegisteredClass}
    \cup {Function("member_object", "Small", r, <<>>, TRUE) : r \in {t \in ValueTypes : ~t.ref}}

-----------------------------------------------------------------------------
VARIABLES part, stage,
          bc, tool, md5, stripped, syms, matches, obj, needed, impl, header, included, lib,
          todo, changed, shouldRebuildLibrary, remaining, found, edits, failures,
          halfBuilt, unarchived, renamed,
          orig, module, isNeeded, unvisited,
          registrations, address, m_curAddr, m_addrEnd, m_pastAddrs, g_symbolAddrToTypeData,
          addrToSymbol, hasMultipleSymbolsMappingToThisAddress, recorded, reported,
          name, i, state, parenthesisDepth, bracketDepth, lastPos, m_templateParams,
          input, fns, made, md5tmp, at, packs, parts, fwdHeader, libHeader,
          fn, typeNameMap, metadata

buildVars == <<bc, tool, md5, stripped, syms, matches, obj, needed, impl, header, included, lib,
               todo, changed, shouldRebuildLibrary, remaining, found, edits, failures,
               halfBuilt, unarchived, renamed>>
extractionVars == <<orig, module, isNeeded, unvisited>>
addressVars == <<registrations, address, m_curAddr, m_addrEnd, m_pastAddrs,
                 g_symbolAddrToTypeData, addrToSymbol, hasMultipleSymbolsMappingToThisAddress,
                 recorded, reported>>
parserVars == <<name, i, state, parenthesisDepth, bracketDepth, lastPos, m_templateParams>>
boilerplateVars == <<input, fns, made, md5tmp, at, packs, parts, fwdHeader, libHeader>>
wrapperVars == <<fn, typeNameMap, metadata>>
suiteVars ==
    <<part, stage, buildVars, extractionVars, addressVars, parserVars, boilerplateVars, wrapperVars>>

Builds == INSTANCE RuntimeLibBuild WITH
    Register <- "register.bc", Symbol <- {"inline", "moved", "wrapped"}, Wrapped <- {"wrapped"},
    Content <- 0 .. 2, MaxTools <- 1

LongBuilds == INSTANCE RuntimeLibBuild WITH
    Register <- "register.bc", Symbol <- {"inline", "moved", "wrapped"}, Wrapped <- {"wrapped"},
    Content <- 0 .. 2, MaxTools <- 1, MaxFailures <- 1, MaxEdits <- MoreEdits

Extraction == INSTANCE SymbolExtraction WITH Modules <- ExtractedModules, target <- "t"

Addresses == INSTANCE SymbolAddresses WITH
    Symbol <- Declared, FakeMemory <- ReservedMemory, x_length <- 2, AddressStep <- 1,
    Registrations <- RegistrationOrders

Parser == INSTANCE TemplateParameters WITH Names <- FunctionNames

Boilerplates == INSTANCE BoilerplateLibrary WITH
    NumPrimitives <- 1, PtrInc <- 2, HashMod <- 12,
    Templates <- SelectionTemplates, Symbols <- PlaceholderSymbols, MaxInstructions <- 3,
    Destinations <- {40960, 40967},
    BcFiles <- <<"literals", "calls">>, Workers <- {1, 2}, Packs <- TemplatePacks,
    Content <- 0 .. 2, MaxTools <- 1, MaxEdits <- MaxTemplateEdits, MaxFailures <- 1

Wrappers == INSTANCE FunctionWrappers WITH
    Functions <- RegisteredFunctions, Class <- RegisteredClass, InRegisters <- {"Small"},
    ThrowingCopy <- {"Throws"}

ASSUME SuiteConstants ==
    /\ Boilerplates!ConstantsOK /\ Wrappers!ConstantsOK
    /\ Builds!ConstantsOK /\ Extraction!ConstantsOK /\ Parser!ConstantsOK
    /\ Addresses!AddressesOK /\ Addresses!RegistrationsOK

-----------------------------------------------------------------------------
NoBuild ==
    /\ bc = 0 /\ tool = 0 /\ md5 = 0 /\ stripped = 0 /\ syms = 0 /\ matches = 0 /\ obj = 0
    /\ needed = 0 /\ impl = 0 /\ header = 0 /\ included = 0 /\ lib = 0 /\ todo = 0
    /\ changed = 0 /\ shouldRebuildLibrary = 0 /\ remaining = 0 /\ found = 0
    /\ edits = 0 /\ failures = 0
    /\ halfBuilt = 0 /\ unarchived = 0 /\ renamed = 0
NoExtraction == orig = 0 /\ module = 0 /\ isNeeded = 0 /\ unvisited = 0
NoAddresses ==
    /\ registrations = 0 /\ address = 0 /\ m_curAddr = 0 /\ m_addrEnd = 0 /\ m_pastAddrs = 0
    /\ g_symbolAddrToTypeData = 0 /\ addrToSymbol = 0
    /\ hasMultipleSymbolsMappingToThisAddress = 0 /\ recorded = 0 /\ reported = 0
NoParser ==
    /\ name = 0 /\ i = 0 /\ state = 0 /\ parenthesisDepth = 0 /\ bracketDepth = 0
    /\ lastPos = 0 /\ m_templateParams = 0

NoPureBoilerplate == input = 0 /\ fns = 0 /\ made = 0
NoBoilerplateBuild ==
    /\ md5tmp = 0 /\ at = 0 /\ packs = 0 /\ parts = 0 /\ fwdHeader = 0 /\ libHeader = 0
NoBoilerplate == NoPureBoilerplate /\ NoBoilerplateBuild
NoOtherBuild ==
    /\ stripped = 0 /\ syms = 0 /\ matches = 0 /\ obj = 0 /\ needed = 0 /\ impl = 0 /\ header = 0
    /\ included = 0 /\ lib = 0 /\ changed = 0 /\ shouldRebuildLibrary = 0 /\ remaining = 0 /\ found = 0
    /\ halfBuilt = 0 /\ unarchived = 0 /\ renamed = 0
NoWrappers == fn = 0 /\ typeNameMap = 0 /\ metadata = 0
NoNames == NoExtraction /\ NoAddresses /\ NoParser

SuiteInit ==
    \/ part \in {"builds", "edits"} /\ Builds!Init /\ NoNames /\ NoBoilerplate /\ NoWrappers
    \/ /\ part = "extraction" /\ Extraction!Init
       /\ NoBuild /\ NoAddresses /\ NoParser /\ NoBoilerplate /\ NoWrappers
    \/ /\ part = "addresses" /\ Addresses!Init
       /\ NoBuild /\ NoExtraction /\ NoParser /\ NoBoilerplate /\ NoWrappers
    \/ /\ part = "parser" /\ Parser!Init /\ stage = 0
       /\ NoBuild /\ NoExtraction /\ NoAddresses /\ NoBoilerplate /\ NoWrappers
    \/ part = "selection" /\ Boilerplates!SelectionInit /\ NoBuild /\ NoNames /\ NoBoilerplateBuild /\ NoWrappers
    \/ part = "copies" /\ Boilerplates!CopyInit /\ NoBuild /\ NoNames /\ NoBoilerplateBuild /\ NoWrappers
    \/ part = "boilerplates" /\ Boilerplates!BuildInit /\ NoOtherBuild /\ NoNames /\ NoWrappers
    \/ part = "wrappers" /\ Wrappers!Init /\ NoBuild /\ NoNames /\ NoBoilerplate

BuildStep ==
    /\ part = "builds" /\ Builds!Next
    /\ UNCHANGED <<part, extractionVars, addressVars, parserVars, boilerplateVars, wrapperVars>>
LongBuildStep ==
    /\ part = "edits" /\ LongBuilds!Next
    /\ UNCHANGED <<part, extractionVars, addressVars, parserVars, boilerplateVars, wrapperVars>>
ExtractionStep ==
    /\ part = "extraction" /\ Extraction!Next
    /\ UNCHANGED <<part, buildVars, addressVars, parserVars, boilerplateVars, wrapperVars>>
AddressesStep ==
    /\ part = "addresses" /\ Addresses!Next
    /\ UNCHANGED <<part, buildVars, extractionVars, parserVars, boilerplateVars, wrapperVars>>
ParserStep ==
    /\ part = "parser" /\ Parser!Next
    /\ UNCHANGED <<part, stage, buildVars, extractionVars, addressVars, boilerplateVars, wrapperVars>>

SelectionStep ==
    /\ part = "selection" /\ Boilerplates!SelectionNext
    /\ UNCHANGED <<part, buildVars, extractionVars, addressVars, parserVars, wrapperVars>>
CopyStep ==
    /\ part = "copies" /\ Boilerplates!CopyNext
    /\ UNCHANGED <<part, buildVars, extractionVars, addressVars, parserVars, wrapperVars>>
BoilerplatesStep ==
    /\ part = "boilerplates" /\ Boilerplates!BuildNext
    /\ UNCHANGED <<part, stripped, syms, matches, obj, needed, impl, header, included, lib,
                   changed, shouldRebuildLibrary, remaining, found,
                   halfBuilt, unarchived, renamed, extractionVars, addressVars, parserVars, wrapperVars>>
WrappersStep ==
    /\ part = "wrappers" /\ Wrappers!Next
    /\ UNCHANGED <<part, buildVars, extractionVars, addressVars, parserVars, boilerplateVars>>

SuiteNext ==
    \/ BuildStep \/ LongBuildStep \/ ExtractionStep \/ AddressesStep \/ ParserStep
    \/ SelectionStep \/ CopyStep \/ BoilerplatesStep \/ WrappersStep

SuiteSpec == SuiteInit /\ [][SuiteNext]_suiteVars

\* A build that succeeds leaves headers made from the present bitcode by the
\* present tools, for the functions that are registered, and a library of that
\* bitcode, also after builds that were stopped anywhere and sources that were
\* edited or set back; and it stops for a missing function only if there is one.
\* What the code does not keep of this is named by the history of the builds: the
\* bitcode of a file that was half built and set back, its object file, type names
\* of a registration that was dumped since, and a library that a stopped build had
\* not made when it updated a checksum.  The boilerplate library is built by
\* threads in parallel, while files are edited but not set back.
BuildsAreCurrent ==
    /\ part = "builds" => /\ Builds!TypeOK /\ Builds!HeadersCurrent
                          /\ Builds!MatchesUpToDate /\ Builds!MissingIsMissing
                          /\ Builds!LibraryCurrent
    /\ part = "edits" => /\ LongBuilds!TypeOK /\ LongBuilds!HeadersCurrent
                         /\ LongBuilds!MatchesUpToDate /\ LongBuilds!MissingIsMissing
                         /\ LongBuilds!LibraryCurrent
    /\ part = "boilerplates" => Boilerplates!LibraryIsCurrent /\ Boilerplates!HeadersAreWhole

\* A boilerplate is enumerated for all accepted values of its metavars and found
\* by them, whatever hash functions were drawn, and each copy of it refers to
\* everything its object code referred to, wherever it is placed.
BoilerplatesAreFaithful ==
    /\ part = "selection" => /\ Boilerplates!EnumerationIsComplete
                             /\ Boilerplates!SelectsItsOwn /\ Boilerplates!TableIsOrdered
    /\ part = "copies" => Boilerplates!CopyIsFaithful

\* Whatever an extracted function refers to is found in the host process, and is
\* the host's own if anybody can tell; functions are refused only for a reason,
\* and the errors that ask for a bug report are never printed, nor by the verifier
\* of the linked program.
HostResolves ==
    part = "extraction" => /\ Extraction!TypeOK /\ Extraction!HostResolves
                           /\ Extraction!OnlyValuesAreCopied /\ Extraction!NoInternalError
                           /\ Extraction!RejectionsAreJustified /\ Extraction!VerifierAccepts

\* Every registered function is recorded under its own name, with the name of its
\* own wrapper, made-up addresses among them, unless its address is ambiguous; its
\* template arguments are those that its name was made from, unless it has none and
\* ends in ">", as operator>, operator>> and conversions to a template do, of which
\* the parser only knows operator-> (dump_symbols.cpp:222; the inputs leave these
\* out); and called with the types it is recorded with it gets, in every mode, what
\* C++ would give it.
RegistrationsAreRight ==
    /\ part = "addresses" => /\ Addresses!TypeOK /\ Addresses!FakesAreUnique
                             /\ Addresses!NamesAreRight /\ Addresses!AbortsAreAmbiguous
    /\ part = "parser" => Parser!TypeOK /\ Parser!ParsesBack
    /\ part = "wrappers" => /\ Wrappers!TypeOK /\ Wrappers!NothingIsRejected
                            /\ Wrappers!CallsAreFaithful /\ Wrappers!ExceptionsAreKnown
                            /\ Wrappers!CreatedIsDestructible
=============================================================================

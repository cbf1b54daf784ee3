------------------------------- MODULE MCCalls -------------------------------
(***************************************************************************)
(* Calls and exceptions on one thread.  A behaviour is one of the debug    *)
(* interpreter ("debug") or of FastInterp mode ("fast"); the variables of  *)
(* the other stay as they are.                                             *)
(*                                                                         *)
(* Debug interpreter: two variables a function, C++ stacks of up to eight  *)
(* frames (four nested activations with their scopes), and exceptions      *)
(* thrown by the outermost activation and what it calls, or, in the run    *)
(* that shows what goes wrong there, one activation deeper.                *)
(*                                                                         *)
(* FastInterp: two exceptions, two objects to an activation, and stacks of *)
(* up to four nested activations of both kinds over the host.              *)
(***************************************************************************)
EXTENDS DebugInterpCalls

CONSTANTS Exn, NoExn, MaxActivations, MaxObjects

VARIABLES part, activations, outstanding, thrown, result, ended

fastVars == <<activations, outstanding, thrown, result, ended>>

Fast == INSTANCE FICalls WITH
    stack <- activations, halted <- ended, MaxFrames <- MaxActivations, DestructorsCallBack <- FALSE

ASSUME FastConstants == Fast!ConstantsOK

\* Exactly one of the two is run; the other never leaves its first state.
SuiteInit == part \in {"debug", "fast"} /\ Init /\ Fast!Init

DebugStep == part = "debug" /\ Next /\ UNCHANGED <<part, fastVars>>
FastStep == part = "fast" /\ Fast!Next /\ UNCHANGED <<part, vars>>

SuiteNext == DebugStep \/ FastStep

SuiteSpec == SuiteInit /\ [][SuiteNext]_<<part, vars, fastVars>>

\* The debug interpreter alone
DebugSpec == SuiteInit /\ part = "debug" /\ [][SuiteNext]_<<part, vars, fastVars>>

\* The running function's frame base and scope stack are its own, every scope
\* that is left finds its variables (destructor_helper.h:69), and every object
\* is registered where it will be destroyed, once, after any calls, returns and
\* exceptions thrown no deeper than by the outermost activation.
ContextIsKept ==
    /\ TypeOK /\ ContextIsOfRunningFunction
    /\ LiveObjectsAreRegistered /\ NothingIsLeft /\ ScopeFindsItsVariables

\* No exception is outstanding when C++ code calls generated code or gets its
\* value, when a C++ exception enters generated code, and when generated code
\* throws (pochivm_function_pointer.h:91, ast_type_helper.h:1204,
\* exception_helper.h:108).
AssertionsHold == Fast!TypeOK /\ Fast!AssertionsHold

\* To the functions and objects of a program, generated code behaves as C++
\* compiled code: every exception arrives, the same one, at the nearest C++
\* function that catches; the objects on its way are destroyed once, before
\* their function is left; and std::terminate is called exactly where a
\* noexcept function, of either kind, would be left.
CxxSpec == Fast!CxxSpec
=============================================================================

------------------------------- MODULE FICalls -------------------------------
(***************************************************************************)
(* Calls and exceptions in FastInterp mode, on one thread.                 *)
(*                                                                         *)
(* Generated code is made of functions that C++ exceptions cannot cross.   *)
(* A generated function returns whether it has thrown; the exception waits *)
(* in thread_pochiVMFastInterpOutstandingExceptionPtr while the generated  *)
(* callers destroy their objects and return in turn.  Where C++ code calls *)
(* generated code (FastInterpFunction::operator(), directly or through a   *)
(* GeneratedFunctionPointer) it becomes a C++ exception again, and where   *)
(* generated code calls C++ (fastinterp_call_cpp_fn_helper) C++ exceptions *)
(* become outstanding ones.                                                *)
(*                                                                         *)
(* The objects of an activation are counted; which destructors its cleanup *)
(* code calls is the subject of ScopedVariableManager.                     *)
(***************************************************************************)
EXTENDS Naturals, Sequences, SequencesExt

CONSTANTS Exn, NoExn,
          MaxFrames, MaxObjects, \* bounds
          DestructorsCallBack    \* C++ destructors call generated functions

ConstantsOK ==
    NoExn \notin Exn /\ MaxFrames \in Nat /\ MaxObjects \in Nat /\ DestructorsCallBack \in BOOLEAN

VARIABLES stack,       \* the activations, of generated and of C++ functions
          outstanding, \* thread_pochiVMFastInterpOutstandingExceptionPtr
          thrown,      \* the C++ exception that leaves the C++ function on top
          result,      \* what the callee has just returned, or <<>>
          halted       \* "no", "terminate" or "assertion"

vars == <<stack, outstanding, thrown, result, halted>>

Generated(noexcept) == [k |-> "generated", noexcept |-> noexcept, objects |-> 0, cleanup |-> FALSE]
Cpp(noexcept, catches, kind) == [k |-> "cpp", noexcept |-> noexcept, catches |-> catches, kind |-> kind]
Host == Cpp(FALSE, TRUE, "host")

Top == Last(stack)
SetTop(f) == Append(Front(stack), f)
\* Of a function that is noexcept the type of the result has no exception.
Result(noexcept, exn) == <<[noexcept |-> noexcept, exn |-> exn]>>

\* The code of the function on top is running.
Running(k) == halted = "no" /\ Top.k = k /\ result = <<>> /\ thrown = NoExn
Cleanup == Running("generated") /\ Top.cleanup
Room == Len(stack) < MaxFrames

Init ==
    /\ stack = <<Host>> /\ outstanding = NoExn /\ thrown = NoExn
    /\ result = <<>> /\ halted = "no"

-----------------------------------------------------------------------------
(* C++ code calls generated code                                           *)

\* FastInterpFunction::operator(): it has another path for noexcept functions.
CallFastInterp(noexcept) ==
    /\ Running("cpp") /\ Room
    /\ Top.kind = "dtor" => DestructorsCallBack
    /\ IF noexcept \/ outstanding = NoExn
       THEN stack' = Append(stack, Generated(noexcept)) /\ UNCHANGED halted
       ELSE halted' = "assertion" /\ UNCHANGED stack
    /\ UNCHANGED <<outstanding, thrown, result>>

\* mutant: the exception is not taken out of the thread's variable
RethrowKeepsOutstanding ==
    /\ result[1].exn
    /\ thrown' = outstanding /\ result' = <<>>
    /\ UNCHANGED <<stack, outstanding, halted>>

Rethrow ==
    /\ result[1].exn
    /\ thrown' = outstanding /\ outstanding' = NoExn /\ result' = <<>>
    /\ UNCHANGED <<stack, halted>>

ReturnValue ==
    /\ ~result[1].exn
    /\ result' = <<>>
    /\ halted' = IF result[1].noexcept \/ outstanding = NoExn THEN "no" ELSE "assertion"
    /\ UNCHANGED <<stack, outstanding, thrown>>

FastInterpReturns ==
    /\ halted = "no" /\ Top.k = "cpp" /\ result # <<>>
    /\ Rethrow \/ ReturnValue

-----------------------------------------------------------------------------
(* C++ functions                                                           *)

CppThrows(e) ==
    /\ Running("cpp") /\ Top.kind # "host"
    /\ thrown' = e
    /\ UNCHANGED <<stack, outstanding, result, halted>>

CppCatches ==
    /\ halted = "no" /\ thrown # NoExn /\ Top.catches
    /\ thrown' = NoExn
    /\ UNCHANGED <<stack, outstanding, result, halted>>

\* The end of a C++ function: a constructor has made an object of the caller,
\* a destructor has destroyed one.
Caller == stack[Len(stack) - 1]
ObjectsAfter == CASE Top.kind = "ctor" -> Caller.objects + 1
                  [] Top.kind = "dtor" -> Caller.objects - 1
                  [] OTHER -> Caller.objects

CppReturns ==
    /\ Running("cpp") /\ Top.kind # "host"
    /\ stack' = Append(Front(Front(stack)), [Caller EXCEPT !.objects = ObjectsAfter])
    /\ result' = Result(Top.noexcept, FALSE)
    /\ UNCHANGED <<outstanding, thrown, halted>>

\* The catch block of fastinterp_call_cpp_fn_helper.
HelperCatches ==
    /\ halted = "no" /\ thrown # NoExn /\ ~Top.catches /\ ~Top.noexcept
    /\ IF outstanding = NoExn
       THEN /\ outstanding' = thrown /\ thrown' = NoExn
            /\ stack' = Front(stack) /\ result' = Result(FALSE, TRUE)
            /\ UNCHANGED halted
       ELSE halted' = "assertion" /\ UNCHANGED <<stack, outstanding, thrown, result>>

\* A noexcept C++ function, a destructor among them, is left by an exception.
CppTerminates ==
    /\ halted = "no" /\ thrown # NoExn /\ ~Top.catches /\ Top.noexcept
    /\ halted' = "terminate"
    /\ UNCHANGED <<stack, outstanding, thrown, result>>

-----------------------------------------------------------------------------
(* Generated functions                                                     *)

CallGenerated(noexcept) ==
    /\ Running("generated") /\ ~Top.cleanup /\ Room
    /\ stack' = Append(stack, Generated(noexcept))
    /\ UNCHANGED <<outstanding, thrown, result, halted>>

CallCpp(noexcept, catches, kind) ==
    /\ Running("generated") /\ ~Top.cleanup /\ Room
    /\ kind = "ctor" => Top.objects < MaxObjects
    /\ stack' = Append(stack, Cpp(noexcept, catches, kind))
    /\ UNCHANGED <<outstanding, thrown, result, halted>>

\* At the end of a scope, or on the way out because of an exception; in a
\* noexcept function nothing is destroyed on that way.
CallDestructor(catches) ==
    /\ Running("generated") /\ Room
    /\ Top.objects > 0 /\ (Top.cleanup => ~Top.noexcept)
    /\ stack' = Append(stack, Cpp(TRUE, catches, "dtor"))
    /\ UNCHANGED <<outstanding, thrown, result, halted>>

\* The code after a call: if the callee may throw, it asks whether it has.
CheckException ==
    /\ halted = "no" /\ Top.k = "generated" /\ result # <<>>
    /\ stack' = IF ~result[1].noexcept /\ result[1].exn THEN SetTop([Top EXCEPT !.cleanup = TRUE]) ELSE stack
    /\ result' = <<>>
    /\ UNCHANGED <<outstanding, thrown, halted>>

\* The throw helper makes the exception the outstanding one.
Throw(e) ==
    /\ Running("generated") /\ ~Top.cleanup
    /\ IF outstanding = NoExn
       THEN outstanding' = e /\ stack' = SetTop([Top EXCEPT !.cleanup = TRUE]) /\ UNCHANGED halted
       ELSE halted' = "assertion" /\ UNCHANGED <<stack, outstanding>>
    /\ UNCHANGED <<thrown, result>>

Return ==
    /\ Running("generated") /\ ~Top.cleanup /\ Top.objects = 0
    /\ stack' = Front(stack)
    /\ result' = Result(Top.noexcept, FALSE)
    /\ UNCHANGED <<outstanding, thrown, halted>>

\* mutant: the boundary of a noexcept function is like any other
PropagateAlways ==
    /\ Cleanup /\ Top.objects = 0
    /\ stack' = Front(stack)
    /\ result' = Result(FALSE, TRUE)
    /\ UNCHANGED <<outstanding, thrown, halted>>

\* The catch block of a function that may throw returns to the caller.
Propagate ==
    /\ Cleanup /\ ~Top.noexcept /\ Top.objects = 0
    /\ stack' = Front(stack)
    /\ result' = Result(FALSE, TRUE)
    /\ UNCHANGED <<outstanding, thrown, halted>>

\* The catch block of a noexcept function: fastinterp_unexpected_exception...
Terminate ==
    /\ Cleanup /\ Top.noexcept
    /\ halted' = "terminate"
    /\ UNCHANGED <<stack, outstanding, thrown, result>>

Halted == halted # "no" /\ UNCHANGED vars

Next ==
    \/ \E noexcept \in BOOLEAN :
         \/ CallFastInterp(noexcept) \/ CallGenerated(noexcept)
         \/ \E catches \in BOOLEAN, kind \in {"plain", "ctor"} : CallCpp(noexcept, catches, kind)
    \/ \E catches \in BOOLEAN : CallDestructor(catches)
    \/ \E e \in Exn : CppThrows(e) \/ Throw(e)
    \/ FastInterpReturns \/ CppCatches \/ CppReturns \/ HelperCatches \/ CppTerminates
    \/ CheckException \/ Return \/ Propagate \/ Terminate \/ Halted

Spec == Init /\ [][Next]_vars

-----------------------------------------------------------------------------
(* Properties                                                              *)

Frames == [k : {"generated"}, noexcept : BOOLEAN, objects : 0..MaxObjects, cleanup : BOOLEAN]
             \cup [k : {"cpp"}, noexcept : BOOLEAN, catches : BOOLEAN, kind : {"host", "plain", "ctor", "dtor"}]

\* Typing; the host is at the bottom, and only C++ code is left by thrown
\* exceptions.
TypeOK ==
    /\ stack \in Seq(Frames) /\ stack # <<>> /\ stack[1] = Host
    /\ outstanding \in Exn \cup {NoExn} /\ thrown \in Exn \cup {NoExn}
    /\ result \in {<<>>} \cup {Result(noexcept, exn) : noexcept, exn \in BOOLEAN}
    /\ halted \in {"no", "terminate", "assertion"}
    /\ thrown # NoExn => Top.k = "cpp" /\ result = <<>>

\* No exception is outstanding when C++ code calls generated code or gets its
\* value, when a C++ exception enters generated code, and when generated code
\* throws (pochivm_function_pointer.h:91, ast_type_helper.h:1204,
\* exception_helper.h:108).
AssertionsHold == halted # "assertion"

\* The exception an activation is being left by: in flight as a C++ exception
\* or about to be, or outstanding.
ExnOf(i) ==
    IF i = Len(stack) /\ thrown # NoExn THEN thrown
    ELSE IF \/ i = Len(stack) /\ result # <<>> /\ result[1].exn
            \/ stack[i].k = "generated" /\ stack[i].cleanup
         THEN outstanding
         ELSE NoExn

\* Generated functions look to their callers like C++ functions.
Seen(i) ==
    [noexcept |-> stack[i].noexcept, exn |-> ExnOf(i),
     catches |-> stack[i].k = "cpp" /\ stack[i].catches,
     objects |-> IF stack[i].k = "generated" THEN stack[i].objects ELSE 0,
     kind |-> IF stack[i].k = "generated" THEN "plain" ELSE stack[i].kind]

Cxx == INSTANCE CxxCalls WITH
    frames <- [i \in DOMAIN stack |-> Seen(i)], terminated <- halted = "terminate"

\* To the functions and objects of a program, generated code behaves as C++
\* compiled code: every exception arrives, the same one, at the nearest C++
\* function that catches; the objects on its way are destroyed once, before
\* their function is left; and std::terminate is called exactly where a
\* noexcept function, of either kind, would be left.
CxxSpec == Cxx!Spec
=============================================================================

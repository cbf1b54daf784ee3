-------------------------- MODULE DebugInterpCalls --------------------------
(***************************************************************************)
(* Calls in debug-interp mode: AstFunction::DebugInterp and                *)
(* AutoInterpExecutionScope (pochivm/function_proto.h, destructor_helper.h)*)
(* on the C++ stack of one thread.                                         *)
(*                                                                         *)
(* The interpreter keeps the stack frame base and the scope stack of the   *)
(* running function in thread_pochiVMContext.  A call saves both in C++    *)
(* locals and restores them after the body; an exception leaves C++ frames *)
(* one by one, running the destructors of their locals only.               *)
(*                                                                         *)
(* Generated functions call each other, and C++ functions that call back   *)
(* through a GeneratedFunctionPointer and may catch what comes out.        *)
(***************************************************************************)
EXTENDS Integers, Sequences, SequencesExt, FiniteSets

CONSTANTS Vars,         \* the C++ class variables of a function
          Arities,      \* the numbers of parameters of functions
          MaxFrames,    \* a bound on the C++ stack
          MaxScopes,    \* a bound on the open scopes of an activation
          MaxThrowDepth \* how deep in activations exceptions are thrown

ASSUME BoundsAssumption == MaxFrames \in Nat \ {0} /\ MaxScopes \in Nat \ {0} /\ MaxThrowDepth \in Nat

VARIABLES base,       \* m_debugInterpStackFrameBase
          scopeStack, \* m_debugInterpScopeStack, sequences of variables
          stack,      \* the C++ frames, innermost last
          unwinding,  \* an exception is leaving frames
          live,       \* the objects that exist, as [base, v]: their address
          halted      \* "no", "terminate", or the undefined behavior met

ctx  == <<base, scopeStack>>
vars == <<base, scopeStack, stack, unwinding, live, halted>>

(* C++ frames:                                                             *)
(*   activation  DebugInterp of a function: its frame base, what it saved, *)
(*               whether it was called as a noexcept function, and by whom:*)
(*               "host" through DebugInterpFunction, "generated", or "cpp" *)
(*               through a GeneratedFunctionPointer                        *)
(*   scope       AutoInterpExecutionScope                                  *)
(*   cpp         a C++ function called by generated code; catches          *)
Scope == [k |-> "scope"]
Cpp(catches) == [k |-> "cpp", catches |-> catches]

Top == Last(stack)
\* Where on the stack the activations are.
Activations == {i \in DOMAIN stack : stack[i].k = "activation"}
Depth == Cardinality(Activations)
Current == stack[Max(Activations)]
\* The scopes opened since the innermost activation.
OpenScopes == Len(stack) - Max(Activations)

Executing == stack # <<>> /\ Top.k = "scope" /\ ~unwinding /\ halted = "no"

Init ==
    /\ base = 0 /\ scopeStack = <<>>
    /\ stack = <<>> /\ unwinding = FALSE
    /\ live = {} /\ halted = "no"

-----------------------------------------------------------------------------
(* Calls                                                                   *)

\* DebugInterp switches to the new frame and to an empty scope stack, and
\* executes the body, a scope.  The frame is allocated on the C++ stack: its
\* address follows from how deep that is.
Call(by, noexcept) ==
    /\ stack' = stack \o <<[k |-> "activation", base |-> Depth + 1, noexcept |-> noexcept, by |-> by,
                            oldBase |-> base, oldScopes |-> scopeStack], Scope>>
    /\ base' = Depth + 1
    /\ scopeStack' = <<<<>>>>

HostCalls(noexcept) ==
    /\ stack = <<>> /\ halted = "no"
    /\ Call("host", noexcept)
    /\ UNCHANGED <<unwinding, live, halted>>

CallGenerated(noexcept) ==
    /\ Executing /\ Len(stack) + 2 <= MaxFrames
    /\ Call("generated", noexcept)
    /\ UNCHANGED <<unwinding, live, halted>>

CallCpp(catches) ==
    /\ Executing /\ Len(stack) < MaxFrames
    /\ stack' = Append(stack, Cpp(catches))
    /\ UNCHANGED <<ctx, unwinding, live, halted>>

\* The literals built for a call through a function pointer, one for each
\* index of a parameter: at least one.
LiteralsOfCallback(arity) == 1..(IF arity < 1 THEN 1 ELSE arity)

\* The C++ function calls a generated function of that many parameters; each
\* literal takes its type from the parameter.  The type of the pointer, not the
\* function, says that it is noexcept.
CallBack(noexcept, arity) ==
    /\ stack # <<>> /\ Top.k = "cpp" /\ ~unwinding /\ halted = "no"
    /\ Len(stack) + 2 <= MaxFrames
    /\ IF LiteralsOfCallback(arity) \subseteq 1..arity
       THEN Call("cpp", noexcept) /\ UNCHANGED <<unwinding, live, halted>>
       ELSE halted' = "no such parameter" /\ UNCHANGED <<ctx, stack, unwinding, live>>

CppReturns ==
    /\ stack # <<>> /\ Top.k = "cpp" /\ ~unwinding /\ halted = "no"
    /\ stack' = Front(stack)
    /\ UNCHANGED <<ctx, unwinding, live, halted>>

-----------------------------------------------------------------------------
(* Inside a function                                                       *)

EnterScope ==
    /\ Executing /\ OpenScopes < MaxScopes /\ Len(stack) < MaxFrames
    /\ stack' = Append(stack, Scope)
    /\ scopeStack' = Append(scopeStack, <<>>)
    /\ UNCHANGED <<base, unwinding, live, halted>>

\* The declaration of a variable, after its constructor has returned.
Declare(v) ==
    /\ Executing /\ [base |-> base, v |-> v] \notin live
    /\ live' = live \cup {[base |-> base, v |-> v]}
    /\ scopeStack' = [scopeStack EXCEPT ![Len(scopeStack)] = Append(@, v)]
    /\ UNCHANGED <<base, stack, unwinding, halted>>

\* ~AutoInterpExecutionScope: the destructors of the variables in the top of
\* the scope stack, at their offsets from the current frame base.
DestroyScope ==
    IF scopeStack = <<>>
    THEN halted' = "empty scope stack" /\ UNCHANGED <<scopeStack, live>>
    ELSE /\ scopeStack' = Front(scopeStack)
         /\ live' = live \ {[base |-> base, v |-> v] : v \in ToSet(Last(scopeStack))}
         /\ UNCHANGED halted

LeaveScope ==
    /\ Executing
    /\ stack' = Front(stack)
    /\ DestroyScope
    /\ UNCHANGED <<base, unwinding>>

\* mutant: the frame base of the caller is not restored
RestoreScopesOnly == scopeStack' = Top.oldScopes /\ base' = base

Restore == scopeStack' = Top.oldScopes /\ base' = Top.oldBase

\* The body of an activation is finished.
Return ==
    /\ stack # <<>> /\ Top.k = "activation" /\ ~unwinding /\ halted = "no"
    /\ stack' = Front(stack)
    /\ Restore
    /\ UNCHANGED <<unwinding, live, halted>>

-----------------------------------------------------------------------------
(* Exceptions                                                              *)

\* Generated code throws, or a C++ function that it called.
Throw ==
    /\ stack # <<>> /\ Top.k # "activation" /\ ~unwinding /\ halted = "no"
    /\ Depth <= MaxThrowDepth
    /\ unwinding' = TRUE
    /\ UNCHANGED <<ctx, stack, live, halted>>

UnwindScope ==
    /\ unwinding /\ halted = "no" /\ stack # <<>> /\ Top.k = "scope"
    /\ stack' = Front(stack)
    /\ DestroyScope
    /\ UNCHANGED <<base, unwinding>>

\* The locals of DebugInterp are destroyed, what they saved with them.  The host
\* and C++ functions call noexcept functions through C++ functions that are
\* noexcept; generated functions do not look.
UnwindActivation ==
    /\ unwinding /\ halted = "no" /\ stack # <<>> /\ Top.k = "activation"
    /\ IF Top.by # "generated" /\ Top.noexcept
       THEN halted' = "terminate" /\ UNCHANGED <<ctx, stack, unwinding, live>>
       ELSE /\ stack' = Front(stack)
            /\ unwinding' = (Top.by # "host")
            /\ UNCHANGED <<ctx, live, halted>>

\* A C++ function that catches goes on, one that does not is left.
UnwindCpp ==
    /\ unwinding /\ halted = "no" /\ stack # <<>> /\ Top.k = "cpp"
    /\ unwinding' = ~Top.catches
    /\ stack' = IF Top.catches THEN stack ELSE Front(stack)
    /\ UNCHANGED <<ctx, live, halted>>

Halted == halted # "no" /\ UNCHANGED vars

Next ==
    \/ \E noexcept \in BOOLEAN :
         \/ HostCalls(noexcept) \/ CallGenerated(noexcept)
         \/ \E arity \in Arities : CallBack(noexcept, arity)
    \/ \E catches \in BOOLEAN : CallCpp(catches)
    \/ CppReturns \/ EnterScope \/ LeaveScope \/ Return \/ Throw
    \/ \E v \in Vars : Declare(v)
    \/ UnwindScope \/ UnwindActivation \/ UnwindCpp \/ Halted

Spec == Init /\ [][Next]_vars

-----------------------------------------------------------------------------

TypeOK ==
    /\ base \in 0..MaxFrames
    /\ scopeStack \in Seq(Seq(Vars)) /\ Len(scopeStack) <= MaxScopes
    /\ \A i \in DOMAIN stack : stack[i].k \in {"activation", "scope", "cpp"}
    /\ unwinding \in BOOLEAN
    /\ live \subseteq [base : 1..MaxFrames, v : Vars]
    /\ halted \in {"no", "terminate", "empty scope stack", "no such parameter"}

\* The code of an activation runs on its own frame, with a scope stack that
\* holds its own open scopes and no others, also after a call has returned.
ContextIsOfRunningFunction ==
    Executing => base = Current.base /\ Len(scopeStack) = OpenScopes

\* The objects that are registered in a scope stack, if it is used with that
\* frame base; and that no variable is in it twice.
Registered(frame, scopes) ==
    {[base |-> frame, v |-> v] : v \in UNION {ToSet(s) : s \in ToSet(scopes)}}
EachOnce(scopes) ==
    \A i, j \in DOMAIN scopes : \A m \in DOMAIN scopes[i], n \in DOMAIN scopes[j] :
        scopes[i][m] = scopes[j][n] => i = j /\ m = n

\* The activations that have saved the context of another one.
Savers == Activations \ {1}

\* Every object that exists is registered, once, in the scope stack of the
\* activation it belongs to, saved or installed: whatever happens next, it
\* will be destroyed, and through the frame it lives in.
LiveObjectsAreRegistered ==
    (~unwinding /\ halted = "no" /\ stack # <<>>) =>
        /\ live = Registered(base, scopeStack)
                   \cup UNION {Registered(stack[i].oldBase, stack[i].oldScopes) : i \in Savers}
        /\ EachOnce(scopeStack) /\ \A i \in Savers : EachOnce(stack[i].oldScopes)
        /\ \A i \in Savers : stack[i].oldBase # base
        /\ \A i, j \in Savers : stack[i].oldBase = stack[j].oldBase => i = j

\* When the host gets control back nothing is left.
NothingIsLeft == stack = <<>> => live = {} /\ scopeStack = <<>>

\* A scope that is left finds its variables on the scope stack
\* (destructor_helper.h:69 asserts it).
ScopeFindsItsVariables ==
    stack # <<>> /\ Top.k = "scope" /\ halted = "no" => scopeStack # <<>>
=============================================================================

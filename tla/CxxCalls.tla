------------------------------ MODULE CxxCalls ------------------------------
(***************************************************************************)
(* What the C++ standard promises about calls, objects and exceptions on   *)
(* one thread, whatever the functions are compiled with: an exception      *)
(* leaves functions until one catches it, the objects of those it leaves   *)
(* are destroyed first, and it never leaves a noexcept function.           *)
(***************************************************************************)
EXTENDS Naturals, Sequences, SequencesExt

CONSTANTS Exn, NoExn

\* A frame: its function is noexcept, or catches what its callees throw; the
\* objects it has to destroy; the exception it is being left by; and what its
\* end does to the objects of the caller.
VARIABLES frames, terminated

vars == <<frames, terminated>>

Top == Last(frames)
Host == [noexcept |-> FALSE, catches |-> TRUE, objects |-> 0, exn |-> NoExn, kind |-> "host"]
NewFrames == [noexcept : BOOLEAN, catches : BOOLEAN, objects : {0}, exn : {NoExn}, kind : {"plain", "ctor"}]
                \cup [noexcept : {TRUE}, catches : BOOLEAN, objects : {0}, exn : {NoExn}, kind : {"dtor"}]

SetExn(e) == [frames EXCEPT ![Len(frames)].exn = e]

Init == frames = <<Host>> /\ terminated = FALSE

\* A function calls another one; while an exception leaves it, it only calls
\* destructors.
Call(f) ==
    /\ ~terminated
    /\ IF f.kind = "dtor" THEN Top.objects > 0 ELSE Top.exn = NoExn
    /\ Top.exn # NoExn => ~Top.noexcept
    /\ frames' = Append(frames, f)
    /\ UNCHANGED terminated

\* A constructor that returns has made an object of its caller, a destructor
\* has destroyed one.
ObjectsAfter(n, kind) == CASE kind = "ctor" -> n + 1 [] kind = "dtor" -> n - 1 [] OTHER -> n

Return ==
    /\ ~terminated /\ Len(frames) > 1 /\ Top.exn = NoExn /\ Top.objects = 0
    /\ LET rest == Front(frames)
       IN frames' = [rest EXCEPT ![Len(rest)].objects = ObjectsAfter(@, Top.kind)]
    /\ UNCHANGED terminated

Throw(e) ==
    /\ ~terminated /\ Top.exn = NoExn
    /\ frames' = SetExn(e)
    /\ UNCHANGED terminated

Catch ==
    /\ ~terminated /\ Top.exn # NoExn /\ Top.catches
    /\ frames' = SetExn(NoExn)
    /\ UNCHANGED terminated

\* The exception leaves the function, the same exception, for its caller.
Propagate ==
    /\ ~terminated /\ Top.exn # NoExn /\ Top.objects = 0
    /\ ~Top.noexcept /\ ~Top.catches
    /\ LET rest == Front(frames) IN frames' = [rest EXCEPT ![Len(rest)].exn = Top.exn]
    /\ UNCHANGED terminated

Terminate ==
    /\ ~terminated /\ Top.exn # NoExn /\ Top.noexcept /\ ~Top.catches
    /\ terminated' = TRUE
    /\ UNCHANGED frames

Next ==
    \/ \E f \in NewFrames : Call(f)
    \/ \E e \in Exn : Throw(e)
    \/ Return \/ Catch \/ Propagate \/ Terminate

Spec == Init /\ [][Next]_vars
=============================================================================

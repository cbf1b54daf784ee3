---------------------------- MODULE QueueStreams ----------------------------
(***************************************************************************)
(* What the queue under the codegen memory pool promises: one first-in-    *)
(* first-out stream per producer; an item is in one stream or on its way   *)
(* to the one thread that took it.  Nothing is said of the order between   *)
(* streams, and a dequeue may give up without taking anything, which is a  *)
(* stuttering step here.  Items are told apart by their producer and their *)
(* number.                                                                 *)
(***************************************************************************)
EXTENDS Naturals, Sequences

CONSTANTS Thread, Producer, Nothing

VARIABLES
    produced,   \* how many items each producer has put
    stream,     \* of each producer: the items in it
    inHand      \* the item each thread has taken and not returned yet

vars == << produced, stream, inHand >>

Init ==
    /\ produced = [p \in Producer |-> 0]
    /\ stream = [p \in Producer |-> << >>]
    /\ inHand = [t \in Thread |-> Nothing]

Put(p) ==
    /\ produced' = [produced EXCEPT ![p] = @ + 1]
    /\ stream' = [stream EXCEPT ![p] = Append(@, << p, produced[p] >>)]
    /\ UNCHANGED inHand

Take(t, p) ==
    /\ inHand[t] = Nothing
    /\ stream[p] # << >>
    /\ inHand' = [inHand EXCEPT ![t] = Head(stream[p])]
    /\ stream' = [stream EXCEPT ![p] = Tail(@)]
    /\ UNCHANGED produced

Return(t) ==
    /\ inHand' = [inHand EXCEPT ![t] = Nothing]
    /\ UNCHANGED << produced, stream >>

Next ==
    \/ \E p \in Producer : Put(p)
    \/ \E t \in Thread : Return(t) \/ \E p \in Producer : Take(t, p)

Spec == Init /\ [][Next]_vars
=============================================================================

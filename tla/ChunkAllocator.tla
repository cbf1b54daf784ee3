--------------------------- MODULE ChunkAllocator ---------------------------
(***************************************************************************)
(* What the codegen memory pool promises to its clients, with no word on   *)
(* free lists, counters or system calls: a chunk is acquired only while    *)
(* nobody holds it, and is given up only by its holder.                    *)
(***************************************************************************)
CONSTANTS Thread, Chunk

VARIABLE owned                \* the chunks each thread holds

Held == UNION {owned[t] : t \in Thread}

Init == owned = [t \in Thread |-> {}]

Acquire(t, c) ==
    /\ c \in Chunk \ Held
    /\ owned' = [owned EXCEPT ![t] = @ \cup {c}]

Release(t, c) ==
    /\ c \in owned[t]
    /\ owned' = [owned EXCEPT ![t] = @ \ {c}]

Next == \E t \in Thread, c \in Chunk : Acquire(t, c) \/ Release(t, c)

Spec == Init /\ [][Next]_owned
=============================================================================

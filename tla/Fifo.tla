-------------------------------- MODULE Fifo --------------------------------
(***************************************************************************)
(* What SpscRing promises its two threads: a bounded first-in first-out    *)
(* queue, in which batches are put and taken whole.                        *)
(***************************************************************************)
EXTENDS Integers, Sequences

CONSTANTS Values, Capacity

VARIABLES
    q,    \* the queue
    out   \* the batch most recently taken

vars == <<q, out>>

Init == q = <<>> /\ out = <<>>

Put ==
    /\ \E n \in 1 .. Capacity - Len(q) : \E batch \in [1 .. n -> Values] : q' = q \o batch
    /\ UNCHANGED out

Take ==
    \E n \in 1 .. Len(q) :
        /\ out' = SubSeq(q, 1, n)
        /\ q' = SubSeq(q, n + 1, Len(q))

Next == Put \/ Take

Spec == Init /\ [][Next]_vars
=============================================================================

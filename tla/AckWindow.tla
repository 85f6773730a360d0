----------------------------- MODULE AckWindow -----------------------------
(***************************************************************************)
(* What a receiving stream promises its sender, with no ring and no        *)
(* timers: it remembers exactly which sequence numbers it accepted, counts *)
(* each one once, acknowledges the whole accepted set and nothing else,    *)
(* and asks again only for blocks it does not have.                        *)
(* ReceiverWindow.tla (the ring bitmap of proto/receiver.cpp) implements   *)
(* this specification, and Lane.tla uses it as the receiving end.          *)
(***************************************************************************)
EXTENDS Naturals

CONSTANTS
    SeqNos,     \* sequence numbers that can arrive
    Window      \* window_size_: how far past the base a block is accepted

VARIABLES
    base,       \* the lowest sequence number not accepted yet
    got,        \* every sequence number accepted so far
    out         \* what the latest call returned

vars == <<base, got, out>>

NoOutput == [kind |-> "None", base |-> 0, seqs |-> {}]

(* How on_receive answers for s. *)
Classify(s) ==
    IF s \in got THEN "Duplicate"
    ELSE IF s >= base + Window THEN "OutOfWindow"
    ELSE "Accepted"

(* Blocks that are missing although a later one has arrived. *)
Gaps == {p \in base .. base + Window : p \notin got /\ \E q \in got : q > p}

Init ==
    /\ base = 0
    /\ got = {}
    /\ out = NoOutput

(* One call of on_receive: s joins the accepted set when it is new and in
   the window, and the base is again the first sequence number not accepted. *)
Receive(s) ==
    /\ got' = IF Classify(s) = "Accepted" THEN got \cup {s} ELSE got
    /\ base' \in base .. base + Window
    /\ \A p \in base .. base' - 1 : p \in got'
    /\ base' \notin got'
    /\ out' = [kind |-> Classify(s), base |-> 0, seqs |-> {}]

(* An ACK names the base and every accepted block above it. *)
BuildAck ==
    /\ out' = [kind |-> "Ack", base |-> base, seqs |-> {s \in got : s > base}]
    /\ UNCHANGED <<base, got>>

(* A NACK names only gaps. *)
CollectNacks ==
    /\ out' \in [kind : {"Nack"}, base : {base}, seqs : SUBSET Gaps]
    /\ UNCHANGED <<base, got>>

Next ==
    \/ \E s \in SeqNos : Receive(s)
    \/ BuildAck
    \/ CollectNacks

Spec == Init /\ [][Next]_vars
=============================================================================

--------------------------- MODULE ReceiverWindow ---------------------------
(***************************************************************************)
(* ReceiverStream (proto/receiver.cpp): the sliding receive window of one  *)
(* stream.  Received bits live in a ring indexed by seq % kMaxWindow, and  *)
(* so do the two timestamps of every gap.  A ring position is reused every *)
(* kMaxWindow blocks, so the class is right only while each position       *)
(* belongs to one sequence number of the window.                           *)
(*                                                                         *)
(* Left out: the echoed send time (only the sender reads it, as an RTT     *)
(* sample), the overflow counter (a metric), and the 64-bit wrap of        *)
(* sequence numbers.                                                       *)
(***************************************************************************)
EXTENDS Naturals

CONSTANTS
    RingSize,        \* kMaxWindow: ring positions
    WordBits,        \* 64: ring positions per mask word
    Window,          \* window_size_, clamped to 1 .. kMaxWindow
    Lossless,        \* lossless_: whether gaps are ever NACKed
    SeqNos,          \* sequence numbers that can arrive
    ReorderDelays,   \* reorder_delay_ns arguments of collect_nacks
    RenackIntervals, \* renack_interval_ns arguments of collect_nacks
    MaxTime          \* bound on the clock

ASSUME RingAssumption ==
    /\ WordBits \in Nat \ {0}
    /\ RingSize \in Nat \ {0}
    /\ RingSize % WordBits = 0
ASSUME WindowAssumption == Window \in 1 .. RingSize
ASSUME InputAssumption ==
    /\ SeqNos \subseteq Nat
    /\ ReorderDelays \subseteq Nat
    /\ RenackIntervals \subseteq Nat
    /\ MaxTime \in Nat
    /\ Lossless \in BOOLEAN

VARIABLES
    base,          \* base_seq_no_
    ring,          \* ring_: one bit per position
    highest,       \* highest_received_
    haveAny,       \* have_any_
    firstMissing,  \* first_missing_ns_ per position, 0 = not a gap
    lastNack,      \* last_nack_ns_ per position, 0 = never NACKed
    now,           \* the caller's clock
    out            \* what the latest call returned

vars == <<base, ring, highest, haveAny, firstMissing, lastNack, now, out>>

Slots == 0 .. RingSize - 1
Slot(s) == s % RingSize
Words == RingSize \div WordBits

Init ==
    /\ base = 0
    /\ ring = [i \in Slots |-> FALSE]
    /\ highest = 0
    /\ haveAny = FALSE
    /\ firstMissing = [i \in Slots |-> 0]
    /\ lastNack = [i \in Slots |-> 0]
    /\ now = 1
    /\ out = [kind |-> "None", base |-> 0, seqs |-> {}]

(* Wrong variant: a word is never stitched from two. *)
RelativeBitUnstitched(w, b) ==
    LET start == Slot(base + WordBits * w)
        q == start \div WordBits
        r == start % WordBits
    IN  WordBits * w + b < Window /\ ring[q * WordBits + ((r + b) % WordBits)]

(* Bit b of relative_word(w): the ring read from position base + WordBits*w
   on, stitched from two words when that position is not word-aligned, and
   trimmed to the window. *)
RelativeBit(w, b) ==
    LET start == Slot(base + WordBits * w)
        q == start \div WordBits
        r == start % WordBits
    IN  /\ WordBits * w + b < Window
        /\ IF r + b < WordBits
           THEN ring[q * WordBits + (r + b)]
           ELSE ring[((q + 1) % Words) * WordBits + (r + b - WordBits)]

(* Window positions (relative to the base) whose bit is set. *)
Received == {p \in Slots : RelativeBit(p \div WordBits, p % WordBits)}

(* The loop of slide_base_over_contiguous_prefix on ring r stops at n: every
   position it passed was set, and position n is clear (a full turn has
   cleared it, when the whole ring was set). *)
SlidesTo(r, n) ==
    /\ \A p \in base .. n - 1 : r[Slot(p)]
    /\ n < base + RingSize => ~ r[Slot(n)]

(* Wrong variant: the last position passed keeps its value. *)
ClearPassedShort(f, n, v) ==
    [i \in Slots |-> IF \E p \in base .. n - 2 : Slot(p) = i THEN v ELSE f[i]]

(* f with the positions the base passed on its way to n reset to v. *)
ClearPassed(f, n, v) ==
    [i \in Slots |-> IF \E p \in base .. n - 1 : Slot(p) = i THEN v ELSE f[i]]

(* Wrong variant: the gap next to s is forgotten. *)
StampGapsShort(s) ==
    LET from == IF haveAny /\ highest + 1 > base THEN highest + 1 ELSE base
    IN  [i \in Slots |->
            IF firstMissing[i] = 0 /\ \E gap \in from .. s - 2 : Slot(gap) = i
            THEN now ELSE firstMissing[i]]

(* The gaps between the previous highest block and s are timed from now on. *)
StampGaps(s) ==
    LET from == IF haveAny /\ highest + 1 > base THEN highest + 1 ELSE base
    IN  [i \in Slots |->
            IF firstMissing[i] = 0 /\ \E gap \in from .. s - 1 : Slot(gap) = i
            THEN now ELSE firstMissing[i]]

Reject(s, kind) ==
    /\ out' = [kind |-> kind, base |-> 0, seqs |-> {}]
    /\ UNCHANGED <<base, ring, highest, haveAny, firstMissing, lastNack, now>>

Accept(s) ==
    LET isNewest == ~ haveAny \/ s > highest
        ring1 == [ring EXCEPT ![Slot(s)] = TRUE]
        first1 == IF isNewest THEN StampGaps(s) ELSE firstMissing
    IN  /\ highest' = IF isNewest THEN s ELSE highest
        /\ haveAny' = TRUE
        /\ \E n \in base .. base + RingSize :
              /\ SlidesTo(ring1, n)
              /\ base' = n
              /\ ring' = ClearPassed(ring1, n, FALSE)
              /\ firstMissing' = ClearPassed(first1, n, 0)
              /\ lastNack' = ClearPassed(lastNack, n, 0)
        /\ out' = [kind |-> "Accepted", base |-> 0, seqs |-> {}]
        /\ UNCHANGED now

(* on_receive, by its early returns. *)
Receive(s) ==
    \/ s < base /\ Reject(s, "Duplicate")
    \/ s >= base + Window /\ Reject(s, "OutOfWindow")
    \/ s \in base .. base + Window - 1 /\ ring[Slot(s)] /\ Reject(s, "Duplicate")
    \/ s \in base .. base + Window - 1 /\ ~ ring[Slot(s)] /\ Accept(s)

BuildAck ==
    /\ out' = [kind |-> "Ack", base |-> base, seqs |-> {base + p : p \in Received}]
    /\ UNCHANGED <<base, ring, highest, haveAny, firstMissing, lastNack, now>>

(* Positions collect_nacks reports: clear bits up to the highest block seen
   that have been gaps for the reorder delay and were not reported within the
   re-NACK interval. *)
Due(reorder, renack) ==
    {p \in Slots \ Received :
        LET i == Slot(base + p)
        IN  /\ Lossless /\ haveAny /\ highest >= base
            /\ base + p <= highest
            /\ firstMissing[i] # 0 /\ now - firstMissing[i] >= reorder
            /\ lastNack[i] = 0 \/ now - lastNack[i] >= renack}

CollectNacks(reorder, renack) ==
    LET due == Due(reorder, renack)
    IN  /\ out' = [kind |-> "Nack", base |-> base, seqs |-> {base + p : p \in due}]
        /\ lastNack' = [i \in Slots |->
                           IF \E p \in due : Slot(base + p) = i THEN now ELSE lastNack[i]]
        /\ UNCHANGED <<base, ring, highest, haveAny, firstMissing, now>>

(* Time passes between the calls. *)
Tick ==
    /\ now < MaxTime
    /\ now' = now + 1
    /\ UNCHANGED <<base, ring, highest, haveAny, firstMissing, lastNack, out>>

Next ==
    \/ \E s \in SeqNos : Receive(s)
    \/ BuildAck
    \/ \E reorder \in ReorderDelays, renack \in RenackIntervals :
          CollectNacks(reorder, renack)
    \/ Tick

Spec == Init /\ [][Next]_vars

-----------------------------------------------------------------------------

Kinds == {"None", "Accepted", "Duplicate", "OutOfWindow", "Ack", "Nack"}

(* The fields of ReceiverStream keep their types; no timestamp is ahead of
   the clock passed to on_receive and collect_nacks. *)
TypeOK ==
    /\ base \in Nat
    /\ ring \in [Slots -> BOOLEAN]
    /\ highest \in Nat
    /\ haveAny \in BOOLEAN
    /\ now \in Nat \ {0}
    /\ firstMissing \in [Slots -> 0 .. now]
    /\ lastNack \in [Slots -> 0 .. now]
    /\ out \in [kind : Kinds, base : Nat, seqs : SUBSET Nat]

(* The invariant receiver.hpp states for ring_: "a bit belongs to exactly one
   seq in [base, base + window)".  Every set bit is the bit of an accepted
   block above the base and below base + window, whatever lap the ring is on;
   the base itself is always missing; and the highest block seen is either the
   one just below the base or a set bit, the topmost one. *)
RingInWindow ==
    /\ \A i \in Slots : ring[i] =>
          \E s \in base + 1 .. base + Window - 1 : Slot(s) = i
    /\ \A s \in base .. base + Window - 1 : ring[Slot(s)] => haveAny /\ s <= highest
    /\ haveAny => \/ base = highest + 1
                  \/ highest \in base + 1 .. base + Window - 1 /\ ring[Slot(highest)]
    /\ ~ haveAny => base = 0

(* The gap timers on_receive stamps and the slide clears: every block missing
   below the highest one seen has a start time, so collect_nacks will name it
   once the reorder delay is over; and every ring position that is no gap yet
   starts its next lap with clean timers, so a block is never NACKed early or
   late because of the block that used the position one lap before. *)
GapTimers ==
    \A p \in base .. base + RingSize - 1 :
        LET i == Slot(p)
        IN  IF haveAny /\ p <= highest
            THEN (~ ring[i] => firstMissing[i] # 0) /\ (lastNack[i] # 0 => firstMissing[i] # 0)
            ELSE firstMissing[i] = 0 /\ lastNack[i] = 0

(* Everything the ring says was accepted. *)
Accepted == (0 .. base - 1) \cup {s \in base .. base + Window - 1 : ring[Slot(s)]}

Abstract == INSTANCE AckWindow WITH got <- Accepted

(* The ring bitmap implements AckWindow: on_receive accepts each block exactly
   once and classifies every other arrival correctly, build_ack reports
   exactly the accepted blocks across every word and ring boundary, and
   collect_nacks never names a block that arrived. *)
ImplementsAckWindow == Abstract!Spec
=============================================================================

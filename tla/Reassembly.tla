----------------------------- MODULE Reassembly -----------------------------
(***************************************************************************)
(* ReassemblyStream (proto/reassembly.cpp): blocks of a stream arrive in   *)
(* any order and more than once. An unordered stream hands each one up as  *)
(* it arrives and detects duplicates with a ring of bits above the lowest  *)
(* block not seen. An ordered stream writes an early block into the sink   *)
(* at once, remembers it in a ring of slots, and hands blocks up in order. *)
(* The recorded delivery order is not capped.                              *)
(***************************************************************************)
EXTENDS Integers, Sequences, Functions

CONSTANTS
    StreamBlocks,  \* total_blocks_
    ReorderWindow  \* kMaxWindow

ASSUME ReasmAssumption == StreamBlocks \in Nat /\ ReorderWindow \in Nat \ {0}

VARIABLES
    ordered,       \* ordered_
    low,           \* unordered_low_
    seen,          \* unordered_seen_: indices of the bits set
    expected,      \* next_expected_
    early,         \* buffer_: index -> {seq_no} when valid, {} when not
    handed,        \* delivery_order_
    delivered,     \* delivered_count_
    sink           \* blocks whose payload has been written

reasmVars == <<ordered, low, seen, expected, early, handed, delivered, sink>>

RingIndex == 0 .. ReorderWindow - 1
RingSlot(seq) == seq % ReorderWindow

(* How far a run of consecutive blocks reaches from seq when "there" are   *)
(* the blocks present: the two loops that slide over such a run.           *)
(* No run is longer than the ring.                                         *)
Lap(seq) == seq .. seq + ReorderWindow
EndOfRun(seq, there) ==
    CHOOSE end \in Lap(seq) :
        /\ seq .. end - 1 \subseteq there
        /\ end = seq + ReorderWindow \/ end \notin there

ReasmInit ==
    /\ ordered \in BOOLEAN
    /\ low = 0
    /\ seen = {}
    /\ expected = 0
    /\ early = [i \in RingIndex |-> {}]
    /\ handed = << >>
    /\ delivered = 0
    /\ sink = {}

(* record() of each of a sequence of blocks. *)
Record(blocks) ==
    /\ handed' = handed \o blocks
    /\ delivered' = delivered + Len(blocks)

(* The slide that leaves the bits it passes set. *)
ClearedNone(l, end) == {}

(* Indices of the bits cleared while the low mark slides from l to end. *)
Cleared(l, end) == {RingSlot(s) : s \in l .. end - 1}

(* A block of an unordered stream that is in the window and not seen. *)
NewUnordered(seq) ==
    /\ seq >= low
    /\ seq - low < ReorderWindow
    /\ RingSlot(seq) \notin seen

(* A block of an ordered stream that is early and not remembered. *)
NewEarly(seq) ==
    /\ seq > expected
    /\ seq - expected < ReorderWindow
    /\ early[RingSlot(seq)] # {seq}

OnUnordered(seq) ==
    /\ ~ordered
    /\ NewUnordered(seq)
    /\ LET marked == seen \union {RingSlot(seq)}
           there == {s \in Lap(low) : RingSlot(s) \in marked}
           end == EndOfRun(low, there)
       IN  /\ low' = end
           /\ seen' = marked \ Cleared(low, end)
    /\ sink' = sink \union {seq}
    /\ Record(<<seq>>)
    /\ UNCHANGED <<ordered, expected, early>>

(* A block ahead of the next expected one: written and remembered. *)
OnEarly(seq) ==
    /\ ordered
    /\ NewEarly(seq)
    /\ sink' = sink \union {seq}
    /\ early' = [early EXCEPT ![RingSlot(seq)] = {seq}]
    /\ UNCHANGED <<ordered, low, seen, expected, handed, delivered>>

(* The next expected block: it and the run of early ones behind it. *)
OnExpected(seq) ==
    /\ ordered
    /\ seq = expected
    /\ LET there == {s \in Lap(seq + 1) : early[RingSlot(s)] = {s}}
           end == EndOfRun(seq + 1, there)
           run == [i \in 1 .. end - seq |-> seq + i - 1]
       IN  /\ expected' = end
           /\ early' = [i \in RingIndex |->
                            IF i \in Cleared(seq + 1, end) THEN {} ELSE early[i]]
           /\ Record(run)
    /\ sink' = sink \union {seq}
    /\ UNCHANGED <<ordered, low, seen>>

ReasmNext ==
    \E seq \in 0 .. StreamBlocks - 1 :
        OnUnordered(seq) \/ OnEarly(seq) \/ OnExpected(seq)

ReasmSpec == ReasmInit /\ [][ReasmNext]_reasmVars

(* is_complete() *)
IsComplete == StreamBlocks # 0 /\ delivered = StreamBlocks

-----------------------------------------------------------------------------
(* What a stream hands up is never a duplicate, is in order when the       *)
(* stream is ordered, and has its payload in the sink; and a block that    *)
(* has not been written and lies in the window is always accepted when it  *)
(* comes again, so a retransmission can fill every gap (reassembly.cpp:    *)
(* the "seen" bit and the slot tests of on_block).                         *)
ReassemblyExact ==
    /\ IsInjective(handed)
    /\ Range(handed) \subseteq sink
    /\ IsComplete => sink = 0 .. StreamBlocks - 1
    /\ ordered => \A i \in 1 .. Len(handed) : handed[i] = i - 1
    /\ \A seq \in (0 .. StreamBlocks - 1) \ sink :
           IF ordered
           THEN /\ seq >= expected
                /\ seq \in expected + 1 .. expected + ReorderWindow - 1 => NewEarly(seq)
           ELSE /\ seq >= low
                /\ seq < low + ReorderWindow => NewUnordered(seq)
=============================================================================

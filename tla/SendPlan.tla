------------------------------ MODULE SendPlan ------------------------------
(***************************************************************************)
(* Which bytes a lane carries (proto/transfer.cpp): how a file is cut into *)
(* lanes, which ranges of its lane the receiver asks for, how the answer,  *)
(* split over several datagrams that arrive in any order and more than     *)
(* once, becomes the sender's plan, and how the plan is cut into blocks    *)
(* whose size changes under way and whose sealing may fail.                *)
(*                                                                         *)
(* A set of bytes stands for a list of ranges: its maximal runs, in order. *)
(***************************************************************************)
EXTENDS Integers, FiniteSets, Sequences, Functions

CONSTANTS
    MaxFile,     \* longest file, in bytes
    MaxLanes,    \* most lanes
    ChunkBytes,  \* chunk_: bytes per chunk of the resume bitmap
    MaxRanges,   \* kMaxResumeRanges
    RangesPerMsg,  \* kMaxResumeRangesPerMsg
    BlockSizes,  \* sizes the block may have
    MaxSealFailures  \* blocks whose sealing fails

ASSUME PlanAssumption ==
    /\ MaxFile \in Nat /\ MaxLanes \in Nat \ {0}
    /\ MaxRanges \in Nat \ {0} /\ RangesPerMsg \in Nat \ {0}
    /\ BlockSizes \subseteq Nat \ {0}

VARIABLES
    file, lanes, lane,  \* length of the file, number of lanes, the lane modelled
    adopted,     \* the receiver adopted a partial copy
    held,        \* complete chunks of that copy
    acked,       \* the StreamStart is acknowledged
    parts,       \* answer, have_part: the parts of the answer that arrived
    plan,        \* ranges: {} before the handshake ends, then {<<ranges>>}
    ri, offset,  \* ri, next_offset
    seq,         \* next_seq
    sentLast,    \* sent_last
    kept,        \* what the registry holds for each sequence number
    sealed,      \* every (nonce, plaintext, associated data) sealed so far
    sealFailures

planVars == <<file, lanes, lane, adopted, held, acked, parts, plan, ri, offset,
              seq, sentLast, kept, sealed, sealFailures>>

Least(S) == CHOOSE x \in S : \A y \in S : x <= y
Lower(a, b) == IF a < b THEN a ELSE b
Higher(a, b) == IF a > b THEN a ELSE b
CeilDiv(a, b) == (a + b - 1) \div b

-----------------------------------------------------------------------------
(* Lanes of a file. *)

(* Bytes per lane, and the place of lane i in a file of n bytes and k lanes. *)
Shard(n, k) == CeilDiv(n, k)
LaneBase(n, k, i) == Lower(i * Shard(n, k), n)
LaneBytes(n, k, i) == Lower(Shard(n, k), n - LaneBase(n, k, i))

(* Of the lane modelled, as offsets in the lane. *)
OfLane == 0 .. LaneBytes(file, lanes, lane) - 1

-----------------------------------------------------------------------------
(* What the receiver asks for. *)

(* Sink::missing: the bytes of the lane in chunks not complete, all of them
   unless a partial copy was adopted. *)
MissingBytes ==
    {x \in OfLane : ~ adopted \/ (LaneBase(file, lanes, lane) + x) \div ChunkBytes \notin held}

(* The ranges of a set of bytes. *)
Starts(S) == {x \in S : x - 1 \notin S}
RunFrom(S, x) == [offset |-> x, length |-> Least({n \in 1 .. MaxFile : x + n \notin S})]
NumRanges(S) == Cardinality(Starts(S))

(* The ranges that follow another one, and the gap between the two. *)
Inner(S) == {x \in Starts(S) : \E y \in S : y < x}
GapBefore(S, x) == Least({n \in 1 .. MaxFile : x - n - 1 \in S})

(* One round of coarsen_ranges: every gap up to twice the smallest closes. *)
Merged(S) ==
    LET limit == 2 * Least({GapBefore(S, x) : x \in Inner(S)}) + 1
    IN  S \cup UNION {x - GapBefore(S, x) .. x - 1 :
                        x \in {y \in Inner(S) : GapBefore(S, y) <= limit}}

(* The loop: a round that finds few enough ranges is the last. *)
Coarser(S) == IF NumRanges(S) <= MaxRanges THEN S ELSE Merged(S)
Coarsened(S) ==
    LET after[k \in 0 .. MaxFile] == IF k = 0 THEN S ELSE Coarser(after[k - 1])
    IN  after[MaxFile]

(* want, and its parts: at least one, even for an empty list. *)
Asked == Coarsened(MissingBytes)
Parts == Higher(1, CeilDiv(NumRanges(Asked), RangesPerMsg))

(* The ranges of part p, by their place in the list. *)
Place(S, x) == Cardinality({y \in Starts(S) : y < x})
Part(p) ==
    {RunFrom(Asked, x) : x \in {y \in Starts(Asked) : Place(Asked, y) \div RangesPerMsg = p}}

-----------------------------------------------------------------------------
PlanInit ==
    /\ file \in 0 .. MaxFile /\ lanes \in 1 .. MaxLanes /\ lane \in 0 .. lanes - 1
    /\ adopted \in BOOLEAN
    /\ held \in SUBSET (0 .. CeilDiv(file, ChunkBytes) - 1)
    /\ ~ adopted => held = {}
    /\ acked = FALSE /\ parts = <<>> /\ plan = {}
    /\ ri = 1 /\ offset = 0 /\ seq = 0 /\ sentLast = FALSE
    /\ kept = <<>> /\ sealed = {} /\ sealFailures = 0

(* The handshake of send_lane: an ACK, and every part of the answer. *)
StartAcked ==
    /\ plan = {} /\ ~ acked
    /\ acked' = TRUE
    /\ UNCHANGED <<file, lanes, lane, adopted, held, parts, plan, ri, offset>>
    /\ UNCHANGED <<seq, sentLast, kept, sealed, sealFailures>>

(* A part of the answer, which is resent as it was: the first copy counts. *)
PartArrives(p) ==
    /\ plan = {}
    /\ parts' = [q \in DOMAIN parts \cup {p} |->
                    IF q \in DOMAIN parts THEN parts[q] ELSE Part(p)]
    /\ UNCHANGED <<file, lanes, lane, adopted, held, acked, plan, ri, offset>>
    /\ UNCHANGED <<seq, sentLast, kept, sealed, sealFailures>>

(* Whether ranges R, in order, are inside the lane and do not overlap. *)
HoldTogether(R) ==
    \A i \in DOMAIN R :
        /\ R[i].offset + R[i].length <= LaneBytes(file, lanes, lane)
        /\ i > 1 => R[i].offset >= R[i - 1].offset + R[i - 1].length

WholeLane ==
    LET n == LaneBytes(file, lanes, lane)
    IN  IF n > 0 THEN <<[offset |-> 0, length |-> n]>> ELSE <<>>

(* The ranges of the answer that are not empty, and the orders sort() may
   leave them in. *)
Extent == [offset : Nat, length : Nat \ {0}]
Answer == Extent \cap UNION {parts[p] : p \in DOMAIN parts}
Sorted(S) ==
    {R \in UNION {[1 .. n -> S] : n \in 0 .. MaxRanges} :
        /\ Range(R) = S /\ IsInjective(R)
        /\ \A i, j \in DOMAIN R : i < j => R[i].offset <= R[j].offset}

(* Wrong variant: the first part is taken for the whole answer. *)
SettlePlanEarly ==
    /\ plan = {} /\ acked /\ parts # <<>>
    /\ \E R \in Sorted(Answer) :
           /\ plan' = {R}
           /\ offset' = IF R = <<>> THEN 0 ELSE R[1].offset
    /\ UNCHANGED <<file, lanes, lane, adopted, held, acked, parts, ri>>
    /\ UNCHANGED <<seq, sentLast, kept, sealed, sealFailures>>

(* The handshake is over: the answer, sorted, is what the lane sends; one
   that does not hold together means the whole lane. *)
SettlePlan ==
    /\ plan = {} /\ acked /\ DOMAIN parts = 0 .. Parts - 1
    /\ \E answer \in Sorted(Answer) :
         LET R == IF HoldTogether(answer) THEN answer ELSE WholeLane
         IN  /\ plan' = {R}
             /\ offset' = IF R = <<>> THEN 0 ELSE R[1].offset
    /\ UNCHANGED <<file, lanes, lane, adopted, held, acked, parts, ri>>
    /\ UNCHANGED <<seq, sentLast, kept, sealed, sealFailures>>

-----------------------------------------------------------------------------
(* Cutting blocks. *)

(* Wrong variant: the retransmission bit is authenticated too. *)
AadEveryFlag(flags) == flags

(* build_aad(): the flags a block is sealed with. *)
Aad(flags) == flags \ {"retransmission"}

Sealed(s, b, flags) ==
    [seq |-> s, offset |-> b.offset, length |-> b.length, aad |-> Aad(flags)]

(* Where the sender stands after block b of range ri: nothing moves if its
   sealing failed, and the next range starts elsewhere. *)
Advance(R, b, last, ok) ==
    IF ~ ok THEN UNCHANGED <<seq, sentLast, ri, offset>>
    ELSE /\ seq' = seq + 1
         /\ sentLast' = last
         /\ IF ri <= Len(R) /\ b.offset + b.length >= R[ri].offset + R[ri].length
            THEN /\ ri' = ri + 1
                 /\ offset' = IF ri < Len(R) THEN R[ri + 1].offset ELSE b.offset + b.length
            ELSE ri' = ri /\ offset' = b.offset + b.length

(* The next block: recorded, then sealed.  A lane with nothing to send sends
   one empty block. *)
CutBlock(size, ok) ==
    /\ ~ sentLast
    /\ ok \/ sealFailures < MaxSealFailures
    /\ sealFailures' = IF ok THEN sealFailures ELSE sealFailures + 1
    /\ \E R \in plan :
         /\ ri <= Len(R) \/ (R = <<>> /\ seq = 0)
         /\ LET end == IF ri <= Len(R) THEN R[ri].offset + R[ri].length ELSE 0
                b == [offset |-> offset, length |-> Lower(size, end - offset)]
                last == ri >= Len(R) /\ offset + b.length >= end
                flags == IF last THEN {"last"} ELSE {}
            IN  /\ kept' = [s \in DOMAIN kept \cup {seq} |->
                               IF s = seq THEN [block |-> b, flags |-> flags] ELSE kept[s]]
                /\ sealed' = IF ok THEN sealed \cup {Sealed(seq, b, flags)} ELSE sealed
                /\ Advance(R, b, last, ok)
    /\ UNCHANGED <<file, lanes, lane, adopted, held, acked, parts, plan>>

(* What a timeout may resend: blocks below next_seq the registry holds. *)
Resendable == {s \in DOMAIN kept : s < seq}

(* resend(): sealed again, under the flags it was stored with. *)
ResendBlock(s) ==
    /\ sealed' = sealed \cup {Sealed(s, kept[s].block, kept[s].flags \cup {"retransmission"})}
    /\ UNCHANGED <<file, lanes, lane, adopted, held, acked, parts, plan, ri, offset>>
    /\ UNCHANGED <<seq, sentLast, kept, sealFailures>>

PlanNext ==
    \/ StartAcked
    \/ \E p \in 0 .. Parts - 1 : PartArrives(p)
    \/ SettlePlan
    \/ \E size \in BlockSizes, ok \in BOOLEAN : CutBlock(size, ok)
    \/ \E s \in Resendable : ResendBlock(s)

PlanSpec == PlanInit /\ [][PlanNext]_planVars

-----------------------------------------------------------------------------
BytesOf(b) == b.offset .. b.offset + b.length - 1
Planned(R) == UNION {BytesOf(R[i]) : i \in DOMAIN R}

(* Each byte of the file is in one lane. *)
InLane(n, k, i, x) == x - LaneBase(n, k, i) \in 0 .. LaneBytes(n, k, i) - 1
LanesShareFile ==
    \A x \in 0 .. file - 1 :
        \E i \in 0 .. lanes - 1 : \A j \in 0 .. lanes - 1 : InLane(file, lanes, j, x) <=> j = i

(* The blocks lie in the lane, are disjoint and in the end exactly the plan,
   the last of them and no other marked LastBlock. *)
BlocksCarryPlan ==
    /\ \A b \in sealed : BytesOf(b) \subseteq OfLane
    /\ \A b, c \in sealed : b.seq # c.seq => BytesOf(b) \cap BytesOf(c) = {}
    /\ \A b \in sealed : "last" \in b.aad <=> sentLast /\ b.seq = seq - 1
    /\ sentLast => \E R \in plan : UNION {BytesOf(b) : b \in sealed} = Planned(R)

(* Every byte travels once.  The lanes of a file share out its bytes; of its
   lane the receiver asks for at least what it is missing, within MaxRanges
   ranges, and that is the sender's plan; and the blocks the sender cuts,
   with sizes that change and sealings that fail, are disjoint and in the end
   exactly that, the last of them and no other marked LastBlock
   (transfer.cpp:677-727, 1594-1623, 1787-1853). *)
EveryByteOnce ==
    /\ LanesShareFile
    /\ MissingBytes \subseteq Asked /\ Asked \subseteq OfLane
    /\ NumRanges(Asked) <= MaxRanges
    /\ \A R \in plan : Planned(R) = Asked
    /\ BlocksCarryPlan

(* One sequence number, one plaintext: everything ever sealed under the nonce
   (lane, sequence number) is the same bytes with the same associated data,
   through retransmissions, failed sealings and changes of block size.  AES-GCM
   under a repeated nonce needs this (transfer.cpp:96-112, 1824-1836). *)
NonceSealsOneBlock == \A b, c \in sealed : b.seq = c.seq => b = c
=============================================================================

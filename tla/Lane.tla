-------------------------------- MODULE Lane --------------------------------
(***************************************************************************)
(* The data plane of one bulk-transfer lane (proto/transfer.cpp), from the *)
(* end of its handshake to both ends leaving: the loop of send_lane with   *)
(* its registry (proto/registry.cpp), a network that loses, duplicates and *)
(* reorders, and the loop of recv_lane, which hands blocks to writer       *)
(* threads and lets a block into its window only when it has been written. *)
(*                                                                         *)
(* A block is its sequence number and its LastBlock flag; its bytes, offset *)
(* and length travel with it unchanged and count as one unit.  Clocks are  *)
(* left out: a timer may fire whenever the condition it guards holds.  The *)
(* congestion and flow-control limit is any number of blocks from          *)
(* MinInFlight up.  The receive window is its abstract specification,      *)
(* AckWindow.  Giving up (timeouts, cancellation) and the writer rings are *)
(* modelled elsewhere.                                                     *)
(***************************************************************************)
EXTENDS Integers, FiniteSets

CONSTANTS
    Blocks,        \* number of blocks the lane sends (an empty lane sends one)
    Window,        \* kWindow: registry slots, and receive window
    MinInFlight,   \* the least the congestion and flow-control limits allow
    QueueSlots,    \* blocks that fit in the writer ring
    RtoHoles,      \* kRtoHoles: blocks one retransmission timeout resends
    MaxQuietAcks,  \* kMaxQuietAcks: timer ACKs to a silent sender
    BurstSurvives  \* whether one of the eight parting ACKs always arrives

ASSUME LaneAssumption ==
    /\ Blocks \in Nat \ {0}
    /\ Window \in Nat \ {0}
    /\ MinInFlight \in 1 .. Window
    /\ QueueSlots \in Nat \ {0}
    /\ RtoHoles \in Nat \ {0}
    /\ MaxQuietAcks \in Nat
    /\ BurstSurvives \in BOOLEAN

VARIABLES
    \* send_lane
    reg,         \* the registry: one slot per position seq % Window
    sbase,       \* base
    nextSeq,     \* next_seq
    receivedEnd, \* received_end
    acked,       \* acked_bytes
    sstate,      \* "sending", or "ok" once everything is acknowledged
    \* the network
    data,        \* DATA datagrams in flight
    acks,        \* ACK datagrams in flight
    nacks,       \* sequence numbers named by NACK datagrams in flight
    fin,         \* a "finished" StreamClose is in flight
    \* recv_lane
    rbase,       \* rx.base_seq_no()
    got,         \* blocks accepted by the receive window
    queued,      \* blocks in a writer ring
    done,        \* blocks written, their completion not collected yet
    disk,        \* blocks written to the output
    final,       \* {} or {final_seq}
    heard,       \* something arrived since the last ACK
    quiet,       \* quiet_acks
    drained,     \* writer-ring space came back since the last ACK
    peerFinished, \* peer_finished
    left         \* the receiver's loop has ended

senderVars == <<reg, sbase, nextSeq, receivedEnd, acked, sstate>>
networkVars == <<data, acks, nacks, fin>>
cadenceVars == <<heard, quiet, drained>>
writerVars == <<queued, done, disk>>
receiverVars == <<rbase, got, final, peerFinished, left>>
vars == <<senderVars, networkVars, cadenceVars, writerVars, receiverVars>>

Seqs == 0 .. Blocks - 1
Slot(s) == s % Window
Block == [seq : Nat, last : BOOLEAN]

FreeSlot == [seq |-> 0, last |-> FALSE, valid |-> FALSE]

Init ==
    /\ reg = [i \in 0 .. Window - 1 |-> FreeSlot]
    /\ sbase = 0 /\ nextSeq = 0 /\ receivedEnd = 0 /\ acked = 0
    /\ sstate = "sending"
    /\ data = {} /\ acks = {} /\ nacks = {} /\ fin = FALSE
    /\ rbase = 0 /\ got = {} /\ final = {}
    /\ queued = {} /\ done = {} /\ disk = {}
    /\ heard = TRUE /\ quiet = 0 /\ drained = FALSE
    /\ peerFinished = FALSE /\ left = FALSE

-----------------------------------------------------------------------------
(* The registry. *)

(* lookup(seq): the slot is valid and still holds exactly this block. *)
Resident(s) == reg[Slot(s)].valid /\ reg[Slot(s)].seq = s

(* store(): whatever the slot held is overwritten. *)
Store(s, last) ==
    [reg EXCEPT ![Slot(s)] = [seq |-> s, last |-> last, valid |-> TRUE]]

(* Wrong variant: a slot is freed only by the block one lap later. *)
ConfirmLate(S) ==
    [i \in 0 .. Window - 1 |->
        IF reg[i].valid /\ reg[i].seq + Window \in S
        THEN [reg[i] EXCEPT !.valid = FALSE] ELSE reg[i]]

(* confirm() of every block of S. *)
Confirm(S) ==
    [i \in 0 .. Window - 1 |->
        IF reg[i].valid /\ reg[i].seq \in S /\ Slot(reg[i].seq) = i
        THEN [reg[i] EXCEPT !.valid = FALSE] ELSE reg[i]]

(* The datagram resend() builds from the slot of s. *)
Retransmission(s) == [seq |-> s, last |-> reg[Slot(s)].last]

-----------------------------------------------------------------------------
(* The sender's loop. *)

(* Sending one new block: recorded in the registry, then transmitted. *)
SendBlock ==
    /\ sstate = "sending"
    /\ nextSeq < Blocks
    /\ nextSeq < sbase + Window
    /\ \E limit \in MinInFlight .. Window : nextSeq - acked < limit
    /\ LET last == nextSeq = Blocks - 1
       IN  /\ reg' = Store(nextSeq, last)
           /\ data' = data \cup {[seq |-> nextSeq, last |-> last]}
    /\ nextSeq' = nextSeq + 1
    /\ UNCHANGED <<sbase, receivedEnd, acked, sstate, acks, nacks, fin>>
    /\ UNCHANGED <<cadenceVars, writerVars, receiverVars>>

(* Wrong variant: a block confirmed before counts again. *)
TakenAgain(a) ==
    LET newBase == IF a.base <= sbase THEN sbase ELSE IF a.base < nextSeq THEN a.base ELSE nextSeq
    IN  {s \in sbase .. nextSeq - 1 : s < newBase \/ s \in a.sack}

(* Where ACK a moves the base, and the blocks it newly confirms. *)
NewBase(a) ==
    IF a.base <= sbase THEN sbase ELSE IF a.base < nextSeq THEN a.base ELSE nextSeq
Taken(a) ==
    {s \in sbase .. nextSeq - 1 : (s < NewBase(a) \/ s \in a.sack) /\ Resident(s)}

(* apply_ack(): the cumulative part is clamped to what was sent, then the
   selective part confirms single blocks above it. *)
ApplyAck(a) ==
    LET newBase == NewBase(a)
        taken == Taken(a)
        ends == {receivedEnd, newBase} \cup {s + 1 : s \in {t \in a.sack : t < nextSeq}}
    IN  /\ sbase' = newBase
        /\ reg' = Confirm(taken)
        /\ acked' = acked + Cardinality(taken)
        /\ \E e \in ends : (\A x \in ends : x <= e) /\ receivedEnd' = e

(* An arrival leaves the network, or stays to arrive again. *)
Arrives(net, m, net1) == m \in net /\ (net1 = net \/ net1 = net \ {m})

AckArrives(a) ==
    /\ sstate = "sending"
    /\ Arrives(acks, a, acks')
    /\ ApplyAck(a)
    /\ UNCHANGED <<nextSeq, sstate, data, nacks, fin>>
    /\ UNCHANGED <<cadenceVars, writerVars, receiverVars>>

(* A NACK entry is served from the registry, if the block is still there. *)
NackArrives(s) ==
    /\ sstate = "sending"
    /\ Arrives(nacks, s, nacks')
    /\ data' = IF Resident(s) THEN data \cup {Retransmission(s)} ELSE data
    /\ UNCHANGED <<senderVars, acks, fin>>
    /\ UNCHANGED <<cadenceVars, writerVars, receiverVars>>

(* Wrong variant: only holes below what is known to have arrived. *)
RtoCandidatesHoles == {s \in sbase .. nextSeq - 1 : Resident(s) /\ s < receivedEnd}

(* What a retransmission timeout resends: the base, and the first few blocks
   below the highest one known to have arrived that are still unconfirmed. *)
RtoCandidates ==
    {s \in sbase .. nextSeq - 1 : Resident(s) /\ (s = sbase \/ s < receivedEnd)}
RtoBatch ==
    {s \in RtoCandidates : Cardinality({t \in RtoCandidates : t < s}) < RtoHoles}

Rto ==
    /\ sstate = "sending"
    /\ RtoBatch # {}
    /\ data' = data \cup {Retransmission(s) : s \in RtoBatch}
    /\ UNCHANGED <<senderVars, acks, nacks, fin>>
    /\ UNCHANGED <<cadenceVars, writerVars, receiverVars>>

(* Wrong variant: done when everything has been sent. *)
FinishUnacked ==
    /\ sstate = "sending"
    /\ nextSeq = Blocks
    /\ sstate' = "ok"
    /\ fin' = TRUE
    /\ UNCHANGED <<reg, sbase, nextSeq, receivedEnd, acked, data, acks, nacks>>
    /\ UNCHANGED <<cadenceVars, writerVars, receiverVars>>

(* Everything sent and acknowledged: the lane ends with a "finished" close. *)
Finish ==
    /\ sstate = "sending"
    /\ nextSeq = Blocks /\ sbase >= nextSeq
    /\ sstate' = "ok"
    /\ fin' = TRUE
    /\ UNCHANGED <<reg, sbase, nextSeq, receivedEnd, acked, data, acks, nacks>>
    /\ UNCHANGED <<cadenceVars, writerVars, receiverVars>>

-----------------------------------------------------------------------------
(* The receiver's loop and its writers. *)

(* Blocks with a writer: in a ring, or written and not collected yet. *)
Dispatched == {b.seq : b \in queued \cup done}

(* A DATA datagram goes to a writer unless the receiver has the block, is
   processing it, cannot track it, or has no room in the ring. *)
DataArrives(b) ==
    /\ ~ left
    /\ Arrives(data, b, data')
    /\ heard' = TRUE
    /\ queued' = IF /\ b.seq \in rbase .. rbase + Window - 1
                    /\ b.seq \notin got \cup Dispatched
                    /\ Cardinality(queued) < QueueSlots
                 THEN queued \cup {b} ELSE queued
    /\ UNCHANGED <<acks, nacks, fin, quiet, drained, done, disk>>
    /\ UNCHANGED <<senderVars, receiverVars>>

(* A writer thread writes a block and reports it. *)
Write(b) ==
    /\ b \in queued
    /\ queued' = queued \ {b}
    /\ disk' = disk \cup {b.seq}
    /\ done' = done \cup {b}
    /\ drained' = TRUE
    /\ UNCHANGED <<networkVars, senderVars, receiverVars, heard, quiet>>

(* The base moves over s, and over what had been accepted beyond it. *)
SlideOver(s) ==
    IF s # rbase THEN rbase' = rbase
    ELSE \E n \in rbase + 1 .. rbase + Window :
            n \notin got /\ rbase + 1 .. n - 1 \subseteq got /\ rbase' = n

(* drain_results(): the block enters the window, and only now. *)
Collect(b) ==
    /\ ~ left
    /\ b \in done
    /\ done' = done \ {b}
    /\ final' = IF b.last THEN {b.seq} ELSE final
    /\ IF b.seq \in rbase .. rbase + Window - 1 /\ b.seq \notin got
       THEN got' = got \cup {b.seq} /\ SlideOver(b.seq)
       ELSE UNCHANGED <<got, rbase>>
    /\ UNCHANGED <<networkVars, senderVars, cadenceVars, queued, disk, peerFinished, left>>

(* Wrong variant: blocks still with a writer are acknowledged. *)
CurrentAckEager == [base |-> rbase, sack |-> {s \in got \cup Dispatched : s > rbase}]

CurrentAck == [base |-> rbase, sack |-> {s \in got : s > rbase}]

(* An ACK answers traffic, a grown receive window, or up to MaxQuietAcks
   timer ticks of silence. *)
SendAck ==
    /\ ~ left
    /\ heard \/ drained \/ quiet < MaxQuietAcks
    /\ acks' = acks \cup {CurrentAck}
    /\ quiet' = IF heard THEN 0
              ELSE IF quiet < MaxQuietAcks THEN quiet + 1 ELSE quiet
    /\ heard' = FALSE
    /\ drained' = FALSE
    /\ UNCHANGED <<data, nacks, fin>>
    /\ UNCHANGED <<senderVars, writerVars, receiverVars>>

(* A NACK names gaps below the highest block accepted. *)
SendNack(s) ==
    /\ ~ left
    /\ s \notin got /\ s >= rbase /\ \E t \in got : t > s
    /\ nacks' = nacks \cup {s}
    /\ UNCHANGED <<data, acks, fin>>
    /\ UNCHANGED <<senderVars, cadenceVars, writerVars, receiverVars>>

FinArrives ==
    /\ fin /\ ~ left
    /\ fin' \in BOOLEAN
    /\ peerFinished' = TRUE
    /\ heard' = TRUE
    /\ UNCHANGED <<data, acks, nacks, quiet, drained>>
    /\ UNCHANGED <<senderVars, writerVars, rbase, got, final, left>>

(* Every byte has arrived: the receiver leaves once the sender says it has
   finished, or after lingering, and then repeats its ACK on the way out. *)
Leave ==
    /\ ~ left
    /\ \E f \in final : rbase > f
    /\ left' = TRUE
    /\ acks' = IF peerFinished THEN acks ELSE acks \cup {CurrentAck}
    /\ UNCHANGED <<data, nacks, fin, rbase, got, final, peerFinished>>
    /\ UNCHANGED <<senderVars, cadenceVars, writerVars>>

-----------------------------------------------------------------------------
(* The network drops a datagram. *)
Lose ==
    /\ \/ \E b \in data : data' = data \ {b} /\ UNCHANGED <<acks, nacks, fin>>
       \/ /\ ~ (left /\ BurstSurvives)
          /\ \E a \in acks : acks' = acks \ {a}
          /\ UNCHANGED <<data, nacks, fin>>
       \/ \E s \in nacks : nacks' = nacks \ {s} /\ UNCHANGED <<data, acks, fin>>
       \/ fin /\ fin' = FALSE /\ UNCHANGED <<data, acks, nacks>>
    /\ UNCHANGED <<senderVars, cadenceVars, writerVars, receiverVars>>

Next ==
    \/ SendBlock
    \/ \E a \in acks : AckArrives(a)
    \/ \E s \in nacks : NackArrives(s)
    \/ Rto
    \/ Finish
    \/ \E b \in data : DataArrives(b)
    \/ \E b \in queued : Write(b)
    \/ \E b \in done : Collect(b)
    \/ SendAck
    \/ \E s \in Seqs : SendNack(s)
    \/ FinArrives
    \/ Leave
    \/ Lose

Spec == Init /\ [][Next]_vars

-----------------------------------------------------------------------------
(* Safety. *)

Ack == [base : Nat, sack : SUBSET Nat]

TypeOK ==
    /\ reg \in [0 .. Window - 1 -> [seq : Nat, last : BOOLEAN, valid : BOOLEAN]]
    /\ sbase \in Nat /\ nextSeq \in 0 .. Blocks
    /\ receivedEnd \in Nat /\ acked \in Nat
    /\ sstate \in {"sending", "ok"}
    /\ data \subseteq Block /\ acks \subseteq Ack /\ nacks \subseteq Nat
    /\ fin \in BOOLEAN
    /\ rbase \in Nat /\ got \subseteq Nat /\ final \subseteq Nat
    /\ queued \subseteq Block /\ done \subseteq Block /\ disk \subseteq Nat
    /\ heard \in BOOLEAN /\ drained \in BOOLEAN /\ quiet \in Nat
    /\ peerFinished \in BOOLEAN /\ left \in BOOLEAN

(* What a receiver that sent ACK a had accepted by then. *)
View(a) == (0 .. a.base - 1) \cup a.sack

(* What the sender takes to be delivered: below its base, or confirmed out
   of order. *)
SenderView == (0 .. sbase - 1) \cup {s \in sbase .. nextSeq - 1 : ~ Resident(s)}

(* A slot in use holds a block of its own position that is sent and not yet
   covered by the sender's base, with its LastBlock flag: confirm() and the
   window guard of send_lane leave no slot to a block of an earlier lap, for
   which lookup() would then answer. *)
RegistryHoldsUnacked ==
    \A i \in 0 .. Window - 1 :
        reg[i].valid =>
            /\ reg[i].seq \in sbase .. nextSeq - 1
            /\ Slot(reg[i].seq) = i
            /\ reg[i].last <=> reg[i].seq = Blocks - 1

(* The sender never believes more than the receiver has: whatever order the
   ACKs come in, a block it could no longer resend, because apply_ack()
   confirmed it or because store() gave its slot to another, has been accepted
   by the receiver and is on its disk. *)
BelievedIsOnDisk == SenderView \subseteq got /\ got \subseteq disk

(* The oldest unacknowledged block can always be resent, so that a timeout
   never finds nothing to send (transfer.cpp:1971): no stale or reordered ACK
   confirms the very block the sender's base stops at. *)
BaseResident == sbase < nextSeq => Resident(sbase)

(* acked_bytes counts every confirmed block once, so that sent_bytes -
   acked_bytes, which is unsigned, is what is still in flight. *)
AckedOnce == nextSeq - acked = Cardinality({s \in sbase .. nextSeq - 1 : Resident(s)})

(* Success on either side means every block was written: the sender's Ok, and
   the receiver leaving with everything up to the LastBlock it saw. *)
OkMeansWritten == sstate = "ok" \/ left => Seqs \subseteq disk

-----------------------------------------------------------------------------
(* Liveness. *)

(* Both loops keep running, so an action whose condition persists is taken.
   A sender below the least limit may send; the timer of an unmoved base
   fires; the receiver answers what it heard; the network lets a datagram
   through that is sent again and again. *)
Fairness ==
    /\ WF_vars(SendBlock /\ nextSeq - acked < MinInFlight)
    /\ WF_vars(Rto)
    /\ WF_vars(Finish)
    /\ \A b \in {[seq |-> s, last |-> s = Blocks - 1] : s \in Seqs} :
          SF_vars(DataArrives(b)) /\ WF_vars(Write(b)) /\ WF_vars(Collect(b))
    /\ WF_vars(heard /\ SendAck)
    /\ SF_vars(\E a \in acks : AckArrives(a) /\ SenderView' # SenderView)
    /\ WF_vars(Leave)

FairSpec == Spec /\ Fairness

(* Every lane whose network lets repeated datagrams through ends, on both
   sides, with everything delivered, whatever was lost: the last block, every
   ACK of a base, or the window shut by one missing block. *)
LaneCompletes == <>(sstate = "ok" /\ left)
=============================================================================

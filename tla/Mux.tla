--------------------------------- MODULE Mux --------------------------------
(***************************************************************************)
(* The multiplexed transfer (proto/mux_transfer.cpp) after, and while, its *)
(* SETUP handshake completes: several streams on one socket, served by any *)
(* worker of the pool (proto/orchestrator.cpp).  Every step on a stream is *)
(* made under its mutex, so which worker makes it does not matter.         *)
(*                                                                         *)
(* As in Setup, a datagram that was sent may arrive any number of times or *)
(* never; StreamStarts, ACKs and NACKs of an earlier transfer, whose       *)
(* streams had sizes of their own, are in the network from the start (its  *)
(* DATA, which names no session, is taken to be gone).  A block is its     *)
(* number and carries one unit, except that of an empty stream, which      *)
(* carries none.  The congestion window is any number of blocks up to      *)
(* Window; a timer may fire when what it waits for is missing.             *)
(***************************************************************************)
EXTENDS Setup, Sequences, Functions

CONSTANTS
    Streams,  \* the streams of the configuration
    Units,    \* the units each stream carries (shard_bytes)
    OldSizes, \* the sizes that streams of the earlier transfer had
    OldNacks, \* the blocks that its NACKs name
    Window,   \* window_size: registry slots, receive window, backlog
    RtoHoles  \* blocks one retransmission timeout resends, 8 in the code

ASSUME MuxAssumption ==
    /\ Units \in [Streams -> Nat] /\ OldSizes \subseteq Nat /\ OldNacks \subseteq Nat
    /\ Window \in Nat \ {0} /\ RtoHoles \in Nat \ {0}

VARIABLES
    ss,       \* SenderStreamState of each stream
    rs,       \* ReceiverStreamState of each stream
    starts,   \* StreamStarts sent: stream, nonce and size
    data,     \* DATA datagrams sent: stream, block and LastBlock flag
    acks,     \* ACKs sent: stream, nonce, base and selective part
    nacks     \* NACK entries sent: stream and block

senderVars == <<ss, starts, data, sstat>>
receiverVars == <<rs, acks, nacks, rstat>>
handshakeVars == <<ini, res, setupNet, alike>>
vars == <<setupVars, ss, rs, starts, data, acks, nacks>>

None == -1
Nonces == {"this", "earlier"}   \* random_nonce() of this attempt, and an old one
BlockCount(k) == IF Units[k] = 0 THEN 1 ELSE Units[k]
Slots == 0 .. Window - 1

NewSender ==
    [startAcked |-> FALSE, base |-> 0, next |-> 0, receivedEnd |-> 0,
     reg |-> [i \in Slots |-> None], backlog |-> <<>>,
     queued |-> [i \in Slots |-> None], done |-> FALSE]
NewReceiver ==
    [start |-> FALSE, nonce |-> "this", size |-> 0, limit |-> FALSE, got |-> {},
     written |-> 0, final |-> {}, done |-> FALSE]

Init ==
    /\ SetupInit
    /\ ss = [k \in Streams |-> NewSender] /\ rs = [k \in Streams |-> NewReceiver]
    /\ starts = [k : Streams, nonce : {"earlier"}, size : OldSizes]
    /\ data = {}
    /\ acks = [k : Streams, nonce : {"earlier"}, base : OldSizes, sack : {{}}]
    /\ nacks = [k : Streams, seq : OldNacks]

-----------------------------------------------------------------------------
(* The sender's workers: try_send_one, in the order of its tests. *)

SenderWorks(k) == sstat \in {"running", "draining"} /\ ~ ss[k].done

SendStart(k) ==
    /\ SenderWorks(k) /\ ~ ss[k].startAcked
    /\ starts' = starts \cup {[k |-> k, nonce |-> "this", size |-> Units[k]]}
    /\ UNCHANGED <<handshakeVars, ss, data, sstat, receiverVars>>

Resident(k, s) == ss[k].reg[s % Window] = s

(* resend() of the blocks S that are in the registry: the LastBlock flag was
   stored with the block. *)
Resent(k, S) == {[k |-> k, seq |-> s, last |-> s + 1 = BlockCount(k)] : s \in {t \in S : Resident(k, t)}}

(* Wrong variant: the mark stays. *)
ServeBacklogMarked(k) ==
    /\ SenderWorks(k) /\ ss[k].startAcked /\ ss[k].backlog # <<>>
    /\ ss' = [ss EXCEPT ![k].backlog = Tail(@)]
    /\ data' = data \cup Resent(k, {Head(ss[k].backlog)})
    /\ UNCHANGED <<handshakeVars, starts, sstat, receiverVars>>

(* The backlog of NACKed blocks goes first. *)
ServeBacklog(k) ==
    /\ SenderWorks(k) /\ ss[k].startAcked /\ ss[k].backlog # <<>>
    /\ LET s == Head(ss[k].backlog)
       IN  /\ ss' = [ss EXCEPT ![k].backlog = Tail(@),
                               ![k].queued[s % Window] = IF @ = s THEN None ELSE @]
           /\ data' = data \cup Resent(k, {s})
    /\ UNCHANGED <<handshakeVars, starts, sstat, receiverVars>>

(* The timeout resends the base and the first holes below received_end. *)
RtoCandidates(k) ==
    {s \in ss[k].base .. ss[k].next - 1 :
        Resident(k, s) /\ (s = ss[k].base \/ s < ss[k].receivedEnd)}

Rto(k) ==
    /\ SenderWorks(k) /\ ss[k].startAcked /\ ss[k].backlog = <<>>
    /\ ss[k].base < ss[k].next
    /\ LET c == RtoCandidates(k)
       IN  data' = data \cup Resent(k, {s \in c : Cardinality({t \in c : t < s}) < RtoHoles})
    /\ UNCHANGED <<handshakeVars, ss, starts, sstat, receiverVars>>

(* Wrong variant: the window is not asked. *)
SendBlockUnlimited(k) ==
    /\ SenderWorks(k) /\ ss[k].startAcked /\ ss[k].backlog = <<>>
    /\ ss[k].next < BlockCount(k)
    /\ LET s == ss[k].next
       IN  /\ ss' = [ss EXCEPT ![k].reg[s % Window] = s, ![k].next = s + 1]
           /\ data' = data \cup {[k |-> k, seq |-> s, last |-> s + 1 = BlockCount(k)]}
    /\ UNCHANGED <<handshakeVars, starts, sstat, receiverVars>>

(* A new block, recorded before it is sent. *)
SendBlock(k) ==
    /\ SenderWorks(k) /\ ss[k].startAcked /\ ss[k].backlog = <<>>
    /\ ss[k].next < BlockCount(k) /\ ss[k].next < ss[k].base + Window
    /\ LET s == ss[k].next
       IN  /\ ss' = [ss EXCEPT ![k].reg[s % Window] = s, ![k].next = s + 1]
           /\ data' = data \cup {[k |-> k, seq |-> s, last |-> s + 1 = BlockCount(k)]}
    /\ UNCHANGED <<handshakeVars, starts, sstat, receiverVars>>

-----------------------------------------------------------------------------
(* The sender's reader: dispatch_incoming. *)

(* Wrong variant: whether the last block was sent is not asked. *)
StreamDoneEarly(t, k) == t.base >= t.next

(* Everything is acknowledged and the last block was sent. *)
StreamDone(t, k) == t.base >= t.next /\ t.next = BlockCount(k)

(* The stream after apply_ack() of a: cumulative, clamped to what was sent,
   then selective. *)
Acked(t, a) ==
    LET base == IF a.base <= t.base THEN t.base ELSE IF a.base < t.next THEN a.base ELSE t.next
        held == {s \in a.sack : s < t.next}
        ends == {t.receivedEnd, base} \cup {s + 1 : s \in held}
    IN  [t EXCEPT !.startAcked = TRUE, !.base = base,
                  !.reg = [i \in Slots |-> IF @[i] < base \/ @[i] \in held THEN None ELSE @[i]],
                  !.receivedEnd = CHOOSE e \in ends : \A x \in ends : x <= e]

(* An ACK of this attempt: it tells the stream by its nonce. *)
AckArrives(a) ==
    /\ sstat \in {"running", "draining"} /\ a.nonce = "this"
    /\ LET t == Acked(ss[a.k], a)
       IN  ss' = [ss EXCEPT ![a.k] = [t EXCEPT !.done = @ \/ StreamDone(t, a.k)]]
    /\ UNCHANGED <<handshakeVars, starts, data, sstat, receiverVars>>

(* SendQueue::push() refuses. *)
BacklogFull(k) == Len(ss[k].backlog) = Window

(* A NACKed block that is not marked as waiting joins the backlog, or is sent
   at once when that is full. *)
NackArrives(n) ==
    LET k == n.k
        s == n.seq
    IN  /\ SenderWorks(k)
        /\ ss[k].queued[s % Window] # s
        /\ ss' = IF BacklogFull(k) THEN ss
                 ELSE [ss EXCEPT ![k].backlog = Append(@, s), ![k].queued[s % Window] = s]
        /\ data' = IF BacklogFull(k) THEN data \cup Resent(k, {s}) ELSE data
        /\ UNCHANGED <<handshakeVars, starts, sstat, receiverVars>>

(* run(): the polling loop ends, the workers are drained, and what is done by
   then is the result. *)
SenderDone == \A k \in Streams : ss[k].done

SenderStops ==
    /\ sstat = "running"          \* all done, or some stream stalled too long
    /\ sstat' = "draining"
    /\ UNCHANGED <<handshakeVars, ss, starts, data, receiverVars>>

SenderReturns ==
    /\ sstat = "draining"
    /\ sstat' = IF SenderDone THEN "Ok" ELSE "Timeout"
    /\ UNCHANGED <<handshakeVars, ss, starts, data, receiverVars>>

-----------------------------------------------------------------------------
(* The receiver's workers and reader. *)

ReceiverWorks == rstat \in {"running", "draining"}

RxBase(S) == CHOOSE n \in 0 .. Cardinality(S) : n \notin S /\ 0 .. n - 1 \subseteq S

(* The first StreamStart of a stream, whoever's it is, sizes its buffer, which
   may fail. *)
StartArrives(m) ==
    /\ ReceiverWorks /\ ~ rs[m.k].start
    /\ \/ rs' = [rs EXCEPT ![m.k].start = TRUE, ![m.k].nonce = m.nonce,
                            ![m.k].size = m.size]
       \/ rs' = [rs EXCEPT ![m.k].limit = TRUE, ![m.k].done = TRUE]
    /\ UNCHANGED <<handshakeVars, senderVars, acks, nacks, rstat>>

(* The units of a block that are copied and counted: its one unit, if it lies
   in the buffer that the StreamStart sized. *)
Copied(d) == IF Units[d.k] # 0 /\ d.seq < rs[d.k].size THEN 1 ELSE 0

(* A block new to the window is accepted, and if it fits written to its place
   and counted. *)
DataArrives(d) ==
    LET r == rs[d.k]
    IN  /\ ReceiverWorks /\ r.start
        /\ d.seq \notin r.got /\ d.seq < RxBase(r.got) + Window
        /\ rs' = [rs EXCEPT ![d.k].got = @ \cup {d.seq},
                            ![d.k].written = @ + Copied(d),
                            ![d.k].final = IF d.last THEN {d.seq} ELSE @]
        /\ UNCHANGED <<handshakeVars, senderVars, acks, nacks, rstat>>

CurrentAck(k) ==
    [k |-> k, nonce |-> rs[k].nonce, base |-> RxBase(rs[k].got),
     sack |-> {s \in rs[k].got : s > RxBase(rs[k].got)}]
Gaps(k) == {s \in 0 .. BlockCount(k) - 1 : s \notin rs[k].got /\ \E t \in rs[k].got : s < t}

(* try_service_one: an ACK and the gaps that are due, then the end of the
   stream, after which it is not served again. *)
Service(k) ==
    /\ ReceiverWorks /\ rs[k].start /\ ~ rs[k].done
    /\ acks' \in {acks, acks \cup {CurrentAck(k)}}
    /\ \E due \in SUBSET Gaps(k) : nacks' = nacks \cup [k : {k}, seq : due]
    /\ rs' = [rs EXCEPT ![k].done = \E f \in rs[k].final : RxBase(rs[k].got) > f]
    /\ UNCHANGED <<handshakeVars, senderVars, rstat>>

ReceiverStops ==
    /\ rstat = "running"          \* all done, or some stream stalled too long
    /\ rstat' = "draining"
    /\ UNCHANGED <<handshakeVars, senderVars, rs, acks, nacks>>

(* The parting ACKs, and the worst result of any stream; Timeout stands for
   Incomplete too. *)
ReceiverReturns ==
    /\ rstat = "draining"
    /\ acks' = acks \cup {CurrentAck(k) : k \in {j \in Streams : rs[j].start /\ ~ rs[j].limit}}
    /\ rstat' = IF \E k \in Streams : rs[k].limit THEN "ResourceLimit"
                ELSE IF \A k \in Streams : rs[k].start /\ rs[k].written = rs[k].size THEN "Ok"
                ELSE "Timeout"
    /\ UNCHANGED <<handshakeVars, senderVars, rs, nacks>>

StreamNext ==
    \/ \E k \in Streams :
          SendStart(k) \/ ServeBacklog(k) \/ Rto(k) \/ SendBlock(k) \/ Service(k)
    \/ \E a \in acks : AckArrives(a)
    \/ \E n \in nacks : NackArrives(n)
    \/ \E m \in starts : StartArrives(m)
    \/ \E d \in data : DataArrives(d)
    \/ SenderStops \/ SenderReturns \/ ReceiverStops \/ ReceiverReturns

Next ==
    \/ SetupNext /\ UNCHANGED <<ss, rs, starts, data, acks, nacks>>
    \/ StreamNext

Spec == Init /\ [][Next]_vars

-----------------------------------------------------------------------------
Statuses == {"setup", "running", "draining", "Ok", "Timeout"}

TypeOK ==
    /\ SetupTypeOK
    /\ sstat \in Statuses \cup {"VersionMismatch"}
    /\ rstat \in Statuses \cup {"ResourceLimit"}
    /\ \A k \in Streams :
          /\ ss[k].base \in 0 .. ss[k].next /\ ss[k].next \in 0 .. BlockCount(k)
          /\ ss[k].receivedEnd \in 0 .. ss[k].next
          /\ ss[k].reg \in [Slots -> Nat \cup {None}]
          /\ ss[k].queued \in [Slots -> Nat \cup {None}]
          /\ Len(ss[k].backlog) <= Window
          /\ rs[k].got \subseteq 0 .. ss[k].next - 1
          /\ rs[k].written \in 0 .. Units[k] /\ rs[k].size \in {0, Units[k]} \cup OldSizes

(* Every unit of the stream has arrived. *)
Whole(k) == 0 .. Units[k] - 1 \subseteq rs[k].got

(* What send_multiplexed reports as sent has arrived, every stream whole: no
   ACK of an earlier transfer, no selective ACK, no repeated block and no early
   end of a stream makes run() say Ok too soon.  So has what
   receive_multiplexed reports as received, except for a stream whose first
   StreamStart was an earlier transfer's and named no bytes (dispatch_incoming
   takes any first StreamStart, mux_transfer.cpp:748). *)
OkIsComplete ==
    /\ sstat = "Ok" => \A k \in Streams : Whole(k)
    /\ rstat = "Ok" => \A k \in Streams : Whole(k) \/ (rs[k].nonce = "earlier" /\ rs[k].size = 0)

(* receive_multiplexed blocks until the transfer is complete or has failed
   (mux_transfer.hpp:72): its Ok means that every stream has arrived whole. *)
ReceivedIsComplete == rstat = "Ok" => \A k \in Streams : Whole(k)

(* A block marked as waiting for its resend is in the backlog
   (mux_transfer.cpp:109), so that no NACK is dropped for nothing: stale NACKs
   of blocks that share the position included. *)
MarkedIsQueued ==
    \A k \in Streams : \A i \in Slots :
        ss[k].queued[i] # None => ss[k].queued[i] \in Range(ss[k].backlog)

(* The oldest unacknowledged block of a stream can be resent. *)
BaseResident ==
    \A k \in Streams : ss[k].base < ss[k].next => Resident(k, ss[k].base)
=============================================================================

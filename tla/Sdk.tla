-------------------------------- MODULE Sdk ---------------------------------
(***************************************************************************)
(* One direction of an SDK connection (proto/sdk.cpp): application threads *)
(* in fuse_send() at the sending end "S", a lossy network, and the         *)
(* receiving end "R" with its reassembly, its inbox and a thread in        *)
(* fuse_recv().  Each end has a pump thread; every step below is what one  *)
(* thread does while it holds the connection's mutex.  Either end may call *)
(* fuse_close() at any time.                                               *)
(*                                                                         *)
(* A block carries one unit of its message at its offset; an empty message *)
(* is one block that carries none.  A call's timeout may expire whenever   *)
(* it waits.  Addresses, encryption and RTT estimation are left out; the   *)
(* congestion window is any number of blocks from MinRoom to Window.       *)
(***************************************************************************)
EXTENDS Integers, Sequences, FiniteSets, Functions

CONSTANTS
    Callers,   \* threads that call fuse_send
    Messages,  \* what they may send
    MsgLen,    \* the length of each message, in blocks
    Window,    \* kWindow
    MinRoom,   \* the least the congestion window allows, 4 in the code
    InboxCap,  \* kMaxInboxBytes
    MaxClosing \* bound: how many of the two ends call fuse_close

ASSUME SdkAssumption ==
    /\ MsgLen \in [Messages -> Nat]
    /\ Window \in Nat \ {0} /\ MinRoom \in 1 .. Window
    /\ InboxCap \in Nat \ {0} /\ MaxClosing \in 0 .. 2

VARIABLES
    reg,        \* the registry with tx_meta, one slot per seq % Window
    txBase, txNext, sendBusy,
    call,       \* where each thread is in fuse_send
    data,       \* DATA datagrams in flight
    acks,       \* ACKs in flight: their base
    nacks,      \* sequence numbers named by NACKs in flight
    byes,       \* ends whose CLOSE is in flight
    got,        \* blocks the receive window has accepted
    asm,        \* asm_buf, asm_end_seq and asm_total
    inbox,      \* messages complete and not yet received
    reader,     \* whether a thread is in fuse_recv
    peerClosed, \* peer_closed, at each end
    link,       \* how far fuse_close has come, at each end
    \* what the applications have seen
    order,      \* messages in the order their first block was due
    ok,         \* messages whose fuse_send returned FUSE_OK
    gaveUp,     \* a fuse_send timed out with blocks of its message sent
    received,   \* what fuse_recv returned
    toldClosed  \* fuse_recv returned FUSE_ERR_CLOSED for the peer's close

txVars == <<reg, txBase, txNext>>
callVars == <<sendBusy, call, order, ok, gaveUp>>
netVars == <<data, acks, nacks>>
rxVars == <<got, asm, inbox>>
readVars == <<reader, received, toldClosed>>
closeVars == <<byes, peerClosed, link>>
vars == <<txVars, callVars, netVars, rxVars, readVars, closeVars>>

Ends == {"S", "R"}
Open(e) == link[e] = "open"
Pumping(e) == link[e] \in {"open", "closing"}

(* The datagrams on their way to end e: once its pump has stopped, none will
   be read. *)
Toward(e, net) == IF Pumping(e) THEN net ELSE {}

Idle == [pc |-> "idle", msg |-> 0, next |-> 0, last |-> 0]
Empty == [seq |-> -1, msg |-> 0, off |-> 0, len |-> 0, last |-> FALSE]
Nothing == [buf |-> <<>>, end |-> {}, total |-> 0]

Init ==
    /\ reg = [i \in 0 .. Window - 1 |-> Empty] /\ txBase = 0 /\ txNext = 0
    /\ sendBusy = FALSE /\ call = [t \in Callers |-> Idle]
    /\ data = {} /\ acks = {} /\ nacks = {} /\ byes = {}
    /\ got = {} /\ asm = Nothing /\ inbox = <<>>
    /\ reader = "idle"
    /\ peerClosed = [e \in Ends |-> FALSE] /\ link = [e \in Ends |-> "open"]
    /\ order = <<>> /\ ok = {} /\ gaveUp = FALSE
    /\ received = <<>> /\ toldClosed = FALSE

-----------------------------------------------------------------------------
(* fuse_send: one message at a time, block by block, until all of it is
   acknowledged. *)

Resident(s) == reg[s % Window].seq = s
Confirm(S) == [i \in DOMAIN reg |-> IF reg[i].seq \in S THEN Empty ELSE reg[i]]

BlockCount(m) == IF MsgLen[m] = 0 THEN 1 ELSE MsgLen[m]

(* Block i of message m, the next one to be sent. *)
BlockOf(m, i) ==
    [seq |-> txNext, msg |-> m, off |-> i, len |-> IF i < MsgLen[m] THEN 1 ELSE 0,
     last |-> i + 1 = BlockCount(m)]

SendStarts(t) ==
    /\ call[t].pc = "idle" /\ Open("S")
    /\ \E m \in Messages \ (Range(order) \cup {call[u].msg : u \in Callers}) :
          call' = [call EXCEPT ![t] = [pc |-> "entering", msg |-> m, next |-> 0, last |-> 0]]
    /\ UNCHANGED <<txVars, sendBusy, order, ok, gaveUp, netVars, rxVars, readVars, closeVars>>

(* Wrong variant: two calls send at once. *)
TakeTurnAnyway(t) ==
    /\ call[t].pc = "entering"
    /\ ~ peerClosed["S"] /\ Open("S")
    /\ sendBusy' = TRUE
    /\ call' = [call EXCEPT ![t].pc = "sending", ![t].last = txNext + BlockCount(call[t].msg) - 1]
    /\ order' = Append(order, call[t].msg)
    /\ UNCHANGED <<txVars, ok, gaveUp, netVars, rxVars, readVars, closeVars>>

(* The wait for send_busy ends well. *)
TakeTurn(t) ==
    /\ call[t].pc = "entering"
    /\ ~ sendBusy /\ ~ peerClosed["S"] /\ Open("S")
    /\ sendBusy' = TRUE
    /\ call' = [call EXCEPT ![t].pc = "sending", ![t].last = txNext + BlockCount(call[t].msg) - 1]
    /\ order' = Append(order, call[t].msg)
    /\ UNCHANGED <<txVars, ok, gaveUp, netVars, rxVars, readVars, closeVars>>

(* Room in the congestion window: certain, or possible. *)
InFlight == txNext - txBase
Room == InFlight < MinRoom
MaybeRoom == InFlight < Window

SendBlock(t) ==
    /\ call[t].pc = "sending"
    /\ MaybeRoom /\ ~ peerClosed["S"]
    /\ LET b == BlockOf(call[t].msg, call[t].next)
       IN  /\ reg' = [reg EXCEPT ![txNext % Window] = b]
           /\ data' = Toward("R", data \cup {b})
           /\ call' = [call EXCEPT ![t].next = @ + 1,
                                   ![t].pc = IF b.last THEN "confirming" ELSE "sending"]
    /\ txNext' = txNext + 1
    /\ UNCHANGED <<txBase, sendBusy, order, ok, gaveUp, acks, nacks, rxVars, readVars, closeVars>>

(* The destructors: a call that holds the turn gives it back. *)
Leaves(t) ==
    /\ call' = [call EXCEPT ![t] = Idle]
    /\ sendBusy' = IF call[t].pc = "entering" THEN sendBusy ELSE FALSE
    /\ UNCHANGED <<txVars, order, netVars, rxVars, readVars, closeVars>>

(* The whole message is acknowledged: FUSE_OK. *)
SendOk(t) ==
    /\ call[t].pc = "confirming" /\ txBase > call[t].last
    /\ ok' = ok \cup {call[t].msg}
    /\ Leaves(t) /\ UNCHANGED gaveUp

(* What the call waits for in wait_for() may be missing. *)
Waiting(t) ==
    \/ call[t].pc = "entering" /\ sendBusy
    \/ call[t].pc = "sending" /\ ~ Room
    \/ call[t].pc = "confirming" /\ txBase <= call[t].last

(* Wrong variant: only the peer's close ends a wait. *)
SendClosedByPeer(t) ==
    /\ call[t].pc # "idle"
    /\ peerClosed["S"] /\ ~ (call[t].pc = "confirming" /\ txBase > call[t].last)
    /\ Leaves(t) /\ UNCHANGED <<ok, gaveUp>>

(* The peer has closed, or this end closes while the call waits:
   FUSE_ERR_CLOSED. *)
SendClosed(t) ==
    /\ call[t].pc # "idle"
    /\ \/ peerClosed["S"] /\ ~ (call[t].pc = "confirming" /\ txBase > call[t].last)
       \/ ~ Open("S") /\ (Waiting(t) \/ call[t].pc = "entering")
    /\ Leaves(t) /\ UNCHANGED <<ok, gaveUp>>

SendTimesOut(t) ==
    /\ Waiting(t)
    /\ gaveUp' = (gaveUp \/ call[t].pc # "entering")
    /\ Leaves(t) /\ UNCHANGED ok

-----------------------------------------------------------------------------
(* The pump of the sending end. *)

(* An arrival leaves the network, or stays to arrive again. *)
Arrives(net, m, net1) == m \in net /\ (net1 = net \/ net1 = net \ {m})

AckArrives(b) ==
    /\ Pumping("S") /\ Arrives(acks, b, acks')
    /\ LET newBase == IF b <= txBase THEN txBase ELSE IF b < txNext THEN b ELSE txNext
       IN  /\ reg' = Confirm(txBase .. newBase - 1)
           /\ txBase' = newBase
    /\ UNCHANGED <<txNext, callVars, data, nacks, rxVars, readVars, closeVars>>

(* retransmit_locked(): the block as it is in the registry, if it is. *)
Resend(s) ==
    data' = IF Resident(s) THEN Toward("R", data \cup {reg[s % Window]}) ELSE data

NackArrives(s) ==
    /\ Pumping("S") /\ Arrives(nacks, s, nacks')
    /\ Resend(s)
    /\ UNCHANGED <<txVars, callVars, acks, rxVars, readVars, closeVars>>

(* The retransmission timeout resends the base. *)
Rto ==
    /\ Pumping("S") /\ txBase < txNext
    /\ Resend(txBase)
    /\ UNCHANGED <<txVars, callVars, acks, nacks, rxVars, readVars, closeVars>>

-----------------------------------------------------------------------------
(* The pump of the receiving end. *)

RxBase(S) == CHOOSE n \in 0 .. Cardinality(S) : n \notin S /\ 0 .. n - 1 \subseteq S

(* inbox_bytes *)
InboxBytes == SumFunction([i \in DOMAIN inbox |-> Len(inbox[i])])

Resized(buf, n) == [i \in 1 .. n |-> IF i <= Len(buf) THEN buf[i] ELSE <<"zero">>]
Larger(a, b) == IF a > b THEN a ELSE b

(* Block b is copied to its offset; the last one tells where the message
   ends. *)
Assembled(b) ==
    LET end == b.off + b.len
        buf == Resized(asm.buf, Larger(end, Len(asm.buf)))
    IN  [buf |-> IF b.len = 0 THEN buf ELSE [buf EXCEPT ![end] = <<b.msg, b.off>>],
         end |-> IF b.last THEN {b.seq} ELSE asm.end,
         total |-> IF b.last THEN end ELSE asm.total]

(* The message goes to the inbox once the window has passed its last block. *)
Delivered(a, base) ==
    IF \E s \in a.end : base > s
    THEN /\ inbox' = Append(inbox, Resized(a.buf, a.total))
         /\ asm' = Nothing
    ELSE asm' = a /\ UNCHANGED inbox

New(b) == b.seq \in RxBase(got) .. RxBase(got) + Window - 1 /\ b.seq \notin got

(* Wrong variant: the window takes the block before the inbox is asked. *)
HandleDataAdmitting(b) ==
    IF New(b)
    THEN /\ got' = got \cup {b.seq}
         /\ IF InboxBytes >= InboxCap THEN UNCHANGED <<asm, inbox>>
            ELSE Delivered(Assembled(b), RxBase(got'))
    ELSE UNCHANGED rxVars

(* handle_data_locked(): a full inbox admits nothing; a block that is new to
   the window is assembled. *)
HandleData(b) ==
    IF InboxBytes < InboxCap /\ New(b)
    THEN /\ got' = got \cup {b.seq}
         /\ Delivered(Assembled(b), RxBase(got'))
    ELSE UNCHANGED rxVars

(* A batch with data in it, admitted or not, is answered with an ACK. *)
DataArrives(b) ==
    /\ Pumping("R") /\ Arrives(data, b, data')
    /\ HandleData(b)
    /\ acks' = Toward("S", acks \cup {RxBase(got')})
    /\ UNCHANGED <<txVars, callVars, nacks, readVars, closeVars>>

(* collect_nacks(): gaps below the highest block accepted. *)
SendNack(s) ==
    /\ Pumping("R")
    /\ s \notin got /\ \E q \in got : s < q
    /\ nacks' = Toward("S", nacks \cup {s})
    /\ UNCHANGED <<txVars, callVars, data, acks, rxVars, readVars, closeVars>>

-----------------------------------------------------------------------------
(* fuse_recv. *)

RecvStarts ==
    /\ reader = "idle" /\ Open("R")
    /\ reader' = "waiting"
    /\ UNCHANGED <<txVars, callVars, netVars, rxVars, received, toldClosed, closeVars>>

(* Wrong variant: the peer's close is reported before what is queued. *)
RecvReturnsClosedFirst ==
    /\ reader = "waiting" /\ reader' = "idle"
    /\ \/ /\ inbox # <<>> /\ ~ peerClosed["R"]
          /\ received' = Append(received, Head(inbox))
          /\ inbox' = Tail(inbox)
          /\ UNCHANGED toldClosed
       \/ /\ peerClosed["R"]
          /\ toldClosed' = TRUE
          /\ UNCHANGED <<inbox, received>>
    /\ UNCHANGED <<txVars, callVars, netVars, got, asm, closeVars>>

(* The oldest message; or, with none left, that the peer has closed. *)
RecvReturns ==
    /\ reader = "waiting" /\ reader' = "idle"
    /\ \/ /\ inbox # <<>>
          /\ received' = Append(received, Head(inbox))
          /\ inbox' = Tail(inbox)
          /\ UNCHANGED toldClosed
       \/ /\ inbox = <<>> /\ peerClosed["R"]
          /\ toldClosed' = TRUE
          /\ UNCHANGED <<inbox, received>>
    /\ UNCHANGED <<txVars, callVars, netVars, got, asm, closeVars>>

(* FUSE_ERR_BUFFER leaves the message queued. *)
RecvTooSmall ==
    /\ reader = "waiting" /\ inbox # <<>>
    /\ reader' = "idle"
    /\ UNCHANGED <<txVars, callVars, netVars, rxVars, received, toldClosed, closeVars>>

NothingToReceive == reader = "waiting" /\ inbox = <<>> /\ ~ peerClosed["R"]

RecvTimesOut ==
    /\ NothingToReceive
    /\ reader' = "idle"
    /\ UNCHANGED <<txVars, callVars, netVars, rxVars, received, toldClosed, closeVars>>

(* This end closes: a waiting fuse_recv, which may have no timeout, ends. *)
RecvClosing ==
    /\ NothingToReceive /\ ~ Open("R")
    /\ reader' = "idle"
    /\ UNCHANGED <<txVars, callVars, netVars, rxVars, received, toldClosed, closeVars>>

-----------------------------------------------------------------------------
(* fuse_close: say goodbye, stop and join the pump, wait until no thread is
   inside a call (in_use), free.  The backstop that ends that last wait after
   two seconds is left out. *)

Other(e) == IF e = "S" THEN "R" ELSE "S"
InUse(e) == IF e = "S" THEN \E t \in Callers : call[t].pc # "idle" ELSE reader = "waiting"

Close(e) ==
    /\ Open(e) /\ Cardinality({f \in Ends : ~ Open(f)}) < MaxClosing
    /\ link' = [link EXCEPT ![e] = "closing"]
    /\ byes' = IF Pumping(Other(e)) THEN byes \cup {e} ELSE byes
    /\ UNCHANGED <<txVars, callVars, netVars, rxVars, readVars, peerClosed>>

StopPump(e) ==
    /\ link[e] = "closing"
    /\ link' = [link EXCEPT ![e] = "stopped"]
    /\ data' = IF e = "R" THEN {} ELSE data
    /\ acks' = IF e = "S" THEN {} ELSE acks
    /\ nacks' = IF e = "S" THEN {} ELSE nacks
    /\ byes' = byes \ {Other(e)}
    /\ UNCHANGED <<txVars, callVars, rxVars, readVars, peerClosed>>

Free(e) ==
    /\ link[e] = "stopped" /\ ~ InUse(e)
    /\ link' = [link EXCEPT ![e] = "freed"]
    /\ UNCHANGED <<txVars, callVars, netVars, rxVars, readVars, byes, peerClosed>>

ByeArrives(e) ==
    /\ Pumping(Other(e)) /\ Arrives(byes, e, byes')
    /\ peerClosed' = [peerClosed EXCEPT ![Other(e)] = TRUE]
    /\ UNCHANGED <<txVars, callVars, netVars, rxVars, readVars, link>>

(* The network drops a datagram. *)
Lose ==
    /\ \/ \E b \in data : data' = data \ {b} /\ UNCHANGED <<acks, nacks, byes>>
       \/ \E b \in acks : acks' = acks \ {b} /\ UNCHANGED <<data, nacks, byes>>
       \/ \E s \in nacks : nacks' = nacks \ {s} /\ UNCHANGED <<data, acks, byes>>
       \/ \E e \in byes : byes' = byes \ {e} /\ UNCHANGED netVars
    /\ UNCHANGED <<txVars, callVars, rxVars, readVars, peerClosed, link>>

Next ==
    \/ \E t \in Callers :
          \/ SendStarts(t) \/ TakeTurn(t) \/ SendBlock(t)
          \/ SendOk(t) \/ SendClosed(t) \/ SendTimesOut(t)
    \/ \E b \in acks : AckArrives(b)
    \/ \E s \in nacks : NackArrives(s)
    \/ Rto
    \/ \E b \in data : DataArrives(b)
    \/ \E s \in 0 .. txNext : SendNack(s)
    \/ RecvStarts \/ RecvReturns \/ RecvTooSmall \/ RecvTimesOut \/ RecvClosing
    \/ \E e \in Ends : Close(e) \/ StopPump(e) \/ Free(e) \/ ByeArrives(e)
    \/ Lose

Spec == Init /\ [][Next]_vars

-----------------------------------------------------------------------------
(* Safety. *)

Block == [seq : Nat, msg : Messages, off : Nat, len : {0, 1}, last : BOOLEAN]
Cell == {<<"zero">>} \cup (Messages \X Nat)

TypeOK ==
    /\ reg \in [0 .. Window - 1 -> Block \cup {Empty}]
    /\ txBase \in 0 .. txNext /\ txNext \in Nat /\ sendBusy \in BOOLEAN
    /\ call \in [Callers -> [pc : {"idle", "entering", "sending", "confirming"},
                             msg : Messages \cup {0}, next : Nat, last : Int]]
    /\ data \subseteq Block /\ acks \subseteq Nat /\ nacks \subseteq Nat /\ byes \subseteq Ends
    /\ got \subseteq 0 .. txNext - 1
    /\ asm \in [buf : Seq(Cell), end : SUBSET Nat, total : Nat]
    /\ inbox \in Seq(Seq(Cell)) /\ received \in Seq(Seq(Cell))
    /\ reader \in {"idle", "waiting"} /\ toldClosed \in BOOLEAN
    /\ peerClosed \in [Ends -> BOOLEAN]
    /\ link \in [Ends -> {"open", "closing", "stopped", "freed"}]
    /\ order \in Seq(Messages) /\ ok \subseteq Messages /\ gaveUp \in BOOLEAN

Whole(m) == [i \in 1 .. MsgLen[m] |-> <<m, i - 1>>]
Arrived == received \o inbox

(* Message boundaries hold (sdk.h:20): until a fuse_send gives up, what has
   arrived are the messages sent, whole, once each and in order, however the
   calls of several threads and the datagrams of consecutive messages mix. *)
ArrivalsInOrder ==
    ~ gaveUp => \A i \in DOMAIN Arrived :
                    i \in DOMAIN order /\ Arrived[i] = Whole(order[i])

(* A successful send means that the message arrived (sdk.h:28). *)
OkHasArrived == \A m \in ok : Whole(m) \in Range(Arrived)

(* The same, as far as the code keeps it: until a fuse_send gives up. *)
OkHasArrivedUntilTimeout == ~ gaveUp => OkHasArrived

(* fuse_recv reports the peer's close only when every message acknowledged so
   far has been received: the CLOSE overtakes none of them. *)
NothingLeftAtClose ==
    [][toldClosed' /\ ~ toldClosed /\ ~ gaveUp =>
          \A m \in ok : Whole(m) \in Range(received)]_vars

-----------------------------------------------------------------------------
(* Liveness. *)

(* Threads keep running: a call that can go on, or whose wait is over, does,
   and so does fuse_close.  Nothing is assumed of the network, of the pumps
   or of the timeouts of calls. *)
Fairness ==
    /\ \A t \in Callers :
          WF_vars((Room /\ SendBlock(t)) \/ SendOk(t) \/ SendClosed(t))
    /\ WF_vars(RecvReturns \/ RecvClosing)
    /\ \A e \in Ends : WF_vars(StopPump(e) \/ Free(e))

FairSpec == Spec /\ Fairness

(* fuse_close returns: with the pump gone and no ACK to come, every call inside
   the connection still notices, be it in a wait without a timeout. *)
CloseReturns == \A e \in Ends : (link[e] = "closing") ~> (link[e] = "freed")
=============================================================================

----------------------------- MODULE LaneSession -----------------------------
(***************************************************************************)
(* The control plane of a bulk transfer (proto/transfer.cpp): how the lanes *)
(* of a send call and of a receive call start together, end together, and  *)
(* what they report.  Each lane has a send_lane and a recv_lane thread; the *)
(* lanes of a call share stop_all and, on the receiving side, the output.  *)
(*                                                                         *)
(* A datagram sent may arrive any number of times, or never.  The data     *)
(* plane is Lane: here a lane's data is delivered in one step.  The nonce  *)
(* and the token of a session are the session itself: a datagram belongs   *)
(* to this transfer or to an earlier one on the same ports, and a          *)
(* StreamStart carries the token or does not.                              *)
(***************************************************************************)
EXTENDS Integers, FiniteSets

CONSTANT Lanes  \* lane 0 carries the digest of a resumed transfer

ASSUME LanesAssumption == Lanes \subseteq Nat /\ 0 \in Lanes /\ IsFiniteSet(Lanes)

VARIABLES
    keyed,     \* the receiver has a pre-shared key
    peers,     \* "alike", or the two ends differ in "keys" or in "version"
    \* the send call
    send,      \* per lane: "handshake", "sending", "digest" or its final status
    token,     \* lanes that hold the receiver's token
    acked,     \* lanes whose StreamStart was acknowledged
    answered,  \* lanes that have the receiver's ranges
    sStop,     \* stop_all of the send call
    sCancel,   \* its cancel flag
    \* the receive call
    recv,      \* per lane: "waiting", "started", "complete" or its final status
    bad,       \* lanes with bad_starts > 0
    delivered, \* lanes whose blocks are all written
    finished,  \* lanes with peer_finished
    rStop,     \* stop_all of the receive call
    rCancel,   \* its cancel flag
    owner,     \* lanes that won file_total: a set of at most one
    sink,      \* sink_state
    resumed,   \* the output resumes an earlier partial copy
    digest,    \* have_digest
    ioFailed,  \* lanes with a failed write: io_failed says there is one
    \* the network
    toRecv, toSend,  \* per lane, datagrams sent
    told       \* lanes whose sender was handed the receiver's abort

senderVars == <<send, token, acked, answered, sStop>>
receiverVars == <<recv, bad, delivered, finished, rStop, owner, sink, digest>>
outsideVars == <<keyed, peers, sCancel, rCancel, resumed, ioFailed>>
vars == <<senderVars, receiverVars, outsideVars, toRecv, toSend, told>>

Sending == {"handshake", "sending", "digest"}
Receiving == {"waiting", "started", "complete"}
InSession(l) == recv[l] \in {"started", "complete"}

Start(t) == [type |-> "start", token |-> t, this |-> TRUE]
Msg(type) == [type |-> type, this |-> TRUE]
Stale(type) == [type |-> type, this |-> FALSE]

(* A lane that cannot open its socket, or set up its keys, ends there. *)
SenderInit ==
    /\ send \in [Lanes -> {"handshake", "socket_error"}]
    /\ token = {} /\ acked = {} /\ answered = {}
    /\ sStop = FALSE /\ sCancel = FALSE

ReceiverInit ==
    /\ recv \in [Lanes -> {"waiting", "socket_error"}]
    /\ bad = {} /\ delivered = {} /\ finished = {} /\ owner = {} /\ sink = "pending" /\ digest = FALSE
    /\ rStop = FALSE /\ rCancel = FALSE /\ ioFailed = {}

Init ==
    /\ keyed \in BOOLEAN /\ resumed \in BOOLEAN
    /\ peers \in {"alike", "keys", "version"}
    /\ SenderInit /\ ReceiverInit
    /\ toRecv = [l \in Lanes |-> {Stale("finished"), Stale("aborted")}]
    /\ toSend = [l \in Lanes |-> {Stale("ack"), Stale("aborted")}]
    /\ told = {}

(* Data flows once the sender has the acknowledgement and the ranges. *)
Writing(l) == recv[l] = "started" /\ l \in acked /\ l \in answered

ToRecv(l, m) == toRecv' = [toRecv EXCEPT ![l] = @ \cup {m}]
ToSend(l, m) == toSend' = [toSend EXCEPT ![l] = @ \cup {m}]

-----------------------------------------------------------------------------
(* The outside: either caller cancels, a write fails. *)
Outside ==
    /\ \/ ~ sCancel /\ sCancel' = TRUE /\ UNCHANGED <<rCancel, ioFailed>>
       \/ ~ rCancel /\ rCancel' = TRUE /\ UNCHANGED <<sCancel, ioFailed>>
       \/ /\ ioFailed = {}
          /\ \E l \in Lanes : Writing(l) /\ ioFailed' = {l}
          /\ UNCHANGED <<sCancel, rCancel>>
    /\ UNCHANGED <<senderVars, receiverVars, keyed, peers, resumed, toRecv, toSend, told>>

-----------------------------------------------------------------------------
(* send_lane. *)

Leave(l, status) == send' = [send EXCEPT ![l] = status]

(* A lane leaves at the caller's cancel, at a sibling's stop, or at its own
   timeout, and tells the receiver. *)
SendCancelled(l) ==
    /\ send[l] \in Sending /\ sCancel
    /\ Leave(l, "cancelled") /\ sStop' = TRUE
    /\ ToRecv(l, Msg("aborted"))
    /\ UNCHANGED <<token, acked, answered, receiverVars, outsideVars, toSend, told>>

SendStopped(l) ==
    /\ send[l] \in Sending /\ sStop
    /\ Leave(l, "peer_aborted")
    /\ ToRecv(l, Msg("aborted"))
    /\ UNCHANGED <<token, acked, answered, sStop, receiverVars, outsideVars, toSend, told>>

SendTimeout(l) ==
    /\ send[l] \in Sending
    /\ Leave(l, "timeout")
    /\ ToRecv(l, Msg("aborted"))
    /\ UNCHANGED <<token, acked, answered, sStop, receiverVars, outsideVars, toSend, told>>

(* The handshake: StreamStart until it is acknowledged and answered. *)
SendStart(l) ==
    /\ send[l] = "handshake"
    /\ ToRecv(l, Start(l \in token))
    /\ UNCHANGED <<senderVars, receiverVars, outsideVars, toSend, told>>

(* The token, the acknowledgement and the answer may come in any order; the
   lane starts when it has the last two. *)
HandshakeReply(l, m) ==
    /\ send[l] = "handshake" /\ m \in toSend[l] /\ m.this
    /\ token' = IF m.type = "retry" THEN token \cup {l} ELSE token
    /\ acked' = IF m.type = "ack" THEN acked \cup {l} ELSE acked
    /\ answered' = IF m.type = "answer" THEN answered \cup {l} ELSE answered
    /\ send' = IF l \in acked' /\ l \in answered' THEN [send EXCEPT ![l] = "sending"] ELSE send
    /\ m.type \in {"retry", "ack", "answer"}
    /\ UNCHANGED <<sStop, receiverVars, outsideVars, toRecv, toSend, told>>

(* A handshake ends when the receiver speaks another version or cannot
   authenticate it; no other close is heeded. *)
HandshakeClose(l, m) ==
    /\ send[l] = "handshake" /\ m \in toSend[l] /\ m.this
    /\ \/ /\ m.type \in {"auth_failed", "version_mismatch"}
          /\ Leave(l, m.type) /\ sStop' = TRUE
          /\ UNCHANGED told
       \/ /\ m.type = "aborted"
          /\ told' = told \cup {l}
          /\ UNCHANGED <<send, sStop>>
    /\ UNCHANGED <<token, acked, answered, receiverVars, outsideVars, toRecv, toSend>>

(* From then on an abort of this session ends the lane and its siblings. *)
SendAborted(l, m) ==
    /\ send[l] \in {"sending", "digest"} /\ m \in toSend[l]
    /\ m.this /\ m.type = "aborted"
    /\ Leave(l, "peer_aborted") /\ sStop' = TRUE
    /\ told' = told \cup {l}
    /\ UNCHANGED <<token, acked, answered, receiverVars, outsideVars, toRecv, toSend>>

(* Everything is acknowledged.  Lane 0 of a resumed transfer still has to
   hand over the digest. *)
AllAcked(l) ==
    /\ send[l] = "sending"
    /\ l \in delivered
    /\ IF resumed /\ l = 0
       THEN Leave(l, "digest") /\ ToRecv(l, Msg("digest"))
       ELSE Leave(l, "ok") /\ ToRecv(l, Msg("finished"))
    /\ UNCHANGED <<token, acked, answered, sStop, receiverVars, outsideVars, toSend, told>>

DigestEchoed(l) ==
    /\ send[l] = "digest" /\ Msg("echo") \in toSend[l]
    /\ Leave(l, "ok") /\ ToRecv(l, Msg("finished"))
    /\ UNCHANGED <<token, acked, answered, sStop, receiverVars, outsideVars, toSend, told>>

-----------------------------------------------------------------------------
(* recv_lane. *)

(* The lane that won the output is busy until it is prepared. *)
Polls(l) == recv[l] \in Receiving /\ ~ (l \in owner /\ sink = "pending")

Exit(l, status) == recv' = [recv EXCEPT ![l] = status]

(* give_up(): the sender is told once there is a session. *)
Tell(l) == toSend' = IF InSession(l) THEN [toSend EXCEPT ![l] = @ \cup {Msg("aborted")}]
                     ELSE toSend

(* A lane that never started and saw StreamStarts it could not authenticate
   says so. *)
Classify(l, status) == IF ~ InSession(l) /\ l \in bad THEN "auth_failed" ELSE status

RecvCancelled(l) ==
    /\ Polls(l) /\ rCancel
    /\ Exit(l, "cancelled") /\ rStop' = TRUE /\ Tell(l)
    /\ UNCHANGED <<senderVars, bad, delivered, finished, owner, sink, digest, outsideVars>>
    /\ UNCHANGED <<toRecv, told>>

RecvStopped(l) ==
    /\ Polls(l) /\ rStop
    /\ Exit(l, Classify(l, "peer_aborted")) /\ Tell(l)
    /\ UNCHANGED <<senderVars, bad, delivered, finished, rStop, owner, sink, digest>>
    /\ UNCHANGED <<outsideVars, toRecv, told>>

RecvIoError(l) ==
    /\ Polls(l) /\ ioFailed # {}
    /\ Exit(l, "io_error") /\ rStop' = TRUE /\ Tell(l)
    /\ UNCHANGED <<senderVars, bad, delivered, finished, owner, sink, digest, outsideVars>>
    /\ UNCHANGED <<toRecv, told>>

(* Wrong variant: no idle timeout once the data is complete. *)
RecvTimeoutUntilComplete(l) ==
    /\ Polls(l) /\ recv[l] # "complete"
    /\ Exit(l, Classify(l, "timeout")) /\ Tell(l)
    /\ UNCHANGED <<senderVars, bad, delivered, finished, rStop, owner, sink, digest>>
    /\ UNCHANGED <<outsideVars, toRecv, told>>

RecvTimeout(l) ==
    /\ Polls(l)
    /\ Exit(l, Classify(l, "timeout")) /\ Tell(l)
    /\ UNCHANGED <<senderVars, bad, delivered, finished, rStop, owner, sink, digest>>
    /\ UNCHANGED <<outsideVars, toRecv, told>>

(* A StreamStart of another version is answered with ours; one without the
   token, with the token and nothing else; one that does not authenticate is
   refused. *)
StartRefused(l) ==
    /\ Polls(l)
    /\ \/ /\ peers = "version" /\ Start(FALSE) \in toRecv[l]
          /\ ToSend(l, Msg("version_mismatch")) /\ UNCHANGED bad
       \/ /\ peers # "version" /\ Start(FALSE) \in toRecv[l]
          /\ ToSend(l, Msg("retry")) /\ UNCHANGED bad
       \/ /\ peers = "keys" /\ Start(TRUE) \in toRecv[l]
          /\ ToSend(l, Msg("auth_failed")) /\ bad' = bad \cup {l}
    /\ UNCHANGED <<senderVars, recv, delivered, finished, rStop, owner, sink, digest>>
    /\ UNCHANGED <<outsideVars, toRecv, told>>

StartArrives(l) == Polls(l) /\ recv[l] = "waiting" /\ Start(TRUE) \in toRecv[l] /\ peers = "alike"

(* The first lane to get this far claims the output, *)
ClaimOutput(l) ==
    /\ StartArrives(l)
    /\ owner = {}
    /\ owner' = {l}
    /\ UNCHANGED <<senderVars, recv, bad, delivered, finished, rStop, sink, digest>>
    /\ UNCHANGED <<outsideVars, toRecv, toSend, told>>

(* Nobody starts before it is prepared, or if that failed. *)
Join(l, state) ==
    IF state = "ready" THEN Exit(l, "started") /\ ToSend(l, Msg("answer"))
                       ELSE Exit(l, "resource_limit") /\ UNCHANGED toSend

(* prepares it and starts, *)
PrepareOutput(l) ==
    /\ l \in owner /\ sink = "pending"
    /\ sink' \in {"ready", "failed"}
    /\ Join(l, sink')
    /\ UNCHANGED <<senderVars, bad, delivered, finished, rStop, owner, digest, outsideVars>>
    /\ UNCHANGED <<toRecv, told>>

(* Wrong variant: only a failed output keeps a lane from starting. *)
StartLaneEarly(l) ==
    /\ StartArrives(l)
    /\ owner # {}
    /\ Join(l, IF sink = "failed" THEN sink ELSE "ready")
    /\ UNCHANGED <<senderVars, bad, delivered, finished, rStop, owner, sink, digest>>
    /\ UNCHANGED <<outsideVars, toRecv, told>>

(* while the others wait for the sender's retry. *)
StartLane(l) ==
    /\ StartArrives(l)
    /\ owner # {} /\ sink # "pending"
    /\ Join(l, sink)
    /\ UNCHANGED <<senderVars, bad, delivered, finished, rStop, owner, sink, digest>>
    /\ UNCHANGED <<outsideVars, toRecv, told>>

(* A retried StreamStart is answered again. *)
StartAgain(l) ==
    /\ InSession(l) /\ Start(TRUE) \in toRecv[l]
    /\ ToSend(l, Msg("answer"))
    /\ UNCHANGED <<senderVars, receiverVars, outsideVars, toRecv, told>>

RecvAck(l) ==
    /\ InSession(l)
    /\ ToSend(l, Msg("ack"))
    /\ UNCHANGED <<senderVars, receiverVars, outsideVars, toRecv, told>>

(* Wrong variant: the nonce of a close is not compared. *)
RecvCloseAnyNonce(l, m) ==
    /\ Polls(l) /\ m \in toRecv[l]
    /\ m.type \in {"aborted", "finished"}
    /\ m.this => peers # "version"
    /\ InSession(l) \/ (m.type = "aborted" /\ ~ keyed)
    /\ IF m.type = "aborted"
       THEN Exit(l, Classify(l, "peer_aborted")) /\ rStop' = TRUE /\ UNCHANGED finished
       ELSE finished' = finished \cup {l} /\ UNCHANGED <<recv, rStop>>
    /\ UNCHANGED <<senderVars, bad, delivered, owner, sink, digest, outsideVars>>
    /\ UNCHANGED <<toRecv, toSend, told>>

(* A close counts if it is this session's; before there is a session, an
   unkeyed receiver believes any abort it can read. *)
RecvClose(l, m) ==
    /\ Polls(l) /\ m \in toRecv[l]
    /\ m.type \in {"aborted", "finished"}
    /\ m.this => peers # "version"
    /\ IF InSession(l) THEN m.this ELSE m.type = "aborted" /\ ~ keyed
    /\ IF m.type = "aborted"
       THEN Exit(l, Classify(l, "peer_aborted")) /\ rStop' = TRUE /\ UNCHANGED finished
       ELSE finished' = finished \cup {l} /\ UNCHANGED <<recv, rStop>>
    /\ UNCHANGED <<senderVars, bad, delivered, owner, sink, digest, outsideVars>>
    /\ UNCHANGED <<toRecv, toSend, told>>

(* Every block of the lane is written (Lane). *)
Deliver(l) ==
    /\ Writing(l) /\ l \notin ioFailed
    /\ Exit(l, "complete") /\ delivered' = delivered \cup {l}
    /\ UNCHANGED <<senderVars, bad, finished, rStop, owner, sink, digest, outsideVars>>
    /\ UNCHANGED <<toRecv, toSend, told>>

DigestArrives(l) ==
    /\ l = 0 /\ InSession(l) /\ Msg("digest") \in toRecv[l]
    /\ digest' = TRUE
    /\ ToSend(l, Msg("echo"))
    /\ UNCHANGED <<senderVars, recv, bad, delivered, finished, rStop, owner, sink>>
    /\ UNCHANGED <<outsideVars, toRecv, told>>

(* Wrong variant: lane 0 does not wait for the digest. *)
RecvDoneUnverified(l) ==
    /\ recv[l] = "complete"
    /\ Exit(l, "ok")
    /\ toSend' = IF l \in finished THEN toSend ELSE [toSend EXCEPT ![l] = @ \cup {Msg("ack")}]
    /\ UNCHANGED <<senderVars, bad, delivered, finished, rStop, owner, sink, digest>>
    /\ UNCHANGED <<outsideVars, toRecv, told>>

(* A complete lane leaves when the sender has finished or after lingering,
   but lane 0 of a resumed transfer waits for the digest. *)
RecvDone(l) ==
    /\ recv[l] = "complete"
    /\ ~ (l = 0 /\ resumed /\ ~ digest)
    /\ Exit(l, "ok")
    /\ toSend' = IF l \in finished THEN toSend ELSE [toSend EXCEPT ![l] = @ \cup {Msg("ack")}]
    /\ UNCHANGED <<senderVars, bad, delivered, finished, rStop, owner, sink, digest>>
    /\ UNCHANGED <<outsideVars, toRecv, told>>

-----------------------------------------------------------------------------
Replies == {Msg(t) : t \in {"retry", "ack", "answer", "aborted", "auth_failed",
                       "version_mismatch", "echo"}}
Closes == {Msg("aborted"), Msg("finished"), Stale("aborted"), Stale("finished")}

Next ==
    \/ Outside
    \/ \E l \in Lanes :
        \/ SendCancelled(l) \/ SendStopped(l) \/ SendTimeout(l)
        \/ SendStart(l) \/ AllAcked(l) \/ DigestEchoed(l)
        \/ \E m \in Replies : HandshakeReply(l, m) \/ HandshakeClose(l, m) \/ SendAborted(l, m)
        \/ RecvCancelled(l) \/ RecvStopped(l) \/ RecvIoError(l) \/ RecvTimeout(l)
        \/ StartRefused(l) \/ ClaimOutput(l) \/ PrepareOutput(l) \/ StartLane(l)
        \/ StartAgain(l) \/ RecvAck(l) \/ Deliver(l) \/ DigestArrives(l) \/ RecvDone(l)
        \/ \E m \in Closes : RecvClose(l, m)

Spec == Init /\ [][Next]_vars

(* What the threads and the clocks guarantee: a lane's loop keeps polling its
   flags and its socket; the handshake and the digest exchange have deadlines
   of their own; the idle timeouts run once the other end of the lane is gone.
   No datagram is sure to arrive. *)
SenderFair(l) ==
    /\ WF_vars(SendCancelled(l)) /\ WF_vars(SendStopped(l)) /\ WF_vars(AllAcked(l))
    /\ WF_vars(send[l] \in {"handshake", "digest"} /\ SendTimeout(l))
    /\ WF_vars(send[l] = "sending" /\ recv[l] \notin Receiving /\ SendTimeout(l))

ReceiverFair(l) ==
    /\ WF_vars(RecvCancelled(l)) /\ WF_vars(RecvStopped(l)) /\ WF_vars(RecvIoError(l))
    /\ WF_vars(PrepareOutput(l)) /\ WF_vars(Deliver(l)) /\ WF_vars(RecvDone(l))
    /\ WF_vars(send[l] \notin Sending /\ RecvTimeout(l))

FairSpec == Spec /\ \A l \in Lanes : SenderFair(l) /\ ReceiverFair(l)

-----------------------------------------------------------------------------
Ended(lanes, running) == \A l \in Lanes : lanes[l] \notin running
SendEnded == Ended(send, Sending)
RecvEnded == Ended(recv, Receiving)

(* severity() and worst(): what a call reports when its lanes disagree. *)
Severity == [ok |-> 0, timeout |-> 2, peer_aborted |-> 3, cancelled |-> 4, auth_failed |-> 5,
             resource_limit |-> 7, io_error |-> 8, socket_error |-> 9,
             version_mismatch |-> 10]
Worst(lanes) == CHOOSE s \in {lanes[l] : l \in Lanes} :
                    \A l \in Lanes : Severity[lanes[l]] <= Severity[s]

-----------------------------------------------------------------------------
(* The states of the lanes and of what they share. *)
TypeOK ==
    /\ send \in [Lanes -> Sending \cup DOMAIN Severity]
    /\ recv \in [Lanes -> Receiving \cup DOMAIN Severity]
    /\ \A S \in {token, acked, answered, bad, delivered, finished, owner, ioFailed, told} :
            S \subseteq Lanes
    /\ sink \in {"pending", "ready", "failed"}
    /\ Cardinality(owner) <= 1

(* However the StreamStarts of the lanes race for the output, it is prepared
   by one of them, and no lane receives, and no sender lane sends data, unless
   that has been done and has succeeded (compare_exchange on file_total, then
   sink_state, in the StreamStart handler). *)
OutputReadyFirst ==
    \A l \in Lanes :
        (recv[l] \in {"started", "complete", "ok"} \/ send[l] \in {"sending", "digest"})
            => sink = "ready" /\ owner # {}

(* A call that reports that its peer aborted is right: through stop_all a
   lane may learn of an abort only from a sibling, yet the sibling's own cause
   (a cancel, a failed write, a refused key) outranks it in worst().  A
   receiver with a key is sure of it even when closes of an earlier transfer
   are still in the network. *)
PeerBlamedRightly ==
    /\ (SendEnded /\ Worst(send) = "peer_aborted")
          => \E l \in Lanes : Msg("aborted") \in toSend[l]
    /\ (RecvEnded /\ keyed /\ Worst(recv) = "peer_aborted")
          => \E l \in Lanes : Msg("aborted") \in toRecv[l]

(* When either call of a resumed transfer reports success the receiver has
   the digest it must verify its copy against: lane 0 does not leave without
   it, and the sender's lane 0 has seen it echoed. *)
ResumedHasDigest ==
    resumed => /\ (RecvEnded /\ Worst(recv) = "ok") => digest
               /\ (SendEnded /\ Worst(send) = "ok") => digest

(* Both calls return: whichever lanes are cancelled, refused or cut off, and
   whichever datagrams are lost, no lane waits for ever for its peer. *)
CallsReturn == <>(SendEnded /\ RecvEnded)

(* "Every early exit below tells the sender ..., so it stops at once rather
   than retransmitting into a closed port until its own timeout"
   (transfer.cpp, give_up in recv_lane): a sender lane that was handed the
   receiver's abort does not end in a timeout of its own. *)
ToldSenderStops == \A l \in told : send[l] # "timeout"
=============================================================================

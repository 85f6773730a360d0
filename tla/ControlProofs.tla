---------------------------- MODULE ControlProofs ---------------------------
(***************************************************************************)
(* Proofs about the control around the data path: the sessions of the      *)
(* lanes, the block size, path validation and congestion control.          *)
(***************************************************************************)
EXTENDS LaneSession, BlockSize, PathValidation, Congestion, RingLemmas

-----------------------------------------------------------------------------
(* LaneSession, for any number of lanes.

   The argument: whatever a lane reports as an effect, its cause stays on
   record.  A status is final, a datagram stays in the network, the output
   once prepared stays prepared; so it is enough to say, of each flag and
   each status, which of those records it was raised after. *)

Final == {"ok", "timeout", "peer_aborted", "cancelled", "auth_failed", "resource_limit",
          "io_error", "socket_error", "version_mismatch"}

SessionTypes ==
    /\ send \in [Lanes -> Sending \cup Final]
    /\ recv \in [Lanes -> Receiving \cup Final]
    /\ DOMAIN toSend = Lanes /\ DOMAIN toRecv = Lanes
    /\ sink \in {"pending", "ready", "failed"}

(* The lane that prepares the output does nothing else; a lane in the session,
   an answer in the network and a lane that sends all come after it. *)
OutputFirst ==
    /\ \A l \in Lanes : l \in owner /\ sink = "pending" => recv[l] = "waiting"
    /\ sink = "ready" => owner # {}
    /\ \A l \in Lanes :
          (\/ recv[l] \in {"started", "complete", "ok"} \/ send[l] \in {"sending", "digest"}
           \/ l \in answered \/ Msg("answer") \in toSend[l])
              => sink = "ready"

DigestFirst ==
    /\ resumed /\ (recv[0] = "ok" \/ send[0] = "ok") => digest
    /\ \A l \in Lanes : Msg("echo") \in toSend[l] => digest

(* A stop, and a lane that blames the peer, come after a lane with a cause of
   its own or after the peer's word. *)
SenderCause ==
    \/ \E l \in Lanes : send[l] \in {"cancelled", "auth_failed", "version_mismatch"}
    \/ \E l \in Lanes : Msg("aborted") \in toSend[l]

ReceiverCause ==
    \/ \E l \in Lanes : recv[l] \in {"cancelled", "io_error"}
    \/ \E l \in Lanes : Msg("aborted") \in toRecv[l]

StopHasCause ==
    /\ sStop \/ (\E l \in Lanes : send[l] = "peer_aborted") => SenderCause
    /\ keyed /\ (rStop \/ \E l \in Lanes : recv[l] = "peer_aborted") => ReceiverCause

(* The inductive invariant. *)
SessionInv == SessionTypes /\ OutputFirst /\ DigestFirst /\ StopHasCause

(* Datagrams of one session differ in their type, and differ from those of an
   earlier one. *)
LEMMA Datagrams ==
    /\ \A t, u : Msg(t) = Msg(u) => t = u
    /\ \A t, u : Msg(t) # Stale(u)
    /\ \A m \in Replies : m = Msg(m.type)
    /\ \A m \in Closes : m.this => m = Msg(m.type)
<1>1. \A t : Msg(t).type = t /\ Msg(t).this = TRUE
    BY DEF Msg
<1>2. \A u : Stale(u).this = FALSE
    BY DEF Stale
<1>3. \A m \in Replies : m = Msg(m.type)
    BY <1>1, Zenon DEF Replies
<1>4. \A m \in Closes : m.this => m = Msg(m.type)
    BY <1>1, <1>2, Zenon DEF Closes
<1> QED
    BY <1>1, <1>2, <1>3, <1>4, Zenon

(* A send that only adds to what is in the network for lane l. *)
LEMMA NetworkGrows ==
    ASSUME NEW l \in Lanes, NEW f, DOMAIN f = Lanes, NEW M
    PROVE  LET g == [f EXCEPT ![l] = @ \cup M]
           IN  /\ DOMAIN g = Lanes
               /\ \A k \in Lanes : f[k] \subseteq g[k] /\ g[k] \subseteq f[k] \cup M
    OBVIOUS

(* A step of send_lane of lane l that leaves it in state s. *)
LEMMA SenderLane ==
    ASSUME SessionInv, NEW l \in Lanes, NEW s \in Sending \cup Final,
           send[l] \in Sending, Leave(l, s),
           UNCHANGED <<receiverVars, outsideVars, toSend>>,
           DOMAIN toRecv' = Lanes, \A k \in Lanes : toRecv[k] \subseteq toRecv'[k],
           answered' \subseteq answered \cup {l},
           answered' # answered \/ s \in {"sending", "digest"} => sink = "ready",
           s = "ok" /\ l = 0 /\ resumed => digest,
           sStop' \/ s = "peer_aborted" =>
               \/ sStop \/ s \in {"cancelled", "auth_failed", "version_mismatch"}
               \/ \E k \in Lanes : Msg("aborted") \in toSend[k]
    PROVE  SessionInv'
<1> DEFINE Cause == {"cancelled", "auth_failed", "version_mismatch"}
<1>1. /\ send' = [send EXCEPT ![l] = s] /\ send \in [Lanes -> Sending \cup Final]
      /\ send' \in [Lanes -> Sending \cup Final]
    BY DEF Leave, SessionInv, SessionTypes
<1>2. send'[l] = s /\ \A k \in Lanes : k # l => send'[k] = send[k]
    BY <1>1
<1>3. /\ recv' = recv /\ owner' = owner /\ sink' = sink /\ digest' = digest /\ rStop' = rStop
      /\ resumed' = resumed /\ keyed' = keyed /\ toSend' = toSend
    BY DEF receiverVars, outsideVars
<1>4. SessionTypes'
    BY <1>1, <1>3 DEF SessionInv, SessionTypes
<1>5. OutputFirst'
    <2>1. OutputFirst
        BY DEF SessionInv
    <2>2. ASSUME NEW k \in Lanes,
                 \/ recv[k] \in {"started", "complete", "ok"}
                 \/ send'[k] \in {"sending", "digest"}
                 \/ k \in answered' \/ Msg("answer") \in toSend[k]
          PROVE  sink = "ready"
        <3>1. CASE k = l
            BY <1>2, <2>1, <2>2, <3>1, Zenon DEF OutputFirst
        <3>2. CASE k # l
            BY <1>2, <2>1, <2>2, <3>2, Zenon DEF OutputFirst
        <3> QED
            BY <3>1, <3>2
    <2> QED
        BY <1>3, <2>1, <2>2 DEF OutputFirst
<1>6. DigestFirst'
    <2>1. send'[0] = "ok" /\ resumed => digest
        <3>1. 0 \in Lanes
            BY LanesAssumption
        <3> QED
            BY <1>2, <3>1 DEF SessionInv, DigestFirst
    <2> QED
        BY <1>3, <2>1 DEF SessionInv, DigestFirst
<1>7. StopHasCause'
    <2>1. StopHasCause
        BY DEF SessionInv
    <2>2. SenderCause => SenderCause'
        <3>1. \A k \in Lanes : send[k] \in Cause => k # l
            BY DEF Sending
        <3> QED
            BY <1>2, <1>3, <3>1, Zenon DEF SenderCause
    <2>3. ReceiverCause => ReceiverCause'
        BY <1>3, Zenon DEF ReceiverCause
    <2>4. s \in Cause => SenderCause'
        BY <1>2, Zenon DEF SenderCause
    <2>5. (\E k \in Lanes : Msg("aborted") \in toSend[k]) => SenderCause'
        BY <1>3, Zenon DEF SenderCause
    <2>6. sStop' \/ s = "peer_aborted" => SenderCause'
        BY <2>1, <2>2, <2>4, <2>5, Zenon DEF StopHasCause
    <2>7. ASSUME NEW k \in Lanes, send'[k] = "peer_aborted" PROVE SenderCause'
        <3>1. CASE k = l
            BY <1>2, <2>6, <2>7, <3>1
        <3>2. CASE k # l
            BY <1>2, <2>1, <2>2, <2>7, <3>2 DEF StopHasCause
        <3> QED
            BY <3>1, <3>2
    <2>8. keyed' /\ (rStop' \/ \E k \in Lanes : recv'[k] = "peer_aborted") => ReceiverCause'
        BY <1>3, <2>1, <2>3, Zenon DEF StopHasCause
    <2> QED
        BY <2>6, <2>7, <2>8, Zenon DEF StopHasCause
<1> QED
    BY <1>4, <1>5, <1>6, <1>7 DEF SessionInv

(* The steps of send_lane. *)
LEMMA SenderSteps ==
    ASSUME SessionInv, NEW l \in Lanes,
           \/ SendCancelled(l) \/ SendStopped(l) \/ SendTimeout(l) \/ SendStart(l)
           \/ AllAcked(l) \/ DigestEchoed(l)
    PROVE  SessionInv'
<1>1. /\ send \in [Lanes -> Sending \cup Final] /\ send[l] \in Sending \cup Final
      /\ DOMAIN toRecv = Lanes
    BY DEF SessionInv, SessionTypes
<1>2. \A m : LET g == [toRecv EXCEPT ![l] = @ \cup {m}]
             IN  DOMAIN g = Lanes /\ \A k \in Lanes : toRecv[k] \subseteq g[k]
    BY <1>1, NetworkGrows
<1>3. CASE SendCancelled(l)
    <2>1. /\ send[l] \in Sending /\ Leave(l, "cancelled") /\ answered' = answered
          /\ UNCHANGED <<receiverVars, outsideVars, toSend>>
          /\ toRecv' = [toRecv EXCEPT ![l] = @ \cup {Msg("aborted")}]
        BY <1>3, Zenon DEF SendCancelled, ToRecv
    <2> QED
        BY <1>2, <2>1, SenderLane DEF Final
<1>4. CASE SendStopped(l)
    <2>1. /\ send[l] \in Sending /\ Leave(l, "peer_aborted") /\ answered' = answered /\ sStop
          /\ UNCHANGED <<receiverVars, outsideVars, toSend>>
          /\ toRecv' = [toRecv EXCEPT ![l] = @ \cup {Msg("aborted")}]
        BY <1>4, Zenon DEF SendStopped, ToRecv
    <2> QED
        BY <1>2, <2>1, SenderLane DEF Final
<1>5. CASE SendTimeout(l)
    <2>1. /\ send[l] \in Sending /\ Leave(l, "timeout") /\ answered' = answered
          /\ sStop' = sStop
          /\ UNCHANGED <<receiverVars, outsideVars, toSend>>
          /\ toRecv' = [toRecv EXCEPT ![l] = @ \cup {Msg("aborted")}]
        BY <1>5, Zenon DEF SendTimeout, ToRecv
    <2> QED
        BY <1>2, <2>1, SenderLane DEF Final
<1>6. CASE SendStart(l)
    <2>1. /\ send[l] = "handshake" /\ send' = send /\ answered' = answered /\ sStop' = sStop
          /\ UNCHANGED <<receiverVars, outsideVars, toSend>>
          /\ toRecv' = [toRecv EXCEPT ![l] = @ \cup {Start(l \in token)}]
        BY <1>6, Zenon DEF SendStart, ToRecv, senderVars
    <2>2. Leave(l, "handshake")
        BY <1>1, <2>1 DEF Leave
    <2> QED
        BY <1>2, <2>1, <2>2, SenderLane DEF Sending
<1>7. CASE AllAcked(l)
    <2>1. /\ send[l] = "sending" /\ answered' = answered /\ sStop' = sStop
          /\ UNCHANGED <<receiverVars, outsideVars, toSend>>
          /\ \/ /\ Leave(l, "digest")
                /\ toRecv' = [toRecv EXCEPT ![l] = @ \cup {Msg("digest")}]
             \/ /\ ~ (resumed /\ l = 0) /\ Leave(l, "ok")
                /\ toRecv' = [toRecv EXCEPT ![l] = @ \cup {Msg("finished")}]
        BY <1>7, Zenon DEF AllAcked, ToRecv
    <2>2. sink = "ready"
        BY <2>1 DEF SessionInv, OutputFirst
    <2> QED
        BY <1>2, <2>1, <2>2, SenderLane DEF Sending, Final
<1>8. CASE DigestEchoed(l)
    <2>1. /\ send[l] = "digest" /\ answered' = answered /\ sStop' = sStop
          /\ Msg("echo") \in toSend[l] /\ Leave(l, "ok")
          /\ UNCHANGED <<receiverVars, outsideVars, toSend>>
          /\ toRecv' = [toRecv EXCEPT ![l] = @ \cup {Msg("finished")}]
        BY <1>8, Zenon DEF DigestEchoed, ToRecv
    <2>2. digest
        BY <2>1 DEF SessionInv, DigestFirst
    <2> QED
        BY <1>2, <2>1, <2>2, SenderLane DEF Sending, Final
<1> QED
    BY <1>3, <1>4, <1>5, <1>6, <1>7, <1>8

(* What send_lane does with a datagram. *)
LEMMA SenderReplies ==
    ASSUME SessionInv, NEW l \in Lanes, NEW m \in Replies,
           HandshakeReply(l, m) \/ HandshakeClose(l, m) \/ SendAborted(l, m)
    PROVE  SessionInv'
<1>1. /\ send \in [Lanes -> Sending \cup Final] /\ DOMAIN toRecv = Lanes
    BY DEF SessionInv, SessionTypes
<1>2. m = Msg(m.type) /\ m \in toSend[l]
    BY Datagrams DEF HandshakeReply, HandshakeClose, SendAborted
<1>3. CASE HandshakeReply(l, m)
    <2>1. /\ send[l] = "handshake" /\ sStop' = sStop /\ toRecv' = toRecv
          /\ UNCHANGED <<receiverVars, outsideVars, toSend>>
          /\ answered' = IF m.type = "answer" THEN answered \cup {l} ELSE answered
          /\ send' = IF l \in acked' /\ l \in answered' THEN [send EXCEPT ![l] = "sending"]
                     ELSE send
        BY <1>3, Zenon DEF HandshakeReply
    <2>2. answered' \subseteq answered \cup {l}
        BY <2>1
    <2>3. l \in answered' => sink = "ready"
        BY <1>2, <2>1 DEF SessionInv, OutputFirst
    <2>4. answered' # answered => sink = "ready"
        BY <2>1, <2>3
    <2>5. CASE l \in acked' /\ l \in answered'
        BY <1>1, <2>1, <2>2, <2>3, <2>5, SenderLane, Zenon DEF Sending, Leave
    <2>6. CASE ~ (l \in acked' /\ l \in answered')
        <3>1. Leave(l, "handshake")
            BY <1>1, <2>1, <2>6, Zenon DEF Leave
        <3> QED
            BY <1>1, <2>1, <2>2, <2>4, <3>1, SenderLane DEF Sending
    <2> QED
        BY <2>5, <2>6
<1>4. CASE HandshakeClose(l, m)
    <2>1. /\ send[l] = "handshake" /\ toRecv' = toRecv /\ answered' = answered
          /\ UNCHANGED <<receiverVars, outsideVars, toSend>>
          /\ \/ m.type \in {"auth_failed", "version_mismatch"} /\ Leave(l, m.type)
             \/ send' = send /\ sStop' = sStop
        BY <1>4, Zenon DEF HandshakeClose
    <2>2. CASE m.type \in {"auth_failed", "version_mismatch"} /\ Leave(l, m.type)
        BY <1>1, <2>1, <2>2, SenderLane DEF Sending, Final
    <2>3. CASE send' = send /\ sStop' = sStop
        <3>1. Leave(l, "handshake")
            BY <1>1, <2>1, <2>3 DEF Leave
        <3> QED
            BY <1>1, <2>1, <2>3, <3>1, SenderLane DEF Sending
    <2> QED
        BY <2>1, <2>2, <2>3
<1>5. CASE SendAborted(l, m)
    <2>1. /\ send[l] \in {"sending", "digest"} /\ toRecv' = toRecv /\ answered' = answered
          /\ UNCHANGED <<receiverVars, outsideVars, toSend>>
          /\ m.type = "aborted" /\ Leave(l, "peer_aborted")
        BY <1>5, Zenon DEF SendAborted
    <2>2. Msg("aborted") \in toSend[l]
        BY <1>2, <2>1
    <2> QED
        BY <1>1, <2>1, <2>2, SenderLane DEF Sending, Final
<1> QED
    BY <1>3, <1>4, <1>5

(* A step that adds at most M to what is in the network for the sender. *)
Sends(M) ==
    /\ DOMAIN toSend' = Lanes
    /\ \A k \in Lanes : toSend[k] \subseteq toSend'[k] /\ toSend'[k] \subseteq toSend[k] \cup M

(* A step of recv_lane of lane l that leaves it in state s and sends M. *)
LEMMA ReceiverLane ==
    ASSUME SessionInv, NEW l \in Lanes, NEW s \in Receiving \cup Final, NEW M,
           recv[l] \in Receiving, Exit(l, s),
           UNCHANGED <<senderVars, outsideVars, toRecv>>,
           Sends(M),
           \/ sink' = sink /\ owner' = owner /\ ~ (l \in owner /\ sink = "pending")
           \/ sink' = sink /\ owner' = {l} /\ s = "waiting"
           \/ sink = "pending" /\ sink' \in {"ready", "failed"} /\ owner' = owner /\ l \in owner,
           s \in {"started", "complete", "ok"} \/ Msg("answer") \in M => sink' = "ready",
           digest => digest',
           (s = "ok" /\ l = 0 /\ resumed) \/ Msg("echo") \in M => digest',
           keyed /\ (rStop' \/ s = "peer_aborted") =>
               \/ rStop \/ s \in {"cancelled", "io_error"}
               \/ \E k \in Lanes : Msg("aborted") \in toRecv[k]
    PROVE  SessionInv'
<1>1. /\ recv' = [recv EXCEPT ![l] = s] /\ recv \in [Lanes -> Receiving \cup Final]
      /\ recv' \in [Lanes -> Receiving \cup Final] /\ DOMAIN toSend = Lanes
    BY DEF Exit, SessionInv, SessionTypes
<1>2. recv'[l] = s /\ \A k \in Lanes : k # l => recv'[k] = recv[k]
    BY <1>1
<1>3. /\ send' = send /\ answered' = answered /\ sStop' = sStop
      /\ resumed' = resumed /\ keyed' = keyed /\ toRecv' = toRecv
    BY DEF senderVars, outsideVars
<1>4. /\ DOMAIN toSend' = Lanes
      /\ \A k \in Lanes : toSend[k] \subseteq toSend'[k] /\ toSend'[k] \subseteq toSend[k] \cup M
    BY DEF Sends
<1>5. SessionTypes'
    BY <1>1, <1>3, <1>4 DEF SessionInv, SessionTypes
<1>6. OutputFirst'
    <2>1. OutputFirst
        BY DEF SessionInv
    <2>2. sink = "ready" => sink' = "ready"
        BY Zenon
    <2>3. sink' = "ready" => owner' # {}
        BY <2>1 DEF OutputFirst
    <2>4. ASSUME NEW k \in Lanes, k \in owner', sink' = "pending"
          PROVE  recv'[k] = "waiting"
        <3>1. CASE owner' = owner /\ ~ (l \in owner /\ sink = "pending") /\ sink' = sink
            BY <1>2, <2>1, <2>4, <3>1 DEF OutputFirst
        <3>2. CASE owner' = {l} /\ s = "waiting"
            BY <1>2, <2>4, <3>2
        <3> QED
            BY <2>4, <3>1, <3>2
    <2>5. ASSUME NEW k \in Lanes,
                 \/ recv'[k] \in {"started", "complete", "ok"}
                 \/ send[k] \in {"sending", "digest"}
                 \/ k \in answered \/ Msg("answer") \in toSend'[k]
          PROVE  sink' = "ready"
        <3>1. Msg("answer") \in toSend'[k] => Msg("answer") \in toSend[k] \/ Msg("answer") \in M
            BY <1>4
        <3>2. \/ recv[k] \in {"started", "complete", "ok"}
              \/ send[k] \in {"sending", "digest"}
              \/ k \in answered \/ Msg("answer") \in toSend[k] \/ Msg("answer") \in M
              \/ s \in {"started", "complete", "ok"}
            BY <1>2, <2>5, <3>1, Zenon
        <3> QED
            BY <2>1, <2>2, <3>2, Zenon DEF OutputFirst
    <2> QED
        BY <1>3, <2>3, <2>4, <2>5, Zenon DEF OutputFirst
<1>7. DigestFirst'
    <2>1. DigestFirst /\ 0 \in Lanes
        BY LanesAssumption DEF SessionInv
    <2>2. resumed /\ recv'[0] = "ok" => digest'
        BY <1>2, <2>1, Zenon DEF DigestFirst
    <2>3. resumed /\ send[0] = "ok" => digest'
        BY <2>1 DEF DigestFirst
    <2>4. \A k \in Lanes : Msg("echo") \in toSend'[k] => digest'
        BY <1>4, <2>1, Zenon DEF DigestFirst
    <2> QED
        BY <1>3, <2>2, <2>3, <2>4, Zenon DEF DigestFirst
<1>8. StopHasCause'
    <2>1. StopHasCause
        BY DEF SessionInv
    <2>2. ReceiverCause => ReceiverCause'
        <3>1. \A k \in Lanes : recv[k] \in {"cancelled", "io_error"} => k # l
            BY DEF Receiving
        <3> QED
            BY <1>2, <1>3, <3>1, Zenon DEF ReceiverCause
    <2>3. SenderCause => SenderCause'
        BY <1>3, <1>4, Zenon DEF SenderCause
    <2>4. s \in {"cancelled", "io_error"} => ReceiverCause'
        BY <1>2, Zenon DEF ReceiverCause
    <2>5. (\E k \in Lanes : Msg("aborted") \in toRecv[k]) => ReceiverCause'
        BY <1>3, Zenon DEF ReceiverCause
    <2>6. keyed /\ (rStop' \/ s = "peer_aborted") => ReceiverCause'
        BY <2>1, <2>2, <2>4, <2>5, Zenon DEF StopHasCause
    <2>7. ASSUME NEW k \in Lanes, keyed, recv'[k] = "peer_aborted" PROVE ReceiverCause'
        <3>1. CASE k = l
            BY <1>2, <2>6, <2>7, <3>1
        <3>2. CASE k # l
            BY <1>2, <2>1, <2>2, <2>7, <3>2 DEF StopHasCause
        <3> QED
            BY <3>1, <3>2
    <2>8. sStop' \/ (\E k \in Lanes : send'[k] = "peer_aborted") => SenderCause'
        BY <1>3, <2>1, <2>3, Zenon DEF StopHasCause
    <2> QED
        BY <1>3, <2>6, <2>7, <2>8, Zenon DEF StopHasCause
<1> QED
    BY <1>5, <1>6, <1>7, <1>8 DEF SessionInv

(* A step that leaves the lane's state, the output and the stop alone. *)
LEMMA ReceiverReplies ==
    ASSUME SessionInv, NEW l \in Lanes, NEW M, recv[l] \in Receiving, recv' = recv,
           ~ (l \in owner /\ sink = "pending"),
           UNCHANGED <<senderVars, outsideVars, toRecv>>,
           Sends(M),
           sink' = sink, owner' = owner, rStop' = rStop,
           Msg("answer") \in M => sink = "ready",
           digest => digest', Msg("echo") \in M => digest'
    PROVE  SessionInv'
<1>1. Exit(l, recv[l]) /\ recv[l] \in Receiving \cup Final
    BY DEF Exit, SessionInv, SessionTypes
<1>2. recv[l] \in {"started", "complete", "ok"} => sink' = "ready"
    BY DEF SessionInv, OutputFirst
<1>3. recv[l] # "ok" /\ recv[l] # "peer_aborted"
    BY DEF Receiving
<1> QED
    BY <1>1, <1>2, <1>3, ReceiverLane

(* In the session the output is ready. *)
LEMMA SessionReady ==
    ASSUME SessionInv, NEW l \in Lanes, InSession(l)
    PROVE  sink = "ready" /\ recv[l] \in Receiving
    BY DEF SessionInv, OutputFirst, InSession, Receiving

(* What is sent: one datagram, nothing, or the abort of give_up(). *)
LEMMA Replying ==
    ASSUME SessionInv, NEW l \in Lanes
    PROVE  /\ \A m : ToSend(l, m) => Sends({m})
           /\ toSend' = toSend => Sends({})
           /\ Tell(l) => Sends({Msg("aborted")})
<1>1. DOMAIN toSend = Lanes
    BY DEF SessionInv, SessionTypes
<1>2. \A m : ToSend(l, m) => Sends({m})
    BY <1>1, NetworkGrows DEF ToSend, Sends
<1>3. toSend' = toSend => \A M : Sends(M)
    BY <1>1 DEF Sends
<1>4. Tell(l) => ToSend(l, Msg("aborted")) \/ toSend' = toSend
    BY DEF Tell, ToSend
<1> QED
    BY <1>2, <1>3, <1>4, Zenon

(* The exits of recv_lane. *)
LEMMA ReceiverExits ==
    ASSUME SessionInv, NEW l \in Lanes,
           RecvCancelled(l) \/ RecvStopped(l) \/ RecvIoError(l) \/ RecvTimeout(l)
    PROVE  SessionInv'
<1>1. /\ recv[l] \in Receiving /\ ~ (l \in owner /\ sink = "pending")
      /\ UNCHANGED <<senderVars, outsideVars, toRecv>>
      /\ sink' = sink /\ owner' = owner /\ digest' = digest /\ Tell(l)
    BY Zenon DEF RecvCancelled, RecvStopped, RecvIoError, RecvTimeout, Polls
<1>2. Sends({Msg("aborted")})
    BY <1>1, Replying
<1>3. Msg("answer") \notin {Msg("aborted")} /\ Msg("echo") \notin {Msg("aborted")}
    BY Datagrams
<1>4. \E s \in {"cancelled", "io_error", "peer_aborted", "auth_failed", "timeout"} :
          /\ Exit(l, s)
          /\ s \in {"cancelled", "io_error"} \/ rStop' = rStop
          /\ s = "peer_aborted" => rStop
    <2>1. CASE RecvCancelled(l)
        BY <2>1, Zenon DEF RecvCancelled
    <2>2. CASE RecvIoError(l)
        BY <2>2, Zenon DEF RecvIoError
    <2>3. CASE RecvStopped(l)
        BY <2>3, Zenon DEF RecvStopped, Classify
    <2>4. CASE RecvTimeout(l)
        <3>1. /\ rStop' = rStop
              /\ Exit(l, IF ~ InSession(l) /\ l \in bad THEN "auth_failed" ELSE "timeout")
            BY <2>4, Zenon DEF RecvTimeout, Classify
        <3>2. "auth_failed" # "peer_aborted" /\ "timeout" # "peer_aborted"
            OBVIOUS
        <3> QED
            BY <3>1, <3>2, Zenon
    <2> QED
        BY <2>1, <2>2, <2>3, <2>4
<1>5. PICK s \in {"cancelled", "io_error", "peer_aborted", "auth_failed", "timeout"} :
          /\ Exit(l, s)
          /\ s \in {"cancelled", "io_error"} \/ rStop' = rStop
          /\ s = "peer_aborted" => rStop
    BY <1>4
<1>6. s \in Receiving \cup Final /\ s \notin {"started", "complete", "ok"}
    BY DEF Final
<1>7. rStop' \/ s = "peer_aborted" => rStop \/ s \in {"cancelled", "io_error"}
    BY <1>5
<1> QED
    BY <1>1, <1>2, <1>3, <1>5, <1>6, <1>7, ReceiverLane

(* The StreamStart handler: refusals, the claim, the preparation, the start. *)
LEMMA ReceiverStarts ==
    ASSUME SessionInv, NEW l \in Lanes,
           StartRefused(l) \/ ClaimOutput(l) \/ PrepareOutput(l) \/ StartLane(l)
    PROVE  SessionInv'
<1>1. CASE StartRefused(l)
    <2>1. /\ recv[l] \in Receiving /\ ~ (l \in owner /\ sink = "pending") /\ recv' = recv
          /\ UNCHANGED <<senderVars, outsideVars, toRecv>>
          /\ sink' = sink /\ owner' = owner /\ digest' = digest /\ rStop' = rStop
          /\ \E t \in {"version_mismatch", "retry", "auth_failed"} : ToSend(l, Msg(t))
        BY <1>1, Zenon DEF StartRefused, Polls
    <2>2. PICK t \in {"version_mismatch", "retry", "auth_failed"} : ToSend(l, Msg(t))
        BY <2>1
    <2>3. t # "answer" /\ t # "echo"
        OBVIOUS
    <2>4. Sends({Msg(t)})
        BY <2>2, Replying
    <2>5. Msg("answer") \notin {Msg(t)} /\ Msg("echo") \notin {Msg(t)}
        BY <2>3, Datagrams
    <2> QED
        BY <2>1, <2>4, <2>5, ReceiverReplies
<1>2. CASE ClaimOutput(l)
    <2>1. /\ recv[l] = "waiting" /\ recv' = recv /\ owner' = {l} /\ toSend' = toSend
          /\ UNCHANGED <<senderVars, outsideVars, toRecv>>
          /\ sink' = sink /\ digest' = digest /\ rStop' = rStop
        BY <1>2, Zenon DEF ClaimOutput, StartArrives
    <2>2. Exit(l, "waiting")
        BY <2>1 DEF Exit, SessionInv, SessionTypes
    <2>3. Sends({})
        BY <2>1, Replying
    <2>4. /\ recv[l] \in Receiving /\ "waiting" \in Receiving \cup Final
          /\ "waiting" \notin {"started", "complete", "ok", "peer_aborted"}
        BY <2>1 DEF Receiving
    <2> QED
        BY <2>1, <2>2, <2>3, <2>4, ReceiverLane, Zenon
<1>3. ASSUME Join(l, sink'), recv[l] = "waiting", sink' # "pending",
             UNCHANGED <<senderVars, outsideVars, toRecv>>,
             owner' = owner, digest' = digest, rStop' = rStop,
             \/ sink' = sink /\ ~ (l \in owner /\ sink = "pending")
             \/ sink = "pending" /\ sink' \in {"ready", "failed"} /\ l \in owner
      PROVE  SessionInv'
    <2>1. CASE sink' = "ready"
        <3>1. Exit(l, "started") /\ ToSend(l, Msg("answer"))
            BY <1>3, <2>1, Zenon DEF Join
        <3>2. Sends({Msg("answer")}) /\ Msg("echo") \notin {Msg("answer")}
            BY <3>1, Replying, Datagrams
        <3>3. /\ recv[l] \in Receiving /\ "started" \in Receiving \cup Final
              /\ "started" \notin {"ok", "peer_aborted"}
            BY <1>3 DEF Receiving
        <3> QED
            BY <1>3, <2>1, <3>1, <3>2, <3>3, ReceiverLane, Zenon
    <2>2. CASE sink' # "ready"
        <3>1. Exit(l, "resource_limit") /\ toSend' = toSend
            BY <1>3, <2>2, Zenon DEF Join
        <3>2. Sends({})
            BY <3>1, Replying
        <3>3. /\ recv[l] \in Receiving /\ "resource_limit" \in Receiving \cup Final
              /\ "resource_limit" \notin {"started", "complete", "ok", "peer_aborted"}
            BY <1>3 DEF Receiving, Final
        <3> QED
            BY <1>3, <2>2, <3>1, <3>2, <3>3, ReceiverLane, Zenon
    <2> QED
        BY <2>1, <2>2
<1>4. CASE PrepareOutput(l)
    <2>1. /\ l \in owner /\ sink = "pending" /\ sink' \in {"ready", "failed"} /\ Join(l, sink')
          /\ UNCHANGED <<senderVars, outsideVars, toRecv>>
          /\ owner' = owner /\ digest' = digest /\ rStop' = rStop
        BY <1>4, Zenon DEF PrepareOutput
    <2>2. recv[l] = "waiting"
        BY <2>1 DEF SessionInv, OutputFirst
    <2> QED
        BY <1>3, <2>1, <2>2
<1>5. CASE StartLane(l)
    <2>1. /\ recv[l] = "waiting" /\ sink # "pending" /\ Join(l, sink) /\ sink' = sink
          /\ UNCHANGED <<senderVars, outsideVars, toRecv>>
          /\ owner' = owner /\ digest' = digest /\ rStop' = rStop
        BY <1>5, Zenon DEF StartLane, StartArrives
    <2>2. Join(l, sink')
        BY <2>1, Zenon
    <2> QED
        BY <1>3, <2>1, <2>2
<1> QED
    BY <1>1, <1>2, <1>4, <1>5

(* The rest of a session. *)
LEMMA ReceiverSession ==
    ASSUME SessionInv, NEW l \in Lanes,
           StartAgain(l) \/ RecvAck(l) \/ Deliver(l) \/ DigestArrives(l) \/ RecvDone(l)
    PROVE  SessionInv'
<1>1. /\ InSession(l) /\ UNCHANGED <<senderVars, outsideVars, toRecv>>
      /\ sink' = sink /\ owner' = owner /\ rStop' = rStop
    BY Zenon DEF StartAgain, RecvAck, Deliver, DigestArrives, RecvDone, InSession, Writing,
                 receiverVars
<1>2. sink = "ready" /\ recv[l] \in Receiving
    BY <1>1, SessionReady
<1>3. ~ (l \in owner /\ sink = "pending")
    BY <1>2
<1>4. CASE StartAgain(l) \/ RecvAck(l)
    <2>1. /\ recv' = recv /\ digest' = digest
          /\ ToSend(l, Msg("answer")) \/ ToSend(l, Msg("ack"))
        BY <1>4, Zenon DEF StartAgain, RecvAck, receiverVars
    <2>2. Msg("echo") \notin {Msg("answer")} /\ Msg("echo") \notin {Msg("ack")}
        BY Datagrams
    <2> QED
        BY <1>1, <1>2, <1>3, <2>1, <2>2, Replying, ReceiverReplies, Zenon
<1>5. CASE Deliver(l)
    <2>1. Exit(l, "complete") /\ toSend' = toSend /\ digest' = digest
        BY <1>5, Zenon DEF Deliver
    <2>2. Sends({})
        BY <2>1, Replying
    <2>3. "complete" \in Receiving \cup Final /\ "complete" \notin {"ok", "peer_aborted"}
        BY DEF Receiving
    <2> QED
        BY <1>1, <1>2, <1>3, <2>1, <2>2, <2>3, ReceiverLane, Zenon
<1>6. CASE DigestArrives(l)
    <2>1. recv' = recv /\ digest' /\ ToSend(l, Msg("echo"))
        BY <1>6, Zenon DEF DigestArrives
    <2>2. Sends({Msg("echo")})
        BY <2>1, Replying
    <2> QED
        BY <1>1, <1>2, <1>3, <2>1, <2>2, ReceiverReplies
<1>7. CASE RecvDone(l)
    <2>1. /\ Exit(l, "ok") /\ ~ (l = 0 /\ resumed /\ ~ digest) /\ digest' = digest
          /\ toSend' = toSend \/ ToSend(l, Msg("ack"))
        BY <1>7, Zenon DEF RecvDone, ToSend
    <2>2. Msg("echo") \notin {Msg("ack")} /\ Msg("answer") \notin {Msg("ack")}
        BY Datagrams
    <2>3. PICK M \in {{}, {Msg("ack")}} : Sends(M)
        BY <2>1, Replying
    <2>4. Msg("echo") \notin M
        BY <2>2
    <2>5. "ok" \in Receiving \cup Final /\ "ok" # "peer_aborted"
        BY DEF Final
    <2> QED
        BY <1>1, <1>2, <1>3, <2>1, <2>3, <2>4, <2>5, ReceiverLane, Zenon
<1> QED
    BY <1>4, <1>5, <1>6, <1>7

(* A close from the sender. *)
LEMMA ReceiverCloses ==
    ASSUME SessionInv, NEW l \in Lanes, NEW m \in Closes, RecvClose(l, m)
    PROVE  SessionInv'
<1>1. /\ recv[l] \in Receiving /\ ~ (l \in owner /\ sink = "pending") /\ m \in toRecv[l]
      /\ UNCHANGED <<senderVars, outsideVars, toRecv>>
      /\ sink' = sink /\ owner' = owner /\ digest' = digest /\ toSend' = toSend
    BY Zenon DEF RecvClose, Polls
<1>2. Sends({})
    BY <1>1, Replying
<1>3. CASE m.type = "aborted"
    <2>1. Exit(l, Classify(l, "peer_aborted")) /\ (IF InSession(l) THEN m.this ELSE ~ keyed)
        BY <1>3, Zenon DEF RecvClose
    <2>2. keyed => Msg("aborted") \in toRecv[l]
        BY <1>1, <1>3, <2>1, Datagrams
    <2>3. PICK s \in {"auth_failed", "peer_aborted"} : Exit(l, s)
        BY <2>1, Zenon DEF Classify
    <2>4. s \in Receiving \cup Final /\ s \notin {"started", "complete", "ok"}
        BY DEF Final
    <2> QED
        BY <1>1, <1>2, <2>2, <2>3, <2>4, ReceiverLane, Zenon
<1>4. CASE m.type # "aborted"
    <2>1. recv' = recv /\ rStop' = rStop
        BY <1>4, Zenon DEF RecvClose
    <2> QED
        BY <1>1, <1>2, <2>1, ReceiverReplies
<1> QED
    BY <1>3, <1>4

(* The first states, in which only datagrams of an earlier transfer are
   about. *)
LEMMA SessionStarts == Init => SessionInv
<1> SUFFICES ASSUME Init PROVE SessionInv
    OBVIOUS
<1>1. /\ send \in [Lanes -> {"handshake", "socket_error"}] /\ answered = {} /\ sStop = FALSE
      /\ recv \in [Lanes -> {"waiting", "socket_error"}] /\ owner = {} /\ sink = "pending"
      /\ rStop = FALSE /\ 0 \in Lanes
    BY LanesAssumption DEF Init, SenderInit, ReceiverInit
<1>2. /\ DOMAIN toSend = Lanes /\ DOMAIN toRecv = Lanes
      /\ \A l \in Lanes : toSend[l] = {Stale("ack"), Stale("aborted")}
    BY DEF Init
<1>3. \A l \in Lanes, t \in {"answer", "echo"} : Msg(t) \notin toSend[l]
    BY <1>2, Datagrams
<1>4. \A l \in Lanes : /\ send[l] \in {"handshake", "socket_error"}
                       /\ recv[l] \in {"waiting", "socket_error"}
    BY <1>1
<1>5. SessionTypes
    BY <1>1, <1>2 DEF SessionTypes, Sending, Receiving, Final
<1>6. OutputFirst
    BY <1>1, <1>3, <1>4 DEF OutputFirst
<1>7. DigestFirst
    BY <1>1, <1>3, <1>4 DEF DigestFirst
<1>8. StopHasCause
    BY <1>1, <1>4 DEF StopHasCause
<1> QED
    BY <1>5, <1>6, <1>7, <1>8 DEF SessionInv

(* A cancel, a failed write and a step of nobody. *)
LEMMA SessionRests ==
    ASSUME SessionInv, Outside \/ UNCHANGED vars
    PROVE  SessionInv'
<1>1. UNCHANGED <<senderVars, receiverVars, keyed, resumed, toRecv, toSend>>
    BY DEF Outside, vars, outsideVars
<1> QED
    BY <1>1 DEF senderVars, receiverVars, SessionInv, SessionTypes, OutputFirst, DigestFirst,
                StopHasCause, SenderCause, ReceiverCause

(* The invariant of the sessions. *)
LEMMA SessionInvHolds == Spec => []SessionInv
<1>1. SessionInv /\ [Next]_vars => SessionInv'
    <2> SUFFICES ASSUME SessionInv, [Next]_vars PROVE SessionInv'
        OBVIOUS
    <2>1. CASE Outside \/ UNCHANGED vars
        BY <2>1, SessionRests
    <2>2. ASSUME NEW l \in Lanes,
                 \/ SendCancelled(l) \/ SendStopped(l) \/ SendTimeout(l) \/ SendStart(l)
                 \/ AllAcked(l) \/ DigestEchoed(l)
          PROVE  SessionInv'
        BY <2>2, SenderSteps
    <2>3. ASSUME NEW l \in Lanes, NEW m \in Replies,
                 HandshakeReply(l, m) \/ HandshakeClose(l, m) \/ SendAborted(l, m)
          PROVE  SessionInv'
        BY <2>3, SenderReplies
    <2>4. ASSUME NEW l \in Lanes,
                 RecvCancelled(l) \/ RecvStopped(l) \/ RecvIoError(l) \/ RecvTimeout(l)
          PROVE  SessionInv'
        BY <2>4, ReceiverExits
    <2>5. ASSUME NEW l \in Lanes,
                 StartRefused(l) \/ ClaimOutput(l) \/ PrepareOutput(l) \/ StartLane(l)
          PROVE  SessionInv'
        BY <2>5, ReceiverStarts
    <2>6. ASSUME NEW l \in Lanes,
                 StartAgain(l) \/ RecvAck(l) \/ Deliver(l) \/ DigestArrives(l) \/ RecvDone(l)
          PROVE  SessionInv'
        BY <2>6, ReceiverSession
    <2>7. ASSUME NEW l \in Lanes, NEW m \in Closes, RecvClose(l, m)
          PROVE  SessionInv'
        BY <2>7, ReceiverCloses
    <2> QED
        BY <2>1, <2>2, <2>3, <2>4, <2>5, <2>6, <2>7, Zenon DEF Next
<1> QED
    BY <1>1, SessionStarts, PTL DEF Spec

(* worst() of the lanes of a call that has ended is the status of one of them,
   and none is graver: severities end somewhere, so some lane's is greatest. *)
LEMMA WorstFacts ==
    ASSUME NEW f \in [Lanes -> Final]
    PROVE  /\ \E l \in Lanes : Worst(f) = f[l]
           /\ \A l \in Lanes : Severity[f[l]] <= Severity[Worst(f)]
<1> DEFINE S == {Severity[f[l]] : l \in Lanes}
<1>1. \A s \in Final : Severity[s] \in 0 .. 10
    BY DEF Severity, Final
<1>2. \A l \in Lanes : Severity[f[l]] \in 0 .. 10 /\ Severity[f[l]] \in S
    BY <1>1
<1>3. S \in SUBSET (0 .. 10) /\ S # {} /\ \A x \in S : \E l \in Lanes : x = Severity[f[l]]
    BY <1>2, LanesAssumption, Zenon
<1> HIDE DEF S
<1>4. PICK x \in S : \A y \in S : x >= y
    BY <1>3, GreatestBelow
<1>5. PICK l \in Lanes : x = Severity[f[l]]
    BY <1>3, Zenon
<1>6. \A k \in Lanes : Severity[f[k]] <= Severity[f[l]]
    BY <1>1, <1>2, <1>4, <1>5
<1>7. \E s \in {f[k] : k \in Lanes} : \A k \in Lanes : Severity[f[k]] <= Severity[s]
    BY <1>6, Zenon
<1>8. /\ Worst(f) \in {f[k] : k \in Lanes}
      /\ \A k \in Lanes : Severity[f[k]] <= Severity[Worst(f)]
    BY <1>7, Zenon DEF Worst
<1> QED
    BY <1>8, Zenon

(* So success is everybody's, and the peer is blamed only if nobody has a
   cause of its own. *)
LEMMA WorstRanks ==
    ASSUME NEW f \in [Lanes -> Final]
    PROVE  /\ Worst(f) = "ok" => \A l \in Lanes : f[l] = "ok"
           /\ Worst(f) = "peer_aborted" =>
                 /\ \E l \in Lanes : f[l] = "peer_aborted"
                 /\ \A l \in Lanes : f[l] \in {"ok", "timeout", "peer_aborted"}
<1>1. \A s \in Final : Severity[s] <= Severity["ok"] => s = "ok"
    BY DEF Severity, Final
<1>2. \A s \in Final : Severity[s] <= Severity["peer_aborted"] =>
                           s \in {"ok", "timeout", "peer_aborted"}
    BY DEF Severity, Final
<1>3. \A l \in Lanes : f[l] \in Final
    OBVIOUS
<1> QED
    BY <1>1, <1>2, <1>3, WorstFacts, Zenon

(* The lanes of a call that has ended have final statuses. *)
LEMMA EndedFinal ==
    ASSUME SessionInv
    PROVE  /\ SendEnded => send \in [Lanes -> Final]
           /\ RecvEnded => recv \in [Lanes -> Final]
    BY DEF SessionInv, SessionTypes, SendEnded, RecvEnded, Ended

(* Whichever lane's StreamStart gets there first, the output is prepared by
   one lane, and no lane receives or sends before that has succeeded (the
   StreamStart handler of recv_lane). *)
THEOREM OutputIsReadyFirst == Spec => []OutputReadyFirst
<1>1. SessionInv => OutputReadyFirst
    BY DEF SessionInv, OutputFirst, OutputReadyFirst
<1> QED
    BY <1>1, SessionInvHolds, PTL

(* A call of any number of lanes that reports that its peer aborted has the
   peer's word for it (stop_all and worst()). *)
THEOREM PeerIsBlamedRightly == Spec => []PeerBlamedRightly
<1>1. SessionInv => PeerBlamedRightly
    <2> SUFFICES ASSUME SessionInv PROVE PeerBlamedRightly
        OBVIOUS
    <2>1. ASSUME SendEnded, Worst(send) = "peer_aborted"
          PROVE  \E l \in Lanes : Msg("aborted") \in toSend[l]
        <3>1. /\ \E l \in Lanes : send[l] = "peer_aborted"
              /\ \A l \in Lanes : send[l] \in {"ok", "timeout", "peer_aborted"}
            BY <2>1, EndedFinal, WorstRanks
        <3>2. SenderCause
            BY <3>1 DEF SessionInv, StopHasCause
        <3> QED
            BY <3>1, <3>2 DEF SenderCause
    <2>2. ASSUME RecvEnded, keyed, Worst(recv) = "peer_aborted"
          PROVE  \E l \in Lanes : Msg("aborted") \in toRecv[l]
        <3>1. /\ \E l \in Lanes : recv[l] = "peer_aborted"
              /\ \A l \in Lanes : recv[l] \in {"ok", "timeout", "peer_aborted"}
            BY <2>2, EndedFinal, WorstRanks
        <3>2. ReceiverCause
            BY <2>2, <3>1 DEF SessionInv, StopHasCause
        <3> QED
            BY <3>1, <3>2 DEF ReceiverCause
    <2> QED
        BY <2>1, <2>2 DEF PeerBlamedRightly
<1> QED
    BY <1>1, SessionInvHolds, PTL

(* Neither call of a resumed transfer reports success before the receiver has
   the digest (the digest exchange of lane 0). *)
THEOREM ResumedNeedsDigest == Spec => []ResumedHasDigest
<1>1. SessionInv => ResumedHasDigest
    <2> SUFFICES ASSUME SessionInv, resumed,
                        \/ RecvEnded /\ Worst(recv) = "ok"
                        \/ SendEnded /\ Worst(send) = "ok"
                 PROVE  digest
        BY DEF ResumedHasDigest
    <2>1. 0 \in Lanes
        BY LanesAssumption
    <2>2. recv[0] = "ok" \/ send[0] = "ok"
        BY <2>1, EndedFinal, WorstRanks
    <2> QED
        BY <2>2 DEF SessionInv, DigestFirst
<1> QED
    BY <1>1, SessionInvHolds, PTL

-----------------------------------------------------------------------------
(* BlockSize, for any sizes, thresholds and clean stretches and any pattern of loss.

   The argument: clean_at_ceiling never runs ahead of the stretch that has
   really passed, because every loss resets it and only an advance of the
   base counts; the ceiling is lifted by it alone; and a block larger than
   the lowered ceiling is only cut after the ceiling has been lifted.  An
   iteration may lift the ceiling and see a loss as well: then the stretch
   lacks that one iteration, but the next growth brings it. *)

SizeTypeOK ==
    /\ {block, ceiling, failCeiling} \subseteq Nat \ {0}
    /\ {preGrowth, sinceGrowth, batches, atCeiling} \subseteq Nat
    /\ reprobe \in 1 .. LastReprobe
    /\ due \in 0 .. reprobe
    /\ rest \in 0 .. LastReprobe

(* The inductive invariant. *)
StretchHonest ==
    /\ SizeTypeOK
    /\ atCeiling <= rest
    /\ ceiling > failCeiling => rest + 1 >= due
    /\ FailedSizeRests

(* What a loss does, from any counters and any ceiling that may be in force. *)
LEMMA LossPreserves ==
    ASSUME StretchHonest, NEW since \in Nat, NEW top \in Nat \ {0},
           top > failCeiling => rest + 1 >= due, OnLoss(since, top)
    PROVE  StretchHonest'
<1> USE SizeAssumption DEF StretchHonest, SizeTypeOK, FailedSizeRests, OnLoss, Lesser
<1>1. CASE preGrowth # 0 /\ since < CleanToGrow
    BY <1>1
<1>2. CASE ~ (preGrowth # 0 /\ since < CleanToGrow)
    BY <1>2
<1> QED
    BY <1>1, <1>2

(* What an iteration without a loss does. *)
LEMMA CleanPreserves ==
    ASSUME StretchHonest, NEW since \in Nat, NEW top \in Nat \ {0}, NEW adv \in BOOLEAN,
           top > failCeiling => rest + 1 >= due, OnClean(since, top, adv),
           atCeiling' \in Nat,
           atCeiling' <= IF adv THEN Lesser(rest + 1, LastReprobe) ELSE rest
    PROVE  StretchHonest'
<1> USE SizeAssumption DEF StretchHonest, SizeTypeOK, FailedSizeRests
<1>1. CASE adv
    BY <1>1 DEF OnClean, Lesser
<1>2. CASE ~ adv
    BY <1>2 DEF OnClean, Lesser
<1> QED
    BY <1>1, <1>2

(* An iteration of the sender's loop keeps the count of the stretch honest. *)
LEMMA StretchHonestInductive ==
    ASSUME StretchHonest, [SizeNext]_sizeVars
    PROVE  StretchHonest'
<1>1. CASE SendSized
    BY <1>1 DEF SendSized, probeHistory, StretchHonest, SizeTypeOK, FailedSizeRests
<1>2. ASSUME NEW i \in 1 .. MaxInFlight, Arrive(i) PROVE StretchHonest'
    BY <1>2 DEF Arrive, probeHistory, StretchHonest, SizeTypeOK, FailedSizeRests
<1>3. CASE Iterate
    <2>1. PICK n \in Confirmed, lost \in BOOLEAN :
            LET adv == n > 0
                since == IF adv THEN Lesser(sinceGrowth + 1, CleanToGrow) ELSE sinceGrowth
                counting == adv /\ ceiling < MtuCeiling
                lift == counting /\ atCeiling + 1 >= reprobe
                top == IF lift THEN MtuCeiling ELSE ceiling
            IN  IF lost THEN OnLoss(since, top)
                ELSE /\ atCeiling' = IF lift THEN 0 ELSE IF counting THEN atCeiling + 1 ELSE atCeiling
                     /\ OnClean(since, top, adv)
        BY <1>3 DEF Iterate
    <2> DEFINE adv == n > 0
               since == IF adv THEN Lesser(sinceGrowth + 1, CleanToGrow) ELSE sinceGrowth
               counting == adv /\ ceiling < MtuCeiling
               lift == counting /\ atCeiling + 1 >= reprobe
               top == IF lift THEN MtuCeiling ELSE ceiling
    <2>2. since \in Nat /\ top \in Nat \ {0} /\ adv \in BOOLEAN
        BY SizeAssumption DEF StretchHonest, SizeTypeOK, Lesser
    <2>3. top > failCeiling => rest + 1 >= due
        BY SizeAssumption DEF StretchHonest, SizeTypeOK
    <2>4. CASE lost
        <3>1. OnLoss(since, top)
            BY <2>1, <2>4
        <3> HIDE DEF since, top
        <3> QED
            BY <2>2, <2>3, <3>1, LossPreserves
    <2>5. CASE ~ lost
        <3>1. OnClean(since, top, adv)
            BY <2>1, <2>5
        <3>2. atCeiling' = IF lift THEN 0 ELSE IF counting THEN atCeiling + 1 ELSE atCeiling
            BY <2>1, <2>5
        <3>3. atCeiling' \in Nat
            BY <3>2 DEF StretchHonest, SizeTypeOK
        <3>4. atCeiling' <= IF adv THEN Lesser(rest + 1, LastReprobe) ELSE rest
            BY <3>2, SizeAssumption DEF StretchHonest, SizeTypeOK, Lesser
        <3> HIDE DEF since, top, adv
        <3> QED
            BY <2>2, <2>3, <3>1, <3>3, <3>4, CleanPreserves
    <2> QED
        BY <2>4, <2>5
<1>4. CASE UNCHANGED sizeVars
    BY <1>4 DEF sizeVars, probeHistory, StretchHonest, SizeTypeOK, FailedSizeRests
<1> QED
    BY <1>1, <1>2, <1>3, <1>4 DEF SizeNext

(* A size lost right after growing to it is not tried again before the clean
   stretch of that failed probe has passed (the adaptive part of send_lane). *)
THEOREM SizeFailedSizeRests == SizeSpec => []FailedSizeRests
<1>1. SizeInit => StretchHonest
    BY SizeAssumption DEF SizeInit, StretchHonest, SizeTypeOK, FailedSizeRests
<1>2. StretchHonest => FailedSizeRests
    BY DEF StretchHonest
<1> QED
    BY <1>1, <1>2, StretchHonestInductive, PTL DEF SizeSpec

-----------------------------------------------------------------------------
(* PathValidation, for any set of addresses, any number of moves and
   challenges, and any losses and reordering.

   The argument: a challenge has the value drawn last or an older one, and
   a response carries the value of a challenge.  Whoever answers the value
   drawn last does so from where the peer is then, and the peer has been
   there since that draw. *)

(* The inductive invariant. *)
ChallengesKnown ==
    /\ drawn \in Nat /\ challenge = drawn
    /\ drawn > 0 => real \in present
    /\ active => drawn > 0
    /\ \A c \in challenges : c.value \in 1 .. drawn
    /\ \A r \in responses : r.value \in 1 .. drawn
    /\ \A r \in responses : r.value = drawn => r.src \in present

(* A source that is not the candidate is given a value no response has. *)
LEMMA ProbePreserves ==
    ASSUME ChallengesKnown, NEW src, WantProbe(src), UNCHANGED <<real, responses>>
    PROVE  ChallengesKnown'
<1> DEFINE known == active /\ candidate = src
<1>1. CASE known
    <2>1. drawn' = drawn /\ challenge' = challenge /\ present' = present /\ drawn > 0
        BY <1>1 DEF WantProbe, ChallengesKnown
    <2>2. \A c \in challenges' : c.value \in 1 .. drawn
        BY <1>1, <2>1 DEF WantProbe, ChallengesKnown
    <2> QED
        BY <2>1, <2>2 DEF ChallengesKnown, WantProbe
<1>2. CASE ~ known
    <2>1. drawn' = drawn + 1 /\ challenge' = drawn + 1 /\ present' = {real}
        BY <1>2 DEF WantProbe
    <2>2. \A c \in challenges' : c.value \in 1 .. drawn + 1
        BY <1>2, <2>1 DEF WantProbe, ChallengesKnown
    <2>3. \A r \in responses' : r.value \in 1 .. drawn + 1 /\ r.value # drawn + 1
        BY DEF ChallengesKnown
    <2> QED
        BY <2>1, <2>2, <2>3 DEF ChallengesKnown
<1> QED
    BY <1>1, <1>2

(* No step makes up a challenge value. *)
LEMMA ChallengesKnownInductive ==
    ASSUME ChallengesKnown, [PathNext]_pathVars
    PROVE  ChallengesKnown'
<1> USE DEF ChallengesKnown
<1>1. ASSUME NEW a \in Addresses, Rebind(a) PROVE ChallengesKnown'
    BY <1>1 DEF Rebind, pathNetwork
<1>2. ASSUME NEW a \in Addresses, TrafficArrives(a) PROVE ChallengesKnown'
    <2>1. CASE a = peer
        BY <1>2, <2>1 DEF TrafficArrives, validatorVars
    <2>2. CASE a # peer
        BY <1>2, <2>2, ProbePreserves DEF TrafficArrives
    <2> QED
        BY <2>1, <2>2
<1>3. CASE Talk
    BY <1>3 DEF Talk, validatorVars
<1>4. ASSUME NEW c \in challenges, AnswerChallenge(c) PROVE ChallengesKnown'
    <2>1. responses' = responses \cup {[src |-> real, value |-> c.value]}
        BY <1>4 DEF AnswerChallenge
    <2>2. c.value \in 1 .. drawn /\ (drawn > 0 => real \in present)
        OBVIOUS
    <2> QED
        BY <1>4, <2>1, <2>2 DEF AnswerChallenge, validatorVars
<1>5. CASE ProbeTimer
    BY <1>5 DEF ProbeTimer, pathNetwork
<1>6. ASSUME NEW r \in responses, ResponseArrives(r) PROVE ChallengesKnown'
    BY <1>6 DEF ResponseArrives
<1>7. CASE PathLose
    BY <1>7 DEF PathLose, validatorVars
<1>8. CASE UNCHANGED pathVars
    BY <1>8 DEF pathVars, validatorVars, pathNetwork
<1> QED
    BY <1>1, <1>2, <1>3, <1>4, <1>5, <1>6, <1>7, <1>8 DEF PathNext

(* Whatever address this end adopts, the peer was there after the challenge
   was drawn (validated() compares the source and the value of a response
   with the candidate and the challenge now out). *)
THEOREM PathAdoptedWasThere == PathSpec => AdoptedWasThere
<1>1. PathInit => ChallengesKnown
    BY DEF PathInit, ChallengesKnown
<1>2. ChallengesKnown /\ [PathNext]_pathVars => ChallengesKnown'
    BY ChallengesKnownInductive
<1>3. ChallengesKnown /\ [PathNext]_pathVars => [peer' # peer => peer' \in present]_pathVars
    <2> SUFFICES ASSUME ChallengesKnown, PathNext, peer' # peer
                 PROVE  peer' \in present
        BY DEF pathVars
    <2>1. PICK r \in responses : ResponseArrives(r)
        BY DEF PathNext, Rebind, TrafficArrives, Talk, AnswerChallenge, ProbeTimer, PathLose
    <2>2. peer' = r.src /\ r.value = challenge
        BY <2>1 DEF ResponseArrives
    <2> QED
        BY <2>2 DEF ChallengesKnown
<1> QED
    BY <1>1, <1>2, <1>3, PTL DEF PathSpec, AdoptedWasThere

-----------------------------------------------------------------------------
(* Congestion, for any windows, thresholds and back-offs and any number of
   round trips between two polls.

   The argument: a loss is forgotten by the first decision after it, and while
   the stream is backed off only a NACK, which starts the count afresh, can
   report another.  So during a run of timeouts either no halving has happened
   yet or none is to come. *)

CcState == [window : Floor .. MaxWindow, slow : BOOLEAN, streak : Nat, loss : BOOLEAN]

(* A decision keeps the window within its bounds and forgets the loss. *)
LEMMA DecideFacts ==
    ASSUME NEW c \in CcState
    PROVE  Decide(c) \in CcState /\ ~ Decide(c).loss
<1>1. MaxWindow \in Nat /\ GrowStep \in Nat
    BY CcAssumption
<1>2. \A n \in Int : Clamp(n) \in Floor .. MaxWindow
    BY <1>1 DEF Clamp, Floor
<1>3. c.window \in Int /\ c.streak \in Nat /\ Floor \in Nat
    BY <1>1 DEF CcState, Floor
<1>4. /\ c.window \div 2 \in Int /\ 2 * c.window \in Int /\ c.window + GrowStep \in Int
      /\ c.streak + 1 \in Nat
    BY <1>1, <1>3
<1>5. /\ Clamp(c.window \div 2) \in Floor .. MaxWindow
      /\ Clamp(2 * c.window) \in Floor .. MaxWindow
      /\ Clamp(c.window + GrowStep) \in Floor .. MaxWindow
    BY <1>2, <1>4
<1>6. CASE c.loss
    BY <1>5, <1>6 DEF Decide, CcState
<1>7. CASE ~ c.loss /\ c.slow
    BY <1>5, <1>7, Zenon DEF Decide, CcState
<1>8. CASE ~ c.loss /\ ~ c.slow
    BY <1>4, <1>5, <1>8, Zenon DEF Decide, CcState
<1> QED
    BY <1>6, <1>7, <1>8

(* The decisions of m round trips, from c on. *)
IsRun(f, c, m) == f = [n \in 0 .. m |-> IF n = 0 THEN c ELSE Decide(f[n - 1])]

(* Such a run exists: a shortest one that did not would be one decision longer
   than one that does. *)
LEMMA RunExists ==
    ASSUME NEW c, NEW e \in Nat
    PROVE  \E f : IsRun(f, c, e)
<1> DEFINE T == {m \in Nat : ~ \E f : IsRun(f, c, m)}
<1> SUFFICES ASSUME T # {} PROVE FALSE
    OBVIOUS
<1>1. PICK m \in T : \A k \in T : m <= k
    <2>1. T \in SUBSET Nat
        OBVIOUS
    <2> HIDE DEF T
    <2> QED
        BY <2>1, LeastNat
<1>2. CASE m = 0
    <2> DEFINE f == [n \in 0 .. 0 |-> c]
    <2>1. IsRun(f, c, 0)
        BY DEF IsRun
    <2> QED
        BY <1>1, <1>2, <2>1
<1>3. CASE m # 0
    <2>1. m - 1 \in Nat /\ m - 1 \notin T
        BY <1>1, <1>3
    <2>2. PICK f : IsRun(f, c, m - 1)
        BY <2>1
    <2> DEFINE g == [n \in 0 .. m |-> IF n = m THEN Decide(f[m - 1]) ELSE f[n]]
    <2>3. \A n \in 0 .. m - 1 : f[n] = IF n = 0 THEN c ELSE Decide(f[n - 1])
        BY <2>2 DEF IsRun
    <2>4. ASSUME NEW n \in 0 .. m
          PROVE  g[n] = IF n = 0 THEN c ELSE Decide(g[n - 1])
        <3>1. CASE n = m
            <4>1. n - 1 \in 0 .. m /\ n - 1 # m /\ n # 0
                BY <1>1, <1>3, <3>1
            <4> QED
                BY <4>1, <3>1
        <3>2. CASE n # m /\ n # 0
            <4>1. n - 1 \in 0 .. m /\ n - 1 # m /\ n \in 0 .. m - 1
                BY <1>1, <1>3, <3>2
            <4> QED
                BY <4>1, <3>2, <2>3
        <3>3. CASE n = 0
            <4>1. n # m /\ n \in 0 .. m - 1
                BY <1>1, <1>3, <3>3
            <4> QED
                BY <4>1, <3>3, <2>3
        <3> QED
            BY <3>1, <3>2, <3>3
    <2>5. g = [n \in 0 .. m |-> g[n]]
        OBVIOUS
    <2> HIDE DEF g
    <2>6. IsRun(g, c, m)
        BY <2>4, <2>5, Zenon DEF IsRun
    <2> QED
        BY <1>1, <2>6
<1> QED
    BY <1>2, <1>3

(* Only its first decision can see a loss. *)
LEMMA RunFacts ==
    ASSUME NEW c \in CcState, NEW e \in Nat, NEW f, IsRun(f, c, e)
    PROVE  f[e] \in CcState /\ (e > 0 => ~ f[e].loss)
<1> DEFINE T == {m \in Nat : m <= e /\ f[m] \notin CcState}
<1>1. \A n \in 0 .. e : f[n] = IF n = 0 THEN c ELSE Decide(f[n - 1])
    BY DEF IsRun
<1>2. T = {}
    <2> SUFFICES ASSUME T # {} PROVE FALSE
        OBVIOUS
    <2>1. PICK m \in T : \A k \in T : m <= k
        <3>1. T \in SUBSET Nat
            OBVIOUS
        <3> HIDE DEF T
        <3> QED
            BY <3>1, LeastNat
    <2>2. m # 0
        BY <1>1, <2>1
    <2>3. m - 1 \in Nat /\ m - 1 \notin T /\ m \in 0 .. e
        BY <2>1, <2>2
    <2>4. f[m - 1] \in CcState
        BY <2>1, <2>3
    <2> QED
        BY <1>1, <2>1, <2>2, <2>3, <2>4, DecideFacts
<1>3. f[e] \in CcState
    BY <1>2
<1>4. ASSUME e > 0 PROVE ~ f[e].loss
    <2>1. f[e - 1] \in CcState /\ e \in 0 .. e /\ e # 0
        BY <1>2, <1>4
    <2> QED
        BY <1>1, <2>1, DecideFacts
<1> QED
    BY <1>3, <1>4

(* What a poll leaves. *)
LEMMA PollFacts ==
    ASSUME cc \in CcState, NEW e \in Nat, Poll(e)
    PROVE  /\ cc' \in CcState
           /\ e > 0 => ~ cc'.loss
           /\ e = 0 => cc' = cc
<1> DEFINE after == CHOOSE f : IsRun(f, cc, e)
<1>1. IsRun(after, cc, e)
    BY RunExists
<1>2. cc' = after[e]
    BY DEF Poll, IsRun
<1> HIDE DEF after
<1>3. after[0] = cc
    BY <1>1 DEF IsRun
<1> QED
    BY <1>1, <1>2, <1>3, RunFacts

(* The inductive invariant. *)
HalvingsCounted ==
    /\ cc \in CcState /\ backoff \in Nat /\ halvings \in Nat
    /\ backoff > 0 => halvings <= 1 /\ (cc.loss => halvings = 0)

(* A reported loss is all that a NACK or the first timeout of a run changes. *)
LEMMA LossFacts ==
    ASSUME cc \in CcState
    PROVE  [cc EXCEPT !.loss = TRUE] \in CcState
    BY Zenon DEF CcState

(* A step keeps the count of the halvings. *)
LEMMA HalvingsInductive ==
    ASSUME HalvingsCounted, [CcNext]_ccVars
    PROVE  HalvingsCounted'
<1>1. cc \in CcState /\ backoff \in Nat /\ halvings \in Nat /\ cc.loss \in BOOLEAN
    BY DEF HalvingsCounted, CcState
<1>2. CASE RttSample \/ UNCHANGED ccVars
    BY <1>2 DEF RttSample, ccVars, HalvingsCounted
<1>3. ASSUME NEW epochs \in 0 .. MaxEpochs, Poll(epochs)
      PROVE  HalvingsCounted'
    <2>1. epochs \in Nat
        OBVIOUS
    <2>2. /\ cc' \in CcState
          /\ epochs > 0 => ~ cc'.loss
          /\ epochs = 0 => cc' = cc
        BY <1>1, <1>3, <2>1, PollFacts
    <2>3. /\ halvings' = IF epochs > 0 /\ cc.loss THEN halvings + 1 ELSE halvings
          /\ backoff' = backoff
        BY <1>3 DEF Poll
    <2> QED
        BY <1>1, <2>1, <2>2, <2>3 DEF HalvingsCounted
<1>4. CASE NackLoss
    BY <1>1, <1>4, LossFacts DEF NackLoss, HalvingsCounted
<1>5. CASE Timeout
    BY <1>1, <1>5, LossFacts DEF Timeout, HalvingsCounted
<1>6. CASE Progress
    BY <1>6 DEF Progress, HalvingsCounted
<1> QED
    BY <1>2, <1>3, <1>4, <1>5, <1>6 DEF CcNext

(* However long a run of timeouts lasts and however many round trips a poll
   accounts for at once, it halves the window at most once (on_timeout() and
   poll() of congestion.hpp). *)
THEOREM RunHalvesOnce == CcSpec => []OneHalvingPerRun
<1>1. CcInit => HalvingsCounted
    <2> SUFFICES ASSUME CcInit PROVE HalvingsCounted
        OBVIOUS
    <2>1. Clamp(FirstWindow) \in Floor .. MaxWindow
        BY CcAssumption DEF Clamp, Floor
    <2> QED
        BY <2>1 DEF CcInit, HalvingsCounted, CcState
<1>2. HalvingsCounted => OneHalvingPerRun
    BY DEF HalvingsCounted, OneHalvingPerRun
<1> QED
    BY <1>1, <1>2, HalvingsInductive, PTL DEF CcSpec
=============================================================================

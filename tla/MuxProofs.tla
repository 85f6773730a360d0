------------------------------ MODULE MuxProofs -----------------------------
(***************************************************************************)
(* Proofs about the multiplexed transfer and its handshake (Setup, Mux):   *)
(* for any streams, sizes and window, a handshake that completes was made  *)
(* with this initiator, Ok on either side means that every stream arrived  *)
(* whole (at the receiver, but for streams opened by an earlier transfer's *)
(* empty StreamStart), a block marked as waiting for its resend is in the  *)
(* backlog, and the oldest unacknowledged block of a stream can be resent. *)
(*                                                                         *)
(* The heart of the second part is Linked: whatever the order in which     *)
(* ACKs arrive, no block that some ACK names as its base is in the         *)
(* selective part of any other, because the receiver's base only grows and *)
(* is never a block it has.  Announced says which StreamStart a stream was *)
(* opened by: blocks go out only after an ACK with this transfer's nonce,  *)
(* so a stream opened by another StreamStart never gets a block.           *)
(***************************************************************************)
EXTENDS Mux, RingLemmas, FiniteSetTheorems

(* What the datagrams of a handshake say of the two ends. *)
Handshake ==
    /\ ini \in [matched : BOOLEAN, failed : BOOLEAN, retries : Nat]
    /\ res \in [config : Configs \cup {"none"}, nonce : Nat, complete : BOOLEAN,
                failed : BOOLEAN, retries : Nat]
    /\ res.config = "none" \/ res.nonce > OldNonce
    /\ res.config = "mine" => alike
    /\ \A m \in setupNet :
          /\ m.type = "data" => m.cfg \in Configs /\ (m.cfg = "mine" => alike)
          /\ m.type = "reply" => m.nonce \in Nat \ {OldNonce} /\ (m.hash = "mine" => alike)
          /\ m.type = "finack" => \/ m.nonce = OldNonce
                                  \/ m.hash = "mine" /\ ini.matched /\ alike
    /\ res.complete => rstat # "setup"
    /\ AgreedWithInitiator

-----------------------------------------------------------------------------
SenderState ==
    [startAcked : BOOLEAN, base : Nat, next : Nat, receivedEnd : Nat,
     reg : [Slots -> Nat \cup {None}], backlog : Seq(Nat),
     queued : [Slots -> Nat \cup {None}], done : BOOLEAN]
ReceiverState ==
    [start : BOOLEAN, nonce : Nonces, size : Nat, limit : BOOLEAN, got : SUBSET Nat,
     written : Nat, final : SUBSET Nat, done : BOOLEAN]

Types ==
    /\ ss \in [Streams -> SenderState]
    /\ rs \in [Streams -> ReceiverState]
    /\ \A m \in starts : m.k \in Streams /\ m.nonce \in Nonces /\ m.size \in Nat
    /\ \A d \in data : d.k \in Streams /\ d.seq \in Nat
    /\ \A a \in acks : a.k \in Streams /\ a.base \in Nat /\ a.sack \in SUBSET Nat
    /\ \A n \in nacks : n.k \in Streams /\ n.seq \in Nat

(* What a stream of the sender holds: the registry has blocks of the window,
   each at its position. *)
Registered(t, k) ==
    /\ t.base <= t.next /\ t.next <= BlockCount(k) /\ t.next <= t.base + Window
    /\ t.receivedEnd <= t.next
    /\ t.done => t.base = BlockCount(k)
    /\ \A i \in Slots : t.reg[i] # None =>
          t.base <= t.reg[i] /\ t.reg[i] < t.next /\ t.reg[i] % Window = i

(* A mark is at the position of the block it names, which is queued. *)
Queued(t) ==
    \A i \in Slots : t.queued[i] # None =>
        t.queued[i] % Window = i /\ t.queued[i] \in Range(t.backlog)

(* The ACKs of this attempt for a stream, the blocks they name in their
   selective parts, and their bases. *)
AcksOf(k) == {a \in acks : a.k = k /\ a.nonce = "this"}
Sacked(k) == UNION {a.sack : a \in AcksOf(k)}
Bases(k) == {a.base : a \in AcksOf(k)}

(* What a stream's two ends know of each other. *)
Linked(k) ==
    /\ rs[k].got \subseteq 0 .. ss[k].next - 1
    /\ rs[k].written = IF Units[k] = 0 THEN 0 ELSE Cardinality(rs[k].got)
    /\ Sacked(k) \subseteq rs[k].got
    /\ \A b \in Bases(k) \cup {ss[k].base} : 0 .. b - 1 \subseteq rs[k].got /\ b \notin Sacked(k)
    /\ \A s \in ss[k].base .. ss[k].next - 1 : Resident(k, s) \/ s \in Sacked(k)

Sent == \A d \in data : d.seq < ss[d.k].next

Concluded ==
    /\ sstat = "Ok" => \A k \in Streams : ss[k].done
    /\ rstat = "Ok" => \A k \in Streams : rs[k].start /\ rs[k].written = rs[k].size

MuxInv ==
    /\ Types
    /\ \A k \in Streams : Registered(ss[k], k) /\ Queued(ss[k]) /\ Linked(k)
    /\ Sent
    /\ Concluded

(* The stream was opened by the StreamStart of this transfer. *)
Opened(k) == rs[k].start /\ rs[k].nonce = "this"

(* What the StreamStarts of this transfer say, and what follows them. *)
Announced ==
    /\ \A m \in starts : m.nonce = "this" => m.size = Units[m.k]
    /\ \A k \in Streams : Opened(k) => rs[k].size = Units[k]
    /\ \A a \in acks : a.nonce = "this" => Opened(a.k)
    /\ \A k \in Streams : ss[k].startAcked \/ ss[k].next > 0 => Opened(k)

-----------------------------------------------------------------------------
(* The handshake. *)

(* Only leftovers of an earlier handshake and the offer are in the network. *)
LEMMA HandshakeStarts ==
    ASSUME SetupInit
    PROVE  Handshake
<1>1. /\ ini = [matched |-> FALSE, failed |-> FALSE, retries |-> 0]
      /\ res = [config |-> "none", nonce |-> 0, complete |-> FALSE, failed |-> FALSE,
                retries |-> 0]
      /\ alike \in BOOLEAN
    BY DEF SetupInit, OldNonce
<1>2. \A m \in setupNet : \/ m = Data("older") \/ m = Data("unusable")
                          \/ m = FinAck("older", OldNonce) \/ m = FinAck("mine", OldNonce)
                          \/ m = Data("mine") /\ alike
                          \/ m = Foreign
    BY DEF SetupInit, Leftovers
<1>3. \A m \in setupNet :
          /\ m.type = "data" => m.cfg \in Configs /\ (m.cfg = "mine" => alike)
          /\ m.type = "reply" => m.nonce \in Nat \ {OldNonce} /\ (m.hash = "mine" => alike)
          /\ m.type = "finack" => \/ m.nonce = OldNonce
                                  \/ m.hash = "mine" /\ ini.matched /\ alike
    BY <1>2 DEF Data, FinAck, Foreign, Configs
<1> QED
    BY <1>1, <1>3 DEF Handshake, AgreedWithInitiator, Configs

(* A FINACK that echoes a nonce of this handshake comes from the initiator. *)
LEMMA CompletesKeeps ==
    ASSUME Handshake, NEW m \in setupNet, ResponderCompletes(m)
    PROVE  Handshake'
<1>1. /\ m.type = "finack" /\ res.config # "none" /\ m.hash = res.config
      /\ m.nonce = res.nonce
      /\ res' = [res EXCEPT !.complete = TRUE] /\ rstat' = "running"
      /\ ini' = ini /\ setupNet' = setupNet /\ alike' = alike
    BY DEF ResponderCompletes
<1>2. res.nonce \in Nat /\ res.nonce # OldNonce
    BY <1>1 DEF Handshake, OldNonce
<1>3. res.config = "mine" /\ ini.matched /\ alike
    BY <1>1, <1>2 DEF Handshake
<1>4. /\ res' \in [config : Configs \cup {"none"}, nonce : Nat, complete : BOOLEAN,
                   failed : BOOLEAN, retries : Nat]
      /\ res'.config = res.config /\ res'.nonce = res.nonce
    BY <1>1, Zenon DEF Handshake
<1> QED
    BY <1>1, <1>3, <1>4 DEF Handshake, AgreedWithInitiator

(* A reply draws a nonce no earlier handshake used. *)
LEMMA RepliesKeeps ==
    ASSUME Handshake, NEW m \in setupNet, ResponderReplies(m)
    PROVE  Handshake'
<1> DEFINE n == IF res.config = m.cfg THEN res.nonce ELSE res.nonce + 1
<1>1. /\ m.type = "data" /\ m.cfg # "unusable" /\ rstat = "setup"
      /\ res' = [res EXCEPT !.config = m.cfg, !.nonce = n]
      /\ setupNet' = setupNet \cup {Reply(m.cfg, n)}
      /\ ini' = ini /\ alike' = alike /\ rstat' = rstat
    BY DEF ResponderReplies, Valid
<1>2. m.cfg \in Configs /\ (m.cfg = "mine" => alike)
    BY <1>1 DEF Handshake
<1>3. n \in Nat /\ n # OldNonce
    BY <1>2 DEF Handshake, OldNonce, Configs
<1> HIDE DEF n
<1>4. /\ res' \in [config : Configs \cup {"none"}, nonce : Nat, complete : BOOLEAN,
                   failed : BOOLEAN, retries : Nat]
      /\ res'.config = m.cfg /\ res'.nonce = n /\ res'.complete = res.complete
    BY <1>1, <1>2, <1>3, Zenon DEF Handshake
<1>5. ~ res.complete
    BY <1>1 DEF Handshake
<1>6. /\ Reply(m.cfg, n).type = "reply" /\ Reply(m.cfg, n).hash = m.cfg
      /\ Reply(m.cfg, n).nonce = n
    BY DEF Reply
<1>7. \A u \in setupNet' :
          /\ u.type = "data" => u.cfg \in Configs /\ (u.cfg = "mine" => alike)
          /\ u.type = "reply" => u.nonce \in Nat \ {OldNonce} /\ (u.hash = "mine" => alike)
          /\ u.type = "finack" => \/ u.nonce = OldNonce
                                  \/ u.hash = "mine" /\ ini.matched /\ alike
    <2> TAKE u \in setupNet'
    <2>1. CASE u \in setupNet
        BY <2>1 DEF Handshake
    <2>2. CASE u = Reply(m.cfg, n)
        BY <1>2, <1>3, <1>6, <2>2
    <2> QED
        BY <1>1, <2>1, <2>2
<1>8. n > OldNonce
    BY <1>3 DEF OldNonce
<1> QED
    BY <1>1, <1>2, <1>4, <1>5, <1>7, <1>8 DEF Handshake, AgreedWithInitiator

(* Every other step of the handshake. *)
LEMMA HandshakeKeeps ==
    ASSUME Handshake, SetupNext
    PROVE  Handshake'
<1>1. ASSUME NEW m \in setupNet, InitiatorReplies(m)
      PROVE  Handshake'
    <2>1. /\ m.type = "reply" /\ m.hash = "mine"
          /\ ini' = [ini EXCEPT !.matched = TRUE]
          /\ setupNet' = setupNet \cup {FinAck("mine", m.nonce)}
          /\ res' = res /\ alike' = alike /\ rstat' = rstat
        BY <1>1 DEF InitiatorReplies
    <2>2. alike
        BY <2>1 DEF Handshake
    <2>3. /\ ini' \in [matched : BOOLEAN, failed : BOOLEAN, retries : Nat]
          /\ ini'.matched = TRUE
        BY <2>1, Zenon DEF Handshake
    <2>4. \A u \in setupNet' :
              /\ u.type = "data" => u.cfg \in Configs /\ (u.cfg = "mine" => alike)
              /\ u.type = "reply" => u.nonce \in Nat \ {OldNonce} /\ (u.hash = "mine" => alike)
              /\ u.type = "finack" => \/ u.nonce = OldNonce
                                      \/ u.hash = "mine" /\ ini'.matched /\ alike
        <3> TAKE u \in setupNet'
        <3>1. CASE u \in setupNet
            BY <2>3, <3>1 DEF Handshake
        <3>2. CASE u = FinAck("mine", m.nonce)
            BY <2>2, <2>3, <3>2 DEF FinAck
        <3> QED
            BY <2>1, <3>1, <3>2
    <2> QED
        BY <2>1, <2>3, <2>4 DEF Handshake, AgreedWithInitiator
<1>2. CASE InitiatorTimesOut
    <2>1. /\ ini' \in [matched : BOOLEAN, failed : BOOLEAN, retries : Nat]
          /\ ini'.matched = ini.matched
          /\ res' = res /\ setupNet' = setupNet /\ alike' = alike /\ rstat' = rstat
        <3>1. /\ res' = res /\ setupNet' = setupNet /\ alike' = alike /\ rstat' = rstat
              /\ \/ ini' = [ini EXCEPT !.failed = TRUE]
                 \/ ini' = [ini EXCEPT !.retries = @ + 1]
            BY <1>2 DEF InitiatorTimesOut
        <3>2. ini \in [matched : BOOLEAN, failed : BOOLEAN, retries : Nat]
            BY DEF Handshake
        <3>3. ini.retries + 1 \in Nat
            BY <3>2
        <3>4. CASE ini' = [ini EXCEPT !.failed = TRUE]
            BY <3>1, <3>2, <3>4, Zenon
        <3>5. CASE ini' = [ini EXCEPT !.retries = @ + 1]
            BY <3>1, <3>2, <3>3, <3>5
        <3> QED
            BY <3>1, <3>4, <3>5
    <2> QED
        BY <2>1 DEF Handshake, AgreedWithInitiator
<1>3. CASE ResponderTimesOut
    <2>1. /\ res' \in [config : Configs \cup {"none"}, nonce : Nat, complete : BOOLEAN,
                       failed : BOOLEAN, retries : Nat]
          /\ res'.config = res.config /\ res'.nonce = res.nonce
          /\ res'.complete = res.complete
          /\ ini' = ini /\ setupNet' = setupNet /\ alike' = alike
        <3>1. /\ ini' = ini /\ setupNet' = setupNet /\ alike' = alike
              /\ \/ res' = [res EXCEPT !.failed = TRUE]
                 \/ res' = [res EXCEPT !.retries = @ + 1]
            BY <1>3 DEF ResponderTimesOut
        <3>2. res \in [config : Configs \cup {"none"}, nonce : Nat, complete : BOOLEAN,
                       failed : BOOLEAN, retries : Nat]
            BY DEF Handshake
        <3>3. res.retries + 1 \in Nat
            BY <3>2
        <3>4. CASE res' = [res EXCEPT !.failed = TRUE]
            BY <3>1, <3>2, <3>4, Zenon
        <3>5. CASE res' = [res EXCEPT !.retries = @ + 1]
            BY <3>1, <3>2, <3>3, <3>5
        <3> QED
            BY <3>1, <3>4, <3>5
    <2>2. ~ res.complete
        BY <1>3 DEF ResponderTimesOut, Handshake
    <2> QED
        BY <2>1, <2>2 DEF Handshake, AgreedWithInitiator
<1>4. CASE TellMismatch
    <2>1. \A u \in setupNet' : u \in setupNet \/ u.type = "mismatch"
        BY <1>4 DEF TellMismatch, Mismatch
    <2>2. ini' = ini /\ res' = res /\ alike' = alike /\ rstat' = rstat
        BY <1>4 DEF TellMismatch
    <2> QED
        BY <2>1, <2>2 DEF Handshake, AgreedWithInitiator
<1>5. CASE ToldMismatch \/ SetupDeadline
    <2>1. /\ ini' = ini /\ res' = res /\ setupNet' = setupNet /\ alike' = alike
          /\ rstat' = rstat \/ rstat' # "setup"
        BY <1>5 DEF ToldMismatch, SetupDeadline
    <2> QED
        BY <2>1 DEF Handshake, AgreedWithInitiator
<1> QED
    BY <1>1, <1>2, <1>3, <1>4, <1>5, RepliesKeeps, CompletesKeeps DEF SetupNext

(* The streams do not touch the handshake, and no end goes back to it. *)
LEMMA StreamsLeaveHandshake ==
    ASSUME Handshake, StreamNext
    PROVE  Handshake'
<1>1. handshakeVars' = handshakeVars /\ (rstat' = rstat \/ rstat' # "setup")
    BY Zenon DEF StreamNext, SendStart, ServeBacklog, Rto, SendBlock, Service, AckArrives, NackArrives,
           StartArrives, DataArrives, SenderStops, SenderReturns, ReceiverStops, ReceiverReturns,
           receiverVars, senderVars
<1> QED
    BY <1>1 DEF Handshake, AgreedWithInitiator, handshakeVars

(* AgreedWithInitiator: a handshake that completes on the receiver was made
   with this sender, on the configuration it offers (setup.cpp, the FINACK's
   hash and nonce). *)
THEOREM HandshakeAgreed == Spec => []AgreedWithInitiator
<1>1. Init => Handshake
    BY HandshakeStarts DEF Init
<1>2. Handshake /\ [Next]_vars => Handshake'
    <2> SUFFICES ASSUME Handshake, [Next]_vars
                 PROVE  Handshake'
        OBVIOUS
    <2>1. CASE Next
        BY <2>1, HandshakeKeeps, StreamsLeaveHandshake DEF Next
    <2>2. CASE UNCHANGED vars
        BY <2>2 DEF vars, setupVars, Handshake, AgreedWithInitiator
    <2> QED
        BY <2>1, <2>2
<1>3. Handshake => AgreedWithInitiator
    BY DEF Handshake
<1> QED
    BY <1>1, <1>2, <1>3, PTL DEF Spec

-----------------------------------------------------------------------------
(* Sizes, positions and the receive window. *)

(* What the assumptions say of the window and of the streams' sizes. *)
LEMMA Constants ==
    /\ Window \in Nat /\ Window > 0
    /\ \A k \in Streams :
          /\ Units[k] \in Nat /\ BlockCount(k) \in Nat /\ Units[k] <= BlockCount(k)
          /\ Units[k] # 0 => BlockCount(k) = Units[k]
BY MuxAssumption DEF BlockCount

(* A sequence number's position in the ring. *)
LEMMA Position ==
    ASSUME NEW s \in Nat
    PROVE  s % Window \in Slots
BY Constants DEF Slots

(* The receive window's base is the first block it does not have. *)
LEMMA RxBaseFacts ==
    ASSUME NEW n \in Nat, NEW S \in SUBSET (0 .. n - 1)
    PROVE  /\ RxBase(S) \in Nat /\ RxBase(S) \notin S /\ 0 .. RxBase(S) - 1 \subseteq S
           /\ \A b \in Nat : 0 .. b - 1 \subseteq S => b <= RxBase(S)
<1> DEFINE T == Nat \ S
<1>1. n \in T
    OBVIOUS
<1>2. PICK x \in T : \A y \in T : x <= y
    BY <1>1, LeastNat, Zenon
<1>3. x \in Nat /\ x \notin S /\ 0 .. x - 1 \subseteq S
    BY <1>2
<1>4. IsFiniteSet(S) /\ Cardinality(S) \in Nat
    <2>1. 0 \in Int /\ n - 1 \in Int
        OBVIOUS
    <2>2. IsFiniteSet(0 .. n - 1)
        BY <2>1, FS_Interval
    <2>3. IsFiniteSet(S)
        BY <2>2, FS_Subset, Zenon
    <2> QED
        BY <2>3, FS_CardinalityType
<1>5. Cardinality(0 .. x - 1) = x
    <2>1. 0 \in Int /\ x - 1 \in Int
        BY <1>3
    <2>2. Cardinality(0 .. x - 1) = IF 0 > x - 1 THEN 0 ELSE x - 1 - 0 + 1
        BY <2>1, FS_Interval
    <2> QED
        BY <1>3, <2>2
<1>6. x <= Cardinality(S)
    <2>1. Cardinality(0 .. x - 1) <= Cardinality(S)
        BY <1>3, <1>4, FS_Subset
    <2> QED
        BY <1>5, <2>1
<1>7. x \in 0 .. Cardinality(S)
    BY <1>3, <1>4, <1>6
<1>8. \E m \in 0 .. Cardinality(S) : m \notin S /\ 0 .. m - 1 \subseteq S
    BY <1>3, <1>7
<1>9. /\ RxBase(S) \in 0 .. Cardinality(S)
      /\ RxBase(S) \notin S /\ 0 .. RxBase(S) - 1 \subseteq S
    BY <1>8 DEF RxBase
<1>10. RxBase(S) \in Nat
    BY <1>4, <1>9
<1>11. ASSUME NEW b \in Nat, 0 .. b - 1 \subseteq S
       PROVE  b <= RxBase(S)
    <2>1. CASE b > RxBase(S)
        <3>1. RxBase(S) \in 0 .. b - 1
            BY <1>10, <2>1
        <3> QED
            BY <1>9, <1>11, <3>1
    <2> QED
        BY <1>10, <2>1
<1> QED
    BY <1>9, <1>10, <1>11

(* The fields of the two ends of a stream. *)
LEMMA SenderFields ==
    ASSUME NEW t \in SenderState
    PROVE  /\ t.base \in Nat /\ t.next \in Nat /\ t.receivedEnd \in Nat
           /\ t.reg \in [Slots -> Nat \cup {None}] /\ t.queued \in [Slots -> Nat \cup {None}]
           /\ t.backlog \in Seq(Nat) /\ t.done \in BOOLEAN /\ t.startAcked \in BOOLEAN
BY DEF SenderState

(* The fields of a receiving stream, one by one. *)
LEMMA ReceiverFields ==
    ASSUME NEW r \in ReceiverState
    PROVE  /\ r.got \in SUBSET Nat /\ r.written \in Nat /\ r.nonce \in Nonces
           /\ r.start \in BOOLEAN /\ r.limit \in BOOLEAN /\ r.done \in BOOLEAN
           /\ r.final \in SUBSET Nat /\ r.size \in Nat
BY DEF ReceiverState

(* A stream whose every unit was counted has arrived. *)
LEMMA CountedIsWhole ==
    ASSUME MuxInv, NEW k \in Streams, rs[k].written = Units[k]
    PROVE  0 .. Units[k] - 1 \subseteq rs[k].got
<1>1. Units[k] \in Nat /\ (Units[k] # 0 => BlockCount(k) = Units[k])
    BY Constants
<1>2. CASE Units[k] = 0
    BY <1>2
<1>3. CASE Units[k] # 0
    <2> DEFINE all == 0 .. Units[k] - 1
    <2>1. Linked(k) /\ Registered(ss[k], k) /\ ss[k].next \in Nat
        BY SenderFields DEF MuxInv, Types
    <2>2. rs[k].got \subseteq all
        BY <1>1, <1>3, <2>1 DEF Linked, Registered
    <2>3. Cardinality(rs[k].got) = Units[k]
        BY <1>3, <2>1 DEF Linked
    <2>4. IsFiniteSet(all) /\ Cardinality(all) = Units[k]
        <3>1. 0 \in Int /\ Units[k] - 1 \in Int
            BY <1>1
        <3>2. /\ IsFiniteSet(all)
              /\ Cardinality(all) = IF 0 > Units[k] - 1 THEN 0 ELSE Units[k] - 1 - 0 + 1
            BY <3>1, FS_Interval
        <3> QED
            BY <1>1, <1>3, <3>2
    <2>5. rs[k].got = all
        <3> HIDE DEF all
        <3> QED
            BY <2>2, <2>3, <2>4, FS_Subset
    <2> QED
        BY <2>5
<1> QED
    BY <1>2, <1>3

-----------------------------------------------------------------------------
(* Steps of the sender. *)

(* A step that gives one stream of the sender the state t, and sends blocks
   that were sent before or are recorded in t. *)
LEMMA SenderStep ==
    ASSUME MuxInv, NEW k \in Streams, NEW t \in SenderState,
           ss' = [ss EXCEPT ![k] = t],
           rs' = rs, acks' = acks, nacks' = nacks, starts' = starts,
           sstat' = sstat, rstat' = rstat,
           Registered(t, k), Queued(t), ss[k].next <= t.next, ss[k].done => t.done,
           0 .. t.base - 1 \subseteq rs[k].got, t.base \notin Sacked(k),
           \A s \in t.base .. t.next - 1 : t.reg[s % Window] = s \/ s \in Sacked(k),
           \A d \in data' : d \in data \/ (d.k = k /\ d.seq \in Nat /\ d.seq < t.next)
    PROVE  MuxInv'
<1>1. Types /\ Sent /\ Concluded
    BY DEF MuxInv
<1>2. /\ ss' \in [Streams -> SenderState] /\ ss'[k] = t
      /\ \A j \in Streams : j # k => ss'[j] = ss[j]
    BY <1>1 DEF Types
<1>3. Types'
    BY <1>1, <1>2 DEF Types
<1>4. \A j \in Streams : /\ Sacked(j)' = Sacked(j) /\ Bases(j)' = Bases(j)
    BY DEF Sacked, Bases, AcksOf
<1>5. ASSUME NEW j \in Streams
      PROVE  Registered(ss[j], j)' /\ Queued(ss[j])' /\ Linked(j)'
    <2>1. Registered(ss[j], j) /\ Queued(ss[j]) /\ Linked(j)
        BY DEF MuxInv
    <2>2. CASE j # k
        <3>1. Registered(ss'[j], j) /\ Queued(ss'[j])
            BY <1>2, <2>1, <2>2
        <3>2. Linked(j)'
            BY <1>2, <1>4, <2>1, <2>2 DEF Linked, Resident
        <3> QED
            BY <3>1, <3>2 DEF Registered, Queued
    <2>3. CASE j = k
        <3>1. Registered(ss'[k], k) /\ Queued(ss'[k])
            BY <1>2
        <3>2. rs[k].got \subseteq 0 .. t.next - 1
            <4>1. ss[k].next \in Nat /\ t.next \in Nat
                BY <1>1, SenderFields DEF Types
            <4>2. rs[k].got \subseteq 0 .. ss[k].next - 1
                BY <2>1, <2>3 DEF Linked
            <4> QED
                BY <4>1, <4>2
        <3>3. \A b \in Bases(k) : 0 .. b - 1 \subseteq rs[k].got /\ b \notin Sacked(k)
            BY <2>1, <2>3 DEF Linked
        <3>4. /\ rs[k].written = IF Units[k] = 0 THEN 0 ELSE Cardinality(rs[k].got)
              /\ Sacked(k) \subseteq rs[k].got
            BY <2>1, <2>3 DEF Linked
        <3>5. Linked(k)'
            BY <1>2, <1>4, <3>2, <3>3, <3>4 DEF Linked, Resident
        <3> QED
            BY <2>3, <3>1, <3>5 DEF Registered, Queued
    <2> QED
        BY <2>2, <2>3
<1>6. Sent'
    <2> SUFFICES ASSUME NEW d \in data'
                 PROVE  d.seq < ss'[d.k].next
        BY DEF Sent
    <2>1. CASE d \in data
        <3>1. d.k \in Streams /\ d.seq \in Nat /\ d.seq < ss[d.k].next
            BY <1>1, <2>1 DEF Types, Sent
        <3>2. ss[d.k].next \in Nat /\ t.next \in Nat
            BY <1>1, <3>1, SenderFields DEF Types
        <3>3. CASE d.k = k
            BY <1>2, <3>1, <3>2, <3>3
        <3>4. CASE d.k # k
            BY <1>2, <3>1, <3>4
        <3> QED
            BY <3>3, <3>4
    <2>2. CASE d.k = k /\ d.seq < t.next
        BY <1>2, <2>2
    <2> QED
        BY <2>1, <2>2
<1>7. Concluded'
    <2>1. \A j \in Streams : ss[j].done => ss'[j].done
        BY <1>2
    <2> QED
        BY <1>1, <2>1 DEF Concluded
<1> QED
    BY <1>3, <1>5, <1>6, <1>7 DEF MuxInv

(* The facts about a stream that its steps start from. *)
LEMMA StreamFacts ==
    ASSUME MuxInv, NEW k \in Streams
    PROVE  /\ ss[k] \in SenderState /\ rs[k] \in ReceiverState
           /\ Registered(ss[k], k) /\ Queued(ss[k]) /\ Linked(k)
           /\ 0 .. ss[k].base - 1 \subseteq rs[k].got /\ ss[k].base \notin Sacked(k)
           /\ \A s \in ss[k].base .. ss[k].next - 1 :
                 ss[k].reg[s % Window] = s \/ s \in Sacked(k)
BY DEF MuxInv, Types, Linked, Resident

(* A block that resend() finds in the registry was sent before. *)
LEMMA ResentWasSent ==
    ASSUME MuxInv, NEW k \in Streams, NEW S \in SUBSET Nat
    PROVE  \A d \in Resent(k, S) : d.k = k /\ d.seq \in Nat /\ d.seq < ss[k].next
<1>1. ss[k] \in SenderState /\ Registered(ss[k], k)
    BY StreamFacts
<1>2. ASSUME NEW s \in S, Resident(k, s)
      PROVE  s < ss[k].next
    <2>1. s % Window \in Slots /\ s \in Nat /\ s # None
        BY Position DEF None
    <2> QED
        BY <1>1, <1>2, <2>1 DEF Registered, Resident
<1> SUFFICES ASSUME NEW d \in Resent(k, S)
             PROVE  d.k = k /\ d.seq \in Nat /\ d.seq < ss[k].next
    OBVIOUS
<1>3. PICK s \in {u \in S : Resident(k, u)} : d = [k |-> k, seq |-> s, last |-> s + 1 = BlockCount(k)]
    BY DEF Resent
<1>4. d.k = k /\ d.seq = s
    BY <1>3
<1> QED
    BY <1>2, <1>4

(* A retransmission from the backlog, whose mark goes with it. *)
LEMMA ServeBacklogKeeps ==
    ASSUME MuxInv, NEW k \in Streams, ServeBacklog(k)
    PROVE  MuxInv'
<1> DEFINE q == ss[k].backlog
           s == Head(q)
           marks == [ss[k].queued EXCEPT ![s % Window] = IF @ = s THEN None ELSE @]
           t == [ss[k] EXCEPT !.backlog = Tail(q), !.queued = marks]
<1>1. /\ q # <<>> /\ data' = data \cup Resent(k, {s})
      /\ rs' = rs /\ acks' = acks /\ nacks' = nacks /\ starts' = starts
      /\ sstat' = sstat /\ rstat' = rstat
    BY DEF ServeBacklog, receiverVars
<1>2. /\ ss[k] \in SenderState /\ Registered(ss[k], k) /\ Queued(ss[k])
      /\ ss[k].queued \in [Slots -> Nat \cup {None}] /\ q \in Seq(Nat)
      /\ ss[k].next \in Nat
    BY StreamFacts, SenderFields
<1>3. s \in Nat /\ Tail(q) \in Seq(Nat) /\ s % Window \in Slots
    <2>1. s \in Nat /\ Tail(q) \in Seq(Nat)
        BY <1>1, <1>2
    <2> HIDE DEF s
    <2> QED
        BY <2>1, Position
<1>4. ss' = [ss EXCEPT ![k] = t]
    BY Zenon DEF ServeBacklog
<1>5. marks \in [Slots -> Nat \cup {None}]
    BY <1>2, <1>3
<1>6. \A v \in Range(q) : v # s => v \in Range(Tail(q))
    <2> SUFFICES ASSUME NEW i \in DOMAIN q, q[i] # s
                 PROVE  \E j \in DOMAIN Tail(q) : Tail(q)[j] = q[i]
        BY DEF Range
    <2>1. i \in 1 .. Len(q) /\ i # 1 /\ Len(q) \in Nat
        BY <1>1, <1>2
    <2>2. i - 1 \in 1 .. Len(Tail(q)) /\ Tail(q)[i - 1] = q[i]
        <3>1. Len(Tail(q)) = Len(q) - 1 /\ \A j \in 1 .. Len(q) - 1 : Tail(q)[j] = q[j + 1]
            BY <1>1, <1>2
        <3>2. i - 1 \in 1 .. Len(q) - 1 /\ (i - 1) + 1 = i
            BY <2>1
        <3> HIDE DEF q
        <3> QED
            BY <3>1, <3>2
    <2>3. DOMAIN Tail(q) = 1 .. Len(Tail(q))
        BY <1>3
    <2> QED
        BY <2>2, <2>3
<1>7. ASSUME NEW i \in Slots, marks[i] # None
      PROVE  marks[i] % Window = i /\ marks[i] \in Range(Tail(q))
    <2>1. ss[k].queued[i] # None /\ marks[i] = ss[k].queued[i]
        BY <1>2, <1>3, <1>7, Zenon
    <2>2. ss[k].queued[i] % Window = i /\ ss[k].queued[i] \in Range(q)
        BY <1>2, <2>1 DEF Queued
    <2>3. ss[k].queued[i] # s
        BY <1>2, <1>3, <1>7, <2>1, <2>2, Zenon
    <2> QED
        BY <1>6, <2>1, <2>2, <2>3, Zenon
<1> HIDE DEF marks
<1>8. /\ t \in SenderState /\ t.base = ss[k].base /\ t.next = ss[k].next
      /\ t.receivedEnd = ss[k].receivedEnd /\ t.reg = ss[k].reg /\ t.done = ss[k].done
      /\ t.backlog = Tail(q) /\ t.queued = marks
    BY <1>2, <1>3, <1>5, Zenon DEF SenderState
<1> HIDE DEF t, s, q
<1>9. Registered(t, k)
    BY <1>2, <1>8 DEF Registered
<1>10. Queued(t)
    BY <1>7, <1>8 DEF Queued
<1>11. \A d \in data' : d \in data \/ (d.k = k /\ d.seq \in Nat /\ d.seq < t.next)
    BY <1>1, <1>3, <1>8, ResentWasSent
<1>12. /\ 0 .. t.base - 1 \subseteq rs[k].got /\ t.base \notin Sacked(k)
       /\ \A u \in t.base .. t.next - 1 : t.reg[u % Window] = u \/ u \in Sacked(k)
    BY <1>8, StreamFacts
<1>13. ss[k].next <= t.next /\ (ss[k].done => t.done)
    BY <1>2, <1>8
<1> QED
    BY <1>1, <1>4, <1>8, <1>9, <1>10, <1>11, <1>12, <1>13, SenderStep, Zenon

(* A step that leaves every stream of the sender as it is and sends blocks
   that were sent before. *)
LEMMA ResendKeeps ==
    ASSUME MuxInv, NEW k \in Streams, NEW S \in SUBSET Nat,
           data' = data \cup Resent(k, S), ss' = ss,
           rs' = rs, acks' = acks, nacks' = nacks, starts' = starts,
           sstat' = sstat, rstat' = rstat
    PROVE  MuxInv'
<1>1. Types'
    <2>1. \A d \in data' : d.k \in Streams /\ d.seq \in Nat
        BY ResentWasSent DEF MuxInv, Types
    <2> QED
        BY <2>1 DEF MuxInv, Types
<1>2. Sent'
    BY ResentWasSent, Zenon DEF MuxInv, Sent
<1>3. \A j \in Streams : Registered(ss[j], j)' /\ Queued(ss[j])' /\ Linked(j)'
    BY DEF MuxInv, Registered, Queued, Linked, Resident, Sacked, Bases, AcksOf
<1>4. Concluded'
    BY DEF MuxInv, Concluded
<1> QED
    BY <1>1, <1>2, <1>3, <1>4 DEF MuxInv

(* A retransmission timeout resends what is registered. *)
LEMMA RtoKeeps ==
    ASSUME MuxInv, NEW k \in Streams, Rto(k)
    PROVE  MuxInv'
<1> DEFINE c == RtoCandidates(k)
           S == {s \in c : Cardinality({t \in c : t < s}) < RtoHoles}
<1>1. /\ data' = data \cup Resent(k, S) /\ ss' = ss
      /\ rs' = rs /\ acks' = acks /\ nacks' = nacks /\ starts' = starts
      /\ sstat' = sstat /\ rstat' = rstat
    BY DEF Rto, receiverVars
<1>2. S \in SUBSET Nat
    <2>1. ss[k].base \in Nat /\ ss[k].next \in Nat
        BY StreamFacts, SenderFields
    <2>2. c \in SUBSET Nat
        BY <2>1 DEF RtoCandidates
    <2> QED
        BY <2>2
<1> HIDE DEF S
<1> QED
    BY <1>1, <1>2, ResendKeeps

(* A new block takes a position that no block of the window holds. *)
LEMMA SendBlockKeeps ==
    ASSUME MuxInv, NEW k \in Streams, SendBlock(k)
    PROVE  MuxInv'
<1> DEFINE s == ss[k].next
           slots == [ss[k].reg EXCEPT ![s % Window] = s]
           t == [ss[k] EXCEPT !.reg = slots, !.next = s + 1]
<1>1. /\ s < BlockCount(k) /\ s < ss[k].base + Window
      /\ data' = data \cup {[k |-> k, seq |-> s, last |-> s + 1 = BlockCount(k)]}
      /\ ss[k].done = FALSE
      /\ rs' = rs /\ acks' = acks /\ nacks' = nacks /\ starts' = starts
      /\ sstat' = sstat /\ rstat' = rstat
    <2>1. ss[k].done \in BOOLEAN
        BY StreamFacts, SenderFields
    <2> QED
        BY <2>1 DEF SendBlock, SenderWorks, receiverVars
<1>2. ss' = [ss EXCEPT ![k] = t]
    BY Zenon DEF SendBlock
<1>3. /\ ss[k] \in SenderState /\ Registered(ss[k], k) /\ Queued(ss[k])
      /\ ss[k].base \in Nat /\ s \in Nat /\ ss[k].receivedEnd \in Nat
      /\ ss[k].reg \in [Slots -> Nat \cup {None}]
      /\ Window \in Nat /\ Window > 0 /\ BlockCount(k) \in Nat
    BY StreamFacts, SenderFields, Constants
<1>4. s % Window \in Slots
    BY <1>3, Position
<1>5. /\ slots \in [Slots -> Nat \cup {None}] /\ slots[s % Window] = s
      /\ \A i \in Slots : i # s % Window => slots[i] = ss[k].reg[i]
    BY <1>3, <1>4
<1> HIDE DEF slots
<1>6. /\ t \in SenderState /\ t.base = ss[k].base /\ t.next = s + 1
      /\ t.receivedEnd = ss[k].receivedEnd /\ t.reg = slots /\ t.done = ss[k].done
      /\ t.backlog = ss[k].backlog /\ t.queued = ss[k].queued
    <2>1. s + 1 \in Nat
        BY <1>3
    <2> HIDE DEF s
    <2> QED
        BY <1>3, <1>5, <2>1, Zenon DEF SenderState
<1> HIDE DEF t
<1>7. ASSUME NEW i \in Slots, slots[i] # None
      PROVE  ss[k].base <= slots[i] /\ slots[i] < s + 1 /\ slots[i] % Window = i
    <2>1. CASE i = s % Window
        <3>1. ss[k].base <= s
            BY <1>3 DEF Registered
        <3> QED
            BY <1>3, <1>5, <2>1, <3>1
    <2>2. CASE i # s % Window
        <3>1. slots[i] = ss[k].reg[i] /\ slots[i] \in Nat
            BY <1>5, <1>7, <2>2
        <3>2. ss[k].base <= slots[i] /\ slots[i] < s /\ slots[i] % Window = i
            BY <1>3, <1>7, <3>1 DEF Registered
        <3> HIDE DEF s
        <3> QED
            BY <1>3, <3>1, <3>2
    <2> QED
        BY <2>1, <2>2
<1>8. Registered(t, k)
    <2>1. /\ ss[k].base <= s + 1 /\ s + 1 <= BlockCount(k) /\ s + 1 <= ss[k].base + Window
          /\ ss[k].receivedEnd <= s + 1
        BY <1>1, <1>3 DEF Registered
    <2> HIDE DEF s
    <2> QED
        BY <1>1, <1>6, <1>7, <2>1 DEF Registered
<1>9. Queued(t)
    BY <1>3, <1>6 DEF Queued
<1>10. \A u \in t.base .. t.next - 1 : t.reg[u % Window] = u \/ u \in Sacked(k)
    <2> SUFFICES ASSUME NEW u \in ss[k].base .. s
                 PROVE  slots[u % Window] = u \/ u \in Sacked(k)
        BY <1>3, <1>6
    <2>1. u \in Nat /\ u % Window \in Slots
        BY <1>3, Position
    <2>2. CASE u = s
        BY <1>5, <2>2
    <2>3. CASE u # s
        <3>1. u \in ss[k].base .. ss[k].next - 1
            BY <1>3, <2>3
        <3>2. u % Window # s % Window
            <4>1. u \in ss[k].base .. ss[k].base + Window - 1 /\ s \in ss[k].base .. ss[k].base + Window - 1
                BY <1>1, <1>3, <3>1
            <4> HIDE DEF s
            <4> QED
                <5>1. Window \in Nat \ {0} /\ ss[k].base \in Nat
                    BY <1>3
                <5> QED
                    BY <2>3, <4>1, <5>1, SlotSame, Zenon
        <3>3. slots[u % Window] = ss[k].reg[u % Window]
            BY <1>5, <2>1, <3>2
        <3> QED
            BY <3>1, <3>3, StreamFacts
    <2> QED
        BY <2>2, <2>3
<1>11. \A d \in data' : d \in data \/ (d.k = k /\ d.seq \in Nat /\ d.seq < t.next)
    <2>1. \A d \in data' : d \in data \/ (d.k = k /\ d.seq = s)
        BY <1>1
    <2>2. s < s + 1
        BY <1>3
    <2> QED
        BY <1>3, <1>6, <2>1, <2>2
<1>12. 0 .. t.base - 1 \subseteq rs[k].got /\ t.base \notin Sacked(k)
    BY <1>6, StreamFacts
<1>13. ss[k].next <= t.next /\ (ss[k].done => t.done)
    BY <1>3, <1>6
<1> HIDE DEF s
<1> QED
    BY <1>1, <1>2, <1>6, <1>8, <1>9, <1>10, <1>11, <1>12, <1>13, SenderStep, Zenon

(* A NACKed block joins the backlog with its mark. *)
LEMMA NackArrivesKeeps ==
    ASSUME MuxInv, NEW n \in nacks, NackArrives(n)
    PROVE  MuxInv'
<1> DEFINE k == n.k
           s == n.seq
           q == ss[k].backlog
           marks == [ss[k].queued EXCEPT ![s % Window] = s]
           t == [ss[k] EXCEPT !.backlog = Append(q, s), !.queued = marks]
<1>1. k \in Streams /\ s \in Nat
    BY DEF MuxInv, Types
<1>2. /\ rs' = rs /\ acks' = acks /\ nacks' = nacks /\ starts' = starts
      /\ sstat' = sstat /\ rstat' = rstat
    BY DEF NackArrives, receiverVars
<1>3. CASE BacklogFull(k)
    <2>1. data' = data \cup Resent(k, {s}) /\ ss' = ss
        BY <1>3 DEF NackArrives
    <2> HIDE DEF k, s
    <2> QED
        BY <1>1, <1>2, <2>1, ResendKeeps
<1>4. CASE ~ BacklogFull(k)
    <2>1. data' = data /\ ss' = [ss EXCEPT ![k] = t]
        BY <1>4, Zenon DEF NackArrives
    <2> HIDE DEF k, s
    <2>2. /\ ss[k] \in SenderState /\ Registered(ss[k], k) /\ Queued(ss[k])
          /\ ss[k].queued \in [Slots -> Nat \cup {None}] /\ q \in Seq(Nat)
          /\ ss[k].next \in Nat
        BY <1>1, StreamFacts, SenderFields
    <2>3. s % Window \in Slots
        BY <1>1, Position
    <2>4. /\ Append(q, s) \in Seq(Nat) /\ s \in Range(Append(q, s))
          /\ \A v \in Range(q) : v \in Range(Append(q, s))
        <3>1. /\ Append(q, s) \in Seq(Nat) /\ Len(Append(q, s)) = Len(q) + 1
              /\ DOMAIN Append(q, s) = 1 .. Len(q) + 1 /\ DOMAIN q = 1 .. Len(q) /\ Len(q) \in Nat
              /\ Append(q, s)[Len(q) + 1] = s
              /\ \A i \in 1 .. Len(q) : Append(q, s)[i] = q[i]
            BY <1>1, <2>2
        <3> HIDE DEF q
        <3>2. Len(q) + 1 \in DOMAIN Append(q, s) /\ \A i \in 1 .. Len(q) : i \in DOMAIN Append(q, s)
            BY <3>1
        <3> QED
            BY <3>1, <3>2 DEF Range
    <2>5. /\ marks \in [Slots -> Nat \cup {None}] /\ marks[s % Window] = s
          /\ \A i \in Slots : i # s % Window => marks[i] = ss[k].queued[i]
        BY <1>1, <2>2, <2>3
    <2> HIDE DEF marks
    <2>6. /\ t \in SenderState /\ t.base = ss[k].base /\ t.next = ss[k].next
          /\ t.receivedEnd = ss[k].receivedEnd /\ t.reg = ss[k].reg /\ t.done = ss[k].done
          /\ t.backlog = Append(q, s) /\ t.queued = marks
        BY <2>2, <2>4, <2>5, Zenon DEF SenderState
    <2> HIDE DEF t, q
    <2>7. Registered(t, k)
        BY <2>2, <2>6 DEF Registered
    <2>8. Queued(t)
        <3> SUFFICES ASSUME NEW i \in Slots, marks[i] # None
                     PROVE  marks[i] % Window = i /\ marks[i] \in Range(Append(q, s))
            BY <2>6 DEF Queued
        <3>1. CASE i = s % Window
            BY <2>4, <2>5, <3>1
        <3>2. CASE i # s % Window
            BY <2>2, <2>4, <2>5, <3>2 DEF Queued, q
        <3> QED
            BY <3>1, <3>2
    <2>9. /\ 0 .. t.base - 1 \subseteq rs[k].got /\ t.base \notin Sacked(k)
          /\ \A u \in t.base .. t.next - 1 : t.reg[u % Window] = u \/ u \in Sacked(k)
        BY <1>1, <2>6, StreamFacts
    <2>10. ss[k].next <= t.next /\ (ss[k].done => t.done)
        BY <2>2, <2>6
    <2>11. \A d \in data' : d \in data \/ (d.k = k /\ d.seq \in Nat /\ d.seq < t.next)
        BY <2>1
    <2> QED
        BY <1>1, <1>2, <2>1, <2>6, <2>7, <2>8, <2>9, <2>10, <2>11, SenderStep, Zenon
<1> QED
    BY <1>3, <1>4

(* The new base is the old one or the ACK's, and what leaves the registry is
   below it or named in the selective part. *)
LEMMA AckedFacts ==
    ASSUME MuxInv, NEW a \in acks, a.nonce = "this", NEW k, k = a.k
    PROVE  LET t == Acked(ss[k], a)
           IN  /\ k \in Streams /\ t \in SenderState
               /\ t.next = ss[k].next /\ t.done = ss[k].done
               /\ t.backlog = ss[k].backlog /\ t.queued = ss[k].queued
               /\ t.base \in Bases(k) \cup {ss[k].base}
               /\ ss[k].base <= t.base /\ t.base <= ss[k].next
               /\ t.receivedEnd <= ss[k].next
               /\ \A i \in Slots : \/ t.reg[i] = ss[k].reg[i] /\ t.base <= t.reg[i]
                                   \/ t.reg[i] = None
               /\ \A i \in Slots : \/ t.reg[i] = ss[k].reg[i] \/ ss[k].reg[i] < t.base
                                   \/ ss[k].reg[i] \in Sacked(k)
<1> DEFINE o == ss[k]
           base == IF a.base <= o.base THEN o.base ELSE IF a.base < o.next THEN a.base ELSE o.next
           held == {s \in a.sack : s < o.next}
           ends == {o.receivedEnd, base} \cup {s + 1 : s \in held}
           end == CHOOSE e \in ends : \A x \in ends : x <= e
           slots == [i \in Slots |-> IF o.reg[i] < base \/ o.reg[i] \in held THEN None ELSE o.reg[i]]
           t == Acked(o, a)
<1>1. k \in Streams /\ a.base \in Nat /\ a.sack \in SUBSET Nat
    BY DEF MuxInv, Types
<1>2. /\ o \in SenderState /\ Registered(o, k) /\ Linked(k)
      /\ o.base \in Nat /\ o.next \in Nat /\ o.receivedEnd \in Nat
      /\ o.reg \in [Slots -> Nat \cup {None}]
    BY <1>1, StreamFacts, SenderFields
<1>3. a \in AcksOf(k)
    BY DEF AcksOf
<1>4. a.base \in Bases(k) /\ a.sack \subseteq Sacked(k)
    BY <1>3 DEF Bases, Sacked
<1>5. a.base <= o.next
    <2>1. 0 .. a.base - 1 \subseteq 0 .. o.next - 1
        BY <1>2, <1>4 DEF Linked
    <2>2. CASE a.base > o.next
        <3>1. a.base - 1 \in 0 .. a.base - 1
            BY <1>1, <1>2, <2>2
        <3>2. a.base - 1 \in 0 .. o.next - 1
            BY <2>1, <3>1
        <3> HIDE DEF o
        <3> QED
            BY <1>1, <1>2, <2>2, <3>2
    <2> HIDE DEF o
    <2> QED
        BY <1>1, <1>2, <2>2
<1>6. /\ base \in Bases(k) \cup {o.base} /\ base \in Nat /\ o.base <= base /\ base <= o.next
    <2>1. o.base <= o.next
        BY <1>2 DEF Registered
    <2> HIDE DEF o
    <2> QED
        BY <1>1, <1>2, <1>4, <1>5, <2>1
<1>7. held \in SUBSET Nat /\ held \subseteq Sacked(k) /\ \A s \in held : s < o.next
    BY <1>1, <1>4
<1>8. o.receivedEnd <= o.next
    BY <1>2 DEF Registered
<1> HIDE DEF o, base, held
<1>9. ends \in SUBSET (0 .. o.next) /\ ends # {}
    BY <1>2, <1>6, <1>7, <1>8
<1> HIDE DEF ends
<1>10. \E e \in ends : \A x \in ends : x <= e
    <2>1. PICK e \in ends : \A x \in ends : e >= x
        BY <1>2, <1>9, GreatestBelow, Zenon
    <2>2. \A x \in ends : x \in Int
        BY <1>9
    <2> QED
        BY <2>1, <2>2
<1>11. end \in Nat /\ end <= o.next
    <2>1. end \in ends
        BY <1>10
    <2> HIDE DEF end
    <2> QED
        BY <1>2, <1>9, <2>1
<1>12. slots \in [Slots -> Nat \cup {None}]
    BY <1>2
<1>13. t = [o EXCEPT !.startAcked = TRUE, !.base = base, !.reg = slots, !.receivedEnd = end]
    BY DEF Acked, base, held, ends
<1> HIDE DEF end
<1>14. /\ t \in SenderState /\ t.base = base /\ t.next = o.next /\ t.reg = slots
       /\ t.receivedEnd = end /\ t.done = o.done /\ t.backlog = o.backlog /\ t.queued = o.queued
    <2> HIDE DEF t, slots
    <2> QED
        BY <1>2, <1>6, <1>11, <1>12, <1>13, Zenon DEF SenderState
<1>15. \A i \in Slots : \/ slots[i] = o.reg[i] /\ base <= slots[i]
                        \/ slots[i] = None
    <2> TAKE i \in Slots
    <2>1. slots[i] = IF o.reg[i] < base \/ o.reg[i] \in held THEN None ELSE o.reg[i]
        OBVIOUS
    <2>2. o.reg[i] \in Int
        BY <1>2 DEF None
    <2> HIDE DEF slots
    <2> QED
        BY <1>6, <2>1, <2>2
<1>16. \A i \in Slots : slots[i] = o.reg[i] \/ o.reg[i] < base \/ o.reg[i] \in Sacked(k)
    BY <1>7, Zenon
<1> HIDE DEF t, slots
<1>17. /\ t \in SenderState /\ t.next = ss[k].next /\ t.done = ss[k].done
       /\ t.backlog = ss[k].backlog /\ t.queued = ss[k].queued
       /\ t.base \in Bases(k) \cup {ss[k].base}
       /\ ss[k].base <= t.base /\ t.base <= ss[k].next /\ t.receivedEnd <= ss[k].next
    BY <1>6, <1>11, <1>14 DEF o
<1>18. /\ \A i \in Slots : \/ t.reg[i] = ss[k].reg[i] /\ t.base <= t.reg[i]
                           \/ t.reg[i] = None
       /\ \A i \in Slots : \/ t.reg[i] = ss[k].reg[i] \/ ss[k].reg[i] < t.base
                           \/ ss[k].reg[i] \in Sacked(k)
    BY <1>14, <1>15, <1>16 DEF o
<1> QED
    BY <1>1, <1>17, <1>18, Zenon DEF t, o

(* An acknowledgement that moves the sender's base, drops what it covers and
   may end the stream. *)
LEMMA AckArrivesKeeps ==
    ASSUME MuxInv, NEW a \in acks, AckArrives(a)
    PROVE  MuxInv'
<1> DEFINE k == a.k
           u == Acked(ss[k], a)
           t == [u EXCEPT !.done = @ \/ StreamDone(u, k)]
<1>1. /\ a.nonce = "this" /\ ss' = [ss EXCEPT ![k] = t] /\ data' = data
      /\ rs' = rs /\ acks' = acks /\ nacks' = nacks /\ starts' = starts
      /\ sstat' = sstat /\ rstat' = rstat
    BY DEF AckArrives, receiverVars
<1>2. /\ k \in Streams /\ u \in SenderState
      /\ u.next = ss[k].next /\ u.done = ss[k].done
      /\ u.backlog = ss[k].backlog /\ u.queued = ss[k].queued
      /\ u.base \in Bases(k) \cup {ss[k].base}
      /\ ss[k].base <= u.base /\ u.base <= ss[k].next
      /\ u.receivedEnd <= ss[k].next
      /\ \A i \in Slots : \/ u.reg[i] = ss[k].reg[i] /\ u.base <= u.reg[i]
                          \/ u.reg[i] = None
      /\ \A i \in Slots : \/ u.reg[i] = ss[k].reg[i] \/ ss[k].reg[i] < u.base
                          \/ ss[k].reg[i] \in Sacked(k)
    BY <1>1, AckedFacts
<1> HIDE DEF k, u
<1>3. /\ ss[k] \in SenderState /\ Registered(ss[k], k) /\ Queued(ss[k]) /\ Linked(k)
      /\ ss[k].base \in Nat /\ ss[k].next \in Nat /\ ss[k].done \in BOOLEAN
      /\ ss[k].reg \in [Slots -> Nat \cup {None}]
    BY <1>2, StreamFacts, SenderFields, Zenon
<1>4. u.base \in Nat /\ u.done \in BOOLEAN /\ u.reg \in [Slots -> Nat \cup {None}]
    BY <1>2, SenderFields
<1>5. /\ t \in SenderState /\ t.base = u.base /\ t.next = u.next /\ t.reg = u.reg
      /\ t.receivedEnd = u.receivedEnd /\ t.backlog = u.backlog /\ t.queued = u.queued
      /\ t.done = (u.done \/ StreamDone(u, k))
    BY <1>2, <1>4, Zenon DEF SenderState, StreamDone
<1> HIDE DEF t
<1>6. Window \in Nat /\ Window > 0 /\ BlockCount(k) \in Nat
    BY <1>2, Constants
<1>7. /\ ss[k].next <= BlockCount(k) /\ ss[k].next <= ss[k].base + Window
      /\ ss[k].done => ss[k].base = BlockCount(k)
      /\ \A i \in Slots : ss[k].reg[i] # None =>
            ss[k].base <= ss[k].reg[i] /\ ss[k].reg[i] < ss[k].next /\ ss[k].reg[i] % Window = i
    BY <1>3 DEF Registered
<1>8. Registered(t, k)
    <2> DEFINE old == ss[k].base
               new == t.base
               next == ss[k].next
    <2>1. /\ old \in Nat /\ new \in Nat /\ next \in Nat /\ t.next = next
          /\ old <= new /\ new <= next /\ next <= BlockCount(k) /\ next <= old + Window
          /\ u.base = new /\ u.next = next
        BY <1>2, <1>3, <1>4, <1>5, <1>7, Zenon
    <2>2. t.receivedEnd <= t.next
        BY <1>2, <1>5
    <2>3. u.done => old = BlockCount(k)
        BY <1>2, <1>7
    <2> HIDE DEF old, new, next
    <2>4. t.base <= t.next /\ t.next <= BlockCount(k) /\ t.next <= t.base + Window
        <3>1. new <= next /\ next <= BlockCount(k) /\ next <= new + Window
            BY <1>6, <2>1
        <3> QED
            BY <2>1, <3>1 DEF new
    <2>5. t.done => t.base = BlockCount(k)
        <3>1. CASE u.done
            <4>1. new = BlockCount(k)
                BY <1>6, <2>1, <2>3, <3>1
            <4> QED
                BY <4>1 DEF new
        <3>2. CASE StreamDone(u, k)
            <4>1. new >= next /\ next = BlockCount(k)
                BY <2>1, <3>2 DEF StreamDone
            <4>2. new = BlockCount(k)
                BY <1>6, <2>1, <4>1
            <4> QED
                BY <4>2 DEF new
        <3> QED
            BY <1>5, <3>1, <3>2, Zenon
    <2>6. \A i \in Slots : t.reg[i] # None =>
              t.base <= t.reg[i] /\ t.reg[i] < t.next /\ t.reg[i] % Window = i
        BY <1>2, <1>5, <1>7, Zenon
    <2> QED
        BY <2>2, <2>4, <2>5, <2>6 DEF Registered
<1>9. Queued(t)
    BY <1>2, <1>3, <1>5, Zenon DEF Queued
<1>10. 0 .. t.base - 1 \subseteq rs[k].got /\ t.base \notin Sacked(k)
    BY <1>2, <1>3, <1>5, Zenon DEF Linked
<1>11. \A s \in t.base .. t.next - 1 : t.reg[s % Window] = s \/ s \in Sacked(k)
    <2> SUFFICES ASSUME NEW s \in u.base .. ss[k].next - 1
                 PROVE  u.reg[s % Window] = s \/ s \in Sacked(k)
        BY <1>2, <1>5, Zenon
    <2>1. s \in Nat /\ s \in ss[k].base .. ss[k].next - 1 /\ u.base <= s
        BY <1>2, <1>3, <1>4
    <2>2. s % Window \in Slots
        BY <2>1, Position
    <2>3. ss[k].reg[s % Window] = s \/ s \in Sacked(k)
        BY <1>2, <2>1, StreamFacts
    <2>4. ~ (s < u.base)
        BY <1>4, <2>1
    <2> QED
        BY <1>2, <2>2, <2>3, <2>4
<1>12. ss[k].next <= t.next /\ (ss[k].done => t.done)
    <2>1. t.next = ss[k].next
        BY <1>2, <1>5, Zenon
    <2>2. ss[k].next <= t.next
        BY <1>3, <2>1
    <2> QED
        BY <1>2, <1>5, <2>2, Zenon
<1>13. \A d \in data' : d \in data \/ (d.k = k /\ d.seq \in Nat /\ d.seq < t.next)
    BY <1>1
<1> QED
    BY <1>1, <1>2, <1>5, <1>8, <1>9, <1>10, <1>11, <1>12, <1>13, SenderStep, Zenon

(* The steps that move the sender's run() alone, or send a StreamStart. *)
LEMMA SenderRuns ==
    ASSUME MuxInv, SenderStops \/ SenderReturns \/ \E k \in Streams : SendStart(k)
    PROVE  MuxInv'
<1>1. /\ ss' = ss /\ rs' = rs /\ data' = data /\ acks' = acks /\ nacks' = nacks /\ rstat' = rstat
      /\ \A m \in starts' : m \in starts \/ \E k \in Streams : m = [k |-> k, nonce |-> "this", size |-> Units[k]]
    BY DEF SenderStops, SenderReturns, SendStart, receiverVars
<1>2. Types'
    <2>1. \A m \in starts' : m.k \in Streams /\ m.nonce \in Nonces /\ m.size \in Nat
        BY <1>1, Constants DEF MuxInv, Types, Nonces
    <2> QED
        BY <1>1, <2>1 DEF MuxInv, Types
<1>3. Sent'
    BY <1>1, Zenon DEF MuxInv, Sent
<1>4. \A j \in Streams : Registered(ss[j], j)' /\ Queued(ss[j])' /\ Linked(j)'
    BY <1>1, Zenon DEF MuxInv, Registered, Queued, Linked, Resident, Sacked, Bases, AcksOf
<1>5. Concluded'
    <2>1. sstat' = "Ok" => \A k \in Streams : ss[k].done
        BY Zenon DEF SenderStops, SenderReturns, SendStart, SenderDone, MuxInv, Concluded
    <2> QED
        BY <1>1, <2>1, Zenon DEF MuxInv, Concluded
<1> QED
    BY <1>2, <1>3, <1>4, <1>5, Zenon DEF MuxInv

-----------------------------------------------------------------------------
(* Steps of the receiver. *)

(* A step of the running receiver that gives one of its streams the state r,
   with at least the blocks it had. *)
LEMMA ReceiverStep ==
    ASSUME MuxInv, NEW k \in Streams, NEW r \in ReceiverState,
           rs' = [rs EXCEPT ![k] = r],
           ss' = ss, data' = data, acks' = acks, nacks' = nacks, starts' = starts,
           sstat' = sstat, rstat' = rstat, rstat # "Ok",
           rs[k].got \subseteq r.got, r.got \subseteq 0 .. ss[k].next - 1,
           r.written = IF Units[k] = 0 THEN 0 ELSE Cardinality(r.got)
    PROVE  MuxInv'
<1>1. Types /\ Sent /\ Concluded
    BY Zenon DEF MuxInv
<1>2. /\ rs' \in [Streams -> ReceiverState] /\ rs'[k] = r
      /\ \A j \in Streams : j # k => rs'[j] = rs[j]
    BY <1>1 DEF Types
<1>3. Types' /\ Sent'
    BY <1>1, <1>2 DEF Types, Sent
<1>4. \A j \in Streams : /\ Sacked(j)' = Sacked(j) /\ Bases(j)' = Bases(j)
    BY DEF Sacked, Bases, AcksOf
<1>5. ASSUME NEW j \in Streams
      PROVE  Registered(ss[j], j)' /\ Queued(ss[j])' /\ Linked(j)'
    <2>1. Registered(ss[j], j) /\ Queued(ss[j]) /\ Linked(j)
        BY DEF MuxInv
    <2>2. Registered(ss[j], j)' /\ Queued(ss[j])'
        BY <2>1, Zenon DEF Registered, Queued
    <2>3. CASE j # k
        BY <1>2, <1>4, <2>1, <2>2, <2>3, Zenon DEF Linked, Resident
    <2>4. CASE j = k
        <3>1. /\ Sacked(k) \subseteq r.got
              /\ \A b \in Bases(k) \cup {ss[k].base} : 0 .. b - 1 \subseteq r.got /\ b \notin Sacked(k)
              /\ \A s \in ss[k].base .. ss[k].next - 1 : Resident(k, s) \/ s \in Sacked(k)
            BY <2>1, <2>4 DEF Linked
        <3>2. Linked(k)'
            BY <1>2, <1>4, <3>1 DEF Linked, Resident
        <3> QED
            BY <2>2, <2>4, <3>2, Zenon
    <2> QED
        BY <2>3, <2>4
<1>6. Concluded'
    BY <1>1, Zenon DEF Concluded
<1> QED
    BY <1>3, <1>5, <1>6, Zenon DEF MuxInv

(* A StreamStart that opens, repeats or refuses a receiving stream. *)
LEMMA StartArrivesKeeps ==
    ASSUME MuxInv, NEW m \in starts, StartArrives(m)
    PROVE  MuxInv'
<1> DEFINE k == m.k
           r1 == [rs[k] EXCEPT !.start = TRUE, !.nonce = m.nonce, !.size = m.size]
           r2 == [rs[k] EXCEPT !.limit = TRUE, !.done = TRUE]
<1>1. k \in Streams /\ m.nonce \in Nonces /\ m.size \in Nat
    BY DEF MuxInv, Types
<1>2. /\ rs' = [rs EXCEPT ![k] = r1] \/ rs' = [rs EXCEPT ![k] = r2]
      /\ ss' = ss /\ data' = data /\ acks' = acks /\ nacks' = nacks /\ starts' = starts
      /\ sstat' = sstat /\ rstat' = rstat /\ rstat # "Ok"
    BY Zenon DEF StartArrives, ReceiverWorks, senderVars
<1> HIDE DEF k
<1>3. rs[k] \in ReceiverState /\ Linked(k)
    BY <1>1, StreamFacts
<1>4. /\ r1 \in ReceiverState /\ r1.got = rs[k].got /\ r1.written = rs[k].written
      /\ r2 \in ReceiverState /\ r2.got = rs[k].got /\ r2.written = rs[k].written
    BY <1>1, <1>3, Zenon DEF ReceiverState
<1> HIDE DEF r1, r2
<1>5. PICK r \in {r1, r2} : rs' = [rs EXCEPT ![k] = r]
    BY <1>2
<1>6. r \in ReceiverState /\ r.got = rs[k].got /\ r.written = rs[k].written
    BY <1>4
<1>7. /\ rs[k].got \subseteq r.got /\ r.got \subseteq 0 .. ss[k].next - 1
      /\ r.written = IF Units[k] = 0 THEN 0 ELSE Cardinality(r.got)
    BY <1>3, <1>6 DEF Linked
<1> QED
    BY <1>1, <1>2, <1>5, <1>6, <1>7, ReceiverStep, Zenon

(* A block is counted once. *)
LEMMA DataArrivesKeeps ==
    ASSUME MuxInv, Announced, NEW d \in data, DataArrives(d)
    PROVE  MuxInv'
<1> DEFINE k == d.k
           o == rs[k]
           got2 == o.got \cup {d.seq}
           written2 == o.written + Copied(d)
           final2 == IF d.last THEN {d.seq} ELSE o.final
           r == [o EXCEPT !.got = got2, !.written = written2, !.final = final2]
<1>1. k \in Streams /\ d.seq \in Nat /\ d.seq < ss[k].next
    BY DEF MuxInv, Types, Sent
<1>2. /\ d.seq \notin o.got /\ rs' = [rs EXCEPT ![k] = r]
      /\ ss' = ss /\ data' = data /\ acks' = acks /\ nacks' = nacks /\ starts' = starts
      /\ sstat' = sstat /\ rstat' = rstat /\ rstat # "Ok"
    BY Zenon DEF DataArrives, ReceiverWorks, senderVars
<1> HIDE DEF k
<1>3. /\ o \in ReceiverState /\ Linked(k) /\ o.got \in SUBSET Nat /\ o.written \in Nat
      /\ o.final \in SUBSET Nat /\ ss[k].next \in Nat
    BY <1>1, StreamFacts, ReceiverFields, SenderFields
<1>4. o.got \subseteq 0 .. ss[k].next - 1 /\ o.written = IF Units[k] = 0 THEN 0 ELSE Cardinality(o.got)
    BY <1>3 DEF Linked
<1>5. Copied(d) = IF Units[k] = 0 THEN 0 ELSE 1
    <2>1. rs[k].size = Units[k]
        BY <1>1, <1>3 DEF Announced
    <2>2. Units[k] # 0 => d.seq < Units[k]
        BY <1>1, <1>3, StreamFacts, Constants DEF Registered
    <2> QED
        BY <2>1, <2>2 DEF Copied, k
<1> HIDE DEF o
<1>6. /\ got2 \in SUBSET Nat /\ o.got \subseteq got2 /\ got2 \subseteq 0 .. ss[k].next - 1
      /\ written2 \in Nat /\ final2 \in SUBSET Nat
    <2>1. d.seq \in 0 .. ss[k].next - 1
        BY <1>1, <1>3
    <2>2. got2 \in SUBSET Nat /\ o.got \subseteq got2 /\ got2 \subseteq 0 .. ss[k].next - 1
        BY <1>1, <1>3, <1>4, <2>1, Zenon
    <2>3. written2 \in Nat
        BY <1>3, <1>5
    <2>4. final2 \in SUBSET Nat
        BY <1>1, <1>3
    <2> QED
        BY <2>2, <2>3, <2>4
<1>7. written2 = IF Units[k] = 0 THEN 0 ELSE Cardinality(got2)
    <2>1. IsFiniteSet(o.got)
        <3>1. 0 \in Int /\ ss[k].next - 1 \in Int
            BY <1>3
        <3>2. IsFiniteSet(0 .. ss[k].next - 1)
            BY <3>1, FS_Interval
        <3> QED
            BY <1>4, <3>2, FS_Subset, Zenon
    <2>2. Cardinality(got2) = Cardinality(o.got) + 1
        BY <1>2, <2>1, FS_AddElement, Zenon
    <2> HIDE DEF got2
    <2> QED
        BY <1>3, <1>4, <1>5, <2>2
<1> HIDE DEF got2, written2, final2
<1>8. r \in ReceiverState /\ r.got = got2 /\ r.written = written2
    BY <1>3, <1>6, Zenon DEF ReceiverState
<1> HIDE DEF r
<1>9. /\ rs[k].got \subseteq r.got /\ r.got \subseteq 0 .. ss[k].next - 1
      /\ r.written = IF Units[k] = 0 THEN 0 ELSE Cardinality(r.got)
    BY <1>6, <1>7, <1>8 DEF o
<1> QED
    BY <1>1, <1>2, <1>8, <1>9, ReceiverStep, Zenon

(* A step that sends ACKs of what the receiver has: their bases are blocks it
   does not have, and no smaller than any base before. *)
LEMMA AcksStep ==
    ASSUME MuxInv, rs' \in [Streams -> ReceiverState],
           \A k \in Streams : /\ rs'[k].got = rs[k].got /\ rs'[k].written = rs[k].written
                              /\ rs'[k].start = rs[k].start /\ rs'[k].size = rs[k].size,
           \A a \in acks' : a \in acks \/ \E k \in Streams : a = CurrentAck(k),
           acks \subseteq acks',
           \A n \in nacks' : n.k \in Streams /\ n.seq \in Nat,
           ss' = ss, data' = data, starts' = starts, sstat' = sstat,
           rstat' = "Ok" => \A k \in Streams : rs[k].start /\ rs[k].written = rs[k].size
    PROVE  MuxInv'
<1>1. Types /\ Sent /\ Concluded
    BY DEF MuxInv
<1>2. ASSUME NEW k \in Streams
      PROVE  /\ RxBase(rs[k].got) \in Nat /\ RxBase(rs[k].got) \notin rs[k].got
             /\ 0 .. RxBase(rs[k].got) - 1 \subseteq rs[k].got
             /\ \A b \in Nat : 0 .. b - 1 \subseteq rs[k].got => b <= RxBase(rs[k].got)
             /\ rs[k].got \in SUBSET Nat
    <2>1. /\ ss[k].next \in Nat /\ rs[k].got \subseteq 0 .. ss[k].next - 1
          /\ rs[k].got \in SUBSET Nat
        BY StreamFacts, SenderFields, ReceiverFields, Zenon DEF Linked
    <2> QED
        BY <2>1, RxBaseFacts, Zenon
<1>3. \A k \in Streams :
          /\ CurrentAck(k).k = k /\ CurrentAck(k).base = RxBase(rs[k].got)
          /\ CurrentAck(k).sack = {s \in rs[k].got : s > RxBase(rs[k].got)}
    BY DEF CurrentAck
<1>4. Types'
    <2>1. \A a \in acks' : a.k \in Streams /\ a.base \in Nat /\ a.sack \in SUBSET Nat
        BY <1>1, <1>2, <1>3 DEF Types
    <2> QED
        BY <1>1, <2>1, Zenon DEF Types
<1>5. ASSUME NEW k \in Streams
      PROVE  /\ \A a \in AcksOf(k)' : \/ a \in AcksOf(k)
                                      \/ /\ a.base = RxBase(rs[k].got)
                                         /\ a.sack = {s \in rs[k].got : s > RxBase(rs[k].got)}
             /\ AcksOf(k) \subseteq AcksOf(k)'
    BY <1>3 DEF AcksOf
<1>6. ASSUME NEW k \in Streams
      PROVE  Registered(ss[k], k)' /\ Queued(ss[k])' /\ Linked(k)'
    <2> DEFINE B == RxBase(rs[k].got)
               got0 == rs[k].got
    <2>1. Registered(ss[k], k) /\ Queued(ss[k]) /\ Linked(k)
        BY DEF MuxInv
    <2>2. Registered(ss[k], k)' /\ Queued(ss[k])'
        BY <2>1, Zenon DEF Registered, Queued
    <2>3. /\ \A s \in Sacked(k)' : s \in Sacked(k) \/ (s \in got0 /\ s > B)
          /\ Sacked(k) \subseteq Sacked(k)'
        BY <1>5 DEF Sacked
    <2>4. \A b \in Bases(k)' : b \in Bases(k) \/ b = B
        BY <1>5 DEF Bases
    <2>5. /\ B \in Nat /\ B \notin got0 /\ 0 .. B - 1 \subseteq got0 /\ got0 \in SUBSET Nat
          /\ \A b \in Nat : 0 .. b - 1 \subseteq got0 => b <= B
        BY <1>2
    <2> HIDE DEF B, got0
    <2>6. Sacked(k) \subseteq got0
        BY <2>1, Zenon DEF Linked, got0
    <2>7. ASSUME NEW b \in Bases(k)' \cup {ss[k].base}
          PROVE  0 .. b - 1 \subseteq got0 /\ b \notin Sacked(k)'
        <3>1. CASE b = B
            BY <2>3, <2>5, <2>6, <3>1
        <3>2. CASE b \in Bases(k) \cup {ss[k].base}
            <4>1. 0 .. b - 1 \subseteq got0 /\ b \notin Sacked(k)
                BY <2>1, <3>2, Zenon DEF Linked, got0
            <4>2. b \in Nat
                <5>1. ss[k].base \in Nat
                    BY StreamFacts, SenderFields
                <5>2. \A x \in Bases(k) : x \in Nat
                    BY <1>1 DEF Types, Bases, AcksOf
                <5> QED
                    BY <3>2, <5>1, <5>2
            <4>3. b <= B
                BY <2>5, <4>1, <4>2, Zenon
            <4>4. \A s \in got0 : s > B => s # b
                BY <2>5, <4>2, <4>3
            <4> QED
                BY <2>3, <4>1, <4>4
        <3> QED
            BY <2>4, <3>1, <3>2, Zenon
    <2>8. rs'[k].got = got0 /\ rs'[k].written = rs[k].written
        BY DEF got0
    <2>9. /\ got0 \subseteq 0 .. ss[k].next - 1
          /\ rs[k].written = IF Units[k] = 0 THEN 0 ELSE Cardinality(got0)
        BY <2>1, Zenon DEF Linked, got0
    <2>10. Sacked(k)' \subseteq got0
        BY <2>3, <2>6
    <2>11. \A s \in ss[k].base .. ss[k].next - 1 : Resident(k, s)' \/ s \in Sacked(k)'
        BY <2>1, <2>3, Zenon DEF Linked, Resident
    <2>12. Linked(k)'
        BY <2>7, <2>8, <2>9, <2>10, <2>11, Zenon DEF Linked
    <2> QED
        BY <2>2, <2>12
<1>7. Sent' /\ Concluded'
    BY <1>1 DEF Sent, Concluded
<1> QED
    BY <1>4, <1>6, <1>7 DEF MuxInv

(* The receiver's turn: acknowledgements and NACKs, and the end of the
   stream. *)
LEMMA ServiceKeeps ==
    ASSUME MuxInv, NEW k \in Streams, Service(k)
    PROVE  MuxInv'
<1> DEFINE over == \E f \in rs[k].final : RxBase(rs[k].got) > f
           r == [rs[k] EXCEPT !.done = over]
<1>1. /\ rs' = [rs EXCEPT ![k] = r]
      /\ acks' \in {acks, acks \cup {CurrentAck(k)}}
      /\ \E due \in SUBSET Gaps(k) : nacks' = nacks \cup [k : {k}, seq : due]
      /\ ss' = ss /\ data' = data /\ starts' = starts
      /\ sstat' = sstat /\ rstat' = rstat
    BY DEF Service, senderVars
<1>2. rs \in [Streams -> ReceiverState] /\ rs[k] \in ReceiverState
    BY DEF MuxInv, Types
<1>3. /\ r \in ReceiverState /\ r.got = rs[k].got /\ r.written = rs[k].written
      /\ r.start = rs[k].start /\ r.size = rs[k].size
    <2>1. over \in BOOLEAN
        OBVIOUS
    <2> HIDE DEF over
    <2> QED
        BY <1>2, <2>1 DEF ReceiverState
<1> HIDE DEF r
<1>4. rs' \in [Streams -> ReceiverState]
    BY <1>1, <1>2, <1>3
<1>5. \A j \in Streams : /\ rs'[j].got = rs[j].got /\ rs'[j].written = rs[j].written
                         /\ rs'[j].start = rs[j].start /\ rs'[j].size = rs[j].size
    BY <1>1, <1>2, <1>3
<1>6. /\ \A a \in acks' : a \in acks \/ \E j \in Streams : a = CurrentAck(j)
      /\ acks \subseteq acks'
    BY <1>1
<1>7. \A n \in nacks' : n.k \in Streams /\ n.seq \in Nat
    <2>1. PICK due \in SUBSET Gaps(k) : nacks' = nacks \cup [k : {k}, seq : due]
        BY <1>1
    <2>2. due \in SUBSET Nat
        BY Constants DEF Gaps
    <2>3. \A n \in [k : {k}, seq : due] : n.k = k /\ n.seq \in due
        OBVIOUS
    <2>4. \A n \in nacks : n.k \in Streams /\ n.seq \in Nat
        BY DEF MuxInv, Types
    <2> QED
        BY <2>1, <2>2, <2>3, <2>4, Zenon
<1>8. rstat' = "Ok" => \A j \in Streams : rs[j].start /\ rs[j].written = rs[j].size
    BY <1>1, Zenon DEF MuxInv, Concluded
<1> QED
    BY <1>1, <1>4, <1>5, <1>6, <1>7, <1>8, AcksStep

(* The receiver's run() stops, or concludes from what was counted. *)
LEMMA ReceiverRuns ==
    ASSUME MuxInv, ReceiverStops \/ ReceiverReturns
    PROVE  MuxInv'
<1>1. /\ rs' = rs /\ ss' = ss /\ data' = data /\ starts' = starts /\ nacks' = nacks
      /\ sstat' = sstat
    BY DEF ReceiverStops, ReceiverReturns, senderVars
<1>2. /\ \A a \in acks' : a \in acks \/ \E j \in Streams : a = CurrentAck(j)
      /\ acks \subseteq acks'
    BY DEF ReceiverStops, ReceiverReturns
<1>3. rstat' = "Ok" => \A j \in Streams : rs[j].start /\ rs[j].written = rs[j].size
    BY DEF ReceiverStops, ReceiverReturns
<1>4. /\ rs' \in [Streams -> ReceiverState]
      /\ \A n \in nacks' : n.k \in Streams /\ n.seq \in Nat
    BY <1>1 DEF MuxInv, Types
<1>5. \A j \in Streams : /\ rs'[j].got = rs[j].got /\ rs'[j].written = rs[j].written
                         /\ rs'[j].start = rs[j].start /\ rs'[j].size = rs[j].size
    BY <1>1
<1> QED
    BY <1>1, <1>2, <1>3, <1>4, <1>5, AcksStep

-----------------------------------------------------------------------------
(* Nothing has been sent in the first states. *)
LEMMA MuxStarts ==
    ASSUME Init
    PROVE  MuxInv
<1>1. /\ \A k \in Streams : ss[k] = NewSender /\ rs[k] = NewReceiver
      /\ starts = [k : Streams, nonce : {"earlier"}, size : OldSizes] /\ data = {}
      /\ acks = [k : Streams, nonce : {"earlier"}, base : OldSizes, sack : {{}}]
      /\ nacks = [k : Streams, seq : OldNacks] /\ sstat = "setup" /\ rstat = "setup"
    BY Zenon DEF Init, SetupInit
<1>2. /\ NewSender \in SenderState
      /\ NewSender.base = 0 /\ NewSender.next = 0 /\ NewSender.receivedEnd = 0
      /\ NewSender.done = FALSE
      /\ \A i \in Slots : NewSender.reg[i] = None /\ NewSender.queued[i] = None
    <2>1. [i \in Slots |-> None] \in [Slots -> Nat \cup {None}]
        OBVIOUS
    <2>2. <<>> \in Seq(Nat)
        OBVIOUS
    <2> QED
        BY <2>1, <2>2 DEF NewSender, SenderState
<1>3. NewReceiver \in ReceiverState /\ NewReceiver.got = {} /\ NewReceiver.written = 0
    BY DEF NewReceiver, ReceiverState, Nonces
<1>4. ss \in [Streams -> SenderState] /\ rs \in [Streams -> ReceiverState]
    BY <1>2, <1>3 DEF Init
<1>5. /\ \A m \in starts : m.k \in Streams /\ m.nonce \in Nonces /\ m.size \in Nat
      /\ \A d \in data : d.k \in Streams /\ d.seq \in Nat
      /\ \A n \in nacks : n.k \in Streams /\ n.seq \in Nat
    <2>1. \A m \in [k : Streams, nonce : {"earlier"}, size : OldSizes] :
              m.k \in Streams /\ m.nonce = "earlier" /\ m.size \in OldSizes
        OBVIOUS
    <2>2. \A n \in [k : Streams, seq : OldNacks] : n.k \in Streams /\ n.seq \in OldNacks
        OBVIOUS
    <2> QED
        BY <1>1, <2>1, <2>2, MuxAssumption, Zenon DEF Nonces
<1>6. \A a \in acks : /\ a.k \in Streams /\ a.base \in Nat /\ a.sack \in SUBSET Nat
                      /\ a.nonce = "earlier"
    BY <1>1, MuxAssumption, Zenon
<1>7. Types
    BY <1>4, <1>5, <1>6 DEF Types
<1>8. ASSUME NEW k \in Streams
      PROVE  Registered(ss[k], k) /\ Queued(ss[k]) /\ Linked(k)
    <2>1. ss[k] = NewSender /\ rs[k] = NewReceiver
        BY <1>1
    <2>2. Registered(ss[k], k)
        BY <1>2, <2>1, Constants DEF Registered
    <2>3. Queued(ss[k])
        BY <1>2, <2>1 DEF Queued
    <2>4. AcksOf(k) = {}
        BY <1>6 DEF AcksOf
    <2>5. Sacked(k) = {} /\ Bases(k) = {}
        BY <2>4 DEF Sacked, Bases
    <2>6. /\ ss[k].base = 0 /\ ss[k].next = 0 /\ rs[k].got = {} /\ rs[k].written = 0
          /\ Cardinality({}) = 0
        BY <1>2, <1>3, <2>1, FS_EmptySet
    <2>7. 0 .. 0 - 1 = {}
        OBVIOUS
    <2>8. Linked(k)
        BY <2>5, <2>6, <2>7 DEF Linked
    <2> QED
        BY <2>2, <2>3, <2>8
<1>9. Sent /\ Concluded
    BY <1>1, Zenon DEF Sent, Concluded
<1> QED
    BY <1>7, <1>8, <1>9 DEF MuxInv

(* The handshake leaves the streams alone and ends in no Ok. *)
LEMMA HandshakeLeavesStreams ==
    ASSUME MuxInv, UNCHANGED <<ss, rs, starts, data, acks, nacks>>,
           sstat' = "Ok" => sstat = "Ok", rstat' = "Ok" => rstat = "Ok"
    PROVE  MuxInv'
<1>1. Types' /\ Sent' /\ Concluded'
    BY Zenon DEF MuxInv, Types, Sent, Concluded
<1>2. \A j \in Streams : Registered(ss[j], j)' /\ Queued(ss[j])' /\ Linked(j)'
    BY Zenon DEF MuxInv, Registered, Queued, Linked, Resident, Sacked, Bases, AcksOf
<1> QED
    BY <1>1, <1>2 DEF MuxInv

-----------------------------------------------------------------------------
(* Which StreamStart opened a stream. *)

(* Only an earlier transfer's datagrams are in the network at first. *)
LEMMA AnnouncedStarts ==
    ASSUME Init
    PROVE  Announced
<1>1. /\ \A m \in starts : m.nonce = "earlier"
      /\ \A a \in acks : a.nonce = "earlier"
    BY DEF Init
<1>2. \A k \in Streams : /\ rs[k].start = FALSE
                         /\ ss[k].startAcked = FALSE /\ ss[k].next = 0
    BY DEF Init, NewReceiver, NewSender
<1> QED
    BY <1>1, <1>2 DEF Announced, Opened

(* The sender's steps: an ACK of this transfer lets the blocks go. *)
LEMMA SenderAnnounced ==
    ASSUME MuxInv, Announced, rs' = rs, acks' = acks,
           \A m \in starts' : m.nonce = "this" => m \in starts \/ m.size = Units[m.k],
           \A k \in Streams :
               /\ ss'[k].startAcked => ss[k].startAcked \/ \E a \in acks : a.nonce = "this" /\ a.k = k
               /\ ss'[k].next > 0 => ss[k].next > 0 \/ ss[k].startAcked
    PROVE  Announced'
<1>1. \A k \in Streams : Opened(k)' <=> Opened(k)
    BY DEF Opened
<1>2. \A a \in acks : a.k \in Streams
    BY DEF MuxInv, Types
<1> QED
    BY <1>1, <1>2 DEF Announced

(* The receiver's steps: an open stream stays as it was opened, and only open
   streams are acknowledged. *)
LEMMA ReceiverAnnounced ==
    ASSUME MuxInv, Announced, ss' = ss, starts' = starts,
           \A k \in Streams : Opened(k) => Opened(k)',
           \A k \in Streams : Opened(k)' => rs'[k].size = Units[k],
           \A a \in acks' : a \in acks \/ (a.k \in Streams /\ (a.nonce = "this" => Opened(a.k)))
    PROVE  Announced'
<1>1. \A a \in acks : a.k \in Streams
    BY DEF MuxInv, Types
<1> QED
    BY <1>1, Zenon DEF Announced

(* The sender's workers and its reader. *)
LEMMA SenderKeepsAnnounced ==
    ASSUME MuxInv, Announced,
           \/ \E k \in Streams : SendStart(k) \/ ServeBacklog(k) \/ Rto(k) \/ SendBlock(k)
           \/ \E a \in acks : AckArrives(a)
           \/ \E n \in nacks : NackArrives(n)
           \/ SenderStops \/ SenderReturns
    PROVE  Announced'
<1>1. rs' = rs /\ acks' = acks
    BY Zenon DEF SendStart, ServeBacklog, Rto, SendBlock, AckArrives, NackArrives, SenderStops,
       SenderReturns, receiverVars
<1>2. \A m \in starts' : m.nonce = "this" => m \in starts \/ m.size = Units[m.k]
    <2>1. starts' = starts \/ \E k \in Streams : starts' = starts \cup {[k |-> k, nonce |-> "this", size |-> Units[k]]}
        BY Zenon DEF SendStart, ServeBacklog, Rto, SendBlock, AckArrives, NackArrives, SenderStops,
           SenderReturns
    <2> QED
        BY <2>1
<1>3. ss \in [Streams -> SenderState] /\ \A a \in acks : a.k \in Streams
    BY DEF MuxInv, Types
<1>4. ASSUME NEW j \in Streams
      PROVE  /\ ss'[j].startAcked => ss[j].startAcked \/ \E a \in acks : a.nonce = "this" /\ a.k = j
             /\ ss'[j].next > 0 => ss[j].next > 0 \/ ss[j].startAcked
    <2>1. ASSUME NEW k \in Streams, SendStart(k) \/ Rto(k)
          PROVE  ss' = ss
        BY <2>1, Zenon DEF SendStart, Rto
    <2>2. ASSUME NEW k \in Streams, ServeBacklog(k)
          PROVE  ss'[j].startAcked = ss[j].startAcked /\ ss'[j].next = ss[j].next
        BY <1>3, <2>2, Zenon DEF ServeBacklog, SenderState
    <2>3. ASSUME NEW k \in Streams, SendBlock(k)
          PROVE  /\ ss'[j].startAcked = ss[j].startAcked
                 /\ ss'[j].next = ss[j].next \/ ss[j].startAcked
        BY <1>3, <2>3 DEF SendBlock, SenderState
    <2>4. ASSUME NEW a \in acks, AckArrives(a)
          PROVE  /\ ss'[j].startAcked = ss[j].startAcked \/ (a.nonce = "this" /\ a.k = j)
                 /\ ss'[j].next = ss[j].next
        BY <1>3, <2>4, Zenon DEF AckArrives, Acked, SenderState
    <2>5. ASSUME NEW n \in nacks, NackArrives(n)
          PROVE  ss'[j].startAcked = ss[j].startAcked /\ ss'[j].next = ss[j].next
        BY <1>3, <2>5, Zenon DEF NackArrives, SenderState
    <2>6. ASSUME SenderStops \/ SenderReturns
          PROVE  ss' = ss
        BY <2>6 DEF SenderStops, SenderReturns
    <2> QED
        BY <2>1, <2>2, <2>3, <2>4, <2>5, <2>6
<1> QED
    BY <1>1, <1>2, <1>4, SenderAnnounced, Zenon

(* The receiver's reader and workers. *)
LEMMA ReceiverKeepsAnnounced ==
    ASSUME MuxInv, Announced,
           \/ \E m \in starts : StartArrives(m)
           \/ \E d \in data : DataArrives(d)
           \/ \E k \in Streams : Service(k)
           \/ ReceiverStops \/ ReceiverReturns
    PROVE  Announced'
<1>1. ss' = ss /\ starts' = starts
    BY Zenon DEF StartArrives, DataArrives, Service, ReceiverStops, ReceiverReturns, senderVars
<1>2. rs \in [Streams -> ReceiverState]
    BY DEF MuxInv, Types
<1>3. ASSUME NEW j \in Streams
      PROVE  /\ Opened(j) => Opened(j)'
             /\ Opened(j)' => rs'[j].size = Units[j]
    <2>1. Opened(j) => rs[j].size = Units[j]
        BY DEF Announced
    <2>2. ASSUME NEW m \in starts, StartArrives(m)
          PROVE  \/ /\ rs'[j].start = rs[j].start /\ rs'[j].nonce = rs[j].nonce
                    /\ rs'[j].size = rs[j].size
                 \/ /\ ~ rs[j].start /\ rs'[j].nonce = m.nonce /\ rs'[j].size = m.size
                    /\ m.nonce = "this" => m.size = Units[j]
        <3>1. m.nonce = "this" => m.size = Units[m.k]
            BY DEF Announced
        <3>2. CASE m.k # j
            BY <1>2, <2>2, <3>2, Zenon DEF StartArrives
        <3>3. CASE m.k = j
            <4>1. rs[j] \in ReceiverState
                BY <1>2
            <4>2. \/ rs'[j] = [rs[j] EXCEPT !.start = TRUE, !.nonce = m.nonce, !.size = m.size]
                  \/ rs'[j] = [rs[j] EXCEPT !.limit = TRUE, !.done = TRUE]
                BY <1>2, <2>2, <3>3, Zenon DEF StartArrives
            <4>3. ~ rs[j].start
                BY <2>2, <3>3, Zenon DEF StartArrives
            <4> QED
                BY <3>1, <3>3, <4>1, <4>2, <4>3, Zenon DEF ReceiverState
        <3> QED
            BY <3>2, <3>3
    <2>3. ASSUME NEW d \in data, DataArrives(d)
          PROVE  rs'[j].start = rs[j].start /\ rs'[j].nonce = rs[j].nonce /\ rs'[j].size = rs[j].size
        BY <1>2, <2>3, Zenon DEF DataArrives, ReceiverState
    <2>4. ASSUME NEW k \in Streams, Service(k)
          PROVE  rs'[j].start = rs[j].start /\ rs'[j].nonce = rs[j].nonce /\ rs'[j].size = rs[j].size
        BY <1>2, <2>4 DEF Service, ReceiverState
    <2>5. ASSUME ReceiverStops \/ ReceiverReturns
          PROVE  rs' = rs
        BY <2>5 DEF ReceiverStops, ReceiverReturns
    <2> QED
        BY <2>1, <2>2, <2>3, <2>4, <2>5, Zenon DEF Opened
<1>4. \A a \in acks' : a \in acks \/ (a.k \in Streams /\ (a.nonce = "this" => Opened(a.k)))
    <2>1. \A a \in acks' : a \in acks \/ \E k \in Streams : rs[k].start /\ a = CurrentAck(k)
        BY Zenon DEF StartArrives, DataArrives, Service, ReceiverStops, ReceiverReturns
    <2>2. \A k \in Streams : CurrentAck(k).k = k /\ CurrentAck(k).nonce = rs[k].nonce
        BY DEF CurrentAck
    <2>3. ASSUME NEW k \in Streams, rs[k].start, NEW a, a = CurrentAck(k)
          PROVE  a.k \in Streams /\ (a.nonce = "this" => Opened(a.k))
        BY <2>2, <2>3 DEF Opened
    <2> QED
        BY <2>1, <2>3, Zenon
<1> QED
    BY <1>1, <1>3, <1>4, ReceiverAnnounced, Zenon

(* The invariant of the multiplexed transfer. *)
LEMMA MuxInvHolds == Spec => [](MuxInv /\ Announced)
<1>1. Init => MuxInv /\ Announced
    BY MuxStarts, AnnouncedStarts
<1>2. MuxInv /\ Announced /\ [Next]_vars => (MuxInv /\ Announced)'
    <2> SUFFICES ASSUME MuxInv, Announced, [Next]_vars
                 PROVE  MuxInv' /\ Announced'
        OBVIOUS
    <2>1. ASSUME UNCHANGED <<ss, rs, starts, acks>>
          PROVE  Announced'
        BY <2>1, Zenon DEF Announced, Opened
    <2>2. CASE SetupNext /\ UNCHANGED <<ss, rs, starts, data, acks, nacks>>
        <3>1. (sstat' = "Ok" => sstat = "Ok") /\ (rstat' = "Ok" => rstat = "Ok")
            BY <2>2, Zenon DEF SetupNext, InitiatorReplies, ResponderReplies, ResponderCompletes,
                        InitiatorTimesOut, ToldMismatch, ResponderTimesOut, TellMismatch, SetupDeadline
        <3> QED
            BY <2>1, <2>2, <3>1, HandshakeLeavesStreams
    <2>3. CASE StreamNext
        <3>1. MuxInv'
            BY <2>3, SenderRuns, ServeBacklogKeeps, RtoKeeps, SendBlockKeeps, ServiceKeeps,
               AckArrivesKeeps, NackArrivesKeeps, StartArrivesKeeps, DataArrivesKeeps, ReceiverRuns
               DEF StreamNext
        <3>2. Announced'
            BY <2>3, SenderKeepsAnnounced, ReceiverKeepsAnnounced, Zenon DEF StreamNext
        <3> QED
            BY <3>1, <3>2
    <2>4. CASE UNCHANGED vars
        BY <2>1, <2>4, HandshakeLeavesStreams DEF vars, setupVars
    <2> QED
        BY <2>2, <2>3, <2>4 DEF Next
<1> QED
    BY <1>1, <1>2, PTL DEF Spec

(* OkIsComplete: Ok of the sender's run() means that every stream arrived
   whole, and Ok of the receiver's that every stream did, except those opened
   by an earlier transfer's StreamStart of no bytes. *)
THEOREM OkMeansComplete == Spec => []OkIsComplete
<1>1. MuxInv /\ Announced => OkIsComplete
    <2> SUFFICES ASSUME MuxInv, Announced, NEW k \in Streams
                 PROVE  /\ sstat = "Ok" => Whole(k)
                        /\ rstat = "Ok" => Whole(k) \/ (rs[k].nonce = "earlier" /\ rs[k].size = 0)
        BY Zenon DEF OkIsComplete
    <2>1. ASSUME sstat = "Ok"
          PROVE  Whole(k)
        <3>1. ss[k].base = BlockCount(k) /\ 0 .. ss[k].base - 1 \subseteq rs[k].got
            BY <2>1, StreamFacts, Zenon DEF MuxInv, Concluded, Registered
        <3>2. 0 .. Units[k] - 1 \subseteq 0 .. BlockCount(k) - 1
            BY Constants
        <3> QED
            BY <3>1, <3>2 DEF Whole
    <2>2. ASSUME rstat = "Ok"
          PROVE  Whole(k) \/ (rs[k].nonce = "earlier" /\ rs[k].size = 0)
        <3>1. rs[k].start /\ rs[k].written = rs[k].size
            BY <2>2, Zenon DEF MuxInv, Concluded
        <3>2. CASE rs[k].nonce = "this"
            <4>1. rs[k].written = Units[k]
                BY <3>1, <3>2 DEF Announced, Opened
            <4> QED
                BY <4>1, CountedIsWhole DEF Whole
        <3>3. CASE rs[k].nonce # "this"
            <4>1. rs[k].nonce = "earlier"
                BY <3>3, StreamFacts, ReceiverFields, Zenon DEF Nonces
            <4>2. ss[k].next = 0
                <5>1. ~ (ss[k].next > 0)
                    BY <3>3 DEF Announced, Opened
                <5> QED
                    BY <5>1, StreamFacts, SenderFields
            <4>3. rs[k].got = {}
                BY <4>2, StreamFacts DEF Linked
            <4>4. rs[k].written = 0
                BY <4>3, StreamFacts, FS_EmptySet, Zenon DEF Linked
            <4> QED
                BY <3>1, <4>1, <4>4
        <3> QED
            BY <3>2, <3>3
    <2> QED
        BY <2>1, <2>2
<1> QED
    BY <1>1, MuxInvHolds, PTL

(* MarkedIsQueued: a block marked as waiting for its resend is in the
   backlog. *)
THEOREM MarkedStaysQueued == Spec => []MarkedIsQueued
<1>1. MuxInv => MarkedIsQueued
    BY DEF MuxInv, Queued, MarkedIsQueued
<1> QED
    BY <1>1, MuxInvHolds, PTL

(* BaseResident: the oldest unacknowledged block of a stream is in the
   registry, whatever selective ACKs came in whatever order. *)
THEOREM BaseStaysResident == Spec => []BaseResident
<1>1. MuxInv => BaseResident
    <2> SUFFICES ASSUME MuxInv, NEW k \in Streams, ss[k].base < ss[k].next
                 PROVE  ss[k].reg[ss[k].base % Window] = ss[k].base
        BY DEF BaseResident, Resident
    <2>1. ss[k].base \in Nat /\ ss[k].next \in Nat
        BY StreamFacts, SenderFields
    <2>2. ss[k].base \in ss[k].base .. ss[k].next - 1
        BY <2>1
    <2> QED
        BY <2>2, StreamFacts
<1> QED
    BY <1>1, MuxInvHolds, PTL
=============================================================================

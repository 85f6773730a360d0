----------------------------- MODULE SdkProofs ------------------------------
(***************************************************************************)
(* Proofs about Sdk, for any callers, messages, window and inbox, and any  *)
(* interleaving of calls, pumps and closes.                                *)
(*                                                                         *)
(* The argument: as long as no fuse_send gives up, a message gets its turn *)
(* only when every block of the one before it was acknowledged, so the     *)
(* blocks that can be new to the receiver are those of one message, the    *)
(* latest, and its assembly holds exactly the ones it has of them.         *)
(***************************************************************************)
EXTENDS Sdk, RingLemmas, FiniteSetTheorems

(* The latest message, and the sequence number of its last block when first is
   that of its first one. *)
Latest == order[Len(order)]
LastSeq(first) == first + BlockCount(Latest) - 1

(* The receiver has the latest message. *)
Through(first) == order = <<>> \/ first .. LastSeq(first) \subseteq got

(* The latest message begins after what the receiver has. *)
Began(first) ==
    /\ 0 .. first - 1 \subseteq got /\ first <= txNext
    /\ IF order = <<>> THEN txNext = 0 ELSE txNext <= LastSeq(first) + 1

(* A copy of a block that can be new is the block of the latest message with
   that number. *)
Piece(first, s) ==
    [seq |-> s, msg |-> Latest, off |-> s - first,
     len |-> IF s - first < MsgLen[Latest] THEN 1 ELSE 0,
     last |-> s - first + 1 = BlockCount(Latest)]

Known(first, b) == b.seq < txNext /\ (first <= b.seq => b = Piece(first, b.seq))

Sent(first) ==
    /\ \A b \in data : Known(first, b)
    /\ \A i \in 0 .. Window - 1 : reg[i] = Empty \/ Known(first, reg[i])

(* One call at a time has the turn; when none has and another could take it,
   the receiver has everything. *)
Holds(t) == call[t].pc \in {"sending", "confirming"}

Turns(first) ==
    /\ \A t \in Callers :
          /\ call[t].pc # "idle" => call[t].msg \in Messages
          /\ call[t].pc = "entering" => call[t].next = 0
          /\ Holds(t) => /\ sendBusy /\ order # <<>> /\ call[t].msg = Latest
                         /\ call[t].last = LastSeq(first) /\ call[t].next = txNext - first
          /\ call[t].pc = "sending" => txNext <= LastSeq(first)
    /\ \A t, u \in Callers : Holds(t) /\ Holds(u) => t = u
    /\ ~ sendBusy /\ ~ peerClosed["S"] /\ Open("S") => Through(first)

(* What an ACK says, and what the sender believes, has arrived. *)
Acked == \A a \in acks \cup {txBase} : 0 .. a - 1 \subseteq got

(* The assembly holds what the receiver has of the latest message. *)
Collected(first) ==
    /\ asm.end = got \cap {LastSeq(first)}
    /\ asm.end # {} => asm.total = MsgLen[Latest]
    /\ \A s \in got : first <= s /\ s - first < MsgLen[Latest] =>
          s - first < Len(asm.buf) /\ asm.buf[s - first + 1] = <<Latest, s - first>>

Assembly(first) ==
    IF Through(first)
    THEN asm = Nothing /\ Len(Arrived) = Len(order)
    ELSE Collected(first) /\ Len(Arrived) = Len(order) - 1

InOrder ==
    \A i \in 1 .. Len(Arrived) : i <= Len(order) /\ Arrived[i] = Whole(order[i])

Orderly(first) ==
    /\ TypeOK /\ Began(first) /\ Sent(first) /\ Turns(first) /\ Acked
    /\ Assembly(first) /\ InOrder /\ OkHasArrived

(* The inductive invariant. *)
SdkInv == ~ gaveUp => \E first \in 0 .. txNext : Orderly(first)

Calls == [pc : {"idle", "entering", "sending", "confirming"},
          msg : Messages \cup {0}, next : Nat, last : Int]

-----------------------------------------------------------------------------
(* Sequences, and the receive window's base. *)

(* A sequence is what it has at each position. *)
LEMMA SameSequence ==
    ASSUME NEW S, NEW a \in Seq(S), NEW b \in Seq(S), Len(a) = Len(b),
           \A i \in 1 .. Len(a) : a[i] = b[i]
    PROVE  a = b
    OBVIOUS

(* Taking the first of a queue to the end of what was taken before moves
   nothing. *)
LEMMA MoveHead ==
    ASSUME NEW S, NEW r \in Seq(S), NEW q \in Seq(S), q # <<>>
    PROVE  /\ Append(r, Head(q)) \in Seq(S) /\ Tail(q) \in Seq(S)
           /\ Append(r, Head(q)) \o Tail(q) = r \o q
<1>1. /\ Head(q) \in S /\ Head(q) = q[1] /\ Tail(q) \in Seq(S) /\ Len(q) >= 1
      /\ Len(Tail(q)) = Len(q) - 1
      /\ \A i \in 1 .. Len(q) - 1 : Tail(q)[i] = q[i + 1]
    OBVIOUS
<1> DEFINE a == Append(r, Head(q)) \o Tail(q)
           b == r \o q
<1>2. /\ Append(r, Head(q)) \in Seq(S) /\ Len(Append(r, Head(q))) = Len(r) + 1
      /\ \A i \in 1 .. Len(r) + 1 :
            Append(r, Head(q))[i] = IF i <= Len(r) THEN r[i] ELSE q[1]
    BY <1>1
<1>3. a \in Seq(S) /\ b \in Seq(S) /\ Len(a) = Len(r) + Len(q) /\ Len(b) = Len(r) + Len(q)
    BY <1>1, <1>2
<1>4. ASSUME NEW i \in 1 .. Len(r) + Len(q)
      PROVE  a[i] = b[i]
    BY <1>1, <1>2
<1> HIDE DEF a, b
<1>5. a = b
    BY <1>3, <1>4, SameSequence
<1> QED
    BY <1>1, <1>2, <1>5 DEF a, b

(* What comes to the end of a queue is the last of all. *)
LEMMA PutBehind ==
    ASSUME NEW S, NEW r \in Seq(S), NEW q \in Seq(S), NEW x \in S
    PROVE  /\ Append(q, x) \in Seq(S)
           /\ r \o Append(q, x) = Append(r \o q, x)
<1> DEFINE a == r \o Append(q, x)
           b == Append(r \o q, x)
<1>1. /\ Append(q, x) \in Seq(S) /\ Len(Append(q, x)) = Len(q) + 1
      /\ \A i \in 1 .. Len(q) + 1 : Append(q, x)[i] = IF i <= Len(q) THEN q[i] ELSE x
    OBVIOUS
<1>2. a \in Seq(S) /\ b \in Seq(S) /\ Len(a) = Len(r) + Len(q) + 1 /\ Len(b) = Len(r) + Len(q) + 1
    BY <1>1
<1>3. ASSUME NEW i \in 1 .. Len(r) + Len(q) + 1
      PROVE  a[i] = b[i]
    BY <1>1
<1> HIDE DEF a, b
<1> QED
    BY <1>1, <1>2, <1>3, SameSequence DEF a, b

(* Replacing what is at one position. *)
LEMMA PutAt ==
    ASSUME NEW S, NEW q \in Seq(S), NEW k \in 1 .. Len(q), NEW x \in S
    PROVE  /\ [q EXCEPT ![k] = x] \in Seq(S) /\ Len([q EXCEPT ![k] = x]) = Len(q)
           /\ \A i \in 1 .. Len(q) : [q EXCEPT ![k] = x][i] = IF i = k THEN x ELSE q[i]
    OBVIOUS

(* RxBase is the first block the receiver does not have. *)
LEMMA RxBaseFacts ==
    ASSUME NEW n \in Nat, NEW S \in SUBSET (0 .. n - 1)
    PROVE  /\ RxBase(S) \in Nat /\ RxBase(S) \notin S /\ 0 .. RxBase(S) - 1 \subseteq S
           /\ \A b \in Nat : 0 .. b - 1 \subseteq S => b <= RxBase(S)
<1> DEFINE T == Nat \ S
<1>1. n \in T
    OBVIOUS
<1>2. PICK x \in T : \A y \in T : x <= y
    BY <1>1, LeastNat, Zenon
<1>3. x \in Nat /\ x \notin S /\ 0 .. x - 1 \subseteq S
    BY <1>2
<1>4. IsFiniteSet(S) /\ Cardinality(S) \in Nat
    <2>1. 0 \in Int /\ n - 1 \in Int
        OBVIOUS
    <2>2. IsFiniteSet(0 .. n - 1)
        BY <2>1, FS_Interval
    <2>3. IsFiniteSet(S)
        BY <2>2, FS_Subset, Zenon
    <2> QED
        BY <2>3, FS_CardinalityType
<1>5. Cardinality(0 .. x - 1) = x
    <2>1. 0 \in Int /\ x - 1 \in Int
        BY <1>3
    <2>2. Cardinality(0 .. x - 1) = IF 0 > x - 1 THEN 0 ELSE x - 1 - 0 + 1
        BY <2>1, FS_Interval
    <2> QED
        BY <1>3, <2>2
<1>6. x <= Cardinality(S)
    BY <1>3, <1>4, <1>5, FS_Subset
<1>7. x \in 0 .. Cardinality(S)
    BY <1>3, <1>4, <1>6
<1>8. \E m \in 0 .. Cardinality(S) : m \notin S /\ 0 .. m - 1 \subseteq S
    BY <1>3, <1>7
<1>9. /\ RxBase(S) \in 0 .. Cardinality(S)
      /\ RxBase(S) \notin S /\ 0 .. RxBase(S) - 1 \subseteq S
    BY <1>8 DEF RxBase
<1>10. RxBase(S) \in Nat
    BY <1>4, <1>9
<1>11. ASSUME NEW b \in Nat, 0 .. b - 1 \subseteq S
       PROVE  b <= RxBase(S)
    BY <1>9, <1>10, <1>11
<1> QED
    BY <1>9, <1>10, <1>11

(* Intervals of sequence numbers: a shorter one, one inside another, and two
   that meet. *)
LEMMA Shorter ==
    ASSUME NEW x \in Int, NEW y \in Int, NEW S, x <= y, 0 .. y - 1 \subseteq S
    PROVE  0 .. x - 1 \subseteq S
    OBVIOUS

LEMMA Inside ==
    ASSUME NEW f \in Nat, NEW l \in Int, NEW r \in Int, NEW S, l < r, 0 .. r - 1 \subseteq S
    PROVE  f .. l \subseteq S
    OBVIOUS

LEMMA Joined ==
    ASSUME NEW f \in Nat, NEW l \in Int, NEW S, 0 .. f - 1 \subseteq S, f .. l \subseteq S
    PROVE  0 .. (l + 1) - 1 \subseteq S
    OBVIOUS

(* The length of a message in blocks. *)
LEMMA Lengths ==
    ASSUME NEW m \in Messages
    PROVE  /\ MsgLen[m] \in Nat /\ BlockCount(m) \in Nat \ {0} /\ MsgLen[m] <= BlockCount(m)
           /\ MsgLen[m] # 0 => BlockCount(m) = MsgLen[m]
    BY SdkAssumption DEF BlockCount

(* The latest message is one. *)
LEMMA LatestIs ==
    ASSUME TypeOK, order # <<>>
    PROVE  Len(order) \in Nat \ {0} /\ Latest \in Messages
    BY DEF TypeOK, Latest

-----------------------------------------------------------------------------
(* The steps. *)

(* In the beginning nothing is sent. *)
LEMMA OrderlyInitially == Init => SdkInv
<1> SUFFICES ASSUME Init PROVE 0 \in 0 .. txNext /\ Orderly(0)
    BY DEF SdkInv
<1>1. txNext = 0 /\ txBase = 0 /\ order = <<>> /\ got = {} /\ asm = Nothing
    BY DEF Init
<1>2. received = <<>> /\ inbox = <<>> /\ Arrived = <<>> /\ Len(Arrived) = 0
    BY DEF Init, Arrived
<1>3. TypeOK
    <2>1. reg \in [0 .. Window - 1 -> Block \cup {Empty}]
        BY DEF Init
    <2>2. call \in [Callers -> Calls]
        BY DEF Init, Idle, Calls
    <2>3. asm \in [buf : Seq(Cell), end : SUBSET Nat, total : Nat]
        BY <1>1 DEF Nothing
    <2>4. /\ inbox \in Seq(Seq(Cell)) /\ received \in Seq(Seq(Cell)) /\ order \in Seq(Messages)
        BY <1>1, <1>2
    <2>5. /\ txBase \in 0 .. txNext /\ txNext \in Nat /\ got \subseteq 0 .. txNext - 1
        BY <1>1
    <2>6. /\ sendBusy \in BOOLEAN /\ gaveUp \in BOOLEAN /\ toldClosed \in BOOLEAN
          /\ data \subseteq Block /\ acks \subseteq Nat /\ nacks \subseteq Nat /\ byes \subseteq Ends
          /\ reader \in {"idle", "waiting"} /\ ok \subseteq Messages
          /\ peerClosed \in [Ends -> BOOLEAN]
          /\ link \in [Ends -> {"open", "closing", "stopped", "freed"}]
        BY Zenon DEF Init
    <2> QED
        BY <2>1, <2>2, <2>3, <2>4, <2>5, <2>6, Zenon DEF TypeOK, Calls
<1>4. Began(0) /\ Through(0) /\ Acked
    BY <1>1 DEF Began, Through, Acked, Init
<1>5. Sent(0) /\ Turns(0)
    BY <1>4 DEF Sent, Turns, Init, Idle, Holds
<1>6. Assembly(0) /\ InOrder /\ OkHasArrived
    BY <1>1, <1>2, <1>4 DEF Assembly, InOrder, OkHasArrived, Init
<1> QED
    BY <1>1, <1>3, <1>4, <1>5, <1>6 DEF Orderly

(* The network, the readers and the closes: copies of blocks go or come again
   from the registry, ACKs go, and closing is never undone. *)
LEMMA QuietStep ==
    ASSUME NEW first \in Nat, Orderly(first),
           UNCHANGED <<txVars, callVars, rxVars, received>>,
           \A b \in data' : b \in data \/ \E i \in 0 .. Window - 1 : b = reg[i] /\ b # Empty,
           acks' \subseteq acks, nacks' \subseteq Nat, byes' \subseteq Ends,
           reader' \in {"idle", "waiting"}, toldClosed' \in BOOLEAN,
           peerClosed' \in [Ends -> BOOLEAN],
           link' \in [Ends -> {"open", "closing", "stopped", "freed"}],
           ~ peerClosed'["S"] /\ link'["S"] = "open" => ~ peerClosed["S"] /\ link["S"] = "open"
    PROVE  Orderly(first)'
<1>1. /\ reg' = reg /\ txBase' = txBase /\ txNext' = txNext /\ sendBusy' = sendBusy
      /\ call' = call /\ order' = order /\ ok' = ok /\ gaveUp' = gaveUp
      /\ got' = got /\ asm' = asm /\ inbox' = inbox /\ received' = received
    BY DEF txVars, callVars, rxVars
<1>2. TypeOK'
    <2>1. data' \subseteq Block
        <3>1. data \subseteq Block /\ \A i \in 0 .. Window - 1 : reg[i] \in Block \cup {Empty}
            BY DEF Orderly, TypeOK
        <3> QED
            BY <3>1, Zenon
    <2>2. TypeOK
        BY DEF Orderly
    <2>3. acks' \subseteq Nat
        BY <2>2 DEF TypeOK
    <2> QED
        BY <1>1, <2>1, <2>2, <2>3, Zenon DEF TypeOK
<1>3. /\ Latest' = Latest /\ LastSeq(first)' = LastSeq(first) /\ Arrived' = Arrived
      /\ Through(first)' = Through(first)
    BY <1>1 DEF Latest, LastSeq, Arrived, Through
<1>4. Began(first)' /\ Acked'
    BY <1>1, <1>3 DEF Orderly, Began, Acked
<1>5. Sent(first)'
    <2>1. \A b : Known(first, b)' <=> Known(first, b)
        BY <1>1, <1>3 DEF Known, Piece
    <2> QED
        BY <1>1, <2>1 DEF Orderly, Sent
<1>6. Turns(first)'
    BY <1>1, <1>3 DEF Orderly, Turns, Holds, Open
<1>7. Assembly(first)' /\ InOrder' /\ OkHasArrived'
    BY <1>1, <1>3 DEF Orderly, Assembly, Collected, InOrder, OkHasArrived
<1> QED
    BY <1>2, <1>4, <1>5, <1>6, <1>7 DEF Orderly

(* A step of fuse_send's caller that sends nothing and gives up nothing. *)
LEMMA CallerStep ==
    ASSUME NEW first \in Nat, Orderly(first),
           UNCHANGED <<txVars, order, netVars, rxVars, readVars, closeVars>>,
           call' \in [Callers -> Calls],
           sendBusy' \in BOOLEAN,
           \A t \in Callers : \/ call'[t] = call[t]
                              \/ call'[t].pc = "idle"
                              \/ /\ call'[t].pc = "entering" /\ call'[t].msg \in Messages
                                 /\ call'[t].next = 0,
           \A t \in Callers : Holds(t)' => sendBusy',
           ~ sendBusy' /\ ~ peerClosed["S"] /\ Open("S") => Through(first),
           ok' \subseteq Messages, OkHasArrived', gaveUp' = gaveUp
    PROVE  Orderly(first)'
<1>1. /\ reg' = reg /\ txBase' = txBase /\ txNext' = txNext /\ order' = order
      /\ data' = data /\ acks' = acks /\ nacks' = nacks
      /\ got' = got /\ asm' = asm /\ inbox' = inbox /\ received' = received
      /\ reader' = reader /\ toldClosed' = toldClosed
      /\ byes' = byes /\ peerClosed' = peerClosed /\ link' = link
    BY DEF txVars, netVars, rxVars, readVars, closeVars
<1>2. TypeOK'
    BY <1>1 DEF Orderly, TypeOK, Calls
<1>3. /\ Latest' = Latest /\ LastSeq(first)' = LastSeq(first) /\ Arrived' = Arrived
      /\ Through(first)' = Through(first)
    BY <1>1 DEF Latest, LastSeq, Arrived, Through
<1>4. Began(first)' /\ Acked'
    BY <1>1, <1>3 DEF Orderly, Began, Acked
<1>5. Sent(first)'
    BY <1>1, <1>3 DEF Orderly, Sent, Known, Piece
<1>6. Turns(first)'
    <2>1. \A t \in Callers : Holds(t)' => Holds(t) /\ call'[t] = call[t]
        BY DEF Holds
    <2>2. ASSUME NEW t \in Callers
          PROVE  /\ call'[t].pc # "idle" => call'[t].msg \in Messages
                 /\ call'[t].pc = "entering" => call'[t].next = 0
                 /\ call'[t].pc = "sending" => txNext <= LastSeq(first)
        BY DEF Orderly, Turns
    <2>3. \A t \in Callers : Holds(t)' =>
              /\ sendBusy' /\ order # <<>> /\ call'[t].msg = Latest
              /\ call'[t].last = LastSeq(first) /\ call'[t].next = txNext - first
        BY <2>1 DEF Orderly, Turns
    <2>4. \A t, u \in Callers : Holds(t)' /\ Holds(u)' => t = u
        BY <2>1 DEF Orderly, Turns
    <2> QED
        BY <1>1, <1>3, <2>2, <2>3, <2>4 DEF Turns, Holds, Open
<1>7. Assembly(first)' /\ InOrder'
    BY <1>1, <1>3 DEF Orderly, Assembly, Collected, InOrder
<1> QED
    BY <1>2, <1>4, <1>5, <1>6, <1>7 DEF Orderly

(* The state of a call. *)
LEMMA CallTypes ==
    ASSUME NEW first, Orderly(first)
    PROVE  call \in [Callers -> Calls]
    BY DEF Orderly, TypeOK, Calls

(* A call that goes on is still one. *)
LEMMA CallMoves ==
    ASSUME NEW c \in Calls
    PROVE  /\ \A last \in Int : [c EXCEPT !.pc = "sending", !.last = last] \in Calls
           /\ \A next \in Nat, pc \in {"sending", "confirming"} :
                 [c EXCEPT !.next = next, !.pc = pc] \in Calls
    BY Zenon DEF Calls

(* A thread enters fuse_send. *)
LEMMA SendStartsKeeps ==
    ASSUME NEW first \in Nat, Orderly(first), NEW t \in Callers, SendStarts(t)
    PROVE  Orderly(first)'
<1>1. PICK m \in Messages :
            call' = [call EXCEPT ![t] = [pc |-> "entering", msg |-> m, next |-> 0, last |-> 0]]
    BY Zenon DEF SendStarts
<1> DEFINE entering == [pc |-> "entering", msg |-> m, next |-> 0, last |-> 0]
<1>2. call' = [call EXCEPT ![t] = entering] /\ entering \in Calls
    BY <1>1 DEF Calls
<1>3. entering.pc = "entering" /\ entering.msg \in Messages /\ entering.next = 0
    OBVIOUS
<1> HIDE DEF entering
<1>4. /\ call' \in [Callers -> Calls] /\ call'[t] = entering
      /\ \A u \in Callers \ {t} : call'[u] = call[u]
    BY <1>2, CallTypes, Zenon
<1>5. /\ UNCHANGED <<txVars, order, netVars, rxVars, readVars, closeVars>>
      /\ sendBusy' = sendBusy /\ ok' = ok /\ gaveUp' = gaveUp
    BY DEF SendStarts
<1>6. OkHasArrived' /\ ok' \subseteq Messages /\ sendBusy' \in BOOLEAN
    BY <1>5 DEF Orderly, TypeOK, OkHasArrived, Arrived, rxVars, readVars
<1>7. \A u \in Callers : Holds(u)' => sendBusy'
    BY <1>3, <1>4, <1>5 DEF Orderly, Turns, Holds
<1>8. ~ sendBusy' /\ ~ peerClosed["S"] /\ Open("S") => Through(first)
    BY <1>5 DEF Orderly, Turns
<1> QED
    BY <1>3, <1>4, <1>5, <1>6, <1>7, <1>8, CallerStep

(* A call returns, and gives its turn back. *)
LEMMA LeavesKeeps ==
    ASSUME NEW first \in Nat, Orderly(first), NEW t \in Callers, call[t].pc # "idle",
           Leaves(t), ok' \subseteq Messages, OkHasArrived', gaveUp' = gaveUp,
           Holds(t) /\ ~ peerClosed["S"] /\ Open("S") => Through(first)
    PROVE  Orderly(first)'
<1>1. /\ call' = [call EXCEPT ![t] = Idle]
      /\ sendBusy' = IF call[t].pc = "entering" THEN sendBusy ELSE FALSE
      /\ UNCHANGED <<txVars, order, netVars, rxVars, readVars, closeVars>>
    BY DEF Leaves
<1>2. Idle \in Calls /\ Idle.pc = "idle"
    BY DEF Idle, Calls
<1>3. /\ call' \in [Callers -> Calls] /\ call'[t] = Idle
      /\ \A u \in Callers \ {t} : call'[u] = call[u]
    BY <1>1, <1>2, CallTypes, Zenon
<1>4. call[t] \in Calls
    BY CallTypes
<1>5. call[t].pc = "entering" \/ Holds(t)
    BY <1>4 DEF Holds, Calls
<1>6. sendBusy' \in BOOLEAN
    BY <1>1, Zenon DEF Orderly, TypeOK
<1>7. \A u \in Callers : Holds(u)' => sendBusy'
    BY <1>1, <1>2, <1>3, <1>5 DEF Orderly, Turns, Holds
<1>8. ~ sendBusy' /\ ~ peerClosed["S"] /\ Open("S") => Through(first)
    BY <1>1, <1>5 DEF Orderly, Turns, Holds
<1> QED
    BY <1>1, <1>2, <1>3, <1>4, <1>6, <1>7, <1>8, CallerStep, Zenon

(* The latest message has arrived when all of it is acknowledged. *)
LEMMA ConfirmedIsThrough ==
    ASSUME NEW first \in Nat, Orderly(first), NEW t \in Callers,
           call[t].pc = "confirming", txBase > call[t].last
    PROVE  Through(first) /\ Whole(call[t].msg) \in Range(Arrived) /\ call[t].msg \in Messages
<1>1. /\ order # <<>> /\ call[t].msg = Latest /\ call[t].last = LastSeq(first)
      /\ call[t].msg \in Messages
    BY DEF Orderly, Turns, Holds
<1>2. 0 .. txBase - 1 \subseteq got /\ txBase \in Nat /\ LastSeq(first) \in Int
    BY <1>1, Lengths DEF Orderly, Acked, TypeOK, LastSeq
<1>3. Through(first)
    BY <1>1, <1>2 DEF Through
<1>4. Len(order) \in Nat \ {0} /\ Len(Arrived) = Len(order)
    BY <1>1, <1>3, LatestIs DEF Orderly, Assembly
<1>5. Arrived \in Seq(Seq(Cell))
    BY DEF Orderly, TypeOK, Arrived
<1>6. Len(order) \in DOMAIN Arrived /\ Arrived[Len(order)] = Whole(Latest)
    BY <1>4, <1>5 DEF Orderly, InOrder, Latest
<1> QED
    BY <1>1, <1>3, <1>6 DEF Range

(* The ways out of fuse_send, but for giving up in the middle of a message. *)
LEMMA SendEndsKeeps ==
    ASSUME NEW first \in Nat, Orderly(first), NEW t \in Callers,
           SendOk(t) \/ SendClosed(t) \/ SendTimesOut(t), ~ gaveUp'
    PROVE  Orderly(first)'
<1>1. CASE SendOk(t)
    <2>1. /\ call[t].pc = "confirming" /\ txBase > call[t].last
          /\ ok' = ok \cup {call[t].msg} /\ Leaves(t) /\ gaveUp' = gaveUp
        BY <1>1 DEF SendOk
    <2>2. Arrived' = Arrived
        BY <2>1 DEF Leaves, rxVars, readVars, Arrived
    <2>3. OkHasArrived' /\ ok' \subseteq Messages
        BY <2>1, <2>2, ConfirmedIsThrough, Zenon DEF Orderly, TypeOK, OkHasArrived
    <2> QED
        BY <2>1, <2>3, ConfirmedIsThrough, LeavesKeeps
<1>2. CASE SendClosed(t)
    <2>1. /\ call[t].pc # "idle" /\ Leaves(t) /\ ok' = ok /\ gaveUp' = gaveUp
          /\ peerClosed["S"] \/ ~ Open("S")
        BY <1>2 DEF SendClosed
    <2>2. Arrived' = Arrived
        BY <2>1 DEF Leaves, rxVars, readVars, Arrived
    <2>3. OkHasArrived' /\ ok' \subseteq Messages
        BY <2>1, <2>2 DEF Orderly, TypeOK, OkHasArrived
    <2> QED
        BY <2>1, <2>3, LeavesKeeps
<1>3. CASE SendTimesOut(t)
    <2>1. call[t].pc = "entering" /\ Leaves(t) /\ ok' = ok /\ gaveUp' = gaveUp
        BY <1>3, Zenon DEF SendTimesOut, Orderly, TypeOK
    <2>2. Arrived' = Arrived
        BY <2>1 DEF Leaves, rxVars, readVars, Arrived
    <2>3. OkHasArrived' /\ ok' \subseteq Messages
        BY <2>1, <2>2 DEF Orderly, TypeOK, OkHasArrived
    <2> QED
        BY <2>1, <2>3, LeavesKeeps DEF Holds
<1> QED
    BY <1>1, <1>2, <1>3

(* A call takes its turn: all that was sent before has arrived, so the next
   message begins at the next sequence number. *)
LEMMA TakeTurnKeeps ==
    ASSUME NEW first \in Nat, Orderly(first), NEW t \in Callers, TakeTurn(t)
    PROVE  txNext \in Nat /\ txNext' = txNext /\ Orderly(txNext)'
<1> DEFINE m == call[t].msg
<1>1. /\ call[t].pc = "entering" /\ ~ sendBusy /\ ~ peerClosed["S"] /\ Open("S") /\ sendBusy'
      /\ call' = [call EXCEPT ![t].pc = "sending", ![t].last = txNext + BlockCount(m) - 1]
      /\ order' = Append(order, m)
    BY DEF TakeTurn
<1>2. /\ reg' = reg /\ txBase' = txBase /\ txNext' = txNext /\ ok' = ok /\ gaveUp' = gaveUp
      /\ data' = data /\ acks' = acks /\ nacks' = nacks
      /\ got' = got /\ asm' = asm /\ inbox' = inbox /\ received' = received
      /\ reader' = reader /\ toldClosed' = toldClosed
      /\ byes' = byes /\ peerClosed' = peerClosed /\ link' = link
    BY DEF TakeTurn, txVars, netVars, rxVars, readVars, closeVars
<1>3. TypeOK /\ txNext \in Nat /\ got \subseteq 0 .. txNext - 1 /\ order \in Seq(Messages)
    BY DEF Orderly, TypeOK
<1>4. m \in Messages /\ Through(first)
    BY <1>1 DEF Orderly, Turns
<1>5. BlockCount(m) \in Nat \ {0} /\ MsgLen[m] \in Nat
    BY <1>4, Lengths
<1>6. 0 .. txNext - 1 \subseteq got
    <2>1. CASE order = <<>>
        BY <2>1 DEF Orderly, Began
    <2>2. CASE order # <<>>
        <3>1. first .. LastSeq(first) \subseteq got /\ 0 .. first - 1 \subseteq got
            BY <1>4, <2>2 DEF Orderly, Through, Began
        <3>2. txNext <= LastSeq(first) + 1 /\ LastSeq(first) \in Int
            BY <1>3, <2>2, LatestIs, Lengths DEF Orderly, Began, LastSeq
        <3> QED
            BY <1>3, <3>1, <3>2
    <2> QED
        BY <2>1, <2>2
<1>7. /\ order' \in Seq(Messages) /\ order' # <<>> /\ Len(order') = Len(order) + 1
      /\ Latest' = m /\ \A i \in 1 .. Len(order) : order'[i] = order[i]
    BY <1>1, <1>3, <1>4 DEF Latest
<1>8. LastSeq(txNext)' = txNext + BlockCount(m) - 1
    BY <1>2, <1>7 DEF LastSeq
<1>9. /\ call'[t] = [call[t] EXCEPT !.pc = "sending", !.last = txNext + BlockCount(m) - 1]
      /\ \A u \in Callers \ {t} : call'[u] = call[u]
      /\ call' \in [Callers -> Calls]
    <2> DEFINE c == [call[t] EXCEPT !.pc = "sending", !.last = txNext + BlockCount(m) - 1]
    <2>1. c \in Calls
        <3>1. call[t] \in Calls /\ txNext + BlockCount(m) - 1 \in Int
            BY <1>3, <1>5, CallTypes
        <3> HIDE DEF m
        <3> QED
            BY <3>1, CallMoves, Zenon
    <2>2. call' = [call EXCEPT ![t] = c]
        BY <1>1, Zenon
    <2> HIDE DEF c
    <2>3. call'[t] = c /\ call' \in [Callers -> Calls] /\ \A u \in Callers \ {t} : call'[u] = call[u]
        BY <2>1, <2>2, CallTypes, Zenon
    <2> QED
        BY <2>3 DEF c
<1>10. TypeOK'
    <2>1. sendBusy' \in BOOLEAN
        BY <1>1
    <2> QED
        BY <1>2, <1>3, <1>7, <1>9, <2>1, Zenon DEF TypeOK, Calls
<1>11. Began(txNext)' /\ Acked' /\ ~ Through(txNext)'
    <2>1. Began(txNext)'
        BY <1>2, <1>3, <1>5, <1>6, <1>7, <1>8 DEF Began
    <2>2. Acked'
        BY <1>2 DEF Orderly, Acked
    <2>3. txNext \in txNext .. LastSeq(txNext)' /\ txNext \notin got
        BY <1>3, <1>5, <1>8
    <2> QED
        BY <1>2, <1>7, <2>1, <2>2, <2>3 DEF Through
<1>12. Sent(txNext)'
    <2>1. ASSUME NEW b \in Block, b.seq < txNext
          PROVE  Known(txNext, b)'
        BY <1>2, <1>3, <2>1 DEF Known, Block
    <2>2. \A b \in data : b \in Block /\ b.seq < txNext
        BY <1>3 DEF Orderly, Sent, Known, TypeOK
    <2>3. \A i \in 0 .. Window - 1 : reg[i] = Empty \/ (reg[i] \in Block /\ reg[i].seq < txNext)
        <3>1. \A i \in 0 .. Window - 1 : reg[i] \in Block \cup {Empty}
            BY <1>3, Zenon DEF TypeOK
        <3>2. \A i \in 0 .. Window - 1 : reg[i] = Empty \/ Known(first, reg[i])
            BY DEF Orderly, Sent
        <3>3. \A b : Known(first, b) => b.seq < txNext
            BY DEF Known
        <3> QED
            BY <3>1, <3>2, <3>3
    <2> QED
        BY <1>2, <2>1, <2>2, <2>3, Zenon DEF Sent
<1>13. Turns(txNext)'
    <2>1. \A u \in Callers : ~ Holds(u)
        BY <1>1 DEF Orderly, Turns
    <2>2. \A u \in Callers : Holds(u)' => u = t
        BY <1>9, <2>1 DEF Holds
    <2>3. /\ call'[t].pc = "sending" /\ call'[t].msg = m /\ call'[t].next = call[t].next
          /\ call'[t].last = txNext + BlockCount(m) - 1
        BY <1>9, CallTypes DEF Calls
    <2>4. call[t].next = 0
        BY <1>1 DEF Orderly, Turns
    <2> QED
        BY <1>1, <1>2, <1>3, <1>4, <1>5, <1>7, <1>8, <1>9, <2>2, <2>3, <2>4 DEF Orderly, Turns, Holds
<1>14. Assembly(txNext)' /\ InOrder' /\ OkHasArrived'
    <2>1. asm = Nothing /\ Len(Arrived) = Len(order) /\ Arrived' = Arrived
        BY <1>2, <1>4 DEF Orderly, Assembly, Arrived
    <2>2. Collected(txNext)'
        <3>1. LastSeq(txNext)' \notin got' /\ asm'.end = {} /\ \A s \in got' : ~ (txNext <= s)
            BY <1>2, <1>3, <1>5, <1>8, <2>1 DEF Nothing
        <3> QED
            BY <1>2, <3>1 DEF Collected
    <2>3. InOrder'
        BY <1>7, <2>1 DEF Orderly, InOrder
    <2> QED
        BY <1>2, <1>3, <1>7, <1>11, <2>1, <2>2, <2>3 DEF Orderly, Assembly, OkHasArrived
<1> QED
    BY <1>2, <1>3, <1>10, <1>11, <1>12, <1>13, <1>14 DEF Orderly

(* The call whose turn it is sends the next block of the latest message. *)
LEMMA SendBlockKeeps ==
    ASSUME NEW first \in Nat, Orderly(first), NEW t \in Callers, SendBlock(t)
    PROVE  Orderly(first)'
<1> DEFINE b == BlockOf(call[t].msg, call[t].next)
           c == [call[t] EXCEPT !.next = call[t].next + 1,
                                !.pc = IF b.last THEN "confirming" ELSE "sending"]
<1>1. /\ call[t].pc = "sending" /\ ~ peerClosed["S"]
      /\ reg' = [reg EXCEPT ![txNext % Window] = b] /\ txNext' = txNext + 1
      /\ data' \subseteq data \cup {b}
      /\ call' = [call EXCEPT ![t] = c]
    BY Zenon DEF SendBlock, Toward
<1>2. /\ txBase' = txBase /\ sendBusy' = sendBusy /\ order' = order /\ ok' = ok
      /\ gaveUp' = gaveUp /\ acks' = acks /\ nacks' = nacks
      /\ got' = got /\ asm' = asm /\ inbox' = inbox /\ received' = received
      /\ reader' = reader /\ toldClosed' = toldClosed
      /\ byes' = byes /\ peerClosed' = peerClosed /\ link' = link
    BY DEF SendBlock, rxVars, readVars, closeVars
<1>3. TypeOK /\ txNext \in Nat /\ txBase \in 0 .. txNext /\ got \subseteq 0 .. txNext - 1
    BY DEF Orderly, TypeOK
<1>4. /\ order # <<>> /\ call[t].msg = Latest /\ call[t].next = txNext - first
      /\ txNext <= LastSeq(first) /\ first <= txNext /\ sendBusy
    BY <1>1 DEF Orderly, Turns, Holds, Began
<1>5. /\ Latest \in Messages /\ MsgLen[Latest] \in Nat /\ BlockCount(Latest) \in Nat \ {0}
      /\ LastSeq(first) \in Int
    BY <1>3, <1>4, LatestIs, Lengths DEF LastSeq
<1>6. /\ b = Piece(first, txNext) /\ b.seq = txNext
      /\ b.last = (txNext = LastSeq(first))
    BY <1>3, <1>4, <1>5 DEF BlockOf, Piece, LastSeq
<1>7. b \in Block
    BY <1>3, <1>4, <1>5 DEF BlockOf, Block
<1> HIDE DEF b
<1>8. /\ c \in Calls /\ c.msg = call[t].msg /\ c.last = call[t].last
      /\ c.next = call[t].next + 1 /\ c.pc = IF b.last THEN "confirming" ELSE "sending"
    <2>1. call[t] \in Calls /\ call[t].next + 1 \in Nat
        BY CallTypes DEF Calls
    <2> QED
        BY <2>1, CallMoves, Zenon DEF Calls
<1> HIDE DEF c
<1>9. /\ call' \in [Callers -> Calls] /\ call'[t] = c
      /\ \A u \in Callers \ {t} : call'[u] = call[u]
    BY <1>1, <1>8, CallTypes, Zenon
<1>10. /\ txNext % Window \in 0 .. Window - 1
       /\ reg' \in [0 .. Window - 1 -> Block \cup {Empty}]
       /\ \A i \in 0 .. Window - 1 : reg'[i] = b \/ reg'[i] = reg[i]
    <2>1. txNext % Window \in 0 .. Window - 1
        BY <1>3, SdkAssumption
    <2>2. reg \in [0 .. Window - 1 -> Block \cup {Empty}]
        BY <1>3 DEF TypeOK
    <2> QED
        BY <1>1, <1>7, <2>1, <2>2
<1>11. TypeOK'
    <2>1. /\ txNext' \in Nat /\ txBase' \in 0 .. txNext' /\ got' \subseteq 0 .. txNext' - 1
        BY <1>1, <1>2, <1>3
    <2>2. data' \subseteq Block
        BY <1>1, <1>3, <1>7 DEF TypeOK
    <2> QED
        BY <1>2, <1>3, <1>9, <1>10, <2>1, <2>2, Zenon DEF TypeOK, Calls
<1>12. /\ Latest' = Latest /\ LastSeq(first)' = LastSeq(first) /\ Arrived' = Arrived
       /\ Through(first)' = Through(first)
    BY <1>2 DEF Latest, LastSeq, Arrived, Through
<1>13. Began(first)' /\ Acked'
    BY <1>1, <1>2, <1>3, <1>4, <1>5, <1>12 DEF Orderly, Began, Acked
<1>14. Sent(first)'
    <2> DEFINE Now(d) == d.seq < txNext + 1 /\ (first <= d.seq => d = Piece(first, d.seq))
    <2>1. \A d : Known(first, d)' <=> Now(d)
        BY <1>1, <1>12 DEF Known, Piece
    <2>2. ASSUME NEW d \in Block, Known(first, d)
          PROVE  Now(d)
        BY <1>3, <2>2 DEF Known, Block
    <2>3. Now(b)
        BY <1>3, <1>6
    <2>4. \A d \in data : d \in Block /\ Known(first, d)
        BY <1>3 DEF Orderly, Sent, TypeOK
    <2>5. \A i \in 0 .. Window - 1 : reg[i] = Empty \/ (reg[i] \in Block /\ Known(first, reg[i]))
        BY <1>3 DEF Orderly, Sent, TypeOK
    <2> HIDE DEF Now
    <2>6. \A d \in data' : Now(d)
        BY <1>1, <2>2, <2>3, <2>4, Zenon
    <2>7. \A i \in 0 .. Window - 1 : reg'[i] = Empty \/ Now(reg'[i])
        BY <1>10, <2>2, <2>3, <2>5, Zenon
    <2> QED
        BY <2>1, <2>6, <2>7 DEF Sent
<1>15. Turns(first)'
    <2>1. \A u \in Callers : Holds(u)' => u = t
        BY <1>1, <1>9 DEF Orderly, Turns, Holds
    <2>2. Holds(t)' /\ (call'[t].pc = "sending" => txNext' <= LastSeq(first))
        <3>1. Holds(t)' /\ (call'[t].pc = "sending" => ~ b.last)
            BY <1>8, <1>9 DEF Holds
        <3>2. ~ b.last => txNext # LastSeq(first)
            BY <1>6, Zenon
        <3> QED
            BY <1>1, <1>3, <1>4, <1>5, <3>1, <3>2
    <2>3. /\ call'[t].msg = Latest /\ call'[t].last = LastSeq(first)
          /\ call'[t].next = txNext' - first /\ call'[t].pc # "entering"
        BY <1>1, <1>3, <1>4, <1>8, <1>9 DEF Orderly, Turns, Holds
    <2>4. ASSUME NEW u \in Callers
          PROVE  /\ call'[u].pc # "idle" => call'[u].msg \in Messages
                 /\ call'[u].pc = "entering" => call'[u].next = 0
                 /\ call'[u].pc = "sending" => u = t
        BY <1>5, <1>9, <2>1, <2>3 DEF Orderly, Turns, Holds
    <2> QED
        BY <1>2, <1>4, <1>12, <2>1, <2>2, <2>3, <2>4 DEF Turns
<1>16. Assembly(first)' /\ InOrder' /\ OkHasArrived'
    BY <1>2, <1>12 DEF Orderly, Assembly, Collected, InOrder, OkHasArrived
<1> QED
    BY <1>11, <1>13, <1>14, <1>15, <1>16 DEF Orderly

(* An ACK, however old, is true of what the receiver has. *)
LEMMA AckArrivesKeeps ==
    ASSUME NEW first \in Nat, Orderly(first), NEW b \in acks, AckArrives(b)
    PROVE  Orderly(first)'
<1> DEFINE newBase == IF b <= txBase THEN txBase ELSE IF b < txNext THEN b ELSE txNext
<1>1. /\ acks' \subseteq acks /\ txBase' = newBase
      /\ reg' = Confirm(txBase .. newBase - 1)
    BY DEF AckArrives, Arrives
<1>2. /\ txNext' = txNext /\ sendBusy' = sendBusy /\ call' = call /\ order' = order /\ ok' = ok
      /\ gaveUp' = gaveUp /\ data' = data /\ nacks' = nacks
      /\ got' = got /\ asm' = asm /\ inbox' = inbox /\ received' = received
      /\ reader' = reader /\ toldClosed' = toldClosed
      /\ byes' = byes /\ peerClosed' = peerClosed /\ link' = link
    BY DEF AckArrives, callVars, rxVars, readVars, closeVars
<1>3. TypeOK /\ txNext \in Nat /\ txBase \in 0 .. txNext /\ b \in Nat /\ acks \subseteq Nat
    BY DEF Orderly, TypeOK
<1>4. txBase' \in 0 .. txNext /\ (txBase' = txBase \/ txBase' <= b)
    BY <1>1, <1>3
<1>5. reg \in [0 .. Window - 1 -> Block \cup {Empty}]
    BY <1>3 DEF TypeOK
<1> HIDE DEF newBase
<1>6. /\ reg' \in [0 .. Window - 1 -> Block \cup {Empty}]
      /\ \A i \in 0 .. Window - 1 : reg'[i] = Empty \/ reg'[i] = reg[i]
    BY <1>1, <1>5 DEF Confirm
<1>7. TypeOK'
    <2>1. acks' \subseteq Nat
        BY <1>1, <1>3
    <2> QED
        BY <1>2, <1>3, <1>4, <1>6, <2>1, Zenon DEF TypeOK
<1>8. /\ Latest' = Latest /\ LastSeq(first)' = LastSeq(first) /\ Arrived' = Arrived
      /\ Through(first)' = Through(first)
    BY <1>2 DEF Latest, LastSeq, Arrived, Through
<1>9. Began(first)'
    BY <1>2, <1>8 DEF Orderly, Began
<1>10. Acked'
    <2>1. \A a \in acks \cup {txBase} : 0 .. a - 1 \subseteq got
        BY DEF Orderly, Acked
    <2>2. 0 .. txBase' - 1 \subseteq got
        <3>1. 0 .. txBase - 1 \subseteq got /\ 0 .. b - 1 \subseteq got
            BY <2>1
        <3>2. txBase' \in Int /\ b \in Int
            BY <1>3, <1>4
        <3>3. txBase' <= b => 0 .. txBase' - 1 \subseteq got
            BY <3>1, <3>2, Shorter, Zenon
        <3> QED
            BY <1>4, <3>1, <3>3, Zenon
    <2> QED
        BY <1>1, <1>2, <2>1, <2>2 DEF Acked
<1>11. Sent(first)'
    <2>1. \A d : Known(first, d)' <=> Known(first, d)
        BY <1>2, <1>8 DEF Known, Piece
    <2> QED
        BY <1>2, <1>6, <2>1 DEF Orderly, Sent
<1>12. Turns(first)'
    BY <1>2, <1>8 DEF Orderly, Turns, Holds, Open
<1>13. Assembly(first)' /\ InOrder' /\ OkHasArrived'
    BY <1>2, <1>8, Zenon DEF Orderly, Assembly, Collected, InOrder, OkHasArrived
<1> QED
    BY <1>7, <1>9, <1>10, <1>11, <1>12, <1>13 DEF Orderly

(* What a new block adds to the assembly: the latest message, once it is
   whole, goes to the inbox. *)
LEMMA NewBlockKeeps ==
    ASSUME NEW first \in Nat, Orderly(first), NEW b \in Block, Known(first, b),
           b.seq \notin got, got' = got \cup {b.seq}, txNext' = txNext, order' = order,
           received' = received,
           Delivered(Assembled(b), RxBase(got'))
    PROVE  /\ asm' \in [buf : Seq(Cell), end : SUBSET Nat, total : Nat]
           /\ inbox' \in Seq(Seq(Cell)) /\ got' \subseteq 0 .. txNext - 1
           /\ Assembly(first)' /\ InOrder' /\ \A x \in Range(Arrived) : x \in Range(Arrived')
<1> DEFINE s == b.seq
           m == Latest
           last == LastSeq(first)
           a == Assembled(b)
           whole == first .. last \subseteq got'
<1>1. /\ TypeOK /\ txNext \in Nat /\ got \subseteq 0 .. txNext - 1 /\ order \in Seq(Messages)
      /\ inbox \in Seq(Seq(Cell)) /\ received \in Seq(Seq(Cell))
      /\ asm \in [buf : Seq(Cell), end : SUBSET Nat, total : Nat]
    BY Zenon DEF Orderly, TypeOK
<1>2. s \in Nat /\ s < txNext /\ 0 .. first - 1 \subseteq got /\ first <= s
    BY DEF Orderly, Began, Known, Block
<1>3. order # <<>> /\ b = Piece(first, s) /\ txNext <= last + 1
    BY <1>2 DEF Orderly, Began, Known
<1>4. /\ m \in Messages /\ MsgLen[m] \in Nat /\ BlockCount(m) \in Nat \ {0}
      /\ MsgLen[m] <= BlockCount(m) /\ (MsgLen[m] # 0 => BlockCount(m) = MsgLen[m])
      /\ last = first + BlockCount(m) - 1 /\ Len(order) \in Nat \ {0}
    BY <1>1, <1>3, LatestIs, Lengths DEF LastSeq
<1>5. s \in first .. last /\ ~ Through(first) /\ got' \in SUBSET (0 .. txNext - 1)
    <2>1. s \in first .. last
        BY <1>1, <1>2, <1>3, <1>4
    <2>2. s \in 0 .. txNext - 1
        BY <1>1, <1>2
    <2>3. got' \in SUBSET (0 .. txNext - 1)
        BY <1>1, <2>2, Zenon
    <2> HIDE DEF s
    <2> QED
        BY <1>3, <2>1, <2>3 DEF Through, s
<1>6. /\ Latest' = m /\ LastSeq(first)' = last /\ (Through(first)' <=> whole)
    BY <1>3 DEF Latest, LastSeq, Through
<1>7. Collected(first) /\ Len(Arrived) = Len(order) - 1 /\ Arrived \in Seq(Seq(Cell))
    BY <1>1, <1>5 DEF Orderly, Assembly, Arrived
<1>8. /\ b.off = s - first /\ b.off \in Nat /\ b.msg = m
      /\ b.len = (IF s - first < MsgLen[m] THEN 1 ELSE 0) /\ (b.last <=> s = last)
    <2>1. \A q : /\ Piece(first, q).off = q - first /\ Piece(first, q).msg = m
                 /\ Piece(first, q).len = (IF q - first < MsgLen[m] THEN 1 ELSE 0)
                 /\ Piece(first, q).last = (q - first + 1 = BlockCount(m))
        BY DEF Piece
    <2> HIDE DEF s, m
    <2>2. /\ b.off = s - first /\ b.msg = m
          /\ b.len = (IF s - first < MsgLen[m] THEN 1 ELSE 0)
          /\ b.last = (s - first + 1 = BlockCount(m))
        BY <1>3, <2>1
    <2>3. s - first \in Nat /\ (s - first + 1 = BlockCount(m) <=> s = last)
        BY <1>2, <1>4
    <2> QED
        BY <2>2, <2>3, Zenon
<1> HIDE DEF m, last, s, whole
<1>9. /\ a.end = got' \cap {last} /\ (a.end # {} => a.total = MsgLen[m])
      /\ a.buf \in Seq(Cell) /\ a \in [buf : Seq(Cell), end : SUBSET Nat, total : Nat]
      /\ \A q \in got' : first <= q /\ q - first < MsgLen[m] =>
            q - first < Len(a.buf) /\ a.buf[q - first + 1] = <<m, q - first>>
    <2> DEFINE end == b.off + b.len
               n == Larger(end, Len(asm.buf))
               buf == Resized(asm.buf, n)
               buf1 == IF b.len = 0 THEN buf ELSE [buf EXCEPT ![end] = <<b.msg, b.off>>]
    <2>1. /\ a.buf = buf1 /\ a.end = IF b.last THEN {b.seq} ELSE asm.end
          /\ a.total = IF b.last THEN end ELSE asm.total
          /\ a = [buf |-> a.buf, end |-> a.end, total |-> a.total]
        BY Zenon DEF Assembled
    <2>2. /\ asm.buf \in Seq(Cell) /\ Len(asm.buf) \in Nat /\ asm.end \in SUBSET Nat
          /\ asm.total \in Nat
        BY <1>1
    <2>3. /\ end \in Nat /\ n \in Nat /\ end <= n /\ Len(asm.buf) <= n
          /\ (b.len = 1 => end = s - first + 1) /\ (b.len = 0 => MsgLen[m] <= s - first)
        <3>1. b.len = 1 \/ (b.len = 0 /\ MsgLen[m] <= s - first)
            BY <1>2, <1>4, <1>8
        <3>2. end \in Nat /\ (b.len = 1 => end = s - first + 1)
            BY <1>8, <3>1
        <3> HIDE DEF end
        <3>3. n \in Nat /\ end <= n /\ Len(asm.buf) <= n
            BY <2>2, <3>2 DEF Larger
        <3> QED
            BY <3>1, <3>2, <3>3
    <2>4. /\ buf = [i \in 1 .. n |-> IF i <= Len(asm.buf) THEN asm.buf[i] ELSE <<"zero">>]
          /\ \A i \in 1 .. n : buf[i] \in Cell
        BY <2>2 DEF Resized, Cell
    <2>5. buf \in Seq(Cell) /\ Len(buf) = n
        BY <2>3, <2>4
    <2>6. <<b.msg, b.off>> \in Cell
        BY <1>4, <1>8 DEF Cell
    <2>7. b.len \in {0, 1}
        BY <1>8
    <2> HIDE DEF end, n, buf
    <2>8. /\ buf1 \in Seq(Cell) /\ Len(buf1) = n
          /\ \A i \in 1 .. n : buf1[i] = IF b.len = 1 /\ i = end THEN <<b.msg, b.off>> ELSE buf[i]
        <3>1. CASE b.len = 0
            BY <2>5, <3>1
        <3>2. CASE b.len = 1
            <4>1. end \in 1 .. n /\ buf1 = [buf EXCEPT ![end] = <<b.msg, b.off>>]
                BY <1>8, <2>3, <3>2 DEF end
            <4> HIDE DEF buf1
            <4> QED
                BY <2>5, <2>6, <3>2, <4>1, PutAt
        <3> QED
            BY <2>7, <3>1, <3>2
    <2> HIDE DEF buf1
    <2>9. a.end = got' \cap {last} /\ (a.end # {} => a.total = MsgLen[m])
        <3>1. asm.end = got \cap {last} /\ (asm.end # {} => asm.total = MsgLen[m])
            BY <1>7 DEF Collected, last, m
        <3>2. s = last => end = MsgLen[m]
            <4>1. CASE MsgLen[m] = 0
                <5>1. BlockCount(m) = 1 /\ last = first
                    BY <1>4, <4>1 DEF BlockCount
                <5>2. s = last => b.off = 0 /\ b.len = 0
                    BY <1>8, <4>1, <5>1
                <5> QED
                    BY <4>1, <5>2 DEF end
            <4>2. CASE MsgLen[m] # 0
                <5>1. last - first = MsgLen[m] - 1 /\ last - first < MsgLen[m]
                    BY <1>4, <4>2
                <5>2. s = last => b.off = MsgLen[m] - 1 /\ b.len = 1
                    BY <1>8, <5>1
                <5> QED
                    BY <1>4, <5>2 DEF end
            <4> QED
                BY <4>1, <4>2
        <3> QED
            BY <1>8, <2>1, <3>1, <3>2 DEF s
    <2>10. a \in [buf : Seq(Cell), end : SUBSET Nat, total : Nat]
        <3>1. a.end \in SUBSET Nat /\ a.total \in Nat
            BY <1>2, <2>1, <2>2, <2>3 DEF s
        <3> QED
            BY <2>1, <2>8, <3>1
    <2>11. ASSUME NEW q \in got', first <= q, q - first < MsgLen[m]
           PROVE  q - first < Len(a.buf) /\ a.buf[q - first + 1] = <<m, q - first>>
        <3>1. q \in Int
            BY <1>5
        <3>2. CASE q = s
            <4>1. b.len = 1 /\ end = q - first + 1 /\ b.off = q - first
                BY <1>8, <2>3, <2>11, <3>2
            <4>2. end \in 1 .. n
                BY <2>3, <2>11, <3>1, <4>1
            <4> QED
                BY <1>8, <2>1, <2>3, <2>8, <2>11, <3>1, <4>1, <4>2
        <3>3. CASE q # s
            <4>1. q \in got
                BY <3>3 DEF s
            <4>2. q - first < Len(asm.buf) /\ asm.buf[q - first + 1] = <<m, q - first>>
                BY <1>7, <2>11, <4>1 DEF Collected, m
            <4> DEFINE i == q - first + 1
            <4>3. i \in 1 .. n /\ i <= Len(asm.buf) /\ ~ (b.len = 1 /\ i = end)
                BY <1>2, <2>2, <2>3, <2>11, <3>1, <3>3, <4>2
            <4> HIDE DEF i
            <4>4. buf1[i] = asm.buf[i]
                BY <2>4, <2>8, <4>3
            <4> QED
                BY <2>1, <2>2, <2>3, <2>8, <2>11, <3>1, <4>2, <4>4 DEF i
        <3> QED
            BY <3>2, <3>3
    <2> QED
        BY <2>1, <2>8, <2>9, <2>10, <2>11
<1> HIDE DEF a
<1>10. (\E q \in a.end : RxBase(got') > q) <=> whole
    <2>1. /\ RxBase(got') \in Nat /\ 0 .. RxBase(got') - 1 \subseteq got'
          /\ \A n \in Nat : 0 .. n - 1 \subseteq got' => n <= RxBase(got')
        BY <1>1, <1>5, RxBaseFacts, Zenon
    <2>2. ASSUME NEW q \in a.end, RxBase(got') > q
          PROVE  whole
        <3>1. q = last
            BY <1>9
        <3>2. last \in Int /\ RxBase(got') \in Int /\ last < RxBase(got')
            BY <1>4, <2>1, <2>2, <3>1
        <3> QED
            BY <2>1, <3>2, Inside, Zenon DEF whole
    <2>3. ASSUME whole
          PROVE  last \in a.end /\ RxBase(got') > last
        <3>1. last \in Nat /\ last \in first .. last
            BY <1>4
        <3>2. 0 .. (last + 1) - 1 \subseteq got'
            <4>1. 0 .. first - 1 \subseteq got'
                BY <1>2
            <4> QED
                BY <2>3, <3>1, <4>1, Joined DEF whole
        <3>3. last + 1 <= RxBase(got')
            <4>1. last + 1 \in Nat
                BY <3>1
            <4> QED
                BY <2>1, <3>2, <4>1, Zenon
        <3>4. last \in a.end
            BY <1>9, <2>3, <3>1, Zenon DEF whole
        <3> QED
            BY <2>1, <3>1, <3>3, <3>4
    <2> QED
        BY <2>2, <2>3
<1>11. CASE whole
    <2>1. inbox' = Append(inbox, Resized(a.buf, a.total)) /\ asm' = Nothing
        BY <1>10, <1>11, Zenon DEF Delivered, a
    <2>2. a.total = MsgLen[m]
        BY <1>4, <1>9, <1>11 DEF whole
    <2>3. \A i \in 1 .. MsgLen[m] : i <= Len(a.buf) /\ a.buf[i] = <<m, i - 1>>
        <3> TAKE i \in 1 .. MsgLen[m]
        <3>1. first + i - 1 \in first .. last /\ (first + i - 1) - first = i - 1
            BY <1>4
        <3>2. first + i - 1 \in got' /\ first + i - 1 \in Int
            BY <1>11, <3>1 DEF whole
        <3> DEFINE q == first + i - 1
        <3>3. q \in got' /\ first <= q /\ q - first = i - 1 /\ q - first < MsgLen[m]
            BY <1>4, <3>1, <3>2
        <3> HIDE DEF q
        <3>4. q - first < Len(a.buf) /\ a.buf[q - first + 1] = <<m, q - first>>
            BY <1>9, <3>3, Zenon
        <3>5. Len(a.buf) \in Nat /\ (i - 1) + 1 = i
            BY <1>9
        <3> QED
            BY <3>3, <3>4, <3>5
    <2>4. Resized(a.buf, a.total) = Whole(m) /\ Whole(m) \in Seq(Cell)
        <3>1. Resized(a.buf, a.total) = [i \in 1 .. MsgLen[m] |-> <<m, i - 1>>]
            BY <2>2, <2>3 DEF Resized
        <3>2. \A i \in 1 .. MsgLen[m] : <<m, i - 1>> \in Cell
            BY <1>4 DEF Cell
        <3> QED
            BY <1>4, <3>1, <3>2 DEF Whole
    <2>5. /\ inbox' \in Seq(Seq(Cell)) /\ Arrived' = Append(Arrived, Whole(m))
        <3>1. Arrived' = received \o inbox'
            BY DEF Arrived
        <3>2. inbox' = Append(inbox, Whole(m))
            BY <2>1, <2>4, Zenon
        <3> QED
            BY <1>1, <2>4, <3>1, <3>2, PutBehind DEF Arrived
    <2>6. /\ Len(Arrived') = Len(order) /\ Arrived' \in Seq(Seq(Cell))
          /\ \A i \in 1 .. Len(Arrived) : Arrived'[i] = Arrived[i]
          /\ Arrived'[Len(order)] = Whole(m)
        BY <1>4, <1>7, <2>4, <2>5
    <2>7. InOrder'
        <3>1. \A i \in 1 .. Len(Arrived) : i <= Len(order) /\ Arrived[i] = Whole(order[i])
            BY DEF Orderly, InOrder
        <3>2. m = order[Len(order)]
            BY DEF m, Latest
        <3>3. ASSUME NEW i \in 1 .. Len(order)
              PROVE  Arrived'[i] = Whole(order[i])
            <4>1. i = Len(order) \/ i \in 1 .. Len(Arrived)
                BY <1>4, <1>7
            <4> QED
                BY <2>6, <3>1, <3>2, <4>1
        <3> QED
            BY <1>4, <2>6, <3>3 DEF InOrder
    <2>8. asm' \in [buf : Seq(Cell), end : SUBSET Nat, total : Nat]
        BY <2>1 DEF Nothing
    <2>9. \A x \in Range(Arrived) : x \in Range(Arrived')
        <3>1. DOMAIN Arrived = 1 .. Len(Arrived) /\ DOMAIN Arrived' = 1 .. Len(Arrived')
            BY <1>7, <2>6
        <3>2. \A i \in 1 .. Len(Arrived) : i \in 1 .. Len(Arrived')
            BY <1>4, <1>7, <2>6
        <3> QED
            BY <2>6, <3>1, <3>2 DEF Range
    <2> QED
        BY <1>5, <1>6, <1>11, <2>1, <2>5, <2>6, <2>7, <2>8, <2>9 DEF Assembly
<1>12. CASE ~ whole
    <2>1. asm' = a /\ inbox' = inbox /\ Arrived' = Arrived
        BY <1>10, <1>12, Zenon DEF Delivered, a, Arrived
    <2>2. Collected(first)'
        BY <1>6, <1>9, <2>1 DEF Collected
    <2>3. InOrder'
        BY <2>1 DEF Orderly, InOrder
    <2> QED
        BY <1>1, <1>5, <1>6, <1>7, <1>9, <1>12, <2>1, <2>2, <2>3 DEF Assembly
<1> QED
    BY <1>11, <1>12

(* A DATA datagram arrives, new or not. *)
LEMMA DataArrivesKeeps ==
    ASSUME NEW first \in Nat, Orderly(first), NEW b \in data, DataArrives(b)
    PROVE  Orderly(first)'
<1>1. /\ data' \subseteq data /\ HandleData(b) /\ acks' \subseteq acks \cup {RxBase(got')}
    BY DEF DataArrives, Arrives, Toward
<1>2. /\ reg' = reg /\ txBase' = txBase /\ txNext' = txNext /\ sendBusy' = sendBusy
      /\ call' = call /\ order' = order /\ ok' = ok /\ gaveUp' = gaveUp /\ nacks' = nacks
      /\ received' = received /\ reader' = reader /\ toldClosed' = toldClosed
      /\ byes' = byes /\ peerClosed' = peerClosed /\ link' = link
    BY DEF DataArrives, txVars, callVars, readVars, closeVars
<1>3. /\ TypeOK /\ txNext \in Nat /\ got \subseteq 0 .. txNext - 1 /\ b \in Block
      /\ Known(first, b) /\ acks \subseteq Nat
    BY DEF Orderly, TypeOK, Sent
<1>4. /\ asm' \in [buf : Seq(Cell), end : SUBSET Nat, total : Nat]
      /\ inbox' \in Seq(Seq(Cell)) /\ got' \subseteq 0 .. txNext - 1 /\ got \subseteq got'
      /\ Assembly(first)' /\ InOrder' /\ \A x \in Range(Arrived) : x \in Range(Arrived')
    <2>1. CASE InboxBytes < InboxCap /\ New(b)
        <3>1. /\ b.seq \notin got /\ got' = got \cup {b.seq}
              /\ Delivered(Assembled(b), RxBase(got'))
            BY <1>1, <2>1 DEF HandleData, New
        <3> QED
            BY <1>2, <1>3, <3>1, NewBlockKeeps, Zenon
    <2>2. CASE ~ (InboxBytes < InboxCap /\ New(b))
        <3>1. got' = got /\ asm' = asm /\ inbox' = inbox
            BY <1>1, <2>2 DEF HandleData, rxVars
        <3>2. /\ Latest' = Latest /\ LastSeq(first)' = LastSeq(first) /\ Arrived' = Arrived
              /\ Through(first)' = Through(first)
            BY <1>2, <3>1 DEF Latest, LastSeq, Arrived, Through
        <3>3. Assembly(first)' /\ InOrder'
            BY <1>2, <3>1, <3>2 DEF Orderly, Assembly, Collected, InOrder
        <3> QED
            BY <1>3, <3>1, <3>2, <3>3 DEF TypeOK
    <2> QED
        BY <2>1, <2>2
<1>5. RxBase(got') \in Nat /\ 0 .. RxBase(got') - 1 \subseteq got'
    BY <1>3, <1>4, RxBaseFacts, Zenon
<1>6. TypeOK'
    <2>1. data' \subseteq Block /\ acks' \subseteq Nat
        BY <1>1, <1>3, <1>5 DEF TypeOK
    <2> QED
        BY <1>2, <1>3, <1>4, <2>1, Zenon DEF TypeOK
<1>7. Latest' = Latest /\ LastSeq(first)' = LastSeq(first) /\ (Through(first) => Through(first)')
    BY <1>2, <1>4 DEF Latest, LastSeq, Through
<1>8. Began(first)'
    BY <1>2, <1>4, <1>7 DEF Orderly, Began
<1>9. Acked'
    <2>1. \A a \in acks \cup {txBase} : 0 .. a - 1 \subseteq got'
        BY <1>4 DEF Orderly, Acked
    <2> QED
        BY <1>1, <1>2, <1>5, <2>1 DEF Acked
<1>10. Sent(first)'
    <2>1. \A d : Known(first, d)' <=> Known(first, d)
        BY <1>2, <1>7 DEF Known, Piece
    <2> QED
        BY <1>1, <1>2, <2>1 DEF Orderly, Sent
<1>11. Turns(first)'
    BY <1>2, <1>7 DEF Orderly, Turns, Holds, Open
<1>12. OkHasArrived'
    BY <1>2, <1>4 DEF Orderly, OkHasArrived
<1> QED
    BY <1>4, <1>6, <1>8, <1>9, <1>10, <1>11, <1>12 DEF Orderly

(* fuse_recv hands out the oldest message, which stays among those that have
   arrived. *)
LEMMA RecvReturnsKeeps ==
    ASSUME NEW first \in Nat, Orderly(first), RecvReturns
    PROVE  Orderly(first)'
<1>1. /\ txVars' = txVars /\ callVars' = callVars /\ netVars' = netVars
      /\ closeVars' = closeVars /\ got' = got /\ asm' = asm /\ reader' = "idle"
    BY DEF RecvReturns, txVars, callVars, netVars, closeVars
<1>2. /\ reg' = reg /\ txBase' = txBase /\ txNext' = txNext /\ sendBusy' = sendBusy
      /\ call' = call /\ order' = order /\ ok' = ok /\ gaveUp' = gaveUp
      /\ data' = data /\ acks' = acks /\ nacks' = nacks
      /\ byes' = byes /\ peerClosed' = peerClosed /\ link' = link
    BY <1>1 DEF txVars, callVars, netVars, closeVars
<1>3. /\ TypeOK /\ inbox \in Seq(Seq(Cell)) /\ received \in Seq(Seq(Cell))
      /\ toldClosed \in BOOLEAN
    BY DEF Orderly, TypeOK
<1>4. /\ inbox' \in Seq(Seq(Cell)) /\ received' \in Seq(Seq(Cell)) /\ toldClosed' \in BOOLEAN
      /\ Arrived' = Arrived
    <2>1. CASE /\ inbox # <<>> /\ received' = Append(received, Head(inbox))
               /\ inbox' = Tail(inbox) /\ toldClosed' = toldClosed
        BY <1>3, <2>1, MoveHead DEF Arrived
    <2>2. CASE toldClosed' = TRUE /\ inbox' = inbox /\ received' = received
        BY <1>3, <2>2 DEF Arrived
    <2> QED
        BY <2>1, <2>2, Zenon DEF RecvReturns
<1>5. TypeOK'
    BY <1>1, <1>2, <1>3, <1>4, Zenon DEF TypeOK
<1>6. /\ Latest' = Latest /\ LastSeq(first)' = LastSeq(first)
      /\ Through(first)' = Through(first)
    BY <1>1, <1>2 DEF Latest, LastSeq, Through
<1>7. Began(first)' /\ Acked'
    BY <1>1, <1>2, <1>6 DEF Orderly, Began, Acked
<1>8. Sent(first)'
    BY <1>2, <1>6 DEF Orderly, Sent, Known, Piece
<1>9. Turns(first)'
    BY <1>2, <1>6 DEF Orderly, Turns, Holds, Open
<1>10. Assembly(first)' /\ InOrder' /\ OkHasArrived'
    BY <1>1, <1>2, <1>4, <1>6 DEF Orderly, Assembly, Collected, InOrder, OkHasArrived
<1> QED
    BY <1>5, <1>7, <1>8, <1>9, <1>10 DEF Orderly

(* A block is sent again from the registry. *)
LEMMA ResendKeeps ==
    ASSUME NEW first \in Nat, Orderly(first), NEW s \in Nat, Resend(s),
           nacks' \subseteq nacks,
           UNCHANGED <<txVars, callVars, acks, rxVars, readVars, closeVars>>
    PROVE  Orderly(first)'
<1>1. /\ acks' = acks /\ received' = received /\ reader' = reader /\ toldClosed' = toldClosed
      /\ byes' = byes /\ peerClosed' = peerClosed /\ link' = link
      /\ UNCHANGED <<txVars, callVars, rxVars, received>>
    BY DEF readVars, closeVars
<1>2. TypeOK
    BY DEF Orderly
<1>3. s % Window \in 0 .. Window - 1
    BY SdkAssumption
<1>4. Resident(s) => reg[s % Window] # Empty
    BY DEF Resident, Empty
<1>5. \A b \in data' : b \in data \/ (b = reg[s % Window] /\ Resident(s))
    BY DEF Resend, Toward
<1>6. \A b \in data' : b \in data \/ \E i \in 0 .. Window - 1 : b = reg[i] /\ b # Empty
    BY <1>3, <1>4, <1>5, Zenon
<1>7. /\ nacks' \subseteq Nat /\ byes' \subseteq Ends /\ reader' \in {"idle", "waiting"}
      /\ toldClosed' \in BOOLEAN /\ peerClosed' \in [Ends -> BOOLEAN]
      /\ link' \in [Ends -> {"open", "closing", "stopped", "freed"}]
    BY <1>1, <1>2 DEF TypeOK
<1> QED
    BY <1>1, <1>6, <1>7, QuietStep

(* The steps of the network, of the receiving pump and of fuse_recv that move no
   message. *)
LEMMA IdleStepsKeep ==
    ASSUME NEW first \in Nat, Orderly(first),
           \/ \E s \in 0 .. txNext : SendNack(s)
           \/ RecvStarts \/ RecvTooSmall \/ RecvTimesOut \/ RecvClosing
           \/ Lose
    PROVE  Orderly(first)'
<1>1. UNCHANGED <<txVars, callVars, rxVars, received, toldClosed, peerClosed, link>>
    BY Zenon DEF SendNack, RecvStarts, RecvTooSmall, RecvTimesOut, RecvClosing, Lose, readVars, closeVars
<1>2. TypeOK /\ txNext \in Nat
    BY DEF Orderly, TypeOK
<1>3. data' \subseteq data /\ acks' \subseteq acks /\ byes' \subseteq byes
    BY Zenon DEF SendNack, RecvStarts, RecvTooSmall, RecvTimesOut, RecvClosing, Lose, netVars, closeVars
<1>4. nacks' \subseteq nacks \cup 0 .. txNext
    BY DEF SendNack, Toward, RecvStarts, RecvTooSmall, RecvTimesOut, RecvClosing, Lose, netVars
<1>5. reader' \in {"idle", "waiting"}
    BY <1>2, Zenon DEF TypeOK, SendNack, RecvStarts, RecvTooSmall, RecvTimesOut, RecvClosing, Lose, readVars
<1>6. /\ nacks' \subseteq Nat /\ byes' \subseteq Ends /\ toldClosed' \in BOOLEAN
      /\ peerClosed' \in [Ends -> BOOLEAN]
      /\ link' \in [Ends -> {"open", "closing", "stopped", "freed"}]
    BY <1>1, <1>2, <1>3, <1>4 DEF TypeOK
<1> QED
    BY <1>1, <1>3, <1>5, <1>6, QuietStep

(* fuse_close and the peer's close: neither is ever undone. *)
LEMMA CloseKeeps ==
    ASSUME NEW first \in Nat, Orderly(first), NEW e \in Ends,
           Close(e) \/ StopPump(e) \/ Free(e) \/ ByeArrives(e)
    PROVE  Orderly(first)'
<1>1. /\ UNCHANGED <<txVars, callVars, rxVars, readVars>>
      /\ data' \subseteq data /\ acks' \subseteq acks /\ nacks' \subseteq nacks
    BY DEF Close, StopPump, Free, ByeArrives, netVars
<1>2. /\ TypeOK /\ peerClosed \in [Ends -> BOOLEAN]
      /\ link \in [Ends -> {"open", "closing", "stopped", "freed"}]
      /\ byes \subseteq Ends /\ nacks \subseteq Nat /\ "S" \in Ends
    BY DEF Orderly, TypeOK, Ends
<1>3. byes' \subseteq Ends
    BY <1>2 DEF Close, StopPump, Free, ByeArrives, Arrives
<1>4. /\ link' \in [Ends -> {"open", "closing", "stopped", "freed"}]
      /\ link'["S"] = "open" => link["S"] = "open"
    BY <1>2 DEF Close, StopPump, Free, ByeArrives, Open
<1>5. /\ peerClosed' \in [Ends -> BOOLEAN]
      /\ peerClosed["S"] => peerClosed'["S"]
    <2>1. CASE peerClosed' = peerClosed
        BY <1>2, <2>1
    <2>2. CASE peerClosed' = [peerClosed EXCEPT ![Other(e)] = TRUE]
        BY <1>2, <2>2, Zenon
    <2> QED
        BY <2>1, <2>2 DEF Close, StopPump, Free, ByeArrives
<1>6. /\ received' = received /\ reader' \in {"idle", "waiting"} /\ toldClosed' \in BOOLEAN
    BY <1>1, <1>2 DEF TypeOK, readVars
<1> QED
    BY <1>1, <1>2, <1>3, <1>4, <1>5, <1>6, QuietStep

(* No step undoes a fuse_send that gave up. *)
LEMMA GivenUpStays ==
    ASSUME [Next]_vars, gaveUp
    PROVE  gaveUp'
    BY Zenon DEF Next, vars, callVars, SendStarts, TakeTurn, SendBlock, SendOk, SendClosed,
           SendTimesOut, AckArrives, NackArrives, Rto, DataArrives, SendNack, RecvStarts,
           RecvReturns, RecvTooSmall, RecvTimesOut, RecvClosing, Close, StopPump, Free,
           ByeArrives, Lose

(* Every step keeps the invariant. *)
LEMMA OrderlyInductive == SdkInv /\ [Next]_vars => SdkInv'
<1> SUFFICES ASSUME SdkInv, [Next]_vars, ~ gaveUp'
             PROVE  \E first \in 0 .. txNext' : Orderly(first)'
    BY DEF SdkInv
<1>1. ~ gaveUp
    BY GivenUpStays
<1>2. PICK first \in 0 .. txNext : Orderly(first)
    BY <1>1 DEF SdkInv
<1>3. first \in Nat
    OBVIOUS
<1>4. Orderly(first)' => first \in 0 .. txNext'
    BY <1>3 DEF Orderly, Began, TypeOK
<1>5. CASE \E t \in Callers : TakeTurn(t)
    <2>1. txNext \in Nat /\ txNext' = txNext /\ Orderly(txNext)'
        BY <1>2, <1>3, <1>5, TakeTurnKeeps
    <2> QED
        BY <2>1
<1>6. CASE \E t \in Callers : SendStarts(t) \/ SendBlock(t) \/ SendOk(t) \/ SendClosed(t)
                              \/ SendTimesOut(t)
    BY <1>2, <1>3, <1>4, <1>6, SendStartsKeeps, SendBlockKeeps, SendEndsKeeps
<1>7. CASE \E b \in acks : AckArrives(b)
    BY <1>2, <1>3, <1>4, <1>7, AckArrivesKeeps
<1>8. CASE \E s \in nacks : NackArrives(s)
    <2>1. PICK s \in nacks : NackArrives(s)
        BY <1>8
    <2>2. s \in Nat
        BY <1>2 DEF Orderly, TypeOK
    <2>3. /\ Resend(s) /\ nacks' \subseteq nacks
          /\ UNCHANGED <<txVars, callVars, acks, rxVars, readVars, closeVars>>
        BY <2>1 DEF NackArrives, Arrives
    <2> QED
        BY <1>2, <1>3, <1>4, <2>2, <2>3, ResendKeeps
<1>9. CASE Rto
    <2>1. txBase \in Nat
        BY <1>2 DEF Orderly, TypeOK
    <2>2. /\ Resend(txBase) /\ nacks' \subseteq nacks
          /\ UNCHANGED <<txVars, callVars, acks, rxVars, readVars, closeVars>>
        BY <1>9 DEF Rto
    <2> QED
        BY <1>2, <1>3, <1>4, <2>1, <2>2, ResendKeeps
<1>10. CASE \E b \in data : DataArrives(b)
    BY <1>2, <1>3, <1>4, <1>10, DataArrivesKeeps
<1>11. CASE \/ \E s \in 0 .. txNext : SendNack(s)
            \/ RecvStarts \/ RecvTooSmall \/ RecvTimesOut \/ RecvClosing
            \/ Lose
    BY <1>2, <1>3, <1>4, <1>11, IdleStepsKeep
<1>12. CASE RecvReturns
    BY <1>2, <1>3, <1>4, <1>12, RecvReturnsKeeps
<1>13. CASE \E e \in Ends : Close(e) \/ StopPump(e) \/ Free(e) \/ ByeArrives(e)
    BY <1>2, <1>3, <1>4, <1>13, CloseKeeps
<1>14. CASE UNCHANGED vars
    <2>1. /\ UNCHANGED <<txVars, callVars, rxVars, received>> /\ data' = data /\ acks' = acks
          /\ nacks' = nacks /\ byes' = byes /\ reader' = reader /\ toldClosed' = toldClosed
          /\ peerClosed' = peerClosed /\ link' = link
        BY <1>14 DEF vars, netVars, readVars, closeVars
    <2>2. TypeOK
        BY <1>2 DEF Orderly
    <2>3. /\ nacks' \subseteq Nat /\ byes' \subseteq Ends /\ reader' \in {"idle", "waiting"}
          /\ toldClosed' \in BOOLEAN /\ peerClosed' \in [Ends -> BOOLEAN]
          /\ link' \in [Ends -> {"open", "closing", "stopped", "freed"}]
        BY <2>1, <2>2 DEF TypeOK
    <2> QED
        BY <1>2, <1>3, <1>4, <2>1, <2>3, QuietStep
<1> QED
    BY <1>5, <1>6, <1>7, <1>8, <1>9, <1>10, <1>11, <1>12, <1>13, <1>14 DEF Next

(* The invariant holds of every reachable state of a connection. *)
LEMMA SdkInvHolds == Spec => []SdkInv
    BY OrderlyInitially, OrderlyInductive, PTL DEF Spec

-----------------------------------------------------------------------------
(* The theorems. *)

(* Until a fuse_send gives up, what has arrived are the messages sent, whole,
   once each and in order, however the calls of any number of threads and the
   datagrams of consecutive messages mix (fuse_send and handle_data_locked). *)
THEOREM MessagesStayInOrder == Spec => []ArrivalsInOrder
<1>1. SdkInv => ArrivalsInOrder
    <2> SUFFICES ASSUME SdkInv, ~ gaveUp, NEW i \in DOMAIN Arrived
                 PROVE  i \in DOMAIN order /\ Arrived[i] = Whole(order[i])
        BY DEF ArrivalsInOrder
    <2>1. PICK first \in 0 .. txNext : Orderly(first)
        BY DEF SdkInv
    <2>2. Arrived \in Seq(Seq(Cell)) /\ order \in Seq(Messages)
        BY <2>1 DEF Orderly, TypeOK, Arrived
    <2>3. \A k \in 1 .. Len(Arrived) : k <= Len(order) /\ Arrived[k] = Whole(order[k])
        BY <2>1 DEF Orderly, InOrder
    <2>4. i \in 1 .. Len(Arrived) /\ i \in Nat /\ i >= 1 /\ Len(order) \in Nat
        BY <2>2
    <2>5. i <= Len(order) /\ Arrived[i] = Whole(order[i])
        BY <2>3, <2>4
    <2>6. DOMAIN order = 1 .. Len(order)
        BY <2>2
    <2> QED
        BY <2>4, <2>5, <2>6
<1> QED
    BY <1>1, SdkInvHolds, PTL

(* Until a fuse_send gives up, one that returned FUSE_OK has its whole message
   at the receiver (sdk.h:28 promises it without that condition). *)
THEOREM OkMessagesArrived == Spec => []OkHasArrivedUntilTimeout
<1>1. SdkInv => OkHasArrivedUntilTimeout
    BY DEF SdkInv, Orderly, OkHasArrivedUntilTimeout
<1> QED
    BY <1>1, SdkInvHolds, PTL

(* When fuse_recv reports the peer's close, every message whose fuse_send had
   returned FUSE_OK has been received: the CLOSE overtakes none of them. *)
THEOREM CloseComesLast == Spec => NothingLeftAtClose
<1>1. SdkInv /\ [Next]_vars =>
          [toldClosed' /\ ~ toldClosed /\ ~ gaveUp =>
              \A m \in ok : Whole(m) \in Range(received)]_vars
    <2> SUFFICES ASSUME SdkInv, [Next]_vars, toldClosed', ~ toldClosed, ~ gaveUp, NEW m \in ok
                 PROVE  Whole(m) \in Range(received)
        OBVIOUS
    <2>1. PICK first \in 0 .. txNext : Orderly(first)
        BY DEF SdkInv
    <2>2. toldClosed' # toldClosed
        BY Zenon
    <2>3. RecvReturns
        BY <2>2, Zenon
           DEF Next, vars, readVars, SendStarts, TakeTurn, SendBlock, SendOk, SendClosed,
               SendTimesOut, Leaves, AckArrives, NackArrives, Rto, DataArrives, SendNack,
               RecvStarts, RecvTooSmall, RecvTimesOut, RecvClosing, Close, StopPump, Free,
               ByeArrives, Lose
    <2>4. inbox = <<>>
        BY <2>2, <2>3, Zenon DEF RecvReturns
    <2>5. received \in Seq(Seq(Cell))
        BY <2>1 DEF Orderly, TypeOK
    <2>6. Arrived = received
        BY <2>4, <2>5 DEF Arrived
    <2> QED
        BY <2>1, <2>6 DEF Orderly, OkHasArrived
<1> QED
    BY <1>1, SdkInvHolds, PTL DEF Spec, NothingLeftAtClose

=============================================================================

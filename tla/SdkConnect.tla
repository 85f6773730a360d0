----------------------------- MODULE SdkConnect -----------------------------
(***************************************************************************)
(* How SDK connections come about (proto/sdk.cpp): calls of fuse_connect() *)
(* that send HELLO to the listen port until they are answered, and an      *)
(* application that calls fuse_accept(), which opens a connection with a   *)
(* socket of its own and answers HELLO-ACK from there.  Datagrams are      *)
(* lost, delayed and repeated.                                             *)
(*                                                                         *)
(* A call stands for its address and its challenge, which are new for each *)
(* call; a connection is its number, which stands for its socket and for   *)
(* the salt the server adds to the key.                                    *)
(***************************************************************************)
EXTENDS Integers, Sequences, Functions

CONSTANTS
    Calls,      \* calls of fuse_connect
    Key,        \* the pre-shared key of each call, or NoKey
    ServerKey,  \* that of the listener
    NoKey,
    Ring,       \* length of the ring of recent handshakes, 16 in the code
    MaxConns    \* bound: connections the server opens

VARIABLES
    pc,         \* where each call is
    hellos,     \* calls whose HELLO is in flight
    replies,    \* connections whose HELLO-ACK is in flight
    recent,     \* the ring of recent handshakes
    recentAt,   \* its next slot
    conns       \* the call each connection was opened for

vars == <<pc, hellos, replies, recent, recentAt, conns>>

Init ==
    /\ pc = [c \in Calls |-> "new"]
    /\ hellos = {} /\ replies = {}
    /\ recent = [i \in 0 .. Ring - 1 |-> {}] /\ recentAt = 0
    /\ conns = <<>>

(* An arrival leaves the network, or stays to arrive again. *)
Arrives(net, m, net1) == m \in net /\ (net1 = net \/ net1 = net \ {m})

-----------------------------------------------------------------------------
(* fuse_connect. *)

(* HELLO is sent at first and whenever no answer came in time. *)
SendHello(c) ==
    /\ pc[c] \in {"new", "waiting"}
    /\ pc' = [pc EXCEPT ![c] = "waiting"]
    /\ hellos' = hellos \cup {c}
    /\ UNCHANGED <<replies, recent, recentAt, conns>>

(* The proof opens under the key both sides derived; without a key it is not
   looked at. *)
Proved(c) == Key[c] \in {NoKey, ServerKey}

HelloAckArrives(i) ==
    LET c == conns[i]
    IN  /\ Arrives(replies, i, replies') /\ pc[c] = "waiting"
        /\ pc' = [pc EXCEPT ![c] = IF Proved(c) THEN "connected" ELSE "FUSE_ERR_AUTH"]
        /\ UNCHANGED <<hellos, recent, recentAt, conns>>

(* The deadline passes, or a HELLO cannot be sent. *)
ConnectGivesUp(c) ==
    /\ pc[c] \in {"new", "waiting"}
    /\ \E e \in {"FUSE_ERR_TIMEOUT", "FUSE_ERR_SOCKET"} : pc' = [pc EXCEPT ![c] = e]
    /\ UNCHANGED <<hellos, replies, recent, recentAt, conns>>

-----------------------------------------------------------------------------
(* fuse_accept, with the listener's ring of recent handshakes. *)

Duplicate(c) == \E i \in DOMAIN recent : c \in recent[i]

Remember(c) ==
    /\ recent' = [recent EXCEPT ![recentAt] = {c}]
    /\ recentAt' = (recentAt + 1) % Ring

(* A duplicate is dropped, without an answer. *)
DropDuplicate(c) ==
    /\ Arrives(hellos, c, hellos') /\ Duplicate(c)
    /\ UNCHANGED <<pc, replies, recent, recentAt, conns>>

Accept(c) ==
    /\ Arrives(hellos, c, hellos') /\ ~ Duplicate(c) /\ Len(conns) < MaxConns
    /\ Remember(c)
    /\ conns' = Append(conns, c)
    /\ replies' = replies \cup {Len(conns')}
    /\ UNCHANGED pc

(* No socket, no memory, no randomness: the handshake is remembered all the
   same. *)
AcceptFails(c) ==
    /\ Arrives(hellos, c, hellos') /\ ~ Duplicate(c)
    /\ Remember(c)
    /\ UNCHANGED <<pc, replies, conns>>

Lose ==
    /\ \/ \E c \in hellos : hellos' = hellos \ {c} /\ UNCHANGED replies
       \/ \E i \in replies : replies' = replies \ {i} /\ UNCHANGED hellos
    /\ UNCHANGED <<pc, recent, recentAt, conns>>

Next ==
    \/ \E c \in Calls :
          \/ SendHello(c) \/ ConnectGivesUp(c)
          \/ DropDuplicate(c) \/ Accept(c) \/ AcceptFails(c)
    \/ \E i \in replies : HelloAckArrives(i)
    \/ Lose

(* A HELLO that is sent again and again arrives in the end, and so would a
   HELLO-ACK; the call keeps sending, the application keeps accepting.  No
   call has to give up. *)
Fairness ==
    /\ \A c \in Calls :
          /\ WF_vars(pc[c] = "waiting" /\ SendHello(c))
          /\ SF_vars(DropDuplicate(c) \/ Accept(c))
    /\ \A i \in 1 .. MaxConns : SF_vars(i \in replies /\ HelloAckArrives(i))

Spec == Init /\ [][Next]_vars /\ Fairness

-----------------------------------------------------------------------------
(* A HELLO retry is answered again, "so the client stops retrying"
   (sdk.cpp:470): a call for which the server has a connection, and which
   keeps sending HELLO over a network that lets repeated datagrams through,
   is answered. *)
RetryIsAnswered ==
    \A c \in Calls : (pc[c] = "waiting" /\ c \in Range(conns)) ~> (pc[c] # "waiting")
=============================================================================

--------------------------- MODULE PathValidation ---------------------------
(***************************************************************************)
(* How one end of a lane follows a peer whose address changes under it (a  *)
(* NAT rebinding): class PathValidator of proto/transfer.cpp and the places*)
(* in send_lane and recv_lane that use it, which are the same on both      *)
(* sides.  The network loses and reorders datagrams; a datagram sent to an *)
(* address the peer has left goes nowhere.  A random challenge is a value  *)
(* no earlier challenge had.                                               *)
(***************************************************************************)
EXTENDS Integers

CONSTANTS
    Addresses,     \* where the peer may be seen
    MaxMoves,      \* how often its address changes
    MaxChallenges  \* challenges drawn (above what MaxMoves can cause)

VARIABLES
    \* the peer
    real,       \* its address now
    moves,
    \* this end
    peer,       \* peer, dst: where this end sends
    active, candidate, challenge,  \* the validator's fields
    probed,     \* sent_ns_ lies within the last 50 ms
    drawn,      \* challenges drawn so far
    \* the network
    traffic,    \* sources of session traffic in flight
    challenges, \* PathChallenge datagrams in flight
    responses,  \* PathResponse datagrams in flight
    \* history: where the peer has been since the latest challenge was drawn
    present

validatorVars == <<active, candidate, challenge, probed, drawn, present>>
pathNetwork == <<traffic, challenges, responses>>
pathVars == <<real, moves, peer, validatorVars, pathNetwork>>

PathInit ==
    /\ real = (CHOOSE a \in Addresses : TRUE) /\ peer = real /\ moves = 0
    /\ active = FALSE /\ candidate = real /\ challenge = 0
    /\ probed = FALSE /\ drawn = 0 /\ present = {}
    /\ traffic = {} /\ challenges = {} /\ responses = {}

-----------------------------------------------------------------------------
(* The peer. *)

Rebind(a) ==
    /\ moves < MaxMoves
    /\ a # real
    /\ real' = a /\ moves' = moves + 1
    /\ present' = present \cup {a}
    /\ UNCHANGED <<peer, active, candidate, challenge, probed, drawn, pathNetwork>>

(* It keeps talking: DATA, ACKs, a StreamStart sent again. *)
Talk ==
    /\ traffic' = traffic \cup {real}
    /\ UNCHANGED <<real, moves, peer, validatorVars, challenges, responses>>

(* A challenge is answered to where it came from, with the same value. *)
AnswerChallenge(c) ==
    /\ c \in challenges /\ c.to = real
    /\ challenges' = challenges \ {c}
    /\ responses' = responses \cup {[src |-> real, value |-> c.value]}
    /\ UNCHANGED <<real, moves, peer, validatorVars, traffic>>

-----------------------------------------------------------------------------
(* This end. *)

(* Wrong variant: one challenge serves every candidate. *)
WantProbeSameChallenge(src) ==
    LET known == active /\ candidate = src
    IN  /\ active' = TRUE /\ candidate' = src
        /\ drawn' = IF drawn = 0 THEN 1 ELSE drawn
        /\ challenge' = drawn'
        /\ present' = IF known THEN present ELSE {real}
        /\ challenges' = IF known /\ probed THEN challenges
                         ELSE challenges \cup {[to |-> src, value |-> challenge']}
        /\ probed' = TRUE

(* Wrong variant: the 50 ms limit is not lifted for a new candidate, and
   nothing is sent to it later either. *)
WantProbeOnce(src) ==
    LET known == active /\ candidate = src
    IN  /\ active' = TRUE /\ candidate' = src
        /\ drawn' = IF known THEN drawn ELSE drawn + 1
        /\ challenge' = IF known THEN challenge ELSE drawn'
        /\ present' = IF known THEN present ELSE {real}
        /\ challenges' = IF known \/ probed THEN challenges
                         ELSE challenges \cup {[to |-> src, value |-> challenge']}
        /\ probed' = TRUE

(* want_probe(): a source that is not the candidate becomes it, with a fresh
   challenge sent at once; the candidate's own is repeated every 50 ms. *)
WantProbe(src) ==
    LET known == active /\ candidate = src
    IN  /\ active' = TRUE /\ candidate' = src
        /\ drawn' = IF known THEN drawn ELSE drawn + 1
        /\ challenge' = IF known THEN challenge ELSE drawn'
        /\ present' = IF known THEN present ELSE {real}
        /\ challenges' = IF known /\ probed THEN challenges
                         ELSE challenges \cup {[to |-> src, value |-> challenge']}
        /\ probed' = TRUE

(* Session traffic is acted on wherever it comes from; a source other than
   the peer's address is challenged, not followed. *)
TrafficArrives(src) ==
    /\ src \in traffic
    /\ traffic' = traffic \ {src}
    /\ IF src = peer THEN UNCHANGED <<validatorVars, challenges>>
       ELSE drawn < MaxChallenges /\ WantProbe(src)
    /\ UNCHANGED <<real, moves, peer, responses>>

ProbeTimer ==
    /\ probed
    /\ probed' = FALSE
    /\ UNCHANGED <<real, moves, peer, active, candidate, challenge, drawn, present, pathNetwork>>

(* validated(): only the candidate's answer to the challenge now out. *)
ResponseArrives(r) ==
    /\ r \in responses
    /\ responses' = responses \ {r}
    /\ IF active /\ r.src = candidate /\ r.value = challenge
       THEN active' = FALSE /\ peer' = r.src
       ELSE UNCHANGED <<active, peer>>
    /\ UNCHANGED <<real, moves, candidate, challenge, probed, drawn, present, traffic, challenges>>

PathLose ==
    /\ \/ \E s \in traffic : traffic' = traffic \ {s} /\ UNCHANGED <<challenges, responses>>
       \/ \E c \in challenges : challenges' = challenges \ {c} /\ UNCHANGED <<traffic, responses>>
       \/ \E r \in responses : responses' = responses \ {r} /\ UNCHANGED <<traffic, challenges>>
    /\ UNCHANGED <<real, moves, peer, validatorVars>>

PathNext ==
    \/ \E a \in Addresses : Rebind(a) \/ TrafficArrives(a)
    \/ Talk
    \/ \E c \in challenges : AnswerChallenge(c)
    \/ ProbeTimer
    \/ \E r \in responses : ResponseArrives(r)
    \/ PathLose

(* The peer keeps talking, time passes, and a datagram sent again and again
   gets through in the end. *)
PathFairness ==
    /\ WF_pathVars(Talk)
    /\ WF_pathVars(ProbeTimer)
    /\ \A a \in Addresses : SF_pathVars(TrafficArrives(a))
    /\ SF_pathVars(\E c \in challenges : c.value = challenge /\ AnswerChallenge(c))
    /\ SF_pathVars(\E r \in responses : r.value = challenge /\ ResponseArrives(r))

PathSpec == PathInit /\ [][PathNext]_pathVars /\ PathFairness

-----------------------------------------------------------------------------
(* An address is adopted only if the peer was there after this end drew the
   challenge it is waiting on: a late answer to an earlier challenge never
   sends the lane back to an address the peer may have left long ago, in
   whatever order sources alternate (transfer.cpp:150-182). *)
AdoptedWasThere == [][peer' # peer => peer' \in present]_pathVars

(* Once the peer stops moving this end finds it, whatever was lost and
   however late traffic of earlier addresses takes the one candidate slot
   (a lane whose peer is never adopted times out). *)
PeerIsFound == <>[](peer = real)
=============================================================================

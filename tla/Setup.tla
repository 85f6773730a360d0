-------------------------------- MODULE Setup -------------------------------
(***************************************************************************)
(* The SETUP handshake (proto/setup.cpp) as the multiplexed transfer runs  *)
(* it (run_setup_handshake on both sides, proto/mux_transfer.cpp): DATA    *)
(* offers a configuration, HASH-REPLY returns the hash of what arrived     *)
(* with a fresh nonce, FINACK echoes both.  The network loses, repeats and *)
(* reorders datagrams: one that was sent may arrive at any time, any       *)
(* number of times, or never.  Datagrams of an earlier handshake are in it *)
(* from the start.                                                         *)
(*                                                                         *)
(* The hash of a configuration is the configuration itself.  A nonce is a  *)
(* number, fresh when it is larger than all before.                        *)
(***************************************************************************)
EXTENDS Integers, FiniteSets

CONSTANTS
    MaxRetries,  \* kDefaultSetupMaxRetries
    MaxNonce     \* bound: nonces the responder draws

ASSUME SetupAssumption == MaxRetries \in Nat /\ MaxNonce \in Nat \ {0}

VARIABLES
    ini,        \* SetupInitiator
    res,        \* SetupResponder
    setupNet,   \* SETUP datagrams sent so far
    alike,      \* both ends run the same protocol version
    sstat,      \* where MuxSender::run is: "setup", then as in Mux
    rstat       \* where MuxReceiver::run is

setupVars == <<ini, res, setupNet, alike, sstat, rstat>>

(* This transfer's configuration, one of an earlier transfer, and one that
   setup_payload_valid refuses. *)
Configs == {"mine", "older", "unusable"}
Valid(c) == c # "unusable"

Data(c) == [type |-> "data", cfg |-> c]
Reply(c, n) == [type |-> "reply", hash |-> c, nonce |-> n]
FinAck(c, n) == [type |-> "finack", hash |-> c, nonce |-> n]
Foreign == [type |-> "foreign"]      \* DATA of another protocol version
Mismatch == [type |-> "mismatch"]    \* the answer to it

OldNonce == 0
Leftovers ==
    {Data("older"), Data("unusable"), FinAck("older", OldNonce), FinAck("mine", OldNonce)}

SetupInit ==
    /\ alike \in BOOLEAN
    /\ ini = [matched |-> FALSE, failed |-> FALSE, retries |-> 0]
    /\ res = [config |-> "none", nonce |-> OldNonce, complete |-> FALSE, failed |-> FALSE,
              retries |-> 0]
    /\ setupNet = Leftovers \cup {IF alike THEN Data("mine") ELSE Foreign}
    /\ sstat = "setup" /\ rstat = "setup"

-----------------------------------------------------------------------------
(* SetupInitiator. *)

(* A HASH-REPLY with our hash, be it a repeated one in the data phase, is
   confirmed; the first one ends the handshake. *)
InitiatorReplies(m) ==
    /\ sstat \in {"setup", "running", "draining"}
    /\ m \in setupNet /\ m.type = "reply" /\ m.hash = "mine"
    /\ ini' = [ini EXCEPT !.matched = TRUE]
    /\ setupNet' = setupNet \cup {FinAck("mine", m.nonce)}
    /\ sstat' = IF sstat = "setup" THEN "running" ELSE sstat
    /\ UNCHANGED <<res, alike, rstat>>

(* on_timeout() sends DATA again, which changes nothing in the network, or
   gives up. *)
InitiatorTimesOut ==
    /\ sstat = "setup"
    /\ IF ini.retries >= MaxRetries
       THEN ini' = [ini EXCEPT !.failed = TRUE] /\ sstat' = "Timeout"
       ELSE ini' = [ini EXCEPT !.retries = @ + 1] /\ UNCHANGED sstat
    /\ UNCHANGED <<res, setupNet, alike, rstat>>

ToldMismatch ==
    /\ sstat = "setup" /\ Mismatch \in setupNet
    /\ sstat' = "VersionMismatch"
    /\ UNCHANGED <<ini, res, setupNet, alike, rstat>>

-----------------------------------------------------------------------------
(* SetupResponder. *)

(* DATA is answered with its hash; another configuration gets a new nonce, a
   repeated one the same. *)
ResponderReplies(m) ==
    /\ rstat = "setup"
    /\ m \in setupNet /\ m.type = "data" /\ Valid(m.cfg)
    /\ LET n == IF res.config = m.cfg THEN res.nonce ELSE res.nonce + 1
       IN  /\ n <= MaxNonce
           /\ res' = [res EXCEPT !.config = m.cfg, !.nonce = n]
           /\ setupNet' = setupNet \cup {Reply(m.cfg, n)}
    /\ UNCHANGED <<ini, alike, sstat, rstat>>

(* Wrong variant: the FINACK need not echo the nonce. *)
ResponderCompletesAnyNonce(m) ==
    /\ rstat = "setup"
    /\ m \in setupNet /\ m.type = "finack"
    /\ res.config # "none" /\ m.hash = res.config
    /\ res' = [res EXCEPT !.complete = TRUE]
    /\ rstat' = "running"
    /\ UNCHANGED <<ini, setupNet, alike, sstat>>

(* A FINACK for the reply that stands completes the handshake. *)
ResponderCompletes(m) ==
    /\ rstat = "setup"
    /\ m \in setupNet /\ m.type = "finack"
    /\ res.config # "none" /\ m.hash = res.config /\ m.nonce = res.nonce
    /\ res' = [res EXCEPT !.complete = TRUE]
    /\ rstat' = "running"
    /\ UNCHANGED <<ini, setupNet, alike, sstat>>

ResponderTimesOut ==
    /\ rstat = "setup" /\ res.config # "none"
    /\ IF res.retries >= MaxRetries
       THEN res' = [res EXCEPT !.failed = TRUE] /\ rstat' = "Timeout"
       ELSE res' = [res EXCEPT !.retries = @ + 1] /\ UNCHANGED rstat
    /\ UNCHANGED <<ini, setupNet, alike, sstat>>

TellMismatch ==
    /\ rstat = "setup" /\ Foreign \in setupNet
    /\ setupNet' = setupNet \cup {Mismatch}
    /\ UNCHANGED <<ini, res, alike, sstat, rstat>>

(* The deadline of either handshake loop passes. *)
SetupDeadline ==
    /\ \/ sstat = "setup" /\ sstat' = "Timeout" /\ UNCHANGED rstat
       \/ rstat = "setup" /\ rstat' = "Timeout" /\ UNCHANGED sstat
    /\ UNCHANGED <<ini, res, setupNet, alike>>

SetupNext ==
    \/ \E m \in setupNet : InitiatorReplies(m) \/ ResponderReplies(m) \/ ResponderCompletes(m)
    \/ InitiatorTimesOut \/ ToldMismatch \/ ResponderTimesOut \/ TellMismatch \/ SetupDeadline

-----------------------------------------------------------------------------
SetupTypeOK ==
    /\ ini \in [matched : BOOLEAN, failed : BOOLEAN, retries : 0 .. MaxRetries]
    /\ res \in [config : Configs \cup {"none"}, nonce : 0 .. MaxNonce, complete : BOOLEAN,
                failed : BOOLEAN, retries : 0 .. MaxRetries]
    /\ alike \in BOOLEAN

(* A completed handshake is one that this initiator took part in, on the
   configuration it offers: no replay of an earlier DATA and FINACK completes
   it (setup.hpp:22), in whatever order the two handshakes' datagrams come. *)
AgreedWithInitiator == res.complete => ini.matched /\ res.config = "mine" /\ alike
=============================================================================

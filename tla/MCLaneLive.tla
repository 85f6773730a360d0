----------------------------- MODULE MCLaneLive -----------------------------
(* What has to end or settle, side by side: a lane under its fairness, the
   worker pool of a multiplexed transfer, the validation of a peer's new
   address, and a ring between two threads.  They share nothing: a behaviour
   is a behaviour of one of them, and the others rest. *)
EXTENDS Lane, WorkerPool, PathValidation, SpscRing

VARIABLE inUse  \* the machine that runs

liveVars == <<inUse, vars, poolVars, pathVars, ringVars>>

LiveInit ==
    /\ inUse \in {"lane", "pool", "path", "ring"}
    /\ Init
    /\ PoolInit
    /\ PathInit
    /\ RingInit

LiveNext ==
    \/ inUse = "lane" /\ Next /\ UNCHANGED <<inUse, poolVars, pathVars, ringVars>>
    \/ inUse = "pool" /\ PoolNext /\ UNCHANGED <<inUse, vars, pathVars, ringVars>>
    \/ inUse = "path" /\ PathNext /\ UNCHANGED <<inUse, vars, poolVars, ringVars>>
    \/ inUse = "ring" /\ RingNext /\ UNCHANGED <<inUse, vars, poolVars, pathVars>>

-----------------------------------------------------------------------------
(* The fairness of each machine (Fairness, PoolFairness, PathFairness,
   RingFairness), while
   it is the one in use. *)

LaneGoesOn ==
    /\ WF_vars(inUse = "lane" /\ SendBlock /\ nextSeq - acked < MinInFlight)
    /\ WF_vars(inUse = "lane" /\ Rto)
    /\ WF_vars(inUse = "lane" /\ Finish)
    /\ \A b \in {[seq |-> s, last |-> s = Blocks - 1] : s \in Seqs} :
          /\ SF_vars(inUse = "lane" /\ DataArrives(b))
          /\ WF_vars(inUse = "lane" /\ Write(b))
          /\ WF_vars(inUse = "lane" /\ Collect(b))
    /\ WF_vars(inUse = "lane" /\ heard /\ SendAck)
    /\ SF_vars(inUse = "lane" /\ \E a \in acks : AckArrives(a) /\ SenderView' # SenderView)
    /\ WF_vars(inUse = "lane" /\ Leave)

PoolGoesOn ==
    /\ \A w \in Workers :
          /\ WF_poolVars(inUse = "pool" /\ WorkerLoop(w))
          /\ WF_poolVars(inUse = "pool" /\ TaskEnds(w))
    /\ WF_poolVars(inUse = "pool" /\ TickerLoop)
    /\ WF_poolVars(inUse = "pool" /\ JoinRetired)
    /\ WF_poolVars(inUse = "pool" /\ (TickIdle \/ ScaleOut \/ ScaleIn))
    /\ WF_poolVars(inUse = "pool" /\ LeavePoll)
    /\ WF_poolVars(inUse = "pool" /\ JoinTicker)
    /\ WF_poolVars(inUse = "pool" /\ StopPool)
    /\ WF_poolVars(inUse = "pool" /\ JoinWorkers)

PathGoesOn ==
    /\ WF_pathVars(inUse = "path" /\ Talk)
    /\ WF_pathVars(inUse = "path" /\ ProbeTimer)
    /\ \A a \in Addresses : SF_pathVars(inUse = "path" /\ TrafficArrives(a))
    /\ SF_pathVars(inUse = "path" /\
                     \E c \in challenges : c.value = challenge /\ AnswerChallenge(c))
    /\ SF_pathVars(inUse = "path" /\
                     \E r \in responses : r.value = challenge /\ ResponseArrives(r))

RingGoesOn ==
    /\ WF_ringVars(inUse = "ring" /\ Writable)
    /\ WF_ringVars(inUse = "ring" /\ Readable)
    /\ WF_ringVars(inUse = "ring" /\ ReadSlot)
    /\ WF_ringVars(inUse = "ring" /\ Consume)

LiveSpec ==
    /\ LiveInit /\ [][LiveNext]_liveVars
    /\ LaneGoesOn /\ PoolGoesOn /\ PathGoesOn /\ RingGoesOn

-----------------------------------------------------------------------------
(* LaneCompletes, of a lane in use: both ends of send_lane and recv_lane leave
   with everything transferred, whatever the network lost on the way. *)
LaneInUseCompletes == inUse = "lane" => LaneCompletes

(* PoolStops, of a pool in use: run() of a multiplexed transfer reaches its
   single-threaded tail (mux_transfer.cpp, MuxSender::run, MuxReceiver::run). *)
PoolInUseStops == inUse = "pool" => PoolStops

(* PeerIsFound, of a lane in use whose peer moves (class PathValidator of
   transfer.cpp): this end follows it once it stays where it is. *)
PeerInUseIsFound == inUse = "path" => PeerIsFound

(* RingFlows, of a ring in use (writable(), readable() of spsc_ring.hpp). *)
RingInUseFlows == inUse = "ring" => RingFlows
=============================================================================

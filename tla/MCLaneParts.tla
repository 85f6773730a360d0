----------------------------- MODULE MCLaneParts -----------------------------
(* The machines a transfer is made of, side by side: the receive window, the
   ring between threads, the reader and writers of a receiving lane,
   reassembly, the send plan, the block size, congestion control and the
   codecs.  They share nothing: a behaviour is a behaviour of
   one of them, and the others rest.

   The window is a ring of two two-bit words, all of it window, as the lanes
   of a bulk transfer use it (kWindow = kMaxWindow, transfer.cpp:39), over
   enough sequence numbers for two laps; the SPSC ring has four slots and
   counters that wrap every two laps; the pipeline has one writer and the
   retransmission thread, on blocks for more than a lap of the dispatch marks;
   reassembly laps its ring twice; a file
   of up to seven bytes is cut for up to three lanes; the sizes have room for
   two halvings and the congestion window for one. *)
EXTENDS ReceiverWindow, SpscRing, RxPipeline, Reassembly, SendPlan, BlockSize, Congestion, Wire

VARIABLE inUse  \* the machine that runs

MCSeqNos == 0 .. 10
MCReorderDelays == {1}
MCRenackIntervals == {1, 2}
MCSeqs == 0 .. 3

partsVars == <<inUse, vars, ringVars, pipeVars, reasmVars, planVars, sizeVars, ccVars, wireVars>>

(* A machine at rest has one initial state. *)
PartsInit ==
    /\ inUse \in {"window", "ring", "pipeline", "reassembly", "plan", "size", "congestion", "codec"}
    /\ Init
    /\ RingInit
    /\ PipeInit
    /\ ReasmInit
    /\ PlanInit
    /\ SizeInit
    /\ CcInit
    /\ WireInit
    /\ inUse # "ring" => slots = [i \in 0 .. Cap - 1 |-> CHOOSE v \in Values : TRUE]
    /\ inUse # "reassembly" => ordered
    /\ inUse # "plan" => file = 0 /\ lanes = 1 /\ ~ adopted
    /\ inUse # "codec" => from = to /\ from = CHOOSE v \in ProtocolVersions : TRUE

PartsNext ==
    \/ /\ inUse = "window" /\ Next
       /\ UNCHANGED <<inUse, ringVars, pipeVars, reasmVars, planVars, sizeVars, ccVars, wireVars>>
    \/ /\ inUse = "ring" /\ RingNext
       /\ UNCHANGED <<inUse, vars, pipeVars, reasmVars, planVars, sizeVars, ccVars, wireVars>>
    \/ /\ inUse = "pipeline" /\ PipeNext
       /\ UNCHANGED <<inUse, vars, ringVars, reasmVars, planVars, sizeVars, ccVars, wireVars>>
    \/ /\ inUse = "reassembly" /\ ReasmNext
       /\ UNCHANGED <<inUse, vars, ringVars, pipeVars, planVars, sizeVars, ccVars, wireVars>>
    \/ /\ inUse = "plan" /\ PlanNext
       /\ UNCHANGED <<inUse, vars, ringVars, pipeVars, reasmVars, sizeVars, ccVars, wireVars>>
    \/ /\ inUse = "size" /\ SizeNext
       /\ UNCHANGED <<inUse, vars, ringVars, pipeVars, reasmVars, planVars, ccVars, wireVars>>
    \/ /\ inUse = "congestion" /\ CcNext
       /\ UNCHANGED <<inUse, vars, ringVars, pipeVars, reasmVars, planVars, sizeVars, wireVars>>
    \/ /\ inUse = "codec" /\ WireNext
       /\ UNCHANGED <<inUse, vars, ringVars, pipeVars, reasmVars, planVars, sizeVars, ccVars>>

(* The fairness of the pipeline (PipeFairness), while it is the one in use. *)
PipelineGoesOn ==
    /\ WF_pipeVars(inUse = "pipeline" /\ GiveUp)
    /\ \A c \in Channels :
          /\ WF_pipeVars(inUse = "pipeline" /\ \E n \in 1 .. RingSlots + RtxSlots : Collect(c, n))
          /\ WF_pipeVars(inUse = "pipeline" /\ ConsumerStep(c))

PartsSpec == PartsInit /\ [][PartsNext]_partsVars /\ PipelineGoesOn

-----------------------------------------------------------------------------
(* EveryBlockReported, of a pipeline in use (drain_channel, drain_results of
   transfer.cpp): no block stays with the writers. *)
BlocksInUseReported == inUse = "pipeline" => EveryBlockReported
=============================================================================

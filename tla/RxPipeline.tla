----------------------------- MODULE RxPipeline -----------------------------
(***************************************************************************)
(* The receiving side of one lane as threads (proto/transfer.cpp): the     *)
(* reader (recv_lane) hands each new block to one of several consumers over *)
(* a ring, a consumer (drain_channel) takes a batch, writes it run by run  *)
(* and reports every block on a ring back, and the reader alone lets       *)
(* written blocks into the window.  A ring is the bounded FIFO queue that  *)
(* SpscRing implements.                                                    *)
(*                                                                         *)
(* Any block may arrive at any time, again, late or corrupted.  Every block *)
(* carries bytes that lie inside the lane.                                 *)
(***************************************************************************)
EXTENDS Integers, Sequences, FiniteSets, Functions

CONSTANTS
    Seqs,        \* sequence numbers that arrive: 0 .. n
    KWindow,     \* kWindow: receive window, and dispatch marks
    Writers,     \* writer threads
    RouteRun,    \* kRouteRun: consecutive blocks that go to one writer
    RingSlots,   \* slots of a writer's rings
    RtxSlots,    \* slots of the retransmission rings
    WriteBatch,  \* kWriteBatch
    Corruption,  \* whether blocks may fail authentication
    DiskFails    \* whether a write may fail

ASSUME PipelineAssumption ==
    /\ Seqs \subseteq Nat
    /\ {KWindow, Writers, RouteRun, RingSlots, RtxSlots, WriteBatch} \subseteq Nat \ {0}
    /\ {Corruption, DiskFails} \subseteq BOOLEAN

VARIABLES
    \* the reader
    rbase, got,  \* the receive window (AckWindow)
    mark,        \* dispatched[]
    pending,
    reading,     \* the reader's loop is running
    \* shared
    inRing,      \* per channel, blocks on their way to the consumer
    done,        \* per channel, verdicts on their way back
    writeFailed, \* io_failed
    \* the consumers
    verdicts,    \* per channel, verdicts of the batch being processed so far
    batch,       \* per channel, size of the batch being processed
    stage,       \* per channel: "idle", "writing" or "reported"
    writes       \* per sequence number, how often it was written

readerVars == <<rbase, got, mark, pending, reading>>
consumerVars == <<verdicts, batch, stage, writes, writeFailed>>
pipeVars == <<readerVars, consumerVars, inRing, done>>

Retransmissions == Writers
Channels == 0 .. Writers
Capacity(c) == IF c = Retransmissions THEN RtxSlots ELSE RingSlots
NoSeq == -1

PipeInit ==
    /\ rbase = 0 /\ got = {} /\ pending = 0 /\ reading = TRUE
    /\ mark = [i \in 0 .. KWindow - 1 |-> NoSeq]
    /\ inRing = [c \in Channels |-> <<>>]
    /\ done = [c \in Channels |-> <<>>]
    /\ writeFailed = FALSE
    /\ verdicts = [c \in Channels |-> <<>>]
    /\ batch = [c \in Channels |-> 0]
    /\ stage = [c \in Channels |-> "idle"]
    /\ writes = [s \in Seqs |-> 0]

-----------------------------------------------------------------------------
(* The reader. *)

(* The ring a block is routed to. *)
Route(s, rtx) == IF rtx THEN Retransmissions ELSE (s \div RouteRun) % Writers

(* A DATA datagram: dropped if its block is behind the window, beyond it,
   accepted, with a consumer already, or if the consumer is behind. *)
Dispatch(s, rtx, authentic) ==
    LET c == Route(s, rtx)
    IN  /\ reading
        /\ s >= rbase /\ s - rbase < KWindow /\ s \notin got
        /\ mark[s % KWindow] # s
        /\ Len(inRing[c]) < Capacity(c)
        /\ inRing' = [inRing EXCEPT ![c] = Append(@, [seq |-> s, authentic |-> authentic])]
        /\ mark' = [mark EXCEPT ![s % KWindow] = s]
        /\ pending' = pending + 1
        /\ UNCHANGED <<rbase, got, reading, done, consumerVars>>

(* on_receive() of every block of S, in any order. *)
AcceptAll(S) ==
    /\ got' = got \cup S
    /\ \E n \in rbase .. rbase + KWindow :
          n \notin got' /\ rbase .. n - 1 \subseteq got' /\ rbase' = n

(* Wrong variants: only an accepted block loses its mark, and every block
   reported is accepted. *)
CollectKeepingMarks(c, n) ==
    LET written == {v \in Range(SubSeq(done[c], 1, n)) : v.result = "written"}
    IN  /\ reading
        /\ n \in 1 .. Len(done[c])
        /\ done' = [done EXCEPT ![c] = SubSeq(@, n + 1, Len(@))]
        /\ pending' = pending - n
        /\ mark' = [i \in 0 .. KWindow - 1 |->
                       IF \E v \in written : v.seq = mark[i] THEN NoSeq ELSE mark[i]]
        /\ AcceptAll({v.seq : v \in written})
        /\ UNCHANGED <<reading, inRing, consumerVars>>

CollectUnchecked(c, n) ==
    LET taken == Range(SubSeq(done[c], 1, n))
    IN  /\ reading
        /\ n \in 1 .. Len(done[c])
        /\ done' = [done EXCEPT ![c] = SubSeq(@, n + 1, Len(@))]
        /\ pending' = pending - n
        /\ mark' = [i \in 0 .. KWindow - 1 |->
                       IF \E v \in taken : v.seq = mark[i] THEN NoSeq ELSE mark[i]]
        /\ AcceptAll({v.seq : v \in taken})
        /\ UNCHANGED <<reading, inRing, consumerVars>>

(* drain_results(): the verdicts the reader sees in a channel, oldest first
   (readable() may not see the newest yet). *)
Collect(c, n) ==
    LET taken == Range(SubSeq(done[c], 1, n))
    IN  /\ reading
        /\ n \in 1 .. Len(done[c])
        /\ done' = [done EXCEPT ![c] = SubSeq(@, n + 1, Len(@))]
        /\ pending' = pending - n
        /\ mark' = [i \in 0 .. KWindow - 1 |->
                       IF \E v \in taken : v.seq = mark[i] THEN NoSeq ELSE mark[i]]
        /\ AcceptAll({v.seq : v \in {u \in taken : u.result = "written"}})
        /\ UNCHANGED <<reading, inRing, consumerVars>>

(* The loop ends as soon as it sees a failed write. *)
GiveUp ==
    /\ reading /\ writeFailed
    /\ reading' = FALSE
    /\ UNCHANGED <<rbase, got, mark, pending, inRing, done, consumerVars>>

-----------------------------------------------------------------------------
(* A consumer and one of its channels. *)

(* Wrong variants: no room is kept for the verdicts, and a consumer waits for
   a full batch. *)
TakeBatchUnbounded(c, n) ==
    /\ stage[c] = "idle"
    /\ n \in 1 .. WriteBatch /\ n <= Len(inRing[c])
    /\ batch' = [batch EXCEPT ![c] = n]
    /\ stage' = [stage EXCEPT ![c] = "writing"]
    /\ UNCHANGED <<readerVars, inRing, done, verdicts, writes, writeFailed>>
TakeBatchFull(c, n) ==
    /\ stage[c] = "idle"
    /\ n = WriteBatch
    /\ n <= Len(inRing[c]) /\ n <= Capacity(c) - Len(done[c])
    /\ batch' = [batch EXCEPT ![c] = n]
    /\ stage' = [stage EXCEPT ![c] = "writing"]
    /\ UNCHANGED <<readerVars, inRing, done, verdicts, writes, writeFailed>>

(* Never more blocks than there is room to report on. *)
TakeBatch(c, n) ==
    /\ stage[c] = "idle"
    /\ n \in 1 .. WriteBatch
    /\ n <= Len(inRing[c]) /\ n <= Capacity(c) - Len(done[c])
    /\ batch' = [batch EXCEPT ![c] = n]
    /\ stage' = [stage EXCEPT ![c] = "writing"]
    /\ UNCHANGED <<readerVars, inRing, done, verdicts, writes, writeFailed>>

(* Blocks i to j of the batch are the ones one pwritev covers: authentic and
   adjacent in the output, as many as there are. *)
Adjacent(c, i, k) == inRing[c][k].authentic /\ inRing[c][k].seq = inRing[c][i].seq + (k - i)

Run(c, i, j) ==
    /\ \A k \in i .. j : Adjacent(c, i, k)
    /\ j < batch[c] => ~ Adjacent(c, i, j + 1)

Report(c, i, j, result) ==
    verdicts' = [verdicts EXCEPT ![c] =
                    @ \o [k \in 1 .. j - i + 1 |->
                             [seq |-> inRing[c][i + k - 1].seq, result |-> result]]]

(* The next block fails authentication, or the next run is written, or its
   write fails. *)
WriteRun(c) ==
    LET i == Len(verdicts[c]) + 1
    IN  /\ stage[c] = "writing"
        /\ i <= batch[c]
        /\ \/ /\ ~ inRing[c][i].authentic
              /\ Report(c, i, i, "auth_failed")
              /\ UNCHANGED <<writes, writeFailed>>
           \/ \E j \in i .. batch[c] :
                 /\ Run(c, i, j)
                 /\ Report(c, i, j, "written")
                 /\ writes' = [s \in Seqs |->
                        IF \E k \in i .. j : inRing[c][k].seq = s
                        THEN writes[s] + 1 ELSE writes[s]]
                 /\ UNCHANGED writeFailed
           \/ \E j \in i .. batch[c] :
                 /\ DiskFails
                 /\ Run(c, i, j)
                 /\ Report(c, i, j, "io_failed")
                 /\ writeFailed' = TRUE
                 /\ UNCHANGED writes
        /\ UNCHANGED <<readerVars, inRing, done, batch, stage>>

(* The verdicts go to the reader first, *)
CommitBatch(c) ==
    /\ stage[c] = "writing"
    /\ Len(verdicts[c]) = batch[c]
    /\ done' = [done EXCEPT ![c] = @ \o verdicts[c]]
    /\ verdicts' = [verdicts EXCEPT ![c] = <<>>]
    /\ stage' = [stage EXCEPT ![c] = "reported"]
    /\ UNCHANGED <<readerVars, inRing, batch, writes, writeFailed>>

(* and then the slots back to it. *)
ConsumeBatch(c) ==
    /\ stage[c] = "reported"
    /\ inRing' = [inRing EXCEPT ![c] = SubSeq(@, batch[c] + 1, Len(@))]
    /\ batch' = [batch EXCEPT ![c] = 0]
    /\ stage' = [stage EXCEPT ![c] = "idle"]
    /\ UNCHANGED <<readerVars, done, verdicts, writes, writeFailed>>

ConsumerStep(c) == (\E n \in 1 .. WriteBatch : TakeBatch(c, n)) \/ WriteRun(c) \/ CommitBatch(c) \/ ConsumeBatch(c)

PipeNext ==
    \/ \E s \in Seqs, rtx \in BOOLEAN, authentic \in {TRUE, ~ Corruption} :
          Dispatch(s, rtx, authentic)
    \/ \E c \in Channels, n \in 1 .. RingSlots + RtxSlots : Collect(c, n)
    \/ GiveUp
    \/ \E c \in Channels, n \in 1 .. WriteBatch : TakeBatch(c, n)
    \/ \E c \in Channels : WriteRun(c)
    \/ \E c \in Channels : CommitBatch(c)
    \/ \E c \in Channels : ConsumeBatch(c)

(* Both kinds of thread keep running. *)
PipeFairness ==
    /\ WF_pipeVars(GiveUp)
    /\ \A c \in Channels :
          /\ WF_pipeVars(\E n \in 1 .. RingSlots + RtxSlots : Collect(c, n))
          /\ WF_pipeVars(ConsumerStep(c))

PipeSpec == PipeInit /\ [][PipeNext]_pipeVars /\ PipeFairness

-----------------------------------------------------------------------------
(* Blocks on the way to a consumer, not reported yet, and verdicts on the way
   back. *)
Unreported(c) == IF stage[c] = "reported" THEN SubSeq(inRing[c], batch[c] + 1, Len(inRing[c]))
                 ELSE inRing[c]
InFlight(s) == \E c \in Channels : \E b \in Range(Unreported(c)) \cup Range(done[c]) : b.seq = s

PipeTypeOK ==
    /\ rbase \in Nat /\ got \subseteq Seqs /\ pending \in Nat
    /\ mark \in [0 .. KWindow - 1 -> Seqs \cup {NoSeq}]
    /\ \A c \in Channels :
          /\ inRing[c] \in Seq([seq : Seqs, authentic : BOOLEAN])
          /\ Len(inRing[c]) <= Capacity(c)
          /\ stage[c] \in {"idle", "writing", "reported"}

(* A block is written at most once, however often and over whichever ring it
   arrives, and accepted only when it has been: the ACKs cover nothing that
   is still with a consumer or failed. *)
WrittenOnce ==
    /\ \A s \in Seqs : writes[s] <= 1
    /\ \A s \in got : writes[s] = 1

(* Every block in flight is inside the window, so no two collide
   (transfer.cpp:918): a block has its mark exactly while it is in flight,
   and pending counts the blocks in flight. *)
MarksExact ==
    /\ \A s \in Seqs : InFlight(s) <=> mark[s % KWindow] = s
    /\ pending = Cardinality({i \in 0 .. KWindow - 1 : mark[i] # NoSeq})

(* The room for a batch's verdicts, looked up before the batch is written, is
   still there when they are reported. *)
ReportsFit == \A c \in Channels : Len(done[c]) <= Capacity(c)

(* No block stays with the consumers: it comes back to the reader, or the
   reader has left after a failed write. *)
EveryBlockReported ==
    \A s \in Seqs : InFlight(s) ~> (~ InFlight(s) \/ ~ reading)
=============================================================================

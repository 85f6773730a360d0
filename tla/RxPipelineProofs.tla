-------------------------- MODULE RxPipelineProofs --------------------------
(***************************************************************************)
(* Proofs about RxPipeline: with any number of writers, any ring sizes and *)
(* any window, a block is written at most once and accepted only when it   *)
(* was written, the dispatch marks are exactly the blocks in flight, and a *)
(* batch's verdicts always fit the ring they are reported on.              *)
(*                                                                         *)
(* The argument follows a block by the place it is in: a position of a ring*)
(* that its consumer has not reported (Live) or a position of a ring of    *)
(* verdicts.  No two places hold the same block, because the reader hands  *)
(* out only blocks without a mark and a block keeps its mark until its     *)
(* verdict is collected.                                                   *)
(***************************************************************************)
EXTENDS RxPipeline, RingLemmas, FiniteSetTheorems

Block == [seq : Seqs, authentic : BOOLEAN]
Verdict == [seq : Seqs, result : {"written", "auth_failed", "io_failed"}]
Positions == 0 .. KWindow - 1

Types ==
    /\ rbase \in Nat /\ got \subseteq Seqs /\ pending \in Int
    /\ mark \in [Positions -> Seqs \cup {NoSeq}]
    /\ inRing \in [Channels -> Seq(Block)]
    /\ done \in [Channels -> Seq(Verdict)]
    /\ verdicts \in [Channels -> Seq(Verdict)]
    /\ batch \in [Channels -> Nat]
    /\ stage \in [Channels -> {"idle", "writing", "reported"}]
    /\ writes \in [Seqs -> Nat]

(* What a consumer holds at each stage of its loop; in particular the room
   it looked up is still there. *)
Stages ==
    \A c \in Channels :
        /\ Len(done[c]) <= Capacity(c)
        /\ batch[c] <= Len(inRing[c])
        /\ stage[c] # "writing" => verdicts[c] = <<>>
        /\ stage[c] = "writing" =>
              /\ Len(verdicts[c]) <= batch[c]
              /\ Len(done[c]) + batch[c] <= Capacity(c)
              /\ \A k \in 1 .. Len(verdicts[c]) : verdicts[c][k].seq = inRing[c][k].seq

(* The positions of a channel's ring that hold a block in flight. *)
Live(c) == {i \in 1 .. Len(inRing[c]) : stage[c] = "reported" => i > batch[c]}

(* Every place in flight holds a block of its own. *)
Distinct ==
    /\ \A c, d \in Channels : \A i \in Live(c), j \in Live(d) :
          inRing[c][i].seq = inRing[d][j].seq => c = d /\ i = j
    /\ \A c, d \in Channels : \A i \in 1 .. Len(done[c]), j \in 1 .. Len(done[d]) :
          done[c][i].seq = done[d][j].seq => c = d /\ i = j
    /\ \A c, d \in Channels : \A i \in Live(c), j \in 1 .. Len(done[d]) :
          inRing[c][i].seq # done[d][j].seq

(* A block in flight is in the window, not accepted, and marked. *)
Held(s) == rbase <= s /\ s < rbase + KWindow /\ s \notin got /\ mark[s % KWindow] = s

Marked ==
    /\ \A c \in Channels : \A i \in Live(c) : Held(inRing[c][i].seq)
    /\ \A c \in Channels : \A i \in 1 .. Len(done[c]) : Held(done[c][i].seq)
    /\ \A p \in Positions : mark[p] # NoSeq =>
          /\ mark[p] % KWindow = p
          /\ \/ \E c \in Channels : \E i \in Live(c) : inRing[c][i].seq = mark[p]
             \/ \E c \in Channels : \E i \in 1 .. Len(done[c]) : done[c][i].seq = mark[p]

MarkedPositions == {p \in Positions : mark[p] # NoSeq}

Counted == pending = Cardinality(MarkedPositions)

(* How often a block was written, by where it is. *)
Outcome(v) == IF v.result = "written" THEN 1 ELSE 0

Written ==
    /\ \A c \in Channels : \A i \in Live(c) :
          i > Len(verdicts[c]) => writes[inRing[c][i].seq] = 0
    /\ \A c \in Channels : \A k \in 1 .. Len(verdicts[c]) :
          writes[verdicts[c][k].seq] = Outcome(verdicts[c][k])
    /\ \A c \in Channels : \A k \in 1 .. Len(done[c]) :
          writes[done[c][k].seq] = Outcome(done[c][k])
    /\ \A s \in Seqs \ got : mark[s % KWindow] # s => writes[s] = 0
    /\ \A s \in got : writes[s] = 1

PipelineInv == Types /\ Stages /\ Distinct /\ Marked /\ Counted /\ Written

-----------------------------------------------------------------------------
(* Sequences. *)

(* What a sequence is after n more elements, *)
LEMMA Extended ==
    ASSUME NEW S, NEW a \in Seq(S), NEW n \in Nat, NEW f \in [1 .. n -> S]
    PROVE  /\ a \o f \in Seq(S)
           /\ Len(a \o f) = Len(a) + n
           /\ \A k \in 1 .. Len(a) : (a \o f)[k] = a[k]
           /\ \A k \in 1 .. n : (a \o f)[Len(a) + k] = f[k]
<1>1. f \in Seq(S) /\ Len(f) = n
    OBVIOUS
<1> QED
    BY <1>1

(* without its first n elements, *)
LEMMA Dropped ==
    ASSUME NEW S, NEW a \in Seq(S), NEW n \in 0 .. Len(a)
    PROVE  /\ SubSeq(a, n + 1, Len(a)) \in Seq(S)
           /\ Len(SubSeq(a, n + 1, Len(a))) = Len(a) - n
           /\ \A k \in 1 .. Len(a) - n : SubSeq(a, n + 1, Len(a))[k] = a[n + k]
    OBVIOUS

(* A finite set with one more element. *)
LEMMA OneMore ==
    ASSUME NEW S, IsFiniteSet(S), NEW x, x \notin S
    PROVE  Cardinality(S \cup {x}) = Cardinality(S) + 1
    BY FS_AddElement

-----------------------------------------------------------------------------
(* Facts about the model's operators. *)

(* The constants, one by one. *)
LEMMA Constants ==
    /\ Seqs \subseteq Nat /\ KWindow \in Nat \ {0} /\ Writers \in Nat \ {0}
    /\ RouteRun \in Nat \ {0} /\ RingSlots \in Nat /\ RtxSlots \in Nat
    /\ WriteBatch \in Nat
    BY PipelineAssumption

(* The capacity of a channel is a number. *)
LEMMA CapacityType ==
    ASSUME NEW c \in Channels
    PROVE  Capacity(c) \in Nat
    BY Constants DEF Capacity

(* A step of nobody. *)
LEMMA StutterKeeps ==
    ASSUME PipelineInv, UNCHANGED <<rbase, got, mark, pending, inRing, done, consumerVars>>
    PROVE  PipelineInv'
<1>1. /\ rbase' = rbase /\ got' = got /\ mark' = mark /\ pending' = pending
      /\ inRing' = inRing /\ done' = done /\ verdicts' = verdicts /\ batch' = batch
      /\ stage' = stage /\ writes' = writes
    BY DEF consumerVars
<1>2. Types' /\ Stages'
    <2>1. Types'
        BY <1>1 DEF PipelineInv, Types
    <2>2. Stages'
        BY <1>1 DEF PipelineInv, Stages, Capacity
    <2> QED
        BY <2>1, <2>2
<1>3. Distinct'
    <2>1. \A c \in Channels : Live(c)' = Live(c)
        BY <1>1 DEF Live
    <2> QED
        BY <1>1, <2>1 DEF PipelineInv, Distinct
<1>4. Marked'
    BY <1>1 DEF PipelineInv, Marked, Held, Live
<1>5. Counted'
    BY <1>1 DEF PipelineInv, Counted, MarkedPositions
<1>6. Written'
    BY <1>1 DEF PipelineInv, Written, Outcome, Live
<1> QED
    BY <1>2, <1>3, <1>4, <1>5, <1>6 DEF PipelineInv

(* A live position is one of the ring's, and holds a block. *)
LEMMA LiveTypes ==
    ASSUME Types, NEW c \in Channels, NEW i \in Live(c)
    PROVE  i \in 1 .. Len(inRing[c]) /\ inRing[c][i].seq \in Seqs
<1>1. i \in 1 .. Len(inRing[c]) /\ inRing[c] \in Seq(Block)
    BY DEF Live, Types
<1>2. inRing[c][i] \in Block
    BY <1>1
<1> QED
    BY <1>1, <1>2 DEF Block

(* A position of a ring of verdicts holds a verdict. *)
LEMMA DoneTypes ==
    ASSUME Types, NEW c \in Channels, NEW i \in 1 .. Len(done[c])
    PROVE  done[c][i] \in Verdict /\ done[c][i].seq \in Seqs
<1>1. done[c] \in Seq(Verdict)
    BY DEF Types
<1>2. done[c][i] \in Verdict
    BY <1>1
<1> QED
    BY <1>2 DEF Verdict

-----------------------------------------------------------------------------
(* A consumer takes a batch and processes it. *)

(* The batch fits the ring of verdicts, and moves no block. *)
LEMMA TakeBatchKeeps ==
    ASSUME PipelineInv, NEW d \in Channels, NEW n, TakeBatch(d, n)
    PROVE  PipelineInv'
<1> DEFINE room == Capacity(d) - Len(done[d])
<1>1. Types /\ Stages /\ Distinct /\ Marked /\ Counted /\ Written
    BY DEF PipelineInv
<1>2. /\ stage[d] = "idle"
      /\ n \in 1 .. WriteBatch /\ n <= Len(inRing[d]) /\ n <= room
      /\ batch' = [batch EXCEPT ![d] = n]
      /\ stage' = [stage EXCEPT ![d] = "writing"]
      /\ rbase' = rbase /\ got' = got /\ mark' = mark /\ pending' = pending
      /\ inRing' = inRing /\ done' = done /\ verdicts' = verdicts /\ writes' = writes
    BY DEF TakeBatch, readerVars
<1>3. Len(inRing[d]) \in Nat /\ Len(done[d]) \in Nat /\ Capacity(d) \in Nat /\ room \in Int
    BY <1>1, CapacityType DEF Types
<1>4. n \in Nat /\ n <= Len(inRing[d]) /\ n <= room
    BY <1>2
<1>5. batch \in [Channels -> Nat] /\ stage \in [Channels -> {"idle", "writing", "reported"}]
    BY <1>1 DEF Types
<1>6. /\ batch'[d] = n /\ stage'[d] = "writing"
      /\ \A c \in Channels : c # d => batch'[c] = batch[c] /\ stage'[c] = stage[c]
    BY <1>2, <1>5
<1>7. \A c \in Channels : Live(c)' = Live(c)
    <2> TAKE c \in Channels
    <2>1. CASE c = d
        BY <1>2, <1>6, <2>1 DEF Live
    <2>2. CASE c # d
        BY <1>2, <1>6, <2>2 DEF Live
    <2> QED
        BY <2>1, <2>2
<1>8. Types'
    BY <1>1, <1>2, <1>4, <1>5 DEF Types
<1>9. Stages'
    <2> SUFFICES ASSUME NEW c \in Channels
                 PROVE  /\ Len(done[c]) <= Capacity(c)
                        /\ batch'[c] <= Len(inRing[c])
                        /\ stage'[c] # "writing" => verdicts[c] = <<>>
                        /\ stage'[c] = "writing" =>
                              /\ Len(verdicts[c]) <= batch'[c]
                              /\ Len(done[c]) + batch'[c] <= Capacity(c)
                              /\ \A k \in 1 .. Len(verdicts[c]) :
                                    verdicts[c][k].seq = inRing[c][k].seq
        BY <1>2 DEF Stages, Capacity
    <2>1. CASE c # d
        BY <1>1, <1>6, <2>1 DEF Stages
    <2>2. CASE c = d
        <3>1. verdicts[d] = <<>> /\ Len(done[d]) <= Capacity(d)
            BY <1>1, <1>2 DEF Stages
        <3>2. Len(verdicts[d]) = 0
            BY <3>1
        <3>3. Len(verdicts[d]) <= n /\ Len(done[d]) + n <= Capacity(d)
            BY <1>3, <1>4, <3>2
        <3> QED
            BY <1>4, <1>6, <2>2, <3>1, <3>2, <3>3
    <2> QED
        BY <2>1, <2>2
<1>10. Distinct'
    BY <1>1, <1>2, <1>7 DEF Distinct
<1>11. Marked'
    BY <1>1, <1>2, <1>7 DEF Marked, Held
<1>12. Counted'
    BY <1>1, <1>2 DEF Counted, MarkedPositions
<1>13. Written'
    BY <1>1, <1>2, <1>7 DEF Written, Outcome
<1> QED
    BY <1>8, <1>9, <1>10, <1>11, <1>12, <1>13 DEF PipelineInv

(* What reporting on blocks i to j of the batch adds to the verdicts. *)
LEMMA ReportFacts ==
    ASSUME Types, Stages, NEW d \in Channels, stage[d] = "writing",
           NEW i \in Nat, i = Len(verdicts[d]) + 1, NEW j \in i .. batch[d],
           NEW r \in {"written", "auth_failed", "io_failed"}, Report(d, i, j, r)
    PROVE  /\ verdicts' \in [Channels -> Seq(Verdict)]
           /\ \A c \in Channels : c # d => verdicts'[c] = verdicts[c]
           /\ Len(verdicts'[d]) = j
           /\ \A k \in 1 .. Len(verdicts[d]) : verdicts'[d][k] = verdicts[d][k]
           /\ \A k \in i .. j :
                 verdicts'[d][k].seq = inRing[d][k].seq /\ verdicts'[d][k].result = r
<1> DEFINE a == Len(verdicts[d])
           m == j - i + 1
           f == [k \in 1 .. m |-> [seq |-> inRing[d][i + k - 1].seq, result |-> r]]
<1>1. /\ verdicts \in [Channels -> Seq(Verdict)] /\ verdicts[d] \in Seq(Verdict)
      /\ inRing[d] \in Seq(Block) /\ batch[d] \in Nat /\ batch[d] <= Len(inRing[d])
    BY DEF Types, Stages
<1>2. a \in Nat /\ i = a + 1 /\ j \in Nat /\ m \in Nat /\ a + m = j
    <2>1. a \in Nat /\ i = a + 1
        BY <1>1
    <2>2. j \in Int /\ i <= j
        BY <1>1
    <2> HIDE DEF a
    <2> QED
        BY <2>1, <2>2
<1>3. ASSUME NEW k \in 1 .. m
      PROVE  inRing[d][i + k - 1].seq \in Seqs
    <2>1. i + k - 1 \in 1 .. Len(inRing[d])
        BY <1>1, <1>2
    <2>2. inRing[d][i + k - 1] \in Block
        BY <1>1, <2>1
    <2> QED
        BY <2>2 DEF Block
<1>4. f \in [1 .. m -> Verdict]
    BY <1>3, Zenon DEF Verdict
<1>5. verdicts' = [verdicts EXCEPT ![d] = @ \o f]
    BY DEF Report
<1>6. \A k \in 1 .. m : f[k].seq = inRing[d][i + k - 1].seq /\ f[k].result = r
    OBVIOUS
<1> HIDE DEF f, a, m
<1>7. /\ verdicts[d] \o f \in Seq(Verdict)
      /\ Len(verdicts[d] \o f) = a + m
      /\ \A k \in 1 .. a : (verdicts[d] \o f)[k] = verdicts[d][k]
      /\ \A k \in 1 .. m : (verdicts[d] \o f)[a + k] = f[k]
    <2> DEFINE q == verdicts[d]
    <2>1. q \in Seq(Verdict)
        BY <1>1
    <2> HIDE DEF q
    <2>2. /\ q \o f \in Seq(Verdict)
          /\ Len(q \o f) = Len(q) + m
          /\ \A k \in 1 .. Len(q) : (q \o f)[k] = q[k]
          /\ \A k \in 1 .. m : (q \o f)[Len(q) + k] = f[k]
        BY <1>2, <1>4, <2>1, Extended
    <2> QED
        BY <2>2, Zenon DEF q, a
<1>8. verdicts'[d] = verdicts[d] \o f /\ verdicts' \in [Channels -> Seq(Verdict)]
    BY <1>1, <1>5, <1>7
<1>9. \A c \in Channels : c # d => verdicts'[c] = verdicts[c]
    BY <1>1, <1>5
<1>10. ASSUME NEW k \in i .. j
       PROVE  verdicts'[d][k].seq = inRing[d][k].seq /\ verdicts'[d][k].result = r
    <2>1. k - a \in 1 .. m /\ a + (k - a) = k /\ i + (k - a) - 1 = k
        BY <1>2
    <2>2. verdicts'[d][k] = f[k - a]
        BY <1>7, <1>8, <2>1, Zenon
    <2> QED
        BY <1>6, <2>1, <2>2
<1> QED
    BY <1>2, <1>7, <1>8, <1>9, <1>10 DEF a

(* A run that is written counts for each of its blocks. *)
RunWrites(d, i, j, r) ==
    writes' = [s \in Seqs |->
                  IF r = "written" /\ \E k \in i .. j : inRing[d][k].seq = s
                  THEN writes[s] + 1 ELSE writes[s]]

(* Whatever becomes of blocks i to j of the batch, one outcome for all of
   them: a block is written at most once because no other place holds it. *)
LEMMA RunKeeps ==
    ASSUME PipelineInv, NEW d \in Channels, stage[d] = "writing",
           NEW i \in Nat, i = Len(verdicts[d]) + 1, NEW j \in i .. batch[d],
           NEW r \in {"written", "auth_failed", "io_failed"}, Report(d, i, j, r),
           RunWrites(d, i, j, r), UNCHANGED <<readerVars, inRing, done, batch, stage>>
    PROVE  PipelineInv'
<1> DEFINE gain == IF r = "written" THEN 1 ELSE 0
<1>1. Types /\ Stages /\ Distinct /\ Marked /\ Counted /\ Written
    BY DEF PipelineInv
<1>2. /\ rbase' = rbase /\ got' = got /\ mark' = mark /\ pending' = pending
      /\ inRing' = inRing /\ done' = done /\ batch' = batch /\ stage' = stage
    BY DEF readerVars
<1>3. /\ verdicts' \in [Channels -> Seq(Verdict)]
      /\ \A c \in Channels : c # d => verdicts'[c] = verdicts[c]
      /\ Len(verdicts'[d]) = j
      /\ \A k \in 1 .. Len(verdicts[d]) : verdicts'[d][k] = verdicts[d][k]
      /\ \A k \in i .. j : verdicts'[d][k].seq = inRing[d][k].seq /\ verdicts'[d][k].result = r
    BY <1>1, ReportFacts
<1>4. /\ Len(verdicts[d]) \in Nat /\ Len(inRing[d]) \in Nat /\ batch[d] \in Nat
      /\ batch[d] <= Len(inRing[d]) /\ j \in Nat /\ j <= batch[d] /\ i >= 1 /\ i <= j
    <2>1. /\ Len(verdicts[d]) \in Nat /\ Len(inRing[d]) \in Nat /\ batch[d] \in Nat
          /\ batch[d] <= Len(inRing[d])
        BY <1>1 DEF Types, Stages
    <2> QED
        BY <2>1
<1>5. \A c \in Channels : Live(c)' = Live(c)
    BY <1>2 DEF Live
<1>6. \A k \in i .. j : k \in Live(d) /\ k > Len(verdicts[d])
    BY <1>4 DEF Live
<1>7. \A c \in Channels : \A k \in 1 .. Len(verdicts[c]) :
         k \in Live(c) /\ verdicts[c][k].seq = inRing[c][k].seq
    <2> SUFFICES ASSUME NEW c \in Channels, NEW k \in 1 .. Len(verdicts[c])
                 PROVE  k \in Live(c) /\ verdicts[c][k].seq = inRing[c][k].seq
        OBVIOUS
    <2>1. stage[c] = "writing"
        <3>1. verdicts[c] # <<>>
            OBVIOUS
        <3> QED
            BY <1>1, <3>1 DEF Stages
    <2>2. /\ Len(verdicts[c]) <= batch[c] /\ batch[c] <= Len(inRing[c])
          /\ verdicts[c][k].seq = inRing[c][k].seq
        BY <1>1, <2>1 DEF Stages
    <2>3. Len(verdicts[c]) \in Nat /\ Len(inRing[c]) \in Nat /\ batch[c] \in Nat
        BY <1>1 DEF Types
    <2> QED
        BY <2>1, <2>2, <2>3 DEF Live
<1>8. ASSUME NEW s \in Seqs, \A k \in i .. j : inRing[d][k].seq # s
      PROVE  writes'[s] = writes[s]
    BY <1>8 DEF RunWrites
<1>9. ASSUME NEW k \in i .. j
      PROVE  writes'[inRing[d][k].seq] = gain
    <2>1. writes[inRing[d][k].seq] = 0 /\ inRing[d][k].seq \in Seqs
        BY <1>1, <1>6, LiveTypes DEF Written
    <2>2. CASE r = "written"
        BY <2>1, <2>2 DEF RunWrites
    <2>3. CASE r # "written"
        BY <2>1, <2>3 DEF RunWrites
    <2> QED
        BY <2>2, <2>3
<1> HIDE DEF gain
<1>10. Types'
    <2>1. writes' \in [Seqs -> Nat]
        BY <1>1 DEF Types, RunWrites
    <2> QED
        BY <1>1, <1>2, <1>3, <2>1 DEF Types
<1>11. Stages'
    <2> SUFFICES ASSUME NEW c \in Channels
                 PROVE  /\ stage[c] # "writing" => verdicts'[c] = <<>>
                        /\ stage[c] = "writing" =>
                              /\ Len(verdicts'[c]) <= batch[c]
                              /\ \A k \in 1 .. Len(verdicts'[c]) :
                                    verdicts'[c][k].seq = inRing[c][k].seq
        BY <1>1, <1>2 DEF Stages, Capacity
    <2>1. CASE c # d
        BY <1>1, <1>3, <2>1 DEF Stages
    <2>2. CASE c = d
        <3>1. ASSUME NEW k \in 1 .. j
              PROVE  verdicts'[d][k].seq = inRing[d][k].seq
            <4>1. k \in 1 .. Len(verdicts[d]) \/ k \in i .. j
                BY <1>4
            <4> QED
                BY <1>3, <1>7, <4>1
        <3> QED
            BY <1>3, <1>4, <2>2, <3>1
    <2> QED
        BY <2>1, <2>2
<1>12. Distinct'
    BY <1>1, <1>2, <1>5 DEF Distinct
<1>13. Marked'
    BY <1>1, <1>2, <1>5 DEF Marked, Held
<1>14. Counted'
    BY <1>1, <1>2 DEF Counted, MarkedPositions
<1>15. Written'
    <2>1. ASSUME NEW c \in Channels, NEW m \in Live(c), m > Len(verdicts'[c])
          PROVE  writes'[inRing[c][m].seq] = 0
        <3>1. inRing[c][m].seq \in Seqs /\ m \in Nat
            BY <1>1, LiveTypes
        <3>2. c # d \/ m > j
            BY <1>3, <2>1
        <3>3. \A k \in i .. j : inRing[d][k].seq # inRing[c][m].seq
            <4>1. \A k \in i .. j : c = d => k # m
                BY <1>4, <3>1, <3>2
            <4> QED
                BY <1>1, <1>6, <4>1 DEF Distinct
        <3>4. m > Len(verdicts[c])
            BY <1>3, <1>4, <2>1, <3>1, <3>2
        <3> QED
            BY <1>1, <1>8, <3>1, <3>3, <3>4 DEF Written
    <2>2. ASSUME NEW c \in Channels, NEW k \in 1 .. Len(verdicts[c])
          PROVE  writes'[verdicts[c][k].seq] = Outcome(verdicts[c][k])
        <3>1. k \in Live(c) /\ verdicts[c][k].seq = inRing[c][k].seq
            BY <1>7
        <3>2. \A m \in i .. j : c = d => k # m
            BY <1>4
        <3>3. \A m \in i .. j : inRing[d][m].seq # inRing[c][k].seq
            BY <1>1, <1>6, <3>1, <3>2 DEF Distinct
        <3> QED
            BY <1>1, <1>8, <3>1, <3>3, LiveTypes DEF Written
    <2>3. ASSUME NEW c \in Channels, NEW k \in 1 .. Len(verdicts'[c])
          PROVE  writes'[verdicts'[c][k].seq] = Outcome(verdicts'[c][k])
        <3>1. CASE c # d
            BY <1>3, <2>2, <3>1
        <3>2. CASE c = d /\ k \in 1 .. Len(verdicts[d])
            BY <1>3, <2>2, <3>2
        <3>3. CASE c = d /\ k \in i .. j
            BY <1>3, <1>9, <3>3 DEF Outcome, gain
        <3> QED
            BY <1>3, <1>4, <3>1, <3>2, <3>3
    <2>4. ASSUME NEW c \in Channels, NEW k \in 1 .. Len(done[c])
          PROVE  writes'[done[c][k].seq] = Outcome(done[c][k])
        <3>1. \A m \in i .. j : inRing[d][m].seq # done[c][k].seq
            BY <1>1, <1>6 DEF Distinct
        <3> QED
            BY <1>1, <1>8, <3>1, DoneTypes DEF Written
    <2>5. \A k \in i .. j : Held(inRing[d][k].seq)
        BY <1>1, <1>6 DEF Marked
    <2>6. \A s \in Seqs \ got : mark[s % KWindow] # s => writes'[s] = 0
        BY <1>1, <1>8, <2>5 DEF Written, Held
    <2>7. \A s \in got : writes'[s] = 1
        BY <1>1, <1>8, <2>5, Zenon DEF Written, Held, Types
    <2> QED
        BY <1>2, <1>5, <2>1, <2>3, <2>4, <2>6, <2>7 DEF Written, Outcome
<1> QED
    BY <1>10, <1>11, <1>12, <1>13, <1>14, <1>15 DEF PipelineInv

(* The next run, whichever way it goes. *)
LEMMA WriteRunKeeps ==
    ASSUME PipelineInv, NEW d \in Channels, WriteRun(d)
    PROVE  PipelineInv'
<1> DEFINE i == Len(verdicts[d]) + 1
<1>1. Types /\ Stages
    BY DEF PipelineInv
<1>2. /\ stage[d] = "writing" /\ i <= batch[d]
      /\ UNCHANGED <<readerVars, inRing, done, batch, stage>>
      /\ \/ Report(d, i, i, "auth_failed") /\ writes' = writes
         \/ \E j \in i .. batch[d] :
               /\ Report(d, i, j, "written")
               /\ writes' = [s \in Seqs |-> IF \E k \in i .. j : inRing[d][k].seq = s
                                            THEN writes[s] + 1 ELSE writes[s]]
         \/ \E j \in i .. batch[d] : Report(d, i, j, "io_failed") /\ writes' = writes
    BY DEF WriteRun
<1>3. Len(verdicts[d]) \in Nat /\ batch[d] \in Nat /\ writes \in [Seqs -> Nat]
    BY <1>1 DEF Types
<1>4. i \in Nat /\ i \in 1 .. batch[d] /\ i \in i .. batch[d]
    BY <1>2, <1>3
<1>5. i = Len(verdicts[d]) + 1
    OBVIOUS
<1> HIDE DEF i
<1>6. \A j, r : r # "written" /\ writes' = writes => RunWrites(d, i, j, r)
    BY <1>3 DEF RunWrites
<1>7. CASE Report(d, i, i, "auth_failed") /\ writes' = writes
    <2>1. RunWrites(d, i, i, "auth_failed")
        BY <1>6, <1>7
    <2> QED
        BY <1>2, <1>4, <1>5, <1>7, <2>1, RunKeeps
<1>8. ASSUME NEW j \in i .. batch[d], Report(d, i, j, "written"),
             writes' = [s \in Seqs |-> IF \E k \in i .. j : inRing[d][k].seq = s
                                       THEN writes[s] + 1 ELSE writes[s]]
      PROVE  PipelineInv'
    <2>1. RunWrites(d, i, j, "written")
        BY <1>8 DEF RunWrites
    <2> QED
        BY <1>2, <1>4, <1>5, <1>8, <2>1, RunKeeps
<1>9. ASSUME NEW j \in i .. batch[d], Report(d, i, j, "io_failed"), writes' = writes
      PROVE  PipelineInv'
    <2>1. RunWrites(d, i, j, "io_failed")
        BY <1>6, <1>9
    <2> QED
        BY <1>2, <1>4, <1>5, <1>9, <2>1, RunKeeps
<1> QED
    BY <1>2, <1>7, <1>8, <1>9

(* What reporting a batch does to the rings: its blocks leave the live
   positions, and their verdicts are the newest of the channel. *)
LEMMA CommitFacts ==
    ASSUME Types, Stages, NEW d \in Channels, CommitBatch(d)
    PROVE  LET l == Len(done[d])
               b == batch[d]
           IN  /\ stage[d] = "writing" /\ l \in Nat /\ b \in Nat
               /\ l + b <= Capacity(d) /\ b <= Len(inRing[d]) /\ Len(verdicts[d]) = b
               /\ stage' = [stage EXCEPT ![d] = "reported"]
               /\ verdicts' = [verdicts EXCEPT ![d] = <<>>]
               /\ done' \in [Channels -> Seq(Verdict)]
               /\ \A c \in Channels : c # d => done'[c] = done[c]
               /\ Len(done'[d]) = l + b
               /\ \A k \in 1 .. l : done'[d][k] = done[d][k]
               /\ \A k \in 1 .. b : /\ done'[d][l + k] = verdicts[d][k]
                                    /\ verdicts[d][k].seq = inRing[d][k].seq
               /\ \A c \in Channels : Live(c)' \subseteq Live(c)
               /\ \A c \in Channels : c # d => Live(c)' = Live(c)
               /\ \A k \in Live(d) : k \in Live(d)' <=> k > b
               /\ 1 .. b \subseteq Live(d)
<1> DEFINE q == done[d]
           w == verdicts[d]
<1>1. /\ stage[d] = "writing" /\ Len(verdicts[d]) = batch[d]
      /\ done' = [done EXCEPT ![d] = q \o w]
      /\ verdicts' = [verdicts EXCEPT ![d] = <<>>]
      /\ stage' = [stage EXCEPT ![d] = "reported"]
      /\ inRing' = inRing /\ batch' = batch
    BY DEF CommitBatch
<1>2. /\ done \in [Channels -> Seq(Verdict)] /\ q \in Seq(Verdict) /\ w \in Seq(Verdict)
      /\ stage \in [Channels -> {"idle", "writing", "reported"}]
      /\ batch[d] \in Nat /\ Len(done[d]) \in Nat /\ Len(inRing[d]) \in Nat
    BY DEF Types
<1>3. /\ batch[d] <= Len(inRing[d]) /\ Len(done[d]) + batch[d] <= Capacity(d)
      /\ \A k \in 1 .. batch[d] : verdicts[d][k].seq = inRing[d][k].seq
    BY <1>1 DEF Stages
<1>4. Len(q) = Len(done[d]) /\ Len(w) = batch[d]
    BY <1>1
<1>5. w = verdicts[d] /\ q = done[d]
    OBVIOUS
<1> HIDE DEF q, w
<1>6. /\ q \o w \in Seq(Verdict) /\ Len(q \o w) = Len(q) + Len(w)
      /\ \A k \in 1 .. Len(q) : (q \o w)[k] = q[k]
      /\ \A k \in 1 .. Len(w) : (q \o w)[Len(q) + k] = w[k]
    BY <1>2
<1>7. done' \in [Channels -> Seq(Verdict)] /\ done'[d] = q \o w
    BY <1>1, <1>2, <1>6
<1>8. \A c \in Channels : c # d => done'[c] = done[c]
    BY <1>1, <1>2
<1>9. /\ \A k \in 1 .. Len(done[d]) : done'[d][k] = done[d][k]
      /\ \A k \in 1 .. batch[d] : done'[d][Len(done[d]) + k] = verdicts[d][k]
      /\ Len(done'[d]) = Len(done[d]) + batch[d]
    BY <1>4, <1>5, <1>6, <1>7, Zenon
<1>10. stage'[d] = "reported" /\ \A c \in Channels : c # d => stage'[c] = stage[c]
    BY <1>1, <1>2
<1>11. \A c \in Channels : c # d => Live(c)' = Live(c)
    BY <1>1, <1>10 DEF Live
<1>12. /\ Live(d) = 1 .. Len(inRing[d])
       /\ Live(d)' = {k \in 1 .. Len(inRing[d]) : k > batch[d]}
    BY <1>1, <1>10 DEF Live
<1>13. \A c \in Channels : Live(c)' \subseteq Live(c)
    BY <1>11, <1>12
<1>14. 1 .. batch[d] \subseteq Live(d) /\ \A k \in Live(d) : k \in Live(d)' <=> k > batch[d]
    BY <1>2, <1>3, <1>12
<1> QED
    BY <1>1, <1>2, <1>3, <1>7, <1>8, <1>9, <1>11, <1>13, <1>14, Zenon

(* A block's place moves from the ring to the ring of verdicts, which had the
   room. *)
LEMMA CommitBatchKeeps ==
    ASSUME PipelineInv, NEW d \in Channels, CommitBatch(d)
    PROVE  PipelineInv'
<1> DEFINE l == Len(done[d])
           b == batch[d]
           Old(c, m) == c # d \/ m <= l
<1>1. Types /\ Stages /\ Distinct /\ Marked /\ Counted /\ Written
    BY DEF PipelineInv
<1>2. /\ stage[d] = "writing" /\ l \in Nat /\ b \in Nat
      /\ l + b <= Capacity(d) /\ b <= Len(inRing[d]) /\ Len(verdicts[d]) = b
      /\ stage' = [stage EXCEPT ![d] = "reported"]
      /\ verdicts' = [verdicts EXCEPT ![d] = <<>>]
      /\ done' \in [Channels -> Seq(Verdict)]
      /\ \A c \in Channels : c # d => done'[c] = done[c]
      /\ Len(done'[d]) = l + b
      /\ \A k \in 1 .. l : done'[d][k] = done[d][k]
      /\ \A k \in 1 .. b : /\ done'[d][l + k] = verdicts[d][k]
                           /\ verdicts[d][k].seq = inRing[d][k].seq
      /\ \A c \in Channels : Live(c)' \subseteq Live(c)
      /\ \A c \in Channels : c # d => Live(c)' = Live(c)
      /\ \A k \in Live(d) : k \in Live(d)' <=> k > b
      /\ 1 .. b \subseteq Live(d)
    BY <1>1, CommitFacts, Zenon
<1>3. /\ rbase' = rbase /\ got' = got /\ mark' = mark /\ pending' = pending
      /\ inRing' = inRing /\ batch' = batch /\ writes' = writes
    BY DEF CommitBatch, readerVars
<1>4. /\ stage \in [Channels -> {"idle", "writing", "reported"}]
      /\ verdicts \in [Channels -> Seq(Verdict)] /\ <<>> \in Seq(Verdict)
    BY <1>1 DEF Types
<1>5. /\ stage'[d] = "reported" /\ verdicts'[d] = <<>>
      /\ \A c \in Channels : c # d => stage'[c] = stage[c] /\ verdicts'[c] = verdicts[c]
    BY <1>2, <1>4
<1>6. \A c \in Channels : Len(done[c]) \in Nat
    BY <1>1 DEF Types
<1> HIDE DEF l, b
<1>7. ASSUME NEW c \in Channels, NEW m \in 1 .. Len(done'[c]), Old(c, m)
      PROVE  m \in 1 .. Len(done[c]) /\ done'[c][m] = done[c][m]
    <2>1. CASE c # d
        BY <1>2, <2>1
    <2>2. CASE c = d
        <3>1. m \in 1 .. l
            BY <1>2, <1>7, <2>2
        <3> QED
            BY <1>2, <2>2, <3>1 DEF l
    <2> QED
        BY <2>1, <2>2
<1>8. ASSUME NEW c \in Channels, NEW m \in 1 .. Len(done'[c]), ~ Old(c, m)
      PROVE  /\ c = d /\ m - l \in 1 .. b /\ m - l \in Live(d) /\ m - l \notin Live(d)'
             /\ done'[d][m] = verdicts[d][m - l]
             /\ done'[d][m].seq = inRing[d][m - l].seq
    <2>1. c = d /\ m - l \in 1 .. b /\ l + (m - l) = m
        BY <1>2, <1>8
    <2>2. m - l \in Live(d) /\ ~ (m - l > b)
        BY <1>2, <2>1
    <2> QED
        BY <1>2, <2>1, <2>2
<1>9. ASSUME NEW c \in Channels, NEW k \in 1 .. Len(done[c])
      PROVE  k \in 1 .. Len(done'[c]) /\ done'[c][k] = done[c][k]
    <2>1. CASE c # d
        BY <1>2, <2>1
    <2>2. CASE c = d
        BY <1>2, <2>2 DEF l
    <2> QED
        BY <2>1, <2>2
<1>10. ASSUME NEW c \in Channels, NEW k \in Live(c), k \notin Live(c)'
       PROVE  c = d /\ \E m \in 1 .. Len(done'[d]) : done'[d][m].seq = inRing[d][k].seq
    <2>1. c = d /\ k \in 1 .. b
        BY <1>1, <1>2, <1>10, LiveTypes
    <2>2. l + k \in 1 .. Len(done'[d])
        BY <1>2, <2>1
    <2> QED
        BY <1>2, <2>1, <2>2, Zenon
<1> HIDE DEF Old
<1>11. Types'
    BY <1>1, <1>2, <1>3, <1>4 DEF Types
<1>12. Stages'
    <2> SUFFICES ASSUME NEW c \in Channels
                 PROVE  /\ Len(done'[c]) <= Capacity(c)
                        /\ stage'[c] # "writing" => verdicts'[c] = <<>>
                        /\ stage'[c] = "writing" =>
                              /\ Len(verdicts'[c]) <= batch[c]
                              /\ Len(done'[c]) + batch[c] <= Capacity(c)
                              /\ \A k \in 1 .. Len(verdicts'[c]) :
                                    verdicts'[c][k].seq = inRing[c][k].seq
        BY <1>1, <1>3 DEF Stages, Capacity
    <2>1. CASE c # d
        BY <1>1, <1>2, <1>5, <2>1 DEF Stages
    <2>2. CASE c = d
        BY <1>2, <1>5, <2>2, Zenon
    <2> QED
        BY <2>1, <2>2
<1>13. Distinct'
    <2>1. \A c, e \in Channels : \A i \in Live(c)', j \in Live(e)' :
             inRing[c][i].seq = inRing[e][j].seq => c = e /\ i = j
        BY <1>1, <1>2 DEF Distinct
    <2>2. ASSUME NEW c \in Channels, NEW e \in Channels,
                 NEW i \in 1 .. Len(done'[c]), NEW j \in 1 .. Len(done'[e]),
                 done'[c][i].seq = done'[e][j].seq
          PROVE  c = e /\ i = j
        <3>1. CASE Old(c, i) /\ Old(e, j)
            <4>1. i \in 1 .. Len(done[c]) /\ done'[c][i] = done[c][i]
                BY <1>7, <3>1
            <4>2. j \in 1 .. Len(done[e]) /\ done'[e][j] = done[e][j]
                BY <1>7, <3>1
            <4> QED
                BY <1>1, <2>2, <4>1, <4>2 DEF Distinct
        <3>2. CASE Old(c, i) /\ ~ Old(e, j)
            <4>1. j - l \in Live(d) /\ done'[e][j].seq = inRing[d][j - l].seq
                BY <1>8, <3>2
            <4>2. i \in 1 .. Len(done[c]) /\ done'[c][i] = done[c][i]
                BY <1>7, <3>2
            <4>3. inRing[d][j - l].seq # done[c][i].seq
                BY <1>1, <4>1, <4>2 DEF Distinct
            <4> QED
                BY <2>2, <4>1, <4>2, <4>3
        <3>3. CASE ~ Old(c, i) /\ Old(e, j)
            <4>1. i - l \in Live(d) /\ done'[c][i].seq = inRing[d][i - l].seq
                BY <1>8, <3>3
            <4>2. j \in 1 .. Len(done[e]) /\ done'[e][j] = done[e][j]
                BY <1>7, <3>3
            <4>3. inRing[d][i - l].seq # done[e][j].seq
                BY <1>1, <4>1, <4>2 DEF Distinct
            <4> QED
                BY <2>2, <4>1, <4>2, <4>3, Zenon
        <3>4. CASE ~ Old(c, i) /\ ~ Old(e, j)
            <4>1. c = d /\ e = d /\ i - l = j - l
                BY <1>1, <1>8, <2>2, <3>4 DEF Distinct
            <4> QED
                BY <1>2, <4>1
        <3> QED
            BY <3>1, <3>2, <3>3, <3>4
    <2>3. ASSUME NEW c \in Channels, NEW e \in Channels,
                 NEW i \in Live(c)', NEW j \in 1 .. Len(done'[e])
          PROVE  inRing[c][i].seq # done'[e][j].seq
        <3>1. i \in Live(c)
            BY <1>2
        <3>2. CASE Old(e, j)
            BY <1>1, <1>7, <3>1, <3>2 DEF Distinct
        <3>3. CASE ~ Old(e, j)
            BY <1>1, <1>8, <3>1, <3>3 DEF Distinct
        <3> QED
            BY <3>2, <3>3
    <2> QED
        BY <1>3, <2>1, <2>2, <2>3 DEF Distinct
<1>14. Marked'
    <2>1. \A s : Held(s) => Held(s)'
        BY <1>3 DEF Held
    <2>2. \A c \in Channels : \A i \in Live(c)' : Held(inRing[c][i].seq)'
        BY <1>1, <1>2, <1>3, <2>1 DEF Marked
    <2>3. ASSUME NEW c \in Channels, NEW i \in 1 .. Len(done'[c])
          PROVE  Held(done[c][i].seq)'
        <3>1. Held(done'[c][i].seq)
            BY <1>1, <1>7, <1>8 DEF Marked
        <3> QED
            BY <1>3, <3>1 DEF Held
    <2>4. ASSUME NEW p \in Positions, mark[p] # NoSeq
          PROVE  /\ mark[p] % KWindow = p
                 /\ \/ \E c \in Channels : \E i \in Live(c)' : inRing[c][i].seq = mark[p]
                    \/ \E c \in Channels : \E i \in 1 .. Len(done'[c]) :
                          done'[c][i].seq = mark[p]
        <3>1. /\ mark[p] % KWindow = p
              /\ \/ \E c \in Channels : \E i \in Live(c) : inRing[c][i].seq = mark[p]
                 \/ \E c \in Channels : \E i \in 1 .. Len(done[c]) : done[c][i].seq = mark[p]
            BY <1>1, <2>4 DEF Marked
        <3> QED
            BY <1>9, <1>10, <3>1
    <2> QED
        BY <1>3, <2>2, <2>3, <2>4 DEF Marked
<1>15. Counted'
    BY <1>1, <1>3 DEF Counted, MarkedPositions
<1>16. Written'
    <2>1. ASSUME NEW c \in Channels, NEW i \in Live(c)'
          PROVE  writes[inRing[c][i].seq] = 0 \/ i <= Len(verdicts'[c])
        <3>1. i \in Live(c) /\ i \in Nat /\ Len(verdicts[c]) \in Nat
            BY <1>1, <1>2, <1>4, LiveTypes
        <3>2. CASE c # d
            BY <1>1, <1>5, <3>1, <3>2 DEF Written
        <3>3. CASE c = d
            BY <1>1, <1>2, <3>1, <3>3 DEF Written
        <3> QED
            BY <3>2, <3>3
    <2>2. \A c \in Channels : \A k \in 1 .. Len(verdicts'[c]) :
             writes[verdicts'[c][k].seq] = Outcome(verdicts'[c][k])
        BY <1>1, <1>5 DEF Written
    <2>3. ASSUME NEW c \in Channels, NEW k \in 1 .. Len(done'[c])
          PROVE  writes[done'[c][k].seq] = Outcome(done'[c][k])
        <3>1. CASE Old(c, k)
            BY <1>1, <1>7, <3>1 DEF Written
        <3>2. CASE ~ Old(c, k)
            <4>1. c = d /\ k - l \in 1 .. Len(verdicts[d]) /\ done'[d][k] = verdicts[d][k - l]
                BY <1>2, <1>8, <3>2
            <4>2. writes[verdicts[d][k - l].seq] = Outcome(verdicts[d][k - l])
                BY <1>1, <4>1 DEF Written
            <4> QED
                BY <4>1, <4>2
        <3> QED
            BY <3>1, <3>2
    <2>4. \A c \in Channels : \A i \in Live(c)' :
             i > Len(verdicts'[c]) => writes[inRing[c][i].seq] = 0
        <3>1. ASSUME NEW c \in Channels, NEW i \in Live(c)'
              PROVE  i \in Nat /\ Len(verdicts'[c]) \in Nat
            <4>1. i \in Live(c) /\ verdicts'[c] \in Seq(Verdict)
                BY <1>2, <1>11 DEF Types
            <4> QED
                BY <1>1, <4>1, LiveTypes
        <3> QED
            BY <2>1, <3>1
    <2> QED
        BY <1>1, <1>3, <2>2, <2>3, <2>4 DEF Written, Outcome
<1> QED
    BY <1>11, <1>12, <1>13, <1>14, <1>15, <1>16 DEF PipelineInv

(* What giving a batch's slots back does to the ring: the live positions move
   down by the batch. *)
LEMMA ConsumeFacts ==
    ASSUME Types, Stages, NEW d \in Channels, ConsumeBatch(d)
    PROVE  LET b == batch[d]
           IN  /\ b \in Nat /\ stage[d] = "reported" /\ verdicts[d] = <<>>
               /\ batch' = [batch EXCEPT ![d] = 0] /\ stage' = [stage EXCEPT ![d] = "idle"]
               /\ inRing' \in [Channels -> Seq(Block)]
               /\ \A c \in Channels : c # d => inRing'[c] = inRing[c] /\ Live(c)' = Live(c)
               /\ \A k \in Live(d)' :
                     k \in Nat /\ b + k \in Live(d) /\ inRing'[d][k] = inRing[d][b + k]
               /\ \A k \in Live(d) :
                     k - b \in Live(d)' /\ inRing'[d][k - b] = inRing[d][k]
<1> DEFINE b == batch[d]
           q == inRing[d]
           rest == SubSeq(q, b + 1, Len(q))
<1>1. /\ stage[d] = "reported"
      /\ inRing' = [inRing EXCEPT ![d] = rest]
      /\ batch' = [batch EXCEPT ![d] = 0] /\ stage' = [stage EXCEPT ![d] = "idle"]
    BY DEF ConsumeBatch
<1>2. /\ inRing \in [Channels -> Seq(Block)] /\ q \in Seq(Block) /\ b \in Nat
      /\ batch \in [Channels -> Nat]
      /\ stage \in [Channels -> {"idle", "writing", "reported"}]
      /\ b <= Len(q) /\ verdicts[d] = <<>>
    BY <1>1 DEF Types, Stages
<1>3. b = batch[d] /\ q = inRing[d]
    OBVIOUS
<1> HIDE DEF b, q
<1>4. Len(q) \in Nat /\ b \in 0 .. Len(q)
    BY <1>2
<1>5. /\ rest \in Seq(Block) /\ Len(rest) = Len(q) - b
      /\ \A k \in 1 .. Len(q) - b : rest[k] = q[b + k]
    BY <1>2, <1>4, Dropped
<1> HIDE DEF rest
<1>6. inRing' \in [Channels -> Seq(Block)] /\ inRing'[d] = rest
    BY <1>1, <1>2, <1>5
<1>7. /\ stage'[d] = "idle"
      /\ \A c \in Channels : c # d =>
            inRing'[c] = inRing[c] /\ stage'[c] = stage[c] /\ batch'[c] = batch[c]
    BY <1>1, <1>2
<1>8. \A c \in Channels : c # d => Live(c)' = Live(c)
    BY <1>7 DEF Live
<1>9. Live(d)' = 1 .. Len(q) - b /\ Live(d) = {k \in 1 .. Len(q) : k > b}
    BY <1>1, <1>3, <1>5, <1>6, <1>7 DEF Live
<1>10. ASSUME NEW k \in Live(d)'
       PROVE  k \in Nat /\ b + k \in Live(d) /\ inRing'[d][k] = inRing[d][b + k]
    BY <1>2, <1>3, <1>4, <1>5, <1>6, <1>9
<1>11. ASSUME NEW k \in Live(d)
       PROVE  k - b \in Live(d)' /\ inRing'[d][k - b] = inRing[d][k]
    <2>1. k - b \in 1 .. Len(q) - b /\ b + (k - b) = k
        BY <1>2, <1>4, <1>9
    <2> QED
        BY <1>3, <1>5, <1>6, <1>9, <2>1
<1> QED
    BY <1>1, <1>2, <1>3, <1>6, <1>7, <1>8, <1>10, <1>11

(* Giving slots back moves places within the ring. *)
LEMMA ConsumeBatchKeeps ==
    ASSUME PipelineInv, NEW d \in Channels, ConsumeBatch(d)
    PROVE  PipelineInv'
<1> DEFINE b == batch[d]
           Old(c, k) == IF c = d THEN b + k ELSE k
<1>1. Types /\ Stages /\ Distinct /\ Marked /\ Counted /\ Written
    BY DEF PipelineInv
<1>2. /\ b \in Nat /\ stage[d] = "reported" /\ verdicts[d] = <<>>
      /\ batch' = [batch EXCEPT ![d] = 0] /\ stage' = [stage EXCEPT ![d] = "idle"]
      /\ inRing' \in [Channels -> Seq(Block)]
      /\ \A c \in Channels : c # d => inRing'[c] = inRing[c] /\ Live(c)' = Live(c)
      /\ \A k \in Live(d)' :
            k \in Nat /\ b + k \in Live(d) /\ inRing'[d][k] = inRing[d][b + k]
      /\ \A k \in Live(d) : k - b \in Live(d)' /\ inRing'[d][k - b] = inRing[d][k]
    BY <1>1, ConsumeFacts
<1>3. /\ rbase' = rbase /\ got' = got /\ mark' = mark /\ pending' = pending
      /\ done' = done /\ verdicts' = verdicts /\ writes' = writes
    BY DEF ConsumeBatch, readerVars
<1>4. batch \in [Channels -> Nat] /\ stage \in [Channels -> {"idle", "writing", "reported"}]
    BY <1>1 DEF Types
<1>5. /\ batch'[d] = 0 /\ stage'[d] = "idle"
      /\ \A c \in Channels : c # d => stage'[c] = stage[c] /\ batch'[c] = batch[c]
    BY <1>2, <1>4
<1> HIDE DEF b
<1>6. ASSUME NEW c \in Channels, NEW k \in Live(c)'
      PROVE  Old(c, k) \in Live(c) /\ inRing'[c][k] = inRing[c][Old(c, k)]
    BY <1>2
<1>7. ASSUME NEW c \in Channels, NEW k \in Live(c)
      PROVE  \E m \in Live(c)' : inRing'[c][m] = inRing[c][k]
    <2>1. CASE c = d
        BY <1>2, <2>1
    <2>2. CASE c # d
        BY <1>2, <2>2
    <2> QED
        BY <2>1, <2>2
<1>8. ASSUME NEW c \in Channels, NEW i \in Live(c)', NEW j \in Live(c)', Old(c, i) = Old(c, j)
      PROVE  i = j
    BY <1>2, <1>8
<1> HIDE DEF Old
<1>9. Types'
    BY <1>1, <1>2, <1>3, <1>4 DEF Types
<1>10. Stages'
    <2> SUFFICES ASSUME NEW c \in Channels
                 PROVE  /\ batch'[c] <= Len(inRing'[c])
                        /\ stage'[c] # "writing" => verdicts[c] = <<>>
                        /\ stage'[c] = "writing" =>
                              /\ Len(verdicts[c]) <= batch'[c]
                              /\ Len(done[c]) + batch'[c] <= Capacity(c)
                              /\ \A k \in 1 .. Len(verdicts[c]) :
                                    verdicts[c][k].seq = inRing'[c][k].seq
        BY <1>1, <1>3 DEF Stages, Capacity
    <2>1. CASE c # d
        BY <1>1, <1>2, <1>5, <2>1 DEF Stages
    <2>2. CASE c = d
        <3>1. Len(inRing'[d]) \in Nat
            BY <1>2
        <3> QED
            BY <1>2, <1>5, <2>2, <3>1
    <2> QED
        BY <2>1, <2>2
<1>11. Distinct'
    <2>1. ASSUME NEW c \in Channels, NEW e \in Channels,
                 NEW i \in Live(c)', NEW j \in Live(e)', inRing'[c][i].seq = inRing'[e][j].seq
          PROVE  c = e /\ i = j
        <3>1. c = e /\ Old(c, i) = Old(e, j)
            BY <1>1, <1>6, <2>1 DEF Distinct
        <3> QED
            BY <1>8, <3>1
    <2>2. \A c, e \in Channels : \A i \in Live(c)', j \in 1 .. Len(done[e]) :
             inRing'[c][i].seq # done[e][j].seq
        BY <1>1, <1>6 DEF Distinct
    <2> QED
        BY <1>1, <1>3, <2>1, <2>2 DEF Distinct
<1>12. Marked'
    <2>1. ASSUME NEW c \in Channels, NEW i \in Live(c)'
          PROVE  Held(inRing[c][i].seq)'
        <3>1. Held(inRing[c][Old(c, i)].seq)
            BY <1>1, <1>6 DEF Marked
        <3> QED
            BY <1>3, <1>6, <3>1 DEF Held
    <2>2. \A c \in Channels : \A i \in 1 .. Len(done'[c]) : Held(done[c][i].seq)'
        BY <1>1, <1>3 DEF Marked, Held
    <2>3. ASSUME NEW p \in Positions, mark[p] # NoSeq
          PROVE  /\ mark[p] % KWindow = p
                 /\ \/ \E c \in Channels : \E i \in Live(c)' : inRing'[c][i].seq = mark[p]
                    \/ \E c \in Channels : \E i \in 1 .. Len(done[c]) : done[c][i].seq = mark[p]
        <3>1. /\ mark[p] % KWindow = p
              /\ \/ \E c \in Channels : \E i \in Live(c) : inRing[c][i].seq = mark[p]
                 \/ \E c \in Channels : \E i \in 1 .. Len(done[c]) : done[c][i].seq = mark[p]
            BY <1>1, <2>3 DEF Marked
        <3> QED
            BY <1>7, <3>1
    <2> QED
        BY <1>3, <2>1, <2>2, <2>3 DEF Marked
<1>13. Counted'
    BY <1>1, <1>3 DEF Counted, MarkedPositions
<1>14. Written'
    <2>1. ASSUME NEW c \in Channels, NEW i \in Live(c)', i > Len(verdicts[c])
          PROVE  writes[inRing'[c][i].seq] = 0
        <3>1. Old(c, i) \in Nat /\ Old(c, i) > Len(verdicts[c])
            <4>1. Old(c, i) \in Nat /\ i \in Nat
                <5>1. Types' /\ i \in Live(c)'
                    BY <1>9
                <5>2. Live(c)' \subseteq Nat
                    BY <1>2, <1>5, <5>1 DEF Live, Types
                <5> QED
                    BY <1>1, <1>6, <5>2, LiveTypes
            <4>2. Old(c, i) >= i
                BY <1>2, <4>1 DEF Old
            <4>3. Len(verdicts[c]) \in Nat
                BY <1>1 DEF Types
            <4> QED
                BY <2>1, <4>1, <4>2, <4>3
        <3> QED
            BY <1>1, <1>6, <3>1 DEF Written
    <2> QED
        BY <1>1, <1>3, <2>1 DEF Written, Outcome
<1> QED
    BY <1>9, <1>10, <1>11, <1>12, <1>13, <1>14 DEF PipelineInv
-----------------------------------------------------------------------------
(* The reader's steps. *)

(* and what its first n elements are. *)
LEMMA Taken ==
    ASSUME NEW S, NEW a \in Seq(S), NEW n \in 0 .. Len(a)
    PROVE  Range(SubSeq(a, 1, n)) = {a[k] : k \in 1 .. n}
<1>1. Len(SubSeq(a, 1, n)) = n /\ \A k \in 1 .. n : SubSeq(a, 1, n)[k] = a[k]
    OBVIOUS
<1>2. DOMAIN SubSeq(a, 1, n) = 1 .. n
    BY <1>1
<1> QED
    BY <1>1, <1>2, Zenon DEF Range

(* A block is routed to a channel, and has a position among the marks. *)
LEMMA RouteFacts ==
    ASSUME NEW s \in Seqs, NEW rtx \in BOOLEAN
    PROVE  Route(s, rtx) \in Channels /\ s % KWindow \in Positions /\ s # NoSeq
<1>1. s \in Nat
    BY Constants
<1>2. s \div RouteRun \in Nat
    BY <1>1, Constants, DivMod, Zenon
<1>3. (s \div RouteRun) % Writers \in 0 .. Writers - 1
    BY <1>2, Constants, DivMod
<1>4. Route(s, rtx) \in Channels
    BY <1>3, Constants DEF Route, Retransmissions, Channels
<1>5. s % KWindow \in Positions
    BY <1>1, Constants, DivMod DEF Positions
<1> QED
    BY <1>1, <1>4, <1>5 DEF NoSeq

(* A position is marked for one block of the window at a time. *)
LEMMA MarkOfWindow ==
    ASSUME Types, Marked, NEW s \in Seqs, rbase <= s, s < rbase + KWindow,
           mark[s % KWindow] # s
    PROVE  mark[s % KWindow] = NoSeq
<1> DEFINE p == s % KWindow
           t == mark[p]
<1>1. p \in Positions /\ s \in Nat /\ rbase \in Nat
    BY RouteFacts, Constants, Zenon DEF Types
<1> SUFFICES ASSUME t # NoSeq
             PROVE  FALSE
    OBVIOUS
<1>2. t \in Nat /\ t % KWindow = p
    BY <1>1, Constants, Zenon DEF Types, Marked
<1>3. Held(t)
    BY <1>1 DEF Marked
<1>4. t \in rbase .. rbase + KWindow - 1 /\ s \in rbase .. rbase + KWindow - 1
    BY <1>1, <1>2, <1>3, Constants DEF Held
<1> HIDE DEF t
<1>5. t = s
    BY <1>1, <1>2, <1>4, Constants, SlotSame, Zenon
<1> QED
    BY <1>5 DEF t

(* The marked positions can be counted. *)
LEMMA MarkedFinite ==
    IsFiniteSet(MarkedPositions) /\ Cardinality(MarkedPositions) \in Nat
<1>1. IsFiniteSet(Positions)
    BY Constants, FS_Interval DEF Positions
<1>2. IsFiniteSet(MarkedPositions)
    BY <1>1, FS_Subset DEF MarkedPositions
<1> QED
    BY <1>2, FS_CardinalityType

-----------------------------------------------------------------------------
(* The reader hands out a block. *)

(* The ring of the block's channel has one more live position, and it holds
   the block. *)
LEMMA DispatchRing ==
    ASSUME Types, Stages, NEW s \in Seqs, NEW rtx \in BOOLEAN, NEW authentic \in BOOLEAN,
           Dispatch(s, rtx, authentic)
    PROVE  LET d == Route(s, rtx)
               n == Len(inRing[d]) + 1
           IN  /\ inRing' \in [Channels -> Seq(Block)]
               /\ d \in Channels
               /\ n \in Live(d)' /\ inRing'[d][n].seq = s
               /\ \A c \in Channels : Len(inRing[c]) <= Len(inRing'[c])
               /\ \A c \in Channels : \A i \in 1 .. Len(inRing[c]) : inRing'[c][i] = inRing[c][i]
               /\ \A c \in Channels : \A i \in Live(c) :
                     i \in Live(c)' /\ inRing'[c][i] = inRing[c][i]
               /\ \A c \in Channels : \A i \in Live(c)' :
                     \/ i \in Live(c) /\ inRing'[c][i] = inRing[c][i]
                     \/ c = d /\ i = n
<1> DEFINE d == Route(s, rtx)
           b == [seq |-> s, authentic |-> authentic]
           n == Len(inRing[d]) + 1
<1>1. d \in Channels
    BY RouteFacts
<1>2. b \in Block /\ b.seq = s
    BY DEF Block
<1>3. inRing' = [inRing EXCEPT ![d] = Append(@, b)] /\ stage' = stage /\ batch' = batch
    BY DEF Dispatch, consumerVars
<1> HIDE DEF d, b
<1>4. inRing \in [Channels -> Seq(Block)] /\ batch[d] \in Nat /\ batch[d] <= Len(inRing[d])
    BY <1>1 DEF Types, Stages
<1>5. \A c \in Channels : c # d => inRing'[c] = inRing[c]
    BY <1>3, <1>4
<1>6. inRing'[d] = Append(inRing[d], b) /\ inRing[d] \in Seq(Block)
    BY <1>1, <1>3, <1>4
<1>7. /\ inRing'[d] \in Seq(Block)
      /\ Len(inRing'[d]) = n /\ inRing'[d][n] = b
      /\ \A i \in 1 .. Len(inRing[d]) : inRing'[d][i] = inRing[d][i]
    BY <1>2, <1>6
<1>8. inRing' \in [Channels -> Seq(Block)]
    BY <1>2, <1>3, <1>4, <1>6, <1>7
<1>9. \A c \in Channels : \A i \in 1 .. Len(inRing[c]) :
         Len(inRing[c]) <= Len(inRing'[c]) /\ inRing'[c][i] = inRing[c][i]
    BY <1>4, <1>5, <1>6, <1>7
<1>10. \A c \in Channels : c # d => Live(c)' = Live(c)
    BY <1>3, <1>5 DEF Live
<1>11. Live(d)' = Live(d) \cup {n}
    BY <1>3, <1>4, <1>6, <1>7 DEF Live
<1>12. \A c \in Channels : Live(c) \subseteq 1 .. Len(inRing[c])
    BY DEF Live
<1>13. \A c \in Channels : Len(inRing[c]) <= Len(inRing'[c])
    <2> TAKE c \in Channels
    <2>1. CASE c = d
        BY <1>6, <1>7, <2>1
    <2>2. CASE c # d
        <3>1. Len(inRing[c]) \in Nat
            BY <1>4
        <3> QED
            BY <1>5, <2>2, <3>1
    <2> QED
        BY <2>1, <2>2
<1> HIDE DEF n
<1> QED
    BY <1>1, <1>2, <1>7, <1>8, <1>9, <1>10, <1>11, <1>12, <1>13 DEF d, n

(* A block that is handed out was in no place before. *)
LEMMA DispatchKeeps ==
    ASSUME PipelineInv, NEW s \in Seqs, NEW rtx \in BOOLEAN, NEW authentic \in BOOLEAN,
           Dispatch(s, rtx, authentic)
    PROVE  PipelineInv'
<1> DEFINE d == Route(s, rtx)
           n == Len(inRing[d]) + 1
           p == s % KWindow
<1>1. Types /\ Stages /\ Distinct /\ Marked /\ Counted /\ Written
    BY DEF PipelineInv
<1>2. /\ s >= rbase /\ s - rbase < KWindow /\ s \notin got /\ mark[p] # s
      /\ mark' = [mark EXCEPT ![p] = s] /\ pending' = pending + 1
      /\ rbase' = rbase /\ got' = got /\ done' = done
      /\ verdicts' = verdicts /\ batch' = batch /\ stage' = stage /\ writes' = writes
    BY DEF Dispatch, consumerVars
<1>3. p \in Positions /\ s # NoSeq /\ s \in Nat /\ rbase \in Nat /\ KWindow \in Nat
    BY <1>1, RouteFacts, Constants DEF Types
<1>4. /\ inRing' \in [Channels -> Seq(Block)]
      /\ d \in Channels /\ n \in Live(d)' /\ inRing'[d][n].seq = s
      /\ \A c \in Channels : Len(inRing[c]) <= Len(inRing'[c])
      /\ \A c \in Channels : \A i \in 1 .. Len(inRing[c]) : inRing'[c][i] = inRing[c][i]
      /\ \A c \in Channels : \A i \in Live(c) : i \in Live(c)' /\ inRing'[c][i] = inRing[c][i]
      /\ \A c \in Channels : \A i \in Live(c)' :
            (i \in Live(c) /\ inRing'[c][i] = inRing[c][i]) \/ (c = d /\ i = n)
    BY <1>1, DispatchRing
<1> HIDE DEF d, n, p
<1>5. mark[p] = NoSeq
    BY <1>1, <1>2, <1>3, MarkOfWindow DEF p
<1>6. mark \in [Positions -> Seqs \cup {NoSeq}]
    BY <1>1 DEF Types
<1>7. mark'[p] = s /\ \A q \in Positions : q # p => mark'[q] = mark[q]
    BY <1>2, <1>3, <1>6
<1>8. /\ \A c \in Channels : \A i \in Live(c) : inRing[c][i].seq # s
      /\ \A c \in Channels : \A i \in 1 .. Len(done[c]) : done[c][i].seq # s
    BY <1>1, <1>2 DEF Marked, Held, p
<1>9. ASSUME NEW t \in Seqs, Held(t)
      PROVE  Held(t)'
    <2>1. t % KWindow \in Positions /\ t # NoSeq
        BY RouteFacts
    <2>2. t % KWindow # p
        BY <1>5, <1>9, <2>1 DEF Held
    <2> QED
        BY <1>2, <1>7, <1>9, <2>1, <2>2 DEF Held
<1>10. Types'
    BY <1>1, <1>2, <1>3, <1>4, <1>6 DEF Types
<1>11. Stages'
    <2> SUFFICES ASSUME NEW c \in Channels
                 PROVE  /\ batch[c] <= Len(inRing'[c])
                        /\ stage[c] = "writing" =>
                              \A k \in 1 .. Len(verdicts[c]) :
                                  verdicts[c][k].seq = inRing'[c][k].seq
        BY <1>1, <1>2 DEF Stages, Capacity
    <2>1. /\ Len(inRing[c]) \in Nat /\ Len(inRing'[c]) \in Nat /\ batch[c] \in Nat
          /\ Len(verdicts[c]) \in Nat
        BY <1>1, <1>4 DEF Types
    <2>2. batch[c] <= Len(inRing[c]) /\ Len(inRing[c]) <= Len(inRing'[c])
        BY <1>1, <1>4 DEF Stages
    <2>3. ASSUME stage[c] = "writing", NEW k \in 1 .. Len(verdicts[c])
          PROVE  verdicts[c][k].seq = inRing'[c][k].seq
        <3>1. Len(verdicts[c]) <= batch[c] /\ verdicts[c][k].seq = inRing[c][k].seq
            BY <1>1, <2>3 DEF Stages
        <3>2. k \in 1 .. Len(inRing[c])
            BY <2>1, <2>2, <3>1
        <3> QED
            BY <1>4, <3>1, <3>2
    <2> QED
        BY <2>1, <2>2, <2>3
<1>12. Distinct'
    <2>1. \A c, e \in Channels : \A i \in Live(c)', j \in Live(e)' :
             inRing'[c][i].seq = inRing'[e][j].seq => c = e /\ i = j
        <3> SUFFICES ASSUME NEW c \in Channels, NEW e \in Channels,
                            NEW i \in Live(c)', NEW j \in Live(e)',
                            inRing'[c][i].seq = inRing'[e][j].seq
                     PROVE  c = e /\ i = j
            OBVIOUS
        <3>1. CASE i \in Live(c) /\ j \in Live(e)
            BY <1>1, <1>4, <3>1 DEF Distinct
        <3>2. CASE c = d /\ i = n
            BY <1>4, <1>8, <3>2
        <3>3. CASE e = d /\ j = n
            BY <1>4, <1>8, <3>3
        <3> QED
            BY <1>4, <3>1, <3>2, <3>3
    <2>2. \A c, e \in Channels : \A i \in Live(c)', j \in 1 .. Len(done[e]) :
             inRing'[c][i].seq # done[e][j].seq
        BY <1>1, <1>4, <1>8 DEF Distinct
    <2> QED
        BY <1>1, <1>2, <2>1, <2>2 DEF Distinct
<1>13. Marked'
    <2>1. Held(s)'
        BY <1>2, <1>3, <1>7 DEF Held, p
    <2>2. \A c \in Channels : \A i \in Live(c)' : Held(inRing[c][i].seq)'
        BY <1>1, <1>4, <1>9, <2>1, LiveTypes, Zenon DEF Marked
    <2>3. ASSUME NEW c \in Channels, NEW i \in 1 .. Len(done'[c])
          PROVE  Held(done[c][i].seq)'
        <3>1. i \in 1 .. Len(done[c])
            BY <1>2
        <3>2. Held(done[c][i].seq) /\ done[c][i].seq \in Seqs
            BY <1>1, <3>1, DoneTypes, Zenon DEF Marked
        <3> QED
            BY <1>2, <1>9, <3>2, Zenon
    <2>4. ASSUME NEW q \in Positions, mark'[q] # NoSeq
          PROVE  /\ mark'[q] % KWindow = q
                 /\ \/ \E c \in Channels : \E i \in Live(c)' : inRing'[c][i].seq = mark'[q]
                    \/ \E c \in Channels : \E i \in 1 .. Len(done'[c]) :
                          done'[c][i].seq = mark'[q]
        <3>1. CASE q = p
            BY <1>4, <1>7, <3>1 DEF p
        <3>2. CASE q # p
            <4>1. mark'[q] = mark[q] /\ mark[q] # NoSeq
                BY <1>7, <2>4, <3>2
            <4>2. /\ mark[q] % KWindow = q
                  /\ \/ \E c \in Channels : \E i \in Live(c) : inRing[c][i].seq = mark[q]
                     \/ \E c \in Channels : \E i \in 1 .. Len(done[c]) :
                           done[c][i].seq = mark[q]
                BY <1>1, <4>1 DEF Marked
            <4> QED
                BY <1>2, <1>4, <4>1, <4>2
        <3> QED
            BY <3>1, <3>2
    <2> QED
        BY <2>2, <2>3, <2>4 DEF Marked
<1>14. Counted'
    <2>1. MarkedPositions' = MarkedPositions \cup {p} /\ p \notin MarkedPositions
        BY <1>3, <1>5, <1>7 DEF MarkedPositions
    <2>2. Cardinality(MarkedPositions') = Cardinality(MarkedPositions) + 1
        BY <2>1, MarkedFinite, OneMore, Zenon
    <2> QED
        BY <1>1, <1>2, <2>2 DEF Counted
<1>15. Written'
    <2>1. writes[s] = 0
        BY <1>1, <1>2 DEF Written, p
    <2>2. \A t \in Seqs \ got : mark'[t % KWindow] # t => writes[t] = 0
        <3> SUFFICES ASSUME NEW t \in Seqs \ got, mark'[t % KWindow] # t
                     PROVE  mark[t % KWindow] # t
            BY <1>1 DEF Written
        <3>1. t % KWindow \in Positions /\ t # NoSeq
            BY RouteFacts
        <3> QED
            BY <1>5, <1>7, <3>1
    <2>3. \A c \in Channels : \A i \in Live(c)' :
             i > Len(verdicts[c]) => writes[inRing'[c][i].seq] = 0
        BY <1>1, <1>4, <2>1 DEF Written
    <2>4. /\ \A c \in Channels : \A k \in 1 .. Len(verdicts'[c]) :
                writes'[verdicts'[c][k].seq] = Outcome(verdicts'[c][k])
          /\ \A c \in Channels : \A k \in 1 .. Len(done'[c]) :
                writes'[done'[c][k].seq] = Outcome(done'[c][k])
          /\ \A t \in got' : writes'[t] = 1
        BY <1>1, <1>2 DEF Written
    <2> QED
        BY <1>2, <2>2, <2>3, <2>4 DEF Written
<1> QED
    BY <1>10, <1>11, <1>12, <1>13, <1>14, <1>15 DEF PipelineInv

-----------------------------------------------------------------------------
(* The reader collects verdicts. *)

(* The blocks whose verdicts are the n oldest of a channel. *)
Collected(d, n) == {done[d][k].seq : k \in 1 .. n}

(* Collecting does to the rings of verdicts, the marks and the window what
   the places need to know. *)
LEMMA CollectFacts ==
    ASSUME Types, NEW d \in Channels, NEW n, Collect(d, n)
    PROVE  /\ n \in 1 .. Len(done[d]) /\ pending' = pending - n
           /\ done' \in [Channels -> Seq(Verdict)]
           /\ \A c \in Channels : c # d => done'[c] = done[c]
           /\ Len(done'[d]) = Len(done[d]) - n
           /\ \A k \in 1 .. Len(done[d]) - n : done'[d][k] = done[d][n + k]
           /\ mark' = [p \in Positions |->
                          IF mark[p] \in Collected(d, n) THEN NoSeq ELSE mark[p]]
           /\ \A t : t \in got' <=>
                 \/ t \in got
                 \/ \E k \in 1 .. n : done[d][k].seq = t /\ done[d][k].result = "written"
           /\ rbase' \in Nat /\ rbase' >= rbase
           /\ rbase .. rbase' - 1 \subseteq got'
<1> DEFINE taken == Range(SubSeq(done[d], 1, n))
<1>1. /\ n \in 1 .. Len(done[d]) /\ pending' = pending - n
      /\ done' = [done EXCEPT ![d] = SubSeq(@, n + 1, Len(@))]
      /\ mark' = [i \in Positions |->
                     IF \E v \in taken : v.seq = mark[i] THEN NoSeq ELSE mark[i]]
      /\ AcceptAll({v.seq : v \in {u \in taken : u.result = "written"}})
    BY DEF Collect, Positions
<1>2. done \in [Channels -> Seq(Verdict)] /\ done[d] \in Seq(Verdict) /\ rbase \in Nat
    BY DEF Types
<1>3. n \in 0 .. Len(done[d])
    BY <1>1, <1>2
<1>4. taken = {done[d][k] : k \in 1 .. n}
    BY <1>2, <1>3, Taken
<1> HIDE DEF taken
<1> DEFINE rest == SubSeq(done[d], n + 1, Len(done[d]))
<1>5. /\ rest \in Seq(Verdict) /\ Len(rest) = Len(done[d]) - n
      /\ \A k \in 1 .. Len(done[d]) - n : rest[k] = done[d][n + k]
    BY <1>2, <1>3, Dropped
<1>6. done' = [done EXCEPT ![d] = rest]
    BY <1>1
<1> HIDE DEF rest
<1>7. done' \in [Channels -> Seq(Verdict)] /\ done'[d] = rest
    BY <1>2, <1>5, <1>6
<1>8. \A c \in Channels : c # d => done'[c] = done[c]
    BY <1>2, <1>6
<1>9. \A p \in Positions : (\E v \in taken : v.seq = mark[p]) <=> mark[p] \in Collected(d, n)
    BY <1>4 DEF Collected
<1>10. mark' = [p \in Positions |-> IF mark[p] \in Collected(d, n) THEN NoSeq ELSE mark[p]]
    BY <1>1, <1>9
<1>11. got' = got \cup {v.seq : v \in {u \in taken : u.result = "written"}}
    BY <1>1 DEF AcceptAll
<1>12. \A t : t \in got' <=>
          \/ t \in got
          \/ \E k \in 1 .. n : done[d][k].seq = t /\ done[d][k].result = "written"
    BY <1>4, <1>11
<1>13. PICK m \in rbase .. rbase + KWindow : rbase .. m - 1 \subseteq got' /\ rbase' = m
    BY <1>1 DEF AcceptAll
<1>14. rbase' \in Nat /\ rbase' >= rbase /\ rbase .. rbase' - 1 \subseteq got'
    BY <1>2, <1>13, Constants
<1> QED
    BY <1>1, <1>5, <1>7, <1>8, <1>10, <1>12, <1>14

(* The verdicts collected are those of as many marks. *)
LEMMA CollectedCount ==
    ASSUME Types, Distinct, Marked, NEW d \in Channels, NEW n \in 1 .. Len(done[d])
    PROVE  LET P == {p \in Positions : mark[p] \in Collected(d, n)}
           IN  P \subseteq MarkedPositions /\ Cardinality(P) = n
<1> DEFINE P == {p \in Positions : mark[p] \in Collected(d, n)}
           f == [k \in 1 .. n |-> done[d][k].seq % KWindow]
<1>1. n \in Nat /\ 1 .. n \subseteq 1 .. Len(done[d])
    BY DEF Types
<1>2. \A k \in 1 .. n : /\ done[d][k].seq \in Seqs
                        /\ mark[done[d][k].seq % KWindow] = done[d][k].seq
                        /\ done[d][k].seq % KWindow \in Positions
    BY <1>1, DoneTypes, RouteFacts, Zenon DEF Marked, Held
<1>3. P \subseteq MarkedPositions
    BY <1>2, RouteFacts, Zenon DEF MarkedPositions, Collected
<1>4. f \in [1 .. n -> P]
    BY <1>2 DEF Collected
<1>5. ASSUME NEW j \in 1 .. n, NEW k \in 1 .. n, f[j] = f[k]
      PROVE  j = k
    <2>1. done[d][j].seq = done[d][k].seq
        BY <1>2, <1>5
    <2> QED
        BY <1>1, <2>1 DEF Distinct
<1>6. ASSUME NEW p \in P
      PROVE  \E k \in 1 .. n : f[k] = p
    <2>1. PICK k \in 1 .. n : mark[p] = done[d][k].seq
        BY DEF Collected
    <2>2. mark[p] # NoSeq
        BY <1>2, <2>1, RouteFacts, Zenon
    <2>3. mark[p] % KWindow = p
        BY <2>2 DEF Marked
    <2> QED
        BY <2>1, <2>3
<1> HIDE DEF f, P
<1>7. f \in Bijection(1 .. n, P)
    BY <1>4, <1>5, <1>6 DEF Bijection, Injection, Surjection, IsInjective
<1>8. Cardinality(P) = n
    BY <1>1, <1>7, FS_CountingElements DEF ExistsBijection
<1> QED
    BY <1>3, <1>8 DEF P

(* A block in the window and not passed by it is still in the window. *)
LEMMA StillAhead ==
    ASSUME NEW lo \in Nat, NEW hi \in Nat, NEW w \in Nat, NEW t \in Nat,
           lo <= hi, lo <= t, t < lo + w, t \notin lo .. hi - 1
    PROVE  hi <= t /\ t < hi + w
    OBVIOUS

(* The places left after collecting hold other blocks than those collected. *)
LEMMA CollectKeeps ==
    ASSUME PipelineInv, NEW d \in Channels, NEW n, Collect(d, n)
    PROVE  PipelineInv'
<1> DEFINE Old(c, i) == IF c = d THEN n + i ELSE i
           T == Collected(d, n)
<1>1. Types /\ Stages /\ Distinct /\ Marked /\ Counted /\ Written
    BY DEF PipelineInv
<1>2. /\ n \in 1 .. Len(done[d]) /\ pending' = pending - n
      /\ done' \in [Channels -> Seq(Verdict)]
      /\ \A c \in Channels : c # d => done'[c] = done[c]
      /\ Len(done'[d]) = Len(done[d]) - n
      /\ \A k \in 1 .. Len(done[d]) - n : done'[d][k] = done[d][n + k]
      /\ mark' = [p \in Positions |-> IF mark[p] \in T THEN NoSeq ELSE mark[p]]
      /\ \A t : t \in got' <=>
            \/ t \in got
            \/ \E k \in 1 .. n : done[d][k].seq = t /\ done[d][k].result = "written"
      /\ rbase' \in Nat /\ rbase' >= rbase
      /\ rbase .. rbase' - 1 \subseteq got'
    BY <1>1, CollectFacts, Zenon
<1>3. /\ inRing' = inRing /\ verdicts' = verdicts /\ batch' = batch /\ stage' = stage
      /\ writes' = writes
    BY DEF Collect, consumerVars
<1>4. \A c \in Channels : Len(done[c]) \in Nat /\ Len(done'[c]) \in Nat
    BY <1>1, <1>2 DEF Types
<1>5. n \in Nat /\ \A k \in 1 .. n : k \in 1 .. Len(done[d])
    <2>1. n \in 1 .. Len(done[d]) /\ Len(done[d]) \in Nat
        BY <1>2, <1>4
    <2> QED
        BY <2>1
<1>6. rbase' \in Nat /\ rbase' >= rbase /\ rbase .. rbase' - 1 \subseteq got'
    BY <1>2
<1>7. \A c \in Channels : Live(c)' = Live(c)
    BY <1>3 DEF Live
<1>8. ASSUME NEW c \in Channels, NEW i \in 1 .. Len(done'[c])
      PROVE  /\ Old(c, i) \in 1 .. Len(done[c]) /\ done'[c][i] = done[c][Old(c, i)]
             /\ c = d => Old(c, i) > n
    <2>1. CASE c = d
        BY <1>2, <1>4, <2>1
    <2>2. CASE c # d
        BY <1>2, <1>4, <2>2
    <2> QED
        BY <2>1, <2>2
<1>9. ASSUME NEW c \in Channels, NEW j \in 1 .. Len(done[c]), c = d => j > n
      PROVE  \E i \in 1 .. Len(done'[c]) : done'[c][i] = done[c][j]
    <2>1. CASE c = d
        <3>1. j - n \in 1 .. Len(done'[d]) /\ n + (j - n) = j
            BY <1>2, <1>4, <1>9, <2>1
        <3>2. done'[d][j - n] = done[d][n + (j - n)]
            BY <1>2, <3>1
        <3> QED
            BY <2>1, <3>1, <3>2
    <2>2. CASE c # d
        BY <1>2, <2>2
    <2> QED
        BY <2>1, <2>2
<1>10. ASSUME NEW t \in Seqs, Held(t), t \notin T
      PROVE  Held(t)'
    <2>1. t \in Nat /\ rbase \in Nat /\ KWindow \in Nat /\ rbase' \in Nat /\ rbase <= rbase'
        BY <1>1, <1>6, Constants DEF Types
    <2>2. t \notin got'
        BY <1>2, <1>4, <1>10 DEF Held, Collected
    <2>3. t \notin rbase .. rbase' - 1
        BY <1>6, <2>2
    <2>4. rbase' <= t /\ t < rbase' + KWindow
        BY <1>10, <2>1, <2>3, StillAhead, Zenon DEF Held
    <2>5. mark'[t % KWindow] = t
        BY <1>2, <1>10, RouteFacts, Zenon DEF Held
    <2> QED
        BY <2>2, <2>4, <2>5 DEF Held
<1>11. \A c \in Channels : \A i \in Live(c) : inRing[c][i].seq \notin T
    <2>1. \A c, e \in Channels : \A i \in Live(c), j \in 1 .. Len(done[e]) :
             inRing[c][i].seq # done[e][j].seq
        BY <1>1 DEF Distinct
    <2> QED
        BY <1>5, <2>1 DEF Collected
<1>12. ASSUME NEW c \in Channels, NEW i \in 1 .. Len(done'[c])
       PROVE  done'[c][i].seq \notin T
    <2> SUFFICES ASSUME NEW k \in 1 .. n, done[d][k].seq = done[c][Old(c, i)].seq
                 PROVE  FALSE
        BY <1>8 DEF Collected
    <2>1. k \in 1 .. Len(done[d])
        BY <1>2, <1>4
    <2>2. d = c /\ k = Old(c, i)
        BY <1>1, <1>8, <2>1 DEF Distinct
    <2> QED
        BY <1>2, <1>4, <1>8, <2>2
<1> HIDE DEF Old, T
<1>13. Types'
    <2>1. got' \subseteq Seqs
        <3>1. got \subseteq Seqs
            BY <1>1 DEF Types
        <3>2. \A k \in 1 .. n : done[d][k].seq \in Seqs
            BY <1>1, <1>5, DoneTypes
        <3>3. \A x \in got' : x \in got \/ \E k \in 1 .. n : done[d][k].seq = x
            BY <1>2, Zenon
        <3> QED
            BY <3>1, <3>2, <3>3
    <2>2. mark' \in [Positions -> Seqs \cup {NoSeq}]
        BY <1>1, <1>2 DEF Types
    <2>3. pending' \in Int
        BY <1>1, <1>2 DEF Types
    <2> QED
        BY <1>1, <1>2, <1>3, <2>1, <2>2, <2>3 DEF Types
<1>14. Stages'
    <2>1. \A c \in Channels : Len(done'[c]) <= Len(done[c])
        BY <1>2, <1>4
    <2>2. \A c \in Channels : Capacity(c) \in Nat /\ batch[c] \in Nat
        BY <1>1, CapacityType DEF Types
    <2> SUFFICES ASSUME NEW c \in Channels
                 PROVE  /\ Len(done'[c]) <= Capacity(c)
                        /\ stage[c] = "writing" => Len(done'[c]) + batch[c] <= Capacity(c)
        BY <1>1, <1>3 DEF Stages, Capacity
    <2>3. Len(done[c]) <= Capacity(c)
        BY <1>1 DEF Stages
    <2>4. stage[c] = "writing" => Len(done[c]) + batch[c] <= Capacity(c)
        BY <1>1, Zenon DEF Stages
    <2> QED
        BY <1>4, <2>1, <2>2, <2>3, <2>4
<1>15. Distinct'
    <2>1. ASSUME NEW c \in Channels, NEW e \in Channels,
                 NEW i \in 1 .. Len(done'[c]), NEW j \in 1 .. Len(done'[e]),
                 done'[c][i].seq = done'[e][j].seq
          PROVE  c = e /\ i = j
        <3>1. c = e /\ Old(c, i) = Old(e, j)
            <4>1. done[c][Old(c, i)].seq = done[e][Old(e, j)].seq
                BY <1>8, <2>1, Zenon
            <4>2. Old(c, i) \in 1 .. Len(done[c]) /\ Old(e, j) \in 1 .. Len(done[e])
                BY <1>8
            <4> QED
                BY <1>1, <4>1, <4>2 DEF Distinct
        <3>2. i \in Int /\ j \in Int /\ n \in Int
            BY <1>5
        <3> QED
            BY <3>1, <3>2 DEF Old
    <2>2. \A c, e \in Channels : \A i \in Live(c)', j \in 1 .. Len(done'[e]) :
             inRing'[c][i].seq # done'[e][j].seq
        BY <1>1, <1>3, <1>7, <1>8 DEF Distinct
    <2> QED
        BY <1>1, <1>3, <1>7, <2>1, <2>2 DEF Distinct
<1>16. Marked'
    <2>1. \A c \in Channels : \A i \in Live(c)' : Held(inRing[c][i].seq)'
        BY <1>1, <1>3, <1>7, <1>10, <1>11, LiveTypes DEF Marked
    <2>2. ASSUME NEW c \in Channels, NEW i \in 1 .. Len(done'[c])
          PROVE  Held(done[c][i].seq)'
        <3>1. Held(done[c][Old(c, i)].seq) /\ done[c][Old(c, i)].seq \in Seqs
            BY <1>1, <1>8, DoneTypes DEF Marked
        <3> QED
            BY <1>8, <1>10, <1>12, <3>1, Zenon
    <2>3. ASSUME NEW p \in Positions, mark'[p] # NoSeq
          PROVE  /\ mark'[p] % KWindow = p
                 /\ \/ \E c \in Channels : \E i \in Live(c)' : inRing'[c][i].seq = mark'[p]
                    \/ \E c \in Channels : \E i \in 1 .. Len(done'[c]) :
                          done'[c][i].seq = mark'[p]
        <3>1. mark'[p] = mark[p] /\ mark[p] \notin T
            BY <1>2, <2>3
        <3>2. /\ mark[p] % KWindow = p
              /\ \/ \E c \in Channels : \E i \in Live(c) : inRing[c][i].seq = mark[p]
                 \/ \E c \in Channels : \E i \in 1 .. Len(done[c]) : done[c][i].seq = mark[p]
            BY <1>1, <2>3, <3>1 DEF Marked
        <3>3. CASE \E c \in Channels : \E i \in Live(c) : inRing[c][i].seq = mark[p]
            BY <1>3, <1>7, <3>1, <3>2, <3>3
        <3>4. ASSUME NEW c \in Channels, NEW j \in 1 .. Len(done[c]), done[c][j].seq = mark[p]
              PROVE  \E i \in 1 .. Len(done'[c]) : done'[c][i].seq = mark'[p]
            <4>1. c = d => j > n
                BY <1>2, <1>4, <3>1, <3>4 DEF T, Collected
            <4> QED
                BY <1>9, <3>1, <3>4, <4>1
        <3> QED
            BY <3>1, <3>2, <3>3, <3>4
    <2> QED
        BY <2>1, <2>2, <2>3 DEF Marked
<1>17. Counted'
    <2> DEFINE P == {p \in Positions : mark[p] \in T}
    <2>1. P \subseteq MarkedPositions /\ Cardinality(P) = n
        BY <1>1, <1>2, CollectedCount, Zenon DEF T
    <2>2. MarkedPositions' = MarkedPositions \ P
        BY <1>2 DEF MarkedPositions
    <2> HIDE DEF P
    <2>3. MarkedPositions \cap P = P
        BY <2>1
    <2>4. Cardinality(MarkedPositions') = Cardinality(MarkedPositions) - n
        BY <2>1, <2>2, <2>3, MarkedFinite, FS_Difference, Zenon
    <2> QED
        BY <1>1, <1>2, <2>4 DEF Counted
<1>18. Written'
    <2>1. ASSUME NEW c \in Channels, NEW k \in 1 .. Len(done'[c])
          PROVE  writes[done'[c][k].seq] = Outcome(done'[c][k])
        <3>1. done'[c][k] = done[c][Old(c, k)] /\ Old(c, k) \in 1 .. Len(done[c])
            BY <1>8
        <3>2. writes[done[c][Old(c, k)].seq] = Outcome(done[c][Old(c, k)])
            BY <1>1, <3>1, Zenon DEF Written
        <3> QED
            BY <3>1, <3>2, Zenon
    <2>2. ASSUME NEW t \in Seqs \ got', mark'[t % KWindow] # t
          PROVE  writes[t] = 0
        <3>1. t \notin got /\ t % KWindow \in Positions
            BY <1>2, RouteFacts, Zenon
        <3>2. CASE t \in T
            <4>1. PICK k \in 1 .. n : done[d][k].seq = t
                BY <3>2 DEF T, Collected
            <4>2. done[d][k].result # "written"
                BY <1>2, <2>2, <4>1
            <4>3. k \in 1 .. Len(done[d])
                BY <1>2, <1>4
            <4> QED
                BY <1>1, <4>1, <4>2, <4>3 DEF Written, Outcome
        <3>3. CASE t \notin T
            BY <1>1, <1>2, <2>2, <3>1, <3>3 DEF Written
        <3> QED
            BY <3>2, <3>3
    <2>3. ASSUME NEW t \in got'
          PROVE  writes[t] = 1
        <3>1. CASE t \in got
            BY <1>1, <3>1 DEF Written
        <3>2. ASSUME NEW k \in 1 .. n, done[d][k].seq = t, done[d][k].result = "written"
              PROVE  writes[t] = 1
            <4>1. k \in 1 .. Len(done[d])
                BY <1>2, <1>4
            <4> QED
                BY <1>1, <3>2, <4>1 DEF Written, Outcome
        <3> QED
            BY <1>2, <3>1, <3>2
    <2> QED
        BY <1>1, <1>3, <1>7, <2>1, <2>2, <2>3 DEF Written, Outcome
<1> QED
    BY <1>13, <1>14, <1>15, <1>16, <1>17, <1>18 DEF PipelineInv

-----------------------------------------------------------------------------
(* The invariant holds, and what it says. *)

(* Nothing is routed, written or marked in the first state. *)
LEMMA InitEstablishes ==
    ASSUME PipeInit
    PROVE  PipelineInv
<1>1. \A c \in Channels : /\ inRing[c] = <<>> /\ done[c] = <<>> /\ verdicts[c] = <<>>
                          /\ batch[c] = 0 /\ stage[c] = "idle"
    BY DEF PipeInit
<1>2. \A c \in Channels : Len(inRing[c]) = 0 /\ Len(done[c]) = 0 /\ Len(verdicts[c]) = 0
    BY <1>1
<1>3. \A c \in Channels : Live(c) = {}
    BY <1>2 DEF Live
<1>4. <<>> \in Seq(Block) /\ <<>> \in Seq(Verdict)
    OBVIOUS
<1>5. \A p \in Positions : mark[p] = NoSeq
    BY DEF PipeInit, Positions
<1>6. Types
    BY <1>4 DEF PipeInit, Types, Positions
<1>7. Stages
    BY <1>1, <1>2, CapacityType DEF Stages
<1>8. Distinct
    BY <1>2, <1>3 DEF Distinct
<1>9. Marked
    BY <1>2, <1>3, <1>5 DEF Marked
<1>10. Counted
    <2>1. MarkedPositions = {}
        BY <1>5 DEF MarkedPositions
    <2> QED
        BY <2>1, FS_EmptySet DEF Counted, PipeInit
<1>11. Written
    BY <1>2, <1>3 DEF Written, PipeInit
<1> QED
    BY <1>6, <1>7, <1>8, <1>9, <1>10, <1>11 DEF PipelineInv

(* The invariant of the pipeline. *)
LEMMA PipelineInvHolds == PipeSpec => []PipelineInv
<1>1. PipeInit => PipelineInv
    BY InitEstablishes
<1>2. PipelineInv /\ [PipeNext]_pipeVars => PipelineInv'
    <2> SUFFICES ASSUME PipelineInv, [PipeNext]_pipeVars
                 PROVE  PipelineInv'
        OBVIOUS
    <2>1. ASSUME NEW s \in Seqs, NEW rtx \in BOOLEAN, NEW authentic \in {TRUE, ~ Corruption},
                 Dispatch(s, rtx, authentic)
          PROVE  PipelineInv'
        <3>1. authentic \in BOOLEAN
            BY Zenon
        <3> QED
            BY <2>1, <3>1, DispatchKeeps
    <2>2. ASSUME NEW c \in Channels, NEW n, Collect(c, n)
          PROVE  PipelineInv'
        BY <2>2, CollectKeeps
    <2>3. CASE GiveUp
        BY <2>3, StutterKeeps DEF GiveUp
    <2>4. ASSUME NEW c \in Channels, NEW n, TakeBatch(c, n)
          PROVE  PipelineInv'
        BY <2>4, TakeBatchKeeps
    <2>5. ASSUME NEW c \in Channels, WriteRun(c)
          PROVE  PipelineInv'
        BY <2>5, WriteRunKeeps
    <2>6. ASSUME NEW c \in Channels, CommitBatch(c)
          PROVE  PipelineInv'
        BY <2>6, CommitBatchKeeps
    <2>7. ASSUME NEW c \in Channels, ConsumeBatch(c)
          PROVE  PipelineInv'
        BY <2>7, ConsumeBatchKeeps
    <2>8. CASE UNCHANGED pipeVars
        BY <2>8, StutterKeeps DEF pipeVars, readerVars
    <2> QED
        BY <2>1, <2>2, <2>3, <2>4, <2>5, <2>6, <2>7, <2>8, Zenon DEF PipeNext
<1> QED
    BY <1>1, <1>2, PTL DEF PipeSpec

(* A block is in flight exactly when some place holds it. *)
LEMMA InFlightPlaces ==
    ASSUME Types, Stages, NEW s
    PROVE  InFlight(s) <=>
              \/ \E c \in Channels : \E i \in Live(c) : inRing[c][i].seq = s
              \/ \E c \in Channels : \E i \in 1 .. Len(done[c]) : done[c][i].seq = s
<1>1. ASSUME NEW c \in Channels
      PROVE  Range(done[c]) = {done[c][i] : i \in 1 .. Len(done[c])}
    <2>1. DOMAIN done[c] = 1 .. Len(done[c])
        BY DEF Types
    <2> QED
        BY <2>1 DEF Range
<1>2. ASSUME NEW c \in Channels
      PROVE  Range(Unreported(c)) = {inRing[c][i] : i \in Live(c)}
    <2> DEFINE q == inRing[c]
               b == batch[c]
               rest == SubSeq(q, b + 1, Len(q))
    <2>1. q \in Seq(Block) /\ b \in Nat /\ b <= Len(q) /\ Len(q) \in Nat
        BY DEF Types, Stages
    <2>2. CASE stage[c] # "reported"
        <3>1. Live(c) = 1 .. Len(q) /\ Unreported(c) = q
            BY <2>2 DEF Live, Unreported
        <3>2. DOMAIN q = 1 .. Len(q)
            BY <2>1
        <3> QED
            BY <3>1, <3>2 DEF Range
    <2>3. CASE stage[c] = "reported"
        <3>1. Live(c) = {i \in 1 .. Len(q) : i > b} /\ Unreported(c) = rest
            BY <2>3 DEF Live, Unreported
        <3>2. inRing[c] = q
            OBVIOUS
        <3> HIDE DEF q, b
        <3>3. b \in 0 .. Len(q)
            BY <2>1
        <3>4. /\ rest \in Seq(Block) /\ Len(rest) = Len(q) - b
              /\ \A k \in 1 .. Len(q) - b : rest[k] = q[b + k]
            BY <2>1, <3>3, Dropped
        <3> HIDE DEF rest
        <3>5. Range(rest) = {rest[k] : k \in 1 .. Len(q) - b}
            <4>1. DOMAIN rest = 1 .. Len(q) - b
                BY <3>4
            <4> QED
                BY <4>1 DEF Range
        <3>6. ASSUME NEW k \in 1 .. Len(q) - b
              PROVE  \E i \in Live(c) : rest[k] = q[i]
            <4>1. b + k \in Live(c)
                BY <2>1, <3>1
            <4> QED
                BY <3>4, <4>1
        <3>7. ASSUME NEW i \in Live(c)
              PROVE  \E k \in 1 .. Len(q) - b : rest[k] = q[i]
            <4>1. i - b \in 1 .. Len(q) - b /\ b + (i - b) = i
                BY <2>1, <3>1
            <4> QED
                BY <3>4, <4>1
        <3> QED
            BY <3>1, <3>2, <3>5, <3>6, <3>7
    <2> QED
        BY <2>2, <2>3
<1>3. ASSUME NEW c \in Channels
      PROVE  (\E b \in Range(Unreported(c)) \cup Range(done[c]) : b.seq = s) <=>
                \/ \E i \in Live(c) : inRing[c][i].seq = s
                \/ \E i \in 1 .. Len(done[c]) : done[c][i].seq = s
    <2>1. (\E b \in Range(done[c]) : b.seq = s) <=>
             \E i \in 1 .. Len(done[c]) : done[c][i].seq = s
        <3> DEFINE I == 1 .. Len(done[c])
        <3>1. Range(done[c]) = {done[c][i] : i \in I}
            BY <1>1
        <3> HIDE DEF I
        <3>2. (\E b \in Range(done[c]) : b.seq = s) <=> \E i \in I : done[c][i].seq = s
            BY <3>1
        <3> QED
            BY <3>2 DEF I
    <2>2. (\E b \in Range(Unreported(c)) : b.seq = s) <=>
             \E i \in Live(c) : inRing[c][i].seq = s
        BY <1>2
    <2> QED
        BY <2>1, <2>2
<1> QED
    BY <1>3 DEF InFlight

(* WrittenOnce, for every number of writers and size of window, ring and
   batch: drain_channel() writes a block at most once however often and over
   whichever ring it arrives, and on_receive() only sees blocks written. *)
THEOREM BlocksWrittenOnce == PipeSpec => []WrittenOnce
<1>1. PipelineInv => WrittenOnce
    <2> SUFFICES ASSUME PipelineInv, NEW s \in Seqs
                 PROVE  writes[s] <= 1
        BY DEF PipelineInv, Written, WrittenOnce
    <2>1. Types /\ Stages /\ Marked /\ Written
        BY DEF PipelineInv
    <2>2. CASE s \in got
        BY <2>1, <2>2 DEF Written
    <2>3. CASE s \notin got /\ mark[s % KWindow] # s
        BY <2>1, <2>3 DEF Written
    <2>4. ASSUME NEW c \in Channels, NEW i \in 1 .. Len(done[c]), done[c][i].seq = s
          PROVE  writes[s] <= 1
        BY <2>1, <2>4 DEF Written, Outcome
    <2>5. ASSUME NEW c \in Channels, NEW i \in Live(c), inRing[c][i].seq = s
          PROVE  writes[s] <= 1
        <3>1. i \in 1 .. Len(inRing[c]) /\ Len(verdicts[c]) \in Nat
            <4>1. i \in 1 .. Len(inRing[c])
                BY <2>1, LiveTypes
            <4>2. Len(verdicts[c]) \in Nat
                BY <2>1 DEF Types
            <4> QED
                BY <4>1, <4>2
        <3>2. CASE i > Len(verdicts[c])
            BY <2>1, <2>5, <3>2 DEF Written
        <3>3. CASE i \in 1 .. Len(verdicts[c])
            <4>1. verdicts[c][i].seq = s
                <5>1. verdicts[c] # <<>>
                    BY <3>3
                <5>2. stage[c] = "writing"
                    BY <2>1, <5>1 DEF Stages
                <5> QED
                    BY <2>1, <2>5, <3>3, <5>2 DEF Stages
            <4> QED
                BY <2>1, <3>3, <4>1 DEF Written, Outcome
        <3> QED
            BY <3>1, <3>2, <3>3
    <2>6. CASE mark[s % KWindow] = s
        <3>1. s % KWindow \in Positions /\ mark[s % KWindow] # NoSeq
            BY <2>6, RouteFacts, Zenon
        <3>2. \/ \E c \in Channels : \E i \in Live(c) : inRing[c][i].seq = s
              \/ \E c \in Channels : \E i \in 1 .. Len(done[c]) : done[c][i].seq = s
            BY <2>1, <2>6, <3>1 DEF Marked
        <3> QED
            BY <2>4, <2>5, <3>2
    <2> QED
        BY <2>2, <2>3, <2>6
<1> QED
    BY <1>1, PipelineInvHolds, PTL

(* MarksExact, likewise: dispatched[] marks exactly the blocks with a consumer
   or on the way back, so that no two of them collide, and pending is their
   number. *)
THEOREM MarksAreExact == PipeSpec => []MarksExact
<1>1. PipelineInv => MarksExact
    <2> SUFFICES ASSUME PipelineInv, NEW s \in Seqs
                 PROVE  InFlight(s) <=> mark[s % KWindow] = s
        BY DEF PipelineInv, Counted, MarkedPositions, Positions, MarksExact
    <2>1. Types /\ Stages /\ Marked
        BY DEF PipelineInv
    <2>2. InFlight(s) <=>
             \/ \E c \in Channels : \E i \in Live(c) : inRing[c][i].seq = s
             \/ \E c \in Channels : \E i \in 1 .. Len(done[c]) : done[c][i].seq = s
        BY <2>1, InFlightPlaces
    <2>3. InFlight(s) => mark[s % KWindow] = s
        BY <2>1, <2>2 DEF Marked, Held
    <2>4. ASSUME mark[s % KWindow] = s
          PROVE  InFlight(s)
        <3>1. s % KWindow \in Positions /\ mark[s % KWindow] # NoSeq
            BY <2>4, RouteFacts, Zenon
        <3> QED
            BY <2>1, <2>2, <2>4, <3>1 DEF Marked
    <2> QED
        BY <2>3, <2>4
<1> QED
    BY <1>1, PipelineInvHolds, PTL

(* ReportsFit, likewise: the room drain_channel() looked up before writing a
   batch is there when it reports on it. *)
THEOREM ReportsAlwaysFit == PipeSpec => []ReportsFit
<1>1. PipelineInv => ReportsFit
    BY DEF PipelineInv, Stages, ReportsFit
<1> QED
    BY <1>1, PipelineInvHolds, PTL
=============================================================================

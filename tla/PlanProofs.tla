----------------------------- MODULE PlanProofs -----------------------------
(***************************************************************************)
(* Proofs about SendPlan, for files, lanes, ranges and block sizes of any  *)
(* number and size, and about WorkerPool.                                  *)
(*                                                                         *)
(* The lanes share out a file because the size of a lane is rounded up.    *)
(* The receiver's ranges are the runs of the bytes it asks for, and a      *)
(* round of coarsening that is still needed leaves fewer of them, so there *)
(* are few enough in the end; the parts of the answer hold each range once *)
(* and the sender, which sorts them, finds them in order and inside the    *)
(* lane.  It then moves through them from left to right, so what it has    *)
(* cut is what the plan holds below the next offset, and a block that is   *)
(* sealed again is the one the registry holds.                             *)
(***************************************************************************)
EXTENDS SendPlan, WorkerPool, RingLemmas, FiniteSetTheorems

-----------------------------------------------------------------------------
(* WorkerPool, for any size of the pool and any number of workers started and retired.

   The argument: a thread that has not exited always belongs to somebody
   who will join it.  It is in the pool, or the ticker has taken it out
   and is waiting for it, or stop() is.  The main thread waits for the
   ticker before it calls stop(), so a worker that stop() cannot see has
   exited by then. *)

PoolTypeOK ==
    /\ pool \in Seq(Workers)
    /\ spawned \in Nat
    /\ thread \in [Workers -> {"none", "loop", "task", "exited"}]
    /\ retired \subseteq Workers /\ doomed \subseteq Workers

Runs(w) == thread[w] \in {"loop", "task"}

(* The inductive invariant. *)
EveryThreadHasAJoiner ==
    /\ PoolTypeOK
    /\ \A w \in Workers : Runs(w) => w \in Range(pool) \cup retired \cup doomed
    /\ ticker # "join" => retired = {}
    /\ main \in {"poll", "joinTicker", "stop"} => doomed = {}
    /\ main \in {"stop", "joinWorkers", "tail"} => ticker = "exited"
    /\ main \in {"joinWorkers", "tail"} => pool = <<>>
    /\ main = "tail" => \A w \in doomed : thread[w] = "exited"

(* What taking the youngest worker out, or adding one, does to the pool. *)
LEMMA PoolParts ==
    ASSUME NEW p \in Seq(Workers)
    PROVE  /\ Range(p) \subseteq Workers
           /\ \A w \in Workers : /\ Append(p, w) \in Seq(Workers)
                                 /\ Range(Append(p, w)) = Range(p) \cup {w}
           /\ p # <<>> => /\ SubSeq(p, 1, Len(p) - 1) \in Seq(Workers)
                          /\ p[Len(p)] \in Workers
                          /\ Range(p) = Range(SubSeq(p, 1, Len(p) - 1)) \cup {p[Len(p)]}
<1>1. Range(p) \subseteq Workers
    BY DEF Range
<1>2. ASSUME NEW w \in Workers
      PROVE  Append(p, w) \in Seq(Workers) /\ Range(Append(p, w)) = Range(p) \cup {w}
    <2>1. Append(p, w) \in Seq(Workers) /\ Len(Append(p, w)) = Len(p) + 1
        OBVIOUS
    <2>2. \A i \in 1 .. Len(p) : Append(p, w)[i] = p[i]
        OBVIOUS
    <2>3. Append(p, w)[Len(p) + 1] = w
        OBVIOUS
    <2> QED
        BY <2>1, <2>2, <2>3 DEF Range
<1>3. ASSUME p # <<>>
      PROVE  /\ SubSeq(p, 1, Len(p) - 1) \in Seq(Workers)
             /\ p[Len(p)] \in Workers
             /\ Range(p) = Range(SubSeq(p, 1, Len(p) - 1)) \cup {p[Len(p)]}
    <2> DEFINE n == Len(p) - 1
               q == SubSeq(p, 1, n)
    <2>1. n \in Nat /\ Len(p) = n + 1
        BY <1>3
    <2>2. q \in Seq(Workers) /\ Len(q) = n /\ \A i \in 1 .. n : q[i] = p[i]
        BY <2>1
    <2>5. p[Len(p)] \in Workers
        BY <2>1
    <2>6. DOMAIN p = 1 .. n + 1 /\ DOMAIN q = 1 .. n
        BY <2>1, <2>2
    <2> HIDE DEF q, n
    <2>7. Range(p) = Range(q) \cup {p[Len(p)]}
        BY <2>1, <2>2, <2>6 DEF Range
    <2> QED
        BY <2>2, <2>5, <2>7 DEF q, n
<1> QED
    BY <1>1, <1>2, <1>3

(* The pool starts with every worker in it. *)
LEMMA JoinerInitially == PoolInit => EveryThreadHasAJoiner
<1> SUFFICES ASSUME PoolInit PROVE EveryThreadHasAJoiner
    OBVIOUS
<1>1. pool \in Seq(Workers) /\ Len(pool) = MinWorkers
    BY PoolAssumption DEF PoolInit, Workers
<1>2. \A w \in 0 .. MinWorkers - 1 : w + 1 \in DOMAIN pool /\ pool[w + 1] = w
    BY PoolAssumption, <1>1 DEF PoolInit
<1>3. \A w \in Workers : Runs(w) => w \in Range(pool)
    BY PoolAssumption, <1>2 DEF PoolInit, Runs, Range, Workers
<1> QED
    BY PoolAssumption, <1>1, <1>3 DEF PoolInit, EveryThreadHasAJoiner, PoolTypeOK

(* No step leaves a thread without a joiner. *)
LEMMA JoinerInductive ==
    ASSUME EveryThreadHasAJoiner, [PoolNext]_poolVars
    PROVE  EveryThreadHasAJoiner'
<1> USE DEF EveryThreadHasAJoiner, PoolTypeOK, Runs
<1>1. ASSUME NEW w \in Workers, WorkerLoop(w) PROVE EveryThreadHasAJoiner'
    BY <1>1 DEF WorkerLoop
<1>2. ASSUME NEW w \in Workers, TaskEnds(w) PROVE EveryThreadHasAJoiner'
    BY <1>2 DEF TaskEnds
<1>3. CASE TickerLoop
    BY <1>3 DEF TickerLoop
<1>4. CASE TickIdle
    BY <1>4 DEF TickIdle
<1>5. CASE ScaleOut
    <2>1. spawned \in Workers
        BY <1>5, PoolAssumption DEF ScaleOut, Workers
    <2>2. pool' \in Seq(Workers) /\ Range(pool') = Range(pool) \cup {spawned}
        BY <1>5, <2>1, PoolParts DEF ScaleOut
    <2> QED
        BY <1>5, <2>1, <2>2 DEF ScaleOut
<1>6. CASE ScaleIn
    <2>1. /\ pool' \in Seq(Workers) /\ pool[Len(pool)] \in Workers
          /\ Range(pool) = Range(pool') \cup retired'
        BY <1>6, PoolParts DEF ScaleIn
    <2> QED
        BY <1>6, <2>1 DEF ScaleIn
<1>7. CASE JoinRetired
    BY <1>7 DEF JoinRetired
<1>8. CASE LeavePoll
    BY <1>8 DEF LeavePoll
<1>9. CASE JoinTicker
    BY <1>9 DEF JoinTicker
<1>10. CASE StopPool
    <2>1. doomed' \subseteq Workers /\ doomed' = Range(pool) /\ pool' \in Seq(Workers)
        BY <1>10, PoolParts DEF StopPool
    <2> QED
        BY <1>10, <2>1 DEF StopPool
<1>11. CASE JoinWorkers
    BY <1>11 DEF JoinWorkers
<1>12. CASE UNCHANGED poolVars
    BY <1>12 DEF poolVars
<1> QED
    BY <1>1, <1>2, <1>3, <1>4, <1>5, <1>6, <1>7, <1>8, <1>9, <1>10, <1>11, <1>12 DEF PoolNext

(* When run() reaches the part of it that its comment calls single-threaded,
   no worker and no ticker runs, however the pool was scaled before. *)
THEOREM TailIsSingleThreaded == PoolSpec => []SingleThreadedTail
<1>1. EveryThreadHasAJoiner => SingleThreadedTail
    <2> SUFFICES ASSUME EveryThreadHasAJoiner, main = "tail"
                 PROVE  ticker = "exited" /\ \A w \in Workers : thread[w] \in {"none", "exited"}
        BY DEF SingleThreadedTail
    <2>1. ticker = "exited" /\ retired = {} /\ pool = <<>>
        BY DEF EveryThreadHasAJoiner
    <2>2. Range(pool) = {}
        BY <2>1 DEF Range
    <2> QED
        BY <2>1, <2>2 DEF EveryThreadHasAJoiner, PoolTypeOK, Runs
<1> QED
    BY <1>1, JoinerInitially, JoinerInductive, PTL DEF PoolSpec

-----------------------------------------------------------------------------
(* Lanes. *)

(* A lane's share is rounded up. *)
LEMMA ShardFacts ==
    ASSUME NEW n \in Nat, NEW k \in Nat \ {0}
    PROVE  Shard(n, k) \in Nat /\ n <= k * Shard(n, k)
<1> DEFINE q == (n + k - 1) \div k
           r == (n + k - 1) % k
<1>1. n + k - 1 \in Nat
    OBVIOUS
<1>2. q \in Nat /\ r \in 0 .. k - 1 /\ n + k - 1 = k * q + r
    BY <1>1, DivMod, Zenon
<1>3. q = Shard(n, k)
    BY DEF Shard, CeilDiv
<1> HIDE DEF q, r
<1>4. n <= k * q
    BY <1>2
<1> QED
    BY <1>2, <1>3, <1>4

(* Where a lane lies. *)
LEMMA LaneFacts ==
    ASSUME NEW n \in Nat, NEW k \in Nat \ {0}, NEW i \in Nat
    PROVE  /\ i * Shard(n, k) \in Nat
           /\ LaneBase(n, k, i) = IF i * Shard(n, k) < n THEN i * Shard(n, k) ELSE n
           /\ LaneBytes(n, k, i) \in Nat
           /\ LaneBytes(n, k, i) = IF Shard(n, k) < n - LaneBase(n, k, i)
                                   THEN Shard(n, k) ELSE n - LaneBase(n, k, i)
<1> DEFINE S == Shard(n, k)
           p == i * S
<1>1. S \in Nat
    BY ShardFacts
<1> HIDE DEF S
<1>2. p \in Nat
    BY <1>1
<1>3. LaneBase(n, k, i) = IF p < n THEN p ELSE n
    BY DEF LaneBase, Lower, S
<1>4. LaneBytes(n, k, i) = IF S < n - LaneBase(n, k, i) THEN S ELSE n - LaneBase(n, k, i)
    BY DEF LaneBytes, Lower, S
<1> HIDE DEF p
<1>5. LaneBytes(n, k, i) \in Nat
    BY <1>1, <1>2, <1>3, <1>4
<1> QED
    BY <1>2, <1>3, <1>4, <1>5 DEF p, S

(* However long the file and however many the lanes, each byte is in exactly
   one lane (send_impl: shard, off and n). *)
THEOREM LanesShareOut ==
    \A n \in Nat, k \in Nat \ {0} : \A x \in 0 .. n - 1 :
        \E i \in 0 .. k - 1 : \A j \in 0 .. k - 1 : InLane(n, k, j, x) <=> j = i
<1> SUFFICES ASSUME NEW n \in Nat, NEW k \in Nat \ {0}, NEW x \in 0 .. n - 1
             PROVE  \E i \in 0 .. k - 1 : \A j \in 0 .. k - 1 : InLane(n, k, j, x) <=> j = i
    BY Zenon
<1> DEFINE S == Shard(n, k)
           i == x \div S
           r == x % S
<1>1. S \in Nat /\ n <= k * S
    BY ShardFacts
<1> HIDE DEF S
<1>2. S # 0
    <2>1. CASE S = 0
        <3>1. k * 0 = 0
            OBVIOUS
        <3> QED
            BY <1>1, <2>1, <3>1
    <2> QED
        BY <2>1
<1>3. i \in Nat /\ r \in 0 .. S - 1 /\ x = S * i + r
    <2>1. x \in Nat /\ S \in Nat \ {0}
        BY <1>1, <1>2
    <2> QED
        BY <2>1, DivMod, Zenon
<1> HIDE DEF i, r
<1>4. i \in 0 .. k - 1
    <2>1. CASE k = i
        <3>1. S * i = k * S
            BY <1>1, <1>3, <2>1
        <3> QED
            BY <1>1, <1>3, <3>1
    <2>2. CASE k < i
        <3>1. S * k + S <= S * i
            BY <1>1, <1>2, <1>3, <2>2, MultipleGap
        <3>2. S * k = k * S
            BY <1>1
        <3> QED
            BY <1>1, <1>3, <3>1, <3>2
    <2> QED
        BY <1>3, <2>1, <2>2
<1>5. ASSUME NEW j \in 0 .. k - 1
      PROVE  InLane(n, k, j, x) <=> j = i
    <2> DEFINE p == j * S
               lo == LaneBase(n, k, j)
               len == LaneBytes(n, k, j)
    <2>1. /\ p \in Nat /\ lo = (IF p < n THEN p ELSE n)
          /\ len = IF S < n - lo THEN S ELSE n - lo
        BY LaneFacts DEF S
    <2>2. p = S * j
        BY <1>1
    <2>3. InLane(n, k, j, x) <=> x - lo \in 0 .. len - 1
        BY DEF InLane
    <2> HIDE DEF p, lo, len
    <2>4. CASE j = i
        BY <1>1, <1>3, <2>1, <2>2, <2>3, <2>4
    <2>5. CASE j < i
        <3>1. S * j + S <= S * i
            BY <1>1, <1>2, <1>3, <2>5, MultipleGap
        <3>2. p + S <= x
            BY <1>1, <1>3, <2>1, <2>2, <3>1
        <3> QED
            BY <1>1, <1>3, <2>1, <2>3, <2>5, <3>2
    <2>6. CASE i < j
        <3>1. S * i + S <= S * j
            BY <1>1, <1>2, <1>3, <2>6, MultipleGap
        <3>2. x < p
            BY <1>1, <1>3, <2>1, <2>2, <3>1
        <3> QED
            BY <1>1, <1>3, <2>1, <2>3, <2>6, <3>2
    <2> QED
        BY <1>3, <2>4, <2>5, <2>6
<1> QED
    BY <1>4, <1>5, Zenon

-----------------------------------------------------------------------------
(* What the receiver asks for. *)

(* The least member of a set of numbers. *)
LEMMA LeastFacts ==
    ASSUME NEW T \in SUBSET Nat, T # {}
    PROVE  Least(T) \in T /\ \A y \in T : Least(T) <= y
<1>1. \E x \in T : \A y \in T : x <= y
    BY LeastNat
<1> QED
    BY <1>1, Zenon DEF Least

(* A run is as long as its bytes are in the set. *)
LEMMA RangeFacts ==
    ASSUME NEW S \in SUBSET (0 .. MaxFile - 1), NEW x \in S
    PROVE  LET r == RunFrom(S, x)
           IN  /\ r \in Extent /\ r.offset = x
               /\ BytesOf(r) \subseteq S /\ x + r.length \notin S
<1> DEFINE T == {n \in 1 .. MaxFile : x + n \notin S}
           l == Least(T)
           r == RunFrom(S, x)
<1>1. MaxFile \in Nat /\ x \in Nat /\ x < MaxFile
    BY PlanAssumption
<1>2. T \in SUBSET Nat /\ MaxFile \in T
    BY <1>1
<1>3. l \in T /\ \A n \in T : l <= n
    BY <1>2, LeastFacts, Zenon
<1>4. l \in Nat \ {0} /\ x + l \notin S /\ l <= MaxFile
    BY <1>1, <1>3
<1>5. ASSUME NEW y \in x .. x + l - 1
      PROVE  y \in S
    <2>1. CASE y = x
        BY <2>1
    <2>2. CASE y # x
        <3>1. y - x \in 1 .. MaxFile /\ ~ (l <= y - x) /\ x + (y - x) = y
            BY <1>1, <1>4, <2>2
        <3>2. y - x \notin T
            BY <1>3, <3>1
        <3> QED
            BY <3>1, <3>2
    <2> QED
        BY <2>1, <2>2
<1>6. r = [offset |-> x, length |-> l]
    BY DEF RunFrom
<1> HIDE DEF l, r
<1>7. r \in Extent /\ r.offset = x /\ r.length = l
    BY <1>1, <1>4, <1>6 DEF Extent
<1> QED
    BY <1>4, <1>5, <1>7 DEF BytesOf, r

(* Every byte is in the run of a start. *)
LEMMA RangesCover ==
    ASSUME NEW S \in SUBSET (0 .. MaxFile - 1), NEW y \in S
    PROVE  \E x \in Starts(S) : y \in BytesOf(RunFrom(S, x))
<1> DEFINE T == {z \in Nat : z <= y /\ z .. y \subseteq S}
<1>1. y \in Nat /\ \A x \in S : x \in Nat
    BY PlanAssumption
<1>2. y \in T
    <2>1. y .. y = {y}
        BY <1>1
    <2> QED
        BY <1>1, <2>1
<1>3. T \in SUBSET Nat
    OBVIOUS
<1>4. PICK z \in T : \A w \in T : z <= w
    BY <1>2, <1>3, LeastNat, Zenon
<1>5. z \in Nat /\ z <= y /\ z .. y \subseteq S
    OBVIOUS
<1>6. z \in S
    BY <1>1, <1>5
<1>7. z - 1 \notin S
    <2> SUFFICES ASSUME z - 1 \in S
                 PROVE  FALSE
        OBVIOUS
    <2>1. z - 1 \in Nat /\ z - 1 <= y /\ ~ (z <= z - 1)
        BY <1>1, <1>5
    <2>2. \A w \in z - 1 .. y : w = z - 1 \/ w \in z .. y
        BY <1>1, <1>5
    <2>3. z - 1 .. y \subseteq S
        BY <1>5, <2>2
    <2> QED
        BY <1>4, <2>1, <2>3
<1> DEFINE r == RunFrom(S, z)
<1>8. r \in Extent /\ r.offset = z /\ z + r.length \notin S
    BY <1>6, RangeFacts
<1> HIDE DEF r
<1>9. r.length \in Nat
    BY <1>8 DEF Extent
<1>10. y < z + r.length
    BY <1>1, <1>5, <1>8, <1>9
<1>11. y \in BytesOf(r)
    BY <1>1, <1>5, <1>8, <1>9, <1>10 DEF BytesOf
<1> QED
    BY <1>6, <1>7, <1>11 DEF Starts, r

(* A run ends before the next one starts. *)
LEMMA RangesApart ==
    ASSUME NEW S \in SUBSET (0 .. MaxFile - 1), NEW x \in Starts(S), NEW y \in Starts(S), x < y
    PROVE  x + RunFrom(S, x).length <= y
<1> DEFINE r == RunFrom(S, x)
<1>1. x \in S /\ y \in S /\ y - 1 \notin S
    BY DEF Starts
<1>2. x \in Nat /\ y \in Nat
    BY <1>1, PlanAssumption
<1>3. r \in Extent /\ r.offset = x /\ BytesOf(r) \subseteq S
    BY <1>1, RangeFacts
<1> HIDE DEF r
<1>4. r.length \in Nat
    BY <1>3 DEF Extent
<1>5. y - 1 \notin x .. x + r.length - 1
    BY <1>1, <1>3 DEF BytesOf
<1>6. x + r.length <= y
    BY <1>2, <1>4, <1>5
<1> QED
    BY <1>6 DEF r

(* The gap before a range that follows another. *)
LEMMA GapFacts ==
    ASSUME NEW S \in SUBSET (0 .. MaxFile - 1), NEW x \in Inner(S)
    PROVE  LET g == GapBefore(S, x)
           IN  /\ g \in Nat \ {0} /\ x - g - 1 \in S
               /\ x \in S /\ x - 1 \notin S
<1> DEFINE T == {n \in 1 .. MaxFile : x - n - 1 \in S}
<1>1. x \in S /\ x - 1 \notin S /\ \E y \in S : y < x
    BY DEF Inner, Starts
<1>2. PICK y \in S : y < x
    BY <1>1
<1>3. x \in Nat /\ y \in Nat /\ MaxFile \in Nat /\ x < MaxFile /\ y # x - 1
    BY <1>1, <1>2, PlanAssumption
<1>4. x - 1 - y \in 1 .. MaxFile /\ x - (x - 1 - y) - 1 = y
    BY <1>2, <1>3
<1>5. x - 1 - y \in T /\ T \in SUBSET Nat
    BY <1>2, <1>3, <1>4
<1>6. Least(T) \in T
    BY <1>5, LeastFacts, Zenon
<1>7. GapBefore(S, x) = Least(T)
    BY DEF GapBefore
<1> QED
    BY <1>1, <1>6, <1>7, <1>3

(* A round asks for more bytes, between those asked for before, and leaves
   fewer ranges. *)
LEMMA MergedFacts ==
    ASSUME NEW m \in 0 .. MaxFile, NEW S \in SUBSET (0 .. m - 1), Inner(S) # {}
    PROVE  /\ S \subseteq Merged(S) /\ Merged(S) \subseteq 0 .. m - 1
           /\ Starts(Merged(S)) \subseteq Starts(S) /\ Starts(Merged(S)) # Starts(S)
<1> DEFINE G == {GapBefore(S, x) : x \in Inner(S)}
           limit == 2 * Least(G) + 1
           C == {y \in Inner(S) : GapBefore(S, y) <= limit}
           Hole(x) == x - GapBefore(S, x) .. x - 1
<1>1. m \in Nat /\ MaxFile \in Nat /\ m <= MaxFile
    BY PlanAssumption
<1>2. S \in SUBSET (0 .. MaxFile - 1) /\ \A x \in S : x \in Nat /\ x < m
    BY <1>1
<1>3. \A x \in Inner(S) : /\ GapBefore(S, x) \in Nat \ {0} /\ x - GapBefore(S, x) - 1 \in S
                          /\ x \in S /\ x - 1 \notin S
    BY <1>2, GapFacts, Zenon
<1>4. G \in SUBSET Nat /\ G # {}
    BY <1>3
<1>5. PICK x0 \in Inner(S) : GapBefore(S, x0) = Least(G)
    BY <1>4, LeastFacts, Zenon
<1>6. Merged(S) = S \cup UNION {Hole(x) : x \in C}
    BY DEF Merged
<1> HIDE DEF limit
<1>7. x0 \in C
    BY <1>3, <1>5 DEF limit
<1>8. \A z : z \in Merged(S) <=> z \in S \/ \E x \in C : z \in Hole(x)
    BY <1>6, Zenon
<1>9. C \subseteq Inner(S)
    OBVIOUS
<1> HIDE DEF C
<1>10. ASSUME NEW x \in C
       PROVE  Hole(x) \subseteq 0 .. m - 1
    <2>1. x \in Nat /\ x < m /\ GapBefore(S, x) \in Nat \ {0} /\ x - GapBefore(S, x) - 1 \in Nat
        BY <1>2, <1>3, <1>9, Zenon
    <2> QED
        BY <1>1, <2>1
<1>11. S \subseteq Merged(S) /\ Merged(S) \subseteq 0 .. m - 1
    BY <1>8, <1>10, Zenon
<1>12. ASSUME NEW z \in Starts(Merged(S))
       PROVE  z \in Starts(S)
    <2>1. z \in Merged(S) /\ z - 1 \notin Merged(S)
        BY DEF Starts
    <2>2. z - 1 \notin S
        BY <1>11, <2>1
    <2>3. CASE z \in S
        BY <2>2, <2>3 DEF Starts
    <2>4. ASSUME NEW x \in C, z \in Hole(x)
          PROVE  FALSE
        <3>1. x \in Nat /\ GapBefore(S, x) \in Nat \ {0} /\ x - GapBefore(S, x) - 1 \in S
            BY <1>2, <1>3, <1>9, Zenon
        <3>2. z - 1 \in Hole(x) \/ z - 1 = x - GapBefore(S, x) - 1
            BY <2>4, <3>1
        <3> QED
            BY <1>8, <2>1, <2>2, <3>1, <3>2
    <2> QED
        BY <1>8, <2>1, <2>3, <2>4
<1>13. x0 \in Starts(S) /\ x0 \notin Starts(Merged(S))
    <2>1. x0 \in Nat /\ GapBefore(S, x0) \in Nat \ {0}
        BY <1>2, <1>3, Zenon
    <2>2. x0 - 1 \in Hole(x0)
        BY <2>1
    <2>3. x0 - 1 \in Merged(S)
        BY <1>7, <1>8, <2>2
    <2> QED
        BY <2>3 DEF Inner, Starts
<1> QED
    BY <1>11, <1>12, <1>13

(* The ranges of a set of bytes can be counted. *)
LEMMA CountFacts ==
    ASSUME NEW m \in 0 .. MaxFile, NEW S \in SUBSET (0 .. m - 1)
    PROVE  /\ IsFiniteSet(Starts(S)) /\ NumRanges(S) \in 0 .. MaxFile
           /\ NumRanges(S) > 1 => Inner(S) # {}
<1>1. m \in Nat /\ MaxFile \in Nat /\ m <= MaxFile
    BY PlanAssumption
<1>2. Starts(S) \in SUBSET (0 .. m - 1)
    BY Zenon DEF Starts
<1>3. IsFiniteSet(0 .. m - 1) /\ Cardinality(0 .. m - 1) = m
    <2>1. 0 \in Int /\ m - 1 \in Int
        BY <1>1
    <2>2. IsFiniteSet(0 .. m - 1) /\ Cardinality(0 .. m - 1) = IF 0 > m - 1 THEN 0 ELSE (m - 1) - 0 + 1
        BY <2>1, FS_Interval, Zenon
    <2> QED
        BY <1>1, <2>2
<1>4. IsFiniteSet(Starts(S)) /\ Cardinality(Starts(S)) <= m
    BY <1>2, <1>3, FS_Subset, Zenon
<1>5. Cardinality(Starts(S)) \in Nat
    BY <1>4, FS_CardinalityType, Zenon
<1>6. ASSUME Inner(S) = {}
      PROVE  ~ (NumRanges(S) > 1)
    <2>1. \A x, y \in Starts(S) : ~ (y < x)
        <3>1. \A x \in Starts(S) : x \notin Inner(S) /\ x \in S
            BY <1>6 DEF Starts
        <3> QED
            BY <3>1, Zenon DEF Inner
    <2>2. \A x, y \in Starts(S) : x = y
        BY <1>1, <1>2, <2>1
    <2>3. CASE Starts(S) = {}
        <3>1. Cardinality(Starts(S)) = 0
            BY <2>3, FS_EmptySet, Zenon
        <3> QED
            BY <3>1 DEF NumRanges
    <2>4. CASE Starts(S) # {}
        <3>1. PICK x : x \in Starts(S)
            BY <2>4
        <3>2. Starts(S) = {x}
            BY <2>2, <3>1
        <3>3. Cardinality(Starts(S)) = 1
            BY <3>2, FS_Singleton, Zenon
        <3> QED
            BY <3>3 DEF NumRanges
    <2> QED
        BY <2>3, <2>4
<1> QED
    BY <1>1, <1>4, <1>5, <1>6 DEF NumRanges

(* The rounds of the loop, from a set of bytes on. *)
IsRounds(f, S, m) == f = [k \in 0 .. m |-> IF k = 0 THEN S ELSE Coarser(f[k - 1])]

(* They exist: the fewest that did not would be one more than some that do. *)
LEMMA RoundsExist ==
    ASSUME NEW S, NEW e \in Nat
    PROVE  \E f : IsRounds(f, S, e)
<1> DEFINE T == {m \in Nat : ~ \E f : IsRounds(f, S, m)}
<1> SUFFICES ASSUME T # {} PROVE FALSE
    OBVIOUS
<1>1. PICK m \in T : \A k \in T : m <= k
    <2>1. T \in SUBSET Nat
        OBVIOUS
    <2> HIDE DEF T
    <2> QED
        BY <2>1, LeastNat, Zenon
<1>2. CASE m = 0
    <2> DEFINE f == [n \in 0 .. 0 |-> S]
    <2>1. IsRounds(f, S, 0)
        BY DEF IsRounds
    <2> QED
        BY <1>1, <1>2, <2>1
<1>3. CASE m # 0
    <2>1. m - 1 \in Nat /\ m - 1 \notin T
        BY <1>1, <1>3
    <2>2. PICK f : IsRounds(f, S, m - 1)
        BY <2>1
    <2> DEFINE g == [n \in 0 .. m |-> IF n = m THEN Coarser(f[m - 1]) ELSE f[n]]
    <2>3. \A n \in 0 .. m - 1 : f[n] = IF n = 0 THEN S ELSE Coarser(f[n - 1])
        BY <2>2 DEF IsRounds
    <2>4. ASSUME NEW n \in 0 .. m
          PROVE  g[n] = IF n = 0 THEN S ELSE Coarser(g[n - 1])
        <3>1. CASE n = m
            <4>1. n - 1 \in 0 .. m /\ n - 1 # m /\ n # 0
                BY <1>1, <1>3, <3>1
            <4> QED
                BY <4>1, <3>1
        <3>2. CASE n # m /\ n # 0
            <4>1. n - 1 \in 0 .. m /\ n - 1 # m /\ n \in 0 .. m - 1
                BY <1>1, <1>3, <3>2
            <4> QED
                BY <4>1, <3>2, <2>3
        <3>3. CASE n = 0
            <4>1. n # m /\ n \in 0 .. m - 1
                BY <1>1, <1>3, <3>3
            <4> QED
                BY <4>1, <3>3, <2>3
        <3> QED
            BY <3>1, <3>2, <3>3
    <2>5. g = [n \in 0 .. m |-> g[n]]
        OBVIOUS
    <2> HIDE DEF g
    <2>6. IsRounds(g, S, m)
        BY <2>4, <2>5, Zenon DEF IsRounds
    <2> QED
        BY <1>1, <2>6
<1> QED
    BY <1>2, <1>3

(* One round: more bytes, and fewer ranges as long as there are too many. *)
LEMMA RoundFacts ==
    ASSUME NEW m \in 0 .. MaxFile, NEW S \in SUBSET (0 .. m - 1)
    PROVE  /\ S \subseteq Coarser(S) /\ Coarser(S) \subseteq 0 .. m - 1
           /\ \/ NumRanges(Coarser(S)) <= MaxRanges
              \/ NumRanges(Coarser(S)) + 1 <= NumRanges(S)
<1>1. CASE NumRanges(S) <= MaxRanges
    <2>1. Coarser(S) = S
        BY <1>1 DEF Coarser
    <2> QED
        BY <1>1, <2>1
<1>2. CASE ~ (NumRanges(S) <= MaxRanges)
    <2>1. Coarser(S) = Merged(S)
        BY <1>2 DEF Coarser
    <2>2. IsFiniteSet(Starts(S)) /\ NumRanges(S) \in Nat /\ (NumRanges(S) > 1 => Inner(S) # {})
        BY CountFacts, PlanAssumption
    <2>3. NumRanges(S) > 1
        BY <1>2, <2>2, PlanAssumption
    <2>4. /\ S \subseteq Merged(S) /\ Merged(S) \subseteq 0 .. m - 1
          /\ Starts(Merged(S)) \subseteq Starts(S) /\ Starts(Merged(S)) # Starts(S)
        BY <2>2, <2>3, MergedFacts, Zenon
    <2>5. /\ NumRanges(Merged(S)) <= NumRanges(S)
          /\ NumRanges(Merged(S)) # NumRanges(S)
        BY <2>2, <2>4, FS_Subset, Zenon DEF NumRanges
    <2>6. NumRanges(Merged(S)) \in Nat
        <3>1. IsFiniteSet(Starts(Merged(S)))
            BY <2>2, <2>4, FS_Subset, Zenon
        <3> QED
            BY <3>1, FS_CardinalityType, Zenon DEF NumRanges
    <2>7. NumRanges(Merged(S)) + 1 <= NumRanges(S)
        BY <2>2, <2>5, <2>6
    <2> QED
        BY <2>1, <2>4, <2>7
<1> QED
    BY <1>1, <1>2

(* The loop: what it leaves is more than it was given, and few ranges. *)
LEMMA CoarsenedFacts ==
    ASSUME NEW m \in 0 .. MaxFile, NEW S \in SUBSET (0 .. m - 1)
    PROVE  /\ S \subseteq Coarsened(S) /\ Coarsened(S) \subseteq 0 .. m - 1
           /\ NumRanges(Coarsened(S)) <= MaxRanges
<1> DEFINE f == CHOOSE g : IsRounds(g, S, MaxFile)
           Good(k) == /\ S \subseteq f[k] /\ f[k] \subseteq 0 .. m - 1
                      /\ \/ NumRanges(f[k]) <= MaxRanges
                         \/ NumRanges(f[k]) + k <= MaxFile
           T == {k \in Nat : k <= MaxFile /\ ~ Good(k)}
<1>1. m \in Nat /\ MaxFile \in Nat /\ m <= MaxFile /\ MaxRanges \in Nat
    BY PlanAssumption
<1>2. IsRounds(f, S, MaxFile)
    BY <1>1, RoundsExist, Zenon
<1>3. Coarsened(S) = f[MaxFile]
    BY DEF Coarsened, IsRounds
<1> HIDE DEF f
<1>4. \A k \in 0 .. MaxFile : f[k] = IF k = 0 THEN S ELSE Coarser(f[k - 1])
    BY <1>2, Zenon DEF IsRounds
<1>5. Good(0)
    <2>1. f[0] = S
        BY <1>1, <1>4
    <2>2. NumRanges(S) \in 0 .. MaxFile
        BY CountFacts
    <2> QED
        BY <1>1, <2>1, <2>2
<1>6. ASSUME NEW k \in Nat, k + 1 <= MaxFile, Good(k)
      PROVE  Good(k + 1)
    <2>1. k + 1 \in 0 .. MaxFile /\ k + 1 # 0 /\ (k + 1) - 1 = k
        BY <1>1, <1>6
    <2>2. f[k + 1] = Coarser(f[k])
        BY <1>4, <2>1
    <2>3. S \subseteq f[k] /\ f[k] \in SUBSET (0 .. m - 1)
        BY <1>6
    <2>4. /\ f[k] \subseteq f[k + 1] /\ f[k + 1] \subseteq 0 .. m - 1
          /\ \/ NumRanges(f[k + 1]) <= MaxRanges
             \/ NumRanges(f[k + 1]) + 1 <= NumRanges(f[k])
        <3>1. /\ f[k] \subseteq Coarser(f[k]) /\ Coarser(f[k]) \subseteq 0 .. m - 1
              /\ \/ NumRanges(Coarser(f[k])) <= MaxRanges
                 \/ NumRanges(Coarser(f[k])) + 1 <= NumRanges(f[k])
            BY <2>3, RoundFacts, Zenon
        <3> QED
            BY <2>2, <3>1
    <2>5. f[k + 1] \in SUBSET (0 .. m - 1)
        BY <2>4, Zenon
    <2>6. NumRanges(f[k]) \in Nat /\ NumRanges(f[k + 1]) \in Nat
        <3>1. NumRanges(f[k]) \in 0 .. MaxFile /\ NumRanges(f[k + 1]) \in 0 .. MaxFile
            BY <2>3, <2>5, CountFacts, Zenon
        <3> QED
            BY <1>1, <3>1
    <2>7. \/ NumRanges(f[k + 1]) <= MaxRanges
          \/ NumRanges(f[k + 1]) + (k + 1) <= MaxFile
        BY <1>1, <1>6, <2>4, <2>6
    <2> QED
        BY <2>3, <2>4, <2>7, Zenon
<1> HIDE DEF Good
<1>7. T = {}
    <2> SUFFICES ASSUME T # {} PROVE FALSE
        OBVIOUS
    <2>1. T \in SUBSET Nat
        OBVIOUS
    <2>2. PICK k \in T : \A j \in T : k <= j
        <3> HIDE DEF T
        <3> QED
            BY <2>1, LeastNat, Zenon
    <2>3. k \in Nat /\ k <= MaxFile /\ ~ Good(k)
        OBVIOUS
    <2>4. k # 0
        BY <1>5, <2>3
    <2>5. k - 1 \in Nat /\ k - 1 <= MaxFile /\ ~ (k <= k - 1) /\ (k - 1) + 1 = k
        BY <1>1, <2>3, <2>4
    <2>6. Good(k - 1)
        BY <2>2, <2>5
    <2>7. Good((k - 1) + 1)
        BY <1>6, <2>3, <2>5, <2>6
    <2> QED
        BY <2>3, <2>5, <2>7
<1>8. Good(MaxFile)
    BY <1>1, <1>7
<1>9. f[MaxFile] \in SUBSET (0 .. m - 1)
    BY <1>8 DEF Good
<1>10. NumRanges(f[MaxFile]) \in Nat
    BY <1>9, CountFacts
<1>11. NumRanges(f[MaxFile]) <= MaxRanges
    BY <1>1, <1>8, <1>10 DEF Good
<1> QED
    BY <1>3, <1>8, <1>11 DEF Good

(* The parts of an answer hold all of its ranges. *)
LEMMA PartsFacts ==
    ASSUME Asked \in SUBSET (0 .. MaxFile - 1)
    PROVE  UNION {Part(p) : p \in 0 .. Parts - 1} = {RunFrom(Asked, x) : x \in Starts(Asked)}
<1> DEFINE N == NumRanges(Asked)
           Home(x) == Place(Asked, x) \div RangesPerMsg
<1>1. MaxFile \in Nat /\ RangesPerMsg \in Nat \ {0} /\ MaxFile \in 0 .. MaxFile
    BY PlanAssumption
<1>2. IsFiniteSet(Starts(Asked)) /\ N \in 0 .. MaxFile
    BY <1>1, CountFacts, Zenon
<1>3. N \in Nat
    BY <1>1, <1>2
<1>4. ASSUME NEW x \in Starts(Asked)
      PROVE  Home(x) \in 0 .. Parts - 1
    <2> DEFINE B == {y \in Starts(Asked) : y < x}
               i == Place(Asked, x)
               q == CeilDiv(N, RangesPerMsg)
               h == Home(x)
    <2>1. B \in SUBSET Starts(Asked) /\ x \notin B
        <3>1. x \in Nat
            BY <1>1 DEF Starts
        <3> QED
            BY <3>1
    <2>2. B # Starts(Asked)
        BY <1>4, <2>1
    <2>3. i = Cardinality(B)
        BY DEF Place
    <2>4. i <= N /\ i # N /\ IsFiniteSet(B)
        BY <1>2, <2>1, <2>2, <2>3, FS_Subset, Zenon DEF NumRanges
    <2>5. i \in Nat
        BY <2>3, <2>4, FS_CardinalityType, Zenon
    <2>6. h \in Nat /\ i % RangesPerMsg \in 0 .. RangesPerMsg - 1
          /\ i = RangesPerMsg * h + (i % RangesPerMsg)
        BY <1>1, <2>5, DivMod, Zenon
    <2>7. q \in Nat /\ N <= RangesPerMsg * q
        BY <1>1, <1>3, ShardFacts, Zenon DEF Shard
    <2>8. Parts = IF 1 > q THEN 1 ELSE q
        BY DEF Parts, Higher
    <2> HIDE DEF i, q, h, N
    <2>9. h < q
        <3>1. RangesPerMsg * h < RangesPerMsg * q
            BY <1>1, <1>3, <2>4, <2>5, <2>6, <2>7
        <3>2. CASE q = h
            BY <1>1, <2>6, <3>1, <3>2
        <3>3. CASE q < h
            <4>1. RangesPerMsg * q + RangesPerMsg <= RangesPerMsg * h
                BY <1>1, <2>6, <2>7, <3>3, MultipleGap
            <4> QED
                BY <1>1, <2>6, <2>7, <3>1, <4>1
        <3> QED
            BY <2>6, <2>7, <3>2, <3>3
    <2>10. h \in 0 .. Parts - 1
        BY <2>6, <2>7, <2>8, <2>9
    <2> QED
        BY <2>10 DEF h
<1> HIDE DEF N, Home
<1>5. \A p : Part(p) = {RunFrom(Asked, x) : x \in {y \in Starts(Asked) : Home(y) = p}}
    BY DEF Part, Home
<1>6. ASSUME NEW r
      PROVE  r \in UNION {Part(p) : p \in 0 .. Parts - 1} <=>
             r \in {RunFrom(Asked, x) : x \in Starts(Asked)}
    <2>1. ASSUME NEW x \in Starts(Asked), r = RunFrom(Asked, x)
          PROVE  r \in UNION {Part(p) : p \in 0 .. Parts - 1}
        <3>1. r \in Part(Home(x))
            BY <1>5, <2>1
        <3> QED
            BY <1>4, <3>1
    <2>2. ASSUME NEW p \in 0 .. Parts - 1, r \in Part(p)
          PROVE  r \in {RunFrom(Asked, x) : x \in Starts(Asked)}
        BY <1>5, <2>2
    <2> QED
        BY <2>1, <2>2, Zenon
<1> QED
    BY <1>6, Zenon

(* What is asked for depends on the file and the copy alone. *)
LEMMA AskedStays ==
    ASSUME file' = file, lanes' = lanes, lane' = lane, adopted' = adopted, held' = held
    PROVE  Asked' = Asked /\ Parts' = Parts /\ (\A p : Part(p)' = Part(p)) /\ OfLane' = OfLane
<1>1. OfLane' = OfLane
    BY DEF OfLane, LaneBytes, LaneBase, Shard, CeilDiv, Lower
<1>2. MissingBytes' = MissingBytes
    BY <1>1 DEF MissingBytes, LaneBase, Shard, CeilDiv, Lower
<1>3. Asked' = Asked
    BY <1>2 DEF Asked
<1>4. Parts' = Parts
    BY <1>3 DEF Parts
<1>5. \A p : Part(p)' = Part(p)
    BY <1>3 DEF Part
<1> QED
    BY <1>1, <1>3, <1>4, <1>5

-----------------------------------------------------------------------------
(* The plan, once the sender has checked the answer: ranges in order, inside
   the lane. *)

EndOf(r) == r.offset + r.length

InOrder(R, n) ==
    /\ R \in Seq(Extent)
    /\ \A i \in DOMAIN R : EndOf(R[i]) <= n
    /\ \A i, j \in DOMAIN R : i < j => EndOf(R[i]) <= R[j].offset

(* Neighbours apart, all apart. *)
LEMMA ApartInOrder ==
    ASSUME NEW R \in Seq(Extent),
           \A i \in DOMAIN R : i > 1 => R[i].offset >= R[i - 1].offset + R[i - 1].length
    PROVE  \A i, j \in DOMAIN R : i < j => EndOf(R[i]) <= R[j].offset
<1> SUFFICES ASSUME NEW i \in DOMAIN R
             PROVE  \A j \in DOMAIN R : i < j => EndOf(R[i]) <= R[j].offset
    OBVIOUS
<1>1. DOMAIN R = 1 .. Len(R) /\ Len(R) \in Nat
    OBVIOUS
<1>2. \A j \in DOMAIN R : R[j].offset \in Nat /\ R[j].length \in Nat
    <2>1. \A j \in DOMAIN R : R[j] \in Extent
        OBVIOUS
    <2> QED
        BY <2>1 DEF Extent
<1> DEFINE T == {j \in DOMAIN R : i < j /\ ~ (EndOf(R[i]) <= R[j].offset)}
<1>3. ASSUME T # {}
      PROVE  FALSE
    <2>1. T \in SUBSET Nat
        BY <1>1
    <2>2. PICK j \in T : \A m \in T : j <= m
        BY <1>3, <2>1, LeastNat, Zenon
    <2>3. j \in DOMAIN R /\ i < j /\ ~ (EndOf(R[i]) <= R[j].offset)
        OBVIOUS
    <2> HIDE DEF T
    <2>4. j - 1 \in DOMAIN R /\ j > 1 /\ ~ (j <= j - 1)
        BY <1>1, <2>3
    <2>5. R[j].offset >= R[j - 1].offset + R[j - 1].length
        BY <2>3, <2>4
    <2>6. CASE j - 1 = i
        BY <1>2, <2>3, <2>4, <2>5, <2>6 DEF EndOf
    <2>7. CASE i < j - 1
        <3>1. j - 1 \notin T
            BY <2>2, <2>4
        <3>2. EndOf(R[i]) <= R[j - 1].offset
            BY <2>4, <2>7, <3>1 DEF T
        <3> QED
            BY <1>2, <2>3, <2>4, <2>5, <3>2 DEF EndOf
    <2> QED
        BY <1>1, <2>3, <2>6, <2>7
<1> QED
    BY <1>3

PlanTypes ==
    /\ file \in Nat /\ lanes \in Nat \ {0} /\ lane \in Nat
    /\ seq \in Nat /\ ri \in Nat \ {0} /\ offset \in Nat /\ sentLast \in BOOLEAN
    /\ DOMAIN kept \subseteq Nat

(* The registry and what was sealed agree. *)
SealedAsKept ==
    /\ \A s \in 0 .. seq - 1 :
           s \in DOMAIN kept /\ Sealed(s, kept[s].block, kept[s].flags) \in sealed
    /\ \A b \in sealed :
           b.seq \in 0 .. seq - 1 /\ b = Sealed(b.seq, kept[b.seq].block, kept[b.seq].flags)

(* Before the plan is settled nothing is cut. *)
NothingYet == plan = {} => seq = 0 /\ ri = 1 /\ offset = 0 /\ ~ sentLast /\ sealed = {}

(* Where the sender stands in its plan. *)
Standing ==
    \A R \in plan :
        /\ plan = {R} /\ InOrder(R, LaneBytes(file, lanes, lane))
        /\ ~ sentLast => \/ ri <= Len(R) /\ offset \in R[ri].offset .. EndOf(R[ri]) - 1
                         \/ R = <<>> /\ seq = 0 /\ ri = 1 /\ offset = 0 /\ sealed = {}
        /\ sentLast => \A i \in DOMAIN R : EndOf(R[i]) <= offset

(* What has been cut is the plan below the next offset. *)
CutSoFar ==
    /\ \A b \in sealed : b.offset \in Nat /\ b.length \in Nat /\ b.offset + b.length <= offset
    /\ \A b, c \in sealed : b.seq < c.seq => b.offset + b.length <= c.offset
    /\ \A R \in plan : \A x \in Nat :
           (\E b \in sealed : x \in BytesOf(b)) <=> x < offset /\ x \in Planned(R)
    /\ \A b \in sealed : "last" \in b.aad <=> sentLast /\ b.seq = seq - 1

PlanInv == PlanTypes /\ SealedAsKept /\ NothingYet /\ Standing /\ CutSoFar

(* What a range of the plan is, and which bytes the plan holds. *)
LEMMA OrderFacts ==
    ASSUME NEW n, NEW R, InOrder(R, n)
    PROVE  /\ DOMAIN R = 1 .. Len(R) /\ Len(R) \in Nat
           /\ \A i \in DOMAIN R : /\ R[i].offset \in Nat /\ R[i].length \in Nat \ {0}
                                  /\ EndOf(R[i]) \in Nat /\ EndOf(R[i]) <= n
                                  /\ R[i].offset < EndOf(R[i])
           /\ \A i, j \in DOMAIN R : i < j => EndOf(R[i]) <= R[j].offset
           /\ \A x \in Nat : x \in Planned(R) <=>
                 \E i \in DOMAIN R : R[i].offset <= x /\ x < EndOf(R[i])
<1>1. R \in Seq(Extent) /\ DOMAIN R = 1 .. Len(R) /\ Len(R) \in Nat
    BY DEF InOrder
<1>2. \A i \in DOMAIN R : R[i] \in Extent
    BY <1>1
<1>3. \A i \in DOMAIN R : R[i].offset \in Nat /\ R[i].length \in Nat \ {0}
    BY <1>2 DEF Extent
<1>4. \A i \in DOMAIN R : EndOf(R[i]) \in Nat /\ R[i].offset < EndOf(R[i])
    BY <1>3 DEF EndOf
<1>5. \A x \in Nat, i \in DOMAIN R : x \in BytesOf(R[i]) <=> R[i].offset <= x /\ x < EndOf(R[i])
    BY <1>3 DEF BytesOf, EndOf
<1>6. \A x \in Nat : x \in Planned(R) <=>
         \E i \in DOMAIN R : R[i].offset <= x /\ x < EndOf(R[i])
    BY <1>5, Zenon DEF Planned
<1> QED
    BY <1>1, <1>3, <1>4, <1>6, Zenon DEF InOrder

(* Where the sender stands after a block of length len at o in range r. *)
NextRange(R, r, o, len) == IF r <= Len(R) /\ o + len >= EndOf(R[r]) THEN r + 1 ELSE r
NextOffset(R, r, o, len) ==
    IF r < Len(R) /\ o + len >= EndOf(R[r]) THEN R[r + 1].offset ELSE o + len

(* A block within its range: its bytes are planned, none is planned between
   its end and the next offset, and the sender stands in the plan again or
   has come to its end. *)
LEMMA BlockInRange ==
    ASSUME NEW n, NEW R, InOrder(R, n), NEW r \in DOMAIN R,
           NEW o \in R[r].offset .. EndOf(R[r]) - 1,
           NEW len \in 1 .. EndOf(R[r]) - o
    PROVE  LET q == NextRange(R, r, o, len)
               p == NextOffset(R, r, o, len)
               last == r >= Len(R) /\ o + len >= EndOf(R[r])
           IN  /\ q \in Nat \ {0} /\ p \in Nat /\ o + len <= p
               /\ \A x \in o .. o + len - 1 : x \in Planned(R)
               /\ \A x \in o + len .. p - 1 : x \notin Planned(R)
               /\ ~ last => q <= Len(R) /\ p \in R[q].offset .. EndOf(R[q]) - 1
               /\ last => \A i \in DOMAIN R : EndOf(R[i]) <= p
<1> DEFINE q == NextRange(R, r, o, len)
           p == NextOffset(R, r, o, len)
           last == r >= Len(R) /\ o + len >= EndOf(R[r])
<1>1. /\ DOMAIN R = 1 .. Len(R) /\ Len(R) \in Nat /\ r \in 1 .. Len(R)
      /\ \A i \in DOMAIN R : /\ R[i].offset \in Nat /\ EndOf(R[i]) \in Nat
                             /\ R[i].offset < EndOf(R[i])
      /\ \A i, j \in DOMAIN R : i < j => EndOf(R[i]) <= R[j].offset
    BY OrderFacts, Zenon
<1>2. \A x \in Nat : x \in Planned(R) <=>
         \E i \in DOMAIN R : R[i].offset <= x /\ x < EndOf(R[i])
    BY OrderFacts, Zenon
<1>3. o \in Nat /\ len \in Nat \ {0} /\ R[r].offset <= o /\ o + len <= EndOf(R[r])
    BY <1>1
<1>4. \A x \in o .. o + len - 1 : x \in Planned(R)
    <2>1. \A x \in o .. o + len - 1 : x \in Nat /\ R[r].offset <= x /\ x < EndOf(R[r])
        BY <1>1, <1>3
    <2> QED
        BY <1>2, <2>1, Zenon
<1>5. CASE o + len < EndOf(R[r])
    <2>1. q = r /\ p = o + len /\ ~ last
        BY <1>1, <1>3, <1>5 DEF NextRange, NextOffset
    <2> HIDE DEF q, p, last
    <2> QED
        BY <1>1, <1>3, <1>4, <1>5, <2>1 DEF q, p, last
<1>6. CASE o + len = EndOf(R[r]) /\ r < Len(R)
    <2>1. q = r + 1 /\ p = R[r + 1].offset /\ ~ last /\ r + 1 \in DOMAIN R
        BY <1>1, <1>3, <1>6 DEF NextRange, NextOffset
    <2> HIDE DEF q, p, last
    <2>2. p \in Nat /\ o + len <= p /\ q \in Nat \ {0} /\ q <= Len(R) /\ p \in R[q].offset .. EndOf(R[q]) - 1
        BY <1>1, <1>3, <1>6, <2>1
    <2>3. ASSUME NEW x \in o + len .. p - 1
          PROVE  x \notin Planned(R)
        <3>1. x \in Nat /\ EndOf(R[r]) <= x /\ x < R[r + 1].offset
            BY <1>3, <1>6, <2>1, <2>2
        <3>2. ASSUME NEW i \in DOMAIN R, R[i].offset <= x, x < EndOf(R[i])
              PROVE  FALSE
            <4>1. CASE i = r
                BY <1>1, <3>1, <3>2, <4>1
            <4>2. CASE i < r
                BY <1>1, <3>1, <3>2, <4>2
            <4>3. CASE i = r + 1
                BY <1>1, <3>1, <3>2, <4>3
            <4>4. CASE r + 1 < i
                BY <1>1, <2>1, <3>1, <3>2, <4>4
            <4> QED
                BY <1>1, <4>1, <4>2, <4>3, <4>4
        <3> QED
            BY <1>2, <3>1, <3>2
    <2> QED
        BY <1>4, <2>1, <2>2, <2>3 DEF q, p, last
<1>7. CASE o + len = EndOf(R[r]) /\ r = Len(R)
    <2>1. q = r + 1 /\ p = o + len /\ last
        BY <1>1, <1>3, <1>7 DEF NextRange, NextOffset
    <2>2. ASSUME NEW i \in DOMAIN R
          PROVE  EndOf(R[i]) <= EndOf(R[r])
        BY <1>1, <1>7
    <2> HIDE DEF q, p, last
    <2> QED
        BY <1>1, <1>3, <1>4, <1>7, <2>1, <2>2 DEF q, p, last
<1>8. \/ o + len < EndOf(R[r])
      \/ o + len = EndOf(R[r]) /\ r < Len(R)
      \/ o + len = EndOf(R[r]) /\ r = Len(R)
    <2>1. EndOf(R[r]) \in Nat
        BY <1>1, Zenon
    <2>2. r < Len(R) \/ r = Len(R)
        BY <1>1
    <2>3. \A e \in Nat : o + len <= e => o + len < e \/ o + len = e
        BY <1>3
    <2> QED
        BY <1>3, <2>1, <2>2, <2>3, Zenon
<1> QED
    BY <1>5, <1>6, <1>7, <1>8, Zenon

-----------------------------------------------------------------------------
(* Steps that leave the plan and the blocks alone. *)
LEMMA NothingCut ==
    ASSUME PlanInv,
           file' = file, lanes' = lanes, lane' = lane, plan' = plan, ri' = ri, offset' = offset,
           seq' = seq, sentLast' = sentLast, kept' = kept, sealed' = sealed
    PROVE  PlanInv'
<1>1. PlanTypes'
    BY DEF PlanInv, PlanTypes
<1>2. SealedAsKept'
    BY Zenon DEF PlanInv, SealedAsKept, Sealed, Aad
<1>3. NothingYet'
    BY DEF PlanInv, NothingYet
<1>4. Standing'
    BY Zenon DEF PlanInv, Standing, LaneBytes, LaneBase, Shard, CeilDiv, Lower
<1>5. CutSoFar'
    BY Zenon DEF PlanInv, CutSoFar, Planned, BytesOf
<1> QED
    BY <1>1, <1>2, <1>3, <1>4, <1>5 DEF PlanInv

(* The next block, when its sealing fails: only the registry remembers it. *)
LEMMA CutFails ==
    ASSUME PlanInv, NEW size \in BlockSizes, CutBlock(size, FALSE)
    PROVE  PlanInv'
<1>1. PICK v : /\ kept' = [s \in DOMAIN kept \cup {seq} |-> IF s = seq THEN v ELSE kept[s]]
               /\ sealed' = sealed
               /\ seq' = seq /\ sentLast' = sentLast /\ ri' = ri /\ offset' = offset
    BY Zenon DEF CutBlock, Advance
<1>2. /\ file' = file /\ lanes' = lanes /\ lane' = lane /\ plan' = plan
    BY DEF CutBlock
<1>3. PlanTypes /\ SealedAsKept /\ NothingYet /\ Standing /\ CutSoFar
    BY DEF PlanInv
<1>4. \A s \in 0 .. seq - 1 : s \in DOMAIN kept' /\ kept'[s] = kept[s]
    <2>1. \A s \in 0 .. seq - 1 : s # seq
        BY <1>3 DEF PlanTypes
    <2>2. \A s \in 0 .. seq - 1 : s \in DOMAIN kept
        BY <1>3, Zenon DEF SealedAsKept
    <2> QED
        BY <1>1, <2>1, <2>2
<1>5. PlanTypes'
    BY <1>1, <1>2, <1>3 DEF PlanTypes
<1>6. SealedAsKept'
    BY <1>1, <1>3, <1>4, Zenon DEF SealedAsKept, Sealed, Aad
<1>7. NothingYet'
    BY <1>1, <1>2, <1>3 DEF NothingYet
<1>8. Standing'
    BY <1>1, <1>2, <1>3, Zenon DEF Standing, LaneBytes, LaneBase, Shard, CeilDiv, Lower
<1>9. CutSoFar'
    BY <1>1, <1>2, <1>3, Zenon DEF CutSoFar, Planned, BytesOf
<1> QED
    BY <1>5, <1>6, <1>7, <1>8, <1>9 DEF PlanInv

(* The next block, sealed: where it lies and where the sender stands then. *)
LEMMA CutPlace ==
    ASSUME PlanInv, NEW size \in BlockSizes, CutBlock(size, TRUE)
    PROVE  \E R \in plan, len \in Nat, last \in BOOLEAN :
              /\ InOrder(R, LaneBytes(file, lanes, lane)) /\ ~ sentLast
              /\ LET b == [offset |-> offset, length |-> len]
                     flags == IF last THEN {"last"} ELSE {}
                 IN  /\ kept' = [s \in DOMAIN kept \cup {seq} |->
                                    IF s = seq THEN [block |-> b, flags |-> flags] ELSE kept[s]]
                     /\ sealed' = sealed \cup {Sealed(seq, b, flags)}
              /\ seq' = seq + 1 /\ sentLast' = last
              /\ ri' \in Nat \ {0} /\ offset' \in Nat /\ offset + len <= offset'
              /\ \A x \in offset .. offset + len - 1 : x \in Planned(R)
              /\ \A x \in offset + len .. offset' - 1 : x \notin Planned(R)
              /\ ~ last => ri' <= Len(R) /\ offset' \in R[ri'].offset .. EndOf(R[ri']) - 1
              /\ last => \A i \in DOMAIN R : EndOf(R[i]) <= offset'
<1> DEFINE n == LaneBytes(file, lanes, lane)
           EndAt(R) == IF ri <= Len(R) THEN R[ri].offset + R[ri].length ELSE 0
           LenAt(R) == Lower(size, EndAt(R) - offset)
           LastAt(R) == ri >= Len(R) /\ offset + LenAt(R) >= EndAt(R)
           Block(R) == [offset |-> offset, length |-> LenAt(R)]
           Flags(R) == IF LastAt(R) THEN {"last"} ELSE {}
<1>1. PICK R \in plan :
         /\ ri <= Len(R) \/ (R = <<>> /\ seq = 0)
         /\ kept' = [s \in DOMAIN kept \cup {seq} |->
                        IF s = seq THEN [block |-> Block(R), flags |-> Flags(R)] ELSE kept[s]]
         /\ sealed' = sealed \cup {Sealed(seq, Block(R), Flags(R))}
         /\ Advance(R, Block(R), LastAt(R), TRUE)
    BY Zenon DEF CutBlock
<1>2. ~ sentLast
    BY DEF CutBlock
<1>3. /\ InOrder(R, n)
      /\ \/ ri <= Len(R) /\ offset \in R[ri].offset .. EndOf(R[ri]) - 1
         \/ R = <<>> /\ seq = 0 /\ ri = 1 /\ offset = 0 /\ sealed = {}
    BY <1>2, Zenon DEF PlanInv, Standing
<1>4. ri \in Nat \ {0} /\ offset \in Nat /\ size \in Nat \ {0} /\ seq \in Nat
    BY PlanAssumption DEF PlanInv, PlanTypes
<1>5. /\ seq' = seq + 1 /\ sentLast' = LastAt(R)
      /\ ri' = NextRange(R, ri, offset, LenAt(R))
    <2>1. Advance(R, Block(R), LastAt(R), TRUE)
        BY <1>1, Zenon
    <2> QED
        BY <2>1 DEF Advance, NextRange, EndOf
<1>6. /\ DOMAIN R = 1 .. Len(R) /\ Len(R) \in Nat
      /\ \A i \in DOMAIN R : EndOf(R[i]) \in Nat /\ R[i].offset \in Nat
    BY <1>3, OrderFacts, Zenon
<1>7. offset' = NextOffset(R, ri, offset, LenAt(R))
    <2>1. ri < Len(R) => ri <= Len(R)
        BY <1>4, <1>6
    <2> QED
        BY <1>1, <2>1 DEF Advance, NextOffset, EndOf
<1> DEFINE len == LenAt(R)
           last == LastAt(R)
<1> SUFFICES /\ len \in Nat
             /\ ri' \in Nat \ {0} /\ offset' \in Nat /\ offset + len <= offset'
             /\ \A x \in offset .. offset + len - 1 : x \in Planned(R)
             /\ \A x \in offset + len .. offset' - 1 : x \notin Planned(R)
             /\ ~ last => ri' <= Len(R) /\ offset' \in R[ri'].offset .. EndOf(R[ri']) - 1
             /\ last => \A i \in DOMAIN R : EndOf(R[i]) <= offset'
    <2> HIDE DEF len, last
    <2>1. len = LenAt(R) /\ last = LastAt(R) /\ last \in BOOLEAN
        BY DEF len, last
    <2> HIDE DEF LenAt, LastAt
    <2> QED
        BY <1>1, <1>2, <1>3, <1>5, <2>1, Zenon
<1>8. CASE ri <= Len(R) /\ offset \in R[ri].offset .. EndOf(R[ri]) - 1
    <2>1. ri \in DOMAIN R
        BY <1>4, <1>6, <1>8
    <2>2. EndAt(R) = EndOf(R[ri]) /\ EndOf(R[ri]) \in Nat /\ R[ri].offset \in Nat
        BY <1>6, <1>8, <2>1 DEF EndOf
    <2>3. len \in 1 .. EndOf(R[ri]) - offset
        BY <1>4, <1>8, <2>2 DEF Lower
    <2>4. last <=> ri >= Len(R) /\ offset + len >= EndOf(R[ri])
        BY <2>2
    <2> HIDE DEF len, last
    <2>5. LET q == NextRange(R, ri, offset, len)
              p == NextOffset(R, ri, offset, len)
              l == ri >= Len(R) /\ offset + len >= EndOf(R[ri])
          IN  /\ q \in Nat \ {0} /\ p \in Nat /\ offset + len <= p
              /\ \A x \in offset .. offset + len - 1 : x \in Planned(R)
              /\ \A x \in offset + len .. p - 1 : x \notin Planned(R)
              /\ ~ l => q <= Len(R) /\ p \in R[q].offset .. EndOf(R[q]) - 1
              /\ l => \A i \in DOMAIN R : EndOf(R[i]) <= p
        BY <1>3, <1>8, <2>1, <2>3, BlockInRange, Zenon
    <2>6. ri' = NextRange(R, ri, offset, len) /\ offset' = NextOffset(R, ri, offset, len)
        BY <1>5, <1>7 DEF len
    <2>7. len \in Nat
        BY <1>4, <2>2, <2>3
    <2> QED
        BY <2>4, <2>5, <2>6, <2>7, Zenon
<1>9. CASE R = <<>> /\ ri = 1 /\ offset = 0
    <2>1. Len(R) = 0 /\ DOMAIN R = {} /\ ~ (ri <= Len(R)) /\ ~ (ri < Len(R))
        BY <1>9
    <2>2. EndAt(R) = 0 /\ len = 0
        BY <1>4, <1>9, <2>1 DEF Lower
    <2>3. last
        BY <1>9, <2>1, <2>2
    <2>4. ri' = 1 /\ offset' = 0
        BY <1>5, <1>7, <1>9, <2>1, <2>2 DEF NextRange, NextOffset
    <2> HIDE DEF len, last
    <2> QED
        BY <1>9, <2>1, <2>2, <2>3, <2>4
<1> QED
    BY <1>3, <1>8, <1>9, Zenon

LEMMA CutMoves ==
    ASSUME PlanInv, NEW size \in BlockSizes, CutBlock(size, TRUE)
    PROVE  PlanInv'
<1>1. PICK R \in plan, len \in Nat, last \in BOOLEAN :
         /\ InOrder(R, LaneBytes(file, lanes, lane)) /\ ~ sentLast
         /\ LET b == [offset |-> offset, length |-> len]
                flags == IF last THEN {"last"} ELSE {}
            IN  /\ kept' = [s \in DOMAIN kept \cup {seq} |->
                               IF s = seq THEN [block |-> b, flags |-> flags] ELSE kept[s]]
                /\ sealed' = sealed \cup {Sealed(seq, b, flags)}
         /\ seq' = seq + 1 /\ sentLast' = last
         /\ ri' \in Nat \ {0} /\ offset' \in Nat /\ offset + len <= offset'
         /\ \A x \in offset .. offset + len - 1 : x \in Planned(R)
         /\ \A x \in offset + len .. offset' - 1 : x \notin Planned(R)
         /\ ~ last => ri' <= Len(R) /\ offset' \in R[ri'].offset .. EndOf(R[ri']) - 1
         /\ last => \A i \in DOMAIN R : EndOf(R[i]) <= offset'
    BY CutPlace, Zenon
<1> DEFINE b == [offset |-> offset, length |-> len]
           flags == IF last THEN {"last"} ELSE {}
           new == Sealed(seq, b, flags)
<1>2. /\ file' = file /\ lanes' = lanes /\ lane' = lane /\ plan' = plan
    BY DEF CutBlock
<1>3. PlanTypes /\ SealedAsKept /\ NothingYet /\ Standing /\ CutSoFar
    BY DEF PlanInv
<1>4. seq \in Nat /\ offset \in Nat /\ plan = {R} /\ plan' = {R}
    BY <1>2, <1>3 DEF PlanTypes, Standing
<1>5. /\ new.seq = seq /\ new.offset = offset /\ new.length = len
      /\ new.aad = Aad(flags) /\ ("last" \in Aad(flags) <=> last)
    BY DEF Sealed, Aad
<1>6. /\ sealed' = sealed \cup {new} /\ seq \in DOMAIN kept'
      /\ kept'[seq].block = b /\ kept'[seq].flags = flags
    BY <1>1, Zenon
<1>7. \A s \in 0 .. seq - 1 : s \in DOMAIN kept' /\ kept'[s] = kept[s]
    <2>1. \A s \in 0 .. seq - 1 : s # seq
        BY <1>4
    <2>2. \A s \in 0 .. seq - 1 : s \in DOMAIN kept
        BY <1>3, Zenon DEF SealedAsKept
    <2> QED
        BY <1>1, <2>1, <2>2
<1> HIDE DEF b, flags
<1>8. new = Sealed(seq, kept'[seq].block, kept'[seq].flags)
    BY <1>6
<1>9. \A s \in 0 .. seq' - 1 : s = seq \/ s \in 0 .. seq - 1
    BY <1>1, <1>4
<1>10. \A c \in sealed : c.seq \in 0 .. seq - 1 /\ c.seq \in 0 .. seq' - 1
    <2>1. \A s \in 0 .. seq - 1 : s \in 0 .. seq' - 1
        BY <1>1, <1>4
    <2> QED
        BY <1>3, <2>1, Zenon DEF SealedAsKept
<1>11. seq \in 0 .. seq' - 1 /\ seq' - 1 = seq
    BY <1>1, <1>4
<1> HIDE DEF new
<1>12. PlanTypes'
    BY <1>1, <1>2, <1>3 DEF PlanTypes
<1>13. SealedAsKept'
    <2>1. ASSUME NEW s \in 0 .. seq' - 1
          PROVE  s \in DOMAIN kept' /\ Sealed(s, kept'[s].block, kept'[s].flags) \in sealed'
        <3>1. CASE s = seq
            BY <1>6, <1>8, <3>1, Zenon
        <3>2. CASE s \in 0 .. seq - 1
            BY <1>3, <1>6, <1>7, <3>2, Zenon DEF SealedAsKept
        <3> QED
            BY <1>9, <3>1, <3>2
    <2>2. ASSUME NEW c \in sealed'
          PROVE  /\ c.seq \in 0 .. seq' - 1
                 /\ c = Sealed(c.seq, kept'[c.seq].block, kept'[c.seq].flags)
        <3>1. CASE c = new
            BY <1>5, <1>8, <1>11, <3>1, Zenon
        <3>2. CASE c \in sealed
            BY <1>3, <1>7, <1>10, <3>2, Zenon DEF SealedAsKept
        <3> QED
            BY <1>6, <3>1, <3>2
    <2> QED
        BY <2>1, <2>2, Zenon DEF SealedAsKept, Sealed, Aad
<1>14. NothingYet'
    BY <1>4 DEF NothingYet
<1>15. Standing'
    <2>1. LaneBytes(file, lanes, lane)' = LaneBytes(file, lanes, lane)
        BY <1>2 DEF LaneBytes, LaneBase, Shard, CeilDiv, Lower
    <2>2. InOrder(R, LaneBytes(file, lanes, lane)')
        BY <1>1, <2>1
    <2> QED
        BY <1>1, <1>4, <2>2, Zenon DEF Standing
<1>16. CutSoFar'
    <2>0. offset' \in Nat /\ offset + len <= offset' /\ len \in Nat
        BY <1>1, Zenon
    <2>1. \A c \in sealed : c.offset \in Nat /\ c.length \in Nat /\ c.offset + c.length <= offset
        BY <1>3, Zenon DEF CutSoFar
    <2>2. ASSUME NEW c \in sealed'
          PROVE  c.offset \in Nat /\ c.length \in Nat /\ c.offset + c.length <= offset'
        <3>1. CASE c = new
            BY <1>1, <1>4, <1>5, <3>1
        <3>2. CASE c \in sealed
            BY <1>1, <1>4, <2>1, <3>2
        <3> QED
            BY <1>6, <3>1, <3>2
    <2>3. ASSUME NEW c \in sealed', NEW d \in sealed', c.seq < d.seq
          PROVE  c.offset + c.length <= d.offset
        <3>1. CASE c \in sealed /\ d \in sealed
            BY <1>3, <2>3, <3>1, Zenon DEF CutSoFar
        <3>2. CASE c \in sealed /\ d = new
            BY <1>5, <2>1, <3>2
        <3>3. c # new
            <4>1. d.seq \in 0 .. seq
                BY <1>4, <1>5, <1>6, <1>10
            <4> QED
                BY <1>4, <1>5, <2>3, <4>1
        <3> QED
            BY <1>6, <3>1, <3>2, <3>3
    <2>4. ASSUME NEW x \in Nat
          PROVE  (\E c \in sealed' : x \in BytesOf(c)) <=> x < offset' /\ x \in Planned(R)
        <3>1. (\E c \in sealed : x \in BytesOf(c)) <=> x < offset /\ x \in Planned(R)
            BY <1>3, Zenon DEF CutSoFar
        <3>2. x \in BytesOf(new) <=> x \in offset .. offset + len - 1
            BY <1>5 DEF BytesOf
        <3>3. (\E c \in sealed' : x \in BytesOf(c)) <=>
                 x \in BytesOf(new) \/ (\E c \in sealed : x \in BytesOf(c))
            BY <1>6, Zenon
        <3>4. CASE x < offset
            <4>1. x < offset' /\ x \notin offset .. offset + len - 1
                BY <1>4, <2>0, <3>4
            <4> QED
                BY <3>1, <3>2, <3>3, <3>4, <4>1, Zenon
        <3>5. CASE x \in offset .. offset + len - 1
            <4>1. x < offset' /\ x \in Planned(R)
                BY <1>1, <1>4, <3>5
            <4> QED
                BY <3>2, <3>3, <3>5, <4>1, Zenon
        <3>6. CASE offset + len <= x
            <4>1. ~ (x < offset) /\ x \notin offset .. offset + len - 1
                BY <1>4, <2>0, <3>6
            <4>2. x < offset' => x \notin Planned(R)
                <5>1. \A y \in offset + len .. offset' - 1 : y \notin Planned(R)
                    BY <1>1, Zenon
                <5>2. \A p \in Nat : x < p => x \in offset + len .. p - 1
                    BY <1>4, <3>6
                <5> QED
                    BY <2>0, <5>1, <5>2, Zenon
            <4> QED
                BY <3>1, <3>2, <3>3, <4>1, <4>2, Zenon
        <3> QED
            <4>1. x < offset \/ x \in offset .. offset + len - 1 \/ offset + len <= x
                BY <1>4
            <4> QED
                BY <3>4, <3>5, <3>6, <4>1, Zenon
    <2>5. ASSUME NEW c \in sealed'
          PROVE  "last" \in c.aad <=> sentLast' /\ c.seq = seq' - 1
        <3>1. CASE c = new
            BY <1>1, <1>5, <1>11, <3>1, Zenon
        <3>2. CASE c \in sealed
            <4>1. "last" \notin c.aad
                BY <1>1, <1>3, <3>2, Zenon DEF CutSoFar
            <4>2. c.seq # seq
                BY <1>4, <1>10, <3>2
            <4> QED
                BY <1>11, <4>1, <4>2
        <3> QED
            BY <1>6, <3>1, <3>2
    <2>6. \A Q \in plan' : Q = R
        BY <1>4
    <2> QED
        BY <2>2, <2>3, <2>4, <2>5, <2>6, Zenon DEF CutSoFar, Planned, BytesOf
<1> QED
    BY <1>12, <1>13, <1>14, <1>15, <1>16 DEF PlanInv

(* A block that is sealed again was sealed before. *)
LEMMA ResendSeals ==
    ASSUME PlanInv, NEW s \in Resendable, ResendBlock(s)
    PROVE  PlanInv'
<1>1. s \in DOMAIN kept /\ s < seq
    BY DEF Resendable
<1>2. s \in 0 .. seq - 1
    BY <1>1 DEF PlanInv, PlanTypes
<1>3. Aad(kept[s].flags \cup {"retransmission"}) = Aad(kept[s].flags)
    BY DEF Aad
<1>4. sealed' = sealed
    <2>1. Sealed(s, kept[s].block, kept[s].flags) \in sealed
        BY <1>2, Zenon DEF PlanInv, SealedAsKept
    <2>2. sealed' = sealed \cup {Sealed(s, kept[s].block, kept[s].flags)}
        BY <1>3, Zenon DEF ResendBlock, Sealed
    <2> QED
        BY <2>1, <2>2
<1> QED
    BY <1>4, NothingCut, Zenon DEF ResendBlock

(* The plan is settled: in order and inside the lane, whatever the answer. *)
LEMMA SettleKeeps ==
    ASSUME PlanInv, SettlePlan
    PROVE  PlanInv'
<1> DEFINE n == LaneBytes(file, lanes, lane)
<1>1. PICK answer \in Sorted(Answer) :
         LET R == IF HoldTogether(answer) THEN answer ELSE WholeLane
         IN  plan' = {R} /\ offset' = IF R = <<>> THEN 0 ELSE R[1].offset
    BY Zenon DEF SettlePlan
<1> DEFINE R == IF HoldTogether(answer) THEN answer ELSE WholeLane
<1>2. /\ plan = {} /\ file' = file /\ lanes' = lanes /\ lane' = lane /\ ri' = ri
      /\ seq' = seq /\ sentLast' = sentLast /\ kept' = kept /\ sealed' = sealed
    BY DEF SettlePlan
<1>3. seq = 0 /\ ri = 1 /\ ~ sentLast /\ sealed = {}
    BY <1>2 DEF PlanInv, NothingYet
<1>4. n \in Nat
    BY LaneFacts DEF PlanInv, PlanTypes
<1>5. InOrder(R, n)
    <2>1. CASE HoldTogether(answer)
        <3>1. PICK k \in 0 .. MaxRanges : answer \in [1 .. k -> Answer]
            BY Zenon DEF Sorted
        <3>2. k \in Nat
            BY PlanAssumption
        <3>3. answer \in Seq(Extent)
            <4>1. Answer \subseteq Extent
                BY Zenon DEF Answer
            <4>2. answer \in [1 .. k -> Extent]
                BY <3>1, <4>1
            <4> QED
                BY <3>2, <4>2
        <3>4. \A i \in DOMAIN answer :
                 /\ EndOf(answer[i]) <= n
                 /\ i > 1 => answer[i].offset >= answer[i - 1].offset + answer[i - 1].length
            BY <2>1, Zenon DEF HoldTogether, EndOf
        <3> QED
            BY <2>1, <3>3, <3>4, ApartInOrder, Zenon DEF InOrder
    <2>2. CASE ~ HoldTogether(answer)
        <3>1. R = IF n > 0 THEN <<[offset |-> 0, length |-> n]>> ELSE <<>>
            BY <2>2 DEF WholeLane
        <3> HIDE DEF R, n
        <3>2. R \in Seq(Extent)
            <4>1. CASE n > 0
                <5>1. [offset |-> 0, length |-> n] \in Extent
                    BY <1>4, <4>1 DEF Extent
                <5> QED
                    BY <3>1, <4>1, <5>1
            <4>2. CASE ~ (n > 0)
                BY <3>1, <4>2
            <4> QED
                BY <4>1, <4>2
        <3>3. \A i \in DOMAIN R : i = 1 /\ EndOf(R[i]) = n
            BY <1>4, <3>1 DEF EndOf
        <3> QED
            BY <1>4, <3>2, <3>3 DEF InOrder
    <2> QED
        BY <2>1, <2>2
<1> HIDE DEF R
<1>6. plan' = {R} /\ offset' = IF R = <<>> THEN 0 ELSE R[1].offset
    BY <1>1 DEF R
<1>7. R = <<>> \/ (1 \in DOMAIN R /\ 1 <= Len(R))
    BY <1>5 DEF InOrder
<1>8. offset' \in Nat /\ (R # <<>> => offset' \in R[1].offset .. EndOf(R[1]) - 1)
    BY <1>5, <1>6, <1>7, OrderFacts
<1>9. ASSUME NEW x \in Nat, x < offset'
      PROVE  x \notin Planned(R)
    <2>1. 1 \in DOMAIN R /\ offset' = R[1].offset
        BY <1>6, <1>7, <1>9
    <2>2. /\ DOMAIN R = 1 .. Len(R) /\ Len(R) \in Nat
          /\ \A i \in DOMAIN R : R[i].offset \in Nat /\ EndOf(R[i]) \in Nat /\ R[i].offset < EndOf(R[i])
          /\ \A i, j \in DOMAIN R : i < j => EndOf(R[i]) <= R[j].offset
        BY <1>5, OrderFacts, Zenon
    <2>3. \A i \in DOMAIN R : R[1].offset <= R[i].offset
        <3>1. \A i \in DOMAIN R : i = 1 \/ 1 < i
            BY <2>2
        <3> QED
            BY <2>1, <2>2, <3>1
    <2>4. \A i \in DOMAIN R : ~ (R[i].offset <= x)
        BY <1>8, <1>9, <2>1, <2>2, <2>3
    <2> QED
        BY <1>5, <2>4, OrderFacts, Zenon
<1>10. PlanTypes'
    BY <1>2, <1>8 DEF PlanInv, PlanTypes
<1>11. SealedAsKept'
    BY <1>2, Zenon DEF PlanInv, SealedAsKept, Sealed, Aad
<1>12. NothingYet'
    BY <1>6 DEF NothingYet
<1>13. Standing'
    <2>1. InOrder(R, LaneBytes(file, lanes, lane)')
        BY <1>2, <1>5 DEF LaneBytes, LaneBase, Shard, CeilDiv, Lower
    <2> QED
        BY <1>2, <1>3, <1>6, <1>7, <1>8, <2>1 DEF Standing
<1>14. CutSoFar'
    BY <1>2, <1>3, <1>6, <1>9, Zenon DEF CutSoFar, Planned, BytesOf
<1> QED
    BY <1>10, <1>11, <1>12, <1>13, <1>14 DEF PlanInv

(* The invariant holds at the start and is kept by every step. *)
LEMMA PlanInvariant == PlanSpec => []PlanInv
<1>1. PlanInit => PlanInv
    <2> SUFFICES ASSUME PlanInit
                 PROVE  PlanInv
        OBVIOUS
    <2>1. PlanTypes
        <3>1. /\ file \in 0 .. MaxFile /\ lanes \in 1 .. MaxLanes /\ lane \in 0 .. lanes - 1
              /\ ri = 1 /\ offset = 0 /\ seq = 0 /\ sentLast = FALSE /\ kept = <<>>
            BY DEF PlanInit
        <3>2. file \in Nat /\ lanes \in Nat \ {0} /\ lane \in Nat
            BY <3>1, PlanAssumption
        <3>3. DOMAIN kept \subseteq Nat
            BY <3>1
        <3>4. 0 \in Nat /\ 1 \in Nat \ {0}
            OBVIOUS
        <3> QED
            BY <3>1, <3>2, <3>3, <3>4, Zenon DEF PlanTypes
    <2>2. SealedAsKept
        <3>1. seq = 0 /\ sealed = {}
            BY DEF PlanInit
        <3>2. 0 .. seq - 1 = {}
            BY <3>1
        <3> QED
            BY <3>1, <3>2, Zenon DEF SealedAsKept
    <2>3. NothingYet /\ Standing /\ CutSoFar
        BY DEF PlanInit, NothingYet, Standing, CutSoFar
    <2> QED
        BY <2>1, <2>2, <2>3 DEF PlanInv
<1>2. PlanInv /\ [PlanNext]_planVars => PlanInv'
    <2> SUFFICES ASSUME PlanInv, [PlanNext]_planVars
                 PROVE  PlanInv'
        OBVIOUS
    <2>1. CASE StartAcked
        BY <2>1, NothingCut DEF StartAcked
    <2>2. ASSUME NEW p \in 0 .. Parts - 1, PartArrives(p)
          PROVE  PlanInv'
        BY <2>2, NothingCut DEF PartArrives
    <2>3. ASSUME NEW size \in BlockSizes, NEW ok \in BOOLEAN, CutBlock(size, ok)
          PROVE  PlanInv'
        BY <2>3, CutFails, CutMoves, Zenon
    <2>4. CASE UNCHANGED planVars
        BY <2>4, NothingCut DEF planVars
    <2> QED
        BY <2>1, <2>2, <2>3, <2>4, SettleKeeps, ResendSeals, Zenon DEF PlanNext
<1> QED
    BY <1>1, <1>2, PTL DEF PlanSpec

(* Whatever ranges the receiver asks for, however the block size changes and
   whichever sealings fail, everything sealed under one nonce is one block
   with one associated data (send_lane, resend, build_aad). *)
THEOREM OneBlockPerNonce == PlanSpec => []NonceSealsOneBlock
<1>1. PlanInv => NonceSealsOneBlock
    BY Zenon DEF PlanInv, SealedAsKept, NonceSealsOneBlock
<1> QED
    BY <1>1, PlanInvariant, PTL

(* Whatever ranges the receiver asks for, however the block size changes and
   whichever sealings fail, the blocks lie in the lane, are disjoint and in
   the end are exactly the plan, and the last of them and no other is marked
   LastBlock (send_lane). *)
THEOREM BlocksAreThePlan == PlanSpec => []BlocksCarryPlan
<1>1. PlanInv => BlocksCarryPlan
    <2> SUFFICES ASSUME PlanInv
                 PROVE  BlocksCarryPlan
        OBVIOUS
    <2> DEFINE n == LaneBytes(file, lanes, lane)
    <2>1. PlanTypes /\ SealedAsKept /\ NothingYet /\ Standing /\ CutSoFar
        BY DEF PlanInv
    <2>2. n \in Nat /\ OfLane = 0 .. n - 1
        BY <2>1, LaneFacts DEF PlanTypes, OfLane
    <2>3. \A b \in sealed : b.offset \in Nat /\ b.length \in Nat
        BY <2>1, Zenon DEF CutSoFar
    <2>4. \A b \in sealed : \A x \in BytesOf(b) : x \in Nat
        BY <2>3 DEF BytesOf
    <2>5. ASSUME NEW R \in plan, NEW x \in Nat, x \in Planned(R)
          PROVE  x \in 0 .. n - 1
        <3>1. InOrder(R, n)
            BY <2>1, Zenon DEF Standing
        <3>2. PICK i \in DOMAIN R : R[i].offset <= x /\ x < EndOf(R[i])
            BY <2>5, <3>1, OrderFacts, Zenon
        <3>3. EndOf(R[i]) \in Nat /\ EndOf(R[i]) <= n
            BY <3>1, <3>2, OrderFacts, Zenon
        <3> HIDE DEF n
        <3> QED
            BY <2>2, <3>2, <3>3
    <2>6. \A b \in sealed : BytesOf(b) \subseteq OfLane
        <3>1. sealed # {} => plan # {}
            BY <2>1 DEF NothingYet
        <3>2. \A R \in plan, b \in sealed : \A x \in BytesOf(b) : x \in Planned(R)
            BY <2>1, <2>4, Zenon DEF CutSoFar
        <3> HIDE DEF n
        <3> QED
            BY <2>2, <2>4, <2>5, <3>1, <3>2, Zenon
    <2>7. \A b, c \in sealed : b.seq # c.seq => BytesOf(b) \cap BytesOf(c) = {}
        <3>1. \A b \in sealed : b.seq \in Int
            BY <2>1 DEF SealedAsKept, PlanTypes
        <3>2. \A b, c \in sealed : b.seq < c.seq => BytesOf(b) \cap BytesOf(c) = {}
            BY <2>1, <2>3 DEF CutSoFar, BytesOf
        <3>3. \A b, c \in sealed : b.seq # c.seq => b.seq < c.seq \/ c.seq < b.seq
            BY <3>1
        <3> QED
            BY <3>2, <3>3
    <2>8. ASSUME sentLast
          PROVE  \E R \in plan : UNION {BytesOf(b) : b \in sealed} = Planned(R)
        <3>1. PICK R : R \in plan
            BY <2>1, <2>8 DEF NothingYet
        <3>2. InOrder(R, n) /\ \A i \in DOMAIN R : EndOf(R[i]) <= offset
            BY <2>1, <2>8, <3>1, Zenon DEF Standing
        <3>3. ASSUME NEW x \in Nat, x \in Planned(R)
              PROVE  x < offset
            <4>1. PICK i \in DOMAIN R : R[i].offset <= x /\ x < EndOf(R[i])
                BY <3>2, <3>3, OrderFacts, Zenon
            <4>2. EndOf(R[i]) \in Nat /\ EndOf(R[i]) <= offset /\ offset \in Nat
                BY <2>1, <3>2, OrderFacts, Zenon DEF PlanTypes
            <4> QED
                BY <4>1, <4>2
        <3>4. \A x \in Nat : (\E b \in sealed : x \in BytesOf(b)) <=> x \in Planned(R)
            BY <2>1, <3>1, <3>3, Zenon DEF CutSoFar
        <3>5. \A x \in Planned(R) : x \in Nat
            <4>1. \A i \in DOMAIN R : R[i].offset \in Nat /\ R[i].length \in Nat
                BY <3>2, OrderFacts, Zenon
            <4>2. \A i \in DOMAIN R : \A x \in BytesOf(R[i]) : x \in Nat
                BY <4>1 DEF BytesOf
            <4> QED
                BY <4>2, Zenon DEF Planned
        <3> QED
            BY <2>4, <3>1, <3>4, <3>5, Zenon
    <2>9. \A b \in sealed : "last" \in b.aad <=> sentLast /\ b.seq = seq - 1
        BY <2>1, Zenon DEF CutSoFar
    <2> QED
        BY <2>6, <2>7, <2>8, <2>9, Zenon DEF BlocksCarryPlan
<1> QED
    BY <1>1, PlanInvariant, PTL

-----------------------------------------------------------------------------
(* The plan is what the receiver asked for. *)

AskTypes == file \in 0 .. MaxFile /\ lanes \in Nat \ {0} /\ lane \in Nat
PlanAsAsked ==
    /\ \A p \in DOMAIN parts : parts[p] = Part(p)
    /\ \A R \in plan : Planned(R) = Asked
AskInv == AskTypes /\ PlanAsAsked

(* It asks for what it is missing, in its lane and in few ranges. *)
LEMMA AskedFacts ==
    ASSUME AskTypes
    PROVE  /\ MissingBytes \subseteq Asked /\ Asked \subseteq OfLane
           /\ NumRanges(Asked) <= MaxRanges
           /\ Asked \in SUBSET (0 .. MaxFile - 1)
           /\ LaneBytes(file, lanes, lane) \in Nat
<1> DEFINE m == LaneBytes(file, lanes, lane)
<1>1. file \in Nat /\ MaxFile \in Nat /\ file <= MaxFile /\ lanes \in Nat \ {0} /\ lane \in Nat
    BY PlanAssumption DEF AskTypes
<1>2. m \in 0 .. MaxFile
    <2>1. /\ lane * Shard(file, lanes) \in Nat
          /\ LaneBase(file, lanes, lane) =
                IF lane * Shard(file, lanes) < file THEN lane * Shard(file, lanes) ELSE file
          /\ m \in Nat
          /\ m = IF Shard(file, lanes) < file - LaneBase(file, lanes, lane)
                 THEN Shard(file, lanes) ELSE file - LaneBase(file, lanes, lane)
        BY <1>1, LaneFacts, Zenon
    <2>2. Shard(file, lanes) \in Nat
        BY <1>1, ShardFacts, Zenon
    <2> HIDE DEF m
    <2> QED
        BY <1>1, <2>1, <2>2
<1>3. OfLane = 0 .. m - 1 /\ MissingBytes \in SUBSET (0 .. m - 1)
    BY DEF OfLane, MissingBytes
<1> HIDE DEF m
<1>4. /\ MissingBytes \subseteq Asked /\ Asked \subseteq 0 .. m - 1
      /\ NumRanges(Asked) <= MaxRanges
    BY <1>2, <1>3, CoarsenedFacts, Zenon DEF Asked
<1>5. 0 .. m - 1 \subseteq 0 .. MaxFile - 1 /\ m \in Nat
    BY <1>1, <1>2
<1> QED
    BY <1>3, <1>4, <1>5, Zenon DEF m

(* The plan settled from all the parts holds together and is what was asked. *)
LEMMA SettleAsAsked ==
    ASSUME AskInv, SettlePlan
    PROVE  PlanAsAsked'
<1> DEFINE n == LaneBytes(file, lanes, lane)
<1>1. PICK answer \in Sorted(Answer) :
         plan' = {IF HoldTogether(answer) THEN answer ELSE WholeLane}
    BY Zenon DEF SettlePlan
<1>2. /\ DOMAIN parts = 0 .. Parts - 1 /\ parts' = parts
      /\ file' = file /\ lanes' = lanes /\ lane' = lane /\ adopted' = adopted /\ held' = held
    BY DEF SettlePlan
<1>3. AskTypes /\ \A p \in DOMAIN parts : parts[p] = Part(p)
    BY DEF AskInv, PlanAsAsked
<1>4. Asked \in SUBSET (0 .. MaxFile - 1) /\ Asked \subseteq OfLane /\ n \in Nat
    BY <1>3, AskedFacts, Zenon
<1> DEFINE Extents == {RunFrom(Asked, x) : x \in Starts(Asked)}
<1>5. UNION {parts[p] : p \in DOMAIN parts} = Extents
    <2>1. {parts[p] : p \in DOMAIN parts} = {Part(p) : p \in 0 .. Parts - 1}
        BY <1>2, <1>3, Zenon
    <2> QED
        BY <1>4, <2>1, PartsFacts, Zenon
<1>6. ASSUME NEW x \in Starts(Asked)
      PROVE  LET r == RunFrom(Asked, x)
             IN  /\ r \in Extent /\ r.offset = x /\ BytesOf(r) \subseteq Asked
                 /\ x \in Nat /\ r.length \in Nat \ {0}
    <2>1. x \in Asked
        BY DEF Starts
    <2>2. x \in Nat
        BY <1>4, <2>1, PlanAssumption
    <2> DEFINE r == RunFrom(Asked, x)
    <2>3. r \in Extent /\ r.offset = x /\ BytesOf(r) \subseteq Asked
        BY <1>4, <2>1, RangeFacts, Zenon
    <2> HIDE DEF r
    <2>4. r.length \in Nat \ {0}
        BY <2>3 DEF Extent
    <2> QED
        BY <2>2, <2>3, <2>4 DEF r
<1>7. Answer = Extents
    <2>1. Extents \subseteq Extent
        BY <1>6, Zenon
    <2> QED
        BY <1>5, <2>1 DEF Answer
<1>8. /\ Range(answer) = Extents /\ IsInjective(answer)
      /\ \A i, j \in DOMAIN answer : i < j => answer[i].offset <= answer[j].offset
      /\ \E k \in 0 .. MaxRanges : answer \in [1 .. k -> Answer]
    BY <1>7, Zenon DEF Sorted
<1>9. \A i \in DOMAIN answer : \E x \in Starts(Asked) : answer[i] = RunFrom(Asked, x)
    BY <1>8, Zenon DEF Range
<1>10. DOMAIN answer \in SUBSET Nat /\ \A i \in DOMAIN answer : i > 1 => i - 1 \in DOMAIN answer
    BY <1>8, PlanAssumption
<1>11. ASSUME NEW i \in DOMAIN answer
       PROVE  /\ answer[i].offset + answer[i].length <= n
              /\ i > 1 => answer[i].offset >= answer[i - 1].offset + answer[i - 1].length
    <2>1. PICK x \in Starts(Asked) : answer[i] = RunFrom(Asked, x)
        BY <1>9
    <2> DEFINE r == RunFrom(Asked, x)
    <2>2. r.offset = x /\ BytesOf(r) \subseteq Asked /\ x \in Nat /\ r.length \in Nat \ {0}
        BY <1>6, Zenon
    <2>3. x + r.length <= n
        <3>1. OfLane = 0 .. n - 1
            BY DEF OfLane
        <3> HIDE DEF r, n
        <3>2. x + r.length - 1 \in BytesOf(r)
            BY <2>2 DEF BytesOf
        <3>3. x + r.length - 1 \in 0 .. n - 1
            BY <1>4, <2>2, <3>1, <3>2
        <3> QED
            BY <1>4, <2>2, <3>3
    <2>4. ASSUME i > 1
          PROVE  x >= answer[i - 1].offset + answer[i - 1].length
        <3>1. i - 1 \in DOMAIN answer /\ i - 1 < i /\ i - 1 # i
            BY <1>10, <2>4
        <3>2. PICK y \in Starts(Asked) : answer[i - 1] = RunFrom(Asked, y)
            BY <1>9, <3>1
        <3> DEFINE q == RunFrom(Asked, y)
        <3>3. q.offset = y /\ y \in Nat /\ q.length \in Nat
            BY <1>6
        <3>4. answer[i - 1] # answer[i]
            BY <1>8, <3>1, Zenon DEF IsInjective
        <3>5. y # x
            BY <2>1, <3>2, <3>4
        <3>6. answer[i - 1].offset <= answer[i].offset
            BY <1>8, <3>1, Zenon
        <3>7. y < x
            BY <2>1, <2>2, <3>2, <3>3, <3>5, <3>6
        <3>8. y + q.length <= x
            BY <1>4, <3>7, RangesApart, Zenon
        <3> HIDE DEF q, r
        <3>9. answer[i - 1].offset + answer[i - 1].length = y + q.length
            BY <3>2, <3>3 DEF q
        <3> QED
            BY <2>2, <3>3, <3>8, <3>9
    <2> HIDE DEF r, n
    <2> QED
        BY <2>1, <2>2, <2>3, <2>4 DEF r
<1>12. HoldTogether(answer)
    BY <1>11, Zenon DEF HoldTogether
<1>13. plan' = {answer}
    BY <1>1, <1>12
<1>14. Planned(answer) = Asked
    <2>1. ASSUME NEW z \in Planned(answer)
          PROVE  z \in Asked
        <3>1. PICK i \in DOMAIN answer : z \in BytesOf(answer[i])
            BY Zenon DEF Planned
        <3> QED
            BY <1>6, <1>9, <3>1, Zenon
    <2>2. ASSUME NEW z \in Asked
          PROVE  z \in Planned(answer)
        <3>1. PICK x \in Starts(Asked) : z \in BytesOf(RunFrom(Asked, x))
            BY <1>4, RangesCover, Zenon
        <3>2. PICK i \in DOMAIN answer : answer[i] = RunFrom(Asked, x)
            BY <1>8, Zenon DEF Range
        <3> QED
            BY <3>1, <3>2, Zenon DEF Planned
    <2> QED
        BY <2>1, <2>2
<1>15. Asked' = Asked /\ \A p : Part(p)' = Part(p)
    BY <1>2, AskedStays
<1> QED
    BY <1>2, <1>3, <1>13, <1>14, <1>15, Zenon DEF PlanAsAsked, Planned, BytesOf

LEMMA AskInvariant ==
    PlanSpec => []AskInv
<1>1. ASSUME PlanInit
      PROVE  AskInv
    <2>1. file \in 0 .. MaxFile /\ lanes \in Nat \ {0} /\ lane \in Nat
        BY <1>1, PlanAssumption DEF PlanInit
    <2>2. DOMAIN parts = {} /\ plan = {}
        BY <1>1 DEF PlanInit
    <2> QED
        BY <2>1, <2>2 DEF AskInv, AskTypes, PlanAsAsked
<1>2. ASSUME AskInv, [PlanNext]_planVars
      PROVE  AskInv'
    <2>1. file' = file /\ lanes' = lanes /\ lane' = lane /\ adopted' = adopted /\ held' = held
        BY <1>2, Zenon DEF PlanNext, StartAcked, PartArrives, SettlePlan, CutBlock, ResendBlock, planVars
    <2>2. AskTypes'
        BY <1>2, <2>1 DEF AskInv, AskTypes
    <2>3. Asked' = Asked /\ \A p : Part(p)' = Part(p)
        BY <2>1, AskedStays, Zenon
    <2>4. (\A p \in DOMAIN parts : parts[p] = Part(p)) /\ (\A R \in plan : Planned(R) = Asked)
        BY <1>2 DEF AskInv, PlanAsAsked
    <2>5. CASE SettlePlan
        BY <1>2, <2>2, <2>5, SettleAsAsked, Zenon DEF AskInv
    <2>6. ASSUME NEW p \in 0 .. Parts - 1, PartArrives(p)
          PROVE  AskInv'
        <3>1. plan' = plan /\ parts' = [q \in DOMAIN parts \cup {p} |->
                                          IF q \in DOMAIN parts THEN parts[q] ELSE Part(p)]
            BY <2>6 DEF PartArrives
        <3>2. \A q \in DOMAIN parts' : parts'[q] = Part(q)
            BY <2>4, <3>1
        <3> QED
            BY <2>2, <2>3, <2>4, <3>1, <3>2, Zenon DEF AskInv, PlanAsAsked, Planned, BytesOf
    <2>7. ASSUME parts' = parts, plan' = plan
          PROVE  AskInv'
        BY <2>2, <2>3, <2>4, <2>7, Zenon DEF AskInv, PlanAsAsked, Planned, BytesOf
    <2>8. SettlePlan \/ (\E p \in 0 .. Parts - 1 : PartArrives(p)) \/ (parts' = parts /\ plan' = plan)
        BY <1>2, Zenon DEF PlanNext, StartAcked, CutBlock, ResendBlock, planVars
    <2> QED
        BY <2>5, <2>6, <2>7, <2>8, Zenon
<1> QED
    BY <1>1, <1>2, PTL DEF PlanSpec

(* Every byte travels once, for every length of file, number of lanes, limit on
   the ranges and size of block: the lanes share out the file; the lane's
   receiver asks for what it is missing, rounded up inside the lane and in few
   enough ranges (Sink::missing, coarsen_ranges); the parts of its answer, in
   whatever order they came, put together just that plan (send_lane); and the
   blocks cut carry the plan, each byte of it once. *)
THEOREM EveryByteTravelsOnce ==
    PlanSpec => []EveryByteOnce
<1>1. ASSUME AskInv, BlocksCarryPlan
      PROVE  EveryByteOnce
    <2>1. AskTypes /\ \A R \in plan : Planned(R) = Asked
        BY <1>1 DEF AskInv, PlanAsAsked
    <2>2. file \in Nat /\ lanes \in Nat \ {0}
        BY <2>1, PlanAssumption DEF AskTypes
    <2>3. LanesShareFile
        BY <2>2, LanesShareOut, Zenon DEF LanesShareFile
    <2>4. MissingBytes \subseteq Asked /\ Asked \subseteq OfLane /\ NumRanges(Asked) <= MaxRanges
        BY <2>1, AskedFacts, Zenon
    <2> QED
        BY <1>1, <2>1, <2>3, <2>4, Zenon DEF EveryByteOnce
<1> QED
    BY <1>1, AskInvariant, BlocksAreThePlan, PTL
=============================================================================

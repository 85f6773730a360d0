--------------------------- MODULE TransferProofs ---------------------------
(***************************************************************************)
(* Proofs about how blocks get across and onto the disk: FileSink, with    *)
(* its writers, its checkpoints and its crashes, and Lane, for any number  *)
(* of blocks, any window and any network behaviour.                        *)
(***************************************************************************)
EXTENDS Lane, FileSink, RingLemmas, FiniteSetTheorems

-----------------------------------------------------------------------------
(* FileSink, for any file, chunk size, number of sessions and of failures,
   and any crash.

   The argument: a trailer's claim is made true on the disk before it is
   written, and stays true because no session overwrites what a trailer
   claims with bytes of another file.  A session either resumes a trailer
   of its own file or has wiped all of them, so all trailers that can be
   met while it writes name its file.  A counter reaches the length of its
   chunk only when each block of the chunk was written in this session, or
   when a trailer claimed the chunk. *)

Trailers == tcache \cup tdisk
Trailer == [id : Nat, marks : SUBSET Chunks]

(* Where blocks may still be written and checkpoints taken. *)
Active == pc \in {"receiving", "failing", "keeping"}
Committed == pc \in {"committing", "truncated", "synced"}

(* What trailer t says is true of the contents f. *)
True(t, f) ==
    \A c \in t.marks : \A b \in Of(c) : f[b] # Hole /\ FileId[f[b]] = t.id

Contents == [All -> Versions \cup {Hole}]

SinkTypes ==
    /\ cache \in Contents /\ onDisk \in Contents
    /\ version \in Versions
    /\ part \in BOOLEAN /\ existed \in BOOLEAN /\ resumed \in BOOLEAN
    /\ counted \subseteq written /\ written \subseteq wanted /\ wanted \subseteq All
    /\ counters \in [Chunks -> Nat]
    /\ Trailers \subseteq Trailer /\ snapshot \in Trailer
    /\ stage # "idle" => Active
    /\ pc # "closed" => part

(* All trailers are of one file, and true in the page cache and on the disk. *)
TrailersTrue ==
    /\ \A t, u \in Trailers : t # Torn /\ u # Torn => t.id = u.id
    /\ part => \A t \in Trailers : True(t, cache) /\ True(t, onDisk)

(* A session meets only trailers of its own file, and writes such a one. *)
SessionTrailers ==
    /\ pc = "open" => prior \subseteq tcache /\ Torn \notin prior
    /\ Active => \A t \in Trailers : t # Torn => t.id = FileId[version]
    /\ stage \in {"snapshot", "synced", "written"} =>
          snapshot.id = FileId[version] /\ True(snapshot, cache)
    /\ stage \in {"synced", "written"} => True(snapshot, onDisk)

(* A chunk is taken over from an earlier session, or counted block by block. *)
TakenOver(c) ==
    /\ counters[c] = ChunkLen(c)
    /\ \A b \in Of(c) : b \notin wanted /\ cache[b] # Hole /\ FileId[cache[b]] = FileId[version]
Counting(c) == Of(c) \subseteq wanted /\ counters[c] = Cardinality(counted \cap Of(c))

CountersTrue ==
    /\ Active => \A c \in Chunks : TakenOver(c) \/ Counting(c)
    /\ Active => \A b \in written : cache[b] = version
    /\ Active /\ ~ resumed => wanted = All

(* What is committed is what was sent. *)
CommitTrue ==
    /\ Committed => cache = Copy(version)
    /\ pc = "synced" => onDisk = cache
    /\ status = "ok" => pc = "closed"
    /\ OkIsThisFile
    /\ PathWhole

(* The inductive invariant. *)
SinkInv == SinkTypes /\ TrailersTrue /\ SessionTrailers /\ CountersTrue /\ CommitTrue

-----------------------------------------------------------------------------
(* Blocks and chunks. *)

(* Every block is in one chunk, and no chunk is empty. *)
LEMMA ChunkFacts ==
    /\ \A b \in All : Chunk(b) \in Chunks /\ b \in Of(Chunk(b))
    /\ \A c \in Chunks : \E b \in All : b \in Of(c)
    /\ \A c \in Chunks : \A b \in Of(c) : b \in All /\ Chunk(b) = c
    BY DEF Chunks, Of

(* A chunk has a positive number of blocks. *)
LEMMA ChunkLenFacts ==
    ASSUME NEW c \in Chunks
    PROVE  IsFiniteSet(Of(c)) /\ ChunkLen(c) \in Nat \ {0}
<1>1. IsFiniteSet(All)
    BY FS_Interval, SinkAssumption DEF All
<1>2. Of(c) \in SUBSET All
    BY ChunkFacts
<1>3. IsFiniteSet(Of(c))
    BY <1>1, <1>2, FS_Subset
<1>4. Cardinality(Of(c)) \in Nat /\ Cardinality(Of(c)) # 0
    BY <1>3, ChunkFacts, FS_CardinalityType, FS_EmptySet
<1> QED
    BY <1>3, <1>4 DEF ChunkLen

(* A counter that has reached the length of its chunk has counted all of it. *)
LEMMA FullCounter ==
    ASSUME NEW c \in Chunks, NEW S, Cardinality(S \cap Of(c)) >= ChunkLen(c)
    PROVE  Of(c) \subseteq S
<1>1. IsFiniteSet(Of(c)) /\ (S \cap Of(c)) \in SUBSET Of(c) /\ ChunkLen(c) \in Nat
    BY ChunkLenFacts
<1>2. Cardinality(S \cap Of(c)) <= ChunkLen(c) /\ IsFiniteSet(S \cap Of(c))
    BY <1>1, FS_Subset DEF ChunkLen
<1>3. Cardinality(S \cap Of(c)) \in Nat
    BY <1>2, FS_CardinalityType
<1>4. Cardinality(S \cap Of(c)) = Cardinality(Of(c))
    BY <1>1, <1>2, <1>3 DEF ChunkLen
<1> QED
    BY <1>1, <1>4, FS_Subset

(* One more block counts once, and in its chunk only. *)
LEMMA CountOne ==
    ASSUME NEW S, NEW b \in All, b \notin S
    PROVE  /\ Cardinality((S \cup {b}) \cap Of(Chunk(b))) = Cardinality(S \cap Of(Chunk(b))) + 1
           /\ Cardinality(S \cap Of(Chunk(b))) \in Nat
           /\ \A c \in Chunks : c # Chunk(b) => (S \cup {b}) \cap Of(c) = S \cap Of(c)
<1> DEFINE old == S \cap Of(Chunk(b))
<1>1. IsFiniteSet(Of(Chunk(b))) /\ old \in SUBSET Of(Chunk(b))
    BY ChunkFacts, ChunkLenFacts
<1>2. IsFiniteSet(old)
    BY <1>1, FS_Subset
<1>3. (S \cup {b}) \cap Of(Chunk(b)) = old \cup {b} /\ b \notin old
    BY ChunkFacts
<1>4. Cardinality(old \cup {b}) = Cardinality(old) + 1
    BY <1>2, <1>3, FS_AddElement
<1>5. \A c \in Chunks : c # Chunk(b) => b \notin Of(c)
    BY ChunkFacts
<1> QED
    BY <1>2, <1>3, <1>4, <1>5, FS_CardinalityType, Zenon

(* A torn trailer claims nothing. *)
LEMMA TornIsTrailer ==
    Torn \in Trailer /\ (\A f : True(Torn, f)) /\ (\A t \in Trailer : t # Torn <=> t # [id |-> 0, marks |-> {}])
    BY DEF Torn, Trailer, True

-----------------------------------------------------------------------------
(* A step keeps the types. *)
LEMMA TypesInductive ==
    ASSUME SinkInv, [SinkNext]_sinkVars
    PROVE  SinkTypes'
<1> USE TornIsTrailer
    DEF SinkInv, SinkTypes, Trailers, Active, Contents, fsVars, sessionVars, blockVars, checkpointVars,
        boundVars, Fails, Works
<1>1. CASE WriteBack
    BY <1>1 DEF WriteBack
<1>2. CASE Crash
    BY <1>2, Zenon DEF Crash
<1>3. CASE Open
    BY <1>3, Zenon DEF Open, Empty
<1>4. CASE Prepare
    BY <1>4, ChunkLenFacts DEF Prepare, Empty, Missing
<1>4a. CASE PrepareFails
    BY <1>4a, Zenon DEF PrepareFails, Empty
<1>5. ASSUME NEW b \in All, Pwritev(b) \/ PwritevFails(b) \/ CountBlock(b) PROVE SinkTypes'
    BY <1>5, ChunkFacts DEF Pwritev, PwritevFails, CountBlock
<1>6. CASE Snapshot
    BY <1>6, SinkAssumption DEF Snapshot, Trailer
<1>7. CASE SyncData \/ WriteTrailer \/ SyncTrailer
    BY <1>7 DEF SyncData, WriteTrailer, SyncTrailer, Fdatasync
<1>8. CASE EndWell \/ EndEarly \/ Kept
    BY <1>8, Zenon DEF EndWell, EndEarly, Kept, Quiet
<1>9. CASE Truncate \/ SyncFile \/ Rename
    BY <1>9, Zenon DEF Truncate, SyncFile, Rename, GiveUpCommit, Fdatasync
<1>10. CASE UNCHANGED sinkVars
    BY <1>10 DEF sinkVars
<1> QED
    BY <1>1, <1>2, <1>3, <1>4, <1>4a, <1>5, <1>6, <1>7, <1>8, <1>9, <1>10 DEF SinkNext

(* Writing a block of the session's file makes no trailer of it untrue. *)
LEMMA TrueAfterWrite ==
    ASSUME NEW t \in Trailer, NEW f \in Contents, NEW b \in All, version \in Versions,
           True(t, f), t # Torn => t.id = FileId[version]
    PROVE  True(t, [f EXCEPT ![b] = version])
<1>1. version # Hole
    BY SinkAssumption DEF Hole
<1>2. CASE t = Torn
    BY <1>2, TornIsTrailer
<1>3. CASE t # Torn
    BY <1>1, <1>3 DEF True, Contents, Trailer
<1> QED
    BY <1>2, <1>3

(* A step keeps the trailers true: a write, a flush and a crash included. *)
LEMMA TrailersTrueInductive ==
    ASSUME SinkInv, [SinkNext]_sinkVars
    PROVE  TrailersTrue'
<1> USE TornIsTrailer
    DEF SinkInv, SinkTypes, TrailersTrue, Trailers, fsVars, sessionVars, blockVars, checkpointVars,
        boundVars, Fails, Works
<1>1. CASE WriteBack
    <2>1. PICK b \in All : onDisk' = [onDisk EXCEPT ![b] = cache[b]]
        BY <1>1, Zenon DEF WriteBack
    <2>2. part => \A t \in Trailers : True(t, onDisk')
        BY <2>1 DEF True, Contents, Trailer
    <2> QED
        BY <1>1, <2>2, Zenon DEF WriteBack
<1>2. CASE Crash
    <2>1. /\ UNCHANGED <<part, onDisk>> /\ cache' \in {cache, onDisk}
          /\ \A t \in Trailers' : t \in Trailers \/ t = Torn
        BY <1>2, Zenon DEF Crash
    <2> QED
        BY <2>1
<1>3. CASE Open
    BY <1>3 DEF Open
<1>4. CASE Prepare \/ PrepareFails
    <2>1. \/ UNCHANGED <<cache, onDisk, tcache, tdisk>> /\ part
          \/ tcache' = {} /\ tdisk' = {}
        BY <1>4 DEF Prepare, PrepareFails
    <2> QED
        BY <2>1
<1>5. ASSUME NEW b \in All, Pwritev(b) \/ PwritevFails(b) PROVE TrailersTrue'
    <2>1. /\ UNCHANGED <<part, onDisk, tcache, tdisk>> /\ Active
          /\ cache' \in {cache, [cache EXCEPT ![b] = version]}
        BY <1>5 DEF Pwritev, PwritevFails, Active
    <2>2. part => \A t \in Trailers : True(t, [cache EXCEPT ![b] = version])
        BY <2>1, TrueAfterWrite DEF SessionTrailers
    <2> QED
        BY <2>1, <2>2
<1>6. CASE Snapshot \/ (\E b \in All : CountBlock(b)) \/ Kept
    BY <1>6 DEF Snapshot, CountBlock, Kept
<1>7. CASE SyncData \/ SyncTrailer
    BY <1>7 DEF SyncData, SyncTrailer, Fdatasync
<1>8. CASE WriteTrailer
    <2>1. /\ UNCHANGED <<part, cache, onDisk, tdisk>> /\ stage = "synced" /\ Active
          /\ tcache' \in {tcache, {Torn}, {snapshot}}
        BY <1>8 DEF WriteTrailer
    <2>2. /\ snapshot.id = FileId[version] /\ True(snapshot, cache) /\ True(snapshot, onDisk)
          /\ \A t \in Trailers : t # Torn => t.id = FileId[version]
        BY <2>1 DEF SessionTrailers
    <2> QED
        BY <2>1, <2>2
<1>9. CASE EndWell \/ EndEarly
    BY <1>9 DEF EndWell, EndEarly
<1>10. CASE Truncate \/ SyncFile \/ Rename
    BY <1>10 DEF Truncate, SyncFile, Rename, GiveUpCommit, Fdatasync
<1>11. CASE UNCHANGED sinkVars
    BY <1>11 DEF sinkVars
<1> QED
    BY <1>1, <1>2, <1>3, <1>4, <1>5, <1>6, <1>7, <1>8, <1>9, <1>10, <1>11 DEF SinkNext

(* A snapshot claims the complete chunks: each is in the page cache. *)
LEMMA SnapshotTrue ==
    ASSUME SinkInv, Active, NEW t \in Trailer, t.id = FileId[version],
           t.marks = {c \in Chunks : counters[c] >= ChunkLen(c)}
    PROVE  True(t, cache)
<1> SUFFICES ASSUME NEW c \in Chunks, counters[c] >= ChunkLen(c), NEW b \in Of(c)
             PROVE  cache[b] # Hole /\ FileId[cache[b]] = FileId[version]
    BY DEF True
<1>1. CASE TakenOver(c)
    BY <1>1 DEF TakenOver
<1>2. CASE Counting(c)
    <2>1. b \in written
        BY <1>2, FullCounter DEF Counting, SinkInv, SinkTypes
    <2> QED
        BY <2>1, SinkAssumption DEF SinkInv, SinkTypes, CountersTrue, Hole
<1> QED
    BY <1>1, <1>2 DEF SinkInv, CountersTrue

(* The trailers a session can meet stay those of its own file. *)
LEMMA SessionTrailersInductive ==
    ASSUME SinkInv, [SinkNext]_sinkVars
    PROVE  SessionTrailers'
<1> USE TornIsTrailer
    DEF SinkInv, SinkTypes, SessionTrailers, Active, Trailers, fsVars, sessionVars, blockVars,
        checkpointVars, boundVars, Fails, Works
<1>1. CASE WriteBack
    <2>1. PICK b \in All : onDisk' = [onDisk EXCEPT ![b] = cache[b]]
        BY <1>1, Zenon DEF WriteBack
    <2>2. True(snapshot, cache) /\ True(snapshot, onDisk) => True(snapshot, onDisk')
        BY <2>1 DEF True, Contents, Trailer
    <2> QED
        BY <1>1, <2>2 DEF WriteBack
<1>2. CASE Crash
    BY <1>2 DEF Crash
<1>3. CASE Open \/ PrepareFails
    BY <1>3 DEF Open, PrepareFails
<1>4. CASE Prepare
    <2>1. /\ pc = "open" /\ pc' = "receiving" /\ stage' = stage /\ stage = "idle" /\ version' = version
        BY <1>4 DEF Prepare
    <2>2. \/ /\ UNCHANGED <<tcache, tdisk>>
             /\ \E t \in prior : t.id = FileId[version]
          \/ tcache' = {} /\ tdisk' = {}
        BY <1>4 DEF Prepare
    <2> QED
        BY <2>1, <2>2 DEF TrailersTrue
<1>5. ASSUME NEW b \in All, Pwritev(b) \/ PwritevFails(b) PROVE SessionTrailers'
    <2>1. /\ UNCHANGED <<onDisk, tcache, tdisk, version, stage, snapshot>> /\ Active
          /\ cache' \in {cache, [cache EXCEPT ![b] = version]} /\ pc' # "open"
        BY <1>5 DEF Pwritev, PwritevFails
    <2>2. stage \in {"snapshot", "synced", "written"} => True(snapshot, [cache EXCEPT ![b] = version])
        BY TrueAfterWrite
    <2> QED
        BY <2>1, <2>2
<1>6. CASE \E b \in All : CountBlock(b)
    BY <1>6 DEF CountBlock
<1>7. CASE Snapshot
    <2>1. /\ UNCHANGED <<fsVars, pc, version>> /\ stage' = "snapshot" /\ Active
          /\ snapshot' = [id |-> FileId[version],
                          marks |-> {c \in Chunks : counters[c] >= ChunkLen(c)}]
        BY <1>7 DEF Snapshot
    <2>2. snapshot' \in Trailer
        BY <2>1, SinkAssumption DEF Trailer
    <2>3. True(snapshot', cache)
        BY <2>1, <2>2, SnapshotTrue
    <2> QED
        BY <2>1, <2>3
<1>8. CASE SyncData \/ SyncTrailer
    BY <1>8 DEF SyncData, SyncTrailer, Fdatasync
<1>9. CASE WriteTrailer
    BY <1>9 DEF WriteTrailer
<1>10. CASE EndWell \/ EndEarly \/ Kept
    BY <1>10 DEF EndWell, EndEarly, Kept, Quiet
<1>11. CASE Truncate \/ SyncFile \/ Rename
    BY <1>11 DEF Truncate, SyncFile, Rename, GiveUpCommit, Fdatasync
<1>12. CASE UNCHANGED sinkVars
    BY <1>12 DEF sinkVars
<1> QED
    BY <1>1, <1>2, <1>3, <1>4, <1>5, <1>6, <1>7, <1>8, <1>9, <1>10, <1>11, <1>12 DEF SinkNext

(* The counters stay within what the session wrote or took over. *)
LEMMA CountersTrueInductive ==
    ASSUME SinkInv, [SinkNext]_sinkVars
    PROVE  CountersTrue'
<1>1. ASSUME UNCHANGED <<cache, version, resumed, wanted, counters, written, counted>>, Active' => Active
      PROVE  CountersTrue'
    <2>1. CountersTrue
        BY DEF SinkInv
    <2> QED
        BY <1>1, <2>1 DEF CountersTrue, TakenOver, Counting
<1> USE DEF SinkInv, SinkTypes, Active, fsVars, sessionVars, blockVars, checkpointVars, boundVars,
            Fails, Works
<1>0. version # Hole
    BY SinkAssumption DEF Hole
<1>2. CASE Crash \/ Open \/ PrepareFails \/ EndWell
    BY <1>2 DEF Crash, Open, PrepareFails, EndWell, CountersTrue
<1>3. CASE Prepare
    <2> DEFINE id == FileId[version]
               same == {t \in prior : id # 0 /\ t.id = id}
               claimed == {c \in Chunks : \E t \in same : c \in t.marks}
    <2>1. /\ pc = "open" /\ version' = version /\ resumed' = (same # {})
          /\ counters' = [c \in Chunks |-> IF c \in claimed THEN ChunkLen(c) ELSE 0]
          /\ wanted' = Missing(counters')
          /\ written' = {} /\ counted' = {}
          /\ same # {} => cache' = cache
        BY <1>3, Zenon DEF Prepare
    <2>2. ASSUME NEW c \in claimed PROVE TakenOver(c)'
        <3>1. PICK t \in same : c \in t.marks
            OBVIOUS
        <3>2. \A b \in Of(c) : cache[b] # Hole /\ FileId[cache[b]] = id
            <4>1. t \in Trailers /\ t.id = id /\ part
                BY <2>1, <3>1 DEF SessionTrailers, Trailers
            <4>2. True(t, cache)
                BY <4>1 DEF TrailersTrue
            <4> QED
                BY <3>1, <4>1, <4>2 DEF True
        <3>3. \A b \in Of(c) : b \notin wanted'
            BY <2>1, ChunkFacts, ChunkLenFacts DEF Missing
        <3>4. cache' = cache
            BY <2>1, <3>1
        <3>5. version' = version /\ counters'[c] = ChunkLen(c)
            BY <2>1, Zenon
        <3> HIDE DEF SinkInv, SinkTypes, Active, claimed, same
        <3> QED
            BY <3>2, <3>3, <3>4, <3>5, Zenon DEF TakenOver
    <2>3. ASSUME NEW c \in Chunks \ claimed PROVE Counting(c)'
        <3>1. Of(c) \subseteq wanted'
            BY <2>1, ChunkFacts, ChunkLenFacts DEF Missing
        <3> QED
            BY <2>1, <3>1, FS_EmptySet DEF Counting
    <2>4. resumed' \/ wanted' = All
        <3>1. ASSUME same = {} PROVE \A c \in Chunks : counters'[c] < ChunkLen(c)
            BY <2>1, <3>1, ChunkLenFacts
        <3> QED
            BY <2>1, <3>1, ChunkFacts, Zenon DEF Missing
    <2> HIDE DEF claimed
    <2> QED
        BY <2>1, <2>2, <2>3, <2>4, Zenon DEF CountersTrue
<1>4. ASSUME NEW b \in All, Pwritev(b) \/ PwritevFails(b) PROVE CountersTrue'
    <2>1. /\ Active /\ b \in wanted \ written
          /\ UNCHANGED <<version, resumed, wanted, counters, counted>>
          /\ cache' \in {cache, [cache EXCEPT ![b] = version]}
          /\ \/ written' = written
             \/ written' = written \cup {b} /\ cache' = [cache EXCEPT ![b] = version]
        BY <1>4 DEF Pwritev, PwritevFails
    <2>2. ASSUME NEW c \in Chunks, TakenOver(c) PROVE TakenOver(c)'
        BY <2>1, <2>2, ChunkFacts DEF TakenOver, Contents
    <2>3. ASSUME NEW c \in Chunks, Counting(c) PROVE Counting(c)'
        BY <2>1, <2>3 DEF Counting
    <2>4. \A d \in written' : cache'[d] = version
        BY <2>1 DEF CountersTrue, Contents
    <2> QED
        BY <2>1, <2>2, <2>3, <2>4 DEF CountersTrue
<1>5. ASSUME NEW b \in All, CountBlock(b) PROVE CountersTrue'
    <2>1. /\ Active /\ b \in written \ counted
          /\ UNCHANGED <<cache, version, resumed, wanted, written>>
          /\ counters' = [counters EXCEPT ![Chunk(b)] = counters[Chunk(b)] + 1]
          /\ counted' = counted \cup {b}
        BY <1>5 DEF CountBlock
    <2>2. ASSUME NEW c \in Chunks, TakenOver(c) PROVE TakenOver(c)'
        <3>1. c # Chunk(b)
            BY <2>1, <2>2, ChunkFacts DEF TakenOver
        <3> QED
            BY <2>1, <2>2, <3>1 DEF TakenOver
    <2>3. ASSUME NEW c \in Chunks, Counting(c) PROVE Counting(c)'
        <3>1. b \in All /\ b \notin counted
            BY <2>1
        <3>2. CASE c = Chunk(b)
            BY <2>1, <2>3, <3>1, <3>2, CountOne DEF Counting
        <3>3. CASE c # Chunk(b)
            BY <2>1, <2>3, <3>1, <3>3, CountOne, Zenon DEF Counting
        <3> QED
            BY <3>2, <3>3
    <2> QED
        BY <2>1, <2>2, <2>3 DEF CountersTrue
<1>6. CASE WriteBack \/ Snapshot \/ SyncData \/ WriteTrailer \/ SyncTrailer \/ EndEarly \/ Kept
    BY <1>1, <1>6 DEF WriteBack, Snapshot, SyncData, WriteTrailer, SyncTrailer, Fdatasync, EndEarly, Kept
<1>7. CASE Truncate \/ SyncFile \/ Rename
    BY <1>1, <1>7 DEF Truncate, SyncFile, Rename, GiveUpCommit, Fdatasync
<1>8. CASE UNCHANGED sinkVars
    BY <1>1, <1>8 DEF sinkVars
<1> QED
    BY <1>2, <1>3, <1>4, <1>5, <1>6, <1>7, <1>8 DEF SinkNext

(* A session that commits has its whole file on the disk. *)
LEMMA CommitTrueInductive ==
    ASSUME SinkInv, [SinkNext]_sinkVars
    PROVE  CommitTrue'
<1> USE DEF SinkInv, SinkTypes, CommitTrue, OkIsThisFile, PathWhole, Committed, fsVars, sessionVars,
            blockVars, checkpointVars, boundVars, Fails, Works
<1>1. CASE WriteBack
    BY <1>1 DEF WriteBack
<1>2. CASE Crash \/ Open \/ Prepare \/ PrepareFails
    BY <1>2 DEF Crash, Open, Prepare, PrepareFails
<1>3. ASSUME NEW b \in All, Pwritev(b) \/ PwritevFails(b) \/ CountBlock(b) PROVE CommitTrue'
    BY <1>3 DEF Pwritev, PwritevFails, CountBlock
<1>4. CASE Snapshot \/ SyncData \/ WriteTrailer \/ SyncTrailer
    BY <1>4 DEF Snapshot, SyncData, WriteTrailer, SyncTrailer, Fdatasync, Active
<1>5. CASE EndWell
    <2>1. /\ UNCHANGED <<cache, onDisk, path, version>> /\ pc = "receiving"
          /\ counted = wanted
          /\ \/ pc' = "closed" /\ status' = "verify_failed"
             \/ pc' = "committing" /\ status' = status /\ ~ (resumed /\ cache # Copy(version))
        BY <1>5, Zenon DEF EndWell
    <2>2. ~ resumed => cache = Copy(version)
        BY <2>1 DEF CountersTrue, Active, Contents, Copy
    <2> QED
        BY <2>1, <2>2
<1>6. CASE EndEarly \/ Kept
    BY <1>6 DEF EndEarly, Kept
<1>7. CASE Truncate \/ SyncFile
    BY <1>7 DEF Truncate, SyncFile, GiveUpCommit, Fdatasync
<1>8. CASE Rename
    BY <1>8 DEF Rename, GiveUpCommit
<1>9. CASE UNCHANGED sinkVars
    BY <1>9 DEF sinkVars
<1> QED
    BY <1>1, <1>2, <1>3, <1>4, <1>5, <1>6, <1>7, <1>8, <1>9 DEF SinkNext

-----------------------------------------------------------------------------
(* The invariant of the sink. *)
LEMMA SinkInvHolds == SinkSpec => []SinkInv
<1>1. SinkInit => SinkInv
    <2> SUFFICES ASSUME SinkInit PROVE SinkInv
        OBVIOUS
    <2> USE DEF SinkInit
    <2>1. SinkTypes
        <3>1. cache \in Contents /\ onDisk \in Contents
            BY Zenon DEF Contents, Empty
        <3>2. Trailers \subseteq Trailer /\ snapshot \in Trailer
            <4>1. tcache = {} /\ tdisk = {} /\ snapshot = Torn
                OBVIOUS
            <4> HIDE DEF SinkInit
            <4> QED
                BY <4>1, TornIsTrailer, Zenon DEF Trailers
        <3> QED
            BY <3>1, <3>2, Zenon DEF SinkTypes
    <2>2. TrailersTrue /\ SessionTrailers /\ CountersTrue
        BY DEF TrailersTrue, SessionTrailers, CountersTrue, Trailers, Active
    <2>3. CommitTrue
        BY DEF CommitTrue, OkIsThisFile, PathWhole, Committed
    <2> QED
        BY <2>1, <2>2, <2>3 DEF SinkInv
<1>2. SinkInv /\ [SinkNext]_sinkVars => SinkInv'
    BY TypesInductive, TrailersTrueInductive, SessionTrailersInductive, CountersTrueInductive,
       CommitTrueInductive DEF SinkInv
<1> QED
    BY <1>1, <1>2, PTL DEF SinkSpec

(* Whenever the process is killed or the machine crashes, a trailer claims
   only chunks whose every block is on the disk and of the file it names
   (checkpoint() writes it after fdatasync of what it claims, prepare() wipes
   the trailers of other files). *)
THEOREM TrailersAreHonest == SinkSpec => []TrailerHonest
<1>1. SinkInv => TrailerHonest
    BY DEF SinkInv, TrailersTrue, TrailerHonest, Trailers, True
<1> QED
    BY <1>1, SinkInvHolds, PTL

(* <path> is never seen half written: it is renamed over only by a copy that
   is complete and on the disk (finish()). *)
THEOREM PathIsWhole == SinkSpec => []PathWhole
<1>1. SinkInv => PathWhole
    BY DEF SinkInv, CommitTrue
<1> QED
    BY <1>1, SinkInvHolds, PTL

(* A receive_file that returns Ok has put this session's file at <path>, also
   when parts came from an earlier session of a file with the same identity
   but other contents: the digest refuses that. *)
THEOREM OkIsTheFileSent == SinkSpec => []OkIsThisFile
<1>1. SinkInv => OkIsThisFile
    BY DEF SinkInv, CommitTrue
<1> QED
    BY <1>1, SinkInvHolds, PTL

-----------------------------------------------------------------------------
(* Lane.

   The heart of the argument is that the receiver's ACKs form a chain: each
   one describes what had been accepted when it was sent, that set only
   grows, and so of any two ACKs one describes a part of the other.  What
   the sender has gathered from ACKs in any order is then always what some
   single ACK said, whose base is a block the receiver did not have. *)

(* The inductive invariant. *)

FlagsTrue(S) ==
    \A b \in S : b.seq \in 0 .. nextSeq - 1 /\ (b.last <=> b.seq = Blocks - 1)

ReceiverInv ==
    /\ rbase \notin got
    /\ 0 .. rbase - 1 \subseteq got
    /\ got \subseteq 0 .. nextSeq - 1
    /\ got \subseteq disk
    /\ \A b \in done : b.seq \in disk
    /\ final \subseteq {Blocks - 1}
    /\ left => Seqs \subseteq got

Comparable(S, T) == S \subseteq T \/ T \subseteq S

AckInv ==
    /\ \A a \in acks : a.base \notin View(a) /\ View(a) \subseteq got
    /\ \A a, b \in acks : Comparable(View(a), View(b))
    /\ \A a \in acks : Comparable(View(a), SenderView)

SenderInv ==
    /\ sbase <= nextSeq
    /\ sbase \notin SenderView
    /\ SenderView \subseteq got
    /\ RegistryHoldsUnacked
    /\ sstate = "ok" => sbase = Blocks

LaneInv ==
    /\ TypeOK
    /\ FlagsTrue(data) /\ FlagsTrue(queued) /\ FlagsTrue(done)
    /\ ReceiverInv
    /\ AckInv
    /\ SenderInv

-----------------------------------------------------------------------------
(* The sender's registry, with the state it depends on as parameters: r the
   slots, b the base, m the next sequence number. *)

Holds(r, s) == r[Slot(s)].valid /\ r[Slot(s)].seq = s
Delivered(r, b, m) == (0 .. b - 1) \cup {s \in b .. m - 1 : ~ Holds(r, s)}
SlotsOK(r, b, m) ==
    \A i \in 0 .. Window - 1 :
        r[i].valid =>
            /\ r[i].seq \in b .. m - 1
            /\ Slot(r[i].seq) = i
            /\ r[i].last <=> r[i].seq = Blocks - 1
Slots == [0 .. Window - 1 -> [seq : Nat, last : BOOLEAN, valid : BOOLEAN]]

(* The bounds the constants satisfy. *)
LEMMA ConstantTypes == Window \in Nat \ {0} /\ Blocks \in Nat \ {0}
BY LaneAssumption

(* Every sequence number has a slot (index_of). *)
LEMMA SlotType == \A s \in Nat : Slot(s) \in 0 .. Window - 1
<1> SUFFICES ASSUME NEW s \in Nat PROVE Slot(s) \in 0 .. Window - 1
    OBVIOUS
<1>1. Window \in Nat \ {0}
    BY ConstantTypes
<1> QED
    BY <1>1, DivMod DEF Slot

(* Two different sequence numbers less than a window apart have different
   slots. *)
LEMMA SlotApart ==
    ASSUME NEW s \in Nat, NEW t \in Nat, s < t, t < s + Window
    PROVE  Slot(s) # Slot(t)
<1>1. Window \in Nat \ {0}
    BY ConstantTypes
<1>2. CASE s % Window = t % Window
    <2>1. s + Window <= t
        BY <1>1, <1>2, SlotInjective, Zenon
    <2> QED
        BY <1>1, <2>1
<1> QED
    BY <1>2 DEF Slot

(* Storing the next block within the window overwrites no block the sender
   may still need, and leaves what it takes to be delivered as it was. *)
LEMMA StoreKeeps ==
    ASSUME NEW b \in Nat, NEW m \in Nat, b <= m, m < b + Window,
           reg \in Slots, SlotsOK(reg, b, m),
           NEW last \in BOOLEAN, last <=> m = Blocks - 1
    PROVE  /\ Store(m, last) \in Slots
           /\ SlotsOK(Store(m, last), b, m + 1)
           /\ Delivered(Store(m, last), b, m + 1) = Delivered(reg, b, m)
<1> DEFINE r == Store(m, last)
           slot == [seq |-> m, last |-> last, valid |-> TRUE]
<1>0. Window \in Nat \ {0} /\ Slot(m) \in 0 .. Window - 1
    BY ConstantTypes, SlotType
<1>1. /\ r \in Slots
      /\ r[Slot(m)] = slot
      /\ \A i \in 0 .. Window - 1 : i # Slot(m) => r[i] = reg[i]
    BY <1>0 DEF Store, Slots
<1> HIDE DEF r
<1>2. SlotsOK(r, b, m + 1)
    <2> SUFFICES ASSUME NEW i \in 0 .. Window - 1, r[i].valid
                 PROVE  /\ r[i].seq \in b .. (m + 1) - 1
                        /\ Slot(r[i].seq) = i
                        /\ r[i].last <=> r[i].seq = Blocks - 1
        BY DEF SlotsOK
    <2>1. CASE i = Slot(m)
        BY <1>1, <2>1
    <2>2. CASE i # Slot(m)
        <3>1. r[i] = reg[i]
            BY <1>1, <2>2
        <3>2. reg[i].seq \in b .. m - 1 /\ Slot(reg[i].seq) = i
              /\ (reg[i].last <=> reg[i].seq = Blocks - 1)
            BY <3>1 DEF SlotsOK
        <3> QED
            BY <3>1, <3>2
    <2> QED
        BY <2>1, <2>2
<1>3. Holds(r, m)
    BY <1>1 DEF Holds
<1>4. ASSUME NEW s \in b .. m - 1 PROVE Holds(r, s) <=> Holds(reg, s)
    <2>1. s \in Nat /\ s < m /\ m < s + Window
        BY <1>0
    <2>2. Slot(s) # Slot(m) /\ Slot(s) \in 0 .. Window - 1
        BY <2>1, SlotApart, SlotType
    <2> QED
        BY <1>1, <2>2 DEF Holds
<1>5. Delivered(r, b, m + 1) = Delivered(reg, b, m)
    <2>1. b .. (m + 1) - 1 = (b .. m - 1) \cup {m}
        OBVIOUS
    <2>2. {s \in b .. (m + 1) - 1 : ~ Holds(r, s)} = {s \in b .. m - 1 : ~ Holds(reg, s)}
        BY <2>1, <1>3, <1>4
    <2> QED
        BY <2>2 DEF Delivered
<1> QED
    BY <1>1, <1>2, <1>5 DEF r

(* Confirming the blocks an ACK names: the registry keeps its shape, and what
   the sender takes to be delivered grows by exactly what the ACK says. *)
LEMMA ConfirmKeeps ==
    ASSUME NEW b \in Nat, NEW m \in Nat, NEW n \in Nat, b <= n, n <= m,
           reg \in Slots, SlotsOK(reg, b, m),
           NEW S \in SUBSET (b .. m - 1),
           b .. n - 1 \subseteq S \cup Delivered(reg, b, m)
    PROVE  /\ Confirm(S) \in Slots
           /\ SlotsOK(Confirm(S), n, m)
           /\ Delivered(Confirm(S), n, m) = Delivered(reg, b, m) \cup S
<1> DEFINE r == Confirm(S)
<1>0. Window \in Nat \ {0}
    BY ConstantTypes
<1>1. /\ r \in Slots
      /\ \A i \in 0 .. Window - 1 :
            /\ r[i].seq = reg[i].seq /\ (r[i].last <=> reg[i].last)
            /\ r[i].valid <=> (reg[i].valid /\ ~ (reg[i].seq \in S /\ Slot(reg[i].seq) = i))
    BY Zenon DEF Confirm, Slots
<1> HIDE DEF r
<1>2. ASSUME NEW s \in b .. m - 1 PROVE Holds(r, s) <=> Holds(reg, s) /\ s \notin S
    <2>1. Slot(s) \in 0 .. Window - 1
        BY SlotType
    <2> QED
        BY <1>1, <2>1 DEF Holds
<1>3. SlotsOK(r, n, m)
    <2> SUFFICES ASSUME NEW i \in 0 .. Window - 1, r[i].valid
                 PROVE  /\ r[i].seq \in n .. m - 1
                        /\ Slot(r[i].seq) = i
                        /\ r[i].last <=> r[i].seq = Blocks - 1
        BY DEF SlotsOK
    <2>1. /\ reg[i].valid /\ reg[i].seq \in b .. m - 1 /\ Slot(reg[i].seq) = i
          /\ (reg[i].last <=> reg[i].seq = Blocks - 1)
          /\ r[i].seq = reg[i].seq /\ (r[i].last <=> reg[i].last)
          /\ reg[i].seq \notin S
        BY <1>1 DEF SlotsOK
    <2>2. Holds(reg, reg[i].seq)
        BY <2>1 DEF Holds
    <2>3. reg[i].seq \notin Delivered(reg, b, m)
        BY <2>1, <2>2 DEF Delivered
    <2>4. reg[i].seq \notin b .. n - 1
        BY <2>1, <2>3
    <2>5. reg[i].seq \in n .. m - 1
        BY <2>1, <2>4
    <2> QED
        BY <2>1, <2>5
<1>4. Delivered(r, n, m) = Delivered(reg, b, m) \cup S
    <2>1. ASSUME NEW s \in Delivered(r, n, m) PROVE s \in Delivered(reg, b, m) \cup S
        <3>1. CASE s \in 0 .. n - 1
            <4>1. s \in 0 .. b - 1 \/ s \in b .. n - 1
                BY <3>1
            <4> QED
                BY <4>1 DEF Delivered
        <3>2. CASE s \in n .. m - 1 /\ ~ Holds(r, s)
            <4>1. s \in b .. m - 1
                BY <3>2
            <4> QED
                BY <4>1, <3>2, <1>2 DEF Delivered
        <3> QED
            BY <3>1, <3>2 DEF Delivered
    <2>2. ASSUME NEW s \in Delivered(reg, b, m) \cup S PROVE s \in Delivered(r, n, m)
        <3>1. s \in 0 .. b - 1 \/ s \in b .. m - 1
            BY DEF Delivered
        <3>2. CASE s \in 0 .. n - 1
            BY <3>2 DEF Delivered
        <3>3. CASE s \notin 0 .. n - 1
            <4>1. s \in n .. m - 1 /\ s \in b .. m - 1 /\ s \notin 0 .. b - 1
                BY <3>1, <3>3
            <4>2. ~ Holds(r, s)
                BY <4>1, <1>2 DEF Delivered
            <4> QED
                BY <4>1, <4>2 DEF Delivered
        <3> QED
            BY <3>2, <3>3
    <2> QED
        BY <2>1, <2>2
<1> QED
    BY <1>1, <1>3, <1>4 DEF r

(* The parameterised forms are the model's own. *)
LEMMA SenderForms ==
    /\ SenderView = Delivered(reg, sbase, nextSeq)
    /\ RegistryHoldsUnacked <=> SlotsOK(reg, sbase, nextSeq)
    /\ \A s : Resident(s) <=> Holds(reg, s)
BY DEF SenderView, Delivered, RegistryHoldsUnacked, SlotsOK, Resident, Holds

(* What the sender does with an ACK. *)
LEMMA AckApplied ==
    ASSUME NEW a, AckArrives(a)
    PROVE  /\ sbase' = NewBase(a) /\ reg' = Confirm(Taken(a)) /\ nextSeq' = nextSeq
           /\ acked' = acked + Cardinality(Taken(a))
           /\ acks' \subseteq acks
BY Zenon DEF AckArrives, ApplyAck, Arrives, senderVars, networkVars, cadenceVars

(* No ACK names a block that was not sent, so clamping changes nothing. *)
LEMMA AckInRange ==
    ASSUME LaneInv, NEW a \in acks
    PROVE  /\ a.base \in Nat /\ a.sack \subseteq Nat
           /\ a.base <= nextSeq
           /\ View(a) \subseteq 0 .. nextSeq - 1
<1>1. a.base \in Nat /\ a.sack \subseteq Nat /\ nextSeq \in Nat
    BY ConstantTypes DEF LaneInv, TypeOK, Ack
<1>2. View(a) \subseteq 0 .. nextSeq - 1
    BY Zenon DEF LaneInv, AckInv, ReceiverInv
<1>3. CASE a.base > nextSeq
    <2>1. nextSeq \in 0 .. a.base - 1
        BY <1>1, <1>3
    <2>2. nextSeq \in 0 .. nextSeq - 1
        BY <1>2, <2>1 DEF View
    <2> QED
        BY <1>1, <2>2
<1> QED
    BY <1>1, <1>2, <1>3

(* What apply_ack leaves behind: the sender takes exactly the union of its
   own view and the ACK's to be delivered, and its new base is a block that
   neither contains. *)
LEMMA AckMerges ==
    ASSUME LaneInv, NEW a \in acks
    PROVE  /\ NewBase(a) \in Nat /\ sbase <= NewBase(a) /\ NewBase(a) <= nextSeq
           /\ Confirm(Taken(a)) \in Slots
           /\ SlotsOK(Confirm(Taken(a)), NewBase(a), nextSeq)
           /\ Delivered(Confirm(Taken(a)), NewBase(a), nextSeq) = SenderView \cup View(a)
           /\ Delivered(Confirm(Taken(a)), NewBase(a), nextSeq) = SenderView \cup Taken(a)
           /\ NewBase(a) \notin SenderView \cup View(a)
<1> DEFINE n == NewBase(a)
           T == Taken(a)
<1>1. /\ sbase \in Nat /\ nextSeq \in Nat /\ sbase <= nextSeq
      /\ reg \in Slots /\ SlotsOK(reg, sbase, nextSeq)
    BY ConstantTypes, SenderForms DEF LaneInv, TypeOK, SenderInv, Slots
<1>2. /\ a.base \in Nat /\ a.sack \subseteq Nat /\ a.base <= nextSeq
      /\ View(a) \subseteq 0 .. nextSeq - 1
    BY AckInRange
<1>3. n = (IF a.base <= sbase THEN sbase ELSE a.base)
    BY <1>1, <1>2 DEF NewBase
<1>4. n \in Nat /\ sbase <= n /\ n <= nextSeq /\ a.base <= n
    BY <1>1, <1>2, <1>3
<1>5. T = {s \in sbase .. nextSeq - 1 : (s < n \/ s \in a.sack) /\ Holds(reg, s)}
    BY SenderForms DEF Taken
<1> HIDE DEF n, T
<1>6. sbase .. n - 1 \subseteq T \cup Delivered(reg, sbase, nextSeq)
    <2> SUFFICES ASSUME NEW s \in sbase .. n - 1
                 PROVE  s \in T \cup Delivered(reg, sbase, nextSeq)
        OBVIOUS
    <2>1. s \in sbase .. nextSeq - 1 /\ s < n
        BY <1>1, <1>4
    <2> QED
        BY <2>1, <1>5 DEF Delivered
<1>7. T \subseteq sbase .. nextSeq - 1
    BY <1>5
<1>8. /\ Confirm(T) \in Slots /\ SlotsOK(Confirm(T), n, nextSeq)
      /\ Delivered(Confirm(T), n, nextSeq) = SenderView \cup T
    BY <1>1, <1>4, <1>6, <1>7, ConfirmKeeps, SenderForms
<1>9. SenderView \cup T = SenderView \cup View(a)
    <2>1. ASSUME NEW s \in T PROVE s \in View(a)
        <3>1. s \in sbase .. nextSeq - 1 /\ (s < n \/ s \in a.sack)
            BY <1>5
        <3>2. CASE s < n
            <4>1. s \in 0 .. a.base - 1
                BY <1>1, <1>2, <1>3, <3>1, <3>2
            <4> QED
                BY <4>1 DEF View
        <3> QED
            BY <3>1, <3>2 DEF View
    <2>2. ASSUME NEW s \in View(a) PROVE s \in SenderView \cup T
        <3>1. s \in 0 .. nextSeq - 1
            BY <1>2
        <3>2. CASE s \in 0 .. sbase - 1
            BY <3>2 DEF SenderView
        <3>3. CASE s \notin 0 .. sbase - 1
            <4>1. s \in sbase .. nextSeq - 1
                BY <1>1, <3>1, <3>3
            <4>2. s < n \/ s \in a.sack
                <5>1. s \in 0 .. a.base - 1 \/ s \in a.sack
                    BY DEF View
                <5>2. s \in 0 .. a.base - 1 => s < n
                    BY <1>2, <1>4
                <5> QED
                    BY <5>1, <5>2
            <4>3. CASE Holds(reg, s)
                BY <4>1, <4>2, <4>3, <1>5
            <4>4. CASE ~ Holds(reg, s)
                BY <4>1, <4>4, SenderForms DEF Delivered
            <4> QED
                BY <4>3, <4>4
        <3> QED
            BY <3>2, <3>3
    <2> QED
        BY <2>1, <2>2
<1>10. n \notin SenderView \cup View(a)
    <2>1. /\ a.base \notin View(a) /\ sbase \notin SenderView
          /\ View(a) \subseteq SenderView \/ SenderView \subseteq View(a)
        BY DEF LaneInv, AckInv, SenderInv, Comparable
    <2>2. CASE View(a) \subseteq SenderView
        <3>1. sbase \notin 0 .. a.base - 1
            BY <2>1, <2>2 DEF View
        <3>2. n = sbase
            BY <1>1, <1>2, <1>3, <3>1
        <3> QED
            BY <2>1, <2>2, <3>2
    <2>3. CASE SenderView \subseteq View(a)
        <3>1. a.base \notin 0 .. sbase - 1
            BY <2>1, <2>3 DEF SenderView
        <3>2. n = a.base
            BY <1>1, <1>2, <1>3, <3>1
        <3> QED
            BY <2>1, <2>3, <3>2
    <2> QED
        BY <2>1, <2>2, <2>3
<1> QED
    BY <1>4, <1>8, <1>9, <1>10 DEF n, T

-----------------------------------------------------------------------------
(* Initially nothing has been sent. *)
LEMMA InitInv == Init => LaneInv
<1> SUFFICES ASSUME Init PROVE LaneInv
    OBVIOUS
<1>0. Window \in Nat \ {0} /\ Blocks \in Nat \ {0}
    BY ConstantTypes
<1>1. TypeOK
    <2>1. /\ fin \in BOOLEAN /\ heard \in BOOLEAN /\ drained \in BOOLEAN
          /\ peerFinished \in BOOLEAN /\ left \in BOOLEAN
        BY Zenon DEF Init
    <2>2. reg \in [0 .. Window - 1 -> [seq : Nat, last : BOOLEAN, valid : BOOLEAN]]
        BY DEF Init, FreeSlot
    <2> QED
        BY <1>0, <2>1, <2>2 DEF Init, TypeOK
<1>2. SenderView = {}
    <2>1. 0 .. 0 - 1 = {}
        OBVIOUS
    <2> QED
        BY <2>1 DEF Init, SenderView
<1>3. SenderInv
    BY <1>2 DEF SenderInv, Init, RegistryHoldsUnacked, FreeSlot
<1>4. ReceiverInv
    <2>1. 0 .. 0 - 1 = {}
        OBVIOUS
    <2> QED
        BY <2>1 DEF ReceiverInv, Init
<1> QED
    BY <1>1, <1>3, <1>4 DEF LaneInv, FlagsTrue, AckInv, Init

(* Every step keeps the types. *)
LEMMA TypeStep ==
    ASSUME LaneInv, [Next]_vars
    PROVE  TypeOK'
<1>0. /\ Window \in Nat \ {0} /\ Blocks \in Nat \ {0} /\ MaxQuietAcks \in Nat
      /\ TypeOK
    BY ConstantTypes, LaneAssumption DEF LaneInv
<1>a. \A s \in Nat : Resident(s) => Retransmission(s) \in Block
    BY <1>0, SlotType DEF TypeOK, Retransmission, Block
<1> USE DEF senderVars, networkVars, cadenceVars, writerVars, receiverVars
<1>1. CASE SendBlock
    <2>1. reg \in Slots /\ nextSeq \in Nat /\ (nextSeq = Blocks - 1) \in BOOLEAN
        BY <1>0 DEF TypeOK, Slots
    <2>2. Store(nextSeq, nextSeq = Blocks - 1) \in Slots
        BY <2>1, SlotType, Zenon DEF Store, Slots
    <2>3. [seq |-> nextSeq, last |-> (nextSeq = Blocks - 1)] \in Block
        BY <2>1 DEF Block
    <2>4. nextSeq + 1 \in 0 .. Blocks
        BY <1>0, <1>1 DEF SendBlock, TypeOK
    <2> QED
        BY <1>0, <1>1, <2>2, <2>3, <2>4 DEF SendBlock, TypeOK, Slots
<1>2. CASE \E a \in acks : AckArrives(a)
    <2> PICK a \in acks : AckArrives(a)
        BY <1>2
    <2>1. NewBase(a) \in Nat /\ Confirm(Taken(a)) \in Slots
        BY AckMerges
    <2>2. Cardinality(Taken(a)) \in Nat
        <3>1. IsFiniteSet(sbase .. nextSeq - 1)
            BY <1>0, FS_Interval DEF TypeOK
        <3>2. Taken(a) \in SUBSET (sbase .. nextSeq - 1)
            BY Zenon DEF Taken
        <3> QED
            BY <3>1, <3>2, FS_Subset, FS_CardinalityType, Zenon
    <2>3. sbase' \in Nat /\ reg' \in Slots /\ acked' \in Nat
        <3>1. /\ sbase' = NewBase(a) /\ reg' = Confirm(Taken(a))
              /\ acked' = acked + Cardinality(Taken(a))
            BY AckApplied, Zenon
        <3>2. acked \in Nat
            <4>1. TypeOK
                BY <1>0, Zenon
            <4> QED
                BY <4>1 DEF TypeOK
        <3> QED
            BY <2>1, <2>2, <3>1, <3>2
    <2>4. receivedEnd' \in Nat
        <3>1. a.sack \subseteq Nat /\ receivedEnd \in Nat
            BY <1>0 DEF TypeOK, Ack
        <3>2. {receivedEnd, NewBase(a)}
                 \cup {s + 1 : s \in {t \in a.sack : t < nextSeq}} \subseteq Nat
            <4>1. \A t \in a.sack : t + 1 \in Nat
                BY <3>1
            <4> QED
                BY <2>1, <3>1, <4>1, Zenon
        <3> QED
            BY <3>2 DEF AckArrives, ApplyAck
    <2>5. acks' \subseteq acks
        BY AckApplied, Zenon
    <2> QED
        BY <1>0, <2>3, <2>4, <2>5 DEF AckArrives, TypeOK, Slots
<1>3. CASE \E s \in nacks : NackArrives(s)
    <2> PICK s \in nacks : NackArrives(s)
        BY <1>3
    <2>1. s \in Nat /\ nacks' \subseteq nacks
        BY <1>0 DEF TypeOK, NackArrives, Arrives
    <2>2. data' \subseteq Block
        BY <1>0, <1>a, <2>1 DEF NackArrives, TypeOK
    <2> QED
        BY <1>0, <2>1, <2>2 DEF NackArrives, TypeOK
<1>4. CASE Rto
    <2>1. \A s \in RtoBatch : s \in Nat /\ Resident(s)
        BY <1>0 DEF TypeOK, RtoBatch, RtoCandidates
    <2>2. data' \subseteq Block
        BY <1>0, <1>4, <1>a, <2>1 DEF Rto, TypeOK
    <2> QED
        BY <1>0, <1>4, <2>2 DEF Rto, TypeOK
<1>5. CASE Finish
    BY <1>0, <1>5 DEF Finish, TypeOK
<1>6. CASE \E b \in data : DataArrives(b)
    BY <1>0, <1>6 DEF DataArrives, Arrives, TypeOK
<1>7. CASE \E b \in queued : Write(b)
    BY <1>0, <1>7, Zenon DEF Write, TypeOK, Block
<1>8. CASE \E b \in done : Collect(b)
    <2> PICK b \in done : Collect(b)
        BY <1>8
    <2>1. b.seq \in Nat /\ rbase \in Nat
        BY <1>0 DEF TypeOK, Block
    <2>2. got' \subseteq Nat /\ final' \subseteq Nat
        BY <1>0, <2>1, Zenon DEF Collect, TypeOK
    <2>3. rbase' \in Nat
        <3>1. rbase + 1 .. rbase + Window \subseteq Nat
            BY <1>0, <2>1
        <3> QED
            BY <2>1, <3>1 DEF Collect, SlideOver
    <2> QED
        BY <1>0, <2>2, <2>3 DEF Collect, TypeOK
<1>9. CASE SendAck
    <2>1. CurrentAck \in Ack
        BY <1>0, Zenon DEF TypeOK, CurrentAck, Ack
    <2>2. quiet' \in Nat
        BY <1>0, <1>9 DEF SendAck, TypeOK
    <2>3. heard' \in BOOLEAN /\ drained' \in BOOLEAN
        BY <1>9, Zenon DEF SendAck
    <2> QED
        BY <1>0, <1>9, <2>1, <2>2, <2>3 DEF SendAck, TypeOK
<1>10. CASE \E s \in Seqs : SendNack(s)
    BY <1>0, <1>10 DEF SendNack, Seqs, TypeOK
<1>11. CASE FinArrives
    BY <1>0, <1>11 DEF FinArrives, TypeOK
<1>12. CASE Leave
    <2>1. CurrentAck \in Ack
        BY <1>0, Zenon DEF TypeOK, CurrentAck, Ack
    <2> QED
        BY <1>0, <1>12, <2>1 DEF Leave, TypeOK
<1>13. CASE Lose
    BY <1>0, <1>13, Zenon DEF Lose, TypeOK
<1>14. CASE UNCHANGED vars
    BY <1>0, <1>14 DEF vars, TypeOK
<1> QED
    BY <1>1, <1>2, <1>3, <1>4, <1>5, <1>6, <1>7, <1>8, <1>9, <1>10, <1>11, <1>12,
       <1>13, <1>14 DEF Next

(* A block served from the registry is one that was sent, with the flag it
   was sent with. *)
LEMMA RetransmissionTrue ==
    ASSUME LaneInv, NEW s \in Nat, Resident(s)
    PROVE  /\ Retransmission(s).seq \in 0 .. nextSeq - 1
           /\ Retransmission(s).last <=> Retransmission(s).seq = Blocks - 1
<1>1. Slot(s) \in 0 .. Window - 1 /\ sbase \in Nat /\ nextSeq \in Nat
    <2>1. Slot(s) \in 0 .. Window - 1
        BY SlotType, Zenon
    <2>2. TypeOK
        BY DEF LaneInv
    <2>3. sbase \in Nat /\ nextSeq \in 0 .. Blocks /\ Blocks \in Nat
        BY <2>2, ConstantTypes, Zenon DEF TypeOK
    <2> QED
        BY <2>1, <2>3
<1>2. s \in sbase .. nextSeq - 1 /\ (reg[Slot(s)].last <=> s = Blocks - 1)
    BY <1>1 DEF LaneInv, SenderInv, RegistryHoldsUnacked, Resident
<1>3. s \in 0 .. nextSeq - 1
    BY <1>1, <1>2
<1> QED
    BY <1>2, <1>3 DEF Retransmission

(* LastBlock marks the last block and no other, wherever a block is. *)
LEMMA FlagsStep ==
    ASSUME LaneInv, [Next]_vars
    PROVE  FlagsTrue(data)' /\ FlagsTrue(queued)' /\ FlagsTrue(done)'
<1>0. /\ FlagsTrue(data) /\ FlagsTrue(queued) /\ FlagsTrue(done)
      /\ sbase \in Nat /\ nextSeq \in Nat /\ Blocks \in Nat /\ nacks \subseteq Nat
    BY ConstantTypes DEF LaneInv, TypeOK
<1> USE DEF senderVars, networkVars, cadenceVars, writerVars, receiverVars
<1>1. CASE SendBlock
    <2>1. PICK m \in Nat : nextSeq' = m /\ m = nextSeq + 1
        BY <1>0, <1>1 DEF SendBlock
    <2>2. 0 .. nextSeq - 1 \subseteq 0 .. m - 1 /\ nextSeq \in 0 .. m - 1
        <3>1. nextSeq \in Nat /\ m \in Nat /\ m = nextSeq + 1
            BY <1>0, <2>1, Zenon
        <3> QED
            BY <3>1
    <2>3. ASSUME NEW b \in data' PROVE b.seq \in 0 .. m - 1 /\ (b.last <=> b.seq = Blocks - 1)
        <3>1. CASE b \in data
            BY <1>0, <2>2, <3>1 DEF FlagsTrue
        <3>2. CASE b = [seq |-> nextSeq, last |-> (nextSeq = Blocks - 1)]
            BY <2>2, <3>2, Zenon
        <3> QED
            BY <1>1, <3>1, <3>2 DEF SendBlock
    <2>4. queued' = queued /\ done' = done
        BY <1>1 DEF SendBlock
    <2> QED
        BY <1>0, <2>1, <2>2, <2>3, <2>4 DEF FlagsTrue
<1>2. CASE \E s \in nacks : NackArrives(s)
    <2> PICK s \in nacks : NackArrives(s)
        BY <1>2
    <2>1. s \in Nat
        BY <1>0
    <2>2. ASSUME NEW b \in data' PROVE b.seq \in 0 .. nextSeq - 1 /\ (b.last <=> b.seq = Blocks - 1)
        <3>1. b \in data \/ (Resident(s) /\ b = Retransmission(s))
            BY DEF NackArrives
        <3> QED
            BY <1>0, <2>1, <3>1, RetransmissionTrue DEF FlagsTrue
    <2> QED
        BY <1>0, <2>2 DEF NackArrives, FlagsTrue
<1>3. CASE Rto
    <2>1. \A s \in RtoBatch : s \in Nat /\ Resident(s)
        BY <1>0 DEF RtoBatch, RtoCandidates
    <2>2. ASSUME NEW b \in data' PROVE b.seq \in 0 .. nextSeq - 1 /\ (b.last <=> b.seq = Blocks - 1)
        <3>1. b \in data \/ \E s \in RtoBatch : b = Retransmission(s)
            BY <1>3 DEF Rto
        <3> QED
            BY <1>0, <2>1, <3>1, RetransmissionTrue DEF FlagsTrue
    <2> QED
        BY <1>0, <1>3, <2>2 DEF Rto, FlagsTrue
<1>4. CASE /\ nextSeq' = nextSeq /\ data' \subseteq data
           /\ queued' \subseteq queued \cup data /\ done' \subseteq done \cup queued
    BY <1>0, <1>4 DEF FlagsTrue
<1> QED
    BY <1>1, <1>2, <1>3, <1>4, Zenon
       DEF Next, AckArrives, Finish, DataArrives, Arrives, Write, Collect, SendAck,
           SendNack, FinArrives, Leave, Lose, vars

(* A block's acceptance, and where the base goes. *)
LEMMA CollectStep ==
    ASSUME LaneInv, NEW b \in done, Collect(b)
    PROVE  ReceiverInv'
<1>0. /\ rbase \in Nat /\ nextSeq \in Nat /\ Window \in Nat /\ b.seq \in Nat /\ got \subseteq Nat
      /\ FlagsTrue(done) /\ ReceiverInv
    BY ConstantTypes DEF LaneInv, TypeOK, Block
<1>1. /\ b.seq \in 0 .. nextSeq - 1 /\ (b.last <=> b.seq = Blocks - 1) /\ b.seq \in disk
      /\ nextSeq' = nextSeq /\ disk' = disk /\ done' \subseteq done /\ ~ left /\ left' = left
    BY <1>0 DEF FlagsTrue, ReceiverInv, Collect, senderVars
<1>2. final' \subseteq {Blocks - 1}
    BY <1>0, <1>1, Zenon DEF Collect, ReceiverInv
<1>3. got' \subseteq got \cup {b.seq}
    BY DEF Collect
<1>4. got' \subseteq 0 .. nextSeq - 1 /\ got' \subseteq disk
    BY <1>0, <1>1, <1>3 DEF ReceiverInv
<1>5. rbase' \notin got' /\ 0 .. rbase' - 1 \subseteq got'
    <2>1. CASE got' = got /\ rbase' = rbase
        BY <1>0, <2>1 DEF ReceiverInv
    <2>2. CASE got' = got \cup {b.seq} /\ b.seq # rbase /\ rbase' = rbase
        BY <1>0, <2>2 DEF ReceiverInv
    <2>3. CASE got' = got \cup {b.seq} /\ b.seq = rbase /\ SlideOver(b.seq)
        <3>1. PICK n \in rbase + 1 .. rbase + Window :
                 n \notin got /\ rbase + 1 .. n - 1 \subseteq got /\ rbase' = n
            BY <2>3 DEF SlideOver
        <3>2. n # rbase /\ n \in Nat
            BY <1>0
        <3>3. 0 .. n - 1 \subseteq (0 .. rbase - 1) \cup {rbase} \cup (rbase + 1 .. n - 1)
            BY <1>0, <3>2
        <3> QED
            BY <1>0, <2>3, <3>1, <3>2, <3>3 DEF ReceiverInv
    <2> QED
        BY <2>1, <2>2, <2>3 DEF Collect, SlideOver
<1> QED
    BY <1>0, <1>1, <1>2, <1>4, <1>5 DEF ReceiverInv

(* The receiver accepts only what was sent and written, and leaves only when
   it has every block. *)
LEMMA ReceiverStep ==
    ASSUME LaneInv, [Next]_vars
    PROVE  ReceiverInv' /\ got \subseteq got'
<1>0. ReceiverInv /\ nextSeq \in Nat /\ rbase \in Nat /\ Blocks \in Nat
    BY ConstantTypes DEF LaneInv, TypeOK
<1> USE DEF senderVars, networkVars, cadenceVars, writerVars, receiverVars
<1>1. CASE SendBlock
    <2>1. PICK m \in Nat : nextSeq' = m /\ m = nextSeq + 1
        BY <1>0, <1>1 DEF SendBlock
    <2>2. 0 .. nextSeq - 1 \subseteq 0 .. m - 1
        BY <1>0, <2>1
    <2> QED
        BY <1>0, <1>1, <2>1, <2>2 DEF ReceiverInv, SendBlock
<1>2. CASE \E b \in queued : Write(b)
    BY <1>0, <1>2 DEF ReceiverInv, Write
<1>3. CASE \E b \in done : Collect(b)
    BY <1>3, CollectStep DEF Collect
<1>4. CASE Leave
    <2>1. rbase > Blocks - 1
        BY <1>0, <1>4 DEF Leave, ReceiverInv
    <2>2. Seqs \subseteq 0 .. rbase - 1
        BY <1>0, <2>1 DEF Seqs
    <2> QED
        BY <1>0, <1>4, <2>2 DEF Leave, ReceiverInv
<1>5. CASE UNCHANGED <<rbase, got, final, left, done, disk, nextSeq>>
    BY <1>0, <1>5 DEF ReceiverInv
<1> QED
    BY <1>1, <1>2, <1>3, <1>4, <1>5, Zenon
       DEF Next, AckArrives, NackArrives, Rto, Finish, DataArrives, SendAck,
           SendNack, FinArrives, Lose, vars

(* The sender's view changes only when an ACK arrives, and then to its union
   with what the ACK says. *)
LEMMA ViewStep ==
    ASSUME LaneInv, [Next]_vars
    PROVE  \/ /\ SenderView' = SenderView /\ sbase' = sbase
              /\ sbase <= nextSeq' /\ RegistryHoldsUnacked'
              /\ \A a \in acks' : a \in acks \/ a = CurrentAck
           \/ \E a \in acks :
                 /\ AckArrives(a)
                 /\ SenderView' = SenderView \cup View(a)
                 /\ sbase' \notin SenderView'
                 /\ \E n \in Nat : sbase' = n /\ n <= nextSeq
                 /\ nextSeq' = nextSeq
                 /\ RegistryHoldsUnacked' /\ acks' \subseteq acks
<1>0. /\ sbase \in Nat /\ nextSeq \in Nat /\ Blocks \in Nat /\ Window \in Nat
      /\ sbase <= nextSeq /\ reg \in Slots /\ SlotsOK(reg, sbase, nextSeq)
    BY ConstantTypes, SenderForms DEF LaneInv, TypeOK, SenderInv, Slots
<1>f. /\ SenderView' = Delivered(reg', sbase', nextSeq')
      /\ RegistryHoldsUnacked' <=> SlotsOK(reg', sbase', nextSeq')
    BY DEF SenderView, Delivered, RegistryHoldsUnacked, SlotsOK, Resident, Holds
<1> USE DEF senderVars, networkVars, cadenceVars, writerVars, receiverVars
<1>1. CASE SendBlock
    <2> DEFINE last == nextSeq = Blocks - 1
    <2>1. nextSeq < sbase + Window /\ last \in BOOLEAN
        BY <1>1 DEF SendBlock
    <2>2. reg' = Store(nextSeq, last) /\ sbase' = sbase /\ acks' = acks
        BY <1>1 DEF SendBlock
    <2>3. /\ SlotsOK(Store(nextSeq, last), sbase, nextSeq + 1)
          /\ Delivered(Store(nextSeq, last), sbase, nextSeq + 1) = Delivered(reg, sbase, nextSeq)
        BY <1>0, <2>1, StoreKeeps, Zenon
    <2>4. nextSeq' = nextSeq + 1
        BY <1>1 DEF SendBlock
    <2>5. PICK m \in Nat : m = nextSeq + 1
        BY <1>0
    <2>6. sbase <= m
        BY <1>0, <2>5
    <2> HIDE DEF last
    <2> QED
        BY <1>f, <2>2, <2>3, <2>4, <2>5, <2>6, SenderForms
<1>2. CASE \E a \in acks : AckArrives(a)
    <2> PICK a \in acks : AckArrives(a)
        BY <1>2
    <2>1. sbase' = NewBase(a) /\ reg' = Confirm(Taken(a)) /\ nextSeq' = nextSeq
          /\ acks' \subseteq acks
        BY AckApplied, Zenon
    <2> QED
        BY <1>f, <2>1, AckMerges
<1>3. CASE UNCHANGED <<reg, sbase, nextSeq>> /\ \A a \in acks' : a \in acks \/ a = CurrentAck
    BY <1>0, <1>3, <1>f, SenderForms
<1>4. ASSUME (\E s \in nacks : NackArrives(s)) \/ Rto \/ Finish \/ (\E b \in data : DataArrives(b))
      PROVE  UNCHANGED <<reg, sbase, nextSeq, acks>>
    BY <1>4, Zenon DEF NackArrives, Rto, Finish, DataArrives
<1>5. ASSUME \/ \E b \in queued : Write(b)
             \/ \E b \in done : Collect(b)
             \/ \E s \in Seqs : SendNack(s)
             \/ FinArrives \/ UNCHANGED vars
      PROVE  UNCHANGED <<reg, sbase, nextSeq, acks>>
    BY <1>5, Zenon DEF Write, Collect, SendNack, FinArrives, vars
<1>6. ASSUME SendAck \/ Leave \/ Lose
      PROVE  /\ UNCHANGED <<reg, sbase, nextSeq>>
             /\ \A a \in acks' : a \in acks \/ a = CurrentAck
    BY <1>6 DEF SendAck, Leave, Lose
<1> QED
    BY <1>1, <1>2, <1>3, <1>4, <1>5, <1>6 DEF Next

(* The current ACK says exactly what has been accepted. *)
LEMMA CurrentAckView ==
    ASSUME LaneInv
    PROVE  View(CurrentAck) = got /\ CurrentAck.base \notin got
<1>1. /\ rbase \in Nat /\ got \subseteq Nat /\ rbase \notin got
      /\ 0 .. rbase - 1 \subseteq got
    BY DEF LaneInv, TypeOK, ReceiverInv
<1>2. \A s \in got : s \in 0 .. rbase - 1 \/ s > rbase
    BY <1>1
<1> QED
    BY <1>1, <1>2, Zenon DEF View, CurrentAck

(* ACKs in flight stay true, and stay a chain that the sender's view is in. *)
LEMMA AckStep ==
    ASSUME LaneInv, [Next]_vars
    PROVE  AckInv'
<1>0. AckInv /\ SenderView \subseteq got /\ got \subseteq got'
    BY ReceiverStep DEF LaneInv, SenderInv
<1>v. \A a : View(a)' = View(a)
    BY DEF View
<1>1. CASE /\ SenderView' = SenderView
           /\ \A a \in acks' : a \in acks \/ a = CurrentAck
    <2>1. \A a \in acks' : a.base \notin View(a) /\ View(a) \subseteq got
        BY <1>0, <1>1, CurrentAckView DEF AckInv
    <2>2. \A a, b \in acks' : Comparable(View(a), View(b))
        BY <1>0, <1>1, CurrentAckView DEF AckInv, Comparable
    <2>3. \A a \in acks' : Comparable(View(a), SenderView)
        BY <1>0, <1>1, CurrentAckView DEF AckInv, Comparable
    <2> QED
        BY <1>0, <1>1, <1>v, <2>1, <2>2, <2>3 DEF AckInv, Comparable
<1>2. CASE \E a \in acks : SenderView' = SenderView \cup View(a) /\ acks' \subseteq acks
    <2> PICK a \in acks : SenderView' = SenderView \cup View(a) /\ acks' \subseteq acks
        BY <1>2
    <2>1. SenderView' = SenderView \/ SenderView' = View(a)
        BY <1>0 DEF AckInv, Comparable
    <2>2. \A b \in acks' : Comparable(View(b), SenderView')
        BY <1>0, <2>1 DEF AckInv
    <2> QED
        BY <1>0, <1>v, <2>2 DEF AckInv, Comparable
<1> QED
    BY <1>1, <1>2, ViewStep

(* The sender's side of the invariant. *)
LEMMA SenderStep ==
    ASSUME LaneInv, [Next]_vars
    PROVE  SenderInv'
<1>0. /\ SenderInv /\ AckInv /\ got \subseteq got'
      /\ sbase \in Nat /\ nextSeq \in 0 .. Blocks /\ Blocks \in Nat
    BY ReceiverStep, ConstantTypes DEF LaneInv, TypeOK
<1>1. sbase' \notin SenderView' /\ RegistryHoldsUnacked' /\ SenderView' \subseteq got'
    <2>1. CASE SenderView' = SenderView /\ sbase' = sbase /\ RegistryHoldsUnacked'
        BY <1>0, <2>1 DEF SenderInv
    <2>2. CASE \E a \in acks : /\ SenderView' = SenderView \cup View(a)
                               /\ sbase' \notin SenderView' /\ RegistryHoldsUnacked'
        BY <1>0, <2>2 DEF SenderInv, AckInv
    <2> QED
        BY <2>1, <2>2, ViewStep
<1>2. sbase' <= nextSeq'
    BY ViewStep
<1>3. sstate' = "ok" => sbase' = Blocks
    <2>1. CASE Finish
        <3>1. sbase' = sbase /\ sbase >= nextSeq /\ nextSeq = Blocks
            BY <2>1 DEF Finish
        <3>2. sbase = Blocks
            BY <1>0, <3>1 DEF SenderInv
        <3> QED
            BY <3>1, <3>2
    <2>2. CASE sstate' = "sending"
        BY <2>2
    <2>3. CASE sstate' = sstate /\ sbase' = sbase
        BY <1>0, <2>3 DEF SenderInv
    <2> QED
        BY <2>1, <2>2, <2>3, Zenon
           DEF Next, SendBlock, AckArrives, NackArrives, Rto, DataArrives, Write, Collect,
               SendAck, SendNack, FinArrives, Leave, Lose, vars, senderVars
<1> QED
    BY <1>1, <1>2, <1>3 DEF SenderInv

-----------------------------------------------------------------------------
(* Every step of a lane keeps the invariant. *)
LEMMA LaneInvStep == LaneInv /\ [Next]_vars => LaneInv'
BY TypeStep, FlagsStep, ReceiverStep, AckStep, SenderStep DEF LaneInv

(* The invariant holds of every reachable state of a lane. *)
THEOREM LaneInvariant == Spec => []LaneInv
BY InitInv, LaneInvStep, PTL DEF Spec

(* A registry slot in use always holds a block that is still unacknowledged,
   at its own position and with its LastBlock flag. *)
THEOREM RegistrySafe == Spec => [](TypeOK /\ RegistryHoldsUnacked)
<1>1. LaneInv => TypeOK /\ RegistryHoldsUnacked
    BY DEF LaneInv, SenderInv
<1> QED
    BY <1>1, LaneInvariant, PTL

(* Whatever order ACKs arrive in, a block the sender believes delivered has
   been accepted and written by the receiver. *)
THEOREM AcknowledgedIsWritten == Spec => []BelievedIsOnDisk
<1>1. LaneInv => BelievedIsOnDisk
    BY DEF LaneInv, SenderInv, ReceiverInv, BelievedIsOnDisk
<1> QED
    BY <1>1, LaneInvariant, PTL

(* A retransmission timeout always finds the oldest unacknowledged block in
   the registry. *)
THEOREM TimeoutCanResend == Spec => []BaseResident
<1>1. LaneInv => BaseResident
    <2> SUFFICES ASSUME LaneInv, sbase < nextSeq PROVE Resident(sbase)
        BY DEF BaseResident
    <2>1. sbase \in Nat /\ nextSeq \in Nat /\ sbase \notin SenderView
        BY ConstantTypes DEF LaneInv, TypeOK, SenderInv
    <2>2. sbase \in sbase .. nextSeq - 1
        BY <2>1
    <2> QED
        BY <2>1, <2>2 DEF SenderView
<1> QED
    BY <1>1, LaneInvariant, PTL

(* A lane that ends well, on either side, has put every block on disk. *)
THEOREM SuccessIsComplete == Spec => []OkMeansWritten
<1>1. LaneInv => OkMeansWritten
    <2> SUFFICES ASSUME LaneInv, sstate = "ok" \/ left PROVE Seqs \subseteq disk
        BY DEF OkMeansWritten
    <2>1. got \subseteq disk
        BY DEF LaneInv, ReceiverInv
    <2>2. CASE left
        BY <2>1, <2>2, Zenon DEF LaneInv, ReceiverInv
    <2>3. CASE sstate = "ok"
        BY <2>1, <2>3 DEF LaneInv, SenderInv, SenderView, Seqs
    <2> QED
        BY <2>2, <2>3
<1> QED
    BY <1>1, LaneInvariant, PTL

-----------------------------------------------------------------------------
(* The blocks in flight are those sent and not taken to be delivered. *)
Unconfirmed(r, b, m) == {s \in b .. m - 1 : Holds(r, s)}

(* They are what the sender's view leaves of the blocks sent. *)
LEMMA UnconfirmedForm ==
    ASSUME NEW r, NEW b \in Nat, NEW m \in Nat, b <= m
    PROVE  Unconfirmed(r, b, m) = (0 .. m - 1) \ Delivered(r, b, m)
<1>1. 0 .. m - 1 = (0 .. b - 1) \cup (b .. m - 1)
    OBVIOUS
<1>2. (0 .. b - 1) \cap (b .. m - 1) = {}
    OBVIOUS
<1> QED
    BY <1>1, <1>2 DEF Unconfirmed, Delivered

(* One ACK adds to acked_bytes exactly what leaves the blocks in flight, and
   one new block joins them. *)
LEMMA AckedStep ==
    ASSUME LaneInv, AckedOnce, [Next]_vars
    PROVE  AckedOnce'
<1> DEFINE U == Unconfirmed(reg, sbase, nextSeq)
<1>0. /\ sbase \in Nat /\ nextSeq \in Nat /\ Blocks \in Nat /\ Window \in Nat /\ acked \in Nat
      /\ sbase <= nextSeq /\ reg \in Slots /\ SlotsOK(reg, sbase, nextSeq)
    BY ConstantTypes, SenderForms DEF LaneInv, TypeOK, SenderInv, Slots
<1>1. /\ nextSeq - acked = Cardinality(U)
      /\ IsFiniteSet(U) /\ U \subseteq 0 .. nextSeq - 1 /\ Cardinality(U) \in Nat
    <2>1. {s \in sbase .. nextSeq - 1 : Resident(s)} = U
        BY Zenon DEF Unconfirmed, Resident, Holds
    <2>2. IsFiniteSet(sbase .. nextSeq - 1)
        BY <1>0, FS_Interval
    <2>3. U \in SUBSET (sbase .. nextSeq - 1)
        BY DEF Unconfirmed
    <2>4. IsFiniteSet(U)
        BY <2>2, <2>3, FS_Subset, Zenon
    <2>5. U \subseteq 0 .. nextSeq - 1
        BY <1>0, <2>3
    <2> QED
        BY <2>1, <2>4, <2>5, FS_CardinalityType, Zenon DEF AckedOnce
<1>2. AckedOnce' <=> nextSeq' - acked' = Cardinality(Unconfirmed(reg', sbase', nextSeq'))
    <2>1. {s \in sbase .. nextSeq - 1 : Resident(s)}' = Unconfirmed(reg', sbase', nextSeq')
        BY DEF Unconfirmed, Resident, Holds
    <2> QED
        BY <2>1, Zenon DEF AckedOnce
<1>3. U = (0 .. nextSeq - 1) \ Delivered(reg, sbase, nextSeq)
    BY <1>0, UnconfirmedForm
<1> HIDE DEF U
<1> USE DEF senderVars, networkVars, cadenceVars, writerVars, receiverVars
<1>4. CASE SendBlock
    <2> DEFINE last == nextSeq = Blocks - 1
    <2>1. /\ nextSeq < sbase + Window /\ last \in BOOLEAN
          /\ reg' = Store(nextSeq, last) /\ sbase' = sbase /\ acked' = acked
          /\ nextSeq' = nextSeq + 1
        BY <1>4 DEF SendBlock
    <2>2. Delivered(Store(nextSeq, last), sbase, nextSeq + 1) = Delivered(reg, sbase, nextSeq)
        BY <1>0, <2>1, StoreKeeps, Zenon
    <2> HIDE DEF last
    <2>3. PICK m \in Nat : m = nextSeq + 1
        BY <1>0
    <2>4. 0 .. m - 1 = (0 .. nextSeq - 1) \cup {nextSeq} /\ nextSeq \notin 0 .. nextSeq - 1
          /\ sbase <= m
        BY <1>0, <2>3
    <2>5. Delivered(reg, sbase, nextSeq) \subseteq 0 .. nextSeq - 1
        BY <1>0 DEF Delivered
    <2>6. Unconfirmed(reg', sbase', m) = U \cup {nextSeq}
        BY <1>0, <1>3, <2>1, <2>2, <2>3, <2>4, <2>5, UnconfirmedForm
    <2>7. Cardinality(U \cup {nextSeq}) = Cardinality(U) + 1
        BY <1>1, <2>4, FS_AddElement
    <2>8. m - acked = Cardinality(U) + 1
        BY <1>0, <1>1, <2>3
    <2> QED
        <3>1. nextSeq' = m /\ acked' = acked
            BY <2>1, <2>3
        <3> QED
            BY <1>2, <2>6, <2>7, <2>8, <3>1, Zenon
<1>5. CASE \E a \in acks : AckArrives(a)
    <2> PICK a \in acks : AckArrives(a)
        BY <1>5, Zenon
    <2>1. /\ sbase' = NewBase(a) /\ reg' = Confirm(Taken(a)) /\ nextSeq' = nextSeq
          /\ acked' = acked + Cardinality(Taken(a))
        BY AckApplied, Zenon
    <2>2. /\ NewBase(a) \in Nat /\ NewBase(a) <= nextSeq
          /\ Delivered(reg', sbase', nextSeq) = Delivered(reg, sbase, nextSeq) \cup Taken(a)
        BY <2>1, AckMerges, SenderForms
    <2>3. Unconfirmed(reg', sbase', nextSeq) = U \ Taken(a)
        <3>1. nextSeq \in Nat /\ sbase' \in Nat /\ sbase' <= nextSeq
            BY <1>0, <2>1, <2>2, Zenon
        <3>2. Unconfirmed(reg', sbase', nextSeq) = (0 .. nextSeq - 1) \ Delivered(reg', sbase', nextSeq)
            BY <3>1, UnconfirmedForm
        <3> QED
            BY <1>3, <2>2, <3>2, Zenon
    <2>4. Taken(a) \in SUBSET U
        BY DEF Taken, Unconfirmed, U, Resident, Holds
    <2>5. U \cap Taken(a) = Taken(a) /\ IsFiniteSet(Taken(a)) /\ Cardinality(Taken(a)) \in Nat
        BY <1>1, <2>4, FS_Subset, FS_CardinalityType
    <2>6. Cardinality(U \ Taken(a)) = Cardinality(U) - Cardinality(Taken(a))
        <3> DEFINE T == Taken(a)
        <3> HIDE DEF T
        <3>1. Cardinality(U \ T) = Cardinality(U) - Cardinality(U \cap T)
            BY <1>1, FS_Difference, Zenon
        <3> QED
            BY <2>5, <3>1 DEF T
    <2>7. nextSeq - (acked + Cardinality(Taken(a))) = Cardinality(U) - Cardinality(Taken(a))
        BY <1>0, <1>1, <2>5
    <2> QED
        BY <1>2, <2>1, <2>3, <2>6, <2>7
<1>6. CASE UNCHANGED <<reg, sbase, nextSeq, acked>>
    BY <1>1, <1>2, <1>6 DEF U
<1> QED
    BY <1>4, <1>5, <1>6, Zenon
       DEF Next, NackArrives, Rto, Finish, DataArrives, Write, Collect, SendAck,
           SendNack, FinArrives, Leave, Lose, vars

(* sent_bytes - acked_bytes is always exactly what is in flight, and so never
   wraps below zero. *)
THEOREM InFlightIsExact == Spec => []AckedOnce
<1>1. Init => AckedOnce
    <2> SUFFICES ASSUME Init PROVE AckedOnce
        OBVIOUS
    <2>1. 0 .. 0 - 1 = {}
        OBVIOUS
    <2>2. {s \in sbase .. nextSeq - 1 : Resident(s)} = {}
        BY <2>1 DEF Init
    <2> QED
        BY <2>2, FS_EmptySet DEF Init, AckedOnce
<1>2. LaneInv /\ AckedOnce /\ [Next]_vars => AckedOnce'
    BY AckedStep
<1> QED
    BY <1>1, <1>2, LaneInvariant, PTL DEF Spec
=============================================================================

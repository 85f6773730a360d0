------------------------------ MODULE FileSink ------------------------------
(***************************************************************************)
(* Receiving into a file (proto/transfer.cpp, FileSink and the end of      *)
(* receive_to_sink): blocks are written to "<path>.part" by several        *)
(* threads, a checkpointing thread records complete chunks in a trailer    *)
(* behind the data, a later session of the same file resumes from it, and  *)
(* a finished file is renamed over <path>.                                 *)
(*                                                                         *)
(* The file is a sequence of blocks grouped into chunks; a block's content *)
(* is the version of the source file it came from.  The file system is     *)
(* external: what was written is in the page cache, reaches the disk in    *)
(* any order, and all of it is there after fdatasync; a machine crash      *)
(* leaves what is on the disk.  Truncation, rename and unlink are journaled *)
(* before later writes.  A trailer caught by a crash half written fails    *)
(* its checksum.                                                           *)
(***************************************************************************)
EXTENDS Integers, FiniteSets

CONSTANTS
    Versions,     \* contents of the source file that a sender may send
    FileId,       \* file_identity() of each version; 0: not resumable
    FileBlocks,   \* blocks of the file: 0 .. FileBlocks - 1
    ChunkBlocks,  \* blocks in a full chunk
    MaxSessions,  \* bound on receive_file calls
    MaxFailures   \* bound on failed system calls and crashes

ASSUME SinkAssumption ==
    /\ FileId \in [Versions -> Nat]
    /\ "hole" \notin Versions
    /\ {FileBlocks, ChunkBlocks, MaxSessions} \subseteq Nat \ {0}
    /\ MaxFailures \in Nat

VARIABLES
    \* the file system
    part,      \* "<path>.part" exists
    cache,     \* its data as processes see it
    onDisk,    \* its data as a crash leaves it
    tcache,    \* the trailer as processes see it: a set of at most one
    tdisk,     \* the trailer as a crash leaves it
    path,      \* what <path> holds: {} as before, or {the data renamed over it}
    \* this call of receive_file
    pc,        \* where the call is
    version,   \* what its sender is sending
    existed,   \* existed_
    prior,     \* prior_: a set of at most one trailer
    resumed,   \* resumed_
    counters,  \* counters_: blocks written per chunk
    wanted,    \* blocks asked of the sender
    written,   \* blocks that pwritev has returned for
    counted,   \* blocks added to their counters
    status,    \* what the call returned
    \* the checkpoint being taken
    stage,     \* "idle", "snapshot", "synced", "written"
    snapshot,  \* the trailer it will write
    \* bounds
    sessions, failures

fsVars == <<part, cache, onDisk, tcache, tdisk, path>>
sessionVars == <<version, existed, prior, resumed, wanted>>
blockVars == <<counters, written, counted>>
checkpointVars == <<stage, snapshot>>
boundVars == <<sessions, failures>>
sinkVars == <<fsVars, pc, sessionVars, blockVars, checkpointVars, status, boundVars>>

All == 0 .. FileBlocks - 1
Chunk(b) == b \div ChunkBlocks
Chunks == {Chunk(b) : b \in All}
Of(c) == {b \in All : Chunk(b) = c}
ChunkLen(c) == Cardinality(Of(c))

Hole == "hole"
Empty == [b \in All |-> Hole]
Torn == [id |-> 0, marks |-> {}]
Copy(v) == [b \in All |-> v]

SinkInit ==
    /\ part = FALSE /\ cache = Empty /\ onDisk = Empty
    /\ tcache = {} /\ tdisk = {} /\ path = {}
    /\ pc = "closed" /\ version \in Versions /\ existed = FALSE
    /\ prior = {} /\ resumed = FALSE /\ wanted = {}
    /\ counters = [c \in Chunks |-> 0] /\ written = {} /\ counted = {}
    /\ stage = "idle" /\ snapshot = Torn
    /\ status = "none" /\ sessions = 0 /\ failures = 0

-----------------------------------------------------------------------------
(* The file system. *)

(* The kernel writes one dirty page back. *)
WriteBack ==
    /\ \E b \in All : cache[b] # onDisk[b] /\ onDisk' = [onDisk EXCEPT ![b] = cache[b]]
    /\ UNCHANGED <<part, cache, tcache, tdisk, path, pc, sessionVars, blockVars>>
    /\ UNCHANGED <<checkpointVars, status, boundVars>>

(* fdatasync(), if it succeeds. *)
Fdatasync == onDisk' = cache /\ tdisk' = tcache /\ UNCHANGED <<part, cache, tcache, path>>

Fails == failures < MaxFailures /\ failures' = failures + 1
Works == UNCHANGED failures

(* The process is killed, or the machine crashes: then a trailer on its way
   to the disk is there as it was, complete, or torn. *)
Crash ==
    /\ pc # "closed"
    /\ Fails
    /\ \/ UNCHANGED fsVars
       \/ /\ cache' = onDisk
          /\ tdisk' \in {tdisk, tcache} \cup (IF tcache = tdisk THEN {} ELSE {{Torn}})
          /\ tcache' = tdisk'
          /\ UNCHANGED <<part, onDisk, path>>
    /\ pc' = "closed" /\ status' = "crashed" /\ stage' = "idle"
    /\ UNCHANGED <<sessionVars, blockVars, snapshot, sessions>>

-----------------------------------------------------------------------------
(* Starting a session. *)

(* open(): an earlier partial copy is kept, and its trailer read if valid. *)
Open ==
    /\ pc = "closed"
    /\ sessions < MaxSessions
    /\ version' \in Versions
    /\ existed' = part
    /\ part' = TRUE
    /\ prior' = IF part THEN {t \in tcache : t # Torn} ELSE {}
    /\ cache' = IF part THEN cache ELSE Empty
    /\ onDisk' = IF part THEN onDisk ELSE Empty
    /\ tcache' = IF part THEN tcache ELSE {}
    /\ tdisk' = IF part THEN tdisk ELSE {}
    /\ pc' = "open" /\ status' = "none" /\ resumed' = FALSE
    /\ sessions' = sessions + 1
    /\ UNCHANGED <<path, wanted, blockVars, checkpointVars, failures>>

(* missing(): every block of a chunk that is not complete. *)
Missing(cnt) == {b \in All : cnt[Chunk(b)] < ChunkLen(Chunk(b))}

(* prepare(): the same file resumes, anything else starts over. *)
Prepare ==
    LET id == FileId[version]
        same == {t \in prior : id # 0 /\ t.id = id}
        done == [c \in Chunks |-> IF \E t \in same : c \in t.marks THEN ChunkLen(c) ELSE 0]
    IN  /\ pc = "open"
        /\ pc' = "receiving"
        /\ resumed' = (same # {})
        /\ counters' = done
        /\ wanted' = Missing(done)
        /\ written' = {} /\ counted' = {}
        /\ IF same # {} THEN UNCHANGED <<cache, onDisk, tcache, tdisk>>
           ELSE cache' = Empty /\ onDisk' = Empty /\ tcache' = {} /\ tdisk' = {}
        /\ UNCHANGED <<part, path, version, existed, prior, checkpointVars, status, boundVars>>

(* prepare() fails: the size or the counters are too large, or a truncation
   fails, perhaps the second one.  No lane receives anything, and an earlier
   copy stays, emptied or not. *)
PrepareFails ==
    /\ pc = "open"
    /\ Fails
    /\ \/ UNCHANGED <<cache, onDisk, tcache, tdisk>>
       \/ /\ \A t \in prior : t.id # FileId[version]
          /\ cache' = Empty /\ onDisk' = Empty /\ tcache' = {} /\ tdisk' = {}
    /\ pc' = "closed" /\ status' = "io_error" /\ part' = existed
    /\ UNCHANGED <<path, sessionVars, blockVars, checkpointVars, sessions>>

-----------------------------------------------------------------------------
(* Receiving. *)

(* write(): the data first, *)
Pwritev(b) ==
    /\ pc \in {"receiving", "failing"}
    /\ b \in wanted \ written
    /\ cache' = [cache EXCEPT ![b] = version]
    /\ written' = written \cup {b}
    /\ UNCHANGED <<part, onDisk, tcache, tdisk, path, pc, sessionVars, counters, counted>>
    /\ UNCHANGED <<checkpointVars, status, boundVars>>

(* (a failed write may still have changed the block, and the session is lost;
   the other writers carry on until they are stopped) *)
PwritevFails(b) ==
    /\ pc \in {"receiving", "failing"}
    /\ b \in wanted \ written
    /\ Fails
    /\ cache' \in {cache, [cache EXCEPT ![b] = version]}
    /\ pc' = "failing"
    /\ UNCHANGED <<part, onDisk, tcache, tdisk, path, sessionVars>>
    /\ UNCHANGED <<blockVars, checkpointVars, status, sessions>>

(* and then the counter of its chunk. *)
CountBlock(b) ==
    /\ pc \in {"receiving", "failing"}
    /\ b \in written \ counted
    /\ counters' = [counters EXCEPT ![Chunk(b)] = @ + 1]
    /\ counted' = counted \cup {b}
    /\ UNCHANGED <<fsVars, pc, sessionVars, written, checkpointVars, status, boundVars>>

(* checkpoint(): which chunks are complete, *)
Snapshot ==
    /\ stage = "idle"
    /\ pc \in {"receiving", "failing", "keeping"} /\ FileId[version] # 0
    /\ snapshot' = [id |-> FileId[version],
                    marks |-> {c \in Chunks : counters[c] >= ChunkLen(c)}]
    /\ stage' = "snapshot"
    /\ UNCHANGED <<fsVars, pc, sessionVars, blockVars, status, boundVars>>

(* Wrong variant: the trailer does not wait for the data. *)
SyncDataSkipped ==
    /\ stage = "snapshot"
    /\ stage' = "synced"
    /\ UNCHANGED <<fsVars, pc, sessionVars, blockVars, snapshot, status, boundVars>>

(* their data made durable, *)
SyncData ==
    /\ stage = "snapshot"
    /\ \/ Works /\ Fdatasync /\ stage' = "synced"
       \/ Fails /\ stage' = (IF pc = "keeping" THEN "kept" ELSE "idle") /\ UNCHANGED fsVars
    /\ UNCHANGED <<pc, sessionVars, blockVars, snapshot, status, sessions>>

(* then the trailer that claims them, *)
WriteTrailer ==
    /\ stage = "synced"
    /\ \/ Works /\ tcache' = {snapshot} /\ stage' = "written"
       \/ /\ Fails
          /\ tcache' \in {tcache, {Torn}}
          /\ stage' = (IF pc = "keeping" THEN "kept" ELSE "idle")
    /\ UNCHANGED <<part, cache, onDisk, tdisk, path, pc, sessionVars, blockVars>>
    /\ UNCHANGED <<snapshot, status, sessions>>

(* made durable as well; a failure here is not noticed. *)
SyncTrailer ==
    /\ stage = "written"
    /\ stage' = (IF pc = "keeping" THEN "kept" ELSE "idle")
    /\ (Works /\ Fdatasync) \/ (Fails /\ UNCHANGED fsVars)
    /\ UNCHANGED <<pc, sessionVars, blockVars, snapshot, status, sessions>>

-----------------------------------------------------------------------------
(* Ending a session.  The writers and the checkpointing thread have stopped. *)

Quiet == stage = "idle" /\ counted = written

(* Wrong variant: a resumed copy is not verified. *)
EndWellUnverified ==
    /\ pc = "receiving" /\ Quiet
    /\ counted = wanted
    /\ pc' = "committing"
    /\ UNCHANGED <<fsVars, sessionVars, blockVars, checkpointVars, status, boundVars>>

(* Every lane succeeded; a resumed copy must match the sender's digest. *)
EndWell ==
    /\ pc = "receiving" /\ Quiet
    /\ counted = wanted
    /\ IF resumed /\ cache # Copy(version)
       THEN pc' = "closed" /\ status' = "verify_failed" /\ part' = FALSE
       ELSE pc' = "committing" /\ UNCHANGED <<status, part>>
    /\ UNCHANGED <<cache, onDisk, tcache, tdisk, path, sessionVars, blockVars>>
    /\ UNCHANGED <<checkpointVars, boundVars>>

(* A lane failed: what there is is kept for another session if it can be;
   an earlier copy that this session never touched stays. *)
EndEarly ==
    /\ pc = "open" \/ (pc \in {"receiving", "failing"} /\ Quiet)
    /\ IF pc # "open" /\ FileId[version] # 0
       THEN pc' = "keeping" /\ UNCHANGED <<status, part>>
       ELSE /\ pc' = "closed" /\ status' = "failed"
            /\ part' = (pc = "open" /\ existed)
    /\ UNCHANGED <<cache, onDisk, tcache, tdisk, path, sessionVars, blockVars>>
    /\ UNCHANGED <<checkpointVars, boundVars>>

(* finish(KeepPartial): one last checkpoint. *)
Kept ==
    /\ pc = "keeping" /\ stage = "kept"
    /\ pc' = "closed" /\ status' = "failed" /\ stage' = "idle"
    /\ UNCHANGED <<fsVars, sessionVars, blockVars, snapshot, boundVars>>

GiveUpCommit == pc' = "closed" /\ status' = "io_error" /\ part' = FALSE
                /\ UNCHANGED <<cache, onDisk, tcache, tdisk, path>>

(* finish(Commit): the trailer is cut off, *)
Truncate ==
    /\ pc = "committing"
    /\ \/ /\ Works
          /\ pc' = "truncated" /\ tcache' = {} /\ tdisk' = {}
          /\ UNCHANGED <<part, cache, onDisk, path, status>>
       \/ Fails /\ GiveUpCommit
    /\ UNCHANGED <<sessionVars, blockVars, checkpointVars, sessions>>

(* Wrong variant: the data is left to the page cache. *)
SyncFileSkipped ==
    /\ pc = "truncated"
    /\ pc' = "synced"
    /\ UNCHANGED <<fsVars, sessionVars, blockVars, checkpointVars, status, boundVars>>

(* the data made durable, *)
SyncFile ==
    /\ pc = "truncated"
    /\ \/ Works /\ Fdatasync /\ pc' = "synced" /\ UNCHANGED status
       \/ Fails /\ GiveUpCommit
    /\ UNCHANGED <<sessionVars, blockVars, checkpointVars, sessions>>

(* and the file renamed. *)
Rename ==
    /\ pc = "synced"
    /\ \/ /\ Works
          /\ path' = {onDisk}
          /\ part' = FALSE
          /\ pc' = "closed" /\ status' = "ok"
          /\ UNCHANGED <<cache, onDisk, tcache, tdisk>>
       \/ Fails /\ GiveUpCommit
    /\ UNCHANGED <<sessionVars, blockVars, checkpointVars, sessions>>

SinkNext ==
    \/ WriteBack \/ Crash
    \/ Open \/ Prepare \/ PrepareFails
    \/ \E b \in All : Pwritev(b)
    \/ \E b \in All : PwritevFails(b)
    \/ \E b \in All : CountBlock(b)
    \/ Snapshot \/ SyncData \/ WriteTrailer \/ SyncTrailer
    \/ EndWell \/ EndEarly \/ Kept
    \/ Truncate \/ SyncFile \/ Rename

SinkSpec == SinkInit /\ [][SinkNext]_sinkVars

-----------------------------------------------------------------------------
SinkTypeOK ==
    /\ cache \in [All -> Versions \cup {Hole}] /\ onDisk \in [All -> Versions \cup {Hole}]
    /\ pc \in {"closed", "open", "receiving", "failing", "keeping",
              "committing", "truncated", "synced"}
    /\ stage \in {"idle", "snapshot", "synced", "written", "kept"}
    /\ counted \subseteq written /\ written \subseteq wanted /\ wanted \subseteq All
    /\ tcache \cup tdisk \subseteq [id : Nat, marks : SUBSET Chunks]

(* A trailer never claims a chunk whose data a crash would lose or that
   belongs to another file, whenever the crash comes: checkpoint() snapshots,
   syncs, and only then writes it (transfer.cpp:464). *)
TrailerHonest ==
    part => \A t \in tcache \cup tdisk : \A c \in t.marks : \A b \in Of(c) :
        onDisk[b] # Hole /\ FileId[onDisk[b]] = t.id

(* <path> is only ever either untouched or complete (transfer.cpp:320): one
   version of the file, whole, on the disk. *)
PathWhole == \A f \in path : \E v \in Versions : f = Copy(v)

(* Success means that <path> now is the file this session's sender sent, even
   if part of it came from an earlier session. *)
OkIsThisFile == status = "ok" => path = {Copy(version)}
=============================================================================

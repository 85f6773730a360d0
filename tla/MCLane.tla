------------------------------- MODULE MCLane -------------------------------
(* A lane that may leave at any time, and the file a receiver writes, side by
   side: a behaviour is a behaviour of one of the two machines, and the other
   rests.

   The file has two chunks, the second one short.  Two versions of it have
   the same identity (an edit that file_identity() does not notice), a third
   is another file, and the last has no identity and cannot be resumed. *)
EXTENDS Lane, FileSink

CONSTANTS v1, v2, v3, v4

VARIABLE inUse  \* the machine that runs

MCVersions == {v1, v2, v3, v4}
MCFileId == [v \in MCVersions |-> IF v = v4 THEN 0 ELSE IF v = v3 THEN 2 ELSE 1]

laneAndFileVars == <<inUse, vars, sinkVars>>

LaneAndFileInit ==
    /\ inUse \in {"lane", "file"}
    /\ Init
    /\ SinkInit
    /\ inUse = "lane" => version = v1

LaneAndFileNext ==
    \/ inUse = "lane" /\ Next /\ UNCHANGED <<inUse, sinkVars>>
    \/ inUse = "file" /\ SinkNext /\ UNCHANGED <<inUse, vars>>

LaneAndFileSpec == LaneAndFileInit /\ [][LaneAndFileNext]_laneAndFileVars
=============================================================================

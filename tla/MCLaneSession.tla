---------------------------- MODULE MCLaneSession ----------------------------
(* LaneSession with two lanes. *)
EXTENDS LaneSession
MCLanes == {0, 1}
=============================================================================

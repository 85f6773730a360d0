------------------------------- MODULE MCMux --------------------------------
(* Mux with a stream of three units and an empty one; the earlier transfer had
   empty streams, and longer and shorter ones. *)
EXTENDS Mux
MCStreams == 1 .. 2
MCUnits == <<3, 0>>
MCOldSizes == {0, 1, 4}
=============================================================================

------------------------------- MODULE MCSdk --------------------------------
(* Sdk with two threads, a message of two blocks and an empty one. *)
EXTENDS Sdk
MCCallers == 1 .. 2
MCMessages == 1 .. 2
MCMsgLen == <<2, 0>>
=============================================================================

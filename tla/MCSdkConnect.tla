---------------------------- MODULE MCSdkConnect ----------------------------
(* SdkConnect with a call that has the listener's key and one that has not,
   and a ring that remembers both. *)
EXTENDS SdkConnect
MCCalls == 1 .. 2
MCKey == <<"psk", "other">>
=============================================================================

------------------------------- MODULE MCHttp -------------------------------
(* Two clients, and a handler whose reasons are empty, short, of two words,
   and longer than the room the status line has. *)
EXTENDS Http

MCReasons == {<<>>, <<"x">>, <<"x", " ", "y">>, <<"x", "x", "x", "x", "x">>}
MCHeaderBlocks == {<<>>, <<"x", "y", "CR", "LF">>}
MCBodies == {<<>>, <<"CR", "LF", "CR", "LF">>, <<"x", "LF">>}
=============================================================================

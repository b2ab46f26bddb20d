-------------------------- MODULE MCNamedPipeServer -------------------------
(***************************************************************************)
(* Values for the constants of NamedPipeServer.  The sizes keep the order  *)
(* of the real ones, header (16) < smallest storage (1024) < packet (8192):*)
(* 2 < 3 < 4.                                                              *)
(***************************************************************************)
EXTENDS NamedPipeServer

SmallSizes == {1, 5}       \* one packet, and two packets in a grown storage
Small == {1}
OneGarbage == {[id |-> 9, size |-> 1], NoHeader}

NoEvents == {}
EarlyOnly == {"early"}
=============================================================================

-------------------------- MODULE MCServerLifecycle --------------------------
(***************************************************************************)
(* Values for the constants of ServerLifecycle.                            *)
(***************************************************************************)
EXTENDS ServerLifecycle

Everything == {"start", "stop", "wait"}
StartWait == {"start", "wait"}
StartStop == {"start", "stop"}
Nothing == {}
=============================================================================

-------------------------- MODULE MCBlockingClient --------------------------
(***************************************************************************)
(* Small instances of BlockingClient.                                      *)
(***************************************************************************)
EXTENDS BlockingClient
=============================================================================

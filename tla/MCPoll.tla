------------------------------- MODULE MCPoll -------------------------------
(***************************************************************************)
(* A small instance of Poll for TLC.  Its run checks liveness, so it uses  *)
(* no symmetry.                                                            *)
(***************************************************************************)
EXTENDS Poll, TLC
=============================================================================

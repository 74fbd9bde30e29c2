----------------------------- MODULE MCReadTools -----------------------------
(***************************************************************************)
(* A small instance of ReadTools: more calls than slots, with the cap off  *)
(* as well.                                                                *)
(***************************************************************************)
EXTENDS ReadTools
=============================================================================

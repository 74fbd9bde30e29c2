---------------------------- MODULE MCRetention ----------------------------
(***************************************************************************)
(* A small instance of Retention: two attempts of two seconds, with a      *)
(* queue wait that may exceed every TTL.                                   *)
(***************************************************************************)
EXTENDS Retention
=============================================================================

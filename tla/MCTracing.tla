----------------------------- MODULE MCTracing -----------------------------
(***************************************************************************)
(* A small instance of Tracing: callers with one id, several requests.     *)
(***************************************************************************)
EXTENDS Tracing, TLC

Symmetry == Permutations(Others)
=============================================================================

----------------------------- MODULE MCMfaSession -----------------------------
(* MfaSession with few requests, for TLC. *)
EXTENDS MfaSession, TLC

Symmetry == Permutations(Requests)
===============================================================================

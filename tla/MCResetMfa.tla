------------------------------ MODULE MCResetMfa ------------------------------
(* A small instance of ResetMfa for TLC. *)
EXTENDS ResetMfa, TLC

CONSTANTS u1, u2, d1, d2, k1

(* The first user has no factor, the second two devices and a code. *)
MCOwner == [f \in Factors |-> u2]
===============================================================================

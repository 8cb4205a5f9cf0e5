---------------------------- MODULE MCRecoveryCodes ----------------------------
(* The small instance of RecoveryCodes for TLC; its constants are model values. *)
EXTENDS RecoveryCodes
===============================================================================

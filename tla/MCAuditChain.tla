----------------------------- MODULE MCAuditChain -----------------------------
(* Small instances of AuditChain for TLC. *)
EXTENDS AuditChain, TLC

CONSTANTS o1, o2, c1, c2, c3

(* The login of a user of both organisations, a privileged read or MFA reset  *)
(* in either, and one in the first: both heads are contended.                 *)
MCAudiences == c1 :> {{o1, o2}} @@ c2 :> {{o1}, {o2}} @@ c3 :> {{o1}}

(* For the run about record_authentication_event alone. *)
BothLogins == [c \in Calls |-> {Orgs}]

NoStamps == {}
===============================================================================

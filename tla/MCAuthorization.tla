---------------------------- MODULE MCAuthorization ----------------------------
(* Small instances of Authorization for TLC. *)
EXTENDS Authorization, TLC

CONSTANTS m1, m2, administrator, analyst, u1, u3

(* Every scope. *)
AnyScope == {s \in Scopes : RolesDiffer(s)}

(* One membership with a global role, active or not, and an active one with   *)
(* another role; a plain grant of the first and a sensitive one of the second *)
(* may be there.  What else there is, the calls bring about.                  *)
TwoRoles ==
    {s \in AnyScope :
        /\ s.role = [m \in Memberships |-> IF m = m1 THEN administrator ELSE analyst]
        /\ s.active[m2]
        /\ s.grants \subseteq {<<m1, u1>>, <<m2, u3>>}}

(* Interchangeable values, for the run that checks no liveness. *)
Symmetry == Permutations(Admins)
===============================================================================

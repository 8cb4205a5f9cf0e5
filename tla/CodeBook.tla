------------------------------- MODULE CodeBook -------------------------------
(***************************************************************************)
(* What recovery codes promise one user, with no rows and no locks.  Codes *)
(* are issued in batches and never twice.  A valid code is accepted once;  *)
(* a call that presents a code is refused only when that code is not valid *)
(* at that moment; a replacement or a withdrawal ends exactly the codes    *)
(* that were valid when it began.  RecoveryCodes implements this.          *)
(***************************************************************************)
CONSTANTS Calls, Codes, Wrong

VARIABLES valid,      \* the codes that would be accepted
          issued,     \* the codes ever handed out
          candidate,  \* candidate[c]: what c presents, if it presents anything
          before,     \* before[c]: codes known when c began, the valid ones among them
          outcome     \* outcome[c]: idle, running or how c ended

vars == <<valid, issued, candidate, before, outcome>>

Init ==
    /\ issued \in SUBSET Codes
    /\ valid \in SUBSET issued
    /\ candidate = [c \in Calls |-> Wrong]
    /\ before = [c \in Calls |-> {}]
    /\ outcome = [c \in Calls |-> "idle"]

Begin(c) ==
    /\ outcome[c] = "idle"
    /\ outcome' = [outcome EXCEPT ![c] = "running"]
    /\ \E p \in issued \cup {Wrong} : candidate' = [candidate EXCEPT ![c] = p]
    /\ \E S \in SUBSET issued : valid \subseteq S /\ before' = [before EXCEPT ![c] = S]
    /\ UNCHANGED <<valid, issued>>

(* What a call knew is forgotten as it ends, save the code that was accepted. *)
End(c, how) ==
    /\ outcome[c] = "running"
    /\ outcome' = [outcome EXCEPT ![c] = how]
    /\ before' = [before EXCEPT ![c] = {}]
    /\ candidate' = [candidate EXCEPT ![c] = IF how = "accepted" THEN @ ELSE Wrong]

Accept(c) ==
    /\ End(c, "accepted")
    /\ candidate[c] \in valid
    /\ valid' = valid \ {candidate[c]}
    /\ UNCHANGED issued

Refuse(c) ==
    /\ End(c, "refused")
    /\ candidate[c] \notin valid
    /\ UNCHANGED <<valid, issued>>

(* A candidate that cannot be a code is refused without more ado. *)
Dismiss(c) ==
    /\ outcome[c] = "idle"
    /\ outcome' = [outcome EXCEPT ![c] = "refused"]
    /\ UNCHANGED <<valid, issued, candidate, before>>

Change(c) ==
    /\ End(c, "changed")
    /\ \E new \in SUBSET (Codes \ issued) :
         /\ valid' = (valid \ before[c]) \cup new
         /\ issued' = issued \cup new

Fail(c) ==
    /\ End(c, "failed")
    /\ UNCHANGED <<valid, issued>>

Next == \E c \in Calls : Begin(c) \/ Accept(c) \/ Refuse(c) \/ Dismiss(c) \/ Change(c) \/ Fail(c)

Spec == Init /\ [][Next]_vars
===============================================================================

------------------------------- MODULE AuditLog -------------------------------
(***************************************************************************)
(* What the audit service promises its callers, with no database in sight. *)
(* Every organisation has one log; a call writes itself at the end of the  *)
(* logs of its audience, one log per step, at most once in each; it        *)
(* returns normally only when every log of its audience holds it, and it   *)
(* never writes after it returned or failed.  AuditChain implements this.  *)
(***************************************************************************)
EXTENDS Naturals, Sequences

CONSTANTS Orgs, Calls

VARIABLES log,       \* log[o]: the calls recorded by o, oldest first
          audience,  \* audience[c]: the organisations c must write to
          outcome    \* outcome[c]: idle, running, done or failed

vars == <<log, audience, outcome>>

Entries(o) == {log[o][n] : n \in DOMAIN log[o]}

Init ==
    /\ log = [o \in Orgs |-> <<>>]
    /\ audience = [c \in Calls |-> {}]
    /\ outcome = [c \in Calls |-> "idle"]

Start(c) ==
    /\ outcome[c] = "idle"
    /\ outcome' = [outcome EXCEPT ![c] = "running"]
    /\ \E S \in SUBSET Orgs : audience' = [audience EXCEPT ![c] = S]
    /\ UNCHANGED log

Write(c, o) ==
    /\ outcome[c] = "running"
    /\ o \in audience[c]
    /\ c \notin Entries(o)
    /\ log' = [log EXCEPT ![o] = Append(@, c)]
    /\ UNCHANGED <<audience, outcome>>

Return(c) ==
    /\ outcome[c] = "running"
    /\ \A o \in audience[c] : c \in Entries(o)
    /\ outcome' = [outcome EXCEPT ![c] = "done"]
    /\ UNCHANGED <<log, audience>>

Fail(c) ==
    /\ outcome[c] = "running"
    /\ outcome' = [outcome EXCEPT ![c] = "failed"]
    /\ UNCHANGED <<log, audience>>

Next ==
    \E c \in Calls :
        \/ Start(c)
        \/ \E o \in Orgs : Write(c, o)
        \/ Return(c)
        \/ Fail(c)

Spec == Init /\ [][Next]_vars
===============================================================================

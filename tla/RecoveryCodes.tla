----------------------------- MODULE RecoveryCodes -----------------------------
(***************************************************************************)
(* The recovery codes of one user over PostgreSQL at READ COMMITTED:       *)
(* consume_recovery_code and replace_recovery_codes (apps/accounts/        *)
(* services.py) and the deletion in reset_mfa (apps/accounts/recovery.py), *)
(* each in a transaction of its own.  All three are one statement that     *)
(* goes through the rows its snapshot found, in no stated order, waiting   *)
(* for each row's lock and looking at the newest version of the row then.  *)
(*                                                                         *)
(* A code is its row: hashing is taken as injective, and a candidate is a  *)
(* code that was handed out or none of them.                               *)
(***************************************************************************)
EXTENDS Naturals, FiniteSets

CONSTANTS
    Consumers,   \* calls of consume_recovery_code, each made once
    Replacers,   \* calls of replace_recovery_codes
    Resetters,   \* calls of reset_mfa
    Count,       \* codes per replacement
    Enrolment,   \* the replacement that issued the codes there are at first
    Wrong,       \* a candidate that is no code
    None         \* "no row"

Codes == (Replacers \cup {Enrolment}) \X (1 .. Count)
Calls == Consumers \cup Replacers \cup Resetters

ASSUME CountAssumption == Count \in 1 .. 20
ASSUME EnrolmentAssumption == Enrolment \notin Calls
ASSUME NoneAssumption == Wrong \notin Codes /\ None \notin Codes
ASSUME CallsAssumption ==
    /\ Consumers \cap (Replacers \cup Resetters) = {}
    /\ Replacers \cap Resetters = {}

VARIABLES
    row,        \* row[r]: r's committed row: absent, unused or used
    pc,         \* pc[c]: where call c is
    candidate,  \* candidate[c]: what a consumer was given
    seen,       \* seen[c]: the rows in the snapshot of c's statement
    visited,    \* visited[c]: those it is through with
    next,       \* next[c]: the one it has come to, or None
    held,       \* held[c]: the rows its transaction has locked
    found       \* found[c]: the rows its statement returns or deletes

vars == <<row, pc, candidate, seen, visited, next, held, found>>

BatchOf(c) == {c} \X (1 .. Count)

(* The codes that were ever shown to the user. *)
Known == {r \in Codes : r[1] = Enrolment \/ pc[r[1]] = "changed"}

Init ==
    /\ row = [r \in Codes |-> IF r \in BatchOf(Enrolment) THEN "unused" ELSE "absent"]
    /\ pc = [c \in Calls |-> "new"]
    /\ candidate = [c \in Calls |-> Wrong]
    /\ seen = [c \in Calls |-> {}]
    /\ visited = [c \in Calls |-> {}]
    /\ next = [c \in Calls |-> None]
    /\ held = [c \in Calls |-> {}]
    /\ found = [c \in Calls |-> {}]

(* The statement's WHERE clause.  Mutant: used codes match as well. *)
MatchesAnyRow(c, r) == row[r] # "absent"
Matches(c, r) == row[r] = "unused" \/ (c \in Resetters /\ row[r] = "used")

(* An empty or overlong candidate is refused before the query. *)
RefuseMalformed(c) ==
    /\ c \in Consumers
    /\ pc[c] = "new"
    /\ pc' = [pc EXCEPT ![c] = "refused"]
    /\ UNCHANGED <<row, candidate, seen, visited, next, held, found>>

(* The transaction opens and its SELECT ... FOR UPDATE or DELETE starts. *)
Query(c) ==
    /\ pc[c] = "new"
    /\ pc' = [pc EXCEPT ![c] = "scan"]
    /\ IF c \in Consumers
       THEN \E p \in Known \cup {Wrong} : candidate' = [candidate EXCEPT ![c] = p]
       ELSE UNCHANGED candidate
    /\ seen' = [seen EXCEPT ![c] = {r \in Codes : Matches(c, r)}]
    /\ UNCHANGED <<row, visited, next, held, found>>

(* The scan comes to one of its rows. *)
Reach(c) ==
    /\ pc[c] = "scan" /\ next[c] = None
    /\ \E r \in seen[c] \ visited[c] : next' = [next EXCEPT ![c] = r]
    /\ UNCHANGED <<row, pc, candidate, seen, visited, held, found>>

(* Nobody else has locked the row.  Mutant: select_for_update() is left out. *)
FreeAnyway(c, r) == TRUE
Free(c, r) == \A b \in Calls \ {c} : r \notin held[b]

(* It locks the row once it is free; a row that was deleted during the wait is *)
(* passed over, one that no longer matches stays locked but is not returned.   *)
Visit(c) ==
    LET r == next[c]
    IN /\ pc[c] = "scan" /\ r # None
       /\ Free(c, r)
       /\ visited' = [visited EXCEPT ![c] = @ \cup {r}]
       /\ held' = [held EXCEPT ![c] = IF row[r] = "absent" THEN @ ELSE @ \cup {r}]
       /\ found' = [found EXCEPT ![c] = IF Matches(c, r) THEN @ \cup {r} ELSE @]
       /\ next' = [next EXCEPT ![c] = None]
       /\ UNCHANGED <<row, pc, candidate, seen>>

Scanned(c) == pc[c] = "scan" /\ next[c] = None /\ visited[c] = seen[c]

(* The end of a transaction.  Mutant: its locks outlive it. *)
KeepRows(c) == held' = held
ReleaseRows(c) == held' = [held EXCEPT ![c] = {}]

(* Its locals go with it; the code that was accepted is kept for the properties. *)
End(c, how) ==
    /\ pc' = [pc EXCEPT ![c] = how]
    /\ next' = [next EXCEPT ![c] = None]
    /\ found' = [found EXCEPT ![c] = {}]
    /\ ReleaseRows(c)
    /\ seen' = [seen EXCEPT ![c] = {}]
    /\ visited' = [visited EXCEPT ![c] = {}]
    /\ candidate' = [candidate EXCEPT ![c] = IF how = "accepted" THEN @ ELSE Wrong]

(* A code of the result matches the candidate: used_at is set and saved. *)
Mark(c) ==
    /\ c \in Consumers /\ Scanned(c)
    /\ candidate[c] \in found[c]
    /\ pc' = [pc EXCEPT ![c] = "written"]
    /\ UNCHANGED <<row, candidate, seen, visited, next, held, found>>

(* No code of the result does. *)
Refuse(c) ==
    /\ c \in Consumers /\ Scanned(c)
    /\ candidate[c] \notin found[c]
    /\ End(c, "refused")
    /\ UNCHANGED row

Accept(c) ==
    /\ c \in Consumers /\ pc[c] = "written"
    /\ row' = [row EXCEPT ![candidate[c]] = "used"]
    /\ End(c, "accepted")

(* The rows once c is committed: what it deleted is gone, its batch is there.  *)
(* Mutant: the old codes are not deleted.                                      *)
RowsWithOld(c) == [r \in Codes |-> IF r \in BatchOf(c) THEN "unused" ELSE row[r]]
RowsAfter(c) ==
    [r \in Codes |-> IF r \in found[c] THEN "absent"
                     ELSE IF r \in BatchOf(c) THEN "unused" ELSE row[r]]

(* bulk_create of the new batch, after the DELETE.  Mutant: each statement *)
(* commits by itself.                                                      *)
InsertInAutocommit(c) ==
    /\ c \in Replacers /\ Scanned(c)
    /\ pc' = [pc EXCEPT ![c] = "written"]
    /\ row' = RowsAfter(c)
    /\ UNCHANGED <<candidate, seen, visited, next, held, found>>
Insert(c) ==
    /\ c \in Replacers /\ Scanned(c)
    /\ pc' = [pc EXCEPT ![c] = "written"]
    /\ UNCHANGED <<row, candidate, seen, visited, next, held, found>>

Change(c) ==
    /\ (c \in Replacers /\ pc[c] = "written") \/ (c \in Resetters /\ Scanned(c))
    /\ row' = RowsAfter(c)
    /\ End(c, "changed")

(* An exception, a lost connection, a killed worker, or the database's choice *)
(* of whom to abort in a deadlock: ROLLBACK.                                  *)
Fail(c) ==
    /\ pc[c] \in {"scan", "written"}
    /\ End(c, "failed")
    /\ UNCHANGED row

Step(c) ==
    \/ Reach(c)
    \/ Visit(c)
    \/ Mark(c)
    \/ Refuse(c)
    \/ Accept(c)
    \/ Insert(c)
    \/ Change(c)

Next == \E c \in Calls : RefuseMalformed(c) \/ Query(c) \/ Step(c) \/ Fail(c)

Spec == Init /\ [][Next]_vars

(* Whom c waits for, and who waits for himself through others. *)
WaitsFor(c) == {b \in Calls \ {c} : next[c] # None /\ next[c] \in held[b]}

Deadlocked(c) ==
    \E S \in SUBSET {b \in Calls : WaitsFor(b) # {}} :
        /\ c \in S
        /\ \A b \in S : WaitsFor(b) \cap S # {}

(* A call that was made keeps executing and gets a row that is free, and the *)
(* database aborts somebody of a deadlock; nobody has to call or to fail.    *)
FairSpec ==
    /\ Spec
    /\ \A c \in Calls : WF_vars(Step(c) \/ (Deadlocked(c) /\ Fail(c)))

-------------------------------------------------------------------------------
(* Properties *)

Phases == {"new", "scan", "written", "refused", "accepted", "changed", "failed"}

(* Every variable holds what its column or local can hold; a batch whose call *)
(* has not returned has no committed row.                                     *)
TypeOK ==
    /\ row \in [Codes -> {"absent", "unused", "used"}]
    /\ pc \in [Calls -> Phases]
    /\ candidate \in [Calls -> Codes \cup {Wrong}]
    /\ seen \in [Calls -> SUBSET Codes]
    /\ visited \in [Calls -> SUBSET Codes]
    /\ next \in [Calls -> Codes \cup {None}]
    /\ held \in [Calls -> SUBSET Codes]
    /\ found \in [Calls -> SUBSET Codes]
    /\ \A r \in Codes : row[r] # "absent" => r \in Known

(* "Atomically consume at most one matching unused code" (services.py:33): no  *)
(* code is accepted twice, whatever consumptions, replacements and resets race. *)
SingleUse ==
    \A b, c \in Calls :
        pc[b] = "accepted" /\ pc[c] = "accepted" /\ candidate[b] = candidate[c] => b = c

(* What a statement returned is still so when it is acted upon: a code it found *)
(* unused is unused until it commits.                                           *)
FoundStaysUnused ==
    \A c \in Calls \ Resetters : \A r \in found[c] : row[r] = "unused"

OutcomeOf(c) ==
    CASE pc[c] = "new" -> "idle"
      [] pc[c] \in {"scan", "written"} -> "running"
      [] OTHER -> pc[c]

Promise == INSTANCE CodeBook WITH
    valid <- {r \in Codes : row[r] = "unused"},
    issued <- Known,
    before <- seen,
    outcome <- [c \in Calls |-> OutcomeOf(c)]

(* The codes as the user knows them: a valid code is accepted once, refused    *)
(* only if it is not valid, and a replacement or reset ends exactly the codes *)
(* valid when it began, however the row locks were granted.                    *)
ImplementsCodeBook == Promise!Spec

(* Nobody waits for ever on a code: each call that was made ends. *)
CallsEnd == \A c \in Calls : pc[c] = "scan" ~> pc[c] \notin {"scan", "written"}

===============================================================================

------------------------------- MODULE ResetMfa -------------------------------
(***************************************************************************)
(* reset_mfa (apps/accounts/recovery.py) in one organisation, statement by *)
(* statement over PostgreSQL at READ COMMITTED, against other resets and   *)
(* against what else changes its rows: memberships (tenancy services, each *)
(* with its version bump), enrolment, code replacement and verification.   *)
(* The others' transactions are one step each, at their commit, and wait   *)
(* for the rows a reset has locked.                                        *)
(***************************************************************************)
EXTENDS Naturals, FiniteSets

CONSTANTS
    Users,
    Devices, Codes,  \* keys of TOTPDevice and RecoveryCode rows
    Owner,           \* Owner[f]: the user factor f belongs to
    Resets,          \* calls of reset_mfa, each made once
    Head,            \* the organisation's AuditHead row
    None,            \* "no row"
    MaxChanges,      \* bound: after as many changes of one membership none is changed
    MaxTouches       \* bound: factor rows inserted or deleted by others

Factors == Devices \cup Codes
Rows == Factors \cup Users \cup {Head}

ASSUME RowsAssumption ==
    /\ Devices \cap Codes = {} /\ Factors \cap Users = {}
    /\ Head \notin Factors \cup Users /\ None \notin Rows
ASSUME OwnerAssumption == Owner \in [Factors -> Users]
ASSUME ResetsAssumption == IsFiniteSet(Resets) /\ None \notin Resets
ASSUME BoundAssumption == MaxChanges \in Nat /\ MaxTouches \in Nat

VARIABLES
    \* the database
    standing,  \* standing[u]: u's active membership: "none", "member" or "admin"
    version,   \* version[u]: u's authorization_version
    stored,    \* the factors whose row is committed, used and unconfirmed ones too
    recorded,  \* the resets whose audit event is committed
    \* the calls
    pc,        \* pc[c]: where call c is
    actor, target,  \* its arguments
    admin,     \* admin[c]: actor_is_admin
    seen,      \* seen[c]: the rows in the snapshot of its DELETE
    next,      \* next[c]: the one it has come to, or None
    gone,      \* gone[c]: the rows it has deleted
    held,      \* held[c]: the rows it has locked
    newer,     \* newer[c]: the rows inserted since the snapshot of their DELETE
    \* history
    touches,   \* how many factor rows others inserted or deleted
    changes,   \* changes[u]: how often u's membership changed
    before     \* before[c]: the versions when c was called

database == <<standing, version, stored, recorded>>
locals == <<actor, target, admin, seen, next, gone, held, newer>>
history == <<touches, changes, before>>
vars == <<database, pc, locals, history>>

FactorsOf(u) == {f \in Factors : Owner[f] = u}

(* Everybody is an administrator at first; ChangeStanding makes the rest. *)
Init ==
    /\ standing = [u \in Users |-> "admin"]
    /\ version = [u \in Users |-> 1]
    /\ stored = Factors
    /\ recorded = {}
    /\ pc = [c \in Resets |-> "new"]
    /\ actor = [c \in Resets |-> None]
    /\ target = [c \in Resets |-> None]
    /\ admin = [c \in Resets |-> FALSE]
    /\ seen = [c \in Resets |-> {}]
    /\ next = [c \in Resets |-> None]
    /\ gone = [c \in Resets |-> {}]
    /\ held = [c \in Resets |-> {}]
    /\ newer = [c \in Resets |-> {}]
    /\ touches = 0
    /\ changes = [u \in Users |-> 0]
    /\ before = [c \in Resets |-> version]

Goto(c, from, to) == pc[c] = from /\ pc' = [pc EXCEPT ![c] = to]

(* Nobody else has locked the row. *)
Free(c, r) == \A b \in Resets \ {c} : r \notin held[b]
Lock(c, r) == Free(c, r) /\ held' = [held EXCEPT ![c] = @ \cup {r}]

(* The end of a call: its locals are gone. *)
Forget(c) ==
    /\ actor' = [actor EXCEPT ![c] = None]
    /\ admin' = [admin EXCEPT ![c] = FALSE]
    /\ seen' = [seen EXCEPT ![c] = {}]
    /\ next' = [next EXCEPT ![c] = None]
    /\ gone' = [gone EXCEPT ![c] = {}]
    /\ newer' = [newer EXCEPT ![c] = {}]
    /\ before' = [before EXCEPT ![c] = [u \in Users |-> 1]]

ForgetTarget(c) == Forget(c) /\ target' = [target EXCEPT ![c] = None]

-------------------------------------------------------------------------------
(* The checks *)

(* The call.  A reset of oneself or without a reason is refused. *)
Call(c) ==
    /\ \E a, t \in Users :
         /\ a # t
         /\ actor' = [actor EXCEPT ![c] = a]
         /\ target' = [target EXCEPT ![c] = t]
    /\ Goto(c, "new", "actor")
    /\ before' = [before EXCEPT ![c] = version]
    /\ UNCHANGED <<database, admin, seen, next, gone, held, newer, changes, touches>>

RefuseCall(c) ==
    /\ Goto(c, "new", "refused")
    /\ UNCHANGED <<database, locals, history>>

QueryActor(c) ==
    /\ Goto(c, "actor", "target")
    /\ admin' = [admin EXCEPT ![c] = standing[actor[c]] = "admin"]
    /\ UNCHANGED <<database, actor, target, seen, next, gone, held, newer, history>>

(* Mutant: the target may be anybody. *)
AnyTarget(c) == TRUE
TargetIsMember(c) == standing[target[c]] # "none"

QueryTarget(c) ==
    /\ Goto(c, "target", "role")
    /\ admin[c] /\ TargetIsMember(c)
    /\ UNCHANGED <<database, locals, history>>

RefuseStanding(c) ==
    /\ Goto(c, "target", "refused")
    /\ ~(admin[c] /\ TargetIsMember(c))
    /\ ForgetTarget(c)
    /\ UNCHANGED <<database, held, changes, touches>>

(* can_perform_privileged_action refuses.  Whether it does is left open: any   *)
(* privileged role will do, one in another organisation too, which is not      *)
(* tracked, and the session must be verified.                                  *)
RefuseRole(c) ==
    /\ Goto(c, "role", "refused")
    /\ ForgetTarget(c)
    /\ UNCHANGED <<database, held, changes, touches>>

-------------------------------------------------------------------------------
(* The transaction *)

(* The rows a DELETE on one of the two tables matches.  Mutants: each of the *)
(* statements names the first table; the filter on the user is left out.     *)
MatchesEverybody(c, table) == stored \cap table
MatchesDevices(c, table) == stored \cap Devices \cap FactorsOf(target[c])
Matches(c, table) == stored \cap table \cap FactorsOf(target[c])

Snapshot(c, table) ==
    /\ seen' = [seen EXCEPT ![c] = Matches(c, table)]
    /\ newer' = [newer EXCEPT ![c] = @ \ table]

(* TOTPDevice.objects.filter(user=target).delete() *)
DeleteDevices(c) ==
    /\ Goto(c, "role", "devices")
    /\ Snapshot(c, Devices)
    /\ UNCHANGED <<database, actor, target, admin, next, gone, held, history>>

Scanning(c) == pc[c] \in {"devices", "codes"}
Scanned(c) == Scanning(c) /\ next[c] = None /\ seen[c] = {}

(* RecoveryCode.objects.filter(user=target).delete() *)
DeleteCodes(c) ==
    /\ Scanned(c) /\ Goto(c, "devices", "codes")
    /\ Snapshot(c, Codes)
    /\ UNCHANGED <<database, actor, target, admin, next, gone, held, history>>

(* From the first snapshot on rows are deleted or will be. *)
Deleting(c) == pc[c] \in {"devices", "codes", "append", "appended"}

(* It comes to one of the rows, in no stated order, ... *)
Reach(c) ==
    /\ Scanning(c) /\ next[c] = None
    /\ \E f \in seen[c] : next' = [next EXCEPT ![c] = f]
    /\ UNCHANGED <<database, pc, actor, target, admin, seen, gone, held, newer, history>>

(* ... waits for its lock, and deletes it if the row the snapshot saw is still *)
(* there: one that was inserted since under its key is not that row.           *)
Visit(c) ==
    LET f == next[c]
    IN /\ Scanning(c) /\ f # None
       /\ IF f \in stored \ newer[c]
          THEN Lock(c, f) /\ gone' = [gone EXCEPT ![c] = @ \cup {f}]
          ELSE Free(c, f) /\ UNCHANGED <<held, gone>>
       /\ seen' = [seen EXCEPT ![c] = @ \ {f}]
       /\ next' = [next EXCEPT ![c] = None]
       /\ UNCHANGED <<database, pc, actor, target, admin, newer, history>>

(* The UPDATE of the version, which locks the user's row. *)
Bump(c) ==
    /\ Scanned(c) /\ Goto(c, "codes", "append")
    /\ Lock(c, target[c])
    /\ UNCHANGED <<database, actor, target, admin, seen, next, gone, newer, history>>

(* append_event under the lock of the head. *)
Append(c) ==
    /\ Goto(c, "append", "appended")
    /\ Lock(c, Head)
    /\ UNCHANGED <<database, actor, target, admin, seen, next, gone, newer, history>>

(* The end of a transaction.  Mutant: its locks outlive it. *)
KeepRows(c) == held' = held
ReleaseRows(c) == held' = [held EXCEPT ![c] = {}]

Commit(c) ==
    /\ Goto(c, "appended", "done")
    /\ stored' = stored \ gone[c]
    /\ version' = [version EXCEPT ![target[c]] = @ + 1]
    /\ recorded' = recorded \cup {c}
    /\ ReleaseRows(c)
    /\ Forget(c)
    /\ UNCHANGED <<standing, target, changes, touches>>

Running(c) == pc[c] \notin {"new", "refused", "done", "failed"}

(* Mutant of Fail: without transaction.atomic the UPDATE stays. *)
FailHalfway(c) ==
    /\ Running(c)
    /\ pc' = [pc EXCEPT ![c] = "failed"]
    /\ version' = IF pc[c] = "append" THEN [version EXCEPT ![target[c]] = @ + 1] ELSE version
    /\ ReleaseRows(c)
    /\ ForgetTarget(c)
    /\ UNCHANGED <<standing, stored, recorded, changes, touches>>

(* An exception, a lost connection, a killed worker, the loser of a deadlock. *)
Fail(c) ==
    /\ Running(c)
    /\ pc' = [pc EXCEPT ![c] = "failed"]
    /\ ReleaseRows(c)
    /\ ForgetTarget(c)
    /\ UNCHANGED <<database, changes, touches>>

-------------------------------------------------------------------------------
(* The others *)

(* Nobody has locked the row. *)
Unlocked(r) == \A b \in Resets : r \notin held[b]

(* A tenancy operation commits with its bump: set_membership_active or          *)
(* change_membership_role, or one of the grants, which leave the standing alone. *)
ChangeStanding(u) ==
    /\ \A w \in Users : changes[w] < MaxChanges
    /\ Unlocked(u)
    /\ \E s \in {"none", "member", "admin"} :
         standing' = [standing EXCEPT ![u] = s]
    /\ version' = [version EXCEPT ![u] = @ + 1]
    /\ changes' = [changes EXCEPT ![u] = @ + 1]
    /\ UNCHANGED <<stored, recorded, pc, locals, before, touches>>

Touch == touches < MaxTouches /\ touches' = touches + 1

(* Enrolment, a stale save, code replacement: a row is inserted or deleted. *)
InsertFactor(f) ==
    /\ Unlocked(f)
    /\ f \notin stored
    /\ Touch
    /\ stored' = stored \cup {f}
    /\ newer' = [c \in Resets |-> IF Deleting(c) THEN newer[c] \cup {f} ELSE newer[c]]
    /\ UNCHANGED <<standing, version, recorded, pc, actor, target, admin, seen, next, gone, held, changes, before>>

DeleteFactor(f) ==
    /\ Unlocked(f)
    /\ f \in stored
    /\ Touch
    /\ stored' = stored \ {f}
    /\ UNCHANGED <<standing, version, recorded, pc, locals, changes, before>>

-------------------------------------------------------------------------------
Step(c) ==
    \/ QueryActor(c)
    \/ QueryTarget(c)
    \/ RefuseStanding(c)
    \/ RefuseRole(c)
    \/ DeleteDevices(c)
    \/ Reach(c)
    \/ Visit(c)
    \/ DeleteCodes(c)
    \/ Bump(c)
    \/ Append(c)
    \/ Commit(c)

Next ==
    \/ \E c \in Resets : Call(c) \/ RefuseCall(c) \/ Step(c) \/ Fail(c)
    \/ \E u \in Users : ChangeStanding(u)
    \/ \E f \in Factors : InsertFactor(f) \/ DeleteFactor(f)

Spec == Init /\ [][Next]_vars

(* The row c is waiting for or about to lock. *)
Wanted(c) ==
    CASE Scanning(c) /\ next[c] # None -> {next[c]}
      [] Scanned(c) /\ pc[c] = "codes" -> {target[c]}
      [] pc[c] = "append" -> {Head}
      [] OTHER -> {}

WaitsFor(c) == {b \in Resets \ {c} : Wanted(c) \cap held[b] # {}}

(* Each of the calls waits for another one of them. *)
Stuck(S) == S # {} /\ \A b \in S : WaitsFor(b) \cap S # {}

Deadlocked(c) == \E S \in SUBSET Resets : c \in S /\ Stuck(S)

(* A call that was made keeps executing and gets a row that is free, and the *)
(* database aborts somebody of a deadlock.                                   *)
FairSpec ==
    /\ Spec
    /\ \A c \in Resets : WF_vars(Step(c)) /\ WF_vars(Deadlocked(c) /\ Fail(c))

-------------------------------------------------------------------------------
(* Properties *)

Phases == {"new", "actor", "target", "role", "devices", "codes", "append", "appended",
           "refused", "done", "failed"}

(* Every variable holds what its column or local can hold; rows are locked in  *)
(* an open transaction only, deleted ones in particular.                       *)
TypeOK ==
    /\ standing \in [Users -> {"none", "member", "admin"}]
    /\ version \in [Users -> Nat]
    /\ stored \subseteq Factors
    /\ recorded \subseteq Resets
    /\ pc \in [Resets -> Phases]
    /\ actor \in [Resets -> Users \cup {None}]
    /\ target \in [Resets -> Users \cup {None}]
    /\ admin \in [Resets -> BOOLEAN]
    /\ seen \in [Resets -> SUBSET Factors]
    /\ next \in [Resets -> Factors \cup {None}]
    /\ gone \in [Resets -> SUBSET Factors]
    /\ held \in [Resets -> SUBSET Rows]
    /\ newer \in [Resets -> SUBSET Factors]
    /\ touches \in Nat
    /\ changes \in [Users -> Nat]
    /\ before \in [Resets -> [Users -> Nat]]
    /\ \A c \in Resets : gone[c] \subseteq held[c] /\ (held[c] # {} => Deleting(c))

(* A reset leaves its event and its version bump or neither: a user's version  *)
(* counts exactly the recorded resets and the changes of the membership,       *)
(* wherever calls failed and however they raced.                               *)
ResetIsWhole ==
    \A u \in Users :
        version[u] = 1 + changes[u] + Cardinality({c \in recorded : target[c] = u})

(* Behind every deadlock are resets of one user that stand in the same DELETE: *)
(* devices, codes, user row and head are locked in this order by everybody, so *)
(* that only the rows of one statement, locked in no stated order, can meet.   *)
DeadlocksInOneDelete ==
    \A S \in SUBSET Resets : Stuck(S) =>
        \E T \in SUBSET S :
            /\ Stuck(T)
            /\ \A b, c \in T : Scanning(b) /\ pc[b] = pc[c] /\ target[b] = target[c]

Committed(c) == pc[c] # "done" /\ pc'[c] = "done"

(* After a reset no factor of the target is left that was there when it looked *)
(* ("deletes the target's devices and recovery codes", docs/mfa-recovery.md):  *)
(* what is left was inserted by somebody else after the DELETE's snapshot.     *)
LeavesOnlyNew ==
    [][\A c \in Resets : Committed(c) =>
         stored' \cap FactorsOf(target[c]) \subseteq newer[c]]_vars

(* The membership of both, read before anything is locked, still holds at the  *)
(* commit, unless it changed meanwhile and the version of the one concerned    *)
(* has moved since the call, so that none of his sessions is accepted again.   *)
AuthorityOrStale ==
    [][\A c \in Resets : Committed(c) =>
         /\ actor[c] # target[c]
         /\ standing[actor[c]] = "admin" \/ version[actor[c]] > before[c][actor[c]]
         /\ standing[target[c]] # "none" \/ version[target[c]] > before[c][target[c]]]_vars

(* Nobody waits for ever: resets of one user that deadlock, or that queue for *)
(* the user's row and the head, all end.                                      *)
ResetsEnd == \A c \in Resets : pc[c] = "actor" ~> ~Running(c)

===============================================================================

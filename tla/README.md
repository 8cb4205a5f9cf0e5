# cybersec-tracker: specifications, model checking and proofs

This directory holds TLA+ modules translated from the Python sources, the TLC
configurations that check them on small instances, and TLAPS proofs of what holds
for every size. `PROJECT.json` lists the runs, the source lines behind every
definition, the hazards and the theorems.

## 1. The system

The repository is a Django 5.2 application over PostgreSQL, at the stage where
identity, tenancy and audit exist and the remediation workflow of `DESIGN.md` does
not: `apps/assets`, `apps/findings`, `apps/tasks` and eight other packages are
registrations without code. The core logic is a few hundred lines that several web
workers run at once against one database, so nearly all that can go wrong is a race
between transactions, a failure between two of them, or an object in memory that is
older than its row.

| Component | State | Operations | Hard behaviour | Correct when |
| --- | --- | --- | --- | --- |
| Audit chain (`apps/audit/services.py`, `models.py`) | one head row per organisation, its event rows | `append_event`, `verify_chain`, `record_privileged_read` | appends racing for a head, the first head of an organisation, rollback half-way, the time in the hash | numbered without gap or fork, verifiable, in the order of time, an append is atomic, lost and altered rows are found |
| Authentication audit (`apps/accounts/audit.py`) | none | `record_authentication_event`: one append per active organisation | one transaction per organisation, failure between two | every log of the audience gets the event once |
| Tenancy operations (`apps/tenancy/services.py`) | memberships, grants | `grant_business_unit`, `revoke_business_unit`, `set_membership_active`, `change_membership_role` | stale objects, racing `get_or_create`, waits for rows, for roles and at the commit | constraints hold, a change raises the user's version exactly once |
| Authorization version and sessions (`apps/accounts/services.py`, `middleware.py`) | `User.authorization_version`, the version kept in each session | `bump_authorization_version`, the login's recording, the middleware's comparison | a login that read the user before a change | no accepted session outlives a change of scope |
| Access decision (`apps/tenancy/access.py`) | none | `can_access_business_unit` | two queries with a change between them | the decision is that of one committed scope |
| Recovery codes (`apps/accounts/services.py`) | `RecoveryCode` rows | `replace_recovery_codes`, `consume_recovery_code` | several rows locked in no stated order, rows that vanish during the wait | a code is accepted at most once and never after it was withdrawn |
| Login, MFA and logout views (`apps/accounts/views.py`) | session dictionaries, TOTP devices | `login_view`, `verify_mfa`, `setup_mfa`, `logout_view` | concurrent requests of one session, device objects older than their rows | second factor before a verified session, bounded attempts |
| MFA reset (`apps/accounts/recovery.py`) | the rows above | `reset_mfa` | checks without locks, in-flight verifications, deadlock | all or nothing, no factor it saw survives, asked for by an administrator |
| Correlation (`apps/audit/middleware.py`, `context.py`) | one context variable per worker | set before, reset after a request | reuse of a worker after an exception, ids clients choose | an event carries its own request's identifier and nobody else's |
| Redaction (`redact`) | none | recursion over JSON values | depth, key spelling | no sensitive key keeps its value, nothing else is lost |
| Settings, URLs, entry points, health, logging, Celery | configuration | stateless | none | - |

How they interact: every view runs in autocommit; each service function is one
transaction (`transaction.atomic`). Tenancy operations and `reset_mfa` call
`bump_authorization_version` in their own transaction; views call
`record_authentication_event`, which calls `append_event` once per organisation;
`append_event` reads the context variable that `CorrelationIdMiddleware` sets. The
middleware chain loads the session and the user once per request, so everything a
view knows of them is a snapshot.

## 2. Modules

| Module | Role |
| --- | --- |
| `AuditLog` | abstract: what the audit service promises its callers |
| `AuditChain` | `append_event`, `verify_chain`, `record_authentication_event`, statement by statement |
| `AuditChainProofs` | its invariants and what the chain is evidence of, for all constants |
| `AuditRefinementProofs` | `AuditChain` implements `AuditLog` |
| `Authorization` | tenancy operations, the authorization version, sessions, access decisions |
| `AuthorizationProofs` | its properties, for all constants |
| `CodeBook` | abstract: recovery codes as the user knows them |
| `RecoveryCodes` | consuming, replacing and withdrawing codes, row lock by row lock |
| `RecoveryCodesProofs` | its invariants, and that it implements `CodeBook`, for all constants |
| `MfaSession` | the views and the middleware, as requests that share a session, devices and codes |
| `MfaSessionProofs` | its types, what a session's version says, what brings a device back, for all constants |
| `SessionRowProofs` | the life of a session row, what is on record of it, when attempts are bounded, for all constants |
| `ResetMfa` | `reset_mfa`, statement by statement, with what else changes its rows |
| `ResetMfaProofs` | its properties, for all constants |
| `Correlation` | the correlation middleware, its context variable, the id of an event |
| `Redaction` | `redact` and a reference for it, as functions on nested values |
| `EventContent` | `Correlation` with the data and reasons that events store, redacted |
| `EventContentProofs` | the invariants of both, and that `redact` meets its reference at any depth |
| `MCAuditChain`, `MCAuthorization`, `MCRecoveryCodes`, `MCMfaSession`, `MCResetMfa`, `MCEventContent` | instances for TLC |

`AuditChain` implements `AuditLog` and `RecoveryCodes` implements `CodeBook`, and the
modules above them use those abstractions: in `MfaSession` an event is one step and a
code is consumed in one step, in `ResetMfa` an event is one step under the head's lock.

### AuditChain

A *call* is one use of the service by a request, made for one of the sets of
organisations in `Audiences[c]`: those of a login, or one for a privileged read or a
reset. `Start` is the query for the user's active organisations (`accounts/audit.py:11`); `Begin` opens the transaction of one
turn of the loop; `LockHead`, `MissHead`, `CreateHead` and `LoseCreate` are the paths
of `select_for_update().get_or_create` (`services.py:61`): found, not found, inserted,
and lost to a racing insert and fetched again; `InsertEvent` reads the clock, builds
the content and inserts the row; `SaveHead` saves the head; `Commit` publishes both.
`Fail` is an exception, a lost connection or a killed worker before any statement, and
rolls back. PostgreSQL is at READ COMMITTED: a statement reads what is committed, a
row lock is kept to the end of its transaction, a unique index makes an insert wait
for an open one with its key and refuses it if the key is committed. `Tick` moves the
clock. There is one clock for all workers and it is never set back, while
`services.py:62` reads that of the worker's host: that the times follow the sequence
numbers (`TimeFollowsSequence`) is true of the program as far as its hosts' clocks agree.

Abstractions: a payload is the call that wrote it; the digest is injective (SHA-256
without collisions); a time is an instant and a zone, because the text that is hashed
depends on the zone and the column does not keep it. `verify_chain` is a set
expression over the rows of a table (`VerifyRows`): the hash carried to a row is that of
the row before it. It can so be asked about tables the program never writes, with rows
missing or rewritten: `OnlyTailLossPasses` and `AlterationFound` say exactly which of them
pass. `verify_chain` does not read the head, so the loss of the newest rows passes.

### Authorization

One user in one organisation. `scope` is the memberships with their grants, `user`
the columns that matter (version, password), `session` one session per browser. An
administrator's call fetches its membership object (`Fetch`) some time before it
operates on it, so the early returns (`NoChange`) and the updates compare with a
possibly stale object, as the code does. `MissGrant`, `InsertGrant`, `LoseInsert` are
`get_or_create`; `Bump` is the `UPDATE ... F(...) + 1`, which waits for the user row
and adds to what is committed; `Commit` publishes. A role change waits twice: for its
membership's row (`UpdateRole`) and then, holding it, for whoever gives up or takes the new
role (`CheckRole`), because the role is in a unique index; `RoleTaken` refuses it. A grant
waits at its commit (`Blocking`): Django's foreign keys are deferred, and the check of the
membership waits for an open change of its key, of which the role is a part. `WaitsFor` is
the graph of these waits, and `Deadlock` a set of calls in which each waits for another: two
role changes that swap roles, or a grant against a change of its membership's role. A client logs in in two steps
(`Authenticate` loads the user, `RecordSession` writes that object's version), and a
request passes the middleware (`Admit`, `LogOut`) and decides about a unit in the two
queries of `can_access_business_unit`. `ChangePassword` is Django's view, mounted by
`config/urls.py:16`: it saves every column of the request's user object.

`request[k].under`, `session[k].under` and `session[k].entered` are history: the scope
committed when the user row was read, and the password the session was opened with. No
guard looks at them. `InitialScopes` are the scopes a behaviour may start in, any that keep
the constraint on roles.

### RecoveryCodes

One user's codes; a code is its row and a batch is named for the replacement that made
it. A call runs one statement over the rows its snapshot found: `Query` takes the
snapshot, `Reach` comes to one of the rows, in any order because the query states none,
`Visit` waits for the row's lock and looks at the row as it is then. `Mark` and `Accept`
are the `UPDATE` and the commit of a consumption, `Refuse` its two other returns,
`Insert` and `Change` those of a replacement, `Change` alone that of a reset, `Fail` the
rollback, by an error or because the database breaks a deadlock. A call that ends forgets
its locals. A candidate is a code
that was shown to the user or no code at all. The codes of a replacement are known to
the user once the call has returned.

### MfaSession

One user, any number of requests, each made once from a browser. `req[q].at` names the
next statement of request `q` and the other fields are its locals; the views run in
autocommit, so every statement is a step. `Load` is Django's session middleware (the
whole dictionary is read once), `ReadUser`, `LogOutStale`, `Admit` are the repository's
middleware, `Reply` writes the dictionary back whole if it was touched: over the row whose
key it has, which Django refuses when that is gone, or as a new row after a `flush()`. A
login does not wait for the reply: `auth_login` calls `cycle_key()`, which inserts a row
under a new key with the dictionary as it is (`LogIn`) and deletes the old one (`DropOld`);
the reply then writes the login over the new row, and a request that fails in between
leaves an anonymous row behind whose key nobody was told. A session row is named for the request that made it. `Fail` is an exception at
any statement and saves nothing.

`login_view` is `Authenticate` to `DropOld` or `AwaitFactor`; `verify_mfa` is
`ReadCandidateUser`, `ListDevices`, the check of the token, the code, `FlushProved`,
`LogInVerified` (which inserts an empty row in the same way), `RecordVerified`; `setup_mfa` is `AllowSetup` and then `DeletePending`, `CreateDevice`
("start") or `FindPending` to `RecordEnrolled` ("confirm"); `logout_view` is
`RecordLogout`, `LogOut`. `ResetMfa` and `ChangeScope` happen to the account between any
two of them. `SaveObjects` is what django-otp and `Model.save` do with a device: the
object is written as it was fetched, over the row or as a new row.

`how` and `proof` in a session and `withdrawn` are history. A visit that is redirected to
the enrolment and one that is served are the same step: neither changes anything.
Requests that only render a form are left out, as is the check of the password hash in a
session, which needs a password change (`Authorization` has it).

### ResetMfa

One organisation, any number of calls of `reset_mfa`. `Call` to `RefuseRole` are the
checks, each query an instant of its own and none with a lock; the outcome of
`can_perform_privileged_action` is left open, because any privileged role in any
organisation will do. `DeleteDevices` and `DeleteCodes` take the snapshot of a `DELETE`,
`Reach` and `Visit` run it row by row, in any order, waiting for each row's lock; a row
inserted since under the same key is not the row it saw. `Bump` locks the user's row,
`Append` the head, `Commit` publishes deletions, version and event together, `Fail` rolls
back. Other transactions are one step each, at their commit: `ChangeStanding` is a
tenancy operation with its bump, whether it moves the user's standing or, like a grant,
only raises the version, `InsertFactor` and `DeleteFactor` stand for enrolment,
the stale save of a device (`mfa_reset`), replacement and consumption of codes.
`newer`, `before`, `changes` and `touches` are history or bounds.

### Correlation, Redaction, EventContent

A worker thread serves one request after another. `Arrive` is the middleware up to
`get_response`: the header's id, or a new one if there is none or it is malformed, goes
into the context variable, whose former value is kept as the token. `Respond` and `Raise`
both reset the context. `AppendEvent` may happen in a request or outside one. An id is
told apart from others, not spelled; a client may send any id there is, also that of an
event it has no part in.

`Redact` is a recursive function over values built of dicts, lists, tuples and leaves; a key
is its lower-case letters, how they are spelled, and its type, which `str(key)` (`Str`)
drops: of two keys of one dict with the same text one stays, as in the code. `Values` is any
set of values that has the items of its members and what `redact` returns for them; `Depth`
bounds their nesting, which is all that the recursion needs to be one. The reference is the
docstring's rule and does not recurse through containers: it looks at the path to each leaf
(`Leaves`), at the sensitive keys on it (`Hiding`), whatever containers lie between, and
says what the leaf must become (`Censored`). Code and reference agree on every value JSON
can say (`RedactCensors`); on tuples they do not (`redact_tuples`), nor on a dict with keys
such as 1 and "1", one of whose values is lost. `EventContent` stores redacted data, and the
reasons of privileged reads, with the events of `Correlation`.

## 3. Runs

CHECK_DEADLOCK is FALSE everywhere: every call is made once, so a behaviour may stop
when all have ended; that nobody waits for ever is checked as liveness instead.

Append calls cannot deadlock at all (`AppendsNeverDeadlock`, section 5). No run states it: a
deadlock there would take several calls over several organisations each, and the instance in
which one could occur, had the code a different locking, is too large for a run.

| Run | Shows |
| --- | --- |
| `audit_chain` | 3 calls, 2 organisations, a clock of 2 instants: types, gapless and forkless numbering, `verify_chain` accepting exactly the recorded length, times in order, the unique index never needed, the holder of a head alone with the newest head; of a log with rows missing or rewritten, what passes; the chain implements `AuditLog`; every call ends |
| `audit_partial` | violation: an event recorded in some logs only |
| `authorization` | 2 operations, 2 memberships and 3 roles, a foreign, an own and a sensitive unit, a client that may change its password once: types and the role constraint, accepted sessions of logins match the scope, stale sessions stay stale, decisions are exact, grants bump exactly when they change, a narrower scope opens no unit, a sensitive unit is opened by a committed grant alone, every deadlock has a role change in it |
| `authorization_ends` | 2 operations from every scope of 2 memberships with 3 roles: no call waits for ever, on a row, on a rival role change or in a deadlock, a swap of two roles among them |
| `authorization_password` | violation: a password change takes a bump back |
| `recovery_codes` | 2 consumptions, a replacement, a reset, batches of 2: a code is accepted once, what a statement found stays so, `CodeBook` is implemented, no call waits for ever, deadlocks included |
| `mfa_session` | 3 requests of every kind in one browser, 2 bumps: a verified session that is accepted proved its factor under the version it has, a login that skipped the second step is no session of a privileged user, a logged-out session stays out, events come first, a login takes a row nobody knows |
| `mfa_attempts` | violation: attempts that overlap are counted once |
| `mfa_reset` | violation: a deleted device is saved again |
| `reset_mfa` | 2 resets, 2 users, 2 devices and a code, a tenancy operation and 2 insertions or deletions by others: a reset is whole, leaves no factor it saw, rests on memberships that hold or whose owner's sessions are stale, deadlocks only with a reset of the same user in the same `DELETE`, and ends |
| `event_content` | 2 threads, 2 requests, 2 events, an id of a client beside those issued, 6 nested values without tuples, one with a number as a key: an event has its request's id, nobody comes into a trace unasked, stored data are the given data with exactly the sensitive values replaced |
| `redact_tuples` | violation: a sensitive key below a tuple keeps its value |

Bounds. Races on a head need a holder, a waiter and one who comes after, hence three
calls; two organisations give a loop with a failure between its turns. A constraint on
roles needs two memberships and a free third role, and so does the wait of a role change for its
rival, the refusal of a taken role and the swap of two roles: `authorization_ends` has both
memberships and starts in every scope. `authorization` has clients beside them and starts
where one membership has a global role and the other has not, with or without a grant of
each (`TwoRoles`): what other scopes have that a decision could turn on, two operations
bring about. Two operations are enough for every
pairwise race, and one client for every race of an operation with a login or a
decision; more clients only repeat what one does, and the theorems cover every number.
Two codes in a batch and calls that lock them in opposite orders give every deadlock of
two and three. Two replacements at once, which may leave two batches valid, are more than
the run holds beside these: the theorems of section 5 cover them. Three requests of one session are a login, a verification or enrolment
and one that races with either, while the account changes twice, which is once more than
any race of the code with a change needs; two browsers share only the account, so they
do to each other what the account's own changes do. Two attempts stand for five: below,
at and above the limit occur. Two resets of one user that have locked a device each, or
a device and a code, are every deadlock of two; one change of a membership falls before,
between or after the three queries, and two insertions or deletions can take a row away
and put it back. Two requests on one thread, or on two, are every reuse and every overlap
of contexts. `MaxClock`, `MaxPassword`, `MaxVersion`, `MaxChanges`, `MaxTouches` and
`MaxEvents` are the only bounds on counters.

Findings, each a violation run:

* `record_authentication_event` commits organisation by organisation; a failure
  half-way leaves the event in some logs only and reaches the client, where the
  docstring promises one event per organisation and an unchanged response.
* Django's password change saves a whole user object: a version raised since the
  request loaded it is overwritten, and a stale session is accepted again.
* The count of failed verifications lives in the session, which each request reads and
  writes whole: overlapping verifications count once.
* django-otp saves a device object whole after it has checked a token. A verification
  that listed a device before `reset_mfa` deleted it inserts it again.
* `redact` returns a tuple as it is, although it is hashed and stored as a JSON array: a
  token below one is kept, where the docstring and ADR 0007 promise recursive redaction. No
  caller in the repository passes a tuple.

`append_event` hashes `occurred_at.isoformat()` as given, and `verify_chain` hashes what
the column gives back, in UTC, so a supplied time in another zone would make an untouched
log fail. No caller in the repository supplies one, and the runs have `SuppliedStamps` empty;
the theorems about `verify_chain` name the premise (`UtcStamps`). Likewise `data`, which no
caller passes yet: jsonb gives some numbers back in another spelling than was hashed (1e16).

Two more behaviours that the models have and no document speaks about: two replacements
of one user's codes that overlap leave both batches valid (`CodeBook` promises no more),
and a confirmation that fetched a device before another one confirmed it makes it pending
again.

## 4. Fairness

`AuditChain!FairSpec` and `Authorization!FairSpec` assume that a call that was made
keeps executing and is granted a row once that row is free (weak fairness of its next
step), and that a statement the database refuses does raise. A worker executes its
request without being asked, and PostgreSQL queues the waiters of a row. Nothing makes
anyone call, fail, log in, or time pass. Where calls can deadlock (`Authorization`, `RecoveryCodes`, `ResetMfa`),
`FairSpec` assumes also that PostgreSQL aborts a transaction of a deadlock (its
`deadlock_timeout`). `MfaSession` and `Correlation` state no liveness: no request of theirs
waits for another.

## 5. Proofs

`AuditChainProofs`. `TypeOK` needs `Placed` (an open transaction knows its
organisation). `HeadTracksTail` and `NeverRefused` are not inductive: that a commit
appends the event that follows the head is known only because its view was read under
the lock. `IInv` adds `Locks` (the holder of a head is alone) and `Drafts` (what a
holder has read and drawn up follows the committed head). From it: `TypeCorrect`,
`HeadCorrect`, `IndexIdle`, `LockIsGood`. With `Links` (each event carries the hash of
the one before it, and its own hash is of its stored fields) `ChainCorrect`, assuming
supplied times are in UTC; with `Times`, `TimesInOrder`, assuming none are supplied.
`TailLossOnly` and `AlterationsFound` take the same premise and argue about one table: in
a part of a log that has a hole, the least row above the hole carries the hash of a row
that is not before it (least and greatest rows exist because `<` on the naturals is well
founded, `WellFoundedInduction`); a rewritten row no longer fits its hash, and if that was
computed again the next row does not fit the new one, as digests are injective.

`HeadPinsLog` says what `verify_chain` would gain if it also compared the last hash with the
head's: of all tables of rows, whatever is in them, exactly the log would pass. Two accepted
tables that agree from some number on agree one row earlier, because that row carries the
hash of the one before it (`AgreeOneEarlier`); the least number of rows they could differ in
gives the contradiction. `AppendsNeverDeadlock`: who holds a head has no other to wait for.

`AuditRefinementProofs`. `AppendIsAtomic`: every step of `AuditChain` maps to a step of
`AuditLog` or a stutter; `Records` ties a call's progress to the logs it is in. `CallsRecordedOnce` rests on the same
invariant: a call is in each log at most once, in no log outside its audience, and in all of
its audience once it has returned. `audit_partial` is why it says nothing of one that failed.

`AuthorizationProofs`. `AInv` = `Locking` (a new version is computed under the user
row's lock and is one more than the committed one), `Sessions` and `Requests` (what was read
of the user row is `Older`: under an older password, or under this one with a version that
is at most the committed one; and if nothing has moved since, the scope read with it is the
committed one, `Dated`). A password never comes back, so a password change that saves an
older version over a bump makes no copy look newer than it is, except to the session that
changes it, which takes the new password with it: `SessionsCorrect` is therefore about the
sessions a login has recorded since (`LoginsMatchScope`), and `authorization_password` shows
the other. `StaleForGood` and `DecisionsExact` hold with any number of password changes.
`TypeCorrect` and what follows use `TInv`: `TypeOK` with `Shapes` (a call's locals fit its operation) and
`Claims` (what a call has written and not committed, nobody else can write, so a commit
keeps the roles of the memberships apart). `BumpsReal` speaks of grants and revocations
only: an activation asked of a stale object bumps without changing anything.
`NarrowingOpensNothing` is about the decision
alone; `SensitiveGranted` about the second query, which reads what is committed.
`OnlyRoleChangesDeadlock`: without a role change in the circle, whoever is waited for holds a
row and waits for the user's row alone, and whoever holds that one (it comes last, `Holding`)
waits for nobody.

`RecoveryCodesProofs`. `SingleUse` is not inductive: it needs that a code is still unused
when its consumption commits. `RInv` is `TypeOK`, `Apart` (no row is locked by two calls)
and `Own` of every call (what its statement found it has locked and is as it found it, an
accepted candidate is a used row, the rows of its batch appear with its commit). From it
`TypeCorrect`, `FoundCorrect`, `UsedOnce`, and `CodesKeepPromise`, the step simulation of
`CodeBook`.

`MfaSessionProofs`. `MInv` adds to `TypeOK` that every dictionary, in the store
(`GoodRows`) or in a request (`GoodRequests`), is good: a verified one records a version
that is at most the version at its proof, which is at most the committed one, and one
that skipped the second step and records the committed version belongs to a user without a privileged
role. Every change of the account raises the version, so it makes the copies older and
never wrong. From it `TypeCorrect`, `VerifiedCorrect`, `SkippedCorrect`.

`FinalUnlessStale` says what is left of `ResetIsFinal`, which `mfa_reset` refutes: the
property holds as long as no request is about to check a token against an object of a
deleted device (`NothingStale`). `DevInv` adds to it that nobody knows the device of a
request that has not created it yet (`Uncreated`), so the devices that come into being are
new or those of objects a request holds (`Handles`). The hypothesis is the race of
the finding and nothing more; resets, enrolments and logins remain free to interleave.

`SessionRowProofs`. That a logout is final is not inductive: a request may still hold a
copy of the row. `RowInv` is, for every request, `Made` (the row it makes is there only
once it is done, and what it loaded was made by a request that was done), `Agrees` (a
copy and its row agree on whether they are a user's) and `Leaves` (a logout works on the
row it loaded until it has dropped it). As a copy is written only over a row that is
still there, a dropped row stays dropped: `LogoutFinal`, and `LoginSeparate` from
`Agrees`, as the row of a request that is not done, which is the only one that a login may
write over as anonymous, has a key nobody knows (`KnownKey`). `RecordsComeFirst` needs `EInv`: a request whose dictionary says more than the
events do is at a statement that records before it responds (`Says`), so that no row
(`RowsSay`) ever says more; a request that fails in between writes nothing.

`OneByOneBounded` is what is left of `AttemptsBounded`, which `mfa_attempts` refutes: it
holds if the requests of a session come one after another (`OneByOne`) and none fails between the
record of a refusal and its response while its row is there (`Answered`). By `AttInv` a request that may still be refused
has read the count of its row (`Tries`), and outside a refusal that is being answered the
row has it (`Keeps`). Neither hypothesis can be dropped: requests that overlap read the same
count, and a refusal recorded by a request that fails before its response is not counted.

`ResetMfaProofs`. `ResetIsWhole` counts: a step that commits raises one version and adds
one recorded reset of that target, and no other step does either. `LeavesOnlyNew` needs
that a row of the target that is stored is still to be visited, deleted and locked, or
newer than the snapshot of its table; `AuthorityOrStale` that a membership which no longer
is what the query saw was changed since the call, with a bump. From these invariants
`TypeCorrect`, `WholeReset`, `OnlyNewLeft`, `AuthorityKept`. `DeadlocksMeetInOneDelete`: a
reset holds rows of tables it has come to only (`LocksOf`), and everybody comes to devices,
codes, the user's row and the head in this order. So a call in a circle waits for a factor of
its target, and for a reset of the same user that has come as far (`StuckOnFactors`); if some
of these stand in the second `DELETE` they are a circle, and otherwise all stand in the first.

`EventContentProofs`. `CInv` adds to the properties `Contexts` (a thread's context is the id
of the request it serves, or none), `Come` (a request with an event has an id, one without
an id has left no mark); by `TypeOK` the ids of `uuid4()` are among those issued, hence the
next is new. From it `TypeCorrect`, `TraceComplete`, `TracesKeptApart`.

`RedactCensors` is about what a recursion returns for values of any depth. That the recursive
functions `Redact` and `Leaves` exist is itself proved (`RedactEquation`): were there a depth
up to which no function meets the equation, the least such one could be reached from the one
below, as the items of a value are less deep than it (`RedactUpto`, by well-foundedness of the
naturals), and two such functions agree (`RedactAgrees`). The theorem is then a case for each
kind of value, with a counterexample of least depth (`Shallowest`). Its
premise is `JsonLike`: no tuple anywhere, which `redact_tuples` shows to be needed, and no
dict with two keys of one text. The only assumptions are those `Redaction` and
`EventContent` declare: values are of the four kinds (`ValuesAssumption`), containers do
not contain themselves (`DepthAssumption`), `redact` returns values (`ClosedAssumption`) and
the data are values (`DataAssumption`). From it and the types of an event's content,
`ContentCensored`, for data of which the same is true.

Only model-checked: `EveryCallEnds`, `CallsEnd` (twice) and `ResetsEnd`, because liveness
under fairness is out of the prover's reach. Every other property of a passing run is
proved.

## 6. Plan

1. Done: every component with state of its own, its properties and their proofs.
2. Left open, for want of a promise to check against: what a caller may expect of a
   tenancy operation asked of a stale object (`tenancy/services.py:43`), of a device
   confirmed twice (`accounts/views.py:121`), and of an enrolment that fails between its
   transactions (`accounts/views.py:122`). The models have these behaviours.
3. When callers begin to pass `data` or `occurred_at`: numbers in `Redaction` and in
   the digest, and supplied times in `audit_chain`.

## 7. Not modelled

Settings, URLs, entry points, health endpoints, log formatting and the Celery
application have no state to interleave. The scaffold applications have no code.
django-axes and django-otp are third-party, and so are Django's password reset and change,
of which only the save of the user row is modelled. The append-only guards of the event model
and of the PostgreSQL trigger refuse statements no modelled operation makes.

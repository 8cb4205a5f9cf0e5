------------------------------ MODULE AuditChain ------------------------------
(***************************************************************************)
(* apps/audit/services.py over PostgreSQL at READ COMMITTED.  A call is    *)
(* one use of the service by a web request: record_authentication_event    *)
(* appends to every organisation of its audience in turn, each append a    *)
(* transaction of its own; record_privileged_read and reset_mfa append to  *)
(* one.  Inside an append the steps of different calls interleave at every *)
(* SQL statement, and a call may fail (exception, lost connection, killed  *)
(* worker) before any of them, which rolls its open transaction back.      *)
(*                                                                         *)
(* A row's payload (actor, action, object, reason, data, correlation id)   *)
(* is abstracted to the call that wrote it.  SHA-256 is taken as           *)
(* injective: a digest is the one-element tuple of what was hashed.        *)
(***************************************************************************)
EXTENDS Naturals, FiniteSets

CONSTANTS
    Orgs,            \* organisations
    Calls,           \* uses of the audit service, each made once
    Audiences,       \* Audiences[c]: the sets of organisations c may be made for
    NoOrg,           \* "no organisation yet"
    SuppliedStamps,  \* occurred_at arguments callers pass; no caller in src does
    MaxClock         \* bound: the last instant of the clock

Zones == {"utc", "local"}
Stamps == [instant : Nat, zone : Zones]

ASSUME AudiencesAssumption == Audiences \in [Calls -> SUBSET SUBSET Orgs]
ASSUME NoOrgAssumption == NoOrg \notin Orgs
ASSUME StampsAssumption == SuppliedStamps \subseteq Stamps
ASSUME ClockAssumption == MaxClock \in Nat

VARIABLES
    \* the database
    headRows,  \* organisations whose AuditHead row is committed
    head,      \* head[o]: that row's committed fields (its defaults until then)
    holder,    \* holder[o]: the calls whose open transaction has locked o's head row
    rows,      \* the committed AuditEvent rows
    \* the calls
    clock,     \* what timezone.now() reads
    pc,        \* pc[c]: where the call is
    audience,  \* audience[c]: the organisations it was made for
    todo,      \* todo[c]: those it has not appended to yet
    org,       \* org[c]: the one it is appending to
    view,      \* view[c]: its in-memory AuditHead object
    draft      \* draft[c]: the row it has inserted and not committed, as a set

vars == <<headRows, head, holder, rows, clock, pc, audience, todo, org, view, draft>>

-------------------------------------------------------------------------------
(* Values *)

Genesis == <<>>
(* Mutant: the payload is left out of what is hashed. *)
DigestWithoutCall(content) == <<[f \in DOMAIN content \ {"call"} |-> content[f]]>>
Digest(content) == <<content>>
FreshHead == [sequence |-> 0, event_hash |-> Genesis]

(* A timestamptz column keeps the instant; what is read back is in UTC. *)
ReadBack(stamp) == [stamp EXCEPT !.zone = "utc"]

(* What timezone.now() can return.  Mutant: it was called earlier on, before *)
(* the wait for the head's lock.                                             *)
EarlyReadings == {[instant |-> t, zone |-> "utc"] : t \in 0 .. clock}
Readings == {[instant |-> clock, zone |-> "utc"]}

(* The next sequence number.  Mutant: the head's own number is used again. *)
SameSequence(h) == h.sequence
NextSequence(h) == h.sequence + 1

(* The head that points at e.  Mutants: only one of its two fields is saved. *)
HeadWithoutHash(e) == [sequence |-> e.sequence, event_hash |-> e.previous_hash]
HeadWithoutSequence(e) == [sequence |-> e.sequence - 1, event_hash |-> e.event_hash]
HeadAfter(e) == [sequence |-> e.sequence, event_hash |-> e.event_hash]

(* The dictionary that is hashed, with isoformat() of the time in hand. *)
Content(o, n, at, c, previous) ==
    [organisation |-> o, sequence |-> n, occurred_at |-> at, call |-> c,
     previous_hash |-> previous]

(* The AuditEvent row for that dictionary. *)
Event(o, n, at, c, previous) ==
    [organisation |-> o, sequence |-> n, occurred_at |-> ReadBack(at), call |-> c,
     previous_hash |-> previous, event_hash |-> Digest(Content(o, n, at, c, previous))]

RowsOf(o) == {e \in rows : e.organisation = o}

-------------------------------------------------------------------------------
(* verify_chain on a table that holds the rows S: the loop's previous_hash on  *)
(* reaching a row is the hash of the row before it, and the loop stops at the *)
(* first row that does not fit.                                               *)

Earlier(S, e) == {d \in S : d.sequence < e.sequence}

PreviousHash(S, e) ==
    LET before == Earlier(S, e)
    IN IF before = {} THEN Genesis
       ELSE (CHOOSE d \in before : \A x \in before : x.sequence <= d.sequence).event_hash

(* The dictionary rebuilt from a row. *)
ContentOf(e, previous) ==
    Content(e.organisation, e.sequence, e.occurred_at, e.call, previous)

(* Mutant: each row is checked against its own previous_hash. *)
FitsAlone(S, e) == e.event_hash = Digest(ContentOf(e, e.previous_hash))
Fits(S, e) ==
    /\ e.previous_hash = PreviousHash(S, e)
    /\ e.event_hash = Digest(ContentOf(e, PreviousHash(S, e)))

Misfits(S) == {e \in S : ~Fits(S, e)}

VerifyRows(S) ==
    IF Misfits(S) = {}
    THEN [valid |-> TRUE, checked |-> Cardinality(S), first_invalid |-> 0]
    ELSE LET e == CHOOSE e \in Misfits(S) : \A d \in Misfits(S) : e.sequence <= d.sequence
         IN [valid |-> FALSE, checked |-> Cardinality(Earlier(S, e)) + 1,
             first_invalid |-> e.sequence]

VerifyChain(o) == VerifyRows(RowsOf(o))

-------------------------------------------------------------------------------
Init ==
    /\ headRows = {}
    /\ head = [o \in Orgs |-> FreshHead]
    /\ holder = [o \in Orgs |-> {}]
    /\ rows = {}
    /\ clock = 0
    /\ pc = [c \in Calls |-> "new"]
    /\ audience = [c \in Calls |-> {}]
    /\ todo = [c \in Calls |-> {}]
    /\ org = [c \in Calls |-> NoOrg]
    /\ view = [c \in Calls |-> FreshHead]
    /\ draft = [c \in Calls |-> {}]

Goto(c, from, to) == pc[c] = from /\ pc' = [pc EXCEPT ![c] = to]

database == <<headRows, head, holder, rows>>
memory == <<audience, todo, org, view, draft>>

(* The clock that timezone.now() reads: all workers read the same one, and it *)
(* is never set back.                                                         *)
Tick ==
    /\ clock < MaxClock
    /\ clock' = clock + 1
    /\ UNCHANGED <<database, pc, memory>>

(* The query for the user's active organisations runs once, before the loop. *)
Start(c) ==
    /\ Goto(c, "new", "loop")
    /\ \E S \in Audiences[c] :
         /\ audience' = [audience EXCEPT ![c] = S]
         /\ todo' = [todo EXCEPT ![c] = S]
    /\ UNCHANGED <<database, clock, org, view, draft>>

(* One turn of the loop: append_event opens its transaction. *)
Begin(c) ==
    /\ Goto(c, "loop", "get")
    /\ \E o \in todo[c] : org' = [org EXCEPT ![c] = o]
    /\ UNCHANGED <<database, clock, audience, todo, view, draft>>

(* The row lock of o's head.  Mutant: select_for_update() is left out. *)
AcquireWithoutWaiting(c, o) == holder' = [holder EXCEPT ![o] = @ \cup {c}]
Acquire(c, o) ==
    /\ holder[o] = {}
    /\ holder' = [holder EXCEPT ![o] = {c}]

(* SELECT ... FOR UPDATE: waits for the row lock, then reads the newest row. *)
LockHead(c) ==
    /\ Goto(c, "get", "locked") \/ Goto(c, "refetch", "locked")
    /\ org[c] \in headRows
    /\ Acquire(c, org[c])
    /\ view' = [view EXCEPT ![c] = head[org[c]]]
    /\ UNCHANGED <<headRows, head, rows, clock, audience, todo, org, draft>>

(* The same SELECT finds no committed row and does not wait. *)
MissHead(c) ==
    /\ Goto(c, "get", "create")
    /\ org[c] \notin headRows
    /\ UNCHANGED <<database, clock, memory>>

(* INSERT of the head: waits for another open INSERT of the same key. *)
CreateHead(c) ==
    /\ Goto(c, "create", "locked")
    /\ org[c] \notin headRows
    /\ Acquire(c, org[c])
    /\ view' = [view EXCEPT ![c] = FreshHead]
    /\ UNCHANGED <<headRows, head, rows, clock, audience, todo, org, draft>>

(* IntegrityError: someone else's head was committed first; get() again. *)
LoseCreate(c) ==
    /\ Goto(c, "create", "refetch")
    /\ org[c] \in headRows
    /\ UNCHANGED <<database, clock, memory>>

(* The time is read, the row built and inserted.  The unique index on      *)
(* (organisation, sequence) makes the INSERT wait for an open one with its *)
(* key and refuses it ("refused", an exception) if the key is committed.   *)
InsertEvent(c) ==
    LET o == org[c]
        n == NextSequence(view[c])
    IN /\ pc[c] = "locked"
       /\ \A b \in Calls : \A e \in draft[b] : e.organisation # o \/ e.sequence # n
       /\ IF \E e \in RowsOf(o) : e.sequence = n
          THEN pc' = [pc EXCEPT ![c] = "refused"] /\ UNCHANGED draft
          ELSE /\ pc' = [pc EXCEPT ![c] = "inserted"]
               /\ \E at \in Readings \cup SuppliedStamps :
                    draft' = [draft EXCEPT ![c] = {Event(o, n, at, c, view[c].event_hash)}]
       /\ UNCHANGED <<database, clock, audience, todo, org, view>>

(* head.sequence and head.event_hash are assigned and saved. *)
SaveHead(c) ==
    /\ Goto(c, "inserted", "saved")
    /\ \E e \in draft[c] : view' = [view EXCEPT ![c] = HeadAfter(e)]
    /\ UNCHANGED <<database, clock, audience, todo, org, draft>>

(* The end of a transaction.  Mutant: the row lock outlives it. *)
KeepLocks(c) == holder' = holder
Release(c) == holder' = [o \in Orgs |-> holder[o] \ {c}]

(* COMMIT publishes the head and the event together and frees the row lock. *)
Commit(c) ==
    /\ Goto(c, "saved", "loop")
    /\ headRows' = headRows \cup {org[c]}
    /\ head' = [head EXCEPT ![org[c]] = view[c]]
    /\ rows' = rows \cup draft[c]
    /\ Release(c)
    /\ todo' = [todo EXCEPT ![c] = @ \ {org[c]}]
    /\ draft' = [draft EXCEPT ![c] = {}]
    /\ UNCHANGED <<clock, audience, org, view>>

Return(c) ==
    /\ todo[c] = {}
    /\ Goto(c, "loop", "done")
    /\ UNCHANGED <<database, clock, memory>>

(* Mutant of Fail: the loop swallows the exception and goes on. *)
FailQuietly(c) ==
    /\ pc[c] \notin {"new", "done", "failed"}
    /\ pc' = [pc EXCEPT ![c] = "loop"]
    /\ Release(c)
    /\ draft' = [draft EXCEPT ![c] = {}]
    /\ todo' = [todo EXCEPT ![c] = @ \ {org[c]}]
    /\ UNCHANGED <<headRows, head, rows, clock, audience, org, view>>

(* The call dies: its open transaction, if any, is rolled back. *)
Fail(c) ==
    /\ pc[c] \notin {"new", "done", "failed"}
    /\ pc' = [pc EXCEPT ![c] = "failed"]
    /\ Release(c)
    /\ draft' = [draft EXCEPT ![c] = {}]
    /\ UNCHANGED <<headRows, head, rows, clock, audience, todo, org, view>>

(* What the program does of its own accord once a call was made. *)
Step(c) ==
    \/ Begin(c)
    \/ LockHead(c)
    \/ MissHead(c)
    \/ CreateHead(c)
    \/ LoseCreate(c)
    \/ InsertEvent(c)
    \/ SaveHead(c)
    \/ Commit(c)
    \/ Return(c)

Next ==
    \/ Tick
    \/ \E c \in Calls : Start(c) \/ Step(c) \/ Fail(c)

Spec == Init /\ [][Next]_vars

(* A running request keeps executing and a free lock is granted; nobody has *)
(* to make a call, time need not pass and nothing has to fail, except that a *)
(* refused INSERT does raise.                                                *)
FairSpec ==
    /\ Spec
    /\ \A c \in Calls : WF_vars(Step(c)) /\ WF_vars(pc[c] = "refused" /\ Fail(c))

-------------------------------------------------------------------------------
(* Properties *)

HoldsLock == {"locked", "inserted", "saved", "refused"}
Phases == {"new", "loop", "get", "create", "refetch", "done", "failed"} \cup HoldsLock

IsHead(h) ==
    /\ h = [sequence |-> h.sequence, event_hash |-> h.event_hash]
    /\ h.sequence \in Nat

IsEvent(e) ==
    /\ e = [organisation |-> e.organisation, sequence |-> e.sequence,
            occurred_at |-> e.occurred_at, call |-> e.call,
            previous_hash |-> e.previous_hash, event_hash |-> e.event_hash]
    /\ e.organisation \in Orgs
    /\ e.sequence \in Nat \ {0}
    /\ e.occurred_at \in [instant : Nat, zone : {"utc"}]
    /\ e.call \in Calls

(* Every variable holds values of the kind its column or attribute can hold; *)
(* sequences of events start at 1 and stored times are in UTC.                *)
TypeOK ==
    /\ headRows \subseteq Orgs
    /\ head = [o \in Orgs |-> head[o]] /\ \A o \in Orgs : IsHead(head[o])
    /\ holder \in [Orgs -> SUBSET Calls]
    /\ \A e \in rows : IsEvent(e)
    /\ clock \in Nat
    /\ pc \in [Calls -> Phases]
    /\ audience \in [Calls -> SUBSET Orgs]
    /\ todo \in [Calls -> SUBSET Orgs]
    /\ org \in [Calls -> Orgs \cup {NoOrg}]
    /\ view = [c \in Calls |-> view[c]] /\ \A c \in Calls : IsHead(view[c])
    /\ draft = [c \in Calls |-> draft[c]] /\ \A c \in Calls : \A e \in draft[c] : IsEvent(e)

(* Whatever appends raced, failed or were rolled back, verify_chain finds no  *)
(* misfit in any organisation and counts exactly the events its head records. *)
ChainVerifies ==
    \A o \in Orgs : VerifyChain(o) =
        [valid |-> TRUE, checked |-> head[o].sequence, first_invalid |-> 0]

(* An organisation's committed events are numbered 1..head.sequence without a *)
(* gap or a fork, and the head carries the hash of the last one.              *)
HeadTracksTail ==
    \A o \in Orgs :
        /\ {e.sequence : e \in RowsOf(o)} = 1 .. head[o].sequence
        /\ \A d, e \in RowsOf(o) : d.sequence = e.sequence => d = e
        /\ \A e \in RowsOf(o) :
             e.sequence = head[o].sequence => e.event_hash = head[o].event_hash
        /\ o \notin headRows => head[o] = FreshHead

(* What the chain is evidence of ("detect alteration"): of the committed rows  *)
(* of an organisation, verify_chain accepts a part only if it is everything   *)
(* up to some row.  A hole anywhere, the first row's loss included, is found; *)
(* the loss of the newest rows is not, since the head is not compared.        *)
OnlyTailLossPasses ==
    \A o \in Orgs : \A S \in SUBSET RowsOf(o) :
        VerifyRows(S).valid <=> \A e \in S : Earlier(RowsOf(o), e) \subseteq S

(* Row e with another payload, time or link, its own hash kept or computed    *)
(* again.                                                                     *)
Rewrites(e) ==
    {[e EXCEPT !.call = c] : c \in Calls}
        \cup {[e EXCEPT !.occurred_at.instant = t] : t \in 0 .. clock}
        \cup {[e EXCEPT !.previous_hash = p] : p \in {Genesis, e.event_hash}}

Resealed(e) == [e EXCEPT !.event_hash = Digest(ContentOf(e, e.previous_hash))]

With(e, f) == (RowsOf(e.organisation) \ {e}) \cup {f}

(* A committed row whose content no longer matches its hash is reported as    *)
(* such.  If the hash was computed again as well, the row is reported when    *)
(* its link was changed, otherwise the row after it is; only the newest row   *)
(* can be replaced unnoticed.                                                 *)
AlterationFound ==
    \A e \in rows : \A f \in Rewrites(e) \ {e} :
        /\ VerifyRows(With(e, f)).first_invalid = e.sequence
        /\ VerifyRows(With(e, Resealed(f))).first_invalid =
             IF f.previous_hash # e.previous_hash THEN e.sequence
             ELSE IF e.sequence < head[e.organisation].sequence THEN e.sequence + 1 ELSE 0

(* The head's row lock serialises appends so well that the unique index on    *)
(* (organisation, sequence) never has to refuse one.                          *)
NeverRefused == \A c \in Calls : pc[c] # "refused"

(* timezone.now() is read under the head's lock, so the order of the sequence *)
(* numbers is the order of the times (for callers that supply none).          *)
TimeFollowsSequence ==
    \A d, e \in rows :
        d.organisation = e.organisation /\ d.sequence < e.sequence
            => d.occurred_at.instant <= e.occurred_at.instant

(* The holder of a head's lock is alone, and from the moment it is granted    *)
(* until it commits its in-memory head is the committed one.                  *)
LockedViewIsCurrent ==
    \A c \in Calls : pc[c] \in {"locked", "inserted", "saved"} =>
        /\ holder[org[c]] = {c}
        /\ pc[c] # "saved" => view[c] = head[org[c]]

(* What a caller sees: the state of the abstract log. *)
CallsInOrder(events) ==
    [n \in {e.sequence : e \in events} |-> (CHOOSE e \in events : e.sequence = n).call]

LogOf(o) == CallsInOrder(RowsOf(o))

OutcomeOf(c) ==
    CASE pc[c] = "new" -> "idle"
      [] pc[c] \in {"done", "failed"} -> pc[c]
      [] OTHER -> "running"

Promise == INSTANCE AuditLog WITH
    log <- [o \in Orgs |-> LogOf(o)],
    outcome <- [c \in Calls |-> OutcomeOf(c)]

(* append_event as seen by its callers is an atomic append to an append-only  *)
(* log: no entry is lost, moved, duplicated or written after the call ended,  *)
(* and a call that returns normally is in the log of all its audience.        *)
ImplementsAuditLog == Promise!Spec

(* Nobody waits for ever on a head row: each call that was made ends.         *)
EveryCallEnds == \A c \in Calls : pc[c] = "loop" ~> pc[c] \in {"done", "failed"}

(* "Record one event per active organisation" (apps/accounts/audit.py:10):    *)
(* a call that is over is in the log of every organisation of its audience,   *)
(* or of none if it failed.  The loop commits organisation by organisation.   *)
RecordedInAllOrNone ==
    \A c \in Calls : pc[c] \in {"done", "failed"} =>
        LET recorded == {o \in audience[c] : \E e \in RowsOf(o) : e.call = c}
        IN recorded \in {{}, audience[c]}

===============================================================================

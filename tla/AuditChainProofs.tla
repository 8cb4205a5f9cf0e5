--------------------------- MODULE AuditChainProofs ---------------------------
(***************************************************************************)
(* Theorems about AuditChain for any organisations, calls and clock: its   *)
(* invariants, and which changes of the committed rows verify_chain finds. *)
(***************************************************************************)
EXTENDS AuditChain, FiniteSetTheorems, WellFoundedInduction, TLAPS

-------------------------------------------------------------------------------
(* Type correctness *)

LEMMA FreshHeadIsHead == IsHead(FreshHead)
  BY DEF IsHead, FreshHead

(* Rows built from a legal organisation, number, time and call are legal. *)
LEMMA EventIsEvent ==
  ASSUME NEW o \in Orgs, NEW n \in Nat \ {0}, NEW at \in Stamps, NEW c \in Calls, NEW p
  PROVE  IsEvent(Event(o, n, at, c, p))
  BY DEF IsEvent, Event, ReadBack, Stamps, Zones

LEMMA TypeInit == Init => TypeOK
  BY FreshHeadIsHead DEF Init, TypeOK, Phases, HoldsLock

(* While a transaction is open the call knows its organisation.  TypeOK alone *)
(* is not inductive: a head indexed by NoOrg would have no type.              *)
Placed == \A c \in Calls :
    pc[c] \in {"get", "create", "refetch", "locked", "inserted", "saved", "refused"}
        => org[c] \in Orgs

TInv == TypeOK /\ Placed

LEMMA TypeStep == TInv /\ [Next]_vars => TInv'
<1> SUFFICES ASSUME TInv, [Next]_vars PROVE TInv'
  OBVIOUS
<1> USE DEF TInv
<1>1. CASE Tick
  BY <1>1, ClockAssumption DEF TypeOK, Placed, Tick, database, memory
<1>2. ASSUME NEW c \in Calls, Start(c) PROVE TInv'
  <2>1. audience' \in [Calls -> SUBSET Orgs] /\ todo' \in [Calls -> SUBSET Orgs]
    <3>1. PICK S \in Audiences[c] : /\ audience' = [audience EXCEPT ![c] = S]
                                    /\ todo' = [todo EXCEPT ![c] = S]
      BY <1>2 DEF Start
    <3>2. S \in SUBSET Orgs
      BY <3>1, AudiencesAssumption
    <3>3. QED
      BY <3>1, <3>2 DEF TypeOK
  <2>2. pc' \in [Calls -> Phases] /\ Placed'
    BY <1>2 DEF TypeOK, Placed, Start, Goto, Phases
  <2>3. QED
    BY <1>2, <2>1, <2>2 DEF TypeOK, Start, database
<1>3. ASSUME NEW c \in Calls, Begin(c) PROVE TInv'
  BY <1>3 DEF TypeOK, Placed, Begin, Goto, database, Phases
<1>4. ASSUME NEW c \in Calls, LockHead(c) PROVE TInv'
  BY <1>4 DEF TypeOK, Placed, LockHead, Acquire, Goto, Phases, HoldsLock
<1>5. ASSUME NEW c \in Calls, MissHead(c) PROVE TInv'
  BY <1>5 DEF TypeOK, Placed, MissHead, Goto, database, memory, Phases
<1>6. ASSUME NEW c \in Calls, CreateHead(c) PROVE TInv'
  BY <1>6, FreshHeadIsHead DEF TypeOK, Placed, CreateHead, Acquire, Goto, Phases, HoldsLock
<1>7. ASSUME NEW c \in Calls, LoseCreate(c) PROVE TInv'
  BY <1>7 DEF TypeOK, Placed, LoseCreate, Goto, database, memory, Phases
<1>8. ASSUME NEW c \in Calls, InsertEvent(c) PROVE TInv'
  <2> DEFINE n == NextSequence(view[c])
  <2>1. n \in Nat \ {0} /\ org[c] \in Orgs
    BY <1>8 DEF TypeOK, Placed, InsertEvent, IsHead, NextSequence
  <2>2. ASSUME NEW at \in Readings \cup SuppliedStamps
        PROVE  IsEvent(Event(org[c], n, at, c, view[c].event_hash))
    BY <2>1, EventIsEvent, StampsAssumption DEF TypeOK, Readings, Stamps, Zones
  <2>3. \/ draft' = draft
        \/ \E at \in Readings \cup SuppliedStamps :
             draft' = [draft EXCEPT ![c] = {Event(org[c], n, at, c, view[c].event_hash)}]
    BY <1>8 DEF InsertEvent
  <2>4. /\ draft' = [b \in Calls |-> draft'[b]]
        /\ \A b \in Calls : \A e \in draft'[b] : IsEvent(e)
    BY <2>2, <2>3 DEF TypeOK
  <2>5. pc' \in [Calls -> Phases] /\ Placed'
    BY <1>8, <2>1 DEF TypeOK, Placed, InsertEvent, Phases, HoldsLock
  <2>6. QED
    BY <1>8, <2>4, <2>5 DEF TypeOK, InsertEvent, database
<1>9. ASSUME NEW c \in Calls, SaveHead(c) PROVE TInv'
  BY <1>9 DEF TypeOK, Placed, SaveHead, Goto, database, Phases, HoldsLock, HeadAfter, IsHead, IsEvent
<1>10. ASSUME NEW c \in Calls, Commit(c) PROVE TInv'
  BY <1>10 DEF TypeOK, Placed, Commit, Release, Goto, Phases, HoldsLock
<1>11. ASSUME NEW c \in Calls, Return(c) PROVE TInv'
  BY <1>11 DEF TypeOK, Placed, Return, Goto, database, memory, Phases
<1>12. ASSUME NEW c \in Calls, Fail(c) PROVE TInv'
  BY <1>12 DEF TypeOK, Placed, Fail, Release, Phases
<1>13. CASE UNCHANGED vars
  BY <1>13 DEF TypeOK, Placed, vars, IsEvent
<1>14. QED
  BY <1>1, <1>2, <1>3, <1>4, <1>5, <1>6, <1>7, <1>8, <1>9, <1>10, <1>11, <1>12, <1>13
     DEF Next, Step

(* Every reachable state is well typed. *)
THEOREM TypeCorrect == Spec => []TypeOK
<1>1. Init => TInv
  BY TypeInit DEF Init, TInv, Placed
<1>2. QED
  BY <1>1, TypeStep, PTL DEF Spec, TInv

-------------------------------------------------------------------------------
(* The lock and the chain.  HeadTracksTail and NeverRefused are not inductive: *)
(* a step that commits must be known to commit the event that follows the     *)
(* committed head, and that is so because its view was read under the lock.   *)

Locks ==
    /\ \A c \in Calls : pc[c] \in HoldsLock => holder[org[c]] = {c}
    /\ \A o \in Orgs : \A c \in holder[o] : pc[c] \in HoldsLock /\ org[c] = o

(* e is the event that comes next after o's committed head. *)
Follows(e, o) ==
    /\ e.organisation = o
    /\ e.sequence = NextSequence(head[o])
    /\ e.previous_hash = head[o].event_hash

(* What a call that holds the lock has in memory and in its transaction. *)
DraftOf(c) ==
    /\ pc[c] \in {"locked", "inserted"} => view[c] = head[org[c]]
    /\ pc[c] \in {"inserted", "saved"} =>
         \E e \in draft[c] : draft[c] = {e} /\ Follows(e, org[c])
    /\ pc[c] = "saved" => \A e \in draft[c] : view[c] = HeadAfter(e)
    /\ pc[c] \notin {"inserted", "saved"} => draft[c] = {}

Drafts == \A c \in Calls : DraftOf(c)

Chain ==
    /\ HeadTracksTail
    /\ \A o \in Orgs : head[o].sequence = 0 => head[o].event_hash = Genesis
    /\ \A o \in Orgs : IsFiniteSet(RowsOf(o)) /\ Cardinality(RowsOf(o)) = head[o].sequence

IInv == TInv /\ Locks /\ Drafts /\ Chain /\ NeverRefused

(* The hashes, when every time that is hashed is the time that is read back. *)
Sealed(e) ==
    e.event_hash =
        Digest(Content(e.organisation, e.sequence, e.occurred_at, e.call, e.previous_hash))

LinkedRows ==
    /\ \A e \in rows : Sealed(e)
    /\ \A e \in rows : e.sequence = 1 => e.previous_hash = Genesis
    /\ \A d, e \in rows :
         d.organisation = e.organisation /\ e.sequence = d.sequence + 1
             => e.previous_hash = d.event_hash

Links == LinkedRows /\ \A c \in Calls : \A e \in draft[c] : Sealed(e)

(* The times, when callers supply none. *)
Times ==
    /\ TimeFollowsSequence
    /\ \A e \in rows : e.occurred_at.instant <= clock
    /\ \A c \in Calls : \A e \in draft[c] :
         /\ e.occurred_at.instant <= clock
         /\ \A d \in RowsOf(e.organisation) : d.occurred_at.instant <= e.occurred_at.instant

-------------------------------------------------------------------------------
(* Only a commit changes what is committed. *)
LEMMA OnlyCommitPublishes ==
  ASSUME [Next]_vars, \A c \in Calls : ~Commit(c)
  PROVE  UNCHANGED <<headRows, head, rows>>
  BY DEF Next, Step, vars, database, Tick, Start, Begin, LockHead, MissHead, CreateHead,
         LoseCreate, InsertEvent, SaveHead, Return, Fail

(* A call that draws up an event holds the lock, so no other call of the same *)
(* organisation does.                                                         *)
LEMMA Alone ==
  ASSUME Locks, NEW c \in Calls, NEW d \in Calls, pc[c] \in HoldsLock, pc[d] \in HoldsLock,
         org[c] = org[d]
  PROVE  c = d
  BY DEF Locks

LEMMA LocksStep == IInv /\ [Next]_vars => Locks'
<1> SUFFICES ASSUME IInv, [Next]_vars PROVE Locks'
  OBVIOUS
<1> USE DEF IInv, TInv, TypeOK, Placed, Locks, HoldsLock
<1>1. CASE Tick
  BY <1>1 DEF Tick, database, memory
<1>2. ASSUME NEW c \in Calls, Start(c) PROVE Locks'
  BY <1>2 DEF Start, Goto, database
<1>3. ASSUME NEW c \in Calls, Begin(c) PROVE Locks'
  BY <1>3 DEF Begin, Goto, database
<1>4. ASSUME NEW c \in Calls, LockHead(c) PROVE Locks'
  <2>1. org[c] \in Orgs /\ holder[org[c]] = {} /\ pc[c] \notin HoldsLock
    BY <1>4 DEF LockHead, Acquire, Goto
  <2>2. \A d \in Calls : d # c /\ pc[d] \in HoldsLock => org[d] # org[c]
    BY <2>1
  <2>3. /\ pc' = [pc EXCEPT ![c] = "locked"] /\ org' = org
        /\ holder' = [holder EXCEPT ![org[c]] = {c}]
    BY <1>4 DEF LockHead, Acquire, Goto
  <2>4. QED
    BY <2>1, <2>2, <2>3
<1>5. ASSUME NEW c \in Calls, MissHead(c) PROVE Locks'
  BY <1>5 DEF MissHead, Goto, database, memory
<1>6. ASSUME NEW c \in Calls, CreateHead(c) PROVE Locks'
  <2>1. org[c] \in Orgs /\ holder[org[c]] = {} /\ pc[c] \notin HoldsLock
    BY <1>6 DEF CreateHead, Acquire, Goto
  <2>2. \A d \in Calls : d # c /\ pc[d] \in HoldsLock => org[d] # org[c]
    BY <2>1
  <2>3. /\ pc' = [pc EXCEPT ![c] = "locked"] /\ org' = org
        /\ holder' = [holder EXCEPT ![org[c]] = {c}]
    BY <1>6 DEF CreateHead, Acquire, Goto
  <2>4. QED
    BY <2>1, <2>2, <2>3
<1>7. ASSUME NEW c \in Calls, LoseCreate(c) PROVE Locks'
  BY <1>7 DEF LoseCreate, Goto, database, memory
<1>8. ASSUME NEW c \in Calls, InsertEvent(c) PROVE Locks'
  BY <1>8 DEF InsertEvent, database
<1>9. ASSUME NEW c \in Calls, SaveHead(c) PROVE Locks'
  BY <1>9 DEF SaveHead, Goto, database
<1>10. ASSUME NEW c \in Calls, Commit(c) PROVE Locks'
  BY <1>10 DEF Commit, Release, Goto
<1>11. ASSUME NEW c \in Calls, Return(c) PROVE Locks'
  BY <1>11 DEF Return, Goto, database, memory
<1>12. ASSUME NEW c \in Calls, Fail(c) PROVE Locks'
  BY <1>12 DEF Fail, Release
<1>13. CASE UNCHANGED vars
  BY <1>13 DEF vars
<1>14. QED
  BY <1>1, <1>2, <1>3, <1>4, <1>5, <1>6, <1>7, <1>8, <1>9, <1>10, <1>11, <1>12, <1>13
     DEF Next, Step

(* The next number is free: the unique index never refuses an event. *)
LEMMA NumberIsFree ==
  ASSUME IInv, NEW c \in Calls, pc[c] = "locked"
  PROVE  ~\E e \in RowsOf(org[c]) : e.sequence = NextSequence(view[c])
<1>1. org[c] \in Orgs /\ view[c] = head[org[c]] /\ head[org[c]].sequence \in Nat
  BY DEF IInv, TInv, TypeOK, Placed, Drafts, DraftOf, IsHead
<1>2. {e.sequence : e \in RowsOf(org[c])} = 1 .. head[org[c]].sequence
  BY <1>1 DEF IInv, Chain, HeadTracksTail
<1>3. \A e \in RowsOf(org[c]) : e.sequence \in 1 .. head[org[c]].sequence
  BY <1>2
<1>4. QED
  BY <1>1, <1>3 DEF NextSequence

LEMMA NeverRefusedStep == IInv /\ [Next]_vars => NeverRefused'
<1> SUFFICES ASSUME IInv, [Next]_vars, NEW c \in Calls PROVE pc'[c] # "refused"
  BY DEF NeverRefused
<1>1. pc[c] # "refused"
  BY DEF IInv, NeverRefused
<1>2. ASSUME NEW d \in Calls, InsertEvent(d) PROVE pc'[c] # "refused"
  BY <1>1, <1>2, NumberIsFree DEF InsertEvent, IInv, TInv, TypeOK
<1>3. CASE \A d \in Calls : ~InsertEvent(d)
  BY <1>1, <1>3 DEF Next, Step, vars, Goto, Tick, Start, Begin, LockHead, MissHead, CreateHead,
     LoseCreate, SaveHead, Commit, Return, Fail, IInv, TInv, TypeOK
<1>4. QED
  BY <1>2, <1>3

(* A step of another call, or of the clock, that leaves d's organisation alone. *)
LEMMA DraftKept ==
  ASSUME NEW d \in Calls, DraftOf(d), pc'[d] = pc[d], org'[d] = org[d], view'[d] = view[d],
         draft'[d] = draft[d],
         pc[d] \in {"locked", "inserted", "saved"} => head'[org[d]] = head[org[d]]
  PROVE  DraftOf(d)'
  BY DEF DraftOf, Follows

LEMMA DraftsStep == IInv /\ [Next]_vars => Drafts'
<1> SUFFICES ASSUME IInv, [Next]_vars PROVE Drafts'
  OBVIOUS
<1>a. TypeOK /\ Placed /\ \A d \in Calls : DraftOf(d)
  BY DEF IInv, TInv, Drafts
<1>1. CASE Tick
  BY <1>1, <1>a, DraftKept DEF Tick, database, memory, Drafts
<1>2. ASSUME NEW c \in Calls, Start(c) PROVE Drafts'
  <2>1. \A d \in Calls \ {c} : DraftOf(d)'
    BY <1>2, <1>a, DraftKept DEF Start, Goto, database, TypeOK
  <2>2. DraftOf(c)'
    BY <1>2, <1>a DEF Start, Goto, database, TypeOK, DraftOf
  <2>3. QED
    BY <2>1, <2>2 DEF Drafts
<1>3. ASSUME NEW c \in Calls, Begin(c) PROVE Drafts'
  <2>1. \A d \in Calls \ {c} : DraftOf(d)'
    BY <1>3, <1>a, DraftKept DEF Begin, Goto, database, TypeOK
  <2>2. DraftOf(c)'
    BY <1>3, <1>a DEF Begin, Goto, database, TypeOK, DraftOf
  <2>3. QED
    BY <2>1, <2>2 DEF Drafts
<1>4. ASSUME NEW c \in Calls, LockHead(c) PROVE Drafts'
  <2>1. \A d \in Calls \ {c} : DraftOf(d)'
    BY <1>4, <1>a, DraftKept DEF LockHead, Goto, TypeOK
  <2>2. DraftOf(c)'
    BY <1>4, <1>a DEF LockHead, Goto, TypeOK, DraftOf
  <2>3. QED
    BY <2>1, <2>2 DEF Drafts
<1>5. ASSUME NEW c \in Calls, MissHead(c) PROVE Drafts'
  <2>1. \A d \in Calls \ {c} : DraftOf(d)'
    BY <1>5, <1>a, DraftKept DEF MissHead, Goto, database, memory, TypeOK
  <2>2. DraftOf(c)'
    BY <1>5, <1>a DEF MissHead, Goto, database, memory, TypeOK, DraftOf
  <2>3. QED
    BY <2>1, <2>2 DEF Drafts
<1>6. ASSUME NEW c \in Calls, CreateHead(c) PROVE Drafts'
  <2>1. \A d \in Calls \ {c} : DraftOf(d)'
    BY <1>6, <1>a, DraftKept DEF CreateHead, Goto, TypeOK
  <2>2. org[c] \in Orgs /\ head[org[c]] = FreshHead
    BY <1>6, <1>a DEF CreateHead, Goto, Placed, IInv, Chain, HeadTracksTail
  <2>3. DraftOf(c)'
    BY <1>6, <1>a, <2>2 DEF CreateHead, Goto, TypeOK, DraftOf
  <2>4. QED
    BY <2>1, <2>3 DEF Drafts
<1>7. ASSUME NEW c \in Calls, LoseCreate(c) PROVE Drafts'
  <2>1. \A d \in Calls \ {c} : DraftOf(d)'
    BY <1>7, <1>a, DraftKept DEF LoseCreate, Goto, database, memory, TypeOK
  <2>2. DraftOf(c)'
    BY <1>7, <1>a DEF LoseCreate, Goto, database, memory, TypeOK, DraftOf
  <2>3. QED
    BY <2>1, <2>2 DEF Drafts
<1>8. ASSUME NEW c \in Calls, InsertEvent(c) PROVE Drafts'
  <2>1. /\ pc[c] = "locked" /\ view[c] = head[org[c]]
        /\ pc' = [pc EXCEPT ![c] = "inserted"]
        /\ UNCHANGED <<head, org, view>>
    BY <1>8, <1>a, NumberIsFree DEF InsertEvent, database, DraftOf
  <2>2. PICK at \in Readings \cup SuppliedStamps :
          draft' = [draft EXCEPT
            ![c] = {Event(org[c], NextSequence(view[c]), at, c, view[c].event_hash)}]
    BY <1>8, NumberIsFree DEF InsertEvent
  <2>3. \A d \in Calls \ {c} : DraftOf(d)'
    BY <2>1, <2>2, <1>a, DraftKept DEF TypeOK
  <2>4. Follows(Event(org[c], NextSequence(view[c]), at, c, view[c].event_hash), org[c])'
    BY <2>1 DEF Follows, Event, NextSequence
  <2>5. DraftOf(c)'
    BY <2>1, <2>2, <2>4, <1>a DEF DraftOf, TypeOK
  <2>6. QED
    BY <2>3, <2>5 DEF Drafts
<1>9. ASSUME NEW c \in Calls, SaveHead(c) PROVE Drafts'
  <2>1. \A d \in Calls \ {c} : DraftOf(d)'
    BY <1>9, <1>a, DraftKept DEF SaveHead, Goto, database, TypeOK
  <2>2. PICK e \in draft[c] : draft[c] = {e} /\ Follows(e, org[c])
    BY <1>9, <1>a DEF SaveHead, Goto, DraftOf
  <2>3. draft'[c] = {e} /\ view'[c] = HeadAfter(e) /\ pc'[c] = "saved" /\ UNCHANGED <<head, org>>
    BY <1>9, <1>a, <2>2 DEF SaveHead, Goto, database, TypeOK
  <2>4. DraftOf(c)'
    BY <2>2, <2>3 DEF DraftOf, Follows
  <2>5. QED
    BY <2>1, <2>4 DEF Drafts
<1>10. ASSUME NEW c \in Calls, Commit(c) PROVE Drafts'
  <2>1. ASSUME NEW d \in Calls \ {c}, pc[d] \in {"locked", "inserted", "saved"}
        PROVE  org[d] # org[c]
    BY <1>10, <2>1, Alone DEF Commit, Goto, HoldsLock, IInv
  <2>2. ASSUME NEW d \in Calls \ {c} PROVE DraftOf(d)'
    <3>1. pc[d] \in {"locked", "inserted", "saved"} => head'[org[d]] = head[org[d]]
      BY <1>10, <2>1, <1>a DEF Commit, TypeOK, Placed
    <3>2. pc'[d] = pc[d] /\ org'[d] = org[d] /\ view'[d] = view[d] /\ draft'[d] = draft[d]
      BY <1>10, <1>a DEF Commit, Goto, TypeOK
    <3>3. QED
      BY <3>1, <3>2, <1>a, DraftKept
  <2>3. DraftOf(c)'
    BY <1>10, <1>a DEF Commit, Goto, TypeOK, DraftOf
  <2>4. QED
    BY <2>2, <2>3 DEF Drafts
<1>11. ASSUME NEW c \in Calls, Return(c) PROVE Drafts'
  <2>1. \A d \in Calls \ {c} : DraftOf(d)'
    BY <1>11, <1>a, DraftKept DEF Return, Goto, database, memory, TypeOK
  <2>2. DraftOf(c)'
    BY <1>11, <1>a DEF Return, Goto, database, memory, TypeOK, DraftOf
  <2>3. QED
    BY <2>1, <2>2 DEF Drafts
<1>12. ASSUME NEW c \in Calls, Fail(c) PROVE Drafts'
  <2>1. \A d \in Calls \ {c} : DraftOf(d)'
    BY <1>12, <1>a, DraftKept DEF Fail, TypeOK
  <2>2. DraftOf(c)'
    BY <1>12, <1>a DEF Fail, TypeOK, DraftOf
  <2>3. QED
    BY <2>1, <2>2 DEF Drafts
<1>13. CASE UNCHANGED vars
  BY <1>13, <1>a, DraftKept DEF vars, Drafts
<1>14. QED
  BY <1>1, <1>2, <1>3, <1>4, <1>5, <1>6, <1>7, <1>8, <1>9, <1>10, <1>11, <1>12, <1>13
     DEF Next, Step

(* A commit adds to its organisation the event that follows the head, and *)
(* makes that event the head; the other organisations are left alone.     *)
LEMMA CommitAppends ==
  ASSUME IInv, NEW c \in Calls, Commit(c)
  PROVE  \E o \in Orgs : \E e \in draft[c] :
           /\ o = org[c] /\ Follows(e, o)
           /\ rows' = rows \cup {e}
           /\ head' = [head EXCEPT ![o] = HeadAfter(e)]
           /\ headRows' = headRows \cup {o}
           /\ RowsOf(o)' = RowsOf(o) \cup {e}
           /\ \A q \in Orgs \ {o} : RowsOf(q)' = RowsOf(q)
<1>1. PICK e \in draft[c] : draft[c] = {e} /\ Follows(e, org[c]) /\ view[c] = HeadAfter(e)
  BY DEF Commit, Goto, IInv, Drafts, DraftOf
<1>2. PICK o \in Orgs : o = org[c]
  BY DEF Commit, Goto, IInv, TInv, Placed
<1>3. /\ rows' = rows \cup {e}
      /\ head' = [head EXCEPT ![o] = HeadAfter(e)]
      /\ headRows' = headRows \cup {o}
  BY <1>1, <1>2 DEF Commit
<1>4. e.organisation = o
  BY <1>1, <1>2 DEF Follows
<1>5. RowsOf(o)' = RowsOf(o) \cup {e} /\ \A q \in Orgs \ {o} : RowsOf(q)' = RowsOf(q)
  BY <1>3, <1>4 DEF RowsOf
<1>6. QED
  BY <1>1, <1>2, <1>3, <1>5

LEMMA ChainStep == IInv /\ [Next]_vars => Chain'
<1> SUFFICES ASSUME IInv, [Next]_vars PROVE Chain'
  OBVIOUS
<1>a. Chain /\ TypeOK
  BY DEF IInv, TInv
<1>1. CASE \A c \in Calls : ~Commit(c)
  BY <1>1, <1>a, OnlyCommitPublishes DEF Chain, HeadTracksTail, RowsOf
<1>2. ASSUME NEW c \in Calls, Commit(c) PROVE Chain'
  <2>1. PICK o \in Orgs, e \in draft[c] :
           /\ Follows(e, o)
           /\ rows' = rows \cup {e}
           /\ head' = [head EXCEPT ![o] = HeadAfter(e)]
           /\ headRows' = headRows \cup {o}
           /\ RowsOf(o)' = RowsOf(o) \cup {e}
           /\ \A q \in Orgs \ {o} : RowsOf(q)' = RowsOf(q)
    BY <1>2, CommitAppends
  <2>2. /\ \A q \in Orgs \ {o} : head'[q] = head[q] /\ (q \in headRows' <=> q \in headRows)
        /\ head'[o].sequence = e.sequence /\ head'[o].event_hash = e.event_hash
        /\ o \in headRows'
    BY <2>1, <1>a DEF TypeOK, HeadAfter
  <2>3. e.sequence = head[o].sequence + 1 /\ head[o].sequence \in Nat
    BY <2>1, <1>a DEF Follows, NextSequence, TypeOK, IsHead
  <2>4. \A d \in RowsOf(o) : d.sequence \in 1 .. head[o].sequence
    BY <2>1, <1>a DEF Chain, HeadTracksTail
  <2>5. HeadTracksTail'
    <3>1. {d.sequence : d \in RowsOf(o)'} = 1 .. head'[o].sequence
      <4>1. {d.sequence : d \in RowsOf(o)'} = (1 .. head[o].sequence) \cup {e.sequence}
        BY <2>1, <1>a DEF Chain, HeadTracksTail
      <4>2. QED
        BY <4>1, <2>2, <2>3
    <3>2. \A d1, d2 \in RowsOf(o)' : d1.sequence = d2.sequence => d1 = d2
      BY <2>1, <2>3, <2>4, <1>a DEF Chain, HeadTracksTail
    <3>3. \A d \in RowsOf(o)' :
            d.sequence = head'[o].sequence => d.event_hash = head'[o].event_hash
      BY <2>1, <2>2, <2>3, <2>4
    <3>4. ASSUME NEW q \in Orgs \ {o}
          PROVE  /\ {d.sequence : d \in RowsOf(q)'} = 1 .. head'[q].sequence
                 /\ \A d1, d2 \in RowsOf(q)' : d1.sequence = d2.sequence => d1 = d2
                 /\ \A d \in RowsOf(q)' :
                      d.sequence = head'[q].sequence => d.event_hash = head'[q].event_hash
                 /\ q \notin headRows' => head'[q] = FreshHead
      BY <2>1, <2>2, <1>a DEF Chain, HeadTracksTail
    <3>5. QED
      BY <3>1, <3>2, <3>3, <3>4, <2>2 DEF HeadTracksTail
  <2>6. \A q \in Orgs : head'[q].sequence = 0 => head'[q].event_hash = Genesis
    BY <2>2, <2>3, <1>a DEF Chain
  <2>7. IsFiniteSet(RowsOf(o)') /\ Cardinality(RowsOf(o)') = head'[o].sequence
    <3>1. e \notin RowsOf(o)
      BY <2>3, <2>4
    <3>2. QED
      BY <3>1, <2>1, <2>2, <2>3, <1>a, FS_AddElement DEF Chain
  <2>8. \A q \in Orgs : IsFiniteSet(RowsOf(q)') /\ Cardinality(RowsOf(q)') = head'[q].sequence
    <3>1. ASSUME NEW q \in Orgs \ {o}
          PROVE  IsFiniteSet(RowsOf(q)') /\ Cardinality(RowsOf(q)') = head'[q].sequence
      BY <2>1, <2>2, <1>a DEF Chain
    <3>2. QED
      BY <2>7, <3>1
  <2>9. QED
    BY <2>5, <2>6, <2>8 DEF Chain
<1>3. QED
  BY <1>1, <1>2

LEMMA IInvInit == Init => IInv
<1> SUFFICES ASSUME Init PROVE IInv
  OBVIOUS
<1>1. TInv
  BY TypeInit DEF Init, TInv, Placed
<1>2. Locks /\ Drafts /\ NeverRefused
  BY DEF Init, Locks, HoldsLock, Drafts, DraftOf, NeverRefused
<1>3. \A o \in Orgs : RowsOf(o) = {} /\ head[o] = FreshHead /\ head[o].sequence = 0
                        /\ head[o].event_hash = Genesis
  BY DEF Init, RowsOf, FreshHead
<1>4. Chain
  <2>1. \A o \in Orgs : {e.sequence : e \in RowsOf(o)} = 1 .. head[o].sequence
    BY <1>3
  <2>2. QED
    BY <1>3, <2>1, FS_EmptySet DEF Chain, HeadTracksTail
<1>5. QED
  BY <1>1, <1>2, <1>4 DEF IInv

LEMMA IInvStep == IInv /\ [Next]_vars => IInv'
  BY TypeStep, LocksStep, DraftsStep, ChainStep, NeverRefusedStep DEF IInv

LEMMA IInvAlways == Spec => []IInv
  BY IInvInit, IInvStep, PTL DEF Spec

(* The committed events of every organisation are numbered without a gap or a *)
(* fork and its head points at the last one.                                  *)
THEOREM HeadCorrect == Spec => []HeadTracksTail
<1>1. IInv => HeadTracksTail
  BY DEF IInv, Chain
<1>2. QED
  BY <1>1, IInvAlways, PTL

(* The head's lock alone is enough: the unique index never refuses an event. *)
THEOREM IndexIdle == Spec => []NeverRefused
<1>1. IInv => NeverRefused
  BY DEF IInv
<1>2. QED
  BY <1>1, IInvAlways, PTL

(* Whoever holds a head's lock is alone and works on the committed head. *)
THEOREM LockIsGood == Spec => []LockedViewIsCurrent
<1>1. IInv => LockedViewIsCurrent
  BY DEF IInv, Locks, HoldsLock, Drafts, DraftOf, LockedViewIsCurrent
<1>2. QED
  BY <1>1, IInvAlways, PTL

(* The calls that c's next statement waits for: whoever has the row lock of   *)
(* its head, or is creating that head, or has inserted the same number.       *)
WaitsFor(c) ==
    CASE pc[c] \in {"get", "refetch"} /\ org[c] \in headRows -> holder[org[c]] \ {c}
      [] pc[c] = "create" /\ org[c] \notin headRows -> holder[org[c]] \ {c}
      [] pc[c] = "locked" ->
           {b \in Calls \ {c} : \E e \in draft[b] :
              e.organisation = org[c] /\ e.sequence = NextSequence(view[c])}
      [] OTHER -> {}

(* A user's organisations are appended to in no stated order, and two users'  *)
(* in different ones, yet no set of calls waits for each other: a head's lock *)
(* is not held while the next is asked for, each append being a transaction   *)
(* of its own, and the event's unique index is reached under the lock alone.  *)
NoDeadlock ==
    \A S \in SUBSET Calls : S # {} => \E c \in S : WaitsFor(c) \cap S = {}

(* Whoever has the lock waits for nobody: another call with an event of its   *)
(* organisation would have the same lock.                                     *)
LEMMA HolderWaitsForNobody ==
  ASSUME IInv, NEW c \in Calls, pc[c] \in HoldsLock
  PROVE  WaitsFor(c) = {}
<1>1. CASE pc[c] = "locked"
  <2>1. ASSUME NEW b \in Calls \ {c}, NEW e \in draft[b], e.organisation = org[c] PROVE FALSE
    <3>1. pc[b] \in HoldsLock /\ org[b] = org[c]
      BY <2>1 DEF IInv, Drafts, DraftOf, Follows, HoldsLock
    <3>2. QED
      BY <3>1, Alone DEF IInv
  <2>2. QED
    BY <1>1, <2>1 DEF WaitsFor
<1>2. CASE pc[c] # "locked"
  BY <1>2 DEF WaitsFor, HoldsLock
<1>3. QED
  BY <1>1, <1>2

(* Only a holder is waited for. *)
LEMMA HolderIsWaitedFor ==
  ASSUME IInv, NEW c \in Calls, NEW b \in WaitsFor(c)
  PROVE  b \in Calls /\ pc[b] \in HoldsLock
<1>1. pc[c] \notin HoldsLock
  BY HolderWaitsForNobody
<1>2. b \in holder[org[c]] /\ org[c] \in Orgs
  BY <1>1 DEF WaitsFor, HoldsLock, IInv, TInv, Placed
<1>3. QED
  BY <1>2 DEF IInv, TInv, TypeOK, Locks

(* Appends of any number of calls to any organisations never deadlock. *)
THEOREM AppendsNeverDeadlock == Spec => []NoDeadlock
<1>1. IInv => NoDeadlock
  <2> SUFFICES ASSUME IInv, NEW S \in SUBSET Calls, S # {}
               PROVE  \E c \in S : WaitsFor(c) \cap S = {}
    BY DEF NoDeadlock
  <2>1. PICK c \in S : TRUE
    OBVIOUS
  <2>2. CASE WaitsFor(c) \cap S # {}
    <3>1. PICK b \in S : b \in WaitsFor(c)
      BY <2>2
    <3>2. WaitsFor(b) = {}
      BY <3>1, HolderIsWaitedFor, HolderWaitsForNobody
    <3>3. QED
      BY <3>2
  <2>3. QED
    BY <2>2
<1>2. QED
  BY <1>1, IInvAlways, PTL

-------------------------------------------------------------------------------
(* What verify_chain finds *)

(* Every time a caller supplies is already in UTC. *)
UtcStamps == \A at \in SuppliedStamps : at.zone = "utc"

(* A UTC time is read back as it was hashed. *)
LEMMA EventIsSealed ==
  ASSUME NEW at \in Stamps, at.zone = "utc", NEW o, NEW n, NEW c, NEW p
  PROVE  Sealed(Event(o, n, at, c, p))
<1>1. ReadBack(at) = at
  BY DEF ReadBack, Stamps
<1>2. QED
  BY <1>1 DEF Sealed, Event

LEMMA LinksStep == UtcStamps /\ IInv /\ Links /\ [Next]_vars => Links'
<1> SUFFICES ASSUME UtcStamps, IInv, Links, [Next]_vars PROVE Links'
  OBVIOUS
<1>a. TypeOK /\ Placed
  BY DEF IInv, TInv
<1>1. \A c \in Calls : \A e \in draft'[c] : Sealed(e)
  <2>1. ASSUME NEW d \in Calls, InsertEvent(d), NEW c \in Calls, NEW e \in draft'[c]
        PROVE  Sealed(e)
    <3>1. \A at \in Readings \cup SuppliedStamps : at \in Stamps /\ at.zone = "utc"
      BY <1>a, StampsAssumption DEF UtcStamps, Readings, Stamps, Zones, TypeOK
    <3>2. \/ draft' = draft
          \/ \E at \in Readings \cup SuppliedStamps : draft' = [draft EXCEPT
               ![d] = {Event(org[d], NextSequence(view[d]), at, d, view[d].event_hash)}]
      BY <2>1 DEF InsertEvent
    <3>3. e \in draft[c] \/ \E at \in Readings \cup SuppliedStamps :
             e = Event(org[d], NextSequence(view[d]), at, d, view[d].event_hash)
      BY <3>2, <2>1, <1>a DEF TypeOK
    <3>4. QED
      BY <3>1, <3>3, EventIsSealed DEF Links
  <2>2. CASE \A d \in Calls : ~InsertEvent(d)
    <3>1. \A c \in Calls : draft'[c] \in {draft[c], {}}
      BY <2>2, <1>a DEF TypeOK, Next, Step, vars, memory, Tick, Start, Begin, LockHead,
         MissHead, CreateHead, LoseCreate, SaveHead, Commit, Return, Fail
    <3>2. QED
      BY <3>1 DEF Links
  <2>3. QED
    BY <2>1, <2>2
<1>2. LinkedRows'
  <2>1. CASE \A c \in Calls : ~Commit(c)
    BY <2>1, OnlyCommitPublishes DEF Links, LinkedRows, Sealed
  <2>2. ASSUME NEW c \in Calls, Commit(c) PROVE LinkedRows'
    <3>1. PICK o \in Orgs, n \in draft[c] : Follows(n, o) /\ rows' = rows \cup {n}
      BY <2>2, CommitAppends
    <3>2. Sealed(n) /\ IsEvent(n)
      BY <3>1, <1>a DEF Links, TypeOK
    <3>3. /\ head[o].sequence \in Nat /\ n.sequence = head[o].sequence + 1
          /\ n.organisation = o /\ n.previous_hash = head[o].event_hash
      BY <3>1, <1>a DEF Follows, NextSequence, TypeOK, IsHead
    <3>4. \A d \in rows : d.organisation = o =>
            /\ d.sequence \in 1 .. head[o].sequence
            /\ d.sequence = head[o].sequence => d.event_hash = head[o].event_hash
      BY DEF IInv, Chain, HeadTracksTail, RowsOf
    <3>5. n.sequence = 1 => n.previous_hash = Genesis
      BY <3>3 DEF IInv, Chain
    <3>6. \A d \in rows : d.organisation = o => d.sequence + 1 # n.sequence
             \/ n.previous_hash = d.event_hash
      BY <3>3, <3>4
    <3>7. \A e \in rows \cup {n} : e.organisation = o => e.sequence # n.sequence + 1
      BY <3>3, <3>4
    <3>8. QED
      BY <3>1, <3>2, <3>3, <3>5, <3>6, <3>7 DEF Links, LinkedRows, Sealed
  <2>3. QED
    BY <2>1, <2>2
<1>3. QED
  BY <1>1, <1>2 DEF Links, Sealed

(* In a linked chain the hash verify_chain carries to a row is the row's own. *)
LEMMA PreviousHashIsStored ==
  ASSUME Chain, Links, TypeOK, NEW o \in Orgs, NEW e \in RowsOf(o)
  PROVE  PreviousHash(RowsOf(o), e) = e.previous_hash
<1>1. /\ e \in rows /\ e.organisation = o /\ RowsOf(e.organisation) = RowsOf(o)
      /\ head[o].sequence \in Nat
      /\ {d.sequence : d \in RowsOf(o)} = 1 .. head[o].sequence
  BY DEF RowsOf, Chain, HeadTracksTail, TypeOK, IsHead
<1>2. \A d \in RowsOf(o) : d.sequence \in 1 .. head[o].sequence
  BY <1>1
<1>3. CASE e.sequence = 1
  <2>1. Earlier(RowsOf(o), e) = {}
    BY <1>1, <1>2, <1>3 DEF Earlier
  <2>2. e.previous_hash = Genesis
    BY <1>1, <1>3 DEF Links, LinkedRows
  <2>3. QED
    BY <2>1, <2>2 DEF PreviousHash
<1>4. CASE e.sequence # 1
  <2>1. e.sequence - 1 \in 1 .. head[o].sequence /\ e.sequence \in Nat
    BY <1>1, <1>2, <1>4
  <2>2. PICK p \in RowsOf(o) : p.sequence = e.sequence - 1
    BY <1>1, <2>1
  <2>3. p \in Earlier(RowsOf(o), e) /\ \A x \in Earlier(RowsOf(o), e) : x.sequence <= p.sequence
    BY <1>1, <1>2, <2>1, <2>2 DEF Earlier
  <2>4. ASSUME NEW d \in Earlier(RowsOf(o), e), \A x \in Earlier(RowsOf(o), e) : x.sequence <= d.sequence
        PROVE  d = p
    <3>1. d \in RowsOf(o) /\ d.sequence <= p.sequence /\ p.sequence <= d.sequence
      BY <1>1, <2>3, <2>4 DEF Earlier
    <3>2. d.sequence = p.sequence
      BY <3>1, <1>2
    <3>3. QED
      BY <3>1, <3>2 DEF Chain, HeadTracksTail
  <2>5. (CHOOSE d \in Earlier(RowsOf(o), e) : \A x \in Earlier(RowsOf(o), e) : x.sequence <= d.sequence) = p
    BY <2>3, <2>4
  <2>6. PreviousHash(RowsOf(o), e) = p.event_hash
    BY <2>3, <2>5 DEF PreviousHash
  <2>7. p \in rows /\ p.organisation = e.organisation /\ e.sequence = p.sequence + 1
    BY <1>1, <2>1, <2>2 DEF RowsOf
  <2>8. QED
    BY <1>1, <2>6, <2>7 DEF Links, LinkedRows
<1>5. QED
  BY <1>3, <1>4

(* verify_chain accepts every organisation's log, at its full length, for any *)
(* number of organisations and of racing and failing appends, as long as no   *)
(* caller supplies a time in another zone than UTC.                           *)
THEOREM ChainCorrect == ASSUME UtcStamps PROVE Spec => []ChainVerifies
<1>1. Init => Links
  BY DEF Init, Links, LinkedRows
<1>2. IInv /\ Links /\ [Next]_vars => Links'
  BY LinksStep
<1>3. IInv /\ Links => ChainVerifies
  <2> SUFFICES ASSUME IInv, Links, NEW o \in Orgs
               PROVE  VerifyChain(o) = [valid |-> TRUE, checked |-> head[o].sequence,
                                        first_invalid |-> 0]
    BY DEF ChainVerifies
  <2>1. \A e \in RowsOf(o) : Fits(RowsOf(o), e)
    <3> SUFFICES ASSUME NEW e \in RowsOf(o) PROVE Fits(RowsOf(o), e)
      OBVIOUS
    <3>1. PreviousHash(RowsOf(o), e) = e.previous_hash
      BY PreviousHashIsStored DEF IInv, TInv
    <3>2. Sealed(e)
      BY DEF Links, LinkedRows, RowsOf
    <3>3. QED
      BY <3>1, <3>2 DEF Fits, Sealed, ContentOf
  <2>2. Misfits(RowsOf(o)) = {}
    BY <2>1 DEF Misfits
  <2>3. QED
    BY <2>2 DEF VerifyChain, VerifyRows, IInv, Chain
<1>4. QED
  BY <1>1, <1>2, <1>3, IInvAlways, PTL DEF Spec

-------------------------------------------------------------------------------
(* The order of the times *)

LEMMA TimesStep == SuppliedStamps = {} /\ IInv /\ Times /\ [Next]_vars => Times'
<1> SUFFICES ASSUME SuppliedStamps = {}, IInv, Times, [Next]_vars PROVE Times'
  OBVIOUS
<1>a. /\ TypeOK /\ Placed /\ clock \in Nat /\ clock' \in Nat
      /\ \A e \in rows : e.occurred_at.instant \in Nat
      /\ \A c \in Calls : \A e \in draft[c] : e.occurred_at.instant \in Nat
  BY TypeStep DEF IInv, TInv, TypeOK, IsEvent
<1>b. clock <= clock'
  BY <1>a DEF Next, Step, vars, database, memory, Tick, Start, Begin, LockHead, MissHead, CreateHead,
     LoseCreate, InsertEvent, SaveHead, Commit, Return, Fail
<1>1. CASE /\ \A c \in Calls : ~Commit(c) /\ ~InsertEvent(c)
  <2>1. UNCHANGED rows
    BY <1>1, OnlyCommitPublishes
  <2>2. \A c \in Calls : draft'[c] \in {draft[c], {}}
    BY <1>1, <1>a DEF TypeOK, Next, Step, vars, memory, Tick, Start, Begin, LockHead,
         MissHead, CreateHead, LoseCreate, SaveHead, Return, Fail
  <2>3. \A c \in Calls : \A e \in draft'[c] : e \in draft[c]
    BY <2>2
  <2>4. \A e \in rows : e.occurred_at.instant <= clock'
    BY <1>a, <1>b DEF Times
  <2>5. \A c \in Calls : \A e \in draft'[c] : e.occurred_at.instant <= clock'
    BY <1>a, <1>b, <2>3 DEF Times
  <2>6. QED
    BY <2>1, <2>3, <2>4, <2>5 DEF Times, TimeFollowsSequence, RowsOf
<1>2. ASSUME NEW c \in Calls, InsertEvent(c) PROVE Times'
  <2>1. /\ UNCHANGED <<rows, clock>>
        /\ \A d \in Calls : \A e \in draft'[d] :
             e \in draft[d] \/ e.occurred_at.instant = clock
    BY <1>2, <1>a DEF InsertEvent, database, TypeOK, Readings, Event, ReadBack
  <2>2. \A d \in Calls : \A e \in draft'[d] : e.occurred_at.instant <= clock
    BY <2>1, <1>a DEF Times
  <2>3. \A d \in Calls : \A e \in draft'[d] :
          \A r \in RowsOf(e.organisation) : r.occurred_at.instant <= e.occurred_at.instant
    BY <2>1, <1>a DEF Times, RowsOf
  <2>4. QED
    BY <2>1, <2>2, <2>3 DEF Times, TimeFollowsSequence, RowsOf
<1>3. ASSUME NEW c \in Calls, Commit(c) PROVE Times'
  <2>1. PICK o \in Orgs, n \in draft[c] :
          /\ Follows(n, o) /\ o = org[c] /\ rows' = rows \cup {n}
    BY <1>3, CommitAppends
  <2>2. /\ clock' = clock /\ draft'[c] = {}
        /\ \A d \in Calls \ {c} : draft'[d] = draft[d] /\ pc'[d] = pc[d] /\ org'[d] = org[d]
    BY <1>3, <1>a DEF Commit, Goto, TypeOK
  <2>3. /\ n.organisation = o /\ n.occurred_at.instant <= clock
        /\ n.sequence = head[o].sequence + 1 /\ head[o].sequence \in Nat
        /\ \A r \in RowsOf(o) : r.occurred_at.instant <= n.occurred_at.instant
    BY <2>1, <1>a DEF Times, Follows, NextSequence, TypeOK, IsHead
  <2>4. \A r \in RowsOf(o) : r.sequence \in 1 .. head[o].sequence
    BY <2>1 DEF IInv, Chain, HeadTracksTail
  <2>5. TimeFollowsSequence'
    BY <2>1, <2>3, <2>4, <1>a DEF Times, TimeFollowsSequence, RowsOf
  <2>6. \A d \in Calls \ {c} : \A e \in draft[d] : e.organisation # o
    <3> SUFFICES ASSUME NEW d \in Calls \ {c}, NEW e \in draft[d] PROVE e.organisation # o
      OBVIOUS
    <3>1. pc[d] \in {"inserted", "saved"} /\ e.organisation = org[d]
      BY DEF IInv, Drafts, DraftOf, Follows
    <3>2. org[d] # org[c]
      BY <1>3, <3>1, Alone DEF Commit, Goto, HoldsLock, IInv
    <3>3. QED
      BY <3>1, <3>2, <2>1
  <2>7. \A d \in Calls : \A e \in draft'[d] :
          /\ e.occurred_at.instant <= clock
          /\ \A r \in RowsOf(e.organisation)' : r.occurred_at.instant <= e.occurred_at.instant
    BY <2>1, <2>2, <2>3, <2>6 DEF Times, RowsOf
  <2>8. QED
    BY <2>1, <2>2, <2>3, <2>5, <2>7 DEF Times
<1>4. QED
  BY <1>1, <1>2, <1>3

(* When the service reads the clock itself, as it does for every caller, the *)
(* order of the sequence numbers is the order of the times.                   *)
THEOREM TimesInOrder == ASSUME SuppliedStamps = {} PROVE Spec => []TimeFollowsSequence
<1>1. Init => Times
  BY DEF Init, Times, TimeFollowsSequence, RowsOf
<1>2. IInv /\ Times /\ [Next]_vars => Times'
  BY TimesStep
<1>3. Times => TimeFollowsSequence
  BY DEF Times
<1>4. QED
  BY <1>1, <1>2, <1>3, IInvAlways, PTL DEF Spec

-------------------------------------------------------------------------------
(* Least and greatest row of a set *)

Less == {p \in Nat \X Nat : p[1] < p[2]}

LEMMA LessIsWellFounded == IsWellFoundedOn(Less, Nat)
  BY NatLessThanWellFounded, Zenon DEF OpToRel, Less

LEMMA LeastNumber ==
  ASSUME NEW T \in SUBSET Nat, T # {}
  PROVE  \E x \in T : \A y \in T : x <= y
<1>1. PICK x \in T : \A y \in T : <<y, x>> \notin Less
  BY LessIsWellFounded, WFMin, Zenon
<1>2. \A y \in T : ~(y < x)
  BY <1>1 DEF Less
<1>3. QED
  BY <1>2

Numbered(S) == \A e \in S : e.sequence \in Nat

LEMMA LeastRow ==
  ASSUME NEW S, Numbered(S), S # {}
  PROVE  \E e \in S : \A d \in S : e.sequence <= d.sequence
<1>1. PICK n \in {e.sequence : e \in S} : \A k \in {e.sequence : e \in S} : n <= k
  BY LeastNumber DEF Numbered
<1>2. QED
  BY <1>1

(* On reaching e the loop carries the hash of the last row before it. *)
LEMMA Carried ==
  ASSUME NEW S, Numbered(S), NEW e, e.sequence \in Nat
  PROVE  \/ Earlier(S, e) = {} /\ PreviousHash(S, e) = Genesis
         \/ \E d \in Earlier(S, e) :
              /\ \A x \in Earlier(S, e) : x.sequence <= d.sequence
              /\ PreviousHash(S, e) = d.event_hash
<1>1. CASE Earlier(S, e) = {}
  BY <1>1 DEF PreviousHash
<1>2. CASE Earlier(S, e) # {}
  <2>1. PICK n \in {e.sequence - d.sequence : d \in Earlier(S, e)} :
           \A k \in {e.sequence - d.sequence : d \in Earlier(S, e)} : n <= k
    <3>1. {e.sequence - d.sequence : d \in Earlier(S, e)} \in SUBSET Nat
      BY DEF Earlier, Numbered
    <3>2. QED
      BY <3>1, <1>2, LeastNumber
  <2>2. \E d \in Earlier(S, e) : \A x \in Earlier(S, e) : x.sequence <= d.sequence
    <3>1. PICK d \in Earlier(S, e) : n = e.sequence - d.sequence
      BY <2>1
    <3>2. ASSUME NEW x \in Earlier(S, e) PROVE x.sequence <= d.sequence
      <4>1. n <= e.sequence - x.sequence
        BY <2>1
      <4>2. QED
        BY <3>1, <4>1 DEF Earlier, Numbered
    <3>3. QED
      BY <3>2
  <2>3. QED
    BY <1>2, <2>2 DEF PreviousHash
<1>3. QED
  BY <1>1, <1>2

(* The verdict is about the first misfit. *)
LEMMA FirstMisfit ==
  ASSUME NEW S, Numbered(S), NEW e \in Misfits(S),
         \A d \in Misfits(S) : e.sequence <= d.sequence
  PROVE  VerifyRows(S).valid = FALSE /\ VerifyRows(S).first_invalid = e.sequence
<1> DEFINE Min(x) == x \in Misfits(S) /\ \A d \in Misfits(S) : x.sequence <= d.sequence
           first == CHOOSE x \in Misfits(S) : \A d \in Misfits(S) : x.sequence <= d.sequence
<1>1. first \in Misfits(S) /\ \A d \in Misfits(S) : first.sequence <= d.sequence
  OBVIOUS
<1>2. first.sequence = e.sequence
  BY <1>1 DEF Misfits, Numbered
<1>3. QED
  BY <1>2 DEF VerifyRows

LEMMA NoMisfit ==
  ASSUME NEW S, Misfits(S) = {}
  PROVE  VerifyRows(S).valid = TRUE /\ VerifyRows(S).first_invalid = 0
  BY DEF VerifyRows

LEMMA ValidMeansNoMisfit ==
  ASSUME NEW S, Numbered(S), VerifyRows(S).valid
  PROVE  Misfits(S) = {}
<1> SUFFICES ASSUME Misfits(S) # {} PROVE FALSE
  OBVIOUS
<1>1. PICK e \in Misfits(S) : \A d \in Misfits(S) : e.sequence <= d.sequence
  BY LeastRow DEF Numbered, Misfits
<1>2. QED
  BY <1>1, FirstMisfit

(* Whether a row fits depends on the rows before it only. *)
LEMMA FitsByEarlier ==
  ASSUME NEW S, NEW T, NEW e, Earlier(S, e) = Earlier(T, e)
  PROVE  PreviousHash(S, e) = PreviousHash(T, e) /\ (Fits(S, e) <=> Fits(T, e))
  BY DEF PreviousHash, Fits

-------------------------------------------------------------------------------
(* A log as the service writes it *)

GoodLog(L, n) ==
    /\ n \in Nat
    /\ {e.sequence : e \in L} = 1 .. n
    /\ \A e \in L : IsEvent(e) /\ Sealed(e)
    /\ \A d, e \in L : d.sequence = e.sequence => d = e
    /\ \A e \in L : e.sequence = 1 => e.previous_hash = Genesis
    /\ \A d, e \in L : e.sequence = d.sequence + 1 => e.previous_hash = d.event_hash
    /\ \A e \in L : PreviousHash(L, e) = e.previous_hash

LEMMA CommittedIsGood ==
  ASSUME IInv, Links, NEW o \in Orgs
  PROVE  GoodLog(RowsOf(o), head[o].sequence)
<1>1. /\ TypeOK /\ head[o].sequence \in Nat
      /\ \A e \in RowsOf(o) : e \in rows /\ e.organisation = o
  BY DEF IInv, TInv, TypeOK, IsHead, RowsOf
<1>2. \A e \in RowsOf(o) : PreviousHash(RowsOf(o), e) = e.previous_hash
  BY <1>1, PreviousHashIsStored DEF IInv
<1>3. \A e \in RowsOf(o) : IsEvent(e) /\ Sealed(e)
  BY <1>1 DEF TypeOK, Links, LinkedRows
<1>4. QED
  BY <1>1, <1>2, <1>3 DEF GoodLog, IInv, Chain, HeadTracksTail, Links, LinkedRows

LEMMA GoodLogNumbers ==
  ASSUME NEW L, NEW n, GoodLog(L, n)
  PROVE  /\ \A e \in L : e.sequence \in 1 .. n
         /\ \A k \in 1 .. n : \E e \in L : e.sequence = k
  BY DEF GoodLog

(* SHA-256 taken as injective: different rows have different hashes. *)
LEMMA HashesDiffer ==
  ASSUME NEW L, NEW n, GoodLog(L, n), NEW d \in L, NEW e \in L, d.event_hash = e.event_hash
  PROVE  d = e
<1>1. Content(d.organisation, d.sequence, d.occurred_at, d.call, d.previous_hash)
      = Content(e.organisation, e.sequence, e.occurred_at, e.call, e.previous_hash)
  BY DEF GoodLog, Sealed, Digest
<1>2. d.sequence = e.sequence
  BY <1>1 DEF Content
<1>3. QED
  BY <1>2 DEF GoodLog

LEMMA HashIsNotGenesis ==
  ASSUME NEW L, NEW n, GoodLog(L, n), NEW e \in L
  PROVE  e.event_hash # Genesis
  BY DEF GoodLog, Sealed, Digest, Genesis

(* A part of the log without a hole is accepted. *)
LEMMA PrefixPasses ==
  ASSUME NEW L, NEW n, GoodLog(L, n), NEW S \in SUBSET L,
         \A e \in S : Earlier(L, e) \subseteq S
  PROVE  VerifyRows(S).valid
<1>1. ASSUME NEW e \in S PROVE Fits(S, e)
  <2>1. Earlier(S, e) = Earlier(L, e)
    BY DEF Earlier
  <2>2. PreviousHash(S, e) = e.previous_hash
    BY <2>1, FitsByEarlier DEF GoodLog
  <2>3. QED
    BY <2>2 DEF Fits, ContentOf, GoodLog, Sealed
<1>2. QED
  BY <1>1, NoMisfit DEF Misfits

(* The first row after a hole does not fit. *)
LEMMA HoleFound ==
  ASSUME NEW L, NEW n, GoodLog(L, n), NEW S \in SUBSET L,
         NEW e \in S, NEW d \in Earlier(L, e), d \notin S
  PROVE  ~VerifyRows(S).valid
<1>1. Numbered(L) /\ Numbered(S) /\ d \in L /\ d.sequence < e.sequence
  BY GoodLogNumbers DEF Numbered, Earlier
<1>2. PICK r \in {x \in S : d.sequence < x.sequence} :
        \A y \in {x \in S : d.sequence < x.sequence} : r.sequence <= y.sequence
  BY <1>1, LeastRow DEF Numbered
<1>3. PICK p \in L : p.sequence = r.sequence - 1
  <2>1. r \in L /\ d.sequence < r.sequence /\ n \in Nat
    BY <1>2 DEF GoodLog
  <2>2. r.sequence \in 1 .. n /\ d.sequence \in 1 .. n
    BY <1>1, <2>1, GoodLogNumbers
  <2>3. r.sequence - 1 \in 1 .. n
    BY <2>1, <2>2
  <2>4. QED
    BY <2>3, GoodLogNumbers
<1>4. p \notin S
  BY <1>1, <1>2, <1>3 DEF Numbered, GoodLog
<1>5. r.previous_hash = p.event_hash
  BY <1>1, <1>2, <1>3 DEF Numbered, GoodLog
<1>6. PreviousHash(S, r) # p.event_hash
  <2>1. \/ PreviousHash(S, r) = Genesis
        \/ \E f \in S : PreviousHash(S, r) = f.event_hash
    BY <1>1, <1>2, Carried DEF Numbered, Earlier
  <2>2. QED
    BY <2>1, <1>3, <1>4, HashesDiffer, HashIsNotGenesis
<1>7. r \in Misfits(S)
  BY <1>2, <1>5, <1>6 DEF Misfits, Fits
<1>8. QED
  BY <1>1, <1>7, ValidMeansNoMisfit

(* verify_chain accepts exactly the initial parts of what was committed. *)
THEOREM TailLossOnly == ASSUME UtcStamps PROVE Spec => []OnlyTailLossPasses
<1>1. Init => Links
  BY DEF Init, Links, LinkedRows
<1>2. IInv /\ Links => OnlyTailLossPasses
  BY CommittedIsGood, PrefixPasses, HoleFound DEF OnlyTailLossPasses
<1>3. QED
  BY <1>1, <1>2, LinksStep, IInvAlways, PTL DEF Spec

-------------------------------------------------------------------------------
(* Rows that were rewritten *)

(* f stands in the place of e. *)
InPlaceOf(f, e) == f.organisation = e.organisation /\ f.sequence = e.sequence

Swapped(L, e, f) == (L \ {e}) \cup {f}

(* Before the place nothing changes, and f is reached with e's carried hash. *)
LEMMA BeforeThePlace ==
  ASSUME NEW L, NEW n, GoodLog(L, n), NEW e \in L, NEW f, InPlaceOf(f, e)
  PROVE  /\ Numbered(Swapped(L, e, f))
         /\ PreviousHash(Swapped(L, e, f), f) = e.previous_hash
         /\ \A x \in Swapped(L, e, f) : x.sequence < e.sequence => Fits(Swapped(L, e, f), x)
<1> DEFINE T == Swapped(L, e, f)
<1>1. Numbered(L) /\ Numbered(T)
  BY GoodLogNumbers DEF Numbered, Swapped, InPlaceOf
<1>2. Earlier(T, f) = Earlier(L, e)
  BY <1>1 DEF Earlier, Swapped, InPlaceOf, Numbered
<1>3. PreviousHash(T, f) = e.previous_hash
  BY <1>2 DEF PreviousHash, GoodLog
<1>4. ASSUME NEW x \in T, x.sequence < e.sequence PROVE Fits(T, x)
  <2>1. x \in L
    BY <1>1, <1>4 DEF Swapped, InPlaceOf, Numbered
  <2>2. Earlier(T, x) = Earlier(L, x)
    BY <1>1, <1>4, <2>1 DEF Earlier, Swapped, InPlaceOf, Numbered
  <2>3. Fits(L, x)
    BY <2>1 DEF Fits, ContentOf, GoodLog, Sealed
  <2>4. QED
    BY <2>2, <2>3, FitsByEarlier
<1>5. QED
  BY <1>1, <1>3, <1>4

(* A misfit in the place of e is the one reported. *)
LEMMA ReportedInPlace ==
  ASSUME NEW L, NEW n, GoodLog(L, n), NEW e \in L, NEW f, InPlaceOf(f, e),
         ~Fits(Swapped(L, e, f), f)
  PROVE  VerifyRows(Swapped(L, e, f)).first_invalid = e.sequence
<1> DEFINE T == Swapped(L, e, f)
<1>1. Numbered(T) /\ \A x \in T : x.sequence < e.sequence => Fits(T, x)
  BY BeforeThePlace
<1>2. f \in Misfits(T) /\ f.sequence = e.sequence /\ e.sequence \in Nat
  BY GoodLogNumbers DEF Misfits, Swapped, InPlaceOf
<1>3. \A d \in Misfits(T) : f.sequence <= d.sequence
  BY <1>1, <1>2 DEF Misfits, Numbered
<1>4. QED
  BY <1>1, <1>2, <1>3, FirstMisfit

(* A row in the place of e that fits but has another hash is betrayed by the *)
(* next row, if there is one.                                                 *)
LEMMA ReportedNext ==
  ASSUME NEW L, NEW n, GoodLog(L, n), NEW e \in L, NEW f, InPlaceOf(f, e),
         Fits(Swapped(L, e, f), f), f.event_hash # e.event_hash
  PROVE  VerifyRows(Swapped(L, e, f)).first_invalid =
           IF e.sequence < n THEN e.sequence + 1 ELSE 0
<1> DEFINE T == Swapped(L, e, f)
<1>1. /\ Numbered(T) /\ n \in Nat
      /\ \A x \in T : x.sequence \in 1 .. n /\ (x.sequence < e.sequence => Fits(T, x))
      /\ \A x \in T : x.sequence = e.sequence => x = f
      /\ f.sequence = e.sequence /\ f \in T /\ e.sequence \in 1 .. n
  <2>1. \A x \in L : x.sequence \in 1 .. n /\ (x.sequence = e.sequence => x = e)
    BY GoodLogNumbers DEF GoodLog
  <2>2. QED
    BY <2>1, BeforeThePlace DEF Swapped, InPlaceOf, GoodLog
<1>2. \A x \in T : x.sequence <= e.sequence => Fits(T, x)
  BY <1>1
<1>3. CASE e.sequence < n
  <2>1. PICK x \in L : x.sequence = e.sequence + 1
    BY <1>1, <1>3, GoodLogNumbers
  <2>2. x \in T /\ x.previous_hash = e.event_hash
    BY <1>1, <2>1 DEF Swapped, GoodLog
  <2>3. PreviousHash(T, x) = f.event_hash
    <3>1. f \in Earlier(T, x)
      BY <1>1, <2>1 DEF Earlier
    <3>2. PICK d \in Earlier(T, x) :
            /\ \A y \in Earlier(T, x) : y.sequence <= d.sequence
            /\ PreviousHash(T, x) = d.event_hash
      BY <1>1, <2>2, <3>1, Carried DEF Numbered
    <3>3. d \in T /\ d.sequence < e.sequence + 1 /\ e.sequence <= d.sequence
      BY <1>1, <2>1, <3>1, <3>2 DEF Earlier
    <3>4. d.sequence = e.sequence
      BY <1>1, <3>3
    <3>5. QED
      BY <1>1, <3>2, <3>3, <3>4
  <2>4. x \in Misfits(T)
    BY <2>2, <2>3 DEF Misfits, Fits
  <2>5. \A d \in Misfits(T) : x.sequence <= d.sequence
    BY <1>1, <1>2, <2>1 DEF Misfits
  <2>6. QED
    BY <1>1, <1>3, <2>1, <2>4, <2>5, FirstMisfit
<1>4. CASE ~(e.sequence < n)
  <2>1. \A x \in T : Fits(T, x)
    BY <1>1, <1>2, <1>4
  <2>2. Misfits(T) = {}
    BY <2>1 DEF Misfits
  <2>3. QED
    BY <1>4, <2>2, NoMisfit
<1>5. QED
  BY <1>3, <1>4

(* What a rewriting keeps and what it changes. *)
LEMMA RewritesKeep ==
  ASSUME NEW e, IsEvent(e), NEW f \in Rewrites(e) \ {e}
  PROVE  /\ InPlaceOf(f, e) /\ f.event_hash = e.event_hash
         /\ \/ f.previous_hash # e.previous_hash
            \/ f.call # e.call
            \/ f.occurred_at # e.occurred_at
         /\ InPlaceOf(Resealed(f), e)
         /\ Resealed(f).previous_hash = f.previous_hash
         /\ Resealed(f).event_hash = Digest(ContentOf(f, f.previous_hash))
         /\ ContentOf(Resealed(f), f.previous_hash) = ContentOf(f, f.previous_hash)
<1>1. PICK at, c, p :
        f = [organisation |-> e.organisation, sequence |-> e.sequence, occurred_at |-> at,
             call |-> c, previous_hash |-> p, event_hash |-> e.event_hash]
  <2>1. CASE \E c \in Calls : f = [e EXCEPT !.call = c]
    BY <2>1 DEF IsEvent
  <2>2. CASE \E t \in 0 .. clock : f = [e EXCEPT !.occurred_at.instant = t]
    BY <2>2 DEF IsEvent
  <2>3. CASE \E p \in {Genesis, e.event_hash} : f = [e EXCEPT !.previous_hash = p]
    BY <2>3 DEF IsEvent
  <2>4. QED
    BY <2>1, <2>2, <2>3 DEF Rewrites
<1>2. f.previous_hash # e.previous_hash \/ f.call # e.call \/ f.occurred_at # e.occurred_at
  BY <1>1 DEF IsEvent
<1>3. QED
  BY <1>1, <1>2 DEF InPlaceOf, Resealed, ContentOf, Content

(* Any one row of what was committed, rewritten in its payload, its time or   *)
(* its link, is found, unless it is the newest and its hash was computed again. *)
THEOREM AlterationsFound == ASSUME UtcStamps PROVE Spec => []AlterationFound
<1>1. Init => Links
  BY DEF Init, Links, LinkedRows
<1>2. IInv /\ Links => AlterationFound
  <2> SUFFICES ASSUME IInv, Links, NEW e \in rows, NEW f \in Rewrites(e) \ {e}
               PROVE  /\ VerifyRows(With(e, f)).first_invalid = e.sequence
                      /\ VerifyRows(With(e, Resealed(f))).first_invalid =
                           IF f.previous_hash # e.previous_hash THEN e.sequence
                           ELSE IF e.sequence < head[e.organisation].sequence
                                THEN e.sequence + 1 ELSE 0
    BY DEF AlterationFound
  <2> DEFINE o == e.organisation
             L == RowsOf(o)
             n == head[o].sequence
             g == Resealed(f)
  <2>1. o \in Orgs /\ e \in L /\ IsEvent(e)
    BY DEF IInv, TInv, TypeOK, IsEvent, RowsOf
  <2>2. GoodLog(L, n)
    BY <2>1, CommittedIsGood
  <2>3. With(e, f) = Swapped(L, e, f) /\ With(e, g) = Swapped(L, e, g)
    BY DEF With, Swapped
  <2> HIDE DEF o, L, n, g
  <2>4. /\ InPlaceOf(f, e) /\ f.event_hash = e.event_hash
        /\ \/ f.previous_hash # e.previous_hash
           \/ f.call # e.call
           \/ f.occurred_at # e.occurred_at
        /\ InPlaceOf(g, e)
        /\ g.previous_hash = f.previous_hash
        /\ g.event_hash = Digest(ContentOf(f, f.previous_hash))
        /\ ContentOf(g, f.previous_hash) = ContentOf(f, f.previous_hash)
    BY <2>1, RewritesKeep DEF g
  <2>5. /\ PreviousHash(Swapped(L, e, f), f) = e.previous_hash
        /\ PreviousHash(Swapped(L, e, g), g) = e.previous_hash
    BY <2>1, <2>2, <2>4, BeforeThePlace
  <2>6. e.event_hash = Digest(ContentOf(e, e.previous_hash))
    BY <2>1, <2>2 DEF GoodLog, Sealed, ContentOf
  <2>7. f.previous_hash = e.previous_hash => g.event_hash # e.event_hash
    BY <2>4, <2>6 DEF Digest, ContentOf, Content
  <2>8. ~Fits(Swapped(L, e, f), f)
    BY <2>4, <2>5, <2>7 DEF Fits
  <2>9. VerifyRows(With(e, f)).first_invalid = e.sequence
    BY <2>1, <2>2, <2>3, <2>4, <2>8, ReportedInPlace
  <2>10. CASE f.previous_hash # e.previous_hash
    <3>1. ~Fits(Swapped(L, e, g), g)
      BY <2>4, <2>5, <2>10 DEF Fits
    <3>2. VerifyRows(With(e, g)).first_invalid = e.sequence
      BY <2>1, <2>2, <2>3, <2>4, <3>1, ReportedInPlace
    <3>3. QED
      BY <2>9, <2>10, <3>2 DEF g
  <2>11. CASE f.previous_hash = e.previous_hash
    <3>1. Fits(Swapped(L, e, g), g)
      BY <2>4, <2>5, <2>11 DEF Fits
    <3>2. VerifyRows(With(e, g)).first_invalid = IF e.sequence < n THEN e.sequence + 1 ELSE 0
      BY <2>1, <2>2, <2>3, <2>4, <2>7, <2>11, <3>1, ReportedNext
    <3>3. QED
      BY <2>9, <2>11, <3>2 DEF g, n, o
  <2>12. QED
    BY <2>10, <2>11
<1>3. QED
  BY <1>1, <1>2, LinksStep, IInvAlways, PTL DEF Spec
-------------------------------------------------------------------------------
(* What the head would add *)

(* Any rows that could stand in the table for o: the unique index holds. *)
Table(T, o) ==
    /\ \A e \in T : IsEvent(e) /\ e.organisation = o
    /\ \A d, e \in T : d.sequence = e.sequence => d = e

(* The hash the loop of verify_chain carries when it leaves the rows T. *)
EndsWith(T, hash) ==
    \/ T = {} /\ hash = Genesis
    \/ \E e \in T : e.event_hash = hash /\ \A d \in T : d.sequence <= e.sequence

(* verify_chain does not look at the head and so misses the loss or the        *)
(* replacement of the newest rows (OnlyTailLossPasses, AlterationFound).  The  *)
(* head's hash settles that: whatever rows are put in the place of a log, any  *)
(* number of them with any content, numbers and hashes, verify_chain accepts   *)
(* them and the last carries the head's hash exactly if they are the log.      *)
OnlyTheLogMatchesHead(T, o) ==
    Table(T, o) /\ VerifyRows(T).valid /\ EndsWith(T, head[o].event_hash) <=> T = RowsOf(o)

LEMMA SameHashSameRow ==
  ASSUME NEW d, NEW e, IsEvent(d), IsEvent(e), Sealed(d), Sealed(e), d.event_hash = e.event_hash
  PROVE  d = e
<1>1. Content(d.organisation, d.sequence, d.occurred_at, d.call, d.previous_hash)
      = Content(e.organisation, e.sequence, e.occurred_at, e.call, e.previous_hash)
  BY DEF Sealed, Digest
<1>2. /\ d.organisation = e.organisation /\ d.sequence = e.sequence
      /\ d.occurred_at = e.occurred_at /\ d.call = e.call /\ d.previous_hash = e.previous_hash
  BY <1>1 DEF Content
<1>3. QED
  BY <1>2 DEF IsEvent

LEMMA AcceptedRowsFit ==
  ASSUME NEW T, NEW o, Table(T, o), VerifyRows(T).valid
  PROVE  Numbered(T) /\ \A e \in T : Sealed(e) /\ e.previous_hash = PreviousHash(T, e)
<1>1. Numbered(T)
  BY DEF Table, IsEvent, Numbered
<1>2. \A e \in T : Fits(T, e)
  BY <1>1, ValidMeansNoMisfit DEF Misfits
<1>3. QED
  BY <1>1, <1>2 DEF Fits, Sealed, ContentOf

From(S, k) == {e \in S : e.sequence >= k}

(* If T and the log agree from a row on, they agree from the row before it on: *)
(* its hash is in the link that both have.                                     *)
LEMMA AgreeOneEarlier ==
  ASSUME NEW L, NEW n, GoodLog(L, n), NEW T, NEW o, Table(T, o), VerifyRows(T).valid,
         NEW k \in 1 .. n, k + 1 <= n, From(T, k + 1) = From(L, k + 1)
  PROVE  From(T, k) = From(L, k)
<1>1. /\ Numbered(T) /\ Numbered(L) /\ n \in Nat
      /\ \A e \in T : IsEvent(e) /\ Sealed(e) /\ e.previous_hash = PreviousHash(T, e)
      /\ \A e \in L : IsEvent(e) /\ Sealed(e)
  <2>1. Numbered(T) /\ \A e \in T : Sealed(e) /\ e.previous_hash = PreviousHash(T, e)
    BY AcceptedRowsFit
  <2>2. QED
    BY <2>1, GoodLogNumbers DEF Table, GoodLog, Numbered
<1>2. PICK x \in L : x.sequence = k + 1
  BY <1>1, GoodLogNumbers
<1>3. PICK p \in L : p.sequence = k
  BY GoodLogNumbers
<1>4. x \in T /\ x.previous_hash = p.event_hash
  <2>1. x \in From(L, k + 1)
    BY <1>2 DEF From
  <2>2. x \in T
    BY <2>1 DEF From
  <2>3. QED
    BY <2>2, <1>2, <1>3 DEF GoodLog
<1>5. PICK d \in Earlier(T, x) :
        (\A y \in Earlier(T, x) : y.sequence <= d.sequence) /\ PreviousHash(T, x) = d.event_hash
  <2>1. PreviousHash(T, x) # Genesis
    BY <1>1, <1>3, <1>4, HashIsNotGenesis
  <2>2. QED
    BY <1>1, <1>2, <1>4, <2>1, Carried
<1>6. d = p
  BY <1>1, <1>3, <1>4, <1>5, SameHashSameRow DEF Earlier
<1>7. \A S : Numbered(S) => From(S, k) = From(S, k + 1) \cup {e \in S : e.sequence = k}
  BY DEF From, Numbered
<1>8. {e \in L : e.sequence = k} = {p}
  BY <1>3 DEF GoodLog
<1>9. {e \in T : e.sequence = k} = {p}
  BY <1>3, <1>5, <1>6 DEF Table, Earlier
<1>10. QED
  BY <1>1, <1>7, <1>8, <1>9

LEMMA LogIsTheOnlyOne ==
  ASSUME NEW L, NEW n, GoodLog(L, n), NEW T, NEW o, Table(T, o), VerifyRows(T).valid,
         NEW last \in L, last.sequence = n, EndsWith(T, last.event_hash)
  PROVE  T = L
<1>1. /\ Numbered(T) /\ Numbered(L) /\ n \in Nat \ {0}
      /\ \A e \in T : IsEvent(e) /\ Sealed(e)
      /\ \A e \in L : IsEvent(e) /\ Sealed(e) /\ e.sequence \in 1 .. n
  <2>1. Numbered(T) /\ \A e \in T : Sealed(e)
    BY AcceptedRowsFit
  <2>2. last.sequence \in 1 .. n /\ \A e \in L : e.sequence \in 1 .. n
    BY GoodLogNumbers
  <2>3. QED
    BY <2>1, <2>2 DEF Table, GoodLog, Numbered
<1>2. last \in T /\ \A d \in T : d.sequence <= n
  <2>1. PICK e \in T : e.event_hash = last.event_hash /\ \A d \in T : d.sequence <= e.sequence
    BY HashIsNotGenesis DEF EndsWith
  <2>2. e = last
    BY <1>1, <2>1, SameHashSameRow
  <2>3. QED
    BY <2>1, <2>2
<1>3. From(T, n) = From(L, n)
  BY <1>1, <1>2 DEF From, Table, GoodLog, Numbered
<1> DEFINE Apart == {j \in 0 .. n - 1 : From(T, n - j) # From(L, n - j)}
<1>4. Apart = {}
  <2> SUFFICES ASSUME Apart # {} PROVE FALSE
    OBVIOUS
  <2>1. PICK j \in Apart : \A i \in Apart : j <= i
    <3>1. Apart \in SUBSET Nat
      BY <1>1
    <3>2. QED
      BY <3>1, LeastNumber
  <2>2. j # 0 /\ j \in 1 .. n - 1
    BY <1>1, <1>3, <2>1
  <2>3. From(T, n - (j - 1)) = From(L, n - (j - 1))
    BY <1>1, <2>1, <2>2
  <2>4. n - j \in 1 .. n /\ n - (j - 1) = (n - j) + 1 /\ (n - j) + 1 <= n
    BY <1>1, <2>2
  <2>5. From(T, n - j) = From(L, n - j)
    BY <2>3, <2>4, AgreeOneEarlier
  <2>6. QED
    BY <2>1, <2>5
<1>5. From(T, 1) = From(L, 1)
  <2>1. n - 1 \in 0 .. n - 1 /\ n - (n - 1) = 1
    BY <1>1
  <2>2. n - 1 \notin Apart
    BY <1>4
  <2>3. QED
    BY <2>1, <2>2
<1>6. \A e \in T : e.sequence >= 1
  BY <1>1 DEF IsEvent
<1>7. QED
  BY <1>1, <1>5, <1>6 DEF From

(* The head pins the whole log, for logs of any length and any other rows. *)
THEOREM HeadPinsLog ==
  ASSUME UtcStamps, NEW T, NEW o \in Orgs
  PROVE  Spec => []OnlyTheLogMatchesHead(T, o)
<1>1. Init => Links
  BY DEF Init, Links, LinkedRows
<1>2. IInv /\ Links => OnlyTheLogMatchesHead(T, o)
  <2> SUFFICES ASSUME IInv, Links PROVE OnlyTheLogMatchesHead(T, o)
    OBVIOUS
  <2> DEFINE n == head[o].sequence
             L == RowsOf(o)
  <2>1. GoodLog(L, n)
    BY CommittedIsGood
  <2>2. n \in Nat
    BY <2>1 DEF GoodLog
  <2>3. \/ n = 0 /\ L = {} /\ head[o].event_hash = Genesis
        \/ \E last \in L : last.sequence = n /\ last.event_hash = head[o].event_hash
    <3>1. CASE n = 0
      BY <2>1, <3>1, GoodLogNumbers DEF IInv, Chain
    <3>2. CASE n # 0
      <4>1. PICK last \in L : last.sequence = n
        BY <2>1, <2>2, <3>2, GoodLogNumbers
      <4>2. QED
        BY <4>1 DEF IInv, Chain, HeadTracksTail
    <3>3. QED
      BY <3>1, <3>2
  <2>4. ASSUME Table(T, o), VerifyRows(T).valid, EndsWith(T, head[o].event_hash)
        PROVE  T = L
    <3>1. CASE L = {} /\ head[o].event_hash = Genesis
      <4>1. \A e \in T : Sealed(e)
        BY <2>4, AcceptedRowsFit
      <4>2. \A e \in T : e.event_hash # Genesis
        BY <4>1 DEF Sealed, Digest, Genesis
      <4>3. QED
        BY <2>4, <3>1, <4>2 DEF EndsWith
    <3>2. ASSUME NEW last \in L, last.sequence = n, last.event_hash = head[o].event_hash
          PROVE  T = L
      BY <2>1, <2>4, <3>2, LogIsTheOnlyOne
    <3>3. QED
      BY <2>3, <3>1, <3>2
  <2>5. Table(L, o) /\ VerifyRows(L).valid /\ EndsWith(L, head[o].event_hash)
    <3>1. Table(L, o)
      <4>1. \A e \in L : e.organisation = o
        BY DEF RowsOf
      <4>2. QED
        BY <2>1, <4>1 DEF Table, GoodLog
    <3>2. VerifyRows(L).valid
      BY <2>1, PrefixPasses DEF Earlier
    <3>3. EndsWith(L, head[o].event_hash)
      <4>1. \A e \in L : e.sequence <= n
        BY <2>1, <2>2, GoodLogNumbers
      <4>2. QED
        BY <2>3, <4>1 DEF EndsWith
    <3>4. QED
      BY <3>1, <3>2, <3>3
  <2>6. QED
    BY <2>4, <2>5 DEF OnlyTheLogMatchesHead
<1>3. QED
  BY <1>1, <1>2, LinksStep, IInvAlways, PTL DEF Spec
===============================================================================

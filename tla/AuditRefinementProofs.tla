------------------------- MODULE AuditRefinementProofs -------------------------
(***************************************************************************)
(* AuditChain implements AuditLog: every step of an append is a step of    *)
(* the abstract log or leaves it alone.                                    *)
(***************************************************************************)
EXTENDS AuditChainProofs, Sequences

(* Where a call's events are, in terms of what it still has to do: in the   *)
(* organisations of its audience that it has appended to, and nowhere else. *)
RecordsOf(c) ==
    /\ todo[c] \subseteq audience[c]
    /\ \A e \in rows : e.call = c => e.organisation \in audience[c] \ todo[c]
    /\ \A o \in audience[c] \ todo[c] : \E e \in RowsOf(o) : e.call = c
    /\ pc[c] \in {"get", "create", "refetch", "locked", "inserted", "saved"} => org[c] \in todo[c]
    /\ pc[c] = "new" => audience[c] = {}
    /\ \A e \in draft[c] : e.call = c

Records == \A c \in Calls : RecordsOf(c)

RInv == IInv /\ Records

LEMMA RecordsInit == Init => Records
  BY DEF Init, Records, RecordsOf

(* A step of another call that publishes nothing of c's. *)
LEMMA RecordsKept ==
  ASSUME NEW c \in Calls, RecordsOf(c), pc'[c] = pc[c], org'[c] = org[c], todo'[c] = todo[c],
         audience'[c] = audience[c], draft'[c] = draft[c], rows \subseteq rows',
         \A e \in rows' : e \in rows \/ e.call # c
  PROVE  RecordsOf(c)'
  BY DEF RecordsOf, RowsOf

LEMMA RecordsStep == RInv /\ [Next]_vars => Records'
<1> SUFFICES ASSUME RInv, [Next]_vars PROVE Records'
  OBVIOUS
<1>a. TypeOK /\ \A c \in Calls : RecordsOf(c)
  BY DEF RInv, IInv, TInv, Records
<1>1. CASE Tick
  BY <1>1, <1>a, RecordsKept DEF Tick, database, memory, Records
<1>2. ASSUME NEW c \in Calls, Start(c) PROVE Records'
  <2>1. \A d \in Calls \ {c} : RecordsOf(d)'
    BY <1>2, <1>a, RecordsKept DEF Start, Goto, database, TypeOK
  <2>2. RecordsOf(c)'
    BY <1>2, <1>a DEF Start, Goto, database, TypeOK, RecordsOf, RowsOf
  <2>3. QED
    BY <2>1, <2>2 DEF Records
<1>3. ASSUME NEW c \in Calls, Begin(c) PROVE Records'
  <2>1. \A d \in Calls \ {c} : RecordsOf(d)'
    BY <1>3, <1>a, RecordsKept DEF Begin, Goto, database, TypeOK
  <2>2. RecordsOf(c)'
    BY <1>3, <1>a DEF Begin, Goto, database, TypeOK, RecordsOf, RowsOf
  <2>3. QED
    BY <2>1, <2>2 DEF Records
<1>4. ASSUME NEW c \in Calls, LockHead(c) PROVE Records'
  <2>1. \A d \in Calls \ {c} : RecordsOf(d)'
    BY <1>4, <1>a, RecordsKept DEF LockHead, Goto, TypeOK
  <2>2. RecordsOf(c)'
    BY <1>4, <1>a DEF LockHead, Goto, TypeOK, RecordsOf, RowsOf
  <2>3. QED
    BY <2>1, <2>2 DEF Records
<1>5. ASSUME NEW c \in Calls, MissHead(c) PROVE Records'
  <2>1. \A d \in Calls \ {c} : RecordsOf(d)'
    BY <1>5, <1>a, RecordsKept DEF MissHead, Goto, database, memory, TypeOK
  <2>2. RecordsOf(c)'
    BY <1>5, <1>a DEF MissHead, Goto, database, memory, TypeOK, RecordsOf, RowsOf
  <2>3. QED
    BY <2>1, <2>2 DEF Records
<1>6. ASSUME NEW c \in Calls, CreateHead(c) PROVE Records'
  <2>1. \A d \in Calls \ {c} : RecordsOf(d)'
    BY <1>6, <1>a, RecordsKept DEF CreateHead, Goto, TypeOK
  <2>2. RecordsOf(c)'
    BY <1>6, <1>a DEF CreateHead, Goto, TypeOK, RecordsOf, RowsOf
  <2>3. QED
    BY <2>1, <2>2 DEF Records
<1>7. ASSUME NEW c \in Calls, LoseCreate(c) PROVE Records'
  <2>1. \A d \in Calls \ {c} : RecordsOf(d)'
    BY <1>7, <1>a, RecordsKept DEF LoseCreate, Goto, database, memory, TypeOK
  <2>2. RecordsOf(c)'
    BY <1>7, <1>a DEF LoseCreate, Goto, database, memory, TypeOK, RecordsOf, RowsOf
  <2>3. QED
    BY <2>1, <2>2 DEF Records
<1>8. ASSUME NEW c \in Calls, InsertEvent(c) PROVE Records'
  <2>1. \A d \in Calls \ {c} : RecordsOf(d)'
    BY <1>8, <1>a, RecordsKept DEF InsertEvent, database, Event, TypeOK
  <2>2. RecordsOf(c)'
    BY <1>8, <1>a DEF InsertEvent, database, Event, TypeOK, RecordsOf, RowsOf
  <2>3. QED
    BY <2>1, <2>2 DEF Records
<1>9. ASSUME NEW c \in Calls, SaveHead(c) PROVE Records'
  <2>1. \A d \in Calls \ {c} : RecordsOf(d)'
    BY <1>9, <1>a, RecordsKept DEF SaveHead, Goto, database, TypeOK
  <2>2. RecordsOf(c)'
    BY <1>9, <1>a DEF SaveHead, Goto, database, TypeOK, RecordsOf, RowsOf
  <2>3. QED
    BY <2>1, <2>2 DEF Records
<1>10. ASSUME NEW c \in Calls, Commit(c) PROVE Records'
  <2>1. PICK o \in Orgs, n \in draft[c] :
          /\ o = org[c] /\ Follows(n, o) /\ rows' = rows \cup {n}
    BY <1>10, CommitAppends DEF RInv
  <2>2. n.call = c /\ n.organisation = o /\ o \in todo[c]
    BY <1>10, <2>1, <1>a DEF RecordsOf, Follows, Commit, Goto
  <2>3. \A d \in Calls \ {c} : RecordsOf(d)'
    BY <1>10, <2>1, <2>2, <1>a, RecordsKept DEF Commit, Goto, TypeOK
  <2>4. /\ todo'[c] = todo[c] \ {o} /\ audience' = audience /\ pc'[c] = "loop" /\ draft'[c] = {}
        /\ RowsOf(o)' = RowsOf(o) \cup {n}
    BY <1>10, <2>1, <2>2, <1>a DEF Commit, Goto, TypeOK, RowsOf
  <2>5. RecordsOf(c)'
    BY <2>1, <2>2, <2>4, <1>a DEF RecordsOf, RowsOf
  <2>6. QED
    BY <2>3, <2>5 DEF Records
<1>11. ASSUME NEW c \in Calls, Return(c) PROVE Records'
  <2>1. \A d \in Calls \ {c} : RecordsOf(d)'
    BY <1>11, <1>a, RecordsKept DEF Return, Goto, database, memory, TypeOK
  <2>2. RecordsOf(c)'
    BY <1>11, <1>a DEF Return, Goto, database, memory, TypeOK, RecordsOf, RowsOf
  <2>3. QED
    BY <2>1, <2>2 DEF Records
<1>12. ASSUME NEW c \in Calls, Fail(c) PROVE Records'
  <2>1. \A d \in Calls \ {c} : RecordsOf(d)'
    BY <1>12, <1>a, RecordsKept DEF Fail, TypeOK
  <2>2. RecordsOf(c)'
    BY <1>12, <1>a DEF Fail, TypeOK, RecordsOf, RowsOf
  <2>3. QED
    BY <2>1, <2>2 DEF Records
<1>13. CASE UNCHANGED vars
  BY <1>13, <1>a, RecordsKept DEF vars, Records
<1>14. QED
  BY <1>1, <1>2, <1>3, <1>4, <1>5, <1>6, <1>7, <1>8, <1>9, <1>10, <1>11, <1>12, <1>13
     DEF Next, Step

-------------------------------------------------------------------------------
(* The log of an organisation *)

LogLists(o) ==
    /\ LogOf(o) \in Seq(Calls) /\ Len(LogOf(o)) = head[o].sequence
    /\ DOMAIN LogOf(o) = 1 .. head[o].sequence
    /\ \A e \in RowsOf(o) : e.sequence \in 1 .. head[o].sequence
                            /\ LogOf(o)[e.sequence] = e.call
    /\ \A n \in 1 .. head[o].sequence : \E e \in RowsOf(o) : e.sequence = n

LogsList == \A o \in Orgs : LogLists(o)

LEMMA LogIsSequence == Chain /\ TypeOK => LogsList
<1> SUFFICES ASSUME Chain, TypeOK, NEW o \in Orgs PROVE LogLists(o)
  BY DEF LogsList
<1>1. head[o].sequence \in Nat /\ {e.sequence : e \in RowsOf(o)} = 1 .. head[o].sequence
  BY DEF Chain, HeadTracksTail, TypeOK, IsHead
<1>2. \A e \in RowsOf(o) : e.sequence \in 1 .. head[o].sequence
  BY <1>1
<1>3. \A n \in 1 .. head[o].sequence : \E e \in RowsOf(o) : e.sequence = n
  BY <1>1
<1>4. ASSUME NEW e \in RowsOf(o)
      PROVE  (CHOOSE d \in RowsOf(o) : d.sequence = e.sequence) = e
  BY DEF Chain, HeadTracksTail
<1>5. \A e \in RowsOf(o) : LogOf(o)[e.sequence] = e.call
  BY <1>1, <1>2, <1>4 DEF LogOf, CallsInOrder
<1>6. \A n \in 1 .. head[o].sequence : LogOf(o)[n] \in Calls
  BY <1>3, <1>5 DEF TypeOK, IsEvent, RowsOf
<1>7. LogOf(o) \in [1 .. head[o].sequence -> Calls]
  BY <1>1, <1>6 DEF LogOf, CallsInOrder
<1>8. LogOf(o) \in Seq(Calls) /\ Len(LogOf(o)) = head[o].sequence
  BY <1>1, <1>7
<1>9. QED
  BY <1>2, <1>3, <1>5, <1>7, <1>8 DEF LogLists

(* c is in the abstract log of o exactly if o has an event of c. *)
LEMMA EntriesAreCalls ==
  ASSUME Chain, TypeOK, NEW o \in Orgs, NEW c \in Calls
  PROVE  c \in Promise!Entries(o) <=> \E e \in RowsOf(o) : e.call = c
<1>1. DOMAIN LogOf(o) = 1 .. head[o].sequence
  BY LogIsSequence DEF LogLists, LogsList
<1>2. QED
  BY <1>1, LogIsSequence DEF Promise!Entries, LogLists, LogsList

(* The commit of an append is the abstract write. *)
LEMMA CommitWrites ==
  ASSUME RInv, RInv', NEW c \in Calls, Commit(c)
  PROVE  \E o \in Orgs : Promise!Write(c, o)
<1>a. TypeOK /\ Chain /\ Chain' /\ TypeOK' /\ RecordsOf(c)
  BY DEF RInv, IInv, TInv, Records
<1>1. PICK o \in Orgs, n \in draft[c] :
         /\ o = org[c] /\ Follows(n, o)
         /\ rows' = rows \cup {n}
         /\ head' = [head EXCEPT ![o] = HeadAfter(n)]
         /\ RowsOf(o)' = RowsOf(o) \cup {n}
         /\ \A q \in Orgs \ {o} : RowsOf(q)' = RowsOf(q)
  BY CommitAppends DEF RInv
<1>2. /\ n.call = c /\ o \in todo[c] /\ o \in audience[c]
      /\ n.sequence = head[o].sequence + 1 /\ head[o].sequence \in Nat
      /\ head'[o].sequence = n.sequence
  BY <1>1, <1>a DEF RecordsOf, Follows, NextSequence, Commit, Goto, TypeOK, IsHead, HeadAfter
<1>3. c \notin Promise!Entries(o)
  BY <1>2, <1>a, EntriesAreCalls DEF RecordsOf, RowsOf
<1>4. LogOf(o)' = Append(LogOf(o), c)
  <2>1. LogOf(o) \in Seq(Calls) /\ Len(LogOf(o)) = head[o].sequence
    BY <1>a, LogIsSequence DEF LogLists, LogsList
  <2>2. /\ LogOf(o)' \in Seq(Calls) /\ Len(LogOf(o)') = head[o].sequence + 1
        /\ \A e \in RowsOf(o)' : LogOf(o)'[e.sequence] = e.call
    <3>1. Chain' /\ TypeOK' => LogsList'
      BY LogIsSequence, PTL
    <3>2. QED
      BY <3>1, <1>a, <1>2 DEF LogLists, LogsList
  <2>3. LogOf(o)'[head[o].sequence + 1] = c
    BY <2>2, <1>1, <1>2
  <2>4. \A i \in 1 .. head[o].sequence : LogOf(o)'[i] = LogOf(o)[i]
    BY <2>2, <1>1, <1>a, LogIsSequence DEF LogLists, LogsList
  <2>5. QED
    BY <2>1, <2>2, <2>3, <2>4, <1>2
<1>5. \A q \in Orgs \ {o} : LogOf(q)' = LogOf(q)
  BY <1>1 DEF LogOf
<1>6. [q \in Orgs |-> LogOf(q)]' = [[q \in Orgs |-> LogOf(q)] EXCEPT ![o] = Append(@, c)]
  BY <1>4, <1>5
<1>7. [d \in Calls |-> OutcomeOf(d)]' = [d \in Calls |-> OutcomeOf(d)] /\ OutcomeOf(c) = "running"
  BY <1>a DEF Commit, Goto, OutcomeOf, TypeOK
<1>8. audience' = audience
  BY DEF Commit
<1>9. QED
  BY <1>2, <1>3, <1>6, <1>7, <1>8 DEF Promise!Write

LEMMA StepRefines == RInv /\ RInv' /\ [Next]_vars => [Promise!Next]_(Promise!vars)
<1> SUFFICES ASSUME RInv, RInv', [Next]_vars PROVE [Promise!Next]_(Promise!vars)
  OBVIOUS
<1>a. TypeOK /\ Chain /\ \A c \in Calls : RecordsOf(c)
  BY DEF RInv, IInv, TInv, Records
<1>b. (\A c \in Calls : ~Commit(c)) =>
        [q \in Orgs |-> LogOf(q)]' = [q \in Orgs |-> LogOf(q)]
  <2>1. (\A c \in Calls : ~Commit(c)) => \A q \in Orgs : RowsOf(q)' = RowsOf(q)
    BY OnlyCommitPublishes DEF RowsOf
  <2>2. QED
    BY <2>1 DEF LogOf
<1>1. ASSUME NEW c \in Calls, Start(c) PROVE Promise!Start(c)
  <2>1. \A d \in Calls : ~Commit(d)
    BY <1>1, <1>a DEF Start, Commit, Goto, TypeOK
  <2>2. /\ OutcomeOf(c) = "idle"
        /\ [d \in Calls |-> OutcomeOf(d)]' = [[d \in Calls |-> OutcomeOf(d)] EXCEPT ![c] = "running"]
    BY <1>1, <1>a DEF Start, Goto, OutcomeOf, TypeOK
  <2>3. \E S \in SUBSET Orgs : audience' = [audience EXCEPT ![c] = S]
    BY <1>1, AudiencesAssumption DEF Start
  <2>4. QED
    BY <1>b, <2>1, <2>2, <2>3 DEF Promise!Start
<1>2. ASSUME NEW c \in Calls, Return(c) PROVE Promise!Return(c)
  <2>1. \A d \in Calls : ~Commit(d)
    BY <1>2, <1>a DEF Return, Commit, Goto, TypeOK
  <2>2. /\ OutcomeOf(c) = "running"
        /\ [d \in Calls |-> OutcomeOf(d)]' = [[d \in Calls |-> OutcomeOf(d)] EXCEPT ![c] = "done"]
    BY <1>2, <1>a DEF Return, Goto, OutcomeOf, TypeOK
  <2>3. \A o \in audience[c] : c \in Promise!Entries(o)
    BY <1>2, <1>a, EntriesAreCalls DEF Return, RecordsOf, TypeOK
  <2>4. QED
    BY <1>2, <1>b, <2>1, <2>2, <2>3 DEF Return, memory, Promise!Return
<1>3. ASSUME NEW c \in Calls, Fail(c) PROVE Promise!Fail(c)
  <2>1. UNCHANGED rows
    BY <1>3 DEF Fail
  <2>2. /\ OutcomeOf(c) = "running"
        /\ [d \in Calls |-> OutcomeOf(d)]' = [[d \in Calls |-> OutcomeOf(d)] EXCEPT ![c] = "failed"]
    BY <1>3, <1>a DEF Fail, OutcomeOf, TypeOK
  <2>3. [q \in Orgs |-> LogOf(q)]' = [q \in Orgs |-> LogOf(q)]
    BY <2>1 DEF LogOf, RowsOf
  <2>4. QED
    BY <1>3, <2>2, <2>3 DEF Fail, Promise!Fail
<1>4. ASSUME NEW c \in Calls, Commit(c) PROVE \E o \in Orgs : Promise!Write(c, o)
  BY <1>4, CommitWrites
<1>5. CASE \A c \in Calls : ~(Start(c) \/ Return(c) \/ Fail(c) \/ Commit(c))
  <2>1. audience' = audience
    BY <1>5 DEF Next, Step, vars, memory, Tick, Begin, LockHead, MissHead, CreateHead,
       LoseCreate, InsertEvent, SaveHead
  <2>2. \A c \in Calls : OutcomeOf(c)' = OutcomeOf(c)
    BY <1>5, <1>a DEF Next, Step, vars, Goto, Tick, Begin, LockHead, MissHead, CreateHead,
       LoseCreate, InsertEvent, SaveHead, OutcomeOf, TypeOK
  <2>3. QED
    BY <1>5, <1>b, <2>1, <2>2 DEF Promise!vars
<1>6. QED
  BY <1>1, <1>2, <1>3, <1>4, <1>5 DEF Promise!Next

(* What append_event's callers see is an atomic append to an append-only log, *)
(* for any organisations, calls, failures and supplied times.                 *)
THEOREM AppendIsAtomic == Spec => ImplementsAuditLog
<1>1. Init => Promise!Init
  <2> SUFFICES ASSUME Init PROVE Promise!Init
    OBVIOUS
  <2>1. \A o \in Orgs : RowsOf(o) = {}
    BY DEF Init, RowsOf
  <2>2. \A o \in Orgs : LogOf(o) = <<>>
    BY <2>1 DEF LogOf, CallsInOrder
  <2>3. QED
    BY <2>2 DEF Init, Promise!Init, OutcomeOf
<1>2. Spec => []RInv
  <2>1. Init => RInv
    BY IInvInit, RecordsInit DEF RInv
  <2>2. RInv /\ [Next]_vars => RInv'
    BY IInvStep, RecordsStep DEF RInv
  <2>3. QED
    BY <2>1, <2>2, PTL DEF Spec
<1>3. QED
  BY <1>1, <1>2, StepRefines, PTL DEF Spec, ImplementsAuditLog, Promise!Spec
-------------------------------------------------------------------------------
(* How often a call is recorded *)

(* A retry inside the loop, a second turn for the same organisation or a      *)
(* commit that is repeated would record a call twice.  Whatever races or      *)
(* fails, an organisation has at most one event of a call; a call that        *)
(* returned normally has one in each organisation of its audience and in no   *)
(* other, and one that failed has them in a part of its audience.             *)
RecordedOnce ==
    /\ \A d, e \in rows : d.call = e.call /\ d.organisation = e.organisation => d = e
    /\ \A c \in Calls :
         LET recorded == {o \in Orgs : \E e \in RowsOf(o) : e.call = c}
         IN /\ recorded \subseteq audience[c]
            /\ pc[c] = "done" => recorded = audience[c]

AtMostOnce == \A d, e \in rows : d.call = e.call /\ d.organisation = e.organisation => d = e

Finished == \A c \in Calls : pc[c] = "done" => todo[c] = {}

LEMMA OnceStep == RInv /\ AtMostOnce /\ [Next]_vars => AtMostOnce'
<1> SUFFICES ASSUME RInv, AtMostOnce, [Next]_vars PROVE AtMostOnce'
  OBVIOUS
<1>1. CASE \A c \in Calls : ~Commit(c)
  BY <1>1, OnlyCommitPublishes DEF AtMostOnce
<1>2. ASSUME NEW c \in Calls, Commit(c) PROVE AtMostOnce'
  <2>1. PICK o \in Orgs, n \in draft[c] :
          /\ o = org[c] /\ Follows(n, o) /\ rows' = rows \cup {n}
    BY <1>2, CommitAppends DEF RInv
  <2>2. RecordsOf(c) /\ n.call = c /\ n.organisation = o /\ o \in todo[c]
    BY <1>2, <2>1 DEF RInv, Records, RecordsOf, Follows, Commit, Goto
  <2>3. \A e \in rows : e.call = c => e.organisation # o
    BY <2>2 DEF RecordsOf
  <2>4. QED
    BY <2>1, <2>2, <2>3 DEF AtMostOnce
<1>3. QED
  BY <1>1, <1>2

LEMMA FinishedStep == TypeOK /\ Finished /\ [Next]_vars => Finished'
<1> SUFFICES ASSUME TypeOK, Finished, [Next]_vars, NEW d \in Calls, pc'[d] = "done"
             PROVE  todo'[d] = {}
  BY DEF Finished
<1>1. ASSUME NEW c \in Calls, Start(c) PROVE todo'[d] = {}
  BY <1>1 DEF Start, Goto, TypeOK, Finished
<1>2. ASSUME NEW c \in Calls, Return(c) PROVE todo'[d] = {}
  BY <1>2 DEF Return, Goto, memory, TypeOK, Finished
<1>3. ASSUME NEW c \in Calls, Commit(c) PROVE todo'[d] = {}
  BY <1>3 DEF Commit, Goto, TypeOK, Finished
<1>4. CASE \A c \in Calls : ~(Start(c) \/ Return(c) \/ Commit(c))
  <2>1. todo' = todo
    BY <1>4 DEF Next, Step, vars, memory, Tick, Begin, LockHead, MissHead, CreateHead,
       LoseCreate, InsertEvent, SaveHead, Fail
  <2>2. pc[d] = "done"
    BY <1>4 DEF Next, Step, vars, Goto, Tick, Begin, LockHead, MissHead, CreateHead,
       LoseCreate, InsertEvent, SaveHead, Fail, TypeOK
  <2>3. QED
    BY <2>1, <2>2 DEF Finished
<1>5. QED
  BY <1>1, <1>2, <1>3, <1>4

(* Every call is recorded exactly once where it should be, for any number of  *)
(* organisations, racing calls and failures.                                  *)
THEOREM CallsRecordedOnce == Spec => []RecordedOnce
<1>1. Init => RInv /\ AtMostOnce /\ Finished
  BY IInvInit, RecordsInit DEF RInv, Init, AtMostOnce, Finished
<1>2. RInv /\ AtMostOnce /\ Finished /\ [Next]_vars => (RInv /\ AtMostOnce /\ Finished)'
  BY IInvStep, RecordsStep, OnceStep, FinishedStep DEF RInv, IInv, TInv
<1>3. RInv /\ AtMostOnce /\ Finished => RecordedOnce
  <2> SUFFICES ASSUME RInv, AtMostOnce, Finished PROVE RecordedOnce
    OBVIOUS
  <2>1. ASSUME NEW c \in Calls
        PROVE  LET recorded == {o \in Orgs : \E e \in RowsOf(o) : e.call = c}
               IN /\ recorded \subseteq audience[c]
                  /\ pc[c] = "done" => recorded = audience[c]
    <3>1. RecordsOf(c) /\ audience[c] \subseteq Orgs
      BY DEF RInv, Records, IInv, TInv, TypeOK
    <3>2. \A o \in Orgs : \A e \in RowsOf(o) : e \in rows /\ e.organisation = o
      BY DEF RowsOf
    <3>3. pc[c] = "done" => todo[c] = {}
      BY DEF Finished
    <3>4. QED
      BY <3>1, <3>2, <3>3 DEF RecordsOf
  <2>2. QED
    BY <2>1 DEF RecordedOnce, AtMostOnce
<1>4. QED
  BY <1>1, <1>2, <1>3, PTL DEF Spec
===============================================================================

---------------------------- MODULE ResetMfaProofs ----------------------------
(***************************************************************************)
(* Theorems about ResetMfa for any users, factors and calls.               *)
(***************************************************************************)
EXTENDS ResetMfa, FiniteSetTheorems, TLAPS

(* A call that runs or has committed knows its target, a running one its actor. *)
Placed == \A c \in Resets :
    /\ Running(c) => actor[c] \in Users /\ target[c] \in Users
    /\ pc[c] = "done" => target[c] \in Users

TInv == TypeOK /\ Placed

LEMMA TypeInit == Init => TInv
  BY BoundAssumption DEF Init, TInv, TypeOK, Placed, Running, Deleting, Phases

(* What the end of a call does to its locals. *)
LEMMA ForgetTyped ==
  ASSUME TInv, NEW c \in Resets, Forget(c)
  PROVE  /\ actor' \in [Resets -> Users \cup {None}]
         /\ admin' \in [Resets -> BOOLEAN]
         /\ seen' \in [Resets -> SUBSET Factors]
         /\ next' \in [Resets -> Factors \cup {None}]
         /\ gone' \in [Resets -> SUBSET Factors] /\ gone'[c] = {}
         /\ newer' \in [Resets -> SUBSET Factors]
         /\ before' \in [Resets -> [Users -> Nat]]
         /\ \A d \in Resets \ {c} : actor'[d] = actor[d] /\ gone'[d] = gone[d]
  BY DEF TInv, TypeOK, Forget

LEMMA EndTyped ==
  ASSUME TInv, NEW c \in Resets, Forget(c), NEW how \in {"refused", "done", "failed"},
         pc' = [pc EXCEPT ![c] = how],
         held' \in [Resets -> SUBSET Rows], held'[c] = {},
         \A d \in Resets \ {c} : held'[d] = held[d] /\ target'[d] = target[d],
         target' \in [Resets -> Users \cup {None}], how = "done" => target'[c] \in Users,
         standing' = standing, version' \in [Users -> Nat], stored' \subseteq Factors,
         recorded' \subseteq Resets, touches' = touches, changes' = changes
  PROVE  TInv'
<1>1. \A d \in Resets \ {c} : pc'[d] = pc[d] /\ pc'[c] = how
  BY DEF TInv, TypeOK
<1>2. Placed'
  BY <1>1, ForgetTyped DEF TInv, TypeOK, Placed, Running
<1>3. \A d \in Resets : gone'[d] \subseteq held'[d] /\ (held'[d] # {} => Deleting(d)')
  BY <1>1, ForgetTyped DEF TInv, TypeOK, Deleting
<1>4. QED
  BY <1>2, <1>3, ForgetTyped DEF TInv, TypeOK, Phases

LEMMA TypeStep == TInv /\ [Next]_vars => TInv'
<1> SUFFICES ASSUME TInv, [Next]_vars PROVE TInv'
  OBVIOUS
<1> USE DEF TInv, TypeOK, Placed, Running, Deleting
<1>1. ASSUME NEW c \in Resets, Call(c) PROVE TInv'
  BY <1>1 DEF Call, Goto, Phases, database
<1>2. ASSUME NEW c \in Resets, RefuseCall(c) PROVE TInv'
  BY <1>2 DEF RefuseCall, Goto, Phases, database, locals, history
<1>3. ASSUME NEW c \in Resets, QueryActor(c) PROVE TInv'
  BY <1>3 DEF QueryActor, Goto, Phases, database, history
<1>4. ASSUME NEW c \in Resets, QueryTarget(c) PROVE TInv'
  BY <1>4 DEF QueryTarget, Goto, Phases, database, locals, history
<1>5. ASSUME NEW c \in Resets, RefuseStanding(c) \/ RefuseRole(c) PROVE TInv'
  <2>1. /\ pc[c] \in {"target", "role"} /\ pc' = [pc EXCEPT ![c] = "refused"] /\ Forget(c)
        /\ target' = [target EXCEPT ![c] = None]
        /\ UNCHANGED <<database, held, changes, touches>>
    BY <1>5 DEF RefuseStanding, RefuseRole, Goto, ForgetTarget
  <2>2. held[c] = {}
    BY <2>1
  <2>3. QED
    BY <2>1, <2>2, EndTyped DEF database
<1>6. ASSUME NEW c \in Resets, DeleteDevices(c) PROVE TInv'
  BY <1>6 DEF DeleteDevices, Snapshot, Matches, FactorsOf, Goto, Phases, database, history
<1>7. ASSUME NEW c \in Resets, DeleteCodes(c) PROVE TInv'
  BY <1>7 DEF DeleteCodes, Snapshot, Matches, FactorsOf, Goto, Phases, database, history
<1>8. ASSUME NEW c \in Resets, Reach(c) PROVE TInv'
  BY <1>8 DEF Reach, database, history
<1>9. ASSUME NEW c \in Resets, Visit(c) PROVE TInv'
  <2>1. next[c] \in Factors /\ pc[c] \in {"devices", "codes"}
    BY <1>9 DEF Visit, Scanning
  <2>2. CASE next[c] \in stored \ newer[c]
    <3>1. /\ held' = [held EXCEPT ![c] = @ \cup {next[c]}]
          /\ gone' = [gone EXCEPT ![c] = @ \cup {next[c]}]
          /\ seen' = [seen EXCEPT ![c] = @ \ {next[c]}]
          /\ next' = [next EXCEPT ![c] = None]
          /\ UNCHANGED <<database, pc, actor, target, admin, newer, history>>
      BY <1>9, <2>2 DEF Visit, Lock
    <3>2. next[c] \in Rows
      BY <2>1 DEF Rows
    <3>3. /\ held' \in [Resets -> SUBSET Rows]
          /\ gone' \in [Resets -> SUBSET Factors]
          /\ \A d \in Resets : gone'[d] \subseteq held'[d] /\ (held'[d] # {} => Deleting(d))
      BY <2>1, <3>1, <3>2
    <3>4. QED
      BY <3>1, <3>3 DEF database, history
  <2>3. CASE next[c] \notin stored \ newer[c]
    BY <1>9, <2>1, <2>3 DEF Visit, database, history
  <2>4. QED
    BY <2>2, <2>3
<1>10. ASSUME NEW c \in Resets, Bump(c) PROVE TInv'
  <2>1. target[c] \in Rows /\ pc[c] = "codes"
    BY <1>10 DEF Bump, Goto, Rows
  <2>2. QED
    BY <1>10, <2>1 DEF Bump, Goto, Lock, Phases, database, history
<1>11. ASSUME NEW c \in Resets, Append(c) PROVE TInv'
  BY <1>11 DEF Append, Goto, Lock, Phases, database, history, Rows
<1>12. ASSUME NEW c \in Resets, Commit(c) PROVE TInv'
  <2>1. /\ target[c] \in Users /\ version' = [version EXCEPT ![target[c]] = @ + 1]
        /\ pc' = [pc EXCEPT ![c] = "done"] /\ Forget(c)
        /\ held' = [held EXCEPT ![c] = {}]
        /\ UNCHANGED <<standing, target, changes, touches>>
        /\ stored' \subseteq stored /\ recorded' = recorded \cup {c}
    BY <1>12 DEF Commit, Goto, ReleaseRows
  <2>2. /\ version' \in [Users -> Nat] /\ stored' \subseteq Factors /\ recorded' \subseteq Resets
        /\ target' \in [Resets -> Users \cup {None}] /\ target'[c] \in Users
        /\ held' \in [Resets -> SUBSET Rows] /\ held'[c] = {}
        /\ \A d \in Resets \ {c} : held'[d] = held[d] /\ target'[d] = target[d]
    BY <2>1
  <2>3. QED
    BY <2>1, <2>2, EndTyped
<1>13. ASSUME NEW c \in Resets, Fail(c) PROVE TInv'
  <2>1. /\ pc' = [pc EXCEPT ![c] = "failed"] /\ Forget(c)
        /\ held' = [held EXCEPT ![c] = {}] /\ target' = [target EXCEPT ![c] = None]
        /\ UNCHANGED <<database, changes, touches>>
    BY <1>13 DEF Fail, ForgetTarget, ReleaseRows
  <2>2. QED
    BY <2>1, EndTyped DEF database
<1>14. ASSUME NEW u \in Users, ChangeStanding(u) PROVE TInv'
  BY <1>14 DEF ChangeStanding, locals
<1>15. ASSUME NEW f \in Factors, InsertFactor(f) PROVE TInv'
  BY <1>15 DEF InsertFactor, Touch
<1>16. ASSUME NEW f \in Factors, DeleteFactor(f) PROVE TInv'
  BY <1>16 DEF DeleteFactor, Touch, locals
<1>17. CASE UNCHANGED vars
  BY <1>17 DEF vars, database, locals, history
<1>18. QED
  BY <1>1, <1>2, <1>3, <1>4, <1>5, <1>6, <1>7, <1>8, <1>9, <1>10, <1>11, <1>12, <1>13,
     <1>14, <1>15, <1>16, <1>17 DEF Next, Step

(* Every reachable state is well typed, and rows are locked by open            *)
(* transactions only.                                                          *)
THEOREM TypeCorrect == Spec => []TypeOK
<1>1. TInv => TypeOK
  BY DEF TInv
<1>2. QED
  BY <1>1, TypeInit, TypeStep, PTL DEF Spec

-------------------------------------------------------------------------------
(* A reset is whole *)

RecordedOf(u) == {c \in recorded : target[c] = u}

(* Only calls that are done have an event; the counts need nothing else. *)
WInv ==
    /\ TInv
    /\ \A c \in recorded : pc[c] = "done"
    /\ ResetIsWhole

LEMMA RecordedIsFinite == TypeOK => \A u \in Users : IsFiniteSet(RecordedOf(u))
  BY ResetsAssumption, FS_Subset DEF TypeOK, RecordedOf

(* A step that records nothing: the versions move with the changes. *)
LEMMA WholeKept ==
  ASSUME WInv, [Next]_vars, \A c \in Resets : ~Commit(c)
  PROVE  /\ recorded' = recorded
         /\ \A c \in recorded : pc'[c] = pc[c] /\ target'[c] = target[c]
         /\ \A u \in Users : version'[u] - changes'[u] = version[u] - changes[u]
<1> USE DEF WInv, TInv, TypeOK
<1>1. CASE \E u \in Users : ChangeStanding(u)
  BY <1>1 DEF ChangeStanding, locals
<1>2. CASE \E c \in Resets : Call(c) \/ RefuseCall(c) \/ RefuseStanding(c) \/ RefuseRole(c) \/ Fail(c)
  BY <1>2 DEF Call, RefuseCall, RefuseStanding, RefuseRole, Fail, Running, Goto, ForgetTarget,
     database, locals, history
<1>3. CASE /\ \A c \in Resets : ~(Call(c) \/ RefuseCall(c) \/ RefuseStanding(c) \/ RefuseRole(c) \/ Fail(c))
           /\ \A u \in Users : ~ChangeStanding(u)
  BY <1>3 DEF Next, Step, QueryActor, QueryTarget, DeleteDevices, DeleteCodes, Reach, Visit, Bump,
     Append, InsertFactor, DeleteFactor, Goto, vars, database, locals, history
<1>4. QED
  BY <1>1, <1>2, <1>3

LEMMA WholeStep == WInv /\ [Next]_vars => WInv'
<1> SUFFICES ASSUME WInv, [Next]_vars PROVE WInv'
  OBVIOUS
<1>a. TInv' /\ TInv /\ TypeOK
  BY TypeStep DEF WInv, TInv
<1>1. CASE \A c \in Resets : ~Commit(c)
  <2>1. /\ recorded' = recorded
        /\ \A c \in recorded : pc'[c] = pc[c] /\ target'[c] = target[c]
        /\ \A u \in Users : version'[u] - changes'[u] = version[u] - changes[u]
    BY <1>1, WholeKept
  <2>2. \A u \in Users : RecordedOf(u)' = RecordedOf(u)
    BY <2>1 DEF RecordedOf
  <2>3. \A u \in Users : Cardinality(RecordedOf(u)) \in Nat
    BY <1>a, RecordedIsFinite, FS_CardinalityType
  <2>4. ResetIsWhole'
    <3> SUFFICES ASSUME NEW u \in Users
                 PROVE  version'[u] = 1 + changes'[u] + Cardinality(RecordedOf(u)')
      BY DEF ResetIsWhole, RecordedOf
    <3>1. version[u] = 1 + changes[u] + Cardinality(RecordedOf(u))
      BY DEF WInv, ResetIsWhole, RecordedOf
    <3>2. version[u] \in Nat /\ changes[u] \in Nat /\ version'[u] \in Nat /\ changes'[u] \in Nat
      BY <1>a DEF TInv, TypeOK
    <3>3. QED
      BY <2>1, <2>2, <2>3, <3>1, <3>2
  <2>5. QED
    BY <1>a, <2>1, <2>4 DEF WInv
<1>2. ASSUME NEW c \in Resets, Commit(c) PROVE WInv'
  <2>1. /\ target[c] \in Users /\ c \notin recorded /\ target' = target /\ changes' = changes
        /\ version' = [version EXCEPT ![target[c]] = @ + 1]
        /\ recorded' = recorded \cup {c} /\ pc' = [pc EXCEPT ![c] = "done"]
    BY <1>2, <1>a DEF Commit, Goto, WInv, TInv, Placed, Running
  <2>2. /\ RecordedOf(target[c])' = RecordedOf(target[c]) \cup {c}
        /\ c \notin RecordedOf(target[c])
        /\ \A u \in Users \ {target[c]} : RecordedOf(u)' = RecordedOf(u)
    BY <2>1 DEF RecordedOf
  <2>3. Cardinality(RecordedOf(target[c])') = Cardinality(RecordedOf(target[c])) + 1
    BY <1>a, <2>1, <2>2, RecordedIsFinite, FS_AddElement
  <2>4. \A u \in Users : Cardinality(RecordedOf(u)) \in Nat
    BY <1>a, RecordedIsFinite, FS_CardinalityType
  <2>5. ResetIsWhole'
    <3> SUFFICES ASSUME NEW u \in Users
                 PROVE  version'[u] = 1 + changes'[u] + Cardinality(RecordedOf(u)')
      BY DEF ResetIsWhole, RecordedOf
    <3>1. version[u] = 1 + changes[u] + Cardinality(RecordedOf(u))
      BY DEF WInv, ResetIsWhole, RecordedOf
    <3>2. version[u] \in Nat /\ changes[u] \in Nat /\ Cardinality(RecordedOf(u)) \in Nat
      BY <1>a, <2>4 DEF TInv, TypeOK
    <3>3. CASE u = target[c]
      BY <2>1, <2>3, <3>1, <3>2, <3>3, <1>a DEF TypeOK
    <3>4. CASE u # target[c]
      BY <2>1, <2>2, <3>1, <3>4, <1>a DEF TypeOK
    <3>5. QED
      BY <3>3, <3>4
  <2>6. \A d \in recorded' : pc'[d] = "done"
    BY <2>1, <1>a DEF WInv, TypeOK
  <2>7. QED
    BY <1>a, <2>5, <2>6 DEF WInv
<1>3. QED
  BY <1>1, <1>2

LEMMA WholeInit == Init => WInv
<1> SUFFICES ASSUME Init PROVE WInv
  OBVIOUS
<1>1. \A u \in Users : RecordedOf(u) = {}
  BY DEF Init, RecordedOf
<1>2. ResetIsWhole
  BY <1>1, FS_EmptySet DEF Init, ResetIsWhole, RecordedOf
<1>3. QED
  BY <1>2, TypeInit DEF Init, WInv

(* A reset is committed with its event and its version bump or not at all,    *)
(* whatever fails and races.                                                  *)
THEOREM WholeReset == Spec => []ResetIsWhole
<1>1. WInv => ResetIsWhole
  BY DEF WInv
<1>2. QED
  BY <1>1, WholeInit, WholeStep, PTL DEF Spec

-------------------------------------------------------------------------------
(* What is left of the factors, and what the checks are still worth *)

(* The target's rows a call has not come to, has deleted, or cannot see. *)
LeftOf(c) ==
    LET theirs == stored \cap FactorsOf(target[c])
    IN /\ pc[c] = "devices" => theirs \cap Devices \subseteq seen[c] \cup gone[c] \cup newer[c]
       /\ pc[c] \in {"codes", "append", "appended"} =>
            theirs \cap Devices \subseteq gone[c] \cup newer[c]
       /\ pc[c] = "codes" => theirs \cap Codes \subseteq seen[c] \cup gone[c] \cup newer[c]
       /\ pc[c] \in {"append", "appended"} => theirs \cap Codes \subseteq gone[c] \cup newer[c]

Checked == {"role", "devices", "codes", "append", "appended"}

AuthorityOf(c) ==
    IF Running(c)
    THEN
        /\ actor[c] # target[c]
        /\ \A u \in Users : before[c][u] <= version[u]
        /\ admin[c] => standing[actor[c]] = "admin" \/ version[actor[c]] > before[c][actor[c]]
        /\ pc[c] \in Checked =>
             admin[c] /\ (standing[target[c]] # "none" \/ version[target[c]] > before[c][target[c]])
    ELSE ~admin[c]

CInv == TInv /\ \A c \in Resets : LeftOf(c) /\ AuthorityOf(c)

(* What the step of another call, or of the others, does to c's view of things. *)
LEMMA ViewKept ==
  ASSUME TInv, NEW c \in Resets, LeftOf(c), AuthorityOf(c),
         pc'[c] = pc[c], actor'[c] = actor[c], target'[c] = target[c], admin'[c] = admin[c],
         seen'[c] = seen[c], gone'[c] = gone[c], before'[c] = before[c],
         newer[c] \subseteq newer'[c],
         Deleting(c) => stored' \ stored \subseteq newer'[c],
         version' \in [Users -> Nat],
         \A u \in Users : /\ version[u] <= version'[u]
                          /\ standing'[u] = standing[u] \/ version[u] < version'[u]
  PROVE  LeftOf(c)' /\ AuthorityOf(c)'
<1>1. LeftOf(c)'
  BY DEF LeftOf, Deleting, FactorsOf
<1>2. AuthorityOf(c)'
  <2> SUFFICES ASSUME Running(c)' PROVE AuthorityOf(c)'
    BY DEF AuthorityOf, Running
  <2>1. Running(c) /\ actor[c] \in Users /\ target[c] \in Users
    BY DEF Running, TInv, Placed
  <2>2. \A u \in Users : before[c][u] \in Nat /\ version[u] \in Nat /\ version'[u] \in Nat
    BY DEF TInv, TypeOK
  <2>3. \A u \in Users : version[u] > before[c][u] => version'[u] > before[c][u]
    BY <2>2
  <2>4. \A u \in Users : standing'[u] = standing[u] \/ version'[u] > before[c][u]
    BY <2>1, <2>2 DEF AuthorityOf
  <2>5. \A u \in Users : before[c][u] <= version'[u]
    BY <2>1, <2>2 DEF AuthorityOf
  <2>6. QED
    BY <2>1, <2>3, <2>4, <2>5 DEF AuthorityOf
<1>3. QED
  BY <1>1, <1>2

(* A call that is not running has nothing to show. *)
LEMMA ViewEnded ==
  ASSUME NEW c \in Resets, ~Running(c)', ~admin'[c]
  PROVE  LeftOf(c)' /\ AuthorityOf(c)'
  BY DEF LeftOf, AuthorityOf, Running

LEMMA CStep == CInv /\ [Next]_vars => CInv'
<1> SUFFICES ASSUME CInv, [Next]_vars PROVE CInv'
  OBVIOUS
<1>a. TInv /\ TypeOK /\ TInv' /\ version' \in [Users -> Nat]
  BY TypeStep DEF CInv, TInv, TypeOK
<1>b. ASSUME NEW c \in Resets,
             \A d \in Resets \ {c} :
                /\ pc'[d] = pc[d] /\ actor'[d] = actor[d] /\ target'[d] = target[d]
                /\ admin'[d] = admin[d] /\ seen'[d] = seen[d] /\ gone'[d] = gone[d]
                /\ before'[d] = before[d] /\ newer'[d] = newer[d],
             stored' \subseteq stored, standing' = standing,
             \A u \in Users : version[u] <= version'[u],
             LeftOf(c)' /\ AuthorityOf(c)'
      PROVE  CInv'
  <2>1. \A d \in Resets \ {c} : LeftOf(d)' /\ AuthorityOf(d)'
    BY <1>a, <1>b, ViewKept DEF CInv
  <2>2. QED
    BY <1>a, <1>b, <2>1 DEF CInv
<1>c. \A u \in Users : version[u] \in Nat
  BY <1>a DEF TypeOK
<1>1. ASSUME NEW c \in Resets, Call(c) PROVE CInv'
  <2>1. LeftOf(c)' /\ AuthorityOf(c)'
    <3>1. pc[c] = "new" /\ ~admin[c]
      BY <1>1 DEF Call, Goto, CInv, AuthorityOf, Running
    <3>2. /\ pc'[c] = "actor" /\ actor'[c] # target'[c] /\ before'[c] = version /\ version' = version
          /\ ~admin'[c]
      BY <1>1, <1>a, <3>1 DEF Call, Goto, TypeOK, database
    <3>3. QED
      BY <3>2, <1>c DEF LeftOf, AuthorityOf, Running, Checked
  <2>2. QED
    BY <1>1, <1>a, <1>b, <1>c, <2>1 DEF Call, Goto, TypeOK, database
<1>2. ASSUME NEW c \in Resets, RefuseCall(c) \/ RefuseStanding(c) \/ RefuseRole(c) \/ Fail(c) PROVE CInv'
  <2>1. ~Running(c)' /\ UNCHANGED <<stored, standing, version>>
    BY <1>2, <1>a DEF RefuseCall, RefuseStanding, RefuseRole, Fail, Running, Goto, TypeOK, database
  <2>3. ~admin'[c]
    BY <1>2, <1>a DEF RefuseCall, RefuseStanding, RefuseRole, Fail, Running, Goto, Forget, ForgetTarget,
       TypeOK, CInv, AuthorityOf, locals
  <2>2. QED
    <3>1. \A d \in Resets \ {c} :
             /\ pc'[d] = pc[d] /\ actor'[d] = actor[d] /\ target'[d] = target[d]
             /\ admin'[d] = admin[d] /\ seen'[d] = seen[d] /\ gone'[d] = gone[d]
             /\ before'[d] = before[d] /\ newer'[d] = newer[d]
      BY <1>2, <1>a DEF RefuseCall, RefuseStanding, RefuseRole, Fail, Goto, Forget, ForgetTarget,
         TypeOK, locals, history
    <3>2. QED
      BY <1>b, <1>c, <2>1, <2>3, <3>1, ViewEnded
<1>3. ASSUME NEW c \in Resets, QueryActor(c) \/ QueryTarget(c) PROVE CInv'
  <2>0. LeftOf(c) /\ AuthorityOf(c) /\ Running(c) /\ pc[c] \in {"actor", "target"}
    BY <1>3 DEF CInv, QueryActor, QueryTarget, Goto, Running
  <2>1. LeftOf(c)'
    BY <1>3, <1>a DEF QueryActor, QueryTarget, Goto, LeftOf, TypeOK
  <2>2. AuthorityOf(c)'
    BY <1>3, <1>a, <2>0 DEF QueryActor, QueryTarget, TargetIsMember, Goto, AuthorityOf, TypeOK,
       database, locals, history, Checked, Running
  <2>3. QED
    <3>1. /\ UNCHANGED <<standing, version, stored>>
          /\ \A d \in Resets \ {c} :
                /\ pc'[d] = pc[d] /\ actor'[d] = actor[d] /\ target'[d] = target[d]
                /\ admin'[d] = admin[d] /\ seen'[d] = seen[d] /\ gone'[d] = gone[d]
                /\ before'[d] = before[d] /\ newer'[d] = newer[d]
      BY <1>3, <1>a DEF QueryActor, QueryTarget, Goto, TypeOK, database, locals, history
    <3>2. QED
      BY <1>b, <1>c, <2>1, <2>2, <3>1
<1>4. ASSUME NEW c \in Resets, DeleteDevices(c) \/ DeleteCodes(c) \/ Reach(c) \/ Visit(c) \/ Bump(c) \/ Append(c)
      PROVE  CInv'
  <2>0. LeftOf(c) /\ AuthorityOf(c) /\ Running(c) /\ Running(c)'
        /\ (pc[c] \in Checked) /\ (pc'[c] \in Checked)
    BY <1>4, <1>a DEF CInv, DeleteDevices, DeleteCodes, Reach, Visit, Scanning, Bump, Append, Goto, Running,
       Checked, TypeOK
  <2>1. LeftOf(c)'
    <3>1. CASE DeleteDevices(c)
      BY <3>1, <1>a DEF DeleteDevices, Snapshot, Matches, Goto, LeftOf, FactorsOf, TypeOK, database
    <3>2. CASE DeleteCodes(c)
      BY <3>2, <1>a, <2>0, RowsAssumption DEF DeleteCodes, Scanned, Snapshot, Matches, Goto, LeftOf, FactorsOf,
         TypeOK, database
    <3>3. CASE Reach(c)
      BY <3>3, <1>a, <2>0 DEF Reach, LeftOf, FactorsOf, TypeOK, database
    <3>4. CASE Visit(c)
      <4>1. /\ pc' = pc /\ stored' = stored /\ target' = target /\ newer' = newer
            /\ seen'[c] = seen[c] \ {next[c]} /\ gone[c] \subseteq gone'[c]
            /\ next[c] \in stored => next[c] \in gone'[c] \cup newer[c]
        BY <3>4, <1>a DEF Visit, TypeOK, database
      <4>2. QED
        BY <4>1, <2>0 DEF LeftOf, FactorsOf
    <3>5. CASE Bump(c) \/ Append(c)
      BY <3>5, <1>a, <2>0 DEF Bump, Append, Scanned, Goto, LeftOf, FactorsOf, TypeOK, database
    <3>6. QED
      BY <1>4, <3>1, <3>2, <3>3, <3>4, <3>5
  <2>2. UNCHANGED <<standing, version, actor, target, admin, before, stored>>
    BY <1>4 DEF DeleteDevices, DeleteCodes, Reach, Visit, Bump, Append, database, history
  <2>3. AuthorityOf(c)'
    BY <2>0, <2>2 DEF AuthorityOf
  <2>4. \A d \in Resets \ {c} : pc'[d] = pc[d] /\ seen'[d] = seen[d] /\ gone'[d] = gone[d] /\ newer'[d] = newer[d]
    BY <1>4, <1>a DEF DeleteDevices, DeleteCodes, Snapshot, Reach, Visit, Bump, Append, Goto, TypeOK
  <2>5. QED
    BY <1>b, <1>c, <2>1, <2>2, <2>3, <2>4
<1>5. ASSUME NEW c \in Resets, Commit(c) PROVE CInv'
  <2>1. /\ ~Running(c)' /\ stored' \subseteq stored /\ standing' = standing /\ target[c] \in Users
        /\ ~admin'[c]
    BY <1>5, <1>a DEF Commit, Goto, Forget, Running, TypeOK, TInv, Placed
  <2>2. \A u \in Users : version[u] <= version'[u]
    BY <1>5, <1>a, <1>c, <2>1 DEF Commit, TypeOK
  <2>3. QED
    BY <1>5, <1>a, <1>b, <2>1, <2>2, ViewEnded DEF Commit, Goto, Forget, TypeOK
<1>6. ASSUME NEW u \in Users, ChangeStanding(u) PROVE CInv'
  <2>1. /\ UNCHANGED <<pc, locals, before, stored>>
        /\ \A w \in Users : /\ version[w] <= version'[w]
                            /\ standing'[w] = standing[w] \/ version[w] < version'[w]
    BY <1>6, <1>a, <1>c DEF ChangeStanding, TypeOK
  <2>2. QED
    BY <1>a, <2>1, ViewKept DEF CInv, locals
<1>7. ASSUME NEW f \in Factors, InsertFactor(f) \/ DeleteFactor(f) PROVE CInv'
  <2>1. /\ UNCHANGED <<pc, actor, target, admin, seen, gone, before, standing, version>>
        /\ \A c \in Resets : /\ newer[c] \subseteq newer'[c]
                             /\ Deleting(c) => stored' \ stored \subseteq newer'[c]
    BY <1>7, <1>a DEF InsertFactor, DeleteFactor, TypeOK, locals
  <2>2. QED
    BY <1>a, <1>c, <2>1, ViewKept DEF CInv
<1>8. CASE UNCHANGED vars
  <2>1. \A c \in Resets : LeftOf(c)' /\ AuthorityOf(c)'
    BY <1>8, <1>a, <1>c, ViewKept DEF CInv, vars, database, locals, history
  <2>2. QED
    BY <1>a, <2>1 DEF CInv
<1>9. QED
  BY <1>1, <1>2, <1>3, <1>4, <1>5, <1>6, <1>7, <1>8 DEF Next, Step

LEMMA CInit == Init => CInv
  BY TypeInit DEF Init, CInv, LeftOf, AuthorityOf, Running

LEMMA OnlyCommitCommits ==
  ASSUME TInv, [Next]_vars, NEW c \in Resets, Committed(c)
  PROVE  Commit(c)
  BY DEF TInv, TypeOK, Committed, Next, Step, Call, RefuseCall, QueryActor, QueryTarget, RefuseStanding,
     RefuseRole, DeleteDevices, DeleteCodes, Reach, Visit, Bump, Append, Commit, Fail, ChangeStanding,
     InsertFactor, DeleteFactor, Goto, vars, locals

(* A committed reset leaves no factor its statements could see. *)
THEOREM OnlyNewLeft == Spec => LeavesOnlyNew
<1>1. CInv /\ [Next]_vars =>
        [\A c \in Resets : Committed(c) => stored' \cap FactorsOf(target[c]) \subseteq newer[c]]_vars
  <2> SUFFICES ASSUME CInv, [Next]_vars, NEW c \in Resets, Committed(c)
               PROVE  stored' \cap FactorsOf(target[c]) \subseteq newer[c]
    OBVIOUS
  <2>1. stored' = stored \ gone[c] /\ pc[c] = "appended"
    BY OnlyCommitCommits DEF CInv, Commit, Goto
  <2>2. QED
    BY <2>1 DEF CInv, LeftOf, FactorsOf, Factors
<1>2. QED
  BY <1>1, CInit, CStep, PTL DEF Spec, LeavesOnlyNew

(* At its commit a reset is by an administrator on another member, or the     *)
(* sessions of whoever is no longer either are already invalid.               *)
THEOREM AuthorityKept == Spec => AuthorityOrStale
<1>1. CInv /\ [Next]_vars =>
        [\A c \in Resets : Committed(c) =>
           /\ actor[c] # target[c]
           /\ standing[actor[c]] = "admin" \/ version[actor[c]] > before[c][actor[c]]
           /\ standing[target[c]] # "none" \/ version[target[c]] > before[c][target[c]]]_vars
  <2> SUFFICES ASSUME CInv, [Next]_vars, NEW c \in Resets, Committed(c)
               PROVE  /\ actor[c] # target[c]
                      /\ standing[actor[c]] = "admin" \/ version[actor[c]] > before[c][actor[c]]
                      /\ standing[target[c]] # "none" \/ version[target[c]] > before[c][target[c]]
    OBVIOUS
  <2>1. pc[c] = "appended"
    BY OnlyCommitCommits DEF CInv, Commit, Goto
  <2>2. QED
    BY <2>1 DEF CInv, AuthorityOf, Running, Checked
<1>2. QED
  BY <1>1, CInit, CStep, PTL DEF Spec, AuthorityOrStale
-------------------------------------------------------------------------------
(* Deadlocks *)

(* Where the rows are that a call has locked or is going to: DeadlocksInOneDelete *)
(* needs the order in which the tables are come to.                              *)
LocksOf(c) ==
    /\ ~Scanning(c) => seen[c] = {} /\ next[c] = None
    /\ pc[c] = "devices" => seen[c] \subseteq Devices /\ next[c] \in Devices \cup {None}
    /\ pc[c] = "codes" => seen[c] \subseteq Codes /\ next[c] \in Codes \cup {None}
    /\ \A f \in seen[c] \cup {next[c]} : f \in Factors => Owner[f] = target[c]
    /\ \A r \in held[c] :
         /\ r \in Factors => Owner[r] = target[c]
         /\ r \in Codes => pc[c] \in {"codes", "append", "appended"}
         /\ r \in Users => pc[c] \in {"append", "appended"}
         /\ r = Head => pc[c] = "appended"

LInv == TInv /\ \A c \in Resets : LocksOf(c)

LEMMA LocksInit == Init => LInv
  BY TypeInit, RowsAssumption DEF Init, LInv, LocksOf, Rows

(* A call whose locals and locks are gone has nothing to show. *)
LEMMA LocksEnded ==
  ASSUME NEW c \in Resets, next'[c] = None, seen'[c] = {}, held'[c] = {}
  PROVE  LocksOf(c)'
  BY RowsAssumption DEF LocksOf, Rows

LEMMA LocksStep == LInv /\ [Next]_vars => LInv'
<1> SUFFICES ASSUME LInv, [Next]_vars PROVE LInv'
  OBVIOUS
<1>a. TInv /\ TypeOK /\ TInv' /\ \A c \in Resets : LocksOf(c)
  BY TypeStep DEF LInv, TInv
<1>b. ASSUME NEW c \in Resets, LocksOf(c)',
             \A d \in Resets \ {c} :
                /\ pc'[d] = pc[d] /\ target'[d] = target[d] /\ seen'[d] = seen[d]
                /\ next'[d] = next[d] /\ held'[d] = held[d]
      PROVE  LInv'
  <2>1. \A d \in Resets \ {c} : LocksOf(d)'
    BY <1>a, <1>b DEF LocksOf, Scanning
  <2>2. QED
    BY <1>a, <1>b, <2>1 DEF LInv
<1>c. \A c \in Resets : held[c] # {} => Deleting(c)
  BY <1>a DEF TypeOK
<1>1. ASSUME NEW c \in Resets, Call(c) \/ RefuseCall(c) \/ QueryActor(c) \/ QueryTarget(c) PROVE LInv'
  <2>1. /\ pc[c] \in {"new", "actor", "target"} /\ UNCHANGED <<seen, next, held>>
        /\ \A d \in Resets \ {c} : pc'[d] = pc[d] /\ target'[d] = target[d]
    BY <1>1, <1>a DEF Call, RefuseCall, QueryActor, QueryTarget, Goto, TypeOK, locals
  <2>2. seen[c] = {} /\ next[c] = None /\ held[c] = {}
    BY <1>a, <1>c, <2>1 DEF LocksOf, Scanning, Deleting
  <2>3. QED
    BY <1>b, <2>1, <2>2, LocksEnded
<1>2. ASSUME NEW c \in Resets, RefuseStanding(c) \/ RefuseRole(c) \/ Commit(c) \/ Fail(c) PROVE LInv'
  <2>1. /\ Forget(c) /\ held'[c] = {}
        /\ \A d \in Resets \ {c} : pc'[d] = pc[d] /\ target'[d] = target[d] /\ held'[d] = held[d]
    BY <1>2, <1>a, <1>c DEF RefuseStanding, RefuseRole, Commit, Fail, ForgetTarget, ReleaseRows, Goto,
       TypeOK, Deleting
  <2>2. /\ seen'[c] = {} /\ next'[c] = None
        /\ \A d \in Resets \ {c} : seen'[d] = seen[d] /\ next'[d] = next[d]
    BY <2>1, <1>a DEF Forget, TypeOK
  <2>3. QED
    BY <1>b, <2>1, <2>2, LocksEnded
<1>3. ASSUME NEW c \in Resets, DeleteDevices(c) PROVE LInv'
  <2>1. /\ pc[c] = "role" /\ pc' = [pc EXCEPT ![c] = "devices"]
        /\ seen' = [seen EXCEPT ![c] = Matches(c, Devices)]
        /\ UNCHANGED <<target, next, held>>
    BY <1>3 DEF DeleteDevices, Snapshot, Goto
  <2>2. next[c] = None /\ held[c] = {}
    BY <1>a, <1>c, <2>1 DEF LocksOf, Scanning, Deleting
  <2>3. LocksOf(c)'
    BY <1>a, <2>1, <2>2, RowsAssumption DEF LocksOf, Scanning, Matches, FactorsOf, TypeOK, Rows
  <2>4. QED
    BY <1>a, <1>b, <2>1, <2>3 DEF TypeOK
<1>4. ASSUME NEW c \in Resets, DeleteCodes(c) PROVE LInv'
  <2>1. /\ pc[c] = "devices" /\ pc' = [pc EXCEPT ![c] = "codes"] /\ next[c] = None
        /\ seen' = [seen EXCEPT ![c] = Matches(c, Codes)]
        /\ UNCHANGED <<target, next, held>>
    BY <1>4 DEF DeleteCodes, Snapshot, Scanned, Goto
  <2>2. LocksOf(c)'
    BY <1>a, <2>1, RowsAssumption DEF LocksOf, Scanning, Matches, FactorsOf, TypeOK, Rows
  <2>3. QED
    BY <1>a, <1>b, <2>1, <2>2 DEF TypeOK
<1>5. ASSUME NEW c \in Resets, Reach(c) PROVE LInv'
  <2>1. PICK f \in seen[c] : next' = [next EXCEPT ![c] = f]
    BY <1>5 DEF Reach
  <2>2. Scanning(c) /\ UNCHANGED <<pc, target, seen, held>>
    BY <1>5 DEF Reach
  <2>3. LocksOf(c)'
    BY <1>a, <2>1, <2>2 DEF LocksOf, Scanning, TypeOK
  <2>4. QED
    BY <1>a, <1>b, <2>1, <2>2, <2>3 DEF TypeOK
<1>6. ASSUME NEW c \in Resets, Visit(c) PROVE LInv'
  <2>1. /\ Scanning(c) /\ next[c] \in Factors
        /\ seen' = [seen EXCEPT ![c] = @ \ {next[c]}]
        /\ next' = [next EXCEPT ![c] = None]
        /\ UNCHANGED <<pc, target>>
        /\ held' = held \/ held' = [held EXCEPT ![c] = @ \cup {next[c]}]
    BY <1>6, <1>a DEF Visit, Lock, TypeOK
  <2>2. \A r \in held'[c] \ held[c] : r = next[c]
    BY <1>a, <2>1 DEF TypeOK
  <2>3. LocksOf(c)'
    BY <1>a, <2>1, <2>2, RowsAssumption DEF LocksOf, Scanning, TypeOK, Rows, Factors
  <2>4. QED
    BY <1>a, <1>b, <2>1, <2>3 DEF TypeOK
<1>7. ASSUME NEW c \in Resets, Bump(c) \/ Append(c) PROVE LInv'
  <2>1. /\ UNCHANGED <<target, seen, next>> /\ ~Scanning(c)' /\ seen[c] = {} /\ next[c] = None
        /\ \A d \in Resets \ {c} : pc'[d] = pc[d] /\ held'[d] = held[d]
    BY <1>7, <1>a DEF Bump, Append, Scanned, Lock, Goto, LocksOf, Scanning, TypeOK
  <2>2. \/ /\ pc[c] = "codes" /\ pc'[c] = "append" /\ target[c] \in Users
           /\ held'[c] = held[c] \cup {target[c]}
        \/ /\ pc[c] = "append" /\ pc'[c] = "appended" /\ held'[c] = held[c] \cup {Head}
    BY <1>7, <1>a DEF Bump, Append, Lock, Goto, TInv, TypeOK, Placed, Running
  <2>3. LocksOf(c)'
    BY <1>a, <2>1, <2>2, RowsAssumption DEF LocksOf, Scanning, TypeOK, Rows, Factors
  <2>4. QED
    BY <1>b, <2>1, <2>3
<1>8. CASE UNCHANGED <<pc, target, seen, next, held>>
  BY <1>a, <1>8 DEF LInv, LocksOf, Scanning
<1>9. QED
  <2>1. ASSUME NEW u \in Users, ChangeStanding(u) PROVE UNCHANGED <<pc, target, seen, next, held>>
    BY <2>1 DEF ChangeStanding, locals
  <2>2. ASSUME NEW f \in Factors, InsertFactor(f) \/ DeleteFactor(f)
        PROVE  UNCHANGED <<pc, target, seen, next, held>>
    BY <2>2 DEF InsertFactor, DeleteFactor, locals
  <2>3. UNCHANGED vars => UNCHANGED <<pc, target, seen, next, held>>
    BY DEF vars, locals
  <2>4. QED
    BY <1>1, <1>2, <1>3, <1>4, <1>5, <1>6, <1>7, <1>8, <2>1, <2>2, <2>3 DEF Next, Step

(* Who waits in a deadlock waits for a factor of its target, and for a call   *)
(* that has come as far: the tables are locked in one order.                  *)
LEMMA StuckOnFactors ==
  ASSUME LInv, NEW S \in SUBSET Resets, Stuck(S), NEW c \in S, NEW b \in S, b \in WaitsFor(c)
  PROVE  /\ Scanning(c) /\ Scanning(b) /\ target[b] = target[c]
         /\ pc[c] = "codes" => pc[b] = "codes"
<1> USE RowsAssumption DEF Rows, Factors
<1>a. TypeOK /\ \A d \in Resets : LocksOf(d)
  BY DEF LInv, TInv
<1>1. \A d \in S : WaitsFor(d) # {}
  BY DEF Stuck
<1>2. \A d \in S : pc[d] # "appended"
  BY <1>1 DEF WaitsFor, Wanted, Scanning, Scanned
<1>3. \A d \in S : pc[d] # "append"
  <2> SUFFICES ASSUME NEW d \in S, pc[d] = "append" PROVE FALSE
    OBVIOUS
  <2>1. Wanted(d) = {Head}
    BY DEF Wanted, Scanning, Scanned
  <2>2. PICK e \in S : e \in WaitsFor(d)
    BY DEF Stuck
  <2>3. Head \in held[e]
    BY <2>1, <2>2 DEF WaitsFor
  <2>4. QED
    BY <1>a, <1>2, <2>3 DEF LocksOf
<1>4. \A d \in S : Scanning(d)
  BY <1>1, <1>2, <1>3 DEF WaitsFor, Wanted, Scanned
<1>5. Wanted(c) = {next[c]} /\ next[c] \in Factors
  <2>1. next[c] # None
    <3> SUFFICES ASSUME next[c] = None PROVE FALSE
      OBVIOUS
    <3>1. Wanted(c) \subseteq {target[c]} /\ target[c] \in Users
      BY <1>4, <1>a DEF Wanted, Scanned, Scanning, LInv, TInv, Placed, Running
    <3>2. target[c] \in held[b] /\ target[c] \in Users
      BY <3>1 DEF WaitsFor
    <3>3. QED
      BY <1>a, <1>2, <1>3, <3>2 DEF LocksOf
  <2>2. QED
    <3>1. next[c] \in Factors \cup {None} /\ Scanning(c)
      BY <1>4, <1>a DEF TypeOK
    <3>2. QED
      BY <2>1, <3>1 DEF Wanted, Scanned, Scanning
<1>6. next[c] \in held[b]
  BY <1>5 DEF WaitsFor
<1>7. QED
  BY <1>4, <1>5, <1>6, <1>a DEF LocksOf, Scanning

(* A deadlock of resets is one of resets of the same user in the same DELETE, *)
(* for any number of resets, users and factors.                               *)
THEOREM DeadlocksMeetInOneDelete == Spec => []DeadlocksInOneDelete
<1>1. LInv => DeadlocksInOneDelete
  <2> SUFFICES ASSUME LInv, NEW S \in SUBSET Resets, Stuck(S)
               PROVE  \E T \in SUBSET S :
                        /\ Stuck(T)
                        /\ \A b, c \in T : Scanning(b) /\ pc[b] = pc[c] /\ target[b] = target[c]
    BY DEF DeadlocksInOneDelete
  <2>1. \A c \in S : \E b \in S : b \in WaitsFor(c)
    BY DEF Stuck
  <2>2. PICK a \in S : TRUE
    BY DEF Stuck
  <2> DEFINE Same == {b \in S : target[b] = target[a]}
             Late == {b \in Same : pc[b] = "codes"}
  <2>3. \A c \in Same : Scanning(c) /\ \E b \in Same : b \in WaitsFor(c)
    BY <2>1, StuckOnFactors
  <2>4. CASE Late # {}
    <3>1. \A c \in Late : \E b \in Late : b \in WaitsFor(c)
      BY <2>3, StuckOnFactors
    <3>2. Stuck(Late)
      BY <2>4, <3>1 DEF Stuck
    <3>3. QED
      BY <2>3, <3>2
  <2>5. CASE Late = {}
    <3>1. \A c \in Same : pc[c] = "devices"
      BY <2>3, <2>5 DEF Scanning
    <3>2. Stuck(Same)
      BY <2>2, <2>3 DEF Stuck
    <3>3. QED
      BY <2>3, <3>1, <3>2
  <2>6. QED
    BY <2>4, <2>5
<1>2. QED
  BY <1>1, LocksInit, LocksStep, PTL DEF Spec
===============================================================================

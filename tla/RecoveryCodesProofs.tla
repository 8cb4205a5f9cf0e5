-------------------------- MODULE RecoveryCodesProofs --------------------------
(***************************************************************************)
(* Theorems about RecoveryCodes for any number of calls and any batch size *)
(* the code allows.                                                        *)
(***************************************************************************)
EXTENDS RecoveryCodes, TLAPS

Open(c) == pc[c] \in {"scan", "written"}

(* What is known of one call: what it has found it has locked and it still    *)
(* matches; what it is through with and has not found is unused no more; a    *)
(* valid candidate was in its snapshot; an accepted one is valid no more.     *)
Own(c) ==
    /\ found[c] \subseteq held[c] /\ found[c] \subseteq visited[c]
    /\ visited[c] \subseteq seen[c] /\ seen[c] \subseteq Known
    /\ candidate[c] \in Known \cup {Wrong}
    /\ next[c] # None => pc[c] = "scan" /\ next[c] \in seen[c]
    /\ ~Open(c) => held[c] = {} /\ found[c] = {}
    /\ \A r \in found[c] : Matches(c, r)
    /\ Open(c) => \A r \in visited[c] : Matches(c, r) => r \in found[c]
    /\ Open(c) /\ c \in Consumers /\ candidate[c] # Wrong /\ row[candidate[c]] = "unused" =>
         candidate[c] \in seen[c]
    /\ pc[c] = "new" => seen[c] = {} /\ visited[c] = {} /\ candidate[c] = Wrong
    /\ pc[c] = "written" =>
         /\ visited[c] = seen[c]
         /\ c \in Replacers \/ (c \in Consumers /\ candidate[c] \in found[c])
    /\ pc[c] = "accepted" =>
         c \in Consumers /\ candidate[c] \in Known /\ row[candidate[c]] # "unused"
    /\ pc[c] = "changed" => c \notin Consumers

Apart == \A b, c \in Calls : b # c => held[b] \cap held[c] = {}

RInv == TypeOK /\ Apart /\ \A c \in Calls : Own(c)

-------------------------------------------------------------------------------
(* Rows *)

LEMMA BatchIsNew ==
  ASSUME RInv, NEW c \in Calls, pc[c] # "changed", NEW r \in Codes, r \in BatchOf(c)
  PROVE  r \notin Known
<1>1. r[1] = c /\ c # Enrolment
  BY EnrolmentAssumption DEF BatchOf, Codes
<1>2. QED
  BY <1>1 DEF Known

LEMMA OnlyTwoWrite ==
  ASSUME [Next]_vars
  PROVE  row' = row \/ \E c \in Calls : Accept(c) \/ Change(c)
  BY DEF Next, Step, vars, RefuseMalformed, Query, Reach, Visit, Mark, Refuse, Insert, Fail

(* What is known stays known. *)
LEMMA KnownGrows == RInv /\ [Next]_vars => Known \subseteq Known'
<1> SUFFICES ASSUME RInv, [Next]_vars, NEW c \in Calls, pc[c] = "changed" PROVE pc'[c] = "changed"
  BY DEF Known, Codes, Calls
<1> USE DEF RInv, TypeOK
<1>1. ASSUME NEW b \in Calls, RefuseMalformed(b) \/ Query(b) \/ Mark(b) \/ Insert(b)
      PROVE  pc'[c] = "changed"
  BY <1>1 DEF RefuseMalformed, Query, Mark, Insert, Scanned
<1>2. ASSUME NEW b \in Calls, Reach(b) \/ Visit(b) PROVE pc'[c] = "changed"
  BY <1>2 DEF Reach, Visit
<1>3. ASSUME NEW b \in Calls, Refuse(b) \/ Accept(b) \/ Change(b) \/ Fail(b) PROVE pc'[c] = "changed"
  BY <1>3 DEF Refuse, Accept, Change, Fail, End, Scanned
<1>4. CASE UNCHANGED vars
  BY <1>4 DEF vars
<1>5. QED
  BY <1>1, <1>2, <1>3, <1>4 DEF Next, Step

(* A step changes known rows only if its call has found, and so locked, them; *)
(* and a known code only ages: it never becomes valid again.                  *)
LEMMA RowsAge ==
  ASSUME RInv, [Next]_vars, NEW r \in Known
  PROVE  /\ row'[r] = row[r] \/ \E c \in Calls : r \in found[c] /\ ~Open(c)'
         /\ \A d \in Calls : Matches(d, r)' => Matches(d, r)
         /\ row'[r] = "unused" => row[r] = "unused"
<1>0. r \in Codes /\ row \in [Codes -> {"absent", "unused", "used"}]
  BY DEF Known, RInv, TypeOK
<1>1. CASE row' = row
  BY <1>1 DEF Matches
<1>2. ASSUME NEW c \in Calls, Accept(c)
      PROVE  /\ row'[r] = row[r] \/ (r \in found[c] /\ ~Open(c)')
             /\ \A d \in Calls : Matches(d, r)' => Matches(d, r)
             /\ row'[r] = "unused" => row[r] = "unused"
  <2>1. candidate[c] \in found[c] /\ row[candidate[c]] = "unused" /\ candidate[c] \in Codes
    BY <1>2, CallsAssumption DEF Accept, RInv, Own, Matches, TypeOK
  <2>2. pc'[c] = "accepted"
    BY <1>2 DEF Accept, End, RInv, TypeOK
  <2>3. QED
    BY <1>0, <1>2, <2>1, <2>2 DEF Accept, Matches, Open
<1>3. ASSUME NEW c \in Calls, Change(c)
      PROVE  /\ row'[r] = row[r] \/ (r \in found[c] /\ ~Open(c)')
             /\ \A d \in Calls : Matches(d, r)' => Matches(d, r)
             /\ row'[r] = "unused" => row[r] = "unused"
  <2>1. r \notin BatchOf(c)
    BY <1>0, <1>3, BatchIsNew DEF Change, Scanned
  <2>2. pc'[c] = "changed"
    BY <1>3 DEF Change, End, RInv, TypeOK
  <2>3. row'[r] = IF r \in found[c] THEN "absent" ELSE row[r]
    BY <1>0, <1>3, <2>1 DEF Change, RowsAfter
  <2>4. QED
    BY <1>0, <2>2, <2>3 DEF Matches, Open
<1>4. QED
  BY <1>1, <1>2, <1>3, OnlyTwoWrite

-------------------------------------------------------------------------------
(* Calls *)

(* c acts: nothing of another call changes. *)
Alone(c) == \A d \in Calls \ {c} :
    /\ pc'[d] = pc[d] /\ candidate'[d] = candidate[d] /\ seen'[d] = seen[d]
    /\ visited'[d] = visited[d] /\ next'[d] = next[d] /\ held'[d] = held[d]
    /\ found'[d] = found[d]

LEMMA OthersKept ==
  ASSUME RInv, [Next]_vars, NEW c \in Calls, Alone(c), NEW d \in Calls \ {c}
  PROVE  Own(d)'
<1>1. Own(d) /\ Known \subseteq Known' /\ Wrong \notin Codes /\ Known \subseteq Codes
  BY KnownGrows, NoneAssumption DEF RInv, Known
<1>2. \A r \in found[d] : Matches(d, r)'
  <2>1. SUFFICES ASSUME NEW r \in found[d] PROVE Matches(d, r)'
    OBVIOUS
  <2>2. r \in Known /\ Matches(d, r)
    BY <1>1 DEF Own
  <2>3. \A b \in Calls : r \in found[b] => b = d
    BY <1>1 DEF Own, RInv, Apart
  <2>4. Open(d)'
    BY <1>1 DEF Own, Open, Alone
  <2>5. row'[r] = row[r]
    BY <2>2, <2>3, <2>4, RowsAge
  <2>6. QED
    BY <2>2, <2>5 DEF Matches
<1>3. \A r \in Known : Matches(d, r)' => Matches(d, r)
  BY RowsAge
<1>4. \A r \in Known : row'[r] = "unused" => row[r] = "unused"
  BY RowsAge
<1>5. QED
  BY <1>1, <1>2, <1>3, <1>4 DEF Own, Open, Alone

LEMMA ActsAlone ==
  ASSUME RInv, NEW c \in Calls, RefuseMalformed(c) \/ Query(c) \/ Step(c) \/ Fail(c)
  PROVE  Alone(c)
<1> USE DEF RInv, TypeOK, Alone
<1>1. CASE RefuseMalformed(c) \/ Query(c)
  BY <1>1 DEF RefuseMalformed, Query
<1>2. CASE Reach(c) \/ Visit(c)
  BY <1>2 DEF Reach, Visit
<1>3. CASE Mark(c) \/ Insert(c)
  BY <1>3 DEF Mark, Insert
<1>4. CASE Refuse(c) \/ Accept(c) \/ Change(c) \/ Fail(c)
  BY <1>4 DEF Refuse, Accept, Change, Fail, End, ReleaseRows
<1>5. QED
  BY <1>1, <1>2, <1>3, <1>4 DEF Step

(* What is known of the call that acts. *)
LEMMA OwnKept ==
  ASSUME RInv, [Next]_vars, NEW c \in Calls, RefuseMalformed(c) \/ Query(c) \/ Step(c) \/ Fail(c)
  PROVE  Own(c)'
<1>1. /\ Own(c) /\ TypeOK /\ Known \subseteq Known' /\ Wrong \notin Codes /\ None \notin Codes
      /\ Known \subseteq Codes
  BY KnownGrows, NoneAssumption DEF RInv, Known
<1>2. CASE RefuseMalformed(c)
  BY <1>1, <1>2 DEF RefuseMalformed, Own, Open, TypeOK, Matches
<1>3. CASE Query(c)
  <2>1. {r \in Codes : Matches(c, r)} \subseteq Known
    BY <1>1 DEF Matches, TypeOK
  <2>2. c \in Consumers => {r \in Codes : row[r] = "unused"} \subseteq {r \in Codes : Matches(c, r)}
    BY DEF Matches
  <2>3. row' = row /\ pc'[c] = "scan" /\ seen'[c] = {r \in Codes : Matches(c, r)}
        /\ visited'[c] = visited[c] /\ next'[c] = next[c] /\ held'[c] = held[c]
        /\ found'[c] = found[c] /\ candidate'[c] \in Known \cup {Wrong} /\ pc[c] = "new"
    BY <1>1, <1>3 DEF Query, TypeOK, Own
  <2>4. QED
    BY <1>1, <2>1, <2>2, <2>3 DEF Own, Open, Calls
<1>4. CASE Reach(c)
  BY <1>1, <1>4 DEF Reach, Own, Open, TypeOK, Matches
<1>5. CASE Visit(c)
  BY <1>1, <1>5 DEF Visit, Own, Open, TypeOK, Matches
<1>6. CASE Mark(c) \/ Insert(c)
  BY <1>1, <1>6 DEF Mark, Insert, Scanned, Own, Open, TypeOK, Matches
<1>7. CASE Refuse(c) \/ Fail(c)
  BY <1>1, <1>7 DEF Refuse, Fail, Scanned, End, ReleaseRows, Own, Open, TypeOK, Matches
<1>8. CASE Accept(c)
  <2>1. candidate[c] \in found[c] /\ candidate[c] \in Known /\ c \in Consumers
    BY <1>1, <1>8, CallsAssumption DEF Accept, Own
  <2>2. row'[candidate[c]] = "used" /\ pc'[c] = "accepted"
    BY <1>1, <1>8, <2>1 DEF Accept, End, TypeOK
  <2>3. /\ candidate'[c] = candidate[c] /\ seen'[c] = {} /\ visited'[c] = {}
        /\ next'[c] = None /\ held'[c] = {} /\ found'[c] = {}
    BY <1>1, <1>8 DEF Accept, End, ReleaseRows, TypeOK
  <2>4. QED
    BY <1>1, <2>1, <2>2, <2>3 DEF Own, Open
<1>9. CASE Change(c)
  BY <1>1, <1>9, CallsAssumption DEF Change, Scanned, End, ReleaseRows, Own, Open, TypeOK, Matches
<1>10. QED
  BY <1>2, <1>3, <1>4, <1>5, <1>6, <1>7, <1>8, <1>9 DEF Step

LEMMA ApartKept ==
  ASSUME RInv, NEW c \in Calls, RefuseMalformed(c) \/ Query(c) \/ Step(c) \/ Fail(c)
  PROVE  Apart'
<1>1. Apart /\ TypeOK /\ Alone(c)
  BY ActsAlone DEF RInv
<1>2. CASE held'[c] \subseteq held[c]
  BY <1>1, <1>2 DEF Apart, Alone
<1>3. CASE Visit(c)
  <2>1. held'[c] \subseteq held[c] \cup {next[c]} /\ \A b \in Calls \ {c} : next[c] \notin held[b]
    BY <1>1, <1>3 DEF Visit, Free, TypeOK
  <2>2. QED
    BY <1>1, <2>1 DEF Apart, Alone
<1>4. Visit(c) \/ held'[c] \subseteq held[c]
  BY <1>1 DEF Step, RefuseMalformed, Query, Reach, Mark, Insert, Refuse, Accept, Change, Fail,
    End, ReleaseRows, TypeOK
<1>5. QED
  BY <1>2, <1>3, <1>4

LEMMA TypeKept ==
  ASSUME RInv, [Next]_vars, NEW c \in Calls, RefuseMalformed(c) \/ Query(c) \/ Step(c) \/ Fail(c)
  PROVE  TypeOK'
<1>1. TypeOK /\ Own(c) /\ Known \subseteq Codes /\ Known \subseteq Known'
  BY KnownGrows DEF RInv, Known
<1>2. CASE RefuseMalformed(c) \/ Query(c)
  BY <1>1, <1>2 DEF RefuseMalformed, Query, TypeOK, Phases
<1>3. CASE Reach(c) \/ Visit(c)
  <2>1. next[c] # None => next[c] \in Codes
    BY <1>1 DEF Own
  <2>2. QED
    BY <1>1, <1>3, <2>1 DEF Reach, Visit, TypeOK, Phases
<1>4. CASE Mark(c) \/ Insert(c)
  BY <1>1, <1>4 DEF Mark, Insert, TypeOK, Phases
<1>5. CASE Refuse(c) \/ Accept(c) \/ Change(c) \/ Fail(c)
  <2>1. /\ pc' \in [Calls -> Phases] /\ next' \in [Calls -> Codes \cup {None}]
        /\ held' \in [Calls -> SUBSET Codes] /\ found' \in [Calls -> SUBSET Codes]
        /\ candidate' \in [Calls -> Codes \cup {Wrong}]
        /\ seen' \in [Calls -> SUBSET Codes] /\ visited' \in [Calls -> SUBSET Codes]
    BY <1>1, <1>5 DEF Refuse, Accept, Change, Fail, End, ReleaseRows, TypeOK, Phases
  <2>2. row' \in [Codes -> {"absent", "unused", "used"}]
    BY <1>1, <1>5 DEF Refuse, Accept, Change, RowsAfter, Fail, TypeOK
  <2>3. ASSUME NEW r \in Codes, row'[r] # "absent" PROVE r \in Known'
    <3>1. CASE Refuse(c) \/ Fail(c)
      BY <1>1, <2>3, <3>1 DEF Refuse, Fail, TypeOK
    <3>2. CASE Accept(c)
      BY <1>1, <2>3, <3>2, CallsAssumption DEF Accept, Own, TypeOK
    <3>3. CASE Change(c) /\ r \in BatchOf(c)
      BY <1>1, <3>3 DEF Change, End, BatchOf, Known, TypeOK
    <3>4. CASE Change(c) /\ r \notin BatchOf(c)
      BY <1>1, <2>3, <3>4 DEF Change, RowsAfter, TypeOK
    <3>5. QED
      BY <1>5, <3>1, <3>2, <3>3, <3>4
  <2>4. QED
    BY <1>1, <2>1, <2>2, <2>3 DEF TypeOK
<1>6. QED
  BY <1>2, <1>3, <1>4, <1>5 DEF Step

LEMMA RInvInit == Init => RInv
<1> SUFFICES ASSUME Init PROVE RInv
  OBVIOUS
<1>1. TypeOK
  BY DEF Init, TypeOK, Phases, Known, BatchOf, Codes
<1>2. QED
  BY <1>1 DEF Init, RInv, Apart, Own, Open

LEMMA RInvStep == RInv /\ [Next]_vars => RInv'
<1> SUFFICES ASSUME RInv, [Next]_vars PROVE RInv'
  OBVIOUS
<1>1. CASE UNCHANGED vars
  BY <1>1 DEF vars, RInv, TypeOK, Apart, Own, Open, Matches, Known
<1>2. ASSUME NEW c \in Calls, RefuseMalformed(c) \/ Query(c) \/ Step(c) \/ Fail(c) PROVE RInv'
  <2>1. TypeOK' /\ Apart' /\ Own(c)' /\ Alone(c)
    BY <1>2, TypeKept, ApartKept, OwnKept, ActsAlone
  <2>2. \A d \in Calls \ {c} : Own(d)'
    BY <2>1, OthersKept
  <2>3. QED
    BY <2>1, <2>2 DEF RInv
<1>3. QED
  BY <1>1, <1>2 DEF Next

LEMMA RInvAlways == Spec => []RInv
  BY RInvInit, RInvStep, PTL DEF Spec

(* Every reachable state is well typed, and rows of a batch appear only with *)
(* the commit of their call.                                                 *)
THEOREM TypeCorrect == Spec => []TypeOK
<1>1. RInv => TypeOK
  BY DEF RInv
<1>2. QED
  BY <1>1, RInvAlways, PTL

(* What a consumption or a replacement found unused is unused until it commits. *)
THEOREM FoundCorrect == Spec => []FoundStaysUnused
<1>1. RInv => FoundStaysUnused
  BY DEF RInv, Own, Matches, FoundStaysUnused
<1>2. QED
  BY <1>1, RInvAlways, PTL

-------------------------------------------------------------------------------
(* Single use: an accepted code is valid no more, so whoever is accepted next *)
(* was accepted for another one.                                              *)

LEMMA SingleUseStep == RInv /\ SingleUse /\ [Next]_vars => SingleUse'
<1> SUFFICES ASSUME RInv, SingleUse, [Next]_vars, NEW b \in Calls, NEW c \in Calls,
                    pc'[b] = "accepted", pc'[c] = "accepted", candidate'[b] = candidate'[c]
             PROVE  b = c
  BY DEF SingleUse
<1> USE DEF RInv, TypeOK
<1>1. ASSUME NEW d \in Calls, Accept(d) PROVE b = c
  <2>1. candidate[d] \in found[d] /\ row[candidate[d]] = "unused"
    BY <1>1, CallsAssumption DEF Accept, Own, Matches
  <2>2. (\A e \in Calls : candidate'[e] = candidate[e]) /\ \A e \in Calls \ {d} : pc'[e] = pc[e]
    BY <1>1 DEF Accept, End
  <2>3. \A e \in Calls : pc[e] = "accepted" => row[candidate[e]] # "unused"
    BY DEF Own
  <2>4. QED
    BY <2>1, <2>2, <2>3 DEF SingleUse
<1>2. CASE \A d \in Calls : ~Accept(d)
  <2>1. ASSUME NEW d \in Calls, RefuseMalformed(d) \/ Query(d) \/ Step(d) \/ Fail(d)
        PROVE  \A e \in Calls : pc'[e] = "accepted" =>
                 pc[e] = "accepted" /\ candidate'[e] = candidate[e]
    <3>1. Alone(d)
      BY <2>1, ActsAlone
    <3>2. pc'[d] # "accepted" \/ (pc'[d] = pc[d] /\ candidate'[d] = candidate[d])
      BY <1>2, <2>1 DEF RefuseMalformed, Query, Step, Reach, Visit, Mark, Refuse, Insert, Change,
        Fail, End
    <3>3. QED
      BY <3>1, <3>2 DEF Alone
  <2>2. QED
    BY <2>1 DEF Next, vars, SingleUse
<1>3. QED
  BY <1>1, <1>2

(* No recovery code is accepted twice, for any number of racing calls. *)
THEOREM UsedOnce == Spec => []SingleUse
<1>1. Init => SingleUse
  BY DEF Init, SingleUse
<1>2. QED
  BY <1>1, SingleUseStep, RInvAlways, PTL DEF Spec

-------------------------------------------------------------------------------
(* Refinement: every step is a step of CodeBook or changes nothing it shows. *)

Valid == {r \in Codes : row[r] = "unused"}
Outcomes == [c \in Calls |-> OutcomeOf(c)]

LEMMA OutcomeMoves ==
  ASSUME TypeOK, NEW c \in Calls, NEW to \in Phases, pc' = [pc EXCEPT ![c] = to]
  PROVE  Outcomes' = [Outcomes EXCEPT ![c] = OutcomeOf(c)']
<1>1. \A d \in Calls \ {c} : OutcomeOf(d)' = OutcomeOf(d)
  BY DEF OutcomeOf, TypeOK
<1>2. QED
  BY <1>1 DEF Outcomes

(* Nothing is handed out unless a replacement commits. *)
LEMMA KnownMoves ==
  ASSUME RInv, NEW c \in Calls, NEW to \in Phases, pc' = [pc EXCEPT ![c] = to], pc[c] # "changed"
  PROVE  Known' = Known \cup (IF to = "changed" /\ c \in Replacers THEN BatchOf(c) ELSE {})
<1>1. ASSUME NEW r \in Codes PROVE r \in Known' <=>
        r \in Known \/ (to = "changed" /\ r[1] = c)
  BY EnrolmentAssumption DEF Known, RInv, TypeOK, Codes, Calls
<1>2. ASSUME NEW r \in Codes PROVE r[1] = c <=> c \in Replacers /\ r \in BatchOf(c)
  BY EnrolmentAssumption DEF BatchOf, Codes
<1>3. c \in Replacers => BatchOf(c) \subseteq Codes
  BY DEF BatchOf, Codes
<1>4. Known \subseteq Codes /\ Known' \subseteq Codes
  BY DEF Known
<1>5. QED
  BY <1>1, <1>2, <1>3, <1>4

LEMMA StepIsPromised ==
  ASSUME RInv, [Next]_vars, NEW c \in Calls, RefuseMalformed(c) \/ Query(c) \/ Step(c) \/ Fail(c)
  PROVE  Promise!Next \/ UNCHANGED Promise!vars
<1>0. TypeOK /\ Own(c) /\ Valid \subseteq Known /\ Known \subseteq Codes /\ Wrong \notin Codes
  BY NoneAssumption DEF RInv, TypeOK, Valid, Known
<1>1. CASE RefuseMalformed(c)
  <2>1. pc' = [pc EXCEPT ![c] = "refused"] /\ pc[c] = "new" /\ pc'[c] = "refused"
        /\ UNCHANGED <<row, candidate, seen>>
    BY <1>0, <1>1 DEF RefuseMalformed, TypeOK
  <2>2. Known' = Known /\ Valid' = Valid /\ Outcomes' = [Outcomes EXCEPT ![c] = "refused"]
    BY <1>0, <2>1, KnownMoves, OutcomeMoves DEF Phases, OutcomeOf, Valid
  <2>3. Outcomes[c] = "idle"
    BY <2>1 DEF Outcomes, OutcomeOf
  <2>4. Promise!Dismiss(c)
    BY <2>1, <2>2, <2>3 DEF Promise!Dismiss, Outcomes, Valid
  <2>5. QED
    BY <2>4 DEF Promise!Next
<1>2. CASE Query(c)
  <2>1. pc' = [pc EXCEPT ![c] = "scan"] /\ pc[c] = "new" /\ pc'[c] = "scan" /\ row' = row
    BY <1>0, <1>2 DEF Query, TypeOK
  <2>2. Known' = Known /\ Valid' = Valid /\ Outcomes' = [Outcomes EXCEPT ![c] = "running"]
    BY <1>0, <2>1, KnownMoves, OutcomeMoves DEF Phases, OutcomeOf, Valid
  <2>3. Outcomes[c] = "idle"
    BY <2>1 DEF Outcomes, OutcomeOf
  <2>4. \E p \in Known \cup {Wrong} : candidate' = [candidate EXCEPT ![c] = p]
    BY <1>0, <1>2 DEF Query, Own, TypeOK
  <2>5. \E S \in SUBSET Known : Valid \subseteq S /\ seen' = [seen EXCEPT ![c] = S]
    <3>1. {r \in Codes : Matches(c, r)} \subseteq Known /\ Valid \subseteq {r \in Codes : Matches(c, r)}
      BY <1>0 DEF Matches, TypeOK, Valid
    <3>2. QED
      BY <1>2, <3>1 DEF Query
  <2>6. Promise!Begin(c)
    BY <2>2, <2>3, <2>4, <2>5 DEF Promise!Begin, Outcomes, Valid
  <2>7. QED
    BY <2>6 DEF Promise!Next
<1>3. CASE Reach(c) \/ Visit(c)
  <2>1. UNCHANGED <<row, pc, candidate, seen>>
    BY <1>3 DEF Reach, Visit
  <2>2. QED
    BY <2>1 DEF Promise!vars, Known, OutcomeOf
<1>4. CASE Mark(c) \/ Insert(c)
  <2>1. pc' = [pc EXCEPT ![c] = "written"] /\ pc[c] = "scan" /\ pc'[c] = "written"
        /\ UNCHANGED <<row, candidate, seen>>
    BY <1>0, <1>4 DEF Mark, Insert, Scanned, TypeOK
  <2>2. Known' = Known /\ Valid' = Valid /\ Outcomes' = [Outcomes EXCEPT ![c] = "running"]
    BY <1>0, <2>1, KnownMoves, OutcomeMoves DEF Phases, OutcomeOf, Valid
  <2>3. Outcomes[c] = "running" /\ Outcomes' = Outcomes
    BY <2>1, <2>2 DEF Outcomes, OutcomeOf
  <2>4. QED
    BY <2>1, <2>2, <2>3 DEF Promise!vars, Outcomes, Valid
<1>5. CASE Refuse(c)
  <2>1. pc' = [pc EXCEPT ![c] = "refused"] /\ pc[c] = "scan" /\ pc'[c] = "refused"
        /\ row' = row /\ seen' = [seen EXCEPT ![c] = {}]
        /\ candidate' = [candidate EXCEPT ![c] = Wrong]
    BY <1>0, <1>5 DEF Refuse, End, Scanned, TypeOK
  <2>2. Known' = Known /\ Valid' = Valid /\ Outcomes' = [Outcomes EXCEPT ![c] = "refused"]
    BY <1>0, <2>1, KnownMoves, OutcomeMoves DEF Phases, OutcomeOf, Valid
  <2>3. Outcomes[c] = "running"
    BY <2>1 DEF Outcomes, OutcomeOf
  <2>4. candidate[c] \notin Valid
    BY <1>0, <1>5 DEF Refuse, Scanned, Own, Open, Matches, Valid
  <2>5. Promise!Refuse(c)
    BY <2>1, <2>2, <2>3, <2>4 DEF Promise!Refuse, Promise!End, Outcomes, Valid
  <2>6. QED
    BY <2>5 DEF Promise!Next
<1>6. CASE Accept(c)
  <2>1. pc' = [pc EXCEPT ![c] = "accepted"] /\ pc[c] = "written" /\ pc'[c] = "accepted"
        /\ seen' = [seen EXCEPT ![c] = {}]
        /\ candidate' = [candidate EXCEPT ![c] = candidate[c]]
    BY <1>0, <1>6 DEF Accept, End, TypeOK
  <2>2. Known' = Known /\ Outcomes' = [Outcomes EXCEPT ![c] = "accepted"]
    BY <1>0, <2>1, KnownMoves, OutcomeMoves DEF Phases, OutcomeOf
  <2>3. Outcomes[c] = "running"
    BY <2>1 DEF Outcomes, OutcomeOf
  <2>4. candidate[c] \in Valid
    BY <1>0, <1>6, CallsAssumption DEF Accept, Own, Matches, Valid
  <2>5. Valid' = Valid \ {candidate[c]}
    BY <1>0, <1>6, <2>4 DEF Accept, Valid, TypeOK
  <2>6. Promise!Accept(c)
    BY <2>1, <2>2, <2>3, <2>4, <2>5 DEF Promise!Accept, Promise!End, Outcomes, Valid
  <2>7. QED
    BY <2>6 DEF Promise!Next
<1>7. CASE Change(c)
  <2>1. pc' = [pc EXCEPT ![c] = "changed"] /\ pc[c] \in {"scan", "written"} /\ pc'[c] = "changed"
        /\ seen' = [seen EXCEPT ![c] = {}] /\ candidate' = [candidate EXCEPT ![c] = Wrong]
        /\ row' = RowsAfter(c) /\ visited[c] = seen[c]
    BY <1>0, <1>7 DEF Change, End, Scanned, TypeOK, Own
  <2>2. Outcomes[c] = "running" /\ Outcomes' = [Outcomes EXCEPT ![c] = "changed"]
    BY <1>0, <2>1, OutcomeMoves DEF Phases, OutcomeOf, Outcomes
  <2> DEFINE new == IF c \in Replacers THEN BatchOf(c) ELSE {}
  <2>3. Known' = Known \cup new
    BY <1>0, <2>1, KnownMoves DEF Phases
  <2>4. new \subseteq Codes \ Known
    BY <2>1, BatchIsNew DEF BatchOf, Codes
  <2>5. \A r \in Codes : r \in BatchOf(c) => r \in new
    BY EnrolmentAssumption DEF BatchOf, Codes
  <2>6. \A r \in Valid : r \in found[c] <=> r \in seen[c]
    BY <1>0, <2>1 DEF Own, Open, Matches, Valid
  <2>7. found[c] \subseteq Known
    BY <1>0 DEF Own
  <2>8. Valid' = (Valid \ seen[c]) \cup new
    BY <1>0, <2>1, <2>4, <2>5, <2>6, <2>7 DEF RowsAfter, Valid
  <2>9. Promise!Change(c)
    BY <2>1, <2>2, <2>3, <2>4, <2>8 DEF Promise!Change, Promise!End, Outcomes, Valid
  <2>10. QED
    BY <2>9 DEF Promise!Next
<1>8. CASE Fail(c)
  <2>1. pc' = [pc EXCEPT ![c] = "failed"] /\ pc[c] \in {"scan", "written"} /\ pc'[c] = "failed"
        /\ row' = row /\ seen' = [seen EXCEPT ![c] = {}]
        /\ candidate' = [candidate EXCEPT ![c] = Wrong]
    BY <1>0, <1>8 DEF Fail, End, TypeOK
  <2>2. Known' = Known /\ Valid' = Valid /\ Outcomes' = [Outcomes EXCEPT ![c] = "failed"]
    BY <1>0, <2>1, KnownMoves, OutcomeMoves DEF Phases, OutcomeOf, Valid
  <2>3. Outcomes[c] = "running"
    BY <2>1 DEF Outcomes, OutcomeOf
  <2>4. Promise!Fail(c)
    BY <2>1, <2>2, <2>3 DEF Promise!Fail, Promise!End, Outcomes, Valid
  <2>5. QED
    BY <2>4 DEF Promise!Next
<1>9. QED
  BY <1>1, <1>2, <1>3, <1>4, <1>5, <1>6, <1>7, <1>8 DEF Step

(* consume_recovery_code, replace_recovery_codes and the deletion of reset_mfa *)
(* keep the promise of CodeBook, for any number of calls and any batch size.   *)
THEOREM CodesKeepPromise == Spec => ImplementsCodeBook
<1>1. Init => Promise!Init
  <2> SUFFICES ASSUME Init PROVE Promise!Init
    OBVIOUS
  <2>1. Known \in SUBSET Codes /\ Valid \in SUBSET Known
    BY DEF Init, Known, Valid, BatchOf, Codes
  <2>2. Outcomes = [c \in Calls |-> "idle"]
    BY DEF Init, Outcomes, OutcomeOf
  <2>3. QED
    BY <2>1, <2>2 DEF Init, Promise!Init, Outcomes, Valid
<1>2. RInv /\ [Next]_vars => [Promise!Next]_(Promise!vars)
  <2> SUFFICES ASSUME RInv, [Next]_vars PROVE Promise!Next \/ UNCHANGED Promise!vars
    OBVIOUS
  <2>1. CASE UNCHANGED vars
    BY <2>1 DEF vars, Promise!vars, Known, OutcomeOf
  <2>2. QED
    BY <2>1, StepIsPromised DEF Next
<1>3. QED
  BY <1>1, <1>2, RInvAlways, PTL DEF Spec, ImplementsCodeBook, Promise!Spec

===============================================================================

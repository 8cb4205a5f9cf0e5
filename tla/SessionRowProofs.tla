--------------------------- MODULE SessionRowProofs ---------------------------
(***************************************************************************)
(* The life of a session row in MfaSession, for any number of requests: a  *)
(* browser learns its key with the response of the request that made it;   *)
(* from then on it belongs to a user or never will, and once it is gone it *)
(* stays gone.  The argument: whoever works on a copy of a row loaded it   *)
(* after its maker was done, and writes it back only while it is there;    *)
(* a row inserted before the response is its maker's alone.                *)
(* Then what is on record of a session: RecordedFirst; and how many        *)
(* attempts one outlives: OneByOneBounded.                                 *)
(***************************************************************************)
EXTENDS MfaSessionProofs, FiniteSetTheorems

(* The steps of a logout before its row is dropped, and all of them. *)
Leaving == {"loaded", "identified", "logout", "leave"}
LogoutSteps == {"new", "reply", "done", "failed"} \cup Leaving

(* The key a request makes is known to no browser before it is done; a row it *)
(* loaded was made by a request that was done.                                *)
Made(q) ==
    /\ req[q].at # "done" => ~KnownKey(q)
    /\ req[q].at # "new" => req[q].key = q \/ req[q].key = req[q].loaded
    /\ req[q].at # "new" => req[q].key \in Rows
    /\ req[q].loaded # None => req[req[q].loaded].at = "done" /\ req[q].at # "new"

(* A copy and its row agree on whether they are a user's. *)
Agrees(q) ==
    req[q].at # "new" /\ req[q].key # q =>
        store[req[q].key] = None \/ store[req[q].key].login = req[q].data.login

(* A logout works on the row it loaded until it has dropped it. *)
Leaves(q) ==
    req[q].kind = "logout" =>
        /\ req[q].at \in LogoutSteps
        /\ req[q].loaded # None =>
             /\ req[q].at \in Leaving => req[q].key = req[q].loaded
             /\ req[q].at \in {"reply", "done"} => store[req[q].loaded] = None

(* On the way to the view, and in verify_mfa up to the verdict. *)
Arriving == {"loaded", "identified"} \cup AllKinds
Checking == {"devices", "check", "code"}

RowInv == TypeOK /\ \A q \in Requests : Made(q) /\ Agrees(q) /\ Leaves(q)

-------------------------------------------------------------------------------
(* What such a step does to the count of attempts: it keeps the count with its   *)
(* row, gives both up, or is a refusal.                                           *)
Counts(q, k, l) ==
    /\ k.at = "reply" => l = [k EXCEPT !.at = "failed"]
    /\ l.at \in Arriving => k.at \in {"loaded", "identified"}
    /\ l.at \in Checking => k.at \in Checking \/ (k.at = "verify" /\ k.data.preauth)
    /\ \/ /\ l.refused = k.refused /\ l.key = k.key
          /\ l.data.preauth = k.data.preauth /\ l.data.attempts = k.data.attempts
       \/ l.refused = k.refused /\ l.key = q /\ l.at \notin Arriving \cup Checking
       \/ /\ k.at = "code" /\ l.at = "reply" /\ l.refused
          /\ \/ /\ l.key = k.key /\ l.data.preauth = k.data.preauth /\ l.touched
                /\ l.data.attempts = k.data.attempts + 1
             \/ l.key = q /\ DropRow(q)

(* A step between the load of the session and the response: q's locals go from k *)
(* to l, its own row may appear and others may go.                                *)
Continues(q, k, l) ==
    /\ k.at \notin {"new", "done", "failed"} /\ l.at \notin {"new", "done"}
    /\ l.sent = k.sent /\ l.loaded = k.loaded /\ l.kind = k.kind
    /\ Counts(q, k, l)
    /\ l.key = q \/ (l.key = k.key /\ l.data.login = k.data.login)
    /\ k.kind = "logout" /\ k.at \in LogoutSteps =>
         \/ l.at = "failed"
         \/ k.at \in Leaving /\ l.at \in Leaving /\ l.key = k.key
         \/ k.at \in Leaving /\ l.at = "reply" /\ DropRow(q)

Works(q) ==
    /\ req' = [req EXCEPT ![q] = req'[q]]
    /\ Continues(q, req[q], req'[q])
    /\ cookie' = cookie
    /\ \A r \in Rows \ {q} : store'[r] \in {store[r], None}

LEMMA WorkKeepsRows ==
    ASSUME RowInv, NEW q \in Requests, Works(q), TypeOK'
    PROVE  RowInv'
<1> DEFINE l == req'[q]
<1>1. Continues(q, req[q], l)
  BY DEF Works
<1>2. \A p \in Requests \ {q} : req'[p] = req[p]
  BY DEF Works, RowInv, TypeOK
<1>3. /\ req[q].at \notin {"new", "done", "failed"}
      /\ req[q].key \in Rows
      /\ Made(q) /\ Agrees(q) /\ Leaves(q)
  BY DEF RowInv, Works, Made, Continues
<1>4. /\ \A r \in Rows \ {q} : store'[r] = store[r] \/ store'[r] = None
      /\ \A r : KnownKey(r)' <=> KnownKey(r)
  BY <1>1, <1>2 DEF Works, Continues, KnownKey
<1>5. ASSUME NEW p \in Requests, req[p].loaded # None
      PROVE  req[p].loaded # q /\ req[p].loaded \in Rows
  <2>1. req[req[p].loaded].at = "done"
    BY <1>5 DEF RowInv, Made
  <2>2. req[p].loaded \in Rows
    BY <1>5 DEF RowInv, TypeOK, LocalStates
  <2> QED BY <1>3, <2>1, <2>2
<1>6. ASSUME NEW p \in Requests
      PROVE  (Made(p) /\ Agrees(p) /\ Leaves(p))'
  <2>1. Made(p) /\ Agrees(p) /\ Leaves(p) /\ req[p] \in LocalStates
    BY DEF RowInv, TypeOK
  <2>2. CASE p = q
    <3>1. Made(q)'
      BY <1>1, <1>2, <1>3, <1>4, <1>5, FirstAssumption DEF Made, Rows, Continues
    <3>2. Agrees(q)'
      BY <1>1, <1>2, <1>3, <1>4 DEF Agrees, Continues
    <3>3. Leaves(q)'
      <4> SUFFICES ASSUME req[q].kind = "logout"
                   PROVE  /\ l.at \in LogoutSteps
                          /\ l.loaded # None =>
                               /\ l.at \in Leaving => l.key = l.loaded
                               /\ l.at \in {"reply", "done"} => store'[l.loaded] = None
        BY <1>1 DEF Leaves, Continues
      <4>1. req[q].at \in LogoutSteps
        BY <1>3 DEF Leaves
      <4>2. CASE l.at = "failed"
        BY <4>2 DEF LogoutSteps, Leaving
      <4>3. CASE req[q].at \in Leaving /\ l.at \in Leaving /\ l.key = req[q].key
        BY <1>1, <1>3, <4>3 DEF Continues, Leaves, LogoutSteps, Leaving
      <4>4. CASE req[q].at \in Leaving /\ l.at = "reply" /\ DropRow(q)
        BY <1>1, <1>3, <4>4 DEF Continues, Leaves, LogoutSteps, Leaving, DropRow, RowInv, TypeOK
      <4> QED BY <1>1, <4>1, <4>2, <4>3, <4>4 DEF Continues
    <3> QED BY <2>2, <3>1, <3>2, <3>3
  <2>3. CASE p # q
    <3>1. req'[p] = req[p]
      BY <1>2, <2>3
    <3>2. Made(p)'
      BY <1>2, <1>4, <1>5, <2>1, <3>1 DEF Made, Rows
    <3>3. Agrees(p)'
      <4>1. req[p].at # "new" /\ req[p].key # p => req[p].key \in Rows \ {q}
        BY <1>5, <2>1, FirstAssumption DEF Made, Rows, Devices
      <4> QED BY <1>4, <2>1, <3>1, <4>1 DEF Agrees
    <3>4. Leaves(p)'
      BY <1>4, <1>5, <2>1, <3>1 DEF Leaves
    <3> QED BY <3>2, <3>3, <3>4
  <2> QED BY <2>2, <2>3
<1> QED BY <1>6 DEF RowInv

(* All steps of a request are of that kind but the first and the last.  What *)
(* follows is one leaf per action.                                           *)
LEMMA ChangeWorks ==
    ASSUME TypeOK, NEW q \in Requests, NEW l, Become(q, l), Continues(q, req[q], l),
           cookie' = cookie, store' = store \/ DropRow(q) \/ Insert(q)
    PROVE  Works(q)
<1>1. req' = [req EXCEPT ![q] = l] /\ req'[q] = l
  BY DEF Become, TypeOK
<1>2. \A r \in Rows \ {q} : store'[r] \in {store[r], None}
  BY DEF DropRow, Insert, TypeOK
<1> QED BY <1>1, <1>2 DEF Works

LEMMA OnlyGoingOnWorks ==
    ASSUME TypeOK, NEW q \in Requests, NEW to \in Steps \ {"new", "done"}, GoTo(q, to),
           req[q].at \notin {"new", "done", "failed"}, store' = store, cookie' = cookie,
           req[q].kind = "logout" => req[q].at \notin LogoutSteps \/ to = "failed"
                                     \/ (req[q].at \in Leaving /\ to \in Leaving),
           req[q].at = "reply" => to = "failed",
           to \in Arriving => req[q].at \in {"loaded", "identified"},
           to \in Checking => req[q].at \in Checking
    PROVE  Works(q)
<1>1. req[q] \in LocalStates
  BY DEF TypeOK
<1> DEFINE l == [req[q] EXCEPT !.at = to]
<1>2. /\ l.at = to /\ l.loaded = req[q].loaded /\ l.kind = req[q].kind
      /\ l.key = req[q].key /\ l.data = req[q].data /\ l.refused = req[q].refused
      /\ l.sent = req[q].sent
  BY <1>1 DEF LocalStates
<1>3. Continues(q, req[q], l)
  BY <1>2 DEF Continues, Counts
<1> QED BY <1>3, ChangeWorks DEF GoTo

LEMMA FlushWorks ==
    ASSUME TypeOK, NEW q \in Requests, NEW to \in {"reply", "flushed"}, NEW d,
           req[q].at \notin {"new", "done", "failed", "reply"}, DropRow(q), cookie' = cookie,
           Become(q, Flushed(q, to, d)),
           req[q].kind = "logout" => req[q].at \notin LogoutSteps
                                     \/ (req[q].at \in Leaving /\ to = "reply")
    PROVE  Works(q)
<1>1. req[q] \in LocalStates
  BY DEF TypeOK
<1>2. Continues(q, req[q], Flushed(q, to, d))
  BY <1>1 DEF Continues, Counts, Arriving, Checking, AllKinds, Flushed, LocalStates
<1> QED BY <1>2, ChangeWorks

LEMMA SessionWorks ==
    ASSUME TypeOK, NEW q \in Requests,
           ReadUser(q) \/ LogOutStale(q) \/ Admit(q) \/ Visit(q) \/ Fail(q)
    PROVE  Works(q)
<1> USE DEF Steps, AllKinds, LogoutSteps, Leaving, Arriving, Checking, At
<1>1. req[q] \in LocalStates
  BY DEF TypeOK
<1>2. CASE ReadUser(q)
  <2>1. CASE req[q].data.login
    <3> DEFINE l == [req[q] EXCEPT !.at = "identified", !.version = version]
    <3>1. Continues(q, req[q], l)
      BY <1>1, <1>2 DEF ReadUser, Continues, Counts, LocalStates
    <3> QED BY <1>2, <2>1, <3>1, ChangeWorks DEF ReadUser, web
  <2>2. CASE ~req[q].data.login
    BY <1>1, <1>2, <2>2, OnlyGoingOnWorks DEF ReadUser, LocalStates, web
  <2> QED BY <2>1, <2>2
<1>3. CASE LogOutStale(q)
  BY <1>1, <1>3, FlushWorks DEF LogOutStale
<1>4. CASE Admit(q)
  <2> DEFINE d == req[q].data.device
             gone == d # None /\ d \in {e \in Devices : device[e] = "absent"}
             l == [req[q] EXCEPT !.at = req[q].kind, !.touched = gone,
                                 !.data.device = IF gone THEN None ELSE @]
  <2>1. /\ l.at = req[q].kind /\ l.loaded = req[q].loaded /\ l.kind = req[q].kind
        /\ l.sent = req[q].sent
        /\ l.key = req[q].key /\ l.data.login = req[q].data.login
        /\ l.data.preauth = req[q].data.preauth /\ l.data.attempts = req[q].data.attempts
        /\ l.refused = req[q].refused
    BY <1>1 DEF LocalStates, Dictionaries
  <2>2. Continues(q, req[q], l)
    BY <1>1, <1>4, <2>1 DEF Admit, Continues, Counts, LocalStates
  <2> QED BY <1>4, <2>2, ChangeWorks DEF Admit, web
<1>5. CASE Visit(q)
  BY <1>1, <1>5, OnlyGoingOnWorks DEF Visit, web
<1>6. CASE Fail(q)
  BY <1>1, <1>6, OnlyGoingOnWorks DEF Fail, web
<1> QED BY <1>2, <1>3, <1>4, <1>5, <1>6

LEMMA LoginWorks ==
    ASSUME TypeOK, NEW q \in Requests, Login(q)
    PROVE  Works(q)
<1> USE DEF Steps, AllKinds, LogoutSteps, Leaving, Arriving, Checking, At
<1>1. req[q] \in LocalStates
  BY DEF TypeOK
<1>2. CASE RefusePassword(q)
  BY <1>1, <1>2, OnlyGoingOnWorks DEF RefusePassword, Record, web
<1>3. CASE Authenticate(q)
  <2> DEFINE l == [req[q] EXCEPT !.at = "authenticated", !.version = version]
  <2>1. Continues(q, req[q], l)
    BY <1>1, <1>3 DEF Authenticate, Continues, Counts, LocalStates
  <2> QED BY <1>3, <2>1, ChangeWorks DEF Authenticate, web
<1>4. CASE RecordPassword(q)
  BY <1>1, <1>4, OnlyGoingOnWorks DEF RecordPassword, Record, web
<1>5. ASSUME NEW how, At(q, "role") \/ At(q, "factor"), LogIn(q, how)
      PROVE  Works(q)
  <2> DEFINE l == [req[q] EXCEPT !.at = IF NewKey(q) THEN "cycled" ELSE "reply",
                      !.key = IF NewKey(q) THEN q ELSE @, !.touched = TRUE,
                      !.data.login = TRUE, !.data.version = ObjectVersion(q),
                      !.data.how = how]
  <2>1. /\ l.at \in {"cycled", "reply"} /\ l.loaded = req[q].loaded /\ l.kind = req[q].kind
        /\ l.sent = req[q].sent
        /\ l.key = IF NewKey(q) THEN q ELSE req[q].key
        /\ l.data.login = TRUE /\ l.data.preauth = req[q].data.preauth
        /\ l.data.attempts = req[q].data.attempts /\ l.refused = req[q].refused
    BY <1>1 DEF LocalStates, Dictionaries
  <2>2. ~NewKey(q) => req[q].data.login = TRUE
    BY <1>1 DEF NewKey, LocalStates, Dictionaries
  <2>3. Continues(q, req[q], l)
    BY <1>5, <2>1, <2>2 DEF Continues, Counts
  <2> QED BY <1>5, <2>3, ChangeWorks DEF LogIn
<1>6. CASE LogInUnprivileged(q)
  BY <1>5, <1>6 DEF LogInUnprivileged
<1>7. CASE FindPrivilege(q)
  BY <1>1, <1>7, OnlyGoingOnWorks DEF FindPrivilege, web
<1>8. CASE LogInToEnrol(q)
  BY <1>5, <1>8 DEF LogInToEnrol
<1>9. CASE AwaitFactor(q)
  BY <1>1, <1>9, FlushWorks DEF AwaitFactor
<1>10. CASE DropOld(q)
  <2> DEFINE l == [req[q] EXCEPT !.at = "reply"]
  <2>1. /\ l.at = "reply" /\ l.sent = req[q].sent /\ l.loaded = req[q].loaded
        /\ l.kind = req[q].kind /\ l.key = req[q].key /\ l.data = req[q].data
        /\ l.refused = req[q].refused
    BY <1>1 DEF LocalStates
  <2>2. Continues(q, req[q], l)
    BY <1>10, <2>1 DEF DropOld, Continues, Counts
  <2>3. req' = [req EXCEPT ![q] = l] /\ req'[q] = l
    BY <1>10 DEF DropOld, GoTo, Become, TypeOK
  <2>4. \A r \in Rows \ {q} : store'[r] \in {store[r], None}
    BY <1>10 DEF DropOld, TypeOK
  <2> QED BY <1>10, <2>2, <2>3, <2>4 DEF DropOld, Works
<1> QED BY <1>2, <1>3, <1>4, <1>6, <1>7, <1>8, <1>9, <1>10 DEF Login

LEMMA VerifyWorks ==
    ASSUME TypeOK, NEW q \in Requests, Verify(q)
    PROVE  Works(q)
<1> USE DEF Steps, AllKinds, LogoutSteps, Leaving, Arriving, Checking, At
<1>1. req[q] \in LocalStates
  BY DEF TypeOK
<1>2. CASE RefuseVerify(q)
  BY <1>1, <1>2, OnlyGoingOnWorks DEF RefuseVerify, web
<1>3. CASE ReadCandidateUser(q)
  <2> DEFINE l == [req[q] EXCEPT !.at = "devices", !.version = version]
  <2>1. Continues(q, req[q], l)
    BY <1>1, <1>3 DEF ReadCandidateUser, Continues, Counts, LocalStates
  <2> QED BY <1>3, <2>1, ChangeWorks DEF ReadCandidateUser, web
<1>4. CASE ListDevices(q)
  <2> DEFINE l == [req[q] EXCEPT !.at = "check", !.devices = Confirmed]
  <2>1. Continues(q, req[q], l)
    BY <1>1, <1>4 DEF ListDevices, Continues, Counts, LocalStates
  <2> QED BY <1>4, <2>1, ChangeWorks DEF ListDevices, web
<1>5. ASSUME NEW d, At(q, "check") \/ At(q, "code"), UNCHANGED web,
             Become(q, [req[q] EXCEPT !.at = "proved", !.device = d, !.proof = version])
      PROVE  Works(q)
  <2> DEFINE l == [req[q] EXCEPT !.at = "proved", !.device = d, !.proof = version]
  <2>1. Continues(q, req[q], l)
    BY <1>1, <1>5 DEF Continues, Counts, LocalStates
  <2> QED BY <1>5, <2>1, ChangeWorks DEF web
<1>6. CASE AcceptToken(q)
  BY <1>5, <1>6 DEF AcceptToken
<1>7. CASE RefuseToken(q)
  BY <1>1, <1>7, OnlyGoingOnWorks DEF RefuseToken, web
<1>8. CASE AcceptCode(q)
  BY <1>5, <1>8 DEF AcceptCode
<1>9. CASE RefuseFactor(q)
  <2> DEFINE n == req[q].data.attempts + 1
             kept == [req[q] EXCEPT !.at = "reply", !.touched = TRUE,
                                    !.data.attempts = n, !.refused = TRUE]
             flushed == [Flushed(q, "reply", Empty) EXCEPT !.refused = TRUE]
  <2>1. CASE Exhausted(n)
    <3>1. /\ flushed.at = "reply" /\ flushed.loaded = req[q].loaded
          /\ flushed.sent = req[q].sent
          /\ flushed.kind = req[q].kind /\ flushed.key = q /\ flushed.refused
      BY <1>1 DEF LocalStates, Flushed
    <3>2. Counts(q, req[q], flushed)
      BY <1>9, <2>1, <3>1 DEF RefuseFactor, Counts
    <3>3. Continues(q, req[q], flushed)
      BY <1>9, <3>1, <3>2 DEF RefuseFactor, Continues
    <3> QED BY <1>9, <2>1, <3>3, ChangeWorks DEF RefuseFactor
  <2>2. CASE ~Exhausted(n)
    <3>1. /\ kept.at = "reply" /\ kept.loaded = req[q].loaded /\ kept.kind = req[q].kind
          /\ kept.sent = req[q].sent
          /\ kept.key = req[q].key /\ kept.data.login = req[q].data.login
          /\ kept.refused /\ kept.touched /\ kept.data.attempts = req[q].data.attempts + 1
          /\ kept.data.preauth = req[q].data.preauth
      BY <1>1 DEF LocalStates, Dictionaries
    <3>2. Continues(q, req[q], kept)
      BY <1>9, <3>1 DEF RefuseFactor, Continues, Counts
    <3> QED BY <1>9, <2>2, <3>2, ChangeWorks DEF RefuseFactor
  <2> QED BY <2>1, <2>2
<1>10. CASE FlushProved(q)
  BY <1>1, <1>10, FlushWorks DEF FlushProved
<1>11. CASE LogInVerified(q)
  <2> DEFINE l == [req[q] EXCEPT !.at = AfterProof(q), !.key = q, !.data = VerifiedData(q)]
  <2>1. /\ l.at \in {"failed", "verified"} /\ l.sent = req[q].sent
        /\ l.loaded = req[q].loaded /\ l.kind = req[q].kind
        /\ l.key = q /\ l.refused = req[q].refused
    BY <1>1 DEF AfterProof, LocalStates
  <2>2. Continues(q, req[q], l)
    BY <1>11, <2>1 DEF LogInVerified, Continues, Counts
  <2> QED BY <1>11, <2>2, ChangeWorks DEF LogInVerified
<1>12. CASE RecordVerified(q)
  BY <1>1, <1>12, OnlyGoingOnWorks DEF RecordVerified, Record, web
<1> QED BY <1>2, <1>3, <1>4, <1>6, <1>7, <1>8, <1>9, <1>10, <1>11, <1>12 DEF Verify

LEMMA SetupWorks ==
    ASSUME TypeOK, NEW q \in Requests, Setup(q)
    PROVE  Works(q)
<1> USE DEF Steps, AllKinds, LogoutSteps, Leaving, Arriving, Checking, At
<1>1. req[q] \in LocalStates
  BY DEF TypeOK
<1>2. ASSUME NEW to \in {"reply", "delete", "pending", "create", "codes"}, GoTo(q, to),
             UNCHANGED web, req[q].at \in {"start", "confirm", "delete", "create",
                                           "pending", "token", "confirmed", "enrolled"}
      PROVE  Works(q)
  BY <1>1, <1>2, OnlyGoingOnWorks DEF web
<1>3. CASE RefuseSetup(q)
  BY <1>2, <1>3 DEF RefuseSetup
<1>4. CASE AllowSetup(q)
  BY <1>2, <1>4 DEF AllowSetup
<1>5. CASE DeletePending(q)
  BY <1>2, <1>5 DEF DeletePending
<1>6. CASE CreateDevice(q)
  BY <1>2, <1>6 DEF CreateDevice
<1>7. CASE FindPending(q)
  <2>1. CASE GoTo(q, "reply")
    BY <1>2, <1>7, <2>1 DEF FindPending
  <2>2. ASSUME NEW d \in Pending, Become(q, [req[q] EXCEPT !.at = "token", !.device = d])
        PROVE  Works(q)
    <3> DEFINE l == [req[q] EXCEPT !.at = "token", !.device = d]
    <3>1. Continues(q, req[q], l)
      BY <1>1, <1>7 DEF FindPending, Continues, Counts, LocalStates
    <3> QED BY <1>7, <2>2, <3>1, ChangeWorks DEF FindPending, web
  <2> QED BY <1>7, <2>1, <2>2 DEF FindPending
<1>8. CASE AcceptPending(q)
  <2> DEFINE l == [req[q] EXCEPT !.at = "confirmed", !.proof = version]
  <2>1. Continues(q, req[q], l)
    BY <1>1, <1>8 DEF AcceptPending, Continues, Counts, LocalStates
  <2> QED BY <1>8, <2>1, ChangeWorks DEF AcceptPending, web
<1>9. CASE RefusePending(q)
  BY <1>2, <1>9 DEF RefusePending
<1>10. CASE Confirm(q)
  BY <1>2, <1>10 DEF Confirm
<1>11. CASE IssueCodes(q)
  <2> DEFINE l == [req[q] EXCEPT !.at = "enrolled", !.touched = TRUE,
                      !.data.device = req[q].device, !.data.version = ObjectVersion(q),
                      !.data.how = "verified", !.data.proof = req[q].proof]
  <2>1. /\ l.at = "enrolled" /\ l.loaded = req[q].loaded /\ l.kind = req[q].kind
        /\ l.sent = req[q].sent
        /\ l.key = req[q].key /\ l.data.login = req[q].data.login
        /\ l.data.preauth = req[q].data.preauth /\ l.data.attempts = req[q].data.attempts
        /\ l.refused = req[q].refused
    BY <1>1 DEF LocalStates, Dictionaries
  <2>2. Continues(q, req[q], l)
    BY <1>11, <2>1 DEF IssueCodes, Continues, Counts
  <2> QED BY <1>11, <2>2, ChangeWorks DEF IssueCodes, web
<1>12. CASE RecordEnrolled(q)
  BY <1>2, <1>12 DEF RecordEnrolled, Record
<1> QED BY <1>3, <1>4, <1>5, <1>6, <1>7, <1>8, <1>9, <1>10, <1>11, <1>12 DEF Setup

LEMMA LogoutWorks ==
    ASSUME TypeOK, NEW q \in Requests, RecordLogout(q) \/ LogOut(q)
    PROVE  Works(q)
<1> USE DEF Steps, AllKinds, LogoutSteps, Leaving, Arriving, Checking, At
<1>1. req[q] \in LocalStates
  BY DEF TypeOK
<1>2. CASE RecordLogout(q)
  BY <1>1, <1>2, OnlyGoingOnWorks DEF RecordLogout, Record, web
<1>3. CASE LogOut(q)
  BY <1>1, <1>3, FlushWorks DEF LogOut
<1> QED BY <1>2, <1>3

-------------------------------------------------------------------------------
(* The first step and the last. *)

LEMMA LoadKeepsRows ==
    ASSUME RowInv, NEW q \in Requests, Load(q), TypeOK'
    PROVE  RowInv'
<1> DEFINE l == req'[q]
<1>1. req[q] \in LocalStates /\ l \in LocalStates
  BY DEF RowInv, TypeOK
<1>2. /\ req[q].at = "new" /\ store' = store
      /\ \A p \in Requests \ {q} : req'[p] = req[p]
  BY DEF Load, At, Become, RowInv, TypeOK, web
<1>3. /\ l.at = "loaded" /\ l.kind = req[q].kind
      /\ l.sent = cookie[req[q].browser] /\ UNCHANGED cookie
      /\ \/ /\ l.loaded # None /\ l.key = l.loaded /\ l.loaded = l.sent
            /\ store[l.loaded] # None /\ l.data = store[l.loaded]
         \/ l.loaded = None /\ l.key = q
  <2>1. PICK found \in BOOLEAN :
          LET r == cookie[req[q].browser]
          IN /\ found => r # None /\ store[r] # None
             /\ Become(q, [req[q] EXCEPT !.at = "loaded", !.sent = r,
                             !.loaded = IF found THEN r ELSE None,
                             !.key = IF found THEN r ELSE q,
                             !.data = IF found THEN store[r] ELSE Empty])
    BY DEF Load
  <2> DEFINE r == cookie[req[q].browser]
  <2>2. l = [req[q] EXCEPT !.at = "loaded", !.sent = r,
               !.loaded = IF found THEN r ELSE None, !.key = IF found THEN r ELSE q,
               !.data = IF found THEN store[r] ELSE Empty]
    BY <2>1 DEF Become, RowInv, TypeOK
  <2>3. /\ l.at = "loaded" /\ l.kind = req[q].kind /\ l.sent = r
        /\ l.loaded = IF found THEN r ELSE None
        /\ l.key = IF found THEN r ELSE q
        /\ l.data = IF found THEN store[r] ELSE Empty
    BY <1>1, <2>2 DEF LocalStates
  <2> QED BY <2>1, <2>3 DEF Load, web
<1>4. ASSUME NEW r \in Rows, KnownKey(r)'
      PROVE  KnownKey(r) /\ r # q /\ req[r].at = "done"
  <2>1. KnownKey(r)
    BY <1>1, <1>2, <1>3, <1>4 DEF KnownKey, LocalStates
  <2> QED BY <1>2, <2>1 DEF RowInv, Made, Rows
<1>5. ASSUME NEW p \in Requests, p # q
      PROVE  (Made(p) /\ Agrees(p) /\ Leaves(p))'
  <2>1. Made(p) /\ Agrees(p) /\ Leaves(p) /\ req[p] \in LocalStates
    BY DEF RowInv, TypeOK
  <2>2. req[p].loaded # None => req[p].loaded \in Requests \ {q}
    BY <1>2, <2>1 DEF Made, LocalStates, Rows
  <2> QED BY <1>2, <1>4, <1>5, <2>1, <2>2 DEF Made, Agrees, Leaves, Rows
<1>6. (Made(q) /\ Agrees(q) /\ Leaves(q))'
  <2>1. l.loaded \in Rows \cup {None}
    BY <1>1 DEF LocalStates
  <2>2. l.loaded # None => l.loaded \in Requests \ {q} /\ req'[l.loaded].at = "done"
    BY <1>2, <1>3, <1>4, <2>1 DEF Rows, KnownKey
  <2>3. Made(q)'
    BY <1>2, <1>3, <1>4, <2>1, <2>2 DEF RowInv, Made, Rows
  <2>4. Agrees(q)'
    BY <1>2, <1>3 DEF Agrees
  <2>5. Leaves(q)'
    BY <1>3 DEF Leaves, Leaving, LogoutSteps
  <2> QED BY <2>3, <2>4, <2>5
<1> QED BY <1>5, <1>6 DEF RowInv

(* What a response does to the rows: it writes q's own, or writes back the row q *)
(* loaded while that is there, as it was a user's or not.                        *)
LEMMA ReplyRows ==
    ASSUME RowInv, NEW q \in Requests, Reply(q)
    PROVE  /\ req[q].at = "reply"
           /\ \A p \in Requests \ {q} : req'[p] = req[p]
           /\ req'[q].at \in {"done", "failed"}
           /\ req'[q].at = "failed" => store' = store
           /\ req'[q].kind = req[q].kind /\ req'[q].loaded = req[q].loaded
           /\ req'[q].key = req[q].key /\ req'[q].data = req[q].data
           /\ req'[q].sent = req[q].sent
           /\ \A b \in Browsers :
                \/ cookie'[b] \in {cookie[b], None}
                \/ cookie'[b] = req[q].key /\ req'[q].at = "done"
           /\ \A r \in Rows \ {q} :
                store'[r] = store[r] \/ (store[r] # None /\ r = req[q].key
                                         /\ store'[r] = req[q].data
                                         /\ store[r].login = req[q].data.login)
<1> DEFINE l == req[q]
           saved == l.touched /\ l.data # Empty
           refused == saved /\ l.key # q /\ store[l.key] = None
           to == IF refused THEN "failed" ELSE "done"
<1>1. l \in LocalStates
  BY DEF RowInv, TypeOK
<1>2. l.at = "reply"
  BY DEF Reply, At
<1>3. req' = [req EXCEPT ![q] = [l EXCEPT !.at = to]]
  BY DEF Reply, GoTo, Become
<1>4. /\ req'[q] = [l EXCEPT !.at = to]
      /\ \A p \in Requests \ {q} : req'[p] = req[p]
  BY <1>3 DEF RowInv, TypeOK
<1>5. store' = IF saved /\ ~refused THEN [store EXCEPT ![l.key] = l.data] ELSE store
  BY DEF Reply
<1>6. \A r \in Rows \ {q} :
        store'[r] = store[r] \/ (store[r] # None /\ r = l.key /\ store'[r] = l.data
                                 /\ store[r].login = l.data.login)
  BY <1>2, <1>5 DEF RowInv, Agrees, TypeOK
<1>7. to = "failed" => store' = store
  BY <1>5
<1>8. ASSUME NEW b \in Browsers
      PROVE  cookie'[b] \in {cookie[b], None} \/ (cookie'[b] = l.key /\ to = "done")
  <2>1. cookie' = CASE refused -> cookie
                    [] saved /\ ~refused -> [cookie EXCEPT ![l.browser] = l.key]
                    [] l.data = Empty /\ l.sent # None -> [cookie EXCEPT ![l.browser] = None]
                    [] OTHER -> cookie
    BY DEF Reply
  <2> QED BY <2>1 DEF RowInv, TypeOK
<1> QED BY <1>1, <1>2, <1>4, <1>6, <1>7, <1>8 DEF LocalStates

LEMMA ReplyKeepsRows ==
    ASSUME RowInv, NEW q \in Requests, Reply(q), TypeOK'
    PROVE  RowInv'
<1>1. req[q].at = "reply"
  BY ReplyRows
<1>2. /\ \A p \in Requests \ {q} : req'[p] = req[p]
      /\ req'[q].at \in {"done", "failed"}
      /\ req'[q].at = "failed" => store' = store
      /\ req'[q].kind = req[q].kind /\ req'[q].loaded = req[q].loaded
      /\ req'[q].key = req[q].key /\ req'[q].data = req[q].data
      /\ req'[q].sent = req[q].sent
      /\ \A b \in Browsers :
           \/ cookie'[b] \in {cookie[b], None}
           \/ cookie'[b] = req[q].key /\ req'[q].at = "done"
  BY ReplyRows
<1>3. \A r \in Rows \ {q} :
        store'[r] = store[r] \/ (store[r] # None /\ r = req[q].key
                                 /\ store'[r] = req[q].data
                                 /\ store[r].login = req[q].data.login)
  BY ReplyRows
<1>4. ASSUME NEW p \in Requests
      PROVE  /\ Made(p) /\ Agrees(p) /\ Leaves(p) /\ req[p] \in LocalStates
             /\ req[p].loaded # None => req[p].loaded \in Rows \ {q}
             /\ p # q /\ req[p].at # "new" => req[p].key \in Rows \ {q}
             /\ req[p].key # p /\ req[p].at # "new" => req[req[p].key].at = "done"
  <2>1. Made(p) /\ Agrees(p) /\ Leaves(p) /\ req[p] \in LocalStates
    BY DEF RowInv, TypeOK
  <2>2. req[p].loaded # None => req[p].loaded \in Rows \ {q}
    BY <1>1, <2>1 DEF Made, LocalStates
  <2>3. p # q /\ req[p].at # "new" => req[p].key \in Rows \ {q}
    BY <2>1, <2>2, FirstAssumption DEF Made, Rows, Devices
  <2>4. req[p].key # p /\ req[p].at # "new" => req[req[p].key].at = "done"
    BY <2>1, FirstAssumption DEF Made, Rows, Devices
  <2> QED BY <2>1, <2>2, <2>3, <2>4
<1>k. ASSUME NEW r \in Rows, KnownKey(r)', ~KnownKey(r)
      PROVE  r = req[q].key /\ req'[q].at = "done"
  BY <1>2, <1>k, FirstAssumption DEF KnownKey, Rows, Devices
<1>5. ASSUME NEW p \in Requests, p # q
      PROVE  (Made(p) /\ Agrees(p) /\ Leaves(p))'
  <2>1. Made(p)'
    <3>1. req[p].at # "done" => ~KnownKey(p)'
      BY <1>1, <1>4, <1>5, <1>k DEF Made, Rows
    <3> QED BY <1>2, <1>4, <1>5, <3>1 DEF Made, Rows
  <2>2. Agrees(p)'
    BY <1>2, <1>3, <1>4, <1>5 DEF Agrees
  <2>3. Leaves(p)'
    BY <1>2, <1>3, <1>4, <1>5 DEF Leaves
  <2> QED BY <2>1, <2>2, <2>3
<1>6. (Made(q) /\ Agrees(q) /\ Leaves(q))'
  <2>1. Made(q)'
    BY <1>1, <1>2, <1>4, <1>k DEF Made, Rows
  <2>2. Agrees(q)'
    BY <1>1, <1>2, <1>3, <1>4 DEF Agrees, Made
  <2>3. Leaves(q)'
    <3>1. ASSUME req[q].kind = "logout", req[q].loaded # None
          PROVE  store'[req[q].loaded] = None
      <4>1. store[req[q].loaded] = None
        BY <1>1, <1>4, <3>1 DEF Leaves
      <4>2. req[q].loaded \in Rows \ {q}
        BY <1>4, <3>1
      <4> QED BY <1>3, <4>1, <4>2
    <3>2. req'[q].at \in LogoutSteps /\ req'[q].at \notin Leaving
      BY <1>2 DEF LogoutSteps, Leaving
    <3> QED BY <1>2, <3>1, <3>2 DEF Leaves
  <2> QED BY <2>1, <2>2, <2>3
<1> QED BY <1>5, <1>6 DEF RowInv

-------------------------------------------------------------------------------
(* The theorems *)

LEMMA InitRowInv == Init => RowInv
<1> SUFFICES ASSUME Init PROVE RowInv
  OBVIOUS
<1>1. TypeOK
  BY InitMInv DEF MInv
<1>2. ASSUME NEW q \in Requests
      PROVE  Made(q) /\ Agrees(q) /\ Leaves(q)
  <2>1. /\ req[q].at = "new" /\ req[q].loaded = None
    BY DEF Init, Locals
  <2>2. ~KnownKey(q)
    BY FirstAssumption DEF Init, Locals, KnownKey, Devices
  <2> QED BY <2>1, <2>2 DEF Made, Agrees, Leaves, LogoutSteps
<1> QED BY <1>1, <1>2 DEF RowInv

LEMMA NextRowInv == RowInv /\ TypeOK' /\ [Next]_vars => RowInv'
<1> SUFFICES ASSUME RowInv, TypeOK', [Next]_vars PROVE RowInv'
  OBVIOUS
<1>1. CASE UNCHANGED <<store, cookie, req>>
  BY <1>1 DEF RowInv, Made, Agrees, Leaves, KnownKey
<1>2. CASE UNCHANGED vars
  BY <1>1, <1>2 DEF vars, web
<1>3. CASE ResetMfa \/ ChangeScope
  BY <1>1, <1>3 DEF ResetMfa, ChangeScope, web
<1>4. ASSUME NEW q \in Requests,
             Session(q) \/ Login(q) \/ Verify(q) \/ Setup(q)
             \/ RecordLogout(q) \/ LogOut(q) \/ Fail(q)
      PROVE  RowInv'
  <2>1. TypeOK
    BY DEF RowInv
  <2>2. Load(q) \/ Reply(q) \/ Works(q)
    BY <1>4, <2>1, SessionWorks, LoginWorks, VerifyWorks, SetupWorks, LogoutWorks
       DEF Session
  <2> QED BY <2>2, LoadKeepsRows, ReplyKeepsRows, WorkKeepsRows
<1> QED BY <1>2, <1>3, <1>4 DEF Next

LEMMA RowInvariance == Spec => []RowInv
<1>1. RowInv /\ TypeOK' /\ [Next]_vars => RowInv'
  BY NextRowInv
<1> QED BY <1>1, InitRowInv, TypeCorrect, PTL DEF Spec

(* The session a finished logout had loaded is gone for good. *)
THEOREM LogoutFinal == Spec => []LoggedOutStaysOut
<1>1. RowInv => LoggedOutStaysOut
  BY DEF RowInv, Leaves, LoggedOutStaysOut, At
<1> QED BY <1>1, RowInvariance, PTL

(* The row of an anonymous session, once a browser knows its key, never becomes *)
(* that of a user.                                                              *)
THEOREM LoginSeparate == Spec => LoginTakesNewRow
<1> DEFINE Kept == \A r \in Rows :
             (KnownKey(r) /\ store[r] # None /\ ~store[r].login) => (store'[r] = None \/ ~store'[r].login)
<1>1. ASSUME RowInv, [Next]_vars PROVE [Kept]_vars
  <2>1. CASE UNCHANGED store
    BY <2>1
  <2>2. CASE ResetMfa \/ ChangeScope
    BY <2>1, <2>2 DEF ResetMfa, ChangeScope, web
  <2>3. ASSUME NEW q \in Requests,
               Session(q) \/ Login(q) \/ Verify(q) \/ Setup(q)
               \/ RecordLogout(q) \/ LogOut(q) \/ Fail(q)
        PROVE  Kept
    <3>1. TypeOK
      BY <1>1 DEF RowInv
    <3>2. CASE Load(q)
      BY <2>1, <3>2 DEF Load, web
    <3>3. CASE Reply(q)
      <4>1. ~KnownKey(q)
        BY <1>1, <3>3 DEF Reply, At, RowInv, Made
      <4> QED BY <1>1, <3>3, <4>1, ReplyRows
    <3>4. CASE Works(q)
      <4>1. ~KnownKey(q)
        BY <1>1, <3>4 DEF Works, Continues, RowInv, Made
      <4> QED BY <3>4, <4>1 DEF Works
    <3>5. Load(q) \/ Reply(q) \/ Works(q)
      BY <2>3, <3>1, SessionWorks, LoginWorks, VerifyWorks, SetupWorks, LogoutWorks
         DEF Session
    <3> QED BY <3>2, <3>3, <3>4, <3>5
  <2> QED BY <1>1, <2>2, <2>3 DEF Next
<1> QED BY <1>1, RowInvariance, PTL DEF Spec, LoginTakesNewRow

-------------------------------------------------------------------------------
(* What is on record.  A dictionary that says more than the events is in the  *)
(* hands of one request only, which records the rest before it writes it.     *)

Opened(r, d) ==
    d.preauth \/ d.login => \E a \in {"password_accepted", "mfa_accepted"} : <<r, a>> \in events

Proven(r, d) ==
    d.login /\ d.how = "verified" =>
        \/ <<r, "mfa_accepted">> \in events
        \/ \E p \in Requests : req[p].loaded = r /\ <<p, "mfa_enrolled">> \in events

OnRecord(r, d) == Opened(r, d) /\ Proven(r, d)

Enrolling == {"delete", "create", "pending", "token", "confirmed", "codes", "enrolled"}
Unrecorded == {"failed", "verified", "enrolled"}

Says(q) ==
    LET l == req[q]
    IN /\ l.at \notin Unrecorded => OnRecord(l.key, l.data)
       /\ l.at = "enrolled" => Opened(l.key, l.data)
       /\ l.at \in {"flushed", "verified"} => l.key = q
       /\ l.at \in {"role", "factor"} => <<q, "password_accepted">> \in events
       /\ l.at \in Arriving => l.key = l.loaded \/ ~l.data.login
       /\ l.at \in Enrolling => l.key = l.loaded
       /\ l.at = "new" => \A a \in Actions : <<q, a>> \notin events

RowsSay == \A r \in Rows : store[r] # None => OnRecord(r, store[r])

EInv == TypeOK /\ RowsSay /\ \A q \in Requests : Says(q)

(* q goes on with locals l and records at most events of its own. *)
Proceeds(q, l) ==
    /\ Become(q, l)
    /\ events \subseteq events'
    /\ \A p \in Requests \ {q}, a \in Actions : <<p, a>> \in events' => <<p, a>> \in events
    /\ l.at # "new" /\ (req[q].at # "new" => l.loaded = req[q].loaded)

(* What is on record stays so. *)
LEMMA RecordStays ==
    ASSUME EInv, NEW q \in Requests, NEW l, Proceeds(q, l), NEW r, NEW d
    PROVE  /\ Opened(r, d) => Opened(r, d)'
           /\ Proven(r, d) => Proven(r, d)'
<1>1. ASSUME NEW p \in Requests, <<p, "mfa_enrolled">> \in events
      PROVE  req'[p].loaded = req[p].loaded /\ <<p, "mfa_enrolled">> \in events'
  <2>1. req[p].at # "new"
    BY <1>1 DEF EInv, Says, Actions
  <2> QED BY <1>1, <2>1 DEF Proceeds, Become, EInv, TypeOK
<1>2. events \subseteq events'
  BY DEF Proceeds
<1>3. Opened(r, d) => Opened(r, d)'
  BY <1>2 DEF Opened
<1>4. Proven(r, d) => Proven(r, d)'
  BY <1>1, <1>2 DEF Proven
<1> QED BY <1>3, <1>4

LEMMA SaysStep ==
    ASSUME EInv, TypeOK', NEW q \in Requests, NEW l, Proceeds(q, l), RowsSay',
           (l.at \notin Unrecorded => OnRecord(l.key, l.data))',
           (l.at = "enrolled" => Opened(l.key, l.data))', l.at \in {"flushed", "verified"} => l.key = q,
           l.at \in {"role", "factor"} => <<q, "password_accepted">> \in events',
           l.at \in Arriving => l.key = l.loaded \/ ~l.data.login,
           l.at \in Enrolling => l.key = l.loaded
    PROVE  EInv'
<1>1. req' = [req EXCEPT ![q] = l] /\ req'[q] = l /\ \A p \in Requests \ {q} : req'[p] = req[p]
  BY DEF Proceeds, Become, EInv, TypeOK
<1>2. Says(q)'
  BY <1>1 DEF Says, Proceeds, OnRecord, Opened, Proven
<1>3. ASSUME NEW p \in Requests \ {q} PROVE Says(p)'
  <2>1. Says(p) /\ req'[p] = req[p]
    BY <1>1 DEF EInv
  <2>2. req[p].at \notin Unrecorded => OnRecord(req[p].key, req[p].data)'
    BY <2>1, RecordStays DEF Says, OnRecord
  <2>3. req[p].at = "enrolled" => Opened(req[p].key, req[p].data)'
    BY <2>1, RecordStays DEF Says
  <2> QED BY <2>1, <2>2, <2>3 DEF Says, Proceeds
<1> QED BY <1>2, <1>3 DEF EInv

(* Rows stay as they are, or go. *)
LEMMA RowsStay ==
    ASSUME EInv, NEW q \in Requests, NEW l, Proceeds(q, l),
           \A r \in Rows : store'[r] \in {store[r], None}
    PROVE  RowsSay'
<1> SUFFICES ASSUME NEW r \in Rows, store'[r] # None PROVE OnRecord(r, store[r])'
  BY DEF RowsSay
<1>1. store'[r] = store[r] /\ OnRecord(r, store[r])
  BY DEF EInv, RowsSay
<1> QED BY <1>1, RecordStays DEF OnRecord

(* The steps that change neither row, key nor what the dictionary says. *)
Quiet(q, l) ==
    /\ Proceeds(q, l) /\ \A r \in Rows : store'[r] \in {store[r], None}
    /\ req[q].at \notin Unrecorded \cup {"new"}
    /\ l.key = req[q].key
    /\ l.data.preauth = req[q].data.preauth /\ l.data.login = req[q].data.login
    /\ l.data.how = req[q].data.how

LEMMA QuietStep ==
    ASSUME EInv, TypeOK', NEW q \in Requests, NEW l, Quiet(q, l), l.at \notin {"flushed", "verified"},
           l.at \in {"role", "factor"} => <<q, "password_accepted">> \in events',
           l.at \in Arriving => req[q].at \in Arriving,
           l.at \in Enrolling => \/ req[q].at \in Enrolling
                                 \/ req[q].at \in Arriving /\ req[q].data.login
    PROVE  EInv'
<1>1. Says(q) /\ req[q].at \notin Unrecorded
  BY DEF EInv, Quiet
<1>2. OnRecord(l.key, l.data)
  BY <1>1 DEF Says, Quiet, OnRecord, Opened, Proven
<1>3. OnRecord(l.key, l.data)'
  BY <1>2, RecordStays DEF OnRecord, Quiet
<1>4. RowsSay'
  BY RowsStay DEF Quiet
<1>5. l.loaded = req[q].loaded
  BY DEF Quiet, Proceeds
<1>6. l.at \in Arriving => l.key = l.loaded \/ ~l.data.login
  BY <1>1, <1>5 DEF Says, Quiet
<1>7. l.at \in Enrolling => l.key = l.loaded
  BY <1>1, <1>5 DEF Says, Quiet
<1> QED BY <1>3, <1>4, <1>6, <1>7, SaysStep DEF OnRecord, Quiet

(* The steps that give up the dictionary for one that says nothing, or nothing *)
(* that q's own events do not.                                                 *)
LEMMA FreshStep ==
    ASSUME EInv, TypeOK', NEW q \in Requests, NEW l, Proceeds(q, l),
           \A r \in Rows : store'[r] \in {store[r], None}, l.at \in {"reply", "failed", "flushed"},
           l.at = "flushed" => l.key = q,
           l.at # "failed" => OnRecord(l.key, l.data)'
    PROVE  EInv'
<1>1. RowsSay'
  BY RowsStay
<1> QED BY <1>1, SaysStep DEF Arriving, Enrolling, Unrecorded, AllKinds

(* The steps that insert q's row, with a dictionary that q's own events allow. *)
LEMMA InsertSays ==
    ASSUME EInv, TypeOK', NEW q \in Requests, NEW l, Proceeds(q, l), Insert(q),
           OnRecord(q, req[q].data), l.key = q, l.at \in {"cycled", "failed", "verified"},
           l.at = "cycled" => OnRecord(l.key, l.data)'
    PROVE  EInv'
<1>d. PICK d : d = req[q].data
  OBVIOUS
<1>1. RowsSay'
  <2> SUFFICES ASSUME NEW r \in Rows, store'[r] # None PROVE OnRecord(r, store[r])'
    BY DEF RowsSay
  <2>1. CASE r = q
    <3>1. store'[r] = d
      BY <1>d, <2>1 DEF Insert, EInv, TypeOK
    <3>2. OnRecord(q, d)'
      BY <1>d, RecordStays DEF OnRecord
    <3> QED BY <2>1, <3>1, <3>2 DEF OnRecord, Opened, Proven
  <2>2. CASE r # q
    <3>1. store'[r] = store[r] /\ OnRecord(r, store[r])
      BY <2>2 DEF Insert, EInv, RowsSay, TypeOK
    <3> QED BY <3>1, RecordStays DEF OnRecord
  <2> QED BY <2>1, <2>2
<1> QED BY <1>1, SaysStep DEF Arriving, Enrolling, Unrecorded, AllKinds

LEMMA Drops ==
    ASSUME TypeOK, NEW q \in Requests, DropRow(q) \/ UNCHANGED store
    PROVE  \A r \in Rows : store'[r] \in {store[r], None}
  BY DEF TypeOK, DropRow

-------------------------------------------------------------------------------
(* The steps *)

(* A step that only goes on, or changes locals that the record is not about. *)
LEMMA GoesOn ==
    ASSUME EInv, TypeOK', NEW q \in Requests, NEW l, Become(q, l), UNCHANGED <<store, events>>,
           req[q].at \notin Unrecorded \cup {"new"}, l.at \notin {"new", "flushed", "verified"},
           l.loaded = req[q].loaded, l.key = req[q].key,
           l.data.preauth = req[q].data.preauth, l.data.login = req[q].data.login,
           l.data.how = req[q].data.how,
           l.at \in {"role", "factor"} => <<q, "password_accepted">> \in events',
           l.at \in Arriving => req[q].at \in Arriving,
           l.at \in Enrolling => \/ req[q].at \in Enrolling
                                 \/ req[q].at \in Arriving /\ req[q].data.login
    PROVE  EInv'
<1>1. Quiet(q, l)
  BY DEF Quiet, Proceeds
<1> QED BY <1>1, QuietStep

LEMMA LoadSays == ASSUME EInv, TypeOK', NEW q \in Requests, Load(q) PROVE EInv'
<1>1. PICK found \in BOOLEAN :
        LET r == cookie[req[q].browser]
        IN /\ found => r # None /\ store[r] # None
           /\ Become(q, [req[q] EXCEPT !.at = "loaded", !.sent = r,
                           !.loaded = IF found THEN r ELSE None,
                           !.key = IF found THEN r ELSE q,
                           !.data = IF found THEN store[r] ELSE Empty])
  BY DEF Load
<1> DEFINE r == cookie[req[q].browser]
<1>a. PICK l : l = [req[q] EXCEPT !.at = "loaded", !.sent = r,
                      !.loaded = IF found THEN r ELSE None,
                      !.key = IF found THEN r ELSE q,
                      !.data = IF found THEN store[r] ELSE Empty]
  OBVIOUS
<1>2. req[q] \in LocalStates /\ req[q].at = "new" /\ r \in Rows \cup {None}
  BY DEF EInv, TypeOK, Load, At, LocalStates
<1>3. /\ l.at = "loaded" /\ l.loaded = (IF found THEN r ELSE None)
      /\ l.key = (IF found THEN r ELSE q) /\ l.data = (IF found THEN store[r] ELSE Empty)
  BY <1>a, <1>2 DEF LocalStates
<1>4. UNCHANGED <<store, events>> /\ Proceeds(q, l)
  BY <1>a, <1>1, <1>2, <1>3 DEF Load, web, Proceeds
<1>5. OnRecord(l.key, l.data)
  <2>1. CASE found
    BY <1>1, <1>2, <1>3, <2>1 DEF EInv, RowsSay
  <2>2. CASE ~found
    BY <1>3, <2>2 DEF OnRecord, Opened, Proven, Empty
  <2> QED BY <2>1, <2>2
<1>6. RowsSay' /\ OnRecord(l.key, l.data)'
  BY <1>4, <1>5, RowsStay, RecordStays DEF OnRecord
<1>7. l.key = l.loaded \/ ~l.data.login
  BY <1>3 DEF Empty
<1> QED BY <1>3, <1>4, <1>6, <1>7, SaysStep DEF Enrolling

LEMMA ReplySays == ASSUME EInv, TypeOK', NEW q \in Requests, Reply(q) PROVE EInv'
<1> DEFINE saved == req[q].touched /\ req[q].data # Empty
           refused == saved /\ req[q].key # q /\ store[req[q].key] = None
<1>1. /\ req[q].at = "reply" /\ UNCHANGED events
      /\ GoTo(q, IF refused THEN "failed" ELSE "done")
      /\ store' = IF saved /\ ~refused THEN [store EXCEPT ![req[q].key] = req[q].data] ELSE store
  BY DEF Reply, At
<1>2. PICK l : l = [req[q] EXCEPT !.at = IF refused THEN "failed" ELSE "done"]
  OBVIOUS
<1>3. /\ l.at \in {"failed", "done"} /\ l.loaded = req[q].loaded
      /\ l.key = req[q].key /\ l.data = req[q].data /\ Become(q, l)
  BY <1>1, <1>2 DEF GoTo, EInv, TypeOK, LocalStates
<1>4. Proceeds(q, l)
  BY <1>1, <1>3 DEF Proceeds
<1>5. OnRecord(l.key, l.data)
  BY <1>1, <1>3 DEF EInv, Says, Unrecorded
<1>6. OnRecord(l.key, l.data)'
  BY <1>4, <1>5, RecordStays DEF OnRecord
<1>7. RowsSay'
  <2> SUFFICES ASSUME NEW r \in Rows, store'[r] # None PROVE OnRecord(r, store[r])'
    BY DEF RowsSay
  <2>1. CASE store'[r] = store[r]
    <3>1. OnRecord(r, store[r])
      BY <2>1 DEF EInv, RowsSay
    <3> QED BY <2>1, <3>1, <1>4, RecordStays DEF OnRecord
  <2>2. CASE store'[r] # store[r]
    <3>1. r = l.key /\ store'[r] = l.data
      BY <2>2, <1>1, <1>3 DEF EInv, TypeOK
    <3> QED BY <3>1, <1>6 DEF OnRecord, Opened, Proven
  <2> QED BY <2>1, <2>2
<1> QED BY <1>3, <1>4, <1>6, <1>7, SaysStep DEF Arriving, Enrolling, AllKinds

(* A step that only goes on to another place. *)
LEMMA Onward ==
    ASSUME EInv, TypeOK', NEW q \in Requests, NEW to, GoTo(q, to), UNCHANGED <<store, events>>,
           req[q].at \notin Unrecorded \cup {"new"}, to \notin {"new", "flushed", "verified"},
           to \in {"role", "factor"} => <<q, "password_accepted">> \in events,
           to \in Arriving => req[q].at \in Arriving,
           to \in Enrolling => \/ req[q].at \in Enrolling
                               \/ req[q].at \in Arriving /\ req[q].data.login
    PROVE  EInv'
<1>1. PICK l : l = [req[q] EXCEPT !.at = to]
  OBVIOUS
<1>2. /\ l.at = to /\ l.loaded = req[q].loaded /\ l.key = req[q].key /\ l.data = req[q].data
      /\ Become(q, l)
  BY <1>1 DEF GoTo, EInv, TypeOK, LocalStates
<1> QED BY <1>2, GoesOn

(* A step that flushes the session: the new dictionary is Empty or a mere *)
(* pre-authentication of a password on record.                            *)
LEMMA Flushes ==
    ASSUME EInv, TypeOK', NEW q \in Requests, NEW l, Become(q, l), UNCHANGED events, DropRow(q),
           req[q].at # "new", l.at \in {"reply", "flushed"}, l.loaded = req[q].loaded, l.key = q,
           ~l.data.login, l.data.how = "none",
           l.data.preauth => <<q, "password_accepted">> \in events
    PROVE  EInv'
<1>1. Proceeds(q, l)
  BY DEF Proceeds
<1>2. \A r \in Rows : store'[r] \in {store[r], None}
  BY Drops DEF EInv
<1>3. OnRecord(l.key, l.data)'
  BY DEF OnRecord, Opened, Proven
<1> QED BY <1>1, <1>2, <1>3, FreshStep

LEMMA FailSays == ASSUME EInv, TypeOK', NEW q \in Requests, Fail(q) PROVE EInv'
<1>1. PICK l : l = [req[q] EXCEPT !.at = "failed"]
  OBVIOUS
<1>2. l.at = "failed" /\ l.loaded = req[q].loaded /\ Become(q, l) /\ UNCHANGED <<store, events>>
  BY <1>1 DEF Fail, GoTo, web, EInv, TypeOK, LocalStates
<1>3. Proceeds(q, l)
  BY <1>2 DEF Proceeds
<1> QED BY <1>2, <1>3, FreshStep

(* Recording an event and going on. *)
LEMMA RecordSays ==
    ASSUME EInv, TypeOK', NEW q \in Requests, NEW action \in Actions, NEW to, Record(q, action, to),
           req[q].at \notin Unrecorded \cup {"new"},
           to = "reply" \/ to = "leave" \/ (to = "role" /\ action = "password_accepted")
    PROVE  EInv'
<1>1. PICK l : l = [req[q] EXCEPT !.at = to]
  OBVIOUS
<1>2. /\ l.at = to /\ l.loaded = req[q].loaded /\ l.key = req[q].key /\ l.data = req[q].data
      /\ Become(q, l) /\ UNCHANGED store /\ events' = events \cup {<<q, action>>}
  BY <1>1 DEF Record, GoTo, web, EInv, TypeOK, LocalStates
<1>3. Quiet(q, l)
  BY <1>2 DEF Quiet, Proceeds
<1> QED BY <1>2, <1>3, QuietStep DEF Arriving, Enrolling, AllKinds

LEMMA EmptySays ==
    ASSUME EInv, TypeOK', NEW q \in Requests, NEW to \in {"reply", "flushed"},
           Become(q, Flushed(q, to, Empty)), UNCHANGED events, DropRow(q), req[q].at # "new"
    PROVE  EInv'
<1>1. Empty \in Dictionaries /\ ~Empty.login /\ ~Empty.preauth /\ Empty.how = "none"
  BY AttemptsAssumption, VersionAssumption DEF Empty, Dictionaries, EInv, TypeOK
<1>2. PICK l : l = Flushed(q, to, Empty)
  OBVIOUS
<1>3. l.at = to /\ l.loaded = req[q].loaded /\ l.key = q /\ l.data = Empty /\ Become(q, l)
  BY <1>2 DEF Flushed, EInv, TypeOK, LocalStates
<1> QED BY <1>1, <1>3, Flushes

LEMMA SessionSays == ASSUME EInv, TypeOK', NEW q \in Requests, Session(q) PROVE EInv'
<1>a. req[q] \in LocalStates /\ req[q].kind \in AllKinds
  BY DEF EInv, TypeOK, LocalStates
<1>1. CASE ReadUser(q)
  <2>1. req[q].at = "loaded" /\ UNCHANGED <<store, events>>
    BY <1>1 DEF ReadUser, At, web
  <2>2. CASE req[q].data.login
    <3>1. PICK l : l = [req[q] EXCEPT !.at = "identified", !.version = version]
      OBVIOUS
    <3>2. /\ l.at = "identified" /\ l.loaded = req[q].loaded /\ l.key = req[q].key
          /\ l.data = req[q].data /\ Become(q, l)
      BY <1>1, <1>a, <2>2, <3>1 DEF ReadUser, LocalStates
    <3> QED BY <2>1, <3>2, GoesOn DEF Arriving, Enrolling, Unrecorded, AllKinds
  <2>3. CASE ~req[q].data.login
    <3>1. GoTo(q, req[q].kind)
      BY <1>1, <2>3 DEF ReadUser
    <3> QED BY <1>a, <2>1, <3>1, Onward DEF Arriving, Enrolling, Unrecorded, AllKinds
  <2> QED BY <2>2, <2>3
<1>2. CASE LogOutStale(q)
  BY <1>2, EmptySays DEF LogOutStale, At
<1>3. CASE Admit(q)
  <2> DEFINE d == req[q].data.device
             gone == d # None /\ d \in {e \in Devices : device[e] = "absent"}
  <2>1. PICK l : l = [req[q] EXCEPT !.at = req[q].kind, !.touched = gone,
                        !.data.device = IF gone THEN None ELSE @]
    OBVIOUS
  <2>2. /\ l.at = req[q].kind /\ l.loaded = req[q].loaded /\ l.key = req[q].key
        /\ l.data.preauth = req[q].data.preauth /\ l.data.login = req[q].data.login
        /\ l.data.how = req[q].data.how
    BY <1>a, <2>1 DEF LocalStates, Dictionaries
  <2>3. Become(q, l) /\ req[q].at = "identified" /\ UNCHANGED <<store, events>>
    BY <1>3, <2>1 DEF Admit, At, web
  <2> QED BY <1>a, <2>2, <2>3, GoesOn DEF Arriving, Enrolling, Unrecorded, AllKinds
<1>4. CASE Visit(q)
  BY <1>4, Onward DEF Visit, At, web, Arriving, Enrolling, Unrecorded, AllKinds
<1> QED BY <1>1, <1>2, <1>3, <1>4, LoadSays, ReplySays DEF Session

LEMMA LogInSays ==
    ASSUME EInv, TypeOK', NEW q \in Requests, NEW how \in {"unprivileged", "enrolling"},
           LogIn(q, how), req[q].at \in {"role", "factor"}
    PROVE  EInv'
<1>1. PICK l : l = [req[q] EXCEPT !.at = IF NewKey(q) THEN "cycled" ELSE "reply",
                      !.key = IF NewKey(q) THEN q ELSE @, !.touched = TRUE,
                      !.data.login = TRUE, !.data.version = ObjectVersion(q),
                      !.data.how = how]
  OBVIOUS
<1>2. /\ l.at = (IF NewKey(q) THEN "cycled" ELSE "reply") /\ l.loaded = req[q].loaded
      /\ l.key = (IF NewKey(q) THEN q ELSE req[q].key)
      /\ l.data.login /\ l.data.how = how
  <2>1. req[q] \in LocalStates /\ req[q].data \in Dictionaries
    BY DEF EInv, TypeOK, LocalStates
  <2>2. l.data = [req[q].data EXCEPT !.login = TRUE, !.version = ObjectVersion(q), !.how = how]
    BY <1>1, <2>1 DEF LocalStates
  <2>3. /\ l.at = (IF NewKey(q) THEN "cycled" ELSE "reply") /\ l.loaded = req[q].loaded
        /\ l.key = (IF NewKey(q) THEN q ELSE req[q].key)
    BY <1>1, <2>1 DEF LocalStates
  <2> QED BY <2>1, <2>2, <2>3 DEF Dictionaries
<1>3. Become(q, l) /\ UNCHANGED events
  BY <1>1 DEF LogIn
<1>4. Proceeds(q, l)
  BY <1>2, <1>3 DEF Proceeds
<1>5. Says(q)
  BY DEF EInv
<1>6. CASE NewKey(q)
  <2>1. OnRecord(q, req[q].data) /\ Opened(l.key, l.data)
    BY <1>2, <1>5, <1>6 DEF Says, OnRecord, Opened, Proven, NewKey
  <2>2. OnRecord(l.key, l.data)'
    BY <1>2, <1>4, <2>1, RecordStays DEF OnRecord, Proven
  <2>3. Insert(q)
    BY <1>6 DEF LogIn
  <2> QED BY <1>2, <1>4, <1>6, <2>1, <2>2, <2>3, InsertSays
<1>7. CASE ~NewKey(q)
  <2>1. Opened(l.key, l.data)
    BY <1>2, <1>5, <1>7 DEF Says, OnRecord, Opened, NewKey, Unrecorded
  <2>2. OnRecord(l.key, l.data)'
    BY <1>2, <1>4, <2>1, RecordStays DEF OnRecord, Proven
  <2>3. \A r \in Rows : store'[r] \in {store[r], None}
    BY <1>7 DEF LogIn
  <2> QED BY <1>2, <1>4, <1>7, <2>2, <2>3, FreshStep
<1> QED BY <1>6, <1>7

LEMMA DropOldSays == ASSUME EInv, TypeOK', NEW q \in Requests, DropOld(q) PROVE EInv'
<1>1. PICK l : l = [req[q] EXCEPT !.at = "reply"]
  OBVIOUS
<1>2. /\ l.at = "reply" /\ l.loaded = req[q].loaded /\ l.key = req[q].key
      /\ l.data = req[q].data /\ Become(q, l) /\ UNCHANGED events /\ req[q].at = "cycled"
  BY <1>1 DEF DropOld, At, GoTo, EInv, TypeOK, LocalStates
<1>3. \A r \in Rows : store'[r] \in {store[r], None}
  BY DEF DropOld, EInv, TypeOK
<1>4. Quiet(q, l)
  BY <1>2, <1>3 DEF Quiet, Proceeds, Unrecorded
<1> QED BY <1>2, <1>4, QuietStep DEF Arriving, Enrolling, AllKinds

LEMMA LoginSays == ASSUME EInv, TypeOK', NEW q \in Requests, Login(q) PROVE EInv'
<1>a. Says(q)
  BY DEF EInv
<1>1. CASE RefusePassword(q)
  <2>1. CASE Record(q, "failed", "reply")
    BY <1>1, <2>1, RecordSays DEF RefusePassword, At, Actions, Unrecorded
  <2>2. CASE GoTo(q, "reply") /\ UNCHANGED <<account, web, events>>
    BY <1>1, <2>2, Onward DEF RefusePassword, At, web, Arriving, Enrolling, Unrecorded, AllKinds
  <2> QED BY <1>1, <2>1, <2>2 DEF RefusePassword
<1>2. CASE Authenticate(q)
  <2>1. PICK l : l = [req[q] EXCEPT !.at = "authenticated", !.version = version]
    OBVIOUS
  <2>2. /\ l.at = "authenticated" /\ l.loaded = req[q].loaded /\ l.key = req[q].key
        /\ l.data = req[q].data /\ Become(q, l) /\ req[q].at = "login" /\ UNCHANGED <<store, events>>
    BY <1>2, <2>1 DEF Authenticate, At, web, EInv, TypeOK, LocalStates
  <2> QED BY <2>2, GoesOn DEF Arriving, Enrolling, Unrecorded, AllKinds
<1>3. CASE RecordPassword(q)
  BY <1>3, RecordSays DEF RecordPassword, At, Actions, Unrecorded
<1>4. CASE LogInUnprivileged(q)
  BY <1>4, LogInSays DEF LogInUnprivileged, At
<1>5. CASE FindPrivilege(q)
  BY <1>5, <1>a, Onward DEF FindPrivilege, At, web, Says, Arriving, Enrolling, Unrecorded, AllKinds
<1>6. CASE LogInToEnrol(q)
  BY <1>6, LogInSays DEF LogInToEnrol, At
<1>7. CASE AwaitFactor(q)
  <2>1. PICK l : l = Flushed(q, "reply", [Empty EXCEPT !.preauth = TRUE])
    OBVIOUS
  <2>2. /\ l.at = "reply" /\ l.loaded = req[q].loaded /\ l.key = q
        /\ ~l.data.login /\ l.data.how = "none"
    BY <2>1 DEF Flushed, Empty, EInv, TypeOK, LocalStates
  <2>3. /\ Become(q, l) /\ UNCHANGED events /\ DropRow(q) /\ req[q].at = "factor"
        /\ <<q, "password_accepted">> \in events
    BY <1>7, <2>1, <1>a DEF AwaitFactor, At, Says
  <2> QED BY <2>2, <2>3, Flushes
<1> QED BY <1>1, <1>2, <1>3, <1>4, <1>5, <1>6, <1>7, DropOldSays DEF Login

LEMMA VerifySays == ASSUME EInv, TypeOK', NEW q \in Requests, Verify(q) PROVE EInv'
<1>a. req[q] \in LocalStates /\ req[q].data \in Dictionaries /\ Says(q)
  BY DEF EInv, TypeOK, LocalStates
<1>1. CASE RefuseVerify(q)
  BY <1>1, Onward DEF RefuseVerify, At, web, Arriving, Enrolling, Unrecorded, AllKinds
<1>2. CASE ReadCandidateUser(q)
  <2>1. PICK l : l = [req[q] EXCEPT !.at = "devices", !.version = version]
    OBVIOUS
  <2>2. /\ l.at = "devices" /\ l.loaded = req[q].loaded /\ l.key = req[q].key
        /\ l.data = req[q].data /\ Become(q, l) /\ req[q].at = "verify" /\ UNCHANGED <<store, events>>
    BY <1>2, <1>a, <2>1 DEF ReadCandidateUser, At, web, LocalStates
  <2> QED BY <2>2, GoesOn DEF Arriving, Enrolling, Unrecorded, AllKinds
<1>3. CASE ListDevices(q)
  <2>1. PICK l : l = [req[q] EXCEPT !.at = "check", !.devices = Confirmed]
    OBVIOUS
  <2>2. /\ l.at = "check" /\ l.loaded = req[q].loaded /\ l.key = req[q].key
        /\ l.data = req[q].data /\ Become(q, l) /\ req[q].at = "devices" /\ UNCHANGED <<store, events>>
    BY <1>3, <1>a, <2>1 DEF ListDevices, At, web, LocalStates
  <2> QED BY <2>2, GoesOn DEF Arriving, Enrolling, Unrecorded, AllKinds
<1>4. CASE AcceptToken(q) \/ AcceptCode(q)
  <2>1. PICK d : Become(q, [req[q] EXCEPT !.at = "proved", !.device = d, !.proof = version])
    BY <1>4 DEF AcceptToken, AcceptCode
  <2>2. PICK l : l = [req[q] EXCEPT !.at = "proved", !.device = d, !.proof = version]
    OBVIOUS
  <2>3. /\ l.at = "proved" /\ l.loaded = req[q].loaded /\ l.key = req[q].key
        /\ l.data = req[q].data /\ Become(q, l) /\ req[q].at \in {"check", "code"}
        /\ UNCHANGED <<store, events>>
    BY <1>4, <1>a, <2>1, <2>2 DEF AcceptToken, AcceptCode, At, web, LocalStates
  <2> QED BY <2>3, GoesOn DEF Arriving, Enrolling, Unrecorded, AllKinds
<1>5. CASE RefuseToken(q)
  BY <1>5, Onward DEF RefuseToken, At, web, Arriving, Enrolling, Unrecorded, AllKinds
<1>6. CASE RefuseFactor(q)
  <2> DEFINE attempts == req[q].data.attempts + 1
  <2>1. CASE Exhausted(attempts)
    <3>1. PICK l : l = [Flushed(q, "reply", Empty) EXCEPT !.refused = TRUE]
      OBVIOUS
    <3>2. /\ l.at = "reply" /\ l.loaded = req[q].loaded /\ l.key = q
          /\ ~l.data.login /\ ~l.data.preauth /\ l.data.how = "none"
      BY <1>a, <3>1 DEF Flushed, Empty, LocalStates
    <3>3. Become(q, l) /\ UNCHANGED events /\ DropRow(q) /\ req[q].at = "code"
      BY <1>6, <2>1, <3>1 DEF RefuseFactor, At
    <3> QED BY <3>2, <3>3, Flushes
  <2>2. CASE ~Exhausted(attempts)
    <3>1. PICK l : l = [req[q] EXCEPT !.at = "reply", !.touched = TRUE,
                          !.data.attempts = attempts, !.refused = TRUE]
      OBVIOUS
    <3>2. /\ l.at = "reply" /\ l.loaded = req[q].loaded /\ l.key = req[q].key
          /\ l.data = [req[q].data EXCEPT !.attempts = attempts]
      BY <1>a, <3>1 DEF LocalStates
    <3>3. /\ l.data.preauth = req[q].data.preauth /\ l.data.login = req[q].data.login
          /\ l.data.how = req[q].data.how
      BY <1>a, <3>2 DEF Dictionaries
    <3>4. Become(q, l) /\ UNCHANGED <<store, events>> /\ req[q].at = "code"
      BY <1>6, <2>2, <3>1 DEF RefuseFactor, At
    <3> QED BY <3>2, <3>3, <3>4, GoesOn DEF Arriving, Enrolling, Unrecorded, AllKinds
  <2> QED BY <2>1, <2>2
<1>7. CASE LogInVerified(q)
  <2>1. PICK l : l = [req[q] EXCEPT !.at = AfterProof(q), !.key = q, !.data = VerifiedData(q)]
    OBVIOUS
  <2>2. /\ l.at \in {"failed", "verified"} /\ l.loaded = req[q].loaded /\ l.key = q
        /\ Become(q, l) /\ UNCHANGED events /\ Insert(q) /\ req[q].at = "flushed"
    BY <1>7, <1>a, <2>1 DEF LogInVerified, At, AfterProof, LocalStates
  <2>3. Proceeds(q, l)
    BY <2>2 DEF Proceeds
  <2>4. OnRecord(q, req[q].data)
    BY <1>a, <2>2 DEF Says, Unrecorded
  <2> QED BY <2>2, <2>3, <2>4, InsertSays
<1>8. CASE RecordVerified(q)
  <2>1. PICK l : l = [req[q] EXCEPT !.at = "reply"]
    OBVIOUS
  <2>2. /\ l.at = "reply" /\ l.loaded = req[q].loaded /\ l.key = req[q].key /\ l.data = req[q].data
        /\ Become(q, l) /\ UNCHANGED store /\ events' = events \cup {<<q, "mfa_accepted">>}
        /\ req[q].at = "verified"
    BY <1>8, <1>a, <2>1 DEF RecordVerified, Record, At, GoTo, web, LocalStates
  <2>3. Proceeds(q, l) /\ \A r \in Rows : store'[r] \in {store[r], None}
    BY <2>2 DEF Proceeds
  <2>4. l.key = q
    BY <2>2, <1>a DEF Says
  <2>5. OnRecord(l.key, l.data)'
    BY <2>2, <2>4 DEF OnRecord, Opened, Proven
  <2> QED BY <2>2, <2>3, <2>5, FreshStep
<1>9. CASE FlushProved(q)
  BY <1>9, EmptySays DEF FlushProved, At
<1> QED BY <1>1, <1>2, <1>3, <1>4, <1>5, <1>6, <1>7, <1>8, <1>9 DEF Verify

LEMMA SetupSays == ASSUME EInv, TypeOK', NEW q \in Requests, Setup(q) PROVE EInv'
<1>a. req[q] \in LocalStates /\ req[q].data \in Dictionaries /\ Says(q)
  BY DEF EInv, TypeOK, LocalStates
<1>1. CASE RefuseSetup(q)
  BY <1>1, Onward DEF RefuseSetup, At, web, Arriving, Enrolling, Unrecorded, AllKinds
<1>2. CASE AllowSetup(q)
  <2>1. PICK to \in {"delete", "pending"} : GoTo(q, to)
    BY <1>2 DEF AllowSetup
  <2> QED BY <1>2, <2>1, Onward DEF AllowSetup, At, web, Arriving, Enrolling, Unrecorded, AllKinds
<1>3. CASE DeletePending(q) \/ CreateDevice(q) \/ RefusePending(q) \/ Confirm(q)
  BY <1>3, Onward DEF DeletePending, CreateDevice, RefusePending, Confirm, At, web, Arriving,
     Enrolling, Unrecorded, AllKinds
<1>4. CASE FindPending(q)
  <2>1. CASE GoTo(q, "reply")
    BY <1>4, <2>1, Onward DEF FindPending, At, web, Arriving, Enrolling, Unrecorded, AllKinds
  <2>2. ASSUME NEW d, Become(q, [req[q] EXCEPT !.at = "token", !.device = d]) PROVE EInv'
    <3>1. PICK l : l = [req[q] EXCEPT !.at = "token", !.device = d]
      OBVIOUS
    <3>2. /\ l.at = "token" /\ l.loaded = req[q].loaded /\ l.key = req[q].key
          /\ l.data = req[q].data /\ Become(q, l) /\ req[q].at = "pending" /\ UNCHANGED <<store, events>>
      BY <1>4, <1>a, <2>2, <3>1 DEF FindPending, At, web, LocalStates
    <3> QED BY <3>2, GoesOn DEF Arriving, Enrolling, Unrecorded, AllKinds
  <2> QED BY <1>4, <2>1, <2>2 DEF FindPending
<1>5. CASE AcceptPending(q)
  <2>1. PICK l : l = [req[q] EXCEPT !.at = "confirmed", !.proof = version]
    OBVIOUS
  <2>2. /\ l.at = "confirmed" /\ l.loaded = req[q].loaded /\ l.key = req[q].key
        /\ l.data = req[q].data /\ Become(q, l) /\ req[q].at = "token" /\ UNCHANGED <<store, events>>
    BY <1>5, <1>a, <2>1 DEF AcceptPending, At, web, LocalStates
  <2> QED BY <2>2, GoesOn DEF Arriving, Enrolling, Unrecorded, AllKinds
<1>6. CASE IssueCodes(q)
  <2>1. PICK l : l = [req[q] EXCEPT !.at = "enrolled", !.touched = TRUE,
                        !.data.device = req[q].device, !.data.version = ObjectVersion(q),
                        !.data.how = "verified", !.data.proof = req[q].proof]
    OBVIOUS
  <2>2. /\ l.at = "enrolled" /\ l.loaded = req[q].loaded /\ l.key = req[q].key
        /\ l.data = [req[q].data EXCEPT !.device = req[q].device, !.version = ObjectVersion(q),
                                        !.how = "verified", !.proof = req[q].proof]
    BY <1>a, <2>1 DEF LocalStates
  <2>3. l.data.preauth = req[q].data.preauth /\ l.data.login = req[q].data.login
    BY <1>a, <2>2 DEF Dictionaries
  <2>4. Become(q, l) /\ UNCHANGED <<store, events>> /\ req[q].at = "codes"
    BY <1>6, <2>1 DEF IssueCodes, At, web
  <2>5. Proceeds(q, l)
    BY <2>2, <2>4 DEF Proceeds
  <2>6. Opened(l.key, l.data)'
    BY <1>a, <2>2, <2>3, <2>4 DEF Says, OnRecord, Opened, Unrecorded
  <2>7. RowsSay' /\ l.key = l.loaded
    BY <1>a, <2>2, <2>4, <2>5, RowsStay DEF Says, Enrolling
  <2> QED BY <2>2, <2>5, <2>6, <2>7, SaysStep DEF Arriving, Unrecorded, AllKinds
<1>7. CASE RecordEnrolled(q)
  <2>1. PICK l : l = [req[q] EXCEPT !.at = "reply"]
    OBVIOUS
  <2>2. /\ l.at = "reply" /\ l.loaded = req[q].loaded /\ l.key = req[q].key /\ l.data = req[q].data
        /\ Become(q, l) /\ UNCHANGED store /\ events' = events \cup {<<q, "mfa_enrolled">>}
        /\ req[q].at = "enrolled"
    BY <1>7, <1>a, <2>1 DEF RecordEnrolled, Record, At, GoTo, web, LocalStates
  <2>3. Proceeds(q, l) /\ \A r \in Rows : store'[r] \in {store[r], None}
    BY <2>2 DEF Proceeds
  <2>4. Opened(l.key, l.data) /\ l.key = req[q].loaded
    BY <2>2, <1>a DEF Says, Enrolling
  <2>5. req'[q].loaded = l.key
    BY <2>2, <2>4 DEF Become, EInv, TypeOK
  <2>6. OnRecord(l.key, l.data)'
    BY <2>2, <2>4, <2>5 DEF OnRecord, Opened, Proven
  <2> QED BY <2>2, <2>3, <2>6, FreshStep
<1> QED BY <1>1, <1>2, <1>3, <1>4, <1>5, <1>6, <1>7 DEF Setup

LEMMA LogoutSays == ASSUME EInv, TypeOK', NEW q \in Requests, RecordLogout(q) \/ LogOut(q) PROVE EInv'
<1>1. CASE RecordLogout(q)
  BY <1>1, RecordSays DEF RecordLogout, At, Actions, Unrecorded
<1>2. CASE LogOut(q)
  BY <1>2, EmptySays DEF LogOut, At
<1> QED BY <1>1, <1>2

LEMMA InitEInv == Init => EInv
<1> SUFFICES ASSUME Init PROVE EInv
  OBVIOUS
<1>1. TypeOK
  BY InitMInv DEF MInv
<1>2. ASSUME NEW q \in Requests PROVE Says(q)
  <2>1. req[q].at = "new" /\ req[q].data = Empty /\ events = {}
    BY DEF Init, Locals
  <2> QED BY <2>1 DEF Says, OnRecord, Opened, Proven, Empty, Arriving, Enrolling, AllKinds
<1>3. RowsSay
  BY DEF Init, RowsSay
<1> QED BY <1>1, <1>2, <1>3 DEF EInv

LEMMA NextEInv == EInv /\ TypeOK' /\ [Next]_vars => EInv'
<1> SUFFICES ASSUME EInv, TypeOK', [Next]_vars PROVE EInv'
  OBVIOUS
<1>1. CASE UNCHANGED <<store, req, events>>
  BY <1>1 DEF EInv, RowsSay, Says, OnRecord, Opened, Proven
<1>2. CASE UNCHANGED vars
  BY <1>1, <1>2 DEF vars, web
<1>3. CASE ResetMfa \/ ChangeScope
  BY <1>1, <1>3 DEF ResetMfa, ChangeScope, web
<1>4. ASSUME NEW q \in Requests,
             Session(q) \/ Login(q) \/ Verify(q) \/ Setup(q)
             \/ RecordLogout(q) \/ LogOut(q) \/ Fail(q)
      PROVE  EInv'
  BY <1>4, SessionSays, LoginSays, VerifySays, SetupSays, LogoutSays, FailSays
<1> QED BY <1>2, <1>3, <1>4 DEF Next

(* What a session grants was on record before it was written. *)
THEOREM RecordsComeFirst == Spec => []RecordedFirst
<1>1. EInv /\ TypeOK' /\ [Next]_vars => EInv'
  BY NextEInv
<1>2. EInv => RecordedFirst
  BY DEF EInv, RowsSay, OnRecord, Opened, Proven, RecordedFirst
<1> QED BY <1>1, <1>2, InitEInv, TypeCorrect, PTL DEF Spec
-------------------------------------------------------------------------------
(* The attempts.  AttemptsBounded is violated by requests of one session that  *)
(* overlap, and by a refusal whose response is lost.  Without these it holds.  *)

InFlight(q) == req[q].at \notin {"new", "done", "failed"}

(* Requests of one session come one after another. *)
OneByOne ==
    \A p, q \in Requests :
        InFlight(p) /\ InFlight(q) /\ req[p].loaded # None /\ req[p].loaded = req[q].loaded => p = q

(* A refusal reaches the browser, unless its session is gone by then. *)
Answered == \A q \in Requests : At(q, "failed") /\ req[q].refused => store[req[q].loaded] = None

Calm == OneByOne /\ Answered

Counted(r, n) == IsFiniteSet(FailuresOf(r)) /\ Cardinality(FailuresOf(r)) <= n

(* A request that may still be refused holds the count of its row. *)
Tries(q) ==
    LET l == req[q]
    IN /\ l.at \in Arriving => IF l.loaded = None THEN ~l.data.preauth ELSE l.key = l.loaded
       /\ l.at \in Checking => l.data.preauth /\ l.loaded # None /\ l.key = l.loaded
       /\ l.refused =>
            /\ l.at \in {"reply", "done", "failed"} /\ l.loaded # None
            /\ IF l.key = l.loaded THEN l.data.preauth /\ l.touched ELSE store[l.loaded] = None
       /\ InFlight(q) /\ l.loaded # None /\ l.key = l.loaded /\ l.data.preauth =>
            Counted(l.loaded, l.data.attempts)

Answering(r) == \E q \in Requests : InFlight(q) /\ req[q].refused /\ req[q].loaded = r

(* The row has the count, but while a refusal of it is being answered. *)
Keeps(r) ==
    /\ Counted(r, MaxAttempts)
    /\ store[r] # None /\ store[r].preauth /\ ~Answering(r) => Counted(r, store[r].attempts)

AttInv == (\A q \in Requests : Tries(q)) /\ \A r \in Rows : Keeps(r)

LEMMA RowsAreSomething == None \notin Rows
  BY FirstAssumption DEF Rows, Devices

LEMMA OneMore ==
    ASSUME NEW r, NEW n \in Nat, Counted(r, n), NEW q, FailuresOf(r)' \subseteq FailuresOf(r) \cup {q}
    PROVE  Counted(r, n + 1)'
<1>1. PICK F : F = FailuresOf(r)
  OBVIOUS
<1>2. PICK G : G = FailuresOf(r)'
  OBVIOUS
<1>3. IsFiniteSet(F) /\ Cardinality(F) <= n /\ Cardinality(F) \in Nat
  BY <1>1, FS_CardinalityType DEF Counted
<1>4. /\ IsFiniteSet(F \cup {q})
      /\ Cardinality(F \cup {q}) = Cardinality(F) \/ Cardinality(F \cup {q}) = Cardinality(F) + 1
  BY <1>3, FS_AddElement
<1>5. G \in SUBSET (F \cup {q})
  BY <1>1, <1>2
<1>6. IsFiniteSet(G) /\ Cardinality(G) <= Cardinality(F \cup {q})
  BY <1>4, <1>5, FS_Subset
<1>7. Cardinality(G) \in Nat
  BY <1>6, FS_CardinalityType
<1>8. Cardinality(G) <= n + 1
  BY <1>3, <1>4, <1>6, <1>7
<1> QED BY <1>2, <1>6, <1>8 DEF Counted

LEMMA NoFailures == ASSUME NEW r, FailuresOf(r) = {}, NEW n \in Nat PROVE Counted(r, n)
  BY FS_EmptySet DEF Counted

(* Where the rows and the counts of the others stay, the others keep theirs. *)
LEMMA OthersTry ==
    ASSUME RowInv, AttInv, OneByOne, NEW q \in Requests, req[q].at # "done",
           \A r \in Rows \ {q} : store[r] = None => store'[r] = None,
           \A r \in Rows : FailuresOf(r)' = FailuresOf(r) \/ (InFlight(q) /\ r = req[q].loaded),
           NEW p \in Requests \ {q}, req'[p] = req[p]
    PROVE  Tries(p)'
<1>1. Tries(p) /\ Made(p) /\ req[p] \in LocalStates
  BY DEF AttInv, RowInv, TypeOK
<1>2. InFlight(p)' <=> InFlight(p)
  BY DEF InFlight
<1>3. req[p].loaded # None => req[p].loaded \in Rows \ {q}
  BY <1>1 DEF Made, LocalStates
<1>4. ASSUME InFlight(p), req[p].loaded # None, req[p].key = req[p].loaded, req[p].data.preauth
      PROVE  Counted(req[p].loaded, req[p].data.attempts)'
  <2>1. PICK r \in Rows : r = req[p].loaded
    BY <1>3, <1>4
  <2>2. Counted(r, req[p].data.attempts)
    BY <1>1, <1>4, <2>1 DEF Tries
  <2>3. FailuresOf(r)' = FailuresOf(r)
    BY <1>4, <2>1 DEF OneByOne
  <2> QED BY <2>1, <2>2, <2>3 DEF Counted
<1> QED BY <1>1, <1>2, <1>3, <1>4 DEF Tries

(* Nobody fails with a session whose maker is not done. *)
LEMMA OwnRowKeeps ==
    ASSUME RowInv, TypeOK', NEW q \in Requests, req[q].at # "done",
           FailuresOf(q)' = FailuresOf(q)
    PROVE  Keeps(q)'
<1>1. FailuresOf(q) = {}
  <2> SUFFICES ASSUME NEW p \in Requests, req[p].loaded = q PROVE FALSE
    BY DEF FailuresOf
  <2>1. req[q].at = "done"
    BY RowsAreSomething DEF RowInv, Made, Rows
  <2> QED BY <2>1
<1>2. store'[q] # None => store'[q].attempts \in Nat
  BY DEF TypeOK, Rows, Dictionaries
<1>3. \A n \in Nat : Counted(q, n)
  BY <1>1, NoFailures
<1> QED BY <1>2, <1>3, AttemptsAssumption DEF Keeps, Counted

(* A step between load and response that refuses nothing. *)
LEMMA QuietTries ==
    ASSUME RowInv, TypeOK', AttInv, Calm, Calm', NEW q \in Requests, Works(q),
           req'[q].refused = req[q].refused
    PROVE  AttInv'
<1> DEFINE k == req[q]
<1>l. PICK l : l = req'[q]
  OBVIOUS
<1>1. /\ Counts(q, k, l) /\ l.loaded = k.loaded
      /\ k.at \notin {"new", "done", "failed"} /\ l.at \notin {"new", "done"}
      /\ \A p \in Requests \ {q} : req'[p] = req[p]
  BY <1>l DEF Works, Continues, RowInv, TypeOK
<1>2. Tries(q) /\ Made(q) /\ k \in LocalStates
  BY DEF AttInv, RowInv, TypeOK
<1>3. \A r : FailuresOf(r)' = FailuresOf(r)
  BY <1>1, <1>l DEF FailuresOf
<1>4. \A r \in Rows \ {q} : store'[r] \in {store[r], None}
  BY DEF Works
<1>5. k.loaded # None => k.loaded \in Rows \ {q}
  BY <1>1, <1>2 DEF Made, LocalStates
<1>6. k.at # "code" \/ ~l.refused
  BY <1>2, <1>l DEF Tries
<1>7. \/ l.key = k.key /\ l.data.preauth = k.data.preauth /\ l.data.attempts = k.data.attempts
      \/ l.key = q /\ l.at \notin Arriving \cup Checking
  BY <1>1, <1>6 DEF Counts
<1>8. ASSUME l.refused
      PROVE  l = [k EXCEPT !.at = "failed"]
  BY <1>1, <1>2, <1>8, <1>l DEF Tries, Counts
<1>9. Tries(q)'
  <2>1. l.at \in Arriving => IF l.loaded = None THEN ~l.data.preauth ELSE l.key = l.loaded
    BY <1>1, <1>2, <1>7 DEF Tries, Counts, Arriving
  <2>2. l.at \in Checking => l.data.preauth /\ l.loaded # None /\ l.key = l.loaded
    BY <1>1, <1>2, <1>7 DEF Tries, Counts, Arriving, AllKinds
  <2>3. l.refused =>
            /\ l.at \in {"reply", "done", "failed"} /\ l.loaded # None
            /\ IF l.key = l.loaded THEN l.data.preauth /\ l.touched ELSE store'[l.loaded] = None
    <3>1. ASSUME l.refused
          PROVE  l.at = "failed" /\ l.key = k.key /\ l.data = k.data /\ l.touched = k.touched
      BY <1>2, <1>8, <3>1 DEF LocalStates
    <3> QED BY <1>1, <1>2, <1>4, <1>5, <1>l, <3>1 DEF Tries
  <2>4. ASSUME InFlight(q)', l.loaded # None, l.key = l.loaded, l.data.preauth
        PROVE  Counted(l.loaded, l.data.attempts)'
    <3>1. PICK r \in Rows : r = l.loaded /\ r # q
      BY <1>1, <1>5, <2>4
    <3>2. Counted(r, l.data.attempts)
      BY <1>1, <1>2, <1>7, <1>l, <2>4, <3>1 DEF Tries, InFlight
    <3> QED BY <1>3, <3>1, <3>2 DEF Counted
  <2> QED BY <1>l, <2>1, <2>2, <2>3, <2>4 DEF Tries
<1>10. \A p \in Requests \ {q} : Tries(p)'
  BY <1>1, <1>3, <1>4, OthersTry DEF Calm
<1>11. ASSUME NEW r \in Rows \ {q} PROVE Keeps(r)'
  <2>1. Keeps(r)
    BY DEF AttInv
  <2>2. ASSUME store'[r] # None, ~Answering(r)' PROVE ~Answering(r)
    <3> SUFFICES ASSUME NEW p \in Requests, InFlight(p), req[p].refused, req[p].loaded = r
                 PROVE  FALSE
      BY DEF Answering
    <3>1. p = q
      BY <1>1, <2>2 DEF Answering, InFlight
    <3>2. l.refused /\ l.at = "failed" /\ l.loaded = r
      BY <1>1, <1>2, <1>8, <1>l, <3>1 DEF LocalStates
    <3> QED BY <1>l, <2>2, <3>2 DEF Calm, Answered, At
  <2>3. store'[r] # None => store'[r] = store[r]
    BY <1>4
  <2> QED BY <1>3, <2>1, <2>2, <2>3 DEF Keeps, Counted
<1>12. Keeps(q)'
  BY <1>1, <1>3, OwnRowKeeps
<1> QED BY <1>9, <1>10, <1>11, <1>12 DEF AttInv

(* A refusal. *)
LEMMA RefuseTries ==
    ASSUME RowInv, TypeOK', AttInv, Calm, NEW q \in Requests, Works(q),
           req'[q].refused # req[q].refused
    PROVE  AttInv'
<1> DEFINE k == req[q]
<1>l. PICK l : l = req'[q]
  OBVIOUS
<1>1. /\ Counts(q, k, l) /\ l.loaded = k.loaded
      /\ k.at \notin {"new", "done", "failed"}
      /\ \A p \in Requests \ {q} : req'[p] = req[p]
  BY <1>l DEF Works, Continues, RowInv, TypeOK
<1>2. Tries(q) /\ Made(q) /\ k \in LocalStates /\ l \in LocalStates
  BY <1>l DEF AttInv, RowInv, TypeOK
<1>3. \A r \in Rows \ {q} : store'[r] \in {store[r], None}
  BY DEF Works
<1>4. /\ k.at = "code" /\ l.at = "reply" /\ l.refused
      /\ \/ /\ l.key = k.key /\ l.data.preauth = k.data.preauth /\ l.touched
            /\ l.data.attempts = k.data.attempts + 1
         \/ l.key = q /\ DropRow(q)
  BY <1>1, <1>l DEF Counts
<1>5. k.data.preauth /\ k.loaded # None /\ k.key = k.loaded /\ ~k.refused
  BY <1>2, <1>4 DEF Tries, Checking
<1>6. PICK r \in Rows : r = k.loaded /\ r # q
  BY <1>1, <1>2, <1>5 DEF Made, LocalStates
<1>7. k.data.attempts \in Nat /\ k.data.attempts + 1 <= MaxAttempts
  BY <1>2, AttemptsAssumption DEF LocalStates, Dictionaries
<1>8. Counted(r, k.data.attempts)
  BY <1>2, <1>4, <1>5, <1>6 DEF Tries, InFlight
<1>9. \A s : FailuresOf(s)' \subseteq FailuresOf(s) \cup (IF s = r THEN {q} ELSE {})
  BY <1>1, <1>6, <1>l DEF FailuresOf
<1>10. \A s : s # r => FailuresOf(s)' = FailuresOf(s)
  BY <1>1, <1>5, <1>6, <1>l DEF FailuresOf
<1>11. ASSUME NEW n, n = k.data.attempts PROVE Counted(r, n + 1)'
  <2>1. FailuresOf(r)' \subseteq FailuresOf(r) \cup {q}
    BY <1>9
  <2> QED BY <1>7, <1>8, <1>11, <2>1, OneMore
<1>12. Tries(q)'
  <2>1. l.at \notin Arriving \cup Checking
    BY <1>4 DEF Arriving, Checking, AllKinds
  <2>2. l.loaded # None
    BY <1>1, <1>5
  <2>3. IF l.key = l.loaded THEN l.data.preauth /\ l.touched ELSE store'[l.loaded] = None
    <3>1. CASE l.key = q /\ DropRow(q)
      <4>1. store'[r] = None
        BY <1>5, <1>6, <3>1 DEF DropRow, RowInv, TypeOK
      <4> QED BY <1>1, <1>6, <3>1, <4>1
    <3> QED BY <1>1, <1>4, <1>5, <3>1
  <2>4. ASSUME l.key = l.loaded PROVE Counted(l.loaded, l.data.attempts)'
    <3>1. l.data.attempts = k.data.attempts + 1 /\ l.loaded = r
      BY <1>1, <1>4, <1>6, <2>4
    <3> QED BY <1>11, <3>1
  <2> QED BY <1>4, <1>l, <2>1, <2>2, <2>3, <2>4 DEF Tries
<1>13. \A p \in Requests \ {q} : Tries(p)'
  <2>1. InFlight(q) /\ k.at # "done"
    BY <1>4 DEF InFlight
  <2>2. \A s \in Rows : FailuresOf(s)' = FailuresOf(s) \/ (InFlight(q) /\ s = k.loaded)
    BY <1>6, <1>10, <2>1
  <2> QED BY <1>1, <1>3, <2>1, <2>2, OthersTry DEF Calm
<1>14. Keeps(r)'
  <2>1. Counted(r, MaxAttempts)'
    <3>1. PICK n : n = k.data.attempts
      OBVIOUS
    <3>2. Counted(r, n + 1)' /\ n + 1 <= MaxAttempts /\ n \in Nat
      BY <1>7, <1>11, <3>1
    <3>3. Cardinality(FailuresOf(r)') \in Nat
      BY <3>2, FS_CardinalityType DEF Counted
    <3> QED BY <3>2, <3>3, AttemptsAssumption DEF Counted
  <2>2. Answering(r)'
    BY <1>1, <1>4, <1>6, <1>l DEF Answering, InFlight
  <2> QED BY <2>1, <2>2 DEF Keeps
<1>15. ASSUME NEW s \in Rows \ {q}, s # r PROVE Keeps(s)'
  <2>1. Keeps(s) /\ FailuresOf(s)' = FailuresOf(s)
    BY <1>10, <1>15 DEF AttInv
  <2>2. ~Answering(s)' => ~Answering(s)
    BY <1>1, <1>5 DEF Answering, InFlight
  <2>3. store'[s] # None => store'[s] = store[s]
    BY <1>3
  <2> QED BY <2>1, <2>2, <2>3 DEF Keeps, Counted
<1>16. Keeps(q)'
  BY <1>4, <1>6, <1>10, OwnRowKeeps
<1> QED BY <1>12, <1>13, <1>14, <1>15, <1>16 DEF AttInv

LEMMA LoadTries ==
    ASSUME RowInv, AttInv, Calm, Calm', NEW q \in Requests, Load(q)
    PROVE  AttInv'
<1> DEFINE k == req[q]
<1>l. PICK l : l = req'[q]
  OBVIOUS
<1>1. Tries(q) /\ Made(q) /\ k \in LocalStates /\ k.at = "new"
  BY DEF AttInv, RowInv, TypeOK, Load, At
<1>2. ~k.refused /\ store' = store /\ \A p \in Requests \ {q} : req'[p] = req[p]
  BY <1>1 DEF Tries, Load, Become, RowInv, TypeOK, web
<1>3. /\ l.at = "loaded" /\ ~l.refused
      /\ \/ l.loaded = None /\ l.data = Empty
         \/ l.loaded # None /\ l.key = l.loaded /\ store[l.loaded] # None /\ l.data = store[l.loaded]
            /\ l.loaded \in Rows
  <2>1. PICK found \in BOOLEAN, r \in Rows \cup {None} :
          /\ found => r # None /\ store[r] # None
          /\ Become(q, [k EXCEPT !.at = "loaded", !.sent = r,
                          !.loaded = IF found THEN r ELSE None,
                          !.key = IF found THEN r ELSE q,
                          !.data = IF found THEN store[r] ELSE Empty])
    BY <1>1 DEF Load, RowInv, TypeOK, LocalStates
  <2>2. l = [k EXCEPT !.at = "loaded", !.sent = r,
               !.loaded = IF found THEN r ELSE None, !.key = IF found THEN r ELSE q,
               !.data = IF found THEN store[r] ELSE Empty]
    BY <1>l, <2>1 DEF Become, RowInv, TypeOK
  <2>3. /\ l.at = "loaded" /\ l.refused = k.refused
        /\ l.loaded = IF found THEN r ELSE None
        /\ l.key = IF found THEN r ELSE q
        /\ l.data = IF found THEN store[r] ELSE Empty
    BY <1>1, <2>2 DEF LocalStates
  <2> QED BY <1>2, <2>1, <2>3
<1>4. \A r : FailuresOf(r)' = FailuresOf(r)
  BY <1>2, <1>3, <1>l DEF FailuresOf
<1>5. Tries(q)'
  <2>1. IF l.loaded = None THEN ~l.data.preauth ELSE l.key = l.loaded
    BY <1>3 DEF Empty
  <2>2. ASSUME l.loaded # None, l.data.preauth PROVE Counted(l.loaded, l.data.attempts)'
    <3>1. PICK r \in Rows : r = l.loaded /\ l.data = store[r] /\ store[r] # None
      BY <1>3, <2>2
    <3>2. ~Answering(r)
      <4> SUFFICES ASSUME NEW p \in Requests, InFlight(p), req[p].refused, req[p].loaded = r
                   PROVE  FALSE
        BY DEF Answering
      <4>1. p # q /\ r # None
        BY <1>1, <2>2, <3>1 DEF InFlight
      <4>2. InFlight(p)' /\ InFlight(q)' /\ req'[p].loaded = r /\ req'[q].loaded = r
        BY <1>2, <1>3, <1>l, <3>1, <4>1 DEF InFlight
      <4> QED BY <4>1, <4>2 DEF Calm, OneByOne
    <3>3. Counted(r, store[r].attempts)
      BY <2>2, <3>1, <3>2 DEF AttInv, Keeps
    <3> QED BY <1>4, <3>1, <3>3 DEF Counted
  <2>3. l.at \notin Checking
    BY <1>3 DEF Checking
  <2> QED BY <1>3, <1>l, <2>1, <2>2, <2>3 DEF Tries
<1>6. \A p \in Requests \ {q} : Tries(p)'
  BY <1>1, <1>2, <1>4, OthersTry DEF Calm
<1>7. ASSUME NEW r \in Rows PROVE Keeps(r)'
  <2>1. Keeps(r)
    BY DEF AttInv
  <2>2. ~Answering(r)' => ~Answering(r)
    BY <1>1, <1>2 DEF Answering, InFlight
  <2> QED BY <1>2, <1>4, <2>1, <2>2 DEF Keeps, Counted
<1> QED BY <1>5, <1>6, <1>7 DEF AttInv

LEMMA ReplySaves ==
    ASSUME RowInv, NEW q \in Requests, Reply(q), req[q].touched, req[q].data.preauth,
           req[q].key # q, req[q].key \in Rows, store[req[q].key] # None
    PROVE  store'[req[q].key] = req[q].data
<1>1. req[q].data # Empty
  BY DEF Empty
<1> QED BY <1>1 DEF Reply, RowInv, TypeOK

LEMMA ReplyTries ==
    ASSUME RowInv, TypeOK', AttInv, Calm, NEW q \in Requests, Reply(q)
    PROVE  AttInv'
<1> DEFINE k == req[q]
<1>l. PICK l : l = req'[q]
  OBVIOUS
<1>1. Tries(q) /\ Made(q) /\ k \in LocalStates /\ k.at = "reply"
  BY ReplyRows DEF AttInv, RowInv, TypeOK
<1>2. /\ \A p \in Requests \ {q} : req'[p] = req[p]
      /\ l.at \in {"done", "failed"} /\ l.loaded = k.loaded /\ l.key = k.key /\ l.data = k.data
  BY <1>l, ReplyRows
<1>3. l.refused = k.refused /\ l.touched = k.touched
  BY <1>1, <1>l DEF Reply, GoTo, Become, LocalStates, RowInv, TypeOK
<1>4. \A r \in Rows \ {q} : store'[r] = store[r]
                            \/ (store[r] # None /\ r = k.key /\ store'[r] = k.data)
  BY ReplyRows
<1>5. \A r : FailuresOf(r)' = FailuresOf(r)
  BY <1>2, <1>3, <1>l DEF FailuresOf
<1>6. k.loaded # None => k.loaded \in Rows \ {q}
  BY <1>1 DEF Made, LocalStates
<1>7. InFlight(q)
  BY <1>1 DEF InFlight
<1>8. Tries(q)'
  <2>1. l.at \notin Arriving \cup Checking
    BY <1>2 DEF Arriving, Checking, AllKinds
  <2>2. l.refused =>
            /\ l.loaded # None
            /\ IF l.key = l.loaded THEN l.data.preauth /\ l.touched ELSE store'[l.loaded] = None
    BY <1>1, <1>2, <1>3, <1>4, <1>6 DEF Tries
  <2> QED BY <1>2, <1>l, <2>1, <2>2 DEF Tries, InFlight
<1>9. \A p \in Requests \ {q} : Tries(p)'
  BY <1>1, <1>2, <1>4, <1>5, OthersTry DEF Calm
<1>10. Keeps(q)'
  BY <1>1, <1>5, OwnRowKeeps
<1>11. ASSUME NEW r \in Rows \ {q} PROVE Keeps(r)'
  <2>1. Keeps(r) /\ r # None
    BY RowsAreSomething DEF AttInv
  <2>2. ASSUME store'[r] # None, store'[r].preauth, ~Answering(r)'
        PROVE  Counted(r, store'[r].attempts)
    <3>1. CASE store'[r] = k.data /\ r = k.key
      <4>1. k.key = k.loaded
        BY <1>1, <3>1 DEF Made
      <4> QED BY <1>1, <1>7, <2>1, <2>2, <3>1, <4>1 DEF Tries
    <3>2. CASE store'[r] = store[r] /\ ~(store'[r] = k.data /\ r = k.key)
      <4>1. ASSUME NEW p \in Requests, InFlight(p), req[p].refused, req[p].loaded = r
            PROVE  FALSE
        <5>1. p = q
          BY <1>2, <2>2, <4>1 DEF Answering, InFlight
        <5>2. k.key = k.loaded /\ k.data.preauth /\ k.touched
          BY <1>1, <2>2, <3>2, <4>1, <5>1 DEF Tries
        <5>3. store'[r] = k.data
          BY <2>2, <3>2, <4>1, <5>1, <5>2, ReplySaves
        <5> QED BY <3>2, <4>1, <5>1, <5>2, <5>3
      <4> QED BY <2>1, <2>2, <3>2, <4>1 DEF Keeps, Answering
    <3> QED BY <1>4, <3>1, <3>2
  <2> QED BY <1>5, <2>1, <2>2 DEF Keeps, Counted
<1> QED BY <1>8, <1>9, <1>10, <1>11 DEF AttInv

LEMMA InitAttInv == Init => AttInv
<1> SUFFICES ASSUME Init PROVE AttInv
  OBVIOUS
<1>1. \A q \in Requests : req[q].at = "new" /\ ~req[q].refused
  BY DEF Init, Locals
<1>2. \A q \in Requests : Tries(q)
  BY <1>1 DEF Tries, Arriving, Checking, AllKinds, InFlight
<1>3. \A r \in Rows : FailuresOf(r) = {} /\ store[r] = None
  BY <1>1 DEF FailuresOf, Init
<1>4. \A r \in Rows : Keeps(r)
  BY <1>3, NoFailures, AttemptsAssumption DEF Keeps
<1> QED BY <1>2, <1>4 DEF AttInv

LEMMA NextAttInv == RowInv /\ TypeOK' /\ AttInv /\ Calm /\ Calm' /\ [Next]_vars => AttInv'
<1> SUFFICES ASSUME RowInv, TypeOK', AttInv, Calm, Calm', [Next]_vars PROVE AttInv'
  OBVIOUS
<1>1. CASE UNCHANGED <<store, req>>
  BY <1>1 DEF AttInv, Tries, Keeps, Answering, InFlight, Counted, FailuresOf
<1>2. CASE UNCHANGED vars
  BY <1>1, <1>2 DEF vars, web
<1>3. CASE ResetMfa \/ ChangeScope
  BY <1>1, <1>3 DEF ResetMfa, ChangeScope, web
<1>4. ASSUME NEW q \in Requests,
             Session(q) \/ Login(q) \/ Verify(q) \/ Setup(q)
             \/ RecordLogout(q) \/ LogOut(q) \/ Fail(q)
      PROVE  AttInv'
  <2>1. TypeOK
    BY DEF RowInv
  <2>2. Load(q) \/ Reply(q) \/ Works(q)
    BY <1>4, <2>1, SessionWorks, LoginWorks, VerifyWorks, SetupWorks, LogoutWorks
       DEF Session
  <2> QED BY <2>2, LoadTries, ReplyTries, QuietTries, RefuseTries
<1> QED BY <1>2, <1>3, <1>4 DEF Next

(* If the requests of each session come one after another and every refusal is *)
(* answered, a session outlives no more than MAX_MFA_ATTEMPTS failures: nothing *)
(* else, no reset, login, enrolment or logout in between, loses a count.        *)
THEOREM OneByOneBounded == Spec /\ []OneByOne /\ []Answered => []AttemptsBounded
<1>1. AttInv => AttemptsBounded
  BY DEF AttInv, Keeps, Counted, AttemptsBounded
<1>2. Calm <=> OneByOne /\ Answered
  BY DEF Calm
<1> QED BY <1>1, <1>2, InitAttInv, NextAttInv, RowInvariance, TypeCorrect, PTL DEF Spec
===============================================================================

--------------------------- MODULE MfaSessionProofs ---------------------------
(***************************************************************************)
(* What holds of MfaSession for any number of requests, browsers, resets   *)
(* and changes of role.  The argument is about versions: what a login will *)
(* record was read before its factor was checked, and both are at most the *)
(* version in the database; a session that is accepted therefore has all   *)
(* three equal.                                                            *)
(***************************************************************************)
EXTENDS MfaSession, TLAPS

(* A dictionary, in memory or in a row. *)
GoodData(d) ==
    /\ d.version <= version /\ d.proof <= version
    /\ d.how = "verified" => d.version <= d.proof
    /\ d.how = "unprivileged" /\ d.version = version => ~privileged

(* From the check of the factor to the writing of the session. *)
Proving == {"proved", "flushed", "confirmed", "codes"}

GoodLocals(l) ==
    /\ GoodData(l.data)
    /\ l.version <= version /\ l.proof <= version
    /\ l.at \in Proving => l.version <= l.proof

GoodRows == \A r \in Rows : store[r] # None => GoodData(store[r])
GoodRequests == \A q \in Requests : GoodLocals(req[q])

MInv == TypeOK /\ GoodRows /\ GoodRequests

-------------------------------------------------------------------------------
(* What the steps of a request have in common. *)

AccountTyped ==
    /\ device' \in [Devices -> {"absent", "pending", "confirmed"}]
    /\ codes' \subseteq Devices
    /\ withdrawn' \subseteq Devices
    /\ events' \subseteq Requests \X Actions

(* A row is what it was, gone, or what q had in memory. *)
RowsFrom(q) ==
    /\ store' \in [Rows -> Dictionaries \cup {None}]
    /\ \A r \in Rows : store'[r] = store[r] \/ store'[r] = None \/ store'[r] = req[q].data
    /\ cookie' \in [Browsers -> Rows \cup {None}]

(* A request that changes its locals to good ones, and rows only as above, *)
(* keeps the invariant.                                                    *)
LEMMA LocalStep ==
    ASSUME MInv, NEW q \in Requests, NEW l \in LocalStates, GoodLocals(l), Become(q, l),
           AccountTyped, RowsFrom(q), version' = version, privileged' = privileged
    PROVE  MInv'
<1>1. req' = [req EXCEPT ![q] = l]
  BY DEF Become
<1>2. req' \in [Requests -> LocalStates]
  BY <1>1 DEF MInv, TypeOK
<1>3. TypeOK'
  BY <1>2 DEF MInv, TypeOK, AccountTyped, RowsFrom
<1>4. GoodRows'
  <2> SUFFICES ASSUME NEW r \in Rows, store'[r] # None
               PROVE  GoodData(store'[r])
    BY DEF GoodRows, GoodData
  <2>1. GoodData(req[q].data)
    BY DEF MInv, GoodRequests, GoodLocals
  <2>2. store[r] # None => GoodData(store[r])
    BY DEF MInv, GoodRows
  <2> QED BY <2>1, <2>2 DEF RowsFrom
<1>5. GoodRequests'
  <2> SUFFICES ASSUME NEW p \in Requests
               PROVE  GoodLocals(req'[p])
    BY DEF GoodRequests, GoodLocals, GoodData
  <2>1. CASE p = q
    BY <1>1, <2>1 DEF MInv, TypeOK
  <2>2. CASE p # q
    BY <1>1, <2>2 DEF MInv, GoodRequests, TypeOK
  <2> QED BY <2>1, <2>2
<1> QED BY <1>3, <1>4, <1>5 DEF MInv

LEMMA SameRows ==
    ASSUME MInv, NEW q \in Requests, UNCHANGED web
    PROVE  RowsFrom(q)
BY DEF RowsFrom, MInv, TypeOK, web

LEMMA DroppedRow ==
    ASSUME MInv, NEW q \in Requests, DropRow(q), UNCHANGED cookie
    PROVE  RowsFrom(q)
BY DEF RowsFrom, MInv, TypeOK, DropRow

LEMMA InsertedRow ==
    ASSUME MInv, NEW q \in Requests, Insert(q), UNCHANGED cookie
    PROVE  RowsFrom(q)
<1>1. req[q].data \in Dictionaries
  BY DEF MInv, TypeOK, LocalStates
<1> QED BY <1>1 DEF RowsFrom, MInv, TypeOK, Insert, Rows

LEMMA SameAccount ==
    ASSUME MInv, UNCHANGED <<account, events>>
    PROVE  AccountTyped /\ version' = version /\ privileged' = privileged
BY DEF AccountTyped, MInv, TypeOK, account

LEMMA SavedObjects ==
    ASSUME MInv, NEW S, NEW state \in {"absent", "pending", "confirmed"},
           SaveObjects(S, state)
    PROVE  device' \in [Devices -> {"absent", "pending", "confirmed"}]
BY DEF SaveObjects, MInv, TypeOK

(* The locals of a request, and those it goes on with when nothing but its *)
(* next statement changes.                                                 *)
LEMMA OwnLocals ==
    ASSUME MInv, NEW q \in Requests
    PROVE  req[q] \in LocalStates /\ GoodLocals(req[q])
BY DEF MInv, TypeOK, GoodRequests

LEMMA EmptyIsGood == ASSUME MInv PROVE Empty \in Dictionaries /\ GoodData(Empty)
BY AttemptsAssumption, VersionAssumption DEF Empty, Dictionaries, GoodData, MInv, TypeOK

LEMMA NextStatement ==
    ASSUME MInv, NEW q \in Requests, NEW to \in Steps \ Proving
    PROVE  /\ [req[q] EXCEPT !.at = to] \in LocalStates
           /\ GoodLocals([req[q] EXCEPT !.at = to])
<1>1. req[q] \in LocalStates /\ GoodLocals(req[q])
  BY OwnLocals
<1>2. [req[q] EXCEPT !.at = to] \in LocalStates
  BY <1>1 DEF LocalStates
<1>3. GoodLocals([req[q] EXCEPT !.at = to])
  BY <1>1 DEF GoodLocals, LocalStates
<1> QED BY <1>2, <1>3

(* A step that only goes on. *)
LEMMA OnlyGoesOn ==
    ASSUME MInv, NEW q \in Requests, NEW to \in Steps \ Proving, GoTo(q, to),
           UNCHANGED <<account, web, events>>
    PROVE  MInv'
<1>1. RowsFrom(q)
  BY SameRows
<1>2. AccountTyped /\ version' = version /\ privileged' = privileged
  BY SameAccount
<1> QED BY <1>1, <1>2, LocalStep, NextStatement DEF GoTo

LEMMA Recorded ==
    ASSUME MInv, NEW q \in Requests, NEW action \in Actions, NEW to \in Steps \ Proving,
           Record(q, action, to)
    PROVE  MInv'
<1>1. RowsFrom(q)
  BY SameRows DEF Record
<1>2. AccountTyped /\ version' = version /\ privileged' = privileged
  BY DEF Record, AccountTyped, MInv, TypeOK, account
<1> QED BY <1>1, <1>2, LocalStep, NextStatement DEF GoTo, Record

(* A flush empties the session or leaves a good one. *)
LEMMA FlushedLocals ==
    ASSUME MInv, NEW q \in Requests, NEW to \in Steps \ Proving,
           NEW d \in Dictionaries, GoodData(d)
    PROVE  Flushed(q, to, d) \in LocalStates /\ GoodLocals(Flushed(q, to, d))
<1>1. req[q] \in LocalStates /\ GoodLocals(req[q])
  BY OwnLocals
<1>2. Flushed(q, to, d) \in LocalStates
  BY <1>1 DEF LocalStates, Flushed, Rows
<1>3. GoodLocals(Flushed(q, to, d))
  BY <1>1 DEF GoodLocals, Flushed, LocalStates
<1> QED BY <1>2, <1>3

-------------------------------------------------------------------------------
(* The session and the middleware *)

LEMMA LoadStep == ASSUME MInv, NEW q \in Requests, Load(q) PROVE MInv'
<1> DEFINE r == cookie[req[q].browser]
           l(key, loaded, data) ==
             [req[q] EXCEPT !.at = "loaded", !.sent = r, !.loaded = loaded,
                            !.key = key, !.data = data]
<1>1. req[q] \in LocalStates /\ GoodLocals(req[q])
  BY OwnLocals
<1>2. r \in Rows \cup {None}
  BY <1>1 DEF MInv, TypeOK, LocalStates
<1>3. RowsFrom(q)
  BY SameRows DEF Load
<1>4. AccountTyped /\ version' = version /\ privileged' = privileged
  BY SameAccount DEF Load
<1>5. ASSUME NEW key \in Rows \cup {None}, NEW loaded \in Rows \cup {None},
             NEW data \in Dictionaries, GoodData(data), Become(q, l(key, loaded, data))
      PROVE  MInv'
  <2>1. l(key, loaded, data) \in LocalStates
    BY <1>1, <1>2, <1>5 DEF LocalStates, Steps
  <2>2. GoodLocals(l(key, loaded, data))
    BY <1>1, <1>5 DEF GoodLocals, LocalStates, Proving
  <2> QED BY <1>3, <1>4, <1>5, <2>1, <2>2, LocalStep
<1>6. CASE r # None /\ store[r] # None /\ Become(q, l(r, r, store[r]))
  <2>1. store[r] \in Dictionaries /\ GoodData(store[r])
    BY <1>2, <1>6 DEF MInv, TypeOK, GoodRows
  <2> QED BY <1>2, <1>5, <1>6, <2>1
<1>7. CASE Become(q, l(q, None, Empty))
  <2>1. Empty \in Dictionaries /\ GoodData(Empty)
    BY EmptyIsGood
  <2> QED BY <1>5, <1>7, <2>1 DEF Rows
<1> QED BY <1>6, <1>7 DEF Load

LEMMA ReadUserStep == ASSUME MInv, NEW q \in Requests, ReadUser(q) PROVE MInv'
<1> DEFINE l == [req[q] EXCEPT !.at = "identified", !.version = version]
<1>1. req[q] \in LocalStates /\ GoodLocals(req[q])
  BY OwnLocals
<1>2. CASE req[q].data.login
  <2>1. version \in 0 .. MaxVersion /\ version <= version
    BY VersionAssumption DEF MInv, TypeOK
  <2>2. l \in LocalStates
    BY <1>1, <2>1 DEF LocalStates, Steps
  <2>3. GoodLocals(l)
    BY <1>1, <2>1 DEF LocalStates, GoodLocals, Proving
  <2>4. RowsFrom(q)
    BY SameRows DEF ReadUser
  <2>5. AccountTyped /\ version' = version /\ privileged' = privileged
    BY SameAccount DEF ReadUser
  <2> QED BY <1>2, <2>2, <2>3, <2>4, <2>5, LocalStep DEF ReadUser
<1>3. CASE ~req[q].data.login
  <2>1. req[q].kind \in Steps \ Proving
    BY <1>1 DEF LocalStates, Steps, Proving, AllKinds
  <2> QED BY <1>3, <2>1, OnlyGoesOn DEF ReadUser
<1> QED BY <1>2, <1>3

(* A step that flushes the session. *)
LEMMA FlushStep ==
    ASSUME MInv, NEW q \in Requests, NEW to \in Steps \ Proving,
           NEW d \in Dictionaries, GoodData(d),
           DropRow(q), Become(q, Flushed(q, to, d)), UNCHANGED <<account, cookie, events>>
    PROVE  MInv'
<1>1. RowsFrom(q)
  BY DroppedRow
<1>2. AccountTyped /\ version' = version /\ privileged' = privileged
  BY SameAccount
<1> QED BY <1>1, <1>2, FlushedLocals, LocalStep

LEMMA LogOutStaleStep == ASSUME MInv, NEW q \in Requests, LogOutStale(q) PROVE MInv'
<1>1. "reply" \in Steps \ Proving
  BY DEF Steps, Proving
<1> QED BY <1>1, EmptyIsGood, FlushStep DEF LogOutStale

LEMMA AdmitStep == ASSUME MInv, NEW q \in Requests, Admit(q) PROVE MInv'
<1> DEFINE d == req[q].data.device
           gone == d # None /\ d \in {e \in Devices : device[e] = "absent"}
           l == [req[q] EXCEPT !.at = req[q].kind, !.touched = gone,
                               !.data.device = IF gone THEN None ELSE @]
<1>1. req[q] \in LocalStates /\ GoodLocals(req[q])
  BY OwnLocals
<1>2. l.data \in Dictionaries
  BY <1>1 DEF LocalStates, Dictionaries
<1>3. l \in LocalStates
  <2>1. gone \in BOOLEAN
    OBVIOUS
  <2>2. req[q].kind \in Steps
    BY <1>1 DEF LocalStates, Steps
  <2> QED BY <1>1, <1>2, <2>1, <2>2 DEF LocalStates
<1>4. GoodLocals(l)
  <2>1. GoodData(l.data)
    BY <1>1 DEF GoodLocals, GoodData, LocalStates, Dictionaries
  <2>2. l.at \notin Proving
    BY <1>1 DEF LocalStates, AllKinds, Proving
  <2> QED BY <1>1, <2>1, <2>2 DEF GoodLocals, LocalStates
<1>5. RowsFrom(q)
  BY SameRows DEF Admit
<1>6. AccountTyped /\ version' = version /\ privileged' = privileged
  BY SameAccount DEF Admit
<1> QED BY <1>3, <1>4, <1>5, <1>6, LocalStep DEF Admit

LEMMA ReplyStep == ASSUME MInv, NEW q \in Requests, Reply(q) PROVE MInv'
<1> DEFINE l == req[q]
           saved == l.touched /\ l.data # Empty
           refused == saved /\ l.key # q /\ store[l.key] = None
           to == IF refused THEN "failed" ELSE "done"
<1>1. l \in LocalStates /\ GoodLocals(l)
  BY OwnLocals
<1>2. to \in Steps \ Proving
  BY DEF Steps, Proving
<1>3. store' \in [Rows -> Dictionaries \cup {None}]
      /\ \A r \in Rows : store'[r] = store[r] \/ store'[r] = l.data
  BY <1>1 DEF Reply, MInv, TypeOK, LocalStates
<1>4. cookie' \in [Browsers -> Rows \cup {None}]
  BY <1>1 DEF Reply, MInv, TypeOK, LocalStates
<1>5. RowsFrom(q)
  BY <1>3, <1>4 DEF RowsFrom
<1>6. AccountTyped /\ version' = version /\ privileged' = privileged
  BY SameAccount DEF Reply
<1> QED BY <1>2, <1>5, <1>6, NextStatement, LocalStep DEF Reply, GoTo

LEMMA SessionStep == ASSUME MInv, NEW q \in Requests, Session(q) PROVE MInv'
<1>1. CASE Visit(q)
  <2>1. "reply" \in Steps \ Proving
    BY DEF Steps, Proving
  <2> QED BY <1>1, <2>1, OnlyGoesOn DEF Visit
<1> QED BY <1>1, LoadStep, ReadUserStep, LogOutStaleStep, AdmitStep, ReplyStep DEF Session

LEMMA FailStep == ASSUME MInv, NEW q \in Requests, Fail(q) PROVE MInv'
<1>1. "failed" \in Steps \ Proving
  BY DEF Steps, Proving
<1> QED BY <1>1, OnlyGoesOn DEF Fail

-------------------------------------------------------------------------------
(* login_view *)

LEMMA AuthenticateStep == ASSUME MInv, NEW q \in Requests, Authenticate(q) PROVE MInv'
<1> DEFINE l == [req[q] EXCEPT !.at = "authenticated", !.version = version]
<1>1. req[q] \in LocalStates /\ GoodLocals(req[q])
  BY OwnLocals
<1>2. version \in 0 .. MaxVersion /\ version <= version
  BY VersionAssumption DEF MInv, TypeOK
<1>3. l \in LocalStates
  BY <1>1, <1>2 DEF LocalStates, Steps
<1>4. GoodLocals(l)
  BY <1>1, <1>2 DEF LocalStates, GoodLocals, Proving
<1>5. RowsFrom(q)
  BY SameRows DEF Authenticate
<1>6. AccountTyped /\ version' = version /\ privileged' = privileged
  BY SameAccount DEF Authenticate
<1> QED BY <1>3, <1>4, <1>5, <1>6, LocalStep DEF Authenticate

(* A login without a second factor records the version of a user object that *)
(* is at most the committed one; if it is that one, the role is as found.     *)
LEMMA LogInStep ==
    ASSUME MInv, NEW q \in Requests, NEW how \in {"unprivileged", "enrolling"},
           how = "unprivileged" => ~privileged, LogIn(q, how)
    PROVE  MInv'
<1> DEFINE l == [req[q] EXCEPT !.at = IF NewKey(q) THEN "cycled" ELSE "reply",
                    !.key = IF NewKey(q) THEN q ELSE @, !.touched = TRUE,
                    !.data.login = TRUE, !.data.version = ObjectVersion(q),
                    !.data.how = how]
<1>1. req[q] \in LocalStates /\ GoodLocals(req[q])
  BY OwnLocals
<1>2. l.data \in Dictionaries
  BY <1>1 DEF LocalStates, Dictionaries, ObjectVersion
<1>3. l \in LocalStates
  <2>1. {"cycled", "reply"} \subseteq Steps
    BY DEF Steps
  <2>2. l.key \in Rows \cup {None}
    BY <1>1 DEF LocalStates, Rows
  <2> QED BY <1>1, <1>2, <2>1, <2>2 DEF LocalStates
<1>4. GoodLocals(l)
  <2>1. GoodData(l.data)
    BY <1>1 DEF GoodLocals, GoodData, LocalStates, Dictionaries, ObjectVersion
  <2>2. l.at \notin Proving
    BY <1>1 DEF LocalStates, Proving
  <2> QED BY <1>1, <2>1, <2>2 DEF GoodLocals, LocalStates
<1>5. RowsFrom(q)
  <2>1. CASE NewKey(q)
    BY <2>1, InsertedRow DEF LogIn
  <2>2. CASE ~NewKey(q)
    BY <2>2, SameRows DEF LogIn, web
  <2> QED BY <2>1, <2>2
<1>6. AccountTyped /\ version' = version /\ privileged' = privileged
  BY SameAccount DEF LogIn
<1> QED BY <1>3, <1>4, <1>5, <1>6, LocalStep DEF LogIn

LEMMA DropOldStep == ASSUME MInv, NEW q \in Requests, DropOld(q) PROVE MInv'
<1>1. RowsFrom(q)
  BY DEF DropOld, RowsFrom, MInv, TypeOK
<1>2. AccountTyped /\ version' = version /\ privileged' = privileged
  BY SameAccount DEF DropOld
<1>3. "reply" \in Steps \ Proving
  BY DEF Steps, Proving
<1> QED BY <1>1, <1>2, <1>3, LocalStep, NextStatement DEF DropOld, GoTo

LEMMA LoginStep == ASSUME MInv, NEW q \in Requests, Login(q) PROVE MInv'
<1> USE DEF Steps, Proving
<1>1. CASE RefusePassword(q)
  BY <1>1, OnlyGoesOn, Recorded DEF RefusePassword, Actions
<1>2. CASE Authenticate(q)
  BY <1>2, AuthenticateStep
<1>3. CASE RecordPassword(q)
  BY <1>3, Recorded DEF RecordPassword, Actions
<1>4. CASE LogInUnprivileged(q)
  BY <1>4, LogInStep DEF LogInUnprivileged
<1>5. CASE FindPrivilege(q)
  BY <1>5, OnlyGoesOn DEF FindPrivilege
<1>6. CASE LogInToEnrol(q)
  BY <1>6, LogInStep DEF LogInToEnrol
<1>7. CASE AwaitFactor(q)
  <2> DEFINE d == [Empty EXCEPT !.preauth = TRUE]
  <2>1. d \in Dictionaries /\ GoodData(d)
    BY EmptyIsGood DEF Empty, Dictionaries, GoodData
  <2> QED BY <1>7, <2>1, FlushStep DEF AwaitFactor
<1> QED BY <1>1, <1>2, <1>3, <1>4, <1>5, <1>6, <1>7, DropOldStep DEF Login

-------------------------------------------------------------------------------
(* verify_mfa *)

LEMMA ReadCandidateUserStep ==
    ASSUME MInv, NEW q \in Requests, ReadCandidateUser(q) PROVE MInv'
<1> DEFINE l == [req[q] EXCEPT !.at = "devices", !.version = version]
<1>1. req[q] \in LocalStates /\ GoodLocals(req[q])
  BY OwnLocals
<1>2. version \in 0 .. MaxVersion /\ version <= version
  BY VersionAssumption DEF MInv, TypeOK
<1>3. l \in LocalStates
  BY <1>1, <1>2 DEF LocalStates, Steps
<1>4. GoodLocals(l)
  BY <1>1, <1>2 DEF LocalStates, GoodLocals, Proving
<1>5. RowsFrom(q)
  BY SameRows DEF ReadCandidateUser
<1>6. AccountTyped /\ version' = version /\ privileged' = privileged
  BY SameAccount DEF ReadCandidateUser
<1> QED BY <1>3, <1>4, <1>5, <1>6, LocalStep DEF ReadCandidateUser

LEMMA ListDevicesStep == ASSUME MInv, NEW q \in Requests, ListDevices(q) PROVE MInv'
<1> DEFINE l == [req[q] EXCEPT !.at = "check", !.devices = Confirmed]
<1>1. req[q] \in LocalStates /\ GoodLocals(req[q])
  BY OwnLocals
<1>2. l \in LocalStates
  BY <1>1 DEF LocalStates, Steps, Confirmed
<1>3. GoodLocals(l)
  BY <1>1 DEF LocalStates, GoodLocals, Proving
<1>4. RowsFrom(q)
  BY SameRows DEF ListDevices
<1>5. AccountTyped /\ version' = version /\ privileged' = privileged
  BY SameAccount DEF ListDevices
<1> QED BY <1>2, <1>3, <1>4, <1>5, LocalStep DEF ListDevices

(* The factor is checked under the version there is by then, which is not older *)
(* than the user object's.                                                      *)
LEMMA ProvedLocals ==
    ASSUME MInv, NEW q \in Requests, NEW d \in Devices \cup {None},
           NEW to \in {"proved", "confirmed"}
    PROVE  LET l == [req[q] EXCEPT !.at = to, !.device = d, !.proof = version]
           IN l \in LocalStates /\ GoodLocals(l)
<1> DEFINE l == [req[q] EXCEPT !.at = to, !.device = d, !.proof = version]
<1>1. req[q] \in LocalStates /\ GoodLocals(req[q])
  BY OwnLocals
<1>2. version \in 0 .. MaxVersion /\ version <= version
  BY VersionAssumption DEF MInv, TypeOK
<1>3. l \in LocalStates
  BY <1>1, <1>2 DEF LocalStates, Steps
<1>4. GoodLocals(l)
  BY <1>1, <1>2 DEF LocalStates, GoodLocals, Proving
<1> QED BY <1>3, <1>4

LEMMA AcceptTokenStep == ASSUME MInv, NEW q \in Requests, AcceptToken(q) PROVE MInv'
<1>1. PICK d \in req[q].devices, S \in SUBSET req[q].devices :
        /\ SaveObjects(S, "confirmed")
        /\ Become(q, [req[q] EXCEPT !.at = "proved", !.device = d, !.proof = version])
  BY DEF AcceptToken
<1>2. d \in Devices
  BY OwnLocals DEF LocalStates
<1>3. RowsFrom(q)
  BY SameRows DEF AcceptToken
<1>4. AccountTyped /\ version' = version /\ privileged' = privileged
  BY <1>1, SavedObjects DEF AcceptToken, AccountTyped, MInv, TypeOK
<1> QED BY <1>1, <1>2, <1>3, <1>4, ProvedLocals, LocalStep

LEMMA AcceptCodeStep == ASSUME MInv, NEW q \in Requests, AcceptCode(q) PROVE MInv'
<1>1. PICK d \in IF req[q].devices = {} THEN {None} ELSE req[q].devices :
        Become(q, [req[q] EXCEPT !.at = "proved", !.device = d, !.proof = version])
  BY DEF AcceptCode
<1>2. d \in Devices \cup {None}
  BY OwnLocals DEF LocalStates
<1>3. RowsFrom(q)
  BY SameRows DEF AcceptCode
<1>4. AccountTyped /\ version' = version /\ privileged' = privileged
  BY DEF AcceptCode, AccountTyped, MInv, TypeOK
<1> QED BY <1>1, <1>2, <1>3, <1>4, ProvedLocals, LocalStep

(* A step that saves devices and goes on. *)
LEMMA DeviceStep ==
    ASSUME MInv, NEW q \in Requests, NEW to \in Steps \ Proving, NEW S,
           NEW state \in {"absent", "pending", "confirmed"},
           SaveObjects(S, state), GoTo(q, to),
           UNCHANGED <<version, privileged, codes, withdrawn, web, events>>
    PROVE  MInv'
<1>1. RowsFrom(q)
  BY SameRows
<1>2. AccountTyped /\ version' = version /\ privileged' = privileged
  BY SavedObjects DEF AccountTyped, MInv, TypeOK
<1> QED BY <1>1, <1>2, NextStatement, LocalStep DEF GoTo

LEMMA RefuseFactorStep == ASSUME MInv, NEW q \in Requests, RefuseFactor(q) PROVE MInv'
<1> DEFINE n == req[q].data.attempts + 1
           kept == [req[q] EXCEPT !.at = "reply", !.touched = TRUE,
                                  !.data.attempts = n, !.refused = TRUE]
           flushed == [Flushed(q, "reply", Empty) EXCEPT !.refused = TRUE]
<1>1. req[q] \in LocalStates /\ GoodLocals(req[q])
  BY OwnLocals
<1>2. AccountTyped /\ version' = version /\ privileged' = privileged
  BY SameAccount DEF RefuseFactor
<1>3. CASE Exhausted(n)
  <2>1. Flushed(q, "reply", Empty) \in LocalStates /\ GoodLocals(Flushed(q, "reply", Empty))
    BY EmptyIsGood, FlushedLocals DEF Steps, Proving
  <2>2. flushed \in LocalStates /\ GoodLocals(flushed)
    BY <2>1 DEF LocalStates, GoodLocals
  <2>3. RowsFrom(q)
    BY <1>3, DroppedRow DEF RefuseFactor
  <2> QED BY <1>2, <1>3, <2>2, <2>3, LocalStep DEF RefuseFactor
<1>4. CASE ~Exhausted(n)
  <2>1. n \in 0 .. MaxAttempts - 1
    BY <1>1, <1>4, AttemptsAssumption DEF Exhausted, LocalStates, Dictionaries
  <2>2. kept.data \in Dictionaries
    BY <1>1, <2>1 DEF LocalStates, Dictionaries
  <2>3. kept \in LocalStates
    BY <1>1, <2>2 DEF LocalStates, Steps
  <2>4. GoodLocals(kept)
    <3>1. GoodData(kept.data)
      BY <1>1 DEF GoodLocals, GoodData, LocalStates, Dictionaries
    <3> QED BY <1>1, <3>1 DEF GoodLocals, LocalStates, Proving
  <2>5. RowsFrom(q)
    BY <1>4, SameRows DEF RefuseFactor, web
  <2> QED BY <1>2, <1>4, <2>3, <2>4, <2>5, LocalStep DEF RefuseFactor
<1> QED BY <1>3, <1>4

(* The flush after the proof keeps what is known of its version. *)
LEMMA FlushProvedStep == ASSUME MInv, NEW q \in Requests, FlushProved(q) PROVE MInv'
<1> DEFINE l == Flushed(q, "flushed", Empty)
<1>1. req[q] \in LocalStates /\ GoodLocals(req[q]) /\ req[q].at = "proved"
  BY OwnLocals DEF FlushProved, At
<1>2. Empty \in Dictionaries /\ GoodData(Empty)
  BY EmptyIsGood
<1>3. l \in LocalStates
  BY <1>1, <1>2 DEF LocalStates, Flushed, Rows, Steps
<1>4. GoodLocals(l)
  BY <1>1, <1>2 DEF GoodLocals, Flushed, LocalStates, Proving
<1>5. RowsFrom(q)
  BY DroppedRow DEF FlushProved
<1>6. AccountTyped /\ version' = version /\ privileged' = privileged
  BY SameAccount DEF FlushProved
<1> QED BY <1>3, <1>4, <1>5, <1>6, LocalStep DEF FlushProved

(* What is recorded of a verified login: the version of the user object, which *)
(* is at most that of the proof.                                               *)
LEMMA LogInVerifiedStep == ASSUME MInv, NEW q \in Requests, LogInVerified(q) PROVE MInv'
<1>1. req[q] \in LocalStates /\ GoodLocals(req[q])
  BY OwnLocals
<1>2. VerifiedData(q) \in Dictionaries
  <2>1. req[q].version \in 0 .. MaxVersion /\ req[q].proof \in 0 .. MaxVersion
        /\ req[q].device \in Devices \cup {None}
    BY <1>1 DEF LocalStates
  <2>2. Empty \in Dictionaries
    BY EmptyIsGood
  <2> QED BY <2>1, <2>2 DEF VerifiedData, Dictionaries, ObjectVersion
<1>3. GoodData(VerifiedData(q))
  BY <1>1 DEF LogInVerified, At, GoodLocals, GoodData, Proving, VerifiedData, Empty,
              ObjectVersion, LocalStates
<1> DEFINE l == [req[q] EXCEPT !.at = AfterProof(q), !.key = q, !.data = VerifiedData(q)]
<1>4. AfterProof(q) \in Steps \ Proving
  BY DEF AfterProof, Steps, Proving
<1>5. l \in LocalStates /\ GoodLocals(l)
  BY <1>1, <1>2, <1>3, <1>4 DEF GoodLocals, LocalStates, Rows
<1>6. RowsFrom(q)
  BY InsertedRow DEF LogInVerified
<1>7. AccountTyped /\ version' = version /\ privileged' = privileged
  BY SameAccount DEF LogInVerified
<1> QED BY <1>5, <1>6, <1>7, LocalStep DEF LogInVerified

LEMMA VerifyStep == ASSUME MInv, NEW q \in Requests, Verify(q) PROVE MInv'
<1> USE DEF Steps, Proving
<1>1. CASE RefuseVerify(q)
  BY <1>1, OnlyGoesOn DEF RefuseVerify
<1>2. CASE RefuseToken(q)
  BY <1>2, DeviceStep DEF RefuseToken
<1>3. CASE RecordVerified(q)
  BY <1>3, Recorded DEF RecordVerified, Actions
<1> QED BY <1>1, <1>2, <1>3, ReadCandidateUserStep, ListDevicesStep, AcceptTokenStep,
           AcceptCodeStep, RefuseFactorStep, FlushProvedStep, LogInVerifiedStep DEF Verify

-------------------------------------------------------------------------------
(* setup_mfa *)

LEMMA FindPendingStep == ASSUME MInv, NEW q \in Requests, FindPending(q) PROVE MInv'
<1>1. CASE GoTo(q, "reply")
  BY <1>1, OnlyGoesOn DEF FindPending, Steps, Proving
<1>2. ASSUME NEW d \in Pending, Become(q, [req[q] EXCEPT !.at = "token", !.device = d])
      PROVE  MInv'
  <2> DEFINE l == [req[q] EXCEPT !.at = "token", !.device = d]
  <2>1. req[q] \in LocalStates /\ GoodLocals(req[q])
    BY OwnLocals
  <2>2. l \in LocalStates
    BY <2>1 DEF LocalStates, Steps, Pending
  <2>3. GoodLocals(l)
    BY <2>1 DEF LocalStates, GoodLocals, Proving
  <2>4. RowsFrom(q)
    BY SameRows DEF FindPending
  <2>5. AccountTyped /\ version' = version /\ privileged' = privileged
    BY SameAccount DEF FindPending
  <2> QED BY <1>2, <2>2, <2>3, <2>4, <2>5, LocalStep
<1> QED BY <1>1, <1>2 DEF FindPending

LEMMA AcceptPendingStep == ASSUME MInv, NEW q \in Requests, AcceptPending(q) PROVE MInv'
<1> DEFINE d == req[q].device
           l == [req[q] EXCEPT !.at = "confirmed", !.proof = version]
<1>1. req[q] \in LocalStates /\ GoodLocals(req[q])
  BY OwnLocals
<1>2. version \in 0 .. MaxVersion /\ version <= version
  BY VersionAssumption DEF MInv, TypeOK
<1>3. l \in LocalStates
  BY <1>1, <1>2 DEF LocalStates, Steps
<1>4. GoodLocals(l)
  BY <1>1, <1>2 DEF LocalStates, GoodLocals, Proving
<1>5. RowsFrom(q)
  BY SameRows DEF AcceptPending
<1>6. AccountTyped /\ version' = version /\ privileged' = privileged
  BY SavedObjects DEF AcceptPending, AccountTyped, MInv, TypeOK
<1> QED BY <1>3, <1>4, <1>5, <1>6, LocalStep DEF AcceptPending

LEMMA ConfirmStep == ASSUME MInv, NEW q \in Requests, Confirm(q) PROVE MInv'
<1> DEFINE l == [req[q] EXCEPT !.at = "codes"]
<1>1. req[q] \in LocalStates /\ GoodLocals(req[q])
  BY OwnLocals
<1>2. l \in LocalStates
  BY <1>1 DEF LocalStates, Steps
<1>3. GoodLocals(l)
  BY <1>1 DEF LocalStates, GoodLocals, Proving, Confirm, At
<1>4. RowsFrom(q)
  BY SameRows DEF Confirm
<1>5. AccountTyped /\ version' = version /\ privileged' = privileged
  BY SavedObjects DEF Confirm, AccountTyped, MInv, TypeOK
<1> QED BY <1>2, <1>3, <1>4, <1>5, LocalStep DEF Confirm, GoTo

LEMMA IssueCodesStep == ASSUME MInv, NEW q \in Requests, IssueCodes(q) PROVE MInv'
<1> DEFINE l == [req[q] EXCEPT !.at = "enrolled", !.touched = TRUE,
                    !.data.device = req[q].device, !.data.version = ObjectVersion(q),
                    !.data.how = "verified", !.data.proof = req[q].proof]
<1>1. req[q] \in LocalStates /\ GoodLocals(req[q])
  BY OwnLocals
<1>2. l.data \in Dictionaries
  BY <1>1 DEF LocalStates, Dictionaries, ObjectVersion
<1>3. l \in LocalStates
  BY <1>1, <1>2 DEF LocalStates, Steps
<1>4. GoodLocals(l)
  <2>1. req[q].version <= req[q].proof
    BY <1>1 DEF GoodLocals, Proving, IssueCodes, At
  <2>2. GoodData(l.data)
    BY <1>1, <2>1 DEF GoodLocals, GoodData, LocalStates, Dictionaries, ObjectVersion
  <2> QED BY <1>1, <2>2 DEF GoodLocals, LocalStates, Proving
<1>5. RowsFrom(q)
  BY SameRows DEF IssueCodes
<1>6. AccountTyped /\ version' = version /\ privileged' = privileged
  BY DEF IssueCodes, AccountTyped, MInv, TypeOK, Devices
<1> QED BY <1>3, <1>4, <1>5, <1>6, LocalStep DEF IssueCodes

LEMMA SetupStep == ASSUME MInv, NEW q \in Requests, Setup(q) PROVE MInv'
<1> USE DEF Steps, Proving
<1>1. CASE RefuseSetup(q)
  BY <1>1, OnlyGoesOn DEF RefuseSetup
<1>2. CASE AllowSetup(q)
  BY <1>2, OnlyGoesOn DEF AllowSetup
<1>3. CASE DeletePending(q)
  BY <1>3, DeviceStep DEF DeletePending
<1>4. CASE CreateDevice(q)
  BY <1>4, DeviceStep DEF CreateDevice
<1>5. CASE RefusePending(q)
  BY <1>5, DeviceStep DEF RefusePending
<1>6. CASE RecordEnrolled(q)
  BY <1>6, Recorded DEF RecordEnrolled, Actions
<1> QED BY <1>1, <1>2, <1>3, <1>4, <1>5, <1>6, FindPendingStep, AcceptPendingStep,
           ConfirmStep, IssueCodesStep DEF Setup

-------------------------------------------------------------------------------
(* logout_view, and what happens to the account *)

LEMMA LogoutStep ==
    ASSUME MInv, NEW q \in Requests, RecordLogout(q) \/ LogOut(q) PROVE MInv'
<1> USE DEF Steps, Proving
<1>1. CASE RecordLogout(q)
  BY <1>1, Recorded DEF RecordLogout, Actions
<1>2. CASE LogOut(q)
  BY <1>2, EmptyIsGood, FlushStep DEF LogOut
<1> QED BY <1>1, <1>2

(* A change of the account raises the version: every version in memory or in a *)
(* row is older from then on.                                                  *)
LEMMA AccountStep == ASSUME MInv, ResetMfa \/ ChangeScope PROVE MInv'
<1>1. version' = version + 1 /\ version \in Nat /\ version' \in 1 .. MaxVersion
  BY VersionAssumption DEF ResetMfa, ChangeScope, Bump, MInv, TypeOK
<1>2. UNCHANGED <<store, cookie, req, events>>
  BY DEF ResetMfa, ChangeScope, web
<1>3. TypeOK'
  <2>1. privileged' \in BOOLEAN
    BY DEF ResetMfa, ChangeScope, MInv, TypeOK
  <2>2. /\ device' \in [Devices -> {"absent", "pending", "confirmed"}]
        /\ codes' \subseteq Devices /\ withdrawn' \subseteq Devices
    BY DEF ResetMfa, ChangeScope, MInv, TypeOK
  <2> QED BY <1>1, <1>2, <2>1, <2>2 DEF MInv, TypeOK
<1>4. ASSUME NEW d \in Dictionaries, GoodData(d)
      PROVE  /\ d.version <= version' /\ d.proof <= version'
             /\ d.version # version'
  BY <1>1, <1>4 DEF GoodData, Dictionaries
<1>5. GoodRows'
  <2> SUFFICES ASSUME NEW r \in Rows, store[r] # None
               PROVE  /\ store[r].version <= version' /\ store[r].proof <= version'
                      /\ store[r].how = "verified" => store[r].version <= store[r].proof
                      /\ store[r].version # version'
    BY <1>2 DEF GoodRows, GoodData
  <2>1. store[r] \in Dictionaries /\ GoodData(store[r])
    BY DEF MInv, TypeOK, GoodRows
  <2> QED BY <1>4, <2>1 DEF GoodData
<1>6. GoodRequests'
  <2> SUFFICES ASSUME NEW q \in Requests
               PROVE  /\ req[q].data.version <= version' /\ req[q].data.proof <= version'
                      /\ req[q].data.how = "verified" =>
                           req[q].data.version <= req[q].data.proof
                      /\ req[q].data.version # version'
                      /\ req[q].version <= version' /\ req[q].proof <= version'
                      /\ req[q].at \in Proving => req[q].version <= req[q].proof
    BY <1>2 DEF GoodRequests, GoodLocals, GoodData
  <2>1. req[q] \in LocalStates /\ GoodLocals(req[q])
    BY OwnLocals
  <2>2. req[q].data \in Dictionaries
    BY <2>1 DEF LocalStates
  <2> QED BY <1>1, <1>4, <2>1, <2>2 DEF GoodLocals, GoodData, LocalStates
<1> QED BY <1>3, <1>5, <1>6 DEF MInv

-------------------------------------------------------------------------------
(* The theorems *)

LEMMA InitMInv == Init => MInv
<1> SUFFICES ASSUME Init PROVE MInv
  OBVIOUS
<1>1. Empty \in Dictionaries
  BY AttemptsAssumption, VersionAssumption DEF Empty, Dictionaries
<1>2. ASSUME NEW b \in Browsers, NEW k \in Kinds
      PROVE  Locals(b, k) \in LocalStates /\ GoodLocals(Locals(b, k))
  <2>1. Locals(b, k) \in LocalStates
    BY <1>1, KindsAssumption, VersionAssumption DEF Locals, LocalStates, Steps
  <2>2. GoodLocals(Locals(b, k))
    BY DEF Init, Locals, Empty, GoodLocals, GoodData, Proving
  <2> QED BY <2>1, <2>2
<1>3. req \in [Requests -> LocalStates]
  BY <1>2 DEF Init
<1>4. TypeOK
  <2>1. device \in [Devices -> {"absent", "pending", "confirmed"}] /\ codes \subseteq Devices
    BY DEF Init, Devices
  <2> QED BY <1>3, <2>1, VersionAssumption DEF Init, TypeOK
<1>5. GoodRows /\ GoodRequests
  BY <1>2 DEF Init, GoodRows, GoodRequests
<1> QED BY <1>4, <1>5 DEF MInv

LEMMA NextMInv == MInv /\ [Next]_vars => MInv'
<1> SUFFICES ASSUME MInv, [Next]_vars PROVE MInv'
  OBVIOUS
<1>1. CASE UNCHANGED vars
  BY <1>1 DEF MInv, TypeOK, GoodRows, GoodRequests, GoodLocals, GoodData, vars, account, web
<1>2. CASE Next
  BY <1>2, SessionStep, LoginStep, VerifyStep, SetupStep, LogoutStep, FailStep, AccountStep
     DEF Next
<1> QED BY <1>1, <1>2

LEMMA Invariance == Spec => []MInv
BY InitMInv, NextMInv, PTL DEF Spec

(* Every dictionary and every local is well typed: a session that is kept has *)
(* used up fewer than MAX_MFA_ATTEMPTS, however its requests overlap.         *)
THEOREM TypeCorrect == Spec => []TypeOK
BY Invariance, PTL DEF MInv

(* The second factor of an accepted verified session was proved under the *)
(* version the session is accepted with.                                  *)
THEOREM VerifiedCorrect == Spec => []VerifiedIsCurrent
<1>1. MInv => VerifiedIsCurrent
  <2> SUFFICES ASSUME MInv, NEW r \in Rows, Accepted(r), store[r].how = "verified"
               PROVE  store[r].proof = version
    BY DEF VerifiedIsCurrent
  <2>1. store[r] \in Dictionaries /\ GoodData(store[r])
    BY DEF MInv, TypeOK, GoodRows, Accepted
  <2>2. version \in Nat /\ store[r].proof \in Nat
    BY <2>1, VersionAssumption DEF Dictionaries, MInv, TypeOK
  <2> QED BY <2>1, <2>2 DEF GoodData, Accepted
<1> QED BY <1>1, Invariance, PTL

(* No login that skipped the second step is an accepted session of a user *)
(* who has a privileged role.                                             *)
THEOREM SkippedCorrect == Spec => []SkippedIsUnprivileged
<1>1. MInv => SkippedIsUnprivileged
  BY DEF SkippedIsUnprivileged, MInv, GoodRows, GoodData, Accepted
<1> QED BY <1>1, Invariance, PTL
-------------------------------------------------------------------------------
(* The devices.  ResetIsFinal is violated by a request that saves an object of a *)
(* device that reset_mfa has deleted since.  Nothing else brings a device back.  *)

(* No request is about to check a token against an object whose row was deleted. *)
NothingStale ==
    \A q \in Requests :
        /\ At(q, "check") => req[q].devices \cap withdrawn = {}
        /\ At(q, "token") => req[q].device \notin withdrawn

Over == {"reply", "done", "failed"}
Existing == {d \in Devices : device[d] # "absent"}
Known(l) == l.devices \cup {l.device}

(* The device of a request that has not created one is unknown to everybody. *)
Uncreated ==
    \A q \in Requests : req[q].at \notin Over =>
        q \notin Existing \cup withdrawn /\ \A p \in Requests : q \notin Known(req[p])

DevInv == Uncreated /\ ResetIsFinal

(* A step of q with locals l after it: the devices it comes to know are there, and *)
(* those it brings are its own or were known to it and not withdrawn.              *)
Handles(q, l) ==
    /\ Become(q, l) /\ UNCHANGED withdrawn
    /\ l.at \notin Over => req[q].at \notin Over
    /\ Known(l) \subseteq Known(req[q]) \cup Existing \cup {None}
    /\ Existing' \subseteq Existing \cup (Known(req[q]) \ withdrawn)
                           \cup (IF l.at \in Over /\ req[q].at \notin Over THEN {q} ELSE {})

LEMMA HandlesKeeps ==
    ASSUME TypeOK, DevInv, NEW q \in Requests, NEW l, Handles(q, l)
    PROVE  DevInv'
<1>1. /\ req'[q] = l /\ \A p \in Requests \ {q} : req'[p] = req[p]
      /\ withdrawn' = withdrawn /\ withdrawn \subseteq Devices
      /\ None \notin Devices /\ Requests \subseteq Devices
  BY FirstAssumption DEF Handles, Become, TypeOK, Devices
<1>2. ASSUME NEW p \in Requests, req'[p].at \notin Over
      PROVE  p \notin Existing' \cup withdrawn' /\ \A o \in Requests : p \notin Known(req'[o])
  <2>1. req[p].at \notin Over
    BY <1>1, <1>2 DEF Handles
  <2>2. p \notin Existing \cup withdrawn /\ \A o \in Requests : p \notin Known(req[o])
    BY <2>1 DEF DevInv, Uncreated
  <2>3. p \notin Existing'
    BY <1>1, <1>2, <2>2 DEF Handles
  <2>4. p \notin Known(l)
    BY <1>1, <2>2 DEF Handles
  <2> QED BY <1>1, <2>2, <2>3, <2>4
<1>3. Uncreated'
  BY <1>1, <1>2 DEF Uncreated
<1>4. ResetIsFinal'
  <2>1. Existing \cap withdrawn = {}
    BY DEF DevInv, ResetIsFinal, Existing
  <2>2. l.at \in Over /\ req[q].at \notin Over => q \notin withdrawn
    BY DEF DevInv, Uncreated
  <2>3. Existing' \cap withdrawn = {}
    BY <2>1, <2>2 DEF Handles
  <2> QED BY <1>1, <2>3 DEF ResetIsFinal, Existing
<1> QED BY <1>3, <1>4 DEF DevInv

(* What SaveObjects brings. *)
LEMMA SavedExist ==
    ASSUME NEW S \in SUBSET Devices, NEW state, SaveObjects(S, state)
    PROVE  Existing' \subseteq Existing \cup (IF state = "absent" THEN {} ELSE S)
  BY DEF SaveObjects, Existing

(* A step that saves no device and learns of none. *)
LEMMA HandlesNothing ==
    ASSUME DevInv, TypeOK, NEW q \in Requests, NEW l, Become(q, l), UNCHANGED <<device, withdrawn>>,
           l.at \notin Over => req[q].at \notin Over,
           l.devices = req[q].devices, l.device = req[q].device
    PROVE  DevInv'
<1>1. Existing' = Existing
  BY DEF Existing
<1>2. Handles(q, l)
  BY <1>1 DEF Handles, Known
<1> QED BY <1>2, HandlesKeeps

LEMMA GoesOnWithout ==
    ASSUME DevInv, TypeOK, NEW q \in Requests, NEW to, GoTo(q, to), UNCHANGED <<device, withdrawn>>,
           to \notin Over => req[q].at \notin Over
    PROVE  DevInv'
<1>1. PICK l : l = [req[q] EXCEPT !.at = to]
  OBVIOUS
<1>2. req[q] \in LocalStates
  BY DEF TypeOK
<1>3. l.at = to /\ l.devices = req[q].devices /\ l.device = req[q].device
  BY <1>1, <1>2 DEF LocalStates
<1> QED BY <1>1, <1>3, HandlesNothing DEF GoTo

(* A step that saves some of the devices q knows, none of them withdrawn. *)
LEMMA HandlesKnown ==
    ASSUME DevInv, TypeOK, NEW q \in Requests, NEW l, Become(q, l), UNCHANGED withdrawn,
           NEW S \in SUBSET Devices, S \subseteq Known(req[q]), S \cap withdrawn = {},
           NEW state, SaveObjects(S, state),
           l.at \notin Over => req[q].at \notin Over,
           l.devices = req[q].devices, l.device \in Known(req[q])
    PROVE  DevInv'
<1>1. Existing' \subseteq Existing \cup S
  BY SavedExist
<1>2. Handles(q, l)
  BY <1>1 DEF Handles, Known
<1> QED BY <1>2, HandlesKeeps

LEMMA FlushHandles ==
    ASSUME DevInv, TypeOK, NEW q \in Requests, NEW to, NEW data, Become(q, Flushed(q, to, data)),
           UNCHANGED account, req[q].at \notin Over
    PROVE  DevInv'
<1>1. PICK l : l = Flushed(q, to, data)
  OBVIOUS
<1>2. req[q] \in LocalStates
  BY DEF TypeOK
<1>3. l.devices = req[q].devices /\ l.device = req[q].device
  BY <1>1, <1>2 DEF Flushed, LocalStates
<1> QED BY <1>1, <1>3, HandlesNothing DEF account

LEMMA SessionHandles ==
    ASSUME DevInv, TypeOK, NEW q \in Requests, Session(q)
    PROVE  DevInv'
<1> USE DEF Over, AllKinds, At
<1>t. req[q] \in LocalStates
  BY DEF TypeOK
<1>1. CASE Load(q)
  <2>1. PICK sent, loaded, key, data :
          Become(q, [req[q] EXCEPT !.at = "loaded", !.sent = sent, !.loaded = loaded,
                                   !.key = key, !.data = data])
    BY <1>1 DEF Load
  <2>2. PICK l : l = [req[q] EXCEPT !.at = "loaded", !.sent = sent, !.loaded = loaded,
                                    !.key = key, !.data = data]
    OBVIOUS
  <2>3. l.devices = req[q].devices /\ l.device = req[q].device
    BY <1>t, <2>2 DEF LocalStates
  <2> QED BY <1>1, <2>1, <2>2, <2>3, HandlesNothing DEF Load, account
<1>2. CASE ReadUser(q)
  <2>1. CASE req[q].data.login
    <3>1. PICK l : l = [req[q] EXCEPT !.at = "identified", !.version = version]
      OBVIOUS
    <3>2. l.devices = req[q].devices /\ l.device = req[q].device
      BY <1>t, <3>1 DEF LocalStates
    <3> QED BY <1>2, <2>1, <3>1, <3>2, HandlesNothing DEF ReadUser, account
  <2>2. CASE ~req[q].data.login
    BY <1>2, <2>2, GoesOnWithout DEF ReadUser, account
  <2> QED BY <2>1, <2>2
<1>3. CASE LogOutStale(q)
  BY <1>3, FlushHandles DEF LogOutStale
<1>4. CASE Admit(q)
  <2>1. PICK gone, d :
          Become(q, [req[q] EXCEPT !.at = req[q].kind, !.touched = gone, !.data.device = d])
    BY <1>4 DEF Admit
  <2>2. PICK l : l = [req[q] EXCEPT !.at = req[q].kind, !.touched = gone, !.data.device = d]
    OBVIOUS
  <2>3. l.devices = req[q].devices /\ l.device = req[q].device
    BY <1>t, <2>2 DEF LocalStates
  <2> QED BY <1>4, <2>1, <2>2, <2>3, HandlesNothing DEF Admit, account
<1>5. CASE Visit(q)
  BY <1>5, GoesOnWithout DEF Visit, account
<1>6. CASE Reply(q)
  BY <1>6, GoesOnWithout DEF Reply, account
<1> QED BY <1>1, <1>2, <1>3, <1>4, <1>5, <1>6 DEF Session

LEMMA LoginHandles ==
    ASSUME DevInv, TypeOK, NEW q \in Requests, Login(q)
    PROVE  DevInv'
<1> USE DEF Over, At
<1>t. req[q] \in LocalStates
  BY DEF TypeOK
<1>1. CASE RefusePassword(q) \/ RecordPassword(q) \/ FindPrivilege(q) \/ DropOld(q)
  BY <1>1, GoesOnWithout DEF RefusePassword, RecordPassword, FindPrivilege, DropOld, Record, account
<1>2. CASE Authenticate(q)
  <2>1. PICK l : l = [req[q] EXCEPT !.at = "authenticated", !.version = version]
    OBVIOUS
  <2>2. l.devices = req[q].devices /\ l.device = req[q].device
    BY <1>t, <2>1 DEF LocalStates
  <2> QED BY <1>2, <2>1, <2>2, HandlesNothing DEF Authenticate, account
<1>3. CASE LogInUnprivileged(q) \/ LogInToEnrol(q)
  <2>1. PICK how : LogIn(q, how)
    BY <1>3 DEF LogInUnprivileged, LogInToEnrol
  <2>2. PICK l : l = [req[q] EXCEPT !.at = IF NewKey(q) THEN "cycled" ELSE "reply",
                    !.key = IF NewKey(q) THEN q ELSE @, !.touched = TRUE,
                    !.data.login = TRUE, !.data.version = ObjectVersion(q), !.data.how = how]
    OBVIOUS
  <2>3. l.at \in {"cycled", "reply"} /\ l.devices = req[q].devices /\ l.device = req[q].device
    BY <1>t, <2>2 DEF LocalStates
  <2>4. req[q].at \notin Over
    BY <1>3 DEF LogInUnprivileged, LogInToEnrol
  <2> QED BY <2>1, <2>2, <2>3, <2>4, HandlesNothing DEF LogIn, account
<1>4. CASE AwaitFactor(q)
  BY <1>4, FlushHandles DEF AwaitFactor
<1> QED BY <1>1, <1>2, <1>3, <1>4 DEF Login

LEMMA VerifyHandles ==
    ASSUME DevInv, TypeOK, NothingStale, NEW q \in Requests, Verify(q)
    PROVE  DevInv'
<1> USE DEF Over, At
<1>t. req[q] \in LocalStates /\ req[q].devices \subseteq Devices
  BY DEF TypeOK, LocalStates
<1>1. CASE RefuseVerify(q) \/ RecordVerified(q)
  BY <1>1, GoesOnWithout DEF RefuseVerify, RecordVerified, Record, account
<1>2. CASE ReadCandidateUser(q)
  <2>1. PICK l : l = [req[q] EXCEPT !.at = "devices", !.version = version]
    OBVIOUS
  <2>2. l.devices = req[q].devices /\ l.device = req[q].device
    BY <1>t, <2>1 DEF LocalStates
  <2> QED BY <1>2, <2>1, <2>2, HandlesNothing DEF ReadCandidateUser, account
<1>3. CASE ListDevices(q)
  <2>1. PICK l : l = [req[q] EXCEPT !.at = "check", !.devices = Confirmed]
    OBVIOUS
  <2>2. l.devices = Confirmed /\ l.device = req[q].device
    BY <1>t, <2>1 DEF LocalStates
  <2>3. Confirmed \subseteq Existing
    BY DEF Confirmed, Existing
  <2>4. Existing' = Existing
    BY <1>3 DEF ListDevices, account, Existing
  <2>5. Handles(q, l)
    BY <1>3, <2>1, <2>2, <2>3, <2>4 DEF ListDevices, Handles, Known, account
  <2> QED BY <2>5, HandlesKeeps
<1>4. CASE AcceptToken(q)
  <2>1. PICK d \in req[q].devices, S \in SUBSET req[q].devices :
          /\ SaveObjects(S, "confirmed")
          /\ Become(q, [req[q] EXCEPT !.at = "proved", !.device = d, !.proof = version])
    BY <1>4 DEF AcceptToken
  <2>2. PICK l : l = [req[q] EXCEPT !.at = "proved", !.device = d, !.proof = version]
    OBVIOUS
  <2>3. l.devices = req[q].devices /\ l.device = d
    BY <1>t, <2>2 DEF LocalStates
  <2>4. S \cap withdrawn = {} /\ S \in SUBSET Devices /\ S \subseteq Known(req[q])
    BY <1>4, <1>t, <2>1 DEF AcceptToken, NothingStale, Known
  <2> QED BY <1>4, <2>1, <2>2, <2>3, <2>4, HandlesKnown DEF AcceptToken, Known
<1>5. CASE RefuseToken(q)
  <2>1. PICK S \in SUBSET req[q].devices : SaveObjects(S, "confirmed")
    BY <1>5 DEF RefuseToken
  <2>2. PICK l : l = [req[q] EXCEPT !.at = "code"]
    OBVIOUS
  <2>3. l.devices = req[q].devices /\ l.device = req[q].device
    BY <1>t, <2>2 DEF LocalStates
  <2>4. S \cap withdrawn = {} /\ S \in SUBSET Devices /\ S \subseteq Known(req[q])
    BY <1>5, <1>t, <2>1 DEF RefuseToken, NothingStale, Known
  <2> QED BY <1>5, <2>1, <2>2, <2>3, <2>4, HandlesKnown DEF RefuseToken, GoTo, Known
<1>6. CASE AcceptCode(q)
  <2>1. PICK d \in req[q].devices \cup {None} :
          Become(q, [req[q] EXCEPT !.at = "proved", !.device = d, !.proof = version])
    BY <1>6 DEF AcceptCode
  <2>2. PICK l : l = [req[q] EXCEPT !.at = "proved", !.device = d, !.proof = version]
    OBVIOUS
  <2>3. l.devices = req[q].devices /\ l.device = d
    BY <1>t, <2>2 DEF LocalStates
  <2>4. Existing' = Existing
    BY <1>6 DEF AcceptCode, Existing
  <2>5. Handles(q, l)
    BY <1>6, <2>1, <2>2, <2>3, <2>4 DEF AcceptCode, Handles, Known
  <2> QED BY <2>5, HandlesKeeps
<1>7. CASE RefuseFactor(q)
  <2>1. PICK l : /\ Become(q, l) /\ l.at = "reply"
                 /\ l.devices = req[q].devices /\ l.device = req[q].device
    <3> DEFINE n == req[q].data.attempts + 1
               kept == [req[q] EXCEPT !.at = "reply", !.touched = TRUE,
                                      !.data.attempts = n, !.refused = TRUE]
               flushed == [Flushed(q, "reply", Empty) EXCEPT !.refused = TRUE]
    <3>1. \/ Become(q, kept) \/ Become(q, flushed)
      BY <1>7 DEF RefuseFactor
    <3>2. /\ kept.at = "reply" /\ kept.devices = req[q].devices /\ kept.device = req[q].device
          /\ flushed.at = "reply" /\ flushed.devices = req[q].devices
          /\ flushed.device = req[q].device
      BY <1>t DEF LocalStates, Flushed
    <3> QED BY <3>1, <3>2
  <2> QED BY <1>7, <2>1, HandlesNothing DEF RefuseFactor, account
<1>8. CASE FlushProved(q)
  BY <1>8, FlushHandles DEF FlushProved
<1>9. CASE LogInVerified(q)
  <2>1. PICK l : l = [req[q] EXCEPT !.at = AfterProof(q), !.key = q, !.data = VerifiedData(q)]
    OBVIOUS
  <2>2. l.devices = req[q].devices /\ l.device = req[q].device
    BY <1>t, <2>1 DEF LocalStates
  <2> QED BY <1>9, <2>1, <2>2, HandlesNothing DEF LogInVerified, account
<1> QED BY <1>1, <1>2, <1>3, <1>4, <1>5, <1>6, <1>7, <1>8, <1>9 DEF Verify

LEMMA SetupHandles ==
    ASSUME DevInv, TypeOK, NothingStale, NEW q \in Requests, Setup(q)
    PROVE  DevInv'
<1> USE DEF Over, At
<1>t. req[q] \in LocalStates /\ req[q].device \in Devices \cup {None}
  BY DEF TypeOK, LocalStates
<1>n. None \notin Devices
  BY FirstAssumption
<1>1. CASE RefuseSetup(q) \/ AllowSetup(q) \/ RecordEnrolled(q)
  BY <1>1, GoesOnWithout DEF RefuseSetup, AllowSetup, RecordEnrolled, Record, account
<1>g. ASSUME NEW to, GoTo(q, to)
      PROVE  \E l : Become(q, l) /\ l.at = to /\ l.devices = req[q].devices /\ l.device = req[q].device
  <2>1. PICK l : l = [req[q] EXCEPT !.at = to]
    OBVIOUS
  <2>2. l.at = to /\ l.devices = req[q].devices /\ l.device = req[q].device
    BY <1>t, <2>1 DEF LocalStates
  <2> QED BY <1>g, <2>1, <2>2 DEF GoTo
<1>2. CASE DeletePending(q)
  <2>1. PICK l : /\ Become(q, l) /\ l.at = "create"
                 /\ l.devices = req[q].devices /\ l.device = req[q].device
    BY <1>2, <1>g DEF DeletePending
  <2>2. Existing' \subseteq Existing
    BY <1>2 DEF DeletePending, SaveObjects, Existing
  <2>3. Handles(q, l)
    BY <1>2, <2>1, <2>2 DEF DeletePending, Handles, Known
  <2> QED BY <2>3, HandlesKeeps
<1>3. CASE CreateDevice(q)
  <2>1. PICK l : /\ Become(q, l) /\ l.at = "reply"
                 /\ l.devices = req[q].devices /\ l.device = req[q].device
    BY <1>3, <1>g DEF CreateDevice
  <2>2. Existing' \subseteq Existing \cup {q}
    BY <1>3 DEF CreateDevice, SaveObjects, Existing
  <2>3. Handles(q, l)
    BY <1>3, <2>1, <2>2 DEF CreateDevice, Handles, Known
  <2> QED BY <2>3, HandlesKeeps
<1>4. CASE FindPending(q)
  <2>1. CASE GoTo(q, "reply")
    BY <1>4, <2>1, GoesOnWithout DEF FindPending, account
  <2>2. ASSUME NEW d \in Pending, Become(q, [req[q] EXCEPT !.at = "token", !.device = d])
        PROVE  DevInv'
    <3>1. PICK l : l = [req[q] EXCEPT !.at = "token", !.device = d]
      OBVIOUS
    <3>2. l.devices = req[q].devices /\ l.device = d
      BY <1>t, <3>1 DEF LocalStates
    <3>3. d \in Existing /\ Existing' = Existing
      BY <1>4 DEF FindPending, Pending, Existing, account
    <3>4. Handles(q, l)
      BY <1>4, <2>2, <3>1, <3>2, <3>3 DEF FindPending, Handles, Known, account
    <3> QED BY <3>4, HandlesKeeps
  <2> QED BY <1>4, <2>1, <2>2 DEF FindPending
<1>5. CASE AcceptPending(q)
  <2>1. PICK l : l = [req[q] EXCEPT !.at = "confirmed", !.proof = version]
    OBVIOUS
  <2>2. l.devices = req[q].devices /\ l.device = req[q].device
    BY <1>t, <2>1 DEF LocalStates
  <2>3. Existing' \subseteq Existing \cup {req[q].device}
    BY <1>5 DEF AcceptPending, SaveObjects, Existing
  <2>4. Handles(q, l)
    BY <1>5, <2>1, <2>2, <2>3 DEF AcceptPending, Handles, Known, NothingStale
  <2> QED BY <2>4, HandlesKeeps
<1>6. CASE RefusePending(q)
  <2>1. PICK l : /\ Become(q, l) /\ l.at = "reply"
                 /\ l.devices = req[q].devices /\ l.device = req[q].device
    BY <1>6, <1>g DEF RefusePending
  <2>2. Existing' \subseteq Existing \cup {req[q].device}
    BY <1>6 DEF RefusePending, SaveObjects, Existing
  <2>3. Handles(q, l)
    BY <1>6, <2>1, <2>2 DEF RefusePending, Handles, Known, NothingStale
  <2> QED BY <2>3, HandlesKeeps
<1>7. CASE Confirm(q)
  <2>1. PICK l : /\ Become(q, l) /\ l.at = "codes"
                 /\ l.devices = req[q].devices /\ l.device = req[q].device
    BY <1>7, <1>g DEF Confirm
  <2>2. Existing' \subseteq Existing
    BY <1>7 DEF Confirm, SaveObjects, Existing
  <2>3. Handles(q, l)
    BY <1>7, <2>1, <2>2 DEF Confirm, Handles, Known
  <2> QED BY <2>3, HandlesKeeps
<1>8. CASE IssueCodes(q)
  <2>1. PICK l : l = [req[q] EXCEPT !.at = "enrolled", !.touched = TRUE,
                    !.data.device = req[q].device, !.data.version = ObjectVersion(q),
                    !.data.how = "verified", !.data.proof = req[q].proof]
    OBVIOUS
  <2>2. l.devices = req[q].devices /\ l.device = req[q].device
    BY <1>t, <2>1 DEF LocalStates
  <2> QED BY <1>8, <2>1, <2>2, HandlesNothing DEF IssueCodes
<1> QED BY <1>1, <1>2, <1>3, <1>4, <1>5, <1>6, <1>7, <1>8 DEF Setup

LEMMA OtherHandles ==
    ASSUME DevInv, TypeOK, NEW q \in Requests, RecordLogout(q) \/ LogOut(q) \/ Fail(q)
    PROVE  DevInv'
<1> USE DEF Over, At
<1>1. CASE RecordLogout(q) \/ Fail(q)
  BY <1>1, GoesOnWithout DEF RecordLogout, Record, Fail, account
<1>2. CASE LogOut(q)
  BY <1>2, FlushHandles DEF LogOut
<1> QED BY <1>1, <1>2

LEMMA ResetHandles ==
    ASSUME DevInv, TypeOK, ResetMfa
    PROVE  DevInv'
<1>1. withdrawn' = withdrawn \cup Existing /\ Existing' = {} /\ req' = req
  BY DEF ResetMfa, Existing
<1>2. Uncreated'
  BY <1>1 DEF DevInv, Uncreated
<1>3. ResetIsFinal'
  BY <1>1 DEF ResetIsFinal, ResetMfa, TypeOK
<1> QED BY <1>2, <1>3 DEF DevInv

LEMMA InitDevInv == Init => DevInv
<1> SUFFICES ASSUME Init PROVE DevInv
  OBVIOUS
<1>1. \A p \in Requests : Known(req[p]) = {None}
  BY DEF Init, Locals, Known
<1>2. Existing \subseteq {First} /\ withdrawn = {}
  BY DEF Init, Existing
<1> QED BY <1>1, <1>2, FirstAssumption DEF DevInv, Uncreated, ResetIsFinal, Devices

LEMMA NextDevInv == DevInv /\ TypeOK /\ NothingStale /\ [Next]_vars => DevInv'
<1> SUFFICES ASSUME DevInv, TypeOK, NothingStale, [Next]_vars PROVE DevInv'
  OBVIOUS
<1>1. CASE UNCHANGED <<req, device, withdrawn>>
  BY <1>1 DEF DevInv, Uncreated, ResetIsFinal, Existing
<1>2. CASE UNCHANGED vars \/ ChangeScope
  BY <1>1, <1>2 DEF vars, account, ChangeScope
<1>3. CASE ResetMfa
  BY <1>3, ResetHandles
<1> QED BY <1>2, <1>3, SessionHandles, LoginHandles, VerifyHandles, SetupHandles, OtherHandles DEF Next

(* As long as no request is about to check a token against an object of a device *)
(* that was deleted meanwhile, what reset_mfa deletes stays deleted: no enrolment, *)
(* confirmation, login or later reset brings it back.                             *)
THEOREM FinalUnlessStale == Spec /\ []NothingStale => []ResetIsFinal
<1>1. DevInv => ResetIsFinal
  BY DEF DevInv
<1> QED BY <1>1, InitDevInv, NextDevInv, TypeCorrect, PTL DEF Spec
===============================================================================

-------------------------- MODULE AuthorizationProofs --------------------------
(***************************************************************************)
(* Theorems about Authorization for any scopes to start from, memberships, *)
(* roles, units, calls and clients, and for any number of password changes *)
(* among them.                                                             *)
(***************************************************************************)
EXTENDS Authorization, TLAPS

(* Why a version belongs to one scope: it is computed under the lock of the *)
(* user row, which is kept until the scope and the version are committed.   *)
Locking ==
    /\ user \in Users
    /\ pc = [a \in Admins |-> pc[a]]
    /\ held = [a \in Admins |-> held[a]]
    /\ draft = [a \in Admins |-> draft[a]]
    /\ \A a \in Admins : UserRow \in held[a] <=> pc[a] = "bumped"
    /\ \A a, b \in Admins : UserRow \in held[a] /\ UserRow \in held[b] => a = b
    /\ \A a \in Admins : pc[a] = "bumped" => draft[a] = user.version + 1

(* The columns u were read from the user's row now or before: a password never *)
(* comes back, and under one password the version only rises.                   *)
Older(u) ==
    /\ u \in Users
    /\ \/ u.password < user.password
       \/ u.password = user.password /\ u.version <= user.version

(* ... and under is the scope they were read under. *)
Dated(u, under) == Older(u) /\ (u = user => under = scope)

Recorded(s) == [version |-> s.version, password |-> s.password]
AtLogin(s) == [version |-> s.version, password |-> s.entered]

SessionOf(k) ==
    session[k] # None =>
        /\ session[k] = [version |-> session[k].version, password |-> session[k].password,
                         entered |-> session[k].entered, under |-> session[k].under]
        /\ Older(Recorded(session[k]))
        /\ Dated(AtLogin(session[k]), session[k].under)

Sessions ==
    /\ session = [k \in Clients |-> session[k]]
    /\ \A k \in Clients : SessionOf(k)

RequestOf(k) ==
    /\ at[k] # "idle" =>
         /\ Dated(request[k].user, request[k].under)
         /\ request[k] = [user |-> request[k].user, under |-> request[k].under,
                          unit |-> request[k].unit, found |-> request[k].found]
    /\ at[k] \in {"passed", "prefetch"} =>
         session[k] # None /\ session[k].version = request[k].user.version
    /\ at[k] = "prefetch" /\ request[k].user = user =>
         request[k].found = ActiveMemberships(scope)

Requests ==
    /\ at = [k \in Clients |-> at[k]]
    /\ request = [k \in Clients |-> request[k]]
    /\ decision = [k \in Clients |-> decision[k]]
    /\ \A k \in Clients : RequestOf(k)

AInv == Locking /\ Sessions /\ Requests

-------------------------------------------------------------------------------
LEMMA UserRowIsItself == \A m, u : MembershipRow(m) # UserRow /\ GrantRow(m, u) # UserRow
  BY DEF MembershipRow, GrantRow, UserRow

LEMMA AInvInit == Init => AInv
<1> SUFFICES ASSUME Init PROVE AInv
  OBVIOUS
<1>1. user.version = 1 /\ user.password = 0 /\ user \in Users
  BY DEF Init, Users
<1>2. Locking
  BY <1>1 DEF Init, Locking
<1>3. Sessions /\ Requests
  BY <1>1 DEF Init, Sessions, SessionOf, Requests, RequestOf
<1>4. QED
  BY <1>2, <1>3 DEF AInv

(* A step of a transaction takes a row other than the user's, or none. *)
LEMMA OtherRow ==
  ASSUME Locking, NEW a \in Admins, NEW to, pc[a] # "bumped", to # "bumped",
         UNCHANGED user, pc' = [pc EXCEPT ![a] = to],
         draft' = draft \/ draft' = [draft EXCEPT ![a] = None],
         \/ held' = held
         \/ held' = [held EXCEPT ![a] = {}]
         \/ \E row : row # UserRow /\ held' = [held EXCEPT ![a] = @ \cup {row}]
  PROVE  Locking'
<1>1. UserRow \notin held[a] /\ UserRow \notin held'[a]
  BY DEF Locking
<1>2. \A b \in Admins \ {a} : held'[b] = held[b] /\ pc'[b] = pc[b] /\ draft'[b] = draft[b]
  BY DEF Locking
<1>3. held' = [b \in Admins |-> held'[b]] /\ draft' = [b \in Admins |-> draft'[b]]
      /\ pc' = [b \in Admins |-> pc'[b]] /\ pc'[a] = to
  BY DEF Locking
<1>4. QED
  BY <1>1, <1>2, <1>3 DEF Locking

LEMMA LockingStep == AInv /\ [Next]_vars => Locking'
<1> SUFFICES ASSUME AInv, [Next]_vars PROVE Locking'
  OBVIOUS
<1> USE DEF AInv
<1>1. ASSUME NEW a \in Admins, Fetch(a) PROVE Locking'
  BY <1>1, OtherRow DEF Fetch, Goto, database
<1>2. ASSUME NEW a \in Admins, NoChange(a) PROVE Locking'
  BY <1>2, OtherRow DEF NoChange, End, ReleaseRows, database
<1>3. ASSUME NEW a \in Admins, MissGrant(a) PROVE Locking'
  BY <1>3, OtherRow DEF MissGrant, Goto, database
<1>4. ASSUME NEW a \in Admins, InsertGrant(a) PROVE Locking'
  <2>1. /\ pc[a] # "bumped" /\ pc' = [pc EXCEPT ![a] = "written"] /\ UNCHANGED <<user, draft>>
        /\ \E row : row # UserRow /\ held' = [held EXCEPT ![a] = @ \cup {row}]
    BY <1>4, UserRowIsItself DEF InsertGrant, Write, Lock, database
  <2>2. QED
    BY <2>1, OtherRow
<1>5. ASSUME NEW a \in Admins, LoseInsert(a) PROVE Locking'
  BY <1>5, OtherRow DEF LoseInsert, Goto, database
<1>6. ASSUME NEW a \in Admins, DeleteGrant(a) PROVE Locking'
  <2>1. /\ pc[a] # "bumped" /\ pc' = [pc EXCEPT ![a] = "written"] /\ UNCHANGED <<user, draft>>
        /\ \E row : row # UserRow /\ held' = [held EXCEPT ![a] = @ \cup {row}]
    BY <1>6, UserRowIsItself DEF DeleteGrant, Write, Lock, database
  <2>2. QED
    BY <2>1, OtherRow
<1>7. ASSUME NEW a \in Admins, UpdateActive(a) PROVE Locking'
  <2>1. /\ pc[a] # "bumped" /\ pc' = [pc EXCEPT ![a] = "written"] /\ UNCHANGED <<user, draft>>
        /\ \E row : row # UserRow /\ held' = [held EXCEPT ![a] = @ \cup {row}]
    BY <1>7, UserRowIsItself DEF UpdateActive, Write, Lock, database
  <2>2. QED
    BY <2>1, OtherRow
<1>8. ASSUME NEW a \in Admins, UpdateRole(a) \/ CheckRole(a) PROVE Locking'
  <2>1. /\ pc[a] # "bumped" /\ pc' = [pc EXCEPT ![a] = pc'[a]] /\ pc'[a] # "bumped"
        /\ UNCHANGED <<user, draft>>
        /\ held' = held \/ \E row : row # UserRow /\ held' = [held EXCEPT ![a] = @ \cup {row}]
    BY <1>8, UserRowIsItself DEF UpdateRole, CheckRole, Goto, Lock, database, Locking
  <2>2. QED
    BY <2>1, OtherRow
<1>9. ASSUME NEW a \in Admins, Bump(a) PROVE Locking'
  <2>1. \A b \in Admins : UserRow \notin held[b]
    BY <1>9 DEF Bump, Free
  <2>2. /\ user' = user /\ pc' = [pc EXCEPT ![a] = "bumped"]
        /\ held' = [held EXCEPT ![a] = @ \cup {UserRow}]
        /\ draft' = [draft EXCEPT ![a] = user.version + 1]
    BY <1>9 DEF Bump, Goto, database, NextVersion
  <2>3. QED
    BY <2>1, <2>2 DEF Locking
<1>10. ASSUME NEW a \in Admins, Commit(a) PROVE Locking'
  <2>1. pc[a] = "bumped" /\ draft[a] = user.version + 1 /\ UserRow \in held[a]
    BY <1>10 DEF Commit, Locking
  <2>2. \A b \in Admins \ {a} : UserRow \notin held[b] /\ pc[b] # "bumped"
    BY <2>1 DEF Locking
  <2>3. user' \in Users
    BY <1>10, <2>1 DEF Commit, Locking, Users
  <2>4. /\ pc' = [pc EXCEPT ![a] = "done"] /\ held' = [held EXCEPT ![a] = {}]
        /\ draft' = [draft EXCEPT ![a] = None]
    BY <1>10 DEF Commit, End, ReleaseRows
  <2>5. QED
    BY <2>2, <2>3, <2>4 DEF Locking
<1>11. ASSUME NEW a \in Admins, Fail(a) PROVE Locking'
  <2>1. /\ pc' = [pc EXCEPT ![a] = "failed"] /\ held' = [held EXCEPT ![a] = {}]
        /\ draft' = [draft EXCEPT ![a] = None] /\ user' = user
    BY <1>11 DEF Fail, End, ReleaseRows, database
  <2>2. QED
    BY <2>1 DEF Locking
<1>12. ASSUME NEW k \in Clients, Serve(k) PROVE Locking'
  <2>1. CASE ChangePassword(k)
    <3>1. \A a \in Admins : pc[a] # "bumped"
      BY <2>1 DEF ChangePassword, Free, Locking
    <3>2. user' \in Users /\ UNCHANGED admin
      BY <2>1 DEF ChangePassword, Respond, Pass, Requests, RequestOf, Dated, Older, Users, Locking
    <3>3. QED
      BY <3>1, <3>2 DEF Locking, admin
  <2>2. CASE ~ChangePassword(k)
    BY <1>12, <2>2 DEF Serve, Authenticate, RecordSession, Admit, LogOut, DenyForeign,
       QueryMemberships, QueryGrants, admin, database, Locking
  <2>3. QED
    BY <2>1, <2>2
<1>13. CASE UNCHANGED vars
  BY <1>13 DEF vars, database, admin, Locking
<1>14. QED
  BY <1>1, <1>2, <1>3, <1>4, <1>5, <1>6, <1>7, <1>8, <1>9, <1>10, <1>11, <1>12, <1>13
     DEF Next, Operate

-------------------------------------------------------------------------------
(* What a step does to the committed rows: a commit makes a new version, a   *)
(* password change a new password, and everything else leaves scope and user *)
(* alone.                                                                     *)
UserChange ==
    \/ UNCHANGED <<scope, user>>
    \/ user' = [user EXCEPT !.version = user.version + 1]
    \/ user' \in Users /\ user'.password = user.password + 1

LEMMA UserStep ==
  ASSUME AInv, [Next]_vars
  PROVE  UserChange
<1>1. ASSUME NEW a \in Admins, Commit(a) PROVE UserChange
  BY <1>1 DEF UserChange, Commit, AInv, Locking
<1>2. ASSUME NEW k \in Clients, ChangePassword(k) PROVE UserChange
  <2>1. user' \in Users
    BY <1>2, LockingStep DEF AInv, Locking
  <2>2. QED
    BY <1>2, <2>1 DEF UserChange, ChangePassword
<1>3. CASE (\A a \in Admins : ~Commit(a)) /\ \A k \in Clients : ~ChangePassword(k)
  BY <1>3 DEF UserChange, Next, vars, database, Operate, Fetch, NoChange, MissGrant, InsertGrant,
     LoseInsert, DeleteGrant, UpdateActive, UpdateRole, CheckRole, Bump, Fail, Serve, Authenticate,
     RecordSession, Admit, LogOut, DenyForeign, QueryMemberships, QueryGrants
<1>4. QED
  BY <1>1, <1>2, <1>3

(* A new version or a new password makes every date an old one. *)
LEMMA OlderStays ==
  ASSUME user \in Users, UserChange, NEW u, Older(u)
  PROVE  Older(u)'
  BY DEF UserChange, Older, Users

LEMMA DatesAge ==
  ASSUME user \in Users, UserChange, NEW u, NEW s, Dated(u, s)
  PROVE  Dated(u, s)'
<1>1. Older(u)'
  BY OlderStays DEF Dated
<1>2. CASE UNCHANGED <<scope, user>>
  BY <1>1, <1>2 DEF Dated
<1>3. CASE ~UNCHANGED <<scope, user>>
  BY <1>1, <1>3 DEF Dated, Older, UserChange, Users
<1>4. QED
  BY <1>2, <1>3

LEMMA SessionsStep == AInv /\ [Next]_vars => Sessions'
<1> SUFFICES ASSUME AInv, [Next]_vars PROVE Sessions'
  OBVIOUS
<1>a. user \in Users /\ Sessions /\ Requests /\ UserChange
  BY UserStep DEF AInv, Locking
<1>1. \A u, s : Dated(u, s) => Dated(u, s)'
  BY <1>a, DatesAge
<1>b. \A u : Older(u) => Older(u)'
  BY <1>a, OlderStays
<1>2. ASSUME NEW k \in Clients, session'[k] = session[k] PROVE SessionOf(k)'
  <2>1. SUFFICES ASSUME session[k] # None PROVE SessionOf(k)'
    BY <1>2 DEF SessionOf
  <2>2. /\ Older(Recorded(session[k])) /\ Dated(AtLogin(session[k]), session[k].under)
        /\ session[k] = [version |-> session[k].version, password |-> session[k].password,
                         entered |-> session[k].entered, under |-> session[k].under]
    BY <2>1, <1>a DEF Sessions, SessionOf
  <2>3. PICK s : s = session[k]
    OBVIOUS
  <2>4. Older(Recorded(s))' /\ Dated(AtLogin(s), s.under)'
    BY <1>1, <1>b, <2>2, <2>3 DEF Recorded, AtLogin
  <2>5. QED
    BY <1>2, <2>2, <2>3, <2>4 DEF SessionOf
<1>3. ASSUME NEW k \in Clients, RecordSession(k) PROVE SessionOf(k)'
  <2>1. Dated(request[k].user, request[k].under)
    BY <1>3, <1>a DEF RecordSession, Respond, Pass, Requests, RequestOf
  <2>2. PICK u, s : u = request[k].user /\ s = request[k].under
    OBVIOUS
  <2>3. Dated(u, s)' /\ Older(u)' /\ u = [version |-> u.version, password |-> u.password]
    BY <1>1, <2>1, <2>2 DEF Dated, Older, Users
  <2>4. session'[k] = [version |-> u.version, password |-> u.password,
                       entered |-> u.password, under |-> s]
    BY <1>3, <1>a, <2>2 DEF RecordSession, Sessions
  <2>5. Recorded(session'[k]) = u /\ AtLogin(session'[k]) = u /\ session'[k].under = s
    BY <2>3, <2>4 DEF Recorded, AtLogin
  <2>6. QED
    BY <2>3, <2>4, <2>5 DEF SessionOf
<1>4. ASSUME NEW k \in Clients, LogOut(k) PROVE SessionOf(k)'
  BY <1>4, <1>a DEF LogOut, Sessions, SessionOf
<1>5. ASSUME NEW k \in Clients, ChangePassword(k) PROVE SessionOf(k)'
  <2>1. PICK s : s = session[k]
    OBVIOUS
  <2>2. /\ at[k] = "passed" /\ s # None /\ s.version = request[k].user.version
        /\ Dated(AtLogin(s), s.under) /\ Older(Recorded(s))
        /\ s = [version |-> s.version, password |-> s.password, entered |-> s.entered, under |-> s.under]
    BY <1>5, <1>a, <2>1 DEF ChangePassword, Respond, Pass, Requests, RequestOf, Sessions, SessionOf
  <2>3. session'[k] = [version |-> s.version, password |-> user.password + 1,
                       entered |-> s.entered, under |-> s.under]
    BY <1>5, <1>a, <2>1, <2>2 DEF ChangePassword, Sessions
  <2>4. user' = Recorded(session'[k])
    BY <1>5, <2>2, <2>3 DEF ChangePassword, Recorded
  <2>5. user' \in Users
    BY LockingStep DEF AInv, Locking
  <2>6. Older(Recorded(session[k]))'
    BY <2>4, <2>5 DEF Older, Users
  <2>7. AtLogin(session'[k]) = AtLogin(s) /\ session'[k].under = s.under
    BY <2>3 DEF AtLogin
  <2>8. Dated(AtLogin(s), s.under)'
    BY <1>1, <2>2 DEF AtLogin
  <2>9. QED
    BY <2>3, <2>6, <2>7, <2>8 DEF SessionOf
<1>s. session' = session \/ \E l \in Clients : RecordSession(l) \/ LogOut(l) \/ ChangePassword(l)
  <2>1. ASSUME NEW a \in Admins, Fetch(a) \/ Operate(a) \/ Fail(a) PROVE session' = session
    BY <2>1 DEF Operate, Fetch, NoChange, MissGrant, InsertGrant, LoseInsert, DeleteGrant,
       UpdateActive, UpdateRole, CheckRole, Bump, Commit, Fail, database
  <2>2. ASSUME NEW l \in Clients, Serve(l), ~(RecordSession(l) \/ LogOut(l) \/ ChangePassword(l))
        PROVE  session' = session
    BY <2>2 DEF Serve, Authenticate, Admit, DenyForeign, QueryMemberships, QueryGrants, database
  <2>3. QED
    BY <2>1, <2>2 DEF Next, vars, database
<1>o. ASSUME NEW l \in Clients, RecordSession(l) \/ LogOut(l) \/ ChangePassword(l)
      PROVE  \E s : session' = [session EXCEPT ![l] = s]
  BY <1>o DEF RecordSession, LogOut, ChangePassword
<1>6. \A k \in Clients : SessionOf(k)'
  <2> TAKE k \in Clients
  <2>1. RecordSession(k) \/ LogOut(k) \/ ChangePassword(k) \/ session'[k] = session[k]
    BY <1>a, <1>s, <1>o DEF Sessions
  <2>2. QED
    BY <1>2, <1>3, <1>4, <1>5, <2>1
<1>7. session' = [k \in Clients |-> session'[k]]
  BY <1>a, <1>s, <1>o DEF Sessions
<1>8. QED
  BY <1>6, <1>7 DEF Sessions

(* A request stays right while nothing but the committed rows changes; what   *)
(* the decision's first query found stays right while the user's row does.    *)
LEMMA RequestKept ==
  ASSUME AInv, [Next]_vars, NEW k \in Clients,
         at'[k] = at[k], request'[k] = request[k],
         at[k] \in {"passed", "prefetch"} => session'[k] = session[k]
  PROVE  RequestOf(k)'
<1>a. user \in Users /\ RequestOf(k) /\ UserChange
  BY UserStep DEF AInv, Locking, Requests
<1>1. at[k] # "idle" => Dated(request[k].user, request[k].under)'
  BY <1>a, DatesAge DEF RequestOf
<1>2. ASSUME at[k] = "prefetch", request[k].user = user'
      PROVE  request[k].found = ActiveMemberships(scope)'
  <2>1. Dated(request[k].user, request[k].under)
    BY <1>2, <1>a DEF RequestOf
  <2>2. UNCHANGED <<scope, user>>
    BY <1>a, <1>2, <2>1 DEF Dated, Older, Users, UserChange
  <2>3. QED
    BY <1>2, <1>a, <2>2 DEF RequestOf, ActiveMemberships
<1>3. QED
  BY <1>1, <1>2, <1>a DEF RequestOf

LEMMA RequestsStep == AInv /\ [Next]_vars => Requests'
<1> SUFFICES ASSUME AInv, [Next]_vars PROVE Requests'
  OBVIOUS
<1>a. user \in Users /\ Requests /\ Sessions
  BY DEF AInv, Locking
<1>b. ASSUME NEW k \in Clients, at'[k] = at[k], request'[k] = request[k],
             at[k] \in {"passed", "prefetch"} => session'[k] = session[k]
      PROVE  RequestOf(k)'
  BY <1>b, RequestKept
<1>3. CASE UNCHANGED <<at, request>>
  <2>1. /\ decision' = decision
        /\ \A k \in Clients : at[k] \in {"passed", "prefetch"} => session'[k] = session[k]
    BY <1>3, <1>a DEF Next, vars, client, database, Operate, Fetch, NoChange, MissGrant, InsertGrant,
       LoseInsert, DeleteGrant, UpdateActive, UpdateRole, CheckRole, Bump, Commit, Fail, Serve, Authenticate,
       RecordSession, Admit, LogOut, DenyForeign, QueryMemberships, QueryGrants, ChangePassword,
       Respond, Pass, Requests, Sessions
  <2>2. QED
    BY <1>3, <1>a, <1>b, <2>1 DEF Requests
<1>4. ASSUME NEW k \in Clients, Authenticate(k) \/ Admit(k) PROVE Requests'
  <2>1. /\ UNCHANGED <<scope, user, session>>
        /\ at' = [at EXCEPT ![k] = at'[k]] /\ at'[k] \in {"login", "passed"}
        /\ at'[k] = "passed" => session[k] # None /\ session[k].version = user.version
        /\ \E u : request' = [request EXCEPT
             ![k] = [user |-> user, under |-> scope, unit |-> u, found |-> {}]]
    BY <1>4, <1>a DEF Authenticate, Admit, Pass, Load, database, Requests, Accepted
  <2>2. Dated(user, scope)'
    BY <2>1, <1>a DEF Dated, Older, Users
  <2>3. PICK u : request' = [request EXCEPT
          ![k] = [user |-> user, under |-> scope, unit |-> u, found |-> {}]]
    BY <2>1
  <2>4. /\ request'[k] = [user |-> user, under |-> scope, unit |-> u, found |-> {}]
        /\ \A j \in Clients \ {k} : request'[j] = request[j] /\ at'[j] = at[j]
        /\ at' = [j \in Clients |-> at'[j]] /\ request' = [j \in Clients |-> request'[j]]
    BY <2>1, <2>3, <1>a DEF Requests
  <2>5. decision' = [j \in Clients |-> decision'[j]]
    BY <1>4, <1>a DEF Requests, Authenticate, Admit, Load
  <2>6. RequestOf(k)'
    <3>1. request'[k].user = user' /\ request'[k].under = scope' /\ at'[k] # "prefetch"
      BY <2>1, <2>4
    <3>2. QED
      BY <3>1, <2>1, <2>2, <2>4 DEF RequestOf
  <2>7. \A j \in Clients \ {k} : RequestOf(j)'
    BY <1>b, <2>1, <2>4
  <2>8. QED
    BY <1>a, <2>4, <2>5, <2>6, <2>7 DEF Requests
<1>5. ASSUME NEW k \in Clients,
             RecordSession(k) \/ DenyForeign(k) \/ QueryGrants(k) \/ ChangePassword(k)
      PROVE  Requests'
  <2>1. /\ at' = [at EXCEPT ![k] = "idle"] /\ request' = [request EXCEPT ![k] = None]
        /\ decision' = [j \in Clients |-> decision'[j]]
        /\ \A j \in Clients \ {k} : session'[j] = session[j]
    BY <1>5, <1>a DEF RecordSession, DenyForeign, QueryGrants, ChangePassword, Respond, Pass,
       Requests, Sessions, database
  <2>2. /\ at'[k] = "idle"
        /\ \A j \in Clients \ {k} : request'[j] = request[j] /\ at'[j] = at[j]
        /\ at' = [j \in Clients |-> at'[j]] /\ request' = [j \in Clients |-> request'[j]]
    BY <2>1, <1>a DEF Requests
  <2>3. \A j \in Clients : RequestOf(j)'
    BY <1>b, <2>1, <2>2 DEF RequestOf
  <2>4. QED
    BY <1>a, <2>1, <2>2, <2>3 DEF Requests
<1>6. ASSUME NEW k \in Clients, QueryMemberships(k) PROVE Requests'
  <2>1. /\ at[k] = "passed" /\ at' = [at EXCEPT ![k] = "prefetch"]
        /\ request' = [request EXCEPT ![k].found = ActiveMemberships(scope)]
        /\ UNCHANGED <<scope, user, session, decision>>
    BY <1>6 DEF QueryMemberships, Pass, database
  <2>2. /\ request'[k] = [user |-> request[k].user, under |-> request[k].under,
                          unit |-> request[k].unit, found |-> ActiveMemberships(scope)]
        /\ \A j \in Clients \ {k} : request'[j] = request[j] /\ at'[j] = at[j]
        /\ at' = [j \in Clients |-> at'[j]] /\ request' = [j \in Clients |-> request'[j]]
    <3>1. request[k] = [user |-> request[k].user, under |-> request[k].under,
                        unit |-> request[k].unit, found |-> request[k].found]
      BY <2>1, <1>a DEF Requests, RequestOf
    <3>2. request'[k] = [request[k] EXCEPT !.found = ActiveMemberships(scope)]
      BY <2>1, <1>a DEF Requests
    <3>3. QED
      BY <3>1, <3>2, <2>1, <1>a DEF Requests
  <2>3. /\ Dated(request[k].user, request[k].under)
        /\ session[k] # None /\ session[k].version = request[k].user.version
    BY <2>1, <1>a DEF Requests, RequestOf
  <2>4. RequestOf(k)'
    <3>1. /\ request'[k].user = request[k].user /\ request'[k].under = request[k].under
          /\ request'[k].found = ActiveMemberships(scope)'
      BY <2>1, <2>2 DEF ActiveMemberships
    <3>2. Dated(request[k].user, request[k].under)'
      BY <3>1, <2>1, <2>3 DEF Dated, Older
    <3>3. request'[k] = [user |-> request'[k].user, under |-> request'[k].under,
                         unit |-> request'[k].unit, found |-> request'[k].found]
      BY <2>2
    <3>4. QED
      BY <3>1, <3>2, <3>3, <2>1, <2>3 DEF RequestOf
  <2>5. QED
    BY <1>a, <1>b, <2>1, <2>2, <2>4 DEF Requests
<1>7. QED
  <2>1. (\A k \in Clients : ~Authenticate(k) /\ ~Admit(k) /\ ~RecordSession(k) /\ ~DenyForeign(k)
           /\ ~QueryGrants(k) /\ ~QueryMemberships(k) /\ ~ChangePassword(k)) => UNCHANGED <<at, request>>
    BY DEF Next, vars, client, Operate, Fetch, NoChange, MissGrant, InsertGrant, LoseInsert,
     DeleteGrant, UpdateActive, UpdateRole, CheckRole, Bump, Commit, Fail, Serve, LogOut
  <2>2. QED
    BY <1>3, <1>4, <1>5, <1>6, <2>1

LEMMA AInvStep == AInv /\ [Next]_vars => AInv'
  BY LockingStep, SessionsStep, RequestsStep DEF AInv

LEMMA AInvAlways == Spec => []AInv
  BY AInvInit, AInvStep, PTL DEF Spec

(* An accepted session whose login used the current password was recorded under *)
(* the scope that is committed.                                                 *)
THEOREM SessionsCorrect == Spec => []LoginsMatchScope
<1>1. AInv => LoginsMatchScope
  <2> SUFFICES ASSUME AInv, NEW k \in Clients, session[k] # None, Accepted(session[k], user),
                      session[k].entered = user.password
               PROVE  session[k].under = scope
    BY DEF LoginsMatchScope
  <2>1. Dated(AtLogin(session[k]), session[k].under) /\ user \in Users
    BY DEF AInv, Locking, Sessions, SessionOf
  <2>2. AtLogin(session[k]) = user
    BY <2>1 DEF AtLogin, Accepted, Users
  <2>3. QED
    BY <2>1, <2>2 DEF Dated
<1>2. QED
  BY <1>1, AInvAlways, PTL

(* A session made stale stays stale, whoever changes the password. *)
THEOREM StaleForGood == Spec => StaleStaysStale
<1>1. AInv /\ [Next]_vars =>
        [\A k \in Clients :
           session[k] # None /\ ~Accepted(session[k], user) /\ session'[k] = session[k]
             => ~Accepted(session[k], user')]_vars
  <2> SUFFICES ASSUME AInv, [Next]_vars, NEW k \in Clients,
                      session[k] # None, ~Accepted(session[k], user)
               PROVE  ~Accepted(session[k], user')
    OBVIOUS
  <2>1. Older(Recorded(session[k])) /\ user \in Users /\ UserChange
    BY UserStep DEF AInv, Locking, Sessions, SessionOf
  <2>2. /\ session[k].version \in Nat /\ session[k].password \in Nat
        /\ \/ session[k].password < user.password
           \/ session[k].password = user.password /\ session[k].version <= user.version
    BY <2>1 DEF Older, Recorded, Users
  <2>3. QED
    BY <2>1, <2>2 DEF Accepted, Users, UserChange
<1>2. QED
  BY <1>1, AInvAlways, PTL DEF Spec, StaleStaysStale

(* While the version stands, the two queries of a decision agree. *)
THEOREM DecisionsExact == Spec => DecisionIsExact
<1>1. AInv /\ [Next]_vars =>
        [\A k \in Clients : at[k] = "prefetch" /\ at'[k] = "idle" /\ request[k].user = user
           => decision'[k] = DecisionIn(scope, request[k].unit)]_vars
  <2> SUFFICES ASSUME AInv, [Next]_vars, NEW k \in Clients, at[k] = "prefetch", at'[k] = "idle",
                      request[k].user = user
               PROVE  decision'[k] = DecisionIn(scope, request[k].unit)
    OBVIOUS
  <2>1. request[k].found = ActiveMemberships(scope) /\ Requests
    BY DEF AInv, Requests, RequestOf
  <2>2. \A j \in Clients : Serve(j) => QueryGrants(k)
    BY <2>1 DEF Requests, client, Serve, Authenticate, RecordSession, Admit, LogOut, DenyForeign,
       QueryMemberships, QueryGrants, ChangePassword, Respond, Pass
  <2>3. \E j \in Clients : Serve(j)
    BY DEF Next, vars, client, Operate, Fetch, NoChange, MissGrant, InsertGrant, LoseInsert,
       DeleteGrant, UpdateActive, UpdateRole, CheckRole, Bump, Commit, Fail
  <2>4. QueryGrants(k)
    BY <2>2, <2>3
  <2>5. QED
    BY <2>1, <2>4 DEF QueryGrants, DecisionIn, Requests
<1>2. QED
  BY <1>1, AInvAlways, PTL DEF Spec, DecisionIsExact

-------------------------------------------------------------------------------
(* Types and claims *)

(* What TypeOK leaves open: the functions' domains, and what a call or a *)
(* request has found out by the place it has come to.                    *)
Shapes ==
    /\ session = [k \in Clients |-> session[k]]
    /\ call = [a \in Admins |-> call[a]]
    /\ object = [a \in Admins |-> object[a]]
    /\ draft = [a \in Admins |-> draft[a]]
    /\ request = [k \in Clients |-> request[k]]
    /\ decision = [k \in Clients |-> decision[k]]
    /\ \A k \in Clients : at[k] # "idle" =>
         request[k] = [user |-> request[k].user, under |-> request[k].under,
                       unit |-> request[k].unit, found |-> request[k].found]
    /\ \A k \in Clients : at[k] \in {"passed", "prefetch"} => session[k] # None
    /\ \A a \in Admins : draft[a] \in Nat \cup {None}
    /\ \A a \in Admins : pc[a] = "bumped" => draft[a] \in Nat
    /\ \A a \in Admins : pc[a] \in {"insert", "refetch"} => call[a].op = "grant"
    /\ \A a \in Admins : pc[a] = "checking" => call[a].op = "change_role"
    /\ \A a \in Admins : pc[a] \in {"insert", "refetch", "written", "bumped"} /\ call[a].op = "grant"
         => call[a].unit \in OwnUnits

Open(a) == pc[a] \in {"written", "bumped"}

(* What an open transaction may rely on until it commits: a grant it inserts *)
(* is not there and one it deletes is, and a role it takes is nobody's.      *)
Claims ==
    /\ \A a, b \in Admins : a # b => held[a] \cap held[b] = {}
    /\ \A a \in Admins : Open(a) /\ call[a].op = "grant" =>
         /\ GrantRow(call[a].membership, call[a].unit) \in held[a]
         /\ <<call[a].membership, call[a].unit>> \notin scope.grants
    /\ \A a \in Admins : Open(a) /\ call[a].op = "revoke" =>
         /\ GrantRow(call[a].membership, call[a].unit) \in held[a]
         /\ <<call[a].membership, call[a].unit>> \in scope.grants
    /\ \A a \in Admins : Open(a) /\ call[a].op = "change_role" =>
         \A n \in Memberships \ {call[a].membership} : scope.role[n] # call[a].value
    /\ \A a, b \in Admins : a # b /\ Open(a) /\ Open(b)
         /\ call[a].op = "change_role" /\ call[b].op = "change_role" => call[a].value # call[b].value

TInv == TypeOK /\ Shapes /\ Claims

USE RolesAssumption, UnitsAssumption, InitialAssumption, ClientsAssumption, PasswordAssumption, NoneAssumption

LEMMA TInit == Init => TInv
<1> SUFFICES ASSUME Init PROVE TInv
  OBVIOUS
<1>1. TypeOK
  BY DEF Init, TypeOK, Users, Steps
<1>2. Shapes /\ Claims
  BY DEF Init, Shapes, Claims, Open
<1>3. QED
  BY <1>1, <1>2 DEF TInv

(* The fields of an operation. *)
LEMMA OperationFields ==
  ASSUME NEW c \in Operations
  PROVE  /\ c.membership \in Memberships
         /\ c.op \in {"grant", "revoke", "set_active", "change_role"}
         /\ c.op \in {"grant", "revoke"} => c.unit \in Units
         /\ c.op = "set_active" => c.value \in BOOLEAN
         /\ c.op = "change_role" => c.value \in Roles
  BY DEF Operations

LEMMA RowsDiffer ==
  ASSUME NEW m, NEW u, NEW n, NEW v, GrantRow(m, u) = GrantRow(n, v)
  PROVE  m = n /\ u = v
  BY DEF GrantRow

(* The steps of one call that leave the committed rows alone. *)
CallStep(a) ==
    /\ UNCHANGED <<database, client>>
    /\ pc' = [pc EXCEPT ![a] = pc'[a]] /\ pc'[a] \in Steps
    /\ call' = [call EXCEPT ![a] = call'[a]]
    /\ object' = [object EXCEPT ![a] = object'[a]]
    /\ held' = [held EXCEPT ![a] = held'[a]]
    /\ draft' = [draft EXCEPT ![a] = draft'[a]]

(* Such a step keeps TInv if what the call itself says stays so. *)
LEMMA CallKeeps ==
  ASSUME TInv, NEW a \in Admins, CallStep(a),
         held'[a] \subseteq Rows, \A b \in Admins \ {a} : held'[a] \cap held[b] = {},
         pc'[a] \notin {"new", "done", "failed"} =>
           /\ call'[a] \in Operations
           /\ object'[a] \in [active : BOOLEAN, role : Roles, user : Users],
         draft'[a] \in Nat \cup {None}, pc'[a] = "bumped" => draft'[a] \in Nat,
         pc'[a] \in {"insert", "refetch"} => call'[a].op = "grant",
         pc'[a] = "checking" => call'[a].op = "change_role",
         pc'[a] \in {"insert", "refetch", "written", "bumped"} /\ call'[a].op = "grant"
           => call'[a].unit \in OwnUnits,
         Open(a)' => \/ Open(a) /\ call'[a] = call[a] /\ held[a] \subseteq held'[a]
                     \/ /\ call'[a].op \in {"grant", "revoke"} =>
                             GrantRow(call'[a].membership, call'[a].unit) \in held'[a]
                        /\ call'[a].op = "grant" =>
                             <<call'[a].membership, call'[a].unit>> \notin scope.grants
                        /\ call'[a].op = "revoke" =>
                             <<call'[a].membership, call'[a].unit>> \in scope.grants
                        /\ call'[a].op = "change_role" =>
                             /\ \A n \in Memberships \ {call'[a].membership} :
                                  scope.role[n] # call'[a].value
                             /\ \A b \in Admins \ {a} : Open(b) /\ call[b].op = "change_role"
                                  => call'[a].value # call[b].value
  PROVE  TInv'
<1> USE DEF TInv
<1>1. /\ pc' = [b \in Admins |-> pc'[b]] /\ call' = [b \in Admins |-> call'[b]]
      /\ object' = [b \in Admins |-> object'[b]] /\ held' = [b \in Admins |-> held'[b]]
      /\ draft' = [b \in Admins |-> draft'[b]]
      /\ \A b \in Admins \ {a} : /\ pc'[b] = pc[b] /\ call'[b] = call[b] /\ object'[b] = object[b]
                                 /\ held'[b] = held[b] /\ draft'[b] = draft[b]
  BY DEF CallStep, TypeOK, Shapes
<1>2. UNCHANGED <<scope, user, session, at, request, decision>>
  BY DEF CallStep, database, client
<1>3. TypeOK'
  <2>1. pc' \in [Admins -> Steps] /\ held' \in [Admins -> SUBSET Rows]
    BY <1>1 DEF CallStep, TypeOK
  <2>2. \A b \in Admins : pc'[b] \notin {"new", "done", "failed"} =>
          /\ call'[b] \in Operations
          /\ object'[b] \in [active : BOOLEAN, role : Roles, user : Users]
          /\ draft'[b] \in Nat \cup {None}
    BY <1>1 DEF TypeOK
  <2>3. QED
    BY <1>2, <2>1, <2>2 DEF TypeOK
<1>4. Shapes'
  BY <1>1, <1>2 DEF Shapes
<1>5. Claims'
  <2>1. \A b, c \in Admins : b # c => held'[b] \cap held'[c] = {}
    BY <1>1 DEF Claims
  <2>2. \A b \in Admins \ {a} : Open(b)' <=> Open(b)
    BY <1>1 DEF Open
  <2>3. ASSUME NEW b \in Admins, Open(b)', call'[b].op \in {"grant", "revoke"}
        PROVE  /\ GrantRow(call'[b].membership, call'[b].unit) \in held'[b]
               /\ call'[b].op = "grant" => <<call'[b].membership, call'[b].unit>> \notin scope'.grants
               /\ call'[b].op = "revoke" => <<call'[b].membership, call'[b].unit>> \in scope'.grants
    <3>1. CASE b = a
      BY <3>1, <1>2, <2>3 DEF Claims
    <3>2. CASE b # a
      BY <3>2, <1>1, <1>2, <2>2, <2>3 DEF Claims
    <3>3. QED
      BY <3>1, <3>2
  <2>4. ASSUME NEW b \in Admins, Open(b)', call'[b].op = "change_role",
               NEW n \in Memberships \ {call'[b].membership}
        PROVE  scope'.role[n] # call'[b].value
    <3>1. CASE b = a
      BY <3>1, <1>2, <2>4 DEF Claims
    <3>2. CASE b # a
      BY <3>2, <1>1, <1>2, <2>2, <2>4 DEF Claims
    <3>3. QED
      BY <3>1, <3>2
  <2>5. ASSUME NEW b \in Admins, NEW c \in Admins, b # c, Open(b)', Open(c)',
               call'[b].op = "change_role", call'[c].op = "change_role"
        PROVE  call'[b].value # call'[c].value
    <3>1. ASSUME NEW d \in Admins \ {a}, Open(a)', Open(d)',
                 call'[a].op = "change_role", call'[d].op = "change_role"
          PROVE  call'[a].value # call'[d].value
      BY <3>1, <1>1, <2>2 DEF Claims
    <3>2. CASE b # a /\ c # a
      BY <3>2, <1>1, <2>2, <2>5 DEF Claims
    <3>3. QED
      BY <3>1, <3>2, <2>5
  <2>6. QED
    BY <2>1, <2>3, <2>4, <2>5 DEF Claims
<1>6. QED
  BY <1>3, <1>4, <1>5

LEMMA TFetch == ASSUME TInv, NEW a \in Admins, Fetch(a) PROVE TInv'
<1>1. PICK c \in Operations :
        /\ call' = [call EXCEPT ![a] = c]
        /\ object' = [object EXCEPT ![a] =
             [active |-> scope.active[c.membership], role |-> scope.role[c.membership],
              user |-> user]]
  BY DEF Fetch
<1>2. /\ pc[a] = "new" /\ pc' = [pc EXCEPT ![a] = "called"] /\ UNCHANGED <<database, held, draft, client>>
  BY DEF Fetch, Goto
<1>3. /\ call'[a] = c /\ pc'[a] = "called" /\ held'[a] = held[a] /\ draft'[a] = draft[a]
      /\ object'[a] = [active |-> scope.active[c.membership], role |-> scope.role[c.membership],
                       user |-> user]
  BY <1>1, <1>2 DEF TInv, TypeOK, Shapes
<1>4. CallStep(a)
  BY <1>1, <1>2, <1>3 DEF CallStep, TInv, TypeOK, Shapes, Steps
<1>5. object'[a] \in [active : BOOLEAN, role : Roles, user : Users]
  BY <1>3, OperationFields DEF TInv, TypeOK, Scopes
<1>6. held'[a] \subseteq Rows /\ \A b \in Admins \ {a} : held'[a] \cap held[b] = {}
  BY <1>3 DEF TInv, TypeOK, Claims
<1>7. QED
  BY <1>3, <1>4, <1>5, <1>6, CallKeeps DEF TInv, Shapes, Open

LEMMA TEnd ==
  ASSUME TInv, NEW a \in Admins, NEW how \in {"done", "failed"}, End(a, how),
         UNCHANGED <<database, client>>
  PROVE  TInv'
<1>1. /\ pc'[a] = how /\ held'[a] = {} /\ call'[a] = None /\ draft'[a] = None
  BY DEF End, ReleaseRows, TInv, TypeOK, Shapes
<1>2. CallStep(a)
  BY <1>1 DEF End, ReleaseRows, CallStep, TInv, TypeOK, Shapes, Steps
<1>3. QED
  BY <1>1, <1>2, CallKeeps DEF Open

(* A step that only moves on, without taking a row. *)
LEMMA TMove ==
  ASSUME TInv, NEW a \in Admins, NEW to \in {"insert", "refetch"},
         pc[a] \in {"called", "insert"}, call[a].op = "grant", call[a].unit \in OwnUnits,
         pc' = [pc EXCEPT ![a] = to], UNCHANGED <<database, call, object, held, draft, client>>
  PROVE  TInv'
<1>1. pc'[a] = to /\ call[a] \in Operations
      /\ object[a] \in [active : BOOLEAN, role : Roles, user : Users]
  BY DEF TInv, TypeOK
<1>2. CallStep(a)
  BY <1>1 DEF CallStep, TInv, TypeOK, Shapes, Steps
<1>3. held'[a] \subseteq Rows /\ \A b \in Admins \ {a} : held'[a] \cap held[b] = {}
  BY DEF TInv, TypeOK, Claims
<1>4. QED
  BY <1>1, <1>2, <1>3, CallKeeps DEF TInv, Shapes, Open

(* The first write of a transaction. *)
LEMMA TWrite ==
  ASSUME TInv, NEW a \in Admins, pc[a] \in {"called", "insert"}, NEW row \in Rows, Write(a, row),
         object'[a] \in [active : BOOLEAN, role : Roles, user : Users],
         object' = [object EXCEPT ![a] = object'[a]],
         UNCHANGED <<database, call, draft, client>>,
         call[a].op = "grant" => /\ call[a].unit \in OwnUnits
                                 /\ row = GrantRow(call[a].membership, call[a].unit)
                                 /\ <<call[a].membership, call[a].unit>> \notin scope.grants,
         call[a].op = "revoke" => /\ row = GrantRow(call[a].membership, call[a].unit)
                                  /\ <<call[a].membership, call[a].unit>> \in scope.grants,
         call[a].op = "change_role" =>
           /\ \A n \in Memberships \ {call[a].membership} : scope.role[n] # call[a].value
           /\ \A b \in Admins \ {a} : Open(b) /\ call[b].op = "change_role"
                => call[a].value # call[b].value
  PROVE  TInv'
<1>1. pc'[a] = "written" /\ call[a] \in Operations /\ held'[a] = held[a] \cup {row}
  BY DEF TInv, TypeOK, Write, Lock
<1>2. CallStep(a)
  BY <1>1 DEF Write, Lock, CallStep, TInv, TypeOK, Shapes, Steps
<1>3. held'[a] \subseteq Rows /\ \A b \in Admins \ {a} : held'[a] \cap held[b] = {}
  BY <1>1 DEF Write, Lock, Free, TInv, TypeOK, Claims
<1>4. call'[a] = call[a] /\ draft'[a] = draft[a]
  OBVIOUS
<1>5. QED
  BY <1>1, <1>2, <1>3, <1>4, CallKeeps DEF TInv, Shapes

LEMMA TOperate ==
  ASSUME TInv, NEW a \in Admins, Operate(a), ~Commit(a)
  PROVE  TInv'
<1>1. CASE NoChange(a)
  BY <1>1, TEnd DEF NoChange
<1>2. CASE MissGrant(a)
  BY <1>2, TMove DEF MissGrant, Goto
<1>3. CASE InsertGrant(a)
  <2>1. pc[a] = "insert" /\ call[a] \in Operations /\ call[a].op = "grant" /\ call[a].unit \in OwnUnits
        /\ object[a] \in [active : BOOLEAN, role : Roles, user : Users]
    BY <1>3 DEF InsertGrant, TInv, TypeOK, Shapes
  <2>2. GrantRow(call[a].membership, call[a].unit) \in Rows
    BY <2>1, OperationFields DEF Rows
  <2>3. object' = [object EXCEPT ![a] = object'[a]] /\ object' = object
    BY <1>3 DEF InsertGrant, TInv, Shapes
  <2>4. QED
    BY <1>3, <2>1, <2>2, <2>3, TWrite DEF InsertGrant
<1>4. CASE LoseInsert(a)
  BY <1>4, TMove DEF LoseInsert, Goto, TInv, Shapes
<1>5. CASE DeleteGrant(a)
  <2>1. pc[a] = "called" /\ call[a] \in Operations /\ call[a].op = "revoke"
        /\ object[a] \in [active : BOOLEAN, role : Roles, user : Users]
    BY <1>5 DEF DeleteGrant, TInv, TypeOK
  <2>2. GrantRow(call[a].membership, call[a].unit) \in Rows
    BY <2>1, OperationFields DEF Rows
  <2>3. object' = [object EXCEPT ![a] = object'[a]] /\ object' = object
    BY <1>5 DEF DeleteGrant, TInv, Shapes
  <2>4. QED
    BY <1>5, <2>1, <2>2, <2>3, TWrite DEF DeleteGrant
<1>6. CASE UpdateActive(a)
  <2>1. pc[a] = "called" /\ call[a] \in Operations /\ call[a].op = "set_active"
        /\ object[a] \in [active : BOOLEAN, role : Roles, user : Users]
    BY <1>6 DEF UpdateActive, TInv, TypeOK
  <2>2. MembershipRow(call[a].membership) \in Rows /\ call[a].value \in BOOLEAN
    BY <2>1, OperationFields DEF Rows
  <2>3. object' = [object EXCEPT ![a].active = call[a].value]
    BY <1>6 DEF UpdateActive
  <2>4. object'[a] = [object[a] EXCEPT !.active = call[a].value]
        /\ object' = [object EXCEPT ![a] = object'[a]]
    BY <2>3 DEF TInv, Shapes
  <2>5. object'[a] \in [active : BOOLEAN, role : Roles, user : Users]
    BY <2>1, <2>2, <2>4
  <2>6. QED
    BY <1>6, <2>1, <2>2, <2>4, <2>5, TWrite DEF UpdateActive
<1>7. CASE UpdateRole(a)
  <2>1. pc[a] = "called" /\ call[a] \in Operations /\ call[a].op = "change_role"
        /\ object[a] \in [active : BOOLEAN, role : Roles, user : Users]
    BY <1>7 DEF UpdateRole, Goto, TInv, TypeOK
  <2>2. MembershipRow(call[a].membership) \in Rows /\ call[a].value \in Roles
    BY <2>1, OperationFields DEF Rows
  <2>3. object' = [object EXCEPT ![a].role = call[a].value]
    BY <1>7 DEF UpdateRole
  <2>4. object'[a] = [object[a] EXCEPT !.role = call[a].value]
        /\ object' = [object EXCEPT ![a] = object'[a]]
    BY <2>3 DEF TInv, Shapes
  <2>5. object'[a] \in [active : BOOLEAN, role : Roles, user : Users]
    BY <2>1, <2>2, <2>4
  <2>6. held'[a] = held[a] \cup {MembershipRow(call[a].membership)}
    BY <1>7 DEF UpdateRole, Lock, TInv, TypeOK
  <2>7. held'[a] \subseteq Rows /\ \A b \in Admins \ {a} : held'[a] \cap held[b] = {}
    BY <1>7, <2>2, <2>6 DEF UpdateRole, Lock, Free, TInv, TypeOK, Claims
  <2>8. pc'[a] = "checking" /\ call'[a] = call[a] /\ draft'[a] = draft[a]
    BY <1>7 DEF UpdateRole, Goto, TInv, TypeOK
  <2>9. CallStep(a)
    BY <1>7, <2>4, <2>8 DEF UpdateRole, Goto, Lock, CallStep, TInv, TypeOK, Shapes, Steps
  <2>10. QED
    BY <2>1, <2>5, <2>7, <2>8, <2>9, CallKeeps DEF Open, TInv, Shapes
<1>10. CASE CheckRole(a)
  <2>1. pc[a] = "checking" /\ call[a] \in Operations /\ call[a].op = "change_role"
        /\ object[a] \in [active : BOOLEAN, role : Roles, user : Users]
    BY <1>10 DEF CheckRole, Goto, TInv, TypeOK, Shapes
  <2>2. /\ pc'[a] = "written" /\ call' = call /\ draft' = draft /\ object' = object /\ held' = held
    BY <1>10 DEF CheckRole, Goto, TInv, TypeOK
  <2>3. CallStep(a)
    BY <1>10, <2>2 DEF CheckRole, Goto, CallStep, TInv, TypeOK, Shapes, Steps
  <2>4. held'[a] \subseteq Rows /\ \A b \in Admins \ {a} : held'[a] \cap held[b] = {}
    BY <2>2 DEF TInv, TypeOK, Claims
  <2>5. \A n \in Memberships \ {call[a].membership} : scope.role[n] # call[a].value
    BY <1>10 DEF CheckRole, RoleTaken
  <2>6. \A b \in Admins \ {a} : Open(b) /\ call[b].op = "change_role" => call[a].value # call[b].value
    BY <1>10 DEF CheckRole, Rivals, RoleChanges, Open
  <2>7. QED
    BY <2>1, <2>2, <2>3, <2>4, <2>5, <2>6, CallKeeps DEF TInv, Shapes
<1>8. CASE Bump(a)
  <2>1. /\ pc[a] = "written" /\ call[a] \in Operations /\ Free(UserRow)
        /\ object[a] \in [active : BOOLEAN, role : Roles, user : Users]
        /\ user.version + 1 \in Nat
    BY <1>8 DEF Bump, Goto, TInv, TypeOK, Users
  <2>2. /\ pc' = [pc EXCEPT ![a] = "bumped"] /\ held' = [held EXCEPT ![a] = @ \cup {UserRow}]
        /\ draft' = [draft EXCEPT ![a] = user.version + 1]
        /\ object' = [object EXCEPT ![a].user.version = user.version + 1]
        /\ UNCHANGED <<database, call, client>>
    BY <1>8 DEF Bump, Goto, NextVersion
  <2>3. /\ pc'[a] = "bumped" /\ held'[a] = held[a] \cup {UserRow} /\ draft'[a] = user.version + 1
        /\ object'[a] = [object[a] EXCEPT !.user.version = user.version + 1]
        /\ call'[a] = call[a]
    BY <2>2 DEF TInv, TypeOK, Shapes
  <2>4. object'[a] \in [active : BOOLEAN, role : Roles, user : Users]
    BY <2>1, <2>3 DEF Users
  <2>5. CallStep(a)
    BY <2>2, <2>3 DEF CallStep, TInv, TypeOK, Shapes, Steps
  <2>6. held'[a] \subseteq Rows /\ \A b \in Admins \ {a} : held'[a] \cap held[b] = {}
    BY <2>1, <2>3 DEF Free, TInv, TypeOK, Claims, Rows
  <2>7. call[a].op = "grant" => call[a].unit \in OwnUnits
    BY <2>1 DEF TInv, Shapes
  <2>8. QED
    BY <2>1, <2>3, <2>4, <2>5, <2>6, <2>7, CallKeeps DEF Open
<1>9. QED
  BY <1>1, <1>2, <1>3, <1>4, <1>5, <1>6, <1>7, <1>8, <1>10 DEF Operate

(* A commit puts its operation's effect into a legal scope. *)
LEMMA TCommitScope ==
  ASSUME TInv, NEW a \in Admins, Commit(a)
  PROVE  scope' \in Scopes /\ RolesDiffer(scope')
<1> DEFINE c == call[a]
<1>1. /\ c \in Operations /\ pc[a] = "bumped" /\ scope' = Effect(c, scope)
      /\ scope \in Scopes /\ RolesDiffer(scope)
  BY DEF Commit, TInv, TypeOK
<1>2. CASE c.op = "grant"
  <2>1. <<c.membership, c.unit>> \in Memberships \X OwnUnits
    BY <1>1, <1>2, OperationFields DEF TInv, Shapes
  <2>2. scope' = [scope EXCEPT !.grants = @ \cup {<<c.membership, c.unit>>}]
    BY <1>1, <1>2 DEF Effect
  <2>3. QED
    BY <1>1, <2>1, <2>2 DEF Scopes, RolesDiffer
<1>3. CASE c.op = "revoke"
  <2>1. scope' = [scope EXCEPT !.grants = @ \ {<<c.membership, c.unit>>}]
    BY <1>1, <1>3 DEF Effect
  <2>2. QED
    BY <1>1, <2>1 DEF Scopes, RolesDiffer
<1>4. CASE c.op = "set_active"
  <2>1. scope' = [scope EXCEPT !.active[c.membership] = c.value]
    BY <1>1, <1>4 DEF Effect
  <2>2. c.value \in BOOLEAN /\ c.membership \in Memberships
    BY <1>1, <1>4, OperationFields
  <2>3. QED
    BY <1>1, <2>1, <2>2 DEF Scopes, RolesDiffer
<1>5. CASE c.op = "change_role"
  <2>1. scope' = [scope EXCEPT !.role[c.membership] = c.value]
    BY <1>1, <1>5 DEF Effect
  <2>2. c.value \in Roles /\ c.membership \in Memberships
    BY <1>1, <1>5, OperationFields
  <2>3. \A n \in Memberships \ {c.membership} : scope.role[n] # c.value
    BY <1>1, <1>5 DEF TInv, Claims, Open
  <2>4. scope' \in Scopes
    BY <1>1, <2>1, <2>2 DEF Scopes
  <2>5. scope'.role = [scope.role EXCEPT ![c.membership] = c.value] /\ scope.role \in [Memberships -> Roles]
    BY <1>1, <2>1 DEF Scopes
  <2>6. RolesDiffer(scope')
    BY <1>1, <2>2, <2>3, <2>5 DEF RolesDiffer
  <2>7. QED
    BY <2>4, <2>6
<1>6. QED
  BY <1>1, <1>2, <1>3, <1>4, <1>5, OperationFields

(* What another open transaction relies on survives a commit. *)
LEMMA TCommitClaims ==
  ASSUME TInv, NEW a \in Admins, Commit(a)
  PROVE  Claims'
<1> DEFINE c == call[a]
<1>1. /\ c \in Operations /\ pc[a] = "bumped" /\ scope' = Effect(c, scope) /\ scope \in Scopes
  BY DEF Commit, TInv, TypeOK
<1>2. /\ pc'[a] = "done" /\ held'[a] = {}
      /\ \A b \in Admins \ {a} : pc'[b] = pc[b] /\ call'[b] = call[b] /\ held'[b] = held[b]
  BY DEF Commit, End, ReleaseRows, TInv, TypeOK, Shapes
<1>3. ~Open(a)' /\ \A b \in Admins \ {a} : Open(b)' <=> Open(b)
  BY <1>2 DEF Open
<1>4. c.op \in {"grant", "revoke"} => GrantRow(c.membership, c.unit) \in held[a]
  BY <1>1 DEF TInv, Claims, Open
<1>5. \A p : p # <<c.membership, c.unit>> => (p \in scope'.grants <=> p \in scope.grants)
  BY <1>1, OperationFields DEF Effect, Scopes
<1>6. c.op \notin {"grant", "revoke"} => scope'.grants = scope.grants
  BY <1>1, OperationFields DEF Effect, Scopes
<1>7. ASSUME NEW b \in Admins \ {a}, Open(b), call[b].op \in {"grant", "revoke"}
      PROVE  <<call[b].membership, call[b].unit>> \in scope'.grants
               <=> <<call[b].membership, call[b].unit>> \in scope.grants
  <2>1. GrantRow(call[b].membership, call[b].unit) \in held[b] /\ held[a] \cap held[b] = {}
    BY <1>7 DEF TInv, Claims
  <2>2. CASE c.op \in {"grant", "revoke"}
    <3>1. <<call[b].membership, call[b].unit>> # <<c.membership, c.unit>>
      BY <1>4, <2>1, <2>2
    <3>2. QED
      BY <1>5, <3>1
  <2>3. CASE c.op \notin {"grant", "revoke"}
    BY <1>6, <2>3
  <2>4. QED
    BY <2>2, <2>3
<1>8. ASSUME NEW b \in Admins \ {a}, Open(b), call[b].op = "change_role",
             NEW n \in Memberships \ {call[b].membership}
      PROVE  scope'.role[n] # call[b].value
  <2>1. scope.role[n] # call[b].value
    BY <1>8 DEF TInv, Claims
  <2>2. CASE c.op = "change_role"
    <3>1. c.value # call[b].value
      BY <1>1, <1>8, <2>2 DEF TInv, Claims, Open
    <3>2. scope' = [scope EXCEPT !.role[c.membership] = c.value]
      BY <1>1, <2>2 DEF Effect
    <3>3. scope'.role[n] = scope.role[n] \/ scope'.role[n] = c.value
      BY <1>1, <3>2 DEF Scopes
    <3>4. QED
      BY <2>1, <3>1, <3>3
  <2>3. CASE c.op # "change_role"
    <3>1. scope'.role = scope.role
      BY <1>1, <2>3, OperationFields DEF Effect, Scopes
    <3>2. QED
      BY <2>1, <3>1
  <2>4. QED
    BY <2>2, <2>3
<1>9. \A b, d \in Admins : b # d => held'[b] \cap held'[d] = {}
  BY <1>2 DEF TInv, Claims
<1>10. ASSUME NEW b \in Admins \ {a}, Open(b), call[b].op \in {"grant", "revoke"}
       PROVE  /\ GrantRow(call[b].membership, call[b].unit) \in held[b]
              /\ call[b].op = "grant" => <<call[b].membership, call[b].unit>> \notin scope'.grants
              /\ call[b].op = "revoke" => <<call[b].membership, call[b].unit>> \in scope'.grants
  BY <1>7, <1>10 DEF TInv, Claims
<1>11. ASSUME NEW b \in Admins \ {a}, NEW d \in Admins \ {a}, b # d, Open(b), Open(d),
              call[b].op = "change_role", call[d].op = "change_role"
       PROVE  call[b].value # call[d].value
  BY <1>11 DEF TInv, Claims
<1>12. QED
  BY <1>2, <1>3, <1>8, <1>9, <1>10, <1>11 DEF Claims

LEMMA TCommit ==
  ASSUME TInv, NEW a \in Admins, Commit(a)
  PROVE  TInv'
<1>1. /\ draft[a] \in Nat /\ user' = [user EXCEPT !.version = draft[a]] /\ user \in Users
      /\ UNCHANGED <<session, client>>
      /\ pc' = [pc EXCEPT ![a] = "done"] /\ held' = [held EXCEPT ![a] = {}]
      /\ call' = [call EXCEPT ![a] = None] /\ object' = [object EXCEPT ![a] = None]
      /\ draft' = [draft EXCEPT ![a] = None]
  BY DEF Commit, End, ReleaseRows, TInv, TypeOK, Shapes
<1>2. user' \in Users
  BY <1>1 DEF Users
<1>3. TypeOK'
  BY <1>1, <1>2, TCommitScope DEF TInv, TypeOK, Shapes, Steps, client
<1>4. Shapes'
  BY <1>1 DEF TInv, TypeOK, Shapes, client
<1>5. QED
  BY <1>3, <1>4, TCommitClaims DEF TInv

(* A step of client k that leaves the calls alone keeps TInv if what it writes *)
(* is well typed.                                                              *)
LEMMA ClientKeeps ==
  ASSUME TInv, NEW k \in Clients, UNCHANGED <<scope, admin>>, user' \in Users,
         session' = [session EXCEPT ![k] = session'[k]],
         session'[k] = None \/ session'[k] \in [version : Nat, password : Nat, entered : Nat, under : Scopes],
         at' = [at EXCEPT ![k] = at'[k]], at'[k] \in {"idle", "login", "passed", "prefetch"},
         request' = [request EXCEPT ![k] = request'[k]],
         decision' = [j \in Clients |-> decision'[j]],
         at'[k] # "idle" =>
           /\ request'[k].user \in Users /\ request'[k].under \in Scopes
           /\ request'[k].unit \in Units \cup {None}
           /\ request'[k].found \subseteq [membership : Memberships, role : Roles]
           /\ request'[k] = [user |-> request'[k].user, under |-> request'[k].under,
                             unit |-> request'[k].unit, found |-> request'[k].found],
         at'[k] \in {"passed", "prefetch"} => session'[k] # None
  PROVE  TInv'
<1> USE DEF TInv
<1>1. /\ \A j \in Clients \ {k} : at'[j] = at[j] /\ request'[j] = request[j] /\ session'[j] = session[j]
      /\ session' = [j \in Clients |-> session'[j]] /\ request' = [j \in Clients |-> request'[j]]
      /\ at' \in [Clients -> {"idle", "login", "passed", "prefetch"}]
  BY DEF TypeOK, Shapes
<1>2. UNCHANGED <<scope, pc, call, object, held, draft>>
  BY DEF admin
<1>3. TypeOK'
  <2>1. \A j \in Clients : session'[j] = None \/
          session'[j] \in [version : Nat, password : Nat, entered : Nat, under : Scopes]
    BY <1>1 DEF TypeOK
  <2>2. \A j \in Clients : at'[j] # "idle" =>
          /\ request'[j].user \in Users /\ request'[j].under \in Scopes
          /\ request'[j].unit \in Units \cup {None}
          /\ request'[j].found \subseteq [membership : Memberships, role : Roles]
    BY <1>1 DEF TypeOK
  <2>3. QED
    BY <1>1, <1>2, <2>1, <2>2 DEF TypeOK
<1>4. Shapes'
  <2>1. \A j \in Clients : at'[j] # "idle" =>
          request'[j] = [user |-> request'[j].user, under |-> request'[j].under,
                         unit |-> request'[j].unit, found |-> request'[j].found]
    BY <1>1 DEF Shapes
  <2>2. \A j \in Clients : at'[j] \in {"passed", "prefetch"} => session'[j] # None
    BY <1>1 DEF Shapes
  <2>3. QED
    BY <1>1, <1>2, <2>1, <2>2 DEF Shapes
<1>5. Claims'
  BY <1>2 DEF Claims, Open
<1>6. QED
  BY <1>3, <1>4, <1>5

LEMMA TServe ==
  ASSUME TInv, NEW k \in Clients, Serve(k)
  PROVE  TInv'
<1>a. /\ user \in Users /\ scope \in Scopes
      /\ session[k] = None \/ session[k] \in [version : Nat, password : Nat, entered : Nat, under : Scopes]
      /\ session = [session EXCEPT ![k] = session[k]]
      /\ at[k] \in {"idle", "login", "passed", "prefetch"}
  BY DEF TInv, TypeOK, Shapes
<1>b. at[k] # "idle" =>
         /\ request[k].user \in Users /\ request[k].under \in Scopes
         /\ request[k].unit \in Units \cup {None}
         /\ request[k].found \subseteq [membership : Memberships, role : Roles]
         /\ request[k] = [user |-> request[k].user, under |-> request[k].under,
                          unit |-> request[k].unit, found |-> request[k].found]
  BY DEF TInv, TypeOK, Shapes
<1>c. request = [j \in Clients |-> request[j]] /\ at = [j \in Clients |-> at[j]]
      /\ session = [j \in Clients |-> session[j]]
  BY DEF TInv, TypeOK, Shapes
<1>d. decision' = [j \in Clients |-> decision'[j]]
  BY DEF TInv, Shapes, Serve, Authenticate, RecordSession, Admit, Load, LogOut, DenyForeign,
     QueryMemberships, QueryGrants, ChangePassword, client
<1>1. CASE Authenticate(k)
  <2>1. /\ at'[k] = "login" /\ at' = [at EXCEPT ![k] = at'[k]] /\ UNCHANGED <<database, admin>>
        /\ request'[k] = [user |-> user, under |-> scope, unit |-> None, found |-> {}]
        /\ request' = [request EXCEPT ![k] = request'[k]]
    BY <1>1, <1>c DEF Authenticate, Pass, Load
  <2>2. QED
    BY <2>1, <1>a, <1>d, ClientKeeps DEF database
<1>2. CASE RecordSession(k)
  <2>1. /\ at[k] = "login" /\ at'[k] = "idle" /\ at' = [at EXCEPT ![k] = at'[k]]
        /\ request' = [request EXCEPT ![k] = request'[k]] /\ UNCHANGED <<scope, user, admin>>
        /\ session'[k] = [version |-> request[k].user.version, password |-> request[k].user.password,
                          entered |-> request[k].user.password, under |-> request[k].under]
        /\ session' = [session EXCEPT ![k] = session'[k]]
    BY <1>2, <1>c DEF RecordSession, Respond, Pass
  <2>2. session'[k] \in [version : Nat, password : Nat, entered : Nat, under : Scopes]
    BY <2>1, <1>b DEF Users
  <2>3. QED
    BY <2>1, <2>2, <1>a, <1>d, ClientKeeps
<1>3. CASE Admit(k)
  <2>1. PICK u \in Units : Load(k, u)
    BY <1>3 DEF Admit
  <2>2. /\ at'[k] = "passed" /\ at' = [at EXCEPT ![k] = at'[k]] /\ UNCHANGED <<database, admin>>
        /\ request'[k] = [user |-> user, under |-> scope, unit |-> u, found |-> {}]
        /\ request' = [request EXCEPT ![k] = request'[k]] /\ session[k] # None
    BY <1>3, <2>1, <1>c DEF Admit, Pass, Load
  <2>3. QED
    BY <2>2, <1>a, <1>d, ClientKeeps DEF database
<1>4. CASE LogOut(k)
  <2>1. /\ at[k] = "idle" /\ UNCHANGED <<scope, user, admin, at, request>>
        /\ session'[k] = None /\ session' = [session EXCEPT ![k] = session'[k]]
        /\ at' = [at EXCEPT ![k] = at'[k]] /\ request' = [request EXCEPT ![k] = request'[k]]
    BY <1>4, <1>c DEF LogOut, client
  <2>2. QED
    BY <2>1, <1>a, <1>d, ClientKeeps
<1>5. CASE DenyForeign(k) \/ QueryGrants(k)
  <2>1. /\ at'[k] = "idle" /\ at' = [at EXCEPT ![k] = at'[k]] /\ UNCHANGED <<database, admin>>
        /\ request' = [request EXCEPT ![k] = request'[k]]
    BY <1>5, <1>c DEF DenyForeign, QueryGrants, Respond, Pass
  <2>2. QED
    BY <2>1, <1>a, <1>d, ClientKeeps DEF database
<1>6. CASE QueryMemberships(k)
  <2>1. /\ at[k] = "passed" /\ at'[k] = "prefetch" /\ at' = [at EXCEPT ![k] = at'[k]]
        /\ UNCHANGED <<database, admin>>
        /\ request'[k] = [request[k] EXCEPT !.found = ActiveMemberships(scope)]
        /\ request' = [request EXCEPT ![k] = request'[k]]
    BY <1>6, <1>c DEF QueryMemberships, Pass
  <2>2. ActiveMemberships(scope) \subseteq [membership : Memberships, role : Roles]
    BY <1>a DEF ActiveMemberships, Scopes
  <2>3. request'[k] = [user |-> request[k].user, under |-> request[k].under,
                       unit |-> request[k].unit, found |-> ActiveMemberships(scope)]
    BY <2>1, <1>b
  <2>4. session[k] # None
    BY <2>1 DEF TInv, Shapes
  <2>5. QED
    BY <2>1, <2>2, <2>3, <2>4, <1>a, <1>b, <1>d, ClientKeeps DEF database
<1>7. CASE ChangePassword(k)
  <2>1. /\ at[k] = "passed" /\ at'[k] = "idle" /\ at' = [at EXCEPT ![k] = at'[k]]
        /\ request' = [request EXCEPT ![k] = request'[k]] /\ UNCHANGED <<scope, admin>>
        /\ user' = [version |-> request[k].user.version, password |-> user.password + 1]
        /\ session'[k] = [session[k] EXCEPT !.password = user.password + 1]
        /\ session' = [session EXCEPT ![k] = session'[k]]
    BY <1>7, <1>c DEF ChangePassword, Respond, Pass
  <2>2. session[k] \in [version : Nat, password : Nat, entered : Nat, under : Scopes]
    BY <2>1, <1>a DEF TInv, Shapes
  <2>3. user' \in Users /\ session'[k] \in [version : Nat, password : Nat, entered : Nat, under : Scopes]
    BY <2>1, <2>2, <1>a, <1>b DEF Users
  <2>4. QED
    BY <2>1, <2>3, <1>d, ClientKeeps
<1>8. QED
  BY <1>1, <1>2, <1>3, <1>4, <1>5, <1>6, <1>7 DEF Serve

LEMMA TStep == TInv /\ [Next]_vars => TInv'
<1> SUFFICES ASSUME TInv, [Next]_vars PROVE TInv'
  OBVIOUS
<1>1. ASSUME NEW a \in Admins, Fetch(a) \/ Operate(a) \/ Fail(a) PROVE TInv'
  <2>1. CASE Fail(a)
    BY <2>1, TEnd DEF Fail
  <2>2. QED
    BY <1>1, <2>1, TFetch, TOperate, TCommit
<1>2. ASSUME NEW k \in Clients, Serve(k) PROVE TInv'
  BY <1>2, TServe
<1>3. CASE UNCHANGED vars
  BY <1>3 DEF TInv, TypeOK, Shapes, Claims, Open, vars, database, admin, client
<1>4. QED
  BY <1>1, <1>2, <1>3 DEF Next

LEMMA TAlways == Spec => []TInv
  BY TInit, TStep, PTL DEF Spec

(* Types; and the roles of the user's memberships differ, however changes of *)
(* role race.                                                                 *)
THEOREM TypeCorrect == Spec => []TypeOK
<1>1. TInv => TypeOK
  BY DEF TInv
<1>2. QED
  BY <1>1, TAlways, PTL

LEMMA UserStepQuiet ==
  ASSUME [Next]_vars, \A a \in Admins : ~Commit(a), pc' # pc
  PROVE  UNCHANGED <<scope, user>>
  BY DEF Next, vars, database, admin, Operate, Fetch, NoChange, MissGrant, InsertGrant, LoseInsert,
     DeleteGrant, UpdateActive, UpdateRole, CheckRole, Bump, Fail, Serve, Authenticate, RecordSession, Admit,
     LogOut, DenyForeign, QueryMemberships, QueryGrants, ChangePassword

(* A grant or revocation that ends without an exception bumps the version    *)
(* exactly if it changed the grants, however several of one unit race.       *)
THEOREM BumpsReal == Spec => GrantBumpsAreReal
<1>1. AInv /\ TInv /\ [Next]_vars =>
        [\A a \in Admins :
           pc'[a] = "done" /\ pc[a] # "done" /\ call[a].op \in {"grant", "revoke"}
             => (user'.version # user.version <=> scope'.grants # scope.grants)]_vars
  <2> SUFFICES ASSUME AInv, TInv, [Next]_vars, NEW a \in Admins,
                      pc'[a] = "done", pc[a] # "done", call[a].op \in {"grant", "revoke"}
               PROVE  user'.version # user.version <=> scope'.grants # scope.grants
    OBVIOUS
  <2>1. CASE UNCHANGED <<scope, user>>
    BY <2>1
  <2>2. ASSUME NEW b \in Admins, Commit(b), b # a PROVE FALSE
    BY <2>2 DEF Commit, End, TInv, TypeOK
  <2>3. CASE Commit(a)
    <3>1. /\ user'.version = user.version + 1 /\ user.version \in Nat
      BY <2>3 DEF Commit, AInv, Locking, Users
    <3>2. /\ pc[a] = "bumped" /\ call[a] \in Operations /\ scope \in Scopes
          /\ scope' = Effect(call[a], scope)
      BY <2>3 DEF Commit, TInv, TypeOK
    <3>3. CASE call[a].op = "grant"
      <4>1. /\ scope'.grants = scope.grants \cup {<<call[a].membership, call[a].unit>>}
            /\ <<call[a].membership, call[a].unit>> \notin scope.grants
        BY <3>2, <3>3 DEF Effect, Scopes, TInv, Claims, Open
      <4>2. QED
        BY <3>1, <4>1
    <3>4. CASE call[a].op = "revoke"
      <4>1. /\ scope'.grants = scope.grants \ {<<call[a].membership, call[a].unit>>}
            /\ <<call[a].membership, call[a].unit>> \in scope.grants
        BY <3>2, <3>4 DEF Effect, Scopes, TInv, Claims, Open
      <4>2. QED
        BY <3>1, <4>1
    <3>5. QED
      BY <3>3, <3>4
  <2>4. (\A b \in Admins : ~Commit(b)) => UNCHANGED <<scope, user>>
    BY UserStepQuiet
  <2>5. QED
    BY <2>1, <2>2, <2>3, <2>4
<1>2. QED
  BY <1>1, AInvAlways, TAlways, PTL DEF Spec, GrantBumpsAreReal

-------------------------------------------------------------------------------
(* Access decisions *)

LEMMA AllowsBecause ==
  ASSUME NEW M, NEW G, NEW u
  PROVE  Decide(M, G, u) \in Allowing <=>
           /\ u \in OwnUnits /\ M # {}
           /\ \/ \E r \in M : <<r.membership, u>> \in G
              \/ u \notin SensitiveUnits /\ HasGlobalRole(M)
<1>1. CASE u \notin OwnUnits \/ M = {}
  BY <1>1 DEF Decide, Allowing
<1>2. CASE u \in OwnUnits /\ M # {} /\ u \in SensitiveUnits
  BY <1>2 DEF Decide, Allowing
<1>3. CASE u \in OwnUnits /\ M # {} /\ u \notin SensitiveUnits
  BY <1>3 DEF Decide, Allowing
<1>4. QED
  BY <1>1, <1>2, <1>3

(* Deactivating memberships and taking grants away opens no unit. *)
THEOREM NarrowingOpensNothing == Spec => NarrowerScopeNarrowsAccess
<1>1. [Next]_vars =>
        [/\ scope'.role = scope.role /\ scope'.grants \subseteq scope.grants
         /\ \A m \in Memberships : scope'.active[m] => scope.active[m]
         => \A u \in Units : DecisionIn(scope', u) \in Allowing => DecisionIn(scope, u) \in Allowing]_vars
  <2> SUFFICES ASSUME scope'.role = scope.role, scope'.grants \subseteq scope.grants,
                      \A m \in Memberships : scope'.active[m] => scope.active[m],
                      NEW u \in Units, DecisionIn(scope', u) \in Allowing
               PROVE  DecisionIn(scope, u) \in Allowing
    OBVIOUS
  <2>1. ActiveMemberships(scope') \subseteq ActiveMemberships(scope)
    BY DEF ActiveMemberships
  <2>2. /\ u \in OwnUnits /\ ActiveMemberships(scope') # {}
        /\ \/ \E r \in ActiveMemberships(scope') : <<r.membership, u>> \in scope'.grants
           \/ u \notin SensitiveUnits /\ HasGlobalRole(ActiveMemberships(scope'))
    BY AllowsBecause DEF DecisionIn
  <2>3. HasGlobalRole(ActiveMemberships(scope')) => HasGlobalRole(ActiveMemberships(scope))
    BY <2>1 DEF HasGlobalRole
  <2>4. QED
    BY <2>1, <2>2, <2>3, AllowsBecause DEF DecisionIn
<1>2. QED
  BY <1>1, PTL DEF Spec, NarrowerScopeNarrowsAccess

(* Only the second query of a decision allows anything. *)
LEMMA Decides ==
  ASSUME TInv, [Next]_vars, NEW k \in Clients, decision'[k] \in Allowing, decision'[k] # decision[k]
  PROVE  /\ QueryGrants(k)
         /\ decision'[k] = Decide(request[k].found, scope.grants, request[k].unit)
<1>1. ASSUME NEW j \in Clients, Serve(j) PROVE j = k /\ QueryGrants(k)
  <2>1. CASE Authenticate(j) \/ Admit(j)
    BY <2>1 DEF Authenticate, Admit, Load, TInv, TypeOK, Shapes, Allowing
  <2>2. CASE DenyForeign(j)
    BY <2>2 DEF DenyForeign, TInv, Shapes, Allowing
  <2>3. CASE QueryGrants(j)
    BY <2>3 DEF QueryGrants, TInv, Shapes
  <2>4. QED
    BY <1>1, <2>1, <2>2, <2>3 DEF Serve, RecordSession, LogOut, QueryMemberships, ChangePassword,
       client, database
<1>2. \E j \in Clients : Serve(j)
  BY DEF Next, vars, client, Operate, Fetch, NoChange, MissGrant, InsertGrant, LoseInsert,
     DeleteGrant, UpdateActive, UpdateRole, CheckRole, Bump, Commit, Fail
<1>3. QED
  BY <1>1, <1>2 DEF QueryGrants, TInv, Shapes

(* An access to a sensitive unit rests on a grant that is there. *)
THEOREM SensitiveGranted == Spec => SensitiveByGrantOnly
<1>1. TInv /\ [Next]_vars =>
        [\A k \in Clients :
           request[k] # None /\ request[k].unit \in SensitiveUnits
           /\ decision'[k] \in Allowing /\ decision'[k] # decision[k]
             => \E m \in Memberships : <<m, request[k].unit>> \in scope.grants]_vars
  <2> SUFFICES ASSUME TInv, [Next]_vars, NEW k \in Clients, request[k].unit \in SensitiveUnits,
                      decision'[k] \in Allowing, decision'[k] # decision[k]
               PROVE  \E m \in Memberships : <<m, request[k].unit>> \in scope.grants
    OBVIOUS
  <2>1. QueryGrants(k)
    BY Decides
  <2>2. Decide(request[k].found, scope.grants, request[k].unit) \in Allowing
    BY <2>1, Decides DEF QueryGrants
  <2>3. PICK r \in request[k].found : <<r.membership, request[k].unit>> \in scope.grants
    BY <2>2, AllowsBecause
  <2>4. r.membership \in Memberships
    BY <2>1, <2>3 DEF QueryGrants, Respond, Pass, TInv, TypeOK
  <2>5. QED
    BY <2>3, <2>4
<1>2. QED
  BY <1>1, TAlways, PTL DEF Spec, SensitiveByGrantOnly

-------------------------------------------------------------------------------
(* Deadlocks *)

(* Rows are held by open transactions only, the user's row by the bumped ones. *)
Holding ==
    \A a \in Admins :
        /\ held[a] # {} => pc[a] \in {"checking", "written", "bumped"}
        /\ UserRow \in held[a] => pc[a] = "bumped"

LEMMA HoldingStep == TInv /\ Holding /\ [Next]_vars => Holding'
<1> SUFFICES ASSUME TInv, Holding, [Next]_vars PROVE Holding'
  OBVIOUS
<1> USE DEF TInv
<1>a. /\ pc = [b \in Admins |-> pc[b]] /\ held = [b \in Admins |-> held[b]]
  BY DEF TypeOK
<1>1. ASSUME NEW a \in Admins, UNCHANGED held,
             pc[a] \in {"new", "called", "insert", "checking"}, held[a] = {} \/ pc[a] = "checking",
             pc' = [pc EXCEPT ![a] = pc'[a]], pc[a] = "checking" => pc'[a] = "written"
      PROVE  Holding'
  BY <1>1, <1>a DEF Holding
<1>2. ASSUME NEW a \in Admins, NEW row, row # UserRow, NEW to \in {"checking", "written"},
             pc[a] # "bumped", held' = [held EXCEPT ![a] = @ \cup {row}], pc' = [pc EXCEPT ![a] = to]
      PROVE  Holding'
  <2>1. held'[a] = held[a] \cup {row} /\ pc'[a] = to
        /\ \A b \in Admins \ {a} : held'[b] = held[b] /\ pc'[b] = pc[b]
    BY <1>2, <1>a
  <2>2. QED
    BY <2>1, <1>2 DEF Holding
<1>3. ASSUME NEW a \in Admins, NEW how, End(a, how) PROVE Holding'
  <2>1. held'[a] = {} /\ \A b \in Admins \ {a} : held'[b] = held[b] /\ pc'[b] = pc[b]
    BY <1>3, <1>a DEF End, ReleaseRows
  <2>2. QED
    BY <2>1 DEF Holding
<1>4. ASSUME NEW a \in Admins, Fetch(a) \/ MissGrant(a) \/ LoseInsert(a) \/ CheckRole(a) PROVE Holding'
  BY <1>4, <1>1, <1>a DEF Fetch, MissGrant, LoseInsert, CheckRole, Goto, Holding
<1>5. ASSUME NEW a \in Admins, InsertGrant(a) \/ DeleteGrant(a) \/ UpdateActive(a) \/ UpdateRole(a)
      PROVE  Holding'
  <2>1. \/ \E m, u : Write(a, GrantRow(m, u)) /\ pc[a] # "bumped"
        \/ \E m : Write(a, MembershipRow(m)) /\ pc[a] # "bumped"
        \/ \E m : Lock(a, MembershipRow(m)) /\ pc[a] # "bumped" /\ pc' = [pc EXCEPT ![a] = "checking"]
    BY <1>5 DEF InsertGrant, DeleteGrant, UpdateActive, UpdateRole, Goto
  <2>2. QED
    BY <2>1, <1>2, UserRowIsItself DEF Write, Lock
<1>6. ASSUME NEW a \in Admins, Bump(a) PROVE Holding'
  <2>1. pc'[a] = "bumped" /\ \A b \in Admins \ {a} : held'[b] = held[b] /\ pc'[b] = pc[b]
    BY <1>6, <1>a DEF Bump, Goto
  <2>2. QED
    BY <2>1 DEF Holding
<1>7. ASSUME NEW a \in Admins, NoChange(a) \/ Commit(a) \/ Fail(a) PROVE Holding'
  BY <1>7, <1>3 DEF NoChange, Commit, Fail
<1>8. ASSUME NEW k \in Clients, Serve(k) PROVE Holding'
  BY <1>8 DEF Serve, Authenticate, RecordSession, Admit, LogOut, DenyForeign, QueryMemberships,
     QueryGrants, ChangePassword, admin, Holding
<1>9. CASE UNCHANGED vars
  BY <1>9 DEF vars, admin, Holding
<1>10. QED
  BY <1>4, <1>5, <1>6, <1>7, <1>8, <1>9 DEF Next, Operate

(* Without a role change, whoever is waited for waits for the user's row alone, *)
(* and who has that row waits for nobody.                                       *)
LEMMA DeadlockFree == TInv /\ Holding => DeadlocksChangeRoles
<1> SUFFICES ASSUME TInv, Holding, NEW S \in SUBSET Admins, Deadlock(S), S \cap RoleChanges = {}
             PROVE  FALSE
  BY DEF DeadlocksChangeRoles
<1>1. \A a \in S : \E b \in S : Wanted(a) \cap held[b] # {}
  <2> SUFFICES ASSUME NEW a \in S PROVE \E b \in S : Wanted(a) \cap held[b] # {}
    OBVIOUS
  <2>1. PICK b \in S : b \in WaitsFor(a)
    BY DEF Deadlock
  <2>2. Rivals(a) \subseteq RoleChanges /\ Blocking(a) \subseteq RoleChanges
    BY DEF Rivals, Blocking, KeyChanges
  <2>3. b \notin Rivals(a) /\ b \notin Blocking(a)
    BY <2>2
  <2>4. QED
    BY <2>1, <2>3 DEF WaitsFor
<1>2. ASSUME NEW b \in S, held[b] # {} PROVE pc[b] \in {"written", "bumped"}
  <2>1. pc[b] \in {"checking", "written", "bumped"}
    BY <1>2 DEF Holding
  <2>2. pc[b] # "checking"
    BY DEF TInv, Shapes, RoleChanges
  <2>3. QED
    BY <2>1, <2>2
<1>3. ASSUME NEW b \in S, held[b] # {}
      PROVE  Wanted(b) = IF pc[b] = "written" THEN {UserRow} ELSE {}
  <2>1. CASE pc[b] = "written"
    BY <2>1 DEF Wanted
  <2>2. CASE pc[b] = "bumped"
    BY <2>2 DEF Wanted
  <2>3. QED
    BY <1>2, <1>3, <2>1, <2>2
<1>4. PICK b \in S : held[b] # {}
  BY <1>1 DEF Deadlock
<1>5. PICK c \in S : Wanted(b) \cap held[c] # {}
  BY <1>1
<1>6. UserRow \in held[c]
  BY <1>3, <1>4, <1>5
<1>7. pc[c] = "bumped" /\ held[c] # {}
  BY <1>6 DEF Holding
<1>8. Wanted(c) = {}
  BY <1>3, <1>7
<1>9. QED
  BY <1>1, <1>8

(* Operations on memberships, grants and the user's row that change no role   *)
(* never deadlock among themselves, for any number of calls and memberships.  *)
THEOREM OnlyRoleChangesDeadlock == Spec => []DeadlocksChangeRoles
<1>1. Init => Holding
  BY DEF Init, Holding
<1>2. QED
  BY <1>1, TInit, TStep, HoldingStep, DeadlockFree, PTL DEF Spec

===============================================================================

----------------------------- MODULE Authorization -----------------------------
(***************************************************************************)
(* The scope of one user in one organisation (apps/tenancy) and the        *)
(* sessions that depend on it (apps/accounts).  Administrators call the    *)
(* operations of apps/tenancy/services.py, each a transaction over an      *)
(* object fetched some time before; the user logs in from several clients, *)
(* whose requests pass the middleware and ask can_access_business_unit.    *)
(* PostgreSQL runs at READ COMMITTED: a statement reads what is committed, *)
(* writes wait for row locks, and locks are kept to the end.               *)
(***************************************************************************)
EXTENDS Naturals, FiniteSets

CONSTANTS
    Memberships,       \* the user's memberships in the organisation
    Roles,             \* the values of MembershipRole
    GlobalRoles,       \* GLOBAL_SECURITY_ROLES
    Units,             \* business units
    OwnUnits,          \* those of the organisation
    SensitiveUnits,    \* those with is_sensitive
    Admins,            \* calls of tenancy operations, each made once
    InitialScopes,     \* the scopes a behaviour may start in
    Clients,           \* browsers the user logs in from
    PasswordChangers,  \* clients that may use Django's password_change view
    MaxPassword,       \* bound: how often the password is changed
    None               \* "nothing there"

ASSUME RolesAssumption == GlobalRoles \subseteq Roles
ASSUME UnitsAssumption == OwnUnits \subseteq Units /\ SensitiveUnits \subseteq Units
ASSUME ClientsAssumption == PasswordChangers \subseteq Clients
ASSUME PasswordAssumption == MaxPassword \in Nat

Scopes == [active : [Memberships -> BOOLEAN], role : [Memberships -> Roles],
           grants : SUBSET (Memberships \X OwnUnits)]

(* The unique constraint on (organisation, user, role). *)
RolesDiffer(s) == \A m, n \in Memberships : s.role[m] = s.role[n] => m = n

ASSUME InitialAssumption == InitialScopes \subseteq {s \in Scopes : RolesDiffer(s)}

Users == [version : Nat, password : Nat]

VARIABLES
    \* committed rows
    scope,     \* the memberships and their grants
    user,      \* the columns of the user row that matter here
    session,   \* session[k]: the session row of client k, or None
    \* administrators
    pc,        \* pc[a]: where call a is
    call,      \* call[a]: the operation and its arguments
    object,    \* object[a]: the membership object it was given
    held,      \* held[a]: the rows its open transaction has locked
    draft,     \* draft[a]: the version its open transaction has written
    \* clients
    at,        \* at[k]: where the client's request is
    request,   \* request[k]: what it has in memory, or None between requests
    decision   \* decision[k]: the reason of its last AccessDecision, or None

database == <<scope, user, session>>
admin == <<pc, call, object, held, draft>>
client == <<at, request, decision>>
vars == <<database, admin, client>>

-------------------------------------------------------------------------------
(* The access decision *)

(* Mutant: every role has to be a global one. *)
OnlyGlobalRoles(memberships) == \A r \in memberships : r.role \in GlobalRoles
HasGlobalRole(memberships) == \E r \in memberships : r.role \in GlobalRoles

(* Mutant of Decide: the role is asked for before the unit's sensitivity. *)
RoleFirst(memberships, grants, u) ==
    CASE u \notin OwnUnits -> "different_organisation"
      [] u \in OwnUnits /\ memberships = {} -> "no_active_membership"
      [] u \in OwnUnits /\ HasGlobalRole(memberships) -> "organisation_wide_role"
      [] OTHER -> "business_unit_not_granted"

(* can_access_business_unit, given the active memberships the first query    *)
(* found and the grants the second one found for them.                       *)
Decide(memberships, grants, u) ==
    LET explicit == \E r \in memberships : <<r.membership, u>> \in grants
    IN CASE u \notin OwnUnits -> "different_organisation"
         [] u \in OwnUnits /\ memberships = {} -> "no_active_membership"
         [] u \in OwnUnits /\ memberships # {} /\ u \in SensitiveUnits ->
              IF explicit THEN "explicit_sensitive_grant" ELSE "sensitive_denied"
         [] u \in OwnUnits \ SensitiveUnits /\ memberships # {} /\ explicit ->
              "explicit_business_unit_grant"
         [] u \in OwnUnits \ SensitiveUnits /\ memberships # {} /\ ~explicit ->
              IF HasGlobalRole(memberships)
              THEN "organisation_wide_role" ELSE "business_unit_not_granted"

ActiveMemberships(s) ==
    {[membership |-> m, role |-> s.role[m]] : m \in {n \in Memberships : s.active[n]}}

DecisionIn(s, u) == Decide(ActiveMemberships(s), s.grants, u)

(* The reasons of an AccessDecision that allows. *)
Allowing == {"explicit_sensitive_grant", "explicit_business_unit_grant", "organisation_wide_role"}
ASSUME NoneAssumption == None \notin Allowing

-------------------------------------------------------------------------------
(* Operations *)

Operations ==
    [op : {"grant", "revoke"}, membership : Memberships, unit : Units]
    \cup [op : {"set_active"}, membership : Memberships, value : BOOLEAN]
    \cup [op : {"change_role"}, membership : Memberships, value : Roles]

MembershipRow(m) == <<"membership", m>>
GrantRow(m, u) == <<"grant", m, u>>
UserRow == <<"user">>

Rows ==
    {MembershipRow(m) : m \in Memberships}
    \cup {GrantRow(m, u) : m \in Memberships, u \in Units} \cup {UserRow}

(* The scope once operation c is committed over s. *)
Effect(c, s) ==
    CASE c.op = "grant" -> [s EXCEPT !.grants = @ \cup {<<c.membership, c.unit>>}]
      [] c.op = "revoke" -> [s EXCEPT !.grants = @ \ {<<c.membership, c.unit>>}]
      [] c.op = "set_active" -> [s EXCEPT !.active[c.membership] = c.value]
      [] c.op = "change_role" -> [s EXCEPT !.role[c.membership] = c.value]

Free(row) == \A b \in Admins : row \notin held[b]

Init ==
    /\ scope \in InitialScopes
    /\ user = [version |-> 1, password |-> 0]
    /\ session = [k \in Clients |-> None]
    /\ pc = [a \in Admins |-> "new"]
    /\ call = [a \in Admins |-> None]
    /\ object = [a \in Admins |-> None]
    /\ held = [a \in Admins |-> {}]
    /\ draft = [a \in Admins |-> None]
    /\ at = [k \in Clients |-> "idle"]
    /\ request = [k \in Clients |-> None]
    /\ decision = [k \in Clients |-> None]

Goto(a, from, to) == pc[a] = from /\ pc' = [pc EXCEPT ![a] = to]

(* Mutant of Fetch: the caller also locks the user row, if nobody else has it. *)
FetchSkipLocked(a) ==
    /\ Goto(a, "new", "called")
    /\ \E c \in Operations :
         /\ call' = [call EXCEPT ![a] = c]
         /\ object' = [object EXCEPT ![a] =
              [active |-> scope.active[c.membership], role |-> scope.role[c.membership],
               user |-> user]]
    /\ held' = [held EXCEPT ![a] = IF Free(UserRow) THEN {UserRow} ELSE {}]
    /\ UNCHANGED <<database, draft, client>>

(* The caller fetches the membership it is going to operate on. *)
Fetch(a) ==
    /\ Goto(a, "new", "called")
    /\ \E c \in Operations :
         /\ call' = [call EXCEPT ![a] = c]
         /\ object' = [object EXCEPT ![a] =
              [active |-> scope.active[c.membership], role |-> scope.role[c.membership],
               user |-> user]]
    /\ UNCHANGED <<database, held, draft, client>>

(* The end of a transaction frees its locks.  Mutant: it does not. *)
KeepRows(a) == held' = held
ReleaseRows(a) == held' = [held EXCEPT ![a] = {}]

(* The call returns or raises; its locals are gone. *)
End(a, how) ==
    /\ pc' = [pc EXCEPT ![a] = how]
    /\ ReleaseRows(a)
    /\ call' = [call EXCEPT ![a] = None]
    /\ object' = [object EXCEPT ![a] = None]
    /\ draft' = [draft EXCEPT ![a] = None]

(* A call that finds nothing to change, in its object or in the database. *)
NoChange(a) ==
    LET c == call[a]
    IN /\ \/ /\ pc[a] = "called" /\ c.op = "set_active" /\ object[a].active = c.value
          \/ /\ pc[a] = "called" /\ c.op = "change_role" /\ object[a].role = c.value
          \/ /\ pc[a] \in {"called", "refetch"} /\ c.op = "grant" /\ c.unit \in OwnUnits
             /\ <<c.membership, c.unit>> \in scope.grants
          \/ /\ pc[a] = "called" /\ c.op = "revoke"
             /\ <<c.membership, c.unit>> \notin scope.grants
       /\ End(a, "done")
       /\ UNCHANGED <<database, client>>

Lock(a, row) == Free(row) /\ held' = [held EXCEPT ![a] = @ \cup {row}]
Write(a, row) == Lock(a, row) /\ pc' = [pc EXCEPT ![a] = "written"]

(* Mutant of MissGrant: the unit's organisation is not compared. *)
MissAnyGrant(a) ==
    /\ Goto(a, "called", "insert")
    /\ call[a].op = "grant"
    /\ <<call[a].membership, call[a].unit>> \notin scope.grants
    /\ UNCHANGED <<database, call, object, held, draft, client>>

(* get_or_create's SELECT finds no grant. *)
MissGrant(a) ==
    /\ Goto(a, "called", "insert")
    /\ call[a].op = "grant" /\ call[a].unit \in OwnUnits
    /\ <<call[a].membership, call[a].unit>> \notin scope.grants
    /\ UNCHANGED <<database, call, object, held, draft, client>>

(* Its INSERT waits for an open INSERT or DELETE of the same key. *)
InsertGrant(a) ==
    /\ pc[a] = "insert"
    /\ <<call[a].membership, call[a].unit>> \notin scope.grants
    /\ Write(a, GrantRow(call[a].membership, call[a].unit))
    /\ UNCHANGED <<database, call, object, draft, client>>

(* Somebody else's INSERT was committed first: IntegrityError, get() again. *)
LoseInsert(a) ==
    /\ Goto(a, "insert", "refetch")
    /\ <<call[a].membership, call[a].unit>> \in scope.grants
    /\ Free(GrantRow(call[a].membership, call[a].unit))
    /\ UNCHANGED <<database, call, object, held, draft, client>>

DeleteGrant(a) ==
    /\ pc[a] = "called" /\ call[a].op = "revoke"
    /\ <<call[a].membership, call[a].unit>> \in scope.grants
    /\ Write(a, GrantRow(call[a].membership, call[a].unit))
    /\ UNCHANGED <<database, call, object, draft, client>>

UpdateActive(a) ==
    /\ pc[a] = "called" /\ call[a].op = "set_active" /\ object[a].active # call[a].value
    /\ Write(a, MembershipRow(call[a].membership))
    /\ object' = [object EXCEPT ![a].active = call[a].value]
    /\ UNCHANGED <<database, call, draft, client>>

(* The UPDATE locks the membership's row first ... *)
UpdateRole(a) ==
    /\ Goto(a, "called", "checking")
    /\ call[a].op = "change_role" /\ object[a].role # call[a].value
    /\ Lock(a, MembershipRow(call[a].membership))
    /\ object' = [object EXCEPT ![a].role = call[a].value]
    /\ UNCHANGED <<database, call, draft, client>>

RoleChanges == {b \in Admins : pc[b] \in {"checking", "written", "bumped"} /\ call[b].op = "change_role"}

(* ... and then waits for the open ones that give the new role up or take it. *)
Rivals(a) ==
    {b \in RoleChanges \ {a} :
        \/ scope.role[call[b].membership] = call[a].value
        \/ pc[b] # "checking" /\ call[b].value = call[a].value}

RoleTaken(a) ==
    \E n \in Memberships \ {call[a].membership} : scope.role[n] = call[a].value

(* The unique constraint lets it through once the new role is nobody's. *)
CheckRole(a) ==
    /\ Goto(a, "checking", "written")
    /\ Rivals(a) = {} /\ ~RoleTaken(a)
    /\ UNCHANGED <<database, call, object, held, draft, client>>

(* The UPDATE of the user row with F("authorization_version") + 1, evaluated *)
(* on the row once its lock is granted.  Mutants: the sum is made in Python   *)
(* from the fetched object; the column is a flag; revoking does not bump.     *)
PythonVersion(a) == object[a].user.version + 1
FlagVersion(a) == 3 - user.version
NoBumpOnRevoke(a) == IF call[a].op = "revoke" THEN user.version ELSE user.version + 1
NextVersion(a) == user.version + 1

(* bump_authorization_version, and refresh_from_db reading it back. *)
Bump(a) ==
    /\ Goto(a, "written", "bumped")
    /\ Free(UserRow)
    /\ held' = [held EXCEPT ![a] = @ \cup {UserRow}]
    /\ draft' = [draft EXCEPT ![a] = NextVersion(a)]
    /\ object' = [object EXCEPT ![a].user.version = NextVersion(a)]
    /\ UNCHANGED <<database, call, client>>

(* The role is part of a unique key: until a role change ends, nobody can      *)
(* refer to its membership's row.                                              *)
KeyChanges(m) ==
    {b \in RoleChanges : call[b].membership = m /\ call[b].value # scope.role[m]}

(* The foreign key of a new grant is checked at the COMMIT (Django declares it *)
(* INITIALLY DEFERRED), which waits for such changes.                          *)
Blocking(a) == IF call[a].op = "grant" THEN KeyChanges(call[a].membership) ELSE {}

Commit(a) ==
    /\ pc[a] = "bumped" /\ Blocking(a) = {}
    /\ scope' = Effect(call[a], scope)
    /\ user' = [user EXCEPT !.version = draft[a]]
    /\ End(a, "done")
    /\ UNCHANGED <<session, client>>

(* The calls that cannot go on: the unit is another organisation's, get()     *)
(* still misses a grant that was deleted meanwhile, the role is taken.        *)
Refused(a) ==
    LET c == call[a]
    IN \/ pc[a] = "called" /\ c.op = "grant" /\ c.unit \notin OwnUnits
       \/ pc[a] = "refetch" /\ <<c.membership, c.unit>> \notin scope.grants
       \/ pc[a] = "checking" /\ Rivals(a) = {} /\ RoleTaken(a)

(* An exception, a lost connection or a killed worker: ROLLBACK. *)
Fail(a) ==
    /\ pc[a] \notin {"new", "done", "failed"}
    /\ End(a, "failed")
    /\ UNCHANGED <<database, client>>

Operate(a) ==
    \/ NoChange(a)
    \/ MissGrant(a)
    \/ InsertGrant(a)
    \/ LoseInsert(a)
    \/ DeleteGrant(a)
    \/ UpdateActive(a)
    \/ UpdateRole(a)
    \/ CheckRole(a)
    \/ Bump(a)
    \/ Commit(a)

-------------------------------------------------------------------------------
(* Requests *)

(* The user object a request loads, and, as history, the scope of that moment. *)
Load(k, u) ==
    /\ request' = [request EXCEPT ![k] = [user |-> user, under |-> scope, unit |-> u, found |-> {}]]
    /\ decision' = [decision EXCEPT ![k] = None]

Pass(k, from, to) == at[k] = from /\ at' = [at EXCEPT ![k] = to]

Respond(k, from) ==
    /\ Pass(k, from, "idle")
    /\ request' = [request EXCEPT ![k] = None]

(* A login loads the user row ... *)
Authenticate(k) ==
    /\ Pass(k, "idle", "login")
    /\ Load(k, None)
    /\ UNCHANGED <<database, admin>>

(* ... and, once it is through, records that object's version in the session  *)
(* (and, as history, the password and the scope of the login).                *)
RecordSession(k) ==
    /\ Respond(k, "login")
    /\ session' = [session EXCEPT ![k] =
         [version |-> request[k].user.version, password |-> request[k].user.password,
          entered |-> request[k].user.password, under |-> request[k].under]]
    /\ UNCHANGED <<scope, user, admin, decision>>

(* A session is accepted if its version and password are those of the user. *)
Accepted(s, u) == s.version = u.version /\ s.password = u.password

(* The middleware, in front of a view that decides about a unit. *)
Admit(k) ==
    /\ session[k] # None /\ Accepted(session[k], user)
    /\ Pass(k, "idle", "passed")
    /\ \E u \in Units : Load(k, u)
    /\ UNCHANGED <<database, admin>>

LogOut(k) ==
    /\ at[k] = "idle" /\ session[k] # None /\ ~Accepted(session[k], user)
    /\ session' = [session EXCEPT ![k] = None]
    /\ UNCHANGED <<scope, user, admin, client>>

(* The two queries of can_access_business_unit; a foreign unit needs none. *)
DenyForeign(k) ==
    /\ Respond(k, "passed")
    /\ request[k].unit \notin OwnUnits
    /\ decision' = [decision EXCEPT ![k] = "different_organisation"]
    /\ UNCHANGED <<database, admin>>

QueryMemberships(k) ==
    /\ Pass(k, "passed", "prefetch")
    /\ request[k].unit \in OwnUnits
    /\ request' = [request EXCEPT ![k].found = ActiveMemberships(scope)]
    /\ UNCHANGED <<database, admin, decision>>

QueryGrants(k) ==
    /\ Respond(k, "prefetch")
    /\ decision' = [decision EXCEPT
         ![k] = Decide(request[k].found, scope.grants, request[k].unit)]
    /\ UNCHANGED <<database, admin>>

(* Django's password_change view, mounted by config/urls.py: the form saves    *)
(* every column of the request's user object, and update_session_auth_hash    *)
(* keeps this client logged in.                                                *)
ChangePassword(k) ==
    /\ k \in PasswordChangers
    /\ user.password < MaxPassword /\ Free(UserRow)
    /\ Respond(k, "passed")
    /\ user' = [version |-> request[k].user.version, password |-> user.password + 1]
    /\ session' = [session EXCEPT ![k].password = user.password + 1]
    /\ UNCHANGED <<scope, admin, decision>>

Serve(k) ==
    \/ Authenticate(k)
    \/ RecordSession(k)
    \/ Admit(k)
    \/ LogOut(k)
    \/ DenyForeign(k)
    \/ QueryMemberships(k)
    \/ QueryGrants(k)
    \/ ChangePassword(k)

Next ==
    \/ \E a \in Admins : Fetch(a) \/ Operate(a) \/ Fail(a)
    \/ \E k \in Clients : Serve(k)

Spec == Init /\ [][Next]_vars

(* The row a is waiting for or about to lock. *)
Wanted(a) ==
    LET c == call[a]
    IN CASE pc[a] = "insert" -> {GrantRow(c.membership, c.unit)}
         [] pc[a] = "called" /\ c.op = "revoke" /\ <<c.membership, c.unit>> \in scope.grants ->
              {GrantRow(c.membership, c.unit)}
         [] pc[a] = "called" /\ c.op = "set_active" /\ object[a].active # c.value ->
              {MembershipRow(c.membership)}
         [] pc[a] = "called" /\ c.op = "change_role" /\ object[a].role # c.value ->
              {MembershipRow(c.membership)}
         [] pc[a] = "written" -> {UserRow}
         [] OTHER -> {}

WaitsFor(a) ==
    {b \in Admins \ {a} : Wanted(a) \cap held[b] # {}}
    \cup (IF pc[a] = "checking" THEN Rivals(a) ELSE {})
    \cup (IF pc[a] = "bumped" THEN Blocking(a) ELSE {})

(* Each call in S waits for another one in S. *)
Deadlock(S) == S # {} /\ \A a \in S : WaitsFor(a) \cap S # {}

Deadlocked(a) == \E S \in SUBSET Admins : a \in S /\ Deadlock(S)

(* A call that was made keeps executing, is granted a row once it is free, and *)
(* raises when it is refused; the database aborts somebody of a deadlock;      *)
(* nobody has to call or to send a request.                                    *)
FairSpec ==
    /\ Spec
    /\ \A a \in Admins : WF_vars(Operate(a)) /\ WF_vars((Refused(a) \/ Deadlocked(a)) /\ Fail(a))

-------------------------------------------------------------------------------
(* Properties *)

Steps == {"new", "called", "insert", "refetch", "checking", "written", "bumped", "done", "failed"}

(* Types, and the roles of a user's memberships differ whatever changes race. *)
TypeOK ==
    /\ scope \in Scopes /\ RolesDiffer(scope)
    /\ user \in Users
    /\ \A k \in Clients : session[k] = None \/
         session[k] \in [version : Nat, password : Nat, entered : Nat, under : Scopes]
    /\ pc \in [Admins -> Steps]
    /\ held \in [Admins -> SUBSET Rows]
    /\ \A a \in Admins : pc[a] \notin {"new", "done", "failed"} =>
         /\ call[a] \in Operations
         /\ object[a] \in [active : BOOLEAN, role : Roles, user : Users]
         /\ draft[a] \in Nat \cup {None}
    /\ at \in [Clients -> {"idle", "login", "passed", "prefetch"}]
    /\ \A k \in Clients : at[k] # "idle" =>
         /\ request[k].user \in Users /\ request[k].under \in Scopes
         /\ request[k].unit \in Units \cup {None}
         /\ request[k].found \subseteq [membership : Memberships, role : Roles]

(* No accepted session outlives a change: each was recorded by a login that    *)
(* ran under the very scope that is committed now.  docs/mfa-recovery.md says  *)
(* so; a password change lets one survive.                                     *)
SessionsMatchScope ==
    \A k \in Clients :
        session[k] # None /\ Accepted(session[k], user) => session[k].under = scope

(* The same of the sessions a login has recorded since the password was last   *)
(* changed, however that login raced with changes of the scope or of the       *)
(* password: only the session that changed the password can be too old.        *)
LoginsMatchScope ==
    \A k \in Clients :
        session[k] # None /\ Accepted(session[k], user) /\ session[k].entered = user.password
            => session[k].under = scope

(* Once a change has made a session stale, nothing makes it acceptable again,  *)
(* not even a password change that puts an older version back.                 *)
StaleStaysStale ==
    [][\A k \in Clients :
         session[k] # None /\ ~Accepted(session[k], user) /\ session'[k] = session[k]
             => ~Accepted(session[k], user')]_vars

(* The decision reads memberships and grants in two queries.  If the user's   *)
(* version is still the one the middleware accepted, the two agree: it is the *)
(* decision of the committed scope.                                           *)
DecisionIsExact ==
    [][\A k \in Clients : at[k] = "prefetch" /\ at'[k] = "idle" /\ request[k].user = user
         => decision'[k] = DecisionIn(scope, request[k].unit)]_vars

(* Less never opens more: a change that only deactivates memberships or takes *)
(* grants away opens no unit, whichever roles the other memberships have.     *)
NarrowerScopeNarrowsAccess ==
    [][/\ scope'.role = scope.role /\ scope'.grants \subseteq scope.grants
       /\ \A m \in Memberships : scope'.active[m] => scope.active[m]
       => \A u \in Units : DecisionIn(scope', u) \in Allowing => DecisionIn(scope, u) \in Allowing]_vars

(* Broad roles do not open a sensitive unit: an access to one rests on a grant *)
(* that is committed when it is decided, whatever changed since the request    *)
(* read the memberships.                                                       *)
SensitiveByGrantOnly ==
    [][\A k \in Clients :
         request[k] # None /\ request[k].unit \in SensitiveUnits
         /\ decision'[k] \in Allowing /\ decision'[k] # decision[k]
             => \E m \in Memberships : <<m, request[k].unit>> \in scope.grants]_vars

(* Racing grants or revocations of one unit count once: a call bumps the      *)
(* version, and logs the user out, exactly if it changed the grants.          *)
GrantBumpsAreReal ==
    [][\A a \in Admins :
         pc'[a] = "done" /\ pc[a] # "done" /\ call[a].op \in {"grant", "revoke"}
             => (user'.version # user.version <=> scope'.grants # scope.grants)]_vars

(* Grants, revocations, activations and deactivations never deadlock among     *)
(* themselves, in whatever order they take their rows and the user's: every    *)
(* deadlock has a role change in it.                                           *)
DeadlocksChangeRoles ==
    \A S \in SUBSET Admins : Deadlock(S) => S \cap RoleChanges # {}

(* No call waits for ever, on a row, on an index entry or in a deadlock. *)
CallsEnd == \A a \in Admins : pc[a] = "called" ~> pc[a] \in {"done", "failed"}

===============================================================================

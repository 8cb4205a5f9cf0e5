------------------------------ MODULE MfaSession ------------------------------
(***************************************************************************)
(* The login, MFA and logout views (apps/accounts/views.py) and the        *)
(* middleware in front of them, as requests of one user that run at once   *)
(* over the rows they share: the user, its TOTP devices, its recovery      *)
(* codes and its sessions.  A view runs in autocommit, so each of its      *)
(* statements is a step; a session is read once, worked on in memory and   *)
(* written back whole with the response.  Only flush() and cycle_key()     *)
(* touch its rows before that: they delete the old one, and cycle_key()    *)
(* inserts a row under the new key at once.                                *)
(*                                                                         *)
(* Codes and devices stand for the tokens they accept.  A call of          *)
(* apps/accounts/services.py or apps/accounts/audit.py is one step here    *)
(* (RecoveryCodes and AuditChain model their inside), and reset_mfa and    *)
(* the tenancy operations are one step each.  The user row is never        *)
(* deleted or deactivated: no code of the repository does.                 *)
(***************************************************************************)
EXTENDS Naturals, FiniteSets

CONSTANTS
    Requests,     \* requests, each made once
    Browsers,     \* cookie jars they are made from
    Kinds,        \* what they may ask for: members of AllKinds
    First,        \* the device and the code an account may have at first
    MaxAttempts,  \* MAX_MFA_ATTEMPTS
    MaxVersion,   \* bound: the authorization version stays below it
    None          \* "nothing there"

AllKinds == {"login", "verify", "start", "confirm", "logout", "visit"}

Rows == Requests                  \* a session row is named for the request that made it
Devices == Requests \cup {First}  \* a device too, and a batch of recovery codes

ASSUME KindsAssumption == Kinds \subseteq AllKinds
ASSUME FirstAssumption == First \notin Requests /\ None \notin Devices
ASSUME AttemptsAssumption == MaxAttempts \in Nat \ {0}
ASSUME VersionAssumption == MaxVersion \in Nat \ {0}

VARIABLES
    version,     \* User.authorization_version
    privileged,  \* an active membership has one of PRIVILEGED_ROLES
    device,      \* device[d]: absent, pending or confirmed
    codes,       \* the unused recovery codes
    store,       \* store[r]: the dictionary of session row r, or None
    cookie,      \* cookie[b]: the session key browser b holds, or None
    req,         \* req[q]: where request q is, and its locals
    events,      \* the authentication events on record
    withdrawn    \* history: the devices reset_mfa has deleted

account == <<version, privileged, device, codes, withdrawn>>
web == <<store, cookie>>
vars == <<account, web, req, events>>

(* request.session.  "how" and "proof" are history: which branch wrote the login, *)
(* and the version when the second factor was checked.                            *)
Empty == [login |-> FALSE, version |-> 0, device |-> None,
          preauth |-> FALSE, attempts |-> 0, how |-> "none", proof |-> 0]

Locals(b, k) ==
    [at |-> "new", kind |-> k, browser |-> b, sent |-> None, loaded |-> None,
     key |-> None, data |-> Empty, touched |-> FALSE, version |-> 0, devices |-> {},
     device |-> None, proof |-> 0, refused |-> FALSE]

Init ==
    /\ version = 1
    /\ privileged \in BOOLEAN
    /\ \E state \in {"absent", "confirmed"} :
         /\ device = [d \in Devices |-> IF d = First THEN state ELSE "absent"]
         /\ codes = IF state = "confirmed" THEN {First} ELSE {}
    /\ store = [r \in Rows |-> None]
    /\ cookie = [b \in Browsers |-> None]
    /\ req \in [Requests -> {Locals(b, k) : b \in Browsers, k \in Kinds}]
    /\ events = {}
    /\ withdrawn = {}

-------------------------------------------------------------------------------
(* The session and the middleware *)

(* q, at step "from", goes on to step "to" with its locals changed to l. *)
At(q, step) == req[q].at = step
Become(q, l) == req' = [req EXCEPT ![q] = l]
GoTo(q, to) == Become(q, [req[q] EXCEPT !.at = to])

(* flush(): the row goes at once, the dictionary is empty, and what is saved *)
(* later is a new row.  Mutant: only the dictionary is emptied.              *)
FlushInMemory(q) == store' = store
DropRow(q) == store' = IF req[q].key \in Rows THEN [store EXCEPT ![req[q].key] = None] ELSE store
Flushed(q, to, data) ==
    [req[q] EXCEPT !.at = to, !.key = q, !.data = data, !.touched = TRUE]

(* The session of the cookie the browser sends, unless its row is gone or expired. *)
Load(q) ==
    /\ At(q, "new")
    /\ \E found \in BOOLEAN :
         LET r == cookie[req[q].browser]
         IN /\ found => r # None /\ store[r] # None
            /\ Become(q, [req[q] EXCEPT !.at = "loaded", !.sent = r,
                            !.loaded = IF found THEN r ELSE None,
                            !.key = IF found THEN r ELSE q,
                            !.data = IF found THEN store[r] ELSE Empty])
    /\ UNCHANGED <<account, web, events>>

(* request.user: nobody, or the user as the row is now. *)
ReadUser(q) ==
    /\ At(q, "loaded")
    /\ IF req[q].data.login
       THEN Become(q, [req[q] EXCEPT !.at = "identified", !.version = version])
       ELSE GoTo(q, req[q].kind)
    /\ UNCHANGED <<account, web, events>>

(* A session of another version is logged out. *)
LogOutStale(q) ==
    /\ At(q, "identified")
    /\ req[q].data.version # req[q].version
    /\ DropRow(q)
    /\ Become(q, Flushed(q, "reply", Empty))
    /\ UNCHANGED <<account, cookie, events>>

(* The others reach their view; a second factor whose device is gone is taken *)
(* out of the session on the way (OTPMiddleware).                             *)
Admit(q) ==
    /\ At(q, "identified")
    /\ req[q].data.version = req[q].version
    /\ LET d == req[q].data.device
           gone == d # None /\ d \in {e \in Devices : device[e] = "absent"}
       IN Become(q, [req[q] EXCEPT !.at = req[q].kind,
                       !.touched = gone,
                       !.data.device = IF gone THEN None ELSE @])
    /\ UNCHANGED <<account, web, events>>

(* Any other page: served, or redirected to the enrolment. *)
Visit(q) ==
    /\ At(q, "visit")
    /\ GoTo(q, "reply")
    /\ UNCHANGED <<account, web, events>>

(* The response: a touched session is saved, as a new row or over the row it *)
(* came from if that is still there (otherwise the request is refused), and  *)
(* the browser gets its key; an empty one takes the browser's key away.      *)
Reply(q) ==
    LET l == req[q]
        saved == l.touched /\ l.data # Empty
        refused == saved /\ l.key # q /\ store[l.key] = None
    IN /\ At(q, "reply")
       /\ GoTo(q, IF refused THEN "failed" ELSE "done")
       /\ store' = IF saved /\ ~refused THEN [store EXCEPT ![l.key] = l.data] ELSE store
       /\ cookie' = CASE refused -> cookie
                      [] saved /\ ~refused -> [cookie EXCEPT ![l.browser] = l.key]
                      [] l.data = Empty /\ l.sent # None -> [cookie EXCEPT ![l.browser] = None]
                      [] OTHER -> cookie
       /\ UNCHANGED <<account, events>>

(* An exception or a killed worker: nothing is saved. *)
Fail(q) ==
    /\ req[q].at \notin {"new", "done", "failed"}
    /\ GoTo(q, "failed")
    /\ UNCHANGED <<account, web, events>>

Record(q, action, to) ==
    /\ events' = events \cup {<<q, action>>}
    /\ GoTo(q, to)
    /\ UNCHANGED <<account, web>>

(* What _record_session_version writes: the version of the user object the  *)
(* request works with.  Mutant: the one in the database by then.            *)
FreshVersion(q) == version
ObjectVersion(q) == req[q].version

-------------------------------------------------------------------------------
(* login_view *)

(* A wrong password; an unknown name leaves no event. *)
RefusePassword(q) ==
    /\ At(q, "login")
    /\ \/ Record(q, "failed", "reply")
       \/ GoTo(q, "reply") /\ UNCHANGED <<account, web, events>>

Authenticate(q) ==
    /\ At(q, "login")
    /\ Become(q, [req[q] EXCEPT !.at = "authenticated", !.version = version])
    /\ UNCHANGED <<account, web, events>>

RecordPassword(q) ==
    /\ At(q, "authenticated")
    /\ Record(q, "password_accepted", "role")

(* auth_login gives a session that is nobody's a new key: cycle_key() inserts a  *)
(* row with the dictionary as it is, then deletes the old row (DropOld), and the *)
(* response writes the login over the new row.  In memory the login is set with  *)
(* the insert, which nobody sees.  Mutant: the session keeps its key.            *)
KeepKey(q) == FALSE
NewKey(q) == ~req[q].data.login
Insert(q) == store' = [store EXCEPT ![q] = req[q].data]

LogIn(q, how) ==
    /\ IF NewKey(q) THEN Insert(q) ELSE UNCHANGED store
    /\ Become(q, [req[q] EXCEPT !.at = IF NewKey(q) THEN "cycled" ELSE "reply",
                    !.key = IF NewKey(q) THEN q ELSE @, !.touched = TRUE,
                    !.data.login = TRUE, !.data.version = ObjectVersion(q),
                    !.data.how = how])
    /\ UNCHANGED <<account, cookie, events>>

DropOld(q) ==
    /\ At(q, "cycled")
    /\ store' = IF req[q].loaded = None THEN store ELSE [store EXCEPT ![req[q].loaded] = None]
    /\ GoTo(q, "reply")
    /\ UNCHANGED <<account, cookie, events>>

LogInUnprivileged(q) ==
    /\ At(q, "role")
    /\ ~privileged
    /\ LogIn(q, "unprivileged")

FindPrivilege(q) ==
    /\ At(q, "role")
    /\ privileged
    /\ GoTo(q, "factor")
    /\ UNCHANGED <<account, web, events>>

Confirmed == {d \in Devices : device[d] = "confirmed"}
Pending == {d \in Devices : device[d] = "pending"}

LogInToEnrol(q) ==
    /\ At(q, "factor")
    /\ Confirmed = {}
    /\ LogIn(q, "enrolling")

AwaitFactor(q) ==
    /\ At(q, "factor")
    /\ Confirmed # {}
    /\ DropRow(q)
    /\ Become(q, Flushed(q, "reply", [Empty EXCEPT !.preauth = TRUE]))
    /\ UNCHANGED <<account, cookie, events>>

-------------------------------------------------------------------------------
(* verify_mfa *)

(* No pre-authentication in the session: back to the login. *)
RefuseVerify(q) ==
    /\ At(q, "verify")
    /\ ~req[q].data.preauth
    /\ GoTo(q, "reply")
    /\ UNCHANGED <<account, web, events>>

ReadCandidateUser(q) ==
    /\ At(q, "verify")
    /\ req[q].data.preauth
    /\ Become(q, [req[q] EXCEPT !.at = "devices", !.version = version])
    /\ UNCHANGED <<account, web, events>>

ListDevices(q) ==
    /\ At(q, "devices")
    /\ Become(q, [req[q] EXCEPT !.at = "check", !.devices = Confirmed])
    /\ UNCHANGED <<account, web, events>>

(* verify_token saves the whole object, accepted or not, over the row as it is: *)
(* a row that is gone is inserted again.  A throttled device saves nothing.     *)
SaveObjects(S, state) ==
    device' = [d \in Devices |-> IF d \in S THEN state ELSE device[d]]

AcceptToken(q) ==
    /\ At(q, "check")
    /\ \E d \in req[q].devices, S \in SUBSET req[q].devices :
         /\ d \in S
         /\ SaveObjects(S, "confirmed")
         /\ Become(q, [req[q] EXCEPT !.at = "proved", !.device = d, !.proof = version])
    /\ UNCHANGED <<version, privileged, codes, withdrawn, web, events>>

RefuseToken(q) ==
    /\ At(q, "check")
    /\ \E S \in SUBSET req[q].devices : SaveObjects(S, "confirmed")
    /\ GoTo(q, "code")
    /\ UNCHANGED <<version, privileged, codes, withdrawn, web, events>>

(* A recovery code stands in for the first device of the list. *)
AcceptCode(q) ==
    /\ At(q, "code")
    /\ \E c \in codes : codes' = codes \ {c}
    /\ \E d \in IF req[q].devices = {} THEN {None} ELSE req[q].devices :
         Become(q, [req[q] EXCEPT !.at = "proved", !.device = d, !.proof = version])
    /\ UNCHANGED <<version, privileged, device, withdrawn, web, events>>

(* Neither.  Mutant: one attempt more than MAX_MFA_ATTEMPTS. *)
ExhaustedLate(n) == n > MaxAttempts
Exhausted(n) == n >= MaxAttempts

RefuseFactor(q) ==
    /\ At(q, "code")
    /\ LET attempts == req[q].data.attempts + 1
       IN IF Exhausted(attempts)
          THEN /\ DropRow(q)
               /\ Become(q, [Flushed(q, "reply", Empty) EXCEPT !.refused = TRUE])
          ELSE /\ UNCHANGED store
               /\ Become(q, [req[q] EXCEPT !.at = "reply", !.touched = TRUE,
                               !.data.attempts = attempts, !.refused = TRUE])
    /\ UNCHANGED <<account, cookie, events>>

VerifiedData(q) ==
    [Empty EXCEPT !.login = TRUE, !.version = ObjectVersion(q), !.device = req[q].device,
                  !.how = "verified", !.proof = req[q].proof]

FlushProved(q) ==
    /\ At(q, "proved")
    /\ DropRow(q)
    /\ Become(q, Flushed(q, "flushed", Empty))
    /\ UNCHANGED <<account, cookie, events>>

(* auth_login inserts the new row, empty as the session is; then devices[0] raises *)
(* if the list is empty.  The event comes before the response.  Mutant: it is left *)
(* out.                                                                            *)
AfterProofUnrecorded(q) == IF req[q].device = None THEN "failed" ELSE "reply"
AfterProof(q) == IF req[q].device = None THEN "failed" ELSE "verified"
LogInVerified(q) ==
    /\ At(q, "flushed")
    /\ Insert(q)
    /\ Become(q, [req[q] EXCEPT !.at = AfterProof(q), !.key = q, !.data = VerifiedData(q)])
    /\ UNCHANGED <<account, cookie, events>>

RecordVerified(q) ==
    /\ At(q, "verified")
    /\ Record(q, "mfa_accepted", "reply")

-------------------------------------------------------------------------------
(* setup_mfa *)

(* @login_required, and the query for the role. *)
RefuseSetup(q) ==
    /\ req[q].at \in {"start", "confirm"}
    /\ ~req[q].data.login \/ ~privileged
    /\ GoTo(q, "reply")
    /\ UNCHANGED <<account, web, events>>

AllowSetup(q) ==
    /\ req[q].at \in {"start", "confirm"}
    /\ req[q].data.login /\ privileged
    /\ GoTo(q, IF At(q, "start") THEN "delete" ELSE "pending")
    /\ UNCHANGED <<account, web, events>>

(* "start" deletes what is pending and creates a device, in two statements. *)
DeletePending(q) ==
    /\ At(q, "delete")
    /\ SaveObjects(Pending, "absent")
    /\ GoTo(q, "create")
    /\ UNCHANGED <<version, privileged, codes, withdrawn, web, events>>

CreateDevice(q) ==
    /\ At(q, "create")
    /\ SaveObjects({q}, "pending")
    /\ GoTo(q, "reply")
    /\ UNCHANGED <<version, privileged, codes, withdrawn, web, events>>

(* "confirm" fetches the pending device, if there is one, ... *)
FindPending(q) ==
    /\ At(q, "pending")
    /\ \/ /\ Pending = {}
          /\ GoTo(q, "reply")
       \/ \E d \in Pending : Become(q, [req[q] EXCEPT !.at = "token", !.device = d])
    /\ UNCHANGED <<account, web, events>>

(* ... checks the token, which saves the object as it was fetched, ... *)
AcceptPending(q) ==
    /\ At(q, "token")
    /\ SaveObjects({req[q].device}, "pending")
    /\ Become(q, [req[q] EXCEPT !.at = "confirmed", !.proof = version])
    /\ UNCHANGED <<version, privileged, codes, withdrawn, web, events>>

RefusePending(q) ==
    /\ At(q, "token")
    /\ \E S \in SUBSET {req[q].device} : SaveObjects(S, "pending")
    /\ GoTo(q, "reply")
    /\ UNCHANGED <<version, privileged, codes, withdrawn, web, events>>

(* ... updates the one column, which raises if the row is gone, ... *)
Confirm(q) ==
    /\ At(q, "confirmed")
    /\ device[req[q].device] # "absent"
    /\ SaveObjects({req[q].device}, "confirmed")
    /\ GoTo(q, "codes")
    /\ UNCHANGED <<version, privileged, codes, withdrawn, web, events>>

(* ... replaces the codes in a transaction of its own, and marks the session. *)
IssueCodes(q) ==
    /\ At(q, "codes")
    /\ codes' = {q}
    /\ Become(q, [req[q] EXCEPT !.at = "enrolled", !.touched = TRUE,
                    !.data.device = req[q].device, !.data.version = ObjectVersion(q),
                    !.data.how = "verified", !.data.proof = req[q].proof])
    /\ UNCHANGED <<version, privileged, device, withdrawn, web, events>>

RecordEnrolled(q) ==
    /\ At(q, "enrolled")
    /\ Record(q, "mfa_enrolled", "reply")

-------------------------------------------------------------------------------
(* logout_view, and what happens to the account meanwhile *)

RecordLogout(q) ==
    /\ At(q, "logout")
    /\ req[q].data.login
    /\ Record(q, "logout", "leave")

LogOut(q) ==
    /\ At(q, "leave") \/ (At(q, "logout") /\ ~req[q].data.login)
    /\ DropRow(q)
    /\ Become(q, Flushed(q, "reply", Empty))
    /\ UNCHANGED <<account, cookie, events>>

(* bump_authorization_version.  Mutant: it is not called. *)
Unbumped == version' = version
Bump == version' = version + 1

(* reset_mfa by an administrator it accepts. *)
ResetMfa ==
    /\ version < MaxVersion
    /\ withdrawn' = withdrawn \cup {d \in Devices : device[d] # "absent"}
    /\ device' = [d \in Devices |-> "absent"]
    /\ codes' = {}
    /\ Bump
    /\ UNCHANGED <<privileged, web, req, events>>

(* A membership or a grant changes; so may whether the user has a privileged role. *)
ChangeScope ==
    /\ version < MaxVersion
    /\ privileged' \in BOOLEAN
    /\ Bump
    /\ UNCHANGED <<device, codes, withdrawn, web, req, events>>

Session(q) == Load(q) \/ ReadUser(q) \/ LogOutStale(q) \/ Admit(q) \/ Visit(q) \/ Reply(q)

Login(q) ==
    \/ RefusePassword(q) \/ Authenticate(q) \/ RecordPassword(q)
    \/ LogInUnprivileged(q) \/ FindPrivilege(q) \/ LogInToEnrol(q) \/ DropOld(q)
    \/ AwaitFactor(q)

Verify(q) ==
    \/ RefuseVerify(q) \/ ReadCandidateUser(q) \/ ListDevices(q)
    \/ AcceptToken(q) \/ RefuseToken(q) \/ AcceptCode(q) \/ RefuseFactor(q)
    \/ FlushProved(q) \/ LogInVerified(q) \/ RecordVerified(q)

Setup(q) ==
    \/ RefuseSetup(q) \/ AllowSetup(q) \/ DeletePending(q) \/ CreateDevice(q)
    \/ FindPending(q) \/ AcceptPending(q) \/ RefusePending(q) \/ Confirm(q)
    \/ IssueCodes(q) \/ RecordEnrolled(q)

Next ==
    \/ \E q \in Requests :
         Session(q) \/ Login(q) \/ Verify(q) \/ Setup(q)
         \/ RecordLogout(q) \/ LogOut(q) \/ Fail(q)
    \/ ResetMfa
    \/ ChangeScope

Spec == Init /\ [][Next]_vars

-------------------------------------------------------------------------------
(* Properties *)

Steps == {"new", "loaded", "identified", "reply", "done", "failed",
          "authenticated", "role", "factor", "cycled", "devices", "check", "code",
          "proved", "flushed", "verified", "delete", "create", "pending", "token", "confirmed", "codes",
          "enrolled", "leave"} \cup AllKinds

Dictionaries ==
    [login : BOOLEAN, version : 0 .. MaxVersion, device : Devices \cup {None},
     preauth : BOOLEAN, attempts : 0 .. MaxAttempts - 1,
     how : {"none", "unprivileged", "enrolling", "verified"}, proof : 0 .. MaxVersion]

LocalStates ==
    [at : Steps, kind : AllKinds, browser : Browsers,
     sent : Rows \cup {None}, loaded : Rows \cup {None}, key : Rows \cup {None},
     data : Dictionaries, touched : BOOLEAN, version : 0 .. MaxVersion,
     devices : SUBSET Devices, device : Devices \cup {None}, proof : 0 .. MaxVersion,
     refused : BOOLEAN]

Actions == {"failed", "password_accepted", "mfa_accepted", "mfa_enrolled", "logout"}

(* Every column and local holds what it can hold; in particular a dictionary *)
(* that is kept has used up fewer than MAX_MFA_ATTEMPTS.                     *)
TypeOK ==
    /\ version \in 1 .. MaxVersion
    /\ privileged \in BOOLEAN
    /\ device \in [Devices -> {"absent", "pending", "confirmed"}]
    /\ codes \subseteq Devices
    /\ withdrawn \subseteq Devices
    /\ store \in [Rows -> Dictionaries \cup {None}]
    /\ cookie \in [Browsers -> Rows \cup {None}]
    /\ req \in [Requests -> LocalStates]
    /\ events \subseteq Requests \X Actions

Accepted(r) == store[r] # None /\ store[r].login /\ store[r].version = version

(* A session accepted as verified proved its second factor under the version it *)
(* is accepted with: no reset and no change of role lies between, although the   *)
(* views check the factor on objects older than their rows.                      *)
VerifiedIsCurrent ==
    \A r \in Rows : Accepted(r) /\ store[r].how = "verified" => store[r].proof = version

(* A login that skipped the second step because the user had no privileged role *)
(* is never an accepted session of a privileged user.                            *)
SkippedIsUnprivileged ==
    \A r \in Rows : Accepted(r) /\ store[r].how = "unprivileged" => ~privileged

(* After a logout the session it loaded is over, whatever requests still work on *)
(* a copy of it.                                                                 *)
LoggedOutStaysOut ==
    \A q \in Requests :
        At(q, "done") /\ req[q].kind = "logout" /\ req[q].loaded # None =>
            store[req[q].loaded] = None

(* A session grants nothing that is not on record by then: the password that    *)
(* opened it, the second factor or the enrolment that verified it.               *)
RecordedFirst ==
    \A r \in Rows : store[r] # None =>
        /\ store[r].preauth \/ store[r].login =>
             \E a \in {"password_accepted", "mfa_accepted"} : <<r, a>> \in events
        /\ store[r].login /\ store[r].how = "verified" =>
             \/ <<r, "mfa_accepted">> \in events
             \/ \E q \in Requests : req[q].loaded = r /\ <<q, "mfa_enrolled">> \in events

(* A login takes a session key nobody knew before: a row that is not a user's    *)
(* never becomes one's once a browser holds its key or has sent it.  The response *)
(* of a login does write over an anonymous row, the one cycle_key() has inserted. *)
KnownKey(r) == (\E b \in Browsers : cookie[b] = r) \/ \E q \in Requests : req[q].sent = r
LoginTakesNewRow ==
    [][\A r \in Rows :
         (KnownKey(r) /\ store[r] # None /\ ~store[r].login) =>
             (store'[r] = None \/ ~store'[r].login)]_vars

(* "Repeated second-factor failures discard the five-minute pre-authentication   *)
(* session after five attempts" (docs/mfa-recovery.md:5): no more than that many *)
(* are ever made with one.                                                       *)
FailuresOf(r) == {q \in Requests : req[q].refused /\ req[q].loaded = r}
AttemptsBounded == \A r \in Rows : Cardinality(FailuresOf(r)) <= MaxAttempts

(* reset_mfa "deletes the target's devices and recovery codes"                  *)
(* (docs/mfa-recovery.md:7): they do not come back.                             *)
ResetIsFinal == \A d \in withdrawn : device[d] = "absent"
===============================================================================

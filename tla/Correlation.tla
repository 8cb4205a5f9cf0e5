------------------------------ MODULE Correlation ------------------------------
(***************************************************************************)
(* The correlation id of an audit event: CorrelationIdMiddleware and the   *)
(* context variable it sets (apps/audit/middleware.py, context.py), and    *)
(* the choice append_event makes (apps/audit/services.py:63).  A worker    *)
(* thread serves one request after another and may append events between   *)
(* them (a management command, a test); each thread has a context of its   *)
(* own.  An id stands for every spelling uuid.UUID() accepts for it.       *)
(***************************************************************************)
EXTENDS Naturals, Sequences

CONSTANTS
    Workers,    \* threads
    Requests,   \* requests, each made once
    ClientIds,  \* ids clients make up
    None,       \* no header, no id, no request
    Malformed,  \* a header uuid.UUID() refuses
    MaxEvents   \* bound: events appended

Uuid(n) == <<"uuid", n>>

ASSUME NoneAssumption == None \notin Requests \cup ClientIds /\ Malformed \notin ClientIds
ASSUME UuidAssumption == \A i \in ClientIds \cup {None, Malformed} : i \notin {"uuid"} \X Nat
ASSUME EventsAssumption == MaxEvents \in Nat

VARIABLES
    context,  \* context[w]: the context variable in thread w
    token,    \* token[w]: its value before the request, kept for the reset
    serving,  \* serving[w]: the request w is serving, or None
    header,   \* header[r]: the X-Correlation-ID it came with
    id,       \* id[r]: request.correlation_id, None before it arrives
    answer,   \* answer[r]: the X-Correlation-ID of its response, or None
    events,   \* the appended events: request (or None) and correlation id
    issued    \* how many ids uuid4() has made

vars == <<context, token, serving, header, id, answer, events, issued>>

Init ==
    /\ context = [w \in Workers |-> None]
    /\ token = [w \in Workers |-> None]
    /\ serving = [w \in Workers |-> None]
    /\ header = [r \in Requests |-> None]
    /\ id = [r \in Requests |-> None]
    /\ answer = [r \in Requests |-> None]
    /\ events = <<>>
    /\ issued = 0

(* uuid4(): an id nobody has seen.  Mutant: made once, when the module loads. *)
IdAtImport == Uuid(1)
NewId == Uuid(issued + 1)

(* Ids that clients made up, and those uuid4() has made. *)
Ids == ClientIds \cup {Uuid(n) : n \in 1 .. issued}

(* What a client can put into the header: any id there is, wherever it got it. *)
Headers == {None, Malformed} \cup Ids

(* The header's id if it has one, else a new id, is set in the context. *)
Arrive(w, r) ==
    /\ serving[w] = None
    /\ id[r] = None
    /\ serving' = [serving EXCEPT ![w] = r]
    /\ token' = [token EXCEPT ![w] = context[w]]
    /\ \E h \in Headers :
         /\ header' = [header EXCEPT ![r] = h]
         /\ LET fresh == h \in {None, Malformed}
                value == IF fresh THEN NewId ELSE h
            IN /\ id' = [id EXCEPT ![r] = value]
               /\ context' = [context EXCEPT ![w] = value]
               /\ issued' = IF fresh THEN issued + 1 ELSE issued
    /\ UNCHANGED <<answer, events>>

(* append_event in thread w, in a request or outside one.  No caller in src/  *)
(* passes a correlation_id of its own.  Mutants: the context is not asked;    *)
(* nothing else is.                                                           *)
IdWithoutContext(w) == NewId
IdFromContextOnly(w) == context[w]
IdOfEvent(w) == IF context[w] # None THEN context[w] ELSE NewId

AppendEvent(w) ==
    /\ Len(events) < MaxEvents
    /\ events' = Append(events, [request |-> serving[w], id |-> IdOfEvent(w)])
    /\ issued' = IF context[w] = None THEN issued + 1 ELSE issued
    /\ UNCHANGED <<context, token, serving, header, id, answer>>

(* The finally clause.  Mutant: the context keeps the request's id. *)
KeepContext(w) == context' = context
ResetContext(w) == context' = [context EXCEPT ![w] = token[w]]

Respond(w) ==
    LET r == serving[w]
    IN /\ r # None
       /\ ResetContext(w)
       /\ answer' = [answer EXCEPT ![r] = id[r]]
       /\ serving' = [serving EXCEPT ![w] = None]
       /\ token' = [token EXCEPT ![w] = None]
       /\ UNCHANGED <<header, id, events, issued>>

(* An exception passes through the middleware: no response of its own. *)
Raise(w) ==
    /\ serving[w] # None
    /\ ResetContext(w)
    /\ serving' = [serving EXCEPT ![w] = None]
    /\ token' = [token EXCEPT ![w] = None]
    /\ UNCHANGED <<header, id, answer, events, issued>>

Next ==
    \E w \in Workers :
        \/ \E r \in Requests : Arrive(w, r)
        \/ AppendEvent(w)
        \/ Respond(w)
        \/ Raise(w)

Spec == Init /\ [][Next]_vars

-------------------------------------------------------------------------------
(* Properties *)

(* Types.  Every event has an id, though a thread may have none in its context. *)
TypeOK ==
    /\ issued \in Nat
    /\ context \in [Workers -> Ids \cup {None}]
    /\ token \in [Workers -> Ids \cup {None}]
    /\ serving \in [Workers -> Requests \cup {None}]
    /\ header \in [Requests -> Ids \cup {None, Malformed}]
    /\ id \in [Requests -> Ids \cup {None}]
    /\ answer \in [Requests -> Ids \cup {None}]
    /\ events \in Seq([request : Requests \cup {None}, id : Ids])

(* Every event of a request carries the id the client is told, whatever other  *)
(* requests and work its thread and the others do meanwhile.                   *)
EventsFollowRequest ==
    /\ \A n \in DOMAIN events : events[n].request # None =>
         events[n].id = id[events[n].request]
    /\ \A r \in Requests : answer[r] \in {None, id[r]}

(* Nobody comes into a trace unasked: two requests have one id only if one of  *)
(* them asked for it, an event outside the requests shares its id only with    *)
(* requests that asked for it, and two such events never share one.            *)
TracesApart ==
    /\ \A q, r \in Requests : q # r /\ id[q] # None /\ id[q] = id[r] =>
         header[q] = id[q] \/ header[r] = id[r]
    /\ \A n \in DOMAIN events : events[n].request = None =>
         /\ \A m \in DOMAIN events \ {n} : events[m].id = events[n].id => events[m].request # None
         /\ \A r \in Requests : id[r] = events[n].id => header[r] = id[r]

===============================================================================

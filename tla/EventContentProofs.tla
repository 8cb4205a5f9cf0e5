--------------------------- MODULE EventContentProofs --------------------------
(***************************************************************************)
(* Theorems about Correlation and EventContent for any threads, requests   *)
(* and client ids, and for any data that ends somewhere.                   *)
(***************************************************************************)
EXTENDS EventContent, WellFoundedInduction, TLAPS

USE NoneAssumption, UuidAssumption, EventsAssumption

(* The id that uuid4() makes next is nobody's yet. *)
LEMMA NewIsFresh ==
  ASSUME issued \in Nat
  PROVE  NewId \notin Ids
<1>1. NewId \notin ClientIds
  BY DEF NewId, Uuid
<1>2. ASSUME NEW n \in 1 .. issued PROVE NewId # Uuid(n)
  BY DEF NewId, Uuid
<1>3. QED
  BY <1>1, <1>2 DEF Ids

-------------------------------------------------------------------------------
(* Type correctness *)

LEMMA TypeInit == Init => TypeOK
  BY DEF Init, TypeOK, Ids

(* As long as ids only become more, a state that keeps its ids keeps its type. *)
LEMMA IdsGrow ==
  ASSUME issued \in Nat, issued' \in {issued, issued + 1}
  PROVE  Ids \subseteq Ids'
  BY DEF Ids

LEMMA WiderSeq ==
  ASSUME NEW S, NEW T, S \subseteq T
  PROVE  Seq(S) \subseteq Seq(T)
<1> SUFFICES ASSUME NEW s \in Seq(S) PROVE s \in Seq(T)
  OBVIOUS
<1>1. s \in [1 .. Len(s) -> T] /\ Len(s) \in Nat
  OBVIOUS
<1>2. QED
  BY <1>1

LEMMA Element ==
  ASSUME NEW S, NEW s \in Seq(S), NEW n \in DOMAIN s
  PROVE  s[n] \in S
  OBVIOUS

(* The events of a state. *)
EventSet == [request : Requests \cup {None}, id : Ids]

LEMMA ArriveTyped ==
  ASSUME TypeOK, NEW w \in Workers, NEW r \in Requests, Arrive(w, r)
  PROVE  TypeOK'
<1>1. PICK h \in Headers :
        /\ header' = [header EXCEPT ![r] = h]
        /\ LET fresh == h \in {None, Malformed}
               value == IF fresh THEN NewId ELSE h
           IN /\ id' = [id EXCEPT ![r] = value]
              /\ context' = [context EXCEPT ![w] = value]
              /\ issued' = IF fresh THEN issued + 1 ELSE issued
  BY DEF Arrive
<1> DEFINE value == IF h \in {None, Malformed} THEN NewId ELSE h
<1>2. h \in Ids \cup {None, Malformed}
  BY DEF Headers, TypeOK, Ids
<1>3. issued' \in Nat /\ issued' \in {issued, issued + 1} /\ Ids \subseteq Ids'
  BY <1>1, IdsGrow DEF TypeOK
<1>4. value \in Ids'
  BY <1>1, <1>2, <1>3 DEF TypeOK, NewId, Ids
<1>5. id' \in [Requests -> Ids' \cup {None}] /\ context' \in [Workers -> Ids' \cup {None}]
  BY <1>1, <1>3, <1>4 DEF TypeOK
<1>6. header' \in [Requests -> Ids' \cup {None, Malformed}]
  BY <1>1, <1>2, <1>3 DEF TypeOK
<1>7. events' \in Seq(EventSet')
  <2>1. events \in Seq(EventSet) /\ events' = events
    BY DEF TypeOK, Arrive, EventSet
  <2>2. EventSet \subseteq EventSet'
    BY <1>3 DEF EventSet
  <2>3. QED
    BY <2>1, <2>2, WiderSeq
<1>8. serving' \in [Workers -> Requests \cup {None}] /\ token' \in [Workers -> Ids' \cup {None}]
  BY <1>3 DEF TypeOK, Arrive
<1>9. answer' \in [Requests -> Ids' \cup {None}]
  BY <1>3 DEF TypeOK, Arrive
<1>10. QED
  BY <1>3, <1>5, <1>6, <1>7, <1>8, <1>9 DEF TypeOK, EventSet

LEMMA EventTyped ==
  ASSUME TypeOK, NEW w \in Workers, AppendEvent(w)
  PROVE  TypeOK'
<1>1. issued' \in Nat /\ issued' \in {issued, issued + 1} /\ Ids \subseteq Ids'
  BY IdsGrow DEF TypeOK, AppendEvent
<1>2. IdOfEvent(w) \in Ids'
  BY <1>1 DEF TypeOK, AppendEvent, IdOfEvent, NewId, Ids
<1>3. events' \in Seq(EventSet')
  <2>1. events \in Seq(EventSet')
    <3>1. EventSet \subseteq EventSet'
      BY <1>1 DEF EventSet
    <3>2. events \in Seq(EventSet)
      BY DEF TypeOK, EventSet
    <3>3. QED
      BY <3>1, <3>2, WiderSeq
  <2>2. [request |-> serving[w], id |-> IdOfEvent(w)] \in EventSet'
    BY <1>2 DEF TypeOK, EventSet
  <2>3. QED
    BY <2>1, <2>2 DEF AppendEvent
<1>4. QED
  BY <1>1, <1>3 DEF TypeOK, AppendEvent, EventSet

LEMMA EndTyped ==
  ASSUME TypeOK, NEW w \in Workers, Respond(w) \/ Raise(w)
  PROVE  TypeOK'
<1>1. serving[w] \in Requests
  BY DEF Respond, Raise, TypeOK
<1>2. Ids' = Ids
  BY DEF Ids, Respond, Raise
<1>3. QED
  BY <1>1, <1>2 DEF TypeOK, Respond, Raise, ResetContext

LEMMA TypeStep == TypeOK /\ [Next]_vars => TypeOK'
<1> SUFFICES ASSUME TypeOK, [Next]_vars PROVE TypeOK'
  OBVIOUS
<1>1. CASE Next
  BY <1>1, ArriveTyped, EventTyped, EndTyped DEF Next
<1>2. CASE UNCHANGED vars
  BY <1>2 DEF TypeOK, Ids, vars
<1>3. QED
  BY <1>1, <1>2

(* Every reachable state is typed; in particular every event has an id. *)
THEOREM TypeCorrect == Spec => []TypeOK
<1>1. QED
  BY TypeInit, TypeStep, PTL DEF Spec

-------------------------------------------------------------------------------
(* Events and answers *)

(* While a thread serves no request its context is empty; while it does, the   *)
(* context has that request's id and the token nothing.                        *)
Contexts ==
    \A w \in Workers :
        /\ token[w] = None
        /\ serving[w] = None => context[w] = None
        /\ serving[w] # None => context[w] = id[serving[w]] /\ context[w] # None

(* A request that left its mark has come; nothing is known of one that has not. *)
Come ==
    /\ \A n \in DOMAIN events : events[n].request # None => id[events[n].request] # None
    /\ \A r \in Requests : id[r] = None => header[r] = None /\ answer[r] = None

CInv == TypeOK /\ Contexts /\ Come /\ EventsFollowRequest /\ TracesApart

LEMMA CInit == Init => CInv
<1> SUFFICES ASSUME Init PROVE CInv
  OBVIOUS
<1>1. DOMAIN events = {}
  BY DEF Init
<1>2. QED
  BY <1>1, TypeInit DEF Init, CInv, Contexts, Come, EventsFollowRequest, TracesApart

LEMMA CArrive ==
  ASSUME CInv, NEW w \in Workers, NEW r \in Requests, Arrive(w, r)
  PROVE  CInv'
<1>1. PICK h \in Headers :
        /\ header' = [header EXCEPT ![r] = h]
        /\ LET fresh == h \in {None, Malformed}
               value == IF fresh THEN NewId ELSE h
           IN /\ id' = [id EXCEPT ![r] = value]
              /\ context' = [context EXCEPT ![w] = value]
              /\ issued' = IF fresh THEN issued + 1 ELSE issued
  BY DEF Arrive
<1> DEFINE value == IF h \in {None, Malformed} THEN NewId ELSE h
<1>2. TypeOK'
  BY ArriveTyped DEF CInv
<1>3. id' = [id EXCEPT ![r] = value] /\ context' = [context EXCEPT ![w] = value]
  BY <1>1
<1>4. value # None /\ ((value = h /\ h # Malformed) \/ value \notin Ids)
  BY NewIsFresh DEF NewId, Uuid, CInv, TypeOK
<1>5. id[r] = None /\ \A n \in DOMAIN events : events[n].request # r
  BY DEF Arrive, CInv, Come
<1>6. \A n \in DOMAIN events : events[n] \in [request : Requests \cup {None}, id : Ids]
  BY Element DEF CInv, TypeOK
<1>7. Contexts'
  BY <1>3, <1>4, <1>5 DEF CInv, TypeOK, Contexts, Arrive
<1>8. Come'
  BY <1>1, <1>3, <1>4, <1>6 DEF CInv, TypeOK, Come, Arrive
<1>9. EventsFollowRequest'
  BY <1>3, <1>5, <1>6 DEF CInv, TypeOK, Come, EventsFollowRequest, Arrive
<1>10. TracesApart'
  <2>1. ASSUME NEW q \in Requests, q # r, id[q] = value PROVE value = h
    BY <1>4, <2>1 DEF CInv, TypeOK
  <2>2. ASSUME NEW n \in DOMAIN events, events[n].id = value PROVE value = h
    BY <1>4, <1>6, <2>2
  <2>3. QED
    BY <1>1, <1>3, <1>4, <2>1, <2>2 DEF CInv, TypeOK, TracesApart, Arrive
<1>11. QED
  BY <1>2, <1>7, <1>8, <1>9, <1>10 DEF CInv

LEMMA CAppend ==
  ASSUME CInv, NEW w \in Workers, AppendEvent(w)
  PROVE  CInv'
<1> DEFINE e == [request |-> serving[w], id |-> IdOfEvent(w)]
           m == Len(events) + 1
<1>1. TypeOK'
  BY EventTyped DEF CInv
<1>2. /\ DOMAIN events' = DOMAIN events \cup {m} /\ m \notin DOMAIN events
      /\ events'[m] = e
      /\ \A n \in DOMAIN events : events'[n] = events[n]
  BY DEF CInv, TypeOK, AppendEvent
<1>3. UNCHANGED <<context, token, serving, header, id, answer>>
  BY DEF AppendEvent
<1>4. /\ serving[w] # None => e.id = id[serving[w]] /\ id[serving[w]] # None
      /\ serving[w] = None => e.id = NewId
  BY DEF CInv, Contexts, IdOfEvent
<1>5. NewId \notin Ids /\ NewId \notin ClientIds
  BY NewIsFresh DEF CInv, TypeOK, NewId, Uuid
<1>6. Contexts'
  BY <1>3 DEF CInv, Contexts
<1>7. Come'
  BY <1>2, <1>3, <1>4, <1>5 DEF CInv, Come
<1>8. EventsFollowRequest'
  BY <1>2, <1>3, <1>4 DEF CInv, EventsFollowRequest
<1>9. TracesApart'
  <2>1. \A n \in DOMAIN events : events[n].id \in Ids
    <3>1. \A n \in DOMAIN events : events[n] \in [request : Requests \cup {None}, id : Ids]
      BY Element DEF CInv, TypeOK
    <3>2. QED
      BY <3>1
  <2>2. \A q \in Requests : id[q] \in Ids \cup {None}
    BY DEF CInv, TypeOK
  <2>3. \A q, r \in Requests : q # r /\ id'[q] # None /\ id'[q] = id'[r] =>
          header'[q] = id'[q] \/ header'[r] = id'[r]
    BY <1>3 DEF CInv, TracesApart
  <2>4. ASSUME NEW n \in DOMAIN events', events'[n].request = None
        PROVE  /\ \A k \in DOMAIN events' \ {n} :
                    events'[k].id = events'[n].id => events'[k].request # None
               /\ \A r \in Requests : id'[r] = events'[n].id => header'[r] = id'[r]
    <3>1. CASE n = m
      <4>1. events'[n].id = NewId
        BY <3>1, <2>4, <1>2, <1>4
      <4>2. NewId # None
        BY DEF NewId, Uuid, CInv, TypeOK
      <4>3. QED
        BY <3>1, <4>1, <4>2, <1>2, <1>3, <1>5, <2>1, <2>2
    <3>2. CASE n \in DOMAIN events
      <4>1. events[n].request = None /\ events'[n] = events[n]
        BY <3>2, <2>4, <1>2
      <4>2. e.id = events[n].id => e.request # None
        BY <4>1, <3>2, <1>4, <1>5, <2>1
      <4>3. QED
        BY <3>2, <4>1, <4>2, <1>2, <1>3 DEF CInv, TracesApart
    <3>3. QED
      BY <3>1, <3>2, <1>2
  <2>5. QED
    BY <2>3, <2>4 DEF TracesApart
<1>10. QED
  BY <1>1, <1>6, <1>7, <1>8, <1>9 DEF CInv

LEMMA CEnd ==
  ASSUME CInv, NEW w \in Workers, Respond(w) \/ Raise(w)
  PROVE  CInv'
<1>1. TypeOK'
  BY EndTyped DEF CInv
<1>2. UNCHANGED <<header, id, events, issued>>
  BY DEF Respond, Raise
<1>3. answer' = answer \/ answer' = [answer EXCEPT ![serving[w]] = id[serving[w]]]
  BY DEF Respond, Raise
<1>4. Contexts'
  BY DEF CInv, TypeOK, Contexts, Respond, Raise, ResetContext
<1>5. Come' /\ TracesApart'
  <2>1. \A r \in Requests : id[r] = None => answer'[r] = None
    BY <1>3 DEF CInv, TypeOK, Come
  <2>2. QED
    BY <1>2, <2>1 DEF CInv, Come, TracesApart
<1>6. EventsFollowRequest'
  BY <1>2, <1>3 DEF CInv, TypeOK, EventsFollowRequest
<1>7. QED
  BY <1>1, <1>4, <1>5, <1>6 DEF CInv

LEMMA CStep == CInv /\ [Next]_vars => CInv'
<1> SUFFICES ASSUME CInv, [Next]_vars PROVE CInv'
  OBVIOUS
<1>1. CASE Next
  BY <1>1, CArrive, CAppend, CEnd DEF Next
<1>2. CASE UNCHANGED vars
  BY <1>2, TypeStep DEF CInv, Contexts, Come, EventsFollowRequest, TracesApart, vars
<1>3. QED
  BY <1>1, <1>2

LEMMA CAlways == Spec => []CInv
  BY CInit, CStep, PTL DEF Spec

(* Every event of a request carries the id the client is told, for any number *)
(* of threads and requests.                                                   *)
THEOREM TraceComplete == Spec => []EventsFollowRequest
<1>1. CInv => EventsFollowRequest
  BY DEF CInv
<1>2. QED
  BY <1>1, CAlways, PTL

(* Requests share an id only when one of them asked for it, events outside the *)
(* requests only with requests that asked for it, and never with each other.   *)
THEOREM TracesKeptApart == Spec => []TracesApart
<1>1. CInv => TracesApart
  BY DEF CInv
<1>2. QED
  BY <1>1, CAlways, PTL

-------------------------------------------------------------------------------
(* What events store *)

Contents == [given : Data \cup {Empty}, stored : Values, reason : Purposes \cup {""}]

(* Each event stores what redact made of the data it was given. *)
Described ==
    /\ contents \in Seq(Contents)
    /\ \A n \in DOMAIN contents : contents[n].stored = Redact[contents[n].given]

LEMMA DescribedMore ==
  ASSUME Described, NEW e \in Contents, e.stored = Redact[e.given], contents' = Append(contents, e)
  PROVE  Described'
<1>1. contents' \in Seq(Contents)
  BY DEF Described
<1>2. ASSUME NEW n \in DOMAIN contents'
      PROVE  (n \in DOMAIN contents /\ contents'[n] = contents[n]) \/ contents'[n] = e
  BY DEF Described
<1>3. QED
  BY <1>1, <1>2 DEF Described

LEMMA DescribedStep ==
  ASSUME Described, NEW given \in Data \cup {Empty}, NEW reason \in Purposes \cup {""},
         Describe(given, reason)
  PROVE  Described'
<1>1. [given |-> given, stored |-> Redact[given], reason |-> reason] \in Contents
  BY DataAssumption, ClosedAssumption DEF Contents
<1>2. QED
  BY <1>1, DescribedMore DEF Describe

-------------------------------------------------------------------------------
(* Values of least depth *)

USE ValuesAssumption, DepthAssumption, DataAssumption

Less == {p \in Nat \X Nat : p[1] < p[2]}

LEMMA LessIsWellFounded == IsWellFoundedOn(Less, Nat)
  BY NatLessThanWellFounded, Zenon DEF OpToRel, Less

LEMMA LeastNumber ==
  ASSUME NEW T \in SUBSET Nat, T # {}
  PROVE  \E x \in T : \A y \in T : x <= y
<1>1. PICK x \in T : \A y \in T : <<y, x>> \notin Less
  BY LessIsWellFounded, WFMin, Zenon
<1>2. \A y \in T : ~(y < x)
  BY <1>1 DEF Less
<1>3. QED
  BY <1>2

LEMMA Shallowest ==
  ASSUME NEW B \in SUBSET Values, B # {}
  PROVE  \E v \in B : \A u \in Values : Depth[u] < Depth[v] => u \notin B
<1>1. {Depth[v] : v \in B} \in SUBSET Nat /\ {Depth[v] : v \in B} # {}
  OBVIOUS
<1>2. PICK n \in {Depth[v] : v \in B} : \A k \in {Depth[v] : v \in B} : n <= k
  BY <1>1, LeastNumber
<1>3. PICK v \in B : n = Depth[v]
  BY <1>2
<1>4. ASSUME NEW u \in Values, Depth[u] < Depth[v], u \in B PROVE FALSE
  <2>1. Depth[v] <= Depth[u] /\ Depth[v] \in Nat /\ Depth[u] \in Nat
    BY <1>2, <1>3, <1>4
  <2>2. QED
    BY <2>1, <1>4
<1>5. QED
  BY <1>3, <1>4

Item(v, u) == IsContainer(v) /\ \E i \in DOMAIN v[2] : u = v[2][i]

LEMMA ItemsBelow ==
  ASSUME NEW v \in Values, NEW u, Item(v, u)
  PROVE  u \in Values /\ Depth[u] \in Nat /\ Depth[v] \in Nat /\ Depth[u] < Depth[v]
  BY DEF Item

Upto(n) == {v \in Values : Depth[v] <= n}

-------------------------------------------------------------------------------
(* redact and Leaves are functions: their equations have a solution *)

(* A value's result depends on its items' results alone. *)
LEMMA RedactLocal ==
  ASSUME NEW v \in Values, NEW f, NEW g, \A u : Item(v, u) => f[u] = g[u]
  PROVE  RedactValue(v, f) = RedactValue(v, g)
<1>1. v[1] \in {"dict", "list"} => \A i \in DOMAIN v[2] : f[v[2][i]] = g[v[2][i]]
  BY DEF Item, IsContainer
<1>2. CASE v[1] = "dict"
  <2> DEFINE k(text) == CHOOSE i \in DOMAIN v[2] : Str(i) = text
  <2>1. \A text \in {Str(i) : i \in DOMAIN v[2]} : k(text) \in DOMAIN v[2]
    OBVIOUS
  <2>2. \A text \in {Str(i) : i \in DOMAIN v[2]} : f[v[2][k(text)]] = g[v[2][k(text)]]
    BY <1>1, <1>2, <2>1
  <2> DEFINE h(e) == [text \in {Str(i) : i \in DOMAIN v[2]} |->
                        IF Sensitive(text) THEN Redacted ELSE e[v[2][k(text)]]]
  <2>3. RedactDict(v[2], f) = h(f) /\ RedactDict(v[2], g) = h(g)
    BY DEF RedactDict
  <2>4. h(f) = h(g)
    <3> HIDE DEF k
    <3>1. QED
      BY <2>2
  <2> HIDE DEF h
  <2>5. QED
    BY <1>2, <2>3, <2>4 DEF RedactValue
<1>3. CASE v[1] = "list"
  BY <1>1, <1>3 DEF RedactValue
<1>4. CASE v[1] \notin {"dict", "list"}
  BY <1>4 DEF RedactValue
<1>5. QED
  BY <1>2, <1>3, <1>4

IsRedact(f, n) == f = [v \in Upto(n) |-> RedactValue(v, f)]

LEMMA RedactUpto == \A n \in Nat : \E f : IsRedact(f, n)
<1> DEFINE T == {n \in Nat : ~\E f : IsRedact(f, n)}
<1> SUFFICES ASSUME T # {} PROVE FALSE
  OBVIOUS
<1>1. PICK n \in T : \A m \in T : n <= m
  <2> HIDE DEF T
  <2>1. T \in SUBSET Nat
    BY DEF T
  <2>2. QED
    BY <2>1, LeastNumber
<1>2. \E g : n > 0 => IsRedact(g, n - 1)
  <2>1. n > 0 => n - 1 \in Nat /\ n - 1 \notin T
    BY <1>1
  <2>2. QED
    BY <2>1
<1>3. PICK g : n > 0 => IsRedact(g, n - 1)
  BY <1>2
<1> DEFINE h == [v \in Upto(n) |-> RedactValue(v, g)]
<1>4. ASSUME NEW v \in Upto(n) PROVE RedactValue(v, g) = RedactValue(v, h)
  <2>1. ASSUME NEW u, Item(v, u) PROVE g[u] = h[u]
    <3>1. n > 0 /\ u \in Upto(n - 1) /\ u \in Upto(n)
      BY <2>1, ItemsBelow, <1>1 DEF Upto
    <3>2. g = [w \in Upto(n - 1) |-> RedactValue(w, g)]
      BY <3>1, <1>3 DEF IsRedact
    <3>3. g[u] = RedactValue(u, g)
      BY <3>1, <3>2
    <3>4. QED
      BY <3>1, <3>3
  <2>2. v \in Values
    BY DEF Upto
  <2> HIDE DEF h
  <2>3. QED
    BY <2>1, <2>2, RedactLocal
<1>5. IsRedact(h, n)
  <2>1. h = [v \in Upto(n) |-> RedactValue(v, h)]
    BY <1>4
  <2>2. QED
    BY <2>1 DEF IsRedact
<1>6. QED
  BY <1>1, <1>5

LEMMA RedactAgrees ==
  ASSUME NEW m \in Nat, NEW n \in Nat, NEW f, NEW g, IsRedact(f, m), IsRedact(g, n),
         NEW v \in Upto(m) \cap Upto(n)
  PROVE  f[v] = g[v]
<1> DEFINE B == {u \in Upto(m) \cap Upto(n) : f[u] # g[u]}
<1> SUFFICES ASSUME B # {} PROVE FALSE
  OBVIOUS
<1>1. B \in SUBSET Values
  BY DEF Upto
<1>2. PICK u \in B : \A w \in Values : Depth[w] < Depth[u] => w \notin B
  <2> HIDE DEF B
  <2>1. QED
    BY <1>1, Shallowest
<1>3. \A w : Item(u, w) => f[w] = g[w]
  BY <1>2, ItemsBelow DEF Upto
<1>4. RedactValue(u, f) = RedactValue(u, g)
  BY <1>1, <1>2, <1>3, RedactLocal
<1>5. f[u] = RedactValue(u, f) /\ g[u] = RedactValue(u, g)
  BY <1>2 DEF IsRedact
<1>6. QED
  BY <1>2, <1>4, <1>5

LEMMA RedactEquation ==
  /\ Redact = [v \in Values |-> RedactValue(v, Redact)]
  /\ \A v \in Values : Redact[v] = RedactValue(v, Redact)
<1> DEFINE c(n) == CHOOSE f : IsRedact(f, n)
           F == [v \in Values |-> c(Depth[v])[v]]
<1>1. \A n \in Nat : IsRedact(c(n), n)
  BY RedactUpto
<1>2. ASSUME NEW v \in Values PROVE c(Depth[v])[v] = RedactValue(v, F)
  <2>1. Depth[v] \in Nat /\ v \in Upto(Depth[v]) /\ IsRedact(c(Depth[v]), Depth[v])
    BY <1>1 DEF Upto
  <2>2. c(Depth[v])[v] = RedactValue(v, c(Depth[v]))
    <3> HIDE DEF c
    <3>1. QED
      BY <2>1 DEF IsRedact
  <2>3. ASSUME NEW u, Item(v, u) PROVE c(Depth[v])[u] = F[u]
    <3>1. u \in Values /\ Depth[u] \in Nat /\ u \in Upto(Depth[u]) \cap Upto(Depth[v])
      BY <2>3, <2>1, ItemsBelow DEF Upto
    <3>2. IsRedact(c(Depth[u]), Depth[u])
      BY <3>1, <1>1
    <3> HIDE DEF c
    <3>3. c(Depth[v])[u] = c(Depth[u])[u]
      BY <2>1, <3>1, <3>2, RedactAgrees
    <3>4. QED
      BY <3>1, <3>3
  <2> HIDE DEF c, F
  <2>4. QED
    BY <2>2, <2>3, RedactLocal
<1>3. F = [v \in Values |-> RedactValue(v, F)]
  BY <1>2
<1>4. \E f : f = [v \in Values |-> RedactValue(v, f)]
  BY <1>3
<1>5. Redact = [v \in Values |-> RedactValue(v, Redact)]
  <2>1. QED
    BY <1>4, Zenon DEF Redact
<1>6. QED
  BY <1>5

(* The same for the leaves. *)
LEMMA LeavesLocal ==
  ASSUME NEW v \in Values, NEW f, NEW g, \A u : Item(v, u) => f[u] = g[u]
  PROVE  LeavesOf(v, f) = LeavesOf(v, g)
<1>1. IsContainer(v) => \A i \in DOMAIN v[2] : f[v[2][i]] = g[v[2][i]]
  BY DEF Item
<1> DEFINE A(i, h) == {<<<<<<v[1], i>>>> \o l[1], l[2]>> : l \in h[v[2][i]]}
<1>2. IsContainer(v) => \A i \in DOMAIN v[2] : A(i, f) = A(i, g)
  BY <1>1
<1>3. \A h : LeavesOf(v, h) =
        IF ~IsContainer(v) \/ DOMAIN v[2] = {} THEN {<<<<>>, v>>}
        ELSE UNION {A(i, h) : i \in DOMAIN v[2]}
  BY DEF LeavesOf
<1> HIDE DEF A
<1>4. CASE IsContainer(v)
  <2>1. {A(i, f) : i \in DOMAIN v[2]} = {A(i, g) : i \in DOMAIN v[2]}
    BY <1>2, <1>4
  <2>2. \A h : LeavesOf(v, h) =
          IF DOMAIN v[2] = {} THEN {<<<<>>, v>>} ELSE UNION {A(i, h) : i \in DOMAIN v[2]}
    BY <1>3, <1>4
  <2>3. QED
    BY <2>1, <2>2, Zenon
<1>5. CASE ~IsContainer(v)
  BY <1>3, <1>5
<1>6. QED
  BY <1>4, <1>5

IsLeaves(f, n) == f = [v \in Upto(n) |-> LeavesOf(v, f)]

LEMMA LeavesUpto == \A n \in Nat : \E f : IsLeaves(f, n)
<1> DEFINE T == {n \in Nat : ~\E f : IsLeaves(f, n)}
<1> SUFFICES ASSUME T # {} PROVE FALSE
  OBVIOUS
<1>1. PICK n \in T : \A m \in T : n <= m
  <2> HIDE DEF T
  <2>1. T \in SUBSET Nat
    BY DEF T
  <2>2. QED
    BY <2>1, LeastNumber
<1>2. \E g : n > 0 => IsLeaves(g, n - 1)
  <2>1. n > 0 => n - 1 \in Nat /\ n - 1 \notin T
    BY <1>1
  <2>2. QED
    BY <2>1
<1>3. PICK g : n > 0 => IsLeaves(g, n - 1)
  BY <1>2
<1> DEFINE h == [v \in Upto(n) |-> LeavesOf(v, g)]
<1>4. ASSUME NEW v \in Upto(n) PROVE LeavesOf(v, g) = LeavesOf(v, h)
  <2>1. ASSUME NEW u, Item(v, u) PROVE g[u] = h[u]
    <3>1. n > 0 /\ u \in Upto(n - 1) /\ u \in Upto(n)
      BY <2>1, ItemsBelow, <1>1 DEF Upto
    <3>2. g = [w \in Upto(n - 1) |-> LeavesOf(w, g)]
      BY <3>1, <1>3 DEF IsLeaves
    <3>3. g[u] = LeavesOf(u, g)
      BY <3>1, <3>2
    <3>4. QED
      BY <3>1, <3>3
  <2>2. v \in Values
    BY DEF Upto
  <2> HIDE DEF h
  <2>3. QED
    BY <2>1, <2>2, LeavesLocal
<1>5. IsLeaves(h, n)
  <2>1. h = [v \in Upto(n) |-> LeavesOf(v, h)]
    BY <1>4
  <2>2. QED
    BY <2>1 DEF IsLeaves
<1>6. QED
  BY <1>1, <1>5

LEMMA LeavesAgree ==
  ASSUME NEW m \in Nat, NEW n \in Nat, NEW f, NEW g, IsLeaves(f, m), IsLeaves(g, n),
         NEW v \in Upto(m) \cap Upto(n)
  PROVE  f[v] = g[v]
<1> DEFINE B == {u \in Upto(m) \cap Upto(n) : f[u] # g[u]}
<1> SUFFICES ASSUME B # {} PROVE FALSE
  OBVIOUS
<1>1. B \in SUBSET Values
  BY DEF Upto
<1>2. PICK u \in B : \A w \in Values : Depth[w] < Depth[u] => w \notin B
  <2> HIDE DEF B
  <2>1. QED
    BY <1>1, Shallowest
<1>3. \A w : Item(u, w) => f[w] = g[w]
  BY <1>2, ItemsBelow DEF Upto
<1>4. LeavesOf(u, f) = LeavesOf(u, g)
  BY <1>1, <1>2, <1>3, LeavesLocal
<1>5. f[u] = LeavesOf(u, f) /\ g[u] = LeavesOf(u, g)
  BY <1>2 DEF IsLeaves
<1>6. QED
  BY <1>2, <1>4, <1>5

LEMMA LeavesEquation ==
  /\ Leaves = [v \in Values |-> LeavesOf(v, Leaves)]
  /\ \A v \in Values : Leaves[v] = LeavesOf(v, Leaves)
<1> DEFINE c(n) == CHOOSE f : IsLeaves(f, n)
           F == [v \in Values |-> c(Depth[v])[v]]
<1>1. \A n \in Nat : IsLeaves(c(n), n)
  BY LeavesUpto
<1>2. ASSUME NEW v \in Values PROVE c(Depth[v])[v] = LeavesOf(v, F)
  <2>1. Depth[v] \in Nat /\ v \in Upto(Depth[v]) /\ IsLeaves(c(Depth[v]), Depth[v])
    BY <1>1 DEF Upto
  <2>2. c(Depth[v])[v] = LeavesOf(v, c(Depth[v]))
    <3> HIDE DEF c
    <3>1. QED
      BY <2>1 DEF IsLeaves
  <2>3. ASSUME NEW u, Item(v, u) PROVE c(Depth[v])[u] = F[u]
    <3>1. u \in Values /\ Depth[u] \in Nat /\ u \in Upto(Depth[u]) \cap Upto(Depth[v])
      BY <2>3, <2>1, ItemsBelow DEF Upto
    <3>2. IsLeaves(c(Depth[u]), Depth[u])
      BY <3>1, <1>1
    <3> HIDE DEF c
    <3>3. c(Depth[v])[u] = c(Depth[u])[u]
      BY <2>1, <3>1, <3>2, LeavesAgree
    <3>4. QED
      BY <3>1, <3>3
  <2> HIDE DEF c, F
  <2>4. QED
    BY <2>2, <2>3, LeavesLocal
<1>3. F = [v \in Values |-> LeavesOf(v, F)]
  BY <1>2
<1>4. \E f : f = [v \in Values |-> LeavesOf(v, f)]
  BY <1>3
<1>5. Leaves = [v \in Values |-> LeavesOf(v, Leaves)]
  <2>1. QED
    BY <1>4, Zenon DEF Leaves
<1>6. QED
  BY <1>5

-------------------------------------------------------------------------------
(* Paths, and what a step put before one does to what must be hidden *)

Steps == Kinds \X UNION {DOMAIN v[2] : v \in {w \in Values : IsContainer(w)}}
SpelledSteps == {Spelled(s) : s \in Steps}

(* A leaf: a path and what lies at its end. *)
IsLeaf(l) == l[1] \in Seq(Steps) /\ l = <<l[1], l[2]>>

Prefixed(s, l) == <<<<s>> \o l[1], l[2]>>

LEMMA PrefixedIsLeaf ==
  ASSUME NEW s \in Steps, NEW l, IsLeaf(l)
  PROVE  IsLeaf(Prefixed(s, l))
<1>1. <<s>> \in Seq(Steps) /\ l[1] \in Seq(Steps)
  BY DEF IsLeaf
<1>2. <<s>> \o l[1] \in Seq(Steps)
  BY <1>1
<1>3. QED
  BY <1>2 DEF IsLeaf, Prefixed

LEMMA LeastIs ==
  ASSUME NEW S \in SUBSET Nat, NEW m \in S, \A k \in S : m <= k
  PROVE  Min(S) = m
  BY DEF Min

SpelledPath(path) == [n \in DOMAIN path |-> Spelled(path[n])]

LEMMA SpelledPrefix ==
  ASSUME NEW s \in Steps, NEW p \in Seq(Steps)
  PROVE  /\ SpelledPath(p) \in Seq(SpelledSteps)
         /\ SpelledPath(<<s>> \o p) = <<Spelled(s)>> \o SpelledPath(p)
<1>1. /\ Len(p) \in Nat /\ DOMAIN p = 1 .. Len(p) /\ \A n \in DOMAIN p : p[n] \in Steps
      /\ DOMAIN (<<s>> \o p) = 1 .. Len(p) + 1
      /\ \A n \in 1 .. Len(p) + 1 : (<<s>> \o p)[n] = IF n = 1 THEN s ELSE p[n - 1]
  OBVIOUS
<1> DEFINE t == SpelledPath(p)
           u == SpelledPath(<<s>> \o p)
<1>2. t \in Seq(SpelledSteps) /\ Len(t) = Len(p) /\ \A n \in DOMAIN p : t[n] = Spelled(p[n])
  BY <1>1 DEF SpelledPath, SpelledSteps
<1>3. /\ u = [n \in 1 .. Len(p) + 1 |-> u[n]]
      /\ \A n \in 1 .. Len(p) + 1 : u[n] = IF n = 1 THEN Spelled(s) ELSE Spelled(p[n - 1])
  BY <1>1 DEF SpelledPath
<1> DEFINE w == <<Spelled(s)>> \o t
<1> HIDE DEF t, u
<1>4. /\ w = [n \in 1 .. Len(p) + 1 |-> w[n]]
      /\ \A n \in 1 .. Len(p) + 1 : w[n] = IF n = 1 THEN Spelled(s) ELSE t[n - 1]
  BY <1>1, <1>2
<1>5. \A n \in 1 .. Len(p) + 1 : u[n] = w[n]
  <2> HIDE DEF w
  <2> SUFFICES ASSUME NEW n \in 1 .. Len(p) + 1 PROVE u[n] = w[n]
    OBVIOUS
  <2>1. CASE n = 1
    BY <2>1, <1>3, <1>4
  <2>2. CASE n # 1
    <3>1. n - 1 \in DOMAIN p
      BY <2>2, <1>1
    <3>2. QED
      BY <3>1, <2>2, <1>2, <1>3, <1>4
  <2>3. QED
    BY <2>1, <2>2
<1>6. u = w
  <2> HIDE DEF w
  <2>1. QED
    BY <1>3, <1>4, <1>5
<1>7. QED
  BY <1>2, <1>6 DEF t, u

(* A sensitive key hides all that is under it. *)
LEMMA CensorSensitive ==
  ASSUME NEW s \in Steps, NEW l, IsLeaf(l), s[1] = "dict", Sensitive(s[2])
  PROVE  Censored(Prefixed(s, l)) = <<<<Spelled(s)>>, Redacted>>
<1> DEFINE q == SpelledPath(<<s>> \o l[1])
<1>1. q \in Seq(SpelledSteps) /\ Len(q) \in Nat /\ 1 \in DOMAIN q /\ q[1] = Spelled(s)
  <2>1. SpelledPath(l[1]) \in Seq(SpelledSteps) /\ q = <<Spelled(s)>> \o SpelledPath(l[1])
    BY SpelledPrefix DEF IsLeaf
  <2>2. Spelled(s) \in SpelledSteps
    BY DEF SpelledSteps
  <2> HIDE DEF q
  <2>3. QED
    BY <2>1, <2>2
<1> HIDE DEF q
<1>2. 1 \in Hiding(q) /\ Hiding(q) \in SUBSET Nat /\ \A k \in Hiding(q) : 1 <= k
  <2>1. Spelled(s)[1] = "dict" /\ Sensitive(Spelled(s)[2])
    BY DEF Spelled, Sensitive, Str
  <2>2. QED
    BY <1>1, <2>1 DEF Hiding
<1>3. Min(Hiding(q)) = 1
  BY <1>2, LeastIs
<1>4. SubSeq(q, 1, 1) = <<Spelled(s)>>
  <2>1. SubSeq(q, 1, 1) \in Seq(SpelledSteps) /\ Len(SubSeq(q, 1, 1)) = 1
        /\ SubSeq(q, 1, 1)[1] = Spelled(s)
    BY <1>1
  <2> DEFINE t == SubSeq(q, 1, 1)
  <2> HIDE DEF t
  <2>2. t \in Seq(SpelledSteps) /\ Len(t) = 1 /\ t[1] = Spelled(s)
    BY <2>1 DEF t
  <2>3. t = <<Spelled(s)>>
    BY <2>2
  <2>4. QED
    BY <2>3 DEF t
<1>5. Censored(Prefixed(s, l)) =
        IF Hiding(q) = {} THEN <<q, l[2]>> ELSE <<SubSeq(q, 1, Min(Hiding(q))), Redacted>>
  BY DEF Censored, Prefixed, SpelledPath, q
<1>6. QED
  BY <1>2, <1>3, <1>4, <1>5

(* Any other step changes nothing about what is hidden under it. *)
LEMMA CensorOther ==
  ASSUME NEW s \in Steps, NEW l, IsLeaf(l), ~(s[1] = "dict" /\ Sensitive(s[2]))
  PROVE  Censored(Prefixed(s, l)) = Prefixed(Spelled(s), Censored(l))
<1> DEFINE p == SpelledPath(l[1])
           q == SpelledPath(<<s>> \o l[1])
<1>0. /\ Censored(l) = IF Hiding(p) = {} THEN <<p, l[2]>> ELSE <<SubSeq(p, 1, Min(Hiding(p))), Redacted>>
      /\ Censored(Prefixed(s, l)) =
           IF Hiding(q) = {} THEN <<q, l[2]>> ELSE <<SubSeq(q, 1, Min(Hiding(q))), Redacted>>
  BY DEF Censored, Prefixed, SpelledPath
<1>a. /\ p \in Seq(SpelledSteps) /\ q = <<Spelled(s)>> \o p /\ Spelled(s) \in SpelledSteps
      /\ ~(Spelled(s)[1] = "dict" /\ Sensitive(Spelled(s)[2]))
  <2>1. p \in Seq(SpelledSteps) /\ q = <<Spelled(s)>> \o p
    BY SpelledPrefix DEF IsLeaf
  <2>2. Spelled(s) \in SpelledSteps
    BY DEF SpelledSteps
  <2>3. ~(Spelled(s)[1] = "dict" /\ Sensitive(Spelled(s)[2]))
    BY DEF Spelled, Sensitive, Str
  <2> HIDE DEF p, q
  <2>4. QED
    BY <2>1, <2>2, <2>3
<1> HIDE DEF p, q
<1>1. /\ Len(p) \in Nat
      /\ q \in Seq(SpelledSteps) /\ Len(q) = Len(p) + 1 /\ q[1] = Spelled(s)
      /\ \A n \in DOMAIN p : q[n + 1] = p[n]
      /\ DOMAIN p = 1 .. Len(p) /\ DOMAIN q = 1 .. Len(q)
  BY <1>a
<1>2. ASSUME NEW n \in Nat PROVE n + 1 \in Hiding(q) <=> n \in Hiding(p)
  <2>1. CASE n = 0
    BY <2>1, <1>1, <1>a DEF Hiding
  <2>2. CASE n > 0
    <3>1. n + 1 \in DOMAIN q <=> n \in DOMAIN p
      BY <2>2, <1>1
    <3>2. QED
      BY <1>1, <3>1 DEF Hiding
  <2>3. QED
    BY <2>1, <2>2
<1>3. /\ Hiding(p) \in SUBSET Nat /\ Hiding(q) \in SUBSET Nat
      /\ \A k \in Hiding(q) : k - 1 \in Nat /\ k - 1 \in Hiding(p)
  <2>1. Hiding(p) \in SUBSET Nat /\ Hiding(q) \in SUBSET (Nat \ {0})
    BY <1>1 DEF Hiding
  <2>2. ASSUME NEW k \in Hiding(q) PROVE k - 1 \in Nat /\ k - 1 \in Hiding(p)
    <3>1. k - 1 \in Nat /\ k = (k - 1) + 1
      BY <2>1
    <3>2. QED
      BY <3>1, <1>2
  <2>3. QED
    BY <2>1, <2>2
<1>4. CASE Hiding(p) = {}
  <2>1. Hiding(q) = {}
    BY <1>3, <1>4
  <2>2. Censored(l) = <<p, l[2]>> /\ Censored(Prefixed(s, l)) = <<q, l[2]>>
    BY <2>1, <1>0, <1>4
  <2>3. Prefixed(Spelled(s), <<p, l[2]>>) = <<q, l[2]>>
    BY <1>a DEF Prefixed
  <2>4. QED
    BY <2>2, <2>3
<1>5. CASE Hiding(p) # {}
  <2>1. PICK m \in Hiding(p) : \A k \in Hiding(p) : m <= k
    BY <1>3, <1>5, LeastNumber
  <2>2. Min(Hiding(p)) = m
    BY <1>3, <2>1, LeastIs
  <2>3. m \in Nat /\ m \in 1 .. Len(p) /\ m + 1 \in Hiding(q)
    BY <1>1, <1>2, <1>3, <2>1 DEF Hiding
  <2>4. \A k \in Hiding(q) : m + 1 <= k
    BY <1>3, <2>1, <2>3
  <2>5. Min(Hiding(q)) = m + 1
    BY <1>3, <2>3, <2>4, LeastIs
  <2>6. SubSeq(q, 1, m + 1) = <<Spelled(s)>> \o SubSeq(p, 1, m)
    BY <1>1, <1>a, <2>3
  <2>7. /\ Censored(l) = <<SubSeq(p, 1, m), Redacted>>
        /\ Censored(Prefixed(s, l)) = <<SubSeq(q, 1, m + 1), Redacted>>
    BY <2>2, <2>3, <2>5, <1>0, <1>5
  <2>8. Prefixed(Spelled(s), <<SubSeq(p, 1, m), Redacted>>) = <<SubSeq(q, 1, m + 1), Redacted>>
    BY <2>6 DEF Prefixed
  <2>9. QED
    BY <2>7, <2>8
<1>6. QED
  BY <1>4, <1>5

-------------------------------------------------------------------------------
(* redact censors *)

USE ClosedAssumption

Nonempty(v) == IsContainer(v) /\ DOMAIN v[2] # {}

LeavesUnder(v, i, u) == {Prefixed(<<v[1], i>>, l) : l \in Leaves[u]}

LEMMA LeavesOfContainer ==
  ASSUME NEW v \in Values, Nonempty(v)
  PROVE  Leaves[v] = UNION {LeavesUnder(v, i, v[2][i]) : i \in DOMAIN v[2]}
<1>1. Leaves[v] = LeavesOf(v, Leaves)
  BY LeavesEquation
<1>2. ASSUME NEW i \in DOMAIN v[2]
      PROVE  {<<<<<<v[1], i>>>> \o l[1], l[2]>> : l \in Leaves[v[2][i]]} = LeavesUnder(v, i, v[2][i])
  BY DEF LeavesUnder, Prefixed
<1>3. LeavesOf(v, Leaves) =
        UNION {{<<<<<<v[1], i>>>> \o l[1], l[2]>> : l \in Leaves[v[2][i]]} : i \in DOMAIN v[2]}
  BY DEF LeavesOf, Nonempty
<1> DEFINE F(i) == {<<<<<<v[1], i>>>> \o l[1], l[2]>> : l \in Leaves[v[2][i]]}
           G(i) == LeavesUnder(v, i, v[2][i])
<1>4. {F(i) : i \in DOMAIN v[2]} = {G(i) : i \in DOMAIN v[2]}
  <2>1. \A i \in DOMAIN v[2] : F(i) = G(i)
    BY <1>2
  <2> HIDE DEF F, G
  <2>2. QED
    BY <2>1
<1>5. QED
  BY <1>1, <1>3, <1>4, Zenon

LEMMA LeafOfOther ==
  ASSUME NEW v \in Values, ~Nonempty(v)
  PROVE  Leaves[v] = {<<<<>>, v>>}
  BY LeavesEquation DEF LeavesOf, Nonempty

LEMMA StepOfItem ==
  ASSUME NEW v \in Values, IsContainer(v), NEW i \in DOMAIN v[2]
  PROVE  <<v[1], i>> \in Steps /\ v[2][i] \in Values
  BY DEF Steps

LEMMA LeavesTyped == \A v \in Values : Leaves[v] # {} /\ \A l \in Leaves[v] : IsLeaf(l)
<1> DEFINE Good(v) == Leaves[v] # {} /\ \A l \in Leaves[v] : IsLeaf(l)
           B == {v \in Values : ~Good(v)}
<1> SUFFICES ASSUME B # {} PROVE FALSE
  OBVIOUS
<1>1. PICK v \in B : \A u \in Values : Depth[u] < Depth[v] => u \notin B
  <2> HIDE DEF Good
  <2>1. B \in SUBSET Values
    OBVIOUS
  <2> HIDE DEF B
  <2>2. QED
    BY <2>1, Shallowest
<1>2. CASE ~Nonempty(v)
  <2>1. Leaves[v] = {<<<<>>, v>>}
    BY <1>1, <1>2, LeafOfOther
  <2>2. IsLeaf(<<<<>>, v>>)
    BY DEF IsLeaf
  <2>3. QED
    BY <2>1, <2>2, <1>1
<1>3. CASE Nonempty(v)
  <2>1. ASSUME NEW i \in DOMAIN v[2]
        PROVE  LeavesUnder(v, i, v[2][i]) # {} /\ \A l \in LeavesUnder(v, i, v[2][i]) : IsLeaf(l)
    <3>1. IsContainer(v) /\ v \in Values
      BY <1>1, <1>3 DEF Nonempty
    <3>2. Item(v, v[2][i])
      BY <3>1 DEF Item
    <3>3. Good(v[2][i])
      BY <3>1, <3>2, <1>1, ItemsBelow
    <3>4. <<v[1], i>> \in Steps
      BY <3>1, StepOfItem
    <3>5. QED
      BY <3>3, <3>4, PrefixedIsLeaf DEF LeavesUnder
  <2>2. Leaves[v] = UNION {LeavesUnder(v, i, v[2][i]) : i \in DOMAIN v[2]}
    BY <1>1, <1>3, LeavesOfContainer
  <2>3. Good(v)
    BY <2>1, <2>2, <1>3 DEF Nonempty
  <2>4. QED
    BY <2>3, <1>1
<1>4. QED
  BY <1>2, <1>3

(* A leaf of the value itself has no path, and nothing hides it. *)
LEMMA CensorBare ==
  ASSUME NEW v
  PROVE  Censored(<<<<>>, v>>) = <<<<>>, v>>
<1>1. SpelledPath(<<>>) = <<>> /\ Hiding(<<>>) = {}
  BY DEF Hiding, SpelledPath
<1>2. QED
  BY <1>1 DEF Censored, SpelledPath

(* Under an item redact is asked for, the leaves are the censored ones; s is   *)
(* the step to the item in what redact returns.                                *)
LeavesAt(s, u) == {Prefixed(s, l) : l \in Leaves[u]}

LEMMA CensorsUnder ==
  ASSUME NEW v \in Values, IsContainer(v), NEW i \in DOMAIN v[2],
         ~(v[1] = "dict" /\ Sensitive(i)),
         Leaves[Redact[v[2][i]]] = {Censored(l) : l \in Leaves[v[2][i]]}
  PROVE  LeavesAt(Spelled(<<v[1], i>>), Redact[v[2][i]]) =
           {Censored(l) : l \in LeavesUnder(v, i, v[2][i])}
<1>1. v[2][i] \in Values /\ <<v[1], i>> \in Steps
  BY StepOfItem
<1>2. ASSUME NEW l \in Leaves[v[2][i]]
      PROVE  Censored(Prefixed(<<v[1], i>>, l)) = Prefixed(Spelled(<<v[1], i>>), Censored(l))
  BY <1>1, LeavesTyped, CensorOther
<1>3. QED
  BY <1>2 DEF LeavesUnder, LeavesAt

(* Under a sensitive key only the text that stands for its value is left. *)
LEMMA CensorsSensitive ==
  ASSUME NEW v \in Values, IsContainer(v), NEW i \in DOMAIN v[2],
         v[1] = "dict", Sensitive(i), Redacted \in Values
  PROVE  LeavesAt(Spelled(<<v[1], i>>), Redacted) =
           {Censored(l) : l \in LeavesUnder(v, i, v[2][i])}
<1> DEFINE s == <<<<Spelled(<<v[1], i>>)>>, Redacted>>
<1>1. v[2][i] \in Values /\ <<v[1], i>> \in Steps
  BY StepOfItem
<1>2. Leaves[Redacted] = {<<<<>>, Redacted>>}
  BY LeafOfOther DEF Redacted, Nonempty, IsContainer
<1>3. Prefixed(Spelled(<<v[1], i>>), <<<<>>, Redacted>>) = s
  BY DEF Prefixed
<1>4. ASSUME NEW l \in Leaves[v[2][i]]
      PROVE  Censored(Prefixed(<<v[1], i>>, l)) = s
  BY <1>1, LeavesTyped, CensorSensitive
<1>5. Leaves[v[2][i]] # {}
  BY <1>1, LeavesTyped
<1> HIDE DEF s
<1>6. LeavesAt(Spelled(<<v[1], i>>), Redacted) = {s}
  BY <1>2, <1>3 DEF LeavesAt
<1>7. \A l \in LeavesUnder(v, i, v[2][i]) : Censored(l) = s
  BY <1>4 DEF LeavesUnder
<1>8. LeavesUnder(v, i, v[2][i]) # {}
  BY <1>5 DEF LeavesUnder
<1>9. QED
  BY <1>6, <1>7, <1>8

(* The values JSON can say: no tuples, and no dict with two keys of one text. *)
JsonLike(S) ==
    /\ S \subseteq Values
    /\ \A v \in S : IsContainer(v) =>
         /\ v[1] # "tuple"
         /\ v[1] = "dict" => \A j, k \in DOMAIN v[2] : Str(j) = Str(k) => j = k
         /\ \A i \in DOMAIN v[2] : v[2][i] \in S

(* The index of an item in what redact returns. *)
NewIndex(v, i) == IF v[1] = "dict" THEN Str(i) ELSE i

LEMMA RedactedItems ==
  ASSUME NEW S, JsonLike(S), NEW v \in S, IsContainer(v)
  PROVE  /\ Redact[v][1] = v[1]
         /\ DOMAIN Redact[v][2] = {NewIndex(v, i) : i \in DOMAIN v[2]}
         /\ \A i \in DOMAIN v[2] : Redact[v][2][NewIndex(v, i)] =
              IF v[1] = "dict" /\ Sensitive(i) THEN Redacted ELSE Redact[v[2][i]]
<1>1. v \in Values /\ Redact[v] = RedactValue(v, Redact) /\ v[1] \in {"dict", "list"}
  BY RedactEquation DEF JsonLike, IsContainer, Kinds
<1>2. CASE v[1] = "dict"
  <2>1. Redact[v] = <<"dict", RedactDict(v[2], Redact)>>
    BY <1>1, <1>2 DEF RedactValue
  <2>2. ASSUME NEW i \in DOMAIN v[2]
        PROVE  /\ (CHOOSE k \in DOMAIN v[2] : Str(k) = Str(i)) = i
               /\ Sensitive(Str(i)) <=> Sensitive(i)
    BY <1>2 DEF JsonLike, Sensitive, Str
  <2>3. DOMAIN RedactDict(v[2], Redact) = {Str(i) : i \in DOMAIN v[2]}
    BY DEF RedactDict
  <2>4. ASSUME NEW i \in DOMAIN v[2]
        PROVE  RedactDict(v[2], Redact)[Str(i)] =
                 IF Sensitive(i) THEN Redacted ELSE Redact[v[2][i]]
    BY <2>2 DEF RedactDict
  <2>5. QED
    BY <1>2, <2>1, <2>3, <2>4 DEF NewIndex
<1>3. CASE v[1] = "list"
  BY <1>1, <1>3 DEF RedactValue, NewIndex
<1>4. QED
  BY <1>1, <1>2, <1>3

(* What redact returns for a value JSON can say shows the leaves of that value, *)
(* each sensitive one replaced at the outermost key that makes it so, and no     *)
(* other leaf.                                                                   *)
THEOREM RedactCensors ==
  ASSUME NEW S, JsonLike(S)
  PROVE  \A v \in S : Leaves[Redact[v]] = {Censored(l) : l \in Leaves[v]}
<1> DEFINE Good(v) == Leaves[Redact[v]] = {Censored(l) : l \in Leaves[v]}
           B == {v \in S : ~Good(v)}
<1> SUFFICES ASSUME B # {} PROVE FALSE
  OBVIOUS
<1>1. PICK v \in B : \A u \in Values : Depth[u] < Depth[v] => u \notin B
  <2> HIDE DEF Good
  <2>1. B \in SUBSET Values
    BY DEF JsonLike
  <2> HIDE DEF B
  <2>2. QED
    BY <2>1, Shallowest
<1> DEFINE r == Redact[v]
<1>2. v \in S /\ v \in Values /\ r \in Values /\ r = RedactValue(v, Redact)
  BY <1>1, RedactEquation DEF JsonLike
<1>3. CASE ~Nonempty(v)
  <2>1. r = v
    <3>1. CASE v[1] = "dict"
      <4>1. v = <<"dict", v[2]>> /\ v[2] = [i \in DOMAIN v[2] |-> v[2][i]] /\ DOMAIN v[2] = {}
        BY <1>2, <1>3, <3>1 DEF Nonempty, IsContainer
      <4>2. RedactDict(v[2], Redact) = v[2]
        <5> DEFINE F == v[2]
        <5>1. F = [i \in {} |-> F[i]] /\ {Str(k) : k \in DOMAIN F} = {}
          BY <4>1
        <5>2. RedactDict(F, Redact) = [text \in {} |-> RedactDict(F, Redact)[text]]
          BY <5>1 DEF RedactDict
        <5> HIDE DEF F
        <5>3. RedactDict(F, Redact) = F
          BY <5>1, <5>2
        <5>4. QED
          BY <5>3 DEF F
      <4>3. QED
        BY <1>2, <3>1, <4>1, <4>2 DEF RedactValue
    <3>2. CASE v[1] # "dict"
      BY <1>2, <1>3, <3>2 DEF RedactValue, Nonempty, IsContainer
    <3>3. QED
      BY <3>1, <3>2
  <2>2. QED
    BY <2>1, <1>1, <1>2, <1>3, LeafOfOther, CensorBare
<1>4. CASE Nonempty(v)
  <2>0. IsContainer(v)
    BY <1>4 DEF Nonempty
  <2>1. /\ r[1] = v[1]
        /\ DOMAIN r[2] = {NewIndex(v, i) : i \in DOMAIN v[2]}
        /\ \A i \in DOMAIN v[2] : r[2][NewIndex(v, i)] =
             IF v[1] = "dict" /\ Sensitive(i) THEN Redacted ELSE Redact[v[2][i]]
    BY <1>2, <2>0, RedactedItems
  <2>a. Nonempty(r) /\ IsContainer(r)
    BY <1>4, <2>1 DEF Nonempty, IsContainer
  <2> DEFINE item(i) == r[2][NewIndex(v, i)]
             F(i) == LeavesUnder(r, NewIndex(v, i), item(i))
             G(i) == LeavesUnder(v, i, v[2][i])
             H(i) == {Censored(l) : l \in G(i)}
  <2>2. Leaves[r] = UNION {F(i) : i \in DOMAIN v[2]}
    <3>1. Leaves[r] = UNION {LeavesUnder(r, n, r[2][n]) : n \in DOMAIN r[2]}
      BY <1>2, <2>a, LeavesOfContainer
    <3>2. {LeavesUnder(r, n, r[2][n]) : n \in DOMAIN r[2]} = {F(i) : i \in DOMAIN v[2]}
      <4> DEFINE L(n) == LeavesUnder(r, n, r[2][n])
      <4>1. \A i \in DOMAIN v[2] : F(i) = L(NewIndex(v, i))
        OBVIOUS
      <4> HIDE DEF F, L
      <4>2. {L(n) : n \in DOMAIN r[2]} = {F(i) : i \in DOMAIN v[2]}
        BY <4>1, <2>1
      <4>3. QED
        BY <4>2 DEF L
    <3>3. QED
      BY <3>1, <3>2, Zenon
  <2>3. Leaves[v] = UNION {G(i) : i \in DOMAIN v[2]}
    BY <1>2, <1>4, LeavesOfContainer
  <2>4. ASSUME NEW i \in DOMAIN v[2] PROVE F(i) = H(i)
    <3>1. F(i) = LeavesAt(Spelled(<<v[1], i>>), item(i))
      BY <2>1 DEF LeavesUnder, LeavesAt, Spelled, NewIndex
    <3>3. CASE v[1] = "dict" /\ Sensitive(i)
      <4>1. item(i) = Redacted /\ item(i) \in Values
        BY <2>a, <3>3, <2>1, <1>2, StepOfItem
      <4>2. QED
        BY <4>1, <2>0, <3>1, <3>3, <1>2, CensorsSensitive
    <3>4. CASE ~(v[1] = "dict" /\ Sensitive(i))
      <4>1. Item(v, v[2][i]) /\ v[2][i] \in S
        BY <1>2, <2>0 DEF Item, JsonLike
      <4>2. Good(v[2][i])
        BY <4>1, <1>1, <1>2, ItemsBelow
      <4>3. item(i) = Redact[v[2][i]]
        BY <3>4, <2>1
      <4>4. QED
        BY <4>2, <4>3, <2>0, <3>1, <3>4, <1>2, CensorsUnder
    <3>5. QED
      BY <3>3, <3>4
  <2>5. Leaves[r] = {Censored(l) : l \in Leaves[v]}
    <3>1. Leaves[r] = UNION {H(i) : i \in DOMAIN v[2]}
      <4>1. {F(i) : i \in DOMAIN v[2]} = {H(i) : i \in DOMAIN v[2]}
        <5> HIDE DEF F, H
        <5>2. QED
          BY <2>4
      <4>2. QED
        BY <4>1, <2>2, Zenon
    <3>2. QED
      BY <3>1, <2>3
  <2>6. QED
    BY <2>5, <1>1
<1>6. QED
  BY <1>3, <1>4

-------------------------------------------------------------------------------
(* The theorems *)

LEMMA DescribedAlways == SpecContent => []Described
<1>1. InitContent => Described
  BY DEF InitContent, Described
<1>2. Described /\ [NextContent]_<<vars, contents>> => Described'
  <2> SUFFICES ASSUME Described, [NextContent]_<<vars, contents>> PROVE Described'
    OBVIOUS
  <2>1. CASE NextContent
    BY <2>1, DescribedStep DEF NextContent, AppendData, RecordPrivilegedRead, Described
  <2>2. CASE UNCHANGED <<vars, contents>>
    BY <2>2 DEF Described
  <2>3. QED
    BY <2>1, <2>2
<1>3. QED
  BY <1>1, <1>2, PTL DEF SpecContent

(* If JSON can say the data callers pass, every stored event shows exactly its *)
(* given data with the sensitive values replaced, however deep they nest.       *)
THEOREM ContentCensored ==
  ASSUME NEW S, JsonLike(S), Data \subseteq S
  PROVE  SpecContent => []StoredIsCensored
<1>1. JsonLike(S \cup {Empty})
  BY DEF JsonLike, Empty
<1>2. Described => StoredIsCensored
  <2> SUFFICES ASSUME Described, NEW n \in DOMAIN contents
               PROVE  Leaves[contents[n].stored] = {Censored(l) : l \in Leaves[contents[n].given]}
    BY DEF StoredIsCensored
  <2>1. contents[n] \in Contents
    BY Element, Zenon DEF Described
  <2>2. contents[n].given \in S \cup {Empty} /\ contents[n].stored = Redact[contents[n].given]
    BY <2>1 DEF Described, Contents
  <2>3. QED
    BY <1>1, <2>2, RedactCensors
<1>3. QED
  BY <1>2, DescribedAlways, PTL

===============================================================================

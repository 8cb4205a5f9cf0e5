---------------------------- MODULE MCEventContent -----------------------------
(***************************************************************************)
(* Two threads that serve two requests and append two events, with data    *)
(* that nests the containers in each other.                                *)
(***************************************************************************)
EXTENDS EventContent

Secret == <<"leaf", "secret">>
Plain == <<"leaf", "plain">>

Token == <<"token", "lower", "str">>
Password == <<"password", "Title", "str">>
Note == <<"note", "lower", "str">>
Seven == <<"7", "digits", "int">>

Object(k, v) == <<"dict", [x \in {k} |-> v]>>
Pair(k, v) == <<"dict", [x \in {k, Note} |-> IF x = k THEN v ELSE Plain]>>

JsonData ==
    {Pair(Password, Secret),
     Pair(Token, <<"list", <<Secret>>>>),
     Object(Note, <<"list", <<Plain, Pair(Password, Secret)>>>>),
     Object(Note, <<"list", <<<<"list", <<Object(Token, Object(Note, Secret))>>>>>>>>),
     Object(Note, Pair(Seven, Object(Token, Secret))),
     Object(Token, Empty)}

TupleData == {Object(Note, <<"tuple", <<Object(Token, Secret), Plain>>>>)}

Items(value) == IF value[1] = "leaf" THEN {} ELSE Range(value[2])

(* The values in a value, and what redact returns for one. *)
RECURSIVE Within(_)
Within(value) == {value} \cup UNION {Within(u) : u \in Items(value)}

RECURSIVE Returned(_)
Returned(value) == RedactValue(value, [u \in Items(value) |-> Returned(u)])

MCValues ==
    LET given == UNION {Within(d) : d \in JsonData \cup TupleData \cup {Empty}}
    IN UNION {Within(v) : v \in given \cup {Returned(v) : v \in given}}

RECURSIVE Nesting(_)
Nesting(value) ==
    IF Items(value) = {} THEN 0 ELSE 1 + Max({Nesting(u) : u \in Items(value)})

MCDepth == [v \in MCValues |-> Nesting(v)]

===============================================================================

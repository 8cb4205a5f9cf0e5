------------------------------- MODULE Redaction -------------------------------
(***************************************************************************)
(* redact (apps/audit/services.py), the values it is given and what it     *)
(* must do to them.  A value is <<"leaf", x>> or a container <<kind, f>>:  *)
(* a "dict" with a function of its keys, a "list" or a "tuple" with a      *)
(* sequence.  A key is <<its text in lower case, how that is spelled, its  *)
(* type>>.                                                                 *)
(***************************************************************************)
EXTENDS Naturals, Sequences, FiniteSetsExt

CONSTANTS
    Values,  \* the values redact meets: what it is given, their items, what it returns
    Depth    \* Depth[v]: a bound on how deep the containers of v nest

SensitiveKeys == {"authorization", "cookie", "password", "secret", "token"}
Sensitive(key) == key[1] \in SensitiveKeys

(* str(key): keys of different types may have one text. *)
Str(key) == <<key[1], key[2], "str">>

Redacted == <<"leaf", "[REDACTED]">>

Kinds == {"leaf", "dict", "list", "tuple"}
IsContainer(value) == value[1] # "leaf"

(* Containers end: no value contains itself. *)
ASSUME ValuesAssumption ==
    /\ \A v \in Values : v = <<v[1], v[2]>> /\ v[1] \in Kinds
    /\ \A v \in Values : IsContainer(v) => v[2] = [i \in DOMAIN v[2] |-> v[2][i]]
ASSUME DepthAssumption ==
    /\ Depth \in [Values -> Nat]
    /\ \A v \in Values : IsContainer(v) =>
         \A i \in DOMAIN v[2] : v[2][i] \in Values /\ Depth[v[2][i]] < Depth[v]

(* A dict comprehension over the items: of keys with one text the last one     *)
(* stays, and the order of the items is any.                                  *)
RedactDict(f, redact) ==
    [text \in {Str(k) : k \in DOMAIN f} |->
        IF Sensitive(text) THEN Redacted
        ELSE redact[f[CHOOSE k \in DOMAIN f : Str(k) = text]]]

(* What redact returns for a value; redact itself is the function it calls for *)
(* the items.  Mutant: lists are returned as they are.                         *)
RedactDictsOnly(value, redact) ==
    IF value[1] = "dict" THEN <<"dict", RedactDict(value[2], redact)>> ELSE value

RedactValue(value, redact) ==
    CASE value[1] = "dict" -> <<"dict", RedactDict(value[2], redact)>>
      [] value[1] = "list" -> <<"list", [n \in DOMAIN value[2] |-> redact[value[2][n]]]>>
      [] OTHER -> value

Redact[value \in Values] == RedactValue(value, Redact)

ASSUME ClosedAssumption == \A v \in Values : Redact[v] \in Values

-------------------------------------------------------------------------------
(* The reference: what a value shows, leaf by leaf *)

(* The leaves of a value with the <<kind, index>> steps that lead to them; an *)
(* empty container is a leaf.                                                 *)
LeavesOf(value, leaves) ==
    IF ~IsContainer(value) \/ DOMAIN value[2] = {}
    THEN {<<<<>>, value>>}
    ELSE UNION {{<<<<<<value[1], i>>>> \o l[1], l[2]>> : l \in leaves[value[2][i]]} :
                i \in DOMAIN value[2]}

Leaves[value \in Values] == LeavesOf(value, Leaves)

(* A step with its key's text. *)
Spelled(step) == IF step[1] = "dict" THEN <<"dict", Str(step[2])>> ELSE step

(* The sensitive keys on a path. *)
Hiding(path) == {n \in DOMAIN path : path[n][1] = "dict" /\ Sensitive(path[n][2])}

(* What a leaf must become: the text that stands for the outermost such key's *)
(* value, or itself; the keys that lead to it become texts.                   *)
Censored(leaf) ==
    LET path == [n \in DOMAIN leaf[1] |-> Spelled(leaf[1][n])]
        hiding == Hiding(path)
    IN IF hiding = {} THEN <<path, leaf[2]>> ELSE <<SubSeq(path, 1, Min(hiding)), Redacted>>

===============================================================================

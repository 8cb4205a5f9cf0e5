----------------------------- MODULE EventContent ------------------------------
(***************************************************************************)
(* What an event says besides its place in the chain: the data             *)
(* append_event stores, the reason of record_privileged_read, and the      *)
(* correlation id of the request (apps/audit/services.py).                 *)
(***************************************************************************)
EXTENDS Correlation, Redaction

CONSTANTS
    Data,      \* the dicts callers pass as data
    Purposes,  \* the purposes of privileged reads
    Blank      \* a purpose of white space

VARIABLE contents  \* contents[n]: the data given and stored, and the reason, of event n

Empty == <<"dict", <<>>>>

ASSUME DataAssumption == Data \cup {Empty} \subseteq Values

InitContent == Init /\ contents = <<>>

(* data or {}, redacted, goes into the hash and into the row. *)
Describe(given, reason) ==
    contents' = Append(contents, [given |-> given, stored |-> Redact[given], reason |-> reason])

AppendData(w) ==
    /\ AppendEvent(w)
    /\ \E given \in Data \cup {Empty} : Describe(given, "")

(* Without a purpose nothing is recorded. *)
RecordPrivilegedRead(w) ==
    \E purpose \in Purposes \ {Blank} :
        /\ AppendEvent(w)
        /\ Describe(Empty, purpose)

NextContent ==
    \E w \in Workers :
        \/ AppendData(w)
        \/ RecordPrivilegedRead(w)
        \/ (\E r \in Requests : Arrive(w, r)) /\ UNCHANGED contents
        \/ Respond(w) /\ UNCHANGED contents
        \/ Raise(w) /\ UNCHANGED contents

SpecContent == InitContent /\ [][NextContent]_<<vars, contents>>

-------------------------------------------------------------------------------
(* Property *)

(* What an event stores is what it was given, with the value of each sensitive *)
(* key replaced, however the key is spelled and however deep it lies, and       *)
(* nothing else lost.  Holds of data without tuples whose dicts have no two     *)
(* keys with one text; redact returns a tuple as it is.                         *)
StoredIsCensored ==
    \A n \in DOMAIN contents :
        Leaves[contents[n].stored] = {Censored(l) : l \in Leaves[contents[n].given]}

===============================================================================

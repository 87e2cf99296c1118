----------------------------- MODULE Dictionary -----------------------------
(***************************************************************************)
(* What a cache of compiled functions promises to the context that owns    *)
(* it: a partial map from identifiers to values.  FunctionCache.tla is     *)
(* shown to implement it whatever the hash function does.                  *)
(***************************************************************************)
CONSTANTS Identifiers, \* names a function can be cached under
          Values,      \* what is stored under a name
          Absent       \* "there is no value", not a member of Values

VARIABLES entries,     \* the map, Absent where nothing is stored
          asked,       \* the identifier the last operation was called with
          answer       \* what it returned

vars == <<entries, asked, answer>>

Init ==
    /\ entries = [id \in Identifiers |-> Absent]
    /\ asked = Absent
    /\ answer = Absent

Find(id) ==
    /\ answer' = entries[id]
    /\ UNCHANGED entries

InsertOrAssign(id, v) ==
    /\ entries' = [entries EXCEPT ![id] = v]
    /\ answer' = Absent

\* The caller learns whether something was there by what it gets back.
Erase(id) ==
    /\ entries' = [entries EXCEPT ![id] = Absent]
    /\ answer' = entries[id]

Next ==
    \E id \in Identifiers :
        /\ asked' = id
        /\ \/ Find(id)
           \/ Erase(id)
           \/ \E v \in Values : InsertOrAssign(id, v)

Spec == Init /\ [][Next]_vars
=============================================================================

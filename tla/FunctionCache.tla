---------------------------- MODULE FunctionCache ----------------------------
(***************************************************************************)
(* The cache of compiled functions (FunctionCache, jit.cpp): an unordered  *)
(* multimap from the HASH of an identifier to a record that repeats the    *)
(* identifier.  Two identifiers may share a hash, and the container itself *)
(* would happily hold two records of one identifier; every operation walks *)
(* equal_range(hash) and compares identifiers.                             *)
(*                                                                         *)
(* The multimap is a set of nodes.  A node is an allocation: two nodes     *)
(* with equal contents are still two nodes, so the set can hold what a     *)
(* multimap can hold, and the order of equal_range is left open.           *)
(***************************************************************************)
CONSTANTS Identifiers,
          Values,      \* a record's payload: the code address and the arguments
          Absent,      \* nullptr / nothing found
          Nodes,       \* addresses of container nodes
          Hashes,
          Hash         \* std::hash of an identifier

ASSUME HashAssumption == Hash \in [Identifiers -> Hashes]
ASSUME AbsentAssumption == Absent \notin Values

VARIABLES records_,    \* the multimap
          asked,       \* the identifier the last operation was called with
          answer       \* what it returned

vars == <<records_, asked, answer>>

Record == [node : Nodes, hash : Hashes, identifier : Identifiers, value : Values]

TypeOK ==
    /\ records_ \subseteq Record
    /\ asked \in Identifiers \cup {Absent}
    /\ answer \in Values \cup {Absent}

-----------------------------------------------------------------------------

equal_range(h) == {r \in records_ : r.hash = h}

\* Mutant: the walk over equal_range does not compare identifiers.
MutMatchesByHash(id) == equal_range(Hash[id])

\* The records an operation on id may stop at: same hash, same identifier.
Matches(id) == {r \in equal_range(Hash[id]) : r.identifier = id}

FreeNodes == Nodes \ {r.node : r \in records_}

Init ==
    /\ records_ = {}
    /\ asked = Absent
    /\ answer = Absent

Find(id) ==
    /\ \/ \E r \in Matches(id) : answer' = r.value
       \/ Matches(id) = {} /\ answer' = Absent
    /\ UNCHANGED records_

\* A record of that identifier is overwritten where it is.
Assign(id, v) ==
    \E r \in Matches(id) :
        /\ records_' = (records_ \ {r}) \cup {[r EXCEPT !.value = v]}
        /\ answer' = Absent

\* Mutant: emplace without having looked for the record to overwrite.
MutEmplaceAlways(id, v) ==
    /\ \E n \in FreeNodes :
          records_' = records_ \cup
              {[node |-> n, hash |-> Hash[id], identifier |-> id, value |-> v]}
    /\ answer' = Absent

\* Mutant: a null record is stored for the identifier.
MutEmplaceNothing(id, v) ==
    /\ Matches(id) = {}
    /\ \E n \in FreeNodes :
          records_' = records_ \cup
              {[node |-> n, hash |-> Hash[id], identifier |-> id, value |-> Absent]}
    /\ answer' = Absent

Emplace(id, v) ==
    /\ Matches(id) = {}
    /\ \E n \in FreeNodes :
          records_' = records_ \cup
              {[node |-> n, hash |-> Hash[id], identifier |-> id, value |-> v]}
    /\ answer' = Absent

insert_or_assign(id, v) == Assign(id, v) \/ Emplace(id, v)

\* At most one record goes, the first that matches.
Erase(id) ==
    \/ \E r \in Matches(id) :
          /\ records_' = records_ \ {r}
          /\ answer' = r.value
    \/ /\ Matches(id) = {}
       /\ answer' = Absent
       /\ UNCHANGED records_

Next ==
    \E id \in Identifiers :
        /\ asked' = id
        /\ \/ Find(id)
           \/ Erase(id)
           \/ \E v \in Values : insert_or_assign(id, v)

Spec == Init /\ [][Next]_vars

-----------------------------------------------------------------------------

\* The multimap never holds two records of one identifier, and a record sits
\* under the hash of its own identifier.  insert_or_assign relies on this to
\* overwrite the only record, erase to leave none behind, and size() to count
\* functions: a record missed under another hash would be a second one.
OneRecordPerIdentifier ==
    \A r, s \in records_ :
        /\ r.hash = Hash[r.identifier]
        /\ r.identifier = s.identifier => r = s

\* The map the records stand for.
EntryOf(id) ==
    IF \E r \in records_ : r.identifier = id
    THEN (CHOOSE r \in records_ : r.identifier = id).value
    ELSE Absent

Dict == INSTANCE Dictionary WITH entries <- [id \in Identifiers |-> EntryOf(id)]

\* Every operation of the hashed multimap is the operation of the same name on
\* a plain map: hash collisions never return, overwrite or erase the record of
\* another identifier.
ImplementsDictionary == Dict!Spec
=============================================================================

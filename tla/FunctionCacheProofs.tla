------------------------- MODULE FunctionCacheProofs -------------------------
(***************************************************************************)
(* The hashed multimap implements the plain map for every hash function,   *)
(* every set of identifiers and every set of nodes.                        *)
(***************************************************************************)
EXTENDS FunctionCache, TLAPS

IInv == TypeOK /\ OneRecordPerIdentifier

\* Under the invariant, the records that match id are the record of id, if any.
LEMMA MatchesAreTheEntry ==
    ASSUME IInv, NEW id \in Identifiers
    PROVE  /\ \A r \in Matches(id) : EntryOf(id) = r.value
           /\ Matches(id) = {} => EntryOf(id) = Absent
<1>1. \A r \in records_ : r.identifier = id <=> r \in Matches(id)
  BY DEF IInv, OneRecordPerIdentifier, Matches, equal_range
<1>2. ASSUME NEW r \in Matches(id)
      PROVE  EntryOf(id) = r.value
  <2> DEFINE e == CHOOSE s \in records_ : s.identifier = id
  <2>1. r \in records_ /\ r.identifier = id
    BY DEF Matches, equal_range
  <2>2. e \in records_ /\ e.identifier = id
    BY <2>1
  <2>3. e = r
    BY <2>1, <2>2 DEF IInv, OneRecordPerIdentifier
  <2> QED
    BY <2>1, <2>3 DEF EntryOf
<1>3. ASSUME Matches(id) = {}
      PROVE  EntryOf(id) = Absent
  BY <1>1, <1>3 DEF EntryOf
<1> QED
  BY <1>2, <1>3

LEMMA InitInvariant == Init => IInv
BY DEF Init, IInv, TypeOK, OneRecordPerIdentifier

LEMMA AssignInvariant ==
    ASSUME IInv, NEW id \in Identifiers, NEW v \in Values, asked' = id, Assign(id, v)
    PROVE  IInv'
<1>1. PICK r \in Matches(id) :
          /\ records_' = (records_ \ {r}) \cup {[r EXCEPT !.value = v]}
          /\ answer' = Absent
  BY DEF Assign
<1>2. r \in records_ /\ r \in Record
  BY DEF IInv, TypeOK, Matches, equal_range
<1> DEFINE s == [r EXCEPT !.value = v]
<1>3. s \in Record /\ s.hash = r.hash /\ s.identifier = r.identifier
  BY <1>2 DEF Record
<1>6. records_' = (records_ \ {r}) \cup {s} /\ answer' = Absent
  BY <1>1
<1> HIDE DEF s
<1>4. TypeOK'
  BY <1>6, <1>3 DEF IInv, TypeOK
<1>5. OneRecordPerIdentifier'
  <2>1. r.hash = Hash[r.identifier]
    BY <1>2 DEF IInv, OneRecordPerIdentifier
  <2>2. \A q \in records_ : q.identifier = r.identifier => q = r
    BY <1>2 DEF IInv, OneRecordPerIdentifier
  <2>3. \A q \in records_' : q.hash = Hash[q.identifier]
    BY <1>6, <1>3, <2>1 DEF IInv, OneRecordPerIdentifier
  <2>4. \A p, q \in records_' : p.identifier = q.identifier => p = q
    BY <1>6, <1>3, <2>2 DEF IInv, OneRecordPerIdentifier
  <2> QED
    BY <2>3, <2>4 DEF OneRecordPerIdentifier
<1> QED
  BY <1>4, <1>5 DEF IInv

LEMMA EmplaceInvariant ==
    ASSUME IInv, NEW id \in Identifiers, NEW v \in Values, asked' = id, Emplace(id, v)
    PROVE  IInv'
<1>1. PICK n \in FreeNodes :
          /\ Matches(id) = {}
          /\ records_' = records_ \cup
               {[node |-> n, hash |-> Hash[id], identifier |-> id, value |-> v]}
          /\ answer' = Absent
  BY DEF Emplace
<1> DEFINE s == [node |-> n, hash |-> Hash[id], identifier |-> id, value |-> v]
<1>2. s \in Record
  BY HashAssumption DEF Record, FreeNodes
<1>3. TypeOK'
  BY <1>1, <1>2 DEF IInv, TypeOK
<1>4. \A r \in records_ : r.identifier # id
  BY <1>1 DEF IInv, OneRecordPerIdentifier, Matches, equal_range
<1>5. s.hash = Hash[s.identifier] /\ s.identifier = id
  OBVIOUS
<1>6. records_' = records_ \cup {s}
  BY <1>1
<1> HIDE DEF s
<1>7. OneRecordPerIdentifier'
  BY <1>4, <1>5, <1>6 DEF IInv, OneRecordPerIdentifier
<1> QED
  BY <1>3, <1>7 DEF IInv

LEMMA EraseInvariant ==
    ASSUME IInv, NEW id \in Identifiers, asked' = id, Erase(id)
    PROVE  IInv'
<1>1. records_' \subseteq records_
  BY DEF Erase
<1>2. answer' \in Values \cup {Absent}
  BY DEF Erase, IInv, TypeOK, Matches, equal_range, Record
<1> QED
  BY <1>1, <1>2 DEF IInv, TypeOK, OneRecordPerIdentifier

LEMMA StepInvariant == IInv /\ [Next]_vars => IInv'
<1> SUFFICES ASSUME IInv, [Next]_vars
             PROVE  IInv'
  OBVIOUS
<1>1. ASSUME NEW id \in Identifiers, asked' = id, Find(id)
      PROVE  IInv'
  BY <1>1 DEF Find, IInv, TypeOK, OneRecordPerIdentifier, Matches, equal_range, Record
<1>2. ASSUME NEW id \in Identifiers, asked' = id, Erase(id)
      PROVE  IInv'
  BY <1>2, EraseInvariant
<1>3. ASSUME NEW id \in Identifiers, NEW v \in Values, asked' = id,
             insert_or_assign(id, v)
      PROVE  IInv'
  BY <1>3, AssignInvariant, EmplaceInvariant DEF insert_or_assign
<1>4. CASE UNCHANGED vars
  BY <1>4 DEF vars, IInv, TypeOK, OneRecordPerIdentifier
<1> QED
  BY <1>1, <1>2, <1>3, <1>4 DEF Next

\* For every hash function, at any time an identifier has at most one record
\* and it sits under the identifier's own hash (FunctionCache in jit.cpp).
THEOREM CacheInvariant == Spec => [](TypeOK /\ OneRecordPerIdentifier)
<1> QED
  BY InitInvariant, StepInvariant, PTL DEF Spec, IInv

\* For every hash function, a bucket holds only records of identifiers with a value:
\* neither a rename nor an erasure leaves half a record behind.
THEOREM TypeCorrect == Spec => []TypeOK
<1> QED
  BY CacheInvariant, PTL

-----------------------------------------------------------------------------
(* Each operation is the operation of the same name on the plain map. *)

LEMMA EntryOfType == ASSUME IInv, NEW id \in Identifiers
                     PROVE  EntryOf(id) \in Values \cup {Absent}
BY DEF EntryOf, IInv, TypeOK, Record

LEMMA FindRefines ==
    ASSUME IInv, NEW id \in Identifiers, Find(id)
    PROVE  Dict!Find(id)
<1>1. answer' = EntryOf(id)
  BY MatchesAreTheEntry DEF Find
<1>2. \A i \in Identifiers : EntryOf(i)' = EntryOf(i)
  BY DEF Find, EntryOf
<1> QED
  BY <1>1, <1>2 DEF Dict!Find

LEMMA EntriesAfterStore ==
    ASSUME IInv, IInv', NEW id \in Identifiers, NEW s \in records_', NEW v \in Values,
           s.identifier = id, s.value = v,
           \A i \in Identifiers \ {id} : \A r : r.identifier = i =>
               (r \in records_ <=> r \in records_')
    PROVE  \A i \in Identifiers : EntryOf(i)' = IF i = id THEN v ELSE EntryOf(i)
<1>1. EntryOf(id)' = v
  <2> DEFINE e == CHOOSE r \in records_' : r.identifier = id
  <2>1. e \in records_' /\ e.identifier = id
    OBVIOUS
  <2>2. e = s
    BY <2>1 DEF IInv, OneRecordPerIdentifier
  <2>3. EntryOf(id)' = e.value
    BY DEF EntryOf
  <2> QED
    BY <2>2, <2>3
<1>2. ASSUME NEW i \in Identifiers \ {id}
      PROVE  EntryOf(i)' = EntryOf(i)
  <2>1. CASE \E r \in records_ : r.identifier = i
    <3>1. PICK r \in records_ : r.identifier = i
      BY <2>1
    <3>2. r \in records_'
      BY <3>1
    <3> DEFINE p == CHOOSE q \in records_ : q.identifier = i
               q2 == CHOOSE q \in records_' : q.identifier = i
    <3>3. p \in records_ /\ p.identifier = i /\ q2 \in records_' /\ q2.identifier = i
      BY <3>1, <3>2
    <3>4. p = r /\ q2 = r
      BY <3>1, <3>2, <3>3 DEF IInv, OneRecordPerIdentifier
    <3>5. EntryOf(i) = p.value /\ EntryOf(i)' = q2.value
      BY <3>1, <3>2 DEF EntryOf
    <3> QED
      BY <3>4, <3>5
  <2>2. CASE ~ \E r \in records_ : r.identifier = i
    <3>1. ~ \E r \in records_' : r.identifier = i
      BY <2>2
    <3> QED
      BY <2>2, <3>1 DEF EntryOf
  <2> QED
    BY <2>1, <2>2
<1> QED
  BY <1>1, <1>2

LEMMA StoreRefines ==
    ASSUME IInv, IInv', NEW id \in Identifiers, NEW v \in Values, insert_or_assign(id, v)
    PROVE  Dict!InsertOrAssign(id, v)
<1>1. answer' = Absent
  BY DEF insert_or_assign, Assign, Emplace
<1>2. \A i \in Identifiers : EntryOf(i)' = IF i = id THEN v ELSE EntryOf(i)
  <2>1. CASE Assign(id, v)
    <3>1. PICK r \in Matches(id) :
              records_' = (records_ \ {r}) \cup {[r EXCEPT !.value = v]}
      BY <2>1 DEF Assign
    <3>2. r \in records_ /\ r \in Record /\ r.identifier = id
      BY DEF IInv, TypeOK, Matches, equal_range
    <3> DEFINE s == [r EXCEPT !.value = v]
    <3>3. s.identifier = id /\ s.value = v /\ s \in records_'
      BY <3>1, <3>2 DEF Record
    <3>4. records_' = (records_ \ {r}) \cup {s}
      BY <3>1
    <3> HIDE DEF s
    <3>5. \A i \in Identifiers \ {id} : \A q : q.identifier = i =>
              (q \in records_ <=> q \in records_')
      BY <3>2, <3>3, <3>4
    <3> QED
      BY <3>3, <3>5, EntriesAfterStore
  <2>2. CASE Emplace(id, v)
    <3>1. PICK n \in FreeNodes : records_' = records_ \cup
              {[node |-> n, hash |-> Hash[id], identifier |-> id, value |-> v]}
      BY <2>2 DEF Emplace
    <3> DEFINE s == [node |-> n, hash |-> Hash[id], identifier |-> id, value |-> v]
    <3>2. s.identifier = id /\ s.value = v /\ s \in records_'
      BY <3>1
    <3>3. records_' = records_ \cup {s}
      BY <3>1
    <3> HIDE DEF s
    <3>4. \A i \in Identifiers \ {id} : \A q : q.identifier = i =>
              (q \in records_ <=> q \in records_')
      BY <3>2, <3>3
    <3> QED
      BY <3>2, <3>4, EntriesAfterStore
  <2> QED
    BY <2>1, <2>2 DEF insert_or_assign
<1> QED
  BY <1>1, <1>2 DEF Dict!InsertOrAssign

LEMMA EraseRefines ==
    ASSUME IInv, IInv', NEW id \in Identifiers, Erase(id)
    PROVE  Dict!Erase(id)
<1>1. answer' = EntryOf(id)
  BY MatchesAreTheEntry DEF Erase
<1>2. ~ \E r \in records_' : r.identifier = id
  <2>1. \A r \in records_ : r.identifier = id <=> r \in Matches(id)
    BY DEF IInv, OneRecordPerIdentifier, Matches, equal_range
  <2>2. \A r, s \in Matches(id) : r = s
    BY DEF IInv, OneRecordPerIdentifier, Matches, equal_range
  <2> QED
    BY <2>1, <2>2 DEF Erase
<1>3. \A i \in Identifiers \ {id} : \A r : r.identifier = i =>
          (r \in records_ <=> r \in records_')
  BY DEF Erase, Matches, equal_range
<1>4. ASSUME NEW i \in Identifiers \ {id}
      PROVE  EntryOf(i)' = EntryOf(i)
  <2>1. \A r : (r \in records_ /\ r.identifier = i) <=> (r \in records_' /\ r.identifier = i)
    BY <1>3
  <2>2. CASE \E r \in records_ : r.identifier = i
    <3>1. PICK r \in records_ : r.identifier = i
      BY <2>2
    <3>2. r \in records_'
      BY <2>1, <3>1
    <3> DEFINE p == CHOOSE q \in records_ : q.identifier = i
               q2 == CHOOSE q \in records_' : q.identifier = i
    <3>3. p \in records_ /\ p.identifier = i /\ q2 \in records_' /\ q2.identifier = i
      BY <3>1, <3>2
    <3>4. p = r /\ q2 = r
      BY <3>1, <3>2, <3>3 DEF IInv, OneRecordPerIdentifier
    <3>5. EntryOf(i) = p.value /\ EntryOf(i)' = q2.value
      BY <3>1, <3>2 DEF EntryOf
    <3> QED
      BY <3>4, <3>5
  <2>3. CASE ~ \E r \in records_ : r.identifier = i
    BY <2>1, <2>3 DEF EntryOf
  <2> QED
    BY <2>2, <2>3
<1>5. EntryOf(id)' = Absent
  BY <1>2 DEF EntryOf
<1> QED
  BY <1>1, <1>4, <1>5 DEF Dict!Erase

LEMMA StepRefines == IInv /\ IInv' /\ [Next]_vars => [Dict!Next]_(Dict!vars)
<1> SUFFICES ASSUME IInv, IInv', [Next]_vars
             PROVE  [Dict!Next]_(Dict!vars)
  OBVIOUS
<1>1. CASE Next
  BY <1>1, FindRefines, StoreRefines, EraseRefines DEF Next, Dict!Next
<1>2. CASE UNCHANGED vars
  <2>1. \A i \in Identifiers : EntryOf(i)' = EntryOf(i)
    BY <1>2 DEF vars, EntryOf
  <2> QED
    BY <1>2, <2>1 DEF vars, Dict!vars
<1> QED
  BY <1>1, <1>2

\* The hashed multimap of jit.cpp implements a plain map: whatever collides,
\* find, insert_or_assign and erase act on the record of their identifier only.
THEOREM CacheImplementsDictionary == Spec => ImplementsDictionary
<1>1. Init => Dict!Init
  BY DEF Init, Dict!Init, EntryOf
<1> QED
  BY <1>1, InitInvariant, StepInvariant, StepRefines, PTL
     DEF Spec, ImplementsDictionary, Dict!Spec
=============================================================================

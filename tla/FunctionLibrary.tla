--------------------------- MODULE FunctionLibrary ---------------------------
(***************************************************************************)
(* What JitContext promises its clients (the comment on class JitContext,  *)
(* jit.h): functions are compiled under stable identifiers, found again    *)
(* under them, and a pointer the client was given keeps running the        *)
(* function compiled under its identifier until that identifier is         *)
(* released, the context is cleared or the context goes away.  There is no *)
(* executable memory, no hash table and no moving of implementation        *)
(* objects here; JitContext.tla is shown to implement this.                *)
(***************************************************************************)
CONSTANTS Contexts, Identifiers, Functions,
          Nothing      \* no function, not a member of Functions

VARIABLES library,     \* the function each context keeps under each identifier
          promised     \* the pointers the client may call, as what they run

vars == <<library, promised>>

Promise == [context : Contexts, identifier : Identifiers, function : Functions]

TypeOK ==
    /\ library \in [Contexts -> [Identifiers -> Functions \cup {Nothing}]]
    /\ promised \subseteq Promise

Empty == [id \in Identifiers |-> Nothing]

Init ==
    /\ library = [c \in Contexts |-> Empty]
    /\ promised = {}

Find(c, id) ==
    /\ library[c][id] \in Functions
    /\ promised' = promised \cup
          {[context |-> c, identifier |-> id, function |-> library[c][id]]}
    /\ UNCHANGED library

Build(c, id, f) ==
    /\ library[c][id] = Nothing
    /\ library' = [library EXCEPT ![c][id] = f]
    /\ promised' = promised \cup {[context |-> c, identifier |-> id, function |-> f]}

Release(c, id) ==
    /\ library' = [library EXCEPT ![c][id] = Nothing]
    /\ promised' = {p \in promised : ~ (p.context = c /\ p.identifier = id)}

\* clear(), the destructor
Forget(c) ==
    /\ library' = [library EXCEPT ![c] = Empty]
    /\ promised' = {p \in promised : p.context # c}

\* dst takes over what src has, pointers included, and loses what it had.
Move(dst, src) ==
    /\ dst # src
    /\ library' = [library EXCEPT ![dst] = library[src], ![src] = Empty]
    /\ promised' =
          {[p EXCEPT !.context = IF p.context = src THEN dst ELSE p.context] :
              p \in {q \in promised : q.context # dst}}

Next ==
    \/ \E c \in Contexts, id \in Identifiers :
          \/ Find(c, id)
          \/ Release(c, id)
          \/ \E f \in Functions : Build(c, id, f)
    \/ \E c \in Contexts : Forget(c)
    \/ \E dst, src \in Contexts : Move(dst, src)

Spec == Init /\ [][Next]_vars
=============================================================================

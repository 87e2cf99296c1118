----------------------------- MODULE MCPySession -----------------------------
(* PySession on small instances. *)
EXTENDS PySession, TLC

CONSTANTS t1, t2, p1, p2, x1, x2, x3, b1, b2, ida, idb

\* Every thread has a program of its own; one program for all threads.
OwnPrograms == (p1 :> {t1}) @@ (p2 :> {t2})
OneProgram == p1 :> {t1}

\* Arrays are alike, addresses too, and so are the two threads with their programs.
Exchange == (t1 :> t2) @@ (t2 :> t1) @@ (p1 :> p2) @@ (p2 :> p1)
Same == [x \in {t1, t2, p1, p2} |-> x]
MCSymmetry == {f @@ g @@ h : f \in Permutations(Arrays), g \in Permutations(Addresses), h \in {Exchange, Same}}
=============================================================================

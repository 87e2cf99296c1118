--------------------------- MODULE MCFunctionCache ---------------------------
(* FunctionCache with three identifiers, two of which share a hash. *)
EXTENDS FunctionCache, TLC

CONSTANTS a, b, c, h1, h2, n1, n2, n3, v1, v2

MCHash == (a :> h1) @@ (b :> h1) @@ (c :> h2)

=============================================================================

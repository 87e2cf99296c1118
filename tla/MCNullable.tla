----------------------------- MODULE MCNullable -----------------------------
(* Nullable values of two bits, signed.                                      *)
EXTENDS Nullable, Integers, TLC

MCValues == -2 .. 1
MCLeast == -2
MCMinusOne == -1
MCFit(n) == ((n + 2) % 4) - 2
MCDivisor(x, y) == IF y = 0 \/ (x = -2 /\ y = -1) THEN 1 ELSE y
MCSize(n) == IF n < 0 THEN -n ELSE n
MCQuotient(x, y) == LET q == MCSize(x) \div MCSize(y) IN IF (x < 0) = (y < 0) THEN q ELSE -q
MCBits(n) == {k \in 0 .. 1 : ((n % 4) \div 2 ^ k) % 2 = 1}
MCAnd(x, y) == CHOOSE n \in MCValues : MCBits(n) = MCBits(x) \intersect MCBits(y)

MCArithOps == {"Add", "And", "Div", "Mod", "Max", "Min"}
MCBinary(op, x, y) ==
  CASE op = "Add" -> MCFit(x + y)
    [] op = "And" -> MCAnd(x, y)
    [] op = "Div" -> MCQuotient(x, MCDivisor(x, y))
    [] op = "Mod" -> x - MCDivisor(x, y) * MCQuotient(x, MCDivisor(x, y))
    [] op = "Max" -> IF x >= y THEN x ELSE y
    [] op = "Min" -> IF x <= y THEN x ELSE y
MCArith == [op \in MCArithOps |-> [xy \in MCValues \X MCValues |-> MCBinary(op, xy[1], xy[2])]]
MCUnary == [op \in {"Negate"} |-> [x \in MCValues |-> MCFit(-x)]]
MCInexact ==
  {<<"Add", xy[1], xy[2]>> : xy \in {xy \in MCValues \X MCValues : xy[1] + xy[2] \notin MCValues}}
  \union {<<"Negate", x>> : x \in {x \in MCValues : -x \notin MCValues}}
MCInvalid ==
  {xy \in MCValues \X MCValues : IF xy[2] = 0 THEN TRUE ELSE MCQuotient(xy[1], xy[2]) \notin MCValues}
MCCompared ==
  [op \in {"Less", "Greater", "Equal", "NotEqual"} |->
     [xy \in MCValues \X MCValues |->
        CASE op = "Less" -> xy[1] < xy[2] [] op = "Greater" -> xy[1] > xy[2]
          [] op = "Equal" -> xy[1] = xy[2] [] op = "NotEqual" -> xy[1] # xy[2]]]
MCSymmetry == Permutations(Vars) \union Permutations(Conds)
=============================================================================

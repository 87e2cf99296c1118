----------------------------- MODULE LlvmEmitter -----------------------------
(* What the LLVM instructions compute that the LLVM backend builds for one    *)
(* integer step. A scalar and a lane of a vector have the same instruction; a *)
(* mask is a vector of as many i1 as rows, that is the set of its true lanes. *)
EXTENDS HirSteps

\* The count is masked before every shift, whose result would be poison otherwise.
LlvmCount(t, n) == n % Width(t)

LlvmPoisonShift(op, t, x, n) == IF n >= Width(t) THEN Undefined ELSE Shifted(op, t, x, n)

\* arith_binary
LlvmBinary(op, t, x, y) ==
  CASE op \in ShiftOps -> LlvmPoisonShift(op, t, x, LlvmCount(t, y))
    [] op \in DivisionOps -> IF Divisor(op, t, x, y) # y THEN Trap ELSE ArithInt(op, "No", t, x, y)
    [] op \in {"Mul", "Mul64SE", "Mul64ZE"} -> ArithInt("Mul", "No", t, x, y)
    [] op = "AndNot" -> ArithInt("And", "No", t, UnaryInt("Not", t, x), y)
    [] OTHER -> ArithInt(op, "No", t, x, y)

\* arith_unary: the intrinsics are told that neither zero nor the least value is poison.
LlvmUnary(op, t, x) == UnaryInt(op, t, x)

\* icmp, with the predicate of compare_to_llvm_int.
LlvmCompare(op, unsigned, t, x, y) ==
  LET side(v) == IF unsigned THEN v ELSE Signed(v, t) IN Bool(Compared(op, side(x), side(y), FALSE))

\* trunc, sext, zext. An i1 operand of an i8 step is extended with zeros.
LlvmCast(kind, from, to, x) ==
  CASE kind = "Trunc" -> x % Modulus(to)
    [] kind = "Sext"  -> Wrap(Signed(x, from), to)
    [] kind = "Zext"  -> x

\* A condition that was computed as an i8 is truncated to its lowest bit.
LlvmSelect(cond, truthy, falsy) == IF cond % 2 = 1 THEN truthy ELSE falsy

\* sadd.with.overflow and the like; the flag under the mask is or-ed to the accumulator.
LlvmOverflow(op, t, x, y, mask) ==
  LET exact == CASE op = "Add" -> Signed(x, t) + Signed(y, t) [] op = "Sub" -> Signed(x, t) - Signed(y, t)
                 [] op = "Mul" -> Signed(x, t) * Signed(y, t)
  IN  [value |-> Wrap(exact, t), raised |-> exact # Signed(Wrap(exact, t), t) /\ mask # 0]

\* ScalarPermute: bswap, or the bytes one by one.
LlvmScalarPermute(order, t, x) ==
  LET n == Size(t)
      byte(i) == (x \div 2 ^ (Byte * i)) % 2 ^ Byte
      reversed == t # "I8" /\ \A i \in 1 .. n : order[i] = n - i
      swapped[i \in 0 .. n] == IF i = 0 THEN 0 ELSE swapped[i - 1] * 2 ^ Byte + byte(i - 1)
      moved[i \in 0 .. n] ==
        IF i = 0 THEN 0
        ELSE ArithInt("Or", "No", t, moved[i - 1],
                      Shifted("ShiftLeftLogical", t, byte(order[i]), Byte * (i - 1)))
  IN  IF reversed THEN swapped[n] ELSE moved[n]

\* VecPermute: bswap, or a table lookup within the lane.
LlvmVecPermute(order, t, x) ==
  LET n == Size(t)
      byte(i) == (x \div 2 ^ (Byte * i)) % 2 ^ Byte
      reversed == t # "I8" /\ \A i \in 1 .. n : order[i] = n - i
      sum[i \in 0 .. n] ==
        IF i = 0 THEN 0 ELSE sum[i - 1] + 2 ^ (Byte * (i - 1)) * byte(IF reversed THEN n - i ELSE order[i])
  IN  sum[n]

\* vector.reduce: of all lanes, in no order that an integer would show.
LlvmReduce(op, t, v, n) ==
  LET reduced[i \in 1 .. n] == IF i = 1 THEN v[1] ELSE ArithInt(op, "No", t, reduced[i - 1], v[i])
  IN  reduced[n]

(***************************************************************************)
(* Masks.                                                                   *)
(***************************************************************************)
\* A load of two or four rows shifts the byte and truncates it to their bits.
LlvmLoadMask(rows, at, bits) ==
  LET shifted == {b - at : b \in {c \in bits : c >= at}} IN shifted \intersect (0 .. rows - 1)

\* A store of two or four rows replaces their bits in the 16 bits at the byte.
LlvmStoreMask(rows, at, m, old) ==
  LET mask == {at + r : r \in 0 .. rows - 1}
  IN  IF rows < 8 THEN (old \ mask) \union {at + r : r \in m} ELSE m

\* predicate_binary
LlvmMaskBinary(op, rows, m, n) ==
  LET differ == (m \union n) \ (m \intersect n)
  IN  CASE op = "And" -> m \intersect n  [] op = "Or" -> m \union n
        [] op = "Xor" -> differ          [] op = "XNor" -> (0 .. rows - 1) \ differ
        [] op = "AndNot" -> ((0 .. rows - 1) \ m) \intersect n

LlvmMaskNot(rows, m) == (0 .. rows - 1) \ m

\* ctpop of the mask as an integer of as many bits, which holds the number of its rows.
LlvmCountMask(rows, m) == Cardinality(m) % 2 ^ rows

LlvmMaskReduce(op, rows, m) ==
  CASE op = "And" -> m = 0 .. rows - 1 [] op = "Or" -> m # {} [] op = "Xor" -> Cardinality(m) % 2 = 1

\* call_kunpack: the right half above the left one.
LlvmCombine(rows, m, n) == m \union {r + rows \div 2 : r \in n}
=============================================================================

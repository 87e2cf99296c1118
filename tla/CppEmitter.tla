----------------------------- MODULE CppEmitter -----------------------------
(* What the C++ computes that the source emitter writes for one integer step: *)
(* an expression for a scalar, AVX-512 or NEON intrinsics for a vector and    *)
(* for a mask. The file is compiled with -fwrapv.                            *)
(*                                                                           *)
(* A variable of the source is a residue of its type's width.                *)
EXTENDS HirSteps, ArmMasks

CppSmall(t) == t \in {"I8", "I16"}

(***************************************************************************)
(* Scalars. Operands are promoted to int, and the declared variable narrows *)
(* the result.                                                              *)
(***************************************************************************)
CppPromoted(t) == IF CppSmall(t) THEN "I32" ELSE t
CppOperand(t, x) == Wrap(Signed(x, t), CppPromoted(t))

\* const_data_to_cpp: a constant that fits an int is written as one.
CppLiteral(t, x) ==
  IF t = "I64" /\ Signed(x, t) \in IntMin("I32") .. -IntMin("I32") - 1 THEN "I32" ELSE CppPromoted(t)

\* scalar_arith_binary_expr: a constant count in range is written as it is.
CppCount(t, const, y) == IF const /\ y < Width(t) THEN y ELSE y % Width(t)

\* A shift by the width of the promoted operand, or more, is undefined.
CppShifted(op, p, x, n) == IF n >= Width(p) THEN Undefined ELSE Shifted(op, p, x, n)

\* The operand itself is tested for zero, the masked count shifts.
CppRotation(op, t, x, y, n) ==
  LET p == CppPromoted(t)
      back == IF op = "RotateLeft" THEN "ShiftRightLogical" ELSE "ShiftLeftLogical"
      there == IF op = "RotateLeft" THEN "ShiftLeftLogical" ELSE "ShiftRightLogical"
      other == CppShifted(back, p, x, Width(t) - n)
  IN  IF y = 0 THEN CppOperand(t, x)
      ELSE IF other = Undefined THEN Undefined
      ELSE ArithInt("Or", "No", p, CppShifted(there, p, x, n), other)

CppChoice(op, t, x, y) ==
  LET first == CASE op = "Min" -> ~(Signed(y, t) < Signed(x, t))
                 [] op = "Max" -> ~(Signed(y, t) > Signed(x, t))
                 [] op = "UMin" -> x < y
                 [] op = "UMax" -> x > y
  IN  CppOperand(t, IF first THEN x ELSE y)

\* A quotient of unsigned operands promotes what their casts leave.
CppDivided(op, p, l, r) == IF Divisor(op, p, l, r) # r THEN Trap ELSE ArithInt(op, "No", p, l, r)

\* format_scalar_arith_binary_expr
CppExpression(op, t, const, x, y) ==
  LET p == CppPromoted(t)
      l == CppOperand(t, x)
      r == CppOperand(t, y)
      n == CppCount(t, const, y)
  IN  CASE op \in {"Mul", "Mul64SE", "Mul64ZE"} -> ArithInt("Mul", "No", p, l, r)
        [] op \in {"Add", "Sub", "And", "Or", "Xor", "AndNot"} -> ArithInt(op, "No", p, l, r)
        [] op \in {"Div", "Mod"}   -> CppDivided(op, p, l, r)
        [] op \in {"UDiv", "UMod"} -> CppDivided(op, p, x, y)
        [] op \in {"Min", "Max", "UMin", "UMax"} -> CppChoice(op, t, x, y)
        [] op = "ShiftRightArith" -> CppShifted(op, p, l, n)
        [] op \in {"ShiftLeftLogical", "ShiftRightLogical"} -> CppShifted(op, p, x, n)
        [] op \in {"RotateLeft", "RotateRight"} -> CppRotation(op, t, x, y, n)

CppAssigned(t, v) == IF v \in {Trap, Undefined} THEN v ELSE Wrap(v, t)

CppScalarBinary(op, t, const, x, y) == CppAssigned(t, CppExpression(op, t, const, x, y))

\* A constant on the left of >> has the type of its literal.
CppShiftOfConst(t, x, y) ==
  LET n == CppCount(t, FALSE, y)
  IN  CppAssigned(t, IF n >= Width(CppLiteral(t, x)) THEN Undefined
                     ELSE Shifted("ShiftRightArith", CppPromoted(t), CppOperand(t, x), n))

\* A constant division is written as a division.
CppConstDiv(op, t, x, d) == CppScalarBinary(op, t, TRUE, x, d)

\* The builtins count in 32 or 64 bits and are not called with zero.
CppCountedZeros(op, t, x) ==
  LET p == CppPromoted(t)
  IN  IF x = 0 THEN Width(t)
      ELSE UnaryInt(op, p, x) - (IF op = "Lzcnt" THEN Width(p) - Width(t) ELSE 0)

CppScalarUnary(op, t, x) ==
  LET p == CppPromoted(t)
      v == CppOperand(t, x)
  IN  Wrap(CASE op \in {"Not", "Negate"} -> UnaryInt(op, p, v)
             [] op = "Abs" -> IF Signed(v, p) < 0 THEN UnaryInt("Negate", p, v) ELSE v
             [] op \in {"Lzcnt", "Tzcnt"} -> CppCountedZeros(op, t, x)
             [] op = "Popcount" -> UnaryInt("Popcount", p, x), t)

CppScalarCast(kind, from, to, x) ==
  IF kind = "Zext" THEN Wrap(x, to) ELSE Wrap(Signed(x, from), to)

\* scalar_compare_expr
CppScalarCompare(op, unsigned, t, x, y) ==
  LET side(v) == IF unsigned THEN v ELSE Signed(v, t) IN Bool(Compared(op, side(x), side(y), FALSE))

\* scalar_select_bool_expr: between 1 and 0 the condition itself, between 0 and 1 its negation.
CppScalarSelect(cond, x, y, const) ==
  CASE const /\ x = 1 /\ y = 0 -> cond
    [] const /\ x = 0 /\ y = 1 -> Bool(cond = 0)
    [] OTHER -> IF cond # 0 THEN x ELSE y

\* __builtin_add_overflow and the like judge the exact result; a mask turns the flag off.
CppOverflow(op, t, x, y, mask) ==
  LET exact == CASE op = "Add" -> Signed(x, t) + Signed(y, t) [] op = "Sub" -> Signed(x, t) - Signed(y, t)
                 [] op = "Mul" -> Signed(x, t) * Signed(y, t)
  IN  [value |-> Wrap(exact, t), raised |-> mask # 0 /\ exact \notin IntMin(t) .. -IntMin(t) - 1]

\* Bytes one after the other, shifted as unsigned.
CppScalarPermute(order, t, x) ==
  LET p == CppPromoted(t)
      byte(i) == Shifted("ShiftRightLogical", p, x, Byte * order[i + 1]) % 2 ^ Byte
      moved[i \in 0 .. Size(t)] ==
        IF i = 0 THEN 0 ELSE ArithInt("Or", "No", p, moved[i - 1], byte(i - 1) * 2 ^ (Byte * (i - 1)))
  IN  Wrap(moved[Size(t)], t)

(***************************************************************************)
(* Lanes of AVX-512.                                                        *)
(***************************************************************************)
\* arith_binary_map: the instructions there are.
CppX86Refuses(op, t) ==
  \/ op \in DivisionOps
  \/ t = "I8" /\ op \in {"Mul", "ShiftRightArith", "ShiftRightLogical", "ShiftLeftLogical"}
  \/ CppSmall(t) /\ op \in {"RotateLeft", "RotateRight"}

CppX86Binary(op, t, const, x, y) == IF CppX86Refuses(op, t) THEN NoInstr ELSE ArithInt(op, "No", t, x, y)

CppX86Unary(op, t, x) ==
  IF op \in {"Not", "Negate", "Tzcnt"} \/ (op = "Lzcnt" /\ CppSmall(t)) THEN NoInstr ELSE UnaryInt(op, t, x)

CppX86Cast(kind, from, to, x) == Cast(kind, from, to, x)

\* zero_compare_test_expr: vptestm and vptestnm, of the operands of an "and" where
\* the value is one; the signs of the lanes; or a comparison.
CppX86Compare(op, unsigned, t, x, y, zero) ==
  LET side(v) == IF unsigned THEN v ELSE Signed(v, t)
      test == ArithInt("And", "No", t, x, x) # 0
  IN  Bool(CASE zero /\ op = "Equal"    -> ~test
             [] zero /\ op = "NotEqual" -> test
             [] zero /\ op = "Less" /\ ~unsigned -> Bit(x, Width(t) - 1) = 1
             [] OTHER -> Compared(op, side(x), side(y), FALSE))

\* Select: all ones or zero is the mask itself (movm), a step that only the select
\* reads is computed under the mask, and zeroes or keeps the other lanes.
CppX86Select(t, cond, truthy, falsy, zero) ==
  CASE zero /\ truthy = AllOnes(t) -> IF cond # 0 THEN AllOnes(t) ELSE 0
    [] zero /\ truthy # AllOnes(t) -> IF cond # 0 THEN truthy ELSE 0
    [] ~zero -> IF cond # 0 THEN truthy ELSE falsy

\* VecReduce: an exclusive "or" folds the halves down to two or four lanes and
\* shuffles the rest; the others are intrinsics, under the mask of the lanes
\* that the argument has where it is put into a larger register.
CppX86Reduce(op, t, v, n, lanes) ==
  LET half[k \in 0 .. n, i \in 1 .. n] ==
        IF k = 0 THEN v[i] ELSE ArithInt("Xor", "No", t, half[k - 1, i], half[k - 1, i + (n \div 2 ^ k)])
      reduced[i \in 1 .. n] == IF i = 1 THEN v[1] ELSE ArithInt(op, "No", t, reduced[i - 1], v[i])
  IN  IF op = "Xor" THEN half[Log2(n), 1] ELSE reduced[lanes]

(***************************************************************************)
(* Masks of AVX-512: masks of two and four rows are kept in eight bits, and *)
(* a mask is the set of its bits. mask_all_ones.                            *)
(***************************************************************************)
CppOnes(rows) == 0 .. rows - 1
CppMaskBits(rows) == 0 .. (IF rows < 8 THEN 8 ELSE rows) - 1
CppPartial(rows, m) == IF rows < 8 THEN m \intersect CppOnes(rows) ELSE m

CppX86Not(rows, m) == CppPartial(rows, CppMaskBits(rows) \ m)

\* Only what a negation sets is cleared.
CppX86MaskBinary(op, rows, m, n) ==
  CASE op = "And" -> m \intersect n  [] op = "Or" -> m \union n
    [] op = "Xor" -> (m \union n) \ (m \intersect n)  [] op = "AndNot" -> n \ m
    [] op = "XNor" -> CppPartial(rows, CppMaskBits(rows) \ ((m \union n) \ (m \intersect n)))

CppX86Count(rows, m) == Cardinality(CppPartial(rows, m))

CppX86MaskReduce(op, rows, m) ==
  CASE op = "And" -> CppOnes(rows) \ m = {}                      \* ktestc
    [] op = "Or"  -> ~(m \intersect CppOnes(rows) = {})          \* ktestz
    [] op = "Xor" -> Cardinality(m) % 2 = 1

\* (right << rows / 2) | left, or kunpck.
CppX86Combine(rows, m, n) == {i + rows \div 2 : i \in n} \union m

\* The store of two or four rows replaces their bits of the byte in memory.
CppX86StoreMask(rows, at, m, old) ==
  LET bits == {at + r : r \in CppOnes(rows)}
  IN  IF rows < 8 THEN (old \ bits) \union ({at + r : r \in m} \intersect bits) ELSE m

(***************************************************************************)
(* Lanes of NEON.                                                           *)
(***************************************************************************)
\* variable_shift_expr: vshl by the count, or by its negation; a negative count
\* shifts right.
CppNeonShift(op, t, x, y) ==
  LET n == Signed(IF op = "ShiftLeftLogical" THEN y ELSE Wrap(-y, t), t)
      right == IF op = "ShiftRightArith" THEN op ELSE "ShiftRightLogical"
  IN  IF n >= 0 THEN Shifted("ShiftLeftLogical", t, x, n) ELSE Shifted(right, t, x, -n)

\* variable_rotate_expr
CppNeonRotate(op, t, x, y) ==
  LET complement == Wrap(Width(t) - y, t)
      there == IF op = "RotateLeft" THEN "ShiftLeftLogical" ELSE "ShiftRightLogical"
      back == IF op = "RotateLeft" THEN "ShiftRightLogical" ELSE "ShiftLeftLogical"
  IN  ArithInt("Or", "No", t, CppNeonShift(there, t, x, y), CppNeonShift(back, t, x, complement))

\* Constant counts are masked; immediate_rotate_expr joins two shifts.
CppNeonShiftConst(op, t, x, imm) ==
  LET w == Width(t)
      n == imm % w
      left(k) == Shifted("ShiftLeftLogical", t, x, k)
      right(k) == Shifted("ShiftRightLogical", t, x, k)
  IN  CASE n = 0 -> x
        [] n # 0 /\ op = "RotateLeft"  -> ArithInt("Or", "No", t, left(n), right(w - n))
        [] n # 0 /\ op = "RotateRight" -> ArithInt("Or", "No", t, right(n), left(w - n))
        [] n # 0 /\ op \notin {"RotateLeft", "RotateRight"} -> Shifted(op, t, x, n)

\* int64_minmax_expr: no such instruction has 64-bit lanes.
CppNeonWideChoice(op, x, y) ==
  LET less == IF op \in {"Min", "Max"} THEN Signed(x, "I64") < Signed(y, "I64") ELSE x < y
      more == IF op \in {"Min", "Max"} THEN Signed(x, "I64") > Signed(y, "I64") ELSE x > y
  IN  IF (IF op \in {"Min", "UMin"} THEN less ELSE more) THEN x ELSE y

\* mul64_expr: vmovn keeps the low halves, vmull multiplies them.
CppNeonMul64(op, t, x, y) ==
  LET low(v) == v % Modulus("I32")
  IN  IF op = "Mul64ZE" THEN Wrap(low(x) * low(y), t)
      ELSE Wrap(Signed(low(x), "I32") * Signed(low(y), "I32"), t)

\* binary_expr
CppNeonBinary(op, t, const, x, y) ==
  CASE op \in DivisionOps \/ (op = "Mul" /\ t = "I64") -> NoInstr
    [] op \in ShiftOps /\ const -> CppNeonShiftConst(op, t, x, y)
    [] op \in {"RotateLeft", "RotateRight"} /\ ~const -> CppNeonRotate(op, t, x, y)
    [] op \in ShiftOps \ {"RotateLeft", "RotateRight"} /\ ~const -> CppNeonShift(op, t, x, y)
    [] op \in {"Min", "Max", "UMin", "UMax"} /\ t = "I64" -> CppNeonWideChoice(op, x, y)
    [] op \in {"Mul64SE", "Mul64ZE"} -> CppNeonMul64(op, t, x, y)
    [] OTHER -> ArithInt(op, "No", t, x, y)

\* lzcnt_i64_expr counts in the halves: the shift leaves the upper half's count in the lower one.
CppNeonWideLzcnt(x) ==
  LET half == Width("I32")
      high == UnaryInt("Lzcnt", "I32", x \div 2 ^ half)
      low  == UnaryInt("Lzcnt", "I32", x % 2 ^ half)
  IN  IF high = half THEN high + low ELSE high

\* popcount_expr: vcnt, and pairwise sums.
CppNeonPopcount(t, x) ==
  LET byte(i) == (x \div 2 ^ (Byte * i)) % 2 ^ Byte
      sums[k \in 0 .. 3, i \in 0 .. Size(t) - 1] ==
        IF k = 0 THEN UnaryInt("Popcount", "I8", byte(i)) ELSE sums[k - 1, 2 * i] + sums[k - 1, 2 * i + 1]
  IN  sums[Log2(Size(t)), 0]

\* unary_expr; vector_not_expr has an exclusive "or" for 64-bit lanes.
CppNeonUnary(op, t, x) ==
  CASE op = "Tzcnt" -> NoInstr
    [] op = "Lzcnt" -> IF t = "I64" THEN CppNeonWideLzcnt(x) ELSE UnaryInt(op, t, x)
    [] op = "Popcount" -> CppNeonPopcount(t, x)
    [] op = "Not" -> IF t = "I64" THEN ArithInt("Xor", "No", t, x, AllOnes(t)) ELSE UnaryInt(op, t, x)
    [] op \in {"Negate", "Abs"} -> UnaryInt(op, t, x)

\* int_cast_to_cpp: one vmovn or vmovl.
CppNeonCast(kind, from, to, x) ==
  IF Size(to) > Size(from) \/ kind = "Trunc" THEN Cast(kind, from, to, x) ELSE NoInstr

\* compare_expr
CppNeonCompare(op, unsigned, t, x, y) ==
  LET side(v) == IF unsigned THEN v ELSE Signed(v, t)
  IN  Bool(IF op = "NotEqual" THEN ~(side(x) = side(y)) ELSE Compared(op, side(x), side(y), FALSE))

\* vec_permute_to_cpp: vrev for a reversal, vtbl otherwise.
CppNeonPermute(order, t, x) ==
  LET n == Size(t)
      byte(i) == (x \div 2 ^ (Byte * i)) % 2 ^ Byte
      reversed == \A i \in 1 .. n : order[i] = n - i
      picked[i \in 0 .. n] ==
        IF i = 0 THEN 0
        ELSE picked[i - 1] + 2 ^ (Byte * (i - 1)) * byte(IF reversed THEN n - i ELSE order[i])
  IN  picked[n]

\* vec_reduce_to_cpp: an instruction for sums and for choices, two lanes of 64 bits
\* by a pairwise sum; otherwise the vector is folded with itself, turned by half
\* of what is left.
CppNeonReduce(op, t, v, n) ==
  LET direct == op \in {"Add", "Min", "Max", "UMin", "UMax"} /\ (t # "I64" \/ op = "Add")
      whole[i \in 1 .. n] == IF i = 1 THEN v[1] ELSE ArithInt(op, "No", t, whole[i - 1], v[i])
      turned(i, by) == ((i - 1 + by) % n) + 1
      step(a, b) == IF t = "I64" /\ op = "Mul" THEN ArithInt("Mul", "No", t, a, b)
                    ELSE CppNeonBinary(op, t, FALSE, a, b)
      fold[k \in 0 .. n, i \in 1 .. n] ==
        IF k = 0 THEN v[i] ELSE step(fold[k - 1, i], fold[k - 1, turned(i, n \div 2 ^ k)])
  IN  IF direct THEN whole[n] ELSE fold[Log2(n), 1]

(***************************************************************************)
(* Masks of NEON: vectors of as many lanes as rows, in 16 byte registers,   *)
(* always of the natural size (see ArmMasks, whose registers these are). A   *)
(* consumer with other lanes adjusts them.                                  *)
(***************************************************************************)
\* mask_load_to_cpp: vtst of the bits that each lane has replicated.
CppNeonLoadMask(rows, selected) == MaskOf(NaturalSize(rows), selected)

\* mask_not_expr, mask_binary_expr
CppNeonNot(m) == Held(m.size, (0 .. RegisterBytes - 1) \ m.ones)
CppNeonMaskBinary(op, m, n) ==
  CASE op = "And" -> Held(m.size, m.ones \intersect n.ones)
    [] op = "Or"  -> Held(m.size, m.ones \union n.ones)
    [] op = "AndNot" -> Held(m.size, n.ones \ m.ones)
    [] op \in {"Xor", "XNor"} ->
         LET differ == Held(m.size, (m.ones \union n.ones) \ (m.ones \intersect n.ones))
         IN  IF op = "Xor" THEN differ ELSE CppNeonNot(differ)

\* mask_adjust_expr: vmovn, the upper half becoming zero, or vmovl of the lower half, repeatedly.
CppNeonAdjust(m, size) == Resize(m, size)

\* mask_count_expr subtracts the sum of the lanes: those with all ones are minus one.
CppNeonCount(m) == Cardinality({l \in 0 .. RegisterBytes \div m.size - 1 : BytesOf(m.size, l) \subseteq m.ones})

\* mask_reduce_to_cpp counts bytes, and compares with the rows.
CppNeonMaskReduce(op, rows, m) ==
  LET n == CppNeonCount(CppNeonAdjust(m, 1))
  IN  CASE op = "And" -> n = rows [] op = "Or" -> n # 0 [] op = "Xor" -> n % 2 = 1

\* mask_combine_to_cpp: vmovn of the left one, vmovn_high of the right one.
CppNeonCombine(rows, m, n) ==
  LET low == Shrink(m, NaturalSize(rows)).ones
      high == Shrink(n, NaturalSize(rows)).ones
  IN  Held(NaturalSize(rows), {b \in low : b < RegisterBytes \div 2}
                                \union {b + RegisterBytes \div 2 : b \in {c \in high : c < RegisterBytes \div 2}})

\* vector_select_expr, vector_cond_store_to_cpp and lane_expr of a pack.
CppNeonSelected(rows, size, m) == SelectedRows(rows, CppNeonAdjust(m, size))

\* mask_store_to_cpp: the weighted bytes are added; two and four rows go bit by bit.
CppNeonStoreMask(rows, at, m, old) ==
  IF rows >= 8 THEN {b \in 0 .. rows - 1 : b \in CppNeonAdjust(m, 1).ones}
  ELSE (old \ {at + r : r \in 0 .. rows - 1}) \union {at + r : r \in SelectedRows(rows, m)}
=============================================================================

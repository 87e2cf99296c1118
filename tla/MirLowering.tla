----------------------------- MODULE MirLowering -----------------------------
(* How one operation of a row is lowered to the middle intermediate          *)
(* representation: to the lane of a vector in the main loop, or to a scalar   *)
(* in the remainder loop, and how either reports that a checked operation     *)
(* overflowed.                                                               *)
(*                                                                           *)
(* A lane is a residue of its width (see HirSteps). What libdivide computes  *)
(* is modelled from how the lowering uses it.                                *)
EXTENDS HirSteps

\* AVX-512 with 64 or 32 byte registers, and NEON with 16 byte registers.
Archs == {"ZMM", "YMM", "NEON"}
X86(arch) == arch \in {"ZMM", "YMM"}

\* vec_range: how often a register type halves before it is too small.
VecRange(arch) == CASE arch = "ZMM" -> 2 [] arch = "YMM" -> 1 [] arch = "NEON" -> 0

Unsupported == NoInstr                \* the lowering throws

(***************************************************************************)
(* An operation of the builder: its kind, operator, flag and type, the type *)
(* it converts from, and whether its right operand is a constant.           *)
(***************************************************************************)
Operation(kind, op, flag, from, t, const) ==
  [kind |-> kind, op |-> op, flag |-> flag, from |-> from, t |-> t, const |-> const]

Arith(op, flag, t, const) == Operation("ArithBinary", op, flag, t, t, const)
Unary(op, t) == Operation("ArithUnary", op, "No", t, t, FALSE)
\* A truncation; flag "twice" truncates a value that the program had truncated before.
Trunc(from, t, flag) == Operation("IntCast", "Trunc", flag, from, t, FALSE)

TypeOfSize(n) == CHOOSE t \in IntTypes : Size(t) = n
Wider(t) == TypeOfSize(2 * Size(t))
Narrower(t) == TypeOfSize(Size(t) \div 2)

(***************************************************************************)
(* Instructions. A vector shift by the width or more shifts every bit out,  *)
(* a scalar one takes the count modulo the width.                           *)
(***************************************************************************)
VecInstr(op, t, x, y) == ArithInt(op, "No", t, x, y)

ScalarInstr(op, t, x, y) ==
  IF op \in DivisionOps /\ Divisor(op, t, x, y) # y THEN Trap
  ELSE ArithInt(op, "ShiftWraparound", t, x, y)

\* vpternlog: the bits of the operands select a bit of the table.
TableBit(table, a, b, c) == Bit(table, 4 * a + 2 * b + c)

\* gf2p8affineqb with one source bit per byte: byte j of the matrix names the
\* bit that becomes bit Width - 1 - j, counted from 1, or 0 for none.
PermuteBits(matrix, x) ==
  LET w == Width("I8")
  IN  FromBits({b \in 0 .. w - 1 : matrix[w - 1 - b] # 0 /\ Bit(x, matrix[w - 1 - b] - 1) = 1}, "I8")

(***************************************************************************)
(* Division by a constant: libdivide's multiplier for d.                    *)
(***************************************************************************)
UnsignedMagic(d, w) ==
  LET L == Log2(d)
      m == 2 ^ (w + L) \div d
      rem == 2 ^ (w + L) % d
      twice == (2 * rem) % 2 ^ w
      round == IF twice >= d \/ twice < rem THEN 1 ELSE 0
  IN  IF HasSingleBit(d) THEN [magic |-> 0, shift |-> L, add |-> FALSE]
      ELSE IF d - rem < 2 ^ L THEN [magic |-> (m + 1) % 2 ^ w, shift |-> L, add |-> FALSE]
      ELSE [magic |-> (2 * m + round + 1) % 2 ^ w, shift |-> L, add |-> TRUE]

SignedMagic(d, w) ==
  LET abs == IF d < 0 THEN -d ELSE d
      L == Log2(abs)
      m == 2 ^ (w - 1 + L) \div abs
      rem == 2 ^ (w - 1 + L) % abs
      twice == (2 * rem) % 2 ^ w
      round == IF twice >= abs \/ twice < rem THEN 1 ELSE 0
      sign(n) == IF d < 0 THEN (-n) % 2 ^ w ELSE n % 2 ^ w
  IN  IF HasSingleBit(abs) THEN [magic |-> 0, shift |-> L, add |-> FALSE]
      ELSE IF abs - rem < 2 ^ L THEN [magic |-> sign(m + 1), shift |-> L - 1, add |-> FALSE]
      ELSE [magic |-> sign(2 * m + round + 1), shift |-> L, add |-> TRUE]

\* mulhi_u64 knows no 128-bit product: it adds four products of halves, h
\* being the modulus of a half, and Wrap64 the addition of a lane.
MulHighHalves(x, y, h) ==
  LET add(a, b) == (a + b) % (h * h)
      x0 == x % h   x1 == x \div h
      y0 == y % h   y1 == y \div h
      temp  == add(x1 * y0, (x0 * y0) \div h)
      carry == add(temp % h, x0 * y1)
  IN  add(add(x1 * y1, temp \div h), carry \div h)

\* mulhi_u16 and mulhi_u32 widen both halves of the vector and narrow the products.
MulHigh(t, x, magic) ==
  IF t = "I64" THEN MulHighHalves(x, magic, 2 ^ (Width(t) \div 2))
  ELSE (x * magic) \div Modulus(t)

VecUDivConst(t, x, d) ==
  LET g == UnsignedMagic(d, Width(t))
      q == MulHigh(t, x, g.magic)
  IN  CASE g.magic = 0 -> x \div 2 ^ g.shift
        [] g.magic # 0 /\ g.add -> Wrap(Wrap(x - q, t) \div 2 + q, t) \div 2 ^ g.shift
        [] g.magic # 0 /\ ~g.add -> q \div 2 ^ g.shift

\* Through the absolute numerator: sign_q is all ones where the quotient is negative.
VecSDivConst(t, x, d) ==
  LET abs == IF Signed(d, t) < 0 THEN Wrap(-d, t) ELSE d
      q == VecUDivConst(t, UnaryInt("Abs", t, x), abs)
      sign == IF (Signed(x, t) < 0) # (Signed(d, t) < 0) THEN AllOnes(t) ELSE 0
  IN  Wrap(VecInstr("Xor", t, q, sign) - sign, t)

\* div_peephole: no constant division of bytes, and none by zero.
VecDivConst(op, t, x, d) ==
  LET q == IF op \in {"Div", "Mod"} THEN VecSDivConst(t, x, d) ELSE VecUDivConst(t, x, d)
  IN  IF t = "I8" \/ d = 0 THEN Unsupported
      ELSE IF op \in {"Mod", "UMod"} THEN Wrap(x - ArithInt("Mul", "No", t, q, d), t) ELSE q

\* The parameters of a ConstDiv step.
QuotientOf(op, t, d) ==
  IF op \in {"Div", "Mod"} THEN SignedMagic(Signed(d, t), Width(t)) ELSE UnsignedMagic(d, Width(t))

\* The quotient they lead to.
ScalarWideQuotient(signed, t, x, d) ==
  LET w == Width(t)
      sd == Signed(d, t)
      sx == Signed(x, t)
      g == QuotientOf(IF signed THEN "Div" ELSE "UDiv", t, d)
      asr(n, k) == Signed(Wrap(n, t), t) \div 2 ^ k
      high == (sx * Signed(g.magic, t)) \div 2 ^ w
      added == IF ~g.add THEN high ELSE IF sd < 0 THEN high - sx ELSE high + sx
      rounded == asr(added, g.shift)
      uhigh == (x * g.magic) \div 2 ^ w
      unsigned == IF g.add THEN Wrap(Wrap(x - uhigh, t) \div 2 + uhigh, t) ELSE uhigh
      shifted == asr(sx + (IF sx < 0 THEN 2 ^ g.shift - 1 ELSE 0), g.shift)
  IN  CASE signed /\ g.magic = 0  -> Wrap(IF sd < 0 THEN -shifted ELSE shifted, t)
        [] signed /\ g.magic # 0  -> Wrap(rounded + Bit(Wrap(rounded, t), w - 1), t)
        [] ~signed /\ g.magic = 0 -> x \div 2 ^ g.shift
        [] ~signed /\ g.magic # 0 -> unsigned \div 2 ^ g.shift

\* scalar_const_div_peephole: a small operand is divided as an I32.
ScalarDivConst(op, t, x, d) ==
  LET signed == op \in {"Div", "Mod"}
      w == IF t \in {"I8", "I16"} THEN "I32" ELSE t
      wide(v) == IF w = t THEN v ELSE Cast(IF signed THEN "Sext" ELSE "Zext", t, w, v)
      q == Wrap(ScalarWideQuotient(signed, w, wide(x), wide(d)), t)
  IN  IF op \notin {"Mod", "UMod"} THEN q
      ELSE Wrap(wide(x) - ArithInt("Mul", "No", w, wide(q), wide(d)), t)

(***************************************************************************)
(* The value of a vector lane.                                              *)
(***************************************************************************)
\* Mutant: bits are shifted in from the other end, as a rotation does.
ByteRotated(op, x, n) ==
  LET w == Width("I8")
  IN  PermuteBits([j \in 0 .. w - 1 |-> w - ((j + (IF op = "ShiftLeftLogical" THEN n ELSE w - n)) % w)], x)

\* i8_shift_peephole: the permutation of bits that shifts a byte by a constant.
\* The count is masked whether or not the program asked for it.
ByteShift(op, x, n) ==
  LET w == Width("I8")
      imm == n % w
      moved(j, by) == IF j + by \in 0 .. w - 1 THEN w - (j + by) ELSE 0
      turned(j, by) == w - ((j + by) % w)
      matrix == [j \in 0 .. w - 1 |->
        CASE op = "ShiftLeftLogical"  -> moved(j, imm)
          [] op = "ShiftRightLogical" -> moved(j, -imm)
          [] op = "ShiftRightArith"   -> IF j < imm THEN w ELSE moved(j, -imm)
          [] op = "RotateLeft"        -> turned(j, imm)
          [] op = "RotateRight"       -> turned(j, w - imm)]
  IN  IF imm = 0 THEN x ELSE PermuteBits(matrix, x)

\* arith_binary_i8_i16_widen
WidenedByte(op, x, y) ==
  LET wide(v) == Cast(IF op = "ShiftRightArith" THEN "Sext" ELSE "Zext", "I8", "I16", v)
  IN  Wrap(VecInstr(op, "I16", wide(x), wide(y)), "I8")

\* make_vec_arith_bin
VecArith(arch, op, t, x, y) ==
  IF t = "I8" /\ X86(arch) /\ op \in {"Mul", "ShiftRightArith", "ShiftRightLogical", "ShiftLeftLogical"}
  THEN WidenedByte(op, x, y)
  ELSE VecInstr(op, t, x, y)

RotateOps == {"RotateLeft", "RotateRight"}

\* lower_vect_step, ArithBinary. No target rotates small lanes by a variable count.
VecBinary(arch, o, x, y) ==
  LET wraps == o.op \in RotateOps /\ X86(arch)
      count == IF o.flag = "ShiftWraparound" /\ ~wraps
                  /\ ~(o.const /\ y < Width(o.t))
               THEN y % Width(o.t) ELSE y
  IN  CASE o.t = "I8" /\ X86(arch) /\ o.const /\ o.op \in ShiftOps -> ByteShift(o.op, x, y)
        [] o.op \in DivisionOps -> IF o.const THEN VecDivConst(o.op, o.t, x, y) ELSE Unsupported
        [] o.op \in RotateOps /\ o.t \in {"I8", "I16"} /\ ~(o.t = "I8" /\ X86(arch) /\ o.const) -> Unsupported
        [] OTHER -> VecArith(arch, o.op, o.t, x, count)

\* lzcnt_i8_i16 smears the highest bit down and counts.
SmearedLzcnt(t, x) ==
  LET w == Width(t)
      smeared[k \in 0 .. Log2(w)] ==     \* the shifts are 1, 2, 4, .. below the width
        IF k = 0 THEN x ELSE VecInstr("Or", t, smeared[k - 1], smeared[k - 1] \div 2 ^ (2 ^ (k - 1)))
  IN  w - UnaryInt("Popcount", t, smeared[Log2(w)])

\* make_tzcnt
CountBelowLowest(t, x) == UnaryInt("Popcount", t, VecInstr("AndNot", t, x, Wrap(x - 1, t)))

VecUnary(arch, op, t, x) ==
  CASE op = "Negate" -> IF ~X86(arch) THEN UnaryInt(op, t, x) ELSE VecInstr("Sub", t, 0, x)
    [] op = "Not"    -> IF ~X86(arch) THEN UnaryInt(op, t, x)
                        ELSE FromBits({k \in 0 .. Width(t) - 1 :
                                         TableBit(85, Bit(x, k), Bit(x, k), Bit(x, k)) = 1}, t)
    [] op = "Tzcnt"  -> CountBelowLowest(t, x)
    [] op = "Lzcnt"  -> IF t \in {"I8", "I16"} /\ X86(arch) THEN SmearedLzcnt(t, x) ELSE UnaryInt(op, t, x)
    [] op \in {"Popcount", "Abs"} -> UnaryInt(op, t, x)

\* graph_plan_downcast_rewrites: a truncation that leaves the register types is
\* split: a direct one as far as they go, then halvings that combine two
\* registers each. The types it passes through, in order.
NarrowingSteps(arch, from, t) ==
  LET range == VecRange(arch)
      delta == Log2(Size(from) \div Size(t))
      after(k) == TypeOfSize(Size(from) \div 2 ^ k)
      direct == IF range = 0 THEN <<>> ELSE <<after(range)>>
  IN  IF delta <= range THEN <<t>>
      ELSE direct \o [k \in 1 .. delta - range |-> after(range + k)]

(***************************************************************************)
(* The value of a scalar.                                                   *)
(***************************************************************************)
\* small_size_arith_binary
SmallScalar(op, t, x, y) ==
  LET kind == IF op \in {"Div", "Mod"} THEN "Sext" ELSE "Zext"
      v == ScalarInstr(op, "I32", Cast(kind, t, "I32", x), Cast(kind, t, "I32", y))
  IN  IF v = Trap THEN Trap ELSE Wrap(v, t)

\* A rotation of a small scalar: two shifts, and the operand itself by zero.
SmallRotate(op, t, x, y) ==
  LET w == Width(t)
      n == y % w
      left(k) == ScalarInstr("ShiftLeftLogical", t, x, k)
      right(k) == ScalarInstr("ShiftRightLogical", t, x, k)
  IN  IF n = 0 THEN x
      ELSE IF op = "RotateLeft" THEN VecInstr("Or", t, left(n), right(w - n))
      ELSE VecInstr("Or", t, right(n), left(w - n))

\* divisor_needs_safety: -1 is safe for an unsigned division, any other constant but 0 for both.
DivisorNeedsSafety(o, y) ==
  ~o.const \/ y = 0 \/ (o.op \in {"Div", "Mod"} /\ y = AllOnes(o.t))

\* scalar_division_invalid_condition, and vec_division_invalid_condition.
InvalidDivision(op, t, x, y) ==
  y = 0 \/ (op \in {"Div", "Mod"} /\ x = Wrap(IntMin(t), t) /\ y = AllOnes(t))

\* The divisor with the guard: a select is no longer a constant.
ScalarDivision(o, guarded, x, y) ==
  LET guard == guarded /\ DivisorNeedsSafety(o, y)
      d == IF guard /\ InvalidDivision(o.op, o.t, x, y) THEN 1 ELSE y
  IN  IF o.const /\ ~guard /\ d # 0 THEN ScalarDivConst(o.op, o.t, x, d)
      ELSE IF o.t \in {"I8", "I16"} THEN SmallScalar(o.op, o.t, x, d)
      ELSE ScalarInstr(o.op, o.t, x, d)

\* _lower_hir_non_root, ArithBinary.
ScalarBinary(o, x, y) ==
  CASE o.op \in DivisionOps -> ScalarDivision(o, o.flag = "SafeDivision", x, y)
    [] o.op \in RotateOps /\ o.t \in {"I8", "I16"} -> SmallRotate(o.op, o.t, x, y)
    [] o.op = "Mul" /\ o.t = "I8" -> SmallScalar(o.op, o.t, x, y)
    [] OTHER -> ScalarInstr(o.op, o.t, x, y)
=============================================================================

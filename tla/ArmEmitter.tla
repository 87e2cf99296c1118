----------------------------- MODULE ArmEmitter -----------------------------
(* What the instructions compute that the AArch64 emitter chooses for one     *)
(* integer step: in a general register for a scalar, in a lane of a NEON      *)
(* register for a vector.                                                    *)
(*                                                                           *)
(* A scalar i8 or i16 is kept sign-extended in a 32-bit register, and every   *)
(* step relies on it and keeps it. A register is a residue of its own width,  *)
(* whatever type the step gives it.                                          *)
EXTENDS HirSteps

ArmSmall(t) == t \in {"I8", "I16"}

ArmReg(t) == IF t = "I64" THEN "I64" ELSE "I32"

\* sxtb, sxth: what the register of a value of type t must hold.
ArmSigned(t, v) == Wrap(Signed(v % Modulus(t), t), ArmReg(t))
\* uxtb, uxth
ArmUnsigned(t, v) == v % Modulus(t)

(***************************************************************************)
(* Scalars.                                                                 *)
(***************************************************************************)
\* The processor takes counts modulo the register, and divides by zero to zero.
ArmInstr(op, t, x, y) ==
  LET r == ArmReg(t)
  IN  CASE op \in {"Div", "UDiv"} /\ y = 0 -> 0
        [] op \in {"Mod", "UMod"} /\ y = 0 -> x          \* sdiv, msub
        [] OTHER -> ArithInt(op, "ShiftWraparound", r, x, y)

\* Shifts mask the count of a small value themselves; constants in range are immediates.
ArmShift(op, t, x, y) ==
  LET n == IF ArmSmall(t) THEN y % Width(t) ELSE y
      shifted == ArmInstr(op, t, IF op = "ShiftRightLogical" THEN ArmUnsigned(t, x) ELSE x, n)
  IN  CASE op \in {"ShiftRightLogical", "ShiftLeftLogical"} -> ArmSigned(t, shifted)
        [] op = "ShiftRightArith" -> ArmInstr(op, t, ArmSigned(t, x), n)
        [] op = "RotateRight"     -> ArmInstr("RotateRight", t, x, n)
        [] op = "RotateLeft"      -> ArmInstr("RotateRight", t, x, Wrap(-n, ArmReg(t)))

\* cmp and csel: the second operand when the condition fails.
ArmChoice(op, t, x, y) ==
  LET sx == Signed(x, ArmReg(t))
      sy == Signed(y, ArmReg(t))
      ux == ArmUnsigned(t, x)
      uy == ArmUnsigned(t, y)
  IN  CASE op = "Min"  -> IF sx < sy THEN x ELSE y
        [] op = "Max"  -> IF sx > sy THEN x ELSE y
        [] op = "UMin" -> IF ux < uy THEN x ELSE y
        [] op = "UMax" -> IF ux > uy THEN x ELSE y

ArmScalarBinary(op, t, x, y) ==
  CASE op \in {"Add", "Sub", "Mul"} -> ArmSigned(t, ArmInstr(op, t, x, y))
    [] op \in ShiftOps -> ArmShift(op, t, x, y)
    [] op \in {"Min", "Max", "UMin", "UMax"} -> ArmChoice(op, t, x, y)
    [] op \in DivisionOps \union {"And", "Or", "Xor", "AndNot", "Mul64SE", "Mul64ZE"} -> ArmInstr(op, t, x, y)

\* emit_scalar_const_div: the double-width product is shifted down (smull, umull of
\* an I32; smulh, umulh give its high half); msub for the remainder.
ArmQuotientSigned(t, x, d, g) ==
  LET n == Signed(x, t)
      asr(v, k) == Signed(Wrap(v, t), t) \div 2 ^ k
      high == (n * Signed(g.magic, t)) \div Modulus(t)
      turned == IF Signed(d, t) < 0 THEN -n ELSE n
      moved == asr(high + (IF g.add THEN turned ELSE 0), g.shift)
      tweak == IF n < 0 THEN 2 ^ g.shift - 1 ELSE 0
      powered == asr(n + tweak, g.shift)
  IN  IF g.magic # 0 THEN Wrap(moved + Bit(Wrap(moved, t), Width(t) - 1), t)
      ELSE Wrap(IF Signed(d, t) < 0 THEN -powered ELSE powered, t)

ArmQuotientUnsigned(t, x, g) ==
  LET high == (x * g.magic) \div Modulus(t)
      added == IF g.add THEN Wrap(Wrap(x - high, t) \div 2 + high, t) ELSE high
  IN  (IF g.magic # 0 THEN added ELSE x) \div 2 ^ g.shift

ArmConstDiv(op, t, x, d, g) ==
  LET q == IF op \in {"Div", "Mod"} THEN ArmQuotientSigned(t, x, d, g) ELSE ArmQuotientUnsigned(t, x, g)
  IN  IF op \in {"Mod", "UMod"} THEN Wrap(x - ArithInt("Mul", "No", t, q, d), t) ELSE q

\* A logical immediate is the sign-extended constant; of an "and not", the complement is kept.
ArmLogicalImmediate(op, t, x, imm) ==
  LET r == ArmReg(t)
      canonical == ArmSigned(t, imm)
  IN  IF op = "AndNot" THEN ArithInt("And", "No", r, UnaryInt("Not", r, x), canonical)
      ELSE ArithInt(op, "No", r, x, canonical)

\* An immediate of 12 bits, or of 12 bits shifted by 12.
AddSubImmediate(imm) == imm < 2 ^ 12 \/ (imm % 2 ^ 12 = 0 /\ imm < 2 ^ 24)

ArmScalarConst(op, t, x, imm) ==
  CASE op \in {"Add", "Sub"} /\ AddSubImmediate(imm) -> ArmSigned(t, ArmInstr(op, t, x, imm))
    [] op \in {"And", "Or", "Xor", "AndNot"} -> ArmLogicalImmediate(op, t, x, imm)
    [] op = "RotateLeft" /\ imm \in 1 .. Width(t) - 1 -> ArmInstr("RotateRight", t, x, Width(t) - imm)
    [] OTHER -> ArmScalarBinary(op, t, x, ArmSigned(t, imm))

\* What the step leaves in the register of its left operand, which refs steps
\* read: the last of them extends it in place.
ArmLeftAfter(op, t, x, const, refs) ==
  IF op = "ShiftRightLogical" /\ ArmSmall(t) /\ ~const /\ refs <= 1 THEN ArmUnsigned(t, x) ELSE x

ArmScalarUnary(op, t, x) ==
  LET r == ArmReg(t)
      wide == ArmUnsigned(t, x)
  IN  CASE op = "Not"    -> UnaryInt("Not", r, x)
        [] op = "Negate" -> ArmSigned(t, Wrap(-x, r))
        [] op = "Abs"    -> ArmSigned(t, IF Signed(x, r) >= 0 THEN x ELSE Wrap(-x, r))
        [] op = "Lzcnt"  -> UnaryInt("Lzcnt", r, wide) - (Width(r) - Width(t))
        \* A bit above the value stops the count: rbit, clz.
        [] op = "Tzcnt"  -> UnaryInt("Tzcnt", r, IF ArmSmall(t) THEN wide + Modulus(t) ELSE x)
        [] op = "Popcount" -> UnaryInt("Popcount", r, wide)

ArmScalarCast(kind, from, to, x) ==
  CASE Size(from) > Size(to) -> ArmSigned(to, x)
    [] Size(from) < Size(to) /\ kind = "Sext" -> Wrap(Signed(ArmUnsigned(from, x), from), ArmReg(to))
    [] Size(from) < Size(to) /\ kind = "Zext" -> ArmUnsigned(from, x)

\* An unsigned comparison of small values extends both with zeros, a constant too.
ArmScalarCompare(op, unsigned, t, x, y) ==
  LET side(v) == IF unsigned THEN ArmUnsigned(t, v) ELSE Signed(v, ArmReg(t))
  IN  Bool(Compared(op, side(x), side(y), FALSE))

\* csel on the flags of the comparison itself, or on a condition in a register.
ArmScalarSelect(cond, x, y) == IF cond # 0 THEN x ELSE y

\* ScalarArithBinaryOverflow: small sums are judged by their signs, and are only
\* sign-extended after that. No product of small values gets here.
ArmOverflow(op, t, x, y, mask) ==
  LET r == ArmReg(t)
      sx == Signed(x, r)
      sy == Signed(y, r)
      z == ArithInt(op, "No", r, x, y)
      sign(v) == Bit(v, Width(t) - 1)
      differ == sign(x) # sign(y)
      changed == sign(x) # sign(z)
      out(n) == n \notin IntMin(r) .. -IntMin(r) - 1
  IN  [value  |-> ArmSigned(t, z),
       raised |-> mask = 1 /\ CASE ArmSmall(t) /\ op = "Add" -> changed /\ ~differ
                                [] ArmSmall(t) /\ op = "Sub" -> changed /\ differ
                                [] ~ArmSmall(t) /\ op = "Add" -> out(sx + sy)
                                [] ~ArmSmall(t) /\ op = "Sub" -> out(sx - sy)
                                [] op = "Mul" -> sx * sy # Signed(z, r)]

\* ScalarPermute reverses by instruction, or moves bytes one by one, and does not
\* extend what it leaves in the register.
ArmScalarPermute(order, t, x) ==
  LET r == ArmReg(t)
      byte(i) == (x \div 2 ^ (Byte * order[i + 1])) % 2 ^ Byte
      moved[i \in 0 .. Size(t)] ==
        IF i = 0 THEN 0 ELSE ArithInt("Or", "No", r, moved[i - 1], byte(i - 1) * 2 ^ (Byte * (i - 1)))
  IN  moved[Size(t)]

(***************************************************************************)
(* Vectors, one lane each.                                                  *)
(***************************************************************************)
\* ushl, sshl: the count is signed, and a negative one shifts right. (Of a lane,
\* the processor reads the low byte, which holds every count up to the width.)
ArmShiftBy(signed, t, x, count) ==
  LET n == Signed(count, t)
      right == IF signed THEN "ShiftRightArith" ELSE "ShiftRightLogical"
  IN  IF n >= 0 THEN Shifted("ShiftLeftLogical", t, x, n) ELSE Shifted(right, t, x, -n)

\* A mask selects bit by bit: bsl.
ArmBlend(mask, x, y) == IF mask THEN x ELSE y

\* No comparing instruction has 64-bit lanes: a comparison into the result, then a
\* blend. Were the result the accumulator, the blend would read the comparison.
ArmWideChoice(op, x, y, dst) ==
  LET ones == AllOnes("I64")
      greater == IF op \in {"Min", "Max"} THEN Signed(x, "I64") > Signed(y, "I64") ELSE x > y
      left == IF dst = "accumulator" THEN (IF greater THEN ones ELSE 0) ELSE x
  IN  IF op \in {"Min", "UMin"} THEN ArmBlend(greater, y, left) ELSE ArmBlend(greater, left, y)

\* Where the result of a step goes that is stored to its accumulator.
ArmDestination(op, t, suggested) ==
  IF suggested /\ ~(t = "I64" /\ op \in {"Min", "Max", "UMin", "UMax"}) THEN "accumulator" ELSE "fresh"

\* Rotations are two shifts by the count and by what it lacks of the width.
ArmVecRotate(op, t, x, y) ==
  LET other == IF op = "RotateLeft" THEN Wrap(y - Width(t), t) ELSE Wrap(Width(t) - y, t)
      first == IF op = "RotateLeft" THEN y ELSE Wrap(-y, t)
  IN  ArithInt("Or", "No", t, ArmShiftBy(FALSE, t, x, first), ArmShiftBy(FALSE, t, x, other))

\* suggested: the step is stored to the accumulator that is its left operand.
ArmVecBinary(op, t, x, y, suggested) ==
  CASE op = "ShiftLeftLogical"  -> ArmShiftBy(FALSE, t, x, y)
    [] op = "ShiftRightLogical" -> ArmShiftBy(FALSE, t, x, Wrap(-y, t))
    [] op = "ShiftRightArith"   -> ArmShiftBy(TRUE, t, x, Wrap(-y, t))
    [] op \in {"RotateLeft", "RotateRight"} -> ArmVecRotate(op, t, x, y)
    [] op \in {"Min", "Max", "UMin", "UMax"} /\ t = "I64" -> ArmWideChoice(op, x, y, ArmDestination(op, t, suggested))
    [] op \in {"Min", "Max", "UMin", "UMax"} /\ t # "I64" -> ArithInt(op, "No", t, x, y)
    [] op \in {"Add", "Sub", "Mul", "And", "Or", "Xor", "AndNot", "Mul64SE", "Mul64ZE"} -> ArithInt(op, "No", t, x, y)

\* Constant counts: sshr, ushr, shl; a rotation inserts what a shift left leaves free.
ArmVecConst(op, t, x, imm) ==
  LET w == Width(t)
      rotated(n) == Shifted("ShiftLeftLogical", t, x, n) + Shifted("ShiftRightLogical", t, x, w - n)
  IN  IF op \notin ShiftOps \/ imm \notin 1 .. w - 1 THEN ArmVecBinary(op, t, x, imm, FALSE)
      ELSE CASE op = "RotateLeft"  -> rotated(imm)
             [] op = "RotateRight" -> rotated(w - imm)
             [] op \notin {"RotateLeft", "RotateRight"} -> Shifted(op, t, x, imm)

\* Of 64 bits, the leading zeros are counted in the halves.
ArmWideLzcnt(x) ==
  LET half == Width("I64") \div 2
      zeros(v) == UnaryInt("Lzcnt", "I32", v)
      high == zeros(x \div 2 ^ half)
  IN  IF high = half THEN high + zeros(x % 2 ^ half) ELSE high

\* cnt of every byte, then pairwise sums.
ArmVecPopcount(t, x) ==
  LET byte(i) == (x \div 2 ^ (Byte * i)) % 2 ^ Byte
      pairs[k \in 0 .. 3, i \in 0 .. Size(t) - 1] ==
        IF k = 0 THEN UnaryInt("Popcount", "I8", byte(i)) ELSE pairs[k - 1, 2 * i] + pairs[k - 1, 2 * i + 1]
  IN  pairs[Log2(Size(t)), 0]

ArmVecUnary(op, t, x) ==
  CASE op \in {"Not", "Negate", "Abs"} -> UnaryInt(op, t, x)
    [] op = "Lzcnt"    -> IF t = "I64" THEN ArmWideLzcnt(x) ELSE UnaryInt("Lzcnt", t, x)
    [] op = "Popcount" -> ArmVecPopcount(t, x)

\* xtn, sxtl, uxtl: one halving or doubling.
ArmVecCast(kind, from, to, x) == Cast(kind, from, to, x)

\* There is "greater" and "greater or equal" only: the others swap their operands.
\* A signed comparison with a constant zero has forms of its own.
ArmVecCompare(op, unsigned, t, x, y, zero) ==
  LET side(v) == IF unsigned THEN v ELSE Signed(v, t)
      gt(a, b) == side(a) > side(b)
      ge(a, b) == side(a) >= side(b)
  IN  Bool(CASE op = "Less"         -> gt(y, x)
             [] op = "Greater"      -> gt(x, y)
             [] op = "LessEqual"    -> ge(y, x)
             [] op = "GreaterEqual" -> ge(x, y)
             [] op = "Equal"        -> x = y
             [] op = "NotEqual" /\ zero /\ ~unsigned -> ArithInt("And", "No", t, x, x) # 0   \* cmtst
             [] op = "NotEqual" /\ ~(zero /\ ~unsigned) -> ~(x = y))

\* Adding one where a mask is set subtracts the mask, which is minus one there.
ArmSelectIncremented(t, cond, x) == Wrap(x - (IF cond THEN AllOnes(t) ELSE 0), t)

(***************************************************************************)
(* Reductions of a vector to a scalar: v is a function of lanes from 1.      *)
(***************************************************************************)
\* addv, sminv and the like fold all lanes; the others halve four lanes to two
\* and finish in general registers, and know no small lanes.
ArmReduce(op, t, v, n) ==
  LET instr(a, b) == IF t = "I64" /\ op \in {"Min", "Max", "UMin", "UMax"}
                     THEN ArmWideChoice(op, a, b, "fresh") ELSE ArithInt(op, "No", t, a, b)
      half[k \in 0 .. n, i \in 1 .. n] ==
        IF k = 0 THEN v[i] ELSE instr(half[k - 1, i], half[k - 1, i + (n \div 2 ^ k)])
  IN  half[Log2(n), 1]
=============================================================================

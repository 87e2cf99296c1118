----------------------------- MODULE X86Emitter -----------------------------
(* What the instructions compute that the x86 emitter chooses for one integer *)
(* step: in a general register for a scalar, in a lane of an AVX-512 register *)
(* for a vector, in a mask register for a mask.                              *)
(*                                                                           *)
(* A register has the size of the step's type, so that a scalar is a residue *)
(* of its own width.                                                         *)
EXTENDS HirSteps

X86Small(t) == t \in {"I8", "I16"}

(***************************************************************************)
(* Scalars.                                                                 *)
(***************************************************************************)
\* What cmp leaves in the flags: ZF, CF and SF # OF.
X86Flags(t, x, y) == [zero |-> x = y, carry |-> x < y, less |-> Signed(x, t) < Signed(y, t)]

\* setcc, and cmovcc with the same conditions.
X86Condition(op, unsigned, f) ==
  LET below == IF unsigned THEN f.carry ELSE f.less
  IN  CASE op = "Less"    -> below          [] op = "GreaterEqual" -> ~below
        [] op = "LessEqual" -> below \/ f.zero  [] op = "Greater" -> ~below /\ ~f.zero
        [] op = "Equal"   -> f.zero         [] op = "NotEqual"     -> ~f.zero

\* A comparison with a constant zero for equality tests the register with itself.
X86ScalarCompare(op, unsigned, t, x, y) == Bool(X86Condition(op, unsigned, X86Flags(t, x, y)))

X86ScalarSelect(cond, truthy, falsy) == IF cond # 0 THEN truthy ELSE falsy

\* The processor takes the count of a shift of less than 32 bits modulo 32.
X86ShiftCount(t, n) == n % (IF X86Small(t) THEN Width("I32") ELSE Width(t))

X86Shift(op, t, x, y) ==
  Shifted(op, t, x, X86ShiftCount(t, IF X86Small(t) THEN y % Width(t) ELSE y))

\* idiv and div fault; the small ones are never emitted.
X86Divide(op, t, x, y) ==
  CASE X86Small(t) -> NoInstr
    [] ~X86Small(t) /\ Divisor(op, t, x, y) # y -> Trap
    [] ~X86Small(t) /\ Divisor(op, t, x, y) = y -> ArithInt(op, "No", t, x, y)

\* scalar_const_div, by the parameters g of the divisor d: a shift that rounds
\* towards zero, or the high half of a product (imul, mulx).
X86ConstDiv(op, t, x, d, g) ==
  LET signed == op \in {"Div", "Mod"}
      negative == signed /\ Signed(d, t) < 0
      shr(v, k) == Shifted("ShiftRightLogical", t, v, k)
      sar(v, k) == IF signed THEN Shifted("ShiftRightArith", t, v, k) ELSE shr(v, k)
      last == Width(t) - 1
      tweak == IF signed THEN sar(x, last) % 2 ^ g.shift ELSE 0
      powered == sar(Wrap(x + tweak, t), g.shift)
      side(v) == IF signed THEN Signed(v, t) ELSE v
      high == Wrap((side(x) * side(g.magic)) \div Modulus(t), t)
      added == CASE ~g.add            -> high
                 [] g.add /\ signed   -> Wrap(IF negative THEN high - x ELSE high + x, t)
                 [] g.add /\ ~signed  -> Wrap(high + shr(Wrap(x - high, t), 1), t)
      moved == sar(added, g.shift)
      multiplied == IF signed THEN Wrap(moved + shr(moved, last), t) ELSE moved
      q == CASE g.magic # 0 -> multiplied
             [] g.magic = 0 -> IF negative THEN Wrap(-powered, t) ELSE powered
  IN  IF op \in {"Mod", "UMod"} THEN Wrap(x - Signed(q, t) * Signed(d, t), t) ELSE q

\* left is overwritten: cmp, and cmov of the right operand where the condition holds.
X86Choice(op, t, x, y) ==
  LET f == X86Flags(t, x, y)
      condition == CASE op \in {"Min", "UMin"} -> "Greater" [] op \in {"Max", "UMax"} -> "Less"
  IN  IF X86Condition(condition, op \in {"UMin", "UMax"}, f) THEN y ELSE x

X86ScalarBinary(op, t, x, y) ==
  CASE op \in ShiftOps -> X86Shift(op, t, x, y)
    [] op \in DivisionOps -> X86Divide(op, t, x, y)
    [] op \in {"Min", "Max", "UMin", "UMax"} -> X86Choice(op, t, x, y)
    [] op \in {"Mul", "Mul64SE", "Mul64ZE"} -> ArithInt("Mul", "No", t, x, y)       \* imul
    [] op \in {"Add", "Sub", "And", "Or", "Xor", "AndNot"} -> ArithInt(op, "No", t, x, y)

\* Small operands are counted in a 32-bit register: what lies above them is
\* cleared, or replaced by a bit that stops the count.
X86ScalarUnary(op, t, x) ==
  CASE op \in {"Not", "Negate"} -> UnaryInt(op, t, x)
       \* neg and cmov: zero is less than the operand
    [] op = "Abs"      -> IF Signed(x, t) > 0 THEN x ELSE Wrap(-x, t)
    [] op = "Lzcnt"    -> IF X86Small(t) THEN UnaryInt("Lzcnt", "I32", x) - (Width("I32") - Width(t))
                          ELSE UnaryInt("Lzcnt", t, x)
    [] op = "Tzcnt"    -> IF X86Small(t) THEN UnaryInt("Tzcnt", "I32", x + Modulus(t)) ELSE UnaryInt("Tzcnt", t, x)
    [] op = "Popcount" -> UnaryInt("Popcount", t, x)

\* movsx and movzx; a truncation reads the low register.
X86ScalarCast(kind, from, to, x) == Cast(kind, from, to, x)

\* seto: signed overflow of the instruction, and-ed with the mask before the accumulator.
X86Overflow(op, t, x, y, mask) ==
  LET sx == Signed(x, t)
      sy == Signed(y, t)
      z == CASE op = "Add" -> sx + sy [] op = "Sub" -> sx - sy [] op = "Mul" -> sx * sy
  IN  [value |-> Wrap(z, t), raised |-> z \notin IntMin(t) .. -IntMin(t) - 1 /\ mask = 1]

\* rol by half of a word, bswap, or one byte after the other.
X86ScalarPermute(order, t, x) ==
  LET last == Size(t) - 1
      byte(i) == (x \div 2 ^ (Byte * i)) % 2 ^ Byte
      moved[i \in 0 .. Size(t)] ==
        IF i = 0 THEN 0 ELSE ArithInt("Or", "No", t, moved[i - 1], byte(order[i]) * 2 ^ (Byte * (i - 1)))
      reversed == \A i \in 0 .. last : order[i + 1] = last - i
  IN  IF t = "I16" /\ reversed THEN Rotated(t, x, Byte) ELSE moved[Size(t)]

(***************************************************************************)
(* Vectors, one lane each.                                                  *)
(***************************************************************************)
\* vec_binary_dispatch: what AVX-512 has no instruction for.
X86Refuses(op, t) ==
  \/ op \in DivisionOps
  \/ t = "I8" /\ op \in {"Mul", "ShiftRightArith", "ShiftRightLogical", "ShiftLeftLogical"}
  \/ X86Small(t) /\ op \in {"RotateLeft", "RotateRight"}

\* Counts of the variable shifts shift everything out; rotations take them modulo
\* the width. vpmuldq and vpmuludq multiply the low halves.
X86VecBinary(op, t, x, y) == IF X86Refuses(op, t) THEN NoInstr ELSE ArithInt(op, "No", t, x, y)

\* vec_shift_imm: the same with the count in the instruction.
X86VecShiftImm(op, t, x, imm) == IF X86Refuses(op, t) THEN NoInstr ELSE Shifted(op, t, x, imm)

\* A constant count goes into the instruction.
X86VecConst(op, t, x, imm) ==
  IF op \in ShiftOps THEN X86VecShiftImm(op, t, x, imm) ELSE X86VecBinary(op, t, x, imm)

X86VecUnary(op, t, x) ==
  IF op \in {"Not", "Negate", "Tzcnt"} \/ (op = "Lzcnt" /\ X86Small(t)) THEN NoInstr ELSE UnaryInt(op, t, x)

\* vec_sext, vec_zext and vec_trunc know no conversion between i8 and i64.
X86VecCast(kind, from, to, x) == IF {from, to} = {"I8", "I64"} THEN NoInstr ELSE Cast(kind, from, to, x)

Swapped(op) ==
  CASE op = "Less" -> "Greater"  [] op = "LessEqual" -> "GreaterEqual"
    [] op = "Greater" -> "Less"  [] op = "GreaterEqual" -> "LessEqual"
    [] op \in {"Equal", "NotEqual"} -> op

X86Cmp(op, unsigned, t, x, y) ==
  LET side(v) == IF unsigned THEN v ELSE Signed(v, t) IN Compared(op, side(x), side(y), FALSE)

\* A comparison with zero: vptestm, vptestnm, or the signs of the lanes (none of
\* an unsigned one). inlined: the left operand is read from memory, so that the
\* operands change places.
X86VecCompare(op, unsigned, t, x, y, zero, inlined) ==
  CASE zero /\ op = "Less"     -> ~unsigned /\ Bit(x, Width(t) - 1) = 1
    [] zero /\ op = "Equal"    -> ArithInt("And", "No", t, x, x) = 0
    [] zero /\ op = "NotEqual" -> ArithInt("And", "No", t, x, x) # 0
    [] ~(zero /\ op \in {"Less", "Equal", "NotEqual"}) ->
         IF inlined THEN X86Cmp(Swapped(op), unsigned, t, y, x) ELSE X86Cmp(op, unsigned, t, x, y)

\* VecReduce: a register is folded with its upper half until one lane is left. An
\* XMM of i32 adds a shuffled copy of its low half.
X86Reduce(op, t, v, n) ==
  LET half[k \in 0 .. n, i \in 1 .. n] ==
        IF k = 0 THEN v[i] ELSE X86VecBinary(op, t, half[k - 1, i], half[k - 1, i + (n \div 2 ^ k)])
  IN  half[Log2(n), 1]

(***************************************************************************)
(* Masks: the register has a byte at least, and masks of two and of four    *)
(* rows keep the bits above them clear. A mask is the set of its bits.      *)
(***************************************************************************)
KBits(rows) == 0 .. (IF rows < 8 THEN 8 ELSE rows) - 1

\* canonicalize_partial_byte_mask
KCanonical(rows, m) == IF rows < 8 THEN m \intersect (0 .. rows - 1) ELSE m

\* The bits of two or four rows are shifted down from their place in the byte.
KLoad(rows, at, bits) == KCanonical(rows, {b - at : b \in {c \in bits : c >= at}})

KSplat(rows, b) == IF b THEN 0 .. rows - 1 ELSE {}

KXnor(rows, m, n) == KCanonical(rows, KBits(rows) \ ((m \union n) \ (m \intersect n)))

KBinary(op, rows, m, n) ==
  CASE op = "And" -> m \intersect n  [] op = "Or" -> m \union n
    [] op = "Xor" -> (m \union n) \ (m \intersect n)  [] op = "AndNot" -> n \ m
    [] op = "XNor" -> KXnor(rows, m, n)

KNot(rows, m) == KCanonical(rows, KBits(rows) \ m)

KCount(m) == Cardinality(m)

\* ktest with the mask of all rows: carry is "all of them", not zero is "some of them".
KReduce(op, rows, m) ==
  CASE op = "And" -> 0 .. rows - 1 \subseteq m
    [] op = "Or"  -> m \intersect (0 .. rows - 1) # {}
    [] op = "Xor" -> Cardinality(m) % 2 = 1

\* The right half is shifted above the left one.
KCombine(rows, m, n) == m \union {i + rows \div 2 : i \in n}

\* Stored bits replace those of their rows: old is the byte in memory, at the rows' place.
KStore(rows, at, m, old) == (old \ {at + r : r \in 0 .. rows - 1}) \union {at + r : r \in m \intersect (0 .. rows - 1)}

\* A comparison under a mask, and a step under a mask that keeps or clears the others.
KUnder(m, compared) == m \intersect compared
Blend(m, row, truthy, falsy) == IF row \in m THEN truthy ELSE falsy
=============================================================================

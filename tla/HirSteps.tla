------------------------------ MODULE HirSteps ------------------------------
(* The steps of the high-level intermediate representation and what each of  *)
(* them computes for one row.                                                *)
(*                                                                           *)
(* Integers are kept as unsigned residues of their width. The widths are a   *)
(* constant, so that TLC can check a narrow machine that has the proportions *)
(* of the real one (8, 16, 32 and 64 bits): a byte of Byte bits. A float     *)
(* stands for an integer both float formats hold exactly, or for NaN;        *)
(* rounding is not modelled.                                                 *)
EXTENDS Integers, Sequences, FiniteSets

CONSTANT Byte    \* bits of an i8; the code has 8

ASSUME ByteAssumption == Byte \in Nat \ {0}

IntTypes == {"I8", "I16", "I32", "I64"}
FloatTypes == {"F32", "F64"}

\* scalar_dtype_size, in bytes.
Size(t) == CASE t \in {"I1", "I8"} -> 1 [] t = "I16" -> 2
             [] t \in {"I32", "F32"} -> 4 [] t \in {"I64", "F64"} -> 8

Width(t) == IF t = "I1" THEN 1 ELSE Size(t) * Byte
Modulus(t) == 2 ^ Width(t)
Wrap(n, t) == n % Modulus(t)
Signed(v, t) == IF 2 * v >= Modulus(t) THEN v - Modulus(t) ELSE v
IntMin(t) == -(2 ^ (Width(t) - 1))
AllOnes(t) == Modulus(t) - 1
NaN == 10 ^ 8                         \* no float of the instances is this large

\* What stands in the place of a value.
NoInstr == -1                         \* the code generator knows no instruction
Trap == -2                            \* the processor divides by an invalid divisor
Undefined == -3                       \* the generated source leaves the result open

(***************************************************************************)
(* Bits.                                                                    *)
(***************************************************************************)
Bit(n, k) == (n \div 2 ^ k) % 2
BitsOf(n, t) == {k \in 0 .. Width(t) - 1 : Bit(n, k) = 1}
FromBits(S, t) ==
  LET upTo[k \in 0 .. Width(t)] ==
        IF k = 0 THEN 0 ELSE upTo[k - 1] + (IF k - 1 \in S THEN 2 ^ (k - 1) ELSE 0)
  IN  upTo[Width(t)]
Positions == 0 .. 8 * Byte
Log2(n) == CHOOSE k \in Positions : 2 ^ k <= n /\ n < 2 ^ (k + 1)
HasSingleBit(n) == n > 0 /\ n = 2 ^ Log2(n)

TruncDiv(a, b) ==
  LET size(n) == IF n < 0 THEN -n ELSE n
      q == size(a) \div size(b)
  IN  IF (a < 0) = (b < 0) THEN q ELSE -q

(***************************************************************************)
(* Steps. Operands are the ids of earlier steps.                            *)
(***************************************************************************)
Step(kind, dtype, op, flag, args, val) ==
  [kind |-> kind, dtype |-> dtype, op |-> op, flag |-> flag, args |-> args, val |-> val]

ConstStep(n, t) == Step("Const", t, "", "No", <<>>, <<n>>)
ArithStep(op, flag, t, l, r) == Step("ArithBinary", t, op, flag, <<l, r>>, <<>>)
UnaryStep(op, t, a) == Step("ArithUnary", t, op, "No", <<a>>, <<>>)
CompareStep(op, unsigned, l, r) == Step("Compare", "I1", op, unsigned, <<l, r>>, <<>>)
LogicStep(op, l, r) == Step("PredicateBinary", "I1", op, "No", <<l, r>>, <<>>)
NotStep(p) == Step("PredicateNot", "I1", "", "No", <<p>>, <<>>)
SelectStep(t, c, x, y) == Step("Select", t, "", "No", <<c, x, y>>, <<>>)
IntCastStep(kind, t, a) == Step("IntCast", t, kind, "No", <<a>>, <<>>)
FloatCastStep(unsigned, t, a) == Step("FloatCast", t, "", unsigned, <<a>>, <<>>)

(***************************************************************************)
(* What an integer operation computes. An invalid divisor is replaced by 1, *)
(* which is what the SafeDivision flag asks for; without the flag the       *)
(* program may fault instead. A count that is not below the width is taken  *)
(* modulo the width under ShiftWraparound, and shifts everything out        *)
(* without it.                                                              *)
(***************************************************************************)
Divisor(op, t, x, y) ==
  IF y = 0 THEN 1
  ELSE IF op \in {"Div", "Mod"} /\ y = AllOnes(t) /\ Signed(x, t) = IntMin(t) THEN 1 ELSE y

Rotated(t, x, n) == Wrap(x * 2 ^ n, t) + (x \div 2 ^ (Width(t) - n))

Shifted(op, t, x, n) ==
  LET w == Width(t) IN
  CASE op = "ShiftLeftLogical"  -> IF n >= w THEN 0 ELSE Wrap(x * 2 ^ n, t)
    [] op = "ShiftRightLogical" -> IF n >= w THEN 0 ELSE x \div 2 ^ n
    [] op = "ShiftRightArith"   -> Wrap(Signed(x, t) \div 2 ^ (IF n >= w THEN w - 1 ELSE n), t)
    [] op = "RotateLeft"        -> Rotated(t, x, n % w)
    [] op = "RotateRight"       -> Rotated(t, x, (w - (n % w)) % w)

ShiftOps == {"ShiftLeftLogical", "ShiftRightLogical", "ShiftRightArith", "RotateLeft", "RotateRight"}
DivisionOps == {"Div", "UDiv", "Mod", "UMod"}

ArithInt(op, flag, t, x, y) ==
  LET sx == Signed(x, t)
      sy == Signed(y, t)
      d  == Divisor(op, t, x, y)
      low(v) == v % Modulus("I32")
  IN  CASE op = "Add"  -> Wrap(x + y, t)
        [] op = "Sub"  -> Wrap(x - y, t)
        [] op = "Mul"  -> Wrap(sx * sy, t)
        [] op = "Mul64SE" -> Wrap(Signed(low(x), "I32") * Signed(low(y), "I32"), t)
        [] op = "Mul64ZE" -> Wrap(low(x) * low(y), t)
        [] op = "Div"  -> Wrap(TruncDiv(sx, Signed(d, t)), t)
        [] op = "Mod"  -> Wrap(sx - Signed(d, t) * TruncDiv(sx, Signed(d, t)), t)
        [] op = "UDiv" -> x \div d
        [] op = "UMod" -> x % d
        [] op = "Min"  -> IF sx <= sy THEN x ELSE y
        [] op = "Max"  -> IF sx >= sy THEN x ELSE y
        [] op = "UMin" -> IF x <= y THEN x ELSE y
        [] op = "UMax" -> IF x >= y THEN x ELSE y
        [] op = "And"  -> FromBits(BitsOf(x, t) \intersect BitsOf(y, t), t)
        [] op = "Or"   -> FromBits(BitsOf(x, t) \union BitsOf(y, t), t)
        [] op = "Xor"  -> FromBits((BitsOf(x, t) \union BitsOf(y, t)) \ (BitsOf(x, t) \intersect BitsOf(y, t)), t)
        [] op = "AndNot" -> FromBits(BitsOf(y, t) \ BitsOf(x, t), t)
        [] op \in ShiftOps ->
             Shifted(op, t, x, IF flag = "ShiftWraparound" THEN y % Width(t) ELSE y)

\* A choice ignores a NaN, an operation does not.
ArithFloat(op, x, y) ==
  CASE op \in {"Min", "Max"} /\ x = NaN -> y
    [] op \in {"Min", "Max"} /\ y = NaN -> x
    [] op \notin {"Min", "Max"} /\ NaN \in {x, y} -> NaN
    [] NaN \notin {x, y} ->
         CASE op = "Add" -> x + y [] op = "Sub" -> x - y [] op = "Mul" -> x * y
           [] op = "Min" -> IF x <= y THEN x ELSE y [] op = "Max" -> IF x >= y THEN x ELSE y

UnaryInt(op, t, x) ==
  CASE op = "Not"      -> AllOnes(t) - x
    [] op = "Negate"   -> Wrap(-x, t)
    [] op = "Abs"      -> IF Signed(x, t) < 0 THEN Wrap(-x, t) ELSE x
    [] op = "Lzcnt"    -> IF x = 0 THEN Width(t) ELSE Width(t) - 1 - Log2(x)
    [] op = "Tzcnt"    -> IF x = 0 THEN Width(t)
                          ELSE CHOOSE k \in BitsOf(x, t) : \A j \in BitsOf(x, t) : k <= j
    [] op = "Popcount" -> Cardinality(BitsOf(x, t))

\* A comparison with NaN is false, and "not equal" is true.
Compared(op, x, y, nan) ==
  CASE op = "Less" -> ~nan /\ x < y          [] op = "Greater" -> ~nan /\ x > y
    [] op = "LessEqual" -> ~nan /\ x <= y    [] op = "GreaterEqual" -> ~nan /\ x >= y
    [] op = "Equal" -> ~nan /\ x = y         [] op = "NotEqual" -> nan \/ x # y

Logic(op, p, q) ==
  CASE op = "And" -> p /\ q [] op = "Or" -> p \/ q [] op = "Xor" -> p # q
    [] op = "AndNot" -> ~p /\ q [] op = "XNor" -> p = q

Cast(kind, from, to, x) == IF kind = "Sext" THEN Wrap(Signed(x, from), to) ELSE Wrap(x, to)

ToFloat(unsigned, from, x) ==
  IF from \in FloatTypes \/ unsigned = "Unsigned" THEN x ELSE Signed(x, from)

\* Byte i of the result is byte order[i + 1] of the argument.
Permuted(order, t, x) ==
  LET byte(i) == (x \div 2 ^ (Byte * order[i + 1])) % 2 ^ Byte
      upTo[i \in 0 .. Size(t)] == IF i = 0 THEN 0 ELSE upTo[i - 1] + byte(i - 1) * 2 ^ (Byte * (i - 1))
  IN  upTo[Size(t)]

Bool(b) == IF b THEN 1 ELSE 0
Absent == -(10 ^ 8)                   \* what a row adds that its condition leaves out

(***************************************************************************)
(* What step s computes from the types ts and the values xs of its operands *)
(* in a row that reads env.                                                 *)
(***************************************************************************)
Result(s, ts, xs, env) ==
  CASE s.kind = "Const"     -> s.val[1]
    [] s.kind \in {"Load", "LoadSplat"} -> env[s.val[1]]
    [] s.kind = "ArithBinary" ->
         IF s.dtype \in FloatTypes THEN ArithFloat(s.op, xs[1], xs[2])
                                   ELSE ArithInt(s.op, s.flag, s.dtype, xs[1], xs[2])
    [] s.kind = "CheckedOp" -> xs[1]
    [] s.kind = "ArithUnary" ->
         IF s.dtype \in FloatTypes THEN IF xs[1] = NaN THEN NaN ELSE -xs[1]
                                   ELSE UnaryInt(s.op, s.dtype, xs[1])
    [] s.kind = "Compare" ->
         LET signed == s.flag = "No" /\ ts[1] \in IntTypes
             side(k) == IF signed THEN Signed(xs[k], ts[k]) ELSE xs[k]
         IN  Bool(Compared(s.op, side(1), side(2), ts[1] \in FloatTypes /\ NaN \in {xs[1], xs[2]}))
    [] s.kind = "IntCast"   -> Cast(s.op, ts[1], s.dtype, xs[1])
    [] s.kind = "FloatCast" ->
         IF s.dtype \in FloatTypes THEN ToFloat(s.flag, ts[1], xs[1]) ELSE Wrap(xs[1], s.dtype)
    [] s.kind = "PredicateBinary" -> Bool(Logic(s.op, xs[1] = 1, xs[2] = 1))
    [] s.kind = "PredicateNot" -> 1 - xs[1]
    [] s.kind = "Select"    -> IF xs[1] = 1 THEN xs[2] ELSE xs[3]
    [] s.kind = "Permute"   -> Permuted(s.val, s.dtype, xs[1])
    [] s.kind = "Fpclass"   -> Bool(xs[1] = NaN)
    [] s.kind = "Gather"    -> env[s.val[1]]
    \* What a root leaves in its argument for the row, or adds to its accumulator.
    [] s.kind \in {"Store", "Scatter"} ->
         LET n == IF s.kind = "Store" THEN 1 ELSE 2
         IN  IF Len(xs) = n \/ xs[n + 1] = 1 THEN xs[n] ELSE env[s.val[1]]
    [] s.kind \in {"Pack", "AccArithBinary", "AccSum128", "AccPredicateBinary", "Countif"} ->
         IF Len(xs) = 1 \/ xs[2] = 1 THEN xs[1] ELSE Absent

\* Whether a safety check of step s reports the row.
Faults(s, ts, xs) ==
  LET t == s.dtype
      sx == Signed(xs[1], ts[1])
      sy == Signed(xs[2], ts[2])
      out(n) == n \notin IntMin(t) .. -IntMin(t) - 1
  IN  CASE s.kind = "ArithBinary" /\ s.op = "Add" -> out(sx + sy)
        [] s.kind = "ArithBinary" /\ s.op = "Sub" -> out(sx - sy)
        [] s.kind = "ArithBinary" /\ s.op = "Mul" -> out(sx * sy)
        [] s.kind = "ArithBinary" /\ s.op \in DivisionOps -> Divisor(s.op, t, xs[1], xs[2]) # xs[2]
        [] s.kind = "ArithBinary" /\ s.op \in ShiftOps -> xs[2] >= Width(t)
        [] s.kind = "ArithUnary" -> sx = IntMin(t)
        [] s.kind = "IntCast" -> out(sx)

\* The value every step of the table has in a row that reads env.
Meaning(steps, env) ==
  LET value[i \in DOMAIN steps] ==
        LET s == steps[i]
        IN  Result(s, [k \in DOMAIN s.args |-> steps[s.args[k]].dtype],
                      [k \in DOMAIN s.args |-> value[s.args[k]]], env)
  IN  value

\* The steps a root reaches: step_recurse under traverse_steps_postorder.
Reached(steps, roots) ==
  LET below[i \in 0 .. Len(steps)] ==
        IF i = 0 THEN {}
        ELSE {i} \union UNION {below[a] : a \in {steps[i].args[k] : k \in DOMAIN steps[i].args}}
  IN  UNION {below[r] : r \in roots}
=============================================================================

---------------------------- MODULE FloatEmitter ----------------------------
(* Floats as the backends handle them. A float is its bits: the sign, the    *)
(* exponent and the fraction of a format as wide as an i32, in which every   *)
(* boundary is close: zeros of both signs, subnormals, infinities, NaNs.     *)
(*                                                                           *)
(* What the instructions are told to do with a NaN differs from target to    *)
(* target, and each emitter repairs it in its own way. Sums, products and    *)
(* roots are rounded by the processor alike and are left out.                *)
EXTENDS X86Emitter

FractionBits(t) == Width(t) \div 2 - 1
SignBit(t) == 2 ^ (Width(t) - 1)
Infinity(t) == SignBit(t) - 2 ^ FractionBits(t)

Magnitude(x) == x % SignBit("F32")
IsNegative(x) == x >= SignBit("F32")
NotANumber(x) == Magnitude(x) > Infinity("F32")
IsInfinite(x) == Magnitude(x) = Infinity("F32")
IsZero(x) == Magnitude(x) = 0
IsSubnormal(x) == Magnitude(x) \in 1 .. 2 ^ FractionBits("F32") - 1
Unordered(x, y) == NotANumber(x) \/ NotANumber(y)

\* The size of a finite float as a multiple of the smallest one, and that of 1.0.
Units(m) ==
  LET exponent == m \div 2 ^ FractionBits("F32")
      fraction == m % 2 ^ FractionBits("F32")
  IN  IF exponent = 0 THEN fraction ELSE (2 ^ FractionBits("F32") + fraction) * 2 ^ (exponent - 1)
FloatValue(x) == IF IsNegative(x) THEN -Units(Magnitude(x)) ELSE Units(x)
One(t) == Units(SignBit(t) \div 2 - 2 ^ FractionBits(t))

SizeOf(n) == IF n < 0 THEN -n ELSE n

\* The float nearest to n units, the even one of two; the bits of floats are in order.
Nearest(n) ==
  LET off(m) == SizeOf(SizeOf(n) - Units(m))
      near == {m \in 0 .. Infinity("F32") : \A k \in {m - 1, m + 1} \intersect (0 .. Infinity("F32")) : off(m) <= off(k)}
      least == {m \in near : \A k \in near : off(m) <= off(k)}
  IN  (CHOOSE m \in least : m % 2 = 0 \/ Cardinality(least) = 1) + (IF n < 0 THEN SignBit("F32") ELSE 0)

(***************************************************************************)
(* What a step over floats means.                                           *)
(***************************************************************************)
FloatCompared(op, x, y) == Compared(op, FloatValue(x), FloatValue(y), Unordered(x, y))

\* A choice ignores a NaN.
FloatChosen(op, x, y) ==
  CASE NotANumber(x) -> y
    [] NotANumber(y) -> x
    [] ~Unordered(x, y) -> IF FloatCompared(IF op = "Min" THEN "LessEqual" ELSE "GreaterEqual", x, y) THEN x ELSE y

FloatBits(op, x, y) == ArithInt(op, "No", "I32", x, y)

\* To a whole number: the nearest (the even of two), the next lower, the next
\* higher, or towards zero. The sign stays, also that of a zero.
WholeUnits(op, n) ==
  LET below == n \div One("F32")
      rest == n % One("F32")
      up == CASE op = "RoundNearest"  -> 2 * rest > One("F32") \/ (2 * rest = One("F32") /\ below % 2 = 1)
              [] op = "RoundDown"     -> FALSE
              [] op = "RoundUp"       -> rest > 0
              [] op = "RoundTruncate" -> rest > 0 /\ n < 0
  IN  (IF up THEN below + 1 ELSE below) * One("F32")
FloatRounded(op, x) ==
  IF NotANumber(x) \/ IsInfinite(x) THEN x
  ELSE Magnitude(Nearest(WholeUnits(op, FloatValue(x)))) + (x - Magnitude(x))

FloatUnary(op, x) ==
  CASE op = "Abs" -> Magnitude(x) [] op = "Negate" -> (x + SignBit("F32")) % (2 * SignBit("F32"))
    [] op = "Not" -> AllOnes("I32") - x
    [] op \in {"RoundNearest", "RoundDown", "RoundUp", "RoundTruncate"} -> FloatRounded(op, x)

FloatClasses ==
  [nan |-> {"nan"}, infinite |-> {"infinite"}, subnormal |-> {"subnormal"}, zero |-> {"zero"},
   unusual |-> {"nan", "infinite"}, tiny |-> {"subnormal", "zero"}, any |-> {"nan", "infinite", "subnormal", "zero"}]

InClass(class, x) ==
  CASE class = "nan" -> NotANumber(x) [] class = "infinite" -> IsInfinite(x)
    [] class = "subnormal" -> IsSubnormal(x) [] class = "zero" -> IsZero(x)
Fpclass(name, x) == \E class \in FloatClasses[name] : InClass(class, x)

\* Integers, converted with their sign or without.
FloatOf(unsigned, v) == Nearest((IF unsigned THEN v ELSE Signed(v, "I32")) * One("F32"))
\* Floats, towards zero. What does not fit is left open.
FitsInt(unsigned, x) ==
  /\ ~NotANumber(x) /\ ~IsInfinite(x)
  /\ TruncDiv(FloatValue(x), One("F32")) \in IF unsigned THEN 0 .. AllOnes("I32") ELSE IntMin("I32") .. -IntMin("I32") - 1
IntOf(x) == Wrap(TruncDiv(FloatValue(x), One("F32")), "I32")

(***************************************************************************)
(* x86.                                                                     *)
(***************************************************************************)
\* vmin and vmax return the second operand where one is a NaN, and for two zeros.
X86MinMax(op, x, y) ==
  IF ~Unordered(x, y) /\ FloatCompared(IF op = "Min" THEN "Less" ELSE "Greater", x, y) THEN x ELSE y

\* scalar_float_arith_binary: where the right operand is a NaN, the left one.
X86FloatChoice(op, x, y) == IF NotANumber(y) THEN x ELSE X86MinMax(op, x, y)

X86FloatBinary(op, x, y) == IF op \in {"Min", "Max"} THEN X86FloatChoice(op, x, y) ELSE FloatBits(op, x, y)

\* vec_binary reads a right operand in the register of the result from a copy.
StableInPlace(result) == "right"   \* mutant: no copy is made
StableRight(result) == IF result = "right" THEN "copy" ELSE "right"

\* vec_binary: a lane under a mask k that is pushed down, merged with the left operand
\* or with another value (here 0), or without. The operation is masked by "the right
\* operand is no NaN" over the left operand, moved to the result, or done first and
\* overwritten. The result has a register of its own or that of an operand.
X86VecFloatBinary(op, pushed, k, x, y, result) ==
  LET choice == op \in {"Min", "Max"}
      under == pushed = "No" \/ k = 1
      begun == [left |-> x, right |-> y, copy |-> y, new |-> 0]
      put(r, v) == [r EXCEPT ![result] = v]
      right(r) == r[IF choice THEN StableRight(result) ELSE "right"]
      done(r) == IF choice THEN X86MinMax(op, r.left, right(r)) ELSE FloatBits(op, r.left, right(r))
      folded == put(begun, x)
      merged == CASE pushed = "No" -> begun [] pushed = "left" -> put(begun, x) [] pushed = "other" -> put(begun, 0)
      executed == IF under THEN put(merged, done(merged)) ELSE merged
  IN  IF choice /\ pushed # "other"
      THEN IF under /\ ~NotANumber(right(begun)) THEN done(folded) ELSE folded[result]
      ELSE IF choice /\ under /\ NotANumber(right(executed)) THEN executed.left ELSE executed[result]

\* ucomis: an unordered pair is equal, below, and has parity.
X86FloatFlags(x, y) ==
  [zero   |-> Unordered(x, y) \/ FloatValue(x) = FloatValue(y),
   carry  |-> Unordered(x, y) \/ FloatValue(x) < FloatValue(y),
   less   |-> FALSE,
   parity |-> Unordered(x, y)]

\* "less" compares the operands the other way round, so that an unordered pair fails.
X86FloatCompare(op, x, y) ==
  LET less == op \in {"Less", "LessEqual"}
      f == IF less THEN X86FloatFlags(y, x) ELSE X86FloatFlags(x, y)
      c == X86Condition(IF less THEN Swapped(op) ELSE op, TRUE, f)
  IN  CASE op = "Equal" -> c /\ ~f.parity [] op = "NotEqual" -> c \/ f.parity
        [] op \notin {"Equal", "NotEqual"} -> c

\* The condition is a byte, tested before a jump over the move.
X86FloatSelect(c, x, y) == IF c THEN x ELSE y

\* LT_OQ .. NEQ_UQ; a left operand in memory becomes the right one.
X86VecFloatCompare(op, x, y, inlined) ==
  LET quiet(o, a, b) == IF o = "NotEqual" THEN Unordered(a, b) \/ FloatCompared(o, a, b)
                        ELSE ~Unordered(a, b) /\ FloatCompared(o, a, b)
  IN  IF inlined THEN quiet(Swapped(op), y, x) ELSE quiet(op, x, y)

\* The bits of fpclass.
X86FloatCategory(x) ==
  CASE NotANumber(x) -> IF Bit(x, FractionBits("F32") - 1) = 1 THEN "QNaN" ELSE "SNaN"
    [] IsInfinite(x) -> IF IsNegative(x) THEN "NInf" ELSE "PInf"
    [] IsSubnormal(x) -> "Denormal"
    [] IsZero(x) -> IF IsNegative(x) THEN "NZero" ELSE "PZero"
    [] ~(NotANumber(x) \/ IsInfinite(x) \/ IsSubnormal(x) \/ IsZero(x)) -> "Normal"

\* make_fpclass_imm
X86FpclassImm(classes) ==
  (IF "infinite" \in classes THEN {"NInf", "PInf"} ELSE {})
    \union (IF "nan" \in classes THEN {"QNaN", "SNaN"} ELSE {})
    \union (IF "subnormal" \in classes THEN {"Denormal"} ELSE {})
    \union (IF "zero" \in classes THEN {"NZero", "PZero"} ELSE {})
X86Fpclass(name, x) == X86FloatCategory(x) \in X86FpclassImm(FloatClasses[name])

\* vcvt(t): with the sign or without it; what does not fit is "indefinite".
X86IntToFloat(unsigned, v) == FloatOf(unsigned, v)
X86FloatToInt(unsigned, x) ==
  IF FitsInt(unsigned, x) THEN IntOf(x) ELSE IF unsigned THEN AllOnes("I32") ELSE Wrap(IntMin("I32"), "I32")

\* A scalar is moved to a vector register and back.
X86ScalarFloatCast(toFloat, unsigned, x) == IF toFloat THEN X86IntToFloat(unsigned, x) ELSE X86FloatToInt(unsigned, x)

\* The sign is inverted, the bits are and-ed; Abs has become an And before.
X86ScalarFloatUnary(op, x) ==
  CASE op = "Negate" -> FloatBits("Xor", x, SignBit("F32"))
    [] op = "Not" -> FloatBits("AndNot", x, AllOnes("I32"))
    [] op = "Abs" -> FloatBits("And", x, SignBit("F32") - 1)
    [] op \in {"RoundNearest", "RoundDown", "RoundUp", "RoundTruncate"} -> FloatRounded(op, x)

\* The upper half, then lane 1, come on top of the lower: two lanes in the register of
\* the right operand, four in that of the left.
X86FloatReduce(op, v, n) ==
  LET both(a, b, result) == X86VecFloatBinary(op, "No", 1, a, b, result)
  IN  IF n = 2 THEN both(v[1], v[2], "right")
      ELSE both(both(v[3], v[1], "left"), both(v[4], v[2], "left"), "left")

(***************************************************************************)
(* ARM.                                                                     *)
(***************************************************************************)
\* fminnm and fmaxnm ignore a NaN.
ArmFloatBinary(op, x, y) == IF op \in {"Min", "Max"} THEN FloatChosen(op, x, y) ELSE FloatBits(op, x, y)

\* fcmp: an unordered pair has C and V.
ArmFloatFlags(x, y) ==
  [n |-> ~Unordered(x, y) /\ FloatValue(x) < FloatValue(y),
   z |-> ~Unordered(x, y) /\ FloatValue(x) = FloatValue(y),
   c |-> Unordered(x, y) \/ FloatValue(x) >= FloatValue(y),
   v |-> Unordered(x, y)]

\* MI, GT, LS, GE, EQ, NE.
ArmFloatCondition(op, f) ==
  CASE op = "Less" -> f.n                    [] op = "Greater" -> ~f.z /\ f.n = f.v
    [] op = "LessEqual" -> ~f.c \/ f.z       [] op = "GreaterEqual" -> f.n = f.v
    [] op = "Equal" -> f.z                   [] op = "NotEqual" -> ~f.z
ArmFloatCompare(op, x, y) == ArmFloatCondition(op, ArmFloatFlags(x, y))

\* fcsel after the comparison itself, unless it is NotEqual: then after its result.
ArmFloatSelect(op, x, y) ==
  LET taken == IF op = "NotEqual" THEN Bool(ArmFloatCompare(op, x, y)) # 0 ELSE ArmFloatCompare(op, x, y)
  IN  IF taken THEN x ELSE y

\* fcmgt and fcmge over operands that change places, fcmlt and fcmle against zero.
ArmVecFloatCompare(op, x, y, zero) ==
  LET holds(o, a, b) == ~Unordered(a, b) /\ FloatCompared(o, a, b)
  IN  CASE op = "Less" -> IF zero THEN holds("Less", x, 0) ELSE holds("Greater", y, x)
        [] op = "LessEqual" -> IF zero THEN holds("LessEqual", x, 0) ELSE holds("GreaterEqual", y, x)
        [] op \in {"Greater", "GreaterEqual", "Equal"} -> holds(op, x, IF zero THEN 0 ELSE y)
        [] op = "NotEqual" -> ~holds("Equal", x, IF zero THEN 0 ELSE y)

ArmFloatUnary(op, x) == FloatUnary(op, x)

\* Bit patterns of each class, or-ed.
ArmClass(class, x) ==
  LET exponent == FloatBits("And", x, Infinity("F32"))
      fraction == FloatBits("And", x, 2 ^ FractionBits("F32") - 1)
  IN  CASE class = "infinite" -> FloatBits("And", x, SignBit("F32") - 1) = Infinity("F32")
        [] class = "nan" -> ~ArmFloatFlags(x, x).z
        [] class = "subnormal" -> exponent = 0 /\ fraction # 0
        [] class = "zero" -> ArmFloatFlags(Magnitude(x), 0).z
ArmFpclass(name, x) == \E class \in FloatClasses[name] : ArmClass(class, x)

\* The same in lanes: fcmeq instead of flags.
ArmVecClass(class, x) ==
  LET equal(a, b) == ~Unordered(a, b) /\ FloatValue(a) = FloatValue(b)
      fraction == FloatBits("And", 2 ^ FractionBits("F32") - 1, x)
  IN  CASE class = "infinite" -> Magnitude(x) = Infinity("F32")
        [] class = "nan" -> ~equal(x, x)
        [] class = "subnormal" -> FloatBits("And", Infinity("F32"), x) = 0 /\ FloatBits("And", fraction, fraction) # 0
        [] class = "zero" -> equal(Magnitude(x), 0)
ArmVecFpclass(name, x) == \E class \in FloatClasses[name] : ArmVecClass(class, x)

\* scvtf, ucvtf; fcvtzs, fcvtzu: what does not fit is cut to the range, a NaN is 0.
ArmFloatCast(toFloat, unsigned, x) ==
  LET cut == CASE NotANumber(x) -> 0
               [] ~NotANumber(x) /\ IsNegative(x) -> IF unsigned THEN 0 ELSE IntMin("I32")
               [] ~NotANumber(x) /\ ~IsNegative(x) -> IF unsigned THEN AllOnes("I32") ELSE -IntMin("I32") - 1
  IN  CASE toFloat -> FloatOf(unsigned, x)
        [] ~toFloat -> IF FitsInt(unsigned, x) THEN IntOf(x) ELSE Wrap(cut, "I32")

\* fminv, fmaxv, fminp and fmaxp do not ignore a NaN.
ArmFloatReduce(op, v, n) ==
  IF \E i \in 1 .. n : NotANumber(v[i]) THEN Infinity("F32") + 1
  ELSE IF n = 2 THEN FloatChosen(op, v[1], v[2])
       ELSE FloatChosen(op, FloatChosen(op, v[1], v[2]), FloatChosen(op, v[3], v[4]))

(***************************************************************************)
(* C++ and LLVM.                                                            *)
(***************************************************************************)
\* fmin and fmax, and operators over the bits.
CppFloatBinary(op, x, y) == IF op \in {"Min", "Max"} THEN FloatChosen(op, x, y) ELSE FloatBits(op, x, y)

\* The operators of the language.
CppFloatCompare(op, x, y) == FloatCompared(op, x, y)

\* fpclassify has one answer.
CppFpclass(name, x) ==
  LET classify == CASE NotANumber(x) -> "nan" [] IsInfinite(x) -> "infinite" [] IsZero(x) -> "zero"
                    [] IsSubnormal(x) -> "subnormal" [] OTHER -> "normal"
  IN  classify \in FloatClasses[name]

\* Unsigned integers are cast on the way; a float that does not fit is undefined.
CppFloatCast(toFloat, unsigned, x) ==
  IF toFloat THEN FloatOf(unsigned, x) ELSE IF FitsInt(unsigned, x) THEN IntOf(x) ELSE Undefined

\* x < 0 ? -x : x
CppFloatUnary(op, x) ==
  IF op = "Abs" THEN (IF FloatCompared("Less", x, 0) THEN FloatUnary("Negate", x) ELSE x) ELSE FloatUnary(op, x)

\* x86_vector_arith_binary_expr, with the intrinsics that take a mask and a merge value.
CppX86FloatBinary(op, pushed, k, x, y) ==
  LET choice == op \in {"Min", "Max"}
      done == IF choice THEN X86MinMax(op, x, y) ELSE FloatBits(op, x, y)
      masked(m, merge) == IF m THEN done ELSE merge
      under == pushed = "No" \/ k = 1
      merge == IF pushed = "left" THEN x ELSE 0
  IN  CASE choice /\ pushed # "other" -> masked(under /\ ~NotANumber(y), x)
        [] choice /\ pushed = "other" -> IF under /\ NotANumber(y) THEN x ELSE masked(under, merge)
        [] ~choice -> masked(under, merge)

\* _CMP_LT_OQ .. _CMP_NEQ_UQ
CppX86FloatCompare(op, x, y) ==
  IF op = "NotEqual" THEN Unordered(x, y) \/ FloatValue(x) # FloatValue(y)
  ELSE ~Unordered(x, y) /\ Compared(op, FloatValue(x), FloatValue(y), FALSE)

\* The immediates: +0 and -0, subnormals, both infinities, quiet and signaling NaNs.
CppX86Fpclass(name, x) ==
  LET bit == [QNaN |-> 0, PZero |-> 1, NZero |-> 2, PInf |-> 3, NInf |-> 4, Denormal |-> 5, Normal |-> 8, SNaN |-> 7]
      imm == [nan |-> {0, 7}, infinite |-> {3, 4}, subnormal |-> {5}, zero |-> {1, 2}]
  IN  bit[X86FloatCategory(x)] \in UNION {imm[class] : class \in FloatClasses[name]}

\* The lanes that are no NaN, or the first one if there are none.
CppX86FloatReduce(op, v, n) ==
  LET numbers == {i \in 1 .. n : ~NotANumber(v[i])}
      used == IF numbers = {} THEN {1} ELSE numbers
      upTo[i \in 0 .. n] == IF i = 0 THEN IF op = "Min" THEN Infinity("F32") ELSE Infinity("F32") + SignBit("F32")
                            ELSE IF i \in used THEN X86MinMax(op, upTo[i - 1], v[i]) ELSE upTo[i - 1]
  IN  upTo[n]

\* vceq, vcgt, vclt, vcge, vcle, and the complement of vceq.
CppNeonFloatCompare(op, x, y) ==
  LET holds(o) == ~Unordered(x, y) /\ FloatCompared(o, x, y)
  IN  IF op = "NotEqual" THEN ~holds("Equal") ELSE holds(op)

\* simjit_arm_fpclass_f32
CppNeonFpclass(name, x) ==
  \/ "infinite" \in FloatClasses[name] /\ Magnitude(x) = Infinity("F32")
  \/ "nan" \in FloatClasses[name] /\ Unordered(x, x)
  \/ /\ "subnormal" \in FloatClasses[name]
     /\ FloatBits("And", x, Infinity("F32")) = 0
     /\ FloatBits("And", x, 2 ^ FractionBits("F32") - 1) # 0
  \/ "zero" \in FloatClasses[name] /\ ~NotANumber(x) /\ FloatValue(Magnitude(x)) = 0

\* vminnmv and vpminnm ignore NaNs.
CppNeonFloatReduce(op, v, n) ==
  LET pair(i) == FloatChosen(op, v[i], v[i + 1])
  IN  IF n = 2 THEN pair(1) ELSE FloatChosen(op, pair(1), pair(3))

CppNeonFloatCast(toFloat, unsigned, x) == ArmFloatCast(toFloat, unsigned, x)

\* minnum, maxnum; the bits are and-ed as integers.
LlvmFloatBinary(op, x, y) == IF op \in {"Min", "Max"} THEN FloatChosen(op, x, y) ELSE FloatBits(op, x, y)

\* OLT .. OEQ, UNE.
LlvmFloatCompare(op, x, y) ==
  IF op = "NotEqual" THEN Unordered(x, y) \/ FloatValue(x) # FloatValue(y)
  ELSE ~Unordered(x, y) /\ FloatCompared(op, x, y)

\* is_fpclass: signaling and quiet NaN are bits 0 and 1, and so on to +infinity.
LlvmFpclass(name, x) ==
  LET sign(minus, plus) == IF IsNegative(x) THEN minus ELSE plus
      bit == CASE NotANumber(x) -> IF Bit(x, FractionBits("F32") - 1) = 1 THEN 1 ELSE 0
               [] IsInfinite(x) -> sign(2, 9) [] IsSubnormal(x) -> sign(4, 7)
               [] IsZero(x) -> sign(5, 6)     [] OTHER -> sign(3, 8)
      mask == [infinite |-> {9, 2}, nan |-> {1, 0}, subnormal |-> {7, 4}, zero |-> {6, 5}]
  IN  bit \in UNION {mask[class] : class \in FloatClasses[name]}

\* A float that does not fit becomes poison, frozen to any value.
LlvmFloatCast(toFloat, unsigned, x) ==
  IF toFloat THEN FloatOf(unsigned, x) ELSE IF FitsInt(unsigned, x) THEN IntOf(x) ELSE Undefined

LlvmFloatUnary(op, x) == FloatUnary(op, x)

LlvmFloatReduce(op, v, n) ==
  LET upTo[i \in 1 .. n] == IF i = 1 THEN v[1] ELSE FloatChosen(op, upTo[i - 1], v[i]) IN upTo[n]
=============================================================================

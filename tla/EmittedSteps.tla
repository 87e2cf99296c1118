---------------------------- MODULE EmittedSteps ----------------------------
(* The code of every backend beside the step it stands for. A step of the     *)
(* middle representation is emitted by one of nine generators: AsmJit code   *)
(* for x86 and ARM, the source of a C++ file, or LLVM instructions, each for *)
(* scalars and for the lanes and masks of vectors.                           *)
(*                                                                           *)
(* instr is the step: its kind, operator and types, whether its right        *)
(* operand is a constant, and n, the lanes of a reduction or the rows of a   *)
(* mask. xs are its operands.                                                *)
EXTENDS MirLowering, FloatEmitter, ArmEmitter, CppEmitter, LlvmEmitter

Instr(kind, op, flag, from, t, const, n) ==
  [kind |-> kind, op |-> op, flag |-> flag, from |-> from, t |-> t, const |-> const, n |-> n]

ScalarMachines == {"x86", "arm", "c++", "llvm"}
LaneMachines == {"x86 lanes", "arm lanes", "avx lanes", "neon lanes", "llvm lanes"}
X86Lanes(machine) == machine \in {"x86 lanes", "avx lanes"}
ArmLanes(machine) == machine \in {"arm lanes", "neon lanes"}

ByteOrder(name, t) ==
  [i \in 1 .. Size(t) |-> IF name = "reversed" THEN Size(t) - i ELSE i % Size(t)]

Zero(instr) == instr.kind = "Compare" /\ instr.const
Unsigned(instr) == instr.flag = "Unsigned"

(***************************************************************************)
(* Scalars.                                                                 *)
(***************************************************************************)
OnX86(i, x, y, z) ==
  CASE i.kind = "Binary"   -> X86ScalarBinary(i.op, i.t, x, y)
    [] i.kind = "ConstDiv" -> X86ConstDiv(i.op, i.t, x, y, QuotientOf(i.op, i.t, y))
    [] i.kind = "Unary"    -> X86ScalarUnary(i.op, i.t, x)
    [] i.kind = "Cast"     -> X86ScalarCast(i.op, i.from, i.t, x)
    [] i.kind = "Compare"  -> X86ScalarCompare(i.op, Unsigned(i), i.t, x, y)
    [] i.kind = "Select"   -> X86ScalarSelect(z, x, y)
    [] i.kind = "Overflow" -> X86Overflow(i.op, i.t, x, y, z)
    [] i.kind = "Permute"  -> X86ScalarPermute(ByteOrder(i.op, i.t), i.t, x)

\* In the registers of ARM: operands come sign-extended. A result that is not, says so.
ArmExtended(i, v) ==
  IF v = ArmSigned(i.t, v) \/ (i.kind = "Unary" /\ i.op \in {"Lzcnt", "Tzcnt", "Popcount"} /\ i.t = "I8")
  THEN v % Modulus(i.t) ELSE Undefined

OnArm(i, x, y, z) ==
  LET a == ArmSigned(i.t, x)
      b == ArmSigned(i.t, y)
      kept == ArmExtended(i, IF i.const THEN ArmScalarConst(i.op, i.t, a, y) ELSE ArmScalarBinary(i.op, i.t, a, b))
      flagged == ArmOverflow(i.op, i.t, a, b, z)
  IN  CASE i.kind = "Binary"   -> IF ArmLeftAfter(i.op, i.t, a, i.const, 2) = a THEN kept ELSE Undefined
        [] i.kind = "ConstDiv" -> ArmConstDiv(i.op, i.t, x, y, QuotientOf(i.op, i.t, y))
        [] i.kind = "Unary"    -> ArmExtended(i, ArmScalarUnary(i.op, i.t, a))
        [] i.kind = "Cast"     -> ArmExtended(i, ArmScalarCast(i.op, i.from, i.t, ArmSigned(i.from, x)))
        [] i.kind = "Compare"  -> ArmScalarCompare(i.op, Unsigned(i), i.t, a, b)
        [] i.kind = "Select"   -> ArmExtended(i, ArmScalarSelect(z, a, b))
        [] i.kind = "Overflow" -> [flagged EXCEPT !.value = ArmExtended(i, @)]
        [] i.kind = "Permute"  -> ArmExtended(i, ArmScalarPermute(ByteOrder(i.op, i.t), i.t, a))

OnCpp(i, x, y, z) ==
  CASE i.kind = "Binary"   -> CppScalarBinary(i.op, i.t, i.const, x, y)
    [] i.kind = "ConstDiv" -> CppConstDiv(i.op, i.t, x, y)
    [] i.kind = "ShiftOfConst" -> CppShiftOfConst(i.t, x, y)
    [] i.kind = "Unary"    -> CppScalarUnary(i.op, i.t, x)
    [] i.kind = "Cast"     -> CppScalarCast(i.op, i.from, i.t, x)
    [] i.kind = "Compare"  -> CppScalarCompare(i.op, Unsigned(i), i.t, x, y)
    [] i.kind = "Select"   -> CppScalarSelect(z, x, y, i.const)
    [] i.kind = "Overflow" -> CppOverflow(i.op, i.t, x, y, z)
    [] i.kind = "Permute"  -> CppScalarPermute(ByteOrder(i.op, i.t), i.t, x)

OnLlvm(i, x, y, z) ==
  CASE i.kind \in {"Binary", "ConstDiv"} -> LlvmBinary(i.op, i.t, x, y)
    [] i.kind = "Unary"    -> LlvmUnary(i.op, i.t, x)
    [] i.kind = "Cast"     -> LlvmCast(i.op, i.from, i.t, x)
    [] i.kind = "Compare"  -> LlvmCompare(i.op, Unsigned(i), i.t, x, y)
    [] i.kind = "Select"   -> LlvmSelect(z, x, y)
    [] i.kind = "Overflow" -> LlvmOverflow(i.op, i.t, x, y, z)
    [] i.kind = "Permute"  -> LlvmScalarPermute(ByteOrder(i.op, i.t), i.t, x)

EmittedScalar(machine, i, x, y, z) ==
  CASE machine = "x86"  -> OnX86(i, x, y, z)
    [] machine = "arm"  -> OnArm(i, x, y, z)
    [] machine = "c++"  -> OnCpp(i, x, y, z)
    [] machine = "llvm" -> OnLlvm(i, x, y, z)

(***************************************************************************)
(* Lanes. flag "inlined" or "suggested": the choice of operand order or of  *)
(* destination that the generator makes from the steps around this one.     *)
(***************************************************************************)
OnX86Lanes(i, x, y, z) ==
  CASE i.kind = "Binary"  -> IF i.const THEN X86VecConst(i.op, i.t, x, y) ELSE X86VecBinary(i.op, i.t, x, y)
    [] i.kind = "Unary"   -> X86VecUnary(i.op, i.t, x)
    [] i.kind = "Cast"    -> X86VecCast(i.op, i.from, i.t, x)
    [] i.kind = "Compare" -> IF X86VecCompare(i.op, Unsigned(i), i.t, x, y, Zero(i), FALSE)
                                = X86VecCompare(i.op, Unsigned(i), i.t, x, y, Zero(i), TRUE)
                             THEN Bool(X86VecCompare(i.op, Unsigned(i), i.t, x, y, Zero(i), FALSE)) ELSE Undefined
    [] i.kind = "Select"  -> Blend(IF z = 1 THEN {0} ELSE {}, 0, x, y)

OnArmLanes(i, x, y, z) ==
  CASE i.kind = "Binary"  -> IF i.const THEN ArmVecConst(i.op, i.t, x, y)
                             ELSE ArmVecBinary(i.op, i.t, x, y, i.flag = "suggested")
    [] i.kind = "Unary"   -> ArmVecUnary(i.op, i.t, x)
    [] i.kind = "Cast"    -> ArmVecCast(i.op, i.from, i.t, x)
    [] i.kind = "Compare" -> ArmVecCompare(i.op, Unsigned(i), i.t, x, y, Zero(i))
    [] i.kind = "Select"  -> ArmBlend(z = 1, x, y)
    [] i.kind = "Increment" -> ArmSelectIncremented(i.t, z = 1, x)

OnAvxLanes(i, x, y, z) ==
  CASE i.kind = "Binary"  -> CppX86Binary(i.op, i.t, i.const, x, y)
    [] i.kind = "Unary"   -> CppX86Unary(i.op, i.t, x)
    [] i.kind = "Cast"    -> CppX86Cast(i.op, i.from, i.t, x)
    [] i.kind = "Compare" -> CppX86Compare(i.op, Unsigned(i), i.t, x, y, Zero(i))
    [] i.kind = "Select"  -> CppX86Select(i.t, z, x, IF i.const THEN 0 ELSE y, i.const)

OnNeonLanes(i, x, y, z) ==
  CASE i.kind = "Binary"  -> CppNeonBinary(i.op, i.t, i.const, x, y)
    [] i.kind = "Unary"   -> CppNeonUnary(i.op, i.t, x)
    [] i.kind = "Cast"    -> CppNeonCast(i.op, i.from, i.t, x)
    [] i.kind = "Compare" -> CppNeonCompare(i.op, Unsigned(i), i.t, x, y)
    [] i.kind = "Permute" -> CppNeonPermute(ByteOrder(i.op, i.t), i.t, x)

OnLlvmLanes(i, x, y, z) ==
  IF i.kind = "Permute" THEN LlvmVecPermute(ByteOrder(i.op, i.t), i.t, x) ELSE OnLlvm(i, x, y, z)

EmittedLane(machine, i, x, y, z) ==
  CASE machine = "x86 lanes"  -> OnX86Lanes(i, x, y, z)
    [] machine = "arm lanes"  -> OnArmLanes(i, x, y, z)
    [] machine = "avx lanes"  -> OnAvxLanes(i, x, y, z)
    [] machine = "neon lanes" -> OnNeonLanes(i, x, y, z)
    [] machine = "llvm lanes" -> OnLlvmLanes(i, x, y, z)

(***************************************************************************)
(* Reductions of the lanes 1 .. i.n of v.                                   *)
(***************************************************************************)
EmittedReduction(machine, i, v) ==
  CASE machine = "x86 lanes"  -> X86Reduce(i.op, i.t, v, i.n)
    [] machine = "arm lanes"  -> ArmReduce(i.op, i.t, v, i.n)
    [] machine = "avx lanes"  -> CppX86Reduce(i.op, i.t, v, i.n, i.n)
    [] machine = "neon lanes" -> CppNeonReduce(i.op, i.t, v, i.n)
    [] machine = "llvm lanes" -> LlvmReduce(i.op, i.t, v, i.n)

(***************************************************************************)
(* Masks of i.n rows: a mask that is loaded (from bits at a place of a byte *)
(* whose other bits are old) or compared, an operator over one or two of    *)
(* them, and what is made of it (flag).                                     *)
(***************************************************************************)
\* The rows of an operand: both halves of a combination have half of them.
OperandRows(i) == IF i.op = "Combine" THEN i.n \div 2 ELSE i.n

Placed(at, rows) == {at + r : r \in rows}

X86MaskOf(i, a, b) ==
  CASE i.op = "None"    -> a
    [] i.op = "Not"     -> KNot(i.n, a)
    [] i.op = "Under"   -> KUnder(a, b)
    [] i.op = "Combine" -> KCombine(i.n, a, b)
    [] i.op \in {"And", "Or", "Xor", "AndNot", "XNor"} -> KBinary(i.op, i.n, a, b)

OnX86Masks(i, left, right, at, old) ==
  LET source(rows) == CASE i.from = "loaded"   -> KLoad(OperandRows(i), at, old \union Placed(at, rows))
                        [] i.from = "compared" -> rows
                        [] i.from = "splat"    -> KSplat(OperandRows(i), rows # {})
      m == X86MaskOf(i, source(left), source(right))
  IN  CASE i.flag = "Count"  -> KCount(m)
        [] i.flag = "Store"  -> KStore(i.n, at, m, old)
        [] i.flag = "Select" -> [r \in 0 .. i.n - 1 |-> Blend(m, r, "first", "second")]
        [] i.flag = "Rows"   -> m
        [] i.flag \in {"And", "Or", "Xor"} -> KReduce(i.flag, i.n, m)

ArmMaskOf(i, a, b) ==
  CASE i.op = "None"    -> a
    [] i.op = "Not"     -> MaskNot(i.n, a)
    [] i.op = "Combine" -> MaskCombine(i.n, a, b)
    [] i.op \in {"And", "Or", "Xor", "AndNot", "XNor"} -> MaskBinary(i.op, a, b)

OnArmMasks(i, left, right, at, old) ==
  LET rows == OperandRows(i)
      compared(s) == MaskOf(NaturalSize(rows), s)
      a == IF i.from = "compared" THEN compared(left) ELSE LoadMask(rows, left)
      b == IF i.from = "loaded" THEN LoadMask(rows, right) ELSE compared(right)
      m == ArmMaskOf(i, a, b)
  IN  CASE i.flag = "Count"  -> MaskCount(i.n, m)
        [] i.flag = "Store"  -> StoreMask(i.n, m)
        [] i.flag = "Select" -> SelectsWhole(i.n, Size(i.t), m, i.const)
        [] i.flag = "Rows"   -> IF i.const THEN SelectedRows(i.n, Held(Size(i.t), CondStoreBytes(Size(i.t), m)))
                                ELSE PackRows(i.n, Size(i.t), m)
        [] i.flag \in {"And", "Or", "Xor"} -> MaskReduce(i.flag, i.n, m)

AvxMaskOf(i, a, b) ==
  CASE i.op = "None"    -> a
    [] i.op = "Not"     -> CppX86Not(i.n, a)
    [] i.op = "Combine" -> CppX86Combine(i.n, a, b)
    [] i.op \in {"And", "Or", "Xor", "AndNot", "XNor"} -> CppX86MaskBinary(i.op, i.n, a, b)

OnAvxMasks(i, left, right, at, old) ==
  LET m == AvxMaskOf(i, left, right)
  IN  CASE i.flag = "Count"  -> CppX86Count(i.n, m)
        [] i.flag = "Store"  -> CppX86StoreMask(i.n, at, m, old)
        [] i.flag = "Select" -> [r \in 0 .. i.n - 1 |-> IF r \in m THEN "first" ELSE "second"]
        [] i.flag = "Rows"   -> m
        [] i.flag \in {"And", "Or", "Xor"} -> CppX86MaskReduce(i.flag, i.n, m)

NeonMaskOf(i, a, b) ==
  CASE i.op = "None"    -> a
    [] i.op = "Not"     -> CppNeonNot(a)
    [] i.op = "Combine" -> CppNeonCombine(i.n, a, b)
    [] i.op \in {"And", "Or", "Xor", "AndNot", "XNor"} -> CppNeonMaskBinary(i.op, a, b)

OnNeonMasks(i, left, right, at, old) ==
  LET rows == OperandRows(i)
      m == NeonMaskOf(i, CppNeonLoadMask(rows, left), CppNeonLoadMask(rows, right))
      chosen == CppNeonSelected(i.n, Size(i.t), m)
  IN  CASE i.flag = "Count"  -> CppNeonCount(m)
        [] i.flag = "Store"  -> CppNeonStoreMask(i.n, at, m, old)
        [] i.flag = "Select" -> [r \in 0 .. i.n - 1 |-> IF r \in chosen THEN "first" ELSE "second"]
        [] i.flag = "Rows"   -> chosen
        [] i.flag \in {"And", "Or", "Xor"} -> CppNeonMaskReduce(i.flag, i.n, m)

LlvmMaskOf(i, a, b) ==
  CASE i.op = "None"    -> a
    [] i.op = "Not"     -> LlvmMaskNot(i.n, a)
    [] i.op = "Combine" -> LlvmCombine(i.n, a, b)
    [] i.op \in {"And", "Or", "Xor", "AndNot", "XNor"} -> LlvmMaskBinary(i.op, i.n, a, b)

OnLlvmMasks(i, left, right, at, old) ==
  LET source(rows) == IF i.from = "loaded" THEN LlvmLoadMask(OperandRows(i), at, old \union Placed(at, rows)) ELSE rows
      m == LlvmMaskOf(i, source(left), source(right))
  IN  CASE i.flag = "Count"  -> LlvmCountMask(i.n, m)
        [] i.flag = "Store"  -> LlvmStoreMask(i.n, at, m, old)
        [] i.flag = "Select" -> [r \in 0 .. i.n - 1 |-> LlvmSelect(Bool(r \in m), "first", "second")]
        [] i.flag = "Rows"   -> m
        [] i.flag \in {"And", "Or", "Xor"} -> LlvmMaskReduce(i.flag, i.n, m)

EmittedMask(machine, i, left, right, at, old) ==
  CASE machine = "x86 lanes"  -> OnX86Masks(i, left, right, at, old)
    [] machine = "arm lanes"  -> OnArmMasks(i, left, right, at, old)
    [] machine = "avx lanes"  -> OnAvxMasks(i, left, right, at, old)
    [] machine = "neon lanes" -> OnNeonMasks(i, left, right, at, old)
    [] machine = "llvm lanes" -> OnLlvmMasks(i, left, right, at, old)

(***************************************************************************)
(* Floats. flag "left" or "other": a lane under a mask z, merged with the    *)
(* left operand or with another value.                                      *)
(***************************************************************************)
FloatOnX86(i, x, y) ==
  CASE i.kind = "FloatBinary"  -> X86FloatBinary(i.op, x, y)
    [] i.kind = "FloatUnary"   -> X86ScalarFloatUnary(i.op, x)
    [] i.kind = "FloatCompare" -> Bool(X86FloatCompare(i.op, x, y))
    [] i.kind = "FloatSelect"  -> X86FloatSelect(X86FloatCompare(i.op, x, y), x, y)
    [] i.kind = "Fpclass"      -> Bool(X86Fpclass(i.op, x))
    [] i.kind \in {"ToFloat", "FromFloat"} -> X86ScalarFloatCast(i.kind = "ToFloat", Unsigned(i), x)

FloatOnArm(i, x, y) ==
  CASE i.kind = "FloatBinary"  -> ArmFloatBinary(i.op, x, y)
    [] i.kind = "FloatUnary"   -> ArmFloatUnary(i.op, x)
    [] i.kind = "FloatCompare" -> Bool(ArmFloatCompare(i.op, x, IF i.const THEN 0 ELSE y))
    [] i.kind = "FloatSelect"  -> ArmFloatSelect(i.op, x, y)
    [] i.kind = "Fpclass"      -> Bool(ArmFpclass(i.op, x))
    [] i.kind \in {"ToFloat", "FromFloat"} -> ArmFloatCast(i.kind = "ToFloat", Unsigned(i), x)

FloatOnCpp(i, x, y) ==
  CASE i.kind = "FloatBinary"  -> CppFloatBinary(i.op, x, y)
    [] i.kind = "FloatUnary"   -> CppFloatUnary(i.op, x)
    [] i.kind = "FloatCompare" -> Bool(CppFloatCompare(i.op, x, y))
    [] i.kind = "FloatSelect"  -> IF CppFloatCompare(i.op, x, y) THEN x ELSE y
    [] i.kind = "Fpclass"      -> Bool(CppFpclass(i.op, x))
    [] i.kind \in {"ToFloat", "FromFloat"} -> CppFloatCast(i.kind = "ToFloat", Unsigned(i), x)

FloatOnLlvm(i, x, y) ==
  CASE i.kind = "FloatBinary"  -> LlvmFloatBinary(i.op, x, y)
    [] i.kind = "FloatUnary"   -> LlvmFloatUnary(i.op, x)
    [] i.kind = "FloatCompare" -> Bool(LlvmFloatCompare(i.op, x, y))
    [] i.kind = "FloatSelect"  -> LlvmSelect(Bool(LlvmFloatCompare(i.op, x, y)), x, y)
    [] i.kind = "Fpclass"      -> Bool(LlvmFpclass(i.op, x))
    [] i.kind \in {"ToFloat", "FromFloat"} -> LlvmFloatCast(i.kind = "ToFloat", Unsigned(i), x)

\* The registers subexpr_internal gives a binary step: a fresh one or, where the mask or
\* an accumulator allows it, that of the left operand.
FloatOnX86Lanes(i, x, y, z) ==
  LET given(result) == X86VecFloatBinary(i.op, i.flag, z, x, y, result)
  IN
  CASE i.kind = "FloatBinary"  -> IF i.flag = "other" \/ given("left") = given("new") THEN given("new") ELSE Undefined
    [] i.kind = "FloatUnary"   -> FloatRounded(i.op, x)
    [] i.kind = "FloatCompare" -> IF X86VecFloatCompare(i.op, x, y, TRUE) = X86VecFloatCompare(i.op, x, y, FALSE)
                                  THEN Bool(X86VecFloatCompare(i.op, x, y, FALSE)) ELSE Undefined
    [] i.kind = "Fpclass"      -> Bool(X86Fpclass(i.op, x))
    [] i.kind = "ToFloat"      -> X86IntToFloat(Unsigned(i), x)
    [] i.kind = "FromFloat"    -> X86FloatToInt(Unsigned(i), x)

FloatOnArmLanes(i, x, y) ==
  CASE i.kind = "FloatCompare" -> Bool(ArmVecFloatCompare(i.op, x, y, i.const))
    [] i.kind = "Fpclass"      -> Bool(ArmVecFpclass(i.op, x))
    [] i.kind \notin {"FloatCompare", "Fpclass"} -> FloatOnArm(i, x, y)

FloatOnAvxLanes(i, x, y, z) ==
  CASE i.kind = "FloatBinary"  -> CppX86FloatBinary(i.op, i.flag, z, x, y)
    [] i.kind = "FloatUnary"   -> FloatRounded(i.op, x)
    [] i.kind = "FloatCompare" -> Bool(CppX86FloatCompare(i.op, x, y))
    [] i.kind = "Fpclass"      -> Bool(CppX86Fpclass(i.op, x))
    [] i.kind = "ToFloat"      -> X86IntToFloat(Unsigned(i), x)
    [] i.kind = "FromFloat"    -> X86FloatToInt(Unsigned(i), x)

FloatOnNeonLanes(i, x, y) ==
  CASE i.kind = "FloatBinary"  -> ArmFloatBinary(i.op, x, y)
    [] i.kind = "FloatUnary"   -> ArmFloatUnary(i.op, x)
    [] i.kind = "FloatCompare" -> Bool(CppNeonFloatCompare(i.op, x, y))
    [] i.kind = "Fpclass"      -> Bool(CppNeonFpclass(i.op, x))
    [] i.kind \in {"ToFloat", "FromFloat"} -> CppNeonFloatCast(i.kind = "ToFloat", Unsigned(i), x)

EmittedFloat(machine, i, x, y, z) ==
  CASE machine = "x86"  -> FloatOnX86(i, x, y)
    [] machine = "arm"  -> FloatOnArm(i, x, y)
    [] machine = "c++"  -> FloatOnCpp(i, x, y)
    [] machine \in {"llvm", "llvm lanes"} -> FloatOnLlvm(i, x, y)
    [] machine = "x86 lanes"  -> FloatOnX86Lanes(i, x, y, z)
    [] machine = "arm lanes"  -> FloatOnArmLanes(i, x, y)
    [] machine = "avx lanes"  -> FloatOnAvxLanes(i, x, y, z)
    [] machine = "neon lanes" -> FloatOnNeonLanes(i, x, y)

\* The least or the greatest of the rows of an array, one row a lane: every lane of
\* the accumulator begins with an infinity, takes its row, and the lanes are reduced.
\* A NaN never gets into a lane, which is what lets ARM reduce by fminv.
FloatIdentity(op) == IF op = "Min" THEN Infinity("F32") ELSE Infinity("F32") + SignBit("F32")

RowTaken(machine, op, x) ==
  CASE machine = "x86 lanes" -> X86VecFloatBinary(op, "No", 1, FloatIdentity(op), x, "left")
    [] machine = "avx lanes" -> CppX86FloatBinary(op, "No", 1, FloatIdentity(op), x)
    [] machine \in {"arm lanes", "neon lanes"} -> ArmFloatBinary(op, FloatIdentity(op), x)
    [] machine = "llvm lanes" -> LlvmFloatBinary(op, FloatIdentity(op), x)

EmittedFloatReduction(machine, i, v) ==
  CASE machine = "x86 lanes"  -> X86FloatReduce(i.op, v, i.n)
    [] machine = "arm lanes"  -> ArmFloatReduce(i.op, v, i.n)
    [] machine = "avx lanes"  -> CppX86FloatReduce(i.op, v, i.n)
    [] machine = "neon lanes" -> CppNeonFloatReduce(i.op, v, i.n)
    [] machine = "llvm lanes" -> LlvmFloatReduce(i.op, v, i.n)

(***************************************************************************)
(* What the step means.                                                     *)
(***************************************************************************)
\* A count is taken modulo the width.
MeantScalar(machine, i, x, y, z) ==
  LET binary == Step("ArithBinary", i.t, i.op, "ShiftWraparound", <<>>, <<>>)
  IN  CASE i.kind = "Unary"    -> UnaryInt(i.op, i.t, x)
        [] i.kind = "Cast"     -> Cast(i.op, i.from, i.t, x)
        [] i.kind = "Compare"  -> Result(Step("Compare", "I1", i.op, i.flag, <<>>, <<>>), <<i.t, i.t>>, <<x, y>>, <<>>)
        [] i.kind = "Select"   -> IF z = 1 THEN x ELSE IF i.const /\ machine = "avx lanes" THEN 0 ELSE y
        [] i.kind = "Increment" -> IF z = 1 THEN Wrap(x + 1, i.t) ELSE x
        [] i.kind = "Overflow" -> [value  |-> ArithInt(i.op, "No", i.t, x, y),
                                   raised |-> z = 1 /\ Faults(binary, <<i.t, i.t>>, <<x, y>>)]
        [] i.kind = "Permute"  -> Permuted(ByteOrder(i.op, i.t), i.t, x)
        [] OTHER               -> ArithInt(i.op, "ShiftWraparound", i.t, x, y)

MeantReduction(i, v) ==
  LET upTo[k \in 1 .. i.n] == IF k = 1 THEN v[1] ELSE ArithInt(i.op, "No", i.t, upTo[k - 1], v[k]) IN upTo[i.n]

MeantRows(i, left, right) ==
  CASE i.op = "None"    -> left
    [] i.op = "Not"     -> (0 .. i.n - 1) \ left
    [] i.op \in {"And", "Under"} -> left \intersect right
    [] i.op = "Combine" -> left \union {r + i.n \div 2 : r \in right}
    [] i.op \in {"Or", "Xor", "AndNot", "XNor"} ->
         {r \in 0 .. i.n - 1 : Logic(i.op, r \in left, r \in right)}

MeantFloat(i, x, y, z) ==
  CASE i.kind = "FloatUnary"   -> FloatUnary(i.op, x)
    [] i.kind = "FloatCompare" -> Bool(FloatCompared(i.op, x, IF i.const THEN 0 ELSE y))
    [] i.kind = "FloatSelect"  -> IF FloatCompared(i.op, x, y) THEN x ELSE y
    [] i.kind = "Fpclass"      -> Bool(Fpclass(i.op, x))
    [] i.kind = "ToFloat"      -> FloatOf(Unsigned(i), x)
    [] i.kind = "FromFloat"    -> IntOf(x)
    [] i.kind = "FloatBinary"  ->
         IF i.flag # "No" /\ z = 0 THEN IF i.flag = "left" THEN x ELSE 0
         ELSE IF i.op \in {"Min", "Max"} THEN FloatChosen(i.op, x, y) ELSE FloatBits(i.op, x, y)

MeantFloatReduction(i, rows) ==
  LET upTo[k \in 0 .. i.n] == IF k = 0 THEN FloatIdentity(i.op) ELSE FloatChosen(i.op, upTo[k - 1], rows[k])
  IN  upTo[i.n]

\* Which of two zeros is chosen is open, and so are the bits of a NaN.
SameFloat(x, y) == x = y \/ (IsZero(x) /\ IsZero(y)) \/ (NotANumber(x) /\ NotANumber(y))
SameResult(i, x, y) ==
  IF i.op \in {"Min", "Max"} \/ i.kind = "FloatSelect" THEN SameFloat(x, y)
  ELSE x = y \/ (i.kind = "FloatUnary" /\ i.op # "Not" /\ NotANumber(x) /\ NotANumber(y))

\* A store writes the bits of its rows and leaves the others of the byte.
MeantMask(i, left, right, at, old) ==
  LET rows == MeantRows(i, left, right)
      n == Cardinality(rows)
  IN  CASE i.flag = "Count"  -> n
        [] i.flag = "Store"  -> Placed(at, rows) \union (old \ Placed(at, 0 .. i.n - 1))
        [] i.flag = "Select" -> [r \in 0 .. i.n - 1 |-> IF r \in rows THEN "first" ELSE "second"]
        [] i.flag = "Rows"   -> rows
        [] i.flag = "And"    -> n = i.n
        [] i.flag = "Or"     -> n > 0
        [] i.flag = "Xor"    -> n % 2 = 1
=============================================================================

------------------------------ MODULE MirChecks ------------------------------
(* The safety checks of a checked operation, and the lowering of one row.     *)
(*                                                                           *)
(* A checked operation reports that it overflowed through a flag. The vector *)
(* code computes the flag of every lane from the operands and the result, in *)
(* another way on each target; the scalar code asks the processor. A mask    *)
(* leaves rows out of the check.                                             *)
EXTENDS MirLowering

CONSTANTS
  Operations,        \* the operations the instance lowers
  Rows               \* the rows it reads for an operation: <<left, right>>

VARIABLES
  target,            \* the architecture of the main loop, or "scalar", the remainder of them all
  checked,           \* what the program asks: "no", "checked" or "masked"
  oper,              \* the operation
  row,               \* the operands and whether the mask selects the row
  lowered            \* what the code computes: [value, raised]

vars == <<target, checked, oper, row, lowered>>

(***************************************************************************)
(* Vector checks.                                                           *)
(***************************************************************************)
Negative(v, t) == Signed(v, t) < 0
SignBit(v, t) == Bit(v, Width(t) - 1)

\* The sign bit of a vpternlog.
SignTable(table, t, a, b, c) == TableBit(table, SignBit(a, t), SignBit(b, t), SignBit(c, t)) = 1

OutOf(t, v) == v \notin IntMin(t) .. -IntMin(t) - 1

\* Mutant: the table of the subtraction.
AdditionFlagSwapped(arch, t, x, y, z) ==
  IF X86(arch) THEN SignTable(144, t, x, y, z) ELSE (Signed(z, t) < Signed(x, t)) # Negative(y, t)

\* add_vec_addition_overflow_check
AdditionFlag(arch, t, x, y, z) ==
  IF X86(arch) THEN SignTable(66, t, x, y, z)                       \* 0x42
  ELSE (Signed(z, t) < Signed(x, t)) # Negative(y, t)

\* add_vec_subtraction_overflow_check
SubtractionFlag(arch, t, x, y, z) ==
  IF X86(arch) THEN SignTable(144, t, x, y, z)                      \* 0x90
  ELSE (Signed(z, t) > Signed(x, t)) # Negative(y, t)

\* A product of small lanes is computed in the wider type; of wide lanes, the
\* leading zeros of the operands bound it.
ProductFlag(t, x, y) ==
  LET zeros(v) == UnaryInt("Lzcnt", t, UnaryInt("Abs", t, v))
  IN  IF t \in {"I8", "I16"}
      THEN OutOf(t, Signed(Wrap(Signed(x, t) * Signed(y, t), Wider(t)), Wider(t)))
      ELSE zeros(x) + zeros(y) < Width(t) + 1

\* checked_vec_cast_overflow_condition: every step of the truncation is checked.
\* A chain of halvings runs on into the truncation that made its operand.
CastFlag(arch, o, x) ==
  LET own == NarrowingSteps(arch, o.from, o.t)
      before == IF o.flag = "twice" /\ VecRange(arch) = 0 THEN <<o.from>> ELSE <<>>
      steps == before \o own
      start == IF before # <<>> THEN Wider(o.from) ELSE o.from
      type(k) == IF k = 1 THEN start ELSE steps[k - 1]
      value[k \in DOMAIN steps] == IF k = 1 THEN Wrap(x, start) ELSE Wrap(value[k - 1], steps[k - 1])
  IN  \E k \in DOMAIN steps : OutOf(steps[k], Signed(value[k], type(k)))

VecFlag(arch, o, x, y, z, active) ==
  CASE o.kind = "ArithUnary" -> x = Wrap(IntMin(o.t), o.t) /\ active
    [] o.kind = "IntCast"    -> CastFlag(arch, o, x) /\ active
    [] o.op = "Add"          -> AdditionFlag(arch, o.t, x, y, z) /\ active
    [] o.op = "Sub"          -> SubtractionFlag(arch, o.t, x, y, z) /\ active
    [] o.op = "Mul"          -> ProductFlag(o.t, x, y) /\ active
    [] o.op \in ShiftOps     -> y > Width(o.t) - 1              \* the mask is not asked
    [] o.op \in DivisionOps  -> InvalidDivision(o.op, o.t, x, y) /\ active

(***************************************************************************)
(* Scalar checks.                                                           *)
(***************************************************************************)
\* seto after the instruction (b.vs on ARM); a small product is computed as an I32.
ScalarFlag(o, x, y, active) ==
  LET sx == Signed(x, o.from)
      sy == Signed(y, o.t)
  IN  /\ active
      /\ CASE o.kind = "ArithUnary" -> x = Wrap(IntMin(o.t), o.t)
           [] o.kind = "IntCast"    -> OutOf(o.t, sx)
           [] o.op = "Add"          -> OutOf(o.t, sx + sy)
           [] o.op = "Sub"          -> OutOf(o.t, sx - sy)
           [] o.op = "Mul"          -> OutOf(o.t, sx * sy)
           [] o.op \in ShiftOps     -> y > Width(o.t) - 1
           [] o.op \in DivisionOps  -> InvalidDivision(o.op, o.t, x, y)

(***************************************************************************)
(* The lowering of a row. The operand of a second truncation is what the    *)
(* first left of it.                                                        *)
(***************************************************************************)
Operand(o, x) == IF o.flag = "twice" THEN Wrap(x, o.from) ELSE x

VecValue(arch, o, x, y) ==
  CASE o.kind = "ArithBinary" -> VecBinary(arch, o, x, y)
    [] o.kind = "ArithUnary"  -> VecUnary(arch, o.op, o.t, x)
    [] o.kind = "IntCast"     -> Wrap(x, o.t)

\* A checked small product is what make_small_vec_mul_with_overflow_check combines.
CheckedVecValue(arch, o, x, y) ==
  CASE o.kind = "ArithBinary" /\ o.op = "Mul" /\ o.t \in {"I8", "I16"} -> Wrap(Signed(x, o.t) * Signed(y, o.t), o.t)
    [] o.kind = "ArithBinary" /\ o.op \notin DivisionOps \union {"Mul"} -> VecArith(arch, o.op, o.t, x, y)
    [] OTHER -> VecValue(arch, o, x, y)

\* A checked division always guards its divisor.
ScalarValue(o, isChecked, x, y) ==
  LET asked == IF isChecked /\ o.op \in DivisionOps THEN [o EXCEPT !.flag = "SafeDivision"] ELSE o
  IN  CASE o.kind = "ArithBinary" -> ScalarBinary(asked, x, y)
        [] o.kind = "ArithUnary"  -> UnaryInt(o.op, o.t, x)
        [] o.kind = "IntCast"     -> Wrap(x, o.t)

Init ==
  /\ target \in Archs \union {"scalar"}
  /\ oper \in Operations
  /\ checked \in IF oper.flag \in {"No", "twice"} /\ (oper.kind = "ArithUnary" => oper.op \in {"Negate", "Abs"})
                   /\ (oper.kind = "ArithBinary" => oper.op \in {"Add", "Sub", "Mul"} \union ShiftOps \union DivisionOps)
                THEN {"no", "checked", "masked"} ELSE {"no"}
  /\ row = <<>>
  /\ lowered = <<>>

\* Whether the check asks for the row.
Selected(active) == checked = "masked" => active

LowerVector(x, y, active) ==
  LET operand == Operand(oper, x)
      value == IF checked = "no" THEN VecValue(target, oper, operand, y) ELSE CheckedVecValue(target, oper, operand, y)
  IN  /\ target # "scalar"
      /\ \E z \in {value} :
           lowered' = [value |-> z,
                       raised |-> checked # "no" /\ z # Unsupported
                                  /\ VecFlag(target, oper, x, y, z, Selected(active))]

LowerScalar(x, y, active) ==
  /\ target = "scalar"
  /\ lowered' = [value |-> ScalarValue(oper, checked # "no", x, y),
                 raised |-> checked # "no" /\ ScalarFlag(oper, x, y, Selected(active))]

Next ==
  /\ row = <<>>
  /\ \E r \in Rows[oper], active \in (IF checked = "masked" THEN BOOLEAN ELSE {TRUE}) :
       /\ row' = <<r[1], r[2], active>>
       /\ UNCHANGED <<target, checked, oper>>
       /\ \/ LowerVector(r[1], r[2], active)
          \/ LowerScalar(Operand(oper, r[1]), r[2], active)

Spec == Init /\ [][Next]_vars

(***************************************************************************)
(* What the lowering promises.                                              *)
(***************************************************************************)
Source == Step(oper.kind, oper.t, oper.op, oper.flag, <<>>, <<>>)
Values == <<Operand(oper, row[1]), row[2]>>
Types == <<oper.from, oper.t>>

\* A count that is not below the width, and an invalid divisor, mean something
\* only where the program asks for it: by ShiftWraparound, by SafeDivision, or
\* by a check that guards the divisor.
Specified ==
  oper.kind = "ArithBinary" =>
    /\ oper.op \in ShiftOps => oper.flag = "ShiftWraparound" \/ row[2] < Width(oper.t)
    /\ oper.op \in DivisionOps =>
         oper.flag = "SafeDivision" \/ checked # "no" \/ ~Faults(Source, Types, Values)

Lowered == row # <<>> /\ lowered.value # Unsupported

\* Whatever instructions stand for an operation on a target, in the main loop and
\* in the remainder, in bytes and in words, by a constant or not, a row computes
\* what the high-level step means: division by magic multiplication, shifts of
\* bytes by bit matrices, rotations by two shifts, counts by smearing.
LoweringKeepsValue ==
  Lowered /\ Specified => lowered.value = Result(Source, Types, Values, <<>>)

\* The checks the lowering means to be exact: wide products are bounded by their
\* leading zeros, shift counts are checked in unselected lanes too, NEON checks
\* the truncation below, and see SubtractionReportsOverflow.
Exact ==
  target = "scalar" \/
    /\ ~(oper.op = "Mul" /\ oper.t \notin {"I8", "I16"})
    /\ ~(oper.op \in ShiftOps /\ checked = "masked")
    /\ ~(oper.flag = "twice" /\ VecRange(target) = 0)
    /\ ~(oper.op = "Sub" /\ X86(target))

\* A checked operation raises its flag in exactly the rows that its mask selects
\* and in which the mathematical result does not fit; a check that is not exact
\* may report too much and never too little.
ReportsOverflow ==
  LET faults == Selected(row[3]) /\ Faults(Source, Types, Values)
  IN  Lowered /\ checked # "no" /\ ~(oper.op = "Sub" /\ target # "scalar" /\ X86(target)) =>
        /\ faults => lowered.raised
        /\ lowered.raised /\ Exact => faults

\* The same of a checked subtraction, on every target: what the integration
\* tests assert of the overflow byte of a checked operation.
SubtractionReportsOverflow ==
  Lowered /\ checked # "no" /\ oper.op = "Sub" =>
    (lowered.raised <=> Selected(row[3]) /\ Faults(Source, Types, Values))
=============================================================================

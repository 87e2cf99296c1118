---------------------------- MODULE MCMirKernel ----------------------------
(* MirKernel on a machine with bytes of 2 bits (an i16 has 4, an i64 16), one *)
(* aggregate or check at a time, on every table of up to nine rows of two     *)
(* values: none, one and two passes of the main loop, and none to three of    *)
(* the remainder.                                                            *)
EXTENDS MirKernel

ShapeOf(x86, vector, lanes, copies, split) ==
  [x86 |-> x86, vector |-> vector, lanes |-> lanes, copies |-> copies, split |-> split]

X86Split == ShapeOf(TRUE, TRUE, 2, 2, TRUE)
X86Shared == ShapeOf(TRUE, TRUE, 2, 2, FALSE)
ArmSplit == ShapeOf(FALSE, TRUE, 2, 2, TRUE)
ArmFour == ShapeOf(FALSE, TRUE, 1, 4, TRUE)
X86Bytes == ShapeOf(TRUE, TRUE, 4, 1, FALSE)
Scalar(x86) == ShapeOf(x86, FALSE, 1, 1, FALSE)

Program(agg, op, t, cond, check, s) ==
  [agg |-> agg, op |-> op, t |-> t, cond |-> cond, check |-> check,
   x86 |-> s.x86, vector |-> s.vector, lanes |-> s.lanes, copies |-> s.copies, split |-> s.split]

SmallPrograms ==
  {Program("Arith", op, "I16", FALSE, "none", X86Split) : op \in AggOps}
  \union {Program("Arith", op, "I16", TRUE, "none", X86Split) : op \in {"Add", "Min", "Mul", "AndNot"}}
  \union {Program("Arith", op, "I8", FALSE, "none", X86Bytes) : op \in AggOps \ {"Or", "UMin"}}
  \union {Program("Arith", op, "I32", FALSE, "none", s) :
            op \in {"Add", "Max"}, s \in {X86Shared, ArmFour, Scalar(FALSE)}}
CountPrograms ==
  {Program("Countif", "Add", "I32", TRUE, "none", s) : s \in {X86Split, ArmSplit, Scalar(TRUE)}}
PredicatePrograms ==
  {Program("Predicate", op, "I8", FALSE, "none", s) : op \in {"And", "Or", "Xor", "AndNot"}, s \in {X86Split, ArmFour}}
SumPrograms == {Program("Sum128", "Add", "I64", FALSE, "none", s) : s \in {X86Split, ArmSplit, Scalar(TRUE)}}
PackPrograms ==
  {Program("Pack", "", "I32", TRUE, "none", s) : s \in {X86Split, Scalar(FALSE)}}
CheckPrograms ==
  {Program("Countif", "Add", "I32", FALSE, check, s) : check \in {"mask", "mul"}, s \in {X86Split, ArmSplit}}
  \union {Program("Countif", "Add", "I32", FALSE, "sign", s) : s \in {X86Split, Scalar(TRUE)}}
  \union {Program("Pack", "", "I32", FALSE, "mask", X86Split)}

AllPrograms ==
  UNION {SmallPrograms, CountPrograms, PredicatePrograms, SumPrograms, PackPrograms, CheckPrograms}

Values(p) ==
  CASE p.check # "none"      -> {1}
    [] p.agg = "Countif"     -> {1}
    [] p.agg = "Predicate"   -> {0, 1}
    [] p.agg = "Sum128"      -> {Modulus("I64") \div 2 - 1, AllOnes("I64")}
    [] OTHER                 -> {1, AllOnes(p.t) - 1}

\* A sign is read from lanes whose other bits say nothing.
Checks(p) ==
  CASE p.check = "none" -> {0}
    [] p.check = "mask" -> {0, 1}
    [] p.check = "sign" -> {1, AllOnes("I8") - 1}
    [] p.check = "mul"  -> {Width("I8"), Width("I8") + 1}

RowSet(p) ==
  [x : Values(p), active : IF p.cond THEN BOOLEAN ELSE {TRUE}, check : Checks(p)]

\* Conditional values and bitwise operators take shorter tables: one pass and a remainder.
MaxRows(p) == IF Cardinality(RowSet(p)) > 2 \/ p.op \in {"And", "Or", "Xor", "AndNot"} THEN 5 ELSE 9

Tables(p) == UNION {[1 .. n -> RowSet(p)] : n \in 0 .. MaxRows(p)}

AllTables == [p \in AllPrograms |-> Tables(p)]
=============================================================================

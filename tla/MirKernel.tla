----------------------------- MODULE MirKernel -----------------------------
(* A compiled kernel: prologue, main loop over blocks of vectors, remainder   *)
(* loop, epilogue; and the accumulators of one aggregate and of one safety    *)
(* check in them.                                                            *)
(*                                                                           *)
(* A block of the main loop is copies vectors of lanes rows. Under AccSplit   *)
(* every copy has an accumulator of its own; the remainder has another, and   *)
(* the epilogue collapses them. What x86 initialises late, because the main   *)
(* loop does not need it, holds anything until then.                         *)
EXTENDS MirLowering

CONSTANTS
  Programs,          \* RowFold's, with [x86, vector, lanes, copies, split]
  Inputs             \* the tables of every program

VARIABLES
  program,
  rows,              \* the table
  pc,                \* where the kernel is
  counter,           \* the row it reads next
  main,              \* accumulators of the main loop, by copy and lane
  rest,              \* accumulator of the remainder; the only one of a pack
  vecFlags,          \* overflow accumulators of the main loop, by copy and lane
  scalarFlag,        \* overflow accumulator of the remainder
  packed,            \* the memory a pack writes
  result             \* what the epilogue stores

\* The operators of aggregates (check_arith_agg_op, check_predicate_agg_op).
AggOps == {"Add", "Mul", "Min", "Max", "UMin", "UMax", "And", "Or", "Xor", "AndNot"}
PredicateAggOps == {"And", "Or", "Xor", "AndNot"}

\* Small lanes are reduced in the two or four registers they are widened to.
FewestLanes(t) == CASE t = "I8" -> 4 [] t = "I16" -> 2 [] t \in {"I32", "I64"} -> 1

\* A program: lanes are a power of two, and copies as many as the vectorizer
\* unrolls. The lowering ignores the condition of a 128-bit sum (mir.cpp:2270,
\* 2887) and, in the remainder, that of a product of bytes (2855): such a program
\* is not one of those that the kernel implements.
IsProgram(p) ==
  /\ {p.cond, p.x86, p.vector, p.split} \subseteq BOOLEAN
  /\ p.copies \in 1 .. Modulus("I64")
  /\ \E e \in Positions : p.lanes = 2 ^ e
  /\ p.check \in {"none", "mask", "sign", "mul"}
  /\ \/ /\ p.agg = "Arith" /\ p.op \in AggOps /\ p.t \in IntTypes
        /\ p.vector => p.lanes >= FewestLanes(p.t)
        /\ ~(p.cond /\ p.t = "I8" /\ p.op = "Mul")
     \/ p.agg = "Countif" /\ p.t \in IntTypes
     \/ p.agg = "Predicate" /\ p.op \in PredicateAggOps /\ ~p.cond
     \/ p.agg = "Sum128" /\ ~p.cond
     \/ p.agg = "Pack"

\* The rows of its tables. A row without a condition is active.
TableRow(p) ==
  [x : CASE p.agg = "Arith" -> 0 .. AllOnes(p.t)
         [] p.agg = "Predicate" -> {0, 1}
         [] p.agg = "Sum128" -> 0 .. AllOnes("I64")
         [] p.agg \in {"Countif", "Pack"} -> Int,
   active : IF p.cond THEN BOOLEAN ELSE {TRUE},
   check : CASE p.check = "sign" -> 0 .. AllOnes("I8")
             [] p.check = "mask" -> {0, 1}
             [] p.check \in {"none", "mul"} -> Nat]

ASSUME ProgramsAssumption == \A p \in Programs : IsProgram(p)

\* A table has fewer rows than a 64-bit integer counts.
ASSUME InputsAssumption ==
  \A p \in Programs : \A table \in Inputs[p] : table \in Seq(TableRow(p)) /\ Len(table) < Modulus("I64")

\* Powers of two, up to the widest type: the provers know nothing of ^.
ASSUME PowersAssumption ==
  2 ^ 0 = 1 /\ \A n \in 0 .. 8 * Byte : 2 ^ n \in Nat /\ 2 ^ (n + 1) = 2 * 2 ^ n

vars == <<program, rows, pc, counter, main, rest, vecFlags, scalarFlag, packed, result>>
accs == <<main, rest, vecFlags, scalarFlag, packed>>

Arch(p) == IF p.x86 THEN "YMM" ELSE "NEON"
LoopWidth(p) == p.lanes * p.copies
Residues(t) == 0 .. AllOnes(t)
Seq1(n, v) == [i \in 1 .. n |-> v]

(***************************************************************************)
(* The operators of the accumulators.                                       *)
(***************************************************************************)
\* agg_acc_init_value
AggInit(p) ==
  CASE p.agg = "Countif" -> 0
    [] p.agg = "Predicate" -> IF p.op \in {"AndNot", "And"} THEN 1 ELSE 0
    [] p.agg = "Arith" ->
         CASE p.op \in {"UMax", "Xor", "Or", "Add"} -> 0
           [] p.op = "Mul" -> 1
           [] p.op \in {"AndNot", "UMin", "And"} -> AllOnes(p.t)
           [] p.op = "Min" -> AllOnes(p.t) \div 2
           [] p.op = "Max" -> Modulus(p.t) \div 2

\* acc_init_value, of the accumulator and of the overflow accumulator of a check.
AccInit(p) == CASE p.agg = "Sum128" -> <<0, 0>> [] p.agg = "Pack" -> 0 [] OTHER -> AggInit(p)
FlagInit(p) == IF p.check = "mul" THEN Width("I8") + 1 ELSE 0

\* What a register holds that nothing has written.
Garbage(p) == CASE p.agg = "Sum128" -> <<1, 1>> [] OTHER -> IF AccInit(p) = 0 THEN 1 ELSE 0

\* The operator that combines accumulators.
CombineOp(p) == IF p.agg = "Countif" THEN "Add" ELSE IF p.op = "AndNot" THEN "And" ELSE p.op

\* The accumulator is the left operand of all operators but this one.
Ordered(p, acc, x) == IF p.op = "AndNot" THEN <<x, acc>> ELSE <<acc, x>>

\* One lane of lower_vect_root_step. The two halves of a 128-bit sum carry over.
AddWide(acc, x) ==
  LET low == Wrap(x + acc[1], "I64")
      high == Wrap(Shifted("ShiftRightArith", "I64", x, Width("I64") - 1) + acc[2], "I64")
  IN  <<low, IF low < acc[1] THEN Wrap(high + 1, "I64") ELSE high>>

VecLane(p, acc, row) ==
  LET o == Ordered(p, acc, row.x)
      updated == VecArith(Arch(p), p.op, p.t, o[1], o[2])
  IN  CASE p.agg = "Arith"     -> IF p.cond /\ ~row.active THEN acc ELSE updated
        [] p.agg = "Predicate" -> Bool(Logic(p.op, row.x = 1, acc = 1))
        [] p.agg = "Sum128"    -> AddWide(acc, row.x)

\* A vector of rows into the accumulator of its copy.
VecStep(p, acc, block) ==
  CASE p.agg = "Countif" -> <<Wrap(acc[1] + Cardinality({l \in DOMAIN block : block[l].active}), p.t)>>
    [] p.agg = "Pack" -> <<>>
    [] p.agg \notin {"Countif", "Pack"} -> [l \in DOMAIN block |-> VecLane(p, acc[l], block[l])]

\* _lower_hir_root. A product of bytes is computed as an I32, whatever the condition.
ScalarStep(p, acc, row) ==
  LET o == Ordered(p, acc, row.x)
  IN  CASE p.agg = "Arith" ->
             IF p.t = "I8" /\ p.op = "Mul" THEN SmallScalar(p.op, p.t, o[1], o[2])
             ELSE IF p.cond /\ ~row.active THEN acc
             ELSE ScalarInstr(p.op, p.t, o[1], o[2])
        [] p.agg = "Countif"   -> Wrap(acc + Bool(row.active), p.t)
        [] p.agg = "Predicate" -> Bool(Logic(p.op, row.x = 1, acc = 1))
        [] p.agg = "Sum128"    -> AddWide(acc, row.x)
        [] p.agg = "Pack"      -> acc + Bool(row.active)

\* The flags of a lane, by the kind of the check.
VecFlagStep(p, flag, row) ==
  CASE p.check = "none" -> 0
    [] p.check = "mask" -> IF row.check = 1 THEN 1 ELSE flag
    [] p.check = "sign" -> VecInstr("Or", "I8", flag, row.check)
    [] p.check = "mul"  -> IF row.check < flag THEN row.check ELSE flag

Fault(p, row) ==
  CASE p.check = "none" -> FALSE
    [] p.check = "mask" -> row.check = 1
    [] p.check = "sign" -> Signed(row.check, "I8") < 0
    [] p.check = "mul"  -> row.check < Width("I8") + 1

(***************************************************************************)
(* The epilogue.                                                            *)
(***************************************************************************)
\* fold_arith_accs and fold_predicate_accs: pairs of copies, lane by lane, until
\* one is left; the last of an odd number waits.
FoldPairs(s, op) ==
  [i \in 1 .. (Len(s) + 1) \div 2 |-> IF 2 * i <= Len(s) THEN op[<<s[2 * i - 1], s[2 * i]>>] ELSE s[2 * i - 1]]

Tree(s, op) ==
  LET rounds == CHOOSE k \in Positions : Len(s) <= 2 ^ k
      round[k \in 0 .. rounds] == IF k = 0 THEN s ELSE FoldPairs(round[k - 1], op)
  IN  round[rounds][1]

FoldTree(values, op) ==
  [l \in DOMAIN values[1] |-> Tree([c \in DOMAIN values |-> values[c][l]], op)]

\* vec_reduce of n lanes after the first ones: the upper half onto the lower one.
FoldHalves(s, op) == [i \in 1 .. Len(s) \div 2 |-> op[<<s[i], s[i + Len(s) \div 2]>>]]

Reduce(v, first, n, op) ==
  LET half[k \in 0 .. Log2(n)] == IF k = 0 THEN [i \in 1 .. n |-> v[first + i]] ELSE FoldHalves(half[k - 1], op)
  IN  half[Log2(n)][1]

\* The n lanes of a register to a scalar. widen_lo and widen_hi take small lanes to
\* I32, an I16 in two registers and an I8 in four.
ReduceArith(p, v, n) ==
  LET op == CombineOp(p)
      instr(t) == [z \in Residues(t) \X Residues(t) |-> VecInstr(op, t, z[1], z[2])]
      wide == [l \in 1 .. n |-> Cast(IF op \in {"Min", "Max"} THEN "Sext" ELSE "Zext", p.t, "I32", v[l])]
      both(first, m) == instr("I32")[<<Reduce(wide, first, m, instr("I32")), Reduce(wide, first + m, m, instr("I32"))>>]
  IN  CASE p.t = "I8"  -> Wrap(instr("I32")[<<both(0, n \div 4), both(n \div 2, n \div 4)>>], p.t)
        [] p.t = "I16" -> Wrap(both(0, n \div 2), p.t)
        [] p.t \in {"I32", "I64"} -> Reduce(v, 0, n, instr(p.t))

\* collapse_arith_accs; a count has one scalar per copy.
CollapseArith(p, copies, remainder) ==
  LET op == CombineOp(p)
      lanes == [z \in Residues(p.t) \X Residues(p.t) |-> VecArith(Arch(p), op, p.t, z[1], z[2])]
      folded == FoldTree(copies, lanes)
      vector == IF p.agg = "Countif" THEN folded[1] ELSE ReduceArith(p, folded, p.lanes)
  IN  IF copies = <<>> THEN remainder
      ELSE IF p.t \in {"I8", "I16"} /\ op = "Mul" THEN SmallScalar(op, p.t, vector, remainder)
      ELSE ScalarInstr(op, p.t, vector, remainder)

\* collapse_predicate_accs, with mask_reduce.
CollapsePredicate(p, copies, remainder) ==
  LET op == CombineOp(p)
      bits == [z \in {0, 1} \X {0, 1} |-> Bool(Logic(op, z[1] = 1, z[2] = 1))]
      mask == FoldTree(copies, bits)
      ones == {l \in DOMAIN mask : mask[l] = 1}
      vector == CASE op = "And" -> Bool(ones = DOMAIN mask)
                  [] op = "Or"  -> Bool(ones # {})
                  [] op = "Xor" -> Cardinality(ones) % 2
  IN  IF copies = <<>> THEN remainder ELSE VecInstr(op, "I8", vector, remainder)

\* sum128: every low half is added with its carry.
CollapseSum(copies, remainder) ==
  LET plus == [z \in Residues("I64") \X Residues("I64") |-> Wrap(z[1] + z[2], "I64")]
      highs == [c \in DOMAIN copies |-> [l \in DOMAIN copies[c] |-> copies[c][l][2]]]
      lanes == IF copies = <<>> THEN 0 ELSE Len(copies[1])
      high == IF copies = <<>> THEN remainder[2] ELSE plus[<<Reduce(FoldTree(highs, plus), 0, lanes, plus), remainder[2]>>]
      low(i) == IF i <= Len(copies) * lanes THEN copies[((i - 1) \div lanes) + 1][((i - 1) % lanes) + 1][1]
                ELSE remainder[1]
      sum[i \in 0 .. Len(copies) * lanes + 1] == IF i = 0 THEN 0 ELSE sum[i - 1] + low(i)
      total == sum[Len(copies) * lanes + 1]
  IN  <<Wrap(total, "I64"), Wrap(high + total \div Modulus("I64"), "I64")>>

Collapse(p, copies, remainder) ==
  CASE p.agg \in {"Arith", "Countif"} -> CollapseArith(p, copies, remainder)
    [] p.agg = "Predicate" -> CollapsePredicate(p, copies, remainder)
    [] p.agg = "Sum128" -> CollapseSum(copies, remainder)
    [] p.agg = "Pack" -> remainder

\* gen_agg_results: the flags of every check, reduced and combined by Or.
CollapseFlags(p, copies, scalar) ==
  LET set(f) == CASE p.check = "none" -> FALSE
                  [] p.check = "mask" -> f = 1
                  [] p.check = "sign" -> Signed(f, "I8") < 0
                  [] p.check = "mul"  -> f < Width("I8") + 1
  IN  (\E c \in DOMAIN copies : \E l \in DOMAIN copies[c] : set(copies[c][l])) \/ scalar = 1

(***************************************************************************)
(* Where the emitters jump.                                                 *)
(***************************************************************************)
\* prologue_root_is_delayed: a scalar accumulator the main loop does not use. A
\* pack uses its only accumulator in both loops.
LateAcc(p) == p.x86 /\ p.vector /\ p.agg # "Pack"
LateFlag(p) == p.x86 /\ p.vector /\ p.check # "none"
\* Mutant: only the accumulators of aggregates are looked at.
DelayedForAggregates(p) == LateAcc(p)
HasDelayedPrologue(p) == LateAcc(p) \/ LateFlag(p)

JumpX86(p, n, from, at) ==
  LET late(label) == IF HasDelayedPrologue(p) THEN "delayed" ELSE label
  IN  CASE from = "prologue" -> IF n = 0 THEN late("epilogue")
                                ELSE IF ~p.vector THEN "remainder"
                                ELSE IF n < LoopWidth(p) THEN late("remainder") ELSE "main"
        [] from = "main"     -> IF at < n - (n % LoopWidth(p)) THEN "main"
                                ELSE late(IF at = n THEN "epilogue" ELSE "remainder")
        [] from = "delayed"  -> IF at = n THEN "epilogue" ELSE "remainder"
        [] from = "remainder" -> IF at # n THEN "remainder" ELSE "epilogue"

JumpArm(p, n, from, at) ==
  CASE from = "prologue" -> IF n = 0 THEN "epilogue"
                            ELSE IF ~p.vector \/ n < LoopWidth(p) THEN "remainder" ELSE "main"
    [] from = "main"     -> IF at < n - (n % LoopWidth(p)) THEN "main"
                            ELSE IF at = n THEN "epilogue" ELSE "remainder"
    [] from = "remainder" -> IF at # n THEN "remainder" ELSE "epilogue"

\* Mutant: after the main loop, the remainder is entered without a test.
JumpUntested(p, n, from, at) ==
  LET to == IF p.x86 THEN JumpX86(p, n, from, at) ELSE JumpArm(p, n, from, at)
  IN  IF from \in {"main", "delayed"} /\ to = "epilogue" THEN "remainder" ELSE to

Jump(p, n, from, at) == IF p.x86 THEN JumpX86(p, n, from, at) ELSE JumpArm(p, n, from, at)

(***************************************************************************)
(* The kernel.                                                              *)
(***************************************************************************)
\* alloc_main: the accumulators the copies of the main loop use.
MainCount(p) == IF ~p.vector \/ p.agg = "Pack" THEN 0 ELSE IF p.split THEN p.copies ELSE 1
MainOf(p, copy) == IF p.split THEN copy ELSE 1

Init ==
  /\ program \in Programs
  /\ rows \in Inputs[program]
  /\ pc = "prologue"
  /\ counter = 0
  /\ main = <<>>
  /\ rest = Garbage(program)
  /\ vecFlags = <<>>
  /\ scalarFlag = 1
  /\ packed = <<>>
  /\ result = <<>>

\* compile_prologue_steps, and the jump over the loops.
Prologue ==
  /\ pc = "prologue"
  /\ main' = Seq1(MainCount(program), Seq1(IF program.agg = "Countif" THEN 1 ELSE program.lanes, AccInit(program)))
  /\ vecFlags' = Seq1(IF program.vector THEN program.copies ELSE 0, Seq1(program.lanes, FlagInit(program)))
  /\ rest' = IF LateAcc(program) THEN rest ELSE AccInit(program)
  /\ scalarFlag' = IF LateFlag(program) THEN scalarFlag ELSE 0
  /\ pc' = Jump(program, Len(rows), pc, 0)
  /\ UNCHANGED <<program, rows, counter, packed, result>>

Block(copy) == [l \in 1 .. program.lanes |-> rows[counter + (copy - 1) * program.lanes + l]]

\* The copies of the main loop in their order. A loop that ran beyond the table
\* would read what is not the table's: here it is stuck.
MainLoop ==
  LET p == program
      after[c \in 0 .. p.copies] ==
        IF c = 0 THEN main
        ELSE LET a == MainOf(p, c) IN
             IF a \in DOMAIN main THEN [after[c - 1] EXCEPT ![a] = VecStep(p, @, Block(c))] ELSE main
      stored[i \in 0 .. LoopWidth(p)] ==
        IF i = 0 THEN packed
        ELSE stored[i - 1] \o (IF rows[counter + i].active THEN <<rows[counter + i].x>> ELSE <<>>)
  IN  /\ pc = "main"
      /\ counter + LoopWidth(p) <= Len(rows)
      /\ main' = after[p.copies]
      /\ vecFlags' = [c \in DOMAIN vecFlags |->
                        [l \in 1 .. p.lanes |-> VecFlagStep(p, vecFlags[c][l], Block(c)[l])]]
      /\ IF p.agg = "Pack"
         THEN packed' = stored[LoopWidth(p)] /\ rest' = rest + Len(packed') - Len(packed)
         ELSE UNCHANGED <<packed, rest>>
      /\ counter' = counter + LoopWidth(p)
      /\ pc' = Jump(p, Len(rows), pc, counter')
      /\ UNCHANGED <<program, rows, scalarFlag, result>>

DelayedPrologue ==
  /\ pc = "delayed"
  /\ rest' = IF LateAcc(program) THEN AccInit(program) ELSE rest
  /\ scalarFlag' = IF LateFlag(program) THEN 0 ELSE scalarFlag
  /\ pc' = Jump(program, Len(rows), pc, counter)
  /\ UNCHANGED <<program, rows, counter, main, vecFlags, packed, result>>

RemainderLoop ==
  LET row == rows[counter + 1]
  IN  /\ pc = "remainder"
      /\ counter < Len(rows)
      /\ rest' = ScalarStep(program, rest, row)
      /\ scalarFlag' = IF Fault(program, row) THEN 1 ELSE scalarFlag
      /\ packed' = IF program.agg = "Pack" /\ row.active THEN Append(packed, row.x) ELSE packed
      /\ counter' = counter + 1
      /\ pc' = Jump(program, Len(rows), pc, counter')
      /\ UNCHANGED <<program, rows, main, vecFlags, result>>

\* The program's checks share a byte; a kernel without checks has none.
Epilogue ==
  /\ pc = "epilogue"
  /\ result' = <<Collapse(program, main, rest),
                 program.check # "none" /\ CollapseFlags(program, vecFlags, scalarFlag)>>
  /\ pc' = "returned"
  /\ UNCHANGED <<program, rows, counter, accs>>

Next == Prologue \/ MainLoop \/ DelayedPrologue \/ RemainderLoop \/ Epilogue

\* A processor that runs the kernel goes on running it.
Spec == Init /\ [][Next]_vars /\ WF_vars(Next)

(***************************************************************************)
(* The kernel folds the rows.                                               *)
(***************************************************************************)
\* What the accumulators stand for while the kernel runs: those that hold garbage
\* are not counted yet.
RestReady == pc # "prologue" /\ (LateAcc(program) => pc \in {"remainder", "epilogue", "returned"})
FlagReady == pc # "prologue" /\ (LateFlag(program) => pc \in {"remainder", "epilogue", "returned"})

Number(v) ==
  CASE program.agg = "Pack"   -> packed
    [] program.agg = "Sum128" -> Signed(v[2], "I64") * Modulus("I64") + v[1]
    [] program.agg \notin {"Pack", "Sum128"} -> v

FoldOfAccs ==
  Number(Collapse(program, main, IF RestReady THEN rest ELSE AccInit(program)))
RaisedInAccs ==
  program.check # "none" /\ CollapseFlags(program, vecFlags, IF FlagReady THEN scalarFlag ELSE 0)

\* A pack also counts what it wrote.
Returned ==
  IF result = <<>> THEN <<>>
  ELSE << IF program.agg = "Pack" THEN SubSeq(packed, 1, result[1]) ELSE Number(result[1]), result[2] >>

Rows == INSTANCE RowFold WITH
  folded <- counter, value <- FoldOfAccs, raised <- RaisedInAccs, result <- Returned

\* Whatever a kernel is unrolled and split into, at any number of rows, each pass
\* of its loops folds the next rows of the table, once, in their order, and the
\* epilogue stores exactly the fold and whether a row faulted: accumulators start
\* neutral on every path, small lanes widen with their sign, carries are not lost.
ImplementsRowFold == Rows!FoldSpec

\* It returns, having read all the rows and none beyond them.
ReturnsAfterAllRows == <>(pc = "returned" /\ counter = Len(rows))
=============================================================================

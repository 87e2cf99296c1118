------------------------------ MODULE RowFold ------------------------------
(* What a compiled kernel promises about one aggregate: it folds the rows of *)
(* the table in their order, in blocks of any size, and returns the folded   *)
(* value and whether a checked operation faulted in some row.                *)
(*                                                                           *)
(* A row carries the aggregate's argument x, the condition active, and check, *)
(* what the checked operation of the row computes its flag from.              *)
EXTENDS HirSteps

CONSTANTS
  Programs,          \* [agg, op, t, cond, check]: the aggregate and the kind of its check
  Inputs             \* the tables of every program

VARIABLES program, rows, folded, value, raised, result

foldVars == <<program, rows, folded, value, raised, result>>

\* The value of no rows.
Neutral(p) ==
  CASE p.agg = "Pack" -> <<>>
    [] p.agg \in {"Countif", "Sum128"} -> 0
    [] p.agg = "Predicate" -> IF p.op \in {"And", "AndNot"} THEN 1 ELSE 0
    [] p.agg = "Arith" ->
         CASE p.op \in {"Add", "Or", "Xor", "UMax"} -> 0
           [] p.op = "Mul" -> 1
           [] p.op \in {"And", "AndNot", "UMin"} -> AllOnes(p.t)
           [] p.op = "Min" -> -IntMin(p.t) - 1
           [] p.op = "Max" -> Wrap(IntMin(p.t), p.t)

\* "None of": the rows are negated and intersected.
Fold(p, v, row) ==
  CASE p.cond /\ ~row.active -> v
    [] ~p.cond \/ row.active ->
         CASE p.agg = "Pack"      -> Append(v, row.x)
           [] p.agg = "Countif"   -> Wrap(v + 1, p.t)
           [] p.agg = "Sum128"    -> v + Signed(row.x, "I64")
           [] p.agg = "Predicate" -> Bool(Logic(p.op, row.x = 1, v = 1))
           [] p.agg = "Arith"     -> ArithInt(p.op, "No", p.t, row.x, v)

FoldRows(p, v, block) ==
  LET values == IF p.agg = "Pack" THEN Seq(Int) ELSE Int
      next == [i \in DOMAIN block |-> [u \in values |-> Fold(p, u, block[i])]]
      after[i \in 0 .. Len(block)] == IF i = 0 THEN v ELSE next[i][after[i - 1]]
  IN  after[Len(block)]

FaultyRow(p, row) ==
  CASE p.check = "none" -> FALSE
    [] p.check = "mask" -> row.check = 1
    [] p.check = "sign" -> Signed(row.check, "I8") < 0
    [] p.check = "mul"  -> row.check < Width("I8") + 1

FoldInit ==
  /\ program \in Programs
  /\ rows \in Inputs[program]
  /\ folded = 0
  /\ value = Neutral(program)
  /\ raised = FALSE
  /\ result = <<>>

FoldBlock ==
  /\ result = <<>>
  /\ folded' \in folded + 1 .. Len(rows)
  /\ LET block == SubSeq(rows, folded + 1, folded')
     IN  /\ value' = FoldRows(program, value, block)
         /\ raised' = (raised \/ \E i \in DOMAIN block : FaultyRow(program, block[i]))
  /\ UNCHANGED <<program, rows, result>>

Return ==
  /\ result = <<>>
  /\ folded = Len(rows)
  /\ result' = <<value, raised>>
  /\ UNCHANGED <<program, rows, folded, value, raised>>

FoldSpec == FoldInit /\ [][FoldBlock \/ Return]_foldVars
=============================================================================

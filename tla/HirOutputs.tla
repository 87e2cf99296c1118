----------------------------- MODULE HirOutputs -----------------------------
(* The output half of FunctionBuilder: calls that add a root step and, for   *)
(* aggregates, an accumulator, and the checks build() makes of them.         *)
(*                                                                           *)
(* Beside the fields of HirExpressions the builder b has                     *)
(*   roots       the root steps in the order they were added                 *)
(*   accs        the accumulators: a type and the argument each is left in   *)
(* A call returns the builder it leaves and the root it added, 0 when it is  *)
(* refused. A refused call may have changed the builder before it threw.     *)
EXTENDS HirExpressions

\* A root step: its operands, then its condition when it has one, and its argument.
RootStep(kind, dtype, op, operands, cond, dst) ==
  Step(kind, dtype, op, "No", IF cond = 0 THEN operands ELSE Append(operands, cond), <<dst>>)

AddRoot(b, s) ==
  LET id == Len(b.steps) + 1
  IN  Answer([b EXCEPT !.steps = Append(@, s), !.reverse = Append(@, 0), !.roots = Append(@, id)], id)

AddAccumulatorShifted(b, dtype, dst) ==   \* mutant: the result goes to the next argument
  [b EXCEPT !.accs = Append(@, [dtype |-> dtype, dst |-> dst + 1])]
AddAccumulator(b, dtype, dst) == [b EXCEPT !.accs = Append(@, [dtype |-> dtype, dst |-> dst])]

\* A condition that is always true is dropped.
OptionalCond(b, cond) ==
  IF cond # 0 /\ "ConstantConditionPeephole" \in b.tr /\ ConstClass(b.steps[cond]) = "BoolTrue" THEN 0 ELSE cond

Fits(b, x, dst) == b.args[dst].dtype = b.steps[x].dtype

(***************************************************************************)
(* Stores, packs and scatters. cond is 0 when there is none.                *)
(***************************************************************************)
CondStoreValue(b, x, cond, dst) ==
  IF ~Fits(b, x, dst) THEN Refused(b)
  ELSE AddRoot(MarkArg(b, dst, "Dst"),
               RootStep("Store", b.steps[x].dtype, "", <<x>>, OptionalCond(b, cond), dst))

\* Predicates are stored whole: a conditional store keeps the old bits by selecting them.
CondStorePredicate(b, x, cond, dst) ==
  LET store(new) == AddRoot(new.b, RootStep("Store", "I1", "", <<new.id>>, 0, dst))
      keep(old) == SelectPredicate(old.b, cond, x, old.id)
      marked == MarkArg(b, dst, "Dst")
  IN  IF ~Fits(b, x, dst) THEN Refused(b)
      ELSE store(IF cond = 0 THEN Answer(marked, x) ELSE keep(Load(marked, dst, "Unaligned")))

PackCountsFirst(b, x, cond, dst, size) ==   \* mutant: the counter is registered before the type check
  LET counted == AddAccumulator(MarkArg(b, dst, "Dst"), "I64", size)
  IN  IF ~Fits(b, x, dst) THEN Refused(b)
      ELSE IF b.args[size].dtype # "I64" THEN Refused(counted)
      ELSE AddRoot(MarkArg(counted, size, "DstAgg"), RootStep("Pack", b.steps[x].dtype, "", <<x>>, cond, dst))

Pack(b, x, cond, dst, size) ==
  LET marked == MarkArg(b, dst, "Dst")
      sized == MarkArg(marked, size, "DstAgg")
      special == IF b.steps[x].dtype \in {"I8", "I16"} THEN {"SmallPack"} ELSE {}
  IN  IF ~Fits(b, x, dst) THEN Refused(b)
      ELSE IF b.args[size].dtype # "I64" THEN Refused(marked)
      ELSE Announce(AddRoot(AddAccumulator(sized, "I64", size),
                            RootStep("Pack", b.steps[x].dtype, "", <<x>>, cond, dst)), special)

\* An index that is a loaded array makes that array an index array and nothing else.
MarkIndex(b, idx) ==
  IF b.steps[idx].kind = "Load" THEN [b EXCEPT !.args[b.steps[idx].val[1]].kind = {"SrcIdxArr"}] ELSE b
WideIndex(b, idx) ==
  IF b.steps[idx].dtype \in {"I8", "I16"} THEN IntCast(b, idx, "I32", "Zext", FALSE) ELSE Answer(b, idx)

GatherAt(wide, data) ==
  LET b == wide.b
      t == b.args[data].dtype
      s == Step("Gather", t, "", "No", <<wide.id>>, <<data>>)
      ops == {"Gather"} \union (IF t \in {"I8", "I16"} THEN {"SmallGather"} ELSE {})
  IN  IF Known(b, s) # {} THEN Found(b, s)
      ELSE Announce(Create(MarkArg(b, data, "SrcGatherArr"), s, NoRewrite), ops)

Gather(b, idx, data) ==
  IF b.steps[idx].dtype \notin IntTypes THEN Refused(b)
  ELSE GatherAt(WideIndex(MarkIndex(b, idx), idx), data)

CondScatter(b, x, idx, cond, dst) ==
  LET used == OptionalCond(b, cond)
      seen == [b EXCEPT !.scalarOnly = @ \/ b.args[dst].dtype \in {"I8", "I16"},
                        !.special = @ \union {IF used = 0 THEN "Scatter" ELSE "CondScatter"}]
      add(wide) == AddRoot(wide.b, RootStep("Scatter", b.steps[x].dtype, "", <<wide.id, x>>, used, dst))
  IN  IF b.steps[idx].dtype \notin IntTypes THEN Refused(b)
      ELSE IF ~Fits(b, x, dst) THEN Refused(seen)
      ELSE add(WideIndex(MarkIndex(MarkArg(seen, dst, "Dst"), idx), idx))

(***************************************************************************)
(* Aggregates.                                                              *)
(***************************************************************************)
AggregateOps == {"Add", "Mul", "Min", "Max", "UMin", "UMax", "And", "Or", "Xor", "AndNot"}

CondArithAgg(b, x, cond, op, dst) ==
  LET t == b.args[dst].dtype
      from == b.steps[x].dtype
      special == IF op = "Mul" /\ from = "I64" THEN {"I64Mul"}
                 ELSE IF op = "Mul" /\ from = "I8" THEN {"I8Mul"} ELSE {}
      kind == IF t = "I128" THEN "AccSum128" ELSE "AccArithBinary"
  IN  IF op \notin AggregateOps \/ (IF t = "I128" THEN from # "I64" \/ op # "Add" ELSE t # from) THEN Refused(b)
      ELSE Announce(AddRoot(AddAccumulator(MarkArg(b, dst, "DstAgg"), t, dst),
                            RootStep(kind, t, op, <<x>>, OptionalCond(b, cond), dst)), special)

PredicateAgg(b, x, op, dst) ==
  IF op = "XNor" \/ ~Fits(b, x, dst) THEN Refused(b)
  ELSE AddRoot(AddAccumulator(MarkArg(b, dst, "DstAgg"), "I1", dst),
               RootStep("AccPredicateBinary", "I1", op, <<x>>, 0, dst))

CountIf(b, x, dst) ==
  IF b.args[dst].dtype # "I64" THEN Refused(b)
  ELSE AddRoot(AddAccumulator(MarkArg(b, dst, "DstAgg"), "I64", dst),
               RootStep("Countif", "I64", "Add", <<x>>, 0, dst))

\* A table entry is read, combined with the row's value and written back. Rows
\* may share an entry, so the rows have to be taken one after another.
GroupedArithAgg(b, x, cond, idx, op, table) ==
  LET kept(old, new) == IF cond = 0 THEN new ELSE Select(new.b, cond, new.id, old.id)
      put(new) == CondScatter(new.b, new.id, idx, 0, table)
      update(old) == IF Invalid(old) \/ ~Fits(b, x, table) THEN Refused(old.b)
                     ELSE put(kept(old, UncheckedArith(old.b, x, old.id, op, "No")))
  IN  update(Gather([b EXCEPT !.scalarOnly = TRUE], idx, table))

(***************************************************************************)
(* How a step accesses an argument, and which accesses may be combined.     *)
(***************************************************************************)
AccessOf(kind) ==
  CASE kind \in {"Load", "LoadSplat"} -> "SequentialRead" [] kind = "Gather" -> "RandomRead"
    [] kind = "Store" -> "SequentialWrite"                [] kind = "Scatter" -> "RandomWrite"
    [] kind = "Pack" -> "AppendWrite"                     [] OTHER -> "None"

CompatibleWrites(x, y) ==   \* mutant: an array may be stored to twice
  {x, y} \in {{"SequentialRead"}, {"SequentialRead", "SequentialWrite"}, {"SequentialWrite"},
              {"SequentialRead", "RandomRead"}, {"RandomRead"}, {"RandomRead", "RandomWrite"}, {"RandomWrite"}}

Compatible(x, y) ==
  {x, y} \in {{"SequentialRead"}, {"SequentialRead", "SequentialWrite"}, {"SequentialRead", "RandomRead"},
              {"RandomRead"}, {"RandomRead", "RandomWrite"}, {"RandomWrite"}}

LiveSteps(b) == Reached(b.steps, {b.roots[k] : k \in DOMAIN b.roots})

\* Who accesses what: steps by their id, accumulators by their position from -1 down,
\* the safety check argument as 0.
Accesses(b) ==
  {[by |-> s, arg |-> b.steps[s].val[1], how |-> AccessOf(b.steps[s].kind)] :
     s \in {s \in LiveSteps(b) : AccessOf(b.steps[s].kind) # "None"}}
  \union {[by |-> -k, arg |-> b.accs[k].dst, how |-> "AggregateWrite"] : k \in DOMAIN b.accs}
  \union (IF b.safety = 0 THEN {} ELSE {[by |-> 0, arg |-> b.safety, how |-> "AggregateWrite"]})

\* Whether build() accepts the function.
Buildable(b, maxRoots, maxLiveSteps) ==
  /\ b.roots # <<>> /\ Len(b.roots) <= maxRoots
  /\ Cardinality(LiveSteps(b)) <= maxLiveSteps
  /\ \A p, q \in Accesses(b) : p.by # q.by /\ p.arg = q.arg => Compatible(p.how, q.how)
  /\ \A a \in DOMAIN b.args : b.args[a].kind # {}
=============================================================================

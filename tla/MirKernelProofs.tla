--------------------------- MODULE MirKernelProofs ---------------------------
(* A kernel implements the fold of its rows: every pass of its loops takes the *)
(* value that the accumulators stand for to the fold of the rows it read, on   *)
(* every path of the jumps, what is initialised late is so in time, and no     *)
(* loop runs beyond the table. And blocks of rows, by which the vectorizer and *)
(* the lowering say which rows a vector works on, share the rows out.          *)
EXTENDS AccumulatorProofs, RowBlocks

(***************************************************************************)
(* The fold of a table, row by row.                                         *)
(***************************************************************************)
ValueSet(p) ==
  CASE p.agg = "Pack" -> Seq(Int)
    [] p.agg = "Sum128" -> Int
    [] p.agg = "Predicate" -> Truth
    [] p.agg \in {"Arith", "Countif"} -> Residues(p.t)

LEMMA AggIs ==
  ASSUME NEW p, IsProgram(p)
  PROVE  /\ p.agg \in {"Arith", "Countif", "Predicate", "Sum128", "Pack"}
         /\ p.agg \in {"Arith", "Countif"} => p.t \in IntTypes
         /\ p.agg \in {"Predicate", "Sum128"} => ~p.cond
         /\ p.cond \in BOOLEAN
  BY DEF IsProgram

LEMMA RowIs ==
  ASSUME NEW p, IsProgram(p), NEW row \in TableRow(p)
  PROVE  /\ row.active \in BOOLEAN /\ (~p.cond => row.active)
         /\ p.agg = "Sum128" => row.x \in Long
         /\ p.agg \in {"Pack", "Countif"} => row.x \in Int
         /\ p.agg = "Predicate" => row.x \in Truth
<1>1. /\ row.active \in BOOLEAN /\ (~p.cond => row.active)
  BY Zenon, AggIs DEF TableRow
<1>2. ASSUME p.agg = "Sum128" PROVE row.x \in Long
  BY <1>2 DEF TableRow, Long, Residues
<1>3. ASSUME p.agg \in {"Pack", "Countif"} PROVE row.x \in Int
  BY <1>3 DEF TableRow
<1>4. ASSUME p.agg = "Predicate" PROVE row.x \in Truth
  BY <1>4 DEF TableRow, Truth
<1> QED BY <1>1, <1>2, <1>3, <1>4

\* The fold of a row keeps the values of the aggregate.
LEMMA FoldTyped ==
  ASSUME NEW p, IsProgram(p), NEW row \in TableRow(p), NEW v \in ValueSet(p)
  PROVE  Rows!Fold(p, v, row) \in ValueSet(p)
<1>1. CASE p.agg = "Arith"
  <2> DEFINE u == [a \in Residues(p.t) |-> Rows!Fold(p, a, row)]
  <2>1. u \in [Residues(p.t) -> Residues(p.t)] /\ \A a \in Residues(p.t) : u[a] = Rows!Fold(p, a, row)
    <3>1. u = [a \in Residues(p.t) |-> Rows!Fold(p, a, row)]
      OBVIOUS
    <3> HIDE DEF u
    <3> QED BY Zenon, <1>1, <3>1, ArithRow DEF Acts
  <2>2. v \in Residues(p.t) /\ ValueSet(p) = Residues(p.t)
    BY <1>1 DEF ValueSet
  <2> HIDE DEF u
  <2> QED BY <2>1, <2>2
<1>2. CASE p.agg = "Countif"
  <2>1. v \in Residues(p.t) /\ ValueSet(p) = Residues(p.t) /\ p.t \in IntTypes
    BY <1>2, AggIs DEF ValueSet
  <2>2. v + 1 \in Int
    BY <2>1, Widths
  <2>3. Rows!Fold(p, v, row) = v \/ Rows!Fold(p, v, row) = Rows!Wrap(v + 1, p.t)
    BY <1>2, AggIs, RowIs DEF Rows!Fold
  <2>4. Rows!Wrap(v + 1, p.t) = Wrap(v + 1, p.t)
    BY Zenon, SameHelpers
  <2> QED BY <2>1, <2>2, <2>3, <2>4, WrapInRange
<1>3. CASE p.agg = "Predicate"
  <2>1. Rows!Fold(p, v, row) = Rows!Bool(Rows!Logic(p.op, row.x = 1, v = 1))
    BY <1>3, AggIs DEF Rows!Fold
  <2>2. Rows!Bool(Rows!Logic(p.op, row.x = 1, v = 1)) \in Truth
    BY DEF Rows!Bool, Truth
  <2> QED BY <1>3, <2>1, <2>2 DEF ValueSet
<1>4. CASE p.agg = "Sum128"
  <2>1. v \in Int /\ ValueSet(p) = Int
    BY <1>4 DEF ValueSet
  <2>2. Rows!Fold(p, v, row) = v + Rows!Signed(row.x, "I64")
    BY <1>4, AggIs DEF Rows!Fold
  <2>3. Rows!Signed(row.x, "I64") = Signed(row.x, "I64")
    BY Zenon, SameHelpers
  <2>4. Signed(row.x, "I64") \in Int
    BY <1>4, RowIs, CarryTyped
  <2> QED BY <2>1, <2>2, <2>3, <2>4
<1>5. CASE p.agg = "Pack"
  <2>1. v \in Seq(Int) /\ ValueSet(p) = Seq(Int) /\ row.x \in Int
    BY <1>5, RowIs DEF ValueSet
  <2>2. Rows!Fold(p, v, row) = v \/ Rows!Fold(p, v, row) = Append(v, row.x)
    BY <1>5, AggIs, RowIs DEF Rows!Fold
  <2> QED BY <2>1, <2>2
<1> QED BY <1>1, <1>2, <1>3, <1>4, <1>5, AggIs

LEMMA NeutralTyped ==
  ASSUME NEW p, IsProgram(p)
  PROVE  Rows!Neutral(p) \in ValueSet(p)
<1>1. CASE p.agg \in {"Arith", "Countif"}
  BY <1>1, ArithNeutral DEF ValueSet
<1>2. CASE p.agg = "Predicate"
  BY <1>2 DEF ValueSet, Rows!Neutral, Truth
<1>3. CASE p.agg = "Sum128"
  BY <1>3 DEF ValueSet, Rows!Neutral
<1>4. CASE p.agg = "Pack"
  BY <1>4 DEF ValueSet, Rows!Neutral
<1> QED BY <1>1, <1>2, <1>3, <1>4, AggIs

\* The fold of the first i rows of a table, for all i.
IsFold(T, p, table) ==
  /\ T \in [0 .. Len(table) -> ValueSet(p)]
  /\ T[0] = Rows!Neutral(p)
  /\ \A i \in 1 .. Len(table) : T[i] = Rows!Fold(p, T[i - 1], table[i])

IsTable(p, table) == table \in Seq(TableRow(p)) /\ Len(table) < Modulus("I64")

\* The folds of the first rows exist: each from the one before it.
LEMMA FoldExists ==
  ASSUME NEW p, IsProgram(p), NEW table, IsTable(p, table)
  PROVE  \E T : IsFold(T, p, table)
<1> DEFINE S == ValueSet(p)
           n == Len(table)
           step == [i \in 1 .. n |-> [v \in S |-> Rows!Fold(p, v, table[i])]]
           first == Rows!Neutral(p)
<1>1. n \in Nat /\ first \in S
  BY NeutralTyped DEF IsTable
<1>2. \A i \in 1 .. n : table[i] \in TableRow(p)
  BY DEF IsTable
<1>3. step \in [1 .. n -> [S -> S]]
  <2>1. \A i \in 1 .. n : \A v \in S : Rows!Fold(p, v, table[i]) \in S
    BY <1>2, FoldTyped
  <2> HIDE DEF S, n
  <2> QED BY <2>1
<1>4. PICK T : IsIteration(T, S, first, n, step)
  <2> HIDE DEF S, first, n, step
  <2> QED BY Zenon, <1>1, <1>3, Iteration
<1>5. T \in [0 .. n -> S] /\ T[0] = first /\ \A k \in 1 .. n : T[k] = step[k][T[k - 1]]
  BY Zenon, <1>4 DEF IsIteration
<1>6. ASSUME NEW k \in 1 .. n PROVE T[k] = Rows!Fold(p, T[k - 1], table[k])
  <2>1. k - 1 \in 0 .. n
    BY <1>1
  <2>2. T[k - 1] \in S /\ T[k] = step[k][T[k - 1]]
    BY Zenon, <1>5, <2>1
  <2> HIDE DEF S, n
  <2> QED BY Zenon, <2>2 DEF step
<1> QED BY <1>5, <1>6 DEF IsFold

FoldOf(p, table) == CHOOSE T : IsFold(T, p, table)

LEMMA FoldIs ==
  ASSUME NEW p, IsProgram(p), NEW table, IsTable(p, table)
  PROVE  IsFold(FoldOf(p, table), p, table)
BY FoldExists DEF FoldOf

\* A sum of as many 64-bit integers as a table has rows fits into 128 bits.
Fits(p, v) ==
  p.agg = "Sum128" => -(Modulus("I64") * Half("I64")) <= v /\ v < Modulus("I64") * Half("I64")

\* The sum of no table leaves 128 bits.
LEMMA FoldFits ==
  ASSUME NEW p, IsProgram(p), NEW table, IsTable(p, table), NEW T, IsFold(T, p, table), NEW i \in 0 .. Len(table)
  PROVE  Fits(p, T[i])
<1> SUFFICES ASSUME p.agg = "Sum128"
             PROVE  -(Modulus("I64") * Half("I64")) <= T[i] /\ T[i] < Modulus("I64") * Half("I64")
  BY DEF Fits
<1> DEFINE M == Modulus("I64")
           h == Half("I64")
           n == Len(table)
           W == {k \in Nat : k <= n => -(k * h) <= T[k] /\ T[k] <= k * h}
<1>1. n \in Nat /\ M \in Nat \ {0} /\ h \in Nat \ {0} /\ n < M
  BY LongIs DEF IsTable
<1>2. T \in [0 .. n -> Int] /\ T[0] = 0
  BY DEF IsFold, ValueSet, Rows!Neutral
<1>3. ASSUME NEW k \in 1 .. n
      PROVE  \E s \in -h .. h - 1 : T[k] = T[k - 1] + s
  <2>1. table[k] \in TableRow(p) /\ table[k].x \in Long
    BY RowIs DEF IsTable
  <2>2. Rows!Fold(p, T[k - 1], table[k]) = T[k - 1] + Rows!Signed(table[k].x, "I64")
    BY AggIs DEF Rows!Fold
  <2>3. Rows!Signed(table[k].x, "I64") = Signed(table[k].x, "I64")
    BY Zenon, SameHelpers
  <2>4. Signed(table[k].x, "I64") \in -h .. h - 1
    BY Zenon, <2>1, LongIs, SignedValue DEF Long
  <2>5. T[k] = Rows!Fold(p, T[k - 1], table[k])
    BY DEF IsFold
  <2> QED BY <2>2, <2>3, <2>4, <2>5
<1> HIDE DEF M, h, n
<1>4. 0 \in W
  <2>1. 0 * h = 0
    BY <1>1
  <2> QED BY <1>2, <2>1
<1>5. ASSUME NEW k \in Nat, k \in W PROVE k + 1 \in W
  <2> SUFFICES ASSUME k + 1 <= n PROVE -((k + 1) * h) <= T[k + 1] /\ T[k + 1] <= (k + 1) * h
    OBVIOUS
  <2>1. k + 1 \in 1 .. n /\ (k + 1) - 1 = k /\ k \in 0 .. n
    BY <1>1
  <2>2. PICK s \in -h .. h - 1 : T[k + 1] = T[k] + s
    BY <1>3, <2>1
  <2>3. T[k] \in Int
    BY <1>2, <2>1
  <2> DEFINE q == k * h
             r == (k + 1) * h
  <2>4. r = q + h /\ q \in Nat
    BY <1>1, SMT
  <2>5. -q <= T[k] /\ T[k] <= q
    BY <1>1, <1>5, <2>1
  <2> HIDE DEF q, r
  <2>6. -r <= T[k + 1] /\ T[k + 1] <= r
    BY <1>1, <2>2, <2>3, <2>4, <2>5
  <2> QED BY <2>6 DEF r
<1>6. Nat \subseteq W
  <2> HIDE DEF W
  <2> QED BY <1>4, <1>5, NaturalInduction
<1>7. i \in Nat /\ i <= n /\ i <= M - 1
  BY <1>1 DEF n
<1>8. -(i * h) <= T[i] /\ T[i] <= i * h
  BY <1>6, <1>7
<1>9. T[i] \in Int
  BY <1>1, <1>2, <1>7
<1>10. i * h < M * h
  BY <1>1, <1>7, SMT
<1> DEFINE a == i * h
           b == M * h
<1>11. a \in Int /\ b \in Int
  BY <1>1, <1>7, SMT
<1> HIDE DEF a, b
<1>12. -b <= T[i] /\ T[i] < b
  BY <1>8, <1>9, <1>10, <1>11 DEF a, b
<1> QED BY <1>12 DEF b, M, h

\* The abstract specification's fold of a block goes on from the rows before it.
LEMMA FoldRowsIs ==
  ASSUME NEW p, IsProgram(p), NEW table, IsTable(p, table), NEW T, IsFold(T, p, table),
         NEW a \in 0 .. Len(table), NEW b \in a + 1 .. Len(table)
  PROVE  Rows!FoldRows(p, T[a], SubSeq(table, a + 1, b)) = T[b]
<1> DEFINE n == Len(table)
           block == SubSeq(table, a + 1, b)
           k == b - a
           v == T[a]
           values == IF p.agg = "Pack" THEN Seq(Int) ELSE Int
           next == [i \in DOMAIN block |-> [u \in values |-> Rows!Fold(p, u, block[i])]]
           after[i \in 0 .. Len(block)] == IF i = 0 THEN v ELSE next[i][after[i - 1]]
           g == [i \in 0 .. k |-> T[a + i]]
<1>1. n \in Nat /\ a \in Nat /\ k \in Nat \ {0} /\ a + k = b /\ b <= n /\ table \in Seq(TableRow(p))
  BY DEF IsTable
<1>2. Len(block) = k /\ DOMAIN block = 1 .. k /\ \A i \in 1 .. k : block[i] = table[a + i]
  <2>1. Len(block) = k /\ DOMAIN block = 1 .. k
    BY <1>1
  <2>2. ASSUME NEW i \in 1 .. k PROVE block[i] = table[a + i]
    <3>1. a + 1 + i - 1 = a + i
      BY <1>1
    <3>2. block[i] = table[a + 1 + i - 1]
      BY <1>1
    <3> QED BY <3>1, <3>2
  <2> QED BY <2>1, <2>2
<1>3. ValueSet(p) \subseteq values
  <2>1. ASSUME p.agg \in {"Arith", "Countif"} PROVE Residues(p.t) \subseteq Int
    BY <2>1, AggIs, Widths
  <2> QED BY <2>1, AggIs DEF ValueSet, Truth
<1> HIDE DEF block, values
<1>4. \A i \in 0 .. k : T[a + i] \in values /\ a + i \in 0 .. n
  <2> TAKE i \in 0 .. k
  <2>1. a + i \in 0 .. n
    BY <1>1
  <2>2. T[a + i] \in ValueSet(p)
    BY Zenon, <2>1 DEF IsFold
  <2> QED BY <1>3, <2>1, <2>2
<1>5. \A i \in 1 .. k : T[a + i] = next[i][T[a + (i - 1)]]
  <2> TAKE i \in 1 .. k
  <2>1. a + i \in 1 .. n /\ (a + i) - 1 = a + (i - 1) /\ i - 1 \in 0 .. k
    BY <1>1
  <2>2. T[a + i] = Rows!Fold(p, T[a + (i - 1)], table[a + i])
    BY <2>1 DEF IsFold
  <2>3. T[a + (i - 1)] \in values
    BY <1>4, <2>1
  <2>4. next[i] = [u \in values |-> Rows!Fold(p, u, block[i])] /\ block[i] = table[a + i]
    BY <1>2
  <2> HIDE DEF next
  <2> QED BY Zenon, <2>2, <2>3, <2>4
<1> HIDE DEF next
<1>6. g = [i \in 0 .. Len(block) |-> IF i = 0 THEN v ELSE next[i][g[i - 1]]]
  <2>1. \A i \in 0 .. k : g[i] = IF i = 0 THEN v ELSE next[i][g[i - 1]]
    <3> TAKE i \in 0 .. k
    <3>1. CASE i = 0
      BY <1>1, <3>1
    <3>2. CASE i # 0
      <4>1. i \in 1 .. k /\ i - 1 \in 0 .. k
        BY <1>1, <3>2
      <4>2. g[i] = T[a + i] /\ g[i - 1] = T[a + (i - 1)]
        BY <4>1
      <4> HIDE DEF g, v
      <4> QED BY <1>5, <3>2, <4>1, <4>2
    <3> QED BY <3>1, <3>2
  <2>2. g = [i \in 0 .. k |-> g[i]]
    OBVIOUS
  <2> HIDE DEF g, v, k
  <2>3. g = [i \in 0 .. k |-> IF i = 0 THEN v ELSE next[i][g[i - 1]]]
    BY Zenon, <2>1, <2>2
  <2> QED BY Zenon, <1>2, <2>3
<1>7. after = [i \in 0 .. Len(block) |-> IF i = 0 THEN v ELSE next[i][after[i - 1]]]
  <2> HIDE DEF g, v
  <2> QED BY Zenon, <1>6
<1> HIDE DEF after
<1>8. after[0] = v /\ \A i \in 1 .. k : after[i] = next[i][after[i - 1]]
  <2> HIDE DEF v, k
  <2>1. after = [i \in 0 .. k |-> IF i = 0 THEN v ELSE next[i][after[i - 1]]]
    BY Zenon, <1>2, <1>7
  <2>2. k \in Nat
    BY <1>1
  <2>3. 0 \in 0 .. k /\ \A i \in 1 .. k : i \in 0 .. k /\ i # 0
    BY <2>2
  <2> QED BY Zenon, <2>1, <2>3
<1> DEFINE W == {i \in Nat : i <= k => after[i] = T[a + i]}
<1>9. 0 \in W
  BY <1>1, <1>8
<1>10. ASSUME NEW i \in Nat, i \in W PROVE i + 1 \in W
  <2> SUFFICES ASSUME i + 1 <= k PROVE after[i + 1] = T[a + (i + 1)]
    OBVIOUS
  <2>1. i + 1 \in 1 .. k /\ (i + 1) - 1 = i
    BY <1>1
  <2>2. after[i] = T[a + i]
    BY <1>1, <1>10, <2>1
  <2>3. after[i + 1] = next[i + 1][after[i]] /\ T[a + (i + 1)] = next[i + 1][T[a + i]]
    BY <1>5, <1>8, <2>1
  <2> QED BY <2>2, <2>3
<1>11. Nat \subseteq W
  <2> HIDE DEF W
  <2> QED BY Zenon, <1>9, <1>10, NaturalInduction
<1>12. after[k] = T[b]
  BY <1>1, <1>11
<1>13. Rows!FoldRows(p, v, block) = after[k]
  <2>1. Rows!FoldRows(p, v, block) = after[Len(block)]
    BY Zenon DEF Rows!FoldRows, after, next, values
  <2> QED BY <1>2, <2>1
<1> QED BY <1>12, <1>13 DEF block

(***************************************************************************)
(* One row into one accumulator.                                            *)
(***************************************************************************)
AccSet(p) ==
  CASE p.agg = "Sum128" -> Wide
    [] p.agg = "Predicate" -> Truth
    [] p.agg \in {"Arith", "Countif"} -> Residues(p.t)

\* The value that the accumulators stand for, but of a pack.
Value(p, A, R) == IF p.agg = "Sum128" THEN Number128(Collapse(p, A, R)) ELSE Collapse(p, A, R)

LoopAccs(p, A) == p.vector /\ \E m \in 1 .. Modulus("I64") : A \in Copies(AccSet(p), m, Lanes(p))

LEMMA LanesAre ==
  ASSUME NEW p, IsProgram(p)
  PROVE  /\ p.lanes \in Nat \ {0} /\ \E e \in Positions : p.lanes = 2 ^ e
         /\ p.agg # "Countif" => Lanes(p) = p.lanes
         /\ p.agg = "Countif" => Lanes(p) = 1
<1>1. PICK e \in Positions : p.lanes = 2 ^ e
  BY DEF IsProgram
<1> QED BY <1>1, Logarithm DEF Lanes

\* A row into the accumulator of one lane.
IntoLane(p, row) == [s \in AccSet(p) |-> VecLane(p, s, row)]

\* A row enters any lane of any copy by the vector instructions, and the number
\* that the epilogue collapses all accumulators to by the abstract fold: it makes
\* no difference how the loop is unrolled, split or laid out in registers.
THEOREM LaneFolds ==
  ASSUME NEW p, IsProgram(p), p.vector, p.agg \in {"Arith", "Predicate", "Sum128"}, NEW row \in TableRow(p),
         NEW m \in 1 .. Modulus("I64"), NEW A \in Copies(AccSet(p), m, p.lanes), NEW R \in AccSet(p),
         NEW a \in 1 .. m, NEW j \in 1 .. p.lanes,
         NEW u, u = IntoLane(p, row),
         Fits(p, Rows!Fold(p, Value(p, A, R), row))
  PROVE  /\ u \in [AccSet(p) -> AccSet(p)]
         /\ ChangedAt(A, a, j, u) \in Copies(AccSet(p), m, p.lanes)
         /\ Value(p, ChangedAt(A, a, j, u), R) = Rows!Fold(p, Value(p, A, R), row)
<1> DEFINE S == AccSet(p)
           C == Collapse(p, A, R)
           D == Collapse(p, ChangedAt(A, a, j, u), R)
<1>0. u = [s \in AccSet(p) |-> VecLane(p, s, row)]
  BY DEF IntoLane
<1>1. CASE p.agg = "Arith"
  <2>1. S = Residues(p.t) /\ Lanes(p) = p.lanes /\ IsArith(p)
    BY <1>1 DEF AccSet, Lanes, IsArith
  <2> DEFINE z == [x \in Residues(p.t) |-> Rows!Fold(p, x, row)]
  <2>2. z = [x \in Residues(p.t) |-> Rows!Fold(p, x, row)]
    OBVIOUS
  <2> HIDE DEF z
  <2>3. Acts(Pairwise(CombineOp(p), p.t), z, Residues(p.t))
    BY <1>1, <2>2, ArithRow
  <2>4. \A x \in Residues(p.t) : z[x] = Rows!Fold(p, x, row) /\ VecLane(p, x, row) = z[x]
    BY <1>1, <2>2, ArithRow
  <2>5. u = z
    <3>1. z = [x \in Residues(p.t) |-> z[x]]
      BY <2>3 DEF Acts
    <3> QED BY Zenon, <1>0, <2>1, <2>4, <3>1
  <2>6. A \in Copies(Residues(p.t), m, Lanes(p)) /\ R \in Residues(p.t) /\ j \in 1 .. Lanes(p)
    BY <2>1
  <2>7. /\ CollapseArith(p, A, R) \in Residues(p.t)
        /\ ChangedAt(A, a, j, u) \in Copies(Residues(p.t), m, Lanes(p))
        /\ CollapseArith(p, ChangedAt(A, a, j, u), R) = u[CollapseArith(p, A, R)]
    BY <2>1, <2>3, <2>5, <2>6, CollapseChanged
  <2>8. \A B : Value(p, B, R) = CollapseArith(p, B, R)
    BY <1>1 DEF Value, Collapse
  <2>9. u \in [S -> S]
    BY <2>1, <2>3, <2>5 DEF Acts
  <2> QED BY <2>1, <2>4, <2>5, <2>7, <2>8, <2>9
<1>2. CASE p.agg = "Predicate"
  <2>1. S = Truth /\ IsPredicate(p)
    BY <1>2 DEF AccSet, IsPredicate
  <2> DEFINE z == RowBit(p.op, row.x)
  <2>2. z = RowBit(p.op, row.x)
    OBVIOUS
  <2>3. z \in [Truth -> Truth] /\ z = [x \in Truth |-> z[x]]
    BY DEF RowBit, Bool, Truth
  <2> HIDE DEF z
  <2>4. row.x \in Truth /\ \A x \in Truth : z[x] = Rows!Fold(p, x, row) /\ VecLane(p, x, row) = z[x]
    BY <2>1, <2>2, PredicateStep
  <2>5. u = z
    BY Zenon, <1>0, <2>1, <2>3, <2>4
  <2>6. A \in Copies(Truth, m, p.lanes) /\ R \in Truth
    BY <2>1
  <2>7. /\ CollapsePredicate(p, A, R) \in Truth
        /\ ChangedAt(A, a, j, u) \in Copies(Truth, m, p.lanes)
        /\ CollapsePredicate(p, ChangedAt(A, a, j, u), R) = u[CollapsePredicate(p, A, R)]
    BY <2>1, <2>2, <2>4, <2>5, <2>6, PredicateChanged
  <2>8. \A B : Value(p, B, R) = CollapsePredicate(p, B, R)
    BY <1>2 DEF Value, Collapse
  <2> QED BY <2>1, <2>3, <2>4, <2>5, <2>7, <2>8
<1>3. CASE p.agg = "Sum128"
  <2>1. S = Wide /\ row.x \in Long
    BY <1>3, RowIs DEF AccSet
  <2>2. PICK e \in Positions : p.lanes = 2 ^ e
    BY LanesAre
  <2>3. u = Carry(row.x)
    BY <1>0, <1>3, <2>1 DEF VecLane, Carry
  <2>4. /\ m \in Nat \ {0} /\ m <= Modulus("I64") /\ A \in [1 .. m -> [1 .. 2 ^ e -> Wide]]
        /\ R \in Wide /\ j \in 1 .. 2 ^ e
    BY <2>1, <2>2, LongerThanAnyTable DEF Copies
  <2>5. /\ ChangedAt(A, a, j, Carry(row.x)) \in [1 .. m -> [1 .. 2 ^ e -> Wide]]
        /\ CollapseSum(A, R) \in Wide /\ CollapseSum(ChangedAt(A, a, j, Carry(row.x)), R) \in Wide
        /\ Congruent(Square, Whole(CollapseSum(ChangedAt(A, a, j, Carry(row.x)), R)),
                     Whole(CollapseSum(A, R)) + Signed(row.x, "I64"))
    BY <2>1, <2>4, SumLane
  <2>6. \A B : Collapse(p, B, R) = CollapseSum(B, R) /\ Value(p, B, R) = Number128(CollapseSum(B, R))
    BY <1>3 DEF Value, Collapse
  <2>7. Rows!Fold(p, Value(p, A, R), row) = Value(p, A, R) + Signed(row.x, "I64")
    <3>1. Rows!Fold(p, Value(p, A, R), row) = Value(p, A, R) + Rows!Signed(row.x, "I64")
      BY <1>3, AggIs DEF Rows!Fold
    <3>2. Rows!Signed(row.x, "I64") = Signed(row.x, "I64")
      BY Zenon, SameHelpers
    <3> QED BY <3>1, <3>2
  <2> DEFINE s == Signed(row.x, "I64")
             X == CollapseSum(A, R)
             Y == CollapseSum(ChangedAt(A, a, j, Carry(row.x)), R)
  <2>8. s \in Int
    BY <2>1, CarryTyped
  <2>9. -(Modulus("I64") * Half("I64")) <= Number128(X) + s /\ Number128(X) + s < Modulus("I64") * Half("I64")
    BY <1>3, <2>6, <2>7 DEF Fits
  <2>10. X \in Wide /\ Y \in Wide /\ Congruent(Square, Whole(Y), Whole(X) + s)
    BY <2>5
  <2> HIDE DEF s, X, Y
  <2>11. Number128(Y) = Number128(X) + s
    BY <2>8, <2>9, <2>10, NumberFollows
  <2>12. Value(p, ChangedAt(A, a, j, u), R) = Rows!Fold(p, Value(p, A, R), row)
    BY <2>3, <2>6, <2>7, <2>11 DEF s, X, Y
  <2>13. u \in [S -> S] /\ ChangedAt(A, a, j, u) \in Copies(S, m, p.lanes)
    BY <2>1, <2>2, <2>3, <2>5, CarryTyped DEF Copies
  <2> QED BY <2>12, <2>13
<1> QED BY <1>1, <1>2, <1>3

\* One row into the accumulator of the remainder.
LEMMA RestFolds ==
  ASSUME NEW p, IsProgram(p), p.agg # "Pack", NEW row \in TableRow(p), NEW R \in AccSet(p),
         NEW A, A = <<>> \/ LoopAccs(p, A), Fits(p, Rows!Fold(p, Value(p, A, R), row))
  PROVE  /\ ScalarStep(p, R, row) \in AccSet(p)
         /\ Value(p, A, ScalarStep(p, R, row)) = Rows!Fold(p, Value(p, A, R), row)
<1>0. A # <<>> => p.vector /\ \E m \in 1 .. Modulus("I64") : A \in Copies(AccSet(p), m, Lanes(p))
  BY DEF LoopAccs
<1>1. CASE p.agg \in {"Arith", "Countif"}
  <2> DEFINE S == Residues(p.t)
             z == [x \in S |-> Rows!Fold(p, x, row)]
  <2>1. AccSet(p) = S /\ p.t \in IntTypes
    BY <1>1, AggIs DEF AccSet
  <2>2. z = [x \in S |-> Rows!Fold(p, x, row)]
    OBVIOUS
  <2>3. Acts(Pairwise(CombineOp(p), p.t), z, S) /\ \A x \in S : z[x] = Rows!Fold(p, x, row) /\ ScalarStep(p, x, row) = z[x]
    <3>1. CASE p.agg = "Arith"
      <4> HIDE DEF z
      <4> QED BY <2>2, <3>1, ArithRow
    <3>2. CASE p.agg = "Countif"
      <4> DEFINE k == IF row.active THEN 1 ELSE 0
      <4>1. k \in Nat /\ CombineOp(p) = "Add"
        BY <3>2 DEF CombineOp
      <4>2. \A x \in S : x \in Int /\ Wrap(x, p.t) = x /\ x + 0 = x
        <5> TAKE x \in S
        <5>1. Modulus(p.t) \in Nat \ {0} /\ x \in 0 .. Modulus(p.t) - 1
          BY Zenon, <2>1, Widths
        <5>2. x % Modulus(p.t) = x
          <6> DEFINE M == Modulus(p.t)
          <6> HIDE DEF M
          <6> QED BY <5>1, SMT DEF M
        <5> QED BY <5>1, <5>2 DEF Wrap
      <4>3. \A x \in S : ScalarStep(p, x, row) = Wrap(x + k, p.t)
        BY <3>2, <4>2 DEF ScalarStep, Bool
      <4>4. \A x \in S : Rows!Fold(p, x, row) = Wrap(x + k, p.t)
        <5> TAKE x \in S
        <5>1. Rows!Wrap(x + 1, p.t) = Wrap(x + 1, p.t)
          BY Zenon, SameHelpers
        <5>2. CASE row.active
          BY <3>2, <5>1, <5>2 DEF Rows!Fold
        <5>3. CASE ~row.active
          <6>1. Rows!Fold(p, x, row) = x
            BY <5>3, RowIs DEF Rows!Fold
          <6> QED BY <4>2, <5>3, <6>1
        <5> QED BY <5>2, <5>3
      <4>5. z = [x \in S |-> Wrap(x + k, p.t)]
        BY <4>4
      <4> HIDE DEF z, k
      <4>6. Acts(Pairwise("Add", p.t), z, S)
        BY <2>1, <4>1, <4>5, CountActs
      <4>7. \A x \in S : z[x] = Rows!Fold(p, x, row)
        BY <2>2
      <4> QED BY <4>1, <4>3, <4>4, <4>6, <4>7
    <3> QED BY <1>1, <3>1, <3>2
  <2> HIDE DEF z
  <2>4. \A B : Value(p, A, B) = CollapseArith(p, A, B)
    BY <1>1 DEF Value, Collapse
  <2>5. ScalarStep(p, R, row) = z[R] /\ z[R] \in S
    BY <2>1, <2>3 DEF Acts
  <2>6. CASE A = <<>>
    <3>1. \A B : CollapseArith(p, A, B) = B
      BY <2>6 DEF CollapseArith
    <3> QED BY <2>1, <2>3, <2>4, <2>5, <3>1
  <2>7. CASE A # <<>>
    <3>1. IsArith(p)
      BY <1>0, <1>1, <2>7 DEF IsArith
    <3>2. PICK m \in 1 .. Modulus("I64") : A \in Copies(S, m, Lanes(p))
      BY <1>0, <2>1, <2>7
    <3>3. R \in Residues(p.t)
      BY <2>1
    <3>4. CollapseArith(p, A, R) \in Residues(p.t) /\ CollapseArith(p, A, z[R]) = z[CollapseArith(p, A, R)]
      BY Zenon, <2>3, <3>1, <3>2, <3>3, CollapseChanged
    <3> QED BY <2>1, <2>3, <2>4, <2>5, <3>4
  <2> QED BY <2>6, <2>7
<1>2. CASE p.agg = "Predicate"
  <2> DEFINE z == RowBit(p.op, row.x)
  <2>1. AccSet(p) = Truth /\ IsPredicate(p) /\ z = RowBit(p.op, row.x) /\ z \in [Truth -> Truth]
    BY <1>2 DEF AccSet, IsPredicate, RowBit, Bool, Truth
  <2> HIDE DEF z
  <2>2. row.x \in Truth /\ \A x \in Truth : z[x] = Rows!Fold(p, x, row) /\ ScalarStep(p, x, row) = z[x]
    BY <2>1, PredicateStep
  <2>3. \A B : Value(p, A, B) = CollapsePredicate(p, A, B)
    BY <1>2 DEF Value, Collapse
  <2>4. ScalarStep(p, R, row) = z[R] /\ z[R] \in Truth /\ R \in Truth
    BY <2>1, <2>2
  <2>5. CASE A = <<>>
    <3>1. \A B : CollapsePredicate(p, A, B) = B
      BY <2>5 DEF CollapsePredicate
    <3> QED BY <2>1, <2>2, <2>3, <2>4, <3>1
  <2>6. CASE A # <<>>
    <3>1. PICK m \in 1 .. Modulus("I64") : A \in Copies(Truth, m, p.lanes)
      BY <1>0, <1>2, <2>1, <2>6, LanesAre
    <3>2. CollapsePredicate(p, A, R) \in Truth /\ CollapsePredicate(p, A, z[R]) = z[CollapsePredicate(p, A, R)]
      BY <2>1, <2>2, <2>4, <3>1, PredicateChanged
    <3> QED BY <2>1, <2>2, <2>3, <2>4, <3>2
  <2> QED BY <2>5, <2>6
<1>3. CASE p.agg = "Sum128"
  <2> DEFINE s == Signed(row.x, "I64")
             Q == AddWide(R, row.x)
             X == CollapseSum(A, R)
             Y == CollapseSum(A, Q)
  <2>1. AccSet(p) = Wide /\ row.x \in Long /\ R \in Wide /\ ScalarStep(p, R, row) = Q
    BY <1>3, RowIs DEF AccSet, ScalarStep
  <2>2. \A B : Value(p, A, B) = Number128(CollapseSum(A, B))
    BY <1>3 DEF Value, Collapse
  <2>3. Rows!Fold(p, Value(p, A, R), row) = Value(p, A, R) + s
    <3>1. Rows!Fold(p, Value(p, A, R), row) = Value(p, A, R) + Rows!Signed(row.x, "I64")
      BY <1>3, AggIs DEF Rows!Fold
    <3>2. Rows!Signed(row.x, "I64") = Signed(row.x, "I64")
      BY Zenon, SameHelpers
    <3> QED BY <3>1, <3>2
  <2>4. s \in Int
    BY <2>1, CarryTyped
  <2>5. Q \in Wide /\ SameWhole(Whole(Q), Whole(R) + s)
    BY <2>1, AddWideSum
  <2>6. X \in Wide /\ Y \in Wide /\ Congruent(Square, Whole(Y), Whole(X) + s)
    <3>1. CASE A = <<>>
      <4>1. X = R /\ Y = Q
        <5> HIDE DEF Q
        <5> QED BY <2>1, <2>5, <3>1, EmptySum
      <4> QED BY <2>1, <2>5, <4>1, SquareIs
    <3>2. CASE A # <<>>
      <4>1. PICK m \in 1 .. Modulus("I64") : A \in Copies(Wide, m, p.lanes)
        BY <1>0, <1>3, <2>1, <3>2, LanesAre
      <4>2. PICK e \in Positions : p.lanes = 2 ^ e
        BY LanesAre
      <4>3. m \in Nat \ {0} /\ m <= Modulus("I64") /\ A \in [1 .. m -> [1 .. 2 ^ e -> Wide]]
        BY <4>1, <4>2, LongerThanAnyTable DEF Copies
      <4> QED BY Zenon, <2>1, <4>3, SumRest
    <3> QED BY <3>1, <3>2
  <2>7. -(Modulus("I64") * Half("I64")) <= Number128(X) + s /\ Number128(X) + s < Modulus("I64") * Half("I64")
    BY <1>3, <2>2, <2>3 DEF Fits
  <2> HIDE DEF s, X, Y
  <2>8. Number128(Y) = Number128(X) + s
    BY <2>4, <2>6, <2>7, NumberFollows
  <2> QED BY <2>1, <2>2, <2>3, <2>5, <2>8 DEF X, Y
<1> QED BY <1>1, <1>2, <1>3, AggIs

\* A vector of rows into the count of its copy.
LEMMA CountFolds ==
  ASSUME NEW p, IsProgram(p), p.vector, p.agg = "Countif", NEW m \in 1 .. Modulus("I64"),
         NEW A \in Copies(AccSet(p), m, Lanes(p)), NEW R \in AccSet(p), NEW a \in 1 .. m, NEW k \in Nat,
         NEW u, u = [s \in AccSet(p) |-> Wrap(s + k, p.t)]
  PROVE  /\ u \in [AccSet(p) -> AccSet(p)]
         /\ ChangedAt(A, a, 1, u) \in Copies(AccSet(p), m, Lanes(p))
         /\ Value(p, ChangedAt(A, a, 1, u), R) = Wrap(Value(p, A, R) + k, p.t)
<1> DEFINE S == Residues(p.t)
<1>1. AccSet(p) = S /\ p.t \in IntTypes /\ IsArith(p) /\ CombineOp(p) = "Add" /\ 1 \in 1 .. Lanes(p)
  BY AggIs DEF AccSet, IsArith, CombineOp, Lanes
<1>2. Acts(Pairwise(CombineOp(p), p.t), u, S) /\ u \in [S -> S]
  <2>1. Acts(Pairwise("Add", p.t), u, S)
    BY <1>1, CountActs
  <2> QED BY <1>1, <2>1 DEF Acts
<1>3. A \in Copies(S, m, Lanes(p)) /\ R \in S
  BY <1>1
<1>4. CollapseArith(p, A, R) \in S
  BY Zenon, <1>1, <1>2, <1>3, CollapseChanged
<1>5. /\ ChangedAt(A, a, 1, u) \in Copies(S, m, Lanes(p))
      /\ CollapseArith(p, ChangedAt(A, a, 1, u), R) = u[CollapseArith(p, A, R)]
  BY <1>1, <1>2, <1>3, CollapseChanged
<1>6. \A B : Value(p, B, R) = CollapseArith(p, B, R)
  BY DEF Value, Collapse
<1> QED BY <1>1, <1>2, <1>4, <1>5, <1>6

\* The accumulators of the prologue stand for the value of no rows.
LEMMA StartFolds ==
  ASSUME NEW p, IsProgram(p), p.agg # "Pack"
  PROVE  /\ AccInit(p) \in AccSet(p) /\ Value(p, <<>>, AccInit(p)) = Rows!Neutral(p)
         /\ p.vector => \A m \in 1 .. Modulus("I64") :
              /\ Seq1(m, Seq1(Lanes(p), AccInit(p))) \in Copies(AccSet(p), m, Lanes(p))
              /\ Value(p, Seq1(m, Seq1(Lanes(p), AccInit(p))), AccInit(p)) = Rows!Neutral(p)
<1>1. CASE p.agg \in {"Arith", "Countif"}
  <2>1. AccSet(p) = Residues(p.t) /\ AccInit(p) = AggInit(p) /\ \A A, R : Value(p, A, R) = CollapseArith(p, A, R)
    BY <1>1 DEF AccSet, AccInit, Value, Collapse
  <2>2. AggInit(p) = Rows!Neutral(p) /\ AggInit(p) \in Residues(p.t)
    BY <1>1, ArithNeutral
  <2>3. CollapseArith(p, <<>>, AggInit(p)) = AggInit(p)
    BY DEF CollapseArith
  <2>4. ASSUME p.vector, NEW m \in 1 .. Modulus("I64")
        PROVE  /\ Seq1(m, Seq1(Lanes(p), AggInit(p))) \in Copies(Residues(p.t), m, Lanes(p))
               /\ CollapseArith(p, Seq1(m, Seq1(Lanes(p), AggInit(p))), AggInit(p)) = Rows!Neutral(p)
    <3>1. IsArith(p)
      BY <1>1, <2>4 DEF IsArith
    <3> QED BY <3>1, CollapseNeutral
  <2> QED BY <2>1, <2>2, <2>3, <2>4
<1>2. CASE p.agg = "Predicate"
  <2>1. /\ AccSet(p) = Truth /\ AccInit(p) = AggInit(p) /\ \A A, R : Value(p, A, R) = CollapsePredicate(p, A, R)
        /\ IsPredicate(p) /\ Lanes(p) = p.lanes
    BY <1>2 DEF AccSet, AccInit, Value, Collapse, IsPredicate, Lanes
  <2>2. ASSUME NEW m \in 1 .. Modulus("I64")
        PROVE  /\ AggInit(p) = Rows!Neutral(p) /\ AggInit(p) \in Truth
               /\ Seq1(m, Seq1(p.lanes, AggInit(p))) \in Copies(Truth, m, p.lanes)
               /\ CollapsePredicate(p, Seq1(m, Seq1(p.lanes, AggInit(p))), AggInit(p)) = Rows!Neutral(p)
    BY <2>1, PredicateNeutral
  <2>3. 1 \in 1 .. Modulus("I64")
    BY LongIs
  <2>4. AggInit(p) = Rows!Neutral(p) /\ AggInit(p) \in Truth
    BY <2>2, <2>3
  <2>5. CollapsePredicate(p, <<>>, AggInit(p)) = AggInit(p)
    BY DEF CollapsePredicate
  <2> QED BY <2>1, <2>2, <2>4, <2>5
<1>3. CASE p.agg = "Sum128"
  <2>1. /\ AccSet(p) = Wide /\ AccInit(p) = <<0, 0>> /\ Lanes(p) = p.lanes /\ Rows!Neutral(p) = 0
        /\ \A A, R : Value(p, A, R) = Number128(CollapseSum(A, R))
    BY <1>3 DEF AccSet, AccInit, Value, Collapse, Lanes, Rows!Neutral
  <2>2. PICK e \in Positions : p.lanes = 2 ^ e
    BY LanesAre
  <2>3. ASSUME NEW m \in 1 .. Modulus("I64")
        PROVE  /\ <<0, 0>> \in Wide
               /\ Seq1(m, Seq1(2 ^ e, <<0, 0>>)) \in [1 .. m -> [1 .. 2 ^ e -> Wide]]
               /\ Number128(CollapseSum(Seq1(m, Seq1(2 ^ e, <<0, 0>>)), <<0, 0>>)) = 0
    <3>1. m \in Nat \ {0} /\ m <= Modulus("I64")
      BY LongerThanAnyTable
    <3> QED BY <3>1, SumNeutral
  <2>4. 1 \in 1 .. Modulus("I64")
    BY LongIs
  <2>5. <<0, 0>> \in Wide
    BY <2>3, <2>4
  <2>6. Number128(CollapseSum(<<>>, <<0, 0>>)) = 0
    <3>1. CollapseSum(<<>>, <<0, 0>>) = <<0, 0>>
      <4> DEFINE z == <<0, 0>>
      <4>1. z \in Wide
        BY <2>5
      <4> HIDE DEF z
      <4>2. CollapseSum(<<>>, z) = z
        BY <4>1, EmptySum
      <4> QED BY <4>2 DEF z
    <3>2. Signed(0, "I64") = 0
      <4>1. 0 \in Long
        BY LongIs
      <4> QED BY <4>1, LongIs, SignedValue DEF Long
    <3>3. 0 * Modulus("I64") + 0 = 0
      BY LongIs, SMT
    <3> QED BY <3>1, <3>2, <3>3 DEF Number128
  <2> QED BY <2>1, <2>2, <2>3, <2>5, <2>6 DEF Copies
<1> QED BY <1>1, <1>2, <1>3, AggIs

(***************************************************************************)
(* One vector of rows into one copy.                                        *)
(***************************************************************************)
CopyStep(p, A, a, block) == [A EXCEPT ![a] = VecStep(p, @, block)]
RowsAt(p, table, k) == [l \in 1 .. p.lanes |-> table[k + l]]

\* The first lanes of the vector are done.
LanesDone(p, v, block, l) == [q \in 1 .. p.lanes |-> IF q <= l THEN VecLane(p, v[q], block[q]) ELSE v[q]]
CopyDone(p, A, a, block, l) == [A EXCEPT ![a] = LanesDone(p, @, block, l)]

\* One more lane of a vector is one more change of one accumulator.
LEMMA NextLane ==
  ASSUME NEW p, IsProgram(p), p.vector, p.agg \in {"Arith", "Predicate", "Sum128"}, NEW block, NEW row,
         NEW m \in Nat, NEW A \in Copies(AccSet(p), m, p.lanes), NEW a \in 1 .. m,
         NEW l \in Nat, l + 1 <= p.lanes, block[l + 1] = row,
         NEW u, u = IntoLane(p, row)
  PROVE  CopyDone(p, A, a, block, l + 1) = ChangedAt(CopyDone(p, A, a, block, l), a, l + 1, u)
<1> DEFINE n == p.lanes
           v == A[a]
           E == LanesDone(p, v, block, l)
           F == LanesDone(p, v, block, l + 1)
           j == l + 1
<1>1. n \in Nat \ {0} /\ j \in 1 .. n /\ A \in [1 .. m -> [1 .. n -> AccSet(p)]] /\ v \in [1 .. n -> AccSet(p)]
  BY LanesAre DEF Copies
<1>2. E[j] = v[j] /\ ~(j <= l) /\ v[j] \in AccSet(p)
  BY <1>1 DEF LanesDone
<1>3. Changed(E, j, u) = F
  <2>1. DOMAIN E = 1 .. n /\ DOMAIN F = 1 .. n /\ F = [q \in 1 .. n |-> F[q]]
    BY DEF LanesDone
  <2>2. Changed(E, j, u) = [q \in 1 .. n |-> IF q = j THEN u[E[j]] ELSE E[q]]
    <3> HIDE DEF E, n, j
    <3>1. DOMAIN E = 1 .. n
      BY <2>1
    <3>2. Changed(E, j, u) = [E EXCEPT ![j] = u[E[j]]]
      BY DEF Changed
    <3>3. Changed(E, j, u) = [q \in DOMAIN E |-> IF q = j THEN u[E[j]] ELSE E[q]]
      BY Zenon, <3>2
    <3> QED BY <3>1, <3>3
  <2>3. ASSUME NEW q \in 1 .. n PROVE F[q] = IF q = j THEN u[E[j]] ELSE E[q]
    <3>1. CASE q = j
      <4>1. F[q] = VecLane(p, v[q], block[q])
        BY <3>1, <1>1 DEF LanesDone
      <4>2. u[E[j]] = VecLane(p, v[j], row)
        <5> HIDE DEF E, v, j
        <5> QED BY <1>2 DEF IntoLane
      <4> QED BY <3>1, <4>1, <4>2
    <3>2. CASE q # j
      <4>1. q <= l <=> q <= l + 1
        BY <1>1, <3>2
      <4>2. E[q] = (IF q <= l THEN VecLane(p, v[q], block[q]) ELSE v[q])
        BY DEF LanesDone
      <4>3. F[q] = (IF q <= l + 1 THEN VecLane(p, v[q], block[q]) ELSE v[q])
        BY DEF LanesDone
      <4> HIDE DEF E, F, v, j
      <4> QED BY Zenon, <3>2, <4>1, <4>2, <4>3
    <3> QED BY <3>1, <3>2
  <2> HIDE DEF E, F, n
  <2> QED BY Zenon, <2>1, <2>2, <2>3
<1>4. CopyDone(p, A, a, block, l) = [A EXCEPT ![a] = E] /\ CopyDone(p, A, a, block, l + 1) = [A EXCEPT ![a] = F]
  BY DEF CopyDone
<1> DEFINE B == [A EXCEPT ![a] = E]
<1>5. DOMAIN B = 1 .. m /\ B[a] = E
  BY <1>1
<1>6. ChangedAt(B, a, j, u) = [A EXCEPT ![a] = F]
  <2> HIDE DEF E, F, j
  <2>1. ChangedAt(B, a, j, u) = [B EXCEPT ![a] = Changed(E, j, u)]
    BY <1>5 DEF ChangedAt
  <2> QED BY Zenon, <1>1, <1>3, <2>1
<1> QED BY <1>4, <1>6

\* What a copy does to its accumulators is what the fold does with its rows.
CopyFolded(p, table, T, k, A, B, R, m) ==
  /\ B \in Copies(AccSet(p), m, Lanes(p))
  /\ Value(p, B, R) = T[k + p.lanes]

\* A vector of rows enters its copy as the fold of those rows, one after another.
LEMMA LanesFold ==
  ASSUME NEW p, IsProgram(p), p.vector, p.agg \in {"Arith", "Predicate", "Sum128"},
         NEW table, IsTable(p, table), NEW T, IsFold(T, p, table),
         NEW k \in Nat, k + p.lanes <= Len(table), NEW m \in 1 .. Modulus("I64"),
         NEW A \in Copies(AccSet(p), m, Lanes(p)), NEW R \in AccSet(p), NEW a \in 1 .. m, Value(p, A, R) = T[k]
  PROVE  CopyFolded(p, table, T, k, A, CopyStep(p, A, a, RowsAt(p, table, k)), R, m)
<1> DEFINE n == p.lanes
           block == RowsAt(p, table, k)
           S == AccSet(p)
           D(l) == CopyDone(p, A, a, block, l)
           W == {l \in Nat : l <= n => D(l) \in Copies(S, m, n) /\ Value(p, D(l), R) = T[k + l]}
<1>1. n \in Nat \ {0} /\ Lanes(p) = n /\ A \in Copies(S, m, n) /\ DOMAIN block = 1 .. n
  BY LanesAre DEF RowsAt
<1>2. /\ DOMAIN A = 1 .. m /\ m \in Nat /\ A[a] \in [1 .. n -> S] /\ DOMAIN A[a] = 1 .. n
  BY <1>1 DEF Copies
<1>3. D(0) = A
  <2>1. LanesDone(p, A[a], block, 0) = [q \in 1 .. n |-> A[a][q]]
    <3>1. \A q \in 1 .. n : ~(q <= 0)
      BY <1>1
    <3> QED BY <3>1 DEF LanesDone
  <2>2. LanesDone(p, A[a], block, 0) = A[a]
    BY Zenon, <1>2, <2>1
  <2>3. D(0) = [A EXCEPT ![a] = LanesDone(p, A[a], block, 0)]
    BY DEF CopyDone
  <2>4. D(0) = [A EXCEPT ![a] = A[a]]
    BY <2>2, <2>3
  <2>5. A = [c \in 1 .. m |-> A[c]]
    BY <1>1 DEF Copies
  <2> HIDE DEF D
  <2> QED BY <1>2, <2>4, <2>5
<1>4. D(n) = CopyStep(p, A, a, block)
  <2>1. LanesDone(p, A[a], block, n) = VecStep(p, A[a], block)
    <3>1. VecStep(p, A[a], block) = [l \in DOMAIN block |-> VecLane(p, A[a][l], block[l])]
      BY DEF VecStep
    <3>2. \A q \in 1 .. n : q <= n
      BY <1>1
    <3> HIDE DEF block
    <3> QED BY <1>1, <3>1, <3>2 DEF LanesDone
  <2>2. D(n) = [A EXCEPT ![a] = LanesDone(p, A[a], block, n)]
    BY DEF CopyDone
  <2>3. CopyStep(p, A, a, block) = [A EXCEPT ![a] = VecStep(p, A[a], block)]
    BY DEF CopyStep
  <2> QED BY <2>1, <2>2, <2>3
<1> HIDE DEF D
<1>5. 0 \in W
  BY <1>1, <1>3
<1>6. ASSUME NEW l \in Nat, l \in W PROVE l + 1 \in W
  <2> SUFFICES ASSUME l + 1 <= n
               PROVE  D(l + 1) \in Copies(S, m, n) /\ Value(p, D(l + 1), R) = T[k + (l + 1)]
    OBVIOUS
  <2> DEFINE row == table[k + (l + 1)]
             u == IntoLane(p, row)
             j == l + 1
  <2>1. j \in 1 .. n /\ k + j \in 1 .. Len(table) /\ (k + j) - 1 = k + l /\ l <= n /\ k + j \in 0 .. Len(table)
    <3>1. Len(table) \in Nat
      BY DEF IsTable
    <3> HIDE DEF n
    <3> QED BY <1>1, <3>1 DEF n
  <2>2. D(l) \in Copies(S, m, n) /\ Value(p, D(l), R) = T[k + l]
    BY <1>6, <2>1
  <2>3. block[j] = row /\ row \in TableRow(p)
    BY <2>1 DEF RowsAt, IsTable
  <2>4. T[k + j] = Rows!Fold(p, T[k + l], row)
    BY <2>1 DEF IsFold
  <2>5. Fits(p, T[k + j])
    BY <2>1, FoldFits
  <2>6. Fits(p, Rows!Fold(p, Value(p, D(l), R), row))
    BY <2>2, <2>4, <2>5
  <2>7. u = [s \in AccSet(p) |-> VecLane(p, s, row)] /\ u = IntoLane(p, row)
    BY DEF IntoLane
  <2>8. D(j) = ChangedAt(D(l), a, j, u)
    <3> HIDE DEF u, row, block
    <3>1. /\ A \in Copies(AccSet(p), m, p.lanes) /\ l + 1 <= p.lanes /\ block[l + 1] = row
          /\ u = IntoLane(p, row) /\ m \in Nat
      BY <1>1, <1>2, <2>1, <2>3, <2>7
    <3>2. CopyDone(p, A, a, block, l + 1) = ChangedAt(CopyDone(p, A, a, block, l), a, l + 1, u)
      BY <3>1, NextLane
    <3> QED BY <3>2 DEF D
  <2> HIDE DEF u, row, j, block
  <2>9. /\ ChangedAt(D(l), a, j, u) \in Copies(S, m, n)
        /\ Value(p, ChangedAt(D(l), a, j, u), R) = Rows!Fold(p, Value(p, D(l), R), row)
    <3> DEFINE B == D(l)
    <3>1. /\ B \in Copies(AccSet(p), m, p.lanes) /\ j \in 1 .. p.lanes /\ row \in TableRow(p)
          /\ u = IntoLane(p, row) /\ Fits(p, Rows!Fold(p, Value(p, B, R), row))
      BY <2>1, <2>2, <2>3, <2>6, <2>7
    <3> HIDE DEF B
    <3>2. /\ ChangedAt(B, a, j, u) \in Copies(AccSet(p), m, p.lanes)
          /\ Value(p, ChangedAt(B, a, j, u), R) = Rows!Fold(p, Value(p, B, R), row)
      BY Zenon, <3>1, LaneFolds
    <3> QED BY <3>2 DEF B
  <2> QED BY <2>2, <2>4, <2>8, <2>9 DEF j
<1>7. Nat \subseteq W
  <2> HIDE DEF W
  <2> QED BY Zenon, <1>5, <1>6, NaturalInduction
<1>8. D(n) \in Copies(S, m, n) /\ Value(p, D(n), R) = T[k + n]
  BY <1>1, <1>7
<1> QED BY <1>1, <1>4, <1>8 DEF CopyFolded

\* The rows of a count, one more at a time.
Active(block, l) == Cardinality({q \in 1 .. l : block[q].active})

LEMMA ActiveGrows ==
  ASSUME NEW block, NEW l \in Nat
  PROVE  /\ Active(block, 0) = 0 /\ Active(block, l) \in Nat
         /\ Active(block, l + 1) = Active(block, l) + (IF block[l + 1].active THEN 1 ELSE 0)
<1> DEFINE G(i) == {q \in 1 .. i : block[q].active}
<1>1. IsFiniteSet(G(l)) /\ Cardinality(G(l)) \in Nat
  <2>1. IsFiniteSet(1 .. l)
    BY FS_Interval
  <2>2. G(l) \subseteq 1 .. l
    OBVIOUS
  <2> HIDE DEF G
  <2> QED BY <2>1, <2>2, FS_Subset, FS_CardinalityType
<1>2. Cardinality(G(0)) = 0
  <2>1. G(0) = {}
    OBVIOUS
  <2> QED BY <2>1, FS_EmptySet
<1>0. \A i : Active(block, i) = Cardinality(G(i))
  BY DEF Active
<1>3. CASE block[l + 1].active
  <2>1. G(l + 1) = G(l) \cup {l + 1} /\ l + 1 \notin G(l)
    BY <1>3
  <2> HIDE DEF G
  <2>2. Cardinality(G(l) \cup {l + 1}) = Cardinality(G(l)) + 1
    BY <1>1, <2>1, FS_AddElement
  <2> QED BY <1>0, <1>1, <1>2, <1>3, <2>1, <2>2
<1>4. CASE ~block[l + 1].active
  <2>1. G(l + 1) = G(l)
    BY <1>4
  <2> HIDE DEF G
  <2>2. Active(block, l + 1) = Active(block, l)
    BY <1>0, <2>1
  <2>3. Active(block, l) \in Nat /\ Active(block, 0) = 0
    BY <1>0, <1>1, <1>2
  <2>4. Active(block, l) + 0 = Active(block, l)
    BY <2>3
  <2> QED BY <1>4, <2>2, <2>3, <2>4
<1> QED BY <1>3, <1>4

\* So does the number of its active rows.
LEMMA CountsFold ==
  ASSUME NEW p, IsProgram(p), p.vector, p.agg = "Countif",
         NEW table, IsTable(p, table), NEW T, IsFold(T, p, table),
         NEW k \in Nat, k + p.lanes <= Len(table), NEW m \in 1 .. Modulus("I64"),
         NEW A \in Copies(AccSet(p), m, Lanes(p)), NEW R \in AccSet(p), NEW a \in 1 .. m, Value(p, A, R) = T[k]
  PROVE  CopyFolded(p, table, T, k, A, CopyStep(p, A, a, RowsAt(p, table, k)), R, m)
<1> DEFINE n == p.lanes
           block == RowsAt(p, table, k)
           S == Residues(p.t)
           M == Modulus(p.t)
           W == {l \in Nat : l <= n => T[k + l] = Wrap(T[k] + Active(block, l), p.t)}
<1>1. n \in Nat \ {0} /\ Lanes(p) = 1 /\ DOMAIN block = 1 .. n /\ p.t \in IntTypes /\ AccSet(p) = S
  BY LanesAre, AggIs DEF RowsAt, AccSet
<1>2. Len(table) \in Nat /\ M \in Nat \ {0} /\ S = 0 .. M - 1
  BY <1>1, Widths DEF IsTable
<1>3. \A l \in 0 .. n : k + l \in 0 .. Len(table) /\ T[k + l] \in S /\ T[k + l] \in Int
  <2> TAKE l \in 0 .. n
  <2>1. k + l \in 0 .. Len(table)
    <3> HIDE DEF n
    <3> QED BY <1>1, <1>2 DEF n
  <2>2. T[k + l] \in S
    BY <2>1 DEF IsFold, ValueSet
  <2> HIDE DEF S, M, n
  <2> QED BY <1>2, <2>1, <2>2
<1>4. T[k] \in S /\ T[k] \in Int
  <2>1. 0 \in 0 .. n /\ k + 0 = k
    BY <1>1
  <2> HIDE DEF S, n
  <2> QED BY <1>3, <2>1
<1>5. \A x \in S : Wrap(x, p.t) = x
  <2> TAKE x \in S
  <2>1. Wrap(x, p.t) = x % M
    BY DEF Wrap
  <2> HIDE DEF M, S
  <2>2. x % M = x
    BY <1>2, SMT
  <2> QED BY <2>1, <2>2
<1>6. 0 \in W
  <2>1. T[k] + 0 = T[k] /\ k + 0 = k
    BY <1>4
  <2>2. Active(block, 0) = 0
    BY ActiveGrows
  <2> HIDE DEF block, S
  <2> QED BY <1>4, <1>5, <2>1, <2>2
<1>7. ASSUME NEW l \in Nat, l \in W PROVE l + 1 \in W
  <2> SUFFICES ASSUME l + 1 <= n
               PROVE  T[k + (l + 1)] = Wrap(T[k] + Active(block, l + 1), p.t)
    OBVIOUS
  <2> DEFINE row == table[k + (l + 1)]
             j == l + 1
             c == Active(block, l)
             x == T[k] + c
  <2>1. j \in 1 .. n /\ k + j \in 1 .. Len(table) /\ (k + j) - 1 = k + l /\ l <= n /\ l \in 0 .. n
    <3> HIDE DEF n
    <3> QED BY <1>1, <1>2 DEF n
  <2>2. T[k + l] = Wrap(x, p.t)
    BY <1>7, <2>1
  <2>3. block[j] = row /\ row \in TableRow(p)
    BY <2>1 DEF RowsAt, IsTable
  <2>4. T[k + j] = Rows!Fold(p, T[k + l], row)
    BY <2>1 DEF IsFold
  <2>5. c \in Nat /\ Active(block, j) = c + (IF block[j].active THEN 1 ELSE 0)
    <3> HIDE DEF block
    <3> QED BY ActiveGrows
  <2>6. x \in Int
    BY <1>4, <2>5
  <2>7. CASE row.active
    <3>1. Rows!Fold(p, T[k + l], row) = Rows!Wrap(T[k + l] + 1, p.t)
      BY <2>7 DEF Rows!Fold
    <3>2. Rows!Wrap(T[k + l] + 1, p.t) = Wrap(T[k + l] + 1, p.t)
      BY Zenon, SameHelpers
    <3>3. Wrap(Wrap(x, p.t) + 1, p.t) = Wrap(x + 1, p.t)
      <4>1. ((x % M) + 1) % M = (x + 1) % M
        <5> DEFINE y == 1
        <5>1. x \in Int /\ y \in Int /\ M \in Nat \ {0}
          BY <1>2, <2>6
        <5> HIDE DEF M, x, y
        <5>2. ((x % M) + y) % M = (x + y) % M
          BY Zenon, <5>1, ModSums
        <5> QED BY <5>2 DEF y
      <4> QED BY <4>1 DEF Wrap
    <3>4. x + 1 = T[k] + Active(block, j)
      <4> HIDE DEF block, j, c
      <4> QED BY <1>4, <2>3, <2>5, <2>7
    <3> QED BY <2>2, <2>4, <3>1, <3>2, <3>3, <3>4
  <2>8. CASE ~row.active
    <3>1. Rows!Fold(p, T[k + l], row) = T[k + l]
      BY <2>3, <2>8, RowIs DEF Rows!Fold
    <3>2. Active(block, j) = c
      <4> HIDE DEF block, j, c
      <4> QED BY <2>3, <2>5, <2>8
    <3> QED BY <2>2, <2>4, <3>1, <3>2
  <2> QED BY <2>7, <2>8
<1>8. Nat \subseteq W
  <2> HIDE DEF W
  <2> QED BY Zenon, <1>6, <1>7, NaturalInduction
<1> DEFINE c == Active(block, n)
           u == [s \in AccSet(p) |-> Wrap(s + c, p.t)]
<1>9. T[k + n] = Wrap(T[k] + c, p.t) /\ c \in Nat
  <2>1. T[k + n] = Wrap(T[k] + c, p.t)
    BY <1>1, <1>8
  <2>2. Active(block, n) \in Nat
    <3> HIDE DEF block, n
    <3> QED BY <1>1, ActiveGrows
  <2> QED BY <2>1, <2>2
<1>10. CopyStep(p, A, a, block) = ChangedAt(A, a, 1, u)
  <2>1. A \in [1 .. m -> [1 .. 1 -> S]] /\ A[a] \in [1 .. 1 -> S] /\ A[a][1] \in S /\ DOMAIN A[a] = {1}
    BY <1>1 DEF Copies
  <2>2. VecStep(p, A[a], block) = <<Wrap(A[a][1] + c, p.t)>>
    <3>1. {l \in DOMAIN block : block[l].active} = {q \in 1 .. n : block[q].active}
      <4> HIDE DEF block
      <4> QED BY <1>1
    <3>2. c = Cardinality({l \in DOMAIN block : block[l].active})
      BY Zenon, <3>1 DEF Active
    <3> QED BY <3>2 DEF VecStep
  <2>3. Changed(A[a], 1, u) = <<Wrap(A[a][1] + c, p.t)>>
    <3> DEFINE w == Wrap(A[a][1] + c, p.t)
    <3>1. u[A[a][1]] = w
      BY <1>1, <2>1
    <3>2. Changed(A[a], 1, u) = [A[a] EXCEPT ![1] = u[A[a][1]]]
      BY DEF Changed
    <3>3. Changed(A[a], 1, u) = [A[a] EXCEPT ![1] = w]
      BY <3>1, <3>2
    <3> HIDE DEF w, u
    <3>4. [A[a] EXCEPT ![1] = w] = [q \in {1} |-> w]
      BY Zenon, <2>1
    <3>5. <<w>> = [q \in {1} |-> w]
      OBVIOUS
    <3> QED BY <3>3, <3>4, <3>5 DEF w
  <2>4. CopyStep(p, A, a, block) = [A EXCEPT ![a] = VecStep(p, A[a], block)]
    BY DEF CopyStep
  <2>5. ChangedAt(A, a, 1, u) = [A EXCEPT ![a] = Changed(A[a], 1, u)]
    BY DEF ChangedAt
  <2> QED BY Zenon, <2>2, <2>3, <2>4, <2>5
<1>11. u = [s \in AccSet(p) |-> Wrap(s + c, p.t)]
  OBVIOUS
<1> HIDE DEF u, c
<1>12. /\ ChangedAt(A, a, 1, u) \in Copies(AccSet(p), m, Lanes(p))
       /\ Value(p, ChangedAt(A, a, 1, u), R) = Wrap(Value(p, A, R) + c, p.t)
  BY <1>9, <1>11, CountFolds
<1> QED BY <1>9, <1>10, <1>12 DEF CopyFolded

LEMMA LaneTyped ==
  ASSUME NEW p, IsProgram(p), p.agg \in {"Arith", "Predicate", "Sum128"}, NEW row \in TableRow(p), NEW s \in AccSet(p)
  PROVE  VecLane(p, s, row) \in AccSet(p)
<1>1. CASE p.agg = "Arith"
  <2> DEFINE z == [x \in Residues(p.t) |-> Rows!Fold(p, x, row)]
  <2>1. AccSet(p) = Residues(p.t) /\ z = [x \in Residues(p.t) |-> Rows!Fold(p, x, row)]
    BY <1>1 DEF AccSet
  <2> HIDE DEF z
  <2>2. Acts(Pairwise(CombineOp(p), p.t), z, Residues(p.t))
    BY <1>1, <2>1, ArithRow
  <2>3. \A x \in Residues(p.t) : VecLane(p, x, row) = z[x]
    BY <1>1, <2>1, ArithRow
  <2> QED BY <2>1, <2>2, <2>3 DEF Acts
<1>2. CASE p.agg = "Predicate"
  BY <1>2 DEF AccSet, VecLane, Truth, Bool
<1>3. CASE p.agg = "Sum128"
  <2>1. VecLane(p, s, row) = AddWide(s, row.x) /\ AccSet(p) = Wide /\ row.x \in Long
    BY <1>3, RowIs DEF VecLane, AccSet
  <2> QED BY <2>1, AddWideSum
<1> QED BY <1>1, <1>2, <1>3

\* A vector of rows leaves accumulators accumulators.
LEMMA CopyTyped ==
  ASSUME NEW p, IsProgram(p), p.vector, p.agg # "Pack", NEW table, IsTable(p, table),
         NEW k \in Nat, k + p.lanes <= Len(table), NEW m \in Nat, NEW B \in Copies(AccSet(p), m, Lanes(p)), NEW a \in 1 .. m
  PROVE  CopyStep(p, B, a, RowsAt(p, table, k)) \in Copies(AccSet(p), m, Lanes(p))
<1> DEFINE n == p.lanes
           S == AccSet(p)
           block == RowsAt(p, table, k)
           v == VecStep(p, B[a], block)
<1>1. n \in Nat \ {0} /\ DOMAIN block = 1 .. n /\ B[a] \in [1 .. Lanes(p) -> S] /\ Len(table) \in Nat
  BY LanesAre DEF RowsAt, Copies, IsTable
<1>2. v \in [1 .. Lanes(p) -> S]
  <2>1. CASE p.agg = "Countif"
    <3> DEFINE c == Active(block, n)
    <3>1. Lanes(p) = 1 /\ S = Residues(p.t) /\ p.t \in IntTypes
      BY <2>1, LanesAre, AggIs DEF AccSet
    <3>2. {l \in DOMAIN block : block[l].active} = {q \in 1 .. n : block[q].active}
      <4> HIDE DEF block
      <4> QED BY <1>1
    <3>3. v = <<Wrap(B[a][1] + c, p.t)>>
      <4>1. c = Cardinality({l \in DOMAIN block : block[l].active})
        BY Zenon, <3>2 DEF Active
      <4> QED BY <2>1, <4>1 DEF VecStep
    <3>4. c \in Nat
      <4> HIDE DEF block, n
      <4> QED BY <1>1, ActiveGrows
    <3>5. B[a][1] \in Int
      <4>1. B[a][1] \in S /\ Modulus(p.t) \in Nat \ {0} /\ S = 0 .. Modulus(p.t) - 1
        BY <1>1, <3>1, Widths
      <4> QED BY <4>1
    <3> HIDE DEF c
    <3>6. Wrap(B[a][1] + c, p.t) \in S
      BY <3>1, <3>4, <3>5, WrapInRange
    <3> HIDE DEF S, v
    <3> DEFINE w == Wrap(B[a][1] + c, p.t)
    <3>7. w \in S /\ v = <<w>>
      BY <3>3, <3>6
    <3> HIDE DEF w
    <3> QED BY <3>1, <3>7
  <2>2. CASE p.agg \in {"Arith", "Predicate", "Sum128"}
    <3>1. Lanes(p) = n /\ v = [l \in 1 .. n |-> VecLane(p, B[a][l], block[l])]
      BY <1>1, <2>2 DEF VecStep, Lanes
    <3>2. ASSUME NEW l \in 1 .. n PROVE VecLane(p, B[a][l], block[l]) \in S
      <4>1. k + l \in 1 .. Len(table)
        <5> HIDE DEF n
        <5> QED BY <1>1 DEF n
      <4>2. block[l] \in TableRow(p)
        BY <4>1 DEF RowsAt, IsTable
      <4>3. B[a][l] \in S
        BY Zenon, <1>1, <3>1
      <4> HIDE DEF S, block
      <4> QED BY <2>2, <4>2, <4>3, LaneTyped DEF S
    <3> HIDE DEF S, v
    <3> QED BY <3>1, <3>2
  <2> QED BY <2>1, <2>2, AggIs
<1>3. CopyStep(p, B, a, block) = [B EXCEPT ![a] = v]
  BY DEF CopyStep
<1> HIDE DEF v, S
<1> QED BY <1>2, <1>3 DEF Copies, S

\* The copies of the main loop, one after the other.
IsLoop(f, p, A, table, k) ==
  /\ f[0] = A
  /\ \A c \in 1 .. p.copies : f[c] = CopyStep(p, f[c - 1], MainOf(p, c), RowsAt(p, table, k + (c - 1) * p.lanes))

\* Every copy has an accumulator.
LEMMA MainIs ==
  ASSUME NEW p, IsProgram(p), p.vector, p.agg # "Pack"
  PROVE  /\ MainCount(p) \in 1 .. Modulus("I64") /\ p.copies \in Nat \ {0}
         /\ \A c \in 1 .. p.copies : MainOf(p, c) \in 1 .. MainCount(p)
<1>1. p.copies \in 1 .. Modulus("I64") /\ Modulus("I64") \in Nat \ {0} /\ p.split \in BOOLEAN
  BY LongIs DEF IsProgram
<1>2. CASE p.split
  BY <1>1, <1>2 DEF MainCount, MainOf
<1>3. CASE ~p.split
  BY <1>1, <1>3 DEF MainCount, MainOf
<1> QED BY <1>2, <1>3

LEMMA CopyBounds ==
  ASSUME NEW n \in Nat \ {0}, NEW g \in Nat \ {0}, NEW c \in 1 .. g, NEW k \in Nat, NEW N \in Nat, k + n * g <= N
  PROVE  k + (c - 1) * n \in Nat /\ (k + (c - 1) * n) + n <= N /\ (k + (c - 1) * n) + n = k + c * n
<1> DEFINE x == (c - 1) * n
           y == n * g
           z == c * n
<1>1. x \in Nat /\ y \in Nat /\ z \in Nat
  BY SMT
<1>2. z = x + n
  BY SMT
<1>3. z <= y
  <2>1. g - c \in Nat
    OBVIOUS
  <2>2. y = z + (g - c) * n /\ (g - c) * n \in Nat
    BY <2>1, SMT
  <2> DEFINE w == (g - c) * n
  <2> HIDE DEF w, y, z
  <2> QED BY <1>1, <2>2 DEF w
<1> HIDE DEF x, y, z
<1>4. k + y <= N
  BY DEF y
<1>5. k + x \in Nat /\ (k + x) + n <= N /\ (k + x) + n = k + z
  BY <1>1, <1>2, <1>3, <1>4
<1> QED BY <1>5 DEF x, z

LoopFolded(f, p, T, k, R) ==
  /\ f[p.copies] \in Copies(AccSet(p), MainCount(p), Lanes(p))
  /\ Value(p, f[p.copies], R) = T[k + LoopWidth(p)]

\* The copies of a pass fold their vectors of rows, one after another.
LEMMA LoopFolds ==
  ASSUME NEW p, IsProgram(p), p.vector, p.agg # "Pack", NEW table, IsTable(p, table), NEW T, IsFold(T, p, table),
         NEW k \in Nat, k + LoopWidth(p) <= Len(table),
         NEW A \in Copies(AccSet(p), MainCount(p), Lanes(p)), NEW R \in AccSet(p), Value(p, A, R) = T[k],
         NEW f, IsLoop(f, p, A, table, k)
  PROVE  LoopFolded(f, p, T, k, R)
<1> DEFINE n == p.lanes
           g == p.copies
           m == MainCount(p)
           Z == Copies(AccSet(p), m, Lanes(p))
           N == Len(table)
           W == {c \in Nat : c <= g => f[c] \in Z /\ Value(p, f[c], R) = T[k + c * n]}
<1>1. n \in Nat \ {0} /\ g \in Nat \ {0} /\ m \in 1 .. Modulus("I64") /\ N \in Nat /\ k + n * g <= N
  BY LanesAre, MainIs DEF LoopWidth, IsTable
<1>2. 0 \in W
  <2>1. k + 0 * n = k
    BY <1>1
  <2> QED BY <2>1 DEF IsLoop
<1>3. ASSUME NEW c \in Nat, c \in W PROVE c + 1 \in W
  <2> SUFFICES ASSUME c + 1 <= g
               PROVE  f[c + 1] \in Z /\ Value(p, f[c + 1], R) = T[k + (c + 1) * n]
    OBVIOUS
  <2> DEFINE d == c + 1
             K == k + (d - 1) * n
             a == MainOf(p, d)
             B == f[c]
  <2>1. d \in 1 .. g /\ d - 1 = c
    <3> HIDE DEF g
    <3> QED BY <1>1
  <2>2. K \in Nat /\ K + n <= N /\ K + n = k + d * n
    <3> HIDE DEF n, g, N, d
    <3> QED BY <1>1, <2>1, CopyBounds
  <2>3. a \in 1 .. m
    <3> HIDE DEF d
    <3> QED BY <2>1, MainIs
  <2>4. B \in Z /\ Value(p, B, R) = T[K]
    <3>1. c <= g
      <4> HIDE DEF g
      <4> QED BY <1>1, <2>1
    <3>2. f[c] \in Z /\ Value(p, f[c], R) = T[k + c * n]
      BY <1>3, <3>1
    <3> QED BY <2>1, <3>2
  <2>5. f[d] = CopyStep(p, B, a, RowsAt(p, table, K))
    <3>1. f[d] = CopyStep(p, f[d - 1], MainOf(p, d), RowsAt(p, table, k + (d - 1) * p.lanes))
      <4> HIDE DEF d
      <4> QED BY <2>1 DEF IsLoop
    <3> QED BY <2>1, <3>1
  <2> HIDE DEF K, a, B, m
  <2>6. CopyFolded(p, table, T, K, B, CopyStep(p, B, a, RowsAt(p, table, K)), R, m)
    <3>1. K + p.lanes <= Len(table)
      BY <2>2
    <3>2. CASE p.agg = "Countif"
      BY Zenon, <1>1, <2>2, <2>3, <2>4, <3>1, <3>2, CountsFold
    <3>3. CASE p.agg \in {"Arith", "Predicate", "Sum128"}
      BY Zenon, <1>1, <2>2, <2>3, <2>4, <3>1, <3>3, LanesFold
    <3> QED BY <3>2, <3>3, AggIs
  <2>7. f[d] \in Z /\ Value(p, f[d], R) = T[K + n]
    BY <2>5, <2>6 DEF CopyFolded
  <2> QED BY <2>2, <2>7
<1>4. Nat \subseteq W
  <2> HIDE DEF W
  <2> QED BY Zenon, <1>2, <1>3, NaturalInduction
<1>5. f[g] \in Z /\ Value(p, f[g], R) = T[k + g * n]
  <2>1. g \in W /\ g <= g
    <3> HIDE DEF W, g
    <3> QED BY <1>1, <1>4
  <2> QED BY <2>1
<1>6. g * n = LoopWidth(p)
  <2>1. g * n = n * g
    <3> HIDE DEF g, n
    <3> QED BY <1>1, SMT
  <2> QED BY <2>1 DEF LoopWidth
<1> QED BY <1>5, <1>6 DEF LoopFolded

(***************************************************************************)
(* A pass of the main loop.                                                 *)
(***************************************************************************)
LEMMA MainLoopRuns ==
  ASSUME IsProgram(program), program.vector, program.agg # "Pack", IsTable(program, rows), counter \in Nat,
         main \in Copies(AccSet(program), MainCount(program), Lanes(program)), MainLoop
  PROVE  \E f : IsLoop(f, program, main, rows, counter) /\ main' = f[program.copies]
<1> DEFINE p == program
           g == p.copies
           Z == Copies(AccSet(p), MainCount(p), Lanes(p))
           step == [c \in 1 .. g |-> [B \in Z |-> CopyStep(p, B, MainOf(p, c), RowsAt(p, rows, counter + (c - 1) * p.lanes))]]
           after[c \in 0 .. g] ==
             IF c = 0 THEN main
             ELSE LET a == MainOf(p, c) IN
                  IF a \in DOMAIN main THEN [after[c - 1] EXCEPT ![a] = VecStep(p, @, Block(c))] ELSE main
<1>1. /\ g \in Nat \ {0} /\ p.lanes \in Nat \ {0} /\ Len(rows) \in Nat /\ MainCount(p) \in Nat
      /\ DOMAIN main = 1 .. MainCount(p) /\ \A c \in 1 .. g : MainOf(p, c) \in 1 .. MainCount(p)
  BY LanesAre, MainIs, LongIs DEF IsTable, Copies
<1>2. counter + p.lanes * g <= Len(rows) /\ main' = after[g]
  BY Zenon DEF MainLoop, LoopWidth
<1>3. \A c : Block(c) = RowsAt(p, rows, counter + (c - 1) * p.lanes)
  BY DEF Block, RowsAt
<1>4. step \in [1 .. g -> [Z -> Z]]
  <2>1. ASSUME NEW c \in 1 .. g, NEW B \in Z
        PROVE  CopyStep(p, B, MainOf(p, c), RowsAt(p, rows, counter + (c - 1) * p.lanes)) \in Z
    <3> DEFINE K == counter + (c - 1) * p.lanes
               a == MainOf(p, c)
    <3>1. K \in Nat /\ K + p.lanes <= Len(rows) /\ a \in 1 .. MainCount(p)
      <4> HIDE DEF g
      <4> QED BY Zenon, <1>1, <1>2, CopyBounds
    <3> HIDE DEF K, a
    <3>2. CopyStep(p, B, a, RowsAt(p, rows, K)) \in Copies(AccSet(p), MainCount(p), Lanes(p))
      BY Zenon, <1>1, <3>1, CopyTyped
    <3> QED BY <3>2 DEF K, a
  <2> HIDE DEF Z, g, p
  <2> QED BY <2>1
<1>5. PICK f : IsIteration(f, Z, main, g, step)
  <2>1. main \in Z /\ g \in Nat
    BY <1>1
  <2> HIDE DEF Z, g, step
  <2> QED BY Zenon, <1>4, <2>1, Iteration
<1>6. f \in [0 .. g -> Z] /\ f[0] = main /\ \A c \in 1 .. g : f[c] = step[c][f[c - 1]]
  BY Zenon, <1>5 DEF IsIteration
<1>7. ASSUME NEW c \in 1 .. g
      PROVE  f[c] = CopyStep(p, f[c - 1], MainOf(p, c), RowsAt(p, rows, counter + (c - 1) * p.lanes))
  <2>1. c - 1 \in 0 .. g
    BY <1>1
  <2>2. f[c - 1] \in Z /\ f[c] = step[c][f[c - 1]]
    BY Zenon, <1>6, <2>1
  <2> HIDE DEF Z, g, p
  <2> QED BY Zenon, <2>2 DEF step
<1>8. f = [c \in 0 .. g |->
             IF c = 0 THEN main
             ELSE LET a == MainOf(p, c) IN
                  IF a \in DOMAIN main THEN [f[c - 1] EXCEPT ![a] = VecStep(p, @, Block(c))] ELSE main]
  <2>1. ASSUME NEW c \in 0 .. g
        PROVE  f[c] = IF c = 0 THEN main
                      ELSE LET a == MainOf(p, c) IN
                           IF a \in DOMAIN main THEN [f[c - 1] EXCEPT ![a] = VecStep(p, @, Block(c))] ELSE main
    <3>1. CASE c = 0
      BY <1>6, <3>1
    <3>2. CASE c # 0
      <4>1. c \in 1 .. g
        BY <1>1, <3>2
      <4>2. MainOf(p, c) \in DOMAIN main
        BY <1>1, <4>1
      <4>3. f[c] = [f[c - 1] EXCEPT ![MainOf(p, c)] = VecStep(p, @, Block(c))]
        BY <1>3, <1>7, <4>1 DEF CopyStep
      <4> HIDE DEF p, g
      <4> QED BY Zenon, <3>2, <4>2, <4>3
    <3> QED BY <3>1, <3>2
  <2>2. f = [c \in 0 .. g |-> f[c]]
    BY <1>6
  <2> HIDE DEF g, p
  <2> QED BY Zenon, <2>1, <2>2
<1>9. after = [c \in 0 .. g |->
                 IF c = 0 THEN main
                 ELSE LET a == MainOf(p, c) IN
                      IF a \in DOMAIN main THEN [after[c - 1] EXCEPT ![a] = VecStep(p, @, Block(c))] ELSE main]
  <2> HIDE DEF g, p
  <2> QED BY Zenon, <1>8
<1> HIDE DEF after
<1>10. after[0] = main
  <2>1. 0 \in 0 .. g
    BY <1>1
  <2> HIDE DEF g, p
  <2> QED BY Zenon, <1>9, <2>1
<1>11. ASSUME NEW c \in 1 .. g
       PROVE  after[c] = CopyStep(p, after[c - 1], MainOf(p, c), RowsAt(p, rows, counter + (c - 1) * p.lanes))
  <2>1. c \in 0 .. g /\ c # 0 /\ MainOf(p, c) \in DOMAIN main
    BY <1>1
  <2>2. after[c] = [after[c - 1] EXCEPT ![MainOf(p, c)] = VecStep(p, @, Block(c))]
    <3> HIDE DEF g, p
    <3> QED BY Zenon, <1>9, <2>1
  <2> QED BY <1>3, <2>2 DEF CopyStep
<1>12. IsLoop(after, p, main, rows, counter)
  BY <1>10, <1>11 DEF IsLoop
<1> QED BY <1>2, <1>12

\* A pass of the main loop folds the rows of its block.
LEMMA MainLoopFolds ==
  ASSUME IsProgram(program), program.vector, program.agg # "Pack", IsTable(program, rows), counter \in Nat,
         NEW T, IsFold(T, program, rows), NEW R \in AccSet(program), Value(program, main, R) = T[counter],
         main \in Copies(AccSet(program), MainCount(program), Lanes(program)), MainLoop
  PROVE  /\ main' \in Copies(AccSet(program), MainCount(program), Lanes(program))
         /\ Value(program, main', R) = T[counter + LoopWidth(program)]
<1>1. counter + LoopWidth(program) <= Len(rows)
  BY DEF MainLoop
<1>2. PICK f : IsLoop(f, program, main, rows, counter) /\ main' = f[program.copies]
  BY MainLoopRuns
<1>3. LoopFolded(f, program, T, counter, R)
  BY <1>1, <1>2, LoopFolds
<1> QED BY <1>2, <1>3 DEF LoopFolded

LEMMA WidthIs ==
  ASSUME NEW p, IsProgram(p)
  PROVE  LoopWidth(p) \in Nat \ {0} /\ p.lanes \in Nat \ {0} /\ p.copies \in Nat \ {0}
<1>1. p.lanes \in Nat \ {0} /\ p.copies \in Nat \ {0}
  <2>1. p.copies \in 1 .. Modulus("I64") /\ Modulus("I64") \in Nat
    BY LongIs DEF IsProgram
  <2> QED BY <2>1, LanesAre
<1>2. p.lanes * p.copies \in Nat \ {0}
  <2> DEFINE a == p.lanes
             b == p.copies
  <2>1. a \in Nat \ {0} /\ b \in Nat \ {0}
    BY <1>1
  <2> HIDE DEF a, b
  <2>2. a * b \in Nat \ {0}
    BY <2>1, SMT
  <2> QED BY <2>2 DEF a, b
<1> QED BY <1>1, <1>2 DEF LoopWidth

\* A pack folds a row by writing its element after the others.
LEMMA PackFold ==
  ASSUME NEW p, IsProgram(p), p.agg = "Pack", NEW table, IsTable(p, table), NEW T, IsFold(T, p, table),
         NEW i \in 1 .. Len(table)
  PROVE  /\ T[i - 1] \in Seq(Int) /\ T[i] \in Seq(Int) /\ table[i].active \in BOOLEAN /\ table[i].x \in Int
         /\ T[i] = IF table[i].active THEN Append(T[i - 1], table[i].x) ELSE T[i - 1]
<1>1. i - 1 \in 0 .. Len(table) /\ i \in 0 .. Len(table)
  BY DEF IsTable
<1>2. T[i - 1] \in Seq(Int) /\ T[i] \in Seq(Int)
  BY <1>1 DEF IsFold, ValueSet
<1>3. table[i] \in TableRow(p)
  BY DEF IsTable
<1>4. T[i] = Rows!Fold(p, T[i - 1], table[i])
  BY DEF IsFold
<1>5. Rows!Fold(p, T[i - 1], table[i]) = IF table[i].active THEN Append(T[i - 1], table[i].x) ELSE T[i - 1]
  BY <1>3, AggIs, RowIs DEF Rows!Fold
<1>6. table[i].active \in BOOLEAN /\ table[i].x \in Int
  BY <1>3, RowIs
<1> QED BY <1>2, <1>4, <1>5, <1>6

\* A pass of the main loop of a pack writes the active rows of its block, in order.
LEMMA PackLoopFolds ==
  ASSUME IsProgram(program), program.agg = "Pack", IsTable(program, rows), counter \in Nat,
         NEW T, IsFold(T, program, rows), packed = T[counter], rest = Len(packed), main = <<>>, MainLoop
  PROVE  packed' = T[counter + LoopWidth(program)] /\ rest' = Len(packed') /\ main' = <<>>
<1> DEFINE p == program
           w == LoopWidth(p)
           n == Len(rows)
           chosen(i) == IF rows[counter + i].active THEN <<rows[counter + i].x>> ELSE <<>>
           stored[i \in 0 .. w] == IF i = 0 THEN packed ELSE stored[i - 1] \o chosen(i)
           h == [i \in 0 .. w |-> T[counter + i]]
           after[c \in 0 .. p.copies] ==
             IF c = 0 THEN main
             ELSE LET a == MainOf(p, c) IN
                  IF a \in DOMAIN main THEN [after[c - 1] EXCEPT ![a] = VecStep(p, @, Block(c))] ELSE main
           m == [c \in 0 .. p.copies |-> main]
<1>1. w \in Nat \ {0} /\ p.copies \in Nat \ {0} /\ n \in Nat
  BY WidthIs DEF IsTable
<1>2. counter + w <= n /\ main' = after[p.copies]
  BY Zenon DEF MainLoop
<1>3. packed' = stored[w] /\ rest' = rest + Len(packed') - Len(packed)
  BY Zenon DEF MainLoop
<1>4. after = [c \in 0 .. p.copies |->
             IF c = 0 THEN main
             ELSE LET a == MainOf(p, c) IN
                  IF a \in DOMAIN main THEN [after[c - 1] EXCEPT ![a] = VecStep(p, @, Block(c))] ELSE main]
  <2>1. DOMAIN main = {}
    OBVIOUS
  <2>2. m = [c \in 0 .. p.copies |->
             IF c = 0 THEN main
             ELSE LET a == MainOf(p, c) IN
                  IF a \in DOMAIN main THEN [m[c - 1] EXCEPT ![a] = VecStep(p, @, Block(c))] ELSE main]
    <3>1. \A c \in 0 .. p.copies : m[c] = main
      OBVIOUS
    <3>2. \A c : MainOf(p, c) \notin DOMAIN main
      BY <2>1
    <3>3. ASSUME NEW c \in 0 .. p.copies
          PROVE  m[c] = IF c = 0 THEN main
                        ELSE LET a == MainOf(p, c) IN
                             IF a \in DOMAIN main THEN [m[c - 1] EXCEPT ![a] = VecStep(p, @, Block(c))] ELSE main
      <4> HIDE DEF m, p
      <4> QED BY Zenon, <3>1, <3>2
    <3>4. m = [c \in 0 .. p.copies |-> m[c]]
      OBVIOUS
    <3> HIDE DEF m, p
    <3> QED BY Zenon, <3>3, <3>4
  <2> HIDE DEF m, p
  <2> QED BY Zenon, <2>2
<1>5. main' = main
  <2>1. p.copies \in 0 .. p.copies /\ p.copies # 0
    BY <1>1
  <2>2. \A c : MainOf(p, c) \notin DOMAIN main
    OBVIOUS
  <2> HIDE DEF after, p
  <2>3. after[p.copies] = main
    BY Zenon, <1>4, <2>1, <2>2
  <2> QED BY <1>2, <2>3
<1>6. ASSUME NEW i \in 1 .. w
      PROVE  T[counter + i] = T[counter + (i - 1)] \o chosen(i) /\ T[counter + i] \in Seq(Int)
  <2>1. counter + i \in 1 .. n /\ (counter + i) - 1 = counter + (i - 1)
    <3> HIDE DEF w, n
    <3> QED BY <1>1, <1>2
  <2> DEFINE k == counter + i
             z == T[k - 1]
  <2>2. /\ z \in Seq(Int) /\ T[k] \in Seq(Int) /\ rows[k].active \in BOOLEAN /\ rows[k].x \in Int
        /\ T[k] = IF rows[k].active THEN Append(z, rows[k].x) ELSE z
    <3> HIDE DEF k
    <3> QED BY <2>1, PackFold DEF k
  <2>3. z = T[counter + (i - 1)]
    BY <2>1
  <2> HIDE DEF z
  <2>4. CASE rows[k].active
    <3>1. T[k] = Append(z, rows[k].x) /\ chosen(i) = <<rows[k].x>>
      BY <2>2, <2>4
    <3>2. Append(z, rows[k].x) = z \o <<rows[k].x>>
      <4> DEFINE x == rows[k].x
      <4>1. x \in Int
        BY <2>2
      <4> HIDE DEF x
      <4>2. Append(z, x) = z \o <<x>>
        BY <2>2, <4>1
      <4> QED BY <4>2 DEF x
    <3> QED BY Zenon, <2>2, <2>3, <3>1, <3>2
  <2>5. CASE ~rows[k].active
    <3>1. T[k] = z /\ chosen(i) = <<>>
      BY <2>2, <2>5
    <3>2. z \o <<>> = z
      BY <2>2
    <3> QED BY Zenon, <2>2, <2>3, <3>1, <3>2
  <2> QED BY Zenon, <2>4, <2>5
<1>7. h = [i \in 0 .. w |-> IF i = 0 THEN packed ELSE h[i - 1] \o chosen(i)]
  <2>1. ASSUME NEW i \in 0 .. w
        PROVE  h[i] = IF i = 0 THEN packed ELSE h[i - 1] \o chosen(i)
    <3>1. CASE i = 0
      <4>1. counter + i = counter /\ h[i] = T[counter + i]
        BY <3>1
      <4> HIDE DEF h
      <4> QED BY <3>1, <4>1
    <3>2. CASE i # 0
      <4>1. i \in 1 .. w /\ i - 1 \in 0 .. w
        BY <1>1, <3>2
      <4>2. h[i] = T[counter + i] /\ h[i - 1] = T[counter + (i - 1)]
        BY <4>1
      <4> HIDE DEF h, chosen
      <4> QED BY Zenon, <1>6, <3>2, <4>1, <4>2
    <3> QED BY <3>1, <3>2
  <2>2. h = [i \in 0 .. w |-> h[i]]
    OBVIOUS
  <2> HIDE DEF h, chosen, w
  <2> QED BY Zenon, <2>1, <2>2
<1>8. stored = [i \in 0 .. w |-> IF i = 0 THEN packed ELSE stored[i - 1] \o chosen(i)]
  <2> HIDE DEF h, chosen, w
  <2> QED BY Zenon, <1>7
<1> HIDE DEF stored
<1>9. stored[0] = packed /\ \A i \in 1 .. w : stored[i] = stored[i - 1] \o chosen(i)
  <2>1. 0 \in 0 .. w /\ \A i \in 1 .. w : i \in 0 .. w /\ i # 0
    BY <1>1
  <2> HIDE DEF chosen, w
  <2> QED BY Zenon, <1>8, <2>1
<1> DEFINE W == {i \in Nat : i <= w => stored[i] = T[counter + i]}
<1> HIDE DEF chosen
<1>10. 0 \in W
  <2>1. counter + 0 = counter
    OBVIOUS
  <2> QED BY <1>9, <2>1
<1>11. ASSUME NEW i \in Nat, i \in W PROVE i + 1 \in W
  <2> SUFFICES ASSUME i + 1 <= w PROVE stored[i + 1] = T[counter + (i + 1)]
    OBVIOUS
  <2>1. i + 1 \in 1 .. w /\ (i + 1) - 1 = i
    BY <1>1
  <2>2. stored[i] = T[counter + i]
    BY <1>1, <1>11, <2>1
  <2> DEFINE j == i + 1
  <2>3. j \in 1 .. w /\ j - 1 = i
    BY <2>1
  <2> HIDE DEF j
  <2>4. stored[j] = stored[j - 1] \o chosen(j) /\ T[counter + j] = T[counter + (j - 1)] \o chosen(j)
    BY Zenon, <1>6, <1>9, <2>3
  <2> QED BY Zenon, <2>2, <2>3, <2>4 DEF j
<1>12. Nat \subseteq W
  <2> HIDE DEF W
  <2> QED BY <1>10, <1>11, NaturalInduction
<1>13. packed' = T[counter + w]
  BY <1>1, <1>3, <1>12
<1>14. rest' = Len(packed')
  <2>1. w \in 1 .. w
    BY <1>1
  <2>2. packed' \in Seq(Int)
    <3> HIDE DEF w
    <3> QED BY <1>6, <1>13, <2>1
  <2>3. packed \in Seq(Int)
    <3>1. counter \in 0 .. n
      <4> HIDE DEF w, n
      <4> QED BY <1>1, <1>2
    <3> QED BY <3>1 DEF IsFold, ValueSet
  <2>4. Len(packed') \in Nat /\ Len(packed) \in Nat
    BY <2>2, <2>3
  <2> QED BY <1>3, <2>4
<1> QED BY <1>5, <1>13, <1>14

(***************************************************************************)
(* The flags.                                                               *)
(***************************************************************************)
LEMMA TopBit ==
  ASSUME NEW t \in IntTypes, NEW x \in Residues(t)
  PROVE  Signed(x, t) < 0 <=> Width(t) - 1 \in BitsOf(x, t)
<1> DEFINE w == Width(t)
           h == Half(t)
           M == Modulus(t)
<1>1. w \in 1 .. 8 * Byte /\ 8 * Byte \in Nat /\ h \in Nat \ {0} /\ M = 2 * h /\ x \in 0 .. M - 1 /\ h = 2 ^ (w - 1)
  BY Zenon, Widths DEF Half
<1>2. Signed(x, t) = IF x >= h THEN x - M ELSE x
  BY SignedValue
<1>3. w - 1 \in 0 .. w - 1
  <2> HIDE DEF w
  <2> QED BY <1>1
<1>4. w - 1 \in BitsOf(x, t) <=> (x \div h) % 2 = 1
  BY <1>1, <1>3 DEF BitsOf, Bit
<1>7. Signed(x, t) < 0 <=> x >= h
  <2> HIDE DEF h, M
  <2> QED BY <1>1, <1>2
<1>5. x \div h = IF x >= h THEN 1 ELSE 0
  <2> DEFINE o == IF x >= h THEN 1 ELSE 0
             r == IF x >= h THEN x - h ELSE x
  <2>1. o \in Int /\ r \in 0 .. h - 1 /\ x \in Int /\ x = h * o + r /\ h \in Nat \ {0}
    <3> HIDE DEF h, M
    <3> QED BY <1>1
  <2> HIDE DEF o, r, h
  <2>2. x \div h = o
    BY <2>1, QuotientIsUnique
  <2> QED BY <2>2 DEF o
<1> DEFINE q == x \div h
<1>6. q % 2 = 1 <=> x >= h
  <2>1. q = 1 \/ q = 0
    BY <1>5
  <2>2. q = 1 <=> x >= h
    BY <1>5
  <2> HIDE DEF q, h
  <2> QED BY <2>1, <2>2
<1> QED BY <1>4, <1>6, <1>7

\* The sign of an Or of words is set if that of either word is.
LEMMA OrSigned ==
  ASSUME NEW t \in IntTypes, NEW x \in Residues(t), NEW y \in Residues(t)
  PROVE  /\ VecInstr("Or", t, x, y) \in Residues(t)
         /\ Signed(VecInstr("Or", t, x, y), t) < 0 <=> Signed(x, t) < 0 \/ Signed(y, t) < 0
<1> DEFINE z == VecInstr("Or", t, x, y)
           S == BitsOf(x, t) \union BitsOf(y, t)
<1>1. z = FromBits(S, t)
  <2>1. z = ArithInt("Or", "No", t, x, y)
    BY DEF VecInstr
  <2> HIDE DEF z
  <2> QED BY <2>1, Masks
<1>2. S \in SUBSET (0 .. Width(t) - 1)
  BY BitsBelow
<1>3. BitsOf(z, t) = S /\ z \in Residues(t)
  <2> HIDE DEF S
  <2> QED BY <1>1, <1>2, BitsOfSum, FromBitsInRange
<1> HIDE DEF z
<1>4. Signed(z, t) < 0 <=> Width(t) - 1 \in S
  BY <1>3, TopBit
<1> QED BY <1>3, <1>4, TopBit DEF z

IsSet(p, f) ==
  CASE p.check = "none" -> FALSE
    [] p.check = "mask" -> f = 1
    [] p.check = "sign" -> Signed(f, "I8") < 0
    [] p.check = "mul"  -> f < Width("I8") + 1

AnySet(p, F) == \E c \in DOMAIN F : \E l \in DOMAIN F[c] : IsSet(p, F[c][l])

FlagSet(p) ==
  CASE p.check = "none" -> {0}
    [] p.check = "mask" -> {0, 1}
    [] p.check = "sign" -> Residues("I8")
    [] p.check = "mul" -> Nat

\* The epilogue reports a fault if a flag of any copy, lane or the remainder is set.
LEMMA CollapseFlagsIs ==
  ASSUME NEW p, NEW F, NEW s
  PROVE  CollapseFlags(p, F, s) <=> AnySet(p, F) \/ s = 1
BY DEF CollapseFlags, AnySet, IsSet

LEMMA CheckIs ==
  ASSUME NEW p, IsProgram(p)
  PROVE  p.check \in {"none", "mask", "sign", "mul"}
BY DEF IsProgram

\* A row that faults sets its lane's flag, and no other row does.
LEMMA FlagStep ==
  ASSUME NEW p, IsProgram(p), NEW f \in FlagSet(p), NEW row \in TableRow(p)
  PROVE  /\ VecFlagStep(p, f, row) \in FlagSet(p)
         /\ IsSet(p, VecFlagStep(p, f, row)) <=> IsSet(p, f) \/ Fault(p, row)
<1>1. CASE p.check = "none"
  BY <1>1 DEF FlagSet, VecFlagStep, IsSet, Fault
<1>2. CASE p.check = "mask"
  BY <1>2 DEF FlagSet, VecFlagStep, IsSet, Fault
<1>3. CASE p.check = "sign"
  <2>1. f \in Residues("I8") /\ row.check \in Residues("I8") /\ "I8" \in IntTypes
    BY <1>3 DEF FlagSet, TableRow, Residues, IntTypes
  <2>2. VecFlagStep(p, f, row) = VecInstr("Or", "I8", f, row.check)
    BY <1>3 DEF VecFlagStep
  <2>3. /\ VecInstr("Or", "I8", f, row.check) \in Residues("I8")
        /\ Signed(VecInstr("Or", "I8", f, row.check), "I8") < 0 <=> Signed(f, "I8") < 0 \/ Signed(row.check, "I8") < 0
    BY <2>1, OrSigned
  <2>4. FlagSet(p) = Residues("I8") /\ \A x : IsSet(p, x) <=> Signed(x, "I8") < 0
    BY <1>3 DEF FlagSet, IsSet
  <2>5. Fault(p, row) <=> Signed(row.check, "I8") < 0
    BY <1>3 DEF Fault
  <2> QED BY <2>2, <2>3, <2>4, <2>5
<1>4. CASE p.check = "mul"
  <2>1. f \in Nat /\ row.check \in Nat /\ FlagSet(p) = Nat /\ Width("I8") \in Nat
    BY <1>4, WidthsNest DEF FlagSet, TableRow
  <2>2. VecFlagStep(p, f, row) = IF row.check < f THEN row.check ELSE f
    BY <1>4 DEF VecFlagStep
  <2>3. Fault(p, row) <=> row.check < Width("I8") + 1
    BY <1>4 DEF Fault
  <2>4. \A x : IsSet(p, x) <=> x < Width("I8") + 1
    BY <1>4 DEF IsSet
  <2> QED BY <2>1, <2>2, <2>3, <2>4
<1> QED BY <1>1, <1>2, <1>3, <1>4, CheckIs

LEMMA FlagStart ==
  ASSUME NEW p, IsProgram(p)
  PROVE  FlagInit(p) \in FlagSet(p) /\ ~IsSet(p, FlagInit(p))
<1>1. 0 \in Residues("I8") /\ Signed(0, "I8") = 0 /\ Width("I8") \in Nat
  <2>0. "I8" \in IntTypes
    BY DEF IntTypes
  <2>1. 0 \in Residues("I8") /\ Half("I8") \in Nat \ {0} /\ Modulus("I8") \in Nat \ {0}
    BY <2>0, Widths
  <2>2. Width("I8") \in Nat
    BY WidthsNest
  <2>3. Signed(0, "I8") = IF 0 >= Half("I8") THEN 0 - Modulus("I8") ELSE 0
    BY <2>0, <2>1, SignedValue
  <2> QED BY <2>1, <2>2, <2>3
<1>2. FlagInit(p) = IF p.check = "mul" THEN Width("I8") + 1 ELSE 0
  BY DEF FlagInit
<1>3. CASE p.check = "none"
  BY <1>2, <1>3 DEF FlagSet, IsSet
<1>4. CASE p.check = "mask"
  BY <1>2, <1>4 DEF FlagSet, IsSet
<1>5. CASE p.check = "sign"
  BY <1>1, <1>2, <1>5 DEF FlagSet, IsSet
<1>6. CASE p.check = "mul"
  BY <1>1, <1>2, <1>6 DEF FlagSet, IsSet
<1> QED BY <1>3, <1>4, <1>5, <1>6, CheckIs

LEMMA SameFault ==
  ASSUME NEW p, IsProgram(p), NEW row
  PROVE  Rows!FaultyRow(p, row) <=> Fault(p, row)
<1>1. Rows!Width("I8") = Width("I8")
  BY Zenon DEF Rows!Width, Rows!Size, Width, Size
<1>2. Rows!Signed(row.check, "I8") = Signed(row.check, "I8")
  BY Zenon, SameHelpers
<1> QED BY <1>1, <1>2, CheckIs DEF Rows!FaultyRow, Fault

\* A pass of the main loop over the flags.
FlagLoop(p, F, table, k) ==
  [c \in DOMAIN F |-> [l \in 1 .. p.lanes |-> VecFlagStep(p, F[c][l], RowsAt(p, table, k + (c - 1) * p.lanes)[l])]]

Flags(p, g) == [1 .. g -> [1 .. p.lanes -> FlagSet(p)]]

\* A pass of the main loop sets a flag if and only if one of its rows faults.
LEMMA FlagLoopRaises ==
  ASSUME NEW p, IsProgram(p), NEW table, IsTable(p, table), NEW k \in Nat, k + LoopWidth(p) <= Len(table),
         NEW F \in Flags(p, p.copies)
  PROVE  /\ FlagLoop(p, F, table, k) \in Flags(p, p.copies)
         /\ AnySet(p, FlagLoop(p, F, table, k))
              <=> AnySet(p, F) \/ \E i \in 1 .. LoopWidth(p) : Fault(p, table[k + i])
<1> DEFINE n == p.lanes
           g == p.copies
           N == Len(table)
           G == FlagLoop(p, F, table, k)
           at(c, l) == k + (c - 1) * n + l
<1>1. n \in Nat \ {0} /\ g \in Nat \ {0} /\ N \in Nat /\ k + n * g <= N
  BY WidthIs DEF IsTable, LoopWidth
<1>2. DOMAIN F = 1 .. g /\ \A c \in 1 .. g, l \in 1 .. n : F[c][l] \in FlagSet(p)
  BY Zenon DEF Flags
<1>3. ASSUME NEW c \in 1 .. g, NEW l \in 1 .. n
      PROVE  /\ VecFlagStep(p, F[c][l], table[at(c, l)]) \in FlagSet(p)
             /\ IsSet(p, VecFlagStep(p, F[c][l], table[at(c, l)])) <=> IsSet(p, F[c][l]) \/ Fault(p, table[at(c, l)])
             /\ at(c, l) = k + At(n, c, l) /\ At(n, c, l) \in 1 .. LoopWidth(p)
  <2> DEFINE K == k + (c - 1) * n
  <2>1. K \in Nat /\ K + n <= N
    <3> HIDE DEF n, g, N
    <3> QED BY <1>1, CopyBounds
  <2>2. K + l \in 1 .. N
    <3> HIDE DEF K, n, N
    <3> QED BY <1>1, <2>1
  <2>3. table[K + l] \in TableRow(p)
    BY <2>2 DEF IsTable
  <2>4. at(c, l) = k + At(n, c, l)
    <3> DEFINE y == (c - 1) * n
    <3>1. y \in Nat
      <4> HIDE DEF n
      <4> QED BY <1>1, SMT
    <3>2. at(c, l) = (k + y) + l /\ At(n, c, l) = y + l
      BY DEF At
    <3> HIDE DEF y, at
    <3> QED BY <3>1, <3>2
  <2>5. At(n, c, l) \in 1 .. LoopWidth(p)
    <3>1. IsAt(At(n, c, l), g, n, c, l)
      <4> HIDE DEF n, g
      <4> QED BY <1>1, Place
    <3>2. g * n = n * g
      <4> HIDE DEF n, g
      <4> QED BY <1>1, SMT
    <3> QED BY <3>1, <3>2 DEF IsAt, LoopWidth
  <2>6. at(c, l) = K + l
    OBVIOUS
  <2> DEFINE f == F[c][l]
             row == table[K + l]
  <2>7. f \in FlagSet(p) /\ row \in TableRow(p)
    BY <1>2, <2>3
  <2> HIDE DEF f, row
  <2>8. VecFlagStep(p, f, row) \in FlagSet(p) /\ (IsSet(p, VecFlagStep(p, f, row)) <=> IsSet(p, f) \/ Fault(p, row))
    BY <2>7, FlagStep
  <2> QED BY <2>4, <2>5, <2>6, <2>8 DEF f, row
<1>4. /\ DOMAIN G = 1 .. g
      /\ \A c \in 1 .. g : DOMAIN G[c] = 1 .. n /\ \A l \in 1 .. n : G[c][l] = VecFlagStep(p, F[c][l], table[at(c, l)])
  BY <1>2 DEF FlagLoop, RowsAt
<1>5. G \in Flags(p, g)
  <2>1. \A c \in 1 .. g, l \in 1 .. n : VecFlagStep(p, F[c][l], RowsAt(p, table, k + (c - 1) * p.lanes)[l]) \in FlagSet(p)
    BY <1>3 DEF RowsAt
  <2> QED BY <1>2, <2>1 DEF Flags, FlagLoop
<1> HIDE DEF G, at
<1>6. \A c \in 1 .. g : DOMAIN F[c] = 1 .. n
  BY DEF Flags
<1>7. ASSUME AnySet(p, G)
      PROVE  AnySet(p, F) \/ \E i \in 1 .. LoopWidth(p) : Fault(p, table[k + i])
  <2>1. PICK c \in 1 .. g : \E l \in DOMAIN G[c] : IsSet(p, G[c][l])
    BY <1>4, <1>7 DEF AnySet
  <2>2. PICK l \in 1 .. n : IsSet(p, G[c][l])
    BY Zenon, <1>4, <2>1
  <2>3. IsSet(p, F[c][l]) \/ Fault(p, table[k + At(n, c, l)])
    BY <1>3, <1>4, <2>2
  <2> QED BY Zenon, <1>2, <1>3, <1>6, <2>3 DEF AnySet
<1>8. ASSUME AnySet(p, F) PROVE AnySet(p, G)
  <2>1. PICK c \in 1 .. g : \E l \in DOMAIN F[c] : IsSet(p, F[c][l])
    BY <1>2, <1>8 DEF AnySet
  <2>2. PICK l \in 1 .. n : IsSet(p, F[c][l])
    BY Zenon, <1>6, <2>1
  <2>3. IsSet(p, G[c][l])
    BY <1>3, <1>4, <2>2
  <2> QED BY Zenon, <1>4, <2>3 DEF AnySet
<1>9. ASSUME NEW i \in 1 .. LoopWidth(p), Fault(p, table[k + i]) PROVE AnySet(p, G)
  <2>1. i \in 1 .. g * n
    <3>1. g * n = n * g
      <4> HIDE DEF n, g
      <4> QED BY <1>1, SMT
    <3> QED BY <3>1 DEF LoopWidth
  <2>2. \E c \in 1 .. g, l \in 1 .. n :
          i = (c - 1) * n + l /\ c = ((i - 1) \div n) + 1 /\ l = ((i - 1) % n) + 1
    <3> HIDE DEF n, g
    <3> QED BY Zenon, <1>1, <2>1, PlaceOf
  <2>3. PICK c \in 1 .. g, l \in 1 .. n :
          i = (c - 1) * n + l /\ c = ((i - 1) \div n) + 1 /\ l = ((i - 1) % n) + 1
    BY Zenon, <2>2
  <2>4. i = At(n, c, l)
    BY <2>3 DEF At
  <2>5. Fault(p, table[at(c, l)])
    BY <1>3, <1>9, <2>4
  <2>6. IsSet(p, G[c][l])
    BY <1>3, <1>4, <2>5
  <2> QED BY Zenon, <1>4, <2>6 DEF AnySet
<1> QED BY <1>5, <1>7, <1>8, <1>9 DEF G

(***************************************************************************)
(* The invariant.                                                           *)
(***************************************************************************)
\* The accumulators that hold garbage count as neutral.
RestOf == IF RestReady THEN rest ELSE AccInit(program)
FlagOf == IF FlagReady THEN scalarFlag ELSE 0

Control ==
  /\ program \in Programs /\ rows \in Inputs[program]
  /\ pc \in {"prologue", "main", "delayed", "remainder", "epilogue", "returned"}
  /\ counter \in 0 .. Len(rows)
  /\ pc = "prologue" => counter = 0 /\ main = <<>> /\ vecFlags = <<>> /\ packed = <<>>
  /\ pc = "main" => program.vector
  /\ pc = "delayed" => program.x86
  /\ pc \in {"epilogue", "returned"} => counter = Len(rows)
  /\ pc # "returned" => result = <<>>

\* The accumulators stand for the fold of the rows that the kernel has read.
AccsFold ==
  program.agg # "Pack" =>
    /\ RestOf \in AccSet(program)
    /\ pc # "prologue" => IF program.vector THEN main \in Copies(AccSet(program), MainCount(program), Lanes(program))
                          ELSE main = <<>>
    /\ Value(program, main, RestOf) = FoldOf(program, rows)[counter]

PackFolds ==
  program.agg = "Pack" =>
    /\ main = <<>>
    /\ packed = FoldOf(program, rows)[counter]
    /\ pc # "prologue" => rest = Len(packed)

\* A flag is set if and only if one of those rows faults.
FlagsRaised ==
  /\ pc # "prologue" => vecFlags \in Flags(program, IF program.vector THEN program.copies ELSE 0)
  /\ AnySet(program, vecFlags) \/ FlagOf = 1 <=> \E i \in 1 .. counter : Fault(program, rows[i])

KernelInv == Control /\ AccsFold /\ PackFolds /\ FlagsRaised

\* Programs and tables are those that the assumptions name.
LEMMA Tables ==
  ASSUME Control
  PROVE  IsProgram(program) /\ IsTable(program, rows) /\ IsFold(FoldOf(program, rows), program, rows)
<1>1. IsProgram(program)
  BY ProgramsAssumption DEF Control
<1>2. IsTable(program, rows)
  BY InputsAssumption DEF Control, IsTable
<1> QED BY <1>1, <1>2, FoldIs

\* Where the kernel may go next, and that it passes the late prologue if it has one.
LEMMA Jumps ==
  ASSUME NEW p, IsProgram(p), NEW n, NEW from \in {"prologue", "main", "delayed", "remainder"}, NEW at,
         from = "main" => p.vector, from = "delayed" => p.x86, from = "prologue" => at = 0, NEW to, to = Jump(p, n, from, at)
  PROVE  /\ to \in {"main", "delayed", "remainder", "epilogue"}
         /\ to = "epilogue" => at = n
         /\ to = "main" => p.vector
         /\ to = "delayed" => p.x86
         /\ from \in {"prologue", "main"} /\ HasDelayedPrologue(p) => to \in {"main", "delayed"}
         /\ from \in {"delayed", "remainder"} => to \in {"remainder", "epilogue"}
<1>1. HasDelayedPrologue(p) => p.x86 /\ p.vector
  BY DEF HasDelayedPrologue, LateAcc, LateFlag
<1>2. p.x86 \in BOOLEAN /\ p.vector \in BOOLEAN
  BY DEF IsProgram
<1>3. CASE p.x86
  <2>1. to = JumpX86(p, n, from, at)
    BY <1>3 DEF Jump
  <2>2. CASE from = "prologue"
    BY <1>1, <1>2, <1>3, <2>1, <2>2 DEF JumpX86
  <2>3. CASE from = "main"
    BY <1>1, <1>2, <1>3, <2>1, <2>3 DEF JumpX86
  <2>4. CASE from = "delayed"
    BY <1>1, <1>2, <1>3, <2>1, <2>4 DEF JumpX86
  <2>5. CASE from = "remainder"
    BY <1>1, <1>2, <1>3, <2>1, <2>5 DEF JumpX86
  <2> QED BY <2>2, <2>3, <2>4, <2>5
<1>4. CASE ~p.x86
  <2>1. to = JumpArm(p, n, from, at) /\ ~HasDelayedPrologue(p)
    BY <1>1, <1>4 DEF Jump
  <2>2. CASE from = "prologue"
    BY <1>2, <2>1, <2>2 DEF JumpArm
  <2>3. CASE from = "main"
    BY <1>2, <2>1, <2>3 DEF JumpArm
  <2>4. CASE from = "remainder"
    BY <1>2, <2>1, <2>4 DEF JumpArm
  <2> QED BY <1>4, <2>2, <2>3, <2>4
<1> QED BY <1>3, <1>4

\* What is initialised late is ready once the loops that come before it are left.
LEMMA LateIsLate ==
  ASSUME NEW p
  PROVE  LateAcc(p) \/ LateFlag(p) => HasDelayedPrologue(p)
BY DEF HasDelayedPrologue

(***************************************************************************)
(* What the invariant says to the abstract specification.                   *)
(***************************************************************************)
LEMMA ValueOfAccs ==
  ASSUME KernelInv
  PROVE  FoldOfAccs = FoldOf(program, rows)[counter]
<1>1. CASE program.agg = "Pack"
  BY <1>1 DEF KernelInv, PackFolds, FoldOfAccs, Number
<1>2. CASE program.agg # "Pack"
  <2>1. Value(program, main, RestOf) = FoldOf(program, rows)[counter]
    BY <1>2 DEF KernelInv, AccsFold
  <2>2. FoldOfAccs = Value(program, main, RestOf)
    <3>1. CASE program.agg = "Sum128"
      BY <3>1 DEF FoldOfAccs, Number, Value, RestOf, Number128
    <3>2. CASE program.agg # "Sum128"
      BY <1>2, <3>2 DEF FoldOfAccs, Number, Value, RestOf
    <3> QED BY <3>1, <3>2
  <2> QED BY <2>1, <2>2
<1> QED BY <1>1, <1>2

\* The flags stand for the faults of the rows read.
LEMMA RaisedOfAccs ==
  ASSUME KernelInv
  PROVE  RaisedInAccs = \E i \in 1 .. counter : Rows!FaultyRow(program, rows[i])
<1>1. IsProgram(program)
  BY Tables DEF KernelInv
<1>2. CollapseFlags(program, vecFlags, FlagOf) <=> \E i \in 1 .. counter : Fault(program, rows[i])
  <2>1. CollapseFlags(program, vecFlags, FlagOf) <=> AnySet(program, vecFlags) \/ FlagOf = 1
    BY CollapseFlagsIs
  <2> QED BY <2>1 DEF KernelInv, FlagsRaised
<1>3. \A row : Rows!FaultyRow(program, row) <=> Fault(program, row)
  BY <1>1, SameFault
<1>4. program.check = "none" => \A row : ~Fault(program, row)
  BY DEF Fault
<1>5. RaisedInAccs <=> program.check # "none" /\ CollapseFlags(program, vecFlags, FlagOf)
  BY DEF RaisedInAccs, FlagOf
<1>6. RaisedInAccs \in BOOLEAN
  BY DEF RaisedInAccs, CollapseFlags
<1> QED BY Zenon, <1>2, <1>3, <1>4, <1>5, <1>6

(***************************************************************************)
(* The invariant is inductive.                                              *)
(***************************************************************************)
LEMMA KernelInit == Init => KernelInv
<1> SUFFICES ASSUME Init PROVE KernelInv
  OBVIOUS
<1>1. Control
  <2>1. IsTable(program, rows)
    BY InputsAssumption DEF Init, IsTable
  <2>2. 0 \in 0 .. Len(rows)
    BY <2>1 DEF IsTable
  <2> QED BY <2>2 DEF Init, Control
<1>2. IsProgram(program) /\ IsTable(program, rows) /\ IsFold(FoldOf(program, rows), program, rows)
  BY <1>1, Tables
<1>3. FoldOf(program, rows)[counter] = Rows!Neutral(program)
  BY <1>2 DEF Init, IsFold
<1>4. AccsFold
  <2> SUFFICES ASSUME program.agg # "Pack"
               PROVE  RestOf \in AccSet(program) /\ Value(program, <<>>, RestOf) = Rows!Neutral(program)
    BY <1>3 DEF Init, AccsFold
  <2>1. RestOf = AccInit(program)
    BY DEF Init, RestOf, RestReady
  <2> QED BY <1>2, <2>1, StartFolds
<1>5. PackFolds
  <2>1. program.agg = "Pack" => Rows!Neutral(program) = <<>>
    BY DEF Rows!Neutral
  <2> QED BY <1>3, <2>1 DEF Init, PackFolds
<1>6. FlagsRaised
  <2>1. ~AnySet(program, vecFlags)
    BY DEF Init, AnySet
  <2>2. FlagOf # 1
    BY DEF Init, FlagOf, FlagReady
  <2>3. 1 .. counter = {}
    BY DEF Init
  <2> QED BY <2>1, <2>2, <2>3 DEF Init, FlagsRaised
<1> QED BY <1>1, <1>4, <1>5, <1>6 DEF KernelInv

\* Flags that nothing has raised.
LEMMA NoFlags ==
  ASSUME NEW p, IsProgram(p), NEW g \in Nat
  PROVE  /\ Seq1(g, Seq1(p.lanes, FlagInit(p))) \in Flags(p, g)
         /\ ~AnySet(p, Seq1(g, Seq1(p.lanes, FlagInit(p))))
<1>1. FlagInit(p) \in FlagSet(p) /\ ~IsSet(p, FlagInit(p))
  BY FlagStart
<1> DEFINE f == FlagInit(p)
<1> HIDE DEF f
<1>2. Seq1(g, Seq1(p.lanes, f)) \in [1 .. g -> [1 .. p.lanes -> FlagSet(p)]]
  BY <1>1 DEF f, Seq1
<1>3. ~AnySet(p, Seq1(g, Seq1(p.lanes, f)))
  BY <1>1 DEF f, Seq1, AnySet
<1> QED BY <1>2, <1>3 DEF f, Flags

\* The prologue establishes it for the accumulators of both loops.
LEMMA PrologueKeeps ==
  ASSUME KernelInv, Prologue
  PROVE  KernelInv'
<1>1. IsProgram(program) /\ IsTable(program, rows) /\ IsFold(FoldOf(program, rows), program, rows)
  BY Tables DEF KernelInv
<1>2. program' = program /\ rows' = rows /\ counter' = counter /\ packed' = packed /\ result' = result
  BY DEF Prologue
<1>3. pc = "prologue" /\ counter = 0 /\ main = <<>> /\ vecFlags = <<>> /\ packed = <<>> /\ result = <<>>
  BY DEF Prologue, KernelInv, Control
<1>4. /\ pc' \in {"main", "delayed", "remainder", "epilogue"}
      /\ pc' = "epilogue" => 0 = Len(rows)
      /\ pc' = "main" => program.vector
      /\ pc' = "delayed" => program.x86
      /\ HasDelayedPrologue(program) => pc' \in {"main", "delayed"}
  <2>1. pc' = Jump(program, Len(rows), "prologue", 0)
    BY <1>3 DEF Prologue
  <2> QED BY <1>1, <2>1, Jumps
<1>5. Control'
  BY <1>2, <1>3, <1>4 DEF KernelInv, Control
<1>6. FoldOf(program, rows)[counter] = Rows!Neutral(program)
  BY <1>1, <1>3 DEF IsFold
<1>7. AccsFold'
  <2> SUFFICES ASSUME program.agg # "Pack"
               PROVE  /\ RestOf' = AccInit(program) /\ AccInit(program) \in AccSet(program)
                      /\ IF program.vector THEN main' \in Copies(AccSet(program), MainCount(program), Lanes(program))
                         ELSE main' = <<>>
                      /\ Value(program, main', AccInit(program)) = Rows!Neutral(program)
    BY <1>2, <1>6 DEF AccsFold
  <2>1. RestOf' = AccInit(program)
    <3>1. CASE LateAcc(program)
      BY <1>2, <1>4, <3>1, LateIsLate DEF RestOf, RestReady
    <3>2. CASE ~LateAcc(program)
      BY <1>2, <3>2 DEF RestOf, RestReady, Prologue
    <3> QED BY <3>1, <3>2
  <2>2. main' = Seq1(MainCount(program), Seq1(Lanes(program), AccInit(program)))
    BY DEF Prologue, Lanes
  <2>3. CASE program.vector
    <3>1. MainCount(program) \in 1 .. Modulus("I64")
      BY <1>1, <2>3, MainIs
    <3> QED BY <1>1, <2>1, <2>2, <2>3, <3>1, StartFolds
  <2>4. CASE ~program.vector
    <3>1. main' = <<>>
      BY <2>2, <2>4 DEF MainCount, Seq1
    <3> QED BY <1>1, <2>1, <2>4, <3>1, StartFolds
  <2> QED BY <2>3, <2>4
<1>8. PackFolds'
  <2> SUFFICES ASSUME program.agg = "Pack"
               PROVE  main' = <<>> /\ <<>> = Rows!Neutral(program) /\ rest' = 0
    BY <1>2, <1>3, <1>6 DEF PackFolds
  <2>1. main' = <<>>
    BY DEF Prologue, MainCount, Seq1
  <2>2. rest' = 0
    BY DEF Prologue, LateAcc, AccInit
  <2> QED BY <2>1, <2>2 DEF Rows!Neutral
<1>9. FlagsRaised'
  <2> DEFINE g == IF program.vector THEN program.copies ELSE 0
  <2>1. g \in Nat
    BY <1>1, WidthIs
  <2>2. vecFlags' = Seq1(g, Seq1(program.lanes, FlagInit(program)))
    BY DEF Prologue
  <2> HIDE DEF g
  <2>3. vecFlags' \in Flags(program, g) /\ ~AnySet(program, vecFlags')
    BY <1>1, <2>1, <2>2, NoFlags
  <2>4. FlagOf' = 0
    <3>1. CASE LateFlag(program)
      BY <1>2, <1>4, <3>1, LateIsLate DEF FlagOf, FlagReady
    <3>2. CASE ~LateFlag(program)
      BY <1>2, <3>2 DEF FlagOf, FlagReady, Prologue
    <3> QED BY <3>1, <3>2
  <2>5. 1 .. counter' = {}
    BY <1>2, <1>3
  <2> QED BY <1>2, <2>3, <2>4, <2>5 DEF FlagsRaised, g
<1> QED BY <1>5, <1>7, <1>8, <1>9 DEF KernelInv

LEMMA JumpsOn ==
  ASSUME NEW p, IsProgram(p), p.vector, NEW n, NEW at, NEW to, to = Jump(p, n, "main", at)
  PROVE  /\ to \in {"main", "delayed", "remainder", "epilogue"}
         /\ to = "epilogue" => at = n
         /\ to = "delayed" => p.x86
         /\ HasDelayedPrologue(p) => to \in {"main", "delayed"}
BY Jumps

\* A pass of the main loop keeps it.
LEMMA MainLoopKeeps ==
  ASSUME KernelInv, MainLoop
  PROVE  KernelInv'
<1> DEFINE w == LoopWidth(program)
<1>1. IsProgram(program) /\ IsTable(program, rows) /\ IsFold(FoldOf(program, rows), program, rows)
  BY Tables DEF KernelInv
<1>2. /\ program' = program /\ rows' = rows /\ result' = result /\ scalarFlag' = scalarFlag
      /\ counter' = counter + w /\ counter + w <= Len(rows) /\ pc = "main"
  BY DEF MainLoop
<1>3. /\ program.vector /\ counter \in 0 .. Len(rows) /\ result = <<>> /\ Len(rows) \in Nat
      /\ w \in Nat \ {0} /\ counter \in Nat
  <2>1. w \in Nat \ {0}
    BY <1>1, WidthIs
  <2>2. Len(rows) \in Nat
    BY <1>1 DEF IsTable
  <2> HIDE DEF w
  <2> QED BY <1>2, <2>1, <2>2 DEF KernelInv, Control
<1>4. /\ pc' \in {"main", "delayed", "remainder", "epilogue"}
      /\ pc' = "epilogue" => counter' = Len(rows)
      /\ pc' = "delayed" => program.x86
      /\ HasDelayedPrologue(program) => pc' \in {"main", "delayed"}
  <2>1. pc' = Jump(program, Len(rows), "main", counter')
    BY <1>2 DEF MainLoop
  <2>2. program.vector
    BY <1>3
  <2> QED BY <1>1, <2>1, <2>2, JumpsOn
<1> HIDE DEF w
<1>5. Control'
  <2>1. counter' \in 0 .. Len(rows)
    BY <1>2, <1>3
  <2> QED BY <1>2, <1>3, <1>4, <2>1 DEF KernelInv, Control
<1>6. AccsFold'
  <2> SUFFICES ASSUME program.agg # "Pack"
               PROVE  /\ RestOf' \in AccSet(program)
                      /\ main' \in Copies(AccSet(program), MainCount(program), Lanes(program))
                      /\ Value(program, main', RestOf') = FoldOf(program, rows)[counter']
    BY <1>2, <1>3 DEF AccsFold
  <2>1. RestOf' = RestOf
    <3>1. CASE LateAcc(program)
      BY <1>2, <1>4, <3>1, LateIsLate DEF RestOf, RestReady
    <3>2. CASE ~LateAcc(program)
      BY <1>2, <1>4, <3>2 DEF RestOf, RestReady, MainLoop
    <3> QED BY <3>1, <3>2
  <2>2. /\ RestOf \in AccSet(program)
        /\ main \in Copies(AccSet(program), MainCount(program), Lanes(program))
        /\ Value(program, main, RestOf) = FoldOf(program, rows)[counter]
    BY <1>2, <1>3 DEF KernelInv, AccsFold
  <2>3. /\ main' \in Copies(AccSet(program), MainCount(program), Lanes(program))
        /\ Value(program, main', RestOf) = FoldOf(program, rows)[counter + w]
    <3> DEFINE T == FoldOf(program, rows)
               R == RestOf
    <3> HIDE DEF T, R
    <3>1. R \in AccSet(program) /\ Value(program, main, R) = T[counter] /\ IsFold(T, program, rows)
      BY <1>1, <2>2 DEF T, R
    <3>2. /\ main' \in Copies(AccSet(program), MainCount(program), Lanes(program))
          /\ Value(program, main', R) = T[counter + LoopWidth(program)]
      BY <1>1, <1>3, <2>2, <3>1, MainLoopFolds
    <3> QED BY <3>2 DEF T, R, w
  <2> QED BY <1>2, <2>1, <2>2, <2>3
<1>7. PackFolds'
  <2> SUFFICES ASSUME program.agg = "Pack"
               PROVE  main' = <<>> /\ packed' = FoldOf(program, rows)[counter'] /\ rest' = Len(packed')
    BY <1>2 DEF PackFolds
  <2>1. main = <<>> /\ packed = FoldOf(program, rows)[counter] /\ rest = Len(packed)
    BY <1>2 DEF KernelInv, PackFolds
  <2> QED BY <1>1, <1>2, <1>3, <2>1, PackLoopFolds DEF w
<1>8. FlagsRaised'
  <2> DEFINE G == FlagLoop(program, vecFlags, rows, counter)
  <2>1. vecFlags \in Flags(program, program.copies)
    BY <1>2, <1>3 DEF KernelInv, FlagsRaised
  <2>2. vecFlags' = G
    BY DEF MainLoop, FlagLoop, Block, RowsAt
  <2>3. /\ G \in Flags(program, program.copies)
        /\ AnySet(program, G) <=> AnySet(program, vecFlags) \/ \E i \in 1 .. w : Fault(program, rows[counter + i])
    BY <1>1, <1>2, <1>3, <2>1, FlagLoopRaises DEF w
  <2> HIDE DEF G
  <2>4. FlagOf' = FlagOf
    <3>1. CASE LateFlag(program)
      BY <1>2, <1>4, <3>1, LateIsLate DEF FlagOf, FlagReady
    <3>2. CASE ~LateFlag(program)
      BY <1>2, <1>4, <3>2 DEF FlagOf, FlagReady
    <3> QED BY <3>1, <3>2
  <2>5. (\E i \in 1 .. counter' : Fault(program, rows[i]))
          <=> (\E i \in 1 .. counter : Fault(program, rows[i])) \/ \E i \in 1 .. w : Fault(program, rows[counter + i])
    <3>1. ASSUME NEW i \in 1 .. counter', Fault(program, rows[i])
          PROVE  (\E j \in 1 .. counter : Fault(program, rows[j])) \/ \E j \in 1 .. w : Fault(program, rows[counter + j])
      <4>1. CASE i <= counter
        <5>1. i \in 1 .. counter
          BY <1>2, <1>3, <4>1
        <5> QED BY <3>1, <5>1
      <4>2. CASE i > counter
        <5>1. i - counter \in 1 .. w /\ counter + (i - counter) = i
          BY <1>2, <1>3, <4>2
        <5> QED BY <3>1, <5>1
      <4> QED BY <1>2, <1>3, <4>1, <4>2
    <3>2. ASSUME NEW i \in 1 .. counter PROVE i \in 1 .. counter'
      BY <1>2, <1>3
    <3>3. ASSUME NEW i \in 1 .. w PROVE counter + i \in 1 .. counter'
      BY <1>2, <1>3
    <3> QED BY <3>1, <3>2, <3>3
  <2>6. AnySet(program, vecFlags) \/ FlagOf = 1 <=> \E i \in 1 .. counter : Fault(program, rows[i])
    BY DEF KernelInv, FlagsRaised
  <2>7. AnySet(program, vecFlags') \/ FlagOf' = 1 <=> \E i \in 1 .. counter' : Fault(program, rows[i])
    BY <2>2, <2>3, <2>4, <2>5, <2>6
  <2> QED BY <1>2, <1>3, <2>2, <2>3, <2>7 DEF FlagsRaised
<1> QED BY <1>5, <1>6, <1>7, <1>8 DEF KernelInv

\* What is initialised late starts as it was counted: neutral.
LEMMA DelayedKeeps ==
  ASSUME KernelInv, DelayedPrologue
  PROVE  KernelInv'
<1>1. IsProgram(program) /\ IsTable(program, rows) /\ IsFold(FoldOf(program, rows), program, rows)
  BY Tables DEF KernelInv
<1>2. /\ program' = program /\ rows' = rows /\ result' = result /\ counter' = counter /\ packed' = packed
      /\ main' = main /\ vecFlags' = vecFlags /\ pc = "delayed"
  BY DEF DelayedPrologue
<1>3. program.x86 /\ counter \in 0 .. Len(rows)
  BY <1>2 DEF KernelInv, Control
<1>4. pc' \in {"remainder", "epilogue"} /\ (pc' = "epilogue" => counter' = Len(rows))
  <2>1. pc' = Jump(program, Len(rows), "delayed", counter)
    BY <1>2 DEF DelayedPrologue
  <2> QED BY <1>1, <1>2, <1>3, <2>1, Jumps
<1>5. Control'
  BY <1>2, <1>3, <1>4 DEF KernelInv, Control
<1>6. RestOf' = RestOf /\ FlagOf' = FlagOf
  BY <1>2, <1>4 DEF RestOf, RestReady, FlagOf, FlagReady, DelayedPrologue
<1>7. AccsFold'
  BY <1>2, <1>4, <1>6 DEF KernelInv, AccsFold
<1>8. PackFolds'
  <2>1. program.agg = "Pack" => rest' = rest
    BY DEF DelayedPrologue, LateAcc
  <2> QED BY <1>2, <1>4, <2>1 DEF KernelInv, PackFolds
<1>9. FlagsRaised'
  BY <1>2, <1>4, <1>6 DEF KernelInv, FlagsRaised
<1> QED BY <1>5, <1>7, <1>8, <1>9 DEF KernelInv

\* The epilogue changes no accumulator.
LEMMA EpilogueKeeps ==
  ASSUME KernelInv, Epilogue
  PROVE  KernelInv'
<1>1. /\ program' = program /\ rows' = rows /\ counter' = counter /\ packed' = packed /\ rest' = rest
      /\ main' = main /\ vecFlags' = vecFlags /\ scalarFlag' = scalarFlag /\ pc = "epilogue" /\ pc' = "returned"
  BY DEF Epilogue, accs
<1>2. Control'
  BY <1>1 DEF KernelInv, Control
<1>3. RestOf' = RestOf /\ FlagOf' = FlagOf
  BY <1>1 DEF RestOf, RestReady, FlagOf, FlagReady
<1>4. AccsFold' /\ PackFolds'
  BY <1>1, <1>3 DEF KernelInv, AccsFold, PackFolds
<1>5. FlagsRaised'
  BY <1>1, <1>3 DEF KernelInv, FlagsRaised
<1> QED BY <1>2, <1>4, <1>5 DEF KernelInv

\* A row of the remainder keeps it.
LEMMA RemainderKeeps ==
  ASSUME KernelInv, RemainderLoop
  PROVE  KernelInv'
<1> DEFINE row == rows[counter + 1]
           T == FoldOf(program, rows)
<1>1. IsProgram(program) /\ IsTable(program, rows) /\ IsFold(T, program, rows)
  BY Tables DEF KernelInv
<1>2. /\ program' = program /\ rows' = rows /\ result' = result /\ main' = main /\ vecFlags' = vecFlags
      /\ counter' = counter + 1 /\ counter < Len(rows) /\ pc = "remainder"
      /\ rest' = ScalarStep(program, rest, row)
      /\ scalarFlag' = IF Fault(program, row) THEN 1 ELSE scalarFlag
      /\ packed' = IF program.agg = "Pack" /\ row.active THEN Append(packed, row.x) ELSE packed
  BY DEF RemainderLoop
<1>3. counter \in 0 .. Len(rows) /\ Len(rows) \in Nat /\ counter \in Nat
  <2>1. Len(rows) \in Nat
    BY <1>1 DEF IsTable
  <2> QED BY <2>1 DEF KernelInv, Control
<1>4. counter + 1 \in 1 .. Len(rows) /\ (counter + 1) - 1 = counter
  BY <1>2, <1>3
<1>5. row \in TableRow(program) /\ T[counter + 1] = Rows!Fold(program, T[counter], row)
  <2>1. row \in TableRow(program)
    BY <1>1, <1>4 DEF IsTable
  <2> DEFINE k == counter + 1
  <2>2. k \in 1 .. Len(rows) /\ k - 1 = counter
    BY <1>4
  <2>3. T[k] = Rows!Fold(program, T[k - 1], rows[k])
    <3> HIDE DEF k, T
    <3> QED BY <1>1, <2>2 DEF IsFold
  <2> HIDE DEF T
  <2> QED BY <2>1, <2>2, <2>3
<1>6. pc' \in {"remainder", "epilogue"} /\ (pc' = "epilogue" => counter' = Len(rows))
  <2>1. pc' = Jump(program, Len(rows), "remainder", counter')
    BY <1>2 DEF RemainderLoop
  <2> QED BY <1>1, <2>1, Jumps
<1> HIDE DEF row, T
<1>7. Control'
  <2>1. counter' \in 0 .. Len(rows)
    BY <1>2, <1>4
  <2> QED BY <1>2, <1>6, <2>1 DEF KernelInv, Control
<1>8. RestOf = rest /\ RestOf' = rest' /\ FlagOf = scalarFlag /\ FlagOf' = scalarFlag'
  BY Zenon, <1>2, <1>6 DEF RestOf, RestReady, FlagOf, FlagReady
<1>9. AccsFold'
  <2> SUFFICES ASSUME program.agg # "Pack"
               PROVE  /\ rest' \in AccSet(program)
                      /\ IF program.vector THEN main \in Copies(AccSet(program), MainCount(program), Lanes(program))
                         ELSE main = <<>>
                      /\ Value(program, main, rest') = T[counter + 1]
    BY <1>2, <1>8 DEF AccsFold, T
  <2>1. /\ rest \in AccSet(program)
        /\ IF program.vector THEN main \in Copies(AccSet(program), MainCount(program), Lanes(program))
           ELSE main = <<>>
        /\ Value(program, main, rest) = T[counter]
    BY <1>2, <1>8 DEF KernelInv, AccsFold, T
  <2>2. main = <<>> \/ LoopAccs(program, main)
    <3>1. CASE program.vector
      <4>1. MainCount(program) \in 1 .. Modulus("I64")
        BY <1>1, <3>1, MainIs
      <4> QED BY <2>1, <3>1, <4>1 DEF LoopAccs
    <3> QED BY <2>1, <3>1
  <2>3. Fits(program, T[counter + 1])
    BY <1>1, <1>4, FoldFits
  <2>4. Fits(program, Rows!Fold(program, Value(program, main, rest), row))
    BY Zenon, <1>5, <2>1, <2>3
  <2>5. /\ ScalarStep(program, rest, row) \in AccSet(program)
        /\ Value(program, main, ScalarStep(program, rest, row)) = Rows!Fold(program, Value(program, main, rest), row)
    BY <1>1, <1>5, <2>1, <2>2, <2>4, RestFolds
  <2> QED BY Zenon, <1>2, <1>5, <2>1, <2>5
<1>10. PackFolds'
  <2> SUFFICES ASSUME program.agg = "Pack"
               PROVE  main = <<>> /\ packed' = T[counter + 1] /\ rest' = Len(packed')
    BY <1>2 DEF PackFolds, T
  <2>1. main = <<>> /\ packed = T[counter] /\ rest = Len(packed)
    BY <1>2 DEF KernelInv, PackFolds, T
  <2> DEFINE k == counter + 1
             z == T[k - 1]
  <2>2. k \in 1 .. Len(rows) /\ z = packed
    BY <1>4, <2>1
  <2>3. /\ z \in Seq(Int) /\ rows[k].active \in BOOLEAN /\ rows[k].x \in Int
        /\ T[k] = IF rows[k].active THEN Append(z, rows[k].x) ELSE z
    <3> HIDE DEF k
    <3> QED BY <1>1, <2>2, PackFold DEF k
  <2>4. rest' = rest + Bool(row.active)
    BY <1>2 DEF ScalarStep
  <2> HIDE DEF z
  <2>5. row.active \in BOOLEAN /\ row.x \in Int /\ packed \in Seq(Int)
        /\ T[k] = IF row.active THEN Append(packed, row.x) ELSE packed
    BY <2>2, <2>3 DEF row
  <2> DEFINE x == row.x
  <2>6. x \in Int
    BY <2>5
  <2> HIDE DEF x
  <2>7. Len(Append(packed, x)) = Len(packed) + 1 /\ Len(packed) \in Nat
    BY <2>5, <2>6
  <2>8. CASE row.active
    <3>1. packed' = Append(packed, x) /\ T[k] = Append(packed, x) /\ rest' = rest + 1
      BY <1>2, <2>4, <2>5, <2>8 DEF x, Bool
    <3> QED BY <2>1, <2>7, <3>1
  <2>9. CASE ~row.active
    <3>1. packed' = packed /\ T[k] = packed /\ rest' = rest + 0
      BY <1>2, <2>4, <2>5, <2>9 DEF Bool
    <3> QED BY <2>1, <2>7, <3>1
  <2> QED BY <2>5, <2>8, <2>9
<1>11. FlagsRaised'
  <2>1. AnySet(program, vecFlags) \/ scalarFlag = 1 <=> \E i \in 1 .. counter : Fault(program, rows[i])
    BY <1>8 DEF KernelInv, FlagsRaised
  <2>2. (\E i \in 1 .. counter + 1 : Fault(program, rows[i]))
          <=> (\E i \in 1 .. counter : Fault(program, rows[i])) \/ Fault(program, row)
    <3>1. 1 .. counter + 1 = 1 .. counter \cup {counter + 1}
      BY <1>3
    <3> QED BY Zenon, <3>1 DEF row
  <2>3. AnySet(program, vecFlags) \/ scalarFlag' = 1 <=> \E i \in 1 .. counter + 1 : Fault(program, rows[i])
    BY <1>2, <2>1, <2>2
  <2> QED BY <1>2, <1>8, <2>3 DEF KernelInv, FlagsRaised
<1> QED BY <1>7, <1>9, <1>10, <1>11 DEF KernelInv

LEMMA KernelStep == KernelInv /\ [Next]_vars => KernelInv'
<1> SUFFICES ASSUME KernelInv, [Next]_vars PROVE KernelInv'
  OBVIOUS
<1>1. CASE Prologue
  BY <1>1, PrologueKeeps
<1>2. CASE MainLoop
  BY <1>2, MainLoopKeeps
<1>3. CASE DelayedPrologue
  BY <1>3, DelayedKeeps
<1>4. CASE RemainderLoop
  BY <1>4, RemainderKeeps
<1>5. CASE Epilogue
  BY <1>5, EpilogueKeeps
<1>6. CASE UNCHANGED vars
  <2>1. Control' /\ RestOf' = RestOf /\ FlagOf' = FlagOf
    BY <1>6 DEF KernelInv, Control, vars, RestOf, RestReady, FlagOf, FlagReady
  <2>2. AccsFold' /\ PackFolds'
    BY <1>6, <2>1 DEF KernelInv, AccsFold, PackFolds, vars
  <2>3. FlagsRaised'
    BY <1>6, <2>1 DEF KernelInv, FlagsRaised, vars
  <2> QED BY <2>1, <2>2, <2>3 DEF KernelInv
<1> QED BY <1>1, <1>2, <1>3, <1>4, <1>5, <1>6 DEF Next

\* On every path of the jumps, the accumulators of a kernel stand for the fold of
\* the rows that it has read, those that hold garbage counted as neutral, and the
\* flags for the faults of those rows.
THEOREM KernelInvariant == Spec => []KernelInv
<1> QED BY KernelInit, KernelStep, PTL DEF Spec

(***************************************************************************)
(* The kernel implements the fold of its rows.                              *)
(***************************************************************************)
Stands ==
  /\ FoldOfAccs = FoldOf(program, rows)[counter]
  /\ RaisedInAccs = \E i \in 1 .. counter : Rows!FaultyRow(program, rows[i])

LEMMA InvStands == KernelInv => Stands
BY ValueOfAccs, RaisedOfAccs DEF Stands

LEMMA StandsNext == KernelInv' => Stands'
BY InvStands, PTL

\* The rows of a block are those of the table.
LEMMA BlockIs ==
  ASSUME NEW S, NEW s \in Seq(S), NEW a \in 0 .. Len(s), NEW b \in 0 .. Len(s), a < b
  PROVE  /\ b - a \in Nat /\ b = a + (b - a)
         /\ DOMAIN SubSeq(s, a + 1, b) = 1 .. b - a
         /\ \A i \in 1 .. b - a : SubSeq(s, a + 1, b)[i] = s[a + i]
<1>1. Len(s) \in Nat /\ a + 1 \in 1 .. Len(s) + 1 /\ b \in a + 1 .. Len(s)
  OBVIOUS
<1>2. Len(SubSeq(s, a + 1, b)) = b - a
  BY <1>1
<1>3. SubSeq(s, a + 1, b) \in Seq(S)
  BY <1>1
<1>4. \A i \in 1 .. b - a : SubSeq(s, a + 1, b)[i] = s[a + i]
  BY <1>1
<1> QED BY <1>1, <1>2, <1>3, <1>4

\* A kernel starts where the abstract fold does.
LEMMA RowsInit == Init => Rows!FoldInit
<1> SUFFICES ASSUME Init PROVE Rows!FoldInit
  OBVIOUS
<1>1. KernelInv
  BY KernelInit
<1>2. IsFold(FoldOf(program, rows), program, rows)
  BY <1>1, Tables DEF KernelInv
<1>3. FoldOfAccs = Rows!Neutral(program)
  <2>1. FoldOfAccs = FoldOf(program, rows)[0]
    BY <1>1, InvStands DEF Stands, Init
  <2> QED BY <1>2, <2>1 DEF IsFold
<1>4. RaisedInAccs = FALSE
  <2>1. RaisedInAccs = \E i \in 1 .. counter : Rows!FaultyRow(program, rows[i])
    BY <1>1, InvStands DEF Stands
  <2>2. 1 .. counter = {}
    BY DEF Init
  <2> QED BY <2>1, <2>2
<1>5. Returned = <<>>
  BY DEF Returned, Init
<1> QED BY <1>3, <1>4, <1>5 DEF Rows!FoldInit, Init

\* The prologues read no row.
LEMMA PrologueStutters ==
  ASSUME KernelInv, KernelInv', Prologue \/ DelayedPrologue
  PROVE  UNCHANGED Rows!foldVars
<1>1. program' = program /\ rows' = rows /\ counter' = counter /\ result' = result /\ result = <<>>
  BY DEF Prologue, DelayedPrologue, KernelInv, Control
<1>2. Stands /\ Stands'
  BY InvStands, StandsNext
<1>3. FoldOfAccs' = FoldOfAccs
  BY <1>1, <1>2 DEF Stands
<1>4. RaisedInAccs' = RaisedInAccs
  BY <1>1, <1>2 DEF Stands
<1>5. Returned' = Returned
  BY <1>1 DEF Returned
<1> QED BY <1>1, <1>3, <1>4, <1>5 DEF Rows!foldVars

\* A pass of a loop folds the rows from the counter to the next.
LEMMA LoopFoldsBlock ==
  ASSUME KernelInv, KernelInv', program' = program, rows' = rows, counter' \in Nat, counter < counter',
         result = <<>>, result' = <<>>
  PROVE  Rows!FoldBlock
<1> DEFINE T == FoldOf(program, rows)
           block == SubSeq(rows, counter + 1, counter')
           N == Len(rows)
<1>1. IsProgram(program) /\ IsTable(program, rows) /\ IsFold(T, program, rows)
  BY Tables DEF KernelInv
<1>2. counter \in 0 .. N /\ counter' \in 0 .. N /\ N \in Nat
  <2>1. N \in Nat
    BY <1>1 DEF IsTable
  <2> QED BY <2>1 DEF KernelInv, Control
<1> HIDE DEF N
<1>3. counter' \in counter + 1 .. N
  BY <1>2
<1> HIDE DEF T
<1>4. Stands /\ Stands'
  BY InvStands, StandsNext
<1>5. FoldOfAccs = T[counter] /\ FoldOfAccs' = T[counter']
  BY <1>4 DEF Stands, T
<1>6. FoldOfAccs' = Rows!FoldRows(program, FoldOfAccs, block)
  <2> DEFINE a == counter
             b == counter'
  <2>1. a \in 0 .. Len(rows) /\ b \in a + 1 .. Len(rows)
    BY <1>2, <1>3 DEF N
  <2> HIDE DEF a, b
  <2>2. Rows!FoldRows(program, T[a], SubSeq(rows, a + 1, b)) = T[b]
    BY <1>1, <2>1, FoldRowsIs
  <2> HIDE DEF block
  <2> QED BY Zenon, <1>5, <2>2 DEF a, b, block
<1>7. RaisedInAccs' = (RaisedInAccs \/ \E i \in DOMAIN block : Rows!FaultyRow(program, block[i]))
  <2> DEFINE F(i) == Rows!FaultyRow(program, rows[i])
             d == counter' - counter
             b == counter'
  <2>1. /\ d \in Nat /\ b = counter + d
        /\ DOMAIN SubSeq(rows, counter + 1, b) = 1 .. d
        /\ \A i \in 1 .. d : SubSeq(rows, counter + 1, b)[i] = rows[counter + i]
    <3>1. rows \in Seq(TableRow(program))
      BY <1>1 DEF IsTable
    <3>2. counter \in 0 .. Len(rows) /\ b \in 0 .. Len(rows) /\ counter < b /\ d = b - counter
      BY <1>2 DEF N
    <3> HIDE DEF b, d, F
    <3> QED BY <3>1, <3>2, BlockIs
  <2>2. DOMAIN block = 1 .. d /\ \A i \in 1 .. d : block[i] = rows[counter + i]
    BY Zenon, <2>1
  <2>3. /\ RaisedInAccs = \E i \in 1 .. counter : F(i)
        /\ RaisedInAccs' = \E i \in 1 .. counter' : F(i)
    BY <1>4 DEF Stands
  <2> HIDE DEF F, d
  <2>4. (\E i \in 1 .. counter' : F(i)) <=> (\E i \in 1 .. counter : F(i)) \/ \E i \in 1 .. d : F(counter + i)
    <3>1. ASSUME NEW i \in 1 .. counter', F(i)
          PROVE  (\E j \in 1 .. counter : F(j)) \/ \E j \in 1 .. d : F(counter + j)
      <4>1. CASE i <= counter
        <5>1. i \in 1 .. counter
          BY <1>2, <4>1
        <5> QED BY <3>1, <5>1
      <4>2. CASE i > counter
        <5>1. i - counter \in 1 .. d /\ counter + (i - counter) = i
          BY <1>2, <2>1, <4>2
        <5> QED BY <3>1, <5>1
      <4> QED BY <1>2, <4>1, <4>2
    <3>2. ASSUME NEW i \in 1 .. counter PROVE i \in 1 .. counter'
      BY <1>2, <2>1
    <3>3. ASSUME NEW i \in 1 .. d PROVE counter + i \in 1 .. counter'
      BY <1>2, <2>1
    <3> QED BY <3>1, <3>2, <3>3
  <2> HIDE DEF block
  <2>5. (\E i \in DOMAIN block : Rows!FaultyRow(program, block[i])) <=> \E i \in 1 .. d : F(counter + i)
    BY Zenon, <2>2 DEF F
  <2> QED BY Zenon, <2>3, <2>4, <2>5
<1>8. Returned = <<>> /\ Returned' = <<>>
  BY DEF Returned
<1> QED BY <1>3, <1>6, <1>7, <1>8 DEF Rows!FoldBlock, N

\* The epilogue returns the fold of all rows.
LEMMA EpilogueReturns ==
  ASSUME KernelInv, KernelInv', Epilogue
  PROVE  Rows!Return
<1>1. /\ program' = program /\ rows' = rows /\ counter' = counter /\ packed' = packed /\ rest' = rest
      /\ main' = main /\ vecFlags' = vecFlags /\ scalarFlag' = scalarFlag /\ pc = "epilogue" /\ pc' = "returned"
      /\ result' = <<Collapse(program, main, rest), program.check # "none" /\ CollapseFlags(program, vecFlags, scalarFlag)>>
  BY DEF Epilogue, accs
<1>2. IsProgram(program) /\ IsTable(program, rows) /\ IsFold(FoldOf(program, rows), program, rows)
  BY Tables DEF KernelInv
<1>3. counter = Len(rows) /\ result = <<>> /\ counter \in 0 .. Len(rows)
  BY <1>1 DEF KernelInv, Control
<1>4. Stands /\ Stands'
  BY InvStands, StandsNext
<1>5. FoldOfAccs' = FoldOfAccs /\ RaisedInAccs' = RaisedInAccs
  BY <1>1, <1>4 DEF Stands
<1>6. RestReady /\ FlagReady
  BY <1>1 DEF RestReady, FlagReady
<1>7. RaisedInAccs = result'[2]
  BY <1>1, <1>6 DEF RaisedInAccs
<1>8. FoldOfAccs = IF program.agg = "Pack" THEN SubSeq(packed', 1, result'[1]) ELSE Number(result[1])'
  <2>1. CASE program.agg = "Pack"
    <3>1. result'[1] = rest
      BY <1>1, <2>1 DEF Collapse
    <3>2. packed = FoldOf(program, rows)[counter] /\ rest = Len(packed)
      BY <1>1, <2>1 DEF KernelInv, PackFolds
    <3>3. packed \in Seq(Int)
      BY <1>2, <1>3, <2>1, <3>2 DEF IsFold, ValueSet
    <3>4. SubSeq(packed, 1, Len(packed)) = packed
      BY <3>3
    <3>5. FoldOfAccs = packed
      BY <2>1 DEF FoldOfAccs, Number
    <3> QED BY <1>1, <2>1, <3>1, <3>2, <3>4, <3>5
  <2>2. CASE program.agg # "Pack"
    <3>1. FoldOfAccs = Number(Collapse(program, main, rest))
      BY <1>6 DEF FoldOfAccs
    <3>2. Number(result[1])' = Number(Collapse(program, main, rest))
      BY <1>1, <2>2 DEF Number
    <3> QED BY <2>2, <3>1, <3>2
  <2> QED BY <2>1, <2>2
<1>9. Returned = <<>> /\ Returned' = <<FoldOfAccs, RaisedInAccs>>
  <2>1. result' # <<>>
    BY <1>1
  <2>2. Returned' = << IF program.agg = "Pack" THEN SubSeq(packed', 1, result'[1]) ELSE Number(result[1])', result'[2] >>
    BY <1>1, <2>1 DEF Returned
  <2> QED BY <1>3, <1>7, <1>8, <2>2 DEF Returned
<1> QED BY <1>1, <1>3, <1>5, <1>9 DEF Rows!Return

\* Every step of a kernel is a block of rows folded, the return, or no step.
LEMMA RowsNext ==
  KernelInv /\ KernelInv' /\ [Next]_vars => [Rows!FoldBlock \/ Rows!Return]_Rows!foldVars
<1> SUFFICES ASSUME KernelInv, KernelInv', [Next]_vars
             PROVE  Rows!FoldBlock \/ Rows!Return \/ UNCHANGED Rows!foldVars
  OBVIOUS
<1>1. CASE Prologue \/ DelayedPrologue
  BY <1>1, PrologueStutters
<1>2. CASE MainLoop \/ RemainderLoop
  <2>1. counter \in Nat /\ LoopWidth(program) \in Nat \ {0}
    <3>1. IsProgram(program) /\ IsTable(program, rows)
      BY Tables DEF KernelInv
    <3>2. LoopWidth(program) \in Nat \ {0} /\ Len(rows) \in Nat
      BY <3>1, WidthIs DEF IsTable
    <3> QED BY <3>2 DEF KernelInv, Control
  <2>2. program' = program /\ rows' = rows /\ result' = result /\ result = <<>>
    BY <1>2 DEF MainLoop, RemainderLoop, KernelInv, Control
  <2>3. counter' = counter + LoopWidth(program) \/ counter' = counter + 1
    BY <1>2 DEF MainLoop, RemainderLoop
  <2>4. counter' \in Nat /\ counter < counter'
    BY <2>1, <2>3
  <2> QED BY <2>2, <2>4, LoopFoldsBlock
<1>3. CASE Epilogue
  BY <1>3, EpilogueReturns
<1>4. CASE UNCHANGED vars
  <2>1. program' = program /\ rows' = rows /\ counter' = counter /\ result' = result /\ packed' = packed
        /\ main' = main /\ vecFlags' = vecFlags /\ rest' = rest /\ scalarFlag' = scalarFlag /\ pc' = pc
    BY <1>4 DEF vars
  <2>2. FoldOfAccs' = FoldOfAccs /\ RaisedInAccs' = RaisedInAccs
    <3>1. Stands /\ Stands'
      BY InvStands, StandsNext
    <3> QED BY <2>1, <3>1 DEF Stands
  <2>3. Returned' = Returned
    BY <2>1 DEF Returned, Number
  <2> QED BY <2>1, <2>2, <2>3 DEF Rows!foldVars
<1> QED BY <1>1, <1>2, <1>3, <1>4 DEF Next

\* A compiled kernel implements the fold of its rows: for every program and every
\* table, however it is unrolled and split, each pass of its loops folds the next
\* rows in their order and the epilogue stores the fold and whether a row faulted.
THEOREM KernelImplementsRowFold == Spec => ImplementsRowFold
<1>1. Spec => []KernelInv
  BY KernelInvariant
<1> QED BY <1>1, RowsInit, RowsNext, PTL DEF Spec, ImplementsRowFold, Rows!FoldSpec

(***************************************************************************)
(* The loops stay in the table.                                             *)
(***************************************************************************)
ReadsItsRows ==
  /\ pc = "main" => counter + LoopWidth(program) <= Len(rows)
  /\ pc = "remainder" => counter < Len(rows)

\* The main loop starts at multiples of its width.
Aligned == pc = "main" => \E q \in Nat : counter = LoopWidth(program) * q

\* A multiple of the width below the last whole block leaves a block to read.
LEMMA BlockLeft ==
  ASSUME NEW w \in Nat \ {0}, NEW n \in Nat, NEW q \in Nat, w * q < n - (n % w)
  PROVE  w * q + w <= n
<1>1. n = w * (n \div w) + (n % w) /\ n % w \in 0 .. w - 1 /\ n \div w \in Int
  BY Divides
<1> DEFINE d == n \div w
           r == n % w
<1> HIDE DEF d, r
<1>2. n = w * d + r /\ r \in Nat /\ d \in Int
  BY <1>1 DEF d, r
<1>3. w * q < w * d
  <2> DEFINE x == w * d
             y == w * q
  <2>1. x \in Int /\ y \in Int
    BY <1>2, SMT
  <2>2. n = x + r /\ y < n - r
    BY <1>2 DEF r
  <2> HIDE DEF x, y
  <2>3. y < x
    BY <1>2, <2>1, <2>2
  <2> QED BY <2>3 DEF x, y
<1>4. q < d
  BY <1>2, <1>3, SMT
<1>5. w * q + w <= w * d
  <2>1. q + 1 <= d
    BY <1>2, <1>4
  <2>2. w * (q + 1) <= w * d
    BY <1>2, <2>1, SMT
  <2>3. w * (q + 1) = w * q + w
    BY SMT
  <2> QED BY <2>2, <2>3
<1> DEFINE x == w * d
           y == w * q
<1>6. x \in Int /\ y \in Int
  BY <1>2, SMT
<1>7. y + w <= x /\ n = x + r
  BY <1>2, <1>5
<1> HIDE DEF x, y
<1>8. y + w <= n
  BY <1>2, <1>6, <1>7
<1> QED BY <1>8 DEF y

LEMMA JumpsInside ==
  ASSUME NEW p, IsProgram(p), NEW n \in Nat, NEW at \in 0 .. n,
         NEW from \in {"prologue", "main", "delayed", "remainder"},
         from = "prologue" => at = 0, from = "main" => p.vector /\ \E q \in Nat : at = LoopWidth(p) * q,
         from = "delayed" => p.x86, NEW to, to = Jump(p, n, from, at)
  PROVE  /\ to = "main" => at + LoopWidth(p) <= n /\ \E q \in Nat : at = LoopWidth(p) * q
         /\ to = "remainder" => at < n
<1> DEFINE w == LoopWidth(p)
<1>1. w \in Nat \ {0}
  BY WidthIs
<1>2. from = "main" /\ at < n - (n % w) => at + w <= n
  <2> SUFFICES ASSUME from = "main", at < n - (n % w) PROVE at + w <= n
    OBVIOUS
  <2>1. PICK q \in Nat : at = w * q
    OBVIOUS
  <2> HIDE DEF w
  <2> QED BY <1>1, <2>1, BlockLeft
<1>3. 0 = w * 0
  BY <1>1
<1>4. p.x86 \in BOOLEAN /\ p.vector \in BOOLEAN
  BY DEF IsProgram
<1> HIDE DEF w
<1>5. from = "prologue" => \E q \in Nat : at = w * q
  BY <1>3
<1>6. CASE p.x86
  <2>1. to = JumpX86(p, n, from, at)
    BY <1>6 DEF Jump
  <2>2. CASE from = "prologue"
    BY <1>1, <1>4, <1>5, <2>1, <2>2 DEF JumpX86, w
  <2>3. CASE from = "main"
    BY <1>1, <1>2, <1>4, <2>1, <2>3 DEF JumpX86, w
  <2>4. CASE from = "delayed"
    BY <1>4, <2>1, <2>4 DEF JumpX86
  <2>5. CASE from = "remainder"
    BY <1>4, <2>1, <2>5 DEF JumpX86
  <2> QED BY <2>2, <2>3, <2>4, <2>5
<1>7. CASE ~p.x86
  <2>1. to = JumpArm(p, n, from, at)
    BY <1>7 DEF Jump
  <2>2. CASE from = "prologue"
    BY <1>1, <1>4, <1>5, <2>1, <2>2 DEF JumpArm, w
  <2>3. CASE from = "main"
    BY <1>1, <1>2, <1>4, <2>1, <2>3 DEF JumpArm, w
  <2>4. CASE from = "remainder"
    BY <1>4, <2>1, <2>4 DEF JumpArm
  <2> QED BY <1>7, <2>2, <2>3, <2>4
<1> QED BY <1>4, <1>6, <1>7

\* The program and its table, as far as the loops step through it.
Inside == Control /\ ReadsItsRows /\ Aligned

LEMMA InsideStep == Inside /\ Control' /\ [Next]_vars => Inside'
<1> SUFFICES ASSUME Inside, Control', [Next]_vars
             PROVE  ReadsItsRows' /\ Aligned'
  BY DEF Inside
<1>1. IsProgram(program) /\ IsTable(program, rows) /\ Len(rows) \in Nat /\ LoopWidth(program) \in Nat \ {0}
  BY Tables, WidthIs DEF Inside, IsTable
<1>2. CASE UNCHANGED vars
  BY <1>2 DEF Inside, ReadsItsRows, Aligned, vars
<1>3. CASE Epilogue
  BY <1>3 DEF Epilogue, ReadsItsRows, Aligned
<1> DEFINE w == LoopWidth(program)
           to == pc'
           at == counter'
           Fine == /\ to = "main" => at + w <= Len(rows) /\ \E q \in Nat : at = w * q
                   /\ to = "remainder" => at < Len(rows)
<1>4. CASE Prologue \/ MainLoop \/ DelayedPrologue \/ RemainderLoop
  <2>1. program' = program /\ rows' = rows /\ at \in 0 .. Len(rows)
    BY <1>4 DEF Prologue, MainLoop, DelayedPrologue, RemainderLoop, Control
  <2>2. Fine
    <3>1. CASE Prologue
      <4>1. at = 0 /\ to = Jump(program, Len(rows), "prologue", 0)
        BY <3>1 DEF Prologue, Inside, Control
      <4> QED BY <1>1, <2>1, <4>1, JumpsInside
    <3>2. CASE MainLoop
      <4>1. program.vector /\ at = counter + w /\ to = Jump(program, Len(rows), "main", at)
        BY <3>2 DEF MainLoop, Inside, Control
      <4>2. \E q \in Nat : at = w * q
        <5>1. PICK q \in Nat : counter = w * q
          BY <3>2 DEF MainLoop, Inside, Aligned
        <5> HIDE DEF w, at
        <5>2. w * q + w = w * (q + 1)
          BY <1>1, SMT DEF w
        <5> QED BY <4>1, <5>1, <5>2
      <4> HIDE DEF to, at
      <4> QED BY <1>1, <2>1, <4>1, <4>2, JumpsInside
    <3>3. CASE DelayedPrologue
      <4>1. program.x86 /\ at = counter /\ to = Jump(program, Len(rows), "delayed", at)
        BY <3>3 DEF DelayedPrologue, Inside, Control
      <4> HIDE DEF to, at
      <4> QED BY <1>1, <2>1, <4>1, JumpsInside
    <3>4. CASE RemainderLoop
      <4>1. to = Jump(program, Len(rows), "remainder", at)
        BY <3>4 DEF RemainderLoop
      <4> HIDE DEF to, at
      <4> QED BY <1>1, <2>1, <4>1, JumpsInside
    <3> QED BY <1>4, <3>1, <3>2, <3>3, <3>4
  <2> QED BY <2>1, <2>2 DEF ReadsItsRows, Aligned
<1> QED BY <1>2, <1>3, <1>4 DEF Next

\* Neither loop reads beyond the table, whatever its length: a pass of the main
\* loop starts only where a whole block of rows is left, and a pass of the
\* remainder only where a row is.
THEOREM LoopsStayInTheTable == Spec => []ReadsItsRows
<1>1. Init => Inside
  <2>1. Init => Control
    BY KernelInit DEF KernelInv
  <2> QED BY <2>1 DEF Inside, ReadsItsRows, Aligned, Init
<1>2. KernelInv => Control
  BY DEF KernelInv
<1>3. Inside => ReadsItsRows
  BY DEF Inside
<1> QED BY <1>1, <1>2, <1>3, InsideStep, KernelInvariant, PTL DEF Spec

(***************************************************************************)
(* Blocks of rows, of every width and position: cutting one loses and        *)
(* repeats no row, and a block keeps its place in the wider one around it.   *)
(***************************************************************************)

\* The rows of the two halves of a block are its rows, and no row is in both:
\* the two operands of a combining cast, and the two roots of a split, share
\* out the rows of the one they replace (lhs_half, rhs_half).
THEOREM HalvesShareOutTheRows ==
  ASSUME NEW b \in RowBlock, NEW h \in Nat \ {0}, b.width = 2 * h
  PROVE  /\ RowsOf(lhs_half(b)) \cup RowsOf(rhs_half(b)) = RowsOf(b)
         /\ RowsOf(lhs_half(b)) \cap RowsOf(rhs_half(b)) = {}
<1>1. b.width \in Nat /\ b.idx \in Nat /\ b.width \div 2 = h
  BY SMT DEF RowBlock
<1> DEFINE first == h * (2 * b.idx)
<1>2. first \in Nat
  BY <1>1
<1>3. row_offset(b) = first
  BY <1>1, SMT DEF row_offset
<1>4. row_offset(lhs_half(b)) = first /\ lhs_half(b).width = h
  BY <1>1, SMT DEF row_offset, lhs_half, nth_slice
<1>5. row_offset(rhs_half(b)) = first + h /\ rhs_half(b).width = h
  BY <1>1, SMT DEF row_offset, rhs_half, nth_slice
<1>6. /\ RowsOf(b) = first .. first + (2 * h) - 1
      /\ RowsOf(lhs_half(b)) = first .. first + h - 1
      /\ RowsOf(rhs_half(b)) = first + h .. first + h + h - 1
  BY <1>3, <1>4, <1>5 DEF RowsOf
<1> HIDE DEF first
<1> QED
  BY <1>2, <1>6

\* A copy of a root starts at as many copy widths behind the root's block as
\* its number says: no two copies of a root, and no two roots of a group, meet
\* in a row as long as they do not in one copy (nth_copy).
THEOREM CopiesAreACopyWidthApart ==
  ASSUME NEW b \in RowBlock, NEW n \in Nat, NEW k \in Nat \ {0},
         NEW copy_width \in Nat, copy_width = k * b.width
  PROVE  /\ nth_copy(b, n, copy_width).width = b.width
         /\ row_offset(nth_copy(b, n, copy_width)) = row_offset(b) + n * copy_width
<1>1. b.width \in Nat \ {0} /\ b.idx \in Nat
  BY DEF RowBlock
<1>2. copy_width \div b.width = k
  BY <1>1, SMT
<1>3. nth_copy(b, n, copy_width) = [b EXCEPT !.idx = b.idx + n * k]
  BY <1>2 DEF nth_copy
<1>4. /\ nth_copy(b, n, copy_width).width = b.width
      /\ nth_copy(b, n, copy_width).idx = b.idx + n * k
  BY <1>1, <1>3 DEF RowBlock
<1>5. b.width * (b.idx + n * k) = b.width * b.idx + n * (k * b.width)
  BY <1>1, SMT
<1> QED
  BY <1>4, <1>5 DEF row_offset

\* Quotient and remainder, with their types.
LEMMA Division ==
  ASSUME NEW i \in Nat, NEW k \in Nat \ {0}
  PROVE  i = k * (i \div k) + (i % k) /\ i \div k \in Nat /\ i % k \in Nat
<1>1. i % k \in Nat
  OBVIOUS
<1>2. i \div k \in Nat
  BY SMT
<1>3. i = k * (i \div k) + (i % k)
  BY SMT
<1> QED
  BY <1>1, <1>2, <1>3

\* The rows of a block start, in the wider block that contains it, at its
\* index there times its width: the slice that a widened half takes of its
\* argument is the slice of its own rows (containing_block,
\* index_in_containing_block).
THEOREM SliceOfContainingBlock ==
  ASSUME NEW b \in RowBlock, NEW k \in Nat \ {0}, NEW width \in Nat, width = k * b.width
  PROVE  row_offset(b) = row_offset(containing_block(b, width))
                             + index_in_containing_block(b, width) * b.width
<1>1. b.width \in Nat \ {0} /\ b.idx \in Nat
  BY DEF RowBlock
<1>2. width \div b.width = k
  BY <1>1, SMT
<1>3. b.idx = k * (b.idx \div k) + (b.idx % k) /\ b.idx \div k \in Nat /\ b.idx % k \in Nat
  BY <1>1, Division
<1> DEFINE q == b.idx \div k
         r == b.idx % k
<1>4. row_offset(containing_block(b, width)) = (k * b.width) * q
  BY <1>2 DEF row_offset, containing_block
<1>5. index_in_containing_block(b, width) = r
  BY <1>2 DEF index_in_containing_block
<1>6. b.idx = k * q + r /\ q \in Nat /\ r \in Nat
  BY <1>3
<1> HIDE DEF q, r
<1>7. b.width * (k * q + r) = (k * b.width) * q + r * b.width
  BY <1>1, <1>6, SMT
<1> QED
  BY <1>4, <1>5, <1>6, <1>7 DEF row_offset
=============================================================================

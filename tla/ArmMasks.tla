------------------------------ MODULE ArmMasks ------------------------------
(* Masks on AArch64: vectors of as many lanes as rows, all ones where a row   *)
(* is selected. A mask has the element size of the vectors that were          *)
(* compared, so that a mask of eight rows may be held in eight bytes or in    *)
(* eight half words: the emitter keeps the size with the register and         *)
(* converts where two sizes meet.                                            *)
(*                                                                           *)
(* A register is its element size and the set of its bytes that are ones.     *)
EXTENDS Integers, FiniteSets

RegisterBytes == 16
Masks == {2, 4, 8, 16}                \* M2 to M16, by their number of rows
NaturalSize(rows) == RegisterBytes \div rows


Held(size, ones) == [size |-> size, ones |-> ones]
BytesOf(size, lane) == {size * lane + b : b \in 0 .. size - 1}

\* A register of the element size that selects the rows of a set.
MaskOf(size, selected) == Held(size, UNION {BytesOf(size, l) : l \in selected})

\* The rows a consumer of its element size sees selected.
SelectedRows(rows, m) == {l \in 0 .. rows - 1 : BytesOf(m.size, l) \subseteq m.ones}

\* shrink_mask: xtn keeps the low bytes of every lane, in the low half.
Shrink(m, size) ==
  IF m.size <= size THEN m
  ELSE Held(size, {size * l + b : l \in {k \in 0 .. RegisterBytes \div m.size - 1 : TRUE}, b \in 0 .. size - 1}
                    \intersect {i \in 0 .. RegisterBytes - 1 : m.size * (i \div size) + (i % size) \in m.ones})

\* expand_mask: sxtl repeats the sign of the low lanes.
Expand(m, size) ==
  IF m.size >= size THEN m
  ELSE Held(size, {i \in 0 .. RegisterBytes - 1 : m.size * (i \div size) + m.size - 1 \in m.ones})

Resize(m, size) == IF m.size > size THEN Shrink(m, size) ELSE Expand(m, size)

\* masks_to_same_size: the larger shrinks.
Smaller(a, b) == IF a <= b THEN a ELSE b
SameSize(m, n) == LET s == Smaller(m.size, n.size) IN <<Shrink(m, s), Shrink(n, s)>>

\* Load: bits to lanes. A mask of eight rows is loaded to bytes.
LoadMask(rows, selected) ==
  MaskOf(IF rows = 8 THEN 1 ELSE NaturalSize(rows), selected)

\* MaskBinary: whole registers.
MaskBinary(op, m, n) ==
  LET pair == SameSize(m, n)
      a == pair[1].ones
      b == pair[2].ones
      all == 0 .. RegisterBytes - 1
  IN  Held(pair[1].size,
           CASE op = "And" -> a \intersect b [] op = "Or" -> a \union b
             [] op = "Xor" -> (a \union b) \ (a \intersect b) [] op = "AndNot" -> b \ a
             [] op = "XNor" -> all \ ((a \union b) \ (a \intersect b)))

\* PredicateNot: a loaded mask of eight rows is expanded first.
MaskNot(rows, m) ==
  LET n == IF rows = 8 /\ m.size = 1 THEN Expand(m, 2) ELSE m
  IN  Held(n.size, (0 .. RegisterBytes - 1) \ n.ones)

\* MaskCount adds lanes of the size that the number of rows suggests: only the low
\* byte of each is looked at.
MaskCount(rows, m) == Cardinality({l \in 0 .. rows - 1 : NaturalSize(rows) * l \in m.ones})

\* MaskReduce adds all the bytes of the register.
MaskReduce(op, rows, m) ==
  LET n == Cardinality(Shrink(m, 1).ones)
  IN  CASE op = "And" -> n = rows [] op = "Or" -> n # 0 [] op = "Xor" -> n % 2 = 1

\* MaskCombine: the rows of the left one and after them those of the right one.
\* Two full registers are narrowed into one (xtn, xtn2), halves put together.
MaskCombine(rows, m, n) ==
  LET pair == SameSize(m, n)
      size == pair[1].size
      half == rows \div 2
      both == (pair[1].ones \intersect (0 .. size * half - 1))
                \union {i + size * half : i \in pair[2].ones \intersect (0 .. size * half - 1)}
      narrow == IF size = 1 THEN {} ELSE
        {i \in 0 .. RegisterBytes - 1 :
           LET l == i \div (size \div 2)
               b == i % (size \div 2)
           IN  IF l < half THEN size * l + b \in pair[1].ones ELSE size * (l - half) + b \in pair[2].ones}
  IN  IF size * rows > RegisterBytes THEN Held(size \div 2, narrow) ELSE Held(1, both)

\* Store: one byte for each row, then one bit.
StoreMask(rows, m) == {l \in 0 .. rows - 1 : l \in Shrink(m, 1).ones}

\* Select of vectors of elements of a size, as the rows that take the first value.
\* Against a constant zero the register itself is the mask of the values.
SelectBytes(size, m, zero) ==
  IF zero THEN m.ones ELSE Resize(m, size).ones
SelectsWhole(rows, size, m, zero) ==
  [l \in 0 .. rows - 1 |->
     LET taken == BytesOf(size, l) \intersect SelectBytes(size, m, zero)
     IN  IF taken = BytesOf(size, l) THEN "first" ELSE IF taken = {} THEN "second" ELSE "mixed"]

\* CondStore blends with the register as it is; a pack resizes it.
CondStoreBytes(size, m) == m.ones
PackRows(rows, size, m) == SelectedRows(rows, Resize(m, size))
=============================================================================

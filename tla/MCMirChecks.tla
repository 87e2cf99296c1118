---------------------------- MODULE MCMirChecks ----------------------------
(* Emission: the lowering on a machine with bytes of 4 bits: an i8 has 16 values, an i16  *)
(* 256 and an i32 65536. Every pair of i8, and the i16 and i32 around the    *)
(* boundaries. The products of a division stay below 2^31, TLC's integers.   *)
(* The emitters run on bytes of 2 bits, every i8, and the wider ones around  *)
(* the boundaries.                                                           *)
EXTENDS Emission

SmallTypes == {"I8", "I16", "I32"}
ConstBools(op) == IF op \in ShiftOps \union DivisionOps THEN BOOLEAN ELSE {FALSE}
FlagsOf(op) ==
  {"No"} \union (IF op \in ShiftOps THEN {"ShiftWraparound"} ELSE {})
         \union (IF op \in DivisionOps THEN {"SafeDivision"} ELSE {})

BinaryOps == {"Add", "Sub", "Mul"} \union ShiftOps \union DivisionOps

AllOperations ==
  UNION {{Arith(op, flag, t, const) : flag \in FlagsOf(op), const \in ConstBools(op)} :
           op \in BinaryOps, t \in SmallTypes}
  \union {Unary(op, t) : op \in {"Negate", "Not", "Abs", "Lzcnt", "Tzcnt", "Popcount"}, t \in SmallTypes}
  \union {Trunc("I32", "I16", "No"), Trunc("I32", "I8", "No"), Trunc("I16", "I8", "No"), Trunc("I16", "I8", "twice")}

Subtractions == {Arith("Sub", "No", t, FALSE) : t \in SmallTypes}

Sample(t) ==
  CASE t = "I8"  -> 0 .. 15
    [] t = "I16" -> {0, 1, 2, 3, 7, 8, 16, 127, 128, 129, 200, 253, 255}
    [] t = "I32" -> {0, 1, 3, 7, 15, 16, 17, 1000, 32767} \union {32768, 32769, 40000, 65533, 65535}

\* An unsigned i32 divides by, and is divided in, the lower half of its range.
Fits(o, r) == o.op \in {"UDiv", "UMod"} /\ o.t = "I32" => r[1] < 32768 /\ r[2] < 32768

RowsOf(o) ==
  LET left == Sample(IF o.flag = "twice" THEN Wider(o.from) ELSE o.from)
  IN  IF o.kind = "ArithBinary" THEN {r \in left \X Sample(o.t) : Fits(o, r)} ELSE left \X {0}

SampledRows == [o \in AllOperations |-> RowsOf(o)]

(***************************************************************************)
(* The steps that are emitted, and their operands.                          *)
(***************************************************************************)
Plain(kind, op, from, t) == E!Instr(kind, op, "No", from, t, FALSE, 1)

EmittedBinaries ==
  {E!Instr("Binary", op, flag, t, t, const, 1) :
     op \in {"Add", "Sub", "Mul", "Mul64SE", "Mul64ZE", "Min", "Max", "UMin", "UMax", "And", "Or", "Xor", "AndNot"}
            \union ShiftOps \union DivisionOps,
     flag \in {"No", "suggested"}, t \in IntTypes, const \in BOOLEAN}
EmittedDivisions == {E!Instr("ConstDiv", op, "No", t, t, TRUE, 1) : op \in DivisionOps, t \in IntTypes}
EmittedConstShifts == {Plain("ShiftOfConst", "ShiftRightArith", t, t) : t \in IntTypes}
EmittedUnaries ==
  {Plain("Unary", op, t, t) : op \in {"Not", "Negate", "Abs", "Lzcnt", "Tzcnt", "Popcount"}, t \in IntTypes}
EmittedCasts ==
  {Plain("Cast", c[1], c[2], c[3]) :
     c \in {d \in {"Trunc", "Sext", "Zext"} \X IntTypes \X IntTypes : d[2] # d[3]}}
EmittedCompares ==
  {E!Instr("Compare", op, flag, t, t, const, 1) :
     op \in {"Less", "LessEqual", "Greater", "GreaterEqual", "Equal", "NotEqual"},
     flag \in {"No", "Unsigned"}, t \in IntTypes, const \in BOOLEAN}
EmittedSelects ==
  {E!Instr("Select", "", "No", t, t, const, 1) : t \in IntTypes, const \in BOOLEAN}
    \union {Plain("Increment", "", t, t) : t \in IntTypes}
EmittedOverflows == {Plain("Overflow", op, t, t) : op \in {"Add", "Sub", "Mul"}, t \in IntTypes}
EmittedPermutes == {Plain("Permute", op, t, t) : op \in {"reversed", "turned"}, t \in IntTypes}
EmittedReductions ==
  {E!Instr("Reduce", op, "No", t, t, FALSE, n) :
     op \in {"Add", "Mul", "Min", "Max", "UMin", "UMax", "And", "Or", "Xor"}, t \in {"I32", "I64"}, n \in {2, 4}}
EmittedMasks ==
  {E!Instr("Mask", op, flag, from, TypeOfSize(16 \div n), const, n) :
     op \in {"None", "Not", "Under", "Combine", "And", "Or", "Xor", "AndNot", "XNor"},
     flag \in {"Count", "Store", "Select", "Rows", "And", "Or", "Xor"},
     from \in {"loaded", "compared", "mixed", "splat"}, const \in BOOLEAN, n \in {2, 4, 8, 16}}

EmittedFloats ==
  {E!Instr("FloatBinary", op, flag, "F32", "F32", FALSE, 1) :
     op \in {"Min", "Max", "And", "Or", "Xor", "AndNot"}, flag \in {"No", "left", "other"}}
  \union {Plain("FloatUnary", op, "F32", "F32") :
            op \in {"Negate", "Abs", "Not", "RoundNearest", "RoundDown", "RoundUp", "RoundTruncate"}}
  \union {E!Instr("FloatCompare", op, "No", "F32", "F32", const, 1) :
            op \in {"Less", "LessEqual", "Greater", "GreaterEqual", "Equal", "NotEqual"}, const \in BOOLEAN}
  \union {Plain("FloatSelect", op, "F32", "F32") : op \in {"Less", "GreaterEqual", "Equal", "NotEqual"}}
  \union {Plain("Fpclass", name, "F32", "F32") : name \in DOMAIN E!FloatClasses}
  \union {E!Instr(kind, "", flag, "F32", "F32", FALSE, 1) :
            kind \in {"ToFloat", "FromFloat"}, flag \in {"No", "Unsigned"}}
  \union {E!Instr("FloatReduce", op, "No", "F32", "F32", FALSE, n) : op \in {"Min", "Max"}, n \in {2, 4}}

EmittedSteps ==
  UNION {EmittedBinaries, EmittedDivisions, EmittedConstShifts, EmittedUnaries, EmittedCasts,
         EmittedCompares, EmittedSelects,
         EmittedOverflows, EmittedPermutes, EmittedReductions, EmittedMasks, EmittedFloats}
NothingEmitted == {}

EmittedSamples ==
  [t \in IntTypes |->
     CASE t = "I8"  -> 0 .. 3
       [] t = "I16" -> {0, 1, 3, 4, 5, 7, 8, 9, 15}
       [] t = "I32" -> {0, 1, 3, 7, 8, 9, 127} \union {128, 200, 255}
       [] t = "I64" -> {0, 1, 15, 16, 17, 127, 128} \union {256, 32767, 32768, 65408, 65535}]
EmittedLanes ==
  [t \in {"I32", "I64", "F32"} |->
     CASE t = "I32" -> {1, 100, 255} [] t = "I64" -> {2, 32767, 32768}
       [] t = "F32" -> {56, 180, 120, 125}]   \* 1.0, a negative number, infinity, NaN
\* A sign, four bits of exponent and three of fraction: zero, the least and the greatest
\* subnormal, the least normal, 0.5, 1.0, 1.5, 2.5, 240, infinity, both kinds of NaN.
FloatBoundaries == LET sizes == {0, 1, 7, 8, 48, 56, 60, 66, 119, 120, 121, 125} IN sizes \union {128 + s : s \in sizes}
EmittedRows ==
  [n \in {1, 2, 4, 8, 16} |->
     IF n <= 2 THEN SUBSET (0 .. n - 1)
     ELSE {{}, {0}, 0 .. n - 1, 0 .. n \div 2 - 1, {r \in 0 .. n - 1 : r % 2 = 1}}]
OtherRows == {{}, {1, 3, 4, 6}, 0 .. 7}

(***************************************************************************)
(* Kernels: the roots of the main loop are the copies of each expression in  *)
(* their order, whose leaves cover the rows of a copy from the first on.     *)
(***************************************************************************)
Leaf(kind, arg, offset, n) == [kind |-> kind, arg |-> arg, offset |-> offset, rows |-> n]
Root(kind, arg, offset, n, what, aligned) ==
  [kind |-> kind, arg |-> arg, offset |-> offset, rows |-> n, what |-> what, aligned |-> aligned]
KernelOf(width, mainRoots, restRoots) == [cpp |-> FALSE, width |-> width, main |-> mainRoots, rest |-> restRoots]
InCpp(k) == [k EXCEPT !.cpp = TRUE]

\* The copies of an expression of n rows.
Copies(width, n, Of(_)) == [c \in 1 .. width \div n |-> Of((c - 1) * n)]

Scalar1(arg) == Leaf("scalar", arg, 0, 1)
RestStore(arg, what) == <<Root("scalar", arg, 0, 1, what, FALSE)>>
RestBit(arg, what) == <<Root("bit", arg, 0, 1, what, FALSE)>>
Loads(arg, from, n, each) == [c \in 1 .. n \div each |-> Leaf("load", arg, from + (c - 1) * each, each)]

\* z = f(x, y), z = f(x, z), in two and in four copies.
ElementWise ==
  {KernelOf(8, Copies(8, n, LAMBDA o : Root("store", to, o, n, Loads(0, o, n, n) \o Loads(1, o, n, n), aligned)),
            RestStore(to, <<Scalar1(0), Scalar1(1)>>)) :
     n \in {2, 4}, to \in {0, 2}, aligned \in BOOLEAN}
\* Two results from one argument, the second narrower; and narrower on the table itself.
Narrowing ==
  {KernelOf(8, Copies(8, 4, LAMBDA o : Root("store", to, o, 4, Loads(0, o, 4, 4), TRUE))
                 \o <<Root("store", 2, 0, 8, Loads(0, 0, 8, 4), TRUE)>>,
            RestStore(to, <<Scalar1(0)>>) \o RestStore(2, <<Scalar1(0)>>)) : to \in {0, 1}}
\* Both halves of a load; and of a load of more rows than a pass has.
Widening ==
  {KernelOf(width, Copies(width, n, LAMBDA o : Root("store", 1, o, n, <<Leaf("load", 0, o - (o % (2 * n)), 2 * n)>>, TRUE)),
            RestStore(1, <<Scalar1(0)>>)) : width \in {4, 8}, n \in {2, 4}}
  \union {KernelOf(2, <<Root("store", 1, 0, 2, <<Leaf("load", 0, 0, 4)>>, TRUE)>>, RestStore(1, <<Scalar1(0)>>))}
\* The indices of a gather, also stored.
Gathering ==
  {KernelOf(4, Copies(4, 2, LAMBDA o : Root("store", 1, o, 2, leaves[o \div 2 + 1], FALSE)),
            RestStore(1, <<Scalar1(0)>>)) :
     leaves \in {[i \in 1 .. 2 |-> <<Leaf("indices", 0, 2 * (i - 1), 2)>>],
                 [i \in 1 .. 2 |-> <<Leaf("indices", 0, 2 * (i - 1), 2), Leaf("load", 0, 2 * (i - 1), 2)>>],
                 [i \in 1 .. 2 |-> <<Leaf("load", 0, 2 * (i - 1), 2), Leaf("indices", 0, 2 * (i - 1), 2)>>]}}
\* A store under a mask, of the argument or of the table itself.
Conditional ==
  {KernelOf(8, Copies(8, n, LAMBDA o : Root("cond", to, o, n, Loads(0, o, n, n) \o <<Leaf("mask", 2, o, n)>>, FALSE)),
            <<Root("condscalar", to, 0, 1, <<Scalar1(0), Leaf("bit", 2, 0, 1)>>, FALSE)>>) :
     n \in {2, 4, 8}, to \in {0, 1}}
\* Masks of comparisons, and of another mask, of the table itself too.
Masking ==
  {KernelOf(width, Copies(width, n, LAMBDA o : Root("mask", 1, o, n, Loads(0, o, n, n), FALSE)),
            RestBit(1, <<Scalar1(0)>>)) : width \in {8, 16}, n \in {2, 4, 8}}
  \union {KernelOf(16, Copies(16, n, LAMBDA o : Root("mask", 1, o, n, <<Leaf("mask", from, o, n)>>, FALSE)),
                   RestBit(1, <<Leaf("bit", from, 0, 1)>>)) : n \in {8, 16}, from \in {1, 2}}
\* A short mask that is stored twice, and once more as a long one.
MaskedTwice ==
  LET both(first, second) ==
        KernelOf(8, Copies(8, first, LAMBDA o : Root("mask", 1, o, first, Loads(0, o, first, first), FALSE))
                      \o Copies(8, second, LAMBDA o : Root("mask", 1, o, second, Loads(2, o, second, second), FALSE)),
                 RestBit(1, <<Scalar1(0)>>))
  IN  {both(8, 8), both(4, 4), InCpp(both(4, 4)), InCpp(both(4, 8))}
Folding ==
  {KernelOf(8, Copies(8, 4, LAMBDA o : Root("fold", 0, 0, 1, Loads(0, o, 4, 4), FALSE))
                 \o Copies(8, 4, LAMBDA o : Root("store", 1, o, 4, Loads(0, o, 4, 4), TRUE)),
            <<Root("fold", 0, 0, 1, <<Scalar1(0)>>, FALSE)>> \o RestStore(1, <<Scalar1(0)>>))}
\* Without a main loop.
WithoutVectors ==
  {KernelOf(1, <<>>, r) :
     r \in {RestStore(1, <<Scalar1(0)>>), RestStore(0, <<Scalar1(0)>>), RestBit(1, <<Scalar1(0)>>),
            <<Root("condscalar", 1, 0, 1, <<Scalar1(0), Leaf("bit", 2, 0, 1)>>, FALSE)>>}}
\* The copies in another order, which the emitter is prepared for.
OutOfOrder ==
  {KernelOf(8, [i \in 1 .. 4 |-> Root("store", 1, 2 * order[i], 2, Loads(0, 2 * order[i], 2, 2), TRUE)],
            RestStore(1, <<Scalar1(0)>>)) :
     order \in {<<0, 2, 1, 3>>, <<1, 0, 3, 2>>, <<2, 3, 0, 1>>, <<3, 2, 1, 0>>}}

AllKernels ==
  LET machine == UNION {ElementWise, Narrowing, Widening, Gathering, Conditional, Masking, MaskedTwice, Folding,
                        WithoutVectors}
  IN  machine \union OutOfOrder \union {InCpp(k) : k \in Masking}
NoKernels == {}
=============================================================================

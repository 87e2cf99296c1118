-------------------------- MODULE MCFunctionBuilder --------------------------
(* Programs for FunctionBuilder on a machine with two-bit bytes: an i8 has 2 *)
(* bits, an i16 has 4, an i32 has 8 and an i64 has 16. Every program tries   *)
(* all its calls with all transformations and with none.                     *)
EXTENDS FunctionBuilder

Both == {AllTransformations, {}}
Program(samples, calls) == [transformations |-> Both, samples |-> samples, calls |-> calls]

(***************************************************************************)
(* Calls.                                                                   *)
(***************************************************************************)
A(t) == {Call("Arg", "", "No", t, <<>>, <<>>)}
ArgOf(t, kind) == {Call("Arg", kind, "No", t, <<>>, <<>>)}
SafetyArg == {Call("ArgSafetyCheck", "", "No", "I8", <<>>, <<>>)}
L(arg) == {Call("Load", "", "Unaligned", "I8", <<>>, <<arg>>)}
Splat(arg) == {Call("LoadSplat", "", "No", "I8", <<>>, <<arg>>)}
K(ns, t) == {Call("Con", "", "No", t, <<>>, <<n>>) : n \in ns}
Ar(ops, flags, pairs) == {Call("Arith", o, f, "I8", p, <<>>) : o \in ops, f \in flags, p \in pairs}
Un(ops, flags, args) == {Call("Unary", o, f, "I8", <<a>>, <<>>) : o \in ops, f \in flags, a \in args}
Cmp(ops, flags, pairs) == {Call("Compare", o, f, "I1", p, <<>>) : o \in ops, f \in flags, p \in pairs}
Log(ops, pairs) == {Call("Predicate", o, "No", "I1", p, <<>>) : o \in ops, p \in pairs}
No(args) == {Call("Not", "", "No", "I1", <<a>>, <<>>) : a \in args}
Nan(a) == {Call("Fpclass", "", "No", "I1", <<a>>, <<>>)}
Sel(triples) == {Call("Select", "", "No", "I1", x, <<>>) : x \in triples}
Casts(kinds, ts, flags, args) ==
  {Call("IntCast", k, f, t, <<a>>, <<>>) : k \in kinds, t \in ts, f \in flags, a \in args}
Numeric(ts, flags, args) == {Call("Cast", "", f, t, <<a>>, <<>>) : t \in ts, f \in flags, a \in args}
Help(ops, args) == {Call("Helper", o, "No", "I8", x, <<>>) : o \in ops, x \in args}
Check(args) == {Call("CheckedOp", "", "No", "I8", x, <<>>) : x \in args}
Out(fn, op, args, ns) == {Call(fn, op, "No", "I8", args, ns)}
Build1 == Out("Build", "", <<>>, <<>>)

(***************************************************************************)
(* Values.                                                                  *)
(***************************************************************************)
Every(t) == 0 .. Modulus(t) - 1
Edges ==   \* of an i64: around zero, the i32 range and both ends
  {0, 1, 2, 3, 5, 127, 128, 129, 255, 256, 32640, 32767, 32768, 65280, 65407, 65408, 65534, 65535}
SignedOf(t) == IntMin(t) .. -IntMin(t) - 1
LongEdges == {Signed(v, "I64") : v \in Edges}
Floats == {-2, 0, 1, 3, NaN}
Relations == {"Less", "LessEqual", "Greater", "GreaterEqual", "Equal", "NotEqual"}
Commuting == {"Add", "Mul", "Min", "Max", "UMin", "UMax", "And", "Or", "Xor"}
IntOps == Commuting \union {"Sub", "AndNot"} \union DivisionOps \union ShiftOps
FloatOps == {"Add", "Sub", "Mul", "Min", "Max"}
SafeFlags == {"No", "SafetyCheck"}

(***************************************************************************)
(* Programs.                                                                *)
(***************************************************************************)
\* Products with a constant on either side.
TimesConstant(t, values, consts) ==
  Program(<<values, {0}>>,
          <<A(t), SafetyArg, L(1), K(consts, t), Ar({"Mul"}, SafeFlags, {<<3, 4>>, <<4, 3>>})>>)
Factors == -20 .. 20 \union {-128, -127, -96, -64, -63, -31, 31, 33, 62, 63, 64, 65, 66, 96, 112, 126, 127}

\* Operations with a constant, and of a value with itself; the divisions are safe.
WithConstant(t) ==
  Program(<<Every(t), {0}>>,
          <<A(t), SafetyArg, L(1), K(Every(t), t),
            Ar(IntOps \ DivisionOps, {"No"}, {<<3, 4>>, <<4, 3>>, <<3, 3>>})
            \union Ar(DivisionOps, {"SafeDivision"}, {<<3, 4>>, <<4, 3>>, <<3, 3>>})
            \union Ar(ShiftOps, {"ShiftWraparound"}, {<<3, 4>>})
            \union Ar({"Add", "Sub", "Mul"} \union ShiftOps, {"SafetyCheck"}, {<<3, 4>>, <<4, 3>>, <<3, 3>>})
            \union Cmp(Relations, {"No", "Unsigned"}, {<<3, 4>>, <<4, 3>>, <<3, 3>>})>>)
WideDivision ==
  Program(<<{0, 1, 5, 127, 128, 200, 255}, {0}>>,
          <<A("I32"), SafetyArg, L(1), K({-128, -7, -1, 0, 1, 2, 7, 16}, "I32"),
            Ar(DivisionOps, {"SafeDivision"}, {<<3, 4>>}) \union Ar(DivisionOps, {"SafetyCheck"}, {<<3, 4>>, <<4, 3>>}),
            Out("Store", "", <<5>>, <<1>>)>>)
FloatWithConstant ==
  Program(<<Floats>>,
          <<A("F64"), L(1), K({0, 1, 2}, "F64"),
            Ar(FloatOps, {"No"}, {<<2, 3>>, <<3, 2>>, <<2, 2>>}) \union Cmp(Relations, {"No"}, {<<2, 3>>, <<3, 2>>, <<2, 2>>})>>)

\* A second operation on the same operands, the other way round, and its check.
Again(t) ==
  Program(<<Every(t), Every(t), {0}>>,
          <<A(t), A(t), SafetyArg, L(1), L(2), Ar(IntOps \ DivisionOps, {"No"}, {<<4, 5>>}),
            Ar(IntOps \ DivisionOps, {"No"}, {<<5, 4>>}) \union Ar({"Sub", "ShiftRightLogical"}, {"SafetyCheck"}, {<<4, 5>>}),
            Out("Store", "", <<7>>, <<1>>)>>)

\* A checked operation under a mask.
Masked ==
  Program(<<Every("I16"), {0, 1, 9, 15}, {0}>>,
          <<A("I16"), A("I16"), SafetyArg, L(1), L(2), K({0, 1}, "I1") \union Cmp({"Less"}, {"No"}, {<<4, 5>>}),
            Ar({"Add", "Sub", "Mul", "ShiftLeftLogical"}, {"No"}, {<<4, 5>>})
            \union Un({"Negate", "Abs"}, SafeFlags, {4}) \union Casts({"Trunc"}, {"I8"}, SafeFlags, {4}),
            Check({<<7>>, <<7, 6>>})>>)

\* Three integer casts in a row.
CastChain(t, values) ==
  LET kinds == {"Trunc", "Sext", "Zext"}
  IN  Program(<<values, {0}>>,
              <<A(t), SafetyArg, L(1), Casts(kinds, IntTypes, {"No"}, {3}), Casts(kinds, IntTypes, {"No"}, {4}),
                Casts(kinds, IntTypes, {"No"}, {5}) \union Casts({"Trunc"}, IntTypes, {"SafetyCheck"}, {5})>>)

\* Casts that involve floats, after an integer cast.
MixedCast(t, values) ==
  Program(<<values>>,
          <<A(t), L(1), Numeric(IntTypes \union FloatTypes, {"No", "Unsigned"}, {2}),
            Numeric(FloatTypes, {"No"}, {3}), Out("Store", "", <<4>>, <<1>>)>>)

\* 64-bit products of 32-bit values.
LongProduct(kind, consts, flags) ==
  LET values == {0, 1, 7, 127, 128, 200, 255}
  IN  Program(<<values, values, {0}>>,
              <<A("I32"), A("I32"), SafetyArg, L(1), L(2), Casts({kind}, {"I64"}, {"No"}, {4}),
                Casts({kind}, {"I64"}, {"No"}, {5}) \union K(consts, "I64"),
                Ar({"Mul"}, flags, {<<6, 7>>, <<7, 6>>}), Ar({"Mul"}, {"No"}, {<<7, 6>>})>>)

\* Conditions over two comparisons.
Conditions ==
  Program(<<Every("I8"), Every("I8")>>,
          <<A("I8"), A("I8"), L(1), L(2), Cmp({"Less", "Equal"}, {"No"}, {<<3, 4>>}),
            No({5}) \union Cmp({"LessEqual"}, {"No"}, {<<4, 3>>}) \union K({0, 1}, "I1"),
            Log(LogicOps, {<<5, 6>>, <<6, 5>>}), No({5, 7}), Log(LogicOps, {<<7, 8>>, <<8, 7>>}),
            No({9}) \union Sel({<<9, 3, 4>>, <<9, 5, 7>>, <<8, 3, 4>>})>>)
FloatConditions ==
  Program(<<Floats, {0, NaN}>>,
          <<A("F32"), A("F32"), L(1), L(2), Cmp(Relations, {"No"}, {<<3, 4>>}), Nan(3) \union K({0, 1}, "I1"),
            Log(LogicOps, {<<5, 6>>, <<6, 5>>}), No({5, 7}), Sel({<<8, 3, 4>>, <<6, 3, 3>>})>>)

\* Two comparisons of a value with a constant, on either side and signed or not.
Ranges(t, consts) ==
  LET bounds(c) == Cmp({"Less", "LessEqual", "Greater", "GreaterEqual"}, {"No", "Unsigned"}, {<<2, c>>, <<c, 2>>})
  IN  Program(<<Every(t)>>,
              <<A(t), L(1), K(consts, t), K(consts, t), bounds(3), bounds(4), Log({"And"}, {<<5, 6>>, <<6, 5>>})>>)

Helpers(t, values) ==
  Program(<<values, {0, 1, 2}>>,
          <<A(t), A(t), L(1), L(2),
            Help({"log2_no_zero", "log2", "has_single_bit", "bit_floor", "bit_ceil", "byteswap", "sign"}, {<<3>>})
            \union Help({"copysign"}, {<<3, 4>>, <<4, 3>>}) \union Un({"Not", "Negate", "Lzcnt", "Tzcnt", "Popcount"}, {"No"}, {3}),
            Out("Store", "", <<5>>, <<1>>)>>)

\* Outputs in any order: arrays 1 (in), 2 (out), 4 (bits), an index 3, a table 5,
\* aggregates 6 (i64) and 7 (i32).
Effects(index) ==
  LET outputs ==
        Out("Store", "", <<8>>, <<2>>) \union Out("Store", "", <<8, 11>>, <<2>>) \union Out("Store", "", <<8>>, <<1>>)
        \union Out("Store", "", <<8>>, <<3>>)
        \union Out("Store", "", <<8>>, <<6>>) \union Out("Store", "", <<10, 11>>, <<4>>) \union Out("Store", "", <<11>>, <<4>>)
        \union Out("Pack", "", <<8, 10>>, <<2, 6>>) \union Out("Pack", "", <<8, 10>>, <<2, 7>>)
        \union Out("Scatter", "", <<8, 9>>, <<5>>) \union Out("Scatter", "", <<8, 9, 10>>, <<2>>)
        \union Out("GroupedArithAgg", "Add", <<8, 9>>, <<5>>) \union Out("GroupedArithAgg", "Max", <<8, 9, 10>>, <<5>>)
        \union Out("ArithAgg", "Add", <<8>>, <<7>>) \union Out("ArithAgg", "Mul", <<8, 11>>, <<7>>)
        \union Out("ArithAgg", "Sub", <<8>>, <<7>>)
        \union Out("PredicateAgg", "And", <<10>>, <<4>>) \union Out("PredicateAgg", "XNor", <<10>>, <<4>>)
        \union Out("CountIf", "", <<10>>, <<6>>) \union Out("CountIf", "", <<10>>, <<7>>)
        \union Out("Gather", "", <<9>>, <<2>>) \union Out("ScalarOnly", "", <<>>, <<>>)
  IN  Program(<<{0, 3, 255}, {7}, {1, 2}, {0, 1}, {1, 254}, {5}, {9}>>,
              <<ArgOf("I32", "SrcArr"), A("I32"), ArgOf(index, "SrcArr"), ArgOf("I1", "SrcArr"),
                ArgOf("I32", "SrcArr"), ArgOf("I64", "SrcArr"), ArgOf("I32", "SrcArr"),
                L(1), L(3), L(4), K({1}, "I1"), outputs, outputs, outputs \union Build1, Build1>>)

\* Arguments and loads: the limit, the safety argument, a broadcast value.
Declarations ==
  LET declare == A("I8") \union SafetyArg
  IN  Program([k \in 1 .. 7 |-> {0, 1}],
              <<A("I8"), declare, declare, declare, declare, declare, declare, declare,
                L(1) \union Splat(1), Out("Store", "", <<9>>, <<2>>), Build1>>)

AllPrograms ==
  <<TimesConstant("I8", Every("I8"), -2 .. 3), TimesConstant("I16", Every("I16"), -8 .. 15),
    TimesConstant("I32", {0, 1, 2, 3, 7, 100, 127, 128, 129, 200, 254, 255}, Factors),
    TimesConstant("I64", Edges, Factors \union LongEdges \union {1000, 4097, 12288}),
    WithConstant("I8"), WithConstant("I16"), WideDivision, FloatWithConstant, Again("I8"), Masked,
    CastChain("I8", Every("I8")), CastChain("I16", Every("I16")), CastChain("I32", {0, 1, 7, 8, 127, 128, 255}),
    CastChain("I64", Edges),
    MixedCast("I8", Every("I8")), MixedCast("I16", {0, 3, 8, 15}), MixedCast("I32", {0, 5, 127, 128, 255}),
    MixedCast("I64", Edges), MixedCast("F32", {-2, 0, 1}), MixedCast("F64", {-2, 0, 1}),
    LongProduct("Sext", {-128, -1, 0, 3, 127}, SafeFlags), LongProduct("Zext", {-128, -1, 0, 3, 127}, {"No"}),
    Conditions, FloatConditions, Ranges("I8", SignedOf("I8")), Ranges("I16", {-8, -3, -1, 0, 1, 7}),
    Helpers("I8", Every("I8")), Helpers("I16", Every("I16")), Helpers("I32", Every("I32")), Helpers("I64", Edges),
    Effects("I32"), Effects("I8"), Declarations>>

MCPrograms == AllPrograms
BetweenPrograms == <<Ranges("I8", SignedOf("I8"))>>
=============================================================================

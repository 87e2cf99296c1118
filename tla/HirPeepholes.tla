---------------------------- MODULE HirPeepholes ----------------------------
(* The rewrites FunctionBuilderImpl applies while steps are created.         *)
(*                                                                           *)
(* A rewrite looks at the step table and either does not apply (NoRewrite)   *)
(* or names the step to use instead, with the steps it has to add first. In  *)
(* those a positive operand is a step of the table and -k is the k-th added  *)
(* step. tr is the set of enabled CodeTransformations.                       *)
EXTENDS HirSteps

NoRewrite == [new |-> <<>>, at |-> 0]
Use(id) == [new |-> <<>>, at |-> id]
Make(new) == [new |-> new, at |-> -Len(new)]
Applies(r) == r # NoRewrite

Moved(ref, by) == IF ref < 0 THEN ref - by ELSE ref
\* The added steps of g, put after those of f.
After(f, g) ==
  f.new \o [k \in DOMAIN g.new |->
              [g.new[k] EXCEPT !.args = [j \in DOMAIN @ |-> Moved(@[j], Len(f.new))]]]

\* The first of the rewrites that applies.
FirstOf(rs) ==
  IF \E k \in DOMAIN rs : Applies(rs[k])
  THEN rs[CHOOSE k \in DOMAIN rs : Applies(rs[k]) /\ \A j \in 1 .. k - 1 : ~Applies(rs[j])]
  ELSE NoRewrite
When(enabled, r) == IF enabled THEN r ELSE NoRewrite

(***************************************************************************)
(* Constants.                                                               *)
(***************************************************************************)
ConstClass(s) ==
  IF s.kind # "Const" THEN "Other"
  ELSE IF s.dtype = "I1" THEN (IF s.val[1] = 0 THEN "BoolFalse" ELSE "BoolTrue")
  ELSE IF s.val[1] = 0 THEN "Zero"
  ELSE IF s.val[1] = 1 THEN "One"
  ELSE IF s.dtype \in IntTypes /\ s.val[1] = AllOnes(s.dtype) THEN "AllOnes"
  ELSE "Other"

Const(steps, id) == steps[id].kind = "Const"
SignedConst(steps, id) == Signed(steps[id].val[1], steps[id].dtype)

(***************************************************************************)
(* Identities of binary operations.                                         *)
(***************************************************************************)
ArithIdentity(steps, op, l, r) ==
  LET t == steps[l].dtype
      lc == ConstClass(steps[l])
      rc == ConstClass(steps[r])
      \* An operand the constant on the other side leaves unchanged.
      neutral(class) == FirstOf(<<When(lc = class, Use(r)), When(rc = class, Use(l))>>)
      same(res) == When(l = r, res)
  IN  CASE op = "Add" -> neutral("Zero")
        [] op = "Sub" -> When(rc = "Zero", Use(l))
        [] op = "Mul" -> FirstOf(<<neutral("One"),
                                   When(t \in IntTypes /\ lc = "Zero", Use(l)),
                                   When(t \in IntTypes /\ rc = "Zero", Use(r))>>)
        [] op \in {"Div", "UDiv"} -> When(rc = "One", Use(l))
        [] op \in {"Min", "Max", "UMin", "UMax"} -> same(Use(l))
        [] op = "And" -> FirstOf(<<same(Use(l)), neutral("AllOnes")>>)
        [] op = "Or"  -> FirstOf(<<same(Use(l)), neutral("Zero")>>)
        [] op = "Xor" -> FirstOf(<<neutral("Zero"), same(Make(<<ConstStep(0, t)>>))>>)
        [] op \in ShiftOps -> When(rc = "Zero", Use(l))
        [] OTHER -> NoRewrite

CompareIdentity(steps, op, unsigned, l, r) ==
  LET lc == ConstClass(steps[l])
      rc == ConstClass(steps[r])
      always(b) == Make(<<ConstStep(Bool(b), "I1")>>)
  IN  IF steps[l].dtype \notin IntTypes THEN NoRewrite
      ELSE IF l = r THEN always(op \in {"Equal", "LessEqual", "GreaterEqual"})
      ELSE IF unsigned # "Unsigned" THEN NoRewrite
      ELSE FirstOf(<<When(op = "GreaterEqual" /\ rc = "Zero", always(TRUE)),
                     When(op = "Less" /\ rc = "Zero", always(FALSE)),
                     When(op = "LessEqual" /\ lc = "Zero", always(TRUE)),
                     When(op = "Greater" /\ lc = "Zero", always(FALSE))>>)

LogicOps == {"And", "Or", "Xor", "AndNot", "XNor"}
LogicIdentity(steps, op, l, r) ==
  LET lc == ConstClass(steps[l])
      rc == ConstClass(steps[r])
      neutral(class) == FirstOf(<<When(lc = class, Use(r)), When(rc = class, Use(l))>>)
      decides(class) == FirstOf(<<When(lc = class, Use(l)), When(rc = class, Use(r))>>)
      same(res) == When(l = r, res)
      always(b) == Make(<<ConstStep(Bool(b), "I1")>>)
  IN  CASE op = "And" -> FirstOf(<<same(Use(l)), neutral("BoolTrue"), decides("BoolFalse")>>)
        [] op = "Or"  -> FirstOf(<<same(Use(l)), neutral("BoolFalse"), decides("BoolTrue")>>)
        [] op = "Xor" -> FirstOf(<<neutral("BoolFalse"), same(always(FALSE))>>)
        [] op = "AndNot" -> FirstOf(<<same(always(FALSE)), When("BoolFalse" \in {lc, rc}, Use(r))>>)
        [] op = "XNor" -> same(always(TRUE))

(***************************************************************************)
(* A product by a constant as shifts and additions: multiply_pos for the    *)
(* absolute value n of the constant, then its sign.                         *)
(***************************************************************************)
\* The sum of the argument shifted by each of ks (at most three), and the
\* argument once more when odd.
ShiftSum(t, arg, ks, odd) ==
  LET shifts == [i \in 1 .. 2 * Len(ks) |->
                   IF i % 2 = 1 THEN ConstStep(ks[(i + 1) \div 2], t)
                   ELSE ArithStep("ShiftLeftLogical", "No", t, arg, 1 - i)]
      add(new, x, y) == Append(new, ArithStep("Add", "No", t, x, y))
      sum == CASE Len(ks) = 1 -> shifts
               [] Len(ks) = 2 -> add(shifts, -2, -4)
               [] Len(ks) = 3 -> add(add(shifts, -2, -4), -7, -6)
  IN  IF odd THEN add(sum, -Len(sum), arg) ELSE sum

\* Shifted argument minus the argument taken `times` times; negated by swapping.
ShiftLess(t, arg, k, times, neg) ==
  LET shift == <<ConstStep(k, t), ArithStep("ShiftLeftLogical", "No", t, arg, -1)>>
      new == IF times = 1 THEN shift ELSE Append(shift, ArithStep("Add", "No", t, arg, arg))
      part == IF times = 1 THEN arg ELSE -3
  IN  IF k >= Width(t) THEN <<>>
      ELSE Append(new, IF neg THEN ArithStep("Sub", "No", t, part, -2)
                              ELSE ArithStep("Sub", "No", t, -2, part))

\* Bit positions of n, highest first, but at most three of them.
HighBits(n) ==
  LET h1 == Log2(n)
      n2 == n - 2 ^ h1
      n3 == IF n2 = 0 THEN 0 ELSE n2 - 2 ^ Log2(n2)
  IN  IF n2 = 0 THEN <<h1>>
      ELSE IF n3 = 0 THEN <<h1, Log2(n2)>>
      ELSE <<h1, Log2(n2), Log2(n3)>>
BitCount(n) == Cardinality({k \in Positions : Bit(n, k) = 1})

IntMulPeephole(steps, l, r) ==
  LET arg == IF Const(steps, l) THEN r ELSE l
      t == steps[l].dtype
      c == SignedConst(steps, IF Const(steps, l) THEN l ELSE r)
      neg == c < 0
      n == IF neg THEN -c ELSE c
      long == t = "I64"
      \* The steps of a sum are negated by one more step, a difference is swapped.
      sum(new) == Make(IF neg THEN Append(new, UnaryStep("Negate", t, -Len(new))) ELSE new)
      less(new) == IF new = <<>> THEN NoRewrite ELSE Make(new)
  IN  IF (~Const(steps, l) /\ ~Const(steps, r)) \/ c \in {0, IntMin("I64")} THEN NoRewrite
      ELSE IF n = 1 THEN IF neg THEN Make(<<UnaryStep("Negate", t, arg)>>) ELSE Use(arg)
      ELSE IF n = 2 THEN sum(<<ArithStep("Add", "No", t, arg, arg)>>)
      ELSE IF HasSingleBit(n) THEN sum(ShiftSum(t, arg, <<Log2(n)>>, FALSE))
      ELSE IF HasSingleBit(n - 1) THEN sum(ShiftSum(t, arg, <<Log2(n - 1)>>, TRUE))
      ELSE IF HasSingleBit(n + 1) THEN less(ShiftLess(t, arg, Log2(n + 1), 1, neg))
      ELSE IF ~neg /\ BitCount(n) = 2 THEN sum(ShiftSum(t, arg, HighBits(n), FALSE))
      ELSE IF HasSingleBit(n + 2) THEN less(ShiftLess(t, arg, Log2(n + 2), 2, neg))
      ELSE IF long /\ BitCount(n) = 3 /\ n % 2 = 1 THEN sum(ShiftSum(t, arg, HighBits(n - 1), TRUE))
      ELSE IF long /\ BitCount(n) = 3 THEN sum(ShiftSum(t, arg, HighBits(n), FALSE))
      ELSE NoRewrite

\* The 32-bit multiplication that can replace a 64-bit one, or "None".
Mul32_64Peephole(steps, l, r) ==
  LET child(id) ==
        IF steps[id].kind = "IntCast" /\ steps[id].op = "Sext" THEN "Signed"
        ELSE IF steps[id].kind = "IntCast" /\ steps[id].op = "Zext" THEN "Unsigned"
        ELSE IF Const(steps, id) /\ SignedConst(steps, id) \in IntMin("I32") .. -IntMin("I32") - 1 THEN "Const"
        ELSE "None"
      kinds == {child(l), child(r)}
  IN  IF steps[l].dtype # "I64" \/ "None" \in kinds THEN "None"
      ELSE IF kinds \subseteq {"Const", "Signed"} THEN "Mul64SE"
      ELSE IF kinds \subseteq {"Const", "Unsigned"} THEN "Mul64ZE"
      ELSE "None"

(***************************************************************************)
(* Casts. CastOf is int_cast: a cast of a cast is rebuilt from the inner    *)
(* argument, and the result is looked at again.                             *)
(***************************************************************************)
CastKinds == {"Trunc", "Sext", "Zext"}
CastOf(steps, tr, arg, dtype, kind) ==
  LET cast[p \in (DOMAIN steps) \X CastKinds] ==
        LET a == p[1]
            k == p[2]
            inner == steps[a]
            src == steps[inner.args[1]].dtype
            plain == Make(<<IntCastStep(k, dtype, a)>>)
        IN  IF "CastPeephole" \notin tr \/ inner.kind # "IntCast" THEN plain
            ELSE IF k = "Trunc"
            THEN IF inner.op = "Trunc" \/ Size(dtype) < Size(src) THEN cast[<<inner.args[1], "Trunc">>]
                 ELSE IF Size(dtype) = Size(src) THEN Use(inner.args[1])
                 ELSE cast[<<inner.args[1], inner.op>>]
            ELSE IF inner.op = k THEN cast[<<inner.args[1], k>>]
            ELSE IF k = "Sext" /\ inner.op = "Zext" THEN cast[<<inner.args[1], "Zext">>]
            ELSE plain
  IN  cast[<<arg, kind>>]

\* How a mixed cast is split: classify_float_cast_rewrite.
FloatCastRewrite(from, to) ==
  LET group(t) == CASE t \in {"I8", "I16"} -> "Small" [] t \in {"I32", "I64"} -> "Full" [] OTHER -> "Float"
      grows == Size(from) < Size(to)
      shrinks == Size(from) > Size(to)
      pair == <<group(from), group(to)>>
  IN  CASE pair = <<"Small", "Float">> -> "IntBridgeToTargetFloat"
        [] pair = <<"Full", "Float">>  -> IF grows THEN "IntBridgeToTargetFloat"
                                          ELSE IF shrinks THEN "FloatBridgeFromSourceInt" ELSE "Original"
        [] pair = <<"Float", "Small">> -> "FloatBridgeToSmallInt"
        [] pair = <<"Float", "Full">>  -> IF grows \/ shrinks THEN "FloatBridgeToTargetInt" ELSE "Original"
        [] pair = <<"Float", "Float">> -> IF grows \/ shrinks THEN "Original" ELSE "FloatIdentity"
        [] OTHER -> "Original"

IntOfFloatNarrow(t) == "I32"   \* mutant: every float meets an i32
IntOfFloat(t) == IF Size(t) = 4 THEN "I32" ELSE "I64"
FloatOfInt(t) == IF Size(t) <= 4 THEN "F32" ELSE "F64"

\* int_cast_for_float_decomposition
BridgeKind(from, to, unsigned) ==
  IF Size(from) < Size(to) THEN (IF unsigned = "Unsigned" THEN "Zext" ELSE "Sext") ELSE "Trunc"

\* The conversions float_cast performs, in order, as pairs of a type and a kind.
FloatCastChain(from, to, unsigned) ==
  LET float(t, u) == <<t, u>>
      bridge(f, t) == IF f = t THEN <<>> ELSE <<<<t, BridgeKind(f, t, unsigned)>>>>
  IN  CASE FloatCastRewrite(from, to) = "Original" -> <<float(to, unsigned)>>
        [] FloatCastRewrite(from, to) = "FloatIdentity" -> <<>>
        [] FloatCastRewrite(from, to) = "IntBridgeToTargetFloat" ->
             bridge(from, IntOfFloat(to)) \o <<float(to, unsigned)>>
        [] FloatCastRewrite(from, to) = "FloatBridgeFromSourceInt" ->
             <<float(FloatOfInt(from), unsigned), float(to, "No")>>
        [] FloatCastRewrite(from, to) = "FloatBridgeToTargetInt" ->
             <<float(FloatOfInt(to), "No"), float(to, unsigned)>>
        [] FloatCastRewrite(from, to) = "FloatBridgeToSmallInt" ->
             (IF from = "F32" THEN <<>> ELSE <<float("F32", "No")>>)
             \o <<float("I32", unsigned)>> \o bridge("I32", to)

FloatCastOf(steps, tr, arg, to, unsigned) ==
  LET from == steps[arg].dtype
      chain == FloatCastChain(from, to, unsigned)
      step(k) == LET a == IF k = 1 THEN arg ELSE 1 - k
                 IN  IF chain[k][2] \in {"Trunc", "Sext", "Zext"}
                     THEN IntCastStep(chain[k][2], chain[k][1], a)
                     ELSE FloatCastStep(chain[k][2], chain[k][1], a)
      \* An integer conversion at the head meets a step of the caller.
      head == CastOf(steps, tr, arg, chain[1][1], chain[1][2])
  IN  IF "CastDecomposition" \notin tr THEN Make(<<FloatCastStep(unsigned, to, arg)>>)
      ELSE IF chain = <<>> THEN Use(arg)
      ELSE IF chain[1][2] \in {"Sext", "Zext"}
      THEN Make(Append(head.new, FloatCastStep(chain[2][2], chain[2][1], head.at)))
      ELSE Make([k \in DOMAIN chain |-> step(k)])

(***************************************************************************)
(* Comparisons and conditions.                                              *)
(***************************************************************************)
Inverted(op) ==
  CASE op = "Less" -> "GreaterEqual" [] op = "GreaterEqual" -> "Less"
    [] op = "Greater" -> "LessEqual" [] op = "LessEqual" -> "Greater"
    [] op = "Equal" -> "NotEqual"    [] op = "NotEqual" -> "Equal"

\* An equality keeps the operand that is cheapest on the right on the right.
ComparePeephole(steps, tr, op, unsigned, l, r) ==
  LET rank(id) == CASE Const(steps, id) -> 2
                    [] steps[id].kind \in {"Load", "LoadSplat"} -> 1
                    [] OTHER -> 0
  IN  When("LogicalPeephole" \in tr /\ op \in {"Equal", "NotEqual"} /\ rank(l) > rank(r),
           Make(<<CompareStep(op, unsigned, r, l)>>))

\* The negation of a condition, when it costs nothing: try_invert_cond.
InvertedCondition(steps, tr, cond) ==
  LET invert[c \in DOMAIN steps] ==
        LET s == steps[c]
            l == s.args[1]
            r == s.args[2]
            both(op) == LET f == invert[l]
                            g == invert[r]
                        IN  IF ~Applies(f) \/ ~Applies(g) THEN NoRewrite
                            ELSE Make(Append(After(f, g), LogicStep(op, f.at, Moved(g.at, Len(f.new)))))
        IN  CASE s.kind = "PredicateNot" -> Use(s.args[1])
              [] s.kind = "Compare" ->
                   IF steps[l].dtype \in FloatTypes /\ s.op \notin {"Equal", "NotEqual"} THEN NoRewrite
                   ELSE FirstOf(<<ComparePeephole(steps, tr, Inverted(s.op), s.flag, l, r),
                                  Make(<<CompareStep(Inverted(s.op), s.flag, l, r)>>)>>)
              [] s.kind = "PredicateBinary" ->
                  (CASE s.op = "And" -> both("Or")
                     [] s.op = "Or"  -> both("And")
                     [] s.op = "Xor" -> Make(<<LogicStep("XNor", l, r)>>)
                     [] s.op = "XNor" -> Make(<<LogicStep("Xor", l, r)>>)
                     [] s.op = "AndNot" ->
                          LET g == invert[r]
                          IN  IF ~Applies(g) THEN NoRewrite
                              ELSE Make(Append(g.new, LogicStep("Or", g.at, l))))
              [] OTHER -> NoRewrite
  IN  invert[cond]

(***************************************************************************)
(* Two comparisons of one value joined by "and": one unsigned comparison.   *)
(***************************************************************************)
Above(steps, c) ==   \* is_greater_or_equal_something: what is compared, bound, operation
  LET s == steps[c] IN
  IF s.kind # "Compare" \/ steps[s.args[1]].dtype \notin IntTypes THEN <<0, 0, "">>
  ELSE IF s.op \in {"GreaterEqual", "Greater"} THEN <<s.args[1], s.args[2], s.op>>
  ELSE IF s.op \in {"LessEqual", "Less"}
  THEN <<s.args[2], s.args[1], IF s.op = "LessEqual" THEN "Greater" ELSE "GreaterEqual">>
  ELSE <<0, 0, "">>

Below(steps, c) ==   \* is_less_or_less_equal_something
  LET s == steps[c] IN
  IF s.kind # "Compare" \/ steps[s.args[1]].dtype \notin IntTypes THEN <<0, 0, "">>
  ELSE IF s.op \in {"LessEqual", "Less"} THEN <<s.args[1], s.args[2], s.op>>
  ELSE IF s.op \in {"GreaterEqual", "Greater"}
  THEN <<s.args[2], s.args[1], IF s.op = "GreaterEqual" THEN "LessEqual" ELSE "Less">>
  ELSE <<0, 0, "">>

NonNegative(steps, c) ==   \* is_greater_or_equal_zero: what is compared, or 0
  LET s == steps[c]
      zero(id) == Const(steps, id) /\ steps[id].val[1] = 0
  IN  IF s.kind # "Compare" \/ steps[s.args[1]].dtype \notin IntTypes THEN 0
      ELSE IF s.op = "LessEqual" /\ zero(s.args[1]) THEN s.args[2]
      ELSE IF s.op = "GreaterEqual" /\ zero(s.args[2]) THEN s.args[1] ELSE 0

BetweenZero(steps, l, r) ==
  LET x == NonNegative(steps, l)
      b == Below(steps, r)
  IN  When(x # 0 /\ b[1] = x /\ Const(steps, b[2]) /\ SignedConst(steps, b[2]) > 0,
           Make(<<CompareStep(b[3], "Unsigned", x, b[2])>>))

AnyRange(low, high) == TRUE   \* mutant: two bounds nothing satisfies
KnownRange(low, high) == high - low > 0

Between(steps, l, r) ==
  LET a == Above(steps, l)
      b == Below(steps, r)
      t == steps[a[1]].dtype
      low == SignedConst(steps, a[2]) + (IF a[3] = "Greater" THEN 1 ELSE 0)
      high == SignedConst(steps, b[2]) - (IF b[3] = "Less" THEN 1 ELSE 0)
  IN  When(a[1] # 0 /\ a[1] = b[1] /\ Const(steps, a[2]) /\ Const(steps, b[2]) /\ KnownRange(low, high),
           Make(<<ConstStep(Wrap(low, t), t), ConstStep(Wrap(high - low, t), t),
                  ArithStep("Sub", "No", t, a[1], -1), CompareStep("LessEqual", "Unsigned", -3, -2)>>))

Negation(steps, id) == steps[id].kind = "PredicateNot"
Negated(steps, id) == steps[id].args[1]

AndPeephole(steps, tr, l, r) ==
  LET andnot == IF Negation(steps, l) /\ Negation(steps, r)
                THEN Make(<<LogicStep("Or", Negated(steps, l), Negated(steps, r)), NotStep(-1)>>)
                ELSE IF Negation(steps, l) THEN Make(<<LogicStep("AndNot", Negated(steps, l), r)>>)
                ELSE When(Negation(steps, r), Make(<<LogicStep("AndNot", Negated(steps, r), l)>>))
  IN  FirstOf(<<When("BetweenPeephole" \in tr,
                     FirstOf(<<BetweenZero(steps, l, r), BetweenZero(steps, r, l),
                               Between(steps, l, r), Between(steps, r, l)>>)),
                When("LogicalPeephole" \in tr, andnot)>>)

OrPeephole(steps, l, r) ==
  IF Negation(steps, l) /\ Negation(steps, r)
  THEN Make(<<LogicStep("And", Negated(steps, l), Negated(steps, r)), NotStep(-1)>>)
  ELSE IF Negation(steps, l) THEN Make(<<LogicStep("AndNot", r, Negated(steps, l)), NotStep(-1)>>)
  ELSE When(Negation(steps, r), Make(<<LogicStep("AndNot", l, Negated(steps, r)), NotStep(-1)>>))

AndNotPeephole(steps, tr, l, r) ==
  When("LogicalPeephole" \in tr /\ Negation(steps, l),
       IF Negation(steps, r) THEN Make(<<LogicStep("AndNot", Negated(steps, r), Negated(steps, l))>>)
                             ELSE Make(<<LogicStep("And", Negated(steps, l), r)>>))

SelectPeephole(steps, tr, c, x, y) ==
  LET class == ConstClass(steps[c])
      logical == "LogicalPeephole" \in tr
  IN  FirstOf(<<When("ConstantConditionPeephole" \in tr /\ class = "BoolTrue", Use(x)),
                When("ConstantConditionPeephole" \in tr /\ class = "BoolFalse", Use(y)),
                When(logical /\ x = y, Use(x)),
                When(logical /\ Negation(steps, c),
                     Make(<<SelectStep(steps[x].dtype, Negated(steps, c), y, x)>>))>>)
=============================================================================

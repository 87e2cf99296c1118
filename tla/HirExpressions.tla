--------------------------- MODULE HirExpressions ---------------------------
(* The expression half of FunctionBuilder: every call that returns a handle. *)
(*                                                                           *)
(* A builder b is a record                                                   *)
(*   steps       the steps created so far; an id is a position               *)
(*   remembered  the CSE table: pairs of the step asked for and its result   *)
(*   reverse     for a result, the step it was asked as; 0 when none         *)
(*   special     the special operations announced to the vectorizer          *)
(*   scalarOnly  whether vectorization is ruled out                          *)
(*   args        the arguments: a type and a set of kinds                    *)
(*   safety      the safety check argument, 0 when there is none             *)
(*   tr          the enabled CodeTransformations                             *)
(* and a call returns the builder it leaves and the id of its result, 0 when *)
(* the call is refused.                                                      *)
EXTENDS HirPeepholes

AllTransformations ==
  {"MuldqInst", "MulConstPeephole", "LogicalPeephole", "BetweenPeephole", "ConstDiv", "CastPeephole",
   "CastDecomposition", "BinaryIdentityPeephole", "ConstantConditionPeephole"}

Answer(b, id) == [b |-> b, id |-> id]
Refused(b) == Answer(b, 0)
Invalid(x) == x.id = 0

(***************************************************************************)
(* The CSE table. An operation on integers that commutes is found with its *)
(* operands in either order.                                                *)
(***************************************************************************)
Commutes(s, t) ==
  \/ s.kind = "ArithBinary" /\ t \in IntTypes
     /\ s.op \in {"Add", "Mul", "Mul64SE", "Mul64ZE", "Min", "Max", "UMin", "UMax", "And", "Or", "Xor"}
  \/ s.kind = "PredicateBinary" /\ s.op # "AndNot"

SameExpression(steps, s, t) ==
  \/ s = t
  \/ /\ Commutes(t, steps[t.args[1]].dtype)
     /\ s = [t EXCEPT !.args = <<t.args[2], t.args[1]>>]

Known(b, s) == {e \in b.remembered : SameExpression(b.steps, b.steps[e.key], s)}

(***************************************************************************)
(* Create step s as asked for, and use the rewrite r of it when r applies:  *)
(* remember_expr stores the asked step as the key of the result.            *)
(***************************************************************************)
Create(b, s, r) ==
  LET key == Len(b.steps) + 1
      put(ref) == IF ref < 0 THEN key - ref ELSE ref
      result == IF Applies(r) THEN put(r.at) ELSE key
      steps == Append(b.steps, s)
               \o [k \in DOMAIN r.new |-> [r.new[k] EXCEPT !.args = [j \in DOMAIN @ |-> put(@[j])]]]
      before(i) == IF i \in DOMAIN b.reverse THEN b.reverse[i] ELSE 0
  IN  Answer([b EXCEPT !.steps = steps,
                       !.remembered = @ \union {[key |-> key, result |-> result]},
                       !.reverse = [i \in DOMAIN steps |-> IF i = result /\ key # result THEN key ELSE before(i)]],
             result)

\* A call that looks up s and creates it, possibly rewritten, when it is new.
Found(b, s) == Answer(b, (CHOOSE e \in Known(b, s) : TRUE).result)
Ask(b, s, r) == IF Known(b, s) # {} THEN Found(b, s) ELSE Create(b, s, r)

OriginalIsResult(b, id) == id   \* mutant: the rewritten step is checked

Original(b, id) == IF b.reverse[id] = 0 THEN id ELSE b.reverse[id]

Announce(a, ops) == [a EXCEPT !.b.special = @ \union ops]
MarkArg(b, arg, kind) == [b EXCEPT !.args[arg].kind = @ \union {kind}]

(***************************************************************************)
(* Loads and constants.                                                     *)
(***************************************************************************)
LoadStep(b, arg, aligned) == Step("Load", b.args[arg].dtype, "", aligned, <<>>, <<arg>>)

Load(b, arg, aligned) ==
  LET s == LoadStep(b, arg, aligned)
  IN  IF Known(b, s) # {} THEN Found(b, s) ELSE Create(MarkArg(b, arg, "SrcArr"), s, NoRewrite)

LoadSplat(b, arg) ==
  LET s == Step("LoadSplat", b.args[arg].dtype, "", "No", <<>>, <<arg>>)
  IN  IF Known(b, s) # {} THEN Found(b, s) ELSE Create(MarkArg(b, arg, "SrcConst"), s, NoRewrite)

\* A constant may be given signed or unsigned and has to fit one of the two.
Con(b, n, t) ==
  IF t \in IntTypes /\ n \notin IntMin(t) .. Modulus(t) - 1 THEN Refused(b)
  ELSE Ask(b, ConstStep(IF t \in FloatTypes THEN n ELSE Wrap(n, t), t), NoRewrite)

(***************************************************************************)
(* Arithmetic.                                                              *)
(***************************************************************************)
ArithSpecialOps(steps, id) ==
  LET s == steps[id] IN
  IF s.kind # "ArithBinary" THEN {}
  ELSE (IF s.dtype = "I64" /\ s.op = "Mul" THEN {"I64Mul"} ELSE {})
       \union (IF s.dtype = "I8" /\ s.op = "Mul" THEN {"I8Mul"} ELSE {})
       \union (IF /\ s.dtype = "I8" /\ s.op \in {"ShiftRightArith", "ShiftRightLogical", "ShiftLeftLogical"}
                  /\ ~Const(steps, s.args[2])
               THEN {"I8VariableShift"} ELSE {})

\* A division that a vector kernel can do: by a constant, through libdivide.
ConstDivision(b, t, r) ==
  "ConstDiv" \in b.tr /\ Const(b.steps, r) /\ t \in {"I16", "I32", "I64"} /\ b.steps[r].val[1] # 0

\* What the rewrites make of an integer product.
ProductRewrite(b, t, l, r) ==
  LET short == Mul32_64Peephole(b.steps, l, r)
  IN  FirstOf(<<When("MulConstPeephole" \in b.tr, IntMulPeephole(b.steps, l, r)),
                When("MuldqInst" \in b.tr /\ short # "None", Make(<<ArithStep(short, "No", t, l, r)>>))>>)

Unannounced(a) == a   \* mutant: a product or shift is created and not announced
Announced(a) == Announce(a, ArithSpecialOps(a.b.steps, a.id))

NewArithVector(b, s, identity) ==   \* mutant: a division does not keep the function scalar
  Announced(Create(b, s, FirstOf(<<identity,
                                   When(s.op = "Mul" /\ s.dtype \in IntTypes,
                                        ProductRewrite(b, s.dtype, s.args[1], s.args[2]))>>)))

\* The creation of s, for which `identity` is the identity that applies.
NewArith(b, s, identity) ==
  LET t == s.dtype
      product == When(s.op = "Mul" /\ t \in IntTypes, ProductRewrite(b, t, s.args[1], s.args[2]))
      scalar == ~Applies(identity) /\ s.op \in DivisionOps /\ t \in IntTypes /\ ~ConstDivision(b, t, s.args[2])
  IN  Announced(Create([b EXCEPT !.scalarOnly = @ \/ scalar], s, FirstOf(<<identity, product>>)))

UncheckedArith(b, l, r, op, flag) ==
  LET s == ArithStep(op, flag, b.steps[l].dtype, l, r)
  IN  IF Known(b, s) # {} THEN Found(b, s)
      ELSE NewArith(b, s, When("BinaryIdentityPeephole" \in b.tr, ArithIdentity(b.steps, op, l, r)))

Unary(b, arg, op) ==
  LET t == b.steps[arg].dtype
      s == UnaryStep(op, t, arg)
  IN  IF t \notin IntTypes /\ op \in {"Lzcnt", "Tzcnt", "Popcount"} THEN Refused(b)
      ELSE Announce(Ask(b, s, NoRewrite), IF op = "Lzcnt" /\ t \in {"I8", "I16"} THEN {"SmallLzcnt"} ELSE {})

(***************************************************************************)
(* Checks. The operation checked is the one the handle was asked as. A      *)
(* product the 32-bit multiplication computes is returned as it is. mask is *)
(* 0 when there is none.                                                    *)
(***************************************************************************)
Checkable(op, t, dtype) ==
  \/ /\ op.kind = "ArithBinary"
     /\ op.op \in {"Add", "Sub", "Mul"} \union ShiftOps \union DivisionOps
     /\ dtype \in IntTypes
     /\ op.op \in DivisionOps => dtype \in {"I32", "I64"}
     /\ op.flag = "No"
  \/ op.kind = "IntCast" /\ op.op = "Trunc"
  \/ op.kind = "ArithUnary" /\ op.op \in {"Abs", "Negate"} /\ dtype \in IntTypes

CheckedOp(b, arg, mask) ==
  LET operation == Original(b, arg)
      used == IF mask # 0 /\ "ConstantConditionPeephole" \in b.tr /\ ConstClass(b.steps[mask]) = "BoolTrue"
              THEN 0 ELSE mask
      s == Step("CheckedOp", b.steps[arg].dtype, "", "No",
                IF used = 0 THEN <<operation>> ELSE <<operation, used>>, <<>>)
  IN  IF b.safety = 0 THEN Refused(b)
      ELSE IF b.steps[arg].kind = "ArithBinary" /\ b.steps[arg].op \in {"Mul64SE", "Mul64ZE"}
      THEN Answer(b, arg)
      ELSE IF ~Checkable(b.steps[operation], s, b.steps[arg].dtype) THEN Refused(b)
      ELSE IF Known(b, s) # {} THEN Found(b, s)
      ELSE Announce(Create(b, s, NoRewrite), ArithSpecialOps(b.steps, operation))

CheckedWhen(checked, a) == IF Invalid(a) \/ ~checked THEN a ELSE CheckedOp(a.b, a.id, 0)

Arith(b, l, r, op, flag) ==
  IF flag = "SafeDivision" /\ op \notin DivisionOps THEN Refused(b)
  ELSE CheckedWhen(flag = "SafetyCheck",
                   UncheckedArith(b, l, r, op, IF flag = "SafetyCheck" THEN "No" ELSE flag))

(***************************************************************************)
(* Casts.                                                                   *)
(***************************************************************************)
IntCast(b, arg, dtype, kind, checked) ==
  LET from == b.steps[arg].dtype
      extends == Size(from) < Size(dtype)
      s == IntCastStep(kind, dtype, arg)
  IN  IF from = dtype \/ extends = (kind = "Trunc") \/ (checked /\ (kind # "Trunc" \/ b.safety = 0)) THEN Refused(b)
      ELSE CheckedWhen(checked, Ask(b, s, CastOf(b.steps, b.tr, arg, dtype, kind)))

FloatCast(b, arg, dtype, unsigned) ==
  LET from == b.steps[arg].dtype
      wide == {"I32", "I64"} \union FloatTypes
      compact == {from, dtype} \subseteq wide /\ {from, dtype} \intersect FloatTypes # {}
      decomposed == "CastDecomposition" \in b.tr /\ (from \in FloatTypes) # (dtype \in FloatTypes)
  IN  IF ~compact /\ ~decomposed THEN Refused(b)
      ELSE Ask(b, FloatCastStep(unsigned, dtype, arg), FloatCastOf(b.steps, b.tr, arg, dtype, unsigned))

\* signed_cast and unsigned_cast.
NumericCast(b, arg, dtype, unsigned) ==
  LET from == b.steps[arg].dtype
  IN  IF {from, dtype} \intersect FloatTypes # {} THEN FloatCast(b, arg, dtype, unsigned)
      ELSE IntCast(b, arg, dtype, BridgeKind(from, dtype, unsigned), FALSE)

(***************************************************************************)
(* Conditions.                                                              *)
(***************************************************************************)
Compare(b, l, r, op, unsigned) ==
  IF unsigned = "Unsigned" /\ b.steps[l].dtype \in FloatTypes THEN Refused(b)
  ELSE Ask(b, CompareStep(op, unsigned, l, r),
           FirstOf(<<When("BinaryIdentityPeephole" \in b.tr, CompareIdentity(b.steps, op, unsigned, l, r)),
                     ComparePeephole(b.steps, b.tr, op, unsigned, l, r)>>))

Predicate(b, l, r, op) ==
  Ask(b, LogicStep(op, l, r),
      FirstOf(<<When("BinaryIdentityPeephole" \in b.tr, LogicIdentity(b.steps, op, l, r)),
                CASE op = "And" -> AndPeephole(b.steps, b.tr, l, r)
                  [] op = "Or" -> OrPeephole(b.steps, l, r)
                  [] op = "AndNot" -> AndNotPeephole(b.steps, b.tr, l, r)
                  [] OTHER -> NoRewrite>>))

Not(b, p) == Ask(b, NotStep(p), When("LogicalPeephole" \in b.tr, InvertedCondition(b.steps, b.tr, p)))

Fpclass(b, arg) ==
  IF b.steps[arg].dtype \notin FloatTypes THEN Refused(b)
  ELSE Ask(b, Step("Fpclass", "I1", "Nan", "No", <<arg>>, <<>>), NoRewrite)

Select(b, c, x, y) ==
  Ask(b, SelectStep(b.steps[x].dtype, c, x, y), SelectPeephole(b.steps, b.tr, c, x, y))

(***************************************************************************)
(* Calls written in terms of the calls above. A script is a sequence of      *)
(* calls on type t; k names the result of its k-th call and -k the k-th      *)
(* operand it is given.                                                      *)
(***************************************************************************)
Inner(fn, op, flag, args, n) == [fn |-> fn, op |-> op, flag |-> flag, args |-> args, n |-> n]
InCon(n) == Inner("Con", "", "No", <<>>, n)
InArith(op, flag, l, r) == Inner("Arith", op, flag, <<l, r>>, 0)
InUnary(op, a) == Inner("Unary", op, "No", <<a>>, 0)
InCompare(op, flag, l, r) == Inner("Compare", op, flag, <<l, r>>, 0)
InLogic(op, l, r) == Inner("Predicate", op, "No", <<l, r>>, 0)
InNot(p) == Inner("Not", "", "No", <<p>>, 0)
InSelect(c, x, y) == Inner("Select", "", "No", <<c, x, y>>, 0)

Perform(b, t, c, xs) ==
  CASE c.fn = "Con" -> Con(b, c.n, t)
    [] c.fn = "Arith" -> UncheckedArith(b, xs[1], xs[2], c.op, c.flag)
    [] c.fn = "Unary" -> Unary(b, xs[1], c.op)
    [] c.fn = "Compare" -> Compare(b, xs[1], xs[2], c.op, c.flag)
    [] c.fn = "Predicate" -> Predicate(b, xs[1], xs[2], c.op)
    [] c.fn = "Not" -> Not(b, xs[1])
    [] c.fn = "Select" -> Select(b, xs[1], xs[2], xs[3])

\* A call that is refused throws out of the script.
Extended(so, a) == [b |-> a.b, ids |-> Append(so.ids, a.id)]
Performed(so, t, operands, c) ==
  IF \E k \in DOMAIN so.ids : so.ids[k] = 0 THEN so
  ELSE Extended(so, Perform(so.b, t, c, [j \in DOMAIN c.args |->
                                           IF c.args[j] < 0 THEN operands[-c.args[j]] ELSE so.ids[c.args[j]]]))
LastOf(so) == Answer(so.b, so.ids[Len(so.ids)])

Run(b, t, operands, script) ==
  LET run[k \in 0 .. Len(script)] ==
        IF k = 0 THEN [b |-> b, ids |-> <<>>] ELSE Performed(run[k - 1], t, operands, script[k])
  IN  LastOf(run[Len(script)])

\* A choice between predicates is built from three predicates. It is remembered
\* under the choice; the choice step itself is never used.
SelectPredicate(b, c, x, y) ==
  LET s == SelectStep("I1", c, x, y)
      remember(a) == Create(a.b, s, Use(a.id))
  IN  IF Known(b, s) # {} THEN Found(b, s)
      ELSE remember(Run(b, "I1", <<c, x, y>>,
                        <<InLogic("And", -1, -2), InNot(-1), InLogic("And", 2, -3), InLogic("Or", 1, 3)>>))

BytesReversed(b, x) ==
  LET t == b.steps[x].dtype
  IN  IF t = "I8" THEN Refused(b)
      ELSE Ask(b, Step("Permute", t, "", "No", <<x>>, [i \in 1 .. Size(t) |-> Size(t) - i]), NoRewrite)

\* The helpers for integers of type t.
HelperScript(op, t) ==
  LET w == Width(t)
      shift(n, k) == InArith("ShiftLeftLogical", "ShiftWraparound", n, k)
  IN  CASE op = "log2_no_zero" -> <<InCon(w - 1), InUnary("Lzcnt", -1), InArith("Sub", "No", 1, 2)>>
        [] op = "log2" ->
             <<InCon(0), InCompare("NotEqual", "No", -1, 1), InCon(w - 1), InUnary("Lzcnt", -1),
               InArith("Sub", "No", 3, 4), InSelect(2, 5, 1)>>
        [] op = "has_single_bit" ->
             <<InCon(1), InArith("Sub", "No", -1, 1), InArith("And", "No", -1, 2), InCon(0),
               InCompare("Equal", "No", 3, 4)>>
        [] op = "bit_floor" ->
             <<InCon(w - 1), InUnary("Lzcnt", -1), InArith("Sub", "No", 1, 2), InCon(1), shift(4, 3), InCon(0),
               InCompare("NotEqual", "No", -1, 6), InSelect(7, 5, 6)>>
        [] op = "bit_ceil" ->
             <<InCon(w), InCon(1), InArith("Sub", "No", -1, 2), InUnary("Lzcnt", 3), InArith("Sub", "No", 1, 4),
               InCompare("LessEqual", "Unsigned", -1, 2), shift(2, 5), InSelect(6, 2, 7)>>
        [] op = "sign" ->
             <<InCon(0), InCompare("NotEqual", "No", -1, 1), InCon(w - 1),
               InArith("ShiftRightArith", "ShiftWraparound", -1, 3), InCon(1), InArith("Or", "No", 4, 5),
               InSelect(2, 6, 1)>>
        [] op = "copysign" ->   \* of the sign of the first operand and the second
             <<InCon(0), InCompare("NotEqual", "No", -1, 1), InCompare("Less", "No", -1, 1), InUnary("Negate", -2),
               InSelect(3, 4, -2), InSelect(2, 5, 1)>>

Helper(b, op, xs) ==
  IF op = "byteswap" THEN BytesReversed(b, xs[1])
  ELSE Run(b, b.steps[xs[1]].dtype, xs, HelperScript(op, b.steps[xs[1]].dtype))
=============================================================================

--------------------------- MODULE FunctionBuilder ---------------------------
(* A FunctionBuilder as its caller drives it: arguments are declared,         *)
(* expressions are built over them, outputs add roots and accumulators, and   *)
(* build() checks how the roots access the arguments.                         *)
(*                                                                            *)
(* A program fixes which calls may come at each position; Programs is a       *)
(* sequence of them. A call names earlier results by their position.          *)
EXTENDS HirOutputs

CONSTANTS Programs,      \* programs: the enabled transformations, a sequence of sets of calls,
                         \* and for each argument the values a row may hold there
          MaxArguments,  \* build_limits.max_argument_count
          MaxRoots,      \* build_limits.max_hir_roots
          MaxLiveSteps   \* build_limits.max_hir_live_steps

ASSUME LimitsAssumption == {MaxArguments, MaxRoots, MaxLiveSteps} \subseteq Nat

VARIABLES program,   \* the program that is followed
          b,         \* the builder: FunctionBuilderImpl
          handles,   \* for each call so far, its result (0 for none) and what was asked
          last,      \* the last call: what was asked, the result, whether it was refused
          built      \* whether build() has succeeded
vars == <<program, b, handles, last, built>>

\* A call: what is called, an operation, its flags and a type; earlier results by
\* their position; arguments of the function, or the number of a constant.
Call(fn, op, flag, t, args, ns) == [fn |-> fn, op |-> op, flag |-> flag, t |-> t, args |-> args, ns |-> ns]

EmptyBuilder(tr) ==
  [steps |-> <<>>, remembered |-> {}, reverse |-> <<>>, special |-> {}, scalarOnly |-> FALSE,
   args |-> <<>>, safety |-> 0, accs |-> <<>>, roots |-> <<>>, tr |-> tr]

Nothing == Step("None", "I1", "", "No", <<>>, <<>>)
Outcome(asked, id, refused) == [asked |-> asked, id |-> id, refused |-> refused, check |-> FALSE, mask |-> 0]

NoResult == [id |-> 0, asked |-> Nothing]

Init ==
  /\ \E p \in DOMAIN Programs : \E tr \in Programs[p].transformations :
       program = p /\ b = EmptyBuilder(tr)
  /\ handles = <<>> /\ last = Outcome(Nothing, 0, FALSE) /\ built = FALSE

\* A call as the types of the interface have it: as many operands as the call takes,
\* results of this builder each, and arguments that were declared.
Operands(fn) ==
  CASE fn \in {"Unary", "IntCast", "Cast", "Not", "Fpclass", "Gather", "PredicateAgg", "CountIf"} -> {1}
    [] fn \in {"Arith", "Compare", "Predicate", "Pack"} -> {2}
    [] fn = "Select" -> {3}
    [] fn \in {"CheckedOp", "Store", "ArithAgg", "Helper"} -> {1, 2}
    [] fn \in {"Scatter", "GroupedArithAgg"} -> {2, 3}
    [] OTHER -> {0}
Named(fn) ==
  CASE fn \in {"Load", "LoadSplat", "Gather", "Store", "Scatter", "ArithAgg", "GroupedArithAgg",
               "PredicateAgg", "CountIf"} -> 1
    [] fn = "Pack" -> 2
    [] OTHER -> 0
HelperOps == {"log2_no_zero", "log2", "has_single_bit", "bit_floor", "bit_ceil", "byteswap", "sign", "copysign"}

WellTyped(c) ==
  /\ c.args \in Seq(DOMAIN handles) /\ Len(c.args) \in Operands(c.fn)
  /\ \A k \in 1 .. Named(c.fn) : c.ns[k] \in DOMAIN b.args
  /\ c.fn = "IntCast" => c.op \in CastKinds
  /\ c.fn = "Cast" => c.t \in IntTypes \union FloatTypes /\ c.flag \in {"No", "Unsigned"}
  /\ c.fn = "Predicate" => c.op \in LogicOps
  /\ c.fn = "Helper" => c.op \in HelperOps /\ Len(c.args) = IF c.op = "copysign" THEN 2 ELSE 1

Position == Len(handles) + 1
Allowed == IF Position \in DOMAIN Programs[program].calls /\ ~built
           THEN {c \in Programs[program].calls[Position] : WellTyped(c)} ELSE {}

\* The results call c works on; each of them was given by a call that was not refused.
On(c) == [k \in DOMAIN c.args |-> handles[c.args[k]].id]
Ready(c) == \A k \in DOMAIN c.args : handles[c.args[k]].id # 0
TypeAt(id) == b.steps[id].dtype

(***************************************************************************)
(* Ends of a call: a result, an output, or an exception.                    *)
(***************************************************************************)
\* check: whether a safety check was asked for, under the given mask.
GivesUnder(a, asked, check, mask) ==
  /\ b' = a.b
  /\ handles' = Append(handles, [id |-> a.id, asked |-> asked])
  /\ last' = [asked |-> asked, id |-> a.id, refused |-> a.id = 0, check |-> check, mask |-> mask]
  /\ UNCHANGED <<program, built>>

Gives(a, asked) == GivesUnder(a, asked, FALSE, 0)

Leaves(new, refused) ==
  /\ b' = new
  /\ handles' = Append(handles, NoResult)
  /\ last' = Outcome(Nothing, 0, refused)
  /\ UNCHANGED <<program, built>>

(***************************************************************************)
(* Arguments.                                                               *)
(***************************************************************************)
Declared(t, kinds) == [b EXCEPT !.args = Append(@, [dtype |-> t, kind |-> kinds])]

DeclareArg == \E c \in Allowed :
  /\ c.fn = "Arg"
  /\ IF Len(b.args) >= MaxArguments THEN Leaves(b, TRUE)
     ELSE Leaves(Declared(c.t, IF c.op = "" THEN {} ELSE {c.op}), FALSE)

DeclareSafetyArg == \E c \in Allowed :
  /\ c.fn = "ArgSafetyCheck"
  /\ IF b.safety # 0 \/ Len(b.args) >= MaxArguments THEN Leaves(b, TRUE)
     ELSE Leaves([Declared("I8", {"DstSafetyCheck"}) EXCEPT !.safety = Len(b.args) + 1], FALSE)

(***************************************************************************)
(* Expressions.                                                             *)
(***************************************************************************)
DoLoad == \E c \in Allowed :
  /\ c.fn = "Load"
  /\ Gives(Load(b, c.ns[1], c.flag), LoadStep(b, c.ns[1], c.flag))

DoLoadSplat == \E c \in Allowed :
  /\ c.fn = "LoadSplat"
  /\ Gives(LoadSplat(b, c.ns[1]), LoadStep(b, c.ns[1], "Unaligned"))

DoCon == \E c \in Allowed :
  /\ c.fn = "Con"
  /\ Gives(Con(b, c.ns[1], c.t), ConstStep(IF c.t \in IntTypes THEN Wrap(c.ns[1], c.t) ELSE c.ns[1], c.t))

DoArith == \E c \in Allowed :
  /\ c.fn = "Arith" /\ Ready(c)
  /\ LET h == On(c)
         checked == c.flag = "SafetyCheck"
     IN  IF TypeAt(h[1]) # TypeAt(h[2]) THEN Leaves(b, TRUE)
         ELSE GivesUnder(Arith(b, h[1], h[2], c.op, c.flag),
                         ArithStep(c.op, IF checked THEN "No" ELSE c.flag, TypeAt(h[1]), h[1], h[2]), checked, 0)

DoUnary == \E c \in Allowed :
  /\ c.fn = "Unary" /\ Ready(c)
  /\ LET h == On(c)
         checked == c.flag = "SafetyCheck"
     IN  GivesUnder(CheckedWhen(checked, Unary(b, h[1], c.op)), UnaryStep(c.op, TypeAt(h[1]), h[1]), checked, 0)

\* checked_op of an earlier result, under a mask when there is a second operand.
DoCheckedOp == \E c \in Allowed :
  /\ c.fn = "CheckedOp" /\ Ready(c)
  /\ LET h == On(c)
         mask == IF Len(h) = 2 THEN h[2] ELSE 0
     IN  GivesUnder(CheckedOp(b, h[1], mask), handles[c.args[1]].asked, TRUE, mask)

DoIntCast == \E c \in Allowed :
  /\ c.fn = "IntCast" /\ Ready(c)
  /\ LET h == On(c)
         checked == c.flag = "SafetyCheck"
     IN  GivesUnder(IntCast(b, h[1], c.t, c.op, checked), IntCastStep(c.op, c.t, h[1]), checked, 0)

DoNumericCast == \E c \in Allowed :
  /\ c.fn = "Cast" /\ Ready(c)
  /\ LET h == On(c)
         from == TypeAt(h[1])
     IN  Gives(NumericCast(b, h[1], c.t, c.flag),
               IF {from, c.t} \intersect FloatTypes # {} THEN FloatCastStep(c.flag, c.t, h[1])
               ELSE IntCastStep(BridgeKind(from, c.t, c.flag), c.t, h[1]))

DoCompare == \E c \in Allowed :
  /\ c.fn = "Compare" /\ Ready(c)
  /\ LET h == On(c)
     IN  IF TypeAt(h[1]) # TypeAt(h[2]) THEN Leaves(b, TRUE)
         ELSE Gives(Compare(b, h[1], h[2], c.op, c.flag), CompareStep(c.op, c.flag, h[1], h[2]))

DoPredicate == \E c \in Allowed :
  /\ c.fn = "Predicate" /\ Ready(c)
  /\ LET h == On(c) IN Gives(Predicate(b, h[1], h[2], c.op), LogicStep(c.op, h[1], h[2]))

DoNot == \E c \in Allowed :
  /\ c.fn = "Not" /\ Ready(c)
  /\ LET h == On(c) IN Gives(Not(b, h[1]), NotStep(h[1]))

DoFpclass == \E c \in Allowed :
  /\ c.fn = "Fpclass" /\ Ready(c)
  /\ LET h == On(c) IN Gives(Fpclass(b, h[1]), Step("Fpclass", "I1", "Nan", "No", <<h[1]>>, <<>>))

DoSelect == \E c \in Allowed :
  /\ c.fn = "Select" /\ Ready(c)
  /\ LET h == On(c)
         t == TypeAt(h[2])
     IN  IF t # TypeAt(h[3]) THEN Leaves(b, TRUE)
         ELSE Gives(IF t = "I1" THEN SelectPredicate(b, h[1], h[2], h[3]) ELSE Select(b, h[1], h[2], h[3]),
                    SelectStep(t, h[1], h[2], h[3]))

DoHelper == \E c \in Allowed :
  /\ c.fn = "Helper" /\ Ready(c)
  /\ LET h == On(c) IN Gives(Helper(b, c.op, h), Step("Helper", TypeAt(h[1]), c.op, "No", h, <<>>))

DoGather == \E c \in Allowed :
  /\ c.fn = "Gather" /\ Ready(c)
  /\ LET idx == On(c)[1]
     IN  Gives(Gather(b, idx, c.ns[1]), Step("Gather", b.args[c.ns[1]].dtype, "", "No", <<idx>>, c.ns))

(***************************************************************************)
(* Outputs. The operands are the values and, when there is one, a condition.*)
(***************************************************************************)
Outputs(a, asked) ==
  /\ b' = a.b
  /\ handles' = Append(handles, NoResult)
  /\ last' = Outcome(asked, a.id, a.id = 0)
  /\ UNCHANGED <<program, built>>

CondOf(h, n) == IF Len(h) > n THEN h[n + 1] ELSE 0

DoScalarOnly == \E c \in Allowed :
  /\ c.fn = "ScalarOnly"
  /\ Leaves([b EXCEPT !.scalarOnly = TRUE], FALSE)

DoStore == \E c \in Allowed :
  /\ c.fn = "Store" /\ Ready(c)
  /\ LET h == On(c)
         dst == c.ns[1]
     IN  Outputs(IF TypeAt(h[1]) = "I1" THEN CondStorePredicate(b, h[1], CondOf(h, 1), dst)
                 ELSE CondStoreValue(b, h[1], CondOf(h, 1), dst),
                 RootStep("Store", TypeAt(h[1]), "", <<h[1]>>, CondOf(h, 1), dst))

DoPack == \E c \in Allowed :
  /\ c.fn = "Pack" /\ Ready(c)
  /\ LET h == On(c)
     IN  Outputs(Pack(b, h[1], h[2], c.ns[1], c.ns[2]),
                 RootStep("Pack", TypeAt(h[1]), "", <<h[1]>>, h[2], c.ns[1]))

DoScatter == \E c \in Allowed :
  /\ c.fn = "Scatter" /\ Ready(c)
  /\ LET h == On(c)
     IN  Outputs(CondScatter(b, h[1], h[2], CondOf(h, 2), c.ns[1]),
                 RootStep("Scatter", TypeAt(h[1]), "", <<h[2], h[1]>>, CondOf(h, 2), c.ns[1]))

DoArithAgg == \E c \in Allowed :
  /\ c.fn = "ArithAgg" /\ Ready(c)
  /\ LET h == On(c)
         t == b.args[c.ns[1]].dtype
     IN  Outputs(CondArithAgg(b, h[1], CondOf(h, 1), c.op, c.ns[1]),
                 RootStep(IF t = "I128" THEN "AccSum128" ELSE "AccArithBinary", t, c.op, <<h[1]>>,
                          CondOf(h, 1), c.ns[1]))

DoGroupedArithAgg == \E c \in Allowed :
  /\ c.fn = "GroupedArithAgg" /\ Ready(c)
  /\ LET h == On(c)
     IN  Outputs(GroupedArithAgg(b, h[1], CondOf(h, 2), h[2], c.op, c.ns[1]),
                 Step("GroupedArithAgg", TypeAt(h[1]), c.op, "No", h, c.ns))

DoPredicateAgg == \E c \in Allowed :
  /\ c.fn = "PredicateAgg" /\ Ready(c)
  /\ LET x == On(c)[1]
     IN  Outputs(PredicateAgg(b, x, c.op, c.ns[1]), RootStep("AccPredicateBinary", "I1", c.op, <<x>>, 0, c.ns[1]))

DoCountIf == \E c \in Allowed :
  /\ c.fn = "CountIf" /\ Ready(c)
  /\ LET x == On(c)[1]
     IN  Outputs(CountIf(b, x, c.ns[1]), RootStep("Countif", "I64", "Add", <<x>>, 0, c.ns[1]))

Build == \E c \in Allowed :
  /\ c.fn = "Build"
  /\ LET accepted == Buildable(b, MaxRoots, MaxLiveSteps)
     IN  /\ built' = accepted
         /\ last' = Outcome(Nothing, 0, ~accepted)
         /\ handles' = Append(handles, NoResult)
         /\ UNCHANGED <<program, b>>

Next ==
  \/ DeclareArg \/ DeclareSafetyArg \/ DoScalarOnly
  \/ DoLoad \/ DoLoadSplat \/ DoGather \/ DoCon
  \/ DoArith \/ DoUnary \/ DoCheckedOp \/ DoIntCast \/ DoNumericCast
  \/ DoCompare \/ DoPredicate \/ DoNot \/ DoFpclass \/ DoSelect \/ DoHelper
  \/ DoStore \/ DoPack \/ DoScatter \/ DoArithAgg \/ DoGroupedArithAgg \/ DoPredicateAgg \/ DoCountIf
  \/ Build

Spec == Init /\ [][Next]_vars

(***************************************************************************)
(* What was asked for, row by row.                                          *)
(***************************************************************************)
Rows ==
  LET upTo[n \in 0 .. Len(b.args)] ==
        IF n = 0 THEN {<<>>}
        ELSE {Append(r, v) : r \in upTo[n - 1], v \in Programs[program].samples[n]}
  IN  upTo[Len(b.args)]

\* The helpers by what their names promise; zero counts as having a single bit.
HelperValue(op, t, x, y) ==
  CASE op \in {"log2_no_zero", "log2"} -> IF x = 0 THEN 0 ELSE Log2(x)
    [] op = "has_single_bit" -> Bool(x = 0 \/ HasSingleBit(x))
    [] op = "bit_floor" -> IF x = 0 THEN 0 ELSE 2 ^ Log2(x)
    [] op = "bit_ceil" -> CHOOSE n \in {2 ^ k : k \in 0 .. Width(t) - 1} : x <= n /\ (n = 1 \/ n \div 2 < x)
    [] op = "byteswap" -> Permuted([i \in 1 .. Size(t) |-> Size(t) - i], t, x)
    [] op = "sign" -> IF x = 0 THEN 0 ELSE IF Signed(x, t) < 0 THEN AllOnes(t) ELSE 1
    [] op = "copysign" -> IF x = 0 THEN 0 ELSE IF Signed(x, t) < 0 THEN Wrap(-y, t) ELSE y

\* The rows a helper promises nothing about: no logarithm of zero and no power of
\* two that does not fit.
Unspecified(asked, xs) ==
  /\ asked.kind = "Helper"
  /\ \/ asked.op = "log2_no_zero" /\ xs[1] = 0
     \/ asked.op = "bit_ceil" /\ xs[1] > 2 ^ (Width(asked.dtype) - 1)

Types(s) == [k \in DOMAIN s.args |-> TypeAt(s.args[k])]
Arguments(s, value) == [k \in DOMAIN s.args |-> value[s.args[k]]]

AskedValue(asked, xs, env) ==
  CASE asked.kind = "Helper" -> HelperValue(asked.op, asked.dtype, xs[1], IF Len(xs) = 2 THEN xs[2] ELSE 0)
    [] asked.kind = "GroupedArithAgg" ->
         LET old == env[asked.val[1]]
         IN  IF Len(xs) = 2 \/ xs[3] = 1 THEN ArithInt(asked.op, "No", asked.dtype, xs[1], old) ELSE old
    [] OTHER -> Result(asked, Types(asked), xs, env)

(***************************************************************************)
(* Two rewrites change what was asked for (README, section 5). What they    *)
(* compute instead is written down here, so that nothing else passes.       *)
(***************************************************************************)
\* A bound as predicate_binary_and_peephole reads it: signed, and of a lower bound
\* with its constant on the left "c <= x" as "c < x" and the other way round,
\* unless it is "0 <= x".
Misread(s) ==
  LET c == b.steps[s.args[1]] IN
  [s EXCEPT !.flag = "No",
            !.op = CASE c.kind = "Const" /\ @ = "Less" -> "LessEqual"
                     [] c.kind = "Const" /\ @ = "LessEqual" /\ c.val[1] # 0 -> "Less"
                     [] OTHER -> @]

\* An "and" of two bounds of an integer that one comparison answers.
MisreadRange(asked, answer, env) ==
  /\ asked.kind = "PredicateBinary" /\ asked.op = "And" /\ b.steps[answer].kind = "Compare"
  /\ \A k \in 1 .. 2 :
       LET s == b.steps[asked.args[k]]
       IN  s.kind = "Compare" /\ \E j \in 1 .. 2 : Const(b.steps, s.args[j]) /\ TypeAt(s.args[j]) \in IntTypes
  /\ LET value == Meaning(b.steps, env)
         bound(k) == LET s == Misread(b.steps[asked.args[k]])
                     IN  Result(s, Types(s), Arguments(s, value), env)
     IN  value[answer] = bound(1) * bound(2)

\* A zero-extended value times a negative constant: the 32-bit multiplication
\* extends the low half of the constant with zeros.
MisreadFactor(asked, answer, env) ==
  /\ asked.kind = "ArithBinary" /\ asked.op = "Mul" /\ asked.dtype = "I64"
  /\ \E k \in 1 .. 2 :
       /\ b.steps[asked.args[k]].op = "Zext"
       /\ Const(b.steps, asked.args[3 - k]) /\ SignedConst(b.steps, asked.args[3 - k]) < 0
  /\ LET value == Meaning(b.steps, env)
     IN  value[answer] = ArithInt("Mul64ZE", "No", "I64", value[asked.args[1]], value[asked.args[2]])

(***************************************************************************)
(* Properties.                                                              *)
(***************************************************************************)
\* The builder's tables refer to steps and arguments that exist.
TypeOK ==
  /\ program \in DOMAIN Programs /\ built \in BOOLEAN
  /\ DOMAIN b.reverse = DOMAIN b.steps
  /\ \A i \in DOMAIN b.steps : \A k \in DOMAIN b.steps[i].args : b.steps[i].args[k] \in 1 .. i - 1
  /\ \A e \in b.remembered : {e.key, e.result} \subseteq DOMAIN b.steps
  /\ \A k \in DOMAIN b.roots : b.roots[k] \in DOMAIN b.steps
  /\ \A k \in DOMAIN b.accs : b.accs[k].dst \in DOMAIN b.args
  /\ b.safety \in 0 .. Len(b.args) /\ last.id \in 0 .. Len(b.steps)

\* Whatever the rewrites and the CSE table make of a call, in every row its result
\* has the value of the operation that was asked for; of the two rewrites that
\* change the meaning it has exactly the value they are known to give.
SameValue ==
  last.id # 0 =>
    \A env \in Rows :
      LET value == Meaning(b.steps, env)
          xs == Arguments(last.asked, value)
      IN  \/ Unspecified(last.asked, xs)
          \/ value[last.id] = AskedValue(last.asked, xs, env)
          \/ MisreadRange(last.asked, last.id, env) \/ MisreadFactor(last.asked, last.id, env)

\* The BetweenPeephole rewrites "comparisons (a <= X) && (X <= b) - analogous to
\* SQL BETWEEN" (simjit.h:407), which includes both ends: the result of such a pair
\* holds in the rows from a to b.
BetweenIsInclusive ==
  last.id # 0 /\ last.asked.kind = "PredicateBinary" /\ last.asked.op = "And" =>
    LET low == b.steps[last.asked.args[1]]
        high == b.steps[last.asked.args[2]]
        between == /\ \A s \in {low, high} : s.kind = "Compare" /\ s.op = "LessEqual" /\ s.flag = "No"
                   /\ low.args[2] = high.args[1]
                   /\ \A id \in {low.args[1], high.args[2]} : Const(b.steps, id) /\ TypeAt(id) \in IntTypes
    IN  between =>
          \A env \in Rows :
            LET x == Meaning(b.steps, env)[low.args[2]]
                t == TypeAt(low.args[2])
            IN  Meaning(b.steps, env)[last.id]
                  = Bool(Signed(x, t) \in SignedConst(b.steps, low.args[1]) .. SignedConst(b.steps, high.args[2]))

\* A checked operation reports exactly the rows in which the operation that was
\* asked for has no exact result, under its mask; also when the peepholes replaced
\* it by operations that cannot be checked or that need no check.
FaultsAsAsked ==
  last.id # 0 /\ last.check =>
    \A env \in Rows :
      LET value == Meaning(b.steps, env)
          faults(s) == Faults(s, Types(s), Arguments(s, value))
          answer == b.steps[last.id]
          active(m) == m = 0 \/ value[m] = 1
      IN  (faults(last.asked) /\ active(last.mask))
            = (/\ answer.kind = "CheckedOp"
               /\ faults(b.steps[answer.args[1]])
               /\ active(IF Len(answer.args) = 2 THEN answer.args[2] ELSE 0))

\* The vectorizer is told of every operation that needs a capability of the
\* target, whichever call or rewrite put the operation into the function.
Needs(steps, id) ==
  LET s == steps[id]
      small == s.dtype \in {"I8", "I16"}
  IN  ArithSpecialOps(steps, id)
      \union CASE s.kind = "ArithUnary" /\ s.op = "Lzcnt" /\ small -> {"SmallLzcnt"}
               [] s.kind = "Gather" -> {"Gather"} \union (IF small THEN {"SmallGather"} ELSE {})
               [] s.kind = "Scatter" -> {IF Len(s.args) = 3 THEN "CondScatter" ELSE "Scatter"}
               [] s.kind = "Pack" /\ small -> {"SmallPack"}
               [] s.kind = "AccArithBinary" /\ s.op = "Mul" /\ s.dtype = "I64" -> {"I64Mul"}
               [] OTHER -> {}
SpecialOpsAnnounced == \A s \in LiveSteps(b) : Needs(b.steps, s) \subseteq b.special

\* A live integer division no vector kernel can do keeps the function scalar, and
\* so does a table whose entries are read and written back.
ScalarWhenNeeded ==
  \A s \in LiveSteps(b) :
    LET step == b.steps[s]
        vectorDivisor(d) == "ConstDiv" \in b.tr /\ step.dtype # "I8" /\ d.kind = "Const" /\ d.val # <<0>>
        needed ==
          CASE step.kind = "ArithBinary" -> /\ step.op \in DivisionOps /\ step.dtype \in IntTypes
                                            /\ ~vectorDivisor(b.steps[step.args[2]])
            [] step.kind = "Scatter" -> \/ step.dtype \in {"I8", "I16"}
                                        \/ \E g \in LiveSteps(b) : /\ b.steps[g].kind = "Gather"
                                                                    /\ b.steps[g].val = step.val
            [] OTHER -> FALSE
    IN  needed => b.scalarOnly

\* With CastDecomposition the casts between integers and floats that are left keep
\* the width: they are the ones a vector kernel has.
CastsDecomposed ==
  "CastDecomposition" \in b.tr =>
    \A s \in LiveSteps(b) :
      b.steps[s].kind = "FloatCast" /\ TypeAt(b.steps[s].args[1]) \in IntTypes \union FloatTypes =>
        LET from == TypeAt(b.steps[s].args[1])
            to == b.steps[s].dtype
        IN  {from, to} \subseteq FloatTypes \/ Size(from) = Size(to)

\* In a function that was built no row reads or writes what another row writes
\* through the same argument, except in a table, and every argument that is
\* written has a kind that says so unless it also is an index array.
BuiltAccessesAgree ==
  built =>
    LET writes == {"SequentialWrite", "RandomWrite", "AppendWrite", "AggregateWrite"}
        sequential == {"SequentialRead", "SequentialWrite"}
        random == {"RandomRead", "RandomWrite"}
    IN  \A p \in Accesses(b) :
          p.how \in writes =>
            /\ b.args[p.arg].kind \intersect {"Dst", "DstAgg", "DstSafetyCheck", "SrcIdxArr"} # {}
            /\ \A q \in Accesses(b) :
                 q.by # p.by /\ q.arg = p.arg =>
                   \/ {p.how, q.how} \subseteq random
                   \/ {p.how, q.how} \subseteq sequential /\ q.how \notin writes

\* A call that throws adds no output: no root, no accumulator.
RefusedAddsNoOutput == [][last'.refused \/ last'.id = 0 => b'.roots = b.roots /\ b'.accs = b.accs]_vars
=============================================================================

------------------------------ MODULE Nullable ------------------------------
(* NullableBuilder: expressions whose values may be NULL, on top of the      *)
(* function builder. A nullable value is a value and, if it can be NULL at   *)
(* all, a predicate that is true where it is. Under NULL the value itself is *)
(* whatever the operations left there.                                       *)
(*                                                                           *)
(* The model follows one row through any sequence of calls. Variables of the *)
(* client hold nullable values and predicates; beside each stands its        *)
(* meaning, NULL or a value, which calls change by the rules of SQL. What    *)
(* the base operations compute is given by constants: nulls do not depend on *)
(* it.                                                                       *)
EXTENDS Naturals, Sequences

CONSTANTS
  Values, Zero, Least, MinusOne,
  ArithOps, Arith,      \* Arith[op][<<x, y>>], total: division replaces bad divisors
  UnaryOps, Unary,      \* Unary[op][x]; casts are among them
  Inexact,              \* <<op, x, y>> and <<op, x>> that a checked operation reports
  Invalid,              \* <<x, y>> whose quotient x / y does not exist in the type
  CmpOps, Compared,     \* Compared[op][<<x, y>>]
  Vars, Conds,          \* variables of the client
  MaxSpan, MaxBranches  \* longest argument list, and longest CASE

ASSUME ValuesAssumption == {Zero, Least, MinusOne} \subseteq Values
ASSUME ArithAssumption ==
  /\ Arith \in [ArithOps -> [Values \X Values -> Values]]
  /\ {"And", "Div", "Mod", "Max", "Min"} \subseteq ArithOps
\* The larger (smaller) of two values, in a linear order.
ASSUME ExtremeAssumption ==
  \A op \in {"Max", "Min"}, x, y, z \in Values :
    /\ Arith[op][<<x, y>>] \in {x, y}
    /\ Arith[op][<<x, y>>] = Arith[op][<<y, x>>]
    /\ Arith[op][<<Arith[op][<<x, y>>], z>>] = Arith[op][<<x, Arith[op][<<y, z>>]>>]
ASSUME UnaryAssumption == Unary \in [UnaryOps -> [Values -> Values]]
ASSUME InvalidAssumption ==
  \A x, y \in Values : <<x, y>> \in Invalid <=> y = Zero \/ (x = Least /\ y = MinusOne)
ASSUME CompareAssumption ==
  /\ Compared \in [CmpOps -> [Values \X Values -> BOOLEAN]]
  /\ {"Equal", "NotEqual", "Greater", "Less"} \subseteq CmpOps
  /\ \A x, y \in Values : Compared["Equal"][<<x, y>>] = (x = y)
  /\ \A x, y \in Values : Compared["NotEqual"][<<x, y>>] = (x # y)
ASSUME SpanAssumption == MaxSpan \in Nat \ {0} /\ MaxBranches \in Nat \ {0}

VARIABLES
  val, cond,            \* the client's nullable values and predicates
  meaning, truth,       \* what they mean
  fault, meantFault     \* the row's contribution to the overflow byte, and what it should be

vars == <<val, cond, meaning, truth, fault, meantFault>>

(***************************************************************************)
(* MaybePredicate and NullableValue.                                        *)
(***************************************************************************)
None == <<>>
MaybePredicates == {None, <<TRUE>>, <<FALSE>>}
Nullable(S) == [v : S, null : MaybePredicates]
WithNull(x, null) == [v |-> x, null |-> null]
Plain(x) == WithNull(x, None)

NULL == <<>>
Meanings(S) == {NULL} \union {<<x>> : x \in S}
Meaning(x) == IF x.null = <<TRUE>> THEN NULL ELSE <<x.v>>

\* Mutant: the two masks side by side.
CombineByAppending(p, q) == p \o q
combine_selection(p, q) ==
  IF p # None /\ q # None THEN <<p[1] \/ q[1]>> ELSE IF p # None THEN p ELSE q

(***************************************************************************)
(* Loads, gathers and stores: the null mask is a column of its own, which   *)
(* marks nulls or valid rows, or a value that stands for NULL.              *)
(***************************************************************************)
normalize_null_mask(bit, trueMeansNull) == IF trueMeansNull THEN bit ELSE ~bit
MaskedLoad(x, bit, trueMeansNull) == WithNull(x, <<normalize_null_mask(bit, trueMeansNull)>>)
nval_load(x, nval) == WithNull(x, <<x = nval>>)
null_value == WithNull(Zero, <<TRUE>>)

\* Mutant: without a mask, the column says valid only if true means null.
StoreNoMaskAsFalse(null, trueMeansNull) ==
  IF null # None THEN normalize_null_mask(null[1], trueMeansNull) ELSE FALSE
store_null_mask(null, trueMeansNull) ==
  IF null # None THEN normalize_null_mask(null[1], trueMeansNull) ELSE ~trueMeansNull
nval_stored(x, nval) == IF x.null # None /\ x.null[1] THEN nval ELSE x.v

(***************************************************************************)
(* Strict operations: NULL if an operand is.                                *)
(***************************************************************************)
arith_binary(op, l, r) == WithNull(Arith[op][<<l.v, r.v>>], combine_selection(l.null, r.null))
arith_unary(op, x) == WithNull(Unary[op][x.v], x.null)
cmp(op, l, r) == WithNull(Compared[op][<<l.v, r.v>>], combine_selection(l.null, r.null))
not_(p) == WithNull(~p.v, p.null)

\* andnot(p, q) of the base builder is ~p /\ q.
LogicOps == {"And", "Or", "Xor", "AndNot", "XNor"}
Connected(op, p, q) ==
  CASE op = "And" -> p /\ q [] op = "Or" -> p \/ q [] op = "Xor" -> p # q
    [] op = "AndNot" -> ~p /\ q [] op = "XNor" -> p = q
predicate_binary(op, p, q) == WithNull(Connected(op, p.v, q.v), combine_selection(p.null, q.null))

\* Mutant: the null mask passed for the mask of active rows.
ReportedUnderNull(inexact, null) == IF null # None THEN inexact /\ null[1] ELSE inexact
\* checked_op(x, mask) reports an inexact result where the mask holds.
Reported(inexact, null) == IF null # None THEN inexact /\ ~null[1] ELSE inexact

safe_int_div_mod(op, l, r, nullOnInvalid) ==
  LET null == combine_selection(l.null, r.null)
      invalid == r.v = Zero \/ (l.v = Least /\ r.v = MinusOne)
  IN  WithNull(Arith[op][<<l.v, r.v>>], IF nullOnInvalid THEN combine_selection(null, <<invalid>>) ELSE null)

bit_test(l, r) == cmp("NotEqual", arith_binary("And", l, r), Plain(Zero))
bit_testn(l, r) == cmp("Equal", arith_binary("And", l, r), Plain(Zero))
is_positive(x) == cmp("Greater", x, Plain(Zero))
is_negative(x) == cmp("Less", x, Plain(Zero))

(***************************************************************************)
(* Questions about nulls, which have an answer for every operand.           *)
(***************************************************************************)
is_null(x) == IF x.null # None THEN x.null[1] ELSE FALSE
is_not_null(x) == IF x.null # None THEN ~x.null[1] ELSE TRUE
\* Mutant: what lies under a null counts.
IsSet(p) == p.v
is_true(p) == IF p.null # None THEN ~p.null[1] /\ p.v ELSE p.v
is_not_true(p) == combine_selection(p.null, <<~p.v>>)[1]
is_false(p) == ~combine_selection(<<p.v>>, p.null)[1]
is_not_false(p) == combine_selection(p.null, <<p.v>>)[1]

is_distinct(l, r) ==
  LET ne == l.v # r.v IN
  CASE l.null # None /\ r.null # None -> (~l.null[1] /\ ne) \/ (l.null[1] # r.null[1])
    [] l.null # None /\ r.null = None -> ne \/ l.null[1]
    [] l.null = None /\ r.null # None -> ne \/ r.null[1]
    [] OTHER -> ne

is_not_distinct(l, r) ==
  LET eq == l.v = r.v IN
  CASE l.null # None /\ r.null # None -> (l.null[1] \/ eq) /\ (l.null[1] = r.null[1])
    [] l.null # None /\ r.null = None -> ~l.null[1] /\ eq
    [] l.null = None /\ r.null # None -> ~r.null[1] /\ eq
    [] OTHER -> eq

(***************************************************************************)
(* Conditionals.                                                            *)
(***************************************************************************)
true_unless_null(x) == IF x.null # None THEN WithNull(~x.null[1], x.null) ELSE Plain(TRUE)
nullif(l, r) == WithNull(l.v, combine_selection(l.null, <<is_true(cmp("Equal", l, r))>>))
if_else_null(p, x) == WithNull(x.v, combine_selection(<<~p.v>>, combine_selection(p.null, x.null)))

if_else(p, x, y) ==
  LET first == is_true(p)
      null == CASE x.null # None /\ y.null # None -> <<(first /\ x.null[1]) \/ (~first /\ y.null[1])>>
                [] x.null # None /\ y.null = None -> <<first /\ x.null[1]>>
                [] x.null = None /\ y.null # None -> <<~first /\ y.null[1]>>
                [] OTHER -> None
  IN  WithNull(IF first THEN x.v ELSE y.v, null)

\* One round of the loop of coalesce; without a null mask the result is final.
Coalesced(x, y) ==
  CASE x.null = None -> x
    [] x.null # None /\ y.null = None -> Plain(IF x.null[1] THEN y.v ELSE x.v)
    [] OTHER -> WithNull(IF x.null[1] THEN y.v ELSE x.v, <<x.null[1] /\ y.null[1]>>)

(***************************************************************************)
(* Calls with an argument list. fold_bin_op halves its list, coalesce goes  *)
(* from the left and a CASE is built from its last branch.                  *)
(***************************************************************************)
FoldedArith(op, args) ==
  LET fold[span \in (1 .. Len(args)) \X (1 .. Len(args))] ==
        LET i == span[1]
            j == span[2]
            half == (j - i + 1) \div 2
        IN  IF i >= j THEN args[i] ELSE arith_binary(op, fold[<<i, i + half - 1>>], fold[<<i + half, j>>])
  IN  fold[<<1, Len(args)>>]

FoldedLogic(op, args) ==
  LET fold[span \in (1 .. Len(args)) \X (1 .. Len(args))] ==
        LET i == span[1]
            j == span[2]
            half == (j - i + 1) \div 2
        IN  IF i >= j THEN args[i] ELSE predicate_binary(op, fold[<<i, i + half - 1>>], fold[<<i + half, j>>])
  IN  fold[<<1, Len(args)>>]

coalesce(args) ==
  LET upTo[k \in 1 .. Len(args)] == IF k = 1 THEN args[1] ELSE Coalesced(upTo[k - 1], args[k])
  IN  upTo[Len(args)]

\* default is a list of at most one value.
case_when(conds, results, default) ==
  LET n == Len(conds)
      from[k \in 1 .. n] ==
        IF k < n THEN if_else(conds[k], results[k], from[k + 1])
        ELSE IF default # <<>> THEN if_else(conds[n], results[n], default[1])
        ELSE if_else_null(conds[n], results[n])
  IN  from[1]

case_x_when(x, keys, results, default) ==
  case_when([k \in 1 .. Len(keys) |-> cmp("Equal", x, keys[k])], results, default)

(***************************************************************************)
(* Outputs change nothing in the builder. A store or scatter writes a value *)
(* and a mask, or the value that stands for NULL; an aggregate, a count and *)
(* a pack add a value for the row or nothing.                               *)
(***************************************************************************)
MaskedStore(x, trueMeansNull) == [value |-> x.v, bit |-> store_null_mask(x.null, trueMeansNull)]
Added(include, x) == IF include THEN <<x>> ELSE <<>>

arith_agg(x) == Added(IF x.null # None THEN ~x.null[1] ELSE TRUE, x.v)
\* Mutant: the condition's nulls are forgotten.
AggregateIfSet(x, p) == Added(p.v /\ is_not_null(x), x.v)
cond_arith_agg(x, p) ==
  Added(is_true(IF x.null # None THEN predicate_binary("And", p, Plain(~x.null[1])) ELSE p), x.v)
countif(p) == Added(is_true(p), 1)
count_notnull(x) == Added(is_not_null(x), 1)
has_nulls(x) == Added(is_null(x), 1)

(***************************************************************************)
(* The same calls in SQL, on meanings. and_, or_ and the other connectives  *)
(* are strict here, not three-valued as SQL's AND and OR are.               *)
(***************************************************************************)
SqlArith(op, x, y) == IF NULL \in {x, y} THEN NULL ELSE <<Arith[op][<<x[1], y[1]>>]>>
SqlUnary(op, x) == IF x = NULL THEN NULL ELSE <<Unary[op][x[1]]>>
SqlCompare(op, x, y) == IF NULL \in {x, y} THEN NULL ELSE <<Compared[op][<<x[1], y[1]>>]>>
SqlLogic(op, p, q) == IF NULL \in {p, q} THEN NULL ELSE <<Connected(op, p[1], q[1])>>
SqlNot(p) == IF p = NULL THEN NULL ELSE <<~p[1]>>
SqlDivide(op, x, y, nullOnInvalid) ==
  IF nullOnInvalid /\ x # NULL /\ y # NULL /\ <<x[1], y[1]>> \in Invalid THEN NULL ELSE SqlArith(op, x, y)
SqlIf(p, x, y) == IF p = <<TRUE>> THEN x ELSE y

SqlFirst(S) == CHOOSE k \in S : \A j \in S : k <= j
SqlCoalesce(xs) ==
  LET known == {k \in DOMAIN xs : xs[k] # NULL}
  IN  IF known = {} THEN NULL ELSE xs[SqlFirst(known)]
SqlCase(ps, xs, default) ==
  LET hit == {k \in DOMAIN ps : ps[k] = <<TRUE>>}
  IN  IF hit # {} THEN xs[SqlFirst(hit)] ELSE IF default = <<>> THEN NULL ELSE default[1]
\* The largest (smallest) of values: no other changes it.
SqlExtreme(op, xs) ==
  IF \E k \in DOMAIN xs : xs[k] = NULL THEN NULL
  ELSE CHOOSE x \in {xs[k] : k \in DOMAIN xs} : \A k \in DOMAIN xs : Arith[op][<<x[1], xs[k][1]>>] = x[1]
SqlAll(ps) == IF \E k \in DOMAIN ps : ps[k] = NULL THEN NULL ELSE <<\A k \in DOMAIN ps : ps[k][1]>>
SqlAny(ps) == IF \E k \in DOMAIN ps : ps[k] = NULL THEN NULL ELSE <<\E k \in DOMAIN ps : ps[k][1]>>

(***************************************************************************)
(* The client's calls, each with its result in a variable.                  *)
(***************************************************************************)
Init ==
  /\ val = [v \in Vars |-> Plain(Zero)] /\ meaning = [v \in Vars |-> <<Zero>>]
  /\ cond = [c \in Conds |-> Plain(TRUE)] /\ truth = [c \in Conds |-> <<TRUE>>]
  /\ fault = FALSE /\ meantFault = FALSE

SetVar(v, x, m) ==
  /\ val' = [val EXCEPT ![v] = x] /\ meaning' = [meaning EXCEPT ![v] = m]
  /\ UNCHANGED <<cond, truth>>

SetCond(c, p, m) ==
  /\ cond' = [cond EXCEPT ![c] = p] /\ truth' = [truth EXCEPT ![c] = m]
  /\ UNCHANGED <<val, meaning>>

NoCheck == UNCHANGED <<fault, meantFault>>
Check(inexact, null, meantNull) ==
  /\ fault' = (fault \/ Reported(inexact, null))
  /\ meantFault' = (meantFault \/ (inexact /\ ~meantNull))

Load ==
  \E v \in Vars, x \in Values :
    /\ NoCheck
    /\ \/ SetVar(v, Plain(x), <<x>>)
       \/ \E bit, trueMeansNull \in BOOLEAN :
            SetVar(v, MaskedLoad(x, bit, trueMeansNull), IF bit = trueMeansNull THEN NULL ELSE <<x>>)
       \/ \E nval \in Values : SetVar(v, nval_load(x, nval), IF x = nval THEN NULL ELSE <<x>>)
       \/ SetVar(v, null_value, NULL)

LoadPredicate ==
  \E c \in Conds, x \in BOOLEAN :
    /\ NoCheck
    /\ \/ SetCond(c, Plain(x), <<x>>)
       \/ \E bit, trueMeansNull \in BOOLEAN :
            SetCond(c, MaskedLoad(x, bit, trueMeansNull), IF bit = trueMeansNull THEN NULL ELSE <<x>>)

ArithBinary ==
  \E v, l, r \in Vars, op \in ArithOps, checked \in BOOLEAN :
    /\ SetVar(v, arith_binary(op, val[l], val[r]), SqlArith(op, meaning[l], meaning[r]))
    /\ IF checked THEN Check(<<op, val[l].v, val[r].v>> \in Inexact, combine_selection(val[l].null, val[r].null),
                             NULL \in {meaning[l], meaning[r]})
       ELSE NoCheck

ArithUnary ==
  \E v, l \in Vars, op \in UnaryOps, checked \in BOOLEAN :
    /\ SetVar(v, arith_unary(op, val[l]), SqlUnary(op, meaning[l]))
    /\ IF checked THEN Check(<<op, val[l].v>> \in Inexact, val[l].null, meaning[l] = NULL) ELSE NoCheck

Divide ==
  \E v, l, r \in Vars, op \in {"Div", "Mod"}, nullOnInvalid \in BOOLEAN :
    /\ NoCheck
    /\ SetVar(v, safe_int_div_mod(op, val[l], val[r], nullOnInvalid),
              SqlDivide(op, meaning[l], meaning[r], nullOnInvalid))

Extreme ==
  \E v \in Vars, op \in {"Max", "Min"}, n \in 1 .. MaxSpan : \E args \in [1 .. n -> Vars] :
    /\ NoCheck
    /\ SetVar(v, FoldedArith(op, [k \in 1 .. n |-> val[args[k]]]), SqlExtreme(op, [k \in 1 .. n |-> meaning[args[k]]]))

Compare ==
  \E c \in Conds, l, r \in Vars :
    /\ NoCheck
    /\ \/ \E op \in CmpOps : SetCond(c, cmp(op, val[l], val[r]), SqlCompare(op, meaning[l], meaning[r]))
       \/ SetCond(c, bit_test(val[l], val[r]), SqlCompare("NotEqual", SqlArith("And", meaning[l], meaning[r]), <<Zero>>))
       \/ SetCond(c, bit_testn(val[l], val[r]), SqlCompare("Equal", SqlArith("And", meaning[l], meaning[r]), <<Zero>>))
       \/ SetCond(c, is_positive(val[l]), SqlCompare("Greater", meaning[l], <<Zero>>))
       \/ SetCond(c, is_negative(val[l]), SqlCompare("Less", meaning[l], <<Zero>>))

Connect ==
  \E c, p, q \in Conds :
    /\ NoCheck
    /\ \/ SetCond(c, not_(cond[p]), SqlNot(truth[p]))
       \/ \E op \in LogicOps : SetCond(c, predicate_binary(op, cond[p], cond[q]), SqlLogic(op, truth[p], truth[q]))

ConnectAll ==
  \E c \in Conds, n \in 1 .. MaxSpan : \E args \in [1 .. n -> Conds] :
    LET ps == [k \in 1 .. n |-> cond[args[k]]]
        ts == [k \in 1 .. n |-> truth[args[k]]]
    IN  /\ NoCheck
        /\ \/ SetCond(c, FoldedLogic("And", ps), SqlAll(ts))
           \/ SetCond(c, FoldedLogic("Or", ps), SqlAny(ts))

AskNull ==
  \E c \in Conds, l, r \in Vars :
    /\ NoCheck
    /\ \/ SetCond(c, Plain(is_null(val[l])), <<meaning[l] = NULL>>)
       \/ SetCond(c, Plain(is_not_null(val[l])), <<meaning[l] # NULL>>)
       \/ SetCond(c, Plain(is_distinct(val[l], val[r])), <<meaning[l] # meaning[r]>>)
       \/ SetCond(c, Plain(is_not_distinct(val[l], val[r])), <<meaning[l] = meaning[r]>>)
       \/ SetCond(c, true_unless_null(val[l]), IF meaning[l] = NULL THEN NULL ELSE <<TRUE>>)

AskTruth ==
  \E c, p \in Conds :
    /\ NoCheck
    /\ \/ SetCond(c, Plain(is_true(cond[p])), <<truth[p] = <<TRUE>>>>)
       \/ SetCond(c, Plain(is_not_true(cond[p])), <<truth[p] # <<TRUE>>>>)
       \/ SetCond(c, Plain(is_false(cond[p])), <<truth[p] = <<FALSE>>>>)
       \/ SetCond(c, Plain(is_not_false(cond[p])), <<truth[p] # <<FALSE>>>>)

Choose ==
  \E v, l, r \in Vars, p \in Conds :
    /\ NoCheck
    /\ \/ SetVar(v, nullif(val[l], val[r]),
                IF meaning[l] # NULL /\ meaning[l] = meaning[r] THEN NULL ELSE meaning[l])
       \/ SetVar(v, if_else_null(cond[p], val[l]), SqlIf(truth[p], meaning[l], NULL))
       \/ SetVar(v, if_else(cond[p], val[l], val[r]), SqlIf(truth[p], meaning[l], meaning[r]))

Coalesce ==
  \E v \in Vars, n \in 1 .. MaxSpan : \E args \in [1 .. n -> Vars] :
    /\ NoCheck
    /\ SetVar(v, coalesce([k \in 1 .. n |-> val[args[k]]]), SqlCoalesce([k \in 1 .. n |-> meaning[args[k]]]))

\* At most one default branch.
Defaults == {<<>>} \union {<<v>> : v \in Vars}

CaseWhen ==
  \E v \in Vars, n \in 1 .. MaxBranches, default \in Defaults : \E ps \in [1 .. n -> Conds], xs \in [1 .. n -> Vars] :
    /\ NoCheck
    /\ SetVar(v, case_when([k \in 1 .. n |-> cond[ps[k]]], [k \in 1 .. n |-> val[xs[k]]],
                          [k \in DOMAIN default |-> val[default[k]]]),
              SqlCase([k \in 1 .. n |-> truth[ps[k]]], [k \in 1 .. n |-> meaning[xs[k]]],
                      [k \in DOMAIN default |-> meaning[default[k]]]))

CaseXWhen ==
  \E v, l \in Vars, n \in 1 .. MaxBranches, default \in Defaults : \E keys, xs \in [1 .. n -> Vars] :
    /\ NoCheck
    /\ SetVar(v, case_x_when(val[l], [k \in 1 .. n |-> val[keys[k]]], [k \in 1 .. n |-> val[xs[k]]],
                            [k \in DOMAIN default |-> val[default[k]]]),
              SqlCase([k \in 1 .. n |-> SqlCompare("Equal", meaning[l], meaning[keys[k]])],
                      [k \in 1 .. n |-> meaning[xs[k]]], [k \in DOMAIN default |-> meaning[default[k]]]))

Simple ==
  \/ Load \/ LoadPredicate \/ ArithBinary \/ ArithUnary \/ Divide \/ Compare
  \/ Connect \/ AskNull \/ AskTruth \/ Choose
Spans == Extreme \/ ConnectAll \/ Coalesce \/ CaseWhen \/ CaseXWhen

Next == Simple \/ Spans
Spec == Init /\ [][Next]_vars

(***************************************************************************)
(* Properties.                                                              *)
(***************************************************************************)
\* Values are of the base type, and a null mask is there or not.
TypeOK ==
  /\ val \in [Vars -> Nullable(Values)] /\ meaning \in [Vars -> Meanings(Values)]
  /\ cond \in [Conds -> Nullable(BOOLEAN)] /\ truth \in [Conds -> Meanings(BOOLEAN)]
  /\ {fault, meantFault} \subseteq BOOLEAN

\* After any sequence of calls every nullable value and predicate means what SQL
\* makes of it, whatever the operations left under the nulls and whether or not an
\* operand has a null mask at all.
MeansWhatSqlSays ==
  /\ \A v \in Vars : Meaning(val[v]) = meaning[v]
  /\ \A c \in Conds : Meaning(cond[c]) = truth[c]

\* A checked operation reports exactly the rows whose operands are not NULL.
NullsDoNotOverflow == fault = meantFault

\* What a store wrote reads back, through the load with the same encoding, as what
\* was stored; a sentinel turns a value equal to it into NULL.
StoresReadBack ==
  \A trueMeansNull \in BOOLEAN :
    LET reread(x) == Meaning(MaskedLoad(MaskedStore(x, trueMeansNull).value, MaskedStore(x, trueMeansNull).bit,
                                        trueMeansNull))
    IN  /\ \A v \in Vars : reread(val[v]) = meaning[v]
        /\ \A c \in Conds : reread(cond[c]) = truth[c]
        /\ \A v \in Vars, nval \in Values :
             Meaning(nval_load(nval_stored(val[v], nval), nval)) = IF meaning[v] = <<nval>> THEN NULL ELSE meaning[v]

\* Aggregates, counts and packs skip NULLs and conditions that are not true.
AggregatesSkipNulls ==
  \A v \in Vars :
    /\ arith_agg(val[v]) = meaning[v]
    /\ count_notnull(val[v]) = Added(meaning[v] # NULL, 1)
    /\ has_nulls(val[v]) = Added(meaning[v] = NULL, 1)
    /\ \A c \in Conds :
         /\ cond_arith_agg(val[v], cond[c]) = IF truth[c] = <<TRUE>> THEN meaning[v] ELSE <<>>
         /\ countif(cond[c]) = Added(truth[c] = <<TRUE>>, 1)
=============================================================================

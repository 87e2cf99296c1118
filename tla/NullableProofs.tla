--------------------------- MODULE NullableProofs ---------------------------
(* Nulls mean what SQL makes of them, for every type of values, all base     *)
(* operations and argument lists of any length. A call with an argument list *)
(* is proved by induction over the list: on spans that are halved, from the  *)
(* left, or from the last branch, as the code goes through it.               *)
EXTENDS Nullable, InductionLemmas, TLAPS

Inv == TypeOK /\ MeansWhatSqlSays /\ NullsDoNotOverflow

(***************************************************************************)
(* One nullable value.                                                      *)
(***************************************************************************)
LEMMA Masks ==
  ASSUME NEW p \in MaybePredicates, NEW q \in MaybePredicates
  PROVE  /\ combine_selection(p, q) \in MaybePredicates
         /\ (combine_selection(p, q) = <<TRUE>>) <=> (p = <<TRUE>> \/ q = <<TRUE>>)
<1>1. p = None \/ p = <<TRUE>> \/ p = <<FALSE>>
  BY DEF MaybePredicates
<1>2. q = None \/ q = <<TRUE>> \/ q = <<FALSE>>
  BY DEF MaybePredicates
<1>3. None # <<TRUE>> /\ None # <<FALSE>> /\ <<TRUE>> # <<FALSE>>
  BY DEF None
<1>4. <<TRUE>>[1] = TRUE /\ <<FALSE>>[1] = FALSE
  OBVIOUS
<1>5. combine_selection(p, q) \in MaybePredicates
  <2>1. CASE p # None /\ q # None
    <3>1. p[1] \in BOOLEAN /\ q[1] \in BOOLEAN
      BY <1>1, <1>2, <1>4, <2>1
    <3>2. <<p[1] \/ q[1]>> = <<TRUE>> \/ <<p[1] \/ q[1]>> = <<FALSE>>
      BY <3>1
    <3> QED BY <2>1, <3>2 DEF combine_selection, MaybePredicates
  <2>2. CASE ~(p # None /\ q # None)
    BY <2>2 DEF combine_selection
  <2> QED BY <2>1, <2>2
<1>6. (combine_selection(p, q) = <<TRUE>>) <=> (p = <<TRUE>> \/ q = <<TRUE>>)
  <2>1. CASE p = None \/ q = None
    BY <1>3, <2>1 DEF combine_selection
  <2>2. CASE p # None /\ q # None
    <3>1. combine_selection(p, q) = <<p[1] \/ q[1]>>
      BY <2>2 DEF combine_selection
    <3>2. (p = <<TRUE>> /\ p[1] = TRUE) \/ (p = <<FALSE>> /\ p[1] = FALSE)
      BY <1>1, <1>4, <2>2
    <3>3. (q = <<TRUE>> /\ q[1] = TRUE) \/ (q = <<FALSE>> /\ q[1] = FALSE)
      BY <1>2, <1>4, <2>2
    <3> QED BY <1>3, <3>1, <3>2, <3>3
  <2> QED BY <2>1, <2>2
<1> QED BY <1>5, <1>6

LEMMA MeaningOf ==
  ASSUME NEW S, NEW x \in S, NEW null \in MaybePredicates
  PROVE  /\ WithNull(x, null) \in Nullable(S)
         /\ WithNull(x, null).v = x
         /\ WithNull(x, null).null = null
         /\ Meaning(WithNull(x, null)) = IF null = <<TRUE>> THEN NULL ELSE <<x>>
         /\ Meaning(WithNull(x, null)) \in Meanings(S)
         /\ None \in MaybePredicates /\ None # <<TRUE>>
         /\ <<TRUE>> \in MaybePredicates /\ <<FALSE>> \in MaybePredicates
<1>1. None \in MaybePredicates /\ <<TRUE>> \in MaybePredicates /\ <<FALSE>> \in MaybePredicates
  BY DEF MaybePredicates
<1>2. None # <<TRUE>>
  BY DEF None
<1>3. WithNull(x, null) \in Nullable(S) /\ WithNull(x, null).v = x /\ WithNull(x, null).null = null
  BY DEF WithNull, Nullable
<1>4. Meaning(WithNull(x, null)) = IF null = <<TRUE>> THEN NULL ELSE <<x>>
  BY <1>3 DEF Meaning
<1>5. Meaning(WithNull(x, null)) \in Meanings(S)
  BY <1>4 DEF Meanings
<1> QED BY <1>1, <1>2, <1>3, <1>4, <1>5

LEMMA Field ==
  ASSUME NEW S, NEW x \in Nullable(S)
  PROVE  /\ x.v \in S /\ x.null \in MaybePredicates
         /\ x.null = <<TRUE>> => Meaning(x) = NULL
         /\ x.null # <<TRUE>> => Meaning(x) = <<x.v>> /\ Meaning(x) # NULL /\ Meaning(x)[1] = x.v
         /\ x.null = None \/ x.null = <<TRUE>> \/ x.null = <<FALSE>>
         /\ x.null # None => x.null[1] \in BOOLEAN /\ (x.null[1] <=> x.null = <<TRUE>>)
<1>1. x.v \in S /\ x.null \in MaybePredicates
  BY DEF Nullable
<1>2. x.null = <<TRUE>> => Meaning(x) = NULL
  BY DEF Meaning
<1>3. x.null # <<TRUE>> => Meaning(x) = <<x.v>> /\ Meaning(x) # NULL /\ Meaning(x)[1] = x.v
  BY DEF Meaning, NULL
<1>4. x.null = None \/ x.null = <<TRUE>> \/ x.null = <<FALSE>>
  BY <1>1 DEF MaybePredicates
<1>5. x.null # None => x.null[1] \in BOOLEAN /\ (x.null[1] <=> x.null = <<TRUE>>)
  <2>1. <<TRUE>>[1] = TRUE /\ <<FALSE>>[1] = FALSE /\ <<TRUE>> # <<FALSE>>
    OBVIOUS
  <2> QED BY <1>4, <2>1
<1> QED BY <1>1, <1>2, <1>3, <1>4, <1>5

LEMMA Strict ==
  ASSUME NEW S, NEW T, NEW l \in Nullable(S), NEW r \in Nullable(S), NEW z \in T
  PROVE  /\ WithNull(z, combine_selection(l.null, r.null)) \in Nullable(T)
         /\ Meaning(WithNull(z, combine_selection(l.null, r.null)))
              = IF NULL \in {Meaning(l), Meaning(r)} THEN NULL ELSE <<z>>
<1>1. l.null \in MaybePredicates /\ r.null \in MaybePredicates
  BY Field
<1>2. combine_selection(l.null, r.null) \in MaybePredicates
  BY <1>1, Masks
<1>3. (combine_selection(l.null, r.null) = <<TRUE>>) <=> NULL \in {Meaning(l), Meaning(r)}
  BY <1>1, Masks, Field
<1> PICK null \in MaybePredicates : null = combine_selection(l.null, r.null)
  BY <1>2
<1>4. /\ WithNull(z, null) \in Nullable(T)
      /\ Meaning(WithNull(z, null)) = IF null = <<TRUE>> THEN NULL ELSE <<z>>
  BY ZenonT(60), MeaningOf
<1> QED BY <1>3, <1>4

LEMMA StrictArith ==
  ASSUME NEW op \in ArithOps, NEW l \in Nullable(Values), NEW r \in Nullable(Values)
  PROVE  /\ arith_binary(op, l, r) \in Nullable(Values)
         /\ Meaning(arith_binary(op, l, r)) = SqlArith(op, Meaning(l), Meaning(r))
<1> DEFINE z == Arith[op][<<l.v, r.v>>]
<1>1. l.v \in Values /\ r.v \in Values
  BY Field
<1>2. z \in Values
  BY <1>1, ArithAssumption
<1>3. NULL \notin {Meaning(l), Meaning(r)} => z = Arith[op][<<Meaning(l)[1], Meaning(r)[1]>>]
  BY Field
<1> HIDE DEF z
<1>4. arith_binary(op, l, r) = WithNull(z, combine_selection(l.null, r.null))
  BY DEF arith_binary, z
<1>5. /\ arith_binary(op, l, r) \in Nullable(Values)
      /\ Meaning(arith_binary(op, l, r)) = IF NULL \in {Meaning(l), Meaning(r)} THEN NULL ELSE <<z>>
  BY <1>2, <1>4, Strict
<1>6. SqlArith(op, Meaning(l), Meaning(r)) = IF NULL \in {Meaning(l), Meaning(r)} THEN NULL ELSE <<z>>
  BY <1>3 DEF SqlArith
<1> QED BY <1>5, <1>6

LEMMA StrictCompare ==
  ASSUME NEW op \in CmpOps, NEW l \in Nullable(Values), NEW r \in Nullable(Values)
  PROVE  /\ cmp(op, l, r) \in Nullable(BOOLEAN)
         /\ Meaning(cmp(op, l, r)) = SqlCompare(op, Meaning(l), Meaning(r))
<1> DEFINE z == Compared[op][<<l.v, r.v>>]
<1>1. l.v \in Values /\ r.v \in Values
  BY Field
<1>2. z \in BOOLEAN
  BY <1>1, CompareAssumption
<1>3. NULL \notin {Meaning(l), Meaning(r)} => z = Compared[op][<<Meaning(l)[1], Meaning(r)[1]>>]
  BY Field
<1> HIDE DEF z
<1>4. cmp(op, l, r) = WithNull(z, combine_selection(l.null, r.null))
  BY DEF cmp, z
<1>5. /\ cmp(op, l, r) \in Nullable(BOOLEAN)
      /\ Meaning(cmp(op, l, r)) = IF NULL \in {Meaning(l), Meaning(r)} THEN NULL ELSE <<z>>
  BY <1>2, <1>4, Strict
<1>6. SqlCompare(op, Meaning(l), Meaning(r)) = IF NULL \in {Meaning(l), Meaning(r)} THEN NULL ELSE <<z>>
  BY <1>3 DEF SqlCompare
<1> QED BY <1>5, <1>6

LEMMA StrictLogic ==
  ASSUME NEW op \in LogicOps, NEW p \in Nullable(BOOLEAN), NEW q \in Nullable(BOOLEAN)
  PROVE  /\ predicate_binary(op, p, q) \in Nullable(BOOLEAN)
         /\ Meaning(predicate_binary(op, p, q)) = SqlLogic(op, Meaning(p), Meaning(q))
<1> DEFINE z == Connected(op, p.v, q.v)
<1>1. p.v \in BOOLEAN /\ q.v \in BOOLEAN
  BY Field
<1>2. z \in BOOLEAN
  BY <1>1 DEF Connected, LogicOps
<1>3. NULL \notin {Meaning(p), Meaning(q)} => z = Connected(op, Meaning(p)[1], Meaning(q)[1])
  BY Field
<1> HIDE DEF z
<1>4. predicate_binary(op, p, q) = WithNull(z, combine_selection(p.null, q.null))
  BY DEF predicate_binary, z
<1>5. /\ predicate_binary(op, p, q) \in Nullable(BOOLEAN)
      /\ Meaning(predicate_binary(op, p, q)) = IF NULL \in {Meaning(p), Meaning(q)} THEN NULL ELSE <<z>>
  BY <1>2, <1>4, Strict
<1>6. SqlLogic(op, Meaning(p), Meaning(q)) = IF NULL \in {Meaning(p), Meaning(q)} THEN NULL ELSE <<z>>
  BY <1>3 DEF SqlLogic
<1> QED BY <1>5, <1>6

LEMMA StrictUnary ==
  ASSUME NEW op \in UnaryOps, NEW x \in Nullable(Values)
  PROVE  /\ arith_unary(op, x) \in Nullable(Values)
         /\ Meaning(arith_unary(op, x)) = SqlUnary(op, Meaning(x))
<1>1. Unary[op][x.v] \in Values
  BY Field, UnaryAssumption
<1>2. x.null \in MaybePredicates /\ (x.null = <<TRUE>> <=> Meaning(x) = NULL)
  BY Field
<1>3. Meaning(x) # NULL => Meaning(x)[1] = x.v
  BY Field
<1>4. /\ arith_unary(op, x) \in Nullable(Values)
      /\ Meaning(arith_unary(op, x)) = IF x.null = <<TRUE>> THEN NULL ELSE <<Unary[op][x.v]>>
  <2> DEFINE z == Unary[op][x.v]
             null == x.null
  <2>1. z \in Values /\ null \in MaybePredicates /\ arith_unary(op, x) = WithNull(z, null)
    BY <1>1, <1>2 DEF arith_unary
  <2> HIDE DEF z, null
  <2>2. /\ WithNull(z, null) \in Nullable(Values)
        /\ Meaning(WithNull(z, null)) = IF null = <<TRUE>> THEN NULL ELSE <<z>>
    BY <2>1, MeaningOf
  <2> QED BY <2>1, <2>2 DEF z, null
<1> QED BY <1>2, <1>3, <1>4 DEF SqlUnary

LEMMA StrictNot ==
  ASSUME NEW p \in Nullable(BOOLEAN)
  PROVE  /\ not_(p) \in Nullable(BOOLEAN)
         /\ Meaning(not_(p)) = SqlNot(Meaning(p))
<1>1. p.v \in BOOLEAN /\ (~p.v) \in BOOLEAN
  BY Field
<1>2. p.null \in MaybePredicates /\ (p.null = <<TRUE>> <=> Meaning(p) = NULL)
  BY Field
<1>3. Meaning(p) # NULL => Meaning(p)[1] = p.v
  BY Field
<1>4. /\ not_(p) \in Nullable(BOOLEAN)
      /\ Meaning(not_(p)) = IF p.null = <<TRUE>> THEN NULL ELSE <<~p.v>>
  BY <1>1, <1>2, MeaningOf DEF not_
<1> QED BY <1>2, <1>3, <1>4 DEF SqlNot

LEMMA PlainValue ==
  ASSUME NEW S, NEW x \in S
  PROVE  Plain(x) \in Nullable(S) /\ Meaning(Plain(x)) = <<x>>
<1>1. None \in MaybePredicates /\ None # <<TRUE>>
  BY DEF MaybePredicates, None
<1> QED BY <1>1, MeaningOf DEF Plain

LEMMA Division ==
  ASSUME NEW op \in {"Div", "Mod"}, NEW l \in Nullable(Values), NEW r \in Nullable(Values),
         NEW nullOnInvalid \in BOOLEAN
  PROVE  /\ safe_int_div_mod(op, l, r, nullOnInvalid) \in Nullable(Values)
         /\ Meaning(safe_int_div_mod(op, l, r, nullOnInvalid))
              = SqlDivide(op, Meaning(l), Meaning(r), nullOnInvalid)
<1> DEFINE null == combine_selection(l.null, r.null)
           invalid == r.v = Zero \/ (l.v = Least /\ r.v = MinusOne)
           z == Arith[op][<<l.v, r.v>>]
<1>1. op \in ArithOps /\ l.v \in Values /\ r.v \in Values
  BY ArithAssumption, Field
<1>2. arith_binary(op, l, r) = WithNull(z, null)
  BY DEF arith_binary
<1>3. CASE ~nullOnInvalid
  BY <1>1, <1>2, <1>3, StrictArith DEF safe_int_div_mod, SqlDivide
<1>4. CASE nullOnInvalid
  <2> l.null \in MaybePredicates /\ r.null \in MaybePredicates
    BY Field
  <2>1. z \in Values /\ null \in MaybePredicates /\ invalid \in BOOLEAN
    BY <1>1, ArithAssumption, Masks
  <2>2. <<invalid>> \in MaybePredicates /\ (<<invalid>> = <<TRUE>> <=> invalid)
    <3>1. invalid = TRUE \/ invalid = FALSE
      BY <2>1
    <3> QED BY <3>1 DEF MaybePredicates
  <2>3. invalid <=> <<l.v, r.v>> \in Invalid
    BY <1>1, InvalidAssumption
  <2>4. safe_int_div_mod(op, l, r, nullOnInvalid) = WithNull(z, combine_selection(null, <<invalid>>))
    BY <1>4 DEF safe_int_div_mod
  <2>5. null = <<TRUE>> <=> NULL \in {Meaning(l), Meaning(r)}
    <3>1. /\ l.null = <<TRUE>> <=> Meaning(l) = NULL
          /\ r.null = <<TRUE>> <=> Meaning(r) = NULL
      BY Field
    <3> QED BY <3>1, Masks
  <2>6. NULL \notin {Meaning(l), Meaning(r)} =>
          Meaning(l) # NULL /\ Meaning(r) # NULL /\ Meaning(l)[1] = l.v /\ Meaning(r)[1] = r.v
    BY Field
  <2> HIDE DEF null, invalid, z
  <2>7. combine_selection(null, <<invalid>>) \in MaybePredicates
    BY <2>1, <2>2, Masks
  <2>8. combine_selection(null, <<invalid>>) = <<TRUE>> <=> (NULL \in {Meaning(l), Meaning(r)} \/ invalid)
    BY <2>1, <2>2, <2>5, Masks
  <2>9. Meaning(safe_int_div_mod(op, l, r, nullOnInvalid))
          = IF NULL \in {Meaning(l), Meaning(r)} \/ invalid THEN NULL ELSE <<z>>
    <3> DEFINE joined == combine_selection(null, <<invalid>>)
    <3>1. Meaning(WithNull(z, joined)) = IF joined = <<TRUE>> THEN NULL ELSE <<z>>
      BY <2>1, <2>7, MeaningOf
    <3> QED BY <2>4, <2>8, <3>1
  <2>10. SqlDivide(op, Meaning(l), Meaning(r), TRUE)
          = IF NULL \in {Meaning(l), Meaning(r)} \/ invalid THEN NULL ELSE <<z>>
    BY <2>3, <2>6 DEF SqlDivide, SqlArith, z
  <2>11. safe_int_div_mod(op, l, r, nullOnInvalid) \in Nullable(Values)
    <3> DEFINE joined == combine_selection(null, <<invalid>>)
    <3>1. joined \in MaybePredicates
      BY <2>7
    <3> HIDE DEF joined
    <3>2. WithNull(z, joined) \in Nullable(Values)
      BY <2>1, <3>1, MeaningOf
    <3> QED BY <2>4, <3>2 DEF joined
  <2> QED BY <1>4, <2>9, <2>10, <2>11
<1> QED BY <1>3, <1>4

(***************************************************************************)
(* Questions and conditionals look at the mask of each operand, which is    *)
(* missing, true or false.                                                  *)
(***************************************************************************)
LEMMA MaskBit ==
  /\ <<TRUE>>[1] = TRUE /\ <<FALSE>>[1] = FALSE
  /\ <<TRUE>> # <<FALSE>> /\ None # <<TRUE>> /\ None # <<FALSE>> /\ NULL # <<TRUE>> /\ NULL # <<FALSE>>
  /\ {None, <<TRUE>>, <<FALSE>>} \subseteq MaybePredicates
  /\ \A b \in BOOLEAN : <<b>> \in MaybePredicates /\ (<<b>> = <<TRUE>> <=> b) /\ <<b>>[1] = b /\ <<b>> # None
<1>1. /\ <<TRUE>>[1] = TRUE /\ <<FALSE>>[1] = FALSE
      /\ <<TRUE>> # <<FALSE>> /\ None # <<TRUE>> /\ None # <<FALSE>> /\ NULL # <<TRUE>> /\ NULL # <<FALSE>>
      /\ {None, <<TRUE>>, <<FALSE>>} \subseteq MaybePredicates
  BY DEF None, NULL, MaybePredicates
<1>2. ASSUME NEW b \in BOOLEAN
      PROVE  <<b>> \in MaybePredicates /\ (<<b>> = <<TRUE>> <=> b) /\ <<b>>[1] = b /\ <<b>> # None
  <2>1. b = TRUE \/ b = FALSE
    OBVIOUS
  <2> QED BY <1>1, <2>1
<1> QED BY <1>1, <1>2

LEMMA Nulls ==
  ASSUME NEW S, NEW x \in Nullable(S)
  PROVE  /\ is_null(x) = (Meaning(x) = NULL)
         /\ is_not_null(x) = (Meaning(x) # NULL)
<1>1. /\ x.null = <<TRUE>> <=> Meaning(x) = NULL
      /\ x.null # None => x.null[1] \in BOOLEAN /\ (x.null[1] <=> x.null = <<TRUE>>)
  BY Field
<1> QED BY <1>1, MaskBit DEF is_null, is_not_null

LEMMA Truths ==
  ASSUME NEW p \in Nullable(BOOLEAN)
  PROVE  /\ is_true(p) = (Meaning(p) = <<TRUE>>)
         /\ is_not_true(p) = (Meaning(p) # <<TRUE>>)
         /\ is_false(p) = (Meaning(p) = <<FALSE>>)
         /\ is_not_false(p) = (Meaning(p) # <<FALSE>>)
<1>1. p.v = TRUE \/ p.v = FALSE
  BY Field
<1>2. p.null = None \/ p.null = <<TRUE>> \/ p.null = <<FALSE>>
  BY Field
<1>3. /\ p.null = <<TRUE>> => Meaning(p) = NULL
      /\ p.null # <<TRUE>> => Meaning(p) = <<p.v>>
  BY Field
<1>4. <<~p.v>> # None /\ <<p.v>> # None /\ <<~p.v>>[1] = ~p.v /\ <<p.v>>[1] = p.v
  BY <1>1, MaskBit
<1>5. is_true(p) = (Meaning(p) = <<TRUE>>)
  BY <1>1, <1>2, <1>3, MaskBit DEF is_true
<1>6. ASSUME NEW q \in {<<TRUE>>, <<FALSE>>}
      PROVE  /\ combine_selection(p.null, q)[1] = (p.null = <<TRUE>> \/ q = <<TRUE>>)
             /\ combine_selection(q, p.null)[1] = (p.null = <<TRUE>> \/ q = <<TRUE>>)
  BY <1>2, MaskBit DEF combine_selection
<1>7. is_not_true(p) = (p.null = <<TRUE>> \/ <<~p.v>> = <<TRUE>>)
  BY <1>1, <1>6 DEF is_not_true
<1>8. is_not_false(p) = (p.null = <<TRUE>> \/ <<p.v>> = <<TRUE>>)
  BY <1>1, <1>6 DEF is_not_false
<1>9. is_false(p) = ~(p.null = <<TRUE>> \/ <<p.v>> = <<TRUE>>)
  BY <1>1, <1>6 DEF is_false
<1> QED BY <1>1, <1>3, <1>5, <1>7, <1>8, <1>9, MaskBit

LEMMA Distinct ==
  ASSUME NEW l \in Nullable(Values), NEW r \in Nullable(Values)
  PROVE  /\ is_distinct(l, r) = (Meaning(l) # Meaning(r))
         /\ is_not_distinct(l, r) = (Meaning(l) = Meaning(r))
<1>1. l.null = None \/ l.null = <<TRUE>> \/ l.null = <<FALSE>>
  BY Field
<1>2. r.null = None \/ r.null = <<TRUE>> \/ r.null = <<FALSE>>
  BY Field
<1>3. /\ l.null = <<TRUE>> => Meaning(l) = NULL
      /\ l.null # <<TRUE>> => Meaning(l) = <<l.v>> /\ Meaning(l) # NULL
      /\ r.null = <<TRUE>> => Meaning(r) = NULL
      /\ r.null # <<TRUE>> => Meaning(r) = <<r.v>> /\ Meaning(r) # NULL
  <2>1. /\ l.null = <<TRUE>> => Meaning(l) = NULL
        /\ l.null # <<TRUE>> => Meaning(l) = <<l.v>> /\ Meaning(l) # NULL
    BY DEF Meaning, NULL
  <2>2. /\ r.null = <<TRUE>> => Meaning(r) = NULL
        /\ r.null # <<TRUE>> => Meaning(r) = <<r.v>> /\ Meaning(r) # NULL
    BY DEF Meaning, NULL
  <2> QED BY <2>1, <2>2
<1>4. <<l.v>> = <<r.v>> <=> l.v = r.v
  OBVIOUS
<1>5. Meaning(l) = Meaning(r) <=>
        \/ l.null = <<TRUE>> /\ r.null = <<TRUE>>
        \/ l.null # <<TRUE>> /\ r.null # <<TRUE>> /\ l.v = r.v
  BY <1>3, <1>4
<1>6. is_distinct(l, r) <=>
        ~(\/ l.null = <<TRUE>> /\ r.null = <<TRUE>>
          \/ l.null # <<TRUE>> /\ r.null # <<TRUE>> /\ l.v = r.v)
  BY <1>1, <1>2, MaskBit DEF is_distinct
<1>7. is_not_distinct(l, r) <=>
        \/ l.null = <<TRUE>> /\ r.null = <<TRUE>>
        \/ l.null # <<TRUE>> /\ r.null # <<TRUE>> /\ l.v = r.v
  BY <1>1, <1>2, MaskBit DEF is_not_distinct
<1>8. is_distinct(l, r) \in BOOLEAN /\ is_not_distinct(l, r) \in BOOLEAN
  BY <1>1, <1>2, MaskBit DEF is_distinct, is_not_distinct
<1> QED BY <1>5, <1>6, <1>7, <1>8

LEMMA Split ==
  ASSUME NEW S, NEW x \in Nullable(S)
  PROVE  /\ x.v \in S
         /\ x.null \in MaybePredicates
         /\ x.null = None \/ x.null = <<TRUE>> \/ x.null = <<FALSE>>
         /\ Meaning(x) = IF x.null = <<TRUE>> THEN NULL ELSE <<x.v>>
BY Field

LEMMA TrueUnlessNull ==
  ASSUME NEW x \in Nullable(Values)
  PROVE  /\ true_unless_null(x) \in Nullable(BOOLEAN)
         /\ Meaning(true_unless_null(x)) = IF Meaning(x) = NULL THEN NULL ELSE <<TRUE>>
<1> DEFINE null == x.null
<1>1. null = None \/ null = <<TRUE>> \/ null = <<FALSE>>
  BY Split
<1>2. null = <<TRUE>> <=> Meaning(x) = NULL
  BY Field
<1>3. true_unless_null(x) = IF null # None THEN WithNull(~null[1], null) ELSE WithNull(TRUE, None)
  BY DEF true_unless_null, Plain
<1> HIDE DEF null
<1>4. ASSUME NEW b \in BOOLEAN, NEW p \in {None, <<TRUE>>, <<FALSE>>}
      PROVE  /\ WithNull(b, p) \in Nullable(BOOLEAN)
             /\ Meaning(WithNull(b, p)) = IF p = <<TRUE>> THEN NULL ELSE <<b>>
  BY ZenonT(60), MeaningOf, MaskBit
<1>5. CASE null = None
  BY <1>2, <1>3, <1>4, <1>5, MaskBit
<1>6. CASE null = <<TRUE>>
  BY <1>2, <1>3, <1>4, <1>6, MaskBit
<1>7. CASE null = <<FALSE>>
  <2>1. true_unless_null(x) = WithNull(TRUE, <<FALSE>>)
    BY <1>3, <1>7, MaskBit
  <2> QED BY <1>2, <1>4, <1>7, <2>1, MaskBit
<1> QED BY <1>1, <1>5, <1>6, <1>7

LEMMA NullIf ==
  ASSUME NEW l \in Nullable(Values), NEW r \in Nullable(Values)
  PROVE  /\ nullif(l, r) \in Nullable(Values)
         /\ Meaning(nullif(l, r)) = IF Meaning(l) # NULL /\ Meaning(l) = Meaning(r) THEN NULL ELSE Meaning(l)
<1> DEFINE equal == is_true(cmp("Equal", l, r))
           v == l.v
           null == l.null
           joined == combine_selection(null, <<equal>>)
<1>1. v \in Values /\ null \in MaybePredicates /\ Meaning(l) = IF null = <<TRUE>> THEN NULL ELSE <<v>>
  BY Split
<1>2. equal = (Meaning(cmp("Equal", l, r)) = <<TRUE>>)
  BY StrictCompare, CompareAssumption, Truths
<1>3. Meaning(cmp("Equal", l, r)) = SqlCompare("Equal", Meaning(l), Meaning(r))
  BY StrictCompare, CompareAssumption
<1>4. equal = (Meaning(l) # NULL /\ Meaning(l) = Meaning(r))
  <2>1. CASE NULL \in {Meaning(l), Meaning(r)}
    BY <1>2, <1>3, <2>1, MaskBit DEF SqlCompare
  <2>2. CASE NULL \notin {Meaning(l), Meaning(r)}
    <3>1. Meaning(l) = <<l.v>> /\ l.v \in Values /\ Meaning(l)[1] = l.v
      BY <2>2, Field
    <3>2. Meaning(r) = <<r.v>> /\ r.v \in Values /\ Meaning(r)[1] = r.v
      BY <2>2, Field
    <3>3. SqlCompare("Equal", Meaning(l), Meaning(r)) = <<l.v = r.v>>
      BY <2>2, <3>1, <3>2, CompareAssumption DEF SqlCompare
    <3>4. <<l.v = r.v>> = <<TRUE>> <=> l.v = r.v
      BY MaskBit
    <3>5. Meaning(l) = Meaning(r) <=> l.v = r.v
      BY <3>1, <3>2
    <3> QED BY <1>2, <1>3, <2>2, <3>3, <3>4, <3>5
  <2> QED BY <2>1, <2>2
<1>5. nullif(l, r) = WithNull(v, joined)
  BY DEF nullif
<1> HIDE DEF equal, v, null
<1>6. equal \in BOOLEAN
  BY <1>4
<1>7. <<equal>> \in MaybePredicates /\ (<<equal>> = <<TRUE>> <=> equal)
  BY <1>6, MaskBit
<1>8. joined \in MaybePredicates /\ (joined = <<TRUE>> <=> null = <<TRUE>> \/ equal)
  BY <1>1, <1>7, Masks
<1> HIDE DEF joined
<1>9. /\ WithNull(v, joined) \in Nullable(Values)
      /\ Meaning(WithNull(v, joined)) = IF joined = <<TRUE>> THEN NULL ELSE <<v>>
  BY <1>1, <1>8, MeaningOf
<1> QED BY <1>1, <1>4, <1>5, <1>8, <1>9

LEMMA IfElseNull ==
  ASSUME NEW p \in Nullable(BOOLEAN), NEW x \in Nullable(Values)
  PROVE  /\ if_else_null(p, x) \in Nullable(Values)
         /\ Meaning(if_else_null(p, x)) = SqlIf(Meaning(p), Meaning(x), NULL)
<1> DEFINE inner == combine_selection(p.null, x.null)
           joined == combine_selection(<<~p.v>>, inner)
           v == x.v
<1>1. p.v \in BOOLEAN /\ p.null \in MaybePredicates /\ Meaning(p) = IF p.null = <<TRUE>> THEN NULL ELSE <<p.v>>
  BY Split
<1>2. v \in Values /\ x.null \in MaybePredicates /\ Meaning(x) = IF x.null = <<TRUE>> THEN NULL ELSE <<v>>
  BY Split
<1>3. inner \in MaybePredicates /\ (inner = <<TRUE>> <=> p.null = <<TRUE>> \/ x.null = <<TRUE>>)
  BY <1>1, <1>2, Masks
<1>4. <<~p.v>> \in MaybePredicates /\ (<<~p.v>> = <<TRUE>> <=> ~p.v) /\ (<<p.v>> = <<TRUE>> <=> p.v)
  BY <1>1, MaskBit
<1> HIDE DEF inner
<1>5. joined \in MaybePredicates /\ (joined = <<TRUE>> <=> ~p.v \/ inner = <<TRUE>>)
  BY <1>3, <1>4, Masks
<1>6. if_else_null(p, x) = WithNull(v, joined)
  BY DEF if_else_null, inner
<1> HIDE DEF joined, v
<1>7. /\ WithNull(v, joined) \in Nullable(Values)
      /\ Meaning(WithNull(v, joined)) = IF joined = <<TRUE>> THEN NULL ELSE <<v>>
  BY <1>2, <1>5, MeaningOf
<1>8. Meaning(p) = <<TRUE>> <=> (p.null # <<TRUE>> /\ p.v)
  BY <1>1, <1>4, MaskBit
<1> QED BY <1>2, <1>3, <1>5, <1>6, <1>7, <1>8 DEF SqlIf

LEMMA IfElse ==
  ASSUME NEW p \in Nullable(BOOLEAN), NEW x \in Nullable(Values), NEW y \in Nullable(Values)
  PROVE  /\ if_else(p, x, y) \in Nullable(Values)
         /\ Meaning(if_else(p, x, y)) = SqlIf(Meaning(p), Meaning(x), Meaning(y))
<1> DEFINE first == is_true(p)
           v == IF first THEN x.v ELSE y.v
           xn == x.null
           yn == y.null
           null == CASE xn # None /\ yn # None -> <<(first /\ xn[1]) \/ (~first /\ yn[1])>>
                     [] xn # None /\ yn = None -> <<first /\ xn[1]>>
                     [] xn = None /\ yn # None -> <<~first /\ yn[1]>>
                     [] OTHER -> None
<1>1. first = (Meaning(p) = <<TRUE>>)
  BY Truths
<1>2. /\ x.v \in Values /\ Meaning(x) = IF xn = <<TRUE>> THEN NULL ELSE <<x.v>>
      /\ xn = None \/ xn = <<TRUE>> \/ xn = <<FALSE>>
  BY Split
<1>3. /\ y.v \in Values /\ Meaning(y) = IF yn = <<TRUE>> THEN NULL ELSE <<y.v>>
      /\ yn = None \/ yn = <<TRUE>> \/ yn = <<FALSE>>
  BY Split
<1>4. if_else(p, x, y) = WithNull(v, null)
  BY DEF if_else
<1>5. v \in Values
  BY <1>2, <1>3
<1> HIDE DEF first, xn, yn
<1>6. first \in BOOLEAN
  BY <1>1
<1>7. null \in MaybePredicates /\ (null = <<TRUE>> <=> IF first THEN xn = <<TRUE>> ELSE yn = <<TRUE>>)
  <2>1. CASE first
    BY <1>2, <1>3, <2>1, MaskBit
  <2>2. CASE ~first
    BY <1>2, <1>3, <2>2, MaskBit
  <2> QED BY <2>1, <2>2
<1>8. v = IF first THEN x.v ELSE y.v
  OBVIOUS
<1> HIDE DEF v, null
<1>9. /\ WithNull(v, null) \in Nullable(Values)
      /\ Meaning(WithNull(v, null)) = IF null = <<TRUE>> THEN NULL ELSE <<v>>
  BY ZenonT(60), <1>5, <1>7, MeaningOf
<1> QED BY <1>1, <1>2, <1>3, <1>4, <1>7, <1>8, <1>9 DEF SqlIf

\* One round of coalesce.
LEMMA CoalesceRound ==
  ASSUME NEW x \in Nullable(Values), NEW y \in Nullable(Values)
  PROVE  /\ Coalesced(x, y) \in Nullable(Values)
         /\ Meaning(Coalesced(x, y)) = IF Meaning(x) # NULL THEN Meaning(x) ELSE Meaning(y)
<1> DEFINE xn == x.null
           yn == y.null
<1>1. /\ x.v \in Values /\ Meaning(x) = (IF xn = <<TRUE>> THEN NULL ELSE <<x.v>>)
      /\ xn = None \/ xn = <<TRUE>> \/ xn = <<FALSE>>
  BY Split
<1>2. /\ y.v \in Values /\ Meaning(y) = (IF yn = <<TRUE>> THEN NULL ELSE <<y.v>>)
      /\ yn = None \/ yn = <<TRUE>> \/ yn = <<FALSE>>
  BY Split
<1>3. /\ xn # <<TRUE>> <=> Meaning(x) # NULL
      /\ yn # <<TRUE>> <=> Meaning(y) # NULL
  BY Field
<1>4. ASSUME NEW v \in Values, NEW n \in {None, <<TRUE>>, <<FALSE>>}
      PROVE  /\ WithNull(v, n) \in Nullable(Values)
             /\ Meaning(WithNull(v, n)) = IF n = <<TRUE>> THEN NULL ELSE <<v>>
  BY ZenonT(60), MeaningOf, MaskBit
<1>5. Coalesced(x, y) =
        CASE xn = None -> x
          [] xn # None /\ yn = None -> WithNull(IF xn[1] THEN y.v ELSE x.v, None)
          [] OTHER -> WithNull(IF xn[1] THEN y.v ELSE x.v, <<xn[1] /\ yn[1]>>)
  BY DEF Coalesced, Plain
<1> HIDE DEF xn, yn
<1>6. CASE xn = None
  BY <1>3, <1>5, <1>6, MaskBit
<1>7. CASE xn = <<TRUE>> /\ yn = None
  <2>1. Coalesced(x, y) = WithNull(y.v, None)
    BY <1>5, <1>7, MaskBit
  <2> QED BY <1>2, <1>3, <1>4, <1>7, <2>1, MaskBit
<1>8. CASE xn = <<FALSE>> /\ yn = None
  <2>1. Coalesced(x, y) = WithNull(x.v, None)
    BY <1>5, <1>8, MaskBit
  <2> QED BY <1>1, <1>3, <1>4, <1>8, <2>1, MaskBit
<1>9. CASE xn = <<TRUE>> /\ yn # None
  <2>1. Coalesced(x, y) = WithNull(y.v, yn)
    BY <1>2, <1>5, <1>9, MaskBit
  <2> QED BY <1>2, <1>3, <1>4, <1>9, <2>1, MaskBit
<1>10. CASE xn = <<FALSE>> /\ yn # None
  <2>1. Coalesced(x, y) = WithNull(x.v, <<FALSE>>)
    BY <1>2, <1>5, <1>10, MaskBit
  <2> QED BY <1>1, <1>3, <1>4, <1>10, <2>1, MaskBit
<1> QED BY <1>1, <1>6, <1>7, <1>8, <1>9, <1>10

(***************************************************************************)
(* Steps.                                                                   *)
(***************************************************************************)
(* Lists: coalesce, from the left.                                          *)
(***************************************************************************)
LEMMA FirstOf ==
  ASSUME NEW S \in SUBSET Nat, NEW j \in S
  PROVE  SqlFirst(S) \in S /\ SqlFirst(S) <= j
<1>1. \E k \in S : \A i \in S : k <= i
  BY LeastNatural
<1>2. SqlFirst(S) \in S /\ \A i \in S : SqlFirst(S) <= i
  BY Zenon, <1>1 DEF SqlFirst
<1> QED BY <1>2

LEMMA CoalesceSpan ==
  ASSUME NEW n \in Nat \ {0}, NEW args \in [1 .. n -> Nullable(Values)]
  PROVE  /\ coalesce(args) \in Nullable(Values)
         /\ Meaning(coalesce(args)) = SqlCoalesce([k \in 1 .. n |-> Meaning(args[k])])
<1> DEFINE N == Nullable(Values)
           step == [k \in 1 .. n - 1 |-> [x \in N |-> Coalesced(x, args[k + 1])]]
           Follows(f) == \A k \in 1 .. n : f[k] = IF k = 1 THEN args[1] ELSE Coalesced(f[k - 1], args[k])
<1>1. ASSUME NEW k \in 1 .. n, NEW x \in N
      PROVE  Coalesced(x, args[k]) \in N
  BY CoalesceRound
<1>2. step \in [1 .. n - 1 -> [N -> N]]
  BY <1>1
<1>3. PICK g \in [0 .. n - 1 -> N] :
        g[0] = args[1] /\ \A k \in 1 .. n - 1 : g[k] = step[k][g[k - 1]]
  <2>1. args[1] \in N /\ n - 1 \in Nat
    OBVIOUS
  <2> HIDE DEF step, N
  <2>2. \E f : IsIteration(f, N, args[1], n - 1, step)
    BY Zenon, <1>2, <2>1, Iteration
  <2> QED BY <2>2 DEF IsIteration
<1> DEFINE upTo[k \in 1 .. n] == IF k = 1 THEN args[1] ELSE Coalesced(upTo[k - 1], args[k])
           F == [k \in 1 .. n |-> g[k - 1]]
<1>4. F = [k \in 1 .. n |-> IF k = 1 THEN args[1] ELSE Coalesced(F[k - 1], args[k])]
  <2>1. ASSUME NEW k \in 1 .. n, k # 1
        PROVE  F[k] = Coalesced(F[k - 1], args[k])
    <3>1. k - 1 \in 1 .. n - 1 /\ k - 1 - 1 \in 0 .. n - 1 /\ F[k] = g[k - 1] /\ F[k - 1] = g[k - 1 - 1] /\ k - 1 + 1 = k
      BY <2>1
    <3>2. g[k - 1] = step[k - 1][g[k - 1 - 1]]
      BY <1>3, <3>1
    <3>3. g[k - 1 - 1] \in N
      BY <3>1
    <3>4. step[k - 1][g[k - 1 - 1]] = Coalesced(g[k - 1 - 1], args[k - 1 + 1])
      BY <3>1, <3>3
    <3> QED BY <3>1, <3>2, <3>4
  <2>2. F[1] = args[1]
    <3>1. 1 \in 1 .. n /\ 1 - 1 = 0
      OBVIOUS
    <3> QED BY <1>3, <3>1
  <2> HIDE DEF F
  <2> QED BY <2>1, <2>2 DEF F
<1>5. upTo = [k \in 1 .. n |-> IF k = 1 THEN args[1] ELSE Coalesced(upTo[k - 1], args[k])]
  <2> HIDE DEF F
  <2> QED BY Zenon, <1>4
<1>6. coalesce(args) = upTo[n]
  <2>1. Len(args) = n
    OBVIOUS
  <2> QED BY <2>1 DEF coalesce
<1>7. ASSUME NEW k \in 1 .. n
      PROVE  upTo[k] = IF k = 1 THEN args[1] ELSE Coalesced(upTo[k - 1], args[k])
  <2> HIDE DEF upTo
  <2> QED BY <1>5
<1> HIDE DEF upTo
<1> DEFINE M(k) == Meaning(args[k])
           Means(k) == /\ upTo[k] \in N
                       /\ Meaning(upTo[k]) = NULL => \A j \in 1 .. k : M(j) = NULL
                       /\ Meaning(upTo[k]) # NULL =>
                            \E j \in 1 .. k : Meaning(upTo[k]) = M(j) /\ \A i \in 1 .. j - 1 : M(i) = NULL
           T == {k \in Nat : k \in 1 .. n => Means(k)}
<1>8. ASSUME NEW k \in Nat, k \in T
      PROVE  k + 1 \in T
  <2> SUFFICES ASSUME k + 1 \in 1 .. n PROVE Means(k + 1)
    OBVIOUS
  <2>1. CASE k = 0
    <3>1. upTo[1] = args[1] /\ args[1] \in N
      BY <1>7
    <3> QED BY <2>1, <3>1
  <2>2. CASE k # 0
    <3>1. k \in 1 .. n /\ Means(k)
      BY <1>8, <2>2
    <3>2. upTo[k + 1] = Coalesced(upTo[k], args[k + 1]) /\ args[k + 1] \in N
      BY <1>7, <2>2
    <3>3. /\ upTo[k + 1] \in N
          /\ Meaning(upTo[k + 1]) = IF Meaning(upTo[k]) # NULL THEN Meaning(upTo[k]) ELSE M(k + 1)
      BY <3>1, <3>2, CoalesceRound
    <3> HIDE DEF M, N
    <3>4. CASE Meaning(upTo[k]) # NULL
      BY <3>1, <3>3, <3>4
    <3>5. CASE Meaning(upTo[k]) = NULL
      BY <3>1, <3>3, <3>5
    <3> QED BY <3>4, <3>5
  <2> QED BY <2>1, <2>2
<1>9. Means(n)
  <2>1. 0 \in T
    OBVIOUS
  <2> HIDE DEF T
  <2>2. n \in T
    BY <1>8, <2>1, NaturalInduction
  <2> QED BY <2>2 DEF T
<1> DEFINE ms == [k \in 1 .. n |-> M(k)]
           known == {k \in DOMAIN ms : ms[k] # NULL}
<1>10. SqlCoalesce(ms) = IF known = {} THEN NULL ELSE ms[SqlFirst(known)]
  BY DEF SqlCoalesce
<1>11. known = {k \in 1 .. n : M(k) # NULL}
  OBVIOUS
<1>12. Meaning(upTo[n]) = SqlCoalesce(ms)
  <2> HIDE DEF M, N
  <2>1. CASE Meaning(upTo[n]) = NULL
    BY <1>9, <1>10, <2>1
  <2>2. CASE Meaning(upTo[n]) # NULL
    <3>1. PICK j \in 1 .. n : Meaning(upTo[n]) = M(j) /\ \A i \in 1 .. j - 1 : M(i) = NULL
      BY <1>9, <2>2
    <3>2. j \in known /\ known \subseteq Nat
      BY <2>2, <3>1, <1>11
    <3>3. SqlFirst(known) \in known /\ SqlFirst(known) <= j
      <4> HIDE DEF known
      <4> QED BY <3>2, FirstOf
    <3>4. SqlFirst(known) = j
      <4> DEFINE f == SqlFirst(known)
      <4>1. f \in 1 .. n /\ M(f) # NULL /\ f <= j
        BY <3>3
      <4> HIDE DEF f
      <4> QED BY <3>1, <4>1 DEF f
    <3> QED BY <1>10, <3>1, <3>2, <3>4
  <2> QED BY <2>1, <2>2
<1> QED BY <1>6, <1>9, <1>12

(***************************************************************************)
(* Lists that are halved: the largest and smallest of values, and the two   *)
(* connectives.                                                             *)
(***************************************************************************)
Applied(op, x, y) == Arith[op][<<x, y>>]

Linear(op) ==
  \A x, y, z \in Values :
    /\ Applied(op, x, y) \in {x, y}
    /\ Applied(op, x, y) = Applied(op, y, x)
    /\ Applied(op, Applied(op, x, y), z) = Applied(op, x, Applied(op, y, z))

LEMMA ExtremesAreLinear ==
  ASSUME NEW op \in {"Max", "Min"}
  PROVE  Linear(op)
BY Zenon, ExtremeAssumption DEF Linear, Applied

\* m is NULL if one of the ms is, and otherwise one that no other changes.
IsExtreme(op, ms, i, j, m) ==
  \/ m = NULL /\ \E k \in i .. j : ms[k] = NULL
  \/ /\ \E k \in i .. j : m = ms[k]
     /\ \A k \in i .. j : ms[k] # NULL /\ Applied(op, m[1], ms[k][1]) = m[1]

LEMMA ExtremeOfTwo ==
  ASSUME NEW op, Linear(op), NEW a \in Values, NEW b \in Values
  PROVE  /\ Applied(op, a, a) = a
         /\ Applied(op, a, b) = a \/ Applied(op, a, b) = b
         /\ \A c \in Values : Applied(op, a, c) = a => Applied(op, Applied(op, a, b), c) = Applied(op, a, b)
         /\ \A c \in Values : Applied(op, b, c) = b => Applied(op, Applied(op, a, b), c) = Applied(op, a, b)
<1>1. \A u, v, w \in Values :
        /\ Applied(op, u, v) \in {u, v}
        /\ Applied(op, u, v) = Applied(op, v, u)
        /\ Applied(op, Applied(op, u, v), w) = Applied(op, u, Applied(op, v, w))
  BY DEF Linear
<1>2. /\ Applied(op, a, a) = a /\ Applied(op, b, b) = b /\ Applied(op, a, b) = Applied(op, b, a)
      /\ Applied(op, a, b) = a \/ Applied(op, a, b) = b
  BY <1>1
<1>3. ASSUME NEW c \in Values, Applied(op, a, c) = a
      PROVE  Applied(op, Applied(op, a, b), c) = Applied(op, a, b)
  BY <1>1, <1>2, <1>3
<1>4. ASSUME NEW c \in Values, Applied(op, b, c) = b
      PROVE  Applied(op, Applied(op, a, b), c) = Applied(op, a, b)
  BY <1>1, <1>2, <1>4
<1> QED BY <1>2, <1>3, <1>4

LEMMA SomeValue ==
  ASSUME NEW S, NEW m \in Meanings(S), m # NULL
  PROVE  m = <<m[1]>> /\ m[1] \in S
<1>1. PICK x \in S : m = <<x>>
  BY DEF Meanings
<1> QED BY <1>1

LEMMA ExtremesJoin ==
  ASSUME NEW op, Linear(op), NEW n \in Nat, NEW ms \in [1 .. n -> Meanings(Values)],
         NEW i \in 1 .. n, NEW j \in 1 .. n, NEW m \in i .. j - 1, NEW a, NEW b,
         IsExtreme(op, ms, i, m, a), IsExtreme(op, ms, m + 1, j, b)
  PROVE  IsExtreme(op, ms, i, j, SqlArith(op, a, b))
<1>1. i .. j = (i .. m) \union (m + 1 .. j) /\ i .. j \subseteq 1 .. n
  OBVIOUS
<1>2. CASE a = NULL \/ b = NULL
  BY <1>1, <1>2 DEF IsExtreme, SqlArith
<1>3. CASE a # NULL /\ b # NULL
  <2>1. /\ \E k \in i .. m : a = ms[k]
        /\ \A k \in i .. m : ms[k] # NULL /\ Applied(op, a[1], ms[k][1]) = a[1]
        /\ \E k \in m + 1 .. j : b = ms[k]
        /\ \A k \in m + 1 .. j : ms[k] # NULL /\ Applied(op, b[1], ms[k][1]) = b[1]
    BY <1>3 DEF IsExtreme
  <2>2. ASSUME NEW k \in i .. j
        PROVE  ms[k] # NULL /\ ms[k] = <<ms[k][1]>> /\ ms[k][1] \in Values
    <3>1. ms[k] # NULL /\ ms[k] \in Meanings(Values)
      BY <1>1, <2>1
    <3> QED BY <3>1, SomeValue
  <2>3. a = <<a[1]>> /\ a[1] \in Values /\ b = <<b[1]>> /\ b[1] \in Values
    BY <1>1, <2>1, <2>2
  <2>4. PICK u \in Values, v \in Values : a = <<u>> /\ b = <<v>> /\ a[1] = u /\ b[1] = v
    BY <2>3
  <2>5. PICK x : x = Applied(op, u, v)
    OBVIOUS
  <2>6. SqlArith(op, a, b) = <<x>> /\ <<x>>[1] = x /\ <<x>> # NULL
    BY <1>3, <2>4, <2>5 DEF SqlArith, Applied, NULL
  <2>7. /\ x = u \/ x = v
        /\ \A c \in Values : Applied(op, u, c) = u => Applied(op, x, c) = x
        /\ \A c \in Values : Applied(op, v, c) = v => Applied(op, x, c) = x
    BY <2>5, ExtremeOfTwo
  <2>8. \E k \in i .. j : <<x>> = ms[k]
    BY <1>1, <2>1, <2>4, <2>7
  <2>9. ASSUME NEW k \in i .. j
        PROVE  Applied(op, x, ms[k][1]) = x
    <3>1. Applied(op, u, ms[k][1]) = u \/ Applied(op, v, ms[k][1]) = v
      BY <1>1, <2>1, <2>4
    <3> QED BY <2>2, <2>7, <3>1
  <2> QED BY <2>2, <2>6, <2>8, <2>9 DEF IsExtreme
<1> QED BY <1>2, <1>3

LEMMA ExtremeIsSql ==
  ASSUME NEW op, Linear(op), NEW n \in Nat \ {0}, NEW ms \in [1 .. n -> Meanings(Values)], NEW m,
         IsExtreme(op, ms, 1, n, m)
  PROVE  m = SqlExtreme(op, ms)
<1>1. CASE \E k \in 1 .. n : ms[k] = NULL
  BY <1>1 DEF IsExtreme, SqlExtreme
<1>2. CASE \A k \in 1 .. n : ms[k] # NULL
  <2>1. ASSUME NEW k \in 1 .. n
        PROVE  ms[k] = <<ms[k][1]>> /\ ms[k][1] \in Values
    BY <1>2, SomeValue
  <2> DEFINE S == {ms[k] : k \in 1 .. n}
             Extremal(x) == \A k \in 1 .. n : Arith[op][<<x[1], ms[k][1]>>] = x[1]
             c == CHOOSE x \in S : Extremal(x)
  <2>2. m \in S /\ Extremal(m)
    BY <1>2 DEF IsExtreme, Applied
  <2>3. c \in S /\ Extremal(c)
    <3> HIDE DEF S, Extremal
    <3> QED BY Zenon, <2>2
  <2>4. c = m
    <3>1. PICK k \in 1 .. n : c = ms[k]
      BY <2>3
    <3>2. PICK l \in 1 .. n : m = ms[l]
      BY <2>2
    <3> HIDE DEF c
    <3>3. Applied(op, c[1], m[1]) = c[1] /\ Applied(op, m[1], c[1]) = m[1]
      BY <2>2, <2>3, <3>1, <3>2 DEF Applied
    <3>4. c[1] \in Values /\ m[1] \in Values
      BY <2>1, <3>1, <3>2
    <3>5. c[1] = m[1]
      BY <3>3, <3>4 DEF Linear
    <3> QED BY <2>1, <3>1, <3>2, <3>5
  <2>5. SqlExtreme(op, ms) = c
    BY <1>2 DEF SqlExtreme
  <2> QED BY <2>4, <2>5
<1> QED BY <1>1, <1>2

\* What FoldedArith computes, one halving at a time.
LEMMA FoldedArithSteps ==
  ASSUME NEW op \in ArithOps, NEW n \in Nat \ {0}, NEW args \in [1 .. n -> Nullable(Values)]
  PROVE  \E f : /\ FoldedArith(op, args) = f[<<1, n>>]
                /\ \A i, j \in 1 .. n :
                     f[<<i, j>>] = IF i >= j THEN args[i]
                                   ELSE arith_binary(op, f[<<i, i + HalfOf(i, j) - 1>>], f[<<i + HalfOf(i, j), j>>])
<1> DEFINE N == Nullable(Values)
           D == (1 .. n) \X (1 .. n)
           join == [p \in N \X N |-> arith_binary(op, p[1], p[2])]
           Body(f, i, j) == IF i >= j THEN args[i]
                            ELSE arith_binary(op, f[<<i, i + HalfOf(i, j) - 1>>], f[<<i + HalfOf(i, j), j>>])
           fold[span \in D] ==
             LET i == span[1]
                 j == span[2]
                 half == (j - i + 1) \div 2
             IN  IF i >= j THEN args[i] ELSE arith_binary(op, fold[<<i, i + half - 1>>], fold[<<i + half, j>>])
<1>1. join \in [N \X N -> N]
  <2>1. ASSUME NEW p \in N \X N PROVE arith_binary(op, p[1], p[2]) \in N
    BY StrictArith
  <2> HIDE DEF N
  <2> QED BY <2>1
<1>2. PICK g \in [D -> N] : \A i, j \in 1 .. n : g[<<i, j>>] = Halved(g, args, join, i, j)
  <2>1. args \in [1 .. n -> N] /\ n \in Nat
    OBVIOUS
  <2> HIDE DEF join, N
  <2>2. \E f \in [SpansOf(n) -> N] : IsHalving(f, n, args, join)
    BY Zenon, <1>1, <2>1, SpanRecursion
  <2> QED BY Zenon, <2>2 DEF SpansOf, IsHalving
<1>3. ASSUME NEW i \in 1 .. n, NEW j \in 1 .. n
      PROVE  g[<<i, j>>] = Body(g, i, j)
  <2>1. CASE i >= j
    BY <1>2, <2>1 DEF Halved
  <2>2. CASE i < j
    <3>1. PICK m \in 1 .. n, k \in 1 .. n : m = i + HalfOf(i, j) - 1 /\ k = i + HalfOf(i, j)
      BY <2>2, Halves
    <3>2. g[<<i, m>>] \in N /\ g[<<k, j>>] \in N
      BY <3>1
    <3>3. join[<<g[<<i, m>>], g[<<k, j>>]>>] = arith_binary(op, g[<<i, m>>], g[<<k, j>>])
      <4> HIDE DEF N
      <4> QED BY <3>2
    <3>4. Halved(g, args, join, i, j) = join[<<g[<<i, m>>], g[<<k, j>>]>>]
      <4> HIDE DEF join
      <4> QED BY <2>2, <3>1 DEF Halved
    <3>5. Body(g, i, j) = arith_binary(op, g[<<i, m>>], g[<<k, j>>])
      BY <2>2, <3>1
    <3> HIDE DEF Body, join
    <3> QED BY <1>2, <3>3, <3>4, <3>5
  <2> QED BY <2>1, <2>2
<1>4. g = [span \in D |-> Body(g, span[1], span[2])]
  <2>1. \A span \in D : g[span] = Body(g, span[1], span[2])
    <3> SUFFICES ASSUME NEW span \in D PROVE g[span] = Body(g, span[1], span[2])
      OBVIOUS
    <3>1. span = <<span[1], span[2]>> /\ span[1] \in 1 .. n /\ span[2] \in 1 .. n
      OBVIOUS
    <3> HIDE DEF Body
    <3> QED BY <1>3, <3>1
  <2> HIDE DEF Body
  <2> QED BY <2>1
<1>5. fold = [span \in D |-> Body(fold, span[1], span[2])]
  BY Zenon, <1>4 DEF HalfOf
<1>6. FoldedArith(op, args) = fold[<<1, n>>]
  <2>1. Len(args) = n
    OBVIOUS
  <2> QED BY Zenon, <2>1 DEF FoldedArith
<1>7. ASSUME NEW i \in 1 .. n, NEW j \in 1 .. n
      PROVE  fold[<<i, j>>] = Body(fold, i, j)
  <2> HIDE DEF fold, Body
  <2>1. <<i, j>> \in D /\ <<i, j>>[1] = i /\ <<i, j>>[2] = j
    OBVIOUS
  <2> QED BY Zenon, <1>5, <2>1
<1> HIDE DEF fold
<1> QED BY <1>6, <1>7

LEMMA FoldedArithIsSql ==
  ASSUME NEW op \in {"Max", "Min"}, NEW n \in Nat \ {0}, NEW args \in [1 .. n -> Nullable(Values)]
  PROVE  /\ FoldedArith(op, args) \in Nullable(Values)
         /\ Meaning(FoldedArith(op, args)) = SqlExtreme(op, [k \in 1 .. n |-> Meaning(args[k])])
<1>1. op \in ArithOps /\ Linear(op)
  BY ArithAssumption, ExtremesAreLinear
<1>2. PICK f : /\ FoldedArith(op, args) = f[<<1, n>>]
               /\ \A i, j \in 1 .. n :
                    f[<<i, j>>] = IF i >= j THEN args[i]
                                  ELSE arith_binary(op, f[<<i, i + HalfOf(i, j) - 1>>], f[<<i + HalfOf(i, j), j>>])
  BY <1>1, FoldedArithSteps
<1>3. PICK ms \in [1 .. n -> Meanings(Values)] : ms = [k \in 1 .. n |-> Meaning(args[k])]
  <2>1. ASSUME NEW k \in 1 .. n PROVE Meaning(args[k]) \in Meanings(Values)
    <3>1. args[k].v \in Values /\ Meaning(args[k]) = IF args[k].null = <<TRUE>> THEN NULL ELSE <<args[k].v>>
      BY Split
    <3> QED BY <3>1 DEF Meanings
  <2> QED BY <2>1
<1> DEFINE Means(i, j) == f[<<i, j>>] \in Nullable(Values) /\ IsExtreme(op, ms, i, j, Meaning(f[<<i, j>>]))
           G == {p \in (1 .. n) \X (1 .. n) : Means(p[1], p[2])}
<1>4. ASSUME NEW i \in 1 .. n
      PROVE  Means(i, i)
  <2>1. f[<<i, i>>] = args[i] /\ ms[i] = Meaning(args[i])
    <3>1. f[<<i, i>>] = args[i]
      <4>1. i >= i
        OBVIOUS
      <4> QED BY Zenon, <1>2, <4>1
    <3>2. ms[i] = Meaning(args[i])
      BY <1>3
    <3> QED BY <3>1, <3>2
  <2>2. i .. i = {i}
    OBVIOUS
  <2>3. CASE ms[i] = NULL
    BY <2>1, <2>2, <2>3 DEF IsExtreme
  <2>4. CASE ms[i] # NULL
    <3>1. ms[i][1] \in Values
      BY <2>4, SomeValue
    <3>2. Applied(op, ms[i][1], ms[i][1]) = ms[i][1]
      BY <1>1, <3>1, ExtremeOfTwo
    <3> QED BY <2>1, <2>2, <2>4, <3>2 DEF IsExtreme
  <2> QED BY <2>3, <2>4
<1>5. ASSUME NEW i \in 1 .. n, NEW j \in 1 .. n, i < j,
             Means(i, i + HalfOf(i, j) - 1), Means(i + HalfOf(i, j), j)
      PROVE  Means(i, j)
  <2>1. PICK m \in i .. j - 1, k \in 1 .. n : m = i + HalfOf(i, j) - 1 /\ k = i + HalfOf(i, j) /\ k = m + 1
    BY <1>5, Halves
  <2>2. Means(i, m) /\ Means(m + 1, j)
    BY <1>5, <2>1
  <2>3. f[<<i, j>>] = arith_binary(op, f[<<i, m>>], f[<<m + 1, j>>])
    BY <1>2, <1>5, <2>1
  <2>4. /\ f[<<i, j>>] \in Nullable(Values)
        /\ Meaning(f[<<i, j>>]) = SqlArith(op, Meaning(f[<<i, m>>]), Meaning(f[<<m + 1, j>>]))
    BY <1>1, <2>2, <2>3, StrictArith
  <2> QED BY <1>1, <2>2, <2>4, ExtremesJoin
<1>6. ASSUME NEW i \in 1 .. n, NEW j \in 1 .. n
      PROVE  <<i, j>> \in G <=> Means(i, j)
  <2> HIDE DEF Means
  <2> QED OBVIOUS
<1>7. Means(1, n)
  <2>1. \A i \in 1 .. n : <<i, i>> \in G
    BY <1>4, <1>6
  <2>2. \A i, j \in 1 .. n :
          i < j /\ <<i, i + HalfOf(i, j) - 1>> \in G /\ <<i + HalfOf(i, j), j>> \in G => <<i, j>> \in G
    <3> SUFFICES ASSUME NEW i \in 1 .. n, NEW j \in 1 .. n, i < j,
                        <<i, i + HalfOf(i, j) - 1>> \in G, <<i + HalfOf(i, j), j>> \in G
                 PROVE  <<i, j>> \in G
      OBVIOUS
    <3>1. PICK m \in 1 .. n, k \in 1 .. n : m = i + HalfOf(i, j) - 1 /\ k = i + HalfOf(i, j)
      BY Halves
    <3> HIDE DEF Means, G
    <3> QED BY <1>5, <1>6, <3>1
  <2>3. 1 \in 1 .. n /\ n \in 1 .. n /\ 1 <= n /\ n \in Nat
    OBVIOUS
  <2> HIDE DEF Means, G
  <2>4. <<1, n>> \in G
    BY <2>1, <2>2, <2>3, SpanInduction
  <2> QED BY <1>6, <2>3, <2>4
<1> QED BY <1>1, <1>2, <1>3, <1>7, ExtremeIsSql

(***************************************************************************)
(* The connectives. A connective leaves its unit as it is.                  *)
(***************************************************************************)
Truth == {NULL, <<TRUE>>, <<FALSE>>}
Unit(op) == IF op = "And" THEN <<TRUE>> ELSE <<FALSE>>

LEMMA TruthOf ==
  ASSUME NEW p \in Nullable(BOOLEAN)
  PROVE  Meaning(p) \in Truth
<1>1. (p.v = TRUE \/ p.v = FALSE) /\ Meaning(p) = IF p.null = <<TRUE>> THEN NULL ELSE <<p.v>>
  <2>1. p.v \in BOOLEAN
    BY Split
  <2>2. Meaning(p) = IF p.null = <<TRUE>> THEN NULL ELSE <<p.v>>
    BY Split
  <2> QED BY <2>1, <2>2
<1> QED BY <1>1 DEF Truth

LEMMA UnitOfTwo ==
  ASSUME NEW op \in {"And", "Or"}, NEW a \in Truth, NEW b \in Truth
  PROVE  /\ SqlLogic(op, a, b) \in Truth /\ Unit(op) # NULL
         /\ SqlLogic(op, a, b) = NULL <=> a = NULL \/ b = NULL
         /\ a # NULL /\ b # NULL => (SqlLogic(op, a, b) = Unit(op) <=> a = Unit(op) /\ b = Unit(op))
<1>1. \A x, y \in BOOLEAN :
        /\ SqlLogic("And", <<x>>, <<y>>) = <<x /\ y>>
        /\ SqlLogic("Or", <<x>>, <<y>>) = <<x \/ y>>
  <2> SUFFICES ASSUME NEW x \in BOOLEAN, NEW y \in BOOLEAN
               PROVE  /\ SqlLogic("And", <<x>>, <<y>>) = <<x /\ y>>
                      /\ SqlLogic("Or", <<x>>, <<y>>) = <<x \/ y>>
    OBVIOUS
  <2>1. <<x>> # NULL /\ <<y>> # NULL /\ <<x>>[1] = x /\ <<y>>[1] = y
    BY DEF NULL
  <2> QED BY <2>1 DEF SqlLogic, Connected
<1>2. \A x \in Truth : SqlLogic(op, NULL, x) = NULL /\ SqlLogic(op, x, NULL) = NULL
  BY DEF SqlLogic
<1>3. /\ SqlLogic("And", <<TRUE>>, <<TRUE>>) = <<TRUE>> /\ SqlLogic("Or", <<TRUE>>, <<TRUE>>) = <<TRUE>>
      /\ SqlLogic("And", <<TRUE>>, <<FALSE>>) = <<FALSE>> /\ SqlLogic("Or", <<TRUE>>, <<FALSE>>) = <<TRUE>>
      /\ SqlLogic("And", <<FALSE>>, <<TRUE>>) = <<FALSE>> /\ SqlLogic("Or", <<FALSE>>, <<TRUE>>) = <<TRUE>>
      /\ SqlLogic("And", <<FALSE>>, <<FALSE>>) = <<FALSE>> /\ SqlLogic("Or", <<FALSE>>, <<FALSE>>) = <<FALSE>>
  BY <1>1
<1> QED BY <1>2, <1>3, MaskBit DEF Truth, Unit

IsConnected(op, ts, i, j, m) ==
  /\ m \in Truth
  /\ m = NULL <=> \E k \in i .. j : ts[k] = NULL
  /\ m # NULL => (m = Unit(op) <=> \A k \in i .. j : ts[k] = Unit(op))

LEMMA ConnectedJoin ==
  ASSUME NEW op \in {"And", "Or"}, NEW n \in Nat, NEW ts \in [1 .. n -> Truth],
         NEW i \in 1 .. n, NEW j \in 1 .. n, NEW m \in i .. j - 1, NEW a, NEW b,
         IsConnected(op, ts, i, m, a), IsConnected(op, ts, m + 1, j, b)
  PROVE  IsConnected(op, ts, i, j, SqlLogic(op, a, b))
<1>1. i .. j = (i .. m) \union (m + 1 .. j)
  OBVIOUS
<1>2. a \in Truth /\ b \in Truth
  BY DEF IsConnected
<1>3. PICK u : u = Unit(op)
  OBVIOUS
<1>4. PICK x : x = SqlLogic(op, a, b)
  OBVIOUS
<1>5. x \in Truth /\ (x = NULL <=> a = NULL \/ b = NULL) /\ (a # NULL /\ b # NULL => (x = u <=> a = u /\ b = u))
  BY <1>2, <1>3, <1>4, UnitOfTwo
<1>6. x = NULL <=> \E k \in i .. j : ts[k] = NULL
  BY <1>1, <1>5 DEF IsConnected
<1>7. x # NULL => (x = u <=> \A k \in i .. j : ts[k] = u)
  BY <1>1, <1>3, <1>5 DEF IsConnected
<1> QED BY <1>3, <1>4, <1>5, <1>6, <1>7 DEF IsConnected

LEMMA ConnectedIsSql ==
  ASSUME NEW n \in Nat \ {0}, NEW ts \in [1 .. n -> Truth], NEW m
  PROVE  /\ IsConnected("And", ts, 1, n, m) => m = SqlAll(ts)
         /\ IsConnected("Or", ts, 1, n, m) => m = SqlAny(ts)
<1>1. CASE \E k \in 1 .. n : ts[k] = NULL
  BY <1>1 DEF IsConnected, SqlAll, SqlAny
<1>2. CASE \A k \in 1 .. n : ts[k] # NULL
  <2>1. \A k \in 1 .. n : (ts[k] = <<TRUE>> \/ ts[k] = <<FALSE>>)
    BY <1>2 DEF Truth
  <2>2. \A k \in 1 .. n : (ts[k][1] <=> ts[k] = <<TRUE>>) /\ (~ts[k][1] <=> ts[k] = <<FALSE>>)
    BY <2>1, MaskBit
  <2> DEFINE all == \A k \in 1 .. n : ts[k] = <<TRUE>>
             any == \E k \in 1 .. n : ts[k] # <<FALSE>>
  <2>3. SqlAll(ts) = <<all>>
    <3>1. (\A k \in DOMAIN ts : ts[k][1]) = all
      BY <2>2
    <3> HIDE DEF all
    <3> QED BY <1>2, <3>1 DEF SqlAll
  <2>4. SqlAny(ts) = <<any>>
    <3>1. (\E k \in DOMAIN ts : ts[k][1]) = any
      BY <2>2, <2>1, MaskBit
    <3> HIDE DEF any
    <3> QED BY <1>2, <3>1 DEF SqlAny
  <2>5. ASSUME IsConnected("And", ts, 1, n, m)
        PROVE  m = <<all>>
    <3>1. (m = <<TRUE>> \/ m = <<FALSE>>) /\ (m = <<TRUE>> <=> all)
      BY <1>2, <2>5 DEF IsConnected, Truth, Unit
    <3> HIDE DEF all
    <3>2. CASE all
      <4>1. all = TRUE
        BY <3>2
      <4> QED BY <3>1, <4>1
    <3>3. CASE ~all
      <4>1. all = FALSE
        BY <3>3
      <4> QED BY <3>1, <4>1
    <3> QED BY <3>2, <3>3
  <2>6. ASSUME IsConnected("Or", ts, 1, n, m)
        PROVE  m = <<any>>
    <3>1. (m = <<TRUE>> \/ m = <<FALSE>>) /\ (m = <<FALSE>> <=> ~any)
      BY <1>2, <2>6 DEF IsConnected, Truth, Unit
    <3> HIDE DEF any
    <3>2. CASE any
      <4>1. any = TRUE
        BY <3>2
      <4> QED BY <3>1, <4>1, MaskBit
    <3>3. CASE ~any
      <4>1. any = FALSE
        BY <3>3
      <4> QED BY <3>1, <4>1
    <3> QED BY <3>2, <3>3
  <2> QED BY <2>3, <2>4, <2>5, <2>6
<1> QED BY <1>1, <1>2

\* What FoldedLogic computes, one halving at a time.
LEMMA FoldedLogicSteps ==
  ASSUME NEW op \in LogicOps, NEW n \in Nat \ {0}, NEW args \in [1 .. n -> Nullable(BOOLEAN)]
  PROVE  \E f : /\ FoldedLogic(op, args) = f[<<1, n>>]
                /\ \A i, j \in 1 .. n :
                     f[<<i, j>>] = IF i >= j THEN args[i]
                                   ELSE predicate_binary(op, f[<<i, i + HalfOf(i, j) - 1>>], f[<<i + HalfOf(i, j), j>>])
<1> DEFINE N == Nullable(BOOLEAN)
           D == (1 .. n) \X (1 .. n)
           join == [p \in N \X N |-> predicate_binary(op, p[1], p[2])]
           Body(f, i, j) == IF i >= j THEN args[i]
                            ELSE predicate_binary(op, f[<<i, i + HalfOf(i, j) - 1>>], f[<<i + HalfOf(i, j), j>>])
           fold[span \in D] ==
             LET i == span[1]
                 j == span[2]
                 half == (j - i + 1) \div 2
             IN  IF i >= j THEN args[i] ELSE predicate_binary(op, fold[<<i, i + half - 1>>], fold[<<i + half, j>>])
<1>1. join \in [N \X N -> N]
  <2>1. ASSUME NEW p \in N \X N PROVE predicate_binary(op, p[1], p[2]) \in N
    BY StrictLogic
  <2> HIDE DEF N
  <2> QED BY <2>1
<1>2. PICK g \in [D -> N] : \A i, j \in 1 .. n : g[<<i, j>>] = Halved(g, args, join, i, j)
  <2>1. args \in [1 .. n -> N] /\ n \in Nat
    OBVIOUS
  <2> HIDE DEF join, N
  <2>2. \E f \in [SpansOf(n) -> N] : IsHalving(f, n, args, join)
    BY Zenon, <1>1, <2>1, SpanRecursion
  <2> QED BY Zenon, <2>2 DEF SpansOf, IsHalving
<1>3. ASSUME NEW i \in 1 .. n, NEW j \in 1 .. n
      PROVE  g[<<i, j>>] = Body(g, i, j)
  <2>1. CASE i >= j
    BY <1>2, <2>1 DEF Halved
  <2>2. CASE i < j
    <3>1. PICK m \in 1 .. n, k \in 1 .. n : m = i + HalfOf(i, j) - 1 /\ k = i + HalfOf(i, j)
      BY <2>2, Halves
    <3>2. g[<<i, m>>] \in N /\ g[<<k, j>>] \in N
      BY <3>1
    <3>3. join[<<g[<<i, m>>], g[<<k, j>>]>>] = predicate_binary(op, g[<<i, m>>], g[<<k, j>>])
      <4> HIDE DEF N
      <4> QED BY <3>2
    <3>4. Halved(g, args, join, i, j) = join[<<g[<<i, m>>], g[<<k, j>>]>>]
      <4> HIDE DEF join
      <4> QED BY <2>2, <3>1 DEF Halved
    <3>5. Body(g, i, j) = predicate_binary(op, g[<<i, m>>], g[<<k, j>>])
      BY <2>2, <3>1
    <3> HIDE DEF Body, join
    <3> QED BY <1>2, <3>3, <3>4, <3>5
  <2> QED BY <2>1, <2>2
<1>4. g = [span \in D |-> Body(g, span[1], span[2])]
  <2>1. \A span \in D : g[span] = Body(g, span[1], span[2])
    <3> SUFFICES ASSUME NEW span \in D PROVE g[span] = Body(g, span[1], span[2])
      OBVIOUS
    <3>1. span = <<span[1], span[2]>> /\ span[1] \in 1 .. n /\ span[2] \in 1 .. n
      OBVIOUS
    <3> HIDE DEF Body
    <3> QED BY <1>3, <3>1
  <2> HIDE DEF Body
  <2> QED BY <2>1
<1>5. fold = [span \in D |-> Body(fold, span[1], span[2])]
  BY Zenon, <1>4 DEF HalfOf
<1>6. FoldedLogic(op, args) = fold[<<1, n>>]
  <2>1. Len(args) = n
    OBVIOUS
  <2> QED BY Zenon, <2>1 DEF FoldedLogic
<1>7. ASSUME NEW i \in 1 .. n, NEW j \in 1 .. n
      PROVE  fold[<<i, j>>] = Body(fold, i, j)
  <2> HIDE DEF fold, Body
  <2>1. <<i, j>> \in D /\ <<i, j>>[1] = i /\ <<i, j>>[2] = j
    OBVIOUS
  <2> QED BY Zenon, <1>5, <2>1
<1> HIDE DEF fold
<1> QED BY <1>6, <1>7

LEMMA FoldedLogicIsSql ==
  ASSUME NEW op \in {"And", "Or"}, NEW n \in Nat \ {0}, NEW args \in [1 .. n -> Nullable(BOOLEAN)]
  PROVE  /\ FoldedLogic(op, args) \in Nullable(BOOLEAN)
         /\ op = "And" => Meaning(FoldedLogic(op, args)) = SqlAll([k \in 1 .. n |-> Meaning(args[k])])
         /\ op = "Or" => Meaning(FoldedLogic(op, args)) = SqlAny([k \in 1 .. n |-> Meaning(args[k])])
<1>1. op \in LogicOps
  BY DEF LogicOps
<1>2. PICK f : /\ FoldedLogic(op, args) = f[<<1, n>>]
               /\ \A i, j \in 1 .. n :
                    f[<<i, j>>] = IF i >= j THEN args[i]
                                  ELSE predicate_binary(op, f[<<i, i + HalfOf(i, j) - 1>>], f[<<i + HalfOf(i, j), j>>])
  BY <1>1, FoldedLogicSteps
<1>3. PICK ts \in [1 .. n -> Truth] : ts = [k \in 1 .. n |-> Meaning(args[k])]
  <2>1. \A k \in 1 .. n : Meaning(args[k]) \in Truth
    BY TruthOf
  <2> QED BY <2>1
<1> DEFINE Means(i, j) == f[<<i, j>>] \in Nullable(BOOLEAN) /\ IsConnected(op, ts, i, j, Meaning(f[<<i, j>>]))
           G == {p \in (1 .. n) \X (1 .. n) : Means(p[1], p[2])}
<1>4. ASSUME NEW i \in 1 .. n
      PROVE  Means(i, i)
  <2>1. f[<<i, i>>] = args[i] /\ ts[i] = Meaning(args[i])
    <3>1. f[<<i, i>>] = args[i]
      <4>1. i >= i
        OBVIOUS
      <4> QED BY Zenon, <1>2, <4>1
    <3>2. ts[i] = Meaning(args[i])
      BY <1>3
    <3> QED BY <3>1, <3>2
  <2>2. i .. i = {i}
    OBVIOUS
  <2>3. args[i] \in Nullable(BOOLEAN) /\ ts[i] \in Truth
    OBVIOUS
  <2> QED BY <2>1, <2>2, <2>3 DEF IsConnected
<1>5. ASSUME NEW i \in 1 .. n, NEW j \in 1 .. n, i < j,
             Means(i, i + HalfOf(i, j) - 1), Means(i + HalfOf(i, j), j)
      PROVE  Means(i, j)
  <2>1. PICK m \in i .. j - 1, k \in 1 .. n : m = i + HalfOf(i, j) - 1 /\ k = i + HalfOf(i, j) /\ k = m + 1
    BY <1>5, Halves
  <2>2. Means(i, m) /\ Means(m + 1, j)
    BY <1>5, <2>1
  <2>3. f[<<i, j>>] = predicate_binary(op, f[<<i, m>>], f[<<m + 1, j>>])
    BY <1>2, <1>5, <2>1
  <2>4. /\ f[<<i, j>>] \in Nullable(BOOLEAN)
        /\ Meaning(f[<<i, j>>]) = SqlLogic(op, Meaning(f[<<i, m>>]), Meaning(f[<<m + 1, j>>]))
    BY <1>1, <2>2, <2>3, StrictLogic
  <2> QED BY ZenonT(60), <1>1, <2>2, <2>4, ConnectedJoin
<1>6. ASSUME NEW i \in 1 .. n, NEW j \in 1 .. n
      PROVE  <<i, j>> \in G <=> Means(i, j)
  <2> HIDE DEF Means
  <2> QED OBVIOUS
<1>7. Means(1, n)
  <2>1. \A i \in 1 .. n : <<i, i>> \in G
    BY <1>4, <1>6
  <2>2. \A i, j \in 1 .. n :
          i < j /\ <<i, i + HalfOf(i, j) - 1>> \in G /\ <<i + HalfOf(i, j), j>> \in G => <<i, j>> \in G
    <3> SUFFICES ASSUME NEW i \in 1 .. n, NEW j \in 1 .. n, i < j,
                        <<i, i + HalfOf(i, j) - 1>> \in G, <<i + HalfOf(i, j), j>> \in G
                 PROVE  <<i, j>> \in G
      OBVIOUS
    <3>1. PICK m \in 1 .. n, k \in 1 .. n : m = i + HalfOf(i, j) - 1 /\ k = i + HalfOf(i, j)
      BY Halves
    <3> HIDE DEF Means, G
    <3> QED BY <1>5, <1>6, <3>1
  <2>3. 1 \in 1 .. n /\ n \in 1 .. n /\ 1 <= n /\ n \in Nat
    OBVIOUS
  <2> HIDE DEF Means, G
  <2>4. <<1, n>> \in G
    BY <2>1, <2>2, <2>3, SpanInduction
  <2> QED BY <1>6, <2>3, <2>4
<1> QED BY <1>2, <1>3, <1>7, ConnectedIsSql

(***************************************************************************)
(* CASE: built from its last branch.                                        *)
(***************************************************************************)
CaseStep(conds, results, default, n, f, k) ==
  IF k < n THEN if_else(conds[k], results[k], f[k + 1])
  ELSE IF default # <<>> THEN if_else(conds[n], results[n], default[1])
  ELSE if_else_null(conds[n], results[n])

LEMMA CaseSteps ==
  ASSUME NEW n \in Nat \ {0}, NEW conds \in [1 .. n -> Nullable(BOOLEAN)],
         NEW results \in [1 .. n -> Nullable(Values)], NEW default,
         default # <<>> => default[1] \in Nullable(Values)
  PROVE  \E f : /\ case_when(conds, results, default) = f[1]
                /\ \A k \in 1 .. n : f[k] = CaseStep(conds, results, default, n, f, k)
<1> DEFINE N == Nullable(Values)
           last == IF default # <<>> THEN if_else(conds[n], results[n], default[1])
                   ELSE if_else_null(conds[n], results[n])
           step == [d \in 1 .. n - 1 |-> [x \in N |-> if_else(conds[n - d], results[n - d], x)]]
           from[k \in 1 .. n] ==
             IF k < n THEN if_else(conds[k], results[k], from[k + 1])
             ELSE IF default # <<>> THEN if_else(conds[n], results[n], default[1])
             ELSE if_else_null(conds[n], results[n])
<1>1. last \in N
  <2>1. conds[n] \in Nullable(BOOLEAN) /\ results[n] \in Nullable(Values)
    OBVIOUS
  <2> QED BY <2>1, IfElse, IfElseNull
<1>2. step \in [1 .. n - 1 -> [N -> N]]
  <2>1. ASSUME NEW d \in 1 .. n - 1, NEW x \in N
        PROVE  if_else(conds[n - d], results[n - d], x) \in N
    <3>1. n - d \in 1 .. n
      OBVIOUS
    <3>2. conds[n - d] \in Nullable(BOOLEAN) /\ results[n - d] \in Nullable(Values)
      BY <3>1
    <3> QED BY <3>2, IfElse
  <2> QED BY <2>1
<1>3. PICK g \in [0 .. n - 1 -> N] :
        g[0] = last /\ \A d \in 1 .. n - 1 : g[d] = step[d][g[d - 1]]
  <2>1. n - 1 \in Nat
    OBVIOUS
  <2>2. \E f : IsIteration(f, N, last, n - 1, step)
    BY Zenon, <1>1, <1>2, <2>1, Iteration
  <2> HIDE DEF step, N, last
  <2> QED BY <2>2 DEF IsIteration
<1>4. PICK F : F = [k \in 1 .. n |-> g[n - k]]
  OBVIOUS
<1>5. ASSUME NEW k \in 1 .. n
      PROVE  F[k] = CaseStep(conds, results, default, n, F, k)
  <2>1. CASE k = n
    <3>1. F[k] = last
      <4>1. n - n = 0
        OBVIOUS
      <4> HIDE DEF last, step
      <4> QED BY <1>3, <1>4, <2>1, <4>1
    <3> QED BY <2>1, <3>1 DEF CaseStep
  <2>2. CASE k < n
    <3>1. /\ n - k \in 1 .. n - 1 /\ n - k - 1 \in 0 .. n - 1 /\ n - (k + 1) = n - k - 1 /\ n - (n - k) = k
          /\ k + 1 \in 1 .. n
      BY <2>2
    <3>2. F[k] = g[n - k] /\ F[k + 1] = g[n - k - 1] /\ g[n - k - 1] \in N
      BY <1>4, <3>1
    <3>3. g[n - k] = step[n - k][g[n - k - 1]]
      BY <1>3, <3>1
    <3>4. step[n - k][g[n - k - 1]] = if_else(conds[k], results[k], g[n - k - 1])
      <4> HIDE DEF N
      <4> QED BY <3>1, <3>2
    <3> HIDE DEF step
    <3> QED BY <2>2, <3>2, <3>3, <3>4 DEF CaseStep
  <2> QED BY <2>1, <2>2
<1>6. F = [k \in 1 .. n |-> CaseStep(conds, results, default, n, F, k)]
  BY <1>4, <1>5
<1>7. from = [k \in 1 .. n |-> CaseStep(conds, results, default, n, from, k)]
  BY Zenon, <1>6 DEF CaseStep
<1>8. case_when(conds, results, default) = from[1]
  <2>1. Len(conds) = n
    OBVIOUS
  <2> QED BY Zenon, <2>1 DEF case_when
<1> HIDE DEF from
<1>9. ASSUME NEW k \in 1 .. n
      PROVE  from[k] = CaseStep(conds, results, default, n, from, k)
  BY Zenon, <1>7
<1> QED BY <1>8, <1>9

\* The default branch, a list of at most one value, and what it means.
AreDefaults(default, meant) ==
  /\ default # <<>> => default[1] \in Nullable(Values) /\ meant # <<>> /\ meant[1] = Meaning(default[1])
  /\ default = <<>> => meant = <<>>

IsSqlCase(n, conds, results, default, meant) ==
  /\ case_when(conds, results, default) \in Nullable(Values)
  /\ Meaning(case_when(conds, results, default))
       = SqlCase([k \in 1 .. n |-> Meaning(conds[k])], [k \in 1 .. n |-> Meaning(results[k])], meant)

LEMMA CaseIsSql ==
  ASSUME NEW n \in Nat \ {0}, NEW conds \in [1 .. n -> Nullable(BOOLEAN)],
         NEW results \in [1 .. n -> Nullable(Values)], NEW default, NEW meant, AreDefaults(default, meant)
  PROVE  IsSqlCase(n, conds, results, default, meant)
<1>1. PICK f : /\ case_when(conds, results, default) = f[1]
               /\ \A k \in 1 .. n : f[k] = CaseStep(conds, results, default, n, f, k)
  BY CaseSteps DEF AreDefaults
<1> USE DEF AreDefaults
<1> DEFINE P(k) == Meaning(conds[k]) = <<TRUE>>
           M(k) == Meaning(results[k])
           other == IF meant = <<>> THEN NULL ELSE meant[1]
           Means(k) == /\ f[k] \in Nullable(Values)
                       /\ (\A i \in k .. n : ~P(i)) => Meaning(f[k]) = other
                       /\ \A i \in k .. n : P(i) /\ (\A j \in k .. i - 1 : ~P(j)) => Meaning(f[k]) = M(i)
           T == {d \in Nat : d < n => Means(n - d)}
<1>2. Means(n)
  <2>1. conds[n] \in Nullable(BOOLEAN) /\ results[n] \in Nullable(Values)
    OBVIOUS
  <2>2. f[n] = IF default # <<>> THEN if_else(conds[n], results[n], default[1])
               ELSE if_else_null(conds[n], results[n])
    BY <1>1 DEF CaseStep
  <2>3. f[n] \in Nullable(Values) /\ Meaning(f[n]) = IF P(n) THEN M(n) ELSE other
    <3>1. CASE default # <<>>
      <4>1. default[1] \in Nullable(Values) /\ other = Meaning(default[1]) /\ f[n] = if_else(conds[n], results[n], default[1])
        BY <2>2, <3>1
      <4>2. /\ f[n] \in Nullable(Values)
            /\ Meaning(f[n]) = SqlIf(Meaning(conds[n]), Meaning(results[n]), Meaning(default[1]))
        BY <2>1, <4>1, IfElse
      <4> HIDE DEF other
      <4> QED BY <4>1, <4>2 DEF SqlIf
    <3>2. CASE default = <<>>
      <4>1. other = NULL /\ f[n] = if_else_null(conds[n], results[n])
        BY <2>2, <3>2
      <4>2. /\ f[n] \in Nullable(Values)
            /\ Meaning(f[n]) = SqlIf(Meaning(conds[n]), Meaning(results[n]), NULL)
        BY <2>1, <4>1, IfElseNull
      <4> HIDE DEF other
      <4> QED BY <4>1, <4>2 DEF SqlIf
    <3> QED BY <3>1, <3>2
  <2> HIDE DEF P, M, other
  <2>4. n .. n = {n} /\ n .. n - 1 = {}
    OBVIOUS
  <2> QED BY <2>3, <2>4
<1>3. ASSUME NEW k \in 1 .. n - 1, Means(k + 1)
      PROVE  Means(k)
  <2>1. conds[k] \in Nullable(BOOLEAN) /\ results[k] \in Nullable(Values) /\ k \in 1 .. n
    OBVIOUS
  <2>2. f[k] = if_else(conds[k], results[k], f[k + 1])
    BY <1>1, <2>1 DEF CaseStep
  <2>3. f[k] \in Nullable(Values) /\ Meaning(f[k]) = IF P(k) THEN M(k) ELSE Meaning(f[k + 1])
    <3>1. f[k + 1] \in Nullable(Values)
      BY <1>3
    <3>2. /\ f[k] \in Nullable(Values)
          /\ Meaning(f[k]) = SqlIf(Meaning(conds[k]), Meaning(results[k]), Meaning(f[k + 1]))
      BY <2>1, <2>2, <3>1, IfElse
    <3> QED BY <3>2 DEF SqlIf
  <2> HIDE DEF P, M, other
  <2>4. (\A i \in k .. n : ~P(i)) => Meaning(f[k]) = other
    BY <1>3, <2>3
  <2>5. ASSUME NEW i \in k .. n, P(i), \A j \in k .. i - 1 : ~P(j)
        PROVE  Meaning(f[k]) = M(i)
    <3>1. CASE i = k
      BY <2>3, <2>5, <3>1
    <3>2. CASE i # k
      <4>1. ~P(k) /\ i \in k + 1 .. n /\ \A j \in k + 1 .. i - 1 : ~P(j)
        BY <2>5, <3>2
      <4> QED BY <1>3, <2>3, <2>5, <4>1
    <3> QED BY <3>1, <3>2
  <2> QED BY <2>3, <2>4, <2>5
<1>4. Means(1)
  <2> HIDE DEF Means
  <2>1. 0 \in T
    BY <1>2
  <2>2. ASSUME NEW d \in Nat, d \in T
        PROVE  d + 1 \in T
    <3> SUFFICES ASSUME d + 1 < n PROVE Means(n - (d + 1))
      OBVIOUS
    <3>1. Means(n - d) /\ n - (d + 1) \in 1 .. n - 1 /\ n - (d + 1) + 1 = n - d
      BY <2>2
    <3> QED BY <1>3, <3>1
  <2>3. n - 1 \in T
    <3> HIDE DEF T
    <3> QED BY <2>1, <2>2, NaturalInduction
  <2>4. n - (n - 1) = 1 /\ n - 1 < n
    OBVIOUS
  <2> QED BY <2>3, <2>4
<1> DEFINE ps == [k \in 1 .. n |-> Meaning(conds[k])]
           xs == [k \in 1 .. n |-> M(k)]
           hit == {k \in DOMAIN ps : ps[k] = <<TRUE>>}
<1>5. SqlCase(ps, xs, meant) = IF hit # {} THEN xs[SqlFirst(hit)] ELSE other
  BY DEF SqlCase
<1>6. hit = {k \in 1 .. n : P(k)}
  OBVIOUS
<1>7. Meaning(f[1]) = SqlCase(ps, xs, meant)
  <2>1. CASE hit = {}
    <3>1. \A k \in 1 .. n : ~P(k)
      BY <1>6, <2>1
    <3> HIDE DEF P, M, other, hit, xs, ps
    <3> QED BY <1>4, <1>5, <2>1, <3>1
  <2>2. CASE hit # {}
    <3>1. PICK i : i = SqlFirst(hit)
      OBVIOUS
    <3>2. i \in hit /\ \A k \in hit : i <= k
      <4> HIDE DEF hit, P
      <4>1. hit \in SUBSET Nat
        BY <1>6
      <4> QED BY <2>2, <3>1, <4>1, FirstOf
    <3>3. i \in 1 .. n /\ P(i) /\ \A k \in 1 .. i - 1 : ~P(k)
      <4> HIDE DEF P, hit
      <4> QED BY <1>6, <3>2
    <3>4. xs[i] = M(i)
      BY <3>3
    <3> HIDE DEF P, M, other, hit, xs, ps
    <3>5. Meaning(f[1]) = M(i)
      BY <1>4, <3>3
    <3> QED BY <1>5, <2>2, <3>1, <3>4, <3>5
  <2> QED BY <2>1, <2>2
<1> QED BY <1>1, <1>4, <1>7 DEF IsSqlCase

(***************************************************************************)
LEMMA Initially == Init => Inv
<1> SUFFICES ASSUME Init PROVE Inv
  OBVIOUS
<1>1. /\ Plain(Zero) \in Nullable(Values) /\ Meaning(Plain(Zero)) = <<Zero>>
      /\ Plain(TRUE) \in Nullable(BOOLEAN) /\ Meaning(Plain(TRUE)) = <<TRUE>>
  BY PlainValue, ValuesAssumption
<1>2. <<Zero>> \in Meanings(Values) /\ <<TRUE>> \in Meanings(BOOLEAN)
  BY ValuesAssumption DEF Meanings
<1> QED BY <1>1, <1>2 DEF Init, Inv, TypeOK, MeansWhatSqlSays, NullsDoNotOverflow

LEMMA Fields ==
  ASSUME Inv
  PROVE  /\ \A v \in Vars : val[v] \in Nullable(Values) /\ meaning[v] = Meaning(val[v])
         /\ \A c \in Conds : cond[c] \in Nullable(BOOLEAN) /\ truth[c] = Meaning(cond[c])
         /\ fault \in BOOLEAN /\ meantFault = fault
BY DEF Inv, TypeOK, MeansWhatSqlSays, NullsDoNotOverflow

LEMMA KeepsVar ==
  ASSUME Inv, NEW v \in Vars, NEW x \in Nullable(Values), SetVar(v, x, Meaning(x)),
         fault' \in BOOLEAN, meantFault' = fault'
  PROVE  Inv'
<1>1. Meaning(x) \in Meanings(Values)
  BY Field DEF Meanings
<1>2. val' \in [Vars -> Nullable(Values)] /\ meaning' \in [Vars -> Meanings(Values)]
  BY <1>1 DEF SetVar, Inv, TypeOK
<1>3. \A u \in Vars : Meaning(val'[u]) = meaning'[u]
  <2> SUFFICES ASSUME NEW u \in Vars PROVE Meaning(val'[u]) = meaning'[u]
    OBVIOUS
  <2>1. val'[u] = (IF u = v THEN x ELSE val[u]) /\ meaning'[u] = IF u = v THEN Meaning(x) ELSE meaning[u]
    BY DEF SetVar, Inv, TypeOK
  <2> QED BY <2>1 DEF Inv, MeansWhatSqlSays
<1>4. cond' = cond /\ truth' = truth
  BY DEF SetVar
<1> QED BY <1>2, <1>3, <1>4 DEF Inv, TypeOK, MeansWhatSqlSays, NullsDoNotOverflow

LEMMA KeepsCond ==
  ASSUME Inv, NEW c \in Conds, NEW p \in Nullable(BOOLEAN), SetCond(c, p, Meaning(p)), NoCheck
  PROVE  Inv'
<1>1. Meaning(p) \in Meanings(BOOLEAN)
  <2>1. p.v \in BOOLEAN /\ Meaning(p) = IF p.null = <<TRUE>> THEN NULL ELSE <<p.v>>
    BY Split
  <2> QED BY <2>1 DEF Meanings
<1>2. cond' \in [Conds -> Nullable(BOOLEAN)] /\ truth' \in [Conds -> Meanings(BOOLEAN)]
  BY <1>1 DEF SetCond, Inv, TypeOK
<1>3. \A u \in Conds : Meaning(cond'[u]) = truth'[u]
  <2> SUFFICES ASSUME NEW u \in Conds PROVE Meaning(cond'[u]) = truth'[u]
    OBVIOUS
  <2>1. cond'[u] = (IF u = c THEN p ELSE cond[u]) /\ truth'[u] = IF u = c THEN Meaning(p) ELSE truth[u]
    BY DEF SetCond, Inv, TypeOK
  <2> QED BY <2>1 DEF Inv, MeansWhatSqlSays
<1>4. val' = val /\ meaning' = meaning /\ fault' = fault /\ meantFault' = meantFault
  BY DEF SetCond, NoCheck
<1> QED BY <1>2, <1>3, <1>4 DEF Inv, TypeOK, MeansWhatSqlSays, NullsDoNotOverflow

LEMMA Unchecked ==
  ASSUME Inv, NoCheck
  PROVE  fault' \in BOOLEAN /\ meantFault' = fault'
BY Fields DEF NoCheck

LEMMA Checked ==
  ASSUME Inv, NEW inexact \in BOOLEAN, NEW null \in MaybePredicates, NEW isNull \in BOOLEAN,
         isNull <=> null = <<TRUE>>, Check(inexact, null, isNull)
  PROVE  fault' \in BOOLEAN /\ meantFault' = fault'
<1>1. fault \in BOOLEAN /\ meantFault = fault
  BY Fields
<1>2. null = None \/ null = <<TRUE>> \/ null = <<FALSE>>
  BY DEF MaybePredicates
<1>3. Reported(inexact, null) = (inexact /\ ~isNull)
  BY <1>2, MaskBit DEF Reported
<1> QED BY <1>1, <1>3 DEF Check

LEMMA LoadStep ==
  ASSUME Inv, Load
  PROVE  Inv'
<1> PICK v \in Vars, x \in Values :
      /\ NoCheck
      /\ \/ SetVar(v, Plain(x), <<x>>)
         \/ \E bit, trueMeansNull \in BOOLEAN :
              SetVar(v, MaskedLoad(x, bit, trueMeansNull), IF bit = trueMeansNull THEN NULL ELSE <<x>>)
         \/ \E nval \in Values : SetVar(v, nval_load(x, nval), IF x = nval THEN NULL ELSE <<x>>)
         \/ SetVar(v, null_value, NULL)
  BY DEF Load
<1>1. fault' \in BOOLEAN /\ meantFault' = fault'
  BY Unchecked
<1>2. ASSUME NEW z \in Values, NEW b \in BOOLEAN
      PROVE  /\ WithNull(z, <<b>>) \in Nullable(Values)
             /\ Meaning(WithNull(z, <<b>>)) = IF b THEN NULL ELSE <<z>>
  <2>1. b = TRUE \/ b = FALSE
    OBVIOUS
  <2> QED BY ZenonT(60), <2>1, MeaningOf, MaskBit
<1>3. CASE SetVar(v, Plain(x), <<x>>)
  <2>1. Plain(x) \in Nullable(Values) /\ Meaning(Plain(x)) = <<x>>
    BY PlainValue
  <2> QED BY <1>1, <1>3, <2>1, KeepsVar
<1>4. ASSUME NEW bit \in BOOLEAN, NEW trueMeansNull \in BOOLEAN,
             SetVar(v, MaskedLoad(x, bit, trueMeansNull), IF bit = trueMeansNull THEN NULL ELSE <<x>>)
      PROVE  Inv'
  <2>1. /\ normalize_null_mask(bit, trueMeansNull) \in BOOLEAN
        /\ normalize_null_mask(bit, trueMeansNull) <=> bit = trueMeansNull
    BY DEF normalize_null_mask
  <2>2. /\ MaskedLoad(x, bit, trueMeansNull) \in Nullable(Values)
        /\ Meaning(MaskedLoad(x, bit, trueMeansNull)) = IF bit = trueMeansNull THEN NULL ELSE <<x>>
    BY <1>2, <2>1 DEF MaskedLoad
  <2> QED BY <1>1, <1>4, <2>2, KeepsVar
<1>5. ASSUME NEW nval \in Values, SetVar(v, nval_load(x, nval), IF x = nval THEN NULL ELSE <<x>>)
      PROVE  Inv'
  <2>1. /\ nval_load(x, nval) \in Nullable(Values)
        /\ Meaning(nval_load(x, nval)) = IF x = nval THEN NULL ELSE <<x>>
    BY <1>2 DEF nval_load
  <2> QED BY <1>1, <1>5, <2>1, KeepsVar
<1>6. CASE SetVar(v, null_value, NULL)
  <2>1. null_value \in Nullable(Values) /\ Meaning(null_value) = NULL
    BY <1>2, ValuesAssumption DEF null_value
  <2> QED BY <1>1, <1>6, <2>1, KeepsVar
<1> QED BY <1>3, <1>4, <1>5, <1>6

LEMMA LoadPredicateStep ==
  ASSUME Inv, LoadPredicate
  PROVE  Inv'
<1> PICK c \in Conds, x \in BOOLEAN :
      /\ NoCheck
      /\ \/ SetCond(c, Plain(x), <<x>>)
         \/ \E bit, trueMeansNull \in BOOLEAN :
              SetCond(c, MaskedLoad(x, bit, trueMeansNull), IF bit = trueMeansNull THEN NULL ELSE <<x>>)
  BY DEF LoadPredicate
<1>1. CASE SetCond(c, Plain(x), <<x>>)
  <2>1. Plain(x) \in Nullable(BOOLEAN) /\ Meaning(Plain(x)) = <<x>>
    BY PlainValue
  <2> QED BY <1>1, <2>1, KeepsCond
<1>2. ASSUME NEW bit \in BOOLEAN, NEW trueMeansNull \in BOOLEAN,
             SetCond(c, MaskedLoad(x, bit, trueMeansNull), IF bit = trueMeansNull THEN NULL ELSE <<x>>)
      PROVE  Inv'
  <2> DEFINE b == normalize_null_mask(bit, trueMeansNull)
  <2>1. (b = TRUE \/ b = FALSE) /\ (b <=> bit = trueMeansNull)
    BY DEF normalize_null_mask
  <2> HIDE DEF b
  <2>2. /\ WithNull(x, <<b>>) \in Nullable(BOOLEAN)
        /\ Meaning(WithNull(x, <<b>>)) = IF b THEN NULL ELSE <<x>>
    BY ZenonT(60), <2>1, MeaningOf, MaskBit
  <2>3. MaskedLoad(x, bit, trueMeansNull) = WithNull(x, <<b>>)
    BY DEF MaskedLoad, b
  <2> QED BY <1>2, <2>1, <2>2, <2>3, KeepsCond
<1> QED BY <1>1, <1>2

LEMMA ArithBinaryStep ==
  ASSUME Inv, ArithBinary
  PROVE  Inv'
<1> PICK v \in Vars, l \in Vars, r \in Vars, op \in ArithOps, checked \in BOOLEAN :
      /\ SetVar(v, arith_binary(op, val[l], val[r]), SqlArith(op, meaning[l], meaning[r]))
      /\ IF checked THEN Check(<<op, val[l].v, val[r].v>> \in Inexact, combine_selection(val[l].null, val[r].null),
                               NULL \in {meaning[l], meaning[r]})
         ELSE NoCheck
  BY DEF ArithBinary
<1>1. /\ val[l] \in Nullable(Values) /\ meaning[l] = Meaning(val[l])
      /\ val[r] \in Nullable(Values) /\ meaning[r] = Meaning(val[r])
  BY Fields
<1>2. /\ arith_binary(op, val[l], val[r]) \in Nullable(Values)
      /\ Meaning(arith_binary(op, val[l], val[r])) = SqlArith(op, meaning[l], meaning[r])
  BY <1>1, StrictArith
<1>3. fault' \in BOOLEAN /\ meantFault' = fault'
  <2>1. CASE ~checked
    BY <2>1, Unchecked
  <2>2. CASE checked
    <3> DEFINE inexact == <<op, val[l].v, val[r].v>> \in Inexact
               null == combine_selection(val[l].null, val[r].null)
               isNull == NULL \in {meaning[l], meaning[r]}
    <3>1. val[l].null \in MaybePredicates /\ (val[l].null = <<TRUE>> <=> meaning[l] = NULL)
      BY <1>1, Field
    <3>2. val[r].null \in MaybePredicates /\ (val[r].null = <<TRUE>> <=> meaning[r] = NULL)
      BY <1>1, Field
    <3>3. null \in MaybePredicates /\ (isNull <=> null = <<TRUE>>)
      BY <3>1, <3>2, Masks
    <3>4. inexact \in BOOLEAN /\ isNull \in BOOLEAN /\ Check(inexact, null, isNull)
      BY <2>2
    <3> HIDE DEF inexact, null, isNull
    <3> QED BY <3>3, <3>4, Checked
  <2> QED BY <2>1, <2>2
<1> QED BY <1>2, <1>3, KeepsVar

LEMMA ArithUnaryStep ==
  ASSUME Inv, ArithUnary
  PROVE  Inv'
<1> PICK v \in Vars, l \in Vars, op \in UnaryOps, checked \in BOOLEAN :
      /\ SetVar(v, arith_unary(op, val[l]), SqlUnary(op, meaning[l]))
      /\ IF checked THEN Check(<<op, val[l].v>> \in Inexact, val[l].null, meaning[l] = NULL) ELSE NoCheck
  BY DEF ArithUnary
<1>1. val[l] \in Nullable(Values) /\ meaning[l] = Meaning(val[l])
  BY Fields
<1>2. /\ arith_unary(op, val[l]) \in Nullable(Values)
      /\ Meaning(arith_unary(op, val[l])) = SqlUnary(op, meaning[l])
  BY <1>1, StrictUnary
<1>3. fault' \in BOOLEAN /\ meantFault' = fault'
  <2>1. CASE ~checked
    BY <2>1, Unchecked
  <2>2. CASE checked
    <3> DEFINE inexact == <<op, val[l].v>> \in Inexact
               null == val[l].null
               isNull == meaning[l] = NULL
    <3>1. null \in MaybePredicates /\ (isNull <=> null = <<TRUE>>)
      BY <1>1, Field
    <3>2. inexact \in BOOLEAN /\ isNull \in BOOLEAN /\ Check(inexact, null, isNull)
      BY <2>2
    <3> HIDE DEF inexact, null, isNull
    <3> QED BY <3>1, <3>2, Checked
  <2> QED BY <2>1, <2>2
<1> QED BY <1>2, <1>3, KeepsVar

LEMMA DivideStep ==
  ASSUME Inv, Divide
  PROVE  Inv'
<1> PICK v \in Vars, l \in Vars, r \in Vars, op \in {"Div", "Mod"}, nullOnInvalid \in BOOLEAN :
      /\ NoCheck
      /\ SetVar(v, safe_int_div_mod(op, val[l], val[r], nullOnInvalid),
                SqlDivide(op, meaning[l], meaning[r], nullOnInvalid))
  BY DEF Divide
<1>1. /\ val[l] \in Nullable(Values) /\ meaning[l] = Meaning(val[l])
      /\ val[r] \in Nullable(Values) /\ meaning[r] = Meaning(val[r])
  BY Fields
<1>2. /\ safe_int_div_mod(op, val[l], val[r], nullOnInvalid) \in Nullable(Values)
      /\ Meaning(safe_int_div_mod(op, val[l], val[r], nullOnInvalid))
           = SqlDivide(op, meaning[l], meaning[r], nullOnInvalid)
  <2> DEFINE x == val[l]
             y == val[r]
  <2>1. x \in Nullable(Values) /\ y \in Nullable(Values) /\ meaning[l] = Meaning(x) /\ meaning[r] = Meaning(y)
    BY <1>1
  <2> HIDE DEF x, y
  <2>2. /\ safe_int_div_mod(op, x, y, nullOnInvalid) \in Nullable(Values)
        /\ Meaning(safe_int_div_mod(op, x, y, nullOnInvalid)) = SqlDivide(op, Meaning(x), Meaning(y), nullOnInvalid)
    <3>1. CASE nullOnInvalid = TRUE
      <4>1. /\ safe_int_div_mod(op, x, y, TRUE) \in Nullable(Values)
            /\ Meaning(safe_int_div_mod(op, x, y, TRUE)) = SqlDivide(op, Meaning(x), Meaning(y), TRUE)
        BY ZenonT(60), <2>1, Division
      <4> QED BY <3>1, <4>1
    <3>2. CASE nullOnInvalid = FALSE
      <4>1. /\ safe_int_div_mod(op, x, y, FALSE) \in Nullable(Values)
            /\ Meaning(safe_int_div_mod(op, x, y, FALSE)) = SqlDivide(op, Meaning(x), Meaning(y), FALSE)
        BY ZenonT(60), <2>1, Division
      <4> QED BY <3>2, <4>1
    <3> QED BY <3>1, <3>2
  <2> QED BY <2>1, <2>2 DEF x, y
<1> QED BY <1>2, Unchecked, KeepsVar

\* Comparisons, some of them with zero or with the bits two values share.
LEMMA CompareStep ==
  ASSUME Inv, Compare
  PROVE  Inv'
<1> PICK c \in Conds, l \in Vars, r \in Vars :
      /\ NoCheck
      /\ \/ \E op \in CmpOps : SetCond(c, cmp(op, val[l], val[r]), SqlCompare(op, meaning[l], meaning[r]))
         \/ SetCond(c, bit_test(val[l], val[r]), SqlCompare("NotEqual", SqlArith("And", meaning[l], meaning[r]), <<Zero>>))
         \/ SetCond(c, bit_testn(val[l], val[r]), SqlCompare("Equal", SqlArith("And", meaning[l], meaning[r]), <<Zero>>))
         \/ SetCond(c, is_positive(val[l]), SqlCompare("Greater", meaning[l], <<Zero>>))
         \/ SetCond(c, is_negative(val[l]), SqlCompare("Less", meaning[l], <<Zero>>))
  BY DEF Compare
<1>1. /\ val[l] \in Nullable(Values) /\ meaning[l] = Meaning(val[l])
      /\ val[r] \in Nullable(Values) /\ meaning[r] = Meaning(val[r])
  BY Fields
<1>2. Plain(Zero) \in Nullable(Values) /\ Meaning(Plain(Zero)) = <<Zero>>
  BY PlainValue, ValuesAssumption
<1>3. ASSUME NEW op \in CmpOps, NEW x \in Nullable(Values), NEW y \in Nullable(Values),
             SetCond(c, cmp(op, x, y), SqlCompare(op, Meaning(x), Meaning(y)))
      PROVE  Inv'
  <2>1. cmp(op, x, y) \in Nullable(BOOLEAN) /\ Meaning(cmp(op, x, y)) = SqlCompare(op, Meaning(x), Meaning(y))
    BY StrictCompare
  <2> QED BY <1>3, <2>1, KeepsCond
<1>4. /\ arith_binary("And", val[l], val[r]) \in Nullable(Values)
      /\ Meaning(arith_binary("And", val[l], val[r])) = SqlArith("And", meaning[l], meaning[r])
  BY <1>1, StrictArith, ArithAssumption
<1>5. {"Equal", "NotEqual", "Greater", "Less"} \subseteq CmpOps
  BY CompareAssumption
<1>6. CASE \E op \in CmpOps : SetCond(c, cmp(op, val[l], val[r]), SqlCompare(op, meaning[l], meaning[r]))
  BY <1>1, <1>3, <1>6
<1>7. CASE SetCond(c, bit_test(val[l], val[r]), SqlCompare("NotEqual", SqlArith("And", meaning[l], meaning[r]), <<Zero>>))
  BY <1>2, <1>3, <1>4, <1>5, <1>7 DEF bit_test
<1>8. CASE SetCond(c, bit_testn(val[l], val[r]), SqlCompare("Equal", SqlArith("And", meaning[l], meaning[r]), <<Zero>>))
  BY <1>2, <1>3, <1>4, <1>5, <1>8 DEF bit_testn
<1>9. CASE SetCond(c, is_positive(val[l]), SqlCompare("Greater", meaning[l], <<Zero>>))
  BY <1>1, <1>2, <1>3, <1>5, <1>9 DEF is_positive
<1>10. CASE SetCond(c, is_negative(val[l]), SqlCompare("Less", meaning[l], <<Zero>>))
  BY <1>1, <1>2, <1>3, <1>5, <1>10 DEF is_negative
<1> QED BY <1>6, <1>7, <1>8, <1>9, <1>10

LEMMA ConnectStep ==
  ASSUME Inv, Connect
  PROVE  Inv'
<1> PICK c \in Conds, p \in Conds, q \in Conds :
      /\ NoCheck
      /\ \/ SetCond(c, not_(cond[p]), SqlNot(truth[p]))
         \/ \E op \in LogicOps : SetCond(c, predicate_binary(op, cond[p], cond[q]), SqlLogic(op, truth[p], truth[q]))
  BY DEF Connect
<1>1. /\ cond[p] \in Nullable(BOOLEAN) /\ truth[p] = Meaning(cond[p])
      /\ cond[q] \in Nullable(BOOLEAN) /\ truth[q] = Meaning(cond[q])
  BY Fields
<1>2. CASE SetCond(c, not_(cond[p]), SqlNot(truth[p]))
  <2>1. not_(cond[p]) \in Nullable(BOOLEAN) /\ Meaning(not_(cond[p])) = SqlNot(truth[p])
    BY <1>1, StrictNot
  <2> QED BY <1>2, <2>1, KeepsCond
<1>3. ASSUME NEW op \in LogicOps, SetCond(c, predicate_binary(op, cond[p], cond[q]), SqlLogic(op, truth[p], truth[q]))
      PROVE  Inv'
  <2>1. /\ predicate_binary(op, cond[p], cond[q]) \in Nullable(BOOLEAN)
        /\ Meaning(predicate_binary(op, cond[p], cond[q])) = SqlLogic(op, truth[p], truth[q])
    BY <1>1, StrictLogic
  <2> QED BY <1>3, <2>1, KeepsCond
<1> QED BY <1>2, <1>3

\* A question with a plain answer.
LEMMA Answers ==
  ASSUME Inv, NoCheck, NEW c \in Conds, NEW b \in BOOLEAN, SetCond(c, Plain(b), <<b>>)
  PROVE  Inv'
<1>1. Plain(b) \in Nullable(BOOLEAN) /\ Meaning(Plain(b)) = <<b>>
  BY PlainValue
<1> QED BY <1>1, KeepsCond

LEMMA AskNullStep ==
  ASSUME Inv, AskNull
  PROVE  Inv'
<1> PICK c \in Conds, l \in Vars, r \in Vars :
      /\ NoCheck
      /\ \/ SetCond(c, Plain(is_null(val[l])), <<meaning[l] = NULL>>)
         \/ SetCond(c, Plain(is_not_null(val[l])), <<meaning[l] # NULL>>)
         \/ SetCond(c, Plain(is_distinct(val[l], val[r])), <<meaning[l] # meaning[r]>>)
         \/ SetCond(c, Plain(is_not_distinct(val[l], val[r])), <<meaning[l] = meaning[r]>>)
         \/ SetCond(c, true_unless_null(val[l]), IF meaning[l] = NULL THEN NULL ELSE <<TRUE>>)
  BY DEF AskNull
<1>1. /\ val[l] \in Nullable(Values) /\ meaning[l] = Meaning(val[l])
      /\ val[r] \in Nullable(Values) /\ meaning[r] = Meaning(val[r])
  BY Fields
<1>2. /\ is_null(val[l]) = (meaning[l] = NULL)
      /\ is_not_null(val[l]) = (meaning[l] # NULL)
  BY <1>1, Nulls
<1>3. /\ is_distinct(val[l], val[r]) = (meaning[l] # meaning[r])
      /\ is_not_distinct(val[l], val[r]) = (meaning[l] = meaning[r])
  BY <1>1, Distinct
<1>4. /\ true_unless_null(val[l]) \in Nullable(BOOLEAN)
      /\ Meaning(true_unless_null(val[l])) = IF meaning[l] = NULL THEN NULL ELSE <<TRUE>>
  BY <1>1, TrueUnlessNull
<1>5. CASE SetCond(c, Plain(is_null(val[l])), <<meaning[l] = NULL>>)
  BY <1>2, <1>5, Answers
<1>6. CASE SetCond(c, Plain(is_not_null(val[l])), <<meaning[l] # NULL>>)
  BY <1>2, <1>6, Answers
<1>7. CASE SetCond(c, Plain(is_distinct(val[l], val[r])), <<meaning[l] # meaning[r]>>)
  BY <1>3, <1>7, Answers
<1>8. CASE SetCond(c, Plain(is_not_distinct(val[l], val[r])), <<meaning[l] = meaning[r]>>)
  BY <1>3, <1>8, Answers
<1>9. CASE SetCond(c, true_unless_null(val[l]), IF meaning[l] = NULL THEN NULL ELSE <<TRUE>>)
  BY <1>4, <1>9, KeepsCond
<1> QED BY <1>5, <1>6, <1>7, <1>8, <1>9

LEMMA AskTruthStep ==
  ASSUME Inv, AskTruth
  PROVE  Inv'
<1> PICK c \in Conds, p \in Conds :
      /\ NoCheck
      /\ \/ SetCond(c, Plain(is_true(cond[p])), <<truth[p] = <<TRUE>>>>)
         \/ SetCond(c, Plain(is_not_true(cond[p])), <<truth[p] # <<TRUE>>>>)
         \/ SetCond(c, Plain(is_false(cond[p])), <<truth[p] = <<FALSE>>>>)
         \/ SetCond(c, Plain(is_not_false(cond[p])), <<truth[p] # <<FALSE>>>>)
  BY DEF AskTruth
<1>1. cond[p] \in Nullable(BOOLEAN) /\ truth[p] = Meaning(cond[p])
  BY Fields
<1>2. /\ is_true(cond[p]) = (truth[p] = <<TRUE>>)
      /\ is_not_true(cond[p]) = (truth[p] # <<TRUE>>)
      /\ is_false(cond[p]) = (truth[p] = <<FALSE>>)
      /\ is_not_false(cond[p]) = (truth[p] # <<FALSE>>)
  BY <1>1, Truths
<1> QED BY <1>2, Answers

LEMMA ChooseStep ==
  ASSUME Inv, Choose
  PROVE  Inv'
<1> PICK v \in Vars, l \in Vars, r \in Vars, p \in Conds :
      /\ NoCheck
      /\ \/ SetVar(v, nullif(val[l], val[r]),
                  IF meaning[l] # NULL /\ meaning[l] = meaning[r] THEN NULL ELSE meaning[l])
         \/ SetVar(v, if_else_null(cond[p], val[l]), SqlIf(truth[p], meaning[l], NULL))
         \/ SetVar(v, if_else(cond[p], val[l], val[r]), SqlIf(truth[p], meaning[l], meaning[r]))
  BY DEF Choose
<1>1. /\ val[l] \in Nullable(Values) /\ meaning[l] = Meaning(val[l])
      /\ val[r] \in Nullable(Values) /\ meaning[r] = Meaning(val[r])
      /\ cond[p] \in Nullable(BOOLEAN) /\ truth[p] = Meaning(cond[p])
  BY Fields
<1>2. fault' \in BOOLEAN /\ meantFault' = fault'
  BY Unchecked
<1>3. /\ nullif(val[l], val[r]) \in Nullable(Values)
      /\ Meaning(nullif(val[l], val[r])) = IF meaning[l] # NULL /\ meaning[l] = meaning[r] THEN NULL ELSE meaning[l]
  BY <1>1, NullIf
<1>4. /\ if_else_null(cond[p], val[l]) \in Nullable(Values)
      /\ Meaning(if_else_null(cond[p], val[l])) = SqlIf(truth[p], meaning[l], NULL)
  BY <1>1, IfElseNull
<1>5. /\ if_else(cond[p], val[l], val[r]) \in Nullable(Values)
      /\ Meaning(if_else(cond[p], val[l], val[r])) = SqlIf(truth[p], meaning[l], meaning[r])
  BY <1>1, IfElse
<1>6. CASE SetVar(v, nullif(val[l], val[r]),
                  IF meaning[l] # NULL /\ meaning[l] = meaning[r] THEN NULL ELSE meaning[l])
  BY <1>2, <1>3, <1>6, KeepsVar
<1>7. CASE SetVar(v, if_else_null(cond[p], val[l]), SqlIf(truth[p], meaning[l], NULL))
  BY <1>2, <1>4, <1>7, KeepsVar
<1>8. CASE SetVar(v, if_else(cond[p], val[l], val[r]), SqlIf(truth[p], meaning[l], meaning[r]))
  BY <1>2, <1>5, <1>8, KeepsVar
<1> QED BY <1>6, <1>7, <1>8

\* The arguments of a call and what they mean.
AreVars(n, us, xs, ms) ==
  /\ xs \in [1 .. n -> Nullable(Values)]
  /\ xs = [k \in 1 .. n |-> val[us[k]]] /\ ms = [k \in 1 .. n |-> meaning[us[k]]]
  /\ ms = [k \in 1 .. n |-> Meaning(xs[k])]
AreConds(n, us, ps, ts) ==
  /\ ps \in [1 .. n -> Nullable(BOOLEAN)]
  /\ ps = [k \in 1 .. n |-> cond[us[k]]] /\ ts = [k \in 1 .. n |-> truth[us[k]]]
  /\ ts = [k \in 1 .. n |-> Meaning(ps[k])]

LEMMA Arguments ==
  ASSUME Inv, NEW n \in Nat
  PROVE  /\ \A us \in [1 .. n -> Vars] : \E xs, ms : AreVars(n, us, xs, ms)
         /\ \A us \in [1 .. n -> Conds] : \E ps, ts : AreConds(n, us, ps, ts)
<1>1. ASSUME NEW us \in [1 .. n -> Vars]
      PROVE  \E xs, ms : AreVars(n, us, xs, ms)
  <2> DEFINE xs == [k \in 1 .. n |-> val[us[k]]]
             ms == [k \in 1 .. n |-> meaning[us[k]]]
  <2>1. \A k \in 1 .. n : us[k] \in Vars
    OBVIOUS
  <2>2. xs \in [1 .. n -> Nullable(Values)]
    BY <2>1, Fields
  <2>3. ms = [k \in 1 .. n |-> Meaning(xs[k])]
    BY <2>1, Fields
  <2> QED BY <2>2, <2>3 DEF AreVars
<1>2. ASSUME NEW us \in [1 .. n -> Conds]
      PROVE  \E ps, ts : AreConds(n, us, ps, ts)
  <2> DEFINE ps == [k \in 1 .. n |-> cond[us[k]]]
             ts == [k \in 1 .. n |-> truth[us[k]]]
  <2>1. \A k \in 1 .. n : us[k] \in Conds
    OBVIOUS
  <2>2. ps \in [1 .. n -> Nullable(BOOLEAN)]
    BY <2>1, Fields
  <2>3. ts = [k \in 1 .. n |-> Meaning(ps[k])]
    BY <2>1, Fields
  <2> QED BY <2>2, <2>3 DEF AreConds
<1> QED BY <1>1, <1>2

LEMMA ExtremeStep ==
  ASSUME Inv, Extreme
  PROVE  Inv'
<1> PICK v \in Vars, op \in {"Max", "Min"}, n \in 1 .. MaxSpan : \E args \in [1 .. n -> Vars] :
      /\ NoCheck
      /\ SetVar(v, FoldedArith(op, [k \in 1 .. n |-> val[args[k]]]), SqlExtreme(op, [k \in 1 .. n |-> meaning[args[k]]]))
  BY DEF Extreme
<1> PICK args \in [1 .. n -> Vars] :
      /\ NoCheck
      /\ SetVar(v, FoldedArith(op, [k \in 1 .. n |-> val[args[k]]]), SqlExtreme(op, [k \in 1 .. n |-> meaning[args[k]]]))
  OBVIOUS
<1>1. PICK xs, ms : AreVars(n, args, xs, ms)
  <2>1. n \in Nat
    BY SpanAssumption
  <2> QED BY Zenon, <2>1, Arguments
<1>2. fault' \in BOOLEAN /\ meantFault' = fault'
  BY Unchecked
<1>3. n \in Nat \ {0}
  BY SpanAssumption
<1>4. FoldedArith(op, xs) \in Nullable(Values) /\ Meaning(FoldedArith(op, xs)) = SqlExtreme(op, ms)
  <2>1. /\ FoldedArith(op, xs) \in Nullable(Values)
        /\ Meaning(FoldedArith(op, xs)) = SqlExtreme(op, [k \in 1 .. n |-> Meaning(xs[k])])
    BY Zenon, <1>1, <1>3, FoldedArithIsSql DEF AreVars
  <2> QED BY <1>1, <2>1 DEF AreVars
<1> QED BY <1>1, <1>2, <1>4, KeepsVar DEF AreVars

LEMMA ConnectAllStep ==
  ASSUME Inv, ConnectAll
  PROVE  Inv'
<1> PICK c \in Conds, n \in 1 .. MaxSpan : \E args \in [1 .. n -> Conds] :
      /\ NoCheck
      /\ \/ SetCond(c, FoldedLogic("And", [k \in 1 .. n |-> cond[args[k]]]), SqlAll([k \in 1 .. n |-> truth[args[k]]]))
         \/ SetCond(c, FoldedLogic("Or", [k \in 1 .. n |-> cond[args[k]]]), SqlAny([k \in 1 .. n |-> truth[args[k]]]))
  BY DEF ConnectAll
<1> PICK args \in [1 .. n -> Conds] :
      /\ NoCheck
      /\ \/ SetCond(c, FoldedLogic("And", [k \in 1 .. n |-> cond[args[k]]]), SqlAll([k \in 1 .. n |-> truth[args[k]]]))
         \/ SetCond(c, FoldedLogic("Or", [k \in 1 .. n |-> cond[args[k]]]), SqlAny([k \in 1 .. n |-> truth[args[k]]]))
  OBVIOUS
<1>1. PICK ps, ts : AreConds(n, args, ps, ts)
  <2>1. n \in Nat
    BY SpanAssumption
  <2> QED BY Zenon, <2>1, Arguments
<1>2. n \in Nat \ {0} /\ "And" \in {"And", "Or"} /\ "Or" \in {"And", "Or"}
  BY SpanAssumption
<1>3. FoldedLogic("And", ps) \in Nullable(BOOLEAN) /\ Meaning(FoldedLogic("And", ps)) = SqlAll(ts)
  <2>1. /\ FoldedLogic("And", ps) \in Nullable(BOOLEAN)
        /\ Meaning(FoldedLogic("And", ps)) = SqlAll([k \in 1 .. n |-> Meaning(ps[k])])
    BY <1>1, <1>2, FoldedLogicIsSql DEF AreConds
  <2> QED BY <1>1, <2>1 DEF AreConds
<1>4. FoldedLogic("Or", ps) \in Nullable(BOOLEAN) /\ Meaning(FoldedLogic("Or", ps)) = SqlAny(ts)
  <2>1. /\ FoldedLogic("Or", ps) \in Nullable(BOOLEAN)
        /\ Meaning(FoldedLogic("Or", ps)) = SqlAny([k \in 1 .. n |-> Meaning(ps[k])])
    BY <1>1, <1>2, FoldedLogicIsSql DEF AreConds
  <2> QED BY <1>1, <2>1 DEF AreConds
<1> QED BY <1>1, <1>3, <1>4, KeepsCond DEF AreConds

LEMMA CoalesceStep ==
  ASSUME Inv, Coalesce
  PROVE  Inv'
<1> PICK v \in Vars, n \in 1 .. MaxSpan : \E args \in [1 .. n -> Vars] :
      /\ NoCheck
      /\ SetVar(v, coalesce([k \in 1 .. n |-> val[args[k]]]), SqlCoalesce([k \in 1 .. n |-> meaning[args[k]]]))
  BY DEF Coalesce
<1> PICK args \in [1 .. n -> Vars] :
      /\ NoCheck
      /\ SetVar(v, coalesce([k \in 1 .. n |-> val[args[k]]]), SqlCoalesce([k \in 1 .. n |-> meaning[args[k]]]))
  OBVIOUS
<1>1. PICK xs, ms : AreVars(n, args, xs, ms)
  <2>1. n \in Nat
    BY SpanAssumption
  <2> QED BY Zenon, <2>1, Arguments
<1>2. fault' \in BOOLEAN /\ meantFault' = fault'
  BY Unchecked
<1>3. n \in Nat \ {0}
  BY SpanAssumption
<1>4. coalesce(xs) \in Nullable(Values) /\ Meaning(coalesce(xs)) = SqlCoalesce(ms)
  BY ZenonT(60), <1>1, <1>3, CoalesceSpan DEF AreVars
<1> QED BY <1>1, <1>2, <1>4, KeepsVar DEF AreVars

\* The default branch, if there is one, is a variable like the others.
LEMMA DefaultBranch ==
  ASSUME Inv, NEW default \in Defaults
  PROVE  \E other, meant :
           /\ other = [k \in DOMAIN default |-> val[default[k]]]
           /\ meant = [k \in DOMAIN default |-> meaning[default[k]]]
           /\ AreDefaults(other, meant)
<1> DEFINE other == [k \in DOMAIN default |-> val[default[k]]]
           meant == [k \in DOMAIN default |-> meaning[default[k]]]
<1>1. default = <<>> => other = <<>> /\ meant = <<>>
  OBVIOUS
<1>2. ASSUME NEW v \in Vars, default = <<v>>
      PROVE  other # <<>> /\ other[1] \in Nullable(Values) /\ meant # <<>> /\ meant[1] = Meaning(other[1])
  <2>1. DOMAIN default = 1 .. 1 /\ default[1] = v /\ 1 \in DOMAIN default
    BY <1>2
  <2>2. other[1] = val[v] /\ meant[1] = meaning[v] /\ DOMAIN other = DOMAIN default /\ DOMAIN meant = DOMAIN default
    BY <2>1
  <2>3. other # <<>> /\ meant # <<>>
    <3>1. DOMAIN <<>> = 1 .. 0 /\ 1 \notin 1 .. 0
      OBVIOUS
    <3> QED BY <2>1, <2>2, <3>1
  <2> QED BY <2>2, <2>3, Fields
<1>3. AreDefaults(other, meant)
  BY <1>1, <1>2 DEF AreDefaults, Defaults
<1> QED BY <1>3

LEMMA CaseWhenStep ==
  ASSUME Inv, CaseWhen
  PROVE  Inv'
<1> PICK v \in Vars, n \in 1 .. MaxBranches, default \in Defaults :
      \E qs \in [1 .. n -> Conds], us \in [1 .. n -> Vars] :
        /\ NoCheck
        /\ SetVar(v, case_when([k \in 1 .. n |-> cond[qs[k]]], [k \in 1 .. n |-> val[us[k]]],
                              [k \in DOMAIN default |-> val[default[k]]]),
                  SqlCase([k \in 1 .. n |-> truth[qs[k]]], [k \in 1 .. n |-> meaning[us[k]]],
                          [k \in DOMAIN default |-> meaning[default[k]]]))
  BY DEF CaseWhen
<1>1. PICK qs \in [1 .. n -> Conds], us \in [1 .. n -> Vars] :
        /\ NoCheck
        /\ SetVar(v, case_when([k \in 1 .. n |-> cond[qs[k]]], [k \in 1 .. n |-> val[us[k]]],
                              [k \in DOMAIN default |-> val[default[k]]]),
                  SqlCase([k \in 1 .. n |-> truth[qs[k]]], [k \in 1 .. n |-> meaning[us[k]]],
                          [k \in DOMAIN default |-> meaning[default[k]]]))
  OBVIOUS
<1>2. PICK other, meant :
        /\ other = [k \in DOMAIN default |-> val[default[k]]]
        /\ meant = [k \in DOMAIN default |-> meaning[default[k]]]
        /\ AreDefaults(other, meant)
  BY DefaultBranch
<1>3. PICK ps, ts : AreConds(n, qs, ps, ts)
  <2>1. n \in Nat
    BY SpanAssumption
  <2> QED BY Zenon, <2>1, Arguments
<1>4. PICK xs, ms : AreVars(n, us, xs, ms)
  <2>1. n \in Nat
    BY SpanAssumption
  <2> QED BY Zenon, <2>1, Arguments
<1>5. fault' \in BOOLEAN /\ meantFault' = fault'
  BY <1>1, Unchecked
<1>6. n \in Nat \ {0}
  BY SpanAssumption
<1>7. case_when(ps, xs, other) \in Nullable(Values) /\ Meaning(case_when(ps, xs, other)) = SqlCase(ts, ms, meant)
  <2>1. IsSqlCase(n, ps, xs, other, meant)
    <3>1. ps \in [1 .. n -> Nullable(BOOLEAN)] /\ xs \in [1 .. n -> Nullable(Values)]
      BY <1>3, <1>4 DEF AreVars, AreConds
    <3>2. AreDefaults(other, meant)
      BY <1>2
    <3> QED BY Zenon, <1>6, <3>1, <3>2, CaseIsSql
  <2> QED BY <1>3, <1>4, <2>1 DEF AreVars, AreConds, IsSqlCase
<1>8. SetVar(v, case_when(ps, xs, other), SqlCase(ts, ms, meant))
  BY <1>1, <1>2, <1>3, <1>4 DEF AreVars, AreConds
<1> QED BY <1>5, <1>7, <1>8, KeepsVar

LEMMA CaseXWhenStep ==
  ASSUME Inv, CaseXWhen
  PROVE  Inv'
<1> PICK v \in Vars, l \in Vars, n \in 1 .. MaxBranches, default \in Defaults :
      \E keys \in [1 .. n -> Vars], us \in [1 .. n -> Vars] :
        /\ NoCheck
        /\ SetVar(v, case_x_when(val[l], [k \in 1 .. n |-> val[keys[k]]], [k \in 1 .. n |-> val[us[k]]],
                                [k \in DOMAIN default |-> val[default[k]]]),
                  SqlCase([k \in 1 .. n |-> SqlCompare("Equal", meaning[l], meaning[keys[k]])],
                          [k \in 1 .. n |-> meaning[us[k]]], [k \in DOMAIN default |-> meaning[default[k]]]))
  BY DEF CaseXWhen
<1>1. PICK keys \in [1 .. n -> Vars], us \in [1 .. n -> Vars] :
        /\ NoCheck
        /\ SetVar(v, case_x_when(val[l], [k \in 1 .. n |-> val[keys[k]]], [k \in 1 .. n |-> val[us[k]]],
                                [k \in DOMAIN default |-> val[default[k]]]),
                  SqlCase([k \in 1 .. n |-> SqlCompare("Equal", meaning[l], meaning[keys[k]])],
                          [k \in 1 .. n |-> meaning[us[k]]], [k \in DOMAIN default |-> meaning[default[k]]]))
  OBVIOUS
<1>2. PICK other, meant :
        /\ other = [k \in DOMAIN default |-> val[default[k]]]
        /\ meant = [k \in DOMAIN default |-> meaning[default[k]]]
        /\ AreDefaults(other, meant)
  BY DefaultBranch
<1>3. PICK ks \in [1 .. n -> Nullable(Values)] : ks = [k \in 1 .. n |-> val[keys[k]]]
  <2>1. \A k \in 1 .. n : keys[k] \in Vars
    OBVIOUS
  <2> QED BY <2>1, Fields
<1>4. PICK xs, ms : AreVars(n, us, xs, ms)
  <2>1. n \in Nat
    BY SpanAssumption
  <2> QED BY Zenon, <2>1, Arguments
<1> DEFINE ps == [k \in 1 .. n |-> cmp("Equal", val[l], ks[k])]
           ts == [k \in 1 .. n |-> SqlCompare("Equal", meaning[l], meaning[keys[k]])]
<1>5. ps \in [1 .. n -> Nullable(BOOLEAN)] /\ ts = [k \in 1 .. n |-> Meaning(ps[k])]
  <2>1. \A k \in 1 .. n : keys[k] \in Vars /\ ks[k] = val[keys[k]] /\ ks[k] \in Nullable(Values)
    BY <1>3
  <2>2. "Equal" \in CmpOps /\ val[l] \in Nullable(Values) /\ meaning[l] = Meaning(val[l])
    BY CompareAssumption, Fields
  <2>3. ASSUME NEW k \in 1 .. n
        PROVE  /\ cmp("Equal", val[l], ks[k]) \in Nullable(BOOLEAN)
               /\ Meaning(cmp("Equal", val[l], ks[k])) = SqlCompare("Equal", meaning[l], meaning[keys[k]])
    <3>1. meaning[keys[k]] = Meaning(ks[k])
      BY <2>1, Fields
    <3> QED BY <2>1, <2>2, <3>1, StrictCompare
  <2> QED BY <2>3
<1>6. fault' \in BOOLEAN /\ meantFault' = fault'
  BY <1>1, Unchecked
<1>7. n \in Nat \ {0} /\ Len(ks) = n
  BY SpanAssumption
<1>8. case_when(ps, xs, other) \in Nullable(Values) /\ Meaning(case_when(ps, xs, other)) = SqlCase(ts, ms, meant)
  <2> HIDE DEF ps, ts
  <2>1. IsSqlCase(n, ps, xs, other, meant)
    <3>1. xs \in [1 .. n -> Nullable(Values)]
      BY <1>4 DEF AreVars
    <3>2. AreDefaults(other, meant) /\ ps \in [1 .. n -> Nullable(BOOLEAN)]
      BY <1>2, <1>5
    <3> QED BY Zenon, <1>7, <3>1, <3>2, CaseIsSql
  <2> QED BY <1>4, <1>5, <2>1 DEF AreVars, IsSqlCase
<1>9. case_x_when(val[l], ks, xs, other) = case_when(ps, xs, other)
  BY <1>7 DEF case_x_when
<1> HIDE DEF ps
<1>10. SetVar(v, case_when(ps, xs, other), SqlCase(ts, ms, meant))
  BY <1>1, <1>2, <1>3, <1>4, <1>9 DEF AreVars
<1> HIDE DEF ts
<1> QED BY <1>6, <1>8, <1>10, KeepsVar

LEMMA Stutters ==
  ASSUME Inv, UNCHANGED vars
  PROVE  Inv'
BY DEF Inv, vars, TypeOK, MeansWhatSqlSays, NullsDoNotOverflow

LEMMA Invariant == Spec => []Inv
<1>1. Init => Inv
  BY Initially
<1>2. Inv /\ [Next]_vars => Inv'
  BY LoadStep, LoadPredicateStep, ArithBinaryStep, ArithUnaryStep, DivideStep, CompareStep, ConnectStep,
     AskNullStep, AskTruthStep, ChooseStep, ExtremeStep, ConnectAllStep, CoalesceStep, CaseWhenStep,
     CaseXWhenStep, Stutters DEF Next, Simple, Spans
<1> QED BY <1>1, <1>2, PTL DEF Spec

\* Through any number of calls the builder's values are of their type, and each has
\* a null mask of one bit or none.
THEOREM TypeCorrect == Spec => []TypeOK
<1>1. Inv => TypeOK
  BY DEF Inv
<1> QED BY <1>1, Invariant, PTL

\* Through any number of calls, with argument lists of any length, values and
\* predicates mean what SQL says.
THEOREM NullsAreSql == Spec => []MeansWhatSqlSays
<1>1. Inv => MeansWhatSqlSays
  BY DEF Inv
<1> QED BY <1>1, Invariant, PTL

\* A checked operation never reports an overflow for what lies under a NULL, and
\* never leaves one out for a value that is not NULL.
THEOREM NullsAreNotReported == Spec => []NullsDoNotOverflow
<1>1. Inv => NullsDoNotOverflow
  BY DEF Inv
<1> QED BY <1>1, Invariant, PTL

(***************************************************************************)
(* Outputs, in any state in which values mean what they should.             *)
(***************************************************************************)
LEMMA Rereads ==
  ASSUME NEW S, NEW x \in Nullable(S), NEW trueMeansNull \in BOOLEAN
  PROVE  Meaning(MaskedLoad(MaskedStore(x, trueMeansNull).value, MaskedStore(x, trueMeansNull).bit, trueMeansNull))
           = Meaning(x)
<1>1. /\ x.v \in S /\ Meaning(x) = (IF x.null = <<TRUE>> THEN NULL ELSE <<x.v>>)
      /\ x.null = None \/ x.null = <<TRUE>> \/ x.null = <<FALSE>>
  BY Split
<1> DEFINE bit == store_null_mask(x.null, trueMeansNull)
           b == normalize_null_mask(bit, trueMeansNull)
<1>2. MaskedStore(x, trueMeansNull).value = x.v /\ MaskedStore(x, trueMeansNull).bit = bit
  BY DEF MaskedStore
<1>3. (b = TRUE \/ b = FALSE) /\ (b <=> x.null = <<TRUE>>)
  <2>1. CASE x.null = None
    BY <2>1, MaskBit DEF store_null_mask, normalize_null_mask
  <2>2. CASE x.null = <<TRUE>>
    BY <2>2, MaskBit DEF store_null_mask, normalize_null_mask
  <2>3. CASE x.null = <<FALSE>>
    BY <2>3, MaskBit DEF store_null_mask, normalize_null_mask
  <2> QED BY <1>1, <2>1, <2>2, <2>3
<1>4. MaskedLoad(x.v, bit, trueMeansNull) = WithNull(x.v, <<b>>)
  BY DEF MaskedLoad
<1> DEFINE v == x.v
<1>5. v \in S
  BY <1>1
<1> HIDE DEF b, bit, v
<1>6. Meaning(WithNull(v, <<b>>)) = IF b THEN NULL ELSE <<v>>
  <2>1. <<TRUE>> \in MaybePredicates /\ <<FALSE>> \in MaybePredicates /\ <<FALSE>> # <<TRUE>>
    BY DEF MaybePredicates
  <2>2. CASE b = TRUE
    <3>1. Meaning(WithNull(v, <<TRUE>>)) = NULL
      BY ZenonT(60), <1>5, <2>1, MeaningOf
    <3> QED BY <2>2, <3>1
  <2>3. CASE b = FALSE
    <3>1. Meaning(WithNull(v, <<FALSE>>)) = <<v>>
      BY <1>5, <2>1, MeaningOf
    <3> QED BY <2>3, <3>1
  <2> QED BY <1>3, <2>2, <2>3
<1> QED BY <1>1, <1>2, <1>3, <1>4, <1>6 DEF v

LEMMA RereadsSentinel ==
  ASSUME NEW x \in Nullable(Values), NEW nval \in Values
  PROVE  Meaning(nval_load(nval_stored(x, nval), nval)) = IF Meaning(x) = <<nval>> THEN NULL ELSE Meaning(x)
<1>1. /\ x.v \in Values /\ Meaning(x) = (IF x.null = <<TRUE>> THEN NULL ELSE <<x.v>>)
      /\ x.null = None \/ x.null = <<TRUE>> \/ x.null = <<FALSE>>
  BY Split
<1>2. <<nval>> # NULL
  BY DEF NULL
<1>3. ASSUME NEW y \in Values
      PROVE  Meaning(nval_load(y, nval)) = IF y = nval THEN NULL ELSE <<y>>
  <2>1. CASE y = nval
    <3>1. nval_load(y, nval) = WithNull(y, <<TRUE>>)
      BY <2>1 DEF nval_load
    <3>2. <<TRUE>> \in MaybePredicates
      BY DEF MaybePredicates
    <3>3. Meaning(WithNull(y, <<TRUE>>)) = NULL
      BY <3>2, MeaningOf
    <3> QED BY <2>1, <3>1, <3>3
  <2>2. CASE y # nval
    <3>1. nval_load(y, nval) = WithNull(y, <<FALSE>>)
      BY <2>2 DEF nval_load
    <3>2. <<FALSE>> \in MaybePredicates /\ <<FALSE>> # <<TRUE>>
      BY DEF MaybePredicates
    <3>3. Meaning(WithNull(y, <<FALSE>>)) = <<y>>
      BY <3>2, MeaningOf
    <3> QED BY <2>2, <3>1, <3>3
  <2> QED BY <2>1, <2>2
<1>4. CASE x.null = <<TRUE>>
  <2>1. nval_stored(x, nval) = nval /\ Meaning(x) = NULL
    BY <1>1, <1>4, MaskBit DEF nval_stored
  <2> QED BY <1>2, <1>3, <2>1
<1>5. CASE x.null # <<TRUE>>
  <2>1. nval_stored(x, nval) = x.v /\ Meaning(x) = <<x.v>>
    BY <1>1, <1>5, MaskBit DEF nval_stored
  <2>2. <<x.v>> = <<nval>> <=> x.v = nval
    OBVIOUS
  <2> QED BY <1>1, <1>3, <2>1, <2>2
<1> QED BY <1>4, <1>5

LEMMA Aggregates ==
  ASSUME NEW x \in Nullable(Values), NEW p \in Nullable(BOOLEAN)
  PROVE  /\ arith_agg(x) = Meaning(x)
         /\ cond_arith_agg(x, p) = IF Meaning(p) = <<TRUE>> THEN Meaning(x) ELSE <<>>
<1>1. /\ Meaning(x) = (IF x.null = <<TRUE>> THEN NULL ELSE <<x.v>>)
      /\ x.null = None \/ x.null = <<TRUE>> \/ x.null = <<FALSE>>
  BY Split
<1>2. arith_agg(x) = Meaning(x)
  BY <1>1, MaskBit DEF arith_agg, Added, NULL
<1>3. CASE x.null = None
  <2>1. cond_arith_agg(x, p) = Added(is_true(p), x.v)
    BY <1>3 DEF cond_arith_agg
  <2>2. is_true(p) = (Meaning(p) = <<TRUE>>)
    BY Truths
  <2>3. Meaning(x) = <<x.v>>
    BY <1>1, <1>3, MaskBit
  <2> QED BY <1>2, <2>1, <2>2, <2>3 DEF Added
<1>4. CASE x.null # None
  <2> DEFINE b == ~x.null[1]
             both == predicate_binary("And", p, Plain(b))
  <2>1. (b = TRUE /\ Meaning(x) = <<x.v>>) \/ (b = FALSE /\ Meaning(x) = NULL)
    <3>1. CASE x.null = <<TRUE>>
      BY <1>1, <3>1, MaskBit
    <3>2. CASE x.null = <<FALSE>>
      BY <1>1, <3>2, MaskBit
    <3> QED BY <1>1, <1>4, <3>1, <3>2
  <2> HIDE DEF b
  <2>2. Plain(b) \in Nullable(BOOLEAN) /\ Meaning(Plain(b)) = <<b>>
    BY <2>1, PlainValue
  <2>3. both \in Nullable(BOOLEAN) /\ Meaning(both) = SqlLogic("And", Meaning(p), <<b>>)
    BY <2>2, StrictLogic DEF LogicOps
  <2>4. Meaning(both) = <<TRUE>> <=> Meaning(p) = <<TRUE>> /\ b
    <3>1. Meaning(p) = NULL \/ Meaning(p) = <<TRUE>> \/ Meaning(p) = <<FALSE>>
      <4>1. (p.v = TRUE \/ p.v = FALSE) /\ Meaning(p) = (IF p.null = <<TRUE>> THEN NULL ELSE <<p.v>>)
        <5>1. p.v \in BOOLEAN
          BY Field
        <5>2. Meaning(p) = (IF p.null = <<TRUE>> THEN NULL ELSE <<p.v>>)
          BY Split
        <5> QED BY <5>1, <5>2
      <4> QED BY <4>1
    <3>2. <<b>> # NULL /\ <<b>>[1] = b
      BY DEF NULL
    <3>3. CASE Meaning(p) = NULL
      BY <2>3, <3>3, MaskBit DEF SqlLogic
    <3>4. CASE Meaning(p) = <<TRUE>>
      <4>1. SqlLogic("And", <<TRUE>>, <<b>>) = <<b>>
        BY <2>1, <3>2, MaskBit DEF SqlLogic, Connected
      <4> QED BY <2>1, <2>3, <3>4, <4>1, MaskBit
    <3>5. CASE Meaning(p) = <<FALSE>>
      <4>1. SqlLogic("And", <<FALSE>>, <<b>>) = <<FALSE>>
        BY <2>1, <3>2, MaskBit DEF SqlLogic, Connected
      <4> QED BY <2>3, <3>5, <4>1, MaskBit
    <3> QED BY <3>1, <3>3, <3>4, <3>5
  <2>5. is_true(both) = (Meaning(p) = <<TRUE>> /\ b)
    BY <2>3, <2>4, Truths
  <2>6. cond_arith_agg(x, p) = Added(is_true(both), x.v)
    BY <1>4 DEF cond_arith_agg, b
  <2> HIDE DEF both
  <2> QED BY <1>2, <2>1, <2>5, <2>6 DEF Added, NULL
<1> QED BY <1>2, <1>3, <1>4

\* What is stored reads back after any number of calls, whatever the operations left
\* under the nulls.
THEOREM StoresAreReadBack == Spec => []StoresReadBack
<1>1. Inv => StoresReadBack
  <2> SUFFICES ASSUME Inv PROVE StoresReadBack
    OBVIOUS
  <2> DEFINE reread(x, t) == Meaning(MaskedLoad(MaskedStore(x, t).value, MaskedStore(x, t).bit, t))
  <2>1. ASSUME NEW v \in Vars, NEW trueMeansNull \in BOOLEAN
        PROVE  reread(val[v], trueMeansNull) = meaning[v]
    BY Fields, Rereads
  <2>2. ASSUME NEW c \in Conds, NEW trueMeansNull \in BOOLEAN
        PROVE  reread(cond[c], trueMeansNull) = truth[c]
    BY Fields, Rereads
  <2>3. ASSUME NEW v \in Vars, NEW nval \in Values
        PROVE  Meaning(nval_load(nval_stored(val[v], nval), nval)) = IF meaning[v] = <<nval>> THEN NULL ELSE meaning[v]
    BY SMTT(30), Fields, RereadsSentinel
  <2> QED BY <2>1, <2>2, <2>3 DEF StoresReadBack
<1> QED BY <1>1, Invariant, PTL

\* Aggregates, counts and packs skip NULLs after any number of calls.
THEOREM OutputsAreSql == Spec => []AggregatesSkipNulls
<1>1. Inv => AggregatesSkipNulls
  <2> SUFFICES ASSUME Inv, NEW v \in Vars
               PROVE  /\ arith_agg(val[v]) = meaning[v]
                      /\ count_notnull(val[v]) = Added(meaning[v] # NULL, 1)
                      /\ has_nulls(val[v]) = Added(meaning[v] = NULL, 1)
                      /\ \A c \in Conds :
                           /\ cond_arith_agg(val[v], cond[c]) = IF truth[c] = <<TRUE>> THEN meaning[v] ELSE <<>>
                           /\ countif(cond[c]) = Added(truth[c] = <<TRUE>>, 1)
    BY DEF AggregatesSkipNulls
  <2>1. val[v] \in Nullable(Values) /\ meaning[v] = Meaning(val[v])
    BY Fields
  <2>2. Plain(TRUE) \in Nullable(BOOLEAN)
    BY PlainValue
  <2>3. arith_agg(val[v]) = meaning[v]
    BY <2>1, <2>2, Aggregates
  <2>4. count_notnull(val[v]) = Added(meaning[v] # NULL, 1) /\ has_nulls(val[v]) = Added(meaning[v] = NULL, 1)
    BY <2>1, Nulls DEF count_notnull, has_nulls
  <2>5. ASSUME NEW c \in Conds
        PROVE  /\ cond_arith_agg(val[v], cond[c]) = IF truth[c] = <<TRUE>> THEN meaning[v] ELSE <<>>
               /\ countif(cond[c]) = Added(truth[c] = <<TRUE>>, 1)
    <3>1. cond[c] \in Nullable(BOOLEAN) /\ truth[c] = Meaning(cond[c])
      BY Fields
    <3> QED BY <2>1, <3>1, Aggregates, Truths DEF countif
  <2> QED BY <2>3, <2>4, <2>5
<1> QED BY <1>1, Invariant, PTL
=============================================================================

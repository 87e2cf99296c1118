---------------------------- MODULE MCVectorizer ----------------------------
(***************************************************************************)
(* Programs for the vectorizer, as HIR steps: terms over a column x and a  *)
(* column y of every type, with each subterm a single step.                *)
(***************************************************************************)
EXTENDS Vectorizer

Term(op, dtype, args) == [op |-> op, dtype |-> dtype, name |-> "", args |-> args]
Column(name, dtype) == [op |-> "Load", dtype |-> dtype, name |-> name, args |-> << >>]

RECURSIVE Subterms(_)
Subterms(t) == FlattenSeq([i \in DOMAIN t.args |-> Subterms(t.args[i])]) \o <<t>>

\* The program with the given root terms.
Program(ts) ==
    LET terms == FoldLeft(LAMBDA seen, t : IF Contains(seen, t) THEN seen ELSE Append(seen, t),
                          << >>, FlattenSeq([i \in DOMAIN ts |-> Subterms(ts[i])]))
        Id(t) == SelectInSeq(terms, LAMBDA u : u = t)
    IN  [steps |-> [n \in DOMAIN terms |->
                       [op |-> terms[n].op, dtype |-> terms[n].dtype,
                        args |-> [i \in DOMAIN terms[n].args |-> Id(terms[n].args[i])]]],
         roots |-> [i \in DOMAIN ts |-> Id(ts[i])]]

Ints == {"I8", "I16", "I32", "I64"}
Floats == {"F32", "F64"}

Cast(t, d) ==
    Term(CASE t.dtype \in Floats \/ d \in Floats -> "FloatCast"
           [] Size(t.dtype) > Size(d) -> "Trunc"
           [] OTHER -> "Sext", d, <<t>>)

\* Casts the builder takes as they are (FunctionBuilder::float_cast).
Castable(from, to) ==
    /\ from # to
    /\ from \in Floats \/ to \in Floats => Size(from) >= 2 /\ Size(to) >= 2

x(d) == Column("x", d)
y(d) == Column("y", d)

Casts(d, terms) == {Cast(t, d) : t \in {u \in terms : Castable(u.dtype, d)}}
Once(d) == Casts(d, {x(e) : e \in Ints \cup Floats})
Twice(d) == Casts(d, UNION {Once(e) : e \in Ints \cup Floats})
Plain == {x(d) : d \in Ints \cup Floats}
OnceAll == UNION {Once(d) : d \in Ints \cup Floats}
TwiceAll == UNION {Twice(d) : d \in Ints \cup Floats}

Less(t) == Term("Compare", "I1", <<t, y(t.dtype)>>)
Positive(d) == Term("Compare", "I1", <<y(d), Term("Const", d, << >>)>>)
And(p, q) == Term("PredicateBinary", "I1", <<p, q>>)
Apart(d) == Term("Compare", "I1", <<Column("z", d), Term("Const", d, << >>)>>)
Not(p) == Term("PredicateNot", "I1", <<p>>)
Bits == Column("x", "I1")
Sum(t) == Term("ArithBinary", t.dtype, <<t, y(t.dtype)>>)
Chosen(p, t) == Term("Select", t.dtype, <<p, t, y(t.dtype)>>)

Store(t) == Term("Store", t.dtype, <<t>>)
StoreIf(t, p) == Term("Store", t.dtype, <<t, p>>)
Pack(t, p) == Term("Pack", t.dtype, <<t, p>>)
Scatter(t, i) == Term("Scatter", t.dtype, <<i, t>>)
ScatterIf(t, i, p) == Term("Scatter", t.dtype, <<i, t, p>>)
Aggregate(t) == Term("AccArithBinary", t.dtype, <<t>>)
AggregateIf(t, p) == Term("AccArithBinary", t.dtype, <<t, p>>)
Every(p) == Term("AccPredicateBinary", "I1", <<p>>)
Count(p) == Term("Countif", "I64", <<p>>)
Checked(t) == Term("CheckedOp", t.dtype, <<t>>)
CheckedIf(t, p) == Term("CheckedOp", t.dtype, <<t, p>>)

NEON == [max_mask |-> 4, vec_range |-> 0, unsupported |-> {"Scatter"}]
YMM == [max_mask |-> 5, vec_range |-> 1, unsupported |-> {}]
AVX512 == [max_mask |-> 6, vec_range |-> 2, unsupported |-> {}]
Targets == {NEON, YMM, AVX512}

All == {"Unroll", "MaskCombine", "ProactiveUnroll"}
Input(programs, targets, flags, limits) ==
    [program : {Program(p) : p \in programs}, target : targets,
     transformations : flags, max_roots : limits]

\* One root over any chain of two casts.
Singles == {<<Store(t)>> : t \in Plain \cup OnceAll \cup TwiceAll}

\* One root of every kind over one cast.
Kinds ==
    UNION {{<<Store(Sum(t))>>, <<Store(Less(t))>>, <<Store(Not(Less(t)))>>, <<Count(Less(t))>>,
            <<Every(Less(t))>>, <<StoreIf(t, Positive(t.dtype))>>, <<StoreIf(t, Bits)>>,
            <<Pack(t, Less(t))>>, <<Aggregate(t)>>, <<AggregateIf(t, Positive("I16"))>>,
            <<Store(Chosen(Less(t), t))>>, <<Store(And(Less(t), Positive("I32")))>>} : t \in OnceAll}
        \cup {<<Store(Checked(Sum(t)))>> : t \in {u \in OnceAll : u.dtype \in Ints}}
        \cup UNION {{<<Scatter(t, y("I32"))>>, <<ScatterIf(t, y("I64"), Less(t))>>} :
                       t \in {u \in OnceAll : Size(u.dtype) >= 2}}

\* Two roots, sharing columns, of different widths.
Narrow == {Store(Less(x("I32"))), Store(Less(x("I8"))), Count(Less(x("I16"))), Store(Bits),
           Every(Bits), Pack(x("I16"), Bits)}
Pairs ==
    {<<Store(p[1]), Store(p[2])>> :
        p \in {q \in (OnceAll \cup Plain) \X (OnceAll \cup Plain) : q[1] # q[2]}}
        \cup {<<Store(t), r>> : t \in OnceAll, r \in Narrow}

\* A checked sum under a predicate over another column.
Masked ==
    {<<Store(CheckedIf(Sum(x(d)), p))>> :
        d \in {"I8", "I16", "I32"}, p \in {Bits} \cup {Apart(e) : e \in Ints}}

MCInputs ==
    Input(Singles, Targets, {All, {}}, {16})
        \cup Input(Kinds \cup Masked, Targets, {All, {}}, {16})
        \cup Input(Pairs, Targets, {All}, {16})
        \cup Input(Pairs, {NEON}, {{"MaskCombine"}}, {4})

Widenings == {p \in Ints \X Ints : Size(p[1]) < Size(p[2])}

\* A pack beside a root of more rows.
PackInputs ==
    Input({<<Pack(Cast(x(d), e), Positive(e)), Store(y("I8"))>> : <<d, e>> \in Widenings},
          Targets, {{"Unroll"}}, {16})

\* A checked sum of a column that its predicate widens.
MaskInputs ==
    Input({<<Store(CheckedIf(Sum(x(p[1])), Less(Cast(x(p[1]), p[2]))))>> : p \in Widenings},
          Targets, {{"MaskCombine"}}, {16})
=============================================================================

------------------------ MODULE FunctionBuilderProofs ------------------------
(* A function builder keeps its tables right, whatever is called in whatever  *)
(* order and whatever the rewrites make of it.                                *)
(*                                                                            *)
(* First, what the peepholes of HirPeepholes make of an operation: every      *)
(* rewrite is either an earlier step or a sequence of new ones whose operands *)
(* are earlier steps, as many as their kind takes, and which ask nothing of   *)
(* the target (a product of I64, a variable shift of I8, a Lzcnt of I8, I16). *)
(* A conversion that has to be split becomes conversions that keep the width. *)
(* Then the builder, layer by layer: a step, a call, an action.               *)
EXTENDS FunctionBuilder, InductionLemmas

(***************************************************************************)
(* Sequences of any elements.                                               *)
(***************************************************************************)
IsSeq(s) == \E n \in Nat : DOMAIN s = 1 .. n /\ s = [i \in 1 .. n |-> s[i]]

LEMMA AnySequence ==
  ASSUME NEW s, IsSeq(s)
  PROVE  /\ Len(s) \in Nat /\ DOMAIN s = 1 .. Len(s)
         /\ s = [i \in 1 .. Len(s) |-> s[i]]
         /\ s \in Seq({s[i] : i \in 1 .. Len(s)})
<1>1. PICK n \in Nat : DOMAIN s = 1 .. n /\ s = [i \in 1 .. n |-> s[i]]
  BY DEF IsSeq
<1>2. s \in Seq({s[i] : i \in 1 .. n})
  <2> DEFINE S == {s[i] : i \in 1 .. n}
  <2>1. s \in [1 .. n -> S]
    BY <1>1
  <2> HIDE DEF S
  <2> QED BY <2>1
<1>3. Len(s) = n
  BY <1>1, <1>2
<1> QED BY <1>1, <1>2, <1>3

LEMMA SequenceOf ==
  ASSUME NEW S, NEW s \in Seq(S)
  PROVE  IsSeq(s)
BY DEF IsSeq

LEMMA SequenceFrom ==
  ASSUME NEW s, NEW n \in Nat, DOMAIN s = 1 .. n, s = [i \in 1 .. n |-> s[i]]
  PROVE  IsSeq(s) /\ Len(s) = n
<1>1. IsSeq(s)
  BY DEF IsSeq
<1>2. Len(s) \in Nat /\ 1 .. Len(s) = 1 .. n
  BY <1>1, AnySequence
<1> QED BY <1>1, <1>2

LEMMA Appended ==
  ASSUME NEW s, IsSeq(s), NEW x
  PROVE  /\ IsSeq(Append(s, x)) /\ Len(Append(s, x)) = Len(s) + 1
         /\ DOMAIN Append(s, x) = 1 .. Len(s) + 1
         /\ \A i \in 1 .. Len(s) : Append(s, x)[i] = s[i]
         /\ Append(s, x)[Len(s) + 1] = x
<1> DEFINE S == {s[i] : i \in 1 .. Len(s)} \union {x}
<1>1. s \in Seq(S) /\ x \in S
  <2> DEFINE R == {s[i] : i \in 1 .. Len(s)}
  <2>1. s \in Seq(R) /\ R \subseteq S
    BY AnySequence
  <2> HIDE DEF R, S
  <2>2. s \in Seq(S)
    BY <2>1
  <2> QED BY <2>2 DEF S
<1> HIDE DEF S
<1>2. Append(s, x) \in Seq(S)
  BY <1>1
<1>3. Len(Append(s, x)) = Len(s) + 1 /\ DOMAIN Append(s, x) = 1 .. Len(s) + 1
  BY <1>1
<1>4. \A i \in 1 .. Len(s) : Append(s, x)[i] = s[i]
  BY <1>1
<1>5. Append(s, x)[Len(s) + 1] = x
  BY <1>1
<1> QED BY <1>2, <1>3, <1>4, <1>5, SequenceOf

LEMMA Concatenated ==
  ASSUME NEW s, IsSeq(s), NEW t, IsSeq(t)
  PROVE  /\ IsSeq(s \o t) /\ Len(s \o t) = Len(s) + Len(t)
         /\ DOMAIN (s \o t) = 1 .. Len(s) + Len(t)
         /\ \A i \in 1 .. Len(s) : (s \o t)[i] = s[i]
         /\ \A i \in 1 .. Len(t) : (s \o t)[Len(s) + i] = t[i]
<1> DEFINE R == {s[i] : i \in 1 .. Len(s)}
           Q == {t[i] : i \in 1 .. Len(t)}
           S == R \union Q
<1>1. s \in Seq(R) /\ t \in Seq(Q)
  BY AnySequence
<1> HIDE DEF R, Q
<1>2. s \in Seq(S) /\ t \in Seq(S)
  BY <1>1
<1> HIDE DEF S
<1>3. s \o t \in Seq(S)
  BY <1>2
<1>4. /\ Len(s \o t) = Len(s) + Len(t) /\ DOMAIN (s \o t) = 1 .. Len(s) + Len(t)
  BY <1>2
<1>5. \A i \in 1 .. Len(s) : (s \o t)[i] = s[i]
  BY <1>2
<1>6. \A i \in 1 .. Len(t) : (s \o t)[Len(s) + i] = t[i]
  BY <1>2
<1> QED BY <1>3, <1>4, <1>5, <1>6, SequenceOf

IsJoined(u, s, t) ==
  /\ IsSeq(u) /\ Len(u) = Len(s) + Len(t) /\ DOMAIN u = 1 .. Len(s) + Len(t)
  /\ \A i \in 1 .. Len(s) : u[i] = s[i]
  /\ \A i \in 1 .. Len(t) : u[Len(s) + i] = t[i]

LEMMA Joined ==
  ASSUME NEW s, IsSeq(s), NEW t, IsSeq(t)
  PROVE  IsJoined(s \o t, s, t)
BY Concatenated DEF IsJoined

LEMMA Short ==
  /\ IsSeq(<<>>) /\ Len(<<>>) = 0
  /\ \A x : IsSeq(<<x>>) /\ Len(<<x>>) = 1 /\ <<x>>[1] = x
  /\ \A x, y : IsSeq(<<x, y>>) /\ Len(<<x, y>>) = 2 /\ <<x, y>>[1] = x /\ <<x, y>>[2] = y
  /\ \A x, y, z : IsSeq(<<x, y, z>>) /\ Len(<<x, y, z>>) = 3
                  /\ <<x, y, z>>[1] = x /\ <<x, y, z>>[2] = y /\ <<x, y, z>>[3] = z
  /\ \A x, y, z, u : IsSeq(<<x, y, z, u>>) /\ Len(<<x, y, z, u>>) = 4
                     /\ <<x, y, z, u>>[1] = x /\ <<x, y, z, u>>[2] = y /\ <<x, y, z, u>>[3] = z
                     /\ <<x, y, z, u>>[4] = u
<1>1. ASSUME NEW x PROVE IsSeq(<<x>>) /\ Len(<<x>>) = 1 /\ <<x>>[1] = x
  <2>1. <<x>> \in Seq({x})
    OBVIOUS
  <2> QED BY <2>1, SequenceOf
<1>2. ASSUME NEW x, NEW y
      PROVE  IsSeq(<<x, y>>) /\ Len(<<x, y>>) = 2 /\ <<x, y>>[1] = x /\ <<x, y>>[2] = y
  <2>1. <<x, y>> \in Seq({x, y})
    OBVIOUS
  <2> QED BY <2>1, SequenceOf
<1>3. ASSUME NEW x, NEW y, NEW z
      PROVE  IsSeq(<<x, y, z>>) /\ Len(<<x, y, z>>) = 3
             /\ <<x, y, z>>[1] = x /\ <<x, y, z>>[2] = y /\ <<x, y, z>>[3] = z
  <2>1. <<x, y, z>> \in Seq({x, y, z})
    OBVIOUS
  <2> QED BY <2>1, SequenceOf
<1>5. ASSUME NEW x, NEW y, NEW z, NEW u
      PROVE  IsSeq(<<x, y, z, u>>) /\ Len(<<x, y, z, u>>) = 4
             /\ <<x, y, z, u>>[1] = x /\ <<x, y, z, u>>[2] = y /\ <<x, y, z, u>>[3] = z
             /\ <<x, y, z, u>>[4] = u
  <2>1. <<x, y, z, u>> \in Seq({x, y, z, u})
    OBVIOUS
  <2> QED BY <2>1, SequenceOf
<1>4. IsSeq(<<>>) /\ Len(<<>>) = 0
  <2>1. <<>> \in Seq({0})
    OBVIOUS
  <2> QED BY <2>1, SequenceOf
<1> QED BY <1>1, <1>2, <1>3, <1>4, <1>5

LEMMA SameSequence ==
  ASSUME NEW s, IsSeq(s), NEW t, IsSeq(t), Len(s) = Len(t), \A i \in 1 .. Len(s) : s[i] = t[i]
  PROVE  s = t
<1>1. s = [i \in 1 .. Len(s) |-> s[i]] /\ t = [i \in 1 .. Len(t) |-> t[i]]
  BY AnySequence
<1>2. [i \in 1 .. Len(s) |-> s[i]] = [i \in 1 .. Len(t) |-> t[i]]
  OBVIOUS
<1> QED BY Zenon, <1>1, <1>2

LEMMA SmallSequences ==
  /\ \A x, y : <<x>> \o <<y>> = <<x, y>> /\ Append(<<x>>, y) = <<x, y>>
  /\ \A x, y, z : (<<x>> \o <<y>>) \o <<z>> = <<x, y, z>> /\ (<<>> \o <<x>>) \o <<y>> = <<x, y>>
<1>1. ASSUME NEW x, NEW y PROVE <<x>> \o <<y>> = <<x, y>>
  <2>1. PICK s, t, u : s = <<x>> /\ t = <<y>> /\ u = s \o t
    OBVIOUS
  <2>2. /\ IsSeq(s) /\ Len(s) = 1 /\ s[1] = x /\ IsSeq(t) /\ Len(t) = 1 /\ t[1] = y
    BY <2>1, Short
  <2>3. IsJoined(u, s, t)
    BY <2>1, <2>2, Joined
  <2>4. /\ IsSeq(u) /\ Len(u) = 2 /\ u[1] = x /\ u[2] = y
    BY <2>2, <2>3 DEF IsJoined
  <2>5. PICK v : v = <<x, y>>
    OBVIOUS
  <2>6. IsSeq(v) /\ Len(v) = 2 /\ v[1] = x /\ v[2] = y
    BY <2>5, Short
  <2>7. \A i \in 1 .. 2 : u[i] = v[i]
    BY <2>4, <2>6
  <2>8. u = v
    BY <2>4, <2>6, <2>7, SameSequence
  <2> QED BY Zenon, <2>1, <2>5, <2>8
<1>2. ASSUME NEW x, NEW y PROVE Append(<<x>>, y) = <<x, y>>
  <2>1. PICK s, u : s = <<x>> /\ u = Append(s, y)
    OBVIOUS
  <2>2. /\ IsSeq(s) /\ Len(s) = 1 /\ s[1] = x
    BY <2>1, Short
  <2>3. /\ IsSeq(u) /\ Len(u) = Len(s) + 1 /\ u[Len(s) + 1] = y /\ \A i \in 1 .. Len(s) : u[i] = s[i]
    BY <2>1, <2>2, Appended
  <2>4. Len(u) = 2 /\ u[1] = x /\ u[2] = y
    BY <2>2, <2>3
  <2>5. PICK v : v = <<x, y>>
    OBVIOUS
  <2>6. IsSeq(v) /\ Len(v) = 2 /\ v[1] = x /\ v[2] = y
    BY <2>5, Short
  <2>7. \A i \in 1 .. 2 : u[i] = v[i]
    BY <2>4, <2>6
  <2>8. u = v
    BY <2>3, <2>4, <2>6, <2>7, SameSequence
  <2> QED BY Zenon, <2>1, <2>5, <2>8
<1>3. ASSUME NEW x PROVE <<>> \o <<x>> = <<x>>
  <2>1. PICK s, t, u : s = <<>> /\ t = <<x>> /\ u = s \o t
    OBVIOUS
  <2>2. /\ IsSeq(s) /\ Len(s) = 0 /\ IsSeq(t) /\ Len(t) = 1 /\ t[1] = x
    BY <2>1, Short
  <2>3. IsJoined(u, s, t)
    BY <2>1, <2>2, Joined
  <2>4. IsSeq(u) /\ Len(u) = 1 /\ u[1] = x
    BY <2>2, <2>3 DEF IsJoined
  <2>5. \A i \in 1 .. 1 : u[i] = t[i]
    BY <2>2, <2>4
  <2>6. u = t
    BY <2>2, <2>4, <2>5, SameSequence
  <2> QED BY Zenon, <2>1, <2>6
<1>4. ASSUME NEW x, NEW y, NEW z PROVE <<x, y>> \o <<z>> = <<x, y, z>>
  <2>1. PICK s, t, u : s = <<x, y>> /\ t = <<z>> /\ u = s \o t
    OBVIOUS
  <2>2. /\ IsSeq(s) /\ Len(s) = 2 /\ s[1] = x /\ s[2] = y /\ IsSeq(t) /\ Len(t) = 1 /\ t[1] = z
    BY <2>1, Short
  <2>3. IsJoined(u, s, t)
    BY <2>1, <2>2, Joined
  <2>4. IsSeq(u) /\ Len(u) = 3 /\ u[1] = x /\ u[2] = y /\ u[3] = z
    BY <2>2, <2>3 DEF IsJoined
  <2>5. PICK v : v = <<x, y, z>>
    OBVIOUS
  <2>6. IsSeq(v) /\ Len(v) = 3 /\ v[1] = x /\ v[2] = y /\ v[3] = z
    BY <2>5, Short
  <2>7. \A i \in 1 .. 3 : u[i] = v[i]
    BY <2>4, <2>6
  <2>8. u = v
    BY <2>4, <2>6, <2>7, SameSequence
  <2> QED BY Zenon, <2>1, <2>5, <2>8
<1>5. ASSUME NEW x, NEW y, NEW z PROVE (<<x>> \o <<y>>) \o <<z>> = <<x, y, z>>
  <2>1. <<x>> \o <<y>> = <<x, y>>
    BY <1>1
  <2>2. <<x, y>> \o <<z>> = <<x, y, z>>
    BY <1>4
  <2> QED BY Zenon, <2>1, <2>2
<1>6. ASSUME NEW x, NEW y PROVE (<<>> \o <<x>>) \o <<y>> = <<x, y>>
  BY Zenon, <1>1, <1>3
<1> QED BY Zenon, <1>1, <1>2, <1>5, <1>6

(***************************************************************************)
(* Steps and the steps of a rewrite.                                        *)
(***************************************************************************)
IsStep(s) == s = Step(s.kind, s.dtype, s.op, s.flag, s.args, s.val) /\ IsSeq(s.args)

\* What the rewrites assume of the operands a step has.
Shaped(s) ==
  /\ s.kind \in {"IntCast", "FloatCast", "PredicateNot"} => Len(s.args) = 1
  /\ s.kind \in {"ArithBinary", "Compare", "PredicateBinary"} => Len(s.args) = 2
  /\ s.kind = "IntCast" => s.op \in CastKinds
  /\ s.kind = "PredicateBinary" => s.op \in LogicOps

\* Steps that need nothing of the target, apart from shifts.
PlainKinds == {"Const", "ArithBinary", "ArithUnary", "Compare", "PredicateBinary", "PredicateNot", "Select",
               "IntCast"}
Plain(s) ==
  /\ s.kind \in PlainKinds
  /\ s.kind = "ArithUnary" => s.op # "Lzcnt"
  /\ s.kind = "ArithBinary" => s.op \in {"Add", "Sub", "Mul64SE", "Mul64ZE"}

\* An operand of the k-th added step: one of the steps T or one added before.
Ref(x, k, T) == x \in T \/ x \in 1 - k .. -1
PlainNew(s, k, T) == IsStep(s) /\ Shaped(s) /\ Plain(s) /\ \A j \in 1 .. Len(s.args) : Ref(s.args[j], k, T)
ShiftNew(new, k, T) ==
  /\ k > 1 /\ new[k - 1].kind = "Const"
  /\ \E t, a : a \in T /\ new[k] = ArithStep("ShiftLeftLogical", "No", t, a, 1 - k)
NewSteps(new, T) ==
  IsSeq(new) /\ \A k \in 1 .. Len(new) : PlainNew(new[k], k, T) \/ ShiftNew(new, k, T)

GoodUse(r, T) ==
  /\ r = [new |-> r.new, at |-> r.at] /\ NewSteps(r.new, T)
  /\ r.at \in T \/ r.at \in -Len(r.new) .. -1
GoodRewrite(r, T) == r = NoRewrite \/ GoodUse(r, T)

\* A conversion between floats or types of one size, when mixed casts are split.
Fit(tr, from, to) ==
  "CastDecomposition" \in tr /\ from \in IntTypes \union FloatTypes =>
    {from, to} \subseteq FloatTypes \/ Size(from) = Size(to)
NeedsNoSplit(steps, tr, s) == s.kind = "FloatCast" => Fit(tr, steps[s.args[1]].dtype, s.dtype)

\* The rewrite of a cast may have conversions that fit as well.
CastNew(steps, tr, new, k, T) ==
  \E flag, t, a : /\ Ref(a, k, T) /\ new[k] = FloatCastStep(flag, t, a)
                  /\ Fit(tr, IF a < 0 THEN new[-a].dtype ELSE steps[a].dtype, t)
NewWith(new, steps, tr, T) ==
  /\ IsSeq(new)
  /\ \A k \in 1 .. Len(new) : PlainNew(new[k], k, T) \/ ShiftNew(new, k, T) \/ CastNew(steps, tr, new, k, T)
GoodCast(r, steps, tr, T) ==
  /\ r = [new |-> r.new, at |-> r.at] /\ NewWith(r.new, steps, tr, T)
  /\ r.at \in T \/ r.at \in -Len(r.new) .. -1

\* A table whose operands are earlier steps, all of them in T.
Table(steps, T) ==
  /\ IsSeq(steps) /\ T \subseteq 1 .. Len(steps)
  /\ \A i \in 1 .. Len(steps) :
       /\ IsStep(steps[i]) /\ Shaped(steps[i])
       /\ \A j \in 1 .. Len(steps[i].args) : steps[i].args[j] \in T /\ steps[i].args[j] < i

LEMMA StepFields ==
  ASSUME NEW kind, NEW dtype, NEW op, NEW flag, NEW args, NEW val
  PROVE  LET s == Step(kind, dtype, op, flag, args, val)
         IN  /\ s.kind = kind /\ s.dtype = dtype /\ s.op = op /\ s.flag = flag /\ s.args = args /\ s.val = val
             /\ IsSeq(args) => IsStep(s)
BY DEF Step, IsStep

LEMMA PlainStep ==
  ASSUME NEW k \in Nat, NEW T, NEW kind, NEW dtype, NEW op, NEW flag, NEW args, NEW val, IsSeq(args),
         kind \in PlainKinds,
         kind \in {"IntCast", "FloatCast", "PredicateNot"} => Len(args) = 1,
         kind \in {"ArithBinary", "Compare", "PredicateBinary"} => Len(args) = 2,
         kind = "IntCast" => op \in CastKinds,
         kind = "PredicateBinary" => op \in LogicOps,
         kind = "ArithUnary" => op # "Lzcnt",
         kind = "ArithBinary" => op \in {"Add", "Sub", "Mul64SE", "Mul64ZE"},
         \A j \in 1 .. Len(args) : Ref(args[j], k, T)
  PROVE  PlainNew(Step(kind, dtype, op, flag, args, val), k, T)
<1> DEFINE s == Step(kind, dtype, op, flag, args, val)
<1>1. /\ s.kind = kind /\ s.op = op /\ s.args = args /\ IsStep(s)
  BY StepFields
<1> HIDE DEF s
<1>2. PlainNew(s, k, T)
  BY <1>1 DEF PlainNew, Shaped, Plain
<1> QED BY <1>2 DEF s

LEMMA PlainSteps ==
  ASSUME NEW k \in Nat, NEW T
  PROVE  /\ \A n, t : PlainNew(ConstStep(n, t), k, T)
         /\ \A op, t, l, r : op \in {"Add", "Sub", "Mul64SE", "Mul64ZE"} /\ Ref(l, k, T) /\ Ref(r, k, T)
              => PlainNew(ArithStep(op, "No", t, l, r), k, T)
         /\ \A t, a : Ref(a, k, T) => PlainNew(UnaryStep("Negate", t, a), k, T)
         /\ \A op, flag, l, r : Ref(l, k, T) /\ Ref(r, k, T) => PlainNew(CompareStep(op, flag, l, r), k, T)
         /\ \A op, l, r : op \in LogicOps /\ Ref(l, k, T) /\ Ref(r, k, T) => PlainNew(LogicStep(op, l, r), k, T)
         /\ \A p : Ref(p, k, T) => PlainNew(NotStep(p), k, T)
         /\ \A t, c, x, y : Ref(c, k, T) /\ Ref(x, k, T) /\ Ref(y, k, T) => PlainNew(SelectStep(t, c, x, y), k, T)
         /\ \A kind, t, a : kind \in CastKinds /\ Ref(a, k, T) => PlainNew(IntCastStep(kind, t, a), k, T)
<1>1. ASSUME NEW n, NEW t PROVE PlainNew(ConstStep(n, t), k, T)
  <2>1. /\ IsSeq(<<>>) /\ "Const" \in PlainKinds
        /\ \A j \in 1 .. Len(<<>>) : Ref(<<>>[j], k, T)
    BY Short DEF PlainKinds
  <2>2. PlainNew(Step("Const", t, "", "No", <<>>, <<n>>), k, T)
    BY <2>1, PlainStep
  <2> QED BY <2>2 DEF ConstStep
<1>2. ASSUME NEW a, Ref(a, k, T)
      PROVE  /\ IsSeq(<<a>>) /\ Len(<<a>>) = 1 /\ \A j \in 1 .. Len(<<a>>) : Ref(<<a>>[j], k, T)
  BY <1>2, Short
<1>3. ASSUME NEW l, NEW r, Ref(l, k, T), Ref(r, k, T)
      PROVE  /\ IsSeq(<<l, r>>) /\ Len(<<l, r>>) = 2 /\ \A j \in 1 .. Len(<<l, r>>) : Ref(<<l, r>>[j], k, T)
  BY <1>3, Short
<1>4. ASSUME NEW c, NEW x, NEW y, Ref(c, k, T), Ref(x, k, T), Ref(y, k, T)
      PROVE  /\ IsSeq(<<c, x, y>>) /\ \A j \in 1 .. Len(<<c, x, y>>) : Ref(<<c, x, y>>[j], k, T)
  BY <1>4, Short
<1>5. ASSUME NEW op, NEW t, NEW l, NEW r, op \in {"Add", "Sub", "Mul64SE", "Mul64ZE"}, Ref(l, k, T), Ref(r, k, T)
      PROVE  PlainNew(ArithStep(op, "No", t, l, r), k, T)
  BY <1>3, <1>5, PlainStep DEF ArithStep, PlainKinds
<1>6. ASSUME NEW t, NEW a, Ref(a, k, T) PROVE PlainNew(UnaryStep("Negate", t, a), k, T)
  BY <1>2, <1>6, PlainStep DEF UnaryStep, PlainKinds
<1>7. ASSUME NEW op, NEW flag, NEW l, NEW r, Ref(l, k, T), Ref(r, k, T)
      PROVE  PlainNew(CompareStep(op, flag, l, r), k, T)
  BY <1>3, <1>7, PlainStep DEF CompareStep, PlainKinds
<1>8. ASSUME NEW op, NEW l, NEW r, op \in LogicOps, Ref(l, k, T), Ref(r, k, T)
      PROVE  PlainNew(LogicStep(op, l, r), k, T)
  BY <1>3, <1>8, PlainStep DEF LogicStep, PlainKinds
<1>9. ASSUME NEW p, Ref(p, k, T) PROVE PlainNew(NotStep(p), k, T)
  BY <1>2, <1>9, PlainStep DEF NotStep, PlainKinds
<1>10. ASSUME NEW t, NEW c, NEW x, NEW y, Ref(c, k, T), Ref(x, k, T), Ref(y, k, T)
       PROVE  PlainNew(SelectStep(t, c, x, y), k, T)
  BY <1>4, <1>10, PlainStep DEF SelectStep, PlainKinds
<1>11. ASSUME NEW kind, NEW t, NEW a, kind \in CastKinds, Ref(a, k, T) PROVE PlainNew(IntCastStep(kind, t, a), k, T)
  BY <1>2, <1>11, PlainStep DEF IntCastStep, PlainKinds
<1> QED BY <1>1, <1>5, <1>6, <1>7, <1>8, <1>9, <1>10, <1>11

LEMMA NewNone == \A T : NewSteps(<<>>, T)
BY Short DEF NewSteps

LEMMA NewAppend ==
  ASSUME NEW T, NEW new, NewSteps(new, T), NEW s,
         PlainNew(s, Len(new) + 1, T) \/ ShiftNew(Append(new, s), Len(new) + 1, T)
  PROVE  NewSteps(Append(new, s), T) /\ Len(Append(new, s)) = Len(new) + 1
<1> DEFINE m == Append(new, s)
<1>1. IsSeq(new) /\ Len(new) \in Nat
  BY AnySequence DEF NewSteps
<1>2. /\ IsSeq(m) /\ Len(m) = Len(new) + 1 /\ m[Len(new) + 1] = s
      /\ \A i \in 1 .. Len(new) : m[i] = new[i]
  BY <1>1, Appended
<1>3. PlainNew(s, Len(new) + 1, T) \/ ShiftNew(m, Len(new) + 1, T)
  OBVIOUS
<1> HIDE DEF m
<1>4. ASSUME NEW k \in 1 .. Len(m) PROVE PlainNew(m[k], k, T) \/ ShiftNew(m, k, T)
  <2>1. CASE k = Len(new) + 1
    BY <1>2, <1>3, <2>1
  <2>2. CASE k \in 1 .. Len(new)
    <3>1. m[k] = new[k] /\ (k > 1 => m[k - 1] = new[k - 1])
      BY <1>1, <1>2, <2>2
    <3>2. PlainNew(new[k], k, T) \/ ShiftNew(new, k, T)
      BY <2>2 DEF NewSteps
    <3> QED BY <3>1, <3>2 DEF ShiftNew
  <2> QED BY <1>1, <1>2, <2>1, <2>2
<1>5. NewSteps(m, T)
  BY <1>2, <1>4 DEF NewSteps
<1> QED BY <1>2, <1>5 DEF m

LEMMA NewOne ==
  ASSUME NEW T, NEW s, PlainNew(s, 1, T)
  PROVE  NewSteps(<<s>>, T) /\ Len(<<s>>) = 1 /\ <<s>>[1] = s
BY Short DEF NewSteps

LEMMA NewTwo ==
  ASSUME NEW T, NEW s, NEW t, PlainNew(s, 1, T), PlainNew(t, 2, T) \/ ShiftNew(<<s, t>>, 2, T)
  PROVE  NewSteps(<<s, t>>, T) /\ Len(<<s, t>>) = 2 /\ <<s, t>>[1] = s /\ <<s, t>>[2] = t
BY Short DEF NewSteps

LEMMA UseGood ==
  ASSUME NEW T, NEW x \in T
  PROVE  GoodUse(Use(x), T)
<1>1. Use(x) = [new |-> <<>>, at |-> x]
  BY DEF Use
<1> QED BY <1>1, NewNone DEF GoodUse

LEMMA MakeGood ==
  ASSUME NEW T, NEW new, NewSteps(new, T), Len(new) > 0
  PROVE  GoodUse(Make(new), T)
<1>1. Make(new) = [new |-> new, at |-> -Len(new)]
  BY DEF Make
<1>2. Len(new) \in Nat
  BY AnySequence DEF NewSteps
<1> QED BY <1>1, <1>2 DEF GoodUse

LEMMA MakeOne ==
  ASSUME NEW T, NEW s, PlainNew(s, 1, T)
  PROVE  GoodUse(Make(<<s>>), T)
BY NewOne, MakeGood

LEMMA MakeTwo ==
  ASSUME NEW T, NEW s, NEW t, PlainNew(s, 1, T), PlainNew(t, 2, T)
  PROVE  GoodUse(Make(<<s, t>>), T)
BY NewTwo, MakeGood

LEMMA WhenGood ==
  ASSUME NEW T, NEW enabled, NEW r, enabled => GoodRewrite(r, T)
  PROVE  GoodRewrite(When(enabled, r), T)
BY DEF When, GoodRewrite

LEMMA FirstGood ==
  ASSUME NEW T, NEW rs, IsSeq(rs), \A k \in 1 .. Len(rs) : GoodRewrite(rs[k], T)
  PROVE  GoodRewrite(FirstOf(rs), T)
<1>1. DOMAIN rs = 1 .. Len(rs) /\ Len(rs) \in Nat
  BY AnySequence
<1>2. CASE \E k \in DOMAIN rs : Applies(rs[k])
  <2> DEFINE U == {k \in DOMAIN rs : Applies(rs[k])}
  <2>1. PICK k \in U : \A m \in U : k <= m
    <3>1. U \in SUBSET Nat /\ U # {}
      BY <1>1, <1>2
    <3> HIDE DEF U
    <3> QED BY <3>1, LeastNatural
  <2>2. \E n \in DOMAIN rs : Applies(rs[n]) /\ \A j \in 1 .. n - 1 : ~Applies(rs[j])
    BY <1>1, <2>1
  <2>3. PICK n \in DOMAIN rs : FirstOf(rs) = rs[n]
    BY <1>2, <2>2 DEF FirstOf
  <2> QED BY <1>1, <2>3
<1>3. CASE ~\E k \in DOMAIN rs : Applies(rs[k])
  BY <1>3 DEF FirstOf, GoodRewrite
<1> QED BY <1>2, <1>3

LEMMA FirstOfSome ==
  ASSUME NEW T
  PROVE  /\ \A x, y : GoodRewrite(x, T) /\ GoodRewrite(y, T) => GoodRewrite(FirstOf(<<x, y>>), T)
         /\ \A x, y, z : GoodRewrite(x, T) /\ GoodRewrite(y, T) /\ GoodRewrite(z, T)
              => GoodRewrite(FirstOf(<<x, y, z>>), T)
         /\ \A x, y, z, u : GoodRewrite(x, T) /\ GoodRewrite(y, T) /\ GoodRewrite(z, T) /\ GoodRewrite(u, T)
              => GoodRewrite(FirstOf(<<x, y, z, u>>), T)
<1>1. ASSUME NEW x, NEW y, GoodRewrite(x, T), GoodRewrite(y, T)
      PROVE  GoodRewrite(FirstOf(<<x, y>>), T)
  BY <1>1, Short, FirstGood
<1>2. ASSUME NEW x, NEW y, NEW z, GoodRewrite(x, T), GoodRewrite(y, T), GoodRewrite(z, T)
      PROVE  GoodRewrite(FirstOf(<<x, y, z>>), T)
  BY <1>2, Short, FirstGood
<1>3. ASSUME NEW x, NEW y, NEW z, NEW u,
             GoodRewrite(x, T), GoodRewrite(y, T), GoodRewrite(z, T), GoodRewrite(u, T)
      PROVE  GoodRewrite(FirstOf(<<x, y, z, u>>), T)
  BY <1>3, Short, FirstGood
<1> QED BY <1>1, <1>2, <1>3

(***************************************************************************)
(* Each rewrite uses steps of the table or steps it adds.                   *)
(***************************************************************************)
LEMMA SidesGood ==
  ASSUME NEW T, NEW x \in T, NEW y \in T
  PROVE  /\ GoodRewrite(NoRewrite, T) /\ GoodRewrite(Use(x), T) /\ GoodRewrite(Use(y), T)
         /\ \A p \in BOOLEAN : GoodRewrite(When(p, Use(x)), T) /\ GoodRewrite(When(p, Use(y)), T)
         /\ \A p, q \in BOOLEAN : GoodRewrite(FirstOf(<<When(p, Use(x)), When(q, Use(y))>>), T)
<1>1. GoodRewrite(NoRewrite, T) /\ GoodRewrite(Use(x), T) /\ GoodRewrite(Use(y), T)
  BY UseGood DEF GoodRewrite
<1>2. ASSUME NEW p \in BOOLEAN
      PROVE  GoodRewrite(When(p, Use(x)), T) /\ GoodRewrite(When(p, Use(y)), T)
  BY <1>1 DEF When
<1>3. ASSUME NEW p \in BOOLEAN, NEW q \in BOOLEAN
      PROVE  GoodRewrite(FirstOf(<<When(p, Use(x)), When(q, Use(y))>>), T)
  BY <1>2, FirstOfSome
<1> QED BY <1>1, <1>2, <1>3

LEMMA ConstantGood ==
  ASSUME NEW T, NEW n, NEW t
  PROVE  GoodRewrite(Make(<<ConstStep(n, t)>>), T)
BY MakeOne, PlainSteps DEF GoodRewrite

LEMMA ArithIdentityGood ==
  ASSUME NEW steps, NEW T, NEW op, NEW l \in T, NEW r \in T
  PROVE  GoodRewrite(ArithIdentity(steps, op, l, r), T)
<1> DEFINE t == steps[l].dtype
           lc == ConstClass(steps[l])
           rc == ConstClass(steps[r])
           neutral(class) == FirstOf(<<When(lc = class, Use(r)), When(rc = class, Use(l))>>)
           same(res) == When(l = r, res)
<1>1. ASSUME NEW class PROVE GoodRewrite(neutral(class), T)
  BY SidesGood
<1>2. GoodRewrite(same(Use(l)), T) /\ GoodRewrite(same(Make(<<ConstStep(0, t)>>)), T)
  BY SidesGood, ConstantGood DEF When
<1>3. ASSUME NEW class PROVE GoodRewrite(When(rc = class, Use(l)), T)
  BY SidesGood
<1>4. /\ GoodRewrite(When(t \in IntTypes /\ lc = "Zero", Use(l)), T)
      /\ GoodRewrite(When(t \in IntTypes /\ rc = "Zero", Use(r)), T)
  BY SidesGood
<1>5. /\ GoodRewrite(FirstOf(<<neutral("One"), When(t \in IntTypes /\ lc = "Zero", Use(l)),
                               When(t \in IntTypes /\ rc = "Zero", Use(r))>>), T)
      /\ GoodRewrite(FirstOf(<<same(Use(l)), neutral("AllOnes")>>), T)
      /\ GoodRewrite(FirstOf(<<same(Use(l)), neutral("Zero")>>), T)
      /\ GoodRewrite(FirstOf(<<neutral("Zero"), same(Make(<<ConstStep(0, t)>>))>>), T)
  <2> HIDE DEF neutral, same
  <2> QED BY <1>1, <1>2, <1>4, FirstOfSome
<1>6. GoodRewrite(NoRewrite, T)
  BY SidesGood
<1> HIDE DEF neutral, same, lc, rc, t
<1>7. ArithIdentity(steps, op, l, r) =
        CASE op = "Add" -> neutral("Zero")
        [] op = "Sub" -> When(rc = "Zero", Use(l))
        [] op = "Mul" -> FirstOf(<<neutral("One"),
                                   When(t \in IntTypes /\ lc = "Zero", Use(l)),
                                   When(t \in IntTypes /\ rc = "Zero", Use(r))>>)
        [] op \in {"Div", "UDiv"} -> When(rc = "One", Use(l))
        [] op \in {"Min", "Max", "UMin", "UMax"} -> same(Use(l))
        [] op = "And" -> FirstOf(<<same(Use(l)), neutral("AllOnes")>>)
        [] op = "Or"  -> FirstOf(<<same(Use(l)), neutral("Zero")>>)
        [] op = "Xor" -> FirstOf(<<neutral("Zero"), same(Make(<<ConstStep(0, t)>>))>>)
        [] op \in ShiftOps -> When(rc = "Zero", Use(l))
        [] OTHER -> NoRewrite
  BY Zenon DEF ArithIdentity, neutral, same, lc, rc, t
<1> QED BY <1>1, <1>2, <1>3, <1>5, <1>6, <1>7 DEF ShiftOps

LEMMA CompareIdentityGood ==
  ASSUME NEW steps, NEW T, NEW op, NEW unsigned, NEW l, NEW r
  PROVE  GoodRewrite(CompareIdentity(steps, op, unsigned, l, r), T)
<1> DEFINE lc == ConstClass(steps[l])
           rc == ConstClass(steps[r])
           always(p) == Make(<<ConstStep(Bool(p), "I1")>>)
<1>1. ASSUME NEW p PROVE GoodRewrite(always(p), T)
  BY ConstantGood
<1>2. ASSUME NEW p, NEW q PROVE GoodRewrite(When(p, always(q)), T)
  BY <1>1, SidesGood DEF When, GoodRewrite
<1>3. GoodRewrite(NoRewrite, T)
  BY DEF GoodRewrite
<1> HIDE DEF always, lc, rc
<1>4. GoodRewrite(FirstOf(<<When(op = "GreaterEqual" /\ rc = "Zero", always(TRUE)),
                            When(op = "Less" /\ rc = "Zero", always(FALSE)),
                            When(op = "LessEqual" /\ lc = "Zero", always(TRUE)),
                            When(op = "Greater" /\ lc = "Zero", always(FALSE))>>), T)
  BY <1>2, FirstOfSome
<1>5. GoodRewrite(always(op \in {"Equal", "LessEqual", "GreaterEqual"}), T)
  BY Zenon, <1>1
<1> QED BY Zenon, <1>3, <1>4, <1>5 DEF CompareIdentity, always, lc, rc

LEMMA LogicIdentityGood ==
  ASSUME NEW steps, NEW T, NEW op \in LogicOps, NEW l \in T, NEW r \in T
  PROVE  GoodRewrite(LogicIdentity(steps, op, l, r), T)
<1> DEFINE lc == ConstClass(steps[l])
           rc == ConstClass(steps[r])
           neutral(class) == FirstOf(<<When(lc = class, Use(r)), When(rc = class, Use(l))>>)
           decides(class) == FirstOf(<<When(lc = class, Use(l)), When(rc = class, Use(r))>>)
           same(res) == When(l = r, res)
           always(p) == Make(<<ConstStep(Bool(p), "I1")>>)
<1>1. ASSUME NEW class PROVE GoodRewrite(neutral(class), T) /\ GoodRewrite(decides(class), T)
  BY SidesGood
<1>2. GoodRewrite(same(Use(l)), T) /\ GoodRewrite(same(always(TRUE)), T) /\ GoodRewrite(same(always(FALSE)), T)
  BY SidesGood, ConstantGood DEF When
<1>3. GoodRewrite(When("BoolFalse" \in {lc, rc}, Use(r)), T)
  BY SidesGood DEF When
<1> HIDE DEF neutral, decides, same, always, lc, rc
<1>4. /\ GoodRewrite(FirstOf(<<same(Use(l)), neutral("BoolTrue"), decides("BoolFalse")>>), T)
      /\ GoodRewrite(FirstOf(<<same(Use(l)), neutral("BoolFalse"), decides("BoolTrue")>>), T)
      /\ GoodRewrite(FirstOf(<<neutral("BoolFalse"), same(always(FALSE))>>), T)
      /\ GoodRewrite(FirstOf(<<same(always(FALSE)), When("BoolFalse" \in {lc, rc}, Use(r))>>), T)
  BY <1>1, <1>2, <1>3, FirstOfSome
<1>5. LogicIdentity(steps, op, l, r) =
        CASE op = "And" -> FirstOf(<<same(Use(l)), neutral("BoolTrue"), decides("BoolFalse")>>)
        [] op = "Or"  -> FirstOf(<<same(Use(l)), neutral("BoolFalse"), decides("BoolTrue")>>)
        [] op = "Xor" -> FirstOf(<<neutral("BoolFalse"), same(always(FALSE))>>)
        [] op = "AndNot" -> FirstOf(<<same(always(FALSE)), When("BoolFalse" \in {lc, rc}, Use(r))>>)
        [] op = "XNor" -> same(always(TRUE))
  BY Zenon DEF LogicIdentity, neutral, decides, same, always, lc, rc
<1> QED BY <1>2, <1>4, <1>5 DEF LogicOps

ShiftSteps(t, a, ks, n) ==
  [i \in 1 .. 2 * n |-> IF i % 2 = 1 THEN ConstStep(ks[(i + 1) \div 2], t)
                        ELSE ArithStep("ShiftLeftLogical", "No", t, a, 1 - i)]

LEMMA ShiftsGood ==
  ASSUME NEW T, NEW t, NEW a \in T, NEW ks, NEW n \in Nat
  PROVE  NewSteps(ShiftSteps(t, a, ks, n), T) /\ Len(ShiftSteps(t, a, ks, n)) = 2 * n
<1> DEFINE shifts == [i \in 1 .. 2 * n |->
                        IF i % 2 = 1 THEN ConstStep(ks[(i + 1) \div 2], t)
                        ELSE ArithStep("ShiftLeftLogical", "No", t, a, 1 - i)]
<1>1. IsSeq(shifts) /\ Len(shifts) = 2 * n
  <2>1. 2 * n \in Nat /\ DOMAIN shifts = 1 .. 2 * n /\ shifts = [i \in 1 .. 2 * n |-> shifts[i]]
    OBVIOUS
  <2> HIDE DEF shifts
  <2> QED BY <2>1, SequenceFrom
<1>2. ASSUME NEW k \in 1 .. 2 * n, k % 2 = 1
      PROVE  PlainNew(shifts[k], k, T) /\ shifts[k].kind = "Const"
  <2>1. shifts[k] = ConstStep(ks[(k + 1) \div 2], t)
    BY <1>2
  <2> HIDE DEF shifts
  <2>2. PlainNew(shifts[k], k, T)
    BY <2>1, PlainSteps
  <2>3. shifts[k].kind = "Const"
    <3>1. ConstStep(ks[(k + 1) \div 2], t).kind = "Const"
      BY DEF ConstStep, Step
    <3> QED BY <2>1, <3>1
  <2> QED BY <2>2, <2>3
<1>3. ASSUME NEW k \in 1 .. 2 * n, k % 2 # 1
      PROVE  ShiftNew(shifts, k, T)
  <2>1. shifts[k] = ArithStep("ShiftLeftLogical", "No", t, a, 1 - k)
    BY <1>3
  <2>2. k > 1 /\ k - 1 \in 1 .. 2 * n /\ (k - 1) % 2 = 1
    BY <1>3
  <2> HIDE DEF shifts
  <2>3. shifts[k - 1].kind = "Const"
    BY <1>2, <2>2
  <2> QED BY <2>1, <2>2, <2>3 DEF ShiftNew
<1> HIDE DEF shifts
<1>4. NewSteps(shifts, T)
  BY <1>1, <1>2, <1>3 DEF NewSteps
<1> QED BY <1>1, <1>4 DEF shifts, ShiftSteps

LEMMA AddNew ==
  ASSUME NEW T, NEW new, NewSteps(new, T), NEW op \in {"Add", "Sub"}, NEW t, NEW x, NEW y,
         Ref(x, Len(new) + 1, T), Ref(y, Len(new) + 1, T)
  PROVE  /\ NewSteps(Append(new, ArithStep(op, "No", t, x, y)), T)
         /\ Len(Append(new, ArithStep(op, "No", t, x, y))) = Len(new) + 1
<1>1. Len(new) + 1 \in Nat
  BY AnySequence DEF NewSteps
<1>2. PlainNew(ArithStep(op, "No", t, x, y), Len(new) + 1, T)
  BY <1>1, PlainSteps
<1> QED BY <1>2, NewAppend

LEMMA ShiftSumGood ==
  ASSUME NEW T, NEW t, NEW a \in T, NEW ks, Len(ks) \in 1 .. 3, NEW odd
  PROVE  NewSteps(ShiftSum(t, a, ks, odd), T) /\ Len(ShiftSum(t, a, ks, odd)) > 0
<1> DEFINE shifts == ShiftSteps(t, a, ks, Len(ks))
           add(new, x, y) == Append(new, ArithStep("Add", "No", t, x, y))
           sum == CASE Len(ks) = 1 -> shifts
                    [] Len(ks) = 2 -> add(shifts, -2, -4)
                    [] Len(ks) = 3 -> add(add(shifts, -2, -4), -7, -6)
<1>1. NewSteps(shifts, T) /\ Len(shifts) = 2 * Len(ks)
  <2>1. Len(ks) \in Nat
    OBVIOUS
  <2> QED BY <2>1, ShiftsGood
<1> HIDE DEF shifts
<1>2. ASSUME NEW new, NewSteps(new, T), NEW x, NEW y, Ref(x, Len(new) + 1, T), Ref(y, Len(new) + 1, T)
      PROVE  NewSteps(add(new, x, y), T) /\ Len(add(new, x, y)) = Len(new) + 1
  BY <1>2, AddNew
<1> HIDE DEF add
<1>3. NewSteps(sum, T) /\ Len(sum) \in Nat /\ Len(sum) > 0
  <2>1. CASE Len(ks) = 1
    BY <1>1, <2>1
  <2>2. CASE Len(ks) = 2
    <3>1. Ref(-2, Len(shifts) + 1, T) /\ Ref(-4, Len(shifts) + 1, T)
      BY <1>1, <2>2 DEF Ref
    <3>2. /\ NewSteps(add(shifts, -2, -4), T)
          /\ Len(add(shifts, -2, -4)) = Len(shifts) + 1
      BY Zenon, <1>1, <1>2, <3>1
    <3>3. sum = add(shifts, -2, -4)
      BY <2>2
    <3> HIDE DEF sum
    <3> QED BY <1>1, <3>2, <3>3
  <2>3. CASE Len(ks) = 3
    <3> DEFINE m == add(shifts, -2, -4)
    <3>1. Ref(-2, Len(shifts) + 1, T) /\ Ref(-4, Len(shifts) + 1, T)
      BY <1>1, <2>3 DEF Ref
    <3>2. NewSteps(m, T) /\ Len(m) = Len(shifts) + 1
      BY Zenon, <1>1, <1>2, <3>1
    <3>5. Len(m) = 7
      BY <1>1, <2>3, <3>2
    <3> HIDE DEF m
    <3>3. Ref(-7, Len(m) + 1, T) /\ Ref(-6, Len(m) + 1, T)
      BY <3>5 DEF Ref
    <3>4. NewSteps(add(m, -7, -6), T) /\ Len(add(m, -7, -6)) = Len(m) + 1
      BY Zenon, <1>2, <3>2, <3>3
    <3> QED BY <2>3, <3>4, <3>5 DEF m
  <2> QED BY <2>1, <2>2, <2>3
<1> HIDE DEF sum
<1>4. NewSteps(add(sum, -Len(sum), a), T) /\ Len(add(sum, -Len(sum), a)) = Len(sum) + 1
  <2>1. Ref(-Len(sum), Len(sum) + 1, T) /\ Ref(a, Len(sum) + 1, T)
    BY <1>3 DEF Ref
  <2> QED BY <1>2, <1>3, <2>1
<1>5. ShiftSum(t, a, ks, odd) = IF odd THEN add(sum, -Len(sum), a) ELSE sum
  BY Zenon DEF ShiftSum, sum, add, shifts, ShiftSteps
<1> QED BY <1>3, <1>4, <1>5

LEMMA ShiftLessGood ==
  ASSUME NEW T, NEW t, NEW a \in T, NEW k, NEW times, NEW neg
  PROVE  \/ ShiftLess(t, a, k, times, neg) = <<>>
         \/ NewSteps(ShiftLess(t, a, k, times, neg), T) /\ Len(ShiftLess(t, a, k, times, neg)) > 0
<1> DEFINE shift == <<ConstStep(k, t), ArithStep("ShiftLeftLogical", "No", t, a, -1)>>
           twice == Append(shift, ArithStep("Add", "No", t, a, a))
           new == IF times = 1 THEN shift ELSE twice
           part == IF times = 1 THEN a ELSE -3
<1>1. NewSteps(shift, T) /\ Len(shift) = 2
  <2>1. PlainNew(ConstStep(k, t), 1, T) /\ ConstStep(k, t).kind = "Const"
    BY PlainSteps DEF ConstStep, Step
  <2>2. ShiftNew(shift, 2, T)
    <3>1. shift[1] = ConstStep(k, t) /\ shift[2] = ArithStep("ShiftLeftLogical", "No", t, a, -1)
      BY Short
    <3> HIDE DEF shift
    <3> QED BY <2>1, <3>1 DEF ShiftNew
  <2> QED BY <2>1, <2>2, NewTwo
<1> HIDE DEF shift
<1>2. NewSteps(twice, T) /\ Len(twice) = 3
  <2>1. Ref(a, 3, T)
    BY DEF Ref
  <2>3. PlainNew(ArithStep("Add", "No", t, a, a), Len(shift) + 1, T)
    BY <1>1, <2>1, PlainSteps
  <2>2. NewSteps(twice, T) /\ Len(twice) = Len(shift) + 1
    BY <1>1, <2>3, NewAppend
  <2> QED BY <1>1, <2>2
<1> HIDE DEF twice
<1>3. NewSteps(new, T) /\ Len(new) \in {2, 3} /\ Ref(-2, Len(new) + 1, T) /\ Ref(part, Len(new) + 1, T)
  <2>1. CASE times = 1
    BY <1>1, <2>1 DEF Ref
  <2>2. CASE times # 1
    <3>1. new = twice /\ part = -3
      BY <2>2
    <3> HIDE DEF new, part
    <3> QED BY <1>2, <3>1 DEF Ref
  <2> QED BY <2>1, <2>2
<1> HIDE DEF new, part
<1>4. /\ NewSteps(Append(new, ArithStep("Sub", "No", t, part, -2)), T)
      /\ Len(Append(new, ArithStep("Sub", "No", t, part, -2))) > 0
      /\ NewSteps(Append(new, ArithStep("Sub", "No", t, -2, part)), T)
      /\ Len(Append(new, ArithStep("Sub", "No", t, -2, part))) > 0
  BY <1>3, AddNew
<1>5. ShiftLess(t, a, k, times, neg) =
        IF k >= Width(t) THEN <<>>
        ELSE Append(new, IF neg THEN ArithStep("Sub", "No", t, part, -2)
                                ELSE ArithStep("Sub", "No", t, -2, part))
  BY DEF ShiftLess, new, part, twice, shift
<1> QED BY <1>4, <1>5

LEMMA HighBitsLength ==
  ASSUME NEW n
  PROVE  Len(HighBits(n)) \in 1 .. 3
BY Short DEF HighBits

LEMMA IntMulGood ==
  ASSUME NEW steps, NEW T, NEW l \in T, NEW r \in T
  PROVE  GoodRewrite(IntMulPeephole(steps, l, r), T)
<1> DEFINE arg == IF Const(steps, l) THEN r ELSE l
           t == steps[l].dtype
           c == SignedConst(steps, IF Const(steps, l) THEN l ELSE r)
           neg == c < 0
           n == IF neg THEN -c ELSE c
           long == t = "I64"
           sum(new) == Make(IF neg THEN Append(new, UnaryStep("Negate", t, -Len(new))) ELSE new)
           less(new) == IF new = <<>> THEN NoRewrite ELSE Make(new)
<1>1. arg \in T
  OBVIOUS
<1>2. ASSUME NEW new, NewSteps(new, T), Len(new) > 0
      PROVE  GoodUse(sum(new), T)
  <2>1. Len(new) \in Nat
    BY <1>2, AnySequence DEF NewSteps
  <2>2. PlainNew(UnaryStep("Negate", t, -Len(new)), Len(new) + 1, T)
    <3>1. Ref(-Len(new), Len(new) + 1, T) /\ Len(new) + 1 \in Nat
      BY <1>2, <2>1 DEF Ref
    <3> QED BY <3>1, PlainSteps
  <2>3. /\ NewSteps(Append(new, UnaryStep("Negate", t, -Len(new))), T)
        /\ Len(Append(new, UnaryStep("Negate", t, -Len(new)))) > 0
    BY <1>2, <2>1, <2>2, NewAppend
  <2> QED BY <1>2, <2>3, MakeGood
<1>3. ASSUME NEW new, new = <<>> \/ (NewSteps(new, T) /\ Len(new) > 0)
      PROVE  GoodRewrite(less(new), T)
  BY <1>3, MakeGood DEF GoodRewrite
<1> HIDE DEF sum, less, arg, c, neg, n, long, t
<1>4. /\ GoodUse(Make(<<UnaryStep("Negate", t, arg)>>), T) /\ GoodUse(Use(arg), T)
      /\ GoodUse(sum(<<ArithStep("Add", "No", t, arg, arg)>>), T)
  <2>1. Ref(arg, 1, T)
    BY <1>1 DEF Ref
  <2>2. PlainNew(UnaryStep("Negate", t, arg), 1, T) /\ PlainNew(ArithStep("Add", "No", t, arg, arg), 1, T)
    BY <2>1, PlainSteps
  <2> QED BY <1>1, <1>2, <2>2, UseGood, MakeOne, NewOne
<1>5. ASSUME NEW ks, NEW odd, Len(ks) \in 1 .. 3
      PROVE  GoodUse(sum(ShiftSum(t, arg, ks, odd)), T)
  BY <1>1, <1>2, <1>5, ShiftSumGood
<1>6. ASSUME NEW k, NEW times, NEW m
      PROVE  GoodRewrite(less(ShiftLess(t, arg, k, times, m)), T)
  BY <1>1, <1>3, ShiftLessGood
<1>7. ASSUME NEW k, NEW odd PROVE GoodUse(sum(ShiftSum(t, arg, <<k>>, odd)), T)
  BY <1>5, Short
<1>8. ASSUME NEW k, NEW odd PROVE GoodUse(sum(ShiftSum(t, arg, HighBits(k), odd)), T)
  BY <1>5, HighBitsLength
<1>9. IntMulPeephole(steps, l, r) =
      IF (~Const(steps, l) /\ ~Const(steps, r)) \/ c \in {0, IntMin("I64")} THEN NoRewrite
      ELSE IF n = 1 THEN IF neg THEN Make(<<UnaryStep("Negate", t, arg)>>) ELSE Use(arg)
      ELSE IF n = 2 THEN sum(<<ArithStep("Add", "No", t, arg, arg)>>)
      ELSE IF HasSingleBit(n) THEN sum(ShiftSum(t, arg, <<Log2(n)>>, FALSE))
      ELSE IF HasSingleBit(n - 1) THEN sum(ShiftSum(t, arg, <<Log2(n - 1)>>, TRUE))
      ELSE IF HasSingleBit(n + 1) THEN less(ShiftLess(t, arg, Log2(n + 1), 1, neg))
      ELSE IF ~neg /\ BitCount(n) = 2 THEN sum(ShiftSum(t, arg, HighBits(n), FALSE))
      ELSE IF HasSingleBit(n + 2) THEN less(ShiftLess(t, arg, Log2(n + 2), 2, neg))
      ELSE IF long /\ BitCount(n) = 3 /\ n % 2 = 1 THEN sum(ShiftSum(t, arg, HighBits(n - 1), TRUE))
      ELSE IF long /\ BitCount(n) = 3 THEN sum(ShiftSum(t, arg, HighBits(n), FALSE))
      ELSE NoRewrite
  BY Zenon DEF IntMulPeephole, sum, less, arg, c, neg, n, long, t
<1> QED BY <1>4, <1>6, <1>7, <1>8, <1>9 DEF GoodRewrite

LEMMA ProductGood ==
  ASSUME NEW B, NEW T, NEW t, NEW l \in T, NEW r \in T
  PROVE  GoodRewrite(ProductRewrite(B, t, l, r), T)
<1> DEFINE short == Mul32_64Peephole(B.steps, l, r)
<1>1. GoodRewrite(When("MulConstPeephole" \in B.tr, IntMulPeephole(B.steps, l, r)), T)
  BY IntMulGood DEF When, GoodRewrite
<1>2. GoodRewrite(When("MuldqInst" \in B.tr /\ short # "None", Make(<<ArithStep(short, "No", t, l, r)>>)), T)
  <2>1. short \in {"None", "Mul64SE", "Mul64ZE"}
    BY DEF Mul32_64Peephole
  <2>2. CASE short = "None"
    BY <2>2 DEF When, GoodRewrite
  <2>3. CASE short # "None"
    <3>1. Ref(l, 1, T) /\ Ref(r, 1, T)
      BY DEF Ref
    <3>2. PlainNew(ArithStep(short, "No", t, l, r), 1, T)
      <4> HIDE DEF short
      <4> QED BY <2>1, <2>3, <3>1, PlainSteps
    <3>3. GoodUse(Make(<<ArithStep(short, "No", t, l, r)>>), T)
      BY <3>2, MakeOne
    <3> QED BY <3>3 DEF When, GoodRewrite
  <2> QED BY <2>2, <2>3
<1> QED BY <1>1, <1>2, FirstOfSome DEF ProductRewrite

(***************************************************************************)
(* Casts: the recursion exists, because a cast looks at an earlier step.    *)
(***************************************************************************)
CastBody(steps, tr, dtype, f, p) ==
  LET a == p[1]
      k == p[2]
      inner == steps[a]
      src == steps[inner.args[1]].dtype
      plain == Make(<<IntCastStep(k, dtype, a)>>)
  IN  IF "CastPeephole" \notin tr \/ inner.kind # "IntCast" THEN plain
      ELSE IF k = "Trunc"
      THEN IF inner.op = "Trunc" \/ Size(dtype) < Size(src) THEN f[<<inner.args[1], "Trunc">>]
           ELSE IF Size(dtype) = Size(src) THEN Use(inner.args[1])
           ELSE f[<<inner.args[1], inner.op>>]
      ELSE IF inner.op = k THEN f[<<inner.args[1], k>>]
      ELSE IF k = "Sext" /\ inner.op = "Zext" THEN f[<<inner.args[1], "Zext">>]
      ELSE plain

\* What the body is, whatever f is: one step, an operand, or f earlier.
CastCase(steps, T, tr, dtype, a, k) ==
  \/ \A f : CastBody(steps, tr, dtype, f, <<a, k>>) = Make(<<IntCastStep(k, dtype, a)>>)
  \/ \E c \in T : /\ c < a
                  /\ \/ \A f : CastBody(steps, tr, dtype, f, <<a, k>>) = Use(c)
                     \/ \E j \in CastKinds : \A f : CastBody(steps, tr, dtype, f, <<a, k>>) = f[<<c, j>>]

LEMMA CastCases ==
  ASSUME NEW steps, NEW T, Table(steps, T), NEW tr, NEW dtype, NEW a \in 1 .. Len(steps), NEW k \in CastKinds
  PROVE  CastCase(steps, T, tr, dtype, a, k)
<1> DEFINE inner == steps[a]
           c == inner.args[1]
           src == steps[c].dtype
           Body(f) == CastBody(steps, tr, dtype, f, <<a, k>>)
<1>1. CASE "CastPeephole" \notin tr \/ inner.kind # "IntCast"
  <2>1. \A f : Body(f) = Make(<<IntCastStep(k, dtype, a)>>)
    BY Zenon, <1>1 DEF CastBody
  <2> QED BY Zenon, <2>1 DEF CastCase
<1>2. CASE "CastPeephole" \in tr /\ inner.kind = "IntCast"
  <2>1. c \in T /\ c < a /\ inner.op \in CastKinds
    BY <1>2 DEF Table, Shaped
  <2>2. ASSUME NEW f
        PROVE  Body(f) = IF k = "Trunc"
                         THEN IF inner.op = "Trunc" \/ Size(dtype) < Size(src) THEN f[<<c, "Trunc">>]
                              ELSE IF Size(dtype) = Size(src) THEN Use(c)
                              ELSE f[<<c, inner.op>>]
                         ELSE IF inner.op = k THEN f[<<c, k>>]
                         ELSE IF k = "Sext" /\ inner.op = "Zext" THEN f[<<c, "Zext">>]
                         ELSE Make(<<IntCastStep(k, dtype, a)>>)
    BY Zenon, <1>2 DEF CastBody
  <2> HIDE DEF c, src, inner, Body
  <2>3. "Trunc" \in CastKinds /\ "Zext" \in CastKinds
    BY DEF CastKinds
  <2>4. CASE k = "Trunc" /\ (inner.op = "Trunc" \/ Size(dtype) < Size(src))
    <3>1. \A f : Body(f) = f[<<c, "Trunc">>]
      BY Zenon, <2>2, <2>4
    <3> QED BY Zenon, <2>1, <2>3, <3>1 DEF Body, CastCase
  <2>5. CASE k = "Trunc" /\ ~(inner.op = "Trunc" \/ Size(dtype) < Size(src)) /\ Size(dtype) = Size(src)
    <3>1. \A f : Body(f) = Use(c)
      BY Zenon, <2>2, <2>5
    <3> QED BY Zenon, <2>1, <3>1 DEF Body, CastCase
  <2>6. CASE k = "Trunc" /\ ~(inner.op = "Trunc" \/ Size(dtype) < Size(src)) /\ Size(dtype) # Size(src)
    <3>1. \A f : Body(f) = f[<<c, inner.op>>]
      BY Zenon, <2>2, <2>6
    <3> QED BY Zenon, <2>1, <3>1 DEF Body, CastCase
  <2>7. CASE k # "Trunc" /\ inner.op = k
    <3>1. \A f : Body(f) = f[<<c, k>>]
      BY Zenon, <2>2, <2>7
    <3> QED BY Zenon, <2>1, <3>1 DEF Body, CastCase
  <2>8. CASE k # "Trunc" /\ inner.op # k /\ k = "Sext" /\ inner.op = "Zext"
    <3>1. \A f : Body(f) = f[<<c, "Zext">>]
      BY Zenon, <2>2, <2>8
    <3> QED BY Zenon, <2>1, <2>3, <3>1 DEF Body, CastCase
  <2>9. CASE k # "Trunc" /\ inner.op # k /\ ~(k = "Sext" /\ inner.op = "Zext")
    <3>1. \A f : Body(f) = Make(<<IntCastStep(k, dtype, a)>>)
      BY Zenon, <2>2, <2>9
    <3> QED BY Zenon, <3>1 DEF Body, CastCase
  <2> QED BY Zenon, <2>4, <2>5, <2>6, <2>7, <2>8, <2>9
<1> QED BY Zenon, <1>1, <1>2 DEF CastCase

IsCast(f, steps, tr, dtype) == f = [p \in (DOMAIN steps) \X CastKinds |-> CastBody(steps, tr, dtype, f, p)]

LEMMA CastExists ==
  ASSUME NEW steps, NEW T, Table(steps, T), NEW tr, NEW dtype
  PROVE  \E f : IsCast(f, steps, tr, dtype)
<1> DEFINE n == Len(steps)
           D == (1 .. n) \X CastKinds
           Body(f, p) == CastBody(steps, tr, dtype, f, p)
           Good(f, m) == f = [p \in D |-> f[p]] /\ \A a \in 1 .. n, k \in CastKinds :
                                                     a <= m => f[<<a, k>>] = Body(f, <<a, k>>)
           U == {m \in Nat : \E f : Good(f, m)}
<1>1. n \in Nat /\ DOMAIN steps = 1 .. n
  BY AnySequence DEF Table
<1> HIDE DEF n
<1>2. 0 \in U
  <2> DEFINE g == [p \in D |-> 0]
  <2>1. Good(g, 0)
    OBVIOUS
  <2> HIDE DEF Good
  <2> QED BY <2>1
<1>3. ASSUME NEW m \in Nat, m \in U
      PROVE  m + 1 \in U
  <2>1. PICK f : Good(f, m)
    BY <1>3
  <2>2. PICK g : g = [p \in D |-> Body(f, p)]
    OBVIOUS
  <2>3. ASSUME NEW a \in 1 .. n, NEW k \in CastKinds
        PROVE  g[<<a, k>>] = Body(f, <<a, k>>)
    <3> HIDE DEF Body
    <3> QED BY <2>2
  <2>4. ASSUME NEW a \in 1 .. n, NEW k \in CastKinds, a <= m
        PROVE  g[<<a, k>>] = f[<<a, k>>]
    <3> HIDE DEF Body
    <3> QED BY <2>1, <2>3, <2>4
  <2>5. ASSUME NEW a \in 1 .. n, NEW k \in CastKinds, a <= m + 1
        PROVE  Body(g, <<a, k>>) = Body(f, <<a, k>>)
    <3>1. CASE \A h : CastBody(steps, tr, dtype, h, <<a, k>>) = Make(<<IntCastStep(k, dtype, a)>>)
      BY Zenon, <3>1
    <3>2. ASSUME NEW c \in T, \A h : CastBody(steps, tr, dtype, h, <<a, k>>) = Use(c)
          PROVE  Body(g, <<a, k>>) = Body(f, <<a, k>>)
      BY Zenon, <3>2
    <3>3. ASSUME NEW c \in T, c < a, NEW j \in CastKinds,
                 \A h : CastBody(steps, tr, dtype, h, <<a, k>>) = h[<<c, j>>]
          PROVE  Body(g, <<a, k>>) = Body(f, <<a, k>>)
      <4>1. c \in 1 .. n /\ c <= m
        BY <2>5, <3>3 DEF Table, n
      <4>2. g[<<c, j>>] = f[<<c, j>>]
        BY <2>4, <4>1
      <4> QED BY Zenon, <3>3, <4>2
    <3>4. a \in 1 .. Len(steps)
      BY DEF n
    <3>5. CastCase(steps, T, tr, dtype, a, k)
      BY <3>4, CastCases
    <3> HIDE DEF Body
    <3> QED BY Zenon, <3>1, <3>2, <3>3, <3>5 DEF CastCase
  <2>6. g = [p \in D |-> g[p]]
    BY <2>2
  <2>7. \A a \in 1 .. n, k \in CastKinds : a <= m + 1 => g[<<a, k>>] = Body(g, <<a, k>>)
    <3> HIDE DEF Body
    <3> QED BY <2>3, <2>5
  <2>8. Good(g, m + 1)
    BY <2>6, <2>7
  <2> HIDE DEF Good
  <2> QED BY <2>8
<1>4. n \in U
  <2> HIDE DEF U
  <2> QED BY <1>1, <1>2, <1>3, NaturalInduction
<1>5. PICK f : Good(f, n)
  BY <1>4
<1>6. f = [p \in D |-> Body(f, p)]
  <2>1. ASSUME NEW p \in D PROVE f[p] = Body(f, p)
    <3>1. PICK a \in 1 .. n, k \in CastKinds : p = <<a, k>>
      OBVIOUS
    <3>2. a <= n
      BY <1>1
    <3> HIDE DEF Body
    <3> QED BY <1>5, <3>1, <3>2
  <2> HIDE DEF Body, D
  <2> QED BY <1>5, <2>1
<1> QED BY <1>1, <1>6 DEF IsCast

LEMMA CastsGood ==
  ASSUME NEW steps, NEW T, Table(steps, T), NEW tr, NEW dtype, NEW f, IsCast(f, steps, tr, dtype),
         NEW arg \in T, NEW kind \in CastKinds
  PROVE  GoodUse(f[<<arg, kind>>], T)
<1> DEFINE n == Len(steps)
           U == {m \in Nat : \A a \in T, k \in CastKinds : a <= m => GoodUse(f[<<a, k>>], T)}
<1>1. n \in Nat /\ DOMAIN steps = 1 .. n /\ T \subseteq 1 .. n
  BY AnySequence DEF Table
<1> HIDE DEF n
<1>2. ASSUME NEW a \in T, NEW k \in CastKinds
      PROVE  f[<<a, k>>] = CastBody(steps, tr, dtype, f, <<a, k>>)
  BY <1>1 DEF IsCast
<1>3. 0 \in U
  BY <1>1
<1>4. ASSUME NEW m \in Nat, m \in U
      PROVE  m + 1 \in U
  <2> SUFFICES ASSUME NEW a \in T, NEW k \in CastKinds, a <= m + 1 PROVE GoodUse(f[<<a, k>>], T)
    OBVIOUS
  <2>1. CASE \A h : CastBody(steps, tr, dtype, h, <<a, k>>) = Make(<<IntCastStep(k, dtype, a)>>)
    <3>1. f[<<a, k>>] = Make(<<IntCastStep(k, dtype, a)>>)
      BY Zenon, <1>2, <2>1
    <3>2. PlainNew(IntCastStep(k, dtype, a), 1, T)
      BY PlainSteps DEF Ref
    <3> QED BY <3>1, <3>2, MakeOne
  <2>2. ASSUME NEW c \in T, \A h : CastBody(steps, tr, dtype, h, <<a, k>>) = Use(c)
        PROVE  GoodUse(f[<<a, k>>], T)
    <3>1. f[<<a, k>>] = Use(c)
      BY Zenon, <1>2, <2>2
    <3> QED BY <3>1, UseGood
  <2>3. ASSUME NEW c \in T, c < a, NEW j \in CastKinds,
               \A h : CastBody(steps, tr, dtype, h, <<a, k>>) = h[<<c, j>>]
        PROVE  GoodUse(f[<<a, k>>], T)
    <3>1. f[<<a, k>>] = f[<<c, j>>]
      BY Zenon, <1>2, <2>3
    <3>2. c <= m
      BY <1>1, <2>3
    <3> QED BY <1>4, <3>1, <3>2
  <2>4. a \in 1 .. Len(steps)
    BY <1>1 DEF n
  <2>5. CastCase(steps, T, tr, dtype, a, k)
    BY <2>4, CastCases
  <2> QED BY Zenon, <2>1, <2>2, <2>3, <2>5 DEF CastCase
<1>5. n \in U
  <2> HIDE DEF U
  <2> QED BY <1>1, <1>3, <1>4, NaturalInduction
<1> QED BY <1>1, <1>5

LEMMA CastIs ==
  ASSUME NEW steps, NEW T, Table(steps, T), NEW tr, NEW dtype, NEW arg, NEW kind
  PROVE  \E f : IsCast(f, steps, tr, dtype) /\ CastOf(steps, tr, arg, dtype, kind) = f[<<arg, kind>>]
<1> DEFINE cast[p \in (DOMAIN steps) \X CastKinds] ==
             LET a == p[1]
                 k == p[2]
                 inner == steps[a]
                 src == steps[inner.args[1]].dtype
                 plain == Make(<<IntCastStep(k, dtype, a)>>)
             IN  IF "CastPeephole" \notin tr \/ inner.kind # "IntCast" THEN plain
                 ELSE IF k = "Trunc"
                 THEN IF inner.op = "Trunc" \/ Size(dtype) < Size(src) THEN cast[<<inner.args[1], "Trunc">>]
                      ELSE IF Size(dtype) = Size(src) THEN Use(inner.args[1])
                      ELSE cast[<<inner.args[1], inner.op>>]
                 ELSE IF inner.op = k THEN cast[<<inner.args[1], k>>]
                 ELSE IF k = "Sext" /\ inner.op = "Zext" THEN cast[<<inner.args[1], "Zext">>]
                 ELSE plain
<1>1. \E f : IsCast(f, steps, tr, dtype)
  BY CastExists
<1>2. IsCast(cast, steps, tr, dtype)
  BY Zenon, <1>1 DEF IsCast, CastBody
<1>3. CastOf(steps, tr, arg, dtype, kind) = cast[<<arg, kind>>]
  BY Zenon DEF CastOf
<1> HIDE DEF cast
<1> QED BY <1>2, <1>3

LEMMA CastGood ==
  ASSUME NEW steps, NEW T, Table(steps, T), NEW tr, NEW dtype, NEW arg \in T, NEW kind \in CastKinds
  PROVE  GoodUse(CastOf(steps, tr, arg, dtype, kind), T)
<1>1. PICK f : IsCast(f, steps, tr, dtype) /\ CastOf(steps, tr, arg, dtype, kind) = f[<<arg, kind>>]
  BY CastIs
<1>2. GoodUse(f[<<arg, kind>>], T)
  BY <1>1, CastsGood
<1> QED BY <1>1, <1>2

\* An extension always ends in an extension to the type that was asked for.
Extension(r, T, dtype) == \E c \in T, j \in {"Sext", "Zext"} : r = Make(<<IntCastStep(j, dtype, c)>>)
ExtendCase(steps, T, tr, dtype, a, k) ==
  \/ \A f : CastBody(steps, tr, dtype, f, <<a, k>>) = Make(<<IntCastStep(k, dtype, a)>>)
  \/ \E c \in T, j \in {"Sext", "Zext"} :
       c < a /\ \A f : CastBody(steps, tr, dtype, f, <<a, k>>) = f[<<c, j>>]

LEMMA ExtendCases ==
  ASSUME NEW steps, NEW T, Table(steps, T), NEW tr, NEW dtype, NEW a \in 1 .. Len(steps), NEW k \in {"Sext", "Zext"}
  PROVE  ExtendCase(steps, T, tr, dtype, a, k)
<1> DEFINE inner == steps[a]
           c == inner.args[1]
           Body(f) == CastBody(steps, tr, dtype, f, <<a, k>>)
<1>1. CASE "CastPeephole" \notin tr \/ inner.kind # "IntCast"
  <2>1. \A f : Body(f) = Make(<<IntCastStep(k, dtype, a)>>)
    BY Zenon, <1>1 DEF CastBody
  <2> QED BY Zenon, <2>1 DEF ExtendCase
<1>2. CASE "CastPeephole" \in tr /\ inner.kind = "IntCast"
  <2>1. c \in T /\ c < a
    BY <1>2 DEF Table, Shaped
  <2>2. ASSUME NEW f
        PROVE  Body(f) = IF inner.op = k THEN f[<<c, k>>]
                         ELSE IF k = "Sext" /\ inner.op = "Zext" THEN f[<<c, "Zext">>]
                         ELSE Make(<<IntCastStep(k, dtype, a)>>)
    <3>1. k # "Trunc"
      OBVIOUS
    <3> QED BY Zenon, <1>2, <3>1 DEF CastBody
  <2>3. "Zext" \in {"Sext", "Zext"}
    OBVIOUS
  <2> HIDE DEF c, inner, Body
  <2>4. CASE inner.op = k
    <3>1. \A f : Body(f) = f[<<c, k>>]
      BY Zenon, <2>2, <2>4
    <3> QED BY Zenon, <2>1, <3>1 DEF Body, ExtendCase
  <2>5. CASE inner.op # k /\ k = "Sext" /\ inner.op = "Zext"
    <3>1. \A f : Body(f) = f[<<c, "Zext">>]
      BY Zenon, <2>2, <2>5
    <3> QED BY Zenon, <2>1, <2>3, <3>1 DEF Body, ExtendCase
  <2>6. CASE inner.op # k /\ ~(k = "Sext" /\ inner.op = "Zext")
    <3>1. \A f : Body(f) = Make(<<IntCastStep(k, dtype, a)>>)
      BY Zenon, <2>2, <2>6
    <3> QED BY Zenon, <3>1 DEF Body, ExtendCase
  <2> QED BY Zenon, <2>4, <2>5, <2>6
<1> QED BY Zenon, <1>1, <1>2 DEF ExtendCase

LEMMA ExtendsMake ==
  ASSUME NEW steps, NEW T, Table(steps, T), NEW tr, NEW dtype, NEW arg \in T, NEW kind \in {"Sext", "Zext"}
  PROVE  Extension(CastOf(steps, tr, arg, dtype, kind), T, dtype)
<1> PICK f : IsCast(f, steps, tr, dtype) /\ CastOf(steps, tr, arg, dtype, kind) = f[<<arg, kind>>]
  BY CastIs
<1> DEFINE n == Len(steps)
           U == {m \in Nat : \A a \in T, k \in {"Sext", "Zext"} : a <= m => Extension(f[<<a, k>>], T, dtype)}
<1>1. n \in Nat /\ DOMAIN steps = 1 .. n /\ T \subseteq 1 .. n
  BY AnySequence DEF Table
<1> HIDE DEF n
<1>2. ASSUME NEW a \in T, NEW k \in {"Sext", "Zext"}
      PROVE  f[<<a, k>>] = CastBody(steps, tr, dtype, f, <<a, k>>)
  <2>1. k \in CastKinds
    BY DEF CastKinds
  <2> QED BY <1>1, <2>1 DEF IsCast
<1>3. 0 \in U
  BY <1>1
<1>4. ASSUME NEW m \in Nat, m \in U
      PROVE  m + 1 \in U
  <2> SUFFICES ASSUME NEW a \in T, NEW k \in {"Sext", "Zext"}, a <= m + 1 PROVE Extension(f[<<a, k>>], T, dtype)
    OBVIOUS
  <2>1. CASE \A h : CastBody(steps, tr, dtype, h, <<a, k>>) = Make(<<IntCastStep(k, dtype, a)>>)
    <3>1. f[<<a, k>>] = Make(<<IntCastStep(k, dtype, a)>>)
      BY Zenon, <1>2, <2>1
    <3> QED BY <3>1 DEF Extension
  <2>2. ASSUME NEW c \in T, c < a, NEW j \in {"Sext", "Zext"},
               \A h : CastBody(steps, tr, dtype, h, <<a, k>>) = h[<<c, j>>]
        PROVE  Extension(f[<<a, k>>], T, dtype)
    <3>1. f[<<a, k>>] = f[<<c, j>>]
      BY Zenon, <1>2, <2>2
    <3>2. c <= m
      BY <1>1, <2>2
    <3> QED BY <1>4, <3>1, <3>2
  <2>3. a \in 1 .. Len(steps)
    BY <1>1 DEF n
  <2>4. ExtendCase(steps, T, tr, dtype, a, k)
    BY <2>3, ExtendCases
  <2> QED BY Zenon, <2>1, <2>2, <2>4 DEF ExtendCase
<1>5. n \in U
  <2> HIDE DEF U
  <2> QED BY <1>1, <1>3, <1>4, NaturalInduction
<1>6. arg <= n
  BY <1>1
<1>7. Extension(f[<<arg, kind>>], T, dtype)
  BY Zenon, <1>5, <1>6
<1> QED BY <1>7

\* The conversions of a mixed cast: each one that is a FloatCast fits what it is given.
ChainFits(chain, tr, from) ==
  /\ IsSeq(chain)
  /\ \A k \in 1 .. Len(chain) :
       \/ chain[k][2] = "Trunc"
       \/ /\ chain[k][2] \in {"No", "Unsigned"}
          /\ Fit(tr, IF k = 1 THEN from ELSE chain[k - 1][1], chain[k][1])
ExtendedChain(chain, tr, to, unsigned) ==
  \E t, kind : kind \in {"Sext", "Zext"} /\ Fit(tr, t, to) /\ chain = << <<t, kind>>, <<to, unsigned>> >>

LEMMA ChainOf ==
  ASSUME NEW tr, NEW from
  PROVE  /\ ChainFits(<<>>, tr, from)
         /\ \A t, u : u \in {"No", "Unsigned"} /\ Fit(tr, from, t) => ChainFits(<< <<t, u>> >>, tr, from)
         /\ \A t, u, s, v : /\ u \in {"No", "Unsigned"} /\ Fit(tr, from, t)
                            /\ v = "Trunc" \/ (v \in {"No", "Unsigned"} /\ Fit(tr, t, s))
              => ChainFits(<< <<t, u>>, <<s, v>> >>, tr, from)
         /\ \A t, u, s, v, w : /\ u \in {"No", "Unsigned"} /\ Fit(tr, from, t)
                               /\ v \in {"No", "Unsigned"} /\ Fit(tr, t, s)
              => ChainFits(<< <<t, u>>, <<s, v>>, <<w, "Trunc">> >>, tr, from)
<1>1. ChainFits(<<>>, tr, from)
  BY Short DEF ChainFits
<1>2. ASSUME NEW t, NEW u \in {"No", "Unsigned"}, Fit(tr, from, t) PROVE ChainFits(<< <<t, u>> >>, tr, from)
  <2>1. PICK c : c = << <<t, u>> >>
    OBVIOUS
  <2>2. IsSeq(c) /\ Len(c) = 1 /\ c[1] = <<t, u>>
    BY <2>1, Short
  <2> QED BY <1>2, <2>1, <2>2 DEF ChainFits
<1>3. ASSUME NEW t, NEW u \in {"No", "Unsigned"}, Fit(tr, from, t), NEW s, NEW v,
             v = "Trunc" \/ (v \in {"No", "Unsigned"} /\ Fit(tr, t, s))
      PROVE  ChainFits(<< <<t, u>>, <<s, v>> >>, tr, from)
  <2>1. PICK c : c = << <<t, u>>, <<s, v>> >>
    OBVIOUS
  <2>2. IsSeq(c) /\ Len(c) = 2 /\ c[1] = <<t, u>> /\ c[2] = <<s, v>>
    BY <2>1, Short
  <2> QED BY <1>3, <2>1, <2>2 DEF ChainFits
<1>4. ASSUME NEW t, NEW u \in {"No", "Unsigned"}, Fit(tr, from, t), NEW s, NEW v \in {"No", "Unsigned"}, Fit(tr, t, s),
             NEW w
      PROVE  ChainFits(<< <<t, u>>, <<s, v>>, <<w, "Trunc">> >>, tr, from)
  <2>1. PICK c : c = << <<t, u>>, <<s, v>>, <<w, "Trunc">> >>
    OBVIOUS
  <2>2. IsSeq(c) /\ Len(c) = 3 /\ c[1] = <<t, u>> /\ c[2] = <<s, v>> /\ c[3] = <<w, "Trunc">>
    BY <2>1, Short
  <2> QED BY <1>4, <2>1, <2>2 DEF ChainFits
<1> QED BY <1>1, <1>2, <1>3, <1>4

LEMMA Sizes ==
  /\ Size("I8") = 1 /\ Size("I16") = 2 /\ Size("I32") = 4 /\ Size("I64") = 8 /\ Size("F32") = 4 /\ Size("F64") = 8
BY DEF Size

LEMMA ChainGood ==
  ASSUME NEW tr, NEW from, NEW to \in IntTypes \union FloatTypes, from \in FloatTypes \/ to \in FloatTypes,
         NEW unsigned \in {"No", "Unsigned"}
  PROVE  \/ ChainFits(FloatCastChain(from, to, unsigned), tr, from)
         \/ ExtendedChain(FloatCastChain(from, to, unsigned), tr, to, unsigned)
<1> DEFINE chain == FloatCastChain(from, to, unsigned)
           rewrite == FloatCastRewrite(from, to)
           small == {"I8", "I16"}
           full == {"I32", "I64"}
<1>1. ASSUME rewrite = "IntBridgeToTargetFloat"
      PROVE  /\ from # IntOfFloat(to) /\ Size(from) < Size(IntOfFloat(to)) /\ Size(IntOfFloat(to)) = Size(to)
             /\ chain = << <<IntOfFloat(to), BridgeKind(from, IntOfFloat(to), unsigned)>> >> \o << <<to, unsigned>> >>
  <2>1. to \in FloatTypes /\ (from \in small \/ (from = "I32" /\ to = "F64"))
    BY <1>1, Sizes DEF FloatCastRewrite, IntTypes, FloatTypes
  <2>2. from # IntOfFloat(to) /\ Size(from) < Size(IntOfFloat(to)) /\ Size(IntOfFloat(to)) = Size(to)
    BY <2>1, Sizes DEF IntOfFloat, FloatTypes
  <2>3. chain = (IF from = IntOfFloat(to) THEN <<>>
                 ELSE << <<IntOfFloat(to), BridgeKind(from, IntOfFloat(to), unsigned)>> >>) \o << <<to, unsigned>> >>
    BY Zenon, <1>1 DEF FloatCastChain
  <2> QED BY Zenon, <2>2, <2>3
<1>2. ASSUME rewrite = "FloatBridgeFromSourceInt"
      PROVE  from = "I64" /\ to = "F32" /\ chain = << <<"F64", unsigned>>, <<"F32", "No">> >>
  <2>1. from = "I64" /\ to = "F32"
    BY <1>2, Sizes DEF FloatCastRewrite, IntTypes, FloatTypes
  <2>2. FloatOfInt(from) = "F64"
    BY <2>1, Sizes DEF FloatOfInt
  <2>3. chain = << <<FloatOfInt(from), unsigned>>, <<to, "No">> >>
    BY Zenon, <1>2 DEF FloatCastChain
  <2> QED BY <2>1, <2>2, <2>3
<1>3. ASSUME rewrite = "FloatBridgeToTargetInt"
      PROVE  /\ from \in FloatTypes /\ FloatOfInt(to) \in FloatTypes /\ Size(FloatOfInt(to)) = Size(to)
             /\ chain = << <<FloatOfInt(to), "No">>, <<to, unsigned>> >>
  <2>1. to \in full /\ from \in FloatTypes
    BY <1>3 DEF FloatCastRewrite, IntTypes, FloatTypes
  <2>2. FloatOfInt(to) \in FloatTypes /\ Size(FloatOfInt(to)) = Size(to)
    BY <2>1, Sizes DEF FloatOfInt, FloatTypes
  <2>3. chain = << <<FloatOfInt(to), "No">>, <<to, unsigned>> >>
    BY Zenon, <1>3 DEF FloatCastChain
  <2> QED BY <2>1, <2>2, <2>3
<1>4. ASSUME rewrite = "FloatBridgeToSmallInt"
      PROVE  /\ from \in FloatTypes
             /\ chain = ((IF from = "F32" THEN <<>> ELSE << <<"F32", "No">> >>) \o << <<"I32", unsigned>> >>)
                        \o << <<to, "Trunc">> >>
  <2>1. to \in small /\ from \in FloatTypes
    BY <1>4 DEF FloatCastRewrite, IntTypes, FloatTypes
  <2>2. "I32" # to /\ BridgeKind("I32", to, unsigned) = "Trunc"
    BY <2>1, Sizes DEF BridgeKind
  <2>3. chain = ((IF from = "F32" THEN <<>> ELSE << <<"F32", "No">> >>) \o << <<"I32", unsigned>> >>)
                \o (IF "I32" = to THEN <<>> ELSE << <<to, BridgeKind("I32", to, unsigned)>> >>)
    BY Zenon, <1>4 DEF FloatCastChain
  <2> QED BY Zenon, <2>1, <2>2, <2>3
<1>5. ASSUME rewrite = "Original"
      PROVE  Fit(tr, from, to) /\ chain = << <<to, unsigned>> >>
  <2>1. from \in IntTypes \union FloatTypes => {from, to} \subseteq FloatTypes \/ Size(from) = Size(to)
    BY <1>5, Sizes DEF FloatCastRewrite, IntTypes, FloatTypes
  <2>2. chain = << <<to, unsigned>> >>
    BY Zenon, <1>5 DEF FloatCastChain
  <2> QED BY <2>1, <2>2 DEF Fit
<1>6. rewrite = "FloatIdentity" => chain = <<>>
  BY Zenon DEF FloatCastChain
<1>7. rewrite \in {"IntBridgeToTargetFloat", "FloatBridgeFromSourceInt", "Original", "FloatBridgeToSmallInt",
                   "FloatBridgeToTargetInt", "FloatIdentity"}
  BY DEF FloatCastRewrite
<1>8. /\ \A x, y : <<x>> \o <<y>> = <<x, y>>
      /\ \A x, y, z : (<<x>> \o <<y>>) \o <<z>> = <<x, y, z>> /\ (<<>> \o <<x>>) \o <<y>> = <<x, y>>
  BY SmallSequences
<1> HIDE DEF chain, rewrite
<1>9. CASE rewrite = "IntBridgeToTargetFloat"
  <2> DEFINE kind == BridgeKind(from, IntOfFloat(to), unsigned)
  <2>1. kind \in {"Sext", "Zext"}
    BY <1>1, <1>9 DEF BridgeKind
  <2>2. chain = << <<IntOfFloat(to), kind>>, <<to, unsigned>> >>
    BY <1>1, <1>8, <1>9
  <2>3. Fit(tr, IntOfFloat(to), to)
    BY <1>1, <1>9 DEF Fit
  <2> HIDE DEF kind
  <2>4. ExtendedChain(chain, tr, to, unsigned)
    BY Zenon, <2>1, <2>2, <2>3 DEF ExtendedChain
  <2> QED BY <2>4 DEF chain
<1>10. CASE rewrite = "FloatBridgeFromSourceInt"
  <2>1. Fit(tr, from, "F64") /\ Fit(tr, "F64", "F32")
    BY <1>2, <1>10, Sizes DEF Fit, FloatTypes
  <2>2. ChainFits(<< <<"F64", unsigned>>, <<"F32", "No">> >>, tr, from)
    BY <2>1, ChainOf
  <2> QED BY <1>2, <1>10, <2>2 DEF chain
<1>11. CASE rewrite = "FloatBridgeToTargetInt"
  <2>1. Fit(tr, from, FloatOfInt(to)) /\ Fit(tr, FloatOfInt(to), to)
    BY <1>3, <1>11 DEF Fit
  <2>2. ChainFits(<< <<FloatOfInt(to), "No">>, <<to, unsigned>> >>, tr, from)
    BY <2>1, ChainOf
  <2> QED BY <1>3, <1>11, <2>2 DEF chain
<1>12. CASE rewrite = "FloatBridgeToSmallInt"
  <2>1. Fit(tr, from, "F32") /\ Fit(tr, "F32", "I32")
    BY <1>4, <1>12, Sizes DEF Fit, FloatTypes
  <2>2. CASE from = "F32"
    <3>1. chain = << <<"I32", unsigned>>, <<to, "Trunc">> >>
      BY <1>4, <1>8, <1>12, <2>2
    <3>2. ChainFits(<< <<"I32", unsigned>>, <<to, "Trunc">> >>, tr, from)
      BY <2>1, <2>2, ChainOf
    <3> QED BY <3>1, <3>2 DEF chain
  <2>3. CASE from # "F32"
    <3>1. chain = << <<"F32", "No">>, <<"I32", unsigned>>, <<to, "Trunc">> >>
      BY <1>4, <1>8, <1>12, <2>3
    <3>2. ChainFits(<< <<"F32", "No">>, <<"I32", unsigned>>, <<to, "Trunc">> >>, tr, from)
      BY <2>1, ChainOf
    <3> QED BY <3>1, <3>2 DEF chain
  <2> QED BY <2>2, <2>3
<1>13. CASE rewrite = "Original"
  <2>1. ChainFits(<< <<to, unsigned>> >>, tr, from)
    BY <1>5, <1>13, ChainOf
  <2> QED BY <1>5, <1>13, <2>1 DEF chain
<1>14. CASE rewrite = "FloatIdentity"
  BY <1>6, <1>14, ChainOf DEF chain
<1> QED BY <1>7, <1>9, <1>10, <1>11, <1>12, <1>13, <1>14

\* A rewrite without a FloatCast is one whose casts fit, whatever the table.
LEMMA NoCastFits ==
  ASSUME NEW T, NEW steps, NEW tr
  PROVE  /\ \A new : NewSteps(new, T) => NewWith(new, steps, tr, T)
         /\ \A r : GoodUse(r, T) => GoodCast(r, steps, tr, T)
<1>1. \A new : NewSteps(new, T) => NewWith(new, steps, tr, T)
  BY DEF NewSteps, NewWith
<1> QED BY <1>1 DEF GoodUse, GoodCast

LEMMA MakeCast ==
  ASSUME NEW T, NEW steps, NEW tr, NEW new, NewWith(new, steps, tr, T), Len(new) > 0
  PROVE  GoodCast(Make(new), steps, tr, T)
<1>1. Make(new) = [new |-> new, at |-> -Len(new)]
  BY DEF Make
<1>2. Len(new) \in Nat
  BY AnySequence DEF NewWith
<1> QED BY <1>1, <1>2 DEF GoodCast

LEMMA FloatCastGood ==
  ASSUME NEW steps, NEW T, Table(steps, T), NEW tr, NEW arg \in T, NEW to \in IntTypes \union FloatTypes,
         NEW unsigned \in {"No", "Unsigned"}, steps[arg].dtype \in FloatTypes \/ to \in FloatTypes
  PROVE  GoodCast(FloatCastOf(steps, tr, arg, to, unsigned), steps, tr, T)
<1> DEFINE from == steps[arg].dtype
           chain == FloatCastChain(from, to, unsigned)
           step(k) == LET a == IF k = 1 THEN arg ELSE 1 - k
                      IN  IF chain[k][2] \in {"Trunc", "Sext", "Zext"}
                          THEN IntCastStep(chain[k][2], chain[k][1], a)
                          ELSE FloatCastStep(chain[k][2], chain[k][1], a)
           new == [k \in DOMAIN chain |-> step(k)]
           head == CastOf(steps, tr, arg, chain[1][1], chain[1][2])
           mixed == Append(head.new, FloatCastStep(chain[2][2], chain[2][1], head.at))
           Good(r) == GoodCast(r, steps, tr, T)
<1>1. FloatCastOf(steps, tr, arg, to, unsigned) =
        IF "CastDecomposition" \notin tr THEN Make(<<FloatCastStep(unsigned, to, arg)>>)
        ELSE IF chain = <<>> THEN Use(arg)
        ELSE IF chain[1][2] \in {"Sext", "Zext"} THEN Make(mixed) ELSE Make(new)
  BY Zenon DEF FloatCastOf, chain, new, step, mixed, head
<1>2. ChainFits(chain, tr, from) \/ ExtendedChain(chain, tr, to, unsigned)
  BY ChainGood
<1>3. arg \in Nat /\ ~(arg < 0)
  BY AnySequence DEF Table
<1> HIDE DEF chain
<1>4. Good(Use(arg))
  BY UseGood, NoCastFits
<1>5. "CastDecomposition" \notin tr => Good(Make(<<FloatCastStep(unsigned, to, arg)>>))
  <2> SUFFICES ASSUME "CastDecomposition" \notin tr PROVE Good(Make(<<FloatCastStep(unsigned, to, arg)>>))
    OBVIOUS
  <2>1. PICK one : one = <<FloatCastStep(unsigned, to, arg)>>
    OBVIOUS
  <2>2. IsSeq(one) /\ Len(one) = 1 /\ one[1] = FloatCastStep(unsigned, to, arg)
    BY <2>1, Short
  <2>3. CastNew(steps, tr, one, 1, T)
    <3>1. Ref(arg, 1, T) /\ Fit(tr, IF arg < 0 THEN one[-arg].dtype ELSE from, to)
      BY DEF Ref, Fit
    <3> QED BY <2>2, <3>1 DEF CastNew
  <2>4. NewWith(one, steps, tr, T)
    BY <2>2, <2>3 DEF NewWith
  <2> QED BY <2>1, <2>2, <2>4, MakeCast
<1>6. ASSUME ExtendedChain(chain, tr, to, unsigned)
      PROVE  chain # <<>> /\ chain[1][2] \in {"Sext", "Zext"} /\ Good(Make(mixed))
  <2>1. PICK t, kind : kind \in {"Sext", "Zext"} /\ Fit(tr, t, to) /\ chain = << <<t, kind>>, <<to, unsigned>> >>
    BY <1>6 DEF ExtendedChain
  <2>2. chain # <<>> /\ chain[1][1] = t /\ chain[1][2] = kind /\ chain[2][1] = to /\ chain[2][2] = unsigned
    BY <2>1
  <2>3. PICK c \in T, j \in {"Sext", "Zext"} : head = Make(<<IntCastStep(j, t, c)>>)
    BY <2>1, <2>2, ExtendsMake DEF Extension
  <2> DEFINE first == IntCastStep(j, t, c)
             second == FloatCastStep(unsigned, to, -1)
  <2>4. head.new = <<first>> /\ head.at = -1
    <3>1. PICK x : x = first
      OBVIOUS
    <3>2. Make(<<x>>).new = <<x>> /\ Make(<<x>>).at = -1
      BY Short DEF Make
    <3> QED BY <2>3, <3>1, <3>2
  <2>5. first.dtype = t
    BY StepFields DEF IntCastStep
  <2>6. PlainNew(first, 1, T)
    BY PlainSteps DEF Ref, CastKinds
  <2> HIDE DEF first, second, head
  <2>7. mixed = <<first, second>>
    <3>1. mixed = Append(<<first>>, second)
      BY <2>2, <2>4 DEF second
    <3> QED BY Zenon, <3>1, SmallSequences
  <2> HIDE DEF mixed
  <2>8. IsSeq(mixed) /\ Len(mixed) = 2 /\ mixed[1] = first /\ mixed[2] = second
    BY <2>7, Short
  <2>9. CastNew(steps, tr, mixed, 2, T)
    <3>1. PICK m : m = -1
      OBVIOUS
    <3>2. m \in 1 - 2 .. -1 /\ m < 0 /\ -m = 1
      <4>1. m \in 1 - 2 .. -1 /\ m < 0 /\ m + 1 = 0 /\ m \in Int
        BY <3>1
      <4>2. \A i \in Int : i + 1 = 0 => -i = 1
        OBVIOUS
      <4> QED BY Zenon, <4>1, <4>2
    <3>3. Ref(m, 2, T) /\ mixed[-m].dtype = t
      BY <2>5, <2>8, <3>2 DEF Ref
    <3>4. mixed[2] = FloatCastStep(unsigned, to, m)
      BY <2>8, <3>1 DEF second
    <3> QED BY <2>1, <3>2, <3>3, <3>4 DEF CastNew
  <2>10. NewWith(mixed, steps, tr, T)
    BY <2>6, <2>8, <2>9 DEF NewWith
  <2> QED BY <2>1, <2>2, <2>8, <2>10, MakeCast
<1>7. ASSUME ChainFits(chain, tr, from), chain # <<>>
      PROVE  chain[1][2] \notin {"Sext", "Zext"} /\ Good(Make(new))
  <2>1. IsSeq(chain) /\ Len(chain) \in Nat /\ DOMAIN chain = 1 .. Len(chain)
    BY <1>7, AnySequence DEF ChainFits
  <2>2. Len(chain) > 0
    <3>1. chain = [i \in 1 .. Len(chain) |-> chain[i]]
      BY <2>1, AnySequence
    <3>2. Len(chain) = 0 => chain = <<>>
      BY <3>1
    <3> QED BY <1>7, <2>1, <3>2
  <2>3. chain[1][2] \notin {"Sext", "Zext"}
    BY <1>7, <2>1, <2>2 DEF ChainFits
  <2>4. IsSeq(new) /\ Len(new) = Len(chain)
    <3>1. DOMAIN new = 1 .. Len(chain) /\ new = [i \in 1 .. Len(chain) |-> new[i]]
      BY <2>1
    <3> HIDE DEF new
    <3> QED BY <2>1, <3>1, SequenceFrom
  <2>5. \A k \in 1 .. Len(chain) : new[k] = step(k)
    BY <2>1
  <2>6. \A k \in 1 .. Len(chain) : new[k].dtype = chain[k][1]
    <3>1. ASSUME NEW k \in 1 .. Len(chain) PROVE step(k).dtype = chain[k][1]
      <4>1. \A op, t, a : IntCastStep(op, t, a).dtype = t /\ FloatCastStep(op, t, a).dtype = t
        BY DEF IntCastStep, FloatCastStep, Step
      <4> QED BY <4>1
    <3> HIDE DEF step, new
    <3> QED BY <2>5, <3>1
  <2>7. ASSUME NEW k \in 1 .. Len(chain) PROVE PlainNew(new[k], k, T) \/ CastNew(steps, tr, new, k, T)
    <3> DEFINE a == IF k = 1 THEN arg ELSE 1 - k
    <3>1. Ref(a, k, T) /\ k \in Nat
      BY <2>1 DEF Ref
    <3>2. new[k] = IF chain[k][2] \in {"Trunc", "Sext", "Zext"}
                   THEN IntCastStep(chain[k][2], chain[k][1], a)
                   ELSE FloatCastStep(chain[k][2], chain[k][1], a)
      BY <2>5
    <3>3. (IF a < 0 THEN new[-a].dtype ELSE steps[a].dtype) = IF k = 1 THEN from ELSE chain[k - 1][1]
      <4>1. CASE k = 1
        BY <1>3, <4>1
      <4>2. CASE k # 1
        <5>1. a < 0 /\ -a = k - 1 /\ k - 1 \in 1 .. Len(chain)
          BY <2>1, <4>2
        <5> HIDE DEF a, new
        <5> QED BY <2>6, <4>2, <5>1
      <4> QED BY <4>1, <4>2
    <3> HIDE DEF a, new
    <3>4. CASE chain[k][2] = "Trunc"
      <4>1. PlainNew(IntCastStep("Trunc", chain[k][1], a), k, T)
        BY <3>1, PlainSteps DEF CastKinds
      <4> QED BY <3>2, <3>4, <4>1
    <3>5. CASE chain[k][2] \in {"No", "Unsigned"} /\ Fit(tr, IF k = 1 THEN from ELSE chain[k - 1][1], chain[k][1])
      <4>1. new[k] = FloatCastStep(chain[k][2], chain[k][1], a)
        BY <3>2, <3>5
      <4>2. Fit(tr, IF a < 0 THEN new[-a].dtype ELSE steps[a].dtype, chain[k][1])
        BY <3>3, <3>5
      <4> QED BY <3>1, <4>1, <4>2 DEF CastNew
    <3> QED BY <1>7, <3>4, <3>5 DEF ChainFits
  <2> HIDE DEF new
  <2>8. NewWith(new, steps, tr, T)
    BY <2>4, <2>7 DEF NewWith
  <2> QED BY <2>2, <2>3, <2>4, <2>8, MakeCast
<1> HIDE DEF new, mixed
<1> QED BY <1>1, <1>2, <1>4, <1>5, <1>6, <1>7


(***************************************************************************)
(* Conditions.                                                              *)
(***************************************************************************)
LEMMA CompareGood ==
  ASSUME NEW steps, NEW T, NEW tr, NEW op, NEW unsigned, NEW l \in T, NEW r \in T
  PROVE  GoodRewrite(ComparePeephole(steps, tr, op, unsigned, l, r), T)
<1>1. GoodUse(Make(<<CompareStep(op, unsigned, r, l)>>), T)
  BY PlainSteps, MakeOne DEF Ref
<1> QED BY <1>1 DEF ComparePeephole, When, GoodRewrite

\* A step with other operands, as many as it had.
LEMMA Redirected ==
  ASSUME NEW s, IsStep(s), NEW h, IsSeq(h), Len(h) = Len(s.args)
  PROVE  LET t == [s EXCEPT !.args = h]
         IN  /\ IsStep(t) /\ t.args = h /\ (Shaped(s) => Shaped(t)) /\ (Plain(s) => Plain(t))
             /\ t.kind = s.kind /\ t.dtype = s.dtype /\ t.op = s.op /\ t.flag = s.flag /\ t.val = s.val
<1> DEFINE t == [s EXCEPT !.args = h]
<1>1. /\ t = Step(s.kind, s.dtype, s.op, s.flag, h, s.val) /\ t.args = h
      /\ t.kind = s.kind /\ t.dtype = s.dtype /\ t.op = s.op /\ t.flag = s.flag /\ t.val = s.val
  BY DEF IsStep, Step
<1> HIDE DEF t
<1>2. IsStep(t) /\ (Shaped(s) => Shaped(t)) /\ (Plain(s) => Plain(t))
  BY <1>1 DEF IsStep, Shaped, Plain
<1> QED BY <1>1, <1>2 DEF t

LEMMA AfterGood ==
  ASSUME NEW T \in SUBSET (Nat \ {0}), NEW f, GoodUse(f, T), NEW g, GoodUse(g, T)
  PROVE  /\ NewSteps(After(f, g), T) /\ Len(After(f, g)) = Len(f.new) + Len(g.new)
         /\ Ref(f.at, Len(f.new) + Len(g.new) + 1, T)
         /\ Ref(Moved(g.at, Len(f.new)), Len(f.new) + Len(g.new) + 1, T)
<1> DEFINE L == Len(f.new)
           M == Len(g.new)
           to(k) == [j \in DOMAIN g.new[k].args |-> Moved(g.new[k].args[j], L)]
           moved == [k \in DOMAIN g.new |-> [g.new[k] EXCEPT !.args = to(k)]]
           new == f.new \o moved
<1>1. /\ NewSteps(f.new, T) /\ IsSeq(f.new) /\ L \in Nat /\ Len(f.new) = L
      /\ NewSteps(g.new, T) /\ IsSeq(g.new) /\ M \in Nat /\ DOMAIN g.new = 1 .. M /\ Len(g.new) = M
  BY AnySequence DEF GoodUse, NewSteps
<1> HIDE DEF L, M
<1>2. IsSeq(moved) /\ Len(moved) = M
  <2>1. DOMAIN moved = 1 .. M /\ moved = [k \in 1 .. M |-> moved[k]]
    BY <1>1
  <2> HIDE DEF moved
  <2> QED BY <1>1, <2>1, SequenceFrom
<1>3. ASSUME NEW x, NEW k \in Nat, Ref(x, k, T)
      PROVE  Ref(Moved(x, L), k + L, T) /\ (x \in T => Moved(x, L) = x) /\ (x \in 1 - k .. -1 => Moved(x, L) = x - L)
  <2>1. CASE x \in T
    <3>1. x \in Nat
      BY <2>1
    <3> QED BY <1>1, <2>1, <3>1 DEF Ref, Moved
  <2>2. CASE x \in 1 - k .. -1
    <3>1. Moved(x, L) = x - L
      BY <1>1, <2>2 DEF Moved
    <3>2. x - L \in 1 - (k + L) .. -1 /\ x \notin T
      BY <1>1, <2>2
    <3> QED BY <3>1, <3>2 DEF Ref
  <2> QED BY <1>3, <2>1, <2>2 DEF Ref
<1>4. ASSUME NEW k \in 1 .. M, IsStep(g.new[k])
      PROVE  IsSeq(to(k)) /\ Len(to(k)) = Len(g.new[k].args)
  <2>1. IsSeq(g.new[k].args)
    BY <1>4 DEF IsStep
  <2>2. DOMAIN g.new[k].args = 1 .. Len(g.new[k].args) /\ Len(g.new[k].args) \in Nat
    BY <2>1, AnySequence
  <2>3. DOMAIN to(k) = 1 .. Len(g.new[k].args) /\ to(k) = [j \in 1 .. Len(g.new[k].args) |-> to(k)[j]]
    BY <2>2
  <2> HIDE DEF to
  <2> QED BY <2>2, <2>3, SequenceFrom
<1>5. ASSUME NEW k \in 1 .. M, PlainNew(g.new[k], k, T)
      PROVE  PlainNew(moved[k], k + L, T)
  <2> DEFINE s == g.new[k]
             h == to(k)
  <2>1. IsStep(s) /\ Shaped(s) /\ Plain(s) /\ \A j \in 1 .. Len(s.args) : Ref(s.args[j], k, T)
    BY <1>5 DEF PlainNew
  <2>2. IsSeq(h) /\ Len(h) = Len(s.args)
    BY <1>4, <2>1
  <2>3. \A j \in 1 .. Len(s.args) : h[j] = Moved(s.args[j], L)
    <3>1. DOMAIN s.args = 1 .. Len(s.args)
      BY <2>1, AnySequence DEF IsStep
    <3> QED BY <3>1
  <2>4. moved[k] = [s EXCEPT !.args = h]
    BY <1>1
  <2> HIDE DEF s, h, moved
  <2>5. IsStep(moved[k]) /\ Shaped(moved[k]) /\ Plain(moved[k]) /\ moved[k].args = h
    BY <2>1, <2>2, <2>4, Redirected
  <2>6. \A j \in 1 .. Len(h) : Ref(h[j], k + L, T)
    BY <1>3, <2>1, <2>2, <2>3
  <2> QED BY <2>5, <2>6 DEF PlainNew
<1>6. ASSUME NEW k \in 1 .. M, ShiftNew(g.new, k, T)
      PROVE  k > 1 /\ moved[k - 1].kind = "Const"
             /\ \E t, a : a \in T /\ moved[k] = ArithStep("ShiftLeftLogical", "No", t, a, 1 - (k + L))
  <2>1. PICK t, a : a \in T /\ g.new[k] = ArithStep("ShiftLeftLogical", "No", t, a, 1 - k)
    BY <1>6 DEF ShiftNew
  <2>2. k > 1 /\ g.new[k - 1].kind = "Const" /\ k - 1 \in 1 .. M
    BY <1>1, <1>6 DEF ShiftNew
  <2>3. IsStep(g.new[k - 1])
    <3>1. PlainNew(g.new[k - 1], k - 1, T) \/ ShiftNew(g.new, k - 1, T)
      BY <1>1, <2>2 DEF NewSteps
    <3>2. ASSUME ShiftNew(g.new, k - 1, T) PROVE IsStep(g.new[k - 1])
      <4>1. PICK u, d : d \in T /\ g.new[k - 1] = ArithStep("ShiftLeftLogical", "No", u, d, 1 - (k - 1))
        BY <3>2 DEF ShiftNew
      <4>2. IsStep(ArithStep("ShiftLeftLogical", "No", u, d, 1 - (k - 1)))
        BY Short, StepFields DEF ArithStep
      <4> QED BY <4>1, <4>2
    <3> QED BY <3>1, <3>2 DEF PlainNew
  <2>4. moved[k - 1].kind = "Const"
    <3>1. IsSeq(to(k - 1)) /\ Len(to(k - 1)) = Len(g.new[k - 1].args)
      BY <1>4, <2>2, <2>3
    <3>2. moved[k - 1] = [g.new[k - 1] EXCEPT !.args = to(k - 1)]
      BY <1>1, <2>2
    <3> HIDE DEF moved, to
    <3> QED BY <2>2, <2>3, <3>1, <3>2, Redirected
  <2>5. moved[k] = ArithStep("ShiftLeftLogical", "No", t, a, 1 - (k + L))
    <3>1. g.new[k].args = <<a, 1 - k>>
      BY <2>1 DEF ArithStep, Step
    <3>2. to(k) = <<Moved(a, L), Moved(1 - k, L)>>
      BY <3>1
    <3>3. Moved(a, L) = a /\ Moved(1 - k, L) = 1 - (k + L)
      <4>1. a \in Nat
        BY <2>1
      <4> QED BY <1>1, <2>2, <4>1 DEF Moved
    <3>4. moved[k] = [g.new[k] EXCEPT !.args = <<a, 1 - (k + L)>>]
      BY <1>1, <3>2, <3>3
    <3> HIDE DEF moved
    <3> QED BY <2>1, <3>4 DEF ArithStep, Step
  <2> QED BY <2>1, <2>2, <2>4, <2>5
<1> HIDE DEF moved
<1>7. /\ IsSeq(new) /\ Len(new) = L + M
      /\ \A i \in 1 .. L : new[i] = f.new[i]
      /\ \A i \in 1 .. M : new[L + i] = moved[i]
  <2>1. IsJoined(new, f.new, moved)
    BY <1>1, <1>2, Joined
  <2> HIDE DEF new
  <2> QED BY <1>1, <1>2, <2>1 DEF IsJoined
<1> HIDE DEF new
<1>8. ASSUME NEW k \in 1 .. L + M
      PROVE  PlainNew(new[k], k, T) \/ ShiftNew(new, k, T)
  <2>1. CASE k \in 1 .. L
    <3>1. new[k] = f.new[k] /\ (k > 1 => new[k - 1] = f.new[k - 1])
      BY <1>1, <1>7, <2>1
    <3>2. PlainNew(f.new[k], k, T) \/ ShiftNew(f.new, k, T)
      BY <1>1, <2>1 DEF NewSteps
    <3> QED BY <3>1, <3>2 DEF ShiftNew
  <2>2. CASE k \notin 1 .. L
    <3>1. PICK i : i = k - L
      OBVIOUS
    <3>2. i \in 1 .. M /\ k = i + L /\ new[k] = moved[i]
      BY <1>1, <1>7, <2>2, <3>1
    <3>3. PlainNew(g.new[i], i, T) \/ ShiftNew(g.new, i, T)
      BY <1>1, <3>2 DEF NewSteps
    <3>4. CASE PlainNew(g.new[i], i, T)
      BY <1>5, <3>2, <3>4
    <3>5. CASE ShiftNew(g.new, i, T)
      <4>1. /\ i > 1 /\ moved[i - 1].kind = "Const"
            /\ \E t, a : a \in T /\ moved[i] = ArithStep("ShiftLeftLogical", "No", t, a, 1 - (i + L))
        BY <1>6, <3>2, <3>5
      <4>2. i - 1 \in 1 .. M /\ new[L + (i - 1)] = moved[i - 1] /\ L + (i - 1) = k - 1 /\ k > 1
        BY <1>1, <1>7, <3>2, <4>1
      <4> QED BY <3>2, <4>1, <4>2 DEF ShiftNew
    <3> QED BY <3>3, <3>4, <3>5
  <2> QED BY <2>1, <2>2
<1>9. NewSteps(new, T)
  BY <1>7, <1>8 DEF NewSteps
<1>10. After(f, g) = new
  BY DEF After, new, moved, to, L
<1>11. Ref(f.at, L + M + 1, T)
  BY <1>1 DEF GoodUse, Ref
<1>12. Ref(Moved(g.at, L), L + M + 1, T)
  <2>1. Ref(g.at, M + 1, T) /\ M + 1 \in Nat /\ M + 1 + L = L + M + 1
    BY <1>1 DEF GoodUse, Ref
  <2> QED BY <1>3, <2>1
<1> QED BY <1>1, <1>7, <1>9, <1>10, <1>11, <1>12

\* The negation of c, given what the negations of its operands are.
InvertWith(steps, tr, c, x, y) ==
  LET s == steps[c]
      l == s.args[1]
      r == s.args[2]
      both(op) == IF ~Applies(x) \/ ~Applies(y) THEN NoRewrite
                  ELSE Make(Append(After(x, y), LogicStep(op, x.at, Moved(y.at, Len(x.new)))))
  IN  CASE s.kind = "PredicateNot" -> Use(s.args[1])
        [] s.kind = "Compare" ->
             IF steps[l].dtype \in FloatTypes /\ s.op \notin {"Equal", "NotEqual"} THEN NoRewrite
             ELSE FirstOf(<<ComparePeephole(steps, tr, Inverted(s.op), s.flag, l, r),
                            Make(<<CompareStep(Inverted(s.op), s.flag, l, r)>>)>>)
        [] s.kind = "PredicateBinary" ->
            (CASE s.op = "And" -> both("Or")
               [] s.op = "Or"  -> both("And")
               [] s.op = "Xor" -> Make(<<LogicStep("XNor", l, r)>>)
               [] s.op = "XNor" -> Make(<<LogicStep("Xor", l, r)>>)
               [] s.op = "AndNot" -> IF ~Applies(y) THEN NoRewrite
                                     ELSE Make(Append(y.new, LogicStep("Or", y.at, l))))
        [] OTHER -> NoRewrite

LEMMA InvertWithGood ==
  ASSUME NEW steps, NEW T, Table(steps, T), NEW tr, NEW c \in 1 .. Len(steps), NEW x, NEW y,
         steps[c].kind = "PredicateBinary" => GoodRewrite(x, T) /\ GoodRewrite(y, T)
  PROVE  GoodRewrite(InvertWith(steps, tr, c, x, y), T)
<1> DEFINE s == steps[c]
           l == s.args[1]
           r == s.args[2]
           both(op) == IF ~Applies(x) \/ ~Applies(y) THEN NoRewrite
                       ELSE Make(Append(After(x, y), LogicStep(op, x.at, Moved(y.at, Len(x.new)))))
           other == IF ~Applies(y) THEN NoRewrite ELSE Make(Append(y.new, LogicStep("Or", y.at, l)))
           compared == FirstOf(<<ComparePeephole(steps, tr, Inverted(s.op), s.flag, l, r),
                                 Make(<<CompareStep(Inverted(s.op), s.flag, l, r)>>)>>)
<1>1. Shaped(s) /\ \A j \in 1 .. Len(s.args) : s.args[j] \in T
  BY DEF Table
<1>2. T \in SUBSET (Nat \ {0})
  BY AnySequence DEF Table
<1>3. GoodRewrite(NoRewrite, T)
  BY DEF GoodRewrite
<1> HIDE DEF s
<1>4. CASE s.kind = "PredicateNot"
  <2>1. s.args[1] \in T
    BY <1>1, <1>4 DEF Shaped
  <2>2. InvertWith(steps, tr, c, x, y) = Use(s.args[1])
    BY Zenon, <1>4 DEF InvertWith, s
  <2> QED BY <2>1, <2>2, UseGood DEF GoodRewrite
<1>5. CASE s.kind = "Compare"
  <2>1. l \in T /\ r \in T
    BY <1>1, <1>5 DEF Shaped
  <2> HIDE DEF l, r
  <2>2. GoodRewrite(ComparePeephole(steps, tr, Inverted(s.op), s.flag, l, r), T)
    BY <2>1, CompareGood
  <2>3. GoodRewrite(Make(<<CompareStep(Inverted(s.op), s.flag, l, r)>>), T)
    BY <2>1, PlainSteps, MakeOne DEF Ref, GoodRewrite
  <2>4. GoodRewrite(compared, T)
    BY <2>2, <2>3, FirstOfSome
  <2>5. InvertWith(steps, tr, c, x, y) =
          IF steps[l].dtype \in FloatTypes /\ s.op \notin {"Equal", "NotEqual"} THEN NoRewrite ELSE compared
    <3>1. s.kind # "PredicateNot" /\ s.kind # "PredicateBinary"
      BY <1>5
    <3> QED BY Zenon, <1>5, <3>1 DEF InvertWith, s, l, r, compared
  <2> QED BY <1>3, <2>4, <2>5
<1>6. CASE s.kind = "PredicateBinary"
  <2>1. l \in T /\ r \in T /\ s.op \in LogicOps
    BY <1>1, <1>6 DEF Shaped
  <2>2. GoodRewrite(x, T) /\ GoodRewrite(y, T)
    BY <1>6 DEF s
  <2> HIDE DEF l, r
  <2>3. ASSUME NEW op \in LogicOps PROVE GoodRewrite(both(op), T)
    <3>1. CASE Applies(x) /\ Applies(y)
      <4>1. GoodUse(x, T) /\ GoodUse(y, T)
        BY <2>2, <3>1 DEF GoodRewrite, Applies
      <4>2. /\ NewSteps(After(x, y), T) /\ Len(After(x, y)) = Len(x.new) + Len(y.new)
            /\ Ref(x.at, Len(x.new) + Len(y.new) + 1, T)
            /\ Ref(Moved(y.at, Len(x.new)), Len(x.new) + Len(y.new) + 1, T)
        BY <1>2, <4>1, AfterGood
      <4>3. Len(After(x, y)) \in Nat
        BY <4>2, AnySequence DEF NewSteps
      <4>4. PlainNew(LogicStep(op, x.at, Moved(y.at, Len(x.new))), Len(After(x, y)) + 1, T)
        <5>1. Len(After(x, y)) + 1 \in Nat
          BY <4>3
        <5> QED BY <4>2, <5>1, PlainSteps
      <4> DEFINE new == Append(After(x, y), LogicStep(op, x.at, Moved(y.at, Len(x.new))))
      <4>5. NewSteps(new, T) /\ Len(new) = Len(After(x, y)) + 1
        BY <4>2, <4>4, NewAppend
      <4>6. both(op) = Make(new)
        BY <3>1
      <4> HIDE DEF new, both
      <4> QED BY <4>3, <4>5, <4>6, MakeGood DEF GoodRewrite
    <3>2. CASE ~(Applies(x) /\ Applies(y))
      BY <1>3, <3>2
    <3> QED BY <3>1, <3>2
  <2>4. GoodRewrite(other, T)
    <3>1. CASE Applies(y)
      <4>1. GoodUse(y, T)
        BY <2>2, <3>1 DEF GoodRewrite, Applies
      <4>2. NewSteps(y.new, T) /\ Len(y.new) \in Nat /\ Len(y.new) + 1 \in Nat
        BY <4>1, AnySequence DEF GoodUse, NewSteps
      <4>3. Ref(y.at, Len(y.new) + 1, T) /\ Ref(l, Len(y.new) + 1, T) /\ "Or" \in LogicOps
        BY <2>1, <4>1, <4>2 DEF GoodUse, Ref, LogicOps
      <4>4. PlainNew(LogicStep("Or", y.at, l), Len(y.new) + 1, T)
        BY <4>2, <4>3, PlainSteps
      <4> DEFINE new == Append(y.new, LogicStep("Or", y.at, l))
      <4>5. NewSteps(new, T) /\ Len(new) = Len(y.new) + 1
        BY <4>2, <4>4, NewAppend
      <4>6. other = Make(new)
        BY <3>1
      <4> HIDE DEF new, other
      <4> QED BY <4>2, <4>5, <4>6, MakeGood DEF GoodRewrite
    <3>2. CASE ~Applies(y)
      BY <1>3, <3>2
    <3> QED BY <3>1, <3>2
  <2>5. GoodRewrite(Make(<<LogicStep("XNor", l, r)>>), T) /\ GoodRewrite(Make(<<LogicStep("Xor", l, r)>>), T)
    BY <2>1, PlainSteps, MakeOne DEF Ref, GoodRewrite, LogicOps
  <2>6. InvertWith(steps, tr, c, x, y) =
          CASE s.op = "And" -> both("Or")
            [] s.op = "Or"  -> both("And")
            [] s.op = "Xor" -> Make(<<LogicStep("XNor", l, r)>>)
            [] s.op = "XNor" -> Make(<<LogicStep("Xor", l, r)>>)
            [] s.op = "AndNot" -> other
    <3>1. s.kind # "PredicateNot" /\ s.kind # "Compare"
      BY <1>6
    <3> QED BY Zenon, <1>6, <3>1 DEF InvertWith, s, l, r, other, both
  <2>7. GoodRewrite(both("Or"), T) /\ GoodRewrite(both("And"), T)
    BY <2>3 DEF LogicOps
  <2> HIDE DEF both, other
  <2> QED BY <2>1, <2>4, <2>5, <2>6, <2>7 DEF LogicOps
<1>7. CASE s.kind \notin {"PredicateNot", "Compare", "PredicateBinary"}
  <2>1. s.kind # "PredicateNot" /\ s.kind # "Compare" /\ s.kind # "PredicateBinary"
    BY <1>7
  <2>2. InvertWith(steps, tr, c, x, y) = NoRewrite
    BY Zenon, <2>1 DEF InvertWith, s
  <2> QED BY <1>3, <2>2
<1> QED BY <1>4, <1>5, <1>6, <1>7

InvertBody(steps, tr, f, c) == InvertWith(steps, tr, c, f[steps[c].args[1]], f[steps[c].args[2]])
IsInverse(f, steps, tr) == f = [c \in DOMAIN steps |-> InvertBody(steps, tr, f, c)]

LEMMA PredicateOperands ==
  ASSUME NEW steps, NEW T, Table(steps, T), NEW c \in 1 .. Len(steps), steps[c].kind = "PredicateBinary"
  PROVE  /\ steps[c].args[1] \in 1 .. Len(steps) /\ steps[c].args[1] < c
         /\ steps[c].args[2] \in 1 .. Len(steps) /\ steps[c].args[2] < c
<1>1. Len(steps[c].args) = 2
  BY DEF Table, Shaped
<1>2. \A j \in 1 .. 2 : steps[c].args[j] \in T /\ steps[c].args[j] < c
  BY <1>1 DEF Table
<1>3. T \subseteq 1 .. Len(steps)
  BY DEF Table
<1>4. /\ steps[c].args[1] \in T /\ steps[c].args[1] < c
      /\ steps[c].args[2] \in T /\ steps[c].args[2] < c
  <2>1. 1 \in 1 .. 2 /\ 2 \in 1 .. 2
    OBVIOUS
  <2> QED BY Zenon, <1>2, <2>1
<1> QED BY Zenon, <1>3, <1>4

LEMMA InvertLocal ==
  ASSUME NEW steps, NEW T, Table(steps, T), NEW tr, NEW c \in 1 .. Len(steps), NEW f, NEW g,
         \A d \in 1 .. Len(steps) : d < c => f[d] = g[d]
  PROVE  InvertBody(steps, tr, f, c) = InvertBody(steps, tr, g, c)
<1>1. CASE steps[c].kind = "PredicateBinary"
  <2>1. /\ steps[c].args[1] \in 1 .. Len(steps) /\ steps[c].args[1] < c
        /\ steps[c].args[2] \in 1 .. Len(steps) /\ steps[c].args[2] < c
    BY <1>1, PredicateOperands
  <2>2. f[steps[c].args[1]] = g[steps[c].args[1]] /\ f[steps[c].args[2]] = g[steps[c].args[2]]
    BY <2>1
  <2> QED BY Zenon, <2>2 DEF InvertBody
<1>2. CASE steps[c].kind # "PredicateBinary"
  BY Zenon, <1>2 DEF InvertBody, InvertWith
<1> QED BY <1>1, <1>2

LEMMA InverseExists ==
  ASSUME NEW steps, NEW T, Table(steps, T), NEW tr
  PROVE  \E f : IsInverse(f, steps, tr)
<1> DEFINE n == Len(steps)
           Body(f, c) == InvertBody(steps, tr, f, c)
           Good(f, m) == f = [c \in 1 .. n |-> f[c]] /\ \A c \in 1 .. n : c <= m => f[c] = Body(f, c)
           U == {m \in Nat : \E f : Good(f, m)}
<1>1. n \in Nat /\ DOMAIN steps = 1 .. n
  BY AnySequence DEF Table
<1>2. ASSUME NEW c \in 1 .. n, NEW f, NEW g, \A d \in 1 .. n : d < c => f[d] = g[d]
      PROVE  Body(f, c) = Body(g, c)
  BY <1>2, InvertLocal
<1> HIDE DEF n, Body
<1>3. 0 \in U
  <2> DEFINE g == [c \in 1 .. n |-> 0]
  <2>1. Good(g, 0)
    OBVIOUS
  <2> HIDE DEF Good
  <2> QED BY <2>1
<1>4. ASSUME NEW m \in Nat, m \in U
      PROVE  m + 1 \in U
  <2>1. PICK f : Good(f, m)
    BY <1>4
  <2>2. PICK g : g = [c \in 1 .. n |-> Body(f, c)]
    OBVIOUS
  <2>3. ASSUME NEW c \in 1 .. n, c <= m PROVE g[c] = f[c]
    BY <2>1, <2>2, <2>3
  <2>4. ASSUME NEW c \in 1 .. n, c <= m + 1 PROVE g[c] = Body(g, c)
    <3>1. \A d \in 1 .. n : d < c => g[d] = f[d]
      BY <1>1, <2>3, <2>4
    <3>2. Body(g, c) = Body(f, c)
      BY <1>2, <3>1
    <3> QED BY <2>2, <3>2
  <2>5. Good(g, m + 1)
    BY <2>2, <2>4
  <2> HIDE DEF Good
  <2> QED BY <2>5
<1>5. n \in U
  <2> HIDE DEF U
  <2> QED BY <1>1, <1>3, <1>4, NaturalInduction
<1>6. PICK f : Good(f, n)
  BY <1>5
<1>7. f = [c \in 1 .. n |-> Body(f, c)]
  <2>1. ASSUME NEW c \in 1 .. n PROVE f[c] = Body(f, c)
    BY <1>1, <1>6
  <2> QED BY <1>6, <2>1
<1> QED BY <1>1, <1>7 DEF IsInverse, Body

LEMMA InversesGood ==
  ASSUME NEW steps, NEW T, Table(steps, T), NEW tr, NEW f, IsInverse(f, steps, tr), NEW cond \in 1 .. Len(steps)
  PROVE  GoodRewrite(f[cond], T)
<1> DEFINE n == Len(steps)
           U == {m \in Nat : \A c \in 1 .. n : c <= m => GoodRewrite(f[c], T)}
<1>1. n \in Nat /\ DOMAIN steps = 1 .. n
  BY AnySequence DEF Table
<1>2. 0 \in U
  BY <1>1
<1>3. ASSUME NEW m \in Nat, m \in U
      PROVE  m + 1 \in U
  <2> SUFFICES ASSUME NEW c \in 1 .. n, c <= m + 1 PROVE GoodRewrite(f[c], T)
    OBVIOUS
  <2>1. f[c] = InvertWith(steps, tr, c, f[steps[c].args[1]], f[steps[c].args[2]])
    BY <1>1 DEF IsInverse, InvertBody
  <2>2. ASSUME steps[c].kind = "PredicateBinary"
        PROVE  GoodRewrite(f[steps[c].args[1]], T) /\ GoodRewrite(f[steps[c].args[2]], T)
    <3>1. /\ steps[c].args[1] \in 1 .. n /\ steps[c].args[1] <= m
          /\ steps[c].args[2] \in 1 .. n /\ steps[c].args[2] <= m
      <4>1. n \in Nat /\ m \in Nat /\ c <= m + 1
        BY <1>1
      <4> QED BY <2>2, <4>1, PredicateOperands
    <3> QED BY <1>3, <3>1
  <2> QED BY <2>1, <2>2, InvertWithGood
<1>4. n \in U
  <2> HIDE DEF U
  <2> QED BY <1>1, <1>2, <1>3, NaturalInduction
<1> QED BY <1>1, <1>4

LEMMA InvertedGood ==
  ASSUME NEW steps, NEW T, Table(steps, T), NEW tr, NEW cond \in T
  PROVE  GoodRewrite(InvertedCondition(steps, tr, cond), T)
<1> DEFINE invert[c \in DOMAIN steps] ==
             LET s == steps[c]
                 l == s.args[1]
                 r == s.args[2]
                 both(op) == LET f == invert[l]
                                 g == invert[r]
                             IN  IF ~Applies(f) \/ ~Applies(g) THEN NoRewrite
                                 ELSE Make(Append(After(f, g), LogicStep(op, f.at, Moved(g.at, Len(f.new)))))
             IN  CASE s.kind = "PredicateNot" -> Use(s.args[1])
                   [] s.kind = "Compare" ->
                        IF steps[l].dtype \in FloatTypes /\ s.op \notin {"Equal", "NotEqual"} THEN NoRewrite
                        ELSE FirstOf(<<ComparePeephole(steps, tr, Inverted(s.op), s.flag, l, r),
                                       Make(<<CompareStep(Inverted(s.op), s.flag, l, r)>>)>>)
                   [] s.kind = "PredicateBinary" ->
                       (CASE s.op = "And" -> both("Or")
                          [] s.op = "Or"  -> both("And")
                          [] s.op = "Xor" -> Make(<<LogicStep("XNor", l, r)>>)
                          [] s.op = "XNor" -> Make(<<LogicStep("Xor", l, r)>>)
                          [] s.op = "AndNot" ->
                               LET g == invert[r]
                               IN  IF ~Applies(g) THEN NoRewrite
                                   ELSE Make(Append(g.new, LogicStep("Or", g.at, l))))
                   [] OTHER -> NoRewrite
<1>1. \E f : IsInverse(f, steps, tr)
  BY InverseExists
<1>2. IsInverse(invert, steps, tr)
  BY Zenon, <1>1 DEF IsInverse, InvertBody, InvertWith
<1>3. InvertedCondition(steps, tr, cond) = invert[cond]
  BY Zenon DEF InvertedCondition
<1>4. cond \in 1 .. Len(steps)
  BY DEF Table
<1> HIDE DEF invert
<1> QED BY <1>2, <1>3, <1>4, InversesGood

(***************************************************************************)
(* Two comparisons, negations and choices.                                  *)
(***************************************************************************)
LEMMA Bounds ==
  ASSUME NEW steps, NEW T, Table(steps, T), NEW c \in T
  PROVE  /\ \E x, y, op : Above(steps, c) = <<x, y, op>> /\ (x # 0 => x \in T /\ y \in T)
         /\ \E x, y, op : Below(steps, c) = <<x, y, op>> /\ (x # 0 => x \in T /\ y \in T)
         /\ NonNegative(steps, c) # 0 => NonNegative(steps, c) \in T
<1> DEFINE s == steps[c]
<1>1. s.kind = "Compare" => s.args[1] \in T /\ s.args[2] \in T
  BY DEF Table, Shaped
<1> HIDE DEF s
<1>2. \E x, y, op : Above(steps, c) = <<x, y, op>> /\ (x # 0 => x \in T /\ y \in T)
  <2>1. \/ Above(steps, c) = <<0, 0, "">>
        \/ /\ s.kind = "Compare"
           /\ \E op : Above(steps, c) = <<s.args[1], s.args[2], op>> \/ Above(steps, c) = <<s.args[2], s.args[1], op>>
    BY Zenon DEF Above, s
  <2> QED BY <1>1, <2>1
<1>3. \E x, y, op : Below(steps, c) = <<x, y, op>> /\ (x # 0 => x \in T /\ y \in T)
  <2>1. \/ Below(steps, c) = <<0, 0, "">>
        \/ /\ s.kind = "Compare"
           /\ \E op : Below(steps, c) = <<s.args[1], s.args[2], op>> \/ Below(steps, c) = <<s.args[2], s.args[1], op>>
    BY Zenon DEF Below, s
  <2> QED BY <1>1, <2>1
<1>4. NonNegative(steps, c) # 0 => NonNegative(steps, c) \in T
  BY <1>1 DEF NonNegative, s
<1> QED BY <1>2, <1>3, <1>4

LEMMA BetweenZeroGood ==
  ASSUME NEW steps, NEW T, Table(steps, T), NEW l \in T, NEW r \in T
  PROVE  GoodRewrite(BetweenZero(steps, l, r), T)
<1>1. PICK x, y, op : Below(steps, r) = <<x, y, op>> /\ (x # 0 => x \in T /\ y \in T)
  BY Bounds
<1> DEFINE z == NonNegative(steps, l)
           res == Make(<<CompareStep(op, "Unsigned", z, y)>>)
<1>2. Below(steps, r)[1] = x /\ Below(steps, r)[2] = y /\ Below(steps, r)[3] = op
  BY <1>1
<1>3. z # 0 => z \in T
  BY Bounds
<1>4. z # 0 /\ x = z => GoodRewrite(res, T)
  BY <1>1, <1>3, PlainSteps, MakeOne DEF Ref, GoodRewrite
<1>5. BetweenZero(steps, l, r) = When(z # 0 /\ x = z /\ Const(steps, y) /\ SignedConst(steps, y) > 0, res)
  BY Zenon, <1>2 DEF BetweenZero
<1> HIDE DEF z, res
<1> QED BY <1>4, <1>5 DEF When, GoodRewrite

LEMMA BetweenGood ==
  ASSUME NEW steps, NEW T, Table(steps, T), NEW l \in T, NEW r \in T
  PROVE  GoodRewrite(Between(steps, l, r), T)
<1>1. PICK x, y, op : Above(steps, l) = <<x, y, op>> /\ (x # 0 => x \in T /\ y \in T)
  BY Bounds
<1>2. Above(steps, l)[1] = x
  BY <1>1
<1>3. ASSUME NEW u, NEW v, NEW t, x # 0
      PROVE  GoodUse(Make(<<ConstStep(u, t), ConstStep(v, t), ArithStep("Sub", "No", t, x, -1),
                            CompareStep("LessEqual", "Unsigned", -3, -2)>>), T)
  <2> DEFINE new == <<ConstStep(u, t), ConstStep(v, t), ArithStep("Sub", "No", t, x, -1),
                      CompareStep("LessEqual", "Unsigned", -3, -2)>>
  <2>1. PlainNew(ConstStep(u, t), 1, T) /\ PlainNew(ConstStep(v, t), 2, T)
    BY PlainSteps
  <2>2. PlainNew(ArithStep("Sub", "No", t, x, -1), 3, T)
    <3>1. Ref(x, 3, T) /\ Ref(-1, 3, T)
      BY <1>1, <1>3 DEF Ref
    <3> QED BY <3>1, PlainSteps
  <2>3. PlainNew(CompareStep("LessEqual", "Unsigned", -3, -2), 4, T)
    <3>1. Ref(-3, 4, T) /\ Ref(-2, 4, T)
      BY DEF Ref
    <3> QED BY <3>1, PlainSteps
  <2>4. /\ IsSeq(new) /\ Len(new) = 4 /\ new[1] = ConstStep(u, t) /\ new[2] = ConstStep(v, t)
        /\ new[3] = ArithStep("Sub", "No", t, x, -1) /\ new[4] = CompareStep("LessEqual", "Unsigned", -3, -2)
    BY Short
  <2> HIDE DEF new
  <2>5. NewSteps(new, T)
    BY <2>1, <2>2, <2>3, <2>4 DEF NewSteps
  <2>6. GoodUse(Make(new), T)
    <3>1. Len(new) > 0
      BY <2>4
    <3> QED BY <2>5, <3>1, MakeGood
  <2> QED BY <2>6 DEF new
<1>4. CASE x = 0
  <2>1. Between(steps, l, r) = NoRewrite
    BY Zenon, <1>2, <1>4 DEF Between, When
  <2> QED BY <2>1 DEF GoodRewrite
<1>5. CASE x # 0
  <2>1. \/ Between(steps, l, r) = NoRewrite
        \/ \E u, v, t :
             Between(steps, l, r) = Make(<<ConstStep(u, t), ConstStep(v, t), ArithStep("Sub", "No", t, x, -1),
                                           CompareStep("LessEqual", "Unsigned", -3, -2)>>)
    BY Zenon, <1>2 DEF Between, When
  <2> QED BY <1>3, <1>5, <2>1 DEF GoodRewrite
<1> QED BY <1>4, <1>5

LEMMA NegatedGood ==
  ASSUME NEW steps, NEW T, Table(steps, T), NEW c \in T, Negation(steps, c)
  PROVE  Negated(steps, c) \in T
BY DEF Negation, Negated, Table, Shaped

LEMMA LogicMade ==
  ASSUME NEW T, NEW x \in T, NEW y \in T, NEW op \in LogicOps
  PROVE  /\ GoodRewrite(Make(<<LogicStep(op, x, y)>>), T)
         /\ GoodRewrite(Make(<<LogicStep(op, x, y), NotStep(-1)>>), T)
<1>1. PlainNew(LogicStep(op, x, y), 1, T)
  BY PlainSteps DEF Ref
<1>2. PlainNew(NotStep(-1), 2, T)
  <2>1. Ref(-1, 2, T)
    BY DEF Ref
  <2> QED BY <2>1, PlainSteps
<1> QED BY <1>1, <1>2, MakeOne, MakeTwo DEF GoodRewrite

LEMMA AndGood ==
  ASSUME NEW steps, NEW T, Table(steps, T), NEW tr, NEW l \in T, NEW r \in T
  PROVE  GoodRewrite(AndPeephole(steps, tr, l, r), T)
<1> DEFINE NL == Negation(steps, l)
           NR == Negation(steps, r)
           x == Negated(steps, l)
           y == Negated(steps, r)
           andnot == IF NL /\ NR THEN Make(<<LogicStep("Or", x, y), NotStep(-1)>>)
                     ELSE IF NL THEN Make(<<LogicStep("AndNot", x, r)>>)
                     ELSE When(NR, Make(<<LogicStep("AndNot", y, l)>>))
           between == FirstOf(<<BetweenZero(steps, l, r), BetweenZero(steps, r, l),
                                Between(steps, l, r), Between(steps, r, l)>>)
<1>1. (NL => x \in T) /\ (NR => y \in T)
  BY NegatedGood
<1>2. GoodRewrite(between, T)
  BY BetweenZeroGood, BetweenGood, FirstOfSome
<1> HIDE DEF between, NL, NR, x, y
<1>3. GoodRewrite(andnot, T)
  <2>1. NL /\ NR => GoodRewrite(Make(<<LogicStep("Or", x, y), NotStep(-1)>>), T)
    BY <1>1, LogicMade DEF LogicOps
  <2>2. NL => GoodRewrite(Make(<<LogicStep("AndNot", x, r)>>), T)
    BY <1>1, LogicMade DEF LogicOps
  <2>3. NR => GoodRewrite(Make(<<LogicStep("AndNot", y, l)>>), T)
    BY <1>1, LogicMade DEF LogicOps
  <2>4. GoodRewrite(NoRewrite, T)
    BY DEF GoodRewrite
  <2> QED BY <2>1, <2>2, <2>3, <2>4 DEF When
<1> HIDE DEF andnot
<1>4. /\ GoodRewrite(When("BetweenPeephole" \in tr, between), T)
      /\ GoodRewrite(When("LogicalPeephole" \in tr, andnot), T)
  BY <1>2, <1>3 DEF When, GoodRewrite
<1>5. AndPeephole(steps, tr, l, r) =
        FirstOf(<<When("BetweenPeephole" \in tr, between), When("LogicalPeephole" \in tr, andnot)>>)
  BY Zenon DEF AndPeephole, between, andnot, NL, NR, x, y
<1> QED BY <1>4, <1>5, FirstOfSome

LEMMA OrGood ==
  ASSUME NEW steps, NEW T, Table(steps, T), NEW l \in T, NEW r \in T
  PROVE  GoodRewrite(OrPeephole(steps, l, r), T)
<1>1. (Negation(steps, l) => Negated(steps, l) \in T) /\ (Negation(steps, r) => Negated(steps, r) \in T)
  BY NegatedGood
<1>2. GoodRewrite(NoRewrite, T)
  BY DEF GoodRewrite
<1> QED BY <1>1, <1>2, LogicMade DEF OrPeephole, When, LogicOps

LEMMA AndNotGood ==
  ASSUME NEW steps, NEW T, Table(steps, T), NEW tr, NEW l \in T, NEW r \in T
  PROVE  GoodRewrite(AndNotPeephole(steps, tr, l, r), T)
<1>1. (Negation(steps, l) => Negated(steps, l) \in T) /\ (Negation(steps, r) => Negated(steps, r) \in T)
  BY NegatedGood
<1>2. GoodRewrite(NoRewrite, T)
  BY DEF GoodRewrite
<1> QED BY <1>1, <1>2, LogicMade DEF AndNotPeephole, When, LogicOps

LEMMA SelectGood ==
  ASSUME NEW steps, NEW T, Table(steps, T), NEW tr, NEW c \in T, NEW x \in T, NEW y \in T
  PROVE  GoodRewrite(SelectPeephole(steps, tr, c, x, y), T)
<1> DEFINE swapped == Make(<<SelectStep(steps[x].dtype, Negated(steps, c), y, x)>>)
           first == When("ConstantConditionPeephole" \in tr /\ ConstClass(steps[c]) = "BoolTrue", Use(x))
           second == When("ConstantConditionPeephole" \in tr /\ ConstClass(steps[c]) = "BoolFalse", Use(y))
           third == When("LogicalPeephole" \in tr /\ x = y, Use(x))
           fourth == When("LogicalPeephole" \in tr /\ Negation(steps, c), swapped)
<1>1. Negation(steps, c) => GoodUse(swapped, T)
  <2>1. Negation(steps, c) => Negated(steps, c) \in T
    BY NegatedGood
  <2>2. Negation(steps, c) => PlainNew(SelectStep(steps[x].dtype, Negated(steps, c), y, x), 1, T)
    BY <2>1, PlainSteps DEF Ref
  <2> QED BY <2>2, MakeOne
<1>2. GoodUse(Use(x), T) /\ GoodUse(Use(y), T)
  BY UseGood
<1> HIDE DEF swapped
<1>3. GoodRewrite(first, T) /\ GoodRewrite(second, T) /\ GoodRewrite(third, T) /\ GoodRewrite(fourth, T)
  BY <1>1, <1>2 DEF When, GoodRewrite
<1>4. SelectPeephole(steps, tr, c, x, y) = FirstOf(<<first, second, third, fourth>>)
  BY Zenon DEF SelectPeephole, swapped
<1> HIDE DEF first, second, third, fourth
<1> QED BY <1>3, <1>4, FirstOfSome

(***************************************************************************)
(* Builders.                                                                *)
(***************************************************************************)
\* What the target has to be able to do for step s: Needs of a step.
StepNeeds(steps, s) ==
  LET small == s.dtype \in {"I8", "I16"}
  IN  (IF s.kind # "ArithBinary" THEN {}
       ELSE (IF s.dtype = "I64" /\ s.op = "Mul" THEN {"I64Mul"} ELSE {})
            \union (IF s.dtype = "I8" /\ s.op = "Mul" THEN {"I8Mul"} ELSE {})
            \union (IF /\ s.dtype = "I8" /\ s.op \in {"ShiftRightArith", "ShiftRightLogical", "ShiftLeftLogical"}
                       /\ ~Const(steps, s.args[2])
                    THEN {"I8VariableShift"} ELSE {}))
      \union CASE s.kind = "ArithUnary" /\ s.op = "Lzcnt" /\ small -> {"SmallLzcnt"}
               [] s.kind = "Gather" -> {"Gather"} \union (IF small THEN {"SmallGather"} ELSE {})
               [] s.kind = "Scatter" -> {IF Len(s.args) = 3 THEN "CondScatter" ELSE "Scatter"}
               [] s.kind = "Pack" /\ small -> {"SmallPack"}
               [] s.kind = "AccArithBinary" /\ s.op = "Mul" /\ s.dtype = "I64" -> {"I64Mul"}
               [] OTHER -> {}

\* What a step needs is announced, and it is no conversion that has to be split.
Met(steps, tr, special, s) == StepNeeds(steps, s) \subseteq special /\ NeedsNoSplit(steps, tr, s)

\* The steps a call may give as its result and an output may use.
SafeIn(steps, tr, special) == {i \in 1 .. Len(steps) : Met(steps, tr, special, steps[i])}
Safe(B) == SafeIn(B.steps, B.tr, B.special)

Builder(steps, remembered, reverse, special, scalarOnly, args, safety, accs, roots, tr) ==
  [steps |-> steps, remembered |-> remembered, reverse |-> reverse, special |-> special, scalarOnly |-> scalarOnly,
   args |-> args, safety |-> safety, accs |-> accs, roots |-> roots, tr |-> tr]
IsBuilder(B) ==
  B = Builder(B.steps, B.remembered, B.reverse, B.special, B.scalarOnly, B.args, B.safety, B.accs, B.roots, B.tr)

WriteKinds == {"Store", "Scatter", "Pack"}
Written(B, a) == B.args[a].kind \intersect {"Dst", "DstAgg", "DstSafetyCheck", "SrcIdxArr"} # {}
WrittenArg(B, a) == a \in 1 .. Len(B.args) /\ Written(B, a)

IsArgs(args) ==
  IsSeq(args) /\ \A a \in 1 .. Len(args) : args[a] = [dtype |-> args[a].dtype, kind |-> args[a].kind]

\* The expressions: operands and remembered results are steps whose needs are announced.
ExpressionsOK(B) ==
  /\ Table(B.steps, Safe(B))
  /\ IsSeq(B.reverse) /\ Len(B.reverse) = Len(B.steps)
  /\ \A i \in 1 .. Len(B.steps) : B.reverse[i] \in 0 .. Len(B.steps)
  /\ \A e \in B.remembered : e.key \in 1 .. Len(B.steps) /\ e.result \in Safe(B)

\* The arguments: what is written through has a kind that says so.
AccessesOK(B) ==
  /\ IsArgs(B.args)
  /\ B.safety = 0 \/ WrittenArg(B, B.safety)
  /\ \A k \in 1 .. Len(B.accs) : WrittenArg(B, B.accs[k].dst)
  /\ \A i \in 1 .. Len(B.steps) : B.steps[i].kind \in WriteKinds => WrittenArg(B, B.steps[i].val[1])

OutputsOK(B) ==
  /\ IsSeq(B.accs) /\ IsSeq(B.roots)
  /\ \A k \in 1 .. Len(B.roots) : B.roots[k] \in Safe(B)

WF(B) == IsBuilder(B) /\ ExpressionsOK(B) /\ AccessesOK(B) /\ OutputsOK(B)

\* C is B with more: nothing that was created is lost.
Keeps(B, C) ==
  /\ Len(B.steps) <= Len(C.steps) /\ \A i \in 1 .. Len(B.steps) : C.steps[i] = B.steps[i]
  /\ B.special \subseteq C.special /\ C.tr = B.tr
  /\ Len(C.args) = Len(B.args)
  /\ \A a \in 1 .. Len(B.args) : C.args[a].dtype = B.args[a].dtype /\ (Written(B, a) => Written(C, a))
SameOutputs(B, C) == C.roots = B.roots /\ C.accs = B.accs
Extends(B, C) == Keeps(B, C) /\ SameOutputs(B, C) /\ C.safety = B.safety

\* A call that gives a result, and one that may be refused instead.
IsAnswer(a) == a = [b |-> a.b, id |-> a.id]
GoodResult(B, a) == IsAnswer(a) /\ WF(a.b) /\ Extends(B, a.b) /\ a.id \in Safe(a.b)
GoodAnswer(B, a) == IsAnswer(a) /\ WF(a.b) /\ Extends(B, a.b) /\ (a.id = 0 \/ a.id \in Safe(a.b))
GoodOutput(B, a) ==
  /\ IsAnswer(a) /\ WF(a.b) /\ Keeps(B, a.b) /\ a.id \in 0 .. Len(a.b.steps)
  /\ a.id = 0 => SameOutputs(B, a.b)

LEMMA NeedsOfStep ==
  ASSUME NEW steps, NEW i
  PROVE  Needs(steps, i) = StepNeeds(steps, steps[i])
BY Zenon DEF Needs, StepNeeds, ArithSpecialOps

LEMMA NeedsStay ==
  ASSUME NEW steps, NEW more, NEW s,
         s.kind = "ArithBinary" => more[s.args[2]].kind = steps[s.args[2]].kind
  PROVE  StepNeeds(more, s) = StepNeeds(steps, s)
<1>1. CASE s.kind = "ArithBinary"
  <2>1. Const(more, s.args[2]) <=> Const(steps, s.args[2])
    BY <1>1 DEF Const
  <2> QED BY Zenon, <2>1 DEF StepNeeds
<1>2. CASE s.kind # "ArithBinary"
  BY Zenon, <1>2 DEF StepNeeds
<1> QED BY <1>1, <1>2

\* The needs of a step whose operands are there do not change when steps are added.
LEMMA NeedsKept ==
  ASSUME NEW steps, NEW more, NEW s, Shaped(s), \A j \in 1 .. Len(s.args) : s.args[j] \in 1 .. Len(steps),
         \A i \in 1 .. Len(steps) : more[i] = steps[i]
  PROVE  StepNeeds(more, s) = StepNeeds(steps, s)
<1>1. s.kind = "ArithBinary" => s.args[2] \in 1 .. Len(steps)
  <2>1. s.kind = "ArithBinary" => Len(s.args) = 2 /\ 2 \in 1 .. 2
    BY DEF Shaped
  <2> QED BY <2>1
<1> QED BY <1>1, NeedsStay

LEMMA MetKept ==
  ASSUME NEW steps, NEW more, NEW s, Shaped(s), \A j \in 1 .. Len(s.args) : s.args[j] \in 1 .. Len(steps),
         \A i \in 1 .. Len(steps) : more[i] = steps[i], NEW tr, NEW special, NEW wider, special \subseteq wider,
         Met(steps, tr, special, s)
  PROVE  Met(more, tr, wider, s)
<1>1. StepNeeds(more, s) = StepNeeds(steps, s)
  BY NeedsKept
<1>2. s.kind = "FloatCast" => more[s.args[1]] = steps[s.args[1]]
  <2>1. s.kind = "FloatCast" => Len(s.args) = 1 /\ 1 \in 1 .. 1
    BY DEF Shaped
  <2> QED BY <2>1
<1>3. NeedsNoSplit(more, tr, s)
  BY <1>2 DEF Met, NeedsNoSplit
<1> QED BY <1>1, <1>3 DEF Met

LEMMA WFFacts ==
  ASSUME NEW B, WF(B)
  PROVE  /\ IsSeq(B.steps) /\ Len(B.steps) \in Nat /\ DOMAIN B.steps = 1 .. Len(B.steps)
         /\ IsSeq(B.reverse) /\ DOMAIN B.reverse = 1 .. Len(B.steps)
         /\ IsSeq(B.args) /\ Len(B.args) \in Nat /\ DOMAIN B.args = 1 .. Len(B.args)
         /\ IsSeq(B.accs) /\ Len(B.accs) \in Nat /\ DOMAIN B.accs = 1 .. Len(B.accs)
         /\ IsSeq(B.roots) /\ Len(B.roots) \in Nat /\ DOMAIN B.roots = 1 .. Len(B.roots)
         /\ Safe(B) \subseteq 1 .. Len(B.steps) /\ Safe(B) \in SUBSET (Nat \ {0})
         /\ Table(B.steps, Safe(B))
<1>1. Table(B.steps, Safe(B)) /\ IsSeq(B.reverse) /\ Len(B.reverse) = Len(B.steps)
  BY DEF WF, ExpressionsOK
<1>2. IsSeq(B.steps) /\ Len(B.steps) \in Nat /\ DOMAIN B.steps = 1 .. Len(B.steps) /\ DOMAIN B.reverse = 1 .. Len(B.steps)
  BY <1>1, AnySequence DEF Table
<1>3. IsSeq(B.args) /\ IsSeq(B.accs) /\ IsSeq(B.roots)
  BY DEF WF, AccessesOK, IsArgs, OutputsOK
<1>4. /\ Len(B.args) \in Nat /\ DOMAIN B.args = 1 .. Len(B.args)
      /\ Len(B.accs) \in Nat /\ DOMAIN B.accs = 1 .. Len(B.accs)
      /\ Len(B.roots) \in Nat /\ DOMAIN B.roots = 1 .. Len(B.roots)
  BY <1>3, AnySequence
<1>5. Safe(B) \subseteq 1 .. Len(B.steps)
  BY DEF Safe, SafeIn
<1>6. Safe(B) \in SUBSET (Nat \ {0})
  BY <1>2, <1>5
<1> QED BY <1>1, <1>2, <1>3, <1>4, <1>5, <1>6

LEMMA KeepsSafe ==
  ASSUME NEW B, WF(B), NEW C, Keeps(B, C), Len(C.steps) \in Nat
  PROVE  Safe(B) \subseteq Safe(C)
<1> SUFFICES ASSUME NEW i \in Safe(B) PROVE i \in Safe(C)
  OBVIOUS
<1>1. /\ i \in 1 .. Len(B.steps) /\ Met(B.steps, B.tr, B.special, B.steps[i]) /\ Len(B.steps) \in Nat
      /\ Table(B.steps, Safe(B))
  BY WFFacts DEF Safe, SafeIn
<1>2. /\ i \in 1 .. Len(C.steps) /\ C.steps[i] = B.steps[i] /\ B.special \subseteq C.special /\ C.tr = B.tr
      /\ \A k \in 1 .. Len(B.steps) : C.steps[k] = B.steps[k]
  BY <1>1 DEF Keeps
<1>3. Shaped(B.steps[i]) /\ \A j \in 1 .. Len(B.steps[i].args) : B.steps[i].args[j] \in 1 .. Len(B.steps)
  BY <1>1 DEF Table
<1>4. Met(C.steps, B.tr, C.special, B.steps[i])
  BY <1>1, <1>2, <1>3, MetKept
<1> QED BY <1>2, <1>4 DEF Safe, SafeIn

LEMMA KeepsOn ==
  ASSUME NEW B, NEW C, NEW D, Len(B.steps) \in Nat, Len(C.steps) \in Nat, Len(D.steps) \in Nat,
         Keeps(B, C), Keeps(C, D)
  PROVE  Keeps(B, D)
BY DEF Keeps

LEMMA ExtendsOn ==
  ASSUME NEW B, NEW C, NEW D, WF(B), WF(C), WF(D), Extends(B, C), Extends(C, D)
  PROVE  Extends(B, D)
BY WFFacts, KeepsOn DEF Extends, SameOutputs

LEMMA ExtendsSelf ==
  ASSUME NEW B, WF(B)
  PROVE  Extends(B, B) /\ Keeps(B, B) /\ SameOutputs(B, B)
BY WFFacts DEF Extends, Keeps, SameOutputs

\* A builder in which only the arguments, what is announced and scalarOnly differ.
LEMMA SameStepsGood ==
  ASSUME NEW B, WF(B), NEW C, IsBuilder(C), Keeps(B, C), SameOutputs(B, C), C.steps = B.steps,
         C.remembered = B.remembered, C.reverse = B.reverse, IsArgs(C.args),
         C.safety = B.safety
  PROVE  WF(C) /\ Extends(B, C) /\ Safe(B) \subseteq Safe(C)
<1>1. Safe(B) \subseteq Safe(C)
  BY WFFacts, KeepsSafe
<1>2. ExpressionsOK(C)
  <2>1. Table(C.steps, Safe(C))
    <3>1. Safe(C) \subseteq 1 .. Len(C.steps)
      BY DEF Safe, SafeIn
    <3> QED BY <1>1, <3>1 DEF WF, ExpressionsOK, Table
  <2> QED BY <1>1, <2>1 DEF WF, ExpressionsOK
<1>3. AccessesOK(C)
  <2>1. ASSUME NEW a, WrittenArg(B, a) PROVE WrittenArg(C, a)
    BY <2>1 DEF WrittenArg, Keeps
  <2> QED BY <2>1 DEF WF, AccessesOK, SameOutputs
<1>4. OutputsOK(C)
  BY <1>1 DEF WF, OutputsOK, SameOutputs
<1> QED BY <1>1, <1>2, <1>3, <1>4 DEF WF, Extends

Marked(B, C) ==
  /\ WF(C) /\ Extends(B, C) /\ Safe(B) \subseteq Safe(C)
  /\ C.steps = B.steps /\ C.remembered = B.remembered

LEMMA AnnounceIs ==
  ASSUME NEW B, NEW id, NEW ops
  PROVE  Announce([b |-> B, id |-> id], ops) = [b |-> [B EXCEPT !.special = B.special \union ops], id |-> id]
BY DEF Announce

LEMMA AnnounceGood ==
  ASSUME NEW a, IsAnswer(a), WF(a.b), NEW ops
  PROVE  /\ IsAnswer(Announce(a, ops)) /\ Announce(a, ops).id = a.id
         /\ Marked(a.b, Announce(a, ops).b) /\ Announce(a, ops).b.special = a.b.special \union ops
<1> DEFINE B == a.b
           C == Announce(a, ops).b
<1>1. /\ IsAnswer(Announce(a, ops)) /\ Announce(a, ops).id = a.id
      /\ C = [B EXCEPT !.special = @ \union ops]
  BY DEF Announce, IsAnswer
<1>2. C = Builder(B.steps, B.remembered, B.reverse, B.special \union ops, B.scalarOnly, B.args, B.safety, B.accs,
                  B.roots, B.tr)
  <2>1. IsBuilder(B)
    BY DEF WF
  <2> HIDE DEF C, B
  <2> QED BY <1>1, <2>1 DEF IsBuilder, Builder
<1>3. WF(B)
  OBVIOUS
<1> HIDE DEF B, C
<1>4. /\ IsBuilder(C) /\ C.tr = B.tr /\ C.steps = B.steps /\ C.remembered = B.remembered /\ C.reverse = B.reverse
      /\ C.special = B.special \union ops /\ C.args = B.args /\ C.safety = B.safety /\ SameOutputs(B, C)
  BY <1>2 DEF IsBuilder, Builder, SameOutputs
<1>5. Keeps(B, C)
  BY <1>3, <1>4, WFFacts DEF Keeps, Written
<1>6. IsArgs(C.args)
  BY <1>3, <1>4 DEF WF, AccessesOK
<1>7. WF(C) /\ Extends(B, C) /\ Safe(B) \subseteq Safe(C)
  BY <1>3, <1>4, <1>5, <1>6, SameStepsGood
<1> QED BY <1>1, <1>4, <1>7 DEF Marked, B, C

\* Other kinds for an argument, still ones that say it is written if they did.
WriteMarks == {"Dst", "DstAgg", "DstSafetyCheck", "SrcIdxArr"}

LEMMA KindsGood ==
  ASSUME NEW B, WF(B), NEW arg, NEW kinds, Written(B, arg) => kinds \intersect WriteMarks # {}
  PROVE  LET C == [B EXCEPT !.args[arg].kind = kinds]
         IN  /\ Marked(B, C) /\ C.special = B.special
             /\ arg \in 1 .. Len(B.args) /\ kinds \intersect WriteMarks # {} => WrittenArg(C, arg)
<1> DEFINE C == [B EXCEPT !.args[arg].kind = kinds]
           h == [B.args EXCEPT ![arg] = [B.args[arg] EXCEPT !.kind = kinds]]
<1>1. C = [B EXCEPT !.args = h]
  BY DEF WF, IsBuilder, Builder
<1>2. IsSeq(B.args) /\ Len(B.args) \in Nat /\ DOMAIN B.args = 1 .. Len(B.args) /\ IsArgs(B.args)
  BY WFFacts DEF WF, AccessesOK
<1>3. IsSeq(h) /\ Len(h) = Len(B.args)
  <2>1. DOMAIN h = 1 .. Len(B.args) /\ h = [i \in 1 .. Len(B.args) |-> h[i]]
    BY <1>2
  <2> HIDE DEF h
  <2> QED BY <1>2, <2>1, SequenceFrom
<1>4. \A a \in 1 .. Len(B.args) :
        h[a] = IF a = arg THEN [B.args[arg] EXCEPT !.kind = kinds] ELSE B.args[a]
  BY <1>2
<1> HIDE DEF h
<1>5. \A a \in 1 .. Len(B.args) :
        /\ h[a] = [dtype |-> h[a].dtype, kind |-> h[a].kind] /\ h[a].dtype = B.args[a].dtype
        /\ h[a].kind = IF a = arg THEN kinds ELSE B.args[a].kind
  BY <1>2, <1>4 DEF IsArgs
<1>6. C = Builder(B.steps, B.remembered, B.reverse, B.special, B.scalarOnly, h, B.safety, B.accs, B.roots, B.tr)
  <2> HIDE DEF C
  <2> QED BY <1>1 DEF WF, IsBuilder, Builder
<1> HIDE DEF C
<1>7. /\ IsBuilder(C) /\ C.tr = B.tr /\ C.steps = B.steps /\ C.remembered = B.remembered /\ C.reverse = B.reverse
      /\ C.special = B.special /\ C.args = h /\ C.safety = B.safety /\ SameOutputs(B, C)
  BY <1>6 DEF IsBuilder, Builder, SameOutputs
<1>8. Keeps(B, C)
  <2>1. Len(B.steps) <= Len(C.steps) /\ \A i \in 1 .. Len(B.steps) : C.steps[i] = B.steps[i]
    BY <1>7, WFFacts
  <2>2. Len(C.args) = Len(B.args) /\ B.special \subseteq C.special /\ C.tr = B.tr
    BY <1>3, <1>7
  <2>3. ASSUME NEW a \in 1 .. Len(B.args)
        PROVE  C.args[a].dtype = B.args[a].dtype /\ (Written(B, a) => Written(C, a))
    <3>1. C.args[a].dtype = B.args[a].dtype /\ C.args[a].kind = IF a = arg THEN kinds ELSE B.args[a].kind
      BY <1>5, <1>7
    <3> QED BY <3>1 DEF Written, WriteMarks
  <2> QED BY <2>1, <2>2, <2>3 DEF Keeps
<1>9. IsArgs(C.args)
  BY <1>3, <1>5, <1>7 DEF IsArgs
<1>10. WF(C) /\ Extends(B, C) /\ Safe(B) \subseteq Safe(C)
  BY <1>7, <1>8, <1>9, SameStepsGood
<1>11. arg \in 1 .. Len(B.args) /\ kinds \intersect WriteMarks # {} => WrittenArg(C, arg)
  BY <1>3, <1>5, <1>7 DEF WrittenArg, Written, WriteMarks
<1> QED BY <1>7, <1>10, <1>11 DEF Marked, C

LEMMA MarkGood ==
  ASSUME NEW B, WF(B), NEW arg, NEW kind
  PROVE  /\ Marked(B, MarkArg(B, arg, kind)) /\ MarkArg(B, arg, kind).special = B.special
         /\ arg \in 1 .. Len(B.args) /\ kind \in {"Dst", "DstAgg", "DstSafetyCheck"}
              => WrittenArg(MarkArg(B, arg, kind), arg)
<1> DEFINE kinds == B.args[arg].kind \union {kind}
<1>1. MarkArg(B, arg, kind) = [B EXCEPT !.args[arg].kind = kinds]
  BY DEF MarkArg
<1>2. Written(B, arg) => kinds \intersect WriteMarks # {}
  BY DEF Written, WriteMarks
<1>3. kind \in {"Dst", "DstAgg", "DstSafetyCheck"} => kinds \intersect WriteMarks # {}
  BY DEF WriteMarks
<1> HIDE DEF kinds
<1> DEFINE C == [B EXCEPT !.args[arg].kind = kinds]
<1>4. /\ Marked(B, C) /\ C.special = B.special
      /\ arg \in 1 .. Len(B.args) /\ kinds \intersect WriteMarks # {} => WrittenArg(C, arg)
  BY <1>2, KindsGood
<1> HIDE DEF C
<1> QED BY <1>1, <1>3, <1>4 DEF C

LEMMA MarkIndexGood ==
  ASSUME NEW B, WF(B), NEW idx
  PROVE  Marked(B, MarkIndex(B, idx)) /\ MarkIndex(B, idx).special = B.special
<1>1. Marked(B, B)
  BY ExtendsSelf DEF Marked
<1>2. ASSUME NEW arg
      PROVE  LET C == [B EXCEPT !.args[arg].kind = {"SrcIdxArr"}] IN Marked(B, C) /\ C.special = B.special
  <2>1. {"SrcIdxArr"} \intersect WriteMarks # {}
    BY DEF WriteMarks
  <2> QED BY <2>1, KindsGood
<1> QED BY <1>1, <1>2 DEF MarkIndex

LEMMA PlainNeeds ==
  ASSUME NEW steps, NEW s, Plain(s), NEW tr
  PROVE  Met(steps, tr, {}, s)
<1>1. /\ s.kind \in PlainKinds /\ (s.kind = "ArithUnary" => s.op # "Lzcnt")
      /\ (s.kind = "ArithBinary" => s.op \in {"Add", "Sub", "Mul64SE", "Mul64ZE"})
  BY DEF Plain
<1>2. s.kind # "Gather" /\ s.kind # "Scatter" /\ s.kind # "Pack" /\ s.kind # "AccArithBinary"
  BY <1>1 DEF PlainKinds
<1>3. s.kind = "ArithBinary" => /\ s.op # "Mul" /\ s.op # "ShiftRightArith" /\ s.op # "ShiftRightLogical"
                                /\ s.op # "ShiftLeftLogical"
  BY <1>1
<1>4. StepNeeds(steps, s) = {}
  BY <1>1, <1>2, <1>3 DEF StepNeeds
<1>5. s.kind # "FloatCast"
  BY <1>1 DEF PlainKinds
<1> QED BY <1>4, <1>5 DEF Met, NeedsNoSplit

LEMMA ShiftNeeds ==
  ASSUME NEW steps, NEW t, NEW a, NEW c, steps[c].kind = "Const", NEW tr
  PROVE  Met(steps, tr, {}, ArithStep("ShiftLeftLogical", "No", t, a, c))
<1> DEFINE s == ArithStep("ShiftLeftLogical", "No", t, a, c)
<1>1. s.kind = "ArithBinary" /\ s.op = "ShiftLeftLogical" /\ s.args = <<a, c>>
  BY StepFields DEF ArithStep
<1>2. s.args[2] = c /\ Const(steps, c)
  BY <1>1 DEF Const
<1> HIDE DEF s
<1>3. StepNeeds(steps, s) = {}
  BY <1>1, <1>2 DEF StepNeeds
<1> QED BY <1>1, <1>3 DEF s, Met, NeedsNoSplit

\* The table after Create: s, and then the added steps with their operands in place.
Put(x, key) == IF x < 0 THEN key - x ELSE x
PutArgs(s, key) == [s EXCEPT !.args = [j \in DOMAIN s.args |-> Put(s.args[j], key)]]
PutSteps(new, key) == [k \in DOMAIN new |-> PutArgs(new[k], key)]
CreatedSteps(steps, s, new) == Append(steps, s) \o PutSteps(new, Len(steps) + 1)

IsAdded(more, tr, x, key, k, T) ==
  /\ IsStep(x) /\ Shaped(x) /\ x.kind \in PlainKinds \union {"FloatCast"} /\ Met(more, tr, {}, x)
  /\ \A j \in 1 .. Len(x.args) : x.args[j] \in T \/ x.args[j] \in key + 1 .. key + k - 1
IsCreated(more, steps, tr, s, new, T) ==
  /\ IsSeq(more) /\ Len(more) = Len(steps) + 1 + Len(new)
  /\ \A i \in 1 .. Len(steps) : more[i] = steps[i]
  /\ more[Len(steps) + 1] = s
  /\ \A k \in 1 .. Len(new) : IsAdded(more, tr, more[Len(steps) + 1 + k], Len(steps) + 1, k, T)

LEMMA PutStep ==
  ASSUME NEW s, IsStep(s), NEW key
  PROVE  /\ IsStep(PutArgs(s, key)) /\ (Shaped(s) => Shaped(PutArgs(s, key))) /\ (Plain(s) => Plain(PutArgs(s, key)))
         /\ PutArgs(s, key).kind = s.kind /\ PutArgs(s, key).dtype = s.dtype /\ Len(PutArgs(s, key).args) = Len(s.args)
         /\ \A j \in 1 .. Len(s.args) : PutArgs(s, key).args[j] = Put(s.args[j], key)
<1> DEFINE h == [j \in DOMAIN s.args |-> Put(s.args[j], key)]
<1>1. IsSeq(s.args) /\ Len(s.args) \in Nat /\ DOMAIN s.args = 1 .. Len(s.args)
  BY AnySequence DEF IsStep
<1>2. IsSeq(h) /\ Len(h) = Len(s.args)
  <2>1. DOMAIN h = 1 .. Len(s.args) /\ h = [j \in 1 .. Len(s.args) |-> h[j]]
    BY <1>1
  <2> HIDE DEF h
  <2> QED BY <1>1, <2>1, SequenceFrom
<1>3. \A j \in 1 .. Len(s.args) : h[j] = Put(s.args[j], key)
  BY <1>1
<1>4. PutArgs(s, key) = [s EXCEPT !.args = h]
  BY DEF PutArgs
<1> HIDE DEF h
<1> QED BY <1>2, <1>3, <1>4, Redirected

LEMMA PutRef ==
  ASSUME NEW T \in SUBSET (Nat \ {0}), NEW k \in Nat, NEW key \in Nat, NEW x, Ref(x, k, T)
  PROVE  Put(x, key) \in T \/ Put(x, key) \in key + 1 .. key + k - 1
<1>1. CASE x \in T
  <2>1. x \in Nat
    BY <1>1
  <2> QED BY <1>1, <2>1 DEF Put
<1>2. CASE x \in 1 - k .. -1
  BY <1>2 DEF Put
<1> QED BY <1>1, <1>2 DEF Ref

LEMMA NewAreSteps ==
  ASSUME NEW new, NEW steps, NEW tr, NEW T, NewWith(new, steps, tr, T), NEW k \in 1 .. Len(new)
  PROVE  IsStep(new[k])
<1>1. PlainNew(new[k], k, T) \/ ShiftNew(new, k, T) \/ CastNew(steps, tr, new, k, T)
  BY DEF NewWith
<1>2. ASSUME ShiftNew(new, k, T) PROVE IsStep(new[k])
  <2>1. PICK t, a : new[k] = ArithStep("ShiftLeftLogical", "No", t, a, 1 - k)
    BY <1>2 DEF ShiftNew
  <2>2. IsStep(ArithStep("ShiftLeftLogical", "No", t, a, 1 - k))
    BY Short, StepFields DEF ArithStep
  <2> QED BY <2>1, <2>2
<1>3. ASSUME CastNew(steps, tr, new, k, T) PROVE IsStep(new[k])
  <2>1. PICK flag, t, a : new[k] = FloatCastStep(flag, t, a)
    BY <1>3 DEF CastNew
  <2>2. IsStep(FloatCastStep(flag, t, a))
    BY Short, StepFields DEF FloatCastStep
  <2> QED BY <2>1, <2>2
<1> QED BY <1>1, <1>2, <1>3 DEF PlainNew

LEMMA CreatedTable ==
  ASSUME NEW steps, NEW T \in SUBSET (Nat \ {0}), Table(steps, T), NEW s, NEW tr, NEW new,
         NewWith(new, steps, tr, T)
  PROVE  IsCreated(CreatedSteps(steps, s, new), steps, tr, s, new, T)
<1> DEFINE L == Len(steps)
           M == Len(new)
           key == L + 1
           base == Append(steps, s)
           put == PutSteps(new, key)
           more == base \o put
<1>1. IsSeq(steps) /\ L \in Nat /\ IsSeq(new) /\ M \in Nat /\ DOMAIN new = 1 .. M
  BY AnySequence DEF Table, NewWith
<1>2. /\ IsSeq(base) /\ Len(base) = key /\ base[key] = s
      /\ \A i \in 1 .. L : base[i] = steps[i]
  BY <1>1, Appended
<1>3. IsSeq(put) /\ Len(put) = M /\ \A k \in 1 .. M : put[k] = PutArgs(new[k], key)
  <2>1. DOMAIN put = 1 .. M /\ put = [k \in 1 .. M |-> put[k]] /\ \A k \in 1 .. M : put[k] = PutArgs(new[k], key)
    BY <1>1 DEF PutSteps
  <2> HIDE DEF put, M
  <2> QED BY <1>1, <2>1, SequenceFrom
<1> HIDE DEF base, put
<1>4. /\ IsSeq(more) /\ Len(more) = key + M
      /\ \A i \in 1 .. key : more[i] = base[i]
      /\ \A k \in 1 .. M : more[key + k] = put[k]
  <2>1. IsJoined(more, base, put)
    BY <1>2, <1>3, Joined
  <2> HIDE DEF more
  <2> QED BY <1>2, <1>3, <2>1 DEF IsJoined
<1>11. key \in Nat /\ M \in Nat
  BY <1>1
<1> HIDE DEF more, L, M
<1>5. /\ \A i \in 1 .. L : more[i] = steps[i]
      /\ more[key] = s
  BY <1>1, <1>2, <1>4
<1>6. ASSUME NEW k \in 1 .. M, PlainNew(new[k], k, T) PROVE IsAdded(more, tr, more[key + k], key, k, T)
  <2> DEFINE x == PutArgs(new[k], key)
  <2>1. IsStep(new[k]) /\ Shaped(new[k]) /\ Plain(new[k]) /\ \A j \in 1 .. Len(new[k].args) : Ref(new[k].args[j], k, T)
    BY <1>6 DEF PlainNew
  <2>2. /\ IsStep(x) /\ Shaped(x) /\ Plain(x) /\ Len(x.args) = Len(new[k].args)
        /\ \A j \in 1 .. Len(x.args) : x.args[j] = Put(new[k].args[j], key)
    BY <2>1, PutStep
  <2> HIDE DEF x
  <2>3. \A j \in 1 .. Len(x.args) : x.args[j] \in T \/ x.args[j] \in key + 1 .. key + k - 1
    <3>1. k \in Nat /\ key \in Nat
      BY <1>1
    <3> HIDE DEF key
    <3> QED BY <2>1, <2>2, <3>1, PutRef
  <2>4. Met(more, tr, {}, x) /\ x.kind \in PlainKinds
    BY <2>2, PlainNeeds DEF Plain
  <2>5. more[key + k] = x
    BY <1>3, <1>4 DEF x
  <2> HIDE DEF key
  <2> QED BY <2>2, <2>3, <2>4, <2>5 DEF IsAdded
<1>7. ASSUME NEW k \in 1 .. M, ShiftNew(new, k, T) PROVE IsAdded(more, tr, more[key + k], key, k, T)
  <2>1. PICK t, a : a \in T /\ new[k] = ArithStep("ShiftLeftLogical", "No", t, a, 1 - k)
    BY <1>7 DEF ShiftNew
  <2>2. k \in Nat /\ k > 1 /\ new[k - 1].kind = "Const" /\ k - 1 \in 1 .. M /\ key \in Nat /\ k \in Int
    BY <1>1, <1>7 DEF ShiftNew
  <2>3. IsStep(new[k - 1])
    BY <2>2, NewAreSteps DEF M
  <2>4. more[key + k - 1].kind = "Const"
    <3>1. put[k - 1].kind = "Const"
      BY <1>3, <2>2, <2>3, PutStep
    <3>2. more[key + (k - 1)] = put[k - 1] /\ key + (k - 1) = key + k - 1
      BY <1>4, <2>2
    <3> QED BY <3>1, <3>2
  <2>5. more[key + k] = ArithStep("ShiftLeftLogical", "No", t, a, key + k - 1)
    <3>1. new[k].args = <<a, 1 - k>>
      BY <2>1 DEF ArithStep, Step
    <3>2. Put(a, key) = a /\ Put(1 - k, key) = key + k - 1
      <4>1. a \in Nat
        BY <2>1
      <4>2. 1 - k < 0 /\ key - (1 - k) = key + k - 1 /\ ~(a < 0)
        BY <2>2, <4>1
      <4> QED BY <4>2 DEF Put
    <3>3. [j \in DOMAIN new[k].args |-> Put(new[k].args[j], key)] = <<Put(a, key), Put(1 - k, key)>>
      BY <3>1
    <3>4. PutArgs(new[k], key) = [new[k] EXCEPT !.args = <<a, key + k - 1>>]
      BY <3>2, <3>3 DEF PutArgs
    <3>5. PutArgs(new[k], key) = ArithStep("ShiftLeftLogical", "No", t, a, key + k - 1)
      BY <2>1, <3>4 DEF ArithStep, Step
    <3>6. more[key + k] = PutArgs(new[k], key)
      BY <1>3, <1>4
    <3> QED BY <3>5, <3>6
  <2> DEFINE c == key + k - 1
             x == ArithStep("ShiftLeftLogical", "No", t, a, c)
  <2>6. c \in key + 1 .. key + k - 1
    BY <2>2
  <2>7. Met(more, tr, {}, x)
    BY <2>4, ShiftNeeds
  <2> HIDE DEF c
  <2>8. /\ x.kind = "ArithBinary" /\ x.args = <<a, c>> /\ IsStep(x) /\ Len(x.args) = 2
        /\ x.args[1] = a /\ x.args[2] = c
    BY Short, StepFields DEF ArithStep
  <2>9. more[key + k] = x
    BY <2>5 DEF c
  <2> HIDE DEF x
  <2>10. Shaped(x) /\ x.kind \in PlainKinds
    BY <2>8 DEF Shaped, PlainKinds
  <2>11. \A j \in 1 .. Len(x.args) : x.args[j] \in T \/ x.args[j] \in key + 1 .. key + k - 1
    BY <2>1, <2>6, <2>8
  <2> QED BY <2>7, <2>8, <2>9, <2>10, <2>11 DEF IsAdded
<1>10. ASSUME NEW k \in 1 .. M, CastNew(steps, tr, new, k, T) PROVE IsAdded(more, tr, more[key + k], key, k, T)
  <2>1. PICK flag, t, a : /\ Ref(a, k, T) /\ new[k] = FloatCastStep(flag, t, a)
                          /\ Fit(tr, IF a < 0 THEN new[-a].dtype ELSE steps[a].dtype, t)
    BY <1>10 DEF CastNew
  <2> DEFINE s1 == new[k]
             x == PutArgs(s1, key)
  <2>2. /\ s1.kind = "FloatCast" /\ s1.dtype = t /\ s1.args = <<a>> /\ Len(s1.args) = 1 /\ s1.args[1] = a
        /\ IsStep(s1)
    <3>1. PICK h : h = <<a>>
      OBVIOUS
    <3>2. IsSeq(h) /\ Len(h) = 1 /\ h[1] = a
      BY <3>1, Short
    <3>3. s1 = Step("FloatCast", t, "", flag, h, <<>>)
      BY <2>1, <3>1 DEF FloatCastStep
    <3> HIDE DEF s1
    <3>4. s1.kind = "FloatCast" /\ s1.dtype = t /\ s1.args = h
      BY <3>3 DEF Step
    <3>5. IsStep(s1)
      BY <3>2, <3>3 DEF Step, IsStep
    <3> QED BY <3>1, <3>2, <3>4, <3>5
  <2> HIDE DEF s1
  <2>3. Shaped(s1)
    BY <2>2 DEF Shaped
  <2>4. /\ IsStep(x) /\ Shaped(x) /\ x.kind = "FloatCast" /\ x.dtype = t /\ Len(x.args) = 1
        /\ x.args[1] = Put(a, key)
    <3>1. 1 \in 1 .. 1
      OBVIOUS
    <3> QED BY <2>2, <2>3, <3>1, PutStep
  <2>5. more[key + k] = x
    BY <1>3, <1>4 DEF s1
  <2> HIDE DEF x
  <2>6. k \in Nat /\ key \in Nat /\ k <= M /\ M \in Nat
    BY <1>1, <1>11
  <2>7. Put(a, key) \in T \/ Put(a, key) \in key + 1 .. key + k - 1
    <3> HIDE DEF key
    <3> QED BY <2>1, <2>6, PutRef
  <2>8. Fit(tr, more[Put(a, key)].dtype, t)
    <3>1. CASE a \in T
      <4>1. a \in Nat /\ a \in 1 .. L
        BY <1>1, <3>1 DEF Table, L
      <4>2. ~(a < 0) /\ Put(a, key) = a /\ more[a] = steps[a]
        BY <1>5, <4>1 DEF Put
      <4> QED BY <2>1, <4>2
    <3>2. CASE a \in 1 - k .. -1
      <4>1. PICK m : m = -a
        OBVIOUS
      <4>2. m \in 1 .. M /\ a < 0 /\ key - a = key + m
        BY <2>6, <3>2, <4>1
      <4>3. Put(a, key) = key + m
        BY <4>2 DEF Put
      <4>4. more[key + m] = PutArgs(new[m], key)
        BY <1>3, <1>4, <4>2
      <4>5. PutArgs(new[m], key).dtype = new[m].dtype
        <5>1. IsStep(new[m])
          BY <4>2, NewAreSteps DEF M
        <5> QED BY <5>1, PutStep
      <4> QED BY <2>1, <4>1, <4>2, <4>3, <4>4, <4>5
    <3> QED BY <2>1, <3>1, <3>2 DEF Ref
  <2>9. Met(more, tr, {}, x)
    <3>1. StepNeeds(more, x) = {}
      BY <2>4 DEF StepNeeds
    <3> QED BY <2>4, <2>8, <3>1 DEF Met, NeedsNoSplit
  <2>10. \A j \in 1 .. Len(x.args) : j = 1
    BY <2>4
  <2> HIDE DEF key
  <2> QED BY <2>4, <2>5, <2>7, <2>9, <2>10 DEF IsAdded
<1>8. \A k \in 1 .. M : IsAdded(more, tr, more[key + k], key, k, T)
  BY <1>6, <1>7, <1>10 DEF NewWith, M
<1>9. CreatedSteps(steps, s, new) = more
  BY DEF CreatedSteps, more, base, put, L
<1> QED BY <1>4, <1>5, <1>8, <1>9 DEF IsCreated, L, M

\* A step that C has and B has not.
NewOK(B, C, i) ==
  /\ IsStep(C.steps[i]) /\ Shaped(C.steps[i])
  /\ \A j \in 1 .. Len(C.steps[i].args) : C.steps[i].args[j] \in Safe(C) /\ C.steps[i].args[j] < i
  /\ C.steps[i].kind \in WriteKinds => WrittenArg(B, C.steps[i].val[1])
Longer(B, C) ==
  /\ IsSeq(C.steps) /\ Len(B.steps) <= Len(C.steps) /\ \A i \in 1 .. Len(B.steps) : C.steps[i] = B.steps[i]
  /\ B.special \subseteq C.special /\ C.args = B.args /\ C.safety = B.safety /\ C.accs = B.accs
  /\ C.tr = B.tr

LEMMA LongerKeeps ==
  ASSUME NEW B, WF(B), NEW C, Longer(B, C)
  PROVE  Keeps(B, C) /\ Safe(B) \subseteq Safe(C) /\ \A a : WrittenArg(B, a) => WrittenArg(C, a)
<1>1. Keeps(B, C)
  <2>1. Len(B.args) = Len(B.args)
    OBVIOUS
  <2> QED BY <2>1 DEF Longer, Keeps, Written
<1>2. Len(C.steps) \in Nat
  BY AnySequence DEF Longer
<1>3. \A a : WrittenArg(B, a) => WrittenArg(C, a)
  BY DEF Longer, WrittenArg, Written
<1> QED BY <1>1, <1>2, <1>3, KeepsSafe

LEMMA LongerGood ==
  ASSUME NEW B, WF(B), NEW C, IsBuilder(C), Longer(B, C),
         \A i \in Len(B.steps) + 1 .. Len(C.steps) : NewOK(B, C, i),
         IsSeq(C.reverse), Len(C.reverse) = Len(C.steps),
         \A i \in 1 .. Len(C.steps) : C.reverse[i] \in 0 .. Len(C.steps),
         \A e \in C.remembered : e \in B.remembered \/ (e.key \in 1 .. Len(C.steps) /\ e.result \in Safe(C)),
         IsSeq(C.roots), \A k \in 1 .. Len(C.roots) : C.roots[k] \in Safe(C)
  PROVE  WF(C) /\ Keeps(B, C) /\ Safe(B) \subseteq Safe(C)
<1>1. Keeps(B, C) /\ Safe(B) \subseteq Safe(C) /\ \A a : WrittenArg(B, a) => WrittenArg(C, a)
  BY LongerKeeps
<1>2. /\ Len(B.steps) \in Nat /\ Len(C.steps) \in Nat /\ Len(B.steps) <= Len(C.steps) /\ IsSeq(C.steps)
      /\ \A i \in 1 .. Len(B.steps) : C.steps[i] = B.steps[i]
  BY WFFacts, AnySequence DEF Longer
<1>3. \A i \in 1 .. Len(C.steps) : i \in 1 .. Len(B.steps) \/ i \in Len(B.steps) + 1 .. Len(C.steps)
  BY <1>2
<1>4. Table(C.steps, Safe(C))
  <2>1. ASSUME NEW i \in 1 .. Len(C.steps)
        PROVE  /\ IsStep(C.steps[i]) /\ Shaped(C.steps[i])
               /\ \A j \in 1 .. Len(C.steps[i].args) : C.steps[i].args[j] \in Safe(C) /\ C.steps[i].args[j] < i
    <3>1. CASE i \in 1 .. Len(B.steps)
      <4>1. C.steps[i] = B.steps[i] /\ Table(B.steps, Safe(B))
        BY <1>2, <3>1, WFFacts
      <4> QED BY <1>1, <3>1, <4>1 DEF Table
    <3>2. CASE i \in Len(B.steps) + 1 .. Len(C.steps)
      BY <3>2 DEF NewOK
    <3> QED BY <1>3, <3>1, <3>2
  <2>2. Safe(C) \subseteq 1 .. Len(C.steps)
    BY DEF Safe, SafeIn
  <2> QED BY <1>2, <2>1, <2>2 DEF Table
<1>5. ASSUME NEW e \in C.remembered PROVE e.key \in 1 .. Len(C.steps) /\ e.result \in Safe(C)
  <2>1. ASSUME e \in B.remembered PROVE e.key \in 1 .. Len(B.steps) /\ e.result \in Safe(B)
    BY <2>1 DEF WF, ExpressionsOK
  <2> QED BY <1>1, <1>2, <2>1
<1>6. ExpressionsOK(C)
  BY <1>4, <1>5 DEF ExpressionsOK
<1>7. AccessesOK(C)
  <2>1. ASSUME NEW i \in 1 .. Len(C.steps), C.steps[i].kind \in WriteKinds PROVE WrittenArg(C, C.steps[i].val[1])
    <3>1. CASE i \in 1 .. Len(B.steps)
      BY <1>1, <1>2, <2>1, <3>1 DEF WF, AccessesOK
    <3>2. CASE i \in Len(B.steps) + 1 .. Len(C.steps)
      BY <1>1, <2>1, <3>2 DEF NewOK
    <3> QED BY <1>3, <3>1, <3>2
  <2>2. IsArgs(C.args) /\ (C.safety = 0 \/ WrittenArg(C, C.safety)) /\ \A k \in 1 .. Len(C.accs) : WrittenArg(C, C.accs[k].dst)
    BY <1>1 DEF WF, AccessesOK, Longer
  <2> QED BY <2>1, <2>2 DEF AccessesOK
<1>8. OutputsOK(C)
  BY DEF WF, OutputsOK, Longer
<1> QED BY <1>1, <1>6, <1>7, <1>8 DEF WF

\* What a call may create: a step that is no output, with operands that are safe.
Askable(B, s) ==
  IsStep(s) /\ Shaped(s) /\ s.kind \notin WriteKinds /\ \A j \in 1 .. Len(s.args) : s.args[j] \in Safe(B)

LEMMA BuilderCreated ==
  ASSUME NEW B, WF(B), NEW steps, NEW remembered, NEW reverse
  PROVE  [B EXCEPT !.steps = steps, !.remembered = remembered, !.reverse = reverse] =
           Builder(steps, remembered, reverse, B.special, B.scalarOnly, B.args, B.safety, B.accs, B.roots, B.tr)
<1> DEFINE C == [B EXCEPT !.steps = steps, !.remembered = remembered, !.reverse = reverse]
<1>1. C = [B EXCEPT !.steps = steps, !.remembered = remembered, !.reverse = reverse] /\ IsBuilder(B)
  BY DEF WF
<1> HIDE DEF C
<1>2. C = Builder(steps, remembered, reverse, B.special, B.scalarOnly, B.args, B.safety, B.accs, B.roots, B.tr)
  BY <1>1 DEF IsBuilder, Builder
<1> QED BY <1>2 DEF C

\* What Create leaves, field by field.
CreatedAt(steps, r) == IF Applies(r) THEN Put(r.at, Len(steps) + 1) ELSE Len(steps) + 1
CreatedKeys(steps, remembered, r) == remembered \union {[key |-> Len(steps) + 1, result |-> CreatedAt(steps, r)]}
CreatedReverse(steps, reverse, s, r) ==
  LET before(i) == IF i \in DOMAIN reverse THEN reverse[i] ELSE 0
  IN  [i \in DOMAIN CreatedSteps(steps, s, r.new) |->
         IF i = CreatedAt(steps, r) /\ Len(steps) + 1 # CreatedAt(steps, r) THEN Len(steps) + 1 ELSE before(i)]

LEMMA CreateIs ==
  ASSUME NEW B, WF(B), NEW s, NEW r
  PROVE  Create(B, s, r) =
           Answer(Builder(CreatedSteps(B.steps, s, r.new), CreatedKeys(B.steps, B.remembered, r),
                          CreatedReverse(B.steps, B.reverse, s, r), B.special, B.scalarOnly, B.args, B.safety,
                          B.accs, B.roots, B.tr), CreatedAt(B.steps, r))
<1>1. Create(B, s, r) =
        Answer([B EXCEPT !.steps = CreatedSteps(B.steps, s, r.new),
                         !.remembered = CreatedKeys(B.steps, B.remembered, r),
                         !.reverse = CreatedReverse(B.steps, B.reverse, s, r)], CreatedAt(B.steps, r))
  BY Zenon DEF Create, CreatedSteps, PutSteps, PutArgs, Put, CreatedKeys, CreatedReverse, CreatedAt
<1> QED BY <1>1, BuilderCreated

\* A rewrite as a call makes it: of any operation, or of a conversion.
Rewrites(r, B) == GoodRewrite(r, Safe(B)) \/ GoodCast(r, B.steps, B.tr, Safe(B))

LEMMA CreateGood ==
  ASSUME NEW B, WF(B), NEW s, Askable(B, s), NEW r, Rewrites(r, B),
         r = NoRewrite => Met(B.steps, B.tr, B.special, s)
  PROVE  GoodResult(B, Create(B, s, r))
<1> DEFINE L == Len(B.steps)
           key == L + 1
           T == Safe(B)
           more == CreatedSteps(B.steps, s, r.new)
           result == IF Applies(r) THEN Put(r.at, key) ELSE key
           before(i) == IF i \in DOMAIN B.reverse THEN B.reverse[i] ELSE 0
           reverse == [i \in DOMAIN more |-> IF i = result /\ key # result THEN key ELSE before(i)]
           remembered == B.remembered \union {[key |-> key, result |-> result]}
           C == Builder(more, remembered, reverse, B.special, B.scalarOnly, B.args, B.safety, B.accs, B.roots, B.tr)
<1>1. Create(B, s, r) = Answer(C, result)
  BY Zenon, CreateIs DEF CreatedKeys, CreatedReverse, CreatedAt
<1>2. /\ L \in Nat /\ T \in SUBSET (Nat \ {0}) /\ T \subseteq 1 .. L /\ Table(B.steps, T)
      /\ IsSeq(B.reverse) /\ DOMAIN B.reverse = 1 .. L /\ IsSeq(B.roots)
  BY WFFacts
<1>3. /\ NewWith(r.new, B.steps, B.tr, T)
      /\ r = NoRewrite \/ r.at \in T \/ r.at \in -Len(r.new) .. -1
  <2>1. CASE r = NoRewrite
    BY <2>1, NewNone, NoCastFits DEF NoRewrite
  <2>2. CASE r # NoRewrite
    <3>1. GoodCast(r, B.steps, B.tr, T)
      BY <2>2, NoCastFits DEF Rewrites, GoodRewrite
    <3> QED BY <3>1 DEF GoodCast
  <2> QED BY <2>1, <2>2
<1>4. PICK M : M = Len(r.new) /\ M \in Nat
  BY <1>3, AnySequence DEF NewWith
<1>5. IsCreated(more, B.steps, B.tr, s, r.new, T)
  BY <1>2, <1>3, CreatedTable
<1> HIDE DEF more
<1>6. /\ IsSeq(more) /\ Len(more) = key + M /\ DOMAIN more = 1 .. key + M
      /\ \A i \in 1 .. L : more[i] = B.steps[i]
      /\ more[key] = s
      /\ \A k \in 1 .. M : IsAdded(more, B.tr, more[key + k], key, k, T)
  BY <1>4, <1>5, AnySequence DEF IsCreated
<1>20. L \in Nat /\ M \in Nat /\ Len(more) = L + 1 + M
  BY <1>2, <1>4, <1>6
<1> HIDE DEF L, T, result, reverse, remembered
<1>21. key \in 1 .. Len(more) /\ L <= Len(more) /\ Len(more) \in Nat /\ \A k \in 1 .. M : key + k \in 1 .. Len(more)
  BY <1>20
<1>7. /\ IsBuilder(C) /\ C.tr = B.tr /\ C.steps = more /\ C.remembered = remembered /\ C.reverse = reverse /\ C.special = B.special
      /\ C.args = B.args /\ C.safety = B.safety /\ C.accs = B.accs /\ C.roots = B.roots
  BY DEF Builder, IsBuilder
<1> HIDE DEF C
<1>8. Longer(B, C)
  BY <1>6, <1>7, <1>21 DEF Longer, L
<1>9. T \subseteq Safe(C)
  BY <1>8, LongerKeeps DEF T
<1>10. \A k \in 1 .. M : key + k \in Safe(C)
  <2>1. ASSUME NEW k \in 1 .. M PROVE key + k \in Safe(C)
    <3>1. Met(more, B.tr, B.special, more[key + k]) /\ key + k \in 1 .. Len(more)
      BY <1>6, <1>21 DEF IsAdded, Met
    <3> QED BY <1>7, <3>1 DEF Safe, SafeIn
  <2> QED BY <2>1
<1>11. \A i \in key .. Len(more) : NewOK(B, C, i)
  <2>1. NewOK(B, C, key)
    <3>1. \A j \in 1 .. Len(s.args) : s.args[j] \in T /\ s.args[j] \in 1 .. L
      BY <1>2 DEF Askable, T
    <3>2. \A j \in 1 .. Len(s.args) : s.args[j] \in Safe(C) /\ s.args[j] < key
      BY <1>2, <1>9, <3>1
    <3> QED BY <1>6, <1>7, <3>2 DEF NewOK, Askable
  <2>2. ASSUME NEW k \in 1 .. M PROVE NewOK(B, C, key + k)
    <3>1. IsAdded(more, B.tr, more[key + k], key, k, T)
      BY <1>6
    <3>2. ASSUME NEW x, x \in T \/ x \in key + 1 .. key + k - 1 PROVE x \in Safe(C) /\ x < key + k
      <4>1. CASE x \in T
        <5>1. x \in 1 .. L /\ x \in Safe(C)
          BY <1>2, <1>9, <4>1
        <5> QED BY <1>20, <5>1
      <4>2. CASE x \in key + 1 .. key + k - 1
        <5>1. PICK m : m = x - key
          OBVIOUS
        <5>2. m \in 1 .. M /\ x = key + m /\ x < key + k
          BY <1>2, <1>4, <4>2, <5>1
        <5> QED BY <1>10, <5>2
      <4> QED BY <3>2, <4>1, <4>2
    <3>3. more[key + k].kind \notin WriteKinds
      BY <3>1 DEF IsAdded, PlainKinds, WriteKinds
    <3> HIDE DEF key
    <3> QED BY <1>7, <3>1, <3>2, <3>3 DEF NewOK, IsAdded
  <2>3. ASSUME NEW i \in key .. Len(more) PROVE i = key \/ \E k \in 1 .. M : i = key + k
    <3>1. i = key \/ (i - key \in 1 .. M /\ i = key + (i - key))
      BY <1>20
    <3> QED BY <3>1
  <2> HIDE DEF key
  <2> QED BY <2>1, <2>2, <2>3
<1>12. result \in Safe(C)
  <2>1. CASE r = NoRewrite
    <3>1. result = key
      BY <2>1 DEF result, Applies
    <3>2. Met(more, B.tr, B.special, s)
      <4>1. Shaped(s) /\ \A j \in 1 .. Len(s.args) : s.args[j] \in 1 .. Len(B.steps)
        BY <1>2 DEF Askable, T, L
      <4>2. \A i \in 1 .. Len(B.steps) : more[i] = B.steps[i]
        BY <1>6 DEF L
      <4> QED BY <2>1, <4>1, <4>2, MetKept
    <3>3. key \in 1 .. Len(more)
      BY <1>21
    <3> QED BY <1>6, <1>7, <2>1, <3>1, <3>2, <3>3 DEF Safe, SafeIn
  <2>2. CASE r # NoRewrite
    <3>1. result = Put(r.at, key) /\ (r.at \in T \/ r.at \in -M .. -1)
      BY <1>3, <1>4, <2>2 DEF result, Applies
    <3>2. CASE r.at \in T
      <4>1. r.at \in Nat
        BY <1>2, <3>2
      <4>2. result = r.at
        BY <3>1, <4>1 DEF Put
      <4> QED BY <1>9, <3>2, <4>2
    <3>3. CASE r.at \in -M .. -1
      <4>1. PICK m : m = -r.at
        OBVIOUS
      <4>2. r.at < 0 /\ m \in 1 .. M /\ key - r.at = key + m
        BY <1>2, <1>4, <3>3, <4>1
      <4>3. result = key + m
        BY <3>1, <4>2 DEF Put
      <4> QED BY <1>10, <4>2, <4>3
    <3> QED BY <3>1, <3>2, <3>3
  <2> QED BY <2>1, <2>2
<1>13. Safe(C) \subseteq 1 .. Len(more)
  BY <1>7 DEF Safe, SafeIn
<1>14. IsSeq(reverse) /\ Len(reverse) = Len(more) /\ \A i \in 1 .. Len(more) : reverse[i] \in 0 .. Len(more)
  <2>1. DOMAIN reverse = 1 .. Len(more) /\ reverse = [i \in 1 .. Len(more) |-> reverse[i]] /\ Len(more) \in Nat
    BY <1>2, <1>4, <1>6 DEF reverse
  <2>2. ASSUME NEW i \in 1 .. Len(more) PROVE reverse[i] \in 0 .. Len(more)
    <3>1. reverse[i] = key \/ reverse[i] = before(i)
      BY <1>6 DEF reverse
    <3>2. key \in 0 .. Len(more) /\ before(i) \in 0 .. Len(more)
      <4>1. \A m \in 1 .. L : B.reverse[m] \in 0 .. L
        BY DEF WF, ExpressionsOK, L
      <4>2. key \in 0 .. Len(more) /\ 0 \in 0 .. Len(more) /\ \A n \in 0 .. L : n \in 0 .. Len(more)
        BY <1>20
      <4> QED BY <1>2, <4>1, <4>2
    <3> QED BY <3>1, <3>2
  <2> QED BY <2>1, <2>2, SequenceFrom
<1>15. \A e \in C.remembered : e \in B.remembered \/ (e.key \in 1 .. Len(C.steps) /\ e.result \in Safe(C))
  <2>1. key \in 1 .. Len(C.steps)
    BY <1>7, <1>21
  <2> HIDE DEF key
  <2> QED BY <1>7, <1>12, <2>1 DEF remembered
<1>16. \A k \in 1 .. Len(C.roots) : C.roots[k] \in Safe(C)
  <2>1. \A k \in 1 .. Len(B.roots) : B.roots[k] \in T
    BY DEF WF, OutputsOK, T
  <2> QED BY <1>7, <1>9, <2>1
<1>17. WF(C) /\ Keeps(B, C)
  <2>1. \A i \in Len(B.steps) + 1 .. Len(C.steps) : NewOK(B, C, i)
    BY <1>7, <1>11 DEF L
  <2>2. /\ IsSeq(C.reverse) /\ Len(C.reverse) = Len(C.steps)
        /\ \A i \in 1 .. Len(C.steps) : C.reverse[i] \in 0 .. Len(C.steps)
    BY <1>7, <1>14
  <2>3. IsSeq(C.roots)
    BY <1>2, <1>7
  <2> QED BY <1>7, <1>8, <1>15, <1>16, <2>1, <2>2, <2>3, LongerGood
<1>18. Extends(B, C)
  BY <1>7, <1>17 DEF Extends, SameOutputs
<1>19. Create(B, s, r) = [b |-> C, id |-> result]
  BY <1>1 DEF Answer
<1> QED BY <1>12, <1>17, <1>18, <1>19 DEF GoodResult, IsAnswer

(***************************************************************************)
(* Calls that look a step up and create it when it is new.                  *)
(***************************************************************************)
LEMMA GoodMore ==
  ASSUME NEW T, NEW U, T \subseteq U, NEW r, GoodRewrite(r, T)
  PROVE  GoodRewrite(r, U)
<1>1. \A x, k : Ref(x, k, T) => Ref(x, k, U)
  BY DEF Ref
<1>2. ASSUME NEW new, NEW k, PlainNew(new[k], k, T) \/ ShiftNew(new, k, T)
      PROVE  PlainNew(new[k], k, U) \/ ShiftNew(new, k, U)
  <2>1. PlainNew(new[k], k, T) => PlainNew(new[k], k, U)
    BY <1>1 DEF PlainNew
  <2>2. ShiftNew(new, k, T) => ShiftNew(new, k, U)
    BY DEF ShiftNew
  <2> QED BY <1>2, <2>1, <2>2
<1>3. \A new : NewSteps(new, T) => NewSteps(new, U)
  BY <1>2 DEF NewSteps
<1> QED BY <1>3 DEF GoodRewrite, GoodUse

LEMMA ResultOn ==
  ASSUME NEW B, WF(B), NEW C, WF(C), Extends(B, C), NEW a
  PROVE  /\ GoodResult(C, a) => GoodResult(B, a)
         /\ GoodAnswer(C, a) => GoodAnswer(B, a)
<1>1. WF(a.b) /\ Extends(C, a.b) => Extends(B, a.b)
  BY ExtendsOn
<1> QED BY <1>1 DEF GoodResult, GoodAnswer

LEMMA ResultAnswers ==
  ASSUME NEW B, NEW a, GoodResult(B, a)
  PROVE  GoodAnswer(B, a)
BY DEF GoodResult, GoodAnswer

LEMMA RefusedGood ==
  ASSUME NEW B, WF(B)
  PROVE  GoodAnswer(B, Refused(B)) /\ GoodOutput(B, Refused(B))
<1>1. Refused(B) = [b |-> B, id |-> 0] /\ Len(B.steps) \in Nat
  BY WFFacts DEF Refused, Answer
<1>2. IsAnswer(Refused(B)) /\ Refused(B).b = B /\ Refused(B).id = 0
  BY <1>1 DEF IsAnswer
<1>3. 0 \in 0 .. Len(B.steps)
  BY <1>1
<1> QED BY <1>2, <1>3, ExtendsSelf DEF GoodAnswer, GoodOutput

LEMMA AnswerGood ==
  ASSUME NEW B, WF(B), NEW x \in Safe(B)
  PROVE  GoodResult(B, Answer(B, x))
BY ExtendsSelf DEF GoodResult, IsAnswer, Answer

LEMMA FoundGood ==
  ASSUME NEW B, WF(B), NEW s, Known(B, s) # {}
  PROVE  GoodResult(B, Found(B, s))
<1>1. (CHOOSE e \in Known(B, s) : TRUE) \in Known(B, s)
  OBVIOUS
<1>2. PICK e \in Known(B, s) : Found(B, s) = Answer(B, e.result)
  BY <1>1 DEF Found
<1>3. e.result \in Safe(B)
  BY <1>2 DEF Known, WF, ExpressionsOK
<1> QED BY <1>2, <1>3, AnswerGood

LEMMA AskGood ==
  ASSUME NEW B, WF(B), NEW s, Askable(B, s), NEW r, Rewrites(r, B),
         r = NoRewrite => Met(B.steps, B.tr, B.special, s)
  PROVE  GoodResult(B, Ask(B, s, r))
BY CreateGood, FoundGood DEF Ask

LEMMA AnnounceResult ==
  ASSUME NEW B, WF(B), NEW a, NEW ops
  PROVE  /\ GoodResult(B, a) => GoodResult(B, Announce(a, ops))
         /\ GoodAnswer(B, a) => GoodAnswer(B, Announce(a, ops))
<1> DEFINE c == Announce(a, ops)
<1>1. ASSUME GoodAnswer(B, a)
      PROVE  /\ IsAnswer(c) /\ c.id = a.id /\ WF(c.b) /\ Extends(B, c.b) /\ Safe(a.b) \subseteq Safe(c.b)
  <2>1. IsAnswer(a) /\ WF(a.b) /\ Extends(B, a.b)
    BY <1>1 DEF GoodAnswer
  <2>2. IsAnswer(c) /\ c.id = a.id /\ Marked(a.b, c.b)
    BY <2>1, AnnounceGood
  <2> HIDE DEF c
  <2>3. WF(c.b) /\ Extends(a.b, c.b) /\ Safe(a.b) \subseteq Safe(c.b)
    BY <2>2 DEF Marked
  <2> QED BY <2>1, <2>2, <2>3, ExtendsOn
<1> HIDE DEF c
<1>2. GoodAnswer(B, a) => GoodAnswer(B, c)
  BY <1>1 DEF GoodAnswer
<1>3. GoodResult(B, a) => GoodResult(B, c)
  BY <1>1, ResultAnswers DEF GoodResult
<1> QED BY <1>2, <1>3 DEF c

LEMMA ScalarOnlyGood ==
  ASSUME NEW B, WF(B), NEW x
  PROVE  /\ Marked(B, [B EXCEPT !.scalarOnly = x]) /\ [B EXCEPT !.scalarOnly = x].special = B.special
         /\ [B EXCEPT !.scalarOnly = x].args = B.args
<1> DEFINE C == [B EXCEPT !.scalarOnly = x]
<1>1. C = [B EXCEPT !.scalarOnly = x] /\ IsBuilder(B)
  BY DEF WF
<1> HIDE DEF C
<1>2. C = Builder(B.steps, B.remembered, B.reverse, B.special, x, B.args, B.safety, B.accs, B.roots, B.tr)
  BY <1>1 DEF IsBuilder, Builder
<1>3. /\ IsBuilder(C) /\ C.tr = B.tr /\ C.steps = B.steps /\ C.remembered = B.remembered /\ C.reverse = B.reverse
      /\ C.special = B.special /\ C.args = B.args /\ C.safety = B.safety /\ SameOutputs(B, C)
  BY <1>2 DEF IsBuilder, Builder, SameOutputs
<1>4. Keeps(B, C)
  <2>1. Len(B.steps) <= Len(C.steps)
    BY <1>3, WFFacts
  <2> QED BY <1>3, <2>1 DEF Keeps, Written
<1>5. IsArgs(C.args)
  BY <1>3 DEF WF, AccessesOK
<1>6. Marked(B, C)
  BY <1>3, <1>4, <1>5, SameStepsGood DEF Marked
<1> QED BY <1>3, <1>6 DEF C

\* Announcing what a created step needs is as good as having announced it before.
LEMMA CreateAnnounced ==
  ASSUME NEW B, WF(B), NEW ops, NEW s, NEW r,
         Askable(Announce(Answer(B, 0), ops).b, s), GoodRewrite(r, Safe(B)),
         r = NoRewrite => Met(B.steps, B.tr, B.special \union ops, s)
  PROVE  GoodResult(B, Announce(Create(B, s, r), ops))
<1> DEFINE C == Announce(Answer(B, 0), ops).b
<1>1. Answer(B, 0).b = B /\ IsAnswer(Answer(B, 0))
  BY DEF Answer, IsAnswer
<1>2. Marked(B, C) /\ C.special = B.special \union ops
  BY <1>1, AnnounceGood
<1>3. C = [B EXCEPT !.special = B.special \union ops] /\ IsBuilder(B)
  BY DEF Announce, Answer, WF
<1>4. Askable(C, s)
  OBVIOUS
<1> HIDE DEF C
<1>5. C = Builder(B.steps, B.remembered, B.reverse, B.special \union ops, B.scalarOnly, B.args, B.safety, B.accs,
                  B.roots, B.tr)
  BY <1>3 DEF IsBuilder, Builder
<1>6. /\ C.steps = B.steps /\ C.remembered = B.remembered /\ C.reverse = B.reverse /\ C.scalarOnly = B.scalarOnly
      /\ C.args = B.args /\ C.safety = B.safety /\ C.accs = B.accs /\ C.roots = B.roots /\ C.tr = B.tr
  BY <1>5 DEF Builder
<1>7. WF(C) /\ Extends(B, C) /\ Safe(B) \subseteq Safe(C)
  BY <1>2 DEF Marked
<1>8. GoodResult(C, Create(C, s, r))
  <2>1. Rewrites(r, C)
    BY <1>7, GoodMore DEF Rewrites
  <2>2. r = NoRewrite => Met(C.steps, C.tr, C.special, s)
    BY <1>2, <1>6
  <2> QED BY <1>4, <1>7, <2>1, <2>2, CreateGood
<1> DEFINE steps == CreatedSteps(B.steps, s, r.new)
           remembered == CreatedKeys(B.steps, B.remembered, r)
           reverse == CreatedReverse(B.steps, B.reverse, s, r)
           id == CreatedAt(B.steps, r)
<1>9. Create(B, s, r) = Answer(Builder(steps, remembered, reverse, B.special, B.scalarOnly, B.args, B.safety,
                                       B.accs, B.roots, B.tr), id)
  BY CreateIs
<1>10. Create(C, s, r) = Answer(Builder(steps, remembered, reverse, B.special \union ops, B.scalarOnly, B.args,
                                        B.safety, B.accs, B.roots, B.tr), id)
  <2>1. Create(C, s, r) =
          Answer(Builder(CreatedSteps(C.steps, s, r.new), CreatedKeys(C.steps, C.remembered, r),
                         CreatedReverse(C.steps, C.reverse, s, r), C.special, C.scalarOnly, C.args, C.safety,
                         C.accs, C.roots, C.tr), CreatedAt(C.steps, r))
    BY <1>7, CreateIs
  <2> QED BY <1>2, <1>6, <2>1
<1> HIDE DEF steps, remembered, reverse, id
<1>11. Announce(Create(B, s, r), ops) = Create(C, s, r)
  <2>1. PICK X : X = Builder(steps, remembered, reverse, B.special, B.scalarOnly, B.args, B.safety, B.accs, B.roots, B.tr)
    OBVIOUS
  <2>2. PICK Y : Y = [X EXCEPT !.special = B.special \union ops]
    OBVIOUS
  <2>3. /\ X.special = B.special
        /\ Y = Builder(steps, remembered, reverse, B.special \union ops, B.scalarOnly, B.args, B.safety, B.accs,
                       B.roots, B.tr)
    BY <2>1, <2>2 DEF Builder
  <2>4. Create(B, s, r) = [b |-> X, id |-> id] /\ Create(C, s, r) = [b |-> Y, id |-> id]
    BY <1>9, <1>10, <2>1, <2>3 DEF Answer
  <2>5. Announce([b |-> X, id |-> id], ops) = [b |-> Y, id |-> id]
    BY <2>2, <2>3, AnnounceIs
  <2> QED BY <2>4, <2>5
<1> QED BY <1>7, <1>8, <1>11, ResultOn

(***************************************************************************)
(* Expressions.                                                             *)
(***************************************************************************)
\* A step that is none of those a rewrite or the target has demands on.
LEMMA AskableStep ==
  ASSUME NEW B, NEW kind, NEW dtype, NEW op, NEW flag, NEW args, NEW val, IsSeq(args), kind \notin WriteKinds,
         kind \in {"IntCast", "FloatCast", "PredicateNot"} => Len(args) = 1,
         kind \in {"ArithBinary", "Compare", "PredicateBinary"} => Len(args) = 2,
         kind = "IntCast" => op \in CastKinds,
         kind = "PredicateBinary" => op \in LogicOps,
         \A j \in 1 .. Len(args) : args[j] \in Safe(B)
  PROVE  Askable(B, Step(kind, dtype, op, flag, args, val))
<1> DEFINE s == Step(kind, dtype, op, flag, args, val)
<1>1. /\ s.kind = kind /\ s.op = op /\ s.args = args /\ IsStep(s)
  BY StepFields
<1> HIDE DEF s
<1>2. Askable(B, s)
  BY <1>1 DEF Askable, Shaped
<1> QED BY <1>2 DEF s

LEMMA AskableSteps ==
  ASSUME NEW B
  PROVE  /\ \A n, t : Askable(B, ConstStep(n, t))
         /\ \A op, flag, t, l, r : l \in Safe(B) /\ r \in Safe(B) => Askable(B, ArithStep(op, flag, t, l, r))
         /\ \A op, t, x : x \in Safe(B) => Askable(B, UnaryStep(op, t, x))
         /\ \A op, flag, l, r : l \in Safe(B) /\ r \in Safe(B) => Askable(B, CompareStep(op, flag, l, r))
         /\ \A op, l, r : op \in LogicOps /\ l \in Safe(B) /\ r \in Safe(B) => Askable(B, LogicStep(op, l, r))
         /\ \A p : p \in Safe(B) => Askable(B, NotStep(p))
         /\ \A t, c, x, y : c \in Safe(B) /\ x \in Safe(B) /\ y \in Safe(B) => Askable(B, SelectStep(t, c, x, y))
         /\ \A kind, t, x : kind \in CastKinds /\ x \in Safe(B) => Askable(B, IntCastStep(kind, t, x))
         /\ \A flag, t, x : x \in Safe(B) => Askable(B, FloatCastStep(flag, t, x))
<1>1. ASSUME NEW x \in Safe(B)
      PROVE  /\ IsSeq(<<x>>) /\ Len(<<x>>) = 1 /\ \A j \in 1 .. Len(<<x>>) : <<x>>[j] \in Safe(B)
  BY Short
<1>2. ASSUME NEW l \in Safe(B), NEW r \in Safe(B)
      PROVE  /\ IsSeq(<<l, r>>) /\ Len(<<l, r>>) = 2 /\ \A j \in 1 .. Len(<<l, r>>) : <<l, r>>[j] \in Safe(B)
  BY Short
<1>3. ASSUME NEW c \in Safe(B), NEW x \in Safe(B), NEW y \in Safe(B)
      PROVE  /\ IsSeq(<<c, x, y>>) /\ \A j \in 1 .. Len(<<c, x, y>>) : <<c, x, y>>[j] \in Safe(B)
  BY Short
<1>4. ASSUME NEW n, NEW t PROVE Askable(B, ConstStep(n, t))
  <2>1. IsSeq(<<>>) /\ \A j \in 1 .. Len(<<>>) : <<>>[j] \in Safe(B)
    BY Short
  <2> QED BY <2>1, AskableStep DEF ConstStep, WriteKinds
<1>5. ASSUME NEW op, NEW flag, NEW t, NEW l \in Safe(B), NEW r \in Safe(B) PROVE Askable(B, ArithStep(op, flag, t, l, r))
  BY <1>2, AskableStep DEF ArithStep, WriteKinds
<1>6. ASSUME NEW op, NEW t, NEW x \in Safe(B) PROVE Askable(B, UnaryStep(op, t, x))
  BY <1>1, AskableStep DEF UnaryStep, WriteKinds
<1>7. ASSUME NEW op, NEW flag, NEW l \in Safe(B), NEW r \in Safe(B) PROVE Askable(B, CompareStep(op, flag, l, r))
  BY <1>2, AskableStep DEF CompareStep, WriteKinds
<1>8. ASSUME NEW op \in LogicOps, NEW l \in Safe(B), NEW r \in Safe(B) PROVE Askable(B, LogicStep(op, l, r))
  BY <1>2, AskableStep DEF LogicStep, WriteKinds
<1>9. ASSUME NEW p \in Safe(B) PROVE Askable(B, NotStep(p))
  BY <1>1, AskableStep DEF NotStep, WriteKinds
<1>10. ASSUME NEW t, NEW c \in Safe(B), NEW x \in Safe(B), NEW y \in Safe(B) PROVE Askable(B, SelectStep(t, c, x, y))
  BY <1>3, AskableStep DEF SelectStep, WriteKinds
<1>11. ASSUME NEW kind \in CastKinds, NEW t, NEW x \in Safe(B) PROVE Askable(B, IntCastStep(kind, t, x))
  BY <1>1, AskableStep DEF IntCastStep, WriteKinds
<1>12. ASSUME NEW flag, NEW t, NEW x \in Safe(B) PROVE Askable(B, FloatCastStep(flag, t, x))
  BY <1>1, AskableStep DEF FloatCastStep, WriteKinds
<1> QED BY <1>4, <1>5, <1>6, <1>7, <1>8, <1>9, <1>10, <1>11, <1>12

\* The kinds of steps that may need something of the target, or may have to be split.
DemandingKinds == {"ArithBinary", "ArithUnary", "Gather", "Scatter", "Pack", "AccArithBinary", "FloatCast"}

LEMMA NoNeeds ==
  ASSUME NEW s, s.kind \notin DemandingKinds
  PROVE  \A steps, tr, special : Met(steps, tr, special, s)
<1>1. /\ s.kind # "ArithBinary" /\ s.kind # "ArithUnary" /\ s.kind # "Gather" /\ s.kind # "Scatter"
      /\ s.kind # "Pack" /\ s.kind # "AccArithBinary" /\ s.kind # "FloatCast"
  BY DEF DemandingKinds
<1>2. \A steps : StepNeeds(steps, s) = {}
  BY <1>1 DEF StepNeeds
<1> QED BY <1>1, <1>2 DEF Met, NeedsNoSplit

LEMMA NoNeedsStep ==
  ASSUME NEW kind, kind \notin DemandingKinds
  PROVE  \A steps, tr, special, dtype, op, flag, args, val :
           Met(steps, tr, special, Step(kind, dtype, op, flag, args, val))
BY StepFields, NoNeeds

LEMMA LoadGood ==
  ASSUME NEW B, WF(B), NEW arg, NEW aligned
  PROVE  GoodResult(B, Load(B, arg, aligned)) /\ GoodResult(B, LoadSplat(B, arg))
<1>1. ASSUME NEW kind \in {"Load", "LoadSplat"}, NEW mark, NEW dtype, NEW flag
      PROVE  GoodResult(B, Create(MarkArg(B, arg, mark), Step(kind, dtype, "", flag, <<>>, <<arg>>), NoRewrite))
  <2> DEFINE C == MarkArg(B, arg, mark)
             s == Step(kind, dtype, "", flag, <<>>, <<arg>>)
  <2>1. WF(C) /\ Extends(B, C)
    BY MarkGood DEF Marked
  <2>2. kind \notin WriteKinds /\ kind \notin DemandingKinds /\ kind \notin {"IntCast", "FloatCast", "PredicateNot"}
        /\ kind \notin {"ArithBinary", "Compare", "PredicateBinary"}
    BY DEF WriteKinds, DemandingKinds
  <2>3. IsSeq(<<>>) /\ \A j \in 1 .. Len(<<>>) : <<>>[j] \in Safe(C)
    BY Short
  <2> HIDE DEF C
  <2>4. Askable(C, s)
    BY <2>2, <2>3, AskableStep
  <2>5. Met(C.steps, C.tr, C.special, s)
    BY <2>2, NoNeedsStep
  <2>6. Rewrites(NoRewrite, C)
    BY DEF Rewrites, GoodRewrite
  <2> HIDE DEF s
  <2>7. GoodResult(C, Create(C, s, NoRewrite))
    BY <2>1, <2>4, <2>5, <2>6, CreateGood
  <2> QED BY <2>1, <2>7, ResultOn DEF C, s
<1>2. GoodResult(B, Load(B, arg, aligned))
  BY <1>1, FoundGood DEF Load, LoadStep
<1>3. GoodResult(B, LoadSplat(B, arg))
  BY <1>1, FoundGood DEF LoadSplat
<1> QED BY <1>2, <1>3

LEMMA ConGood ==
  ASSUME NEW B, WF(B), NEW n, NEW t
  PROVE  GoodAnswer(B, Con(B, n, t))
<1>1. ASSUME NEW m PROVE GoodAnswer(B, Ask(B, ConstStep(m, t), NoRewrite))
  <2>1. Rewrites(NoRewrite, B) /\ Askable(B, ConstStep(m, t))
    BY AskableSteps DEF Rewrites, GoodRewrite
  <2>2. Met(B.steps, B.tr, B.special, ConstStep(m, t))
    BY NoNeedsStep DEF ConstStep, DemandingKinds
  <2> QED BY <2>1, <2>2, AskGood, ResultAnswers
<1> QED BY <1>1, RefusedGood DEF Con

\* The needs of the operations that can be checked are those ArithSpecialOps names.
LEMMA ArithNeeds ==
  ASSUME NEW steps, NEW id, steps[id].kind \in {"ArithBinary", "IntCast", "ArithUnary"},
         steps[id].kind = "ArithUnary" => steps[id].op # "Lzcnt"
  PROVE  StepNeeds(steps, steps[id]) = ArithSpecialOps(steps, id)
<1> DEFINE s == steps[id]
<1>1. s.kind # "Gather" /\ s.kind # "Scatter" /\ s.kind # "Pack" /\ s.kind # "AccArithBinary"
      /\ ~(s.kind = "ArithUnary" /\ s.op = "Lzcnt")
  OBVIOUS
<1>2. Needs(steps, id) = ArithSpecialOps(steps, id)
  BY <1>1 DEF Needs
<1> QED BY <1>2, NeedsOfStep

LEMMA NewArithGood ==
  ASSUME NEW B, WF(B), NEW op, NEW flag, NEW t, NEW l \in Safe(B), NEW r \in Safe(B),
         NEW identity, GoodRewrite(identity, Safe(B))
  PROVE  GoodResult(B, NewArith(B, ArithStep(op, flag, t, l, r), identity))
<1> DEFINE s == ArithStep(op, flag, t, l, r)
<1>1. /\ s.kind = "ArithBinary" /\ s.op = op /\ s.dtype = t /\ s.args = <<l, r>>
      /\ s.args[1] = l /\ s.args[2] = r
  BY StepFields DEF ArithStep
<1> HIDE DEF s
<1> DEFINE product == When(s.op = "Mul" /\ s.dtype \in IntTypes, ProductRewrite(B, s.dtype, s.args[1], s.args[2]))
           scalar == ~Applies(identity) /\ s.op \in DivisionOps /\ s.dtype \in IntTypes
                     /\ ~ConstDivision(B, s.dtype, s.args[2])
           C == [B EXCEPT !.scalarOnly = B.scalarOnly \/ scalar]
           w == FirstOf(<<identity, product>>)
           a == Create(C, s, w)
           ops == ArithSpecialOps(a.b.steps, a.id)
<1>2. NewArith(B, s, identity) = Announce(a, ops)
  BY Zenon DEF NewArith, Announced
<1>3. WF(C) /\ Extends(B, C) /\ Safe(B) \subseteq Safe(C) /\ C.steps = B.steps
  <2> HIDE DEF scalar
  <2> QED BY ScalarOnlyGood DEF Marked
<1>4. GoodRewrite(w, Safe(C))
  <2>1. GoodRewrite(product, Safe(B))
    <3>1. GoodRewrite(ProductRewrite(B, s.dtype, s.args[1], s.args[2]), Safe(B))
      BY <1>1, ProductGood
    <3> QED BY <3>1, WhenGood
  <2> HIDE DEF product
  <2>2. GoodRewrite(w, Safe(B))
    BY <2>1, FirstOfSome
  <2> QED BY <1>3, <2>2, GoodMore
<1> HIDE DEF C, w, product, scalar
<1>5. Askable(C, s)
  <2>1. Askable(C, ArithStep(op, flag, t, l, r))
    BY <1>3, AskableSteps
  <2> QED BY <2>1 DEF s
<1>6. w = NoRewrite => Met(C.steps, C.tr, C.special \union ops, s)
  <2> SUFFICES ASSUME w = NoRewrite PROVE StepNeeds(C.steps, s) = ops
    BY <1>1 DEF Met, NeedsNoSplit
  <2> DEFINE more == CreatedSteps(C.steps, s, w.new)
             key == Len(C.steps) + 1
  <2>1. a.b.steps = more /\ a.id = key
    <3>1. CreatedAt(C.steps, w) = key
      BY DEF CreatedAt, Applies
    <3>2. PICK X : X = Builder(more, CreatedKeys(C.steps, C.remembered, w), CreatedReverse(C.steps, C.reverse, s, w),
                               C.special, C.scalarOnly, C.args, C.safety, C.accs, C.roots, C.tr)
      OBVIOUS
    <3>3. X.steps = more
      BY <3>2 DEF Builder
    <3>4. a = Answer(X, key)
      BY <1>3, <3>1, <3>2, CreateIs
    <3> QED BY <3>3, <3>4 DEF Answer
  <2>2. IsCreated(more, C.steps, C.tr, s, w.new, Safe(C))
    <3>1. NewWith(w.new, C.steps, C.tr, Safe(C))
      BY NewNone, NoCastFits DEF NoRewrite
    <3> QED BY <1>3, <3>1, WFFacts, CreatedTable
  <2> HIDE DEF a, more
  <2>3. more[key] = s /\ \A i \in 1 .. Len(C.steps) : more[i] = C.steps[i]
    BY <2>2 DEF IsCreated
  <2> HIDE DEF key
  <2>4. StepNeeds(more, s) = ArithSpecialOps(more, key)
    BY <1>1, <2>3, ArithNeeds
  <2>5. StepNeeds(more, s) = StepNeeds(C.steps, s)
    <3>1. Shaped(s) /\ \A j \in 1 .. Len(s.args) : s.args[j] \in 1 .. Len(C.steps)
      BY <1>3, <1>5, WFFacts DEF Askable
    <3> QED BY <2>3, <3>1, NeedsKept
  <2> QED BY <2>1, <2>4, <2>5
<1>7. Askable(Announce(Answer(C, 0), ops).b, s)
  <2> HIDE DEF ops
  <2>1. IsAnswer(Answer(C, 0)) /\ Answer(C, 0).b = C
    BY DEF IsAnswer, Answer
  <2>2. Safe(C) \subseteq Safe(Announce(Answer(C, 0), ops).b)
    BY <1>3, <2>1, AnnounceGood DEF Marked
  <2> QED BY <1>5, <2>2 DEF Askable
<1> HIDE DEF ops
<1>8. GoodResult(C, Announce(a, ops))
  BY <1>3, <1>4, <1>6, <1>7, CreateAnnounced
<1>9. GoodResult(B, Announce(a, ops))
  BY <1>3, <1>8, ResultOn
<1> QED BY <1>2, <1>9 DEF s

LEMMA UncheckedArithGood ==
  ASSUME NEW B, WF(B), NEW l \in Safe(B), NEW r \in Safe(B), NEW op, NEW flag
  PROVE  GoodResult(B, UncheckedArith(B, l, r, op, flag))
<1>1. GoodRewrite(When("BinaryIdentityPeephole" \in B.tr, ArithIdentity(B.steps, op, l, r)), Safe(B))
  BY ArithIdentityGood, WhenGood
<1> DEFINE s == ArithStep(op, flag, B.steps[l].dtype, l, r)
           identity == When("BinaryIdentityPeephole" \in B.tr, ArithIdentity(B.steps, op, l, r))
<1> HIDE DEF identity
<1>2. GoodResult(B, NewArith(B, s, identity))
  BY <1>1, NewArithGood DEF identity
<1>3. Known(B, s) # {} => GoodResult(B, Found(B, s))
  BY FoundGood
<1> HIDE DEF s
<1> QED BY <1>2, <1>3 DEF UncheckedArith, s, identity

LEMMA UnaryGood ==
  ASSUME NEW B, WF(B), NEW arg \in Safe(B), NEW op
  PROVE  GoodAnswer(B, Unary(B, arg, op))
<1> DEFINE t == B.steps[arg].dtype
           s == UnaryStep(op, t, arg)
           ops == IF op = "Lzcnt" /\ t \in {"I8", "I16"} THEN {"SmallLzcnt"} ELSE {}
<1>1. s.kind = "ArithUnary" /\ s.op = op /\ s.dtype = t /\ s.args = <<arg>>
  BY StepFields DEF UnaryStep
<1>2. GoodResult(B, Announce(Ask(B, s, NoRewrite), ops))
  <2>1. Known(B, s) # {} => GoodResult(B, Announce(Found(B, s), ops))
    BY FoundGood, AnnounceResult
  <2>2. GoodRewrite(NoRewrite, Safe(B))
    BY DEF GoodRewrite
  <2>3. Met(B.steps, B.tr, B.special \union ops, s)
    <3> HIDE DEF t, s
    <3>1. StepNeeds(B.steps, s) \subseteq ops
      BY <1>1 DEF StepNeeds
    <3> QED BY <1>1, <3>1 DEF Met, NeedsNoSplit
  <2>4. Askable(Announce(Answer(B, 0), ops).b, s)
    <3>1. IsAnswer(Answer(B, 0)) /\ Answer(B, 0).b = B
      BY DEF IsAnswer, Answer
    <3> HIDE DEF ops
    <3>2. Safe(B) \subseteq Safe(Announce(Answer(B, 0), ops).b)
      BY <3>1, AnnounceGood DEF Marked
    <3> QED BY <3>2, AskableSteps
  <2> HIDE DEF s, ops
  <2>5. GoodResult(B, Announce(Create(B, s, NoRewrite), ops))
    BY <2>2, <2>3, <2>4, CreateAnnounced
  <2> QED BY <2>1, <2>5 DEF Ask
<1>3. Unary(B, arg, op) = Refused(B) \/ Unary(B, arg, op) = Announce(Ask(B, s, NoRewrite), ops)
  BY DEF Unary
<1> HIDE DEF s, ops
<1> QED BY <1>2, <1>3, RefusedGood, ResultAnswers

LEMMA CheckedOpGood ==
  ASSUME NEW B, WF(B), NEW arg \in Safe(B), NEW mask, mask = 0 \/ mask \in Safe(B)
  PROVE  GoodAnswer(B, CheckedOp(B, arg, mask))
<1> DEFINE operation == Original(B, arg)
           used == IF mask # 0 /\ "ConstantConditionPeephole" \in B.tr /\ ConstClass(B.steps[mask]) = "BoolTrue"
                   THEN 0 ELSE mask
           args == IF used = 0 THEN <<operation>> ELSE <<operation, used>>
           s == Step("CheckedOp", B.steps[arg].dtype, "", "No", args, <<>>)
           ops == ArithSpecialOps(B.steps, operation)
           C == Announce(Answer(B, 0), ops).b
<1>1. /\ Len(B.steps) \in Nat /\ DOMAIN B.reverse = 1 .. Len(B.steps) /\ Safe(B) \subseteq 1 .. Len(B.steps)
      /\ Safe(B) \in SUBSET (Nat \ {0})
  BY WFFacts
<1>2. operation \in 1 .. Len(B.steps)
  <2>1. B.reverse[arg] \in 0 .. Len(B.steps)
    BY <1>1 DEF WF, ExpressionsOK
  <2> QED BY <1>1, <2>1 DEF Original
<1>3. used = 0 \/ used \in Safe(B)
  OBVIOUS
<1> HIDE DEF operation, used
<1>4. s.kind = "CheckedOp"
  <2> HIDE DEF args
  <2> QED BY DEF Step
<1>5. WF(C) /\ Safe(B) \subseteq Safe(C) /\ C.steps = B.steps /\ C.special = B.special \union ops /\ C.tr = B.tr
  <2>1. IsAnswer(Answer(B, 0)) /\ Answer(B, 0).b = B
    BY DEF IsAnswer, Answer
  <2> HIDE DEF ops
  <2>2. Marked(Answer(B, 0).b, C) /\ C.special = Answer(B, 0).b.special \union ops
    BY <2>1, AnnounceGood
  <2> HIDE DEF C
  <2> QED BY <2>1, <2>2 DEF Marked, Extends, Keeps
<1> HIDE DEF s
<1>6. ASSUME Checkable(B.steps[operation], s, B.steps[arg].dtype)
      PROVE  GoodResult(B, Announce(Create(B, s, NoRewrite), ops))
  <2>1. /\ B.steps[operation].kind \in {"ArithBinary", "IntCast", "ArithUnary"}
        /\ B.steps[operation].kind = "ArithUnary" => B.steps[operation].op # "Lzcnt"
    BY <1>6 DEF Checkable
  <2>2. StepNeeds(B.steps, B.steps[operation]) = ops
    BY <2>1, ArithNeeds
  <2> HIDE DEF ops, C
  <2>3. operation \in Safe(C)
    <3>1. B.steps[operation].kind # "FloatCast"
      BY <2>1
    <3>2. Met(C.steps, C.tr, C.special, B.steps[operation])
      BY <1>5, <2>2, <3>1 DEF Met, NeedsNoSplit
    <3> QED BY <1>2, <1>5, <3>2 DEF Safe, SafeIn
  <2>4. IsSeq(args) /\ \A j \in 1 .. Len(args) : args[j] \in Safe(C)
    <3>1. CASE used = 0
      BY <2>3, <3>1, Short
    <3>2. CASE used # 0
      BY <1>3, <1>5, <2>3, <3>2, Short
    <3> QED BY <3>1, <3>2
  <2> HIDE DEF args
  <2>5. Askable(C, s)
    BY <2>4, AskableStep DEF s, WriteKinds
  <2>6. Met(B.steps, B.tr, B.special \union ops, s)
    BY <1>4, NoNeeds DEF DemandingKinds
  <2>7. GoodRewrite(NoRewrite, Safe(B))
    BY DEF GoodRewrite
  <2> QED BY <2>5, <2>6, <2>7, CreateAnnounced DEF C
<1>7. Known(B, s) # {} => GoodResult(B, Found(B, s))
  BY FoundGood
<1>8. GoodResult(B, Answer(B, arg)) /\ GoodAnswer(B, Refused(B))
  BY AnswerGood, RefusedGood
<1>9. CheckedOp(B, arg, mask) =
        IF B.safety = 0 THEN Refused(B)
        ELSE IF B.steps[arg].kind = "ArithBinary" /\ B.steps[arg].op \in {"Mul64SE", "Mul64ZE"}
        THEN Answer(B, arg)
        ELSE IF ~Checkable(B.steps[operation], s, B.steps[arg].dtype) THEN Refused(B)
        ELSE IF Known(B, s) # {} THEN Found(B, s)
        ELSE Announce(Create(B, s, NoRewrite), ops)
  BY Zenon DEF CheckedOp, s, operation, used
<1> HIDE DEF ops, C, args
<1> QED BY <1>6, <1>7, <1>8, <1>9, ResultAnswers

LEMMA CheckedWhenGood ==
  ASSUME NEW B, WF(B), NEW a, GoodAnswer(B, a), NEW checked
  PROVE  GoodAnswer(B, CheckedWhen(checked, a))
<1>1. CASE Invalid(a) \/ ~checked
  BY <1>1 DEF CheckedWhen
<1>2. CASE ~(Invalid(a) \/ ~checked)
  <2>1. WF(a.b) /\ Extends(B, a.b) /\ a.id \in Safe(a.b)
    BY <1>2 DEF GoodAnswer, Invalid
  <2>2. GoodAnswer(a.b, CheckedOp(a.b, a.id, 0))
    BY <2>1, CheckedOpGood
  <2>3. GoodAnswer(B, CheckedOp(a.b, a.id, 0))
    BY <2>1, <2>2, ResultOn
  <2> QED BY <1>2, <2>3 DEF CheckedWhen
<1> QED BY <1>1, <1>2

LEMMA ArithGood ==
  ASSUME NEW B, WF(B), NEW l \in Safe(B), NEW r \in Safe(B), NEW op, NEW flag
  PROVE  GoodAnswer(B, Arith(B, l, r, op, flag))
<1>1. \A f : GoodAnswer(B, UncheckedArith(B, l, r, op, f))
  BY UncheckedArithGood, ResultAnswers
<1> DEFINE a == UncheckedArith(B, l, r, op, IF flag = "SafetyCheck" THEN "No" ELSE flag)
<1>2. GoodAnswer(B, a)
  BY <1>1
<1>3. Arith(B, l, r, op, flag) = Refused(B) \/ Arith(B, l, r, op, flag) = CheckedWhen(flag = "SafetyCheck", a)
  BY DEF Arith
<1> HIDE DEF a
<1> QED BY <1>2, <1>3, RefusedGood, CheckedWhenGood

LEMMA IntCastGood ==
  ASSUME NEW B, WF(B), NEW arg \in Safe(B), NEW dtype, NEW kind \in CastKinds, NEW checked
  PROVE  GoodAnswer(B, IntCast(B, arg, dtype, kind, checked))
<1> DEFINE s == IntCastStep(kind, dtype, arg)
           r == CastOf(B.steps, B.tr, arg, dtype, kind)
<1>1. Rewrites(r, B)
  BY WFFacts, CastGood DEF Rewrites, GoodRewrite
<1>2. Askable(B, s) /\ Met(B.steps, B.tr, B.special, s)
  BY AskableSteps, NoNeedsStep DEF IntCastStep, DemandingKinds
<1>3. IntCast(B, arg, dtype, kind, checked) = Refused(B)
      \/ IntCast(B, arg, dtype, kind, checked) = CheckedWhen(checked, Ask(B, s, r))
  BY DEF IntCast
<1> HIDE DEF s, r
<1>4. GoodAnswer(B, Ask(B, s, r))
  BY <1>1, <1>2, AskGood, ResultAnswers
<1> QED BY <1>3, <1>4, RefusedGood, CheckedWhenGood

\* A conversion of a float, or to one: FloatCast refuses every other.
LEMMA FloatCastAsked ==
  ASSUME NEW B, WF(B), NEW arg \in Safe(B), NEW dtype \in IntTypes \union FloatTypes,
         NEW unsigned \in {"No", "Unsigned"}, B.steps[arg].dtype \in FloatTypes \/ dtype \in FloatTypes
  PROVE  GoodResult(B, Ask(B, FloatCastStep(unsigned, dtype, arg),
                           FloatCastOf(B.steps, B.tr, arg, dtype, unsigned)))
<1> DEFINE s == FloatCastStep(unsigned, dtype, arg)
           r == FloatCastOf(B.steps, B.tr, arg, dtype, unsigned)
<1>1. GoodCast(r, B.steps, B.tr, Safe(B))
  BY WFFacts, FloatCastGood
<1>2. r # NoRewrite
  <2> HIDE DEF r
  <2> SUFFICES ASSUME r = NoRewrite PROVE FALSE
    OBVIOUS
  <2>1. r.at = 0 /\ r.new = <<>> /\ Len(r.new) = 0
    BY Short DEF NoRewrite
  <2>2. r.at \in Safe(B) \/ r.at \in -Len(r.new) .. -1
    BY <1>1 DEF GoodCast
  <2> QED BY <2>1, <2>2, WFFacts
<1>3. Askable(B, s)
  BY AskableSteps
<1> HIDE DEF s, r
<1>4. GoodResult(B, Ask(B, s, r))
  BY <1>1, <1>2, <1>3, AskGood DEF Rewrites
<1> QED BY <1>4 DEF s, r

LEMMA NumericCastGood ==
  ASSUME NEW B, WF(B), NEW arg \in Safe(B), NEW dtype \in IntTypes \union FloatTypes,
         NEW unsigned \in {"No", "Unsigned"}
  PROVE  GoodAnswer(B, FloatCast(B, arg, dtype, unsigned)) /\ GoodAnswer(B, NumericCast(B, arg, dtype, unsigned))
<1> DEFINE s == FloatCastStep(unsigned, dtype, arg)
           r == FloatCastOf(B.steps, B.tr, arg, dtype, unsigned)
<1>1. \/ FloatCast(B, arg, dtype, unsigned) = Refused(B)
      \/ /\ FloatCast(B, arg, dtype, unsigned) = Ask(B, s, r)
         /\ B.steps[arg].dtype \in FloatTypes \/ dtype \in FloatTypes
  BY DEF FloatCast
<1>2. B.steps[arg].dtype \in FloatTypes \/ dtype \in FloatTypes => GoodAnswer(B, Ask(B, s, r))
  BY FloatCastAsked, ResultAnswers
<1> HIDE DEF s, r
<1>3. GoodAnswer(B, FloatCast(B, arg, dtype, unsigned))
  BY <1>1, <1>2, RefusedGood
<1>4. BridgeKind(B.steps[arg].dtype, dtype, unsigned) \in CastKinds
  BY DEF BridgeKind, CastKinds
<1> QED BY <1>3, <1>4, IntCastGood DEF NumericCast

LEMMA ConditionsGood ==
  ASSUME NEW B, WF(B), NEW l \in Safe(B), NEW r \in Safe(B)
  PROVE  /\ \A op, unsigned : GoodAnswer(B, Compare(B, l, r, op, unsigned))
         /\ \A op \in LogicOps : GoodResult(B, Predicate(B, l, r, op))
         /\ GoodResult(B, Not(B, l))
         /\ GoodAnswer(B, Fpclass(B, l))
<1>1. Table(B.steps, Safe(B)) /\ GoodRewrite(NoRewrite, Safe(B))
  BY WFFacts DEF GoodRewrite
<1>2. ASSUME NEW op, NEW unsigned PROVE GoodAnswer(B, Compare(B, l, r, op, unsigned))
  <2> DEFINE s == CompareStep(op, unsigned, l, r)
             x == When("BinaryIdentityPeephole" \in B.tr, CompareIdentity(B.steps, op, unsigned, l, r))
             y == ComparePeephole(B.steps, B.tr, op, unsigned, l, r)
  <2>1. GoodRewrite(x, Safe(B)) /\ GoodRewrite(y, Safe(B))
    BY CompareIdentityGood, CompareGood, WhenGood
  <2>2. Askable(B, s) /\ Met(B.steps, B.tr, B.special, s)
    BY AskableSteps, NoNeedsStep DEF CompareStep, DemandingKinds
  <2>3. Compare(B, l, r, op, unsigned) = Refused(B)
        \/ Compare(B, l, r, op, unsigned) = Ask(B, s, FirstOf(<<x, y>>))
    BY Zenon DEF Compare
  <2> HIDE DEF s, x, y
  <2>4. GoodRewrite(FirstOf(<<x, y>>), Safe(B))
    BY <2>1, FirstOfSome
  <2> QED BY <2>2, <2>3, <2>4, AskGood, ResultAnswers, RefusedGood DEF Rewrites
<1>3. ASSUME NEW op \in LogicOps PROVE GoodResult(B, Predicate(B, l, r, op))
  <2> DEFINE s == LogicStep(op, l, r)
             x == When("BinaryIdentityPeephole" \in B.tr, LogicIdentity(B.steps, op, l, r))
             y == CASE op = "And" -> AndPeephole(B.steps, B.tr, l, r)
                    [] op = "Or" -> OrPeephole(B.steps, l, r)
                    [] op = "AndNot" -> AndNotPeephole(B.steps, B.tr, l, r)
                    [] OTHER -> NoRewrite
  <2>1. GoodRewrite(x, Safe(B))
    BY LogicIdentityGood, WhenGood
  <2>2. GoodRewrite(y, Safe(B))
    <3>1. /\ GoodRewrite(AndPeephole(B.steps, B.tr, l, r), Safe(B))
          /\ GoodRewrite(OrPeephole(B.steps, l, r), Safe(B))
          /\ GoodRewrite(AndNotPeephole(B.steps, B.tr, l, r), Safe(B))
      BY <1>1, AndGood, OrGood, AndNotGood
    <3> QED BY <1>1, <3>1
  <2>3. Askable(B, s) /\ Met(B.steps, B.tr, B.special, s)
    BY AskableSteps, NoNeedsStep DEF LogicStep, DemandingKinds
  <2>4. Predicate(B, l, r, op) = Ask(B, s, FirstOf(<<x, y>>))
    BY Zenon DEF Predicate
  <2> HIDE DEF s, x, y
  <2>5. GoodRewrite(FirstOf(<<x, y>>), Safe(B))
    BY <2>1, <2>2, FirstOfSome
  <2> QED BY <2>3, <2>4, <2>5, AskGood DEF Rewrites
<1>4. GoodResult(B, Not(B, l))
  <2>1. GoodRewrite(When("LogicalPeephole" \in B.tr, InvertedCondition(B.steps, B.tr, l)), Safe(B))
    BY <1>1, InvertedGood, WhenGood
  <2>2. Askable(B, NotStep(l)) /\ Met(B.steps, B.tr, B.special, NotStep(l))
    BY AskableSteps, NoNeedsStep DEF NotStep, DemandingKinds
  <2> QED BY <2>1, <2>2, AskGood DEF Not, Rewrites
<1>5. GoodAnswer(B, Fpclass(B, l))
  <2> DEFINE s == Step("Fpclass", "I1", "Nan", "No", <<l>>, <<>>)
  <2>1. Askable(B, s) /\ Met(B.steps, B.tr, B.special, s)
    BY Short, AskableStep, NoNeedsStep DEF DemandingKinds, WriteKinds
  <2>2. Fpclass(B, l) = Refused(B) \/ Fpclass(B, l) = Ask(B, s, NoRewrite)
    BY DEF Fpclass
  <2> HIDE DEF s
  <2> QED BY <1>1, <2>1, <2>2, AskGood, ResultAnswers, RefusedGood DEF Rewrites
<1> QED BY <1>2, <1>3, <1>4, <1>5

LEMMA ChoiceGood ==
  ASSUME NEW B, WF(B), NEW c \in Safe(B), NEW x \in Safe(B), NEW y \in Safe(B)
  PROVE  GoodResult(B, Select(B, c, x, y))
<1>1. GoodRewrite(SelectPeephole(B.steps, B.tr, c, x, y), Safe(B))
  BY WFFacts, SelectGood
<1>2. ASSUME NEW t PROVE Askable(B, SelectStep(t, c, x, y)) /\ Met(B.steps, B.tr, B.special, SelectStep(t, c, x, y))
  BY AskableSteps, NoNeedsStep DEF SelectStep, DemandingKinds
<1> QED BY <1>1, <1>2, AskGood DEF Select, Rewrites

LEMMA ReversedGood ==
  ASSUME NEW B, WF(B), NEW x \in Safe(B)
  PROVE  GoodAnswer(B, BytesReversed(B, x))
<1>1. ASSUME NEW t, NEW order
      PROVE  GoodResult(B, Ask(B, Step("Permute", t, "", "No", <<x>>, order), NoRewrite))
  <2> DEFINE s == Step("Permute", t, "", "No", <<x>>, order)
  <2>3. IsSeq(<<x>>) /\ \A j \in 1 .. Len(<<x>>) : <<x>>[j] \in Safe(B)
    BY Short
  <2>4. Askable(B, s)
    BY <2>3, AskableStep DEF WriteKinds
  <2>1. Askable(B, s) /\ Met(B.steps, B.tr, B.special, s)
    BY <2>4, NoNeedsStep DEF DemandingKinds
  <2> HIDE DEF s
  <2>2. GoodResult(B, Ask(B, s, NoRewrite))
    BY <2>1, AskGood DEF Rewrites, GoodRewrite
  <2> QED BY <2>2 DEF s
<1> DEFINE t == B.steps[x].dtype
           order == [i \in 1 .. Size(t) |-> Size(t) - i]
           s == Step("Permute", t, "", "No", <<x>>, order)
<1>2. BytesReversed(B, x) = Refused(B) \/ BytesReversed(B, x) = Ask(B, s, NoRewrite)
  BY DEF BytesReversed
<1>3. GoodResult(B, Ask(B, s, NoRewrite))
  <2> HIDE DEF t, order
  <2> QED BY <1>1
<1> HIDE DEF s, t, order
<1> QED BY <1>2, <1>3, RefusedGood, ResultAnswers

(***************************************************************************)
(* Scripts.                                                                 *)
(***************************************************************************)
\* A call of a script that may name m operands and the results of the calls before it.
From(x, k, m) == x \in -m .. -1 \/ x \in 1 .. k - 1
Callable(c) ==
  /\ c.fn \in {"Con", "Arith", "Unary", "Compare", "Predicate", "Not", "Select"}
  /\ c.fn \in {"Arith", "Compare", "Predicate"} => 1 \in DOMAIN c.args /\ 2 \in DOMAIN c.args
  /\ c.fn \in {"Unary", "Not"} => 1 \in DOMAIN c.args
  /\ c.fn = "Select" => 1 \in DOMAIN c.args /\ 2 \in DOMAIN c.args /\ 3 \in DOMAIN c.args
  /\ c.fn = "Predicate" => c.op \in LogicOps
GoodCall(c, k, m) == Callable(c) /\ \A j \in DOMAIN c.args : From(c.args[j], k, m)
IsScript(script, m) == IsSeq(script) /\ Len(script) > 0 /\ \A k \in 1 .. Len(script) : GoodCall(script[k], k, m)

\* Calls that are never refused.
SureCalls == {"Arith", "Predicate", "Not", "Select"}

LEMMA PerformGood ==
  ASSUME NEW B, WF(B), NEW t, NEW c, Callable(c), NEW xs, \A j \in DOMAIN c.args : xs[j] \in Safe(B)
  PROVE  /\ GoodAnswer(B, Perform(B, t, c, xs))
         /\ c.fn \in SureCalls => GoodResult(B, Perform(B, t, c, xs))
<1>1. CASE c.fn = "Con"
  <2>1. Perform(B, t, c, xs) = Con(B, c.n, t)
    BY <1>1 DEF Perform
  <2> QED BY <1>1, <2>1, ConGood DEF SureCalls
<1>2. CASE c.fn = "Arith"
  <2>1. Perform(B, t, c, xs) = UncheckedArith(B, xs[1], xs[2], c.op, c.flag)
    BY <1>2 DEF Perform
  <2>2. xs[1] \in Safe(B) /\ xs[2] \in Safe(B)
    BY <1>2 DEF Callable
  <2> QED BY <2>1, <2>2, UncheckedArithGood, ResultAnswers
<1>3. CASE c.fn = "Unary"
  <2>1. Perform(B, t, c, xs) = Unary(B, xs[1], c.op)
    BY <1>3 DEF Perform
  <2>2. xs[1] \in Safe(B)
    BY <1>3 DEF Callable
  <2> QED BY <1>3, <2>1, <2>2, UnaryGood DEF SureCalls
<1>4. CASE c.fn = "Compare"
  <2>1. Perform(B, t, c, xs) = Compare(B, xs[1], xs[2], c.op, c.flag)
    BY <1>4 DEF Perform
  <2>2. xs[1] \in Safe(B) /\ xs[2] \in Safe(B)
    BY <1>4 DEF Callable
  <2> QED BY <1>4, <2>1, <2>2, ConditionsGood DEF SureCalls
<1>5. CASE c.fn = "Predicate"
  <2>1. Perform(B, t, c, xs) = Predicate(B, xs[1], xs[2], c.op)
    BY <1>5 DEF Perform
  <2>2. xs[1] \in Safe(B) /\ xs[2] \in Safe(B) /\ c.op \in LogicOps
    BY <1>5 DEF Callable
  <2> QED BY <2>1, <2>2, ConditionsGood, ResultAnswers
<1>6. CASE c.fn = "Not"
  <2>1. Perform(B, t, c, xs) = Not(B, xs[1])
    BY <1>6 DEF Perform
  <2>2. xs[1] \in Safe(B)
    BY <1>6 DEF Callable
  <2> QED BY <2>1, <2>2, ConditionsGood, ResultAnswers
<1>7. CASE c.fn = "Select"
  <2>1. Perform(B, t, c, xs) = Select(B, xs[1], xs[2], xs[3])
    BY <1>7 DEF Perform
  <2>2. xs[1] \in Safe(B) /\ xs[2] \in Safe(B) /\ xs[3] \in Safe(B)
    BY <1>7 DEF Callable
  <2> QED BY <2>1, <2>2, ChoiceGood, ResultAnswers
<1> QED BY <1>1, <1>2, <1>3, <1>4, <1>5, <1>6, <1>7 DEF Callable

\* After k calls: k results, or the last call was refused.
SureRun(B, k, so) ==
  /\ WF(so.b) /\ Extends(B, so.b) /\ IsSeq(so.ids) /\ Len(so.ids) = k
  /\ \A j \in 1 .. k : so.ids[j] \in Safe(so.b)
StoppedRun(B, so) ==
  /\ WF(so.b) /\ Extends(B, so.b) /\ IsSeq(so.ids) /\ Len(so.ids) > 0 /\ so.ids[Len(so.ids)] = 0
AreOperands(B, operands, m) == \A j \in 1 .. m : operands[j] \in Safe(B)

LEMMA PerformedGood ==
  ASSUME NEW B, WF(B), NEW t, NEW m \in Nat, NEW operands, AreOperands(B, operands, m),
         NEW k \in Nat, NEW c, GoodCall(c, k + 1, m), NEW so
  PROVE  /\ SureRun(B, k, so) =>
              \/ SureRun(B, k + 1, Performed(so, t, operands, c))
              \/ StoppedRun(B, Performed(so, t, operands, c)) /\ c.fn \notin SureCalls
         /\ StoppedRun(B, so) => StoppedRun(B, Performed(so, t, operands, c))
<1>1. ASSUME StoppedRun(B, so) PROVE Performed(so, t, operands, c) = so
  <2>1. Len(so.ids) \in DOMAIN so.ids /\ so.ids[Len(so.ids)] = 0
    BY <1>1, AnySequence DEF StoppedRun
  <2> QED BY <2>1 DEF Performed
<1>2. ASSUME SureRun(B, k, so)
      PROVE  \/ SureRun(B, k + 1, Performed(so, t, operands, c))
             \/ StoppedRun(B, Performed(so, t, operands, c)) /\ c.fn \notin SureCalls
  <2> DEFINE C == so.b
             xs == [j \in DOMAIN c.args |-> IF c.args[j] < 0 THEN operands[-c.args[j]] ELSE so.ids[c.args[j]]]
             a == Perform(so.b, t, c, xs)
             ids == Append(so.ids, a.id)
             more == [b |-> a.b, ids |-> ids]
  <2>1. WF(C) /\ Extends(B, C) /\ IsSeq(so.ids) /\ Len(so.ids) = k /\ DOMAIN so.ids = 1 .. k
        /\ \A j \in 1 .. k : so.ids[j] \in Safe(C)
    BY <1>2, AnySequence DEF SureRun
  <2>2. Safe(B) \subseteq Safe(C) /\ Safe(C) \in SUBSET (Nat \ {0})
    BY <2>1, WFFacts, KeepsSafe DEF Extends
  <2>3. Performed(so, t, operands, c) = more
    <3>1. ~\E j \in DOMAIN so.ids : so.ids[j] = 0
      BY <2>1, <2>2
    <3> QED BY <3>1 DEF Performed, Extended
  <2>4. \A j \in DOMAIN c.args : xs[j] \in Safe(C)
    <3>1. ASSUME NEW j \in DOMAIN c.args PROVE xs[j] \in Safe(C)
      <4>1. From(c.args[j], k + 1, m)
        BY DEF GoodCall
      <4>2. CASE c.args[j] \in -m .. -1
        <5>1. -c.args[j] \in 1 .. m /\ xs[j] = operands[-c.args[j]]
          BY <4>2
        <5> QED BY <2>2, <5>1 DEF AreOperands
      <4>3. CASE c.args[j] \in 1 .. k
        <5>1. xs[j] = so.ids[c.args[j]]
          BY <4>3
        <5> QED BY <2>1, <4>3, <5>1
      <4> QED BY <4>1, <4>2, <4>3 DEF From
    <3> QED BY <3>1
  <2> HIDE DEF C, xs
  <2>5. GoodAnswer(C, a) /\ (c.fn \in SureCalls => GoodResult(C, a))
    BY <2>1, <2>4, PerformGood DEF GoodCall, C
  <2> HIDE DEF a
  <2>6. WF(a.b) /\ Extends(C, a.b) /\ (a.id = 0 \/ a.id \in Safe(a.b)) /\ (c.fn \in SureCalls => a.id \in Safe(a.b))
    BY <2>5 DEF GoodAnswer, GoodResult
  <2>7. Extends(B, a.b) /\ Safe(C) \subseteq Safe(a.b)
    BY <2>1, <2>6, WFFacts, ExtendsOn, KeepsSafe DEF Extends
  <2>8. IsSeq(ids) /\ Len(ids) = k + 1 /\ ids[k + 1] = a.id /\ \A j \in 1 .. k : ids[j] = so.ids[j]
    BY <2>1, Appended
  <2> HIDE DEF ids
  <2>9. CASE a.id \in Safe(a.b)
    <3>1. \A j \in 1 .. k + 1 : ids[j] \in Safe(a.b)
      BY <2>1, <2>7, <2>8, <2>9
    <3>2. SureRun(B, k + 1, more)
      BY <2>6, <2>7, <2>8, <3>1 DEF SureRun
    <3> QED BY <2>3, <3>2
  <2>10. CASE a.id = 0 /\ c.fn \notin SureCalls
    <3>1. StoppedRun(B, more)
      BY <2>6, <2>7, <2>8, <2>10 DEF StoppedRun
    <3> QED BY <2>3, <2>10, <3>1
  <2> QED BY <2>6, <2>9, <2>10
<1> QED BY <1>1, <1>2

RunBody(f, B, t, operands, script, k) ==
  IF k = 0 THEN [b |-> B, ids |-> <<>>] ELSE Performed(f[k - 1], t, operands, script[k])
IsRun(f, B, t, operands, script) == f = [k \in 0 .. Len(script) |-> RunBody(f, B, t, operands, script, k)]

LEMMA RunExists ==
  ASSUME NEW B, NEW t, NEW operands, NEW script, Len(script) \in Nat
  PROVE  \E f : IsRun(f, B, t, operands, script)
<1> DEFINE n == Len(script)
           Body(f, k) == RunBody(f, B, t, operands, script, k)
           Good(f, m) == f = [k \in 0 .. n |-> f[k]] /\ \A k \in 0 .. n : k <= m => f[k] = Body(f, k)
           U == {m \in Nat : \E f : Good(f, m)}
<1>1. n \in Nat
  OBVIOUS
<1>2. ASSUME NEW k \in 0 .. n, NEW f, NEW g, \A d \in 0 .. n : d < k => f[d] = g[d]
      PROVE  Body(f, k) = Body(g, k)
  <2>1. CASE k = 0
    BY <2>1 DEF RunBody
  <2>2. CASE k # 0
    <3>1. k - 1 \in 0 .. n /\ k - 1 < k
      BY <1>1, <2>2
    <3>2. f[k - 1] = g[k - 1]
      BY <1>2, <3>1
    <3> QED BY <3>2 DEF RunBody
  <2> QED BY <2>1, <2>2
<1>3. 0 \in U
  <2> DEFINE g == [k \in 0 .. n |-> [b |-> B, ids |-> <<>>]]
  <2>1. g[0] = Body(g, 0)
    BY <1>1 DEF RunBody
  <2> HIDE DEF Body
  <2>2. Good(g, 0)
    BY <1>1, <2>1
  <2> HIDE DEF Good
  <2> QED BY <2>2
<1> HIDE DEF n, Body
<1>4. ASSUME NEW m \in Nat, m \in U
      PROVE  m + 1 \in U
  <2>1. PICK f : Good(f, m)
    BY <1>4
  <2>2. PICK g : g = [k \in 0 .. n |-> Body(f, k)]
    OBVIOUS
  <2>3. ASSUME NEW k \in 0 .. n, k <= m PROVE g[k] = f[k]
    BY <2>1, <2>2, <2>3
  <2>4. ASSUME NEW k \in 0 .. n, k <= m + 1 PROVE g[k] = Body(g, k)
    <3>1. \A d \in 0 .. n : d < k => g[d] = f[d]
      BY <1>1, <2>3, <2>4
    <3>2. Body(g, k) = Body(f, k)
      BY <1>2, <3>1
    <3> QED BY <2>2, <3>2
  <2>5. Good(g, m + 1)
    BY <2>2, <2>4
  <2> HIDE DEF Good
  <2> QED BY <2>5
<1>5. n \in U
  <2> HIDE DEF U
  <2> QED BY <1>1, <1>3, <1>4, NaturalInduction
<1>6. PICK f : Good(f, n)
  BY <1>5
<1>7. f = [k \in 0 .. n |-> Body(f, k)]
  <2>1. ASSUME NEW k \in 0 .. n PROVE f[k] = Body(f, k)
    BY <1>1, <1>6
  <2> QED BY <1>6, <2>1
<1> QED BY <1>7 DEF IsRun, Body, n

LEMMA RunGood ==
  ASSUME NEW B, WF(B), NEW t, NEW m \in Nat, NEW operands, AreOperands(B, operands, m), NEW script, IsScript(script, m)
  PROVE  /\ GoodAnswer(B, Run(B, t, operands, script))
         /\ (\A k \in 1 .. Len(script) : script[k].fn \in SureCalls) => GoodResult(B, Run(B, t, operands, script))
<1> DEFINE n == Len(script)
           sure == \A k \in 1 .. Len(script) : script[k].fn \in SureCalls
           run[k \in 0 .. Len(script)] ==
             IF k = 0 THEN [b |-> B, ids |-> <<>>] ELSE Performed(run[k - 1], t, operands, script[k])
<1>1. n \in Nat /\ n > 0 /\ \A k \in 1 .. n : GoodCall(script[k], k, m)
  BY AnySequence DEF IsScript
<1>2. IsRun(run, B, t, operands, script)
  <2>1. \E f : IsRun(f, B, t, operands, script)
    BY <1>1, RunExists
  <2> QED BY Zenon, <2>1 DEF IsRun, RunBody
<1>3. Run(B, t, operands, script) = LastOf(run[n])
  BY Zenon DEF Run
<1> HIDE DEF run
<1>4. run[0] = [b |-> B, ids |-> <<>>] /\ \A k \in 1 .. n : run[k] = Performed(run[k - 1], t, operands, script[k])
  BY <1>1, <1>2 DEF IsRun, RunBody
<1> DEFINE U == {k \in Nat : k <= n => SureRun(B, k, run[k]) \/ (StoppedRun(B, run[k]) /\ ~sure)}
<1>5. 0 \in U
  <2>1. SureRun(B, 0, run[0])
    BY <1>4, Short, ExtendsSelf DEF SureRun
  <2> QED BY <2>1
<1>6. ASSUME NEW k \in Nat, k \in U PROVE k + 1 \in U
  <2> SUFFICES ASSUME k + 1 <= n
               PROVE  SureRun(B, k + 1, run[k + 1]) \/ (StoppedRun(B, run[k + 1]) /\ ~sure)
    OBVIOUS
  <2>1. k + 1 \in 1 .. n /\ (k + 1) - 1 = k /\ k <= n
    BY <1>1
  <2>2. run[k + 1] = Performed(run[k], t, operands, script[k + 1]) /\ GoodCall(script[k + 1], k + 1, m)
    BY <1>1, <1>4, <2>1
  <2>3. SureRun(B, k, run[k]) \/ (StoppedRun(B, run[k]) /\ ~sure)
    BY <1>6, <2>1
  <2>4. script[k + 1].fn \notin SureCalls => ~sure
    BY <2>1
  <2> HIDE DEF sure, n
  <2> QED BY <2>2, <2>3, <2>4, PerformedGood
<1>7. SureRun(B, n, run[n]) \/ (StoppedRun(B, run[n]) /\ ~sure)
  <2> HIDE DEF U, sure
  <2>1. n \in U
    BY <1>1, <1>5, <1>6, NaturalInduction
  <2> QED BY <2>1 DEF U
<1> DEFINE a == LastOf(run[n])
<1>8. a = [b |-> run[n].b, id |-> run[n].ids[Len(run[n].ids)]]
  BY DEF LastOf, Answer
<1>9. IsAnswer(a) /\ a.b = run[n].b /\ a.id = run[n].ids[Len(run[n].ids)]
  BY <1>8 DEF IsAnswer
<1> HIDE DEF a, sure
<1>10. CASE SureRun(B, n, run[n])
  <2>1. GoodResult(B, a)
    BY <1>1, <1>9, <1>10 DEF GoodResult, SureRun
  <2> QED BY <1>3, <2>1, ResultAnswers DEF a
<1>11. CASE StoppedRun(B, run[n]) /\ ~sure
  <2>1. GoodAnswer(B, a)
    BY <1>9, <1>11 DEF GoodAnswer, StoppedRun
  <2> QED BY <1>3, <1>11, <2>1 DEF a, sure
<1> QED BY <1>7, <1>10, <1>11

\* The calls a script is written with, and scripts of three to eight calls.
LEMMA ScriptCalls ==
  ASSUME NEW k \in Nat, NEW m \in Nat
  PROVE  /\ \A n : GoodCall(InCon(n), k, m)
         /\ \A op, flag, l, r : From(l, k, m) /\ From(r, k, m) => GoodCall(InArith(op, flag, l, r), k, m)
         /\ \A op, x : From(x, k, m) => GoodCall(InUnary(op, x), k, m)
         /\ \A op, flag, l, r : From(l, k, m) /\ From(r, k, m) => GoodCall(InCompare(op, flag, l, r), k, m)
         /\ \A op, l, r : op \in LogicOps /\ From(l, k, m) /\ From(r, k, m) => GoodCall(InLogic(op, l, r), k, m)
         /\ \A p : From(p, k, m) => GoodCall(InNot(p), k, m)
         /\ \A c, x, y : From(c, k, m) /\ From(x, k, m) /\ From(y, k, m) => GoodCall(InSelect(c, x, y), k, m)
<1>1. ASSUME NEW n PROVE GoodCall(InCon(n), k, m)
  BY DEF GoodCall, Callable, InCon, Inner
<1>2. ASSUME NEW op, NEW flag, NEW l, NEW r, From(l, k, m), From(r, k, m)
      PROVE  GoodCall(InArith(op, flag, l, r), k, m) /\ GoodCall(InCompare(op, flag, l, r), k, m)
  BY <1>2 DEF GoodCall, Callable, InArith, InCompare, Inner
<1>3. ASSUME NEW op, NEW x, From(x, k, m) PROVE GoodCall(InUnary(op, x), k, m) /\ GoodCall(InNot(x), k, m)
  BY <1>3 DEF GoodCall, Callable, InUnary, InNot, Inner
<1>4. ASSUME NEW op \in LogicOps, NEW l, NEW r, From(l, k, m), From(r, k, m) PROVE GoodCall(InLogic(op, l, r), k, m)
  BY <1>4 DEF GoodCall, Callable, InLogic, Inner
<1>5. ASSUME NEW c, NEW x, NEW y, From(c, k, m), From(x, k, m), From(y, k, m) PROVE GoodCall(InSelect(c, x, y), k, m)
  BY <1>5 DEF GoodCall, Callable, InSelect, Inner
<1> QED BY <1>1, <1>2, <1>3, <1>4, <1>5

LEMMA ScriptLengths ==
  ASSUME NEW m
  PROVE  /\ \A za, zb, zc : GoodCall(za, 1, m) /\ GoodCall(zb, 2, m) /\ GoodCall(zc, 3, m)
              => IsScript(<<za, zb, zc>>, m)
         /\ \A za, zb, zc, zd : GoodCall(za, 1, m) /\ GoodCall(zb, 2, m) /\ GoodCall(zc, 3, m) /\ GoodCall(zd, 4, m)
              => IsScript(<<za, zb, zc, zd>>, m)
         /\ \A za, zb, zc, zd, ze : GoodCall(za, 1, m) /\ GoodCall(zb, 2, m) /\ GoodCall(zc, 3, m) /\ GoodCall(zd, 4, m) /\ GoodCall(ze, 5, m)
              => IsScript(<<za, zb, zc, zd, ze>>, m)
         /\ \A za, zb, zc, zd, ze, zf : GoodCall(za, 1, m) /\ GoodCall(zb, 2, m) /\ GoodCall(zc, 3, m) /\ GoodCall(zd, 4, m) /\ GoodCall(ze, 5, m) /\ GoodCall(zf, 6, m)
              => IsScript(<<za, zb, zc, zd, ze, zf>>, m)
         /\ \A za, zb, zc, zd, ze, zf, zg : GoodCall(za, 1, m) /\ GoodCall(zb, 2, m) /\ GoodCall(zc, 3, m) /\ GoodCall(zd, 4, m) /\ GoodCall(ze, 5, m) /\ GoodCall(zf, 6, m) /\ GoodCall(zg, 7, m)
              => IsScript(<<za, zb, zc, zd, ze, zf, zg>>, m)
         /\ \A za, zb, zc, zd, ze, zf, zg, zh : GoodCall(za, 1, m) /\ GoodCall(zb, 2, m) /\ GoodCall(zc, 3, m) /\ GoodCall(zd, 4, m) /\ GoodCall(ze, 5, m) /\ GoodCall(zf, 6, m) /\ GoodCall(zg, 7, m) /\ GoodCall(zh, 8, m)
              => IsScript(<<za, zb, zc, zd, ze, zf, zg, zh>>, m)
<1>3. ASSUME NEW za, NEW zb, NEW zc,
             GoodCall(za, 1, m), GoodCall(zb, 2, m), GoodCall(zc, 3, m)
      PROVE  IsScript(<<za, zb, zc>>, m)
  <2>1. <<za, zb, zc>> \in Seq({za, zb, zc})
    OBVIOUS
  <2>2. IsSeq(<<za, zb, zc>>) /\ Len(<<za, zb, zc>>) = 3
    BY <2>1, SequenceOf
  <2>3. \A k \in 1 .. 3 : GoodCall(<<za, zb, zc>>[k], k, m)
    BY <1>3
  <2> QED BY <2>2, <2>3 DEF IsScript
<1>4. ASSUME NEW za, NEW zb, NEW zc, NEW zd,
             GoodCall(za, 1, m), GoodCall(zb, 2, m), GoodCall(zc, 3, m), GoodCall(zd, 4, m)
      PROVE  IsScript(<<za, zb, zc, zd>>, m)
  <2>1. <<za, zb, zc, zd>> \in Seq({za, zb, zc, zd})
    OBVIOUS
  <2>2. IsSeq(<<za, zb, zc, zd>>) /\ Len(<<za, zb, zc, zd>>) = 4
    BY <2>1, SequenceOf
  <2>3. \A k \in 1 .. 4 : GoodCall(<<za, zb, zc, zd>>[k], k, m)
    BY <1>4
  <2> QED BY <2>2, <2>3 DEF IsScript
<1>5. ASSUME NEW za, NEW zb, NEW zc, NEW zd, NEW ze,
             GoodCall(za, 1, m), GoodCall(zb, 2, m), GoodCall(zc, 3, m), GoodCall(zd, 4, m), GoodCall(ze, 5, m)
      PROVE  IsScript(<<za, zb, zc, zd, ze>>, m)
  <2>1. <<za, zb, zc, zd, ze>> \in Seq({za, zb, zc, zd, ze})
    OBVIOUS
  <2>2. IsSeq(<<za, zb, zc, zd, ze>>) /\ Len(<<za, zb, zc, zd, ze>>) = 5
    BY <2>1, SequenceOf
  <2>3. \A k \in 1 .. 5 : GoodCall(<<za, zb, zc, zd, ze>>[k], k, m)
    BY <1>5
  <2> QED BY <2>2, <2>3 DEF IsScript
<1>6. ASSUME NEW za, NEW zb, NEW zc, NEW zd, NEW ze, NEW zf,
             GoodCall(za, 1, m), GoodCall(zb, 2, m), GoodCall(zc, 3, m), GoodCall(zd, 4, m), GoodCall(ze, 5, m), GoodCall(zf, 6, m)
      PROVE  IsScript(<<za, zb, zc, zd, ze, zf>>, m)
  <2>1. <<za, zb, zc, zd, ze, zf>> \in Seq({za, zb, zc, zd, ze, zf})
    OBVIOUS
  <2>2. IsSeq(<<za, zb, zc, zd, ze, zf>>) /\ Len(<<za, zb, zc, zd, ze, zf>>) = 6
    BY <2>1, SequenceOf
  <2>3. \A k \in 1 .. 6 : GoodCall(<<za, zb, zc, zd, ze, zf>>[k], k, m)
    BY <1>6
  <2> QED BY <2>2, <2>3 DEF IsScript
<1>7. ASSUME NEW za, NEW zb, NEW zc, NEW zd, NEW ze, NEW zf, NEW zg,
             GoodCall(za, 1, m), GoodCall(zb, 2, m), GoodCall(zc, 3, m), GoodCall(zd, 4, m), GoodCall(ze, 5, m), GoodCall(zf, 6, m), GoodCall(zg, 7, m)
      PROVE  IsScript(<<za, zb, zc, zd, ze, zf, zg>>, m)
  <2>1. <<za, zb, zc, zd, ze, zf, zg>> \in Seq({za, zb, zc, zd, ze, zf, zg})
    OBVIOUS
  <2>2. IsSeq(<<za, zb, zc, zd, ze, zf, zg>>) /\ Len(<<za, zb, zc, zd, ze, zf, zg>>) = 7
    BY <2>1, SequenceOf
  <2>3. \A k \in 1 .. 7 : GoodCall(<<za, zb, zc, zd, ze, zf, zg>>[k], k, m)
    BY <1>7
  <2> QED BY <2>2, <2>3 DEF IsScript
<1>8. ASSUME NEW za, NEW zb, NEW zc, NEW zd, NEW ze, NEW zf, NEW zg, NEW zh,
             GoodCall(za, 1, m), GoodCall(zb, 2, m), GoodCall(zc, 3, m), GoodCall(zd, 4, m), GoodCall(ze, 5, m), GoodCall(zf, 6, m), GoodCall(zg, 7, m), GoodCall(zh, 8, m)
      PROVE  IsScript(<<za, zb, zc, zd, ze, zf, zg, zh>>, m)
  <2>1. <<za, zb, zc, zd, ze, zf, zg, zh>> \in Seq({za, zb, zc, zd, ze, zf, zg, zh})
    OBVIOUS
  <2>2. IsSeq(<<za, zb, zc, zd, ze, zf, zg, zh>>) /\ Len(<<za, zb, zc, zd, ze, zf, zg, zh>>) = 8
    BY <2>1, SequenceOf
  <2>3. \A k \in 1 .. 8 : GoodCall(<<za, zb, zc, zd, ze, zf, zg, zh>>[k], k, m)
    BY <1>8
  <2> QED BY <2>2, <2>3 DEF IsScript
<1> QED BY <1>3, <1>4, <1>5, <1>6, <1>7, <1>8

LEMMA SelectPredicateGood ==
  ASSUME NEW B, WF(B), NEW c \in Safe(B), NEW x \in Safe(B), NEW y \in Safe(B)
  PROVE  GoodResult(B, SelectPredicate(B, c, x, y))
<1> DEFINE s == SelectStep("I1", c, x, y)
           script == <<InLogic("And", -1, -2), InNot(-1), InLogic("And", 2, -3), InLogic("Or", 1, 3)>>
           a == Run(B, "I1", <<c, x, y>>, script)
<1>1. IsScript(script, 3)
  <2>1. /\ From(-1, 1, 3) /\ From(-2, 1, 3) /\ From(-1, 2, 3) /\ From(2, 3, 3) /\ From(-3, 3, 3)
        /\ From(1, 4, 3) /\ From(3, 4, 3) /\ "And" \in LogicOps /\ "Or" \in LogicOps
    BY DEF From, LogicOps
  <2>2. /\ GoodCall(InLogic("And", -1, -2), 1, 3) /\ GoodCall(InNot(-1), 2, 3)
        /\ GoodCall(InLogic("And", 2, -3), 3, 3) /\ GoodCall(InLogic("Or", 1, 3), 4, 3)
    BY <2>1, ScriptCalls
  <2> QED BY <2>2, ScriptLengths
<1>2. \A k \in 1 .. Len(script) : script[k].fn \in SureCalls
  <2>1. Len(script) = 4
    BY Short
  <2>3. /\ InLogic("And", -1, -2).fn \in SureCalls /\ InNot(-1).fn \in SureCalls
        /\ InLogic("And", 2, -3).fn \in SureCalls /\ InLogic("Or", 1, 3).fn \in SureCalls
    BY DEF InLogic, InNot, Inner, SureCalls
  <2>2. \A k \in 1 .. 4 : script[k].fn \in SureCalls
    BY <2>3, Short
  <2> QED BY <2>1, <2>2
<1>3. AreOperands(B, <<c, x, y>>, 3)
  BY DEF AreOperands
<1> HIDE DEF script
<1>4. GoodResult(B, a)
  BY <1>1, <1>2, <1>3, RunGood
<1>5. SelectPredicate(B, c, x, y) = IF Known(B, s) # {} THEN Found(B, s) ELSE Create(a.b, s, Use(a.id))
  BY Zenon DEF SelectPredicate, script
<1>6. Known(B, s) # {} => GoodResult(B, Found(B, s))
  BY FoundGood
<1> HIDE DEF a
<1>7. GoodResult(B, Create(a.b, s, Use(a.id)))
  <2>1. WF(a.b) /\ Extends(B, a.b) /\ a.id \in Safe(a.b)
    BY <1>4 DEF GoodResult
  <2>2. Safe(B) \subseteq Safe(a.b)
    BY <2>1, WFFacts, KeepsSafe DEF Extends
  <2>3. Askable(a.b, s) /\ Met(a.b.steps, a.b.tr, a.b.special, s)
    BY <2>2, AskableSteps, NoNeedsStep DEF SelectStep, DemandingKinds
  <2>4. Rewrites(Use(a.id), a.b)
    BY <2>1, UseGood DEF Rewrites, GoodRewrite
  <2> HIDE DEF s
  <2>5. GoodResult(a.b, Create(a.b, s, Use(a.id)))
    BY <2>1, <2>3, <2>4, CreateGood
  <2> QED BY <2>1, <2>5, ResultOn
<1> HIDE DEF s
<1> QED BY <1>5, <1>6, <1>7

\* copysign has two operands, the other helpers one.
LEMMA HelperScripts ==
  ASSUME NEW op \in HelperOps \ {"byteswap"}, NEW t
  PROVE  IsScript(HelperScript(op, t), IF op = "copysign" THEN 2 ELSE 1)
<1> DEFINE w == Width(t)
<1>1. CASE op = "log2_no_zero"
  <2>1. HelperScript(op, t) =
          <<InCon(w - 1), InUnary("Lzcnt", -1), InArith("Sub", "No", 1, 2)>>
    BY Zenon, <1>1 DEF HelperScript
  <2>2. /\ From(-1, 2, 1) /\ From(1, 3, 1) /\ From(2, 3, 1)
    BY DEF From
  <2> HIDE DEF w
  <2>3. /\ GoodCall(InCon(w - 1), 1, 1)
        /\ GoodCall(InUnary("Lzcnt", -1), 2, 1)
        /\ GoodCall(InArith("Sub", "No", 1, 2), 3, 1)
    BY <2>2, ScriptCalls
  <2> QED BY <1>1, <2>1, <2>3, ScriptLengths
<1>2. CASE op = "log2"
  <2>1. HelperScript(op, t) =
          <<InCon(0), InCompare("NotEqual", "No", -1, 1), InCon(w - 1), InUnary("Lzcnt", -1),
            InArith("Sub", "No", 3, 4), InSelect(2, 5, 1)>>
    BY Zenon, <1>2 DEF HelperScript
  <2>2. /\ From(-1, 2, 1) /\ From(1, 2, 1) /\ From(-1, 4, 1) /\ From(3, 5, 1) /\ From(4, 5, 1)
        /\ From(1, 6, 1) /\ From(2, 6, 1) /\ From(5, 6, 1)
    BY DEF From
  <2> HIDE DEF w
  <2>3. /\ GoodCall(InCon(0), 1, 1)
        /\ GoodCall(InCompare("NotEqual", "No", -1, 1), 2, 1)
        /\ GoodCall(InCon(w - 1), 3, 1)
        /\ GoodCall(InUnary("Lzcnt", -1), 4, 1)
        /\ GoodCall(InArith("Sub", "No", 3, 4), 5, 1)
        /\ GoodCall(InSelect(2, 5, 1), 6, 1)
    BY <2>2, ScriptCalls
  <2> QED BY <1>2, <2>1, <2>3, ScriptLengths
<1>3. CASE op = "has_single_bit"
  <2>1. HelperScript(op, t) =
          <<InCon(1), InArith("Sub", "No", -1, 1), InArith("And", "No", -1, 2), InCon(0),
            InCompare("Equal", "No", 3, 4)>>
    BY Zenon, <1>3 DEF HelperScript
  <2>2. /\ From(-1, 2, 1) /\ From(1, 2, 1) /\ From(-1, 3, 1) /\ From(2, 3, 1) /\ From(3, 5, 1)
        /\ From(4, 5, 1)
    BY DEF From
  <2> HIDE DEF w
  <2>3. /\ GoodCall(InCon(1), 1, 1)
        /\ GoodCall(InArith("Sub", "No", -1, 1), 2, 1)
        /\ GoodCall(InArith("And", "No", -1, 2), 3, 1)
        /\ GoodCall(InCon(0), 4, 1)
        /\ GoodCall(InCompare("Equal", "No", 3, 4), 5, 1)
    BY <2>2, ScriptCalls
  <2> QED BY <1>3, <2>1, <2>3, ScriptLengths
<1>4. CASE op = "bit_floor"
  <2>1. HelperScript(op, t) =
          <<InCon(w - 1), InUnary("Lzcnt", -1), InArith("Sub", "No", 1, 2), InCon(1),
            InArith("ShiftLeftLogical", "ShiftWraparound", 4, 3), InCon(0), InCompare("NotEqual", "No", -1, 6),
            InSelect(7, 5, 6)>>
    BY Zenon, <1>4 DEF HelperScript
  <2>2. /\ From(-1, 2, 1) /\ From(1, 3, 1) /\ From(2, 3, 1) /\ From(3, 5, 1) /\ From(4, 5, 1)
        /\ From(-1, 7, 1) /\ From(6, 7, 1) /\ From(5, 8, 1) /\ From(6, 8, 1) /\ From(7, 8, 1)
    BY DEF From
  <2> HIDE DEF w
  <2>3. /\ GoodCall(InCon(w - 1), 1, 1)
        /\ GoodCall(InUnary("Lzcnt", -1), 2, 1)
        /\ GoodCall(InArith("Sub", "No", 1, 2), 3, 1)
        /\ GoodCall(InCon(1), 4, 1)
        /\ GoodCall(InArith("ShiftLeftLogical", "ShiftWraparound", 4, 3), 5, 1)
        /\ GoodCall(InCon(0), 6, 1)
        /\ GoodCall(InCompare("NotEqual", "No", -1, 6), 7, 1)
        /\ GoodCall(InSelect(7, 5, 6), 8, 1)
    BY <2>2, ScriptCalls
  <2> QED BY <1>4, <2>1, <2>3, ScriptLengths
<1>5. CASE op = "bit_ceil"
  <2>1. HelperScript(op, t) =
          <<InCon(w), InCon(1), InArith("Sub", "No", -1, 2), InUnary("Lzcnt", 3), InArith("Sub", "No", 1, 4),
            InCompare("LessEqual", "Unsigned", -1, 2), InArith("ShiftLeftLogical", "ShiftWraparound", 2, 5),
            InSelect(6, 2, 7)>>
    BY Zenon, <1>5 DEF HelperScript
  <2>2. /\ From(-1, 3, 1) /\ From(2, 3, 1) /\ From(3, 4, 1) /\ From(1, 5, 1) /\ From(4, 5, 1)
        /\ From(-1, 6, 1) /\ From(2, 6, 1) /\ From(2, 7, 1) /\ From(5, 7, 1) /\ From(2, 8, 1)
        /\ From(6, 8, 1) /\ From(7, 8, 1)
    BY DEF From
  <2> HIDE DEF w
  <2>3. /\ GoodCall(InCon(w), 1, 1)
        /\ GoodCall(InCon(1), 2, 1)
        /\ GoodCall(InArith("Sub", "No", -1, 2), 3, 1)
        /\ GoodCall(InUnary("Lzcnt", 3), 4, 1)
        /\ GoodCall(InArith("Sub", "No", 1, 4), 5, 1)
        /\ GoodCall(InCompare("LessEqual", "Unsigned", -1, 2), 6, 1)
        /\ GoodCall(InArith("ShiftLeftLogical", "ShiftWraparound", 2, 5), 7, 1)
        /\ GoodCall(InSelect(6, 2, 7), 8, 1)
    BY <2>2, ScriptCalls
  <2> QED BY <1>5, <2>1, <2>3, ScriptLengths
<1>6. CASE op = "sign"
  <2>1. HelperScript(op, t) =
          <<InCon(0), InCompare("NotEqual", "No", -1, 1), InCon(w - 1),
            InArith("ShiftRightArith", "ShiftWraparound", -1, 3), InCon(1), InArith("Or", "No", 4, 5),
            InSelect(2, 6, 1)>>
    BY Zenon, <1>6 DEF HelperScript
  <2>2. /\ From(-1, 2, 1) /\ From(1, 2, 1) /\ From(-1, 4, 1) /\ From(3, 4, 1) /\ From(4, 6, 1)
        /\ From(5, 6, 1) /\ From(1, 7, 1) /\ From(2, 7, 1) /\ From(6, 7, 1)
    BY DEF From
  <2> HIDE DEF w
  <2>3. /\ GoodCall(InCon(0), 1, 1)
        /\ GoodCall(InCompare("NotEqual", "No", -1, 1), 2, 1)
        /\ GoodCall(InCon(w - 1), 3, 1)
        /\ GoodCall(InArith("ShiftRightArith", "ShiftWraparound", -1, 3), 4, 1)
        /\ GoodCall(InCon(1), 5, 1)
        /\ GoodCall(InArith("Or", "No", 4, 5), 6, 1)
        /\ GoodCall(InSelect(2, 6, 1), 7, 1)
    BY <2>2, ScriptCalls
  <2> QED BY <1>6, <2>1, <2>3, ScriptLengths
<1>7. CASE op = "copysign"
  <2>1. HelperScript(op, t) =
          <<InCon(0), InCompare("NotEqual", "No", -1, 1), InCompare("Less", "No", -1, 1),
            InUnary("Negate", -2), InSelect(3, 4, -2), InSelect(2, 5, 1)>>
    BY Zenon, <1>7 DEF HelperScript
  <2>2. /\ From(-1, 2, 2) /\ From(1, 2, 2) /\ From(-1, 3, 2) /\ From(1, 3, 2) /\ From(-2, 4, 2)
        /\ From(-2, 5, 2) /\ From(3, 5, 2) /\ From(4, 5, 2) /\ From(1, 6, 2) /\ From(2, 6, 2)
        /\ From(5, 6, 2)
    BY DEF From
  <2> HIDE DEF w
  <2>3. /\ GoodCall(InCon(0), 1, 2)
        /\ GoodCall(InCompare("NotEqual", "No", -1, 1), 2, 2)
        /\ GoodCall(InCompare("Less", "No", -1, 1), 3, 2)
        /\ GoodCall(InUnary("Negate", -2), 4, 2)
        /\ GoodCall(InSelect(3, 4, -2), 5, 2)
        /\ GoodCall(InSelect(2, 5, 1), 6, 2)
    BY <2>2, ScriptCalls
  <2> QED BY <1>7, <2>1, <2>3, ScriptLengths
<1> QED BY <1>1, <1>2, <1>3, <1>4, <1>5, <1>6, <1>7 DEF HelperOps

LEMMA HelperGood ==
  ASSUME NEW B, WF(B), NEW op \in HelperOps, NEW xs, IsSeq(xs), Len(xs) = IF op = "copysign" THEN 2 ELSE 1,
         \A j \in 1 .. Len(xs) : xs[j] \in Safe(B)
  PROVE  GoodAnswer(B, Helper(B, op, xs))
<1>1. CASE op = "byteswap"
  <2>1. xs[1] \in Safe(B)
    BY <1>1
  <2> QED BY <1>1, <2>1, ReversedGood DEF Helper
<1>2. CASE op # "byteswap"
  <2> DEFINE m == IF op = "copysign" THEN 2 ELSE 1
             t == B.steps[xs[1]].dtype
  <2>1. m \in Nat /\ AreOperands(B, xs, m)
    BY DEF AreOperands
  <2>2. IsScript(HelperScript(op, t), m)
    BY <1>2, HelperScripts
  <2> HIDE DEF m, t
  <2>3. GoodAnswer(B, Run(B, t, xs, HelperScript(op, t)))
    BY <2>1, <2>2, RunGood
  <2> QED BY <1>2, <2>3 DEF Helper, t
<1> QED BY <1>1, <1>2

(***************************************************************************)
(* Outputs.                                                                 *)
(***************************************************************************)
LEMMA OutputOn ==
  ASSUME NEW B, WF(B), NEW C, WF(C), NEW a, GoodOutput(C, a)
  PROVE  /\ Extends(B, C) => GoodOutput(B, a)
         /\ Keeps(B, C) /\ a.id # 0 => GoodOutput(B, a)
<1>1. WF(a.b) /\ Keeps(C, a.b) /\ IsAnswer(a) /\ a.id \in 0 .. Len(a.b.steps) /\ (a.id = 0 => SameOutputs(C, a.b))
  BY DEF GoodOutput
<1>2. Keeps(B, C) => Keeps(B, a.b)
  BY <1>1, WFFacts, KeepsOn
<1> QED BY <1>1, <1>2 DEF GoodOutput, Extends, SameOutputs

\* A mark, a load or an expression before the output, and then the call is refused.
LEMMA RefusedOutput ==
  ASSUME NEW B, WF(B), NEW C, WF(C), Extends(B, C)
  PROVE  GoodOutput(B, Refused(C))
BY RefusedGood, OutputOn

LEMMA WrittenStays ==
  ASSUME NEW B, NEW C, Keeps(B, C), NEW a, WrittenArg(B, a)
  PROVE  WrittenArg(C, a)
BY DEF Keeps, WrittenArg

\* Step s, an output of a kind over n operands in T, writes through argument dst.
IsRoot(s, T, kind, dtype, op, n, dst) ==
  /\ IsStep(s) /\ Shaped(s) /\ s.kind = kind /\ s.dtype = dtype /\ s.op = op /\ s.val[1] = dst
  /\ Len(s.args) = n /\ \A j \in 1 .. Len(s.args) : s.args[j] \in T

LEMMA RootStepGood ==
  ASSUME NEW B, NEW kind, NEW dtype, NEW op, NEW operands, IsSeq(operands), NEW cond, NEW dst,
         kind \notin {"IntCast", "FloatCast", "PredicateNot", "ArithBinary", "Compare", "PredicateBinary"},
         \A j \in 1 .. Len(operands) : operands[j] \in Safe(B), cond = 0 \/ cond \in Safe(B)
  PROVE  IsRoot(RootStep(kind, dtype, op, operands, cond, dst), Safe(B), kind, dtype, op,
                IF cond = 0 THEN Len(operands) ELSE Len(operands) + 1, dst)
<1> DEFINE args == IF cond = 0 THEN operands ELSE Append(operands, cond)
           s == RootStep(kind, dtype, op, operands, cond, dst)
<1>1. Len(operands) \in Nat
  BY AnySequence
<1>2. IsSeq(args) /\ Len(args) = (IF cond = 0 THEN Len(operands) ELSE Len(operands) + 1)
      /\ \A j \in 1 .. Len(args) : args[j] \in Safe(B)
  <2>1. CASE cond = 0
    BY <2>1
  <2>2. CASE cond # 0
    <3>1. /\ IsSeq(Append(operands, cond)) /\ Len(Append(operands, cond)) = Len(operands) + 1
          /\ \A i \in 1 .. Len(operands) : Append(operands, cond)[i] = operands[i]
          /\ Append(operands, cond)[Len(operands) + 1] = cond
      BY Appended
    <3> DEFINE m == Append(operands, cond)
    <3> HIDE DEF m
    <3>2. \A j \in 1 .. Len(operands) + 1 : m[j] \in Safe(B)
      BY <1>1, <2>2, <3>1 DEF m
    <3> QED BY <2>2, <3>1, <3>2 DEF m
  <2> QED BY <2>1, <2>2
<1>3. s = Step(kind, dtype, op, "No", args, <<dst>>)
  BY DEF RootStep
<1> HIDE DEF args, s
<1>4. s.kind = kind /\ s.dtype = dtype /\ s.op = op /\ s.args = args /\ s.val = <<dst>> /\ IsStep(s)
  BY <1>2, <1>3, StepFields
<1>5. Shaped(s) /\ s.val[1] = dst
  BY <1>4 DEF Shaped
<1> QED BY <1>2, <1>4, <1>5 DEF s, IsRoot

LEMMA BuilderRooted ==
  ASSUME NEW B, WF(B), NEW steps, NEW reverse, NEW roots
  PROVE  [B EXCEPT !.steps = steps, !.reverse = reverse, !.roots = roots] =
           Builder(steps, B.remembered, reverse, B.special, B.scalarOnly, B.args, B.safety, B.accs, roots, B.tr)
<1> DEFINE C == [B EXCEPT !.steps = steps, !.reverse = reverse, !.roots = roots]
<1>1. C = [B EXCEPT !.steps = steps, !.reverse = reverse, !.roots = roots] /\ IsBuilder(B)
  BY DEF WF
<1> HIDE DEF C
<1>2. C = Builder(steps, B.remembered, reverse, B.special, B.scalarOnly, B.args, B.safety, B.accs, roots, B.tr)
  BY <1>1 DEF IsBuilder, Builder
<1> QED BY <1>2 DEF C

LEMMA AddRootIs ==
  ASSUME NEW B, WF(B), NEW s
  PROVE  AddRoot(B, s) =
           Answer(Builder(Append(B.steps, s), B.remembered, Append(B.reverse, 0), B.special, B.scalarOnly, B.args,
                          B.safety, B.accs, Append(B.roots, Len(B.steps) + 1), B.tr), Len(B.steps) + 1)
<1>1. AddRoot(B, s) = Answer([B EXCEPT !.steps = Append(B.steps, s), !.reverse = Append(B.reverse, 0),
                                       !.roots = Append(B.roots, Len(B.steps) + 1)], Len(B.steps) + 1)
  BY Zenon DEF AddRoot
<1> QED BY <1>1, BuilderRooted

\* What can be added as an output.
Rootable(B, s) ==
  /\ IsStep(s) /\ Shaped(s) /\ \A j \in 1 .. Len(s.args) : s.args[j] \in Safe(B)
  /\ s.kind \in WriteKinds => WrittenArg(B, s.val[1])

LEMMA AddRootGood ==
  ASSUME NEW B, WF(B), NEW s, Rootable(B, s), Met(B.steps, B.tr, B.special, s)
  PROVE  GoodOutput(B, AddRoot(B, s))
<1> DEFINE L == Len(B.steps)
           key == L + 1
           steps == Append(B.steps, s)
           reverse == Append(B.reverse, 0)
           roots == Append(B.roots, key)
           C == Builder(steps, B.remembered, reverse, B.special, B.scalarOnly, B.args, B.safety, B.accs, roots, B.tr)
<1>1. AddRoot(B, s) = [b |-> C, id |-> key]
  BY AddRootIs DEF Answer
<1>2. /\ L \in Nat /\ IsSeq(B.steps) /\ IsSeq(B.reverse) /\ IsSeq(B.roots) /\ Len(B.reverse) = L
      /\ Safe(B) \subseteq 1 .. L /\ Safe(B) \in SUBSET (Nat \ {0}) /\ Len(B.roots) \in Nat
  BY WFFacts DEF WF, ExpressionsOK
<1>3. /\ IsSeq(steps) /\ Len(steps) = key /\ steps[key] = s /\ \A i \in 1 .. L : steps[i] = B.steps[i]
      /\ IsSeq(reverse) /\ Len(reverse) = key /\ reverse[key] = 0 /\ \A i \in 1 .. L : reverse[i] = B.reverse[i]
  BY <1>2, Appended
<1>4. /\ IsSeq(roots) /\ Len(roots) = Len(B.roots) + 1 /\ roots[Len(B.roots) + 1] = key
      /\ \A i \in 1 .. Len(B.roots) : roots[i] = B.roots[i]
  BY <1>2, Appended
<1> HIDE DEF steps, reverse, roots, L
<1>5. /\ IsBuilder(C) /\ C.tr = B.tr /\ C.steps = steps /\ C.remembered = B.remembered /\ C.reverse = reverse
      /\ C.special = B.special /\ C.args = B.args /\ C.safety = B.safety /\ C.accs = B.accs /\ C.roots = roots
  BY DEF Builder, IsBuilder
<1> HIDE DEF C
<1>6. L <= key /\ key \in 1 .. key /\ key \in Nat
  BY <1>2
<1>7. Longer(B, C)
  BY <1>3, <1>5, <1>6 DEF Longer, L
<1>8. Safe(B) \subseteq Safe(C)
  BY <1>7, LongerKeeps
<1>9. key \in Safe(C)
  <2>1. Shaped(s) /\ \A j \in 1 .. Len(s.args) : s.args[j] \in 1 .. Len(B.steps)
    BY <1>2 DEF Rootable, L
  <2>2. \A i \in 1 .. Len(B.steps) : steps[i] = B.steps[i]
    BY <1>3 DEF L
  <2>3. Met(steps, B.tr, B.special, s)
    BY <2>1, <2>2, MetKept
  <2> QED BY <1>3, <1>5, <1>6, <2>3 DEF Safe, SafeIn
<1>10. NewOK(B, C, key)
  <2>1. \A j \in 1 .. Len(s.args) : s.args[j] \in Safe(C) /\ s.args[j] < key
    BY <1>2, <1>8 DEF Rootable
  <2> QED BY <1>3, <1>5, <2>1 DEF NewOK, Rootable
<1>11. \A i \in Len(B.steps) + 1 .. Len(C.steps) : NewOK(B, C, i)
  <2>1. \A i \in key .. key : i = key
    BY <1>6
  <2> QED BY <1>3, <1>5, <1>10, <2>1 DEF L
<1>12. /\ IsSeq(C.reverse) /\ Len(C.reverse) = Len(C.steps)
       /\ \A i \in 1 .. Len(C.steps) : C.reverse[i] \in 0 .. Len(C.steps)
  <2>1. \A i \in 1 .. L : B.reverse[i] \in 0 .. L
    BY DEF WF, ExpressionsOK, L
  <2>2. ASSUME NEW i \in 1 .. key PROVE reverse[i] \in 0 .. key
    <3>1. CASE i = key
      BY <1>2, <1>3, <3>1
    <3>2. CASE i \in 1 .. L
      BY <1>2, <1>3, <2>1, <3>2
    <3> QED BY <1>2, <3>1, <3>2
  <2> QED BY <1>3, <1>5, <2>2
<1>13. IsSeq(C.roots) /\ \A k \in 1 .. Len(C.roots) : C.roots[k] \in Safe(C)
  <2>1. \A k \in 1 .. Len(B.roots) : B.roots[k] \in Safe(B)
    BY DEF WF, OutputsOK
  <2>2. ASSUME NEW k \in 1 .. Len(B.roots) + 1 PROVE roots[k] \in Safe(C)
    BY <1>2, <1>4, <1>8, <1>9, <2>1
  <2> QED BY <1>4, <1>5, <2>2
<1>14. WF(C) /\ Keeps(B, C)
  BY <1>5, <1>7, <1>11, <1>12, <1>13, LongerGood
<1>15. key \in 0 .. Len(C.steps) /\ key # 0
  BY <1>2, <1>3, <1>5
<1> QED BY <1>1, <1>14, <1>15 DEF GoodOutput, IsAnswer

LEMMA AddRootAnnounced ==
  ASSUME NEW B, WF(B), NEW ops, NEW s, Rootable(B, s), Met(B.steps, B.tr, B.special \union ops, s)
  PROVE  GoodOutput(B, Announce(AddRoot(B, s), ops))
<1> DEFINE C == Announce(Answer(B, 0), ops).b
<1>1. Answer(B, 0).b = B /\ IsAnswer(Answer(B, 0))
  BY DEF Answer, IsAnswer
<1>2. Marked(B, C) /\ C.special = B.special \union ops
  BY <1>1, AnnounceGood
<1>3. C = [B EXCEPT !.special = B.special \union ops] /\ IsBuilder(B)
  BY DEF Announce, Answer, WF
<1> HIDE DEF C
<1>4. C = Builder(B.steps, B.remembered, B.reverse, B.special \union ops, B.scalarOnly, B.args, B.safety, B.accs,
                  B.roots, B.tr)
  BY <1>3 DEF IsBuilder, Builder
<1>5. /\ C.steps = B.steps /\ C.remembered = B.remembered /\ C.reverse = B.reverse /\ C.scalarOnly = B.scalarOnly
      /\ C.args = B.args /\ C.safety = B.safety /\ C.accs = B.accs /\ C.roots = B.roots /\ C.tr = B.tr
  BY <1>4 DEF Builder
<1>6. WF(C) /\ Extends(B, C) /\ Safe(B) \subseteq Safe(C)
  BY <1>2 DEF Marked
<1>7. GoodOutput(C, AddRoot(C, s))
  <2>1. Rootable(C, s)
    BY <1>6, WrittenStays DEF Rootable, Extends
  <2> QED BY <1>2, <1>5, <1>6, <2>1, AddRootGood
<1> DEFINE steps == Append(B.steps, s)
           reverse == Append(B.reverse, 0)
           id == Len(B.steps) + 1
           roots == Append(B.roots, id)
<1>8. AddRoot(B, s) = Answer(Builder(steps, B.remembered, reverse, B.special, B.scalarOnly, B.args, B.safety,
                                     B.accs, roots, B.tr), id)
  BY AddRootIs
<1>9. AddRoot(C, s) = Answer(Builder(steps, B.remembered, reverse, B.special \union ops, B.scalarOnly, B.args,
                                     B.safety, B.accs, roots, B.tr), id)
  <2>1. AddRoot(C, s) =
          Answer(Builder(Append(C.steps, s), C.remembered, Append(C.reverse, 0), C.special, C.scalarOnly, C.args,
                         C.safety, C.accs, Append(C.roots, Len(C.steps) + 1), C.tr), Len(C.steps) + 1)
    BY <1>6, AddRootIs
  <2> QED BY <1>2, <1>5, <2>1
<1> HIDE DEF steps, reverse, roots, id
<1>10. Announce(AddRoot(B, s), ops) = AddRoot(C, s)
  <2>1. PICK X : X = Builder(steps, B.remembered, reverse, B.special, B.scalarOnly, B.args, B.safety, B.accs, roots, B.tr)
    OBVIOUS
  <2>2. PICK Y : Y = [X EXCEPT !.special = B.special \union ops]
    OBVIOUS
  <2>3. /\ X.special = B.special
        /\ Y = Builder(steps, B.remembered, reverse, B.special \union ops, B.scalarOnly, B.args, B.safety, B.accs,
                       roots, B.tr)
    BY <2>1, <2>2 DEF Builder
  <2>4. AddRoot(B, s) = [b |-> X, id |-> id] /\ AddRoot(C, s) = [b |-> Y, id |-> id]
    BY <1>8, <1>9, <2>1, <2>3 DEF Answer
  <2>5. Announce([b |-> X, id |-> id], ops) = [b |-> Y, id |-> id]
    BY <2>2, <2>3, AnnounceIs
  <2> QED BY <2>4, <2>5
<1> QED BY <1>6, <1>7, <1>10, OutputOn

LEMMA AccumulatorGood ==
  ASSUME NEW B, WF(B), NEW dtype, NEW dst, WrittenArg(B, dst)
  PROVE  LET C == AddAccumulator(B, dtype, dst)
         IN  WF(C) /\ Keeps(B, C) /\ Safe(B) \subseteq Safe(C) /\ C.steps = B.steps /\ C.special = B.special
<1> DEFINE acc == [dtype |-> dtype, dst |-> dst]
           accs == Append(B.accs, acc)
           C == AddAccumulator(B, dtype, dst)
<1>1. C = [B EXCEPT !.accs = accs] /\ IsBuilder(B)
  BY DEF AddAccumulator, WF
<1>2. IsSeq(B.accs) /\ Len(B.accs) \in Nat /\ Len(B.steps) \in Nat
  BY WFFacts
<1>3. /\ IsSeq(accs) /\ Len(accs) = Len(B.accs) + 1 /\ accs[Len(B.accs) + 1] = acc
      /\ \A k \in 1 .. Len(B.accs) : accs[k] = B.accs[k]
  BY <1>2, Appended
<1>4. acc.dst = dst
  OBVIOUS
<1> HIDE DEF C, accs, acc
<1>5. C = Builder(B.steps, B.remembered, B.reverse, B.special, B.scalarOnly, B.args, B.safety, accs, B.roots, B.tr)
  BY <1>1 DEF IsBuilder, Builder
<1>6. /\ IsBuilder(C) /\ C.tr = B.tr /\ C.steps = B.steps /\ C.remembered = B.remembered /\ C.reverse = B.reverse
      /\ C.special = B.special /\ C.args = B.args /\ C.safety = B.safety /\ C.accs = accs /\ C.roots = B.roots
  BY <1>5 DEF IsBuilder, Builder
<1>7. Safe(C) = Safe(B)
  BY <1>6 DEF Safe
<1>8. Keeps(B, C)
  <2>1. Len(B.steps) <= Len(B.steps)
    BY <1>2
  <2> QED BY <1>6, <2>1 DEF Keeps, Written
<1>9. ExpressionsOK(C)
  BY <1>6, <1>7 DEF WF, ExpressionsOK
<1>10. OutputsOK(C)
  BY <1>3, <1>6, <1>7 DEF WF, OutputsOK
<1>11. AccessesOK(C)
  <2>1. \A a : WrittenArg(B, a) <=> WrittenArg(C, a)
    BY <1>6 DEF WrittenArg, Written
  <2>2. IsArgs(C.args) /\ (C.safety = 0 \/ WrittenArg(C, C.safety))
        /\ \A i \in 1 .. Len(C.steps) : C.steps[i].kind \in WriteKinds => WrittenArg(C, C.steps[i].val[1])
    BY <1>6, <2>1 DEF WF, AccessesOK
  <2>3. ASSUME NEW k \in 1 .. Len(C.accs) PROVE WrittenArg(C, C.accs[k].dst)
    <3>1. CASE k = Len(B.accs) + 1
      BY <1>3, <1>4, <1>6, <2>1, <3>1
    <3>2. CASE k \in 1 .. Len(B.accs)
      <4>1. WrittenArg(B, B.accs[k].dst)
        BY <3>2 DEF WF, AccessesOK
      <4> QED BY <1>3, <1>6, <2>1, <3>2, <4>1
    <3> QED BY <1>2, <1>3, <1>6, <3>1, <3>2
  <2> QED BY <2>2, <2>3 DEF AccessesOK
<1> QED BY <1>6, <1>7, <1>8, <1>9, <1>10, <1>11 DEF WF, C

IsCond(B, cond) == cond = 0 \/ cond \in Safe(B)

LEMMA OptionalGood ==
  ASSUME NEW B, NEW cond, IsCond(B, cond)
  PROVE  IsCond(B, OptionalCond(B, cond))
BY DEF OptionalCond, IsCond

LEMMA MarkedFacts ==
  ASSUME NEW B, WF(B), NEW C, Marked(B, C)
  PROVE  WF(C) /\ Extends(B, C) /\ Keeps(B, C) /\ Safe(B) \subseteq Safe(C) /\ C.steps = B.steps
         /\ Len(C.args) = Len(B.args)
BY DEF Marked, Extends, Keeps

LEMMA OneOperand ==
  ASSUME NEW B, NEW x \in Safe(B)
  PROVE  IsSeq(<<x>>) /\ Len(<<x>>) = 1 /\ \A j \in 1 .. Len(<<x>>) : <<x>>[j] \in Safe(B)
BY Short

\* An output of one value, and a condition when there is one.
LEMMA OneRoot ==
  ASSUME NEW B, NEW x \in Safe(B), NEW cond, IsCond(B, cond), NEW kind, NEW t, NEW op, NEW dst,
         kind \notin {"IntCast", "FloatCast", "PredicateNot", "ArithBinary", "Compare", "PredicateBinary"}
  PROVE  IsRoot(RootStep(kind, t, op, <<x>>, cond, dst), Safe(B), kind, t, op, IF cond = 0 THEN 1 ELSE 2, dst)
<1>1. PICK operands : operands = <<x>>
  OBVIOUS
<1>2. IsSeq(operands) /\ Len(operands) = 1 /\ \A j \in 1 .. Len(operands) : operands[j] \in Safe(B)
  BY <1>1, OneOperand
<1>3. cond = 0 \/ cond \in Safe(B)
  BY DEF IsCond
<1> DEFINE n == IF cond = 0 THEN Len(operands) ELSE Len(operands) + 1
<1>4. IsRoot(RootStep(kind, t, op, operands, cond, dst), Safe(B), kind, t, op, n, dst)
  BY <1>2, <1>3, RootStepGood
<1>5. n = IF cond = 0 THEN 1 ELSE 2
  BY <1>2
<1> HIDE DEF n
<1> QED BY <1>1, <1>4, <1>5

LEMMA StoreGood ==
  ASSUME NEW B, WF(B), NEW x \in Safe(B), NEW t, NEW cond, IsCond(B, cond), NEW dst, WrittenArg(B, dst)
  PROVE  GoodOutput(B, AddRoot(B, RootStep("Store", t, "", <<x>>, cond, dst)))
<1> DEFINE s == RootStep("Store", t, "", <<x>>, cond, dst)
           n == IF cond = 0 THEN 1 ELSE 2
<1>1. IsRoot(s, Safe(B), "Store", t, "", n, dst)
  BY OneRoot
<1> HIDE DEF s, n
<1>2. Rootable(B, s) /\ s.kind = "Store"
  BY <1>1 DEF Rootable, IsRoot
<1>3. Met(B.steps, B.tr, B.special, s)
  BY <1>2, NoNeeds DEF DemandingKinds
<1>4. GoodOutput(B, AddRoot(B, s))
  BY <1>2, <1>3, AddRootGood
<1> QED BY <1>4 DEF s

LEMMA CondStoreValueGood ==
  ASSUME NEW B, WF(B), NEW x \in Safe(B), NEW cond, IsCond(B, cond), NEW dst \in 1 .. Len(B.args)
  PROVE  GoodOutput(B, CondStoreValue(B, x, cond, dst))
<1> DEFINE C == MarkArg(B, dst, "Dst")
           used == OptionalCond(B, cond)
           a == AddRoot(C, RootStep("Store", B.steps[x].dtype, "", <<x>>, used, dst))
<1>1. CondStoreValue(B, x, cond, dst) = Refused(B) \/ CondStoreValue(B, x, cond, dst) = a
  BY DEF CondStoreValue
<1>2. WF(C) /\ Extends(B, C) /\ Safe(B) \subseteq Safe(C) /\ WrittenArg(C, dst)
  BY MarkGood DEF Marked
<1>3. IsCond(B, used)
  BY OptionalGood
<1> HIDE DEF C, used
<1>4. IsCond(C, used) /\ x \in Safe(C)
  BY <1>2, <1>3 DEF IsCond
<1>5. GoodOutput(C, a)
  BY <1>2, <1>4, StoreGood
<1> HIDE DEF a
<1>6. GoodOutput(B, a)
  BY <1>2, <1>5, OutputOn
<1> QED BY <1>1, <1>6, RefusedGood

LEMMA CondStorePredicateGood ==
  ASSUME NEW B, WF(B), NEW x \in Safe(B), NEW cond, IsCond(B, cond), NEW dst \in 1 .. Len(B.args)
  PROVE  GoodOutput(B, CondStorePredicate(B, x, cond, dst))
<1> DEFINE C == MarkArg(B, dst, "Dst")
           old == Load(C, dst, "Unaligned")
           kept == SelectPredicate(old.b, cond, x, old.id)
           new == IF cond = 0 THEN Answer(C, x) ELSE kept
           a == AddRoot(new.b, RootStep("Store", "I1", "", <<new.id>>, 0, dst))
<1>1. CondStorePredicate(B, x, cond, dst) = Refused(B) \/ CondStorePredicate(B, x, cond, dst) = a
  BY DEF CondStorePredicate
<1>2. WF(C) /\ Extends(B, C) /\ Safe(B) \subseteq Safe(C) /\ WrittenArg(C, dst)
  BY MarkGood DEF Marked
<1> HIDE DEF C
<1>3. GoodResult(C, old)
  BY <1>2, LoadGood
<1> HIDE DEF old
<1>4. WF(old.b) /\ Extends(C, old.b) /\ Safe(C) \subseteq Safe(old.b) /\ old.id \in Safe(old.b)
  BY <1>2, <1>3, WFFacts, KeepsSafe DEF GoodResult, Extends
<1>5. cond # 0 => GoodResult(C, kept)
  <2> SUFFICES ASSUME cond # 0 PROVE GoodResult(C, kept)
    OBVIOUS
  <2>1. cond \in Safe(old.b) /\ x \in Safe(old.b)
    BY <1>2, <1>4 DEF IsCond
  <2>2. GoodResult(old.b, kept)
    BY <1>4, <2>1, SelectPredicateGood
  <2> HIDE DEF kept
  <2> QED BY <1>2, <1>4, <2>2, ResultOn
<1> HIDE DEF kept
<1>6. GoodResult(C, new)
  <2>1. GoodResult(C, Answer(C, x))
    BY <1>2, AnswerGood
  <2> QED BY <1>5, <2>1
<1> HIDE DEF new
<1>7. WF(new.b) /\ Extends(C, new.b) /\ new.id \in Safe(new.b) /\ WrittenArg(new.b, dst)
  BY <1>2, <1>6, WrittenStays DEF GoodResult, Extends
<1>8. GoodOutput(new.b, a)
  BY <1>7, StoreGood DEF IsCond
<1> HIDE DEF a
<1>9. GoodOutput(B, a)
  BY <1>2, <1>7, <1>8, OutputOn
<1> QED BY <1>1, <1>9, RefusedGood

LEMMA PackGood ==
  ASSUME NEW B, WF(B), NEW x \in Safe(B), NEW cond, IsCond(B, cond),
         NEW dst \in 1 .. Len(B.args), NEW size \in 1 .. Len(B.args)
  PROVE  GoodOutput(B, Pack(B, x, cond, dst, size))
<1> DEFINE C == MarkArg(B, dst, "Dst")
           D == MarkArg(C, size, "DstAgg")
           E == AddAccumulator(D, "I64", size)
           t == B.steps[x].dtype
           special == IF t \in {"I8", "I16"} THEN {"SmallPack"} ELSE {}
           s == RootStep("Pack", t, "", <<x>>, cond, dst)
           n == IF cond = 0 THEN 1 ELSE 2
           a == Announce(AddRoot(E, s), special)
<1>1. \/ Pack(B, x, cond, dst, size) = Refused(B)
      \/ Pack(B, x, cond, dst, size) = Refused(C)
      \/ Pack(B, x, cond, dst, size) = a
  BY Zenon DEF Pack
<1>2. WF(C) /\ Extends(B, C) /\ Keeps(B, C) /\ Safe(B) \subseteq Safe(C) /\ Len(C.args) = Len(B.args) /\ WrittenArg(C, dst)
  BY MarkGood, MarkedFacts
<1> HIDE DEF C
<1>3. WF(D) /\ Extends(C, D) /\ Keeps(C, D) /\ Safe(C) \subseteq Safe(D) /\ WrittenArg(D, size)
  BY <1>2, MarkGood, MarkedFacts
<1> HIDE DEF D
<1>4. WF(E) /\ Keeps(D, E) /\ Safe(D) \subseteq Safe(E)
  BY <1>3, AccumulatorGood
<1> HIDE DEF E
<1>5. Keeps(B, E) /\ WrittenArg(E, dst) /\ Safe(B) \subseteq Safe(E)
  <2>1. WrittenArg(D, dst)
    BY <1>2, <1>3, WrittenStays
  <2>2. Keeps(B, D)
    BY <1>2, <1>3, WFFacts, KeepsOn
  <2> QED BY <1>2, <1>3, <1>4, <2>1, <2>2, WFFacts, KeepsOn, WrittenStays
<1>6. IsCond(E, cond) /\ x \in Safe(E)
  BY <1>5 DEF IsCond
<1> HIDE DEF t
<1>7. IsRoot(s, Safe(E), "Pack", t, "", n, dst)
  BY <1>6, OneRoot
<1> HIDE DEF s, n
<1>8. Rootable(E, s) /\ s.kind = "Pack" /\ s.dtype = t
  BY <1>5, <1>7 DEF Rootable, IsRoot
<1>9. Met(E.steps, E.tr, E.special \union special, s)
  <2>1. StepNeeds(E.steps, s) \subseteq special
    BY <1>8 DEF StepNeeds
  <2> QED BY <1>8, <2>1 DEF Met, NeedsNoSplit
<1> HIDE DEF special
<1>10. GoodOutput(E, a)
  BY <1>4, <1>8, <1>9, AddRootAnnounced
<1>11. a.id # 0
  <2>1. a.id = AddRoot(E, s).id
    BY DEF Announce, AddRoot, Answer
  <2>2. AddRoot(E, s).id = Len(E.steps) + 1 /\ Len(E.steps) \in Nat
    BY <1>4, WFFacts DEF AddRoot, Answer
  <2> QED BY <2>1, <2>2
<1> HIDE DEF a
<1>12. GoodOutput(B, a)
  BY <1>4, <1>5, <1>10, <1>11, OutputOn
<1>13. GoodOutput(B, Refused(C)) /\ GoodOutput(B, Refused(B))
  BY <1>2, RefusedGood, RefusedOutput
<1> QED BY <1>1, <1>12, <1>13

LEMMA WideIndexGood ==
  ASSUME NEW B, WF(B), NEW idx \in Safe(B)
  PROVE  GoodResult(B, WideIndex(B, idx))
<1>1. CASE B.steps[idx].dtype \notin {"I8", "I16"}
  BY <1>1, AnswerGood DEF WideIndex
<1>2. CASE B.steps[idx].dtype \in {"I8", "I16"}
  <2> DEFINE s == IntCastStep("Zext", "I32", idx)
             r == CastOf(B.steps, B.tr, idx, "I32", "Zext")
  <2>1. Rewrites(r, B) /\ "Zext" \in CastKinds
    BY WFFacts, CastGood DEF Rewrites, GoodRewrite, CastKinds
  <2>2. Askable(B, s) /\ Met(B.steps, B.tr, B.special, s)
    BY <2>1, AskableSteps, NoNeedsStep DEF IntCastStep, DemandingKinds
  <2>3. Size(B.steps[idx].dtype) < Size("I32") /\ B.steps[idx].dtype # "I32"
    BY <1>2 DEF Size
  <2>4. IntCast(B, idx, "I32", "Zext", FALSE) = Ask(B, s, r)
    BY <2>3 DEF IntCast, CheckedWhen
  <2> HIDE DEF s, r
  <2> QED BY <1>2, <2>1, <2>2, <2>4, AskGood DEF WideIndex
<1> QED BY <1>1, <1>2

LEMMA GatherGood ==
  ASSUME NEW B, WF(B), NEW idx \in Safe(B), NEW data
  PROVE  GoodAnswer(B, Gather(B, idx, data))
<1> DEFINE C == MarkIndex(B, idx)
           wide == WideIndex(C, idx)
<1>1. Gather(B, idx, data) = Refused(B) \/ Gather(B, idx, data) = GatherAt(wide, data)
  BY DEF Gather
<1>2. WF(C) /\ Extends(B, C) /\ Safe(B) \subseteq Safe(C)
  BY MarkIndexGood DEF Marked
<1> HIDE DEF C
<1>3. GoodResult(C, wide)
  BY <1>2, WideIndexGood
<1> HIDE DEF wide
<1> DEFINE D == wide.b
           t == D.args[data].dtype
           s == Step("Gather", t, "", "No", <<wide.id>>, <<data>>)
           ops == {"Gather"} \union (IF t \in {"I8", "I16"} THEN {"SmallGather"} ELSE {})
           M == MarkArg(D, data, "SrcGatherArr")
           a == Announce(Create(M, s, NoRewrite), ops)
<1>4. WF(D) /\ Extends(C, D) /\ wide.id \in Safe(D)
  BY <1>3 DEF GoodResult
<1>5. GatherAt(wide, data) = IF Known(D, s) # {} THEN Found(D, s) ELSE a
  BY Zenon DEF GatherAt
<1> HIDE DEF D
<1>6. WF(M) /\ Extends(D, M) /\ Safe(D) \subseteq Safe(M) /\ M.steps = D.steps
  BY <1>4, MarkGood DEF Marked
<1> HIDE DEF M, t
<1>7. s.kind = "Gather" /\ s.dtype = t
  BY DEF Step
<1>8. Met(M.steps, M.tr, M.special \union ops, s)
  <2> HIDE DEF s
  <2>1. StepNeeds(M.steps, s) \subseteq ops
    BY <1>7 DEF StepNeeds
  <2> QED BY <1>7, <2>1 DEF Met, NeedsNoSplit
<1>9. Askable(Announce(Answer(M, 0), ops).b, s)
  <2>1. IsAnswer(Answer(M, 0)) /\ Answer(M, 0).b = M
    BY DEF IsAnswer, Answer
  <2> HIDE DEF ops
  <2> DEFINE N == Announce(Answer(M, 0), ops).b
  <2>2. wide.id \in Safe(N)
    BY <1>4, <1>6, <2>1, AnnounceGood DEF Marked
  <2> HIDE DEF N
  <2>3. Askable(N, s)
    BY <2>2, OneOperand, AskableStep DEF WriteKinds
  <2> QED BY <2>3 DEF N
<1> HIDE DEF s, ops
<1>10. GoodResult(M, a)
  BY <1>6, <1>8, <1>9, CreateAnnounced DEF GoodRewrite
<1>11. Known(D, s) # {} => GoodResult(D, Found(D, s))
  BY <1>4, FoundGood
<1> HIDE DEF a
<1>12. GoodResult(D, GatherAt(wide, data))
  BY <1>4, <1>5, <1>6, <1>10, <1>11, ResultOn
<1>13. GoodResult(B, GatherAt(wide, data))
  BY <1>2, <1>4, <1>12, ResultOn
<1> QED BY <1>1, <1>13, RefusedGood, ResultAnswers

LEMMA SeenGood ==
  ASSUME NEW B, WF(B), NEW x, NEW ops
  PROVE  /\ Marked(B, [B EXCEPT !.scalarOnly = x, !.special = B.special \union ops])
         /\ [B EXCEPT !.scalarOnly = x, !.special = B.special \union ops].special = B.special \union ops
<1> DEFINE C == [B EXCEPT !.scalarOnly = x, !.special = B.special \union ops]
<1>1. C = [B EXCEPT !.scalarOnly = x, !.special = B.special \union ops] /\ IsBuilder(B)
  BY DEF WF
<1> HIDE DEF C
<1>2. C = Builder(B.steps, B.remembered, B.reverse, B.special \union ops, x, B.args, B.safety, B.accs, B.roots, B.tr)
  BY <1>1 DEF IsBuilder, Builder
<1>3. /\ IsBuilder(C) /\ C.tr = B.tr /\ C.steps = B.steps /\ C.remembered = B.remembered /\ C.reverse = B.reverse
      /\ C.special = B.special \union ops /\ C.args = B.args /\ C.safety = B.safety /\ SameOutputs(B, C)
  BY <1>2 DEF IsBuilder, Builder, SameOutputs
<1>4. Keeps(B, C)
  <2>1. Len(B.steps) <= Len(C.steps)
    BY <1>3, WFFacts
  <2> QED BY <1>3, <2>1 DEF Keeps, Written
<1>5. IsArgs(C.args)
  BY <1>3 DEF WF, AccessesOK
<1>6. Marked(B, C)
  BY <1>3, <1>4, <1>5, SameStepsGood DEF Marked
<1> QED BY <1>3, <1>6 DEF C

\* A scatter writes value x at the index wide, under a condition when there is one.
LEMMA ScatterRootGood ==
  ASSUME NEW B, WF(B), NEW wide \in Safe(B), NEW x \in Safe(B), NEW cond, IsCond(B, cond), NEW t,
         NEW dst, WrittenArg(B, dst), (IF cond = 0 THEN "Scatter" ELSE "CondScatter") \in B.special
  PROVE  GoodOutput(B, AddRoot(B, RootStep("Scatter", t, "", <<wide, x>>, cond, dst)))
<1> DEFINE s == RootStep("Scatter", t, "", <<wide, x>>, cond, dst)
           n == IF cond = 0 THEN 2 ELSE 3
<1>1. PICK operands : operands = <<wide, x>>
  OBVIOUS
<1>2. IsSeq(operands) /\ Len(operands) = 2 /\ \A j \in 1 .. Len(operands) : operands[j] \in Safe(B)
  BY <1>1, Short
<1>3. cond = 0 \/ cond \in Safe(B)
  BY DEF IsCond
<1> DEFINE m == IF cond = 0 THEN Len(operands) ELSE Len(operands) + 1
<1>4. IsRoot(RootStep("Scatter", t, "", operands, cond, dst), Safe(B), "Scatter", t, "", m, dst)
  BY <1>2, <1>3, RootStepGood
<1>5. m = n
  BY <1>2
<1> HIDE DEF m
<1>6. IsRoot(s, Safe(B), "Scatter", t, "", n, dst)
  BY <1>1, <1>4, <1>5
<1> HIDE DEF s
<1>7. Rootable(B, s) /\ s.kind = "Scatter" /\ Len(s.args) = n
  BY <1>6 DEF Rootable, IsRoot
<1>8. Met(B.steps, B.tr, B.special, s)
  <2>1. StepNeeds(B.steps, s) = {IF Len(s.args) = 3 THEN "CondScatter" ELSE "Scatter"}
    BY <1>7 DEF StepNeeds
  <2> QED BY <1>7, <2>1 DEF Met, NeedsNoSplit
<1>9. GoodOutput(B, AddRoot(B, s))
  BY <1>7, <1>8, AddRootGood
<1> QED BY <1>9 DEF s

LEMMA CondScatterGood ==
  ASSUME NEW B, WF(B), NEW x \in Safe(B), NEW idx \in Safe(B), NEW cond, IsCond(B, cond), NEW dst \in 1 .. Len(B.args)
  PROVE  GoodOutput(B, CondScatter(B, x, idx, cond, dst))
<1> DEFINE used == OptionalCond(B, cond)
           op == IF used = 0 THEN "Scatter" ELSE "CondScatter"
           narrow == B.scalarOnly \/ B.args[dst].dtype \in {"I8", "I16"}
           seen == [B EXCEPT !.scalarOnly = narrow, !.special = B.special \union {op}]
           C == MarkArg(seen, dst, "Dst")
           D == MarkIndex(C, idx)
           wide == WideIndex(D, idx)
           t == B.steps[x].dtype
           a == AddRoot(wide.b, RootStep("Scatter", t, "", <<wide.id, x>>, used, dst))
<1>1. \/ CondScatter(B, x, idx, cond, dst) = Refused(B)
      \/ CondScatter(B, x, idx, cond, dst) = Refused(seen)
      \/ CondScatter(B, x, idx, cond, dst) = a
  BY Zenon DEF CondScatter
<1>2. WF(seen) /\ Extends(B, seen) /\ Safe(B) \subseteq Safe(seen) /\ op \in seen.special /\ Len(seen.args) = Len(B.args)
  <2>1. Marked(B, seen) /\ seen.special = B.special \union {op}
    BY SeenGood
  <2> HIDE DEF seen
  <2> QED BY <2>1, MarkedFacts
<1> HIDE DEF seen
<1>3. WF(C) /\ Extends(seen, C) /\ Safe(seen) \subseteq Safe(C) /\ C.special = seen.special /\ WrittenArg(C, dst)
  BY <1>2, MarkGood DEF Marked
<1> HIDE DEF C
<1>4. WF(D) /\ Extends(C, D) /\ Safe(C) \subseteq Safe(D) /\ D.special = C.special /\ WrittenArg(D, dst)
  BY <1>3, MarkIndexGood, WrittenStays DEF Marked, Extends
<1> HIDE DEF D
<1>5. idx \in Safe(D) /\ x \in Safe(D)
  BY <1>2, <1>3, <1>4
<1>6. GoodResult(D, wide)
  BY <1>4, <1>5, WideIndexGood
<1> HIDE DEF wide
<1>7. WF(wide.b) /\ Extends(D, wide.b) /\ Safe(D) \subseteq Safe(wide.b) /\ wide.id \in Safe(wide.b)
      /\ WrittenArg(wide.b, dst) /\ D.special \subseteq wide.b.special
  <2>1. WF(wide.b) /\ Extends(D, wide.b) /\ Keeps(D, wide.b) /\ wide.id \in Safe(wide.b)
    BY <1>6 DEF GoodResult, Extends
  <2>2. D.special \subseteq wide.b.special
    BY <2>1 DEF Keeps
  <2> QED BY <1>4, <2>1, <2>2, WFFacts, KeepsSafe, WrittenStays
<1>8. IsCond(B, used)
  BY OptionalGood
<1> HIDE DEF used, t, op
<1>9. IsCond(wide.b, used) /\ x \in Safe(wide.b)
  BY <1>2, <1>3, <1>4, <1>5, <1>7, <1>8 DEF IsCond
<1>10. (IF used = 0 THEN "Scatter" ELSE "CondScatter") \in wide.b.special
  <2>1. op \in wide.b.special
    BY <1>2, <1>3, <1>4, <1>7
  <2> QED BY <2>1 DEF op
<1>11. GoodOutput(wide.b, a)
  BY <1>7, <1>9, <1>10, ScatterRootGood
<1>12. Extends(B, wide.b)
  <2>1. Extends(B, C)
    BY <1>2, <1>3, ExtendsOn
  <2>2. Extends(B, D)
    BY <1>3, <1>4, <2>1, ExtendsOn
  <2> QED BY <1>4, <1>7, <2>2, ExtendsOn
<1> HIDE DEF a
<1>13. GoodOutput(B, a)
  BY <1>7, <1>11, <1>12, OutputOn
<1> QED BY <1>1, <1>2, <1>13, RefusedGood, RefusedOutput

\* An aggregate leaves its result in argument dst.
LEMMA AggregateGood ==
  ASSUME NEW B, WF(B), NEW x \in Safe(B), NEW cond, IsCond(B, cond), NEW dst \in 1 .. Len(B.args),
         NEW kind \in {"AccSum128", "AccArithBinary", "AccPredicateBinary", "Countif"}, NEW t, NEW u, NEW op, NEW ops,
         kind = "AccArithBinary" /\ op = "Mul" /\ u = "I64" => "I64Mul" \in ops
  PROVE  LET added == AddRoot(AddAccumulator(MarkArg(B, dst, "DstAgg"), t, dst),
                              RootStep(kind, u, op, <<x>>, cond, dst))
         IN  GoodOutput(B, Announce(added, ops)) /\ (ops = {} => GoodOutput(B, added))
<1> DEFINE C == MarkArg(B, dst, "DstAgg")
           D == AddAccumulator(C, t, dst)
           s == RootStep(kind, u, op, <<x>>, cond, dst)
           n == IF cond = 0 THEN 1 ELSE 2
           added == AddRoot(D, s)
           a == Announce(added, ops)
<1>1. WF(C) /\ Keeps(B, C) /\ Safe(B) \subseteq Safe(C) /\ WrittenArg(C, dst)
  BY MarkGood, MarkedFacts
<1> HIDE DEF C
<1>2. WF(D) /\ Keeps(C, D) /\ Safe(C) \subseteq Safe(D)
  BY <1>1, AccumulatorGood
<1> HIDE DEF D
<1>3. Keeps(B, D) /\ IsCond(D, cond) /\ x \in Safe(D)
  BY <1>1, <1>2, WFFacts, KeepsOn DEF IsCond
<1>4. kind \notin {"IntCast", "FloatCast", "PredicateNot", "ArithBinary", "Compare", "PredicateBinary"}
  OBVIOUS
<1>5. IsRoot(s, Safe(D), kind, u, op, n, dst)
  BY <1>3, <1>4, OneRoot
<1> HIDE DEF s, n
<1>6. Rootable(D, s) /\ s.kind = kind /\ s.dtype = u /\ s.op = op
  BY <1>5 DEF Rootable, IsRoot, WriteKinds
<1>7. Met(D.steps, D.tr, D.special \union ops, s)
  <2>1. kind = "AccArithBinary" => StepNeeds(D.steps, s) = IF op = "Mul" /\ u = "I64" THEN {"I64Mul"} ELSE {}
    BY <1>6 DEF StepNeeds
  <2>2. kind # "AccArithBinary" => StepNeeds(D.steps, s) = {}
    BY <1>6 DEF StepNeeds
  <2>3. StepNeeds(D.steps, s) \subseteq ops
    BY <2>1, <2>2
  <2> QED BY <1>6, <2>3 DEF Met, NeedsNoSplit
<1>8. GoodOutput(D, a) /\ (ops = {} => GoodOutput(D, added))
  <2>1. GoodOutput(D, a)
    BY <1>2, <1>6, <1>7, AddRootAnnounced
  <2>2. ops = {} => GoodOutput(D, added)
    BY <1>2, <1>6, <1>7, AddRootGood
  <2> QED BY <2>1, <2>2
<1>9. a.id # 0 /\ added.id # 0
  <2>1. a.id = AddRoot(D, s).id
    BY DEF Announce, AddRoot, Answer
  <2>2. AddRoot(D, s).id = Len(D.steps) + 1 /\ Len(D.steps) \in Nat
    BY <1>2, WFFacts DEF AddRoot, Answer
  <2> QED BY <2>1, <2>2
<1> HIDE DEF a, added
<1>10. GoodOutput(B, a) /\ (ops = {} => GoodOutput(B, added))
  BY <1>2, <1>3, <1>8, <1>9, OutputOn
<1> QED BY <1>10 DEF a, added, s, D, C

LEMMA CondArithAggGood ==
  ASSUME NEW B, WF(B), NEW x \in Safe(B), NEW cond, IsCond(B, cond), NEW op, NEW dst \in 1 .. Len(B.args)
  PROVE  GoodOutput(B, CondArithAgg(B, x, cond, op, dst))
<1> DEFINE t == B.args[dst].dtype
           from == B.steps[x].dtype
           ops == IF op = "Mul" /\ from = "I64" THEN {"I64Mul"}
                  ELSE IF op = "Mul" /\ from = "I8" THEN {"I8Mul"} ELSE {}
           kind == IF t = "I128" THEN "AccSum128" ELSE "AccArithBinary"
           used == OptionalCond(B, cond)
           a == Announce(AddRoot(AddAccumulator(MarkArg(B, dst, "DstAgg"), t, dst),
                                 RootStep(kind, t, op, <<x>>, used, dst)), ops)
           fits == ~(IF t = "I128" THEN from # "I64" \/ op # "Add" ELSE t # from)
<1>1. \/ CondArithAgg(B, x, cond, op, dst) = Refused(B)
      \/ fits /\ CondArithAgg(B, x, cond, op, dst) = a
  BY Zenon DEF CondArithAgg
<1>2. IsCond(B, used)
  BY OptionalGood
<1>3. kind \in {"AccSum128", "AccArithBinary", "AccPredicateBinary", "Countif"}
  OBVIOUS
<1> HIDE DEF used
<1>4. fits => (kind = "AccArithBinary" /\ op = "Mul" /\ t = "I64" => "I64Mul" \in ops)
  OBVIOUS
<1> HIDE DEF kind, ops, t, from, fits
<1>5. fits => GoodOutput(B, a)
  BY <1>2, <1>3, <1>4, AggregateGood
<1> HIDE DEF a
<1> QED BY <1>1, <1>5, RefusedGood

LEMMA OtherAggregatesGood ==
  ASSUME NEW B, WF(B), NEW x \in Safe(B), NEW op, NEW dst \in 1 .. Len(B.args)
  PROVE  GoodOutput(B, PredicateAgg(B, x, op, dst)) /\ GoodOutput(B, CountIf(B, x, dst))
<1> DEFINE C == MarkArg(B, dst, "DstAgg")
           conj == AddRoot(AddAccumulator(C, "I1", dst), RootStep("AccPredicateBinary", "I1", op, <<x>>, 0, dst))
           count == AddRoot(AddAccumulator(C, "I64", dst), RootStep("Countif", "I64", "Add", <<x>>, 0, dst))
<1>1. IsCond(B, 0)
  BY DEF IsCond
<1>2. GoodOutput(B, conj)
  BY <1>1, AggregateGood
<1>3. GoodOutput(B, count)
  BY <1>1, AggregateGood
<1>4. PredicateAgg(B, x, op, dst) = Refused(B) \/ PredicateAgg(B, x, op, dst) = conj
  BY Zenon DEF PredicateAgg
<1>5. CountIf(B, x, dst) = Refused(B) \/ CountIf(B, x, dst) = count
  BY Zenon DEF CountIf
<1> HIDE DEF conj, count
<1> QED BY <1>2, <1>3, <1>4, <1>5, RefusedGood

LEMMA GroupedArithAggGood ==
  ASSUME NEW B, WF(B), NEW x \in Safe(B), NEW idx \in Safe(B), NEW cond, IsCond(B, cond), NEW op,
         NEW table \in 1 .. Len(B.args)
  PROVE  GoodOutput(B, GroupedArithAgg(B, x, cond, idx, op, table))
<1> DEFINE C == [B EXCEPT !.scalarOnly = TRUE]
           old == Gather(C, idx, table)
           new == UncheckedArith(old.b, x, old.id, op, "No")
           picked == Select(new.b, cond, new.id, old.id)
           kept == IF cond = 0 THEN new ELSE picked
           a == CondScatter(kept.b, kept.id, idx, 0, table)
<1>1. \/ GroupedArithAgg(B, x, cond, idx, op, table) = Refused(old.b)
      \/ ~Invalid(old) /\ GroupedArithAgg(B, x, cond, idx, op, table) = a
  BY Zenon DEF GroupedArithAgg
<1>2. WF(C) /\ Extends(B, C) /\ Safe(B) \subseteq Safe(C)
  BY ScalarOnlyGood DEF Marked
<1> HIDE DEF C
<1>3. GoodAnswer(C, old)
  BY <1>2, GatherGood
<1> HIDE DEF old
<1>4. WF(old.b) /\ Extends(C, old.b) /\ Safe(C) \subseteq Safe(old.b) /\ (~Invalid(old) => old.id \in Safe(old.b))
  BY <1>2, <1>3, WFFacts, KeepsSafe DEF GoodAnswer, Extends, Invalid
<1>5. Extends(B, old.b)
  BY <1>2, <1>4, ExtendsOn
<1>6. ASSUME ~Invalid(old) PROVE GoodOutput(B, a)
  <2>1. x \in Safe(old.b) /\ old.id \in Safe(old.b) /\ idx \in Safe(old.b) /\ IsCond(old.b, cond)
    BY <1>2, <1>4, <1>6 DEF IsCond
  <2>2. GoodResult(old.b, new)
    BY <1>4, <2>1, UncheckedArithGood
  <2> HIDE DEF new
  <2>3. WF(new.b) /\ Extends(old.b, new.b) /\ Safe(old.b) \subseteq Safe(new.b) /\ new.id \in Safe(new.b)
    BY <1>4, <2>2, WFFacts, KeepsSafe DEF GoodResult, Extends
  <2>4. cond # 0 => GoodResult(new.b, picked)
    <3> SUFFICES ASSUME cond # 0 PROVE GoodResult(new.b, picked)
      OBVIOUS
    <3>1. cond \in Safe(new.b) /\ old.id \in Safe(new.b)
      BY <2>1, <2>3 DEF IsCond
    <3> QED BY <2>3, <3>1, ChoiceGood
  <2> HIDE DEF picked
  <2>5. GoodResult(old.b, kept)
    <3>1. cond # 0 => GoodResult(old.b, picked)
      BY <1>4, <2>3, <2>4, ResultOn
    <3> QED BY <2>2, <3>1
  <2> HIDE DEF kept
  <2>6. WF(kept.b) /\ Extends(old.b, kept.b) /\ Safe(old.b) \subseteq Safe(kept.b) /\ kept.id \in Safe(kept.b)
    BY <1>4, <2>5, WFFacts, KeepsSafe DEF GoodResult, Extends
  <2>7. Extends(B, kept.b)
    BY <1>4, <1>5, <2>6, ExtendsOn
  <2>8. table \in 1 .. Len(kept.b.args) /\ idx \in Safe(kept.b) /\ IsCond(kept.b, 0)
    BY <2>1, <2>6, <2>7 DEF Extends, Keeps, IsCond
  <2>9. GoodOutput(kept.b, a)
    BY <2>6, <2>8, CondScatterGood
  <2> HIDE DEF a
  <2> QED BY <2>6, <2>7, <2>9, OutputOn
<1> HIDE DEF a
<1> QED BY <1>1, <1>4, <1>5, <1>6, RefusedOutput

(***************************************************************************)
(* What is live, and the arguments.                                         *)
(***************************************************************************)
BelowBody(f, steps, i) ==
  IF i = 0 THEN {} ELSE {i} \union UNION {f[a] : a \in {steps[i].args[k] : k \in DOMAIN steps[i].args}}
IsBelow(f, steps) == f = [i \in 0 .. Len(steps) |-> BelowBody(f, steps, i)]

LEMMA BelowEarlier ==
  ASSUME NEW steps, NEW T, Table(steps, T), NEW i \in 1 .. Len(steps), NEW k \in DOMAIN steps[i].args
  PROVE  steps[i].args[k] \in T /\ steps[i].args[k] \in 1 .. Len(steps) /\ steps[i].args[k] < i
<1>1. IsSeq(steps[i].args) /\ T \subseteq 1 .. Len(steps)
      /\ \A j \in 1 .. Len(steps[i].args) : steps[i].args[j] \in T /\ steps[i].args[j] < i
  BY DEF Table, IsStep
<1>2. DOMAIN steps[i].args = 1 .. Len(steps[i].args)
  BY <1>1, AnySequence
<1> QED BY <1>1, <1>2

LEMMA BelowExists ==
  ASSUME NEW steps, NEW T, Table(steps, T)
  PROVE  \E f : IsBelow(f, steps)
<1> DEFINE n == Len(steps)
           Body(f, i) == BelowBody(f, steps, i)
           Good(f, m) == f = [i \in 0 .. n |-> f[i]] /\ \A i \in 0 .. n : i <= m => f[i] = Body(f, i)
           U == {m \in Nat : \E f : Good(f, m)}
<1>1. n \in Nat
  BY AnySequence DEF Table
<1>2. ASSUME NEW i \in 0 .. n, NEW f, NEW g, \A d \in 0 .. n : d < i => f[d] = g[d]
      PROVE  Body(f, i) = Body(g, i)
  <2>1. CASE i = 0
    BY <2>1 DEF BelowBody
  <2>2. CASE i # 0
    <3> DEFINE A == {steps[i].args[k] : k \in DOMAIN steps[i].args}
    <3>1. ASSUME NEW a \in A PROVE f[a] = g[a]
      <4>1. PICK k \in DOMAIN steps[i].args : a = steps[i].args[k]
        OBVIOUS
      <4>2. i \in 1 .. Len(steps)
        BY <1>1, <2>2
      <4>3. a \in 1 .. Len(steps) /\ a < i
        BY <4>1, <4>2, BelowEarlier
      <4>4. a \in 0 .. n
        BY <1>1, <4>3
      <4> QED BY <1>2, <4>3, <4>4
    <3> HIDE DEF A
    <3>2. {f[a] : a \in A} = {g[a] : a \in A}
      BY <3>1
    <3>3. Body(f, i) = {i} \union UNION {f[a] : a \in A} /\ Body(g, i) = {i} \union UNION {g[a] : a \in A}
      BY Zenon, <2>2 DEF BelowBody, A
    <3> QED BY <3>2, <3>3
  <2> QED BY <2>1, <2>2
<1>3. 0 \in U
  <2> DEFINE g == [i \in 0 .. n |-> {}]
  <2>1. g[0] = Body(g, 0)
    BY <1>1 DEF BelowBody
  <2> HIDE DEF Body
  <2>3. g = [i \in 0 .. n |-> g[i]]
    OBVIOUS
  <2>4. \A i \in 0 .. n : i <= 0 => i = 0
    BY <1>1
  <2> HIDE DEF g
  <2>2. Good(g, 0)
    BY <2>1, <2>3, <2>4
  <2> HIDE DEF Good
  <2> QED BY <2>2
<1> HIDE DEF n, Body
<1>4. ASSUME NEW m \in Nat, m \in U
      PROVE  m + 1 \in U
  <2>1. PICK f : Good(f, m)
    BY <1>4
  <2>2. PICK g : g = [i \in 0 .. n |-> Body(f, i)]
    OBVIOUS
  <2>3. ASSUME NEW i \in 0 .. n, i <= m PROVE g[i] = f[i]
    BY <2>1, <2>2, <2>3
  <2>4. ASSUME NEW i \in 0 .. n, i <= m + 1 PROVE g[i] = Body(g, i)
    <3>1. \A d \in 0 .. n : d < i => g[d] = f[d]
      BY <1>1, <2>3, <2>4
    <3>2. Body(g, i) = Body(f, i)
      BY <1>2, <3>1
    <3> QED BY <2>2, <3>2
  <2>5. Good(g, m + 1)
    BY <2>2, <2>4
  <2> HIDE DEF Good
  <2> QED BY <2>5
<1>5. n \in U
  <2> HIDE DEF U
  <2> QED BY <1>1, <1>3, <1>4, NaturalInduction
<1>6. PICK f : Good(f, n)
  BY <1>5
<1>7. f = [i \in 0 .. n |-> Body(f, i)]
  BY <1>1, <1>6
<1> QED BY <1>7 DEF IsBelow, n, Body

LEMMA ReachedIn ==
  ASSUME NEW steps, NEW T, Table(steps, T), NEW roots \in SUBSET T
  PROVE  Reached(steps, roots) \subseteq T
<1> DEFINE below[i \in 0 .. Len(steps)] ==
             IF i = 0 THEN {}
             ELSE {i} \union UNION {below[a] : a \in {steps[i].args[k] : k \in DOMAIN steps[i].args}}
<1>1. Len(steps) \in Nat /\ T \subseteq 1 .. Len(steps)
  BY AnySequence DEF Table
<1>2. IsBelow(below, steps)
  <2>1. \E f : IsBelow(f, steps)
    BY BelowExists
  <2> QED BY Zenon, <2>1 DEF IsBelow, BelowBody
<1>3. Reached(steps, roots) = UNION {below[r] : r \in roots}
  BY Zenon DEF Reached
<1> HIDE DEF below
<1> DEFINE U == {m \in Nat : \A i \in 0 .. Len(steps) : i <= m /\ i \in T => below[i] \subseteq T}
<1>4. 0 \in U
  BY <1>1
<1>5. ASSUME NEW m \in Nat, m \in U PROVE m + 1 \in U
  <2> SUFFICES ASSUME NEW i \in 0 .. Len(steps), i <= m + 1, i \in T PROVE below[i] \subseteq T
    OBVIOUS
  <2> DEFINE A == {steps[i].args[k] : k \in DOMAIN steps[i].args}
  <2>1. i \in 1 .. Len(steps) /\ i # 0
    BY <1>1
  <2>2. below[i] = {i} \union UNION {below[a] : a \in A}
    <3>1. below[i] = BelowBody(below, steps, i)
      BY <1>2 DEF IsBelow
    <3> QED BY Zenon, <2>1, <3>1 DEF BelowBody
  <2>3. ASSUME NEW a \in A PROVE below[a] \subseteq T
    <3>1. PICK k \in DOMAIN steps[i].args : a = steps[i].args[k]
      OBVIOUS
    <3>2. a \in T /\ a \in 1 .. Len(steps) /\ a < i
      BY <2>1, <3>1, BelowEarlier
    <3>3. a \in 0 .. Len(steps) /\ a <= m
      BY <1>1, <3>2
    <3> QED BY <1>5, <3>2, <3>3
  <2> HIDE DEF A
  <2> QED BY <2>2, <2>3
<1>6. Len(steps) \in U
  <2> HIDE DEF U
  <2> QED BY <1>1, <1>4, <1>5, NaturalInduction
<1>7. ASSUME NEW r \in roots PROVE below[r] \subseteq T
  <2>1. r \in T /\ r \in 0 .. Len(steps) /\ r <= Len(steps)
    BY <1>1
  <2> QED BY <1>6, <2>1
<1> QED BY <1>3, <1>7

LEMMA LiveSafe ==
  ASSUME NEW B, WF(B)
  PROVE  LiveSteps(B) \subseteq Safe(B)
<1> DEFINE roots == {B.roots[k] : k \in DOMAIN B.roots}
<1>1. roots \in SUBSET Safe(B) /\ Table(B.steps, Safe(B))
  BY WFFacts DEF WF, OutputsOK
<1>2. LiveSteps(B) = Reached(B.steps, roots)
  BY DEF LiveSteps
<1> HIDE DEF roots
<1> QED BY <1>1, <1>2, ReachedIn

\* A builder with more arguments, one of them for the faults perhaps.
LEMMA ArgumentsGood ==
  ASSUME NEW B, WF(B), NEW args, IsArgs(args), Len(B.args) <= Len(args),
         \A i \in 1 .. Len(B.args) : args[i] = B.args[i],
         NEW C, IsBuilder(C), C.steps = B.steps, C.remembered = B.remembered, C.reverse = B.reverse,
         C.special = B.special, C.tr = B.tr, C.args = args, C.accs = B.accs, C.roots = B.roots,
         C.safety = 0 \/ C.safety = B.safety \/ WrittenArg(C, C.safety)
  PROVE  WF(C) /\ Safe(C) = Safe(B)
<1>1. Safe(C) = Safe(B)
  BY DEF Safe
<1>2. Len(B.args) \in Nat /\ Len(args) \in Nat
  BY WFFacts, AnySequence DEF IsArgs
<1>3. ASSUME NEW a, WrittenArg(B, a) PROVE WrittenArg(C, a)
  BY <1>2, <1>3 DEF WrittenArg, Written
<1>4. ExpressionsOK(C) /\ OutputsOK(C)
  BY <1>1 DEF WF, ExpressionsOK, OutputsOK
<1>5. AccessesOK(C)
  BY <1>3 DEF WF, AccessesOK
<1> QED BY <1>1, <1>4, <1>5 DEF WF

LEMMA DeclaredGood ==
  ASSUME NEW B, WF(B), NEW t, NEW kinds
  PROVE  LET C == [B EXCEPT !.args = Append(B.args, [dtype |-> t, kind |-> kinds])]
             D == [C EXCEPT !.safety = Len(B.args) + 1]
         IN  /\ WF(C) /\ Safe(C) = Safe(B) /\ C.steps = B.steps /\ SameOutputs(B, C)
             /\ "DstSafetyCheck" \in kinds
                  => WF(D) /\ Safe(D) = Safe(B) /\ D.steps = B.steps /\ SameOutputs(B, D)
<1> DEFINE arg == [dtype |-> t, kind |-> kinds]
           args == Append(B.args, arg)
           new == Len(B.args) + 1
           C == [B EXCEPT !.args = args]
           D == [C EXCEPT !.safety = new]
<1>1. C = [B EXCEPT !.args = args] /\ D = [C EXCEPT !.safety = new] /\ IsBuilder(B)
  BY DEF WF
<1>2. arg = [dtype |-> arg.dtype, kind |-> arg.kind] /\ arg.kind = kinds
  OBVIOUS
<1>3. IsSeq(B.args) /\ Len(B.args) \in Nat /\ IsArgs(B.args)
  BY WFFacts DEF WF, AccessesOK
<1> HIDE DEF arg
<1>4. /\ IsSeq(args) /\ Len(args) = new /\ args[new] = arg
      /\ \A i \in 1 .. Len(B.args) : args[i] = B.args[i]
  BY <1>3, Appended
<1>5. new \in 1 .. new /\ Len(B.args) <= new /\ \A i \in 1 .. new : i = new \/ i \in 1 .. Len(B.args)
  BY <1>3
<1> HIDE DEF C, D, args, new
<1>6. C = Builder(B.steps, B.remembered, B.reverse, B.special, B.scalarOnly, args, B.safety, B.accs, B.roots, B.tr)
  BY <1>1 DEF IsBuilder, Builder
<1>7. D = Builder(B.steps, B.remembered, B.reverse, B.special, B.scalarOnly, args, new, B.accs, B.roots, B.tr)
  BY <1>1, <1>6 DEF Builder
<1>8. IsArgs(args)
  BY <1>2, <1>3, <1>4, <1>5 DEF IsArgs
<1>9. /\ IsBuilder(C) /\ C.tr = B.tr /\ C.steps = B.steps /\ C.remembered = B.remembered /\ C.reverse = B.reverse
      /\ C.special = B.special /\ C.args = args /\ C.safety = B.safety /\ C.accs = B.accs /\ C.roots = B.roots
  BY <1>6 DEF IsBuilder, Builder
<1>10. /\ IsBuilder(D) /\ D.tr = B.tr /\ D.steps = B.steps /\ D.remembered = B.remembered /\ D.reverse = B.reverse
       /\ D.special = B.special /\ D.args = args /\ D.safety = new /\ D.accs = B.accs /\ D.roots = B.roots
  BY <1>7 DEF IsBuilder, Builder
<1>11. WF(C) /\ Safe(C) = Safe(B) /\ C.steps = B.steps /\ SameOutputs(B, C)
  BY <1>4, <1>5, <1>8, <1>9, ArgumentsGood DEF SameOutputs
<1>12. ASSUME "DstSafetyCheck" \in kinds PROVE WrittenArg(D, D.safety)
  BY <1>2, <1>4, <1>5, <1>10, <1>12 DEF WrittenArg, Written
<1>13. "DstSafetyCheck" \in kinds => WF(D) /\ Safe(D) = Safe(B) /\ D.steps = B.steps /\ SameOutputs(B, D)
  BY <1>4, <1>5, <1>8, <1>10, <1>12, ArgumentsGood DEF SameOutputs
<1> QED BY <1>11, <1>13 DEF C, D, args, arg, new

(***************************************************************************)
(* The specification.                                                       *)
(***************************************************************************)
\* The invariant: the builder's tables are right, results are steps of it, and a
\* function that was built passed the checks of build().
InvOn(p, B, results, answer, done) ==
  /\ p \in DOMAIN Programs /\ done \in BOOLEAN /\ WF(B)
  /\ IsSeq(results) /\ \A k \in 1 .. Len(results) : results[k].id = 0 \/ results[k].id \in Safe(B)
  /\ answer.id \in 0 .. Len(B.steps)
  /\ done => Buildable(B, MaxRoots, MaxLiveSteps)
Inv == InvOn(program, b, handles, last, built)

\* A step of the builder that keeps the invariant, and adds no output if it gives none.
Kept == Inv' /\ (last'.refused \/ last'.id = 0 => SameOutputs(b, b'))

LEMMA InitInv ==
  ASSUME Init
  PROVE  Inv
<1>1. program \in DOMAIN Programs /\ \E tr : b = EmptyBuilder(tr)
  BY DEF Init
<1> PICK tr : b = EmptyBuilder(tr)
  BY <1>1
<1>2. IsSeq(<<>>) /\ Len(<<>>) = 0
  BY Short
<1>3. PICK empty : empty = <<>>
  OBVIOUS
<1>4. b = Builder(empty, {}, empty, {}, FALSE, empty, 0, empty, empty, tr)
  BY <1>3 DEF EmptyBuilder, Builder
<1>5. /\ IsBuilder(b) /\ b.steps = empty /\ b.remembered = {} /\ b.reverse = empty /\ b.special = {}
      /\ b.args = empty /\ b.safety = 0 /\ b.accs = empty /\ b.roots = empty
  BY <1>4 DEF IsBuilder, Builder
<1>6. IsSeq(empty) /\ Len(empty) = 0 /\ 1 .. Len(empty) = {}
  BY <1>2, <1>3
<1>7. Safe(b) \subseteq {}
  BY <1>5, <1>6 DEF Safe, SafeIn
<1>8. ExpressionsOK(b)
  BY <1>5, <1>6, <1>7 DEF ExpressionsOK, Table
<1>9. AccessesOK(b) /\ OutputsOK(b)
  BY <1>5, <1>6 DEF AccessesOK, OutputsOK, IsArgs
<1>10. WF(b)
  BY <1>5, <1>8, <1>9 DEF WF
<1>11. last.id = 0 /\ built = FALSE /\ handles = empty /\ 0 \in 0 .. Len(empty)
  BY <1>3, <1>6 DEF Init, Outcome
<1> QED BY <1>1, <1>5, <1>6, <1>10, <1>11 DEF Inv, InvOn

LEMMA MoreResults ==
  ASSUME NEW B, WF(B), NEW C, WF(C), Safe(B) \subseteq Safe(C), NEW results, IsSeq(results),
         \A k \in 1 .. Len(results) : results[k].id = 0 \/ results[k].id \in Safe(B),
         NEW new, new.id = 0 \/ new.id \in Safe(C)
  PROVE  /\ IsSeq(Append(results, new))
         /\ \A k \in 1 .. Len(Append(results, new)) :
              Append(results, new)[k].id = 0 \/ Append(results, new)[k].id \in Safe(C)
<1> DEFINE more == Append(results, new)
<1>1. /\ IsSeq(more) /\ Len(more) = Len(results) + 1 /\ more[Len(results) + 1] = new
      /\ \A k \in 1 .. Len(results) : more[k] = results[k]
  BY Appended
<1>2. Len(results) \in Nat
  BY AnySequence
<1> HIDE DEF more
<1>3. ASSUME NEW k \in 1 .. Len(more) PROVE more[k].id = 0 \/ more[k].id \in Safe(C)
  <2>1. CASE k = Len(results) + 1
    BY <1>1, <2>1
  <2>2. CASE k \in 1 .. Len(results)
    BY <1>1, <2>2
  <2> QED BY <1>1, <1>2, <2>1, <2>2
<1> QED BY <1>1, <1>3 DEF more

\* The three ends of a call: something else happened, a result, an output.
LEMMA LeavesKept ==
  ASSUME Inv, ~built, NEW new, WF(new), Safe(b) \subseteq Safe(new), SameOutputs(b, new), NEW refused, Leaves(new, refused)
  PROVE  Kept
<1>1. b' = new /\ handles' = Append(handles, NoResult) /\ last' = Outcome(Nothing, 0, refused)
      /\ program' = program /\ built' = built
  BY DEF Leaves
<1>2. NoResult.id = 0 /\ last'.id = 0
  BY <1>1 DEF NoResult, Outcome
<1>3. /\ IsSeq(handles')
      /\ \A k \in 1 .. Len(handles') : handles'[k].id = 0 \/ handles'[k].id \in Safe(new)
  BY <1>1, <1>2, MoreResults DEF Inv, InvOn
<1>4. 0 \in 0 .. Len(new.steps)
  BY WFFacts
<1>5. InvOn(program', b', handles', last', built')
  BY <1>1, <1>2, <1>3, <1>4 DEF Inv, InvOn
<1> QED BY <1>1, <1>5 DEF Kept, Inv

Answered(a) == \E asked, check, mask : GivesUnder(a, asked, check, mask)
AnsweredOutput(a) == \E asked : Outputs(a, asked)

LEMMA AnsweredKept ==
  ASSUME Inv, ~built, NEW a, GoodAnswer(b, a), Answered(a)
  PROVE  Kept
<1>1. PICK asked, check, mask : GivesUnder(a, asked, check, mask)
  BY DEF Answered
<1> DEFINE new == [id |-> a.id, asked |-> asked]
<1>2. b' = a.b /\ handles' = Append(handles, new) /\ last'.id = a.id /\ program' = program /\ built' = built
  BY <1>1 DEF GivesUnder
<1>3. new.id = a.id
  OBVIOUS
<1> HIDE DEF new
<1>4. WF(b) /\ WF(a.b) /\ Extends(b, a.b) /\ (a.id = 0 \/ a.id \in Safe(a.b))
  BY DEF Inv, InvOn, GoodAnswer
<1>5. Safe(b) \subseteq Safe(a.b) /\ a.id \in 0 .. Len(a.b.steps) /\ SameOutputs(b, a.b)
  BY <1>4, WFFacts, KeepsSafe DEF Extends
<1>6. /\ IsSeq(handles')
      /\ \A k \in 1 .. Len(handles') : handles'[k].id = 0 \/ handles'[k].id \in Safe(a.b)
  BY <1>2, <1>3, <1>4, <1>5, MoreResults DEF Inv, InvOn
<1>7. InvOn(program', b', handles', last', built')
  BY <1>2, <1>4, <1>5, <1>6 DEF Inv, InvOn
<1> QED BY <1>2, <1>5, <1>7 DEF Kept, Inv

LEMMA OutputsKept ==
  ASSUME Inv, ~built, NEW a, GoodOutput(b, a), AnsweredOutput(a)
  PROVE  Kept
<1>1. PICK asked : Outputs(a, asked)
  BY DEF AnsweredOutput
<1>2. b' = a.b /\ handles' = Append(handles, NoResult) /\ last' = Outcome(asked, a.id, a.id = 0)
      /\ program' = program /\ built' = built
  BY <1>1 DEF Outputs
<1>3. NoResult.id = 0 /\ last'.id = a.id /\ last'.refused = (a.id = 0)
  BY <1>2 DEF NoResult, Outcome
<1>4. WF(b) /\ WF(a.b) /\ Keeps(b, a.b) /\ a.id \in 0 .. Len(a.b.steps) /\ (a.id = 0 => SameOutputs(b, a.b))
  BY DEF Inv, InvOn, GoodOutput
<1>5. Safe(b) \subseteq Safe(a.b)
  BY <1>4, WFFacts, KeepsSafe
<1>6. /\ IsSeq(handles')
      /\ \A k \in 1 .. Len(handles') : handles'[k].id = 0 \/ handles'[k].id \in Safe(a.b)
  BY <1>2, <1>3, <1>4, <1>5, MoreResults DEF Inv, InvOn
<1>7. InvOn(program', b', handles', last', built')
  BY <1>2, <1>3, <1>4, <1>6 DEF Inv, InvOn
<1> QED BY <1>2, <1>3, <1>4, <1>7 DEF Kept, Inv

\* What the types of the interface say of a call.
LEMMA CallFacts ==
  ASSUME Inv, NEW c \in Allowed
  PROVE  /\ ~built /\ WF(b)
         /\ IsSeq(On(c)) /\ Len(On(c)) = Len(c.args) /\ Len(On(c)) \in Operands(c.fn)
         /\ Ready(c) => \A j \in 1 .. Len(On(c)) : On(c)[j] \in Safe(b)
         /\ \A k \in 1 .. Named(c.fn) : c.ns[k] \in 1 .. Len(b.args)
         /\ WellTyped(c)
<1>1. ~built /\ WellTyped(c) /\ WF(b)
  BY DEF Allowed, Inv, InvOn
<1>2. c.args \in Seq(DOMAIN handles) /\ Len(c.args) \in Operands(c.fn)
      /\ \A k \in 1 .. Named(c.fn) : c.ns[k] \in DOMAIN b.args
  BY <1>1 DEF WellTyped
<1>3. PICK n \in Nat : n = Len(c.args) /\ DOMAIN c.args = 1 .. n /\ \A j \in 1 .. n : c.args[j] \in DOMAIN handles
  BY <1>2
<1>4. DOMAIN handles = 1 .. Len(handles) /\ DOMAIN b.args = 1 .. Len(b.args)
  BY <1>1, AnySequence, WFFacts DEF Inv, InvOn
<1>5. PICK h : h = On(c)
  OBVIOUS
<1>6. h = [k \in 1 .. n |-> handles[c.args[k]].id]
  BY <1>3, <1>5 DEF On
<1>7. DOMAIN h = 1 .. n /\ h = [k \in 1 .. n |-> h[k]]
  BY <1>6
<1>8. IsSeq(h) /\ Len(h) = n
  BY <1>7, SequenceFrom
<1>9. ASSUME Ready(c), NEW j \in 1 .. n PROVE h[j] \in Safe(b)
  <2>1. h[j] = handles[c.args[j]].id /\ h[j] # 0
    BY <1>3, <1>6, <1>9 DEF Ready
  <2>2. c.args[j] \in 1 .. Len(handles)
    BY <1>3, <1>4
  <2> QED BY <2>1, <2>2 DEF Inv, InvOn
<1> QED BY <1>1, <1>2, <1>3, <1>4, <1>5, <1>8, <1>9

(***************************************************************************)
(* Actions.                                                                 *)
(***************************************************************************)
LEMMA RefusedKept ==
  ASSUME Inv, ~built, Leaves(b, TRUE)
  PROVE  Kept
BY LeavesKept, ExtendsSelf DEF Inv, InvOn

LEMMA DeclarationsKept ==
  ASSUME Inv, DeclareArg \/ DeclareSafetyArg \/ DoScalarOnly
  PROVE  Kept
<1>1. ASSUME DeclareArg PROVE Kept
  <2>1. PICK c \in Allowed : IF Len(b.args) >= MaxArguments THEN Leaves(b, TRUE)
                             ELSE Leaves(Declared(c.t, IF c.op = "" THEN {} ELSE {c.op}), FALSE)
    BY <1>1 DEF DeclareArg
  <2>2. ~built /\ WF(b)
    BY CallFacts
  <2>3. PICK kinds : Leaves(b, TRUE) \/ Leaves(Declared(c.t, kinds), FALSE)
    BY <2>1
  <2> DEFINE new == Declared(c.t, kinds)
  <2>4. WF(new) /\ Safe(new) = Safe(b) /\ SameOutputs(b, new)
    BY <2>2, DeclaredGood DEF Declared
  <2> HIDE DEF new
  <2>5. Leaves(new, FALSE) => Kept
    BY <2>2, <2>4, LeavesKept
  <2> QED BY <2>2, <2>3, <2>5, RefusedKept DEF new
<1>2. ASSUME DeclareSafetyArg PROVE Kept
  <2> DEFINE kinds == {"DstSafetyCheck"}
             new == [Declared("I8", kinds) EXCEPT !.safety = Len(b.args) + 1]
  <2>1. PICK c \in Allowed : Leaves(b, TRUE) \/ Leaves(new, FALSE)
    BY <1>2 DEF DeclareSafetyArg
  <2>2. ~built /\ WF(b)
    BY CallFacts
  <2>3. "DstSafetyCheck" \in kinds
    OBVIOUS
  <2>4. WF(new) /\ Safe(new) = Safe(b) /\ SameOutputs(b, new)
    <3> HIDE DEF kinds
    <3> QED BY <2>2, <2>3, DeclaredGood DEF Declared
  <2> HIDE DEF new
  <2>5. Leaves(new, FALSE) => Kept
    BY <2>2, <2>4, LeavesKept
  <2> QED BY <2>1, <2>2, <2>5, RefusedKept
<1>3. ASSUME DoScalarOnly PROVE Kept
  <2> DEFINE new == [b EXCEPT !.scalarOnly = TRUE]
  <2>1. PICK c \in Allowed : Leaves(new, FALSE)
    BY <1>3 DEF DoScalarOnly
  <2>2. ~built /\ WF(b)
    BY CallFacts
  <2>3. WF(new) /\ Safe(b) \subseteq Safe(new) /\ SameOutputs(b, new)
    BY <2>2, ScalarOnlyGood DEF Marked, Extends
  <2> HIDE DEF new
  <2> QED BY <2>1, <2>2, <2>3, LeavesKept
<1> QED BY <1>1, <1>2, <1>3

\* Calls without operands.
LEMMA SourcesKept ==
  ASSUME Inv, DoLoad \/ DoLoadSplat \/ DoCon
  PROVE  Kept
<1>1. ASSUME DoLoad PROVE Kept
  <2>1. PICK c \in Allowed : Answered(Load(b, c.ns[1], c.flag))
    BY <1>1 DEF DoLoad, Gives, Answered
  <2> QED BY <2>1, CallFacts, LoadGood, ResultAnswers, AnsweredKept
<1>2. ASSUME DoLoadSplat PROVE Kept
  <2>1. PICK c \in Allowed : Answered(LoadSplat(b, c.ns[1]))
    BY <1>2 DEF DoLoadSplat, Gives, Answered
  <2> QED BY <2>1, CallFacts, LoadGood, ResultAnswers, AnsweredKept
<1>3. ASSUME DoCon PROVE Kept
  <2>1. PICK c \in Allowed : Answered(Con(b, c.ns[1], c.t))
    BY <1>3 DEF DoCon, Gives, Answered
  <2> QED BY <2>1, CallFacts, ConGood, ResultAnswers, AnsweredKept
<1> QED BY <1>1, <1>2, <1>3

\* The operands of a call, by how many it takes.
LEMMA OneGood ==
  ASSUME Inv, NEW c \in Allowed, Ready(c), 1 \in 1 .. Len(On(c))
  PROVE  On(c)[1] \in Safe(b) /\ WF(b) /\ ~built
BY CallFacts

LEMMA TwoGood ==
  ASSUME Inv, NEW c \in Allowed, Ready(c), Len(On(c)) \in {2, 3}
  PROVE  On(c)[1] \in Safe(b) /\ On(c)[2] \in Safe(b) /\ WF(b) /\ ~built
<1>1. 1 \in 1 .. Len(On(c)) /\ 2 \in 1 .. Len(On(c))
  OBVIOUS
<1> QED BY <1>1, CallFacts

LEMMA FirstOperand ==
  ASSUME Inv, NEW c \in Allowed, Ready(c), Operands(c.fn) \in {{1}, {1, 2}}
  PROVE  On(c)[1] \in Safe(b) /\ WF(b) /\ ~built
<1>1. Len(On(c)) \in {1, 2}
  BY CallFacts
<1>2. 1 \in 1 .. Len(On(c))
  BY <1>1
<1> QED BY <1>2, OneGood

LEMMA OneOperandKept ==
  ASSUME Inv, DoUnary \/ DoIntCast \/ DoNumericCast \/ DoNot \/ DoFpclass \/ DoGather
  PROVE  Kept
<1>1. ASSUME DoUnary PROVE Kept
  <2>1. PICK c \in Allowed : /\ c.fn = "Unary" /\ Ready(c)
                             /\ Answered(CheckedWhen(c.flag = "SafetyCheck", Unary(b, On(c)[1], c.op)))
    BY Zenon, <1>1 DEF DoUnary, Answered
  <2>2. On(c)[1] \in Safe(b) /\ WF(b) /\ ~built
    BY <2>1, FirstOperand DEF Operands
  <2>3. GoodAnswer(b, CheckedWhen(c.flag = "SafetyCheck", Unary(b, On(c)[1], c.op)))
    BY <2>2, UnaryGood, CheckedWhenGood
  <2> QED BY <2>1, <2>2, <2>3, AnsweredKept
<1>2. ASSUME DoIntCast PROVE Kept
  <2>1. PICK c \in Allowed : /\ c.fn = "IntCast" /\ Ready(c)
                             /\ Answered(IntCast(b, On(c)[1], c.t, c.op, c.flag = "SafetyCheck"))
    BY Zenon, <1>2 DEF DoIntCast, Answered
  <2>2. On(c)[1] \in Safe(b) /\ WF(b) /\ ~built
    BY <2>1, FirstOperand DEF Operands
  <2>3. c.op \in CastKinds
    BY <2>1, CallFacts DEF WellTyped
  <2>4. GoodAnswer(b, IntCast(b, On(c)[1], c.t, c.op, c.flag = "SafetyCheck"))
    BY <2>2, <2>3, IntCastGood
  <2> QED BY <2>1, <2>2, <2>4, AnsweredKept
<1>3. ASSUME DoNumericCast PROVE Kept
  <2>1. PICK c \in Allowed : c.fn = "Cast" /\ Ready(c) /\ Answered(NumericCast(b, On(c)[1], c.t, c.flag))
    BY Zenon, <1>3 DEF DoNumericCast, Gives, Answered
  <2>2. On(c)[1] \in Safe(b) /\ WF(b) /\ ~built
    BY <2>1, FirstOperand DEF Operands
  <2>3. c.t \in IntTypes \union FloatTypes /\ c.flag \in {"No", "Unsigned"}
    BY <2>1, CallFacts DEF WellTyped
  <2>4. GoodAnswer(b, NumericCast(b, On(c)[1], c.t, c.flag))
    BY <2>2, <2>3, NumericCastGood
  <2> QED BY <2>1, <2>2, <2>4, AnsweredKept
<1>4. ASSUME DoNot PROVE Kept
  <2>1. PICK c \in Allowed : c.fn = "Not" /\ Ready(c) /\ Answered(Not(b, On(c)[1]))
    BY Zenon, <1>4 DEF DoNot, Gives, Answered
  <2>2. On(c)[1] \in Safe(b) /\ WF(b) /\ ~built
    BY <2>1, FirstOperand DEF Operands
  <2>3. GoodAnswer(b, Not(b, On(c)[1]))
    BY <2>2, ConditionsGood, ResultAnswers
  <2> QED BY <2>1, <2>2, <2>3, AnsweredKept
<1>5. ASSUME DoFpclass PROVE Kept
  <2>1. PICK c \in Allowed : c.fn = "Fpclass" /\ Ready(c) /\ Answered(Fpclass(b, On(c)[1]))
    BY Zenon, <1>5 DEF DoFpclass, Gives, Answered
  <2>2. On(c)[1] \in Safe(b) /\ WF(b) /\ ~built
    BY <2>1, FirstOperand DEF Operands
  <2>3. GoodAnswer(b, Fpclass(b, On(c)[1]))
    BY <2>2, ConditionsGood
  <2> QED BY <2>1, <2>2, <2>3, AnsweredKept
<1>6. ASSUME DoGather PROVE Kept
  <2>1. PICK c \in Allowed : c.fn = "Gather" /\ Ready(c) /\ Answered(Gather(b, On(c)[1], c.ns[1]))
    BY Zenon, <1>6 DEF DoGather, Gives, Answered
  <2>2. On(c)[1] \in Safe(b) /\ WF(b) /\ ~built
    BY <2>1, FirstOperand DEF Operands
  <2>3. GoodAnswer(b, Gather(b, On(c)[1], c.ns[1]))
    BY <2>2, GatherGood
  <2> QED BY <2>1, <2>2, <2>3, AnsweredKept
<1> QED BY <1>1, <1>2, <1>3, <1>4, <1>5, <1>6

LEMMA MoreOperandsKept ==
  ASSUME Inv, DoArith \/ DoCheckedOp \/ DoCompare \/ DoPredicate \/ DoSelect \/ DoHelper
  PROVE  Kept
<1>1. ASSUME DoArith PROVE Kept
  <2>1. PICK c \in Allowed : /\ c.fn = "Arith" /\ Ready(c)
                             /\ Leaves(b, TRUE) \/ Answered(Arith(b, On(c)[1], On(c)[2], c.op, c.flag))
    BY Zenon, <1>1 DEF DoArith, Answered
  <2>2. On(c)[1] \in Safe(b) /\ On(c)[2] \in Safe(b) /\ WF(b) /\ ~built
    BY <2>1, CallFacts, TwoGood DEF Operands
  <2>3. GoodAnswer(b, Arith(b, On(c)[1], On(c)[2], c.op, c.flag))
    BY <2>2, ArithGood
  <2> QED BY <2>1, <2>2, <2>3, AnsweredKept, RefusedKept
<1>2. ASSUME DoCheckedOp PROVE Kept
  <2>1. PICK c \in Allowed : /\ c.fn = "CheckedOp" /\ Ready(c)
                             /\ Answered(CheckedOp(b, On(c)[1], IF Len(On(c)) = 2 THEN On(c)[2] ELSE 0))
    BY Zenon, <1>2 DEF DoCheckedOp, Answered
  <2>2. On(c)[1] \in Safe(b) /\ WF(b) /\ ~built
    BY <2>1, FirstOperand DEF Operands
  <2>3. PICK mask : mask = IF Len(On(c)) = 2 THEN On(c)[2] ELSE 0
    OBVIOUS
  <2>4. mask = 0 \/ mask \in Safe(b)
    BY <2>1, <2>3, TwoGood
  <2>5. GoodAnswer(b, CheckedOp(b, On(c)[1], mask))
    BY <2>2, <2>4, CheckedOpGood
  <2> QED BY <2>1, <2>2, <2>3, <2>5, AnsweredKept
<1>3. ASSUME DoCompare PROVE Kept
  <2>1. PICK c \in Allowed : /\ c.fn = "Compare" /\ Ready(c)
                             /\ Leaves(b, TRUE) \/ Answered(Compare(b, On(c)[1], On(c)[2], c.op, c.flag))
    BY Zenon, <1>3 DEF DoCompare, Gives, Answered
  <2>2. On(c)[1] \in Safe(b) /\ On(c)[2] \in Safe(b) /\ WF(b) /\ ~built
    BY <2>1, CallFacts, TwoGood DEF Operands
  <2>3. GoodAnswer(b, Compare(b, On(c)[1], On(c)[2], c.op, c.flag))
    BY <2>2, ConditionsGood
  <2> QED BY <2>1, <2>2, <2>3, AnsweredKept, RefusedKept
<1>4. ASSUME DoPredicate PROVE Kept
  <2>1. PICK c \in Allowed : c.fn = "Predicate" /\ Ready(c) /\ Answered(Predicate(b, On(c)[1], On(c)[2], c.op))
    BY Zenon, <1>4 DEF DoPredicate, Gives, Answered
  <2>2. On(c)[1] \in Safe(b) /\ On(c)[2] \in Safe(b) /\ WF(b) /\ ~built
    BY <2>1, CallFacts, TwoGood DEF Operands
  <2>3. c.op \in LogicOps
    BY <2>1, CallFacts DEF WellTyped
  <2>4. GoodAnswer(b, Predicate(b, On(c)[1], On(c)[2], c.op))
    BY <2>2, <2>3, ConditionsGood, ResultAnswers
  <2> QED BY <2>1, <2>2, <2>4, AnsweredKept
<1>5. ASSUME DoSelect PROVE Kept
  <2>1. PICK c \in Allowed : /\ c.fn = "Select" /\ Ready(c)
                             /\ \/ Leaves(b, TRUE)
                                \/ Answered(IF TypeAt(On(c)[2]) = "I1" THEN SelectPredicate(b, On(c)[1], On(c)[2], On(c)[3])
                                            ELSE Select(b, On(c)[1], On(c)[2], On(c)[3]))
    BY Zenon, <1>5 DEF DoSelect, Gives, Answered
  <2>2. On(c)[1] \in Safe(b) /\ On(c)[2] \in Safe(b) /\ On(c)[3] \in Safe(b) /\ WF(b) /\ ~built
    <3>1. Len(On(c)) = 3
      BY <2>1, CallFacts DEF Operands
    <3>2. 3 \in 1 .. Len(On(c))
      BY <3>1
    <3> QED BY <2>1, <3>1, <3>2, CallFacts, TwoGood
  <2>3. GoodAnswer(b, Select(b, On(c)[1], On(c)[2], On(c)[3]))
        /\ GoodAnswer(b, SelectPredicate(b, On(c)[1], On(c)[2], On(c)[3]))
    BY <2>2, ChoiceGood, SelectPredicateGood, ResultAnswers
  <2> QED BY <2>1, <2>2, <2>3, AnsweredKept, RefusedKept
<1>6. ASSUME DoHelper PROVE Kept
  <2>1. PICK c \in Allowed : c.fn = "Helper" /\ Ready(c) /\ Answered(Helper(b, c.op, On(c)))
    BY Zenon, <1>6 DEF DoHelper, Gives, Answered
  <2>2. c.op \in HelperOps /\ Len(On(c)) = IF c.op = "copysign" THEN 2 ELSE 1
    BY <2>1, CallFacts DEF WellTyped
  <2>3. GoodAnswer(b, Helper(b, c.op, On(c)))
    BY <2>1, <2>2, CallFacts, HelperGood
  <2> QED BY <2>1, <2>3, CallFacts, AnsweredKept
<1> QED BY <1>1, <1>2, <1>3, <1>4, <1>5, <1>6

LEMMA CondOfGood ==
  ASSUME Inv, NEW c \in Allowed, Ready(c), NEW n \in {1, 2}, Len(On(c)) \in {n, n + 1}
  PROVE  IsCond(b, CondOf(On(c), n))
<1>1. CASE Len(On(c)) > n
  <2>1. n + 1 \in 1 .. Len(On(c))
    BY <1>1
  <2> QED BY <1>1, <2>1, CallFacts DEF CondOf, IsCond
<1>2. CASE ~(Len(On(c)) > n)
  BY <1>2 DEF CondOf, IsCond
<1> QED BY <1>1, <1>2

LEMMA NamedGood ==
  ASSUME Inv, NEW c \in Allowed
  PROVE  /\ Named(c.fn) = 1 => c.ns[1] \in 1 .. Len(b.args)
         /\ Named(c.fn) = 2 => c.ns[1] \in 1 .. Len(b.args) /\ c.ns[2] \in 1 .. Len(b.args)
<1>1. \A k \in 1 .. Named(c.fn) : c.ns[k] \in 1 .. Len(b.args)
  BY CallFacts
<1>2. CASE Named(c.fn) = 1
  <2>1. 1 \in 1 .. Named(c.fn)
    BY <1>2
  <2> QED BY <1>1, <1>2, <2>1
<1>3. CASE Named(c.fn) = 2
  <2>1. 1 \in 1 .. Named(c.fn) /\ 2 \in 1 .. Named(c.fn)
    BY <1>3
  <2> QED BY <1>1, <1>3, <2>1
<1> QED BY <1>2, <1>3

LEMMA WritesKept ==
  ASSUME Inv, DoStore \/ DoPack \/ DoScatter
  PROVE  Kept
<1>1. ASSUME DoStore PROVE Kept
  <2>1. PICK c \in Allowed :
          /\ c.fn = "Store" /\ Ready(c)
          /\ AnsweredOutput(IF TypeAt(On(c)[1]) = "I1" THEN CondStorePredicate(b, On(c)[1], CondOf(On(c), 1), c.ns[1])
                            ELSE CondStoreValue(b, On(c)[1], CondOf(On(c), 1), c.ns[1]))
    BY Zenon, <1>1 DEF DoStore, AnsweredOutput
  <2>2. On(c)[1] \in Safe(b) /\ WF(b) /\ ~built
    BY <2>1, FirstOperand DEF Operands
  <2>3. c.ns[1] \in 1 .. Len(b.args)
    BY <2>1, NamedGood DEF Named
  <2>4. IsCond(b, CondOf(On(c), 1))
    <3>1. Len(On(c)) \in {1, 1 + 1}
      BY <2>1, CallFacts DEF Operands
    <3> QED BY <2>1, <3>1, CondOfGood
  <2>5. GoodOutput(b, CondStorePredicate(b, On(c)[1], CondOf(On(c), 1), c.ns[1]))
    BY <2>2, <2>3, <2>4, CondStorePredicateGood
  <2>6. GoodOutput(b, CondStoreValue(b, On(c)[1], CondOf(On(c), 1), c.ns[1]))
    BY <2>2, <2>3, <2>4, CondStoreValueGood
  <2> QED BY <2>1, <2>2, <2>5, <2>6, OutputsKept
<1>2. ASSUME DoPack PROVE Kept
  <2>1. PICK c \in Allowed : c.fn = "Pack" /\ Ready(c) /\ AnsweredOutput(Pack(b, On(c)[1], On(c)[2], c.ns[1], c.ns[2]))
    BY Zenon, <1>2 DEF DoPack, AnsweredOutput
  <2>2. On(c)[1] \in Safe(b) /\ On(c)[2] \in Safe(b) /\ WF(b) /\ ~built
    BY <2>1, CallFacts, TwoGood DEF Operands
  <2>3. c.ns[1] \in 1 .. Len(b.args) /\ c.ns[2] \in 1 .. Len(b.args)
    BY <2>1, NamedGood DEF Named
  <2>4. IsCond(b, On(c)[2])
    BY <2>2 DEF IsCond
  <2>5. GoodOutput(b, Pack(b, On(c)[1], On(c)[2], c.ns[1], c.ns[2]))
    BY <2>2, <2>3, <2>4, PackGood
  <2> QED BY <2>1, <2>2, <2>5, OutputsKept
<1>3. ASSUME DoScatter PROVE Kept
  <2>1. PICK c \in Allowed : /\ c.fn = "Scatter" /\ Ready(c)
                             /\ AnsweredOutput(CondScatter(b, On(c)[1], On(c)[2], CondOf(On(c), 2), c.ns[1]))
    BY Zenon, <1>3 DEF DoScatter, AnsweredOutput
  <2>2. Len(On(c)) \in {2, 2 + 1}
    BY <2>1, CallFacts DEF Operands
  <2>3. On(c)[1] \in Safe(b) /\ On(c)[2] \in Safe(b) /\ WF(b) /\ ~built
    BY <2>1, <2>2, TwoGood
  <2>4. c.ns[1] \in 1 .. Len(b.args)
    BY <2>1, NamedGood DEF Named
  <2>5. IsCond(b, CondOf(On(c), 2))
    BY <2>1, <2>2, CondOfGood
  <2>6. GoodOutput(b, CondScatter(b, On(c)[1], On(c)[2], CondOf(On(c), 2), c.ns[1]))
    BY <2>3, <2>4, <2>5, CondScatterGood
  <2> QED BY <2>1, <2>3, <2>6, OutputsKept
<1> QED BY <1>1, <1>2, <1>3

LEMMA AggregatesKept ==
  ASSUME Inv, DoArithAgg \/ DoGroupedArithAgg \/ DoPredicateAgg \/ DoCountIf
  PROVE  Kept
<1>1. ASSUME DoArithAgg PROVE Kept
  <2>1. PICK c \in Allowed : /\ c.fn = "ArithAgg" /\ Ready(c)
                             /\ AnsweredOutput(CondArithAgg(b, On(c)[1], CondOf(On(c), 1), c.op, c.ns[1]))
    BY Zenon, <1>1 DEF DoArithAgg, AnsweredOutput
  <2>2. On(c)[1] \in Safe(b) /\ WF(b) /\ ~built
    BY <2>1, FirstOperand DEF Operands
  <2>3. c.ns[1] \in 1 .. Len(b.args)
    BY <2>1, NamedGood DEF Named
  <2>4. IsCond(b, CondOf(On(c), 1))
    <3>1. Len(On(c)) \in {1, 1 + 1}
      BY <2>1, CallFacts DEF Operands
    <3> QED BY <2>1, <3>1, CondOfGood
  <2>5. GoodOutput(b, CondArithAgg(b, On(c)[1], CondOf(On(c), 1), c.op, c.ns[1]))
    BY <2>2, <2>3, <2>4, CondArithAggGood
  <2> QED BY <2>1, <2>2, <2>5, OutputsKept
<1>2. ASSUME DoGroupedArithAgg PROVE Kept
  <2>1. PICK c \in Allowed :
          /\ c.fn = "GroupedArithAgg" /\ Ready(c)
          /\ AnsweredOutput(GroupedArithAgg(b, On(c)[1], CondOf(On(c), 2), On(c)[2], c.op, c.ns[1]))
    BY Zenon, <1>2 DEF DoGroupedArithAgg, AnsweredOutput
  <2>2. Len(On(c)) \in {2, 2 + 1}
    BY <2>1, CallFacts DEF Operands
  <2>3. On(c)[1] \in Safe(b) /\ On(c)[2] \in Safe(b) /\ WF(b) /\ ~built
    BY <2>1, <2>2, TwoGood
  <2>4. c.ns[1] \in 1 .. Len(b.args)
    BY <2>1, NamedGood DEF Named
  <2>5. IsCond(b, CondOf(On(c), 2))
    BY <2>1, <2>2, CondOfGood
  <2>6. GoodOutput(b, GroupedArithAgg(b, On(c)[1], CondOf(On(c), 2), On(c)[2], c.op, c.ns[1]))
    BY <2>3, <2>4, <2>5, GroupedArithAggGood
  <2> QED BY <2>1, <2>3, <2>6, OutputsKept
<1>3. ASSUME DoPredicateAgg PROVE Kept
  <2>1. PICK c \in Allowed : /\ c.fn = "PredicateAgg" /\ Ready(c)
                             /\ AnsweredOutput(PredicateAgg(b, On(c)[1], c.op, c.ns[1]))
    BY Zenon, <1>3 DEF DoPredicateAgg, AnsweredOutput
  <2>2. On(c)[1] \in Safe(b) /\ WF(b) /\ ~built /\ c.ns[1] \in 1 .. Len(b.args)
    BY <2>1, FirstOperand, NamedGood DEF Operands, Named
  <2>3. GoodOutput(b, PredicateAgg(b, On(c)[1], c.op, c.ns[1]))
    BY <2>2, OtherAggregatesGood
  <2> QED BY <2>1, <2>2, <2>3, OutputsKept
<1>4. ASSUME DoCountIf PROVE Kept
  <2>1. PICK c \in Allowed : c.fn = "CountIf" /\ Ready(c) /\ AnsweredOutput(CountIf(b, On(c)[1], c.ns[1]))
    BY Zenon, <1>4 DEF DoCountIf, AnsweredOutput
  <2>2. On(c)[1] \in Safe(b) /\ WF(b) /\ ~built /\ c.ns[1] \in 1 .. Len(b.args)
    BY <2>1, FirstOperand, NamedGood DEF Operands, Named
  <2>3. GoodOutput(b, CountIf(b, On(c)[1], c.ns[1]))
    BY <2>2, OtherAggregatesGood
  <2> QED BY <2>1, <2>2, <2>3, OutputsKept
<1> QED BY <1>1, <1>2, <1>3, <1>4

LEMMA BuildKept ==
  ASSUME Inv, Build
  PROVE  Kept
<1>1. PICK c \in Allowed : TRUE
  BY DEF Build
<1>2. /\ built' = Buildable(b, MaxRoots, MaxLiveSteps) /\ handles' = Append(handles, NoResult)
      /\ last' = Outcome(Nothing, 0, ~Buildable(b, MaxRoots, MaxLiveSteps)) /\ program' = program /\ b' = b
  BY Zenon DEF Build
<1>3. WF(b) /\ NoResult.id = 0 /\ last'.id = 0
  BY <1>2 DEF Inv, InvOn, NoResult, Outcome
<1>4. /\ IsSeq(handles')
      /\ \A k \in 1 .. Len(handles') : handles'[k].id = 0 \/ handles'[k].id \in Safe(b)
  BY <1>2, <1>3, MoreResults DEF Inv, InvOn
<1>5. 0 \in 0 .. Len(b.steps)
  BY <1>3, WFFacts
<1>6. Buildable(b, MaxRoots, MaxLiveSteps) \in BOOLEAN
  BY Zenon DEF Buildable
<1>7. InvOn(program', b', handles', last', built')
  BY <1>2, <1>3, <1>4, <1>5, <1>6 DEF Inv, InvOn
<1> QED BY <1>2, <1>7, ExtendsSelf, <1>3 DEF Kept, Inv

LEMMA StepKept ==
  ASSUME Inv, Next
  PROVE  Kept
BY DeclarationsKept, SourcesKept, OneOperandKept, MoreOperandsKept, WritesKept, AggregatesKept, BuildKept DEF Next

LEMMA StutterKept ==
  ASSUME Inv, UNCHANGED vars
  PROVE  Inv'
BY DEF Inv, InvOn, vars

LEMMA InvAlways == Spec => []Inv
<1>1. Init => Inv
  BY InitInv
<1>2. Inv /\ [Next]_vars => Inv'
  BY StepKept, StutterKept DEF Kept
<1> QED BY <1>1, <1>2, PTL DEF Spec

(***************************************************************************)
(* Theorems.                                                                *)
(***************************************************************************)
\* Whatever is called, with whatever results of earlier calls: the operands of a
\* step are earlier steps, what the CSE table remembers, the roots and the
\* accumulators refer to steps and arguments that exist, however deep the rewrites
\* nest (FunctionBuilderImpl's tables).
THEOREM TypeCorrect == Spec => []TypeOK
<1>1. Inv => TypeOK
  <2> SUFFICES ASSUME Inv PROVE TypeOK
    OBVIOUS
  <2>1. WF(b) /\ program \in DOMAIN Programs /\ built \in BOOLEAN /\ last.id \in 0 .. Len(b.steps)
    BY DEF Inv, InvOn
  <2>2. /\ DOMAIN b.steps = 1 .. Len(b.steps) /\ DOMAIN b.reverse = 1 .. Len(b.steps)
        /\ DOMAIN b.args = 1 .. Len(b.args) /\ DOMAIN b.accs = 1 .. Len(b.accs) /\ DOMAIN b.roots = 1 .. Len(b.roots)
        /\ Safe(b) \subseteq 1 .. Len(b.steps) /\ Table(b.steps, Safe(b)) /\ Len(b.args) \in Nat
    BY <2>1, WFFacts
  <2>3. ASSUME NEW i \in DOMAIN b.steps, NEW k \in DOMAIN b.steps[i].args PROVE b.steps[i].args[k] \in 1 .. i - 1
    <3>1. b.steps[i].args[k] \in 1 .. Len(b.steps) /\ b.steps[i].args[k] < i /\ i \in 1 .. Len(b.steps)
      BY <2>2, BelowEarlier
    <3> QED BY <3>1
  <2>4. \A e \in b.remembered : {e.key, e.result} \subseteq DOMAIN b.steps
    BY <2>1, <2>2 DEF WF, ExpressionsOK
  <2>5. \A k \in DOMAIN b.roots : b.roots[k] \in DOMAIN b.steps
    BY <2>1, <2>2 DEF WF, OutputsOK
  <2>6. (\A k \in DOMAIN b.accs : b.accs[k].dst \in DOMAIN b.args) /\ b.safety \in 0 .. Len(b.args)
    BY <2>1, <2>2 DEF WF, AccessesOK, WrittenArg
  <2> QED BY <2>1, <2>2, <2>3, <2>4, <2>5, <2>6 DEF TypeOK
<1> QED BY <1>1, InvAlways, PTL

\* Every live step of which the vectorizer has to know that the target can do it
\* has been announced, whichever call or rewrite created the step: the announcement
\* is made by another function than the creation.
THEOREM SpecialOpsKnown == Spec => []SpecialOpsAnnounced
<1>1. Inv => SpecialOpsAnnounced
  <2> SUFFICES ASSUME Inv, NEW s \in LiveSteps(b) PROVE Needs(b.steps, s) \subseteq b.special
    BY DEF SpecialOpsAnnounced
  <2>1. s \in Safe(b)
    BY LiveSafe DEF Inv, InvOn
  <2>2. StepNeeds(b.steps, b.steps[s]) \subseteq b.special
    BY <2>1 DEF Safe, SafeIn, Met
  <2> QED BY <2>2, NeedsOfStep
<1> QED BY <1>1, InvAlways, PTL

\* With CastDecomposition every conversion that is live keeps the width or stays
\* between floats: FloatCastOf splits the others, whatever the table holds already
\* and also when the peepholes of the integer casts find an earlier step to use.
THEOREM CastsAreDecomposed == Spec => []CastsDecomposed
<1>1. Inv => CastsDecomposed
  <2> SUFFICES ASSUME Inv, "CastDecomposition" \in b.tr, NEW s \in LiveSteps(b), b.steps[s].kind = "FloatCast",
                      TypeAt(b.steps[s].args[1]) \in IntTypes \union FloatTypes
               PROVE  LET from == TypeAt(b.steps[s].args[1])
                          to == b.steps[s].dtype
                      IN  {from, to} \subseteq FloatTypes \/ Size(from) = Size(to)
    BY DEF CastsDecomposed
  <2>1. s \in Safe(b)
    BY LiveSafe DEF Inv, InvOn
  <2>2. NeedsNoSplit(b.steps, b.tr, b.steps[s])
    BY <2>1 DEF Safe, SafeIn, Met
  <2> QED BY <2>2 DEF NeedsNoSplit, Fit, TypeAt
<1> QED BY <1>1, InvAlways, PTL

\* A call that throws leaves no half-made output: neither a root nor an accumulator,
\* although it may have created steps and marked arguments before it threw.
THEOREM RefusalsAddNothing == Spec => RefusedAddsNoOutput
<1> DEFINE A == last'.refused \/ last'.id = 0 => b'.roots = b.roots /\ b'.accs = b.accs
<1>1. Inv /\ [Next]_vars => [A]_vars
  BY StepKept DEF Kept, SameOutputs
<1>2. Spec => []Inv
  BY InvAlways
<1> QED BY <1>1, <1>2, PTL DEF Spec, RefusedAddsNoOutput

\* In a function build() accepted, no row reads or writes through an argument what
\* another access writes there, but for a table and for a sequential read before the
\* write; and each argument that is written has a kind that says so, also the ones
\* a later gather made an index array.
THEOREM AccessesAgree == Spec => []BuiltAccessesAgree
<1> DEFINE writes == {"SequentialWrite", "RandomWrite", "AppendWrite", "AggregateWrite"}
<1>1. ASSUME Inv, NEW p \in Accesses(b), p.how \in writes PROVE WrittenArg(b, p.arg)
  <2>1. WF(b)
    BY <1>1 DEF Inv, InvOn
  <2>2. CASE \E s \in LiveSteps(b) : p = [by |-> s, arg |-> b.steps[s].val[1], how |-> AccessOf(b.steps[s].kind)]
    <3>1. PICK s \in LiveSteps(b) : p = [by |-> s, arg |-> b.steps[s].val[1], how |-> AccessOf(b.steps[s].kind)]
      BY <2>2
    <3>2. p.arg = b.steps[s].val[1] /\ p.how = AccessOf(b.steps[s].kind)
      BY <3>1
    <3>3. b.steps[s].kind \in WriteKinds
      BY <1>1, <3>2 DEF AccessOf, WriteKinds
    <3>4. s \in 1 .. Len(b.steps)
      BY <2>1, LiveSafe, WFFacts
    <3> QED BY <2>1, <3>2, <3>3, <3>4 DEF WF, AccessesOK
  <2>3. CASE \E k \in DOMAIN b.accs : p = [by |-> -k, arg |-> b.accs[k].dst, how |-> "AggregateWrite"]
    <3>1. PICK k \in DOMAIN b.accs : p = [by |-> -k, arg |-> b.accs[k].dst, how |-> "AggregateWrite"]
      BY <2>3
    <3>2. p.arg = b.accs[k].dst /\ k \in 1 .. Len(b.accs)
      BY <2>1, <3>1, WFFacts
    <3> QED BY <2>1, <3>2 DEF WF, AccessesOK
  <2>4. CASE b.safety # 0 /\ p = [by |-> 0, arg |-> b.safety, how |-> "AggregateWrite"]
    BY <2>1, <2>4 DEF WF, AccessesOK
  <2>5. p \in Accesses(b) =>
          \/ \E s \in LiveSteps(b) : p = [by |-> s, arg |-> b.steps[s].val[1], how |-> AccessOf(b.steps[s].kind)]
          \/ \E k \in DOMAIN b.accs : p = [by |-> -k, arg |-> b.accs[k].dst, how |-> "AggregateWrite"]
          \/ b.safety # 0 /\ p = [by |-> 0, arg |-> b.safety, how |-> "AggregateWrite"]
    BY DEF Accesses
  <2> QED BY <2>2, <2>3, <2>4, <2>5
<1>2. ASSUME NEW x, NEW y, x \in writes, Compatible(x, y)
      PROVE  \/ {x, y} \subseteq {"RandomRead", "RandomWrite"}
             \/ {x, y} \subseteq {"SequentialRead", "SequentialWrite"} /\ y \notin writes
  BY <1>2 DEF Compatible
<1>3. Inv => BuiltAccessesAgree
  <2> SUFFICES ASSUME Inv, built, NEW p \in Accesses(b), p.how \in writes
               PROVE  /\ b.args[p.arg].kind \intersect {"Dst", "DstAgg", "DstSafetyCheck", "SrcIdxArr"} # {}
                      /\ \A q \in Accesses(b) :
                           q.by # p.by /\ q.arg = p.arg =>
                             \/ {p.how, q.how} \subseteq {"RandomRead", "RandomWrite"}
                             \/ {p.how, q.how} \subseteq {"SequentialRead", "SequentialWrite"} /\ q.how \notin writes
    BY Zenon DEF BuiltAccessesAgree
  <2>1. WrittenArg(b, p.arg)
    BY <1>1
  <2>2. ASSUME NEW q \in Accesses(b), q.by # p.by, q.arg = p.arg PROVE Compatible(p.how, q.how)
    BY <2>2 DEF Inv, InvOn, Buildable
  <2> QED BY <1>2, <2>1, <2>2 DEF WrittenArg, Written
<1> QED BY <1>3, InvAlways, PTL
=============================================================================

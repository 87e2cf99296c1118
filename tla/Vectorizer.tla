----------------------------- MODULE Vectorizer -----------------------------
(***************************************************************************)
(* The algebraic vectorizer (core/vectorizer.cpp) and the part of the MIR  *)
(* lowering that places vector work on rows (core/mir.cpp).                *)
(*                                                                         *)
(* A function is a graph of typed steps.  Every node gets a coefficient:   *)
(* its vector has 16 * 2^coef bytes.  Neighbours must work on the same     *)
(* number of rows, so a cast between element sizes puts their coefficients *)
(* apart; what a target cannot span is bridged by nodes that combine two   *)
(* narrow results or widen one half, and a root above a widened half is    *)
(* split in two, each covering half of the rows.                           *)
(*                                                                         *)
(* try_vectorize is a sequence of passes; each pass, and each round of a   *)
(* pass that iterates, is an action.  Which operation an arithmetic step   *)
(* performs does not matter here and is left out, as is the cost estimate  *)
(* behind proactive unrolling, whose result is chosen freely.              *)
(***************************************************************************)
EXTENDS Integers, FiniteSets, SequencesExt, RowBlocks, TLC

CONSTANTS Inputs,  \* what try_hir_to_vect is called with, see Input
          None     \* "no carrier type"

VARIABLES pass,        \* the pass to run next, or how vectorization ended
          tries,       \* rounds of the pass so far
          graph,       \* the node pool, by id
          roots,       \* RootState per vector root
          assignment,  \* carrier types and coefficients of the nodes
          item_width,  \* rows a node works on, as a power of two
          loop_width,  \* rows of one iteration of the main loop
          failure,     \* kind and internal flag of VectorizationFailure
          main_loop,   \* per lowered root: what it covers and what it reads
          input

vars == <<pass, tries, graph, roots, assignment, item_width, loop_width, failure, main_loop,
          input>>

-----------------------------------------------------------------------------
(* Types, nodes and graphs. *)

IntTypes == <<"I8", "I16", "I32", "I64">>
is_float_dtype(d) == d \in {"F32", "F64"}

scalar_dtype_size_log2 ==
    [I1 |-> 0, I8 |-> 0, I16 |-> 1, I32 |-> 2, I64 |-> 3, F32 |-> 2, F64 |-> 3, I128 |-> 4]

SetMin(S) == CHOOSE x \in S : \A y \in S : x <= y
SetMax(S) == CHOOSE x \in S : \A y \in S : x >= y

Size(d) == scalar_dtype_size_log2[d]
scalar_dtype_with_size(log) == IntTypes[log + 1]

Synthetic == {"CastDirect", "CastNarrowCombine", "CastWidenPart"}

PositionIn(s, x) == CHOOSE i \in DOMAIN s : s[i] = x

\* A node made by the vectorizer; op stands for NodeKind and for StepKind.
NewNode(op, dtype, arg, combine) ==
    [op |-> op, dtype |-> dtype, step |-> 0, combine |-> combine, args |-> <<arg>>]

\* The nodes below the roots, each once and after its children.
Postorder(g, rs) ==
    LET walk[n \in DOMAIN g] == FlattenSeq([i \in DOMAIN g[n].args |-> walk[g[n].args[i]]]) \o <<n>>
        visits == FlattenSeq([i \in DOMAIN rs |-> walk[rs[i].node]])
        FirstVisit(i) == \A j \in 1 .. i - 1 : visits[j] # visits[i]
        order == SelectSeq([i \in DOMAIN visits |-> i], FirstVisit)
    IN  [k \in DOMAIN order |-> visits[order[k]]]

\* The nodes reached from n without going below a node of stop.
ReachedAbove(g, n, stop) ==
    LET reach[m \in DOMAIN g] ==
            IF m \in stop THEN {m} ELSE {m} \cup UNION {reach[c] : c \in ToSet(g[m].args)}
    IN  reach[n]

\* Mutant: parents keep the old node.
MutReplaceRootOnly(s, parents, old, new) ==
    [s EXCEPT !.rs = [i \in DOMAIN s.rs |->
        IF s.rs[i].node = old THEN [s.rs[i] EXCEPT !.node = new] ELSE s.rs[i]]]

\* old is replaced below every parent the last assignment knew, and as a root.
replace_node(s, parents, old, new) ==
    [g |-> [n \in DOMAIN s.g |->
               IF n \in parents THEN [s.g[n] EXCEPT !.args = ReplaceAll(@, old, new)]
               ELSE s.g[n]],
     rs |-> [i \in DOMAIN s.rs |->
               IF s.rs[i].node = old THEN [s.rs[i] EXCEPT !.node = new] ELSE s.rs[i]]]

-----------------------------------------------------------------------------
(* graph_assign: carrier types, then coefficients by component. *)

\* Pairs of nodes that must agree on a carrier, in the order they are tried.
CarrierPairs(g, n) ==
    LET c == g[n].args
        Rest(k) == IF Len(c) > k THEN << <<c[k], c[k + 1]>> >> ELSE << >>
    IN  CASE g[n].op \in {"Compare", "Fpclass", "PredicateNot", "AccPredicateBinary", "Countif"} ->
                << <<n, c[1]>> >>
          [] g[n].op \in {"CheckedOp", "Store", "Pack", "AccArithBinary", "AccSum128"} ->
                << <<n, c[1]>> >> \o Rest(1)
          [] g[n].op = "PredicateBinary" -> << <<n, c[1]>>, <<n, c[2]>> >>
          [] g[n].op = "Select" ->
                << <<n, c[2]>>, IF g[n].dtype = "I1" THEN <<c[2], c[3]>> ELSE <<c[1], c[2]>> >>
          [] g[n].op = "Scatter" -> << <<n, c[2]>> >> \o Rest(2)
          [] OTHER -> << >>

graph_unify_carriers(carrier, p) ==
    IF carrier[p[1]] # None /\ carrier[p[2]] = None
    THEN [carrier EXCEPT ![p[2]] = carrier[p[1]]]
    ELSE IF carrier[p[1]] = None /\ carrier[p[2]] # None
    THEN [carrier EXCEPT ![p[1]] = carrier[p[2]]]
    ELSE carrier

\* The nodes from position i on are visited in order, and then all again
\* until a round changes nothing.
RECURSIVE Propagated(_, _, _, _)
Propagated(g, order, i, carrier) ==
    LET Visited(n) == FoldLeft(graph_unify_carriers, carrier, CarrierPairs(g, n))
        changing == {j \in i .. Len(order) : Visited(order[j]) # carrier}
        first == SetMin(changing)
    IN  IF changing # {} THEN Propagated(g, order, first + 1, Visited(order[first]))
        ELSE IF i = 1 THEN carrier
        ELSE Propagated(g, order, 1, carrier)

\* Predicates nothing gives a type to are carried as bytes.
Carriers(g, order) ==
    LET seed == [n \in DOMAIN g |->
                    IF g[n].dtype \in {"I1", "I128"} \/ g[n].op = "Countif" THEN None
                    ELSE g[n].dtype]
        known == Propagated(g, order, 1, seed)
    IN  Propagated(g, order, 1, [n \in DOMAIN g |->
            IF known[n] = None /\ g[n].dtype = "I1" THEN "I8" ELSE known[n]])

\* How far the coefficient of a child is from its parent's.
EdgeDelta(g, carrier, p, c) ==
    IF g[p].op \in {"CastNarrowCombine", "CastWidenPart"} \/ carrier[p] = None THEN 0
    ELSE Size(carrier[c]) - Size(carrier[p])

\* Coefficients of the nodes connected to those that have one.
RECURSIVE Spread(_, _)
Spread(edges, known) ==
    LET out == {e \in edges : e.parent \in DOMAIN known /\ e.child \notin DOMAIN known}
        up == {e \in edges : e.child \in DOMAIN known /\ e.parent \notin DOMAIN known}
        below == {e.child : e \in out}
        above == {e.parent : e \in up}
    IN  IF out \cup up = {} THEN known
        ELSE Spread(edges, known
                @@ [n \in below |-> LET e == CHOOSE e \in out : e.child = n
                                    IN  known[e.parent] + e.delta]
                @@ [n \in above |-> LET e == CHOOSE e \in up : e.parent = n
                                    IN  known[e.child] - e.delta])

RECURSIVE AllSpread(_, _, _)
AllSpread(order, edges, found) ==
    LET rest == SelectSeq(order, LAMBDA n : n \notin DOMAIN found.coef)
        members == Spread(edges, rest[1] :> 0)
    IN  IF rest = << >> THEN found
        ELSE AllSpread(order, edges,
                [coef |-> found.coef @@ members,
                 component |-> found.component @@ [m \in DOMAIN members |-> rest[1]]])

graph_coef_abs_limit == 16

graph_assign(g, rs) ==
    LET order == Postorder(g, rs)
        carrier == Carriers(g, order)
        edges == {[parent |-> p, child |-> c, delta |-> EdgeDelta(g, carrier, p, c)] :
                     <<p, c>> \in UNION {{p} \X ToSet(g[p].args) : p \in ToSet(order)}}
        found == AllSpread(order, edges, [coef |-> << >>, component |-> << >>])
    IN  [order |-> order, nodes |-> ToSet(order), carrier |-> carrier,
         coef |-> found.coef, component |-> found.component,
         ok |-> /\ \A n \in ToSet(order) :
                      carrier[n] = None => g[n].dtype = "I1" \/ g[n].op = "Countif"
                /\ \A e \in edges : found.coef[e.child] = found.coef[e.parent] + e.delta
                /\ \A n \in ToSet(order) :
                      found.coef[n] \in -graph_coef_abs_limit .. graph_coef_abs_limit]

-----------------------------------------------------------------------------
(* Casts, and the two ways of bridging one that a target cannot span. *)

vec_range == input.target.vec_range
Flag(f) == f \in input.transformations
Delta(lower, upper) == assignment.coef[lower] - assignment.coef[upper]

ArgOf(n) == graph[n].args[1]
From(n) == assignment.carrier[ArgOf(n)]
To(n) == graph[n].dtype
FloatInfo(n) == graph[n].op = "FloatCast" /\ is_float_dtype(From(n)) /\ is_float_dtype(To(n))
IsNarrow(n) == graph[n].op = "Trunc" \/ (FloatInfo(n) /\ Size(From(n)) > Size(To(n)))
IsWiden(n) == graph[n].op \in {"Sext", "Zext"} \/ (FloatInfo(n) /\ Size(From(n)) < Size(To(n)))

\* Casts to narrower types that span more than the target's range.
Downcasts ==
    SelectSeq(assignment.order,
              LAMBDA n : /\ IsNarrow(n)
                         /\ Delta(ArgOf(n), n) > vec_range
                         /\ FloatInfo(n) => Delta(ArgOf(n), n) = 1)

\* One direct cast over the target's range, then halvings.
DowncastChain(g, n) ==
    LET first == IF vec_range = 0 THEN 1 ELSE vec_range
        Dtype(k) == IF FloatInfo(n) THEN To(n) ELSE scalar_dtype_with_size(Size(From(n)) - k)
        Link(h, k) ==
            Append(h, NewNode(IF k = vec_range THEN "CastDirect" ELSE "CastNarrowCombine",
                              Dtype(k), IF k = first THEN ArgOf(n) ELSE Len(h), 0))
    IN  FoldLeft(Link, g, [i \in 1 .. Delta(ArgOf(n), n) - first + 1 |-> first + i - 1])

\* Each cast becomes the last node of its chain.
Replaced(casts, Chain(_, _)) ==
    LET Replace(s, n) ==
            LET h == Chain(s.g, n)
            IN  replace_node([s EXCEPT !.g = h], assignment.nodes, n, Len(h))
    IN  FoldLeft(Replace, [g |-> graph, rs |-> roots], casts)

SplitDtype(n) ==
    IF FloatInfo(n) THEN To(n) ELSE scalar_dtype_with_size(Size(From(n)) + 1)

CanHalve(n) == IsWiden(n) /\ Size(From(n)) + 1 <= Size(To(n))

\* Casts to wider types that span more than the target's range.
UpcastSubjects ==
    {n \in assignment.nodes : /\ CanHalve(n)
                              /\ Delta(n, ArgOf(n)) > vec_range
                              /\ FloatInfo(n) => From(n) = "F32" /\ To(n) = "F64"}

\* The nodes from id base + 1 on that copy all that is above the subjects, the
\* root's copy last.  Each edge into a subject gets a part of the subject's
\* argument, widened once, and the rest of the cast if there is any.
SplitClone(base, root, subjects) ==
    LET above == ReachedAbove(graph, root, subjects) \ subjects
        copied == SelectSeq(assignment.order, LAMBDA n : n \in above)
        Slot(k) == <<copied[1 + (k \div 3)], 1 + (k % 3)>>
        Target(e) == graph[e[1]].args[e[2]]
        cuts == SelectSeq([k \in 1 .. 3 * Len(copied) |-> Slot(k - 1)],
                          LAMBDA e : e[2] <= Len(graph[e[1]].args) /\ Target(e) \in subjects)
        PartAt(e) == base + PositionIn(cuts, e)
        RestAt(e) == base + Len(cuts) + PositionIn(cuts, e)
        CloneOf(n) == base + 2 * Len(cuts) + PositionIn(copied, n)
        ArgAt(e) == IF Target(e) \notin subjects THEN CloneOf(Target(e))
                    ELSE IF SplitDtype(Target(e)) = To(Target(e)) THEN PartAt(e)
                    ELSE RestAt(e)
        Part(e) == NewNode("CastWidenPart", SplitDtype(Target(e)), ArgOf(Target(e)), 0)
        Rest(e) == [graph[Target(e)] EXCEPT !.args = <<PartAt(e)>>]
        Copy(n) == [graph[n] EXCEPT !.args = [i \in DOMAIN @ |-> ArgAt(<<n, i>>)]]
    IN  [i \in DOMAIN cuts |-> Part(cuts[i])] \o [i \in DOMAIN cuts |-> Rest(cuts[i])]
            \o [i \in DOMAIN copied |-> Copy(copied[i])]

\* Mutant: the halves are numbered as if the first block were block one.
MutCountedFromOne(r, low, high) == << [r EXCEPT !.node = low, !.block = 2 * @ - 1],
                                      [r EXCEPT !.node = high, !.block = 2 * @] >>

LowAndHigh(r, low, high) == << [r EXCEPT !.node = low, !.block = 2 * @],
                               [r EXCEPT !.node = high, !.block = 2 * @ + 1] >>

\* Every root above a subject becomes two, for the halves of its rows.
SplitRoots(subjects) ==
    LET Split(s, r) ==
            IF ReachedAbove(graph, r.node, subjects) \cap subjects = {}
            THEN [s EXCEPT !.rs = Append(@, r)]
            ELSE LET low == s.g \o SplitClone(Len(s.g), r.node, subjects)
                     high == low \o SplitClone(Len(low), r.node, subjects)
                 IN  [g |-> high,
                      rs |-> s.rs \o LowAndHigh(r, Len(low), Len(high))]
    IN  FoldLeft(Split, [g |-> graph, rs |-> << >>], roots)

-----------------------------------------------------------------------------
(* Ranges: the coefficients of a component must fit the target's range. *)

Components == {assignment.component[n] : n \in assignment.nodes}
CoefsOf(k) == {assignment.coef[n] : n \in {m \in assignment.nodes : assignment.component[m] = k}}

graph_component_ranges_fit ==
    \A k \in Components : SetMax(CoefsOf(k)) - SetMin(CoefsOf(k)) <= vec_range

\* The cast that reaches furthest out of its component's range, one to a
\* narrower type before one to a wider; 0 if n is no candidate.
Score(n) ==
    LET limit == SetMin(CoefsOf(assignment.component[n])) + vec_range
        Reach(high, low) ==
            IF assignment.coef[high] > limit /\ Delta(high, low) > 0
            THEN (assignment.coef[high] - limit) * 16 + Delta(high, low)
            ELSE 0
    IN  CASE IsNarrow(n) -> IF Reach(ArgOf(n), n) = 0 THEN 0 ELSE 1000 + Reach(ArgOf(n), n)
          [] ~IsNarrow(n) /\ CanHalve(n) -> Reach(n, ArgOf(n))
          [] OTHER -> 0

RangeCandidates ==
    LET best == SetMax({Score(n) : n \in assignment.nodes})
    IN  SelectSeq(assignment.order, LAMBDA n : best > 0 /\ Score(n) = best)

\* All nodes of the candidate's step are rewritten alike.
SameStep(n) == {m \in assignment.nodes : graph[m].step = graph[n].step}

RangeDowncastChain(g, n) ==
    LET double == Size(To(n)) + 1
        direct == IF Size(From(n)) <= double THEN g
                  ELSE Append(g, NewNode("CastDirect", scalar_dtype_with_size(double), ArgOf(n), 0))
    IN  Append(direct, NewNode("CastNarrowCombine", To(n),
                               IF direct = g THEN ArgOf(n) ELSE Len(direct), 0))

graph_apply_component_range_cast(n) ==
    IF IsNarrow(n)
    THEN Replaced(SelectSeq(assignment.order,
                            LAMBDA m : /\ m \in SameStep(n) /\ IsNarrow(m)
                                       /\ Size(From(m)) > Size(To(m))),
                  RangeDowncastChain)
    ELSE SplitRoots({m \in SameStep(n) : CanHalve(m)})

-----------------------------------------------------------------------------
(* Normalization: a component is shifted into the target's range. *)

Lanes(dtype, coef) == 4 + coef - Size(dtype)
RootsOf(k) == {i \in DOMAIN roots : assignment.component[roots[i].node] = k}
IsRoot(i, ops) == graph[roots[i].node].op \in ops
StoresMask(i) == IsRoot(i, {"Store"}) /\ graph[roots[i].node].dtype = "I1"

graph_root_prefers_min_coef(i) == StoresMask(i) \/ IsRoot(i, {"AccPredicateBinary", "Countif"})

\* Shifts after which the masks of the component's roots have 8 bits.
MinAdjusts(k) ==
    {SetMin({c \in 0 .. vec_range : Lanes(assignment.carrier[n], c) >= 3}) - assignment.coef[n] :
        n \in {roots[i].node : i \in {j \in RootsOf(k) :
                 /\ input.target.max_mask > 4
                 /\ StoresMask(j) \/ IsRoot(j, {"Countif"})
                 /\ \E c \in 0 .. vec_range : Lanes(assignment.carrier[roots[j].node], c) >= 3}}}

Adjust(k) ==
    IF RootsOf(k) # {} /\ \A i \in RootsOf(k) : graph_root_prefers_min_coef(i)
    THEN SetMax({-SetMin(CoefsOf(k))} \cup MinAdjusts(k))
    ELSE vec_range - SetMax(CoefsOf(k))

Normalizable ==
    \A k \in Components : \A c \in CoefsOf(k) : c + Adjust(k) \in 0 .. vec_range

-----------------------------------------------------------------------------
(* Mask combining: several narrow masks are joined into a wide one. *)

IsConditional(n) == graph[n].op = "Store" /\ Len(graph[n].args) = 2
IsLoad(n) == graph[n].op = "Load"

\* Nodes below which masks are not joined.
KeepsMasks(n) ==
    \/ graph[n].op \in {"Select", "Pack"}
    \/ IsConditional(n)
    \/ /\ graph[n].op = "Store" /\ graph[n].dtype = "I1"
       /\ \/ IsLoad(ArgOf(n))
          \/ graph[ArgOf(n)].op = "PredicateNot" /\ IsLoad(ArgOf(ArgOf(n)))

find_mask_combineable_nodes(top) ==
    LET below[n \in assignment.nodes] ==
            IF KeepsMasks(n) THEN {}
            ELSE IF graph[n].op \in {"PredicateBinary", "Compare", "Fpclass"} THEN {n}
            ELSE UNION {below[c] : c \in ToSet(graph[n].args)}
    IN  below[top]

\* The predicate under which a root acts, 0 if there is none.
Condition(n) ==
    LET args == graph[n].args
    IN  CASE graph[n].op = "AccPredicateBinary" -> args[1]
          [] graph[n].op \in {"Store", "AccArithBinary"} /\ Len(args) = 2 -> args[2]
          [] graph[n].op = "Scatter" /\ Len(args) = 3 -> args[3]
          [] OTHER -> 0

RootNodes == {r.node : r \in ToSet(roots)}

ForbiddenMasks ==
    UNION {find_mask_combineable_nodes(Condition(n)) : n \in {m \in RootNodes : Condition(m) # 0}}

FoundMasks ==
    UNION {find_mask_combineable_nodes(n) :
              n \in {m \in RootNodes : Condition(m) = 0 /\ graph[m].op # "Countif"}}

ParentSlots(n) ==
    {<<p, i>> \in assignment.nodes \X (1 .. 3) : i <= Len(graph[p].args) /\ graph[p].args[i] = n}

graph_has_shared_upper_tree(n) ==
    \E m \in assignment.nodes :
        n \in ReachedAbove(graph, m, {}) /\ Cardinality(ParentSlots(m)) > 1

CombineableMasks == {n \in FoundMasks : ~graph_has_shared_upper_tree(n)}

graph_calculate_expand_coef(n) ==
    (IF input.target.max_mask < 5 THEN input.target.max_mask ELSE 5)
        - Lanes(assignment.carrier[n], assignment.coef[n])

\* How often each mask is doubled: all to the width of the widest if several.
Expansion ==
    LET expand == [n \in CombineableMasks |-> graph_calculate_expand_coef(n)]
        all == {expand[n] : n \in CombineableMasks}
        base == IF Cardinality(CombineableMasks) > 1 THEN SetMin(all) ELSE 0
    IN  IF FoundMasks \cap ForbiddenMasks # {} \/ \E e \in all : e < 0 THEN << >>
        ELSE [n \in {m \in CombineableMasks : expand[m] # base} |-> expand[n] - base]

WithCombineMasks(expand) ==
    LET Combine(s, n) ==
            LET h == Append(s.g, NewNode("CombineMasks", "I1", n, expand[n]))
            IN  replace_node([s EXCEPT !.g = h], assignment.nodes, n, Len(h))
    IN  FoldLeft(Combine, [g |-> graph, rs |-> roots], SetToSeq(DOMAIN expand)).g

\* Ways down from top to n that do not enter a combined mask.
PathsTo(g, top, n) ==
    LET paths[m \in DOMAIN g] ==
            IF m = n THEN 1
            ELSE IF g[m].op = "CombineMasks" THEN 0
            ELSE FoldLeft(LAMBDA sum, c : sum + paths[c], 0, g[m].args)
    IN  paths[top]

\* Mutant: the vectors beside a combined mask stay as they are.
MutMaskWidensAlone(g) == assignment.coef

\* The vectors beside a combined mask widen with it, once per way to them.
graph_update_coefs_according_to_mask(g) ==
    LET Masks(r) == SelectSeq(Postorder(g, <<r>>), LAMBDA n : g[n].op = "CombineMasks")
        Widen(coef, r) ==
            IF Masks(r) = << >> THEN coef
            ELSE [n \in DOMAIN coef |->
                     coef[n] + g[Last(Masks(r))].combine * PathsTo(g, r.node, n)]
    IN  FoldLeft(Widen, assignment.coef, roots)

-----------------------------------------------------------------------------
(* Concretization: how many rows a node works on (item_width), as a power  *)
(* of two.                                                                 *)

Inherits == [PredicateBinary |-> 1, PredicateNot |-> 1, Permute |-> 1, Store |-> 1,
             Pack |-> 1, AccPredicateBinary |-> 1, Countif |-> 1, AccArithBinary |-> 1,
             AccSum128 |-> 1, Select |-> 2, Scatter |-> 2]

ItemWidths(g, a) ==
    LET lanes[n \in DOMAIN g] ==
            LET op == g[n].op
            IN  IF op \in DOMAIN Inherits THEN lanes[g[n].args[Inherits[op]]]
                ELSE IF op = "CombineMasks" THEN lanes[g[n].args[1]] + g[n].combine
                ELSE Lanes(a.carrier[n], a.coef[n])
    IN  [n \in ToSet(Postorder(g, roots)) |-> lanes[n]]

Error(kind, internal) == [kind |-> kind, internal |-> internal]
NoError == Error("None", FALSE)

\* The first error among those Of finds at the nodes, in visiting order.
FirstError(Of(_)) ==
    LET found == SelectSeq(Postorder(graph, roots), LAMBDA n : Of(n) # NoError)
    IN  IF found = << >> THEN NoError ELSE Of(found[1])

ConcretizeError(width, n) ==
    LET w == width[n]
        of == width[ArgOf(n)]
        op == graph[n].op
    IN  IF op \notin DOMAIN Inherits \cup {"CombineMasks"} /\ w \notin 1 .. 6
        THEN Error("InvalidLaneCount", TRUE)
        ELSE CASE op = "CombineMasks" /\ w > 6 -> Error("MaskCombineTooWide", FALSE)
               [] op = "CastNarrowCombine" /\ w # of + 1 ->
                     Error("DowncastCombineItemWidthMismatch", TRUE)
               [] op = "CastDirect" /\ w # of -> Error("SyntheticIntCastItemWidthMismatch", TRUE)
               [] op = "CastWidenPart" /\ of # w + 1 -> Error("UpcastHalfItemWidthMismatch", TRUE)
               [] OTHER -> NoError

\* Arguments that must be as wide as each other.
SameWidthPairs(n) ==
    LET count == Len(graph[n].args)
        first == IF count >= 2 THEN {<<1, 2>>} ELSE {}
        second == IF count = 3 THEN {<<2, 3>>} ELSE {}
    IN  CASE graph[n].op \in {"ArithBinary", "CheckedOp", "Compare", "PredicateBinary", "Store",
                              "Pack", "AccArithBinary", "AccSum128"} -> first
          [] graph[n].op \in {"Select", "Scatter"} -> first \cup second
          [] OTHER -> {}

is_mask(n) == graph[n].op = "CombineMasks" \/ (graph[n].op # "Countif" /\ graph[n].dtype = "I1")

ValidateError(n) ==
    LET arg(i) == item_width[graph[n].args[i]]
    IN  IF is_mask(n) /\ item_width[n] > input.target.max_mask
        THEN Error("MaskDTypeTooWide", TRUE)
        ELSE IF ~is_mask(n) /\ graph[n].op # "Countif" /\ assignment.coef[n] \notin 0 .. vec_range
        THEN Error("CoefficientRangeNeedsNormalization", graph[n].op \in Synthetic)
        ELSE IF \E p \in SameWidthPairs(n) : arg(p[1]) # arg(p[2]) THEN Error("WidthMismatch", TRUE)
        ELSE NoError

-----------------------------------------------------------------------------
(* Unrolling: the groups of roots of one logical root get one width. *)

LogicalRoots == {r.logical : r \in ToSet(roots)}
GroupOf(l) == SelectSeq(roots, LAMBDA r : r.logical = l)
GroupWidth(l) == FoldLeft(LAMBDA sum, r : sum + 2 ^ item_width[r.node], 0, GroupOf(l))

PowersOfTwo == {2 ^ k : k \in 0 .. 16}
nonzero_log2(x) == CHOOSE k \in 0 .. 16 : 2 ^ k = x
WidestGroup == SetMax({GroupWidth(l) : l \in LogicalRoots})

UnrollError ==
    IF WidestGroup \notin PowersOfTwo THEN Error("RootWidthsNotPowerOfTwo", FALSE)
    ELSE IF ~Flag("Unroll") /\ \E l \in LogicalRoots : GroupWidth(l) # WidestGroup
    THEN Error("RootWidthsMismatch", FALSE)
    ELSE IF \E l \in LogicalRoots : WidestGroup % GroupWidth(l) # 0
    THEN Error("RootWidthsNotDivisible", FALSE)
    ELSE NoError

UnrollCoef(l) == nonzero_log2(WidestGroup \div GroupWidth(l))

GroupError ==
    IF \A r \in ToSet(roots) : GroupWidth(r.logical) * 2 ^ r.unroll = loop_width THEN NoError
    ELSE Error("RootWidthsMismatch", TRUE)

-----------------------------------------------------------------------------
(* Lowering: the row each lane of a node stands for when the node is       *)
(* lowered for a block of rows.                                            *)

Garbled == << >>

lower_vect[n \in DOMAIN graph, b \in RowBlock] ==
    LET op == graph[n].op
        args == graph[n].args
        width == 2 ^ item_width[n]
        arg_width == 2 ^ item_width[args[1]]
        part == index_in_containing_block(b, arg_width) * width
        copies == 2 ^ graph[n].combine
        read == {lower_vect[c, b] : c \in ToSet(args)}
    IN  IF b.width # width THEN Garbled
        ELSE CASE args = << >> -> [i \in 1 .. width |-> row_offset(b) + i - 1]
               [] op = "CastNarrowCombine" ->
                     lower_vect[args[1], lhs_half(b)] \o lower_vect[args[1], rhs_half(b)]
               [] op = "CastWidenPart" ->
                     SubSeq(lower_vect[args[1], containing_block(b, arg_width)],
                            part + 1, part + width)
               [] op = "CombineMasks" ->
                     FlattenSeq([i \in 1 .. copies |->
                                    lower_vect[args[1], nth_slice(b, i - 1, copies)]])
               [] OTHER -> IF Cardinality(read) = 1 THEN CHOOSE lanes \in read : TRUE ELSE Garbled

\* Every root is lowered once per copy, at the copy's block.
gen_main_loop ==
    LET Copy(r, x) ==
            LET block == [width |-> 2 ^ item_width[r.node], idx |-> r.block]
                rows == nth_copy(block, x, loop_width \div 2 ^ r.unroll)
            IN  [logical |-> r.logical, op |-> graph[r.node].op,
                 rows |-> rows, lanes |-> lower_vect[r.node, rows]]
    IN  FlattenSeq([i \in DOMAIN roots |->
            [x \in 1 .. 2 ^ roots[i].unroll |-> Copy(roots[i], x - 1)]])

-----------------------------------------------------------------------------
(* try_vectorize. *)

upcast_rounds == 8
range_rounds == 64
TooManyRoots(rs) == Len(rs) > input.max_roots

\* Why each pass ends vectorization, if it does.
Conflicting == Error("ConflictingGraphCoefficient", FALSE)

DowncastError ==
    IF \E n \in DOMAIN graph : graph[n].op \in input.target.unsupported
    THEN Error("UnsupportedSpecialOps", FALSE)
    ELSE IF ~assignment.ok THEN Conflicting
    ELSE NoError

UpcastError ==
    IF ~assignment.ok THEN Conflicting
    ELSE IF tries = upcast_rounds THEN Error("UpcastDidNotConverge", FALSE)
    ELSE IF UpcastSubjects # {} /\ TooManyRoots(SplitRoots(UpcastSubjects).rs)
    THEN Error("TooManyRoots", FALSE)
    ELSE NoError

RangeError ==
    IF ~assignment.ok THEN Conflicting
    ELSE IF tries = range_rounds THEN Error("ComponentRangeDidNotConverge", FALSE)
    ELSE IF graph_component_ranges_fit THEN NoError
    ELSE IF RangeCandidates = << >> THEN Error("CoefficientRangeNeedsNormalization", FALSE)
    ELSE IF TooManyRoots(graph_apply_component_range_cast(RangeCandidates[1]).rs)
    THEN Error("TooManyRoots", FALSE)
    ELSE NoError

NormalizeError ==
    IF TooManyRoots(roots) THEN Error("TooManyRoots", FALSE)
    ELSE IF ~Normalizable THEN Error("CoefficientRangeNeedsNormalization", FALSE)
    ELSE NoError

TypesError ==
    LET width == ItemWidths(graph, assignment)
    IN  FirstError(LAMBDA n : ConcretizeError(width, n))

ValidationError ==
    LET error == FirstError(ValidateError) IN IF error # NoError THEN error ELSE GroupError

PassError ==
    CASE pass = "downcasts" -> DowncastError
      [] pass = "upcasts" -> UpcastError
      [] pass = "ranges" -> RangeError
      [] pass = "normalize" -> NormalizeError
      [] pass = "concretize" -> TypesError
      [] pass = "unroll" -> UnrollError
      [] pass = "validate" -> ValidationError
      [] OTHER -> NoError

-----------------------------------------------------------------------------
construct_tree(p) ==
    [n \in DOMAIN p.steps |-> [op |-> p.steps[n].op, dtype |-> p.steps[n].dtype, step |-> n,
                               combine |-> 0, args |-> p.steps[n].args]]
InitialRoots(p) ==
    [i \in DOMAIN p.roots |-> [node |-> p.roots[i], logical |-> i, block |-> 0, unroll |-> 0]]

Init ==
    /\ input \in Inputs
    /\ pass = "downcasts"
    /\ tries = 0
    /\ graph = construct_tree(input.program)
    /\ roots = InitialRoots(input.program)
    /\ assignment = graph_assign(graph, roots)
    /\ item_width = << >>
    /\ loop_width = 0
    /\ failure = NoError
    /\ main_loop = << >>

Proceed(from, error, to) == pass = from /\ error = NoError /\ pass' = to

Rewrite(s) ==
    /\ graph' = s.g
    /\ roots' = s.rs
    /\ assignment' = graph_assign(s.g, s.rs)

Unlowered == UNCHANGED <<item_width, loop_width, failure, main_loop, input>>

graph_resolve_downcasts ==
    /\ Proceed("downcasts", DowncastError, "upcasts")
    /\ Rewrite(Replaced(Downcasts, DowncastChain))
    /\ UNCHANGED tries /\ Unlowered

graph_resolve_upcasts_once ==
    /\ UpcastSubjects # {}
    /\ Proceed("upcasts", UpcastError, "upcasts")
    /\ Rewrite(SplitRoots(UpcastSubjects))
    /\ tries' = tries + 1
    /\ Unlowered

UpcastsResolved ==
    /\ UpcastSubjects = {}
    /\ Proceed("upcasts", UpcastError, "ranges")
    /\ tries' = 0
    /\ UNCHANGED <<graph, roots, assignment>> /\ Unlowered

graph_resolve_component_range_cast ==
    /\ ~graph_component_ranges_fit
    /\ Proceed("ranges", RangeError, "ranges")
    /\ Rewrite(graph_apply_component_range_cast(RangeCandidates[1]))
    /\ tries' = tries + 1
    /\ Unlowered

RangesResolved ==
    /\ graph_component_ranges_fit
    /\ Proceed("ranges", RangeError, "normalize")
    /\ UNCHANGED <<tries, graph, roots, assignment>> /\ Unlowered

graph_normalize_coefs ==
    /\ Proceed("normalize", NormalizeError, IF Flag("MaskCombine") THEN "masks" ELSE "concretize")
    /\ assignment' = [assignment EXCEPT !.coef = [n \in assignment.nodes |->
                         @[n] + Adjust(assignment.component[n])]]
    /\ UNCHANGED <<tries, graph, roots>> /\ Unlowered

graph_optimize_masks ==
    /\ Proceed("masks", NoError, "concretize")
    /\ LET g == WithCombineMasks(Expansion)
       IN  /\ graph' = g
           /\ assignment' = [assignment EXCEPT !.coef = graph_update_coefs_according_to_mask(g)]
    /\ UNCHANGED <<tries, roots>> /\ Unlowered

graph_concretize_types ==
    /\ Proceed("concretize", TypesError, "unroll")
    /\ item_width' = ItemWidths(graph, assignment)
    /\ UNCHANGED <<tries, graph, roots, assignment, loop_width, failure, main_loop, input>>

graph_unroll_roots ==
    /\ Proceed("unroll", UnrollError, "validate")
    /\ loop_width' = WidestGroup
    /\ roots' = [i \in DOMAIN roots |->
                    [roots[i] EXCEPT !.unroll = UnrollCoef(roots[i].logical)]]
    /\ UNCHANGED <<tries, graph, assignment, item_width, failure, main_loop, input>>

max_unroll == 2

graph_validate ==
    /\ Proceed("validate", ValidationError, "vectorized")
    /\ \E extra \in IF Flag("ProactiveUnroll") THEN 0 .. max_unroll ELSE {0} :
          /\ loop_width' = loop_width * 2 ^ extra
          /\ roots' = [i \in DOMAIN roots |-> [roots[i] EXCEPT !.unroll = @ + extra]]
    /\ UNCHANGED <<tries, graph, assignment, item_width, failure, main_loop, input>>

Lower ==
    /\ Proceed("vectorized", NoError, "lowered")
    /\ main_loop' = gen_main_loop
    /\ UNCHANGED <<tries, graph, roots, assignment, item_width, loop_width, failure, input>>

fail_graph_assignment ==
    /\ PassError # NoError
    /\ pass' = "failed"
    /\ failure' = PassError
    /\ UNCHANGED <<tries, graph, roots, assignment, item_width, loop_width, main_loop, input>>

Next ==
    \/ graph_resolve_downcasts
    \/ graph_resolve_upcasts_once
    \/ UpcastsResolved
    \/ graph_resolve_component_range_cast
    \/ RangesResolved
    \/ graph_normalize_coefs
    \/ graph_optimize_masks
    \/ graph_concretize_types
    \/ graph_unroll_roots
    \/ graph_validate
    \/ Lower
    \/ fail_graph_assignment

Spec == Init /\ [][Next]_vars

-----------------------------------------------------------------------------
(* Properties. *)

\* The variables have their types: nodes refer to nodes, and what is lowered
\* is a list of root copies.
TypeOK ==
    /\ pass \in {"downcasts", "upcasts", "ranges", "normalize", "masks", "concretize", "unroll",
                 "validate", "vectorized", "lowered", "failed"}
    /\ tries \in 0 .. range_rounds
    /\ \A n \in DOMAIN graph : /\ ToSet(graph[n].args) \subseteq DOMAIN graph
                               /\ graph[n].dtype \in DOMAIN scalar_dtype_size_log2
    /\ \A r \in ToSet(roots) : r.node \in DOMAIN graph /\ r.block \in Nat /\ r.unroll \in Nat
    /\ assignment.nodes \subseteq DOMAIN graph
    /\ loop_width \in Nat
    /\ \A i \in DOMAIN main_loop : main_loop[i].rows \in RowBlock

\* Vectorization never ends in an error the code marks internal
\* (ErrorKind::InternalInvariant): the passes leave each other a graph in
\* which the widths of every cast node, pair of arguments and group of roots
\* fit (vectorizer.cpp, graph_concretize_* and graph_validate).
NoInternalError == ~failure.internal

\* The rewriting loops end within their limits: 8 rounds of splitting and 64
\* of range normalization are enough.
AlwaysConverges ==
    failure.kind \notin {"UpcastDidNotConverge", "ComponentRangeDidNotConverge"}

\* However roots were split, unrolled and copied, the copies of each root of
\* the program together cover each row of an iteration exactly once.
RowsCoveredOnce ==
    pass = "lowered" =>
        \A l \in LogicalRoots : \A row \in 0 .. loop_width - 1 :
            Cardinality({i \in DOMAIN main_loop :
                            main_loop[i].logical = l /\ row \in RowsOf(main_loop[i].rows)}) = 1

\* Each lane of a lowered root is computed from the values of its own row,
\* through every combined, halved, widened and sliced node below.
LanesReadTheirRows ==
    \A i \in DOMAIN main_loop :
        LET copy == main_loop[i]
        IN  copy.lanes = [k \in 1 .. copy.rows.width |-> row_offset(copy.rows) + k - 1]

\* A cast has as many lanes as its argument: what the lowering asserts of
\* each cast it translates (mir.cpp, invariant_same_vec_len), however masks
\* were combined before.
CastsKeepLanes ==
    pass \in {"vectorized", "lowered"} =>
        \A n \in DOMAIN item_width :
            graph[n].op \in {"Trunc", "Sext", "Zext", "FloatCast", "CastDirect"} =>
                item_width[n] = item_width[ArgOf(n)]

\* The selected values of a pack are appended in the order of their rows, as
\* the scalar remainder loop appends them and as the tests' reference does.
PacksInRowOrder ==
    \A i, j \in DOMAIN main_loop :
        /\ i < j
        /\ main_loop[i].op = "Pack"
        /\ main_loop[i].logical = main_loop[j].logical
        => row_offset(main_loop[i].rows) < row_offset(main_loop[j].rows)
=============================================================================

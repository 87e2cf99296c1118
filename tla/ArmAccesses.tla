---------------------------- MODULE ArmAccesses ----------------------------
(* How a kernel for ARM reaches its arguments (aj/a64.cpp). Every access has  *)
(* an address relative to the loop counter. Where it can, the emitter uses a  *)
(* register that is advanced by the access itself, and keeps, while it emits, *)
(* the place the register will have: its cursor. The cursor of an argument    *)
(* must be at the end of the pass when the code of a pass ends, whatever the  *)
(* order of the accesses; two passes over the steps look for those arguments  *)
(* of which it would not. Pairs of loads and of stores share an instruction.  *)
(*                                                                           *)
(* Masks of fewer than 8 rows are collected in a register and written in      *)
(* groups (the mask shift writer), by the C++ for ARM as well.               *)
(*                                                                           *)
(* Addresses are counted in rows. A mask in memory holds, for every bit, the  *)
(* row it was computed for.                                                  *)
EXTENDS Integers, Sequences, FiniteSets

CONSTANTS
  Kernels,           \* [cpp, width, main, rest]: the roots of both loops in their order
  RowCounts,         \* the sizes of tables
  LastBit            \* the bits of a mask in memory that are looked at

VARIABLES
  kernel,
  count,             \* rows of the table
  stage,             \* of the compiler, then of the code
  emitted,           \* the compiler's state: [cursor, done, code]
  loops,             \* instructions of both loops
  counter,
  ip,                \* the next instruction of the loop
  gp,                \* the index register of every argument
  held,              \* the writer of every argument: [to, bits], bits a set of <<position, row>>
  memory             \* the masks in memory

compileVars == <<kernel, count, emitted, loops>>
accessVars == <<compileVars, stage, counter, ip, gp, held, memory>>

Arguments == 0 .. 2
CursorOff == -1      \* an argument without an index register
Untouched == -1      \* a bit nothing has written
ClearBit == -2
MixedBit == -3

FlushBits == 16      \* MASK_SHIFT_WRITER_FLUSH_BITS

(***************************************************************************)
(* Steps. A leaf is a load [kind, arg, offset, rows] of a vector ("load"), of *)
(* its lanes as addresses ("indices"), of a mask ("mask") or of a scalar      *)
(* ("scalar", "bit"). A root stores what its leaves make ("store", "cond",    *)
(* "mask", "scalar", "condscalar", "bit"), or folds it ("fold").              *)
(***************************************************************************)
StepOf(leaf) == <<leaf.arg, leaf.offset, leaf.rows>>
VectorLoad(leaf) == leaf.kind \in {"load", "indices"}
LeavesOf(roots) == UNION {{roots[i].what[j] : j \in DOMAIN roots[i].what} : i \in DOMAIN roots}
RootsOf(k, part) == IF part = "main" THEN k.main ELSE k.rest

\* prepare_ldp: from offset 0 on, each load whose successor exists is paired with it.
\* The first loads of the pairs.
PairedLoads(k) ==
  LET steps == {StepOf(l) : l \in {x \in LeavesOf(k.main) : VectorLoad(x)}}
      reached(s) == \A o \in 0 .. s[2] + s[3] : o % s[3] = 0 => <<s[1], o, s[3]>> \in steps
  IN  IF k.cpp THEN {} ELSE {s \in steps : s[2] % (2 * s[3]) = 0 /\ reached(s)}
SecondOf(s) == <<s[1], s[2] + s[3], s[3]>>
SecondLoads(k) == {SecondOf(s) : s \in PairedLoads(k)}

\* Mutant: where an access begins is looked at, not where it ends.
BeginsBeyondPass(k, arg) ==
  \E x \in LeavesOf(k.main) \union {k.main[i] : i \in DOMAIN k.main} :
    x.kind # "fold" /\ x.arg = arg /\ x.offset >= k.width

\* disable_index_regs_for_loop_overreads
ReadsBeyondPass(k, arg) ==
  \E x \in LeavesOf(k.main) \union {k.main[i] : i \in DOMAIN k.main} :
    x.kind # "fold" /\ x.arg = arg /\ x.offset + x.rows > k.width

\* post_index_access, in the order of the traversal: <<offset, rows>> of the accesses
\* of an argument that may use its register.
LeafAccess(k, leaf) ==
  CASE VectorLoad(leaf) /\ StepOf(leaf) \in SecondLoads(k) -> <<>>
    [] VectorLoad(leaf) /\ StepOf(leaf) \in PairedLoads(k) -> <<<<leaf.offset, 2 * leaf.rows>>>>
    [] VectorLoad(leaf) /\ StepOf(leaf) \notin PairedLoads(k) \union SecondLoads(k) -> <<<<leaf.offset, leaf.rows>>>>
    [] leaf.kind = "mask" -> IF leaf.rows < 8 THEN <<>> ELSE <<<<leaf.offset, leaf.rows>>>>
RootAccess(root) == IF root.kind = "fold" THEN <<>> ELSE <<<<root.offset, root.rows>>>>

AccessesOf(k, arg) ==
  LET leaves(root) ==
        LET upTo[j \in 0 .. Len(root.what)] ==
              IF j = 0 THEN <<>>
              ELSE upTo[j - 1] \o IF root.what[j].arg = arg THEN LeafAccess(k, root.what[j]) ELSE <<>>
        IN  upTo[Len(root.what)]
      all[i \in 0 .. Len(k.main)] ==
        IF i = 0 THEN <<>>
        ELSE all[i - 1] \o leaves(k.main[i]) \o IF k.main[i].arg = arg THEN RootAccess(k.main[i]) ELSE <<>>
  IN  all[Len(k.main)]

\* disable_index_regs_for_forward_gaps
HasForwardGap(k, arg) ==
  LET accesses == AccessesOf(k, arg)
      cursor[i \in 0 .. Len(accesses)] ==
        IF i = 0 THEN 0
        ELSE cursor[i - 1] + IF accesses[i][1] = cursor[i - 1] THEN accesses[i][2] ELSE 0
  IN  \E i \in DOMAIN accesses : accesses[i][1] > cursor[i - 1]

\* The arguments with an index register; without a main loop nothing is looked at.
Indexed(k, arg) ==
  /\ ~k.cpp
  /\ k.main = <<>> \/ (~ReadsBeyondPass(k, arg) /\ ~HasForwardGap(k, arg))

\* plan_mask_shift_writers: all stores of the argument are masks of 2 or 4 rows, one
\* after the other, in a main loop they fill, and single bits in the remainder.
WritesMasks(k, arg) ==
  LET vector == SelectSeq(k.main, LAMBDA r : r.arg = arg /\ r.kind \in {"store", "mask"})
      scalar == SelectSeq(k.rest, LAMBDA r : r.arg = arg /\ r.kind \in {"scalar", "bit"})
      before[i \in 0 .. Len(vector)] == IF i = 0 THEN 0 ELSE before[i - 1] + vector[i].rows
  IN  /\ \A i \in DOMAIN vector :
           vector[i].kind = "mask" /\ vector[i].rows < 8 /\ vector[i].offset = before[i - 1]
      /\ \A i \in DOMAIN scalar : scalar[i].kind = "bit" /\ scalar[i].offset = i - 1
      /\ scalar # <<>>
      /\ vector # <<>> => before[Len(vector)] = k.width

(***************************************************************************)
(* Emission.                                                                *)
(***************************************************************************)
Instruction(kind, x, rows, how) == [kind |-> kind, arg |-> x.arg, offset |-> x.offset, rows |-> rows, how |-> how]
Emitted(s, instr) == [s EXCEPT !.code = Append(@, instr)]

\* vec_mem, vec_pair_mem, scalar_mem, mask_mem: where the cursor is, the register is
\* used and advanced.
AtCursor(s, x) == s.cursor[x.arg] = x.offset
Advanced(s, x, rows) == IF AtCursor(s, x) THEN [s EXCEPT !.cursor[x.arg] = @ + rows] ELSE s
HowAt(s, x) == IF AtCursor(s, x) THEN "post" ELSE "counter"
Accessed(s, kind, x, rows) == Emitted(Advanced(s, x, rows), Instruction(kind, x, rows, HowAt(s, x)))

\* A leaf that has its register already is not loaded again; a gather reads its
\* indices itself.
EvalLeaf(k, s, leaf) ==
  LET step == StepOf(leaf)
      loaded == [s EXCEPT !.done = @ \union {step} \union (IF step \in PairedLoads(k) THEN {SecondOf(step)} ELSE {})]
  IN  CASE leaf.kind = "indices" -> Accessed(s, "load", leaf, leaf.rows)
        [] leaf.kind # "indices" /\ step \in s.done -> s
        [] leaf.kind = "load" /\ step \notin s.done ->
             Accessed(loaded, "load", leaf, IF step \in PairedLoads(k) THEN 2 * leaf.rows ELSE leaf.rows)
        [] leaf.kind = "scalar" /\ step \notin s.done -> Accessed(loaded, "load", leaf, 1)
        [] leaf.kind = "mask" /\ step \notin s.done ->
             IF leaf.rows < 8 THEN Emitted(loaded, Instruction("load", leaf, leaf.rows, "counter"))
             ELSE Accessed(loaded, "load", leaf, leaf.rows)
        [] leaf.kind = "bit" /\ step \notin s.done -> Emitted(loaded, Instruction("load", leaf, 1, "counter"))

EvalLeaves(k, s, leaves) ==
  LET after[i \in 0 .. Len(leaves)] == IF i = 0 THEN s ELSE EvalLeaf(k, after[i - 1], leaves[i])
  IN  after[Len(leaves)]

\* A vector store has its address before its operand is evaluated, other stores after.
EmitStore(k, s, root) ==
  Emitted(EvalLeaves(k, Advanced(s, root, root.rows), root.what),
          Instruction("store", root, root.rows, HowAt(s, root)))

\* A conditional store loads, blends and stores.
EmitCondStore(k, s, root) ==
  LET ready == EvalLeaves(k, s, root.what)
      old == Emitted(ready, Instruction("load", root, root.rows, IF AtCursor(ready, root) THEN "stay" ELSE "counter"))
  IN  Accessed(old, "store", root, root.rows)

\* The C++ writes a short mask bit by bit.
EmitMaskStore(k, s, root) ==
  LET ready == EvalLeaves(k, s, root.what)
  IN  IF WritesMasks(k, root.arg) THEN Emitted(ready, Instruction("append", root, root.rows, "writer"))
      ELSE IF root.rows >= 8 THEN Accessed(ready, "bits", root, root.rows)
      ELSE Emitted(ready, Instruction("bits", root, root.rows, "counter"))

\* A bit is put into a word.
EmitBitStore(k, s, root) ==
  LET ready == EvalLeaves(k, s, root.what)
  IN  Emitted(ready, IF WritesMasks(k, root.arg) THEN Instruction("append", root, 1, "writer")
                     ELSE Instruction("bits", root, 1, "counter"))

EmitRoot(k, s, root) ==
  CASE root.kind = "store"  -> EmitStore(k, s, root)
    [] root.kind = "cond"   -> EmitCondStore(k, s, root)
    [] root.kind = "mask"   -> EmitMaskStore(k, s, root)
    [] root.kind = "bit"    -> EmitBitStore(k, s, root)
    [] root.kind = "scalar" -> Accessed(EvalLeaves(k, s, root.what), "store", root, 1)
    [] root.kind = "condscalar" ->
         Emitted(EvalLeaves(k, s, root.what), Instruction("store", root, 1, "counter"))
    [] root.kind = "fold"   -> EvalLeaves(k, s, root.what)

\* try_emit_store_pair
PairsWith(k, left, right) ==
  /\ ~k.cpp
  /\ left.kind = "store" /\ right.kind = "store"
  /\ left.aligned /\ right.aligned
  /\ left.arg = right.arg /\ left.rows = right.rows
  /\ right.offset = left.offset + left.rows
EmitStorePair(k, s, left, right) ==
  Accessed(EvalLeaves(k, EvalLeaves(k, s, left.what), right.what), "store", left, 2 * left.rows)

\* compile_steps: the right store of a pair is not emitted again.
EmitRoots(k, s, roots) ==
  LET taken[i \in 0 .. Len(roots)] == i > 1 /\ ~taken[i - 1] /\ PairsWith(k, roots[i - 1], roots[i])
      after[i \in 0 .. Len(roots)] ==
        CASE i = 0 -> s
          [] i > 0 /\ taken[i] -> after[i - 1]
          [] i > 0 /\ ~taken[i] ->
               IF i < Len(roots) /\ PairsWith(k, roots[i], roots[i + 1])
               THEN EmitStorePair(k, after[i - 1], roots[i], roots[i + 1])
               ELSE EmitRoot(k, after[i - 1], roots[i])
  IN  after[Len(roots)]

\* A short mask for which there is no writer cannot be emitted in machine code.
Refused(k) ==
  ~k.cpp /\ \E i \in DOMAIN k.main : k.main[i].kind = "mask" /\ k.main[i].rows < 8 /\ ~WritesMasks(k, k.main[i].arg)

(***************************************************************************)
(* The kernel.                                                              *)
(***************************************************************************)
AccessStart ==
  /\ emitted = [cursor |-> [a \in Arguments |-> 0], done |-> {}, code |-> <<>>]
  /\ loops = [main |-> <<>>, rest |-> <<>>]
  /\ counter = 0 /\ ip = 1
  /\ gp = [a \in Arguments |-> 0]
  /\ held = [a \in Arguments |-> [to |-> 0, bits |-> {}]]
  /\ memory = [a \in Arguments |-> [b \in 0 .. LastBit |-> Untouched]]
AccessInit == kernel \in Kernels /\ count \in RowCounts /\ stage = "plan" /\ AccessStart

\* No kernel at all.
NoKernel == [cpp |-> FALSE, width |-> 1, main |-> <<>>, rest |-> <<>>]
AccessIdle == kernel = NoKernel /\ count = 0 /\ stage = "none" /\ AccessStart

PlanAccesses ==
  /\ stage = "plan"
  /\ emitted' = [emitted EXCEPT !.cursor = [a \in Arguments |-> IF Indexed(kernel, a) THEN 0 ELSE CursorOff]]
  /\ stage' = IF Refused(kernel) THEN "refused" ELSE "compile main"
  /\ UNCHANGED <<kernel, count, loops, counter, ip, gp, held, memory>>

\* The cursors stay where the main loop leaves them.
CompileLoop(part, next) ==
  LET after == EmitRoots(kernel, [emitted EXCEPT !.code = <<>>], RootsOf(kernel, part))
  IN  /\ stage = "compile " \o part
      /\ emitted' = [after EXCEPT !.code = <<>>]
      /\ loops' = [loops EXCEPT ![part] = after.code]
      /\ stage' = next
      /\ UNCHANGED <<kernel, count, counter, ip, gp, held, memory>>
CompileMain == CompileLoop("main", "compile rest")
CompileRest == CompileLoop("rest", "enter")

EnterKernel ==
  /\ stage = "enter"
  /\ stage' = IF count = 0 THEN "returned"
              ELSE IF kernel.main = <<>> \/ count < kernel.width THEN "rest" ELSE "main"
  /\ UNCHANGED <<compileVars, counter, ip, gp, held, memory>>

Current == loops[stage][ip]
Executing == stage \in {"main", "rest"} /\ ip <= Len(loops[stage])
AddressOf(i) == IF i.how = "counter" THEN counter + i.offset ELSE gp[i.arg]

\* The bit at a position of an accumulator: the row it is of, if any, and if it is of one.
BitAt(bits, position) ==
  LET rows == {x[2] : x \in {y \in bits : y[1] = position}}
  IN  IF rows = {} THEN ClearBit ELSE IF Cardinality(rows) = 1 THEN CHOOSE r \in rows : TRUE ELSE MixedBit
Written(mask, from, n, bits) ==
  [b \in 0 .. LastBit |-> IF b \in from .. from + n - 1 THEN BitAt(bits, b - from) ELSE mask[b]]
RowsFrom(position, row, n) == {<<position + l, row + l>> : l \in 0 .. n - 1}

Access ==
  LET i == Current
  IN  /\ Executing /\ Current.kind # "append"
      /\ gp' = IF i.how = "post" THEN [gp EXCEPT ![i.arg] = @ + i.rows] ELSE gp
      /\ memory' = IF i.kind = "bits"
                   THEN [memory EXCEPT ![i.arg] =
                           Written(@, AddressOf(i), i.rows, RowsFrom(0, counter + i.offset, i.rows))]
                   ELSE memory
      /\ ip' = ip + 1
      /\ UNCHANGED <<compileVars, stage, counter, held>>

\* emit_mask_shift_append: shifted to the row's place in the group; a group that is
\* full is written.
AppendMask ==
  LET i == Current
      from == counter + i.offset
      bits == held[i.arg].bits \union RowsFrom(from % FlushBits, from, i.rows)
      full == (from + i.rows) % FlushBits = 0
  IN  /\ Executing /\ Current.kind = "append"
      /\ held' = [held EXCEPT ![i.arg] =
                    IF full THEN [to |-> @.to + FlushBits, bits |-> {}] ELSE [@ EXCEPT !.bits = bits]]
      /\ memory' = IF full THEN [memory EXCEPT ![i.arg] = Written(@, held[i.arg].to, FlushBits, bits)] ELSE memory
      /\ ip' = ip + 1
      /\ UNCHANGED <<compileVars, stage, counter, gp>>

EndOfPass ==
  LET passed == counter + IF stage = "main" THEN kernel.width ELSE 1
  IN  /\ stage \in {"main", "rest"} /\ ip > Len(loops[stage])
      /\ counter' = passed
      /\ ip' = 1
      /\ stage' = CASE stage = "main" /\ passed < count - (count % kernel.width) -> "main"
                    [] stage = "rest" /\ passed # count -> "rest"
                    [] passed = count -> "finish"
                    [] OTHER -> "rest"
      /\ UNCHANGED <<compileVars, gp, held, memory>>

\* Mutant: the bits after a whole byte are not shifted down to the next.
LastGroupUnshifted(mask, writer) ==
  LET pending == count % FlushBits
      whole == IF pending >= 8 THEN 8 ELSE 0
  IN  Written(Written(mask, writer.to, whole, writer.bits), writer.to + whole, pending - whole, writer.bits)

\* emit_mask_shift_writer_epilogue: a whole byte is stored, the bits of the last one
\* are put among those of other rows.
LastGroup(mask, writer) ==
  LET pending == count % FlushBits
      whole == IF pending >= 8 THEN 8 ELSE 0
      later == {<<x[1] - whole, x[2]>> : x \in writer.bits}
  IN  Written(Written(mask, writer.to, whole, writer.bits), writer.to + whole, pending - whole, later)
FinishMasks ==
  /\ stage = "finish"
  /\ memory' = [a \in Arguments |-> IF WritesMasks(kernel, a) THEN LastGroup(memory[a], held[a]) ELSE memory[a]]
  /\ stage' = "returned"
  /\ UNCHANGED <<compileVars, counter, ip, gp, held>>

AccessNext ==
  \/ PlanAccesses \/ CompileMain \/ CompileRest
  \/ EnterKernel \/ Access \/ AppendMask \/ EndOfPass \/ FinishMasks

(***************************************************************************)
(* What the addresses promise.                                              *)
(***************************************************************************)
\* Whatever the order, the pairing and the passes: an access reaches the rows it is
\* for, and stays in the table unless a step reads more rows than the pass has.
AccessesReachTheirRows ==
  Executing /\ Current.kind # "append" =>
    /\ AddressOf(Current) = counter + Current.offset
    /\ \/ stage = "main" /\ Current.offset + Current.rows > kernel.width
       \/ counter + Current.offset + Current.rows <= count

\* A mask that is stored ends up with the bit of every row in its place, and the
\* bits beyond the table keep their values.
MaskArguments ==
  {r.arg : r \in {x \in {kernel.rest[i] : i \in DOMAIN kernel.rest} : x.kind = "bit"}}
MaskBitsLand ==
  \A a \in MaskArguments :
    /\ \A b \in count .. LastBit : memory[a][b] = Untouched
    /\ stage = "returned" => \A b \in 0 .. count - 1 : memory[a][b] = b
=============================================================================

------------------------------- MODULE Emission -------------------------------
(* The whole way of an operation: the lowering of a row (MirChecks), and the  *)
(* emission of one step of the lowered code by one of the backends, for every *)
(* step the lowering leaves to it.                                           *)
(*                                                                           *)
(* The emitters run on a narrower machine than the lowering, so that all four *)
(* widths fit the checker's integers. Beside one step, the accesses of all    *)
(* the steps of a kernel are emitted (ArmAccesses).                          *)
EXTENDS MirChecks, ArmAccesses

CONSTANTS
  EmitterByte,       \* bits of an i8 of the emitted code
  Instructions,      \* the steps that are emitted
  Samples,           \* for every type the operands that are tried
  LaneSamples,       \* and the lanes of a reduction
  FloatSamples,      \* the floats that are tried
  RowSamples,        \* for every number of rows the masks
  OtherBits          \* what the byte of a short mask holds beside it

E == INSTANCE EmittedSteps WITH Byte <- EmitterByte

VARIABLE emission    \* <<>>, or the step: [machine, instr, operands, code]

evars == <<vars, emission, accessVars>>

Machines == E!ScalarMachines \union E!LaneMachines

(***************************************************************************)
(* The steps that reach a backend: the lowering widens, expands or refuses  *)
(* the others.                                                              *)
(***************************************************************************)
Wide(t) == t \in {"I32", "I64"}

\* Small divisions and rotations, and products of bytes, are computed wider.
ScalarReaches(machine, i) ==
  CASE i.kind = "Binary" ->
         /\ i.op \in DivisionOps \union RotateOps => Wide(i.t)
         /\ i.op = "Mul" => i.t # "I8"
         /\ i.op \in {"Mul64SE", "Mul64ZE"} => i.t = "I64"
         /\ i.const => machine \in {"arm", "c++"} /\ i.op \notin DivisionOps
    [] i.kind = "ConstDiv" -> i.t = "I32" \/ (i.t = "I64" /\ machine \in {"c++", "llvm"})
    [] i.kind = "ShiftOfConst" -> machine = "c++"
    [] i.kind = "Cast"     -> i.op = "Trunc" <=> Size(i.from) > Size(i.t)
    [] i.kind = "Select"   -> i.const => machine = "c++"
    [] i.kind = "Overflow" -> i.op = "Mul" => Wide(i.t)
    [] i.kind = "Permute"  -> i.t # "I8"
    [] i.kind \in {"Unary", "Compare"} -> ~i.const
    [] i.kind \in {"Increment", "Reduce", "Mask"} -> FALSE

\* AVX-512 has no products and shifts of bytes, NEON none of 64-bit products.
LaneBinaryReaches(machine, i) ==
  /\ i.op \notin DivisionOps
  /\ i.op \in RotateOps => Wide(i.t)
  /\ i.op \in {"Mul64SE", "Mul64ZE"} => i.t = "I64"
  /\ ~E!ArmLanes(machine) => ~(i.t = "I8" /\ i.op \in {"Mul"} \union ShiftOps)
  /\ E!ArmLanes(machine) => ~(i.t = "I64" /\ i.op = "Mul")
  /\ i.flag = "suggested" => machine = "arm lanes" /\ ~i.const

\* make_vec_arith_un: each target has its own instructions, and the rest is expanded.
LaneUnaryReaches(machine, i) ==
  CASE E!X86Lanes(machine) -> i.op \in {"Abs", "Popcount"} \/ (i.op = "Lzcnt" /\ Wide(i.t))
    [] E!ArmLanes(machine) -> i.op # "Tzcnt"
    [] machine = "llvm lanes" -> TRUE

\* Casts pass through the register types there are.
LaneCastReaches(machine, i) ==
  /\ i.op = "Trunc" <=> Size(i.from) > Size(i.t)
  /\ E!X86Lanes(machine) => {i.from, i.t} # {"I8", "I64"}
  /\ E!ArmLanes(machine) => Size(i.from) = 2 * Size(i.t) \/ Size(i.t) = 2 * Size(i.from)

\* A vector has the elements its rows leave it room for; masks are loaded, compared or both.
MaskReaches(machine, i) ==
  /\ i.op = "Combine" => i.n > 2
  /\ i.from \in CASE machine = "x86 lanes" -> {"loaded", "compared", "splat"}
                  [] machine = "arm lanes" -> {"loaded", "compared", "mixed"}
                  [] machine = "avx lanes" -> {"compared"}
                  [] machine = "neon lanes" -> {"loaded"}
                  [] machine = "llvm lanes" -> {"loaded", "compared"}
  /\ i.from = "splat" => i.op = "None"
  /\ i.op = "Under" => machine = "x86 lanes"
  /\ i.flag = "Store" /\ machine = "arm lanes" => i.n >= 8
  /\ i.const => machine = "arm lanes" /\ i.flag \in {"Select", "Rows"}

LaneReaches(machine, i) ==
  CASE i.kind = "Binary"    -> LaneBinaryReaches(machine, i)
    [] i.kind = "Unary"     -> LaneUnaryReaches(machine, i)
    [] i.kind = "Cast"      -> LaneCastReaches(machine, i)
    [] i.kind = "Compare"   -> TRUE
    [] i.kind = "Select"    -> machine # "neon lanes" /\ (i.const => machine = "avx lanes")
    [] i.kind = "Increment" -> machine = "arm lanes"
    [] i.kind = "Permute"   -> machine \in {"neon lanes", "llvm lanes"} /\ i.t # "I8"
    [] i.kind = "Reduce"    -> Wide(i.t) /\ (i.op = "Mul" => i.t = "I32" \/ machine = "neon lanes")
    [] i.kind = "Mask"      -> MaskReaches(machine, i)
    [] i.kind \in {"ConstDiv", "ShiftOfConst", "Overflow"} -> FALSE

\* x86 has neither Negate, Abs nor Not of floats in lanes: they are written by their bits.
FloatReaches(machine, i) ==
  CASE i.kind = "FloatBinary" -> /\ i.flag # "No" => E!X86Lanes(machine)
                                 /\ ~i.const
    [] i.kind = "FloatUnary" -> E!X86Lanes(machine) => i.op \notin {"Negate", "Abs", "Not"}
    [] i.kind = "FloatCompare" -> i.const => machine \in {"arm", "arm lanes"}
    [] i.kind = "FloatSelect" -> machine \in E!ScalarMachines
    [] i.kind = "FloatReduce" -> machine \in E!LaneMachines
    [] i.kind \in {"Fpclass", "ToFloat", "FromFloat"} -> TRUE

FloatKinds == {"FloatBinary", "FloatUnary", "FloatCompare", "FloatSelect", "Fpclass", "ToFloat", "FromFloat"}

Reaches(machine, i) ==
  IF i.kind \in FloatKinds \union {"FloatReduce"} THEN FloatReaches(machine, i)
  ELSE IF machine \in E!ScalarMachines THEN ScalarReaches(machine, i) ELSE LaneReaches(machine, i)

(***************************************************************************)
(* Emission.                                                                *)
(***************************************************************************)
Chosen(machine, i) == [machine |-> machine, instr |-> i, operands |-> <<>>, code |-> <<>>]

OperationIdle ==
  /\ target = "scalar" /\ checked = "no"
  /\ oper = CHOOSE o \in Operations : TRUE
  /\ row = <<>> /\ lowered = <<>>

\* Either a row is about to be lowered, or a step to be emitted, or a kernel.
EmissionInit ==
  \/ Init /\ emission = <<>> /\ AccessIdle
  \/ /\ OperationIdle /\ AccessIdle
     /\ emission \in {Chosen(m, i) : m \in Machines, i \in Instructions}
     /\ Reaches(emission.machine, emission.instr)
  \/ OperationIdle /\ emission = <<>> /\ AccessInit

LowerRow == emission = <<>> /\ stage = "none" /\ Next /\ UNCHANGED <<emission, accessVars>>

Emit(operands, code) ==
  /\ emission' = [emission EXCEPT !.operands = operands, !.code = <<code>>]
  /\ UNCHANGED <<vars, accessVars>>

Pending(kinds) == emission # <<>> /\ emission.code = <<>> /\ emission.instr.kind \in kinds

\* A comparison with the constant zero; a condition, or the mask of a check.
RightOf(i) ==
  CASE i.kind \in {"Unary", "Cast", "Permute", "Increment"} -> {0}
    [] i.kind = "Compare" -> IF i.const THEN {0} ELSE Samples[i.t]
    [] i.kind = "Select" /\ i.const -> {0, 1, E!AllOnes(i.t)}
    [] i.kind = "ConstDiv" -> Samples[i.t] \ {0}
    [] OTHER -> Samples[i.t]
ThirdOf(i) == IF i.kind \in {"Select", "Overflow", "Increment"} THEN {0, 1} ELSE {0}
LeftOf(i) == IF i.kind = "Select" /\ i.const THEN {0, 1, 2, E!AllOnes(i.t)} ELSE Samples[i.from]

StepKinds == {"Binary", "ConstDiv", "ShiftOfConst", "Unary", "Cast", "Compare", "Select", "Increment", "Overflow", "Permute"}

EmitScalar ==
  LET i == emission.instr
  IN  /\ Pending(StepKinds)
      /\ emission.machine \in E!ScalarMachines
      /\ \E x \in LeftOf(i), y \in RightOf(i), z \in ThirdOf(i) :
           Emit(<<x, y, z>>, E!EmittedScalar(emission.machine, i, x, y, z))

EmitLane ==
  LET i == emission.instr
  IN  /\ Pending(StepKinds)
      /\ emission.machine \in E!LaneMachines
      /\ \E x \in LeftOf(i), y \in RightOf(i), z \in ThirdOf(i) :
           Emit(<<x, y, z>>, E!EmittedLane(emission.machine, i, x, y, z))

EmitReduction ==
  LET i == emission.instr
  IN  /\ Pending({"Reduce"})
      /\ \E v \in [1 .. i.n -> LaneSamples[i.t]] :
           Emit(<<v>>, E!EmittedReduction(emission.machine, i, v))

EmitFloat ==
  LET i == emission.instr
      ints == i.kind = "ToFloat"
      second == IF i.kind \in {"FloatBinary", "FloatCompare", "FloatSelect"} /\ ~i.const THEN FloatSamples ELSE {0}
  IN  /\ Pending(FloatKinds)
      /\ \E x \in (IF ints THEN Samples["I32"] ELSE FloatSamples), y \in second,
            z \in (IF i.flag \in {"left", "other"} THEN {0, 1} ELSE {0}) :
           Emit(<<x, y, z>>, E!EmittedFloat(emission.machine, i, x, y, z))

EmitFloatReduction ==
  LET i == emission.instr
  IN  /\ Pending({"FloatReduce"})
      /\ \E rows \in [1 .. i.n -> LaneSamples["F32"]] :
           \E v \in {[k \in 1 .. i.n |-> E!RowTaken(emission.machine, i.op, rows[k])]} :
             Emit(<<rows>>, E!EmittedFloatReduction(emission.machine, i, v))

\* In memory, a mask of fewer than eight rows lies anywhere in its byte.
InMemory(i) == (i.from = "loaded" \/ i.flag = "Store") /\ i.n < 8
Places(i) == IF InMemory(i) THEN {i.n * k : k \in 0 .. 8 \div i.n - 1} ELSE {0}

EmitMask ==
  LET i == emission.instr
      rows == E!OperandRows(i)
  IN  /\ Pending({"Mask"})
      /\ \E left \in RowSamples[rows],
            right \in (IF i.op \in {"None", "Not"} THEN {{}} ELSE RowSamples[rows]),
            at \in Places(i), old \in (IF InMemory(i) THEN OtherBits ELSE {{}}) :
           /\ i.from = "loaded" => old \intersect E!Placed(at, 0 .. rows - 1) = {}
           /\ i.from = "splat" => left \in {{}, 0 .. rows - 1}
           /\ Emit(<<left, right, at, old>>, E!EmittedMask(emission.machine, i, left, right, at, old))

EmissionNext ==
  \/ LowerRow
  \/ EmitScalar \/ EmitLane \/ EmitReduction
  \/ EmitFloat \/ EmitFloatReduction
  \/ EmitMask
  \/ AccessNext /\ UNCHANGED <<vars, emission>>

EmissionSpec == EmissionInit /\ [][EmissionNext]_evars

(***************************************************************************)
(* What the emitters promise.                                               *)
(***************************************************************************)
\* The lowering guards divisors, masks the counts of lanes, and multiplies to 64
\* bits what it has extended from 32.
Guarded(machine, i, x, y) ==
  LET kind == IF i.op = "Mul64SE" THEN "Sext" ELSE "Zext"
      extended(v) == v = E!Cast(kind, "I32", "I64", v % E!Modulus("I32"))
  IN  i.kind \in {"Binary", "ConstDiv"} =>
        /\ i.op \in DivisionOps => E!Divisor(i.op, i.t, x, y) = y
        /\ i.op \in ShiftOps /\ machine \in E!LaneMachines => y < E!Width(i.t)
        /\ i.op \in {"Mul64SE", "Mul64ZE"} => extended(x) /\ extended(y)

\* ARM leaves the upper bits of a permuted small value. The C++ rotates by the whole
\* width where the count is not zero, and shifts a constant of 64 bits as an int.
ScalarException(machine, i, y) ==
  \/ machine = "arm" /\ i.kind = "Permute" /\ Size(i.t) < 4
  \/ i.kind = "ShiftOfConst" /\ i.t = "I64" /\ y % E!Width("I64") >= E!Width("I32")
  \/ machine = "c++" /\ i.op \in RotateOps /\ y # 0 /\ y % E!Width(i.t) = 0 /\ ~(i.const /\ y < E!Width(i.t))

\* The C++ for a target with an instruction for Abs keeps the sign of a zero; a float
\* converts to what an integer can hold.
FloatException(machine, i, x) ==
  \/ machine = "c++" /\ i.op = "Abs" /\ E!IsZero(x)
  \/ i.kind = "FromFloat" /\ ~E!FitsInt(E!Unsigned(i), x)

\* A mask of eight rows that was loaded is held in eight bytes on ARM: it is counted
\* in lanes of two, and a selection against zero and a conditional store take it as it
\* is; negated, it sets bytes above its rows.
MaskException(machine, i) ==
  /\ machine = "arm lanes" /\ i.n = 8 /\ i.from # "compared" /\ i.op \notin {"Not", "Combine"}
  /\ \/ i.flag = "Count"
     \/ i.const
     \/ i.op = "XNor" /\ i.flag \in {"And", "Or", "Xor"}

\* Whatever a backend writes for a step, in the registers, types and masks of its
\* target, computes what the step means: operands of bytes in wider registers,
\* comparisons by flags, constants in the instruction, operands that change places,
\* NaNs that each target treats differently, lanes that are folded in halves, masks
\* beside other bits of their byte.
EmittersKeepMeaning ==
  emission # <<>> /\ emission.code # <<>> =>
    LET i == emission.instr
        m == emission.machine
        a == emission.operands
        code == emission.code[1]
    IN  CASE i.kind = "Mask"   -> MaskException(m, i) \/ code = E!MeantMask(i, a[1], a[2], a[3], a[4])
          [] i.kind = "Reduce" -> code = E!MeantReduction(i, a[1])
          [] i.kind = "FloatReduce" -> E!SameFloat(code, E!MeantFloatReduction(i, a[1]))
          [] i.kind \in FloatKinds ->
               FloatException(m, i, a[1]) \/ E!SameResult(i, code, E!MeantFloat(i, a[1], a[2], a[3]))
          [] i.kind \in StepKinds ->
               \/ ~Guarded(m, i, a[1], a[2])
               \/ ScalarException(m, i, a[2])
               \/ code = E!MeantScalar(m, i, a[1], a[2], a[3])
=============================================================================

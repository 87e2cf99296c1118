# Simjit in TLA+

Simjit compiles numeric expressions over columns to machine code at run time.
A client asks a `JitContext` for a function under an identifier; a builder
callback describes the function, which is vectorized where possible, lowered,
emitted with asmjit and cached. Python reaches the same contexts through a
`Session` and its prepared programs. This directory holds TLA+ models of what
those layers do with code, memory and pointers, of every stage an expression
passes on its way to the machine (function builder, vectorizer, lowering, the
AsmJit, C++ and LLVM back ends), the TLC runs that check them, and TLAPS proofs.

## 1. Inventory

Line numbers are in `PROJECT.json` (`map`, `hazards`).

| Component | State it keeps | Operations | Hard behaviour | What makes it correct |
|---|---|---|---|---|
| Function cache (`jit.cpp`, `FunctionCache`) | multimap from hash to record | `find`, `insert_or_assign`, `erase` | hash collisions | behaves like a plain map |
| `JitContext` / `JitContextImpl` (`jit.h`, `jit.cpp`) | settings, five counters, debug snapshot, arena, pointer to the implementation; the implementation points back | `find_cached_function`, `build_and_compile`, `delete_cached_function`, `clear`, setters, moves, destructor | builders that call back into the context; failures at every stage; best-effort fallback; move and clear | one owner of each piece of code; pointers stay valid; statistics add up; the snapshot is not of an earlier attempt; limit kept |
| `AsmjitSession` (`asmjit.h/.cpp`) | code holder, runtime memory | `reset`, `add_compiled_function`, `release_compiled_function` | partial emission, reuse of freed addresses | what is added is one whole function |
| Compile driver (`compiler.h`, `errors.h`) | none | `try_lower_vectorized`, `lower_scalar` | which errors allow a fallback | scalar path tried when it should be |
| Python session (`module_api.*`, `py_adapter.cpp`) | context, generation; per program: code pointer, pointer table and its template, buffers, overflow byte | `prepare_program`, `run`, `run_fresh`, `release_outputs`, `release`, `clear` | GIL given up during execution; Python called between check and use; stale programs | executing code is live, works on the right arrays, reports its own overflow |
| Memory arena (`detail/arena.h`) | list of blocks | `alloc`, `reset` | alignment, requests larger than a block | blocks do not overlap |
| Function builder (`simjit.h`, `function_builder.cpp`, `core/expr.*`, `core/hir.*`) | graph under construction | one call per node, `build` | order of arguments, validation, folding and sharing | the graph means what was asked for |
| Vectorizer (`core/vectorizer.*`) | dependency graph, roots with row blocks | cast rewriting, root splitting, unrolling | rewrites with iteration limits | row blocks tile each iteration; termination |
| MIR (`core/mir.*`) | instruction lists | lowering of an operation on each target, safety checks | up to seven lowerings of one operation; loop structure, masks, tails | all lowerings agree; overflows are reported; each row is folded once, in order |
| Nullable values (`nullable.*`) | none | three-valued operations | garbage under a null | agrees with SQL; nulls do not overflow |
| Emitters (`core/aj`, `core/cpp`, `core/llvm`) | register assignment; cursors of advancing pointers; mask bits not yet written | one case per step and target | high bits of small integers, NaN, masks shorter than a byte, access order within a pass | a step computes what MIR says; an access reaches its rows |
| Python expressions (`native_builder.cpp`, `resolver.cpp`, `runtime.py`, `ir.py`, `dataframe.py`) | graphs | type resolution, lowering | null encodings | one type per node |
| Explorer (`explorer/app`) | compile cache, benchmark subprocess | compile, benchmark | limits on time and size | an answer is that of its query |
| DuckDB extension (`benchmarks/duckdb`) | global generation, per-thread kernels | get, invalidate | generation advanced by another thread | a stale kernel is rebuilt |
| CLI, fuzzers, tests, scripts, vendored headers | none of their own | | | |

How they interact: the builder callback runs inside `build_and_compile` and may
use the same context. `JitContextImpl` reads settings and arena through its
parent pointer, which moves rebind. A Python `Session` owns a `JitContext`
shared by its prepared programs; a program holds a raw code pointer and is kept
from using it too late only by a generation counter that `release` and `clear`
advance. Compiled code runs without the GIL.

## 2. Modules

| Module | Models | Role |
|---|---|---|
| `Dictionary` | a partial map with answers | abstract specification |
| `FunctionCache` | the hashed multimap of `jit.cpp` | implements `Dictionary` |
| `FunctionLibrary` | the promises in the comment on class `JitContext` | abstract specification |
| `JitContext` | contexts, implementations, cache, runtime memory, code holder, policies, statistics, snapshot, moves | implements `FunctionLibrary` |
| `PySession` | session, prepared programs, threads and arrays | |
| `HirSteps` | the steps of HIR and the value each has for a row | meaning used by all modules below |
| `HirPeepholes`, `HirExpressions`, `HirOutputs` | peepholes, calls that return a handle, calls that add a root | operators of `FunctionBuilder` |
| `FunctionBuilder` | a builder driven call by call | |
| `Nullable` | `NullableBuilder`, one row through any sequence of calls | |
| `RowBlocks` | arithmetic on blocks of rows (`vect::RowBlock`) | used by `Vectorizer` |
| `Vectorizer` | the passes of `try_vectorize`, and how `gen_main_loop` places roots on rows | |
| `MirLowering` | what a lowered operation computes, per target | operators of `MirChecks` and `MirKernel` |
| `MirChecks` | safety checks; a row is lowered | |
| `RowFold` | what a kernel promises about an aggregate | abstract specification |
| `MirKernel` | prologue, main loop, remainder, epilogue and accumulators | implements `RowFold` |
| `X86Emitter`, `ArmEmitter`, `ArmMasks`, `CppEmitter`, `LlvmEmitter`, `FloatEmitter` | what the code written for a step computes | operators of `EmittedSteps` |
| `EmittedSteps` | the step beside the code of each generator | |
| `ArmAccesses` | addresses, cursors, pairs and mask groups of a kernel for ARM | |
| `Emission` | a row lowered, or a step emitted, or a kernel executed | composes `MirChecks`, `EmittedSteps`, `ArmAccesses` |
| `MC...` | constants for TLC | |
| `InductionLemmas` | | induction and recursive functions, for the proofs |
| `AccumulatorProofs` | | lemmas: words, bits, folds of lists, what the epilogue collapses |
| `MirKernelProofs`, other `...Proofs` | theorems | |

### FunctionCache

`records_` is a set of nodes: a node of the multimap is an allocation, so two
nodes with equal contents are two elements, and the order in which
`equal_range` returns them is left open. `Matches` is the walk of every
operation: same hash, then same identifier. `insert_or_assign` overwrites a
matching record where it is, or adds a node. The hash is a constant function,
so TLC and the proof cover any collision. `asked` and `answer` record the last
call and what it returned; they let the refinement say that the operation that
happened is the one the caller asked for, on that identifier.

### JitContext

State and code:

| Variable | Code |
|---|---|
| `alive`, `impl` | constructed `JitContext` objects and `impl_` |
| `settings` | `policy_`, `max_cached_functions`, `debug_options_` |
| `counters`, `snapshot`, `arena` | statistics, `debug_snapshot_`, `ctx_.arena` |
| `frames` | `build_and_compile` calls in progress, outermost first |
| `parent` | `JitContextImpl::parent_` |
| `funcs` | the cache, as the map `FunctionCache` is shown to be |
| `holder` | what has been emitted into the code holder, in pieces |
| `code` | executable memory by address: owner and pieces |
| `handles` | pointers the client still has |

A build is two steps, `Begin` and one of `BuilderThrows`, `Refused`,
`CompileThrows` and `Compiles`, with anything the builder does in between:
lookups, nested builds, releases, new settings. What the two lowerings and the
emitter do is chosen from `Outcomes`; from it the model derives which path is
tried, what is left in the code holder, what the snapshot gets and whether the
build fails, as `lower_and_compile_function`, `lower_function` and
`capture_debug_information` do. Function bodies are abstracted to their
argument signature and the flag `scalar_only`, which is what the type check and
the policies tell apart. An address freed by `Release` can be given out again.

Assumptions on the client, from the comments of `jit.h`: it does not use a
pointer after it released the identifier, cleared the context or destroyed it;
it uses a moved-from context only to clear, assign or destroy it; it does not
move, clear or destroy a context from within a builder; a nested build has an
identifier of its own and comes before the outer builder's first node, since
every build empties the arena that nodes live in.

### PySession

A thread changes session state only while it holds the GIL, and it loses the
GIL in two kinds of places, so a call is cut there: while `run(inputs)` reads
the new inputs and `run_fresh` allocates outputs (both call Python), and while
compiled code executes. `Rebind`/`RunRebound`, `RunFresh`/`ExecuteFresh` and
`Finish` are the pieces. Several callbacks of one call are one switch point,
because the code changes nothing between them. `Alive` says which arrays are
referred to; an array that is not may be given out again, which is how a
dangling pointer becomes visible. All inputs of a program are one array, and so
are all its outputs; lengths, types and null masks, and the identifier strings
made of them, are data that `Raise` abstracts to a refusal.

### Vectorizer

The state is what `AlgebraicVectorizer` keeps between passes.

| Variable | Code |
|---|---|
| `graph` | the node pool: kind and step of a node, result type, children |
| `roots` | `RootState`: node, logical root, row block index, unroll coefficient |
| `assignment` | `GraphAssignment`: carrier types, coefficients, components |
| `item_width`, `loop_width` | lanes of a node (as a power of two), rows of an iteration |
| `pass`, `tries`, `failure` | where `try_vectorize` is, its round, `VectorizationFailure` |
| `main_loop` | what `gen_main_loop` lowers: a root copy, its rows, and the row each lane was computed from |

A pass is an action, and so is each round of the two passes that iterate; a pass
that cannot go on is `fail_graph_assignment`, with the first error its code
would meet (`PassError`). `graph_assign` is a pure function of graph and roots:
carriers are propagated in postorder until nothing changes, then coefficients
spread from one node of each component along edges, each with the difference the
sizes of its ends prescribe. A node is a record in a sequence, so rewriting
appends, as in the pool. `SplitClone` gives the copy of a root its ids in closed
form: first the widened parts, then the rests of the split casts, then the copied
nodes.

`lower_vect` computes no values but rows: a load yields the rows of its block,
a combining node concatenates, a widening one takes a half, and an operation
whose arguments disagree on rows yields `Garbled`. What an arithmetic step
computes, signs, and constants are left out. The number of proactive copies is
any that `graph_proactive_unroll_extra_coef` can return: its cost estimate is
not modelled.

An input is a program, a target (widest mask, range of coefficients, missing
operations), the enabled transformations and the root limit.

### Function builder

`HirSteps` gives the steps and, as a recursive function over the graph, the
value of each for one row. Integers are unsigned residues; `Byte` is the number
of bits of an i8, so a narrow machine with the proportions of the real one can
be enumerated. A float stands for an integer both formats hold, or NaN. A
builder is a record (steps, the CSE table, the reverse table, announced special
operations, argument kinds, accumulators); a call is an operator from a builder
to a builder and an id, 0 for a refusal. The CSE table remembers what was *asked
for* and what came out, since `checked_op` looks behind a peephole's result.

`FunctionBuilder` drives it: `handles` keeps what each call was asked for, and
the invariants compare that with the value of the rewritten graph. `WellTyped`
is what the types of the C++ interface ensure of a call: as many operands as it
takes, results of this builder, declared arguments. An operand may well be the
result of a refused call, which `check_value` then refuses. A refused call may have changed flags and argument kinds before it threw, as in the code;
`RefusedAddsNoOutput` says what it must not have done.

### Nullable

Variables hold nullable values and predicates, each beside its meaning, NULL or
a value, which calls change by SQL's rules. Under a null the value is whatever
operations leave. What the base operations compute is a constant, because nulls
do not depend on it. `StoresReadBack` covers both encodings of null masks,
`AggregatesSkipNulls` what sums, counts and packs take. `and_`/`or_` are strict
in the code (NULL if either is), which is what the model's meaning says of them.

### MIR

`MirLowering` holds, for every integer operation and each of AVX-512 (two
register widths), NEON and scalar code, what the lowered steps compute: widened
division through doubles of the width, `libdivide` magic numbers, shifts with
and without wrap-around, byte products in 16 bits, counts of zeros by
conversion. `MirChecks` adds the overflow flag of each target: by three sign
bits, by a widened product, by the processor's flag, with and without a mask.
A behaviour is one row: chosen, then lowered.

`MirKernel` has a program counter, a row counter and the accumulators of one
aggregate and one check: vectors, their unrolled copies, the scalar one and its
delayed initialisation. Where the code leaves a register uninitialised the model
picks a value. `RowFold` says the result is a fold over the rows in order and
that a fault of any row is reported; `ImplementsRowFold` is the refinement.
`IsProgram` says which kernels that is claimed of: the operators that the
builder accepts, a power of two lanes, lanes enough that small ones can be
widened, and no condition where the lowering ignores it (section 5). `TableRow`
says what a row of a table holds. TLC evaluates these assumptions on the
instance.

### Emitters

`EmittedScalar` and `EmittedLane` (in `EmittedSteps`) dispatch a step to one of
nine generators: AsmJit x86 and a64 and C++ and LLVM for scalars; AsmJit x86 and
a64, C++ with AVX-512 and NEON intrinsics, and LLVM for lanes. Each operator is
named for the emitter's function and computes what the instructions it writes
do, register width included: a small integer sits in a 32-bit register with
something above it, C++ promotes, LLVM gives poison. A step a generator is never
given (because lowering expanded it) is excluded by `Reaches`, with the reason.
Masks are modelled with what lies above their rows; floats as an 8-bit format
(1 sign, 4 exponent, 3 fraction bits), so NaN, infinities, subnormals, both
zeros and every conversion boundary are enumerated.

On x86 a vector step may write its result over an operand, which matters where
the result is repaired afterwards: the minimum and maximum of floats look at the
right operand for a NaN. `X86VecFloatBinary` executes the instructions of
`vec_binary` over named registers, of which the result is one; a step is given a
register of its own or its left operand's (accumulators and masked steps), a
reduction its right operand's, and `StableRight` is the copy that keeps the right
operand readable. The value has to be the same in all of them.

`Emission` starts each behaviour either with a row to lower, a step to emit, or
a kernel whose accesses are emitted and executed (`ArmAccesses`). There, `ip` is
the emitter's view (cursors, or none), `gp` the machine's pointers, `counter`
the row counter, `held` the bits a mask writer has not written, `memory` the row
each mask bit was computed from. `PlanAccesses` is the pair of passes that look
for accesses that read ahead or leave gaps; `CompileMain` and `CompileRest` emit
both loops; the `Access` and `AppendMask` actions execute what was emitted.

## 3. Runs

| Run | Instance | Shows |
|---|---|---|
| `function_cache` | 3 identifiers, two with one hash | one record per identifier; implements `Dictionary` |
| `jit_context` | 2 contexts, 2 implementations, 2 addresses, 2 identifiers, 2 signatures, all policies, limits 1 and 2, debug options on and off, nesting 2 | code matches its record and has one owner, the type check is right, counters add up, the limit is kept, parents and snapshot are right, under nested, failing and abandoned builds, moves, clears and destruction; implements `FunctionLibrary` |
| `session_calls` | 2 threads with a program each, 3 arrays, one address; releases, clears and failing clears at any time | tables, outputs and the overflow byte stay right even where code was freed |
| `session_clear_race` | the same with two addresses | finding 1 |
| `vectorizer` | 6198 inputs: programs, targets and flags | no internal error, convergence, rows covered once, every lane reads its own row |
| `vectorizer_pack` | a pack beside a narrow store | finding 2 |
| `hir_between` | ranges with constants on either side | finding 4 |
| `hir_rewrites` | 33 families of programs, all and no transformations | the rewritten graph has the value asked for, faults as asked, announces what the vectorizer must refuse, and its accesses agree |
| `nullable` | any sequence of calls on two values and two predicates | SQL's meaning, no overflow of nulls, stores that read back, aggregates that skip nulls |
| `mir_lowering` | every operation, check and target; every step of nine generators; the accesses of 57 kernels | every lowering and every emission means the same; overflows are reported; accesses reach their rows; mask bits land |
| `mir_sub` | checked subtractions | finding 3 |
| `mir_kernel` | one aggregate or check at a time, x86 and ARM, unrolled, split and scalar | kernels implement `RowFold` and return |

Bounds of contexts and sessions. `Focus` is the constraint of `jit_context`. One
context alone does everything under four of the possible settings, chosen so that
every policy, both limits and both debug options occur and can follow each other:
it builds two identifiers one after another or one inside the other, fails at
every place, releases and clears, and switches options before, between and inside
builds. Beside a second context both are filled, moved, cleared, destroyed and
revived, with one identifier and room for one function each, without nesting, and
with two lookups between them (three once one of them has been moved from): a
move takes over what one context has and disposes of what the other has, so each
of them with and without a function, a failure and a snapshot of its own is what
it can tell apart. That the constraint hides nothing that needs more contexts,
functions or nesting is what the theorems of section 4 say. The view leaves out
what lies in the storage of a destroyed context, which no operation reads.

The client asks with an array of i32 for a function, whose builder makes it take
such an array read by `gather`, which the type check accepts, or an array of i64,
which it must refuse. The invariant decides that by
what the code does with an argument (`Suits`), not by the comparison of the code.

`MaxLookups` caps hits and misses of a context
(2: one build after another, or one inside another), `MaxNesting` the builds in
progress, `MaxGeneration` the generation (1: before and after one
invalidation). Two identifiers and two addresses are the fewest with which freed
memory can go to another function; two contexts and implementations the fewest
with a move; three arrays let two programs have an output each and still leave
one to reuse. Symmetry is declared over addresses, implementations, arrays and
the variables of `Nullable` only, which the specifications never compare but for
equality, and in runs that check no liveness.

Inputs of `vectorizer`. The three targets have vectors of one, two and three
sizes, which are the three ranges of coefficients the code can have. The
programs are: a store over every chain of up to two casts between the six
types; one root of every kind over every single cast; checked sums under masks;
and pairs of roots over single casts, which is where groups of different width
meet. A cast spans at most three doublings and two of them already force every
rewrite: chains, repeated splitting, splitting of a root that was split, range
casts and unrolling. Single roots and kinds run with all transformations and
with none; pairs with all, and on NEON also with unrolling off and a limit of
four roots, so that the limit and the width errors occur. The masked checked
sums are under masks over columns of their own, which excludes the weakness of
mask combining in section 5. The limits of 8 and 64 rounds are the code's; a
root that is split in every round meets the limit of 16 roots first, in the
fifth.

Widths. `hir_rewrites` and `mir_kernel` have 2-bit bytes (i8 has 2 bits, i64
16), the lowering of `mir_lowering` 4-bit bytes (`Byte`) and its emitters 2-bit
ones (`EmitterByte`). Proportions between types are those of the code, so signs,
carries, widening and counts behave alike; every pair of the narrowest type is
tried, wider ones around zero, the ends and the ends of the next narrower type.
What depends on the real widths (the constants of AVX-512 conversions, the bit
tricks for population counts) is written with the width as parameter. `Ranges`
compares a value with every pair of constants of an i8, and with those around
zero and the ends of an i16, by each of the four orders, signed and unsigned, the
constants on either side and the two comparisons in either order. `SameValue`
excuses no row of a rewrite: where the two rewrites of section 5 change the
meaning, `MisreadRange` and `MisreadFactor` say exactly what the result is
instead, and anything else violates it. Division
by a constant runs on x86 and ARM for i32 only: the double-width product of a
16-bit i64 is beyond TLC's integers. A count of an i8's bits does not fit two
bits, which the signed extension on ARM is excused from. `hir_rewrites` uses at
most 7 arguments, 2 roots and 10 live steps, the limits the builder is given, so
that each limit is met.

Rows. `mir_kernel` takes tables up to two passes of the main loop and three rows
of the remainder (at most 9 rows; 5 where rows have many values): no main loop,
no remainder, both, and copies that differ in their last pass. `ArmAccesses` has
tables of {0, 1, 5, 7, 8, 9, 15, 16, 17, 24, 31, 33, 40} rows: around every
vector and mask group size and up to two groups and a half; `LastBit` is past
the last group. `FlushBits` is 16 as in the code. Its kernels are element-wise
with two and four copies, in place and not, aligned and not; narrowing and
widening; over-reading loads (exempt from the table's end, which is how the code
uses them); gathers; conditional stores; masks of every lane count, from masks
and to two outputs; folds; one with no main loop; and kernels whose copies come
out of order. No expression yields the last kind, but the emitter guards against
it and only they reach that guard.

Exceptions. `ScalarException`, `FloatException` and `MaskException` in
`Emission` list, one line each, the steps whose emission differs from the
meaning in a way section 5 reports, and conversions of a float to an integer that
cannot hold it, which every target defines for itself. Everything else has to
agree.

Deadlock is not checked where the modelled call returns: `vectorizer`,
`hir_rewrites`, `mir_lowering` and `mir_kernel`. Elsewhere something is always
possible.

Fairness. `MirKernel` has WF_vars(Next): a kernel is straight machine code, and
a processor that executes it keeps executing it; under it
`ReturnsAfterAllRows` says that it returns. No other specification assumes
fairness: in contexts and sessions there is no waiting, no retry and no
background work; every call returns or throws, and a client need not make
another one. That the loops of the vectorizer end is the safety property
`AlwaysConverges`, because the code bounds them and reports when a bound is met.

## 4. Proofs

All for arbitrary constants, so for any number of contexts, functions,
addresses, threads, programs and arrays, any nesting and any generation.

`FunctionCacheProofs`: the invariant is that a record carries the hash of its
own identifier and that no two records have one identifier; it is inductive
together with the types, and gives `TypeCorrect`, `CacheInvariant` and, with the
abstract map read off the records, `CacheImplementsDictionary`.

`JitContextProofs`: `TypeCorrect`, `CodeIsOwned`, `CodeIsDescribed`,
`HandlesAreValid`, `ParentsAreRight`. The properties are not inductive one by
one. What they need of each other is in `IInv`: an implementation is owned by
the context that points to it (`ParentsAgree`), which makes the code freed by a
release or a clear that of one context; live code and records correspond
(`CacheOwnsItsCode`), which makes an address that is free a fresh one; and the
identifier of a build in progress is not cached until it ends
(`PendingIsUncached`), without which an insertion would leave the code of the
record it replaces alive and handles to it dangling.

Its second half builds on that invariant. `StatisticsAreRight` and
`CacheStaysWithinLimit` need that an implementation nobody owns caches nothing
(`FreeImplsAreEmpty`), or a new context would start with functions it never
counted, and that caches are finite. `SnapshotIsCurrent` holds for any
depth of nesting: when an attempt ends, the snapshot names no attempt before it.
Its invariant (`Dated`) is that the attempts in progress are in the order in which
they began, and that what the snapshot names is later than all of them and at most
the latest: a `Begin` empties it, and only the attempt that ends adds its own name.
It does not say that all fields name the same attempt,
which is false when the builder of one attempt makes another (section 5).
`LibraryIsImplemented` maps the state to that of `FunctionLibrary`: a context
keeps the function that the code at the address of its cached record runs, and
a handle promises the function at its own address. Each operation is a lemma;
moves need that a context moved from keeps nothing and is promised nothing.

`PySessionProofs`: `ProgramStep` is what the nine actions of calls have in
common. `TypeCorrect` needs that outputs in `state.buffers` and in the table are
those in `state.outputs` (`Sound`). `CodeIsLive` says that executing code is
live under `ClientWaits`: the client releases and clears between other calls
only, and `clear` does not fail. Its invariant is that generations are never in
the future, that a valid program's code is the cached code of its identifier,
and that a program with a call in progress is valid. `OutputsAreOwn` and
`OverflowsReachTheirCall` hold without `ClientWaits` but need that no two
threads share a program; their invariant adds that the table in use leads to
the current outputs and that no array is the output of two programs.

`MirKernelProofs`, over `AccumulatorProofs`: `KernelImplementsRowFold` is
`Spec => ImplementsRowFold` for every table, aggregate, check, number of lanes
and copies, and width of a byte. The refinement mapping reads the value off all
accumulators at once, as the epilogue would collapse them, so the invariant is
about that number:

- `Control`: the row counter and `pc` agree; registers have as many copies and
  lanes as the program, each of its type; what is not initialised yet is unused.
- `AccsFold`: collapsing the accumulators gives the fold of the first `counter`
  rows, where an accumulator that still holds garbage counts as neutral
  (`RestOf`). That clause makes it inductive along the paths with a delayed
  prologue: main loop and delayed prologue keep the number, and the remainder is
  only reached with the register initialised.
- `PackFolds`: what a pack wrote is the list of its active rows, and its
  accumulator counts them.
- `FlagsRaised`: a flag of the main loop is set, or the remainder's is
  initialised and set (`FlagOf`), if and only if one of those rows faults.

The step is `LaneFolds`: when a row enters any one lane, the number that all
lanes collapse to changes as the abstract fold of the row does. It rests on two
facts about each of the ten operators: the combining operator commutes and
associates on the residues of the type and the accumulator's initial value is
neutral (`Add` and `Mul` modulo a power of two, signed and unsigned extremes,
bits); and updating by a row, then combining, is combining, then updating.
`AndNot` negates rows and combines by `And`. From these,
the tree over the copies, the halving of a register, the four or two registers
that small lanes are widened into (with their sign for signed extremes), the
counts per copy and the mask reductions all collapse a list of lanes to its
fold. A 128-bit sum is followed modulo 2^128 through halves and carries, and is
the exact sum because a table has fewer rows than a 64-bit integer counts
(`InputsAssumption`). The provers know nothing of `^`: `PowersAssumption` states
the recursion of powers of two up to the widest type and is all that the proof
uses of it; for the exponents in question it is arithmetic, which TLC evaluates.

`KernelInvariant` is that invariant as a theorem. `LoopsStayInTheTable` says
that neither loop starts a pass for which the table has too few rows: the
model's loops are guarded by what is left of the table, which the code's are
not, and this theorem shows that the guard never holds a loop up.

Also there, `HalvesShareOutTheRows`, `CopiesAreACopyWidthApart` and
`SliceOfContainingBlock` are the facts on blocks of rows behind
`RowsCoveredOnce` and `LanesReadTheirRows`: cutting a block loses and repeats no
row, copies start one copy width apart, and a block lies in the wider one
around it at its index there. They hold for all widths, positions and counts.

`NullableProofs`: `NullsAreSql` (`MeansWhatSqlSays`), `NullsAreNotReported`
(`NullsDoNotOverflow`), `StoresAreReadBack` and `OutputsAreSql`
(`AggregatesSkipNulls`), for any set of values, any operations, any number of
variables and argument lists of any length. `TypeOK`, `MeansWhatSqlSays` and
`NullsDoNotOverflow` together are inductive; each call is a lemma over the cases
of its operands, with and without a null mask. The calls with a list are proved
by induction over it: `coalesce`, minima and conjunctions over the spans that
`fold_bin_op` halves, `case_when` from its last branch. A span means what the
SQL operation says of its elements; joining two of them needs that a maximum
selects, commutes and associates (`ExtremeAssumption`). Integers do; floats do
where none is NaN, and NaN is excluded.

`FunctionBuilderProofs` holds for any programs, widths and limits, so for graphs
and operand sets of any size. A step is *safe* if all that the vectorizer must
know of it has been announced and it is no conversion that still has to be
split. The invariant `WF` says that operands, results remembered by the CSE
table, roots and handles are safe steps, that operands come before the step that
uses them, and that whatever is written through (accumulators, the safety check,
stores, scatters, packs) is an argument whose kind says so. Safety, not just
existence, has to be invariant, because the CSE table may return any step it ever
saw to a call that does not announce. Nor is every step of the table safe: a
conversion that was split stays in it for its key, and only that nothing refers
to it keeps it out of the function.

The first half shows that each peephole yields an earlier step or new steps in
order, none of which needs an announcement; the recursive ones (chains of casts,
conversions of floats through integers) by induction over what they walk. The
rewrite of a conversion may add conversions, none of which has to be split
(`GoodCast`). The second half goes up the layers: creating a step,
each call, expansions into several calls (by induction over the script, which
stops at the first refused call), each action. It gives `TypeCorrect`
(`TypeOK`), `SpecialOpsKnown` (`SpecialOpsAnnounced`), `CastsAreDecomposed`
(`CastsDecomposed`), `RefusalsAddNothing` (`RefusedAddsNoOutput`) and
`AccessesAgree` (`BuiltAccessesAgree`, with that `build` refuses accesses that do
not go together). The live steps are a recursive set; that they are safe steps
(`LiveSafe`) is one more induction, over the table, and the theorems about live
steps rest on it.

`InductionLemmas` holds what those inductions rest on. The library's induction
theorems take an operator, which the provers cannot instantiate, so induction is
restated for sets (`NaturalInduction`, `SpanInduction`), from the
well-foundedness of the naturals. A function defined by recursion is a `CHOOSE`,
which says nothing until a function with its equation exists; `Iteration` and
`SpanRecursion` are the existence proofs for the two shapes that occur.

`RunsLiveCode` is violated by `session_clear_race`, while `CodeIsLive` proves it
under `ClientWaits`: the two together say exactly which obligation the client
carries.

Only model-checked:

- `ReturnsAfterAllRows`, because liveness is out of the prover's reach. Its
  safety half is proved: `LoopsStayInTheTable`, and the result is stored once
  all rows are folded.
- The properties of `Vectorizer`, whose module has recursive operators.
- The properties of `Emission`. `LoweringKeepsValue`, `ReportsOverflow` and
  `EmittersKeepMeaning` compare some hundred pieces of arithmetic with the
  meaning of an operation, at the width of an integer; the provers decide
  neither division by magic numbers nor bit tricks. `AccessesReachTheirRows` and
  `MaskBitsLand` are true of kernels whose copies tile a pass, not of any roots
  in any order: a register that is advanced less than a pass is wrong in the next
  one. That the roots tile it is the vectorizer's promise, which has no proof
  for a whole function yet (section 6, item 1).
- `SameValue` and `FaultsAsAsked` of `FunctionBuilder`: the value of a graph is
  a recursive function, and each of the peepholes an identity on words, with
  products, quotients and rotations among them.
- `ScalarWhenNeeded`, which holds of the run's programs but not of any: a program
  that gathers from a table it also scatters to has to ask for `scalar_only`
  itself, and a checked division by one is left without it (section 5).

Proofs of liveness and of `ENABLED` are absent altogether.

## 5. Findings

1. `session_clear_race`: `clear` or `release` on one thread frees code another
   thread executes (`py_adapter.cpp:2255`).
2. `vectorizer_pack`: all unrolled copies of a root are lowered before the next
   root (`mir.cpp:3355`), so a split pack that is unrolled beside a root of more
   rows appends its values out of row order.
3. `mir_sub`: the overflow check of a subtraction takes the table 0x90 of three
   sign bits (`mir.cpp:1689`), which is not the one for subtraction: `0 - MIN`
   is not reported.

4. `hir_between`: the between peephole takes a lower bound with its constant on
   the left for the strict one (`function_builder.cpp:942`), so `-2 <= x && x <= 0`
   is false for -2, where `simjit.h:407` promises SQL's `BETWEEN`.

More weaknesses appear without a run of their own. They are excluded by the
inputs, or written into the model as the code has them, as noted.

Contexts and sessions:

- The compile path never asks whether the host supports vector code; only the
  debug capture does (`jit.cpp:189`, `198`, `207`).
- `run_fresh` after `run(inputs)` works on the inputs of `prepare_program`,
  which may be gone (`py_adapter.cpp:2311`).
- A best-effort build ends with an error that `can_best_effort_fallback` does
  not list (`jit.cpp:216`, `226`), although `jit.h:17` says errors are ignored.
- The MIR in the debug snapshot can be the vector lowering although scalar code
  was compiled (`jit.cpp:383`), as the capture lowers a second time.
- A `clear` that throws after it deleted the implementation leaves the
  generation as it was (`module_api.cpp:84`), so prepared programs stay valid
  and run freed code; `CodeIsLive` excludes it with `~ ClearCanFail`.
- With nested builds the snapshot mixes fields of the inner and the outer
  attempt.

Function builder and nullable values:

- Beside finding 4, the between peephole takes unsigned comparisons for signed
  ones: `x >= 250u && x <= 5u` of an i8 becomes the range from -6 to 5
  (`MisreadRange`). And of `c < x` it makes `x >= c`.
- `mul32_64` of a zero-extended value with a negative i32 constant multiplies
  unsigned (`MisreadFactor`). `checked_op` returns such a product unchecked
  (1627), so a checked one is not among the inputs.
- The reverse table keeps the last of two requests with one result, so a check
  can be put on the other one's operation.
- A checked division by one stays a live division without `scalar_only`.
- `kind = SrcIdxArr` (1344, 1492) forgets that the argument is also written.
- A rejected call leaves the argument kinds and flags it had set.
- CSE of a load across an in-place store, a gather and a scatter of one argument
  through different positions, and a splat load of an argument that is stored to
  are vectorized as if they did not interfere.
- `x + 0.0` is taken for `x`, also for -0.0; f64 to i32 goes through f32.
- Byte permutations overflow their uint8 indices; `has_single_bit(0)` is true, which
  `HelperValue` states as it is.
- `NullableBuilder::zeronull` (`nullable.cpp:62`) selects zero where the value
  is *not* null, so it is left out of the model. `and_` and `or_` are strict,
  unlike SQL's.

Vectorizer and MIR:

- Combining a mask widens every node beside it (`vectorizer.cpp:1317`); a column
  that both the masked value and the mask read through a cast is widened without
  the cast, and the lowering's assertion on lanes fails (`mir.cpp:2578`). On
  NEON a masked checked operation over a truncated column can get a coefficient
  outside the target's range (`vectorizer.cpp:1429`).
- A conditional 8-bit product ignores its condition in the scalar remainder
  (`mir.cpp:2855`), and a conditional 128-bit sum in both loops (2270, 2887):
  `arith_agg` builds the step with its condition (`function_builder.cpp:349`)
  and no lowering of it reads that. A sum of nullable values to an i128 is such a
  sum (`nullable.cpp:593`). `IsProgram` excludes both. A scalar conversion of a sign-extended value to a float
  becomes signed also where an unsigned one was asked for (2721).
- The check of a vector shift's count ignores the mask of active rows. Checked
  vector products of i32 and i64 are approximate, as documented.
- A checked narrowing on NEON also reports the inner unchecked one's overflow.
- Counts beyond the width give different results in scalar and vector code
  (the builder leaves them unspecified).

Emitters (those with an exception in `Emission` are marked *):

- a64: a scalar permutation of small integers leaves zero-extended or stale
  upper bits*; the count of a mask adds lanes of the element size whatever size
  the mask has*; a select against zero and a conditional store take the
  condition at whatever size it has*; the complement of a short mask sets bytes
  beyond it*; minima of floats are reduced with `fminv`, which propagates NaN
  where lanes use `fminnm` (harmless, because accumulators start at an
  infinity); a scalar mask bit is stored by rewriting a 64-bit word, up to seven
  bytes past the end of a mask.
- C++: rotation by a multiple of the width shifts by the width*; an arithmetic
  shift of an i64 constant has a literal of type int*; `abs` of a float keeps
  the sign of -0.0*; negated products are written with two minus signs; the
  loads of masks of 2 and 4 rows for AVX-512 have one parenthesis too many, and
  those of 64-bit NEON vectors mix types: neither compiles; a scalar load's
  offset is divided by the size while a store's is not.
- LLVM: a store of a mask of 2 or 4 rows writes one byte past the mask.

## 6. Not modelled, and the plan

In this order:

1. A proof that splitting and unrolling keep the row blocks of a logical root a
   tiling of the iteration, from the theorems on blocks in `MirKernelProofs`; for
   it the roots move into a module without recursive operators.
2. With that tiling as the assumption on kernels, that every cursor ends a pass
   at its width or unused, and from it `AccessesReachTheirRows`.
3. The rest of MIR: fused multiply-add and ternary logic peepholes, code motion.
4. The rest of the emitters: values of gathers and packs, the registers of the
   128-bit sum, the addresses of kernels on x86 (one counter, no cursors).
5. `Arena`: blocks of a minimum size, alignment, and oversized requests.
6. `Explorer`: query cache and limits.
7. `LazyKernel` of the DuckDB extension.
8. The Python layer's resolver and data frames.

Left aside: float sums, products, roots and fused multiply-adds, which the
processor rounds alike in every back end; register allocation and encoding,
which are asmjit's; the text around the steps in C++ and LLVM output; the
serialiser and the parsers (formatting); vendored headers; scripts; and asmjit
itself, whose runtime appears only as memory that is given out and taken back.

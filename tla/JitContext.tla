----------------------------- MODULE JitContext -----------------------------
(***************************************************************************)
(* JitContext and JitContextImpl (jit.h, jit.cpp): the cache of compiled   *)
(* functions, the executable memory behind it, the compile policies with   *)
(* the best-effort fallback, the statistics, the debug snapshot, and the   *)
(* life of a context object: construction, moves, clear(), destruction.    *)
(*                                                                         *)
(* build_and_compile runs a builder the client supplies.  The builder may  *)
(* call the context it is building for, so the call is two steps here:     *)
(* Begin (a miss) and the end of the build, with whatever the builder does *)
(* between them.  Nested builds use identifiers of their own (jit.h asks   *)
(* for unique identifiers) and come before the outer builder's first node, *)
(* because reset_current_compilation empties the arena nodes live in.      *)
(*                                                                         *)
(* The client keeps the pointers it was given until it gives up the        *)
(* identifier, the context or both; it never calls a moved-from context    *)
(* except to clear, assign or destroy it.                                  *)
(***************************************************************************)
EXTENDS Naturals, Sequences, FiniteSets

CONSTANTS
    Contexts,        \* JitContext objects (storage)
    Impls,           \* JitContextImpl objects (heap)
    Addresses,       \* where the JIT runtime can put code
    Identifiers,
    Signatures,      \* argument declarations of functions, Seq([kind, dtype])
    Callers,         \* what callers declare, Seq([kind, dtype])
    Policies,        \* the policies the client uses
    Limits,          \* the values it gives max_cached_functions
    Debugs,          \* the debug options it uses
    HostVectorizes,  \* host_supports_vectorization_
    Null,
    MaxLookups,      \* bound on each of cache_hits_ and cache_misses_
    MaxNesting       \* bound on builds in progress in one context

Functions == [args : Signatures, scalar_only : BOOLEAN]

Modes == {"vector", "scalar"}
Stages == {"HIR", "Vectorizer", "MIR", "ASM"}
DebugOptions ==
    [capture_on_error : BOOLEAN, capture_on_success : BOOLEAN,
     record_vectorization_fail_exception : BOOLEAN, stages : SUBSET Stages]

Settings == [policy : Policies, limit : Limits, debug : Debugs]
Counters == [hits : Nat, misses : Nat, attempts : Nat, successes : Nat, failures : Nat]
Frame    == [identifier : Identifiers, caller : Callers \cup {Null}, attempt : Nat]
Piece    == [function : Functions, mode : Modes, complete : BOOLEAN]
FunctionRecord == [fn_ptr : Addresses, args : Signatures]
Code     == [owner : Impls, pieces : Seq(Piece)]
Handle   == [context : Contexts, identifier : Identifiers, address : Addresses,
             caller : Callers \cup {Null}]

\* A field of the snapshot names the attempt that filled it, 0 when empty, and
\* for lowered code how it was lowered.
Captured == [attempt : Nat, mode : Modes \cup {Null}]
NotCaptured == [attempt |-> 0, mode |-> Null]
DebugSnapshot == [vectorization_exception : Nat, hir : Nat, vectorizer : Nat,
                  mir : Captured, asm_code : Captured]
EmptySnapshot == [vectorization_exception |-> 0, hir |-> 0, vectorizer |-> 0,
                  mir |-> NotCaptured, asm_code |-> NotCaptured]
ZeroCounters  == [hits |-> 0, misses |-> 0, attempts |-> 0, successes |-> 0, failures |-> 0]
NoFunctions   == [id \in Identifiers |-> Null]

ASSUME SettingsAssumption ==
    /\ Policies \subseteq {"BestEffort", "Vectorized", "Scalar"}
    /\ Limits \subseteq Nat
    /\ Debugs \subseteq DebugOptions
    /\ HostVectorizes \in BOOLEAN
    /\ MaxLookups \in Nat
    /\ MaxNesting \in Nat
    /\ Settings # {}

ASSUME NullAssumption ==
    Null \notin Contexts \cup Impls \cup Callers \cup Functions \cup FunctionRecord \cup Code

VARIABLES
    alive,       \* the contexts that are constructed
    impl,        \* JitContext::impl_
    settings,    \* policy_, ctx_.build_limits.max_cached_functions, debug_options_
    counters,    \* the five statistics counters
    snapshot,    \* debug_snapshot_
    arena,       \* ctx_.arena, as the context whose arena_ it points to
    frames,      \* the build_and_compile calls in progress, outermost first
    parent,      \* JitContextImpl::parent_, Null for a free heap object
    funcs,       \* FunctionCache: a record or Null for each identifier
    holder,      \* AsmjitSession::code_holder_: what has been emitted into it
    code,        \* asmjit::JitRuntime: the code at each address
    handles      \* the function pointers the client still holds

ctxVars  == <<alive, impl, settings, counters, snapshot, arena, frames>>
implVars == <<parent, funcs, holder, code>>
vars     == <<ctxVars, implVars, handles>>

TypeOK ==
    /\ alive \subseteq Contexts
    /\ impl \in [Contexts -> Impls \cup {Null}]
    /\ settings \in [Contexts -> Settings]
    /\ counters \in [Contexts -> Counters]
    /\ snapshot \in [Contexts -> DebugSnapshot]
    /\ arena \in [Contexts -> Contexts]
    /\ frames \in [Contexts -> Seq(Frame)]
    /\ parent \in [Impls -> Contexts \cup {Null}]
    /\ funcs \in [Impls -> [Identifiers -> FunctionRecord \cup {Null}]]
    /\ holder \in [Impls -> Seq(Piece)]
    /\ code \in [Addresses -> Code \cup {Null}]
    /\ handles \subseteq Handle

-----------------------------------------------------------------------------
(* The function cache, in terms of the plain map it implements             *)
(* (FunctionCache.tla).                                                    *)

Find(i, id) == funcs[i][id] # Null

Cached(i) == {id \in Identifiers : Find(i, id)}

\* Gather and index arrays are read-only arrays to a caller.
inner_kind(kind) == IF kind \in {"SrcGatherArr", "SrcIdxArr"} THEN "SrcArr" ELSE kind

\* Mutant: the element types are not compared.
MutChecksKinds(args, caller) ==
    caller # Null =>
        /\ Len(args) = Len(caller)
        /\ \A n \in 1..Len(args) : inner_kind(args[n].kind) = caller[n].kind

typecheck_function(args, caller) ==
    caller # Null =>
        /\ Len(args) = Len(caller)
        /\ \A n \in 1..Len(args) :
              /\ inner_kind(args[n].kind) = caller[n].kind
              /\ args[n].dtype = caller[n].dtype

-----------------------------------------------------------------------------
(* One compilation: lowering, emission and the best-effort fallback.       *)
(* Whether a stage succeeds depends on the function, the transformations   *)
(* and the target; here it is chosen freely.                               *)

\* How far the vectorized path gets.  A failure is "rejected" when
\* can_best_effort_fallback accepts it and "error" otherwise.
VectorOutcomes ==
    [at : {"vectorizer", "mir", "emitter"}, kind : {"rejected", "error"}]
        \cup {[at |-> "none", kind |-> "ok"]}
ScalarOutcomes == {"ok", "mir", "emitter"}
Outcomes == [vector : VectorOutcomes, scalar : ScalarOutcomes]

Vectorizes(o) == o.vector.at # "vectorizer"
LowersVector(o) == o.vector.at \in {"emitter", "none"}
LowersScalar(o) == o.scalar # "mir"

FreeAddresses == {a \in Addresses : code[a] = Null}

\* runtime_.add fails when no memory is left, which is no reason to fall back.
VectorResult(o) ==
    IF o.vector.kind = "ok" /\ FreeAddresses = {} THEN "error" ELSE o.vector.kind

TriesVector(policy, f) == policy # "Scalar" /\ ~ f.scalar_only

FallsBack(policy, f, o) ==
    /\ policy = "BestEffort"
    /\ TriesVector(policy, f)
    /\ VectorResult(o) = "rejected"

TriesScalar(policy, f, o) ==
    \/ policy = "Scalar"
    \/ policy = "BestEffort" /\ f.scalar_only
    \/ FallsBack(policy, f, o)

\* The modes lower_and_compile_function can return code in: none when it throws.
CompiledModes(policy, f, o) ==
    {m \in Modes :
        /\ FreeAddresses # {}
        /\ m = "vector" => TriesVector(policy, f) /\ VectorResult(o) = "ok"
        /\ m = "scalar" => TriesScalar(policy, f, o) /\ o.scalar = "ok"}

\* Mutant: emission starts in a code holder that was not reset.
MutResetNothing(held) == held

\* compile_asmjit resets the session's code holder before it emits.
reset(held) == << >>

Emit(held, f, mode, complete) ==
    Append(reset(held), [function |-> f, mode |-> mode, complete |-> complete])

HeldAfterVector(held, policy, f, o) ==
    IF TriesVector(policy, f) /\ LowersVector(o)
    THEN Emit(held, f, "vector", o.vector.kind = "ok")
    ELSE held

HeldAfter(held, policy, f, o) ==
    LET h == HeldAfterVector(held, policy, f, o)
    IN  IF TriesScalar(policy, f, o) /\ LowersScalar(o)
        THEN Emit(h, f, "scalar", o.scalar = "ok")
        ELSE h

-----------------------------------------------------------------------------
(* The debug snapshot.                                                     *)

\* lower_function, which only the capture uses: not the lowering that was
\* compiled but a second one.  Null when it throws.
lower_function(policy, o) ==
    CASE policy = "Scalar" -> IF LowersScalar(o) THEN "scalar" ELSE Null
      [] policy = "Vectorized" -> IF HostVectorizes /\ LowersVector(o) THEN "vector" ELSE Null
      [] policy = "BestEffort" ->
            IF HostVectorizes /\ LowersVector(o) THEN "vector"
            ELSE IF HostVectorizes /\ o.vector.kind = "error" THEN Null
            ELSE IF LowersScalar(o) THEN "scalar"
            ELSE Null

Assembles(mode, o) ==
    \/ mode = "vector" /\ o.vector.kind = "ok"
    \/ mode = "scalar" /\ o.scalar = "ok"

capture_debug_information(snap, n, s, o) ==
    LET mode == lower_function(s.policy, o)
        lowered == [attempt |-> n, mode |-> mode]
    IN  [snap EXCEPT
            !.hir = IF "HIR" \in s.debug.stages THEN n ELSE @,
            !.vectorizer =
                IF "Vectorizer" \in s.debug.stages /\ s.policy # "Scalar" /\ Vectorizes(o)
                THEN n ELSE @,
            !.mir = IF "MIR" \in s.debug.stages /\ mode # Null THEN lowered ELSE @,
            !.asm_code =
                IF "ASM" \in s.debug.stages /\ Assembles(mode, o) THEN lowered ELSE @]

\* build_hir keeps the HIR before the compilation starts.
EagerHir(snap, n, s) ==
    IF /\ s.debug.capture_on_error \/ s.debug.capture_on_success
       /\ "HIR" \in s.debug.stages
    THEN [snap EXCEPT !.hir = n]
    ELSE snap

RecordFallback(snap, n, s, f, o) ==
    IF FallsBack(s.policy, f, o) /\ s.debug.record_vectorization_fail_exception
    THEN [snap EXCEPT !.vectorization_exception = n]
    ELSE snap

\* Mutant: a new attempt keeps the snapshot of the one before.
MutKeepSnapshot(snap) == snap

\* reset_current_compilation
ResetSnapshot(snap) == EmptySnapshot

-----------------------------------------------------------------------------
(* Lookups and builds.                                                     *)

Usable(c) == c \in alive /\ impl[c] # Null
Idle(c) == frames[c] = << >>

Drop(c, id) == {h \in handles : ~ (h.context = c /\ h.identifier = id)}
DropAll(c) == {h \in handles : h.context # c}

\* A hit, of find_cached_function or of build_and_compile.  A mismatch throws
\* before anything changes.
Hit(c, id, caller) ==
    /\ Usable(c)
    /\ Find(impl[c], id)
    /\ typecheck_function(funcs[impl[c]][id].args, caller)
    /\ counters[c].hits < MaxLookups
    /\ counters' = [counters EXCEPT ![c].hits = @ + 1]
    /\ handles' = handles \cup
          {[context |-> c, identifier |-> id,
            address |-> funcs[impl[c]][id].fn_ptr, caller |-> caller]}
    /\ UNCHANGED <<alive, impl, settings, snapshot, arena, frames, implVars>>

\* find_cached_function without a match
Miss(c, id) ==
    /\ Usable(c)
    /\ ~ Find(impl[c], id)
    /\ counters[c].misses < MaxLookups
    /\ counters' = [counters EXCEPT ![c].misses = @ + 1]
    /\ UNCHANGED <<alive, impl, settings, snapshot, arena, frames, implVars, handles>>

\* build_and_compile up to the call of the builder
Begin(c, id, caller) ==
    /\ Usable(c)
    /\ ~ Find(impl[c], id)
    /\ \A n \in 1..Len(frames[c]) : frames[c][n].identifier # id
    /\ Len(frames[c]) < MaxNesting
    /\ counters[c].misses < MaxLookups
    /\ counters' = [counters EXCEPT ![c].misses = @ + 1, ![c].attempts = @ + 1]
    /\ snapshot' = [snapshot EXCEPT ![c] = ResetSnapshot(@)]
    /\ frames' = [frames EXCEPT ![c] = Append(@,
          [identifier |-> id, caller |-> caller, attempt |-> counters[c].attempts + 1])]
    /\ UNCHANGED <<alive, impl, settings, arena, implVars, handles>>

Current(c) == frames[c][Len(frames[c])]
Return(c) == [frames EXCEPT ![c] = SubSeq(@, 1, Len(@) - 1)]

\* Mutants: a failed build is not counted; it is counted down.
MutCountNothing(c) == counters
MutCountDown(c) == [counters EXCEPT ![c].failures = @ - 1]

CountFailure(c) == [counters EXCEPT ![c].failures = @ + 1]

\* The builder throws: there is no HIR to capture.
BuilderThrows(c) ==
    /\ ~ Idle(c)
    /\ counters' = CountFailure(c)
    /\ frames' = Return(c)
    /\ UNCHANGED <<alive, impl, settings, snapshot, arena, implVars, handles>>

CaptureOnError(snap, n, s, o) ==
    IF s.debug.capture_on_error THEN capture_debug_information(snap, n, s, o) ELSE snap

CaptureOnSuccess(snap, n, s, o) ==
    IF s.debug.capture_on_success THEN capture_debug_information(snap, n, s, o) ELSE snap

\* Mutant: one function more than the limit.
MutCacheFullLate(c) == Cardinality(Cached(impl[c])) > settings[c].limit

CacheFull(c) == Cardinality(Cached(impl[c])) >= settings[c].limit

\* compile_internal accepts the signature and has room for the function.
Admits(c, f) ==
    /\ typecheck_function(f.args, Current(c).caller)
    /\ ~ CacheFull(c)

\* The function is built and turned down before it is lowered.
Refused(c, f, o) ==
    LET n == Current(c).attempt
    IN  /\ ~ Idle(c)
        /\ ~ Admits(c, f)
        /\ counters' = CountFailure(c)
        /\ snapshot' = [snapshot EXCEPT ![c] =
              CaptureOnError(EagerHir(@, n, settings[c]), n, settings[c], o)]
        /\ frames' = Return(c)
        /\ UNCHANGED <<alive, impl, settings, arena, implVars, handles>>

\* Lowering or emission throws; what was emitted stays in the code holder.
CompileThrows(c, f, o) ==
    LET n == Current(c).attempt
        s == settings[c]
    IN  /\ ~ Idle(c)
        /\ Admits(c, f)
        /\ CompiledModes(s.policy, f, o) = {}
        /\ holder' = [holder EXCEPT ![impl[c]] = HeldAfter(@, s.policy, f, o)]
        /\ counters' = CountFailure(c)
        /\ snapshot' = [snapshot EXCEPT ![c] =
              CaptureOnError(RecordFallback(EagerHir(@, n, s), n, s, f, o), n, s, o)]
        /\ frames' = Return(c)
        /\ UNCHANGED <<alive, impl, settings, arena, parent, funcs, code, handles>>

\* The code is added to the runtime, saved under the identifier and returned.
Compiles(c, f, o) ==
    LET i == impl[c]
        id == Current(c).identifier
        n == Current(c).attempt
        s == settings[c]
    IN  /\ ~ Idle(c)
        /\ Admits(c, f)
        /\ CompiledModes(s.policy, f, o) # {}
        /\ holder' = [holder EXCEPT ![i] = HeldAfter(@, s.policy, f, o)]
        /\ \E a \in FreeAddresses :
              /\ code' = [code EXCEPT ![a] = [owner |-> i, pieces |-> holder'[i]]]
              /\ funcs' = [funcs EXCEPT ![i][id] = [fn_ptr |-> a, args |-> f.args]]
              /\ handles' = handles \cup
                    {[context |-> c, identifier |-> id, address |-> a,
                      caller |-> Current(c).caller]}
        /\ counters' = [counters EXCEPT ![c].successes = @ + 1]
        /\ snapshot' = [snapshot EXCEPT ![c] =
              CaptureOnSuccess(RecordFallback(EagerHir(@, n, s), n, s, f, o), n, s, o)]
        /\ frames' = Return(c)
        /\ UNCHANGED <<alive, impl, settings, arena, parent>>

EndBuild(c) ==
    \/ BuilderThrows(c)
    \/ \E f \in Functions, o \in Outcomes :
          Refused(c, f, o) \/ CompileThrows(c, f, o) \/ Compiles(c, f, o)

-----------------------------------------------------------------------------
(* Release, settings, and the life of a context object.                    *)

\* Mutant: the record goes and the code stays.
MutFreeNothing(a) == code

\* release_compiled_function
FreeCode(a) == [code EXCEPT ![a] = Null]

\* Mutant: the code goes and the record stays.
MutEraseNothing(i, id) == funcs

Erase(i, id) == [funcs EXCEPT ![i][id] = Null]

\* delete_cached_function; the client gives up its pointers to the function.
Release(c, id) ==
    /\ Usable(c)
    /\ Find(impl[c], id)
    /\ code' = FreeCode(funcs[impl[c]][id].fn_ptr)
    /\ funcs' = Erase(impl[c], id)
    /\ handles' = Drop(c, id)
    /\ UNCHANGED <<ctxVars, parent, holder>>

\* set_policy, set_build_limits, debug_options()
Configure(c) ==
    /\ c \in alive
    /\ \E s \in Settings : settings' = [settings EXCEPT ![c] = s]
    /\ UNCHANGED <<alive, impl, counters, snapshot, arena, frames, implVars, handles>>

FreeImpls == {i \in Impls : parent[i] = Null}

\* Mutant: the runtime outlives the session.
MutKeepCode(i) == code

\* delete impl_: the session goes, and the JIT runtime with all code it holds.
\* delete of a null impl_ does nothing.
CodeWithout(i) ==
    [a \in Addresses |-> IF code[a] # Null /\ code[a].owner = i THEN Null ELSE code[a]]
FuncsWithout(i) == [j \in Impls |-> IF j = i THEN NoFunctions ELSE funcs[j]]
HolderWithout(i) == [j \in Impls |-> IF j = i THEN << >> ELSE holder[j]]

Delete(i) ==
    /\ funcs' = FuncsWithout(i)
    /\ holder' = HolderWithout(i)
    /\ code' = CodeWithout(i)

DefaultSettings == CHOOSE s \in Settings : TRUE

Construct(c) ==
    /\ c \notin alive
    /\ alive' = alive \cup {c}
    /\ \E i \in FreeImpls :
          /\ impl' = [impl EXCEPT ![c] = i]
          /\ parent' = [parent EXCEPT ![i] = c]
    /\ settings' = [settings EXCEPT ![c] = DefaultSettings]
    /\ counters' = [counters EXCEPT ![c] = ZeroCounters]
    /\ snapshot' = [snapshot EXCEPT ![c] = EmptySnapshot]
    /\ arena' = [arena EXCEPT ![c] = c]
    /\ UNCHANGED <<frames, funcs, holder, code, handles>>

Destroy(c) ==
    /\ c \in alive
    /\ Idle(c)
    /\ alive' = alive \ {c}
    /\ impl' = [impl EXCEPT ![c] = Null]
    /\ parent' = [i \in Impls |-> IF i = impl[c] THEN Null ELSE parent[i]]
    /\ Delete(impl[c])
    /\ handles' = DropAll(c)
    /\ UNCHANGED <<settings, counters, snapshot, arena, frames>>

\* clear() deletes the implementation, resets what is not a setting and
\* constructs a new implementation.  It also revives a moved-from context.
\* The new one may fail to come up, which leaves impl_ null.
Clear(c) ==
    /\ c \in alive
    /\ Idle(c)
    /\ Delete(impl[c])
    /\ counters' = [counters EXCEPT ![c] = ZeroCounters]
    /\ snapshot' = [snapshot EXCEPT ![c] = EmptySnapshot]
    /\ arena' = [arena EXCEPT ![c] = c]
    /\ \/ \E i \in FreeImpls \cup ({impl[c]} \ {Null}) :
             /\ impl' = [impl EXCEPT ![c] = i]
             /\ parent' = [j \in Impls |->
                   IF j = i THEN c ELSE IF j = impl[c] THEN Null ELSE parent[j]]
       \/ /\ impl' = [impl EXCEPT ![c] = Null]
          /\ parent' = [j \in Impls |-> IF j = impl[c] THEN Null ELSE parent[j]]
    /\ handles' = DropAll(c)
    /\ UNCHANGED <<alive, settings, frames>>

\* Mutant: the implementation keeps its old parent.
MutRebindNothing(i, c) == parent

\* rebind_parent
Rebind(i, c) == [parent EXCEPT ![i] = c]

TakeCounters(dst, src) == [counters EXCEPT ![dst] = counters[src]]

TakeImpl(dst, src) == [impl EXCEPT ![dst] = impl[src], ![src] = Null]

\* What the move constructor and the move assignment do with the members.  The
\* source keeps its counters and settings.
TakeOver(dst, src) ==
    /\ impl' = TakeImpl(dst, src)
    /\ settings' = [settings EXCEPT ![dst] = settings[src]]
    /\ counters' = TakeCounters(dst, src)
    /\ snapshot' = [snapshot EXCEPT ![dst] = snapshot[src], ![src] = EmptySnapshot]
    /\ arena' = [arena EXCEPT ![dst] = dst, ![src] = src]
    /\ handles' =
          {[h EXCEPT !.context = IF h.context = src THEN dst ELSE h.context] : h \in DropAll(dst)}
    /\ UNCHANGED frames

MoveConstruct(dst, src) ==
    /\ dst \notin alive
    /\ src \in alive
    /\ Idle(src)
    /\ alive' = alive \cup {dst}
    /\ TakeOver(dst, src)
    /\ parent' = IF impl[src] # Null THEN Rebind(impl[src], dst) ELSE parent
    /\ UNCHANGED <<funcs, holder, code>>

\* The destination's own implementation is deleted first.
MoveAssign(dst, src) ==
    /\ dst # src
    /\ {dst, src} \subseteq alive
    /\ Idle(dst) /\ Idle(src)
    /\ Delete(impl[dst])
    /\ TakeOver(dst, src)
    /\ parent' =
          [i \in Impls |->
              IF i = impl[src] THEN dst ELSE IF i = impl[dst] THEN Null ELSE parent[i]]
    /\ UNCHANGED alive

-----------------------------------------------------------------------------

Init ==
    /\ alive = {}
    /\ impl = [c \in Contexts |-> Null]
    /\ settings = [c \in Contexts |-> DefaultSettings]
    /\ counters = [c \in Contexts |-> ZeroCounters]
    /\ snapshot = [c \in Contexts |-> EmptySnapshot]
    /\ arena = [c \in Contexts |-> c]
    /\ frames = [c \in Contexts |-> << >>]
    /\ parent = [i \in Impls |-> Null]
    /\ funcs = [i \in Impls |-> NoFunctions]
    /\ holder = [i \in Impls |-> << >>]
    /\ code = [a \in Addresses |-> Null]
    /\ handles = {}

Next ==
    \/ \E c \in Contexts :
          \/ Construct(c) \/ Destroy(c) \/ Clear(c) \/ Configure(c) \/ EndBuild(c)
          \/ \E id \in Identifiers :
                \/ Miss(c, id) \/ Release(c, id)
                \/ \E caller \in Callers \cup {Null} :
                      Hit(c, id, caller) \/ Begin(c, id, caller)
    \/ \E dst, src \in Contexts : MoveConstruct(dst, src) \/ MoveAssign(dst, src)

Spec == Init /\ [][Next]_vars

-----------------------------------------------------------------------------
(* Properties.                                                             *)

Live(a) == code[a] # Null

\* The JIT runtime holds the code of the cached functions and nothing else:
\* every record points to live code of its own session, no two records share
\* code, and no code is left behind by a failed or abandoned build.
CacheOwnsItsCode ==
    /\ \A i \in Impls, id \in Identifiers :
          Find(i, id) =>
              /\ Live(funcs[i][id].fn_ptr)
              /\ code[funcs[i][id].fn_ptr].owner = i
    /\ \A a \in Addresses :
          Live(a) => \E id \in Identifiers :
              /\ Find(code[a].owner, id)
              /\ funcs[code[a].owner][id].fn_ptr = a
              /\ \A other \in Identifiers :
                    Find(code[a].owner, other) /\ funcs[code[a].owner][other].fn_ptr = a
                        => other = id

\* r is the record of the one function that code k is.
Describes(r, k) ==
    /\ Len(k.pieces) = 1
    /\ k.pieces[1].complete
    /\ k.pieces[1].function.args = r.args
    /\ k.pieces[1].function.scalar_only => k.pieces[1].mode = "scalar"

\* Code in the runtime is one function, emitted to its end: the function whose
\* arguments the cached record keeps for later type checks, and never a vector
\* version of one whose builder ruled vector code out.  A build that failed
\* halfway, or fell back, leaves nothing in what is added after it.
CodeMatchesItsRecord ==
    \A i \in Impls, id \in Identifiers :
        Find(i, id) => Describes(funcs[i][id], code[funcs[i][id].fn_ptr])

\* What a caller may pass for argument a: an array of the same elements, declared
\* read-only whether the function reads it in order, by gather or by index; for
\* anything that is not a read-only array, the same thing.
ReadOnlyArrays == {"SrcArr", "SrcGatherArr", "SrcIdxArr"}

MayBePassed(given, a) ==
    /\ given.dtype = a.dtype
    /\ given.kind = IF a.kind \in ReadOnlyArrays THEN "SrcArr" ELSE a.kind

Suits(args, caller) ==
    caller # Null =>
        /\ Len(caller) = Len(args)
        /\ \A n \in 1..Len(args) : MayBePassed(caller[n], args[n])

\* A pointer the client holds is the one cached under its identifier in its
\* context, through moves, fallbacks and reuse of freed memory, and what the
\* caller declared suits the function behind it: a call whose argument differs
\* in number, kind or element type was given no pointer.
HandlesStayValid ==
    \A h \in handles :
        /\ Usable(h.context)
        /\ Find(impl[h.context], h.identifier)
        /\ LET r == funcs[impl[h.context]][h.identifier]
           IN  r.fn_ptr = h.address /\ Suits(r.args, h.caller)

\* After any sequence of moves and clears, an implementation looks up its
\* settings, counters and arena in the context that owns it.
ParentsAgree ==
    /\ \A c \in Contexts : impl[c] # Null => parent[impl[c]] = c /\ c \in alive
    /\ \A i \in Impls : parent[i] # Null => impl[parent[i]] = i
    /\ \A c \in alive : arena[c] = c

\* Every attempt is accounted for once, however it ended; every attempt was a
\* miss; a context never caches more functions than it compiled.
StatisticsAddUp ==
    \A c \in alive :
        LET k == counters[c]
        IN  /\ k.attempts = k.successes + k.failures + Len(frames[c])
            /\ k.attempts <= k.misses
            /\ impl[c] # Null => Cardinality(Cached(impl[c])) <= k.successes

Names(snap) ==
    {snap.vectorization_exception, snap.hir, snap.vectorizer, snap.mir.attempt,
     snap.asm_code.attempt} \ {0}

\* "DebugSnapshot always contains the result of the most recent compilation
\* attempt" (jit.h): when a build ends, with whatever result and under whatever
\* options it ran or was nested, no field tells of a build begun before it.  A
\* field may tell of a later one that its builder ran.
SnapshotIsOfLastAttempt ==
    [][\A c \in Contexts :
          Len(frames'[c]) < Len(frames[c])
              => Names(snapshot'[c]) \subseteq Current(c).attempt..counters[c].attempts]_vars

\* A compilation never takes the cache beyond the limit in force when it ends,
\* even if the builder lowered the limit or filled the cache meanwhile.
CacheGrowsWithinLimit ==
    [][\A c \in Contexts :
          impl[c] # Null /\ impl'[c] = impl[c] /\ Cardinality(Cached(impl[c])) < Cardinality(Cached(impl[c])')
              => Cardinality(Cached(impl[c])') <= settings[c].limit]_vars

-----------------------------------------------------------------------------
(* Refinement: a pointer is what it runs.                                  *)

NoFunction == [args |-> Null, scalar_only |-> FALSE]

RunsAt(a) ==
    IF Live(a) /\ Len(code[a].pieces) = 1 /\ code[a].pieces[1].complete
    THEN code[a].pieces[1].function
    ELSE NoFunction

Kept(c) ==
    [id \in Identifiers |->
        IF impl[c] # Null /\ Find(impl[c], id)
        THEN RunsAt(funcs[impl[c]][id].fn_ptr)
        ELSE Null]

Library == INSTANCE FunctionLibrary WITH
    Nothing <- Null,
    library <- [c \in Contexts |-> Kept(c)],
    promised <- {[context |-> h.context, identifier |-> h.identifier,
                  function |-> RunsAt(h.address)] : h \in handles}

\* The context keeps the promises of its header comment: a function is found
\* under its identifier and its pointer runs it, until the identifier is
\* released or the context is cleared or gone; no other call disturbs it.
ImplementsLibrary == Library!Spec
=============================================================================

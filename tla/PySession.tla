------------------------------ MODULE PySession ------------------------------
(***************************************************************************)
(* Session and PreparedProgram of the Python extension (module_api.h,      *)
(* module_api.cpp, py_adapter.cpp): a JitContext shared by programs that   *)
(* keep a function pointer, a table of data pointers and the buffers       *)
(* behind it, and the generation counter that invalidates them.            *)
(*                                                                         *)
(* A thread changes this state only while it holds the GIL.  It loses the  *)
(* GIL in two places: where run(inputs) and run_fresh() call back into     *)
(* Python, after the validity check, to read the new inputs and to         *)
(* allocate outputs; and while the compiled code executes.  Each is a step *)
(* of its own here.                                                        *)
(*                                                                         *)
(* All inputs of a program are one array here, and so are all its outputs. *)
(* An array lives while something refers to it; pointers do not.           *)
(***************************************************************************)
EXTENDS Naturals

CONSTANTS
    Threads,
    Programs,      \* PreparedProgramState objects
    Identifiers,   \* what make_resolved_native_function_identifier returns
    Addresses,     \* where compiled code can be
    Arrays,        \* NumPy arrays, as places in memory
    Users,         \* the threads that call each program
    Calls,         \* the optional calls the client makes: "rebind", "fresh"
    InvalidatesWhileRunning,  \* it calls release and clear during other calls
    ClearCanFail,  \* JitContext::clear() can fail to come up again
    Null,
    MaxGeneration  \* bound on the generation counter

ASSUME PySessionAssumption ==
    /\ Users \in [Programs -> SUBSET Threads]
    /\ Calls \subseteq {"rebind", "fresh"}
    /\ InvalidatesWhileRunning \in BOOLEAN
    /\ ClearCanFail \in BOOLEAN
    /\ MaxGeneration \in Nat

VARIABLES
    cache,         \* SessionState::jit: the code under each identifier, or Null
    jitUp,         \* its implementation exists
    generation,    \* SessionState::generation
    prepared,      \* the PreparedProgramState objects, Null when there is none
    call,          \* the run call each thread is in, or Null
    client         \* the arrays client code refers to

sessionVars == <<cache, jitUp, generation>>
vars == <<sessionVars, prepared, call, client>>

\* Where the pointers of a table lead.
Pointers == [inputs : Arrays, outputs : Arrays]

PreparedProgramState ==
    [identifier : Identifiers, fn : Addresses, generation : Nat,
     inputs : Arrays,                      \* referred to by state.buffers
     outputs : Arrays \cup {Null},         \* state.outputs
     bound : BOOLEAN,                      \* the outputs are in state.buffers too
     ptrs : Pointers \cup {Null},          \* Null: an empty vector
     pointer_template : Pointers,
     safety_check : BOOLEAN]               \* the byte compiled code sets on overflow

Call ==
    [at : {"rebinding", "allocating", "executing"}, program : Programs,
     argument : Arrays \cup {Null},        \* the inputs passed to run(inputs)
     ptrs : Pointers \cup {Null},          \* what executing code works on
     overflowed : BOOLEAN]                 \* what executing code has met

ASSUME NullAssumption ==
    Null \notin Arrays \cup Addresses \cup Pointers \cup PreparedProgramState \cup Call

\* A program never runs on an empty table: run() after release_outputs() raises.
TypeOK ==
    /\ cache \in [Identifiers -> Addresses \cup {Null}]
    /\ jitUp \in BOOLEAN
    /\ generation \in Nat
    /\ prepared \in [Programs -> PreparedProgramState \cup {Null}]
    /\ call \in [Threads -> Call \cup {Null}]
    /\ \A t \in Threads :
          (call[t] # Null /\ call[t].at = "executing") => call[t].ptrs \in Pointers
    /\ client \subseteq Arrays

-----------------------------------------------------------------------------

Exists(p) == prepared[p] # Null
Idle(t) == call[t] = Null
At(t, where) == ~ Idle(t) /\ call[t].at = where
AllIdle == \A t \in Threads : Idle(t)

FreeAddresses == Addresses \ {cache[id] : id \in Identifiers}

Alive(a) ==
    \/ a \in client
    \/ \E p \in Programs : Exists(p) /\ a \in {prepared[p].inputs, prepared[p].outputs}
    \/ \E t \in Threads : ~ Idle(t) /\ call[t].argument = a

\* Mutant: programs do not keep their buffers.
MutFreeForClient == {a \in Arrays : a \notin client}

FreeArrays == {a \in Arrays : ~ Alive(a)}

\* Mutant: the counter is not compared.
MutValidWhileThere(p) == Exists(p)

\* check_prepared_program_valid
Valid(p) == Exists(p) /\ prepared[p].generation = generation

MayCall(t, p) == Idle(t) /\ t \in Users[p] /\ Valid(p)

MayInvalidate == InvalidatesWhileRunning \/ AllIdle

-----------------------------------------------------------------------------
(* The client's arrays.                                                    *)

MakeArray ==
    /\ \E a \in FreeArrays : client' = client \cup {a}
    /\ UNCHANGED <<sessionVars, prepared, call>>

ForgetArray(a) ==
    /\ a \in client
    /\ client' = client \ {a}
    /\ UNCHANGED <<sessionVars, prepared, call>>

-----------------------------------------------------------------------------
(* Session.                                                                *)

\* build_resolved_native_function: the identifier is looked up, and compiled
\* when it is not there.  A build that fails leaves nothing.
Built(id, a) ==
    /\ jitUp
    /\ IF cache[id] # Null THEN a = cache[id] ELSE a \in FreeAddresses
    /\ cache' = [cache EXCEPT ![id] = a]

\* run_program and run_native: compile and execute without giving up the GIL.
RunOnce(id) ==
    /\ \E a \in Addresses : Built(id, a)
    /\ UNCHANGED <<jitUp, generation, prepared, call, client>>

\* prepare_program: outputs are allocated and bound with the inputs, and the
\* generation is read before anything else can change it.
Prepare(p, id, a) ==
    /\ ~ Exists(p)
    /\ a \in client
    /\ \E fn \in Addresses, o \in FreeArrays :
          /\ Built(id, fn)
          /\ prepared' = [prepared EXCEPT ![p] =
                [identifier |-> id, fn |-> fn, generation |-> generation,
                 inputs |-> a, outputs |-> o, bound |-> TRUE,
                 ptrs |-> [inputs |-> a, outputs |-> o],
                 pointer_template |-> [inputs |-> a, outputs |-> o],
                 safety_check |-> FALSE]]
    /\ UNCHANGED <<jitUp, generation, call, client>>

\* The last reference to a prepared program goes; a call in progress holds one.
Discard(p) ==
    /\ Exists(p)
    /\ \A t \in Threads : ~ Idle(t) => call[t].program # p
    /\ prepared' = [prepared EXCEPT ![p] = Null]
    /\ UNCHANGED <<sessionVars, call, client>>

NextGeneration == generation + 1

\* Session::release
Release(id) ==
    /\ jitUp
    /\ cache[id] # Null
    /\ MayInvalidate
    /\ generation < MaxGeneration
    /\ cache' = [cache EXCEPT ![id] = Null]
    /\ generation' = NextGeneration
    /\ UNCHANGED <<jitUp, prepared, call, client>>

NoCode == [id \in Identifiers |-> Null]

\* Session::clear
Clear ==
    /\ MayInvalidate
    /\ generation < MaxGeneration
    /\ cache' = NoCode
    /\ jitUp' = TRUE
    /\ generation' = NextGeneration
    /\ UNCHANGED <<prepared, call, client>>

\* JitContext::clear() throws after it has deleted the implementation.
ClearFails ==
    /\ ClearCanFail
    /\ MayInvalidate
    /\ cache' = NoCode
    /\ jitUp' = FALSE
    /\ UNCHANGED <<generation, prepared, call, client>>

-----------------------------------------------------------------------------
(* PreparedProgram.                                                        *)

Started(p, ptrs) ==
    [at |-> "executing", program |-> p, argument |-> Null, ptrs |-> ptrs, overflowed |-> FALSE]

\* Mutant: the byte of the run before is kept.
MutKeepSafety(s) == s

\* reset_native_safety_check
ResetSafety(s) == [s EXCEPT !.safety_check = FALSE]

\* Mutant: the size of the table is not looked at.
MutAcceptsAny(ptrs) == TRUE

\* call_fn_ptr refuses an empty table.
Accepts(ptrs) == ptrs # Null

\* run() with the inputs bound last
Run(t, p) ==
    /\ MayCall(t, p)
    /\ prepared' = [prepared EXCEPT ![p] = ResetSafety(@)]
    /\ call' = IF Accepts(prepared[p].ptrs)
               THEN [call EXCEPT ![t] = Started(p, prepared[p].ptrs)]
               ELSE call
    /\ UNCHANGED <<sessionVars, client>>

\* run(inputs) up to the first call into Python
Rebind(t, p, a) ==
    /\ "rebind" \in Calls
    /\ MayCall(t, p)
    /\ a \in client
    /\ call' = [call EXCEPT ![t] = [Started(p, Null) EXCEPT !.at = "rebinding", !.argument = a]]
    /\ UNCHANGED <<sessionVars, prepared, client>>

\* rebind_prepared_program_buffers takes the outputs from state.buffers.
Rebound(s, a) ==
    ResetSafety([s EXCEPT !.inputs = a, !.ptrs = [inputs |-> a, outputs |-> s.outputs]])

\* run(inputs) from there to the execution
RunRebound(t) ==
    LET p == call[t].program
        s == Rebound(prepared[p], call[t].argument)
    IN  /\ At(t, "rebinding")
        /\ prepared[p].bound
        /\ prepared' = [prepared EXCEPT ![p] = s]
        /\ call' = [call EXCEPT ![t] = Started(p, s.ptrs)]
        /\ UNCHANGED <<sessionVars, client>>

\* The call raises before it changes anything: the inputs do not fit, an
\* allocation fails, or the outputs are not in state.buffers any more.
Raise(t) ==
    /\ At(t, "rebinding") \/ At(t, "allocating")
    /\ call' = [call EXCEPT ![t] = Null]
    /\ UNCHANGED <<sessionVars, prepared, client>>

\* run_fresh() up to the allocation of the outputs
RunFresh(t, p) ==
    /\ "fresh" \in Calls
    /\ MayCall(t, p)
    /\ prepared[p].outputs = Null
    /\ call' = [call EXCEPT ![t] = [Started(p, Null) EXCEPT !.at = "allocating"]]
    /\ UNCHANGED <<sessionVars, prepared, client>>

\* Mutant: the table keeps the output pointers it was prepared with.
MutPatchNothing(template, o) == template

\* patch_prepared_output_pointers, on a copy of the template
Patched(template, o) == [template EXCEPT !.outputs = o]

\* run_fresh() from there to the execution
ExecuteFresh(t) ==
    LET p == call[t].program
    IN  /\ At(t, "allocating")
        /\ \E o \in FreeArrays :
              LET ptrs == Patched(prepared[p].pointer_template, o)
              IN  /\ prepared' = [prepared EXCEPT ![p] =
                        ResetSafety([@ EXCEPT !.outputs = o, !.ptrs = ptrs])]
                  /\ call' = [call EXCEPT ![t] = Started(p, ptrs)]
        /\ UNCHANGED <<sessionVars, client>>

\* Executing code meets an overflow.
Overflow(t) ==
    /\ At(t, "executing")
    /\ call' = [call EXCEPT ![t].overflowed = TRUE]
    /\ prepared' = [prepared EXCEPT ![call[t].program].safety_check = TRUE]
    /\ UNCHANGED <<sessionVars, client>>

\* The code returns; the byte decides whether the call raises.
Finish(t) ==
    /\ At(t, "executing")
    /\ call' = [call EXCEPT ![t] = Null]
    /\ UNCHANGED <<sessionVars, prepared, client>>

\* output_buffers(), result() and what run_fresh() returns
GetOutputs(t, p) ==
    /\ MayCall(t, p)
    /\ prepared[p].outputs # Null
    /\ client' = client \cup {prepared[p].outputs}
    /\ UNCHANGED <<sessionVars, prepared, call>>

\* release_outputs
ReleaseOutputs(t, p) ==
    /\ "fresh" \in Calls
    /\ MayCall(t, p)
    /\ prepared' = [prepared EXCEPT ![p] =
          [@ EXCEPT !.outputs = Null, !.bound = FALSE, !.ptrs = Null]]
    /\ UNCHANGED <<sessionVars, call, client>>

-----------------------------------------------------------------------------

Init ==
    /\ cache = NoCode
    /\ jitUp = TRUE
    /\ generation = 0
    /\ prepared = [p \in Programs |-> Null]
    /\ call = [t \in Threads |-> Null]
    /\ client = {}

Next ==
    \/ MakeArray
    \/ \E a \in Arrays : ForgetArray(a)
    \/ \E id \in Identifiers : RunOnce(id) \/ Release(id)
    \/ Clear \/ ClearFails
    \/ \E p \in Programs :
          \/ Discard(p)
          \/ \E id \in Identifiers, a \in Arrays : Prepare(p, id, a)
          \/ \E t \in Threads :
                \/ Run(t, p) \/ RunFresh(t, p) \/ GetOutputs(t, p) \/ ReleaseOutputs(t, p)
                \/ \E a \in Arrays : Rebind(t, p, a)
    \/ \E t \in Threads : RunRebound(t) \/ ExecuteFresh(t) \/ Raise(t) \/ Overflow(t) \/ Finish(t)

Spec == Init /\ [][Next]_vars

-----------------------------------------------------------------------------
(* Properties.                                                             *)

\* Code that executes is the code its session holds for the program's
\* identifier: it was not freed by release() or clear(), nor replaced by other
\* code at the same address.  This is what the generation counter is for.
RunsLiveCode ==
    \A t \in Threads : At(t, "executing") =>
        LET s == prepared[call[t].program] IN cache[s.identifier] = s.fn

\* Executing code reads the inputs the program was given last, which the
\* program keeps alive.
ReadsBoundInputs ==
    \A t \in Threads : At(t, "executing") =>
        call[t].ptrs.inputs = prepared[call[t].program].inputs

\* Executing code writes the outputs its program owns and hands out, and no two
\* executions write the same array: never an array that was released to the
\* client, reused for something else, or belongs to another program.
WritesItsOwnOutputs ==
    \A t \in Threads : At(t, "executing") =>
        /\ call[t].ptrs.outputs = prepared[call[t].program].outputs
        /\ \A u \in Threads \ {t} :
              At(u, "executing") => call[u].ptrs.outputs # call[t].ptrs.outputs

\* The byte the end of a call looks at says whether this execution overflowed,
\* not an earlier one or another thread's: an overflow is always reported, and
\* only to the call that met it.
OverflowsAreReported ==
    \A t \in Threads : At(t, "executing") =>
        prepared[call[t].program].safety_check = call[t].overflowed
=============================================================================

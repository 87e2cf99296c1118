--------------------------- MODULE PySessionProofs ---------------------------
(***************************************************************************)
(* What PySession.tla checks on small instances, proved for any number of  *)
(* threads, programs, identifiers and arrays, whatever the bound on the    *)
(* generation counter.                                                     *)
(*                                                                         *)
(* Nine of the actions change one program and one call: ProgramStep says   *)
(* what they have in common, and every invariant is shown of that form     *)
(* once instead of nine times.                                             *)
(***************************************************************************)
EXTENDS PySession, TLAPS

-----------------------------------------------------------------------------
(* The records.                                                            *)

\* r is s with other buffers: the code of a prepared program is never changed.
SameCode(s, r) ==
    /\ r.identifier = s.identifier
    /\ r.fn = s.fn
    /\ r.generation = s.generation

\* Outputs in state.buffers are in state.outputs, and so are those in the table.
Sound(s) ==
    /\ s \in PreparedProgramState
    /\ s.bound => s.outputs # Null
    /\ s.ptrs # Null => s.ptrs.outputs = s.outputs

\* The byte is zero.
Clean(s) == s.safety_check = FALSE

LEMMA ResetFacts ==
    ASSUME NEW s, Sound(s), NEW new, new = ResetSafety(s)
    PROVE  /\ Sound(new)
           /\ SameCode(s, new)
           /\ new.outputs = s.outputs
           /\ new.ptrs = s.ptrs
           /\ Clean(new)
BY DEF ResetSafety, PreparedProgramState, SameCode, Sound, Clean

LEMMA ReboundFacts ==
    ASSUME NEW s, Sound(s), NEW a \in Arrays, s.bound, NEW new, new = Rebound(s, a)
    PROVE  /\ Sound(new)
           /\ SameCode(s, new)
           /\ new.ptrs \in Pointers
           /\ new.ptrs.outputs = new.outputs
           /\ new.outputs = s.outputs
           /\ Clean(new)
<1>1. PICK bind : bind = [s EXCEPT !.inputs = a, !.ptrs = [inputs |-> a, outputs |-> s.outputs]]
  OBVIOUS
<1>2. /\ s \in PreparedProgramState
      /\ s.outputs \in Arrays
      /\ [inputs |-> a, outputs |-> s.outputs] \in Pointers
  BY DEF Sound, PreparedProgramState, Pointers
<1>3. Sound(bind) /\ SameCode(s, bind) /\ bind.ptrs \in Pointers /\ bind.outputs = s.outputs
  BY <1>1, <1>2 DEF PreparedProgramState, Sound, SameCode
<1>4. new = ResetSafety(bind)
  BY <1>1 DEF Rebound
<1>5. Sound(new) /\ SameCode(bind, new) /\ new.outputs = bind.outputs /\ new.ptrs = bind.ptrs
      /\ Clean(new)
  BY <1>3, <1>4, ResetFacts
<1> QED
  BY <1>3, <1>5, NullAssumption DEF Sound, SameCode

LEMMA PatchedFacts ==
    ASSUME NEW s, Sound(s), NEW o \in Arrays
    PROVE  Patched(s.pointer_template, o) \in Pointers /\ Patched(s.pointer_template, o).outputs = o
BY DEF Patched, PreparedProgramState, Pointers, Sound

\* What ExecuteFresh makes of the program.
Freshened(s, o, ptrs) == ResetSafety([s EXCEPT !.outputs = o, !.ptrs = ptrs])

LEMMA FreshFacts ==
    ASSUME NEW s, Sound(s), NEW o \in Arrays, NEW ptrs \in Pointers, ptrs.outputs = o, NEW new,
           new = Freshened(s, o, ptrs)
    PROVE  Sound(new) /\ SameCode(s, new) /\ new.outputs = o /\ Clean(new)
<1>1. PICK bind : bind = [s EXCEPT !.outputs = o, !.ptrs = ptrs]
  OBVIOUS
<1>2. Sound(bind) /\ SameCode(s, bind) /\ bind.outputs = o
  BY <1>1, NullAssumption DEF PreparedProgramState, Sound, SameCode
<1>3. Sound(new) /\ SameCode(bind, new) /\ new.outputs = o /\ Clean(new)
  BY <1>1, <1>2, ResetFacts DEF Freshened
<1> QED
  BY <1>2, <1>3 DEF SameCode

LEMMA ReleaseFacts ==
    ASSUME NEW s, Sound(s), NEW new,
           new = [s EXCEPT !.outputs = Null, !.bound = FALSE, !.ptrs = Null]
    PROVE  Sound(new) /\ SameCode(s, new) /\ new.outputs = Null
BY DEF PreparedProgramState, SameCode, Sound

LEMMA OverflowFacts ==
    ASSUME NEW s, Sound(s), NEW new, new = [s EXCEPT !.safety_check = TRUE]
    PROVE  /\ Sound(new)
           /\ SameCode(s, new)
           /\ new.outputs = s.outputs
           /\ new.safety_check = TRUE
BY DEF PreparedProgramState, SameCode, Sound

LEMMA OverflowedFacts ==
    ASSUME NEW c \in Call, NEW next, next = [c EXCEPT !.overflowed = TRUE]
    PROVE  /\ next \in Call
           /\ next.program = c.program
           /\ next.at = c.at
           /\ next.ptrs = c.ptrs
           /\ next.overflowed = TRUE
BY DEF Call

-----------------------------------------------------------------------------
(* Types.                                                                  *)

ProgramsAreSound == \A p \in Programs : Exists(p) => Sound(prepared[p])

\* A call holds its program, and run(inputs) its inputs.
CallsHoldTheirs ==
    \A t \in Threads : ~ Idle(t) =>
        /\ Exists(call[t].program)
        /\ call[t].at = "rebinding" => call[t].argument # Null

TInv == TypeOK /\ ProgramsAreSound /\ CallsHoldTheirs

LEMMA PreparedType ==
    ASSUME TInv, NEW p \in Programs, Exists(p)
    PROVE  prepared[p] \in PreparedProgramState /\ Sound(prepared[p])
BY DEF TInv, ProgramsAreSound, Sound

\* The program a thread is in, and its state.
LEMMA Inside ==
    ASSUME TInv, NEW t \in Threads, ~ Idle(t)
    PROVE  /\ call[t] \in Call
           /\ call[t].program \in Programs
           /\ Exists(call[t].program)
           /\ Sound(prepared[call[t].program])
BY DEF TInv, TypeOK, Idle, Call, CallsHoldTheirs, ProgramsAreSound

\* What stays the same may be said to be assigned.
LEMMA SameValues ==
    ASSUME TInv, NEW t \in Threads, NEW p \in Programs
    PROVE  /\ prepared = [prepared EXCEPT ![p] = prepared[p]]
           /\ call = [call EXCEPT ![t] = call[t]]
BY DEF TInv, TypeOK

-----------------------------------------------------------------------------
(* The steps of calls.                                                     *)

\* An execution uses the table and the byte of its program.
Starts(next, new) ==
    /\ next.ptrs \in Pointers
    /\ next.ptrs.outputs = new.outputs
    /\ next.overflowed = new.safety_check

\* The execution goes on with the table it has, the overflow reported.
GoesOn(last, next, old, new) ==
    /\ last # Null /\ last.at = "executing"
    /\ last.ptrs \in Pointers
    /\ next.ptrs = last.ptrs
    /\ new.outputs = old.outputs
    /\ next.overflowed = TRUE /\ new.safety_check = TRUE

FitsProgram(t, p, new, next) ==
    /\ next \in Call
    /\ next.program = p
    /\ next.at = "rebinding" => next.argument # Null
    /\ next.at = "executing" => Starts(next, new) \/ GoesOn(call[t], next, prepared[p], new)

\* Program p becomes new, and the call of thread t becomes next.
ProgramStep(t, p, new, next) ==
    /\ Exists(p)
    /\ Idle(t) => MayCall(t, p)
    /\ ~ Idle(t) => call[t].program = p
    /\ Sound(new)
    /\ SameCode(prepared[p], new)
    /\ new.outputs \in {prepared[p].outputs, Null} \cup FreeArrays
    /\ next # Null => FitsProgram(t, p, new, next)
    /\ prepared' = [prepared EXCEPT ![p] = new]
    /\ call' = [call EXCEPT ![t] = next]
    /\ UNCHANGED sessionVars
    /\ client' = client

LEMMA StartFits ==
    ASSUME NEW t \in Threads, NEW p \in Programs, NEW new, NEW ptrs \in Pointers, NEW next,
           next = Started(p, ptrs), ptrs.outputs = new.outputs, Clean(new)
    PROVE  FitsProgram(t, p, new, next)
<1>1. next \in Call /\ next.at = "executing" /\ next.program = p /\ next.ptrs = ptrs
  BY DEF Started, Call
<1>2. next.overflowed = new.safety_check
  BY Zenon DEF Started, Clean
<1> QED
  BY <1>1, <1>2 DEF FitsProgram, Starts

LEMMA RunIsStep ==
    ASSUME TInv, NEW t \in Threads, NEW p \in Programs, Run(t, p)
    PROVE  \E new, next : ProgramStep(t, p, new, next)
<1>1. MayCall(t, p) /\ Exists(p) /\ Idle(t) /\ call[t] = Null
  BY DEF Run, MayCall, Valid, Idle
<1>2. Sound(prepared[p])
  BY <1>1, PreparedType
<1>3. PICK new : new = ResetSafety(prepared[p])
  OBVIOUS
<1>4. /\ Sound(new) /\ SameCode(prepared[p], new) /\ new.outputs = prepared[p].outputs
      /\ new.ptrs = prepared[p].ptrs /\ Clean(new)
  BY <1>2, <1>3, ResetFacts
<1>5. prepared' = [prepared EXCEPT ![p] = new] /\ UNCHANGED sessionVars /\ client' = client
  BY <1>3 DEF Run
<1>6. CASE Accepts(prepared[p].ptrs)
  <2>1. new.ptrs \in Pointers /\ new.ptrs.outputs = new.outputs
    BY <1>4, <1>6 DEF Accepts, Sound, PreparedProgramState
  <2>2. PICK next : next = Started(p, new.ptrs)
    OBVIOUS
  <2>3. call' = [call EXCEPT ![t] = next]
    BY <1>4, <1>6, <2>2 DEF Run
  <2>4. FitsProgram(t, p, new, next)
    BY <1>4, <2>1, <2>2, StartFits
  <2>5. ProgramStep(t, p, new, next)
    BY <1>1, <1>4, <1>5, <2>3, <2>4 DEF ProgramStep
  <2> QED
    BY <2>5
<1>7. CASE ~ Accepts(prepared[p].ptrs)
  <2>1. call' = [call EXCEPT ![t] = Null]
    BY <1>1, <1>7, SameValues DEF Run
  <2>2. ProgramStep(t, p, new, Null)
    BY <1>1, <1>4, <1>5, <2>1 DEF ProgramStep
  <2> QED
    BY <2>2
<1> QED
  BY <1>6, <1>7

\* Rebind and RunFresh only start a call.
LEMMA WaitIsStep ==
    ASSUME TInv, NEW t \in Threads, NEW p \in Programs,
           RunFresh(t, p) \/ \E a \in Arrays : Rebind(t, p, a)
    PROVE  \E new, next : ProgramStep(t, p, new, next)
<1>1. MayCall(t, p) /\ Exists(p) /\ Idle(t)
  BY DEF RunFresh, Rebind, MayCall, Valid
<1>2. Sound(prepared[p])
  BY <1>1, PreparedType
<1>3. prepared' = [prepared EXCEPT ![p] = prepared[p]] /\ UNCHANGED sessionVars /\ client' = client
  BY SameValues DEF RunFresh, Rebind
<1>4. ASSUME NEW next, FitsProgram(t, p, prepared[p], next), call' = [call EXCEPT ![t] = next]
      PROVE  ProgramStep(t, p, prepared[p], next)
  BY <1>1, <1>2, <1>3, <1>4 DEF ProgramStep, SameCode
<1>5. CASE RunFresh(t, p)
  <2>1. PICK next : next = [Started(p, Null) EXCEPT !.at = "allocating"]
    OBVIOUS
  <2>2. FitsProgram(t, p, prepared[p], next)
    BY <2>1 DEF Started, Call, FitsProgram
  <2>3. call' = [call EXCEPT ![t] = next]
    BY <1>5, <2>1 DEF RunFresh
  <2> QED
    BY <1>4, <2>2, <2>3
<1>6. ASSUME NEW a \in Arrays, Rebind(t, p, a)
      PROVE  \E new, next : ProgramStep(t, p, new, next)
  <2>1. PICK next : next = [Started(p, Null) EXCEPT !.at = "rebinding", !.argument = a]
    OBVIOUS
  <2>2. FitsProgram(t, p, prepared[p], next)
    BY <2>1, NullAssumption DEF Started, Call, FitsProgram
  <2>3. call' = [call EXCEPT ![t] = next]
    BY <1>6, <2>1 DEF Rebind
  <2> QED
    BY <1>4, <2>2, <2>3
<1> QED
  BY <1>5, <1>6

LEMMA ReleaseOutputsIsStep ==
    ASSUME TInv, NEW t \in Threads, NEW p \in Programs, ReleaseOutputs(t, p)
    PROVE  \E new, next : ProgramStep(t, p, new, next)
<1>1. MayCall(t, p) /\ Exists(p) /\ Idle(t) /\ call[t] = Null
  BY DEF ReleaseOutputs, MayCall, Valid, Idle
<1>2. PICK new : new = [prepared[p] EXCEPT !.outputs = Null, !.bound = FALSE, !.ptrs = Null]
  OBVIOUS
<1>3. prepared' = [prepared EXCEPT ![p] = new] /\ UNCHANGED sessionVars /\ client' = client
  BY <1>2 DEF ReleaseOutputs
<1>4. call' = [call EXCEPT ![t] = Null]
  BY <1>1, SameValues DEF ReleaseOutputs
<1>5. Sound(new) /\ SameCode(prepared[p], new) /\ new.outputs = Null
  BY <1>1, <1>2, PreparedType, ReleaseFacts
<1>6. ProgramStep(t, p, new, Null)
  BY <1>1, <1>3, <1>4, <1>5 DEF ProgramStep
<1> QED
  BY <1>6

LEMMA RunReboundIsStep ==
    ASSUME TInv, NEW t \in Threads, RunRebound(t)
    PROVE  \E p \in Programs : \E new, next : ProgramStep(t, p, new, next)
<1>1. ~ Idle(t) /\ call[t].at = "rebinding"
  BY DEF RunRebound, At
<1>2. PICK p \in Programs : p = call[t].program /\ Exists(p) /\ Sound(prepared[p])
  BY <1>1, Inside
<1>3. prepared[p].bound /\ call[t].argument \in Arrays
  BY <1>1, <1>2, Inside DEF RunRebound, TInv, CallsHoldTheirs, Call
<1>4. PICK new : new = Rebound(prepared[p], call[t].argument)
  OBVIOUS
<1>5. /\ Sound(new) /\ SameCode(prepared[p], new) /\ new.outputs = prepared[p].outputs
      /\ new.ptrs \in Pointers /\ new.ptrs.outputs = new.outputs /\ Clean(new)
  BY <1>2, <1>3, <1>4, ReboundFacts
<1>6. PICK next : next = Started(p, new.ptrs)
  OBVIOUS
<1>7. /\ prepared' = [prepared EXCEPT ![p] = new] /\ call' = [call EXCEPT ![t] = next]
      /\ UNCHANGED sessionVars /\ client' = client
  BY <1>2, <1>4, <1>6 DEF RunRebound
<1>8. FitsProgram(t, p, new, next)
  BY <1>5, <1>6, StartFits
<1>9. ProgramStep(t, p, new, next)
  BY <1>1, <1>2, <1>5, <1>7, <1>8 DEF ProgramStep
<1> QED
  BY <1>9

LEMMA ExecuteFreshIsStep ==
    ASSUME TInv, NEW t \in Threads, ExecuteFresh(t)
    PROVE  \E p \in Programs : \E new, next : ProgramStep(t, p, new, next)
<1>1. ~ Idle(t)
  BY DEF ExecuteFresh, At
<1>2. PICK p \in Programs : p = call[t].program /\ Exists(p) /\ Sound(prepared[p])
  BY <1>1, Inside
<1>3. PICK o \in FreeArrays : \E table :
         /\ table = Patched(prepared[p].pointer_template, o)
         /\ prepared' = [prepared EXCEPT ![p] =
               ResetSafety([@ EXCEPT !.outputs = o, !.ptrs = table])]
         /\ call' = [call EXCEPT ![t] = Started(p, table)]
  BY <1>2 DEF ExecuteFresh
<1>3a. PICK ptrs :
         /\ ptrs = Patched(prepared[p].pointer_template, o)
         /\ prepared' = [prepared EXCEPT ![p] =
               ResetSafety([@ EXCEPT !.outputs = o, !.ptrs = ptrs])]
         /\ call' = [call EXCEPT ![t] = Started(p, ptrs)]
  BY <1>3
<1>4. o \in Arrays
  BY DEF FreeArrays
<1>5. PICK new : new = Freshened(prepared[p], o, ptrs)
  OBVIOUS
<1>6. PICK next : next = Started(p, ptrs)
  OBVIOUS
<1>7. /\ Sound(new) /\ SameCode(prepared[p], new) /\ new.outputs = o
      /\ ptrs \in Pointers /\ ptrs.outputs = new.outputs /\ Clean(new)
  <2>1. ptrs \in Pointers /\ ptrs.outputs = o
    BY <1>2, <1>3a, <1>4, PatchedFacts
  <2> QED
    BY <1>2, <1>4, <1>5, <2>1, FreshFacts
<1>8. FitsProgram(t, p, new, next)
  BY <1>6, <1>7, StartFits
<1>9. prepared' = [prepared EXCEPT ![p] = new] /\ call' = [call EXCEPT ![t] = next]
  BY <1>3a, <1>5, <1>6 DEF Freshened
<1>10. UNCHANGED sessionVars /\ client' = client
  BY DEF ExecuteFresh
<1>11. ProgramStep(t, p, new, next)
  BY <1>1, <1>2, <1>7, <1>8, <1>9, <1>10 DEF ProgramStep
<1> QED
  BY <1>11

LEMMA OverflowIsStep ==
    ASSUME TInv, NEW t \in Threads, Overflow(t)
    PROVE  \E p \in Programs : \E new, next : ProgramStep(t, p, new, next)
<1>1. ~ Idle(t) /\ call[t] # Null /\ call[t].at = "executing" /\ call[t].ptrs \in Pointers
  BY DEF Overflow, At, Idle, TInv, TypeOK
<1>2. PICK p \in Programs : p = call[t].program /\ Exists(p) /\ Sound(prepared[p])
  BY <1>1, Inside
<1>3. PICK new : new = [prepared[p] EXCEPT !.safety_check = TRUE]
  OBVIOUS
<1>4. PICK next : next = [call[t] EXCEPT !.overflowed = TRUE]
  OBVIOUS
<1>5. /\ prepared' = [prepared EXCEPT ![p] = new] /\ call' = [call EXCEPT ![t] = next]
      /\ UNCHANGED sessionVars /\ client' = client
  BY <1>2, <1>3, <1>4 DEF Overflow
<1>6. /\ Sound(new) /\ SameCode(prepared[p], new) /\ new.outputs = prepared[p].outputs
      /\ new.safety_check = TRUE
  BY <1>2, <1>3, OverflowFacts
<1>7. /\ next \in Call /\ next.program = p /\ next.at = "executing"
      /\ next.ptrs = call[t].ptrs /\ next.overflowed = TRUE
  BY <1>1, <1>2, <1>4, Inside, OverflowedFacts
<1>8. FitsProgram(t, p, new, next)
  BY <1>1, <1>6, <1>7 DEF FitsProgram, GoesOn
<1>9. ProgramStep(t, p, new, next)
  BY <1>1, <1>2, <1>5, <1>6, <1>8 DEF ProgramStep
<1> QED
  BY <1>9

\* Raise and Finish only end a call.
LEMMA ReturnIsStep ==
    ASSUME TInv, NEW t \in Threads, Raise(t) \/ Finish(t)
    PROVE  \E p \in Programs : \E new, next : ProgramStep(t, p, new, next)
<1>1. ~ Idle(t)
  BY DEF Raise, Finish, At
<1>2. PICK p \in Programs : p = call[t].program /\ Exists(p) /\ Sound(prepared[p])
  BY <1>1, Inside
<1>3. /\ prepared' = [prepared EXCEPT ![p] = prepared[p]] /\ call' = [call EXCEPT ![t] = Null]
      /\ UNCHANGED sessionVars /\ client' = client
  BY SameValues DEF Raise, Finish
<1>4. ProgramStep(t, p, prepared[p], Null)
  BY <1>1, <1>2, <1>3 DEF ProgramStep, SameCode
<1> QED
  BY <1>4

\* What a step of the module does.
LEMMA Steps ==
    ASSUME TInv, Next
    PROVE  \/ \E t \in Threads, p \in Programs : \E new, next : ProgramStep(t, p, new, next)
           \/ \E p \in Programs, id \in Identifiers, a \in Arrays : Prepare(p, id, a)
           \/ MakeArray \/ \E a \in Arrays : ForgetArray(a)
           \/ \E id \in Identifiers : RunOnce(id) \/ Release(id)
           \/ Clear \/ ClearFails
           \/ \E p \in Programs : Discard(p) \/ \E t \in Threads : GetOutputs(t, p)
BY RunIsStep, WaitIsStep, ReleaseOutputsIsStep, RunReboundIsStep, ExecuteFreshIsStep,
   OverflowIsStep, ReturnIsStep
   DEF Next

-----------------------------------------------------------------------------
(* Type correctness.                                                       *)

LEMMA ProgramStepTypes ==
    ASSUME TInv, NEW t \in Threads, NEW p \in Programs, NEW new, NEW next,
           ProgramStep(t, p, new, next)
    PROVE  TInv'
<1>1. /\ new \in PreparedProgramState /\ new # Null /\ Sound(new)
      /\ prepared' = [prepared EXCEPT ![p] = new]
      /\ call' = [call EXCEPT ![t] = next]
      /\ next = Null \/ next \in Call
  BY NullAssumption DEF ProgramStep, Sound, FitsProgram
<1>2. next # Null => /\ next.program = p
                     /\ next.at = "rebinding" => next.argument # Null
                     /\ next.at = "executing" => next.ptrs \in Pointers
  BY DEF ProgramStep, FitsProgram, Starts, GoesOn
<1>3. /\ prepared' \in [Programs -> PreparedProgramState \cup {Null}]
      /\ call' \in [Threads -> Call \cup {Null}]
      /\ \A u \in Threads : (call'[u] # Null /\ call'[u].at = "executing") => call'[u].ptrs \in Pointers
  BY <1>1, <1>2 DEF TInv, TypeOK
<1>4. TypeOK'
  BY <1>3 DEF TInv, TypeOK, sessionVars, ProgramStep
<1>5. ProgramsAreSound'
  BY <1>1 DEF TInv, TypeOK, ProgramsAreSound, Exists
<1>6. CallsHoldTheirs'
  BY <1>1, <1>2 DEF TInv, TypeOK, CallsHoldTheirs, Exists, Idle
<1> QED
  BY <1>4, <1>5, <1>6 DEF TInv

LEMMA BuiltTypes ==
    ASSUME TypeOK, NEW id \in Identifiers, NEW fn \in Addresses, Built(id, fn)
    PROVE  cache' \in [Identifiers -> Addresses \cup {Null}]
BY DEF TypeOK, Built

LEMMA PrepareTypes ==
    ASSUME TInv, NEW p \in Programs, NEW id \in Identifiers, NEW a \in Arrays, Prepare(p, id, a)
    PROVE  TInv'
<1>1. PICK fn \in Addresses, o \in FreeArrays :
         /\ Built(id, fn)
         /\ prepared' = [prepared EXCEPT ![p] =
               [identifier |-> id, fn |-> fn, generation |-> generation,
                inputs |-> a, outputs |-> o, bound |-> TRUE,
                ptrs |-> [inputs |-> a, outputs |-> o],
                pointer_template |-> [inputs |-> a, outputs |-> o],
                safety_check |-> FALSE]]
  BY DEF Prepare
<1>2. PICK new : new = [identifier |-> id, fn |-> fn, generation |-> generation,
                        inputs |-> a, outputs |-> o, bound |-> TRUE,
                        ptrs |-> [inputs |-> a, outputs |-> o],
                        pointer_template |-> [inputs |-> a, outputs |-> o],
                        safety_check |-> FALSE]
  OBVIOUS
<1>3. prepared' = [prepared EXCEPT ![p] = new]
  BY <1>1, <1>2
<1>4. new \in PreparedProgramState /\ Sound(new) /\ new # Null
  <2>1. o \in Arrays /\ generation \in Nat
    BY DEF FreeArrays, TInv, TypeOK
  <2>2. [inputs |-> a, outputs |-> o] \in Pointers
    BY <2>1 DEF Pointers
  <2>3. new \in PreparedProgramState
    BY <1>2, <2>1, <2>2 DEF PreparedProgramState
  <2>4. new.outputs # Null /\ new # Null
    BY <1>2, <2>1, <2>3, NullAssumption
  <2> QED
    BY <1>2, <2>3, <2>4 DEF Sound
<1>5. UNCHANGED <<jitUp, generation, call, client>>
  BY DEF Prepare
<1>6. TypeOK'
  BY <1>1, <1>3, <1>4, <1>5, BuiltTypes DEF TInv, TypeOK
<1>7. ProgramsAreSound' /\ CallsHoldTheirs'
  BY <1>3, <1>4, <1>5 DEF TInv, TypeOK, ProgramsAreSound, CallsHoldTheirs, Exists, Idle
<1> QED
  BY <1>6, <1>7 DEF TInv

LEMMA OtherTypes ==
    ASSUME TInv,
           \/ MakeArray \/ \E a \in Arrays : ForgetArray(a)
           \/ \E id \in Identifiers : RunOnce(id) \/ Release(id)
           \/ Clear \/ ClearFails
           \/ \E p \in Programs : Discard(p) \/ \E t \in Threads : GetOutputs(t, p)
    PROVE  TInv'
<1>1. CASE MakeArray \/ \E a \in Arrays : ForgetArray(a)
  BY <1>1 DEF MakeArray, ForgetArray, FreeArrays, sessionVars, TInv, TypeOK, ProgramsAreSound,
              CallsHoldTheirs, Exists, Idle
<1>2. ASSUME NEW id \in Identifiers, RunOnce(id) PROVE TInv'
  BY <1>2, BuiltTypes
     DEF RunOnce, TInv, TypeOK, ProgramsAreSound, CallsHoldTheirs, Exists, Idle
<1>3. ASSUME NEW id \in Identifiers, Release(id) PROVE TInv'
  BY <1>3
     DEF Release, NextGeneration, TInv, TypeOK, ProgramsAreSound, CallsHoldTheirs, Exists, Idle
<1>4. CASE Clear \/ ClearFails
  <2>1. NoCode \in [Identifiers -> Addresses \cup {Null}]
    BY DEF NoCode
  <2>2. /\ cache' = NoCode /\ jitUp' \in BOOLEAN /\ generation' \in Nat
        /\ UNCHANGED <<prepared, call, client>>
    <3>1. CASE Clear
      BY <3>1 DEF Clear, NextGeneration, TInv, TypeOK
    <3>2. CASE ClearFails
      BY <3>2 DEF ClearFails, TInv, TypeOK
    <3> QED
      BY <1>4, <3>1, <3>2
  <2> QED
    BY <2>1, <2>2 DEF TInv, TypeOK, ProgramsAreSound, CallsHoldTheirs, Exists, Idle
<1>5. ASSUME NEW p \in Programs, Discard(p) PROVE TInv'
  <2>1. prepared' = [prepared EXCEPT ![p] = Null] /\ UNCHANGED <<sessionVars, call, client>>
    BY <1>5 DEF Discard
  <2>2. \A t \in Threads : ~ Idle(t) => call[t].program # p
    BY <1>5 DEF Discard
  <2>3. TypeOK'
    BY <2>1 DEF TInv, TypeOK, sessionVars
  <2>4. ProgramsAreSound'
    BY <2>1 DEF TInv, TypeOK, ProgramsAreSound, Exists
  <2>5. CallsHoldTheirs'
    BY <2>1, <2>2, Inside DEF TInv, TypeOK, CallsHoldTheirs, Exists, Idle
  <2> QED
    BY <2>3, <2>4, <2>5 DEF TInv
<1>6. ASSUME NEW p \in Programs, NEW t \in Threads, GetOutputs(t, p) PROVE TInv'
  <2>1. prepared[p].outputs \in Arrays
    BY <1>6, PreparedType DEF GetOutputs, MayCall, Valid, PreparedProgramState
  <2> QED
    BY <1>6, <2>1 DEF GetOutputs, sessionVars, TInv, TypeOK, ProgramsAreSound, CallsHoldTheirs,
                      Exists, Idle
<1> QED
  BY <1>1, <1>2, <1>3, <1>4, <1>5, <1>6

LEMMA InitTypes == Init => TInv
BY DEF Init, NoCode, TInv, TypeOK, ProgramsAreSound, CallsHoldTheirs, Exists, Idle

LEMMA StepKeepsTypes == TInv /\ [Next]_vars => TInv'
<1> SUFFICES ASSUME TInv, [Next]_vars PROVE TInv'
  OBVIOUS
<1>1. CASE UNCHANGED vars
  BY <1>1 DEF vars, sessionVars, TInv, TypeOK, ProgramsAreSound, CallsHoldTheirs, Exists, Idle
<1>2. CASE Next
  BY <1>2, Steps, ProgramStepTypes, PrepareTypes, OtherTypes
<1> QED
  BY <1>1, <1>2

LEMMA TypesInvariant == Spec => []TInv
BY InitTypes, StepKeepsTypes, PTL DEF Spec

\* Every variable keeps its type, and no call hands compiled code an empty
\* table of pointers, whatever was released or rebound before.
THEOREM TypeCorrect == Spec => []TypeOK
<1>1. TInv => TypeOK
  BY DEF TInv
<1> QED
  BY <1>1, TypesInvariant, PTL

-----------------------------------------------------------------------------
(* Live code.  A client that calls release() and clear() only between its  *)
(* other calls, and a clear() that does not fail, keep every call on code  *)
(* the session holds.  MCPySessionClearRace and MCPySessionClearFails show *)
(* that neither condition can be dropped.                                  *)

ClientWaits == ~ InvalidatesWhileRunning /\ ~ ClearCanFail

GenerationsArePast == \A p \in Programs : Exists(p) => prepared[p].generation <= generation

\* What the counter is compared for.
ValidIsCached == \A p \in Programs : Valid(p) => cache[prepared[p].identifier] = prepared[p].fn

\* Nothing happens to a program's code during a call.
CallsAreValid == \A t \in Threads : ~ Idle(t) => Valid(call[t].program)

LiveInv == TInv /\ GenerationsArePast /\ ValidIsCached /\ CallsAreValid

\* Steps that change neither the session nor the code of any program, and
\* start calls of valid programs only.
KeepsCode ==
    /\ UNCHANGED <<cache, generation>>
    /\ \A p \in Programs : Exists(p)' => Exists(p) /\ SameCode(prepared[p], prepared'[p])
    /\ \A t \in Threads : ~ Idle(t)' =>
          /\ Exists(call[t].program)'
          /\ \/ Valid(call'[t].program)
             \/ ~ Idle(t) /\ call'[t].program = call[t].program

LEMMA KeepsCodeIsEnough == LiveInv /\ TInv' /\ KeepsCode => LiveInv'
<1> SUFFICES ASSUME LiveInv, TInv', KeepsCode PROVE LiveInv'
  OBVIOUS
<1>1. GenerationsArePast'
  BY DEF LiveInv, GenerationsArePast, KeepsCode, SameCode
<1>2. ValidIsCached'
  BY DEF LiveInv, ValidIsCached, Valid, KeepsCode, SameCode
<1>3. ASSUME NEW t \in Threads, ~ Idle(t)'
      PROVE  Valid(call[t].program)'
  <2>1. Valid(call'[t].program) /\ Exists(call[t].program)'
    BY <1>3 DEF KeepsCode, LiveInv, CallsAreValid
  <2>2. call'[t].program \in Programs
    BY <1>3 DEF TInv, TypeOK, Idle, Call
  <2> QED
    BY <2>1, <2>2 DEF KeepsCode, Valid, SameCode
<1> QED
  BY <1>1, <1>2, <1>3 DEF LiveInv, CallsAreValid

LEMMA ProgramStepKeepsCode ==
    ASSUME LiveInv, TInv', NEW t \in Threads, NEW p \in Programs, NEW new, NEW next,
           ProgramStep(t, p, new, next)
    PROVE  LiveInv'
<1>1. /\ UNCHANGED <<cache, generation>>
      /\ Exists(p) /\ SameCode(prepared[p], new)
      /\ prepared' = [prepared EXCEPT ![p] = new]
      /\ call' = [call EXCEPT ![t] = next]
      /\ next # Null => next.program = p
  BY DEF sessionVars, ProgramStep, FitsProgram
<1>2. Valid(p)
  BY DEF ProgramStep, MayCall, LiveInv, CallsAreValid
<1>3. \A q \in Programs : Exists(q)' => Exists(q) /\ SameCode(prepared[q], prepared'[q])
  BY <1>1 DEF LiveInv, TInv, TypeOK, Exists, SameCode
<1>4. ASSUME NEW u \in Threads, ~ Idle(u)'
      PROVE  /\ Exists(call[u].program)'
             /\ \/ Valid(call'[u].program)
                \/ ~ Idle(u) /\ call'[u].program = call[u].program
  <2>1. Exists(call[u].program)'
    BY <1>4 DEF TInv, CallsHoldTheirs
  <2>2. call'[u] = (IF u = t THEN next ELSE call[u])
    BY <1>1 DEF LiveInv, TInv, TypeOK
  <2> QED
    BY <1>1, <1>2, <1>4, <2>1, <2>2 DEF Idle
<1> QED
  BY <1>1, <1>3, <1>4, KeepsCodeIsEnough DEF KeepsCode

\* Building gives an address only to an identifier that has none.
LEMMA BuiltKeepsCode ==
    ASSUME TypeOK, NEW id \in Identifiers, NEW fn \in Addresses, Built(id, fn)
    PROVE  /\ cache'[id] = fn
           /\ \A other \in Identifiers : cache[other] # Null => cache'[other] = cache[other]
BY DEF Built, TypeOK

LEMMA PrepareKeepsCode ==
    ASSUME LiveInv, TInv', NEW p \in Programs, NEW id \in Identifiers, NEW a \in Arrays,
           Prepare(p, id, a)
    PROVE  LiveInv'
<1>1. PICK fn \in Addresses : \E new :
         /\ Built(id, fn)
         /\ new.identifier = id /\ new.fn = fn /\ new.generation = generation
         /\ prepared' = [prepared EXCEPT ![p] = new]
  BY DEF Prepare
<1>1a. PICK new :
         /\ Built(id, fn)
         /\ new.identifier = id /\ new.fn = fn /\ new.generation = generation
         /\ prepared' = [prepared EXCEPT ![p] = new]
  BY <1>1
<1>2. ~ Exists(p) /\ UNCHANGED <<generation, call>>
  BY DEF Prepare
<1>3. prepared'[p] = new /\ \A q \in Programs : q # p => prepared'[q] = prepared[q]
  BY <1>1a DEF LiveInv, TInv, TypeOK
<1>4. cache'[id] = fn /\ \A other \in Identifiers : cache[other] # Null => cache'[other] = cache[other]
  BY <1>1a, BuiltKeepsCode DEF LiveInv, TInv
<1>5. GenerationsArePast'
  BY <1>1a, <1>2, <1>3 DEF LiveInv, TInv, TypeOK, GenerationsArePast, Exists
<1>6. ASSUME NEW q \in Programs, Valid(q)' PROVE cache'[prepared'[q].identifier] = prepared'[q].fn
  <2>1. CASE q = p
    BY <1>1a, <1>3, <1>4, <2>1
  <2>2. CASE q # p
    <3>1. Valid(q) /\ prepared'[q] = prepared[q]
      BY <1>2, <1>3, <1>6, <2>2 DEF Valid, Exists
    <3>2. prepared[q] \in PreparedProgramState
      BY <3>1, PreparedType DEF Valid, LiveInv
    <3>3. cache[prepared[q].identifier] = prepared[q].fn
      BY <3>1 DEF LiveInv, ValidIsCached
    <3>4. prepared[q].identifier \in Identifiers /\ prepared[q].fn # Null
      BY <3>2, NullAssumption DEF PreparedProgramState
    <3> QED
      BY <1>4, <3>1, <3>3, <3>4
  <2> QED
    BY <2>1, <2>2
<1>7. ASSUME NEW t \in Threads, ~ Idle(t)' PROVE Valid(call[t].program)'
  <2>1. ~ Idle(t) /\ call'[t] = call[t]
    BY <1>2, <1>7 DEF Idle
  <2>2. Valid(call[t].program) /\ call[t].program \in Programs /\ call[t].program # p
    BY <1>2, <2>1, Inside DEF LiveInv, CallsAreValid
  <2> QED
    BY <1>2, <1>3, <2>1, <2>2 DEF Valid, Exists
<1> QED
  BY <1>5, <1>6, <1>7 DEF LiveInv, ValidIsCached, CallsAreValid

\* A new generation: nothing is valid and nobody is calling.
LEMMA InvalidateKeepsCode ==
    ASSUME LiveInv, TInv', ClientWaits, Clear \/ \E id \in Identifiers : Release(id)
    PROVE  LiveInv'
<1>1. /\ AllIdle
      /\ generation' = generation + 1
      /\ UNCHANGED <<prepared, call>>
  BY DEF Clear, Release, NextGeneration, MayInvalidate, ClientWaits
<1>2. generation \in Nat
  BY DEF LiveInv, TInv, TypeOK
<1>3. \A p \in Programs : Exists(p) => prepared[p].generation \in Nat
  BY PreparedType DEF LiveInv, PreparedProgramState
<1>4. GenerationsArePast'
  BY <1>1, <1>2, <1>3 DEF LiveInv, GenerationsArePast, Exists
<1>5. \A p \in Programs : ~ Valid(p)'
  BY <1>1, <1>2, <1>3 DEF LiveInv, GenerationsArePast, Valid, Exists
<1>6. \A t \in Threads : Idle(t)'
  BY <1>1 DEF AllIdle, Idle
<1> QED
  BY <1>4, <1>5, <1>6 DEF LiveInv, ValidIsCached, CallsAreValid

LEMMA RunOnceKeepsCode ==
    ASSUME LiveInv, TInv', NEW id \in Identifiers, RunOnce(id)
    PROVE  LiveInv'
<1>1. PICK fn \in Addresses : Built(id, fn)
  BY DEF RunOnce
<1>2. \A other \in Identifiers : cache[other] # Null => cache'[other] = cache[other]
  BY <1>1, BuiltKeepsCode DEF LiveInv, TInv
<1>3. UNCHANGED <<generation, prepared, call>>
  BY DEF RunOnce
<1>4. ASSUME NEW p \in Programs, Valid(p)' PROVE cache'[prepared'[p].identifier] = prepared'[p].fn
  <2>1. Valid(p)
    BY <1>3, <1>4 DEF Valid, Exists
  <2>2. prepared[p] \in PreparedProgramState
    BY <2>1, PreparedType DEF Valid, LiveInv
  <2>3. /\ cache[prepared[p].identifier] = prepared[p].fn
        /\ prepared[p].identifier \in Identifiers
        /\ prepared[p].fn # Null
    BY <2>1, <2>2, NullAssumption DEF LiveInv, ValidIsCached, PreparedProgramState
  <2> QED
    BY <1>2, <1>3, <2>3
<1>5. GenerationsArePast' /\ CallsAreValid'
  BY <1>3 DEF LiveInv, GenerationsArePast, CallsAreValid, Exists, Valid, Idle
<1> QED
  BY <1>4, <1>5 DEF LiveInv, ValidIsCached

LEMMA OthersKeepCode ==
    ASSUME LiveInv, TInv',
           \/ MakeArray \/ \E a \in Arrays : ForgetArray(a)
           \/ \E p \in Programs : Discard(p) \/ \E t \in Threads : GetOutputs(t, p)
    PROVE  LiveInv'
<1>1. UNCHANGED <<cache, generation, call>>
  BY DEF MakeArray, ForgetArray, Discard, GetOutputs, sessionVars
<1>2. \A p \in Programs : Exists(p)' => Exists(p) /\ SameCode(prepared[p], prepared'[p])
  BY DEF MakeArray, ForgetArray, Discard, GetOutputs, SameCode, Exists, LiveInv, TInv, TypeOK
<1>3. \A t \in Threads : ~ Idle(t)' => Exists(call[t].program)'
  BY DEF TInv, CallsHoldTheirs
<1> QED
  BY <1>1, <1>2, <1>3, KeepsCodeIsEnough DEF KeepsCode, Idle

LEMMA StepKeepsLive == ClientWaits /\ LiveInv /\ [Next]_vars => LiveInv'
<1> SUFFICES ASSUME ClientWaits, LiveInv, [Next]_vars PROVE LiveInv'
  OBVIOUS
<1>1. TInv'
  BY StepKeepsTypes DEF LiveInv
<1>2. CASE UNCHANGED vars
  BY <1>1, <1>2 DEF vars, sessionVars, LiveInv, GenerationsArePast, ValidIsCached, CallsAreValid,
                    Exists, Valid, Idle
<1>3. ~ ClearFails
  BY DEF ClientWaits, ClearFails
<1>4. CASE Next
  BY <1>1, <1>3, <1>4, PrepareKeepsCode, InvalidateKeepsCode, RunOnceKeepsCode, OthersKeepCode,
     ProgramStepKeepsCode, Steps
     DEF LiveInv
<1> QED
  BY <1>2, <1>4

LEMMA InitIsLive == Init => LiveInv
<1>1. Init => GenerationsArePast /\ ValidIsCached /\ CallsAreValid
  BY DEF Init, GenerationsArePast, ValidIsCached, CallsAreValid, Exists, Valid, Idle
<1> QED
  BY <1>1, InitTypes DEF LiveInv

\* When the client calls release() and clear() only between its other calls
\* and clear() does not fail, executing code is the code its session holds for
\* the program's identifier: no prepared program gets past the generation check
\* with a pointer to code that was freed or replaced.
THEOREM CodeIsLive == ASSUME ClientWaits PROVE Spec => []RunsLiveCode
<1>1. LiveInv => RunsLiveCode
  BY Inside DEF LiveInv, CallsAreValid, ValidIsCached, RunsLiveCode, At
<1>2. LiveInv /\ [Next]_vars => LiveInv'
  BY StepKeepsLive
<1> QED
  BY <1>1, <1>2, InitIsLive, PTL DEF Spec

-----------------------------------------------------------------------------
(* Outputs and overflows.  Programs that are not shared between threads    *)
(* keep their executions apart.                                            *)

NobodyShares == \A p \in Programs : \A t, u \in Users[p] : t = u

CallersAreUsers == \A t \in Threads : ~ Idle(t) => t \in Users[call[t].program]

\* No array is the output of two programs.
OutputsDiffer ==
    \A p, q \in Programs : (p # q /\ Exists(p) /\ Exists(q)) =>
        prepared[p].outputs = Null \/ prepared[p].outputs # prepared[q].outputs

TablesAreCurrent ==
    \A t \in Threads : At(t, "executing") => call[t].ptrs.outputs = prepared[call[t].program].outputs

BuffersInv ==
    TInv /\ CallersAreUsers /\ OutputsDiffer /\ TablesAreCurrent /\ OverflowsAreReported

\* What ProgramStep says of the call that starts or goes on.
LEMMA ProgramStepCall ==
    ASSUME BuffersInv, NEW t \in Threads, NEW p \in Programs, NEW new, NEW next,
           ProgramStep(t, p, new, next), next # Null
    PROVE  /\ next.program = p
           /\ t \in Users[p]
           /\ next.at = "executing" => /\ next.ptrs.outputs = new.outputs
                                       /\ new.safety_check = next.overflowed
<1>1. next.program = p
  BY DEF ProgramStep, FitsProgram
<1>2. t \in Users[p]
  BY DEF ProgramStep, MayCall, BuffersInv, CallersAreUsers
<1>3. ASSUME next.at = "executing"
      PROVE  next.ptrs.outputs = new.outputs /\ new.safety_check = next.overflowed
  <2>1. CASE Starts(next, new)
    BY <2>1 DEF Starts
  <2>2. CASE GoesOn(call[t], next, prepared[p], new)
    <3>1. At(t, "executing") /\ call[t].program = p
      BY <2>2 DEF GoesOn, At, Idle, ProgramStep
    <3>2. next.ptrs.outputs = new.outputs
      BY <2>2, <3>1 DEF GoesOn, BuffersInv, TablesAreCurrent
    <3>3. new.safety_check = next.overflowed
      BY <2>2 DEF GoesOn
    <3> QED
      BY <3>2, <3>3
  <2> QED
    BY <1>3, <2>1, <2>2 DEF ProgramStep, FitsProgram
<1> QED
  BY <1>1, <1>2, <1>3

LEMMA ProgramStepKeepsBuffers ==
    ASSUME NobodyShares, BuffersInv, TInv', NEW t \in Threads, NEW p \in Programs, NEW new, NEW next,
           ProgramStep(t, p, new, next)
    PROVE  BuffersInv'
<1>1. /\ Exists(p) /\ Sound(new)
      /\ new.outputs \in {prepared[p].outputs, Null} \cup FreeArrays
      /\ prepared' = [prepared EXCEPT ![p] = new]
      /\ call' = [call EXCEPT ![t] = next]
  BY DEF ProgramStep
<1>2. /\ prepared'[p] = new
      /\ \A q \in Programs : q # p => prepared'[q] = prepared[q]
      /\ call'[t] = next
      /\ \A u \in Threads : u # t => call'[u] = call[u]
  BY <1>1 DEF BuffersInv, TInv, TypeOK
<1>3. CallersAreUsers'
  <2>1. ASSUME NEW u \in Threads, call'[u] # Null PROVE u \in Users[call'[u].program]
    BY <1>2, <2>1, ProgramStepCall DEF BuffersInv, CallersAreUsers, Idle
  <2> QED
    BY <2>1 DEF CallersAreUsers, Idle
<1>4. OutputsDiffer'
  <2>1. \A q \in Programs : (q # p /\ Exists(q)) =>
           new.outputs = Null \/ new.outputs # prepared[q].outputs
    BY <1>1 DEF BuffersInv, OutputsDiffer, FreeArrays, Alive
  <2> QED
    BY <1>2, <2>1 DEF BuffersInv, OutputsDiffer, Exists
\* Another thread's call is of another program.
<1>5. ASSUME NEW u \in Threads, At(u, "executing"), u # t
      PROVE  call[u].program # p
  <2>1. u \in Users[call[u].program]
    BY <1>5 DEF At, BuffersInv, CallersAreUsers
  <2>2. t \in Users[p]
    BY DEF ProgramStep, MayCall, BuffersInv, CallersAreUsers
  <2>3. call[u].program \in Programs
    BY <1>5, Inside DEF At, BuffersInv
  <2> QED
    BY <1>5, <2>1, <2>2, <2>3 DEF NobodyShares
<1>6. ASSUME NEW u \in Threads, At(u, "executing")'
      PROVE  /\ call'[u].ptrs.outputs = prepared'[call'[u].program].outputs
             /\ prepared'[call'[u].program].safety_check = call'[u].overflowed
  <2>1. CASE u = t
    <3>1. next # Null /\ next.at = "executing"
      BY <1>2, <1>6, <2>1 DEF At, Idle
    <3>2. next.ptrs.outputs = new.outputs /\ new.safety_check = next.overflowed /\ next.program = p
      BY <3>1, ProgramStepCall
    <3> QED
      BY <1>2, <2>1, <3>2
  <2>2. CASE u # t
    <3>1. At(u, "executing") /\ call'[u] = call[u]
      BY <1>2, <1>6, <2>2 DEF At, Idle
    <3>2. call[u].program # p /\ call[u].program \in Programs
      BY <1>5, <2>2, <3>1, Inside DEF At, BuffersInv
    <3>3. prepared'[call[u].program] = prepared[call[u].program]
      BY <1>2, <3>2
    <3> QED
      BY <3>1, <3>3 DEF BuffersInv, TablesAreCurrent, OverflowsAreReported
  <2> QED
    BY <2>1, <2>2
<1> QED
  BY <1>3, <1>4, <1>6 DEF BuffersInv, TablesAreCurrent, OverflowsAreReported

LEMMA PrepareKeepsBuffers ==
    ASSUME BuffersInv, TInv', NEW p \in Programs, NEW id \in Identifiers, NEW a \in Arrays,
           Prepare(p, id, a)
    PROVE  BuffersInv'
<1>1. PICK o \in FreeArrays : \E new :
         new.outputs = o /\ prepared' = [prepared EXCEPT ![p] = new]
  BY DEF Prepare
<1>1a. PICK new :
         new.outputs = o /\ prepared' = [prepared EXCEPT ![p] = new]
  BY <1>1
<1>2. ~ Exists(p) /\ call' = call
  BY DEF Prepare
<1>3. /\ prepared'[p] = new
      /\ \A q \in Programs : q # p => prepared'[q] = prepared[q]
  BY <1>1a DEF BuffersInv, TInv, TypeOK
<1>4. CallersAreUsers'
  BY <1>2 DEF BuffersInv, CallersAreUsers, Idle
<1>5. OutputsDiffer'
  <2>1. \A q \in Programs : (q # p /\ Exists(q)) => new.outputs # prepared[q].outputs
    BY <1>1a DEF FreeArrays, Alive
  <2> QED
    BY <1>3, <2>1 DEF BuffersInv, OutputsDiffer, Exists
<1>6. ASSUME NEW u \in Threads, At(u, "executing")
      PROVE  prepared'[call[u].program] = prepared[call[u].program]
  <2>1. call[u].program \in Programs /\ call[u].program # p
    BY <1>2, <1>6, Inside DEF At, BuffersInv
  <2> QED
    BY <1>3, <2>1
<1>7. TablesAreCurrent' /\ OverflowsAreReported'
  BY <1>2, <1>6 DEF BuffersInv, TablesAreCurrent, OverflowsAreReported, At, Idle
<1> QED
  BY <1>4, <1>5, <1>7 DEF BuffersInv

\* The other actions leave calls alone, and programs, unless one goes away.
LEMMA OthersKeepBuffers ==
    ASSUME BuffersInv, TInv',
           \/ MakeArray \/ \E a \in Arrays : ForgetArray(a)
           \/ \E id \in Identifiers : RunOnce(id) \/ Release(id)
           \/ Clear \/ ClearFails
           \/ \E p \in Programs : Discard(p) \/ \E t \in Threads : GetOutputs(t, p)
    PROVE  BuffersInv'
<1>1. call' = call
  BY DEF MakeArray, ForgetArray, RunOnce, Release, Clear, ClearFails, Discard, GetOutputs
<1>2. \A p \in Programs : Exists(p)' => Exists(p) /\ prepared'[p] = prepared[p]
  BY DEF MakeArray, ForgetArray, RunOnce, Release, Clear, ClearFails, Discard, GetOutputs,
         Exists, BuffersInv, TInv, TypeOK
<1>3. CallersAreUsers'
  BY <1>1 DEF BuffersInv, CallersAreUsers, Idle
<1>4. OutputsDiffer'
  BY <1>2 DEF BuffersInv, OutputsDiffer
<1>5. ASSUME NEW u \in Threads, At(u, "executing")
      PROVE  prepared'[call[u].program] = prepared[call[u].program]
  <2>1. Exists(call[u].program)' /\ call[u].program \in Programs
    BY <1>1, <1>5, Inside DEF At, Idle, TInv, CallsHoldTheirs, BuffersInv
  <2> QED
    BY <1>1, <1>2, <2>1
<1>6. TablesAreCurrent' /\ OverflowsAreReported'
  BY <1>1, <1>5 DEF BuffersInv, TablesAreCurrent, OverflowsAreReported, At, Idle
<1> QED
  BY <1>3, <1>4, <1>6 DEF BuffersInv

LEMMA StepKeepsBuffers == NobodyShares /\ BuffersInv /\ [Next]_vars => BuffersInv'
<1> SUFFICES ASSUME NobodyShares, BuffersInv, [Next]_vars PROVE BuffersInv'
  OBVIOUS
<1>1. TInv'
  BY StepKeepsTypes DEF BuffersInv
<1>2. CASE UNCHANGED vars
  BY <1>1, <1>2 DEF vars, BuffersInv, CallersAreUsers, OutputsDiffer, TablesAreCurrent,
                    OverflowsAreReported, At, Exists, Idle
<1>3. CASE Next
  BY <1>1, <1>3, Steps, ProgramStepKeepsBuffers, PrepareKeepsBuffers, OthersKeepBuffers
     DEF BuffersInv
<1> QED
  BY <1>2, <1>3

LEMMA BuffersInvariant == ASSUME NobodyShares PROVE Spec => []BuffersInv
<1>1. Init => CallersAreUsers /\ OutputsDiffer /\ TablesAreCurrent /\ OverflowsAreReported
  BY DEF Init, CallersAreUsers, OutputsDiffer, TablesAreCurrent, OverflowsAreReported, At, Exists, Idle
<1>2. Init => BuffersInv
  BY <1>1, InitTypes DEF BuffersInv
<1>3. BuffersInv /\ [Next]_vars => BuffersInv'
  BY StepKeepsBuffers
<1> QED
  BY <1>2, <1>3, PTL DEF Spec

\* Programs that no two threads share write only the outputs they own, each
\* execution its own array, whatever is prepared, rebound, released, allocated
\* again or forgotten meanwhile, and even when code is released under a call.
THEOREM OutputsAreOwn == ASSUME NobodyShares PROVE Spec => []WritesItsOwnOutputs
<1>1. BuffersInv => WritesItsOwnOutputs
  <2> SUFFICES ASSUME BuffersInv, NEW t \in Threads, At(t, "executing")
               PROVE  /\ call[t].ptrs.outputs = prepared[call[t].program].outputs
                      /\ \A u \in Threads \ {t} :
                            At(u, "executing") => call[u].ptrs.outputs # call[t].ptrs.outputs
    BY DEF WritesItsOwnOutputs
  <2>1. call[t].ptrs.outputs = prepared[call[t].program].outputs
    BY DEF BuffersInv, TablesAreCurrent
  <2>2. ASSUME NEW u \in Threads \ {t}, At(u, "executing")
        PROVE  call[u].ptrs.outputs # call[t].ptrs.outputs
    <3>1. /\ t \in Users[call[t].program] /\ u \in Users[call[u].program]
          /\ call[t].program \in Programs /\ call[u].program \in Programs
          /\ Exists(call[t].program) /\ Exists(call[u].program)
      BY <2>2, Inside DEF At, BuffersInv, CallersAreUsers
    <3>2. call[t].program # call[u].program
      BY <3>1 DEF NobodyShares
    <3>3. call[t].ptrs \in Pointers
      BY DEF BuffersInv, TInv, TypeOK, At, Idle
    <3>4. prepared[call[t].program].outputs # Null
      BY <2>1, <3>3, NullAssumption DEF Pointers
    <3>5. call[u].ptrs.outputs = prepared[call[u].program].outputs
      BY <2>2 DEF BuffersInv, TablesAreCurrent
    <3> QED
      BY <2>1, <3>1, <3>2, <3>4, <3>5 DEF BuffersInv, OutputsDiffer
  <2> QED
    BY <2>1, <2>2
<1> QED
  BY <1>1, BuffersInvariant, PTL

\* Of programs that no two threads share, every overflow is reported to the
\* call that met it, and no call raises for an earlier one.
THEOREM OverflowsReachTheirCall == ASSUME NobodyShares PROVE Spec => []OverflowsAreReported
<1>1. BuffersInv => OverflowsAreReported
  BY DEF BuffersInv
<1> QED
  BY <1>1, BuffersInvariant, PTL
=============================================================================

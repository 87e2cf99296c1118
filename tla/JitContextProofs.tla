--------------------------- MODULE JitContextProofs ---------------------------
(***************************************************************************)
(* What JitContext.tla checks on small instances, proved for any number of *)
(* contexts, identifiers, addresses, signatures and settings, any nesting  *)
(* of builds and any outcome of every compilation.                         *)
(***************************************************************************)
EXTENDS JitContext, FiniteSetTheorems, TLAPS

-----------------------------------------------------------------------------
(* Types.                                                                  *)

\* A context with a build in progress is there and has its implementation.
BusyIsUsable == \A c \in Contexts : ~ Idle(c) => Usable(c)

LEMMA SequenceTypes ==
    ASSUME NEW S, NEW s \in Seq(S)
    PROVE  /\ \A e \in S : Append(s, e) \in Seq(S)
           /\ s # << >> => SubSeq(s, 1, Len(s) - 1) \in Seq(S) /\ s[Len(s)] \in S
           /\ << >> \in Seq(S)
OBVIOUS

LEMMA EmitType ==
    ASSUME NEW held, NEW f \in Functions, NEW mode \in Modes, NEW done \in BOOLEAN
    PROVE  Emit(held, f, mode, done) \in Seq(Piece)
<1>1. [function |-> f, mode |-> mode, complete |-> done] \in Piece
  BY DEF Piece
<1> QED
  BY <1>1, SequenceTypes DEF Emit, reset

LEMMA HeldType ==
    ASSUME NEW held \in Seq(Piece), NEW policy, NEW f \in Functions, NEW o \in Outcomes
    PROVE  HeldAfter(held, policy, f, o) \in Seq(Piece)
<1>1. HeldAfterVector(held, policy, f, o) \in Seq(Piece)
  BY EmitType DEF HeldAfterVector, Modes
<1> QED
  BY <1>1, EmitType DEF HeldAfter, Modes

LEMMA CaptureType ==
    ASSUME NEW snap \in DebugSnapshot, NEW n \in Nat, NEW s \in Settings,
           NEW f \in Functions, NEW o \in Outcomes
    PROVE  /\ CaptureOnError(snap, n, s, o) \in DebugSnapshot
           /\ CaptureOnSuccess(snap, n, s, o) \in DebugSnapshot
           /\ EagerHir(snap, n, s) \in DebugSnapshot
           /\ RecordFallback(snap, n, s, f, o) \in DebugSnapshot
<1>1. lower_function(s.policy, o) \in Modes \cup {Null}
  BY SettingsAssumption DEF lower_function, Modes, Settings
<1>2. [attempt |-> n, mode |-> lower_function(s.policy, o)] \in Captured
  BY <1>1 DEF Captured
<1>3. capture_debug_information(snap, n, s, o) \in DebugSnapshot
  BY <1>2 DEF capture_debug_information, DebugSnapshot
<1>4. EagerHir(snap, n, s) \in DebugSnapshot /\ RecordFallback(snap, n, s, f, o) \in DebugSnapshot
  BY DEF EagerHir, RecordFallback, DebugSnapshot
<1> QED
  BY <1>3, <1>4 DEF CaptureOnError, CaptureOnSuccess

LEMMA InitialValues ==
    /\ DefaultSettings \in Settings
    /\ ZeroCounters \in Counters
    /\ EmptySnapshot \in DebugSnapshot
    /\ NoFunctions \in [Identifiers -> FunctionRecord \cup {Null}]
BY SettingsAssumption
   DEF DefaultSettings, ZeroCounters, Counters, EmptySnapshot, DebugSnapshot, NotCaptured,
       Captured, NoFunctions

LEMMA InitTypes == Init => TypeOK
BY InitialValues, SequenceTypes DEF Init, TypeOK

LEMMA CountersType == ASSUME TypeOK PROVE counters \in [Contexts -> Counters]
BY DEF TypeOK

LEMMA FailureType ==
    ASSUME TypeOK, NEW c \in Contexts
    PROVE  CountFailure(c) \in [Contexts -> Counters]
BY CountersType DEF CountFailure, Counters

LEMMA FrameTypes ==
    ASSUME TypeOK, NEW c \in Contexts, ~ Idle(c)
    PROVE  Current(c) \in Frame /\ Return(c) \in [Contexts -> Seq(Frame)]
<1>1. frames[c] \in Seq(Frame) /\ frames[c] # << >>
  BY DEF TypeOK, Idle
<1> QED
  BY <1>1, SequenceTypes DEF TypeOK, Current, Return

LEMMA LookupTypes ==
    ASSUME TypeOK, NEW c \in Contexts, NEW id \in Identifiers, NEW caller \in Callers \cup {Null},
           Hit(c, id, caller) \/ Miss(c, id) \/ Begin(c, id, caller)
    PROVE  TypeOK'
<1>1. CASE Hit(c, id, caller)
  <2>1. funcs[impl[c]][id] \in FunctionRecord
    BY <1>1 DEF Hit, Find, Usable, TypeOK
  <2>2. [context |-> c, identifier |-> id, address |-> funcs[impl[c]][id].fn_ptr,
         caller |-> caller] \in Handle
    BY <2>1 DEF Handle, FunctionRecord
  <2>3. handles' \subseteq Handle
    BY <1>1, <2>2 DEF Hit, TypeOK
  <2>4. counters' \in [Contexts -> Counters]
    <3>1. counters' = [counters EXCEPT ![c].hits = @ + 1]
      BY <1>1 DEF Hit
    <3> QED
      BY <3>1, CountersType DEF Counters
  <2> QED
    BY <1>1, <2>3, <2>4 DEF Hit, TypeOK, implVars
<1>2. CASE Miss(c, id)
  <2>1. counters' \in [Contexts -> Counters]
    <3>1. counters' = [counters EXCEPT ![c].misses = @ + 1]
      BY <1>2 DEF Miss
    <3> QED
      BY <3>1, CountersType DEF Counters
  <2> QED
    BY <1>2, <2>1 DEF Miss, TypeOK, implVars
<1>3. CASE Begin(c, id, caller)
  <2>1. counters' \in [Contexts -> Counters]
    <3>1. counters' = [counters EXCEPT ![c].misses = @ + 1, ![c].attempts = @ + 1]
      BY <1>3 DEF Begin
    <3> QED
      BY <3>1, CountersType DEF Counters
  <2>2. snapshot' \in [Contexts -> DebugSnapshot]
    BY <1>3, InitialValues DEF Begin, TypeOK, ResetSnapshot
  <2>3. [identifier |-> id, caller |-> caller, attempt |-> counters[c].attempts + 1] \in Frame
    BY DEF TypeOK, Counters, Frame
  <2>4. frames' \in [Contexts -> Seq(Frame)]
    BY <1>3, <2>3, SequenceTypes DEF Begin, TypeOK
  <2> QED
    BY <1>3, <2>1, <2>2, <2>4 DEF Begin, TypeOK, implVars
<1> QED
  BY <1>1, <1>2, <1>3

LEMMA EndBuildTypes ==
    ASSUME TypeOK, BusyIsUsable, NEW c \in Contexts, EndBuild(c)
    PROVE  TypeOK'
<1>1. CASE BuilderThrows(c)
  BY <1>1, FailureType, FrameTypes DEF BuilderThrows, TypeOK, implVars
<1>2. ASSUME NEW f \in Functions, NEW o \in Outcomes, ~ Idle(c)
      PROVE  LET n == Current(c).attempt
                 s == settings[c]
                 snap == RecordFallback(EagerHir(snapshot[c], n, s), n, s, f, o)
             IN  /\ CaptureOnError(EagerHir(snapshot[c], n, s), n, s, o) \in DebugSnapshot
                 /\ CaptureOnError(snap, n, s, o) \in DebugSnapshot
                 /\ CaptureOnSuccess(snap, n, s, o) \in DebugSnapshot
  <2>1. /\ Current(c).attempt \in Nat
        /\ settings[c] \in Settings
        /\ snapshot[c] \in DebugSnapshot
    BY <1>2, FrameTypes DEF TypeOK, Frame
  <2>2. EagerHir(snapshot[c], Current(c).attempt, settings[c]) \in DebugSnapshot
    BY <2>1, CaptureType
  <2>3. RecordFallback(EagerHir(snapshot[c], Current(c).attempt, settings[c]),
                       Current(c).attempt, settings[c], f, o) \in DebugSnapshot
    BY <2>1, <2>2, CaptureType
  <2> QED
    BY <2>1, <2>2, <2>3, CaptureType
<1>3. ASSUME NEW f \in Functions, NEW o \in Outcomes, Refused(c, f, o)
      PROVE  TypeOK'
  <2>1. snapshot' \in [Contexts -> DebugSnapshot]
    BY <1>2, <1>3 DEF Refused, TypeOK
  <2> QED
    BY <1>3, <2>1, FailureType, FrameTypes DEF Refused, TypeOK, implVars
<1>4. ASSUME NEW f \in Functions, NEW o \in Outcomes, CompileThrows(c, f, o)
      PROVE  TypeOK'
  <2>1. snapshot' \in [Contexts -> DebugSnapshot]
    BY <1>2, <1>4 DEF CompileThrows, TypeOK
  <2>2. holder' \in [Impls -> Seq(Piece)]
    BY <1>4, HeldType DEF CompileThrows, TypeOK
  <2> QED
    BY <1>4, <2>1, <2>2, FailureType, FrameTypes DEF CompileThrows, TypeOK
<1>5. ASSUME NEW f \in Functions, NEW o \in Outcomes, Compiles(c, f, o)
      PROVE  TypeOK'
  <2>1. snapshot' \in [Contexts -> DebugSnapshot]
    BY <1>2, <1>5 DEF Compiles, TypeOK
  <2>2. holder' \in [Impls -> Seq(Piece)]
    BY <1>5, HeldType DEF Compiles, TypeOK
  <2>3. PICK a \in FreeAddresses :
          /\ code' = [code EXCEPT ![a] = [owner |-> impl[c], pieces |-> holder'[impl[c]]]]
          /\ funcs' = [funcs EXCEPT ![impl[c]][Current(c).identifier] =
                          [fn_ptr |-> a, args |-> f.args]]
          /\ handles' = handles \cup
                {[context |-> c, identifier |-> Current(c).identifier, address |-> a,
                  caller |-> Current(c).caller]}
    BY <1>5 DEF Compiles
  <2>4. a \in Addresses /\ Current(c) \in Frame /\ f.args \in Signatures
    BY <1>5, FrameTypes DEF FreeAddresses, Compiles, Functions
  <2>5. funcs' \in [Impls -> [Identifiers -> FunctionRecord \cup {Null}]]
    <3>1. [fn_ptr |-> a, args |-> f.args] \in FunctionRecord
      BY <2>4 DEF FunctionRecord
    <3> QED
      BY <2>3, <3>1 DEF TypeOK
  <2>6. handles' \subseteq Handle
    <3>1. [context |-> c, identifier |-> Current(c).identifier, address |-> a,
           caller |-> Current(c).caller] \in Handle
      BY <2>4 DEF Handle, Frame
    <3> QED
      BY <2>3, <3>1 DEF TypeOK
  <2>7. counters' \in [Contexts -> Counters]
    <3>1. counters' = [counters EXCEPT ![c].successes = @ + 1]
      BY <1>5 DEF Compiles
    <3> QED
      BY <3>1, CountersType DEF Counters
  <2>8. frames' \in [Contexts -> Seq(Frame)]
    BY <1>5, FrameTypes DEF Compiles
  <2>9. code' \in [Addresses -> Code \cup {Null}]
    <3>1. impl[c] \in Impls
      BY <1>5 DEF Compiles, BusyIsUsable, Usable, TypeOK
    <3>2. [owner |-> impl[c], pieces |-> holder'[impl[c]]] \in Code
      BY <2>2, <3>1 DEF Code
    <3> QED
      BY <2>3, <3>2 DEF TypeOK
  <2> QED
    BY <1>5, <2>1, <2>2, <2>5, <2>6, <2>7, <2>8, <2>9 DEF Compiles, TypeOK
<1> QED
  BY <1>1, <1>3, <1>4, <1>5 DEF EndBuild

LEMMA DeleteTypes ==
    ASSUME TypeOK, NEW i, Delete(i)
    PROVE  /\ funcs' \in [Impls -> [Identifiers -> FunctionRecord \cup {Null}]]
           /\ holder' \in [Impls -> Seq(Piece)]
           /\ code' \in [Addresses -> Code \cup {Null}]
<1>1. funcs' \in [Impls -> [Identifiers -> FunctionRecord \cup {Null}]]
  BY InitialValues DEF Delete, FuncsWithout, TypeOK
<1>2. holder' \in [Impls -> Seq(Piece)]
  BY SequenceTypes DEF Delete, HolderWithout, TypeOK
<1>3. code' \in [Addresses -> Code \cup {Null}]
  BY DEF Delete, CodeWithout, TypeOK
<1> QED
  BY <1>1, <1>2, <1>3

LEMMA TakeOverTypes ==
    ASSUME TypeOK, NEW dst \in Contexts, NEW src \in Contexts, TakeOver(dst, src)
    PROVE  /\ impl' \in [Contexts -> Impls \cup {Null}]
           /\ settings' \in [Contexts -> Settings]
           /\ counters' \in [Contexts -> Counters]
           /\ snapshot' \in [Contexts -> DebugSnapshot]
           /\ arena' \in [Contexts -> Contexts]
           /\ handles' \subseteq Handle
           /\ frames' \in [Contexts -> Seq(Frame)]
<1>1. snapshot' \in [Contexts -> DebugSnapshot]
  BY InitialValues DEF TakeOver, TypeOK
<1>2. handles' \subseteq Handle
  <2>1. \A h \in DropAll(dst) :
           [h EXCEPT !.context = IF h.context = src THEN dst ELSE h.context] \in Handle
    BY DEF TypeOK, DropAll, Handle
  <2> QED
    BY <2>1 DEF TakeOver
<1> QED
  BY <1>1, <1>2 DEF TakeOver, TypeOK, TakeImpl, TakeCounters

LEMMA LifeTypes ==
    ASSUME TypeOK, NEW c \in Contexts, Construct(c) \/ Destroy(c) \/ Clear(c) \/ Configure(c)
    PROVE  TypeOK'
<1>1. CASE Construct(c)
  BY <1>1, InitialValues DEF Construct, TypeOK, FreeImpls
<1>2. CASE Destroy(c)
  BY <1>2, DeleteTypes DEF Destroy, TypeOK, DropAll
<1>3. CASE Clear(c)
  <2>1. impl' \in [Contexts -> Impls \cup {Null}] /\ parent' \in [Impls -> Contexts \cup {Null}]
    <3>1. impl \in [Contexts -> Impls \cup {Null}] /\ parent \in [Impls -> Contexts \cup {Null}]
      BY DEF TypeOK
    <3>2. FreeImpls \cup ({impl[c]} \ {Null}) \subseteq Impls
      BY <3>1 DEF FreeImpls
    <3> QED
      BY <1>3, <3>1, <3>2 DEF Clear
  <2> QED
    BY <1>3, <2>1, DeleteTypes, InitialValues DEF Clear, TypeOK, DropAll
<1>4. CASE Configure(c)
  BY <1>4 DEF Configure, TypeOK, implVars
<1> QED
  BY <1>1, <1>2, <1>3, <1>4

LEMMA ReleaseTypes ==
    ASSUME TypeOK, NEW c \in Contexts, NEW id \in Identifiers, Release(c, id)
    PROVE  TypeOK'
BY DEF Release, TypeOK, Usable, FreeCode, Erase, Drop, ctxVars

LEMMA MoveTypes ==
    ASSUME TypeOK, NEW dst \in Contexts, NEW src \in Contexts,
           MoveConstruct(dst, src) \/ MoveAssign(dst, src)
    PROVE  TypeOK'
<1>1. CASE MoveConstruct(dst, src)
  <2>1. parent' \in [Impls -> Contexts \cup {Null}] /\ alive' \subseteq Contexts
    BY <1>1 DEF MoveConstruct, Rebind, TypeOK
  <2> QED
    BY <1>1, <2>1, TakeOverTypes DEF MoveConstruct, TypeOK
<1>2. CASE MoveAssign(dst, src)
  <2>1. parent' \in [Impls -> Contexts \cup {Null}] /\ alive' \subseteq Contexts
    BY <1>2 DEF MoveAssign, TypeOK
  <2> QED
    BY <1>2, <2>1, TakeOverTypes, DeleteTypes DEF MoveAssign, TypeOK
<1> QED
  BY <1>1, <1>2

LEMMA StepTypes == TypeOK /\ BusyIsUsable /\ [Next]_vars => TypeOK'
<1> SUFFICES ASSUME TypeOK, BusyIsUsable, [Next]_vars
             PROVE  TypeOK'
  OBVIOUS
<1>1. CASE Next
  BY <1>1, LookupTypes, EndBuildTypes, LifeTypes, ReleaseTypes, MoveTypes DEF Next
<1>2. CASE UNCHANGED vars
  BY <1>2 DEF vars, ctxVars, implVars, TypeOK
<1> QED
  BY <1>1, <1>2

-----------------------------------------------------------------------------
(* Builds only run in a context that can serve them.                       *)

LEMMA ReturnShrinks ==
    ASSUME TypeOK, NEW c \in Contexts, ~ Idle(c)
    PROVE  /\ \A d \in Contexts : Return(c)[d] # << >> => frames[d] # << >>
           /\ \A d \in Contexts \ {c} : Return(c)[d] = frames[d]
           /\ Len(Return(c)[c]) = Len(frames[c]) - 1
           /\ \A n \in 1..Len(frames[c]) - 1 : Return(c)[c][n] = frames[c][n]
           /\ Len(frames[c]) \in Nat \ {0}
<1>1. frames[c] \in Seq(Frame) /\ frames[c] # << >>
  BY DEF TypeOK, Idle
<1>2. Return(c)[c] = SubSeq(frames[c], 1, Len(frames[c]) - 1)
  BY DEF Return, TypeOK
<1>3. \A d \in Contexts \ {c} : Return(c)[d] = frames[d]
  BY DEF Return, TypeOK
<1>4. /\ Len(Return(c)[c]) = Len(frames[c]) - 1
      /\ \A n \in 1..Len(frames[c]) - 1 : Return(c)[c][n] = frames[c][n]
      /\ Len(frames[c]) \in Nat \ {0}
  BY <1>1, <1>2
<1> QED
  BY <1>1, <1>3, <1>4 DEF Idle

LEMMA StepBusy == TypeOK /\ BusyIsUsable /\ [Next]_vars => BusyIsUsable'
<1> SUFFICES ASSUME TypeOK, BusyIsUsable, [Next]_vars
             PROVE  BusyIsUsable'
  OBVIOUS
<1>1. ASSUME NEW c \in Contexts, EndBuild(c)
      PROVE  BusyIsUsable'
  <2>1. /\ ~ Idle(c)
        /\ frames' = Return(c)
        /\ UNCHANGED <<alive, impl>>
    BY <1>1 DEF EndBuild, BuilderThrows, Refused, CompileThrows, Compiles
  <2> QED
    BY <2>1, ReturnShrinks DEF BusyIsUsable, Idle, Usable
<1>2. ASSUME NEW c \in Contexts, NEW id \in Identifiers, NEW caller \in Callers \cup {Null},
             Begin(c, id, caller)
      PROVE  BusyIsUsable'
  BY <1>2 DEF Begin, BusyIsUsable, Idle, Usable, TypeOK
<1>3. ASSUME NEW c \in Contexts, NEW id \in Identifiers, NEW caller \in Callers \cup {Null},
             Hit(c, id, caller) \/ Miss(c, id) \/ Release(c, id)
      PROVE  BusyIsUsable'
  BY <1>3 DEF Hit, Miss, Release, BusyIsUsable, Idle, Usable, ctxVars
<1>4. ASSUME NEW c \in Contexts, Construct(c) \/ Destroy(c) \/ Clear(c) \/ Configure(c)
      PROVE  BusyIsUsable'
  BY <1>4, NullAssumption
     DEF Construct, Destroy, Clear, Configure, BusyIsUsable, Idle, Usable, TypeOK, FreeImpls
<1>5. ASSUME NEW dst \in Contexts, NEW src \in Contexts,
             MoveConstruct(dst, src) \/ MoveAssign(dst, src)
      PROVE  BusyIsUsable'
  BY <1>5 DEF MoveConstruct, MoveAssign, TakeOver, TakeImpl, BusyIsUsable, Idle, Usable, TypeOK
<1>6. CASE UNCHANGED vars
  BY <1>6 DEF vars, ctxVars, BusyIsUsable, Idle, Usable
<1> QED
  BY <1>1, <1>2, <1>3, <1>4, <1>5, <1>6 DEF Next

\* Every variable keeps its type whatever the client does; in particular no
\* counter runs below zero and no record is stored without an address.
THEOREM TypeCorrect == Spec => []TypeOK
<1>1. Init => TypeOK /\ BusyIsUsable
  BY InitTypes DEF Init, BusyIsUsable, Idle
<1>2. TypeOK /\ BusyIsUsable /\ [Next]_vars => TypeOK' /\ BusyIsUsable'
  BY StepTypes, StepBusy
<1> QED
  BY <1>1, <1>2, PTL DEF Spec

-----------------------------------------------------------------------------
(* The inductive invariant.  A build in progress holds an identifier that  *)
(* is not cached and that no other build of the context holds, so saving   *)
(* its result overwrites nothing: that is what keeps code and records in   *)
(* step, and it is not visible in the properties themselves.               *)

PendingIsUncached ==
    \A c \in Contexts : \A n \in 1..Len(frames[c]) :
        /\ ~ Find(impl[c], frames[c][n].identifier)
        /\ \A m \in 1..Len(frames[c]) :
              frames[c][m].identifier = frames[c][n].identifier => m = n

Base == TypeOK /\ BusyIsUsable /\ ParentsAgree

IInv ==
    /\ Base
    /\ PendingIsUncached
    /\ CacheOwnsItsCode
    /\ CodeMatchesItsRecord
    /\ HandlesStayValid

LEMMA StepParents == Base /\ [Next]_vars => ParentsAgree'
<1> SUFFICES ASSUME Base, [Next]_vars
             PROVE  ParentsAgree'
  OBVIOUS
<1> USE NullAssumption
<1>1. ASSUME NEW c \in Contexts, Construct(c)
      PROVE  ParentsAgree'
  BY <1>1 DEF Construct, ParentsAgree, Base, TypeOK, FreeImpls
<1>2. ASSUME NEW c \in Contexts, Destroy(c)
      PROVE  ParentsAgree'
  BY <1>2 DEF Destroy, ParentsAgree, Base, TypeOK
<1>3. ASSUME NEW c \in Contexts, Clear(c)
      PROVE  ParentsAgree'
  <2>1. CASE impl'[c] = Null
    BY <1>3, <2>1 DEF Clear, ParentsAgree, Base, TypeOK
  <2>2. CASE impl'[c] # Null
    <3>1. PICK i \in FreeImpls \cup ({impl[c]} \ {Null}) :
              /\ impl' = [impl EXCEPT ![c] = i]
              /\ parent' = [j \in Impls |->
                    IF j = i THEN c ELSE IF j = impl[c] THEN Null ELSE parent[j]]
      BY <1>3, <2>2 DEF Clear, Base, TypeOK
    <3>2. i \in Impls /\ (parent[i] = Null \/ i = impl[c])
      BY DEF FreeImpls, Base, TypeOK
    <3> QED
      BY <1>3, <3>1, <3>2 DEF Clear, ParentsAgree, Base, TypeOK
  <2> QED
    BY <2>1, <2>2
<1>4. ASSUME NEW dst \in Contexts, NEW src \in Contexts, MoveConstruct(dst, src)
      PROVE  ParentsAgree'
  BY <1>4 DEF MoveConstruct, TakeOver, TakeImpl, Rebind, ParentsAgree, Base, TypeOK
<1>5. ASSUME NEW dst \in Contexts, NEW src \in Contexts, MoveAssign(dst, src)
      PROVE  ParentsAgree'
  BY <1>5 DEF MoveAssign, TakeOver, TakeImpl, ParentsAgree, Base, TypeOK
<1>6. ASSUME UNCHANGED <<alive, impl, parent, arena>>
      PROVE  ParentsAgree'
  BY <1>6 DEF ParentsAgree, Base
<1>7. ASSUME NEW c \in Contexts, EndBuild(c) \/ Configure(c)
      PROVE  ParentsAgree'
  BY <1>6, <1>7
     DEF EndBuild, Configure, BuilderThrows, Refused, CompileThrows, Compiles, implVars
<1>8. ASSUME NEW c \in Contexts, NEW id \in Identifiers, NEW caller \in Callers \cup {Null},
             Hit(c, id, caller) \/ Miss(c, id) \/ Begin(c, id, caller) \/ Release(c, id)
      PROVE  ParentsAgree'
  BY <1>6, <1>8 DEF Hit, Miss, Begin, Release, implVars, ctxVars
<1>9. CASE UNCHANGED vars
  BY <1>6, <1>9 DEF vars, ctxVars, implVars
<1> QED
  BY <1>1, <1>2, <1>3, <1>4, <1>5, <1>7, <1>8, <1>9 DEF Next

\* What a successful compilation leaves in the code holder.
LEMMA HeldWhenCompiled ==
    ASSUME NEW held, NEW policy, NEW f \in Functions, NEW o \in Outcomes,
           CompiledModes(policy, f, o) # {}
    PROVE  LET h == HeldAfter(held, policy, f, o)
           IN  /\ Len(h) = 1
               /\ h[1].complete
               /\ h[1].function = f
               /\ f.scalar_only => h[1].mode = "scalar"
<1>1. PICK m \in CompiledModes(policy, f, o) : TRUE
  OBVIOUS
<1>2. ASSUME NEW g, NEW mode,
             HeldAfter(held, policy, f, o) = Emit(g, f, mode, TRUE),
             f.scalar_only => mode = "scalar"
      PROVE  LET h == HeldAfter(held, policy, f, o)
             IN  /\ Len(h) = 1
                 /\ h[1].complete
                 /\ h[1].function = f
                 /\ f.scalar_only => h[1].mode = "scalar"
  <2> DEFINE h == HeldAfter(held, policy, f, o)
  <2>1. Len(h) = 1 /\ h[1] = [function |-> f, mode |-> mode, complete |-> TRUE]
    BY <1>2 DEF Emit, reset
  <2>2. h[1].complete = TRUE /\ h[1].function = f /\ h[1].mode = mode
    BY <2>1
  <2> HIDE DEF h
  <2>3. /\ Len(h) = 1
        /\ h[1].complete
        /\ h[1].function = f
        /\ f.scalar_only => h[1].mode = "scalar"
    BY <1>2, <2>1, <2>2
  <2> QED
    BY <2>3 DEF h
<1>3. CASE m = "scalar"
  <2>1. TriesScalar(policy, f, o) /\ o.scalar = "ok"
    BY <1>1, <1>3 DEF CompiledModes
  <2>2. HeldAfter(held, policy, f, o)
          = Emit(HeldAfterVector(held, policy, f, o), f, "scalar", TRUE)
    BY <2>1 DEF HeldAfter, LowersScalar
  <2> QED
    BY <1>2, <2>2
<1>4. CASE m = "vector"
  <2>1. TriesVector(policy, f) /\ VectorResult(o) = "ok"
    BY <1>1, <1>4 DEF CompiledModes
  <2>2. ~ TriesScalar(policy, f, o)
    BY <2>1 DEF TriesScalar, TriesVector, FallsBack
  <2>3. o.vector.kind = "ok"
    BY <2>1 DEF VectorResult
  <2>4. o.vector \in VectorOutcomes
    BY DEF Outcomes
  <2>5. LowersVector(o)
    BY <2>3, <2>4 DEF VectorOutcomes, LowersVector
  <2>6. HeldAfter(held, policy, f, o) = Emit(held, f, "vector", TRUE)
    BY <2>1, <2>2, <2>3, <2>5 DEF HeldAfter, HeldAfterVector
  <2> QED
    BY <1>2, <2>1, <2>6 DEF TriesVector
<1> QED
  BY <1>1, <1>3, <1>4 DEF CompiledModes, Modes

\* A successful build, as the rest of the proof needs it.
LEMMA CompilesEffect ==
    ASSUME IInv, NEW c \in Contexts, NEW f \in Functions, NEW o \in Outcomes, Compiles(c, f, o)
    PROVE  \E a \in FreeAddresses, id \in Identifiers, pieces \in Seq(Piece) :
              /\ id = Current(c).identifier
              /\ ~ Find(impl[c], id)
              /\ impl[c] \in Impls
              /\ code' = [code EXCEPT ![a] = [owner |-> impl[c], pieces |-> pieces]]
              /\ funcs' = [funcs EXCEPT ![impl[c]][id] = [fn_ptr |-> a, args |-> f.args]]
              /\ handles' = handles \cup
                    {[context |-> c, identifier |-> id, address |-> a,
                      caller |-> Current(c).caller]}
              /\ typecheck_function(f.args, Current(c).caller)
              /\ Describes([fn_ptr |-> a, args |-> f.args],
                           [owner |-> impl[c], pieces |-> pieces])
              /\ UNCHANGED <<alive, impl>>
<1>1. ~ Idle(c) /\ impl[c] \in Impls /\ holder \in [Impls -> Seq(Piece)]
  BY DEF Compiles, IInv, Base, BusyIsUsable, Usable, TypeOK
<1>2. Current(c) \in Frame
  BY <1>1, FrameTypes DEF IInv, Base
<1>3. ~ Find(impl[c], Current(c).identifier)
  <2>1. Len(frames[c]) \in 1..Len(frames[c])
    BY <1>1, ReturnShrinks DEF IInv, Base
  <2> QED
    BY <2>1 DEF IInv, PendingIsUncached, Current
<1>4. holder'[impl[c]] = HeldAfter(holder[impl[c]], settings[c].policy, f, o)
  BY <1>1 DEF Compiles
<1>5. PICK a \in FreeAddresses :
         /\ code' = [code EXCEPT ![a] = [owner |-> impl[c], pieces |-> holder'[impl[c]]]]
         /\ funcs' = [funcs EXCEPT ![impl[c]][Current(c).identifier] =
                         [fn_ptr |-> a, args |-> f.args]]
         /\ handles' = handles \cup
               {[context |-> c, identifier |-> Current(c).identifier, address |-> a,
                 caller |-> Current(c).caller]}
  BY DEF Compiles
<1>6. CompiledModes(settings[c].policy, f, o) # {}
  BY DEF Compiles
<1>7. /\ Len(holder'[impl[c]]) = 1
      /\ holder'[impl[c]][1].complete
      /\ holder'[impl[c]][1].function = f
      /\ f.scalar_only => holder'[impl[c]][1].mode = "scalar"
  BY <1>4, <1>6, HeldWhenCompiled
<1>10. Describes([fn_ptr |-> a, args |-> f.args],
                 [owner |-> impl[c], pieces |-> holder'[impl[c]]])
  BY <1>7 DEF Describes
<1>8. typecheck_function(f.args, Current(c).caller) /\ UNCHANGED <<alive, impl>>
  BY DEF Compiles, Admits
<1>9. Current(c).identifier \in Identifiers /\ holder'[impl[c]] \in Seq(Piece)
  BY <1>1, <1>2, <1>4, HeldType DEF Frame
<1> QED
  BY <1>1, <1>3, <1>5, <1>8, <1>9, <1>10

-----------------------------------------------------------------------------
(* Code and records.                                                       *)

CodeInv == CacheOwnsItsCode /\ CodeMatchesItsRecord

LEMMA SameCode == ASSUME CodeInv, UNCHANGED <<funcs, code>> PROVE CodeInv'
<1>1. CacheOwnsItsCode'
  BY DEF CodeInv, CacheOwnsItsCode, Find, Live
<1>2. CodeMatchesItsRecord'
  BY DEF CodeInv, CodeMatchesItsRecord, Find
<1> QED
  BY <1>1, <1>2 DEF CodeInv

LEMMA SaveKeepsCode ==
    ASSUME IInv, NEW c \in Contexts, NEW f \in Functions, NEW o \in Outcomes, Compiles(c, f, o)
    PROVE  CodeInv'
<1> USE NullAssumption
<1>1. PICK a \in FreeAddresses, id \in Identifiers, pieces \in Seq(Piece) :
         /\ ~ Find(impl[c], id)
         /\ impl[c] \in Impls
         /\ code' = [code EXCEPT ![a] = [owner |-> impl[c], pieces |-> pieces]]
         /\ funcs' = [funcs EXCEPT ![impl[c]][id] = [fn_ptr |-> a, args |-> f.args]]
         /\ Describes([fn_ptr |-> a, args |-> f.args], [owner |-> impl[c], pieces |-> pieces])
  BY CompilesEffect
<1> DEFINE i == impl[c]
           k == [owner |-> i, pieces |-> pieces]
           r == [fn_ptr |-> a, args |-> f.args]
<1>2. /\ k \in Code /\ k # Null /\ k.owner = i /\ k.pieces = pieces
      /\ r \in FunctionRecord /\ r # Null /\ r.fn_ptr = a /\ r.args = f.args
      /\ a \in Addresses /\ code[a] = Null
  BY <1>1 DEF Code, FunctionRecord, FreeAddresses, Functions
<1>3. /\ code'[a] = k
      /\ \A b \in Addresses \ {a} : code'[b] = code[b]
      /\ funcs'[i][id] = r
      /\ \A j \in Impls, other \in Identifiers :
            ~ (j = i /\ other = id) => funcs'[j][other] = funcs[j][other]
  BY <1>1, <1>2 DEF IInv, Base, TypeOK
<1>4. i \in Impls /\ funcs[i][id] = Null
  BY <1>1 DEF Find
<1>5. Describes(r, k)
  BY <1>1
<1> HIDE DEF i, k, r
<1>6. \A j \in Impls, other \in Identifiers :
         Find(j, other) => funcs[j][other].fn_ptr \in Addresses \ {a}
  BY <1>2 DEF IInv, Base, TypeOK, CacheOwnsItsCode, Live, Find, FunctionRecord
<1>7. \A b \in Addresses \ {a} : Live(b) => code[b].owner \in Impls
  BY DEF IInv, Base, TypeOK, Live, Code
<1>8. CacheOwnsItsCode'
  <2>1. ASSUME NEW j \in Impls, NEW other \in Identifiers, Find(j, other)'
        PROVE  Live(funcs[j][other].fn_ptr)' /\ (code[funcs[j][other].fn_ptr].owner)' = j
    <3>1. CASE j = i /\ other = id
      BY <1>2, <1>3, <3>1 DEF Live
    <3>2. CASE ~ (j = i /\ other = id)
      BY <1>3, <1>6, <2>1, <3>2 DEF IInv, CacheOwnsItsCode, Live, Find
    <3> QED
      BY <3>1, <3>2
  <2>2. ASSUME NEW b \in Addresses, Live(b)'
        PROVE  \E x \in Identifiers :
                  /\ Find(code[b].owner, x)'
                  /\ (funcs[code[b].owner][x].fn_ptr = b)'
                  /\ \A other \in Identifiers :
                        Find(code[b].owner, other)' /\ (funcs[code[b].owner][other].fn_ptr = b)'
                            => other = x
    <3>1. CASE b = a
      BY <1>2, <1>3, <1>4, <1>6, <3>1 DEF Find
    <3>2. CASE b # a
      BY SMTT(30), <1>2, <1>3, <1>4, <1>7, <2>2, <3>2 DEF IInv, CacheOwnsItsCode, Live, Find
    <3> QED
      BY <3>1, <3>2
  <2> QED
    BY <2>1, <2>2 DEF CacheOwnsItsCode
<1>9. CodeMatchesItsRecord'
  <2> SUFFICES ASSUME NEW j \in Impls, NEW other \in Identifiers, Find(j, other)'
               PROVE  Describes(funcs'[j][other], code'[funcs'[j][other].fn_ptr])
    BY DEF CodeMatchesItsRecord
  <2>1. CASE j = i /\ other = id
    BY <1>2, <1>3, <1>5, <2>1
  <2>2. CASE ~ (j = i /\ other = id)
    BY <1>3, <1>6, <2>2 DEF IInv, CodeMatchesItsRecord, Find
  <2> QED
    BY <2>1, <2>2
<1> QED
  BY <1>8, <1>9 DEF CodeInv

LEMMA ReleaseKeepsCode ==
    ASSUME IInv, NEW c \in Contexts, NEW id \in Identifiers, Release(c, id)
    PROVE  CodeInv'
<1> USE NullAssumption
<1> DEFINE i == impl[c]
           a == funcs[i][id].fn_ptr
<1>1. /\ i \in Impls
      /\ Find(i, id)
      /\ a \in Addresses
      /\ code' = [code EXCEPT ![a] = Null]
      /\ funcs' = [funcs EXCEPT ![i][id] = Null]
  BY DEF Release, Usable, FreeCode, Erase, IInv, Base, TypeOK, Find, FunctionRecord
<1>2. Live(a) /\ code[a].owner = i
  BY <1>1 DEF IInv, CacheOwnsItsCode
<1>3. \A j \in Impls, other \in Identifiers :
         Find(j, other) /\ ~ (j = i /\ other = id) => funcs[j][other].fn_ptr # a
  <2>1. PICK only \in Identifiers :
           \A x \in Identifiers : Find(i, x) /\ funcs[i][x].fn_ptr = a => x = only
    BY <1>1, <1>2 DEF IInv, CacheOwnsItsCode
  <2>2. \A j \in Impls, other \in Identifiers :
           Find(j, other) => code[funcs[j][other].fn_ptr].owner = j
    BY DEF IInv, CacheOwnsItsCode
  <2>3. only = id
    BY <1>1, <2>1
  <2> HIDE DEF i, a
  <2> QED
    BY <1>2, <2>1, <2>2, <2>3
<1> HIDE DEF i, a
<1>4. /\ code'[a] = Null
      /\ \A b \in Addresses \ {a} : code'[b] = code[b]
      /\ funcs'[i][id] = Null
      /\ \A j \in Impls, other \in Identifiers :
            ~ (j = i /\ other = id) => funcs'[j][other] = funcs[j][other]
      /\ \A j \in Impls, other \in Identifiers :
            Find(j, other) => funcs[j][other].fn_ptr \in Addresses
      /\ \A b \in Addresses : Live(b) => code[b].owner \in Impls
  BY <1>1 DEF IInv, Base, TypeOK, Find, FunctionRecord, Live, Code
<1>5. funcs[i][id].fn_ptr = a
  BY DEF a, i
<1>6. CacheOwnsItsCode'
  <2>1. ASSUME NEW j \in Impls, NEW other \in Identifiers, Find(j, other)'
        PROVE  Live(funcs[j][other].fn_ptr)' /\ (code[funcs[j][other].fn_ptr].owner)' = j
    <3>1. ~ (j = i /\ other = id) /\ Find(j, other)
      BY <1>4, <2>1 DEF Find
    <3> QED
      BY <1>3, <1>4, <3>1 DEF IInv, CacheOwnsItsCode, Live
  <2>2. ASSUME NEW b \in Addresses, Live(b)'
        PROVE  \E x \in Identifiers :
                  /\ Find(code[b].owner, x)'
                  /\ (funcs[code[b].owner][x].fn_ptr = b)'
                  /\ \A other \in Identifiers :
                        Find(code[b].owner, other)' /\ (funcs[code[b].owner][other].fn_ptr = b)'
                            => other = x
    <3>1. b # a /\ code'[b] = code[b] /\ Live(b) /\ code[b].owner \in Impls
      BY <1>4, <2>2 DEF Live
    <3>2. PICK x \in Identifiers :
             /\ Find(code[b].owner, x)
             /\ funcs[code[b].owner][x].fn_ptr = b
             /\ \A other \in Identifiers :
                   Find(code[b].owner, other) /\ funcs[code[b].owner][other].fn_ptr = b
                       => other = x
      BY <3>1 DEF IInv, CacheOwnsItsCode
    <3>3. ~ (code[b].owner = i /\ x = id)
      BY <1>5, <3>1, <3>2
    <3>4. Find(code[b].owner, x)' /\ (funcs[code[b].owner][x].fn_ptr = b)'
      BY <1>4, <3>1, <3>2, <3>3 DEF Find
    <3>5. ASSUME NEW other \in Identifiers,
                 Find(code[b].owner, other)', (funcs[code[b].owner][other].fn_ptr = b)'
          PROVE  other = x
      BY <1>4, <3>1, <3>2, <3>5 DEF Find
    <3> QED
      BY <3>4, <3>5
  <2> QED
    BY <2>1, <2>2 DEF CacheOwnsItsCode
<1>7. CodeMatchesItsRecord'
  BY <1>3, <1>4 DEF IInv, CodeMatchesItsRecord, Find
<1> QED
  BY <1>6, <1>7 DEF CodeInv

LEMMA DeleteKeepsCode ==
    ASSUME IInv, NEW i, Delete(i)
    PROVE  CodeInv'
<1> USE NullAssumption
<1>1. /\ \A j \in Impls, id \in Identifiers :
            funcs'[j][id] = IF j = i THEN Null ELSE funcs[j][id]
      /\ \A a \in Addresses :
            code'[a] = IF Live(a) /\ code[a].owner = i THEN Null ELSE code[a]
      /\ \A j \in Impls, id \in Identifiers :
            Find(j, id) => funcs[j][id].fn_ptr \in Addresses
      /\ \A a \in Addresses : Live(a) => code[a].owner \in Impls
  BY DEF Delete, FuncsWithout, NoFunctions, CodeWithout, IInv, Base, TypeOK, Find, Live, Code,
         FunctionRecord
<1>2. CacheOwnsItsCode'
  BY SMTT(30), <1>1 DEF IInv, CacheOwnsItsCode, Live, Find
<1>3. CodeMatchesItsRecord'
  BY <1>1 DEF IInv, CacheOwnsItsCode, CodeMatchesItsRecord, Live, Find
<1> QED
  BY <1>2, <1>3 DEF CodeInv

LEMMA StepCode == IInv /\ [Next]_vars => CodeInv'
<1> SUFFICES ASSUME IInv, [Next]_vars
             PROVE  CodeInv'
  OBVIOUS
<1>1. CodeInv
  BY DEF IInv, CodeInv
<1>2. ASSUME NEW c \in Contexts, EndBuild(c)
      PROVE  CodeInv'
  BY <1>1, <1>2, SameCode, SaveKeepsCode
     DEF EndBuild, BuilderThrows, Refused, CompileThrows, implVars
<1>3. ASSUME NEW c \in Contexts, NEW id \in Identifiers, NEW caller \in Callers \cup {Null},
             Hit(c, id, caller) \/ Miss(c, id) \/ Begin(c, id, caller) \/ Release(c, id)
      PROVE  CodeInv'
  BY <1>1, <1>3, SameCode, ReleaseKeepsCode DEF Hit, Miss, Begin, implVars
<1>4. ASSUME NEW c \in Contexts, Construct(c) \/ Destroy(c) \/ Clear(c) \/ Configure(c)
      PROVE  CodeInv'
  BY <1>1, <1>4, SameCode, DeleteKeepsCode DEF Construct, Destroy, Clear, Configure, implVars
<1>5. ASSUME NEW dst \in Contexts, NEW src \in Contexts,
             MoveConstruct(dst, src) \/ MoveAssign(dst, src)
      PROVE  CodeInv'
  BY <1>1, <1>5, SameCode, DeleteKeepsCode DEF MoveConstruct, MoveAssign
<1>6. CASE UNCHANGED vars
  BY <1>1, <1>6, SameCode DEF vars, implVars
<1> QED
  BY <1>2, <1>3, <1>4, <1>5, <1>6 DEF Next

-----------------------------------------------------------------------------
(* Builds in progress hold identifiers of their own.                       *)

LEMMA SamePending ==
    ASSUME IInv, UNCHANGED frames,
           \A c \in Contexts : frames[c] # << >> => impl'[c] = impl[c],
           \A i \in Impls, id \in Identifiers : Find(i, id)' => Find(i, id)
    PROVE  PendingIsUncached'
<1>1. ASSUME NEW c \in Contexts, NEW n \in 1..Len(frames[c])
      PROVE  frames[c] # << >> /\ impl[c] \in Impls /\ frames[c][n].identifier \in Identifiers
  <2>1. frames[c] \in Seq(Frame)
    BY DEF IInv, Base, TypeOK
  <2>2. frames[c] # << >> /\ frames[c][n] \in Frame
    BY <2>1
  <2> QED
    BY <2>2 DEF Frame, IInv, Base, BusyIsUsable, Idle, Usable, TypeOK
<1> QED
  BY <1>1 DEF IInv, PendingIsUncached

LEMMA ReturnKeepsPending ==
    ASSUME IInv, NEW c \in Contexts, ~ Idle(c), frames' = Return(c), UNCHANGED impl,
           \A i \in Impls, id \in Identifiers : Find(i, id)' =>
               Find(i, id) \/ (i = impl[c] /\ id = Current(c).identifier)
    PROVE  PendingIsUncached'
<1> SUFFICES ASSUME NEW d \in Contexts, NEW n \in 1..Len(frames'[d])
             PROVE  /\ ~ Find(impl[d], frames[d][n].identifier)'
                    /\ \A m \in 1..Len(frames'[d]) :
                          frames'[d][m].identifier = frames'[d][n].identifier => m = n
  BY DEF PendingIsUncached
<1>1. /\ frames[d] \in Seq(Frame) /\ frames'[d] \in Seq(Frame) /\ frames[c] \in Seq(Frame)
  BY FrameTypes DEF IInv, Base, TypeOK
<1>2. /\ frames'[d][n].identifier = frames[d][n].identifier
      /\ n \in 1..Len(frames[d])
      /\ \A m \in 1..Len(frames'[d]) : m \in 1..Len(frames[d]) /\ frames'[d][m] = frames[d][m]
      /\ d = c => n # Len(frames[c])
  <2>1. CASE d = c
    <3>1. /\ Len(frames'[c]) = Len(frames[c]) - 1
          /\ \A m \in 1..Len(frames[c]) - 1 : frames'[c][m] = frames[c][m]
          /\ Len(frames[c]) \in Nat \ {0}
      BY ReturnShrinks DEF IInv, Base
    <3>2. /\ \A m \in 1..Len(frames'[c]) : m \in 1..Len(frames[c]) - 1
          /\ \A m \in 1..Len(frames[c]) - 1 : m \in 1..Len(frames[c]) /\ m # Len(frames[c])
      BY <3>1
    <3> QED
      BY <2>1, <3>1, <3>2
  <2>2. CASE d # c
    BY <2>2, <1>1, ReturnShrinks DEF IInv, Base
  <2> QED
    BY <2>1, <2>2
<1>3. /\ impl[d] \in Impls /\ impl[c] \in Impls /\ frames[d][n].identifier \in Identifiers
  <2>1. frames[d] # << >> /\ frames[d][n] \in Frame
    BY <1>1, <1>2
  <2> QED
    BY <2>1 DEF Frame, IInv, Base, BusyIsUsable, Idle, Usable, TypeOK
<1>4. d # c => impl[d] # impl[c]
  BY <1>3, NullAssumption DEF IInv, Base, ParentsAgree
<1>5. frames[d][n].identifier = Current(c).identifier => d # c
  <2>1. Len(frames[c]) \in 1..Len(frames[c])
    BY ReturnShrinks DEF IInv, Base
  <2> QED
    BY <1>2, <2>1 DEF IInv, PendingIsUncached, Current
<1>6. ~ Find(impl[d], frames[d][n].identifier)
  BY <1>2 DEF IInv, PendingIsUncached
<1>7. ~ Find(impl[d], frames[d][n].identifier)'
  BY <1>2, <1>3, <1>4, <1>5, <1>6
<1>8. \A m \in 1..Len(frames'[d]) :
         frames'[d][m].identifier = frames'[d][n].identifier => m = n
  BY <1>2 DEF IInv, PendingIsUncached
<1> QED
  BY <1>7, <1>8

LEMMA BeginKeepsPending ==
    ASSUME IInv, NEW c \in Contexts, NEW id \in Identifiers, NEW caller \in Callers \cup {Null},
           Begin(c, id, caller)
    PROVE  PendingIsUncached'
<1> DEFINE fr == [identifier |-> id, caller |-> caller, attempt |-> counters[c].attempts + 1]
<1>1. frames' = [frames EXCEPT ![c] = Append(@, fr)] /\ fr.identifier = id
  BY DEF Begin
<1> HIDE DEF fr
<1>2. frames[c] \in Seq(Frame)
  BY DEF IInv, Base, TypeOK
<1>3. /\ Len(frames'[c]) = Len(frames[c]) + 1
      /\ \A n \in 1..Len(frames[c]) : frames'[c][n] = frames[c][n]
      /\ frames'[c][Len(frames[c]) + 1].identifier = id
      /\ \A d \in Contexts \ {c} : frames'[d] = frames[d]
      /\ Len(frames[c]) \in Nat
  BY <1>1, <1>2 DEF IInv, Base, TypeOK
<1>4. /\ ~ Find(impl[c], id)
      /\ \A n \in 1..Len(frames[c]) : frames[c][n].identifier # id
      /\ UNCHANGED <<impl, funcs>>
  BY DEF Begin, implVars
<1>5. ASSUME NEW d \in Contexts, NEW n \in 1..Len(frames'[d])
      PROVE  /\ ~ Find(impl[d], frames[d][n].identifier)'
             /\ \A m \in 1..Len(frames'[d]) :
                   frames'[d][m].identifier = frames'[d][n].identifier => m = n
  <2>1. CASE d # c
    BY <1>3, <1>4, <1>5, <2>1 DEF IInv, PendingIsUncached, Find
  <2>2. CASE d = c
    <3>1. \A m \in 1..Len(frames'[c]) : m \in 1..Len(frames[c]) \/ m = Len(frames[c]) + 1
      BY <1>3
    <3>2. CASE n = Len(frames[c]) + 1
      <4>1. frames'[c][n].identifier = id
        BY <1>3, <3>2
      <4>2. \A m \in 1..Len(frames'[c]) : frames'[c][m].identifier = id => m = n
        BY <1>3, <1>4, <3>1, <3>2
      <4> QED
        BY <1>4, <2>2, <4>1, <4>2 DEF Find
    <3>3. CASE n \in 1..Len(frames[c])
      <4>1. /\ frames'[c][n] = frames[c][n]
            /\ frames[c][n].identifier # id
        BY <1>3, <1>4, <3>3
      <4>2. /\ ~ Find(impl[c], frames[c][n].identifier)
            /\ \A m \in 1..Len(frames[c]) :
                  frames[c][m].identifier = frames[c][n].identifier => m = n
        BY <3>3 DEF IInv, PendingIsUncached
      <4>3. ~ Find(impl[c], frames[c][n].identifier)'
        BY <1>4, <4>1, <4>2 DEF Find
      <4>4. ASSUME NEW m \in 1..Len(frames'[c]),
                   frames'[c][m].identifier = frames'[c][n].identifier
            PROVE  m = n
        BY <1>3, <3>1, <4>1, <4>2, <4>4
      <4> QED
        BY <2>2, <4>3, <4>4
    <3>4. n \in 1..Len(frames[c]) \/ n = Len(frames[c]) + 1
      BY <1>5, <2>2, <3>1
    <3> QED
      BY <3>2, <3>3, <3>4
  <2> QED
    BY <2>1, <2>2
<1> QED
  BY <1>5 DEF PendingIsUncached

LEMMA StepPending == IInv /\ [Next]_vars => PendingIsUncached'
<1> SUFFICES ASSUME IInv, [Next]_vars
             PROVE  PendingIsUncached'
  OBVIOUS
<1>1. ASSUME UNCHANGED <<funcs, frames, impl>>
      PROVE  PendingIsUncached'
  BY <1>1, SamePending DEF Find
<1>2. ASSUME NEW i, FuncsWithout(i) = funcs', UNCHANGED frames,
             \A c \in Contexts : frames[c] # << >> => impl'[c] = impl[c]
      PROVE  PendingIsUncached'
  <2>1. \A j \in Impls, id \in Identifiers : Find(j, id)' => Find(j, id)
    BY <1>2 DEF FuncsWithout, NoFunctions, Find
  <2> QED
    BY <1>2, <2>1, SamePending
<1>3. ASSUME NEW c \in Contexts, EndBuild(c)
      PROVE  PendingIsUncached'
  <2>1. /\ ~ Idle(c)
        /\ frames' = Return(c)
        /\ UNCHANGED impl
    BY <1>3 DEF EndBuild, BuilderThrows, Refused, CompileThrows, Compiles
  <2>2. \A i \in Impls, id \in Identifiers : Find(i, id)' =>
               Find(i, id) \/ (i = impl[c] /\ id = Current(c).identifier)
    <3>1. CASE UNCHANGED funcs
      BY <3>1 DEF Find
    <3>2. ASSUME NEW f \in Functions, NEW o \in Outcomes, Compiles(c, f, o)
          PROVE  \A i \in Impls, id \in Identifiers : Find(i, id)' =>
                    Find(i, id) \/ (i = impl[c] /\ id = Current(c).identifier)
      <4>1. PICK a \in FreeAddresses :
               funcs' = [funcs EXCEPT ![impl[c]][Current(c).identifier] =
                            [fn_ptr |-> a, args |-> f.args]]
        BY <3>2 DEF Compiles
      <4> QED
        BY <4>1 DEF Find, IInv, Base, TypeOK
    <3> QED
      BY <1>3, <3>1, <3>2 DEF EndBuild, BuilderThrows, Refused, CompileThrows, implVars
  <2> QED
    BY <2>1, <2>2, ReturnKeepsPending
<1>4. ASSUME NEW c \in Contexts, NEW id \in Identifiers, Release(c, id)
      PROVE  PendingIsUncached'
  <2>1. \A j \in Impls, other \in Identifiers : Find(j, other)' => Find(j, other)
    BY <1>4 DEF Release, Erase, Find, IInv, Base, TypeOK
  <2> QED
    BY <1>4, <2>1, SamePending DEF Release, ctxVars
<1>5. ASSUME NEW c \in Contexts, NEW id \in Identifiers, NEW caller \in Callers \cup {Null},
             Hit(c, id, caller) \/ Miss(c, id) \/ Begin(c, id, caller)
      PROVE  PendingIsUncached'
  BY <1>1, <1>5, BeginKeepsPending DEF Hit, Miss, implVars
<1>6. ASSUME NEW c \in Contexts, Construct(c) \/ Configure(c)
      PROVE  PendingIsUncached'
  <2>1. CASE Configure(c)
    BY <1>1, <2>1 DEF Configure, implVars
  <2>2. CASE Construct(c)
    <3>1. UNCHANGED <<frames, funcs>> /\ Idle(c) /\ \A d \in Contexts \ {c} : impl'[d] = impl[d]
      BY <2>2 DEF Construct, IInv, Base, BusyIsUsable, Usable, TypeOK
    <3> QED
      BY <3>1, SamePending DEF Idle, Find
  <2> QED
    BY <1>6, <2>1, <2>2
<1>7. ASSUME NEW c \in Contexts, Destroy(c) \/ Clear(c)
      PROVE  PendingIsUncached'
  <2>1. /\ Idle(c)
        /\ UNCHANGED frames
        /\ funcs' = FuncsWithout(impl[c])
        /\ \A d \in Contexts \ {c} : impl'[d] = impl[d]
    BY <1>7 DEF Destroy, Clear, Delete, IInv, Base, TypeOK
  <2> QED
    BY <1>2, <2>1 DEF Idle
<1>8. ASSUME NEW dst \in Contexts, NEW src \in Contexts,
             MoveConstruct(dst, src) \/ MoveAssign(dst, src)
      PROVE  PendingIsUncached'
  <2>1. /\ Idle(dst) /\ Idle(src)
        /\ UNCHANGED frames
        /\ \A d \in Contexts \ {dst, src} : impl'[d] = impl[d]
    BY <1>8 DEF MoveConstruct, MoveAssign, TakeOver, TakeImpl, IInv, Base, BusyIsUsable, Usable,
                TypeOK
  <2>2. funcs' = funcs \/ funcs' = FuncsWithout(impl[dst])
    BY <1>8 DEF MoveConstruct, MoveAssign, Delete
  <2>3. CASE funcs' = funcs
    BY <2>1, <2>3, SamePending DEF Idle, Find
  <2> QED
    BY <1>2, <2>1, <2>2, <2>3 DEF Idle
<1>9. CASE UNCHANGED vars
  BY <1>1, <1>9 DEF vars, ctxVars, implVars
<1> QED
  BY <1>3, <1>4, <1>5, <1>6, <1>7, <1>8, <1>9 DEF Next

-----------------------------------------------------------------------------
(* Pointers the client holds.                                              *)

\* h is honoured: its context caches its address under its identifier.
Honoured(h) ==
    /\ Usable(h.context)
    /\ Find(impl[h.context], h.identifier)
    /\ funcs[impl[h.context]][h.identifier].fn_ptr = h.address
    /\ Suits(funcs[impl[h.context]][h.identifier].args, h.caller)

\* What the type check lets through suits the caller.
LEMMA CheckedSuits ==
    ASSUME NEW args, NEW caller, typecheck_function(args, caller)
    PROVE  Suits(args, caller)
BY DEF typecheck_function, inner_kind, Suits, MayBePassed, ReadOnlyArrays

LEMMA HandlesAreHonoured == HandlesStayValid <=> \A h \in handles : Honoured(h)
BY DEF HandlesStayValid, Honoured

\* A pointer stays good as long as its context keeps its implementation and the
\* implementation its record.
LEMMA StaysHonoured ==
    ASSUME NEW h, Honoured(h),
           h.context \in alive', impl'[h.context] = impl[h.context],
           funcs'[impl[h.context]][h.identifier] = funcs[impl[h.context]][h.identifier]
    PROVE  Honoured(h)'
BY DEF Honoured, Usable, Find

LEMMA SameHandles ==
    ASSUME HandlesStayValid, UNCHANGED <<alive, impl, funcs, handles>>
    PROVE  HandlesStayValid'
BY DEF HandlesStayValid, Usable, Find

LEMMA HandleTypes ==
    ASSUME IInv, NEW h \in handles
    PROVE  /\ h \in Handle
           /\ h.context \in Contexts /\ h.identifier \in Identifiers
           /\ Honoured(h)
           /\ impl[h.context] \in Impls
           /\ h.context \in alive
           /\ \A c \in Contexts : impl[c] = impl[h.context] => c = h.context
<1>1. h \in Handle
  BY DEF IInv, Base, TypeOK
<1>2. Honoured(h)
  BY HandlesAreHonoured DEF IInv
<1>3. h.context \in Contexts /\ h.identifier \in Identifiers
  BY <1>1 DEF Handle
<1>4. impl[h.context] \in Impls /\ h.context \in alive
  BY <1>2, <1>3 DEF Honoured, Usable, IInv, Base, TypeOK
<1>5. \A c \in Contexts : impl[c] = impl[h.context] => c = h.context
  BY <1>3, <1>4, NullAssumption DEF IInv, Base, ParentsAgree
<1> QED
  BY <1>1, <1>2, <1>3, <1>4, <1>5

LEMMA HitKeepsHandles ==
    ASSUME IInv, NEW c \in Contexts, NEW id \in Identifiers, NEW caller \in Callers \cup {Null},
           Hit(c, id, caller)
    PROVE  HandlesStayValid'
<1> DEFINE new == [context |-> c, identifier |-> id,
                   address |-> funcs[impl[c]][id].fn_ptr, caller |-> caller]
<1>1. handles' = handles \cup {new} /\ UNCHANGED <<alive, impl, funcs>>
  BY DEF Hit, implVars
<1>2. Honoured(new)
  BY CheckedSuits DEF Hit, Honoured
<1> HIDE DEF new
<1>3. \A h \in handles' : Honoured(h)
  BY <1>1, <1>2, HandleTypes
<1>4. \A h \in handles' : Honoured(h)'
  BY <1>1, <1>3 DEF Honoured, Usable, Find
<1> QED
  BY <1>4, HandlesAreHonoured DEF HandlesStayValid, Honoured

LEMMA CompilesKeepsHandles ==
    ASSUME IInv, NEW c \in Contexts, NEW f \in Functions, NEW o \in Outcomes, Compiles(c, f, o)
    PROVE  HandlesStayValid'
<1>1. PICK a \in FreeAddresses, id \in Identifiers :
         /\ ~ Find(impl[c], id)
         /\ impl[c] \in Impls
         /\ funcs' = [funcs EXCEPT ![impl[c]][id] = [fn_ptr |-> a, args |-> f.args]]
         /\ handles' = handles \cup
               {[context |-> c, identifier |-> id, address |-> a, caller |-> Current(c).caller]}
         /\ typecheck_function(f.args, Current(c).caller)
         /\ UNCHANGED <<alive, impl>>
  BY ZenonT(60), CompilesEffect
<1> PICK new : new = [context |-> c, identifier |-> id, address |-> a,
                      caller |-> Current(c).caller]
  OBVIOUS
<1> DEFINE r == [fn_ptr |-> a, args |-> f.args]
<1>2. /\ new.context = c /\ new.identifier = id /\ new.address = a
      /\ new.caller = Current(c).caller
      /\ r.fn_ptr = a /\ r.args = f.args /\ r # Null
      /\ handles' = handles \cup {new}
  <2>1. r \in FunctionRecord
    BY DEF FunctionRecord, FreeAddresses, Functions
  <2> QED
    BY <1>1, <2>1, NullAssumption
<1>3. funcs'[impl[c]][id] = r
  BY <1>1 DEF IInv, Base, TypeOK
<1>4. \A j \in Impls, other \in Identifiers :
         ~ (j = impl[c] /\ other = id) => funcs'[j][other] = funcs[j][other]
  BY <1>1 DEF IInv, Base, TypeOK
<1>5. Usable(c)
  BY DEF Compiles, IInv, Base, BusyIsUsable
<1> HIDE DEF r
<1>6. Honoured(new)'
  <2>1. impl'[c] = impl[c] /\ c \in alive'
    BY <1>1, <1>5 DEF Usable
  <2>2. Suits(r.args, new.caller)
    BY <1>1, <1>2, CheckedSuits
  <2> QED
    BY <1>1, <1>2, <1>3, <1>5, <2>1, <2>2 DEF Honoured, Usable, Find
<1>7. ASSUME NEW h \in handles
      PROVE  Honoured(h)'
  <2>1. ~ (impl[h.context] = impl[c] /\ h.identifier = id)
    BY <1>1, HandleTypes DEF Honoured
  <2> QED
    BY <1>1, <1>4, <2>1, HandleTypes, StaysHonoured
<1>8. \A h \in handles' : Honoured(h)'
  BY <1>2, <1>6, <1>7
<1> QED
  BY <1>8 DEF HandlesStayValid, Honoured

LEMMA ReleaseKeepsHandles ==
    ASSUME IInv, NEW c \in Contexts, NEW id \in Identifiers, Release(c, id)
    PROVE  HandlesStayValid'
<1>1. /\ funcs' = [funcs EXCEPT ![impl[c]][id] = Null]
      /\ handles' = {h \in handles : ~ (h.context = c /\ h.identifier = id)}
      /\ UNCHANGED <<alive, impl>>
  BY DEF Release, Erase, Drop, ctxVars
<1>2. ASSUME NEW h \in handles'
      PROVE  Honoured(h)'
  <2>1. h \in handles /\ ~ (h.context = c /\ h.identifier = id)
    BY <1>1
  <2>2. funcs'[impl[h.context]][h.identifier] = funcs[impl[h.context]][h.identifier]
    <3>1. ~ (impl[h.context] = impl[c] /\ h.identifier = id)
      BY <2>1, HandleTypes
    <3>2. impl[h.context] \in Impls /\ h.identifier \in Identifiers
      BY <2>1, HandleTypes
    <3> QED
      BY <1>1, <3>1, <3>2 DEF IInv, Base, TypeOK
  <2> QED
    BY <1>1, <2>1, <2>2, HandleTypes, StaysHonoured
<1> QED
  BY <1>2 DEF HandlesStayValid, Honoured

LEMMA DeleteKeepsHandles ==
    ASSUME IInv, NEW c \in Contexts, Destroy(c) \/ Clear(c)
    PROVE  HandlesStayValid'
<1>1. /\ funcs' = FuncsWithout(impl[c])
      /\ handles' = DropAll(c)
      /\ \A d \in Contexts \ {c} : impl'[d] = impl[d] /\ (d \in alive => d \in alive')
  BY DEF Destroy, Clear, Delete, IInv, Base, TypeOK
<1>2. ASSUME NEW h \in handles'
      PROVE  Honoured(h)'
  <2>1. h \in handles /\ h.context # c
    BY <1>1 DEF DropAll
  <2>2. funcs'[impl[h.context]] = funcs[impl[h.context]]
    BY <1>1, <2>1, HandleTypes DEF FuncsWithout
  <2> QED
    BY <1>1, <2>1, <2>2, HandleTypes, StaysHonoured
<1> QED
  BY <1>2 DEF HandlesStayValid, Honoured

LEMMA ConstructKeepsHandles ==
    ASSUME IInv, NEW c \in Contexts, Construct(c)
    PROVE  HandlesStayValid'
<1>1. /\ UNCHANGED <<funcs, handles>>
      /\ c \notin alive
      /\ alive' = alive \cup {c}
      /\ \A d \in Contexts \ {c} : impl'[d] = impl[d]
  BY DEF Construct, IInv, Base, TypeOK
<1>2. ASSUME NEW h \in handles'
      PROVE  Honoured(h)'
  BY <1>1, <1>2, HandleTypes, StaysHonoured
<1> QED
  BY <1>2 DEF HandlesStayValid, Honoured

\* A move carries the pointers along with the implementation.
LEMMA MoveKeepsHandles ==
    ASSUME IInv, NEW dst \in Contexts, NEW src \in Contexts,
           MoveConstruct(dst, src) \/ MoveAssign(dst, src)
    PROVE  HandlesStayValid'
<1> DEFINE moved(h) == [h EXCEPT !.context = IF h.context = src THEN dst ELSE h.context]
<1>1. /\ handles' = {moved(h) : h \in DropAll(dst)}
      /\ dst # src
      /\ impl'[dst] = impl[src]
      /\ \A d \in Contexts \ {dst, src} : impl'[d] = impl[d]
      /\ dst \in alive'
      /\ alive \subseteq alive'
      /\ funcs' = funcs \/ funcs' = FuncsWithout(impl[dst])
  BY DEF MoveConstruct, MoveAssign, TakeOver, TakeImpl, Delete, IInv, Base, TypeOK
<1>2. ASSUME NEW h \in DropAll(dst)
      PROVE  Honoured(moved(h))'
  <2>1. h \in handles /\ h.context # dst
    BY DEF DropAll
  <2>2. /\ h \in Handle /\ Honoured(h) /\ impl[h.context] \in Impls
        /\ h.context \in Contexts /\ h.context \in alive
        /\ impl[h.context] # impl[dst]
    BY <2>1, HandleTypes
  <2>3. funcs'[impl[h.context]] = funcs[impl[h.context]]
    BY <1>1, <2>2 DEF FuncsWithout
  <2>4. /\ moved(h).context = IF h.context = src THEN dst ELSE h.context
        /\ moved(h).identifier = h.identifier
        /\ moved(h).address = h.address
        /\ moved(h).caller = h.caller
    BY <2>2 DEF Handle
  <2> HIDE DEF moved
  <2>5. impl'[moved(h).context] = impl[h.context] /\ moved(h).context \in alive'
    BY <1>1, <2>1, <2>2, <2>4
  <2> QED
    BY <2>2, <2>3, <2>4, <2>5 DEF Honoured, Usable, Find
<1> HIDE DEF moved
<1>3. \A h \in handles' : Honoured(h)'
  BY <1>1, <1>2
<1> QED
  BY <1>3 DEF HandlesStayValid, Honoured

LEMMA StepHandles == IInv /\ [Next]_vars => HandlesStayValid'
<1> SUFFICES ASSUME IInv, [Next]_vars
             PROVE  HandlesStayValid'
  OBVIOUS
<1>1. HandlesStayValid
  BY DEF IInv
<1>2. ASSUME NEW c \in Contexts, EndBuild(c)
      PROVE  HandlesStayValid'
  BY <1>1, <1>2, SameHandles, CompilesKeepsHandles
     DEF EndBuild, BuilderThrows, Refused, CompileThrows, implVars
<1>3. ASSUME NEW c \in Contexts, NEW id \in Identifiers, NEW caller \in Callers \cup {Null},
             Hit(c, id, caller) \/ Miss(c, id) \/ Begin(c, id, caller) \/ Release(c, id)
      PROVE  HandlesStayValid'
  BY <1>1, <1>3, SameHandles, HitKeepsHandles, ReleaseKeepsHandles DEF Miss, Begin, implVars
<1>4. ASSUME NEW c \in Contexts, Construct(c) \/ Destroy(c) \/ Clear(c) \/ Configure(c)
      PROVE  HandlesStayValid'
  BY <1>1, <1>4, SameHandles, ConstructKeepsHandles, DeleteKeepsHandles DEF Configure, implVars
<1>5. ASSUME NEW dst \in Contexts, NEW src \in Contexts,
             MoveConstruct(dst, src) \/ MoveAssign(dst, src)
      PROVE  HandlesStayValid'
  BY <1>5, MoveKeepsHandles
<1>6. CASE UNCHANGED vars
  BY <1>1, <1>6, SameHandles DEF vars, ctxVars, implVars
<1> QED
  BY <1>2, <1>3, <1>4, <1>5, <1>6 DEF Next

-----------------------------------------------------------------------------
(* The safety theorem.                                                     *)

LEMMA InitInv == Init => IInv
<1> SUFFICES ASSUME Init PROVE IInv
  OBVIOUS
<1>1. Base
  BY InitTypes DEF Init, Base, BusyIsUsable, Idle, ParentsAgree
<1>2. CacheOwnsItsCode /\ CodeMatchesItsRecord /\ HandlesStayValid
  BY DEF Init, CacheOwnsItsCode, CodeMatchesItsRecord, HandlesStayValid, Find, NoFunctions, Live
<1>3. PendingIsUncached
  BY DEF Init, PendingIsUncached
<1> QED
  BY <1>1, <1>2, <1>3 DEF IInv

LEMMA StepInv == IInv /\ [Next]_vars => IInv'
<1>1. IInv /\ [Next]_vars => Base'
  BY StepTypes, StepBusy, StepParents DEF IInv, Base
<1> QED
  BY <1>1, StepPending, StepCode, StepHandles DEF IInv, CodeInv

LEMMA Inductive == Spec => []IInv
BY InitInv, StepInv, PTL DEF Spec

\* The JIT runtime holds the code of the cached functions and nothing else: no
\* sequence of builds, failed builds, releases, clears and moves makes a record
\* point to freed or foreign code or leaves code behind that nothing frees.
THEOREM CodeIsOwned == Spec => []CacheOwnsItsCode
BY Inductive, PTL DEF IInv

\* Code is one complete function and its record describes it, whatever failed
\* or fell back before it was emitted.
THEOREM CodeIsDescribed == Spec => []CodeMatchesItsRecord
BY Inductive, PTL DEF IInv

\* A pointer the client was given stays good until the client gives it up.
THEOREM HandlesAreValid == Spec => []HandlesStayValid
BY Inductive, PTL DEF IInv

\* Owner and implementation point at each other after any moves and clears.
THEOREM ParentsAreRight == Spec => []ParentsAgree
BY Inductive, PTL DEF IInv, Base

-----------------------------------------------------------------------------
(* Statistics and the cache's limit, then the snapshot, then the library   *)
(* that the contexts implement. The invariant of the first two, besides    *)
(* what StatisticsAddUp says: a free implementation caches nothing, which  *)
(* is what makes a new or cleared context start from an empty cache, and   *)
(* the cached identifiers are finitely many even when the identifiers are  *)
(* not.                                                                    *)

Accounts(c) ==
    LET k == counters[c]
    IN  /\ k.attempts = k.successes + k.failures + Len(frames[c])
        /\ k.attempts <= k.misses
        /\ impl[c] # Null => Cardinality(Cached(impl[c])) <= k.successes

CachesAreFinite == \A i \in Impls : IsFiniteSet(Cached(i))
FreeImplsAreEmpty == \A i \in Impls : parent[i] = Null => Cached(i) = {}

SInv ==
    /\ CachesAreFinite
    /\ FreeImplsAreEmpty
    /\ StatisticsAddUp

LEMMA StatisticsAreAccounts == StatisticsAddUp <=> \A c \in alive : Accounts(c)
BY DEF StatisticsAddUp, Accounts

-----------------------------------------------------------------------------
(* What a step does to the cached identifiers.                             *)

LEMMA SameCached ==
    ASSUME NEW i, NEW j, funcs'[j] = funcs[i]
    PROVE  Cached(j)' = Cached(i)
BY DEF Cached, Find

LEMMA CompilesCached ==
    ASSUME IInv, NEW c \in Contexts, NEW f \in Functions, NEW o \in Outcomes, Compiles(c, f, o)
    PROVE  /\ impl[c] \in Impls
           /\ \A i \in Impls \ {impl[c]} : funcs'[i] = funcs[i] /\ Cached(i)' = Cached(i)
           /\ \E id \in Identifiers :
                 id \notin Cached(impl[c]) /\ Cached(impl[c])' = Cached(impl[c]) \cup {id}
<1>1. PICK a \in FreeAddresses, id \in Identifiers :
         /\ ~ Find(impl[c], id)
         /\ impl[c] \in Impls
         /\ funcs' = [funcs EXCEPT ![impl[c]][id] = [fn_ptr |-> a, args |-> f.args]]
         /\ handles' = handles \cup
               {[context |-> c, identifier |-> id, address |-> a, caller |-> Current(c).caller]}
         /\ typecheck_function(f.args, Current(c).caller)
         /\ UNCHANGED <<alive, impl>>
  BY ZenonT(60), CompilesEffect
<1>2. [fn_ptr |-> a, args |-> f.args] # Null
  <2>1. [fn_ptr |-> a, args |-> f.args] \in FunctionRecord
    BY DEF FunctionRecord, FreeAddresses, Functions
  <2> QED
    BY <2>1, NullAssumption
<1> DEFINE r == [fn_ptr |-> a, args |-> f.args]
<1> HIDE DEF r
<1>3. /\ \A i \in Impls \ {impl[c]} : funcs'[i] = funcs[i]
      /\ \A other \in Identifiers :
            funcs'[impl[c]][other] = IF other = id THEN r ELSE funcs[impl[c]][other]
  BY <1>1 DEF r, IInv, Base, TypeOK
<1>4. Cached(impl[c])' = Cached(impl[c]) \cup {id}
  BY <1>1, <1>2, <1>3 DEF Cached, Find, r
<1>5. id \notin Cached(impl[c])
  BY <1>1 DEF Cached
<1> QED
  BY <1>1, <1>3, <1>4, <1>5, SameCached

LEMMA ReleaseCached ==
    ASSUME IInv, NEW c \in Contexts, NEW id \in Identifiers, Release(c, id)
    PROVE  /\ impl[c] \in Impls
           /\ \A i \in Impls \ {impl[c]} : funcs'[i] = funcs[i] /\ Cached(i)' = Cached(i)
           /\ Cached(impl[c])' = Cached(impl[c]) \ {id}
<1>1. impl[c] \in Impls /\ impl' = impl
  BY DEF Release, Usable, ctxVars, IInv, Base, TypeOK
<1>2. /\ \A i \in Impls \ {impl[c]} : funcs'[i] = funcs[i]
      /\ \A other \in Identifiers :
            funcs'[impl[c]][other] = IF other = id THEN Null ELSE funcs[impl[c]][other]
  BY <1>1 DEF Release, Erase, IInv, Base, TypeOK
<1>3. Cached(impl[c])' = Cached(impl[c]) \ {id}
  BY <1>1, <1>2 DEF Cached, Find
<1> QED
  BY <1>1, <1>2, <1>3, SameCached

LEMMA DeleteCached ==
    ASSUME IInv, NEW i, funcs' = FuncsWithout(i)
    PROVE  \A j \in Impls : Cached(j)' = IF j = i THEN {} ELSE Cached(j)
<1>1. ASSUME NEW j \in Impls, j # i
      PROVE  Cached(j)' = Cached(j)
  BY <1>1, SameCached DEF FuncsWithout
<1>2. ASSUME NEW j \in Impls, j = i
      PROVE  Cached(j)' = {}
  BY <1>2 DEF FuncsWithout, Cached, Find, NoFunctions
<1> QED
  BY <1>1, <1>2

\* A context that is not there has no build in progress.
LEMMA AbsentIsIdle ==
    ASSUME IInv, NEW c \in Contexts, c \notin alive
    PROVE  frames[c] = << >>
BY DEF IInv, Base, BusyIsUsable, Idle, Usable

-----------------------------------------------------------------------------
(* Every step keeps the invariant.                                         *)

LEMMA SteadyCaches ==
    ASSUME SInv, UNCHANGED funcs, \A i \in Impls : parent'[i] = Null => parent[i] = Null
    PROVE  CachesAreFinite' /\ FreeImplsAreEmpty'
BY SameCached DEF SInv, CachesAreFinite, FreeImplsAreEmpty

\* An account carried over, to the same context or to another one.
LEMMA SameAccount ==
    ASSUME NEW c \in Contexts, NEW d \in Contexts, Accounts(d),
           counters'[c] = counters[d], frames'[c] = frames[d], impl'[c] = impl[d],
           impl[d] # Null => funcs'[impl[d]] = funcs[impl[d]]
    PROVE  Accounts(c)'
BY DEF Accounts, Cached, Find

LEMMA NewAccount ==
    ASSUME NEW c \in Contexts, counters'[c] = ZeroCounters, frames'[c] = << >>,
           impl'[c] # Null => Cached(impl[c])' = {}
    PROVE  Accounts(c)'
<1>1. impl'[c] # Null => Cardinality(Cached(impl[c]))' = 0
  BY FS_EmptySet
<1>2. Len(frames'[c]) = 0
  OBVIOUS
<1> QED
  BY <1>1, <1>2 DEF Accounts, ZeroCounters

\* The account of a context that ends a build, whether the build failed, which
\* leaves the cache alone, or succeeded, which adds one identifier to it.
LEMMA EndBuildAccount ==
    ASSUME IInv, SInv, NEW c \in Contexts, EndBuild(c)
    PROVE  SInv'
<1>1. /\ ~ Idle(c) /\ c \in alive /\ impl[c] \in Impls
      /\ frames' = Return(c) /\ UNCHANGED <<alive, impl, parent>>
  BY DEF EndBuild, BuilderThrows, Refused, CompileThrows, Compiles, implVars, IInv, Base,
         BusyIsUsable, Usable, TypeOK
<1>2. /\ Len(Return(c)[c]) = Len(frames[c]) - 1
      /\ \A d \in Contexts \ {c} : Return(c)[d] = frames[d]
      /\ Len(frames[c]) \in Nat
  BY <1>1, ReturnShrinks DEF IInv, Base
<1>3. /\ \A d \in alive : d \in Contexts /\ Accounts(d)
      /\ counters \in [Contexts -> Counters] /\ alive \subseteq Contexts
      /\ \A d \in Contexts \ {c} : impl[d] # Null => impl[d] \in Impls \ {impl[c]}
  BY <1>1, StatisticsAreAccounts, NullAssumption DEF SInv, IInv, Base, TypeOK, ParentsAgree
<1>4. IsFiniteSet(Cached(impl[c])) /\ Cardinality(Cached(impl[c])) \in Nat
  BY <1>1, FS_CardinalityType DEF SInv, CachesAreFinite
<1>5. CASE counters' = CountFailure(c) /\ UNCHANGED funcs
  <2>1. Accounts(c)'
    <3>1. /\ counters'[c].attempts = counters[c].attempts
          /\ counters'[c].misses = counters[c].misses
          /\ counters'[c].successes = counters[c].successes
          /\ counters'[c].failures = counters[c].failures + 1
          /\ counters[c] \in Counters
      BY <1>1, <1>3, <1>5 DEF CountFailure, Counters
    <3>2. Cached(impl[c])' = Cached(impl[c])
      BY <1>1, <1>5 DEF Cached, Find
    <3>3. Len(frames'[c]) = Len(frames[c]) - 1
      BY <1>1, <1>2
    <3> QED
      <4>1. /\ counters[c].attempts = counters[c].successes + counters[c].failures + Len(frames[c])
            /\ counters[c].attempts <= counters[c].misses
            /\ impl[c] # Null => Cardinality(Cached(impl[c])) <= counters[c].successes
        BY <1>1, <1>3 DEF Accounts
      <4>2. Cardinality(Cached(impl[c]))' = Cardinality(Cached(impl[c]))
        BY <3>2
      <4> QED
        BY SMTT(30), <1>1, <1>2, <3>1, <3>3, <4>1, <4>2 DEF Accounts, Counters
  <2>2. ASSUME NEW d \in alive \ {c}
        PROVE  Accounts(d)'
    <3>1. counters'[d] = counters[d]
      BY <1>3, <1>5 DEF CountFailure
    <3> QED
      BY <1>1, <1>2, <1>3, <1>5, <3>1, SameAccount
  <2>3. StatisticsAddUp'
    <3>1. \A d \in alive' : Accounts(d)'
      BY <1>1, <2>1, <2>2
    <3> QED
      BY <3>1 DEF StatisticsAddUp, Accounts
  <2> QED
    BY <1>1, <1>5, <2>3, SteadyCaches DEF SInv
<1>6. ASSUME NEW f \in Functions, NEW o \in Outcomes, Compiles(c, f, o)
      PROVE  SInv'
  <2>1. PICK id \in Identifiers :
           /\ id \notin Cached(impl[c])
           /\ Cached(impl[c])' = Cached(impl[c]) \cup {id}
    BY <1>6, CompilesCached
  <2>2. \A i \in Impls \ {impl[c]} : funcs'[i] = funcs[i] /\ Cached(i)' = Cached(i)
    BY <1>6, CompilesCached
  <2>3. /\ IsFiniteSet(Cached(impl[c])')
        /\ Cardinality(Cached(impl[c])') = Cardinality(Cached(impl[c])) + 1
    BY <1>4, <2>1, FS_AddElement
  <2>4. CachesAreFinite'
    BY <1>1, <2>2, <2>3 DEF SInv, CachesAreFinite
  <2>5. FreeImplsAreEmpty'
    BY <1>1, <2>2, NullAssumption DEF SInv, FreeImplsAreEmpty, IInv, Base, ParentsAgree
  <2>6. Accounts(c)'
    <3>1. /\ counters'[c].attempts = counters[c].attempts
          /\ counters'[c].misses = counters[c].misses
          /\ counters'[c].successes = counters[c].successes + 1
          /\ counters'[c].failures = counters[c].failures
          /\ counters[c] \in Counters
      BY <1>1, <1>3, <1>6 DEF Compiles, Counters
    <3>2. Cardinality(Cached(impl[c])') <= counters[c].successes + 1
      <4>1. Cardinality(Cached(impl[c])) <= counters[c].successes
        BY <1>1, <1>3, NullAssumption DEF Accounts
      <4>2. counters[c].successes \in Nat
        BY <3>1 DEF Counters
      <4> QED
        BY <1>4, <2>3, <4>1, <4>2
    <3>3. Len(frames'[c]) = Len(frames[c]) - 1
      BY <1>1, <1>2
    <3> QED
      BY <1>1, <1>2, <1>3, <3>1, <3>2, <3>3 DEF Accounts, Counters
  <2>7. ASSUME NEW d \in alive \ {c}
        PROVE  Accounts(d)'
    <3>1. counters'[d] = counters[d]
      BY <1>3, <1>6 DEF Compiles
    <3> QED
      BY <1>1, <1>2, <1>3, <2>2, <3>1, SameAccount
  <2>8. \A d \in alive' : Accounts(d)'
    BY <1>1, <2>6, <2>7
  <2> QED
    BY <2>4, <2>5, <2>8 DEF SInv, StatisticsAddUp, Accounts
<1> QED
  BY <1>5, <1>6 DEF EndBuild, BuilderThrows, Refused, CompileThrows, implVars

\* Lookups and the start of a build leave the caches alone.  A build adds an
\* attempt and the miss that led to it.
LEMMA LookupAccounts ==
    ASSUME IInv, SInv, NEW c \in Contexts, NEW id \in Identifiers,
           NEW caller \in Callers \cup {Null},
           Hit(c, id, caller) \/ Miss(c, id) \/ Begin(c, id, caller)
    PROVE  SInv'
<1>1. UNCHANGED <<alive, impl, funcs, parent>> /\ c \in alive
  BY DEF Hit, Miss, Begin, implVars, Usable
<1>2. /\ \A d \in alive : d \in Contexts /\ Accounts(d)
      /\ counters \in [Contexts -> Counters] /\ frames \in [Contexts -> Seq(Frame)]
  BY StatisticsAreAccounts DEF SInv, IInv, Base, TypeOK
<1>3. \A d \in Contexts \ {c} : counters'[d] = counters[d] /\ frames'[d] = frames[d]
  BY <1>2 DEF Hit, Miss, Begin
<1>4. /\ counters[c] \in Counters /\ frames[c] \in Seq(Frame)
      /\ counters[c].attempts = counters[c].successes + counters[c].failures + Len(frames[c])
      /\ counters[c].attempts <= counters[c].misses
      /\ impl[c] # Null => Cardinality(Cached(impl[c])) <= counters[c].successes
  BY <1>1, <1>2 DEF Accounts
<1>5. Accounts(c)'
  <2>1. /\ counters'[c].attempts =
              counters'[c].successes + counters'[c].failures + Len(frames'[c])
        /\ counters'[c].attempts <= counters'[c].misses
        /\ counters'[c].successes = counters[c].successes
    <3>1. CASE Hit(c, id, caller)
      BY <1>2, <1>4, <3>1 DEF Hit, Counters
    <3>2. CASE Miss(c, id)
      BY <1>2, <1>4, <3>2 DEF Miss, Counters
    <3>3. CASE Begin(c, id, caller)
      <4>1. /\ counters'[c].attempts = counters[c].attempts + 1
            /\ counters'[c].misses = counters[c].misses + 1
            /\ counters'[c].successes = counters[c].successes
            /\ counters'[c].failures = counters[c].failures
            /\ Len(frames'[c]) = Len(frames[c]) + 1
        BY <1>2, <1>4, <3>3 DEF Begin, Counters
      <4>2. /\ counters[c].attempts \in Nat /\ counters[c].misses \in Nat
            /\ counters[c].successes \in Nat /\ counters[c].failures \in Nat
            /\ Len(frames[c]) \in Nat
        BY <1>4 DEF Counters
      <4>3. /\ counters[c].attempts = counters[c].successes + counters[c].failures + Len(frames[c])
            /\ counters[c].attempts <= counters[c].misses
        BY <1>4
      <4>4. counters[c].attempts + 1 =
               counters[c].successes + counters[c].failures + (Len(frames[c]) + 1)
        <5>1. PICK k \in Nat, s \in Nat, f \in Nat, n \in Nat :
                 /\ k = counters[c].attempts
                 /\ s = counters[c].successes
                 /\ f = counters[c].failures
                 /\ n = Len(frames[c])
          BY <4>2
        <5>2. k = s + f + n
          BY <4>3, <5>1
        <5>3. k + 1 = s + f + (n + 1)
          BY <5>2
        <5> QED
          BY <5>1, <5>3
      <4>5. counters[c].attempts + 1 <= counters[c].misses + 1
        BY <4>2, <4>3
      <4> QED
        BY <4>1, <4>4, <4>5, Zenon
    <3> QED
      BY <3>1, <3>2, <3>3
  <2>2. Cardinality(Cached(impl[c]))' = Cardinality(Cached(impl[c]))
    BY <1>1 DEF Cached, Find
  <2> QED
    BY <1>1, <1>4, <2>1, <2>2 DEF Accounts
<1>6. \A d \in alive \ {c} : Accounts(d)'
  BY <1>1, <1>2, <1>3, SameAccount
<1>7. \A d \in alive' : Accounts(d)'
  BY <1>1, <1>5, <1>6
<1> QED
  BY <1>1, <1>7, SteadyCaches DEF SInv, StatisticsAddUp, Accounts

LEMMA ReleaseAccounts ==
    ASSUME IInv, SInv, NEW c \in Contexts, NEW id \in Identifiers, Release(c, id)
    PROVE  SInv'
<1>1. UNCHANGED <<alive, impl, counters, frames, parent>> /\ impl[c] \in Impls
  BY ReleaseCached DEF Release, ctxVars
<1>2. \A i \in Impls \ {impl[c]} : Cached(i)' = Cached(i)
  BY ReleaseCached
<1>3. Cached(impl[c])' = Cached(impl[c]) \ {id} /\ IsFiniteSet(Cached(impl[c]))
  BY <1>1, ReleaseCached DEF SInv, CachesAreFinite
<1>4. /\ IsFiniteSet(Cached(impl[c])')
      /\ Cardinality(Cached(impl[c])') \in Nat
      /\ Cardinality(Cached(impl[c])) \in Nat
      /\ Cardinality(Cached(impl[c])') <= Cardinality(Cached(impl[c]))
  BY <1>3, FS_RemoveElement, FS_CardinalityType
<1>5. CachesAreFinite'
  BY <1>2, <1>4, <1>1 DEF SInv, CachesAreFinite
<1>6. FreeImplsAreEmpty'
  BY <1>1, <1>2, <1>3 DEF SInv, FreeImplsAreEmpty
<1>7. ASSUME NEW d \in alive
      PROVE  Accounts(d)'
  <2>1. d \in Contexts /\ Accounts(d) /\ counters[d] \in Counters
    BY StatisticsAreAccounts DEF SInv, IInv, Base, TypeOK
  <2>2. CASE d = c
    <3>1. Cardinality(Cached(impl[c])) <= counters[c].successes
      BY <1>1, <2>1, <2>2, NullAssumption DEF Accounts
    <3>2. counters[c].successes \in Nat
      BY <2>1, <2>2 DEF Counters
    <3>3. Cardinality(Cached(impl[c])') <= counters[c].successes
      BY <1>4, <3>1, <3>2
    <3>4. Cardinality(Cached(impl[c]))' <= counters[c].successes
      BY <3>3
    <3> QED
      BY <1>1, <2>1, <2>2, <3>4 DEF Accounts
  <2>3. CASE d # c
    <3>1. impl[d] # Null => impl[d] \in Impls \ {impl[c]}
      BY <1>1, <2>1, <2>3, NullAssumption DEF IInv, Base, TypeOK, ParentsAgree
    <3>2. impl[d] # Null => Cached(impl[d])' = Cached(impl[d])
      BY <1>1, <1>2, <3>1
    <3> QED
      BY <1>1, <2>1, <3>2 DEF Accounts
  <2> QED
    BY <2>2, <2>3
<1>8. \A d \in alive' : Accounts(d)'
  BY <1>1, <1>7
<1> QED
  BY <1>5, <1>6, <1>8 DEF SInv, StatisticsAddUp, Accounts

\* A destroyed or cleared context loses its implementation; what it gets in
\* exchange caches nothing, like its counters say.
LEMMA DeleteAccounts ==
    ASSUME IInv, SInv, NEW c \in Contexts, Destroy(c) \/ Clear(c)
    PROVE  SInv'
<1>1. \A j \in Impls : Cached(j)' = IF j = impl[c] THEN {} ELSE Cached(j)
  BY DeleteCached DEF Destroy, Clear, Delete
<1>2. /\ impl \in [Contexts -> Impls \cup {Null}] /\ impl' \in [Contexts -> Impls \cup {Null}]
      /\ parent \in [Impls -> Contexts \cup {Null}]
      /\ frames[c] = << >> /\ UNCHANGED frames
  BY StepTypes DEF IInv, Base, TypeOK, Destroy, Clear, Idle, Next
<1>3. CachesAreFinite'
  BY <1>1, FS_EmptySet DEF SInv, CachesAreFinite
<1>4. \A i \in Impls : parent'[i] = Null => parent[i] = Null \/ i = impl[c]
  BY <1>2, NullAssumption DEF Destroy, Clear
<1>5. FreeImplsAreEmpty'
  BY <1>1, <1>4 DEF SInv, FreeImplsAreEmpty
<1>6. ASSUME NEW d \in alive \ {c}
      PROVE  Accounts(d)'
  <2>1. /\ d \in Contexts /\ Accounts(d)
        /\ counters'[d] = counters[d] /\ impl'[d] = impl[d]
    BY StatisticsAreAccounts DEF SInv, IInv, Base, TypeOK, Destroy, Clear
  <2>2. impl[d] # Null => impl[d] \in Impls /\ impl[d] # impl[c]
    BY <1>2, <2>1, NullAssumption DEF IInv, Base, ParentsAgree
  <2>3. impl[d] # Null => funcs'[impl[d]] = funcs[impl[d]]
    BY <2>2 DEF Destroy, Clear, Delete, FuncsWithout
  <2> QED
    BY <1>2, <2>1, <2>3, SameAccount
<1>7. ASSUME Clear(c)
      PROVE  Accounts(c)'
  <2>1. counters'[c] = ZeroCounters
    BY <1>7 DEF Clear, IInv, Base, TypeOK
  <2>2. impl'[c] # Null => impl'[c] \in Impls /\ (impl'[c] = impl[c] \/ parent[impl'[c]] = Null)
    BY <1>2, <1>7 DEF Clear, FreeImpls
  <2>3. impl'[c] # Null => Cached(impl[c])' = {}
    <3>1. impl'[c] # Null => \A id \in Identifiers : funcs'[impl'[c]][id] = Null
      BY <1>2, <1>7, <2>2 DEF Clear, Delete, FuncsWithout, NoFunctions, SInv, FreeImplsAreEmpty,
                              Cached, Find
    <3> QED
      BY <3>1 DEF Cached, Find
  <2> QED
    BY <1>2, <2>1, <2>3, NewAccount
<1>8. \A d \in alive' : Accounts(d)'
  BY <1>6, <1>7 DEF Destroy, Clear
<1> QED
  BY <1>3, <1>5, <1>8 DEF SInv, StatisticsAddUp, Accounts

LEMMA ConstructAccounts ==
    ASSUME IInv, SInv, NEW c \in Contexts, Construct(c)
    PROVE  SInv'
<1>1. PICK i \in FreeImpls :
         impl' = [impl EXCEPT ![c] = i] /\ parent' = [parent EXCEPT ![i] = c]
  BY DEF Construct
<1>2. /\ i \in Impls /\ parent[i] = Null /\ c \notin alive /\ alive' = alive \cup {c}
      /\ UNCHANGED <<frames, funcs>> /\ frames[c] = << >>
      /\ counters' = [counters EXCEPT ![c] = ZeroCounters]
  BY AbsentIsIdle DEF Construct, FreeImpls
<1>3. impl'[c] = i /\ counters'[c] = ZeroCounters
  BY <1>1, <1>2 DEF IInv, Base, TypeOK
<1>4. Cached(impl[c])' = {}
  BY <1>2, <1>3 DEF SInv, FreeImplsAreEmpty, Cached, Find
<1>5. Accounts(c)'
  BY <1>2, <1>3, <1>4, NewAccount
<1>6. ASSUME NEW d \in alive
      PROVE  Accounts(d)'
  <2>1. /\ d \in Contexts /\ Accounts(d)
        /\ counters'[d] = counters[d] /\ impl'[d] = impl[d]
    BY <1>1, <1>2, StatisticsAreAccounts DEF SInv, IInv, Base, TypeOK
  <2> QED
    BY <1>2, <2>1, SameAccount
<1>7. \A j \in Impls : parent'[j] = Null => parent[j] = Null
  BY <1>1, NullAssumption DEF IInv, Base, TypeOK
<1>8. \A d \in alive' : Accounts(d)'
  BY <1>2, <1>5, <1>6
<1> QED
  BY <1>2, <1>7, <1>8, SteadyCaches DEF SInv, StatisticsAddUp, Accounts

\* The counters move with the implementation they count for.  The source keeps
\* its own copy, which its missing cache cannot contradict.
LEMMA MoveAccounts ==
    ASSUME IInv, SInv, NEW dst \in Contexts, NEW src \in Contexts,
           MoveConstruct(dst, src) \/ MoveAssign(dst, src)
    PROVE  SInv'
<1>1. /\ dst # src /\ src \in alive
      /\ frames[src] = << >> /\ frames[dst] = << >> /\ UNCHANGED frames
      /\ impl' = [impl EXCEPT ![dst] = impl[src], ![src] = Null]
      /\ counters' = [counters EXCEPT ![dst] = counters[src]]
      /\ alive' = alive \cup {dst}
  BY AbsentIsIdle
     DEF MoveConstruct, MoveAssign, TakeOver, TakeImpl, TakeCounters, Idle, IInv, Base, TypeOK
<1>2. impl'[dst] = impl[src] /\ impl'[src] = Null /\ \A d \in Contexts \ {dst, src} : impl'[d] = impl[d]
  BY <1>1 DEF IInv, Base, TypeOK
<1>3. \A i \in Impls : Cached(i)' = Cached(i) \/ (i = impl[dst] /\ Cached(i)' = {})
  <2>1. CASE MoveConstruct(dst, src)
    BY <2>1, SameCached DEF MoveConstruct
  <2>2. CASE MoveAssign(dst, src)
    BY <2>2, DeleteCached DEF MoveAssign, Delete
  <2> QED
    BY <2>1, <2>2
<1>4. CachesAreFinite'
  BY <1>3, FS_EmptySet DEF SInv, CachesAreFinite
<1>5. FreeImplsAreEmpty'
  <2>1. CASE MoveConstruct(dst, src)
    <3>1. \A i \in Impls : parent'[i] = Null => parent[i] = Null
      BY <2>1, NullAssumption DEF MoveConstruct, Rebind, IInv, Base, TypeOK
    <3>2. UNCHANGED funcs
      BY <2>1 DEF MoveConstruct
    <3> QED
      BY <3>1, <3>2, SteadyCaches
  <2>2. CASE MoveAssign(dst, src)
    <3>1. \A i \in Impls : parent'[i] = Null => parent[i] = Null \/ i = impl[dst]
      BY <2>2, NullAssumption DEF MoveAssign
    <3>2. \A j \in Impls : Cached(j)' = IF j = impl[dst] THEN {} ELSE Cached(j)
      BY <2>2, DeleteCached DEF MoveAssign, Delete
    <3> QED
      BY <3>1, <3>2 DEF SInv, FreeImplsAreEmpty
  <2> QED
    BY <2>1, <2>2
<1>6. ASSUME NEW d \in Contexts, impl[d] # Null, d # dst
      PROVE  funcs'[impl[d]] = funcs[impl[d]]
  <2>1. impl[d] # impl[dst] /\ impl[d] \in Impls
    BY <1>6 DEF IInv, Base, TypeOK, ParentsAgree
  <2> QED
    BY <2>1 DEF MoveConstruct, MoveAssign, Delete, FuncsWithout
<1>7. \A d \in alive : d \in Contexts /\ Accounts(d)
  BY StatisticsAreAccounts DEF SInv, IInv, Base, TypeOK
<1>8. Accounts(dst)'
  <2>1. counters'[dst] = counters[src] /\ frames'[dst] = frames[src]
    BY <1>1 DEF IInv, Base, TypeOK
  <2> QED
    BY <1>1, <1>2, <1>6, <1>7, <2>1, SameAccount
<1>9. ASSUME NEW d \in alive \ {dst}
      PROVE  Accounts(d)'
  <2>1. d \in Contexts /\ Accounts(d) /\ counters'[d] = counters[d] /\ frames'[d] = frames[d]
    BY <1>1, <1>7 DEF IInv, Base, TypeOK
  <2>2. CASE d = src
    BY <1>2, <2>1, <2>2 DEF Accounts
  <2>3. CASE d # src
    BY <1>2, <1>6, <2>1, <2>3, SameAccount
  <2> QED
    BY <2>2, <2>3
<1>10. \A d \in alive' : Accounts(d)'
  BY <1>1, <1>8, <1>9
<1> QED
  BY <1>4, <1>5, <1>10 DEF SInv, StatisticsAddUp, Accounts

LEMMA StepAccounts == IInv /\ SInv /\ [Next]_vars => SInv'
<1> SUFFICES ASSUME IInv, SInv, [Next]_vars
             PROVE  SInv'
  OBVIOUS
<1>1. ASSUME UNCHANGED <<alive, impl, counters, frames, funcs, parent>>
      PROVE  SInv'
  <2>1. StatisticsAddUp'
    BY <1>1 DEF SInv, StatisticsAddUp, Cached, Find
  <2> QED
    BY <1>1, <2>1, SteadyCaches DEF SInv
<1>2. CASE UNCHANGED vars
  BY <1>1, <1>2 DEF implVars, vars, ctxVars
<1>3. ASSUME NEW c \in Contexts, Configure(c)
      PROVE  SInv'
  BY <1>1, <1>3 DEF implVars, Configure
<1>4. CASE Next
  BY <1>3, <1>4, EndBuildAccount, LookupAccounts, ReleaseAccounts, DeleteAccounts,
     ConstructAccounts, MoveAccounts DEF Next
<1> QED
  BY <1>2, <1>4

LEMMA InitAccounts == Init => SInv
<1> SUFFICES ASSUME Init PROVE SInv
  OBVIOUS
<1>1. \A i \in Impls : Cached(i) = {}
  BY DEF Init, Cached, Find, NoFunctions
<1>2. StatisticsAddUp
  BY DEF Init, StatisticsAddUp
<1> QED
  BY <1>1, <1>2, FS_EmptySet DEF SInv, CachesAreFinite, FreeImplsAreEmpty

LEMMA InductiveAccounts == Spec => [](IInv /\ SInv)
<1>1. Init => IInv /\ SInv
  BY InitInv, InitAccounts
<1>2. IInv /\ SInv /\ [Next]_vars => (IInv /\ SInv)'
  BY StepInv, StepAccounts
<1> QED
  BY <1>1, <1>2, PTL DEF Spec

\* Every attempt ends once, as a success or a failure, in the context that made
\* it; every attempt was a miss; and no context caches more functions than it
\* compiled, through nested and failed builds, moves, clears and releases.
THEOREM StatisticsAreRight == Spec => []StatisticsAddUp
BY InductiveAccounts, PTL DEF SInv

-----------------------------------------------------------------------------
(* The limit on cached functions.                                          *)

LEMMA RemovalShrinks ==
    ASSUME NEW S, NEW x, IsFiniteSet(S)
    PROVE  /\ IsFiniteSet(S \ {x})
           /\ Cardinality(S \ {x}) \in Nat
           /\ Cardinality(S \ {x}) <= Cardinality(S)
<1>1. IsFiniteSet(S \ {x})
  BY FS_RemoveElement
<1>2. Cardinality(S \ {x}) \in Nat /\ Cardinality(S) \in Nat
  BY <1>1, FS_CardinalityType
<1>3. Cardinality(S \ {x}) = IF x \in S THEN Cardinality(S) - 1 ELSE Cardinality(S)
  BY FS_RemoveElement
<1> QED
  BY <1>1, <1>2, <1>3

\* Only a compilation makes a cache larger, and it is turned down before that
\* when the cache is full under the settings in force.
LEMMA OnlyCompilesGrows ==
    ASSUME IInv, SInv, [Next]_vars, NEW c \in Contexts, impl[c] # Null, impl'[c] = impl[c],
           Cardinality(Cached(impl[c])) < Cardinality(Cached(impl[c])')
    PROVE  Cardinality(Cached(impl[c])') <= settings[c].limit
<1>1. /\ impl[c] \in Impls
      /\ IsFiniteSet(Cached(impl[c]))
      /\ Cardinality(Cached(impl[c])) \in Nat
  BY FS_CardinalityType DEF IInv, Base, TypeOK, SInv, CachesAreFinite
<1>2. ASSUME funcs'[impl[c]] = funcs[impl[c]]
      PROVE  FALSE
  <2>1. Cached(impl[c])' = Cached(impl[c])
    BY <1>2 DEF Cached, Find
  <2> QED
    BY <1>1, <2>1
<1>3. ASSUME Cached(impl[c])' = {}
      PROVE  FALSE
  BY <1>1, <1>3, FS_EmptySet
<1>4. ASSUME NEW i, funcs' = FuncsWithout(i)
      PROVE  FALSE
  <2>1. CASE i = impl[c]
    <3>1. Cached(impl[c])' = {}
      BY <1>1, <1>4, <2>1 DEF FuncsWithout, Cached, Find, NoFunctions
    <3> QED
      BY <1>3, <3>1
  <2>2. CASE i # impl[c]
    BY <1>1, <1>2, <1>4, <2>2 DEF FuncsWithout
  <2> QED
    BY <2>1, <2>2
<1>5. ASSUME NEW d \in Contexts, NEW f \in Functions, NEW o \in Outcomes, Compiles(d, f, o)
      PROVE  Cardinality(Cached(impl[c])') <= settings[c].limit
  <2>1. d = c
    <3>1. d # c => impl[c] # impl[d]
      BY <1>1, NullAssumption DEF IInv, Base, ParentsAgree
    <3> QED
      BY <1>1, <1>2, <1>5, <3>1, CompilesCached
  <2>2. PICK id \in Identifiers :
           /\ id \notin Cached(impl[c])
           /\ Cached(impl[c])' = Cached(impl[c]) \cup {id}
    BY <1>5, <2>1, CompilesCached
  <2>3. Cardinality(Cached(impl[c])') = Cardinality(Cached(impl[c])) + 1
    BY <1>1, <2>2, FS_AddElement
  <2>4. ~ (Cardinality(Cached(impl[c])) >= settings[c].limit)
    BY <1>5, <2>1 DEF Compiles, Admits, CacheFull
  <2>5. settings[c].limit \in Nat
    BY SettingsAssumption DEF IInv, Base, TypeOK, Settings
  <2> QED
    BY <1>1, <2>3, <2>4, <2>5
<1>6. ASSUME NEW d \in Contexts, NEW id \in Identifiers, Release(d, id)
      PROVE  FALSE
  <2>1. impl[c] # impl[d]
    <3>1. ASSUME impl[c] = impl[d]
          PROVE  FALSE
      <4>1. Cached(impl[c])' = Cached(impl[c]) \ {id}
        <5>1. \A other \in Identifiers :
                 funcs'[impl[c]][other] = IF other = id THEN Null ELSE funcs[impl[c]][other]
          BY <1>1, <1>6, <3>1 DEF Release, Erase, IInv, Base, TypeOK
        <5> QED
          BY <5>1 DEF Cached, Find
      <4>2. /\ Cardinality(Cached(impl[c])') \in Nat
            /\ Cardinality(Cached(impl[c])') <= Cardinality(Cached(impl[c]))
        BY <1>1, <4>1, RemovalShrinks
      <4> QED
        BY <1>1, <4>2
    <3> QED
      BY <3>1
  <2> QED
    BY <1>1, <1>2, <1>6, <2>1, ReleaseCached
<1>7. CASE UNCHANGED funcs
  BY <1>2, <1>7
<1>8. CASE Next
  <2>1. ASSUME NEW d \in Contexts, EndBuild(d)
        PROVE  Cardinality(Cached(impl[c])') <= settings[c].limit
    BY <1>5, <1>7, <2>1 DEF EndBuild, BuilderThrows, Refused, CompileThrows, implVars
  <2>2. ASSUME NEW d \in Contexts, Construct(d) \/ Destroy(d) \/ Clear(d) \/ Configure(d)
        PROVE  Cardinality(Cached(impl[c])') <= settings[c].limit
    BY <1>4, <1>7, <2>2 DEF Construct, Destroy, Clear, Configure, Delete, implVars
  <2>3. ASSUME NEW d \in Contexts, NEW id \in Identifiers, NEW caller \in Callers \cup {Null},
               Hit(d, id, caller) \/ Miss(d, id) \/ Begin(d, id, caller) \/ Release(d, id)
        PROVE  Cardinality(Cached(impl[c])') <= settings[c].limit
    BY <1>6, <1>7, <2>3 DEF Hit, Miss, Begin, implVars
  <2>4. ASSUME NEW dst \in Contexts, NEW src \in Contexts,
               MoveConstruct(dst, src) \/ MoveAssign(dst, src)
        PROVE  Cardinality(Cached(impl[c])') <= settings[c].limit
    BY <1>4, <1>7, <2>4 DEF MoveConstruct, MoveAssign, Delete
  <2> QED
    BY <1>8, <2>1, <2>2, <2>3, <2>4 DEF Next
<1>9. CASE UNCHANGED vars
  BY <1>7, <1>9 DEF vars, implVars
<1> QED
  BY <1>8, <1>9

\* No compilation takes a cache beyond the limit in force when it ends, however
\* often the builder lowered the limit or filled the cache while it ran.
THEOREM CacheStaysWithinLimit == Spec => CacheGrowsWithinLimit
<1>1. IInv /\ SInv /\ [Next]_vars =>
        [\A c \in Contexts :
            impl[c] # Null /\ impl'[c] = impl[c]
              /\ Cardinality(Cached(impl[c])) < Cardinality(Cached(impl[c])')
              => Cardinality(Cached(impl[c])') <= settings[c].limit]_vars
  BY OnlyCompilesGrows
<1> QED
  BY <1>1, InductiveAccounts, PTL DEF Spec, CacheGrowsWithinLimit

-----------------------------------------------------------------------------
(* The debug snapshot.  Invariant: the builds in progress of a context are *)
(* in the order of their attempts, and what the snapshot tells of is newer *)
(* than every one of them, because each cleared it when it began.          *)

Dated(fs, snap, total) ==
    /\ Names(snap) \subseteq 1..total
    /\ \A k \in 1..Len(fs) :
          /\ fs[k].attempt \in 1..total
          /\ \A n \in Names(snap) : fs[k].attempt < n
          /\ \A l \in 1..Len(fs) : k < l => fs[k].attempt < fs[l].attempt

DInv == \A c \in Contexts : Dated(frames[c], snapshot[c], counters[c].attempts)

LEMMA EmptyHasNoNames == Names(EmptySnapshot) = {}
BY DEF Names, EmptySnapshot, NotCaptured

LEMMA NoBuildIsDated ==
    ASSUME NEW fs, NEW gs, NEW snap, NEW total \in Nat, fs = << >>, gs = << >>
    PROVE  /\ Dated(fs, EmptySnapshot, total)
           /\ Dated(gs, snap, total) => Dated(fs, snap, total)
BY EmptyHasNoNames DEF Dated

\* A capture adds no name but that of its own attempt.
LEMMA CaptureNames ==
    ASSUME NEW snap \in DebugSnapshot, NEW n \in Nat, NEW s \in Settings,
           NEW f \in Functions, NEW o \in Outcomes
    PROVE  /\ Names(CaptureOnError(snap, n, s, o)) \subseteq Names(snap) \cup {n}
           /\ Names(CaptureOnSuccess(snap, n, s, o)) \subseteq Names(snap) \cup {n}
           /\ Names(EagerHir(snap, n, s)) \subseteq Names(snap) \cup {n}
           /\ Names(RecordFallback(snap, n, s, f, o)) \subseteq Names(snap) \cup {n}
<1>1. ASSUME NEW mode
      PROVE  [attempt |-> n, mode |-> mode].attempt = n
  OBVIOUS
<1>2. Names(capture_debug_information(snap, n, s, o)) \subseteq Names(snap) \cup {n}
  BY <1>1 DEF capture_debug_information, DebugSnapshot, Names
<1>3. /\ Names(EagerHir(snap, n, s)) \subseteq Names(snap) \cup {n}
      /\ Names(RecordFallback(snap, n, s, f, o)) \subseteq Names(snap) \cup {n}
  BY DEF EagerHir, RecordFallback, DebugSnapshot, Names
<1> QED
  BY <1>2, <1>3 DEF CaptureOnError, CaptureOnSuccess

\* A build that begins is the newest and clears the snapshot.
LEMMA PushDated ==
    ASSUME NEW fs \in Seq(Frame), NEW snap, NEW total \in Nat, Dated(fs, snap, total),
           NEW f \in Frame, f.attempt = total + 1
    PROVE  Dated(Append(fs, f), EmptySnapshot, total + 1)
<1> DEFINE gs == Append(fs, f)
<1>1. /\ Len(fs) \in Nat /\ Len(gs) = Len(fs) + 1
      /\ gs[Len(fs) + 1] = f
      /\ \A k \in 1..Len(fs) : gs[k] = fs[k]
  OBVIOUS
<1> HIDE DEF gs
<1>2. \A k \in 1..Len(gs) : k \in 1..Len(fs) \/ k = Len(fs) + 1
  BY <1>1
<1>3. \A k \in 1..Len(fs) : gs[k].attempt \in 1..total
  BY <1>1 DEF Dated
<1>4. \A k \in 1..Len(gs) : gs[k].attempt \in 1..(total + 1)
  BY <1>1, <1>2, <1>3
<1>5. \A k, l \in 1..Len(gs) : k < l => gs[k].attempt < gs[l].attempt
  <2> SUFFICES ASSUME NEW k \in 1..Len(gs), NEW l \in 1..Len(gs), k < l
               PROVE  gs[k].attempt < gs[l].attempt
    OBVIOUS
  <2>1. k \in 1..Len(fs)
    BY <1>1, <1>2
  <2>2. CASE l \in 1..Len(fs)
    BY <1>1, <2>1, <2>2 DEF Dated
  <2>3. CASE l = Len(fs) + 1
    BY <1>1, <1>3, <2>1, <2>3
  <2> QED
    BY <1>2, <2>2, <2>3
<1>6. Dated(gs, EmptySnapshot, total + 1)
  BY <1>4, <1>5, EmptyHasNoNames DEF Dated
<1> QED
  BY <1>6 DEF gs

\* A build that ends is newer than those it returns to.
LEMMA PopDated ==
    ASSUME NEW fs \in Seq(Frame), fs # << >>, NEW gs \in Seq(Frame), NEW snap, NEW total \in Nat,
           Dated(fs, snap, total), Len(gs) = Len(fs) - 1,
           \A k \in 1..Len(fs) - 1 : gs[k] = fs[k],
           NEW new, Names(new) \subseteq Names(snap) \cup {fs[Len(fs)].attempt}
    PROVE  Dated(gs, new, total) /\ Names(new) \subseteq fs[Len(fs)].attempt..total
<1> DEFINE last == Len(fs)
           n == fs[last].attempt
<1>1. last \in 1..Len(fs) /\ last \in Nat \ {0}
  OBVIOUS
<1>2. n \in 1..total /\ \A m \in Names(snap) : m \in 1..total /\ n < m
  BY <1>1 DEF Dated
<1>3. Names(new) \subseteq n..total /\ Names(new) \subseteq 1..total
  BY <1>2
<1>4. ASSUME NEW k \in 1..Len(gs)
      PROVE  /\ k \in 1..Len(fs) /\ gs[k] = fs[k] /\ k < last
             /\ fs[k].attempt \in 1..total /\ fs[k].attempt < n
  BY <1>1 DEF Dated
<1>5. ASSUME NEW k \in 1..Len(gs), NEW m \in Names(new)
      PROVE  gs[k].attempt < m
  <2> HIDE DEF n
  <2> QED
    BY <1>2, <1>3, <1>4
<1>6. ASSUME NEW k \in 1..Len(gs), NEW l \in 1..Len(gs), k < l
      PROVE  gs[k].attempt < gs[l].attempt
  BY <1>4, <1>6 DEF Dated
<1>7. \A k \in 1..Len(gs) : gs[k].attempt \in 1..total
  BY <1>4
<1>8. Dated(gs, new, total)
  BY <1>3, <1>5, <1>6, <1>7 DEF Dated
<1> QED
  BY <1>3, <1>8

\* What the end of a build leaves in the snapshot, however it ends.
LEMMA EndBuildSnapshot ==
    ASSUME IInv, NEW c \in Contexts, EndBuild(c)
    PROVE  \E snap \in DebugSnapshot :
              /\ snapshot' = [snapshot EXCEPT ![c] = snap]
              /\ Names(snap) \subseteq Names(snapshot[c]) \cup {Current(c).attempt}
<1>1. /\ ~ Idle(c) /\ Current(c) \in Frame
      /\ snapshot[c] \in DebugSnapshot /\ settings[c] \in Settings
      /\ snapshot \in [Contexts -> DebugSnapshot]
  BY FrameTypes DEF EndBuild, BuilderThrows, Refused, CompileThrows, Compiles, IInv, Base, TypeOK
<1> DEFINE n == Current(c).attempt
           s == settings[c]
           names == Names(snapshot[c]) \cup {n}
           eager == EagerHir(snapshot[c], n, s)
<1>2. n \in Nat
  BY <1>1 DEF Frame
<1>4. CASE BuilderThrows(c)
  <2>1. snapshot' = [snapshot EXCEPT ![c] = snapshot[c]]
    BY <1>1, <1>4 DEF BuilderThrows
  <2> QED
    BY <1>1, <2>1
<1>5. ASSUME NEW f \in Functions, NEW o \in Outcomes
      PROVE  LET snap == RecordFallback(eager, n, s, f, o)
             IN  /\ CaptureOnError(eager, n, s, o) \in DebugSnapshot
                 /\ CaptureOnError(snap, n, s, o) \in DebugSnapshot
                 /\ CaptureOnSuccess(snap, n, s, o) \in DebugSnapshot
                 /\ Names(CaptureOnError(eager, n, s, o)) \subseteq names
                 /\ Names(CaptureOnError(snap, n, s, o)) \subseteq names
                 /\ Names(CaptureOnSuccess(snap, n, s, o)) \subseteq names
  <2> HIDE DEF eager, n, s
  <2>1. n \in Nat /\ s \in Settings
    BY <1>1, <1>2 DEF s
  <2>2. eager \in DebugSnapshot /\ Names(eager) \subseteq names
    BY <1>1, <2>1, CaptureType, CaptureNames DEF eager
  <2>3. /\ RecordFallback(eager, n, s, f, o) \in DebugSnapshot
        /\ Names(RecordFallback(eager, n, s, f, o)) \subseteq names
    BY <2>1, <2>2, CaptureType, CaptureNames
  <2>4. \A snap \in DebugSnapshot : Names(snap) \subseteq names =>
           /\ CaptureOnError(snap, n, s, o) \in DebugSnapshot
           /\ CaptureOnSuccess(snap, n, s, o) \in DebugSnapshot
           /\ Names(CaptureOnError(snap, n, s, o)) \subseteq names
           /\ Names(CaptureOnSuccess(snap, n, s, o)) \subseteq names
    BY <2>1, CaptureType, CaptureNames
  <2> QED
    BY <2>2, <2>3, <2>4
<1>6. ASSUME NEW f \in Functions, NEW o \in Outcomes,
             Refused(c, f, o) \/ CompileThrows(c, f, o) \/ Compiles(c, f, o)
      PROVE  \E snap \in DebugSnapshot :
                /\ snapshot' = [snapshot EXCEPT ![c] = snap]
                /\ Names(snap) \subseteq names
  <2>1. CASE Refused(c, f, o)
    BY <1>5, <2>1 DEF Refused
  <2>2. CASE CompileThrows(c, f, o)
    BY <1>5, <2>2 DEF CompileThrows
  <2>3. CASE Compiles(c, f, o)
    BY <1>5, <2>3 DEF Compiles
  <2> QED
    BY <1>6, <2>1, <2>2, <2>3
<1> QED
  BY <1>4, <1>6 DEF EndBuild

LEMMA EndBuildDates ==
    ASSUME IInv, DInv, NEW c \in Contexts, EndBuild(c)
    PROVE  /\ DInv'
           /\ Names(snapshot'[c]) \subseteq Current(c).attempt..counters[c].attempts
           /\ \A d \in Contexts \ {c} : frames'[d] = frames[d]
<1>1. /\ ~ Idle(c) /\ frames' = Return(c)
      /\ \A d \in Contexts : counters'[d].attempts = counters[d].attempts
  <2>1. /\ ~ Idle(c) /\ frames' = Return(c)
        /\ \/ counters' = CountFailure(c)
           \/ counters' = [counters EXCEPT ![c].successes = @ + 1]
    BY DEF EndBuild, BuilderThrows, Refused, CompileThrows, Compiles
  <2>2. counters \in [Contexts -> Counters]
    BY DEF IInv, Base, TypeOK
  <2> QED
    BY <2>1, <2>2 DEF CountFailure, Counters
<1>2. PICK snap \in DebugSnapshot :
         /\ snapshot' = [snapshot EXCEPT ![c] = snap]
         /\ Names(snap) \subseteq Names(snapshot[c]) \cup {Current(c).attempt}
  BY EndBuildSnapshot
<1>3. /\ snapshot'[c] = snap
      /\ \A d \in Contexts \ {c} : snapshot'[d] = snapshot[d] /\ frames'[d] = frames[d]
  BY <1>1, <1>2, ReturnShrinks DEF IInv, Base, TypeOK
<1>4. /\ Dated(frames'[c], snap, counters[c].attempts)
      /\ Names(snap) \subseteq Current(c).attempt..counters[c].attempts
  <2>1. /\ frames[c] \in Seq(Frame) /\ frames[c] # << >> /\ frames'[c] \in Seq(Frame)
        /\ counters[c].attempts \in Nat
        /\ Len(frames'[c]) = Len(frames[c]) - 1
        /\ \A k \in 1..Len(frames[c]) - 1 : frames'[c][k] = frames[c][k]
    BY <1>1, FrameTypes, ReturnShrinks DEF IInv, Base, TypeOK, Idle, Counters
  <2>2. Dated(frames[c], snapshot[c], counters[c].attempts)
    BY DEF DInv
  <2> QED
    BY <1>2, <2>1, <2>2, PopDated DEF Current
<1>5. DInv'
  BY <1>1, <1>3, <1>4 DEF DInv
<1> QED
  BY <1>3, <1>4, <1>5

LEMMA BeginDates ==
    ASSUME IInv, DInv, NEW c \in Contexts, NEW id \in Identifiers,
           NEW caller \in Callers \cup {Null}, Begin(c, id, caller)
    PROVE  DInv' /\ \A d \in Contexts : ~ (Len(frames'[d]) < Len(frames[d]))
<1> DEFINE f == [identifier |-> id, caller |-> caller, attempt |-> counters[c].attempts + 1]
<1>1. /\ frames[c] \in Seq(Frame) /\ counters[c].attempts \in Nat
      /\ f \in Frame /\ f.attempt = counters[c].attempts + 1
  <2>1. frames[c] \in Seq(Frame) /\ counters[c].attempts \in Nat
    BY DEF IInv, Base, TypeOK, Counters
  <2>2. counters[c].attempts + 1 \in Nat
    BY <2>1
  <2> QED
    BY <2>1, <2>2 DEF Frame
<1>2. /\ frames'[c] = Append(frames[c], f)
      /\ counters'[c].attempts = counters[c].attempts + 1
      /\ snapshot'[c] = EmptySnapshot
      /\ \A d \in Contexts \ {c} :
            frames'[d] = frames[d] /\ snapshot'[d] = snapshot[d] /\ counters'[d] = counters[d]
  BY DEF Begin, ResetSnapshot, IInv, Base, TypeOK, Counters
<1> HIDE DEF f
<1>3. Dated(frames'[c], snapshot'[c], counters'[c].attempts)
  BY <1>1, <1>2, PushDated DEF DInv
<1>4. \A d \in Contexts : ~ (Len(frames'[d]) < Len(frames[d]))
  <2>1. \A d \in Contexts : Len(frames[d]) \in Nat
    BY DEF IInv, Base, TypeOK
  <2>2. Len(frames'[c]) = Len(frames[c]) + 1
    BY <1>1, <1>2
  <2> QED
    BY <1>2, <2>1, <2>2
<1>5. DInv'
  BY <1>2, <1>3 DEF DInv
<1> QED
  BY <1>4, <1>5

\* A context that is constructed, cleared or moved into or out of has no build in
\* progress, and takes its counters and its snapshot from one place.
LEMMA LifeDates ==
    ASSUME IInv, DInv, UNCHANGED frames,
           \A c \in Contexts :
              \/ counters'[c].attempts = counters[c].attempts /\ snapshot'[c] = snapshot[c]
              \/ /\ frames[c] = << >>
                 /\ Dated(<< >>, snapshot'[c], counters'[c].attempts)
    PROVE  DInv' /\ \A d \in Contexts : ~ (Len(frames'[d]) < Len(frames[d]))
<1>1. \A d \in Contexts : Len(frames[d]) \in Nat
  BY DEF IInv, Base, TypeOK
<1>2. DInv'
  BY DEF DInv
<1> QED
  BY <1>1, <1>2

\* What SnapshotIsOfLastAttempt says of a step.
EndsDated ==
    \A c \in Contexts :
        Len(frames'[c]) < Len(frames[c])
            => Names(snapshot'[c]) \subseteq Current(c).attempt..counters[c].attempts

LEMMA StepDates == IInv /\ DInv /\ [Next]_vars => DInv' /\ [EndsDated]_vars
<1> SUFFICES ASSUME IInv, DInv, [Next]_vars
             PROVE  DInv' /\ EndsDated
  OBVIOUS
<1>0. /\ \A d \in Contexts : counters[d].attempts \in Nat /\ Len(frames[d]) \in Nat
      /\ counters \in [Contexts -> Counters]
      /\ snapshot \in [Contexts -> DebugSnapshot]
  BY DEF IInv, Base, TypeOK, Counters
<1>1. ASSUME NEW c \in Contexts, NEW id \in Identifiers, NEW caller \in Callers \cup {Null},
             Hit(c, id, caller) \/ Miss(c, id) \/ Release(c, id)
      PROVE  DInv' /\ EndsDated
  <2>1. UNCHANGED <<snapshot, frames>>
    BY <1>1 DEF Hit, Miss, Release, ctxVars
  <2>2. \/ counters' = [counters EXCEPT ![c].hits = @ + 1]
        \/ counters' = [counters EXCEPT ![c].misses = @ + 1]
        \/ counters' = counters
    BY <1>1 DEF Hit, Miss, Release, ctxVars
  <2>3. \A d \in Contexts : counters'[d].attempts = counters[d].attempts
    BY <1>0, <2>2 DEF Counters
  <2> QED
    BY <2>1, <2>3, LifeDates DEF EndsDated
<1>2. ASSUME NEW c \in Contexts, Construct(c) \/ Clear(c)
      PROVE  DInv' /\ EndsDated
  <2>1. /\ UNCHANGED frames
        /\ frames[c] = << >>
        /\ snapshot'[c] = EmptySnapshot
        /\ counters'[c].attempts = 0
        /\ \A d \in Contexts \ {c} : snapshot'[d] = snapshot[d] /\ counters'[d] = counters[d]
    BY <1>0, <1>2, AbsentIsIdle DEF Construct, Clear, Idle, ZeroCounters
  <2>2. Dated(<< >>, snapshot'[c], counters'[c].attempts)
    BY <2>1, NoBuildIsDated
  <2> QED
    BY <2>1, <2>2, LifeDates DEF EndsDated
<1>3. ASSUME NEW c \in Contexts, Destroy(c) \/ Configure(c)
      PROVE  DInv' /\ EndsDated
  <2>1. UNCHANGED <<frames, snapshot, counters>>
    BY <1>3 DEF Destroy, Configure
  <2> QED
    BY <2>1, LifeDates DEF EndsDated
<1>4. ASSUME NEW dst \in Contexts, NEW src \in Contexts,
             MoveConstruct(dst, src) \/ MoveAssign(dst, src)
      PROVE  DInv' /\ EndsDated
  <2>1. /\ dst # src /\ frames[dst] = << >> /\ frames[src] = << >>
        /\ UNCHANGED frames
        /\ snapshot' = [snapshot EXCEPT ![dst] = snapshot[src], ![src] = EmptySnapshot]
        /\ counters' = [counters EXCEPT ![dst] = counters[src]]
    BY <1>4, AbsentIsIdle DEF MoveConstruct, MoveAssign, TakeOver, TakeCounters, Idle
  <2>2. /\ snapshot'[dst] = snapshot[src] /\ counters'[dst] = counters[src]
        /\ snapshot'[src] = EmptySnapshot /\ counters'[src] = counters[src]
        /\ \A d \in Contexts \ {dst, src} : snapshot'[d] = snapshot[d] /\ counters'[d] = counters[d]
    BY <1>0, <2>1
  <2>3. /\ Dated(<< >>, snapshot'[dst], counters'[dst].attempts)
        /\ Dated(<< >>, snapshot'[src], counters'[src].attempts)
    BY <1>0, <2>1, <2>2, NoBuildIsDated DEF DInv
  <2>4. \A c \in Contexts :
           \/ counters'[c].attempts = counters[c].attempts /\ snapshot'[c] = snapshot[c]
           \/ frames[c] = << >> /\ Dated(<< >>, snapshot'[c], counters'[c].attempts)
    BY <2>1, <2>2, <2>3
  <2> QED
    BY <2>1, <2>4, LifeDates DEF EndsDated
<1>5. ASSUME NEW c \in Contexts, EndBuild(c)
      PROVE  DInv' /\ EndsDated
  BY <1>0, <1>5, EndBuildDates DEF EndsDated
<1>6. CASE UNCHANGED vars
  <2>1. UNCHANGED <<frames, snapshot, counters>>
    BY <1>6 DEF vars, ctxVars
  <2> QED
    BY <2>1, LifeDates DEF EndsDated
<1>7. CASE Next
  BY <1>1, <1>2, <1>3, <1>4, <1>5, <1>7, BeginDates DEF Next, EndsDated
<1> QED
  BY <1>6, <1>7

\* "DebugSnapshot always contains the result of the most recent compilation
\* attempt" (jit.h): whatever builds ran before it, inside it or around it, and
\* whatever options were switched meanwhile, a build that ends leaves nothing in
\* the snapshot that an earlier build put there.
THEOREM SnapshotIsCurrent == Spec => SnapshotIsOfLastAttempt
<1>1. Init => IInv /\ DInv
  <2>1. ASSUME Init, NEW c \in Contexts
        PROVE  frames[c] = << >> /\ snapshot[c] = EmptySnapshot /\ counters[c].attempts = 0
    BY <2>1 DEF Init, ZeroCounters
  <2> QED
    BY <2>1, InitInv, NoBuildIsDated DEF DInv
<1>2. IInv /\ DInv /\ [Next]_vars => (IInv /\ DInv)'
  BY StepInv, StepDates
<1>3. IInv /\ DInv /\ [Next]_vars =>
        [\A c \in Contexts :
            Len(frames'[c]) < Len(frames[c])
                => Names(snapshot'[c]) \subseteq Current(c).attempt..counters[c].attempts]_vars
  BY StepDates DEF EndsDated
<1> QED
  BY <1>1, <1>2, <1>3, PTL DEF Spec, SnapshotIsOfLastAttempt

-----------------------------------------------------------------------------
(* The library: initial states map to initial states and every step maps   *)
(* to a step of FunctionLibrary or to none.                                *)

(* The mapped state.                                                       *)

KeptFunctions == [c \in Contexts |-> Kept(c)]

Promised(h) ==
    [context |-> h.context, identifier |-> h.identifier, function |-> RunsAt(h.address)]

Promises == {Promised(h) : h \in handles}

LEMMA ElementOfSeq == ASSUME NEW S, NEW s \in Seq(S), NEW n \in 1..Len(s) PROVE s[n] \in S
OBVIOUS

\* A cached function is found by a live address, which runs it.
LEMMA CachedRuns ==
    ASSUME IInv, NEW i \in Impls, NEW id \in Identifiers, Find(i, id)
    PROVE  /\ funcs[i][id].fn_ptr \in Addresses
           /\ code[funcs[i][id].fn_ptr] # Null
           /\ code[funcs[i][id].fn_ptr].owner = i
           /\ RunsAt(funcs[i][id].fn_ptr) \in Functions
           /\ RunsAt(funcs[i][id].fn_ptr) # Null
<1> DEFINE a == funcs[i][id].fn_ptr
<1>1. a \in Addresses /\ code[a] # Null /\ code[a].owner = i
  BY DEF IInv, Base, TypeOK, Find, FunctionRecord, CacheOwnsItsCode, Live
<1>2. code[a] \in Code
  BY <1>1 DEF IInv, Base, TypeOK
<1>3. Describes(funcs[i][id], code[a])
  BY DEF IInv, CodeMatchesItsRecord
<1> HIDE DEF a
<1>4. code[a].pieces \in Seq(Piece) /\ Len(code[a].pieces) = 1 /\ code[a].pieces[1].complete
  BY <1>2, <1>3 DEF Describes, Code
<1>5. code[a].pieces[1] \in Piece
  BY <1>4
<1>6. RunsAt(a) \in Functions
  BY <1>1, <1>4, <1>5 DEF RunsAt, Live, Piece
<1>7. RunsAt(a) # Null
  BY <1>6, NullAssumption
<1> QED
  BY <1>1, <1>6, <1>7 DEF a

\* Two cached functions never share an address.
LEMMA AddressesDiffer ==
    ASSUME IInv, NEW i \in Impls, NEW id \in Identifiers, Find(i, id),
           NEW j \in Impls, NEW other \in Identifiers, Find(j, other),
           funcs[i][id].fn_ptr = funcs[j][other].fn_ptr
    PROVE  i = j /\ id = other
<1>1. i = j
  BY CachedRuns
<1>2. funcs[i][id].fn_ptr \in Addresses /\ Live(funcs[i][id].fn_ptr)
  BY CachedRuns DEF Live
<1>3. id = other
  BY <1>1, <1>2, CachedRuns DEF IInv, CacheOwnsItsCode
<1> QED
  BY <1>1, <1>3

LEMMA KeptValue ==
    ASSUME IInv, NEW c \in Contexts, impl[c] # Null
    PROVE  /\ impl[c] \in Impls
           /\ \A id \in Identifiers :
                 Kept(c)[id] = IF Find(impl[c], id) THEN RunsAt(funcs[impl[c]][id].fn_ptr) ELSE Null
BY DEF Kept, IInv, Base, TypeOK

\* A context keeps what it kept when its implementation, the records in it and
\* the code they point to are the same.
LEMMA SameKept ==
    ASSUME IInv, NEW c \in Contexts, NEW d \in Contexts, impl'[c] = impl[d],
           impl[d] # Null =>
              \A id \in Identifiers :
                 /\ funcs'[impl[d]][id] = funcs[impl[d]][id]
                 /\ Find(impl[d], id) =>
                       code'[funcs[impl[d]][id].fn_ptr] = code[funcs[impl[d]][id].fn_ptr]
    PROVE  Kept(c)' = Kept(d)
<1>1. CASE impl[d] = Null
  BY <1>1 DEF Kept
<1>2. CASE impl[d] # Null
  <2>1. ASSUME NEW id \in Identifiers
        PROVE  Kept(c)'[id] = Kept(d)[id]
    <3>1. CASE ~ Find(impl[d], id)
      BY <1>2, <3>1 DEF Kept, Find
    <3>2. CASE Find(impl[d], id)
      <4> PICK a : a = funcs[impl[d]][id].fn_ptr
        OBVIOUS
      <4>1. code'[a] = code[a] /\ funcs'[impl[d]][id] = funcs[impl[d]][id]
        BY <1>2, <3>2
      <4>2. Kept(d)[id] = RunsAt(a)
        BY <1>2, <3>2 DEF Kept
      <4>3. RunsAt(a)' = RunsAt(a)
        BY <4>1 DEF RunsAt, Live
      <4>4. /\ impl'[c] # Null /\ funcs'[impl'[c]][id] # Null
            /\ funcs'[impl'[c]][id].fn_ptr = a
        BY <1>2, <3>2, <4>1 DEF Find
      <4>5. Kept(c)'[id] = RunsAt(a)'
        BY <4>4 DEF Kept, Find, RunsAt, Live
      <4> QED
        BY <4>2, <4>3, <4>5
    <3> QED
      BY <3>1, <3>2
  <2> QED
    BY <2>1 DEF Kept
<1> QED
  BY <1>1, <1>2

LEMMA SamePromise ==
    ASSUME NEW h, code'[h.address] = code[h.address]
    PROVE  Promised(h)' = Promised(h)
BY DEF Promised, RunsAt, Live

\* A pointer the client holds runs what its context keeps.
LEMMA HandleRuns ==
    ASSUME IInv, NEW h \in handles
    PROVE  /\ h.context \in Contexts /\ h.identifier \in Identifiers
           /\ impl[h.context] \in Impls
           /\ Find(impl[h.context], h.identifier)
           /\ funcs[impl[h.context]][h.identifier].fn_ptr = h.address
           /\ \A c \in Contexts : impl[c] = impl[h.context] => c = h.context
BY HandleTypes DEF Honoured

\* The same state of the library: nothing happened as far as it can tell.
LEMMA Stutters ==
    ASSUME IInv, UNCHANGED <<impl, funcs, code, handles>>
    PROVE  KeptFunctions' = KeptFunctions /\ Promises' = Promises
BY DEF KeptFunctions, Promises, Promised, Kept, Find, RunsAt, Live

-----------------------------------------------------------------------------
(* The steps.                                                              *)

LEMMA HitFinds ==
    ASSUME IInv, NEW c \in Contexts, NEW id \in Identifiers, NEW caller \in Callers \cup {Null},
           Hit(c, id, caller)
    PROVE  /\ Kept(c)[id] \in Functions
           /\ KeptFunctions' = KeptFunctions
           /\ Promises' = Promises \cup
                 {[context |-> c, identifier |-> id, function |-> Kept(c)[id]]}
<1> PICK new : new = [context |-> c, identifier |-> id,
                      address |-> funcs[impl[c]][id].fn_ptr, caller |-> caller]
  OBVIOUS
<1>1. /\ impl[c] # Null /\ Find(impl[c], id) /\ UNCHANGED <<impl, funcs, code>>
      /\ handles' = handles \cup {new}
  BY DEF Hit, Usable, implVars
<1>2. impl[c] \in Impls /\ Kept(c)[id] = RunsAt(funcs[impl[c]][id].fn_ptr)
  BY <1>1, KeptValue
<1>3. Kept(c)[id] \in Functions
  BY <1>1, <1>2, CachedRuns
<1>4. KeptFunctions' = KeptFunctions
  BY <1>1 DEF KeptFunctions, Kept, Find, RunsAt, Live
<1>5. \A h : Promised(h)' = Promised(h)
  BY <1>1 DEF Promised, RunsAt, Live
<1>6. Promised(new) = [context |-> c, identifier |-> id, function |-> Kept(c)[id]]
  BY <1>2 DEF Promised
<1>7. Promises' = Promises \cup {Promised(new)}
  BY <1>1, <1>5 DEF Promises
<1> QED
  BY <1>3, <1>4, <1>6, <1>7

LEMMA CompilesBuilds ==
    ASSUME IInv, NEW c \in Contexts, NEW f \in Functions, NEW o \in Outcomes, Compiles(c, f, o)
    PROVE  \E id \in Identifiers, g \in Functions :
              /\ Kept(c)[id] = Null
              /\ KeptFunctions' = [KeptFunctions EXCEPT ![c][id] = g]
              /\ Promises' = Promises \cup {[context |-> c, identifier |-> id, function |-> g]}
<1>1. PICK a \in FreeAddresses, id \in Identifiers, pieces \in Seq(Piece) :
         /\ id = Current(c).identifier
         /\ ~ Find(impl[c], id)
         /\ impl[c] \in Impls
         /\ code' = [code EXCEPT ![a] = [owner |-> impl[c], pieces |-> pieces]]
         /\ funcs' = [funcs EXCEPT ![impl[c]][id] = [fn_ptr |-> a, args |-> f.args]]
         /\ handles' = handles \cup
               {[context |-> c, identifier |-> id, address |-> a,
                 caller |-> Current(c).caller]}
         /\ typecheck_function(f.args, Current(c).caller)
         /\ Describes([fn_ptr |-> a, args |-> f.args],
                      [owner |-> impl[c], pieces |-> pieces])
         /\ UNCHANGED <<alive, impl>>
  BY CompilesEffect
<1> DEFINE r == [fn_ptr |-> a, args |-> f.args]
           k == [owner |-> impl[c], pieces |-> pieces]
           g == pieces[1].function
<1>2. /\ a \in Addresses /\ code[a] = Null /\ r.fn_ptr = a /\ r # Null /\ k # Null
      /\ k.pieces = pieces /\ impl[c] # Null
  BY <1>1, NullAssumption DEF FreeAddresses, FunctionRecord, Code, Functions
<1>3. Len(pieces) = 1 /\ pieces[1].complete /\ g \in Functions
  <2>1. Len(pieces) = 1 /\ pieces[1].complete
    BY <1>1, <1>2 DEF Describes
  <2>2. pieces[1] \in Piece
    <3>1. pieces \in Seq(Piece) /\ 1 \in 1..Len(pieces)
      BY <2>1
    <3> QED
      BY <3>1, ElementOfSeq
  <2> QED
    BY <2>1, <2>2 DEF Piece
<1> PICK new : new = [context |-> c, identifier |-> id, address |-> a, caller |-> Current(c).caller]
  OBVIOUS
<1>4. /\ code'[a] = k
      /\ \A b \in Addresses \ {a} : code'[b] = code[b]
      /\ funcs'[impl[c]][id] = r
      /\ \A j \in Impls, other \in Identifiers :
            ~ (j = impl[c] /\ other = id) => funcs'[j][other] = funcs[j][other]
      /\ handles' = handles \cup {new} /\ impl' = impl
      /\ ~ Find(impl[c], id) /\ impl[c] \in Impls
      /\ new.context = c /\ new.identifier = id /\ new.address = a
  BY <1>1, <1>2 DEF IInv, Base, TypeOK
<1> HIDE DEF r, k
<1>5. RunsAt(a)' = g
  BY <1>2, <1>3, <1>4 DEF RunsAt, Live
<1> HIDE DEF g
<1>6. \A j \in Impls, other \in Identifiers : Find(j, other) =>
         code'[funcs[j][other].fn_ptr] = code[funcs[j][other].fn_ptr]
  BY <1>2, <1>4, CachedRuns
<1>7. ASSUME NEW d \in Contexts, d # c
      PROVE  Kept(d)' = Kept(d)
  <2>1. impl[d] # Null => impl[d] \in Impls \ {impl[c]}
    BY <1>2, <1>7 DEF IInv, Base, TypeOK, ParentsAgree
  <2> QED
    BY <1>4, <1>6, <2>1, SameKept
<1>8. Kept(c)' = [Kept(c) EXCEPT ![id] = g]
  <2>1. ASSUME NEW other \in Identifiers, other # id
        PROVE  Kept(c)'[other] = Kept(c)[other]
    <3>1. funcs'[impl[c]][other] = funcs[impl[c]][other] /\ impl'[c] = impl[c]
      BY <1>4, <2>1
    <3>2. Find(impl[c], other) =>
             code'[funcs[impl[c]][other].fn_ptr] = code[funcs[impl[c]][other].fn_ptr]
      BY <1>4, <1>6
    <3> QED
      BY ZenonT(60), <3>1, <3>2 DEF Kept, Find, RunsAt, Live
  <2>2. Kept(c)'[id] = g
    BY <1>2, <1>4, <1>5 DEF Kept, Find, RunsAt, Live
  <2> QED
    BY <2>1, <2>2 DEF Kept
<1>9. Kept(c)[id] = Null
  BY <1>2, <1>4, KeptValue
<1>10. KeptFunctions' = [KeptFunctions EXCEPT ![c][id] = g]
  BY <1>7, <1>8 DEF KeptFunctions
<1>11. \A h \in handles : Promised(h)' = Promised(h)
  <2>1. ASSUME NEW h \in handles
        PROVE  code'[h.address] = code[h.address]
    BY <1>6, HandleRuns
  <2> QED
    BY <2>1, SamePromise
<1>12. Promised(new)' = [context |-> c, identifier |-> id, function |-> g]
  BY <1>4, <1>5 DEF Promised
<1>13. Promises' = Promises \cup {[context |-> c, identifier |-> id, function |-> g]}
  BY <1>4, <1>11, <1>12 DEF Promises
<1> QED
  BY <1>3, <1>9, <1>10, <1>13 DEF g

LEMMA ReleaseReleases ==
    ASSUME IInv, NEW c \in Contexts, NEW id \in Identifiers, Release(c, id)
    PROVE  /\ KeptFunctions' = [KeptFunctions EXCEPT ![c][id] = Null]
           /\ Promises' = {p \in Promises : ~ (p.context = c /\ p.identifier = id)}
<1> DEFINE a == funcs[impl[c]][id].fn_ptr
<1>1. /\ impl[c] \in Impls /\ impl[c] # Null /\ Find(impl[c], id) /\ impl' = impl
      /\ code' = [code EXCEPT ![a] = Null]
      /\ funcs' = [funcs EXCEPT ![impl[c]][id] = Null]
      /\ handles' = {h \in handles : ~ (h.context = c /\ h.identifier = id)}
  BY DEF Release, FreeCode, Erase, Drop, Usable, ctxVars, IInv, Base, TypeOK
<1>2. /\ \A b \in Addresses \ {a} : code'[b] = code[b]
      /\ funcs'[impl[c]][id] = Null
      /\ \A j \in Impls, other \in Identifiers :
            ~ (j = impl[c] /\ other = id) => funcs'[j][other] = funcs[j][other]
  BY <1>1 DEF IInv, Base, TypeOK
<1>3. ASSUME NEW j \in Impls, NEW other \in Identifiers, Find(j, other),
             ~ (j = impl[c] /\ other = id)
      PROVE  code'[funcs[j][other].fn_ptr] = code[funcs[j][other].fn_ptr]
  <2>1. funcs[j][other].fn_ptr \in Addresses /\ funcs[j][other].fn_ptr # a
    BY <1>1, <1>3, CachedRuns, AddressesDiffer
  <2> QED
    BY <1>2, <2>1
<1> HIDE DEF a
<1>4. ASSUME NEW d \in Contexts, d # c
      PROVE  Kept(d)' = Kept(d)
  <2>1. impl[d] # Null => impl[d] \in Impls \ {impl[c]}
    BY <1>1, <1>4 DEF IInv, Base, TypeOK, ParentsAgree
  <2> QED
    BY <1>1, <1>2, <1>3, <2>1, SameKept
<1>5. Kept(c)' = [Kept(c) EXCEPT ![id] = Null]
  <2>1. ASSUME NEW other \in Identifiers, other # id
        PROVE  Kept(c)'[other] = Kept(c)[other]
    <3>1. funcs'[impl[c]][other] = funcs[impl[c]][other] /\ impl'[c] = impl[c]
      BY <1>1, <1>2, <2>1
    <3>2. Find(impl[c], other) =>
             code'[funcs[impl[c]][other].fn_ptr] = code[funcs[impl[c]][other].fn_ptr]
      BY <1>1, <1>3, <2>1
    <3> QED
      BY ZenonT(60), <3>1, <3>2 DEF Kept, Find, RunsAt, Live
  <2>2. Kept(c)'[id] = Null
    BY <1>1, <1>2 DEF Kept, Find
  <2> QED
    BY <2>1, <2>2 DEF Kept
<1>6. KeptFunctions' = [KeptFunctions EXCEPT ![c][id] = Null]
  BY <1>4, <1>5 DEF KeptFunctions
<1>7. \A h \in handles' : Promised(h)' = Promised(h)
  <2>1. ASSUME NEW h \in handles'
        PROVE  code'[h.address] = code[h.address]
    <3>1. h \in handles /\ ~ (impl[h.context] = impl[c] /\ h.identifier = id)
      BY <1>1, HandleRuns
    <3> QED
      BY <1>3, <3>1, HandleRuns
  <2> QED
    BY <2>1, SamePromise
<1>8. \A h : Promised(h).context = h.context /\ Promised(h).identifier = h.identifier
  BY DEF Promised
<1>9. Promises' = {p \in Promises : ~ (p.context = c /\ p.identifier = id)}
  <2>1. Promises' = {Promised(h) : h \in handles'}
    BY <1>7 DEF Promises
  <2>2. ASSUME NEW p \in Promises'
        PROVE  p \in Promises /\ ~ (p.context = c /\ p.identifier = id)
    <3>1. PICK h \in handles' : p = Promised(h)
      BY <2>1
    <3>2. h \in handles /\ ~ (h.context = c /\ h.identifier = id)
      BY <1>1
    <3> QED
      BY <1>8, <3>1, <3>2 DEF Promises
  <2>3. ASSUME NEW p \in Promises, ~ (p.context = c /\ p.identifier = id)
        PROVE  p \in Promises'
    <3>1. PICK h \in handles : p = Promised(h)
      BY DEF Promises
    <3>2. h \in handles'
      BY <1>1, <1>8, <2>3, <3>1
    <3> QED
      BY <2>1, <3>1, <3>2
  <2> QED
    BY <2>2, <2>3
<1> QED
  BY <1>6, <1>9

\* A new or revived implementation is empty, as the library's context is.
LEMMA ConstructStutters ==
    ASSUME IInv, SInv, NEW c \in Contexts, Construct(c)
    PROVE  KeptFunctions' = KeptFunctions /\ Promises' = Promises
<1>1. PICK i \in FreeImpls : impl' = [impl EXCEPT ![c] = i]
  BY DEF Construct
<1>2. i \in Impls /\ parent[i] = Null /\ c \notin alive /\ UNCHANGED <<funcs, code, handles>>
  BY DEF Construct, FreeImpls
<1>3. impl[c] = Null /\ impl'[c] = i /\ \A d \in Contexts \ {c} : impl'[d] = impl[d]
  BY <1>1, <1>2 DEF IInv, Base, TypeOK, ParentsAgree
<1>4. \A id \in Identifiers : ~ Find(i, id)
  BY <1>2 DEF SInv, FreeImplsAreEmpty, Cached
<1>5. Kept(c)' = Kept(c)
  BY <1>2, <1>3, <1>4 DEF Kept, Find
<1>6. ASSUME NEW d \in Contexts, d # c
      PROVE  Kept(d)' = Kept(d)
  BY <1>2, <1>3, <1>6, SameKept
<1>7. Promises' = Promises
  BY <1>2 DEF Promises, Promised, RunsAt, Live
<1> QED
  BY <1>5, <1>6, <1>7 DEF KeptFunctions

\* What the deletion of an implementation leaves alone.
LEMMA DeleteSpares ==
    ASSUME IInv, NEW c \in Contexts, Delete(impl[c]), NEW j \in Impls, j # impl[c]
    PROVE  \A id \in Identifiers :
              /\ funcs'[j][id] = funcs[j][id]
              /\ Find(j, id) => code'[funcs[j][id].fn_ptr] = code[funcs[j][id].fn_ptr]
<1>1. funcs'[j] = funcs[j]
  BY DEF Delete, FuncsWithout
<1>2. ASSUME NEW id \in Identifiers, Find(j, id)
      PROVE  code'[funcs[j][id].fn_ptr] = code[funcs[j][id].fn_ptr]
  <2>1. funcs[j][id].fn_ptr \in Addresses /\ code[funcs[j][id].fn_ptr].owner # impl[c]
    BY <1>2, CachedRuns
  <2> QED
    BY <2>1 DEF Delete, CodeWithout
<1> QED
  BY <1>1, <1>2

LEMMA DeleteForgets ==
    ASSUME IInv, SInv, NEW c \in Contexts, Destroy(c) \/ Clear(c)
    PROVE  /\ KeptFunctions' = [KeptFunctions EXCEPT ![c] = [id \in Identifiers |-> Null]]
           /\ Promises' = {p \in Promises : p.context # c}
<1>1. /\ Delete(impl[c])
      /\ handles' = {h \in handles : h.context # c}
      /\ \A d \in Contexts \ {c} : impl'[d] = impl[d]
  BY DEF Destroy, Clear, DropAll, IInv, Base, TypeOK
<1>2. Kept(c)' = [id \in Identifiers |-> Null]
  <2>1. \A i \in Impls : impl'[c] = i => \A id \in Identifiers : funcs'[i][id] = Null
    <3>1. \A i \in Impls : impl'[c] = i => i = impl[c] \/ parent[i] = Null
      BY NullAssumption DEF Destroy, Clear, FreeImpls, IInv, Base, TypeOK
    <3>2. \A i \in Impls : i = impl[c] => \A id \in Identifiers : funcs'[i][id] = Null
      BY <1>1 DEF Delete, FuncsWithout, NoFunctions
    <3>3. ASSUME NEW i \in Impls, parent[i] = Null, NEW id \in Identifiers
          PROVE  funcs'[i][id] = Null
      BY <1>1, <3>2, <3>3 DEF Delete, FuncsWithout, SInv, FreeImplsAreEmpty, Cached, Find
    <3> QED
      BY <3>1, <3>2, <3>3
  <2>2. impl'[c] \in Impls \cup {Null}
    BY DEF Destroy, Clear, FreeImpls, IInv, Base, TypeOK
  <2> QED
    BY <2>1, <2>2 DEF Kept, Find
<1>3. ASSUME NEW d \in Contexts, d # c
      PROVE  Kept(d)' = Kept(d)
  <2>1. impl[d] # Null => impl[d] \in Impls /\ impl[d] # impl[c]
    BY <1>3 DEF IInv, Base, TypeOK, ParentsAgree
  <2> QED
    BY <1>1, <1>3, <2>1, DeleteSpares, SameKept
<1>4. KeptFunctions' = [KeptFunctions EXCEPT ![c] = [id \in Identifiers |-> Null]]
  BY <1>2, <1>3 DEF KeptFunctions
<1>5. \A h \in handles' : Promised(h)' = Promised(h)
  <2>1. ASSUME NEW h \in handles'
        PROVE  code'[h.address] = code[h.address]
    <3>1. h \in handles /\ impl[h.context] # impl[c]
      BY <1>1, HandleRuns
    <3> QED
      BY <1>1, <3>1, HandleRuns, DeleteSpares
  <2> QED
    BY <2>1, SamePromise
<1>6. \A h : Promised(h).context = h.context
  BY DEF Promised
<1>7. Promises' = {p \in Promises : p.context # c}
  <2>1. Promises' = {Promised(h) : h \in handles'}
    BY <1>5 DEF Promises
  <2> QED
    BY <1>1, <1>6, <2>1 DEF Promises
<1> QED
  BY <1>4, <1>7

\* A move carries what is kept and what is promised from one context to the other.
LEMMA MoveMoves ==
    ASSUME IInv, NEW dst \in Contexts, NEW src \in Contexts,
           MoveConstruct(dst, src) \/ MoveAssign(dst, src)
    PROVE  /\ dst # src
           /\ KeptFunctions' = [KeptFunctions EXCEPT
                 ![dst] = KeptFunctions[src], ![src] = [id \in Identifiers |-> Null]]
           /\ Promises' =
                 {[p EXCEPT !.context = IF p.context = src THEN dst ELSE p.context] :
                     p \in {q \in Promises : q.context # dst}}
<1> DEFINE moved(h) == [h EXCEPT !.context = IF h.context = src THEN dst ELSE h.context]
<1>1. /\ handles' = {moved(h) : h \in DropAll(dst)}
      /\ dst # src
      /\ impl' = [impl EXCEPT ![dst] = impl[src], ![src] = Null]
      /\ UNCHANGED <<funcs, code>> \/ Delete(impl[dst])
  BY DEF MoveConstruct, MoveAssign, TakeOver, TakeImpl
<1>2. /\ impl'[dst] = impl[src] /\ impl'[src] = Null
      /\ \A d \in Contexts \ {dst, src} : impl'[d] = impl[d]
  BY <1>1 DEF IInv, Base, TypeOK
<1>3. ASSUME NEW d \in Contexts, d # dst, impl[d] # Null
      PROVE  \A id \in Identifiers :
                /\ funcs'[impl[d]][id] = funcs[impl[d]][id]
                /\ Find(impl[d], id) =>
                      code'[funcs[impl[d]][id].fn_ptr] = code[funcs[impl[d]][id].fn_ptr]
  <2>1. impl[d] \in Impls /\ impl[d] # impl[dst]
    BY <1>3 DEF IInv, Base, TypeOK, ParentsAgree
  <2> QED
    BY <1>1, <2>1, DeleteSpares
<1>4. Kept(dst)' = Kept(src)
  BY <1>1, <1>2, <1>3, SameKept
<1>5. Kept(src)' = [id \in Identifiers |-> Null]
  BY <1>2 DEF Kept
<1>6. ASSUME NEW d \in Contexts \ {dst, src}
      PROVE  Kept(d)' = Kept(d)
  BY <1>2, <1>3, SameKept
<1>7. KeptFunctions' = [KeptFunctions EXCEPT
         ![dst] = KeptFunctions[src], ![src] = [id \in Identifiers |-> Null]]
  BY <1>1, <1>4, <1>5, <1>6 DEF KeptFunctions
<1>8. ASSUME NEW h \in DropAll(dst)
      PROVE  Promised(moved(h))' =
                [Promised(h) EXCEPT !.context = IF h.context = src THEN dst ELSE h.context]
  <2>1. h \in handles /\ h.context # dst /\ h \in Handle
    BY DEF DropAll, IInv, Base, TypeOK
  <2>2. /\ moved(h).context = IF h.context = src THEN dst ELSE h.context
        /\ moved(h).identifier = h.identifier
        /\ moved(h).address = h.address
    BY <2>1 DEF Handle
  <2>3. code'[h.address] = code[h.address]
    <3>1. h.context \in Contexts /\ impl[h.context] # Null
      BY <2>1, HandleRuns, NullAssumption
    <3> QED
      BY <1>3, <2>1, <3>1, HandleRuns
  <2>4. RunsAt(h.address)' = RunsAt(h.address)
    BY <2>3 DEF RunsAt, Live
  <2> HIDE DEF moved
  <2>5. Promised(moved(h))' =
           [context |-> IF h.context = src THEN dst ELSE h.context,
            identifier |-> h.identifier, function |-> RunsAt(h.address)]
    BY <2>2, <2>4 DEF Promised
  <2> QED
    BY <2>5 DEF Promised
<1> DEFINE carried(p) == [p EXCEPT !.context = IF p.context = src THEN dst ELSE p.context]
<1>9. \A h \in DropAll(dst) : Promised(moved(h))' = carried(Promised(h))
  BY <1>8 DEF Promised
<1>10. \A h : Promised(h).context = h.context
  BY DEF Promised
<1> HIDE DEF moved, carried
<1>11. Promises' = {carried(p) : p \in {q \in Promises : q.context # dst}}
  <2>1. ASSUME NEW p \in Promises'
        PROVE  \E q \in Promises : q.context # dst /\ p = carried(q)
    <3>1. PICK g \in handles' : p = Promised(g)'
      BY DEF Promises
    <3>2. PICK h \in DropAll(dst) : g = moved(h)
      BY <1>1
    <3>3. p = carried(Promised(h))
      BY <1>9, <3>1, <3>2
    <3>4. Promised(h) \in Promises /\ Promised(h).context # dst
      BY <1>10 DEF Promises, DropAll
    <3> QED
      BY <3>3, <3>4
  <2>2. ASSUME NEW q \in Promises, q.context # dst
        PROVE  carried(q) \in Promises'
    <3>1. PICK h \in handles : q = Promised(h)
      BY DEF Promises
    <3>2. h \in DropAll(dst)
      BY <1>10, <2>2, <3>1 DEF DropAll
    <3>3. moved(h) \in handles' /\ carried(q) = Promised(moved(h))'
      BY <1>1, <1>9, <3>1, <3>2
    <3> QED
      BY <3>3 DEF Promises
  <2> QED
    BY <2>1, <2>2
<1> QED
  BY <1>1, <1>7, <1>11 DEF carried

-----------------------------------------------------------------------------
(* The theorem.                                                            *)

LEMMA MappedState ==
    /\ Library!Init <=>
          /\ KeptFunctions = [c \in Contexts |-> [id \in Identifiers |-> Null]]
          /\ Promises = {}
    /\ \A c, id : Library!Find(c, id) <=>
          /\ KeptFunctions[c][id] \in Functions
          /\ Promises' = Promises \cup
                {[context |-> c, identifier |-> id, function |-> KeptFunctions[c][id]]}
          /\ KeptFunctions' = KeptFunctions
    /\ \A c, id, f : Library!Build(c, id, f) <=>
          /\ KeptFunctions[c][id] = Null
          /\ KeptFunctions' = [KeptFunctions EXCEPT ![c][id] = f]
          /\ Promises' = Promises \cup {[context |-> c, identifier |-> id, function |-> f]}
    /\ \A c, id : Library!Release(c, id) <=>
          /\ KeptFunctions' = [KeptFunctions EXCEPT ![c][id] = Null]
          /\ Promises' = {p \in Promises : ~ (p.context = c /\ p.identifier = id)}
    /\ \A c : Library!Forget(c) <=>
          /\ KeptFunctions' = [KeptFunctions EXCEPT ![c] = [id \in Identifiers |-> Null]]
          /\ Promises' = {p \in Promises : p.context # c}
    /\ \A dst, src : Library!Move(dst, src) <=>
          /\ dst # src
          /\ KeptFunctions' = [KeptFunctions EXCEPT
                ![dst] = KeptFunctions[src], ![src] = [id \in Identifiers |-> Null]]
          /\ Promises' =
                {[p EXCEPT !.context = IF p.context = src THEN dst ELSE p.context] :
                    p \in {q \in Promises : q.context # dst}}
    /\ (KeptFunctions' = KeptFunctions /\ Promises' = Promises) <=> UNCHANGED Library!vars
BY DEF Library!Init, Library!Find, Library!Build, Library!Release, Library!Forget, Library!Move,
       Library!Empty, Library!vars, KeptFunctions, Promises, Promised

LEMMA InitMaps == Init => Library!Init
<1> SUFFICES ASSUME Init PROVE Library!Init
  OBVIOUS
<1>1. KeptFunctions = [c \in Contexts |-> [id \in Identifiers |-> Null]]
  BY DEF Init, KeptFunctions, Kept
<1>2. Promises = {}
  BY DEF Init, Promises
<1> QED
  BY <1>1, <1>2, MappedState

LEMMA StepMaps == IInv /\ SInv /\ [Next]_vars => [Library!Next]_(Library!vars)
<1> SUFFICES ASSUME IInv, SInv, [Next]_vars
             PROVE  Library!Next \/ UNCHANGED Library!vars
  OBVIOUS
<1>1. ASSUME UNCHANGED <<impl, funcs, code, handles>>
      PROVE  UNCHANGED Library!vars
  BY <1>1, Stutters, MappedState
<1>2. ASSUME NEW c \in Contexts, EndBuild(c)
      PROVE  Library!Next \/ UNCHANGED Library!vars
  <2>1. ASSUME NEW f \in Functions, NEW o \in Outcomes, Compiles(c, f, o)
        PROVE  Library!Next
    <3>1. PICK id \in Identifiers, g \in Functions :
             /\ Kept(c)[id] = Null
             /\ KeptFunctions' = [KeptFunctions EXCEPT ![c][id] = g]
             /\ Promises' = Promises \cup {[context |-> c, identifier |-> id, function |-> g]}
      BY <2>1, CompilesBuilds
    <3>2. Library!Build(c, id, g)
      BY <3>1, MappedState DEF KeptFunctions
    <3> QED
      BY <3>2 DEF Library!Next
  <2> QED
    BY <1>1, <1>2, <2>1 DEF EndBuild, BuilderThrows, Refused, CompileThrows, implVars
<1>3. ASSUME NEW c \in Contexts, NEW id \in Identifiers, NEW caller \in Callers \cup {Null},
             Hit(c, id, caller)
      PROVE  Library!Next
  <2>1. KeptFunctions[c] = Kept(c)
    BY DEF KeptFunctions
  <2>2. Library!Find(c, id)
    BY <1>3, <2>1, HitFinds, MappedState
  <2> QED
    BY <2>2 DEF Library!Next
<1>4. ASSUME NEW c \in Contexts, NEW id \in Identifiers, Release(c, id)
      PROVE  Library!Next
  <2>1. Library!Release(c, id)
    BY <1>4, ReleaseReleases, MappedState
  <2> QED
    BY <2>1 DEF Library!Next
<1>5. ASSUME NEW c \in Contexts, Destroy(c) \/ Clear(c)
      PROVE  Library!Next
  <2>1. Library!Forget(c)
    BY <1>5, DeleteForgets, MappedState
  <2> QED
    BY <2>1 DEF Library!Next
<1>6. ASSUME NEW c \in Contexts, Construct(c)
      PROVE  UNCHANGED Library!vars
  BY <1>6, ConstructStutters, MappedState
<1>7. ASSUME NEW dst \in Contexts, NEW src \in Contexts,
             MoveConstruct(dst, src) \/ MoveAssign(dst, src)
      PROVE  Library!Next
  <2>1. Library!Move(dst, src)
    BY ZenonT(60), <1>7, MoveMoves, MappedState
  <2> QED
    BY <2>1 DEF Library!Next
<1>8. ASSUME NEW c \in Contexts, NEW id \in Identifiers, NEW caller \in Callers \cup {Null},
             Miss(c, id) \/ Begin(c, id, caller)
      PROVE  UNCHANGED Library!vars
  BY <1>1, <1>8 DEF Miss, Begin, implVars
<1>9. ASSUME NEW c \in Contexts, Configure(c)
      PROVE  UNCHANGED Library!vars
  BY <1>1, <1>9 DEF Configure, implVars
<1>10. CASE UNCHANGED vars
  BY <1>1, <1>10 DEF vars, ctxVars, implVars
<1>11. CASE Next
  BY <1>2, <1>3, <1>4, <1>5, <1>6, <1>7, <1>8, <1>9, <1>11 DEF Next
<1> QED
  BY <1>10, <1>11

\* JitContext keeps the promises of its header comment: a function is found under
\* its identifier and its pointer runs it until the identifier is released or the
\* context is cleared, moved over or gone; nested, failed and falling-back builds,
\* moves and reused memory change nothing of that.
THEOREM LibraryIsImplemented == Spec => ImplementsLibrary
<1>1. Init => Library!Init
  BY InitMaps
<1>2. IInv /\ SInv /\ [Next]_vars => [Library!Next]_(Library!vars)
  BY StepMaps
<1> QED
  BY <1>1, <1>2, InductiveAccounts, PTL DEF Spec, ImplementsLibrary, Library!Spec
=============================================================================

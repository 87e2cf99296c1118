---------------------------- MODULE MCJitContext ----------------------------
(* JitContext on small instances. *)
EXTENDS JitContext, TLC

CONSTANTS c1, c2, m1, m2, a1, a2, ida, idb

\* What the client asks for; the same array gathered by index; a wider element
\* type.
ArrayI32  == <<[kind |-> "SrcArr", dtype |-> "I32"], [kind |-> "Dst", dtype |-> "I32"]>>
GatherI32 == <<[kind |-> "SrcGatherArr", dtype |-> "I32"], [kind |-> "Dst", dtype |-> "I32"]>>
ArrayI64  == <<[kind |-> "SrcArr", dtype |-> "I64"], [kind |-> "Dst", dtype |-> "I32"]>>

MCSignatures == {GatherI32, ArrayI64}
MCCallers == {ArrayI32}

NoDebug == [capture_on_error |-> FALSE, capture_on_success |-> FALSE,
            record_vectorization_fail_exception |-> FALSE, stages |-> Stages]
ErrorDebug == [NoDebug EXCEPT !.capture_on_error = TRUE,
                              !.record_vectorization_fail_exception = TRUE]

MCDebugs == {NoDebug, ErrorDebug}

AllPolicies == {"BestEffort", "Vectorized", "Scalar"}

\* The bound of the run.  One context alone does everything under four settings:
\* two identifiers, nested builds, options switched on and off.  Beside a second
\* one the contexts are filled, moved, cleared and destroyed with one identifier
\* and room for one function, over two lookups together, three once one of them
\* has been moved from.
InUse ==
    {DefaultSettings,
     [policy |-> "BestEffort", limit |-> 1, debug |-> ErrorDebug],
     [policy |-> "Vectorized", limit |-> 2, debug |-> ErrorDebug],
     [policy |-> "Scalar", limit |-> 2, debug |-> NoDebug]}

Lookups(c) == counters[c].hits + counters[c].misses

Focus ==
    /\ \A c \in alive :
          /\ settings[c] \in InUse
          /\ counters[c].hits <= 1
    /\ Cardinality(alive) > 1 =>
          /\ \A c \in alive :
                /\ Len(frames[c]) <= 1
                /\ settings[c].limit = 1
                /\ settings[c] = DefaultSettings => counters[c] = ZeroCounters
                /\ impl[c] # Null => Cached(impl[c]) \subseteq {ida}
          /\ \A c, d \in alive :
                c # d => Lookups(c) + Lookups(d) <= IF Null \in {impl[c], impl[d]} THEN 3 ELSE 2

\* What is left in the storage of a destroyed context is not part of a state:
\* no operation reads it, and a constructor overwrites it.
Contents ==
    <<alive, impl, frames, implVars, handles,
      [c \in alive |-> <<settings[c], counters[c], snapshot[c], arena[c]>>]>>

MCSymmetry == Permutations(Addresses) \cup Permutations(Impls)
=============================================================================

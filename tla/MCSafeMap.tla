------------------------------ MODULE MCSafeMap ------------------------------
(* Small instances of SafeMap for TLC. *)
EXTENDS SafeMap, TLC

\* Callers, keys and values are interchangeable (used by the runs without a
\* liveness property).
Symmetry == Permutations(Callers) \cup Permutations(Keys) \cup Permutations(Values)
==============================================================================

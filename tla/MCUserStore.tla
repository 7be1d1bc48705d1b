----------------------------- MODULE MCUserStore ----------------------------
(* Small instances of UserStore for TLC. *)
EXTENDS UserStore, TLC

\* Calls, names and identities are interchangeable.
Symmetry == Permutations(Calls) \cup Permutations(Names) \cup Permutations(Idents)
==============================================================================

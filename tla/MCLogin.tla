------------------------------- MODULE MCLogin -------------------------------
(* Small instances of Login for TLC. *)
EXTENDS Login, TLC

\* Log-ins, calls, names, identities and sessions are interchangeable, but for
\* the session that stands for none at first.
Symmetry ==
  Permutations(Logins) \cup Permutations(Calls) \cup Permutations(Names) \cup Permutations(Idents)
==============================================================================

------------------------- MODULE MCSignallingServer -------------------------
(* Small instances of SignallingServer for TLC. *)
EXTENDS SignallingServer, FiniteSetsExt, TLC

\* Connections are interchangeable (used by the runs without a liveness
\* property).
Symmetry == Permutations(Conns)

\* Bound: the messages read from all the clients together.  Three are a node
\* that registers and two messages that another sends to it.
FewMessages == MapThenSumSet(LAMBDA k : received[k], Conns) <= 3
==============================================================================

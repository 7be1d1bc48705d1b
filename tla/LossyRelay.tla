----------------------------- MODULE LossyRelay -----------------------------
(***************************************************************************)
(* What the signalling server promises the peers that signal through it:   *)
(* a relay in which the messages of one sender wait in the order sent, and *)
(* each is handed to the peer it names at most once, in that order, or     *)
(* dropped.  Nothing is promised across senders.                           *)
(***************************************************************************)
EXTENDS Naturals, Sequences

CONSTANTS
  Peers,      \* connections
  Message     \* messages, with the sender `from' and the addressee `to'

VARIABLES
  pending,    \* pending[a]: messages of a on their way
  delivered   \* delivered[b]: messages handed to b

lvars == <<pending, delivered>>

LInit ==
  /\ pending = [a \in Peers |-> <<>>]
  /\ delivered = [b \in Peers |-> <<>>]

Submit(a, m) ==
  /\ pending' = [pending EXCEPT ![a] = Append(@, m)]
  /\ UNCHANGED delivered

Drop(a) ==
  /\ pending[a] # <<>>
  /\ pending' = [pending EXCEPT ![a] = Tail(@)]
  /\ UNCHANGED delivered

Deliver(a) ==
  LET m == Head(pending[a]) IN
  /\ pending[a] # <<>>
  /\ pending' = [pending EXCEPT ![a] = Tail(@)]
  /\ delivered' = [delivered EXCEPT ![m.to] = Append(@, m)]

\* More of a waits.  (It follows from Submit; TLC need not try every message.)
Grows(a) == Len(pending'[a]) > Len(pending[a])

LNext ==
  \E a \in Peers :
    \/ Drop(a)
    \/ Deliver(a)
    \/ Grows(a) /\ \E m \in Message : m.from = a /\ Submit(a, m)

LSpec == LInit /\ [][LNext]_lvars
==============================================================================

---------------------------- MODULE ConnRegistry ----------------------------
(***************************************************************************)
(* webrtc-server/pkg/connreg: what the server knows of each connection.    *)
(*                                                                         *)
(* The registry keeps its entries in a SafeMap, whose calls are atomic     *)
(* (SafeMap.tla), so each operation is one step here.  The operations that *)
(* look up an entry and mutate it inside the actor do nothing when the key *)
(* is gone.  Names, time stamps and attribute values are abstracted to     *)
(* whether they are set, and the numbers of default user names left out.   *)
(***************************************************************************)
CONSTANTS
  Conns,     \* connection keys: a fresh uuid for each websocket
  Attrs      \* attribute names

VARIABLES
  keys,      \* keys in the store
  entry      \* entry[k]: the ConnRegistryData of k, meaningful if k is in keys

regvars == <<keys, entry>>

\* named: NodeName is not nil; reachable: WSConn is not nil; beat:
\* LastHeartbeat is not nil.
Entry == [named : BOOLEAN, reachable : BOOLEAN, beat : BOOLEAN, attrs : SUBSET Attrs]

Fresh == [named |-> FALSE, reachable |-> FALSE, beat |-> FALSE, attrs |-> {}]

RegInit == keys = {} /\ entry = [k \in Conns |-> Fresh]

\* Mutant: the mutation stores the entry it was asked to change, there or not.
MutateUpserts(k, e) ==
  /\ keys' = keys \cup {k}
  /\ entry' = [entry EXCEPT ![k] = e]

\* datastore.Get with a callback that turns the entry into e.
Mutate(k, e) ==
  /\ entry' = IF k \in keys THEN [entry EXCEPT ![k] = e] ELSE entry
  /\ UNCHANGED keys

\* Mutant: the entry is made without a map of attributes.
OpenConnectionBare(k) ==
  /\ keys' = keys \cup {k}
  /\ entry' = [entry EXCEPT ![k] = [named |-> FALSE, reachable |-> FALSE, beat |-> FALSE]]

OpenConnection(k) ==
  /\ keys' = keys \cup {k}
  /\ entry' = [entry EXCEPT ![k] = Fresh]

CloseConnection(k) ==
  /\ keys' = keys \ {k}
  /\ UNCHANGED entry

Register(k) == Mutate(k, [entry[k] EXCEPT !.named = TRUE, !.reachable = TRUE])

UpdateHeartbeat(k) == Mutate(k, [entry[k] EXCEPT !.beat = TRUE])

\* The callback reads *entry.NodeName: it panics, inside the actor, when the
\* name was never set.
RenamePanics(k) == k \in keys /\ ~entry[k].named

\* A rename may carry a preferred colour, which becomes an attribute.
UpdatePreference(k, colour) ==
  Mutate(k, [entry[k] EXCEPT !.named = TRUE, !.attrs = @ \cup colour])

\* Withdrawals first, then the announced attributes.
SetAttributes(k, withdrawn, announced) ==
  Mutate(k, [entry[k] EXCEPT !.attrs = (@ \ withdrawn) \cup announced])

\* The connections a write can be addressed to: those that Dump or GetByNodeId
\* finds with a WSConn.
Reachable == {k \in keys : entry[k].reachable}

\* The registry holds only keys of connections and entries with all fields.
RegTypeOK == keys \subseteq Conns /\ entry \in [Conns -> Entry]
==============================================================================

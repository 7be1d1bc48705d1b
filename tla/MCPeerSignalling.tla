-------------------------- MODULE MCPeerSignalling --------------------------
(* The connections of an agent with one node, on a small instance.         *)
EXTENDS PeerSignalling
==============================================================================

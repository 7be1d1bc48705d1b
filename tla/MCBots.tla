------------------------------- MODULE MCBots -------------------------------
(* The bots on a small instance.                                           *)
EXTENDS Bots
==============================================================================

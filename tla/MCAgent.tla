------------------------------ MODULE MCAgent ------------------------------
(* Agent with few events.                                                  *)
EXTENDS Agent, TLC
=============================================================================

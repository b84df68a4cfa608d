------------------------------- MODULE MCHub -------------------------------
(* Hub with two connections, one of which may stall, and one caller.       *)
EXTENDS Hub, TLC
=============================================================================

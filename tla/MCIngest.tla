------------------------------ MODULE MCIngest ------------------------------
(* Ingest with small sets of requests.                                     *)
EXTENDS Ingest, TLC

Symmetry == Permutations(Handlers)
=============================================================================

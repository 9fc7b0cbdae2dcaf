-------------------------- MODULE MCEngineRefinement --------------------------
(* EngineRefinement with a few requests and interchangeable clients.         *)
EXTENDS EngineRefinement, EngineRequests, TLC

ClientSymmetry == Permutations(Clients)
=============================================================================

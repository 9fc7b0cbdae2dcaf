--------------------------- MODULE MCMatchingEngine ---------------------------
(* MatchingEngine with the requests of its runs.                             *)
EXTENDS MatchingEngine, EngineRequests
=============================================================================

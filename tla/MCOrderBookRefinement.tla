------------------------ MODULE MCOrderBookRefinement ------------------------
(* OrderBookRefinement with interchangeable ids.                            *)
EXTENDS OrderBookRefinement, TLC

IdSymmetry == Permutations(Ids)
=============================================================================

----------------------------- MODULE MCOrderClock -----------------------------
(* OrderClock with interchangeable ids.                                      *)
EXTENDS OrderClock, TLC

IdSymmetry == Permutations(Ids)
=============================================================================

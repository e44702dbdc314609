----------------------------- MODULE MCRollupWorker -----------------------------
(***************************************************************************)
(* TLC instances of RollupWorker.                                          *)
(***************************************************************************)
EXTENDS RollupWorker, TLC

CONSTANTS w1, w2, s1, s2

WorkerSymmetry == Permutations(Workers) \cup Permutations(Stamps)
=============================================================================

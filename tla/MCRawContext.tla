---------------------------- MODULE MCRawContext ----------------------------
(* Small instances of RawContext for TLC.                                  *)
EXTENDS RawContext, TLC

Symmetry == Permutations(Threads) \cup Permutations(Handles)
=============================================================================

---------------------------- MODULE MCTempAccess ----------------------------
(* Small instances of TempAccess for TLC.                                  *)
EXTENDS TempAccess, TLC

Symmetry == Permutations(Threads)
=============================================================================

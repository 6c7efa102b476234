---------------------------- MODULE MCBlockPool ----------------------------
(* Model values for CorePool: interchangeable holders. *)
EXTENDS CorePool, TLC

CONSTANTS h1, h2, h3

MCHolders == {h1, h2, h3}
MCSymmetry == Permutations(MCHolders)
=============================================================================

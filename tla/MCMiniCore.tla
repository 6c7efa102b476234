---------------------------- MODULE MCMiniCore ---------------------------
(* Model values for MiniCore: interchangeable requests whose prompts share    *)
(* their first block, or nothing.  A sampled token is the fifth, which never  *)
(* fills a block: which one it is makes no difference.                        *)
EXTENDS MiniCore

CONSTANTS r1, r2, tokA, tokB

MCRequests == {r1, r2}
MCTokens == {tokA}
MCPrompts == {<<tokA, tokA, tokA, tokA>>, <<tokA, tokA, tokB, tokB>>,
              <<tokB, tokB, tokB, tokB, tokB>>}
MCSymmetry == Permutations(MCRequests)
=============================================================================

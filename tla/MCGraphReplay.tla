--------------------------- MODULE MCGraphReplay ---------------------------
(* Batches that grow, shrink, swap their rows and outgrow the graphs, and small ones that run eagerly
   because a row of them prefills. *)
EXTENDS GraphReplay

CONSTANTS r1, r2, r3, r4, r5

MCRequests == {r1, r2, r3, r4, r5}
MCBatches == {<<r1>>, <<r2, r1>>, <<r1, r2, r3>>, <<r4, r3, r2, r1>>,
              <<r1, r2, r3, r4, r5>>, <<r2, r5>>}
MCPrefills == {<<r2, r5>>}
=============================================================================

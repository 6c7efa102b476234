---------------------------- MODULE MCSpecEngine ----------------------------
(* Two requests over a pool that cannot hold both to their end.  The target's *)
(* choice depends on the whole context, so that stale KV shows in the output; *)
(* it stops once the context is long.                                         *)
EXTENDS SpecEngine

CONSTANTS tokA, tokB, tokEnd

MCTokens == {tokA, tokB, tokEnd}
MCStops == {tokEnd}
MCJobs == {[prompt |-> <<tokA, tokA, tokB>>, max_new |-> 5],
           [prompt |-> <<tokB>>, max_new |-> 3]}
MCGreedy(ctx) ==
  IF Len(ctx) >= 6 THEN tokEnd
  ELSE IF Cardinality({i \in DOMAIN ctx : ctx[i] = tokA}) % 2 = 0 THEN tokA ELSE tokB
OnlyFCFS == {"fcfs"}
MCGammas == {0, 1, 2}
Both == {TRUE, FALSE}
=============================================================================

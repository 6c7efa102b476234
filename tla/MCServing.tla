----------------------------- MODULE MCServing -----------------------------
(* Pools of less than a block, of one and of three blocks, one that is not asked for in whole blocks,
   and a context that the larger ones exceed; prompts from none to one that fills the context.  Two
   counters of a step show every way in which a snapshot can be torn.                                  *)
EXTENDS Serving

MCPoolTokens == {<<>>, <<1>>, <<3>>}

MCRequests ==
  [chat : BOOLEAN, text : {TRUE}, unsupported : {FALSE}, in_range : {TRUE}, prompt : 0 .. 3,
   max_tokens : {<<>>, <<0>>, <<1>>, <<2>>}, max_completion_tokens : {<<>>, <<3>>}]
  \cup [chat : {TRUE}, text : BOOLEAN, unsupported : BOOLEAN, in_range : BOOLEAN, prompt : {1},
        max_tokens : {<<1>>}, max_completion_tokens : {<<>>}]

MCBatches ==
  {[phase |-> "mixed", num_decode |-> 2, prefill_tokens |-> 1, preempted |-> 1, running |-> 2, waiting |-> 1]}

MCFields == <<"steps", "decode_rows">>
=============================================================================

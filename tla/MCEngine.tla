------------------------------ MODULE MCEngine ------------------------------
(* Requests for Engine in blocks of two tokens: a prompt of whole blocks and a *)
(* short one, which do not fit side by side in a pool of three or four blocks, *)
(* so that prefixes are reused, requests preempted and blocks evicted.         *)
EXTENDS Engine

CONSTANTS tokA, tokEnd      \* an ordinary token and the stop token

MCTokens == {tokA, tokEnd}
MCStops == {tokEnd}
MCJobs == {[prompt |-> <<tokA, tokA, tokA, tokA>>, max_new |-> 2],
           [prompt |-> <<tokA>>, max_new |-> 3]}
OnlyFCFS == {"fcfs"}
AllPolicies == {"fcfs", "sjf", "cache"}
=============================================================================

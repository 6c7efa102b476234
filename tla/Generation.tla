----------------------------- MODULE Generation -----------------------------
(***************************************************************************)
(* What a generation service promises to whoever submits requests, with no *)
(* word of batches, blocks, threads or devices: each request's output only *)
(* grows, ends with its first stop token or at its length limit and not    *)
(* before, and is never touched again.  Any number of requests may advance *)
(* at a time, each by at most GenMaxStep tokens.                           *)
(*                                                                         *)
(* gen[r] is [max_new, out, status] for the r-th request submitted.        *)
(***************************************************************************)
EXTENDS Integers, Sequences

CONSTANTS GenTokens, GenStops, GenMaxNew, GenMaxStep

VARIABLE gen

GenInit == gen = <<>>

\* This output is complete.
Complete(out, max_new) ==
  Len(out) >= max_new \/ (out # <<>> /\ out[Len(out)] \in GenStops)

\* A request ends with the token that completes it.
GenStatus(g) == IF Complete(g.out, g.max_new) THEN "finished" ELSE "open"

\* One more token for an open request.
Grown(g, tok) ==
  LET longer == [g EXCEPT !.out = Append(@, tok)]
  IN  [longer EXCEPT !.status = GenStatus(longer)]

NewGen(m) == [max_new |-> m, out |-> <<>>, status |-> "open"]

Submit(m) == gen' = Append(gen, NewGen(m))

Cancel(r) ==
  /\ gen[r].status = "open"
  /\ gen' = [gen EXCEPT ![r].status = "aborted"]

\* h is g with at least one more token, the last of which may complete it.
Extends(g, h) ==
  /\ g.status = "open" /\ h.max_new = g.max_new /\ h.status = GenStatus(h)
  /\ Len(h.out) - Len(g.out) \in 1 .. GenMaxStep
  /\ SubSeq(h.out, 1, Len(g.out)) = g.out
  /\ \A k \in Len(g.out) + 1 .. Len(h.out) :
       h.out[k] \in GenTokens /\ (k < Len(h.out) => ~ Complete(SubSeq(h.out, 1, k), h.max_new))

Advance ==
  /\ DOMAIN gen' = DOMAIN gen
  /\ \A r \in DOMAIN gen : gen'[r] = gen[r] \/ Extends(gen[r], gen'[r])

GenNext == \/ \E m \in GenMaxNew : Submit(m)
           \/ \E r \in DOMAIN gen : Cancel(r)
           \/ Advance

GenSpec == GenInit /\ [][GenNext]_gen
=============================================================================

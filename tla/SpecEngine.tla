----------------------------- MODULE SpecEngine -----------------------------
(***************************************************************************)
(* Speculative decoding: SpecEngine (miniserve/spec/engine.py) over the    *)
(* engine's scheduler and target runner, the draft's runner (spec/draft.py)*)
(* and the acceptance rule (spec/verify.py).                               *)
(*                                                                         *)
(* A step whose batch only decodes is a round: the draft proposes gamma    *)
(* tokens per request, the target verifies them in one pass, the host      *)
(* keeps the agreeing prefix and one token more, and both block tables are *)
(* rewound.  Any other batch is a plain step, behind which the draft lags. *)
(*                                                                         *)
(* The models are external.  The target picks Greedy(context), the context *)
(* being what its KV blocks hold and not what the host believes they hold; *)
(* the draft may propose anything.  A rewind leaves blocks and their       *)
(* contents in place, so mem and draft.mem keep what was rejected until it *)
(* is overwritten.  check_options leaves no overlap and no prefix cache.   *)
(***************************************************************************)
EXTENDS Engine

CONSTANTS Gammas,       \* proposals per round; may be changed between steps, 0 is plain decoding
          Greedy(_),    \* the target's choice after a token sequence
          RoundGraphs   \* may the draft's first step replay its graph of width FIRST_WIDTH?

ASSUME SpecAssumption ==
  /\ Gammas \subseteq Nat /\ Gammas # {} /\ RoundGraphs \subseteq BOOLEAN
  /\ ~ Overlap /\ Radixes = {FALSE}

VARIABLES gamma,        \* proposals per round
          draft         \* DraftRunner: [store, tables, mem], tables by request id

specVars == <<vars, gamma, draft>>

FIRST_WIDTH == 2

\* The gamma setter tells the scheduler what a step may append.
SpecSched == [Sched EXCEPT !.tokens_per_step = gamma + 1]

\* A pool as large as the target's, without a prefix cache.
NewDraft == [store |-> NewStore(FALSE), tables |-> <<>>, mem |-> [b \in Blocks |-> <<>>]]

SpecInit == Init /\ gamma \in Gammas /\ draft = NewDraft

-----------------------------------------------------------------------------
(* KV contents *)

\* What a pass attends to: the first n tokens as the table's blocks hold them.
Held(table, n, m) ==
  [p \in 1 .. n |->
     LET kv == m[table.blocks[(p - 1) \div BlockSize + 1]]
     IN  IF p <= Len(kv) THEN kv[p] ELSE PLACEHOLDER]

\* A pass over toks, the table's last tokens: their KV goes to the table's tail slots.
Fed(table, toks, m) ==
  LET at  == table.num_tokens - Len(toks)
      all == Held(table, at, m) \o toks
  IN  [b \in Blocks |->
         LET hit == {i \in DOMAIN table.blocks :
                       /\ table.blocks[i] = b
                       /\ i * BlockSize > at /\ (i - 1) * BlockSize < table.num_tokens}
         IN  IF hit = {} THEN m[b]
             ELSE SubSeq(all, 1, Min({Max(hit) * BlockSize, table.num_tokens}))]

-----------------------------------------------------------------------------
(* The draft *)

DraftAdmit(d, r) == [d EXCEPT !.tables = (r :> EmptyTable) @@ @]

DraftRelease(d, r) ==
  IF r \notin DOMAIN d.tables THEN d ELSE
  [d EXCEPT !.store = Returned(@, d.tables[r]), !.tables = Restrict(@, DOMAIN @ \ {r})]

\* Faulty variant: rejected proposals stay in the table.
DraftRewindNothing(d, r, n) == d

DraftRewindTo(d, r, n) ==
  IF n < d.tables[r].num_tokens THEN [d EXCEPT !.tables[r] = Rewound(@, @.num_tokens - n)] ELSE d

\* One sequence of _extend or _decode: toks at positions start, start + 1, ...; a token at
\* a position that is not its slot's is not the KV of any sequence.
DraftFeed(d, r, start, toks) ==
  LET a    == Appended(d.store, d.tables[r], Len(toks))
      kv   == IF start = d.tables[r].num_tokens THEN toks
              ELSE [i \in DOMAIN toks |-> PLACEHOLDER]
  IN  IF d.store.err # "none" \/ a.store.err # "none" THEN [d EXCEPT !.store.err = a.store.err]
      ELSE [store |-> a.store, tables |-> [d.tables EXCEPT ![r] = a.table],
            mem   |-> Fed(a.table, kv, d.mem)]

\* DraftRunner.prefill of one item; the passes it makes only cut this feed.
DraftPrefill(d, r, toks) ==
  IF d.tables[r].num_tokens > 0 THEN [d EXCEPT !.store.err = "prefill"] ELSE DraftFeed(d, r, 0, toks)

\* _draft_prefill: a request that the draft knows nothing of gets the KV of all tokens
\* but the last.
DraftCatchUp(d, s, rids) ==
  FoldLeft(LAMBDA e, r :
             LET q == s.req[r]
                 a == IF r \in DOMAIN e.tables THEN e ELSE DraftAdmit(e, r)
             IN  IF a.tables[r].num_tokens = 0 /\ SeqLen(q) > 1
                 THEN DraftPrefill(a, r, Front(TokensOf(q))) ELSE a,
           d, rids)

Covered(d, r) == d.tables[r].num_tokens

\* _first_step_starts: with the graph every request feeds two tokens, if none misses more;
\* those that miss one give back the one before.
FirstStarts(d, s, rids, graphs) ==
  LET len(r) == SeqLen(s.req[r])
      two    == graphs /\ \A r \in Range(rids) :
                            FIRST_WIDTH <= len(r) /\ len(r) - FIRST_WIDTH <= Covered(d, r)
  IN  IF two THEN [start |-> [r \in Range(rids) |-> len(r) - FIRST_WIDTH],
                   d     |-> FoldLeft(LAMBDA e, r : DraftRewindTo(e, r, len(r) - FIRST_WIDTH), d, rids)]
      ELSE [start |-> [r \in Range(rids) |-> Covered(d, r)], d |-> d]

\* propose: first what each request's draft misses, then the proposals but the last, one
\* step each.
Propose(d, s, rids, start, props) ==
  LET first == FoldLeft(LAMBDA e, r : DraftFeed(e, r, start[r],
                                        SubSeq(TokensOf(s.req[r]), start[r] + 1, SeqLen(s.req[r]))),
                        d, rids)
      decode(e, j) == FoldLeft(LAMBDA f, r : DraftFeed(f, r, SeqLen(s.req[r]) + j - 1, <<props[r][j]>>),
                               e, rids)
  IN  FoldLeft(decode, first, [j \in 1 .. gamma - 1 |-> j])

-----------------------------------------------------------------------------
(* The target *)

\* The target's choice at each of the gamma + 1 positions, every earlier proposal taken
\* as accepted; table is as it was before the pass.
Chosen(table, m, last, props) ==
  [j \in 1 .. Len(props) + 1 |->
     Greedy(Held(table, table.num_tokens, m) \o <<last>> \o SubSeq(props, 1, j - 1))]

\* Faulty variant: a proposal is compared with the choice after it.
AcceptPrefixShifted(props, chosen) ==
  LET wrong == {i \in DOMAIN props : chosen[i + 1] # props[i]}
  IN  IF wrong = {} THEN Len(props) ELSE Min(wrong) - 1

\* verify.py: how many proposals the target agrees with, from the left.
AcceptPrefix(props, chosen) ==
  LET wrong == {i \in DOMAIN props : chosen[i] # props[i]}
  IN  IF wrong = {} THEN Len(props) ELSE Min(wrong) - 1

\* Faulty variant: what follows a stop token is kept.
KeptTokensPastStop(q, new) == SubSeq(new, 1, Min({Len(new), q.max_new - Len(q.output)}))

\* What a request keeps of a round: up to its token budget and its first stop token.
KeptTokens(q, new) ==
  LET room == SubSeq(new, 1, Min({Len(new), q.max_new - Len(q.output)}))
      stop == SelectInSeq(room, LAMBDA t : t \in StopTokens)
  IN  IF stop > 0 THEN SubSeq(room, 1, stop) ELSE room

RewindTarget(s, r, n) ==
  IF CanRewind(s.req[r].hold.cache, n)
  THEN [s EXCEPT !.req[r].hold.cache = Rewound(@, n)]
  ELSE [s EXCEPT !.store = Raise(@, "rewind")]

\* Faulty variant: only a stop token ends a request.
SettleStopOnly(acc, r, props, chosen) ==
  LET k    == AcceptPrefix(props, chosen)
      keep == KeptTokens(acc.s.req[r], SubSeq(props, 1, k) \o <<chosen[k + 1]>>)
      s    == [acc.s EXCEPT !.req[r].output = @ \o keep]
  IN  IF Last(keep) \in StopTokens
      THEN [s |-> RetireRequest(Transition(s, r, "FINISHED"), r), d |-> DraftRelease(acc.d, r)]
      ELSE [s |-> RewindTarget(s, r, Len(props) + 1 - Len(keep)),
            d |-> DraftRewindTo(acc.d, r, SeqLen(s.req[r]) - 1)]

\* _settle, over acc = [s, d].
Settle(acc, r, props, chosen) ==
  LET k    == AcceptPrefix(props, chosen)
      keep == KeptTokens(acc.s.req[r], SubSeq(props, 1, k) \o <<chosen[k + 1]>>)
      s    == [acc.s EXCEPT !.req[r].output = @ \o keep]
      q    == s.req[r]
  IN  IF Last(keep) \in StopTokens \/ ReachedMaxTokens(q)
      THEN [s |-> RetireRequest(Transition(s, r, "FINISHED"), r), d |-> DraftRelease(acc.d, r)]
      ELSE [s |-> RewindTarget(s, r, Len(props) + 1 - Len(keep)),
            d |-> DraftRewindTo(acc.d, r, SeqLen(q) - 1)]

-----------------------------------------------------------------------------
(* Actions *)

SpecAlive == Alive /\ draft.store.err = "none"

\* What a step leaves behind; free blocks count as erased.
Done(s, d, m, batch) ==
  /\ Assign(s)
  /\ launched' = batch
  /\ mem' = Kept(m, s.store.pool)
  /\ draft' = [d EXCEPT !.mem = Kept(@, d.store.pool)]
  /\ UNCHANGED <<inflight, gamma>>

\* SpecEngine.add_request; a step may overshoot the last token by gamma.
SpecAdd(job) == CanAdd(job, gamma + 1) /\ AddRequest(job) /\ UNCHANGED <<gamma, draft>>

\* Engine.abort with SpecEngine._retire.
SpecAbort(r) ==
  /\ SpecAlive /\ Abort(r)
  /\ draft' = LET d == DraftRelease(draft, r) IN [d EXCEPT !.mem = Kept(@, d.store.pool)]
  /\ UNCHANGED gamma

\* The gamma setter, between steps.
SetGamma(g) == SpecAlive /\ g # gamma /\ gamma' = g /\ UNCHANGED <<vars, draft>>

\* Faulty variant: the draft keeps what a preempted request had.
ReleasePreemptedNot(s) == draft

\* The draft forgets the requests that this step's scheduling preempted.
ReleasePreempted(s) == FoldSet(LAMBDA r, d : DraftRelease(d, r), draft, s.preempted)

\* _round, up to the verdict of every request.
Round(s, batch) ==
  LET rids == [i \in DOMAIN batch.rows |-> batch.rows[i].rid]
  IN  \E graphs \in RoundGraphs :
      \E props \in [Range(rids) -> [1 .. gamma -> Tokens]] :
      \E d \in {DraftCatchUp(ReleasePreempted(s), s, rids)} :
      \E first \in {FirstStarts(d, s, rids, graphs)} :
      \E ahead \in {Propose(first.d, s, rids, first.start, props)} :
      \E res \in {ReserveRows(s, [i \in DOMAIN rids |-> [rid |-> rids[i], n |-> gamma + 1]])} :
        LET cache(t, r)  == t.req[r].hold.cache
            last(r)      == Last(TokensOf(s.req[r]))
            settled(acc, r) == Settle(acc, r, props[r], Chosen(cache(s, r), mem, last(r), props[r]))
        IN  IF \E r \in Range(rids) : cache(s, r).num_tokens # SeqLen(s.req[r]) - 1
            THEN Done([s EXCEPT !.store = Raise(@, "cached tokens")], d, mem, batch) ELSE
            IF res.store.err # "none" \/ ahead.store.err # "none"
            THEN Done(res, ahead, mem, batch) ELSE
            \E end \in {FoldLeft(settled, [s |-> res, d |-> ahead], rids)} :
              Done(end.s, end.d,
                   FoldLeft(LAMBDA m, r : Fed(cache(res, r), <<last(r)>> \o props[r], m), mem, rids),
                   batch)

\* A prefill or mixed batch, or gamma 0: _launch and _process, then the draft takes up
\* the requests that decode.
Plain(s, batch) ==
  \E d \in {ReleasePreempted(s)} :
  \E res \in {Reserved(s, batch)} :
  \E m \in {FoldLeftDomain(LAMBDA a, i : Fed(res.req[batch.rows[i].rid].hold.cache, RowTokens(s, batch, i), a),
                           mem, batch.rows)} :
    IF res.store.err # "none" THEN Done(res, d, mem, batch) ELSE
    LET rids   == [i \in DOMAIN batch.rows |-> batch.rows[i].rid]
        toks   == [i \in DOMAIN rids |->
                     LET t == res.req[rids[i]].hold.cache IN Greedy(Held(t, t.num_tokens, m))]
        s2     == ReadBack(FoldLeft(AfterRow, res, batch.rows), batch, InFlight(SlotsOf(s, batch), toks))
        ended  == SelectSeq(rids, LAMBDA r : IsDone(s2.req[r]))
        decode == SelectSeq(rids, LAMBDA r : s2.req[r].state = "DECODE")
        d2     == FoldLeft(DraftRelease, d, ended)
    IN  Done(s2, IF gamma > 0 THEN DraftCatchUp(d2, s2, decode) ELSE d2, m, batch)

\* SpecEngine.step.
SpecStep ==
  /\ SpecAlive /\ HasUnfinished
  /\ \E policy \in Policies :
     \E sch \in {Schedule(SpecSched, policy)} :
       IF sch.batch.rows = <<>> \/ sch.s.store.err # "none"
       THEN Done(sch.s, draft, mem, NoBatch)
       ELSE IF gamma > 0 /\ sch.batch.num_decode = Len(sch.batch.rows)
            THEN Round(sch.s, sch.batch)
            ELSE Plain(sch.s, sch.batch)

SpecNext == \/ \E job \in Jobs : SpecAdd(job)
            \/ \E r \in Rids : SpecAbort(r)
            \/ \E g \in Gammas : SetGamma(g)
            \/ SpecStep

\* A step would change something: ENABLED <<SpecStep>>_specVars.
SpecStepChanges ==
  /\ SpecAlive /\ HasUnfinished
  /\ \/ launched # NoBatch
     \/ \E policy \in Policies : Schedule(SpecSched, policy) # [s |-> SpecSched, batch |-> NoBatch]

\* WF_specVars(SpecStep), with its enabling condition written out: the owner of the engine
\* steps it while it has work.
SpecKeepsStepping == []<>(~ SpecStepChanges) \/ []<><<SpecStep>>_specVars

SpecSpec == SpecInit /\ [][SpecNext]_specVars /\ SpecKeepsStepping

-----------------------------------------------------------------------------
(* Properties *)

\* SpecEngine.step: no step raises.  The scheduler's budget covers a verify pass of gamma + 1
\* positions per request; the draft's pool, which nobody budgets for, covers the draft's
\* feeds and proposals at every moment of a round; the tables agree with the sequences.
SpecNothingRaises == store.err = "none" /\ draft.store.err = "none"

\* "Greedy output is therefore exactly the output of plain decoding, whatever the draft
\* proposes": every token is the target's choice after those before it, although it was computed
\* over KV that earlier rounds wrote and rewound.
GreedyOutput ==
  \A r \in Rids : \A k \in DOMAIN req[r].output :
    req[r].output[k] = Greedy(req[r].prompt \o SubSeq(req[r].output, 1, k - 1))

\* The KV at every step boundary: a request that decodes has all of its tokens but the last
\* in the target's blocks; the draft holds a prefix of them, in no more blocks than the target,
\* which is why a pool of the same size is enough; only running requests have a draft table,
\* and when nothing runs both pools are whole again.
TablesInStep ==
  /\ \A r \in Range(running) : LET q == req[r] IN
       /\ q.state = "DECODE" => q.hold.cache.num_tokens = SeqLen(q) - 1
       /\ Held(q.hold.cache, q.hold.cache.num_tokens, mem) = SubSeq(TokensOf(q), 1, q.hold.cache.num_tokens)
  /\ \A r \in DOMAIN draft.tables : LET t == draft.tables[r] IN
       /\ r \in Range(running) /\ t.num_tokens < SeqLen(req[r])
       /\ Held(t, t.num_tokens, draft.mem) = SubSeq(TokensOf(req[r]), 1, t.num_tokens)
       /\ Len(t.blocks) <= Len(req[r].hold.cache.blocks)
  /\ running = <<>> => /\ NumFree(store.pool) = NumBlocks
                       /\ NumFree(draft.store.pool) = NumBlocks

\* Every request ends if the engine keeps being stepped: a round always brings a token,
\* and preemption by a larger gamma starves nobody.
EverySpecEnds ==
  \A r \in 1 .. MaxRequests : (r \in Rids) ~> (r \in Rids /\ IsDone(req[r]))

SpecGen == INSTANCE Generation WITH
  gen <- [r \in Rids |->
            [max_new |-> req[r].max_new, out |-> req[r].output,
             status  |-> CASE req[r].state = "FINISHED" -> "finished"
                           [] req[r].state = "ABORTED"  -> "aborted"
                           [] OTHER                     -> "open"]],
  GenTokens <- Tokens, GenStops <- StopTokens, GenMaxNew <- {j.max_new : j \in Jobs},
  GenMaxStep <- Max(Gammas) + 1

\* _settle: a round brings one to gamma + 1 tokens, cut at the first stop token and at the
\* token budget; nothing is given out after the end.
RoundsGenerate == SpecGen!GenSpec
=============================================================================

------------------------------- MODULE Engine -------------------------------
(***************************************************************************)
(* The engine loop (miniserve/engine/engine.py) over the scheduler, the KV *)
(* cache manager and the bookkeeping half of the model runner              *)
(* (engine/model_runner.py: forward, _fill_rows, reserve, release).        *)
(*                                                                         *)
(* One thread drives the engine: it adds and aborts requests between steps *)
(* and steps.  What runs beside it is the device.  With overlap a step     *)
(* launches its batch before it reads back the previous one, so the host   *)
(* schedules on output it does not know yet.                               *)
(*                                                                         *)
(* The device is external.  It samples any token for a row that completes  *)
(* its sequence (inflight.tokens), and it keeps the KV pool: mem[b] is the *)
(* token prefix, as the device saw it, that ends in block b (<<>> for a    *)
(* free block).  Batches run in launch order on one stream, so a launch    *)
(* can write mem at once.                                                  *)
(***************************************************************************)
EXTENDS Scheduler

CONSTANTS Jobs,         \* what a request may ask for: [prompt, max_new]
          MaxRequests,  \* most requests submitted
          Tokens,       \* tokens the model may sample
          StopTokens,   \* those that end a request
          Policies,     \* the policy may be replaced between steps
          Overlap,      \* overlap scheduling
          Radixes       \* prefix cache: may be on, may be off

ASSUME EngineAssumption ==
  /\ \A j \in Jobs : j.prompt \in Seq(Tokens) \ {<<>>} /\ j.max_new \in Nat \ {0}
  /\ MaxRequests \in Nat /\ StopTokens \subseteq Tokens /\ PLACEHOLDER \notin Tokens
  /\ Policies \subseteq {"fcfs", "sjf", "cache"} /\ Overlap \in BOOLEAN
  /\ Radixes \subseteq BOOLEAN

VARIABLES store,        \* KVCacheManager
          req,          \* the requests submitted so far, by id: 1, 2, ...
          waiting,      \* Scheduler.waiting
          running,      \* Scheduler.running
          launched,     \* the batch the last step launched
          inflight,     \* _Launched: tokens and output slots of that batch, or NotInFlight
          mem           \* device: what each KV block holds

vars == <<store, req, waiting, running, launched, inflight, mem>>

NoBatch == [rows |-> <<>>, num_decode |-> 0]
NotInFlight == [tokens |-> <<>>, slots |-> <<>>]

Sched == [store |-> store, req |-> req, waiting |-> waiting, running |-> running,
          tokens_per_step |-> 1, preempted |-> {}]

Rids == DOMAIN req

Init == /\ \E radix \in Radixes : store = NewStore(radix)
        /\ req = <<>>
        /\ waiting = <<>> /\ running = <<>>
        /\ launched = NoBatch /\ inflight = NotInFlight
        /\ mem = [b \in Blocks |-> <<>>]

-----------------------------------------------------------------------------
(* Launch *)

\* The tokens of row i as the host passes them: placeholders where it does not know.
RowTokens(s, batch, i) ==
  LET row == batch.rows[i]
  IN  SubSeq(TokensOf(s.req[row.rid]), row.start + 1, row.start + row.n)

\* Faulty variant: takes the first row for everybody's.
InFlightFirst(r) == IF inflight = NotInFlight THEN 0 ELSE 1

\* Where request r stands in the batch in flight (0: nowhere).
InFlightRow(r) ==
  IF inflight = NotInFlight THEN 0
  ELSE SelectInSeq(launched.rows, LAMBDA row : row.rid = r)

\* _fill_rows: only the input of a decode row may be a placeholder, and the previous step
\* must have sampled it.
FillError(s, batch) ==
  \E i \in DOMAIN batch.rows :
    /\ PLACEHOLDER \in Range(RowTokens(s, batch, i))
    /\ i > batch.num_decode \/ InFlightRow(batch.rows[i].rid) = 0

\* The sequence of request q (r) as the device sees it: the placeholder is the token that
\* it sampled for r in the batch in flight.
DeviceTokens(q, r) ==
  [i \in 1 .. SeqLen(q) |->
     IF TokensOf(q)[i] = PLACEHOLDER THEN inflight.tokens[InFlightRow(r)] ELSE TokensOf(q)[i]]

\* The append loop of ModelRunner.reserve, row by row.
AppendRow(s, row) ==
  LET a == Appended(s.store, s.req[row.rid].hold.cache, row.n)
  IN  [s EXCEPT !.store = a.store, !.req[row.rid].hold.cache = a.table]

\* ModelRunner.reserve: make room for every row's new tokens, then append them.
ReserveRows(s, rows) ==
  LET need == MapThenSumSet(LAMBDA i : BlocksNeeded(s.req[rows[i].rid].hold.cache, rows[i].n),
                            DOMAIN rows)
  IN  FoldLeft(AppendRow, [s EXCEPT !.store = Reserve(@, need)], rows)

\* ModelRunner.forward up to the pass itself: the checks, and room for every new token.
Reserved(s, batch) ==
  LET rows    == batch.rows
      fail(e) == [s EXCEPT !.store = Raise(@, e)]
  IN  IF FillError(s, batch) THEN fail("fill") ELSE
      IF \E i \in DOMAIN rows : s.req[rows[i].rid].hold.cache.num_tokens # rows[i].start
      THEN fail("starts") ELSE ReserveRows(s, rows)

\* The pass writes the KV of every row's new tokens into the slots of its table.
WriteRow(s, row, m) ==
  LET q == s.req[row.rid]
      t == q.hold.cache
  IN  [b \in Blocks |->
         LET at == {i \in DOMAIN t.blocks : t.blocks[i] = b /\ i * BlockSize > row.start}
         IN  IF at = {} THEN m[b]
             ELSE SubSeq(DeviceTokens(q, row.rid), 1, Min({Max(at) * BlockSize, t.num_tokens}))]

\* After the pass: a row that reached the end of its sequence has a token coming; a
\* prefill, whole or in part, is committed to the prefix cache.
AfterRow(s, row) ==
  LET r         == row.rid
      q         == s.req[r]
      completes == row.start + row.n = SeqLen(q)
      placed    == [s EXCEPT !.req[r].output = Append(@, PLACEHOLDER), !.req[r].num_pending = @ + 1]
      t         == IF ~ completes THEN s
                   ELSE IF q.state = "PREFILL" THEN Transition(placed, r, "DECODE") ELSE placed
      c         == Commit(t.store, q.hold, TokensOf(t.req[r]))
  IN  IF completes /\ q.state # "PREFILL" THEN t
      ELSE [t EXCEPT !.store = c.store, !.req[r].hold = c.hold]

\* The output slot of each row: where its token goes, 0 for a chunk that stops short.
SlotsOf(s, batch) ==
  [i \in DOMAIN batch.rows |->
     LET row == batch.rows[i]
         q   == s.req[row.rid]
     IN  IF row.start + row.n = SeqLen(q) THEN Len(q.output) + 1 ELSE 0]

\* _Launched: the sampled token of every row that has a slot.
InFlight(slots, toks) ==
  [tokens |-> [i \in DOMAIN slots |-> IF slots[i] > 0 THEN toks[i] ELSE PLACEHOLDER], slots |-> slots]

-----------------------------------------------------------------------------
(* Read back *)

\* Faulty variant: the KV of a request that ended is not released.
RetireUnreleased(s, r) == Retire([s EXCEPT !.req[r] = DropPending(@)], r)

\* runner.release and Scheduler.retire.
RetireRequest(s, r) ==
  LET d == [s EXCEPT !.req[r] = DropPending(@)]
      q == d.req[r]
  IN  Retire([d EXCEPT !.store = IF r \in Range(s.running) THEN Release(@, q.hold, TokensOf(q)) ELSE @,
                       !.req[r].hold = NoHold], r)

\* Faulty variant: the length limit is noticed one token late.
ReadRowLate(s, r, tok, slot) ==
  LET q    == s.req[r]
      read == [s EXCEPT !.req[r].output[slot] = tok, !.req[r].num_pending = @ - 1]
  IN  IF slot = 0 \/ IsDone(q) THEN s ELSE
      IF slot > q.max_new \/ tok \in StopTokens
      THEN RetireRequest(Transition([read EXCEPT !.req[r] = DropPending(@)], r, "FINISHED"), r)
      ELSE read

\* Faulty variant: a stop token does not end the request.
ReadRowNoStop(s, r, tok, slot) ==
  LET q    == s.req[r]
      read == [s EXCEPT !.req[r].output[slot] = tok, !.req[r].num_pending = @ - 1]
  IN  IF slot = 0 \/ IsDone(q) THEN s ELSE
      IF slot >= q.max_new
      THEN RetireRequest(Transition([read EXCEPT !.req[r] = DropPending(@)], r, "FINISHED"), r)
      ELSE read

\* _process for one row: a token takes the place of its placeholder and may end the request.
ReadRow(s, r, tok, slot) ==
  LET q    == s.req[r]
      read == [s EXCEPT !.req[r].output[slot] = tok, !.req[r].num_pending = @ - 1]
  IN  IF slot = 0 \/ IsDone(q) THEN s ELSE
      IF slot >= q.max_new \/ tok \in StopTokens
      THEN RetireRequest(Transition([read EXCEPT !.req[r] = DropPending(@)], r, "FINISHED"), r)
      ELSE read

ReadBack(s, batch, fl) ==
  FoldLeftDomain(LAMBDA t, i : ReadRow(t, batch.rows[i].rid, fl.tokens[i], fl.slots[i]),
                 s, fl.slots)

-----------------------------------------------------------------------------
(* Actions *)

Alive == store.err = "none"

\* A free block counts as erased.
Kept(m, pool) == [b \in Blocks |-> IF pool.ref[b] = 0 THEN <<>> ELSE m[b]]

Assign(s) == /\ store' = s.store /\ req' = s.req
             /\ waiting' = s.waiting /\ running' = s.running

\* Engine.add_request; a request that could never fit is refused and leaves no trace.
AddRequest(job) ==
  /\ Alive /\ Len(req) < MaxRequests /\ CanAdd(job, 1)
  /\ req' = Append(req, NewRequest(job))
  /\ waiting' = Append(waiting, Len(req) + 1)
  /\ UNCHANGED <<store, running, launched, inflight, mem>>

\* Engine.abort, between steps; its token in flight is discarded when it is read back.
Abort(r) ==
  /\ Alive /\ ~ IsDone(req[r])
  /\ LET s == RetireRequest(Transition(Sched, r, "ABORTED"), r)
     IN  Assign(s) /\ mem' = Kept(mem, s.store.pool)
  /\ UNCHANGED <<launched, inflight>>

HasUnfinished == waiting # <<>> \/ running # <<>> \/ inflight # NotInFlight

\* Engine.step: schedule, launch, read back.  (\E x \in {e} gives e a name, like LET, and has
\* TLC compute it once.)
Step ==
  /\ Alive /\ HasUnfinished
  /\ \E policy \in Policies :
     \E sch \in {Schedule(Sched, policy)} :
     \E res \in {Reserved(sch.s, sch.batch)} :
     \E slots \in {SlotsOf(sch.s, sch.batch)} :
     \E toks \in [{i \in DOMAIN slots : slots[i] > 0} -> Tokens] :
       IF res.store.err # "none"
       THEN Assign(res) /\ UNCHANGED <<launched, inflight, mem>>
       ELSE \E fl \in {InFlight(slots, toks)} :
            \E after \in {FoldLeft(AfterRow, res, sch.batch.rows)} :
            \E done \in {IF Overlap THEN ReadBack(after, launched, inflight)
                                    ELSE ReadBack(after, sch.batch, fl)} :
              /\ Assign(done)
              /\ launched' = sch.batch
              /\ inflight' = IF Overlap THEN fl ELSE NotInFlight
              /\ mem' = Kept(FoldLeft(LAMBDA m, row : WriteRow(res, row, m), mem, sch.batch.rows),
                             done.store.pool)

Next == \/ \E job \in Jobs : AddRequest(job)
        \/ \E r \in Rids : Abort(r)
        \/ Step

\* A step would change something: ENABLED <<Step>>_vars.
StepChanges ==
  /\ Alive /\ HasUnfinished
  /\ \/ inflight # NotInFlight \/ launched # NoBatch
     \/ \E policy \in Policies : Schedule(Sched, policy) # [s |-> Sched, batch |-> NoBatch]

\* WF_vars(Step), with its enabling condition written out: the engine's owner steps as long
\* as there is work (Engine.generate, AsyncEngine).
KeepsStepping == []<>(~ StepChanges) \/ []<><<Step>>_vars

Spec == Init /\ [][Next]_vars /\ KeepsStepping

-----------------------------------------------------------------------------
(* Properties *)

\* Scheduler.schedule, ModelRunner.forward, Engine._launch and _process: no step raises.  The
\* scheduler's block budget always covers what the pass then allocates (no OutOfBlocks), a lone
\* request always fits, batch starts agree with the block tables, a placeholder is only ever
\* the input of a decode row whose token is in flight, and no request makes an invalid transition.
NothingRaises == store.err = "none"

\* The KV that Engine.step computes and reuses: at every step boundary a running request's
\* blocks hold the KV of exactly its own tokens, as the device has them, and the prefix cache
\* offers under a path the KV of that path.  Preemption, readmission on a cached prefix, a
\* token that was overtaken by the next launch, and blocks handed on while a batch is in
\* flight do not change what a request attends to.
KVMatchesTokens ==
  /\ \A r \in Range(running) : LET t == req[r].hold.cache IN
       \A i \in DOMAIN t.blocks :
         mem[t.blocks[i]] = SubSeq(DeviceTokens(req[r], r), 1, Min({i * BlockSize, t.num_tokens}))
  /\ \A p \in Paths(store.tree) : LET bs == PathBlocks(store.tree, p) IN
       \A i \in DOMAIN bs : mem[bs[i]] = SubSeq(p, 1, i * BlockSize)

\* Scheduler._schedule_chunked: "no step runs more than the budget".  Decode rows are never
\* refused, so this rests on there never being more decoding requests than the budget.
StepWithinBudget ==
  ChunkSize > 0 =>
    MapThenSumSet(LAMBDA i : launched.rows[i].n, DOMAIN launched.rows) <= ChunkSize

\* Scheduler._pick_victim: "A single request always fits: add() rejects requests larger than
\* the pool", so that the assertion behind it never fails.
LoneRequestFits == store.err # "lone request"

\* Scheduler._admit: "Right after an admission the next decode step therefore always fits",
\* without preempting anyone.
AdmissionLeavesRoom ==
  (ChunkSize = 0 /\ launched.rows # <<>> /\ launched.num_decode = 0)
    => DecodeNeed(Sched, running) <= NumAvailable(store)

\* The same sentence, where it is right: an admission locks nothing that others count on.
AdmissionLeavesRoomUncached == ~ store.radix => AdmissionLeavesRoom

\* Scheduler._preempt: under the default policy, pushing each victim to the front of the queue
\* "keeps arrival order": between steps, running and then waiting requests are in the
\* order of their arrival, whoever was preempted or aborted.
FCFSOrder ==
  Policies = {"fcfs"} =>
    LET queue == running \o waiting
    IN  \A i, j \in DOMAIN queue : i < j => queue[i] < queue[j]

\* Engine._retire, KVCacheManager.release: nothing is left behind.  Only running requests hold
\* blocks or a lock; when none runs every block is free or evictable from the prefix cache.
NoLeak ==
  /\ \A r \in Rids : r \notin Range(running) => req[r].hold = NoHold
  /\ running = <<>> => NumAvailable(store) = NumBlocks

\* Scheduler._pick_victim: the earliest admitted request stays the earliest admitted one until
\* it ends; only when its last token is already sampled may it lose its place.
OldestKept ==
  [][running # <<>> =>
       LET h == Head(running)
       IN  \/ IsDone(req'[h])
           \/ IsSpent(req[h])
           \/ running' # <<>> /\ Head(running') = h]_vars

\* "No deadlock": every request submitted ends, whatever arrives, is aborted, preempted or
\* evicted meanwhile, if the engine keeps being stepped while it has work.
EveryRequestEnds ==
  \A r \in 1 .. MaxRequests : (r \in Rids) ~> (r \in Rids /\ IsDone(req[r]))

\* Seen through the output a client can read (ready_ids) the engine implements Generation.
Gen == INSTANCE Generation WITH
  gen <- [r \in Rids |->
            [max_new |-> req[r].max_new, out |-> ReadyIds(req[r]),
             status  |-> CASE req[r].state = "FINISHED" -> "finished"
                           [] req[r].state = "ABORTED"  -> "aborted"
                           [] OTHER                     -> "open"]],
  GenTokens <- Tokens, GenStops <- StopTokens, GenMaxNew <- {j.max_new : j \in Jobs},
  GenMaxStep <- 1

\* Engine.step, _process, abort: no token is lost, repeated, or given out after the end; a
\* request finishes with its first stop token or its last allowed one, neither earlier nor
\* later, although the engine launches past an end it does not know of yet.
GeneratesInOrder == Gen!GenSpec
=============================================================================

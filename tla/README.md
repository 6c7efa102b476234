# A TLA+ model of mini-serve

mini-serve serves one language model to many clients at once. Requests are
batched step by step over a paged KV cache, share cached prefixes through a radix
tree, are preempted when the cache is short, and, by default, each step is
launched before the previous one has been read back. A thread runs the engine
behind an asynchronous HTTP server; a draft model can propose tokens that the
target verifies; passes are replayed as captured graphs; the block bookkeeping
exists twice, in Python and in C++; a benchmark measures the running server and a
performance gate guards the main branch.
This directory models these parts, checks them with TLC and proves part of them
with TLAPS.

## The system

| part | source | state | operations | talks to |
|---|---|---|---|---|
| block allocator | `miniserve/cache/block_allocator.py` | free stack, reference counts | allocate, incref, free, new_table | everything that holds KV |
| block table | `cache/block_table.py`, `cache/packing.py` | blocks, token count | append_tokens, rewind, release, slots, packing | allocator |
| radix tree | `cache/radix_tree.py` | nodes with blocks, lock, last access; two counters | match (splits), insert, lock, unlock, evict, clear | allocator |
| KV cache manager | `cache/kv_cache.py` | the tree, or none | acquire, abandon, commit, release, reserve, set_radix | tree, allocator, requests |
| C++ bookkeeping | `minicore/` | as the Python classes, plus drop counters and an eviction index | as the Python classes | chosen by `cache/backend.py` |
| request | `engine/request.py` | state, output, pending tokens, KV | transition, drop_pending | scheduler, engine |
| policies | `engine/policy.py` | none | order, pick_victim | scheduler, tree |
| scheduler | `engine/scheduler.py` | waiting queue, running list | add, schedule, retire | KV cache manager |
| model runner | `engine/model_runner.py` | pool, graphs, copy fence | forward, reserve, release, forward_tokens | tables, device |
| CUDA graphs, transfers | `engine/cuda_graph.py`, `model/transfer.py`, `cache/packing.py`, `model/attention.py` | pinned and static buffers, fence | stage, plan, replay | runner, device stream |
| engine | `engine/engine.py` | live requests, batch in flight | add_request, abort, step | scheduler, runner |
| speculative decoding | `spec/` | draft pool and tables, gamma | round, settle, draft prefill and proposals | engine, runner |
| asynchronous engine | `server/async_engine.py` | command queue, live streams, update queue | submit, abort, call, stop, engine thread, pump | engine, event loop |
| HTTP front end | `server/protocol.py`, `server/stats.py`, `server/__main__.py`, `engine/describe.py` | context length, configuration record, step counters | accept or refuse a request, count a step, snapshot | engine thread, clients |
| HTTP handlers, tokenizer | `server/app.py`, `server/tokenizer.py` | streams, decoding states | completions, disconnects, detokenize | asynchronous engine |
| serving benchmark | `bench/serving.py` | conditions met, rows, results file, sidecars | checks, levels of load, counters before and after | HTTP front end, genai-bench |
| offline benchmark and gate | `bench/offline.py`, `bench/sidecar.py`, `bench/gate.py` | results, sidecar, baseline, worktree | preflight, warm-up, measured runs, verdict | git, GPU |

What is hard here, and what correctness means part by part:

* **Sharing of blocks.** Tables and tree hold blocks together. A block must return to
  the pool exactly when its last holder lets go, and nobody may write into a block
  that somebody else reads.
* **The tree.** A lookup splits nodes that other requests have locked; eviction takes
  what only the tree holds, leaf by leaf. Locks, references and the two counters must
  agree, because admission trusts the counters. The C++ tree also keeps an ordered
  index of what is evictable, across every operation that changes a key.
* **The block budget.** The scheduler promises blocks before the pass allocates
  them, over several steps with chunked prefill. If it is wrong, `OutOfBlocks` surfaces
  in the middle of a step.
* **Preemption.** Victims go back to the queue and compete again; somebody must always
  make progress, and arrival order must survive.
* **Overlap.** The host schedules on output it does not know. A token may arrive for a
  request that has since ended, been aborted or been preempted.
* **Buffer reuse.** The host rewrites pinned buffers that queued copies read later,
  and graphs run on static buffers whose rows outlive a batch.
* **Rounds.** A round writes KV that it then disowns, in two pools of which only one is
  budgeted.
* **Threads.** A submission races with the death of the engine thread; a disconnect with
  the add it aborts; updates are batched, detokenized elsewhere and may fail there.
* **Limits.** The pool is rounded down to blocks and a request's need up; the limit a client
  meets and the one that the scheduler enforces are computed in different places.
* **Counters.** The event loop copies the step counters field by field, without a lock,
  while the engine thread writes them field by field.
* **Measurement.** Files change and processes fail in the middle of a session, and the
  machine drifts between the two sides of a comparison. A run over several levels may end
  at any of them, or in the middle of writing its rows, and the next one appends to the same
  file.

`PROJECT.json` lists each of these hazards at its line with the properties that would
catch it.

## Modules

```
BlockAllocator              operators: allocator, block table, packing
 |- BlockPool               tables that share one allocator
 |   |- CorePool            the C++ allocator and table, call by call
 |   `- BlockPoolProofs     (with AllocatorProofs: lemmas about the operators)
 |- RadixTree, KVManager    operators: prefix tree; KV cache manager over any tree
 |   `- KVCache             the manager over the Python tree
 |       |- PrefixCache     any interleaving of the manager's calls
 |       |   `- MiniCore    the same calls on the C++ tree (CoreTree) in lockstep
 |       `- Scheduler       operators: requests, policies, batch assembly
 |           `- Engine      add, abort, step                     ~~> Generation
 |               `- SpecEngine   rounds of proposals             ~~> Generation
Generation                  what a client is promised
 `- AsyncEngine (with Detokenizer)   threads and queues          ~~> Generation
     `- AsyncProofs
         `- WaitersProofs
             `- ClientProofs
GraphReplay                 host and device around one stream
 `- ReplayProofs
Bench                       one benchmark process
 `- Gate                    sessions of the performance gate
     `- GateProofs
Frontend                    what a client meets: limits, counters, configuration record
 `- Serving                 runs of the serving benchmark against it
     `- ServingProofs
```

The classes of the cache and the scheduler are values here, and their methods
operators on them, so that the same definitions serve a liberal state machine (any
order of calls) and the engine (the orders the code produces). `MC*` modules only
give constants their values. Definitions commented "Faulty variant" are plausible
bugs; each property is shown to notice one of them when it takes the place of the
definition below it.

* **BlockAllocator, BlockPool.** A pool is `[free, ref]`, a table `[blocks,
  num_tokens]`. A call that raises has its condition as an operator (`CanFree`, ...).
  The loop of `free` is kept turn by turn, since the order in which blocks come back
  decides which ones are handed out next.
* **CorePool.** What the C++ allocator, table and packing do in a given state,
  with the exceptions they throw and the scratch counters of `free`. In every state that
  `BlockPool` reaches, each call, refused ones included, must have the outcome of the
  reference.
* **RadixTree, KVManager, KVCache.** A node is named by its path (the tokens from the
  root), which is also its identity under splits: `_split` leaves the lower part, which
  others may hold, under the path it had. `last_access` is renumbered instead of
  counted up. The manager is one module whose tree is a parameter, as in the code. A
  store is `[pool, tree, radix, err]`; an exception is recorded in `err` and the state
  machines stop there.
* **PrefixCache.** Requests call acquire, abandon, forward, commit, release in any legal
  order; `set_radix` is called whenever nobody holds KV. `mem` is the device: a block
  holds the token prefix that ends in it, because the KV of a token depends on all tokens
  before it.
* **CoreTree, MiniCore.** The C++ tree with its eviction index and flags; each call of
  `PrefixCache` is made on both managers.
* **Scheduler.** The whole of `schedule()`, chunked or not, as operators on `[store, req,
  waiting, running, tokens_per_step]`: making room, decode rows, chunks, admission with
  its undo, and the three policies.
* **Engine.** A step is the whole of `Engine.step`: schedule, launch (fill of
  placeholders, reserve, the pass, placeholders, commit) and read-back of the
  previous batch with overlap, of this one without. The sampled tokens are chosen when
  the batch is launched; the host learns them at read-back.
* **SpecEngine.** Extends `Engine`'s state with `gamma` and the draft. The target picks
  `Greedy(context)`, where the context is what its KV blocks really hold; the draft may
  propose anything. A rewind leaves the rejected KV in place until it is overwritten.
* **GraphReplay.** The host prepares one pass after the other (stage, copy, fill, pack,
  plan, mark, launch); the device takes operations off the stream in order. A copy reads
  the pinned buffer when it runs. Rows carry the request and the pass they were
  written for, which is all that a wrong row differs in. A batch runs eagerly if it is
  larger than the graphs or also prefills (`Prefills`); a request that is new to a pass has
  its tokens from the host, as a prefill has.
* **AsyncEngine, Detokenizer.** Event loop, engine thread and tokenizer worker around the
  command queue and its lock, the loop's callback queue and the update queue. What the
  loop does between two awaits is one step, except that `_send` is split between its
  check and its put. The engine is any that keeps `Generation`'s promises. Tokens are
  bytes of two-byte characters, so that a character may be split over tokens. The updates
  of a step are one item of the loop's callback queue, as in the code; once the callback has
  run, the update queue is the sequence of the updates themselves, because the pump takes
  all there is at once.
* **Bench, Gate.** A benchmark process from preflight to sidecar, whose every stage may
  fail, and sessions of `gate.py` that start several of them in turn in working tree and
  worktree, while a developer commits, edits and merges and the machine drifts.
* **Frontend.** A server that starts with some memory and some pool asked for, which settle
  the number of blocks and the context; the conditions under which `sampling_params` and
  `Scheduler.add` accept a request; and the step counters, written and read one field at a
  time. `Fields` says which of the counters are followed.
* **Serving.** `main` of `bench/serving.py` from its conditions over the levels to rows and
  sidecar, invoked again and again. Each condition may fail where it is looked at, the
  load generator may fail, `/stats` may not answer, and the run may be interrupted
  anywhere. A level remembers the counters when it began and around its load, as history,
  to say what its difference must contain. The results file is opened and written line by
  line, a header first if it was not there, one line for each level; an interrupt
  leaves the lines written so far, or part of the next one.
* **Generation.** Outputs grow by up to `GenMaxStep` tokens at a time, end with the first
  stop token or at the length limit and not before, and are then frozen.

Left out of the data: token ids (two or three model values), sampling parameters
other than the limit and the stop tokens, statistics, formatting. Left out of the
control: the contiguous reference attention (`kv is None`) and operator paths.

## Runs

| run | instance | distinct states | shows |
|---|---|---|---|
| `block_pool` | 4 blocks of 2, 3 tables, appends of up to 3 tokens, block arguments of up to 3 ids from -1 to 4 | 8 460 | counts match holders and appends are exclusive; the C++ calls against the reference |
| `prefix_cache` | 3 blocks of 2, 2 requests, prompts `aaaa`, `aabb`, `bbbbb` | 110 454 | tree, locks, references and KV contents agree in any interleaving; nothing raises; both trees do the same |
| `engine_chunked` | 4 blocks of 2, 3 requests (`aaaa`+2, `a`+3), 2 tokens per step, overlap, prefix cache, fcfs | 30 326 | the default engine: no exception, KV of the right tokens, budget, order, no leak, every request ends, implements `Generation` |
| `engine_whole` | as above with whole prefills, all policies switched at will, with and without prefix cache | 79 478 | admission leaves room without the cache, the oldest request keeps its place, nobody starves |
| `lone_request` | 3 blocks, 3 tokens per step | violation | finding 1 |
| `async_order` | 1 request of 2 tokens, any failures, disconnect, stop | 124 618 | what a client reads, its text, and that it ends; aborts of requests nobody reads; decoding states are dropped |
| `async_two` | 2 requests of 1 token and a call, failing steps | 4 922 759 | nobody who waits is forgotten when the thread dies |
| `async_stop` | 1 request, no failures, stop | violation | finding 2 |
| `spec_rounds` | 5 blocks of 2, 2 requests (`aab`+5, `b`+3), gamma 0, 1 or 2 changed between steps | 10 722 | output is greedy whatever is proposed, both tables in step, the unbudgeted draft pool suffices, every request ends |
| `graph_replay` | batches of 1 to 5 rows of 5 requests, one small one with a prefill, graphs of 1, 2 and 4 rows, 4 passes ahead of the device | 47 701 | no buffer is rewritten too early; every pass runs on its own rows and pads with the dummy block |
| `gate` | 2 workloads, changes of 4 %, drift of -8, 0 or 2 per unit, 2 rounds, window of 1 sample | 1 603 712 | verdicts, merges and the context of every number |
| `serving` | blocks of 2, memory for none or 3 of them, a pool of 1 or 3 tokens or none asked for, context of 5; 2 runs of 2 levels, 2 steps, 2 counters | 690 381 | an accepted request is one the scheduler takes; counters of a level; only qualified runs in the results file, and whole ones where there is a sidecar |

Bounds. Blocks of two tokens are the smallest with both full and partly filled
blocks. Prompts that share one block and differ in the next force splits; a prompt of
whole blocks that is cached already forces the recomputed duplicate; a sampled token
completes a block during decoding. In `engine_chunked` three requests need up to
eight blocks of a pool of four; preemption of a decoding request, of one between two
chunks and of a spent one, eviction, readmission on a cached prefix, mixed batches
and tokens that arrive after the end each occur. In `spec_rounds` the pool cannot hold
both requests to their end, and the target's choice depends on the whole context, so
that stale KV shows in the output. `graph_replay` has batches that grow, shrink, swap
rows, reuse a bucket, outgrow the graphs or run eagerly although they are small, in any
order of four. In `async_order` two
tokens are enough for an output that is split, batched or overtaken; in `async_two` the
second request is what is queued behind the failure of the first. In `gate` one change
passes and two in a row do not; one drift is bearable in a session and one is not.
In `serving` a pool of 3 tokens is one that is rounded down, and two counters and two steps
are enough for a snapshot that mixes a step with the one before it; the second run meets
what the first has left in the file and in flight.
Bounds that are not the code's own: `MaxRequests`, `MaxAppend`, `MaxBlockArgs`, `MaxLen`,
`MaxSteps`, `MaxStreams`, `MaxAway`, `MaxRuns`, and the sets of jobs, batches and changes.
Holders and the requests of `prefix_cache` are symmetric; the other runs use no
symmetry, because ids are arrival order or liveness is checked.

Deadlock is not an error where the system may stop: with every request ended the engine
waits for a command, the server may have stopped, `graph_replay` ends with its last
pass and `serving` with its last run.

Fairness. `Engine!Spec` assumes that the engine is stepped again as long as a step would
change something: `Engine.generate` loops over `step` while `has_unfinished`, and the
engine thread steps whenever it has work. The formula is `WF_vars(Step)` with ENABLED
written out, because TLC evaluates ENABLED of so large an action too slowly; a step
that changes nothing while work is left counts as not enabled, so that such a stall
refutes `EveryRequestEnds` instead of being assumed away. `SpecEngine` does the same. In
`AsyncEngine` every internal action of a thread, of the pump, of a handler that keeps
reading and of a watcher is weakly fair, because threads are scheduled and asyncio runs
ready callbacks. Clients get no fairness: they may never submit, stall or leave.
The engine need not advance a request; only `EveryStreamEnds` assumes it
(`EngineAdvances`, the promise that `EveryRequestEnds` checks of `Engine`), while
`GoneIsAborted` holds for an engine that never does.

### Refinements

`Engine` implements `Generation` with `ready_ids` as the output (`GeneratesInOrder`);
`SpecEngine` implements it with up to gamma + 1 tokens a step (`RoundsGenerate`). So
`AsyncEngine` is built over `Generation` instead of an engine, and its clients again see
`Generation`, of what they have taken from their streams (`ClientSeesGeneration`). The C++
bookkeeping implements the Python one state by state (`CoreMatchesReference`,
`SameAsReference`).

### Findings

1. **A lone request may not fit** (`lone_request`). `Scheduler._pick_victim` and
   `_make_room_chunked` assert that a single request always fits because `add()` rejects
   larger ones. `acquire` leaves the last token of the lookup out, so a prompt of whole
   blocks that is cached in full has its last block computed again into a block of its
   own, and `commit` locks the cached copy too. The request then pins one block more
   than its table has. If its own blocks fill the pool, its first decode step fails
   the assertion. It takes two requests with the same block-aligned prompt.
2. **stop() can leave a stream open** (`async_stop`). `stop()` puts its marker, joins the
   engine thread and then cancels the pump. The thread's last updates, "server shutting
   down" for every request that is live when it comes to the marker, may at the end of the
   join be with the tokenizer's worker: the pump is cancelled at that await, nothing is
   pushed, and a handler that waits for its next output waits for ever. The property
   speaks of requests that are live during the join, and TLC's trace is this one: the add is
   handled, the thread takes the marker and publishes, the pump takes the update, `stop()`
   cancels it.

The passing engine runs with the prefix cache therefore use a pool with one block more
than the largest request.

Smaller remarks, without a run of their own. "Right after an admission the next decode step
therefore always fits" (`scheduler.py:27`) fails with the prefix cache for the reason of
finding 1: the cached duplicate is counted as available at admission and locked by the
commit of the same step. Somebody is then preempted; nothing breaks unless finding 1
applies. Without the prefix cache the sentence holds for one token per step
(`AdmissionLeavesRoomUncached`). `last_block_len` promises "1..block_size"
(`block_table.py:35`), which a rewound table that keeps spare blocks does not satisfy.
Raising gamma after `add()` accepted a request can make the lone-request assertion fail,
since `add()` counted with the old `tokens_per_step` (`spec/engine.py:181`); the pool of
`spec_rounds` is large enough for the largest gamma. The draft's pool covers the target's
"at every instant" (`spec/draft.py:11`) at step boundaries; within a round the draft may
be ahead of the target's table for a moment, which `SpecNothingRaises` shows to be
harmless. When `detokenize` itself fails, the decoding states of the items that it gives up may
be kept until the process ends (`tokenizer.py:118`), so `DecoderDropped` excepts them (a
state remembers as history that this happened to it). A submission after `stop()` has put
its marker lands in a queue that nobody reads any more, because `stop()` does not set
`dead` (`async_engine.py:164`); nothing in the code promises such a stream anything. In the serving benchmark a CPU that cannot be read is recorded as
"unknown", which counts as filled although "a run that cannot fill one of these does not write
results" (`serving.py:47`); a server whose git cannot be asked counts as clean
(`describe.py:66`); and the rows are written one by one and before the sidecar, so that an
interrupt leaves all or part of a run's rows without one. A run that is interrupted right after it
has made the file leaves it empty, and later runs write no header then; a line that was cut is
continued by the first line of the next run. `SidecarVouches` says what can still be
relied on. One property was expected to be fragile and is not: decode rows are never
refused, yet a step never exceeds the chunk budget, because every decoding request was
a row of the step before.

## Proofs

| module | theorem | statement |
|---|---|---|
| `BlockPoolProofs` | `PoolTypeCorrect` | `Spec => []TypeOK` |
| | `PoolRefsCorrect` | `Spec => []BlocksConserved` |
| | `PoolTablesSound` | `Spec => []TablesSound` |
| | `PoolAppendsExclusive` | `Spec => []AppendsExclusive` |
| | `PoolReleasePossible` | `Spec => []ReleaseAlwaysPossible` |
| `AsyncProofs` | `AsyncNoneLeftBehind` | `Spec => []NoneLeftBehind` |
| `WaitersProofs` | `AsyncWaitersServed` | `Spec => []WaitersServed` |
| | `AsyncAbortQueued` | `Spec => []AbortQueued` |
| `ClientProofs` | `AsyncClientSeesGeneration` | `Spec => ClientSeesGeneration` |
| `ReplayProofs` | `ReplayCopiesUndisturbed` | `Spec => []CopiesUndisturbed` |
| | `ReplayRunsOnOwnInputs` | `Spec => []RunsOnOwnInputs` |
| `ServingProofs` | `ServingTypes` | `Spec => []TypeOK` |
| | `ServingAcceptedFits` | `Spec => []AcceptedFits` |
| | `ServingLevelCounted` | `Spec => []LevelCounted` |
| | `ServingSidecarVouches` | `Spec => []SidecarVouches` |
| `GateProofs` | `GateNumbersHaveContext` | `Spec => []NumbersHaveContext` |
| | `GateEqualNeverFails` | `Spec => []EqualNeverFails` |
| | `GateMergedNearReference` | `ShortWarmUp` implies `Spec => []MergedNearReference` |

**Block pool**, for every `NumBlocks`, `BlockSize`, `MaxAppend` and finite set of holders.
`AllocatorProofs` proves what the operators do: `FreeEffect` (after `free`, every
count has dropped by the block's occurrences and the pool is consistent if it was),
`AllocateEffect`, `IncrefEffect`, `NewPoolConsistent`. `free` is a loop; `DropsTurns`
describes one turn of the recursive function that models it, and the effect of the whole
loop follows from the invariant of its turns by taking the least turn that could
break it (`LeastNat`, `LoopRuns`), so that no induction principle with an operator
parameter is needed. The inductive invariant `IInv` is `TypeOK`, the
invariants of the run about the Python classes, and `TablesSound`, from which also follows
that a release is never refused. None of its parts is inductive alone: `release` keeps the stack consistent
only if counts cover the table's blocks (`RefsCountHolders`, and no block twice in a
table: `TablesSound`); counts equal holders after `append_tokens` only if popped blocks
had none (`FreeMatchesRefs`); and appends stay exclusive after a share only because a
shared block is full. The assumptions are those of the code's constructors
(`PoolAssumption`) and that holders are finitely many (`HoldersAssumption`).

**Command queue**, for any number of streams and calls, any token budget and any choice of
failures. `NoneLeftBehind` is not inductive: a command that has been checked and not put
would arrive after the drain. `IInv` adds that whoever is between check and put holds
the lock and that the engine is not dead then (`SenderHoldsLock`), that the thread holds
the lock exactly while it drains, which is where death leads (`DrainHoldsLock`), and that
the queue is a sequence (`CommandsInOrder`). Aborts and the stop marker are put without
the lock; the proof shows that this is harmless, because nobody waits for them.

**Waiters and aborts**, on top of `IInv`, for any number of streams and calls, any engine that
keeps `Generation`, any tokenizer and any failures. Two facts are followed through every
step. A request is in one place: its add is queued once (`AddedOnce`), then it is live
(`LiveOK`), and whoever takes it out of either publishes an update for it. And a stream that is
over (its handler has ended, its client is gone, its tokenizer has failed, or an output that
ends it is on its way from the pump) has an abort behind its add, or is no longer live
(`OverIsAborted`). `CommandsOK`, `StreamsOK`, `PumpOK` and `DeliveryOK` say what may stand in
the queues, `StopOK` what stop has done. The engine thread's steps share one shape,
`ThreadEffect(list)`: it takes a command or none, publishes `list`, and every request that it
loses is in `list`. The loop's steps leave the queue as it is or append to it (`KeptQueue`,
`KeptOver`, `KeptWaiters`). So each part of the invariant is proved once per shape and each
action is shown to have its shape. That `InOrder` enumerates exactly its set
(`Enumerated`) is an argument on the least rank that would be missing, on the well-founded
order of the naturals. `WaitersServed` includes calls, and speaks of a server that is not
stopped, as finding 2 requires; `AbortQueued` holds in any case.

**The client's view**, on top of the invariant of the waiters: the asynchronous engine
implements `Generation` by what clients have got. The mapped state of a stream changes only
when its client takes an item from its queue, which may be many steps after the
engine generated the token, with other streams, failures, aborts and a stop in between. The
invariant `DInv` therefore follows the way from the engine to the client as one row of lists,
next to be read first: the stream's queue, the pump's batch, the pump's updates, and one
list for each callback that the loop still has to run. `Chain` says that the tokens that the
engine has handed over and the client has not got are on that way, each in one item, in the
order of generation, and that an item's finish reason agrees with the token in it; `Origin`
says what the engine has of the request by then (not yet added, live with exactly these
tokens, or ended). Every step then has one of a few shapes, with a lemma each: items move
along and keep their order (`Moved`), the first is taken (`Popped`), one is put behind all
others (`Extended`), or, when stop cancels the pump, the way is cut behind the queue (`Cut`).
Cutting is the case that makes the invariant long: tokens are lost then, and the refinement holds only
because nothing comes after them (`CutIsEnded`). `ClientInit` and `ClientStep` map the initial
states and the steps. `AsyncAssumption` states what this needs of the constants: lengths are at least 1,
as `Request` demands (`request.py`), and a step of `Generation` may yield at least one token.

**Pinned buffers**, for any batches, graph sizes and number of passes. `CopiesUndisturbed`
alone says nothing about the next write. `IInv` adds where in a pass the host is and what
it has written by then (`InPass`, `WrittenFirst`), that the stream is in order
(`InOrder`), and that every queued copy of an earlier pass stands before the event that the
fence waits for (`Fenced`). When the event has passed, no copy is left, and the next pass
may write.

`RunsOnOwnInputs` needs more: not only that a buffer is not overwritten too early, but what the
device has in it when the run comes up. `PInv` goes by the place of a pass's run in the stream.
It tells which operations of the pass are still queued before it and, by that, which the
device has done: the copies that are no longer queued have put their rows into the static
inputs, and a pass whose run is no longer queued has left its samples (`QueuedPasses`). The
same is said of the pass that the host is preparing (`PassInPreparation`), whose run is not
queued yet, and of the one that will follow it (`NextPass`); `Buffers` says that
the static buffers keep their full size. A step of the device takes the first
operation of the stream, so it moves one pass by one place and leaves the others where they
were; a step of the host appends, and moves only the pass in preparation.

**Serving**, for any sizes, requests, batches, choice of counters, levels and number of runs.
`AcceptedFits` needs only that the context of a server with a pool is at most its blocks
times their size (`PoolHoldsContext`) and that rounding up what fits in whole blocks stays
within them (`BlocksForFits`). `LevelCounted` is about snapshots that are torn:
`Bracketed` says that every field read so far lies between the counters when the reading
began and the counters now, and orders by it the five moments of a level. Since every
counter only grows (`RecordGrows`), the difference of two such readings is bounded field by field;
that the fields belong to one instant is not needed, and not true. `SidecarVouches` follows
the run in memory (`RunOK`: which conditions hold at which place, and that every level kept
so far succeeded) and the file (`FileOK`: lines are of runs up to the current one, which has
none before it opens the file, then whole ones for every level before the next line, and all
of them when its sidecar is due; a header is due only while the file is empty). A run that was
interrupted keeps what it has in the file, and only its number, smaller than that of
every later run, is needed of it.

**Gate**, for any workloads, changes, drifts, clocks and rounds. A process has passed what
lies behind it (`StageOK`), it measures the commit of its side and lives in a session that
measures (`ProcessOK`), the session keeps only what such processes left behind
(`SessionOK`), and an arm starts no more processes than its order has (`ArmOK`).
The two other properties compare medians, and need to know when each number was measured
(`ClockOK`): the rows of a process follow each other from its start (`RowsAt`), its processes
follow each other in the order of the code (`ArmTimes`, `Abba`). Values that drift linearly are
monotone in time, so the k-th smallest is at a known place (`KthUp`, `KthDown`, `KthFlat`), and
the median of an arm's side is the throughput of the commit plus the drift at a known time
(`MedianOfRows`, `MedianOfTwo`). If the two processes of the reference are 2g apart, the drift
moves the two sides apart by at most g (`Judged`): the session is inconclusive before an equal
commit could fail. For `MergedNearReference` the medians must also be near the throughput the
reference has without drift. The first workload gives that: it starts within one warm-up of the
session's beginning, so the drift at its medians is at most 13 g (`PassIsNear`). This is the
hypothesis `ShortWarmUp`, that the longest warm-up is at most 17 times the rounds and the least
warm-up together; the defaults of `bench/offline.py` are 90 s and 10 s. With a longer one the
bound would only hold for the reference as measured. `GateAssumption` says that
throughputs are positive (`MaxAway < Start`). `Kth` is written without sorting because the
prover knows nothing of `SortSeq`.

Only model-checked: all liveness (TLAPS proves none under fairness); the
refinements by the engine and by speculation, which rest on the definition of a whole step; the tree, the manager, the scheduler, the
engine and speculation, whose helpers are folds and recursions over data; the C++
bookkeeping against the Python one; `TextExact`, which is about what a recursive decoder
computes; and `DecoderDropped`.

## Not modelled

* Sampler, attention and the other numerics: any token may be sampled. The models use
  only that the KV of a token depends on the tokens before it.
* Graph capture: it happens once, before any request. Of profiling, only the size that comes
  out is modelled.
* Formatting of responses; `encode`; the bindings' conversions.
* What the load generator measures, and sglang as the server; ablations, charts, roofline and blueprint reports, comparison
  scripts and command line tools: sequential scripts around CSV files and
  plots, without state that outlives a run.
* Of the gate: rounding of throughputs to a tenth, `--repeat`, `--allow-dirty`, checks of
  the baseline file that end before anything runs, and HEAD moving during a session; of
  the benchmark: several arms in one process.
* Calls are checked by an invariant (`WaitersServed`: an answer is always on its way) and
  not by a liveness property of their own.

## What could follow

1. A proof of `DecoderDropped`: the item that ends a stream is the
   last of its items to be decoded, along the way that `ClientProofs` follows.
2. Proofs of the tree's locks and counters along `TreeConsistent` and `HoldersCounted`,
   and of `StepWithinBudget` as an inductive argument on decoding rows.

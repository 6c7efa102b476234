----------------------------- MODULE Scheduler -----------------------------
(***************************************************************************)
(* Requests (miniserve/engine/request.py), the scheduling policies         *)
(* (engine/policy.py) and batch assembly (engine/scheduler.py), as         *)
(* operators over a scheduler state                                        *)
(*    s = [store, req, waiting, running, tokens_per_step, preempted]:      *)
(* the KV cache manager, the request records by id, the two queues, how    *)
(* many tokens a decode step may append to a request, and the requests     *)
(* that scheduling this step has preempted.                                *)
(*                                                                         *)
(* A request record is [state, prompt, max_new, output, num_pending, hold].*)
(* output is what the host knows: the last num_pending entries are         *)
(* PLACEHOLDERs for tokens that were sampled and not read back.  Counters  *)
(* that only feed statistics are left out.                                 *)
(*                                                                         *)
(* A batch is [rows, num_decode]; a row is [rid, start, n]: n new tokens   *)
(* behind start tokens whose KV exists.  Rows 1..num_decode are decodes.   *)
(***************************************************************************)
EXTENDS KVCache

CONSTANTS MaxRunning,         \* most requests running at once
          MaxPrefillTokens,   \* prefill budget of a batch without chunking
          ChunkSize           \* token budget of a step with chunking; 0: no chunking

ASSUME SchedulerAssumption ==
  /\ MaxRunning \in Nat \ {0} /\ MaxPrefillTokens \in Nat \ {0}
  /\ ChunkSize \in Nat

PLACEHOLDER == "placeholder"

\* Faulty variant: a waiting request cannot finish.
TransitionsNoLateEnd ==
  [WAITING  |-> {"PREFILL", "ABORTED"},
   PREFILL  |-> {"DECODE", "FINISHED", "ABORTED", "WAITING"},
   DECODE   |-> {"FINISHED", "ABORTED", "WAITING"},
   FINISHED |-> {},
   ABORTED  |-> {}]

\* request.py, _TRANSITIONS.
Transitions ==
  [WAITING  |-> {"PREFILL", "ABORTED", "FINISHED"},
   PREFILL  |-> {"DECODE", "FINISHED", "ABORTED", "WAITING"},
   DECODE   |-> {"FINISHED", "ABORTED", "WAITING"},
   FINISHED |-> {},
   ABORTED  |-> {}]

NewRequest(job) == [state |-> "WAITING", prompt |-> job.prompt, max_new |-> job.max_new,
                    output |-> <<>>, num_pending |-> 0, hold |-> NoHold]

TokensOf(q) == q.prompt \o q.output
SeqLen(q) == Len(q.prompt) + Len(q.output)
ReadyIds(q) == SubSeq(q.output, 1, Len(q.output) - q.num_pending)
IsDone(q) == q.state \in {"FINISHED", "ABORTED"}
ReachedMaxTokens(q) == Len(q.output) >= q.max_new
DropPending(q) == [q EXCEPT !.output = ReadyIds(q), !.num_pending = 0]

\* Request.transition; InvalidTransition is an exception like any other.
Transition(s, r, new) ==
  IF new \in Transitions[s.req[r].state]
  THEN [s EXCEPT !.req[r].state = new]
  ELSE [s EXCEPT !.store = Raise(@, "InvalidTransition")]

\* Decoding and with tokens left to produce.
Decodes(q) == q.state = "DECODE" /\ ~ ReachedMaxTokens(q)

\* Its last token is sampled and not read back: it needs no more steps.
IsSpent(q) == q.state = "DECODE" /\ ReachedMaxTokens(q)

\* Scheduler.add refuses what could never fit; a step may overshoot the last token by n - 1.
CanAdd(job, n) == BlocksFor(Len(job.prompt) + job.max_new + n - 1) <= NumBlocks

-----------------------------------------------------------------------------
(* Policies *)

RemainingWork(q) == SeqLen(q) - q.hold.cache.num_tokens + q.max_new - Len(q.output)

\* The sequence by key (a function of its elements), smallest first; ties keep their order
\* (Python's sort is stable).
StableSort(sq, key) ==
  LET before(i, j) == key[sq[i]] < key[sq[j]] \/ (key[sq[i]] = key[sq[j]] /\ i < j)
      order == SetToSortSeq(DOMAIN sq, before)
  IN  [k \in DOMAIN sq |-> sq[order[k]]]

\* The order in which admission tries the waiting requests.
Order(s, policy) ==
  CASE policy = "fcfs"  -> s.waiting
    [] policy = "sjf"   -> StableSort(s.waiting,
                             [r \in Range(s.waiting) |-> RemainingWork(s.req[r])])
    [] policy = "cache" -> StableSort(s.waiting,
                             [r \in Range(s.waiting) |->
                                - Len(CachedPrefix(s.store, TokensOf(s.req[r])))])

\* The request to preempt: the last admitted one; under sjf the one with the most work
\* left, the last admitted among equals.
Victim(s, candidates, policy) ==
  IF policy # "sjf" THEN Last(candidates) ELSE
  LET work(i) == RemainingWork(s.req[candidates[i]])
  IN  candidates[CHOOSE i \in DOMAIN candidates : \A j \in DOMAIN candidates :
                   work(j) < work(i) \/ (work(j) = work(i) /\ j <= i)]

-----------------------------------------------------------------------------
(* Block budget *)

\* Blocks the next decode step of these requests would allocate.
DecodeNeed(s, rids) ==
  MapThenSumSet(LAMBDA r : BlocksNeeded(s.req[r].hold.cache, s.tokens_per_step),
                {r \in Range(rids) : Decodes(s.req[r])})

\* Faulty variant: no room for the token after the prefill.
PrefillNeedBare(q, hold) == BlocksFor(SeqLen(q)) - Len(hold.cache.blocks)

\* The rest of a prefill of q on top of what hold has, and the token after it.
PrefillNeed(q, hold) == BlocksFor(SeqLen(q) + 1) - Len(hold.cache.blocks)

\* Blocks these requests may still allocate before any of them finishes.
Outstanding(s, rids) ==
  DecodeNeed(s, rids)
    + MapThenSumSet(LAMBDA r : PrefillNeed(s.req[r], s.req[r].hold),
                    {r \in Range(rids) : s.req[r].state = "PREFILL"})

-----------------------------------------------------------------------------
(* Preemption *)

\* Faulty variant: the victim queues up behind everybody.
PreemptToBack(s, r) ==
  LET t == Transition(s, r, "WAITING") IN
  [t EXCEPT !.store = Release(@, s.req[r].hold, TokensOf(s.req[r])),
            !.req[r].hold = NoHold,
            !.running = Remove(@, r),
            !.waiting = Append(@, r)]

\* _preempt: back to the front of the queue; the full blocks stay in the prefix cache.
Preempt(s, r) ==
  LET t == Transition(s, r, "WAITING") IN
  [t EXCEPT !.store = Release(@, s.req[r].hold, TokensOf(s.req[r])),
            !.req[r].hold = NoHold,
            !.running = Remove(@, r),
            !.waiting = <<r>> \o @,
            !.preempted = @ \cup {r}]

\* Faulty variant: the earliest admitted request is a candidate like any other.
PreemptAnyOne(s, pool, policy) ==
  LET spent == SelectSeq(s.running, LAMBDA r : IsSpent(s.req[r]))
  IN  IF spent # <<>> THEN Preempt(s, Last(spent)) ELSE
      IF Len(pool) < 2 THEN [s EXCEPT !.store = Raise(@, "lone request")] ELSE
      Preempt(s, Victim(s, pool, policy))

\* One turn of _make_room (over the decoding requests) and of _make_room_chunked (over all
\* running ones): spent requests go first, the earliest admitted is never a candidate.
PreemptOne(s, pool, policy) ==
  LET spent      == SelectSeq(s.running, LAMBDA r : IsSpent(s.req[r]))
      candidates == SelectSeq(pool, LAMBDA r : r # Head(s.running))
  IN  IF spent # <<>> THEN Preempt(s, Last(spent)) ELSE
      IF candidates = <<>> THEN [s EXCEPT !.store = Raise(@, "lone request")] ELSE
      Preempt(s, Victim(s, candidates, policy))

\* The requests that room must be made for, and what they need.
Decoding(s) == SelectSeq(s.running, LAMBDA r : Decodes(s.req[r]))
RoomFor(s) == IF ChunkSize > 0 THEN s.running ELSE Decoding(s)
RoomNeed(s) == IF ChunkSize > 0 THEN Outstanding(s, s.running) ELSE DecodeNeed(s, Decoding(s))

\* Faulty variant: nobody is preempted.
MakeNoRoom(s, policy) == s

MakeRoom(s, policy) ==
  FoldLeft(LAMBDA t, turn : IF t.store.err = "none" /\ RoomNeed(t) > NumAvailable(t.store)
                            THEN PreemptOne(t, RoomFor(t), policy) ELSE t,
           s, s.running \o <<0>>)

-----------------------------------------------------------------------------
(* Batches without chunked prefill *)

\* One turn of the loop of _admit over the waiting requests.
AdmitWhole(acc, r) ==
  LET s    == acc.s
      q    == s.req[r]
      a    == Acquire(s.store, TokensOf(q))
      n    == SeqLen(q) - a.hold.cache.num_tokens
      need == PrefillNeed(q, a.hold)
      fits == /\ acc.rows = <<>> \/ n <= acc.budget
              /\ need <= NumAvailable(a.store) - DecodeNeed(s, s.running) - acc.reserved
      t    == Transition(s, r, "PREFILL")
  IN  IF acc.stop \/ Len(s.running) + Len(acc.rows) >= MaxRunning \/ q.num_pending > 0
      THEN [acc EXCEPT !.stop = TRUE] ELSE
      IF ~ fits THEN [acc EXCEPT !.stop = TRUE, !.s.store = Abandon(a.store, a.hold)] ELSE
      [acc EXCEPT !.s = [t EXCEPT !.store = a.store, !.req[r].hold = a.hold,
                                  !.waiting = Remove(@, r)],
                  !.rows = Append(@, [rid |-> r, start |-> a.hold.cache.num_tokens, n |-> n]),
                  !.budget = @ - n,
                  !.reserved = @ + need]

\* The decode rows of a step.
DecodeRows(s) ==
  [i \in DOMAIN Decoding(s) |->
     [rid |-> Decoding(s)[i], start |-> SeqLen(s.req[Decoding(s)[i]]) - 1, n |-> 1]]

DecodeBatch(s) == [s |-> s, batch |-> [rows |-> DecodeRows(s), num_decode |-> Len(DecodeRows(s))]]

PrefillBatch(acc) ==
  [s     |-> [acc.s EXCEPT !.running = @ \o [i \in DOMAIN acc.rows |-> acc.rows[i].rid]],
   batch |-> [rows |-> acc.rows, num_decode |-> 0]]

\* A prefill batch if anybody is admitted, else one token for everybody that decodes.
WholeBatch(acc, policy) ==
  IF acc.rows # <<>> THEN PrefillBatch(acc) ELSE DecodeBatch(MakeRoom(acc.s, policy))

ScheduleWhole(s, policy) ==
  WholeBatch(FoldLeft(AdmitWhole,
                      [s |-> s, rows |-> <<>>, budget |-> MaxPrefillTokens, reserved |-> 0,
                       stop |-> FALSE],
                      Order(s, policy)),
             policy)

-----------------------------------------------------------------------------
(* Batches with chunked prefill *)

\* Faulty variant: the chunk is not cut to the budget.
ContinueWhole(acc, r) ==
  LET q     == acc.s.req[r]
      start == q.hold.cache.num_tokens
      n     == SeqLen(q) - start
  IN  IF q.state = "PREFILL" /\ acc.budget > 0
      THEN [acc EXCEPT !.rows = Append(@, [rid |-> r, start |-> start, n |-> n]), !.budget = @ - n]
      ELSE acc

\* The next chunk of a request that is part-way through its prefill.
ContinuePrefill(acc, r) ==
  LET q     == acc.s.req[r]
      start == q.hold.cache.num_tokens
      n     == Min({SeqLen(q) - start, acc.budget})
  IN  IF q.state = "PREFILL" /\ acc.budget > 0
      THEN [acc EXCEPT !.rows = Append(@, [rid |-> r, start |-> start, n |-> n]), !.budget = @ - n]
      ELSE acc

\* One turn of the admission loop of _schedule_chunked.
AdmitChunk(acc, r) ==
  LET s      == acc.s
      q      == s.req[r]
      a      == Acquire(s.store, TokensOf(q))
      cached == a.hold.cache.num_tokens
      need   == PrefillNeed(q, a.hold)
      n      == Min({SeqLen(q) - cached, acc.budget})
      t      == Transition(s, r, "PREFILL")
  IN  IF acc.stop \/ acc.budget <= 0 \/ Len(s.running) >= MaxRunning \/ q.num_pending > 0
      THEN [acc EXCEPT !.stop = TRUE] ELSE
      IF need > NumAvailable(a.store) - Outstanding(s, s.running)
      THEN [acc EXCEPT !.stop = TRUE, !.s.store = Abandon(a.store, a.hold)] ELSE
      [acc EXCEPT !.s = [t EXCEPT !.store = a.store, !.req[r].hold = a.hold,
                                  !.waiting = Remove(@, r), !.running = Append(@, r)],
                  !.rows = Append(@, [rid |-> r, start |-> cached, n |-> n]),
                  !.budget = @ - n]

\* Decode rows, then chunks of requests part-way through, then newly admitted ones.
ChunkedRows(s, policy) ==
  LET acc == [s |-> s, rows |-> DecodeRows(s), budget |-> ChunkSize - Len(DecodeRows(s)),
              stop |-> FALSE]
  IN  FoldLeft(AdmitChunk, FoldLeft(ContinuePrefill, acc, s.running), Order(s, policy))

ChunkedBatch(room, acc) ==
  [s |-> acc.s, batch |-> [rows |-> acc.rows, num_decode |-> Len(DecodeRows(room))]]

ScheduleChunked(s, policy) ==
  LET room == MakeRoom(s, policy) IN ChunkedBatch(room, ChunkedRows(room, policy))

Schedule(s, policy) ==
  IF ChunkSize > 0 THEN ScheduleChunked(s, policy) ELSE ScheduleWhole(s, policy)

\* Scheduler.retire: drop a finished or aborted request from the queues.
Retire(s, r) == [s EXCEPT !.running = Remove(@, r), !.waiting = Remove(@, r)]
=============================================================================

------------------------------ MODULE Frontend ------------------------------
(***************************************************************************)
(* The server as its clients meet it: the size of the KV pool it ends up   *)
(* with (ModelRunner), the context length that follows (server/__main__),  *)
(* which generation requests it accepts (server/protocol.py) and whether   *)
(* the scheduler then takes them, what /server_info says (describe.py) and *)
(* the step counters behind /stats (server/stats.py).                      *)
(*                                                                         *)
(* A request changes nothing here: what happens to one that was accepted   *)
(* is AsyncEngine and Engine.                                              *)
(* The counters are written by the engine thread, a field at a time, and   *)
(* read by the event loop, a field at a time, without a lock.              *)
(***************************************************************************)
EXTENDS Integers, Sequences, FiniteSets

CONSTANTS BlockSize,        \* tokens per block
          BlockBytes,       \* KV bytes per block
          MaxPosition,      \* max_position_embeddings of the model
          Budgets,          \* bytes that the profiling pass may leave for the pool
          PoolTokens,       \* --kv-pool-tokens: <<>> or <<tokens>>
          Requests,         \* the generation requests a client may send
          Batches,          \* the batches a step may run
          Fields,           \* the fields of EngineStats that are followed, in their order
          MaxSteps          \* bound: steps counted

\* A request: chat or completion; whether its content is text, whether it asks for what is not
\* implemented, whether temperature and top_p are in range; the tokens of its prompt; and its
\* optional numbers, <<>> or <<n>>.
Optional(S) == {<<>>} \cup [1 .. 1 -> S]
RequestType ==
  [chat : BOOLEAN, text : BOOLEAN, unsupported : BOOLEAN, in_range : BOOLEAN, prompt : Nat,
   max_tokens : Optional(Int), max_completion_tokens : Optional(Int)]

\* A batch: its phase, decode rows, prefill tokens and preemptions, and the queues after it.
BatchType ==
  [phase : {"prefill", "decode", "mixed"}, num_decode : Nat, prefill_tokens : Nat,
   preempted : Nat, running : Nat, waiting : Nat]

\* EngineStats as it is declared: the order in which asdict reads the fields and record writes them.
EngineStats == <<"steps", "prefill_steps", "decode_steps", "mixed_steps", "decode_rows",
                 "steps_with_decode", "prefill_tokens", "preemptions", "running", "waiting">>

ASSUME FrontendAssumption ==
  /\ BlockSize \in Nat \ {0} /\ BlockBytes \in Nat \ {0} /\ MaxPosition \in Nat \ {0}
  /\ Budgets \subseteq Int /\ \A t \in PoolTokens : t \in Optional(Int)
  /\ \A r \in Requests : r \in RequestType
  /\ \A b \in Batches : b \in BatchType
  /\ Fields \in Seq({EngineStats[i] : i \in 1 .. 10}) /\ Fields # <<>> /\ Fields[1] = "steps"
  /\ MaxSteps \in Nat

VARIABLES server,   \* [up, paged, num_blocks, context_len, git_dirty]
          stats,    \* EngineStats
          counting, \* EngineStats.record: [at, batch], at the next field to write, 0 if none
          snap      \* EngineStats.snapshot: [at, got], at the next field to read, 0 if none

Down == [up |-> FALSE, paged |-> FALSE, num_blocks |-> 0, context_len |-> 0, git_dirty |-> FALSE]

FieldNames == {Fields[i] : i \in DOMAIN Fields}

Zeros == [f \in FieldNames |-> 0]
NotCounting == [at |-> 0, batch |-> <<>>]
NoSnap == [at |-> 0, got |-> Zeros]

FrontendInit == /\ server = Down /\ stats = Zeros /\ counting = NotCounting /\ snap = NoSnap

-----------------------------------------------------------------------------
(* Starting: the pool and the context *)

\* ModelRunner._profile: the blocks that fit beside the peak of a forward pass.
MaxBlocks(budget) == budget \div BlockBytes

\* The pool that was asked for, if it fits, or all there is room for.
CanSize(budget, tokens) ==
  /\ MaxBlocks(budget) >= 1
  /\ tokens # <<>> => tokens[1] >= BlockSize /\ tokens[1] \div BlockSize <= MaxBlocks(budget)

PoolBlocks(budget, tokens) == IF tokens = <<>> THEN MaxBlocks(budget) ELSE tokens[1] \div BlockSize

\* Faulty variant: takes the pool for as large as was asked, to the token.
ContextLenAsked(paged, budget, tokens) ==
  LET pool == IF tokens = <<>> THEN MaxBlocks(budget) * BlockSize ELSE tokens[1]
  IN  IF paged /\ pool < MaxPosition THEN pool ELSE MaxPosition

\* context_len: the model's context, and the KV pool if there is one.
ContextLen(paged, budget, tokens) ==
  LET pool == PoolBlocks(budget, tokens) * BlockSize
  IN  IF paged /\ pool < MaxPosition THEN pool ELSE MaxPosition

\* engine_description and runtime_description, as /server_info reports them; dirty: git_dirty,
\* which is also false where git cannot be asked.
Description(paged, budget, tokens, dirty) ==
  [up |-> TRUE, paged |-> paged, git_dirty |-> dirty,
   num_blocks |-> IF paged THEN PoolBlocks(budget, tokens) ELSE 0,
   context_len |-> ContextLen(paged, budget, tokens)]

\* build_server: everything /server_info reports is fixed here, before the engine thread starts.
StartServer(paged, budget, tokens, dirty) ==
  /\ ~ server.up
  /\ paged => CanSize(budget, tokens)
  /\ server' = Description(paged, budget, tokens, dirty)
  /\ UNCHANGED <<stats, counting, snap>>

-----------------------------------------------------------------------------
(* Requests *)

DEFAULT_MAX_TOKENS == 16

\* requested_max_tokens of the two routes.
RequestedMaxTokens(r) ==
  IF ~ r.chat THEN IF r.max_tokens = <<>> THEN <<DEFAULT_MAX_TOKENS>> ELSE r.max_tokens
  ELSE IF r.max_completion_tokens # <<>> THEN r.max_completion_tokens ELSE r.max_tokens

Room(r) == server.context_len - r.prompt

MaxNew(r) == IF RequestedMaxTokens(r) = <<>> THEN Room(r) ELSE RequestedMaxTokens(r)[1]

\* ChatMessage.text, requested_max_tokens, check_supported and SamplingParams.__post_init__: what
\* is refused whatever the sizes.
WellFormed(r) ==
  /\ ~ r.unsupported /\ r.in_range
  /\ r.chat => r.text /\ ~ (r.max_tokens # <<>> /\ r.max_completion_tokens # <<>>)

\* sampling_params: the prompt leaves room, and the tokens asked for fit in it.
Accepted(r) == WellFormed(r) /\ r.prompt > 0 /\ Room(r) >= 1 /\ MaxNew(r) \in 1 .. Room(r)

\* Scheduler._blocks_for rounds up; add refuses a request larger than the pool.
BlocksFor(n) == (n + BlockSize - 1) \div BlockSize
AddTakes(r) == ~ server.paged \/ BlocksFor(r.prompt + MaxNew(r)) <= server.num_blocks

-----------------------------------------------------------------------------
(* The step counters *)

CUMULATIVE == FieldNames \ {"running", "waiting"}

One(b) == IF b THEN 1 ELSE 0

\* What a step adds to the counters, and the queues it leaves.
Adds(b) ==
  [steps |-> 1,
   prefill_steps |-> One(b.phase = "prefill"), decode_steps |-> One(b.phase = "decode"),
   mixed_steps |-> One(b.phase \notin {"prefill", "decode"}),
   decode_rows |-> b.num_decode, steps_with_decode |-> One(b.num_decode > 0),
   prefill_tokens |-> b.prefill_tokens, preemptions |-> b.preempted,
   running |-> b.running, waiting |-> b.waiting]

\* A step is done: the engine thread calls the hook.
StartRecord(b) ==
  /\ server.up /\ counting.at = 0 /\ stats.steps < MaxSteps
  /\ counting' = [at |-> 1, batch |-> b]
  /\ UNCHANGED <<server, stats, snap>>

\* record, one assignment.  Each is atomic, and nobody else writes.
RecordField ==
  /\ counting.at > 0
  /\ LET f == Fields[counting.at] IN
     stats' = [stats EXCEPT ![f] = IF f \in CUMULATIVE THEN @ + Adds(counting.batch)[f]
                                   ELSE Adds(counting.batch)[f]]
  /\ counting' = IF counting.at = Len(Fields) THEN NotCounting ELSE [counting EXCEPT !.at = @ + 1]
  /\ UNCHANGED <<server, snap>>

\* /stats: snapshot, one field of asdict.  The handler does not await: the event loop does
\* nothing else meanwhile, the engine thread may.
ReadField ==
  /\ snap.at \in 1 .. Len(Fields)
  /\ snap' = [at |-> snap.at + 1, got |-> [snap.got EXCEPT ![Fields[snap.at]] = stats[Fields[snap.at]]]]
  /\ UNCHANGED <<server, stats, counting>>

-----------------------------------------------------------------------------

Frontend ==
  \/ \E paged, dirty \in BOOLEAN, budget \in Budgets, tokens \in PoolTokens :
       StartServer(paged, budget, tokens, dirty)
  \/ \E b \in Batches : StartRecord(b)
  \/ RecordField \/ ReadField

\* sampling_params: "so an accepted request always fits the pool on its own".  Whatever pool and
\* context the server has ended up with, a request that its handler accepts is one that
\* Scheduler.add does not refuse.
AcceptedFits == server.up => \A r \in Requests : Accepted(r) => AddTakes(r)
=============================================================================

---------------------------- MODULE AsyncEngine ----------------------------
(***************************************************************************)
(* The engine behind the server (miniserve/server/async_engine.py), the    *)
(* handlers that use it (server/app.py) and the tokenizer backend          *)
(* (server/tokenizer.py).                                                  *)
(*                                                                         *)
(* Three threads: the event loop (handlers, disconnect watchers, the pump, *)
(* stop), the engine thread, and the tokenizer's worker.  They share the   *)
(* command queue (loop to engine thread), the loop's callback queue        *)
(* (call_soon_threadsafe: engine thread to loop) and the dead flag under   *)
(* its lock.  What one event loop callback does between two awaits is one  *)
(* step, except for _send, which the engine thread can overtake between    *)
(* the check and the put.                                                  *)
(*                                                                         *)
(* The engine is what Generation promises of it: gen[rid] grows by at most *)
(* one token per step, and in a step any requests may advance, or none (a  *)
(* prefill chunk, the first step with overlap).                            *)
(*                                                                         *)
(* A stream is [queue, finished, handler, watcher, gone, got, text,        *)
(* reason].  queue holds outputs [text, ids, reason] and DISCONNECTED;     *)
(* got, text and reason record what the handler has taken from it.         *)
(***************************************************************************)
EXTENDS Generation, FiniteSets, Detokenizer

CONSTANTS MaxStreams,     \* most requests submitted
          Calls,          \* uses of AsyncEngine.call
          MaxNew,         \* max_new_tokens of every request
          EngineFails,    \* whether a step may raise
          DetokFails,     \* whether the tokenizer may raise
          MayStop         \* whether stop() may be called

ASSUME AsyncAssumption ==
  /\ MaxStreams \in Nat \ {0} /\ IsFiniteSet(Calls)
  /\ MaxNew \in GenMaxNew /\ GenMaxNew \subseteq Nat \ {0} /\ GenMaxStep \in Nat \ {0}
  /\ {EngineFails, DetokFails, MayStop} \subseteq BOOLEAN

VARIABLES engine_pc,  \* _run: "commands", "step", "failing", "draining" or "ended"
          live,       \* _live and _live_by_rid: stream -> [rid, sent]
          commands,   \* _commands
          dead,       \* dead is not None
          dead_lock,  \* holder of _dead_lock: "free", "loop" or "engine"
          sending,    \* the command _send has checked and not put, or NoCommand
          soon,       \* callbacks queued by call_soon_threadsafe
          updates,    \* _updates, its lists put together: the pump always takes all of them
          pump,       \* _pump: [state, batch, texts]
          states,     \* ThreadPoolTokenizer._states: stream -> decoder
          stream,     \* the streams submitted so far: 1, 2, ...
          call,       \* state of each call's future
          stopping    \* stop: "no", "joining" or "stopped"

engineVars == <<gen, engine_pc, live>>
sendVars == <<commands, dead, dead_lock, sending>>
pumpVars == <<updates, pump, states>>
clientVars == <<stream, call, stopping>>
vars == <<engineVars, sendVars, soon, pumpVars, clientVars>>

Streams == DOMAIN stream

NoCommand == [kind |-> "none"]
AddOf(s) == [kind |-> "add", s |-> s]
AbortOf(s) == [kind |-> "abort", s |-> s]
CallOf(c) == [kind |-> "call", c |-> c]
STOP == [kind |-> "stop"]

\* The elements of a finite set of numbers, in order.
InOrder(S) ==
  [i \in 1 .. Cardinality(S) |-> CHOOSE x \in S : Cardinality({y \in S : y < x}) = i - 1]

Update(s, ids, reason) == [s |-> s, ids |-> ids, reason |-> reason]
DISCONNECTED == [text |-> <<>>, ids |-> <<>>, reason |-> "disconnected"]

\* Callbacks: hand a list of updates to the pump, or complete a call's future.
PutUpdates(list) == [kind |-> "updates", list |-> list]
SetFuture(c) == [kind |-> "future", c |-> c]

NewStream == [queue |-> <<>>, finished |-> FALSE, handler |-> "reading", watcher |-> "watching",
              gone |-> FALSE, got |-> <<>>, text |-> <<>>, reason |-> "none"]

PumpWaits == [state |-> "waiting", batch |-> <<>>, texts |-> <<>>]

Init ==
  /\ GenInit /\ engine_pc = "commands" /\ live = << >>
  /\ commands = <<>> /\ dead = FALSE /\ dead_lock = "free" /\ sending = NoCommand
  /\ soon = <<>> /\ updates = <<>> /\ pump = PumpWaits /\ states = << >>
  /\ stream = <<>> /\ call = [c \in Calls |-> "unused"] /\ stopping = "no"

-----------------------------------------------------------------------------
(* Event loop: sending commands *)

\* The loop is neither inside _send nor in the pump's loop over a batch that failed.
LoopFree == sending = NoCommand /\ pump.state # "aborting"

\* Faulty variant: the check is made without the lock.
SendUnlocked(cmd) ==
  /\ LoopFree /\ ~ dead
  /\ sending' = cmd
  /\ UNCHANGED <<commands, dead, dead_lock>>

\* _send, up to the put: refused (EngineDead) once dead.
Send(cmd) ==
  /\ LoopFree /\ dead_lock = "free" /\ ~ dead
  /\ sending' = cmd /\ dead_lock' = "loop"
  /\ UNCHANGED <<commands, dead>>

SendPut ==
  /\ sending # NoCommand
  /\ commands' = Append(commands, sending)
  /\ sending' = NoCommand
  /\ dead_lock' = IF dead_lock = "loop" THEN "free" ELSE dead_lock
  /\ UNCHANGED <<engineVars, dead, soon, pumpVars, clientVars>>

\* A handler submits its request (_generate, submit) and starts the disconnect watcher.
SubmitStream ==
  /\ Len(stream) < MaxStreams
  /\ Send(AddOf(Len(stream) + 1))
  /\ stream' = Append(stream, NewStream)
  /\ UNCHANGED <<engineVars, soon, pumpVars, call, stopping>>

\* AsyncEngine.call, and the caller giving up on it.
StartCall(c) ==
  /\ call[c] = "unused"
  /\ Send(CallOf(c))
  /\ call' = [call EXCEPT ![c] = "pending"]
  /\ UNCHANGED <<engineVars, soon, pumpVars, stream, stopping>>

CancelCall(c) ==
  /\ LoopFree /\ call[c] = "pending"
  /\ call' = [call EXCEPT ![c] = "cancelled"]
  /\ UNCHANGED <<engineVars, sendVars, soon, pumpVars, stream, stopping>>

\* abort puts its command without looking at dead.
Aborting(s) == commands' = Append(commands, AbortOf(s))

-----------------------------------------------------------------------------
(* Event loop: handlers and watchers *)

\* _end: the watcher is cancelled, and a request that has not finished is aborted.
EndHandler(s, taken) ==
  /\ stream' = [stream EXCEPT ![s] = [taken EXCEPT !.handler = "ended", !.watcher = "ended"]]
  /\ IF taken.finished THEN UNCHANGED commands ELSE Aborting(s)

\* What a handler has after it took out from its queue.
Taken(st, out) ==
  IF out = DISCONNECTED THEN [st EXCEPT !.queue = Tail(@)] ELSE
  [st EXCEPT !.queue = Tail(@), !.finished = out.reason # "none", !.reason = out.reason,
             !.got = IF out.reason \in {"abort", "error"} THEN @ ELSE @ \o out.ids,
             !.text = IF out.reason \in {"abort", "error"} THEN @ ELSE @ \o out.text]

\* _sse and _collect: take the next output; end at the last one or when the client is gone.
HandlerGet(s) ==
  /\ LoopFree /\ stream[s].handler = "reading" /\ stream[s].queue # <<>>
  /\ LET out   == Head(stream[s].queue)
         taken == Taken(stream[s], out)
     IN  IF taken.finished \/ out = DISCONNECTED THEN EndHandler(s, taken)
         ELSE stream' = [stream EXCEPT ![s] = taken] /\ UNCHANGED commands
  /\ UNCHANGED <<engineVars, dead, dead_lock, sending, soon, pumpVars, call, stopping>>

\* A failed send or a cancelled task: the handler ends in its finally.
HandlerFails(s) ==
  /\ LoopFree /\ stream[s].handler = "reading"
  /\ EndHandler(s, stream[s])
  /\ UNCHANGED <<engineVars, dead, dead_lock, sending, soon, pumpVars, call, stopping>>

\* The response machinery stops iterating the stream without closing it.
HandlerStalls(s) ==
  /\ LoopFree /\ stream[s].handler = "reading"
  /\ stream' = [stream EXCEPT ![s].handler = "stalled"]
  /\ UNCHANGED <<engineVars, sendVars, soon, pumpVars, call, stopping>>

\* The client goes away.
Disconnect(s) ==
  /\ LoopFree /\ ~ stream[s].gone /\ stream[s].watcher = "watching"
  /\ stream' = [stream EXCEPT ![s].gone = TRUE]
  /\ UNCHANGED <<engineVars, sendVars, soon, pumpVars, call, stopping>>

\* Faulty variant: the watcher only wakes the handler.
WatcherWakesOnly(s) ==
  /\ LoopFree /\ stream[s].gone /\ stream[s].watcher = "watching"
  /\ stream' = [stream EXCEPT ![s].watcher = "ended", ![s].queue = Append(@, DISCONNECTED)]
  /\ UNCHANGED <<engineVars, sendVars, soon, pumpVars, call, stopping>>

\* _watch_disconnect: abort the request and wake the handler.
WatcherWakes(s) ==
  /\ LoopFree /\ stream[s].gone /\ stream[s].watcher = "watching"
  /\ stream' = [stream EXCEPT ![s].watcher = "ended", ![s].queue = Append(@, DISCONNECTED)]
  /\ IF stream[s].finished THEN UNCHANGED commands ELSE Aborting(s)
  /\ UNCHANGED <<engineVars, dead, dead_lock, sending, soon, pumpVars, call, stopping>>

-----------------------------------------------------------------------------
(* Event loop: callbacks, pump, stop *)

\* The loop runs the next callback.
RunCallback ==
  /\ LoopFree /\ soon # <<>>
  /\ soon' = Tail(soon)
  /\ LET cb == Head(soon) IN
     IF cb.kind = "updates"
     THEN updates' = updates \o cb.list /\ UNCHANGED call
     ELSE /\ call' = [call EXCEPT ![cb.c] = IF @ = "pending" THEN "answered" ELSE @]
          /\ UNCHANGED updates
  /\ UNCHANGED <<engineVars, sendVars, pump, states, stream, stopping>>

\* The pump takes the whole backlog.
PumpTake ==
  /\ LoopFree /\ pump.state = "waiting" /\ updates # <<>>
  /\ pump' = [state |-> "detokenizing", batch |-> updates, texts |-> <<>>]
  /\ updates' = <<>>
  /\ UNCHANGED <<engineVars, sendVars, soon, states, clientVars>>

\* _text_ids: a final stop token does not become text.
TextIds(ids, reason) == IF reason = "stop" /\ ids # <<>> THEN Front(ids) ELSE ids

\* The decoding state of the item's stream, made if there is none.
DecoderOf(u) == IF u.s \in DOMAIN states THEN states[u.s] ELSE NewDecoder

\* Faulty variant: the state of a finished stream stays.
DecodedKeeps(u, decoder) == (u.s :> decoder) @@ states

\* The decoding states after the item; that of a finished stream is dropped.
Decoded(u, decoder) ==
  IF u.reason # "none" THEN Restrict(states, DOMAIN states \ {u.s}) ELSE (u.s :> decoder) @@ states

\* The streams whose items of this batch have not been decoded.
Undecoded == {pump.batch[i].s : i \in Len(pump.texts) + 1 .. Len(pump.batch)}

\* The decoding states when decoding these ids has failed: the rest of the batch is given up.
Broken(u, ids) ==
  LET left == (u.s :> [DecoderOf(u) EXCEPT !.ids = @ \o ids]) @@ states
  IN  [s \in DOMAIN left |-> IF s \in Undecoded THEN [left[s] EXCEPT !.failed = TRUE] ELSE left[s]]

\* ThreadPoolTokenizer._detokenize in the worker thread, an item at a time.  After a failure the
\* batch has no text.
Detokenize ==
  /\ pump.state = "detokenizing"
  /\ LET u    == pump.batch[Len(pump.texts) + 1]
         ids  == TextIds(u.ids, u.reason)
         step == Step(DecoderOf(u), ids, u.reason # "none")
         last == Len(pump.texts) + 1 = Len(pump.batch)
     IN  \/ /\ states' = Decoded(u, step.decoder)
            /\ pump' = [pump EXCEPT !.texts = Append(@, step.text),
                                    !.state = IF last THEN "decoded" ELSE @]
         \/ /\ DetokFails
            /\ states' = Broken(u, ids)
            /\ pump' = [pump EXCEPT !.state = "undecoded", !.texts = <<>>]
  /\ UNCHANGED <<engineVars, sendVars, soon, updates, clientVars>>

\* The outputs of the batch for stream s, in order.
OutputsFor(s) ==
  LET mine == InOrder({i \in DOMAIN pump.batch : pump.batch[i].s = s})
  IN  [k \in DOMAIN mine |->
         [text   |-> pump.texts[mine[k]], ids |-> pump.batch[mine[k]].ids,
          reason |-> IF pump.state = "aborting" THEN "error" ELSE pump.batch[mine[k]].reason]]

\* The pump comes to the next item of a batch that failed: from the first one to the push of the
\* last output nothing else runs on the loop.
NextFailed == \/ LoopFree /\ pump.state = "undecoded"
              \/ pump.state = "aborting" /\ Len(pump.texts) < Len(pump.batch)

\* Faulty variant: a stream that a tokenizer failure has ended goes on generating.
PumpAbortsNone ==
  /\ NextFailed
  /\ pump' = [pump EXCEPT !.state = "aborting", !.texts = Append(@, <<>>)]
  /\ UNCHANGED <<engineVars, sendVars, soon, updates, states, clientVars>>

\* The item has no text, and its request is aborted unless it has ended.  The engine thread may
\* take the command before the next item is reached.
PumpAborts ==
  /\ NextFailed
  /\ pump' = [pump EXCEPT !.state = "aborting", !.texts = Append(@, <<>>)]
  /\ LET u == pump.batch[Len(pump.texts) + 1] IN
     IF u.reason = "none" THEN Aborting(u.s) ELSE UNCHANGED commands
  /\ UNCHANGED <<engineVars, dead, dead_lock, sending, soon, updates, states, clientVars>>

\* Every stream gets its outputs.
PumpPush ==
  /\ \/ LoopFree /\ pump.state = "decoded"
     \/ pump.state = "aborting" /\ Len(pump.texts) = Len(pump.batch)
  /\ stream' = [s \in Streams |-> [stream[s] EXCEPT !.queue = @ \o OutputsFor(s)]]
  /\ pump' = PumpWaits
  /\ UNCHANGED <<engineVars, sendVars, soon, updates, states, call, stopping>>

\* stop: put the marker and wait for the thread.
Stop ==
  /\ MayStop /\ LoopFree /\ stopping = "no"
  /\ stopping' = "joining"
  /\ commands' = Append(commands, STOP)
  /\ UNCHANGED <<engineVars, dead, dead_lock, sending, soon, pumpVars, stream, call>>

\* The thread has ended: the pump is cancelled.  The join reports to the loop behind the thread's
\* own callbacks, so a pump that waits has taken its updates by then; one that detokenizes has not
\* pushed them.
StopJoined ==
  /\ LoopFree /\ stopping = "joining" /\ engine_pc = "ended"
  /\ soon = <<>> /\ (pump.state = "waiting" => updates = <<>>)
  /\ stopping' = "stopped"
  /\ pump' = [PumpWaits EXCEPT !.state = "cancelled"]
  /\ UNCHANGED <<engineVars, sendVars, soon, updates, states, stream, call>>

-----------------------------------------------------------------------------
(* Engine thread *)

\* Engine.has_unfinished.  With overlap it also holds for one more step, whose batch has no live
\* request in it and which publishes nothing.
HasUnfinished == \E r \in DOMAIN gen : gen[r].status = "open"

\* _publish.
Publish(list) == soon' = IF list = <<>> THEN soon ELSE Append(soon, PutUpdates(list))

Forget(s) == live' = [x \in DOMAIN live \ {s} |-> live[x]]

\* Faulty variant: the live requests are forgotten and nobody is told.
FailAllQuietly(reason) == live' = << >> /\ UNCHANGED soon

\* _fail_all: the last update of everyone still live.
FailAll(reason) ==
  LET failed == InOrder(DOMAIN live)
  IN  Publish([i \in DOMAIN failed |-> Update(failed[i], <<>>, reason)]) /\ live' = << >>

\* _handle for an add: accepted, or refused by the engine (ValueError).
HandleAdd(s) ==
  \/ /\ Submit(MaxNew)
     /\ live' = [x \in DOMAIN live \cup {s} |->
                  IF x = s THEN [rid |-> Len(gen) + 1, sent |-> 0] ELSE live[x]]
     /\ UNCHANGED soon
  \/ Publish(<<Update(s, <<>>, "error")>>) /\ UNCHANGED <<gen, live>>

\* _handle for an abort: no operation unless the request is live.
HandleAbort(s) ==
  IF s \notin DOMAIN live THEN UNCHANGED <<gen, live, soon>> ELSE
  Cancel(live[s].rid) /\ Forget(s) /\ Publish(<<Update(s, <<>>, "abort")>>)

\* _handle for a call: its result or exception goes back to the loop.
HandleCall(c) == soon' = Append(soon, SetFuture(c)) /\ UNCHANGED <<gen, live>>

\* _run takes commands until there is none; with nothing to run it blocks for one.  add_request
\* raises nothing but ValueError, and abort nothing at all (Engine, NothingRaises), so only a step
\* can end the thread.
HandleCommand ==
  /\ engine_pc = "commands" /\ commands # <<>>
  /\ commands' = Tail(commands)
  /\ LET cmd == Head(commands) IN
     \/ cmd.kind = "add"   /\ HandleAdd(cmd.s)   /\ UNCHANGED engine_pc
     \/ cmd.kind = "abort" /\ HandleAbort(cmd.s) /\ UNCHANGED engine_pc
     \/ cmd.kind = "call"  /\ HandleCall(cmd.c)  /\ UNCHANGED engine_pc
     \/ cmd.kind = "stop"  /\ FailAll("abort")   /\ UNCHANGED gen /\ engine_pc' = "ended"
  /\ UNCHANGED <<dead, dead_lock, sending, pumpVars, clientVars>>

\* The queue was empty and there is work: on to a step.
GoStep ==
  /\ engine_pc = "commands" /\ commands = <<>> /\ HasUnfinished
  /\ engine_pc' = "step"
  /\ UNCHANGED <<gen, live, sendVars, soon, pumpVars, clientVars>>

\* The update of a live request of the batch: what it has beyond what was sent.
NewUpdate(s, now) ==
  LET g == now[live[s].rid]
  IN  Update(s, SubSeq(g.out, live[s].sent + 1, Len(g.out)),
             IF g.status # "finished" THEN "none"
             ELSE IF Last(g.out) \in GenStops THEN "stop" ELSE "length")

\* Faulty variant: what was sent is not remembered.
SentNothing(now) ==
  [s \in {x \in DOMAIN live : now[live[x].rid].status = "open"} |-> live[s]]

\* What stays live after the step, and how much of it has been handed over.
SentUpTo(now) ==
  [s \in {x \in DOMAIN live : now[live[x].rid].status = "open"} |->
     [live[s] EXCEPT !.sent = Len(now[live[s].rid].out)]]

\* A step in which the requests of grow advance by these tokens; their updates are
\* published.  The step hook may raise after that.
StepWith(grow) ==
  LET now  == [r \in DOMAIN gen |-> IF r \in DOMAIN grow THEN Grown(gen[r], grow[r]) ELSE gen[r]]
      news == InOrder({s \in DOMAIN live : live[s].rid \in DOMAIN grow})
  IN  /\ gen' = now
      /\ live' = SentUpTo(now)
      /\ Publish([i \in DOMAIN news |-> NewUpdate(news[i], now)])

EngineStep ==
  /\ engine_pc = "step"
  /\ \E rids \in SUBSET {r \in DOMAIN gen : gen[r].status = "open"} :
     \E grow \in [rids -> GenTokens] : StepWith(grow)
  /\ \/ engine_pc' = "commands"
     \/ EngineFails /\ engine_pc' = "failing"
  /\ UNCHANGED <<sendVars, pumpVars, clientVars>>

\* The step raises.
StepFails ==
  /\ EngineFails /\ engine_pc = "step"
  /\ engine_pc' = "failing"
  /\ UNCHANGED <<gen, live, sendVars, soon, pumpVars, clientVars>>

\* Under the lock: dead is set, everyone live is told, then the queue is drained.
Die ==
  /\ engine_pc = "failing" /\ dead_lock = "free"
  /\ dead_lock' = "engine" /\ dead' = TRUE
  /\ FailAll("error")
  /\ engine_pc' = "draining"
  /\ UNCHANGED <<gen, commands, sending, pumpVars, clientVars>>

\* Faulty variant: the drain throws additions away.
AnswerCallsOnly(cmd) ==
  IF cmd.kind = "call" THEN soon' = Append(soon, SetFuture(cmd.c)) ELSE UNCHANGED soon

\* _drain_after_death for one command.
AnswerDead(cmd) ==
  CASE cmd.kind = "add"  -> Publish(<<Update(cmd.s, <<>>, "error")>>)
    [] cmd.kind = "call" -> soon' = Append(soon, SetFuture(cmd.c))
    [] OTHER             -> UNCHANGED soon

DrainAfterDeath ==
  /\ engine_pc = "draining"
  /\ IF commands # <<>>
     THEN /\ AnswerDead(Head(commands)) /\ commands' = Tail(commands)
          /\ UNCHANGED <<engine_pc, dead_lock>>
     ELSE /\ engine_pc' = "ended" /\ dead_lock' = "free"
          /\ UNCHANGED <<soon, commands>>
  /\ UNCHANGED <<gen, live, dead, sending, pumpVars, clientVars>>

-----------------------------------------------------------------------------

Loop == \/ SendPut \/ SubmitStream \/ RunCallback \/ PumpTake \/ PumpAborts \/ PumpPush
        \/ Stop \/ StopJoined
        \/ \E c \in Calls : StartCall(c) \/ CancelCall(c)
        \/ \E s \in Streams : \/ HandlerGet(s) \/ HandlerFails(s) \/ HandlerStalls(s)
                              \/ Disconnect(s) \/ WatcherWakes(s)

Thread == HandleCommand \/ GoStep \/ EngineStep \/ StepFails \/ Die \/ DrainAfterDeath

Next == Loop \/ Thread \/ Detokenize

\* The request of stream s gets its next token.
Advances(s) == s \in DOMAIN live /\ EngineStep /\ gen'[live[s].rid] # gen[live[s].rid]

\* Threads that can run do; asyncio runs callbacks and ready tasks; a handler that has not
\* stalled keeps reading.  Clients owe nothing: they may never submit, call or leave.  Nor does
\* the engine: it may leave a request waiting forever.
Fairness ==
  /\ WF_vars(SendPut) /\ WF_vars(RunCallback)
  /\ WF_vars(PumpTake) /\ WF_vars(PumpAborts) /\ WF_vars(PumpPush)
  /\ WF_vars(StopJoined) /\ WF_vars(Detokenize)
  /\ WF_vars(HandleCommand) /\ WF_vars(GoStep) /\ WF_vars(EngineStep)
  /\ WF_vars(Die) /\ WF_vars(DrainAfterDeath)
  /\ \A s \in 1 .. MaxStreams :
       WF_vars(s \in Streams /\ HandlerGet(s)) /\ WF_vars(s \in Streams /\ WatcherWakes(s))

Spec == Init /\ [][Next]_vars /\ Fairness

\* What Engine promises of a request that keeps being stepped (EveryRequestEnds there).
EngineAdvances == \A s \in 1 .. MaxStreams : SF_vars(Advances(s))

-----------------------------------------------------------------------------
(* Properties *)

\* The updates of stream s that have not been pushed.
OnTheWay(s) ==
  LET lists == {soon[i].list : i \in {j \in DOMAIN soon : soon[j].kind = "updates"}}
  IN  {u \in ToSet(pump.batch) \cup ToSet(updates) \cup UNION {ToSet(list) : list \in lists} : u.s = s}

\* AsyncEngine._dead_lock: "no command is enqueued after the drain and left unanswered".  Once the
\* thread has died and drained, the queue holds nothing anybody waits for, and nothing of the
\* kind is about to be put there.
NoneLeftBehind ==
  (dead /\ engine_pc = "ended") =>
    /\ \A i \in DOMAIN commands : commands[i].kind \in {"abort", "stop"}
    /\ sending = NoCommand

\* Nobody reads stream s any more: its handler has ended, or its client is known to be gone.
Unheard(s) == stream[s].handler = "ended" \/ stream[s].watcher = "ended"

\* The module docstring's "an abort always reaches the engine after the add it refers to", and what
\* app.py rests on it: for a stream that nobody reads any more and whose request the engine has, or
\* will get, an abort is queued, behind the add if that is queued too.  Whether the handler ended,
\* failed or stalled, the client left or the tokenizer broke, nothing is generated for nobody.
AbortQueued ==
  \A s \in Streams :
    Unheard(s) =>
      /\ s \in DOMAIN live => AbortOf(s) \in ToSet(commands)
      /\ \A i \in DOMAIN commands : commands[i] = AddOf(s) =>
           \E j \in i + 1 .. Len(commands) : commands[j] = AbortOf(s)

\* The item that ends stream s is on its way and has not been decoded.
LastToDecode(s) ==
  \E u \in OnTheWay(s) : /\ u.reason # "none"
                         /\ u \in ToSet(pump.batch) => s \in Undecoded

\* tokenizer.py, a state is "dropped when the request finishes": a state that exists is one that
\* will still be dropped, because its request is live or the item that ends it has yet to be
\* decoded.  Every end of a request produces that item (its last token, an abort, the death of the
\* engine), exactly once and behind the items that make the state.  Where decoding has failed the
\* code promises nothing.
DecoderDropped ==
  stopping = "no" =>
    \A s \in DOMAIN states : states[s].failed \/ s \in DOMAIN live \/ LastToDecode(s)

\* The stream as its client sees it: what it asked for and what it was told.
ClientView(st) ==
  [max_new |-> MaxNew, out |-> st.got,
   status  |-> CASE st.reason \in {"stop", "length"} -> "finished"
                 [] st.reason \in {"abort", "error"} -> "aborted"
                 [] OTHER                            -> "open"]

Client == INSTANCE Generation WITH gen <- [s \in Streams |-> ClientView(stream[s])]

\* AsyncEngine, RequestStream: behind threads, queues, a pump that batches, tokenizer failures,
\* aborts and the death of the engine, each client still sees what Generation promises: tokens
\* in order, none twice, none after the end, and a finish_reason exactly with the last one.
ClientSeesGeneration == Client!GenSpec

\* IncrementalDetokenizer: "holds text back until it decodes to complete characters, and only then
\* emits it".  However the tokens were batched, a client has the text of its tokens but for a
\* character that is not complete yet, never half a character, and in the end all of it.
TextExact ==
  \A s \in Streams :
    LET st == stream[s]
        whole == Decode(TextIds(st.got, st.reason))
    IN  /\ IsPrefix(st.text, whole)
        /\ st.reason \in {"stop", "length"} => st.text = whole
        /\ (st.reason = "none" /\ st.text # <<>>) => Last(st.text) # REPLACEMENT_CHAR

\* RequestStream, _drain_after_death: "so no caller waits forever".  A handler that keeps reading
\* comes to an end, whatever fails, unless the server is stopped.
EveryStreamEnds ==
  EngineAdvances =>
    \A s \in 1 .. MaxStreams :
      (s \in Streams) ~> (s \in Streams /\ (stream[s].handler # "reading" \/ stopping # "no"))

\* RequestStream: "outputs arrive in order, the last one has a ``finish_reason``", also for a request
\* that is live while stop() waits for the engine thread.
EveryStreamEndsAnyway ==
  EngineAdvances =>
    \A s \in 1 .. MaxStreams :
      (s \in DOMAIN live /\ stopping = "joining") ~> (s \in Streams /\ stream[s].handler # "reading")

\* The engine thread will handle, or answer, this command.
ToBeHandled(cmd) == engine_pc # "ended" /\ (sending = cmd \/ cmd \in ToSet(commands))

\* _drain_after_death: "Answer commands that raced with the failure, so no caller waits forever".
\* Whoever waits, for the end of a stream or for a call, has a command or a live request that the
\* engine thread will come to, or its answer is on the way, unless the server is stopped.
WaitersServed ==
  stopping = "no" =>
    /\ \A c \in Calls : call[c] = "pending" => ToBeHandled(CallOf(c)) \/ SetFuture(c) \in ToSet(soon)
    /\ \A s \in Streams :
         stream[s].handler = "reading" =>
           \/ ToBeHandled(AddOf(s)) \/ s \in DOMAIN live \/ stream[s].gone
           \/ \E out \in ToSet(stream[s].queue) \cup OnTheWay(s) : out.reason # "none"

\* app.py: the watcher "aborts the request in the engine, which returns its KV blocks", whether the
\* request is a queued command, waiting or running, and even if the handler never looks again:
\* once the client is gone its request leaves the engine for good, however slow the engine is.
GoneIsAborted ==
  \A s \in 1 .. MaxStreams :
    (s \in Streams /\ stream[s].gone) ~> [](s \notin DOMAIN live)
=============================================================================

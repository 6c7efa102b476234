---------------------------- MODULE AsyncProofs ----------------------------
(***************************************************************************)
(* The race between _send and the death of the engine thread, for any      *)
(* number of streams and calls, any tokenizer and any engine.  That        *)
(* nothing is left in the queue is not inductive: it needs who holds       *)
(* _dead_lock when, and that only a thread which holds it can have seen    *)
(* dead or change it.                                                      *)
(***************************************************************************)
EXTENDS AsyncEngine, TLAPS

\* The queue is a sequence, whatever is in it.
CommandsInOrder == commands \in Seq(Range(commands))

\* A command on its way into the queue was checked against dead, under the lock.
SenderHoldsLock == sending # NoCommand => dead_lock = "loop" /\ ~ dead

\* The engine thread has the lock exactly while it drains the queue, and drains only when dead.
DrainHoldsLock == /\ engine_pc = "draining" <=> dead_lock = "engine"
                  /\ dead => engine_pc \in {"draining", "ended"}

IInv == CommandsInOrder /\ SenderHoldsLock /\ DrainHoldsLock /\ NoneLeftBehind

-----------------------------------------------------------------------------

\* Any sequence is a sequence of its own elements.
LEMMA OwnElements ==
  ASSUME NEW S, NEW q \in Seq(S)
  PROVE  q \in Seq(Range(q))
<1>1. Len(q) \in Nat /\ DOMAIN q = 1 .. Len(q) /\ q = [i \in 1 .. Len(q) |-> q[i]]
  OBVIOUS
<1>2. \A i \in 1 .. Len(q) : q[i] \in Range(q)
  BY <1>1 DEF Range
<1>3. [i \in 1 .. Len(q) |-> q[i]] \in [1 .. Len(q) -> Range(q)]
  BY <1>2
<1> QED  BY <1>1, <1>3

\* Queue.put: the queue stays in order, and gains one command.
LEMMA PutInOrder ==
  ASSUME NEW q, q \in Seq(Range(q)), NEW cmd
  PROVE  /\ Append(q, cmd) \in Seq(Range(Append(q, cmd)))
         /\ \A i \in DOMAIN Append(q, cmd) :
              Append(q, cmd)[i] = cmd \/ (i \in DOMAIN q /\ Append(q, cmd)[i] = q[i])
<1>1. Append(q, cmd) \in Seq(Range(q) \cup {cmd})
  OBVIOUS
<1>2. Append(q, cmd) \in Seq(Range(Append(q, cmd)))
  BY <1>1, OwnElements
<1>3. \A i \in DOMAIN Append(q, cmd) :
        Append(q, cmd)[i] = cmd \/ (i \in DOMAIN q /\ Append(q, cmd)[i] = q[i])
  OBVIOUS
<1> QED  BY <1>2, <1>3

\* Queue.get: so does it when its first command is taken.
LEMMA GetInOrder ==
  ASSUME NEW q, q \in Seq(Range(q)), q # <<>>
  PROVE  Tail(q) \in Seq(Range(Tail(q)))
<1>1. Tail(q) \in Seq(Range(q))
  OBVIOUS
<1> QED  BY <1>1, OwnElements

-----------------------------------------------------------------------------

\* The queue is empty, the lock free and nobody dead at the start.
LEMMA InitIInv == Init => IInv
<1> SUFFICES ASSUME Init PROVE IInv
  OBVIOUS
<1>1. commands = <<>> /\ ~ dead /\ dead_lock = "free" /\ sending = NoCommand /\ engine_pc = "commands"
  BY DEF Init
<1>2. CommandsInOrder
  BY <1>1 DEF CommandsInOrder
<1> QED  BY <1>1, <1>2 DEF IInv, SenderHoldsLock, DrainHoldsLock, NoneLeftBehind

\* A step that touches neither the queue nor the lock (callbacks, the pump, the worker thread,
\* clients) preserves the invariant.
LEMMA ElsewhereIInv ==
  ASSUME IInv, UNCHANGED <<commands, dead, dead_lock, sending, engine_pc>>
  PROVE  IInv'
BY DEF IInv, CommandsInOrder, SenderHoldsLock, DrainHoldsLock, NoneLeftBehind

\* abort and stop put their command without the lock, at any time: nobody waits for its answer.
LEMMA UncheckedPutIInv ==
  ASSUME IInv, NEW cmd, cmd.kind \in {"abort", "stop"}, commands' = Append(commands, cmd),
         UNCHANGED <<dead, dead_lock, sending, engine_pc>>
  PROVE  IInv'
<1>1. CommandsInOrder'
  BY PutInOrder DEF IInv, CommandsInOrder
<1>2. SenderHoldsLock' /\ DrainHoldsLock'
  BY DEF IInv, SenderHoldsLock, DrainHoldsLock
<1>3. NoneLeftBehind'
  <2> SUFFICES ASSUME dead', engine_pc' = "ended"
               PROVE  /\ \A i \in DOMAIN commands' : commands'[i].kind \in {"abort", "stop"}
                      /\ sending' = NoCommand
    BY DEF NoneLeftBehind
  <2>1. /\ \A i \in DOMAIN commands : commands[i].kind \in {"abort", "stop"}
        /\ sending = NoCommand
    BY DEF IInv, NoneLeftBehind
  <2>2. \A i \in DOMAIN commands' : commands'[i] = cmd \/ (i \in DOMAIN commands /\ commands'[i] = commands[i])
    BY PutInOrder DEF IInv, CommandsInOrder
  <2> QED  BY <2>1, <2>2
<1> QED  BY <1>1, <1>2, <1>3 DEF IInv

\* AbortOf and STOP are such commands, the others are not.
LEMMA UncheckedKinds ==
  /\ \A s : AbortOf(s).kind = "abort"
  /\ STOP.kind = "stop"
BY DEF AbortOf, STOP

\* _send up to its put: it got past the check because nobody is dead, and takes the lock.
LEMMA SendIInv ==
  ASSUME IInv, NEW cmd, Send(cmd), UNCHANGED engine_pc
  PROVE  IInv'
<1>1. /\ dead_lock = "free" /\ ~ dead /\ sending' = cmd /\ dead_lock' = "loop"
      /\ commands' = commands /\ dead' = dead /\ engine_pc' = engine_pc
  BY DEF Send
<1> QED  BY <1>1 DEF IInv, CommandsInOrder, SenderHoldsLock, DrainHoldsLock, NoneLeftBehind

\* The put itself: the thread cannot have died in between, since dying needs the lock.
LEMMA SendPutIInv ==
  ASSUME IInv, SendPut
  PROVE  IInv'
<1>1. /\ dead_lock = "loop" /\ ~ dead /\ commands' = Append(commands, sending)
      /\ sending' = NoCommand /\ dead_lock' = "free" /\ dead' = dead /\ engine_pc' = engine_pc
  BY DEF SendPut, IInv, SenderHoldsLock, engineVars
<1>2. CommandsInOrder'
  BY <1>1, PutInOrder DEF IInv, CommandsInOrder
<1> QED  BY <1>1, <1>2 DEF IInv, SenderHoldsLock, DrainHoldsLock, NoneLeftBehind

\* _run handling a command, which it only does alive; STOP ends it alive.
LEMMA HandleCommandIInv ==
  ASSUME IInv, HandleCommand
  PROVE  IInv'
<1>1. /\ engine_pc = "commands" /\ commands # <<>> /\ commands' = Tail(commands)
      /\ engine_pc' \in {engine_pc, "ended"}
      /\ dead' = dead /\ dead_lock' = dead_lock /\ sending' = sending
  BY DEF HandleCommand
<1>2. ~ dead /\ dead_lock # "engine"
  BY <1>1 DEF IInv, DrainHoldsLock
<1>3. CommandsInOrder'
  BY <1>1, GetInOrder DEF IInv, CommandsInOrder
<1> QED  BY <1>1, <1>2, <1>3 DEF IInv, SenderHoldsLock, DrainHoldsLock, NoneLeftBehind

\* _run moving between its loop, a step and the failure of one, which it only does alive.
LEMMA StepIInv ==
  ASSUME IInv, engine_pc \in {"commands", "step"}, engine_pc' \in {"commands", "step", "failing"},
         UNCHANGED sendVars
  PROVE  IInv'
<1>1. ~ dead /\ dead_lock # "engine"
  BY DEF IInv, DrainHoldsLock
<1>2. commands' = commands /\ dead' = dead /\ dead_lock' = dead_lock /\ sending' = sending
  BY DEF sendVars
<1> QED  BY <1>1, <1>2 DEF IInv, CommandsInOrder, SenderHoldsLock, DrainHoldsLock, NoneLeftBehind

\* Dying takes the lock, so no command is between its check and its put.
LEMMA DieIInv ==
  ASSUME IInv, Die
  PROVE  IInv'
<1>1. /\ dead_lock = "free" /\ dead_lock' = "engine" /\ dead' = TRUE /\ engine_pc' = "draining"
      /\ commands' = commands /\ sending' = sending
  BY DEF Die
<1>2. sending = NoCommand
  BY <1>1 DEF IInv, SenderHoldsLock
<1> QED  BY <1>1, <1>2 DEF IInv, CommandsInOrder, SenderHoldsLock, DrainHoldsLock, NoneLeftBehind

\* The drain ends on an empty queue, with nothing on its way into it.
LEMMA DrainIInv ==
  ASSUME IInv, DrainAfterDeath
  PROVE  IInv'
<1>1. engine_pc = "draining" /\ dead_lock = "engine" /\ dead' = dead /\ sending' = sending
  BY DEF DrainAfterDeath, IInv, DrainHoldsLock
<1>2. sending = NoCommand
  BY <1>1 DEF IInv, SenderHoldsLock
<1>3. CASE commands # <<>>
  <2>1. commands' = Tail(commands) /\ engine_pc' = engine_pc /\ dead_lock' = dead_lock
    BY <1>3 DEF DrainAfterDeath
  <2>2. CommandsInOrder'
    BY <1>3, <2>1, GetInOrder DEF IInv, CommandsInOrder
  <2> QED  BY <1>1, <1>2, <2>1, <2>2 DEF IInv, SenderHoldsLock, DrainHoldsLock, NoneLeftBehind
<1>4. CASE commands = <<>>
  <2>1. commands' = commands /\ engine_pc' = "ended" /\ dead_lock' = "free"
    BY <1>4 DEF DrainAfterDeath
  <2>2. CommandsInOrder'
    BY <2>1 DEF IInv, CommandsInOrder
  <2> QED  BY <1>1, <1>2, <1>4, <2>1, <2>2 DEF IInv, SenderHoldsLock, DrainHoldsLock, NoneLeftBehind
<1> QED  BY <1>3, <1>4

-----------------------------------------------------------------------------

\* A handler that ends, fails or is told that its client is gone puts an abort or nothing.
LEMMA HandlerIInv ==
  ASSUME IInv, NEW s \in Streams,
         \/ HandlerGet(s) \/ HandlerFails(s) \/ HandlerStalls(s) \/ Disconnect(s) \/ WatcherWakes(s)
  PROVE  IInv'
<1>1. dead' = dead /\ dead_lock' = dead_lock /\ sending' = sending /\ engine_pc' = engine_pc
  BY DEF HandlerGet, HandlerFails, HandlerStalls, Disconnect, WatcherWakes, engineVars, sendVars
<1>2. commands' = commands \/ commands' = Append(commands, AbortOf(s))
  BY DEF HandlerGet, HandlerFails, HandlerStalls, Disconnect, WatcherWakes, EndHandler, Aborting, sendVars
<1>3. CASE commands' = commands
  BY <1>1, <1>3, ElsewhereIInv
<1>4. CASE commands' = Append(commands, AbortOf(s))
  BY <1>1, <1>4, UncheckedPutIInv, UncheckedKinds
<1> QED  BY <1>2, <1>3, <1>4

\* So does the pump for each item of a batch that failed.
LEMMA PumpAbortsIInv ==
  ASSUME IInv, PumpAborts
  PROVE  IInv'
<1> DEFINE u == pump.batch[Len(pump.texts) + 1]
<1>1. dead' = dead /\ dead_lock' = dead_lock /\ sending' = sending /\ engine_pc' = engine_pc
  BY DEF PumpAborts, engineVars
<1>2. commands' = commands \/ commands' = Append(commands, AbortOf(u.s))
  BY DEF PumpAborts, Aborting
<1>3. CASE commands' = commands
  BY <1>1, <1>3, ElsewhereIInv
<1>4. CASE commands' = Append(commands, AbortOf(u.s))
  BY <1>1, <1>4, UncheckedPutIInv, UncheckedKinds
<1> QED  BY <1>2, <1>3, <1>4

\* Every step of the three threads preserves the invariant.
LEMMA NextIInv == IInv /\ [Next]_vars => IInv'
<1> SUFFICES ASSUME IInv, [Next]_vars PROVE IInv'
  OBVIOUS
<1> USE DEF engineVars, sendVars, pumpVars, clientVars
<1>1. CASE SendPut
  BY <1>1, SendPutIInv
<1>2. CASE SubmitStream
  <2>1. Send(AddOf(Len(stream) + 1)) /\ UNCHANGED engine_pc
    BY <1>2 DEF SubmitStream
  <2> QED  BY <2>1, SendIInv
<1>3. CASE \E c \in Calls : StartCall(c)
  <2>1. PICK c \in Calls : Send(CallOf(c)) /\ UNCHANGED engine_pc
    BY <1>3 DEF StartCall
  <2> QED  BY <2>1, SendIInv
<1>4. CASE RunCallback \/ PumpTake \/ PumpPush \/ StopJoined \/ Detokenize \/ \E c \in Calls : CancelCall(c)
  <2>1. UNCHANGED <<commands, dead, dead_lock, sending, engine_pc>>
    BY <1>4 DEF RunCallback, PumpTake, PumpPush, StopJoined, Detokenize, CancelCall
  <2> QED  BY <2>1, ElsewhereIInv
<1>5. CASE PumpAborts
  BY <1>5, PumpAbortsIInv
<1>6. CASE Stop
  <2>1. commands' = Append(commands, STOP) /\ UNCHANGED <<dead, dead_lock, sending, engine_pc>>
    BY <1>6 DEF Stop
  <2> QED  BY <2>1, UncheckedPutIInv, UncheckedKinds
<1>7. CASE \E s \in Streams : \/ HandlerGet(s) \/ HandlerFails(s) \/ HandlerStalls(s)
                              \/ Disconnect(s) \/ WatcherWakes(s)
  BY <1>7, HandlerIInv
<1>8. CASE HandleCommand
  BY <1>8, HandleCommandIInv
<1>9. CASE GoStep \/ EngineStep \/ StepFails
  <2>1. /\ engine_pc \in {"commands", "step"} /\ engine_pc' \in {"commands", "step", "failing"}
        /\ UNCHANGED sendVars
    BY <1>9 DEF GoStep, EngineStep, StepFails
  <2> QED  BY <2>1, StepIInv
<1>10. CASE Die
  BY <1>10, DieIInv
<1>11. CASE DrainAfterDeath
  BY <1>11, DrainIInv
<1>12. CASE UNCHANGED vars
  <2>1. UNCHANGED <<commands, dead, dead_lock, sending, engine_pc>>
    BY <1>12 DEF vars
  <2> QED  BY <2>1, ElsewhereIInv
<1> QED
  BY <1>1, <1>2, <1>3, <1>4, <1>5, <1>6, <1>7, <1>8, <1>9, <1>10, <1>11, <1>12 DEF Next, Loop, Thread

\* Whatever races with the death of the engine thread, and however many clients submit or call
\* at that moment: no command that somebody waits for is ever left in a queue nobody reads.
THEOREM AsyncNoneLeftBehind == Spec => []NoneLeftBehind
<1>1. IInv => NoneLeftBehind
  BY DEF IInv
<1> QED  BY InitIInv, NextIInv, <1>1, PTL DEF Spec
=============================================================================

--------------------------- MODULE WaitersProofs ---------------------------
(***************************************************************************)
(* Who waits is served, and what nobody reads is aborted, for any number   *)
(* of streams and calls, any engine and any failures.                      *)
(***************************************************************************)
EXTENDS AsyncProofs, FiniteSetTheorems, WellFoundedInduction

-----------------------------------------------------------------------------
(* Sequences *)

\* q is a sequence, of whatever.
IsSeq(q) == q \in Seq(ToSet(q))

LEMMA SeqOwn ==
  ASSUME NEW S, NEW q \in Seq(S)
  PROVE  IsSeq(q)
<1>1. ToSet(q) = Range(q)
  BY DEF ToSet, Range
<1> QED  BY <1>1, OwnElements DEF IsSeq

LEMMA SeqLen ==
  ASSUME NEW q, IsSeq(q)
  PROVE  /\ Len(q) \in Nat /\ DOMAIN q = 1 .. Len(q)
         /\ \A i \in 1 .. Len(q) : q[i] \in ToSet(q)
         /\ \A e \in ToSet(q) : \E i \in 1 .. Len(q) : e = q[i]
         /\ q # <<>> <=> Len(q) # 0
BY DEF IsSeq, ToSet

LEMMA SeqAppend ==
  ASSUME NEW q, IsSeq(q), NEW e
  PROVE  /\ IsSeq(Append(q, e)) /\ Append(q, e) # <<>>
         /\ Len(Append(q, e)) = Len(q) + 1 /\ Append(q, e)[Len(q) + 1] = e
         /\ \A i \in 1 .. Len(q) : Append(q, e)[i] = q[i]
         /\ ToSet(Append(q, e)) = ToSet(q) \cup {e}
<1>1. Append(q, e) \in Seq(ToSet(q) \cup {e})
  BY DEF IsSeq
<1>2. IsSeq(Append(q, e))
  BY <1>1, SeqOwn
<1>3. /\ Len(q) \in Nat /\ Len(Append(q, e)) = Len(q) + 1 /\ Append(q, e)[Len(q) + 1] = e
      /\ \A i \in 1 .. Len(q) : Append(q, e)[i] = q[i]
      /\ DOMAIN Append(q, e) = 1 .. Len(q) + 1 /\ DOMAIN q = 1 .. Len(q) /\ Append(q, e) # <<>>
  BY DEF IsSeq
<1>4. ToSet(Append(q, e)) = ToSet(q) \cup {e}
  BY <1>3 DEF ToSet
<1> QED  BY <1>2, <1>3, <1>4

LEMMA SeqTail ==
  ASSUME NEW q, IsSeq(q), q # <<>>
  PROVE  /\ IsSeq(Tail(q)) /\ Len(Tail(q)) = Len(q) - 1 /\ Len(q) \in Nat \ {0} /\ Head(q) = q[1]
         /\ \A i \in 1 .. Len(q) - 1 : Tail(q)[i] = q[i + 1]
         /\ ToSet(q) = {Head(q)} \cup ToSet(Tail(q))
<1>1. Tail(q) \in Seq(ToSet(q))
  BY DEF IsSeq
<1>2. /\ Len(q) \in Nat \ {0} /\ Len(Tail(q)) = Len(q) - 1 /\ Head(q) = q[1]
      /\ DOMAIN Tail(q) = 1 .. Len(q) - 1 /\ DOMAIN q = 1 .. Len(q)
      /\ \A i \in 1 .. Len(q) - 1 : Tail(q)[i] = q[i + 1]
  BY DEF IsSeq
<1>3. IsSeq(Tail(q))
  BY <1>1, SeqOwn
<1>4. ASSUME NEW e \in ToSet(q) PROVE e = Head(q) \/ e \in ToSet(Tail(q))
  <2>1. PICK i \in 1 .. Len(q) : e = q[i]
    BY <1>2 DEF ToSet
  <2>2. CASE i = 1
    BY <1>2, <2>1, <2>2
  <2>3. CASE i # 1
    <3>1. i - 1 \in 1 .. Len(q) - 1 /\ Tail(q)[i - 1] = q[i]
      BY <1>2, <2>3
    <3> QED  BY <1>2, <2>1, <3>1 DEF ToSet
  <2> QED  BY <2>2, <2>3
<1>5. ASSUME NEW e \in ToSet(Tail(q)) PROVE e \in ToSet(q)
  BY <1>2 DEF ToSet
<1>6. Head(q) \in ToSet(q)
  BY <1>2 DEF ToSet
<1> QED  BY <1>2, <1>3, <1>4, <1>5, <1>6

LEMMA SeqConcat ==
  ASSUME NEW q, IsSeq(q), NEW r, IsSeq(r)
  PROVE  IsSeq(q \o r) /\ ToSet(q \o r) = ToSet(q) \cup ToSet(r)
<1>1. q \in Seq(ToSet(q) \cup ToSet(r)) /\ r \in Seq(ToSet(q) \cup ToSet(r))
  BY DEF IsSeq
<1>2. q \o r \in Seq(ToSet(q) \cup ToSet(r))
  BY <1>1
<1>3. /\ Len(q) \in Nat /\ Len(r) \in Nat /\ DOMAIN q = 1 .. Len(q) /\ DOMAIN r = 1 .. Len(r)
      /\ DOMAIN (q \o r) = 1 .. Len(q) + Len(r)
      /\ \A i \in 1 .. Len(q) : (q \o r)[i] = q[i]
      /\ \A i \in 1 .. Len(r) : (q \o r)[Len(q) + i] = r[i]
  BY <1>1
<1>4. ASSUME NEW e \in ToSet(q \o r) PROVE e \in ToSet(q) \cup ToSet(r)
  BY <1>2 DEF ToSet
<1>5. ASSUME NEW e \in ToSet(q) PROVE e \in ToSet(q \o r)
  <2>1. PICK i \in 1 .. Len(q) : e = q[i]
    BY <1>3 DEF ToSet
  <2> QED  BY <1>3, <2>1 DEF ToSet
<1>6. ASSUME NEW e \in ToSet(r) PROVE e \in ToSet(q \o r)
  <2>1. PICK i \in 1 .. Len(r) : e = r[i]
    BY <1>3 DEF ToSet
  <2>2. Len(q) + i \in 1 .. Len(q) + Len(r) /\ (q \o r)[Len(q) + i] = e
    BY <1>3, <2>1
  <2> QED  BY <1>3, <2>2 DEF ToSet
<1> QED  BY <1>2, <1>4, <1>5, <1>6, SeqOwn

\* A function on 1 .. n is a sequence.
LEMMA FunIsSeq ==
  ASSUME NEW f, NEW n \in Nat, NEW S, f \in [1 .. n -> S]
  PROVE  IsSeq(f) /\ Len(f) = n
<1>1. f \in Seq(S) /\ Len(f) = n
  OBVIOUS
<1> QED  BY <1>1, SeqOwn

LEMMA SeqEmpty == IsSeq(<<>>) /\ ToSet(<<>>) = {}
<1>1. <<>> \in Seq({}) /\ DOMAIN <<>> = {}
  OBVIOUS
<1>2. ToSet(<<>>) = {}
  BY <1>1 DEF ToSet
<1> QED  BY <1>1, <1>2, SeqOwn

LEMMA SeqOne == ASSUME NEW e PROVE IsSeq(<<e>>) /\ ToSet(<<e>>) = {e} /\ <<e>> # <<>>
<1>1. <<e>> \in Seq({e}) /\ DOMAIN <<e>> = {1} /\ <<e>>[1] = e /\ Len(<<e>>) = 1
  OBVIOUS
<1>2. ToSet(<<e>>) = {e}
  BY <1>1 DEF ToSet
<1>3. <<e>> # <<>>
  OBVIOUS
<1> QED  BY <1>1, <1>2, <1>3, SeqOwn

-----------------------------------------------------------------------------
(* InOrder: a finite set of numbers as a sequence *)

Below(S, x) == {y \in S : y < x}

LEMMA LeastNat ==
  ASSUME NEW T \in SUBSET Nat, T # {}
  PROVE  \E x \in T : \A y \in T : x <= y
<1> DEFINE R == {ss \in Nat \X Nat : ss[1] < ss[2]}
<1>1. IsWellFoundedOn(R, Nat)
  BY NatLessThanWellFounded DEF OpToRel
<1> HIDE DEF R
<1>2. PICK x \in T : \A y \in T : ~ (<<y, x>> \in R)
  BY <1>1, WFMin
<1>3. ASSUME NEW y \in T PROVE x <= y
  <2>1. y \in Nat /\ x \in Nat /\ <<y, x>> \notin R
    BY <1>2
  <2>2. ~ (y < x)
    BY <2>1 DEF R
  <2> QED  BY <2>1, <2>2
<1> QED  BY <1>3

\* There is an element below which lie exactly i - 1 others.
LEMMA RankExists ==
  ASSUME NEW n \in Nat, NEW S \in SUBSET (1 .. n), NEW i \in 1 .. Cardinality(S)
  PROVE  \E x \in S : Cardinality(Below(S, x)) = i - 1
<1> DEFINE Ranked(m) == \A T \in SUBSET (1 .. m) : \A k \in 1 .. Cardinality(T) :
                          \E x \in T : Cardinality(Below(T, x)) = k - 1
           Bad == {m \in Nat : ~ Ranked(m)}
<1>1. ASSUME NEW m \in Nat, \A l \in Nat : l < m => Ranked(l) PROVE Ranked(m)
  <2> SUFFICES ASSUME NEW T \in SUBSET (1 .. m), NEW k \in 1 .. Cardinality(T)
               PROVE  \E x \in T : Cardinality(Below(T, x)) = k - 1
    OBVIOUS
  <2>1. IsFiniteSet(T) /\ Cardinality(T) \in Nat
    <3>1. IsFiniteSet(1 .. m)
      BY FS_Interval
    <3>2. IsFiniteSet(T)
      BY <3>1, FS_Subset
    <3> QED  BY <3>2, FS_CardinalityType
  <2>2. m # 0
    <3> SUFFICES ASSUME m = 0 PROVE FALSE
      OBVIOUS
    <3>1. T = {}
      OBVIOUS
    <3>2. Cardinality(T) = 0
      BY <3>1, FS_EmptySet
    <3> QED  BY <3>2
  <2>3. m - 1 \in Nat /\ m - 1 < m
    BY <2>2
  <2>4. Ranked(m - 1)
    BY <1>1, <2>3
  <2> HIDE DEF Bad
  <2>5. CASE m \notin T
    <3>1. T \in SUBSET (1 .. m - 1)
      BY <2>5
    <3> QED  BY <2>4, <3>1
  <2>6. CASE m \in T
    <3> DEFINE U == T \ {m}
    <3>1. U \in SUBSET (1 .. m - 1)
      OBVIOUS
    <3>2. Cardinality(U) = Cardinality(T) - 1 /\ IsFiniteSet(U)
      BY <2>1, <2>6, FS_RemoveElement
    <3>3. CASE k = Cardinality(T)
      <4>1. \A y \in T : y \in Int /\ y <= m
        OBVIOUS
      <4>2. \A y \in T : y < m <=> y # m
        BY <4>1
      <4>3. Below(T, m) = U
        BY <4>2 DEF Below
      <4> QED  BY <2>6, <3>2, <3>3, <4>3
    <3>4. CASE k # Cardinality(T)
      <4>1. k \in 1 .. Cardinality(U)
        BY <2>1, <3>2, <3>4
      <4>2. PICK x \in U : Cardinality(Below(U, x)) = k - 1
        BY <2>4, <3>1, <4>1
      <4>3. Below(T, x) = Below(U, x)
        BY <3>1, <4>2 DEF Below
      <4> QED  BY <4>2, <4>3
    <3> QED  BY <3>3, <3>4
  <2> QED  BY <2>5, <2>6
<1> HIDE DEF Ranked
<1>2. Bad = {}
  <2> SUFFICES ASSUME Bad # {} PROVE FALSE
    OBVIOUS
  <2>1. PICK x \in Bad : \A y \in Bad : x <= y
    BY LeastNat
  <2>2. \A l \in Nat : l < x => Ranked(l)
    BY <2>1
  <2> QED  BY <1>1, <2>1, <2>2
<1>3. Ranked(n)
  BY <1>2
<1> QED  BY <1>3 DEF Ranked

\* Among the elements of the set, the ranks grow.
LEMMA RankGrows ==
  ASSUME NEW n \in Nat, NEW S \in SUBSET (1 .. n), NEW x \in S, NEW y \in S, x < y
  PROVE  /\ Cardinality(Below(S, x)) \in Nat /\ Cardinality(Below(S, y)) \in Nat
         /\ Cardinality(Below(S, x)) < Cardinality(Below(S, y))
<1>0. IsFiniteSet(1 .. n)
  BY FS_Interval
<1>1. \A T : T \subseteq S => IsFiniteSet(T) /\ Cardinality(T) \in Nat
  BY <1>0, FS_Subset, FS_CardinalityType
<1>2. \A z \in S : z \in Int
  OBVIOUS
<1>3. Below(S, x) \subseteq S /\ Below(S, y) \subseteq S /\ x \notin Below(S, x)
  BY DEF Below
<1>4. Cardinality(Below(S, x) \cup {x}) = Cardinality(Below(S, x)) + 1
  BY <1>1, <1>3, FS_AddElement
<1>5. Below(S, x) \cup {x} \subseteq Below(S, y)
  <2>1. \A z \in S : z < x => z < y
    BY <1>2
  <2> QED  BY <2>1 DEF Below
<1>6. Cardinality(Below(S, x) \cup {x}) <= Cardinality(Below(S, y))
  BY <1>1, <1>3, <1>5, FS_Subset
<1> QED  BY <1>1, <1>3, <1>4, <1>6

\* Each place of the sequence has the element of its rank.
LEMMA RankOf ==
  ASSUME NEW n \in Nat, NEW S \in SUBSET (1 .. n), NEW i \in 1 .. Cardinality(S)
  PROVE  InOrder(S)[i] \in S /\ Cardinality(Below(S, InOrder(S)[i])) = i - 1
<1>1. \E x \in S : Cardinality(Below(S, x)) = i - 1
  BY RankExists
<1>2. InOrder(S)[i] = CHOOSE x \in S : Cardinality(Below(S, x)) = i - 1
  BY DEF InOrder, Below
<1> QED  BY <1>1, <1>2

\* The elements of the set, all of them and nothing else.
LEMMA Enumerated ==
  ASSUME NEW n \in Nat, NEW S \in SUBSET (1 .. n)
  PROVE  IsSeq(InOrder(S)) /\ ToSet(InOrder(S)) = S /\ (InOrder(S) = <<>> <=> S = {})
<1> DEFINE q == InOrder(S)
<1>1. IsFiniteSet(S) /\ Cardinality(S) \in Nat
  <2>1. IsFiniteSet(1 .. n)
    BY FS_Interval
  <2>2. IsFiniteSet(S)
    BY <2>1, FS_Subset
  <2> QED  BY <2>2, FS_CardinalityType
<1>2. q = [i \in 1 .. Cardinality(S) |-> CHOOSE x \in S : Cardinality(Below(S, x)) = i - 1]
  BY DEF InOrder, Below
<1>3. ASSUME NEW i \in 1 .. Cardinality(S) PROVE q[i] \in S /\ Cardinality(Below(S, q[i])) = i - 1
  BY RankOf
<1>4. q \in [1 .. Cardinality(S) -> S]
  <2>1. q = [i \in 1 .. Cardinality(S) |-> q[i]]
    BY <1>2
  <2> HIDE DEF q
  <2> QED  BY <1>3, <2>1
<1> HIDE DEF q
<1>5. IsSeq(q) /\ Len(q) = Cardinality(S)
  BY <1>1, <1>4, FunIsSeq
<1>6. \A T : T \subseteq S => IsFiniteSet(T) /\ Cardinality(T) \in Nat
  BY <1>1, FS_Subset, FS_CardinalityType
<1>0. \A x \in S : x \in Int
  OBVIOUS
<1>7. ASSUME NEW x \in S, NEW y \in S, x < y PROVE Cardinality(Below(S, x)) < Cardinality(Below(S, y))
  BY <1>7, RankGrows
<1>8. ASSUME NEW x \in S PROVE \E i \in 1 .. Cardinality(S) : x = q[i]
  <2>1. Below(S, x) \subseteq S /\ x \notin Below(S, x)
    BY DEF Below
  <2>2. Cardinality(Below(S, x) \cup {x}) = Cardinality(Below(S, x)) + 1
    BY <1>6, <2>1, FS_AddElement
  <2>3. Cardinality(Below(S, x) \cup {x}) <= Cardinality(S)
    BY <1>1, <2>1, FS_Subset
  <2>4. Cardinality(Below(S, x)) + 1 \in 1 .. Cardinality(S)
    BY <1>1, <1>6, <2>1, <2>2, <2>3
  <2>5. PICK i \in 1 .. Cardinality(S) : i = Cardinality(Below(S, x)) + 1
    BY <2>4
  <2>6. q[i] \in S /\ Cardinality(Below(S, q[i])) = Cardinality(Below(S, x))
    BY <1>3, <1>6, <2>1, <2>5
  <2>7. q[i] = x
    <3>1. PICK c \in Nat : c = Cardinality(Below(S, x))
      BY <1>6, <2>1
    <3>2. PICK z \in S : z = q[i] /\ c = Cardinality(Below(S, z))
      BY <2>6, <3>1
    <3>3. ~ (c < c)
      OBVIOUS
    <3>4. ~ (z < x) /\ ~ (x < z)
      BY <1>7, <3>1, <3>2, <3>3
    <3>5. z \in Int /\ x \in Int
      BY <1>0
    <3>6. z = x
      BY <3>4, <3>5
    <3> QED  BY <3>2, <3>6
  <2> QED  BY <2>5, <2>7
<1>9. ToSet(q) = S
  BY <1>4, <1>8 DEF ToSet
<1>10. q = <<>> <=> S = {}
  <2>1. q = <<>> => S = {}
    BY <1>9, SeqEmpty
  <2>2. q # <<>> => q[1] \in ToSet(q)
    BY <1>5, SeqLen
  <2> QED  BY <1>9, <2>1, <2>2
<1> QED  BY <1>5, <1>9, <1>10 DEF q
-----------------------------------------------------------------------------
(* The invariant *)

\* The commands that concern these streams.
CommandsTo(S) == {AddOf(s) : s \in S} \cup {AbortOf(s) : s \in S} \cup {CallOf(c) : c \in Calls} \cup {STOP}

CommandsOK == /\ IsSeq(commands) /\ ToSet(commands) \subseteq CommandsTo(Streams)
              /\ sending \in CommandsTo(Streams) \cup {NoCommand}

Fields == {"queue", "finished", "handler", "watcher", "gone", "got", "text", "reason"}

StreamOK(st) == Fields \subseteq DOMAIN st /\ IsSeq(st.queue)

StreamsOK == IsSeq(stream) /\ \A s \in Streams : StreamOK(stream[s])

\* A live request is one that the engine has open, for one stream; the thread that has failed or
\* been stopped has none.
LiveOK ==
  /\ IsSeq(gen)
  /\ \A r \in DOMAIN gen : {"max_new", "out", "status"} \subseteq DOMAIN gen[r]
  /\ DOMAIN live \subseteq Streams
  /\ \A s \in DOMAIN live :
       /\ {"rid", "sent"} \subseteq DOMAIN live[s]
       /\ live[s].rid \in DOMAIN gen /\ gen[live[s].rid].status = "open"
  /\ \A s, t \in DOMAIN live : live[s].rid = live[t].rid => s = t
  /\ engine_pc \in {"draining", "ended"} => DOMAIN live = {}

\* A callback hands over updates for streams there are, or answers a call.
CallbackOK(cb) == \/ cb.kind = "updates" /\ IsSeq(cb.list) /\ \A u \in ToSet(cb.list) : u.s \in Streams
                  \/ \E c \in Calls : cb = SetFuture(c)

PumpOK ==
  /\ {"state", "batch", "texts"} \subseteq DOMAIN pump
  /\ IsSeq(pump.batch) /\ IsSeq(pump.texts)
  /\ pump.state \in {"waiting", "detokenizing", "decoded", "undecoded", "aborting", "cancelled"}
  /\ pump.state \in {"waiting", "cancelled"} => pump.batch = <<>>
  /\ pump.state \in {"detokenizing", "undecoded"} => pump.batch # <<>>
  /\ pump.state = "undecoded" => pump.texts = <<>>
  /\ pump.state = "aborting" => Len(pump.texts) <= Len(pump.batch) /\ sending = NoCommand

DeliveryOK ==
  /\ IsSeq(soon) /\ \A cb \in ToSet(soon) : CallbackOK(cb)
  /\ IsSeq(updates) /\ \A u \in ToSet(updates) \cup ToSet(pump.batch) : u.s \in Streams

\* A stream's request is added once: it is being sent, queued, live or past.
AddedOnce ==
  \A s \in Streams :
    /\ \A i, j \in DOMAIN commands : commands[i] = AddOf(s) /\ commands[j] = AddOf(s) => i = j
    /\ AddOf(s) \in ToSet(commands) => sending # AddOf(s) /\ s \notin DOMAIN live
    /\ sending = AddOf(s) => s \notin DOMAIN live

\* If the engine has the request of stream s, or will get it, then it will be told to abort it.
AbortComing(s) ==
  /\ sending # AddOf(s)
  /\ s \in DOMAIN live => AbortOf(s) \in ToSet(commands)
  /\ \A i \in DOMAIN commands : commands[i] = AddOf(s) =>
       \E j \in i + 1 .. Len(commands) : commands[j] = AbortOf(s)

SoonItems == UNION {ToSet(cb.list) : cb \in {x \in ToSet(soon) : x.kind = "updates"}}
Items == ToSet(pump.batch) \cup ToSet(updates) \cup SoonItems

\* What the stream itself knows of its end: nobody reads it any more, or its last output is in.
OverIn(st) ==
  \/ st.finished \/ st.handler = "ended" \/ st.watcher = "ended"
  \/ \E out \in ToSet(st.queue) : out.reason # "none"

\* An output that ends the stream is on the way to it.
OverOut(s) ==
  \/ \E u \in Items : u.s = s /\ u.reason # "none"
  \/ pump.state = "aborting" /\ \E i \in 1 .. Len(pump.texts) : pump.batch[i].s = s

Over(s) == OverIn(stream[s]) \/ OverOut(s)

OverIsAborted == \A s \in Streams : Over(s) => AbortComing(s)

\* The thread ends unasked only when it is dead; STOP and the pump's end come from stop.
StopOK ==
  /\ (STOP \in ToSet(commands) \/ sending = STOP \/ pump.state = "cancelled") => stopping # "no"
  /\ (engine_pc = "ended" /\ stopping = "no") => dead
  /\ engine_pc = "draining" => dead
  /\ DOMAIN call = Calls

WInv == /\ IInv /\ CommandsOK /\ StreamsOK /\ LiveOK /\ PumpOK /\ DeliveryOK /\ AddedOnce
        /\ OverIsAborted /\ StopOK /\ WaitersServed
-----------------------------------------------------------------------------
(* Streams *)

LEMMA StreamUpdated ==
  ASSUME StreamsOK, NEW s \in Streams, NEW st, StreamOK(st), stream' = [stream EXCEPT ![s] = st]
  PROVE  /\ StreamsOK' /\ Streams' = Streams /\ stream'[s] = st
         /\ \A t \in Streams : t # s => stream'[t] = stream[t]
<1>1. Len(stream) \in Nat /\ DOMAIN stream = 1 .. Len(stream) /\ stream \in Seq(ToSet(stream))
  BY SeqLen DEF StreamsOK, IsSeq
<1>2. /\ stream' \in [1 .. Len(stream) -> ToSet(stream) \cup {st}] /\ stream'[s] = st
      /\ \A t \in Streams : t # s => stream'[t] = stream[t]
  BY <1>1 DEF Streams
<1>3. IsSeq(stream') /\ Len(stream') = Len(stream)
  BY <1>1, <1>2, FunIsSeq
<1>4. Streams' = Streams
  BY <1>1, <1>2 DEF Streams
<1>5. \A t \in Streams : StreamOK(stream'[t])
  BY <1>2 DEF StreamsOK
<1> QED  BY <1>2, <1>3, <1>4, <1>5 DEF StreamsOK

\* RequestStream.get: what is left in the queue, and the end of the stream if it was the last output.
LEMMA TakenOK ==
  ASSUME NEW st, StreamOK(st), st.queue # <<>>
  PROVE  LET taken == Taken(st, Head(st.queue)) IN
         /\ StreamOK(taken) /\ taken.queue = Tail(st.queue) /\ taken.handler = st.handler
         /\ taken.watcher = st.watcher /\ taken.gone = st.gone
         /\ taken.finished = IF Head(st.queue) = DISCONNECTED THEN st.finished
                             ELSE Head(st.queue).reason # "none"
<1>1. IsSeq(Tail(st.queue))
  BY SeqTail DEF StreamOK
<1>2. CASE Head(st.queue) = DISCONNECTED
  BY <1>1, <1>2 DEF Taken, StreamOK, Fields
<1>3. CASE Head(st.queue) # DISCONNECTED
  <2> DEFINE out == Head(st.queue)
  <2>1. PICK got, text :
          Taken(st, out) = [st EXCEPT !.queue = Tail(st.queue), !.finished = out.reason # "none",
                                      !.reason = out.reason, !.got = got, !.text = text]
    BY <1>3 DEF Taken
  <2> QED  BY <1>1, <1>3, <2>1 DEF StreamOK, Fields
<1> QED  BY <1>2, <1>3

\* The steps of a handler and of its watcher: one stream changes, and it is told to the engine if
\* this is the end of it and was not before; who still reads has lost no last output.
LEMMA HandlerSteps ==
  ASSUME StreamsOK, NEW s \in Streams,
         \/ HandlerGet(s) \/ HandlerFails(s) \/ HandlerStalls(s) \/ Disconnect(s) \/ WatcherWakes(s)
  PROVE  \E st :
           /\ stream' = [stream EXCEPT ![s] = st] /\ StreamOK(st)
           /\ \/ commands' = Append(commands, AbortOf(s))
              \/ commands' = commands /\ (OverIn(st) => OverIn(stream[s]))
           /\ st.handler = "reading" =>
                /\ stream[s].handler = "reading" /\ (stream[s].gone => st.gone)
                /\ \A out \in ToSet(stream[s].queue) : out.reason # "none" => out \in ToSet(st.queue) \/ st.gone
<1> DEFINE old == stream[s]
<1>1. StreamOK(old) /\ IsSeq(old.queue)
  BY DEF StreamsOK, StreamOK
<1> HIDE DEF old
<1>2. ASSUME NEW taken, StreamOK(taken), EndHandler(s, taken), taken.finished => OverIn(old)
      PROVE  \E st : /\ stream' = [stream EXCEPT ![s] = st] /\ StreamOK(st) /\ st.handler = "ended"
                     /\ \/ commands' = Append(commands, AbortOf(s))
                        \/ commands' = commands /\ (OverIn(st) => OverIn(old))
  <2> DEFINE st == [taken EXCEPT !.handler = "ended", !.watcher = "ended"]
  <2>1. stream' = [stream EXCEPT ![s] = st]
    BY <1>2 DEF EndHandler
  <2>2. StreamOK(st) /\ st.handler = "ended"
    BY <1>2 DEF StreamOK, Fields
  <2>3. commands' = Append(commands, AbortOf(s)) \/ (commands' = commands /\ taken.finished)
    BY <1>2 DEF EndHandler, Aborting
  <2> HIDE DEF st
  <2> QED  BY <1>2, <2>1, <2>2, <2>3
<1>3. CASE HandlerGet(s)
  <2> DEFINE out == Head(old.queue)
             taken == Taken(old, out)
  <2>1. old.handler = "reading" /\ old.queue # <<>>
        /\ IF taken.finished \/ out = DISCONNECTED THEN EndHandler(s, taken)
           ELSE stream' = [stream EXCEPT ![s] = taken] /\ UNCHANGED commands
    BY <1>3 DEF HandlerGet, old
  <2>2. /\ StreamOK(taken) /\ taken.queue = Tail(old.queue) /\ taken.handler = old.handler
        /\ taken.watcher = old.watcher /\ taken.gone = old.gone
        /\ taken.finished = IF out = DISCONNECTED THEN old.finished ELSE out.reason # "none"
    BY <1>1, <2>1, TakenOK
  <2>3. ToSet(old.queue) = {out} \cup ToSet(Tail(old.queue))
    BY <1>1, <2>1, SeqTail
  <2> HIDE DEF out, taken
  <2>4. taken.finished => OverIn(old)
    BY <2>2, <2>3 DEF OverIn, DISCONNECTED
  <2>5. CASE taken.finished \/ out = DISCONNECTED
    <3>1. EndHandler(s, taken)
      BY <2>1, <2>5
    <3> QED  BY <1>2, <2>2, <2>4, <3>1 DEF old
  <2>6. CASE ~ taken.finished /\ out # DISCONNECTED
    <3>1. out.reason = "none" /\ stream' = [stream EXCEPT ![s] = taken] /\ commands' = commands
      BY <2>1, <2>2, <2>6
    <3>2. OverIn(taken) => OverIn(old)
      BY <2>2, <2>3, <2>6 DEF OverIn
    <3>3. \A o \in ToSet(old.queue) : o.reason # "none" => o \in ToSet(taken.queue)
      BY <2>2, <2>3, <3>1
    <3> QED  BY <2>1, <2>2, <3>1, <3>2, <3>3 DEF old
  <2> QED  BY <2>5, <2>6
<1>4. CASE HandlerFails(s)
  <2>1. EndHandler(s, old)
    BY <1>4 DEF HandlerFails, old
  <2>2. old.finished => OverIn(old)
    BY DEF OverIn
  <2> QED  BY <1>1, <1>2, <2>1, <2>2 DEF old
<1>5. CASE HandlerStalls(s)
  <2> DEFINE st == [old EXCEPT !.handler = "stalled"]
  <2>1. stream' = [stream EXCEPT ![s] = st] /\ commands' = commands /\ old.handler = "reading"
    BY <1>5 DEF HandlerStalls, sendVars, old
  <2>2. /\ StreamOK(st) /\ st.handler = "stalled" /\ st.queue = old.queue /\ st.finished = old.finished
        /\ st.watcher = old.watcher
    BY <1>1 DEF StreamOK, Fields
  <2> HIDE DEF st
  <2>3. OverIn(st) => OverIn(old)
    BY <2>2 DEF OverIn
  <2> QED  BY <2>1, <2>2, <2>3 DEF old
<1>6. CASE Disconnect(s)
  <2> DEFINE st == [old EXCEPT !.gone = TRUE]
  <2>1. stream' = [stream EXCEPT ![s] = st] /\ commands' = commands
    BY <1>6 DEF Disconnect, sendVars, old
  <2>2. /\ StreamOK(st) /\ st.handler = old.handler /\ st.queue = old.queue
        /\ st.finished = old.finished /\ st.watcher = old.watcher /\ st.gone = TRUE
    BY <1>1 DEF StreamOK, Fields
  <2> HIDE DEF st
  <2>3. OverIn(st) => OverIn(old)
    BY <2>2 DEF OverIn
  <2> QED  BY <2>1, <2>2, <2>3 DEF old
<1>7. CASE WatcherWakes(s)
  <2> DEFINE st == [old EXCEPT !.watcher = "ended", !.queue = Append(old.queue, DISCONNECTED)]
  <2>1. stream' = [stream EXCEPT ![s] = st] /\ old.gone
    BY <1>7 DEF WatcherWakes, old
  <2>2. IsSeq(Append(old.queue, DISCONNECTED))
    BY <1>1, SeqAppend
  <2>3. StreamOK(st) /\ st.handler = old.handler /\ st.gone = old.gone
    BY <1>1, <2>2 DEF StreamOK, Fields
  <2>4. commands' = Append(commands, AbortOf(s)) \/ (commands' = commands /\ old.finished)
    BY <1>7 DEF WatcherWakes, Aborting, old
  <2>5. old.finished => OverIn(old)
    BY DEF OverIn
  <2> HIDE DEF st
  <2> QED  BY <2>1, <2>3, <2>4, <2>5 DEF old
<1> QED  BY <1>3, <1>4, <1>5, <1>6, <1>7
-----------------------------------------------------------------------------
(* Commands *)

LEMMA Kinds ==
  /\ \A s, t : AddOf(s) # AbortOf(t) /\ AddOf(s) # CallOf(t) /\ AbortOf(s) # CallOf(t)
  /\ \A s : /\ AddOf(s) # STOP /\ AbortOf(s) # STOP /\ CallOf(s) # STOP
            /\ AddOf(s) # NoCommand /\ AbortOf(s) # NoCommand /\ CallOf(s) # NoCommand
            /\ AddOf(s).kind = "add" /\ AbortOf(s).kind = "abort" /\ CallOf(s).kind = "call"
            /\ AddOf(s).s = s /\ AbortOf(s).s = s /\ CallOf(s).c = s
  /\ \A s, t : /\ AddOf(s) = AddOf(t) => s = t
               /\ AbortOf(s) = AbortOf(t) => s = t
               /\ CallOf(s) = CallOf(t) => s = t
  /\ STOP # NoCommand /\ STOP.kind = "stop"
<1>1. \A s : AddOf(s).kind = "add" /\ AbortOf(s).kind = "abort" /\ CallOf(s).kind = "call"
             /\ AddOf(s).s = s /\ AbortOf(s).s = s /\ CallOf(s).c = s
  BY DEF AddOf, AbortOf, CallOf
<1>2. STOP.kind = "stop" /\ NoCommand.kind = "none"
  BY DEF STOP, NoCommand
<1> QED  BY <1>1, <1>2

\* The queue before and after a put.
LEMMA PutCommand ==
  ASSUME CommandsOK, NEW cmd, commands' = Append(commands, cmd)
  PROVE  /\ IsSeq(commands') /\ ToSet(commands)' = ToSet(commands) \cup {cmd}
         /\ Len(commands) \in Nat /\ Len(commands') = Len(commands) + 1
         /\ DOMAIN commands = 1 .. Len(commands) /\ DOMAIN commands' = 1 .. Len(commands) + 1
         /\ commands'[Len(commands) + 1] = cmd
         /\ \A i \in 1 .. Len(commands) : commands'[i] = commands[i]
<1>1. IsSeq(commands)
  BY DEF CommandsOK
<1>2. /\ IsSeq(commands') /\ ToSet(commands') = ToSet(commands) \cup {cmd}
      /\ Len(commands') = Len(commands) + 1 /\ commands'[Len(commands) + 1] = cmd
      /\ \A i \in 1 .. Len(commands) : commands'[i] = commands[i]
  BY <1>1, SeqAppend
<1>3. ToSet(commands)' = ToSet(commands')
  BY DEF ToSet
<1>4. DOMAIN commands = 1 .. Len(commands) /\ DOMAIN commands' = 1 .. Len(commands') /\ Len(commands) \in Nat
  BY <1>1, <1>2, SeqLen
<1> QED  BY <1>2, <1>3, <1>4

\* The queue before and after a get.
LEMMA GetCommand ==
  ASSUME CommandsOK, commands # <<>>, commands' = Tail(commands)
  PROVE  /\ IsSeq(commands') /\ ToSet(commands) = {Head(commands)} \cup ToSet(commands)'
         /\ Len(commands) \in Nat \ {0} /\ Len(commands') = Len(commands) - 1
         /\ DOMAIN commands = 1 .. Len(commands) /\ DOMAIN commands' = 1 .. Len(commands) - 1
         /\ commands[1] = Head(commands)
         /\ \A i \in 1 .. Len(commands) - 1 : commands'[i] = commands[i + 1]
<1>1. IsSeq(commands)
  BY DEF CommandsOK
<1>2. /\ IsSeq(commands') /\ Len(commands') = Len(commands) - 1 /\ Len(commands) \in Nat \ {0}
      /\ Head(commands) = commands[1] /\ \A i \in 1 .. Len(commands) - 1 : commands'[i] = commands[i + 1]
      /\ ToSet(commands) = {Head(commands)} \cup ToSet(commands')
  BY <1>1, SeqTail
<1>3. ToSet(commands)' = ToSet(commands')
  BY DEF ToSet
<1>4. DOMAIN commands = 1 .. Len(commands) /\ DOMAIN commands' = 1 .. Len(commands')
  BY <1>1, <1>2, SeqLen
<1> QED  BY <1>2, <1>3, <1>4

\* A put of anything but the stream's own addition leaves its abort coming.
LEMMA PutComing ==
  ASSUME CommandsOK, NEW s, NEW cmd, commands' = Append(commands, cmd), live' = live, AbortComing(s),
         cmd # AddOf(s), sending' # AddOf(s)
  PROVE  AbortComing(s)'
<1>1. /\ ToSet(commands)' = ToSet(commands) \cup {cmd}
      /\ Len(commands) \in Nat /\ Len(commands') = Len(commands) + 1
      /\ DOMAIN commands = 1 .. Len(commands) /\ DOMAIN commands' = 1 .. Len(commands) + 1
      /\ commands'[Len(commands) + 1] = cmd
      /\ \A i \in 1 .. Len(commands) : commands'[i] = commands[i]
  BY PutCommand
<1>2. s \in DOMAIN live' => AbortOf(s) \in ToSet(commands)'
  BY <1>1 DEF AbortComing
<1>3. ASSUME NEW i \in DOMAIN commands', commands'[i] = AddOf(s)
      PROVE  \E j \in i + 1 .. Len(commands') : commands'[j] = AbortOf(s)
  <2>1. i \in 1 .. Len(commands) /\ commands[i] = AddOf(s)
    BY <1>1, <1>3
  <2>2. PICK j \in i + 1 .. Len(commands) : commands[j] = AbortOf(s)
    BY <1>1, <2>1 DEF AbortComing
  <2>3. j \in 1 .. Len(commands) /\ j \in i + 1 .. Len(commands')
    BY <1>1, <2>1
  <2> QED  BY <1>1, <2>2, <2>3
<1>4. AddOf(s)' = AddOf(s) /\ AbortOf(s)' = AbortOf(s)
  BY DEF AddOf, AbortOf
<1> QED  BY <1>2, <1>3, <1>4 DEF AbortComing

\* Once its abort is put, and its addition was before, it is coming.
LEMMA PutAbort ==
  ASSUME CommandsOK, NEW s, commands' = Append(commands, AbortOf(s)), sending' # AddOf(s)
  PROVE  AbortComing(s)'
<1>1. /\ ToSet(commands)' = ToSet(commands) \cup {AbortOf(s)}
      /\ Len(commands) \in Nat /\ Len(commands') = Len(commands) + 1
      /\ DOMAIN commands' = 1 .. Len(commands) + 1
      /\ commands'[Len(commands) + 1] = AbortOf(s)
  BY PutCommand
<1>2. ASSUME NEW i \in DOMAIN commands', commands'[i] = AddOf(s)
      PROVE  \E j \in i + 1 .. Len(commands') : commands'[j] = AbortOf(s)
  <2>1. i # Len(commands) + 1
    BY <1>1, <1>2, Kinds
  <2>2. Len(commands) + 1 \in i + 1 .. Len(commands')
    BY <1>1, <2>1
  <2> QED  BY <1>1, <2>2
<1>3. AddOf(s)' = AddOf(s) /\ AbortOf(s)' = AbortOf(s)
  BY DEF AddOf, AbortOf
<1> QED  BY <1>1, <1>2, <1>3 DEF AbortComing

\* A get leaves it coming, unless it was the abort of a request that stays live.
LEMMA GetComing ==
  ASSUME CommandsOK, NEW s, commands # <<>>, commands' = Tail(commands), AbortComing(s),
         sending' = sending,
         s \in DOMAIN live' => \/ s \in DOMAIN live /\ Head(commands) # AbortOf(s)
                               \/ Head(commands) = AddOf(s)
  PROVE  AbortComing(s)'
<1>1. /\ ToSet(commands) = {Head(commands)} \cup ToSet(commands)'
      /\ Len(commands) \in Nat \ {0} /\ Len(commands') = Len(commands) - 1
      /\ DOMAIN commands = 1 .. Len(commands) /\ DOMAIN commands' = 1 .. Len(commands) - 1
      /\ commands[1] = Head(commands) /\ IsSeq(commands')
      /\ \A i \in 1 .. Len(commands) - 1 : commands'[i] = commands[i + 1]
  BY GetCommand
<1>2. ASSUME Head(commands) = AddOf(s) PROVE AbortOf(s) \in ToSet(commands)'
  <2>1. 1 \in DOMAIN commands /\ commands[1] = AddOf(s)
    BY <1>1, <1>2
  <2>2. PICK j \in 1 + 1 .. Len(commands) : commands[j] = AbortOf(s)
    BY <2>1 DEF AbortComing
  <2>3. AbortOf(s) \in ToSet(commands)
    BY <1>1, <2>2 DEF ToSet
  <2> QED  BY <1>1, <1>2, <2>3, Kinds
<1>3. s \in DOMAIN live' => AbortOf(s) \in ToSet(commands)'
  BY <1>1, <1>2 DEF AbortComing
<1>4. ASSUME NEW i \in DOMAIN commands', commands'[i] = AddOf(s)
      PROVE  \E j \in i + 1 .. Len(commands') : commands'[j] = AbortOf(s)
  <2>1. i + 1 \in 1 .. Len(commands) /\ commands[i + 1] = AddOf(s)
    BY <1>1, <1>4
  <2>2. PICK j \in i + 1 + 1 .. Len(commands) : commands[j] = AbortOf(s)
    BY <1>1, <2>1 DEF AbortComing
  <2>3. /\ j - 1 \in 1 .. Len(commands) - 1 /\ j - 1 \in i + 1 .. Len(commands')
        /\ commands'[j - 1] = commands[j]
    BY <1>1, <2>1
  <2> QED  BY <2>2, <2>3
<1>5. AddOf(s)' = AddOf(s) /\ AbortOf(s)' = AbortOf(s)
  BY DEF AddOf, AbortOf
<1> QED  BY <1>3, <1>4, <1>5 DEF AbortComing

-----------------------------------------------------------------------------
(* The engine thread *)

\* What has not been pushed, stream by stream.
LEMMA OnTheWayItems ==
  ASSUME DeliveryOK, NEW s
  PROVE  OnTheWay(s) = {u \in Items : u.s = s}
<1>1. IsSeq(soon)
  BY DEF DeliveryOK
<1>2. {soon[i].list : i \in {j \in DOMAIN soon : soon[j].kind = "updates"}} =
      {cb.list : cb \in {x \in ToSet(soon) : x.kind = "updates"}}
  BY DEF ToSet
<1>3. UNION {ToSet(list) : list \in {cb.list : cb \in {x \in ToSet(soon) : x.kind = "updates"}}} = SoonItems
  BY DEF SoonItems
<1> QED  BY <1>2, <1>3 DEF OnTheWay, Items

\* What one step of the engine thread does to the others: it takes the next command or none, tells
\* the loop these updates, and answers the call if it took one.  Whose request it drops, or does
\* not take, is told so; only those are told an end; and who is aborted is not live.
Took == commands # <<>> /\ commands' = Tail(commands)

ThreadEffect(list) ==
  /\ UNCHANGED <<sending, updates, pump, stream, call, stopping>>
  /\ IsSeq(list) /\ \A u \in ToSet(list) : u.s \in Streams
  /\ Took \/ commands' = commands
  /\ \/ Publish(list)
     \/ list = <<>> /\ Took /\ \E c \in Calls : Head(commands) = CallOf(c) /\ soon' = Append(soon, SetFuture(c))
  /\ \A c \in Calls : Took /\ Head(commands) = CallOf(c) => soon' = Append(soon, SetFuture(c))
  /\ \A s \in DOMAIN live' : s \in DOMAIN live \/ (Took /\ Head(commands) = AddOf(s))
  /\ \A s : (\/ s \in DOMAIN live
             \/ Took /\ Head(commands) = AddOf(s)) =>
                s \in DOMAIN live' \/ \E u \in ToSet(list) : u.s = s /\ u.reason # "none"
  /\ \A u \in ToSet(list) : u.reason # "none" =>
       /\ u.s \notin DOMAIN live'
       /\ u.s \in DOMAIN live \/ (Took /\ Head(commands) = AddOf(u.s))
  /\ \A s : Took /\ Head(commands) = AbortOf(s) => s \notin DOMAIN live'
  /\ engine_pc' = "ended" =>
       \/ engine_pc = "ended" \/ stopping # "no"
       \/ sending = NoCommand /\ commands = <<>>

LEMMA EffectQueue ==
  ASSUME CommandsOK, AddedOnce, NEW list, ThreadEffect(list)
  PROVE  CommandsOK' /\ AddedOnce' /\ Streams' = Streams
<1>1. Streams' = Streams /\ sending' = sending
  BY DEF ThreadEffect, Streams
<1>2. CASE commands' = commands /\ ~ Took
  <2>1. CommandsOK'
    BY <1>1, <1>2 DEF CommandsOK, CommandsTo, AddOf, AbortOf, CallOf, STOP, NoCommand
  <2>2. \A s \in DOMAIN live' : s \in DOMAIN live
    BY <1>2 DEF ThreadEffect
  <2>3. AddedOnce'
    BY <1>1, <1>2, <2>2 DEF AddedOnce, AddOf
  <2> QED  BY <1>1, <2>1, <2>3
<1>3. CASE Took
  <2>1. /\ IsSeq(commands') /\ ToSet(commands) = {Head(commands)} \cup ToSet(commands)'
        /\ Len(commands) \in Nat \ {0} /\ Len(commands') = Len(commands) - 1
        /\ DOMAIN commands = 1 .. Len(commands) /\ DOMAIN commands' = 1 .. Len(commands) - 1
        /\ commands[1] = Head(commands)
        /\ \A i \in 1 .. Len(commands) - 1 : commands'[i] = commands[i + 1]
    BY <1>3, GetCommand DEF Took
  <2>2. CommandsOK'
    BY <1>1, <2>1 DEF CommandsOK, CommandsTo, AddOf, AbortOf, CallOf, STOP, NoCommand
  <2>3. ASSUME NEW s \in Streams, Head(commands) = AddOf(s) PROVE AddOf(s) \notin ToSet(commands)'
    <3> SUFFICES ASSUME AddOf(s) \in ToSet(commands)' PROVE FALSE
      OBVIOUS
    <3>1. PICK i \in 1 .. Len(commands) - 1 : commands'[i] = AddOf(s)
      BY <2>1 DEF ToSet
    <3>2. 1 \in DOMAIN commands /\ i + 1 \in DOMAIN commands /\ commands[i + 1] = AddOf(s) /\ commands[1] = AddOf(s)
      BY <2>1, <2>3, <3>1
    <3>3. 1 = i + 1
      BY <3>2 DEF AddedOnce
    <3> QED  BY <3>3
  <2>4. ASSUME NEW s \in Streams
        PROVE  /\ \A i, j \in DOMAIN commands' : commands'[i] = AddOf(s) /\ commands'[j] = AddOf(s) => i = j
               /\ AddOf(s) \in ToSet(commands)' => sending # AddOf(s) /\ s \notin DOMAIN live'
               /\ sending = AddOf(s) => s \notin DOMAIN live'
    <3>1. ASSUME NEW i \in DOMAIN commands', NEW j \in DOMAIN commands',
                 commands'[i] = AddOf(s), commands'[j] = AddOf(s)
          PROVE  i = j
      <4>1. i + 1 \in DOMAIN commands /\ commands[i + 1] = AddOf(s)
        BY <2>1, <3>1
      <4>2. j + 1 \in DOMAIN commands /\ commands[j + 1] = AddOf(s)
        BY <2>1, <3>1
      <4>3. i + 1 = j + 1
        BY <4>1, <4>2 DEF AddedOnce
      <4>4. i \in Int /\ j \in Int
        BY <2>1
      <4> QED  BY <4>3, <4>4
    <3>2. s \in DOMAIN live' => s \in DOMAIN live \/ Head(commands) = AddOf(s)
      BY DEF ThreadEffect
    <3>3. Head(commands) = AddOf(s) => AddOf(s) \in ToSet(commands)
      BY <2>1
    <3>4. AddOf(s) \in ToSet(commands)' => AddOf(s) \in ToSet(commands)
      BY <2>1
    <3> QED  BY <2>3, <3>1, <3>2, <3>3, <3>4 DEF AddedOnce
  <2>5. AddedOnce'
    BY <1>1, <2>4 DEF AddedOnce, AddOf
  <2> QED  BY <1>1, <2>2, <2>5
<1> QED  BY <1>2, <1>3 DEF ThreadEffect

\* The updates told are in the loop's callback queue, after what was there, or a call's answer is.
LEMMA EffectDelivery ==
  ASSUME DeliveryOK, NEW list, ThreadEffect(list)
  PROVE  /\ DeliveryOK' /\ SoonItems' = SoonItems \cup ToSet(list) /\ Items' = Items \cup ToSet(list)
         /\ ToSet(soon) \subseteq ToSet(soon)'
         /\ \A c \in Calls : Took /\ Head(commands) = CallOf(c) => SetFuture(c) \in ToSet(soon)'
<1>1. IsSeq(soon) /\ IsSeq(list) /\ \A u \in ToSet(list) : u.s \in Streams
  BY DEF DeliveryOK, ThreadEffect
<1>2. Streams' = Streams /\ updates' = updates /\ pump' = pump
  BY DEF ThreadEffect, Streams
<1>3. ToSet(updates)' = ToSet(updates) /\ ToSet(pump.batch)' = ToSet(pump.batch)
  BY <1>2 DEF ToSet
<1>4. \A cb : CallbackOK(cb) => CallbackOK(cb)'
  BY <1>2 DEF CallbackOK, SetFuture, ToSet, IsSeq
<1>5. ASSUME NEW cb, soon' = Append(soon, cb), CallbackOK(cb),
             (IF cb.kind = "updates" THEN ToSet(cb.list) ELSE {}) = ToSet(list)
      PROVE  /\ DeliveryOK' /\ SoonItems' = SoonItems \cup ToSet(list)
             /\ ToSet(soon)' = ToSet(soon) \cup {cb}
  <2>1. IsSeq(soon') /\ ToSet(soon') = ToSet(soon) \cup {cb}
    BY <1>1, <1>5, SeqAppend
  <2>2. ToSet(soon)' = ToSet(soon')
    BY DEF ToSet
  <2>3. DeliveryOK'
    BY <1>2, <1>3, <1>4, <1>5, <2>1, <2>2 DEF DeliveryOK, IsSeq, ToSet
  <2>4. SoonItems' = UNION {ToSet(x.list) : x \in {y \in ToSet(soon) \cup {cb} : y.kind = "updates"}}
    BY <2>1 DEF SoonItems, ToSet
  <2>5. SoonItems' = SoonItems \cup ToSet(list)
    <3>1. CASE cb.kind = "updates"
      BY <1>5, <2>4, <3>1 DEF SoonItems
    <3>2. CASE cb.kind # "updates"
      BY <1>5, <2>4, <3>2 DEF SoonItems
    <3> QED  BY <3>1, <3>2
  <2> QED  BY <2>1, <2>2, <2>3, <2>5
<1>6. ASSUME NEW c \in Calls, soon' = Append(soon, SetFuture(c)), list = <<>>
      PROVE  /\ DeliveryOK' /\ SoonItems' = SoonItems \cup ToSet(list)
             /\ ToSet(soon)' = ToSet(soon) \cup {SetFuture(c)}
  <2>1. CallbackOK(SetFuture(c)) /\ SetFuture(c).kind # "updates"
    BY DEF CallbackOK, SetFuture
  <2>2. ToSet(list) = {}
    BY <1>6, SeqEmpty
  <2> QED  BY <1>5, <1>6, <2>1, <2>2
<1>7. CASE list = <<>> /\ Took /\ \E c \in Calls : Head(commands) = CallOf(c) /\ soon' = Append(soon, SetFuture(c))
  BY <1>3, <1>6, <1>7, Kinds DEF Items
<1>8. CASE Publish(list)
  <2>1. CASE list = <<>>
    <3>1. soon' = soon
      BY <1>8, <2>1 DEF Publish
    <3>2. ToSet(soon)' = ToSet(soon) /\ SoonItems' = SoonItems /\ ToSet(list) = {}
      BY <2>1, <3>1, SeqEmpty DEF ToSet, SoonItems
    <3>3. DeliveryOK'
      BY <1>2, <1>3, <1>4, <3>1, <3>2 DEF DeliveryOK, IsSeq, ToSet
    <3>4. ASSUME NEW c \in Calls, Took, Head(commands) = CallOf(c) PROVE SetFuture(c) \in ToSet(soon)'
      <4>1. soon' = Append(soon, SetFuture(c))
        BY <3>4 DEF ThreadEffect
      <4> QED  BY <1>6, <2>1, <4>1
    <3> QED  BY <1>3, <3>2, <3>3, <3>4 DEF Items
  <2>2. CASE list # <<>>
    <3> DEFINE cb == PutUpdates(list)
    <3>1. soon' = Append(soon, cb)
      BY <1>8, <2>2 DEF Publish
    <3>2. CallbackOK(cb) /\ cb.kind = "updates" /\ cb.list = list
      BY <1>1 DEF CallbackOK, PutUpdates
    <3> HIDE DEF cb
    <3>3. /\ DeliveryOK' /\ SoonItems' = SoonItems \cup ToSet(list)
          /\ ToSet(soon)' = ToSet(soon) \cup {cb}
      BY <1>5, <3>1, <3>2
    <3>4. ASSUME NEW c \in Calls, Took, Head(commands) = CallOf(c) PROVE SetFuture(c) \in ToSet(soon)'
      <4>1. soon' = Append(soon, SetFuture(c))
        BY <3>4 DEF ThreadEffect
      <4>2. ToSet(Append(soon, SetFuture(c))) = ToSet(soon) \cup {SetFuture(c)}
        BY <1>1, SeqAppend
      <4> QED  BY <4>1, <4>2 DEF ToSet
    <3> QED  BY <1>3, <3>3, <3>4 DEF Items
  <2> QED  BY <2>1, <2>2
<1> QED  BY <1>7, <1>8 DEF ThreadEffect

LEMMA EffectOver ==
  ASSUME CommandsOK, DeliveryOK, AddedOnce, OverIsAborted, NEW list, ThreadEffect(list)
  PROVE  OverIsAborted'
<1>1. Streams' = Streams /\ AddedOnce'
  BY EffectQueue
<1>2. Items' = Items \cup ToSet(list)
  BY EffectDelivery
<1>3. stream' = stream /\ pump' = pump /\ sending' = sending
  BY DEF ThreadEffect
<1> SUFFICES ASSUME NEW s \in Streams, Over(s)' PROVE AbortComing(s)'
  BY <1>1 DEF OverIsAborted
<1>4. CASE \E u \in ToSet(list) : u.s = s /\ u.reason # "none"
  <2>1. s \notin DOMAIN live' /\ (s \in DOMAIN live \/ (Took /\ Head(commands) = AddOf(s)))
    BY <1>4 DEF ThreadEffect
  <2>2. AddOf(s) \notin ToSet(commands)' /\ sending # AddOf(s)
    <3>1. CASE s \in DOMAIN live
      <4>1. AddOf(s) \notin ToSet(commands) /\ sending # AddOf(s)
        BY <3>1 DEF AddedOnce
      <4>2. ToSet(commands)' \subseteq ToSet(commands)
        <5>1. CASE Took
          BY <5>1, GetCommand DEF Took
        <5>2. CASE commands' = commands
          BY <5>2 DEF ToSet
        <5> QED  BY <5>1, <5>2 DEF ThreadEffect
      <4> QED  BY <4>1, <4>2
    <3>2. CASE Took /\ Head(commands) = AddOf(s)
      <4>1. /\ ToSet(commands) = {Head(commands)} \cup ToSet(commands)'
            /\ Len(commands) \in Nat \ {0}
            /\ DOMAIN commands = 1 .. Len(commands) /\ DOMAIN commands' = 1 .. Len(commands) - 1
            /\ commands[1] = Head(commands)
            /\ \A i \in 1 .. Len(commands) - 1 : commands'[i] = commands[i + 1]
        BY <3>2, GetCommand DEF Took
      <4>2. sending # AddOf(s)
        BY <3>2, <4>1 DEF AddedOnce
      <4>3. ASSUME AddOf(s) \in ToSet(commands)' PROVE FALSE
        <5>1. PICK i \in 1 .. Len(commands) - 1 : commands'[i] = AddOf(s)
          BY <4>1, <4>3 DEF ToSet
        <5>2. 1 \in DOMAIN commands /\ i + 1 \in DOMAIN commands /\ commands[i + 1] = AddOf(s) /\ commands[1] = AddOf(s)
          BY <3>2, <4>1, <5>1
        <5>3. 1 = i + 1
          BY <5>2 DEF AddedOnce
        <5> QED  BY <5>3
      <4> QED  BY <4>2, <4>3
    <3> QED  BY <2>1, <3>1, <3>2
  <2>3. AddOf(s)' = AddOf(s)
    BY DEF AddOf
  <2>4. \A i \in DOMAIN commands' : commands'[i] # AddOf(s)
    BY <2>2 DEF ToSet
  <2> QED  BY <1>3, <2>1, <2>2, <2>3, <2>4 DEF AbortComing
<1>5. CASE ~ \E u \in ToSet(list) : u.s = s /\ u.reason # "none"
  <2>1. Over(s)
    BY <1>2, <1>3, <1>5 DEF Over, OverIn, OverOut, ToSet
  <2>2. AbortComing(s)
    BY <2>1 DEF OverIsAborted
  <2>3. CASE Took
    <3>1. s \in DOMAIN live' => \/ s \in DOMAIN live /\ Head(commands) # AbortOf(s)
                                \/ Head(commands) = AddOf(s)
      BY <2>3 DEF ThreadEffect
    <3> QED  BY <1>3, <2>2, <2>3, <3>1, GetComing DEF Took
  <2>4. CASE ~ Took /\ commands' = commands
    <3>1. s \in DOMAIN live' => s \in DOMAIN live
      BY <2>4 DEF ThreadEffect
    <3> QED  BY <1>3, <2>2, <2>4, <3>1 DEF AbortComing, ToSet, AddOf, AbortOf
  <2> QED  BY <2>3, <2>4 DEF ThreadEffect
<1> QED  BY <1>4, <1>5

\* WaitersServed, waiter by waiter.
CallServed(c) == ToBeHandled(CallOf(c)) \/ SetFuture(c) \in ToSet(soon)
Served(s) == \/ ToBeHandled(AddOf(s)) \/ s \in DOMAIN live \/ stream[s].gone
             \/ \E out \in ToSet(stream[s].queue) : out.reason # "none"
             \/ \E u \in Items : u.s = s /\ u.reason # "none"

Waiters ==
  stopping = "no" => /\ \A c \in Calls : call[c] = "pending" => CallServed(c)
                     /\ \A s \in Streams : stream[s].handler = "reading" => Served(s)

LEMMA WaitersServedIs == DeliveryOK => (WaitersServed <=> Waiters)
<1> SUFFICES ASSUME DeliveryOK PROVE WaitersServed <=> Waiters
  OBVIOUS
<1>1. \A s : OnTheWay(s) = {u \in Items : u.s = s}
  BY OnTheWayItems
<1>2. \A s : (\E out \in ToSet(stream[s].queue) \cup OnTheWay(s) : out.reason # "none") <=>
             \/ \E out \in ToSet(stream[s].queue) : out.reason # "none"
             \/ \E u \in Items : u.s = s /\ u.reason # "none"
  BY <1>1
<1> QED  BY <1>2 DEF Waiters, WaitersServed, CallServed, Served

LEMMA EffectWaiters ==
  ASSUME CommandsOK, DeliveryOK, WaitersServed, NEW list, ThreadEffect(list)
  PROVE  WaitersServed'
<1>1. /\ DeliveryOK' /\ Items' = Items \cup ToSet(list) /\ ToSet(soon) \subseteq ToSet(soon)'
      /\ \A c \in Calls : Took /\ Head(commands) = CallOf(c) => SetFuture(c) \in ToSet(soon)'
  BY EffectDelivery
<1>2. /\ stream' = stream /\ call' = call /\ sending' = sending /\ stopping' = stopping /\ Streams' = Streams
      /\ (Took \/ commands' = commands)
  BY DEF ThreadEffect, Streams
<1>3. ASSUME NEW cmd, ToBeHandled(cmd), stopping = "no", cmd # NoCommand
      PROVE  ToBeHandled(cmd)' \/ (Took /\ Head(commands) = cmd)
  <2>1. engine_pc # "ended" /\ (sending = cmd \/ cmd \in ToSet(commands))
    BY <1>3 DEF ToBeHandled
  <2>2. ToSet(<<>>) = {}
    BY SeqEmpty
  <2>3. engine_pc' # "ended"
    BY <1>3, <2>1, <2>2 DEF ThreadEffect
  <2>4. CASE Took
    <3>1. ToSet(commands) = {Head(commands)} \cup ToSet(commands)'
      BY <2>4, GetCommand DEF Took
    <3> QED  BY <1>2, <2>1, <2>3, <2>4, <3>1 DEF ToBeHandled
  <2>5. CASE commands' = commands
    BY <1>2, <2>1, <2>3, <2>5 DEF ToBeHandled, ToSet
  <2> QED  BY <1>2, <2>4, <2>5
<1> SUFFICES ASSUME stopping = "no"
             PROVE  /\ \A c \in Calls : call[c] = "pending" => CallServed(c)'
                    /\ \A s \in Streams : stream[s].handler = "reading" => Served(s)'
  <2>1. WaitersServed' <=> Waiters'
    BY <1>1, WaitersServedIs, PTL
  <2> QED  BY <1>2, <2>1 DEF Waiters
<1>4. /\ \A c \in Calls : call[c] = "pending" => CallServed(c)
      /\ \A s \in Streams : stream[s].handler = "reading" => Served(s)
  BY WaitersServedIs DEF Waiters
<1>5. ASSUME NEW c \in Calls, call[c] = "pending" PROVE CallServed(c)'
  <2>1. ToBeHandled(CallOf(c)) => ToBeHandled(CallOf(c))' \/ (Took /\ Head(commands) = CallOf(c))
    <3>1. PICK cmd : cmd = CallOf(c)
      OBVIOUS
    <3>2. cmd # NoCommand
      BY <3>1, Kinds
    <3> QED  BY <1>3, <3>1, <3>2 DEF CallOf
  <2>2. CallServed(c)
    BY <1>4, <1>5
  <2> QED  BY <1>1, <2>1, <2>2 DEF CallServed, SetFuture
<1>6. ASSUME NEW s \in Streams, stream[s].handler = "reading" PROVE Served(s)'
  <2>1. ToBeHandled(AddOf(s)) => ToBeHandled(AddOf(s))' \/ (Took /\ Head(commands) = AddOf(s))
    <3>1. PICK cmd : cmd = AddOf(s)
      OBVIOUS
    <3>2. cmd # NoCommand
      BY <3>1, Kinds
    <3> QED  BY <1>3, <3>1, <3>2 DEF AddOf
  <2>2. (s \in DOMAIN live \/ (Took /\ Head(commands) = AddOf(s))) =>
          s \in DOMAIN live' \/ \E u \in ToSet(list) : u.s = s /\ u.reason # "none"
    BY DEF ThreadEffect
  <2>3. Served(s)
    BY <1>4, <1>6
  <2> QED  BY <1>1, <1>2, <2>1, <2>2, <2>3 DEF Served, ToSet
<1> QED  BY <1>5, <1>6

\* _fail_all: everyone live is told, and nobody else.
LEMMA FailAllEffect ==
  ASSUME LiveOK, StreamsOK, NEW reason, reason # "none", FailAll(reason)
  PROVE  /\ DOMAIN live' = {}
         /\ \E list : /\ Publish(list) /\ IsSeq(list)
                      /\ \A u \in ToSet(list) : u.s \in DOMAIN live /\ u.reason # "none"
                      /\ \A s \in DOMAIN live : \E u \in ToSet(list) : u.s = s /\ u.reason # "none"
<1> DEFINE failed == InOrder(DOMAIN live)
           list == [i \in DOMAIN failed |-> Update(failed[i], <<>>, reason)]
<1>1. Publish(list) /\ live' = << >>
  BY DEF FailAll
<1>2. Len(stream) \in Nat /\ DOMAIN live \in SUBSET (1 .. Len(stream))
  BY SeqLen DEF LiveOK, StreamsOK, Streams
<1>3. IsSeq(failed) /\ ToSet(failed) = DOMAIN live
  BY <1>2, Enumerated
<1> HIDE DEF failed
<1>4. Len(failed) \in Nat /\ DOMAIN failed = 1 .. Len(failed)
  BY <1>3, SeqLen
<1>5. list \in [1 .. Len(failed) -> {Update(s, <<>>, reason) : s \in DOMAIN live}]
  BY <1>3, <1>4 DEF ToSet
<1>6. IsSeq(list)
  BY <1>4, <1>5, FunIsSeq
<1>7. \A i \in DOMAIN failed : list[i].s = failed[i] /\ list[i].reason = reason
  BY DEF Update
<1>8. DOMAIN list = DOMAIN failed
  OBVIOUS
<1> HIDE DEF list
<1>9. \A u \in ToSet(list) : u.s \in DOMAIN live /\ u.reason # "none"
  BY <1>3, <1>7, <1>8 DEF ToSet
<1>10. \A s \in DOMAIN live : \E u \in ToSet(list) : u.s = s /\ u.reason # "none"
  BY <1>3, <1>7, <1>8 DEF ToSet
<1>11. DOMAIN live' = {}
  BY <1>1
<1> QED  BY <1>1, <1>6, <1>9, <1>10, <1>11

\* Who is in the queue: an addition or an abort of a stream there is, a call or STOP.
LEMMA HeadIs ==
  ASSUME CommandsOK, commands # <<>>
  PROVE  LET cmd == Head(commands) IN
         /\ cmd.kind \in {"add", "abort", "call", "stop"} /\ cmd \in ToSet(commands)
         /\ cmd.kind = "add" => cmd.s \in Streams /\ cmd = AddOf(cmd.s)
         /\ cmd.kind = "abort" => cmd.s \in Streams /\ cmd = AbortOf(cmd.s)
         /\ cmd.kind = "call" => cmd.c \in Calls /\ cmd = CallOf(cmd.c)
         /\ cmd.kind = "stop" => cmd = STOP
<1>1. Head(commands) \in ToSet(commands) /\ Head(commands) \in CommandsTo(Streams)
  BY SeqTail DEF CommandsOK
<1>2. PICK cmd : cmd = Head(commands)
  OBVIOUS
<1>3. \/ \E s \in Streams : cmd = AddOf(s) \/ cmd = AbortOf(s)
      \/ \E c \in Calls : cmd = CallOf(c)
      \/ cmd = STOP
  BY <1>1, <1>2 DEF CommandsTo
<1> QED  BY <1>1, <1>2, <1>3, Kinds

\* _handle, an addition the engine accepts.
LEMMA AddLive ==
  ASSUME LiveOK, NEW s \in Streams, s \notin DOMAIN live, Submit(MaxNew), Streams' = Streams,
         live' = [x \in DOMAIN live \cup {s} |->
                    IF x = s THEN [rid |-> Len(gen) + 1, sent |-> 0] ELSE live[x]],
         engine_pc' = "commands"
  PROVE  LiveOK' /\ DOMAIN live' = DOMAIN live \cup {s}
<1>1. DOMAIN live' = DOMAIN live \cup {s}
  OBVIOUS
<1>2. live'[s] = [rid |-> Len(gen) + 1, sent |-> 0] /\ \A t \in DOMAIN live : live'[t] = live[t]
  OBVIOUS
<1>3. IsSeq(gen) /\ Len(gen) \in Nat /\ DOMAIN gen = 1 .. Len(gen)
  BY SeqLen DEF LiveOK
<1>4. PICK g : g = NewGen(MaxNew)
  OBVIOUS
<1>5. {"max_new", "out", "status"} \subseteq DOMAIN g /\ g.status = "open"
  BY <1>4 DEF NewGen
<1>6. gen' = Append(gen, g)
  BY <1>4 DEF Submit
<1>7. /\ IsSeq(gen') /\ Len(gen') = Len(gen) + 1 /\ gen'[Len(gen) + 1] = g
      /\ \A i \in 1 .. Len(gen) : gen'[i] = gen[i]
  BY <1>3, <1>6, SeqAppend
<1>8. DOMAIN gen' = 1 .. Len(gen) + 1
  BY <1>7, SeqLen
<1>9. \A r \in DOMAIN gen' : {"max_new", "out", "status"} \subseteq DOMAIN gen'[r]
  BY <1>3, <1>5, <1>7, <1>8 DEF LiveOK
<1>10. live'[s].rid = Len(gen) + 1 /\ {"rid", "sent"} \subseteq DOMAIN live'[s]
  BY <1>2
<1>11. \A t \in DOMAIN live : live'[t].rid \in 1 .. Len(gen) /\ live'[t].rid # Len(gen) + 1
  BY <1>2, <1>3 DEF LiveOK
<1>12. ASSUME NEW t \in DOMAIN live'
       PROVE  /\ {"rid", "sent"} \subseteq DOMAIN live'[t]
              /\ live'[t].rid \in DOMAIN gen' /\ gen'[live'[t].rid].status = "open"
  <2>1. CASE t = s
    BY <1>3, <1>5, <1>7, <1>8, <1>10, <2>1
  <2>2. CASE t \in DOMAIN live
    <3>1. gen'[live'[t].rid] = gen[live[t].rid]
      BY <1>2, <1>7, <1>11, <2>2
    <3> QED  BY <1>2, <1>3, <1>8, <1>11, <2>2, <3>1 DEF LiveOK
  <2> QED  BY <1>1, <2>1, <2>2
<1>13. ASSUME NEW t \in DOMAIN live', NEW v \in DOMAIN live', live'[t].rid = live'[v].rid PROVE t = v
  BY <1>1, <1>2, <1>10, <1>11, <1>13 DEF LiveOK
<1>14. DOMAIN live' \subseteq Streams'
  BY <1>1 DEF LiveOK
<1> QED  BY <1>1, <1>7, <1>9, <1>12, <1>13, <1>14 DEF LiveOK, IsSeq, ToSet

\* _handle, the abort of a live request.
LEMMA AbortLive ==
  ASSUME LiveOK, NEW s \in DOMAIN live, Cancel(live[s].rid), Forget(s), Streams' = Streams,
         engine_pc' = "commands"
  PROVE  LiveOK' /\ DOMAIN live' = DOMAIN live \ {s}
<1>1. DOMAIN live' = DOMAIN live \ {s} /\ \A t \in DOMAIN live' : live'[t] = live[t]
  BY DEF Forget
<1>2. IsSeq(gen) /\ Len(gen) \in Nat /\ DOMAIN gen = 1 .. Len(gen)
  BY SeqLen DEF LiveOK
<1>3. PICK r \in DOMAIN gen : r = live[s].rid
  BY DEF LiveOK
<1>4. PICK g : g = [gen[r] EXCEPT !.status = "aborted"]
  OBVIOUS
<1>5. {"max_new", "out", "status"} \subseteq DOMAIN g
  BY <1>4 DEF LiveOK
<1>6. gen' = [gen EXCEPT ![r] = g]
  BY <1>3, <1>4 DEF Cancel
<1>7. DOMAIN gen' = DOMAIN gen /\ gen'[r] = g /\ \A i \in DOMAIN gen : i # r => gen'[i] = gen[i]
  BY <1>6
<1>8. gen' \in [1 .. Len(gen) -> ToSet(gen) \cup {g}]
  BY <1>2, <1>6, <1>7 DEF ToSet
<1>9. IsSeq(gen')
  BY <1>2, <1>8, FunIsSeq
<1>10. \A i \in DOMAIN gen' : {"max_new", "out", "status"} \subseteq DOMAIN gen'[i]
  BY <1>5, <1>7 DEF LiveOK
<1>11. \A t \in DOMAIN live' : live[t].rid # r
  BY <1>1, <1>3 DEF LiveOK
<1>12. \A t \in DOMAIN live' : /\ {"rid", "sent"} \subseteq DOMAIN live'[t]
                               /\ live'[t].rid \in DOMAIN gen' /\ gen'[live'[t].rid].status = "open"
  BY <1>1, <1>7, <1>11 DEF LiveOK
<1>13. \A t, v \in DOMAIN live' : live'[t].rid = live'[v].rid => t = v
  BY <1>1 DEF LiveOK
<1>14. DOMAIN live' \subseteq Streams'
  BY <1>1 DEF LiveOK
<1> QED  BY <1>1, <1>9, <1>10, <1>12, <1>13, <1>14 DEF LiveOK, IsSeq, ToSet

\* Nothing that the others see: the thread moves on, or takes a command that concerns nobody.
LEMMA QuietEffect ==
  ASSUME UNCHANGED <<sending, updates, pump, stream, call, stopping, live, soon>>,
         \/ commands' = commands /\ ~ Took
         \/ Took /\ \E s : Head(commands) = AbortOf(s) /\ s \notin DOMAIN live,
         engine_pc' = "ended" => engine_pc = "ended" \/ (sending = NoCommand /\ commands = <<>>)
  PROVE  ThreadEffect(<<>>)
<1>1. IsSeq(<<>>) /\ ToSet(<<>>) = {}
  BY SeqEmpty
<1>2. Publish(<<>>)
  BY DEF Publish
<1>3. CASE commands' = commands /\ ~ Took
  BY <1>1, <1>2, <1>3 DEF ThreadEffect
<1>4. CASE Took /\ \E s : Head(commands) = AbortOf(s) /\ s \notin DOMAIN live
  BY <1>1, <1>2, <1>4, Kinds DEF ThreadEffect
<1> QED  BY <1>3, <1>4

LEMMA NotTook ==
  ASSUME CommandsOK, commands' = commands
  PROVE  ~ Took
<1> SUFFICES ASSUME Took PROVE FALSE
  OBVIOUS
<1>1. Len(commands) \in Nat \ {0} /\ Len(Tail(commands)) = Len(commands) - 1
  BY SeqTail DEF CommandsOK, Took
<1>2. Tail(commands) = commands
  BY DEF Took
<1>3. PICK n \in Nat : n = Len(commands)
  BY <1>1
<1>4. n = n - 1
  BY <1>1, <1>2, <1>3
<1> QED  BY <1>4

\* A request that was not there, or is not any more: the one update that says so.
LEMMA OneTold ==
  ASSUME NEW s \in Streams, NEW reason, reason # "none", Publish(<<Update(s, <<>>, reason)>>), Took,
         Head(commands) = AddOf(s) \/ (Head(commands) = AbortOf(s) /\ s \in DOMAIN live),
         DOMAIN live' = DOMAIN live \ {s}, UNCHANGED <<sending, updates, pump, stream, call, stopping>>,
         engine_pc' = "ended" => engine_pc = "ended"
  PROVE  \E list : ThreadEffect(list)
<1>1. PICK u : u = Update(s, <<>>, reason)
  OBVIOUS
<1>2. u.s = s /\ u.reason # "none"
  BY <1>1 DEF Update
<1>3. IsSeq(<<u>>) /\ ToSet(<<u>>) = {u}
  BY SeqOne
<1>4. Publish(<<u>>)
  BY <1>1
<1>5. PICK list : list = <<u>>
  OBVIOUS
<1>6. ThreadEffect(list)
  BY <1>2, <1>3, <1>4, <1>5, Kinds DEF ThreadEffect
<1> QED  BY <1>6

\* Everyone live is told.
LEMMA AllTold ==
  ASSUME LiveOK, StreamsOK, NEW reason, reason # "none", FailAll(reason),
         UNCHANGED <<sending, updates, pump, stream, call, stopping>>,
         (Took /\ Head(commands) = STOP /\ stopping # "no") \/ (commands' = commands /\ ~ Took /\ engine_pc' # "ended")
  PROVE  (\E list : ThreadEffect(list)) /\ DOMAIN live' = {}
<1>1. DOMAIN live' = {}
  BY FailAllEffect
<1>2. PICK list : /\ Publish(list) /\ IsSeq(list)
                  /\ \A u \in ToSet(list) : u.s \in DOMAIN live /\ u.reason # "none"
                  /\ \A s \in DOMAIN live : \E u \in ToSet(list) : u.s = s /\ u.reason # "none"
  BY FailAllEffect
<1>3. \A u \in ToSet(list) : u.s \in Streams
  BY <1>2 DEF LiveOK
<1>4. ThreadEffect(list)
  BY <1>1, <1>2, <1>3, Kinds DEF ThreadEffect
<1> QED  BY <1>1, <1>4

LEMMA NobodyLive ==
  ASSUME LiveOK, DOMAIN live' = {}, gen' = gen
  PROVE  LiveOK'
<1>1. IsSeq(gen')
  BY DEF LiveOK, IsSeq, ToSet
<1> QED  BY <1>1 DEF LiveOK, IsSeq, ToSet

LEMMA SameLive ==
  ASSUME LiveOK, live' = live, gen' = gen, Streams \subseteq Streams',
         engine_pc' \in {"draining", "ended"} => engine_pc \in {"draining", "ended"}
  PROVE  LiveOK'
<1>1. IsSeq(gen')
  BY DEF LiveOK, IsSeq, ToSet
<1> QED  BY <1>1 DEF LiveOK, IsSeq, ToSet

\* _run takes a command.
LEMMA HandleCommandEffect ==
  ASSUME CommandsOK, StreamsOK, LiveOK, AddedOnce, StopOK, HandleCommand
  PROVE  (\E list : ThreadEffect(list)) /\ LiveOK'
<1> DEFINE cmd == Head(commands)
<1>1. /\ engine_pc = "commands" /\ Took /\ commands # <<>> /\ Streams' = Streams
      /\ UNCHANGED <<sending, updates, pump, stream, call, stopping>>
      /\ \/ cmd.kind = "add"   /\ HandleAdd(cmd.s)   /\ UNCHANGED engine_pc
         \/ cmd.kind = "abort" /\ HandleAbort(cmd.s) /\ UNCHANGED engine_pc
         \/ cmd.kind = "call"  /\ HandleCall(cmd.c)  /\ UNCHANGED engine_pc
         \/ cmd.kind = "stop"  /\ FailAll("abort")   /\ UNCHANGED gen /\ engine_pc' = "ended"
  BY DEF HandleCommand, Took, pumpVars, clientVars, Streams
<1>2. /\ cmd \in ToSet(commands)
      /\ cmd.kind = "add" => cmd.s \in Streams /\ cmd = AddOf(cmd.s)
      /\ cmd.kind = "abort" => cmd.s \in Streams /\ cmd = AbortOf(cmd.s)
      /\ cmd.kind = "call" => cmd.c \in Calls /\ cmd = CallOf(cmd.c)
      /\ cmd.kind = "stop" => cmd = STOP
  BY <1>1, HeadIs
<1>3. CASE cmd.kind = "add" /\ HandleAdd(cmd.s) /\ UNCHANGED engine_pc
  <2>1. PICK s \in Streams : s = cmd.s /\ cmd = AddOf(s)
    BY <1>2, <1>3
  <2>2. s \notin DOMAIN live
    BY <1>2, <2>1 DEF AddedOnce
  <2>3. CASE Publish(<<Update(s, <<>>, "error")>>) /\ UNCHANGED <<gen, live>>
    <3>1. DOMAIN live' = DOMAIN live \ {s}
      BY <2>2, <2>3
    <3>2. \E list : ThreadEffect(list)
      BY <1>1, <1>3, <2>1, <2>3, <3>1, OneTold
    <3>3. LiveOK'
      BY <1>1, <1>3, <2>3, SameLive
    <3> QED  BY <3>2, <3>3
  <2>4. CASE /\ Submit(MaxNew) /\ UNCHANGED soon
             /\ live' = [x \in DOMAIN live \cup {s} |->
                           IF x = s THEN [rid |-> Len(gen) + 1, sent |-> 0] ELSE live[x]]
    <3>1. LiveOK' /\ DOMAIN live' = DOMAIN live \cup {s}
      BY <1>1, <1>3, <2>2, <2>4, AddLive
    <3>2. IsSeq(<<>>) /\ ToSet(<<>>) = {}
      BY SeqEmpty
    <3>3. Publish(<<>>)
      BY <2>4 DEF Publish
    <3>4. ThreadEffect(<<>>)
      BY <1>1, <1>3, <2>1, <3>1, <3>2, <3>3, Kinds DEF ThreadEffect
    <3> QED  BY <3>1, <3>4
  <2> QED  BY <1>3, <2>1, <2>3, <2>4 DEF HandleAdd
<1>4. CASE cmd.kind = "abort" /\ HandleAbort(cmd.s) /\ UNCHANGED engine_pc
  <2>1. PICK s \in Streams : s = cmd.s /\ cmd = AbortOf(s)
    BY <1>2, <1>4
  <2>2. CASE s \notin DOMAIN live
    <3>1. UNCHANGED <<gen, live, soon>>
      BY <1>4, <2>1, <2>2 DEF HandleAbort
    <3>2. ThreadEffect(<<>>)
      BY <1>1, <1>4, <2>1, <2>2, <3>1, QuietEffect
    <3>3. LiveOK'
      BY <1>1, <1>4, <3>1, SameLive
    <3> QED  BY <3>2, <3>3
  <2>3. CASE s \in DOMAIN live
    <3>1. Cancel(live[s].rid) /\ Forget(s) /\ Publish(<<Update(s, <<>>, "abort")>>)
      BY <1>4, <2>1, <2>3 DEF HandleAbort
    <3>2. LiveOK' /\ DOMAIN live' = DOMAIN live \ {s}
      BY <1>1, <1>4, <2>3, <3>1, AbortLive
    <3>3. \E list : ThreadEffect(list)
      BY <1>1, <1>4, <2>1, <2>3, <3>1, <3>2, OneTold
    <3> QED  BY <3>2, <3>3
  <2> QED  BY <2>2, <2>3
<1>5. CASE cmd.kind = "call" /\ HandleCall(cmd.c) /\ UNCHANGED engine_pc
  <2>1. PICK c \in Calls : c = cmd.c /\ cmd = CallOf(c)
    BY <1>2, <1>5
  <2>2. soon' = Append(soon, SetFuture(c)) /\ UNCHANGED <<gen, live>>
    BY <1>5, <2>1 DEF HandleCall
  <2>3. IsSeq(<<>>) /\ ToSet(<<>>) = {}
    BY SeqEmpty
  <2>4. ThreadEffect(<<>>)
    BY <1>1, <1>5, <2>1, <2>2, <2>3, Kinds DEF ThreadEffect
  <2>5. LiveOK'
    BY <1>1, <1>5, <2>2, SameLive
  <2> QED  BY <2>4, <2>5
<1>6. CASE cmd.kind = "stop" /\ FailAll("abort") /\ UNCHANGED gen /\ engine_pc' = "ended"
  <2>1. cmd = STOP /\ stopping # "no"
    BY <1>2, <1>6 DEF StopOK
  <2>2. (\E list : ThreadEffect(list)) /\ DOMAIN live' = {}
    BY <1>1, <1>6, <2>1, AllTold
  <2>3. LiveOK'
    BY <1>6, <2>2, NobodyLive
  <2> QED  BY <2>2, <2>3
<1> QED  BY <1>1, <1>3, <1>4, <1>5, <1>6

\* A token leaves a request open, or finishes it.
LEMMA GrownStatus ==
  ASSUME NEW g, {"max_new", "out", "status"} \subseteq DOMAIN g, NEW tok
  PROVE  /\ {"max_new", "out", "status"} \subseteq DOMAIN Grown(g, tok)
         /\ Grown(g, tok).status \in {"open", "finished"}
<1>1. PICK longer : longer = [g EXCEPT !.out = Append(g.out, tok)]
  OBVIOUS
<1>2. {"max_new", "out", "status"} \subseteq DOMAIN longer
  BY <1>1
<1>3. PICK status \in {"open", "finished"} : status = GenStatus(longer)
  BY DEF GenStatus
<1>4. Grown(g, tok) = [longer EXCEPT !.status = status]
  BY <1>1, <1>3 DEF Grown
<1> QED  BY <1>2, <1>4

\* A step of the engine: whose request it finishes is told so in the same step.
LEMMA EngineStepEffect ==
  ASSUME CommandsOK, StreamsOK, LiveOK, EngineStep
  PROVE  (\E list : ThreadEffect(list)) /\ LiveOK'
<1>1. /\ UNCHANGED <<commands, sending, updates, pump, stream, call, stopping>> /\ Streams' = Streams
      /\ engine_pc' \in {"commands", "failing"}
  BY DEF EngineStep, sendVars, pumpVars, clientVars, Streams
<1>2. ~ Took
  BY <1>1, NotTook
<1>3. PICK rids \in SUBSET DOMAIN gen : \E grow \in [rids -> GenTokens] : StepWith(grow)
  BY DEF EngineStep
<1>4. PICK grow \in [rids -> GenTokens] : StepWith(grow)
  BY <1>3
<1>5. DOMAIN grow = rids
  BY <1>4
<1> DEFINE now == [r \in DOMAIN gen |-> IF r \in DOMAIN grow THEN Grown(gen[r], grow[r]) ELSE gen[r]]
           mine == {s \in DOMAIN live : live[s].rid \in DOMAIN grow}
           news == InOrder(mine)
           list == [i \in DOMAIN news |-> NewUpdate(news[i], now)]
<1>6. gen' = now /\ live' = SentUpTo(now) /\ Publish(list)
  BY <1>4 DEF StepWith
<1>7. \A r \in DOMAIN gen :
        /\ {"max_new", "out", "status"} \subseteq DOMAIN now[r]
        /\ gen[r].status = "open" => now[r].status \in {"open", "finished"}
        /\ r \notin DOMAIN grow => now[r] = gen[r]
  <2> TAKE r \in DOMAIN gen
  <2>1. {"max_new", "out", "status"} \subseteq DOMAIN gen[r]
    BY DEF LiveOK
  <2>2. CASE r \in DOMAIN grow
    <3>1. now[r] = Grown(gen[r], grow[r])
      BY <2>2
    <3> HIDE DEF now
    <3> QED  BY <2>1, <2>2, <3>1, GrownStatus
  <2>3. CASE r \notin DOMAIN grow
    BY <2>1, <2>3
  <2> QED  BY <2>2, <2>3
<1>8. DOMAIN now = DOMAIN gen
  OBVIOUS
<1>9. IsSeq(now)
  <2>1. Len(gen) \in Nat /\ DOMAIN gen = 1 .. Len(gen)
    BY SeqLen DEF LiveOK
  <2>2. now \in [1 .. Len(gen) -> {now[r] : r \in DOMAIN gen}]
    BY <2>1
  <2> HIDE DEF now
  <2> QED  BY <2>1, <2>2, FunIsSeq
<1> HIDE DEF now
<1>10. \A s \in DOMAIN live : /\ {"rid", "sent"} \subseteq DOMAIN live[s] /\ live[s].rid \in DOMAIN gen
                              /\ gen[live[s].rid].status = "open" /\ s \in Streams
  BY DEF LiveOK
<1>11. /\ DOMAIN live' = {x \in DOMAIN live : now[live[x].rid].status = "open"}
       /\ \A s \in DOMAIN live' : live'[s] = [live[s] EXCEPT !.sent = Len(now[live[s].rid].out)]
  BY <1>6 DEF SentUpTo
<1>12. \A s \in DOMAIN live' : live'[s].rid = live[s].rid /\ {"rid", "sent"} \subseteq DOMAIN live'[s]
  BY <1>10, <1>11
<1>13. LiveOK'
  <2>1. \A s, t \in DOMAIN live : live[s].rid = live[t].rid => s = t
    BY DEF LiveOK
  <2>2. DOMAIN live' \subseteq Streams'
    BY <1>1, <1>10, <1>11
  <2>3. \A s \in DOMAIN live' : live'[s].rid \in DOMAIN gen' /\ gen'[live'[s].rid].status = "open"
    BY <1>6, <1>8, <1>10, <1>11, <1>12
  <2>4. \A s, t \in DOMAIN live' : live'[s].rid = live'[t].rid => s = t
    BY <1>11, <1>12, <2>1
  <2>5. \A r \in DOMAIN gen' : {"max_new", "out", "status"} \subseteq DOMAIN gen'[r]
    BY <1>6, <1>7, <1>8
  <2> QED  BY <1>1, <1>6, <1>9, <1>12, <2>2, <2>3, <2>4, <2>5 DEF LiveOK, IsSeq, ToSet
<1>14. IsSeq(news) /\ ToSet(news) = mine
  <2>1. Len(stream) \in Nat /\ mine \in SUBSET (1 .. Len(stream))
    BY <1>10, SeqLen DEF StreamsOK, Streams
  <2> QED  BY <2>1, Enumerated
<1>15. Len(news) \in Nat /\ DOMAIN news = 1 .. Len(news)
  BY <1>14, SeqLen
<1> HIDE DEF news
<1>16. DOMAIN list = DOMAIN news /\ \A i \in DOMAIN news : list[i] = NewUpdate(news[i], now)
  OBVIOUS
<1>17. IsSeq(list)
  <2>1. list \in [1 .. Len(news) -> {NewUpdate(s, now) : s \in mine}]
    BY <1>14, <1>15 DEF ToSet
  <2> QED  BY <1>15, <2>1, FunIsSeq
<1> HIDE DEF list
<1>18. ToSet(list) = {NewUpdate(s, now) : s \in mine}
  BY <1>14, <1>16 DEF ToSet
<1>19. \A s \in mine : /\ NewUpdate(s, now).s = s
                       /\ NewUpdate(s, now).reason # "none" <=> now[live[s].rid].status = "finished"
  BY DEF NewUpdate, Update
<1>20. \A s \in DOMAIN live : s \notin DOMAIN live' => s \in mine /\ now[live[s].rid].status = "finished"
  BY <1>7, <1>10, <1>11
<1>21. \A s \in DOMAIN live : s \in DOMAIN live' \/ \E u \in ToSet(list) : u.s = s /\ u.reason # "none"
  BY <1>18, <1>19, <1>20
<1>22. \A u \in ToSet(list) : /\ u.s \in DOMAIN live /\ u.s \in Streams
                              /\ u.reason # "none" => u.s \notin DOMAIN live'
  BY <1>10, <1>11, <1>18, <1>19
<1>23. ThreadEffect(list)
  BY <1>1, <1>2, <1>6, <1>11, <1>17, <1>21, <1>22 DEF ThreadEffect
<1> QED  BY <1>13, <1>23

\* The thread dies: everyone live is told; then it answers what is queued, one at a time.
LEMMA DieEffect ==
  ASSUME CommandsOK, StreamsOK, LiveOK, Die
  PROVE  (\E list : ThreadEffect(list)) /\ LiveOK'
<1>1. /\ UNCHANGED <<commands, sending, updates, pump, stream, call, stopping, gen>>
      /\ engine_pc' = "draining" /\ FailAll("error")
  BY DEF Die, pumpVars, clientVars
<1>2. ~ Took
  BY <1>1, NotTook
<1>3. (\E list : ThreadEffect(list)) /\ DOMAIN live' = {}
  BY <1>1, <1>2, AllTold
<1> QED  BY <1>1, <1>3, NobodyLive

LEMMA DrainEffect ==
  ASSUME IInv, CommandsOK, StreamsOK, LiveOK, DrainAfterDeath
  PROVE  (\E list : ThreadEffect(list)) /\ LiveOK'
<1> DEFINE cmd == Head(commands)
<1>1. /\ UNCHANGED <<sending, updates, pump, stream, call, stopping, gen, live>>
      /\ engine_pc = "draining" /\ engine_pc' \in {"draining", "ended"} /\ Streams' = Streams
  BY DEF DrainAfterDeath, pumpVars, clientVars, Streams
<1>2. LiveOK' /\ DOMAIN live = {}
  <2>1. LiveOK'
    BY <1>1, SameLive
  <2> QED  BY <1>1, <2>1 DEF LiveOK
<1>3. sending = NoCommand
  BY <1>1 DEF IInv, SenderHoldsLock, DrainHoldsLock
<1>4. CASE commands = <<>>
  <2>1. commands' = commands /\ soon' = soon
    BY <1>4 DEF DrainAfterDeath
  <2>2. ~ Took
    BY <1>4 DEF Took
  <2>3. ThreadEffect(<<>>)
    BY <1>1, <1>3, <1>4, <2>1, <2>2, QuietEffect
  <2> QED  BY <1>2, <2>3
<1>5. CASE commands # <<>>
  <2>1. Took /\ engine_pc' = engine_pc /\ AnswerDead(cmd)
    BY <1>5 DEF DrainAfterDeath, Took
  <2>2. /\ cmd.kind \in {"add", "abort", "call", "stop"}
        /\ cmd.kind = "add" => cmd.s \in Streams /\ cmd = AddOf(cmd.s)
        /\ cmd.kind = "abort" => cmd.s \in Streams /\ cmd = AbortOf(cmd.s)
        /\ cmd.kind = "call" => cmd.c \in Calls /\ cmd = CallOf(cmd.c)
        /\ cmd.kind = "stop" => cmd = STOP
    BY <1>5, HeadIs
  <2>3. IsSeq(<<>>) /\ ToSet(<<>>) = {}
    BY SeqEmpty
  <2>4. CASE cmd.kind = "add"
    <3>1. PICK s \in Streams : s = cmd.s /\ cmd = AddOf(s)
      BY <2>2, <2>4
    <3>2. Publish(<<Update(s, <<>>, "error")>>)
      BY <2>1, <2>4, <3>1 DEF AnswerDead
    <3>3. DOMAIN live' = DOMAIN live \ {s}
      BY <1>1, <1>2
    <3>4. \E list : ThreadEffect(list)
      BY <1>1, <2>1, <3>1, <3>2, <3>3, OneTold
    <3> QED  BY <1>2, <3>4
  <2>5. CASE cmd.kind = "call"
    <3>1. PICK c \in Calls : c = cmd.c /\ cmd = CallOf(c)
      BY <2>2, <2>5
    <3>2. soon' = Append(soon, SetFuture(c))
      BY <2>1, <2>5, <3>1 DEF AnswerDead
    <3>3. ThreadEffect(<<>>)
      BY <1>1, <2>1, <2>3, <3>1, <3>2, Kinds DEF ThreadEffect
    <3> QED  BY <1>2, <3>3
  <2>6. CASE cmd.kind \in {"abort", "stop"}
    <3>1. soon' = soon
      BY <2>1, <2>6 DEF AnswerDead
    <3>2. Publish(<<>>)
      BY <3>1 DEF Publish
    <3>3. ThreadEffect(<<>>)
      BY <1>1, <1>2, <2>1, <2>2, <2>3, <2>6, <3>2, Kinds DEF ThreadEffect
    <3> QED  BY <1>2, <3>3
  <2> QED  BY <2>2, <2>4, <2>5, <2>6
<1> QED  BY <1>4, <1>5

LEMMA MoveOnEffect ==
  ASSUME CommandsOK, LiveOK, GoStep \/ StepFails
  PROVE  ThreadEffect(<<>>) /\ LiveOK'
<1>1. /\ UNCHANGED <<commands, sending, updates, pump, stream, call, stopping, gen, live, soon>>
      /\ engine_pc' \in {"step", "failing"} /\ Streams' = Streams
  BY DEF GoStep, StepFails, sendVars, pumpVars, clientVars, Streams
<1>2. ~ Took
  BY <1>1, NotTook
<1>3. ThreadEffect(<<>>)
  BY <1>1, <1>2, QuietEffect
<1> QED  BY <1>1, <1>3, SameLive

LEMMA ThreadStep ==
  ASSUME WInv, Thread
  PROVE  WInv'
<1> USE DEF WInv
<1>1. IInv'
  BY NextIInv DEF Next
<1>2. /\ UNCHANGED <<sending, pump, stream, call, stopping>>
      /\ \/ HandleCommand /\ dead' = dead
         \/ (GoStep \/ EngineStep \/ StepFails) /\ engine_pc' \in {"commands", "step", "failing"}
         \/ Die /\ engine_pc' = "draining" /\ dead'
         \/ DrainAfterDeath /\ dead' = dead
  BY DEF Thread, HandleCommand, GoStep, EngineStep, StepFails, Die, DrainAfterDeath,
         sendVars, pumpVars, clientVars
<1>3. (\E list : ThreadEffect(list)) /\ LiveOK'
  BY <1>2, HandleCommandEffect, EngineStepEffect, DieEffect, DrainEffect, MoveOnEffect
<1>4. PICK list : ThreadEffect(list)
  BY <1>3
<1>5. CommandsOK' /\ AddedOnce' /\ DeliveryOK' /\ OverIsAborted' /\ WaitersServed'
  BY <1>4, EffectQueue, EffectDelivery, EffectOver, EffectWaiters
<1>6. StreamsOK' /\ PumpOK'
  BY <1>2 DEF StreamsOK, PumpOK, StreamOK, IsSeq, ToSet, Streams, Fields, NoCommand
<1>7. StopOK'
  <2>1. STOP \in ToSet(commands)' => STOP \in ToSet(commands)
    <3>1. CASE Took
      BY <3>1, GetCommand DEF Took
    <3>2. CASE commands' = commands
      BY <3>2 DEF ToSet
    <3> QED  BY <1>4, <3>1, <3>2 DEF ThreadEffect
  <2>2. /\ (engine_pc' = "ended" /\ stopping = "no") => dead'
        /\ engine_pc' = "draining" => dead'
    <3>1. CASE HandleCommand /\ dead' = dead
      <4>1. CASE engine_pc' = engine_pc
        BY <3>1, <4>1 DEF StopOK
      <4>2. CASE Head(commands).kind = "stop" /\ engine_pc' = "ended" /\ commands # <<>>
        BY <4>2, HeadIs DEF StopOK
      <4> QED  BY <3>1, <4>1, <4>2 DEF HandleCommand
    <3>2. CASE engine_pc' \in {"commands", "step", "failing"}
      BY <3>2
    <3>3. CASE Die /\ engine_pc' = "draining" /\ dead'
      BY <3>3
    <3>4. CASE DrainAfterDeath /\ dead' = dead
      BY <3>4 DEF DrainAfterDeath, StopOK
    <3> QED  BY <1>2, <3>1, <3>2, <3>3, <3>4
  <2> QED  BY <1>2, <2>1, <2>2 DEF StopOK, STOP
<1> QED  BY <1>1, <1>3, <1>5, <1>6, <1>7

-----------------------------------------------------------------------------
(* The event loop and the worker *)

\* The queue is as it was, or has an abort or STOP more.
QueueKept ==
  /\ UNCHANGED <<sending, live, gen, engine_pc, dead>> /\ Streams' = Streams
  /\ \/ commands' = commands
     \/ \E s \in Streams : commands' = Append(commands, AbortOf(s))
     \/ commands' = Append(commands, STOP)

LEMMA KeptQueue ==
  ASSUME CommandsOK, AddedOnce, LiveOK, QueueKept
  PROVE  /\ CommandsOK' /\ AddedOnce' /\ LiveOK'
         /\ \A s : AbortComing(s) => AbortComing(s)'
         /\ \A cmd : ToBeHandled(cmd) => ToBeHandled(cmd)'
<1>1. /\ sending' = sending /\ live' = live /\ Streams' = Streams /\ engine_pc' = engine_pc
      /\ gen' = gen
  BY DEF QueueKept
<1>2. LiveOK'
  BY <1>1, SameLive
<1>3. CASE commands' = commands
  <2>1. ToSet(commands)' = ToSet(commands)
    BY <1>3 DEF ToSet
  <2>2. CommandsOK'
    BY <1>1, <1>3 DEF CommandsOK, CommandsTo, AddOf, AbortOf, CallOf, STOP, NoCommand
  <2>3. AddedOnce'
    BY <1>1, <1>3, <2>1 DEF AddedOnce, AddOf
  <2>4. \A s : AbortComing(s) => AbortComing(s)'
    BY <1>1, <1>3, <2>1 DEF AbortComing, AddOf, AbortOf
  <2>5. \A cmd : ToBeHandled(cmd) => ToBeHandled(cmd)'
    BY <1>1, <2>1 DEF ToBeHandled
  <2> QED  BY <1>2, <2>2, <2>3, <2>4, <2>5
<1>4. ASSUME NEW put, commands' = Append(commands, put), put \in CommandsTo(Streams),
             \A s : put # AddOf(s)
      PROVE  /\ CommandsOK' /\ AddedOnce'
             /\ \A s : AbortComing(s) => AbortComing(s)'
             /\ \A cmd : ToBeHandled(cmd) => ToBeHandled(cmd)'
  <2>1. /\ IsSeq(commands') /\ ToSet(commands)' = ToSet(commands) \cup {put}
        /\ Len(commands) \in Nat /\ Len(commands') = Len(commands) + 1
        /\ DOMAIN commands = 1 .. Len(commands) /\ DOMAIN commands' = 1 .. Len(commands) + 1
        /\ commands'[Len(commands) + 1] = put
        /\ \A i \in 1 .. Len(commands) : commands'[i] = commands[i]
    BY <1>4, PutCommand
  <2>2. CommandsTo(Streams)' = CommandsTo(Streams)
    BY <1>1 DEF CommandsTo, AddOf, AbortOf, CallOf, STOP
  <2>3. CommandsOK'
    BY <1>1, <1>4, <2>1, <2>2 DEF CommandsOK, NoCommand
  <2>4. \A s : \A i \in DOMAIN commands' :
          commands'[i] = AddOf(s) => i \in DOMAIN commands /\ commands[i] = AddOf(s)
    BY <1>4, <2>1
  <2>5. AddedOnce'
    <3>1. ASSUME NEW s \in Streams
          PROVE  /\ \A i, j \in DOMAIN commands' : commands'[i] = AddOf(s) /\ commands'[j] = AddOf(s) => i = j
                 /\ AddOf(s) \in ToSet(commands)' => sending # AddOf(s) /\ s \notin DOMAIN live
                 /\ sending = AddOf(s) => s \notin DOMAIN live
      <4>1. AddOf(s) \in ToSet(commands)' => AddOf(s) \in ToSet(commands)
        BY <1>4, <2>1
      <4> QED  BY <2>4, <4>1 DEF AddedOnce
    <3> QED  BY <1>1, <3>1 DEF AddedOnce, AddOf
  <2>6. ASSUME NEW s, AbortComing(s) PROVE AbortComing(s)'
    <3>1. sending' # AddOf(s)
      BY <1>1, <2>6 DEF AbortComing
    <3> QED  BY <1>1, <1>4, <2>6, <3>1, PutComing
  <2>7. \A cmd : ToBeHandled(cmd) => ToBeHandled(cmd)'
    BY <1>1, <2>1 DEF ToBeHandled
  <2> QED  BY <2>3, <2>5, <2>6, <2>7
<1>5. CASE commands' = Append(commands, STOP)
  <2>1. PICK put : put = STOP
    OBVIOUS
  <2>2. put \in CommandsTo(Streams) /\ \A s : put # AddOf(s)
    BY <2>1, Kinds DEF CommandsTo
  <2> QED  BY <1>2, <1>4, <1>5, <2>1, <2>2
<1>6. ASSUME NEW t \in Streams, commands' = Append(commands, AbortOf(t))
      PROVE  /\ CommandsOK' /\ AddedOnce'
             /\ \A s : AbortComing(s) => AbortComing(s)'
             /\ \A cmd : ToBeHandled(cmd) => ToBeHandled(cmd)'
  <2>1. PICK put : put = AbortOf(t)
    OBVIOUS
  <2>2. put \in CommandsTo(Streams) /\ \A s : put # AddOf(s)
    BY <2>1, Kinds DEF CommandsTo
  <2> QED  BY <1>4, <1>6, <2>1, <2>2
<1> QED  BY <1>2, <1>3, <1>5, <1>6 DEF QueueKept

\* Whose stream is over after the step was over before, or has his abort put by it.
LEMMA KeptOver ==
  ASSUME CommandsOK, AddedOnce, LiveOK, OverIsAborted, QueueKept,
         \A s \in Streams : Over(s)' =>
           Over(s) \/ (commands' = Append(commands, AbortOf(s)) /\ sending # AddOf(s))
  PROVE  OverIsAborted'
<1>1. Streams' = Streams /\ sending' = sending
  BY DEF QueueKept
<1> SUFFICES ASSUME NEW s \in Streams, Over(s)' PROVE AbortComing(s)'
  BY <1>1 DEF OverIsAborted
<1>2. CASE Over(s)
  BY <1>2, KeptQueue DEF OverIsAborted
<1>3. CASE commands' = Append(commands, AbortOf(s)) /\ sending # AddOf(s)
  BY <1>1, <1>3, PutAbort
<1> QED  BY <1>2, <1>3

\* Who waits after the step waited before, and has not lost his answer.
Final(s) == \/ \E out \in ToSet(stream[s].queue) : out.reason # "none"
            \/ \E u \in Items : u.s = s /\ u.reason # "none"

LEMMA KeptWaiters ==
  ASSUME CommandsOK, AddedOnce, LiveOK, DeliveryOK, WaitersServed, QueueKept, DeliveryOK',
         stopping' = "no" => stopping = "no",
         \A c \in Calls : (stopping' = "no" /\ call'[c] = "pending") =>
           call[c] = "pending" /\ (SetFuture(c) \in ToSet(soon) => SetFuture(c) \in ToSet(soon)'),
         \A s \in Streams : (stopping' = "no" /\ stream'[s].handler = "reading") =>
           /\ stream[s].handler = "reading" /\ (stream[s].gone => stream'[s].gone)
           /\ Final(s) => Final(s)' \/ stream'[s].gone
  PROVE  WaitersServed'
<1>1. Streams' = Streams /\ live' = live
  BY DEF QueueKept
<1>2. \A cmd : ToBeHandled(cmd) => ToBeHandled(cmd)'
  BY KeptQueue
<1>3. WaitersServed' <=> Waiters'
  BY WaitersServedIs, PTL
<1> SUFFICES ASSUME stopping' = "no"
             PROVE  /\ \A c \in Calls : call'[c] = "pending" => CallServed(c)'
                    /\ \A s \in Streams : stream'[s].handler = "reading" => Served(s)'
  BY <1>1, <1>3 DEF Waiters
<1>4. /\ \A c \in Calls : call[c] = "pending" => CallServed(c)
      /\ \A s \in Streams : stream[s].handler = "reading" => Served(s)
  BY WaitersServedIs DEF Waiters
<1>5. ASSUME NEW c \in Calls, call'[c] = "pending" PROVE CallServed(c)'
  <2>1. PICK cmd : cmd = CallOf(c)
    OBVIOUS
  <2>2. ToBeHandled(CallOf(c)) => ToBeHandled(CallOf(c))'
    BY <1>2, <2>1 DEF CallOf
  <2> QED  BY <1>4, <1>5, <2>2 DEF CallServed, SetFuture
<1>6. ASSUME NEW s \in Streams, stream'[s].handler = "reading" PROVE Served(s)'
  <2>1. PICK cmd : cmd = AddOf(s)
    OBVIOUS
  <2>2. ToBeHandled(AddOf(s)) => ToBeHandled(AddOf(s))'
    BY <1>2, <2>1 DEF AddOf
  <2>3. Served(s) /\ (stream[s].gone => stream'[s].gone) /\ (Final(s) => Final(s)' \/ stream'[s].gone)
    BY <1>4, <1>6
  <2> QED  BY <1>1, <2>2, <2>3 DEF Served, Final
<1> QED  BY <1>5, <1>6

\* What the loop's steps leave alone.
LEMMA SameDelivery ==
  ASSUME DeliveryOK, UNCHANGED <<soon, updates, pump>>, Streams' = Streams
  PROVE  DeliveryOK' /\ Items' = Items
<1>1. \A cb : CallbackOK(cb) => CallbackOK(cb)'
  BY DEF CallbackOK, SetFuture, ToSet, IsSeq
<1>2. ToSet(soon)' = ToSet(soon)
  BY DEF ToSet
<1>3. DeliveryOK'
  BY <1>1, <1>2 DEF DeliveryOK, IsSeq, ToSet
<1>4. Items' = Items
  BY DEF Items, SoonItems, ToSet
<1> QED  BY <1>3, <1>4

\* A handler or a watcher.
LEMMA HandlerStep ==
  ASSUME WInv, NEW s \in Streams,
         \/ HandlerGet(s) \/ HandlerFails(s) \/ HandlerStalls(s) \/ Disconnect(s) \/ WatcherWakes(s)
  PROVE  WInv'
<1> USE DEF WInv
<1>1. IInv'
  BY NextIInv DEF Next, Loop
<1>2. /\ UNCHANGED <<gen, live, engine_pc, dead, sending, soon, updates, pump, call, stopping>>
      /\ sending = NoCommand
  BY DEF HandlerGet, HandlerFails, HandlerStalls, Disconnect, WatcherWakes, engineVars, sendVars,
         pumpVars, LoopFree
<1>3. PICK st :
        /\ stream' = [stream EXCEPT ![s] = st] /\ StreamOK(st)
        /\ \/ commands' = Append(commands, AbortOf(s))
           \/ commands' = commands /\ (OverIn(st) => OverIn(stream[s]))
        /\ st.handler = "reading" =>
             /\ stream[s].handler = "reading" /\ (stream[s].gone => st.gone)
             /\ \A out \in ToSet(stream[s].queue) : out.reason # "none" => out \in ToSet(st.queue) \/ st.gone
  BY HandlerSteps
<1>4. /\ StreamsOK' /\ Streams' = Streams /\ stream'[s] = st
      /\ \A t \in Streams : t # s => stream'[t] = stream[t]
  BY <1>3, StreamUpdated
<1>5. QueueKept
  BY <1>2, <1>3, <1>4 DEF QueueKept
<1>6. DeliveryOK' /\ Items' = Items
  BY <1>2, <1>4, SameDelivery
<1>7. CommandsOK' /\ AddedOnce' /\ LiveOK'
  BY <1>5, KeptQueue
<1>8. PumpOK'
  BY <1>2 DEF PumpOK, IsSeq, ToSet, NoCommand
<1>9. OverIsAborted'
  <2>1. sending # AddOf(s)
    BY <1>2, Kinds
  <2>2. ASSUME NEW t \in Streams, Over(t)'
        PROVE  Over(t) \/ (commands' = Append(commands, AbortOf(t)) /\ sending # AddOf(t))
    <3>1. OverOut(t)' => OverOut(t)
      BY <1>2, <1>6 DEF OverOut
    <3>2. OverIn(stream[t])' <=> OverIn(stream'[t])
      BY DEF OverIn, ToSet
    <3>3. CASE t = s
      BY <1>3, <1>4, <2>1, <2>2, <3>1, <3>2, <3>3 DEF Over
    <3>4. CASE t # s
      BY <1>4, <2>2, <3>1, <3>2, <3>4 DEF Over
    <3> QED  BY <3>3, <3>4
  <2> QED  BY <1>5, <2>2, KeptOver
<1>10. WaitersServed'
  <2>1. \A c \in Calls : call'[c] = "pending" =>
          call[c] = "pending" /\ (SetFuture(c) \in ToSet(soon) => SetFuture(c) \in ToSet(soon)')
    BY <1>2 DEF ToSet
  <2>2. ASSUME NEW t \in Streams, stream'[t].handler = "reading"
        PROVE  /\ stream[t].handler = "reading" /\ (stream[t].gone => stream'[t].gone)
               /\ Final(t) => Final(t)' \/ stream'[t].gone
    <3>1. Final(t)' <=> \/ \E out \in ToSet(stream'[t].queue) : out.reason # "none"
                        \/ \E u \in Items : u.s = t /\ u.reason # "none"
      BY <1>6 DEF Final, ToSet
    <3>2. CASE t = s
      BY <1>3, <1>4, <2>2, <3>1, <3>2 DEF Final
    <3>3. CASE t # s
      BY <1>4, <2>2, <3>1, <3>3 DEF Final
    <3> QED  BY <3>2, <3>3
  <2> QED  BY <1>2, <1>5, <1>6, <2>1, <2>2, KeptWaiters
<1>11. StopOK'
  <2>1. STOP \in ToSet(commands)' => STOP \in ToSet(commands)
    <3>1. CASE commands' = commands
      BY <3>1 DEF ToSet
    <3>2. CASE commands' = Append(commands, AbortOf(s))
      <4>1. ToSet(commands)' = ToSet(commands) \cup {AbortOf(s)}
        BY <3>2, PutCommand
      <4> QED  BY <4>1, Kinds
    <3> QED  BY <1>3, <3>1, <3>2
  <2> QED  BY <1>2, <2>1 DEF StopOK, STOP
<1> QED  BY <1>1, <1>4, <1>6, <1>7, <1>8, <1>9, <1>10, <1>11

\* Updates on their way to the pump and through the tokenizer, and calls answered or given up.
LEMMA MovedStep ==
  ASSUME WInv, IInv', DeliveryOK', PumpOK', Items' = Items, pump'.state # "aborting",
         pump'.state = "cancelled" => pump.state = "cancelled",
         UNCHANGED <<commands, sending, live, gen, engine_pc, dead, stream, stopping>>,
         DOMAIN call' = Calls,
         \A c \in Calls : call'[c] = "pending" =>
           call[c] = "pending" /\ (SetFuture(c) \in ToSet(soon) => SetFuture(c) \in ToSet(soon)')
  PROVE  WInv'
<1> USE DEF WInv
<1>1. Streams' = Streams
  BY DEF Streams
<1>2. QueueKept
  BY <1>1 DEF QueueKept
<1>3. CommandsOK' /\ AddedOnce' /\ LiveOK'
  BY <1>2, KeptQueue
<1>4. StreamsOK'
  BY <1>1 DEF StreamsOK, StreamOK, Fields, IsSeq, ToSet
<1>5. OverIsAborted'
  <2>1. ASSUME NEW t \in Streams, Over(t)' PROVE Over(t)
    BY <2>1 DEF Over, OverIn, OverOut, ToSet
  <2> QED  BY <1>2, <2>1, KeptOver
<1>6. WaitersServed'
  <2>1. ASSUME NEW t \in Streams, stream'[t].handler = "reading"
        PROVE  /\ stream[t].handler = "reading" /\ (stream[t].gone => stream'[t].gone)
               /\ Final(t) => Final(t)' \/ stream'[t].gone
    BY <2>1 DEF Final, ToSet
  <2> QED  BY <1>2, <2>1, KeptWaiters
<1>7. StopOK'
  BY DEF StopOK, STOP, ToSet
<1> QED  BY <1>3, <1>4, <1>5, <1>6, <1>7

LEMMA CancelCallStep ==
  ASSUME WInv, NEW c \in Calls, CancelCall(c)
  PROVE  WInv'
<1> USE DEF WInv
<1>1. IInv'
  BY NextIInv DEF Next, Loop
<1>2. /\ UNCHANGED <<commands, sending, live, gen, engine_pc, dead, stream, stopping, soon, updates, pump>>
      /\ pump.state # "aborting" /\ call[c] = "pending" /\ call' = [call EXCEPT ![c] = "cancelled"]
  BY DEF CancelCall, LoopFree, engineVars, sendVars, pumpVars
<1>3. DeliveryOK' /\ Items' = Items
  <2>1. Streams' = Streams
    BY <1>2 DEF Streams
  <2> QED  BY <1>2, <2>1, SameDelivery
<1>4. PumpOK'
  BY <1>2 DEF PumpOK, IsSeq, ToSet, NoCommand
<1>5. DOMAIN call' = Calls /\ \A d \in Calls : call'[d] = "pending" => call[d] = "pending"
  BY <1>2 DEF StopOK
<1>6. ToSet(soon)' = ToSet(soon)
  BY <1>2 DEF ToSet
<1> QED  BY <1>1, <1>2, <1>3, <1>4, <1>5, <1>6, MovedStep

LEMMA RunCallbackStep ==
  ASSUME WInv, RunCallback
  PROVE  WInv'
<1> USE DEF WInv
<1>1. IInv'
  BY NextIInv DEF Next, Loop
<1> DEFINE cb == Head(soon)
<1>2. /\ UNCHANGED <<commands, sending, live, gen, engine_pc, dead, stream, stopping, pump>>
      /\ pump.state # "aborting" /\ soon # <<>> /\ soon' = Tail(soon) /\ Streams' = Streams
      /\ IF cb.kind = "updates" THEN updates' = updates \o cb.list /\ call' = call
         ELSE /\ call' = [call EXCEPT ![cb.c] = IF call[cb.c] = "pending" THEN "answered" ELSE call[cb.c]]
              /\ updates' = updates
  BY DEF RunCallback, LoopFree, engineVars, sendVars, Streams
<1>3. IsSeq(soon) /\ IsSeq(updates) /\ CallbackOK(cb)
  BY <1>2, SeqTail DEF DeliveryOK
<1>4. IsSeq(soon') /\ ToSet(soon) = {cb} \cup ToSet(soon')
  BY <1>2, <1>3, SeqTail
<1>5. /\ ToSet(soon)' = ToSet(soon') /\ ToSet(updates)' = ToSet(updates')
      /\ ToSet(pump.batch)' = ToSet(pump.batch)
  BY <1>2 DEF ToSet
<1> HIDE DEF cb
<1>6. SoonItems' = UNION {ToSet(x.list) : x \in {y \in ToSet(soon') : y.kind = "updates"}}
  BY <1>5 DEF SoonItems, ToSet
<1>7. PumpOK'
  BY <1>2 DEF PumpOK, IsSeq, ToSet, NoCommand
<1>8. \A x : CallbackOK(x) => CallbackOK(x)'
  BY <1>2 DEF CallbackOK, SetFuture, ToSet, IsSeq
<1>9. CASE cb.kind = "updates"
  <2>1. IsSeq(cb.list) /\ \A u \in ToSet(cb.list) : u.s \in Streams
    BY <1>3, <1>9 DEF CallbackOK, SetFuture
  <2>2. IsSeq(updates') /\ ToSet(updates') = ToSet(updates) \cup ToSet(cb.list)
    BY <1>2, <1>3, <1>9, <2>1, SeqConcat
  <2>3. DeliveryOK'
    BY <1>2, <1>4, <1>5, <1>8, <2>1, <2>2 DEF DeliveryOK, IsSeq, ToSet
  <2>4. SoonItems = SoonItems' \cup ToSet(cb.list)
    BY <1>4, <1>6, <1>9 DEF SoonItems
  <2>5. Items' = Items
    BY <1>5, <2>2, <2>4 DEF Items
  <2>6. \A c \in Calls : SetFuture(c) \in ToSet(soon) => SetFuture(c) \in ToSet(soon)'
    BY <1>4, <1>5, <1>9 DEF SetFuture
  <2> QED  BY <1>1, <1>2, <1>7, <1>9, <2>3, <2>5, <2>6, MovedStep DEF StopOK
<1>10. CASE cb.kind # "updates"
  <2>1. PICK c \in Calls : cb = SetFuture(c)
    BY <1>3, <1>10 DEF CallbackOK
  <2>2. cb.c = c
    BY <2>1 DEF SetFuture
  <2>a. updates' = updates
    BY <1>2, <1>10
  <2>b. IsSeq(soon)' /\ IsSeq(updates)' /\ ToSet(updates)' = ToSet(updates)
    BY <1>3, <1>4, <2>a DEF IsSeq, ToSet
  <2>3. DeliveryOK'
    BY <1>2, <1>4, <1>5, <1>8, <2>b DEF DeliveryOK
  <2>4. SoonItems' = SoonItems
    BY <1>4, <1>6, <1>10 DEF SoonItems
  <2>5. Items' = Items
    BY <1>2, <1>5, <1>10, <2>4 DEF Items
  <2>6. DOMAIN call = Calls
    BY DEF StopOK
  <2>7. /\ DOMAIN call' = Calls /\ call'[c] # "pending"
        /\ \A d \in Calls : call'[d] = "pending" => call[d] = "pending" /\ d # c
    BY <1>2, <1>10, <2>2, <2>6
  <2>8. \A d \in Calls : d # c => SetFuture(d) # cb
    BY <2>2 DEF SetFuture
  <2>9. \A d \in Calls : (d # c /\ SetFuture(d) \in ToSet(soon)) => SetFuture(d) \in ToSet(soon)'
    BY <1>4, <1>5, <2>8
  <2> QED  BY <1>1, <1>2, <1>7, <2>3, <2>5, <2>7, <2>9, MovedStep
<1> QED  BY <1>9, <1>10

LEMMA PumpTakeStep ==
  ASSUME WInv, PumpTake
  PROVE  WInv'
<1> USE DEF WInv
<1>1. IInv'
  BY NextIInv DEF Next, Loop
<1>2. /\ UNCHANGED <<commands, sending, live, gen, engine_pc, dead, stream, stopping, soon, call>>
      /\ pump.state = "waiting" /\ updates # <<>> /\ updates' = <<>> /\ Streams' = Streams
      /\ pump' = [state |-> "detokenizing", batch |-> updates, texts |-> <<>>]
  BY DEF PumpTake, engineVars, sendVars, clientVars, Streams
<1>3. /\ {"state", "batch", "texts"} \subseteq DOMAIN pump' /\ pump'.state = "detokenizing"
      /\ pump'.batch = updates /\ pump'.texts = <<>>
  BY <1>2
<1>4. pump.batch = <<>>
  BY <1>2 DEF PumpOK
<1>5. IsSeq(<<>>) /\ ToSet(<<>>) = {}
  BY SeqEmpty
<1>6. ToSet(updates)' = {} /\ ToSet(pump.batch)' = ToSet(updates) /\ ToSet(soon)' = ToSet(soon) /\ ToSet(pump.batch) = {}
  BY <1>2, <1>3, <1>4, <1>5 DEF ToSet
<1>7. SoonItems' = SoonItems
  BY <1>2 DEF SoonItems, ToSet
<1>8. Items' = Items
  BY <1>6, <1>7 DEF Items
<1>9. PumpOK'
  BY <1>2, <1>3, <1>5 DEF PumpOK, DeliveryOK, IsSeq, ToSet
<1>10. \A x : CallbackOK(x) => CallbackOK(x)'
  BY <1>2 DEF CallbackOK, SetFuture, ToSet, IsSeq
<1>11. IsSeq(soon)' /\ IsSeq(updates)'
  BY <1>2, <1>5 DEF DeliveryOK, IsSeq, ToSet
<1>12. DeliveryOK'
  BY <1>2, <1>6, <1>10, <1>11 DEF DeliveryOK
<1> QED  BY <1>1, <1>2, <1>3, <1>6, <1>8, <1>9, <1>12, MovedStep DEF StopOK

LEMMA DetokenizeStep ==
  ASSUME WInv, Detokenize
  PROVE  WInv'
<1> USE DEF WInv
<1>1. IInv'
  BY NextIInv DEF Next
<1>2. /\ UNCHANGED <<commands, sending, live, gen, engine_pc, dead, stream, stopping, soon, call, updates>>
      /\ pump.state = "detokenizing" /\ Streams' = Streams
  BY DEF Detokenize, engineVars, sendVars, clientVars, Streams
<1>a. \/ \E text : pump' = [pump EXCEPT !.texts = Append(pump.texts, text), !.state = "decoded"]
      \/ \E text : pump' = [pump EXCEPT !.texts = Append(pump.texts, text), !.state = "detokenizing"]
      \/ pump' = [pump EXCEPT !.state = "undecoded", !.texts = <<>>]
  BY DEF Detokenize
<1>3. IsSeq(pump.texts) /\ IsSeq(pump.batch) /\ {"state", "batch", "texts"} \subseteq DOMAIN pump /\ pump.batch # <<>>
  BY <1>2 DEF PumpOK
<1>4. IsSeq(<<>>) /\ \A text : IsSeq(Append(pump.texts, text))
  BY <1>3, SeqEmpty, SeqAppend
<1>5. /\ {"state", "batch", "texts"} \subseteq DOMAIN pump' /\ pump'.batch = pump.batch
      /\ pump'.state \in {"decoded", "detokenizing", "undecoded"} /\ IsSeq(pump'.texts)
      /\ pump'.state = "undecoded" => pump'.texts = <<>>
  BY <1>a, <1>2, <1>3, <1>4
<1>6. PumpOK'
  BY <1>3, <1>5 DEF PumpOK, IsSeq, ToSet
<1>7. ToSet(updates)' = ToSet(updates) /\ ToSet(pump.batch)' = ToSet(pump.batch) /\ ToSet(soon)' = ToSet(soon)
  BY <1>2, <1>5 DEF ToSet
<1>8. SoonItems' = SoonItems
  BY <1>2 DEF SoonItems, ToSet
<1>9. Items' = Items
  BY <1>7, <1>8 DEF Items
<1>10. \A x : CallbackOK(x) => CallbackOK(x)'
  BY <1>2 DEF CallbackOK, SetFuture, ToSet, IsSeq
<1>11. IsSeq(soon)' /\ IsSeq(updates)'
  BY <1>2 DEF DeliveryOK, IsSeq, ToSet
<1>12. DeliveryOK'
  BY <1>2, <1>7, <1>10, <1>11 DEF DeliveryOK
<1> QED  BY <1>1, <1>2, <1>5, <1>6, <1>7, <1>9, <1>12, MovedStep DEF StopOK

\* The pump comes to an item of a batch that failed.
LEMMA PumpAbortsStep ==
  ASSUME WInv, PumpAborts
  PROVE  WInv'
<1> USE DEF WInv
<1>1. IInv'
  BY NextIInv DEF Next, Loop
<1> DEFINE n == Len(pump.texts)
           u == pump.batch[n + 1]
<1>2. /\ UNCHANGED <<sending, live, gen, engine_pc, dead, stream, stopping, soon, call, updates>>
      /\ Streams' = Streams
      /\ IF u.reason = "none" THEN commands' = Append(commands, AbortOf(u.s)) ELSE commands' = commands
  BY DEF PumpAborts, Aborting, engineVars, sendVars, clientVars, Streams
<1>3. pump' = [pump EXCEPT !.state = "aborting", !.texts = Append(pump.texts, <<>>)]
  BY DEF PumpAborts
<1>4. /\ {"state", "batch", "texts"} \subseteq DOMAIN pump /\ IsSeq(pump.batch) /\ IsSeq(pump.texts)
  BY DEF PumpOK
<1>5. /\ {"state", "batch", "texts"} \subseteq DOMAIN pump' /\ pump'.state = "aborting"
      /\ pump'.batch = pump.batch /\ pump'.texts = Append(pump.texts, <<>>)
  BY <1>3, <1>4
<1>6. n \in Nat /\ Len(pump.batch) \in Nat /\ DOMAIN pump.batch = 1 .. Len(pump.batch)
  BY <1>4, SeqLen
<1>7. IsSeq(pump'.texts) /\ Len(pump'.texts) = n + 1
  BY <1>4, <1>5, SeqAppend
<1>8. n < Len(pump.batch) /\ sending = NoCommand /\ (pump.state = "aborting" \/ n = 0)
  <2>1. CASE LoopFree /\ pump.state = "undecoded"
    <3>1. pump.batch # <<>> /\ pump.texts = <<>> /\ sending = NoCommand
      BY <2>1 DEF PumpOK, LoopFree
    <3>2. n = 0
      BY <3>1
    <3>3. Len(pump.batch) # 0
      BY <1>4, <3>1, SeqLen
    <3> QED  BY <1>6, <3>1, <3>2, <3>3
  <2>2. CASE pump.state = "aborting" /\ n < Len(pump.batch)
    BY <2>2 DEF PumpOK
  <2> QED  BY <2>1, <2>2 DEF PumpAborts, NextFailed
<1>9. n + 1 \in 1 .. Len(pump.batch) /\ u \in ToSet(pump.batch)
  <2>1. n + 1 \in 1 .. Len(pump.batch)
    BY <1>6, <1>8
  <2> QED  BY <1>4, <2>1, SeqLen
<1> HIDE DEF n, u
<1>10. u.s \in Streams
  BY <1>9 DEF DeliveryOK
<1>11. PumpOK'
  <2>1. Len(pump'.texts) <= Len(pump'.batch)
    BY <1>5, <1>6, <1>7, <1>8
  <2> QED  BY <1>2, <1>4, <1>5, <1>7, <1>8, <2>1 DEF PumpOK, IsSeq, ToSet, NoCommand
<1>12. /\ ToSet(updates)' = ToSet(updates) /\ ToSet(pump.batch)' = ToSet(pump.batch)
       /\ ToSet(soon)' = ToSet(soon) /\ SoonItems' = SoonItems
  BY <1>2, <1>5 DEF SoonItems, ToSet
<1>13. Items' = Items
  BY <1>12 DEF Items
<1>14. DeliveryOK'
  <2>1. \A x : CallbackOK(x) => CallbackOK(x)'
    BY <1>2 DEF CallbackOK, SetFuture, ToSet, IsSeq
  <2>2. IsSeq(soon)' /\ IsSeq(updates)'
    BY <1>2 DEF DeliveryOK, IsSeq, ToSet
  <2> QED  BY <1>2, <1>12, <2>1, <2>2 DEF DeliveryOK
<1>15. QueueKept
  BY <1>2, <1>10 DEF QueueKept
<1>16. CommandsOK' /\ AddedOnce' /\ LiveOK'
  BY <1>15, KeptQueue
<1>17. OverIsAborted'
  <2>1. ASSUME NEW t \in Streams, Over(t)'
        PROVE  Over(t) \/ (commands' = Append(commands, AbortOf(t)) /\ sending # AddOf(t))
    <3>1. CASE OverIn(stream[t])'
      BY <1>2, <3>1 DEF Over, OverIn, ToSet
    <3>2. CASE \E x \in Items : x.s = t /\ x.reason # "none"
      BY <3>2 DEF Over, OverOut
    <3>3. CASE \E i \in 1 .. n + 1 : pump.batch[i].s = t
      <4>1. PICK i \in 1 .. n + 1 : pump.batch[i].s = t
        BY <3>3
      <4>2. CASE i = n + 1
        <5>1. u.s = t
          BY <4>1, <4>2 DEF u
        <5>2. CASE u.reason = "none"
          BY <1>2, <1>8, <5>1, <5>2, Kinds
        <5>3. CASE u.reason # "none"
          BY <1>9, <5>1, <5>3 DEF Over, OverOut, Items
        <5> QED  BY <5>2, <5>3
      <4>3. CASE i # n + 1
        <5>1. i \in 1 .. n /\ n # 0
          BY <1>6, <4>3
        <5> QED  BY <1>8, <4>1, <5>1 DEF Over, OverOut, n
      <4> QED  BY <4>2, <4>3
    <3>4. OverOut(t)' => \/ \E x \in Items : x.s = t /\ x.reason # "none"
                         \/ \E i \in 1 .. n + 1 : pump.batch[i].s = t
      BY <1>5, <1>7, <1>13 DEF OverOut
    <3> QED  BY <2>1, <3>1, <3>2, <3>3, <3>4 DEF Over
  <2> QED  BY <1>15, <2>1, KeptOver
<1>18. WaitersServed'
  <2>1. ASSUME NEW t \in Streams, stream'[t].handler = "reading"
        PROVE  /\ stream[t].handler = "reading" /\ (stream[t].gone => stream'[t].gone)
               /\ Final(t) => Final(t)' \/ stream'[t].gone
    BY <1>2, <1>13, <2>1 DEF Final, ToSet
  <2>2. \A c \in Calls : call'[c] = "pending" =>
          call[c] = "pending" /\ (SetFuture(c) \in ToSet(soon) => SetFuture(c) \in ToSet(soon)')
    BY <1>2, <1>12
  <2> QED  BY <1>2, <1>14, <1>15, <2>1, <2>2, KeptWaiters
<1>19. StopOK'
  <2>1. STOP \in ToSet(commands)' => STOP \in ToSet(commands)
    <3>1. CASE commands' = commands
      BY <3>1 DEF ToSet
    <3>2. CASE commands' = Append(commands, AbortOf(u.s))
      <4>1. ToSet(commands)' = ToSet(commands) \cup {AbortOf(u.s)}
        BY <3>2, PutCommand
      <4> QED  BY <4>1, Kinds
    <3> QED  BY <1>2, <3>1, <3>2
  <2> QED  BY <1>2, <1>5, <2>1 DEF StopOK, STOP
<1>20. StreamsOK'
  BY <1>2 DEF StreamsOK, StreamOK, Fields, IsSeq, ToSet
<1> QED  BY <1>1, <1>11, <1>14, <1>16, <1>17, <1>18, <1>19, <1>20

\* Every item of the batch becomes an output of its stream, and nothing else does.
LEMMA OutputsOK ==
  ASSUME PumpOK, NEW t
  PROVE  LET reason(i) == IF pump.state = "aborting" THEN "error" ELSE pump.batch[i].reason IN
         /\ IsSeq(OutputsFor(t))
         /\ \A out \in ToSet(OutputsFor(t)) :
              \E i \in DOMAIN pump.batch : pump.batch[i].s = t /\ out.reason = reason(i)
         /\ \A i \in DOMAIN pump.batch : pump.batch[i].s = t =>
              \E out \in ToSet(OutputsFor(t)) : out.reason = reason(i)
<1> DEFINE reason(i) == IF pump.state = "aborting" THEN "error" ELSE pump.batch[i].reason
           Mine == {i \in DOMAIN pump.batch : pump.batch[i].s = t}
           mine == InOrder(Mine)
           Output(i) == [text |-> pump.texts[i], ids |-> pump.batch[i].ids, reason |-> reason(i)]
           outs == [k \in DOMAIN mine |-> Output(mine[k])]
<1>1. OutputsFor(t) = outs
  BY DEF OutputsFor
<1>2. Len(pump.batch) \in Nat /\ Mine \in SUBSET (1 .. Len(pump.batch))
  BY SeqLen DEF PumpOK
<1>3. IsSeq(mine) /\ ToSet(mine) = Mine
  BY <1>2, Enumerated
<1>4. Len(mine) \in Nat /\ DOMAIN mine = 1 .. Len(mine)
  BY <1>3, SeqLen
<1>5. \A i : Output(i).reason = reason(i)
  OBVIOUS
<1> HIDE DEF mine, Output, reason
<1>6. outs \in [1 .. Len(mine) -> {Output(i) : i \in Mine}] /\ DOMAIN outs = DOMAIN mine
      /\ \A k \in DOMAIN mine : outs[k] = Output(mine[k])
  BY <1>3, <1>4 DEF ToSet
<1> HIDE DEF outs
<1>7. IsSeq(outs)
  BY <1>4, <1>6, FunIsSeq
<1>8. ToSet(outs) = {Output(i) : i \in Mine}
  BY <1>3, <1>6 DEF ToSet
<1>9. /\ \A out \in ToSet(outs) : \E i \in DOMAIN pump.batch : pump.batch[i].s = t /\ out.reason = reason(i)
      /\ \A i \in DOMAIN pump.batch : pump.batch[i].s = t => \E out \in ToSet(outs) : out.reason = reason(i)
  BY <1>5, <1>8
<1> QED  BY <1>1, <1>7, <1>9 DEF reason

\* The pump hands the batch to the streams.
LEMMA PumpPushStep ==
  ASSUME WInv, PumpPush
  PROVE  WInv'
<1> USE DEF WInv
<1>1. IInv'
  BY NextIInv DEF Next, Loop
<1>2. /\ UNCHANGED <<commands, sending, live, gen, engine_pc, dead, stopping, soon, call, updates>>
      /\ pump' = PumpWaits
  BY DEF PumpPush, engineVars, sendVars
<1>3. stream' = [t \in Streams |-> [stream[t] EXCEPT !.queue = stream[t].queue \o OutputsFor(t)]]
  BY DEF PumpPush
<1>4. pump.state = "decoded" \/ (pump.state = "aborting" /\ Len(pump.texts) = Len(pump.batch))
  BY DEF PumpPush
<1>5. /\ {"state", "batch", "texts"} \subseteq DOMAIN pump' /\ pump'.state = "waiting"
      /\ pump'.batch = <<>> /\ pump'.texts = <<>>
  BY <1>2 DEF PumpWaits
<1>6. IsSeq(<<>>) /\ ToSet(<<>>) = {}
  BY SeqEmpty
<1>7. PumpOK'
  BY <1>5, <1>6 DEF PumpOK, IsSeq, ToSet
<1>8. \A t \in Streams : Fields \subseteq DOMAIN stream[t] /\ IsSeq(stream[t].queue)
  BY DEF StreamsOK, StreamOK
<1>9. ASSUME NEW t \in Streams
      PROVE  /\ StreamOK(stream'[t]) /\ stream'[t].finished = stream[t].finished
             /\ stream'[t].handler = stream[t].handler /\ stream'[t].watcher = stream[t].watcher
             /\ stream'[t].gone = stream[t].gone
             /\ ToSet(stream'[t].queue) = ToSet(stream[t].queue) \cup ToSet(OutputsFor(t))
  <2>1. IsSeq(OutputsFor(t))
    BY OutputsOK
  <2>2. PICK q : q = stream[t].queue \o OutputsFor(t)
    OBVIOUS
  <2>3. IsSeq(q) /\ ToSet(q) = ToSet(stream[t].queue) \cup ToSet(OutputsFor(t))
    BY <1>8, <2>1, <2>2, SeqConcat
  <2>4. stream'[t] = [stream[t] EXCEPT !.queue = q]
    BY <1>3, <2>2
  <2>5. /\ Fields \subseteq DOMAIN stream'[t] /\ stream'[t].queue = q
        /\ stream'[t].finished = stream[t].finished /\ stream'[t].handler = stream[t].handler
        /\ stream'[t].watcher = stream[t].watcher /\ stream'[t].gone = stream[t].gone
    BY <1>8, <2>4 DEF Fields
  <2> QED  BY <2>3, <2>5 DEF StreamOK
<1>10. StreamsOK' /\ Streams' = Streams
  <2>1. Len(stream) \in Nat /\ Streams = 1 .. Len(stream)
    BY SeqLen DEF StreamsOK, Streams
  <2>2. DOMAIN stream' = Streams
    BY <1>3
  <2>3. stream' \in [1 .. Len(stream) -> {stream'[t] : t \in Streams}]
    BY <1>3, <2>1
  <2>4. IsSeq(stream')
    BY <2>1, <2>3, FunIsSeq
  <2>5. Streams' = Streams
    BY <2>2 DEF Streams
  <2>6. \A t \in Streams : StreamOK(stream'[t])
    BY <1>9
  <2> QED  BY <2>4, <2>5, <2>6 DEF StreamsOK
<1>11. /\ ToSet(updates)' = ToSet(updates) /\ ToSet(pump.batch)' = {}
       /\ ToSet(soon)' = ToSet(soon) /\ SoonItems' = SoonItems
  BY <1>2, <1>5, <1>6 DEF SoonItems, ToSet
<1>12. Items = Items' \cup ToSet(pump.batch)
  BY <1>11 DEF Items
<1>13. DeliveryOK'
  <2>1. \A x : CallbackOK(x) => CallbackOK(x)'
    BY <1>10 DEF CallbackOK, SetFuture, ToSet, IsSeq
  <2>2. IsSeq(soon)' /\ IsSeq(updates)'
    BY <1>2 DEF DeliveryOK, IsSeq, ToSet
  <2> QED  BY <1>10, <1>11, <2>1, <2>2 DEF DeliveryOK
<1>14. QueueKept
  BY <1>2, <1>10 DEF QueueKept
<1>15. CommandsOK' /\ AddedOnce' /\ LiveOK'
  BY <1>14, KeptQueue
<1>16. DOMAIN pump.batch = 1 .. Len(pump.batch) /\ \A i \in DOMAIN pump.batch : pump.batch[i] \in ToSet(pump.batch)
  BY SeqLen DEF PumpOK
<1>17. OverIsAborted'
  <2>1. ASSUME NEW t \in Streams, Over(t)' PROVE Over(t)
    <3>1. OverIn(stream[t])' <=> OverIn(stream'[t])
      BY DEF OverIn, ToSet
    <3>2. OverOut(t)' => OverOut(t)
      BY <1>5, <1>12 DEF OverOut
    <3>3. CASE OverIn(stream'[t])
      <4>1. CASE \E out \in ToSet(OutputsFor(t)) : out.reason # "none"
        <5>1. PICK i \in DOMAIN pump.batch :
                /\ pump.batch[i].s = t
                /\ (IF pump.state = "aborting" THEN "error" ELSE pump.batch[i].reason) # "none"
          BY <4>1, OutputsOK
        <5>2. CASE pump.state = "aborting"
          BY <1>4, <1>16, <5>1, <5>2 DEF Over, OverOut
        <5>3. CASE pump.state # "aborting"
          BY <1>16, <5>1, <5>3 DEF Over, OverOut, Items
        <5> QED  BY <5>2, <5>3
      <4>2. CASE ~ \E out \in ToSet(OutputsFor(t)) : out.reason # "none"
        BY <1>9, <3>3, <4>2 DEF OverIn, Over
      <4> QED  BY <4>1, <4>2
    <3> QED  BY <2>1, <3>1, <3>2, <3>3 DEF Over
  <2> QED  BY <1>14, <2>1, KeptOver
<1>18. WaitersServed'
  <2>1. ASSUME NEW t \in Streams, stream'[t].handler = "reading"
        PROVE  /\ stream[t].handler = "reading" /\ (stream[t].gone => stream'[t].gone)
               /\ Final(t) => Final(t)' \/ stream'[t].gone
    <3>1. Final(t)' <=> \/ \E out \in ToSet(stream'[t].queue) : out.reason # "none"
                        \/ \E u \in Items' : u.s = t /\ u.reason # "none"
      BY DEF Final, ToSet
    <3>2. CASE \E u \in ToSet(pump.batch) : u.s = t /\ u.reason # "none"
      <4>1. PICK i \in DOMAIN pump.batch : pump.batch[i].s = t /\ pump.batch[i].reason # "none"
        BY <3>2 DEF ToSet
      <4>2. \E out \in ToSet(OutputsFor(t)) :
              out.reason = IF pump.state = "aborting" THEN "error" ELSE pump.batch[i].reason
        BY <4>1, OutputsOK
      <4> QED  BY <1>9, <2>1, <3>1, <4>1, <4>2
    <3>3. CASE ~ \E u \in ToSet(pump.batch) : u.s = t /\ u.reason # "none"
      BY <1>9, <1>12, <2>1, <3>1, <3>3 DEF Final
    <3> QED  BY <3>2, <3>3
  <2>2. \A c \in Calls : call'[c] = "pending" =>
          call[c] = "pending" /\ (SetFuture(c) \in ToSet(soon) => SetFuture(c) \in ToSet(soon)')
    BY <1>2, <1>11
  <2> QED  BY <1>2, <1>13, <1>14, <2>1, <2>2, KeptWaiters
<1>19. StopOK'
  BY <1>2, <1>5 DEF StopOK, STOP, ToSet
<1> QED  BY <1>1, <1>7, <1>10, <1>13, <1>15, <1>17, <1>18, <1>19

LEMMA SameStreams ==
  ASSUME StreamsOK, stream' = stream
  PROVE  StreamsOK'
BY DEF StreamsOK, StreamOK, Streams, Fields, IsSeq, ToSet

\* stop.
LEMMA StopStep ==
  ASSUME WInv, Stop \/ StopJoined
  PROVE  WInv'
<1> USE DEF WInv
<1>1. IInv'
  BY NextIInv DEF Next, Loop
<1>2. /\ UNCHANGED <<sending, live, gen, engine_pc, dead, stream, soon, call, updates>>
      /\ stopping' # "no" /\ pump.state # "aborting"
      /\ \/ commands' = Append(commands, STOP) /\ pump' = pump
         \/ commands' = commands /\ pump' = [PumpWaits EXCEPT !.state = "cancelled"]
  BY DEF Stop, StopJoined, LoopFree, engineVars, sendVars, pumpVars
<1>3. Streams' = Streams
  BY <1>2 DEF Streams
<1>4. IsSeq(<<>>) /\ ToSet(<<>>) = {}
  BY SeqEmpty
<1>5. /\ {"state", "batch", "texts"} \subseteq DOMAIN pump' /\ pump'.state # "aborting"
      /\ \/ pump' = pump
         \/ pump'.state = "cancelled" /\ pump'.batch = <<>> /\ pump'.texts = <<>>
  BY <1>2 DEF PumpWaits, PumpOK
<1>6. PumpOK'
  <2>1. CASE pump' = pump
    BY <1>2, <2>1 DEF PumpOK, IsSeq, ToSet
  <2>2. CASE pump'.state = "cancelled" /\ pump'.batch = <<>> /\ pump'.texts = <<>>
    BY <1>4, <1>5, <2>2 DEF PumpOK, IsSeq, ToSet
  <2> QED  BY <1>5, <2>1, <2>2
<1>7. /\ ToSet(updates)' = ToSet(updates) /\ ToSet(pump.batch)' \subseteq ToSet(pump.batch)
      /\ ToSet(soon)' = ToSet(soon) /\ SoonItems' = SoonItems
  BY <1>2, <1>4, <1>5 DEF SoonItems, ToSet
<1>8. Items' \subseteq Items
  BY <1>7 DEF Items
<1>9. DeliveryOK'
  <2>1. \A x : CallbackOK(x) => CallbackOK(x)'
    BY <1>3 DEF CallbackOK, SetFuture, ToSet, IsSeq
  <2>2. IsSeq(soon)' /\ IsSeq(updates)'
    BY <1>2 DEF DeliveryOK, IsSeq, ToSet
  <2> QED  BY <1>3, <1>7, <2>1, <2>2 DEF DeliveryOK
<1>10. QueueKept
  BY <1>2, <1>3 DEF QueueKept
<1>11. CommandsOK' /\ AddedOnce' /\ LiveOK'
  BY <1>10, KeptQueue
<1>12. StreamsOK'
  BY <1>2, SameStreams
<1>13. OverIsAborted'
  <2>1. ASSUME NEW t \in Streams, Over(t)' PROVE Over(t)
    BY <1>2, <1>5, <1>8, <2>1 DEF Over, OverIn, OverOut, ToSet
  <2> QED  BY <1>10, <2>1, KeptOver
<1>14. WaitersServed'
  BY <1>2 DEF WaitersServed
<1>15. StopOK'
  BY <1>2 DEF StopOK
<1> QED  BY <1>1, <1>6, <1>9, <1>11, <1>12, <1>13, <1>14, <1>15

\* _send, up to the put: the command is on its way and nothing else has changed.
LEMMA SentHandled ==
  ASSUME sending = NoCommand, commands' = commands, engine_pc' = engine_pc
  PROVE  \A cmd : (ToBeHandled(cmd) /\ cmd # NoCommand) => ToBeHandled(cmd)'
BY DEF ToBeHandled, ToSet

LEMMA SubmitStep ==
  ASSUME WInv, SubmitStream
  PROVE  WInv'
<1> USE DEF WInv
<1>1. IInv'
  BY NextIInv DEF Next, Loop
<1>0. PICK new : new = Len(stream) + 1
  OBVIOUS
<1>2. /\ UNCHANGED <<commands, dead, live, gen, engine_pc, soon, call, updates, pump, stopping>>
      /\ sending = NoCommand /\ pump.state # "aborting" /\ ~ dead /\ sending' = AddOf(new)
      /\ stream' = Append(stream, NewStream)
  BY <1>0 DEF SubmitStream, Send, LoopFree, engineVars, pumpVars
<1>3. IsSeq(stream) /\ Len(stream) \in Nat /\ Streams = 1 .. Len(stream)
  BY SeqLen DEF StreamsOK, Streams
<1>4. PICK n : n = NewStream
  OBVIOUS
<1>5. Fields \subseteq DOMAIN n /\ n.queue = <<>> /\ ~ n.finished /\ n.handler = "reading" /\ n.watcher = "watching"
  BY <1>4 DEF NewStream, Fields
<1>6. /\ IsSeq(stream') /\ Len(stream') = new /\ stream'[new] = n
      /\ \A t \in Streams : stream'[t] = stream[t]
  BY <1>0, <1>2, <1>3, <1>4, SeqAppend
<1>7. Streams' = Streams \cup {new} /\ new \notin Streams
  <2>1. Streams' = 1 .. new
    BY <1>6, SeqLen DEF Streams
  <2> QED  BY <1>0, <1>3, <2>1
<1>8. IsSeq(<<>>) /\ ToSet(<<>>) = {}
  BY SeqEmpty
<1>9. StreamsOK'
  <2>1. StreamOK(n)
    BY <1>5, <1>8 DEF StreamOK
  <2>2. \A t \in Streams' : StreamOK(stream'[t])
    BY <1>6, <1>7, <2>1 DEF StreamsOK
  <2> QED  BY <1>6, <2>2 DEF StreamsOK, StreamOK, IsSeq, ToSet, Streams, Fields
<1>10. CommandsOK'
  <2>1. CommandsTo(Streams)' = CommandsTo(Streams')
    BY DEF CommandsTo, AddOf, AbortOf, CallOf, STOP
  <2>2. CommandsTo(Streams) \subseteq CommandsTo(Streams') /\ AddOf(new) \in CommandsTo(Streams')
    BY <1>7 DEF CommandsTo
  <2>3. IsSeq(commands)' /\ ToSet(commands)' = ToSet(commands)
    BY <1>2 DEF CommandsOK, IsSeq, ToSet
  <2> QED  BY <1>2, <2>1, <2>2, <2>3 DEF CommandsOK
<1>11. LiveOK'
  BY <1>2, <1>7, SameLive
<1>12. PumpOK'
  BY <1>2 DEF PumpOK, IsSeq, ToSet
<1>13. /\ ToSet(updates)' = ToSet(updates) /\ ToSet(pump.batch)' = ToSet(pump.batch)
       /\ ToSet(soon)' = ToSet(soon) /\ SoonItems' = SoonItems /\ ToSet(commands)' = ToSet(commands)
  BY <1>2 DEF SoonItems, ToSet
<1>14. Items' = Items
  BY <1>13 DEF Items
<1>15. DeliveryOK'
  <2>1. \A x : CallbackOK(x) => CallbackOK(x)'
    BY <1>7 DEF CallbackOK, SetFuture, ToSet, IsSeq
  <2>2. IsSeq(soon)' /\ IsSeq(updates)'
    BY <1>2 DEF DeliveryOK, IsSeq, ToSet
  <2> QED  BY <1>7, <1>13, <2>1, <2>2 DEF DeliveryOK
<1>16. AddOf(new) \notin ToSet(commands)
  <2>1. AddOf(new) \notin CommandsTo(Streams)
    BY <1>7, Kinds DEF CommandsTo
  <2> QED  BY <2>1 DEF CommandsOK
<1>17. new \notin DOMAIN live
  BY <1>7 DEF LiveOK
<1>18. AddedOnce'
  <2>1. ASSUME NEW t \in Streams'
        PROVE  /\ \A i, j \in DOMAIN commands : commands[i] = AddOf(t) /\ commands[j] = AddOf(t) => i = j
               /\ AddOf(t) \in ToSet(commands) => AddOf(new) # AddOf(t) /\ t \notin DOMAIN live
               /\ AddOf(new) = AddOf(t) => t \notin DOMAIN live
    <3>1. CASE t \in Streams
      BY <1>7, <3>1, Kinds DEF AddedOnce
    <3>2. CASE t = new
      BY <1>16, <1>17, <3>2 DEF ToSet
    <3> QED  BY <1>7, <3>1, <3>2
  <2>2. \A t : AddOf(t)' = AddOf(t)
    BY DEF AddOf
  <2> QED  BY <1>2, <1>13, <2>1, <2>2 DEF AddedOnce
<1>19. ASSUME NEW t \in Streams' PROVE OverIn(stream[t])' <=> OverIn(stream'[t])
  BY DEF OverIn, ToSet
<1>20. OverIsAborted'
  <2> SUFFICES ASSUME NEW t \in Streams', Over(t)' PROVE AbortComing(t)'
    BY DEF OverIsAborted
  <2>1. OverOut(t)' <=> OverOut(t)
    BY <1>2, <1>14 DEF OverOut
  <2>2. CASE t \in Streams
    <3>1. Over(t)
      BY <1>6, <1>19, <2>1, <2>2 DEF Over
    <3>2. AbortComing(t) /\ AddOf(new) # AddOf(t)
      BY <1>7, <2>2, <3>1, Kinds DEF OverIsAborted
    <3> QED  BY <1>2, <1>13, <3>2 DEF AbortComing, AddOf, AbortOf
  <2>3. CASE t = new
    <3>1. ~ OverIn(n)
      BY <1>5, <1>8 DEF OverIn
    <3>2. ~ OverOut(new)
      <4>1. \A u \in Items : u.s \in Streams
        <5>1. \A u \in SoonItems : u.s \in Streams
          BY DEF SoonItems, DeliveryOK, CallbackOK, SetFuture
        <5> QED  BY <5>1 DEF Items, DeliveryOK
      <4> QED  BY <1>2, <1>7, <4>1 DEF OverOut
    <3> QED  BY <1>6, <1>19, <2>1, <2>3, <3>1, <3>2 DEF Over
  <2> QED  BY <1>7, <2>2, <2>3
<1>21. WaitersServed'
  <2>1. WaitersServed' <=> Waiters'
    BY <1>15, WaitersServedIs, PTL
  <2> SUFFICES ASSUME stopping = "no"
               PROVE  /\ \A c \in Calls : call[c] = "pending" => CallServed(c)'
                      /\ \A t \in Streams' : stream'[t].handler = "reading" => Served(t)'
    BY <1>2, <2>1 DEF Waiters
  <2>2. /\ \A c \in Calls : call[c] = "pending" => CallServed(c)
        /\ \A t \in Streams : stream[t].handler = "reading" => Served(t)
    BY WaitersServedIs DEF Waiters
  <2>3. \A cmd : (ToBeHandled(cmd) /\ cmd # NoCommand) => ToBeHandled(cmd)'
    BY <1>2, SentHandled
  <2>4. ASSUME NEW c \in Calls, call[c] = "pending" PROVE CallServed(c)'
    <3>1. PICK cmd : cmd = CallOf(c) /\ cmd # NoCommand
      BY Kinds
    <3>2. ToBeHandled(CallOf(c)) => ToBeHandled(CallOf(c))'
      BY <2>3, <3>1 DEF CallOf
    <3> QED  BY <1>13, <2>2, <2>4, <3>2 DEF CallServed, SetFuture
  <2>5. ASSUME NEW t \in Streams, stream'[t].handler = "reading" PROVE Served(t)'
    <3>1. PICK cmd : cmd = AddOf(t) /\ cmd # NoCommand
      BY Kinds
    <3>2. ToBeHandled(AddOf(t)) => ToBeHandled(AddOf(t))'
      BY <2>3, <3>1 DEF AddOf
    <3>3. stream'[t] = stream[t] /\ Served(t)
      BY <1>6, <2>2, <2>5
    <3> QED  BY <1>2, <1>14, <3>2, <3>3 DEF Served, ToSet
  <2>6. Served(new)'
    <3>1. engine_pc' # "ended"
      BY <1>2 DEF StopOK
    <3>2. ToBeHandled(AddOf(new))'
      BY <1>2, <3>1 DEF ToBeHandled, AddOf
    <3> QED  BY <3>2 DEF Served
  <2> QED  BY <1>7, <2>4, <2>5, <2>6
<1>22. StopOK'
  BY <1>2, <1>13, Kinds DEF StopOK, STOP, AddOf
<1> QED  BY <1>1, <1>9, <1>10, <1>11, <1>12, <1>15, <1>18, <1>20, <1>21, <1>22

LEMMA StartCallStep ==
  ASSUME WInv, NEW d \in Calls, StartCall(d)
  PROVE  WInv'
<1> USE DEF WInv
<1>1. IInv'
  BY NextIInv DEF Next, Loop
<1>2. /\ UNCHANGED <<commands, dead, live, gen, engine_pc, soon, stream, updates, pump, stopping>>
      /\ sending = NoCommand /\ pump.state # "aborting" /\ ~ dead /\ sending' = CallOf(d)
      /\ call' = [call EXCEPT ![d] = "pending"] /\ Streams' = Streams
  BY DEF StartCall, Send, LoopFree, engineVars, pumpVars, Streams
<1>3. ToSet(commands)' = ToSet(commands) /\ ToSet(soon)' = ToSet(soon)
  BY <1>2 DEF ToSet
<1>4. CommandsOK'
  <2>1. CommandsTo(Streams)' = CommandsTo(Streams) /\ CallOf(d) \in CommandsTo(Streams)
    BY <1>2 DEF CommandsTo, AddOf, AbortOf, CallOf, STOP
  <2>2. IsSeq(commands)'
    BY <1>2 DEF CommandsOK, IsSeq, ToSet
  <2> QED  BY <1>2, <1>3, <2>1, <2>2 DEF CommandsOK
<1>5. StreamsOK'
  BY <1>2, SameStreams
<1>6. LiveOK'
  BY <1>2, SameLive
<1>7. PumpOK'
  BY <1>2 DEF PumpOK, IsSeq, ToSet
<1>8. DeliveryOK' /\ Items' = Items
  BY <1>2, SameDelivery
<1>9. \A s : CallOf(d) # AddOf(s)
  BY Kinds
<1>10. AddedOnce'
  BY <1>2, <1>3, <1>9 DEF AddedOnce, AddOf
<1>11. OverIsAborted'
  <2> SUFFICES ASSUME NEW t \in Streams, Over(t)' PROVE AbortComing(t)'
    BY <1>2 DEF OverIsAborted
  <2>1. Over(t)
    BY <1>2, <1>8 DEF Over, OverIn, OverOut, ToSet
  <2>2. AbortComing(t)
    BY <2>1 DEF OverIsAborted
  <2> QED  BY <1>2, <1>3, <1>9, <2>2 DEF AbortComing, AddOf, AbortOf
<1>12. WaitersServed'
  <2>1. WaitersServed' <=> Waiters'
    BY <1>8, WaitersServedIs, PTL
  <2> SUFFICES ASSUME stopping = "no"
               PROVE  /\ \A c \in Calls : call'[c] = "pending" => CallServed(c)'
                      /\ \A t \in Streams : stream[t].handler = "reading" => Served(t)'
    BY <1>2, <2>1 DEF Waiters
  <2>2. /\ \A c \in Calls : call[c] = "pending" => CallServed(c)
        /\ \A t \in Streams : stream[t].handler = "reading" => Served(t)
    BY WaitersServedIs DEF Waiters
  <2>3. \A cmd : (ToBeHandled(cmd) /\ cmd # NoCommand) => ToBeHandled(cmd)'
    BY <1>2, SentHandled
  <2>4. ASSUME NEW c \in Calls, call'[c] = "pending" PROVE CallServed(c)'
    <3>1. PICK cmd : cmd = CallOf(c) /\ cmd # NoCommand
      BY Kinds
    <3>2. ToBeHandled(CallOf(c)) => ToBeHandled(CallOf(c))'
      BY <2>3, <3>1 DEF CallOf
    <3>3. CASE c = d
      <4>1. engine_pc' # "ended"
        BY <1>2 DEF StopOK
      <4> QED  BY <1>2, <3>3, <4>1 DEF CallServed, ToBeHandled, CallOf
    <3>4. CASE c # d
      <4>1. call[c] = "pending"
        BY <1>2, <2>4, <3>4
      <4> QED  BY <1>3, <2>2, <3>2, <4>1 DEF CallServed, SetFuture
    <3> QED  BY <3>3, <3>4
  <2>5. ASSUME NEW t \in Streams, stream[t].handler = "reading" PROVE Served(t)'
    <3>1. PICK cmd : cmd = AddOf(t) /\ cmd # NoCommand
      BY Kinds
    <3>2. ToBeHandled(AddOf(t)) => ToBeHandled(AddOf(t))'
      BY <2>3, <3>1 DEF AddOf
    <3> QED  BY <1>2, <1>8, <2>2, <2>5, <3>2 DEF Served, ToSet
  <2> QED  BY <2>4, <2>5
<1>13. StopOK'
  <2>1. DOMAIN call' = Calls
    BY <1>2 DEF StopOK
  <2> QED  BY <1>2, <1>3, <2>1, Kinds DEF StopOK, STOP, CallOf
<1> QED  BY <1>1, <1>4, <1>5, <1>6, <1>7, <1>8, <1>10, <1>11, <1>12, <1>13

\* _send puts its command.
LEMMA SendPutStep ==
  ASSUME WInv, SendPut
  PROVE  WInv'
<1> USE DEF WInv
<1>1. IInv'
  BY NextIInv DEF Next, Loop
<1>2. PICK put : put = sending
  OBVIOUS
<1>3. /\ UNCHANGED <<dead, live, gen, engine_pc, soon, stream, updates, pump, stopping, call>>
      /\ put # NoCommand /\ sending' = NoCommand /\ commands' = Append(commands, put) /\ Streams' = Streams
  BY <1>2 DEF SendPut, engineVars, pumpVars, clientVars, Streams
<1>4. /\ IsSeq(commands') /\ ToSet(commands)' = ToSet(commands) \cup {put}
      /\ Len(commands) \in Nat /\ Len(commands') = Len(commands) + 1
      /\ DOMAIN commands = 1 .. Len(commands) /\ DOMAIN commands' = 1 .. Len(commands) + 1
      /\ commands'[Len(commands) + 1] = put
      /\ \A i \in 1 .. Len(commands) : commands'[i] = commands[i]
  BY <1>3, PutCommand
<1>5. CommandsOK'
  <2>1. CommandsTo(Streams)' = CommandsTo(Streams)
    BY <1>3 DEF CommandsTo, AddOf, AbortOf, CallOf, STOP
  <2> QED  BY <1>2, <1>3, <1>4, <2>1 DEF CommandsOK, NoCommand
<1>6. StreamsOK'
  BY <1>3, SameStreams
<1>7. LiveOK'
  BY <1>3, SameLive
<1>8. PumpOK'
  BY <1>3 DEF PumpOK, IsSeq, ToSet, NoCommand
<1>9. DeliveryOK' /\ Items' = Items
  BY <1>3, SameDelivery
<1>10. AddedOnce'
  <2>1. ASSUME NEW s \in Streams
        PROVE  /\ \A i, j \in DOMAIN commands' : commands'[i] = AddOf(s) /\ commands'[j] = AddOf(s) => i = j
               /\ AddOf(s) \in ToSet(commands)' => NoCommand # AddOf(s) /\ s \notin DOMAIN live
    <3>1. CASE put = AddOf(s)
      <4>1. AddOf(s) \notin ToSet(commands) /\ s \notin DOMAIN live
        BY <1>2, <3>1 DEF AddedOnce
      <4>2. \A i \in DOMAIN commands' : commands'[i] = AddOf(s) => i = Len(commands) + 1
        <5>1. \A i \in DOMAIN commands : commands[i] # AddOf(s)
          BY <4>1 DEF ToSet
        <5> QED  BY <1>4, <5>1
      <4> QED  BY <4>1, <4>2, Kinds
    <3>2. CASE put # AddOf(s)
      <4>1. AddOf(s) \in ToSet(commands)' => AddOf(s) \in ToSet(commands)
        BY <1>4, <3>2
      <4>2. \A i \in DOMAIN commands' : commands'[i] = AddOf(s) => i \in DOMAIN commands /\ commands[i] = AddOf(s)
        BY <1>4, <3>2
      <4> QED  BY <4>1, <4>2, Kinds DEF AddedOnce
    <3> QED  BY <3>1, <3>2
  <2>2. \A s : NoCommand # AddOf(s)
    BY Kinds
  <2> QED  BY <1>3, <2>1, <2>2 DEF AddedOnce, AddOf, NoCommand
<1>11. OverIsAborted'
  <2> SUFFICES ASSUME NEW t \in Streams, Over(t)' PROVE AbortComing(t)'
    BY <1>3 DEF OverIsAborted
  <2>1. Over(t)
    BY <1>3, <1>9 DEF Over, OverIn, OverOut, ToSet
  <2>2. AbortComing(t)
    BY <2>1 DEF OverIsAborted
  <2>3. put # AddOf(t) /\ sending' # AddOf(t)
    BY <1>2, <1>3, <2>2, Kinds DEF AbortComing
  <2> QED  BY <1>3, <2>2, <2>3, PutComing
<1>12. WaitersServed'
  <2>1. WaitersServed' <=> Waiters'
    BY <1>9, WaitersServedIs, PTL
  <2> SUFFICES ASSUME stopping = "no"
               PROVE  /\ \A c \in Calls : call[c] = "pending" => CallServed(c)'
                      /\ \A t \in Streams : stream[t].handler = "reading" => Served(t)'
    BY <1>3, <2>1 DEF Waiters
  <2>2. /\ \A c \in Calls : call[c] = "pending" => CallServed(c)
        /\ \A t \in Streams : stream[t].handler = "reading" => Served(t)
    BY WaitersServedIs DEF Waiters
  <2>3. \A cmd : ToBeHandled(cmd) => ToBeHandled(cmd)'
    BY <1>2, <1>3, <1>4 DEF ToBeHandled
  <2>4. ASSUME NEW c \in Calls, call[c] = "pending" PROVE CallServed(c)'
    <3>1. PICK cmd : cmd = CallOf(c)
      OBVIOUS
    <3>2. ToBeHandled(CallOf(c)) => ToBeHandled(CallOf(c))'
      BY <2>3, <3>1 DEF CallOf
    <3>3. ToSet(soon)' = ToSet(soon)
      BY <1>3 DEF ToSet
    <3> QED  BY <2>2, <2>4, <3>2, <3>3 DEF CallServed, SetFuture
  <2>5. ASSUME NEW t \in Streams, stream[t].handler = "reading" PROVE Served(t)'
    <3>1. PICK cmd : cmd = AddOf(t)
      OBVIOUS
    <3>2. ToBeHandled(AddOf(t)) => ToBeHandled(AddOf(t))'
      BY <2>3, <3>1 DEF AddOf
    <3> QED  BY <1>3, <1>9, <2>2, <2>5, <3>2 DEF Served, ToSet
  <2> QED  BY <2>4, <2>5
<1>13. StopOK'
  <2>1. STOP \in ToSet(commands)' => STOP \in ToSet(commands) \/ sending = STOP
    BY <1>2, <1>4
  <2> QED  BY <1>3, <2>1, Kinds DEF StopOK, STOP, NoCommand
<1> QED  BY <1>1, <1>5, <1>6, <1>7, <1>8, <1>9, <1>10, <1>11, <1>12, <1>13

-----------------------------------------------------------------------------

LEMMA InitWInv == Init => WInv
<1> SUFFICES ASSUME Init PROVE WInv
  OBVIOUS
<1>1. /\ gen = <<>> /\ engine_pc = "commands" /\ live = << >> /\ commands = <<>> /\ sending = NoCommand
      /\ soon = <<>> /\ updates = <<>> /\ pump = PumpWaits /\ stream = <<>>
      /\ call = [c \in Calls |-> "unused"]
  BY DEF Init, GenInit
<1>2. IsSeq(<<>>) /\ ToSet(<<>>) = {} /\ DOMAIN <<>> = {}
  BY SeqEmpty
<1>3. pump.state = "waiting" /\ pump.batch = <<>> /\ pump.texts = <<>> /\ {"state", "batch", "texts"} \subseteq DOMAIN pump
  BY <1>1 DEF PumpWaits
<1>4. Streams = {} /\ StreamsOK
  BY <1>1, <1>2 DEF StreamsOK, Streams
<1>5. CommandsOK /\ LiveOK /\ DeliveryOK
  BY <1>1, <1>2, <1>3 DEF CommandsOK, LiveOK, DeliveryOK
<1>6. PumpOK
  BY <1>2, <1>3 DEF PumpOK
<1>7. AddedOnce /\ OverIsAborted
  BY <1>4 DEF AddedOnce, OverIsAborted
<1>8. DOMAIN call = Calls /\ \A c \in Calls : call[c] # "pending"
  BY <1>1
<1>9. STOP # NoCommand
  BY Kinds
<1>10. StopOK
  BY <1>1, <1>2, <1>3, <1>8, <1>9 DEF StopOK
<1>11. WaitersServed
  BY <1>4, <1>8 DEF WaitersServed
<1> QED  BY <1>4, <1>5, <1>6, <1>7, <1>10, <1>11, InitIInv DEF WInv

LEMMA StutterWInv ==
  ASSUME WInv, UNCHANGED vars
  PROVE  WInv'
<1>1. UNCHANGED <<commands, sending, live, gen, engine_pc, dead, stream, stopping, soon, updates, pump, call>>
  BY DEF vars, engineVars, sendVars, pumpVars, clientVars
<1>2. Streams' = Streams
  BY <1>1 DEF Streams
<1>3. IInv'
  BY NextIInv DEF WInv
<1>4. DeliveryOK'
  BY <1>1, <1>2, SameDelivery DEF WInv
<1>5. QueueKept
  BY <1>1, <1>2 DEF QueueKept
<1>6. CommandsOK' /\ AddedOnce' /\ LiveOK'
  BY <1>5, KeptQueue DEF WInv
<1>7. StreamsOK'
  BY <1>1, SameStreams DEF WInv
<1>8. PumpOK'
  BY <1>1 DEF WInv, PumpOK, IsSeq, ToSet, NoCommand
<1>9. Items' = Items
  BY <1>1, <1>2, SameDelivery DEF WInv
<1>10. OverIsAborted'
  <2>1. \A t \in Streams : Over(t)' => Over(t)
    BY <1>1, <1>9 DEF Over, OverIn, OverOut, ToSet
  <2> QED  BY <1>5, <2>1, KeptOver DEF WInv
<1>11. WaitersServed'
  BY <1>1, <1>2 DEF WInv, WaitersServed, ToBeHandled, OnTheWay, ToSet, CallOf, AddOf, SetFuture
<1>12. StopOK'
  BY <1>1 DEF WInv, StopOK, STOP, ToSet
<1> QED  BY <1>3, <1>4, <1>6, <1>7, <1>8, <1>10, <1>11, <1>12 DEF WInv

LEMMA NextWInv == WInv /\ [Next]_vars => WInv'
<1> SUFFICES ASSUME WInv, [Next]_vars PROVE WInv'
  OBVIOUS
<1>1. CASE Thread
  BY <1>1, ThreadStep
<1>2. CASE Detokenize
  BY <1>2, DetokenizeStep
<1>3. CASE \E s \in Streams : \/ HandlerGet(s) \/ HandlerFails(s) \/ HandlerStalls(s)
                              \/ Disconnect(s) \/ WatcherWakes(s)
  BY <1>3, HandlerStep
<1>4. CASE \E c \in Calls : StartCall(c) \/ CancelCall(c)
  BY <1>4, StartCallStep, CancelCallStep
<1>5. CASE SendPut \/ SubmitStream \/ RunCallback \/ PumpTake \/ PumpAborts \/ PumpPush \/ Stop \/ StopJoined
  BY <1>5, SendPutStep, SubmitStep, RunCallbackStep, PumpTakeStep, PumpAbortsStep, PumpPushStep, StopStep
<1>6. CASE UNCHANGED vars
  BY <1>6, StutterWInv
<1> QED  BY <1>1, <1>2, <1>3, <1>4, <1>5, <1>6 DEF Next, Loop

\* Whoever waits, for the end of a stream or for a call, is owed an answer that some thread still
\* has to give or that is on its way, until the server is stopped: whatever fails, whoever leaves,
\* and however many streams and calls there are.
THEOREM AsyncWaitersServed == Spec => []WaitersServed
<1>1. WInv => WaitersServed
  BY DEF WInv
<1> QED  BY InitWInv, NextWInv, <1>1, PTL DEF Spec

\* A request for which nobody reads any more has its abort in the queue, behind its addition,
\* unless the engine is already rid of it.
THEOREM AsyncAbortQueued == Spec => []AbortQueued
<1>1. WInv => AbortQueued
  <2> SUFFICES ASSUME WInv, NEW s \in Streams, Unheard(s)
               PROVE  /\ s \in DOMAIN live => AbortOf(s) \in ToSet(commands)
                      /\ \A i \in DOMAIN commands : commands[i] = AddOf(s) =>
                           \E j \in i + 1 .. Len(commands) : commands[j] = AbortOf(s)
    BY DEF AbortQueued
  <2>1. Over(s)
    BY DEF Unheard, Over, OverIn
  <2> QED  BY <2>1 DEF WInv, OverIsAborted, AbortComing
<1> QED  BY InitWInv, NextWInv, <1>1, PTL DEF Spec
=============================================================================

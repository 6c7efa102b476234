---------------------------- MODULE ReplayProofs ----------------------------
(***************************************************************************)
(* The copy fence, and with it the inputs of every pass, for every set of  *)
(* batches, every largest captured batch and however far the host runs     *)
(* ahead of the device.  That queued copies find their buffers as they were*)
(* is not inductive: the invariant also says that between two passes every *)
(* queued copy stands before the event the fence waits for, so that once   *)
(* the event has passed no copy is left, and that none is queued again     *)
(* before its buffer has been written.  What passes run on rests on it and *)
(* on a second invariant, which follows each pass through the stream.      *)
(***************************************************************************)
EXTENDS GraphReplay, WellFoundedInduction, TLAPS

\* The stream is a sequence, whatever is in it.
InOrder == stream \in Seq(Range(stream))

\* No operation of this kind is queued.
NoneQueued(op) == \A k \in DOMAIN stream : stream[k].op # op

\* The host prepares a batch, and goes through the steps of its kind, which has a buffer.
InPass == /\ pc # "idle" => batch \in Batches
          /\ pc \in {"stage", "copy"} => Kind(batch) = "graph"
          /\ pc = "load" => Kind(batch) = "eager"
          /\ DOMAIN packed = Kinds

\* A buffer is written only when no copy out of it is queued, and before the next one is.
WrittenFirst ==
  /\ pc \in {"stage", "copy"} => NoneQueued("copy")
  /\ pc = "copy" => staging[1].step = step
  /\ (pc \in {"stage", "copy", "pack", "plan"} \/ (pc = "fill" /\ Kind(batch) = "graph")) =>
       NoneQueued("plan")
  /\ pc = "plan" => packed[Kind(batch)][1].step = step

\* When the fence is up, every queued copy is before the event it waits for.
Fenced ==
  pc \in {"launch", "idle"} =>
    \A k \in DOMAIN stream : stream[k].op \in {"copy", "plan"} =>
      \E j \in DOMAIN stream : k < j /\ stream[j] = [op |-> "event", step |-> fence]

IInv == InOrder /\ InPass /\ WrittenFirst /\ Fenced /\ CopiesUndisturbed

-----------------------------------------------------------------------------

\* Any sequence is a sequence of its own elements.
LEMMA OwnElements ==
  ASSUME NEW S, NEW q \in Seq(S)
  PROVE  q \in Seq(Range(q))
<1>1. Len(q) \in Nat /\ DOMAIN q = 1 .. Len(q) /\ q = [i \in 1 .. Len(q) |-> q[i]]
  OBVIOUS
<1>2. \A i \in 1 .. Len(q) : q[i] \in Range(q)
  BY <1>1 DEF Range
<1>3. [i \in 1 .. Len(q) |-> q[i]] \in [1 .. Len(q) -> Range(q)]
  BY <1>2
<1> QED  BY <1>1, <1>3

\* What queueing one operation does to the stream.
LEMMA Queued ==
  ASSUME NEW q, q \in Seq(Range(q)), NEW op
  PROVE  /\ Append(q, op) \in Seq(Range(Append(q, op)))
         /\ Len(q) \in Nat /\ DOMAIN q = 1 .. Len(q)
         /\ DOMAIN Append(q, op) = 1 .. Len(q) + 1
         /\ \A i \in 1 .. Len(q) : Append(q, op)[i] = q[i]
         /\ Append(q, op)[Len(q) + 1] = op
<1>1. Append(q, op) \in Seq(Range(q) \cup {op})
  OBVIOUS
<1>2. Append(q, op) \in Seq(Range(Append(q, op)))
  BY <1>1, OwnElements
<1>3. /\ Len(q) \in Nat /\ DOMAIN q = 1 .. Len(q)
      /\ DOMAIN Append(q, op) = 1 .. Len(q) + 1
      /\ \A i \in 1 .. Len(q) : Append(q, op)[i] = q[i]
      /\ Append(q, op)[Len(q) + 1] = op
  OBVIOUS
<1> QED  BY <1>2, <1>3

\* What taking its first operation does to the stream.
LEMMA TakenOff ==
  ASSUME NEW q, q \in Seq(Range(q)), q # <<>>
  PROVE  /\ Tail(q) \in Seq(Range(Tail(q)))
         /\ Len(q) \in Nat \ {0} /\ DOMAIN q = 1 .. Len(q)
         /\ DOMAIN Tail(q) = 1 .. Len(q) - 1
         /\ \A i \in 1 .. Len(q) - 1 : Tail(q)[i] = q[i + 1]
<1>1. Tail(q) \in Seq(Range(q))
  OBVIOUS
<1>2. Tail(q) \in Seq(Range(Tail(q)))
  BY <1>1, OwnElements
<1>3. /\ Len(q) \in Nat \ {0} /\ DOMAIN q = 1 .. Len(q)
      /\ DOMAIN Tail(q) = 1 .. Len(q) - 1
      /\ \A i \in 1 .. Len(q) - 1 : Tail(q)[i] = q[i + 1]
  OBVIOUS
<1> QED  BY <1>2, <1>3

\* Min finds the least element of a set of naturals.
LEMMA LeastElement ==
  ASSUME NEW T \in SUBSET Nat, T # {}
  PROVE  Min(T) \in T /\ \A y \in T : Min(T) <= y
<1> DEFINE R == {ss \in Nat \X Nat : ss[1] < ss[2]}
<1>1. IsWellFoundedOn(R, Nat)
  BY NatLessThanWellFounded DEF OpToRel
<1> HIDE DEF R
<1>2. PICK x \in T : \A y \in T : ~ (<<y, x>> \in R)
  BY <1>1, WFMin
<1>3. ASSUME NEW y \in T PROVE x <= y
  <2>1. y \in Nat /\ x \in Nat /\ <<y, x>> \notin R
    BY <1>2
  <2>2. ~ (y < x)
    BY <2>1 DEF R
  <2> QED  BY <2>1, <2>2
<1>4. \E z \in T : \A y \in T : z <= y
  BY <1>3
<1> QED  BY <1>4 DEF Min

\* A graph's bucket has room for its batch, so there is never a negative number of padding rows.
LEMMA PadRowsNat ==
  ASSUME NEW b \in Batches
  PROVE  PadRows(b) \in Nat /\ Len(b) \in Nat \ {0} /\ DOMAIN b = 1 .. Len(b)
<1>1. b \in Seq(Requests) /\ b # <<>> /\ MaxBs \in Nat \ {0}
  BY ReplayAssumption
<1>2. Len(b) \in Nat \ {0} /\ DOMAIN b = 1 .. Len(b)
  BY <1>1
<1>3. CASE Kind(b) = "graph"
  <2>1. Len(b) <= MaxBs
    BY <1>3 DEF Kind
  <2> DEFINE fits == {g \in Buckets : g >= Len(b)}
  <2>2. MaxBs \in Buckets /\ Buckets \subseteq Nat
    BY <1>1 DEF Buckets, GraphBuckets
  <2>3. fits \in SUBSET Nat /\ fits # {}
    BY <1>2, <2>1, <2>2
  <2>4. Min(fits) \in fits
    BY <2>3, LeastElement
  <2>5. BucketFor(Buckets, Len(b)) \in Nat /\ BucketFor(Buckets, Len(b)) >= Len(b)
    BY <2>2, <2>4 DEF BucketFor
  <2> QED  BY <1>2, <1>3, <2>5 DEF PadRows
<1>4. CASE Kind(b) # "graph"
  BY <1>2, <1>4 DEF PadRows
<1> QED  BY <1>2, <1>3, <1>4

-----------------------------------------------------------------------------

\* Nothing is queued at the start, and the host is idle.
LEMMA InitIInv == Init => IInv
<1> SUFFICES ASSUME Init PROVE IInv
  OBVIOUS
<1>1. stream = <<>> /\ pc = "idle"
  BY DEF Init
<1>2. InOrder /\ DOMAIN stream = {}
  BY <1>1 DEF InOrder
<1>3. DOMAIN packed = Kinds
  BY DEF Init
<1> QED  BY <1>1, <1>2, <1>3 DEF IInv, InPass, WrittenFirst, Fenced, CopiesUndisturbed, NoneQueued

\* A pass begins when the event has passed.  Every queued copy stood before it: none is left.
LEMMA BeginIInv ==
  ASSUME IInv, NEW b \in Batches, Begin(b)
  PROVE  IInv'
<1>1. /\ pc = "idle" /\ FencePassed /\ batch' = b
      /\ pc' = (IF Kind(b) = "graph" THEN "stage" ELSE "pack")
      /\ UNCHANGED <<step, staging, packed, stream>>
  BY DEF Begin
<1>2. \A k \in DOMAIN stream : stream[k].op \notin {"copy", "plan"}
  BY <1>1 DEF FencePassed, IInv, Fenced
<1>3. Kind(b) \in {"graph", "eager"}
  BY DEF Kind
<1>4. InOrder' /\ CopiesUndisturbed'
  BY <1>1 DEF IInv, InOrder, CopiesUndisturbed
<1>5. InPass'
  BY <1>1, <1>3 DEF IInv, InPass, Kind
<1>6. WrittenFirst' /\ Fenced'
  BY <1>1, <1>2, <1>3 DEF WrittenFirst, Fenced, NoneQueued
<1> QED  BY <1>4, <1>5, <1>6 DEF IInv

\* The staging buffer is written: row 1 is a row of the batch, written for this pass.
LEMMA StageIInv ==
  ASSUME IInv, Stage
  PROVE  IInv'
<1>1. /\ pc = "stage" /\ pc' = "copy" /\ UNCHANGED <<step, batch, packed, stream>>
      /\ staging' = Padded(HostRows(batch), BucketFor(Buckets, Len(batch)), staging)
  BY DEF Stage
<1>2. batch \in Batches /\ NoneQueued("copy") /\ NoneQueued("plan") /\ Kind(batch) = "graph"
  BY <1>1 DEF IInv, InPass, WrittenFirst
<1>3. 1 \in DOMAIN batch /\ 1 \in 1 .. MaxBs
  BY <1>2, PadRowsNat, ReplayAssumption
<1>4. 1 \in DOMAIN HostRows(batch) /\ HostRows(batch)[1].step = step
  BY <1>3 DEF HostRows
<1>5. staging'[1] = HostRows(batch)[1]
  BY <1>1, <1>3, <1>4 DEF Padded
<1>6. InOrder' /\ InPass' /\ Fenced'
  BY <1>1, <1>2 DEF IInv, InOrder, InPass, Fenced, Kind
<1>7. WrittenFirst'
  BY <1>1, <1>2, <1>4, <1>5 DEF WrittenFirst, NoneQueued
<1>8. CopiesUndisturbed'
  BY <1>1, <1>2 DEF CopiesUndisturbed, NoneQueued
<1> QED  BY <1>6, <1>7, <1>8 DEF IInv

\* The block tables are packed: row 1 is a row of the batch, written for this pass.
LEMMA PackIInv ==
  ASSUME IInv, Pack
  PROVE  IInv'
<1>1. /\ pc = "pack" /\ pc' = "plan" /\ UNCHANGED <<step, batch, staging, stream>>
      /\ packed' = [packed EXCEPT ![Kind(batch)] = PackBlockTables(batch, PadRows(batch))]
  BY DEF Pack
<1>2. batch \in Batches /\ NoneQueued("plan")
  BY <1>1 DEF IInv, InPass, WrittenFirst
<1>3. 1 \in DOMAIN batch /\ 1 \in 1 .. Len(batch) + PadRows(batch)
  BY <1>2, PadRowsNat
<1>4. PackBlockTables(batch, PadRows(batch))[1].step = step
  BY <1>3 DEF PackBlockTables
<1>5. Kind(batch) \in Kinds /\ DOMAIN packed = Kinds
  BY DEF Kind, Kinds, IInv, InPass
<1>6. packed'[Kind(batch)][1].step = step /\ DOMAIN packed' = Kinds
  BY <1>1, <1>4, <1>5
<1>7. InOrder' /\ InPass' /\ Fenced'
  BY <1>1, <1>2, <1>6 DEF IInv, InOrder, InPass, Fenced
<1>8. Kind(batch)' = Kind(batch)
  BY <1>1 DEF Kind
<1>9. WrittenFirst'
  BY <1>1, <1>2, <1>6, <1>8 DEF WrittenFirst, NoneQueued
<1>10. CopiesUndisturbed'
  BY <1>1, <1>2 DEF IInv, CopiesUndisturbed, NoneQueued
<1> QED  BY <1>7, <1>9, <1>10 DEF IInv

\* What the rest of the invariant says of a stream with one more operation.
LEMMA QueueFacts ==
  ASSUME IInv, NEW op, stream' = Append(stream, op)
  PROVE  /\ InOrder'
         /\ \A k \in DOMAIN stream' : stream'[k] = op \/ (k \in DOMAIN stream /\ stream'[k] = stream[k])
         /\ \A k \in DOMAIN stream : k \in DOMAIN stream' /\ stream'[k] = stream[k]
         /\ \E j \in DOMAIN stream' : stream'[j] = op /\ \A k \in DOMAIN stream : k < j
<1>1. /\ Append(stream, op) \in Seq(Range(Append(stream, op)))
      /\ Len(stream) \in Nat /\ DOMAIN stream = 1 .. Len(stream)
      /\ DOMAIN Append(stream, op) = 1 .. Len(stream) + 1
      /\ \A i \in 1 .. Len(stream) : Append(stream, op)[i] = stream[i]
      /\ Append(stream, op)[Len(stream) + 1] = op
  BY Queued DEF IInv, InOrder
<1>2. InOrder'
  BY <1>1 DEF InOrder
<1>3. \A k \in DOMAIN stream' : stream'[k] = op \/ (k \in DOMAIN stream /\ stream'[k] = stream[k])
  BY <1>1
<1>4. \A k \in DOMAIN stream : k \in DOMAIN stream' /\ stream'[k] = stream[k]
  BY <1>1
<1>5. Len(stream) + 1 \in DOMAIN stream' /\ \A k \in DOMAIN stream : k < Len(stream) + 1
  BY <1>1
<1> QED  BY <1>1, <1>2, <1>3, <1>4, <1>5

\* The copy of the staging buffer is queued behind its writing.
LEMMA CopyIInv ==
  ASSUME IInv, Copy
  PROVE  IInv'
<1> DEFINE op == [op |-> "copy", step |-> step]
<1>1. /\ pc = "copy" /\ pc' = "fill" /\ stream' = Append(stream, op)
      /\ UNCHANGED <<step, batch, staging, packed>>
  BY DEF Copy, Queue
<1>2. op.op = "copy" /\ op.step = step
  OBVIOUS
<1> HIDE DEF op
<1>3. /\ InOrder'
      /\ \A k \in DOMAIN stream' : stream'[k] = op \/ (k \in DOMAIN stream /\ stream'[k] = stream[k])
  BY <1>1, QueueFacts
<1>4. NoneQueued("plan") /\ staging[1].step = step /\ batch \in Batches
  BY <1>1 DEF IInv, WrittenFirst, InPass
<1>5. InPass' /\ Fenced'
  BY <1>1 DEF IInv, InPass, Fenced
<1>6. NoneQueued("plan")'
  BY <1>2, <1>3, <1>4 DEF NoneQueued
<1>7. WrittenFirst'
  BY <1>1, <1>6 DEF WrittenFirst
<1>8. CopiesUndisturbed'
  BY <1>1, <1>2, <1>3, <1>4 DEF IInv, CopiesUndisturbed
<1> QED  BY <1>3, <1>5, <1>7, <1>8 DEF IInv

\* The copies of the block tables are queued behind their packing.
LEMMA PlanIInv ==
  ASSUME IInv, Plan
  PROVE  IInv'
<1> DEFINE op == [op |-> "plan", step |-> step, kind |-> Kind(batch)]
<1>1. /\ pc = "plan" /\ pc' = (IF Kind(batch) = "graph" THEN "mark" ELSE "load")
      /\ stream' = Append(stream, op) /\ UNCHANGED <<step, batch, staging, packed>>
  BY DEF Plan, Queue
<1>2. op.op = "plan" /\ op.step = step /\ op.kind = Kind(batch)
  OBVIOUS
<1> HIDE DEF op
<1>3. /\ InOrder'
      /\ \A k \in DOMAIN stream' : stream'[k] = op \/ (k \in DOMAIN stream /\ stream'[k] = stream[k])
  BY <1>1, QueueFacts
<1>4. packed[Kind(batch)][1].step = step /\ batch \in Batches
  BY <1>1 DEF IInv, WrittenFirst, InPass
<1>5. Kind(batch) \in {"graph", "eager"} /\ Kind(batch)' = Kind(batch)
  BY <1>1 DEF Kind
<1>6. InPass' /\ Fenced' /\ WrittenFirst'
  BY <1>1, <1>4, <1>5 DEF IInv, InPass, Fenced, WrittenFirst
<1>7. CopiesUndisturbed'
  BY <1>1, <1>2, <1>3, <1>4 DEF IInv, CopiesUndisturbed
<1> QED  BY <1>3, <1>6, <1>7 DEF IInv

\* Operations that read no pinned buffer: the inputs of an eager pass and the placeholders.
LEMMA OtherOpIInv ==
  ASSUME IInv, Load \/ Fill
  PROVE  IInv'
<1>1. /\ \/ pc = "load" /\ pc' = "fill"
         \/ pc = "fill" /\ pc' = (IF Kind(batch) = "graph" THEN "pack" ELSE "mark")
      /\ UNCHANGED <<step, batch, staging, packed>>
  BY DEF Load, Fill
<1>2. PICK op : stream' = Append(stream, op) /\ op.op \in {"load", "fill"}
  BY DEF Load, Fill, Queue
<1>3. /\ InOrder'
      /\ \A k \in DOMAIN stream' : stream'[k] = op \/ (k \in DOMAIN stream /\ stream'[k] = stream[k])
  BY <1>2, QueueFacts
<1>4. Kind(batch)' = Kind(batch)
  BY <1>1 DEF Kind
<1>5. InPass' /\ Fenced'
  BY <1>1, <1>4 DEF IInv, InPass, Fenced
<1>6. NoneQueued("plan") => NoneQueued("plan")'
  BY <1>2, <1>3 DEF NoneQueued
<1>7. pc = "load" => Kind(batch) = "eager"
  BY DEF IInv, InPass
<1>8. (pc = "fill" /\ Kind(batch) = "graph") => NoneQueued("plan")
  BY DEF IInv, WrittenFirst
<1>9. WrittenFirst'
  BY <1>1, <1>4, <1>6, <1>7, <1>8 DEF WrittenFirst
<1>10. CopiesUndisturbed'
  BY <1>1, <1>2, <1>3 DEF IInv, CopiesUndisturbed
<1> QED  BY <1>3, <1>5, <1>9, <1>10 DEF IInv

\* CopyFence.mark: the event is queued behind every copy of the pass.
LEMMA MarkIInv ==
  ASSUME IInv, Mark
  PROVE  IInv'
<1> DEFINE op == [op |-> "event", step |-> step]
<1>1. /\ pc = "mark" /\ pc' = "launch" /\ stream' = Append(stream, op) /\ fence' = step
      /\ UNCHANGED <<step, batch, staging, packed>>
  BY DEF Mark, Queue
<1>2. op.op = "event" /\ op = [op |-> "event", step |-> fence']
  BY <1>1
<1> HIDE DEF op
<1>3. /\ InOrder'
      /\ \A k \in DOMAIN stream' : stream'[k] = op \/ (k \in DOMAIN stream /\ stream'[k] = stream[k])
  BY <1>1, QueueFacts
<1>4. PICK j \in DOMAIN stream' : stream'[j] = op /\ \A k \in DOMAIN stream : k < j
  BY <1>1, QueueFacts
<1>5. InPass' /\ WrittenFirst'
  BY <1>1 DEF IInv, InPass, WrittenFirst
<1>6. Fenced'
  <2> SUFFICES ASSUME NEW k \in DOMAIN stream', stream'[k].op \in {"copy", "plan"}
               PROVE  \E i \in DOMAIN stream' : k < i /\ stream'[i] = [op |-> "event", step |-> fence']
    BY DEF Fenced
  <2>1. k \in DOMAIN stream
    BY <1>2, <1>3
  <2> QED  BY <1>2, <1>4, <2>1
<1>7. CopiesUndisturbed'
  BY <1>1, <1>2, <1>3 DEF IInv, CopiesUndisturbed
<1> QED  BY <1>3, <1>5, <1>6, <1>7 DEF IInv

\* The pass and the sampling behind it are queued; the copies stay where they were.
LEMMA LaunchIInv ==
  ASSUME IInv, Launch
  PROVE  IInv'
<1> DEFINE run == [op |-> "run", step |-> step, kind |-> Kind(batch), batch |-> batch, prev |-> prev]
           sample == [op |-> "sample", n |-> Len(batch)]
<1>1. /\ pc = "launch" /\ pc' = "idle" /\ stream' = stream \o <<run, sample>>
      /\ UNCHANGED <<fence, staging, packed>>
  BY DEF Launch
<1>2. run.op = "run" /\ sample.op = "sample"
  OBVIOUS
<1> HIDE DEF run, sample
<1>3. stream \in Seq(Range(stream))
  BY DEF IInv, InOrder
<1>4. stream' \in Seq(Range(stream) \cup {run, sample})
  BY <1>1, <1>3
<1>5. InOrder'
  BY <1>4, OwnElements DEF InOrder
<1>6. /\ \A k \in DOMAIN stream' :
           stream'[k] \in {run, sample} \/ (k \in DOMAIN stream /\ stream'[k] = stream[k])
      /\ \A k \in DOMAIN stream : k \in DOMAIN stream' /\ stream'[k] = stream[k]
  BY <1>1, <1>3
<1>7. InPass' /\ WrittenFirst'
  BY <1>1 DEF IInv, InPass, WrittenFirst
<1>8. Fenced'
  <2> SUFFICES ASSUME NEW k \in DOMAIN stream', stream'[k].op \in {"copy", "plan"}
               PROVE  \E i \in DOMAIN stream' : k < i /\ stream'[i] = [op |-> "event", step |-> fence']
    BY DEF Fenced
  <2>1. k \in DOMAIN stream /\ stream[k].op \in {"copy", "plan"}
    BY <1>2, <1>6
  <2>2. PICK i \in DOMAIN stream : k < i /\ stream[i] = [op |-> "event", step |-> fence]
    BY <1>1, <2>1 DEF IInv, Fenced
  <2> QED  BY <1>1, <1>6, <2>2
<1>9. CopiesUndisturbed'
  BY <1>1, <1>2, <1>6 DEF IInv, CopiesUndisturbed
<1> QED  BY <1>5, <1>7, <1>8, <1>9 DEF IInv

\* The device takes the first operation and writes no pinned buffer: what is queued moves up.
LEMMA DeviceIInv ==
  ASSUME IInv, Device
  PROVE  IInv'
<1>1. /\ stream # <<>> /\ stream' = Tail(stream)
      /\ UNCHANGED <<pc, step, batch, fence, staging, packed>>
  BY DEF Device, DeviceCopies, DeviceLoads, DeviceFills, DevicePlans, DevicePassesEvent, DeviceRuns,
         DeviceSamples, Takes, host
<1>2. /\ InOrder' /\ Len(stream) \in Nat \ {0}
      /\ DOMAIN stream = 1 .. Len(stream) /\ DOMAIN stream' = 1 .. Len(stream) - 1
      /\ \A k \in DOMAIN stream' : stream'[k] = stream[k + 1]
  BY <1>1, TakenOff DEF IInv, InOrder
<1>3. \A k \in DOMAIN stream' : k + 1 \in DOMAIN stream
  BY <1>2
<1>4. Kind(batch)' = Kind(batch)
  BY <1>1 DEF Kind
<1>5. InPass'
  BY <1>1, <1>4 DEF IInv, InPass
<1>6. \A op \in {"copy", "plan"} : NoneQueued(op) => NoneQueued(op)'
  BY <1>2, <1>3 DEF NoneQueued
<1>7. WrittenFirst'
  BY <1>1, <1>4, <1>6 DEF IInv, WrittenFirst
<1>8. Fenced'
  <2> SUFFICES ASSUME pc \in {"launch", "idle"}, NEW k \in DOMAIN stream',
                      stream'[k].op \in {"copy", "plan"}
               PROVE  \E i \in DOMAIN stream' : k < i /\ stream'[i] = [op |-> "event", step |-> fence]
    BY <1>1 DEF Fenced
  <2>1. PICK i \in DOMAIN stream : k + 1 < i /\ stream[i] = [op |-> "event", step |-> fence]
    BY <1>2, <1>3 DEF IInv, Fenced
  <2>2. i - 1 \in DOMAIN stream' /\ k < i - 1 /\ stream'[i - 1] = stream[i]
    BY <1>2, <2>1
  <2> QED  BY <2>1, <2>2
<1>9. CopiesUndisturbed'
  BY <1>1, <1>2, <1>3 DEF IInv, CopiesUndisturbed
<1> QED  BY <1>2, <1>5, <1>7, <1>8, <1>9 DEF IInv

-----------------------------------------------------------------------------

\* Every step of the host and of the device preserves the invariant.
LEMMA NextIInv == IInv /\ [Next]_vars => IInv'
<1> SUFFICES ASSUME IInv, [Next]_vars PROVE IInv'
  OBVIOUS
<1>1. CASE \E b \in Batches : Begin(b)
  BY <1>1, BeginIInv
<1>2. CASE Stage \/ Copy \/ Load \/ Fill \/ Pack \/ Plan \/ Mark \/ Launch
  BY <1>2, StageIInv, CopyIInv, OtherOpIInv, PackIInv, PlanIInv, MarkIInv, LaunchIInv
<1>3. CASE Device
  BY <1>3, DeviceIInv
<1>4. CASE UNCHANGED vars
  <2>1. UNCHANGED <<pc, step, batch, fence, staging, packed, stream>>
    BY <1>4 DEF vars
  <2>2. Kind(batch)' = Kind(batch)
    BY <2>1 DEF Kind
  <2>3. InOrder' /\ InPass' /\ CopiesUndisturbed' /\ Fenced'
    BY <2>1, <2>2 DEF IInv, InOrder, InPass, CopiesUndisturbed, Fenced
  <2>4. WrittenFirst'
    BY <2>1, <2>2 DEF IInv, WrittenFirst, NoneQueued
  <2> QED  BY <2>3, <2>4 DEF IInv
<1> QED  BY <1>1, <1>2, <1>3, <1>4 DEF Next, Host

\* However far the host runs ahead, whatever batches it runs and however large the graphs are:
\* a queued copy always finds in the pinned buffer what was written for it.
THEOREM ReplayCopiesUndisturbed == Spec => []CopiesUndisturbed
<1>1. IInv => CopiesUndisturbed
  BY DEF IInv
<1> QED  BY InitIInv, NextIInv, <1>1, PTL DEF Spec
-----------------------------------------------------------------------------
(* What a pass runs on.  Four operations of a pass stand before its run and its sampling behind    *)
(* it, so the place of the run in the stream, or the place it will have, tells how far the device  *)
(* is with the pass: what has left the stream is done and its effect still there.                  *)

\* How many operations the host has yet to queue before the run of its pass, or of the next one.
Left == IF pc = "launch" THEN 0
        ELSE IF pc = "mark" THEN 1
        ELSE IF pc = "fill" THEN IF Kind(batch) = "graph" THEN 3 ELSE 2
        ELSE IF pc \in {"pack", "plan"} /\ Kind(batch) = "graph" THEN 2
        ELSE IF pc = "load" THEN 3
        ELSE 4

\* Where in the stream that run will stand.
RunAt == Len(stream) + 1 + Left

\* If the k-th operation is still queued, it is this one.
At(k, op) == k \in DOMAIN stream => stream[k] = op

\* Pass s of batch b after a pass of batch p: its rows as the host has them ...
RowsFor(b, s, p) ==
  [i \in DOMAIN b |-> [req |-> b[i], step |-> s, id |-> IF b[i] \in Range(p) THEN HOLE ELSE HOST]]

HostHas(q, b, s, p) == \A i \in DOMAIN b : q[i] = RowsFor(b, s, p)[i]

\* ... and with the tokens that the pass before sampled.
DeviceHas(q, b, s, p) ==
  \A i \in DOMAIN b :
    q[i] = [req |-> b[i], step |-> s,
            id |-> IF b[i] \in Range(p) THEN [req |-> b[i], step |-> s - 1] ELSE HOST]

\* The padding of a graph's batch.
PadsHas(q, b) == \A i \in 1 .. BucketFor(Buckets, Len(b)) : i \notin DOMAIN b => q[i] = PadRow

\* The row of the pass before that a placeholder is filled from.
FillFrom(b, p) ==
  [i \in {j \in DOMAIN b : b[j] \in Range(p)} |-> CHOOSE k \in DOMAIN p : p[k] = b[i]]

\* The block tables of a pass.
TablesFor(b, s) ==
  [i \in 1 .. Len(b) + PadRows(b) |->
     IF i \in DOMAIN b THEN [req |-> b[i], step |-> s] ELSE [req |-> Dummy, step |-> 0]]

\* The pass with its run at k: what of it is queued, and the pinned buffers that is to read.
GraphQueued(k, s, b, p) ==
  /\ At(k - 4, [op |-> "copy", step |-> s])
  /\ At(k - 3, [op |-> "fill", kind |-> "graph", rows |-> FillFrom(b, p)])
  /\ At(k - 2, [op |-> "plan", step |-> s, kind |-> "graph"])
  /\ k - 4 \in DOMAIN stream => HostHas(staging, b, s, p) /\ PadsHas(staging, b)
  /\ k - 2 \in DOMAIN stream => packed["graph"] = TablesFor(b, s)

EagerQueued(k, s, b, p) ==
  /\ At(k - 4, [op |-> "plan", step |-> s, kind |-> "eager"])
  /\ At(k - 3, [op |-> "load", step |-> s, rows |-> RowsFor(b, s, p)])
  /\ At(k - 2, [op |-> "fill", kind |-> "eager", rows |-> FillFrom(b, p)])
  /\ k - 4 \in DOMAIN stream => packed["eager"] = TablesFor(b, s)

\* The run and the sampling of the pass before stand right before it.
PrevQueued(k, s, p) ==
  /\ k - 6 \in DOMAIN stream => /\ stream[k - 6].op = "run" /\ stream[k - 6].step = s - 1
                                /\ stream[k - 6].batch = p
  /\ At(k - 5, [op |-> "sample", n |-> Len(p)])

PassQueued(k, s, b, p) ==
  /\ At(k - 1, [op |-> "event", step |-> s])
  /\ Kind(b) = "graph" => GraphQueued(k, s, b, p)
  /\ Kind(b) = "eager" => EagerQueued(k, s, b, p)
  /\ PrevQueued(k, s, p)

\* What the device has done of it.
GraphDone(k, s, b, p) ==
  /\ k = 4 => HostHas(inputs, b, s, p)
  /\ k < 4 => DeviceHas(inputs, b, s, p)
  /\ k <= 4 => PadsHas(inputs, b)
  /\ k <= 2 => tables["graph"] = TablesFor(b, s)

EagerDone(k, s, b, p) ==
  /\ k <= 4 => tables["eager"] = TablesFor(b, s)
  /\ k = 3 => HostHas(loaded, b, s, p)
  /\ k < 3 => DeviceHas(loaded, b, s, p)
  /\ k <= 3 => DOMAIN loaded = DOMAIN b

PrevDone(k, s, p) ==
  /\ k = 6 => \A i \in DOMAIN p : logits[i].req = p[i] /\ logits[i].step = s - 1
  /\ k <= 5 => \A i \in DOMAIN p : tokens[i] = [req |-> p[i], step |-> s - 1]

PassDone(k, s, b, p) ==
  /\ Kind(b) = "graph" => GraphDone(k, s, b, p)
  /\ Kind(b) = "eager" => EagerDone(k, s, b, p)
  /\ PrevDone(k, s, p)

\* The batches of passes: the first one has none before it.
Befores == Batches \cup {<<>>}

RunOf(s, b, p) == [op |-> "run", step |-> s, kind |-> Kind(b), batch |-> b, prev |-> p]

\* Every pass whose run is queued, the one in preparation, and what the next one will find.
QueuedPasses ==
  \A k \in DOMAIN stream : stream[k].op = "run" =>
    \E s \in Nat, b \in Batches, p \in Befores :
      stream[k] = RunOf(s, b, p) /\ PassQueued(k, s, b, p) /\ PassDone(k, s, b, p)

PassInPreparation ==
  pc # "idle" =>
    \E k \in Nat, s \in Nat, b \in Batches, p \in Befores :
      /\ k = RunAt /\ s = step /\ b = batch /\ p = prev
      /\ PassQueued(k, s, b, p) /\ PassDone(k, s, b, p)
      /\ pc = "copy" => HostHas(staging, b, s, p) /\ PadsHas(staging, b)
      /\ pc = "plan" => packed[Kind(b)] = TablesFor(b, s)

NextPass ==
  pc = "idle" =>
    \E k \in Nat, s \in Nat, p \in Befores :
      k = RunAt /\ s = step /\ p = prev /\ PrevQueued(k, s, p) /\ PrevDone(k, s, p)

\* The buffers are there, in full.
Buffers == /\ inputs \in [1 .. MaxBs -> Range(inputs)]
           /\ staging \in [1 .. MaxBs -> Range(staging)]
           /\ DOMAIN tables = Kinds

PInv == QueuedPasses /\ PassInPreparation /\ NextPass /\ Buffers /\ RunsOnOwnInputs

\* The bucket of a graph's batch lies between the batch and the largest graph.
LEMMA BucketFits ==
  ASSUME NEW b \in Batches, Kind(b) = "graph"
  PROVE  BucketFor(Buckets, Len(b)) \in Len(b) .. MaxBs
<1>1. b \in Seq(Requests) /\ MaxBs \in Nat \ {0}
  BY ReplayAssumption
<1>2. Len(b) \in Nat /\ Len(b) <= MaxBs
  BY <1>1 DEF Kind
<1> DEFINE fits == {g \in Buckets : g >= Len(b)}
<1>3. MaxBs \in Buckets /\ Buckets \subseteq 1 .. MaxBs /\ Buckets \subseteq Nat
  BY <1>1 DEF Buckets, GraphBuckets
<1>4. fits \in SUBSET Nat /\ MaxBs \in fits
  BY <1>1, <1>2, <1>3
<1>5. Min(fits) \in fits
  BY <1>4, LeastElement
<1>6. Min(fits) \in 1 .. MaxBs /\ Min(fits) >= Len(b)
  BY <1>3, <1>5
<1> QED  BY <1>1, <1>2, <1>6 DEF BucketFor

\* Where a pass stands tells what the device finds first in the stream.
LEMMA HeadOfPass ==
  ASSUME NEW k \in Nat, NEW s, NEW b, NEW p, PassQueued(k, s, b, p), 1 \in DOMAIN stream
  PROVE  /\ k = 2 => stream[1].op = "event"
         /\ k = 6 => stream[1].op = "sample" /\ stream[1].n = Len(p)
         /\ k = 7 => stream[1].op = "run" /\ stream[1].step = s - 1 /\ stream[1].batch = p
         /\ Kind(b) = "graph" =>
              /\ k = 3 => stream[1].op = "plan" /\ stream[1].kind = "graph"
              /\ k = 4 => stream[1].op = "fill" /\ stream[1].kind = "graph" /\ stream[1].rows = FillFrom(b, p)
              /\ k = 5 => stream[1].op = "copy"
         /\ Kind(b) = "eager" =>
              /\ k = 3 => stream[1].op = "fill" /\ stream[1].kind = "eager" /\ stream[1].rows = FillFrom(b, p)
              /\ k = 4 => stream[1].op = "load" /\ stream[1].rows = RowsFor(b, s, p)
              /\ k = 5 => stream[1].op = "plan" /\ stream[1].kind = "eager"
<1>1. k = 2 => stream[1].op = "event"
  BY DEF PassQueued, At
<1>2. k = 6 => stream[1].op = "sample" /\ stream[1].n = Len(p)
  BY DEF PassQueued, PrevQueued, At
<1>3. k = 7 => stream[1].op = "run" /\ stream[1].step = s - 1 /\ stream[1].batch = p
  BY DEF PassQueued, PrevQueued
<1>4. ASSUME Kind(b) = "graph"
      PROVE  /\ k = 3 => stream[1].op = "plan" /\ stream[1].kind = "graph"
             /\ k = 4 => stream[1].op = "fill" /\ stream[1].kind = "graph" /\ stream[1].rows = FillFrom(b, p)
             /\ k = 5 => stream[1].op = "copy"
  BY <1>4 DEF PassQueued, GraphQueued, At
<1>5. ASSUME Kind(b) = "eager"
      PROVE  /\ k = 3 => stream[1].op = "fill" /\ stream[1].kind = "eager" /\ stream[1].rows = FillFrom(b, p)
             /\ k = 4 => stream[1].op = "load" /\ stream[1].rows = RowsFor(b, s, p)
             /\ k = 5 => stream[1].op = "plan" /\ stream[1].kind = "eager"
  BY <1>5 DEF PassQueued, EagerQueued, At
<1> QED  BY <1>1, <1>2, <1>3, <1>4, <1>5

\* When the device takes an operation, what is queued of a pass moves up by one.
LEMMA MovesUp ==
  ASSUME IInv, Device
  PROVE  /\ 1 \in DOMAIN stream /\ Head(stream) = stream[1] /\ Len(stream)' = Len(stream) - 1
         /\ Len(stream) \in Nat
         /\ \A j \in Int : j - 1 \in DOMAIN stream' => j \in DOMAIN stream /\ stream'[j - 1] = stream[j]
         /\ UNCHANGED <<pc, step, batch, prev, fence, staging, packed>>
<1>1. stream # <<>> /\ stream' = Tail(stream) /\ UNCHANGED <<pc, step, batch, prev, fence, staging, packed>>
  BY DEF Device, DeviceCopies, DeviceLoads, DeviceFills, DevicePlans, DevicePassesEvent, DeviceRuns,
         DeviceSamples, Takes, host
<1>2. stream \in Seq(Range(stream))
  BY DEF IInv, InOrder
<1>3. /\ Len(stream) \in Nat \ {0} /\ DOMAIN stream = 1 .. Len(stream)
      /\ DOMAIN stream' = 1 .. Len(stream) - 1
      /\ \A k \in 1 .. Len(stream) - 1 : stream'[k] = stream[k + 1]
  BY <1>1, <1>2, TakenOff
<1>4. Head(stream) = stream[1] /\ Len(stream') = Len(stream) - 1
  BY <1>1, <1>2
<1>5. ASSUME NEW j \in Int, j - 1 \in DOMAIN stream'
      PROVE  j \in DOMAIN stream /\ stream'[j - 1] = stream[j]
  <2>1. j - 1 \in 1 .. Len(stream) - 1 /\ (j - 1) + 1 = j
    BY <1>3, <1>5
  <2> QED  BY <1>3, <2>1
<1> QED  BY <1>1, <1>3, <1>4, <1>5

\* So what is queued of a pass stays right, and so do the pinned buffers that it is to read.
LEMMA MovesUpQueued ==
  ASSUME IInv, Device, NEW k \in Nat, NEW s, NEW b, NEW p
  PROVE  /\ PassQueued(k, s, b, p) => PassQueued(k - 1, s, b, p)'
         /\ PrevQueued(k, s, p) => PrevQueued(k - 1, s, p)'
<1>1. /\ \A j \in Int : j - 1 \in DOMAIN stream' => j \in DOMAIN stream /\ stream'[j - 1] = stream[j]
      /\ UNCHANGED <<staging, packed>>
  BY MovesUp
<1>2. \A n \in 1 .. 6 : k - n \in Int /\ (k - 1) - n = (k - n) - 1
  OBVIOUS
<1>3. ASSUME NEW n \in 1 .. 6, NEW op, At(k - n, op)
      PROVE  At((k - 1) - n, op)'
  BY <1>1, <1>2, <1>3 DEF At
<1>4. ASSUME NEW n \in 1 .. 6, (k - 1) - n \in DOMAIN stream'
      PROVE  k - n \in DOMAIN stream /\ stream'[(k - 1) - n] = stream[k - n]
  BY <1>1, <1>2, <1>4
<1>5. PrevQueued(k, s, p) => PrevQueued(k - 1, s, p)'
  BY <1>3, <1>4 DEF PrevQueued
<1>6. GraphQueued(k, s, b, p) => GraphQueued(k - 1, s, b, p)'
  <2> SUFFICES ASSUME GraphQueued(k, s, b, p) PROVE GraphQueued(k - 1, s, b, p)'
    OBVIOUS
  <2>1. /\ At((k - 1) - 4, [op |-> "copy", step |-> s])'
        /\ At((k - 1) - 3, [op |-> "fill", kind |-> "graph", rows |-> FillFrom(b, p)])'
        /\ At((k - 1) - 2, [op |-> "plan", step |-> s, kind |-> "graph"])'
    BY <1>3 DEF GraphQueued
  <2>2. (k - 1) - 4 \in DOMAIN stream' => (HostHas(staging, b, s, p) /\ PadsHas(staging, b))'
    BY <1>1, <1>4 DEF GraphQueued, HostHas, PadsHas
  <2>3. (k - 1) - 2 \in DOMAIN stream' => packed'["graph"] = TablesFor(b, s)
    BY <1>1, <1>4 DEF GraphQueued
  <2> QED  BY <2>1, <2>2, <2>3 DEF GraphQueued
<1>7. EagerQueued(k, s, b, p) => EagerQueued(k - 1, s, b, p)'
  <2> SUFFICES ASSUME EagerQueued(k, s, b, p) PROVE EagerQueued(k - 1, s, b, p)'
    OBVIOUS
  <2>1. /\ At((k - 1) - 4, [op |-> "plan", step |-> s, kind |-> "eager"])'
        /\ At((k - 1) - 3, [op |-> "load", step |-> s, rows |-> RowsFor(b, s, p)])'
        /\ At((k - 1) - 2, [op |-> "fill", kind |-> "eager", rows |-> FillFrom(b, p)])'
    BY <1>3 DEF EagerQueued
  <2>2. (k - 1) - 4 \in DOMAIN stream' => packed'["eager"] = TablesFor(b, s)
    BY <1>1, <1>4 DEF EagerQueued
  <2> QED  BY <2>1, <2>2 DEF EagerQueued
<1>8. At(k - 1, [op |-> "event", step |-> s]) => At((k - 1) - 1, [op |-> "event", step |-> s])'
  BY <1>3
<1> QED  BY <1>5, <1>6, <1>7, <1>8 DEF PassQueued

\* What the device does to a pass, operation by operation.  The operation it takes tells which
\* pass is at which place: no other pass depends on what it overwrites.
LEMMA CopiesDone ==
  ASSUME IInv, Buffers, DeviceCopies, NEW k \in Nat, k > 1, NEW s \in Nat, NEW b, NEW p,
         PassQueued(k, s, b, p), PassDone(k, s, b, p)
  PROVE  PassDone(k - 1, s, b, p)'
<1>1. /\ stream[1].op = "copy" /\ 1 \in DOMAIN stream /\ inputs' = staging
      /\ UNCHANGED <<loaded, tables, logits, tokens>>
  BY MovesUp DEF DeviceCopies, Takes, Device
<1>2. /\ k # 2 /\ k # 6 /\ k # 7
      /\ Kind(b) = "graph" => k # 3 /\ k # 4
      /\ Kind(b) = "eager" => k # 3 /\ k # 4 /\ k # 5
  BY <1>1, HeadOfPass
<1>3. k = 5 \/ k > 7
  BY <1>2 DEF Kind
<1>4. (Kind(b) = "graph" /\ k = 5) => HostHas(staging, b, s, p) /\ PadsHas(staging, b)
  BY <1>1 DEF PassQueued, GraphQueued
<1>5. Kind(b) = "graph" => GraphDone(k - 1, s, b, p)'
  BY <1>1, <1>3, <1>4 DEF GraphDone, HostHas, PadsHas
<1>6. Kind(b) = "eager" => EagerDone(k - 1, s, b, p)'
  BY <1>2, <1>3 DEF EagerDone
<1>7. PrevDone(k - 1, s, p)'
  BY <1>1, <1>3 DEF PassDone, PrevDone
<1> QED  BY <1>5, <1>6, <1>7 DEF PassDone

\* The inputs of an eager pass arrive in their own tensor.
LEMMA LoadsDone ==
  ASSUME IInv, Buffers, DeviceLoads, NEW k \in Nat, k > 1, NEW s \in Nat, NEW b, NEW p,
         PassQueued(k, s, b, p), PassDone(k, s, b, p)
  PROVE  PassDone(k - 1, s, b, p)'
<1>1. /\ stream[1].op = "load" /\ 1 \in DOMAIN stream /\ loaded' = stream[1].rows
      /\ UNCHANGED <<inputs, tables, logits, tokens>>
  BY MovesUp DEF DeviceLoads, Takes, Device
<1>2. /\ k # 2 /\ k # 6 /\ k # 7
      /\ Kind(b) = "graph" => k # 3 /\ k # 4 /\ k # 5
      /\ Kind(b) = "eager" => k # 3 /\ k # 5
      /\ Kind(b) = "eager" /\ k = 4 => loaded' = RowsFor(b, s, p)
  BY <1>1, HeadOfPass
<1>3. k = 4 \/ k > 7
  BY <1>2 DEF Kind
<1>4. Kind(b) = "graph" => GraphDone(k - 1, s, b, p)'
  BY <1>2, <1>3 DEF GraphDone
<1>5. ASSUME Kind(b) = "eager"
      PROVE  EagerDone(k - 1, s, b, p)'
  <2>1. CASE k > 7
    BY <2>1 DEF EagerDone
  <2>2. CASE k = 4
    <3>1. loaded' = RowsFor(b, s, p)
      BY <1>2, <1>5, <2>2
    <3>2. HostHas(loaded, b, s, p)'
      BY <3>1 DEF HostHas
    <3>3. DOMAIN loaded' = DOMAIN b
      BY <3>1 DEF RowsFor
    <3>4. tables["eager"] = TablesFor(b, s)
      BY <1>5, <2>2 DEF PassDone, EagerDone
    <3> QED  BY <1>1, <2>2, <3>2, <3>3, <3>4 DEF EagerDone
  <2> QED  BY <1>3, <2>1, <2>2
<1>6. PrevDone(k - 1, s, p)'
  BY <1>1, <1>3 DEF PassDone, PrevDone
<1> QED  BY <1>4, <1>5, <1>6 DEF PassDone

\* A placeholder is filled with the token that the pass before sampled for the same request.
LEMMA FilledRows ==
  ASSUME NEW b \in Batches, NEW p \in Befores, NEW s \in Nat, NEW q, DOMAIN b \subseteq DOMAIN q,
         HostHas(q, b, s, p), \A i \in DOMAIN p : tokens[i] = [req |-> p[i], step |-> s - 1]
  PROVE  /\ DeviceHas(Filled(q, FillFrom(b, p)), b, s, p)
         /\ DOMAIN Filled(q, FillFrom(b, p)) = DOMAIN q
         /\ \A i \in DOMAIN q : i \notin DOMAIN b => Filled(q, FillFrom(b, p))[i] = q[i]
<1> DEFINE f == Filled(q, FillFrom(b, p))
<1>1. DOMAIN f = DOMAIN q
  BY DEF Filled
<1>2. DOMAIN FillFrom(b, p) = {j \in DOMAIN b : b[j] \in Range(p)}
  BY DEF FillFrom
<1>3. ASSUME NEW i \in DOMAIN q, i \notin DOMAIN b PROVE f[i] = q[i]
  BY <1>2, <1>3 DEF Filled
<1>4. ASSUME NEW i \in DOMAIN b
      PROVE  f[i] = [req |-> b[i], step |-> s,
                     id |-> IF b[i] \in Range(p) THEN [req |-> b[i], step |-> s - 1] ELSE HOST]
  <2>1. i \in DOMAIN q /\ q[i] = RowsFor(b, s, p)[i]
    BY <1>4 DEF HostHas
  <2>2. CASE b[i] \in Range(p)
    <3>1. PICK m \in DOMAIN p : p[m] = b[i]
      BY <2>2 DEF Range
    <3>2. FillFrom(b, p)[i] = CHOOSE m1 \in DOMAIN p : p[m1] = b[i]
      BY <2>2 DEF FillFrom
    <3>3. FillFrom(b, p)[i] \in DOMAIN p /\ p[FillFrom(b, p)[i]] = b[i]
      BY <3>1, <3>2
    <3>4. tokens[FillFrom(b, p)[i]] = [req |-> b[i], step |-> s - 1]
      BY <3>3
    <3>5. f[i] = [q[i] EXCEPT !.id = [req |-> b[i], step |-> s - 1]]
      BY <1>2, <2>1, <2>2, <3>4 DEF Filled
    <3>6. q[i] = [req |-> b[i], step |-> s, id |-> HOLE]
      BY <2>1, <2>2 DEF RowsFor
    <3> QED  BY <2>2, <3>5, <3>6
  <2>3. CASE b[i] \notin Range(p)
    <3>1. f[i] = q[i]
      BY <1>2, <2>1, <2>3 DEF Filled
    <3> QED  BY <2>1, <2>3, <3>1 DEF RowsFor
  <2> QED  BY <2>2, <2>3
<1> QED  BY <1>1, <1>3, <1>4 DEF DeviceHas

\* The placeholders of a pass are filled when the tokens of the pass before are there.
LEMMA FillsDone ==
  ASSUME IInv, Buffers, DeviceFills, NEW k \in Nat, k > 1, NEW s \in Nat, NEW b \in Batches,
         NEW p \in Befores, PassQueued(k, s, b, p), PassDone(k, s, b, p)
  PROVE  PassDone(k - 1, s, b, p)'
<1>1. /\ stream[1].op = "fill" /\ 1 \in DOMAIN stream
      /\ IF stream[1].kind = "graph"
         THEN inputs' = Filled(inputs, stream[1].rows) /\ UNCHANGED loaded
         ELSE loaded' = Filled(loaded, stream[1].rows) /\ UNCHANGED inputs
      /\ UNCHANGED <<tables, logits, tokens>>
  BY MovesUp DEF DeviceFills, Takes, Device
<1>2. /\ k # 2 /\ k # 6 /\ k # 7
      /\ Kind(b) = "graph" => k # 3 /\ k # 5
      /\ Kind(b) = "graph" /\ k = 4 => inputs' = Filled(inputs, FillFrom(b, p))
      /\ Kind(b) = "eager" => k # 4 /\ k # 5
      /\ Kind(b) = "eager" /\ k = 3 => loaded' = Filled(loaded, FillFrom(b, p))
  BY <1>1, HeadOfPass
<1>3. k = 3 \/ k = 4 \/ k > 7
  BY <1>2 DEF Kind
<1>4. k <= 4 => \A i \in DOMAIN p : tokens[i] = [req |-> p[i], step |-> s - 1]
  BY DEF PassDone, PrevDone
<1>5. Len(b) \in Nat \ {0} /\ DOMAIN b = 1 .. Len(b)
  BY PadRowsNat
<1>6. ASSUME Kind(b) = "graph"
      PROVE  GraphDone(k - 1, s, b, p)'
  <2>1. CASE k > 7
    BY <2>1 DEF GraphDone
  <2>2. CASE k = 4
    <3>1. HostHas(inputs, b, s, p) /\ PadsHas(inputs, b)
      BY <1>6, <2>2 DEF PassDone, GraphDone
    <3>2. DOMAIN inputs = 1 .. MaxBs /\ MaxBs \in Nat /\ Len(b) <= MaxBs
      BY <1>6, ReplayAssumption DEF Buffers, Kind
    <3>3. DOMAIN b \subseteq DOMAIN inputs
      BY <1>5, <3>2
    <3>4. inputs' = Filled(inputs, FillFrom(b, p))
      BY <1>2, <1>6, <2>2
    <3>5. \A i \in DOMAIN p : tokens[i] = [req |-> p[i], step |-> s - 1]
      BY <1>4, <2>2
    <3> DEFINE f == Filled(inputs, FillFrom(b, p))
    <3>6. /\ DeviceHas(f, b, s, p)
          /\ \A i \in DOMAIN inputs : i \notin DOMAIN b => f[i] = inputs[i]
      BY <3>1, <3>3, <3>5, FilledRows
    <3> HIDE DEF f
    <3>7. PadsHas(f, b)
      BY <1>6, <3>1, <3>2, <3>6, BucketFits DEF PadsHas
    <3>8. inputs' = f
      BY <3>4 DEF f
    <3>9. DeviceHas(inputs, b, s, p)' /\ PadsHas(inputs, b)'
      BY <3>6, <3>7, <3>8 DEF DeviceHas, PadsHas
    <3> QED  BY <2>2, <3>9 DEF GraphDone
  <2> QED  BY <1>2, <1>3, <1>6, <2>1, <2>2
<1>7. ASSUME Kind(b) = "eager"
      PROVE  EagerDone(k - 1, s, b, p)'
  <2>1. CASE k > 7
    BY <2>1 DEF EagerDone
  <2>2. CASE k = 3
    <3>1. HostHas(loaded, b, s, p) /\ DOMAIN loaded = DOMAIN b /\ tables["eager"] = TablesFor(b, s)
      BY <1>7, <2>2 DEF PassDone, EagerDone
    <3>2. loaded' = Filled(loaded, FillFrom(b, p))
      BY <1>2, <1>7, <2>2
    <3>3. DeviceHas(loaded', b, s, p) /\ DOMAIN loaded' = DOMAIN b
      BY <1>4, <2>2, <3>1, <3>2, FilledRows
    <3> QED  BY <1>1, <2>2, <3>1, <3>3 DEF EagerDone, DeviceHas
  <2> QED  BY <1>2, <1>3, <1>7, <2>1, <2>2
<1>8. PrevDone(k - 1, s, p)'
  BY <1>1, <1>3 DEF PassDone, PrevDone
<1> QED  BY <1>6, <1>7, <1>8 DEF PassDone

\* The block tables of a pass arrive, where only a pass of its kind reads.
LEMMA PlansDone ==
  ASSUME IInv, Buffers, DevicePlans, NEW k \in Nat, k > 1, NEW s \in Nat, NEW b, NEW p,
         PassQueued(k, s, b, p), PassDone(k, s, b, p)
  PROVE  PassDone(k - 1, s, b, p)'
<1>1. /\ stream[1].op = "plan" /\ 1 \in DOMAIN stream
      /\ tables' = [tables EXCEPT ![stream[1].kind] = packed[stream[1].kind]]
      /\ UNCHANGED <<inputs, loaded, logits, tokens>>
  BY MovesUp DEF DevicePlans, Takes, Device
<1>2. /\ k # 2 /\ k # 6 /\ k # 7
      /\ Kind(b) = "graph" => k # 4 /\ k # 5 /\ (k = 3 => stream[1].kind = "graph")
      /\ Kind(b) = "eager" => k # 3 /\ k # 4 /\ (k = 5 => stream[1].kind = "eager")
  BY <1>1, HeadOfPass
<1>3. k = 3 \/ k = 5 \/ k > 7
  BY <1>2 DEF Kind
<1>4. ASSUME Kind(b) = "graph"
      PROVE  GraphDone(k - 1, s, b, p)'
  <2>1. CASE k > 7
    BY <2>1 DEF GraphDone
  <2>2. CASE k = 3
    <3>1. DeviceHas(inputs, b, s, p) /\ PadsHas(inputs, b)
      BY <1>4, <2>2 DEF PassDone, GraphDone
    <3>2. packed["graph"] = TablesFor(b, s)
      BY <1>1, <1>4, <2>2 DEF PassQueued, GraphQueued
    <3>3. tables'["graph"] = TablesFor(b, s)
      BY <1>1, <1>2, <1>4, <2>2, <3>2 DEF Buffers, Kinds
    <3> QED  BY <1>1, <2>2, <3>1, <3>3 DEF GraphDone, DeviceHas, PadsHas
  <2> QED  BY <1>2, <1>3, <1>4, <2>1, <2>2
<1>5. ASSUME Kind(b) = "eager"
      PROVE  EagerDone(k - 1, s, b, p)'
  <2>1. CASE k > 7
    BY <2>1 DEF EagerDone
  <2>2. CASE k = 5
    <3>1. packed["eager"] = TablesFor(b, s)
      BY <1>1, <1>5, <2>2 DEF PassQueued, EagerQueued
    <3>2. tables'["eager"] = TablesFor(b, s)
      BY <1>1, <1>2, <1>5, <2>2, <3>1 DEF Buffers, Kinds
    <3> QED  BY <2>2, <3>2 DEF EagerDone
  <2> QED  BY <1>2, <1>3, <1>5, <2>1, <2>2
<1>6. PrevDone(k - 1, s, p)'
  BY <1>1, <1>3 DEF PassDone, PrevDone
<1> QED  BY <1>4, <1>5, <1>6 DEF PassDone

\* Passing the event changes nothing on the device.
LEMMA EventDone ==
  ASSUME IInv, DevicePassesEvent, NEW k \in Nat, k > 1, NEW s \in Nat, NEW b, NEW p,
         PassQueued(k, s, b, p), PassDone(k, s, b, p)
  PROVE  PassDone(k - 1, s, b, p)'
<1>1. stream[1].op = "event" /\ 1 \in DOMAIN stream /\ UNCHANGED <<inputs, loaded, tables, logits, tokens>>
  BY MovesUp DEF DevicePassesEvent, Takes, Device, device
<1>2. /\ k # 6 /\ k # 7
      /\ Kind(b) = "graph" => k # 3 /\ k # 4 /\ k # 5
      /\ Kind(b) = "eager" => k # 3 /\ k # 4 /\ k # 5
  BY <1>1, HeadOfPass
<1>3. k = 2 \/ k > 7
  BY <1>2 DEF Kind
<1>4. Kind(b) = "graph" => GraphDone(k - 1, s, b, p)'
  BY <1>1, <1>3 DEF PassDone, GraphDone, DeviceHas, PadsHas
<1>5. Kind(b) = "eager" => EagerDone(k - 1, s, b, p)'
  BY <1>1, <1>3 DEF PassDone, EagerDone, DeviceHas
<1>6. PrevDone(k - 1, s, p)'
  BY <1>1, <1>3 DEF PassDone, PrevDone
<1> QED  BY <1>4, <1>5, <1>6 DEF PassDone

\* The pass that the device runs: its run is first in the stream, and what it reads is its own.
LEMMA RunsOwn ==
  ASSUME IInv, QueuedPasses, Buffers, DeviceRuns
  PROVE  \E s \in Nat, b \in Batches, p \in Befores :
           /\ stream[1].step = s /\ stream[1].batch = b
           /\ ran' = [step |-> s, batch |-> b, prev |-> p, rows |-> logits', tables |-> TablesFor(b, s)]
           /\ DeviceHas(logits', b, s, p)
           /\ Kind(b) = "graph" => /\ DOMAIN logits' = 1 .. BucketFor(Buckets, Len(b))
                                   /\ PadsHas(logits', b)
           /\ Kind(b) = "eager" => DOMAIN logits' = DOMAIN b
<1> DEFINE rows(op) == IF op.kind = "graph" THEN SubSeq(inputs, 1, BucketFor(Buckets, Len(op.batch)))
                       ELSE loaded
<1>1. /\ stream[1].op = "run" /\ 1 \in DOMAIN stream
      /\ logits' = rows(stream[1])
      /\ ran' = [step |-> stream[1].step, batch |-> stream[1].batch, prev |-> stream[1].prev,
                 rows |-> rows(stream[1]), tables |-> tables[stream[1].kind]]
  BY MovesUp DEF DeviceRuns, Takes, Device
<1>2. PICK s \in Nat, b \in Batches, p \in Befores :
        stream[1] = RunOf(s, b, p) /\ PassQueued(1, s, b, p) /\ PassDone(1, s, b, p)
  BY <1>1 DEF QueuedPasses
<1>3. /\ stream[1].step = s /\ stream[1].batch = b /\ stream[1].prev = p /\ stream[1].kind = Kind(b)
  BY <1>2 DEF RunOf
<1>4. CASE Kind(b) = "graph"
  <2>1. GraphDone(1, s, b, p)
    BY <1>2, <1>4 DEF PassDone
  <2>2. DeviceHas(inputs, b, s, p) /\ PadsHas(inputs, b) /\ tables["graph"] = TablesFor(b, s)
    BY <2>1 DEF GraphDone
  <2> DEFINE g == BucketFor(Buckets, Len(b))
  <2>3. g \in Len(b) .. MaxBs /\ Len(b) \in Nat \ {0} /\ DOMAIN b = 1 .. Len(b) /\ MaxBs \in Nat
    BY <1>4, BucketFits, PadRowsNat, ReplayAssumption
  <2>4. inputs \in Seq(Range(inputs)) /\ Len(inputs) = MaxBs
    BY <2>3 DEF Buffers
  <2>5. logits' = SubSeq(inputs, 1, g)
    BY <1>1, <1>3, <1>4
  <2> HIDE DEF g
  <2>6. DOMAIN logits' = 1 .. g /\ \A i \in 1 .. g : logits'[i] = inputs[i]
    BY <2>3, <2>4, <2>5
  <2>7. DeviceHas(logits', b, s, p)
    BY <2>2, <2>3, <2>6 DEF DeviceHas
  <2>8. PadsHas(logits', b)
    BY <2>2, <2>6 DEF PadsHas, g
  <2>9. ran' = [step |-> s, batch |-> b, prev |-> p, rows |-> logits', tables |-> TablesFor(b, s)]
    BY <1>1, <1>3, <1>4, <2>2
  <2> QED  BY <1>3, <1>4, <2>6, <2>7, <2>8, <2>9 DEF g
<1>5. CASE Kind(b) = "eager"
  <2>1. EagerDone(1, s, b, p)
    BY <1>2, <1>5 DEF PassDone
  <2>2. DeviceHas(loaded, b, s, p) /\ DOMAIN loaded = DOMAIN b /\ tables["eager"] = TablesFor(b, s)
    BY <2>1 DEF EagerDone
  <2>3. logits' = loaded
    BY <1>1, <1>3, <1>5
  <2>4. ran' = [step |-> s, batch |-> b, prev |-> p, rows |-> logits', tables |-> TablesFor(b, s)]
    BY <1>1, <1>3, <1>5, <2>2
  <2> QED  BY <1>3, <1>5, <2>2, <2>3, <2>4
<1> QED  BY <1>4, <1>5 DEF Kind

\* So the property holds of it.
LEMMA RunsInputs ==
  ASSUME IInv, QueuedPasses, Buffers, DeviceRuns
  PROVE  RunsOnOwnInputs'
<1>1. PICK s \in Nat, b \in Batches, p \in Befores :
           /\ ran' = [step |-> s, batch |-> b, prev |-> p, rows |-> logits', tables |-> TablesFor(b, s)]
           /\ DeviceHas(logits', b, s, p)
           /\ Kind(b) = "graph" => /\ DOMAIN logits' = 1 .. BucketFor(Buckets, Len(b))
                                   /\ PadsHas(logits', b)
           /\ Kind(b) = "eager" => DOMAIN logits' = DOMAIN b
  BY RunsOwn
<1>2. PadRows(b) \in Nat /\ Len(b) \in Nat \ {0} /\ DOMAIN b = 1 .. Len(b)
  BY PadRowsNat
<1>3. \A i \in DOMAIN b : i \in 1 .. Len(b) + PadRows(b)
  BY <1>2
<1>4. \A i \in DOMAIN b : TablesFor(b, s)[i] = [req |-> b[i], step |-> s]
  BY <1>3 DEF TablesFor
<1>5. OwnRows'
  BY <1>1, <1>4 DEF OwnRows, DeviceHas
<1>6. ASSUME NEW i \in DOMAIN logits', i \notin DOMAIN b
      PROVE  logits'[i].req = Dummy /\ i \in DOMAIN TablesFor(b, s) /\ TablesFor(b, s)[i].req = Dummy
  <2>1. Kind(b) = "graph"
    BY <1>1, <1>6 DEF Kind
  <2>2. i \in 1 .. BucketFor(Buckets, Len(b)) /\ logits'[i] = PadRow
    BY <1>1, <1>6, <2>1 DEF PadsHas
  <2>3. BucketFor(Buckets, Len(b)) = Len(b) + PadRows(b)
    BY <1>2, <2>1, BucketFits, ReplayAssumption DEF PadRows
  <2>4. i \in 1 .. Len(b) + PadRows(b)
    BY <2>2, <2>3
  <2> QED  BY <1>6, <2>2, <2>4 DEF TablesFor, PadRow
<1>7. PaddingOnDummy'
  BY <1>1, <1>6 DEF PaddingOnDummy
<1> QED  BY <1>5, <1>7 DEF RunsOnOwnInputs

\* What the next pass finds when the pass before it runs, and when it is sampled from.
LEMMA PrevMoves ==
  ASSUME IInv, QueuedPasses, Buffers, Device, NEW k \in Nat, k > 5, NEW s \in Nat, NEW p \in Befores,
         PrevQueued(k, s, p), PrevDone(k, s, p)
  PROVE  PrevDone(k - 1, s, p)'
<1>1. 1 \in DOMAIN stream /\ Head(stream) = stream[1]
  BY MovesUp
<1>2. CASE k = 6
  <2>1. stream[1].op = "sample" /\ stream[1].n = Len(p)
    BY <1>1, <1>2 DEF PrevQueued, At
  <2>2. tokens' = [i \in 1 .. Len(p) |-> [req |-> logits[i].req, step |-> logits[i].step]]
    BY <1>1, <2>1 DEF Device, DeviceCopies, DeviceLoads, DeviceFills, DevicePlans, DevicePassesEvent,
                      DeviceRuns, DeviceSamples, Takes
  <2>3. DOMAIN p = 1 .. Len(p)
    BY PadRowsNat DEF Befores
  <2>4. \A i \in DOMAIN p : logits[i].req = p[i] /\ logits[i].step = s - 1
    BY <1>2 DEF PrevDone
  <2>5. \A i \in DOMAIN p : tokens'[i] = [req |-> p[i], step |-> s - 1]
    BY <2>2, <2>3, <2>4
  <2> QED  BY <1>2, <2>5 DEF PrevDone
<1>3. CASE k = 7
  <2>1. stream[1].op = "run" /\ stream[1].step = s - 1 /\ stream[1].batch = p
    BY <1>1, <1>3 DEF PrevQueued
  <2>2. DeviceRuns
    BY <1>1, <2>1 DEF Device, DeviceCopies, DeviceLoads, DeviceFills, DevicePlans, DevicePassesEvent,
                      DeviceRuns, DeviceSamples, Takes
  <2>3. PICK s1 \in Nat, b1 \in Batches, p1 \in Befores :
          stream[1].step = s1 /\ stream[1].batch = b1 /\ DeviceHas(logits', b1, s1, p1)
    BY <2>2, RunsOwn
  <2>4. ASSUME NEW i \in DOMAIN p
        PROVE  logits'[i].req = p[i] /\ logits'[i].step = s - 1
    <3>1. b1 = p /\ s1 = s - 1
      BY <2>1, <2>3
    <3>2. \E x : logits'[i] = [req |-> b1[i], step |-> s1, id |-> x]
      BY <2>3, <2>4, <3>1 DEF DeviceHas
    <3> QED  BY <3>1, <3>2
  <2> QED  BY <1>3, <2>4 DEF PrevDone
<1>4. CASE k > 7
  BY <1>4 DEF PrevDone
<1> QED  BY <1>2, <1>3, <1>4

\* Running and sampling overwrite nothing that a pass before its run depends on.
LEMMA RunsSamplesDone ==
  ASSUME IInv, QueuedPasses, Buffers, DeviceRuns \/ DeviceSamples,
         NEW k \in Nat, k > 1, NEW s \in Nat, NEW b \in Batches, NEW p \in Befores,
         PassQueued(k, s, b, p), PassDone(k, s, b, p)
  PROVE  PassDone(k - 1, s, b, p)'
<1>1. /\ stream[1].op \in {"run", "sample"} /\ 1 \in DOMAIN stream /\ UNCHANGED <<inputs, loaded, tables>>
  BY MovesUp DEF DeviceRuns, DeviceSamples, Takes, Device
<1>2. /\ k # 2
      /\ Kind(b) = "graph" => k # 3 /\ k # 4 /\ k # 5
      /\ Kind(b) = "eager" => k # 3 /\ k # 4 /\ k # 5
  BY <1>1, HeadOfPass
<1>3. k > 5
  BY <1>2 DEF Kind
<1>4. GraphDone(k - 1, s, b, p)' /\ EagerDone(k - 1, s, b, p)'
  BY <1>3 DEF GraphDone, EagerDone
<1>5. PrevDone(k - 1, s, p)'
  BY <1>3, PrevMoves DEF PassQueued, PassDone, Device
<1> QED  BY <1>4, <1>5 DEF PassDone

\* Whatever the device takes: every pass is one place nearer to its run and still right.
LEMMA DevicePass ==
  ASSUME IInv, QueuedPasses, Buffers, Device,
         NEW k \in Nat, k > 1, NEW s \in Nat, NEW b \in Batches, NEW p \in Befores,
         PassQueued(k, s, b, p), PassDone(k, s, b, p)
  PROVE  PassQueued(k - 1, s, b, p)' /\ PassDone(k - 1, s, b, p)'
<1>1. PassQueued(k - 1, s, b, p)'
  BY MovesUpQueued
<1>2. PassDone(k - 1, s, b, p)'
  BY CopiesDone, LoadsDone, FillsDone, PlansDone, EventDone, RunsSamplesDone DEF Device
<1> QED  BY <1>1, <1>2

\* A step of the device preserves all of it.
LEMMA DevicePInv ==
  ASSUME IInv, PInv, Device
  PROVE  PInv'
<1> USE DEF PInv
<1>1. /\ Len(stream) \in Nat /\ Len(stream)' = Len(stream) - 1
      /\ \A j \in Int : j - 1 \in DOMAIN stream' => j \in DOMAIN stream /\ stream'[j - 1] = stream[j]
      /\ UNCHANGED <<pc, step, batch, prev, fence, staging, packed>>
      /\ 1 \in DOMAIN stream /\ DOMAIN stream = 1 .. Len(stream) /\ DOMAIN stream' = 1 .. Len(stream')
  BY MovesUp, DeviceIInv DEF IInv, InOrder
<1>2. Left \in 0 .. 4 /\ Left' = Left /\ (pc = "idle" => Left = 4)
  BY <1>1 DEF Left, Kind
<1>3. RunAt \in Nat /\ RunAt > 1 /\ RunAt' = RunAt - 1 /\ (pc = "idle" => RunAt > 5)
  BY <1>1, <1>2 DEF RunAt
<1>4. QueuedPasses'
  <2> SUFFICES ASSUME NEW j \in DOMAIN stream', stream'[j].op = "run"
               PROVE  \E s \in Nat, b \in Batches, p \in Befores :
                        stream'[j] = RunOf(s, b, p) /\ PassQueued(j, s, b, p)' /\ PassDone(j, s, b, p)'
    BY DEF QueuedPasses
  <2> DEFINE k == j + 1
  <2>1. k \in Nat /\ k > 1 /\ k - 1 = j
    BY <1>1
  <2>2. k \in DOMAIN stream /\ stream'[j] = stream[k]
    BY <1>1, <2>1
  <2> HIDE DEF k
  <2>3. PICK s \in Nat, b \in Batches, p \in Befores :
          stream[k] = RunOf(s, b, p) /\ PassQueued(k, s, b, p) /\ PassDone(k, s, b, p)
    BY <2>2 DEF QueuedPasses
  <2>4. PassQueued(k - 1, s, b, p)' /\ PassDone(k - 1, s, b, p)'
    BY <2>1, <2>3, DevicePass
  <2>5. PassQueued(j, s, b, p)' /\ PassDone(j, s, b, p)'
    BY <2>1, <2>4
  <2> QED  BY <2>2, <2>3, <2>5
<1>5. PassInPreparation'
  <2> SUFFICES ASSUME pc # "idle"
               PROVE  \E k \in Nat, s \in Nat, b \in Batches, p \in Befores :
                        /\ k = RunAt' /\ s = step' /\ b = batch' /\ p = prev'
                        /\ PassQueued(k, s, b, p)' /\ PassDone(k, s, b, p)'
                        /\ pc' = "copy" => HostHas(staging', b, s, p) /\ PadsHas(staging', b)
                        /\ pc' = "plan" => packed'[Kind(b)] = TablesFor(b, s)
    BY <1>1 DEF PassInPreparation
  <2>1. PICK k \in Nat, s \in Nat, b \in Batches, p \in Befores :
          /\ k = RunAt /\ s = step /\ b = batch /\ p = prev
          /\ PassQueued(k, s, b, p) /\ PassDone(k, s, b, p)
          /\ pc = "copy" => HostHas(staging, b, s, p) /\ PadsHas(staging, b)
          /\ pc = "plan" => packed[Kind(b)] = TablesFor(b, s)
    BY DEF PassInPreparation
  <2>2. PassQueued(k - 1, s, b, p)' /\ PassDone(k - 1, s, b, p)'
    BY <1>3, <2>1, DevicePass
  <2>3. k - 1 \in Nat /\ k - 1 = RunAt'
    BY <1>3, <2>1
  <2> QED  BY <1>1, <2>1, <2>2, <2>3
<1>6. NextPass'
  <2> SUFFICES ASSUME pc = "idle"
               PROVE  \E k \in Nat, s \in Nat, p \in Befores :
                        k = RunAt' /\ s = step' /\ p = prev' /\ PrevQueued(k, s, p)' /\ PrevDone(k, s, p)'
    BY <1>1 DEF NextPass
  <2>1. PICK k \in Nat, s \in Nat, p \in Befores :
          k = RunAt /\ s = step /\ p = prev /\ PrevQueued(k, s, p) /\ PrevDone(k, s, p)
    BY DEF NextPass
  <2>2. PrevQueued(k - 1, s, p)' /\ PrevDone(k - 1, s, p)'
    BY <1>3, <2>1, MovesUpQueued, PrevMoves
  <2>3. k - 1 \in Nat /\ k - 1 = RunAt'
    BY <1>3, <2>1
  <2> QED  BY <1>1, <2>1, <2>2, <2>3
<1>7. Buffers'
  <2>1. DOMAIN tables' = Kinds
    BY DEF Device, DeviceCopies, DeviceLoads, DeviceFills, DevicePlans, DevicePassesEvent, DeviceRuns,
           DeviceSamples, device, Buffers
  <2>2. \/ inputs' = inputs \/ inputs' = staging
        \/ \E from : inputs' = Filled(inputs, from)
    BY DEF Device, DeviceCopies, DeviceLoads, DeviceFills, DevicePlans, DevicePassesEvent, DeviceRuns,
           DeviceSamples, device
  <2>3. inputs' \in [1 .. MaxBs -> Range(inputs')]
    <3>1. CASE inputs' = inputs
      BY <3>1 DEF Buffers
    <3>2. CASE inputs' = staging
      BY <3>2 DEF Buffers
    <3>3. ASSUME NEW from, inputs' = Filled(inputs, from) PROVE inputs' \in [1 .. MaxBs -> Range(inputs')]
      <4>1. DOMAIN inputs = 1 .. MaxBs
        BY DEF Buffers
      <4> DEFINE row(i) == IF i \in DOMAIN from THEN [inputs[i] EXCEPT !.id = tokens[from[i]]]
                           ELSE inputs[i]
      <4>2. inputs' = [i \in 1 .. MaxBs |-> row(i)]
        BY <3>3, <4>1 DEF Filled
      <4> HIDE DEF row
      <4> QED  BY <4>2 DEF Range
    <3> QED  BY <2>2, <3>1, <3>2, <3>3
  <2> QED  BY <1>1, <2>1, <2>3 DEF Buffers
<1>8. RunsOnOwnInputs'
  <2>1. CASE DeviceRuns
    BY <2>1, RunsInputs
  <2>2. CASE ~ DeviceRuns
    <3>1. ran' = ran
      BY <2>2 DEF Device, DeviceCopies, DeviceLoads, DeviceFills, DevicePlans, DevicePassesEvent,
                  DeviceSamples, device
    <3> QED  BY <3>1 DEF RunsOnOwnInputs, OwnRows, PaddingOnDummy
  <2> QED  BY <2>1, <2>2
<1> QED  BY <1>4, <1>5, <1>6, <1>7, <1>8

\* The host leaves alone what the device has done.
LEMMA DoneKept ==
  ASSUME UNCHANGED device, NEW k, NEW s, NEW b, NEW p
  PROVE  /\ PassDone(k, s, b, p) => PassDone(k, s, b, p)'
         /\ PrevDone(k, s, p) => PrevDone(k, s, p)'
<1>1. UNCHANGED <<inputs, loaded, tables, logits, tokens>>
  BY DEF device
<1>2. PrevDone(k, s, p) => PrevDone(k, s, p)'
  BY <1>1 DEF PrevDone
<1>3. GraphDone(k, s, b, p) => GraphDone(k, s, b, p)'
  BY <1>1 DEF GraphDone, HostHas, DeviceHas, PadsHas
<1>4. EagerDone(k, s, b, p) => EagerDone(k, s, b, p)'
  BY <1>1 DEF EagerDone, HostHas, DeviceHas
<1> QED  BY <1>2, <1>3, <1>4 DEF PassDone

\* A pass stays as it is when the host queues something behind it, or writes a pinned buffer out
\* of which no copy is queued.
LEMMA QueuedKept ==
  ASSUME NEW k \in Nat, NEW s, NEW b, NEW p,
         \A n \in 1 .. 6 : k - n \in DOMAIN stream' =>
           k - n \in DOMAIN stream /\ stream'[k - n] = stream[k - n],
         staging' = staging \/ NoneQueued("copy"), packed' = packed \/ NoneQueued("plan")
  PROVE  /\ PassQueued(k, s, b, p) => PassQueued(k, s, b, p)'
         /\ PrevQueued(k, s, p) => PrevQueued(k, s, p)'
<1>1. ASSUME NEW n \in 1 .. 6, NEW op, At(k - n, op)
      PROVE  At(k - n, op)'
  BY <1>1 DEF At
<1>2. PrevQueued(k, s, p) => PrevQueued(k, s, p)'
  BY <1>1 DEF PrevQueued
<1>3. GraphQueued(k, s, b, p) => GraphQueued(k, s, b, p)'
  <2> SUFFICES ASSUME GraphQueued(k, s, b, p) PROVE GraphQueued(k, s, b, p)'
    OBVIOUS
  <2>1. /\ At(k - 4, [op |-> "copy", step |-> s])'
        /\ At(k - 3, [op |-> "fill", kind |-> "graph", rows |-> FillFrom(b, p)])'
        /\ At(k - 2, [op |-> "plan", step |-> s, kind |-> "graph"])'
    BY <1>1 DEF GraphQueued
  <2>2. k - 4 \in DOMAIN stream' => (HostHas(staging, b, s, p) /\ PadsHas(staging, b))'
    <3> SUFFICES ASSUME k - 4 \in DOMAIN stream' PROVE (HostHas(staging, b, s, p) /\ PadsHas(staging, b))'
      OBVIOUS
    <3>1. k - 4 \in DOMAIN stream /\ stream[k - 4].op = "copy"
      BY DEF GraphQueued, At
    <3>2. staging' = staging
      BY <3>1 DEF NoneQueued
    <3> QED  BY <3>1, <3>2 DEF GraphQueued, HostHas, PadsHas
  <2>3. k - 2 \in DOMAIN stream' => packed'["graph"] = TablesFor(b, s)
    <3> SUFFICES ASSUME k - 2 \in DOMAIN stream' PROVE packed'["graph"] = TablesFor(b, s)
      OBVIOUS
    <3>1. k - 2 \in DOMAIN stream /\ stream[k - 2].op = "plan"
      BY DEF GraphQueued, At
    <3> QED  BY <3>1 DEF GraphQueued, NoneQueued
  <2> QED  BY <2>1, <2>2, <2>3 DEF GraphQueued
<1>4. EagerQueued(k, s, b, p) => EagerQueued(k, s, b, p)'
  <2> SUFFICES ASSUME EagerQueued(k, s, b, p) PROVE EagerQueued(k, s, b, p)'
    OBVIOUS
  <2>1. /\ At(k - 4, [op |-> "plan", step |-> s, kind |-> "eager"])'
        /\ At(k - 3, [op |-> "load", step |-> s, rows |-> RowsFor(b, s, p)])'
        /\ At(k - 2, [op |-> "fill", kind |-> "eager", rows |-> FillFrom(b, p)])'
    BY <1>1 DEF EagerQueued
  <2>2. k - 4 \in DOMAIN stream' => packed'["eager"] = TablesFor(b, s)
    <3> SUFFICES ASSUME k - 4 \in DOMAIN stream' PROVE packed'["eager"] = TablesFor(b, s)
      OBVIOUS
    <3>1. k - 4 \in DOMAIN stream /\ stream[k - 4].op = "plan"
      BY DEF EagerQueued, At
    <3> QED  BY <3>1 DEF EagerQueued, NoneQueued
  <2> QED  BY <2>1, <2>2 DEF EagerQueued
<1>5. At(k - 1, [op |-> "event", step |-> s]) => At(k - 1, [op |-> "event", step |-> s])'
  BY <1>1
<1> QED  BY <1>2, <1>3, <1>4, <1>5 DEF PassQueued

\* What the host does to the passes that are queued already: nothing.
LEMMA QueuedPassesKept ==
  ASSUME InOrder, InOrder', UNCHANGED device, QueuedPasses,
         \A k \in DOMAIN stream : k \in DOMAIN stream' /\ stream'[k] = stream[k],
         staging' = staging \/ NoneQueued("copy"), packed' = packed \/ NoneQueued("plan"),
         NEW k \in DOMAIN stream, stream[k].op = "run"
  PROVE  \E s \in Nat, b \in Batches, p \in Befores :
           stream'[k] = RunOf(s, b, p) /\ PassQueued(k, s, b, p)' /\ PassDone(k, s, b, p)'
<1>1. PICK s \in Nat, b \in Batches, p \in Befores :
        stream[k] = RunOf(s, b, p) /\ PassQueued(k, s, b, p) /\ PassDone(k, s, b, p)
  BY DEF QueuedPasses
<1>2. /\ Len(stream) \in Nat /\ DOMAIN stream = 1 .. Len(stream)
      /\ Len(stream') \in Nat /\ DOMAIN stream' = 1 .. Len(stream')
  BY DEF InOrder
<1>3. k \in Nat /\ \A n \in 1 .. 6 : k - n \in DOMAIN stream' =>
                     k - n \in DOMAIN stream /\ stream'[k - n] = stream[k - n]
  BY <1>2
<1>4. PassQueued(k, s, b, p)'
  BY <1>1, <1>3, QueuedKept
<1>5. PassDone(k, s, b, p)'
  BY <1>1, DoneKept
<1> QED  BY <1>1, <1>4, <1>5

\* The n-th operation before the run of a pass.
OpBefore(n, s, b, p) ==
  IF n = 1 THEN [op |-> "event", step |-> s]
  ELSE IF Kind(b) = "graph"
  THEN IF n = 2 THEN [op |-> "plan", step |-> s, kind |-> "graph"]
       ELSE IF n = 3 THEN [op |-> "fill", kind |-> "graph", rows |-> FillFrom(b, p)]
       ELSE [op |-> "copy", step |-> s]
  ELSE IF n = 2 THEN [op |-> "fill", kind |-> "eager", rows |-> FillFrom(b, p)]
       ELSE IF n = 3 THEN [op |-> "load", step |-> s, rows |-> RowsFor(b, s, p)]
       ELSE [op |-> "plan", step |-> s, kind |-> "eager"]

\* The next operation of the pass in preparation is queued, and its buffer is written.
LEMMA OneMore ==
  ASSUME IInv, NEW k \in Nat, NEW s, NEW b, NEW p, NEW n \in 1 .. 4, k - n = Len(stream) + 1,
         stream' = Append(stream, OpBefore(n, s, b, p)), UNCHANGED <<staging, packed>>,
         Kind(b) = "graph" /\ n = 4 => HostHas(staging, b, s, p) /\ PadsHas(staging, b),
         Kind(b) = "graph" /\ n = 2 => packed["graph"] = TablesFor(b, s),
         Kind(b) = "eager" /\ n = 4 => packed["eager"] = TablesFor(b, s),
         PassQueued(k, s, b, p)
  PROVE  PassQueued(k, s, b, p)'
<1> DEFINE op == OpBefore(n, s, b, p)
<1>1. /\ Len(stream) \in Nat /\ DOMAIN stream = 1 .. Len(stream)
      /\ DOMAIN stream' = 1 .. Len(stream) + 1
      /\ \A i \in 1 .. Len(stream) : stream'[i] = stream[i]
      /\ stream'[Len(stream) + 1] = op
  BY Queued DEF IInv, InOrder
<1> HIDE DEF op
<1>2. ASSUME NEW m \in 1 .. 6, k - m \in DOMAIN stream', m # n
      PROVE  k - m \in DOMAIN stream /\ stream'[k - m] = stream[k - m]
  BY <1>1, <1>2
<1>3. ASSUME NEW m \in 1 .. 6, NEW o, At(k - m, o), m = n => o = op
      PROVE  At(k - m, o)'
  <2>1. CASE m = n
    BY <1>1, <1>3, <2>1 DEF At
  <2>2. CASE m # n
    BY <1>2, <1>3, <2>2 DEF At
  <2> QED  BY <2>1, <2>2
<1>4. At(k - 1, [op |-> "event", step |-> s])'
  BY <1>3 DEF PassQueued, op, OpBefore
<1>5. ASSUME Kind(b) = "graph" PROVE GraphQueued(k, s, b, p)'
  <2>1. GraphQueued(k, s, b, p)
    BY <1>5 DEF PassQueued
  <2>2. At(k - 4, [op |-> "copy", step |-> s])'
    BY <1>3, <1>5, <2>1 DEF GraphQueued, op, OpBefore
  <2>3. At(k - 3, [op |-> "fill", kind |-> "graph", rows |-> FillFrom(b, p)])'
    BY <1>3, <1>5, <2>1 DEF GraphQueued, op, OpBefore
  <2>4. At(k - 2, [op |-> "plan", step |-> s, kind |-> "graph"])'
    BY <1>3, <1>5, <2>1 DEF GraphQueued, op, OpBefore
  <2>5. k - 4 \in DOMAIN stream' => HostHas(staging, b, s, p) /\ PadsHas(staging, b)
    BY <1>2, <1>5, <2>1 DEF GraphQueued
  <2>6. k - 4 \in DOMAIN stream' => (HostHas(staging, b, s, p) /\ PadsHas(staging, b))'
    BY <2>5 DEF HostHas, PadsHas
  <2>7. k - 2 \in DOMAIN stream' => packed'["graph"] = TablesFor(b, s)
    BY <1>2, <1>5, <2>1 DEF GraphQueued
  <2> QED  BY <2>2, <2>3, <2>4, <2>6, <2>7 DEF GraphQueued
<1>6. ASSUME Kind(b) = "eager" PROVE EagerQueued(k, s, b, p)'
  <2>1. EagerQueued(k, s, b, p)
    BY <1>6 DEF PassQueued
  <2>2. At(k - 4, [op |-> "plan", step |-> s, kind |-> "eager"])'
    BY <1>3, <1>6, <2>1 DEF EagerQueued, op, OpBefore
  <2>3. At(k - 3, [op |-> "load", step |-> s, rows |-> RowsFor(b, s, p)])'
    BY <1>3, <1>6, <2>1 DEF EagerQueued, op, OpBefore
  <2>4. At(k - 2, [op |-> "fill", kind |-> "eager", rows |-> FillFrom(b, p)])'
    BY <1>3, <1>6, <2>1 DEF EagerQueued, op, OpBefore
  <2>5. k - 4 \in DOMAIN stream' => packed'["eager"] = TablesFor(b, s)
    BY <1>2, <1>6, <2>1 DEF EagerQueued
  <2> QED  BY <2>2, <2>3, <2>4, <2>5 DEF EagerQueued
<1>7. PrevQueued(k, s, p)'
  BY <1>2, <1>3 DEF PassQueued, PrevQueued
<1> QED  BY <1>4, <1>5, <1>6, <1>7 DEF PassQueued

\* A step of the host that queues the next operation of its pass.
LEMMA QueuesPInv ==
  ASSUME IInv, IInv', PInv, pc # "idle", pc' \notin {"idle", "copy", "plan"},
         NEW n \in 1 .. 4, Left = n, Left' = n - 1,
         stream' = Append(stream, OpBefore(n, step, batch, prev)),
         UNCHANGED <<step, batch, prev, staging, packed>>, UNCHANGED device,
         Kind(batch) = "graph" /\ n = 4 => pc = "copy",
         Kind(batch) = "graph" /\ n = 2 => pc = "plan",
         Kind(batch) = "eager" /\ n = 4 => pc = "plan"
  PROVE  PInv'
<1> DEFINE op == OpBefore(n, step, batch, prev)
<1>1. /\ \A k \in DOMAIN stream' : stream'[k] = op \/ (k \in DOMAIN stream /\ stream'[k] = stream[k])
      /\ \A k \in DOMAIN stream : k \in DOMAIN stream' /\ stream'[k] = stream[k]
  BY QueueFacts
<1>2. op.op # "run"
  BY DEF OpBefore
<1>3. Len(stream) \in Nat /\ Len(stream') = Len(stream) + 1
  BY DEF IInv, InOrder
<1> HIDE DEF op
<1>4. QueuedPasses'
  <2> SUFFICES ASSUME NEW k \in DOMAIN stream', stream'[k].op = "run"
               PROVE  \E s \in Nat, b \in Batches, p \in Befores :
                        stream'[k] = RunOf(s, b, p) /\ PassQueued(k, s, b, p)' /\ PassDone(k, s, b, p)'
    BY DEF QueuedPasses
  <2>1. k \in DOMAIN stream /\ stream[k].op = "run"
    BY <1>1, <1>2
  <2> QED  BY <1>1, <2>1, QueuedPassesKept DEF IInv, PInv
<1>5. PICK k \in Nat, s \in Nat, b \in Batches, p \in Befores :
        /\ k = RunAt /\ s = step /\ b = batch /\ p = prev
        /\ PassQueued(k, s, b, p) /\ PassDone(k, s, b, p)
        /\ pc = "copy" => HostHas(staging, b, s, p) /\ PadsHas(staging, b)
        /\ pc = "plan" => packed[Kind(b)] = TablesFor(b, s)
  BY DEF PInv, PassInPreparation
<1>6. k - n = Len(stream) + 1 /\ RunAt' = k
  BY <1>3, <1>5 DEF RunAt
<1>7. PassQueued(k, s, b, p)'
  BY <1>5, <1>6, OneMore
<1>8. PassDone(k, s, b, p)'
  BY <1>5, DoneKept
<1>9. PassInPreparation'
  BY <1>5, <1>6, <1>7, <1>8 DEF PassInPreparation
<1>10. NextPass' /\ Buffers' /\ RunsOnOwnInputs'
  BY DEF PInv, NextPass, Buffers, RunsOnOwnInputs, OwnRows, PaddingOnDummy, device
<1> QED  BY <1>4, <1>9, <1>10 DEF PInv

\* The copy of the staging buffer, fourth before the run of a graph.
LEMMA CopyPInv ==
  ASSUME IInv, PInv, Copy
  PROVE  PInv'
<1>1. IInv'
  BY CopyIInv
<1>2. pc = "copy" /\ pc' = "fill" /\ Kind(batch) = "graph" /\ Kind(batch') = "graph"
  BY DEF Copy, IInv, InPass
<1>3. Left = 4 /\ Left' = 3
  BY <1>2 DEF Left
<1>4. stream' = Append(stream, OpBefore(4, step, batch, prev))
  BY <1>2 DEF Copy, Queue, OpBefore
<1>5. UNCHANGED <<step, batch, prev, staging, packed>> /\ UNCHANGED device
  BY DEF Copy
<1> QED  BY <1>1, <1>2, <1>3, <1>4, <1>5, QueuesPInv

\* The inputs of an eager pass, third before its run.
LEMMA LoadPInv ==
  ASSUME IInv, PInv, Load
  PROVE  PInv'
<1>1. IInv'
  BY OtherOpIInv
<1>2. pc = "load" /\ pc' = "fill" /\ Kind(batch) = "eager" /\ Kind(batch') = "eager"
  BY DEF Load, IInv, InPass
<1>3. Left = 3 /\ Left' = 2
  BY <1>2 DEF Left
<1>4. HostRows(batch) = RowsFor(batch, step, prev)
  BY DEF HostRows, RowsFor
<1>5. stream' = Append(stream, OpBefore(3, step, batch, prev))
  BY <1>2, <1>4 DEF Load, Queue, OpBefore
<1>6. UNCHANGED <<step, batch, prev, staging, packed>> /\ UNCHANGED device
  BY DEF Load
<1> QED  BY <1>1, <1>2, <1>3, <1>5, <1>6, QueuesPInv

\* The placeholders: third before the run of a graph, second before that of an eager pass.
LEMMA FillPInv ==
  ASSUME IInv, PInv, Fill
  PROVE  PInv'
<1>1. IInv'
  BY OtherOpIInv
<1>2. /\ pc = "fill" /\ pc' = (IF Kind(batch) = "graph" THEN "pack" ELSE "mark")
      /\ Kind(batch) \in {"graph", "eager"} /\ Kind(batch') = Kind(batch)
  BY DEF Fill, Kind
<1>3. Left = (IF Kind(batch) = "graph" THEN 3 ELSE 2) /\ Left' = (IF Kind(batch) = "graph" THEN 2 ELSE 1)
  BY <1>2 DEF Left
<1>4. FillRows = FillFrom(batch, prev)
  BY DEF FillRows, FillFrom
<1>5. UNCHANGED <<step, batch, prev, staging, packed>> /\ UNCHANGED device
  BY DEF Fill
<1>6. CASE Kind(batch) = "graph"
  <2>1. stream' = Append(stream, OpBefore(3, step, batch, prev))
    BY <1>4, <1>6 DEF Fill, Queue, OpBefore
  <2> QED  BY <1>1, <1>2, <1>3, <1>5, <1>6, <2>1, QueuesPInv
<1>7. CASE Kind(batch) = "eager"
  <2>1. stream' = Append(stream, OpBefore(2, step, batch, prev))
    BY <1>4, <1>7 DEF Fill, Queue, OpBefore
  <2> QED  BY <1>1, <1>2, <1>3, <1>5, <1>7, <2>1, QueuesPInv
<1> QED  BY <1>2, <1>6, <1>7

\* The block tables: second before the run of a graph, fourth before that of an eager pass.
LEMMA PlanPInv ==
  ASSUME IInv, PInv, Plan
  PROVE  PInv'
<1>1. IInv'
  BY PlanIInv
<1>2. /\ pc = "plan" /\ pc' = (IF Kind(batch) = "graph" THEN "mark" ELSE "load")
      /\ Kind(batch) \in {"graph", "eager"} /\ Kind(batch') = Kind(batch)
  BY DEF Plan, Kind
<1>3. Left = (IF Kind(batch) = "graph" THEN 2 ELSE 4) /\ Left' = (IF Kind(batch) = "graph" THEN 1 ELSE 3)
  BY <1>2 DEF Left
<1>4. UNCHANGED <<step, batch, prev, staging, packed>> /\ UNCHANGED device
  BY DEF Plan
<1>5. CASE Kind(batch) = "graph"
  <2>1. stream' = Append(stream, OpBefore(2, step, batch, prev))
    BY <1>5 DEF Plan, Queue, OpBefore
  <2> QED  BY <1>1, <1>2, <1>3, <1>4, <1>5, <2>1, QueuesPInv
<1>6. CASE Kind(batch) = "eager"
  <2>1. stream' = Append(stream, OpBefore(4, step, batch, prev))
    BY <1>6 DEF Plan, Queue, OpBefore
  <2> QED  BY <1>1, <1>2, <1>3, <1>4, <1>6, <2>1, QueuesPInv
<1> QED  BY <1>2, <1>5, <1>6

\* The fence's event, right before the run.
LEMMA MarkPInv ==
  ASSUME IInv, PInv, Mark
  PROVE  PInv'
<1>1. IInv'
  BY MarkIInv
<1>2. pc = "mark" /\ pc' = "launch"
  BY DEF Mark
<1>3. Left = 1 /\ Left' = 0
  BY <1>2 DEF Left
<1>4. stream' = Append(stream, OpBefore(1, step, batch, prev))
  BY DEF Mark, Queue, OpBefore
<1>5. UNCHANGED <<step, batch, prev, staging, packed>> /\ UNCHANGED device
  BY DEF Mark
<1> QED  BY <1>1, <1>2, <1>3, <1>4, <1>5, QueuesPInv

\* The first step of a pass: nothing of it is queued, and what the last pass leaves is known.
LEMMA BeginPInv ==
  ASSUME IInv, PInv, NEW b \in Batches, Begin(b)
  PROVE  PInv'
<1>1. /\ pc = "idle" /\ batch' = b /\ pc' = (IF Kind(b) = "graph" THEN "stage" ELSE "pack")
      /\ UNCHANGED <<step, prev, staging, packed, stream>> /\ UNCHANGED device
  BY DEF Begin
<1>2. InOrder /\ InOrder'
  BY <1>1 DEF IInv, InOrder
<1>3. QueuedPasses'
  BY <1>1, <1>2, QueuedPassesKept DEF PInv, QueuedPasses
<1>4. PICK k \in Nat, s \in Nat, p \in Befores :
        k = RunAt /\ s = step /\ p = prev /\ PrevQueued(k, s, p) /\ PrevDone(k, s, p)
  BY <1>1 DEF PInv, NextPass
<1>5. Left = 4 /\ Left' = 4
  BY <1>1 DEF Left, Kind
<1>6. Len(stream) \in Nat /\ DOMAIN stream = 1 .. Len(stream)
  BY <1>2 DEF InOrder
<1>7. k = Len(stream) + 5 /\ RunAt' = k
  BY <1>1, <1>4, <1>5, <1>6 DEF RunAt
<1>8. \A n \in 1 .. 4 : k - n \notin DOMAIN stream'
  BY <1>1, <1>6, <1>7
<1>9. PrevQueued(k, s, p)' /\ PrevDone(k, s, p)'
  BY <1>1, <1>4, DoneKept DEF PrevQueued, At
<1>10. PassQueued(k, s, b, p)'
  BY <1>8, <1>9 DEF PassQueued, GraphQueued, EagerQueued, At
<1>11. k > 4
  BY <1>6, <1>7
<1>12. PassDone(k, s, b, p)'
  BY <1>9, <1>11 DEF PassDone, GraphDone, EagerDone
<1>13. PassInPreparation'
  BY <1>1, <1>4, <1>7, <1>10, <1>12 DEF PassInPreparation
<1>14. NextPass' /\ Buffers' /\ RunsOnOwnInputs'
  BY <1>1 DEF PInv, NextPass, Buffers, RunsOnOwnInputs, OwnRows, PaddingOnDummy, device
<1> QED  BY <1>3, <1>13, <1>14 DEF PInv

\* A pinned buffer is written for the pass in preparation, which is not queued that far.
LEMMA WritesPInv ==
  ASSUME IInv, IInv', PInv, Stage \/ Pack
  PROVE  PInv'
<1>1. /\ pc \in {"stage", "pack"} /\ pc' = (IF pc = "stage" THEN "copy" ELSE "plan")
      /\ UNCHANGED <<step, batch, prev, stream>> /\ UNCHANGED device
      /\ pc = "stage" => /\ packed' = packed
                         /\ staging' = Padded(HostRows(batch), BucketFor(Buckets, Len(batch)), staging)
      /\ pc = "pack" => /\ staging' = staging
                        /\ packed' = [packed EXCEPT ![Kind(batch)] = PackBlockTables(batch, PadRows(batch))]
  BY DEF Stage, Pack
<1>2. /\ pc = "stage" => NoneQueued("copy") /\ Kind(batch) = "graph"
      /\ pc = "pack" => NoneQueued("plan")
      /\ DOMAIN packed = Kinds /\ Kind(batch) \in Kinds
  BY DEF IInv, WrittenFirst, InPass, Kind, Kinds
<1>3. (staging' = staging \/ NoneQueued("copy")) /\ (packed' = packed \/ NoneQueued("plan"))
  BY <1>1, <1>2
<1>4. QueuedPasses'
  BY <1>1, <1>3, QueuedPassesKept DEF IInv, PInv, QueuedPasses
<1>5. PICK k \in Nat, s \in Nat, b \in Batches, p \in Befores :
        /\ k = RunAt /\ s = step /\ b = batch /\ p = prev
        /\ PassQueued(k, s, b, p) /\ PassDone(k, s, b, p)
  BY <1>1 DEF PInv, PassInPreparation
<1>6. Left' = Left
  BY <1>1, <1>2 DEF Left, Kind
<1>7. RunAt' = k
  BY <1>1, <1>5, <1>6 DEF RunAt
<1>8. PassQueued(k, s, b, p)' /\ PassDone(k, s, b, p)'
  BY <1>1, <1>3, <1>5, QueuedKept, DoneKept
<1>9. Len(b) \in Nat \ {0} /\ DOMAIN b = 1 .. Len(b) /\ PadRows(b) \in Nat /\ MaxBs \in Nat
  BY PadRowsNat, ReplayAssumption
<1>10. pc' = "copy" => HostHas(staging', b, s, p) /\ PadsHas(staging', b)
  <2> SUFFICES ASSUME pc = "stage" PROVE HostHas(staging', b, s, p) /\ PadsHas(staging', b)
    BY <1>1
  <2>1. BucketFor(Buckets, Len(b)) \in Len(b) .. MaxBs /\ Len(b) <= MaxBs
    BY <1>2, <1>5, BucketFits DEF Kind
  <2>2. HostRows(batch) = RowsFor(b, s, p)
    BY <1>5 DEF HostRows, RowsFor
  <2>3. DOMAIN RowsFor(b, s, p) = DOMAIN b
    BY DEF RowsFor
  <2>4. staging' = Padded(RowsFor(b, s, p), BucketFor(Buckets, Len(b)), staging)
    BY <1>1, <1>5, <2>2
  <2>5. \A i \in DOMAIN b : i \in 1 .. MaxBs
    BY <1>9, <2>1
  <2>6. HostHas(staging', b, s, p)
    BY <2>3, <2>4, <2>5 DEF HostHas, Padded
  <2>7. \A i \in 1 .. BucketFor(Buckets, Len(b)) : i \in 1 .. MaxBs /\ i <= BucketFor(Buckets, Len(b))
    BY <1>9, <2>1
  <2>8. PadsHas(staging', b)
    BY <2>3, <2>4, <2>7 DEF PadsHas, Padded
  <2> QED  BY <2>6, <2>8
<1>11. pc' = "plan" => packed'[Kind(b)] = TablesFor(b, s)
  <2> SUFFICES ASSUME pc = "pack" PROVE packed'[Kind(b)] = TablesFor(b, s)
    BY <1>1
  <2>1. packed'[Kind(b)] = PackBlockTables(batch, PadRows(batch))
    BY <1>1, <1>2, <1>5
  <2>2. PackBlockTables(batch, PadRows(batch)) = TablesFor(b, s)
    BY <1>5 DEF PackBlockTables, TablesFor
  <2> QED  BY <2>1, <2>2
<1>12. PassInPreparation'
  <2>1. /\ pc' = "copy" => (HostHas(staging, b, s, p) /\ PadsHas(staging, b))'
        /\ pc' = "plan" => (packed[Kind(b)] = TablesFor(b, s))'
    BY <1>10, <1>11 DEF HostHas, PadsHas
  <2> QED  BY <1>1, <1>5, <1>7, <1>8, <2>1 DEF PassInPreparation
<1>13. staging' \in [1 .. MaxBs -> Range(staging')]
  <2>1. CASE staging' = staging
    BY <2>1 DEF PInv, Buffers
  <2>2. CASE pc = "stage"
    <3> DEFINE row(i) == IF i \in DOMAIN HostRows(batch) THEN HostRows(batch)[i]
                         ELSE IF i <= BucketFor(Buckets, Len(batch)) THEN PadRow ELSE staging[i]
    <3>1. staging' = [i \in 1 .. MaxBs |-> row(i)]
      BY <1>1, <2>2 DEF Padded
    <3> HIDE DEF row
    <3> QED  BY <3>1 DEF Range
  <2> QED  BY <1>1, <2>1, <2>2
<1>14. NextPass' /\ Buffers' /\ RunsOnOwnInputs'
  BY <1>1, <1>13 DEF PInv, NextPass, Buffers, RunsOnOwnInputs, OwnRows, PaddingOnDummy, device
<1> QED  BY <1>4, <1>12, <1>14 DEF PInv

\* The run of the pass takes the place foreseen, and the next pass stands six places behind it.
LEMMA LaunchPInv ==
  ASSUME IInv, PInv, Launch
  PROVE  PInv'
<1> DEFINE run == RunOf(step, batch, prev)
           sample == [op |-> "sample", n |-> Len(batch)]
<1>1. /\ pc = "launch" /\ pc' = "idle" /\ stream' = stream \o <<run, sample>>
      /\ step' = step + 1 /\ prev' = batch
      /\ UNCHANGED <<staging, packed>> /\ UNCHANGED device
  BY DEF Launch, RunOf
<1>2. /\ run.op = "run" /\ run.step = step /\ run.batch = batch
      /\ sample.op = "sample" /\ sample.n = Len(batch)
  BY DEF RunOf
<1>3. IInv' /\ InOrder /\ InOrder'
  BY LaunchIInv DEF IInv
<1> HIDE DEF run
<1>4. /\ Len(stream) \in Nat /\ DOMAIN stream = 1 .. Len(stream)
      /\ Len(stream') = Len(stream) + 2 /\ DOMAIN stream' = 1 .. Len(stream) + 2
      /\ \A i \in 1 .. Len(stream) : stream'[i] = stream[i]
      /\ stream'[Len(stream) + 1] = run /\ stream'[Len(stream) + 2] = sample
  <2>1. stream \in Seq(Range(stream))
    BY <1>3 DEF InOrder
  <2> QED  BY <1>1, <2>1
<1>5. PICK k \in Nat, s \in Nat, b \in Batches, p \in Befores :
        /\ k = RunAt /\ s = step /\ b = batch /\ p = prev
        /\ PassQueued(k, s, b, p) /\ PassDone(k, s, b, p)
  BY <1>1 DEF PInv, PassInPreparation
<1>6. Left = 0 /\ Left' = 4
  BY <1>1 DEF Left
<1>7. k = Len(stream) + 1 /\ RunAt' = k + 6
  BY <1>4, <1>5, <1>6 DEF RunAt
<1>8. \A n \in 1 .. 6 : k - n \in DOMAIN stream' =>
        k - n \in DOMAIN stream /\ stream'[k - n] = stream[k - n]
  BY <1>4, <1>7
<1>9. PassQueued(k, s, b, p)' /\ PassDone(k, s, b, p)'
  BY <1>1, <1>5, <1>8, QueuedKept, DoneKept
<1>10. QueuedPasses'
  <2> SUFFICES ASSUME NEW j \in DOMAIN stream', stream'[j].op = "run"
               PROVE  \E s1 \in Nat, b1 \in Batches, p1 \in Befores :
                        /\ stream'[j] = RunOf(s1, b1, p1)
                        /\ PassQueued(j, s1, b1, p1)' /\ PassDone(j, s1, b1, p1)'
    BY DEF QueuedPasses
  <2>1. CASE j \in DOMAIN stream
    <3>1. \A i \in DOMAIN stream : i \in DOMAIN stream' /\ stream'[i] = stream[i]
      BY <1>4
    <3>2. stream[j].op = "run"
      BY <2>1, <3>1
    <3> QED  BY <1>1, <1>3, <2>1, <3>1, <3>2, QueuedPassesKept DEF PInv
  <2>2. CASE j = k
    <3>1. stream'[j] = RunOf(s, b, p)
      BY <1>4, <1>5, <1>7, <2>2 DEF run
    <3>2. PassQueued(j, s, b, p)' /\ PassDone(j, s, b, p)'
      BY <1>9, <2>2
    <3> QED  BY <3>1, <3>2
  <2>3. j # Len(stream) + 2
    BY <1>2, <1>4
  <2>4. j \in DOMAIN stream \/ j = k
    BY <1>4, <1>7, <2>3
  <2> QED  BY <2>1, <2>2, <2>4
<1>11. NextPass'
  <2> DEFINE k1 == k + 6
             s1 == s + 1
  <2>1. k1 \in Nat /\ s1 \in Nat /\ s1 - 1 = s /\ k1 - 6 = Len(stream) + 1 /\ k1 - 5 = Len(stream) + 2 /\ k1 > 6
    BY <1>4, <1>7
  <2>2. k1 = RunAt' /\ s1 = step' /\ b = prev' /\ b \in Befores
    BY <1>1, <1>5, <1>7 DEF Befores
  <2> HIDE DEF k1, s1
  <2>3. PrevQueued(k1, s1, b)'
    BY <1>2, <1>4, <1>5, <2>1 DEF PrevQueued, At
  <2>4. PrevDone(k1, s1, b)'
    BY <2>1 DEF PrevDone
  <2> QED  BY <2>1, <2>2, <2>3, <2>4 DEF NextPass
<1>12. PassInPreparation' /\ Buffers' /\ RunsOnOwnInputs'
  BY <1>1 DEF PInv, PassInPreparation, Buffers, RunsOnOwnInputs, OwnRows, PaddingOnDummy, device
<1> QED  BY <1>10, <1>11, <1>12 DEF PInv

\* At the start nothing is queued and nothing has run.
LEMMA InitPInv == Init => PInv
<1> SUFFICES ASSUME Init PROVE PInv
  OBVIOUS
<1>1. /\ pc = "idle" /\ step = 1 /\ prev = <<>> /\ stream = <<>> /\ staging = Blank /\ inputs = Blank
      /\ tables = [k \in Kinds |-> <<>>] /\ ran = NoRun
  BY DEF Init
<1>2. DOMAIN stream = {} /\ Len(stream) = 0
  BY <1>1
<1>3. QueuedPasses /\ PassInPreparation
  BY <1>1, <1>2 DEF QueuedPasses, PassInPreparation
<1>4. RunAt = 5
  BY <1>1, <1>2 DEF RunAt, Left
<1>5. PrevQueued(5, 1, <<>>) /\ PrevDone(5, 1, <<>>)
  BY <1>2 DEF PrevQueued, PrevDone, At
<1>6. NextPass
  BY <1>1, <1>4, <1>5 DEF NextPass, Befores
<1>7. Blank \in [1 .. MaxBs -> Range(Blank)]
  BY DEF Blank, Range
<1>8. Buffers
  BY <1>1, <1>7 DEF Buffers
<1>9. RunsOnOwnInputs
  BY <1>1 DEF RunsOnOwnInputs, OwnRows, PaddingOnDummy, NoRun
<1> QED  BY <1>3, <1>6, <1>8, <1>9 DEF PInv

\* Every step preserves both invariants.
LEMMA NextPInv == IInv /\ PInv /\ [Next]_vars => PInv'
<1> SUFFICES ASSUME IInv, PInv, [Next]_vars PROVE PInv'
  OBVIOUS
<1>1. CASE \E b \in Batches : Begin(b)
  BY <1>1, BeginPInv
<1>2. CASE Stage \/ Pack
  BY <1>2, WritesPInv, StageIInv, PackIInv
<1>3. CASE Copy \/ Load \/ Fill \/ Plan \/ Mark \/ Launch
  BY <1>3, CopyPInv, LoadPInv, FillPInv, PlanPInv, MarkPInv, LaunchPInv
<1>4. CASE Device
  BY <1>4, DevicePInv
<1>5. CASE UNCHANGED vars
  <2>1. UNCHANGED <<pc, step, batch, prev, staging, packed, stream, ran>> /\ UNCHANGED device
    BY <1>5 DEF vars, device
  <2>2. InOrder /\ InOrder'
    BY <2>1 DEF IInv, InOrder
  <2>3. QueuedPasses'
    BY <2>1, <2>2, QueuedPassesKept DEF PInv, QueuedPasses
  <2>4. RunAt' = RunAt
    BY <2>1 DEF RunAt, Left, Kind
  <2>5. PassInPreparation'
    <3> SUFFICES ASSUME pc # "idle" PROVE PassInPreparation'
      BY <2>1 DEF PassInPreparation
    <3>1. PICK k \in Nat, s \in Nat, b \in Batches, p \in Befores :
            /\ k = RunAt /\ s = step /\ b = batch /\ p = prev
            /\ PassQueued(k, s, b, p) /\ PassDone(k, s, b, p)
            /\ pc = "copy" => HostHas(staging, b, s, p) /\ PadsHas(staging, b)
            /\ pc = "plan" => packed[Kind(b)] = TablesFor(b, s)
      BY DEF PInv, PassInPreparation
    <3>2. PassQueued(k, s, b, p)' /\ PassDone(k, s, b, p)'
      BY <2>1, <3>1, QueuedKept, DoneKept
    <3>3. pc' = "copy" => (HostHas(staging, b, s, p) /\ PadsHas(staging, b))'
      BY <2>1, <3>1 DEF HostHas, PadsHas
    <3> QED  BY <2>1, <2>4, <3>1, <3>2, <3>3 DEF PassInPreparation
  <2>6. NextPass'
    <3> SUFFICES ASSUME pc = "idle" PROVE NextPass'
      BY <2>1 DEF NextPass
    <3>1. PICK k \in Nat, s \in Nat, p \in Befores :
            k = RunAt /\ s = step /\ p = prev /\ PrevQueued(k, s, p) /\ PrevDone(k, s, p)
      BY DEF PInv, NextPass
    <3>2. PrevQueued(k, s, p)' /\ PrevDone(k, s, p)'
      BY <2>1, <3>1, QueuedKept, DoneKept
    <3> QED  BY <2>1, <2>4, <3>1, <3>2 DEF NextPass
  <2>7. Buffers' /\ RunsOnOwnInputs'
    BY <2>1 DEF PInv, Buffers, RunsOnOwnInputs, OwnRows, PaddingOnDummy, device
  <2> QED  BY <2>3, <2>5, <2>6, <2>7 DEF PInv
<1> QED  BY <1>1, <1>2, <1>3, <1>4, <1>5 DEF Next, Host

\* DecodeGraphs.run, ModelRunner.forward: for every set of batches, every largest graph and any
\* distance between host and device, each pass runs on the rows and the block tables of its own
\* batch, with the tokens that the pass before sampled for the same requests, and on nothing else.
THEOREM ReplayRunsOnOwnInputs == Spec => []RunsOnOwnInputs
<1>1. IInv /\ PInv => RunsOnOwnInputs
  BY DEF PInv
<1>2. Init => IInv /\ PInv
  BY InitIInv, InitPInv
<1>3. (IInv /\ PInv) /\ [Next]_vars => (IInv /\ PInv)'
  BY NextIInv, NextPInv
<1> QED  BY <1>1, <1>2, <1>3, PTL DEF Spec
=============================================================================

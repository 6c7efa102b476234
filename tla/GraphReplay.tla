---------------------------- MODULE GraphReplay ----------------------------
(***************************************************************************)
(* A forward pass between host and device: captured graphs                 *)
(* (miniserve/engine/cuda_graph.py), eager passes (ModelRunner.forward,    *)
(* FlashInferPagedAttention.plan), the pinned buffers both reuse           *)
(* (cache/packing.py) and the fence that guards them (model/transfer.py).  *)
(*                                                                         *)
(* The host queues work on one device stream and does not wait: the device *)
(* is a second process that takes operations from the stream in order, and *)
(* a copy out of a pinned buffer reads what is there when it runs.  A graph*)
(* runs on static device buffers that the next pass overwrites.  Nothing   *)
(* bounds how far the host runs ahead but the fence (overlap scheduling    *)
(* also reads back the step before last; a draft's steps do not).          *)
(*                                                                         *)
(* A batch is a sequence of requests.  A row is the inputs of one request  *)
(* in one pass, [req, step, id]: id names the pass and the request that its*)
(* input token was sampled for, or is HOST if the host knew the token, HOLE*)
(* for a placeholder; req is Dummy in a padding row, which reads and writes*)
(* the dummy block only.                                                   *)
(* Rows stand for the width tokens of a row alike.                         *)
(***************************************************************************)
EXTENDS Integers, Sequences, FiniteSetsExt, Functions

CONSTANTS Requests,
          Batches,      \* the batches a pass may have: sequences of distinct requests
          Prefills,     \* those that also prefill: rows of requests that are new, or behind the rows
                        \* listed here, with a chunk that needs no sampled token
          MaxBs,        \* largest captured batch size
          MaxSteps      \* bound: passes launched

ASSUME ReplayAssumption ==
  /\ \A b \in Batches : b \in Seq(Requests) /\ b # <<>> /\ IsInjective(b)
  /\ Prefills \subseteq Batches
  /\ MaxBs \in Nat \ {0} /\ MaxSteps \in Nat

Dummy == "dummy"
HOST == [req |-> "host", step |-> 0]
HOLE == [req |-> "hole", step |-> 0]

\* Batch sizes to capture: powers of two below max_bs, and max_bs itself.
GraphBuckets(max_bs) == {b \in 1 .. max_bs - 1 : \E k \in 0 .. max_bs : b = 2 ^ k} \cup {max_bs}

BucketFor(buckets, n) == Min({g \in buckets : g >= n})

PadRow == [req |-> Dummy, step |-> 0, id |-> HOST]

VARIABLES pc,           \* where the host is in the pass
          step,         \* the pass it prepares, from 1
          batch, prev,  \* its batch and that of the pass before
          fence,        \* CopyFence._event: the pass whose mark to wait for, 0 if None
          staging,      \* pinned: inputs of a graph, row by row
          packed,       \* pinned: block tables of a pass, row by row, of graphs and eager passes
          stream,       \* operations queued on the device
          inputs,       \* device: static input buffer of the graphs
          loaded,       \* device: inputs of an eager pass, which have a tensor of their own
          tables,       \* device: block tables planned for graphs and eager passes
          logits,       \* device: what the last pass computed, row by row
          tokens,       \* device: the tokens sampled last, row by row
          ran           \* history: the pass that ran last, with what it ran on

vars == <<pc, step, batch, prev, fence, staging, packed, stream,
          inputs, loaded, tables, logits, tokens, ran>>
host == <<pc, step, batch, prev, fence, staging, packed>>
device == <<inputs, loaded, tables, logits, tokens, ran>>

Kinds == {"graph", "eager"}
Buckets == GraphBuckets(MaxBs)
Blank == [i \in 1 .. MaxBs |-> PadRow]
NoRun == [step |-> 0, batch |-> <<>>, prev |-> <<>>, rows |-> <<>>, tables |-> <<>>]

Init == /\ pc = "idle" /\ step = 1 /\ batch = <<>> /\ prev = <<>> /\ fence = 0
        /\ staging = Blank /\ packed = [k \in Kinds |-> <<>>]
        /\ stream = <<>>
        /\ inputs = Blank /\ loaded = <<>> /\ tables = [k \in Kinds |-> <<>>]
        /\ logits = <<>> /\ tokens = <<>> /\ ran = NoRun

-----------------------------------------------------------------------------
(* The host *)

Queue(op) == stream' = Append(stream, op)

\* Graphs are only for decode batches of a size they were captured for.
Kind(b) == IF Len(b) <= MaxBs /\ b \notin Prefills THEN "graph" ELSE "eager"

\* The rows of a batch as the host has them: a placeholder where the last pass sampled the input.
HostRows(b) ==
  [i \in DOMAIN b |-> [req |-> b[i], step |-> step, id |-> IF b[i] \in Range(prev) THEN HOLE ELSE HOST]]

\* _stage: the batch's rows, padding up to bucket g; rows past g keep what they had.
Padded(rows, g, buffer) ==
  [i \in 1 .. MaxBs |-> IF i \in DOMAIN rows THEN rows[i] ELSE IF i <= g THEN PadRow ELSE buffer[i]]

\* pack_block_tables: one page list per row, then padding rows of one dummy page each.
PackBlockTables(b, pad_rows) ==
  [i \in 1 .. Len(b) + pad_rows |->
     IF i \in DOMAIN b THEN [req |-> b[i], step |-> step] ELSE [req |-> Dummy, step |-> 0]]

PadRows(b) == IF Kind(b) = "graph" THEN BucketFor(Buckets, Len(b)) - Len(b) ELSE 0

\* Faulty variant: does not wait.
FencePassedAlways == TRUE

\* CopyFence.wait returns: the event recorded at the last mark has been reached.
FencePassed == \A k \in DOMAIN stream : stream[k] # [op |-> "event", step |-> fence]

\* A pass begins: wait for the fence, before any pinned buffer is written.
Begin(b) ==
  /\ pc = "idle" /\ step <= MaxSteps
  /\ FencePassed
  /\ fence' = 0 /\ batch' = b
  /\ pc' = IF Kind(b) = "graph" THEN "stage" ELSE "pack"
  /\ UNCHANGED <<step, prev, staging, packed, stream, device>>

\* DecodeGraphs._stage writes the staging buffer ...
Stage ==
  /\ pc = "stage" /\ pc' = "copy"
  /\ staging' = Padded(HostRows(batch), BucketFor(Buckets, Len(batch)), staging)
  /\ UNCHANGED <<step, batch, prev, fence, packed, stream, device>>

\* ... and queues the copy of all of it.
Copy ==
  /\ pc = "copy" /\ pc' = "fill"
  /\ Queue([op |-> "copy", step |-> step])
  /\ UNCHANGED <<step, batch, prev, fence, staging, packed, device>>

\* An eager pass queues copies of its inputs out of buffers nobody reuses.
Load ==
  /\ pc = "load" /\ pc' = "fill"
  /\ Queue([op |-> "load", step |-> step, rows |-> HostRows(batch)])
  /\ UNCHANGED <<step, batch, prev, fence, staging, packed, device>>

\* Faulty variant: takes the request to stand where it stood.
FillRowsInPlace == [i \in {j \in DOMAIN batch \cap DOMAIN prev : batch[j] \in Range(prev)} |-> i]

\* The row of each placeholder's request in the pass before.
FillRows ==
  [i \in {j \in DOMAIN batch : batch[j] \in Range(prev)} |->
     CHOOSE k \in DOMAIN prev : prev[k] = batch[i]]

\* Placeholders are overwritten on the device by the tokens sampled last.
Fill ==
  /\ pc = "fill" /\ pc' = IF Kind(batch) = "graph" THEN "pack" ELSE "mark"
  /\ Queue([op |-> "fill", kind |-> Kind(batch), rows |-> FillRows])
  /\ UNCHANGED <<step, batch, prev, fence, staging, packed, device>>

\* PackedTables.pack writes the block tables into pinned arrays ...
Pack ==
  /\ pc = "pack" /\ pc' = "plan"
  /\ packed' = [packed EXCEPT ![Kind(batch)] = PackBlockTables(batch, PadRows(batch))]
  /\ UNCHANGED <<step, batch, prev, fence, staging, stream, device>>

\* ... and the planner queues their copies.
Plan ==
  /\ pc = "plan" /\ pc' = IF Kind(batch) = "graph" THEN "mark" ELSE "load"
  /\ Queue([op |-> "plan", step |-> step, kind |-> Kind(batch)])
  /\ UNCHANGED <<step, batch, prev, fence, staging, packed, device>>

\* CopyFence.mark.
Mark ==
  /\ pc = "mark" /\ pc' = "launch"
  /\ Queue([op |-> "event", step |-> step])
  /\ fence' = step
  /\ UNCHANGED <<step, batch, prev, staging, packed, device>>

\* Replay the graph, or run the pass; what samples from its logits is queued right behind.
Launch ==
  /\ pc = "launch" /\ pc' = "idle"
  /\ stream' = stream \o <<[op |-> "run", step |-> step, kind |-> Kind(batch), batch |-> batch, prev |-> prev],
                           [op |-> "sample", n |-> Len(batch)]>>
  /\ step' = step + 1 /\ prev' = batch
  /\ UNCHANGED <<batch, fence, staging, packed, device>>

Host == \/ \E b \in Batches : Begin(b)
        \/ Stage \/ Copy \/ Load \/ Fill \/ Pack \/ Plan \/ Mark \/ Launch

-----------------------------------------------------------------------------
(* The device *)

\* The next operation of the stream is of this kind; nothing of the host changes.
Takes(op) == /\ stream # <<>> /\ Head(stream).op = op /\ stream' = Tail(stream)
             /\ UNCHANGED host

DeviceCopies ==
  /\ Takes("copy")
  /\ inputs' = staging
  /\ UNCHANGED <<loaded, tables, logits, tokens, ran>>

DeviceLoads ==
  /\ Takes("load")
  /\ loaded' = Head(stream).rows
  /\ UNCHANGED <<inputs, tables, logits, tokens, ran>>

Filled(rows, from) ==
  [i \in DOMAIN rows |-> IF i \in DOMAIN from THEN [rows[i] EXCEPT !.id = tokens[from[i]]] ELSE rows[i]]

DeviceFills ==
  /\ Takes("fill")
  /\ LET op == Head(stream) IN
     IF op.kind = "graph" THEN inputs' = Filled(inputs, op.rows) /\ UNCHANGED loaded
                          ELSE loaded' = Filled(loaded, op.rows) /\ UNCHANGED inputs
  /\ UNCHANGED <<tables, logits, tokens, ran>>

DevicePlans ==
  /\ Takes("plan")
  /\ LET k == Head(stream).kind IN tables' = [tables EXCEPT ![k] = packed[k]]
  /\ UNCHANGED <<inputs, loaded, logits, tokens, ran>>

DevicePassesEvent ==
  /\ Takes("event")
  /\ UNCHANGED device

\* Graph g reads its first g rows; an eager pass has exactly its own.
DeviceRuns ==
  /\ Takes("run")
  /\ LET op   == Head(stream)
         rows == IF op.kind = "graph"
                 THEN SubSeq(inputs, 1, BucketFor(Buckets, Len(op.batch))) ELSE loaded
     IN  /\ logits' = rows
         /\ ran' = [step |-> op.step, batch |-> op.batch, prev |-> op.prev, rows |-> rows,
                    tables |-> tables[op.kind]]
  /\ UNCHANGED <<inputs, loaded, tables, tokens>>

\* The token sampled for a row is that of the pass that the row belongs to.
DeviceSamples ==
  /\ Takes("sample")
  /\ tokens' = [i \in 1 .. Head(stream).n |-> [req |-> logits[i].req, step |-> logits[i].step]]
  /\ UNCHANGED <<inputs, loaded, tables, logits, ran>>

Device == \/ DeviceCopies \/ DeviceLoads \/ DeviceFills \/ DevicePlans
          \/ DevicePassesEvent \/ DeviceRuns \/ DeviceSamples

Next == Host \/ Device

Spec == Init /\ [][Next]_vars

-----------------------------------------------------------------------------
(* Properties *)

\* CopyFence, "must not be rewritten while a queued copy still reads from it": as long as a copy
\* out of a pinned buffer is queued, the buffer holds what was written for that copy.
CopiesUndisturbed ==
  \A k \in DOMAIN stream :
    /\ stream[k].op = "copy" => stream[k].step = staging[1].step
    /\ stream[k].op = "plan" => stream[k].step = packed[stream[k].kind][1].step

\* DecodeGraphs.run, ModelRunner.forward: every pass runs on the rows of its own batch, with the
\* token that the pass before sampled for the same request wherever the host had none, and
\* attends to that request's block table, however far the host is ahead by then.
OwnRows ==
  \A i \in DOMAIN ran.batch :
    /\ ran.rows[i] = [req |-> ran.batch[i], step |-> ran.step,
                      id  |-> IF ran.batch[i] \in Range(ran.prev)
                              THEN [req |-> ran.batch[i], step |-> ran.step - 1] ELSE HOST]
    /\ ran.tables[i] = [req |-> ran.batch[i], step |-> ran.step]

\* "the G - B padding rows read and write a dummy KV block that no request owns": rows that a
\* graph runs beyond its batch are never those of an earlier, larger batch.
PaddingOnDummy ==
  \A i \in DOMAIN ran.rows \ DOMAIN ran.batch :
    ran.rows[i].req = Dummy /\ i \in DOMAIN ran.tables /\ ran.tables[i].req = Dummy

\* What a pass computes with, rows and padding together: its own requests' and nobody else's.
RunsOnOwnInputs == OwnRows /\ PaddingOnDummy
=============================================================================

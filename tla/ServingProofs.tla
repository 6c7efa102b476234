--------------------------- MODULE ServingProofs ---------------------------
(***************************************************************************)
(* The front end and the serving benchmark, for every pool, context and    *)
(* request, every set of counters, any steps and any number of levels and  *)
(* of runs.                                                                *)
(***************************************************************************)
EXTENDS Serving, TLAPS

-----------------------------------------------------------------------------
(* The counters *)

Counters == [FieldNames -> Nat]

\* The fields that are followed are fields of EngineStats.
LEMMA FieldsAreFields ==
  /\ Len(Fields) \in Nat \ {0} /\ DOMAIN Fields = 1 .. Len(Fields)
  /\ \A i \in 1 .. Len(Fields) : Fields[i] \in FieldNames
  /\ FieldNames \subseteq {"steps", "prefill_steps", "decode_steps", "mixed_steps", "decode_rows",
                           "steps_with_decode", "prefill_tokens", "preemptions", "running", "waiting"}
<1> DEFINE Names == {EngineStats[i] : i \in 1 .. 10}
<1>1. Fields \in Seq(Names) /\ Fields # <<>>
  BY FrontendAssumption
<1>2. Names \subseteq {"steps", "prefill_steps", "decode_steps", "mixed_steps", "decode_rows",
                       "steps_with_decode", "prefill_tokens", "preemptions", "running", "waiting"}
  BY DEF EngineStats
<1> HIDE DEF Names
<1>3. Len(Fields) \in Nat /\ DOMAIN Fields = 1 .. Len(Fields) /\ \A i \in 1 .. Len(Fields) : Fields[i] \in Names
  BY <1>1
<1>4. FieldNames \subseteq Names /\ \A i \in 1 .. Len(Fields) : Fields[i] \in FieldNames
  BY <1>3 DEF FieldNames
<1>5. Len(Fields) # 0
  BY <1>1
<1> QED  BY <1>2, <1>3, <1>4, <1>5

\* What a step adds to a counter is a natural number.
LEMMA AddsNat ==
  ASSUME NEW b \in BatchType, NEW f \in FieldNames
  PROVE  Adds(b)[f] \in Nat
<1>1. /\ b.num_decode \in Nat /\ b.prefill_tokens \in Nat /\ b.preempted \in Nat
      /\ b.running \in Nat /\ b.waiting \in Nat
  BY DEF BatchType
<1>2. f \in {"steps", "prefill_steps", "decode_steps", "mixed_steps", "decode_rows",
             "steps_with_decode", "prefill_tokens", "preemptions", "running", "waiting"}
  BY FieldsAreFields
<1> QED  BY <1>1, <1>2 DEF Adds, One

-----------------------------------------------------------------------------
(* Types *)

Places == {"preflight", "image", "waiting", "tree", "ratio", "record", "level", "before", "load",
           "loading", "asking", "after", "writing", "appending", "recording", "exited"}
Conditions == {"idle", "image", "answered", "tree", "ratio"}
Windows == [opened : Counters, start : Counters, end : Counters]
Levelled == {0, 1}
Clients == [pc : Places, run : Nat, passed : SUBSET Conditions, lacks : SUBSET MayLack,
            window : Windows, before : Optional(Counters), rc : {0, 1}, measured : Seq(Levelled), line : Nat]

CountersOK ==
  /\ stats \in Counters
  /\ counting.at \in 0 .. Len(Fields) /\ (counting.at # 0 => counting.batch \in BatchType)
  /\ snap \in [at : 0 .. Len(Fields) + 1, got : Counters]

TypeOK == CountersOK /\ client \in Clients

\* Every field of c is at most that of d.
AtMost(c, d) == \A f \in CUMULATIVE : c[f] <= d[f]

LEMMA ZerosCount == Zeros \in Counters /\ \A c \in Counters : AtMost(Zeros, c)
BY DEF Zeros, Counters, AtMost, CUMULATIVE

\* EngineStats.record: the counters stay counters, and those that accumulate do not go down.
LEMMA RecordGrows ==
  ASSUME CountersOK, RecordField
  PROVE  CountersOK' /\ AtMost(stats, stats')
<1> DEFINE f == Fields[counting.at]
           a == Adds(counting.batch)[f]
<1>1. counting.at \in 1 .. Len(Fields) /\ counting.batch \in BatchType /\ stats \in Counters
  BY DEF CountersOK, RecordField
<1>2. f \in FieldNames
  BY <1>1, FieldsAreFields
<1>3. a \in Nat
  BY <1>1, <1>2, AddsNat
<1>4. stats' = [stats EXCEPT ![f] = IF f \in CUMULATIVE THEN stats[f] + a ELSE a]
  BY DEF RecordField
<1> HIDE DEF f, a
<1>5. stats' \in Counters /\ \A g \in FieldNames : g \in CUMULATIVE => stats[g] <= stats'[g]
  BY <1>1, <1>2, <1>3, <1>4 DEF Counters
<1>6. AtMost(stats, stats')
  BY <1>5 DEF AtMost, CUMULATIVE
<1>7. counting'.at \in 0 .. Len(Fields) /\ (counting'.at # 0 => counting'.batch \in BatchType)
  <2>1. CASE counting.at = Len(Fields)
    <3>1. counting'.at = 0
      BY <2>1 DEF RecordField, NotCounting
    <3> QED  BY <3>1, FieldsAreFields
  <2>2. CASE counting.at # Len(Fields)
    <3>1. counting' = [counting EXCEPT !.at = counting.at + 1]
      BY <2>2 DEF RecordField
    <3>2. counting.at + 1 \in 0 .. Len(Fields)
      BY <1>1, <2>2, FieldsAreFields
    <3> QED  BY <1>1, <3>1, <3>2
  <2> QED  BY <2>1, <2>2
<1> QED  BY <1>5, <1>6, <1>7 DEF CountersOK, RecordField

\* The other steps of the front end leave the counters alone, and read them into the snapshot.
LEMMA FrontendGrows ==
  ASSUME CountersOK, Frontend
  PROVE  CountersOK' /\ AtMost(stats, stats')
<1>0. ASSUME stats' = stats PROVE AtMost(stats, stats')
  BY <1>0 DEF CountersOK, Counters, AtMost, CUMULATIVE
<1>1. CASE \E paged, dirty \in BOOLEAN, budget \in Budgets, tokens \in PoolTokens :
             StartServer(paged, budget, tokens, dirty)
  <2>1. UNCHANGED <<stats, counting, snap>>
    BY <1>1 DEF StartServer, Description
  <2> QED  BY <1>0, <2>1 DEF CountersOK
<1>2. CASE \E b \in Batches : StartRecord(b)
  <2>1. PICK b \in Batches : StartRecord(b)
    BY <1>2
  <2>2. counting'.at = 1 /\ counting'.batch \in BatchType /\ UNCHANGED <<stats, snap>>
    BY <2>1, FrontendAssumption DEF StartRecord
  <2> QED  BY <1>0, <2>2, FieldsAreFields DEF CountersOK
<1>3. CASE RecordField
  BY <1>3, RecordGrows
<1>4. CASE ReadField
  <2>1. UNCHANGED <<stats, counting>> /\ snap.at \in 1 .. Len(Fields)
    BY <1>4 DEF ReadField
  <2>2. snap' = [at |-> snap.at + 1, got |-> [snap.got EXCEPT ![Fields[snap.at]] = stats[Fields[snap.at]]]]
    BY <1>4 DEF ReadField
  <2>3. Fields[snap.at] \in FieldNames
    BY <2>1, FieldsAreFields
  <2>4. snap.got \in Counters /\ stats \in Counters
    BY DEF CountersOK
  <2>5. snap'.got \in Counters
    BY <2>2, <2>3, <2>4 DEF Counters
  <2>6. snap'.at \in 0 .. Len(Fields) + 1
    BY <2>1, <2>2, FieldsAreFields
  <2> QED  BY <1>0, <2>1, <2>2, <2>5, <2>6 DEF CountersOK
<1> QED  BY <1>1, <1>2, <1>3, <1>4 DEF Frontend

\* A run that begins, and one that has ended.
LEMMA NewClients ==
  ASSUME NEW run \in Nat
  PROVE  NewRun(run) \in Clients /\ Exited(run) \in Clients
<1>1. NoWindow \in Windows
  BY ZerosCount DEF NoWindow, Windows
<1>2. NoStats \in Optional(Counters)
  BY DEF NoStats, Optional
<1>3. <<>> \in Seq(Levelled)
  OBVIOUS
<1> QED  BY <1>1, <1>2, <1>3 DEF NewRun, Exited, Clients, Places, Conditions

\* The client keeps its type; it starts snapshots and drops them.
LEMMA ClientTypes ==
  ASSUME TypeOK, Client
  PROVE  TypeOK'
<1> DEFINE c == client
<1>1. c \in Clients /\ c.run \in Nat /\ c.window \in Windows /\ c.passed \in SUBSET Conditions
  BY DEF TypeOK, Clients
<1>2. stats \in Counters /\ snap \in [at : 0 .. Len(Fields) + 1, got : Counters] /\ snap.got \in Counters
  BY DEF TypeOK, CountersOK
<1>3. /\ [at |-> 1, got |-> Zeros] \in [at : 0 .. Len(Fields) + 1, got : Counters]
      /\ NoSnap \in [at : 0 .. Len(Fields) + 1, got : Counters]
  BY ZerosCount, FieldsAreFields DEF NoSnap
<1>4. ASSUME client' \in Clients, snap' \in [at : 0 .. Len(Fields) + 1, got : Counters], UNCHANGED serverVars
      PROVE  TypeOK'
  BY <1>4 DEF TypeOK, CountersOK, serverVars
<1>5. Exit => client' \in Clients
  BY <1>1, NewClients DEF Exit
<1>6. ASSUME NEW condition \in Conditions, NEW next \in Places, Passes(condition, next)
      PROVE  client' \in Clients
  BY <1>1, <1>6 DEF Passes, Clients
<1>7. ASSUME LevelEnds
      PROVE  client' \in Clients
  <2>1. CASE Exit
    BY <2>1, <1>5
  <2>2. CASE client' = [client EXCEPT !.measured = Append(@, client.rc),
                         !.window = NoWindow,
                         !.pc = IF Len(client.measured) + 1 = Levels THEN "writing" ELSE "level"]
    <3>1. c.rc \in Levelled /\ c.measured \in Seq(Levelled)
      BY <1>1 DEF Clients, Levelled
    <3>2. Append(c.measured, c.rc) \in Seq(Levelled)
      BY <3>1
    <3>3. NoWindow \in Windows
      BY ZerosCount DEF NoWindow, Windows
    <3> QED  BY <1>1, <2>2, <3>2, <3>3 DEF Clients, Places
  <2> QED  BY <1>7, <2>1, <2>2 DEF LevelEnds, LevelRows
<1>8. CASE Invoke
  <2>1. client' = NewRun(client.run + 1) /\ UNCHANGED <<serverVars, snap>>
    BY <1>8 DEF Invoke, Elsewhere
  <2>2. client' \in Clients
    BY <1>1, <2>1, NewClients
  <2> QED  BY <1>2, <1>4, <2>1, <2>2
<1>9. CASE Preflight \/ RequireImage \/ WaitHealthy \/ WaitTimesOut \/ CheckTree \/ WarmupRatio
  <2>1. UNCHANGED <<serverVars, snap>>
    BY <1>9 DEF Preflight, RequireImage, WaitHealthy, WaitTimesOut, CheckTree, WarmupRatio, Elsewhere
  <2>2. \/ Exit \/ Passes("idle", "image") \/ Passes("image", "waiting") \/ Passes("answered", "tree")
        \/ Passes("tree", "ratio") \/ Passes("ratio", "record")
    BY <1>9 DEF Preflight, RequireImage, WaitHealthy, WaitTimesOut, CheckTree, WarmupRatio
  <2>3. client' \in Clients
    BY <1>5, <1>6, <2>2 DEF Conditions, Places
  <2> QED  BY <1>2, <1>4, <2>1, <2>3
<1>10. CASE CheckRecord
  <2>1. PICK lacks \in SUBSET MayLack : Exit \/ client' = [client EXCEPT !.pc = "level", !.lacks = lacks]
    BY <1>10 DEF CheckRecord
  <2>2. client' \in Clients
    BY <1>1, <1>5, <2>1 DEF Clients, Places
  <2> QED  BY <1>2, <1>4, <1>10, <2>2 DEF CheckRecord, Elsewhere
<1>11. CASE BeginLevel \/ BeginLevelUncounted \/ StartLoad
  <2>1. [c.window EXCEPT !.opened = stats] \in Windows /\ [c.window EXCEPT !.start = stats] \in Windows
    BY <1>1, <1>2 DEF Windows
  <2>2. NoStats \in Optional(Counters)
    BY DEF NoStats, Optional
  <2>3. \/ client' = [client EXCEPT !.pc = "before", !.window = [c.window EXCEPT !.opened = stats]]
        \/ client' = [client EXCEPT !.pc = "load", !.window = [c.window EXCEPT !.opened = stats], !.before = NoStats]
        \/ client' = [client EXCEPT !.pc = "loading", !.window = [c.window EXCEPT !.start = stats]]
    BY <1>11 DEF BeginLevel, BeginLevelUncounted, StartLoad
  <2>4. client' \in Clients
    BY <1>1, <2>1, <2>2, <2>3 DEF Clients, Places
  <2>5. snap' \in [at : 0 .. Len(Fields) + 1, got : Counters] /\ UNCHANGED serverVars
    BY <1>2, <1>3, <1>11 DEF BeginLevel, BeginLevelUncounted, StartLoad
  <2> QED  BY <1>4, <2>4, <2>5
<1>12. CASE StatsBefore
  <2>1. <<snap.got>> \in Optional(Counters)
    BY <1>2 DEF Optional
  <2>2. client' = [client EXCEPT !.pc = "load", !.before = <<snap.got>>] /\ snap' = NoSnap /\ UNCHANGED serverVars
    BY <1>12 DEF StatsBefore, KeepBefore
  <2>3. client' \in Clients
    BY <1>1, <2>1, <2>2 DEF Clients, Places
  <2> QED  BY <1>3, <1>4, <2>2, <2>3
<1>13. CASE EndLoad
  <2>1. [c.window EXCEPT !.end = stats] \in Windows
    BY <1>1, <1>2 DEF Windows
  <2>2. PICK rc \in {0, 1} :
          client' = [client EXCEPT !.pc = "asking", !.rc = rc, !.window = [c.window EXCEPT !.end = stats]]
    BY <1>13 DEF EndLoad
  <2>3. client' \in Clients
    BY <1>1, <2>1, <2>2 DEF Clients, Places
  <2> QED  BY <1>2, <1>4, <1>13, <2>3 DEF EndLoad
<1>14. CASE AskAfter
  <2>1. client' \in Clients
    BY <1>1, <1>14 DEF AskAfter, Clients, Places
  <2> QED  BY <1>3, <1>4, <1>14, <2>1 DEF AskAfter
<1>15. CASE StatsAfter \/ NoStatsAfter
  <2>1. client' \in Clients
    BY <1>7, <1>15 DEF StatsAfter, NoStatsAfter
  <2> QED  BY <1>2, <1>3, <1>4, <1>15, <2>1 DEF StatsAfter, NoStatsAfter
<1>16. CASE OpenResults \/ WriteLine
  <2>1. client' \in Clients
    <3>1. /\ c.line \in Nat /\ c.line + 1 \in Nat /\ c.pc \in Places
          /\ "appending" \in Places /\ "recording" \in Places
      BY <1>1 DEF Clients, Places
    <3>2. PICK l \in Nat, p \in Places : client' = [client EXCEPT !.pc = p, !.line = l]
      <4>1. CASE OpenResults
        BY <3>1, <4>1 DEF OpenResults
      <4>2. CASE WriteLine
        <5>1. client' = [client EXCEPT !.pc = IF c.line = Levels THEN "recording" ELSE c.pc, !.line = c.line + 1]
          BY <1>1, <4>2 DEF WriteLine, Clients
        <5> QED  BY <3>1, <5>1
      <4> QED  BY <1>16, <4>1, <4>2
    <3>3. client \in Clients
      BY <1>1
    <3> QED  BY <3>2, <3>3 DEF Clients
  <2> QED  BY <1>2, <1>4, <1>16, <2>1 DEF OpenResults, WriteLine
<1>17. CASE CutLine \/ WriteSidecar \/ Interrupted \/ Unread
  <2>1. client' \in Clients
    BY <1>1, <1>5, <1>17 DEF CutLine, WriteSidecar, Interrupted, Unread
  <2> QED  BY <1>2, <1>3, <1>4, <1>17, <2>1 DEF CutLine, WriteSidecar, Interrupted, Unread, Elsewhere
<1> QED
  BY <1>8, <1>9, <1>10, <1>11, <1>12, <1>13, <1>14, <1>15, <1>16, <1>17 DEF Client

-----------------------------------------------------------------------------
(* What a level counts *)

\* What the snapshot has read so far is between c and the counters as they are now.
ReadSince(c) ==
  \A i \in 1 .. snap.at - 1 : Fields[i] \in CUMULATIVE =>
    c[Fields[i]] <= snap.got[Fields[i]] /\ snap.got[Fields[i]] <= stats[Fields[i]]

Before == client.before[1]

\* The level's own history and its snapshots stand in the order in which they were taken.
Bracketed ==
  LET w == client.window IN
  /\ client.pc \in {"before", "load", "loading", "asking", "after"} => AtMost(w.opened, stats)
  /\ client.pc = "before" => ReadSince(w.opened)
  /\ (client.pc \in {"load", "loading", "asking", "after"} /\ client.before # NoStats) =>
       AtMost(w.opened, Before) /\ AtMost(Before, stats)
  /\ client.pc \in {"loading", "asking", "after"} =>
       AtMost(w.start, stats) /\ (client.before # NoStats => AtMost(Before, w.start))
  /\ client.pc \in {"asking", "after"} => AtMost(w.start, w.end) /\ AtMost(w.end, stats)
  /\ client.pc = "after" => ReadSince(w.end)

LEMMA AtMostSteps ==
  /\ \A c \in Counters : AtMost(c, c)
  /\ \A c, d, e \in Counters : AtMost(c, d) /\ AtMost(d, e) => AtMost(c, e)
BY DEF Counters, AtMost, CUMULATIVE

\* Counters that grow, and a snapshot that reads on, keep what was read in its place.
LEMMA ReadSinceStep ==
  ASSUME CountersOK, CountersOK', Frontend, NEW c \in Counters, AtMost(c, stats), ReadSince(c)
  PROVE  ReadSince(c)'
<1>1. AtMost(stats, stats')
  BY FrontendGrows
<1>2. stats \in Counters /\ stats' \in Counters /\ snap.got \in Counters /\ snap.at \in Nat
  BY DEF CountersOK
<1>3. CASE snap' = snap
  <2> SUFFICES ASSUME NEW i \in 1 .. snap.at - 1, Fields[i] \in CUMULATIVE
               PROVE  c[Fields[i]] <= snap.got[Fields[i]] /\ snap.got[Fields[i]] <= stats'[Fields[i]]
    BY <1>3 DEF ReadSince
  <2>1. c[Fields[i]] <= snap.got[Fields[i]] /\ snap.got[Fields[i]] <= stats[Fields[i]]
    BY DEF ReadSince
  <2>2. stats[Fields[i]] <= stats'[Fields[i]]
    BY <1>1 DEF AtMost
  <2>3. /\ snap.got[Fields[i]] \in Nat /\ stats[Fields[i]] \in Nat /\ stats'[Fields[i]] \in Nat
    BY <1>2 DEF Counters, CUMULATIVE
  <2> QED  BY <2>1, <2>2, <2>3
<1>4. CASE ReadField
  <2>1. stats' = stats /\ snap.at \in 1 .. Len(Fields)
        /\ snap' = [at |-> snap.at + 1, got |-> [snap.got EXCEPT ![Fields[snap.at]] = stats[Fields[snap.at]]]]
    BY <1>4 DEF ReadField
  <2> SUFFICES ASSUME NEW i \in 1 .. snap.at, Fields[i] \in CUMULATIVE
               PROVE  c[Fields[i]] <= snap'.got[Fields[i]] /\ snap'.got[Fields[i]] <= stats[Fields[i]]
    BY <1>2, <2>1 DEF ReadSince
  <2>2. CASE Fields[i] = Fields[snap.at]
    <3>1. snap'.got[Fields[i]] = stats[Fields[i]]
      BY <1>2, <2>1, <2>2 DEF Counters, CUMULATIVE
    <3>2. c[Fields[i]] <= stats[Fields[i]] /\ stats[Fields[i]] \in Nat
      BY <1>2 DEF AtMost, Counters, CUMULATIVE
    <3> QED  BY <3>1, <3>2
  <2>3. CASE Fields[i] # Fields[snap.at]
    <3>1. snap'.got[Fields[i]] = snap.got[Fields[i]]
      BY <1>2, <2>1, <2>3 DEF Counters, CUMULATIVE
    <3>2. i \in 1 .. snap.at - 1
      BY <1>2, <2>3
    <3> QED  BY <3>1, <3>2 DEF ReadSince
  <2> QED  BY <2>2, <2>3
<1>5. snap' = snap \/ ReadField
  BY DEF Frontend, StartServer, Description, StartRecord, RecordField
<1> QED  BY <1>3, <1>4, <1>5

\* While the front end moves, the client's own values stay.
LEMMA FrontendBracketed ==
  ASSUME TypeOK, CountersOK', Bracketed, Frontend, client' = client
  PROVE  Bracketed'
<1>1. client \in Clients /\ client.window \in Windows
  BY DEF TypeOK, Clients
<1>2. PICK o \in Counters, s \in Counters, e \in Counters :
        o = client.window.opened /\ s = client.window.start /\ e = client.window.end
  BY <1>1 DEF Windows
<1>3. PICK b : b = client.before[1]
  OBVIOUS
<1>4. client.before # NoStats => b \in Counters
  BY <1>1, <1>3 DEF Clients, Optional, NoStats
<1>5. CountersOK /\ stats \in Counters /\ stats' \in Counters /\ AtMost(stats, stats')
  BY FrontendGrows DEF TypeOK, CountersOK
<1>6. ASSUME NEW c \in Counters, AtMost(c, stats) PROVE AtMost(c, stats')
  BY <1>5, <1>6, AtMostSteps
<1>7. /\ client.pc \in {"before", "load", "loading", "asking", "after"} => AtMost(o, stats)
      /\ client.pc = "before" => ReadSince(o)
      /\ (client.pc \in {"load", "loading", "asking", "after"} /\ client.before # NoStats) =>
           AtMost(o, b) /\ AtMost(b, stats)
      /\ client.pc \in {"loading", "asking", "after"} =>
           AtMost(s, stats) /\ (client.before # NoStats => AtMost(b, s))
      /\ client.pc \in {"asking", "after"} => AtMost(s, e) /\ AtMost(e, stats)
      /\ client.pc = "after" => ReadSince(e)
  BY <1>2, <1>3 DEF Bracketed, Before
<1>8. client.pc = "before" => ReadSince(o)'
  BY <1>5, <1>7, ReadSinceStep
<1>9. client.pc = "after" => ReadSince(e)'
  BY <1>5, <1>7, ReadSinceStep
<1>10. /\ client.pc \in {"before", "load", "loading", "asking", "after"} => AtMost(o, stats')
       /\ (client.pc \in {"load", "loading", "asking", "after"} /\ client.before # NoStats) => AtMost(b, stats')
       /\ client.pc \in {"loading", "asking", "after"} => AtMost(s, stats')
       /\ client.pc \in {"asking", "after"} => AtMost(e, stats')
  BY <1>4, <1>6, <1>7
<1>11. /\ client'.window.opened = o /\ client'.window.start = s /\ client'.window.end = e
       /\ client'.before[1] = b /\ client'.pc = client.pc /\ client'.before = client.before
  BY <1>2, <1>3
<1> QED  BY <1>7, <1>8, <1>9, <1>10, <1>11 DEF Bracketed, Before

\* The client's steps: each takes the counters as they are, later than all it has.
LEMMA ClientBracketed ==
  ASSUME TypeOK, Bracketed, Client
  PROVE  Bracketed'
<1>1. client \in Clients /\ client.window \in Windows /\ stats \in Counters
  BY DEF TypeOK, CountersOK, Clients
<1>2. stats' = stats
  BY DEF Client, Invoke, Preflight, RequireImage, WaitHealthy, WaitTimesOut, CheckTree, WarmupRatio,
         CheckRecord, BeginLevel, BeginLevelUncounted, StatsBefore, StartLoad, EndLoad, AskAfter,
         StatsAfter, NoStatsAfter, OpenResults, WriteLine, CutLine, WriteSidecar, Interrupted, Unread, Elsewhere,
         serverVars
<1>3. AtMost(stats, stats)
  BY <1>1, AtMostSteps
<1>4. ASSUME client'.pc \notin {"before", "load", "loading", "asking", "after"}
      PROVE  Bracketed'
  BY <1>4 DEF Bracketed
<1>5. CASE \/ Invoke \/ Preflight \/ RequireImage \/ WaitHealthy \/ WaitTimesOut \/ CheckTree
           \/ WarmupRatio \/ CheckRecord \/ StatsAfter \/ NoStatsAfter \/ OpenResults \/ WriteLine
           \/ CutLine \/ WriteSidecar \/ Interrupted
  <2>1. Exit => client'.pc = "exited"
    BY DEF Exit, Exited, NewRun
  <2>2. \A condition, next : Passes(condition, next) => client'.pc = next
    BY <1>1 DEF Passes, Clients
  <2>3. LevelEnds => client'.pc \in {"exited", "writing", "level"}
    BY <1>1, <2>1 DEF LevelEnds, LevelRows, Clients
  <2>4. CASE Invoke \/ CheckRecord \/ OpenResults \/ WriteLine
    <3>1. Invoke => client'.pc = "preflight"
      BY DEF Invoke, NewRun
    <3>2. CheckRecord => client'.pc = "exited" \/ client'.pc = "level"
      BY <1>1, <2>1 DEF CheckRecord, Clients
    <3>3. OpenResults \/ WriteLine => client'.pc \in {"appending", "recording"}
      BY <1>1 DEF OpenResults, WriteLine, Clients
    <3> QED  BY <1>4, <2>4, <3>1, <3>2, <3>3
  <2>5. CASE Preflight \/ RequireImage \/ WaitHealthy \/ WaitTimesOut \/ CheckTree \/ WarmupRatio
    <3>1. \/ Exit \/ Passes("idle", "image") \/ Passes("image", "waiting") \/ Passes("answered", "tree")
          \/ Passes("tree", "ratio") \/ Passes("ratio", "record")
      BY <2>5 DEF Preflight, RequireImage, WaitHealthy, WaitTimesOut, CheckTree, WarmupRatio
    <3>2. client'.pc \in {"exited", "image", "waiting", "tree", "ratio", "record"}
      BY <2>1, <2>2, <3>1
    <3> QED  BY <1>4, <3>2
  <2>6. CASE StatsAfter \/ NoStatsAfter
    <3>1. client'.pc \in {"exited", "writing", "level"}
      BY <2>3, <2>6 DEF StatsAfter, NoStatsAfter
    <3> QED  BY <1>4, <3>1
  <2>7. CASE CutLine \/ WriteSidecar \/ Interrupted
    BY <1>4, <2>1, <2>7 DEF CutLine, WriteSidecar, Interrupted
  <2> QED  BY <1>5, <2>4, <2>5, <2>6, <2>7
<1>6. CASE BeginLevel
  <2>1. client'.pc = "before" /\ client'.window.opened = stats /\ snap'.at = 1
    BY <1>1, <1>6 DEF BeginLevel, Clients, Windows
  <2> QED  BY <1>2, <1>3, <2>1 DEF Bracketed, ReadSince
<1>7. CASE BeginLevelUncounted
  <2>1. client'.pc = "load" /\ client'.window.opened = stats /\ client'.before = NoStats
    BY <1>1, <1>7 DEF BeginLevelUncounted, Clients, Windows
  <2> QED  BY <1>2, <1>3, <2>1 DEF Bracketed
<1>8. CASE StatsBefore
  <2>1. /\ client.pc = "before" /\ snap.at = Len(Fields) + 1
        /\ client'.pc = "load" /\ client'.window = client.window /\ client'.before[1] = snap.got
    BY <1>1, <1>8 DEF StatsBefore, KeepBefore, Clients
  <2>2. AtMost(client.window.opened, stats) /\ ReadSince(client.window.opened)
    BY <2>1 DEF Bracketed
  <2>3. \A f \in CUMULATIVE : \E i \in 1 .. Len(Fields) : f = Fields[i]
    BY FieldsAreFields DEF CUMULATIVE, FieldNames
  <2>4. AtMost(client.window.opened, snap.got) /\ AtMost(snap.got, stats)
    BY <2>1, <2>2, <2>3, FieldsAreFields DEF ReadSince, AtMost
  <2> QED  BY <1>2, <2>1, <2>2, <2>4 DEF Bracketed, Before
<1>9. CASE StartLoad
  <2>1. /\ client.pc = "load" /\ client'.pc = "loading" /\ client'.before = client.before
        /\ client'.window.opened = client.window.opened /\ client'.window.start = stats
    BY <1>1, <1>9 DEF StartLoad, Clients, Windows
  <2> QED  BY <1>2, <1>3, <2>1 DEF Bracketed, Before
<1>10. CASE EndLoad
  <2>1. /\ client.pc = "loading" /\ client'.pc = "asking" /\ client'.before = client.before
        /\ client'.window.opened = client.window.opened /\ client'.window.start = client.window.start
        /\ client'.window.end = stats
    BY <1>1, <1>10 DEF EndLoad, Clients, Windows
  <2> QED  BY <1>2, <1>3, <2>1 DEF Bracketed, Before
<1>11. CASE AskAfter
  <2>1. /\ client.pc = "asking" /\ client'.pc = "after" /\ client'.before = client.before
        /\ client'.window = client.window /\ snap'.at = 1
    BY <1>1, <1>11 DEF AskAfter, Clients
  <2> QED  BY <1>2, <2>1 DEF Bracketed, Before, ReadSince
<1>12. CASE Unread
  <2>1. client' = client /\ client.pc \notin {"before", "after"}
    BY <1>12 DEF Unread
  <2> QED  BY <1>2, <2>1 DEF Bracketed, Before
<1> QED
  BY <1>5, <1>6, <1>7, <1>8, <1>9, <1>10, <1>11, <1>12 DEF Client

\* Behind the inequalities the claim is arithmetic.
LEMMA BracketedCounts == TypeOK /\ Bracketed => LevelCounted
<1> SUFFICES ASSUME TypeOK, Bracketed, client.pc = "after", snap.at = Len(Fields) + 1,
                    client.before # NoStats, NEW f \in CUMULATIVE
             PROVE  /\ snap.got[f] - Before[f] >= client.window.end[f] - client.window.start[f]
                    /\ snap.got[f] - Before[f] <= stats[f] - client.window.opened[f]
  BY DEF LevelCounted, StatsDelta, Before
<1>1. client \in Clients /\ client.window \in Windows /\ stats \in Counters /\ snap.got \in Counters
  BY DEF TypeOK, CountersOK, Clients
<1>2. f \in FieldNames /\ Before \in Counters
  BY <1>1 DEF CUMULATIVE, Clients, Optional, NoStats, Before
<1>3. /\ client.window.opened[f] \in Nat /\ client.window.start[f] \in Nat /\ client.window.end[f] \in Nat
      /\ stats[f] \in Nat /\ snap.got[f] \in Nat /\ Before[f] \in Nat
  BY <1>1, <1>2 DEF Windows, Counters
<1>4. PICK i \in 1 .. Len(Fields) : f = Fields[i]
  BY <1>2, FieldsAreFields DEF FieldNames
<1>5. client.window.end[f] <= snap.got[f] /\ snap.got[f] <= stats[f]
  BY <1>4, FieldsAreFields DEF Bracketed, ReadSince
<1>6. client.window.opened[f] <= Before[f] /\ Before[f] <= client.window.start[f]
  BY DEF Bracketed, AtMost
<1> QED  BY <1>3, <1>5, <1>6

LEMMA InitTypes == Init => TypeOK /\ Bracketed
<1> SUFFICES ASSUME Init PROVE TypeOK /\ Bracketed
  OBVIOUS
<1>1. client \in Clients /\ client.pc = "exited"
  BY NewClients DEF Init, Exited, NewRun
<1>2. stats \in Counters /\ counting.at = 0 /\ snap \in [at : 0 .. Len(Fields) + 1, got : Counters]
  BY ZerosCount, FieldsAreFields DEF Init, FrontendInit, NotCounting, NoSnap
<1> QED  BY <1>1, <1>2, FieldsAreFields DEF TypeOK, CountersOK, Bracketed

LEMMA StepTypes == TypeOK /\ Bracketed /\ [Next]_vars => TypeOK' /\ Bracketed'
<1> SUFFICES ASSUME TypeOK, Bracketed, [Next]_vars PROVE TypeOK' /\ Bracketed'
  OBVIOUS
<1>1. CASE Client
  BY <1>1, ClientTypes, ClientBracketed
<1>2. CASE Frontend /\ UNCHANGED <<client, csv, sidecars>>
  <2>1. CountersOK'
    BY <1>2, FrontendGrows DEF TypeOK
  <2> QED  BY <1>2, <2>1, FrontendBracketed DEF TypeOK
<1>3. CASE UNCHANGED vars
  <2>1. UNCHANGED <<stats, counting, snap, client>>
    BY <1>3 DEF vars
  <2> QED  BY <2>1 DEF TypeOK, CountersOK, Bracketed, Before, ReadSince, AtMost
<1> QED  BY <1>1, <1>2, <1>3 DEF Next

\* The counters, the snapshots and what the client keeps are what they should be.
THEOREM ServingTypes == Spec => []TypeOK
BY InitTypes, StepTypes, PTL DEF Spec

\* EngineStats.snapshot and stats_delta: the counters of a level hold every step counted while it
\* was loaded and none from outside it, for any fields followed in any order, any batches and any
\* number of levels, although snapshots are read a field at a time while steps are being recorded.
THEOREM ServingLevelCounted == Spec => []LevelCounted
BY InitTypes, StepTypes, BracketedCounts, PTL DEF Spec

-----------------------------------------------------------------------------
(* What a run leaves in the results file *)

Measuring == {"level", "before", "load", "loading", "asking", "after"}

\* A run has met the conditions that lie behind it, and every level it has kept ended well.
RunOK(c) ==
  /\ c.pc = "preflight" => c.passed = {}
  /\ c.pc = "image" => c.passed = {"idle"}
  /\ c.pc = "waiting" => c.passed = {"idle", "image"}
  /\ c.pc = "tree" => c.passed = {"idle", "image", "answered"}
  /\ c.pc = "ratio" => c.passed = {"idle", "image", "answered", "tree"}
  /\ c.pc \in {"record", "writing", "appending"} \cup Measuring => c.passed = Conditions
  /\ c.pc \in {"writing", "appending"} \cup Measuring => c.lacks = {}
  /\ c.pc \in {"preflight", "image", "waiting", "tree", "ratio", "record"} => c.measured = <<>>
  /\ c.pc \in Measuring => Len(c.measured) < Levels
  /\ c.pc \in {"writing", "appending"} => Len(c.measured) = Levels
  /\ \A k \in 1 .. Len(c.measured) : c.measured[k] = 0

Lines == [run : Nat, level : Nat, passed : SUBSET Conditions, lacks : SUBSET MayLack,
          levels : Seq(Levelled), cut : BOOLEAN]

\* The rows of level k of run r stand in the file.
HasRows(r, k) ==
  \E i \in 1 .. Len(csv.lines) : csv.lines[i].run = r /\ csv.lines[i].level = k /\ ~ csv.lines[i].cut

\* The run under way has no line before it opens the file, then whole lines up to the one it is at,
\* then all of them; a header is due only in a file that has nothing.
FileOK ==
  /\ csv \in [exists : BOOLEAN, lines : Seq(Lines)]
  /\ ~ csv.exists => csv.lines = <<>>
  /\ \A i \in 1 .. Len(csv.lines) :
       /\ csv.lines[i].run <= client.run
       /\ client.pc \notin {"appending", "recording", "exited"} => csv.lines[i].run < client.run
       /\ (client.pc = "appending" /\ csv.lines[i].run = client.run) =>
            csv.lines[i].level < client.line /\ ~ csv.lines[i].cut
  /\ client.pc = "appending" =>
       /\ csv.exists
       /\ client.line \in 0 .. Levels /\ (client.line = 0 => csv.lines = <<>>)
       /\ \A k \in 1 .. client.line - 1 : HasRows(client.run, k)
  /\ client.pc = "recording" => \A k \in 1 .. Levels : HasRows(client.run, k)

Kept == TypeOK /\ RunOK(client) /\ FileOK /\ SidecarVouches

LEMMA NewRunOK ==
  ASSUME NEW run \in Nat
  PROVE  RunOK(NewRun(run)) /\ RunOK(Exited(run))
BY DEF RunOK, NewRun, Exited, Measuring

\* missing_fairness lets a record through only if nothing is missing.
LEMMA NothingMissing ==
  ASSUME NEW lacks \in SUBSET MayLack, MissingFairness(FairnessRecord(lacks)) = {}
  PROVE  lacks = {}
<1>1. \A f \in lacks : f \in FAIRNESS
  BY DEF MayLack, FAIRNESS
<1>2. \A f \in FAIRNESS : f \notin lacks
  BY DEF MissingFairness, FairnessRecord
<1> QED  BY <1>1, <1>2

\* Every step of the client keeps its run in order.
LEMMA RunKept ==
  ASSUME TypeOK, RunOK(client), Client
  PROVE  RunOK(client')
<1>1. client \in Clients /\ client.run \in Nat /\ client.measured \in Seq(Levelled)
  BY DEF TypeOK, Clients
<1>2. Exit => RunOK(client')
  BY <1>1, NewRunOK DEF Exit
<1>3. Levels \in Nat \ {0}
  BY ServingAssumption
<1>4. CASE Invoke
  BY <1>1, <1>4, NewRunOK DEF Invoke
<1>5. CASE Preflight \/ RequireImage \/ WaitHealthy \/ WaitTimesOut \/ CheckTree \/ WarmupRatio
  <2>1. \/ Exit
        \/ client.pc = "preflight" /\ Passes("idle", "image")
        \/ client.pc = "image" /\ Passes("image", "waiting")
        \/ client.pc = "waiting" /\ Passes("answered", "tree")
        \/ client.pc = "tree" /\ Passes("tree", "ratio")
        \/ client.pc = "ratio" /\ Passes("ratio", "record")
    BY <1>5 DEF Preflight, RequireImage, WaitHealthy, WaitTimesOut, CheckTree, WarmupRatio
  <2>2. ASSUME NEW condition, NEW next, Passes(condition, next)
        PROVE  /\ client'.pc = next /\ client'.passed = client.passed \cup {condition}
               /\ client'.measured = client.measured
    BY <1>1, <2>2 DEF Passes, Clients
  <2>3. client.pc \in {"preflight", "image", "waiting", "tree", "ratio"} => client.measured = <<>>
    BY DEF RunOK
  <2>4. CASE client.pc = "preflight" /\ Passes("idle", "image")
    BY <2>2, <2>3, <2>4 DEF RunOK, Measuring
  <2>5. CASE client.pc = "image" /\ Passes("image", "waiting")
    BY <2>2, <2>3, <2>5 DEF RunOK, Measuring
  <2>6. CASE client.pc = "waiting" /\ Passes("answered", "tree")
    BY <2>2, <2>3, <2>6 DEF RunOK, Measuring
  <2>7. CASE client.pc = "tree" /\ Passes("tree", "ratio")
    BY <2>2, <2>3, <2>7 DEF RunOK, Measuring
  <2>8. CASE client.pc = "ratio" /\ Passes("ratio", "record")
    BY <2>2, <2>3, <2>8 DEF RunOK, Measuring, Conditions
  <2> QED  BY <1>2, <2>1, <2>4, <2>5, <2>6, <2>7, <2>8
<1>6. CASE CheckRecord
  <2>1. PICK lacks \in SUBSET MayLack :
          IF MissingFairness(FairnessRecord(lacks)) # {} THEN Exit
          ELSE client' = [client EXCEPT !.pc = "level", !.lacks = lacks]
    BY <1>6 DEF CheckRecord
  <2>2. CASE MissingFairness(FairnessRecord(lacks)) # {}
    BY <1>2, <2>1, <2>2
  <2>3. CASE MissingFairness(FairnessRecord(lacks)) = {}
    <3>1. lacks = {}
      BY <2>3, NothingMissing
    <3>2. client.pc = "record" /\ client.measured = <<>> /\ client.passed = Conditions
      BY <1>6 DEF CheckRecord, RunOK
    <3>3. /\ client'.pc = "level" /\ client'.lacks = {} /\ client'.measured = <<>>
          /\ client'.passed = Conditions
      BY <1>1, <2>1, <2>3, <3>1, <3>2 DEF Clients
    <3> QED  BY <1>3, <3>3 DEF RunOK, Measuring
  <2> QED  BY <2>2, <2>3
<1>7. CASE BeginLevel \/ BeginLevelUncounted \/ StatsBefore \/ StartLoad \/ EndLoad \/ AskAfter
  <2>1. client.pc \in Measuring
    BY <1>7 DEF BeginLevel, BeginLevelUncounted, StatsBefore, StartLoad, EndLoad, AskAfter, Measuring
  <2>2. /\ client'.pc \in Measuring /\ client'.passed = client.passed /\ client'.lacks = client.lacks
        /\ client'.measured = client.measured
    BY <1>1, <1>7
    DEF BeginLevel, BeginLevelUncounted, StatsBefore, StartLoad, EndLoad, AskAfter, Measuring, Clients
  <2> QED  BY <2>1, <2>2 DEF RunOK, Measuring
<1>8. CASE StatsAfter \/ NoStatsAfter
  <2>1. client.pc \in {"asking", "after"}
    BY <1>8 DEF StatsAfter, NoStatsAfter
  <2>2. LevelEnds
    BY <1>8 DEF StatsAfter, NoStatsAfter
  <2>3. CASE Exit
    BY <1>2, <2>3
  <2>4. CASE ~ Exit
    <3> DEFINE m == Append(client.measured, client.rc)
    <3>1. /\ client.rc = 0 /\ client'.measured = m /\ client'.passed = client.passed
          /\ client'.lacks = client.lacks
          /\ client'.pc = IF Len(client.measured) + 1 = Levels THEN "writing" ELSE "level"
      BY <1>1, <2>2, <2>4 DEF LevelEnds, LevelRows, Clients
    <3>2. /\ Len(client.measured) \in Nat /\ Len(m) = Len(client.measured) + 1
          /\ m[Len(m)] = client.rc
          /\ \A k \in 1 .. Len(client.measured) : m[k] = client.measured[k]
      BY <1>1
    <3> HIDE DEF m
    <3>3. /\ Len(client.measured) < Levels /\ client.passed = Conditions /\ client.lacks = {}
          /\ \A k \in 1 .. Len(client.measured) : client.measured[k] = 0
      BY <2>1 DEF RunOK, Measuring
    <3>4. \A k \in 1 .. Len(m) : m[k] = 0
      BY <3>1, <3>2, <3>3
    <3>5. \/ client'.pc = "writing" /\ Len(m) = Levels
          \/ client'.pc = "level" /\ Len(m) < Levels
      BY <1>3, <3>1, <3>2, <3>3
    <3> QED  BY <3>1, <3>3, <3>4, <3>5 DEF RunOK, Measuring
  <2> QED  BY <2>3, <2>4
<1>9. CASE OpenResults \/ WriteLine
  <2>1. /\ client.pc \in {"writing", "appending"} /\ client'.pc \in {"appending", "recording"}
        /\ client'.passed = client.passed /\ client'.lacks = client.lacks
        /\ client'.measured = client.measured
    BY <1>1, <1>9 DEF OpenResults, WriteLine, Clients
  <2> QED  BY <2>1 DEF RunOK, Measuring
<1>10. CASE CutLine \/ WriteSidecar \/ Interrupted
  BY <1>2, <1>10 DEF CutLine, WriteSidecar, Interrupted
<1>11. CASE Unread
  BY <1>11 DEF Unread
<1> QED  BY <1>4, <1>5, <1>6, <1>7, <1>8, <1>9, <1>10, <1>11 DEF Client

LEMMA LinesTyped ==
  ASSUME FileOK
  PROVE  /\ csv.lines \in Seq(Lines) /\ Len(csv.lines) \in Nat /\ DOMAIN csv.lines = 1 .. Len(csv.lines)
         /\ \A i \in 1 .. Len(csv.lines) : csv.lines[i].run \in Nat /\ csv.lines[i].level \in Nat
<1>1. csv.lines \in Seq(Lines)
  BY DEF FileOK
<1>2. /\ Len(csv.lines) \in Nat /\ DOMAIN csv.lines = 1 .. Len(csv.lines)
      /\ \A i \in 1 .. Len(csv.lines) : csv.lines[i] \in Lines
  BY <1>1
<1> QED  BY <1>1, <1>2 DEF Lines

\* Steps that leave the results file alone, and neither begin a run nor go on with its lines.
LEMMA FileUntouched ==
  ASSUME Kept, UNCHANGED <<csv, sidecars>>, client'.run = client.run,
         \/ client'.pc = "exited"
         \/ client' = client
         \/ client.pc \notin {"appending", "recording", "exited"} /\ client'.pc \notin {"appending", "recording"}
  PROVE  FileOK' /\ SidecarVouches'
<1>1. SidecarVouches'
  BY DEF Kept, SidecarVouches, Follows
<1>2. FileOK'
  BY DEF Kept, FileOK, HasRows
<1> QED  BY <1>1, <1>2

\* The file is opened: nothing of this run is in it yet.
LEMMA FileOpened ==
  ASSUME Kept, OpenResults
  PROVE  FileOK' /\ SidecarVouches'
<1>1. /\ client \in Clients /\ client.pc = "writing" /\ csv \in [exists : BOOLEAN, lines : Seq(Lines)]
      /\ Levels \in Nat \ {0}
  BY ServingAssumption DEF Kept, TypeOK, FileOK, OpenResults
<1>2. /\ csv' \in [exists : BOOLEAN, lines : Seq(Lines)] /\ csv'.exists /\ csv'.lines = csv.lines
      /\ sidecars' = sidecars
  BY <1>1 DEF OpenResults
<1>3. /\ client'.pc = "appending" /\ client'.run = client.run
      /\ client'.line = IF csv.exists THEN 1 ELSE 0
  BY <1>1 DEF OpenResults, Clients
<1>4. \A i \in 1 .. Len(csv.lines) : csv.lines[i].run < client.run /\ csv.lines[i].run \in Nat
  BY <1>1, LinesTyped DEF Kept, FileOK
<1>5. client.run \in Nat /\ (~ csv.exists => csv.lines = <<>>)
  BY <1>1 DEF Kept, FileOK, Clients
<1>6. \A i \in 1 .. Len(csv'.lines) : csv'.lines[i].run <= client'.run /\ csv'.lines[i].run # client'.run
  BY <1>2, <1>3, <1>4, <1>5
<1>7. /\ client'.line \in 0 .. Levels /\ (client'.line = 0 => csv'.lines = <<>>)
      /\ \A k \in 1 .. client'.line - 1 : FALSE
  BY <1>1, <1>2, <1>3, <1>5
<1>8. FileOK'
  BY <1>2, <1>3, <1>6, <1>7 DEF FileOK
<1>9. SidecarVouches'
  BY <1>2 DEF Kept, SidecarVouches, Follows
<1> QED  BY <1>8, <1>9

\* One more line in the results file, whole or cut.
LEMMA FileGrows ==
  ASSUME Kept, client.pc = "appending", NEW cut \in BOOLEAN,
         csv' = [csv EXCEPT !.lines = Append(@, LineOf(client.line, cut))], sidecars' = sidecars
  PROVE  /\ SidecarVouches'
         /\ csv' \in [exists : BOOLEAN, lines : Seq(Lines)]
         /\ Len(csv.lines) \in Nat /\ Len(csv'.lines) = Len(csv.lines) + 1
         /\ ~ csv'.exists => csv'.lines = <<>>
         /\ \A i \in 1 .. Len(csv.lines) : csv'.lines[i] = csv.lines[i]
         /\ csv'.lines[Len(csv.lines) + 1] = LineOf(client.line, cut)
<1> DEFINE n    == Len(csv.lines)
           line == LineOf(client.line, cut)
<1>1. /\ client \in Clients /\ csv \in [exists : BOOLEAN, lines : Seq(Lines)] /\ client.run \in Nat
      /\ client.line \in 0 .. Levels /\ Levels \in Nat \ {0}
  BY ServingAssumption DEF Kept, TypeOK, FileOK, Clients
<1>2. line \in Lines
  BY <1>1 DEF LineOf, Clients, Lines
<1>3. /\ line.run = client.run /\ line.level = client.line /\ line.cut = cut
      /\ line.passed = Conditions /\ line.lacks = {} /\ Len(line.levels) = Levels
      /\ \A k \in 1 .. Levels : line.levels[k] = 0
  BY <1>1 DEF Kept, RunOK, LineOf
<1>4. csv' = [csv EXCEPT !.lines = Append(@, line)]
  OBVIOUS
<1> HIDE DEF line
<1>5. csv' \in [exists : BOOLEAN, lines : Seq(Lines)] /\ csv'.lines = Append(csv.lines, line) /\ csv'.exists = csv.exists
  BY <1>1, <1>2, <1>4
<1>6. /\ n \in Nat /\ Len(csv'.lines) = n + 1 /\ csv'.lines[n + 1] = line
      /\ \A i \in 1 .. n : csv'.lines[i] = csv.lines[i]
      /\ DOMAIN csv.lines = 1 .. n /\ DOMAIN csv'.lines = 1 .. n + 1
  BY <1>1, <1>2, <1>5
<1>7. csv.exists
  BY DEF Kept, FileOK
<1>8. ASSUME NEW i \in 1 .. n
      PROVE  csv.lines[i].run < client.run \/
               (csv.lines[i].run = client.run /\ csv.lines[i].level < client.line /\ ~ csv.lines[i].cut)
  BY <1>1, <1>8, LinesTyped DEF Kept, FileOK
<1>9. client.line = 0 => n = 0
  BY <1>1 DEF Kept, FileOK
<1>10. ASSUME NEW i \in 1 .. n + 1
       PROVE  LET a == csv'.lines[i] IN
              /\ a.passed = Conditions /\ a.lacks = {}
              /\ Len(a.levels) = Levels /\ \A k \in 1 .. Levels : a.levels[k] = 0
              /\ a.level = 0 => i = 1
              /\ \A j \in 1 .. n + 1 : i < j => Follows(i, j)'
  <2>1. CASE i = n + 1
    BY <1>3, <1>6, <1>9, <2>1
  <2>2. CASE i # n + 1
    <3>1. i \in 1 .. n /\ csv'.lines[i] = csv.lines[i]
      BY <1>6, <1>10, <2>2
    <3>2. LET a == csv.lines[i] IN
          /\ a.passed = Conditions /\ a.lacks = {}
          /\ Len(a.levels) = Levels /\ \A k \in 1 .. Levels : a.levels[k] = 0
          /\ a.level = 0 => i = 1
          /\ \A j \in 1 .. n : i < j => Follows(i, j)
      BY <1>6, <3>1 DEF Kept, SidecarVouches, Conditions
    <3>3. ASSUME NEW j \in 1 .. n + 1, i < j
          PROVE  Follows(i, j)'
      <4>1. CASE j = n + 1
        BY <1>3, <1>6, <1>8, <3>1, <4>1 DEF Follows
      <4>2. CASE j # n + 1
        <5>1. j \in 1 .. n /\ csv'.lines[j] = csv.lines[j]
          BY <1>6, <3>3, <4>2
        <5> QED  BY <3>1, <3>2, <3>3, <5>1 DEF Follows
      <4> QED  BY <4>1, <4>2
    <3> QED  BY <3>1, <3>2, <3>3
  <2> QED  BY <2>1, <2>2
<1>11. ASSUME NEW r \in sidecars', NEW k \in 1 .. Levels
       PROVE  \E i \in 1 .. n + 1 : csv'.lines[i].run = r /\ csv'.lines[i].level = k /\ ~ csv'.lines[i].cut
  <2>1. PICK i \in 1 .. n : csv.lines[i].run = r /\ csv.lines[i].level = k /\ ~ csv.lines[i].cut
    BY <1>6 DEF Kept, SidecarVouches
  <2> QED  BY <1>6, <2>1
<1>12. SidecarVouches'
  BY <1>6, <1>10, <1>11 DEF SidecarVouches, Conditions
<1> QED  BY <1>5, <1>6, <1>7, <1>12 DEF line

LEMMA LineWritten ==
  ASSUME Kept, WriteLine
  PROVE  FileOK' /\ SidecarVouches'
<1> DEFINE n == Len(csv.lines)
<1>1. /\ client \in Clients /\ client.run \in Nat /\ client.pc = "appending"
      /\ client.line \in 0 .. Levels /\ Levels \in Nat \ {0}
  BY ServingAssumption DEF Kept, TypeOK, FileOK, Clients, WriteLine
<1>2. csv' = [csv EXCEPT !.lines = Append(@, LineOf(client.line, FALSE))] /\ sidecars' = sidecars
  BY DEF WriteLine
<1>3. /\ SidecarVouches' /\ csv' \in [exists : BOOLEAN, lines : Seq(Lines)]
      /\ n \in Nat /\ Len(csv'.lines) = n + 1 /\ (~ csv'.exists => csv'.lines = <<>>)
      /\ \A i \in 1 .. n : csv'.lines[i] = csv.lines[i]
      /\ csv'.lines[n + 1] = LineOf(client.line, FALSE)
  BY <1>1, <1>2, FileGrows
<1>4. /\ csv'.lines[n + 1].run = client.run /\ csv'.lines[n + 1].level = client.line
      /\ ~ csv'.lines[n + 1].cut
  BY <1>3 DEF LineOf
<1>5. /\ client'.run = client.run /\ client'.line = client.line + 1
      /\ client'.pc = IF client.line = Levels THEN "recording" ELSE "appending"
  BY <1>1 DEF WriteLine, Clients
<1>6. ASSUME NEW k \in 1 .. client.line
      PROVE  HasRows(client.run, k)'
  <2>1. CASE k = client.line
    <3>1. n + 1 \in 1 .. Len(csv'.lines)
      BY <1>3
    <3> QED  BY <1>4, <1>5, <2>1, <3>1 DEF HasRows
  <2>2. CASE k # client.line
    <3>1. k \in 1 .. client.line - 1
      BY <1>1, <1>6, <2>2
    <3>2. HasRows(client.run, k)
      BY <1>1, <3>1 DEF Kept, FileOK
    <3>3. PICK i \in 1 .. n : csv.lines[i].run = client.run /\ csv.lines[i].level = k /\ ~ csv.lines[i].cut
      BY <3>2 DEF HasRows
    <3>4. i \in 1 .. Len(csv'.lines) /\ csv'.lines[i] = csv.lines[i]
      BY <1>3, <3>3
    <3> QED  BY <1>5, <3>3, <3>4 DEF HasRows
  <2> QED  BY <2>1, <2>2
<1>7. ASSUME NEW i \in 1 .. Len(csv'.lines)
      PROVE  /\ csv'.lines[i].run <= client.run
             /\ csv'.lines[i].run = client.run => csv'.lines[i].level < client.line + 1 /\ ~ csv'.lines[i].cut
  <2>1. CASE i = n + 1
    BY <1>1, <1>4, <2>1
  <2>2. CASE i # n + 1
    <3>1. i \in 1 .. n /\ csv'.lines[i] = csv.lines[i]
      BY <1>3, <1>7, <2>2
    <3>2. csv.lines[i].run <= client.run /\ csv.lines[i].level \in Nat
      BY <3>1, LinesTyped DEF Kept, FileOK
    <3>3. csv.lines[i].run = client.run => csv.lines[i].level < client.line /\ ~ csv.lines[i].cut
      BY <1>1, <3>1 DEF Kept, FileOK
    <3> QED  BY <1>1, <3>1, <3>2, <3>3
  <2> QED  BY <2>1, <2>2
<1>8. CASE client.line = Levels
  BY <1>3, <1>5, <1>6, <1>7, <1>8 DEF FileOK
<1>9. CASE client.line # Levels
  <2>1. /\ client'.line \in 0 .. Levels /\ client'.line # 0 /\ client'.line - 1 = client.line
    BY <1>1, <1>5, <1>9
  <2>2. \A k \in 1 .. client'.line - 1 : HasRows(client.run, k)'
    BY <1>6, <2>1
  <2> QED  BY <1>3, <1>5, <1>7, <1>9, <2>1, <2>2 DEF FileOK
<1> QED  BY <1>3, <1>8, <1>9

LEMMA LineCut ==
  ASSUME Kept, CutLine
  PROVE  FileOK' /\ SidecarVouches'
<1> DEFINE n == Len(csv.lines)
<1>1. client \in Clients /\ client.run \in Nat /\ client.pc = "appending"
  BY DEF Kept, TypeOK, Clients, CutLine
<1>2. csv' = [csv EXCEPT !.lines = Append(@, LineOf(client.line, TRUE))] /\ sidecars' = sidecars
  BY DEF CutLine
<1>3. /\ SidecarVouches' /\ csv' \in [exists : BOOLEAN, lines : Seq(Lines)]
      /\ n \in Nat /\ Len(csv'.lines) = n + 1 /\ (~ csv'.exists => csv'.lines = <<>>)
      /\ \A i \in 1 .. n : csv'.lines[i] = csv.lines[i]
      /\ csv'.lines[n + 1] = LineOf(client.line, TRUE)
  BY <1>1, <1>2, FileGrows
<1>4. csv'.lines[n + 1].run = client.run
  BY <1>3 DEF LineOf
<1>5. client'.run = client.run /\ client'.pc = "exited"
  BY DEF CutLine, Exit, Exited, NewRun
<1>6. \A i \in 1 .. n : csv.lines[i].run <= client.run
  BY DEF Kept, FileOK
<1>7. ASSUME NEW i \in 1 .. Len(csv'.lines)
      PROVE  csv'.lines[i].run <= client'.run
  <2>1. i = n + 1 \/ i \in 1 .. n
    BY <1>3
  <2>2. CASE i = n + 1
    BY <1>1, <1>4, <1>5, <2>2
  <2>3. CASE i \in 1 .. n
    BY <1>3, <1>5, <1>6, <2>3
  <2> QED  BY <2>1, <2>2, <2>3
<1> QED  BY <1>3, <1>5, <1>7 DEF FileOK

LEMMA InitKept == Init => Kept
<1> SUFFICES ASSUME Init PROVE Kept
  OBVIOUS
<1>1. RunOK(client)
  BY NewRunOK DEF Init
<1>2. csv = [exists |-> FALSE, lines |-> <<>>] /\ sidecars = {} /\ client.pc = "exited"
  BY DEF Init, Exited, NewRun
<1>3. csv \in [exists : BOOLEAN, lines : Seq(Lines)] /\ csv.lines = <<>>
  BY <1>2
<1> QED  BY <1>1, <1>2, <1>3, InitTypes DEF Kept, FileOK, SidecarVouches

LEMMA StepKept == Kept /\ TypeOK' /\ [Next]_vars => Kept'
<1> SUFFICES ASSUME Kept, TypeOK', [Next]_vars PROVE Kept'
  OBVIOUS
<1>1. client \in Clients /\ client.run \in Nat /\ TypeOK
  BY DEF Kept, TypeOK, Clients
<1>2. CASE Client
  <2>1. RunOK(client')
    BY <1>2, RunKept DEF Kept
  <2>2. Exit => client'.pc = "exited" /\ client'.run = client.run
    BY DEF Exit, Exited, NewRun
  <2>3. CASE Invoke
    <3>1. client'.pc = "preflight" /\ client'.run = client.run + 1 /\ UNCHANGED <<csv, sidecars>>
      BY <2>3 DEF Invoke, Elsewhere, NewRun
    <3>2. \A i \in 1 .. Len(csv.lines) : csv.lines[i].run <= client.run /\ csv.lines[i].run \in Nat
      BY LinesTyped DEF Kept, FileOK
    <3>3. \A i \in 1 .. Len(csv.lines) :
            csv.lines[i].run < client.run + 1 /\ csv.lines[i].run <= client.run + 1
      BY <1>1, <3>2
    <3>4. FileOK'
      BY <3>1, <3>3 DEF Kept, FileOK
    <3>5. SidecarVouches'
      BY <3>1 DEF Kept, SidecarVouches, Follows
    <3> QED  BY <2>1, <3>4, <3>5 DEF Kept
  <2>4. CASE Preflight \/ RequireImage \/ WaitHealthy \/ WaitTimesOut \/ CheckTree \/ WarmupRatio
    <3>1. /\ UNCHANGED <<csv, sidecars>> /\ client.pc \notin {"appending", "recording", "exited"}
          /\ \/ Exit \/ Passes("idle", "image") \/ Passes("image", "waiting") \/ Passes("answered", "tree")
             \/ Passes("tree", "ratio") \/ Passes("ratio", "record")
      BY <2>4 DEF Preflight, RequireImage, WaitHealthy, WaitTimesOut, CheckTree, WarmupRatio, Elsewhere
    <3>2. ASSUME NEW condition, NEW next, Passes(condition, next)
          PROVE  client'.pc = next /\ client'.run = client.run
      BY <1>1, <3>2 DEF Passes, Clients
    <3>3. client'.run = client.run /\ client'.pc \notin {"appending", "recording"}
      BY <2>2, <3>1, <3>2
    <3> QED  BY <2>1, <3>1, <3>3, FileUntouched DEF Kept
  <2>5. CASE CheckRecord
    <3>1. UNCHANGED <<csv, sidecars>> /\ client.pc = "record"
      BY <2>5 DEF CheckRecord, Elsewhere
    <3>2. client'.run = client.run /\ client'.pc \notin {"appending", "recording"}
      BY <1>1, <2>2, <2>5 DEF CheckRecord, Clients
    <3> QED  BY <2>1, <3>1, <3>2, FileUntouched DEF Kept
  <2>6. CASE BeginLevel \/ BeginLevelUncounted \/ StatsBefore \/ StartLoad \/ EndLoad \/ AskAfter
    <3>1. UNCHANGED <<csv, sidecars>> /\ client.pc \notin {"appending", "recording", "exited"}
      BY <2>6 DEF BeginLevel, BeginLevelUncounted, StatsBefore, StartLoad, EndLoad, AskAfter
    <3>2. client'.run = client.run /\ client'.pc \notin {"appending", "recording"}
      BY <1>1, <2>6 DEF BeginLevel, BeginLevelUncounted, StatsBefore, StartLoad, EndLoad, AskAfter, Clients
    <3> QED  BY <2>1, <3>1, <3>2, FileUntouched DEF Kept
  <2>7. CASE StatsAfter \/ NoStatsAfter
    <3>1. UNCHANGED <<csv, sidecars>> /\ client.pc \notin {"appending", "recording", "exited"}
      BY <2>7 DEF StatsAfter, NoStatsAfter
    <3>2. LevelEnds
      BY <2>7 DEF StatsAfter, NoStatsAfter
    <3>3. client'.run = client.run /\ client'.pc \notin {"appending", "recording"}
      BY <1>1, <2>2, <3>2 DEF LevelEnds, LevelRows, Clients
    <3> QED  BY <2>1, <3>1, <3>3, FileUntouched DEF Kept
  <2>8. CASE OpenResults \/ WriteLine \/ CutLine
    BY <2>1, <2>8, FileOpened, LineWritten, LineCut DEF Kept
  <2>9. CASE WriteSidecar
    <3>1. /\ client.pc = "recording" /\ csv' = csv /\ sidecars' = sidecars \cup {client.run}
          /\ client'.pc = "exited" /\ client'.run = client.run
      BY <2>2, <2>9 DEF WriteSidecar
    <3>2. \A k \in 1 .. Levels : \E i \in DOMAIN csv.lines :
            csv.lines[i].run = client.run /\ csv.lines[i].level = k /\ ~ csv.lines[i].cut
      BY <3>1, LinesTyped DEF Kept, FileOK, HasRows
    <3>3. SidecarVouches'
      BY <3>1, <3>2 DEF Kept, SidecarVouches, Follows
    <3>4. FileOK'
      BY <3>1 DEF Kept, FileOK
    <3> QED  BY <2>1, <3>3, <3>4 DEF Kept
  <2>10. CASE Interrupted
    <3>1. UNCHANGED <<csv, sidecars>> /\ client'.pc = "exited" /\ client'.run = client.run
      BY <2>2, <2>10 DEF Interrupted, Elsewhere
    <3> QED  BY <2>1, <3>1, FileUntouched DEF Kept
  <2>11. CASE Unread
    BY <2>1, <2>11, FileUntouched DEF Unread, Kept
  <2> QED  BY <1>2, <2>3, <2>4, <2>5, <2>6, <2>7, <2>8, <2>9, <2>10, <2>11 DEF Client
<1>3. CASE UNCHANGED <<client, csv, sidecars>>
  BY <1>3, FileUntouched DEF Kept, RunOK
<1> QED  BY <1>2, <1>3 DEF Next, vars

\* main of bench/serving.py: whatever is in the results file comes from runs that met every
\* condition, lack no field of the fairness record and measured every level, in order and apart
\* from one another, and a run with a sidecar has all its rows there, for any number of levels and
\* of runs, wherever they are interrupted, in the middle of a line too.
THEOREM ServingSidecarVouches == Spec => []SidecarVouches
<1>1. Init => Kept
  BY InitKept
<1>2. Kept /\ TypeOK' /\ [Next]_vars => Kept'
  BY StepKept
<1>3. Kept => SidecarVouches
  BY DEF Kept
<1> QED  BY <1>1, <1>2, <1>3, ServingTypes, PTL DEF Spec

-----------------------------------------------------------------------------
(* Requests that are accepted *)

\* The context of a paged server is no larger than its pool.
PoolHoldsContext ==
  /\ server.num_blocks \in Int /\ server.context_len \in Int /\ server.paged \in BOOLEAN
  /\ (server.up /\ server.paged) => server.context_len <= server.num_blocks * BlockSize

\* Scheduler._blocks_for rounds up, but not past what already holds the tokens.
LEMMA BlocksForFits ==
  ASSUME NEW n \in Nat, NEW blocks \in Int, n <= blocks * BlockSize
  PROVE  BlocksFor(n) <= blocks
<1>1. BlockSize \in Nat \ {0}
  BY FrontendAssumption
<1> DEFINE q == BlocksFor(n)
<1>2. q \in Int /\ q * BlockSize <= n + BlockSize - 1
  BY <1>1 DEF BlocksFor
<1> HIDE DEF q
<1>3. q * BlockSize < (blocks + 1) * BlockSize
  BY <1>1, <1>2
<1>4. q < blocks + 1
  BY <1>1, <1>2, <1>3
<1>5. q <= blocks
  BY <1>2, <1>4
<1> QED  BY <1>5 DEF q

LEMMA StartFits ==
  ASSUME NEW paged \in BOOLEAN, NEW dirty \in BOOLEAN, NEW budget \in Budgets, NEW tokens \in PoolTokens,
         StartServer(paged, budget, tokens, dirty)
  PROVE  PoolHoldsContext'
<1> DEFINE blocks == PoolBlocks(budget, tokens)
<1>1. BlockSize \in Nat \ {0} /\ BlockBytes \in Nat \ {0} /\ MaxPosition \in Nat \ {0} /\ budget \in Int
  BY FrontendAssumption
<1>2. tokens # <<>> => tokens[1] \in Int
  BY FrontendAssumption DEF Optional
<1>3. blocks \in Int
  BY <1>1, <1>2 DEF PoolBlocks, MaxBlocks
<1>4. /\ server'.up /\ server'.paged = paged /\ server'.num_blocks = IF paged THEN blocks ELSE 0
      /\ server'.context_len = IF paged /\ blocks * BlockSize < MaxPosition THEN blocks * BlockSize
                               ELSE MaxPosition
  BY DEF StartServer, Description, ContextLen
<1> HIDE DEF blocks
<1>5. blocks * BlockSize \in Int
  BY <1>1, <1>3
<1> QED  BY <1>1, <1>3, <1>4, <1>5 DEF PoolHoldsContext

LEMMA HeldIsTaken == PoolHoldsContext => AcceptedFits
<1> SUFFICES ASSUME PoolHoldsContext, server.up, NEW r \in Requests, Accepted(r), server.paged
             PROVE  BlocksFor(r.prompt + MaxNew(r)) <= server.num_blocks
  BY DEF AcceptedFits, AddTakes
<1>1. r.prompt \in Nat
  BY FrontendAssumption DEF RequestType
<1>2. server.context_len \in Int /\ server.num_blocks \in Int
      /\ server.context_len <= server.num_blocks * BlockSize
  BY DEF PoolHoldsContext
<1>3. MaxNew(r) \in 1 .. server.context_len - r.prompt
  BY DEF Accepted, Room
<1>4. MaxNew(r) \in Nat /\ r.prompt + MaxNew(r) <= server.context_len
  BY <1>1, <1>2, <1>3
<1>5. server.num_blocks * BlockSize \in Int
  BY <1>2, FrontendAssumption
<1>6. r.prompt + MaxNew(r) \in Nat /\ r.prompt + MaxNew(r) <= server.num_blocks * BlockSize
  BY <1>1, <1>2, <1>4, <1>5
<1> QED  BY <1>2, <1>6, BlocksForFits

\* sampling_params and Scheduler.add: whatever block size, model, memory and --kv-pool-tokens, a
\* request that the server's handler accepts is one that the scheduler does not refuse.
THEOREM ServingAcceptedFits == Spec => []AcceptedFits
<1>1. Init => PoolHoldsContext
  BY DEF Init, FrontendInit, Down, PoolHoldsContext
<1>2. PoolHoldsContext /\ [Next]_vars => PoolHoldsContext'
  <2> SUFFICES ASSUME PoolHoldsContext, [Next]_vars PROVE PoolHoldsContext'
    OBVIOUS
  <2>1. server' = server => PoolHoldsContext'
    BY DEF PoolHoldsContext
  <2>2. CASE Client
    <3>1. server' = server
      BY <2>2
      DEF Client, Invoke, Preflight, RequireImage, WaitHealthy, WaitTimesOut, CheckTree, WarmupRatio,
          CheckRecord, BeginLevel, BeginLevelUncounted, StatsBefore, StartLoad, EndLoad, AskAfter,
          StatsAfter, NoStatsAfter, OpenResults, WriteLine, CutLine, WriteSidecar, Interrupted, Unread, Elsewhere,
         serverVars
    <3> QED  BY <2>1, <3>1
  <2>3. CASE Frontend
    BY <2>1, <2>3, StartFits DEF Frontend, StartRecord, RecordField, ReadField
  <2>4. CASE UNCHANGED vars
    BY <2>1, <2>4 DEF vars
  <2> QED  BY <2>2, <2>3, <2>4 DEF Next
<1> QED  BY <1>1, <1>2, HeldIsTaken, PTL DEF Spec
=============================================================================

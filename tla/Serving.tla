------------------------------ MODULE Serving ------------------------------
(***************************************************************************)
(* The serving benchmark (bench/serving.py) against a running server       *)
(* (Frontend): conditions that must hold before anything is measured, then *)
(* for every concurrency level the engine's counters, genai-bench and the  *)
(* counters again, then the rows and the sidecar.  Runs follow one another *)
(* and append to one results file.                                         *)
(*                                                                         *)
(* genai-bench is external: it loads the server for a while and exits.     *)
(* args of the command line that are looked at once are chosen where they  *)
(* are looked at.                                                          *)
(***************************************************************************)
EXTENDS Frontend

CONSTANTS Levels,       \* number of concurrency levels
          Warmups,      \* --warmup-s
          Minutes,      \* --max-time-per-run
          MaxRuns       \* bound: invocations

ASSUME ServingAssumption ==
  /\ Levels \in Nat \ {0} /\ MaxRuns \in Nat
  /\ Warmups \subseteq Nat /\ Minutes \in Nat \ {0}

VARIABLES client,   \* main: [pc, run, passed, lacks, window, before, rc, measured, line]; measured says
                    \* of each level how its load ended, line is the next one to write; window is
                    \* history: the counters when the level began, and around its load
          csv,      \* the results file: [exists, lines]
          sidecars  \* runs whose sidecar is written; one that is cut short is not JSON

vars == <<server, stats, counting, snap, client, csv, sidecars>>
serverVars == <<server, stats, counting>>

\* engine_stats that returned None.
NoStats == <<>>

NoWindow == [opened |-> Zeros, start |-> Zeros, end |-> Zeros]
NewRun(run) == [pc |-> "preflight", run |-> run, passed |-> {}, lacks |-> {},
                window |-> NoWindow, before |-> NoStats, rc |-> 0, measured |-> <<>>, line |-> 0]
Exited(run) == [NewRun(run) EXCEPT !.pc = "exited"]

Init == /\ FrontendInit
        /\ client = Exited(0)
        /\ csv = [exists |-> FALSE, lines |-> <<>>] /\ sidecars = {}

-----------------------------------------------------------------------------
(* Conditions, in the order in which main looks at them *)

Exit == client' = Exited(client.run)

\* On to the next part of main, with one more condition met.
Passes(condition, next) == client' = [client EXCEPT !.pc = next, !.passed = @ \cup {condition}]

Elsewhere == UNCHANGED <<serverVars, snap, csv, sidecars>>

Invoke ==
  /\ client.pc = "exited" /\ client.run < MaxRuns
  /\ client' = NewRun(client.run + 1)
  /\ Elsewhere

\* Conditions that were recorded before the server was started, or the check here, which a GPU
\* that a server uses does not pass.
Preflight ==
  /\ client.pc = "preflight"
  /\ \E recorded \in BOOLEAN : IF recorded \/ ~ server.up THEN Passes("idle", "image") ELSE Exit
  /\ Elsewhere

RequireImage ==
  /\ client.pc = "image"
  /\ \E image \in BOOLEAN : IF image THEN Passes("image", "waiting") ELSE Exit
  /\ Elsewhere

\* wait_healthy returns, ...
WaitHealthy ==
  /\ client.pc = "waiting" /\ server.up
  /\ Passes("answered", "tree")
  /\ Elsewhere

\* ... or gives up, also on a server that is up and does not answer in time.
WaitTimesOut ==
  /\ client.pc = "waiting"
  /\ Exit
  /\ Elsewhere

\* The client is pinned by its image; what can drift is the code of the server.
CheckTree ==
  /\ client.pc = "tree"
  /\ \E allow_dirty \in BOOLEAN :
       IF server.git_dirty /\ ~ allow_dirty THEN Exit
       ELSE Passes("tree", "ratio")
  /\ Elsewhere

\* warmup_ratio: a warm-up of half the run or more is refused.
WarmupRatio ==
  /\ client.pc = "ratio"
  /\ \E warmup_s \in Warmups :
       IF 2 * warmup_s >= Minutes * 60 THEN Exit ELSE Passes("ratio", "record")
  /\ Elsewhere

FAIRNESS == {"client", "client_host", "server", "server_host", "server_engine", "server_runtime",
             "model", "sampling", "scenarios", "concurrency", "warmup_s", "warmup_ratio", "image",
             "cpu", "blueprint_commit"}

\* fairness_record: the version of the client cannot be established, the URL names no host, the
\* server reports nothing, or the sampling parameters are empty.  A CPU that cannot be read is
\* "unknown", which is a value.
MayLack == {"client", "server_host", "server_engine", "server_runtime", "model", "sampling"}

\* missing_fairness: the fields that are empty; zero is a value.
MissingFairness(record) == {f \in FAIRNESS : ~ record[f]}

\* Which fields have a value, when those of lacks could not be collected.
FairnessRecord(lacks) == [f \in FAIRNESS |-> f \notin lacks]

CheckRecord ==
  /\ client.pc = "record"
  /\ \E lacks \in SUBSET MayLack :
       IF MissingFairness(FairnessRecord(lacks)) # {} THEN Exit
       ELSE client' = [client EXCEPT !.pc = "level", !.lacks = lacks]
  /\ Elsewhere

-----------------------------------------------------------------------------
(* One concurrency level *)

\* The level begins with engine_stats: a request to /stats, ...
BeginLevel ==
  /\ client.pc = "level" /\ snap.at = 0
  /\ client' = [client EXCEPT !.pc = "before", !.window.opened = stats]
  /\ snap' = [at |-> 1, got |-> Zeros]
  /\ UNCHANGED <<serverVars, csv, sidecars>>

\* ... or nothing, if the server does not answer in time.
BeginLevelUncounted ==
  /\ client.pc \in {"level", "before"}
  /\ client' = [client EXCEPT !.pc = "load", !.window.opened = stats, !.before = NoStats]
  /\ UNCHANGED <<serverVars, snap, csv, sidecars>>

\* Faulty variant: the counters are read once, before the first level.
KeepBeforeFirst == IF client.measured = <<>> THEN <<snap.got>> ELSE client.before

\* The counters before the load, as the response has them.
KeepBefore == <<snap.got>>

StatsBefore ==
  /\ client.pc = "before" /\ snap.at = Len(Fields) + 1
  /\ client' = [client EXCEPT !.pc = "load", !.before = KeepBefore]
  /\ snap' = NoSnap
  /\ UNCHANGED <<serverVars, csv, sidecars>>

\* genai-bench runs, with the ratio and this level, ...
StartLoad ==
  /\ client.pc = "load"
  /\ client' = [client EXCEPT !.pc = "loading", !.window.start = stats]
  /\ UNCHANGED <<serverVars, snap, csv, sidecars>>

\* ... and exits; the counters are asked for whatever its exit code.
EndLoad ==
  /\ client.pc = "loading"
  /\ \E rc \in {0, 1} : client' = [client EXCEPT !.pc = "asking", !.rc = rc, !.window.end = stats]
  /\ UNCHANGED <<serverVars, snap, csv, sidecars>>

AskAfter ==
  /\ client.pc = "asking" /\ snap.at = 0
  /\ client' = [client EXCEPT !.pc = "after"]
  /\ snap' = [at |-> 1, got |-> Zeros]
  /\ UNCHANGED <<serverVars, csv, sidecars>>

\* stats_delta: what the engine did between two snapshots.
StatsDelta(before, after) == [f \in CUMULATIVE |-> after[f] - before[f]]

\* What is kept of the rows of a level (flatten): how its load ended.
LevelRows == client.rc

\* The rest of the loop body: a load generator that failed or wrote no JSON ends the run, otherwise
\* its rows are kept in memory.
LevelEnds ==
  \/ Exit
  \/ /\ client.rc = 0
     /\ client' = [client EXCEPT !.measured = Append(@, LevelRows),
                                 !.window = NoWindow,
                                 !.pc = IF Len(client.measured) + 1 = Levels THEN "writing" ELSE "level"]

\* The counters after the load arrive, ...
StatsAfter ==
  /\ client.pc = "after" /\ snap.at = Len(Fields) + 1
  /\ LevelEnds
  /\ snap' = NoSnap
  /\ UNCHANGED <<serverVars, csv, sidecars>>

\* ... or do not.
NoStatsAfter ==
  /\ client.pc \in {"asking", "after"}
  /\ LevelEnds
  /\ UNCHANGED <<serverVars, snap, csv, sidecars>>

-----------------------------------------------------------------------------
(* Results *)

\* The k-th line of this run: the header for 0, otherwise the rows of level k (they are sorted; what
\* matters is that they come one after the other).  passed, lacks and levels are history: what the
\* run had met and measured when it wrote the line.  A line that is cut has no end: what is
\* appended next continues it.
LineOf(k, cut) == [run |-> client.run, level |-> k, passed |-> client.passed, lacks |-> client.lacks,
                   levels |-> client.measured, cut |-> cut]

\* The file is opened for appending, which makes it; a header is due if it was not there.
OpenResults ==
  /\ client.pc = "writing"
  /\ csv' = [csv EXCEPT !.exists = TRUE]
  /\ client' = [client EXCEPT !.pc = "appending", !.line = IF csv.exists THEN 1 ELSE 0]
  /\ UNCHANGED <<serverVars, snap, sidecars>>

\* The next line is appended.  Lines are flushed at the end and when the buffer is full; an
\* interrupt leaves some of them in the file, the first ones.
WriteLine ==
  /\ client.pc = "appending"
  /\ csv' = [csv EXCEPT !.lines = Append(@, LineOf(client.line, FALSE))]
  /\ client' = [client EXCEPT !.line = @ + 1, !.pc = IF client.line = Levels THEN "recording" ELSE @]
  /\ UNCHANGED <<serverVars, snap, sidecars>>

\* The process is killed or the disk is full while part of a line is in the file.
CutLine ==
  /\ client.pc = "appending"
  /\ csv' = [csv EXCEPT !.lines = Append(@, LineOf(client.line, TRUE))]
  /\ Exit
  /\ UNCHANGED <<serverVars, snap, sidecars>>

\* Faulty variant: the sidecar is written while the rows are still being appended.
WriteSidecarEarly ==
  /\ client.pc \in {"appending", "recording"}
  /\ sidecars' = sidecars \cup {client.run}
  /\ Exit
  /\ UNCHANGED <<serverVars, snap, csv>>

\* write_sidecar, after the results file is closed.
WriteSidecar ==
  /\ client.pc = "recording"
  /\ sidecars' = sidecars \cup {client.run}
  /\ Exit
  /\ UNCHANGED <<serverVars, snap, csv>>

\* The run is interrupted, or a file cannot be read or written.
Interrupted ==
  /\ client.pc # "exited"
  /\ Exit
  /\ Elsewhere

\* A request to /stats that nobody waits for any more is answered all the same.
Unread ==
  /\ client.pc \notin {"before", "after"} /\ snap.at = Len(Fields) + 1
  /\ snap' = NoSnap
  /\ UNCHANGED <<serverVars, client, csv, sidecars>>

Client == \/ Invoke \/ Preflight \/ RequireImage \/ WaitHealthy \/ WaitTimesOut \/ CheckTree
          \/ WarmupRatio \/ CheckRecord \/ BeginLevel \/ BeginLevelUncounted \/ StatsBefore
          \/ StartLoad \/ EndLoad \/ AskAfter \/ StatsAfter \/ NoStatsAfter
          \/ OpenResults \/ WriteLine \/ CutLine \/ WriteSidecar \/ Interrupted \/ Unread

Next == \/ Client
        \/ Frontend /\ UNCHANGED <<client, csv, sidecars>>

Spec == Init /\ [][Next]_vars

-----------------------------------------------------------------------------
(* Properties *)

\* EngineStats, "Differences between two snapshots describe the window between them": the counters
\* of a level hold every step that was counted while it was loaded and none from outside the level,
\* field by field, although each snapshot is read while steps are being counted.
LevelCounted ==
  (client.pc = "after" /\ snap.at = Len(Fields) + 1 /\ client.before # NoStats) =>
    \A f \in CUMULATIVE : LET counted == StatsDelta(client.before[1], snap.got)[f] IN
      /\ counted >= client.window.end[f] - client.window.start[f]
      /\ counted <= stats[f] - client.window.opened[f]

\* The line that comes to stand at j may follow the one at i: it is of a later run, or a later one
\* of the same run, which then was not cut.
Follows(i, j) ==
  LET a == csv.lines[i]
      b == csv.lines[j]
  IN  a.run < b.run \/ (a.run = b.run /\ a.level < b.level /\ ~ a.cut)

\* serving.py, "a run refuses to produce results when a field of it is missing", "no results
\* written": a line comes only from a run that met every condition and whose levels all succeeded;
\* the lines of a run stand together and in order, a header only on top; and a run that has its
\* sidecar has all its rows, so that one that was interrupted in the middle of its rows is told
\* by the sidecar it lacks, whatever runs before and after it left in the file.
SidecarVouches ==
  /\ \A i \in DOMAIN csv.lines : LET a == csv.lines[i] IN
       /\ a.passed = {"idle", "image", "answered", "tree", "ratio"} /\ a.lacks = {}
       /\ Len(a.levels) = Levels /\ \A k \in 1 .. Levels : a.levels[k] = 0
       /\ a.level = 0 => i = 1
       /\ \A j \in DOMAIN csv.lines : i < j => Follows(i, j)
  /\ \A r \in sidecars, k \in 1 .. Levels :
       \E i \in DOMAIN csv.lines : csv.lines[i].run = r /\ csv.lines[i].level = k /\ ~ csv.lines[i].cut
=============================================================================

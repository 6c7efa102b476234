------------------------------- MODULE Bench -------------------------------
(***************************************************************************)
(* One process of the offline benchmark (bench/offline.py, main) under the *)
(* measurement conditions of bench/sidecar.py: preflight, warm-up until    *)
(* the SM clock has settled, the measured runs, the results file and then  *)
(* the sidecar that records the conditions.  Whoever starts the process    *)
(* sees its exit code and the two files.                                   *)
(*                                                                         *)
(* Time counts warm-up passes and runs; now is the time since the machine  *)
(* began to drift, which it does by slope tokens per second per unit of    *)
(* time.  A commit is identified by its throughput on a machine that does  *)
(* not drift.  The clocks that the sampler reads are arbitrary.            *)
(***************************************************************************)
EXTENDS Integers, Sequences, SequencesExt

CONSTANTS Clocks,           \* SM clocks a sample may read
          Window,           \* samples that GpuSampler.settled compares with as many before
          WarmMin, WarmMax, \* --warmup-min-s, --warmup-max-s
          Rounds            \* --rounds

ASSUME BenchAssumption ==
  /\ Clocks \subseteq Nat \ {0} /\ Window \in Nat \ {0}
  /\ WarmMin \in Nat /\ WarmMax \in Nat \ {0} /\ Rounds \in Nat \ {0}

VARIABLES now, slope,   \* time and drift
          dirty,        \* tracked files of the working tree differ from HEAD
          proc          \* the process, or NoProcess

\* passed: the conditions checked so far; csv: the rows of the results file; code: exit code.
NewProcess(side, commit) ==
  [pc |-> "preflight", side |-> side, commit |-> commit, passed |-> {}, passes |-> 0,
   samples |-> <<>>, mean |-> <<>>, rows |-> <<>>, csv |-> <<>>, code |-> 0]

NoProcess == [NewProcess("none", 0) EXCEPT !.pc = "none"]

Exited(p, code) == [p EXCEPT !.pc = "exited", !.code = code]

-----------------------------------------------------------------------------
(* The GPU sampler and the settling rule *)

SumOf(s) == FoldLeft(LAMBDA a, x : a + x, 0, s)

\* The difference of two means is within two percent of the second one.
Agree(s, t) ==
  LET a == SumOf(s) * Len(t)
      b == SumOf(t) * Len(s)
  IN  50 * (a - b) <= b /\ 50 * (b - a) <= b

LastOf(s, n) == SubSeq(s, Len(s) - n + 1, Len(s))

\* GpuSampler.settled: the last samples against as many before them.
Settled(samples) ==
  /\ Len(samples) >= 2 * Window
  /\ Agree(SubSeq(LastOf(samples, 2 * Window), 1, Window), LastOf(samples, Window))

\* The samples in the window of one pass: sample_now at both ends, and what the sampler's
\* thread managed to read in between.  snapshot sorts by time, so who appended first is
\* of no matter.
Readings == {<<a, z>> : a, z \in Clocks} \cup {<<a, b, z>> : a, b, z \in Clocks}

-----------------------------------------------------------------------------
(* The process *)

\* harness_commit: tracked files are modified.  A worktree is always clean.
GitDirty(p) == p.side = "current" /\ dirty

\* The GPU is idle; uncommitted code is refused.
Preflight ==
  /\ proc.pc = "preflight"
  /\ proc' = IF GitDirty(proc) THEN Exited(proc, 2)
             ELSE [proc EXCEPT !.pc = "warmup", !.passed = {"idle", "clean"}]
  /\ UNCHANGED <<now, slope, dirty>>

\* PreflightError: the GPU is in use, or a condition cannot be read.
PreflightFails ==
  /\ proc.pc = "preflight"
  /\ proc' = Exited(proc, 1)
  /\ UNCHANGED <<now, slope, dirty>>

\* One turn of warm_up.  Settled by the window, or by agreeing with the pass before.
WarmUp(readings) ==
  LET samples == proc.samples \o readings
      passes  == proc.passes + 1
      settled == /\ passes >= WarmMin
                 /\ Settled(samples) \/ (proc.mean # <<>> /\ Agree(proc.mean, readings))
      after   == [proc EXCEPT !.passes = passes, !.mean = readings,
                              !.samples = IF Len(samples) > 2 * Window
                                          THEN LastOf(samples, 2 * Window) ELSE samples]
  IN  /\ proc.pc = "warmup"
      /\ now' = now + 1
      /\ proc' = IF settled THEN [after EXCEPT !.pc = "measuring", !.passed = @ \cup {"settled"},
                                               !.samples = <<>>, !.mean = <<>>, !.passes = 0]
                 ELSE IF passes >= WarmMax THEN Exited(after, 3) ELSE after
      /\ UNCHANGED <<slope, dirty>>

\* Throughput of a run: the commit's, and what the machine has drifted.
Throughput(commit) == commit + slope * now

\* One measured run; a row is kept in memory.
Measure ==
  /\ proc.pc = "measuring"
  /\ now' = now + 1
  /\ proc' = [proc EXCEPT !.rows = Append(@, Throughput(proc.commit)),
                          !.pc = IF Len(proc.rows) + 1 = Rounds THEN "writing" ELSE @]
  /\ UNCHANGED <<slope, dirty>>

\* The rows are written, ...
WriteRows ==
  /\ proc.pc = "writing"
  /\ proc' = [proc EXCEPT !.csv = proc.rows, !.rows = <<>>, !.pc = "recording"]
  /\ UNCHANGED <<now, slope, dirty>>

\* ... then the sidecar.
WriteSidecar ==
  /\ proc.pc = "recording"
  /\ proc' = Exited([proc EXCEPT !.passed = @ \cup {"sidecar"}], 0)
  /\ UNCHANGED <<now, slope, dirty>>

\* A pass may fail, a clock may not be read, and either file may fail to be written.
ProcessFails ==
  /\ proc.pc \in {"warmup", "measuring", "writing", "recording"}
  /\ proc' = Exited(proc, 1)
  /\ UNCHANGED <<now, slope, dirty>>

Process == \/ Preflight \/ PreflightFails \/ Measure \/ WriteRows \/ WriteSidecar \/ ProcessFails
           \/ \E readings \in Readings : WarmUp(readings)
=============================================================================

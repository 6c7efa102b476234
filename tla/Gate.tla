-------------------------------- MODULE Gate --------------------------------
(***************************************************************************)
(* The performance gate (bench/gate.py): the working commit and the        *)
(* reference commit are measured in turn, each time by a benchmark process *)
(* of its own (Bench), and the verdict is taken within the session.        *)
(*                                                                         *)
(* A developer commits changes, edits files at any time, and merges what   *)
(* passes.  The machine drifts in one direction during a session.  Medians *)
(* are kept doubled, so that they are integers.                            *)
(***************************************************************************)
EXTENDS Bench

CONSTANTS Arms,         \* the workloads: a sequence
          Changes,      \* what a change may do to the throughput
          Slopes,       \* drift of a session
          Start,        \* throughput of the first commit
          MaxAway       \* bound: how far a commit may be from Start

\* Throughputs are positive.
ASSUME GateAssumption ==
  /\ Arms # <<>> /\ Changes \subseteq Int /\ Slopes \subseteq Int
  /\ Start \in Nat \ {0} /\ MaxAway \in Nat /\ MaxAway < Start

VARIABLES working,      \* the working commit
          merged,       \* the commit merged last
          reference,    \* reference_commit of the baseline file
          worktree,     \* a worktree of the reference exists
          session       \* main: [state, kind, arm, sides, code]

vars == <<now, slope, dirty, proc, working, merged, reference, worktree, session>>

\* TOLERANCE and UNSTEADY, in thousandths.
TOLERANCE == 50
UNSTEADY == TOLERANCE \div 2

\* Faulty variant: the reference first, then the working commit.
OrderHalves == <<"reference", "reference", "current", "current">>

ORDER == <<"reference", "current", "current", "reference">>

NoSides == [reference |-> <<>>, current |-> <<>>]

\* sides: what the processes of each arm have measured, an arm after the other.
NoSession == [state |-> "idle", kind |-> "none", sides |-> <<>>, code |-> 0]

Init == /\ now = 0 /\ slope = 0 /\ dirty = FALSE /\ proc = NoProcess
        /\ working = Start /\ merged = Start /\ reference = Start
        /\ worktree = FALSE /\ session = NoSession

-----------------------------------------------------------------------------
(* The developer *)

Idle == session.state = "idle"

Commit(change) ==
  /\ Idle /\ ~ dirty
  /\ working' = merged + change
  /\ working' \in Start - MaxAway .. Start + MaxAway
  /\ session' = NoSession
  /\ UNCHANGED <<now, slope, dirty, proc, merged, reference, worktree>>

\* Files are edited, or the edit is undone, whether or not the gate runs.
Edit ==
  /\ dirty' = ~ dirty
  /\ UNCHANGED <<now, slope, proc, working, merged, reference, worktree, session>>

\* What passed is merged.
Merge ==
  /\ Idle /\ session.kind = "check" /\ session.code = 0 /\ working # merged
  /\ merged' = working
  /\ session' = NoSession
  /\ UNCHANGED <<now, slope, dirty, proc, working, reference, worktree>>

-----------------------------------------------------------------------------
(* A session *)

Ends(code) == session' = [session EXCEPT !.state = "idle", !.code = code, !.sides = <<>>]

\* gate: refused on uncommitted changes, before anything runs.
StartCheck(s) ==
  /\ Idle /\ ~ dirty
  /\ session' = [state |-> "checkout", kind |-> "check", sides |-> <<NoSides>>, code |-> 0]
  /\ slope' = s /\ now' = 0
  /\ UNCHANGED <<dirty, proc, working, merged, reference, worktree>>

\* gate --update: the working commit becomes the reference.
StartUpdate(s) ==
  /\ Idle
  /\ session' = [state |-> "measuring", kind |-> "update", sides |-> <<NoSides>>, code |-> 0]
  /\ slope' = s /\ now' = 0
  /\ UNCHANGED <<dirty, proc, working, merged, reference, worktree>>

\* Faulty variant: a change is compared with the commit before it.
RefCommitParent == merged

\* "The reference is the commit the baseline file names, not the parent commit".
RefCommit == reference

\* checkout: a worktree of the reference commit, or no session.
Checkout ==
  /\ session.state = "checkout"
  /\ \/ worktree' = TRUE /\ session' = [session EXCEPT !.state = "measuring"]
     \/ UNCHANGED worktree /\ Ends(1)
  /\ UNCHANGED <<now, slope, dirty, proc, working, merged, reference>>

Sides == session.sides[Len(session.sides)]
Measured == Len(Sides.reference) + Len(Sides.current)

\* The sides that an arm runs, in this order.
Order == IF session.kind = "update" THEN <<"current">> ELSE ORDER

ArmDone == Measured = Len(Order)

\* run_abba: the next process.
StartProcess ==
  /\ session.state = "measuring" /\ proc = NoProcess /\ ~ ArmDone
  /\ LET side == Order[Measured + 1]
     IN  proc' = NewProcess(side, IF side = "reference" THEN RefCommit ELSE working)
  /\ UNCHANGED <<now, slope, dirty, working, merged, reference, worktree, session>>

\* Faulty variant: rows are rows.
CompletedAnyway(p) == p.csv # <<>>

\* measure: only a process that exits with 0 counts.
Completed(p) == p.code = 0 /\ p.csv # <<>>

\* measure returns, or raises SystemExit, which removes the worktree on its way out.
Collect ==
  /\ proc.pc = "exited" /\ session.state = "measuring"
  /\ proc' = NoProcess
  /\ IF Completed(proc)
     THEN /\ session' = [session EXCEPT !.sides[Len(session.sides)][proc.side] =
                           Append(@, [runs |-> proc.csv, passed |-> proc.passed, commit |-> proc.commit])]
          /\ UNCHANGED worktree
     ELSE Ends(1) /\ worktree' = FALSE
  /\ UNCHANGED <<now, slope, dirty, working, merged, reference>>

NextArm ==
  /\ session.state = "measuring" /\ proc = NoProcess /\ ArmDone /\ Len(session.sides) < Len(Arms)
  /\ session' = [session EXCEPT !.sides = Append(@, NoSides)]
  /\ UNCHANGED <<now, slope, dirty, proc, working, merged, reference, worktree>>

\* The k-th of the values of s, the smallest first.
Kth(s, k) ==
  CHOOSE x \in Range(s) : /\ Cardinality({i \in DOMAIN s : s[i] < x}) < k
                         /\ Cardinality({i \in DOMAIN s : s[i] <= x}) >= k

\* Twice the median.
Median(s) == Kth(s, (Len(s) + 1) \div 2) + Kth(s, Len(s) \div 2 + 1)

Runs(results) == FoldLeft(LAMBDA a, m : a \o m.runs, <<>>, results)

Abs(x) == IF x < 0 THEN - x ELSE x

\* judge, for one arm.
Judge(sides) ==
  LET ref    == Median(Runs(sides.reference))
      cur    == Median(Runs(sides.current))
      wander == Abs(Median(sides.reference[2].runs) - Median(sides.reference[1].runs))
  IN  IF 1000 * wander > UNSTEADY * ref THEN "inconclusive"
      ELSE IF 1000 * cur < (1000 - TOLERANCE) * ref \/ 1000 * cur > (1000 + TOLERANCE) * ref
      THEN "fail" ELSE "pass"

\* The verdict over all arms: 3 is inconclusive, 1 is fail.
ExitCode(verdicts) == IF "inconclusive" \in verdicts THEN 3 ELSE IF "fail" \in verdicts THEN 1 ELSE 0

AllMeasured == /\ session.state = "measuring" /\ proc = NoProcess
               /\ ArmDone /\ Len(session.sides) = Len(Arms)

GiveVerdict ==
  /\ AllMeasured /\ session.kind = "check"
  /\ session' = [session EXCEPT !.state = "idle",
                                !.code = ExitCode({Judge(session.sides[a]) : a \in DOMAIN session.sides})]
  /\ worktree' = FALSE
  /\ UNCHANGED <<now, slope, dirty, proc, working, merged, reference>>

\* --update writes the baseline file, which is committed with the change.
WriteBaseline ==
  /\ AllMeasured /\ session.kind = "update"
  /\ reference' = working /\ merged' = working
  /\ Ends(0)
  /\ UNCHANGED <<now, slope, dirty, proc, working, worktree>>

-----------------------------------------------------------------------------

Next == \/ \E c \in Changes : Commit(c)
        \/ Edit \/ Merge
        \/ \E s \in Slopes : StartCheck(s) \/ StartUpdate(s)
        \/ Checkout \/ StartProcess \/ Collect \/ NextArm \/ GiveVerdict \/ WriteBaseline
        \/ Process /\ UNCHANGED <<working, merged, reference, worktree, session>>

Spec == Init /\ [][Next]_vars

-----------------------------------------------------------------------------
(* Properties *)

\* gate.py, "A drift that is linear in time lands on both sides equally": a commit that is as fast
\* as the reference is never failed, although the processes warm up for different lengths of
\* time and the two sides are therefore not measured at the same mean time.
EqualNeverFails ==
  (AllMeasured /\ session.kind = "check" /\ working = reference) =>
    \A a \in DOMAIN session.sides : Judge(session.sides[a]) # "fail"

\* gate.py, "comparing each change only with the one before lets five 2% regressions in a row each
\* pass": through any number of merges the merged commit stays as close to the reference as one
\* verdict allows, the threshold and what an accepted session may have moved.
MergedNearReference == 1000 * Abs(merged - reference) <= (TOLERANCE + UNSTEADY) * reference

\* sidecar.py, "no number exists without its context": every number that a verdict is taken from
\* was measured on an idle GPU, from committed code and with a settled clock, and has its sidecar,
\* also when files are edited meanwhile or a process fails between its two files; and each side
\* was measured on its own commit.
NumbersHaveContext ==
  \A a \in DOMAIN session.sides : \A side \in {"reference", "current"} :
    \A i \in DOMAIN session.sides[a][side] : LET m == session.sides[a][side][i] IN
      /\ m.passed = {"idle", "clean", "settled", "sidecar"} /\ Len(m.runs) = Rounds
      /\ m.commit = IF side = "reference" THEN reference ELSE working
=============================================================================

----------------------------- MODULE GateProofs -----------------------------
(***************************************************************************)
(* What the performance gate may be trusted with, for any workloads,       *)
(* changes, drifts, clocks and rounds.                                     *)
(*                                                                         *)
(* That no number is without its context needs what a benchmark process    *)
(* knows at each of its stages, that a process under way measures the      *)
(* commit of its side, and that neither commit moves while numbers of it   *)
(* are kept.  What a verdict says of the commits needs when each number    *)
(* was measured: the rows of a process follow each other in time, and the  *)
(* processes of an arm do.                                                 *)
(***************************************************************************)
EXTENDS Gate, FiniteSetTheorems, TLAPS

Context == {"idle", "clean", "settled", "sidecar"}
SideNames == {"reference", "current"}

Procs == [pc : {"none", "preflight", "warmup", "measuring", "writing", "recording", "exited"},
          side : SideNames \cup {"none"}, commit : Int, passed : SUBSET Context, passes : Nat,
          samples : Seq(Nat), mean : Seq(Nat), rows : Seq(Int), csv : Seq(Int), code : Nat]

\* What one process has measured of a commit, with all that goes with it.
MeasuredOf(commit) == [runs : {r \in Seq(Int) : Len(r) = Rounds}, passed : {Context}, commit : {commit}]

Measurements == [reference : Seq(MeasuredOf(reference)), current : Seq(MeasuredOf(working))]

CommitOf(side) == IF side = "reference" THEN reference ELSE working

\* A process has passed what lies behind it, and exits with 0 only at the end.
StageOK(p) ==
  /\ p.pc \in {"preflight", "warmup"} => p.rows = <<>>
  /\ p.pc = "warmup" => p.passed = {"idle", "clean"}
  /\ p.pc \in {"measuring", "writing", "recording"} => p.passed = {"idle", "clean", "settled"}
  /\ p.pc = "measuring" => Len(p.rows) < Rounds
  /\ p.pc = "writing" => Len(p.rows) = Rounds
  /\ p.pc = "recording" => Len(p.csv) = Rounds
  /\ (p.pc = "exited" /\ p.code = 0) => p.passed = Context /\ Len(p.csv) = Rounds

NumbersOK == now \in Int /\ slope \in Int /\ working \in Int /\ merged \in Int /\ reference \in Int

\* There is a process only in a session that measures, and it measures the commit of its side.
ProcessOK ==
  /\ proc \in Procs /\ StageOK(proc)
  /\ proc.pc = "none" <=> proc = NoProcess
  /\ proc.pc # "none" => /\ proc.side \in SideNames /\ proc.commit = CommitOf(proc.side)
                         /\ session.state = "measuring"

Sessions(M) == [state : {"idle", "checkout", "measuring"}, kind : {"none", "check", "update"},
                sides : Seq(M), code : Nat]

SessionOK == session \in Sessions(Measurements)

\* An arm has no more processes than its order says, the one under way included.
ArmOK ==
  session.state # "idle" =>
    /\ session.sides # <<>> /\ Measured <= Len(Order)
    /\ proc.pc # "none" => Measured < Len(Order)

IInv == NumbersOK /\ ProcessOK /\ SessionOK /\ ArmOK

-----------------------------------------------------------------------------
(* The process *)

LEMMA NewProcessOK ==
  ASSUME NEW side \in SideNames, NEW commit \in Int
  PROVE  NewProcess(side, commit) \in Procs /\ StageOK(NewProcess(side, commit))
<1>1. <<>> \in Seq(Nat) /\ <<>> \in Seq(Int)
  OBVIOUS
<1> QED  BY <1>1 DEF NewProcess, Procs, StageOK, Context

LEMMA NoProcessOK == NoProcess \in Procs /\ StageOK(NoProcess) /\ NoProcess.pc = "none"
<1> DEFINE n == NewProcess("none", 0)
<1>1. <<>> \in Seq(Nat) /\ <<>> \in Seq(Int)
  OBVIOUS
<1>2. n \in Procs
  BY <1>1 DEF NewProcess, Procs
<1> HIDE DEF n
<1>3. [n EXCEPT !.pc = "none"] \in Procs /\ [n EXCEPT !.pc = "none"].pc = "none"
  BY <1>2 DEF Procs
<1>4. NoProcess \in Procs /\ NoProcess.pc = "none"
  BY <1>3 DEF NoProcess, n
<1> QED  BY <1>4 DEF StageOK

\* A process that fails.
LEMMA FailedOK ==
  ASSUME NEW p \in Procs, NEW code \in {1, 2, 3}
  PROVE  /\ Exited(p, code) \in Procs /\ StageOK(Exited(p, code))
         /\ Exited(p, code).pc = "exited" /\ Exited(p, code).side = p.side
         /\ Exited(p, code).commit = p.commit
<1> DEFINE e == Exited(p, code)
<1>0. code \in Nat /\ code # 0
  OBVIOUS
<1>1. e \in Procs /\ e.pc = "exited" /\ e.code = code /\ e.side = p.side /\ e.commit = p.commit
  BY <1>0 DEF Exited, Procs
<1> HIDE DEF e
<1>2. StageOK(e)
  BY <1>0, <1>1 DEF StageOK
<1> QED  BY <1>1, <1>2 DEF e

\* The sampler's windows are sequences of clocks, cut to the last ones.
LEMMA WindowKept ==
  ASSUME NEW s \in Seq(Nat), NEW readings \in Readings
  PROVE  /\ readings \in Seq(Nat) /\ s \o readings \in Seq(Nat)
         /\ Len(s \o readings) > 2 * Window => LastOf(s \o readings, 2 * Window) \in Seq(Nat)
<1>1. \A c \in Clocks : c \in Nat
  BY BenchAssumption
<1>2. readings \in Seq(Nat)
  <2>1. \/ \E a, z \in Clocks : readings = <<a, z>>
        \/ \E a, b, z \in Clocks : readings = <<a, b, z>>
    BY DEF Readings
  <2>2. \A a, b, z \in Nat : <<a, z>> \in Seq(Nat) /\ <<a, b, z>> \in Seq(Nat)
    OBVIOUS
  <2> QED  BY <1>1, <2>1, <2>2
<1>3. s \o readings \in Seq(Nat)
  BY <1>2
<1> DEFINE t == s \o readings
<1> HIDE DEF t
<1>4. ASSUME t \in Seq(Nat), Len(t) > 2 * Window
      PROVE  LastOf(t, 2 * Window) \in Seq(Nat)
  <2>1. Window \in Nat /\ Len(t) \in Nat
    BY <1>4, BenchAssumption
  <2>2. Len(t) - 2 * Window + 1 \in 1 .. Len(t) + 1
    BY <1>4, <2>1, BenchAssumption
  <2>3. \A m \in 1 .. Len(t) + 1 : SubSeq(t, m, Len(t)) \in Seq(Nat)
    BY <1>4
  <2> QED  BY <2>2, <2>3 DEF LastOf
<1> QED  BY <1>2, <1>3, <1>4 DEF t

\* Every step of the process leaves it at a stage it has earned; its side and commit stay.
LEMMA StageKept ==
  ASSUME NumbersOK, ProcessOK, Process
  PROVE  /\ proc' \in Procs /\ StageOK(proc') /\ proc'.pc # "none"
         /\ proc'.side = proc.side /\ proc'.commit = proc.commit
<1>1. proc \in Procs /\ StageOK(proc) /\ proc.rows \in Seq(Int) /\ proc.samples \in Seq(Nat)
  BY DEF ProcessOK, Procs
<1>2. Rounds \in Nat \ {0}
  BY BenchAssumption
<1>3. ASSUME NEW p \in Procs, NEW code \in {1, 2, 3}, proc' = Exited(p, code),
             p.side = proc.side, p.commit = proc.commit
      PROVE  /\ proc' \in Procs /\ StageOK(proc') /\ proc'.pc # "none"
             /\ proc'.side = proc.side /\ proc'.commit = proc.commit
  BY <1>3, FailedOK
<1>4. CASE Preflight
  <2>1. CASE GitDirty(proc)
    <3>1. proc' = Exited(proc, 2)
      BY <1>4, <2>1 DEF Preflight
    <3> QED  BY <1>1, <1>3, <3>1
  <2>2. CASE ~ GitDirty(proc)
    <3>1. proc.pc = "preflight" /\ proc.rows = <<>>
      BY <1>1, <1>4 DEF Preflight, StageOK
    <3>2. proc' = [proc EXCEPT !.pc = "warmup", !.passed = {"idle", "clean"}]
      BY <1>4, <2>2 DEF Preflight
    <3>3. /\ proc' \in Procs /\ proc'.pc = "warmup" /\ proc'.passed = {"idle", "clean"}
          /\ proc'.rows = <<>> /\ proc'.side = proc.side /\ proc'.commit = proc.commit
      BY <1>1, <3>1, <3>2 DEF Procs, Context
    <3> QED  BY <3>3 DEF StageOK
  <2> QED  BY <2>1, <2>2
<1>5. CASE PreflightFails \/ ProcessFails
  <2>1. proc' = Exited(proc, 1)
    BY <1>5 DEF PreflightFails, ProcessFails
  <2> QED  BY <1>1, <1>3, <2>1
<1>6. CASE \E readings \in Readings : WarmUp(readings)
  <2>1. PICK readings \in Readings : WarmUp(readings)
    BY <1>6
  <2> DEFINE all     == proc.samples \o readings
             samples == IF Len(all) > 2 * Window THEN LastOf(all, 2 * Window) ELSE all
             passes  == proc.passes + 1
             settled == /\ passes >= WarmMin
                        /\ Settled(all) \/ (proc.mean # <<>> /\ Agree(proc.mean, readings))
             after   == [proc EXCEPT !.passes = passes, !.mean = readings, !.samples = samples]
  <2>2. /\ samples \in Seq(Nat) /\ passes \in Nat
        /\ proc' = IF settled THEN [after EXCEPT !.pc = "measuring", !.passed = after.passed \cup {"settled"},
                                                 !.samples = <<>>, !.mean = <<>>, !.passes = 0]
                   ELSE IF passes >= WarmMax THEN Exited(after, 3) ELSE after
    <3>1. samples \in Seq(Nat)
      BY <1>1, WindowKept
    <3>2. passes \in Nat
      BY <1>1 DEF Procs
    <3> HIDE DEF samples, passes
    <3> QED  BY <2>1, <3>1, <3>2 DEF WarmUp, samples, passes
  <2> HIDE DEF all, samples, passes, settled
  <2>3. readings \in Seq(Nat) /\ <<>> \in Seq(Nat)
    BY <1>1, WindowKept
  <2>4. proc.pc = "warmup" /\ proc.passed = {"idle", "clean"} /\ proc.rows = <<>>
    BY <1>1, <2>1 DEF WarmUp, StageOK
  <2>5. /\ after \in Procs /\ after.pc = "warmup" /\ after.passed = {"idle", "clean"}
        /\ after.rows = <<>> /\ after.side = proc.side /\ after.commit = proc.commit
    BY <1>1, <2>2, <2>3, <2>4 DEF Procs
  <2> HIDE DEF after
  <2>6. CASE settled
    <3>1. /\ proc' \in Procs /\ proc'.pc = "measuring" /\ proc'.passed = {"idle", "clean", "settled"}
          /\ proc'.rows = <<>> /\ proc'.side = proc.side /\ proc'.commit = proc.commit
      BY <2>2, <2>3, <2>5, <2>6 DEF Procs, Context
    <3> QED  BY <1>2, <3>1 DEF StageOK
  <2>7. CASE ~ settled /\ passes >= WarmMax
    BY <1>3, <2>2, <2>5, <2>7
  <2>8. CASE ~ settled /\ ~ (passes >= WarmMax)
    BY <2>2, <2>5, <2>8 DEF StageOK
  <2> QED  BY <2>6, <2>7, <2>8
<1>7. CASE Measure
  <2> DEFINE rows == Append(proc.rows, Throughput(proc.commit))
  <2>1. Throughput(proc.commit) \in Int
    BY <1>1 DEF Throughput, NumbersOK, Procs
  <2>2. rows \in Seq(Int) /\ Len(proc.rows) \in Nat /\ Len(rows) = Len(proc.rows) + 1
    BY <1>1, <2>1
  <2>3. proc.pc = "measuring" /\ proc.passed = {"idle", "clean", "settled"} /\ Len(proc.rows) < Rounds
    BY <1>1, <1>7 DEF Measure, StageOK
  <2>4. proc' = [proc EXCEPT !.rows = rows,
                             !.pc = IF Len(proc.rows) + 1 = Rounds THEN "writing" ELSE proc.pc]
    BY <1>7 DEF Measure
  <2> HIDE DEF rows
  <2>5. /\ proc' \in Procs /\ proc'.passed = {"idle", "clean", "settled"} /\ proc'.rows = rows
        /\ proc'.pc = IF Len(proc.rows) + 1 = Rounds THEN "writing" ELSE "measuring"
        /\ proc'.side = proc.side /\ proc'.commit = proc.commit
    BY <1>1, <2>2, <2>3, <2>4 DEF Procs
  <2>6. \/ proc'.pc = "writing" /\ Len(rows) = Rounds
        \/ proc'.pc = "measuring" /\ Len(rows) < Rounds
    BY <1>2, <2>2, <2>3, <2>5
  <2> QED  BY <2>5, <2>6 DEF StageOK
<1>8. CASE WriteRows
  <2>1. proc.pc = "writing" /\ proc.passed = {"idle", "clean", "settled"} /\ Len(proc.rows) = Rounds
    BY <1>1, <1>8 DEF WriteRows, StageOK
  <2>2. /\ proc' \in Procs /\ proc'.pc = "recording" /\ proc'.passed = {"idle", "clean", "settled"}
        /\ proc'.csv = proc.rows /\ proc'.side = proc.side /\ proc'.commit = proc.commit
    <3>1. proc' = [proc EXCEPT !.csv = proc.rows, !.rows = <<>>, !.pc = "recording"]
      BY <1>8 DEF WriteRows
    <3>2. <<>> \in Seq(Int)
      OBVIOUS
    <3> QED  BY <1>1, <2>1, <3>1, <3>2 DEF Procs
  <2> QED  BY <2>1, <2>2 DEF StageOK
<1>9. CASE WriteSidecar
  <2>1. proc.pc = "recording" /\ proc.passed = {"idle", "clean", "settled"} /\ Len(proc.csv) = Rounds
    BY <1>1, <1>9 DEF WriteSidecar, StageOK
  <2>2. /\ proc' \in Procs /\ proc'.pc = "exited" /\ proc'.passed = Context
        /\ proc'.csv = proc.csv /\ proc'.side = proc.side /\ proc'.commit = proc.commit
    BY <1>1, <1>9, <2>1 DEF WriteSidecar, Exited, Procs, Context
  <2> QED  BY <2>1, <2>2 DEF StageOK
<1> QED  BY <1>4, <1>5, <1>6, <1>7, <1>8, <1>9 DEF Process

-----------------------------------------------------------------------------
(* The session *)

LEMMA InitIInv == Init => IInv
<1> SUFFICES ASSUME Init PROVE IInv
  OBVIOUS
<1>1. NumbersOK
  BY GateAssumption DEF Init, NumbersOK
<1>2. ProcessOK
  BY NoProcessOK DEF Init, ProcessOK
<1>3. SessionOK
  <2>1. <<>> \in Seq(Measurements)
    OBVIOUS
  <2> QED  BY <2>1 DEF Init, SessionOK, Sessions, NoSession
<1>4. ArmOK
  BY DEF Init, ArmOK, NoSession
<1> QED  BY <1>1, <1>2, <1>3, <1>4 DEF IInv

\* Nothing has been measured when an arm begins.
LEMMA NothingMeasured ==
  /\ NoSides \in Measurements /\ <<NoSides>> \in Seq(Measurements) /\ <<>> \in Seq(Measurements)
  /\ Len(NoSides.reference) + Len(NoSides.current) = 0
<1>1. \A S : <<>> \in Seq(S)
  OBVIOUS
<1>2. NoSides \in Measurements
  BY <1>1 DEF NoSides, Measurements
<1> QED  BY <1>2 DEF NoSides

LEMMA Orders == Len(Order) \in {1, 4} /\ \A i \in 1 .. Len(Order) : Order[i] \in SideNames
BY DEF Order, ORDER, SideNames

\* As long as the commits stay, so does what may be kept of them.
LEMMA SessionKept ==
  ASSUME UNCHANGED <<working, reference>>, session' \in Sessions(Measurements)
  PROVE  SessionOK'
<1>1. Measurements' = Measurements
  BY DEF Measurements, MeasuredOf
<1>2. PICK M : M = Measurements
  OBVIOUS
<1>3. session' \in Sessions(M)
  BY <1>2
<1>4. Measurements' = M
  BY <1>1, <1>2
<1> QED  BY <1>3, <1>4 DEF SessionOK

\* A session that is over, or whose arm has just begun, with no process.
LEMMA AtRest ==
  ASSUME proc' = NoProcess,
         session'.state = "idle" \/ (session'.sides # <<>> /\ session'.sides[Len(session'.sides)] = NoSides)
  PROVE  ProcessOK' /\ ArmOK'
<1>1. ProcessOK'
  BY NoProcessOK DEF ProcessOK
<1>2. CASE session'.state = "idle"
  BY <1>1, <1>2 DEF ArmOK
<1>3. CASE session'.sides # <<>> /\ session'.sides[Len(session'.sides)] = NoSides
  <2>1. Measured' = 0
    BY <1>3, NothingMeasured DEF Measured, Sides
  <2>2. Len(Order)' \in {1, 4}
    BY DEF Order, ORDER
  <2>3. proc'.pc = "none"
    BY NoProcessOK
  <2>4. Measured' <= Len(Order)'
    BY <2>1, <2>2
  <2>5. ArmOK'
    BY <1>3, <2>3, <2>4 DEF ArmOK
  <2> QED  BY <1>1, <2>5
<1> QED  BY <1>2, <1>3

\* The developer's steps: a commit moves only when no numbers of it are kept and no process runs.
LEMMA DeveloperIInv ==
  ASSUME IInv, Edit \/ Merge \/ \E c \in Changes : Commit(c)
  PROVE  IInv'
<1>1. \A c \in Changes : c \in Int
  BY GateAssumption
<1>2. CASE Edit
  <2>1. UNCHANGED <<now, slope, proc, working, merged, reference, worktree, session>>
    BY <1>2 DEF Edit
  <2>2. SessionOK'
    BY <2>1, SessionKept DEF IInv, SessionOK
  <2> QED
    BY <2>1, <2>2 DEF IInv, NumbersOK, ProcessOK, StageOK, CommitOf, ArmOK, Measured, Sides, Order
<1>3. CASE Merge \/ \E c \in Changes : Commit(c)
  <2>1. /\ session.state = "idle" /\ session' = NoSession /\ proc' = proc
        /\ UNCHANGED <<now, slope, reference>>
    BY <1>3 DEF Merge, Commit, Idle
  <2>2. NumbersOK'
    BY <1>1, <1>3, <2>1 DEF IInv, NumbersOK, Merge, Commit
  <2>3. proc.pc = "none" /\ proc = NoProcess
    BY <2>1 DEF IInv, ProcessOK
  <2>4. ProcessOK' /\ ArmOK'
    BY <2>1, <2>3, AtRest DEF NoSession
  <2>5. SessionOK'
    <3>1. <<>> \in Seq(Measurements')
      OBVIOUS
    <3> QED  BY <2>1, <3>1 DEF SessionOK, Sessions, NoSession
  <2> QED  BY <2>2, <2>4, <2>5 DEF IInv
<1> QED  BY <1>2, <1>3

\* A session begins with nothing measured.
LEMMA StartIInv ==
  ASSUME IInv, NEW s \in Slopes, StartCheck(s) \/ StartUpdate(s)
  PROVE  IInv'
<1>1. /\ session.state = "idle" /\ slope' = s /\ now' = 0 /\ UNCHANGED <<proc, working, merged, reference>>
      /\ \/ session' = [state |-> "checkout", kind |-> "check", sides |-> <<NoSides>>, code |-> 0]
         \/ session' = [state |-> "measuring", kind |-> "update", sides |-> <<NoSides>>, code |-> 0]
  BY DEF StartCheck, StartUpdate, Idle
<1>2. NumbersOK'
  BY <1>1, GateAssumption DEF IInv, NumbersOK
<1>3. proc' = NoProcess
  BY <1>1 DEF IInv, ProcessOK
<1>4. session'.sides = <<NoSides>>
  BY <1>1
<1>5. ProcessOK' /\ ArmOK'
  BY <1>3, <1>4, AtRest
<1>6. session' \in Sessions(Measurements)
  <2>1. PICK q \in Seq(Measurements) : q = <<NoSides>>
    BY NothingMeasured
  <2>2. \/ session' = [state |-> "checkout", kind |-> "check", sides |-> q, code |-> 0]
        \/ session' = [state |-> "measuring", kind |-> "update", sides |-> q, code |-> 0]
    BY <1>1, <2>1
  <2> QED  BY <2>2 DEF Sessions
<1> QED  BY <1>1, <1>2, <1>5, <1>6, SessionKept DEF IInv

\* The steps of a session that neither start a process nor collect one.
LEMMA SessionIInv ==
  ASSUME IInv, Checkout \/ NextArm \/ GiveVerdict
  PROVE  IInv'
<1>1. UNCHANGED <<now, slope, proc, working, merged, reference>>
  BY DEF Checkout, NextArm, GiveVerdict
<1>2. NumbersOK'
  BY <1>1 DEF IInv, NumbersOK
<1>3. proc = NoProcess /\ proc' = NoProcess
  BY <1>1 DEF IInv, ProcessOK, Checkout, NextArm, GiveVerdict, AllMeasured
<1>4. session \in Sessions(Measurements) /\ session.sides \in Seq(Measurements)
  BY DEF IInv, SessionOK, Sessions
<1>5. CASE Checkout
  <2>1. CASE Ends(1)
    <3>1. session' = [session EXCEPT !.state = "idle", !.code = 1, !.sides = <<>>]
      BY <2>1 DEF Ends
    <3>2. session' \in Sessions(Measurements) /\ session'.state = "idle"
      BY <1>4, <3>1, NothingMeasured DEF Sessions
    <3> QED  BY <1>1, <1>2, <1>3, <3>2, SessionKept, AtRest DEF IInv
  <2>2. CASE session' = [session EXCEPT !.state = "measuring"]
    <3>1. session' \in Sessions(Measurements) /\ session'.sides = session.sides /\ session'.kind = session.kind
      BY <1>4, <2>2 DEF Sessions
    <3>2. ArmOK'
      BY <1>3, <1>5, <3>1, NoProcessOK DEF IInv, ArmOK, Measured, Sides, Order, Checkout
    <3>3. ProcessOK'
      BY <1>3, NoProcessOK DEF ProcessOK
    <3> QED  BY <1>1, <1>2, <3>1, <3>2, <3>3, SessionKept DEF IInv
  <2> QED  BY <1>5, <2>1, <2>2 DEF Checkout
<1>6. CASE NextArm
  <2>1. session' = [session EXCEPT !.sides = Append(session.sides, NoSides)]
    BY <1>6 DEF NextArm
  <2>2. /\ Append(session.sides, NoSides) \in Seq(Measurements) /\ Append(session.sides, NoSides) # <<>>
        /\ Append(session.sides, NoSides)[Len(Append(session.sides, NoSides))] = NoSides
    BY <1>4, NothingMeasured
  <2>3. session' \in Sessions(Measurements) /\ session'.sides = Append(session.sides, NoSides)
    BY <1>4, <2>1, <2>2 DEF Sessions
  <2> QED  BY <1>1, <1>2, <1>3, <2>2, <2>3, SessionKept, AtRest DEF IInv
<1>7. CASE GiveVerdict
  <2>1. PICK code \in {0, 1, 3} : session' = [session EXCEPT !.state = "idle", !.code = code]
    BY <1>7 DEF GiveVerdict, ExitCode
  <2>2. code \in Nat
    OBVIOUS
  <2>3. session' \in Sessions(Measurements) /\ session'.state = "idle"
    BY <1>4, <2>1, <2>2 DEF Sessions
  <2> QED  BY <1>1, <1>2, <1>3, <2>3, SessionKept, AtRest DEF IInv
<1> QED  BY <1>5, <1>6, <1>7

\* gate --update: the reference moves when its session is over, and nothing of it is kept.
LEMMA WriteBaselineIInv ==
  ASSUME IInv, WriteBaseline
  PROVE  IInv'
<1>1. /\ proc = NoProcess /\ proc' = proc /\ reference' = working /\ merged' = working
      /\ UNCHANGED <<now, slope, working>>
      /\ session' = [session EXCEPT !.state = "idle", !.code = 0, !.sides = <<>>]
  BY DEF WriteBaseline, AllMeasured, Ends
<1>2. NumbersOK'
  BY <1>1 DEF IInv, NumbersOK
<1>3. session' \in Sessions(Measurements') /\ session'.state = "idle"
  <2>1. session \in Sessions(Measurements)
    BY DEF IInv, SessionOK
  <2>2. <<>> \in Seq(Measurements')
    OBVIOUS
  <2> QED  BY <1>1, <2>1, <2>2 DEF Sessions
<1> QED  BY <1>1, <1>2, <1>3, AtRest DEF IInv, SessionOK

\* run_abba starts a process on the commit of its side.
LEMMA StartProcessIInv ==
  ASSUME IInv, StartProcess
  PROVE  IInv'
<1>1. /\ UNCHANGED <<now, slope, working, merged, reference, session>> /\ session.state = "measuring"
      /\ Measured # Len(Order)
  BY DEF StartProcess, ArmDone
<1>2. PICK side : proc' = NewProcess(side, CommitOf(side)) /\ side = Order[Measured + 1]
  BY DEF StartProcess, CommitOf, RefCommit
<1>3. Measured \in Nat
  <2>1. session.sides \in Seq(Measurements) /\ session.sides # <<>>
    BY <1>1 DEF IInv, SessionOK, Sessions, ArmOK
  <2>2. Sides \in Measurements
    BY <2>1 DEF Sides
  <2> QED  BY <2>2 DEF Measured, Measurements
<1>4. Measured < Len(Order) /\ side \in SideNames
  BY <1>1, <1>2, <1>3, Orders DEF IInv, ArmOK
<1>5. CommitOf(side) \in Int
  BY DEF CommitOf, IInv, NumbersOK
<1>6. proc' \in Procs /\ StageOK(proc')
  BY <1>2, <1>4, <1>5, NewProcessOK
<1>7. proc'.pc = "preflight" /\ proc'.side = side /\ proc'.commit = CommitOf(side)
  BY <1>2 DEF NewProcess
<1>8. ProcessOK'
  BY <1>1, <1>4, <1>6, <1>7, NoProcessOK DEF ProcessOK, CommitOf
<1>9. ArmOK'
  BY <1>1, <1>4 DEF IInv, ArmOK, Measured, Sides, Order
<1>10. SessionOK'
  BY <1>1, SessionKept DEF IInv, SessionOK
<1> QED  BY <1>1, <1>8, <1>9, <1>10 DEF IInv, NumbersOK

\* measure: a process that completed adds its numbers to its side, any other ends the session.
LEMMA CollectIInv ==
  ASSUME IInv, Collect
  PROVE  IInv'
<1>1. /\ UNCHANGED <<now, slope, working, merged, reference>> /\ session.state = "measuring"
      /\ proc.pc = "exited" /\ proc' = NoProcess
  BY DEF Collect
<1>2. NumbersOK'
  BY <1>1 DEF IInv, NumbersOK
<1>3. session \in Sessions(Measurements) /\ session.sides \in Seq(Measurements)
  BY DEF IInv, SessionOK, Sessions
<1>4. CASE ~ Completed(proc)
  <2>1. session' = [session EXCEPT !.state = "idle", !.code = 1, !.sides = <<>>]
    BY <1>4 DEF Collect, Ends
  <2>2. session' \in Sessions(Measurements) /\ session'.state = "idle"
    BY <1>3, <2>1, NothingMeasured DEF Sessions
  <2> QED  BY <1>1, <1>2, <2>2, SessionKept, AtRest DEF IInv
<1>5. CASE Completed(proc)
  <2> DEFINE m == [runs |-> proc.csv, passed |-> proc.passed, commit |-> proc.commit]
             last == Len(session.sides)
             side == proc.side
             kept == session.sides[last]
             grown == [kept EXCEPT ![side] = Append(kept[side], m)]
             sides == [session.sides EXCEPT ![last] = grown]
  <2>1. /\ side \in SideNames /\ proc.commit = CommitOf(side) /\ proc.csv \in Seq(Int)
        /\ Len(proc.csv) = Rounds /\ proc.passed = Context
    BY <1>1, <1>5 DEF IInv, ProcessOK, StageOK, Completed, Procs
  <2>2. m \in MeasuredOf(CommitOf(side))
    BY <2>1 DEF MeasuredOf
  <2>3. last \in 1 .. Len(session.sides) /\ last \in Nat \ {0} /\ kept \in Measurements
    BY <1>1, <1>3 DEF IInv, ArmOK
  <2>4. kept[side] \in Seq(MeasuredOf(CommitOf(side)))
    BY <2>1, <2>3 DEF Measurements, CommitOf, SideNames
  <2>5. session' = [session EXCEPT !.sides = sides]
    BY <1>5 DEF Collect
  <2> HIDE DEF m
  <2>6. /\ Append(kept[side], m) \in Seq(MeasuredOf(CommitOf(side))) /\ Len(kept[side]) \in Nat
        /\ Len(Append(kept[side], m)) = Len(kept[side]) + 1
    BY <2>2, <2>4
  <2>7. /\ grown \in Measurements
        /\ Len(grown.reference) + Len(grown.current) = Len(kept.reference) + Len(kept.current) + 1
    <3>1. Len(kept.reference) \in Nat /\ Len(kept.current) \in Nat
      BY <2>3 DEF Measurements
    <3>2. CASE side = "reference"
      <4>1. PICK more : more = Append(kept[side], m)
        OBVIOUS
      <4>2. grown = [kept EXCEPT !.reference = more]
        BY <3>2, <4>1
      <4>3. more \in Seq(MeasuredOf(reference)) /\ Len(more) = Len(kept.reference) + 1
        BY <2>6, <3>2, <4>1 DEF CommitOf
      <4>4. grown \in Measurements /\ grown.reference = more /\ grown.current = kept.current
        BY <2>3, <4>2, <4>3 DEF Measurements
      <4> HIDE DEF grown, kept
      <4>5. PICK r \in Nat, c \in Nat : r = Len(kept.reference) /\ c = Len(kept.current)
        BY <3>1
      <4>6. Len(grown.reference) = r + 1 /\ Len(grown.current) = c
        BY <4>3, <4>4, <4>5
      <4>7. Len(grown.reference) + Len(grown.current) = r + c + 1
        BY <4>6
      <4> QED  BY <4>4, <4>5, <4>7
    <3>3. CASE side = "current"
      <4>1. PICK more : more = Append(kept[side], m)
        OBVIOUS
      <4>2. grown = [kept EXCEPT !.current = more]
        BY <3>3, <4>1
      <4>3. more \in Seq(MeasuredOf(working)) /\ Len(more) = Len(kept.current) + 1
        BY <2>6, <3>3, <4>1 DEF CommitOf
      <4>4. grown \in Measurements /\ grown.current = more /\ grown.reference = kept.reference
        BY <2>3, <4>2, <4>3 DEF Measurements
      <4> HIDE DEF grown, kept
      <4>5. PICK r \in Nat, c \in Nat : r = Len(kept.reference) /\ c = Len(kept.current)
        BY <3>1
      <4>6. Len(grown.current) = c + 1 /\ Len(grown.reference) = r
        BY <4>3, <4>4, <4>5
      <4>7. Len(grown.reference) + Len(grown.current) = r + c + 1
        BY <4>6
      <4> QED  BY <4>4, <4>5, <4>7
    <3> QED  BY <2>1, <3>2, <3>3 DEF SideNames
  <2> HIDE DEF kept, grown
  <2>8. sides \in Seq(Measurements) /\ Len(sides) = last /\ sides[last] = grown /\ sides # <<>>
    BY <1>3, <2>3, <2>7
  <2> HIDE DEF sides
  <2>9. session' \in Sessions(Measurements) /\ session'.sides = sides /\ session'.kind = session.kind
    BY <1>3, <2>5, <2>8 DEF Sessions
  <2>10. Measured' = Len(kept.reference) + Len(kept.current) + 1
    BY <2>7, <2>8, <2>9 DEF Measured, Sides
  <2>11. Len(kept.reference) + Len(kept.current) < Len(Order)
    BY <1>1 DEF IInv, ArmOK, Measured, Sides, kept
  <2>12. Len(kept.reference) + Len(kept.current) \in Nat
    BY <2>3 DEF Measurements
  <2>13. Len(Order)' = Len(Order) /\ Len(Order) \in Nat
    BY <2>9, Orders DEF Order
  <2>14. ArmOK'
    <3>1. Measured' <= Len(Order)'
      <4>1. PICK k \in Nat : k = Len(kept.reference) + Len(kept.current)
        BY <2>12
      <4>2. PICK n \in Nat : n = Len(Order)
        BY <2>13
      <4>3. Measured' = k + 1 /\ Len(Order)' = n /\ k < n
        BY <2>10, <2>11, <2>13, <4>1, <4>2
      <4> QED  BY <4>3
    <3>2. session'.sides # <<>> /\ proc'.pc = "none"
      BY <1>1, <2>8, <2>9, NoProcessOK
    <3> QED  BY <3>1, <3>2 DEF ArmOK
  <2>15. ProcessOK'
    BY <1>1, NoProcessOK DEF ProcessOK
  <2> QED  BY <1>1, <1>2, <2>9, <2>14, <2>15, SessionKept DEF IInv
<1> QED  BY <1>4, <1>5

\* A process that runs.
LEMMA ProcessIInv ==
  ASSUME IInv, Process, UNCHANGED <<working, merged, reference, worktree, session>>
  PROVE  IInv'
<1>1. /\ proc' \in Procs /\ StageOK(proc') /\ proc'.pc # "none"
      /\ proc'.side = proc.side /\ proc'.commit = proc.commit
  BY StageKept DEF IInv
<1>2. proc.pc # "none"
  BY DEF Process, Preflight, PreflightFails, Measure, WriteRows, WriteSidecar, ProcessFails, WarmUp
<1>3. now' \in Int /\ slope' \in Int
  <2>1. slope' = slope /\ (now' = now \/ now' = now + 1)
    BY DEF Process, Preflight, PreflightFails, Measure, WriteRows, WriteSidecar, ProcessFails, WarmUp
  <2> QED  BY <2>1 DEF IInv, NumbersOK
<1>4. NumbersOK'
  BY <1>3 DEF IInv, NumbersOK
<1>5. ProcessOK'
  BY <1>1, <1>2, NoProcessOK DEF IInv, ProcessOK, CommitOf
<1>6. ArmOK'
  BY <1>2 DEF IInv, ArmOK, Measured, Sides, Order
<1>7. SessionOK'
  BY SessionKept DEF IInv, SessionOK
<1> QED  BY <1>4, <1>5, <1>6, <1>7 DEF IInv

LEMMA NextIInv == IInv /\ [Next]_vars => IInv'
<1> SUFFICES ASSUME IInv, [Next]_vars PROVE IInv'
  OBVIOUS
<1>1. CASE Edit \/ Merge \/ \E c \in Changes : Commit(c)
  BY <1>1, DeveloperIInv
<1>2. CASE \E s \in Slopes : StartCheck(s) \/ StartUpdate(s)
  BY <1>2, StartIInv
<1>3. CASE Checkout \/ NextArm \/ GiveVerdict
  BY <1>3, SessionIInv
<1>4. CASE StartProcess
  BY <1>4, StartProcessIInv
<1>5. CASE Collect
  BY <1>5, CollectIInv
<1>6. CASE WriteBaseline
  BY <1>6, WriteBaselineIInv
<1>7. CASE Process /\ UNCHANGED <<working, merged, reference, worktree, session>>
  BY <1>7, ProcessIInv
<1>8. CASE UNCHANGED vars
  <2>1. UNCHANGED <<now, slope, proc, working, merged, reference, session>>
    BY <1>8 DEF vars
  <2>2. SessionOK'
    BY <2>1, SessionKept DEF IInv, SessionOK
  <2> QED
    BY <2>1, <2>2 DEF IInv, NumbersOK, ProcessOK, StageOK, CommitOf, ArmOK, Measured, Sides, Order
<1> QED  BY <1>1, <1>2, <1>3, <1>4, <1>5, <1>6, <1>7, <1>8 DEF Next

LEMMA KeptHasContext == IInv => NumbersHaveContext
<1> SUFFICES ASSUME IInv, NEW a \in DOMAIN session.sides, NEW side \in SideNames,
                    NEW i \in DOMAIN session.sides[a][side]
             PROVE  LET m == session.sides[a][side][i] IN
                      /\ m.passed = Context /\ Len(m.runs) = Rounds /\ m.commit = CommitOf(side)
  BY DEF NumbersHaveContext, SideNames, Context, CommitOf
<1>1. session.sides[a] \in Measurements
  BY DEF IInv, SessionOK, Sessions
<1>2. session.sides[a][side] \in Seq(MeasuredOf(CommitOf(side)))
  BY <1>1 DEF Measurements, CommitOf, SideNames
<1>3. session.sides[a][side][i] \in MeasuredOf(CommitOf(side))
  BY <1>2
<1> QED  BY <1>3 DEF MeasuredOf

\* bench/gate.py and bench/sidecar.py: whatever is edited, committed and merged, whichever process
\* fails and wherever, the numbers a verdict is taken from are whole runs of the commits that are
\* compared, each with its sidecar, from an idle GPU, committed code and a settled clock.
THEOREM GateNumbersHaveContext == Spec => []NumbersHaveContext
BY InitIInv, NextIInv, KeptHasContext, PTL DEF Spec

-----------------------------------------------------------------------------
(* Medians of what a drifting machine measures *)

\* What drifts in proportion to time is ordered as time is.
LEMMA Scaled ==
  ASSUME NEW d \in Int, NEW x \in Int, NEW y \in Int, x < y
  PROVE  (d > 0 => d * x < d * y) /\ (d < 0 => d * x > d * y) /\ d * x \in Int
<1>1. d * y = d * x + d * (y - x)
  OBVIOUS
<1>2. PICK e \in Int : e = y - x /\ e > 0
  OBVIOUS
<1>3. (d > 0 => d * e > 0) /\ (d < 0 => d * e < 0)
  BY <1>2
<1> QED  BY <1>1, <1>2, <1>3

\* The places of the values below and up to the j-th, of values that grow or fall.
LEMMA CountedUp ==
  ASSUME NEW n \in Nat, NEW s \in [1 .. n -> Int], NEW j \in 1 .. n,
         \A i, h \in 1 .. n : i < h => s[i] < s[h]
  PROVE  /\ Cardinality({i \in DOMAIN s : s[i] < s[j]}) = j - 1
         /\ Cardinality({i \in DOMAIN s : s[i] <= s[j]}) = j
<1>1. {i \in DOMAIN s : s[i] < s[j]} = 1 .. j - 1
  OBVIOUS
<1>2. {i \in DOMAIN s : s[i] <= s[j]} = 1 .. j
  OBVIOUS
<1>3. Cardinality(1 .. j - 1) = j - 1 /\ Cardinality(1 .. j) = j
  BY FS_Interval
<1> QED  BY <1>1, <1>2, <1>3

LEMMA CountedDown ==
  ASSUME NEW n \in Nat, NEW s \in [1 .. n -> Int], NEW j \in 1 .. n,
         \A i, h \in 1 .. n : i < h => s[i] > s[h]
  PROVE  /\ Cardinality({i \in DOMAIN s : s[i] < s[j]}) = n - j
         /\ Cardinality({i \in DOMAIN s : s[i] <= s[j]}) = n - j + 1
<1>1. {i \in DOMAIN s : s[i] < s[j]} = j + 1 .. n
  OBVIOUS
<1>2. {i \in DOMAIN s : s[i] <= s[j]} = j .. n
  OBVIOUS
<1>3. Cardinality(j + 1 .. n) = n - j /\ Cardinality(j .. n) = n - j + 1
  BY FS_Interval
<1> QED  BY <1>1, <1>2, <1>3

\* Values that grow are in order, values that fall are in the opposite one.
LEMMA KthUp ==
  ASSUME NEW n \in Nat, NEW s \in [1 .. n -> Int], NEW k \in 1 .. n,
         \A i, h \in 1 .. n : i < h => s[i] < s[h]
  PROVE  Kth(s, k) = s[k]
<1> DEFINE P(x) == /\ Cardinality({i \in DOMAIN s : s[i] < x}) < k
                   /\ Cardinality({i \in DOMAIN s : s[i] <= x}) >= k
<1>1. \A j \in 1 .. n : P(s[j]) <=> j = k
  <2> TAKE j \in 1 .. n
  <2>1. /\ Cardinality({i \in DOMAIN s : s[i] < s[j]}) = j - 1
        /\ Cardinality({i \in DOMAIN s : s[i] <= s[j]}) = j
    BY CountedUp
  <2> QED  BY <2>1
<1> HIDE DEF P
<1>2. Range(s) = {s[j] : j \in 1 .. n}
  BY DEF Range
<1>3. Kth(s, k) = CHOOSE x \in Range(s) : P(x)
  BY DEF Kth, P
<1> QED  BY <1>1, <1>2, <1>3

LEMMA KthDown ==
  ASSUME NEW n \in Nat, NEW s \in [1 .. n -> Int], NEW k \in 1 .. n,
         \A i, h \in 1 .. n : i < h => s[i] > s[h]
  PROVE  Kth(s, k) = s[n + 1 - k]
<1> DEFINE P(x) == /\ Cardinality({i \in DOMAIN s : s[i] < x}) < k
                   /\ Cardinality({i \in DOMAIN s : s[i] <= x}) >= k
<1>1. \A j \in 1 .. n : P(s[j]) <=> j = n + 1 - k
  <2> TAKE j \in 1 .. n
  <2>1. /\ Cardinality({i \in DOMAIN s : s[i] < s[j]}) = n - j
        /\ Cardinality({i \in DOMAIN s : s[i] <= s[j]}) = n - j + 1
    BY CountedDown
  <2> QED  BY <2>1
<1> HIDE DEF P
<1>2. Range(s) = {s[j] : j \in 1 .. n} /\ n + 1 - k \in 1 .. n
  BY DEF Range
<1>3. Kth(s, k) = CHOOSE x \in Range(s) : P(x)
  BY DEF Kth, P
<1> QED  BY <1>1, <1>2, <1>3

\* Values that are all the same.
LEMMA KthFlat ==
  ASSUME NEW n \in Nat, NEW s \in [1 .. n -> Int], NEW k \in 1 .. n,
         \A i, h \in 1 .. n : s[i] = s[h]
  PROVE  Kth(s, k) = s[k]
<1> DEFINE P(x) == /\ Cardinality({i \in DOMAIN s : s[i] < x}) < k
                   /\ Cardinality({i \in DOMAIN s : s[i] <= x}) >= k
<1>1. P(s[k])
  <2>1. {i \in DOMAIN s : s[i] < s[k]} = {} /\ {i \in DOMAIN s : s[i] <= s[k]} = 1 .. n
    OBVIOUS
  <2>2. Cardinality({}) = 0 /\ Cardinality(1 .. n) = n
    BY FS_Interval, FS_EmptySet
  <2>3. /\ Cardinality({i \in DOMAIN s : s[i] < s[k]}) = 0
        /\ Cardinality({i \in DOMAIN s : s[i] <= s[k]}) = n
    BY <2>1, <2>2
  <2> QED  BY <2>3
<1> HIDE DEF P
<1>2. Range(s) = {s[k]}
  BY DEF Range
<1>3. Kth(s, k) = CHOOSE x \in Range(s) : P(x)
  BY DEF Kth, P
<1> QED  BY <1>1, <1>2, <1>3

\* Whichever way the machine drifts, the median is where time has it.
LEMMA MedianInTime ==
  ASSUME NEW n \in Nat \ {0}, NEW s \in [1 .. n -> Int], NEW T \in [1 .. n -> Int],
         NEW c \in Int, NEW d \in Int,
         \A i \in 1 .. n : s[i] = c + d * T[i],
         \A i, h \in 1 .. n : i < h => T[i] < T[h]
  PROVE  Median(s) = s[(n + 1) \div 2] + s[n \div 2 + 1]
<1>1. /\ (n + 1) \div 2 \in 1 .. n /\ n \div 2 + 1 \in 1 .. n
      /\ n + 1 - (n + 1) \div 2 = n \div 2 + 1 /\ n + 1 - (n \div 2 + 1) = (n + 1) \div 2
  OBVIOUS
<1> DEFINE lo == (n + 1) \div 2
           hi == n \div 2 + 1
<1>2. s \in Seq(Int) /\ Len(s) = n
  OBVIOUS
<1>3. Median(s) = Kth(s, lo) + Kth(s, hi)
  BY <1>2 DEF Median
<1>4. \A i, h \in 1 .. n : i < h => (d > 0 => s[i] < s[h]) /\ (d < 0 => s[i] > s[h])
  <2> TAKE i, h \in 1 .. n
  <2> HAVE i < h
  <2>1. PICK x \in Int, y \in Int : x = T[i] /\ y = T[h] /\ x < y
    OBVIOUS
  <2>2. (d > 0 => d * x < d * y) /\ (d < 0 => d * x > d * y)
    BY <2>1, Scaled
  <2>3. PICK u \in Int, v \in Int : u = d * x /\ v = d * y
    OBVIOUS
  <2>4. s[i] = c + u /\ s[h] = c + v
    BY <2>1, <2>3
  <2> QED  BY <2>2, <2>3, <2>4
<1>5. lo \in 1 .. n /\ hi \in 1 .. n /\ n + 1 - lo = hi /\ n + 1 - hi = lo
  BY <1>1
<1> HIDE DEF lo, hi
<1>6. CASE d > 0
  <2>1. Kth(s, lo) = s[lo] /\ Kth(s, hi) = s[hi]
    BY <1>4, <1>5, <1>6, KthUp
  <2> QED  BY <1>3, <2>1 DEF lo, hi
<1>7. CASE d < 0
  <2>1. Kth(s, lo) = s[hi] /\ Kth(s, hi) = s[lo]
    BY <1>4, <1>5, <1>7, KthDown
  <2>2. s[lo] \in Int /\ s[hi] \in Int
    BY <1>5
  <2>3. Median(s) = s[lo] + s[hi]
    BY <1>3, <2>1, <2>2
  <2> QED  BY <2>3 DEF lo, hi
<1>8. CASE d = 0
  <2>1. \A i, h \in 1 .. n : s[i] = s[h]
    BY <1>8
  <2>2. Kth(s, lo) = s[lo] /\ Kth(s, hi) = s[hi]
    BY <1>5, <2>1, KthFlat
  <2> QED  BY <1>3, <2>2 DEF lo, hi
<1> QED  BY <1>6, <1>7, <1>8

\* What the two processes of a side have measured, one after the other.
LEMMA RunsOfTwo ==
  ASSUME NEW m, NEW n, m.runs \in Seq(Int), n.runs \in Seq(Int)
  PROVE  Runs(<<m, n>>) = m.runs \o n.runs
<1> DEFINE q == <<m, n>>
           turn(f, s) == IF s = {} THEN <<>> ELSE f[s \ {Max(s)}] \o q[Max(s)].runs
           F == CHOOSE f : f = [s \in SUBSET DOMAIN q |-> turn(f, s)]
<1>1. Runs(q) = F[DOMAIN q]
  BY DEF Runs, FoldLeft, MapThenFoldSet
<1>2. DOMAIN q = {1, 2} /\ q[1] = m /\ q[2] = n
  OBVIOUS
<1>3. Max({1}) = 1 /\ Max({2}) = 2 /\ Max({1, 2}) = 2
  <2>1. \A x \in {1} : (\A y \in {1} : x >= y) <=> x = 1
    OBVIOUS
  <2>2. \A x \in {2} : (\A y \in {2} : x >= y) <=> x = 2
    OBVIOUS
  <2>3. \A x \in {1, 2} : (\A y \in {1, 2} : x >= y) <=> x = 2
    OBVIOUS
  <2>4. \A S : Max(S) = CHOOSE x \in S : \A y \in S : x >= y
    BY DEF Max
  <2> QED  BY <2>1, <2>2, <2>3, <2>4
<1>4. SUBSET {1, 2} = {{}, {1}, {2}, {1, 2}}
  OBVIOUS
<1>5. {1, 2} \ {2} = {1} /\ {1} \ {1} = {} /\ {2} \ {2} = {} /\ {1} # {} /\ {2} # {} /\ {1, 2} # {}
  OBVIOUS
<1> DEFINE G == [s \in SUBSET {1, 2} |->
                   IF s = {} THEN <<>> ELSE IF s = {1} THEN <<>> \o m.runs
                   ELSE IF s = {2} THEN <<>> \o n.runs ELSE (<<>> \o m.runs) \o n.runs]
<1>6. G[{}] = <<>> /\ G[{1}] = <<>> \o m.runs /\ G[{2}] = <<>> \o n.runs
      /\ G[{1, 2}] = (<<>> \o m.runs) \o n.runs
  BY <1>4, <1>5
<1> HIDE DEF q
<1>7. G = [s \in SUBSET DOMAIN q |-> turn(G, s)]
  <2>1. \A s \in SUBSET {1, 2} : G[s] = turn(G, s)
    <3> HIDE DEF G
    <3>1. turn(G, {}) = G[{}]
      BY <1>6
    <3>2. turn(G, {1}) = G[{1}]
      BY <1>2, <1>3, <1>5, <1>6
    <3>3. turn(G, {2}) = G[{2}]
      BY <1>2, <1>3, <1>5, <1>6
    <3>4. turn(G, {1, 2}) = G[{1, 2}]
      BY <1>2, <1>3, <1>5, <1>6
    <3> HIDE DEF turn
    <3> QED  BY <1>4, <3>1, <3>2, <3>3, <3>4
  <2> HIDE DEF turn
  <2>2. G = [s \in SUBSET {1, 2} |-> G[s]]
    OBVIOUS
  <2> QED  BY <1>2, <2>1, <2>2
<1>8. F = [s \in SUBSET DOMAIN q |-> turn(F, s)]
  <2> HIDE DEF turn, G
  <2> QED  BY <1>7
<1> HIDE DEF F, G
<1>9. F[{}] = <<>>
  BY <1>2, <1>4, <1>8
<1>10. F[{1}] = <<>> \o m.runs
  <2>1. F[{1}] = turn(F, {1})
    <3> HIDE DEF turn
    <3> QED  BY <1>2, <1>4, <1>8
  <2> QED  BY <1>2, <1>3, <1>5, <1>9, <2>1
<1>11. F[{1, 2}] = (<<>> \o m.runs) \o n.runs
  <2>1. F[{1, 2}] = turn(F, {1, 2})
    <3> HIDE DEF turn
    <3> QED  BY <1>2, <1>4, <1>8
  <2> QED  BY <1>2, <1>3, <1>5, <1>10, <2>1
<1>12. <<>> \o m.runs = m.runs
  OBVIOUS
<1> QED  BY <1>1, <1>2, <1>11, <1>12 DEF q

\* The rows of a process that measures commit c from time t on, on a machine that drifts by d.
RowsAt(c, d, t, n) == [i \in 1 .. n |-> c + d * (t + i - 1)]

LEMMA RowsAre ==
  ASSUME NEW c \in Int, NEW d \in Int, NEW t \in Int, NEW n \in Nat
  PROVE  RowsAt(c, d, t, n) \in Seq(Int) /\ Len(RowsAt(c, d, t, n)) = n
<1>1. RowsAt(c, d, t, n) \in [1 .. n -> Int]
  BY DEF RowsAt
<1> QED  BY <1>1

LEMMA MedianOfRows ==
  ASSUME NEW c \in Int, NEW d \in Int, NEW t \in Int, NEW n \in Nat \ {0}
  PROVE  Median(RowsAt(c, d, t, n)) = 2 * c + d * (2 * t + n - 1)
<1> DEFINE s == RowsAt(c, d, t, n)
           T == [i \in 1 .. n |-> t + i - 1]
           lo == (n + 1) \div 2
           hi == n \div 2 + 1
<1>1. s \in [1 .. n -> Int] /\ T \in [1 .. n -> Int] /\ \A i \in 1 .. n : s[i] = c + d * T[i]
  BY DEF RowsAt
<1>2. \A i, h \in 1 .. n : i < h => T[i] < T[h]
  OBVIOUS
<1>3. lo \in 1 .. n /\ hi \in 1 .. n /\ lo + hi = n + 1
  OBVIOUS
<1>4. T[lo] = t + lo - 1 /\ T[hi] = t + hi - 1
  BY <1>3
<1>5. Median(s) = s[lo] + s[hi]
  <2> HIDE DEF s, T
  <2> QED  BY <1>1, <1>2, MedianInTime
<1>6. s[lo] = c + d * T[lo] /\ s[hi] = c + d * T[hi]
  BY <1>1, <1>3
<1> HIDE DEF s, T, lo, hi
<1>7. PICK x \in Int, y \in Int : x = T[lo] /\ y = T[hi] /\ x + y = 2 * t + n - 1
  BY <1>3, <1>4
<1>8. d * x + d * y = d * (x + y)
  OBVIOUS
<1> QED  BY <1>5, <1>6, <1>7, <1>8 DEF s

\* Where a value of a concatenation comes from.
LEMMA ConcatAt ==
  ASSUME NEW a \in Seq(Int), NEW b \in Seq(Int), NEW i \in 1 .. Len(a) + Len(b)
  PROVE  (a \o b)[i] = IF i <= Len(a) THEN a[i] ELSE b[i - Len(a)]
OBVIOUS

\* The median over two processes, the second after the first.
LEMMA MedianOfTwo ==
  ASSUME NEW c \in Int, NEW d \in Int, NEW t \in Int, NEW u \in Int, NEW n \in Nat \ {0}, t + n <= u
  PROVE  Median(RowsAt(c, d, t, n) \o RowsAt(c, d, u, n)) = 2 * c + d * (t + u + n - 1)
<1> DEFINE s == RowsAt(c, d, t, n) \o RowsAt(c, d, u, n)
           T == [i \in 1 .. 2 * n |-> IF i <= n THEN t + i - 1 ELSE u + i - n - 1]
<1>1. s \in [1 .. 2 * n -> Int] /\ T \in [1 .. 2 * n -> Int] /\ \A i \in 1 .. 2 * n : s[i] = c + d * T[i]
  <2> DEFINE a == RowsAt(c, d, t, n)
             b == RowsAt(c, d, u, n)
  <2>1. a \in Seq(Int) /\ Len(a) = n /\ b \in Seq(Int) /\ Len(b) = n
    BY RowsAre
  <2>2. /\ \A i \in 1 .. n : a[i] = c + d * (t + i - 1)
        /\ \A i \in 1 .. n : b[i] = c + d * (u + i - 1)
    BY DEF RowsAt
  <2>3. T \in [1 .. 2 * n -> Int]
    OBVIOUS
  <2> HIDE DEF a, b
  <2>4. a \o b \in Seq(Int) /\ Len(a \o b) = 2 * n
    BY <2>1
  <2>5. \A i \in 1 .. 2 * n : (a \o b)[i] = IF i <= n THEN a[i] ELSE b[i - n]
    <3> TAKE i \in 1 .. 2 * n
    <3>1. i \in 1 .. Len(a) + Len(b)
      BY <2>1
    <3>2. (a \o b)[i] = IF i <= Len(a) THEN a[i] ELSE b[i - Len(a)]
      BY <2>1, <3>1, ConcatAt
    <3> QED  BY <2>1, <3>2
  <2>6. ASSUME NEW i \in 1 .. 2 * n
        PROVE  (a \o b)[i] = c + d * T[i]
    <3>1. CASE i <= n
      <4>1. i \in 1 .. n /\ T[i] = t + i - 1
        BY <3>1
      <4> HIDE DEF T
      <4> QED  BY <2>2, <2>5, <3>1, <4>1
    <3>2. CASE ~ (i <= n)
      <4>1. i - n \in 1 .. n /\ T[i] = u + (i - n) - 1
        BY <3>2
      <4>2. (a \o b)[i] = b[i - n]
        BY <2>5, <3>2
      <4> HIDE DEF T
      <4>3. b[i - n] = c + d * (u + (i - n) - 1)
        BY <2>2, <4>1
      <4> QED  BY <4>1, <4>2, <4>3
    <3> QED  BY <3>1, <3>2
  <2>7. a \o b \in [1 .. 2 * n -> Int]
    <3>1. \A q \in Seq(Int) : q \in [1 .. Len(q) -> Int]
      OBVIOUS
    <3> QED  BY <2>4, <3>1
  <2> QED  BY <2>3, <2>6, <2>7 DEF a, b
<1>2. \A i, h \in 1 .. 2 * n : i < h => T[i] < T[h]
  OBVIOUS
<1>3. (2 * n + 1) \div 2 = n /\ (2 * n) \div 2 + 1 = n + 1 /\ 2 * n \in Nat \ {0}
  OBVIOUS
<1>4. T[n] = t + n - 1 /\ T[n + 1] = u /\ n \in 1 .. 2 * n /\ n + 1 \in 1 .. 2 * n
  OBVIOUS
<1> HIDE DEF s, T
<1>5. Median(s) = s[n] + s[n + 1]
  <2>1. PICK m \in Nat \ {0} : m = 2 * n
    BY <1>3
  <2>2. /\ s \in [1 .. m -> Int] /\ T \in [1 .. m -> Int] /\ \A i \in 1 .. m : s[i] = c + d * T[i]
        /\ \A i, h \in 1 .. m : i < h => T[i] < T[h]
    BY <1>1, <1>2, <2>1
  <2>3. Median(s) = s[(m + 1) \div 2] + s[m \div 2 + 1]
    BY <2>2, MedianInTime
  <2> QED  BY <1>3, <2>1, <2>3
<1>6. s[n] = c + d * (t + n - 1) /\ s[n + 1] = c + d * u
  BY <1>1, <1>4
<1>7. d * (t + n - 1) + d * u = d * (t + u + n - 1)
  OBVIOUS
<1>8. PICK v \in Int, w \in Int : v = d * (t + n - 1) /\ w = d * u
  OBVIOUS
<1> QED  BY <1>5, <1>6, <1>7, <1>8 DEF s

\* Moving at most as far, in time, is moving at most as far.
LEMMA Within ==
  ASSUME NEW d \in Int, NEW x \in Int, NEW y \in Int, x <= y, - x <= y
  PROVE  d * x \in Int /\ d * y \in Int /\ Abs(d * x) <= Abs(d * y)
<1>1. PICK v \in Int, w \in Int : v = d * x /\ w = d * y
  OBVIOUS
<1>2. y >= 0 /\ d * (- x) = - v
  BY <1>1
<1>3. d > 0 => v <= w /\ - v <= w
  <2> SUFFICES ASSUME d > 0 PROVE v <= w /\ - v <= w
    OBVIOUS
  <2>1. x < y => v < w
    BY <1>1, Scaled
  <2>2. - x < y => - v < w
    <3>1. PICK z \in Int : z = - x
      OBVIOUS
    <3>2. d * z = - v
      BY <1>2, <3>1
    <3>3. z < y => d * z < d * y
      BY Scaled
    <3> QED  BY <1>1, <3>1, <3>2, <3>3
  <2>3. x = y => v = w
    BY <1>1
  <2>4. - x = y => - v = w
    BY <1>1, <1>2
  <2> QED  BY <1>1, <2>1, <2>2, <2>3, <2>4
<1>4. d < 0 => v >= w /\ - v >= w
  <2> SUFFICES ASSUME d < 0 PROVE v >= w /\ - v >= w
    OBVIOUS
  <2>1. x < y => v > w
    BY <1>1, Scaled
  <2>2. - x < y => - v > w
    <3>1. PICK z \in Int : z = - x
      OBVIOUS
    <3>2. d * z = - v
      BY <1>2, <3>1
    <3>3. z < y => d * z > d * y
      BY Scaled
    <3> QED  BY <1>1, <3>1, <3>2, <3>3
  <2>3. x = y => v = w
    BY <1>1
  <2>4. - x = y => - v = w
    BY <1>1, <1>2
  <2> QED  BY <1>1, <2>1, <2>2, <2>3, <2>4
<1>5. d = 0 => v = 0 /\ w = 0
  BY <1>1
<1>6. Abs(v) <= Abs(w)
  BY <1>3, <1>4, <1>5 DEF Abs
<1> QED  BY <1>1, <1>6
-----------------------------------------------------------------------------
(* An arm of a check, in time *)

\* The least a process warms up.
Warm == IF WarmMin = 0 THEN 1 ELSE WarmMin

\* How many processes an arm has measured, which ones, and what the k-th of them has.
Count(x) == Len(x.reference) + Len(x.current)
Abba(x) == <<Len(x.reference), Len(x.current)>> \in {<<0, 0>>, <<1, 0>>, <<1, 1>>, <<1, 2>>, <<2, 2>>}
Nth(x, k) == x[ORDER[k]][IF k <= 2 THEN 1 ELSE 2]

\* The k-th process measured from time t[k] on, and they did so one after the other.  The last time
\* is that of the process to come.  first: it is the first arm, which begins at time 0.
ArmTimes(x, t, first) ==
  /\ t \in [1 .. 5 -> Int] /\ Abba(x)
  /\ \A k \in 1 .. Count(x) :
       /\ Nth(x, k).runs = RowsAt(CommitOf(ORDER[k]), slope, t[k], Rounds)
       /\ t[k] + Rounds + Warm <= t[k + 1]
  /\ first /\ Count(x) > 0 => t[1] \in 0 .. WarmMax

\* judge, of doubled medians.
Verdict(ref, cur, wander) ==
  IF 1000 * wander > 25 * ref THEN "inconclusive"
  ELSE IF 1000 * cur < 950 * ref \/ 1000 * cur > 1050 * ref THEN "fail" ELSE "pass"

LEMMA WarmIs == Warm \in Nat /\ Warm >= 1 /\ Warm >= WarmMin /\ Rounds \in Nat \ {0}
BY BenchAssumption DEF Warm

\* Which processes an arm has had.
LEMMA AbbaCases ==
  ASSUME NEW A, NEW B, NEW x \in [reference : Seq(A), current : Seq(B)], Abba(x)
  PROVE  \/ Len(x.reference) = 0 /\ Len(x.current) = 0 /\ Count(x) = 0
         \/ Len(x.reference) = 1 /\ Len(x.current) = 0 /\ Count(x) = 1
         \/ Len(x.reference) = 1 /\ Len(x.current) = 1 /\ Count(x) = 2
         \/ Len(x.reference) = 1 /\ Len(x.current) = 2 /\ Count(x) = 3
         \/ Len(x.reference) = 2 /\ Len(x.current) = 2 /\ Count(x) = 4
<1>1. PICK m \in Nat, n \in Nat : m = Len(x.reference) /\ n = Len(x.current)
  OBVIOUS
<1>2. PICK p \in {<<0, 0>>, <<1, 0>>, <<1, 1>>, <<1, 2>>, <<2, 2>>} : p = <<m, n>>
  BY <1>1 DEF Abba
<1>3. p[1] = m /\ p[2] = n
  BY <1>2
<1>4. (m = 0 /\ n = 0) \/ (m = 1 /\ n = 0) \/ (m = 1 /\ n = 1) \/ (m = 1 /\ n = 2) \/ (m = 2 /\ n = 2)
  BY <1>3
<1>5. Count(x) = m + n
  BY <1>1 DEF Count
<1>6. \/ m = 0 /\ n = 0 /\ Count(x) = 0
      \/ m = 1 /\ n = 0 /\ Count(x) = 1
      \/ m = 1 /\ n = 1 /\ Count(x) = 2
      \/ m = 1 /\ n = 2 /\ Count(x) = 3
      \/ m = 2 /\ n = 2 /\ Count(x) = 4
  BY <1>4, <1>5
<1> QED  BY <1>1, <1>6

LEMMA OrderIs == ORDER[1] = "reference" /\ ORDER[2] = "current" /\ ORDER[3] = "current" /\ ORDER[4] = "reference"
BY DEF ORDER

\* What the four processes of an arm have measured, and when.
LEMMA FullArm ==
  ASSUME IInv, NEW x \in Measurements, NEW t, ArmTimes(x, t, FALSE), Count(x) = 4
  PROVE  /\ t[1] \in Int /\ t[2] \in Int /\ t[3] \in Int /\ t[4] \in Int
         /\ t[1] + Rounds + Warm <= t[2] /\ t[2] + Rounds + Warm <= t[3] /\ t[3] + Rounds + Warm <= t[4]
         /\ x.reference = <<x.reference[1], x.reference[2]>> /\ x.current = <<x.current[1], x.current[2]>>
         /\ x.reference[1].runs = RowsAt(reference, slope, t[1], Rounds)
         /\ x.current[1].runs = RowsAt(working, slope, t[2], Rounds)
         /\ x.current[2].runs = RowsAt(working, slope, t[3], Rounds)
         /\ x.reference[2].runs = RowsAt(reference, slope, t[4], Rounds)
<1>1. x.reference \in Seq(MeasuredOf(reference)) /\ x.current \in Seq(MeasuredOf(working))
  BY DEF Measurements
<1>2. Len(x.reference) = 2 /\ Len(x.current) = 2
  <2>1. PICK A, B : A = MeasuredOf(reference) /\ B = MeasuredOf(working)
    OBVIOUS
  <2>2. x \in [reference : Seq(A), current : Seq(B)] /\ Abba(x)
    BY <2>1 DEF Measurements, ArmTimes
  <2> QED  BY <2>2, AbbaCases
<1>3. x.reference = <<x.reference[1], x.reference[2]>> /\ x.current = <<x.current[1], x.current[2]>>
  BY <1>1, <1>2
<1>4. \A k \in 1 .. 4 : /\ Nth(x, k).runs = RowsAt(CommitOf(ORDER[k]), slope, t[k], Rounds)
                        /\ t[k] + Rounds + Warm <= t[k + 1]
  BY DEF ArmTimes
<1>5. ORDER[1] = "reference" /\ ORDER[2] = "current" /\ ORDER[3] = "current" /\ ORDER[4] = "reference"
  BY OrderIs
<1>6. /\ Nth(x, 1) = x.reference[1] /\ Nth(x, 2) = x.current[1]
      /\ Nth(x, 3) = x.current[2] /\ Nth(x, 4) = x.reference[2]
  BY <1>5 DEF Nth
<1>7. CommitOf("reference") = reference /\ CommitOf("current") = working
  BY DEF CommitOf
<1>8. t[1] \in Int /\ t[2] \in Int /\ t[3] \in Int /\ t[4] \in Int
  BY DEF ArmTimes
<1>9. t[1] + Rounds + Warm <= t[2] /\ t[2] + Rounds + Warm <= t[3] /\ t[3] + Rounds + Warm <= t[4]
  <2>1. \A k \in 1 .. 4 : t[k] + Rounds + Warm <= t[k + 1]
    BY <1>4
  <2>2. t[1] + Rounds + Warm <= t[1 + 1] /\ t[2] + Rounds + Warm <= t[2 + 1] /\ t[3] + Rounds + Warm <= t[3 + 1]
    BY <2>1
  <2> QED  BY <2>2
<1>10. \A k \in 1 .. 4 : Nth(x, k).runs = RowsAt(CommitOf(ORDER[k]), slope, t[k], Rounds)
  BY <1>4
<1>11. /\ Nth(x, 1).runs = RowsAt(CommitOf(ORDER[1]), slope, t[1], Rounds)
       /\ Nth(x, 2).runs = RowsAt(CommitOf(ORDER[2]), slope, t[2], Rounds)
       /\ Nth(x, 3).runs = RowsAt(CommitOf(ORDER[3]), slope, t[3], Rounds)
       /\ Nth(x, 4).runs = RowsAt(CommitOf(ORDER[4]), slope, t[4], Rounds)
  BY <1>10
<1> QED  BY <1>3, <1>5, <1>6, <1>7, <1>8, <1>9, <1>11

\* The verdict on an arm: the median of the reference moved by 2g between its two processes, and
\* the drift has moved the two sides apart by h, which is no more than half of that.
JudgedAt(x, t) ==
  \E ref, g, h \in Int :
    /\ ref = 2 * reference + slope * (t[1] + t[4] + Rounds - 1)
    /\ g = slope * (t[4] - t[1]) /\ Abs(h) <= Abs(g)
    /\ Judge(x) = Verdict(ref, ref + 2 * (working - reference) + h, 2 * Abs(g))

LEMMA Judged ==
  ASSUME IInv, NEW x \in Measurements, NEW t, ArmTimes(x, t, FALSE), Count(x) = 4
  PROVE  JudgedAt(x, t)
<1>1. slope \in Int /\ reference \in Int /\ working \in Int /\ Rounds \in Nat \ {0} /\ Warm \in Nat
  BY WarmIs DEF IInv, NumbersOK
<1>2. PICK t1 \in Int, t2 \in Int, t3 \in Int, t4 \in Int :
        /\ t1 = t[1] /\ t2 = t[2] /\ t3 = t[3] /\ t4 = t[4]
        /\ t1 + Rounds <= t2 /\ t2 + Rounds <= t3 /\ t3 + Rounds <= t4
  <2>1. /\ t[1] \in Int /\ t[2] \in Int /\ t[3] \in Int /\ t[4] \in Int
        /\ t[1] + Rounds + Warm <= t[2] /\ t[2] + Rounds + Warm <= t[3] /\ t[3] + Rounds + Warm <= t[4]
    BY FullArm
  <2> QED  BY <1>1, <2>1
<1> DEFINE row(c, u) == RowsAt(c, slope, u, Rounds)
<1>3. /\ x.reference[1].runs = row(reference, t1) /\ x.reference[2].runs = row(reference, t4)
      /\ x.current[1].runs = row(working, t2) /\ x.current[2].runs = row(working, t3)
      /\ x.reference = <<x.reference[1], x.reference[2]>> /\ x.current = <<x.current[1], x.current[2]>>
  BY <1>2, FullArm
<1>4. \A c, u \in Int : row(c, u) \in Seq(Int) /\ Median(row(c, u)) = 2 * c + slope * (2 * u + Rounds - 1)
  <2> TAKE c, u \in Int
  <2>1. row(c, u) \in Seq(Int)
    BY <1>1, RowsAre
  <2>2. Median(row(c, u)) = 2 * c + slope * (2 * u + Rounds - 1)
    BY <1>1, MedianOfRows
  <2> QED  BY <2>1, <2>2
<1>5. \A c, u, v \in Int : u + Rounds <= v => Median(row(c, u) \o row(c, v)) = 2 * c + slope * (u + v + Rounds - 1)
  BY <1>1, MedianOfTwo
<1> HIDE DEF row
<1>6. Runs(x.reference) = row(reference, t1) \o row(reference, t4)
  <2>1. PICK m, n : m = x.reference[1] /\ n = x.reference[2]
    OBVIOUS
  <2>2. m.runs \in Seq(Int) /\ n.runs \in Seq(Int)
    BY <1>1, <1>3, <1>4, <2>1
  <2> QED  BY <1>3, <2>1, <2>2, RunsOfTwo
<1>7. Runs(x.current) = row(working, t2) \o row(working, t3)
  <2>1. PICK m, n : m = x.current[1] /\ n = x.current[2]
    OBVIOUS
  <2>2. m.runs \in Seq(Int) /\ n.runs \in Seq(Int)
    BY <1>1, <1>3, <1>4, <2>1
  <2> QED  BY <1>3, <2>1, <2>2, RunsOfTwo
<1>8. t1 + Rounds <= t4 /\ t2 + Rounds <= t3
  BY <1>1, <1>2
<1> DEFINE ref == 2 * reference + slope * (t1 + t4 + Rounds - 1)
           cur == 2 * working + slope * (t2 + t3 + Rounds - 1)
           g == slope * (t4 - t1)
           h == slope * (t2 + t3 - t1 - t4)
<1>9. Median(Runs(x.reference)) = ref /\ Median(Runs(x.current)) = cur
  <2>1. Median(row(reference, t1) \o row(reference, t4)) = ref
    BY <1>1, <1>5, <1>8
  <2>2. Median(row(working, t2) \o row(working, t3)) = cur
    BY <1>1, <1>5, <1>8
  <2> QED  BY <1>6, <1>7, <2>1, <2>2
<1>10. Median(x.reference[2].runs) - Median(x.reference[1].runs) = 2 * g
  <2>1. /\ Median(x.reference[2].runs) = 2 * reference + slope * (2 * t4 + Rounds - 1)
        /\ Median(x.reference[1].runs) = 2 * reference + slope * (2 * t1 + Rounds - 1)
    BY <1>1, <1>3, <1>4
  <2>2. PICK a \in Int, b \in Int : a = slope * (2 * t4 + Rounds - 1) /\ b = slope * (2 * t1 + Rounds - 1)
    BY <1>1
  <2>3. a - b = 2 * g
    BY <1>1, <2>2
  <2> QED  BY <1>1, <2>1, <2>2, <2>3
<1>11. cur = ref + 2 * (working - reference) + h
  <2>1. slope * (t2 + t3 + Rounds - 1) = slope * (t1 + t4 + Rounds - 1) + h
    BY <1>1
  <2>2. PICK a \in Int, b \in Int : a = slope * (t2 + t3 + Rounds - 1) /\ b = slope * (t1 + t4 + Rounds - 1)
    BY <1>1
  <2>3. h \in Int
    BY <1>1
  <2> HIDE DEF h
  <2> QED  BY <1>1, <2>1, <2>2, <2>3
<1>12. g \in Int /\ h \in Int /\ ref \in Int /\ Abs(h) <= Abs(g)
  <2>1. PICK a \in Int, b \in Int : a = t2 + t3 - t1 - t4 /\ b = t4 - t1 /\ a <= b /\ - a <= b
    BY <1>1, <1>2
  <2>2. slope * a \in Int /\ slope * b \in Int /\ Abs(slope * a) <= Abs(slope * b)
    BY <1>1, <2>1, Within
  <2>3. ref \in Int
    BY <1>1
  <2> QED  BY <2>1, <2>2, <2>3
<1> HIDE DEF ref, cur, g, h
<1>13. Abs(2 * g) = 2 * Abs(g)
  BY <1>12 DEF Abs
<1>14. Judge(x) = Verdict(ref, cur, 2 * Abs(g))
  <2>1. UNSTEADY = 25 /\ 1000 - TOLERANCE = 950 /\ 1000 + TOLERANCE = 1050
    BY DEF UNSTEADY, TOLERANCE
  <2>2. Judge(x) = IF 1000 * Abs(2 * g) > UNSTEADY * ref THEN "inconclusive"
                   ELSE IF 1000 * cur < (1000 - TOLERANCE) * ref \/ 1000 * cur > (1000 + TOLERANCE) * ref
                        THEN "fail" ELSE "pass"
    BY <1>9, <1>10 DEF Judge
  <2> QED  BY <1>13, <2>1, <2>2 DEF Verdict
<1>15. ref = 2 * reference + slope * (t[1] + t[4] + Rounds - 1) /\ g = slope * (t[4] - t[1])
  BY <1>2 DEF ref, g
<1> QED  BY <1>11, <1>12, <1>14, <1>15 DEF JudgedAt

\* A machine that drifts does not fail a commit that is as fast as the reference.
LEMMA EqualPasses ==
  ASSUME IInv, NEW x \in Measurements, NEW t, ArmTimes(x, t, FALSE), Count(x) = 4, working = reference
  PROVE  Judge(x) # "fail"
<1>1. PICK ref \in Int, g \in Int, h \in Int :
        Abs(h) <= Abs(g) /\ Judge(x) = Verdict(ref, ref + 2 * (working - reference) + h, 2 * Abs(g))
  <2>1. JudgedAt(x, t)
    BY Judged
  <2> QED  BY <2>1 DEF JudgedAt
<1>2. ref + 2 * (working - reference) + h = ref + h
  BY <1>1 DEF IInv, NumbersOK
<1>3. PICK a \in Int : a = Abs(g) /\ - a <= h /\ h <= a
  BY <1>1 DEF Abs
<1>4. Verdict(ref, ref + h, 2 * a) # "fail"
  BY <1>3 DEF Verdict
<1> QED  BY <1>1, <1>2, <1>3, <1>4

\* The process under way began to measure at time b, or will not do so before.  first: it is the
\* first one of its session.
Begun(p) == p.pc \in {"measuring", "writing", "recording"} \/ (p.pc = "exited" /\ p.code = 0)
ProcessTimes(p, b, first) ==
  /\ p.pc \in {"none", "preflight", "warmup"} =>
       b = now - p.passes + Warm /\ p.passes < WarmMax /\ (first => now = p.passes)
  /\ p.pc = "measuring" => /\ b + Len(p.rows) = now
                           /\ p.rows = RowsAt(p.commit, slope, b, Len(p.rows))
  /\ p.pc = "writing" => b + Rounds <= now /\ p.rows = RowsAt(p.commit, slope, b, Rounds)
  /\ p.pc = "recording" \/ (p.pc = "exited" /\ p.code = 0) =>
       b + Rounds <= now /\ p.csv = RowsAt(p.commit, slope, b, Rounds)
  /\ first /\ Begun(p) => b \in 0 .. WarmMax

\* The arm under way, and the arms before it.
ArmUnderWay(sides, p) ==
  LET x == sides[Len(sides)] IN
  \E t : /\ ArmTimes(x, t, Len(sides) = 1)
         /\ ProcessTimes(p, t[Count(x) + 1], Len(sides) = 1 /\ Count(x) = 0)
ArmsBefore(sides) ==
  \A a \in 1 .. Len(sides) - 1 : Count(sides[a]) = 4 /\ \E t : ArmTimes(sides[a], t, a = 1)

ClockOK ==
  session.kind = "check" /\ session.state # "idle" =>
    /\ ArmUnderWay(session.sides, proc) /\ ArmsBefore(session.sides)
    /\ proc.pc # "none" => proc.side = ORDER[Measured + 1]

TInv == IInv /\ ClockOK

\* One more row.
LEMMA OneMoreRow ==
  ASSUME NEW c \in Int, NEW d \in Int, NEW b \in Int, NEW n \in Nat
  PROVE  Append(RowsAt(c, d, b, n), c + d * (b + n)) = RowsAt(c, d, b, n + 1)
<1> DEFINE s == RowsAt(c, d, b, n)
           e == c + d * (b + n)
           r == RowsAt(c, d, b, n + 1)
<1>1. s \in Seq(Int) /\ Len(s) = n /\ e \in Int
  BY RowsAre
<1>2. r \in Seq(Int) /\ Len(r) = n + 1
  BY RowsAre
<1>3. \A i \in 1 .. n : r[i] = s[i]
  BY DEF RowsAt
<1>4. r[n + 1] = e
  <2>1. n + 1 \in 1 .. n + 1 /\ b + (n + 1) - 1 = b + n
    OBVIOUS
  <2>2. r[n + 1] = c + d * (b + (n + 1) - 1)
    BY <2>1 DEF RowsAt
  <2> QED  BY <2>1, <2>2
<1> HIDE DEF s, e, r
<1>5. Append(s, e) \in Seq(Int) /\ Len(Append(s, e)) = n + 1
  BY <1>1
<1>6. \A i \in 1 .. n + 1 : Append(s, e)[i] = r[i]
  BY <1>1, <1>3, <1>4
<1> QED  BY <1>2, <1>5, <1>6 DEF s, e, r

\* A pass of the warm-up: the process goes on warming up, fails, or begins to measure now.
LEMMA WarmUpTimes ==
  ASSUME IInv, NEW b \in Int, NEW first \in BOOLEAN, ProcessTimes(proc, b, first),
         NEW readings \in Readings, WarmUp(readings)
  PROVE  \E u \in Int : u >= b /\ ProcessTimes(proc, u, first)'
<1>1. proc \in Procs /\ proc.rows = <<>> /\ proc.pc = "warmup" /\ proc.passes \in Nat
  BY DEF IInv, ProcessOK, WarmUp, StageOK, Procs
<1>2. /\ now \in Int /\ now' = now + 1 /\ slope' = slope /\ WarmMax \in Nat /\ WarmMin \in Nat
      /\ Warm \in Nat
  BY BenchAssumption, WarmIs DEF IInv, NumbersOK, WarmUp
<1>3. b = now - proc.passes + Warm /\ proc.passes < WarmMax /\ (first => now = proc.passes)
  BY <1>1 DEF ProcessTimes
<1> DEFINE all     == proc.samples \o readings
           samples == IF Len(all) > 2 * Window THEN LastOf(all, 2 * Window) ELSE all
           passes  == proc.passes + 1
           settled == /\ passes >= WarmMin
                      /\ Settled(all) \/ (proc.mean # <<>> /\ Agree(proc.mean, readings))
           after   == [proc EXCEPT !.passes = passes, !.mean = readings, !.samples = samples]
<1>4. /\ samples \in Seq(Nat) /\ passes \in Nat
      /\ proc' = IF settled THEN [after EXCEPT !.pc = "measuring", !.passed = after.passed \cup {"settled"},
                                               !.samples = <<>>, !.mean = <<>>, !.passes = 0]
                 ELSE IF passes >= WarmMax THEN Exited(after, 3) ELSE after
  <2>1. samples \in Seq(Nat)
    BY <1>1, WindowKept DEF Procs
  <2>2. passes \in Nat
    BY <1>1
  <2> HIDE DEF samples, passes
  <2> QED  BY <2>1, <2>2 DEF WarmUp, samples, passes
<1> HIDE DEF all, samples
<1>5. readings \in Seq(Nat)
  BY <1>1, WindowKept DEF Procs
<1>6. /\ after \in Procs /\ after.pc = "warmup" /\ after.passes = passes /\ after.rows = <<>>
  BY <1>1, <1>4, <1>5 DEF Procs
<1>7. CASE settled
  <2>1. passes >= Warm
    BY <1>1, <1>2, <1>7 DEF Warm
  <2> HIDE DEF after, settled
  <2>2. proc'.pc = "measuring" /\ proc'.rows = <<>>
    BY <1>4, <1>6, <1>7 DEF Procs
  <2>3. PICK u \in Int : u = now + 1 /\ u >= b /\ (first => u \in 0 .. WarmMax)
    BY <1>1, <1>2, <1>3, <2>1
  <2>4. RowsAt(proc'.commit, slope', u, 0) = <<>> /\ Len(<<>>) = 0 /\ u + 0 = now'
    BY <1>2, <2>3 DEF RowsAt
  <2>5. ProcessTimes(proc, u, first)'
    BY <2>2, <2>3, <2>4 DEF ProcessTimes, Begun
  <2> QED  BY <2>3, <2>5
<1>8. CASE ~ settled /\ passes >= WarmMax
  <2> HIDE DEF after, settled, passes
  <2>1. proc' = Exited(after, 3)
    BY <1>4, <1>8
  <2>2. PICK a \in Procs : a = after
    BY <1>6
  <2>3. ProcessTimes(Exited(a, 3), b, first)'
    <3>1. Exited(a, 3).pc = "exited" /\ Exited(a, 3).code = 3
      BY DEF Exited, Procs
    <3> HIDE DEF Exited
    <3> QED  BY <3>1 DEF ProcessTimes, Begun
  <2>4. ProcessTimes(proc, b, first)'
    BY <2>1, <2>2, <2>3
  <2>5. b >= b
    OBVIOUS
  <2> QED  BY <2>4, <2>5
<1>9. CASE ~ settled /\ ~ (passes >= WarmMax)
  <2>1. proc'.pc = "warmup" /\ proc'.passes = proc.passes + 1
    BY <1>4, <1>6, <1>9
  <2>2. /\ b = now' - proc'.passes + Warm /\ proc'.passes < WarmMax
        /\ first => now' = proc'.passes
    BY <1>1, <1>2, <1>3, <1>9, <2>1
  <2>3. ProcessTimes(proc, b, first)'
    BY <2>1, <2>2 DEF ProcessTimes, Begun, Warm
  <2>4. b >= b
    OBVIOUS
  <2> QED  BY <2>3, <2>4
<1> QED  BY <1>7, <1>8, <1>9

\* Every step of the process keeps the time it began to measure, or puts it off.
LEMMA StepTimes ==
  ASSUME IInv, NEW b \in Int, NEW first \in BOOLEAN, ProcessTimes(proc, b, first), Process
  PROVE  \E u \in Int : u >= b /\ ProcessTimes(proc, u, first)'
<1>1. proc \in Procs /\ StageOK(proc) /\ proc.rows \in Seq(Int) /\ proc.commit \in Int
  BY DEF IInv, ProcessOK, Procs
<1>2. Rounds \in Nat \ {0} /\ now \in Int /\ slope \in Int /\ b >= b
  BY BenchAssumption DEF IInv, NumbersOK
<1>3. ASSUME NEW code \in {1, 2, 3}, proc' = Exited(proc, code)
      PROVE  ProcessTimes(proc, b, first)'
  <2>1. proc'.pc = "exited" /\ proc'.code # 0
    BY <1>1, <1>3 DEF Exited, Procs
  <2> QED  BY <2>1 DEF ProcessTimes, Begun
<1>4. CASE Preflight
  <2>1. CASE GitDirty(proc)
    <3>1. proc' = Exited(proc, 2)
      BY <1>4, <2>1 DEF Preflight
    <3> QED  BY <1>2, <1>3, <3>1
  <2>2. CASE ~ GitDirty(proc)
    <3>1. proc' = [proc EXCEPT !.pc = "warmup", !.passed = {"idle", "clean"}]
      BY <1>4, <2>2 DEF Preflight
    <3>2. proc'.pc = "warmup" /\ proc'.passes = proc.passes /\ now' = now /\ proc.pc = "preflight"
      BY <1>1, <1>4, <3>1 DEF Procs, Preflight
    <3>3. ProcessTimes(proc, b, first)'
      BY <3>2 DEF ProcessTimes, Begun, Warm
    <3> QED  BY <1>2, <3>3
  <2> QED  BY <2>1, <2>2
<1>5. CASE PreflightFails \/ ProcessFails
  <2>1. proc' = Exited(proc, 1)
    BY <1>5 DEF PreflightFails, ProcessFails
  <2> QED  BY <1>2, <1>3, <2>1
<1>6. CASE \E readings \in Readings : WarmUp(readings)
  BY <1>6, WarmUpTimes
<1>7. CASE Measure
  <2> DEFINE rows == Append(proc.rows, Throughput(proc.commit))
             l == Len(proc.rows)
  <2>1. proc.pc = "measuring" /\ l < Rounds /\ l \in Nat
    BY <1>1, <1>7 DEF Measure, StageOK
  <2>2. b + l = now /\ proc.rows = RowsAt(proc.commit, slope, b, l) /\ (first => b \in 0 .. WarmMax)
    BY <2>1 DEF ProcessTimes, Begun
  <2>3. now' = now + 1 /\ slope' = slope
    BY <1>7 DEF Measure
  <2>4. Throughput(proc.commit) = proc.commit + slope * (b + l)
    BY <2>2 DEF Throughput
  <2>5. rows = RowsAt(proc.commit, slope, b, l + 1)
    <3>1. PICK n \in Nat : n = l
      BY <2>1
    <3>2. Append(RowsAt(proc.commit, slope, b, n), proc.commit + slope * (b + n)) = RowsAt(proc.commit, slope, b, n + 1)
      BY <1>1, <1>2, OneMoreRow
    <3>3. proc.rows = RowsAt(proc.commit, slope, b, n)
      BY <2>2, <3>1
    <3>4. Throughput(proc.commit) = proc.commit + slope * (b + n)
      BY <2>4, <3>1
    <3> QED  BY <3>1, <3>2, <3>3, <3>4
  <2>6. Len(rows) = l + 1
    <3>1. Throughput(proc.commit) \in Int
      BY <1>1, <1>2 DEF Throughput
    <3> QED  BY <1>1, <3>1
  <2>7. proc' = [proc EXCEPT !.rows = rows, !.pc = IF l + 1 = Rounds THEN "writing" ELSE proc.pc]
    BY <1>7 DEF Measure
  <2> HIDE DEF rows, l
  <2>8. /\ proc'.rows = rows /\ proc'.commit = proc.commit
        /\ proc'.pc = IF l + 1 = Rounds THEN "writing" ELSE "measuring"
    BY <1>1, <2>1, <2>7 DEF Procs
  <2>9. b + (l + 1) = now'
    BY <1>2, <2>1, <2>2, <2>3
  <2>10. CASE l + 1 = Rounds
    <3>1. proc'.pc = "writing" /\ b + Rounds <= now' /\ proc'.rows = RowsAt(proc'.commit, slope', b, Rounds)
      BY <1>2, <2>3, <2>5, <2>8, <2>9, <2>10
    <3>2. ProcessTimes(proc, b, first)'
      BY <2>2, <3>1 DEF ProcessTimes, Begun
    <3> QED  BY <1>2, <3>2
  <2>11. CASE l + 1 # Rounds
    <3>1. /\ proc'.pc = "measuring" /\ b + Len(proc'.rows) = now'
          /\ proc'.rows = RowsAt(proc'.commit, slope', b, Len(proc'.rows))
      BY <2>3, <2>5, <2>6, <2>8, <2>9, <2>11
    <3>2. ProcessTimes(proc, b, first)'
      BY <2>2, <3>1 DEF ProcessTimes, Begun
    <3> QED  BY <1>2, <3>2
  <2> QED  BY <2>10, <2>11
<1>8. CASE WriteRows
  <2>1. proc.pc = "writing" /\ UNCHANGED <<now, slope>>
    BY <1>8 DEF WriteRows
  <2>2. b + Rounds <= now /\ proc.rows = RowsAt(proc.commit, slope, b, Rounds) /\ (first => b \in 0 .. WarmMax)
    BY <2>1 DEF ProcessTimes, Begun
  <2>3. proc'.pc = "recording" /\ proc'.csv = proc.rows /\ proc'.commit = proc.commit
    BY <1>1, <1>8 DEF WriteRows, Procs
  <2>4. ProcessTimes(proc, b, first)'
    BY <2>1, <2>2, <2>3 DEF ProcessTimes, Begun
  <2> QED  BY <1>2, <2>4
<1>9. CASE WriteSidecar
  <2>1. proc.pc = "recording" /\ UNCHANGED <<now, slope>>
    BY <1>9 DEF WriteSidecar
  <2>2. b + Rounds <= now /\ proc.csv = RowsAt(proc.commit, slope, b, Rounds) /\ (first => b \in 0 .. WarmMax)
    BY <2>1 DEF ProcessTimes, Begun
  <2>3. proc'.pc = "exited" /\ proc'.csv = proc.csv /\ proc'.commit = proc.commit
    BY <1>1, <1>9 DEF WriteSidecar, Exited, Procs
  <2>4. ProcessTimes(proc, b, first)'
    BY <2>1, <2>2, <2>3 DEF ProcessTimes, Begun
  <2> QED  BY <1>2, <2>4
<1> QED  BY <1>4, <1>5, <1>6, <1>7, <1>8, <1>9 DEF Process

LEMMA Appended ==
  ASSUME NEW S, NEW q \in Seq(S), NEW m \in S
  PROVE  /\ Append(q, m) \in Seq(S) /\ Len(Append(q, m)) = Len(q) + 1 /\ Append(q, m)[Len(q) + 1] = m
         /\ \A i \in 1 .. Len(q) : Append(q, m)[i] = q[i]
OBVIOUS

\* The next process of the order adds to its side.
Grown(x, m) == [x EXCEPT ![ORDER[Count(x) + 1]] = Append(x[ORDER[Count(x) + 1]], m)]

LEMMA GrownArm ==
  ASSUME NEW S, NEW x \in [reference : Seq(S), current : Seq(S)], Abba(x), Count(x) < 4, NEW m \in S,
         NEW y, y = Grown(x, m)
  PROVE  /\ Abba(y) /\ Count(y) = Count(x) + 1 /\ Nth(y, Count(x) + 1) = m
         /\ \A k \in 1 .. Count(x) : Nth(y, k) = Nth(x, k)
<1>1. PICK r \in Seq(S), c \in Seq(S) :
        r = x.reference /\ c = x.current /\ x = [reference |-> r, current |-> c]
  OBVIOUS
<1>2. CASE Len(r) = 0 /\ Len(c) = 0 /\ Count(x) = 0
  <2>1. PICK g : g = Append(r, m) /\ Len(g) = 1 /\ g[1] = m
    <3>1. /\ Len(Append(r, m)) = Len(r) + 1 /\ Append(r, m)[Len(r) + 1] = m
          /\ \A i \in 1 .. Len(r) : Append(r, m)[i] = r[i]
      BY <1>1, Appended
    <3>2. Len(r) = 0 /\ Len(r) + 1 = 1
      BY <1>2
    <3> QED  BY <3>1, <3>2
  <2>2. ORDER[Count(x) + 1] = "reference"
    BY <1>2, OrderIs
  <2>3. y = [x EXCEPT !.reference = g]
    BY <1>1, <2>1, <2>2 DEF Grown
  <2>4. /\ y.reference = g /\ y.current = c
        /\ x.reference = r /\ x.current = c
    BY <1>1, <2>3
  <2>5. Len(y.reference) = 1 /\ Len(y.current) = 0
    BY <1>2, <2>1, <2>4
  <2>6. Abba(y) /\ Count(y) = 1
    <3>1. <<Len(y.reference), Len(y.current)>> = <<1, 0>>
      BY <2>5
    <3>2. Abba(y)
      BY <3>1 DEF Abba
    <3>3. Count(y) = 1 + 0
      BY <2>5, Zenon DEF Count
    <3>4. 1 + 0 = 1
      OBVIOUS
    <3> QED  BY <3>2, <3>3, <3>4
  <2>7. Nth(y, 1) = m
    BY <2>1, <2>4, OrderIs DEF Nth
  <2> QED  BY <1>2, <2>6, <2>7
<1>3. CASE Len(r) = 1 /\ Len(c) = 0 /\ Count(x) = 1
  <2>1. PICK g : g = Append(c, m) /\ Len(g) = 1 /\ g[1] = m
    <3>1. /\ Len(Append(c, m)) = Len(c) + 1 /\ Append(c, m)[Len(c) + 1] = m
          /\ \A i \in 1 .. Len(c) : Append(c, m)[i] = c[i]
      BY <1>1, Appended
    <3>2. Len(c) = 0 /\ Len(c) + 1 = 1
      BY <1>3
    <3> QED  BY <3>1, <3>2
  <2>2. ORDER[Count(x) + 1] = "current"
    BY <1>3, OrderIs
  <2>3. y = [x EXCEPT !.current = g]
    BY <1>1, <2>1, <2>2 DEF Grown
  <2>4. /\ y.reference = r /\ y.current = g
        /\ x.reference = r /\ x.current = c
    BY <1>1, <2>3
  <2>5. Len(y.reference) = 1 /\ Len(y.current) = 1
    BY <1>3, <2>1, <2>4
  <2>6. Abba(y) /\ Count(y) = 2
    <3>1. <<Len(y.reference), Len(y.current)>> = <<1, 1>>
      BY <2>5
    <3>2. Abba(y)
      BY <3>1 DEF Abba
    <3>3. Count(y) = 1 + 1
      BY <2>5, Zenon DEF Count
    <3>4. 1 + 1 = 2
      OBVIOUS
    <3> QED  BY <3>2, <3>3, <3>4
  <2>7. Nth(y, 2) = m /\ Nth(y, 1) = Nth(x, 1)
    BY <2>1, <2>4, OrderIs DEF Nth
  <2>8. \A k \in 1 .. Count(x) : k = 1
    BY <1>3
  <2> QED  BY <1>3, <2>6, <2>7, <2>8
<1>4. CASE Len(r) = 1 /\ Len(c) = 1 /\ Count(x) = 2
  <2>1. PICK g : g = Append(c, m) /\ Len(g) = 2 /\ g[1] = c[1] /\ g[2] = m
    <3>1. /\ Len(Append(c, m)) = Len(c) + 1 /\ Append(c, m)[Len(c) + 1] = m
          /\ \A i \in 1 .. Len(c) : Append(c, m)[i] = c[i]
      BY <1>1, Appended
    <3>2. Len(c) = 1 /\ Len(c) + 1 = 2
      BY <1>4
    <3>3. Append(c, m)[1] = c[1]
      <4>1. 1 \in 1 .. Len(c)
        BY <3>2
      <4> QED  BY <3>1, <4>1
    <3> QED  BY <3>1, <3>2, <3>3
  <2>2. ORDER[Count(x) + 1] = "current"
    BY <1>4, OrderIs
  <2>3. y = [x EXCEPT !.current = g]
    BY <1>1, <2>1, <2>2 DEF Grown
  <2>4. /\ y.reference = r /\ y.current = g
        /\ x.reference = r /\ x.current = c
    BY <1>1, <2>3
  <2>5. Len(y.reference) = 1 /\ Len(y.current) = 2
    BY <1>4, <2>1, <2>4
  <2>6. Abba(y) /\ Count(y) = 3
    <3>1. <<Len(y.reference), Len(y.current)>> = <<1, 2>>
      BY <2>5
    <3>2. Abba(y)
      BY <3>1 DEF Abba
    <3>3. Count(y) = 1 + 2
      BY <2>5, Zenon DEF Count
    <3>4. 1 + 2 = 3
      OBVIOUS
    <3> QED  BY <3>2, <3>3, <3>4
  <2>7. Nth(y, 3) = m /\ Nth(y, 1) = Nth(x, 1) /\ Nth(y, 2) = Nth(x, 2)
    BY <2>1, <2>4, OrderIs DEF Nth
  <2>8. \A k \in 1 .. Count(x) : k = 1 \/ k = 2
    BY <1>4
  <2> QED  BY <1>4, <2>6, <2>7, <2>8
<1>5. CASE Len(r) = 1 /\ Len(c) = 2 /\ Count(x) = 3
  <2>1. PICK g : g = Append(r, m) /\ Len(g) = 2 /\ g[1] = r[1] /\ g[2] = m
    <3>1. /\ Len(Append(r, m)) = Len(r) + 1 /\ Append(r, m)[Len(r) + 1] = m
          /\ \A i \in 1 .. Len(r) : Append(r, m)[i] = r[i]
      BY <1>1, Appended
    <3>2. Len(r) = 1 /\ Len(r) + 1 = 2
      BY <1>5
    <3>3. Append(r, m)[1] = r[1]
      <4>1. 1 \in 1 .. Len(r)
        BY <3>2
      <4> QED  BY <3>1, <4>1
    <3> QED  BY <3>1, <3>2, <3>3
  <2>2. ORDER[Count(x) + 1] = "reference"
    BY <1>5, OrderIs
  <2>3. y = [x EXCEPT !.reference = g]
    BY <1>1, <2>1, <2>2 DEF Grown
  <2>4. /\ y.reference = g /\ y.current = c
        /\ x.reference = r /\ x.current = c
    BY <1>1, <2>3
  <2>5. Len(y.reference) = 2 /\ Len(y.current) = 2
    BY <1>5, <2>1, <2>4
  <2>6. Abba(y) /\ Count(y) = 4
    <3>1. <<Len(y.reference), Len(y.current)>> = <<2, 2>>
      BY <2>5
    <3>2. Abba(y)
      BY <3>1 DEF Abba
    <3>3. Count(y) = 2 + 2
      BY <2>5, Zenon DEF Count
    <3>4. 2 + 2 = 4
      OBVIOUS
    <3> QED  BY <3>2, <3>3, <3>4
  <2>7. Nth(y, 4) = m /\ Nth(y, 1) = Nth(x, 1) /\ Nth(y, 2) = Nth(x, 2) /\ Nth(y, 3) = Nth(x, 3)
    BY <2>1, <2>4, OrderIs DEF Nth
  <2>8. \A k \in 1 .. Count(x) : k = 1 \/ k = 2 \/ k = 3
    BY <1>5
  <2> QED  BY <1>5, <2>6, <2>7, <2>8
<1>6. \/ Len(r) = 0 /\ Len(c) = 0 /\ Count(x) = 0
      \/ Len(r) = 1 /\ Len(c) = 0 /\ Count(x) = 1
      \/ Len(r) = 1 /\ Len(c) = 1 /\ Count(x) = 2
      \/ Len(r) = 1 /\ Len(c) = 2 /\ Count(x) = 3
  BY <1>1, AbbaCases
<1> QED  BY <1>2, <1>3, <1>4, <1>5, <1>6

-----------------------------------------------------------------------------
(* A session, in time *)

\* Numbers stay where they are in time as long as drift and commits do.
LEMMA TimesKept ==
  ASSUME NEW x, NEW t, NEW first, ArmTimes(x, t, first), UNCHANGED <<slope, working, reference>>
  PROVE  ArmTimes(x, t, first)'
BY DEF ArmTimes, CommitOf, RowsAt

LEMMA BeforeKept ==
  ASSUME NEW sides, ArmsBefore(sides), UNCHANGED <<slope, working, reference>>
  PROVE  ArmsBefore(sides)'
BY TimesKept DEF ArmsBefore

\* The process to come may begin later.
LEMMA Postponed ==
  ASSUME NEW A, NEW B, NEW x \in [reference : Seq(A), current : Seq(B)],
         NEW t, NEW first, ArmTimes(x, t, first), NEW u \in Int, u >= t[Count(x) + 1]
  PROVE  /\ ArmTimes(x, [t EXCEPT ![Count(x) + 1] = u], first)
         /\ [t EXCEPT ![Count(x) + 1] = u][Count(x) + 1] = u
<1>1. Count(x) \in 0 .. 4 /\ t \in [1 .. 5 -> Int] /\ Abba(x)
  BY AbbaCases DEF ArmTimes
<1>2. PICK n \in 0 .. 4 : n = Count(x)
  BY <1>1
<1>3. PICK v : v = [t EXCEPT ![n + 1] = u]
  OBVIOUS
<1>4. v \in [1 .. 5 -> Int] /\ v[n + 1] = u /\ \A k \in 1 .. 5 : k # n + 1 => v[k] = t[k]
  BY <1>1, <1>3
<1>5. ASSUME NEW k \in 1 .. n
      PROVE  v[k] = t[k] /\ v[k] + Rounds + Warm <= v[k + 1]
  <2>1. k \in 1 .. 5 /\ k + 1 \in 1 .. 5 /\ k # n + 1
    OBVIOUS
  <2>2. v[k] = t[k] /\ t[k] + Rounds + Warm <= t[k + 1] /\ t[k] \in Int /\ t[k + 1] \in Int
    BY <1>1, <1>2, <1>4, <2>1 DEF ArmTimes
  <2>3. v[k + 1] \in Int /\ v[k + 1] >= t[k + 1]
    <3>1. CASE k = n
      BY <1>2, <1>4, <2>2, <3>1
    <3>2. CASE k # n
      <4>1. k + 1 # n + 1
        BY <3>2
      <4> QED  BY <1>4, <2>1, <2>2, <4>1
    <3> QED  BY <3>1, <3>2
  <2> QED  BY <2>2, <2>3, WarmIs
<1>6. \A k \in 1 .. n : Nth(x, k).runs = RowsAt(CommitOf(ORDER[k]), slope, v[k], Rounds)
  BY <1>2, <1>5 DEF ArmTimes
<1>7. (first /\ n > 0) => v[1] \in 0 .. WarmMax
  <2> SUFFICES ASSUME first, n > 0 PROVE v[1] \in 0 .. WarmMax
    OBVIOUS
  <2>1. 1 \in 1 .. n
    OBVIOUS
  <2>2. v[1] = t[1]
    BY <1>5, <2>1
  <2> QED  BY <1>2, <2>2 DEF ArmTimes
<1>8. ArmTimes(x, v, first)
  BY <1>1, <1>2, <1>4, <1>5, <1>6, <1>7 DEF ArmTimes
<1> QED  BY <1>2, <1>3, <1>4, <1>8

\* What has been measured keeps its times as long as time, drift and commits do.
LEMMA ClockKept ==
  ASSUME ClockOK, UNCHANGED <<now, slope, working, reference, proc>>,
         session'.sides = session.sides, session'.kind = session.kind, session.state # "idle"
  PROVE  ClockOK'
<1> SUFFICES ASSUME session.kind = "check"
             PROVE  /\ ArmUnderWay(session.sides, proc)' /\ ArmsBefore(session.sides)'
                    /\ proc'.pc # "none" => proc'.side = ORDER[Measured + 1]'
  BY DEF ClockOK
<1>1. PICK q, p : q = session.sides /\ p = proc
  OBVIOUS
<1>2. ArmUnderWay(q, p) /\ ArmsBefore(q)
  BY <1>1 DEF ClockOK
<1>3. ArmsBefore(q)'
  BY <1>2, BeforeKept
<1>4. ArmUnderWay(q, p)'
  <2> DEFINE x == q[Len(q)]
             one == Len(q) = 1
             two == Len(q) = 1 /\ Count(x) = 0
             c == Count(x)
  <2>1. PICK t : ArmTimes(x, t, one) /\ ProcessTimes(p, t[c + 1], two)
    BY <1>2 DEF ArmUnderWay
  <2> HIDE DEF x, one, two, c
  <2>2. ArmTimes(x, t, one)'
    BY <2>1, TimesKept
  <2>3. ProcessTimes(p, t[c + 1], two)'
    BY <2>1 DEF ProcessTimes, RowsAt, Begun
  <2> QED  BY <2>2, <2>3 DEF ArmUnderWay, x, one, two, c
<1>5. Measured' = Measured
  BY DEF Measured, Sides
<1> QED  BY <1>1, <1>3, <1>4, <1>5 DEF ClockOK

\* An arm that begins, with no process.
LEMMA ArmBegins ==
  ASSUME NEW q, q[Len(q)] = NoSides, now' \in Int, Len(q) = 1 => now' = 0
  PROVE  ArmUnderWay(q, NoProcess)'
<1>1. PICK t : t = [k \in 1 .. 5 |-> now' + Warm]
  OBVIOUS
<1>2. t \in [1 .. 5 -> Int] /\ t[1] = now' + Warm
  BY <1>1, WarmIs
<1>3. Count(NoSides) = 0 /\ Abba(NoSides)
  <2>1. Len(NoSides.reference) = 0 /\ Len(NoSides.current) = 0
    BY DEF NoSides
  <2>2. <<Len(NoSides.reference), Len(NoSides.current)>> = <<0, 0>>
    BY <2>1
  <2> QED  BY <2>1, <2>2, NothingMeasured DEF Count, Abba
<1>4. \A f : ArmTimes(NoSides, t, f)'
  <2>1. \A k \in 1 .. Count(NoSides) : FALSE
    BY <1>3
  <2>2. ~ (Count(NoSides) > 0)
    BY <1>3
  <2> QED  BY <1>2, <1>3, <2>1, <2>2 DEF ArmTimes
<1>5. NoProcess.pc = "none" /\ NoProcess.passes = 0
  BY DEF NoProcess, NewProcess
<1>6. WarmMax > 0 /\ now' - 0 + Warm = now' + Warm
  BY BenchAssumption, WarmIs
<1>7. \A f : (f => now' = 0) => ProcessTimes(NoProcess, t[1], f)'
  <2> HIDE DEF NoProcess
  <2> QED  BY <1>2, <1>5, <1>6 DEF ProcessTimes, Begun
<1>8. Count(NoSides) + 1 = 1
  BY <1>3
<1> QED  BY <1>3, <1>4, <1>7, <1>8 DEF ArmUnderWay

\* The arm and the process that a check has under way.
LEMMA UnderWay ==
  ASSUME TInv, session.kind = "check", session.state # "idle"
  PROVE  /\ session.sides \in Seq(Measurements) /\ Len(session.sides) \in Nat \ {0}
         /\ Sides = session.sides[Len(session.sides)] /\ Sides \in Measurements
         /\ Measured = Count(Sides) /\ Order = ORDER /\ Len(ORDER) = 4
         /\ Abba(Sides) /\ Count(Sides) \in 0 .. 4
<1>1. session.sides \in Seq(Measurements) /\ session.sides # <<>>
  BY DEF TInv, IInv, SessionOK, Sessions, ArmOK
<1>2. Len(session.sides) \in Nat \ {0} /\ Sides = session.sides[Len(session.sides)] /\ Sides \in Measurements
  BY <1>1 DEF Sides
<1>3. Measured = Count(Sides) /\ Order = ORDER /\ Len(ORDER) = 4
  BY DEF Measured, Count, Order, ORDER
<1>4. Abba(Sides)
  BY <1>2 DEF TInv, ClockOK, ArmUnderWay, ArmTimes
<1>5. Count(Sides) \in 0 .. 4
  <2>1. PICK A, B : A = MeasuredOf(reference) /\ B = MeasuredOf(working)
    OBVIOUS
  <2>2. PICK x \in [reference : Seq(A), current : Seq(B)] : x = Sides
    BY <1>2, <2>1 DEF Measurements
  <2>3. Count(x) \in 0 .. 4
    BY <1>4, <2>2, AbbaCases
  <2> QED  BY <2>2, <2>3
<1> QED  BY <1>1, <1>2, <1>3, <1>4, <1>5

\* A process that runs.
LEMMA ProcessClock ==
  ASSUME TInv, Process, UNCHANGED <<working, merged, reference, worktree, session>>
  PROVE  ClockOK'
<1> SUFFICES ASSUME session.kind = "check", session.state # "idle"
             PROVE  /\ ArmUnderWay(session.sides, proc)' /\ ArmsBefore(session.sides)'
                    /\ proc'.pc # "none" => proc'.side = ORDER[Measured + 1]'
  BY DEF ClockOK
<1>1. PICK q, A, B : q = session.sides /\ A = MeasuredOf(reference) /\ B = MeasuredOf(working)
  OBVIOUS
<1>2. PICK x \in [reference : Seq(A), current : Seq(B)], n \in 0 .. 4 : x = q[Len(q)] /\ n = Count(x)
  <2>1. Sides = q[Len(q)] /\ Sides \in Measurements /\ Count(Sides) \in 0 .. 4
    BY <1>1, UnderWay
  <2> QED  BY <1>1, <2>1 DEF Measurements
<1>3. slope' = slope
  BY DEF Process, Preflight, PreflightFails, Measure, WriteRows, WriteSidecar, ProcessFails, WarmUp
<1>4. ArmsBefore(q)'
  <2>1. ArmsBefore(q)
    BY <1>1 DEF TInv, ClockOK
  <2> QED  BY <1>3, <2>1, BeforeKept
<1>5. ArmUnderWay(q, proc)'
  <2>1. PICK one, two \in BOOLEAN : one = (Len(q) = 1) /\ two = (Len(q) = 1 /\ n = 0)
    OBVIOUS
  <2>2. PICK t : ArmTimes(x, t, one) /\ ProcessTimes(proc, t[n + 1], two)
    <3>1. ArmUnderWay(q, proc)
      BY <1>1 DEF TInv, ClockOK
    <3> QED  BY <1>2, <2>1, <3>1 DEF ArmUnderWay
  <2>3. PICK b \in Int : b = t[n + 1]
    <3>1. n + 1 \in 1 .. 5 /\ t \in [1 .. 5 -> Int]
      BY <2>2 DEF ArmTimes
    <3> QED  BY <3>1
  <2>4. PICK u \in Int : u >= b /\ ProcessTimes(proc, u, two)'
    <3>1. ProcessTimes(proc, b, two)
      BY <2>2, <2>3
    <3> QED  BY <3>1, StepTimes DEF TInv
  <2>5. PICK v : v = [t EXCEPT ![n + 1] = u]
    OBVIOUS
  <2>6. ArmTimes(x, v, one) /\ v[n + 1] = u
    <3>1. u >= t[Count(x) + 1]
      BY <1>2, <2>3, <2>4
    <3>2. /\ ArmTimes(x, [t EXCEPT ![Count(x) + 1] = u], one)
          /\ [t EXCEPT ![Count(x) + 1] = u][Count(x) + 1] = u
      BY <2>2, <3>1, Postponed
    <3> QED  BY <1>2, <2>5, <3>2
  <2>7. ArmTimes(x, v, one)'
    BY <1>3, <2>6, TimesKept
  <2>8. ProcessTimes(proc, v[n + 1], two)'
    BY <2>4, <2>6
  <2> QED  BY <1>2, <2>1, <2>7, <2>8 DEF ArmUnderWay
<1>6. proc'.side = proc.side /\ proc.pc # "none" /\ Measured' = Measured
  <2>1. proc'.side = proc.side
    BY StageKept DEF TInv, IInv
  <2>2. proc.pc # "none"
    BY DEF Process, Preflight, PreflightFails, Measure, WriteRows, WriteSidecar, ProcessFails, WarmUp
  <2> QED  BY <2>1, <2>2 DEF Measured, Sides
<1>7. proc.side = ORDER[Measured + 1]
  BY <1>6 DEF TInv, ClockOK
<1> QED  BY <1>1, <1>4, <1>5, <1>6, <1>7

\* The next process of the order.
LEMMA StartProcessClock ==
  ASSUME TInv, StartProcess
  PROVE  ClockOK'
<1>1. UNCHANGED <<now, slope, working, reference, session>> /\ proc = NoProcess
  BY DEF StartProcess
<1> SUFFICES ASSUME session.kind = "check", session.state # "idle"
             PROVE  /\ ArmUnderWay(session.sides, proc)' /\ ArmsBefore(session.sides)'
                    /\ proc'.side = ORDER[Measured + 1]'
  BY <1>1 DEF ClockOK
<1>2. PICK q : q = session.sides
  OBVIOUS
<1>3. ArmsBefore(q)'
  <2>1. ArmsBefore(q)
    BY <1>2 DEF TInv, ClockOK
  <2> QED  BY <1>1, <2>1, BeforeKept
<1>4. PICK side, commit : proc' = NewProcess(side, commit) /\ side = ORDER[Measured + 1]
  BY UnderWay DEF StartProcess
<1>5. proc'.pc = "preflight" /\ proc'.passes = 0 /\ proc'.side = side
  BY <1>4 DEF NewProcess
<1>6. ArmUnderWay(q, proc)'
  <2>1. PICK x, n, one, two : /\ x = q[Len(q)] /\ n = Count(x)
                              /\ one = (Len(q) = 1) /\ two = (Len(q) = 1 /\ n = 0)
    OBVIOUS
  <2>2. PICK t : ArmTimes(x, t, one) /\ ProcessTimes(proc, t[n + 1], two)
    <3>1. ArmUnderWay(q, proc)
      BY <1>2 DEF TInv, ClockOK
    <3> QED  BY <2>1, <3>1 DEF ArmUnderWay
  <2>3. proc.pc = "none" /\ proc.passes = 0
    BY <1>1 DEF NoProcess, NewProcess
  <2>4. ProcessTimes(proc, t[n + 1], two)'
    BY <1>1, <1>5, <2>2, <2>3 DEF ProcessTimes, Begun
  <2>5. ArmTimes(x, t, one)'
    BY <1>1, <2>2, TimesKept
  <2> QED  BY <2>1, <2>4, <2>5 DEF ArmUnderWay
<1>7. Measured' = Measured
  BY <1>1 DEF Measured, Sides
<1> QED  BY <1>1, <1>2, <1>3, <1>4, <1>5, <1>6, <1>7

\* An arm that has all its processes is left for the next one.
LEMMA NextArmClock ==
  ASSUME TInv, NextArm
  PROVE  ClockOK'
<1>1. /\ UNCHANGED <<now, slope, working, reference, proc>> /\ proc = NoProcess /\ ArmDone
      /\ session.state = "measuring" /\ session' = [session EXCEPT !.sides = Append(session.sides, NoSides)]
  BY DEF NextArm
<1>2. session \in Sessions(Measurements) /\ session.sides \in Seq(Measurements)
  BY DEF TInv, IInv, SessionOK, Sessions
<1>3. session'.sides = Append(session.sides, NoSides) /\ session'.kind = session.kind
  BY <1>1, <1>2 DEF Sessions
<1> SUFFICES ASSUME session.kind = "check"
             PROVE  ArmUnderWay(session.sides, proc)' /\ ArmsBefore(session.sides)'
  BY <1>1, <1>3, NoProcessOK DEF ClockOK
<1>0. PICK q, M : q = session.sides /\ M = Measurements
  OBVIOUS
<1>4. PICK l \in Nat \ {0} : l = Len(q) /\ q = session.sides /\ q \in Seq(M) /\ M = Measurements
  BY <1>1, <1>2, <1>0, UnderWay
<1>5. PICK w : w = Append(q, NoSides) /\ w = session'.sides
  BY <1>3, <1>4
<1>6. Len(w) = l + 1 /\ w[l + 1] = NoSides /\ \A a \in 1 .. l : w[a] = q[a]
  <2>1. NoSides \in M
    BY <1>4, NothingMeasured
  <2>2. /\ Len(Append(q, NoSides)) = Len(q) + 1 /\ Append(q, NoSides)[Len(q) + 1] = NoSides
        /\ \A i \in 1 .. Len(q) : Append(q, NoSides)[i] = q[i]
    BY <1>4, <2>1, Appended
  <2> QED  BY <1>4, <1>5, <2>2
<1>7. ArmUnderWay(w, NoProcess)'
  <2>1. w[Len(w)] = NoSides /\ Len(w) # 1
    BY <1>6
  <2>2. now' \in Int
    BY <1>1 DEF TInv, IInv, NumbersOK
  <2> QED  BY <2>1, <2>2, ArmBegins
<1>8. ArmsBefore(w)
  <2>1. Count(q[l]) = 4
    BY <1>1, <1>4, UnderWay DEF ArmDone
  <2>2. \E t : ArmTimes(q[l], t, l = 1)
    BY <1>1, <1>4 DEF TInv, ClockOK, ArmUnderWay
  <2>3. \A a \in 1 .. l - 1 : Count(q[a]) = 4 /\ \E t : ArmTimes(q[a], t, a = 1)
    BY <1>1, <1>4 DEF TInv, ClockOK, ArmsBefore
  <2>4. \A a \in 1 .. Len(w) - 1 : w[a] = q[a] /\ (a = l \/ a \in 1 .. l - 1)
    BY <1>6
  <2> QED  BY <2>1, <2>2, <2>3, <2>4 DEF ArmsBefore
<1>9. ArmsBefore(w)'
  BY <1>1, <1>8, BeforeKept
<1> QED  BY <1>1, <1>5, <1>7, <1>9

\* What a process has measured is kept with its time.
LEMMA CollectClock ==
  ASSUME TInv, Collect
  PROVE  ClockOK'
<1>1. /\ UNCHANGED <<now, slope, working, reference>> /\ session.state = "measuring"
      /\ proc.pc = "exited" /\ proc' = NoProcess
  BY DEF Collect
<1>2. session \in Sessions(Measurements) /\ session.sides \in Seq(Measurements)
  BY DEF TInv, IInv, SessionOK, Sessions
<1>3. CASE ~ Completed(proc)
  <2>1. session' = [session EXCEPT !.state = "idle", !.code = 1, !.sides = <<>>]
    BY <1>3 DEF Collect, Ends
  <2>2. session'.state = "idle"
    BY <1>2, <2>1 DEF Sessions
  <2> QED  BY <2>2 DEF ClockOK
<1>4. CASE Completed(proc)
  <2> DEFINE last == Len(session.sides)
             side == proc.side
             kept == session.sides[last]
             new == [runs |-> proc.csv, passed |-> proc.passed, commit |-> proc.commit]
             grown == [kept EXCEPT ![side] = Append(kept[side], new)]
             sides == [session.sides EXCEPT ![last] = grown]
  <2>1. session' = [session EXCEPT !.sides = sides]
    BY <1>4 DEF Collect
  <2> HIDE DEF sides
  <2>2. session'.sides = sides /\ session'.kind = session.kind
    BY <1>2, <2>1 DEF Sessions
  <2> USE DEF sides
  <2> SUFFICES ASSUME session.kind = "check"
               PROVE  ArmUnderWay(session.sides, proc)' /\ ArmsBefore(session.sides)'
    BY <1>1, <2>2, NoProcessOK DEF ClockOK
  <2>0. PICK q, m : q = session.sides /\ m = new
    OBVIOUS
  <2>3. PICK l \in Nat \ {0} : q = session.sides /\ l = last /\ m = new /\ l = Len(q)
    BY <1>1, <2>0, UnderWay
  <2>4. PICK S : S = MeasuredOf(reference) \cup MeasuredOf(working)
    OBVIOUS
  <2>5. PICK x \in [reference : Seq(S), current : Seq(S)], n \in 0 .. 3 :
          x = kept /\ n = Count(x) /\ Abba(x) /\ n = Measured
    <3>1. Sides = kept /\ kept \in Measurements /\ Abba(kept) /\ Count(kept) \in 0 .. 4 /\ Measured = Count(kept)
      BY <1>1, UnderWay
    <3>2. Measured < 4
      BY <1>1, UnderWay DEF TInv, IInv, ArmOK
    <3>3. kept.reference \in Seq(S) /\ kept.current \in Seq(S)
      <4>1. \A T, U : T \subseteq U => \A s \in Seq(T) : s \in Seq(U)
        <5> SUFFICES ASSUME NEW T, NEW U, T \subseteq U, NEW s \in Seq(T) PROVE s \in Seq(U)
          OBVIOUS
        <5>1. s \in [1 .. Len(s) -> U] /\ Len(s) \in Nat
          OBVIOUS
        <5> QED  BY <5>1
      <4>2. kept.reference \in Seq(MeasuredOf(reference)) /\ kept.current \in Seq(MeasuredOf(working))
        BY <3>1 DEF Measurements
      <4>3. MeasuredOf(reference) \subseteq S /\ MeasuredOf(working) \subseteq S
        BY <2>4
      <4> QED  BY <4>1, <4>2, <4>3
    <3>4. kept \in [reference : Seq(S), current : Seq(S)]
      BY <3>1, <3>3 DEF Measurements
    <3> QED  BY <3>1, <3>2, <3>4
  <2>6. side = ORDER[n + 1] /\ proc.commit = CommitOf(side) /\ proc.code = 0
    BY <1>1, <1>4, <2>5 DEF TInv, IInv, ProcessOK, ClockOK, Completed
  <2>7. m \in S /\ m.runs = proc.csv
    <3>1. side \in SideNames /\ proc.csv \in Seq(Int) /\ Len(proc.csv) = Rounds /\ proc.passed = Context
      BY <1>1, <2>6 DEF TInv, IInv, ProcessOK, StageOK, Procs
    <3>2. m \in MeasuredOf(CommitOf(side))
      BY <2>3, <2>6, <3>1 DEF MeasuredOf
    <3> QED  BY <2>3, <2>4, <3>1, <3>2 DEF CommitOf, SideNames
  <2>8. PICK y : y = grown /\ y = Grown(x, m)
    BY <2>3, <2>5, <2>6 DEF Grown
  <2>9. /\ Abba(y) /\ Count(y) = n + 1 /\ Nth(y, n + 1) = m
        /\ \A k \in 1 .. n : Nth(y, k) = Nth(x, k)
    <3>1. Count(x) < 4
      BY <2>5
    <3>2. y = Grown(x, m)
      BY <2>8
    <3>3. Abba(x) /\ m \in S
      BY <2>5, <2>7
    <3> HIDE DEF sides, grown, new, kept, last, side
    <3>4. /\ Abba(y) /\ Count(y) = Count(x) + 1 /\ Nth(y, Count(x) + 1) = m
          /\ \A k \in 1 .. Count(x) : Nth(y, k) = Nth(x, k)
      BY <3>1, <3>2, <3>3, GrownArm
    <3> QED  BY <2>5, <3>4
  <2>10. PICK w : /\ w = session'.sides /\ Len(w) = l /\ w[l] = y /\ \A a \in 1 .. l - 1 : w[a] = q[a]
    <3>1. sides \in Seq(Measurements \cup {y}) /\ Len(sides) = l
      BY <1>2, <2>3, <2>8
    <3>2. sides[l] = y /\ \A a \in 1 .. l - 1 : sides[a] = q[a]
      BY <1>2, <2>3, <2>8
    <3> HIDE DEF sides
    <3> QED  BY <2>2, <3>1, <3>2
  <2> HIDE DEF sides, grown, new, kept, last, side
  <2>11. PICK one \in BOOLEAN, two \in BOOLEAN : one = (l = 1) /\ two = (l = 1 /\ n = 0)
    OBVIOUS
  <2>12. PICK t : ArmTimes(x, t, one) /\ ProcessTimes(proc, t[n + 1], two)
    <3>1. ArmUnderWay(q, proc)
      BY <1>1, <2>3 DEF TInv, ClockOK
    <3> QED  BY <2>3, <2>5, <2>11, <3>1 DEF ArmUnderWay, kept, last
  <2>13. t \in [1 .. 5 -> Int] /\ n + 1 \in 1 .. 4 /\ n + 2 \in 1 .. 5 /\ t[n + 1] \in Int
    BY <2>12 DEF ArmTimes
  <2>14. /\ t[n + 1] + Rounds <= now /\ m.runs = RowsAt(CommitOf(ORDER[n + 1]), slope, t[n + 1], Rounds)
         /\ two => t[n + 1] \in 0 .. WarmMax
    BY <1>1, <2>6, <2>7, <2>12 DEF ProcessTimes, Begun
  <2>15. now \in Int /\ Warm \in Nat /\ Rounds \in Nat
    BY WarmIs DEF TInv, IInv, NumbersOK
  <2>16. PICK v : v = [t EXCEPT ![n + 2] = now + Warm]
    OBVIOUS
  <2>17. v \in [1 .. 5 -> Int] /\ v[n + 2] = now + Warm /\ \A k \in 1 .. n + 1 : v[k] = t[k]
    BY <2>13, <2>15, <2>16
  <2>18. ArmTimes(y, v, one)
    <3>1. ASSUME NEW k \in 1 .. n + 1
          PROVE  /\ Nth(y, k).runs = RowsAt(CommitOf(ORDER[k]), slope, v[k], Rounds)
                 /\ v[k] + Rounds + Warm <= v[k + 1]
      <4>1. CASE k = n + 1
        <5>1. v[k] = t[n + 1] /\ v[k + 1] = now + Warm
          BY <2>17, <4>1
        <5> QED  BY <2>9, <2>13, <2>14, <2>15, <4>1, <5>1
      <4>2. CASE k # n + 1
        <5>1. k \in 1 .. n /\ k + 1 \in 1 .. n + 1
          BY <4>2
        <5>2. v[k] = t[k] /\ v[k + 1] = t[k + 1]
          BY <2>17, <5>1
        <5>3. /\ Nth(x, k).runs = RowsAt(CommitOf(ORDER[k]), slope, t[k], Rounds)
              /\ t[k] + Rounds + Warm <= t[k + 1]
          BY <2>5, <2>12, <5>1 DEF ArmTimes
        <5> QED  BY <2>9, <5>1, <5>2, <5>3
      <4> QED  BY <4>1, <4>2
    <3>2. one => v[1] \in 0 .. WarmMax
      <4>1. v[1] = t[1]
        BY <2>17
      <4>2. CASE n = 0
        BY <2>11, <2>14, <4>1, <4>2
      <4>3. CASE n # 0
        <5>1. n > 0
          BY <4>3
        <5>2. one => t[1] \in 0 .. WarmMax
          BY <2>5, <2>12, <5>1 DEF ArmTimes
        <5> QED  BY <4>1, <5>2
      <4> QED  BY <4>2, <4>3
    <3> QED  BY <2>9, <2>17, <3>1, <3>2 DEF ArmTimes
  <2>19. ArmTimes(y, v, one)'
    BY <1>1, <2>18, TimesKept
  <2>20. ProcessTimes(NoProcess, v[n + 2], FALSE)'
    <3>1. NoProcess.pc = "none" /\ NoProcess.passes = 0
      BY DEF NoProcess, NewProcess
    <3>2. v[n + 2] = now' - 0 + Warm /\ 0 < WarmMax
      BY <1>1, <2>15, <2>17, BenchAssumption
    <3> HIDE DEF NoProcess
    <3> QED  BY <3>1, <3>2 DEF ProcessTimes, Begun
  <2>21. ArmUnderWay(w, NoProcess)'
    <3>1. Count(y) + 1 = n + 2 /\ Count(y) # 0
      BY <2>9
    <3>2. (Len(w) = 1 /\ Count(w[Len(w)]) = 0) = FALSE /\ w[Len(w)] = y /\ (Len(w) = 1) = one
      BY <2>10, <2>11, <3>1
    <3> QED  BY <2>19, <2>20, <3>1, <3>2 DEF ArmUnderWay
  <2>22. ArmsBefore(w)
    <3>1. ArmsBefore(q)
      BY <1>1, <2>3 DEF TInv, ClockOK
    <3> QED  BY <2>3, <2>10, <3>1 DEF ArmsBefore
  <2>23. ArmsBefore(w)'
    BY <1>1, <2>22, BeforeKept
  <2> QED  BY <1>1, <2>10, <2>21, <2>23
<1> QED  BY <1>3, <1>4

\* A check begins at time 0, with nothing measured.
LEMMA StartClock ==
  ASSUME TInv, NEW s \in Slopes, StartCheck(s) \/ StartUpdate(s)
  PROVE  ClockOK'
<1>1. CASE StartUpdate(s)
  <2>1. session'.kind = "update"
    BY <1>1 DEF StartUpdate
  <2> QED  BY <2>1 DEF ClockOK
<1>2. CASE StartCheck(s)
  <2>1. /\ session.state = "idle" /\ proc' = proc /\ now' = 0
        /\ session' = [state |-> "checkout", kind |-> "check", sides |-> <<NoSides>>, code |-> 0]
    BY <1>2 DEF StartCheck, Idle
  <2>2. proc' = NoProcess /\ NoProcess.pc = "none"
    BY <2>1, NoProcessOK DEF TInv, IInv, ProcessOK
  <2>3. PICK q : q = <<NoSides>> /\ session'.sides = q
    BY <2>1
  <2>4. Len(q) = 1 /\ q[1] = NoSides
    BY <2>3
  <2>5. ArmUnderWay(q, NoProcess)'
    BY <2>1, <2>4, ArmBegins
  <2>6. ArmsBefore(q)'
    BY <2>4 DEF ArmsBefore
  <2> QED  BY <2>2, <2>3, <2>5, <2>6 DEF ClockOK
<1> QED  BY <1>1, <1>2

LEMMA NextTInv == TInv /\ [Next]_vars => TInv'
<1> SUFFICES ASSUME TInv, [Next]_vars PROVE ClockOK'
  BY NextIInv DEF TInv
<1>1. ClockOK /\ session \in Sessions(Measurements)
  BY DEF TInv, IInv, SessionOK
<1>2. ASSUME session'.state = "idle" PROVE ClockOK'
  BY <1>2 DEF ClockOK
<1>3. CASE Edit \/ UNCHANGED vars
  <2>1. UNCHANGED <<now, slope, working, reference, proc, session>>
    BY <1>3 DEF Edit, vars
  <2>2. CASE session.state = "idle"
    BY <1>2, <2>1, <2>2
  <2>3. CASE session.state # "idle"
    BY <1>1, <2>1, <2>3, ClockKept
  <2> QED  BY <2>2, <2>3
<1>4. CASE Merge \/ \E c \in Changes : Commit(c)
  <2>1. session' = NoSession
    BY <1>4 DEF Merge, Commit
  <2> QED  BY <1>2, <2>1 DEF NoSession
<1>5. CASE \E s \in Slopes : StartCheck(s) \/ StartUpdate(s)
  BY <1>5, StartClock
<1>6. CASE Checkout
  <2>1. CASE Ends(1)
    <3>1. session'.state = "idle"
      BY <1>1, <2>1 DEF Ends, Sessions
    <3> QED  BY <1>2, <3>1
  <2>2. CASE session' = [session EXCEPT !.state = "measuring"]
    <3>1. /\ session'.sides = session.sides /\ session'.kind = session.kind /\ session.state # "idle"
          /\ UNCHANGED <<now, slope, working, reference, proc>>
      BY <1>1, <1>6, <2>2 DEF Sessions, Checkout
    <3> QED  BY <1>1, <3>1, ClockKept
  <2> QED  BY <1>6, <2>1, <2>2 DEF Checkout
<1>7. CASE GiveVerdict \/ WriteBaseline
  <2>1. session'.state = "idle"
    BY <1>1, <1>7 DEF GiveVerdict, WriteBaseline, Ends, Sessions
  <2> QED  BY <1>2, <2>1
<1>8. CASE NextArm
  BY <1>8, NextArmClock
<1>9. CASE StartProcess
  BY <1>9, StartProcessClock
<1>10. CASE Collect
  BY <1>10, CollectClock
<1>11. CASE Process /\ UNCHANGED <<working, merged, reference, worktree, session>>
  BY <1>11, ProcessClock
<1> QED  BY <1>3, <1>4, <1>5, <1>6, <1>7, <1>8, <1>9, <1>10, <1>11 DEF Next

LEMMA InitTInv == Init => TInv
<1> SUFFICES ASSUME Init PROVE ClockOK
  BY InitIInv DEF TInv
<1> QED  BY DEF Init, NoSession, ClockOK

\* When all is measured, every arm has had its four processes.
LEMMA ArmsMeasured ==
  ASSUME TInv, AllMeasured, session.kind = "check", NEW a \in DOMAIN session.sides
  PROVE  /\ session.sides[a] \in Measurements /\ Count(session.sides[a]) = 4
         /\ \E t : ArmTimes(session.sides[a], t, a = 1)
<1>1. session.state = "measuring" /\ ArmDone
  BY DEF AllMeasured
<1>2. session.sides \in Seq(Measurements) /\ Len(session.sides) \in Nat \ {0}
  BY <1>1, UnderWay
<1>3. a \in 1 .. Len(session.sides) /\ session.sides[a] \in Measurements
  BY <1>2
<1>4. CASE a = Len(session.sides)
  <2>1. Sides = session.sides[a] /\ Count(Sides) = 4
    BY <1>1, <1>4, UnderWay DEF ArmDone
  <2>2. \E t : ArmTimes(session.sides[a], t, a = 1)
    BY <1>1, <1>4 DEF TInv, ClockOK, ArmUnderWay
  <2> QED  BY <1>3, <2>1, <2>2
<1>5. CASE a # Len(session.sides)
  <2>1. a \in 1 .. Len(session.sides) - 1
    BY <1>2, <1>3, <1>5
  <2> QED  BY <1>1, <1>3, <2>1 DEF TInv, ClockOK, ArmsBefore
<1> QED  BY <1>4, <1>5

LEMMA EqualInTime == TInv => EqualNeverFails
<1> SUFFICES ASSUME TInv, AllMeasured, session.kind = "check", working = reference,
                    NEW a \in DOMAIN session.sides
             PROVE  Judge(session.sides[a]) # "fail"
  BY DEF EqualNeverFails
<1>1. PICK x, t, f : x = session.sides[a] /\ ArmTimes(x, t, f) /\ x \in Measurements /\ Count(x) = 4
  BY ArmsMeasured
<1>2. ArmTimes(x, t, FALSE)
  BY <1>1 DEF ArmTimes
<1> QED  BY <1>1, <1>2, EqualPasses DEF TInv

\* bench/gate.py: "A drift that is linear in time lands on both sides equally", for any drift,
\* rounds and lengths of warm-up, although it does not quite: the two sides are measured at
\* different mean times.  Whatever that makes the medians differ, the reference moves by at least
\* twice as much, and a session in which that is too much is inconclusive.
THEOREM GateEqualNeverFails == Spec => []EqualNeverFails
BY InitTInv, NextTInv, EqualInTime, PTL DEF Spec

-----------------------------------------------------------------------------
(* What is merged *)

\* A warm-up is not much longer than the measurement and the least warm-up.  The defaults of
\* bench/offline.py are 10 s and 90 s.
ShortWarmUp == WarmMax <= 17 * (Rounds + WarmMin)

Near(commit) == 1000 * Abs(commit - reference) <= 75 * reference

CommitsOK == working \in Nat \ {0} /\ merged \in Nat \ {0} /\ reference \in Nat \ {0}

VerdictOK == (session.state = "idle" /\ session.kind = "check" /\ session.code = 0) => Near(working)

MInv == TInv /\ CommitsOK /\ VerdictOK /\ Near(merged)

\* A commit that passes on the first arm is near the reference: the drift had not gone far.
LEMMA PassIsNear ==
  ASSUME IInv, CommitsOK, ShortWarmUp, NEW x \in Measurements, NEW t, ArmTimes(x, t, TRUE), Count(x) = 4,
         Judge(x) = "pass"
  PROVE  Near(working)
<1>1. ArmTimes(x, t, FALSE) /\ t[1] \in 0 .. WarmMax
  BY DEF ArmTimes
<1>2. PICK ref \in Int, g \in Int, h \in Int :
        /\ ref = 2 * reference + slope * (t[1] + t[4] + Rounds - 1)
        /\ g = slope * (t[4] - t[1]) /\ Abs(h) <= Abs(g)
        /\ Verdict(ref, ref + 2 * (working - reference) + h, 2 * Abs(g)) = "pass"
  <2>1. JudgedAt(x, t)
    BY <1>1, Judged
  <2> QED  BY <2>1 DEF JudgedAt
<1>3. /\ slope \in Int /\ reference \in Nat \ {0} /\ working \in Nat \ {0} /\ Rounds \in Nat \ {0}
      /\ Warm \in Nat /\ Warm >= WarmMin /\ WarmMin \in Nat /\ WarmMax \in Nat
  BY WarmIs, BenchAssumption DEF IInv, NumbersOK, CommitsOK
<1>4. PICK t1 \in Int, t4 \in Int : /\ t1 = t[1] /\ t4 = t[4] /\ 0 <= t1 /\ t1 <= WarmMax
                                    /\ t4 - t1 >= 3 * (Rounds + Warm)
  <2>1. /\ t[1] \in Int /\ t[2] \in Int /\ t[3] \in Int /\ t[4] \in Int
        /\ t[1] + Rounds + Warm <= t[2] /\ t[2] + Rounds + Warm <= t[3] /\ t[3] + Rounds + Warm <= t[4]
    BY <1>1, FullArm
  <2> QED  BY <1>1, <1>3, <2>1
<1>5. PICK far \in Int, long \in Int :
        far = t1 + t4 + Rounds - 1 /\ long = 13 * (t4 - t1) /\ far <= long /\ - far <= long
  BY <1>3, <1>4 DEF ShortWarmUp
<1>6. slope * far \in Int /\ slope * long \in Int /\ Abs(slope * far) <= Abs(slope * long)
  BY <1>3, <1>5, Within
<1>7. PICK e \in Int : e = slope * far /\ ref = 2 * reference + e
  BY <1>2, <1>4, <1>5, <1>6
<1>8. slope * long = 13 * g
  <2>1. g = slope * (t4 - t1)
    BY <1>2, <1>4
  <2> QED  BY <1>3, <1>5, <2>1
<1>9. PICK G \in Nat : G = Abs(g) /\ - G <= h /\ h <= G /\ e <= 13 * G
  BY <1>2, <1>6, <1>7, <1>8 DEF Abs
<1>10. /\ ~ (1000 * (2 * G) > 25 * ref)
       /\ ~ (1000 * (ref + 2 * (working - reference) + h) < 950 * ref)
       /\ ~ (1000 * (ref + 2 * (working - reference) + h) > 1050 * ref)
  BY <1>2, <1>9 DEF Verdict
<1>11. /\ 1000 * (working - reference) <= 75 * reference
       /\ 1000 * (reference - working) <= 75 * reference
  BY <1>3, <1>7, <1>9, <1>10
<1> QED  BY <1>3, <1>11 DEF Near, Abs

LEMMA NextMInv == ASSUME ShortWarmUp PROVE MInv /\ [Next]_vars => MInv'
<1> SUFFICES ASSUME MInv, [Next]_vars PROVE CommitsOK' /\ VerdictOK' /\ Near(merged)'
  BY NextTInv DEF MInv
<1>1. session \in Sessions(Measurements) /\ reference \in Nat \ {0} /\ working \in Nat \ {0}
  BY DEF MInv, TInv, IInv, SessionOK, CommitsOK
<1>0. ASSUME Ends(1) PROVE session'.code # 0
  <2>1. session' = [session EXCEPT !.state = "idle", !.code = 1, !.sides = <<>>]
    BY <1>0 DEF Ends
  <2>2. session'.code = 1
    BY <1>1, <2>1 DEF Sessions
  <2> QED  BY <2>2
<1>2. CASE UNCHANGED <<working, merged, reference>>
           /\ (session'.state # "idle" \/ session'.code # 0 \/ session' = session \/ session'.kind # "check")
  BY <1>2 DEF MInv, CommitsOK, VerdictOK, Near
<1>3. CASE Edit \/ UNCHANGED vars
  BY <1>2, <1>3 DEF Edit, vars
<1>4. CASE \E c \in Changes : Commit(c)
  <2>1. PICK c \in Changes : Commit(c)
    BY <1>4
  <2>2. UNCHANGED <<merged, reference>> /\ session'.kind = "none" /\ working' \in Start - MaxAway .. Start + MaxAway
    BY <2>1 DEF Commit, NoSession
  <2>3. working' \in Nat \ {0}
    BY <2>2, GateAssumption
  <2> QED  BY <2>2, <2>3 DEF MInv, CommitsOK, VerdictOK, Near
<1>5. CASE Merge
  <2>1. /\ session.state = "idle" /\ session.kind = "check" /\ session.code = 0 /\ merged' = working
        /\ session'.kind = "none" /\ UNCHANGED <<working, reference>>
    BY <1>5 DEF Merge, Idle, NoSession
  <2> QED  BY <1>1, <2>1 DEF MInv, CommitsOK, VerdictOK, Near
<1>6. CASE \E s \in Slopes : StartCheck(s) \/ StartUpdate(s)
  <2>1. session'.state # "idle" /\ UNCHANGED <<working, merged, reference>>
    BY <1>6 DEF StartCheck, StartUpdate
  <2> QED  BY <1>2, <2>1
<1>7. CASE Checkout
  <2>1. session'.state # "idle" \/ session'.code # 0
    <3>1. CASE session' = [session EXCEPT !.state = "measuring"]
      BY <1>1, <3>1 DEF Sessions
    <3> QED  BY <1>7, <1>0, <3>1 DEF Checkout
  <2> QED  BY <1>2, <1>7, <2>1 DEF Checkout
<1>8. CASE StartProcess \/ (Process /\ UNCHANGED <<working, merged, reference, worktree, session>>)
  BY <1>2, <1>8 DEF StartProcess
<1>9. CASE Collect
  <2>1. session.state = "measuring" /\ UNCHANGED <<working, merged, reference>>
    BY <1>9 DEF Collect
  <2>2. session'.state # "idle" \/ session'.code # 0
    <3>1. CASE Completed(proc)
      <4>1. PICK q : session' = [session EXCEPT !.sides = q]
        BY <1>9, <3>1 DEF Collect
      <4> QED  BY <1>1, <2>1, <4>1 DEF Sessions
    <3>2. CASE ~ Completed(proc)
      BY <1>9, <1>0, <3>2 DEF Collect
    <3> QED  BY <3>1, <3>2
  <2> QED  BY <1>2, <2>1, <2>2
<1>10. CASE NextArm
  <2>1. session'.state # "idle" /\ UNCHANGED <<working, merged, reference>>
    BY <1>1, <1>10 DEF NextArm, Sessions
  <2> QED  BY <1>2, <2>1
<1>11. CASE GiveVerdict
  <2>1. /\ AllMeasured /\ session.kind = "check" /\ UNCHANGED <<working, merged, reference>>
        /\ session'.code = ExitCode({Judge(session.sides[a]) : a \in DOMAIN session.sides})
    BY <1>1, <1>11 DEF GiveVerdict, Sessions
  <2>2. CASE session'.code # 0
    BY <1>2, <2>1, <2>2
  <2>3. CASE session'.code = 0
    <3>1. 1 \in DOMAIN session.sides
      <4>1. session.state # "idle"
        BY <2>1 DEF AllMeasured
      <4>2. session.sides \in Seq(Measurements) /\ Len(session.sides) \in Nat \ {0}
        BY <2>1, <4>1, UnderWay DEF MInv
      <4> QED  BY <4>2
    <3>2. PICK x, t : x = session.sides[1] /\ x \in Measurements /\ Count(x) = 4 /\ ArmTimes(x, t, 1 = 1)
      BY <2>1, <3>1, ArmsMeasured DEF MInv
    <3>3. Judge(x) \in {"inconclusive", "fail", "pass"}
      BY DEF Judge
    <3>4. Judge(x) \in {Judge(session.sides[a]) : a \in DOMAIN session.sides}
      BY <3>1, <3>2
    <3>5. Judge(x) = "pass"
      BY <2>1, <2>3, <3>3, <3>4 DEF ExitCode
    <3>6. ArmTimes(x, t, TRUE)
      BY <3>2 DEF ArmTimes
    <3>7. Near(working)
      BY <3>2, <3>5, <3>6, PassIsNear DEF MInv, TInv
    <3> QED  BY <2>1, <3>7 DEF MInv, CommitsOK, VerdictOK, Near
  <2> QED  BY <2>2, <2>3
<1>12. CASE WriteBaseline
  <2>1. session.kind = "update" /\ reference' = working /\ merged' = working /\ working' = working
    BY <1>12 DEF WriteBaseline
  <2>2. session'.kind = "update"
    BY <1>1, <1>12, <2>1 DEF WriteBaseline, Ends, Sessions
  <2>3. Abs(merged' - reference') = 0
    BY <1>1, <2>1 DEF Abs
  <2>4. Near(merged)'
    BY <1>1, <2>1, <2>3 DEF Near
  <2> QED  BY <1>1, <2>1, <2>2, <2>4 DEF CommitsOK, VerdictOK
<1> QED  BY <1>3, <1>4, <1>5, <1>6, <1>7, <1>8, <1>9, <1>10, <1>11, <1>12 DEF Next

LEMMA InitMInv == Init => MInv
<1> SUFFICES ASSUME Init PROVE CommitsOK /\ VerdictOK /\ Near(merged)
  BY InitTInv DEF MInv
<1>1. merged = reference /\ reference \in Nat \ {0} /\ working \in Nat \ {0}
  BY GateAssumption DEF Init
<1> QED  BY <1>1 DEF Init, NoSession, CommitsOK, VerdictOK, Near, Abs

LEMMA NearIsMerged == MInv => MergedNearReference
BY DEF MInv, Near, MergedNearReference, TOLERANCE, UNSTEADY

\* bench/gate.py: a change is measured against the reference and not against the change before, so
\* through any number of merges the merged commit stays within the threshold and what the machine
\* may have moved in one accepted session.  For any drift: the first workload is measured before it
\* has gone far, or the session is inconclusive.
THEOREM GateMergedNearReference == ASSUME ShortWarmUp PROVE Spec => []MergedNearReference
<1>1. MInv /\ [Next]_vars => MInv'
  BY NextMInv
<1> QED  BY <1>1, InitMInv, NearIsMerged, PTL DEF Spec
=============================================================================

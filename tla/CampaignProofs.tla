--------------------------- MODULE CampaignProofs ---------------------------
(***************************************************************************)
(* The campaign tools, for any number of sweep points, kills, losses and   *)
(* launches: a manifest belongs to the directory it is in, a verdict is    *)
(* earned and stays so, and tools that end by themselves clean up.         *)
(***************************************************************************)
EXTENDS Campaign, TLAPS

Verdict == {"none", "complete", "incomplete"}
Run == [id : Nat, config : Nat]
Directory ==
  [exists : {TRUE}, index : BOOLEAN, run : Run, whole : BOOLEAN,
   manifest : Verdict, by : {"nobody", "owner", "another"}, of : Run,
   sender : Verdict, sent : Run, profile : Nat]
Recorder ==
  [state : {"none", "started", "bound", "made", "listening", "closing", "written"},
   place : Nat, holds : BOOLEAN, run : Run, whole : BOOLEAN, lost : BOOLEAN,
   eos : BOOLEAN, term : BOOLEAN]
Board ==
  [phase : {"idle", "first", "rest"}, run : Run, config : Nat, last : Nat,
   attached : BOOLEAN]

(* Where each tool can be, where it has no recorder, and where it writes   *)
(* into a run directory that it has seen.                                  *)
Ended == {"done", "ok", "failed", "killed"}
OneRun == {"start", "wait", "send", "sending", "report", "drain", "verify", "stopping"}
SweepAt == {"plan", "check", "preserve", "copy", "stop", "analyze"} \cup OneRun
AcceptAt == {"target", "interrupt", "istart", "iwait", "istop", "istopping", "copy",
             "stop", "finalize"} \cup OneRun
SoakAt == {"soakstop"} \cup OneRun
Childless == {"plan", "check", "preserve", "target", "interrupt", "istart", "start",
              "verify", "analyze", "finalize"}
InDirectory == {"copy", "send", "sending", "report"}
ToolPc == Ended \cup SweepAt \cup AcceptAt \cup SoakAt
ToolState ==
  [prog : {"none", "sweep", "accept", "soak"}, at : Nat,
   pc : ToolPc,
   child : Slots \cup {0}, status : {"none", "alive", "ok", "failed"},
   sender : Verdict, sent : Run, targets : BOOLEAN]

RecTypeOK == rec \in [Slots -> Recorder]
DiskTypeOK == disk \in [Places -> Directory \cup {NoDir}]
BoardTypeOK == board \in Board
ToolTypeOK == tool \in ToolState
TypeOK == RecTypeOK /\ DiskTypeOK /\ BoardTypeOK /\ ToolTypeOK

(* At most one recorder has the socket. *)
PortInv ==
  /\ \A s, t \in Slots : HoldsPort(s) /\ HoldsPort(t) => s = t
  /\ \A s \in Slots : rec[s].state # "none" => rec[s].place \in Places

(* A recorder past mkdir has its directory, without a manifest until it    *)
(* writes one; if the directory was put aside, there is none at its path.  *)
Made == {"made", "listening", "closing", "written"}
OwnerInv ==
  \A s \in Slots : rec[s].state \in Made =>
    /\ rec[s].holds = disk[rec[s].place].exists
    /\ rec[s].holds /\ rec[s].state # "written" => disk[rec[s].place].manifest = "none"

(* Each tool works on its own places, and knows whether its recorder lives. *)
ToolInv ==
  /\ tool.prog = "none" => tool.pc \in Ended
  /\ tool.prog = "sweep" => tool.pc \in SweepAt /\ tool.at \in 1 .. Points
  /\ tool.prog = "accept" => tool.pc \in AcceptAt /\ tool.at = Recovery
  /\ tool.prog = "soak" => tool.pc \in SoakAt /\ tool.at = Soak
  /\ tool.status = "alive" <=> tool.child # 0
  /\ tool.pc \in Childless \cup Ended => tool.child = 0
  /\ tool.pc \in InDirectory => disk[tool.at].exists

(* The run a sender reports is the run it sent. *)
SentInv ==
  /\ board.attached => tool.pc = "sending" /\ board.phase # "idle"
  /\ board.phase # "idle" => board.run.id > 0
  /\ tool.pc = "report" => tool.sent.id > 0
  /\ \A p \in Places : disk[p].exists /\ disk[p].sender # "none" => disk[p].sent.id > 0

(* A directory that was judged good is not touched again. *)
EarnedInv ==
  /\ "PASS" \in {report, acceptance} =>
       /\ \A p \in 1 .. Points : verify_run(disk[p], p)
       /\ tool.prog = "sweep" => tool.pc \in {"plan", "check", "analyze"}
  /\ soak \in {"PASS", "PENDING"} =>
       /\ Earned(Soak, Default) /\ disk[Soak].whole
       /\ tool.prog # "soak"

Inv ==
  /\ TypeOK /\ PortInv /\ OwnerInv /\ ToolInv /\ SentInv /\ EarnedInv
  /\ ManifestBelongs

USE CampaignAssumption
    DEF verdicts, budgets, Recovery, Soak, Places, Slots, Default

(* What the updates of the tool do to its fields. *)
LEMMA NoToolTyped ==
  /\ NoTool \in ToolState
  /\ NoTool.prog = "none" /\ NoTool.child = 0 /\ NoTool.status = "none"
BY DEF NoTool, ToolState, NoRun, Run, Verdict, ToolPc, Ended

(* A jump within a program changes where the tool is and nothing else.     *)
LEMMA GoTyped ==
  ASSUME ToolTypeOK, NEW pc \in ToolPc, Go(pc)
  PROVE  /\ ToolTypeOK' /\ tool'.pc = pc
         /\ tool'.prog = tool.prog /\ tool'.at = tool.at /\ tool'.child = tool.child
         /\ tool'.status = tool.status /\ tool'.sent = tool.sent
BY DEF ToolTypeOK, ToolState, Go

(* A tool that has ended has no program, no recorder and no status.        *)
LEMMA EndTyped ==
  ASSUME NEW how \in Ended, End(how)
  PROVE  /\ ToolTypeOK' /\ tool'.pc = how /\ tool'.prog = "none"
         /\ tool'.child = 0 /\ tool'.status = "none"
<1>1. how \in ToolPc
  BY DEF ToolPc
<1> QED
  BY <1>1, NoToolTyped DEF ToolTypeOK, ToolState, End

(* A program begins without a recorder.                                    *)
LEMMA BeginTyped ==
  ASSUME NEW prog \in {"sweep", "accept", "soak"}, NEW place \in Nat, NEW pc \in ToolPc,
         Begin(prog, place, pc)
  PROVE  /\ ToolTypeOK' /\ tool'.pc = pc /\ tool'.prog = prog /\ tool'.at = place
         /\ tool'.child = 0 /\ tool'.status = "none"
BY NoToolTyped DEF ToolTypeOK, ToolState, Begin

(* A step of the tool alone leaves what recorders and directories say. *)
LEMMA DiskFrame ==
  ASSUME Inv, UNCHANGED <<rec, disk>>
  PROVE  (RecTypeOK /\ DiskTypeOK /\ PortInv /\ OwnerInv /\ ManifestBelongs)'
BY DEF Inv, TypeOK, RecTypeOK, DiskTypeOK, PortInv, OwnerInv, ManifestBelongs,
       HoldsPort

(* The general step of a tool: to another place in its program.  Past      *)
(* "sending" only the board moves it; a sweep that has passed only checks. *)
LEMMA ToolMoves ==
  ASSUME Inv, NEW pc \in ToolPc, Go(pc), UNCHANGED <<rec, disk, board, verdicts>>,
         tool.pc \notin {"sending"} \cup Ended, pc # "report",
         tool.prog = "sweep" => pc \in SweepAt,
         tool.prog = "accept" => pc \in AcceptAt,
         tool.prog = "soak" => pc \in SoakAt,
         pc \in Childless \cup Ended => tool.child = 0,
         pc \in InDirectory => disk[tool.at].exists,
         "PASS" \in {report, acceptance} /\ tool.prog = "sweep" =>
           pc \in {"plan", "check", "analyze"}
  PROVE  Inv'
<1>1. ToolTypeOK
  BY DEF Inv, TypeOK
<1>2. ToolInv'
  BY <1>1, GoTyped DEF Inv, ToolInv
<1>3. SentInv'
  BY <1>1, GoTyped DEF Inv, SentInv
<1>4. EarnedInv'
  BY <1>1, GoTyped DEF Inv, EarnedInv, verify_run, RunBundleOpens, Earned
<1> QED
  BY DiskFrame, GoTyped, <1>1, <1>2, <1>3, <1>4 DEF Inv, TypeOK, BoardTypeOK

(* A tool that ends, by itself or killed, lets go of the session. *)
LEMMA ToolEnds ==
  ASSUME Inv, NEW how \in Ended, End(how), UNCHANGED <<rec, disk, verdicts>>,
         \/ UNCHANGED board /\ tool.pc # "sending"
         \/ Detach
  PROVE  Inv'
<1>1. BoardTypeOK' /\ board'.phase = board.phase /\ board'.run = board.run
        /\ ~board'.attached
  BY DEF Inv, TypeOK, BoardTypeOK, Board, SentInv, Detach
<1>2. ToolInv'
  BY EndTyped DEF ToolInv, Childless, InDirectory, Ended
<1>3. SentInv'
  BY EndTyped, <1>1 DEF Inv, SentInv, Ended
<1>4. EarnedInv'
  BY EndTyped DEF Inv, EarnedInv, verify_run, RunBundleOpens, Earned
<1> QED
  BY DiskFrame, EndTyped, <1>1, <1>2, <1>3, <1>4 DEF Inv, TypeOK

(* A tool that starts, or a sweep that goes on to its next point. *)
LEMMA ToolBegins ==
  ASSUME Inv, NEW prog \in {"sweep", "accept", "soak"}, NEW place \in Nat,
         NEW pc \in ToolPc \ (InDirectory \cup Ended),
         Begin(prog, place, pc), UNCHANGED <<rec, disk, board, verdicts>>,
         tool.pc # "sending",
         prog = "sweep" => pc \in SweepAt /\ place \in 1 .. Points,
         prog = "accept" => pc \in AcceptAt /\ place = Recovery,
         prog = "soak" => pc \in SoakAt /\ place = Soak /\ ~disk[Soak].exists,
         "PASS" \in {report, acceptance} /\ prog = "sweep" =>
           pc \in {"plan", "check", "analyze"}
  PROVE  Inv'
<1>1. ToolInv'
  BY BeginTyped DEF ToolInv, Childless
<1>2. SentInv'
  BY BeginTyped DEF Inv, SentInv, InDirectory
<1>3. EarnedInv'
  BY BeginTyped DEF Inv, EarnedInv, verify_run, RunBundleOpens, Earned
<1> QED
  BY DiskFrame, BeginTyped, <1>1, <1>2, <1>3 DEF Inv, TypeOK, BoardTypeOK

USE DEF ToolPc, Ended, SweepAt, AcceptAt, SoakAt, OneRun, Childless, InDirectory

(* The launches. *)
LEMMA LaunchKeeps ==
  ASSUME Inv, run_sweep \/ run_acceptance \/ run_soak PROVE Inv'
<1>1. Idle /\ tool.pc # "sending" /\ UNCHANGED <<rec, disk, board, verdicts>>
  BY DEF Inv, ToolInv, Idle, run_sweep, run_acceptance, run_soak
<1>2. CASE run_sweep
  BY <1>1, <1>2, ToolBegins DEF run_sweep
<1>3. CASE run_acceptance
  BY <1>1, <1>3, ToolBegins DEF run_acceptance
<1>4. CASE run_soak
  BY <1>1, <1>4, ToolBegins DEF run_soak
<1> QED
  BY <1>2, <1>3, <1>4

(* The steps of a sweep: a point that verifies stays as it is. *)
LEMMA PlanKeeps == ASSUME Inv, prepare_plan PROVE Inv'
<1>1. tool.prog = "sweep" /\ tool.child = 0
  BY DEF Inv, TypeOK, ToolTypeOK, ToolState, ToolInv, prepare_plan
<1> QED
  BY <1>1, ToolMoves DEF prepare_plan

(* A sweep goes on to its next point or to the analysis.                   *)
LEMMA NextPointKeeps ==
  ASSUME Inv, NextPoint, tool.prog = "sweep", tool.pc \in {"check", "verify"},
         UNCHANGED <<rec, disk, board, verdicts>>
  PROVE  Inv'
<1>1. tool.at \in 1 .. Points /\ tool.child = 0
  BY DEF Inv, ToolInv
<1>2. CASE tool.at < Points
  <2>1. Begin("sweep", tool.at + 1, "check")
    BY <1>2 DEF NextPoint, Begin
  <2> QED
    BY <1>1, <1>2, <2>1, ToolBegins
<1>3. CASE ~(tool.at < Points)
  BY <1>1, <1>3, ToolMoves DEF NextPoint
<1> QED
  BY <1>2, <1>3

(* CheckPoint reuses, preserves or runs a point.                           *)
LEMMA CheckPointKeeps == ASSUME Inv, CheckPoint PROVE Inv'
<1>1. tool.prog = "sweep" /\ tool.child = 0 /\ tool.at \in 1 .. Points
  BY DEF Inv, TypeOK, ToolTypeOK, ToolState, ToolInv, CheckPoint
<1>2. "PASS" \in {report, acceptance} => verify_run(disk[tool.at], Config(tool.at))
                                          /\ disk[tool.at].exists
  BY <1>1 DEF Inv, EarnedInv, Config, verify_run, RunBundleOpens
<1>3. CASE NextPoint
  BY <1>1, <1>3, NextPointKeeps DEF CheckPoint
<1>4. CASE Go("start") /\ "PASS" \notin {report, acceptance}
  BY <1>1, <1>4, ToolMoves DEF CheckPoint
<1>5. CASE Go("preserve") /\ "PASS" \notin {report, acceptance}
  BY <1>1, <1>5, ToolMoves DEF CheckPoint
<1> QED
  BY <1>2, <1>3, <1>4, <1>5 DEF CheckPoint

(* What the tool waits for, and what it does next. *)
LEMMA WaitForPathKeeps == ASSUME Inv, wait_for_path PROVE Inv'
<1>1. tool.prog \in {"sweep", "accept", "soak"} /\ (tool.pc = "iwait" => tool.prog = "accept")
  BY DEF Inv, TypeOK, ToolTypeOK, ToolState, ToolInv, wait_for_path
<1>2. tool.prog = "sweep" => "PASS" \notin {report, acceptance}
  BY DEF Inv, EarnedInv, wait_for_path
<1>3. CASE disk[tool.at].exists /\ disk[tool.at].index
  BY <1>1, <1>2, <1>3, ToolMoves DEF wait_for_path, InExperiment
<1>4. CASE ~(disk[tool.at].exists /\ disk[tool.at].index)
  BY <1>1, <1>2, <1>4, ToolMoves, ToolEnds DEF wait_for_path, InExperiment
<1> QED
  BY <1>3, <1>4

(* Drain waits for the exit status of the recorder.                        *)
LEMMA DrainKeeps == ASSUME Inv, Drain PROVE Inv'
<1>1. tool.prog \in {"sweep", "accept", "soak"} /\ tool.child = 0
  BY DEF Inv, TypeOK, ToolTypeOK, ToolState, ToolInv, Drain
<1>2. tool.prog = "sweep" => "PASS" \notin {report, acceptance}
  BY DEF Inv, EarnedInv, Drain
<1> QED
  BY <1>1, <1>2, ToolMoves, ToolEnds DEF Drain, InExperiment

(* The tool judges the directory of the run it just made.                  *)
LEMMA VerifyRunKeeps == ASSUME Inv, VerifyRun PROVE Inv'
<1>1. tool.prog \in {"sweep", "accept"} /\ tool.child = 0
  BY DEF Inv, ToolInv, VerifyRun, InExperiment
<1>2. tool.prog = "sweep" => "PASS" \notin {report, acceptance}
  BY DEF Inv, EarnedInv, VerifyRun
<1> QED
  BY <1>1, <1>2, ToolMoves, NextPointKeeps DEF VerifyRun

(* The ways a tool gives up: the finally block, the soak, a kill.          *)
LEMMA StoppingKeeps == ASSUME Inv, Stopping \/ SoakGivesUp \/ ToolKilled PROVE Inv'
BY ToolEnds DEF Stopping, SoakGivesUp, ToolKilled

(* The verdicts: what the checks accept is what the verdict needs. *)
LEMMA EvaluateSoakKeeps == ASSUME Inv, EvaluateSoak PROVE Inv'
<1>1. tool.prog = "soak" /\ tool.pc = "verify"
  BY DEF EvaluateSoak
<1>2. CASE ~RunBundleOpens(disk[Soak])
  BY <1>1, <1>2, ToolEnds DEF EvaluateSoak
<1>3. CASE RunBundleOpens(disk[Soak])
  <2>1. End("ok") /\ UNCHANGED <<rec, disk, board, report, acceptance>>
    BY <1>3 DEF EvaluateSoak
  <2>2. soak' \in {"PASS", "PENDING"} => Earned(Soak, Default) /\ disk[Soak].whole
    <3>1. disk[Soak].sender # "none" => disk[Soak].sent.id > 0
      BY <1>3 DEF Inv, SentInv, RunBundleOpens
    <3>2. soak' \in {"PASS", "PENDING"} => clean_pass(disk[Soak])
      BY <1>3 DEF EvaluateSoak, evaluate_run
    <3> QED
      BY <1>3, <3>1, <3>2 DEF clean_pass, RunBundleOpens, Earned, NoRun
  <2>3. EarnedInv'
    BY <2>1, <2>2, EndTyped DEF Inv, EarnedInv, verify_run, RunBundleOpens, Earned
  <2>4. ToolInv' /\ SentInv'
    BY <1>1, <2>1, EndTyped DEF Inv, ToolInv, SentInv
  <2> QED
    BY <2>1, <2>3, <2>4, DiskFrame, EndTyped DEF Inv, TypeOK, BoardTypeOK
<1> QED
  BY <1>2, <1>3

(* A verdict of the sweep or the acceptance is written.                    *)
LEMMA AnalyzeKeeps == ASSUME Inv, analyze \/ finalize_acceptance PROVE Inv'
<1>1. tool.pc \in {"analyze", "finalize"} /\ UNCHANGED <<rec, disk, board, soak>>
  BY DEF analyze, finalize_acceptance
<1>2. CASE UNCHANGED verdicts
  BY <1>1, <1>2, ToolEnds DEF analyze, finalize_acceptance
<1>3. CASE ~UNCHANGED verdicts
  <2>1. End("ok") /\ ("PASS" \in {report, acceptance} \/ evaluate_sweep)
    BY <1>1, <1>3 DEF analyze, finalize_acceptance
  <2>2. \A p \in 1 .. Points : verify_run(disk[p], p)
    BY <2>1 DEF Inv, EarnedInv, evaluate_sweep, Config
  <2>3. EarnedInv'
    BY <1>1, <2>1, <2>2, EndTyped DEF Inv, EarnedInv, verify_run, RunBundleOpens, Earned
  <2>4. ToolInv' /\ SentInv'
    BY <1>1, <2>1, EndTyped DEF Inv, ToolInv, SentInv
  <2> QED
    BY <1>1, <2>1, <2>3, <2>4, DiskFrame, EndTyped DEF Inv, TypeOK, BoardTypeOK
<1> QED
  BY <1>2, <1>3

(* The board: a refused command leaves it alone, an accepted one starts a  *)
(* run with a number of its own.                                           *)
LEMMA TargetFaultsKeeps == ASSUME Inv, run_target_faults PROVE Inv'
<1>1. tool.prog = "accept" /\ tool.child = 0 /\ tool.at = Recovery
  BY DEF Inv, TypeOK, ToolTypeOK, ToolState, ToolInv, run_target_faults
<1>2. BoardTypeOK' /\ board'.phase = board.phase /\ board'.run = board.run
        /\ board'.attached = board.attached
  BY DEF Inv, TypeOK, BoardTypeOK, Board, run_target_faults
<1>3. /\ ToolTypeOK' /\ tool'.pc = "interrupt" /\ tool'.prog = tool.prog
      /\ tool'.at = tool.at /\ tool'.child = tool.child /\ tool'.status = tool.status
  BY <1>1 DEF Inv, TypeOK, ToolTypeOK, ToolState, run_target_faults
<1>4. ToolInv'
  BY <1>1, <1>3 DEF Inv, ToolInv, run_target_faults
<1>5. SentInv'
  BY <1>2, <1>3 DEF Inv, SentInv, run_target_faults
<1>6. EarnedInv'
  BY <1>1, <1>3 DEF Inv, EarnedInv, verify_run, RunBundleOpens, Earned, run_target_faults
<1> QED
  BY <1>2, <1>3, <1>4, <1>5, <1>6, DiskFrame DEF Inv, TypeOK, run_target_faults

(* The sender is started on the board.                                     *)
LEMMA RemoteWorkloadKeeps == ASSUME Inv, remote_workload PROVE Inv'
<1>1. tool.prog \in {"sweep", "accept", "soak"} /\ disk[tool.at].exists /\ tool.at \in Nat
  BY DEF Inv, TypeOK, ToolTypeOK, ToolState, ToolInv, remote_workload
<1>2. tool.prog = "sweep" => "PASS" \notin {report, acceptance}
  BY DEF Inv, EarnedInv, remote_workload
<1>3. CASE board.phase # "idle"
  BY <1>1, <1>2, <1>3, ToolMoves DEF remote_workload, InExperiment
<1>4. CASE board.phase = "idle"
  <2>1. Go("sending") /\ UNCHANGED <<rec, disk, verdicts>>
    BY <1>4 DEF remote_workload
  <2>2. BoardTypeOK' /\ board'.run.id > 0 /\ board'.phase = "first"
    <3>1. board.last \in Nat /\ board.config \in Nat /\ Config(tool.at) \in Nat
      BY <1>1 DEF Inv, TypeOK, BoardTypeOK, Board, Config
    <3> DEFINE config == IF InExperiment THEN Config(tool.at) ELSE board.config
               run == [id |-> board.last + 1, config |-> config]
    <3>2. board' = [phase |-> "first", run |-> run, config |-> config,
                    last |-> board.last + 1, attached |-> TRUE]
      BY <1>4 DEF remote_workload
    <3>3. config \in Nat /\ run \in Run /\ run.id > 0
      BY <3>1 DEF Run
    <3> HIDE DEF config, run
    <3> QED
      BY <3>1, <3>2, <3>3 DEF BoardTypeOK, Board
  <2>3. ToolTypeOK
    BY DEF Inv, TypeOK
  <2>4. ToolInv'
    BY <1>1, <2>1, <2>3, GoTyped DEF Inv, ToolInv, remote_workload
  <2>5. SentInv'
    BY <2>1, <2>2, <2>3, GoTyped DEF Inv, SentInv
  <2>6. EarnedInv'
    BY <1>2, <2>1, <2>3, GoTyped DEF Inv, EarnedInv, verify_run, RunBundleOpens, Earned
  <2> QED
    BY <2>1, <2>2, <2>3, <2>4, <2>5, <2>6, DiskFrame, GoTyped DEF Inv, TypeOK
<1> QED
  BY <1>3, <1>4

(* A timeout raises: the session is gone, the recorder is still there. *)
LEMMA RaisesKeeps == ASSUME Inv, Raises \/ SoakRaises PROVE Inv'
<1>1. CASE tool.pc = "wait" /\ tool.prog = "soak"
  BY <1>1, ToolEnds DEF Raises, SoakRaises, InExperiment
<1>2. CASE ~(tool.pc = "wait" /\ tool.prog = "soak")
  <2>1. /\ \E pc \in {"stop", "soakstop"} : Go(pc) /\ (pc = "soakstop" <=> tool.prog = "soak")
        /\ Detach /\ UNCHANGED <<rec, disk, verdicts>>
        /\ tool.prog \in {"sweep", "accept", "soak"}
    BY <1>2 DEF Raises, SoakRaises, InExperiment
  <2>2. tool.prog = "sweep" => "PASS" \notin {report, acceptance}
    BY DEF Inv, EarnedInv, Raises, SoakRaises
  <2>3. BoardTypeOK' /\ board'.phase = board.phase /\ board'.run = board.run
          /\ ~board'.attached
    BY <2>1 DEF Inv, TypeOK, BoardTypeOK, Board, Detach
  <2>4. ToolTypeOK
    BY DEF Inv, TypeOK
  <2>5. ToolInv'
    BY <2>1, <2>4, GoTyped DEF Inv, ToolInv
  <2>6. SentInv'
    BY <2>1, <2>3, <2>4, GoTyped DEF Inv, SentInv
  <2>7. EarnedInv'
    BY <2>1, <2>2, <2>4, GoTyped DEF Inv, EarnedInv, verify_run, RunBundleOpens, Earned
  <2> QED
    BY <2>1, <2>3, <2>4, <2>5, <2>6, <2>7, DiskFrame, GoTyped DEF Inv, TypeOK
<1> QED
  BY <1>1, <1>2

(* What the tool writes goes into a directory it has seen, which no        *)
(* verdict has judged: neither the manifest nor its owner changes.         *)
LEMMA ToolWrites ==
  ASSUME Inv, tool.pc \in {"copy", "report"}, NEW d \in Directory,
         disk' = [disk EXCEPT ![tool.at] = d],
         d.manifest = disk[tool.at].manifest, d.by = disk[tool.at].by,
         d.sender # "none" => d.sent.id > 0,
         NEW pc \in {"send", "drain", "stop", "soakstop"}, Go(pc),
         tool.prog = "soak" => pc # "stop",
         tool.prog # "soak" => pc # "soakstop",
         UNCHANGED <<rec, board, verdicts>>
  PROVE  Inv'
<1>1. tool.prog \in {"sweep", "accept", "soak"} /\ tool.at \in Places /\ disk[tool.at].exists
  BY DEF Inv, TypeOK, ToolTypeOK, ToolState, ToolInv
<1>2. /\ tool.prog = "sweep" => "PASS" \notin {report, acceptance}
      /\ tool.prog = "soak" => soak \notin {"PASS", "PENDING"}
      /\ tool.at \in 1 .. Points => tool.prog = "sweep"
      /\ tool.at = Soak => tool.prog = "soak"
  BY <1>1 DEF Inv, EarnedInv, ToolInv
<1>3. DiskTypeOK' /\ disk'[tool.at] = d /\ d.exists
        /\ \A p \in Places \ {tool.at} : disk'[p] = disk[p]
  BY <1>1 DEF Inv, TypeOK, DiskTypeOK, Directory
<1>4. ToolTypeOK
  BY DEF Inv, TypeOK
<1>5. (RecTypeOK /\ BoardTypeOK /\ PortInv /\ OwnerInv)'
  <2>1. (RecTypeOK /\ BoardTypeOK /\ PortInv)'
    BY DEF Inv, TypeOK, RecTypeOK, BoardTypeOK, PortInv, HoldsPort
  <2>2. \A p \in Places : /\ disk'[p].exists = disk[p].exists
                          /\ disk'[p].manifest = disk[p].manifest
    BY <1>1, <1>3 DEF Inv, TypeOK, DiskTypeOK, Directory, NoDir
  <2>3. OwnerInv'
    BY <2>2 DEF Inv, OwnerInv, PortInv, Made
  <2> QED
    BY <2>1, <2>3
<1>6. ManifestBelongs'
  BY <1>1, <1>3 DEF Inv, ManifestBelongs
<1>7. ToolInv'
  BY <1>1, <1>3, <1>4, GoTyped DEF Inv, ToolInv
<1>8. SentInv'
  BY <1>3, <1>4, GoTyped DEF Inv, SentInv
<1>9. EarnedInv'
  BY <1>1, <1>2, <1>3, <1>4, GoTyped DEF Inv, EarnedInv, verify_run, RunBundleOpens, Earned
<1> QED
  BY <1>3, <1>4, <1>5, <1>6, <1>7, <1>8, <1>9, GoTyped DEF Inv, TypeOK

(* The profile is copied into the run directory.                           *)
LEMMA CopyProfileKeeps == ASSUME Inv, CopyProfile PROVE Inv'
<1>1. tool.at \in Places /\ disk[tool.at] \in Directory /\ Config(tool.at) \in Nat
        /\ tool.prog # "soak"
  BY DEF Inv, TypeOK, ToolTypeOK, DiskTypeOK, ToolInv, ToolState, CopyProfile, Config, NoDir
<1> DEFINE d == [disk[tool.at] EXCEPT !.profile = Config(tool.at)]
<1>2. /\ d \in Directory /\ d.manifest = disk[tool.at].manifest /\ d.by = disk[tool.at].by
      /\ d.sender = disk[tool.at].sender /\ d.sent = disk[tool.at].sent
  BY <1>1 DEF Directory
<1>3. disk' = [disk EXCEPT ![tool.at] = d]
  BY DEF CopyProfile
<1>4. disk[tool.at].exists
  BY <1>1 DEF Directory
<1>5. d.sender # "none" => d.sent.id > 0
  BY <1>1, <1>2, <1>4 DEF Inv, SentInv
<1> HIDE DEF d
<1> QED
  BY <1>1, <1>2, <1>3, <1>5, ToolWrites DEF CopyProfile

(* sender.json goes into the run directory that still exists.              *)
LEMMA WriteReportKeeps == ASSUME Inv, WriteReport PROVE Inv'
<1>1. tool.at \in Places /\ disk[tool.at] \in Directory
        /\ tool.prog \in {"sweep", "accept", "soak"}
        /\ tool.sender \in Verdict /\ tool.sent \in Run /\ tool.sent.id > 0
  BY DEF Inv, TypeOK, ToolTypeOK, DiskTypeOK, ToolInv, ToolState, WriteReport, SentInv, NoDir
<1>2. \E pc \in {"drain", "stop", "soakstop"} : 
        Go(pc) /\ (tool.prog = "soak" => pc # "stop") /\ (tool.prog # "soak" => pc # "soakstop")
  BY <1>1 DEF WriteReport, InExperiment
<1>3. CASE disk' = disk
  <2>1. tool.prog = "sweep" => "PASS" \notin {report, acceptance}
    BY DEF Inv, EarnedInv, WriteReport
  <2> QED
    BY <1>1, <1>2, <1>3, <2>1, ToolMoves DEF WriteReport
<1>4. CASE disk' # disk
  <2> DEFINE d == [disk[tool.at] EXCEPT !.sender = tool.sender, !.sent = tool.sent]
  <2>1. /\ d \in Directory /\ d.manifest = disk[tool.at].manifest /\ d.by = disk[tool.at].by
        /\ d.sent = tool.sent
    BY <1>1 DEF Directory
  <2>2. disk' = [disk EXCEPT ![tool.at] = d]
    BY <1>1, <1>4 DEF WriteReport, Inv, TypeOK, DiskTypeOK, Directory
  <2> HIDE DEF d
  <2> QED
    BY <1>1, <1>2, <2>1, <2>2, ToolWrites DEF WriteReport
<1> QED
  BY <1>3, <1>4

(* What putting a directory aside does to the recorders: only "holds"      *)
(* changes, and only for those that made it.                               *)
LEMMA PreserveEffect ==
  ASSUME Inv, NEW place \in Places, _preserve_interrupted(place)
  PROVE  /\ RecTypeOK' /\ DiskTypeOK' /\ disk'[place] = NoDir
         /\ \A p \in Places \ {place} : disk'[p] = disk[p]
         /\ (PortInv /\ OwnerInv /\ ManifestBelongs)'
<1>1. \A s \in Slots : /\ rec'[s].state = rec[s].state /\ rec'[s].place = rec[s].place
                       /\ rec'[s] \in Recorder
                       /\ rec'[s].holds = IF rec[s].place = place THEN FALSE
                                          ELSE rec[s].holds
  BY DEF Inv, TypeOK, RecTypeOK, Recorder, _preserve_interrupted
<1>2. RecTypeOK'
  BY <1>1 DEF RecTypeOK, _preserve_interrupted
<1>3. DiskTypeOK' /\ disk'[place] = NoDir /\ \A p \in Places \ {place} : disk'[p] = disk[p]
  BY DEF Inv, TypeOK, DiskTypeOK, _preserve_interrupted
<1>4. PortInv'
  BY <1>1 DEF Inv, PortInv, HoldsPort
<1>5. OwnerInv'
  <2> SUFFICES ASSUME NEW s \in Slots, rec'[s].state \in Made
               PROVE  /\ rec'[s].holds = disk'[rec'[s].place].exists
                      /\ rec'[s].holds /\ rec'[s].state # "written" =>
                           disk'[rec'[s].place].manifest = "none"
    BY DEF OwnerInv
  <2>1. CASE rec[s].place = place
    <3>1. rec'[s].holds = FALSE /\ rec'[s].place = place
      BY <1>1, <2>1
    <3>2. disk'[place].exists = FALSE
      BY <1>3 DEF NoDir
    <3> QED
      BY <3>1, <3>2
  <2>2. CASE rec[s].place # place
    <3>1. rec[s].place \in Places
      BY <1>1 DEF Inv, PortInv, Made
    <3>2. rec'[s].holds = rec[s].holds /\ disk'[rec[s].place] = disk[rec[s].place]
      BY <1>1, <1>3, <2>2, <3>1
    <3> QED
      BY <1>1, <3>2 DEF Inv, OwnerInv
  <2> QED
    BY <2>1, <2>2
<1>6. ManifestBelongs'
  BY <1>3 DEF Inv, ManifestBelongs, NoDir
<1> QED
  BY <1>2, <1>3, <1>4, <1>5, <1>6

(* Only a tool that may have judged nothing there puts a directory aside. *)
LEMMA PreserveKeeps ==
  ASSUME Inv, PreservePoint \/ interrupt_recorder \/ InterruptPreserve PROVE Inv'
<1>1. /\ tool.prog \in {"sweep", "accept"}
      /\ tool.pc # "preserve" => tool.prog = "accept"
      /\ tool.child = 0 /\ UNCHANGED <<board, verdicts>>
  <2>1. tool.pc \in {"preserve", "interrupt", "istopping"} /\ tool.status # "alive"
          /\ UNCHANGED <<board, verdicts>>
    BY DEF Inv, ToolInv, PreservePoint, interrupt_recorder, InterruptPreserve
  <2> QED
    BY <2>1 DEF Inv, TypeOK, ToolTypeOK, ToolState, ToolInv
<1>2. /\ tool.prog = "sweep" => tool.at \in 1 .. Points /\ "PASS" \notin {report, acceptance}
      /\ tool.prog = "accept" => tool.at = Recovery
  <2>1. tool.pc \in {"preserve", "interrupt", "istopping"}
    BY DEF PreservePoint, interrupt_recorder, InterruptPreserve
  <2> QED
    BY <2>1 DEF Inv, ToolInv, EarnedInv
<1>3. CASE interrupt_recorder /\ UNCHANGED <<rec, disk>>
  BY <1>1, <1>2, <1>3, ToolMoves DEF interrupt_recorder
<1>4. CASE _preserve_interrupted(tool.at)
  <2>1. /\ ToolTypeOK' /\ tool'.pc \in {"start", "istart"} /\ tool'.prog = tool.prog
        /\ tool'.at = tool.at /\ tool'.child = 0 /\ tool'.status # "alive"
        /\ tool'.pc = "istart" => tool.prog = "accept"
    <3>1. ToolTypeOK /\ tool.status # "alive"
      BY <1>1 DEF Inv, TypeOK, ToolInv
    <3>2. CASE PreservePoint \/ interrupt_recorder
      BY <1>1, <3>1, <3>2, GoTyped DEF PreservePoint, interrupt_recorder
    <3>3. CASE InterruptPreserve
      BY <1>1, <3>1, <3>3 DEF ToolTypeOK, ToolState, InterruptPreserve
    <3> QED
      BY <3>2, <3>3
  <2>2. ToolInv'
    BY <1>1, <1>2, <2>1 DEF ToolInv
  <2>3. SentInv'
    BY <1>1, <1>2, <1>4, <2>1, PreserveEffect DEF Inv, SentInv, NoDir, PreservePoint,
       interrupt_recorder, InterruptPreserve
  <2>4. EarnedInv'
    BY <1>1, <1>2, <1>4, <2>1, PreserveEffect DEF Inv, EarnedInv, verify_run, RunBundleOpens,
       Earned
  <2> QED
    BY <1>1, <1>2, <1>4, <2>1, <2>2, <2>3, <2>4, PreserveEffect
       DEF Inv, TypeOK, BoardTypeOK
<1> QED
  BY <1>3, <1>4 DEF PreservePoint, interrupt_recorder, InterruptPreserve

(* A recorder that starts has neither the socket nor a directory. *)
LEMMA StartRecorderKeeps == ASSUME Inv, StartRecorder PROVE Inv'
<1>1. tool.prog \in {"sweep", "accept", "soak"} /\ tool.at \in Places /\ tool.child = 0
        /\ (tool.pc = "istart" => tool.prog = "accept")
  BY DEF Inv, TypeOK, ToolTypeOK, ToolState, ToolInv, StartRecorder
<1>2. tool.prog = "sweep" => "PASS" \notin {report, acceptance}
  BY DEF Inv, EarnedInv, StartRecorder
<1>3. CASE tool.pc = "start" /\ disk[tool.at].exists
  BY <1>3, ToolEnds DEF StartRecorder
<1>4. CASE ~(tool.pc = "start" /\ disk[tool.at].exists)
  <2>1. PICK s \in Slots :
          /\ rec[s] = NoRecorder
          /\ rec' = [rec EXCEPT ![s].state = "started", ![s].place = tool.at]
          /\ tool' = [tool EXCEPT !.child = s, !.status = "alive",
                                  !.pc = IF tool.pc = "start" THEN "wait" ELSE "iwait"]
    <3> DEFINE S == {t \in Slots : rec[t] = NoRecorder}
    <3>1. \E x \in S : \A y \in S : x =< y
      BY DEF StartRecorder
    <3>2. Min(S) \in S
      BY <3>1 DEF Min
    <3> QED
      BY <1>4, <3>2 DEF StartRecorder
  <2>2. /\ RecTypeOK' /\ \A t \in Slots \ {s} : rec'[t] = rec[t]
        /\ rec'[s].state = "started" /\ rec'[s].place = tool.at
    BY <1>1, <2>1 DEF Inv, TypeOK, RecTypeOK, Recorder
  <2>3. /\ ToolTypeOK' /\ tool'.pc \in {"wait", "iwait"} /\ tool'.prog = tool.prog
        /\ tool'.at = tool.at /\ tool'.child = s /\ tool'.status = "alive"
        /\ tool'.pc = "iwait" => tool.prog = "accept"
    BY <1>1, <2>1 DEF Inv, TypeOK, ToolTypeOK, ToolState, StartRecorder
  <2>4. (PortInv /\ OwnerInv)'
    BY <1>1, <2>2 DEF Inv, PortInv, OwnerInv, HoldsPort, Made, StartRecorder
  <2>5. (DiskTypeOK /\ BoardTypeOK /\ ManifestBelongs)'
    BY DEF Inv, TypeOK, DiskTypeOK, BoardTypeOK, ManifestBelongs, StartRecorder
  <2>6. ToolInv'
    BY <1>1, <2>3 DEF Inv, ToolInv
  <2>7. SentInv'
    BY <2>3 DEF Inv, SentInv, StartRecorder
  <2>8. EarnedInv'
    BY <1>2, <2>3 DEF Inv, EarnedInv, verify_run, RunBundleOpens, Earned, StartRecorder
  <2> QED
    BY <2>2, <2>3, <2>4, <2>5, <2>6, <2>7, <2>8 DEF Inv, TypeOK
<1> QED
  BY <1>3, <1>4

(* A recorder that is gone leaves the port and its directory. *)
LEMMA NoRecorderTyped == NoRecorder \in Recorder /\ NoRecorder.state = "none"
BY DEF NoRecorder, Recorder, NoRun, Run

(* A recorder that is gone holds neither the port nor a directory.         *)
LEMMA RecorderGone ==
  ASSUME Inv, NEW s \in Slots, rec' = [rec EXCEPT ![s] = NoRecorder], UNCHANGED disk
  PROVE  (RecTypeOK /\ PortInv /\ OwnerInv)'
<1>1. RecTypeOK' /\ rec'[s].state = "none" /\ \A t \in Slots \ {s} : rec'[t] = rec[t]
  BY NoRecorderTyped DEF Inv, TypeOK, RecTypeOK
<1>2. PortInv'
  BY <1>1 DEF Inv, PortInv, HoldsPort
<1>3. OwnerInv'
  BY <1>1 DEF Inv, OwnerInv, Made
<1> QED
  BY <1>1, <1>2, <1>3

(* What the tool sees of a recorder that ends: only child and status. *)
LEMMA ToolFrame ==
  ASSUME Inv, ToolTypeOK', tool'.pc = tool.pc, tool'.prog = tool.prog, tool'.at = tool.at,
         tool'.sent = tool.sent, tool'.status = "alive" <=> tool'.child # 0,
         tool'.child \in {tool.child, 0}, UNCHANGED <<disk, board, verdicts>>
  PROVE  (DiskTypeOK /\ BoardTypeOK /\ ManifestBelongs /\ ToolInv /\ SentInv /\ EarnedInv)'
<1>1. (DiskTypeOK /\ BoardTypeOK /\ ManifestBelongs)'
  BY DEF Inv, TypeOK, DiskTypeOK, BoardTypeOK, ManifestBelongs
<1>2. ToolInv'
  BY DEF Inv, ToolInv
<1>3. SentInv'
  BY DEF Inv, SentInv
<1>4. EarnedInv'
  BY DEF Inv, EarnedInv, verify_run, RunBundleOpens, Earned
<1> QED
  BY <1>1, <1>2, <1>3, <1>4

(* A recorder exits, noticed by its tool or left over.                     *)
LEMMA ExitKeeps ==
  ASSUME Inv, NEW s \in Slots, NEW status \in {"ok", "failed"}, Exit(s, status),
         UNCHANGED <<disk, board, verdicts>>
  PROVE  Inv'
<1>1. /\ ToolTypeOK' /\ tool'.pc = tool.pc /\ tool'.prog = tool.prog /\ tool'.at = tool.at
      /\ tool'.sent = tool.sent /\ tool'.child \in {tool.child, 0}
      /\ tool'.status = "alive" <=> tool'.child # 0
  BY DEF Inv, TypeOK, ToolTypeOK, ToolState, ToolInv, Exit
<1> QED
  BY <1>1, RecorderGone, ToolFrame DEF Inv, TypeOK, Exit

(* A recorder that changes, and keeps its directory and its place. *)
LEMMA RecorderMoves ==
  ASSUME Inv, NEW s \in Slots, RecTypeOK', \A t \in Slots \ {s} : rec'[t] = rec[t],
         rec'[s].place = rec[s].place, rec'[s].holds = rec[s].holds,
         rec'[s].state # "none" => rec[s].state # "none",
         rec'[s].state \in Made =>
           rec[s].state \in Made /\ (rec'[s].state # "written" => rec[s].state # "written"),
         rec'[s].state = "bound" => rec[s].state = "bound"
                                    \/ \A t \in Slots \ {s} : ~HoldsPort(t),
         UNCHANGED <<disk, board, tool, verdicts>>
  PROVE  Inv'
<1>1. PortInv'
  BY DEF Inv, PortInv, HoldsPort, Made
<1>2. OwnerInv'
  BY DEF Inv, OwnerInv, Made
<1>3. ToolTypeOK'
  BY DEF Inv, TypeOK, ToolTypeOK
<1>4. (DiskTypeOK /\ BoardTypeOK /\ ManifestBelongs /\ ToolInv /\ SentInv /\ EarnedInv)'
  BY <1>3, ToolFrame DEF Inv, ToolInv
<1> QED
  BY <1>1, <1>2, <1>3, <1>4 DEF Inv, TypeOK

(* A recorder writes, and makes, only what nobody has judged: its own      *)
(* directory has no manifest yet.                                          *)
LEMMA RecorderWrites ==
  ASSUME Inv, NEW s \in Slots, HoldsPort(s), NEW d \in Directory,
         LET old == disk[rec[s].place]
         IN  old.exists => old.manifest = "none",
         disk' = [disk EXCEPT ![rec[s].place] = d],
         d.by # "another", d.sender # "none" => d.sent.id > 0,
         RecTypeOK', \A t \in Slots \ {s} : rec'[t] = rec[t],
         rec'[s].place = rec[s].place, rec'[s].holds = TRUE, rec'[s].state \in Made,
         rec'[s].state # "written" => d.manifest = "none",
         UNCHANGED <<board, tool, verdicts>>
  PROVE  Inv'
<1>1. rec[s].place \in Places
  BY DEF Inv, PortInv, HoldsPort
<1>2. DiskTypeOK' /\ disk'[rec[s].place] = d /\ d.exists = TRUE
        /\ \A p \in Places \ {rec[s].place} : disk'[p] = disk[p]
  BY <1>1 DEF Inv, TypeOK, DiskTypeOK, Directory
<1>3. PortInv'
  BY <1>1 DEF Inv, PortInv, HoldsPort, Made
<1>4. OwnerInv'
  <2> SUFFICES ASSUME NEW t \in Slots, rec'[t].state \in Made
               PROVE  /\ rec'[t].holds = disk'[rec'[t].place].exists
                      /\ rec'[t].holds /\ rec'[t].state # "written" =>
                           disk'[rec'[t].place].manifest = "none"
    BY DEF OwnerInv
  <2>1. CASE t = s
    BY <1>2, <2>1
  <2>2. CASE t # s
    BY <1>2, <2>2 DEF Inv, PortInv, HoldsPort, Made
  <2> QED
    BY <2>1, <2>2
<1>5. ManifestBelongs'
  BY <1>2 DEF Inv, ManifestBelongs
<1>6. ToolInv'
  BY <1>2 DEF Inv, ToolInv
<1>7. SentInv'
  BY <1>2 DEF Inv, SentInv
<1>8. EarnedInv'
  <2>1. \A p \in Places : disk[p].exists /\ disk[p].manifest = "complete" => disk'[p] = disk[p]
    BY <1>2
  <2> QED
    BY <2>1 DEF Inv, EarnedInv, verify_run, RunBundleOpens, Earned
<1> QED
  BY <1>2, <1>3, <1>4, <1>5, <1>6, <1>7, <1>8 DEF Inv, TypeOK, ToolTypeOK, BoardTypeOK

(* The steps of a recorder. *)
LEMMA SocketKeeps ==
  ASSUME Inv, NEW s \in Slots, create_socket(s) \/ receive_run(s) \/ StartTimeout(s)
  PROVE  Inv'
<1>1. UNCHANGED <<disk, board, verdicts>>
  BY DEF create_socket, receive_run, StartTimeout
<1>2. CASE Exit(s, "failed")
  BY <1>1, <1>2, ExitKeeps
<1>3. ASSUME NEW from \in {"started", "listening"}, NEW to \in {"bound", "closing"},
             RecStep(s, from, to), UNCHANGED tool,
             from = "started" <=> to = "bound",
             to = "bound" => \A t \in Slots \ {s} : ~HoldsPort(t)
      PROVE  Inv'
  <2>1. /\ RecTypeOK' /\ rec'[s].place = rec[s].place /\ rec'[s].holds = rec[s].holds
        /\ rec'[s].state = to /\ \A t \in Slots \ {s} : rec'[t] = rec[t]
    BY <1>3 DEF Inv, TypeOK, RecTypeOK, Recorder, RecStep
  <2> QED
    BY <1>1, <1>3, <2>1, RecorderMoves DEF RecStep, Made
<1> QED
  BY <1>2, <1>3 DEF create_socket, receive_run, StartTimeout

(* A fresh run directory holds no manifest and no sender report.           *)
LEMMA EmptyDirTyped ==
  EmptyDir \in Directory /\ EmptyDir.manifest = "none" /\ EmptyDir.by = "nobody"
    /\ EmptyDir.sender = "none"
BY DEF EmptyDir, Directory, NoRun, Run, Verdict

(* mkdir: the recorder owns the directory it made.                         *)
LEMMA MakeDirectoryKeeps ==
  ASSUME Inv, NEW s \in Slots, MakeDirectory(s) PROVE Inv'
<1>1. CASE disk[rec[s].place].exists
  BY <1>1, ExitKeeps DEF MakeDirectory
<1>2. CASE ~disk[rec[s].place].exists
  <2>1. /\ RecTypeOK' /\ rec'[s].place = rec[s].place /\ rec'[s].holds = TRUE
        /\ rec'[s].state = "made" /\ \A t \in Slots \ {s} : rec'[t] = rec[t]
    BY <1>2 DEF Inv, TypeOK, RecTypeOK, Recorder, MakeDirectory
  <2> QED
    BY <1>2, <2>1, RecorderWrites, EmptyDirTyped DEF MakeDirectory, HoldsPort, Made
<1> QED
  BY <1>1, <1>2

(* The directory of a recorder that holds one. *)
LEMMA OwnDirectory ==
  ASSUME Inv, NEW s \in Slots, rec[s].state \in {"made", "listening", "closing"},
         disk[rec[s].place].exists
  PROVE  LET old == disk[rec[s].place]
         IN  /\ rec[s].place \in Places /\ old \in Directory /\ rec[s].holds = TRUE
             /\ old.manifest = "none" /\ old.by # "another"
             /\ old.sender # "none" => old.sent.id > 0
<1>1. rec[s].place \in Places
  BY DEF Inv, PortInv
<1>2. disk[rec[s].place] \in Directory
  BY <1>1 DEF Inv, TypeOK, DiskTypeOK, NoDir
<1>3. rec[s].holds = TRUE
  BY <1>1, <1>2 DEF Inv, OwnerInv, Made, Directory
<1>4. disk[rec[s].place].manifest = "none"
  BY <1>3 DEF Inv, OwnerInv, Made
<1> QED
  BY <1>1, <1>2, <1>3, <1>4 DEF Inv, ManifestBelongs, SentInv

(* The recorder opens its files in the directory at its path.              *)
LEMMA OpenFilesKeeps ==
  ASSUME Inv, NEW s \in Slots, OpenFiles(s) PROVE Inv'
<1>1. CASE ~rec[s].holds
  BY <1>1, ExitKeeps DEF OpenFiles
<1>2. CASE rec[s].holds
  <2> DEFINE old == disk[rec[s].place]
             d == [old EXCEPT !.index = TRUE]
  <2>1. rec[s].state = "made" /\ disk[rec[s].place].exists
    BY <1>2 DEF OpenFiles, Inv, OwnerInv, Made
  <2>2. /\ rec[s].place \in Places /\ old \in Directory /\ rec[s].holds = TRUE
        /\ old.manifest = "none" /\ old.by # "another"
        /\ old.sender # "none" => old.sent.id > 0
    BY <2>1, OwnDirectory
  <2>3. disk' = [disk EXCEPT ![rec[s].place] = d]
    BY <1>2 DEF OpenFiles
  <2>4. /\ d \in Directory /\ d.manifest = old.manifest /\ d.by = old.by
        /\ d.sender = old.sender /\ d.sent = old.sent
    BY <2>2 DEF Directory
  <2>5. /\ RecTypeOK' /\ rec'[s].place = rec[s].place /\ rec'[s].holds = TRUE
        /\ rec'[s].state = "listening" /\ \A t \in Slots \ {s} : rec'[t] = rec[t]
    BY <1>2, <2>2 DEF Inv, TypeOK, RecTypeOK, Recorder, OpenFiles, RecStep
  <2> HIDE DEF d
  <2> QED
    BY <1>2, <2>1, <2>2, <2>3, <2>4, <2>5, RecorderWrites DEF OpenFiles, HoldsPort, Made
<1> QED
  BY <1>1, <1>2

(* The first packet of a run selects it.                                   *)
LEMMA SelectKeeps ==
  ASSUME Inv, NEW s \in Slots, Select(s) PROVE Inv'
<1>1. /\ RecTypeOK' /\ rec'[s].place = rec[s].place /\ rec'[s].holds = rec[s].holds
      /\ rec'[s].state = "listening" /\ \A t \in Slots \ {s} : rec'[t] = rec[t]
      /\ board.run \in Run
  <2>1. board.run \in Run /\ board.phase \in {"idle", "first", "rest"}
    BY DEF Inv, TypeOK, BoardTypeOK, Board
  <2> QED
    BY <2>1 DEF Inv, TypeOK, RecTypeOK, Recorder, Select
<1>2. CASE ~rec[s].holds
  BY <1>1, <1>2, RecorderMoves DEF Select, Made
<1>3. CASE rec[s].holds
  <2> DEFINE old == disk[rec[s].place]
             d == [old EXCEPT !.run = board.run, !.whole = board.phase = "first"]
  <2>1. rec[s].state = "listening" /\ disk[rec[s].place].exists
    BY <1>3 DEF Select, Inv, OwnerInv, Made
  <2>2. /\ rec[s].place \in Places /\ old \in Directory /\ rec[s].holds = TRUE
        /\ old.manifest = "none" /\ old.by # "another"
        /\ old.sender # "none" => old.sent.id > 0
    BY <2>1, OwnDirectory
  <2>3. disk' = [disk EXCEPT ![rec[s].place] = d]
    BY <1>3, <2>2 DEF Select, Inv, TypeOK, DiskTypeOK, Directory
  <2>4. /\ d \in Directory /\ d.manifest = old.manifest /\ d.by = old.by
        /\ d.sender = old.sender /\ d.sent = old.sent
    BY <1>1, <2>2 DEF Directory
  <2>5. /\ HoldsPort(s) /\ rec'[s].holds = TRUE /\ rec'[s].state \in Made
        /\ UNCHANGED <<board, tool, verdicts>>
    BY <1>1, <2>1, <2>2 DEF Select, HoldsPort, Made
  <2> HIDE DEF d
  <2> QED
    BY <1>1, <2>2, <2>3, <2>4, <2>5, RecorderWrites
<1> QED
  BY <1>2, <1>3

(* write_manifest writes by path; the path leads to its own directory. *)
LEMMA WriteManifestKeeps ==
  ASSUME Inv, NEW s \in Slots, write_manifest(s) PROVE Inv'
<1>1. CASE ~disk[rec[s].place].exists
  BY <1>1, ExitKeeps DEF write_manifest
<1>2. CASE disk[rec[s].place].exists
  <2> DEFINE old == disk[rec[s].place]
             d == [old EXCEPT !.manifest = IF Clean(s) THEN "complete" ELSE "incomplete",
                              !.by = IF rec[s].holds THEN "owner" ELSE "another",
                              !.of = rec[s].run]
  <2>1. /\ rec[s].place \in Places /\ old \in Directory /\ rec[s].holds = TRUE
        /\ old.manifest = "none" /\ old.by # "another"
        /\ old.sender # "none" => old.sent.id > 0
    BY <1>2, OwnDirectory DEF write_manifest
  <2>2. disk' = [disk EXCEPT ![rec[s].place] = d]
    BY <1>2, <2>1 DEF write_manifest, Inv, TypeOK, DiskTypeOK, Directory
  <2>3. rec[s].run \in Run
    BY DEF Inv, TypeOK, RecTypeOK, Recorder
  <2>4. d \in Directory /\ d.by = "owner" /\ d.sender = old.sender /\ d.sent = old.sent
    BY <2>1, <2>3 DEF Directory, Verdict
  <2>5. /\ RecTypeOK' /\ rec'[s].place = rec[s].place /\ rec'[s].holds = TRUE
        /\ rec'[s].state = "written" /\ \A t \in Slots \ {s} : rec'[t] = rec[t]
    BY <1>2, <2>1 DEF Inv, TypeOK, RecTypeOK, Recorder, write_manifest, RecStep
  <2> HIDE DEF d
  <2> QED
    BY <1>2, <2>1, <2>2, <2>4, <2>5, RecorderWrites DEF write_manifest, HoldsPort, Made
<1> QED
  BY <1>1, <1>2

(* close_run comes after the manifest: the port is free again.             *)
LEMMA CloseRunKeeps ==
  ASSUME Inv, NEW s \in Slots, close_run(s) PROVE Inv'
BY ExitKeeps DEF close_run

(* A loss is only noted by the recorder that listens.                      *)
LEMMA PacketsLostKeeps ==
  ASSUME Inv, NEW s \in Slots, PacketsLost(s) PROVE Inv'
<1>1. /\ RecTypeOK' /\ rec'[s].place = rec[s].place /\ rec'[s].holds = rec[s].holds
      /\ rec'[s].state = rec[s].state /\ \A t \in Slots \ {s} : rec'[t] = rec[t]
  BY DEF Inv, TypeOK, RecTypeOK, Recorder, PacketsLost
<1> QED
  BY <1>1, RecorderMoves DEF PacketsLost

(* What recorders hear and what signals reach them moves no directory. *)
LEMMA RecorderFrame ==
  ASSUME Inv, UNCHANGED disk,
         \A s \in Slots : rec'[s].state = rec[s].state /\ rec'[s].place = rec[s].place
                          /\ rec'[s].holds = rec[s].holds
  PROVE  (PortInv /\ OwnerInv)'
<1>1. PortInv'
  BY DEF Inv, PortInv, HoldsPort
<1>2. OwnerInv'
  BY DEF Inv, OwnerInv
<1> QED
  BY <1>1, <1>2

(* The sender: its answer reaches only the tool that waits for it. *)
LEMMA AnswerKeeps ==
  ASSUME Inv, NEW outcome \in {"complete", "incomplete"}, Answer(outcome),
         board.phase # "idle", UNCHANGED <<disk, verdicts>>
  PROVE  (ToolTypeOK /\ BoardTypeOK /\ ToolInv /\ SentInv /\ EarnedInv)'
<1>1. board \in Board /\ board.run \in Run /\ board.run.id > 0
  BY DEF Inv, TypeOK, BoardTypeOK, Board, SentInv
<1>2. BoardTypeOK' /\ board'.phase = "idle" /\ board'.attached = FALSE
  <2>1. NoRun \in Run
    BY DEF NoRun, Run
  <2> QED
    BY <1>1, <2>1 DEF BoardTypeOK, Board, Answer
<1>3. CASE ~board.attached
  BY <1>2, <1>3 DEF Inv, TypeOK, ToolTypeOK, ToolInv, SentInv, EarnedInv, verify_run,
                    RunBundleOpens, Earned, Answer
<1>4. CASE board.attached
  <2>1. tool.pc = "sending"
    BY <1>4 DEF Inv, SentInv
  <2>2. /\ ToolTypeOK' /\ tool'.pc = "report" /\ tool'.prog = tool.prog /\ tool'.at = tool.at
        /\ tool'.sent = board.run /\ tool'.child = tool.child /\ tool'.status = tool.status
    BY <1>1, <1>4 DEF Inv, TypeOK, ToolTypeOK, ToolState, Verdict, Answer
  <2>3. ToolInv'
    BY <2>1, <2>2 DEF Inv, ToolInv
  <2>4. SentInv'
    BY <1>1, <1>2, <2>2 DEF Inv, SentInv
  <2>5. EarnedInv'
    BY <2>1, <2>2 DEF Inv, EarnedInv, verify_run, RunBundleOpens, Earned
  <2> QED
    BY <1>2, <2>2, <2>3, <2>4, <2>5
<1> QED
  BY <1>3, <1>4

(* The sender transmits; what a recorder takes is of the run sent.         *)
LEMMA SenderKeeps ==
  ASSUME Inv, SenderAdvances \/ SenderEnds \/ SenderFails PROVE Inv'
<1>1. CASE SenderAdvances
  <2>1. BoardTypeOK' /\ board'.phase = "rest" /\ board'.run = board.run
          /\ board'.attached = board.attached
    BY <1>1 DEF Inv, TypeOK, BoardTypeOK, Board, SenderAdvances
  <2>2. (ToolInv /\ EarnedInv /\ ToolTypeOK)'
    BY <1>1 DEF Inv, TypeOK, ToolTypeOK, ToolInv, EarnedInv, verify_run, RunBundleOpens,
                Earned, SenderAdvances
  <2>3. SentInv'
    BY <1>1, <2>1 DEF Inv, SentInv, SenderAdvances
  <2> QED
    BY <1>1, <2>1, <2>2, <2>3, DiskFrame DEF Inv, TypeOK, SenderAdvances
<1>2. CASE SenderFails
  BY <1>2, AnswerKeeps, DiskFrame DEF Inv, TypeOK, SenderFails
<1>3. CASE SenderEnds
  <2>1. /\ RecTypeOK'
        /\ \A s \in Slots : rec'[s].state = rec[s].state /\ rec'[s].place = rec[s].place
                            /\ rec'[s].holds = rec[s].holds
    BY <1>3 DEF Inv, TypeOK, RecTypeOK, Recorder, SenderEnds
  <2>2. (DiskTypeOK /\ ManifestBelongs)'
    BY <1>3 DEF Inv, TypeOK, DiskTypeOK, ManifestBelongs, SenderEnds
  <2> QED
    BY <1>3, <2>1, <2>2, AnswerKeeps, RecorderFrame DEF Inv, TypeOK, SenderEnds
<1> QED
  BY <1>1, <1>2, <1>3

(* A tool that stops its recorder: one that does not listen yet is gone. *)
LEMMA TerminateKeeps ==
  ASSUME Inv, NEW next \in {"stopping", "istopping"}, Terminate(next), tool.status = "alive",
         tool.pc \in {"stop", "soakstop", "istop"},
         tool.pc = "istop" <=> next = "istopping",
         UNCHANGED <<disk, board, verdicts>>
  PROVE  Inv'
<1>1. tool.child \in Slots /\ tool.prog \in {"sweep", "accept", "soak"}
        /\ (tool.pc = "istop" => tool.prog = "accept")
  BY DEF Inv, TypeOK, ToolTypeOK, ToolState, ToolInv
<1>2. tool.prog = "sweep" => "PASS" \notin {report, acceptance}
  BY DEF Inv, EarnedInv
<1>3. /\ ToolTypeOK' /\ tool'.pc = next /\ tool'.prog = tool.prog /\ tool'.at = tool.at
      /\ tool'.sent = tool.sent
      /\ \/ tool'.child = 0 /\ tool'.status = "failed"
         \/ tool'.child = tool.child /\ tool'.status = "alive"
  BY DEF Inv, TypeOK, ToolTypeOK, ToolState, Terminate
<1>4. (RecTypeOK /\ PortInv /\ OwnerInv)'
  <2>1. CASE rec[tool.child].state \in {"started", "bound", "made"}
    <3>1. rec' = [rec EXCEPT ![tool.child] = NoRecorder]
      BY <1>1, <2>1 DEF Inv, TypeOK, RecTypeOK, Terminate, Terminated
    <3> QED
      BY <1>1, <3>1, RecorderGone
  <2>2. CASE rec[tool.child].state \notin {"started", "bound", "made"}
    <3>1. rec' = [s \in Slots |-> IF s = tool.child THEN [rec[s] EXCEPT !.term = TRUE]
                                  ELSE rec[s]]
      BY <1>1, <2>2 DEF Terminate, Terminated
    <3>2. /\ RecTypeOK'
          /\ \A s \in Slots : rec'[s].state = rec[s].state /\ rec'[s].place = rec[s].place
                              /\ rec'[s].holds = rec[s].holds
      BY <3>1 DEF Inv, TypeOK, RecTypeOK, Recorder
    <3> QED
      BY <3>2, RecorderFrame
  <2> QED
    BY <2>1, <2>2
<1>5. (DiskTypeOK /\ BoardTypeOK /\ ManifestBelongs)'
  BY DEF Inv, TypeOK, DiskTypeOK, BoardTypeOK, ManifestBelongs
<1>6. ToolInv'
  BY <1>1, <1>3 DEF Inv, ToolInv
<1>7. SentInv'
  BY <1>3 DEF Inv, SentInv
<1>8. EarnedInv'
  BY <1>2, <1>3 DEF Inv, EarnedInv, verify_run, RunBundleOpens, Earned
<1> QED
  BY <1>3, <1>4, <1>5, <1>6, <1>7, <1>8 DEF Inv, TypeOK

(* A stop signal reaches the recorder.                                     *)
LEMMA StopKeeps ==
  ASSUME Inv, Stop \/ SoakStop \/ InterruptStop PROVE Inv'
<1>1. CASE Stop
  BY <1>1, TerminateKeeps, ToolEnds DEF Stop
<1>2. CASE SoakStop
  BY <1>2, TerminateKeeps, ToolEnds DEF SoakStop
<1>3. CASE InterruptStop
  <2>1. tool.prog = "accept"
    BY <1>3 DEF Inv, TypeOK, ToolTypeOK, ToolState, ToolInv, InterruptStop
  <2> QED
    BY <1>3, <2>1, TerminateKeeps, ToolMoves DEF InterruptStop
<1> QED
  BY <1>1, <1>2, <1>3

(* A recorder that ignores the signal is killed.                           *)
LEMMA KillKeeps == ASSUME Inv, Kill PROVE Inv'
<1>1. tool.child \in Slots
  BY DEF Inv, TypeOK, ToolTypeOK, ToolState, ToolInv, Kill
<1>2. /\ ToolTypeOK' /\ tool'.pc = tool.pc /\ tool'.prog = tool.prog /\ tool'.at = tool.at
      /\ tool'.sent = tool.sent /\ tool'.child = 0 /\ tool'.status = "failed"
  BY DEF Inv, TypeOK, ToolTypeOK, ToolState, Kill
<1> QED
  BY <1>1, <1>2, RecorderGone, ToolFrame DEF Inv, TypeOK, Kill

(* Before the first launch nothing exists. *)
LEMMA InitHolds == Init => Inv
<1> SUFFICES ASSUME Init PROVE Inv
  OBVIOUS
<1>1. RecTypeOK /\ PortInv /\ OwnerInv
  BY NoRecorderTyped DEF Init, RecTypeOK, PortInv, OwnerInv, HoldsPort, Made
<1>2. DiskTypeOK /\ ManifestBelongs
  BY DEF Init, DiskTypeOK, ManifestBelongs, NoDir
<1>3. BoardTypeOK
  BY DEF Init, BoardTypeOK, Board, NoRun, Run
<1>4. ToolTypeOK /\ ToolInv
  BY NoToolTyped DEF Init, ToolTypeOK, ToolInv, NoTool
<1>5. SentInv /\ EarnedInv
  BY DEF Init, SentInv, EarnedInv, NoTool, NoDir
<1> QED
  BY <1>1, <1>2, <1>3, <1>4, <1>5 DEF Inv, TypeOK

(* Every step of tools, recorders, board and operator keeps Inv.           *)
LEMMA StepKeeps == Inv /\ [Next]_vars => Inv'
<1> SUFFICES ASSUME Inv, [Next]_vars PROVE Inv'
  OBVIOUS
<1>1. CASE run_sweep \/ run_acceptance \/ run_soak
  BY <1>1, LaunchKeeps
<1>2. CASE ToolStep
  BY <1>2, PlanKeeps, CheckPointKeeps, PreserveKeeps, TargetFaultsKeeps,
     StartRecorderKeeps, WaitForPathKeeps, CopyProfileKeeps, RemoteWorkloadKeeps,
     WriteReportKeeps, DrainKeeps, VerifyRunKeeps, EvaluateSoakKeeps, StopKeeps,
     StoppingKeeps, AnalyzeKeeps DEF ToolStep
<1>3. CASE SenderStep
  BY <1>3, SenderKeeps DEF SenderStep
<1>4. CASE FaultStep
  BY <1>4, SenderKeeps, KillKeeps, RaisesKeeps, StoppingKeeps, PacketsLostKeeps,
     SocketKeeps DEF FaultStep
<1>5. ASSUME NEW s \in Slots, RecorderStep(s) PROVE Inv'
  BY <1>5, SocketKeeps, MakeDirectoryKeeps, OpenFilesKeeps, SelectKeeps,
     WriteManifestKeeps, CloseRunKeeps DEF RecorderStep
<1>6. CASE UNCHANGED vars
  <2>1. (BoardTypeOK /\ ToolTypeOK /\ ToolInv /\ SentInv /\ EarnedInv)'
    BY <1>6 DEF vars, Inv, TypeOK, BoardTypeOK, ToolTypeOK, ToolInv, SentInv, EarnedInv,
                verify_run, RunBundleOpens, Earned
  <2> QED
    BY <1>6, <2>1, DiskFrame DEF vars, Inv, TypeOK
<1> QED
  BY <1>1, <1>2, <1>3, <1>4, <1>5, <1>6 DEF Next

(* The invariant holds in every reachable state. *)
LEMMA InvHolds == Spec => []Inv
BY InitHolds, StepKeeps, PTL DEF Spec
-----------------------------------------------------------------------------
(* A manifest is written only into the directory of the recorder that      *)
(* writes it, however many recorders killed tools have left behind and     *)
(* however often --resume has put their directories aside: the port is     *)
(* held until after the manifest (write_manifest in qcrate_recorder.c).    *)
THEOREM ManifestSafe == Spec => []ManifestBelongs
BY InvHolds, PTL DEF Inv

(* A passing verdict of the sweep, the acceptance or the soak rests on     *)
(* directories that hold their own complete runs, and no later step of any *)
(* tool or recorder takes that away (verify_run, evaluate_run, analyze).   *)
THEOREM VerdictSafe == Spec => []PassIsEarned
<1>1. Inv => PassIsEarned
  BY DEF Inv, EarnedInv, PassIsEarned, verify_run, RunBundleOpens, Earned, NoRun
<1> QED
  BY <1>1, InvHolds, PTL

(* A tool reaches its end only where its recorder is gone, unless it is    *)
(* the soak.                                                               *)
LEMMA OnlyChildlessEnd ==
  ASSUME Inv, Next, tool'.pc \in {"ok", "failed"}, tool.pc # tool'.pc
  PROVE  tool.prog = "soak" \/ tool.child = 0
<1>1. /\ ToolTypeOK
      /\ tool.status # "alive" => tool.child = 0
      /\ tool.pc \in Childless \cup Ended => tool.child = 0
      /\ tool.prog \notin {"sweep", "accept"} /\ tool.child # 0 => tool.prog = "soak"
      /\ tool.pc = "soakstop" => tool.prog = "soak"
  BY DEF Inv, TypeOK, ToolTypeOK, ToolState, ToolInv
<1>2. \A pc \in ToolPc \ Ended : ~Go(pc)
  BY <1>1, GoTyped
<1>3. CASE run_sweep \/ run_acceptance \/ run_soak
  BY <1>1, <1>3 DEF Inv, ToolInv, run_sweep, run_acceptance, run_soak, Idle
<1>4. CASE ToolStep
  <2>1. CASE prepare_plan \/ CheckPoint \/ VerifyRun \/ EvaluateSoak \/ analyze
             \/ finalize_acceptance \/ StartRecorder \/ PreservePoint
             \/ run_target_faults \/ interrupt_recorder
    <3>1. tool.pc \in Childless
      BY <2>1 DEF prepare_plan, CheckPoint, VerifyRun, EvaluateSoak, analyze,
         finalize_acceptance, StartRecorder, PreservePoint, run_target_faults,
         interrupt_recorder
    <3> QED
      BY <1>1, <3>1
  <2>2. CASE wait_for_path \/ CopyProfile \/ remote_workload \/ WriteReport
    BY <1>1, <1>2, <2>2 DEF wait_for_path, CopyProfile, remote_workload, WriteReport,
                            InExperiment
  <2>3. CASE Drain \/ Stopping \/ InterruptPreserve
    BY <1>1, <2>3 DEF Drain, Stopping, InterruptPreserve
  <2>4. CASE Stop \/ SoakStop \/ InterruptStop
    <3>1. tool.status = "alive" => \E next \in {"stopping", "istopping"} : Terminate(next)
      BY <2>4 DEF Stop, SoakStop, InterruptStop
    <3>2. \A next \in {"stopping", "istopping"} : ~Terminate(next)
      BY <1>1 DEF Terminate, ToolTypeOK, ToolState
    <3> QED
      BY <1>1, <3>1, <3>2
  <2> QED
    BY <1>4, <2>1, <2>2, <2>3, <2>4 DEF ToolStep
<1>5. CASE SenderStep \/ SenderFails
  BY <1>1, <1>5 DEF SenderStep, SenderAdvances, SenderEnds, SenderFails, Answer, ToolTypeOK,
                    ToolState
<1>6. CASE Raises \/ SoakRaises \/ SoakGivesUp
  BY <1>1, <1>2, <1>6 DEF Raises, SoakRaises, SoakGivesUp
<1>7. CASE ToolKilled
  <2>1. tool'.pc = "killed"
    BY <1>7, EndTyped DEF ToolKilled
  <2> QED
    BY <2>1
<1>8. CASE Kill
  BY <1>1, <1>8 DEF Kill, ToolTypeOK, ToolState
<1>9. ASSUME NEW s \in Slots, RecorderStep(s) \/ PacketsLost(s) \/ StartTimeout(s)
      PROVE  FALSE
  <2>1. UNCHANGED tool \/ \E status : Exit(s, status)
    BY <1>9 DEF RecorderStep, create_socket, MakeDirectory, OpenFiles, Select, receive_run,
                write_manifest, close_run, PacketsLost, StartTimeout
  <2> QED
    BY <1>1, <2>1 DEF Exit, ToolTypeOK, ToolState
<1> QED
  BY <1>3, <1>4, <1>5, <1>6, <1>7, <1>8, <1>9 DEF Next, FaultStep

(* A tool that ends by itself leaves no recorder of its own running, the   *)
(* soak excepted (the finally blocks of run_experiment and of the sweep    *)
(* acceptance).                                                            *)
THEOREM CleanUpSafe == Spec => ToolsCleanUp
<1>1. Inv /\ [Next]_vars =>
        [tool'.pc \in {"ok", "failed"} /\ tool.pc # tool'.pc =>
           \/ tool.prog = "soak" \/ tool.child = 0 \/ rec'[tool.child] = NoRecorder]_vars
  BY OnlyChildlessEnd
<1> QED
  BY <1>1, InvHolds, PTL DEF Spec, ToolsCleanUp
=============================================================================

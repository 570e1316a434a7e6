------------------------------ MODULE Campaign ------------------------------
(***************************************************************************)
(* The tools that drive whole measurements from the host: one experiment   *)
(* (qcrate_experiment.py), the resumable sweep (qcrate_sweep.py), its      *)
(* recovery acceptance (qcrate_sweep_acceptance.py) and the soak           *)
(* (qcrate_acceptance.py).  Each starts a recorder process, runs a sender  *)
(* on the board over SSH, and judges the directory the two leave behind.   *)
(*                                                                         *)
(* One tool runs at a time; what makes this hard is what a killed tool     *)
(* leaves running: a recorder that holds the UDP port and writes its       *)
(* manifest by path, and a sender that still owns the board.               *)
(***************************************************************************)
EXTENDS Integers, FiniteSets, FiniteSetsExt

CONSTANTS
  Points,      \* points of the sweep plan
  MaxFaults,   \* bound: kills, timeouts, lost packets and sessions
  MaxLaunches  \* bound: launches of the acceptance tool and of the soak
               \* that are not killed

ASSUME CampaignAssumption ==
  Points \in Nat \ {0, 1} /\ MaxFaults \in Nat /\ MaxLaunches \in Nat

VARIABLES
  plan,        \* sweep-plan.json is in place
  disk,        \* [Places -> run directory at that path, or NoDir]
  rec,         \* [Slots -> recorder process]
  board,       \* the sender and the configuration of the KV260
  tool,        \* the running tool
  report,      \* dp6e-sweep.json: "none" or "PASS"
  acceptance,  \* dp6e-acceptance.json: "none", "PASS" or "FAIL"
  soak,        \* dp5d-acceptance.json: "none", "FAIL", "PENDING" or "PASS"
  faults, launches   \* budgets left

vars == <<plan, disk, rec, board, tool, report, acceptance, soak, faults, launches>>
verdicts == <<report, acceptance, soak>>
budgets == <<faults, launches>>

Recovery == Points + 1
Soak == Points + 2
Places == 1 .. Soak
Slots == {1, 2}
Default == 0        \* configuration of the bundled DSP model

NoRun == [id |-> 0, config |-> Default]
NoDir == [exists |-> FALSE]
(* A run directory: its index, the run of the index header, whether the    *)
(* first shot of that run is in it, the manifest and who wrote it, the     *)
(* sender report and the copied profile (0: none).                         *)
EmptyDir ==
  [exists |-> TRUE, index |-> FALSE, run |-> NoRun, whole |-> FALSE,
   manifest |-> "none", by |-> "nobody", of |-> NoRun,
   sender |-> "none", sent |-> NoRun, profile |-> 0]
NoRecorder ==
  [state |-> "none", place |-> 0, holds |-> FALSE, run |-> NoRun, whole |-> FALSE,
   lost |-> FALSE, eos |-> FALSE, term |-> FALSE]
NoTool ==
  [prog |-> "none", at |-> 0, pc |-> "done", child |-> 0, status |-> "none",
   sender |-> "none", sent |-> NoRun, targets |-> FALSE]

(* The profile an experiment at a place applies; the soak applies none.    *)
Config(p) == IF p = Recovery THEN 1 ELSE p

Init ==
  /\ plan = FALSE
  /\ disk = [p \in Places |-> NoDir]
  /\ rec = [s \in Slots |-> NoRecorder]
  /\ board = [phase |-> "idle", run |-> NoRun, config |-> Default, last |-> 0,
              attached |-> FALSE]
  /\ tool = NoTool
  /\ report = "none" /\ acceptance = "none" /\ soak = "none"
  /\ faults = MaxFaults /\ launches = MaxLaunches

Fault == faults > 0 /\ faults' = faults - 1 /\ UNCHANGED launches
-----------------------------------------------------------------------------
(* Judging a directory.  RunBundle.open raises on reports of another run.  *)

RunBundleOpens(d) ==
  /\ d.exists /\ d.index
  /\ d.manifest # "none" => d.of = d.run
  /\ d.sender # "none" => d.sent = d.run

(* Mutant: the run of the sender report is not compared. *)
VerifyIgnoringSender(d, config) ==
  /\ d.exists /\ d.index
  /\ d.manifest = "complete" /\ d.of = d.run /\ d.sender = "complete"
  /\ d.run.config = config /\ d.profile = config
(* verify_run: both reports, complete and of the configuration of the      *)
(* profile, and every word equal to the model of the profile in the run.   *)
verify_run(d, config) ==
  /\ RunBundleOpens(d)
  /\ d.manifest = "complete" /\ d.sender = "complete"
  /\ d.run.config = config /\ d.profile = config

(* evaluate_run: the clean checks of the soak, the shot counts of both     *)
(* ends equal among them; no profile is bundled, so the shots must carry   *)
(* the configuration of the default model.                                 *)
clean_pass(d) ==
  /\ d.manifest = "complete" /\ d.sender = "complete"
  /\ d.whole /\ d.run.config = Default
evaluate_run(d, cases) ==
  IF ~clean_pass(d) \/ cases = "failed" THEN "FAIL"
  ELSE IF cases = "complete" THEN "PASS" ELSE "PENDING"

(* evaluate_sweep raises on the first point verify_run rejects. *)
evaluate_sweep == \A p \in 1 .. Points : verify_run(disk[p], Config(p))
-----------------------------------------------------------------------------
(* The recorder process.  The socket is held from create_socket to         *)
(* close_run, which comes after the manifest.                              *)

(* Mutant: the socket is closed before the manifest is written. *)
HoldsPortUntilClosing(s) == rec[s].state \in {"bound", "made", "listening"}
HoldsPort(s) == rec[s].state \in {"bound", "made", "listening", "closing", "written"}

Exit(s, status) ==
  /\ rec' = [rec EXCEPT ![s] = NoRecorder]
  /\ tool' = IF tool.child = s THEN [tool EXCEPT !.child = 0, !.status = status] ELSE tool
RecStep(s, from, to) == rec[s].state = from /\ rec' = [rec EXCEPT ![s].state = to]

create_socket(s) ==
  /\ rec[s].state = "started"
  /\ IF \E t \in Slots \ {s} : HoldsPort(t)
     THEN Exit(s, "failed")
     ELSE RecStep(s, "started", "bound") /\ UNCHANGED tool
  /\ UNCHANGED <<plan, disk, board, verdicts, budgets>>

(* prepare_output: mkdir of a path that must not exist, then the files. *)
MakeDirectory(s) ==
  /\ rec[s].state = "bound"
  /\ IF disk[rec[s].place].exists
     THEN Exit(s, "failed") /\ UNCHANGED disk
     ELSE /\ disk' = [disk EXCEPT ![rec[s].place] = EmptyDir]
          /\ rec' = [rec EXCEPT ![s].state = "made", ![s].holds = TRUE]
          /\ UNCHANGED tool
  /\ UNCHANGED <<plan, board, verdicts, budgets>>
OpenFiles(s) ==
  /\ rec[s].state = "made"
  /\ IF rec[s].holds
     THEN /\ disk' = [disk EXCEPT ![rec[s].place].index = TRUE]
          /\ RecStep(s, "made", "listening") /\ UNCHANGED tool
     ELSE Exit(s, "failed") /\ UNCHANGED disk
  /\ UNCHANGED <<plan, board, verdicts, budgets>>

(* The first STREAM_INFO selects the run, whoever sends it. *)
Select(s) ==
  /\ rec[s].state = "listening" /\ rec[s].run = NoRun /\ board.phase # "idle"
  /\ rec' = [rec EXCEPT ![s].run = board.run, ![s].whole = board.phase = "first"]
  /\ disk' = IF rec[s].holds
             THEN [disk EXCEPT ![rec[s].place].run = board.run,
                               ![rec[s].place].whole = board.phase = "first"]
             ELSE disk
  /\ UNCHANGED <<plan, board, tool, verdicts, budgets>>

(* receive_run ends after the terminal packet, on a signal, or when the    *)
(* idle timer expires; before any packet the start timer, which a tool     *)
(* that is slow to start its sender may meet.                              *)
Quiet(s) == rec[s].run # NoRun /\ (board.phase = "idle" \/ rec[s].run # board.run)
receive_run(s) ==
  /\ \/ rec[s].eos \/ rec[s].term \/ Quiet(s)
     \/ /\ rec[s].run = NoRun /\ board.phase = "idle"
        /\ tool.child # s \/ tool.sender # "none"
  /\ RecStep(s, "listening", "closing")
  /\ UNCHANGED <<plan, disk, board, tool, verdicts, budgets>>
StartTimeout(s) ==
  /\ rec[s].run = NoRun /\ tool.child = s /\ Fault
  /\ RecStep(s, "listening", "closing")
  /\ UNCHANGED <<plan, disk, board, tool, verdicts>>

Clean(s) == rec[s].eos /\ ~rec[s].lost /\ ~rec[s].term
(* write_manifest opens and renames by path: whatever directory is there.  *)
write_manifest(s) ==
  /\ rec[s].state = "closing"
  /\ IF disk[rec[s].place].exists
     THEN /\ disk' = [disk EXCEPT
               ![rec[s].place].manifest = IF Clean(s) THEN "complete" ELSE "incomplete",
               ![rec[s].place].by = IF rec[s].holds THEN "owner" ELSE "another",
               ![rec[s].place].of = rec[s].run]
          /\ RecStep(s, "closing", "written") /\ UNCHANGED tool
     ELSE Exit(s, "failed") /\ UNCHANGED disk
  /\ UNCHANGED <<plan, board, verdicts, budgets>>
close_run(s) ==
  /\ rec[s].state = "written"
  /\ Exit(s, IF Clean(s) THEN "ok" ELSE "failed")
  /\ UNCHANGED <<plan, disk, board, verdicts, budgets>>
-----------------------------------------------------------------------------
(* The sender on the board.  Packets reach the recorder that listens; one  *)
(* that has not selected the run of its own tool does so unless the        *)
(* packets are lost.                                                       *)

Listening(s) == rec[s].state = "listening"
Unheard == board.attached /\ \E s \in Slots : Listening(s) /\ rec[s].run = NoRun
Heard(s) == Listening(s) /\ rec[s].run = board.run

(* run_visible returns to the tool still attached, with the report. *)
Answer(outcome) ==
  /\ board' = [board EXCEPT !.phase = "idle", !.run = NoRun, !.attached = FALSE]
  /\ tool' = IF board.attached
             THEN [tool EXCEPT !.pc = "report", !.sender = outcome, !.sent = board.run]
             ELSE tool
SenderAdvances ==
  /\ board.phase = "first"
  /\ IF Unheard THEN Fault ELSE UNCHANGED budgets
  /\ board' = [board EXCEPT !.phase = "rest"]
  /\ UNCHANGED <<plan, disk, rec, tool, verdicts>>
SenderEnds ==
  /\ board.phase = "rest"
  /\ IF Unheard THEN Fault ELSE UNCHANGED budgets
  /\ rec' = [s \in Slots |-> IF Heard(s) THEN [rec[s] EXCEPT !.eos = TRUE] ELSE rec[s]]
  /\ Answer("complete")
  /\ UNCHANGED <<plan, disk, verdicts>>
SenderFails ==
  /\ board.phase # "idle" /\ Fault
  /\ Answer("incomplete")
  /\ UNCHANGED <<plan, disk, rec, verdicts>>
PacketsLost(s) ==
  /\ board.phase # "idle" /\ Heard(s) /\ ~rec[s].lost /\ Fault
  /\ rec' = [rec EXCEPT ![s].lost = TRUE]
  /\ UNCHANGED <<plan, disk, board, tool, verdicts>>
-----------------------------------------------------------------------------
(* The tools.  A raise inside the try of run_experiment goes to "stop",    *)
(* its finally; outside it the tool ends.                                  *)

Idle == tool.prog = "none"
Go(pc) == tool' = [tool EXCEPT !.pc = pc]
End(how) == tool' = [NoTool EXCEPT !.pc = how]
Begin(prog, place, pc) == tool' = [NoTool EXCEPT !.prog = prog, !.at = place, !.pc = pc]
InExperiment == tool.prog \in {"sweep", "accept"}

run_sweep ==                        \* run --resume
  /\ Idle /\ Begin("sweep", 1, IF plan THEN "check" ELSE "plan")
  /\ UNCHANGED <<plan, disk, rec, board, verdicts, budgets>>
run_acceptance ==
  /\ Idle /\ plan /\ launches > 0
  /\ launches' = launches - 1
  /\ Begin("accept", Recovery, "target")
  /\ UNCHANGED <<plan, disk, rec, board, verdicts, faults>>
run_soak ==
  /\ Idle /\ ~disk[Soak].exists /\ launches > 0
  /\ launches' = launches - 1
  /\ Begin("soak", Soak, "start")
  /\ UNCHANGED <<plan, disk, rec, board, verdicts, faults>>

(* prepare_plan builds in a staging directory and renames it. *)
prepare_plan ==
  /\ tool.pc = "plan"
  /\ plan' = TRUE /\ Go("check")
  /\ UNCHANGED <<disk, rec, board, verdicts, budgets>>

NextPoint ==
  IF tool.at < Points
  THEN tool' = [NoTool EXCEPT !.prog = "sweep", !.at = tool.at + 1, !.pc = "check"]
  ELSE Go("analyze")

(* Mutant: an unfinished point is refused, not put aside. *)
CheckPointNeverPreserves ==
  /\ tool.pc = "check"
  /\ \/ ~disk[tool.at].exists /\ Go("start")
     \/ verify_run(disk[tool.at], Config(tool.at)) /\ NextPoint
     \/ /\ disk[tool.at].exists /\ ~verify_run(disk[tool.at], Config(tool.at))
        /\ End("failed")
  /\ UNCHANGED <<plan, disk, rec, board, verdicts, budgets>>
(* The loop of run_sweep: skip what verifies, put aside what does not. *)
CheckPoint ==
  /\ tool.pc = "check"
  /\ \/ ~disk[tool.at].exists /\ Go("start")
     \/ verify_run(disk[tool.at], Config(tool.at)) /\ NextPoint
     \/ /\ disk[tool.at].exists /\ ~verify_run(disk[tool.at], Config(tool.at))
        /\ Go("preserve")
  /\ UNCHANGED <<plan, disk, rec, board, verdicts, budgets>>

(* os.replace moves the directory from under any recorder that made it. *)
_preserve_interrupted(place) ==
  /\ disk' = [disk EXCEPT ![place] = NoDir]
  /\ rec' = [s \in Slots |-> IF rec[s].place = place
                             THEN [rec[s] EXCEPT !.holds = FALSE] ELSE rec[s]]
PreservePoint ==
  /\ tool.pc = "preserve"
  /\ _preserve_interrupted(tool.at) /\ Go("start")
  /\ UNCHANGED <<plan, board, verdicts, budgets>>

(* run_target_faults: all cases in one session, refused while a sender     *)
(* runs; it leaves the configuration of the first point.                   *)
run_target_faults ==
  /\ tool.pc = "target"
  /\ tool' = [tool EXCEPT !.pc = "interrupt", !.targets = board.phase = "idle"]
  /\ board' = IF board.phase = "idle" THEN [board EXCEPT !.config = 1] ELSE board
  /\ UNCHANGED <<plan, disk, rec, verdicts, budgets>>
(* interrupt_recorder: an earlier recovery run is put aside first. *)
interrupt_recorder ==
  /\ tool.pc = "interrupt"
  /\ IF disk[tool.at].exists THEN _preserve_interrupted(tool.at) ELSE UNCHANGED <<disk, rec>>
  /\ Go("istart")
  /\ UNCHANGED <<plan, board, verdicts, budgets>>

(* Popen of the recorder; run_experiment and run_soak want a fresh path. *)
StartRecorder ==
  /\ tool.pc \in {"start", "istart"}
  /\ \E s \in Slots : rec[s] = NoRecorder
  /\ IF tool.pc = "start" /\ disk[tool.at].exists
     THEN End("failed") /\ UNCHANGED rec
     ELSE LET s == Min({t \in Slots : rec[t] = NoRecorder})
          IN /\ rec' = [rec EXCEPT ![s].state = "started", ![s].place = tool.at]
             /\ tool' = [tool EXCEPT !.child = s, !.status = "alive",
                                     !.pc = IF tool.pc = "start" THEN "wait" ELSE "iwait"]
  /\ UNCHANGED <<plan, disk, board, verdicts, budgets>>

(* wait_for_path looks for the index first, then at the process; run_soak  *)
(* calls it outside its try.                                               *)
wait_for_path ==
  /\ tool.pc \in {"wait", "iwait"}
  /\ IF disk[tool.at].exists /\ disk[tool.at].index
     THEN Go(IF tool.pc = "iwait" THEN "istop" ELSE IF InExperiment THEN "copy" ELSE "send")
     ELSE /\ tool.status = "failed"
          /\ IF InExperiment THEN Go("stop") ELSE End("failed")
  /\ UNCHANGED <<plan, disk, rec, board, verdicts, budgets>>

CopyProfile ==
  /\ tool.pc = "copy"
  /\ disk' = [disk EXCEPT ![tool.at].profile = Config(tool.at)]
  /\ Go("send")
  /\ UNCHANGED <<plan, rec, board, verdicts, budgets>>

(* remote_workload: a board that still sends for somebody else refuses;    *)
(* then no report comes back.                                              *)
remote_workload ==
  /\ tool.pc = "send"
  /\ IF board.phase # "idle"
     THEN UNCHANGED board /\ Go(IF InExperiment THEN "stop" ELSE "soakstop")
     ELSE LET config == IF InExperiment THEN Config(tool.at) ELSE board.config
          IN /\ board' = [phase |-> "first", run |-> [id |-> board.last + 1, config |-> config],
                          config |-> config, last |-> board.last + 1, attached |-> TRUE]
             /\ Go("sending")
  /\ UNCHANGED <<plan, disk, rec, verdicts, budgets>>

(* sender.json; the soak names the report of a failed sender otherwise. *)
WriteReport ==
  /\ tool.pc = "report"
  /\ disk' = IF InExperiment \/ tool.sender = "complete"
             THEN [disk EXCEPT ![tool.at].sender = tool.sender, ![tool.at].sent = tool.sent]
             ELSE disk
  /\ Go(IF tool.sender = "complete" THEN "drain"
        ELSE IF InExperiment THEN "stop" ELSE "soakstop")
  /\ UNCHANGED <<plan, rec, board, verdicts, budgets>>

(* recorder_process.wait, and the verdict of one run. *)
Drain ==
  /\ tool.pc = "drain" /\ tool.status # "alive"
  /\ IF tool.status = "ok" THEN Go("verify")
     ELSE IF InExperiment THEN Go("stop") ELSE End("failed")
  /\ UNCHANGED <<plan, disk, rec, board, verdicts, budgets>>
VerifyRun ==
  /\ tool.pc = "verify" /\ InExperiment
  /\ IF ~verify_run(disk[tool.at], Config(tool.at)) THEN Go("stop")
     ELSE IF tool.prog = "sweep" THEN NextPoint ELSE Go("finalize")
  /\ UNCHANGED <<plan, disk, rec, board, verdicts, budgets>>
EvaluateSoak ==
  /\ tool.pc = "verify" /\ tool.prog = "soak"
  /\ IF RunBundleOpens(disk[Soak])
     THEN \E cases \in {"complete", "failed", "open"} :
            soak' = evaluate_run(disk[Soak], cases) /\ End("ok")
     ELSE UNCHANGED soak /\ End("failed")
  /\ UNCHANGED <<plan, disk, rec, board, report, acceptance, budgets>>
-----------------------------------------------------------------------------
(* terminate(): the recorder handles the signal once it listens. *)
Terminated(s) ==
  IF rec[s].state \in {"started", "bound", "made"}
  THEN NoRecorder ELSE [rec[s] EXCEPT !.term = TRUE]
Terminate(next) ==
  /\ rec' = [s \in Slots |-> IF s = tool.child THEN Terminated(s) ELSE rec[s]]
  /\ tool' = IF rec[tool.child].state \in {"started", "bound", "made"}
             THEN [tool EXCEPT !.pc = next, !.child = 0, !.status = "failed"]
             ELSE [tool EXCEPT !.pc = next]
(* Mutant: the recorder is stopped only if a sender had run. *)
StopOnlyIfSent ==
  /\ tool.pc = "stop"
  /\ IF tool.status = "alive" /\ tool.sender # "none"
     THEN Terminate("stopping") ELSE End("failed") /\ UNCHANGED rec
  /\ UNCHANGED <<plan, disk, board, verdicts, budgets>>
(* The finally of run_experiment. *)
Stop ==
  /\ tool.pc = "stop"
  /\ IF tool.status = "alive" THEN Terminate("stopping") ELSE End("failed") /\ UNCHANGED rec
  /\ UNCHANGED <<plan, disk, board, verdicts, budgets>>
Stopping ==
  /\ tool.pc = "stopping" /\ tool.status # "alive"
  /\ End("failed")
  /\ UNCHANGED <<plan, disk, rec, board, verdicts, budgets>>
Kill ==
  /\ tool.pc \in {"stopping", "istopping"} /\ tool.status = "alive" /\ Fault
  /\ rec' = [rec EXCEPT ![tool.child] = NoRecorder]
  /\ tool' = [tool EXCEPT !.child = 0, !.status = "failed"]
  /\ UNCHANGED <<plan, disk, board, verdicts>>
(* interrupt_recorder stops its recorder the same way, puts the directory  *)
(* aside and goes on to the recovery run.                                  *)
InterruptStop ==
  /\ tool.pc = "istop"
  /\ IF tool.status = "alive" THEN Terminate("istopping") ELSE Go("istopping") /\ UNCHANGED rec
  /\ UNCHANGED <<plan, disk, board, verdicts, budgets>>
InterruptPreserve ==
  /\ tool.pc = "istopping" /\ tool.status # "alive"
  /\ _preserve_interrupted(tool.at)
  /\ tool' = [tool EXCEPT !.pc = "start", !.status = "none"]
  /\ UNCHANGED <<plan, board, verdicts, budgets>>
(* The finally of run_soak: a recorder whose sender failed is terminated;  *)
(* every recorder gets 15 s, a terminated one 5 s more, then the tool      *)
(* gives up.                                                               *)
SoakStop ==
  /\ tool.pc = "soakstop"
  /\ IF tool.status = "alive" THEN Terminate("stopping") ELSE End("failed") /\ UNCHANGED rec
  /\ UNCHANGED <<plan, disk, board, verdicts, budgets>>

(* analyze, and finalize_acceptance, which trusts a sweep report it finds. *)
analyze ==
  /\ tool.pc = "analyze"
  /\ IF evaluate_sweep THEN report' = "PASS" /\ End("ok")
     ELSE UNCHANGED report /\ End("failed")
  /\ UNCHANGED <<plan, disk, rec, board, acceptance, soak, budgets>>
finalize_acceptance ==
  /\ tool.pc = "finalize"
  /\ IF report = "PASS" \/ evaluate_sweep
     THEN /\ acceptance' = IF tool.targets /\ ~verify_run(disk[Recovery], Points)
                           THEN "PASS" ELSE "FAIL"
          /\ End("ok")
     ELSE UNCHANGED acceptance /\ End("failed")
  /\ UNCHANGED <<plan, disk, rec, board, report, soak, budgets>>
-----------------------------------------------------------------------------
(* What goes wrong.  A timeout or an interrupt raises; a lost SSH session  *)
(* returns no report; a killed tool leaves its children.                   *)
Detach == board' = [board EXCEPT !.attached = FALSE]
Raises ==
  /\ tool.pc \in {"wait", "iwait", "copy", "send", "sending", "report", "drain", "verify"}
  /\ InExperiment /\ Fault
  /\ Detach /\ Go("stop")
  /\ UNCHANGED <<plan, disk, rec, verdicts>>
SoakRaises ==
  /\ tool.prog = "soak" /\ tool.pc \in {"wait", "send", "sending", "report", "drain"}
  /\ Fault /\ Detach
  /\ IF tool.pc = "wait" THEN End("failed") ELSE Go("soakstop")
  /\ UNCHANGED <<plan, disk, rec, verdicts>>
SoakGivesUp ==
  /\ tool.prog = "soak" /\ tool.pc = "stopping" /\ tool.status = "alive"
  /\ End("failed")
  /\ UNCHANGED <<plan, disk, rec, board, verdicts, budgets>>
ToolKilled ==
  /\ ~Idle /\ faults > 0 /\ faults' = faults - 1
  /\ launches' = IF tool.prog = "sweep" THEN launches ELSE launches + 1
  /\ Detach /\ End("killed")
  /\ UNCHANGED <<plan, disk, rec, verdicts>>
-----------------------------------------------------------------------------
RecorderStep(s) ==
  \/ create_socket(s) \/ MakeDirectory(s) \/ OpenFiles(s) \/ Select(s)
  \/ receive_run(s) \/ write_manifest(s) \/ close_run(s)
SenderStep == SenderAdvances \/ SenderEnds
ToolStep ==
  \/ prepare_plan \/ CheckPoint \/ PreservePoint \/ run_target_faults
  \/ interrupt_recorder \/ StartRecorder \/ wait_for_path \/ CopyProfile
  \/ remote_workload \/ WriteReport \/ Drain \/ VerifyRun \/ EvaluateSoak
  \/ Stop \/ Stopping \/ InterruptStop \/ InterruptPreserve \/ SoakStop
  \/ analyze \/ finalize_acceptance
FaultStep ==
  \/ SenderFails \/ Kill \/ Raises \/ SoakRaises \/ SoakGivesUp \/ ToolKilled
  \/ \E s \in Slots : PacketsLost(s) \/ StartTimeout(s)
Next ==
  \/ run_sweep \/ run_acceptance \/ run_soak
  \/ ToolStep \/ SenderStep \/ FaultStep
  \/ \E s \in Slots : RecorderStep(s)

(* Processes make progress, and the operator runs the sweep again until it *)
(* passes.                                                                 *)
Fairness ==
  /\ WF_vars(ToolStep) /\ WF_vars(SenderStep)
  /\ \A s \in Slots : WF_vars(RecorderStep(s))
  /\ SF_vars(report = "none" /\ run_sweep)
Spec == Init /\ [][Next]_vars /\ Fairness
-----------------------------------------------------------------------------
(* A manifest in a run directory was written by the recorder that made the *)
(* directory (qcrate_recorder.c opens run.json by path): a recorder left   *)
(* behind by a killed sweep, whose directory --resume has renamed, holds   *)
(* the port until after its manifest, so no successor can be there yet.    *)
ManifestBelongs == \A p \in Places : disk[p].exists => disk[p].by # "another"

(* What a verdict rests on: a complete manifest and a sender report, both  *)
(* of the run in the index, recorded with the intended configuration.      *)
Earned(p, config) ==
  /\ disk[p].exists /\ disk[p].manifest = "complete" /\ disk[p].sender = "complete"
  /\ disk[p].run = disk[p].of /\ disk[p].run = disk[p].sent
  /\ disk[p].run # NoRun /\ disk[p].run.config = config

(* A verdict is earned and stays so, whatever was killed, left running or  *)
(* resumed before or since: every point of a sweep that passed holds its   *)
(* own run of its own configuration, and a soak that is not failed holds   *)
(* every shot its sender sent (verify_run, evaluate_run, analyze).         *)
PassIsEarned ==
  /\ "PASS" \in {report, acceptance} =>
       /\ \A p \in 1 .. Points : Earned(p, p) /\ disk[p].profile = p
       /\ \A p, q \in 1 .. Points : p # q => disk[p].run # disk[q].run
  /\ soak \in {"PASS", "PENDING"} => Earned(Soak, Default) /\ disk[Soak].whole

(* A tool that ends by itself leaves no recorder of its own running (the   *)
(* finally blocks), except run_soak: its wait for the index is outside the *)
(* try, and its last wait may time out.                                    *)
ToolsCleanUp ==
  [][tool'.pc \in {"ok", "failed"} /\ tool.pc # tool'.pc =>
       \/ tool.prog = "soak" \/ tool.child = 0 \/ rec'[tool.child] = NoRecorder]_vars

(* After any bounded number of kills, timeouts and losses, an operator who *)
(* keeps running the sweep with --resume gets its report.                  *)
SweepFinishes == <>(report = "PASS")
=============================================================================

---------------------------- MODULE StreamSource ----------------------------
(***************************************************************************)
(* The PL stream engine and the S2MM channel as the qcrate_dma driver sees *)
(* them through the stream registers: one transaction at a time, armed by  *)
(* the driver and started by a shot trigger, or started by the driver.     *)
(* Register reads and writes take microseconds and the clock-domain        *)
(* crossings nanoseconds, so a status read returns the current state.      *)
(***************************************************************************)
EXTENDS Integers

CONSTANTS
  MaxTriggers,  \* bound: shot triggers raised by the sequencer
  Faults        \* which waits and provider calls may fail

VARIABLES
  engine,        \* idle, armed, shot (busy with data), drain (busy, aborted arm)
  trigger_seen,  \* STATUS.TRIGGER_SEEN, and trigger_count is 1
  done,          \* STATUS.DONE: sticky, cleared through IRQ_CLEAR only
  missed,        \* MISSED_TRIGGERS
  shot_id,       \* TRIGGER_SHOT_ID
  dma,           \* S2MM: idle, issued, complete (callback still to run)
  dma_ok,        \* result NOERROR and residue 0
  triggers,      \* history: triggers raised
  accepted       \* history: triggers that started a shot

eng == <<engine, trigger_seen, done, missed, shot_id>>

SourceInit ==
  /\ engine = "idle" /\ trigger_seen = FALSE /\ done = FALSE
  /\ missed = 0 /\ shot_id = 0
  /\ dma = "idle" /\ dma_ok = FALSE
  /\ triggers = 0 /\ accepted = 0

SignalTypeOK ==
  /\ engine \in {"idle", "armed", "shot", "drain"}
  /\ trigger_seen \in BOOLEAN /\ done \in BOOLEAN
  /\ dma \in {"idle", "issued", "complete"} /\ dma_ok \in BOOLEAN

CounterTypeOK ==
  missed \in Nat /\ shot_id \in Nat /\ triggers \in Nat /\ accepted \in Nat

SourceTypeOK == SignalTypeOK /\ CounterTypeOK

Busy == engine \in {"shot", "drain"}

(* CONTROL.SOFT_RESET: clear_engine, which leaves the sticky DONE alone. *)
ResetEngine ==
  /\ engine' = "idle" /\ trigger_seen' = FALSE /\ missed' = 0 /\ shot_id' = 0
  /\ UNCHANGED done

(* qcrate_reset_stream: reset, then poll for idle. *)
reset_stream(ok) ==
  \/ ok /\ ResetEngine
  \/ ~ok /\ "reset" \in Faults /\ UNCHANGED eng

(* qcrate_wait_complete: idle and DONE visible, or the poll times out. *)
wait_complete(ok) ==
  \/ ok /\ ~Busy /\ done
  \/ ~ok /\ (Busy \/ ~done \/ "status" \in Faults)

(* IRQ_CLEAR, descriptors issued, then ARM_TRIGGERED or START written.     *)
(* trigger_count and missed_trigger_count are not touched by the command.  *)
IssueAndCommand(next) ==
  /\ dma' = "issued" /\ dma_ok' = FALSE
  /\ engine' = next /\ done' = FALSE /\ trigger_seen' = FALSE /\ shot_id' = 0
  /\ UNCHANGED missed

(* IRQ_CLEAR, then descriptor preparation fails: the source is reset again *)
(* and whatever was submitted is terminated before it was issued.          *)
SubmitAborted ==
  /\ done' = FALSE /\ dma_ok' = FALSE
  /\ \/ engine' = "idle" /\ trigger_seen' = FALSE /\ missed' = 0 /\ shot_id' = 0
     \/ "reset" \in Faults /\ UNCHANGED <<engine, trigger_seen, missed, shot_id>>

(* Mutant: SOFT_RESET is written where ABORT belongs. *)
AbortByReset ==
  IF engine = "armed" /\ ~trigger_seen THEN ResetEngine ELSE UNCHANGED eng

(* Status read, then CONTROL.ABORT unless BUSY or TRIGGER_SEEN: an armed   *)
(* engine runs a finite counter pattern into the issued descriptors.       *)
AbortIfQuiet ==
  /\ engine' = IF engine = "armed" /\ ~trigger_seen THEN "drain" ELSE engine
  /\ UNCHANGED <<trigger_seen, done, missed, shot_id>>

(* A shot-start pulse of the sequencer. *)
TriggerEngine ==
  /\ triggers < MaxTriggers
  /\ triggers' = triggers + 1
  /\ \/ /\ engine = "armed"
        /\ engine' = "shot" /\ trigger_seen' = TRUE /\ shot_id' = triggers + 1
        /\ accepted' = accepted + 1
        /\ UNCHANGED <<missed, done>>
     \/ /\ engine # "armed"
        /\ missed' = missed + 1
        /\ UNCHANGED <<engine, trigger_seen, done, shot_id, accepted>>

(* The last word of the last frame is accepted by S2MM. *)
FinishEngine ==
  /\ Busy /\ dma = "issued"
  /\ engine' = "idle" /\ done' = TRUE /\ dma' = "complete"
  /\ UNCHANGED <<trigger_seen, missed, shot_id>>

(* What is now in memory: the shot, or the discard pattern (0). *)
Written == IF engine = "shot" THEN shot_id ELSE 0

(* The provider runs the callback with its result. *)
CallbackRuns ==
  /\ dma = "complete" /\ dma' = "idle"
  /\ dma_ok' \in {TRUE} \cup {ok \in {FALSE} : "dma" \in Faults}
=============================================================================

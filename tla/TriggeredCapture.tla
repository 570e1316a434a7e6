-------------------------- MODULE TriggeredCapture --------------------------
(***************************************************************************)
(* The one-transaction capture paths of the qcrate_dma driver: the         *)
(* synchronous CAPTURE ioctls, the triggered ARM / WAIT / CANCEL ioctls    *)
(* and close, with the completion they share.  The bank pool is not        *)
(* running.  One call of each kind may be inside the driver at a time.     *)
(*                                                                         *)
(* completion counts like struct completion: complete() adds one, a        *)
(* successful wait takes one, reinit_completion() drops them.              *)
(***************************************************************************)
EXTENDS StreamSource

ASSUME BoundsAssumption == MaxTriggers \in Nat
ASSUME FaultsAssumption == Faults \subseteq
         {"reset", "submit", "arm", "drain", "status", "dma", "signal"}

VARIABLES
  opened,      \* the device file is open
  active,      \* triggered_active
  cancelled,   \* triggered_cancelled
  completion,  \* qdma->completion
  lock,        \* capture_lock
  pc,          \* where each call is
  got,         \* WAIT: the completion wait succeeded
  outcome,     \* history: what the last call of each kind returned
  data,        \* what the capture buffer holds: a shot, or 0
  arms         \* bound and history: transactions started

Call == {"capture", "arm", "wait", "cancel", "close"}
MaxArms == MaxTriggers + 1   \* bound

drv  == <<opened, active, cancelled>>
hist == <<triggers, accepted>>
vars == <<drv, completion, lock, pc, got, outcome, data, arms, eng, dma,
          dma_ok, hist>>

Goto(c, from, to) == pc[c] = from /\ pc' = [pc EXCEPT ![c] = to]
TakeLock(c) == lock = "none" /\ lock' = c
Returns(c, how) ==
  /\ pc' = [pc EXCEPT ![c] = "idle"]
  /\ outcome' = [outcome EXCEPT ![c] = how]
Enters(c) == opened /\ pc["close"] = "idle" /\ pc[c] = "idle"
-----------------------------------------------------------------------------
Trigger ==
  /\ TriggerEngine
  /\ UNCHANGED <<drv, completion, lock, pc, got, outcome, data, arms, dma,
                 dma_ok>>

EngineFinish ==
  /\ FinishEngine
  /\ data' = Written
  /\ UNCHANGED <<drv, completion, lock, pc, got, outcome, arms, dma_ok, hist>>

(* qcrate_dma_complete with pool_dma_active false *)
dma_complete ==
  /\ CallbackRuns
  /\ completion' = completion + 1
  /\ UNCHANGED <<drv, lock, pc, got, outcome, data, arms, eng, hist>>
-----------------------------------------------------------------------------
(* What CAPTURE and ARM have in common: refuse a busy device, reset the    *)
(* source, then poison, reinit the completion, program, submit and issue.  *)
Begin(c) ==
  /\ Enters(c) /\ TakeLock(c) /\ arms < MaxArms
  /\ ~active
  /\ reset_stream(TRUE)
  /\ pc' = [pc EXCEPT ![c] = "issue"]
  /\ arms' = arms + 1
  /\ UNCHANGED <<drv, completion, got, outcome, data, dma, dma_ok, hist>>

SubmitFails(c) ==
  /\ pc[c] = "issue" /\ "submit" \in Faults
  /\ data' = 0 /\ completion' = 0
  /\ SubmitAborted
  /\ lock' = "none" /\ Returns(c, "error")
  /\ UNCHANGED <<drv, got, arms, dma, hist>>

(* qcrate_run_capture: START, then wait for the completion with the lock   *)
(* held; a timeout, a signal or bad evidence resets and terminates.        *)
CaptureStart ==
  /\ Goto("capture", "issue", "running")
  /\ data' = 0 /\ completion' = 0
  /\ IssueAndCommand("shot")
  /\ UNCHANGED <<drv, lock, got, outcome, arms, hist>>

CaptureDone ==
  /\ pc["capture"] = "running" /\ completion > 0
  /\ completion' = completion - 1
  /\ wait_complete(TRUE) /\ dma_ok
  /\ lock' = "none" /\ Returns("capture", "ok")
  /\ UNCHANGED <<drv, got, data, arms, eng, dma, dma_ok, hist>>

(* A timeout, a signal or bad evidence; the channel is still running. *)
CaptureGivesUp ==
  /\ Goto("capture", "running", "stop")
  /\ \/ completion = 0 /\ UNCHANGED completion
     \/ /\ completion > 0 /\ completion' = completion - 1
        /\ wait_complete(FALSE) \/ ~dma_ok
  /\ UNCHANGED <<drv, lock, got, outcome, data, arms, eng, dma, dma_ok, hist>>

(* dmaengine_terminate_sync also waits for a callback that is under way. *)
CaptureFails ==
  /\ pc["capture"] = "stop"
  /\ \E ok \in BOOLEAN : reset_stream(ok)
  /\ dma' = "idle"
  /\ lock' = "none" /\ Returns("capture", "error")
  /\ UNCHANGED <<drv, completion, got, data, arms, dma_ok, hist>>

(* Mutant: the completion is not initialized again. *)
ArmIssueStale ==
  /\ Goto("arm", "issue", "poll")
  /\ data' = 0 /\ UNCHANGED completion
  /\ active' = TRUE /\ cancelled' = FALSE
  /\ IssueAndCommand("armed")
  /\ UNCHANGED <<opened, lock, got, outcome, arms, hist>>

(* qcrate_arm_triggered *)
ArmIssue ==
  /\ Goto("arm", "issue", "poll")
  /\ data' = 0 /\ completion' = 0
  /\ active' = TRUE /\ cancelled' = FALSE
  /\ IssueAndCommand("armed")
  /\ UNCHANGED <<opened, lock, got, outcome, arms, hist>>

ArmConfirmed ==
  /\ pc["arm"] = "poll" /\ engine = "armed"
  /\ lock' = "none" /\ Returns("arm", "ok")
  /\ UNCHANGED <<drv, completion, got, data, arms, eng, dma, dma_ok, hist>>

ArmTimeout ==
  /\ engine # "armed" \/ "arm" \in Faults
  /\ Goto("arm", "poll", "abort")
  /\ UNCHANGED <<drv, completion, lock, got, outcome, data, arms, eng, dma,
                 dma_ok, hist>>
-----------------------------------------------------------------------------
(* qcrate_cancel_triggered_locked on behalf of a failed ARM or WAIT, of    *)
(* CANCEL or of close.  Only CANCEL returns what it returns.               *)
Canceller == {"arm", "wait", "cancel", "close"}

CancelReturns(c, ok) ==
  /\ lock' = "none"
  /\ Returns(c, IF ok /\ c \in {"cancel", "close"} THEN "ok" ELSE "error")
  /\ opened' = (c # "close")

CancelAbort(c) ==
  /\ Goto(c, "abort", "drain")
  /\ AbortIfQuiet
  /\ UNCHANGED <<drv, completion, lock, got, outcome, data, arms, dma, dma_ok,
                 hist>>

CancelWait(c) ==
  /\ completion > 0 /\ completion' = completion - 1
  /\ Goto(c, "drain", "check")
  /\ UNCHANGED <<drv, lock, got, outcome, data, arms, eng, dma, dma_ok, hist>>

(* Mutant: the buffer is given up on timeout. *)
CancelDisowns(c) ==
  /\ pc[c] = "drain" /\ completion = 0
  /\ dma = "idle" \/ "drain" \in Faults
  /\ active' = FALSE
  /\ CancelReturns(c, FALSE)
  /\ UNCHANGED <<cancelled, completion, got, data, arms, eng, dma, dma_ok, hist>>

(* "triggered cancel drain timed out; DMA remains owned" *)
CancelTimeout(c) ==
  /\ pc[c] = "drain" /\ completion = 0
  /\ dma = "idle" \/ "drain" \in Faults
  /\ CancelReturns(c, FALSE)
  /\ UNCHANGED <<active, cancelled, completion, got, data, arms, eng, dma,
                 dma_ok, hist>>

CancelFinish(c) ==
  /\ pc[c] = "check"
  /\ \/ /\ wait_complete(TRUE) /\ dma_ok
        /\ reset_stream(TRUE)
        /\ active' = FALSE /\ cancelled' = TRUE
        /\ CancelReturns(c, TRUE)
     \/ /\ \/ (wait_complete(FALSE) \/ ~dma_ok) /\ UNCHANGED eng
           \/ wait_complete(TRUE) /\ dma_ok /\ reset_stream(FALSE)
        /\ CancelReturns(c, FALSE)
        /\ UNCHANGED <<active, cancelled>>
  /\ UNCHANGED <<completion, got, data, arms, dma, dma_ok, hist>>

(* qcrate_wait_triggered: check, wait without the lock, lock again. *)
WaitBegin ==
  /\ Enters("wait") /\ lock = "none"
  /\ \/ active /\ pc' = [pc EXCEPT !["wait"] = "blocked"] /\ UNCHANGED outcome
     \/ ~active /\ Returns("wait", IF cancelled THEN "cancelled" ELSE "error")
  /\ UNCHANGED <<drv, completion, lock, got, data, arms, eng, dma, dma_ok, hist>>

WaitWoken ==
  /\ Goto("wait", "blocked", "relock")
  /\ \/ completion > 0 /\ completion' = completion - 1 /\ got' = TRUE
     \/ got' = FALSE /\ UNCHANGED completion        \* timeout or signal
  /\ UNCHANGED <<drv, lock, outcome, data, arms, eng, dma, dma_ok, hist>>

(* mutex_lock_interruptible may fail after the completion was taken. *)
WaitInterrupted ==
  /\ pc["wait"] = "relock" /\ "signal" \in Faults
  /\ Returns("wait", "error")
  /\ UNCHANGED <<drv, completion, lock, got, data, arms, eng, dma, dma_ok, hist>>

(* Mutant: a capture that nothing triggered is accepted. *)
EvidenceUntriggered == dma_ok /\ missed = 0

(* Done, DMA and trigger evidence; a trigger while not armed spoils it. *)
EvidenceGood == dma_ok /\ trigger_seen /\ missed = 0

WaitRelock ==
  /\ pc["wait"] = "relock" /\ lock = "none"
  /\ \/ /\ ~active
        /\ Returns("wait", "cancelled")
        /\ UNCHANGED <<active, cancelled, lock>>
     \/ /\ active /\ got /\ wait_complete(TRUE) /\ EvidenceGood
        /\ active' = FALSE /\ cancelled' = FALSE
        /\ Returns("wait", "ok")
        /\ UNCHANGED lock
     \/ /\ active /\ (~got \/ wait_complete(FALSE) \/ ~EvidenceGood)
        /\ TakeLock("wait") /\ Goto("wait", "relock", "abort")
        /\ UNCHANGED <<active, cancelled, outcome>>
  /\ UNCHANGED <<opened, completion, got, data, arms, eng, dma, dma_ok, hist>>

(* qcrate_cancel_triggered *)
CancelBegin ==
  /\ Enters("cancel") /\ active
  /\ TakeLock("cancel") /\ Goto("cancel", "idle", "abort")
  /\ UNCHANGED <<drv, completion, got, outcome, data, arms, eng, dma, dma_ok,
                 hist>>

(* qcrate_dma_open and qcrate_dma_release *)
open ==
  /\ ~opened /\ opened' = TRUE
  /\ UNCHANGED <<active, cancelled, completion, lock, pc, got, outcome, data,
                 arms, eng, dma, dma_ok, hist>>

CloseBegin ==
  /\ opened /\ \A c \in Call : pc[c] = "idle"
  /\ \/ active /\ TakeLock("close") /\ Goto("close", "idle", "abort")
               /\ UNCHANGED opened
     \/ ~active /\ lock = "none" /\ opened' = FALSE /\ UNCHANGED <<lock, pc>>
  /\ UNCHANGED <<active, cancelled, completion, got, outcome, data, arms, eng,
                 dma, dma_ok, hist>>
-----------------------------------------------------------------------------
Init ==
  /\ opened = FALSE /\ active = FALSE /\ cancelled = FALSE
  /\ completion = 0 /\ lock = "none"
  /\ pc = [c \in Call |-> "idle"] /\ got = FALSE
  /\ outcome = [c \in Call |-> "none"]
  /\ data = 0 /\ arms = 0
  /\ SourceInit

Hardware == Trigger \/ EngineFinish \/ dma_complete

Capture == Begin("capture") \/ SubmitFails("capture") \/ CaptureStart
           \/ CaptureDone \/ CaptureGivesUp \/ CaptureFails
Arm == Begin("arm") \/ SubmitFails("arm") \/ ArmIssue \/ ArmConfirmed
       \/ ArmTimeout
Cancel(c) == CancelAbort(c) \/ CancelWait(c) \/ CancelTimeout(c)
             \/ CancelFinish(c)
Wait == WaitBegin \/ WaitWoken \/ WaitInterrupted \/ WaitRelock

Next ==
  \/ Hardware \/ Capture \/ Arm \/ Wait \/ CancelBegin
  \/ \E c \in Canceller : Cancel(c)
  \/ open \/ CloseBegin

Spec == Init /\ [][Next]_vars

-----------------------------------------------------------------------------

(* The driver lets go of the buffer only when nothing can write to it: no  *)
(* transfer is issued and the source is not armed unless a triggered       *)
(* transaction is active or a CAPTURE is inside the lock.                  *)
ReleasedMeansQuiet ==
  (dma # "idle" \/ engine = "armed") => active \/ pc["capture"] \in {"running", "stop"}

(* Completions never pile up and never outlive their transfer: one that is *)
(* waiting to be consumed cannot satisfy the wait of a transfer issued     *)
(* later, although a WAIT, a CANCEL and a CAPTURE may compete for it.      *)
CompletionIsCurrent == completion > 0 => completion = 1 /\ dma = "idle"

(* WAIT reports success only for a shot that is in the buffer and was      *)
(* started by the one trigger since the source was reset.                  *)
WaitOkMeansShot ==
  [][pc["wait"] = "relock" /\ pc'["wait"] = "idle" /\ outcome'["wait"] = "ok" =>
       data = shot_id /\ data > 0 /\ dma = "idle" /\ missed = 0]_vars

(* "Closing /dev/qcrate-dma also cancels an outstanding triggered          *)
(* transaction": a closed device has no triggered transaction.             *)
CloseCancels == ~opened => ~active
=============================================================================

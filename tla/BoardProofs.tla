---------------------------- MODULE BoardProofs ----------------------------
(***************************************************************************)
(* Two parts of the board that share nothing.  The one-transaction calls   *)
(* of the driver, for any number of triggers and any combination of        *)
(* faults: the buffer is given up only when nothing can write to it, a     *)
(* completion belongs to its transfer, and a successful WAIT returns the   *)
(* shot that was triggered.  The clock crossing, for bundles of any type:  *)
(* one wave at a time, data stable while valid, and the mailbox it         *)
(* implements.                                                             *)
(***************************************************************************)
EXTENDS TriggeredCapture, CdcHandshake, TLAPS

(* Where each call can be, and where it holds capture_lock: WAIT sleeps    *)
(* without it, all others keep it from entry to return.                    *)
Cancelling == {"abort", "drain", "check"}
Place == {"idle", "issue", "running", "stop", "poll", "blocked", "relock"}
           \cup Cancelling

CallTypeOK ==
  /\ opened \in BOOLEAN /\ active \in BOOLEAN /\ cancelled \in BOOLEAN
  /\ got \in BOOLEAN
  /\ pc \in [Call -> Place]
  /\ outcome \in [Call -> {"none", "ok", "error", "cancelled"}]
  /\ lock \in Call \cup {"none"}
DataTypeOK == completion \in Nat /\ data \in Nat /\ arms \in Nat
TypeOK == SourceTypeOK /\ CallTypeOK /\ DataTypeOK

LockInv ==
  /\ \A c \in Call : pc[c] \notin {"idle", "blocked", "relock"} <=> lock = c
  /\ \A c \in Call \ {"wait"} : pc[c] \notin {"blocked", "relock"}

(* A call about to issue descriptors has a quiet, reset source; one that   *)
(* took the completion of a cancelled transaction knows that the transfer  *)
(* is over; a CAPTURE never runs beside a triggered transaction.           *)
CallInv ==
  /\ \A c \in {"capture", "arm"} : pc[c] = "issue" =>
       engine = "idle" /\ ~trigger_seen /\ dma = "idle" /\ ~active
  /\ \A c \in Canceller : pc[c] = "check" => dma = "idle"
  /\ pc["capture"] # "idle" => ~active

(* What the registers say about a finished shot is what is in the buffer,  *)
(* and the result of a transfer is good only after its callback.           *)
SourceInv ==
  /\ engine = "armed" => active /\ dma = "issued"
  /\ engine \in {"armed", "drain"} => ~trigger_seen
  /\ trigger_seen => shot_id > 0
  /\ trigger_seen /\ engine = "idle" => data = shot_id
  /\ dma # "idle" => ~dma_ok

Inv ==
  /\ TypeOK /\ LockInv /\ CallInv /\ SourceInv
  /\ ReleasedMeansQuiet /\ CompletionIsCurrent

USE DEF drv, hist, eng, Call, Canceller, Cancelling, Place

(* Before the device is opened nothing runs. *)
LEMMA InitHolds == Init => Inv
<1> SUFFICES ASSUME Init PROVE Inv
  OBVIOUS
<1>1. SourceTypeOK /\ DataTypeOK
  BY DEF Init, SourceInit, SourceTypeOK, SignalTypeOK, CounterTypeOK, DataTypeOK
<1>2. CallTypeOK
  BY DEF Init, CallTypeOK
<1>3. LockInv /\ CallInv /\ SourceInv
  BY DEF Init, SourceInit, LockInv, CallInv, SourceInv
<1>4. ReleasedMeansQuiet /\ CompletionIsCurrent
  BY DEF Init, SourceInit, ReleasedMeansQuiet, CompletionIsCurrent
<1> QED
  BY <1>1, <1>2, <1>3, <1>4 DEF Inv, TypeOK

(* A trigger moves only an armed engine. *)
LEMMA TriggerKeeps ==
  ASSUME Inv, Trigger PROVE Inv'
<1>1. SignalTypeOK'
  BY DEF Inv, TypeOK, SourceTypeOK, SignalTypeOK, Trigger, TriggerEngine
<1>2. CounterTypeOK'
  BY DEF Inv, TypeOK, SourceTypeOK, CounterTypeOK, Trigger, TriggerEngine
<1>3. (CallTypeOK /\ DataTypeOK /\ LockInv)'
  BY DEF Inv, TypeOK, SourceTypeOK, CounterTypeOK, CallTypeOK, DataTypeOK,
         LockInv, Trigger, TriggerEngine
<1>4. (CallInv /\ SourceInv)'
  BY DEF Inv, TypeOK, SourceTypeOK, SignalTypeOK, CounterTypeOK, CallTypeOK,
         LockInv, CallInv, SourceInv, ReleasedMeansQuiet, CompletionIsCurrent,
         Trigger, TriggerEngine
<1>5. (ReleasedMeansQuiet /\ CompletionIsCurrent)'
  BY DEF Inv, TypeOK, SourceTypeOK, SignalTypeOK, CallTypeOK, DataTypeOK,
         LockInv, CallInv, SourceInv, ReleasedMeansQuiet, CompletionIsCurrent,
         Trigger, TriggerEngine
<1> QED
  BY <1>1, <1>2, <1>3, <1>4, <1>5 DEF Inv, TypeOK, SourceTypeOK

(* The last word of a transfer lands in the buffer. *)
LEMMA EngineFinishKeeps ==
  ASSUME Inv, EngineFinish PROVE Inv'
<1>1. SignalTypeOK'
  BY DEF Inv, TypeOK, SourceTypeOK, SignalTypeOK, EngineFinish, FinishEngine,
         Busy, Written
<1>2. (CounterTypeOK /\ CallTypeOK)'
  BY DEF Inv, TypeOK, SourceTypeOK, CounterTypeOK, CallTypeOK, EngineFinish,
         FinishEngine, Busy, Written
<1>3. (DataTypeOK /\ LockInv)'
  BY DEF Inv, TypeOK, SourceTypeOK, CounterTypeOK, CallTypeOK, DataTypeOK,
         LockInv, EngineFinish, FinishEngine, Busy, Written
<1>4. (CallInv /\ SourceInv)'
  BY DEF Inv, TypeOK, SourceTypeOK, SignalTypeOK, CounterTypeOK, CallTypeOK,
         LockInv, CallInv, SourceInv, ReleasedMeansQuiet, CompletionIsCurrent,
         EngineFinish, FinishEngine, Busy, Written
<1>5. (ReleasedMeansQuiet /\ CompletionIsCurrent)'
  BY DEF Inv, TypeOK, SourceTypeOK, SignalTypeOK, CallTypeOK, DataTypeOK,
         LockInv, CallInv, SourceInv, ReleasedMeansQuiet, CompletionIsCurrent,
         EngineFinish, FinishEngine, Busy, Written
<1> QED
  BY <1>1, <1>2, <1>3, <1>4, <1>5 DEF Inv, TypeOK, SourceTypeOK

(* The callback ends the transfer and completes once. *)
LEMMA CompleteKeeps ==
  ASSUME Inv, dma_complete PROVE Inv'
<1>1. SignalTypeOK'
  BY DEF Inv, TypeOK, SourceTypeOK, SignalTypeOK, dma_complete, CallbackRuns
<1>2. (CounterTypeOK /\ CallTypeOK)'
  BY DEF Inv, TypeOK, SourceTypeOK, CounterTypeOK, CallTypeOK, dma_complete,
         CallbackRuns
<1>3. DataTypeOK'
  BY DEF Inv, TypeOK, SourceTypeOK, CounterTypeOK, DataTypeOK, dma_complete,
         CallbackRuns
<1>4. LockInv'
  BY DEF Inv, TypeOK, CallTypeOK, LockInv, dma_complete, CallbackRuns
<1>5. (CallInv /\ SourceInv)'
  BY DEF Inv, TypeOK, SourceTypeOK, SignalTypeOK, CounterTypeOK, CallTypeOK,
         LockInv, CallInv, SourceInv, ReleasedMeansQuiet, CompletionIsCurrent,
         dma_complete, CallbackRuns
<1>6. (ReleasedMeansQuiet /\ CompletionIsCurrent)'
  BY DEF Inv, TypeOK, SourceTypeOK, SignalTypeOK, CallTypeOK, DataTypeOK,
         LockInv, CallInv, SourceInv, ReleasedMeansQuiet, CompletionIsCurrent,
         dma_complete, CallbackRuns
<1> QED
  BY <1>1, <1>2, <1>3, <1>4, <1>5, <1>6 DEF Inv, TypeOK, SourceTypeOK

(* CAPTURE and ARM find a quiet channel: nothing is active under the lock. *)
LEMMA BeginKeeps ==
  ASSUME Inv, NEW c \in {"capture", "arm"}, Begin(c) PROVE Inv'
<1>1. SignalTypeOK'
  BY DEF Inv, TypeOK, SourceTypeOK, SignalTypeOK, Begin, reset_stream,
         ResetEngine, TakeLock, Enters
<1>2. CounterTypeOK'
  BY DEF Inv, TypeOK, SourceTypeOK, CounterTypeOK, Begin, reset_stream,
         ResetEngine, TakeLock, Enters
<1>3. CallTypeOK'
  BY DEF Inv, TypeOK, CallTypeOK, Begin, reset_stream, ResetEngine, TakeLock,
         Enters
<1>4. DataTypeOK'
  BY DEF Inv, TypeOK, SourceTypeOK, CounterTypeOK, DataTypeOK, Begin,
         reset_stream, ResetEngine, TakeLock, Enters
<1>5. LockInv'
  BY DEF Inv, TypeOK, CallTypeOK, LockInv, Begin, reset_stream, ResetEngine,
         TakeLock, Enters
<1>6. CallInv'
  BY DEF Inv, TypeOK, SourceTypeOK, SignalTypeOK, CallTypeOK, LockInv,
         CallInv, SourceInv, ReleasedMeansQuiet, CompletionIsCurrent, Begin,
         reset_stream, ResetEngine, TakeLock, Enters
<1>7. SourceInv'
  BY DEF Inv, TypeOK, SourceTypeOK, SignalTypeOK, CounterTypeOK, CallTypeOK,
         LockInv, CallInv, SourceInv, ReleasedMeansQuiet, Begin, reset_stream,
         ResetEngine, TakeLock, Enters
<1>8. (ReleasedMeansQuiet /\ CompletionIsCurrent)'
  BY DEF Inv, TypeOK, SourceTypeOK, SignalTypeOK, CallTypeOK, DataTypeOK,
         LockInv, CallInv, SourceInv, ReleasedMeansQuiet, CompletionIsCurrent,
         Begin, reset_stream, ResetEngine, TakeLock, Enters
<1> QED
  BY <1>1, <1>2, <1>3, <1>4, <1>5, <1>6, <1>7, <1>8 DEF Inv, TypeOK,
         SourceTypeOK

(* Nothing was issued: the buffer is free again. *)
LEMMA SubmitFailsKeeps ==
  ASSUME Inv, NEW c \in {"capture", "arm"}, SubmitFails(c) PROVE Inv'
<1>1. SignalTypeOK'
  BY DEF Inv, TypeOK, SourceTypeOK, SignalTypeOK, SubmitFails, SubmitAborted,
         Returns
<1>2. CounterTypeOK'
  BY DEF Inv, TypeOK, SourceTypeOK, CounterTypeOK, SubmitFails,
         SubmitAborted, Returns
<1>3. CallTypeOK'
  BY DEF Inv, TypeOK, CallTypeOK, SubmitFails, SubmitAborted, Returns
<1>4. DataTypeOK'
  BY DEF Inv, TypeOK, SourceTypeOK, CounterTypeOK, DataTypeOK, SubmitFails,
         SubmitAborted, Returns
<1>5. LockInv'
  BY DEF Inv, TypeOK, CallTypeOK, LockInv, SubmitFails, SubmitAborted,
         Returns
<1>6. CallInv'
  BY DEF Inv, TypeOK, SourceTypeOK, SignalTypeOK, CallTypeOK, LockInv,
         CallInv, SourceInv, ReleasedMeansQuiet, CompletionIsCurrent,
         SubmitFails, SubmitAborted, Returns
<1>7. SourceInv'
  BY DEF Inv, TypeOK, SourceTypeOK, SignalTypeOK, CounterTypeOK, CallTypeOK,
         LockInv, CallInv, SourceInv, ReleasedMeansQuiet, SubmitFails,
         SubmitAborted, Returns
<1>8. (ReleasedMeansQuiet /\ CompletionIsCurrent)'
  BY DEF Inv, TypeOK, SourceTypeOK, SignalTypeOK, CallTypeOK, DataTypeOK,
         LockInv, CallInv, SourceInv, ReleasedMeansQuiet, CompletionIsCurrent,
         SubmitFails, SubmitAborted, Returns
<1> QED
  BY <1>1, <1>2, <1>3, <1>4, <1>5, <1>6, <1>7, <1>8 DEF Inv, TypeOK,
         SourceTypeOK

(* A CAPTURE issues with an empty completion. *)
LEMMA CaptureStartKeeps ==
  ASSUME Inv, CaptureStart PROVE Inv'
<1>1. (SignalTypeOK /\ CounterTypeOK)'
  BY DEF Inv, TypeOK, SourceTypeOK, SignalTypeOK, CounterTypeOK,
         CaptureStart, IssueAndCommand, Goto
<1>2. CallTypeOK'
  BY DEF Inv, TypeOK, CallTypeOK, CaptureStart, IssueAndCommand, Goto
<1>3. DataTypeOK'
  BY DEF Inv, TypeOK, SourceTypeOK, CounterTypeOK, DataTypeOK, CaptureStart,
         IssueAndCommand, Goto
<1>4. LockInv'
  BY DEF Inv, TypeOK, CallTypeOK, LockInv, CaptureStart, IssueAndCommand,
         Goto
<1>5. CallInv'
  BY DEF Inv, TypeOK, SourceTypeOK, SignalTypeOK, CallTypeOK, LockInv,
         CallInv, SourceInv, ReleasedMeansQuiet, CompletionIsCurrent,
         CaptureStart, IssueAndCommand, Goto
<1>6. SourceInv'
  BY DEF Inv, TypeOK, SourceTypeOK, SignalTypeOK, CounterTypeOK, CallTypeOK,
         LockInv, CallInv, SourceInv, ReleasedMeansQuiet, CaptureStart,
         IssueAndCommand, Goto
<1>7. (ReleasedMeansQuiet /\ CompletionIsCurrent)'
  BY DEF Inv, TypeOK, SourceTypeOK, SignalTypeOK, CallTypeOK, DataTypeOK,
         LockInv, CallInv, SourceInv, ReleasedMeansQuiet, CompletionIsCurrent,
         CaptureStart, IssueAndCommand, Goto
<1> QED
  BY <1>1, <1>2, <1>3, <1>4, <1>5, <1>6, <1>7 DEF Inv, TypeOK, SourceTypeOK

(* The completion says that the channel is idle. *)
LEMMA CaptureDoneKeeps ==
  ASSUME Inv, CaptureDone PROVE Inv'
<1>1. (SignalTypeOK /\ CounterTypeOK)'
  BY DEF Inv, TypeOK, SourceTypeOK, SignalTypeOK, CounterTypeOK, CaptureDone,
         wait_complete, Returns, Busy
<1>2. CallTypeOK'
  BY DEF Inv, TypeOK, CallTypeOK, CaptureDone, wait_complete, Returns, Busy
<1>3. DataTypeOK'
  BY DEF Inv, TypeOK, SourceTypeOK, CounterTypeOK, DataTypeOK, CaptureDone,
         wait_complete, Returns, Busy
<1>4. LockInv'
  BY DEF Inv, TypeOK, CallTypeOK, LockInv, CaptureDone, wait_complete,
         Returns, Busy
<1>5. (CallInv /\ SourceInv)'
  BY DEF Inv, TypeOK, SourceTypeOK, SignalTypeOK, CounterTypeOK, CallTypeOK,
         LockInv, CallInv, SourceInv, ReleasedMeansQuiet, CompletionIsCurrent,
         CaptureDone, wait_complete, Returns, Busy
<1>6. (ReleasedMeansQuiet /\ CompletionIsCurrent)'
  BY DEF Inv, TypeOK, SourceTypeOK, SignalTypeOK, CallTypeOK, DataTypeOK,
         LockInv, CallInv, SourceInv, ReleasedMeansQuiet, CompletionIsCurrent,
         CaptureDone, wait_complete, Returns, Busy
<1> QED
  BY <1>1, <1>2, <1>3, <1>4, <1>5, <1>6 DEF Inv, TypeOK, SourceTypeOK

(* Giving up leaves the channel to CaptureFails. *)
LEMMA CaptureGivesUpKeeps ==
  ASSUME Inv, CaptureGivesUp PROVE Inv'
<1>1. (SignalTypeOK /\ CounterTypeOK)'
  BY DEF Inv, TypeOK, SourceTypeOK, SignalTypeOK, CounterTypeOK,
         CaptureGivesUp, Goto, wait_complete, Busy
<1>2. CallTypeOK'
  BY DEF Inv, TypeOK, CallTypeOK, CaptureGivesUp, Goto, wait_complete, Busy
<1>3. DataTypeOK'
  BY DEF Inv, TypeOK, SourceTypeOK, CounterTypeOK, DataTypeOK,
         CaptureGivesUp, Goto, wait_complete, Busy
<1>4. LockInv'
  BY DEF Inv, TypeOK, CallTypeOK, LockInv, CaptureGivesUp, Goto,
         wait_complete, Busy
<1>5. (CallInv /\ SourceInv)'
  BY DEF Inv, TypeOK, SourceTypeOK, SignalTypeOK, CounterTypeOK, CallTypeOK,
         LockInv, CallInv, SourceInv, ReleasedMeansQuiet, CompletionIsCurrent,
         CaptureGivesUp, Goto, wait_complete, Busy
<1>6. ReleasedMeansQuiet'
  BY DEF Inv, TypeOK, SourceTypeOK, SignalTypeOK, CallTypeOK, DataTypeOK,
         LockInv, CallInv, SourceInv, ReleasedMeansQuiet, CompletionIsCurrent,
         CaptureGivesUp, Goto, wait_complete, Busy
<1>7. CompletionIsCurrent'
  BY DEF Inv, TypeOK, SourceTypeOK, SignalTypeOK, CallTypeOK, DataTypeOK,
         LockInv, CallInv, SourceInv, ReleasedMeansQuiet, CompletionIsCurrent,
         CaptureGivesUp, Goto, wait_complete, Busy
<1> QED
  BY <1>1, <1>2, <1>3, <1>4, <1>5, <1>6, <1>7 DEF Inv, TypeOK, SourceTypeOK

(* The transfer is terminated before the lock is released. *)
LEMMA CaptureFailsKeeps ==
  ASSUME Inv, CaptureFails PROVE Inv'
<1>1. SignalTypeOK'
  BY DEF Inv, TypeOK, SourceTypeOK, SignalTypeOK, CaptureFails, reset_stream,
         ResetEngine, Returns
<1>2. CounterTypeOK'
  BY DEF Inv, TypeOK, SourceTypeOK, CounterTypeOK, CaptureFails,
         reset_stream, ResetEngine, Returns
<1>3. CallTypeOK'
  BY DEF Inv, TypeOK, CallTypeOK, CaptureFails, reset_stream, ResetEngine,
         Returns
<1>4. DataTypeOK'
  BY DEF Inv, TypeOK, SourceTypeOK, CounterTypeOK, DataTypeOK, CaptureFails,
         reset_stream, ResetEngine, Returns
<1>5. LockInv'
  BY DEF Inv, TypeOK, CallTypeOK, LockInv, CaptureFails, reset_stream,
         ResetEngine, Returns
<1>6. CallInv'
  BY DEF Inv, TypeOK, SourceTypeOK, SignalTypeOK, CallTypeOK, LockInv,
         CallInv, SourceInv, ReleasedMeansQuiet, CompletionIsCurrent,
         CaptureFails, reset_stream, ResetEngine, Returns
<1>7. SourceInv'
  BY DEF Inv, TypeOK, SourceTypeOK, SignalTypeOK, CounterTypeOK, CallTypeOK,
         LockInv, CallInv, SourceInv, ReleasedMeansQuiet, CaptureFails,
         reset_stream, ResetEngine, Returns
<1>8. ReleasedMeansQuiet'
  BY DEF Inv, TypeOK, SourceTypeOK, SignalTypeOK, CallTypeOK, DataTypeOK,
         LockInv, CallInv, SourceInv, ReleasedMeansQuiet, CompletionIsCurrent,
         CaptureFails, reset_stream, ResetEngine, Returns
<1>9. CompletionIsCurrent'
  BY DEF Inv, TypeOK, SourceTypeOK, SignalTypeOK, CallTypeOK, DataTypeOK,
         LockInv, CallInv, SourceInv, ReleasedMeansQuiet, CompletionIsCurrent,
         CaptureFails, reset_stream, ResetEngine, Returns
<1> QED
  BY <1>1, <1>2, <1>3, <1>4, <1>5, <1>6, <1>7, <1>8, <1>9 DEF Inv, TypeOK,
         SourceTypeOK

(* ARM issues with an empty completion and owns the buffer from here. *)
LEMMA ArmIssueKeeps ==
  ASSUME Inv, ArmIssue PROVE Inv'
<1>1. (SignalTypeOK /\ CounterTypeOK)'
  BY DEF Inv, TypeOK, SourceTypeOK, SignalTypeOK, CounterTypeOK, ArmIssue,
         IssueAndCommand, Goto
<1>2. CallTypeOK'
  BY DEF Inv, TypeOK, CallTypeOK, ArmIssue, IssueAndCommand, Goto
<1>3. DataTypeOK'
  BY DEF Inv, TypeOK, SourceTypeOK, CounterTypeOK, DataTypeOK, ArmIssue,
         IssueAndCommand, Goto
<1>4. LockInv'
  BY DEF Inv, TypeOK, CallTypeOK, LockInv, ArmIssue, IssueAndCommand, Goto
<1>5. CallInv'
  BY DEF Inv, TypeOK, SourceTypeOK, SignalTypeOK, CallTypeOK, LockInv,
         CallInv, SourceInv, ReleasedMeansQuiet, CompletionIsCurrent, ArmIssue,
         IssueAndCommand, Goto
<1>6. SourceInv'
  BY DEF Inv, TypeOK, SourceTypeOK, SignalTypeOK, CounterTypeOK, CallTypeOK,
         LockInv, CallInv, SourceInv, ReleasedMeansQuiet, ArmIssue,
         IssueAndCommand, Goto
<1>7. (ReleasedMeansQuiet /\ CompletionIsCurrent)'
  BY DEF Inv, TypeOK, SourceTypeOK, SignalTypeOK, CallTypeOK, DataTypeOK,
         LockInv, CallInv, SourceInv, ReleasedMeansQuiet, CompletionIsCurrent,
         ArmIssue, IssueAndCommand, Goto
<1> QED
  BY <1>1, <1>2, <1>3, <1>4, <1>5, <1>6, <1>7 DEF Inv, TypeOK, SourceTypeOK

(* ARM returns with its transaction active. *)
LEMMA ArmConfirmedKeeps ==
  ASSUME Inv, ArmConfirmed PROVE Inv'
<1>1. (SignalTypeOK /\ CounterTypeOK /\ DataTypeOK)'
  BY DEF Inv, TypeOK, SourceTypeOK, SignalTypeOK, CounterTypeOK, DataTypeOK,
         ArmConfirmed, Returns
<1>2. CallTypeOK'
  BY DEF Inv, TypeOK, CallTypeOK, ArmConfirmed, Returns
<1>3. LockInv'
  BY DEF Inv, TypeOK, CallTypeOK, LockInv, ArmConfirmed, Returns
<1>4. (CallInv /\ SourceInv)'
  BY DEF Inv, TypeOK, SourceTypeOK, SignalTypeOK, CounterTypeOK, CallTypeOK,
         LockInv, CallInv, SourceInv, ReleasedMeansQuiet, CompletionIsCurrent,
         ArmConfirmed, Returns
<1>5. (ReleasedMeansQuiet /\ CompletionIsCurrent)'
  BY DEF Inv, TypeOK, SourceTypeOK, SignalTypeOK, CallTypeOK, DataTypeOK,
         LockInv, CallInv, SourceInv, ReleasedMeansQuiet, CompletionIsCurrent,
         ArmConfirmed, Returns
<1> QED
  BY <1>1, <1>2, <1>3, <1>4, <1>5 DEF Inv, TypeOK, SourceTypeOK

(* An ARM that is not confirmed cancels. *)
LEMMA ArmTimeoutKeeps ==
  ASSUME Inv, ArmTimeout PROVE Inv'
<1>1. (SignalTypeOK /\ CounterTypeOK /\ DataTypeOK)'
  BY DEF Inv, TypeOK, SourceTypeOK, SignalTypeOK, CounterTypeOK, DataTypeOK,
         ArmTimeout, Goto
<1>2. CallTypeOK'
  BY DEF Inv, TypeOK, CallTypeOK, ArmTimeout, Goto
<1>3. LockInv'
  BY DEF Inv, TypeOK, CallTypeOK, LockInv, ArmTimeout, Goto
<1>4. (CallInv /\ SourceInv)'
  BY DEF Inv, TypeOK, SourceTypeOK, SignalTypeOK, CounterTypeOK, CallTypeOK,
         LockInv, CallInv, SourceInv, ReleasedMeansQuiet, CompletionIsCurrent,
         ArmTimeout, Goto
<1>5. (ReleasedMeansQuiet /\ CompletionIsCurrent)'
  BY DEF Inv, TypeOK, SourceTypeOK, SignalTypeOK, CallTypeOK, DataTypeOK,
         LockInv, CallInv, SourceInv, ReleasedMeansQuiet, CompletionIsCurrent,
         ArmTimeout, Goto
<1> QED
  BY <1>1, <1>2, <1>3, <1>4, <1>5 DEF Inv, TypeOK, SourceTypeOK

(* An armed engine is drained into the issued descriptors. *)
LEMMA CancelAbortKeeps ==
  ASSUME Inv, NEW c \in Canceller, CancelAbort(c) PROVE Inv'
<1>1. SignalTypeOK'
  BY DEF Inv, TypeOK, SourceTypeOK, SignalTypeOK, CancelAbort, AbortIfQuiet,
         Goto
<1>2. (CounterTypeOK /\ DataTypeOK)'
  BY DEF Inv, TypeOK, SourceTypeOK, CounterTypeOK, DataTypeOK, CancelAbort,
         AbortIfQuiet, Goto
<1>3. CallTypeOK'
  BY DEF Inv, TypeOK, CallTypeOK, CancelAbort, AbortIfQuiet, Goto
<1>4. LockInv'
  BY DEF Inv, TypeOK, CallTypeOK, LockInv, CancelAbort, AbortIfQuiet, Goto
<1>5. CallInv'
  BY DEF Inv, TypeOK, SourceTypeOK, SignalTypeOK, CallTypeOK, LockInv,
         CallInv, SourceInv, ReleasedMeansQuiet, CompletionIsCurrent,
         CancelAbort, AbortIfQuiet, Goto
<1>6. SourceInv'
  BY DEF Inv, TypeOK, SourceTypeOK, SignalTypeOK, CounterTypeOK, CallTypeOK,
         LockInv, CallInv, SourceInv, ReleasedMeansQuiet, CancelAbort,
         AbortIfQuiet, Goto
<1>7. (ReleasedMeansQuiet /\ CompletionIsCurrent)'
  BY DEF Inv, TypeOK, SourceTypeOK, SignalTypeOK, CallTypeOK, DataTypeOK,
         LockInv, CallInv, SourceInv, ReleasedMeansQuiet, CompletionIsCurrent,
         CancelAbort, AbortIfQuiet, Goto
<1> QED
  BY <1>1, <1>2, <1>3, <1>4, <1>5, <1>6, <1>7 DEF Inv, TypeOK, SourceTypeOK

(* The completion a cancel takes says that the channel is idle. *)
LEMMA CancelWaitKeeps ==
  ASSUME Inv, NEW c \in Canceller, CancelWait(c) PROVE Inv'
<1>1. (SignalTypeOK /\ CounterTypeOK)'
  BY DEF Inv, TypeOK, SourceTypeOK, SignalTypeOK, CounterTypeOK, CancelWait,
         Goto
<1>2. CallTypeOK'
  BY DEF Inv, TypeOK, CallTypeOK, CancelWait, Goto
<1>3. DataTypeOK'
  BY DEF Inv, TypeOK, SourceTypeOK, CounterTypeOK, DataTypeOK, CancelWait,
         Goto
<1>4. LockInv'
  BY DEF Inv, TypeOK, CallTypeOK, LockInv, CancelWait, Goto
<1>5. CallInv'
  BY DEF Inv, TypeOK, SourceTypeOK, SignalTypeOK, CallTypeOK, LockInv,
         CallInv, SourceInv, ReleasedMeansQuiet, CompletionIsCurrent, CancelWait,
         Goto
<1>6. SourceInv'
  BY DEF Inv, TypeOK, SourceTypeOK, SignalTypeOK, CounterTypeOK, CallTypeOK,
         LockInv, CallInv, SourceInv, ReleasedMeansQuiet, CancelWait, Goto
<1>7. (ReleasedMeansQuiet /\ CompletionIsCurrent)'
  BY DEF Inv, TypeOK, SourceTypeOK, SignalTypeOK, CallTypeOK, DataTypeOK,
         LockInv, CallInv, SourceInv, ReleasedMeansQuiet, CompletionIsCurrent,
         CancelWait, Goto
<1> QED
  BY <1>1, <1>2, <1>3, <1>4, <1>5, <1>6, <1>7 DEF Inv, TypeOK, SourceTypeOK

(* A cancel that times out keeps the buffer owned. *)
LEMMA CancelTimeoutKeeps ==
  ASSUME Inv, NEW c \in Canceller, CancelTimeout(c) PROVE Inv'
<1>1. (SignalTypeOK /\ CounterTypeOK /\ DataTypeOK)'
  BY DEF Inv, TypeOK, SourceTypeOK, SignalTypeOK, CounterTypeOK, DataTypeOK,
         CancelTimeout, CancelReturns, Returns
<1>2. CallTypeOK'
  BY DEF Inv, TypeOK, CallTypeOK, CancelTimeout, CancelReturns, Returns
<1>3. LockInv'
  BY DEF Inv, TypeOK, CallTypeOK, LockInv, CancelTimeout, CancelReturns,
         Returns
<1>4. CallInv'
  BY DEF Inv, TypeOK, SourceTypeOK, SignalTypeOK, CallTypeOK, LockInv,
         CallInv, SourceInv, ReleasedMeansQuiet, CompletionIsCurrent,
         CancelTimeout, CancelReturns, Returns
<1>5. SourceInv'
  BY DEF Inv, TypeOK, SourceTypeOK, SignalTypeOK, CounterTypeOK, CallTypeOK,
         LockInv, CallInv, SourceInv, ReleasedMeansQuiet, CancelTimeout,
         CancelReturns, Returns
<1>6. (ReleasedMeansQuiet /\ CompletionIsCurrent)'
  BY DEF Inv, TypeOK, SourceTypeOK, SignalTypeOK, CallTypeOK, DataTypeOK,
         LockInv, CallInv, SourceInv, ReleasedMeansQuiet, CompletionIsCurrent,
         CancelTimeout, CancelReturns, Returns
<1> QED
  BY <1>1, <1>2, <1>3, <1>4, <1>5, <1>6 DEF Inv, TypeOK, SourceTypeOK

(* A cancel lets go of the buffer only after the reset. *)
LEMMA CancelFinishKeeps ==
  ASSUME Inv, NEW c \in Canceller, CancelFinish(c) PROVE Inv'
<1>1. /\ lock' = "none" /\ pc' = [pc EXCEPT ![c] = "idle"]
      /\ \E how \in {"ok", "error"} : outcome' = [outcome EXCEPT ![c] = how]
      /\ opened' \in BOOLEAN
      /\ lock = c /\ pc[c] = "check" /\ dma = "idle"
      /\ UNCHANGED <<completion, got, data, arms, dma, dma_ok, hist>>
  <2>1. lock = c /\ pc[c] = "check" /\ dma = "idle"
    BY DEF CancelFinish, Inv, LockInv, CallInv
  <2>2. \E ok \in BOOLEAN : CancelReturns(c, ok)
    BY DEF CancelFinish
  <2> QED
    BY <2>1, <2>2 DEF CancelFinish, CancelReturns, Returns
<1>2. \/ ResetEngine /\ active' = FALSE /\ cancelled' = TRUE
      \/ UNCHANGED <<eng, active, cancelled>>
  BY DEF CancelFinish, reset_stream
<1>3. (SignalTypeOK /\ CounterTypeOK)'
  <2>1. SignalTypeOK'
    BY <1>1, <1>2 DEF Inv, TypeOK, SourceTypeOK, SignalTypeOK, ResetEngine
  <2>2. CounterTypeOK'
    BY <1>1, <1>2 DEF Inv, TypeOK, SourceTypeOK, CounterTypeOK, ResetEngine
  <2> QED
    BY <2>1, <2>2
<1>4. CallTypeOK'
  <2>1. active' \in BOOLEAN /\ cancelled' \in BOOLEAN
    BY <1>2 DEF Inv, TypeOK, CallTypeOK
  <2> QED
    BY <1>1, <2>1 DEF Inv, TypeOK, CallTypeOK
<1>5. (DataTypeOK /\ LockInv)'
  BY <1>1 DEF Inv, TypeOK, CallTypeOK, DataTypeOK, LockInv
<1>6. CallInv'
  BY <1>1, <1>2 DEF Inv, TypeOK, CallTypeOK, LockInv, CallInv, ResetEngine
<1>7. SourceInv'
  BY <1>1, <1>2 DEF Inv, SourceInv, ResetEngine
<1>8. (ReleasedMeansQuiet /\ CompletionIsCurrent)'
  BY <1>1, <1>2 DEF Inv, TypeOK, CallTypeOK, ReleasedMeansQuiet,
                    CompletionIsCurrent, ResetEngine
<1> QED
  BY <1>3, <1>4, <1>5, <1>6, <1>7, <1>8 DEF Inv, TypeOK, SourceTypeOK

(* WAIT only looks at the flags. *)
LEMMA WaitBeginKeeps ==
  ASSUME Inv, WaitBegin PROVE Inv'
<1>1. (SignalTypeOK /\ CounterTypeOK /\ DataTypeOK)'
  BY DEF Inv, TypeOK, SourceTypeOK, SignalTypeOK, CounterTypeOK, DataTypeOK,
         WaitBegin, Returns, Enters
<1>2. CallTypeOK'
  BY DEF Inv, TypeOK, CallTypeOK, WaitBegin, Returns, Enters
<1>3. LockInv'
  BY DEF Inv, TypeOK, CallTypeOK, LockInv, WaitBegin, Returns, Enters
<1>4. CallInv'
  BY DEF Inv, TypeOK, SourceTypeOK, SignalTypeOK, CallTypeOK, LockInv,
         CallInv, SourceInv, ReleasedMeansQuiet, CompletionIsCurrent, WaitBegin,
         Returns, Enters
<1>5. SourceInv'
  BY DEF Inv, TypeOK, SourceTypeOK, SignalTypeOK, CounterTypeOK, CallTypeOK,
         LockInv, CallInv, SourceInv, ReleasedMeansQuiet, WaitBegin, Returns,
         Enters
<1>6. (ReleasedMeansQuiet /\ CompletionIsCurrent)'
  BY DEF Inv, TypeOK, SourceTypeOK, SignalTypeOK, CallTypeOK, DataTypeOK,
         LockInv, CallInv, SourceInv, ReleasedMeansQuiet, CompletionIsCurrent,
         WaitBegin, Returns, Enters
<1> QED
  BY <1>1, <1>2, <1>3, <1>4, <1>5, <1>6 DEF Inv, TypeOK, SourceTypeOK

(* WAIT may take the completion without the lock. *)
LEMMA WaitWokenKeeps ==
  ASSUME Inv, WaitWoken PROVE Inv'
<1>1. (SignalTypeOK /\ CounterTypeOK)'
  BY DEF Inv, TypeOK, SourceTypeOK, SignalTypeOK, CounterTypeOK, WaitWoken,
         Goto
<1>2. CallTypeOK'
  BY DEF Inv, TypeOK, CallTypeOK, WaitWoken, Goto
<1>3. DataTypeOK'
  BY DEF Inv, TypeOK, SourceTypeOK, CounterTypeOK, DataTypeOK, WaitWoken,
         Goto
<1>4. LockInv'
  BY DEF Inv, TypeOK, CallTypeOK, LockInv, WaitWoken, Goto
<1>5. CallInv'
  BY DEF Inv, TypeOK, SourceTypeOK, SignalTypeOK, CallTypeOK, LockInv,
         CallInv, SourceInv, ReleasedMeansQuiet, CompletionIsCurrent, WaitWoken,
         Goto
<1>6. SourceInv'
  BY DEF Inv, TypeOK, SourceTypeOK, SignalTypeOK, CounterTypeOK, CallTypeOK,
         LockInv, CallInv, SourceInv, ReleasedMeansQuiet, WaitWoken, Goto
<1>7. (ReleasedMeansQuiet /\ CompletionIsCurrent)'
  BY DEF Inv, TypeOK, SourceTypeOK, SignalTypeOK, CallTypeOK, DataTypeOK,
         LockInv, CallInv, SourceInv, ReleasedMeansQuiet, CompletionIsCurrent,
         WaitWoken, Goto
<1> QED
  BY <1>1, <1>2, <1>3, <1>4, <1>5, <1>6, <1>7 DEF Inv, TypeOK, SourceTypeOK

(* A signal at the second lock leaves the transaction active. *)
LEMMA WaitInterruptedKeeps ==
  ASSUME Inv, WaitInterrupted PROVE Inv'
<1>1. (SignalTypeOK /\ CounterTypeOK /\ DataTypeOK)'
  BY DEF Inv, TypeOK, SourceTypeOK, SignalTypeOK, CounterTypeOK, DataTypeOK,
         WaitInterrupted, Returns
<1>2. CallTypeOK'
  BY DEF Inv, TypeOK, CallTypeOK, WaitInterrupted, Returns
<1>3. LockInv'
  BY DEF Inv, TypeOK, CallTypeOK, LockInv, WaitInterrupted, Returns
<1>4. CallInv'
  BY DEF Inv, TypeOK, SourceTypeOK, SignalTypeOK, CallTypeOK, LockInv,
         CallInv, SourceInv, ReleasedMeansQuiet, CompletionIsCurrent,
         WaitInterrupted, Returns
<1>5. SourceInv'
  BY DEF Inv, TypeOK, SourceTypeOK, SignalTypeOK, CounterTypeOK, CallTypeOK,
         LockInv, CallInv, SourceInv, ReleasedMeansQuiet, WaitInterrupted,
         Returns
<1>6. (ReleasedMeansQuiet /\ CompletionIsCurrent)'
  BY DEF Inv, TypeOK, SourceTypeOK, SignalTypeOK, CallTypeOK, DataTypeOK,
         LockInv, CallInv, SourceInv, ReleasedMeansQuiet, CompletionIsCurrent,
         WaitInterrupted, Returns
<1> QED
  BY <1>1, <1>2, <1>3, <1>4, <1>5, <1>6 DEF Inv, TypeOK, SourceTypeOK

(* Good evidence says that the channel is idle and the source not armed. *)
LEMMA WaitRelockKeeps ==
  ASSUME Inv, WaitRelock PROVE Inv'
<1>1. (SignalTypeOK /\ CounterTypeOK /\ DataTypeOK)'
  BY DEF Inv, TypeOK, SourceTypeOK, SignalTypeOK, CounterTypeOK, DataTypeOK,
         WaitRelock, Returns, Goto, TakeLock, EvidenceGood, wait_complete, Busy
<1>2. CallTypeOK'
  <2>1. \/ /\ pc' = [pc EXCEPT !["wait"] = "idle"] /\ UNCHANGED lock
           /\ \E how \in {"ok", "cancelled"} :
                outcome' = [outcome EXCEPT !["wait"] = how]
        \/ /\ pc' = [pc EXCEPT !["wait"] = "abort"] /\ lock' = "wait"
           /\ UNCHANGED outcome
    BY DEF WaitRelock, Returns, Goto, TakeLock
  <2>2. active' \in BOOLEAN /\ cancelled' \in BOOLEAN /\ UNCHANGED <<opened, got>>
    BY DEF Inv, TypeOK, CallTypeOK, WaitRelock
  <2> QED
    BY <2>1, <2>2 DEF Inv, TypeOK, CallTypeOK
<1>3. LockInv'
  BY DEF Inv, TypeOK, CallTypeOK, LockInv, WaitRelock, Returns, Goto,
         TakeLock, EvidenceGood, wait_complete, Busy
<1>4. CallInv'
  BY DEF Inv, TypeOK, SourceTypeOK, SignalTypeOK, CallTypeOK, LockInv,
         CallInv, SourceInv, ReleasedMeansQuiet, CompletionIsCurrent, WaitRelock,
         Returns, Goto, TakeLock, EvidenceGood, wait_complete, Busy
<1>5. SourceInv'
  BY DEF Inv, TypeOK, SourceTypeOK, SignalTypeOK, CounterTypeOK, CallTypeOK,
         LockInv, CallInv, SourceInv, ReleasedMeansQuiet, WaitRelock, Returns,
         Goto, TakeLock, EvidenceGood, wait_complete, Busy
<1>6. ReleasedMeansQuiet'
  BY DEF Inv, TypeOK, SourceTypeOK, SignalTypeOK, CallTypeOK, DataTypeOK,
         LockInv, CallInv, SourceInv, ReleasedMeansQuiet, CompletionIsCurrent,
         WaitRelock, Returns, Goto, TakeLock, EvidenceGood, wait_complete, Busy
<1>7. CompletionIsCurrent'
  BY DEF Inv, TypeOK, SourceTypeOK, SignalTypeOK, CallTypeOK, DataTypeOK,
         LockInv, CallInv, SourceInv, ReleasedMeansQuiet, CompletionIsCurrent,
         WaitRelock, Returns, Goto, TakeLock, EvidenceGood, wait_complete, Busy
<1> QED
  BY <1>1, <1>2, <1>3, <1>4, <1>5, <1>6, <1>7 DEF Inv, TypeOK, SourceTypeOK

(* CANCEL and close enter under the lock. *)
LEMMA CancelBeginKeeps ==
  ASSUME Inv, CancelBegin PROVE Inv'
<1>1. (SignalTypeOK /\ CounterTypeOK /\ DataTypeOK)'
  BY DEF Inv, TypeOK, SourceTypeOK, SignalTypeOK, CounterTypeOK, DataTypeOK,
         CancelBegin, Goto, TakeLock, Enters
<1>2. CallTypeOK'
  BY DEF Inv, TypeOK, CallTypeOK, CancelBegin, Goto, TakeLock, Enters
<1>3. LockInv'
  BY DEF Inv, TypeOK, CallTypeOK, LockInv, CancelBegin, Goto, TakeLock,
         Enters
<1>4. CallInv'
  BY DEF Inv, TypeOK, SourceTypeOK, SignalTypeOK, CallTypeOK, LockInv,
         CallInv, SourceInv, ReleasedMeansQuiet, CompletionIsCurrent,
         CancelBegin, Goto, TakeLock, Enters
<1>5. SourceInv'
  BY DEF Inv, TypeOK, SourceTypeOK, SignalTypeOK, CounterTypeOK, CallTypeOK,
         LockInv, CallInv, SourceInv, ReleasedMeansQuiet, CancelBegin, Goto,
         TakeLock, Enters
<1>6. (ReleasedMeansQuiet /\ CompletionIsCurrent)'
  BY DEF Inv, TypeOK, SourceTypeOK, SignalTypeOK, CallTypeOK, DataTypeOK,
         LockInv, CallInv, SourceInv, ReleasedMeansQuiet, CompletionIsCurrent,
         CancelBegin, Goto, TakeLock, Enters
<1> QED
  BY <1>1, <1>2, <1>3, <1>4, <1>5, <1>6 DEF Inv, TypeOK, SourceTypeOK

(* Opening the device touches nothing else. *)
LEMMA OpenKeeps ==
  ASSUME Inv, open PROVE Inv'
<1>1. (SignalTypeOK /\ CounterTypeOK /\ DataTypeOK /\ CallTypeOK /\
        LockInv)'
  BY DEF Inv, TypeOK, SourceTypeOK, SignalTypeOK, CounterTypeOK, CallTypeOK,
         DataTypeOK, LockInv, open
<1>2. (CallInv /\ SourceInv /\ ReleasedMeansQuiet /\ CompletionIsCurrent)'
  BY DEF Inv, TypeOK, SourceTypeOK, SignalTypeOK, CounterTypeOK, CallTypeOK,
         DataTypeOK, LockInv, CallInv, SourceInv, ReleasedMeansQuiet,
         CompletionIsCurrent, open
<1> QED
  BY <1>1, <1>2 DEF Inv, TypeOK, SourceTypeOK

(* Close waits for every call to be out of the driver. *)
LEMMA CloseBeginKeeps ==
  ASSUME Inv, CloseBegin PROVE Inv'
<1>1. (SignalTypeOK /\ CounterTypeOK /\ DataTypeOK)'
  BY DEF Inv, TypeOK, SourceTypeOK, SignalTypeOK, CounterTypeOK, DataTypeOK,
         CloseBegin, Goto, TakeLock
<1>2. CallTypeOK'
  BY DEF Inv, TypeOK, CallTypeOK, CloseBegin, Goto, TakeLock
<1>3. LockInv'
  BY DEF Inv, TypeOK, CallTypeOK, LockInv, CloseBegin, Goto, TakeLock
<1>4. CallInv'
  BY DEF Inv, TypeOK, SourceTypeOK, SignalTypeOK, CallTypeOK, LockInv,
         CallInv, SourceInv, ReleasedMeansQuiet, CompletionIsCurrent, CloseBegin,
         Goto, TakeLock
<1>5. SourceInv'
  BY DEF Inv, TypeOK, SourceTypeOK, SignalTypeOK, CounterTypeOK, CallTypeOK,
         LockInv, CallInv, SourceInv, ReleasedMeansQuiet, CloseBegin, Goto,
         TakeLock
<1>6. (ReleasedMeansQuiet /\ CompletionIsCurrent)'
  BY DEF Inv, TypeOK, SourceTypeOK, SignalTypeOK, CallTypeOK, DataTypeOK,
         LockInv, CallInv, SourceInv, ReleasedMeansQuiet, CompletionIsCurrent,
         CloseBegin, Goto, TakeLock
<1> QED
  BY <1>1, <1>2, <1>3, <1>4, <1>5, <1>6 DEF Inv, TypeOK, SourceTypeOK

(* Every step keeps the invariant: one lemma per action. *)
LEMMA StepKeeps == Inv /\ [Next]_vars => Inv'
<1> SUFFICES ASSUME Inv, [Next]_vars PROVE Inv'
  OBVIOUS
<1>1. CASE Hardware
  BY <1>1, TriggerKeeps, EngineFinishKeeps, CompleteKeeps DEF Hardware
<1>2. CASE Capture
  BY <1>2, BeginKeeps, SubmitFailsKeeps, CaptureStartKeeps, CaptureDoneKeeps,
     CaptureGivesUpKeeps, CaptureFailsKeeps DEF Capture
<1>3. CASE Arm
  BY <1>3, BeginKeeps, SubmitFailsKeeps, ArmIssueKeeps, ArmConfirmedKeeps,
     ArmTimeoutKeeps DEF Arm
<1>4. CASE Wait
  BY <1>4, WaitBeginKeeps, WaitWokenKeeps, WaitInterruptedKeeps,
     WaitRelockKeeps DEF Wait
<1>5. ASSUME NEW c \in Canceller, Cancel(c) PROVE Inv'
  BY <1>5, CancelAbortKeeps, CancelWaitKeeps, CancelTimeoutKeeps,
     CancelFinishKeeps DEF Cancel
<1>6. CASE CancelBegin \/ open \/ CloseBegin
  BY <1>6, CancelBeginKeeps, OpenKeeps, CloseBeginKeeps
<1>7. CASE UNCHANGED vars
  BY <1>7 DEF vars, Inv, TypeOK, SourceTypeOK, SignalTypeOK, CounterTypeOK,
              CallTypeOK, DataTypeOK, LockInv, CallInv, SourceInv,
              ReleasedMeansQuiet, CompletionIsCurrent
<1> QED
  BY <1>1, <1>2, <1>3, <1>4, <1>5, <1>6, <1>7 DEF Next

(* The invariant holds in every reachable state. *)
LEMMA InvHolds == Spec => []Inv
BY InitHolds, StepKeeps, PTL DEF Spec
-----------------------------------------------------------------------------
(* Only the second half of WAIT moves a WAIT that was woken. *)
LEMMA OnlyWaitMoves ==
  ASSUME Inv, [Next]_vars, pc["wait"] = "relock", pc'["wait"] # "relock"
  PROVE  WaitRelock \/ WaitInterrupted
<1> USE DEF Inv, TypeOK, CallTypeOK
<1>1. ~UNCHANGED pc
  OBVIOUS
<1>2. ~Hardware /\ ~open
  BY <1>1 DEF Hardware, Trigger, EngineFinish, dma_complete, open
<1>3. ~Capture
  BY <1>1 DEF Capture, Begin, SubmitFails, CaptureStart, CaptureDone,
              CaptureGivesUp, CaptureFails, Goto, Returns
<1>4. ~Arm
  BY <1>1 DEF Arm, Begin, SubmitFails, ArmIssue, ArmConfirmed, ArmTimeout, Goto,
              Returns
<1>5. ASSUME NEW c \in Canceller PROVE ~Cancel(c)
  BY <1>1 DEF Cancel, CancelAbort, CancelWait, CancelTimeout, CancelFinish,
              CancelReturns, Goto, Returns
<1>6. ~CancelBegin /\ ~CloseBegin
  BY <1>1 DEF CancelBegin, CloseBegin, Goto
<1>7. ~WaitBegin /\ ~WaitWoken
  BY <1>1 DEF WaitBegin, WaitWoken, Enters, Goto
<1> QED
  BY <1>1, <1>2, <1>3, <1>4, <1>5, <1>6, <1>7 DEF Next, Wait, vars

(* The driver lets go of the buffer only when nothing can write to it,     *)
(* whichever of ARM, WAIT, CANCEL, CAPTURE and close gives up and wherever *)
(* the transfer is then (triggered_active in qcrate_dma.c).                *)
THEOREM ReleasedSafe == Spec => []ReleasedMeansQuiet
BY InvHolds, PTL DEF Inv

(* A pending completion is one, and of the transfer that ended last: no    *)
(* wait is satisfied by an earlier transfer (reinit_completion before the  *)
(* descriptors are issued).                                                *)
THEOREM CompletionSafe == Spec => []CompletionIsCurrent
BY InvHolds, PTL DEF Inv

(* A WAIT that succeeds returns the shot of the trigger that was accepted, *)
(* complete in the buffer, with no trigger missed (qcrate_wait_triggered). *)
THEOREM WaitSafe == Spec => WaitOkMeansShot
<1>1. ASSUME Inv, [Next]_vars, pc["wait"] = "relock", pc'["wait"] = "idle",
             outcome'["wait"] = "ok"
      PROVE  data = shot_id /\ data > 0 /\ dma = "idle" /\ missed = 0
  <2>1. WaitRelock \/ WaitInterrupted
    BY <1>1, OnlyWaitMoves
  <2>2. ~WaitInterrupted
    BY <1>1 DEF WaitInterrupted, Returns, Inv, TypeOK, CallTypeOK
  <2>3. wait_complete(TRUE) /\ EvidenceGood
    BY <1>1, <2>1, <2>2 DEF WaitRelock, Returns, Goto, Inv, TypeOK, CallTypeOK
  <2>4. engine = "idle" /\ dma = "idle" /\ trigger_seen /\ missed = 0
    BY <1>1, <2>3 DEF wait_complete, Busy, EvidenceGood, Inv, TypeOK, SourceTypeOK,
                      SignalTypeOK, SourceInv
  <2> QED
    BY <1>1, <2>4 DEF Inv, SourceInv
<1> QED
  BY <1>1, InvHolds, PTL DEF Spec, WaitOkMeansShot

-----------------------------------------------------------------------------
(* The clock crossing. *)

CdcInv == RegistersOK /\ OneWave /\ DataStable

(* The registers start in a state without a wave. *)
LEMMA CdcInitInv == CdcInit => CdcInv
BY DataAssumption
   DEF CdcInit, CdcInv, RegistersOK, OneWave, Falling, Climbing, DataStable

(* A source edge starts a wave only when none is left, and turns it round  *)
(* only when it has climbed all the way.                                   *)
LEMMA SrcEdgeInv ==
  ASSUME CdcInv, NEW send \in BOOLEAN, NEW bundle \in Data, SrcEdge(send, bundle)
  PROVE  CdcInv'
<1>1. RegistersOK'
  BY DEF CdcInv, RegistersOK, SrcEdge, SrcControl, dest
<1>2. OneWave'
  BY DEF CdcInv, RegistersOK, OneWave, Climbing, Falling, SrcEdge, SrcControl, src_rcv,
         dest
<1>3. DataStable'
  BY DEF CdcInv, RegistersOK, OneWave, Climbing, Falling, DataStable, SrcEdge,
         SrcControl, src_rcv, dest
<1> QED
  BY <1>1, <1>2, <1>3 DEF CdcInv

(* A destination edge moves the wave by one stage and samples the data the *)
(* source is holding.                                                      *)
LEMMA DestEdgeInv ==
  ASSUME CdcInv, NEW accept \in BOOLEAN, DestEdge(accept)
  PROVE  CdcInv'
<1>1. RegistersOK'
  BY DEF CdcInv, RegistersOK, DestEdge, DestSample, DestAck, dest_valid_o, src
<1>2. OneWave'
  BY DEF CdcInv, RegistersOK, OneWave, Climbing, Falling, DestEdge, DestAck, src
<1>3. DataStable'
  BY DEF CdcInv, RegistersOK, OneWave, Climbing, Falling, DataStable, DestEdge,
         DestSample, src
<1> QED
  BY <1>1, <1>2, <1>3 DEF CdcInv

(* Steps of neither clock.                                                 *)
LEMMA CdcStutterInv == CdcInv /\ UNCHANGED cdc_vars => CdcInv'
BY DEF CdcInv, RegistersOK, OneWave, Climbing, Falling, DataStable, cdc_vars, src, dest

(* Either edge keeps the invariant.                                        *)
LEMMA CdcNextInv == CdcInv /\ [CdcNext]_cdc_vars => CdcInv'
BY SrcEdgeInv, DestEdgeInv, CdcStutterInv DEF CdcNext

(* The invariant holds in every reachable state.                           *)
LEMMA CdcInvariance == CdcSpec => []CdcInv
BY CdcInitInv, CdcNextInv, PTL DEF CdcSpec

(* Every register keeps its type, for any set of bundles. *)
THEOREM RegistersTyped == CdcSpec => []RegistersOK
<1>1. CdcInv => RegistersOK
  BY DEF CdcInv
<1> QED
  BY <1>1, CdcInvariance, PTL

(* One wave at a time: the source never starts a second transfer while a   *)
(* synchronizer still holds part of the first.                             *)
THEOREM NoOverlap == CdcSpec => []OneWave
<1>1. CdcInv => OneWave
  BY DEF CdcInv
<1> QED
  BY <1>1, CdcInvariance, PTL

(* The bundle the destination reads is the one the source holds. *)
THEOREM StableWhileValid == CdcSpec => []DataStable
<1>1. CdcInv => DataStable
  BY DEF CdcInv
<1> QED
  BY <1>1, CdcInvariance, PTL

(* After reset the mailbox is empty.                                       *)
LEMMA InitBox == CdcInit => Box!Init
BY DEF CdcInit, InTransit, Box!Init

(* Accepting a bundle from the source is Put; every other source edge is   *)
(* invisible.                                                              *)
LEMMA SrcEdgeBox ==
  ASSUME CdcInv, NEW send \in BOOLEAN, NEW bundle \in Data, SrcEdge(send, bundle)
  PROVE  Box!Put \/ UNCHANGED <<InTransit, received>>
<1>1. CASE ~src_busy_o /\ send
  <2>1. ~src_send_q /\ ~dest_ack_q
    BY <1>1 DEF CdcInv, RegistersOK, OneWave, Climbing, Falling
  <2>2. InTransit = NoMail /\ InTransit' = bundle /\ UNCHANGED received
    BY <1>1, <2>1 DEF SrcEdge, SrcControl, InTransit, dest
  <2> QED
    BY <2>2 DEF Box!Put
<1>2. CASE ~(~src_busy_o /\ send)
  <2>1. UNCHANGED <<src_data_q, dest_ack_q, received>>
    BY <1>2 DEF SrcEdge, SrcControl, dest
  <2>2. InTransit' = InTransit
    <3>1. CASE src_send_q /\ src_rcv
      BY <1>2, <2>1, <3>1
         DEF SrcEdge, SrcControl, InTransit, src_rcv, CdcInv, RegistersOK, OneWave,
             Climbing
    <3>2. CASE ~(src_send_q /\ src_rcv)
      BY <1>2, <2>1, <3>2 DEF SrcEdge, SrcControl, InTransit
    <3> QED
      BY <3>1, <3>2
  <2> QED
    BY <2>1, <2>2
<1> QED
  BY <1>1, <1>2

(* The edge at which the receiver accepts is Take, and what it latches is  *)
(* the bundle in transit.                                                  *)
LEMMA DestEdgeBox ==
  ASSUME CdcInv, NEW accept \in BOOLEAN, DestEdge(accept)
  PROVE  Box!Take \/ UNCHANGED <<InTransit, received>>
<1>1. CASE dest_valid_o /\ accept
  <2>1. src_send_q /\ ~dest_ack_q /\ xpm_dest_data_q = src_data_q
    BY <1>1 DEF dest_valid_o, CdcInv, RegistersOK, OneWave, Climbing, Falling,
                DataStable
  <2>2. dest_ack_q' /\ received' = xpm_dest_data_q
    BY <1>1 DEF DestEdge, DestAck, dest_valid_o
  <2>3. InTransit = src_data_q /\ InTransit' = NoMail
    BY <2>1, <2>2 DEF InTransit
  <2>4. src_data_q # NoMail
    BY DataAssumption DEF CdcInv, RegistersOK
  <2> QED
    BY <2>1, <2>2, <2>3, <2>4 DEF Box!Take
<1>2. CASE ~(dest_valid_o /\ accept)
  <2>1. UNCHANGED <<received, src_send_q, src_data_q>>
    BY <1>2 DEF DestEdge, src
  <2>2. src_send_q => dest_ack_q' = dest_ack_q
    BY <1>2 DEF DestEdge, DestAck, dest_valid_o, CdcInv, RegistersOK, OneWave, Climbing
  <2> QED
    BY <2>1, <2>2 DEF InTransit
<1> QED
  BY <1>1, <1>2

(* Every edge of either clock is a step of the mailbox or none.            *)
LEMMA NextBox ==
  CdcInv /\ [CdcNext]_cdc_vars => [Box!Put \/ Box!Take]_<<InTransit, received>>
<1>1. UNCHANGED cdc_vars => UNCHANGED <<InTransit, received>>
  BY DEF cdc_vars, src, dest, InTransit
<1> QED
  BY <1>1, SrcEdgeBox, DestEdgeBox DEF CdcNext

(* The crossing implements the mailbox for bundles of any width: nothing   *)
(* is lost, repeated, torn or overtaken, whatever the two clocks do.       *)
THEOREM CdcRefinement == CdcSpec => ImplementsMailbox
BY InitBox, NextBox, CdcInvariance, PTL DEF CdcSpec, ImplementsMailbox, Box!Spec
=============================================================================

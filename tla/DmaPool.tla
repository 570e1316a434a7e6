------------------------------ MODULE DmaPool ------------------------------
(***************************************************************************)
(* The asynchronous finite-shot bank pool of the qcrate_dma kernel driver: *)
(* the pool worker thread, the pool ioctls, open and close of the device,  *)
(* the DMAEngine completion callback, and what the driver can observe of   *)
(* the PL stream engine and of the S2MM channel.                           *)
(*                                                                         *)
(* Everything the driver does with capture_lock held is atomic with        *)
(* respect to the other lock holders but not with respect to the hardware: *)
(* a code path that touches the hardware several times is split at those   *)
(* touches, and pc says how far its lock holder has got.  Paths that hold  *)
(* the lock but touch no hardware are one action.                          *)
(***************************************************************************)
EXTENDS StreamSource, FiniteSets

CONSTANTS
  MaxBanks,     \* QCRATE_DMA_MAX_POOL_BANKS
  MaxRuns       \* bound: accepted POOL_START calls

FaultKinds == {"reset", "submit", "arm", "drain", "status", "dma", "signal"}

ASSUME MaxBanksAssumption == MaxBanks \in Nat /\ MaxBanks >= 2
ASSUME BoundsAssumption == MaxRuns \in Nat /\ MaxTriggers \in Nat
ASSUME FaultsAssumption == Faults \subseteq FaultKinds

VARIABLES
  (* pool flags and geometry of struct qcrate_dma_dev *)
  opened, configured, running, stopping, faulted, starved,
  dma_active, filling_bank, bank_count, run_id, next_sequence,
  (* pool_banks[]: state, generation, sequence and the DEQUEUE result *)
  state, generation, sequence, result,
  (* ownership counters and accounting *)
  ready_banks, user_banks, free_banks, dequeued_banks, skipped_triggers,
  (* pool_events, the events the worker has taken, capture_lock, STOP *)
  events, taken, lock, stop_done, stop_result,
  (* control: the two lock holders that talk to hardware, and user calls *)
  pc, rel, stp, cls,
  (* the bank the descriptors point at, and what each bank holds *)
  dma_bank, buffer,
  (* history: the tokens userspace holds *)
  held

flags  == <<opened, configured, running, stopping, faulted, starved>>
geom   == <<bank_count, run_id>>
own    == <<dma_active, filling_bank>>
banks  == <<state, generation, sequence, result>>
counts == <<ready_banks, user_banks, free_banks, dequeued_banks, next_sequence>>
sync   == <<events, taken, lock, stop_done, stop_result>>
calls  == <<rel, stp, cls>>
chan   == <<dma, dma_bank, dma_ok, buffer>>
hist   == <<held, triggers, accepted>>

vars == <<flags, geom, own, banks, counts, skipped_triggers, sync, pc, calls,
          eng, chan, hist>>

Bank    == 0 .. MaxBanks - 1
NoBank  == -1                      \* QCRATE_DMA_BANK_NONE
Actor   == {"worker", "start"}     \* who may hold the lock across hardware
Event   == {"KICK", "DMA_DONE", "STOP"}
InPool(b) == b < bank_count
InState(s) == {b \in Bank : InPool(b) /\ state[b] = s}

Token == [bank : Bank, generation : Nat, sequence : Nat, run : Nat]
TokenOf(b) == [bank |-> b, generation |-> result[b].generation,
               sequence |-> result[b].sequence, run |-> result[b].run]
NoResult == [run |-> 0, generation |-> 0, sequence |-> 0, shot |-> 0]
-----------------------------------------------------------------------------
(* The hardware. *)

Trigger ==
  /\ TriggerEngine
  /\ UNCHANGED <<flags, geom, own, banks, counts, skipped_triggers, sync, pc,
                 calls, chan, held>>

EngineFinish ==
  /\ FinishEngine
  /\ buffer' = [buffer EXCEPT ![dma_bank] = Written]
  /\ UNCHANGED <<flags, geom, own, banks, counts, skipped_triggers, sync, pc,
                 calls, dma_bank, dma_ok, hist>>

(* Mutant: the callback wakes nobody. *)
DmaCompleteSilent ==
  /\ CallbackRuns
  /\ UNCHANGED <<flags, geom, own, banks, counts, skipped_triggers, sync, pc,
                 calls, eng, dma_bank, buffer, hist>>

(* qcrate_dma_complete; the completion of the synchronous captures is not  *)
(* part of the pool.                                                       *)
dma_complete ==
  /\ CallbackRuns
  /\ events' = IF dma_active THEN events \cup {"DMA_DONE"} ELSE events
  /\ UNCHANGED <<flags, geom, own, banks, counts, skipped_triggers, taken, lock,
                 stop_done, stop_result, pc, calls, eng, dma_bank, buffer, hist>>
-----------------------------------------------------------------------------
(* Steps shared by the lock holders. *)

account_missed == skipped_triggers' = skipped_triggers + missed

Goto(a, from, to) == pc[a] = from /\ pc' = [pc EXCEPT ![a] = to]

(* qcrate_pool_fault_locked *)
pool_fault == running' = FALSE /\ faulted' = TRUE /\ starved' = FALSE

(* Release capture_lock and go back to where the actor rests. *)
Unlock(a) ==
  /\ lock' = "none"
  /\ pc' = [pc EXCEPT ![a] = IF a = "worker" THEN "wait" ELSE "idle"]

(* Mutant: the search returns the number of the bank, not its index. *)
ArmTargetOffByOne(a) ==
  IF a = "start" THEN {0}
  ELSE {b + 1 : b \in {c \in InState("FREE") :
                         \A d \in InState("FREE") : c <= d}}

(* qcrate_pool_find_free_locked, and bank 0 for POOL_START *)
ArmTarget(a) ==
  IF a = "start" THEN {0}
  ELSE {b \in InState("FREE") : \A c \in InState("FREE") : b <= c}

(* qcrate_pool_arm_bank_locked, in five steps. *)
ArmAccount(a) ==
  /\ Goto(a, "arm", "arm_reset")
  /\ account_missed
  /\ UNCHANGED <<flags, geom, own, banks, counts, sync, calls, eng, chan, hist>>

ArmReset(a) ==
  /\ \/ reset_stream(TRUE) /\ Goto(a, "arm_reset", "arm_issue")
     \/ reset_stream(FALSE) /\ Goto(a, "arm_reset", "arm_failed")
  /\ UNCHANGED <<flags, geom, own, banks, counts, skipped_triggers, sync, calls,
                 chan, hist>>

(* Poison the bank, program the registers, clear DONE, submit and issue    *)
(* every descriptor, write ARM_TRIGGERED.                                  *)
ArmIssue(a) ==
  /\ Goto(a, "arm_issue", "arm_poll")
  /\ \E b \in ArmTarget(a) :
       /\ buffer' = [buffer EXCEPT ![b] = 0]
       /\ state' = [state EXCEPT ![b] = "FILLING"]
       /\ generation' = [generation EXCEPT ![b] = @ + 1]
       /\ filling_bank' = b /\ dma_bank' = b
  /\ free_banks' = free_banks - 1
  /\ dma_active' = TRUE
  /\ IssueAndCommand("armed")
  /\ UNCHANGED <<flags, geom, sequence, result, ready_banks, user_banks,
                 dequeued_banks, next_sequence, skipped_triggers, sync, calls,
                 hist>>

(* Descriptor preparation fails: the bank is poisoned, nothing is issued. *)
ArmSubmitFails(a) ==
  /\ "submit" \in Faults
  /\ Goto(a, "arm_issue", "arm_failed")
  /\ \E b \in ArmTarget(a) : buffer' = [buffer EXCEPT ![b] = 0]
  /\ SubmitAborted
  /\ UNCHANGED <<flags, geom, own, banks, counts, skipped_triggers, sync, calls,
                 dma, dma_bank, hist>>

ArmConfirmed(a) ==
  /\ pc[a] = "arm_poll" /\ engine = "armed"
  /\ starved' = FALSE
  /\ Unlock(a)
  /\ UNCHANGED <<opened, configured, running, stopping, faulted, geom, own,
                 banks, counts, skipped_triggers, events, taken, stop_done,
                 stop_result, calls, eng, chan, hist>>

(* ARMED was never seen: it did not come, or a trigger took it away before *)
(* the first poll.                                                         *)
ArmTimeout(a) ==
  /\ engine # "armed" \/ "arm" \in Faults
  /\ Goto(a, "arm_poll", "drain")
  /\ UNCHANGED <<flags, geom, own, banks, counts, skipped_triggers, sync, calls,
                 eng, chan, hist>>

ArmFailed(a) ==
  /\ pc[a] = "arm_failed"
  /\ pool_fault
  /\ Unlock(a)
  /\ UNCHANGED <<opened, configured, stopping, geom, own, banks, counts,
                 skipped_triggers, events, taken, stop_done, stop_result, calls,
                 eng, chan, hist>>

(* qcrate_pool_drain_locked: "drain" still waits for DMA_DONE, "drain_have"*)
(* was entered with the event already taken.  Only STOP and a failed arm   *)
(* call it.                                                                *)
DrainReturns(a, ok) ==
  pc' = [pc EXCEPT ![a] =
           IF a = "worker" /\ "STOP" \in taken
           THEN IF ok THEN "stop_ok" ELSE "stop_err"
           ELSE "arm_failed"]

DrainAbort(a) ==
  /\ pc[a] \in {"drain", "drain_have"}
  /\ pc' = [pc EXCEPT ![a] = IF @ = "drain" THEN "drain_wait" ELSE "drain_check"]
  /\ AbortIfQuiet
  /\ UNCHANGED <<flags, geom, own, banks, counts, skipped_triggers, sync, calls,
                 chan, hist>>

DrainWait(a) ==
  /\ "DMA_DONE" \in events
  /\ Goto(a, "drain_wait", "drain_check")
  /\ events' = events \ {"DMA_DONE"}
  /\ UNCHANGED <<flags, geom, own, banks, counts, skipped_triggers, taken, lock,
                 stop_done, stop_result, calls, eng, chan, hist>>

(* The event does not come in QCRATE_CANCEL_TIMEOUT_MS: the channel is     *)
(* slow, or nothing is left that could raise it.                           *)
DrainTimeout(a) ==
  /\ pc[a] = "drain_wait" /\ "DMA_DONE" \notin events
  /\ dma = "idle" \/ "drain" \in Faults
  /\ DrainReturns(a, FALSE)
  /\ UNCHANGED <<flags, geom, own, banks, counts, skipped_triggers, sync, calls,
                 eng, chan, hist>>

DrainCheck(a) ==
  /\ pc[a] = "drain_check"
  /\ \/ /\ wait_complete(TRUE) /\ dma_ok
        /\ account_missed
        /\ pc' = [pc EXCEPT ![a] = "drain_reset"]
     \/ /\ wait_complete(FALSE) \/ ~dma_ok
        /\ DrainReturns(a, FALSE)
        /\ UNCHANGED skipped_triggers
  /\ UNCHANGED <<flags, geom, own, banks, counts, sync, calls, eng, chan, hist>>

DrainReset(a) ==
  /\ pc[a] = "drain_reset"
  /\ \/ /\ reset_stream(TRUE)
        /\ state' = [state EXCEPT ![filling_bank] = "FREE"]
        /\ free_banks' = free_banks + 1
        /\ filling_bank' = NoBank /\ dma_active' = FALSE
        /\ DrainReturns(a, TRUE)
     \/ /\ reset_stream(FALSE)
        /\ DrainReturns(a, FALSE)
        /\ UNCHANGED <<state, free_banks, own>>
  /\ UNCHANGED <<flags, geom, generation, sequence, result, ready_banks,
                 user_banks, dequeued_banks, next_sequence, skipped_triggers,
                 sync, calls, chan, hist>>
-----------------------------------------------------------------------------
(* qcrate_pool_thread_fn *)

(* atomic_xchg of the event word; the lock is taken afterwards. *)
WorkerTakeEvents ==
  /\ events # {}
  /\ Goto("worker", "wait", "lock")
  /\ taken' = events /\ events' = {}
  /\ UNCHANGED <<flags, geom, own, banks, counts, skipped_triggers, lock,
                 stop_done, stop_result, calls, eng, chan, hist>>

(* The dma_done argument of qcrate_pool_drain_locked. *)
DrainEntry == IF "DMA_DONE" \in taken THEN "drain_have" ELSE "drain"

WorkerStop ==
  /\ lock = "none" /\ "STOP" \in taken
  /\ lock' = "worker" /\ running' = FALSE
  /\ \/ /\ dma_active
        /\ Goto("worker", "lock", DrainEntry)
        /\ UNCHANGED skipped_triggers
     \/ /\ ~dma_active /\ configured
        /\ Goto("worker", "lock", "stop_reset")
        /\ account_missed
     \/ /\ ~dma_active /\ ~configured
        /\ Goto("worker", "lock", "stop_ok")
        /\ UNCHANGED skipped_triggers
  /\ UNCHANGED <<opened, configured, stopping, faulted, starved, geom, own,
                 banks, counts, events, taken, stop_done, stop_result, calls,
                 eng, chan, hist>>

WorkerStopReset ==
  /\ \/ reset_stream(TRUE) /\ Goto("worker", "stop_reset", "stop_ok")
     \/ reset_stream(FALSE) /\ Goto("worker", "stop_reset", "stop_err")
  /\ UNCHANGED <<flags, geom, own, banks, counts, skipped_triggers, sync, calls,
                 chan, hist>>

(* Mutant: the freed banks are not counted. *)
DiscardUncounted ==
  /\ state' = [b \in Bank |-> IF b \in InState("READY") THEN "FREE" ELSE state[b]]
  /\ ready_banks' = ready_banks - Cardinality(InState("READY"))
  /\ UNCHANGED free_banks

(* qcrate_pool_discard_ready_locked *)
discard_ready ==
  /\ state' = [b \in Bank |-> IF b \in InState("READY") THEN "FREE" ELSE state[b]]
  /\ ready_banks' = ready_banks - Cardinality(InState("READY"))
  /\ free_banks' = free_banks + Cardinality(InState("READY"))

WorkerStopEnd ==
  /\ pc["worker"] \in {"stop_ok", "stop_err"}
  /\ stop_result' = pc["worker"]
  /\ \/ /\ pc["worker"] = "stop_ok"
        /\ discard_ready
        /\ UNCHANGED <<running, faulted>>
     \/ /\ pc["worker"] = "stop_err"
        /\ running' = FALSE /\ faulted' = TRUE
        /\ UNCHANGED <<state, ready_banks, free_banks>>
  /\ stopping' = FALSE /\ starved' = FALSE /\ stop_done' = TRUE
  /\ taken' = {}
  /\ Unlock("worker")
  /\ UNCHANGED <<opened, configured, geom, own, generation, sequence, result,
                 user_banks, dequeued_banks, next_sequence, skipped_triggers,
                 events, calls, eng, chan, hist>>

WorkerLock ==
  /\ lock = "none" /\ "STOP" \notin taken
  /\ lock' = "worker"
  /\ Goto("worker", "lock", IF "DMA_DONE" \in taken /\ dma_active
                            THEN "fin" ELSE "rearm")
  /\ UNCHANGED <<flags, geom, own, banks, counts, skipped_triggers, events,
                 taken, stop_done, stop_result, calls, eng, chan, hist>>

(* Mutant: TRIGGER_SEEN is not required. *)
FinalizeUntriggered ==
  /\ \/ wait_complete(TRUE) /\ dma_ok /\ Goto("worker", "fin", "fin_ok")
     \/ /\ wait_complete(FALSE) \/ ~dma_ok
        /\ Goto("worker", "fin", "fin_bad")
  /\ account_missed
  /\ UNCHANGED <<flags, geom, own, banks, counts, sync, calls, eng, chan, hist>>

(* qcrate_pool_finalize_locked: completion and evidence, then the reset. *)
Finalize ==
  /\ \/ /\ wait_complete(TRUE) /\ dma_ok /\ trigger_seen
        /\ Goto("worker", "fin", "fin_ok")
     \/ /\ wait_complete(FALSE) \/ ~dma_ok \/ ~trigger_seen
        /\ Goto("worker", "fin", "fin_bad")
  /\ account_missed
  /\ UNCHANGED <<flags, geom, own, banks, counts, sync, calls, eng, chan, hist>>

FinalizeReady ==
  /\ Goto("worker", "fin_ok", "rearm")
  /\ reset_stream(TRUE)
  /\ dma_active' = FALSE /\ filling_bank' = NoBank
  /\ state' = [state EXCEPT ![filling_bank] = "READY"]
  /\ sequence' = [sequence EXCEPT ![filling_bank] = next_sequence]
  /\ result' = [result EXCEPT ![filling_bank] =
                  [run |-> run_id, generation |-> generation[filling_bank],
                   sequence |-> next_sequence, shot |-> shot_id]]
  /\ next_sequence' = next_sequence + 1
  /\ ready_banks' = ready_banks + 1
  /\ UNCHANGED <<flags, geom, generation, user_banks, free_banks,
                 dequeued_banks, skipped_triggers, sync, calls, chan, hist>>

(* The fields of result that are filled in by then are never read. *)
FinalizeFailed ==
  /\ \/ Goto("worker", "fin_ok", "rearm") /\ reset_stream(FALSE)
     \/ Goto("worker", "fin_bad", "rearm") /\ \E ok \in BOOLEAN : reset_stream(ok)
  /\ dma_active' = FALSE /\ filling_bank' = NoBank
  /\ state' = [state EXCEPT ![filling_bank] = "FREE"]
  /\ result' = [result EXCEPT ![filling_bank] = NoResult]
  /\ free_banks' = free_banks + 1
  /\ pool_fault
  /\ UNCHANGED <<opened, configured, stopping, geom, generation, sequence,
                 ready_banks, user_banks, dequeued_banks, next_sequence,
                 skipped_triggers, sync, calls, chan, hist>>

(* Arm the lowest FREE bank, or note the starvation, or do neither. *)
Rearm ==
  LET wanted == running /\ ~faulted /\ ~dma_active
  IN
  /\ pc["worker"] = "rearm"
  /\ taken' = {}
  /\ \/ /\ wanted /\ InState("FREE") # {}
        /\ Goto("worker", "rearm", "arm")
        /\ UNCHANGED <<starved, lock>>
     \/ /\ wanted /\ InState("FREE") = {}
        /\ starved' = TRUE
        /\ Unlock("worker")
     \/ ~wanted /\ Unlock("worker") /\ UNCHANGED starved
  /\ UNCHANGED <<opened, configured, running, stopping, faulted, geom, own,
                 banks, counts, skipped_triggers, events, stop_done,
                 stop_result, calls, eng, chan, hist>>
-----------------------------------------------------------------------------
(* The file operations.  An ioctl that is refused changes nothing and is a *)
(* stuttering step.                                                        *)

open ==
  /\ ~opened /\ opened' = TRUE
  /\ UNCHANGED <<configured, running, stopping, faulted, starved, geom, own,
                 banks, counts, skipped_triggers, sync, pc, calls, eng, chan,
                 hist>>

UserMayCall == opened /\ cls = "none"

(* Mutants: a busy channel, or a lent bank, is forgotten. *)
OwnsButDma == running \/ stopping \/ ready_banks # 0 \/ user_banks # 0
OwnsButUser == running \/ stopping \/ dma_active \/ ready_banks # 0

(* qcrate_pool_owns_buffer_locked *)
pool_owns_buffer ==
  running \/ stopping \/ dma_active \/ ready_banks # 0 \/ user_banks # 0

(* qcrate_pool_start up to its call of qcrate_pool_arm_bank_locked. *)
pool_start(n) ==
  /\ UserMayCall /\ lock = "none" /\ run_id < MaxRuns
  /\ ~pool_owns_buffer
  /\ ResetEngine
  /\ configured' = TRUE /\ running' = TRUE /\ stopping' = FALSE
  /\ faulted' = FALSE /\ starved' = FALSE
  /\ dma_active' = FALSE /\ filling_bank' = NoBank
  /\ bank_count' = n /\ run_id' = run_id + 1 /\ next_sequence' = 1
  /\ ready_banks' = 0 /\ user_banks' = 0 /\ free_banks' = n
  /\ dequeued_banks' = 0 /\ skipped_triggers' = 0
  /\ state' = [b \in Bank |-> "FREE"]
  /\ sequence' = [b \in Bank |-> 0]
  /\ result' = [b \in Bank |-> NoResult]
  /\ lock' = "start" /\ Goto("start", "idle", "arm")
  /\ triggers' = 0 /\ accepted' = 0 /\ held' = {}
  /\ UNCHANGED <<opened, generation, events, taken, stop_done, stop_result,
                 calls, chan>>

(* qcrate_pool_find_ready_locked *)
Oldest(b) == \A c \in InState("READY") : sequence[b] <= sequence[c]

(* qcrate_pool_dequeue: its bounded wait only decides when this happens,   *)
(* the search is repeated under the lock.                                  *)
pool_dequeue ==
  /\ UserMayCall /\ lock = "none"
  /\ \E b \in InState("READY") :
       /\ Oldest(b)
       /\ state' = [state EXCEPT ![b] = "USER_OWNED"]
       /\ held' = held \cup {TokenOf(b)}
  /\ ready_banks' = ready_banks - 1
  /\ user_banks' = user_banks + 1
  /\ dequeued_banks' = dequeued_banks + 1
  /\ UNCHANGED <<flags, geom, own, generation, sequence, result, free_banks,
                 next_sequence, skipped_triggers, sync, pc, calls, eng, chan,
                 triggers, accepted>>

(* Mutant: the sequence number is not compared. *)
TokenUnsequenced(t) ==
  /\ InPool(t.bank) /\ t.run = run_id
  /\ state[t.bank] = "USER_OWNED"
  /\ t.generation = generation[t.bank]

(* The ownership-token check of qcrate_pool_release_bank. *)
TokenAccepted(t) ==
  /\ InPool(t.bank) /\ t.run = run_id
  /\ state[t.bank] = "USER_OWNED"
  /\ t.generation = generation[t.bank]
  /\ t.sequence = sequence[t.bank]

(* Wake the worker; mutant: no event is left for it. *)
KickForgotten == UNCHANGED events
Kick == events' = events \cup {"KICK"}

pool_release_bank(t) ==
  /\ UserMayCall /\ lock = "none" /\ rel # "wait" /\ rel # "woken"
  /\ TokenAccepted(t)
  /\ state' = [state EXCEPT ![t.bank] = "FREE"]
  /\ user_banks' = user_banks - 1
  /\ free_banks' = free_banks + 1
  /\ Kick
  /\ held' = held \ {t}
  /\ rel' = IF running /\ ~dma_active THEN "wait" ELSE "ok"
  /\ UNCHANGED <<flags, geom, own, generation, sequence, result, ready_banks,
                 dequeued_banks, next_sequence, skipped_triggers, taken, lock,
                 stop_done, stop_result, pc, stp, cls, eng, chan, triggers,
                 accepted>>

(* The unlocked tail of RELEASE: wait for the rearm, until the timeout or  *)
(* a signal, then read the flags once more.                                *)
ReleaseWoken ==
  /\ rel = "wait"
  /\ \/ (dma_active \/ faulted \/ ~running) /\ rel' = "woken"
     \/ ~(dma_active \/ faulted \/ ~running) /\ rel' = "etimedout"
  /\ UNCHANGED <<flags, geom, own, banks, counts, skipped_triggers, sync, pc,
                 stp, cls, eng, chan, hist>>

ReleaseReturn ==
  /\ rel = "woken"
  /\ rel' = IF faulted THEN "eio" ELSE IF dma_active THEN "ok" ELSE "eshutdown"
  /\ UNCHANGED <<flags, geom, own, banks, counts, skipped_triggers, sync, pc,
                 stp, cls, eng, chan, hist>>

(* Mutant: the worker is not told. *)
RequestStopUnsent ==
  /\ running' = FALSE /\ stopping' = TRUE
  /\ stop_result' = "none" /\ stop_done' = FALSE
  /\ UNCHANGED events

(* The locked part of qcrate_pool_stop. *)
RequestStop ==
  /\ running' = FALSE /\ stopping' = TRUE
  /\ stop_result' = "none" /\ stop_done' = FALSE
  /\ events' = events \cup {"STOP"}

pool_stop ==
  /\ UserMayCall /\ lock = "none" /\ stp = "idle"
  /\ configured /\ ~stopping
  /\ skipped_triggers <= MaxTriggers        \* bound: a STOP whose reset fails
  /\ RequestStop                            \*   counts the same triggers again
  /\ stp' = "wait"
  /\ UNCHANGED <<opened, configured, faulted, starved, geom, own, banks, counts,
                 skipped_triggers, taken, lock, pc, rel, cls, eng, chan, hist>>

(* STOP returns with the worker's result, or its own wait runs out first. *)
StopReturn ==
  /\ stp = "wait" /\ stp' = "idle"
  /\ UNCHANGED <<flags, geom, own, banks, counts, skipped_triggers, sync, pc,
                 rel, cls, eng, chan, hist>>

(* qcrate_dma_release runs once no other call is inside the driver: it     *)
(* stops a configured pool, then frees every bank whatever the outcome.  A *)
(* signal while qcrate_pool_stop waits for the lock makes STOP fail before *)
(* it is requested: close then leaves the pool running without an owner.   *)
CloseStop ==
  /\ UserMayCall /\ lock = "none"
  /\ pc["start"] = "idle" /\ stp = "idle" /\ rel \notin {"wait", "woken"}
  /\ \/ /\ configured /\ ~stopping
        /\ RequestStop
        /\ cls' = "stop"
     \/ /\ ~(configured /\ ~stopping) \/ "signal" \in Faults
        /\ cls' = "final"
        /\ UNCHANGED <<running, stopping, stop_result, stop_done, events>>
  /\ UNCHANGED <<opened, configured, faulted, starved, geom, own, banks, counts,
                 skipped_triggers, taken, lock, pc, rel, stp, eng, chan, hist>>

CloseStopped ==
  /\ cls = "stop" /\ cls' = "final"
  /\ UNCHANGED <<flags, geom, own, banks, counts, skipped_triggers, sync, pc,
                 rel, stp, eng, chan, hist>>

CloseFinal ==
  /\ cls = "final" /\ lock = "none"
  /\ cls' = "none" /\ opened' = FALSE /\ configured' = FALSE
  /\ state' = [b \in Bank |-> IF InPool(b) THEN "FREE" ELSE state[b]]
  /\ ready_banks' = 0 /\ user_banks' = 0 /\ free_banks' = bank_count
  /\ held' = {} /\ rel' = "ok"
  /\ UNCHANGED <<running, stopping, faulted, starved, geom, own, generation,
                 sequence, result, dequeued_banks, next_sequence,
                 skipped_triggers, sync, pc, stp, eng, chan, triggers, accepted>>
-----------------------------------------------------------------------------
Init ==
  /\ opened = FALSE /\ configured = FALSE /\ running = FALSE
  /\ stopping = FALSE /\ faulted = FALSE /\ starved = FALSE
  /\ dma_active = FALSE /\ filling_bank = NoBank
  /\ bank_count = 0 /\ run_id = 0 /\ next_sequence = 0
  /\ state = [b \in Bank |-> "FREE"]
  /\ generation = [b \in Bank |-> 0]
  /\ sequence = [b \in Bank |-> 0]
  /\ result = [b \in Bank |-> NoResult]
  /\ ready_banks = 0 /\ user_banks = 0 /\ free_banks = 0
  /\ dequeued_banks = 0 /\ skipped_triggers = 0
  /\ events = {} /\ taken = {} /\ lock = "none"
  /\ stop_done = FALSE /\ stop_result = "none"
  /\ pc = [a \in Actor |-> IF a = "worker" THEN "wait" ELSE "idle"]
  /\ rel = "ok" /\ stp = "idle" /\ cls = "none"
  /\ SourceInit
  /\ dma_bank = 0 /\ buffer = [b \in Bank |-> 0]
  /\ held = {}

Hardware == Trigger \/ EngineFinish \/ dma_complete

(* One step of the arm and drain helpers on behalf of lock holder a. *)
ArmOrDrain(a) ==
  \/ ArmAccount(a) \/ ArmReset(a) \/ ArmIssue(a) \/ ArmSubmitFails(a)
  \/ ArmConfirmed(a) \/ ArmTimeout(a) \/ ArmFailed(a)
  \/ DrainAbort(a) \/ DrainWait(a) \/ DrainTimeout(a)
  \/ DrainCheck(a) \/ DrainReset(a)

Worker ==
  \/ WorkerTakeEvents \/ WorkerStop \/ WorkerStopReset \/ WorkerStopEnd
  \/ WorkerLock \/ Finalize \/ FinalizeReady \/ FinalizeFailed \/ Rearm
  \/ ArmOrDrain("worker")

(* The RELEASE tokens that have every field in the range of the run; the   *)
(* caller may present any of them, granted or not.                         *)
Presented ==
  [bank : Bank, generation : {generation[b] : b \in Bank} \cup {0},
   sequence : 0 .. next_sequence, run : 0 .. run_id]

User ==
  \/ open
  \/ \E n \in 2 .. MaxBanks : pool_start(n)
  \/ ArmOrDrain("start")
  \/ pool_dequeue
  \/ \E t \in Presented : pool_release_bank(t)
  \/ ReleaseWoken \/ ReleaseReturn
  \/ pool_stop \/ StopReturn
  \/ CloseStop \/ CloseStopped \/ CloseFinal

Next == Hardware \/ Worker \/ User

Spec == Init /\ [][Next]_vars
-----------------------------------------------------------------------------
(* Properties. *)

Pcs == {"wait", "idle", "lock", "arm", "arm_reset", "arm_issue", "arm_poll",
        "arm_failed", "drain", "drain_have", "drain_wait", "drain_check",
        "drain_reset", "stop_reset", "stop_ok", "stop_err", "fin", "fin_ok",
        "fin_bad", "rearm"}

(* Every field of qcrate_dma_dev, of the call state and of the hardware    *)
(* keeps its type.                                                         *)
FlagsTypeOK ==
  /\ opened \in BOOLEAN /\ configured \in BOOLEAN /\ running \in BOOLEAN
  /\ stopping \in BOOLEAN /\ faulted \in BOOLEAN /\ starved \in BOOLEAN
  /\ dma_active \in BOOLEAN

GeometryTypeOK ==
  /\ filling_bank \in Bank \cup {NoBank}
  /\ bank_count \in {0} \cup 2 .. MaxBanks
  /\ run_id \in Nat /\ next_sequence \in Nat
  /\ dma_bank \in Bank

BanksTypeOK ==
  /\ state \in [Bank -> {"FREE", "FILLING", "READY", "USER_OWNED"}]
  /\ generation \in [Bank -> Nat] /\ sequence \in [Bank -> Nat]
  /\ result \in [Bank -> [run : Nat, generation : Nat, sequence : Nat,
                          shot : Nat]]
  /\ buffer \in [Bank -> Nat]

CountsTypeOK ==
  /\ ready_banks \in Int /\ user_banks \in Int /\ free_banks \in Int
  /\ dequeued_banks \in Nat /\ skipped_triggers \in Nat

ControlTypeOK ==
  /\ events \in SUBSET Event /\ taken \in SUBSET Event
  /\ lock \in Actor \cup {"none"}
  /\ stop_done \in BOOLEAN /\ stop_result \in {"none", "stop_ok", "stop_err"}
  /\ pc \in [Actor -> Pcs]
  /\ rel \in {"ok", "wait", "woken", "eio", "eshutdown", "etimedout"}
  /\ stp \in {"idle", "wait"} /\ cls \in {"none", "stop", "final"}

TypeOK ==
  /\ FlagsTypeOK /\ GeometryTypeOK /\ BanksTypeOK /\ CountsTypeOK
  /\ ControlTypeOK /\ SourceTypeOK

(* The counters POOL_STATUS reports equal the number of banks in each      *)
(* state for as long as the pool is configured, although START, DEQUEUE,   *)
(* RELEASE, STOP and the worker each update them on their own paths.       *)
CountsExact ==
  configured =>
    /\ ready_banks = Cardinality(InState("READY"))
    /\ user_banks = Cardinality(InState("USER_OWNED"))
    /\ free_banks = Cardinality(InState("FREE"))

(* "Unread measurement data is never overwritten silently": a bank that is *)
(* READY or USER_OWNED still holds the samples of the shot its metadata    *)
(* names, whatever STOP, close, late completions and rearms do meanwhile.  *)
UnreadDataIntact ==
  \A b \in Bank : state[b] \in {"READY", "USER_OWNED"} =>
                    buffer[b] = result[b].shot /\ buffer[b] # 0

(* The tokens RELEASE would accept are exactly the ones DEQUEUE granted    *)
(* and userspace has not returned: no stale, duplicate or cross-run token  *)
(* gives a bank back.                                                      *)
TokensExact ==
  configured =>
    {t \in Presented : TokenAccepted(t)} = held

(* The S2MM channel writes only to the bank the driver has in FILLING, and *)
(* the driver knows of it; only close (configured is FALSE) may forget the *)
(* state of the bank, never that the channel is busy.                      *)
DmaOwnsFilling ==
  dma # "idle" =>
    /\ dma_active /\ filling_bank = dma_bank
    /\ configured => state[dma_bank] = "FILLING"

(* qcrate_reset_stream is never issued while descriptors are issued: the   *)
(* source would stop in the middle of a packet and S2MM would wait forever.*)
NeverResetUnderDma ==
  [][engine # "idle" /\ engine' = "idle" /\ dma = "issued"
       => dma' = "complete"]_vars

(* The pool implements the queue of shots its interface describes.  A pool *)
(* that has been closed shows an empty queue.                              *)
Queue == INSTANCE ShotQueue WITH
  run <- run_id,
  produced <- IF configured THEN next_sequence - 1 ELSE 0,
  available <- {sequence[b] : b \in {c \in InState("READY") : configured}},
  lent <- {sequence[b] : b \in {c \in InState("USER_OWNED") : configured}}
ImplementsQueue == Queue!Spec

(* Scheduling: the worker, a START inside the driver, the waits of RELEASE *)
(* and close, an issued transfer and its callback all make progress.       *)
(* Triggers and new calls need not happen.                                 *)
Fairness ==
  /\ WF_vars(Worker) /\ WF_vars(ArmOrDrain("start"))
  /\ WF_vars(EngineFinish) /\ WF_vars(dma_complete)
  /\ WF_vars(ReleaseWoken) /\ WF_vars(ReleaseReturn) /\ WF_vars(StopReturn)
  /\ WF_vars(CloseStopped) /\ WF_vars(CloseFinal)

FairSpec == Spec /\ Fairness

(* Every STOP, from the ioctl or from close, is carried out by the worker  *)
(* even when it meets an armed bank, a running shot or a pending event.    *)
StopCompletes == stopping ~> ~stopping

(* A running pool that has a FREE bank arms it: a RELEASE that ends        *)
(* starvation is never forgotten by the worker.                            *)
FreeBankIsArmed ==
  (running /\ InState("FREE") # {}) ~> (dma_active \/ ~running)

(* A shot the engine accepted becomes a numbered bank unless the pool      *)
(* stops or faults.                                                        *)
AcceptedShotDelivered ==
  \A n \in 1 .. MaxTriggers :
    (engine = "shot" /\ running /\ next_sequence = n)
      ~> (next_sequence > n \/ ~running)
=============================================================================

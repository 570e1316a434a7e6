------------------------------ MODULE Streamer ------------------------------
(***************************************************************************)
(* The sustained triggered mode of qcrate-streamer: an acquisition thread  *)
(* that starts one sequence per shot and dequeues its bank, a sender       *)
(* thread that packetizes and releases banks, the bounded token queue      *)
(* between them, and the main thread that starts and stops the DMA pool.   *)
(*                                                                         *)
(* The pool is reduced to what its ioctls show: bank states, the transfer  *)
(* in flight, the worker that finalizes and rearms inside one lock, and    *)
(* the unlocked tail of RELEASE.  The sequencer raises one trigger per     *)
(* sequence.                                                               *)
(***************************************************************************)
EXTENDS Integers, Sequences, FiniteSets

CONSTANTS
  Banks,     \* bank_count
  Shots,     \* triggered_shots, and the bound of a run with a duration
  PerShot,   \* packets of one shot
  Faults     \* what may go wrong

FaultKinds == {"start", "thread", "sequence", "dma", "timeout", "evidence",
               "send", "stop", "signal"}

ASSUME SizesAssumption ==
  Banks \in Nat /\ Banks >= 2 /\ Shots \in Nat \ {0} /\ PerShot \in Nat \ {0}
ASSUME StreamerFaultsAssumption == Faults \subseteq FaultKinds

VARIABLES
  (* the pool: bank states and contents, transfer, flags, worker, event *)
  bank, content, active, armed, running, faulted, worker, kick,
  (* the sequencer and its triggers *)
  sequencer, triggers, missed,
  (* struct bank_queue *)
  queue, producer_done, failed, asleep,
  (* struct sustained_context and its options *)
  acquisition_complete, acquired_shots, transmitted_shots, packet_sequence,
  stop_requested, duration_mode,
  (* control: the three threads, the bank each one holds, RELEASE calls *)
  pc, hold, call, part, result,
  (* the datagrams accepted by sendmsg() *)
  wire

pool    == <<bank, content, active, armed, running, faulted, worker, kick>>
trigger == <<sequencer, triggers, missed>>
tokens  == <<queue, producer_done, failed, asleep>>
totals  == <<acquisition_complete, acquired_shots, transmitted_shots,
             packet_sequence, stop_requested, duration_mode>>
control == <<pc, hold, call, part, result>>
vars    == <<pool, trigger, tokens, totals, control, wire>>

Bank   == 1 .. Banks
NoBank == 0
Worker == {"acq", "snd"}         \* the two threads that hold banks
InState(s) == {b \in Bank : bank[b] = s}

Goto(t, from, to) == pc[t] = from /\ pc' = [pc EXCEPT ![t] = to]
Lowest(S) == CHOOSE b \in S : \A c \in S : b <= c
Oldest(S) == CHOOSE b \in S : \A c \in S : content[b] <= content[c]

(* A blocking call fails by itself, or because a signal interrupts it: the *)
(* handlers are installed without SA_RESTART.                              *)
MayFail(kind) == kind \in Faults \/ stop_requested
-----------------------------------------------------------------------------
(* Sequencer, stream engine and pool worker. *)

SequenceFires ==
  /\ sequencer = "running" /\ sequencer' = "fired"
  /\ triggers' = triggers + 1
  /\ \/ armed /\ armed' = FALSE /\ UNCHANGED missed
     \/ ~armed /\ missed' = TRUE /\ UNCHANGED armed
  /\ UNCHANGED <<bank, content, active, running, faulted, worker, kick, tokens,
                 totals, control, wire>>

SequenceEnds ==
  /\ sequencer = "fired" /\ sequencer' = "idle"
  /\ UNCHANGED <<pool, triggers, missed, tokens, totals, control, wire>>

(* The samples land in the bank, then the worker finalizes it. *)
Finalize ==
  /\ worker = "idle" /\ active /\ ~armed
  /\ \E b \in InState("filling") :
       \/ /\ content' = [content EXCEPT ![b] = triggers]
          /\ bank' = [bank EXCEPT ![b] = "ready"]
          /\ UNCHANGED <<running, faulted>>
       \/ /\ "dma" \in Faults
          /\ bank' = [bank EXCEPT ![b] = "free"]
          /\ running' = FALSE /\ faulted' = TRUE
          /\ UNCHANGED content
  /\ active' = FALSE /\ worker' = "rearm"
  /\ UNCHANGED <<armed, kick, trigger, tokens, totals, control, wire>>

TakeKick ==
  /\ worker = "idle" /\ kick
  /\ kick' = FALSE /\ worker' = "rearm"
  /\ UNCHANGED <<bank, content, active, armed, running, faulted, trigger, tokens,
                 totals, control, wire>>

(* The lowest FREE bank is armed, or the pool starves, or arming fails. *)
CanRearm == running /\ ~faulted /\ ~active /\ InState("free") # {}

Rearm ==
  /\ worker = "rearm" /\ worker' = "idle"
  /\ \/ /\ CanRearm
        /\ bank' = [bank EXCEPT ![Lowest(InState("free"))] = "filling"]
        /\ active' = TRUE /\ armed' = TRUE
        /\ UNCHANGED <<running, faulted>>
     \/ /\ CanRearm /\ "dma" \in Faults
        /\ running' = FALSE /\ faulted' = TRUE
        /\ UNCHANGED <<bank, active, armed>>
     \/ /\ ~CanRearm
        /\ UNCHANGED <<bank, active, armed, running, faulted>>
  /\ UNCHANGED <<content, kick, trigger, tokens, totals, control, wire>>

Hardware == SequenceFires \/ SequenceEnds \/ Finalize \/ TakeKick \/ Rearm
-----------------------------------------------------------------------------
(* POOL_RELEASE by thread t: free the bank under the lock, and when the    *)
(* pool is starved wait for the rearm and read the flags again.  A signal  *)
(* at the lock leaves the bank with the caller.                            *)

FreeHeld(t) == bank' = [bank EXCEPT ![hold[t]] = "free"]

Release(t) ==
  /\ call[t] = "none"
  /\ \/ /\ worker = "idle"
        /\ FreeHeld(t)
        /\ kick' = TRUE
        /\ hold' = [hold EXCEPT ![t] = NoBank]
        /\ call' = [call EXCEPT ![t] = IF running /\ ~active THEN "wait" ELSE "ok"]
     \/ /\ stop_requested
        /\ call' = [call EXCEPT ![t] = "error"]
        /\ UNCHANGED <<bank, kick, hold>>
  /\ UNCHANGED <<content, active, armed, running, faulted, worker>>

ReleaseWoken(t) ==
  /\ call[t] = "wait"
  /\ \/ (active \/ faulted \/ ~running) /\ call' = [call EXCEPT ![t] = "woken"]
     \/ /\ MayFail("timeout")
        /\ call' = [call EXCEPT ![t] = "error"]
  /\ UNCHANGED <<pool, trigger, tokens, totals, pc, hold, part, result, wire>>

ReleaseReturn(t) ==
  /\ call[t] = "woken"
  /\ call' = [call EXCEPT ![t] = IF active /\ ~faulted THEN "ok" ELSE "error"]
  /\ UNCHANGED <<pool, trigger, tokens, totals, pc, hold, part, result, wire>>

Returned(t, how) == call[t] = how /\ call' = [call EXCEPT ![t] = "none"]
-----------------------------------------------------------------------------
(* The queue: condition variables by the set of threads asleep on them. *)

(* pthread_cond_broadcast on both conditions *)
pipeline_fail == failed' = TRUE /\ asleep' = {} /\ UNCHANGED <<queue, producer_done>>

(* Mutant: nobody is told. *)
FinishSilently == producer_done' = TRUE /\ UNCHANGED <<queue, failed, asleep>>
queue_finish ==
  /\ producer_done' = TRUE /\ asleep' = asleep \ {"snd"}
  /\ UNCHANGED <<queue, failed>>

(* queue_init *)
Capacity == Banks
-----------------------------------------------------------------------------
(* acquisition_thread *)

AcqFails(from) ==
  /\ Goto("acq", from, "finish") /\ pipeline_fail
  /\ UNCHANGED <<pool, trigger, totals, hold, call, part, result, wire>>

(* sequence_require_committed_idle *)
AcqRequire ==
  \/ /\ Goto("acq", "require", "top")
     /\ UNCHANGED <<pool, trigger, tokens, totals, hold, call, part, result, wire>>
  \/ MayFail("sequence") /\ AcqFails("require")

(* The end of a counted run, and the bound of a timed one. *)
AllAcquired == acquired_shots >= Shots

AcqTop ==
  /\ pc["acq"] = "top"
  /\ \/ /\ AllAcquired \/ (duration_mode /\ acquired_shots > 0)
        /\ acquisition_complete' = TRUE
        /\ Goto("acq", "top", "finish")
     \/ /\ ~AllAcquired
        /\ Goto("acq", "top", IF stop_requested \/ failed THEN "finish" ELSE "arm")
        /\ UNCHANGED acquisition_complete
  /\ UNCHANGED <<pool, trigger, tokens, acquired_shots, transmitted_shots,
                 packet_sequence, stop_requested, duration_mode, hold, call, part,
                 result, wire>>

(* wait_pool_armed: STATUS polls; a stop signal may interrupt each of them *)
(* at the driver's lock; mutant: any running pool will do.                 *)
ArmedUnchecked == running
PoolArmed == active /\ armed

AcqArmed ==
  \/ /\ worker = "idle" /\ PoolArmed
     /\ Goto("acq", "arm", "start")
     /\ UNCHANGED <<pool, trigger, tokens, totals, hold, call, part, result, wire>>
  \/ /\ \/ /\ worker = "idle" /\ ~PoolArmed
           /\ faulted \/ ~running \/ MayFail("timeout")
        \/ stop_requested
     /\ AcqFails("arm")

(* sequence_arm_start; a call that failed may have started the sequence. *)
AcqStart ==
  /\ \/ /\ Goto("acq", "start", "dequeue")
        /\ sequencer' = "running"
        /\ UNCHANGED tokens
     \/ /\ MayFail("sequence")
        /\ Goto("acq", "start", "finish")
        /\ sequencer' \in {"idle", "running"}
        /\ pipeline_fail
  /\ UNCHANGED <<pool, triggers, missed, totals, hold, call, part, result, wire>>

(* POOL_DEQUEUE: the oldest READY bank, or an error; a stop signal may     *)
(* interrupt it with a bank READY.                                         *)
AcqDequeue ==
  \/ /\ worker = "idle" /\ InState("ready") # {}
     /\ LET b == Oldest(InState("ready"))
        IN  /\ bank' = [bank EXCEPT ![b] = "user"]
            /\ hold' = [hold EXCEPT !["acq"] = b]
     /\ Goto("acq", "dequeue", "check")
     /\ UNCHANGED <<content, active, armed, running, faulted, worker, kick,
                    trigger, tokens, totals, call, part, result, wire>>
  \/ /\ \/ InState("ready") = {} /\ (faulted \/ ~running \/ MayFail("timeout"))
        \/ stop_requested
     /\ AcqFails("dequeue")

(* validate_bank, the monotonicity check and sequence_wait_idle: any of    *)
(* them may send the bank back and end the run.                            *)
EvidenceFails == "evidence" \in Faults
sequence_wait_idle(ok) == IF ok THEN sequencer = "idle" ELSE MayFail("sequence")

AcqCheck ==
  /\ \/ sequence_wait_idle(TRUE) /\ Goto("acq", "check", "push")
     \/ (EvidenceFails \/ sequence_wait_idle(FALSE)) /\ Goto("acq", "check", "drop")
  /\ UNCHANGED <<pool, trigger, tokens, totals, hold, call, part, result, wire>>

(* queue_push, with its wait for a place; the shot is counted after the    *)
(* unlock, when the sender may be done with it already.                    *)
AcqPush ==
  /\ pc["acq"] = "push" /\ "acq" \notin asleep
  /\ \/ /\ failed
        /\ Goto("acq", "push", "drop")
        /\ UNCHANGED <<tokens, hold>>
     \/ /\ ~failed /\ Len(queue) >= Capacity
        /\ asleep' = asleep \cup {"acq"}
        /\ UNCHANGED <<queue, producer_done, failed, hold, pc>>
     \/ /\ ~failed /\ Len(queue) < Capacity
        /\ queue' = Append(queue, hold["acq"])
        /\ asleep' = asleep \ {"snd"}
        /\ hold' = [hold EXCEPT !["acq"] = NoBank]
        /\ Goto("acq", "push", "count")
        /\ UNCHANGED <<producer_done, failed>>
  /\ UNCHANGED <<pool, trigger, totals, call, part, result, wire>>

AcqCount ==
  /\ Goto("acq", "count", "top")
  /\ acquired_shots' = acquired_shots + 1
  /\ UNCHANGED <<pool, trigger, tokens, acquisition_complete, transmitted_shots,
                 packet_sequence, stop_requested, duration_mode, hold, call, part,
                 result, wire>>

(* The bank goes back, its result is ignored, then pipeline_fail; after a  *)
(* refused push the queue has failed already.                              *)
AcqDrop ==
  \/ /\ Goto("acq", "drop", "dropping") /\ Release("acq")
     /\ UNCHANGED <<trigger, tokens, totals, part, result, wire>>
  \/ /\ Goto("acq", "dropping", "finish")
     /\ \E how \in {"ok", "error"} : Returned("acq", how)
     /\ pipeline_fail
     /\ UNCHANGED <<pool, trigger, totals, hold, part, result, wire>>

AcqFinish ==
  /\ Goto("acq", "finish", "exited") /\ queue_finish
  /\ UNCHANGED <<pool, trigger, totals, hold, call, part, result, wire>>

Acquisition ==
  \/ AcqRequire \/ AcqTop \/ AcqArmed \/ AcqStart \/ AcqDequeue \/ AcqCheck
  \/ AcqPush \/ AcqCount \/ AcqDrop \/ AcqFinish
-----------------------------------------------------------------------------
(* sender_thread *)

(* queue_pop, with its wait for a token *)
SndPop ==
  /\ pc["snd"] = "pop" /\ "snd" \notin asleep
  /\ \/ /\ failed
        /\ Goto("snd", "pop", "exited")
        /\ UNCHANGED <<tokens, hold, part>>
     \/ /\ ~failed /\ queue # <<>>
        /\ hold' = [hold EXCEPT !["snd"] = Head(queue)]
        /\ queue' = Tail(queue)
        /\ asleep' = asleep \ {"acq"}
        /\ part' = 0
        /\ Goto("snd", "pop", "send")
        /\ UNCHANGED <<producer_done, failed>>
     \/ /\ ~failed /\ queue = <<>> /\ producer_done
        /\ Goto("snd", "pop", "end")
        /\ UNCHANGED <<tokens, hold, part>>
     \/ /\ ~failed /\ queue = <<>> /\ ~producer_done
        /\ asleep' = asleep \cup {"snd"}
        /\ UNCHANGED <<queue, producer_done, failed, pc, hold, part>>
  /\ UNCHANGED <<pool, trigger, totals, call, result, wire>>

(* One datagram is accepted, or nothing is sent. *)
emit_udp(datagram, ok) ==
  \/ ok /\ wire' = Append(wire, datagram)
  \/ ~ok /\ MayFail("send") /\ UNCHANGED wire

(* qcrate_data_packetize: the packets of a shot, straight from the mapped  *)
(* bank.                                                                   *)
SndPacket ==
  /\ pc["snd"] = "send"
  /\ LET datagram == [sequence |-> packet_sequence + part,
                      shot |-> content[hold["snd"]], part |-> part + 1]
     IN  \/ /\ emit_udp(datagram, TRUE)
            /\ part' = part + 1
            /\ pc' = [pc EXCEPT !["snd"] = IF part' = PerShot THEN "release" ELSE @]
         \/ /\ emit_udp(datagram, FALSE)
            /\ Goto("snd", "send", "drop")
            /\ UNCHANGED part
  /\ UNCHANGED <<pool, trigger, tokens, totals, hold, call, result>>

(* Mutant: the next shot is numbered from the same start. *)
SentUnnumbered ==
  transmitted_shots' = transmitted_shots + 1 /\ UNCHANGED packet_sequence
Sent ==
  /\ transmitted_shots' = transmitted_shots + 1
  /\ packet_sequence' = packet_sequence + PerShot

(* release_bank after the shot: only a release that succeeds counts it. *)
SndRelease ==
  \/ /\ Goto("snd", "release", "releasing") /\ Release("snd")
     /\ UNCHANGED <<trigger, tokens, totals, part, result, wire>>
  \/ /\ Goto("snd", "releasing", "pop") /\ Returned("snd", "ok")
     /\ Sent
     /\ UNCHANGED <<pool, trigger, tokens, acquisition_complete, acquired_shots,
                    stop_requested, duration_mode, hold, part, result, wire>>
  \/ /\ Goto("snd", "releasing", "exited") /\ Returned("snd", "error")
     /\ pipeline_fail
     /\ UNCHANGED <<pool, trigger, totals, hold, part, result, wire>>

SndDrop ==
  \/ /\ Goto("snd", "drop", "dropping") /\ Release("snd")
     /\ UNCHANGED <<trigger, tokens, totals, part, result, wire>>
  \/ /\ Goto("snd", "dropping", "exited")
     /\ \E how \in {"ok", "error"} : Returned("snd", how)
     /\ pipeline_fail
     /\ UNCHANGED <<pool, trigger, totals, hold, part, result, wire>>

(* Mutant: an interrupted acquisition ends the stream, too. *)
EndsInterrupted == transmitted_shots = acquired_shots /\ transmitted_shots > 0
EndsStream ==
  /\ acquisition_complete
  /\ transmitted_shots = acquired_shots /\ transmitted_shots > 0

(* The terminal heartbeat: next number, last shot, no payload. *)
emit_end_of_stream(ok) ==
  emit_udp([sequence |-> packet_sequence, shot |-> wire[Len(wire)].shot,
            part |-> 0], ok)

SndEnd ==
  /\ Goto("snd", "end", "exited")
  /\ \/ /\ ~EndsStream
        /\ UNCHANGED <<tokens, packet_sequence, wire>>
     \/ /\ EndsStream /\ emit_end_of_stream(TRUE)
        /\ packet_sequence' = packet_sequence + 1
        /\ UNCHANGED tokens
     \/ /\ EndsStream /\ emit_end_of_stream(FALSE)
        /\ pipeline_fail
        /\ UNCHANGED packet_sequence
  /\ UNCHANGED <<pool, trigger, acquisition_complete, acquired_shots,
                 transmitted_shots, stop_requested, duration_mode, hold, call,
                 part, result>>

Sender == SndPop \/ SndPacket \/ SndRelease \/ SndDrop \/ SndEnd
-----------------------------------------------------------------------------
(* run_sustained *)

(* POOL_START returns with the first bank armed; its evidence is checked. *)
MainStart ==
  \/ /\ bank' = [bank EXCEPT ![1] = "filling"]
     /\ active' = TRUE /\ armed' = TRUE /\ running' = TRUE
     /\ \/ Goto("main", "start", "create_sender") /\ UNCHANGED tokens
        \/ /\ "evidence" \in Faults
           /\ Goto("main", "start", "stop") /\ pipeline_fail
     /\ UNCHANGED <<content, faulted, worker, kick, trigger, totals, hold, call,
                    part, result, wire>>
  \/ /\ "start" \in Faults /\ Goto("main", "start", "done") /\ pipeline_fail
     /\ UNCHANGED <<pool, trigger, totals, hold, call, part, result, wire>>

MainCreate ==
  /\ \/ /\ pc["main"] = "create_sender"
        /\ \/ pc' = [pc EXCEPT !["main"] = "create_acq", !["snd"] = "pop"]
              /\ UNCHANGED tokens
           \/ "thread" \in Faults /\ pc' = [pc EXCEPT !["main"] = "stop"]
              /\ pipeline_fail
     \/ /\ pc["main"] = "create_acq"
        /\ \/ pc' = [pc EXCEPT !["main"] = "join", !["acq"] = "require"]
              /\ UNCHANGED tokens
           \/ "thread" \in Faults /\ pc' = [pc EXCEPT !["main"] = "join"]
              /\ failed' = TRUE /\ producer_done' = TRUE /\ asleep' = {}
              /\ UNCHANGED queue
  /\ UNCHANGED <<pool, trigger, totals, hold, call, part, result, wire>>

Succeeded ==
  /\ ~failed /\ ~stop_requested /\ acquisition_complete /\ acquired_shots > 0
  /\ transmitted_shots = acquired_shots

MainJoin ==
  /\ \A t \in Worker : pc[t] \in {"none", "exited"}
  /\ Goto("main", "join", "stop")
  /\ \/ /\ result' = IF Succeeded THEN "ok" ELSE "error"
        /\ UNCHANGED tokens
     \/ /\ "stop" \in Faults /\ pipeline_fail   \* POOL_STATUS fails
        /\ UNCHANGED result
  /\ UNCHANGED <<pool, trigger, totals, hold, call, part, wire>>

(* abort_sequence_best_effort: the status or the abort may fail. *)
AbortSequence ==
  \/ sequencer' = "idle"
  \/ MayFail("sequence") /\ UNCHANGED sequencer

(* POOL_STOP drains and discards (what a failed one leaves is the subject  *)
(* of DmaPool); a failed run also aborts the sequence.                     *)
MainStop ==
  /\ worker = "idle" /\ Goto("main", "stop", "done")
  /\ running' = FALSE
  /\ bank' = [b \in Bank |-> IF bank[b] = "user" THEN "user" ELSE "free"]
  /\ active' = FALSE /\ armed' = FALSE
  /\ \/ UNCHANGED <<result, tokens>>
     \/ MayFail("stop") /\ result' = "error" /\ pipeline_fail
  /\ \/ result' = "ok" /\ UNCHANGED sequencer
     \/ result' # "ok" /\ AbortSequence
  /\ UNCHANGED <<content, faulted, worker, kick, triggers, missed, totals, hold,
                 call, part, wire>>

(* SIGINT or SIGTERM *)
handle_stop_signal ==
  /\ "signal" \in Faults /\ pc["main"] # "done"
  /\ ~stop_requested /\ stop_requested' = TRUE
  /\ UNCHANGED <<pool, trigger, tokens, acquisition_complete, acquired_shots,
                 transmitted_shots, packet_sequence, duration_mode, control, wire>>

Main == MainStart \/ MainCreate \/ MainJoin \/ MainStop
-----------------------------------------------------------------------------
Init ==
  /\ bank = [b \in Bank |-> "free"] /\ content = [b \in Bank |-> 0]
  /\ active = FALSE /\ armed = FALSE /\ running = FALSE /\ faulted = FALSE
  /\ worker = "idle" /\ kick = FALSE
  /\ sequencer = "idle" /\ triggers = 0 /\ missed = FALSE
  /\ queue = <<>> /\ producer_done = FALSE /\ failed = FALSE /\ asleep = {}
  /\ acquisition_complete = FALSE /\ acquired_shots = 0
  /\ transmitted_shots = 0 /\ packet_sequence = 0 /\ stop_requested = FALSE
  /\ duration_mode \in BOOLEAN
  /\ pc = [t \in Worker \cup {"main"} |-> IF t = "main" THEN "start" ELSE "none"]
  /\ hold = [t \in Worker |-> NoBank] /\ call = [t \in Worker |-> "none"]
  /\ part = 0 /\ result = "error" /\ wire = <<>>

Calls == \E t \in Worker : ReleaseWoken(t) \/ ReleaseReturn(t)

Next ==
  \/ Hardware \/ Calls \/ Acquisition \/ Sender \/ Main \/ handle_stop_signal

Spec == Init /\ [][Next]_vars

(* The threads are scheduled, every wait inside the driver is bounded, and *)
(* the hardware finishes what it was started for.                          *)
FairSpec ==
  /\ Spec
  /\ WF_vars(Hardware) /\ WF_vars(Calls) /\ WF_vars(Acquisition)
  /\ WF_vars(Sender) /\ WF_vars(Main)
-----------------------------------------------------------------------------
(* Properties. *)

(* "Packet sequence numbers increase" over the whole run and every packet  *)
(* carries the samples of its own shot: the datagrams are the shots in     *)
(* capture order, one after the other, numbered without a gap, although    *)
(* the sender reads the bank while the pool fills others.                  *)
WireInOrder ==
  \A i \in DOMAIN wire :
    /\ wire[i].sequence = i - 1
    /\ wire[i].part # 0 =>
         /\ wire[i].shot = ((i - 1) \div PerShot) + 1
         /\ wire[i].part = ((i - 1) % PerShot) + 1

(* "A release or send failure ... cannot masquerade as a cleanly closed    *)
(* lifecycle": END_OF_STREAM is last, and by then every shot of a complete *)
(* acquisition was sent whole and its bank given back; and an exit status  *)
(* of success means that the stream was ended so, after the shots asked    *)
(* for.                                                                    *)
CleanEndMeansAll ==
  /\ \A i \in DOMAIN wire : wire[i].part = 0 =>
       /\ i = Len(wire) /\ i = acquired_shots * PerShot + 1
       /\ acquisition_complete /\ InState("user") = {}
  /\ (pc["main"] = "done" /\ result = "ok") =>
       /\ wire # <<>> /\ wire[Len(wire)].part = 0
       /\ duration_mode \/ acquired_shots = Shots

(* A sequence is started only for an armed bank, and the bank stays armed  *)
(* until the trigger comes: no trigger of a healthy run is missed.         *)
NoTriggerMissed == missed => failed \/ stop_requested

(* The run ends, whichever thread fails first and whatever the others are  *)
(* waiting for at that moment.                                             *)
RunEnds == <>(pc["main"] = "done")
=============================================================================

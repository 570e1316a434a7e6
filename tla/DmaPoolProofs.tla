--------------------------- MODULE DmaPoolProofs ---------------------------
(***************************************************************************)
(* The bank pool, for any number of banks, runs and triggers and any       *)
(* combination of faults.  First ownership: the types, who may touch which *)
(* bank, and that unread data survives.  Then, resting on it, what the     *)
(* pool tells its user: exact counters, RELEASE accepts exactly the tokens *)
(* that are out, and the pool implements the queue of shots.               *)
(***************************************************************************)
EXTENDS DmaPool, FiniteSetTheorems, TLAPS

(* The pc values of a lock holder, and those at which a completion event   *)
(* has been taken and not yet answered.                                    *)
Arming   == {"arm", "arm_reset", "arm_issue"}
Draining == {"drain", "drain_wait", "arm_poll"}
Answering == {"drain_have", "drain_check", "drain_reset"}
Finalizing == {"fin", "fin_ok", "fin_bad"}
StartHolds == Arming \cup Draining \cup Answering \cup {"arm_failed"}
WorkerHolds == StartHolds \cup Finalizing
                 \cup {"rearm", "stop_reset", "stop_ok", "stop_err"}

(* capture_lock is held exactly where the code is inside it. *)
LockInv ==
  /\ pc["worker"] \in {"wait", "lock"} \cup WorkerHolds
  /\ pc["start"] \in {"idle"} \cup StartHolds
  /\ lock = "worker" <=> pc["worker"] \in WorkerHolds
  /\ lock = "start" <=> pc["start"] \in StartHolds

(* A transfer has one completion, and it is in one place. *)
InHands  == pc["worker"] = "lock" /\ "DMA_DONE" \in taken
Answered == \/ pc["worker"] \in Answering \cup Finalizing
            \/ pc["start"] \in Answering
CompletionInv ==
  /\ dma # "idle" \/ "DMA_DONE" \in events \/ InHands \/ Answered => dma_active
  /\ dma # "idle" => "DMA_DONE" \notin events /\ ~InHands /\ ~Answered
  /\ "DMA_DONE" \in events => ~InHands /\ ~Answered
  /\ InHands => ~Answered

(* The bank in flight is the one the descriptors point at, and it is       *)
(* FILLING until close forgets the states.                                 *)
ActiveInv ==
  /\ dma_active => filling_bank = dma_bank /\ InPool(dma_bank)
  /\ dma_active => state[dma_bank] \in {"FILLING", "FREE"}
  /\ dma_active /\ configured => state[dma_bank] = "FILLING"
  /\ \A a \in Actor : pc[a] \in Draining => dma_active
  /\ pc["worker"] = "stop_reset" => ~dma_active

(* Only a running pool arms, and only a FREE bank of its own.              *)
ArmInv ==
  /\ running => ~stopping
  /\ \A a \in Actor : pc[a] \in Arming => ~dma_active
  /\ pc["start"] \in Arming => 0 \in InState("FREE")

(* The engine runs only into issued descriptors, and what it reports about *)
(* a finished shot is what lies in the bank.                               *)
EngineInv ==
  /\ engine # "idle" <=> dma = "issued"
  /\ engine \in {"armed", "drain"} => ~trigger_seen
  /\ engine = "shot" => shot_id # 0
  /\ (dma_active /\ trigger_seen /\ engine = "idle") =>
       buffer[dma_bank] = shot_id /\ shot_id # 0
  /\ pc["worker"] = "fin_ok" => trigger_seen

Inv ==
  /\ TypeOK /\ LockInv /\ CompletionInv /\ ActiveInv /\ ArmInv /\ EngineInv
  /\ UnreadDataIntact

(* The sets the ownership counters are compared with are finite. *)
LEMMA InStateCardinality == \A s : Cardinality(InState(s)) \in Nat
<1>1. IsFiniteSet(Bank)
  BY MaxBanksAssumption, FS_Interval DEF Bank
<1>2. \A s : InState(s) \subseteq Bank
  BY DEF InState
<1> QED
  BY <1>1, <1>2, FS_Subset, FS_CardinalityType

USE DEF flags, geom, own, banks, counts, sync, calls, chan, hist, eng,
        StartHolds, WorkerHolds, Arming, Draining, Answering, Finalizing,
        Actor, InHands, Answered

(* A trigger moves only an armed engine; shot numbers start at 1. *)
LEMMA TriggerKeeps ==
  ASSUME Inv, Trigger PROVE Inv'
<1>1. triggers + 1 # 0
  BY DEF Inv, TypeOK, SourceTypeOK, CounterTypeOK
<1>2. (FlagsTypeOK /\ GeometryTypeOK /\ BanksTypeOK /\ CountsTypeOK
        /\ ControlTypeOK /\
        LockInv /\ CompletionInv /\ ActiveInv /\ ArmInv /\ UnreadDataIntact)'
  BY DEF Inv, TypeOK, FlagsTypeOK, GeometryTypeOK, BanksTypeOK, CountsTypeOK,
         ControlTypeOK, LockInv, CompletionInv, ActiveInv, ArmInv,
         UnreadDataIntact, InPool, InState, Trigger, TriggerEngine
<1>3. SignalTypeOK'
  BY DEF Inv, TypeOK, SourceTypeOK, SignalTypeOK, Trigger, TriggerEngine
<1>4. CounterTypeOK'
  BY DEF Inv, TypeOK, SourceTypeOK, CounterTypeOK, Trigger, TriggerEngine
<1>5. EngineInv'
  <2>1. CASE engine = "armed"
    BY <1>1, <2>1 DEF Inv, TypeOK, SourceTypeOK, SignalTypeOK, EngineInv,
                      Trigger, TriggerEngine
  <2>2. CASE engine # "armed"
    <3>1. UNCHANGED <<engine, trigger_seen, shot_id, chan, dma_active, pc>>
      BY <2>2 DEF Trigger, TriggerEngine
    <3> QED
      BY <3>1 DEF Inv, EngineInv
  <2> QED
    BY <2>1, <2>2
<1> QED
  BY <1>2, <1>3, <1>4, <1>5 DEF Inv, TypeOK, SourceTypeOK

(* The last word lands in the bank the descriptors point at, never unread. *)
LEMMA EngineFinishKeeps ==
  ASSUME Inv, EngineFinish PROVE Inv'
<1>1. dma_active /\ dma_bank \in Bank
        /\ state[dma_bank] \in {"FILLING", "FREE"}
  BY DEF Inv, TypeOK, GeometryTypeOK, CompletionInv, ActiveInv, EngineFinish,
         FinishEngine
<1>2. buffer' = [buffer EXCEPT ![dma_bank] = Written] /\ dma_bank' = dma_bank
  BY DEF EngineFinish
<1>3. trigger_seen => Written = shot_id /\ shot_id # 0
  BY DEF Inv, EngineInv, EngineFinish, FinishEngine, Busy, Written
<1>4. (FlagsTypeOK /\ GeometryTypeOK /\ CountsTypeOK /\ ControlTypeOK /\
        CounterTypeOK /\ LockInv /\ ActiveInv /\ ArmInv)'
  BY DEF Inv, TypeOK, SourceTypeOK, FlagsTypeOK, GeometryTypeOK, CountsTypeOK,
         ControlTypeOK, CounterTypeOK, LockInv, ActiveInv, ArmInv, InPool,
         InState, EngineFinish, FinishEngine, Busy, Written
<1>5. BanksTypeOK'
  BY DEF Inv, TypeOK, SourceTypeOK, BanksTypeOK, GeometryTypeOK, CounterTypeOK,
         EngineFinish, FinishEngine, Busy, Written
<1>6. SignalTypeOK'
  BY DEF Inv, TypeOK, SourceTypeOK, SignalTypeOK, EngineFinish, FinishEngine,
         Busy, Written
<1>7. CompletionInv'
  BY DEF Inv, TypeOK, SourceTypeOK, CompletionInv, FlagsTypeOK, ControlTypeOK,
         SignalTypeOK, LockInv, EngineFinish, FinishEngine, Busy, Written
<1>8. EngineInv'
  BY <1>1, <1>2, <1>3 DEF Inv, TypeOK, BanksTypeOK, EngineInv, EngineFinish,
                          FinishEngine
<1>9. UnreadDataIntact'
  BY <1>1, <1>2 DEF Inv, TypeOK, BanksTypeOK, UnreadDataIntact, EngineFinish
<1> QED
  BY <1>4, <1>5, <1>6, <1>7, <1>8, <1>9 DEF Inv, TypeOK, SourceTypeOK

(* The callback hands the one completion to the event word. *)
LEMMA dma_completeKeeps ==
  ASSUME Inv, dma_complete PROVE Inv'
<1>1. (FlagsTypeOK /\ GeometryTypeOK /\ BanksTypeOK /\ CountsTypeOK
        /\ CounterTypeOK /\
        LockInv /\ ActiveInv /\ ArmInv /\ UnreadDataIntact)'
  BY DEF Inv, TypeOK, SourceTypeOK, FlagsTypeOK, GeometryTypeOK, BanksTypeOK,
         CountsTypeOK, CounterTypeOK, LockInv, ActiveInv, ArmInv,
         UnreadDataIntact, InPool, InState, dma_complete, CallbackRuns
<1>2. ControlTypeOK'
  BY DEF Inv, TypeOK, ControlTypeOK, dma_complete, CallbackRuns, Pcs, Event
<1>3. SignalTypeOK'
  BY DEF Inv, TypeOK, SourceTypeOK, SignalTypeOK, dma_complete, CallbackRuns
<1>4. CompletionInv'
  BY DEF Inv, TypeOK, SourceTypeOK, CompletionInv, FlagsTypeOK, ControlTypeOK,
         SignalTypeOK, LockInv, dma_complete, CallbackRuns
<1>5. EngineInv'
  BY DEF Inv, TypeOK, SourceTypeOK, EngineInv, SignalTypeOK, ControlTypeOK,
         dma_complete, CallbackRuns
<1> QED
  BY <1>1, <1>2, <1>3, <1>4, <1>5 DEF Inv, TypeOK, SourceTypeOK

(* The missed count is read before the reset clears it. *)
LEMMA ArmAccountKeeps ==
  ASSUME NEW a \in Actor, Inv, ArmAccount(a) PROVE Inv'
<1>1. (FlagsTypeOK /\ GeometryTypeOK /\ BanksTypeOK /\ SignalTypeOK
        /\ CounterTypeOK /\
        UnreadDataIntact)'
  BY DEF Inv, TypeOK, SourceTypeOK, FlagsTypeOK, GeometryTypeOK, BanksTypeOK,
         SignalTypeOK, CounterTypeOK, UnreadDataIntact, ArmAccount, Goto,
         account_missed
<1>2. CountsTypeOK'
  BY DEF Inv, TypeOK, SourceTypeOK, CountsTypeOK, CounterTypeOK, ArmAccount,
         Goto, account_missed
<1>3. ControlTypeOK'
  BY DEF Inv, TypeOK, ControlTypeOK, ArmAccount, Goto, account_missed, Pcs,
         Event
<1>4. LockInv'
  BY DEF Inv, TypeOK, LockInv, ControlTypeOK, ArmAccount, Goto, account_missed
<1>5. CompletionInv'
  BY DEF Inv, TypeOK, SourceTypeOK, CompletionInv, FlagsTypeOK, ControlTypeOK,
         SignalTypeOK, LockInv, ArmAccount, Goto, account_missed
<1>6. ActiveInv'
  BY DEF Inv, TypeOK, ActiveInv, ControlTypeOK, GeometryTypeOK, BanksTypeOK,
         LockInv, InPool, ArmAccount, Goto, account_missed
<1>7. ArmInv'
  BY DEF Inv, TypeOK, ArmInv, ControlTypeOK, GeometryTypeOK, BanksTypeOK,
         LockInv, InPool, InState, ArmAccount, Goto, account_missed
<1>8. EngineInv'
  BY DEF Inv, TypeOK, SourceTypeOK, EngineInv, SignalTypeOK, ControlTypeOK,
         ArmAccount, Goto, account_missed
<1> QED
  BY <1>1, <1>2, <1>3, <1>4, <1>5, <1>6, <1>7, <1>8
  DEF Inv, TypeOK, SourceTypeOK

(* Arming resets the source while no transfer is issued. *)
LEMMA ArmResetKeeps ==
  ASSUME NEW a \in Actor, Inv, ArmReset(a) PROVE Inv'
<1>1. dma = "idle" /\ ~dma_active
  BY DEF Inv, ArmInv, CompletionInv, ArmReset, Goto
<1>2. pc'["worker"] # "fin_ok"
  BY DEF Inv, TypeOK, ControlTypeOK, LockInv, ArmReset, Goto
<1>3. (FlagsTypeOK /\ GeometryTypeOK /\ BanksTypeOK /\ CountsTypeOK /\
        UnreadDataIntact)'
  BY DEF Inv, TypeOK, FlagsTypeOK, GeometryTypeOK, BanksTypeOK, CountsTypeOK,
         UnreadDataIntact, ArmReset, reset_stream, ResetEngine, Goto
<1>4. ControlTypeOK'
  BY DEF Inv, TypeOK, ControlTypeOK, ArmReset, reset_stream, ResetEngine, Goto,
         Pcs, Event
<1>5. SignalTypeOK'
  BY DEF Inv, TypeOK, SourceTypeOK, SignalTypeOK, ArmReset, reset_stream,
         ResetEngine, Goto
<1>6. CounterTypeOK'
  BY DEF Inv, TypeOK, SourceTypeOK, CounterTypeOK, ArmReset, reset_stream,
         ResetEngine, Goto
<1>7. LockInv'
  BY DEF Inv, TypeOK, LockInv, ControlTypeOK, ArmReset, reset_stream,
         ResetEngine, Goto
<1>8. CompletionInv'
  BY DEF Inv, TypeOK, SourceTypeOK, CompletionInv, FlagsTypeOK, ControlTypeOK,
         SignalTypeOK, LockInv, ArmReset, reset_stream, ResetEngine, Goto
<1>9. ActiveInv'
  BY DEF Inv, TypeOK, ActiveInv, ControlTypeOK, GeometryTypeOK, BanksTypeOK,
         LockInv, InPool, ArmReset, reset_stream, ResetEngine, Goto
<1>10. ArmInv'
  BY DEF Inv, TypeOK, ArmInv, ControlTypeOK, GeometryTypeOK, BanksTypeOK,
         LockInv, InPool, InState, ArmReset, reset_stream, ResetEngine, Goto
<1>11. EngineInv'
  BY <1>1, <1>2 DEF Inv, EngineInv, ArmReset, reset_stream, ResetEngine
<1> QED
  BY <1>3, <1>4, <1>5, <1>6, <1>7, <1>8, <1>9, <1>10, <1>11
  DEF Inv, TypeOK, SourceTypeOK

(* The bank that is poisoned and issued is a FREE bank of the pool. *)
LEMMA ArmIssueKeeps ==
  ASSUME NEW a \in Actor, Inv, ArmIssue(a) PROVE Inv'
<1>1. ~dma_active /\ pc[a] = "arm_issue"
  BY DEF Inv, ArmInv, ArmIssue, Goto
<1>2. PICK b \in ArmTarget(a) :
        /\ buffer' = [buffer EXCEPT ![b] = 0]
        /\ state' = [state EXCEPT ![b] = "FILLING"]
        /\ generation' = [generation EXCEPT ![b] = @ + 1]
        /\ filling_bank' = b /\ dma_bank' = b
  BY DEF ArmIssue
<1>3. b \in Bank /\ InPool(b) /\ state[b] = "FREE"
  BY <1>1 DEF Inv, ArmInv, InState, ArmTarget
<1>4. pc'["worker"] # "fin_ok"
  BY DEF Inv, TypeOK, ControlTypeOK, LockInv, ArmIssue, Goto
<1>5. FlagsTypeOK'
  BY DEF Inv, TypeOK, FlagsTypeOK, ArmIssue, Goto, ArmTarget, IssueAndCommand
<1>6. GeometryTypeOK'
  BY <1>2, <1>3 DEF Inv, TypeOK, GeometryTypeOK, ArmIssue
<1>7. BanksTypeOK'
  BY <1>2, <1>3 DEF Inv, TypeOK, BanksTypeOK, ArmIssue
<1>8. CountsTypeOK'
  BY DEF Inv, TypeOK, SourceTypeOK, CountsTypeOK, CounterTypeOK, ArmIssue,
         Goto, ArmTarget, IssueAndCommand
<1>9. ControlTypeOK'
  BY DEF Inv, TypeOK, ControlTypeOK, ArmIssue, Goto, ArmTarget,
         IssueAndCommand, Pcs, Event
<1>10. SignalTypeOK'
  BY DEF Inv, TypeOK, SourceTypeOK, SignalTypeOK, ArmIssue, Goto, ArmTarget,
         IssueAndCommand
<1>11. CounterTypeOK'
  BY DEF Inv, TypeOK, SourceTypeOK, CounterTypeOK, ArmIssue, Goto, ArmTarget,
         IssueAndCommand
<1>12. LockInv'
  BY DEF Inv, TypeOK, LockInv, ControlTypeOK, ArmIssue, Goto, ArmTarget,
         IssueAndCommand
<1>13. CompletionInv'
  BY <1>1 DEF CompletionInv, ArmIssue, Goto, IssueAndCommand, Inv, TypeOK,
              ControlTypeOK, LockInv
<1>14. ActiveInv'
  BY <1>1, <1>2, <1>3 DEF LockInv, Inv, TypeOK, BanksTypeOK, ControlTypeOK,
                          ActiveInv, InPool, ArmIssue, Goto
<1>15. ArmInv'
  BY DEF Inv, TypeOK, ArmInv, ControlTypeOK, GeometryTypeOK, BanksTypeOK,
         LockInv, InPool, InState, ArmIssue, Goto, ArmTarget, IssueAndCommand
<1>16. EngineInv'
  BY <1>4 DEF EngineInv, ArmIssue, IssueAndCommand
<1>17. UnreadDataIntact'
  BY <1>2, <1>3 DEF Inv, TypeOK, BanksTypeOK, UnreadDataIntact, ArmIssue
<1> QED
  BY <1>5, <1>6, <1>7, <1>8, <1>9, <1>10, <1>11, <1>12, <1>13, <1>14, <1>15,
     <1>16, <1>17 DEF Inv, TypeOK, SourceTypeOK

(* A failed submission has poisoned a FREE bank and issued nothing. *)
LEMMA ArmSubmitFailsKeeps ==
  ASSUME NEW a \in Actor, Inv, ArmSubmitFails(a) PROVE Inv'
<1>1. ~dma_active /\ dma = "idle" /\ pc[a] = "arm_issue"
  BY DEF Inv, ArmInv, CompletionInv, ArmSubmitFails, Goto
<1>2. PICK b \in ArmTarget(a) : buffer' = [buffer EXCEPT ![b] = 0]
  BY DEF ArmSubmitFails
<1>3. b \in Bank /\ state[b] = "FREE"
  BY <1>1 DEF Inv, ArmInv, InState, ArmTarget
<1>4. pc'["worker"] # "fin_ok"
  BY DEF Inv, TypeOK, ControlTypeOK, LockInv, ArmSubmitFails, Goto
<1>5. (FlagsTypeOK /\ GeometryTypeOK /\ CountsTypeOK)'
  BY DEF Inv, TypeOK, FlagsTypeOK, GeometryTypeOK, CountsTypeOK,
         ArmSubmitFails, Goto, ArmTarget, SubmitAborted
<1>6. BanksTypeOK'
  BY <1>2, <1>3 DEF Inv, TypeOK, BanksTypeOK, ArmSubmitFails
<1>7. ControlTypeOK'
  BY DEF Inv, TypeOK, ControlTypeOK, ArmSubmitFails, Goto, ArmTarget,
         SubmitAborted, Pcs, Event
<1>8. SignalTypeOK'
  BY DEF Inv, TypeOK, SourceTypeOK, SignalTypeOK, ArmSubmitFails, Goto,
         ArmTarget, SubmitAborted
<1>9. CounterTypeOK'
  BY DEF Inv, TypeOK, SourceTypeOK, CounterTypeOK, ArmSubmitFails, Goto,
         ArmTarget, SubmitAborted
<1>10. LockInv'
  BY DEF Inv, TypeOK, LockInv, ControlTypeOK, ArmSubmitFails, Goto, ArmTarget,
         SubmitAborted
<1>11. CompletionInv'
  BY DEF Inv, TypeOK, SourceTypeOK, CompletionInv, FlagsTypeOK, ControlTypeOK,
         SignalTypeOK, LockInv, ArmSubmitFails, Goto, ArmTarget, SubmitAborted
<1>12. ActiveInv'
  BY DEF Inv, TypeOK, ActiveInv, ControlTypeOK, GeometryTypeOK, BanksTypeOK,
         LockInv, InPool, ArmSubmitFails, Goto, ArmTarget, SubmitAborted
<1>13. ArmInv'
  BY DEF Inv, TypeOK, ArmInv, ControlTypeOK, GeometryTypeOK, BanksTypeOK,
         LockInv, InPool, InState, ArmSubmitFails, Goto, ArmTarget,
         SubmitAborted
<1>14. EngineInv'
  BY <1>1, <1>4 DEF Inv, EngineInv, ArmSubmitFails, SubmitAborted
<1>15. UnreadDataIntact'
  BY <1>2, <1>3 DEF Inv, TypeOK, BanksTypeOK, UnreadDataIntact, ArmSubmitFails
<1> QED
  BY <1>5, <1>6, <1>7, <1>8, <1>9, <1>10, <1>11, <1>12, <1>13, <1>14, <1>15
  DEF Inv, TypeOK, SourceTypeOK

(* ARMED was seen: the lock holder leaves a transfer in flight. *)
LEMMA ArmConfirmedKeeps ==
  ASSUME NEW a \in Actor, Inv, ArmConfirmed(a) PROVE Inv'
<1>1. (GeometryTypeOK /\ BanksTypeOK /\ CountsTypeOK /\ SignalTypeOK /\
        CounterTypeOK /\ UnreadDataIntact)'
  BY DEF Inv, TypeOK, SourceTypeOK, GeometryTypeOK, BanksTypeOK, CountsTypeOK,
         SignalTypeOK, CounterTypeOK, UnreadDataIntact, ArmConfirmed, Unlock
<1>2. FlagsTypeOK'
  BY DEF Inv, TypeOK, FlagsTypeOK, ArmConfirmed, Unlock
<1>3. ControlTypeOK'
  BY DEF Inv, TypeOK, ControlTypeOK, ArmConfirmed, Unlock, Pcs, Event
<1>4. LockInv'
  BY DEF Inv, TypeOK, LockInv, ControlTypeOK, ArmConfirmed, Unlock
<1>5. CompletionInv'
  BY DEF Inv, TypeOK, SourceTypeOK, CompletionInv, FlagsTypeOK, ControlTypeOK,
         SignalTypeOK, LockInv, ArmConfirmed, Unlock
<1>6. ActiveInv'
  BY DEF Inv, TypeOK, ActiveInv, ControlTypeOK, GeometryTypeOK, BanksTypeOK,
         LockInv, InPool, ArmConfirmed, Unlock
<1>7. ArmInv'
  BY DEF Inv, TypeOK, ArmInv, ControlTypeOK, GeometryTypeOK, BanksTypeOK,
         LockInv, InPool, InState, ArmConfirmed, Unlock
<1>8. EngineInv'
  BY DEF Inv, TypeOK, SourceTypeOK, EngineInv, SignalTypeOK, ControlTypeOK,
         ArmConfirmed, Unlock
<1> QED
  BY <1>1, <1>2, <1>3, <1>4, <1>5, <1>6, <1>7, <1>8
  DEF Inv, TypeOK, SourceTypeOK

(* An arm that was not confirmed goes on to drain its transfer. *)
LEMMA ArmTimeoutKeeps ==
  ASSUME NEW a \in Actor, Inv, ArmTimeout(a) PROVE Inv'
<1>1. (FlagsTypeOK /\ GeometryTypeOK /\ BanksTypeOK /\ CountsTypeOK
        /\ SignalTypeOK /\
        CounterTypeOK /\ UnreadDataIntact)'
  BY DEF Inv, TypeOK, SourceTypeOK, FlagsTypeOK, GeometryTypeOK, BanksTypeOK,
         CountsTypeOK, SignalTypeOK, CounterTypeOK, UnreadDataIntact,
         ArmTimeout, Goto
<1>2. ControlTypeOK'
  BY DEF Inv, TypeOK, ControlTypeOK, ArmTimeout, Goto, Pcs, Event
<1>3. LockInv'
  BY DEF Inv, TypeOK, LockInv, ControlTypeOK, ArmTimeout, Goto
<1>4. CompletionInv'
  BY DEF Inv, TypeOK, SourceTypeOK, CompletionInv, FlagsTypeOK, ControlTypeOK,
         SignalTypeOK, LockInv, ArmTimeout, Goto
<1>5. ActiveInv'
  BY DEF Inv, TypeOK, ActiveInv, ControlTypeOK, GeometryTypeOK, BanksTypeOK,
         LockInv, InPool, ArmTimeout, Goto
<1>6. ArmInv'
  BY DEF Inv, TypeOK, ArmInv, ControlTypeOK, GeometryTypeOK, BanksTypeOK,
         LockInv, InPool, InState, ArmTimeout, Goto
<1>7. EngineInv'
  BY DEF Inv, TypeOK, SourceTypeOK, EngineInv, SignalTypeOK, ControlTypeOK,
         ArmTimeout, Goto
<1> QED
  BY <1>1, <1>2, <1>3, <1>4, <1>5, <1>6, <1>7 DEF Inv, TypeOK, SourceTypeOK

(* A failed arm faults the pool and leaves the lock. *)
LEMMA ArmFailedKeeps ==
  ASSUME NEW a \in Actor, Inv, ArmFailed(a) PROVE Inv'
<1>1. (GeometryTypeOK /\ BanksTypeOK /\ CountsTypeOK /\ SignalTypeOK /\
        CounterTypeOK /\ UnreadDataIntact)'
  BY DEF Inv, TypeOK, SourceTypeOK, GeometryTypeOK, BanksTypeOK, CountsTypeOK,
         SignalTypeOK, CounterTypeOK, UnreadDataIntact, ArmFailed, pool_fault,
         Unlock
<1>2. FlagsTypeOK'
  BY DEF Inv, TypeOK, FlagsTypeOK, ArmFailed, pool_fault, Unlock
<1>3. ControlTypeOK'
  BY DEF Inv, TypeOK, ControlTypeOK, ArmFailed, pool_fault, Unlock, Pcs, Event
<1>4. LockInv'
  BY DEF Inv, TypeOK, LockInv, ControlTypeOK, ArmFailed, pool_fault, Unlock
<1>5. CompletionInv'
  BY DEF Inv, TypeOK, SourceTypeOK, CompletionInv, FlagsTypeOK, ControlTypeOK,
         SignalTypeOK, LockInv, ArmFailed, pool_fault, Unlock
<1>6. ActiveInv'
  BY DEF Inv, TypeOK, ActiveInv, ControlTypeOK, GeometryTypeOK, BanksTypeOK,
         LockInv, InPool, ArmFailed, pool_fault, Unlock
<1>7. ArmInv'
  BY DEF Inv, TypeOK, ArmInv, ControlTypeOK, GeometryTypeOK, BanksTypeOK,
         LockInv, InPool, InState, ArmFailed, pool_fault, Unlock
<1>8. EngineInv'
  BY DEF Inv, TypeOK, SourceTypeOK, EngineInv, SignalTypeOK, ControlTypeOK,
         ArmFailed, pool_fault, Unlock
<1> QED
  BY <1>1, <1>2, <1>3, <1>4, <1>5, <1>6, <1>7, <1>8
  DEF Inv, TypeOK, SourceTypeOK

(* ABORT turns an armed engine into a draining one, never a shot. *)
LEMMA DrainAbortKeeps ==
  ASSUME NEW a \in Actor, Inv, DrainAbort(a) PROVE Inv'
<1>1. (FlagsTypeOK /\ GeometryTypeOK /\ BanksTypeOK /\ CountsTypeOK
        /\ CounterTypeOK /\
        UnreadDataIntact)'
  BY DEF Inv, TypeOK, SourceTypeOK, FlagsTypeOK, GeometryTypeOK, BanksTypeOK,
         CountsTypeOK, CounterTypeOK, UnreadDataIntact, DrainAbort,
         AbortIfQuiet
<1>2. ControlTypeOK'
  BY DEF Inv, TypeOK, ControlTypeOK, DrainAbort, AbortIfQuiet, Pcs, Event
<1>3. SignalTypeOK'
  BY DEF Inv, TypeOK, SourceTypeOK, SignalTypeOK, DrainAbort, AbortIfQuiet
<1>4. LockInv'
  BY DEF Inv, TypeOK, LockInv, ControlTypeOK, DrainAbort, AbortIfQuiet
<1>5. CompletionInv'
  BY DEF Inv, TypeOK, SourceTypeOK, CompletionInv, FlagsTypeOK, ControlTypeOK,
         SignalTypeOK, LockInv, DrainAbort, AbortIfQuiet
<1>6. ActiveInv'
  BY DEF Inv, TypeOK, ActiveInv, ControlTypeOK, GeometryTypeOK, BanksTypeOK,
         LockInv, InPool, DrainAbort, AbortIfQuiet
<1>7. ArmInv'
  BY DEF Inv, TypeOK, ArmInv, ControlTypeOK, GeometryTypeOK, BanksTypeOK,
         LockInv, InPool, InState, DrainAbort, AbortIfQuiet
<1>8. EngineInv'
  BY DEF Inv, TypeOK, SourceTypeOK, EngineInv, SignalTypeOK, ControlTypeOK,
         DrainAbort, AbortIfQuiet
<1> QED
  BY <1>1, <1>2, <1>3, <1>4, <1>5, <1>6, <1>7, <1>8
  DEF Inv, TypeOK, SourceTypeOK

(* The drain takes the completion out of the event word. *)
LEMMA DrainWaitKeeps ==
  ASSUME NEW a \in Actor, Inv, DrainWait(a) PROVE Inv'
<1>1. (FlagsTypeOK /\ GeometryTypeOK /\ BanksTypeOK /\ CountsTypeOK
        /\ SignalTypeOK /\
        CounterTypeOK /\ UnreadDataIntact)'
  BY DEF Inv, TypeOK, SourceTypeOK, FlagsTypeOK, GeometryTypeOK, BanksTypeOK,
         CountsTypeOK, SignalTypeOK, CounterTypeOK, UnreadDataIntact,
         DrainWait, Goto
<1>2. ControlTypeOK'
  BY DEF Inv, TypeOK, ControlTypeOK, DrainWait, Goto, Pcs, Event
<1>3. LockInv'
  BY DEF Inv, TypeOK, LockInv, ControlTypeOK, DrainWait, Goto
<1>4. CompletionInv'
  BY DEF Inv, TypeOK, SourceTypeOK, CompletionInv, FlagsTypeOK, ControlTypeOK,
         SignalTypeOK, LockInv, DrainWait, Goto
<1>5. ActiveInv'
  BY DEF Inv, TypeOK, ActiveInv, ControlTypeOK, GeometryTypeOK, BanksTypeOK,
         LockInv, InPool, DrainWait, Goto
<1>6. ArmInv'
  BY DEF Inv, TypeOK, ArmInv, ControlTypeOK, GeometryTypeOK, BanksTypeOK,
         LockInv, InPool, InState, DrainWait, Goto
<1>7. EngineInv'
  BY DEF Inv, TypeOK, SourceTypeOK, EngineInv, SignalTypeOK, ControlTypeOK,
         DrainWait, Goto
<1> QED
  BY <1>1, <1>2, <1>3, <1>4, <1>5, <1>6, <1>7 DEF Inv, TypeOK, SourceTypeOK

(* A drain that gives up leaves the bank in flight. *)
LEMMA DrainTimeoutKeeps ==
  ASSUME NEW a \in Actor, Inv, DrainTimeout(a) PROVE Inv'
<1>1. (FlagsTypeOK /\ GeometryTypeOK /\ BanksTypeOK /\ CountsTypeOK
        /\ SignalTypeOK /\
        CounterTypeOK /\ UnreadDataIntact)'
  BY DEF Inv, TypeOK, SourceTypeOK, FlagsTypeOK, GeometryTypeOK, BanksTypeOK,
         CountsTypeOK, SignalTypeOK, CounterTypeOK, UnreadDataIntact,
         DrainTimeout, DrainReturns
<1>2. ControlTypeOK'
  BY DEF Inv, TypeOK, ControlTypeOK, DrainTimeout, DrainReturns, Pcs, Event
<1>3. LockInv'
  BY DEF Inv, TypeOK, LockInv, ControlTypeOK, DrainTimeout, DrainReturns
<1>4. CompletionInv'
  BY DEF Inv, TypeOK, SourceTypeOK, CompletionInv, FlagsTypeOK, ControlTypeOK,
         SignalTypeOK, LockInv, DrainTimeout, DrainReturns
<1>5. ActiveInv'
  BY DEF Inv, TypeOK, ActiveInv, ControlTypeOK, GeometryTypeOK, BanksTypeOK,
         LockInv, InPool, DrainTimeout, DrainReturns
<1>6. ArmInv'
  BY DEF Inv, TypeOK, ArmInv, ControlTypeOK, GeometryTypeOK, BanksTypeOK,
         LockInv, InPool, InState, DrainTimeout, DrainReturns
<1>7. EngineInv'
  BY DEF Inv, TypeOK, SourceTypeOK, EngineInv, SignalTypeOK, ControlTypeOK,
         DrainTimeout, DrainReturns
<1> QED
  BY <1>1, <1>2, <1>3, <1>4, <1>5, <1>6, <1>7 DEF Inv, TypeOK, SourceTypeOK

(* The evidence is checked with the completion already taken. *)
LEMMA DrainCheckKeeps ==
  ASSUME NEW a \in Actor, Inv, DrainCheck(a) PROVE Inv'
<1>1. (FlagsTypeOK /\ GeometryTypeOK /\ BanksTypeOK /\ SignalTypeOK
        /\ CounterTypeOK /\
        UnreadDataIntact)'
  BY DEF Inv, TypeOK, SourceTypeOK, FlagsTypeOK, GeometryTypeOK, BanksTypeOK,
         SignalTypeOK, CounterTypeOK, UnreadDataIntact, DrainCheck,
         wait_complete, Busy, account_missed, DrainReturns
<1>2. CountsTypeOK'
  BY DEF Inv, TypeOK, SourceTypeOK, CountsTypeOK, CounterTypeOK, DrainCheck,
         wait_complete, Busy, account_missed, DrainReturns
<1>3. ControlTypeOK'
  BY DEF Inv, TypeOK, ControlTypeOK, DrainCheck, wait_complete, Busy,
         account_missed, DrainReturns, Pcs, Event
<1>4. LockInv'
  BY DEF Inv, TypeOK, LockInv, ControlTypeOK, DrainCheck, wait_complete, Busy,
         account_missed, DrainReturns
<1>5. CompletionInv'
  BY DEF Inv, TypeOK, SourceTypeOK, CompletionInv, FlagsTypeOK, ControlTypeOK,
         SignalTypeOK, LockInv, DrainCheck, wait_complete, Busy,
         account_missed, DrainReturns
<1>6. ActiveInv'
  BY DEF Inv, TypeOK, ActiveInv, ControlTypeOK, GeometryTypeOK, BanksTypeOK,
         LockInv, InPool, DrainCheck, wait_complete, Busy, account_missed,
         DrainReturns
<1>7. ArmInv'
  BY DEF Inv, TypeOK, ArmInv, ControlTypeOK, GeometryTypeOK, BanksTypeOK,
         LockInv, InPool, InState, DrainCheck, wait_complete, Busy,
         account_missed, DrainReturns
<1>8. EngineInv'
  BY DEF Inv, TypeOK, SourceTypeOK, EngineInv, SignalTypeOK, ControlTypeOK,
         DrainCheck, wait_complete, Busy, account_missed, DrainReturns
<1> QED
  BY <1>1, <1>2, <1>3, <1>4, <1>5, <1>6, <1>7, <1>8
  DEF Inv, TypeOK, SourceTypeOK

(* A drained bank becomes FREE only after the source was reset. *)
LEMMA DrainResetKeeps ==
  ASSUME NEW a \in Actor, Inv, DrainReset(a) PROVE Inv'
<1>1. dma = "idle" /\ dma_active
  BY DEF Inv, TypeOK, ControlTypeOK, LockInv, CompletionInv, DrainReset
<1>2. pc'["worker"] # "fin_ok"
  BY DEF Inv, TypeOK, ControlTypeOK, LockInv, DrainReset, DrainReturns
<1>3. filling_bank = dma_bank /\ dma_bank \in Bank /\ dma_bank' = dma_bank
  BY <1>1 DEF Inv, TypeOK, GeometryTypeOK, ActiveInv, DrainReset
<1>4. \/ /\ ResetEngine
        /\ state' = [state EXCEPT ![dma_bank] = "FREE"]
        /\ ~dma_active'
     \/ UNCHANGED <<eng, state, own>>
  BY <1>3 DEF DrainReset, reset_stream
<1>5. FlagsTypeOK'
  BY DEF Inv, TypeOK, FlagsTypeOK, DrainReset, reset_stream, ResetEngine,
         DrainReturns
<1>6. GeometryTypeOK'
  BY DEF Inv, TypeOK, GeometryTypeOK, BanksTypeOK, DrainReset, reset_stream,
         ResetEngine, DrainReturns
<1>7. BanksTypeOK'
  BY DEF Inv, TypeOK, SourceTypeOK, BanksTypeOK, GeometryTypeOK, CounterTypeOK,
         DrainReset, reset_stream, ResetEngine, DrainReturns
<1>8. CountsTypeOK'
  BY DEF Inv, TypeOK, SourceTypeOK, CountsTypeOK, CounterTypeOK, DrainReset,
         reset_stream, ResetEngine, DrainReturns
<1>9. ControlTypeOK'
  BY DEF Inv, TypeOK, ControlTypeOK, DrainReset, reset_stream, ResetEngine,
         DrainReturns, Pcs, Event
<1>10. SignalTypeOK'
  BY DEF Inv, TypeOK, SourceTypeOK, SignalTypeOK, DrainReset, reset_stream,
         ResetEngine, DrainReturns
<1>11. CounterTypeOK'
  BY DEF Inv, TypeOK, SourceTypeOK, CounterTypeOK, DrainReset, reset_stream,
         ResetEngine, DrainReturns
<1>12. LockInv'
  BY DEF Inv, TypeOK, LockInv, ControlTypeOK, DrainReset, reset_stream,
         ResetEngine, DrainReturns
<1>13. CompletionInv'
  BY DEF Inv, TypeOK, SourceTypeOK, CompletionInv, FlagsTypeOK, ControlTypeOK,
         SignalTypeOK, LockInv, DrainReset, reset_stream, ResetEngine,
         DrainReturns
<1>14. ActiveInv'
  <2>1. \A x \in Actor : pc'[x] \notin Draining \cup {"stop_reset"}
    <3>1. PICK p \in {"stop_ok", "stop_err", "arm_failed"} :
            pc' = [pc EXCEPT ![a] = p]
      BY DEF DrainReset, DrainReturns
    <3>2. \A x \in Actor \ {a} : pc[x] \notin Draining \cup {"stop_reset"}
      BY DEF Inv, TypeOK, ControlTypeOK, LockInv, DrainReset
    <3> QED
      BY <3>1, <3>2 DEF Inv, TypeOK, ControlTypeOK
  <2>2. UNCHANGED <<configured, bank_count>>
    BY DEF DrainReset
  <2> QED
    BY <1>1, <1>3, <1>4, <2>1, <2>2 DEF Inv, TypeOK, BanksTypeOK, ActiveInv,
      InPool
<1>15. ArmInv'
  BY DEF Inv, TypeOK, ArmInv, ControlTypeOK, GeometryTypeOK, BanksTypeOK,
         LockInv, InPool, InState, DrainReset, reset_stream, ResetEngine,
         DrainReturns
<1>16. EngineInv'
  <2>1. UNCHANGED <<dma, buffer>>
    BY DEF DrainReset
  <2>2. CASE ResetEngine
    BY <1>1, <1>2, <2>1, <2>2 DEF EngineInv, ResetEngine
  <2>3. CASE UNCHANGED <<eng, state, own>>
    BY <1>1, <1>2, <1>3, <2>1, <2>3 DEF Inv, EngineInv
  <2> QED
    BY <1>4, <2>2, <2>3
<1>17. UnreadDataIntact'
  BY DEF Inv, TypeOK, UnreadDataIntact, BanksTypeOK, GeometryTypeOK,
         DrainReset, reset_stream, ResetEngine, DrainReturns
<1> QED
  BY <1>5, <1>6, <1>7, <1>8, <1>9, <1>10, <1>11, <1>12, <1>13, <1>14, <1>15,
     <1>16, <1>17 DEF Inv, TypeOK, SourceTypeOK

(* The exchange moves a completion into the hands of the worker. *)
LEMMA WorkerTakeEventsKeeps ==
  ASSUME Inv, WorkerTakeEvents PROVE Inv'
<1>1. (FlagsTypeOK /\ GeometryTypeOK /\ BanksTypeOK /\ CountsTypeOK
        /\ SignalTypeOK /\
        CounterTypeOK /\ UnreadDataIntact)'
  BY DEF Inv, TypeOK, SourceTypeOK, FlagsTypeOK, GeometryTypeOK, BanksTypeOK,
         CountsTypeOK, SignalTypeOK, CounterTypeOK, UnreadDataIntact,
         WorkerTakeEvents, Goto
<1>2. ControlTypeOK'
  BY DEF Inv, TypeOK, ControlTypeOK, WorkerTakeEvents, Goto, Pcs, Event
<1>3. LockInv'
  BY DEF Inv, TypeOK, LockInv, ControlTypeOK, WorkerTakeEvents, Goto
<1>4. CompletionInv'
  BY DEF Inv, TypeOK, SourceTypeOK, CompletionInv, FlagsTypeOK, ControlTypeOK,
         SignalTypeOK, LockInv, WorkerTakeEvents, Goto
<1>5. ActiveInv'
  BY DEF Inv, TypeOK, ActiveInv, ControlTypeOK, GeometryTypeOK, BanksTypeOK,
         LockInv, InPool, WorkerTakeEvents, Goto
<1>6. ArmInv'
  BY DEF Inv, TypeOK, ArmInv, ControlTypeOK, GeometryTypeOK, BanksTypeOK,
         LockInv, InPool, InState, WorkerTakeEvents, Goto
<1>7. EngineInv'
  BY DEF Inv, TypeOK, SourceTypeOK, EngineInv, SignalTypeOK, ControlTypeOK,
         WorkerTakeEvents, Goto
<1> QED
  BY <1>1, <1>2, <1>3, <1>4, <1>5, <1>6, <1>7 DEF Inv, TypeOK, SourceTypeOK

(* STOP either drains the bank in flight or has none. *)
LEMMA WorkerStopKeeps ==
  ASSUME Inv, WorkerStop PROVE Inv'
<1>1. (GeometryTypeOK /\ BanksTypeOK /\ SignalTypeOK /\ CounterTypeOK /\
        UnreadDataIntact)'
  BY DEF Inv, TypeOK, SourceTypeOK, GeometryTypeOK, BanksTypeOK, SignalTypeOK,
         CounterTypeOK, UnreadDataIntact, WorkerStop, Goto, DrainEntry,
         account_missed
<1>2. FlagsTypeOK'
  BY DEF Inv, TypeOK, FlagsTypeOK, WorkerStop, Goto, DrainEntry, account_missed
<1>3. CountsTypeOK'
  BY DEF Inv, TypeOK, SourceTypeOK, CountsTypeOK, CounterTypeOK, WorkerStop,
         Goto, DrainEntry, account_missed
<1>4. ControlTypeOK'
  BY DEF Inv, TypeOK, ControlTypeOK, WorkerStop, Goto, DrainEntry,
         account_missed, Pcs, Event
<1>5. LockInv'
  BY DEF Inv, TypeOK, LockInv, ControlTypeOK, WorkerStop, Goto, DrainEntry,
         account_missed
<1>6. CompletionInv'
  BY DEF Inv, TypeOK, SourceTypeOK, CompletionInv, FlagsTypeOK, ControlTypeOK,
         SignalTypeOK, LockInv, WorkerStop, Goto, DrainEntry, account_missed
<1>7. ActiveInv'
  BY DEF Inv, TypeOK, ActiveInv, ControlTypeOK, GeometryTypeOK, BanksTypeOK,
         LockInv, InPool, WorkerStop, Goto, DrainEntry, account_missed
<1>8. ArmInv'
  BY DEF Inv, TypeOK, ArmInv, ControlTypeOK, GeometryTypeOK, BanksTypeOK,
         LockInv, InPool, InState, WorkerStop, Goto, DrainEntry, account_missed
<1>9. EngineInv'
  BY DEF Inv, TypeOK, SourceTypeOK, EngineInv, SignalTypeOK, ControlTypeOK,
         WorkerStop, Goto, DrainEntry, account_missed
<1> QED
  BY <1>1, <1>2, <1>3, <1>4, <1>5, <1>6, <1>7, <1>8, <1>9
  DEF Inv, TypeOK, SourceTypeOK

(* Without a bank in flight the source may be reset. *)
LEMMA WorkerStopResetKeeps ==
  ASSUME Inv, WorkerStopReset PROVE Inv'
<1>1. dma = "idle" /\ ~dma_active
  BY DEF Inv, ActiveInv, CompletionInv, WorkerStopReset, Goto
<1>2. pc'["worker"] # "fin_ok"
  BY DEF Inv, TypeOK, ControlTypeOK, LockInv, WorkerStopReset, Goto
<1>3. (FlagsTypeOK /\ GeometryTypeOK /\ BanksTypeOK /\ CountsTypeOK /\
        UnreadDataIntact)'
  BY DEF Inv, TypeOK, FlagsTypeOK, GeometryTypeOK, BanksTypeOK, CountsTypeOK,
         UnreadDataIntact, WorkerStopReset, reset_stream, ResetEngine, Goto
<1>4. ControlTypeOK'
  BY DEF Inv, TypeOK, ControlTypeOK, WorkerStopReset, reset_stream,
         ResetEngine, Goto, Pcs, Event
<1>5. SignalTypeOK'
  BY DEF Inv, TypeOK, SourceTypeOK, SignalTypeOK, WorkerStopReset,
         reset_stream, ResetEngine, Goto
<1>6. CounterTypeOK'
  BY DEF Inv, TypeOK, SourceTypeOK, CounterTypeOK, WorkerStopReset,
         reset_stream, ResetEngine, Goto
<1>7. LockInv'
  BY DEF Inv, TypeOK, LockInv, ControlTypeOK, WorkerStopReset, reset_stream,
         ResetEngine, Goto
<1>8. CompletionInv'
  BY DEF Inv, TypeOK, SourceTypeOK, CompletionInv, FlagsTypeOK, ControlTypeOK,
         SignalTypeOK, LockInv, WorkerStopReset, reset_stream, ResetEngine,
         Goto
<1>9. ActiveInv'
  BY DEF Inv, TypeOK, ActiveInv, ControlTypeOK, GeometryTypeOK, BanksTypeOK,
         LockInv, InPool, WorkerStopReset, reset_stream, ResetEngine, Goto
<1>10. ArmInv'
  BY DEF Inv, TypeOK, ArmInv, ControlTypeOK, GeometryTypeOK, BanksTypeOK,
         LockInv, InPool, InState, WorkerStopReset, reset_stream, ResetEngine,
         Goto
<1>11. EngineInv'
  BY <1>1, <1>2 DEF Inv, EngineInv, WorkerStopReset, reset_stream, ResetEngine
<1> QED
  BY <1>3, <1>4, <1>5, <1>6, <1>7, <1>8, <1>9, <1>10, <1>11
  DEF Inv, TypeOK, SourceTypeOK

(* STOP frees READY banks, so never the bank in flight. *)
LEMMA WorkerStopEndKeeps ==
  ASSUME Inv, WorkerStopEnd PROVE Inv'
<1>1. \/ UNCHANGED state
     \/ state' = [b \in Bank |->
                    IF b \in InState("READY") THEN "FREE" ELSE state[b]]
  BY DEF WorkerStopEnd, discard_ready
<1>2. \A x \in Actor : pc'[x] \notin Draining \cup {"stop_reset"}
  BY DEF Inv, TypeOK, ControlTypeOK, LockInv, WorkerStopEnd, Unlock
<1>3. (GeometryTypeOK /\ SignalTypeOK /\ CounterTypeOK)'
  BY DEF Inv, TypeOK, SourceTypeOK, GeometryTypeOK, SignalTypeOK,
         CounterTypeOK, WorkerStopEnd, discard_ready, Unlock
<1>4. FlagsTypeOK'
  BY DEF Inv, TypeOK, FlagsTypeOK, WorkerStopEnd, discard_ready, Unlock
<1>5. BanksTypeOK'
  BY DEF Inv, TypeOK, SourceTypeOK, BanksTypeOK, GeometryTypeOK, CounterTypeOK,
         WorkerStopEnd, discard_ready, Unlock
<1>6. CountsTypeOK'
  BY InStateCardinality DEF Inv, TypeOK, CountsTypeOK, WorkerStopEnd,
                            discard_ready
<1>7. ControlTypeOK'
  BY DEF Inv, TypeOK, ControlTypeOK, WorkerStopEnd, discard_ready, Unlock, Pcs,
         Event
<1>8. LockInv'
  BY DEF Inv, TypeOK, LockInv, ControlTypeOK, WorkerStopEnd, discard_ready,
         Unlock
<1>9. CompletionInv'
  BY DEF Inv, TypeOK, SourceTypeOK, CompletionInv, FlagsTypeOK, ControlTypeOK,
         SignalTypeOK, LockInv, WorkerStopEnd, discard_ready, Unlock
<1>10. ActiveInv'
  <2>1. UNCHANGED <<own, configured, dma_bank, bank_count>>
    BY DEF WorkerStopEnd
  <2>2. dma_active => state'[dma_bank] = state[dma_bank]
    BY <1>1 DEF Inv, TypeOK, GeometryTypeOK, BanksTypeOK, ActiveInv, InState
  <2> QED
    BY <1>2, <2>1, <2>2 DEF Inv, ActiveInv, InPool
<1>11. ArmInv'
  BY DEF Inv, TypeOK, ArmInv, ControlTypeOK, GeometryTypeOK, BanksTypeOK,
         LockInv, InPool, InState, WorkerStopEnd, discard_ready, Unlock
<1>12. EngineInv'
  BY DEF Inv, TypeOK, SourceTypeOK, EngineInv, SignalTypeOK, ControlTypeOK,
         WorkerStopEnd, discard_ready, Unlock
<1>13. UnreadDataIntact'
  BY DEF Inv, TypeOK, UnreadDataIntact, BanksTypeOK, GeometryTypeOK,
         WorkerStopEnd, discard_ready, Unlock
<1> QED
  BY <1>3, <1>4, <1>5, <1>6, <1>7, <1>8, <1>9, <1>10, <1>11, <1>12, <1>13
  DEF Inv, TypeOK, SourceTypeOK

(* The worker answers a completion only if a bank is in flight. *)
LEMMA WorkerLockKeeps ==
  ASSUME Inv, WorkerLock PROVE Inv'
<1>1. (FlagsTypeOK /\ GeometryTypeOK /\ BanksTypeOK /\ CountsTypeOK
        /\ SignalTypeOK /\
        CounterTypeOK /\ UnreadDataIntact)'
  BY DEF Inv, TypeOK, SourceTypeOK, FlagsTypeOK, GeometryTypeOK, BanksTypeOK,
         CountsTypeOK, SignalTypeOK, CounterTypeOK, UnreadDataIntact,
         WorkerLock, Goto
<1>2. ControlTypeOK'
  BY DEF Inv, TypeOK, ControlTypeOK, WorkerLock, Goto, Pcs, Event
<1>3. LockInv'
  BY DEF Inv, TypeOK, LockInv, ControlTypeOK, WorkerLock, Goto
<1>4. CompletionInv'
  BY DEF Inv, TypeOK, SourceTypeOK, CompletionInv, FlagsTypeOK, ControlTypeOK,
         SignalTypeOK, LockInv, WorkerLock, Goto
<1>5. ActiveInv'
  BY DEF Inv, TypeOK, ActiveInv, ControlTypeOK, GeometryTypeOK, BanksTypeOK,
         LockInv, InPool, WorkerLock, Goto
<1>6. ArmInv'
  BY DEF Inv, TypeOK, ArmInv, ControlTypeOK, GeometryTypeOK, BanksTypeOK,
         LockInv, InPool, InState, WorkerLock, Goto
<1>7. EngineInv'
  BY DEF Inv, TypeOK, SourceTypeOK, EngineInv, SignalTypeOK, ControlTypeOK,
         WorkerLock, Goto
<1> QED
  BY <1>1, <1>2, <1>3, <1>4, <1>5, <1>6, <1>7 DEF Inv, TypeOK, SourceTypeOK

(* fin_ok is reached only with TRIGGER_SEEN. *)
LEMMA FinalizeKeeps ==
  ASSUME Inv, Finalize PROVE Inv'
<1>1. (FlagsTypeOK /\ GeometryTypeOK /\ BanksTypeOK /\ SignalTypeOK
        /\ CounterTypeOK /\
        UnreadDataIntact)'
  BY DEF Inv, TypeOK, SourceTypeOK, FlagsTypeOK, GeometryTypeOK, BanksTypeOK,
         SignalTypeOK, CounterTypeOK, UnreadDataIntact, Finalize,
         wait_complete, Busy, Goto, account_missed
<1>2. CountsTypeOK'
  BY DEF Inv, TypeOK, SourceTypeOK, CountsTypeOK, CounterTypeOK, Finalize,
         wait_complete, Busy, Goto, account_missed
<1>3. ControlTypeOK'
  BY DEF Inv, TypeOK, ControlTypeOK, Finalize, wait_complete, Busy, Goto,
         account_missed, Pcs, Event
<1>4. LockInv'
  BY DEF Inv, TypeOK, LockInv, ControlTypeOK, Finalize, wait_complete, Busy,
         Goto, account_missed
<1>5. CompletionInv'
  BY DEF Inv, TypeOK, SourceTypeOK, CompletionInv, FlagsTypeOK, ControlTypeOK,
         SignalTypeOK, LockInv, Finalize, wait_complete, Busy, Goto,
         account_missed
<1>6. ActiveInv'
  BY DEF Inv, TypeOK, ActiveInv, ControlTypeOK, GeometryTypeOK, BanksTypeOK,
         LockInv, InPool, Finalize, wait_complete, Busy, Goto, account_missed
<1>7. ArmInv'
  BY DEF Inv, TypeOK, ArmInv, ControlTypeOK, GeometryTypeOK, BanksTypeOK,
         LockInv, InPool, InState, Finalize, wait_complete, Busy, Goto,
         account_missed
<1>8. EngineInv'
  BY DEF Inv, TypeOK, SourceTypeOK, EngineInv, SignalTypeOK, ControlTypeOK,
         Finalize, wait_complete, Busy, Goto, account_missed
<1> QED
  BY <1>1, <1>2, <1>3, <1>4, <1>5, <1>6, <1>7, <1>8
  DEF Inv, TypeOK, SourceTypeOK

(* The bank that becomes READY holds the shot that is reported for it. *)
LEMMA FinalizeReadyKeeps ==
  ASSUME Inv, FinalizeReady PROVE Inv'
<1>1. dma = "idle" /\ dma_active /\ engine = "idle"
  BY DEF Inv, TypeOK, ControlTypeOK, LockInv, CompletionInv, EngineInv,
         SourceTypeOK, SignalTypeOK, FinalizeReady, Goto
<1>2. filling_bank = dma_bank /\ dma_bank \in Bank
  BY <1>1 DEF Inv, TypeOK, GeometryTypeOK, ActiveInv
<1>3. pc'["worker"] # "fin_ok"
  BY DEF Inv, TypeOK, ControlTypeOK, LockInv, FinalizeReady, Goto
<1>4. trigger_seen /\ buffer[dma_bank] = shot_id /\ shot_id # 0
  BY <1>1, Zenon DEF Inv, EngineInv, FinalizeReady, Goto
<1>5. FlagsTypeOK'
  BY DEF Inv, TypeOK, FlagsTypeOK, FinalizeReady, Goto, reset_stream,
         ResetEngine
<1>6. GeometryTypeOK'
  BY DEF Inv, TypeOK, GeometryTypeOK, BanksTypeOK, FinalizeReady, Goto,
         reset_stream, ResetEngine
<1>7. BanksTypeOK'
  BY DEF Inv, TypeOK, SourceTypeOK, BanksTypeOK, GeometryTypeOK, CounterTypeOK,
         FinalizeReady, Goto, reset_stream, ResetEngine
<1>8. CountsTypeOK'
  BY DEF Inv, TypeOK, SourceTypeOK, CountsTypeOK, CounterTypeOK, FinalizeReady,
         Goto, reset_stream, ResetEngine
<1>9. ControlTypeOK'
  BY DEF Inv, TypeOK, ControlTypeOK, FinalizeReady, Goto, reset_stream,
         ResetEngine, Pcs, Event
<1>10. SignalTypeOK'
  BY DEF Inv, TypeOK, SourceTypeOK, SignalTypeOK, FinalizeReady, Goto,
         reset_stream, ResetEngine
<1>11. CounterTypeOK'
  BY DEF Inv, TypeOK, SourceTypeOK, CounterTypeOK, FinalizeReady, Goto,
         reset_stream, ResetEngine
<1>12. LockInv'
  BY DEF Inv, TypeOK, LockInv, ControlTypeOK, FinalizeReady, Goto,
         reset_stream, ResetEngine
<1>13. CompletionInv'
  BY DEF Inv, TypeOK, SourceTypeOK, CompletionInv, FlagsTypeOK, ControlTypeOK,
         SignalTypeOK, LockInv, FinalizeReady, Goto, reset_stream, ResetEngine
<1>14. ActiveInv'
  BY DEF Inv, TypeOK, ActiveInv, ControlTypeOK, GeometryTypeOK, BanksTypeOK,
         LockInv, InPool, FinalizeReady, Goto, reset_stream, ResetEngine
<1>15. ArmInv'
  BY DEF Inv, TypeOK, ArmInv, ControlTypeOK, GeometryTypeOK, BanksTypeOK,
         LockInv, InPool, InState, FinalizeReady, Goto, reset_stream,
         ResetEngine
<1>16. EngineInv'
  BY <1>1, <1>3 DEF EngineInv, FinalizeReady, reset_stream, ResetEngine
<1>17. UnreadDataIntact'
  <2>1. buffer' = buffer /\ state' = [state EXCEPT ![dma_bank] = "READY"]
    BY <1>2 DEF FinalizeReady
  <2>2. result' = [result EXCEPT ![dma_bank] =
                     [run |-> run_id, generation |-> generation[filling_bank],
                      sequence |-> next_sequence, shot |-> shot_id]]
    BY <1>2 DEF FinalizeReady
  <2> QED
    BY <1>2, <1>4, <2>1, <2>2 DEF Inv, TypeOK, BanksTypeOK, UnreadDataIntact
<1> QED
  BY <1>5, <1>6, <1>7, <1>8, <1>9, <1>10, <1>11, <1>12, <1>13, <1>14, <1>15,
     <1>16, <1>17 DEF Inv, TypeOK, SourceTypeOK

(* A bank without evidence is never offered to the user. *)
LEMMA FinalizeFailedKeeps ==
  ASSUME Inv, FinalizeFailed PROVE Inv'
<1>1. dma = "idle" /\ dma_active /\ engine = "idle"
  BY DEF Inv, TypeOK, ControlTypeOK, LockInv, CompletionInv, EngineInv,
         SourceTypeOK, SignalTypeOK, FinalizeFailed, Goto
<1>2. filling_bank = dma_bank /\ dma_bank \in Bank
  BY <1>1 DEF Inv, TypeOK, GeometryTypeOK, ActiveInv
<1>3. pc'["worker"] # "fin_ok"
  BY DEF Inv, TypeOK, ControlTypeOK, LockInv, FinalizeFailed, Goto
<1>4. FlagsTypeOK'
  BY DEF Inv, TypeOK, FlagsTypeOK, FinalizeFailed, Goto, reset_stream,
         ResetEngine, NoResult, pool_fault
<1>5. GeometryTypeOK'
  BY DEF Inv, TypeOK, GeometryTypeOK, BanksTypeOK, FinalizeFailed, Goto,
         reset_stream, ResetEngine, NoResult, pool_fault
<1>6. BanksTypeOK'
  BY DEF Inv, TypeOK, SourceTypeOK, BanksTypeOK, GeometryTypeOK, CounterTypeOK,
         FinalizeFailed, Goto, reset_stream, ResetEngine, NoResult, pool_fault
<1>7. CountsTypeOK'
  BY DEF Inv, TypeOK, SourceTypeOK, CountsTypeOK, CounterTypeOK,
         FinalizeFailed, Goto, reset_stream, ResetEngine, NoResult, pool_fault
<1>8. ControlTypeOK'
  BY DEF Inv, TypeOK, ControlTypeOK, FinalizeFailed, Goto, reset_stream,
         ResetEngine, NoResult, pool_fault, Pcs, Event
<1>9. SignalTypeOK'
  BY DEF Inv, TypeOK, SourceTypeOK, SignalTypeOK, FinalizeFailed, Goto,
         reset_stream, ResetEngine, NoResult, pool_fault
<1>10. CounterTypeOK'
  BY DEF Inv, TypeOK, SourceTypeOK, CounterTypeOK, FinalizeFailed, Goto,
         reset_stream, ResetEngine, NoResult, pool_fault
<1>11. LockInv'
  BY DEF Inv, TypeOK, LockInv, ControlTypeOK, FinalizeFailed, Goto,
         reset_stream, ResetEngine, NoResult, pool_fault
<1>12. CompletionInv'
  BY DEF Inv, TypeOK, SourceTypeOK, CompletionInv, FlagsTypeOK, ControlTypeOK,
         SignalTypeOK, LockInv, FinalizeFailed, Goto, reset_stream,
         ResetEngine, NoResult, pool_fault
<1>13. ActiveInv'
  BY DEF Inv, TypeOK, ActiveInv, ControlTypeOK, GeometryTypeOK, BanksTypeOK,
         LockInv, InPool, FinalizeFailed, Goto, reset_stream, ResetEngine,
         NoResult, pool_fault
<1>14. ArmInv'
  BY DEF Inv, TypeOK, ArmInv, ControlTypeOK, GeometryTypeOK, BanksTypeOK,
         LockInv, InPool, InState, FinalizeFailed, Goto, reset_stream,
         ResetEngine, NoResult, pool_fault
<1>15. EngineInv'
  <2>1. UNCHANGED <<dma, buffer>> /\ ~dma_active'
    BY DEF FinalizeFailed
  <2>2. ResetEngine \/ UNCHANGED eng
    BY DEF FinalizeFailed, reset_stream
  <2> QED
    BY <1>1, <1>3, <2>1, <2>2 DEF Inv, EngineInv, ResetEngine
<1>16. UnreadDataIntact'
  BY DEF Inv, TypeOK, UnreadDataIntact, BanksTypeOK, GeometryTypeOK,
         FinalizeFailed, Goto, reset_stream, ResetEngine, NoResult, pool_fault
<1> QED
  BY <1>4, <1>5, <1>6, <1>7, <1>8, <1>9, <1>10, <1>11, <1>12, <1>13, <1>14,
     <1>15, <1>16 DEF Inv, TypeOK, SourceTypeOK

(* The worker goes on to arm only if no bank is in flight. *)
LEMMA RearmKeeps ==
  ASSUME Inv, Rearm PROVE Inv'
<1>1. (GeometryTypeOK /\ BanksTypeOK /\ CountsTypeOK /\ SignalTypeOK /\
        CounterTypeOK /\ UnreadDataIntact)'
  BY DEF Inv, TypeOK, SourceTypeOK, GeometryTypeOK, BanksTypeOK, CountsTypeOK,
         SignalTypeOK, CounterTypeOK, UnreadDataIntact, Rearm, Goto, Unlock
<1>2. FlagsTypeOK'
  BY DEF Inv, TypeOK, FlagsTypeOK, Rearm, Goto, Unlock
<1>3. ControlTypeOK'
  BY DEF Inv, TypeOK, ControlTypeOK, Rearm, Goto, Unlock, Pcs, Event
<1>4. LockInv'
  BY DEF Inv, TypeOK, LockInv, ControlTypeOK, Rearm, Goto, Unlock
<1>5. CompletionInv'
  BY DEF Inv, TypeOK, SourceTypeOK, CompletionInv, FlagsTypeOK, ControlTypeOK,
         SignalTypeOK, LockInv, Rearm, Goto, Unlock
<1>6. ActiveInv'
  BY DEF Inv, TypeOK, ActiveInv, ControlTypeOK, GeometryTypeOK, BanksTypeOK,
         LockInv, InPool, Rearm, Goto, Unlock
<1>7. ArmInv'
  BY DEF Inv, TypeOK, ArmInv, ControlTypeOK, GeometryTypeOK, BanksTypeOK,
         LockInv, InPool, InState, Rearm, Goto, Unlock
<1>8. EngineInv'
  BY DEF Inv, TypeOK, SourceTypeOK, EngineInv, SignalTypeOK, ControlTypeOK,
         Rearm, Goto, Unlock
<1> QED
  BY <1>1, <1>2, <1>3, <1>4, <1>5, <1>6, <1>7, <1>8
  DEF Inv, TypeOK, SourceTypeOK

(* Opening the device touches the opened flag alone. *)
LEMMA openKeeps ==
  ASSUME Inv, open PROVE Inv'
<1>1. FlagsTypeOK'
  BY DEF Inv, TypeOK, FlagsTypeOK, open
<1>2. GeometryTypeOK'
  BY DEF Inv, TypeOK, GeometryTypeOK, BanksTypeOK, open
<1>3. BanksTypeOK'
  BY DEF Inv, TypeOK, SourceTypeOK, BanksTypeOK, GeometryTypeOK, CounterTypeOK,
         open
<1>4. CountsTypeOK'
  BY DEF Inv, TypeOK, SourceTypeOK, CountsTypeOK, CounterTypeOK, open
<1>5. ControlTypeOK'
  BY DEF Inv, TypeOK, ControlTypeOK, open, Pcs, Event
<1>6. SignalTypeOK'
  BY DEF Inv, TypeOK, SourceTypeOK, SignalTypeOK, open
<1>7. CounterTypeOK'
  BY DEF Inv, TypeOK, SourceTypeOK, CounterTypeOK, open
<1>8. LockInv'
  BY DEF Inv, TypeOK, LockInv, ControlTypeOK, open
<1>9. CompletionInv'
  BY DEF Inv, TypeOK, SourceTypeOK, CompletionInv, FlagsTypeOK, ControlTypeOK,
         SignalTypeOK, LockInv, open
<1>10. ActiveInv'
  BY DEF Inv, TypeOK, ActiveInv, ControlTypeOK, GeometryTypeOK, BanksTypeOK,
         LockInv, InPool, open
<1>11. ArmInv'
  BY DEF Inv, TypeOK, ArmInv, ControlTypeOK, GeometryTypeOK, BanksTypeOK,
         LockInv, InPool, InState, open
<1>12. EngineInv'
  BY DEF Inv, TypeOK, SourceTypeOK, EngineInv, SignalTypeOK, ControlTypeOK,
         open
<1>13. UnreadDataIntact'
  BY DEF Inv, TypeOK, UnreadDataIntact, BanksTypeOK, GeometryTypeOK, open
<1> QED
  BY <1>1, <1>2, <1>3, <1>4, <1>5, <1>6, <1>7, <1>8, <1>9, <1>10, <1>11,
     <1>12, <1>13 DEF Inv, TypeOK, SourceTypeOK

(* START finds no bank in flight, unread or lent. *)
LEMMA pool_startKeeps ==
  ASSUME NEW n \in 2 .. MaxBanks, Inv, pool_start(n) PROVE Inv'
<1>1. ~running /\ ~dma_active /\ dma = "idle"
  BY DEF Inv, CompletionInv, pool_start, pool_owns_buffer
<1>2. pc["worker"] \in {"wait", "lock"} /\ pc'["worker"] = pc["worker"]
        /\ pc'["start"] = "arm"
  BY DEF Inv, TypeOK, ControlTypeOK, LockInv, pool_start, Goto
<1>3. FlagsTypeOK'
  BY DEF Inv, TypeOK, FlagsTypeOK, pool_start, UserMayCall, pool_owns_buffer,
         ResetEngine, NoResult, Goto
<1>4. GeometryTypeOK'
  BY DEF Inv, TypeOK, GeometryTypeOK, BanksTypeOK, pool_start, UserMayCall,
         pool_owns_buffer, ResetEngine, NoResult, Goto
<1>5. BanksTypeOK'
  BY DEF Inv, TypeOK, SourceTypeOK, BanksTypeOK, GeometryTypeOK, CounterTypeOK,
         pool_start, UserMayCall, pool_owns_buffer, ResetEngine, NoResult, Goto
<1>6. CountsTypeOK'
  BY DEF Inv, TypeOK, SourceTypeOK, CountsTypeOK, CounterTypeOK, pool_start,
         UserMayCall, pool_owns_buffer, ResetEngine, NoResult, Goto
<1>7. ControlTypeOK'
  BY DEF Inv, TypeOK, ControlTypeOK, pool_start, UserMayCall, pool_owns_buffer,
         ResetEngine, NoResult, Goto, Pcs, Event
<1>8. SignalTypeOK'
  BY DEF Inv, TypeOK, SourceTypeOK, SignalTypeOK, pool_start, UserMayCall,
         pool_owns_buffer, ResetEngine, NoResult, Goto
<1>9. CounterTypeOK'
  BY DEF Inv, TypeOK, SourceTypeOK, CounterTypeOK, pool_start, UserMayCall,
         pool_owns_buffer, ResetEngine, NoResult, Goto
<1>10. LockInv'
  BY DEF Inv, TypeOK, LockInv, ControlTypeOK, pool_start, UserMayCall,
         pool_owns_buffer, ResetEngine, NoResult, Goto
<1>11. CompletionInv'
  BY DEF Inv, TypeOK, SourceTypeOK, CompletionInv, FlagsTypeOK, ControlTypeOK,
         SignalTypeOK, LockInv, pool_start, UserMayCall, pool_owns_buffer,
         ResetEngine, NoResult, Goto
<1>12. ActiveInv'
  BY DEF Inv, TypeOK, ActiveInv, ControlTypeOK, GeometryTypeOK, BanksTypeOK,
         LockInv, InPool, pool_start, UserMayCall, pool_owns_buffer,
         ResetEngine, NoResult, Goto
<1>13. ArmInv'
  BY <1>2, MaxBanksAssumption DEF pool_start, UserMayCall, ArmInv, InState,
                                  InPool, Bank
<1>14. EngineInv'
  BY <1>1, <1>2 DEF EngineInv, pool_start, ResetEngine
<1>15. UnreadDataIntact'
  BY DEF Inv, TypeOK, UnreadDataIntact, BanksTypeOK, GeometryTypeOK,
         pool_start, UserMayCall, pool_owns_buffer, ResetEngine, NoResult, Goto
<1> QED
  BY <1>3, <1>4, <1>5, <1>6, <1>7, <1>8, <1>9, <1>10, <1>11, <1>12, <1>13,
     <1>14, <1>15 DEF Inv, TypeOK, SourceTypeOK

(* DEQUEUE changes the owner of a bank, not its content. *)
LEMMA pool_dequeueKeeps ==
  ASSUME Inv, pool_dequeue PROVE Inv'
<1>1. PICK b \in InState("READY") : state' = [state EXCEPT ![b] = "USER_OWNED"]
  BY DEF pool_dequeue
<1>2. b \in Bank /\ state[b] = "READY"
  BY DEF InState
<1>3. UNCHANGED <<own, configured, dma_bank, bank_count, pc, buffer, result>>
  BY DEF pool_dequeue
<1>4. (FlagsTypeOK /\ GeometryTypeOK /\ ControlTypeOK /\ SignalTypeOK /\
        CounterTypeOK /\ LockInv /\ CompletionInv /\ EngineInv)'
  BY DEF Inv, TypeOK, SourceTypeOK, FlagsTypeOK, GeometryTypeOK, ControlTypeOK,
         SignalTypeOK, CounterTypeOK, LockInv, CompletionInv, EngineInv,
         pool_dequeue, UserMayCall, Oldest, TokenOf
<1>5. BanksTypeOK'
  BY DEF Inv, TypeOK, SourceTypeOK, BanksTypeOK, GeometryTypeOK, CounterTypeOK,
         pool_dequeue, UserMayCall, Oldest, TokenOf
<1>6. CountsTypeOK'
  BY DEF Inv, TypeOK, SourceTypeOK, CountsTypeOK, CounterTypeOK, pool_dequeue,
         UserMayCall, Oldest, TokenOf
<1>7. ActiveInv'
  BY <1>1, <1>2, <1>3 DEF Inv, TypeOK, BanksTypeOK, GeometryTypeOK, ActiveInv,
                          InPool
<1>8. ArmInv'
  BY DEF Inv, TypeOK, ArmInv, ControlTypeOK, GeometryTypeOK, BanksTypeOK,
         LockInv, InPool, InState, pool_dequeue, UserMayCall, Oldest, TokenOf
<1>9. UnreadDataIntact'
  BY <1>1, <1>2, <1>3 DEF Inv, TypeOK, BanksTypeOK, UnreadDataIntact
<1> QED
  BY <1>4, <1>5, <1>6, <1>7, <1>8, <1>9 DEF Inv, TypeOK, SourceTypeOK

(* RELEASE frees a USER_OWNED bank, so never the bank in flight. *)
LEMMA pool_release_bankKeeps ==
  ASSUME NEW t \in Presented, Inv, pool_release_bank(t) PROVE Inv'
<1>1. (FlagsTypeOK /\ GeometryTypeOK /\ SignalTypeOK /\ CounterTypeOK
        /\ LockInv /\
        EngineInv)'
  BY DEF Inv, TypeOK, SourceTypeOK, FlagsTypeOK, GeometryTypeOK, SignalTypeOK,
         CounterTypeOK, LockInv, EngineInv, pool_release_bank, UserMayCall,
         TokenAccepted, Kick
<1>2. BanksTypeOK'
  BY DEF Inv, TypeOK, SourceTypeOK, BanksTypeOK, GeometryTypeOK, CounterTypeOK,
         pool_release_bank, UserMayCall, TokenAccepted, Kick
<1>3. CountsTypeOK'
  BY DEF Inv, TypeOK, SourceTypeOK, CountsTypeOK, CounterTypeOK,
         pool_release_bank, UserMayCall, TokenAccepted, Kick
<1>4. ControlTypeOK'
  BY DEF Inv, TypeOK, ControlTypeOK, pool_release_bank, UserMayCall,
         TokenAccepted, Kick, Pcs, Event
<1>5. CompletionInv'
  BY DEF Inv, TypeOK, SourceTypeOK, CompletionInv, FlagsTypeOK, ControlTypeOK,
         SignalTypeOK, LockInv, pool_release_bank, UserMayCall, TokenAccepted,
         Kick
<1>6. ActiveInv'
  BY DEF Inv, TypeOK, ActiveInv, ControlTypeOK, GeometryTypeOK, BanksTypeOK,
         LockInv, InPool, pool_release_bank, UserMayCall, TokenAccepted, Kick
<1>7. ArmInv'
  BY DEF Inv, TypeOK, ArmInv, ControlTypeOK, GeometryTypeOK, BanksTypeOK,
         LockInv, InPool, InState, pool_release_bank, UserMayCall,
         TokenAccepted, Kick
<1>8. UnreadDataIntact'
  BY DEF Inv, TypeOK, UnreadDataIntact, BanksTypeOK, GeometryTypeOK,
         pool_release_bank, UserMayCall, TokenAccepted, Kick
<1> QED
  BY <1>1, <1>2, <1>3, <1>4, <1>5, <1>6, <1>7, <1>8
  DEF Inv, TypeOK, SourceTypeOK

(* The unlocked tail of RELEASE only reads. *)
LEMMA ReleaseWokenKeeps ==
  ASSUME Inv, ReleaseWoken PROVE Inv'
<1>1. FlagsTypeOK'
  BY DEF Inv, TypeOK, FlagsTypeOK, ReleaseWoken
<1>2. GeometryTypeOK'
  BY DEF Inv, TypeOK, GeometryTypeOK, BanksTypeOK, ReleaseWoken
<1>3. BanksTypeOK'
  BY DEF Inv, TypeOK, SourceTypeOK, BanksTypeOK, GeometryTypeOK, CounterTypeOK,
         ReleaseWoken
<1>4. CountsTypeOK'
  BY DEF Inv, TypeOK, SourceTypeOK, CountsTypeOK, CounterTypeOK, ReleaseWoken
<1>5. ControlTypeOK'
  BY DEF Inv, TypeOK, ControlTypeOK, ReleaseWoken, Pcs, Event
<1>6. SignalTypeOK'
  BY DEF Inv, TypeOK, SourceTypeOK, SignalTypeOK, ReleaseWoken
<1>7. CounterTypeOK'
  BY DEF Inv, TypeOK, SourceTypeOK, CounterTypeOK, ReleaseWoken
<1>8. LockInv'
  BY DEF Inv, TypeOK, LockInv, ControlTypeOK, ReleaseWoken
<1>9. CompletionInv'
  BY DEF Inv, TypeOK, SourceTypeOK, CompletionInv, FlagsTypeOK, ControlTypeOK,
         SignalTypeOK, LockInv, ReleaseWoken
<1>10. ActiveInv'
  BY DEF Inv, TypeOK, ActiveInv, ControlTypeOK, GeometryTypeOK, BanksTypeOK,
         LockInv, InPool, ReleaseWoken
<1>11. ArmInv'
  BY DEF Inv, TypeOK, ArmInv, ControlTypeOK, GeometryTypeOK, BanksTypeOK,
         LockInv, InPool, InState, ReleaseWoken
<1>12. EngineInv'
  BY DEF Inv, TypeOK, SourceTypeOK, EngineInv, SignalTypeOK, ControlTypeOK,
         ReleaseWoken
<1>13. UnreadDataIntact'
  BY DEF Inv, TypeOK, UnreadDataIntact, BanksTypeOK, GeometryTypeOK,
         ReleaseWoken
<1> QED
  BY <1>1, <1>2, <1>3, <1>4, <1>5, <1>6, <1>7, <1>8, <1>9, <1>10, <1>11,
     <1>12, <1>13 DEF Inv, TypeOK, SourceTypeOK

(* RELEASE returns. *)
LEMMA ReleaseReturnKeeps ==
  ASSUME Inv, ReleaseReturn PROVE Inv'
<1>1. (FlagsTypeOK /\ GeometryTypeOK /\ BanksTypeOK /\ CountsTypeOK
        /\ SignalTypeOK /\
        CounterTypeOK /\ LockInv /\ CompletionInv /\ ActiveInv /\ ArmInv
          /\ EngineInv /\
        UnreadDataIntact)'
  BY DEF Inv, TypeOK, SourceTypeOK, FlagsTypeOK, GeometryTypeOK, BanksTypeOK,
         CountsTypeOK, SignalTypeOK, CounterTypeOK, LockInv, CompletionInv,
         ActiveInv, ArmInv, EngineInv, UnreadDataIntact, InPool, InState,
         ReleaseReturn
<1>2. ControlTypeOK'
  BY DEF Inv, TypeOK, ControlTypeOK, ReleaseReturn, Pcs, Event
<1> QED
  BY <1>1, <1>2 DEF Inv, TypeOK, SourceTypeOK

(* A STOP request leaves the lock holders alone. *)
LEMMA pool_stopKeeps ==
  ASSUME Inv, pool_stop PROVE Inv'
<1>1. (GeometryTypeOK /\ BanksTypeOK /\ CountsTypeOK /\ SignalTypeOK /\
        CounterTypeOK /\ LockInv /\ ActiveInv /\ EngineInv
          /\ UnreadDataIntact)'
  BY DEF Inv, TypeOK, SourceTypeOK, GeometryTypeOK, BanksTypeOK, CountsTypeOK,
         SignalTypeOK, CounterTypeOK, LockInv, ActiveInv, EngineInv,
         UnreadDataIntact, InPool, pool_stop, UserMayCall, RequestStop
<1>2. FlagsTypeOK'
  BY DEF Inv, TypeOK, FlagsTypeOK, pool_stop, UserMayCall, RequestStop
<1>3. ControlTypeOK'
  BY DEF Inv, TypeOK, ControlTypeOK, pool_stop, UserMayCall, RequestStop, Pcs,
         Event
<1>4. CompletionInv'
  BY DEF Inv, TypeOK, SourceTypeOK, CompletionInv, FlagsTypeOK, ControlTypeOK,
         SignalTypeOK, LockInv, pool_stop, UserMayCall, RequestStop
<1>5. ArmInv'
  BY DEF Inv, TypeOK, ArmInv, ControlTypeOK, GeometryTypeOK, BanksTypeOK,
         LockInv, InPool, InState, pool_stop, UserMayCall, RequestStop
<1> QED
  BY <1>1, <1>2, <1>3, <1>4, <1>5 DEF Inv, TypeOK, SourceTypeOK

(* STOP returns, with the worker done or not. *)
LEMMA StopReturnKeeps ==
  ASSUME Inv, StopReturn PROVE Inv'
<1>1. (FlagsTypeOK /\ GeometryTypeOK /\ BanksTypeOK /\ CountsTypeOK
        /\ SignalTypeOK /\
        CounterTypeOK /\ LockInv /\ CompletionInv /\ ActiveInv /\ ArmInv
          /\ EngineInv /\
        UnreadDataIntact)'
  BY DEF Inv, TypeOK, SourceTypeOK, FlagsTypeOK, GeometryTypeOK, BanksTypeOK,
         CountsTypeOK, SignalTypeOK, CounterTypeOK, LockInv, CompletionInv,
         ActiveInv, ArmInv, EngineInv, UnreadDataIntact, InPool, InState,
         StopReturn
<1>2. ControlTypeOK'
  BY DEF Inv, TypeOK, ControlTypeOK, StopReturn, Pcs, Event
<1> QED
  BY <1>1, <1>2 DEF Inv, TypeOK, SourceTypeOK

(* Close ends the run before it frees anything. *)
LEMMA CloseStopKeeps ==
  ASSUME Inv, CloseStop PROVE Inv'
<1>1. \A a \in Actor : pc[a] \notin Arming
  BY DEF Inv, TypeOK, ControlTypeOK, LockInv, CloseStop
<1>2. (GeometryTypeOK /\ BanksTypeOK /\ CountsTypeOK /\ SignalTypeOK /\
        CounterTypeOK /\ LockInv /\ ActiveInv /\ EngineInv
          /\ UnreadDataIntact)'
  BY DEF Inv, TypeOK, SourceTypeOK, GeometryTypeOK, BanksTypeOK, CountsTypeOK,
         SignalTypeOK, CounterTypeOK, LockInv, ActiveInv, EngineInv,
         UnreadDataIntact, InPool, CloseStop, UserMayCall, RequestStop
<1>3. FlagsTypeOK'
  BY DEF Inv, TypeOK, FlagsTypeOK, CloseStop, UserMayCall, RequestStop
<1>4. ControlTypeOK'
  BY DEF Inv, TypeOK, ControlTypeOK, CloseStop, UserMayCall, RequestStop, Pcs,
         Event
<1>5. CompletionInv'
  BY DEF Inv, TypeOK, SourceTypeOK, CompletionInv, FlagsTypeOK, ControlTypeOK,
         SignalTypeOK, LockInv, CloseStop, UserMayCall, RequestStop
<1>6. ArmInv'
  <2>1. pc' = pc
    BY DEF CloseStop
  <2>2. running' => running /\ stopping' = stopping
    BY DEF CloseStop, RequestStop
  <2> QED
    BY <1>1, <2>1, <2>2 DEF Inv, ArmInv
<1> QED
  BY <1>2, <1>3, <1>4, <1>5, <1>6 DEF Inv, TypeOK, SourceTypeOK

(* Close goes on whatever STOP reported. *)
LEMMA CloseStoppedKeeps ==
  ASSUME Inv, CloseStopped PROVE Inv'
<1>1. (FlagsTypeOK /\ GeometryTypeOK /\ BanksTypeOK /\ CountsTypeOK
        /\ SignalTypeOK /\
        CounterTypeOK /\ LockInv /\ CompletionInv /\ ActiveInv /\ EngineInv /\
        UnreadDataIntact)'
  BY DEF Inv, TypeOK, SourceTypeOK, FlagsTypeOK, GeometryTypeOK, BanksTypeOK,
         CountsTypeOK, SignalTypeOK, CounterTypeOK, LockInv, CompletionInv,
         ActiveInv, EngineInv, UnreadDataIntact, InPool, CloseStopped
<1>2. ControlTypeOK'
  BY DEF Inv, TypeOK, ControlTypeOK, CloseStopped, Pcs, Event
<1>3. ArmInv'
  BY DEF Inv, TypeOK, ArmInv, ControlTypeOK, GeometryTypeOK, BanksTypeOK,
         LockInv, InPool, InState, CloseStopped
<1> QED
  BY <1>1, <1>2, <1>3 DEF Inv, TypeOK, SourceTypeOK

(* Close forgets bank states but not that the channel is busy. *)
LEMMA CloseFinalKeeps ==
  ASSUME Inv, CloseFinal PROVE Inv'
<1>1. (GeometryTypeOK /\ SignalTypeOK /\ CounterTypeOK /\ LockInv
        /\ CompletionInv /\
        EngineInv)'
  BY DEF Inv, TypeOK, SourceTypeOK, GeometryTypeOK, SignalTypeOK,
         CounterTypeOK, LockInv, CompletionInv, EngineInv, CloseFinal
<1>2. FlagsTypeOK'
  BY DEF Inv, TypeOK, FlagsTypeOK, CloseFinal
<1>3. BanksTypeOK'
  BY DEF Inv, TypeOK, SourceTypeOK, BanksTypeOK, GeometryTypeOK, CounterTypeOK,
         CloseFinal
<1>4. CountsTypeOK'
  BY DEF Inv, TypeOK, SourceTypeOK, CountsTypeOK, CounterTypeOK,
         GeometryTypeOK, CloseFinal
<1>5. ControlTypeOK'
  BY DEF Inv, TypeOK, ControlTypeOK, CloseFinal, Pcs, Event
<1>6. ActiveInv'
  BY DEF Inv, TypeOK, ActiveInv, ControlTypeOK, GeometryTypeOK, BanksTypeOK,
         LockInv, InPool, CloseFinal
<1>7. ArmInv'
  BY DEF Inv, TypeOK, ArmInv, ControlTypeOK, GeometryTypeOK, BanksTypeOK,
         LockInv, InPool, InState, CloseFinal
<1>8. UnreadDataIntact'
  BY DEF Inv, TypeOK, UnreadDataIntact, BanksTypeOK, GeometryTypeOK, CloseFinal
<1> QED
  BY <1>1, <1>2, <1>3, <1>4, <1>5, <1>6, <1>7, <1>8
  DEF Inv, TypeOK, SourceTypeOK
(* The initial state satisfies the invariant. *)
LEMMA InitInv == Init => Inv
<1> SUFFICES ASSUME Init PROVE Inv
  OBVIOUS
<1>1. TypeOK
  <2>1. FlagsTypeOK /\ SourceTypeOK
    BY DEF Init, SourceInit, FlagsTypeOK, SourceTypeOK, SignalTypeOK,
           CounterTypeOK
  <2>2. GeometryTypeOK /\ CountsTypeOK
    BY MaxBanksAssumption DEF Init, SourceInit, GeometryTypeOK, CountsTypeOK,
                              Bank, NoBank
  <2>3. BanksTypeOK
    BY DEF Init, BanksTypeOK, NoResult
  <2>4. ControlTypeOK
    BY DEF Init, ControlTypeOK, Event, Pcs
  <2> QED
    BY <2>1, <2>2, <2>3, <2>4 DEF TypeOK
<1>2. LockInv /\ CompletionInv /\ ActiveInv /\ ArmInv
  BY DEF Init, SourceInit, LockInv, CompletionInv, ActiveInv, ArmInv
<1>3. EngineInv /\ UnreadDataIntact
  BY DEF Init, SourceInit, EngineInv, UnreadDataIntact
<1> QED
  BY <1>1, <1>2, <1>3 DEF Inv

(* Every step of the lock holders, of the hardware and of userspace keeps  *)
(* the invariant.                                                          *)
LEMMA NextInv == Inv /\ [Next]_vars => Inv'
<1> SUFFICES ASSUME Inv, [Next]_vars PROVE Inv'
  OBVIOUS
<1>1. ASSUME NEW a \in Actor, ArmOrDrain(a) PROVE Inv'
  BY <1>1, ArmAccountKeeps, ArmResetKeeps, ArmIssueKeeps, ArmSubmitFailsKeeps,
     ArmConfirmedKeeps, ArmTimeoutKeeps, ArmFailedKeeps, DrainAbortKeeps,
     DrainWaitKeeps, DrainTimeoutKeeps, DrainCheckKeeps, DrainResetKeeps
  DEF ArmOrDrain
<1>2. CASE Hardware
  BY <1>2, TriggerKeeps, EngineFinishKeeps, dma_completeKeeps DEF Hardware
<1>3. CASE Worker
  BY <1>1, <1>3, WorkerTakeEventsKeeps, WorkerStopKeeps, WorkerStopResetKeeps,
     WorkerStopEndKeeps, WorkerLockKeeps, FinalizeKeeps, FinalizeReadyKeeps,
     FinalizeFailedKeeps, RearmKeeps
  DEF Worker
<1>4. CASE User
  BY <1>1, <1>4, openKeeps, pool_startKeeps, pool_dequeueKeeps,
     pool_release_bankKeeps, ReleaseWokenKeeps, ReleaseReturnKeeps,
     pool_stopKeeps, StopReturnKeeps, CloseStopKeeps, CloseStoppedKeeps,
     CloseFinalKeeps
  DEF User
<1>5. CASE UNCHANGED vars
  BY <1>5 DEF vars, Inv, TypeOK, FlagsTypeOK, GeometryTypeOK, BanksTypeOK,
              CountsTypeOK, ControlTypeOK, SourceTypeOK, SignalTypeOK,
              CounterTypeOK, LockInv, CompletionInv, ActiveInv, InPool, ArmInv,
              InState, EngineInv, UnreadDataIntact
<1> QED
  BY <1>2, <1>3, <1>4, <1>5 DEF Next

(* The invariant holds in every reachable state. *)
LEMMA Invariance == Spec => []Inv
  BY InitInv, NextInv, PTL DEF Spec

(* Type correctness of the driver's pool state, of its two lock holders    *)
(* and of the hardware, for every pool size and every fault.               *)
THEOREM TypeCorrect == Spec => []TypeOK
<1>1. Inv => TypeOK
  BY DEF Inv
<1> QED
  BY <1>1, Invariance, PTL

(* The DMA channel never writes outside the bank the driver holds FILLING: *)
(* whatever RELEASE, STOP, close, a late callback or a failed reset do, an *)
(* active channel implies dma_active, filling_bank names its bank, and     *)
(* until close that bank is in state FILLING.                              *)
THEOREM ChannelOwnership == Spec => []DmaOwnsFilling
<1>1. Inv => DmaOwnsFilling
  BY DEF Inv, CompletionInv, ActiveInv, DmaOwnsFilling
<1> QED
  BY <1>1, Invariance, PTL

(* Unread measurement data is never overwritten: a READY or USER_OWNED     *)
(* bank holds the samples of the shot that its metadata names.             *)
THEOREM UnreadDataSafe == Spec => []UnreadDataIntact
<1>1. Inv => UnreadDataIntact
  BY DEF Inv
<1> QED
  BY <1>1, Invariance, PTL

(* Where the code resets the stream engine, no descriptor is issued. *)
LEMMA ResetsAreQuiet ==
  ASSUME Inv, Next, engine # "idle", engine' = "idle", dma = "issued"
  PROVE  dma' = "complete"
<1>1. dma_active /\ "DMA_DONE" \notin events /\ ~InHands /\ ~Answered
  BY DEF Inv, CompletionInv
<1>2. ASSUME NEW a \in Actor, ArmOrDrain(a) PROVE FALSE
  <2>1. pc[a] \notin Arming \cup Answering
    BY <1>1, <1>2 DEF Inv, ArmInv, LockInv
  <2>2. ~(ArmReset(a) \/ ArmSubmitFails(a) \/ DrainReset(a))
    BY <2>1 DEF ArmReset, ArmSubmitFails, DrainReset, Goto
  <2>3. ArmIssue(a) => engine' # "idle"
    BY DEF ArmIssue, IssueAndCommand
  <2>4. DrainAbort(a) => engine' # "idle"
    BY DEF DrainAbort, AbortIfQuiet
  <2>5. \/ ArmAccount(a) \/ ArmConfirmed(a) \/ ArmTimeout(a) \/ ArmFailed(a)
        \/ DrainWait(a) \/ DrainTimeout(a) \/ DrainCheck(a)
    BY <1>2, <2>2, <2>3, <2>4 DEF ArmOrDrain
  <2> QED
    BY <2>5 DEF ArmAccount, ArmConfirmed, ArmTimeout, ArmFailed, DrainWait,
                DrainTimeout, DrainCheck
<1>3. CASE Hardware
  BY <1>3 DEF Hardware, Trigger, TriggerEngine, EngineFinish, FinishEngine,
              dma_complete
<1>4. CASE Worker
  <2>1. pc["worker"] \notin Finalizing \cup {"stop_reset"}
    BY <1>1 DEF Inv, ActiveInv
  <2>2. ~(WorkerStopReset \/ FinalizeReady \/ FinalizeFailed)
    BY <2>1 DEF WorkerStopReset, FinalizeReady, FinalizeFailed, Goto
  <2>3. \/ WorkerTakeEvents \/ WorkerStop \/ WorkerStopEnd \/ WorkerLock
        \/ Finalize \/ Rearm
    BY <1>2, <1>4, <2>2 DEF Worker
  <2> QED
    BY <2>3 DEF WorkerTakeEvents, WorkerStop, WorkerStopEnd, WorkerLock,
                Finalize, Rearm
<1>5. CASE User
  <2>1. \A n \in 2 .. MaxBanks : ~pool_start(n)
    BY <1>1 DEF pool_start, pool_owns_buffer
  <2>2. \/ open \/ pool_dequeue \/ \E t \in Presented : pool_release_bank(t)
        \/ ReleaseWoken \/ ReleaseReturn \/ pool_stop \/ StopReturn
        \/ CloseStop \/ CloseStopped \/ CloseFinal
    BY <1>2, <1>5, <2>1 DEF User
  <2> QED
    BY <2>2 DEF open, pool_dequeue, pool_release_bank, ReleaseWoken,
                ReleaseReturn, pool_stop, StopReturn, CloseStop, CloseStopped,
                CloseFinal
<1> QED
  BY <1>3, <1>4, <1>5 DEF Next

(* The driver never resets the source under an issued transfer: STOP,      *)
(* close, failed arms and START reach qcrate_reset_stream only after the   *)
(* channel has completed.                                                  *)
THEOREM ResetSafe == Spec => NeverResetUnderDma
<1>1. Inv /\ [Next]_vars =>
        [engine # "idle" /\ engine' = "idle" /\ dma = "issued"
           => dma' = "complete"]_vars
  BY ResetsAreQuiet
<1> QED
  BY <1>1, Invariance, PTL DEF Spec, NeverResetUnderDma

-----------------------------------------------------------------------------
(* What a bank that is unread or lent says about itself: the run, the      *)
(* generation and a sequence number that no other such bank has.           *)
Owned == InState("READY") \cup InState("USER_OWNED")
MetaInv ==
  configured =>
    /\ next_sequence > 0
    /\ \A b \in Owned :
         /\ result[b].run = run_id /\ result[b].generation = generation[b]
         /\ result[b].sequence = sequence[b]
         /\ sequence[b] \in 1 .. next_sequence - 1
    /\ \A b, c \in Owned : sequence[b] = sequence[c] => b = c

(* The tokens that are out name the lent banks. *)
TokenInv ==
  configured => held = {TokenOf(b) : b \in InState("USER_OWNED")}

Account == CountsExact /\ MetaInv /\ TokenInv

acct == <<configured, geom, state, generation, sequence, result, ready_banks,
          user_banks, free_banks, next_sequence, held>>

USE DEF acct

(* The banks in a state are finitely many. *)
LEMMA InStateFinite ==
  \A s : IsFiniteSet(InState(s)) /\ Cardinality(InState(s)) \in Nat
         /\ InState(s) \subseteq Bank
<1>1. IsFiniteSet(Bank)
  BY MaxBanksAssumption, FS_Interval DEF Bank
<1>2. \A s : InState(s) \subseteq Bank
  BY DEF InState
<1> QED
  BY <1>1, <1>2, FS_Subset, FS_CardinalityType

(* A bank joins or leaves the banks in a state: the count follows. *)
LEMMA CountFollows ==
  ASSUME NEW s, NEW b \in Bank
  PROVE  /\ b \in InState(s) /\ InState(s)' = InState(s) \ {b} =>
              Cardinality(InState(s)') = Cardinality(InState(s)) - 1
         /\ b \notin InState(s) /\ InState(s)' = InState(s) \cup {b} =>
              Cardinality(InState(s)') = Cardinality(InState(s)) + 1
BY InStateFinite, FS_RemoveElement, FS_AddElement

(* Steps that leave the banks and the counters alone. *)
LEMMA AccountFrame ==
  ASSUME Account, UNCHANGED acct PROVE Account'
<1>1. (\A s : InState(s)' = InState(s)) /\ Owned' = Owned
  BY DEF InState, InPool, Owned
<1>2. CountsExact'
  BY <1>1 DEF Account, CountsExact
<1>3. MetaInv'
  BY <1>1 DEF Account, MetaInv
<1>4. TokenInv'
  BY <1>1 DEF Account, TokenInv, TokenOf
<1> QED
  BY <1>2, <1>3, <1>4 DEF Account

(* A bank is armed: one FREE bank less. *)
LEMMA ArmIssueAccount ==
  ASSUME NEW a \in Actor, Inv, Account, ArmIssue(a) PROVE Account'
<1>1. pc[a] = "arm_issue"
  BY DEF ArmIssue, Goto
<1>2. PICK b \in ArmTarget(a) :
        /\ state' = [state EXCEPT ![b] = "FILLING"]
        /\ generation' = [generation EXCEPT ![b] = @ + 1]
  BY DEF ArmIssue
<1>3. b \in Bank /\ InPool(b) /\ state[b] = "FREE"
  BY <1>1 DEF Inv, ArmInv, InState, ArmTarget
<1>4. UNCHANGED <<configured, geom, sequence, result, ready_banks, user_banks,
                  next_sequence, held>>
        /\ free_banks' = free_banks - 1
  BY DEF ArmIssue
<1>5. /\ b \in InState("FREE") /\ InState("FREE")' = InState("FREE") \ {b}
      /\ InState("READY")' = InState("READY")
      /\ InState("USER_OWNED")' = InState("USER_OWNED")
      /\ b \notin Owned
  BY <1>2, <1>3, <1>4 DEF Inv, TypeOK, BanksTypeOK, InState, InPool, Owned
<1>6. CountsExact'
  <2>1. Cardinality(InState("FREE")') = Cardinality(InState("FREE")) - 1
    BY <1>3, <1>5, CountFollows
  <2> QED
    BY <1>4, <1>5, <2>1 DEF Account, CountsExact
<1>7. \A c \in Owned : generation'[c] = generation[c]
  BY <1>2, <1>5 DEF Inv, TypeOK, BanksTypeOK, Owned, InState
<1>8. MetaInv' /\ TokenInv'
  BY <1>4, <1>5, <1>7 DEF Account, MetaInv, TokenInv, Owned, TokenOf
<1> QED
  BY <1>6, <1>8 DEF Account

(* The bank whose completion is being answered. *)
LEMMA InFlight ==
  ASSUME Inv, \/ \E a \in Actor : pc[a] \in Answering
              \/ pc["worker"] \in Finalizing
  PROVE  /\ filling_bank \in Bank /\ InPool(filling_bank)
         /\ configured => state[filling_bank] = "FILLING"
<1>1. dma_active = TRUE
  BY DEF Inv, TypeOK, FlagsTypeOK, CompletionInv
<1> QED
  BY <1>1 DEF Inv, TypeOK, GeometryTypeOK, ActiveInv

(* A bank in flight that yields no shot is FREE again. *)
LEMMA BankReturned ==
  ASSUME Inv, Account, NEW b \in Bank, InPool(b),
         configured => state[b] = "FILLING",
         state' = [state EXCEPT ![b] = "FREE"], free_banks' = free_banks + 1,
         \A c \in Bank \ {b} : result'[c] = result[c],
         UNCHANGED <<configured, geom, generation, sequence, ready_banks,
                     user_banks, next_sequence, held>>
  PROVE  Account'
<1> SUFFICES ASSUME configured PROVE Account'
  BY DEF Account, CountsExact, MetaInv, TokenInv
<1>1. /\ b \notin InState("FREE") /\ InState("FREE")' = InState("FREE") \cup {b}
      /\ InState("READY")' = InState("READY")
      /\ InState("USER_OWNED")' = InState("USER_OWNED")
      /\ b \notin Owned /\ Owned \subseteq Bank
  BY DEF Inv, TypeOK, BanksTypeOK, InState, InPool, Owned
<1>2. CountsExact'
  <2>1. Cardinality(InState("FREE")') = Cardinality(InState("FREE")) + 1
    BY <1>1, CountFollows
  <2> QED
    BY <1>1, <2>1 DEF Account, CountsExact
<1>3. \A c \in Owned : result'[c] = result[c]
  BY <1>1
<1>4. MetaInv'
  BY <1>1, <1>3 DEF Account, MetaInv, Owned
<1>5. TokenInv'
  BY <1>1, <1>3 DEF Account, TokenInv, Owned, TokenOf
<1> QED
  BY <1>2, <1>4, <1>5 DEF Account

(* A drained bank goes back; a drain whose reset fails changes nothing. *)
LEMMA DrainResetAccount ==
  ASSUME NEW a \in Actor, Inv, Account, DrainReset(a) PROVE Account'
<1>1. filling_bank \in Bank /\ InPool(filling_bank)
        /\ (configured => state[filling_bank] = "FILLING")
  BY InFlight DEF DrainReset
<1>2. UNCHANGED <<configured, geom, generation, sequence, result, ready_banks,
                  user_banks, next_sequence, held>>
  BY DEF DrainReset
<1>3. CASE /\ state' = [state EXCEPT ![filling_bank] = "FREE"]
           /\ free_banks' = free_banks + 1
  BY <1>1, <1>2, <1>3, BankReturned
<1>4. CASE UNCHANGED <<state, free_banks>>
  BY <1>2, <1>4, AccountFrame
<1> QED
  BY <1>3, <1>4 DEF DrainReset

(* A failed finalize gives the bank back. *)
LEMMA FinalizeFailedAccount ==
  ASSUME Inv, Account, FinalizeFailed PROVE Account'
<1>1. filling_bank \in Bank /\ InPool(filling_bank)
        /\ (configured => state[filling_bank] = "FILLING")
  BY InFlight DEF FinalizeFailed, Goto
<1>2. /\ state' = [state EXCEPT ![filling_bank] = "FREE"]
      /\ free_banks' = free_banks + 1
      /\ UNCHANGED <<configured, geom, generation, sequence, ready_banks,
                     user_banks, next_sequence, held>>
  BY DEF FinalizeFailed
<1>3. \A c \in Bank \ {filling_bank} : result'[c] = result[c]
  BY DEF FinalizeFailed, Inv, TypeOK, BanksTypeOK
<1> QED
  BY <1>1, <1>2, <1>3, BankReturned

(* A captured shot: one READY bank more, with the next sequence number. *)
LEMMA FinalizeReadyAccount ==
  ASSUME Inv, Account, FinalizeReady PROVE Account'
<1> SUFFICES ASSUME configured PROVE Account'
  BY DEF Account, CountsExact, MetaInv, TokenInv, FinalizeReady
<1> DEFINE b == filling_bank
<1>1. b \in Bank /\ InPool(b) /\ state[b] = "FILLING"
  BY InFlight DEF FinalizeReady, Goto
<1> HIDE DEF b
<1>2. /\ state' = [state EXCEPT ![b] = "READY"]
      /\ sequence' = [sequence EXCEPT ![b] = next_sequence]
      /\ result' = [result EXCEPT ![b] =
                      [run |-> run_id, generation |-> generation[b],
                       sequence |-> next_sequence, shot |-> shot_id]]
      /\ next_sequence' = next_sequence + 1 /\ ready_banks' = ready_banks + 1
      /\ UNCHANGED <<configured, geom, generation, user_banks, free_banks, held>>
  BY DEF FinalizeReady, b
<1>3. /\ b \notin InState("READY") /\ InState("READY")' = InState("READY") \cup {b}
      /\ InState("FREE")' = InState("FREE")
      /\ InState("USER_OWNED")' = InState("USER_OWNED")
      /\ b \notin Owned /\ Owned \subseteq Bank /\ Owned' = Owned \cup {b}
  BY <1>1, <1>2 DEF Inv, TypeOK, BanksTypeOK, InState, InPool, Owned
<1>4. CountsExact'
  <2>1. Cardinality(InState("READY")') = Cardinality(InState("READY")) + 1
    BY <1>1, <1>3, CountFollows
  <2> QED
    BY <1>2, <1>3, <2>1 DEF Account, CountsExact
<1>5. \A c \in Owned : result'[c] = result[c] /\ sequence'[c] = sequence[c]
  BY <1>2, <1>3 DEF Inv, TypeOK, BanksTypeOK
<1>6. /\ result'[b].run = run_id /\ result'[b].generation = generation[b]
      /\ result'[b].sequence = next_sequence /\ sequence'[b] = next_sequence
  BY <1>1, <1>2 DEF Inv, TypeOK, BanksTypeOK
<1>7. next_sequence \in Nat /\ next_sequence > 0
        /\ \A c \in Owned : sequence[c] \in 1 .. next_sequence - 1
  BY DEF Inv, TypeOK, GeometryTypeOK, Account, MetaInv
<1>8. MetaInv'
  <2>1. \A c \in Owned' : /\ result'[c].run = run_id'
                          /\ result'[c].generation = generation'[c]
                          /\ result'[c].sequence = sequence'[c]
    BY <1>2, <1>3, <1>5, <1>6 DEF Account, MetaInv
  <2>2. \A c \in Owned' : sequence'[c] \in 1 .. next_sequence' - 1
    BY <1>2, <1>3, <1>5, <1>6, <1>7
  <2>3. \A c, d \in Owned' : sequence'[c] = sequence'[d] => c = d
    <3>1. \A c \in Owned : sequence'[c] # next_sequence
      BY <1>5, <1>7
    <3> QED
      BY <1>3, <1>5, <1>6, <3>1 DEF Account, MetaInv
  <2> QED
    BY <1>2, <1>7, <2>1, <2>2, <2>3 DEF MetaInv
<1>9. TokenInv'
  BY <1>2, <1>3, <1>5 DEF Account, TokenInv, Owned, TokenOf
<1> QED
  BY <1>4, <1>8, <1>9 DEF Account

(* STOP turns every READY bank into a FREE one, and the counters follow. *)
LEMMA WorkerStopEndAccount ==
  ASSUME Inv, Account, WorkerStopEnd PROVE Account'
<1>1. UNCHANGED <<configured, geom, generation, sequence, result, user_banks,
                  next_sequence, held>>
  BY DEF WorkerStopEnd
<1>2. CASE UNCHANGED <<state, ready_banks, free_banks>>
  BY <1>1, <1>2, AccountFrame
<1>3. CASE discard_ready
  <2>1. /\ InState("READY")' = {}
        /\ InState("FREE")' = InState("FREE") \cup InState("READY")
        /\ InState("FREE") \cap InState("READY") = {}
        /\ InState("USER_OWNED")' = InState("USER_OWNED")
        /\ Owned' \subseteq Owned
    BY <1>1, <1>3 DEF discard_ready, Inv, TypeOK, BanksTypeOK, InState, InPool,
                      Owned
  <2>2. CountsExact'
    <3>1. Cardinality(InState("READY")') = 0
      BY <2>1, FS_EmptySet
    <3>2. Cardinality(InState("FREE")')
            = Cardinality(InState("FREE")) + Cardinality(InState("READY"))
      <4>1. Cardinality(InState("FREE") \cup InState("READY"))
              = Cardinality(InState("FREE")) + Cardinality(InState("READY"))
                  - Cardinality(InState("FREE") \cap InState("READY"))
        BY InStateFinite, FS_Union
      <4>2. Cardinality(InState("FREE") \cap InState("READY")) = 0
        BY <2>1, FS_EmptySet
      <4>3. Cardinality(InState("FREE")) \in Nat
              /\ Cardinality(InState("READY")) \in Nat
        BY InStateFinite
      <4>4. Cardinality(InState("FREE")')
              = Cardinality(InState("FREE") \cup InState("READY"))
        BY <2>1
      <4> QED
        BY <4>1, <4>2, <4>3, <4>4
    <3> QED
      BY <1>1, <1>3, <2>1, <3>1, <3>2, InStateFinite
      DEF discard_ready, Account, CountsExact
  <2>3. MetaInv'
    BY <1>1, <2>1 DEF Account, MetaInv
  <2>4. TokenInv'
    BY <1>1, <2>1 DEF Account, TokenInv, TokenOf
  <2> QED
    BY <2>2, <2>3, <2>4 DEF Account
<1> QED
  BY <1>2, <1>3 DEF WorkerStopEnd

(* START: every bank of the pool is FREE and no token is out. *)
LEMMA pool_startAccount ==
  ASSUME NEW n \in 2 .. MaxBanks, pool_start(n) PROVE Account'
<1>1. /\ state' = [b \in Bank |-> "FREE"] /\ bank_count' = n
      /\ ready_banks' = 0 /\ user_banks' = 0 /\ free_banks' = n
      /\ next_sequence' = 1 /\ held' = {}
  BY DEF pool_start
<1>2. /\ InState("READY")' = {} /\ InState("USER_OWNED")' = {}
      /\ InState("FREE")' = 0 .. n - 1
  BY <1>1, MaxBanksAssumption DEF InState, InPool, Bank
<1>3. Cardinality(0 .. n - 1) = n
  BY MaxBanksAssumption, FS_Interval
<1>4. CountsExact'
  BY <1>1, <1>2, <1>3, FS_EmptySet DEF CountsExact
<1>5. MetaInv'
  BY <1>1, <1>2 DEF MetaInv, Owned
<1>6. TokenInv'
  BY <1>1, <1>2 DEF TokenInv
<1> QED
  BY <1>4, <1>5, <1>6 DEF Account

(* DEQUEUE: the oldest READY bank is lent and its token is out. *)
LEMMA pool_dequeueAccount ==
  ASSUME Inv, Account, pool_dequeue PROVE Account'
<1> SUFFICES ASSUME configured PROVE Account'
  BY DEF Account, CountsExact, MetaInv, TokenInv, pool_dequeue
<1>1. PICK b \in InState("READY") :
        /\ state' = [state EXCEPT ![b] = "USER_OWNED"]
        /\ held' = held \cup {TokenOf(b)}
  BY DEF pool_dequeue
<1>2. /\ ready_banks' = ready_banks - 1 /\ user_banks' = user_banks + 1
      /\ UNCHANGED <<configured, geom, generation, sequence, result, free_banks,
                     next_sequence>>
  BY DEF pool_dequeue
<1>3. /\ b \in Bank /\ InState("READY")' = InState("READY") \ {b}
      /\ b \notin InState("USER_OWNED")
      /\ InState("USER_OWNED")' = InState("USER_OWNED") \cup {b}
      /\ InState("FREE")' = InState("FREE")
      /\ Owned' = Owned
  BY <1>1, <1>2 DEF Inv, TypeOK, BanksTypeOK, InState, InPool, Owned
<1>4. CountsExact'
  <2>1. Cardinality(InState("READY")') = Cardinality(InState("READY")) - 1
    BY <1>1, <1>3, CountFollows
  <2>2. Cardinality(InState("USER_OWNED")')
          = Cardinality(InState("USER_OWNED")) + 1
    BY <1>1, <1>3, CountFollows
  <2> QED
    BY <1>2, <1>3, <2>1, <2>2 DEF Account, CountsExact
<1>5. MetaInv'
  BY <1>2, <1>3 DEF Account, MetaInv
<1>6. TokenInv'
  BY <1>1, <1>2, <1>3 DEF Account, TokenInv, TokenOf
<1> QED
  BY <1>4, <1>5, <1>6 DEF Account

(* A token that RELEASE accepts is the one its bank was lent with. *)
LEMMA AcceptedToken ==
  ASSUME Inv, MetaInv, configured, NEW t \in Presented, TokenAccepted(t)
  PROVE  t.bank \in InState("USER_OWNED") /\ t = TokenOf(t.bank)
<1>1. t.bank \in InState("USER_OWNED")
  BY DEF Presented, TokenAccepted, InState
<1>2. /\ result[t.bank].run = t.run
      /\ result[t.bank].generation = t.generation
      /\ result[t.bank].sequence = t.sequence
  BY <1>1 DEF MetaInv, Owned, TokenAccepted
<1>3. t = [bank |-> t.bank, generation |-> t.generation,
           sequence |-> t.sequence, run |-> t.run]
  BY DEF Presented
<1> QED
  BY <1>1, <1>2, <1>3 DEF TokenOf

(* RELEASE: the bank is FREE again and its token is no longer out. *)
LEMMA pool_release_bankAccount ==
  ASSUME NEW t \in Presented, Inv, Account, pool_release_bank(t)
  PROVE  Account'
<1> SUFFICES ASSUME configured PROVE Account'
  BY DEF Account, CountsExact, MetaInv, TokenInv, pool_release_bank
<1> DEFINE b == t.bank
<1>1. b \in InState("USER_OWNED") /\ t = TokenOf(b)
  BY AcceptedToken DEF Account, pool_release_bank
<1>2. /\ state' = [state EXCEPT ![b] = "FREE"] /\ held' = held \ {TokenOf(b)}
      /\ user_banks' = user_banks - 1 /\ free_banks' = free_banks + 1
      /\ UNCHANGED <<configured, geom, generation, sequence, result,
                     ready_banks, next_sequence>>
  BY <1>1 DEF pool_release_bank
<1> HIDE DEF b
<1>3. /\ b \in Bank /\ InState("USER_OWNED")' = InState("USER_OWNED") \ {b}
      /\ b \notin InState("FREE") /\ InState("FREE")' = InState("FREE") \cup {b}
      /\ InState("READY")' = InState("READY")
      /\ Owned' \subseteq Owned
  BY <1>1, <1>2 DEF Inv, TypeOK, BanksTypeOK, InState, InPool, Owned
<1>4. CountsExact'
  <2>1. Cardinality(InState("USER_OWNED")')
          = Cardinality(InState("USER_OWNED")) - 1
    BY <1>1, <1>3, CountFollows
  <2>2. Cardinality(InState("FREE")') = Cardinality(InState("FREE")) + 1
    BY <1>1, <1>3, CountFollows
  <2> QED
    BY <1>2, <1>3, <2>1, <2>2 DEF Account, CountsExact
<1>5. MetaInv'
  BY <1>2, <1>3 DEF Account, MetaInv
<1>6. \A c, d \in Bank : TokenOf(c) = TokenOf(d) => c = d
  BY DEF TokenOf
<1>7. TokenInv'
  <2>1. held' = {TokenOf(c) : c \in InState("USER_OWNED") \ {b}}
    BY <1>1, <1>2, <1>6 DEF Account, TokenInv, InState
  <2>2. \A c : TokenOf(c)' = TokenOf(c)
    BY <1>2 DEF TokenOf
  <2> QED
    BY <1>3, <2>1, <2>2 DEF TokenInv
<1> QED
  BY <1>4, <1>5, <1>7 DEF Account

(* Init: the pool is not configured. *)
LEMMA InitAccount == Init => Account
  BY DEF Init, Account, CountsExact, MetaInv, TokenInv

(* The steps of a lock holder other than issuing and the drain's end. *)
LEMMA HelperFrame ==
  ASSUME NEW a \in Actor, ArmOrDrain(a), ~ArmIssue(a), ~DrainReset(a)
  PROVE  UNCHANGED acct
BY DEF ArmOrDrain, ArmAccount, ArmReset, ArmSubmitFails, ArmConfirmed,
       ArmTimeout, ArmFailed, DrainAbort, DrainWait, DrainTimeout, DrainCheck

(* The steps of the worker that change no bank. *)
LEMMA WorkerFrame ==
  ASSUME WorkerTakeEvents \/ WorkerStop \/ WorkerStopReset \/ WorkerLock
           \/ Finalize \/ Rearm
  PROVE  UNCHANGED acct
BY DEF WorkerTakeEvents, WorkerStop, WorkerStopReset, WorkerLock, Finalize,
       Rearm

(* The hardware and the calls that change no bank. *)
LEMMA OtherFrame ==
  ASSUME Hardware \/ open \/ ReleaseWoken \/ ReleaseReturn \/ pool_stop
           \/ StopReturn \/ CloseStop \/ CloseStopped
  PROVE  UNCHANGED acct
BY DEF Hardware, Trigger, EngineFinish, dma_complete, open, ReleaseWoken,
       ReleaseReturn, pool_stop, StopReturn, CloseStop, CloseStopped

(* Every step keeps the account. *)
LEMMA NextAccount == Inv /\ Account /\ [Next]_vars => Account'
<1> SUFFICES ASSUME Inv, Account, [Next]_vars PROVE Account'
  OBVIOUS
<1>1. ASSUME NEW a \in Actor, ArmOrDrain(a) PROVE Account'
  BY <1>1, ArmIssueAccount, DrainResetAccount, HelperFrame, AccountFrame
<1>2. CASE Worker
  BY <1>1, <1>2, WorkerFrame, AccountFrame, WorkerStopEndAccount,
     FinalizeReadyAccount, FinalizeFailedAccount DEF Worker
<1>3. CASE CloseFinal
  BY <1>3 DEF CloseFinal, Account, CountsExact, MetaInv, TokenInv
<1>4. CASE User
  BY <1>1, <1>3, <1>4, OtherFrame, AccountFrame, pool_startAccount,
     pool_dequeueAccount, pool_release_bankAccount DEF User
<1>5. CASE UNCHANGED vars
  BY <1>5, AccountFrame DEF vars
<1> QED
  BY <1>2, <1>4, <1>5, OtherFrame, AccountFrame DEF Next

(* The account holds in every reachable state. *)
LEMMA AccountInvariance == Spec => []Account
  BY InitAccount, NextAccount, Invariance, PTL DEF Spec

(* The counters POOL_STATUS reports are exact: for every pool size, run    *)
(* and fault, ready_banks, user_banks and free_banks are the numbers of    *)
(* banks in those states.                                                  *)
THEOREM CountsSafe == Spec => []CountsExact
<1>1. Account => CountsExact
  BY DEF Account
<1> QED
  BY <1>1, AccountInvariance, PTL

(* RELEASE accepts exactly the tokens that DEQUEUE granted and that have   *)
(* not come back: a stale, duplicate or cross-run token never frees a bank.*)
THEOREM TokensSafe == Spec => []TokensExact
<1>1. ASSUME Inv, Account, configured
      PROVE  {t \in Presented : TokenAccepted(t)} = held
  <2>1. held = {TokenOf(b) : b \in InState("USER_OWNED")}
    BY <1>1 DEF Account, TokenInv
  <2>2. \A t \in Presented : TokenAccepted(t) => t \in held
    BY <1>1, <2>1, AcceptedToken DEF Account
  <2>3. ASSUME NEW b \in InState("USER_OWNED")
        PROVE  TokenOf(b) \in Presented /\ TokenAccepted(TokenOf(b))
    <3>1. /\ b \in Bank /\ InPool(b) /\ state[b] = "USER_OWNED"
          /\ result[b].run = run_id /\ result[b].generation = generation[b]
          /\ result[b].sequence = sequence[b]
          /\ sequence[b] \in 1 .. next_sequence - 1
      BY <1>1, <2>3 DEF Account, MetaInv, Owned, InState
    <3>2. run_id \in 0 .. run_id /\ sequence[b] \in 0 .. next_sequence
      BY <1>1, <3>1 DEF Inv, TypeOK, GeometryTypeOK
    <3> QED
      BY <3>1, <3>2 DEF TokenOf, Presented, TokenAccepted
  <2> QED
    BY <2>1, <2>2, <2>3
<1>2. Inv /\ Account => TokensExact
  BY <1>1 DEF TokensExact
<1> QED
  BY <1>2, Invariance, AccountInvariance, PTL

(* The queue of shots that the banks stand for. *)
Produced == IF configured THEN next_sequence - 1 ELSE 0
Available == {sequence[b] : b \in {c \in InState("READY") : configured}}
Lent == {sequence[b] : b \in {c \in InState("USER_OWNED") : configured}}
queue == <<run_id, Produced, Available, Lent>>

(* What the mapping means while the pool is configured and after close. *)
LEMMA Mapping ==
  /\ configured => /\ Produced = next_sequence - 1
                   /\ Available = {sequence[b] : b \in InState("READY")}
                   /\ Lent = {sequence[b] : b \in InState("USER_OWNED")}
  /\ ~configured => Produced = 0 /\ Available = {} /\ Lent = {}
BY DEF Produced, Available, Lent

(* Steps that change no bank do not change the queue. *)
LEMMA QueueFrame ==
  ASSUME UNCHANGED acct PROVE UNCHANGED queue
BY DEF queue, Produced, Available, Lent, InState, InPool

(* No more shots than banks. *)
LEMMA ShotCount ==
  ASSUME NEW s
  PROVE  Cardinality({sequence[b] : b \in InState(s)}) \in Nat
           /\ Cardinality({sequence[b] : b \in InState(s)})
                <= Cardinality(InState(s))
<1> DEFINE f == [b \in InState(s) |-> sequence[b]]
           T == {sequence[b] : b \in InState(s)}
<1>1. f \in Surjection(InState(s), T)
  BY DEF Surjection
<1>2. IsFiniteSet(T) /\ Cardinality(T) <= Cardinality(InState(s))
  BY <1>1, InStateFinite, FS_Surjection
<1> QED
  BY <1>2, FS_CardinalityType

(* A bank in flight leaves room in the queue for its shot. *)
LEMMA RoomForShot ==
  ASSUME Inv, NEW b \in Bank, state[b] = "FILLING"
  PROVE  Cardinality(InState("READY")) + Cardinality(InState("USER_OWNED"))
           < MaxBanks
<1>1. IsFiniteSet(Bank) /\ Cardinality(Bank) = MaxBanks
  BY MaxBanksAssumption, FS_Interval DEF Bank
<1>2. IsFiniteSet(Bank \ {b}) /\ Cardinality(Bank \ {b}) = MaxBanks - 1
  BY <1>1, FS_RemoveElement
<1>3. Owned \subseteq Bank \ {b}
        /\ InState("READY") \cap InState("USER_OWNED") = {}
  BY DEF Owned, InState
<1>4. Cardinality(Owned) <= MaxBanks - 1
  BY <1>2, <1>3, FS_Subset
<1>5. Cardinality(Owned)
        = Cardinality(InState("READY")) + Cardinality(InState("USER_OWNED"))
            - Cardinality(InState("READY") \cap InState("USER_OWNED"))
  BY InStateFinite, FS_Union DEF Owned
<1>6. Cardinality(InState("READY") \cap InState("USER_OWNED")) = 0
  BY <1>3, FS_EmptySet
<1>7. Cardinality(InState("READY")) \in Nat
        /\ Cardinality(InState("USER_OWNED")) \in Nat
  BY InStateFinite
<1> QED
  BY <1>4, <1>5, <1>6, <1>7, MaxBanksAssumption

(* START begins the next run, and only when nothing is outstanding. *)
LEMMA StartStep ==
  ASSUME NEW n \in 2 .. MaxBanks, Inv, Account, pool_start(n)
  PROVE  /\ Available = {} /\ Lent = {} /\ Available' = {} /\ Lent' = {}
         /\ run_id' = run_id + 1 /\ Produced' = 0
<1>1. ready_banks = 0 /\ user_banks = 0
  BY DEF pool_start, pool_owns_buffer
<1>2. configured => InState("READY") = {} /\ InState("USER_OWNED") = {}
  BY <1>1, InStateFinite, FS_EmptySet DEF Account, CountsExact
<1>3. Available = {} /\ Lent = {}
  BY <1>2 DEF Available, Lent
<1>4. configured' /\ next_sequence' = 1 /\ run_id' = run_id + 1
        /\ state' = [b \in Bank |-> "FREE"]
  BY DEF pool_start
<1>5. InState("READY")' = {} /\ InState("USER_OWNED")' = {}
  BY <1>4 DEF InState
<1>6. Available' = {} /\ Lent' = {}
  BY <1>5 DEF Available, Lent
<1>7. Produced' = 0
  BY <1>4 DEF Produced
<1> QED
  BY <1>3, <1>4, <1>6, <1>7

(* A finalized bank is the next shot of the run. *)
LEMMA ProduceStep ==
  ASSUME Inv, Account, FinalizeReady, configured
  PROVE  /\ Cardinality(Available) + Cardinality(Lent) < MaxBanks
         /\ Produced' = Produced + 1
         /\ Available' = Available \cup {Produced + 1}
         /\ run_id' = run_id /\ Lent' = Lent
<1> DEFINE b == filling_bank
<1>1. b \in Bank /\ InPool(b) /\ state[b] = "FILLING"
  BY InFlight DEF FinalizeReady, Goto
<1> HIDE DEF b
<1>2. /\ state' = [state EXCEPT ![b] = "READY"]
      /\ sequence' = [sequence EXCEPT ![b] = next_sequence]
      /\ next_sequence' = next_sequence + 1
      /\ UNCHANGED <<configured, geom>>
  BY DEF FinalizeReady, b
<1>3. /\ InState("READY")' = InState("READY") \cup {b}
      /\ InState("USER_OWNED")' = InState("USER_OWNED")
      /\ b \notin Owned
  BY <1>1, <1>2 DEF Inv, TypeOK, BanksTypeOK, InState, InPool, Owned
<1>4. (\A c \in Owned : sequence'[c] = sequence[c])
        /\ sequence'[b] = next_sequence
  BY <1>1, <1>2, <1>3 DEF Inv, TypeOK, BanksTypeOK, Owned, InState
<1>5. Available = {sequence[c] : c \in InState("READY")}
        /\ Lent = {sequence[c] : c \in InState("USER_OWNED")}
        /\ Produced = next_sequence - 1
  BY Mapping
<1>6. /\ Available' = {sequence'[c] : c \in InState("READY") \cup {b}}
      /\ Lent' = {sequence'[c] : c \in InState("USER_OWNED")}
      /\ Produced' = next_sequence
  BY <1>2, <1>3 DEF Available, Lent, Produced, Inv, TypeOK, GeometryTypeOK
<1>7. next_sequence \in Nat
  BY DEF Inv, TypeOK, GeometryTypeOK
<1>8. Available' = Available \cup {next_sequence} /\ Lent' = Lent
  BY <1>4, <1>5, <1>6 DEF Owned
<1>9. Cardinality(Available) + Cardinality(Lent) < MaxBanks
  <2>1. Cardinality(Available) \in Nat
          /\ Cardinality(Available) <= Cardinality(InState("READY"))
    BY <1>5, ShotCount
  <2>2. Cardinality(Lent) \in Nat
          /\ Cardinality(Lent) <= Cardinality(InState("USER_OWNED"))
    BY <1>5, ShotCount
  <2>3. Cardinality(InState("READY")) \in Nat
          /\ Cardinality(InState("USER_OWNED")) \in Nat
    BY InStateFinite
  <2> QED
    BY <1>1, <2>1, <2>2, <2>3, RoomForShot, MaxBanksAssumption
<1> QED
  BY <1>2, <1>5, <1>6, <1>7, <1>8, <1>9

(* DEQUEUE hands out the oldest available shot. *)
LEMMA GrantStep ==
  ASSUME Inv, Account, pool_dequeue, configured
  PROVE  /\ \E s \in Available : /\ \A t \in Available : s <= t
                                 /\ Available' = Available \ {s}
                                 /\ Lent' = Lent \cup {s}
         /\ run_id' = run_id /\ Produced' = Produced
<1>1. PICK b \in InState("READY") :
        Oldest(b) /\ state' = [state EXCEPT ![b] = "USER_OWNED"]
  BY DEF pool_dequeue
<1>2. UNCHANGED <<configured, geom, sequence, next_sequence>>
  BY DEF pool_dequeue
<1>3. /\ InState("READY")' = InState("READY") \ {b}
      /\ InState("USER_OWNED")' = InState("USER_OWNED") \cup {b}
  BY <1>1, <1>2 DEF Inv, TypeOK, BanksTypeOK, InState, InPool
<1>4. /\ Available = {sequence[c] : c \in InState("READY")}
      /\ Lent = {sequence[c] : c \in InState("USER_OWNED")}
  BY Mapping
<1>5. /\ Available' = {sequence[c] : c \in InState("READY") \ {b}}
      /\ Lent' = {sequence[c] : c \in InState("USER_OWNED") \cup {b}}
      /\ Produced' = Produced
  BY <1>2, <1>3 DEF Available, Lent, Produced
<1>6. \A c, d \in InState("READY") : sequence[c] = sequence[d] => c = d
  BY DEF Account, MetaInv, Owned
<1>7. Available' = Available \ {sequence[b]} /\ Lent' = Lent \cup {sequence[b]}
  BY <1>1, <1>4, <1>5, <1>6
<1>8. sequence[b] \in Available /\ \A t \in Available : sequence[b] <= t
  BY <1>1, <1>4 DEF Oldest
<1> QED
  BY <1>2, <1>5, <1>7, <1>8

(* RELEASE returns one lent shot. *)
LEMMA ReturnStep ==
  ASSUME NEW t \in Presented, Inv, Account, pool_release_bank(t), configured
  PROVE  /\ \E s \in Lent : Lent' = Lent \ {s}
         /\ run_id' = run_id /\ Produced' = Produced /\ Available' = Available
<1> DEFINE b == t.bank
<1>1. b \in InState("USER_OWNED")
  BY AcceptedToken DEF Account, pool_release_bank
<1>2. /\ state' = [state EXCEPT ![b] = "FREE"]
      /\ UNCHANGED <<configured, geom, sequence, next_sequence>>
  BY DEF pool_release_bank
<1> HIDE DEF b
<1>3. /\ InState("USER_OWNED")' = InState("USER_OWNED") \ {b}
      /\ InState("READY")' = InState("READY")
  BY <1>1, <1>2 DEF Inv, TypeOK, BanksTypeOK, InState, InPool
<1>4. Lent = {sequence[c] : c \in InState("USER_OWNED")}
  BY Mapping
<1>5. /\ Lent' = {sequence[c] : c \in InState("USER_OWNED") \ {b}}
      /\ Available' = Available /\ Produced' = Produced
  BY <1>2, <1>3 DEF Available, Lent, Produced
<1>6. \A c, d \in InState("USER_OWNED") : sequence[c] = sequence[d] => c = d
  BY DEF Account, MetaInv, Owned
<1>7. Lent' = Lent \ {sequence[b]} /\ sequence[b] \in Lent
  BY <1>1, <1>4, <1>5, <1>6
<1> QED
  BY <1>2, <1>5, <1>7

(* STOP drops every unread shot, or fails and drops none. *)
LEMMA DiscardStep ==
  ASSUME Inv, WorkerStopEnd
  PROVE  /\ Available' = {} \/ Available' = Available
         /\ run_id' = run_id /\ Produced' = Produced /\ Lent' = Lent
<1>1. UNCHANGED <<configured, geom, sequence, next_sequence>>
  BY DEF WorkerStopEnd
<1>2. CASE UNCHANGED state
  BY <1>1, <1>2 DEF Available, Lent, Produced, InState, InPool
<1>3. CASE discard_ready
  <2>1. InState("READY")' = {} /\ InState("USER_OWNED")' = InState("USER_OWNED")
    BY <1>1, <1>3 DEF discard_ready, Inv, TypeOK, BanksTypeOK, InState, InPool
  <2> QED
    BY <1>1, <2>1 DEF Available, Lent, Produced
<1> QED
  BY <1>2, <1>3 DEF WorkerStopEnd

(* Steps that move a bank between FREE and FILLING, or any bank of a pool  *)
(* that is not configured, do not show.                                    *)
LEMMA HiddenStep ==
  ASSUME Inv, Account, UNCHANGED <<configured, run_id>>,
         configured => /\ UNCHANGED <<sequence, next_sequence>>
                       /\ InState("READY")' = InState("READY")
                       /\ InState("USER_OWNED")' = InState("USER_OWNED")
  PROVE  UNCHANGED queue
BY DEF queue, Produced, Available, Lent

(* The queue counts as the pool does. *)
LEMMA SameCardinality == \A S : Queue!Cardinality(S) = Cardinality(S)
  BY DEF Cardinality, Queue!Cardinality

(* Every step of the pool is a step of the queue or does not show. *)
LEMMA NextQueue ==
  Inv /\ Account /\ [Next]_vars => [Queue!Next]_(Queue!vars)
<1> SUFFICES ASSUME Inv, Account, [Next]_vars
             PROVE  Queue!Next \/ UNCHANGED queue
  BY DEF queue, Produced, Available, Lent, Queue!vars
<1>1. ASSUME NEW a \in Actor, ArmIssue(a) PROVE UNCHANGED queue
  <2>1. PICK b \in ArmTarget(a) : state' = [state EXCEPT ![b] = "FILLING"]
    BY <1>1 DEF ArmIssue
  <2>2. b \in Bank /\ state[b] = "FREE"
    BY <1>1 DEF ArmIssue, Goto, Inv, ArmInv, InState, ArmTarget
  <2>3. UNCHANGED <<configured, geom, sequence, next_sequence>>
    BY <1>1 DEF ArmIssue
  <2>4. InState("READY")' = InState("READY")
          /\ InState("USER_OWNED")' = InState("USER_OWNED")
    BY <2>1, <2>2, <2>3 DEF Inv, TypeOK, BanksTypeOK, InState, InPool
  <2> QED
    BY <2>3, <2>4, HiddenStep
<1>2. ASSUME NEW b \in Bank, configured => state[b] = "FILLING",
             state' = [state EXCEPT ![b] = "FREE"],
             UNCHANGED <<configured, geom, sequence, next_sequence>>
      PROVE  UNCHANGED queue
  <2>1. configured => InState("READY")' = InState("READY")
                        /\ InState("USER_OWNED")' = InState("USER_OWNED")
    BY <1>2 DEF Inv, TypeOK, BanksTypeOK, InState, InPool
  <2> QED
    BY <1>2, <2>1, HiddenStep
<1>3. ASSUME NEW a \in Actor, DrainReset(a) PROVE UNCHANGED queue
  <2>1. filling_bank \in Bank /\ (configured => state[filling_bank] = "FILLING")
    BY <1>3, InFlight DEF DrainReset
  <2>2. UNCHANGED <<configured, geom, sequence, next_sequence>>
    BY <1>3 DEF DrainReset
  <2>3. CASE state' = [state EXCEPT ![filling_bank] = "FREE"]
    BY <1>2, <2>1, <2>2, <2>3
  <2>4. CASE UNCHANGED state
    BY <2>2, <2>4, HiddenStep DEF InState, InPool
  <2> QED
    BY <1>3, <2>3, <2>4 DEF DrainReset
<1>4. CASE FinalizeFailed
  <2>1. filling_bank \in Bank /\ (configured => state[filling_bank] = "FILLING")
    BY <1>4, InFlight DEF FinalizeFailed, Goto
  <2>2. /\ UNCHANGED <<configured, geom, sequence, next_sequence>>
        /\ state' = [state EXCEPT ![filling_bank] = "FREE"]
    BY <1>4 DEF FinalizeFailed
  <2> QED
    BY <1>2, <2>1, <2>2
<1>5. CASE FinalizeReady
  <2>1. CASE configured
    <3>1. /\ Cardinality(Available) + Cardinality(Lent) < MaxBanks
          /\ Produced' = Produced + 1
          /\ Available' = Available \cup {Produced + 1}
          /\ run_id' = run_id /\ Lent' = Lent
      BY <1>5, <2>1, ProduceStep
    <3>2. Queue!Produce
      BY <3>1, SameCardinality, Zenon DEF Produced, Available, Lent, Queue!Produce
    <3> QED
      BY <3>2 DEF Queue!Next
  <2>2. CASE ~configured
    BY <1>5, <2>2, HiddenStep DEF FinalizeReady
  <2> QED
    BY <2>1, <2>2
<1>6. CASE WorkerStopEnd
  BY <1>6, DiscardStep
  DEF queue, Produced, Available, Lent, Queue!Next, Queue!Discard
<1>7. ASSUME NEW n \in 2 .. MaxBanks, pool_start(n) PROVE Queue!Next
  BY <1>7, StartStep DEF Produced, Available, Lent, Queue!Next, Queue!Start
<1>8. CASE pool_dequeue
  <2>1. CASE configured
    BY <1>8, <2>1, GrantStep
    DEF Produced, Available, Lent, Queue!Next, Queue!Grant
  <2>2. CASE ~configured
    BY <1>8, <2>2, HiddenStep DEF pool_dequeue
  <2> QED
    BY <2>1, <2>2
<1>9. ASSUME NEW t \in Presented, pool_release_bank(t)
      PROVE  Queue!Next \/ UNCHANGED queue
  <2>1. CASE configured
    BY <1>9, <2>1, ReturnStep
    DEF Produced, Available, Lent, Queue!Next, Queue!Return
  <2>2. CASE ~configured
    BY <1>9, <2>2, HiddenStep DEF pool_release_bank
  <2> QED
    BY <2>1, <2>2
<1>10. CASE CloseFinal
  <2>1. configured' = FALSE /\ run_id' = run_id
    BY <1>10 DEF CloseFinal
  <2> QED
    BY <2>1 DEF Queue!Next, Queue!Close
<1>11. ASSUME NEW a \in Actor, ArmOrDrain(a) PROVE UNCHANGED queue
  BY <1>1, <1>3, <1>11, HelperFrame, QueueFrame
<1>12. CASE Worker
  BY <1>4, <1>5, <1>6, <1>11, <1>12, WorkerFrame, QueueFrame DEF Worker
<1>13. CASE User
  BY <1>7, <1>8, <1>9, <1>10, <1>11, <1>13, OtherFrame, QueueFrame DEF User
<1>14. CASE UNCHANGED vars
  BY <1>14, QueueFrame DEF vars
<1> QED
  BY <1>12, <1>13, <1>14, OtherFrame, QueueFrame DEF Next

(* The pool implements the queue of shots for every number of banks, every *)
(* interleaving of ioctls, worker and hardware, and every fault: shots are *)
(* numbered without a gap, handed out oldest first and once, stay with the *)
(* user until returned, and are dropped only all together by STOP or close.*)
THEOREM QueueRefinement == Spec => ImplementsQueue
<1>1. Init => Queue!Init
  BY DEF Init, Queue!Init
<1> QED
  BY <1>1, NextQueue, Invariance, AccountInvariance, PTL
  DEF Spec, ImplementsQueue, Queue!Spec
=============================================================================

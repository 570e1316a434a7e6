--------------------------- MODULE StreamerProofs ---------------------------
(***************************************************************************)
(* The sustained streamer, for any number of banks, shots and packets and  *)
(* any combination of faults: no trigger of a healthy run is missed, the   *)
(* datagrams are the shots in capture order, and an END_OF_STREAM or a     *)
(* successful exit means that everything was sent and given back.          *)
(***************************************************************************)
EXTENDS Streamer, WellFoundedInduction, TLAPS

AcqPcs == {"none", "require", "top", "arm", "start", "dequeue", "check", "push",
           "count", "drop", "dropping", "finish", "exited"}
SndPcs == {"none", "pop", "send", "release", "releasing", "drop", "dropping",
           "end", "exited"}
MainPcs == {"start", "create_sender", "create_acq", "join", "stop", "done"}
Packet == [sequence : Nat, shot : Nat, part : Nat]

(* Every variable of the streamer keeps its type. *)
FlagsOK ==
  /\ active \in BOOLEAN /\ armed \in BOOLEAN /\ missed \in BOOLEAN
  /\ producer_done \in BOOLEAN /\ failed \in BOOLEAN
  /\ acquisition_complete \in BOOLEAN /\ duration_mode \in BOOLEAN
ControlOK ==
  /\ pc \in [Worker \cup {"main"} -> AcqPcs \cup SndPcs \cup MainPcs]
  /\ pc["acq"] \in AcqPcs /\ pc["snd"] \in SndPcs /\ pc["main"] \in MainPcs
  /\ call \in [Worker -> {"none", "wait", "woken", "ok", "error"}]
  /\ hold \in [Worker -> Bank \cup {NoBank}]
DataOK ==
  /\ bank \in [Bank -> {"free", "filling", "ready", "user"}]
  /\ content \in [Bank -> Nat] /\ triggers \in Nat
  /\ sequencer \in {"idle", "running", "fired"}
  /\ acquired_shots \in Nat /\ transmitted_shots \in Nat
  /\ packet_sequence \in Nat /\ part \in Nat
  /\ queue \in Seq(Bank) /\ wire \in Seq(Packet)
TypeOK == FlagsOK /\ ControlOK /\ DataOK

(* Which threads exist while the main thread is where. *)
ThreadInv ==
  /\ pc["main"] \in {"start", "create_sender"} =>
       pc["acq"] = "none" /\ pc["snd"] = "none"
  /\ pc["main"] = "create_acq" => pc["acq"] = "none" /\ pc["snd"] # "none"
  /\ pc["main"] = "join" => pc["snd"] # "none" /\ (pc["acq"] = "none" => failed)
  /\ pc["main"] \in {"stop", "done"} =>
       pc["acq"] \in {"none", "exited"} /\ pc["snd"] \in {"none", "exited"}
  /\ pc["main"] = "start" => InState("free") = Bank /\ ~running /\ ~active

(* A sequence runs only into an armed bank, unless the pipeline failed. *)
TriggerInv ==
  /\ pc["acq"] \in {"none", "require", "top", "arm", "start", "push", "count"} =>
       sequencer = "idle"
  /\ pc["acq"] \in {"finish", "exited"} => failed \/ sequencer = "idle"
  /\ pc["acq"] = "start" => armed
  /\ sequencer = "running" => armed \/ failed
  /\ missed => failed

(* The lent banks are those in the queue and in the hands of a thread, and *)
(* each is in one place.                                                   *)
Queued == {queue[i] : i \in DOMAIN queue}
OwnInv ==
  /\ \A b \in Bank : bank[b] = "user" <=>
       b \in Queued \/ b = hold["acq"] \/ b = hold["snd"]
  /\ \A i, j \in DOMAIN queue : queue[i] = queue[j] => i = j
  /\ hold["acq"] \notin Queued /\ hold["snd"] \notin Queued
  /\ hold["acq"] = hold["snd"] => hold["acq"] = NoBank

(* Where a thread holds a bank. *)
HoldInv ==
  /\ pc["acq"] \in {"check", "push", "drop"} => hold["acq"] # NoBank
  /\ hold["acq"] # NoBank =>
       pc["acq"] \in {"check", "push", "drop", "dropping", "finish", "exited"}
  /\ pc["snd"] \in {"send", "release", "drop"} => hold["snd"] # NoBank
  /\ hold["snd"] # NoBank => \/ pc["snd"] \in {"send", "release", "drop",
                                               "dropping", "exited"}
                             \/ pc["snd"] = "releasing" /\ call["snd"] = "error"

(* One shot is captured per round of the acquisition thread. *)
Pushed == acquired_shots + IF pc["acq"] = "count" THEN 1 ELSE 0
Quiet == InState("ready") = {} /\ (active => armed)
CaptureInv ==
  /\ pc["acq"] \in {"none", "require", "top", "arm", "start", "count"} =>
       triggers = Pushed /\ Quiet
  /\ pc["acq"] = "dequeue" =>
       \/ /\ sequencer = "running" /\ armed
          /\ triggers = Pushed /\ Quiet
       \/ /\ sequencer # "running" /\ triggers = Pushed + 1
          /\ \A b \in InState("ready") : content[b] = triggers
          /\ \A b, c \in InState("ready") : b = c
          /\ active /\ ~armed => InState("ready") = {}
  /\ pc["acq"] \in {"check", "push"} =>
       /\ triggers = Pushed + 1 /\ Quiet /\ sequencer # "running"
       /\ content[hold["acq"]] = triggers

(* The queue carries the shots between the last one sent and the last one  *)
(* captured, in order, as long as the sender may take one.                 *)
Gone == {"drop", "dropping", "exited"}
Popped == transmitted_shots
            + IF pc["snd"] \in {"send", "release", "releasing"} THEN 1 ELSE 0
QueueInv ==
  pc["snd"] \notin Gone =>
    /\ Pushed = Popped + Len(queue)
    /\ \A i \in DOMAIN queue : content[queue[i]] = Popped + i

(* What the sender has put on the wire. *)
SendInv ==
  /\ pc["snd"] \notin Gone =>
       /\ packet_sequence = transmitted_shots * PerShot
       /\ Len(wire) = packet_sequence
            + (IF pc["snd"] = "send" THEN part
               ELSE IF pc["snd"] \in {"release", "releasing"} THEN PerShot ELSE 0)
  /\ pc["snd"] = "send" =>
       part < PerShot /\ content[hold["snd"]] = transmitted_shots + 1
  /\ WireInOrder

(* How the acquisition ends. *)
Round == {"arm", "start", "dequeue", "check", "push", "count"}
FinishInv ==
  /\ acquisition_complete =>
       /\ pc["acq"] \in {"finish", "exited"} /\ hold["acq"] = NoBank
       /\ duration_mode \/ acquired_shots = Shots
  /\ acquired_shots <= Shots
  /\ pc["acq"] \in Round => acquired_shots < Shots
  /\ producer_done =>
       \/ pc["acq"] = "exited"
       \/ failed /\ pc["acq"] = "none" /\ pc["main"] \in {"join", "stop", "done"}

(* How the stream ends. *)
Ended == wire # <<>> /\ wire[Len(wire)].part = 0
EndInv ==
  /\ pc["snd"] = "end" => queue = <<>> /\ pc["acq"] = "exited"
  /\ pc["snd"] = "exited" /\ ~failed =>
       pc["acq"] = "exited" /\ (EndsStream => Ended)
  /\ \A i \in DOMAIN wire : wire[i].part = 0 =>
       /\ i = Len(wire) /\ i = acquired_shots * PerShot + 1
       /\ acquisition_complete /\ InState("user") = {} /\ pc["snd"] = "exited"
  /\ result = "ok" =>
       /\ pc["main"] \in {"stop", "done"} /\ pc["snd"] = "exited"
       /\ Ended /\ (duration_mode \/ acquired_shots = Shots)

Inv == /\ TypeOK /\ ThreadInv /\ TriggerInv /\ OwnInv /\ HoldInv /\ CaptureInv
       /\ QueueInv /\ SendInv /\ FinishInv /\ EndInv

-----------------------------------------------------------------------------
(* Frame lemmas: what an action leaves alone stays true. *)
LEMMA Frame ==
  /\ FlagsOK /\ UNCHANGED <<active, armed, missed, producer_done, failed,
                           acquisition_complete, duration_mode>> => FlagsOK'
  /\ ControlOK /\ UNCHANGED <<pc, call, hold>> => ControlOK'
  /\ DataOK /\ UNCHANGED <<bank, content, triggers, sequencer, acquired_shots,
       transmitted_shots, packet_sequence, part, queue, wire>> => DataOK'
  /\ ThreadInv /\ UNCHANGED <<pc, failed, bank, running, active>> => ThreadInv'
  /\ TriggerInv /\ UNCHANGED <<pc["acq"], failed, sequencer, armed, missed>>
       => TriggerInv'
  /\ OwnInv /\ UNCHANGED <<bank, queue, hold>> => OwnInv'
  /\ HoldInv /\ UNCHANGED <<pc["acq"], pc["snd"], hold, call["snd"]>> => HoldInv'
  /\ CaptureInv /\ UNCHANGED <<pc["acq"], sequencer, armed, active, triggers, bank,
       content, acquired_shots, hold["acq"]>> => CaptureInv'
  /\ QueueInv /\ UNCHANGED <<Pushed, Popped, pc["snd"], queue, content>> => QueueInv'
  /\ SendInv /\ UNCHANGED <<pc["snd"], transmitted_shots, packet_sequence, wire,
       part, content, hold["snd"]>> => SendInv'
  /\ FinishInv /\ UNCHANGED <<pc["acq"], pc["main"], hold["acq"], failed, duration_mode,
       acquisition_complete, acquired_shots, producer_done>> => FinishInv'
BY DEF FlagsOK, ControlOK, DataOK, Packet, ThreadInv, TriggerInv, OwnInv, Queued,
       HoldInv, CaptureInv, Pushed, Quiet, InState, QueueInv, SendInv, WireInOrder,
       FinishInv

(* Order on the wire depends on the wire alone.                            *)
LEMMA WireFrame == UNCHANGED wire => WireInOrder' = WireInOrder
BY DEF WireInOrder

(* Ownership depends on which banks are lent, not on the others.           *)
LEMMA OwnFrame ==
  ASSUME OwnInv, UNCHANGED <<queue, hold>>,
         \A b \in Bank : bank'[b] = "user" <=> bank[b] = "user"
  PROVE  OwnInv'
BY DEF OwnInv, Queued

(* The queue stays in order while the contents of its banks do.            *)
LEMMA QueueFrame ==
  ASSUME QueueInv, Pushed' = Pushed, Popped' = Popped, UNCHANGED queue,
         \A i \in DOMAIN queue : content'[queue[i]] = content[queue[i]],
         pc["snd"] \in Gone => pc'["snd"] \in Gone
  PROVE  QueueInv'
BY DEF QueueInv

-----------------------------------------------------------------------------
(* Facts about banks, numbers and the release of a bank. *)

(* The bank that is armed next is one of the free ones. *)
LEMMA LowestIsFree ==
  ASSUME NEW S, S \subseteq Bank, S # {} PROVE Lowest(S) \in S
<1>1. S \subseteq Nat
  BY DEF Bank
<1>2. \E m \in S : \A n \in S : <<n, m>> \notin OpToRel(<, Nat)
  BY <1>1, NatLessThanWellFounded, WFMin
<1>3. \A n, m \in S : <<n, m>> \notin OpToRel(<, Nat) => m <= n
  BY <1>1 DEF OpToRel
<1> QED
  BY <1>2, <1>3 DEF Lowest

(* Packet k of the shot after a whole ones: its shot and its part. *)
LEMMA ShotOfPacket ==
  ASSUME NEW a \in Nat, NEW k \in 0 .. PerShot - 1
  PROVE  (a * PerShot + k) \div PerShot = a /\ (a * PerShot + k) % PerShot = k
<1> USE SizesAssumption
<1> DEFINE x == a * PerShot + k
           q == x \div PerShot
           r == x % PerShot
<1>1. /\ x \in Int /\ q \in Int /\ r \in Int
      /\ x = q * PerShot + r /\ 0 <= r /\ r < PerShot
  OBVIOUS
<1>2. \A c, d \in Int : c < d => c * PerShot + PerShot <= d * PerShot
  OBVIOUS
<1>3. q = a
  BY <1>1, <1>2
<1> QED
  BY <1>1, <1>3

(* POOL_RELEASE: the bank a thread holds becomes free, or it keeps it. *)
LEMMA ReleaseEffect ==
  ASSUME Inv, NEW t \in Worker, hold[t] # NoBank, Release(t), UNCHANGED queue
  PROVE  /\ bank' \in [Bank -> {"free", "filling", "ready", "user"}]
         /\ hold' \in [Worker -> Bank \cup {NoBank}]
         /\ OwnInv'
         /\ InState("ready")' = InState("ready")
         /\ InState("user")' \subseteq InState("user")
         /\ \A u \in Worker \ {t} : hold'[u] = hold[u] /\ call'[u] = call[u]
         /\ hold'[t] # NoBank => hold'[t] = hold[t] /\ call'[t] = "error"
         /\ call' \in [Worker -> {"none", "wait", "woken", "ok", "error"}]
<1> USE DEF Inv, TypeOK, ControlOK, DataOK, Release, FreeHeld, NoBank
<1>1. hold[t] \in Bank /\ 0 \notin Bank
  BY SizesAssumption DEF Bank
<1>2. bank[hold[t]] = "user"
  BY <1>1 DEF OwnInv, Worker
<1>3. CASE UNCHANGED <<bank, hold>>
  BY <1>3, OwnFrame DEF InState
<1>4. CASE ~UNCHANGED <<bank, hold>>
  <2>1. /\ bank' = [bank EXCEPT ![hold[t]] = "free"]
        /\ hold' = [hold EXCEPT ![t] = 0]
    BY <1>4
  <2>2. \A b \in Bank : bank'[b] = IF b = hold[t] THEN "free" ELSE bank[b]
    BY <1>1, <2>1
  <2>3. \A u \in Worker : hold'[u] = IF u = t THEN 0 ELSE hold[u]
    BY <2>1
  <2>4. OwnInv'
    BY <1>1, <2>2, <2>3 DEF OwnInv, Queued, Worker
  <2> QED
    BY <1>1, <1>2, <2>1, <2>2, <2>3, <2>4 DEF InState
<1> QED
  BY <1>3, <1>4

(* The queue without its head. *)
LEMMA Popping ==
  ASSUME NEW s \in Seq(Bank), s # <<>>
  PROVE  /\ Head(s) = s[1] /\ s[1] \in Bank /\ Tail(s) \in Seq(Bank)
         /\ Len(s) \in Nat \ {0} /\ Len(Tail(s)) = Len(s) - 1
         /\ \A k \in DOMAIN Tail(s) : k + 1 \in DOMAIN s /\ Tail(s)[k] = s[k + 1]
         /\ \A k \in DOMAIN s :
              k = 1 \/ (k - 1 \in DOMAIN Tail(s) /\ Tail(s)[k - 1] = s[k])
OBVIOUS

(* Taking the head of the queue keeps each lent bank in one place.         *)
LEMMA PoppingOwned ==
  ASSUME NEW s \in Seq(Bank), s # <<>>,
         \A k, l \in DOMAIN s : s[k] = s[l] => k = l
  PROVE  /\ {Tail(s)[k] : k \in DOMAIN Tail(s)} = {s[k] : k \in DOMAIN s} \ {s[1]}
         /\ s[1] \in {s[k] : k \in DOMAIN s}
         /\ \A k, l \in DOMAIN Tail(s) : Tail(s)[k] = Tail(s)[l] => k = l
<1> DEFINE t == Tail(s)
<1>1. /\ \A k \in DOMAIN t : k + 1 \in DOMAIN s /\ t[k] = s[k + 1] /\ k + 1 # 1
      /\ \A k \in DOMAIN s : k = 1 \/ (k - 1 \in DOMAIN t /\ t[k - 1] = s[k])
      /\ \A k \in DOMAIN t : k \in Int
      /\ 1 \in DOMAIN s
  BY Popping
<1> HIDE DEF t
<1>2. \A k, l \in DOMAIN t : t[k] = t[l] => k = l
  BY <1>1
<1>3. {t[k] : k \in DOMAIN t} = {s[k] : k \in DOMAIN s} \ {s[1]}
  BY <1>1
<1> QED
  BY <1>1, <1>2, <1>3 DEF t

-----------------------------------------------------------------------------
(* Every action preserves the invariant.  First the hardware and the worker. *)

(* The trigger: one per round, and it finds the bank armed. *)
LEMMA SequenceFiresInv ==
  ASSUME Inv, SequenceFires PROVE Inv'
<1> USE SizesAssumption DEF Inv, TypeOK, FlagsOK, ControlOK, DataOK,
        SequenceFires, Goto, pipeline_fail, pool, trigger, tokens, totals,
        control, AcqPcs, SndPcs, MainPcs, Worker, NoBank
<1>1. FlagsOK'
  BY Frame
<1>2. ControlOK'
  BY Frame
<1>3. DataOK'
  BY Frame
<1>4. ThreadInv' /\ OwnInv' /\ HoldInv' /\ QueueInv' /\ SendInv' /\
            FinishInv'
  BY Frame DEF Pushed, Popped
<1>5. TriggerInv'
  BY DEF TriggerInv
<1>6. CaptureInv'
  BY DEF CaptureInv, TriggerInv, Pushed, Quiet, InState
<1>7. EndInv'
  BY DEF EndInv, Ended, InState, EndsStream, FinishInv
<1> QED
  BY <1>1, <1>2, <1>3, <1>4, <1>5, <1>6, <1>7

(* The sequence is over. *)
LEMMA SequenceEndsInv ==
  ASSUME Inv, SequenceEnds PROVE Inv'
<1> USE SizesAssumption DEF Inv, TypeOK, FlagsOK, ControlOK, DataOK,
        SequenceEnds, Goto, pipeline_fail, pool, trigger, tokens, totals,
        control, AcqPcs, SndPcs, MainPcs, Worker, NoBank
<1>1. FlagsOK' /\ ControlOK' /\ DataOK' /\ ThreadInv' /\ OwnInv' /\
            HoldInv' /\ QueueInv' /\ SendInv' /\ FinishInv'
  BY Frame DEF Pushed, Popped
<1>2. TriggerInv'
  BY DEF TriggerInv
<1>3. CaptureInv'
  BY DEF CaptureInv, Pushed, Quiet, InState
<1>4. EndInv'
  BY DEF EndInv, Ended, InState, EndsStream, FinishInv
<1> QED
  BY <1>1, <1>2, <1>3, <1>4

(* The bank that is filled belongs to nobody else. *)
LEMMA FinalizeInv ==
  ASSUME Inv, Finalize PROVE Inv'
<1> USE SizesAssumption DEF Inv, TypeOK, FlagsOK, ControlOK, DataOK, Finalize,
        Goto, pipeline_fail, pool, trigger, tokens, totals, control, AcqPcs,
        SndPcs, MainPcs, Worker, NoBank
<1>1. PICK b \in InState("filling") :
        /\ bank' \in {[bank EXCEPT ![b] = "ready"], [bank EXCEPT ![b] = "free"]}
        /\ content' \in {content, [content EXCEPT ![b] = triggers]}
  OBVIOUS
<1>2. /\ b \in Bank /\ bank[b] = "filling"
      /\ \A c \in Bank : c # b => bank'[c] = bank[c] /\ content'[c] = content[c]
  BY <1>1 DEF InState
<1>3. b \notin Queued /\ b # hold["acq"] /\ b # hold["snd"]
  BY <1>2 DEF OwnInv
<1>4. FlagsOK' /\ ControlOK' /\ TriggerInv' /\ HoldInv' /\ FinishInv'
  BY Frame
<1>5. DataOK'
  BY <1>1, <1>2
<1>6. ThreadInv'
  BY DEF ThreadInv
<1>7. OwnInv'
  BY <1>1, <1>2, OwnFrame
<1>8. CaptureInv'
  BY DEF CaptureInv, Pushed, Quiet, InState
<1>9. QueueInv'
  BY <1>2, <1>3, QueueFrame DEF Pushed, Popped, Queued
<1>10. SendInv'
  BY <1>2, <1>3, WireFrame DEF SendInv, HoldInv, Gone
<1>11. EndInv'
  BY DEF EndInv, Ended, InState, EndsStream, FinishInv
<1> QED
  BY <1>4, <1>5, <1>6, <1>7, <1>8, <1>9, <1>10, <1>11

(* The worker takes a kick. *)
LEMMA TakeKickInv ==
  ASSUME Inv, TakeKick PROVE Inv'
<1> USE SizesAssumption DEF Inv, TypeOK, FlagsOK, ControlOK, DataOK, TakeKick,
        Goto, pipeline_fail, pool, trigger, tokens, totals, control, AcqPcs,
        SndPcs, MainPcs, Worker, NoBank
<1>1. FlagsOK' /\ ControlOK' /\ DataOK' /\ ThreadInv' /\ TriggerInv' /\
            OwnInv' /\ HoldInv' /\ CaptureInv' /\ QueueInv' /\ SendInv' /\
            FinishInv'
  BY Frame DEF Pushed, Popped
<1>2. EndInv'
  BY DEF EndInv, Ended, InState, EndsStream, FinishInv
<1> QED
  BY <1>1, <1>2

(* Arming takes a free bank, so no bank of a thread. *)
LEMMA RearmInv ==
  ASSUME Inv, Rearm PROVE Inv'
<1> USE SizesAssumption DEF Inv, TypeOK, FlagsOK, ControlOK, DataOK, Rearm,
        CanRearm, Goto, pipeline_fail, pool, trigger, tokens, totals, control,
        AcqPcs, SndPcs, MainPcs, Worker, NoBank
<1>1. \/ /\ Lowest(InState("free")) \in InState("free")
         /\ bank' = [bank EXCEPT ![Lowest(InState("free"))] = "filling"]
         /\ active' /\ armed' = TRUE
      \/ UNCHANGED <<bank, active, armed>>
  BY LowestIsFree DEF InState
<1>2. bank' \in [Bank -> {"free", "filling", "ready", "user"}]
  BY <1>1 DEF InState
<1>3. /\ InState("ready")' = InState("ready") /\ InState("user")' = InState("user")
      /\ UNCHANGED <<active, armed>> \/ (active' /\ armed')
  BY <1>1 DEF InState
<1>4. FlagsOK' /\ ControlOK' /\ DataOK' /\ HoldInv' /\ QueueInv' /\
            SendInv' /\ FinishInv'
  BY Frame DEF Pushed, Popped
<1>5. ThreadInv'
  BY DEF ThreadInv, InState
<1>6. TriggerInv'
  BY DEF TriggerInv
<1>7. OwnInv'
  BY <1>1, OwnFrame DEF InState
<1>8. CaptureInv'
  BY <1>3 DEF CaptureInv, Pushed, Quiet, InState
<1>9. EndInv'
  BY DEF EndInv, Ended, InState, EndsStream, FinishInv
<1> QED
  BY <1>4, <1>5, <1>6, <1>7, <1>8, <1>9

-----------------------------------------------------------------------------
(* The acquisition thread. *)

(* Where a failing call ends the thread at once. *)
StartPcs == {"require", "arm", "dequeue"}

(* A call of the acquisition thread fails before it holds a bank. *)
LEMMA AcqFailsInv ==
  ASSUME NEW from \in StartPcs, Inv, AcqFails(from) PROVE Inv'
<1> USE SizesAssumption DEF Inv, TypeOK, FlagsOK, ControlOK, DataOK, AcqFails,
        Goto, pipeline_fail, pool, trigger, tokens, totals, control, AcqPcs,
        SndPcs, MainPcs, Worker, NoBank
<1> USE DEF StartPcs
<1>1. FlagsOK' /\ ControlOK' /\ DataOK' /\ OwnInv' /\ QueueInv' /\ SendInv'
  BY Frame DEF Pushed, Popped
<1>2. ThreadInv'
  BY DEF ThreadInv
<1>3. TriggerInv'
  BY DEF TriggerInv
<1>4. HoldInv'
  BY DEF HoldInv
<1>5. CaptureInv'
  BY DEF CaptureInv, Pushed
<1>6. FinishInv'
  BY DEF FinishInv, Round
<1>7. EndInv'
  BY DEF EndInv, Ended, InState
<1> QED
  BY <1>1, <1>2, <1>3, <1>4, <1>5, <1>6, <1>7

(* The engine must be committed and idle. *)
LEMMA AcqRequireInv ==
  ASSUME Inv, AcqRequire PROVE Inv'
<1> USE SizesAssumption DEF Inv, TypeOK, FlagsOK, ControlOK, DataOK,
        AcqRequire, Goto, pipeline_fail, pool, trigger, tokens, totals,
        control, AcqPcs, SndPcs, MainPcs, Worker, NoBank
<1>1. CASE AcqFails("require")
  BY <1>1, AcqFailsInv DEF StartPcs
<1> SUFFICES ASSUME ~AcqFails("require") PROVE Inv'
  BY <1>1
<1>2. FlagsOK' /\ ControlOK' /\ DataOK' /\ OwnInv' /\ QueueInv' /\ SendInv'
  BY Frame DEF Pushed, Popped
<1>3. ThreadInv'
  BY DEF ThreadInv
<1>4. TriggerInv'
  BY DEF TriggerInv
<1>5. HoldInv'
  BY DEF HoldInv
<1>6. CaptureInv'
  BY DEF CaptureInv, Pushed, Quiet, InState
<1>7. FinishInv'
  BY DEF FinishInv, Round
<1>8. EndInv'
  BY DEF EndInv, Ended, InState
<1> QED
  BY <1>2, <1>3, <1>4, <1>5, <1>6, <1>7, <1>8

(* The top of the loop: the end, or one more round. *)
LEMMA AcqTopInv ==
  ASSUME Inv, AcqTop PROVE Inv'
<1> USE SizesAssumption DEF Inv, TypeOK, FlagsOK, ControlOK, DataOK, AcqTop,
        AllAcquired, Goto, pipeline_fail, pool, trigger, tokens, totals,
        control, AcqPcs, SndPcs, MainPcs, Worker, NoBank
<1>1. FlagsOK'
  BY Frame
<1>2. ControlOK'
  BY Frame
<1>3. DataOK'
  BY Frame
<1>4. ThreadInv'
  BY DEF ThreadInv
<1>5. TriggerInv'
  BY DEF TriggerInv
<1>6. OwnInv' /\ QueueInv' /\ SendInv'
  BY Frame DEF Pushed, Popped
<1>7. HoldInv'
  BY DEF HoldInv
<1>8. CaptureInv'
  BY DEF CaptureInv, Pushed, Quiet, InState
<1>9. FinishInv'
  BY DEF FinishInv, HoldInv, Round
<1>10. EndInv'
  BY DEF EndInv, Ended, InState
<1> QED
  BY <1>1, <1>2, <1>3, <1>4, <1>5, <1>6, <1>7, <1>8, <1>9,
     <1>10

(* A round goes on with an armed bank. *)
LEMMA AcqArmedInv ==
  ASSUME Inv, AcqArmed PROVE Inv'
<1> USE SizesAssumption DEF Inv, TypeOK, FlagsOK, ControlOK, DataOK, AcqArmed,
        PoolArmed, Goto, pipeline_fail, pool, trigger, tokens, totals,
        control, AcqPcs, SndPcs, MainPcs, Worker, NoBank
<1>1. CASE AcqFails("arm")
  BY <1>1, AcqFailsInv DEF StartPcs
<1> SUFFICES ASSUME ~AcqFails("arm") PROVE Inv'
  BY <1>1
<1>2. FlagsOK' /\ ControlOK' /\ DataOK' /\ OwnInv' /\ QueueInv' /\ SendInv'
  BY Frame DEF Pushed, Popped
<1>3. ThreadInv'
  BY DEF ThreadInv
<1>4. TriggerInv'
  BY DEF TriggerInv
<1>5. HoldInv'
  BY DEF HoldInv
<1>6. CaptureInv'
  BY DEF CaptureInv, Pushed, Quiet, InState
<1>7. FinishInv'
  BY DEF FinishInv, Round
<1>8. EndInv'
  BY DEF EndInv, Ended, InState
<1> QED
  BY <1>2, <1>3, <1>4, <1>5, <1>6, <1>7, <1>8

(* The sequence starts with the bank armed. *)
LEMMA AcqStartInv ==
  ASSUME Inv, AcqStart PROVE Inv'
<1> USE SizesAssumption DEF Inv, TypeOK, FlagsOK, ControlOK, DataOK, AcqStart,
        Goto, pipeline_fail, pool, trigger, tokens, totals, control, AcqPcs,
        SndPcs, MainPcs, Worker, NoBank
<1>1. FlagsOK'
  BY Frame
<1>2. ControlOK'
  BY Frame
<1>3. DataOK'
  BY Frame
<1>4. ThreadInv'
  BY DEF ThreadInv
<1>5. TriggerInv'
  BY DEF TriggerInv
<1>6. OwnInv' /\ QueueInv' /\ SendInv'
  BY Frame DEF Pushed, Popped
<1>7. HoldInv'
  BY DEF HoldInv
<1>8. CaptureInv'
  BY DEF CaptureInv, TriggerInv, Pushed, Quiet, InState
<1>9. FinishInv'
  BY DEF FinishInv, Round
<1>10. EndInv'
  BY DEF EndInv, Ended, InState
<1> QED
  BY <1>1, <1>2, <1>3, <1>4, <1>5, <1>6, <1>7, <1>8, <1>9,
     <1>10

(* The only READY bank is that of this round. *)
LEMMA AcqDequeueInv ==
  ASSUME Inv, AcqDequeue PROVE Inv'
<1> USE SizesAssumption DEF Inv, TypeOK, FlagsOK, ControlOK, DataOK,
        AcqDequeue, Goto, pipeline_fail, pool, trigger, tokens, totals,
        control, AcqPcs, SndPcs, MainPcs, Worker, NoBank
<1>1. CASE AcqFails("dequeue")
  BY <1>1, AcqFailsInv DEF StartPcs
<1> SUFFICES ASSUME ~AcqFails("dequeue") PROVE Inv'
  BY <1>1
<1> DEFINE b == Oldest(InState("ready"))
<1>2. /\ InState("ready") # {} /\ hold["acq"] = 0 /\ pc["acq"] = "dequeue"
      /\ bank' = [bank EXCEPT ![b] = "user"] /\ hold' = [hold EXCEPT !["acq"] = b]
      /\ pc' = [pc EXCEPT !["acq"] = "check"]
      /\ UNCHANGED <<content, active, armed, running, faulted, worker, kick,
                    trigger, tokens, totals, call, part, result, wire>>
  BY DEF AcqDequeue, HoldInv
<1> HIDE DEF AcqDequeue
<1>3. /\ b \in InState("ready") /\ content[b] = triggers
      /\ \A c \in InState("ready") : c = b
      /\ sequencer # "running" /\ triggers = Pushed + 1 /\ active => armed
  <2>1. /\ sequencer # "running" /\ triggers = Pushed + 1
        /\ \A c \in InState("ready") : content[c] = triggers
        /\ \A c, d \in InState("ready") : c = d
        /\ active /\ ~armed => InState("ready") = {}
    BY <1>2 DEF CaptureInv, Quiet
  <2>2. PICK d \in InState("ready") : \A c \in InState("ready") : c = d
    BY <1>2, <2>1
  <2>3. content[d] <= content[d]
    BY <2>1, <2>2
  <2>4. b \in InState("ready")
    BY <2>2, <2>3 DEF Oldest
  <2> QED
    BY <2>1, <2>2, <2>4
<1>4. /\ b \in Bank /\ bank[b] = "ready" /\ b # 0
      /\ \A c \in Bank : bank'[c] = IF c = b THEN "user" ELSE bank[c]
      /\ hold'["acq"] = b /\ hold'["snd"] = hold["snd"]
      /\ pc'["acq"] = "check" /\ pc'["snd"] = pc["snd"] /\ pc'["main"] = pc["main"]
  BY <1>2, <1>3 DEF InState, Bank
<1>5. InState("ready")' = {}
  <2>1. \A c \in Bank : bank'[c] # "ready"
    BY <1>3, <1>4 DEF InState
  <2> QED
    BY <2>1 DEF InState
<1> HIDE DEF b
<1>6. FlagsOK' /\ ControlOK' /\ DataOK' /\ QueueInv' /\ SendInv'
  BY <1>2, <1>3, <1>4, Frame DEF Pushed, Popped
<1>7. ThreadInv'
  BY <1>2, <1>3, <1>4 DEF ThreadInv
<1>8. TriggerInv'
  BY <1>2, <1>3, <1>4 DEF TriggerInv
<1>9. OwnInv'
  BY <1>2, <1>3, <1>4 DEF OwnInv, HoldInv, Queued, InState, Bank
<1>10. HoldInv'
  BY <1>2, <1>3, <1>4 DEF HoldInv
<1>11. CaptureInv'
  BY <1>2, <1>3, <1>4, <1>5 DEF CaptureInv, Pushed, Quiet, InState
<1>12. FinishInv'
  BY <1>2, <1>3, <1>4 DEF FinishInv, Round
<1>13. EndInv'
  BY <1>2, <1>3, <1>4 DEF EndInv, Ended, InState, EndsStream, FinishInv
<1> QED
  BY <1>6, <1>7, <1>8, <1>9, <1>10, <1>11, <1>12, <1>13

(* The bank is kept only once the sequence is idle. *)
LEMMA AcqCheckInv ==
  ASSUME Inv, AcqCheck PROVE Inv'
<1> USE SizesAssumption DEF Inv, TypeOK, FlagsOK, ControlOK, DataOK, AcqCheck,
        sequence_wait_idle, Goto, pipeline_fail, pool, trigger, tokens,
        totals, control, AcqPcs, SndPcs, MainPcs, Worker, NoBank
<1>1. FlagsOK' /\ ControlOK' /\ DataOK' /\ OwnInv' /\ QueueInv' /\ SendInv'
  BY Frame DEF Pushed, Popped
<1>2. ThreadInv'
  BY DEF ThreadInv
<1>3. TriggerInv'
  BY DEF TriggerInv
<1>4. HoldInv'
  BY DEF HoldInv
<1>5. CaptureInv'
  BY DEF CaptureInv, Pushed, Quiet, InState
<1>6. FinishInv'
  BY DEF FinishInv, Round
<1>7. EndInv'
  BY DEF EndInv, Ended, InState
<1> QED
  BY <1>1, <1>2, <1>3, <1>4, <1>5, <1>6, <1>7

(* The bank of this round follows the last one in the queue. *)
LEMMA AcqPushInv ==
  ASSUME Inv, AcqPush PROVE Inv'
<1> USE SizesAssumption DEF Inv, TypeOK, FlagsOK, ControlOK, DataOK, AcqPush,
        Capacity, Goto, pipeline_fail, pool, trigger, tokens, totals, control,
        AcqPcs, SndPcs, MainPcs, Worker, NoBank
<1>1. CASE pc'["acq"] # "count"
  <2>1. /\ UNCHANGED <<pool, trigger, queue, hold, producer_done, failed, totals, call,
                      part, result, wire>>
        /\ pc' = [pc EXCEPT !["acq"] = pc'["acq"]] /\ pc["acq"] = "push"
        /\ pc'["acq"] \in {"push", "drop"}
    BY <1>1 DEF AcqPush
  <2> HIDE DEF AcqPush
  <2>2. FlagsOK' /\ ControlOK' /\ DataOK' /\ OwnInv' /\ QueueInv' /\ SendInv'
    BY <2>1, Frame DEF Pushed, Popped
  <2>3. ThreadInv'
    BY <2>1 DEF ThreadInv
  <2>4. TriggerInv'
    BY <2>1 DEF TriggerInv
  <2>5. HoldInv'
    BY <2>1 DEF HoldInv
  <2>6. CaptureInv'
    BY <2>1 DEF CaptureInv, Pushed, Quiet, InState
  <2>7. FinishInv'
    BY <2>1 DEF FinishInv, Round
  <2>8. EndInv'
    BY <2>1 DEF EndInv, Ended, InState
  <2> QED
    BY <2>2, <2>3, <2>4, <2>5, <2>6, <2>7, <2>8
<1> SUFFICES ASSUME pc'["acq"] = "count" PROVE Inv'
  BY <1>1
<1>2. /\ queue' = Append(queue, hold["acq"]) /\ hold["acq"] \in Bank
      /\ hold' = [hold EXCEPT !["acq"] = 0]
      /\ pc["acq"] = "push" /\ pc' = [pc EXCEPT !["acq"] = "count"]
      /\ UNCHANGED <<pool, trigger, failed, producer_done, totals, call, part, result, wire>>
  BY DEF HoldInv, Bank
<1> HIDE DEF AcqPush
<1>3. /\ DOMAIN queue' = DOMAIN queue \cup {Len(queue) + 1}
      /\ Len(queue') = Len(queue) + 1 /\ Len(queue) \in Nat
      /\ Len(queue) + 1 \notin DOMAIN queue /\ queue' \in Seq(Bank)
      /\ queue'[Len(queue) + 1] = hold["acq"]
      /\ \A k \in DOMAIN queue : queue'[k] = queue[k]
      /\ hold'["acq"] = 0 /\ hold'["snd"] = hold["snd"]
      /\ pc'["acq"] = "count" /\ pc'["snd"] = pc["snd"] /\ pc'["main"] = pc["main"]
  BY <1>2
<1>4. FlagsOK' /\ ControlOK' /\ DataOK' /\ SendInv'
  BY <1>2, <1>3, Frame
<1>5. ThreadInv'
  BY <1>2, <1>3 DEF ThreadInv
<1>6. TriggerInv'
  BY <1>2, <1>3 DEF TriggerInv
<1>7. OwnInv'
  <2>1. Queued' = Queued \cup {hold["acq"]}
    BY <1>3 DEF Queued
  <2>2. 0 \notin Bank /\ Queued \subseteq Bank
    BY DEF Bank, Queued
  <2>3. hold["acq"] \notin Queued /\ hold["acq"] # 0 /\ bank' = bank
    BY <1>2, <2>2 DEF OwnInv
  <2>4. \A k \in DOMAIN queue : queue[k] # hold["acq"]
    BY <2>3 DEF Queued
  <2>5. \A k, l \in DOMAIN queue' : queue'[k] = queue'[l] => k = l
    BY <1>3, <2>4 DEF OwnInv
  <2>6. \A b \in Bank : bank'[b] = "user" <=>
          b \in Queued' \/ b = hold'["acq"] \/ b = hold'["snd"]
    BY <1>3, <2>1, <2>2, <2>3 DEF OwnInv
  <2>7. /\ hold'["acq"] \notin Queued' /\ hold'["snd"] \notin Queued'
        /\ hold'["acq"] = hold'["snd"] => hold'["acq"] = 0
    BY <1>2, <1>3, <2>1, <2>2, <2>3 DEF OwnInv
  <2> QED
    BY <2>5, <2>6, <2>7 DEF OwnInv
<1>8. HoldInv'
  BY <1>2, <1>3 DEF HoldInv
<1>9. CaptureInv'
  BY <1>2, <1>3 DEF CaptureInv, Pushed, Quiet, InState
<1>10. QueueInv'
  <2>1. /\ Pushed' = Pushed + 1 /\ Popped' = Popped
        /\ content[hold["acq"]] = Pushed + 1 /\ content' = content
    BY <1>2, <1>3 DEF CaptureInv, Pushed, Popped
  <2>2. CASE pc["snd"] \in Gone
    BY <1>3, <2>2 DEF QueueInv
  <2>3. CASE pc["snd"] \notin Gone
    <3>1. /\ Pushed = Popped + Len(queue)
          /\ \A k \in DOMAIN queue : content[queue[k]] = Popped + k
      BY <2>3 DEF QueueInv
    <3>2. Popped \in Nat
      BY DEF Popped
    <3> HIDE DEF Inv
    <3>3. \A k \in DOMAIN queue' : k \in DOMAIN queue \/ k = Len(queue) + 1
      BY <1>3
    <3>4. content[hold["acq"]] = Popped + (Len(queue) + 1)
      BY <1>3, <2>1, <3>1, <3>2
    <3>5. \A k \in DOMAIN queue' : content'[queue'[k]] = Popped' + k
      BY <1>3, <2>1, <3>1, <3>3, <3>4
    <3> QED
      BY <1>3, <2>1, <3>1, <3>2, <3>5 DEF QueueInv
  <2> QED
    BY <2>2, <2>3
<1>11. FinishInv'
  BY <1>2, <1>3 DEF FinishInv, Round
<1>12. EndInv'
  BY <1>2, <1>3 DEF EndInv, Ended, InState
<1> QED
  BY <1>4, <1>5, <1>6, <1>7, <1>8, <1>9, <1>10, <1>11, <1>12

(* The shot is counted after the push. *)
LEMMA AcqCountInv ==
  ASSUME Inv, AcqCount PROVE Inv'
<1> USE SizesAssumption DEF Inv, TypeOK, FlagsOK, ControlOK, DataOK, AcqCount,
        Goto, pipeline_fail, pool, trigger, tokens, totals, control, AcqPcs,
        SndPcs, MainPcs, Worker, NoBank
<1>1. FlagsOK' /\ ControlOK' /\ DataOK' /\ OwnInv' /\ QueueInv' /\ SendInv'
  BY Frame DEF Pushed, Popped
<1>2. ThreadInv'
  BY DEF ThreadInv
<1>3. TriggerInv'
  BY DEF TriggerInv
<1>4. HoldInv'
  BY DEF HoldInv
<1>5. CaptureInv'
  BY DEF CaptureInv, Pushed, Quiet, InState
<1>6. FinishInv'
  BY DEF FinishInv, Round
<1>7. EndInv'
  BY DEF EndInv, Ended, InState, EndsStream, FinishInv
<1> QED
  BY <1>1, <1>2, <1>3, <1>4, <1>5, <1>6, <1>7

(* The bank goes back and the pipeline fails. *)
LEMMA AcqDropInv ==
  ASSUME Inv, AcqDrop PROVE Inv'
<1> USE SizesAssumption DEF Inv, TypeOK, FlagsOK, ControlOK, DataOK, AcqDrop,
        Release, FreeHeld, Returned, Goto, pipeline_fail, pool, trigger,
        tokens, totals, control, AcqPcs, SndPcs, MainPcs, Worker, NoBank
<1>1. ASSUME Release("acq")
      PROVE  /\ bank' \in [Bank -> {"free", "filling", "ready", "user"}]
             /\ hold' \in [Worker -> Bank \cup {NoBank}]
             /\ OwnInv'
             /\ InState("ready")' = InState("ready")
             /\ InState("user")' \subseteq InState("user")
             /\ hold'["snd"] = hold["snd"]
  BY <1>1, ReleaseEffect DEF HoldInv, Returned
<1>2. FlagsOK'
  BY Frame
<1>3. ControlOK'
  BY Frame
<1>4. DataOK'
  BY <1>1, Frame
<1>5. ThreadInv'
  BY DEF ThreadInv
<1>6. TriggerInv'
  BY DEF TriggerInv
<1>7. OwnInv' /\ QueueInv' /\ SendInv'
  BY <1>1, Frame DEF Pushed, Popped
<1>8. HoldInv'
  BY DEF HoldInv
<1>9. CaptureInv'
  BY DEF CaptureInv, Pushed
<1>10. FinishInv'
  BY DEF FinishInv, Round
<1>11. EndInv'
  BY DEF EndInv, Ended, InState
<1> QED
  BY <1>2, <1>3, <1>4, <1>5, <1>6, <1>7, <1>8, <1>9, <1>10,
     <1>11

(* The acquisition thread ends. *)
LEMMA AcqFinishInv ==
  ASSUME Inv, AcqFinish PROVE Inv'
<1> USE SizesAssumption DEF Inv, TypeOK, FlagsOK, ControlOK, DataOK,
        AcqFinish, queue_finish, Goto, pipeline_fail, pool, trigger, tokens,
        totals, control, AcqPcs, SndPcs, MainPcs, Worker, NoBank
<1>1. FlagsOK' /\ ControlOK' /\ DataOK' /\ OwnInv' /\ QueueInv' /\ SendInv'
  BY Frame DEF Pushed, Popped
<1>2. ThreadInv'
  BY DEF ThreadInv
<1>3. TriggerInv'
  BY DEF TriggerInv
<1>4. HoldInv'
  BY DEF HoldInv
<1>5. CaptureInv'
  BY DEF CaptureInv, Pushed
<1>6. FinishInv'
  BY DEF FinishInv, Round
<1>7. EndInv'
  BY DEF EndInv, Ended, InState
<1> QED
  BY <1>1, <1>2, <1>3, <1>4, <1>5, <1>6, <1>7

-----------------------------------------------------------------------------
(* The sender thread. *)

(* The sender takes the next shot, finds the end, or waits. *)
LEMMA SndPopInv ==
  ASSUME Inv, SndPop PROVE Inv'
<1> USE SizesAssumption DEF Inv, TypeOK, FlagsOK, ControlOK, DataOK, SndPop,
        Goto, pipeline_fail, pool, trigger, tokens, totals, control, AcqPcs,
        SndPcs, MainPcs, Worker, NoBank
<1>1. CASE pc'["snd"] # "send"
  <2>1. /\ UNCHANGED <<pool, trigger, queue, hold, producer_done, failed, totals, call, part,
                      result, wire>>
        /\ pc' = [pc EXCEPT !["snd"] = pc'["snd"]] /\ pc["snd"] = "pop"
        /\ \/ pc'["snd"] = "pop"
           \/ pc'["snd"] = "exited" /\ failed
           \/ pc'["snd"] = "end" /\ queue = <<>> /\ producer_done /\ ~failed
    BY <1>1 DEF SndPop
  <2> HIDE DEF SndPop
  <2>2. FlagsOK' /\ ControlOK' /\ DataOK' /\ TriggerInv' /\ OwnInv' /\
            CaptureInv' /\ FinishInv'
    BY <2>1, Frame
  <2>3. ThreadInv'
    BY <2>1 DEF ThreadInv
  <2>4. HoldInv'
    BY <2>1 DEF HoldInv
  <2>5. QueueInv'
    BY <2>1, QueueFrame DEF Pushed, Popped, Gone
  <2>6. SendInv'
    BY <2>1, WireFrame DEF SendInv, Gone
  <2>7. EndInv'
    BY <2>1 DEF EndInv, Ended, InState, EndsStream, FinishInv
  <2> QED
    BY <2>2, <2>3, <2>4, <2>5, <2>6, <2>7
<1> SUFFICES ASSUME pc'["snd"] = "send" PROVE Inv'
  BY <1>1
<1>2. /\ queue # <<>> /\ queue' = Tail(queue) /\ hold["snd"] = 0 /\ part' = 0
      /\ hold' = [hold EXCEPT !["snd"] = Head(queue)]
      /\ pc["snd"] = "pop" /\ pc' = [pc EXCEPT !["snd"] = "send"] /\ ~failed
      /\ UNCHANGED <<pool, trigger, failed, producer_done, totals, call, result, wire>>
  BY DEF SndPop, HoldInv
<1> HIDE DEF SndPop
<1>3. /\ Len(queue) \in Nat \ {0} /\ Len(queue') = Len(queue) - 1
      /\ \A k \in DOMAIN queue' : queue'[k] = queue[k + 1] /\ k + 1 \in DOMAIN queue
      /\ queue' \in Seq(Bank)
      /\ 1 \in DOMAIN queue
      /\ hold'["snd"] = queue[1] /\ hold'["acq"] = hold["acq"]
      /\ pc'["snd"] = "send" /\ pc'["acq"] = pc["acq"] /\ pc'["main"] = pc["main"]
      /\ queue[1] \in Bank /\ queue[1] # 0
  BY <1>2, Popping DEF Bank
<1>4. /\ Popped' = Popped + 1 /\ Pushed' = Pushed /\ Popped = transmitted_shots
      /\ pc["snd"] \notin Gone /\ pc'["snd"] \notin Gone
  BY <1>2, <1>3 DEF Popped, Pushed, Gone
<1>5. FlagsOK' /\ ControlOK' /\ DataOK' /\ TriggerInv' /\ CaptureInv' /\
            FinishInv'
  BY <1>2, <1>3, Frame
<1>6. ThreadInv'
  BY <1>2, <1>3 DEF ThreadInv
<1>7. OwnInv'
  <2>1. \A k, l \in DOMAIN queue : queue[k] = queue[l] => k = l
    BY DEF OwnInv
  <2>2. /\ {queue'[k] : k \in DOMAIN queue'} = {queue[k] : k \in DOMAIN queue} \ {queue[1]}
        /\ queue[1] \in {queue[k] : k \in DOMAIN queue}
        /\ \A k, l \in DOMAIN queue' : queue'[k] = queue'[l] => k = l
    <3>1. queue \in Seq(Bank) /\ queue # <<>> /\ queue' = Tail(queue)
      BY <1>2
    <3> HIDE DEF Inv
    <3>2. /\ {Tail(queue)[k] : k \in DOMAIN Tail(queue)}
               = {queue[k] : k \in DOMAIN queue} \ {queue[1]}
          /\ queue[1] \in {queue[k] : k \in DOMAIN queue}
          /\ \A k, l \in DOMAIN Tail(queue) : Tail(queue)[k] = Tail(queue)[l] => k = l
      BY <2>1, <3>1, PoppingOwned
    <3> QED
      BY <3>1, <3>2, Zenon
  <2>3. Queued' = Queued \ {queue[1]} /\ queue[1] \in Queued
    BY <2>2 DEF Queued
  <2>4. 0 \notin Queued /\ 0 \notin Bank /\ bank' = bank
    BY <1>2 DEF Queued, Bank
  <2>5. \A b \in Bank : bank'[b] = "user" <=>
          b \in Queued' \/ b = hold'["acq"] \/ b = hold'["snd"]
    BY <1>2, <1>3, <2>3, <2>4 DEF OwnInv
  <2>6. /\ hold'["acq"] \notin Queued' /\ hold'["snd"] \notin Queued'
        /\ hold'["acq"] # hold'["snd"]
    BY <1>3, <2>3, <2>4 DEF OwnInv
  <2> QED
    BY <2>2, <2>5, <2>6 DEF OwnInv
<1>8. HoldInv'
  BY <1>2, <1>3 DEF HoldInv
<1>9. QueueInv'
  BY <1>2, <1>3, <1>4 DEF QueueInv
<1>10. SendInv'
  <2>1. content[queue[1]] = transmitted_shots + 1
    BY <1>3, <1>4 DEF QueueInv
  <2>2. part' < PerShot /\ content'[hold'["snd"]] = transmitted_shots + 1
    BY <1>2, <1>3, <2>1
  <2> QED
    BY <1>2, <1>3, <1>4, <2>2, WireFrame DEF SendInv
<1>11. EndInv'
  BY <1>2, <1>3 DEF EndInv, EndsStream, Ended
<1> QED
  BY <1>5, <1>6, <1>7, <1>8, <1>9, <1>10, <1>11

(* One datagram, or a failure. *)
LEMMA SndPacketInv ==
  ASSUME Inv, SndPacket PROVE Inv'
<1> USE SizesAssumption DEF Inv, TypeOK, FlagsOK, ControlOK, DataOK,
        SndPacket, emit_udp, Goto, pipeline_fail, pool, trigger, tokens,
        totals, control, AcqPcs, SndPcs, MainPcs, Worker, NoBank
<1> DEFINE datagram == [sequence |-> packet_sequence + part,
                       shot |-> content[hold["snd"]], part |-> part + 1]
<1>1. CASE pc'["snd"] = "drop"
  <2>1. /\ UNCHANGED <<pool, trigger, tokens, totals, hold, call, part, result, wire>>
        /\ pc["snd"] = "send" /\ pc' = [pc EXCEPT !["snd"] = "drop"]
    BY <1>1
  <2> HIDE DEF SndPacket
  <2>2. FlagsOK' /\ ControlOK' /\ DataOK' /\ TriggerInv' /\ OwnInv' /\
            CaptureInv' /\ FinishInv'
    BY <2>1, Frame
  <2>3. ThreadInv'
    BY <2>1 DEF ThreadInv
  <2>4. HoldInv'
    BY <2>1 DEF HoldInv
  <2>5. QueueInv'
    BY <2>1, QueueFrame DEF QueueInv, CaptureInv, OwnInv, HoldInv, ThreadInv,
       Pushed, Popped, Gone, Queued, InState
  <2>6. SendInv'
    BY <2>1, WireFrame DEF SendInv, Gone
  <2>7. EndInv'
    BY <2>1 DEF EndInv, EndsStream, Ended
  <2> QED
    BY <2>2, <2>3, <2>4, <2>5, <2>6, <2>7
<1> SUFFICES ASSUME pc'["snd"] # "drop" PROVE Inv'
  BY <1>1
<1>2. /\ wire' = Append(wire, datagram) /\ part' = part + 1 /\ pc["snd"] = "send"
      /\ pc' = [pc EXCEPT !["snd"] = IF part' = PerShot THEN "release" ELSE "send"]
      /\ UNCHANGED <<pool, trigger, tokens, totals, hold, call, result>>
  OBVIOUS
<1> HIDE DEF SndPacket
<1>3. /\ packet_sequence = transmitted_shots * PerShot /\ Len(wire) = packet_sequence + part
      /\ part < PerShot /\ content[hold["snd"]] = transmitted_shots + 1
      /\ hold["snd"] \in Bank
  BY <1>2 DEF SendInv, HoldInv, Gone
<1>4. datagram \in Packet
  BY <1>3 DEF Packet
<1>5. /\ wire' \in Seq(Packet) /\ Len(wire') = Len(wire) + 1
      /\ wire'[Len(wire) + 1] = datagram
      /\ DOMAIN wire' = 1 .. Len(wire) + 1 /\ DOMAIN wire = 1 .. Len(wire)
      /\ \A k \in DOMAIN wire : wire'[k] = wire[k]
      /\ \A k \in DOMAIN wire' : k \in DOMAIN wire \/ k = Len(wire) + 1
  BY <1>2, <1>4
<1>6. datagram.part # 0 /\ datagram.sequence = Len(wire)
  BY <1>3
<1> HIDE DEF datagram
<1>7. FlagsOK' /\ ControlOK' /\ TriggerInv' /\ OwnInv' /\ CaptureInv' /\
            FinishInv'
  BY <1>2, Frame
<1>8. DataOK'
  BY <1>2, <1>5
<1>9. ThreadInv'
  BY <1>2 DEF ThreadInv
<1>10. HoldInv'
  BY <1>2 DEF HoldInv
<1>11. QueueInv'
  BY <1>2, QueueFrame DEF Pushed, Popped, Gone
<1>12. SendInv'
  <2>1. Len(wire) \div PerShot = transmitted_shots /\ Len(wire) % PerShot = part
    <3>1. part \in 0 .. PerShot - 1 /\ Len(wire) = transmitted_shots * PerShot + part
      BY <1>3
    <3> QED
      BY <3>1, ShotOfPacket
  <2>2. datagram.shot = (Len(wire) \div PerShot) + 1 /\ datagram.part = (Len(wire) % PerShot) + 1
    BY <1>3, <2>1 DEF datagram
  <2>3. Len(wire) + 1 - 1 = Len(wire)
    OBVIOUS
  <2>4. WireInOrder'
    <3>1. \A k \in DOMAIN wire' : k # Len(wire) + 1 =>
            k \in DOMAIN wire /\ wire'[k] = wire[k]
      BY <1>5
    <3>2. WireInOrder /\ Len(wire) \in Nat
      BY DEF SendInv
    <3>3. \A k \in DOMAIN wire' : wire'[k].sequence = k - 1
      BY <1>5, <1>6, <3>1, <3>2 DEF WireInOrder
    <3>4. \A k \in DOMAIN wire' : wire'[k].part # 0 =>
             /\ wire'[k].shot = ((k - 1) \div PerShot) + 1
             /\ wire'[k].part = ((k - 1) % PerShot) + 1
      <4> SUFFICES ASSUME NEW k \in DOMAIN wire', wire'[k].part # 0
                   PROVE  /\ wire'[k].shot = ((k - 1) \div PerShot) + 1
                          /\ wire'[k].part = ((k - 1) % PerShot) + 1
        OBVIOUS
      <4>1. CASE k = Len(wire) + 1
        BY <1>5, <2>2, <2>3, <4>1
      <4>2. CASE k # Len(wire) + 1
        BY <3>1, <3>2, <4>2 DEF WireInOrder
      <4> QED
        BY <4>1, <4>2
    <3> QED
      BY <3>3, <3>4 DEF WireInOrder
  <2> QED
    BY <1>2, <1>3, <1>5, <2>4 DEF SendInv, Gone
<1>13. EndInv'
  <2>1. \A k \in DOMAIN wire' : wire'[k].part # 0
    BY <1>2, <1>5, <1>6 DEF EndInv
  <2> QED
    BY <1>2, <2>1 DEF EndInv
<1> QED
  BY <1>7, <1>8, <1>9, <1>10, <1>11, <1>12, <1>13

(* The shot counts when its bank is given back. *)
LEMMA SndReleaseInv ==
  ASSUME Inv, SndRelease PROVE Inv'
<1> USE SizesAssumption DEF Inv, TypeOK, FlagsOK, ControlOK, DataOK,
        SndRelease, Release, FreeHeld, Returned, Sent, Goto, pipeline_fail,
        pool, trigger, tokens, totals, control, AcqPcs, SndPcs, MainPcs,
        Worker, NoBank
<1>1. ASSUME Release("snd")
      PROVE  /\ bank' \in [Bank -> {"free", "filling", "ready", "user"}]
             /\ hold' \in [Worker -> Bank \cup {NoBank}]
             /\ OwnInv'
             /\ InState("ready")' = InState("ready")
             /\ InState("user")' \subseteq InState("user")
             /\ hold'["acq"] = hold["acq"]
  BY <1>1, ReleaseEffect DEF HoldInv, Returned
<1>2. /\ pc'["acq"] = pc["acq"] /\ pc'["main"] = pc["main"] /\ hold'["acq"] = hold["acq"]
      /\ InState("ready")' = InState("ready") /\ UNCHANGED <<queue, content, wire>>
      /\ InState("user")' \subseteq InState("user")
      /\ \/ pc["snd"] = "release" /\ pc'["snd"] = "releasing" /\ UNCHANGED totals
         \/ pc["snd"] = "releasing" /\ pc'["snd"] = "pop" /\ Sent
         \/ pc["snd"] = "releasing" /\ pc'["snd"] = "exited"
  BY <1>1 DEF InState
<1>3. /\ bank' \in [Bank -> {"free", "filling", "ready", "user"}]
      /\ UNCHANGED <<content, triggers, sequencer, acquired_shots, part>>
      /\ transmitted_shots' \in Nat /\ packet_sequence' \in Nat
  <2>1. CASE Release("snd")
    BY <1>1, <2>1
  <2>2. CASE UNCHANGED bank
    BY <2>2
  <2> QED
    BY <2>1, <2>2
<1>4. FlagsOK'
  BY Frame
<1>5. ControlOK'
  BY Frame
<1>6. DataOK'
  BY <1>2, <1>3, Frame
<1>7. ThreadInv'
  BY DEF ThreadInv
<1>8. TriggerInv'
  BY DEF TriggerInv
<1>9. OwnInv'
  BY <1>1, Frame
<1>10. HoldInv'
  BY DEF HoldInv
<1>11. CaptureInv'
  BY <1>2 DEF CaptureInv, Pushed, Quiet, InState
<1>12. QueueInv'
  <2>1. CASE pc'["snd"] = "exited"
    BY <2>1 DEF QueueInv, Gone
  <2>2. CASE pc'["snd"] # "exited"
    <3>1. Popped' = Popped /\ Pushed' = Pushed /\ pc["snd"] \notin Gone
      BY <1>2, <2>2 DEF Popped, Pushed, Sent, Gone
    <3> QED
      BY <1>2, <3>1, QueueFrame
  <2> QED
    BY <2>1, <2>2
<1>13. SendInv'
  <2>1. CASE pc["snd"] = "release"
    BY <1>2, <2>1, WireFrame DEF SendInv, Gone
  <2>2. CASE pc'["snd"] = "pop"
    <3>1. /\ transmitted_shots' = transmitted_shots + 1
          /\ packet_sequence' = packet_sequence + PerShot
          /\ packet_sequence = transmitted_shots * PerShot
          /\ Len(wire) = packet_sequence + PerShot
      BY <1>2, <2>2 DEF SendInv, Gone, Sent
    <3>2. (transmitted_shots + 1) * PerShot = transmitted_shots * PerShot + PerShot
      OBVIOUS
    <3> QED
      BY <1>2, <2>2, <3>1, <3>2, WireFrame DEF SendInv, Gone
  <2>3. CASE pc'["snd"] = "exited"
    BY <1>2, <2>3, WireFrame DEF SendInv, Gone
  <2> QED
    BY <1>2, <2>1, <2>2, <2>3
<1>14. FinishInv'
  BY DEF FinishInv, Round
<1>15. EndInv'
  BY DEF EndInv, EndsStream, Ended
<1> QED
  BY <1>4, <1>5, <1>6, <1>7, <1>8, <1>9, <1>10, <1>11, <1>12,
     <1>13, <1>14, <1>15

(* The bank goes back and the pipeline fails. *)
LEMMA SndDropInv ==
  ASSUME Inv, SndDrop PROVE Inv'
<1> USE SizesAssumption DEF Inv, TypeOK, FlagsOK, ControlOK, DataOK, SndDrop,
        Release, FreeHeld, Returned, Goto, pipeline_fail, pool, trigger,
        tokens, totals, control, AcqPcs, SndPcs, MainPcs, Worker, NoBank
<1>1. ASSUME Release("snd")
      PROVE  /\ bank' \in [Bank -> {"free", "filling", "ready", "user"}]
             /\ hold' \in [Worker -> Bank \cup {NoBank}]
             /\ OwnInv'
             /\ InState("ready")' = InState("ready")
             /\ InState("user")' \subseteq InState("user")
             /\ hold'["acq"] = hold["acq"]
  BY <1>1, ReleaseEffect DEF HoldInv, Returned
<1>2. /\ pc'["acq"] = pc["acq"] /\ hold'["acq"] = hold["acq"]
      /\ InState("ready")' = InState("ready")
  BY <1>1 DEF InState
<1>3. FlagsOK'
  BY Frame
<1>4. ControlOK'
  BY Frame
<1>5. DataOK'
  BY <1>1, Frame
<1>6. ThreadInv'
  BY DEF ThreadInv
<1>7. TriggerInv'
  BY DEF TriggerInv
<1>8. OwnInv'
  BY <1>1, Frame
<1>9. HoldInv'
  BY DEF HoldInv
<1>10. CaptureInv'
  BY <1>2 DEF CaptureInv, Pushed, Quiet, InState
<1>11. QueueInv'
  BY QueueFrame DEF Pushed, Popped, Gone
<1>12. SendInv'
  BY WireFrame DEF SendInv, Gone
<1>13. FinishInv'
  BY DEF FinishInv, Round
<1>14. EndInv'
  BY DEF EndInv, EndsStream, Ended
<1> QED
  BY <1>3, <1>4, <1>5, <1>6, <1>7, <1>8, <1>9, <1>10, <1>11,
     <1>12, <1>13, <1>14

(* END_OF_STREAM, when there is nothing left anywhere. *)
LEMMA SndEndInv ==
  ASSUME Inv, SndEnd PROVE Inv'
<1> USE SizesAssumption DEF Inv, TypeOK, FlagsOK, ControlOK, DataOK, SndEnd,
        EndsStream, emit_end_of_stream, emit_udp, Goto, pipeline_fail, pool,
        trigger, tokens, totals, control, AcqPcs, SndPcs, MainPcs, Worker,
        NoBank
<1> DEFINE datagram == [sequence |-> packet_sequence, shot |-> wire[Len(wire)].shot,
                       part |-> 0]
<1>1. CASE UNCHANGED wire
  <2>1. /\ UNCHANGED <<pool, trigger, queue, producer_done, acquisition_complete, wire,
                      acquired_shots, transmitted_shots, duration_mode, hold, call, part, result>>
        /\ packet_sequence' \in {packet_sequence, packet_sequence + 1}
        /\ failed' = failed \/ failed'
        /\ failed \/ EndsStream => failed'
        /\ pc["snd"] = "end" /\ pc' = [pc EXCEPT !["snd"] = "exited"]
    BY <1>1
  <2> HIDE DEF SndEnd
  <2>2. FlagsOK'
    BY <2>1, Frame
  <2>3. ControlOK'
    BY <2>1, Frame
  <2>4. DataOK'
    BY <2>1, Frame
  <2>5. ThreadInv'
    BY <2>1 DEF ThreadInv
  <2>6. TriggerInv'
    BY <2>1 DEF TriggerInv
  <2>7. OwnInv' /\ CaptureInv'
    BY <2>1, Frame
  <2>8. HoldInv'
    BY <2>1 DEF HoldInv
  <2>9. QueueInv'
    BY <2>1, QueueFrame DEF Pushed, Popped, Gone
  <2>10. SendInv'
    BY <2>1, WireFrame DEF SendInv, Gone
  <2>11. FinishInv'
    BY <2>1 DEF FinishInv, Round
  <2>12. EndInv'
    BY <2>1 DEF EndInv, EndsStream, Ended
  <2> QED
    BY <2>2, <2>3, <2>4, <2>5, <2>6, <2>7, <2>8, <2>9, <2>10, <2>11, <2>12
<1> SUFFICES ASSUME wire' # wire PROVE Inv'
  BY <1>1
<1>2. /\ EndsStream /\ wire' = Append(wire, datagram) /\ pc["snd"] = "end"
      /\ pc' = [pc EXCEPT !["snd"] = "exited"] /\ packet_sequence' = packet_sequence + 1
      /\ UNCHANGED <<pool, trigger, tokens, acquisition_complete, acquired_shots,
                    transmitted_shots, stop_requested, duration_mode, hold, call, part, result>>
  OBVIOUS
<1> HIDE DEF SndEnd
<1>3. /\ packet_sequence = acquired_shots * PerShot /\ Len(wire) = packet_sequence
      /\ transmitted_shots > 0
  BY <1>2 DEF SendInv, Gone
<1>4. Len(wire) \in Nat \ {0}
  <2>1. \A a \in Nat \ {0} : a * PerShot > 0
    OBVIOUS
  <2> QED
    BY <1>2, <1>3, <2>1
<1>5. datagram \in Packet
  <2>1. wire[Len(wire)] \in Packet
    BY <1>4
  <2> QED
    BY <2>1 DEF Packet
<1>6. /\ wire' \in Seq(Packet) /\ Len(wire') = Len(wire) + 1
      /\ wire'[Len(wire) + 1] = datagram
      /\ DOMAIN wire' = 1 .. Len(wire) + 1 /\ DOMAIN wire = 1 .. Len(wire)
      /\ \A k \in DOMAIN wire : wire'[k] = wire[k]
      /\ \A k \in DOMAIN wire' : k \in DOMAIN wire \/ k = Len(wire) + 1
  BY <1>2, <1>5
<1>7. datagram.part = 0 /\ datagram.sequence = Len(wire)
  BY <1>3
<1>8. InState("user") = {} /\ acquisition_complete
  <2>1. queue = <<>> /\ hold["snd"] = 0 /\ hold["acq"] = 0
    BY <1>2 DEF EndInv, FinishInv, HoldInv
  <2>2. 0 \notin Bank /\ Queued = {}
    BY <2>1 DEF Queued, Bank
  <2> QED
    BY <1>2, <2>1, <2>2 DEF OwnInv, InState
<1> HIDE DEF datagram
<1>9. FlagsOK'
  BY <1>2, Frame
<1>10. ControlOK'
  BY <1>2, Frame
<1>11. DataOK'
  <2>1. packet_sequence' \in Nat
    BY <1>2
  <2>2. UNCHANGED <<bank, content, triggers, sequencer, acquired_shots, transmitted_shots,
                    part, queue>>
    BY <1>2
  <2> HIDE DEF Inv, TypeOK
  <2> QED
    BY <2>1, <2>2, <1>6 DEF Inv, TypeOK
<1>12. ThreadInv'
  BY <1>2 DEF ThreadInv
<1>13. TriggerInv' /\ OwnInv' /\ CaptureInv' /\ FinishInv'
  BY <1>2, Frame
<1>14. HoldInv'
  BY <1>2 DEF HoldInv
<1>15. QueueInv'
  BY <1>2, QueueFrame DEF Pushed, Popped, Gone
<1>16. SendInv'
  <2>1. \A k \in DOMAIN wire' : k # Len(wire) + 1 =>
          k \in DOMAIN wire /\ wire'[k] = wire[k]
    BY <1>6
  <2>2. WireInOrder
    BY DEF SendInv
  <2>3. \A k \in DOMAIN wire' : wire'[k].sequence = k - 1
    BY <1>4, <1>6, <1>7, <2>1, <2>2 DEF WireInOrder
  <2>4. WireInOrder'
    BY <1>6, <1>7, <2>1, <2>2, <2>3 DEF WireInOrder
  <2> QED
    BY <1>2, <2>4 DEF SendInv, Gone
<1>17. EndInv'
  <2>1. \A k \in DOMAIN wire : wire[k].part # 0
    BY <1>2 DEF EndInv
  <2>2. \A k \in DOMAIN wire' : wire'[k].part = 0 => k = Len(wire')
    BY <1>6, <2>1
  <2>3. Ended'
    BY <1>4, <1>6, <1>7 DEF Ended
  <2>4. InState("user")' = {}
    BY <1>2, <1>8 DEF InState
  <2> QED
    BY <1>2, <1>3, <1>6, <1>8, <2>2, <2>3, <2>4 DEF EndInv, EndsStream
<1> QED
  BY <1>9, <1>10, <1>11, <1>12, <1>13, <1>14, <1>15, <1>16, <1>17

-----------------------------------------------------------------------------
(* The main thread and the signal. *)

(* The pool starts with every bank free. *)
LEMMA MainStartInv ==
  ASSUME Inv, MainStart PROVE Inv'
<1> USE SizesAssumption DEF Inv, TypeOK, FlagsOK, ControlOK, DataOK,
        MainStart, Goto, pipeline_fail, pool, trigger, tokens, totals,
        control, AcqPcs, SndPcs, MainPcs, Worker, NoBank
<1>1. FlagsOK'
  BY Frame
<1>2. ControlOK'
  BY Frame
<1>3. DataOK'
  OBVIOUS
<1>4. ThreadInv'
  BY DEF ThreadInv
<1>5. TriggerInv'
  BY DEF TriggerInv
<1>6. OwnInv'
  BY OwnFrame DEF ThreadInv, InState, Bank
<1>7. HoldInv' /\ QueueInv' /\ SendInv'
  BY Frame DEF Pushed, Popped
<1>8. CaptureInv'
  BY DEF CaptureInv, Pushed, Quiet, InState
<1>9. FinishInv'
  BY DEF FinishInv, Round
<1>10. EndInv'
  BY DEF EndInv, FinishInv, ThreadInv, Ended, EndsStream, InState, Bank
<1> QED
  BY <1>1, <1>2, <1>3, <1>4, <1>5, <1>6, <1>7, <1>8, <1>9,
     <1>10

(* The threads are created one after the other. *)
LEMMA MainCreateInv ==
  ASSUME Inv, MainCreate PROVE Inv'
<1> USE SizesAssumption DEF Inv, TypeOK, FlagsOK, ControlOK, DataOK,
        MainCreate, Goto, pipeline_fail, pool, trigger, tokens, totals,
        control, AcqPcs, SndPcs, MainPcs, Worker, NoBank
<1>1. /\ pc'["main"] \in MainPcs /\ pc'["acq"] \in AcqPcs /\ pc'["snd"] \in SndPcs
      /\ pc' \in [Worker \cup {"main"} -> AcqPcs \cup SndPcs \cup MainPcs]
      /\ \/ /\ pc["main"] = "create_sender" /\ pc'["main"] = "create_acq"
            /\ pc["snd"] = "none" /\ pc'["snd"] = "pop" /\ pc'["acq"] = pc["acq"]
            /\ UNCHANGED tokens
         \/ /\ pc["main"] = "create_sender" /\ pc'["main"] = "stop"
            /\ pc'["snd"] = pc["snd"] /\ pc'["acq"] = pc["acq"]
         \/ /\ pc["main"] = "create_acq" /\ pc'["main"] = "join" /\ pc'["snd"] = pc["snd"]
            /\ pc["acq"] = "none" /\ pc'["acq"] = "require"
            /\ UNCHANGED tokens
         \/ /\ pc["main"] = "create_acq" /\ pc'["main"] = "join" /\ pc'["snd"] = pc["snd"]
            /\ pc["acq"] = "none" /\ pc'["acq"] = "none" /\ failed'
  BY DEF ThreadInv
<1>2. FlagsOK' /\ ControlOK' /\ DataOK' /\ OwnInv'
  BY Frame, <1>1
<1>3. ThreadInv'
  BY DEF ThreadInv
<1>4. TriggerInv'
  BY DEF TriggerInv, ThreadInv
<1>5. HoldInv'
  BY <1>1 DEF HoldInv
<1>6. CaptureInv'
  BY <1>1 DEF CaptureInv, ThreadInv, Pushed, Quiet, InState
<1>7. QueueInv'
  BY <1>1, QueueFrame DEF Pushed, Popped, Gone
<1>8. SendInv'
  BY WireFrame DEF SendInv, Gone, ThreadInv
<1>9. FinishInv'
  BY DEF FinishInv, ThreadInv, Round
<1>10. EndInv'
  BY <1>1 DEF EndInv, FinishInv, ThreadInv, Ended, EndsStream, InState
<1> QED
  BY <1>2, <1>3, <1>4, <1>5, <1>6, <1>7, <1>8, <1>9, <1>10

(* The result is taken when both threads are gone. *)
LEMMA MainJoinInv ==
  ASSUME Inv, MainJoin PROVE Inv'
<1> USE SizesAssumption DEF Inv, TypeOK, FlagsOK, ControlOK, DataOK, MainJoin,
        Succeeded, Goto, pipeline_fail, pool, trigger, tokens, totals,
        control, AcqPcs, SndPcs, MainPcs, Worker, NoBank
<1>1. FlagsOK' /\ ControlOK' /\ DataOK' /\ OwnInv' /\ HoldInv' /\
            CaptureInv' /\ QueueInv' /\ SendInv'
  BY Frame DEF Pushed, Popped
<1>2. ThreadInv'
  BY DEF ThreadInv
<1>3. TriggerInv'
  BY DEF TriggerInv
<1>4. FinishInv'
  BY DEF FinishInv, Round
<1>5. EndInv'
  BY DEF EndInv, FinishInv, ThreadInv, Ended, EndsStream, InState
<1> QED
  BY <1>1, <1>2, <1>3, <1>4, <1>5

(* The pool is stopped after both threads. *)
LEMMA MainStopInv ==
  ASSUME Inv, MainStop PROVE Inv'
<1> USE SizesAssumption DEF Inv, TypeOK, FlagsOK, ControlOK, DataOK, MainStop,
        AbortSequence, Goto, pipeline_fail, pool, trigger, tokens, totals,
        control, AcqPcs, SndPcs, MainPcs, Worker, NoBank
<1>1. FlagsOK' /\ ControlOK' /\ DataOK'
  BY Frame
<1>2. ThreadInv'
  BY DEF ThreadInv
<1>3. TriggerInv'
  BY DEF TriggerInv, ThreadInv
<1>4. OwnInv'
  BY OwnFrame DEF InState
<1>5. HoldInv' /\ QueueInv' /\ SendInv'
  BY Frame DEF Pushed, Popped
<1>6. CaptureInv'
  BY DEF CaptureInv, ThreadInv, Pushed, Quiet, InState
<1>7. FinishInv'
  BY DEF FinishInv, Round
<1>8. EndInv'
  BY DEF EndInv, Ended, InState, EndsStream, FinishInv
<1> QED
  BY <1>1, <1>2, <1>3, <1>4, <1>5, <1>6, <1>7, <1>8

(* A signal only sets the flag. *)
LEMMA handle_stop_signalInv ==
  ASSUME Inv, handle_stop_signal PROVE Inv'
<1> USE SizesAssumption DEF Inv, TypeOK, FlagsOK, ControlOK, DataOK,
        handle_stop_signal, Goto, pipeline_fail, pool, trigger, tokens,
        totals, control, AcqPcs, SndPcs, MainPcs, Worker, NoBank
<1>1. FlagsOK' /\ ControlOK' /\ DataOK' /\ ThreadInv' /\ TriggerInv' /\
            OwnInv' /\ HoldInv' /\ CaptureInv' /\ QueueInv' /\ SendInv' /\
            FinishInv'
  BY Frame DEF Pushed, Popped
<1>2. EndInv'
  BY DEF EndInv, Ended, InState, EndsStream, FinishInv
<1> QED
  BY <1>1, <1>2

-----------------------------------------------------------------------------
(* The steps of a RELEASE that a thread waits for. *)
LEMMA CallsInv ==
  ASSUME Inv, Calls PROVE Inv'
<1> USE DEF Inv, TypeOK, pool, trigger, tokens, totals
<1>1. PICK t \in Worker : /\ call[t] \in {"wait", "woken"}
                          /\ \E how \in {"woken", "ok", "error"} :
                               call' = [call EXCEPT ![t] = how]
                          /\ UNCHANGED <<pool, trigger, tokens, totals, pc, hold,
                                         part, result, wire>>
  BY DEF Calls, ReleaseWoken, ReleaseReturn
<1>2. ControlOK'
  BY <1>1 DEF ControlOK
<1>3. HoldInv'
  BY <1>1 DEF HoldInv, ControlOK, Worker
<1>4. EndInv'
  BY <1>1 DEF EndInv, Ended, InState, EndsStream
<1>5. /\ FlagsOK' /\ DataOK' /\ ThreadInv' /\ TriggerInv' /\ OwnInv' /\ CaptureInv'
      /\ QueueInv' /\ SendInv' /\ FinishInv'
  BY <1>1, Frame DEF Pushed, Popped
<1> QED
  BY <1>2, <1>3, <1>4, <1>5

(* Nothing has happened at the start. *)
LEMMA InitInv == Init => Inv
<1> SUFFICES ASSUME Init PROVE Inv
  OBVIOUS
<1> USE SizesAssumption DEF Init, Worker, NoBank
<1>1. TypeOK
  <2>1. FlagsOK
    BY DEF FlagsOK
  <2>2. ControlOK
    BY DEF ControlOK, AcqPcs, SndPcs, MainPcs
  <2>3. DataOK
    BY DEF DataOK, Bank
  <2> QED
    BY <2>1, <2>2, <2>3 DEF TypeOK
<1>2. ThreadInv /\ TriggerInv
  BY DEF ThreadInv, TriggerInv, InState
<1>3. Queued = {} /\ InState("ready") = {}
  BY DEF Queued, InState
<1>4. OwnInv /\ HoldInv
  BY <1>3 DEF OwnInv, HoldInv, Bank
<1>5. CaptureInv /\ QueueInv
  BY <1>3 DEF CaptureInv, QueueInv, Pushed, Popped, Quiet
<1>6. SendInv /\ FinishInv /\ EndInv
  BY DEF SendInv, WireInOrder, FinishInv, Round, EndInv
<1> QED
  BY <1>1, <1>2, <1>4, <1>5, <1>6 DEF Inv

(* Every step of threads, pool and sequencer keeps Inv.                    *)
LEMMA NextInv == Inv /\ [Next]_vars => Inv'
<1> SUFFICES ASSUME Inv, [Next]_vars PROVE Inv'
  OBVIOUS
<1>1. CASE Hardware
  BY <1>1, SequenceFiresInv, SequenceEndsInv, FinalizeInv, TakeKickInv, RearmInv
     DEF Hardware
<1>2. CASE Calls
  BY <1>2, CallsInv
<1>3. CASE Acquisition
  BY <1>3, AcqRequireInv, AcqTopInv, AcqArmedInv, AcqStartInv, AcqDequeueInv,
     AcqCheckInv, AcqPushInv, AcqCountInv, AcqDropInv, AcqFinishInv DEF Acquisition
<1>4. CASE Sender
  BY <1>4, SndPopInv, SndPacketInv, SndReleaseInv, SndDropInv, SndEndInv DEF Sender
<1>5. CASE Main
  BY <1>5, MainStartInv, MainCreateInv, MainJoinInv, MainStopInv DEF Main
<1>6. CASE handle_stop_signal
  BY <1>6, handle_stop_signalInv
<1>7. CASE UNCHANGED vars
  <2> USE <1>7 DEF Inv, TypeOK, vars, pool, trigger, tokens, totals, control
  <2>1. EndInv'
    BY DEF EndInv, Ended, InState, EndsStream
  <2>2. /\ FlagsOK' /\ ControlOK' /\ DataOK' /\ ThreadInv' /\ TriggerInv' /\ OwnInv'
        /\ HoldInv' /\ CaptureInv' /\ QueueInv' /\ SendInv' /\ FinishInv'
    BY Frame DEF Pushed, Popped
  <2> QED
    BY <2>1, <2>2
<1> QED
  BY <1>1, <1>2, <1>3, <1>4, <1>5, <1>6, <1>7 DEF Next

-----------------------------------------------------------------------------
(* The invariant holds always, from it the three properties of the run. *)
THEOREM Invariance == Spec => []Inv
BY InitInv, NextInv, PTL DEF Spec

(* wait_pool_armed before every sequence_arm_start: no trigger of a healthy *)
(* run finds the pool unarmed.                                              *)
THEOREM TriggerSafe == Spec => []NoTriggerMissed
<1>1. Inv => NoTriggerMissed
  BY DEF Inv, TriggerInv, NoTriggerMissed
<1> QED
  BY <1>1, Invariance, PTL

(* emit_udp, queue_push and queue_pop: every datagram is the next packet of *)
(* the next shot, straight from a bank nobody overwrites meanwhile.         *)
THEOREM WireSafe == Spec => []WireInOrder
<1>1. Inv => WireInOrder
  BY DEF Inv, SendInv
<1> QED
  BY <1>1, Invariance, PTL

(* sender_thread and run_sustained: END_OF_STREAM, or an exit status of     *)
(* success, means that all shots were sent and all banks given back.        *)
THEOREM EndSafe == Spec => []CleanEndMeansAll
<1>1. Inv => CleanEndMeansAll
  <2>1. ASSUME Inv, pc["main"] = "done", result = "ok"
        PROVE  wire # <<>> /\ wire[Len(wire)].part = 0
                 /\ (duration_mode \/ acquired_shots = Shots)
    BY <2>1 DEF Inv, EndInv, Ended
  <2> QED
    BY <2>1 DEF Inv, EndInv, CleanEndMeansAll
<1> QED
  BY <1>1, Invariance, PTL
=============================================================================

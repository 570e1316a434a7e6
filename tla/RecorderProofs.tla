--------------------------- MODULE RecorderProofs ---------------------------
(***************************************************************************)
(* What the recorder publishes, for any number of shots and packets, any   *)
(* limits and any faults of the network, the disk and the process.         *)
(***************************************************************************)
EXTENDS Recorder, WellFoundedInduction, SequenceTheorems, FiniteSetTheorems, TLAPS

(* A non-empty set of numbers has a least one. *)
LEMMA Minimum ==
  ASSUME NEW S, S \subseteq Nat, S # {}
  PROVE  \E m \in S : \A n \in S : m <= n
<1>1. \E m \in S : \A n \in S : <<n, m>> \notin OpToRel(<, Nat)
  BY NatLessThanWellFounded, WFMin
<1>2. \A n, m \in S : <<n, m>> \notin OpToRel(<, Nat) => m <= n
  BY DEF OpToRel
<1> QED
  BY <1>1, <1>2

(* Arithmetic of the packet numbers: whole shots, and a packet in a shot. *)
LEMMA Times ==
  ASSUME NEW p \in Nat \ {0}, NEW a \in Int, NEW b \in Int
  PROVE  /\ a < b => a * p + p <= b * p
         /\ a * p = b * p => a = b
<1>1. \A c, d \in Int : c < d => c * p + p <= d * p
  OBVIOUS
<1> QED
  BY <1>1

(* Packet k of the shot after a whole ones belongs to that shot.           *)
LEMMA Divides ==
  ASSUME NEW p \in Nat \ {0}, NEW a \in Nat, NEW k \in 0 .. p - 1
  PROVE  (a * p + k) \div p = a
<1> DEFINE x == a * p + k
           q == x \div p
<1>1. x \in Int /\ q \in Int /\ p * q <= x /\ x < p * q + p
  OBVIOUS
<1>2. q < a => FALSE
  BY <1>1, Times
<1>3. a < q => FALSE
  BY <1>1, Times
<1> QED
  BY <1>1, <1>2, <1>3

-----------------------------------------------------------------------------
(* Types of what the recorder publishes and of the shots it assembles. *)
Pcs == {"run", "ready", "index", "forced", "forced_index", "close", "done",
        "crashed"}
Sample == [seq : Int, shape : {"sent", "altered", "malformed", "foreign"}]
ShotState == [id : Nat \ {0}, packets : SUBSET Datagram, conflict : BOOLEAN]
Record == [shot : Nat, issues : SUBSET Issue, offset : Int, length : Nat]

TypeOK ==
  /\ pc \in Pcs
  /\ shots \in Seq(ShotState)
  /\ expected_sequence \in Int /\ last_shot_id \in Int
  /\ terminal \in [sequence : Int, shot : Int]
  /\ samples \in Seq(Sample) /\ sample_offset \in Nat
  /\ record \in Record /\ index \in Seq(Record)
  /\ \A k \in DOMAIN index : index[k].shot # 0

(* Nothing is written behind the recorder's back: until a write fails the  *)
(* offset it keeps is the length of samples.iq16.                          *)
Writing == {"run", "ready", "index", "forced", "forced_index"}
OffsetInv == pc \in Writing => sample_offset = Len(samples)

(* A COMPLETE record points at the payload of its shot. *)
Exact(r) ==
  Complete(r) =>
    /\ r.offset \in Nat /\ r.offset + r.length <= Len(samples)
    /\ SubSeq(samples, r.offset + 1, r.offset + r.length) = Payload(r.shot)

(* The record about to be indexed is that of the lowest active shot. *)
Indexing == {"index", "forced_index"}
RecordInv ==
  /\ pc \in Indexing => /\ shots # <<>> /\ Exact(record)
                        /\ record.shot = Lowest.id
                        /\ record.issues = issue_flags(Lowest)
  /\ pc = "index" => shot_sequence_complete(Lowest)

(* A shot is active once or indexed once.  While packets are still taken,  *)
(* last_shot_id separates the two: a shot at or below it may be active     *)
(* only without its STREAM_INFO, and then it never becomes complete.       *)
Taking == {"run", "ready", "index"}
IdInv ==
  /\ \A i, j \in DOMAIN shots : shots[i].id = shots[j].id => i = j
  /\ \A i \in DOMAIN shots : \A k \in DOMAIN index : shots[i].id # index[k].shot
  /\ \A k, l \in DOMAIN index : index[k].shot = index[l].shot => k = l
  /\ pc \in Taking =>
       /\ \A k \in DOMAIN index : index[k].shot <= last_shot_id
       /\ \A i \in DOMAIN shots : have_info(shots[i]) =>
                                    shots[i].id > last_shot_id

ExactInv == \A k \in DOMAIN index : Exact(index[k])

(* As long as every record is COMPLETE the shots are consecutive and the   *)
(* expected sequence number follows the last one.                          *)
AllComplete == \A k \in DOMAIN index : Complete(index[k])
LastShot == index[Len(index)].shot
ChainInv ==
  AllComplete /\ index # <<>> =>
    /\ \A k \in DOMAIN index : index[k].shot = LastShot - Len(index) + k
    /\ expected_sequence = EndOf(LastShot) + 1

TerminalInv == terminal.sequence \in {None, EndOfRun}

ManifestInv == manifest # "none" => pc = "done" /\ AcceptedRunHasNoGap

Inv == /\ TypeOK /\ OffsetInv /\ RecordInv /\ IdInv /\ ExactInv /\ ChainInv
       /\ TerminalInv /\ ManifestInv

-----------------------------------------------------------------------------
(* Facts about packets, shots and sequences. *)

(* Packets belong to numbered shots. *)
LEMMA ShotNumbers ==
  ASSUME NEW n \in Packet, n # EndOfRun PROVE ShotOf(n) \in Nat \ {0}
<1>1. PerShot \in Nat \ {0} /\ EndOfRun \in Nat /\ n \in Nat
  BY SizesAssumption DEF PerShot, EndOfRun, Packet
<1>2. n \div PerShot \in Nat
  BY <1>1
<1> QED
  BY <1>2 DEF ShotOf

(* Where a shot ends, the next one begins. *)
LEMMA Boundaries ==
  ASSUME NEW s \in Nat
  PROVE  /\ InfoOf(s) \in Int /\ EndOf(s) \in Int
         /\ InfoOf(s + 1) = EndOf(s) + 1
         /\ EndOf(s) + 1 = s * PerShot
         /\ EndOf(s) + 1 = EndOfRun => s = Shots
         /\ \A t \in Nat : InfoOf(t) = EndOf(s) + 1 => t = s + 1
<1>1. PerShot \in Nat \ {0} /\ Shots \in Nat
  BY SizesAssumption DEF PerShot
<1>2. InfoOf(s) \in Int /\ EndOf(s) \in Int /\ InfoOf(s + 1) = EndOf(s) + 1
        /\ EndOf(s) + 1 = s * PerShot
  BY <1>1 DEF InfoOf, EndOf
<1>3. EndOf(s) + 1 = EndOfRun => s = Shots
  BY <1>1, <1>2, Times DEF EndOfRun
<1>4. \A t \in Nat : InfoOf(t) = EndOf(s) + 1 => t = s + 1
  <2>1. \A t \in Nat : (t - 1) * PerShot = s * PerShot => t - 1 = s
    BY <1>1, Times
  <2> QED
    BY <1>2, <2>1 DEF InfoOf
<1> QED
  BY <1>2, <1>3, <1>4

(* The first DATA packet of a shot is one of its DATA packets. *)
LEMMA FirstDataPacket ==
  ASSUME NEW s \in Nat \ {0}
  PROVE  InfoOf(s) + 1 \in DataOf(s) /\ IsData(InfoOf(s) + 1)
<1>1. PerShot \in Nat \ {0} /\ PerShot >= 3 /\ Shots \in Nat
        /\ PerShot = DataPackets + 2 /\ DataPackets \in Nat \ {0}
  BY SizesAssumption DEF PerShot
<1>2. InfoOf(s) + 1 = (s - 1) * PerShot + 1
  BY DEF InfoOf
<1>3. InfoOf(s) + 1 \in DataOf(s)
  <2>1. s * PerShot = (s - 1) * PerShot + PerShot
    BY <1>1
  <2>2. (s - 1) * PerShot \in Int
    BY <1>1
  <2> QED
    BY <1>1, <2>1, <2>2 DEF DataOf, InfoOf, EndOf
<1>4. InfoOf(s) + 1 # EndOfRun
  <2>1. (s - 1) * PerShot \in Int /\ Shots * PerShot \in Int
    BY <1>1
  <2>2. s - 1 < Shots => (s - 1) * PerShot + PerShot <= Shots * PerShot
    BY <1>1, Times
  <2>3. Shots < s - 1 => Shots * PerShot + PerShot <= (s - 1) * PerShot
    BY <1>1, Times
  <2>4. s - 1 = Shots => (s - 1) * PerShot = Shots * PerShot
    OBVIOUS
  <2> QED
    BY <1>1, <1>2, <2>1, <2>2, <2>3, <2>4 DEF EndOfRun
<1>5. ShotOf(InfoOf(s) + 1) = s
  <2>1. ((s - 1) * PerShot + 1) \div PerShot = s - 1
    BY <1>1, Divides
  <2> QED
    BY <1>2, <1>4, <2>1 DEF ShotOf
<1> QED
  BY <1>3, <1>5 DEF IsData

(* A complete shot has its timestamp; a timestamp is the shot's number. *)
LEMMA Timestamp ==
  ASSUME NEW shot \in ShotState
  PROVE  /\ first_timestamp(shot) \in {0, shot.id}
         /\ shot_sequence_complete(shot) => first_timestamp(shot) = shot.id
<1>1. ASSUME shot_sequence_complete(shot)
      PROVE  \E d \in data_packets(shot) : d.seq = InfoOf(shot.id) + 1
  <2>1. shot.id \in Nat \ {0}
    BY DEF ShotState
  <2>2. PICK d \in shot.packets : d.seq = InfoOf(shot.id) + 1
    BY <1>1, <2>1, FirstDataPacket DEF shot_sequence_complete, Got
  <2> QED
    BY <1>1, <2>1, <2>2, FirstDataPacket
    DEF data_packets, shot_sequence_complete
<1> QED
  BY <1>1 DEF first_timestamp

(* What a shot without an issue is. *)
LEMMA NoIssue ==
  ASSUME NEW shot, issue_flags(shot) = {}
  PROVE  /\ shot_sequence_complete(shot) /\ have_info(shot) /\ have_end(shot)
         /\ Assembled(shot) = Payload(shot.id)
         /\ expected_sequence # None => InfoOf(shot.id) = expected_sequence
<1>1. /\ ~Raises(shot, "MISSING") /\ ~Raises(shot, "PROTOCOL")
      /\ ~Raises(shot, "CRC") /\ ~Raises(shot, "CONTINUITY")
  BY DEF issue_flags, Issue
<1>2. shot_sequence_complete(shot) /\ have_info(shot) /\ have_end(shot)
  BY <1>1 DEF Raises
<1>3. Assembled(shot) = Payload(shot.id)
  BY <1>1, <1>2 DEF Raises
<1>4. expected_sequence # None => InfoOf(shot.id) = expected_sequence
  BY <1>1, <1>2 DEF Raises
<1> QED
  BY <1>2, <1>3, <1>4

(* The payload of a shot is a sequence of samples. *)
LEMMA PayloadType ==
  ASSUME NEW s \in Nat
  PROVE  Payload(s) \in Seq(Sample) /\ Len(Payload(s)) = DataPackets
<1>1. \A i \in 1 .. DataPackets : Sent(InfoOf(s) + i) \in Sample
  BY Boundaries DEF Sent, Sample
<1> QED
  BY <1>1, SizesAssumption DEF Payload

(* The shot that is finalized is active, and the first of those that have  *)
(* a STREAM_INFO if any has.                                               *)
LEMMA LowestActive ==
  ASSUME shots \in Seq(ShotState), shots # <<>>
  PROVE  /\ lowest_sequence_shot \in DOMAIN shots /\ Lowest \in ShotState
         /\ have_info(Lowest) =>
              \A j \in DOMAIN shots : have_info(shots[j]) =>
                                        Lowest.id <= shots[j].id
         /\ (\E i \in DOMAIN shots : have_info(shots[i])) => have_info(Lowest)
<1> DEFINE known == {i \in DOMAIN shots : have_info(shots[i])}
<1>1. \A i \in DOMAIN shots : shots[i] \in ShotState /\ shots[i].id \in Nat
  <2>1. \A i \in DOMAIN shots : shots[i] \in ShotState
    OBVIOUS
  <2> QED
    BY <2>1 DEF ShotState
<1>2. 1 \in DOMAIN shots
  OBVIOUS
<1>3. CASE known = {}
  BY <1>1, <1>2, <1>3 DEF lowest_sequence_shot, Lowest
<1>4. CASE known # {}
  <2>1. PICK m \in {shots[i].id : i \in known} :
               \A n \in {shots[i].id : i \in known} : m <= n
    <3>1. {shots[i].id : i \in known} \subseteq Nat
            /\ {shots[i].id : i \in known} # {}
      BY <1>1, <1>4
    <3> QED
      BY <3>1, Minimum
  <2>2. \E i \in known : \A j \in known : shots[i].id <= shots[j].id
    BY <2>1
  <2>3. /\ lowest_sequence_shot \in known
        /\ \A j \in known : shots[lowest_sequence_shot].id <= shots[j].id
    BY <1>4, <2>2 DEF lowest_sequence_shot
  <2> QED
    BY <1>1, <2>3 DEF Lowest
<1> QED
  BY <1>3, <1>4

(* Removing an element moves the later ones down. *)
LEMMA Removed ==
  ASSUME NEW S, NEW s \in Seq(S), NEW i \in DOMAIN s
  PROVE  /\ RemoveAt(s, i) \in Seq(S)
         /\ Len(RemoveAt(s, i)) = Len(s) - 1
         /\ \A k \in DOMAIN RemoveAt(s, i) :
              RemoveAt(s, i)[k] = s[IF k < i THEN k ELSE k + 1]
<1> DEFINE front == SubSeq(s, 1, i - 1)
           back == SubSeq(s, i + 1, Len(s))
<1>1. i \in 1 .. Len(s) /\ Len(s) \in Nat
  OBVIOUS
<1>2. front \in Seq(S) /\ Len(front) = i - 1
        /\ \A k \in 1 .. i - 1 : front[k] = s[k]
  BY <1>1
<1>3. back \in Seq(S) /\ Len(back) = Len(s) - i
        /\ \A k \in 1 .. Len(s) - i : back[k] = s[i + k]
  BY <1>1
<1> HIDE DEF front, back
<1>4. RemoveAt(s, i) = front \o back
  BY DEF RemoveAt, front, back
<1>5. front \o back \in Seq(S) /\ Len(front \o back) = Len(s) - 1
  BY <1>1, <1>2, <1>3
<1>6. ASSUME NEW k \in 1 .. Len(s) - 1
      PROVE  (front \o back)[k] = s[IF k < i THEN k ELSE k + 1]
  BY <1>1, <1>2, <1>3
<1>7. DOMAIN (front \o back) = 1 .. Len(s) - 1
  BY <1>5
<1> QED
  BY <1>4, <1>5, <1>6, <1>7

(* Appending to samples.iq16 leaves what is published where it is. *)
LEMMA ExactKept ==
  ASSUME samples \in Seq(Sample), NEW more \in Seq(Sample),
         samples' = samples \o more, NEW r \in Record, Exact(r)
  PROVE  Exact(r)'
<1> SUFFICES ASSUME Complete(r) PROVE Exact(r)'
  BY DEF Exact, Complete
<1> DEFINE first == r.offset + 1
           last == r.offset + r.length
<1>1. /\ r.offset \in Nat /\ last <= Len(samples)
      /\ SubSeq(samples, first, last) = Payload(r.shot)
      /\ first \in Nat /\ first >= 1 /\ last \in Nat
  BY DEF Exact, Record
<1>2. Len(samples \o more) = Len(samples) + Len(more)
        /\ Len(samples) \in Nat /\ Len(more) \in Nat
  OBVIOUS
<1> HIDE DEF first, last
<1>3. SubSeq(samples \o more, first, last) = SubSeq(samples, first, last)
  <2>1. CASE last < first
    BY <1>1, <2>1, SubSeqEmpty
  <2>2. CASE first <= last
    <3>1. first \in 1 .. Len(samples) /\ last \in 1 .. Len(samples)
      BY <1>1, <1>2, <2>2
    <3> QED
      BY <3>1, SubSeqOfConcat1
  <2> QED
    BY <1>1, <2>1, <2>2
<1>4. last <= Len(samples \o more)
  BY <1>1, <1>2
<1> QED
  BY <1>1, <1>3, <1>4 DEF Exact, first, last

-----------------------------------------------------------------------------
(* The steps of the recorder. *)

(* The record that is about to be indexed does not change by itself. *)
LEMMA LowestKept ==
  ASSUME UNCHANGED <<shots, expected_sequence, last_shot_id>>
  PROVE  /\ Lowest' = Lowest /\ issue_flags(Lowest)' = issue_flags(Lowest)
         /\ shot_sequence_complete(Lowest)' = shot_sequence_complete(Lowest)
BY DEF Lowest, lowest_sequence_shot, issue_flags, Raises

(* Steps that leave the assembly and the published files alone: only pc    *)
(* may move, out of the receive loop or to the end.                        *)
kept == <<shots, expected_sequence, last_shot_id, samples, sample_offset,
          record, index, manifest>>
LEMMA Frame ==
  ASSUME Inv, UNCHANGED kept, TerminalInv', terminal' \in [sequence : Int, shot : Int],
         pc' \in {pc, "forced", "close", "done", "crashed"},
         pc' = "forced" => pc \in {"run", "forced"},
         pc = "done" => pc' = "done"
  PROVE  Inv'
<1>1. TypeOK'
  BY DEF Inv, TypeOK, kept, Pcs
<1>2. OffsetInv'
  BY DEF Inv, OffsetInv, kept, Writing
<1>3. \A r : Exact(r)' = Exact(r)
  BY DEF kept, Exact, Complete
<1>4. RecordInv'
  BY <1>3, LowestKept DEF Inv, RecordInv, kept, Indexing
<1>5. IdInv'
  BY DEF Inv, IdInv, kept, Taking
<1>6. ExactInv'
  BY <1>3 DEF Inv, ExactInv, kept
<1>7. ChainInv'
  BY DEF Inv, ChainInv, kept, AllComplete, LastShot, Complete
<1>8. ManifestInv'
  BY DEF Inv, ManifestInv, AcceptedRunHasNoGap, kept
<1> QED
  BY <1>1, <1>2, <1>4, <1>5, <1>6, <1>7, <1>8 DEF Inv

(* The network and the intake of a datagram change nothing of this. *)
LEMMA IntakeKeeps ==
  ASSUME Inv, \/ Arrive \/ ArriveExtra \/ Lose
              \/ Malformed \/ save_pending \/ select_run \/ Ignored
  PROVE  Inv'
<1>1. UNCHANGED <<kept, terminal, pc>>
  BY DEF kept, Arrive, ArriveExtra, Lose, Malformed, save_pending, select_run,
         Ignored, Receive, run, publication, process
<1> QED
  BY <1>1, Frame DEF Inv, TypeOK, TerminalInv

(* The run ends or is ended. *)
LEMMA EndKeeps ==
  ASSUME Inv, \/ JournalFails \/ IndexFails \/ SelectFails \/ CloseFails
              \/ EndReceive \/ Crash
  PROVE  Inv'
<1>1. /\ UNCHANGED <<kept, terminal>>
      /\ pc' \in {"forced", "close", "done", "crashed"}
      /\ pc' = "forced" => pc = "run"
      /\ pc # "done"
  BY DEF kept, JournalFails, IndexFails, SelectFails, CloseFails, EndReceive,
         Crash, Ingest, run, publication, process, Fail
<1> QED
  BY <1>1, Frame DEF Inv, TypeOK, TerminalInv

(* The heartbeat names the end of the run. *)
LEMMA HeartbeatKeeps ==
  ASSUME Inv, Heartbeat PROVE Inv'
<1>1. /\ UNCHANGED <<kept, pc>>
      /\ terminal' = [sequence |-> EndOfRun, shot |-> Shots]
  BY DEF kept, Heartbeat, publication
<1>2. EndOfRun \in Int /\ Shots \in Int
  BY SizesAssumption DEF EndOfRun, PerShot
<1> QED
  BY <1>1, <1>2, Frame DEF TerminalInv

(* add_packet keeps the number of the shot. *)
LEMMA AddedPacket ==
  ASSUME NEW shot \in ShotState, NEW d \in Datagram
  PROVE  add_packet(shot, d) \in ShotState /\ add_packet(shot, d).id = shot.id
<1>1. /\ shot.id \in Nat \ {0} /\ shot.packets \subseteq Datagram
      /\ shot.conflict \in BOOLEAN
      /\ shot = [id |-> shot.id, packets |-> shot.packets,
                 conflict |-> shot.conflict]
  BY DEF ShotState
<1>2. (shot.conflict \/ d \notin shot.packets) \in BOOLEAN
  OBVIOUS
<1>3. [shot EXCEPT !.packets = @ \cup {d}] \in ShotState
        /\ [shot EXCEPT !.packets = @ \cup {d}].id = shot.id
  BY <1>1 DEF ShotState
<1>4. [shot EXCEPT !.conflict = @ \/ d \notin shot.packets] \in ShotState
        /\ [shot EXCEPT !.conflict = @ \/ d \notin shot.packets].id = shot.id
  BY <1>1, <1>2 DEF ShotState
<1> QED
  BY <1>3, <1>4 DEF add_packet

(* A new active shot, or one more packet in an active one, of a shot above *)
(* last_shot_id.                                                           *)
LEMMA ShotGrows ==
  ASSUME Inv, pc = "run", pc' = "ready", TerminalInv',
         terminal' \in [sequence : Int, shot : Int],
         UNCHANGED <<expected_sequence, last_shot_id, samples, sample_offset,
                     record, index, manifest>>,
         NEW s \in Nat \ {0}, s > last_shot_id,
         NEW shot \in ShotState, shot.id = s,
         \/ /\ shots' = Append(shots, shot)
            /\ \A i \in DOMAIN shots : shots[i].id # s
         \/ \E i \in DOMAIN shots : /\ shots[i].id = s
                                    /\ shots' = [shots EXCEPT ![i] = shot]
  PROVE  Inv'
<1>0. shots \in Seq(ShotState) /\ index \in Seq(Record)
        /\ last_shot_id \in Int
        /\ (\A i \in DOMAIN shots : shots[i].id \in Nat)
        /\ (\A k \in DOMAIN index : index[k].shot \in Nat)
  <2>1. shots \in Seq(ShotState) /\ index \in Seq(Record) /\ last_shot_id \in Int
    BY DEF Inv, TypeOK
  <2>2. (\A i \in DOMAIN shots : shots[i] \in ShotState)
          /\ (\A k \in DOMAIN index : index[k] \in Record)
    BY <2>1
  <2> QED
    BY <2>1, <2>2 DEF ShotState, Record
<1>1. /\ shots' \in Seq(ShotState)
      /\ \A i \in DOMAIN shots' :
           \/ i \in DOMAIN shots /\ shots'[i] = shots[i] /\ shots[i].id # s
           \/ shots'[i] = shot
      /\ \A i, j \in DOMAIN shots' :
           shots'[i] = shot /\ shots'[j] = shot => i = j
  <2>1. CASE /\ shots' = Append(shots, shot)
             /\ \A i \in DOMAIN shots : shots[i].id # s
    BY <1>0, <2>1
  <2>2. CASE \E i \in DOMAIN shots : /\ shots[i].id = s
                                     /\ shots' = [shots EXCEPT ![i] = shot]
    <3>1. PICK i \in DOMAIN shots : /\ shots[i].id = s
                                    /\ shots' = [shots EXCEPT ![i] = shot]
      BY <2>2
    <3>2. \A j \in DOMAIN shots : shots[j].id = s => j = i
      BY <3>1 DEF Inv, IdInv
    <3> QED
      BY <1>0, <3>1, <3>2
  <2> QED
    BY <2>1, <2>2
<1>2. \A k \in DOMAIN index : index[k].shot <= last_shot_id
  BY DEF Inv, IdInv, Taking
<1>3. TypeOK'
  BY <1>1 DEF Inv, TypeOK, Pcs
<1>4. OffsetInv' /\ RecordInv'
  BY DEF Inv, OffsetInv, RecordInv, Writing, Indexing
<1>5. IdInv'
  <2>1. \A i, j \in DOMAIN shots' : shots'[i].id = shots'[j].id => i = j
    BY <1>1 DEF Inv, IdInv
  <2>2. \A i \in DOMAIN shots' : \A k \in DOMAIN index :
          shots'[i].id # index[k].shot
    BY <1>0, <1>1, <1>2 DEF Inv, IdInv
  <2>3. \A i \in DOMAIN shots' : have_info(shots'[i]) =>
                                   shots'[i].id > last_shot_id
    BY <1>1 DEF Inv, IdInv, Taking
  <2> QED
    BY <1>2, <2>1, <2>2, <2>3 DEF Inv, IdInv
<1>6. ExactInv'
  BY DEF Inv, ExactInv, Exact, Complete
<1>7. ChainInv'
  BY DEF Inv, ChainInv, AllComplete, LastShot, Complete
<1>8. ManifestInv'
  BY DEF Inv, ManifestInv
<1> QED
  BY <1>3, <1>4, <1>5, <1>6, <1>7, <1>8 DEF Inv

(* A DATA or SHOT_END packet, or another STREAM_INFO, joins its shot. *)
LEMMA AddPacketKeeps ==
  ASSUME Inv, AddPacket PROVE Inv'
<1>1. pc = "run" /\ UNCHANGED <<expected_sequence, last_shot_id, samples,
                                sample_offset, record, index, manifest>>
  BY DEF AddPacket, Ingest, publication
<1>2. PICK d \in Datagram :
        LET s == ShotOf(d.seq)
            found == {i \in DOMAIN shots : shots[i].id = s}
        IN  /\ d.seq # EndOfRun /\ ~Late(d.seq)
            /\ \/ Fail /\ UNCHANGED <<shots, terminal>>
               \/ /\ found = {}
                  /\ shots' = Append(shots, add_packet([id |-> s, packets |-> {},
                                                       conflict |-> FALSE], d))
                  /\ pc' = "ready"
               \/ /\ \E i \in found :
                       shots' = [shots EXCEPT ![i] = add_packet(@, d)]
                  /\ pc' = "ready"
            /\ \/ CarriesEndOfStream(d.seq)
                    /\ terminal' = [sequence |-> d.seq + 1, shot |-> s]
               \/ UNCHANGED terminal
  BY DEF AddPacket
<1> DEFINE s == ShotOf(d.seq)
<1>3. d.seq \in Packet /\ s \in Nat \ {0} /\ d.seq \in Int
  <2>1. d.seq \in Packet
    BY DEF Datagram
  <2>2. Packet \subseteq Int
    BY DEF Packet
  <2> QED
    BY <1>2, <2>1, <2>2, ShotNumbers
<1>4. s > last_shot_id
  BY <1>2, <1>3 DEF Late, None, Inv, TypeOK
<1>5. TerminalInv' /\ terminal' \in [sequence : Int, shot : Int]
  <2>1. CASE CarriesEndOfStream(d.seq)
               /\ terminal' = [sequence |-> d.seq + 1, shot |-> s]
    <3>1. d.seq + 1 = EndOfRun
      BY <2>1, SizesAssumption, Boundaries DEF CarriesEndOfStream, EndOfRun
    <3> QED
      BY <1>3, <2>1, <3>1 DEF TerminalInv
  <2>2. CASE UNCHANGED terminal
    BY <2>2 DEF TerminalInv, Inv, TypeOK
  <2> QED
    BY <1>2, <2>1, <2>2
<1> HIDE DEF s
<1>6. CASE Fail /\ UNCHANGED <<shots, terminal>>
  BY <1>1, <1>5, <1>6, Frame DEF Fail, kept
<1>7. CASE /\ \A i \in DOMAIN shots : shots[i].id # s
           /\ shots' = Append(shots, add_packet([id |-> s, packets |-> {},
                                                 conflict |-> FALSE], d))
           /\ pc' = "ready"
  <2>1. [id |-> s, packets |-> {}, conflict |-> FALSE] \in ShotState
    BY <1>3 DEF ShotState
  <2>2. add_packet([id |-> s, packets |-> {}, conflict |-> FALSE], d) \in ShotState
          /\ add_packet([id |-> s, packets |-> {}, conflict |-> FALSE], d).id = s
    BY <2>1, AddedPacket
  <2> QED
    BY <1>1, <1>3, <1>4, <1>5, <1>7, <2>2, ShotGrows
<1>8. CASE \E i \in DOMAIN shots :
             /\ shots[i].id = s /\ pc' = "ready"
             /\ shots' = [shots EXCEPT ![i] = add_packet(@, d)]
  <2>1. PICK i \in DOMAIN shots :
             /\ shots[i].id = s /\ pc' = "ready"
             /\ shots' = [shots EXCEPT ![i] = add_packet(shots[i], d)]
    BY <1>8
  <2>2. shots[i] \in ShotState
    BY DEF Inv, TypeOK
  <2>3. add_packet(shots[i], d) \in ShotState
          /\ add_packet(shots[i], d).id = s
    BY <2>1, <2>2, AddedPacket
  <2> QED
    BY <1>1, <1>3, <1>4, <1>5, <2>1, <2>3, ShotGrows
<1> QED
  BY <1>2, <1>6, <1>7, <1>8 DEF s

(* What is appended can be read back. *)
LEMMA ReadBack ==
  ASSUME NEW S, NEW s \in Seq(S), NEW t \in Seq(S), Len(t) > 0
  PROVE  SubSeq(s \o t, Len(s) + 1, Len(s) + Len(t)) = t
<1>1. Len(s) \in Nat /\ Len(t) \in Nat
  OBVIOUS
<1>2. Len(s) + 1 \in Len(s) + 1 .. Len(s) + Len(t)
        /\ Len(s) + Len(t) \in Len(s) + 1 .. Len(s) + Len(t)
  BY <1>1
<1>3. SubSeq(s \o t, Len(s) + 1, Len(s) + Len(t))
        = SubSeq(t, Len(s) + 1 - Len(s), Len(s) + Len(t) - Len(s))
  BY <1>2, SubSeqOfConcat2
<1>4. Len(s) + 1 - Len(s) = 1 /\ Len(s) + Len(t) - Len(s) = Len(t)
  BY <1>1
<1> QED
  BY <1>3, <1>4, SubSeqFull

(* The files and the record change, the assembly does not. *)
LEMMA SamplesGrow ==
  ASSUME Inv, NEW more \in Seq(Sample), samples' = samples \o more,
         UNCHANGED <<shots, expected_sequence, last_shot_id, terminal, index,
                     manifest>>,
         record' \in Record, sample_offset' \in Nat,
         pc \in {"ready", "forced"},
         pc' \in {"close"} \cup Indexing, OffsetInv', RecordInv',
         pc' = "index" => pc = "ready"
  PROVE  Inv'
<1>1. TypeOK'
  <2>1. samples' \in Seq(Sample)
    BY DEF Inv, TypeOK
  <2> QED
    BY <2>1 DEF Inv, TypeOK, Pcs, Indexing
<1>2. IdInv'
  BY DEF Inv, IdInv, Taking, Indexing
<1>3. ExactInv'
  <2>1. ASSUME NEW k \in DOMAIN index PROVE Exact(index[k])'
    <3>1. index[k] \in Record /\ Exact(index[k])
      BY DEF Inv, TypeOK, ExactInv
    <3>2. samples \in Seq(Sample)
      BY DEF Inv, TypeOK
    <3>3. \A r \in Record : Exact(r) => Exact(r)'
      BY <3>2, ExactKept
    <3> QED
      BY <3>1, <3>3 DEF Exact, Complete
  <2> QED
    BY <2>1 DEF ExactInv
<1>4. ChainInv' /\ TerminalInv'
  BY DEF Inv, ChainInv, AllComplete, LastShot, Complete, TerminalInv
<1>5. ManifestInv'
  BY DEF Inv, ManifestInv
<1> QED
  BY <1>1, <1>2, <1>3, <1>4, <1>5 DEF Inv

(* finalize_shot writes the samples of a shot that raises no issue.  The   *)
(* record says where; a failed write ends the run.                         *)
LEMMA WriteSamplesKeeps ==
  ASSUME Inv, pc \in {"ready", "forced"}, shots # <<>>,
         pc = "ready" => shot_sequence_complete(Lowest), WriteSamples,
         UNCHANGED <<shots, expected_sequence, last_shot_id, terminal, index,
                     manifest>>
  PROVE  Inv'
<1> DEFINE issues == issue_flags(Lowest)
           data == Assembled(Lowest)
<1>1. /\ samples \in Seq(Sample) /\ sample_offset \in Nat /\ record \in Record
      /\ sample_offset = Len(samples)
  BY DEF Inv, TypeOK, OffsetInv, Writing
<1>2. Lowest \in ShotState /\ Lowest.id \in Nat /\ issues \subseteq Issue
  BY LowestActive DEF Inv, TypeOK, ShotState, issue_flags
<1>3. Lowest' = Lowest /\ issue_flags(Lowest)' = issues
        /\ shot_sequence_complete(Lowest)' = shot_sequence_complete(Lowest)
  BY LowestKept
<1>4. issues = {} => /\ data = Payload(Lowest.id)
                     /\ data \in Seq(Sample) /\ Len(data) > 0 /\ Len(data) \in Nat
  BY <1>2, NoIssue, PayloadType, SizesAssumption
<1>5. pc' = "index" \/ pc' = "forced_index" =>
        /\ pc' = IF pc = "ready" THEN "index" ELSE "forced_index"
        /\ record' = [shot |-> Lowest.id, issues |-> issues,
                      offset |-> IF issues = {} THEN sample_offset ELSE None,
                      length |-> IF issues = {} THEN Len(data) ELSE 0]
        /\ IF issues = {}
           THEN /\ samples' = samples \o data
                /\ sample_offset' = sample_offset + Len(data)
           ELSE UNCHANGED <<samples, sample_offset>>
  BY DEF WriteSamples, Fail
<1>6. ~(pc' = "index" \/ pc' = "forced_index") =>
        /\ pc' = "close" /\ issues = {} /\ UNCHANGED <<record, sample_offset>>
        /\ \E n \in 0 .. Len(data) : samples' = samples \o SubSeq(data, 1, n)
  BY DEF WriteSamples, Fail
<1> HIDE DEF issues, data
<1>7. CASE (pc' = "index" \/ pc' = "forced_index") /\ issues = {}
  <2>1. /\ record' = [shot |-> Lowest.id, issues |-> {},
                      offset |-> sample_offset, length |-> Len(data)]
        /\ samples' = samples \o data
        /\ sample_offset' = sample_offset + Len(data)
    BY <1>5, <1>7
  <2>2. record' \in Record /\ sample_offset' \in Nat
    BY <1>1, <1>2, <1>4, <1>7, <2>1 DEF Record
  <2>3. Len(samples') = Len(samples) + Len(data) /\ Len(samples) \in Nat
    BY <1>1, <1>4, <1>7, <2>1
  <2>4. OffsetInv'
    BY <1>1, <2>1, <2>3 DEF OffsetInv
  <2>5. Exact(record)'
    <3>1. SubSeq(samples', Len(samples) + 1, Len(samples) + Len(data)) = data
      BY <1>1, <1>4, <1>7, <2>1, ReadBack
    <3>2. record'.offset = Len(samples) /\ record'.length = Len(data)
            /\ record'.shot = Lowest.id
      BY <1>1, <2>1
    <3> QED
      BY <1>4, <1>7, <2>3, <3>1, <3>2 DEF Exact
  <2>6. RecordInv'
    <3>1. record'.shot = Lowest.id /\ record'.issues = issues
      BY <1>7, <2>1
    <3>2. shots' # <<>> /\ (pc' = "index" => pc = "ready")
      BY <1>5
    <3> QED
      BY <1>3, <2>5, <3>1, <3>2 DEF RecordInv
  <2> QED
    BY <1>4, <1>5, <1>7, <2>1, <2>2, <2>4, <2>6, SamplesGrow DEF Indexing
<1>8. CASE (pc' = "index" \/ pc' = "forced_index") /\ issues # {}
  <2>1. /\ record' = [shot |-> Lowest.id, issues |-> issues,
                      offset |-> None, length |-> 0]
        /\ UNCHANGED <<samples, sample_offset>>
    BY <1>5, <1>8
  <2>2. record' \in Record
    BY <1>2, <2>1 DEF Record, None
  <2>3. OffsetInv'
    BY <1>1, <2>1 DEF OffsetInv
  <2>4. RecordInv'
    <3>1. record'.shot = Lowest.id /\ record'.issues = issues
      BY <2>1
    <3>2. shots' # <<>> /\ (pc' = "index" => pc = "ready")
      BY <1>5
    <3>3. Exact(record)'
      BY <1>8, <3>1 DEF Exact, Complete
    <3> QED
      BY <1>3, <3>1, <3>2, <3>3 DEF RecordInv
  <2>5. samples' = samples \o <<>> /\ <<>> \in Seq(Sample)
    BY <1>1, <2>1
  <2> QED
    BY <1>1, <1>5, <1>8, <2>1, <2>2, <2>3, <2>4, <2>5, SamplesGrow DEF Indexing
<1>9. CASE ~(pc' = "index" \/ pc' = "forced_index")
  <2>1. PICK n \in 0 .. Len(data) : samples' = samples \o SubSeq(data, 1, n)
    BY <1>6, <1>9
  <2>2. SubSeq(data, 1, n) \in Seq(Sample)
    BY <1>4, <1>6, <1>9
  <2>3. OffsetInv' /\ RecordInv'
    BY <1>6, <1>9 DEF OffsetInv, RecordInv, Writing, Indexing
  <2> QED
    BY <1>1, <1>6, <1>9, <2>1, <2>2, <2>3, SamplesGrow
<1> QED
  BY <1>7, <1>8, <1>9

(* Both finalization loops write the samples of the lowest shot or end. *)
LEMMA FinalizeKeeps ==
  ASSUME Inv, finalize_ready \/ finalize_remaining PROVE Inv'
<1>1. UNCHANGED <<shots, expected_sequence, last_shot_id, terminal, index,
                  manifest>>
        /\ pc \in {"ready", "forced"}
  BY DEF finalize_ready, finalize_remaining, run, publication
<1>2. CASE /\ UNCHANGED publication
           /\ \/ pc = "ready" /\ pc' = "run"
              \/ pc = "forced" /\ pc' = "close"
  <2>1. UNCHANGED kept
    BY <1>1, <1>2 DEF kept, publication
  <2>2. CASE pc' = "close"
    BY <1>1, <1>2, <2>1, <2>2, Frame DEF Inv, TypeOK, TerminalInv
  <2>3. CASE pc = "ready" /\ pc' = "run"
    <3>1. TypeOK' /\ OffsetInv' /\ RecordInv' /\ TerminalInv'
      BY <1>1, <2>1, <2>3 DEF Inv, TypeOK, OffsetInv, RecordInv, TerminalInv,
        kept, Pcs, Writing, Indexing
    <3>2. IdInv'
      BY <2>1, <2>3 DEF Inv, IdInv, kept, Taking
    <3>3. ExactInv' /\ ChainInv' /\ ManifestInv'
      BY <2>1, <2>3 DEF Inv, ExactInv, Exact, Complete, ChainInv, AllComplete,
        LastShot, ManifestInv, kept
    <3> QED
      BY <3>1, <3>2, <3>3 DEF Inv
  <2> QED
    BY <1>2, <2>2, <2>3
<1>3. CASE /\ shots # <<>> /\ WriteSamples
           /\ pc = "ready" => shot_sequence_complete(Lowest)
  BY <1>1, <1>3, WriteSamplesKeeps
<1> QED
  BY <1>2, <1>3 DEF finalize_ready, finalize_remaining

(* The record of the lowest shot is indexed and the shot is gone. *)
LEMMA IndexKeeps ==
  ASSUME Inv, write_index_record PROVE Inv'
<1> DEFINE m == lowest_sequence_shot
<1>1. /\ pc \in Indexing /\ index' = Append(index, record)
      /\ shots' = RemoveAt(shots, m) /\ expected_sequence' = ExpectedNext
      /\ last_shot_id' = IF first_timestamp(Lowest) # 0 THEN Lowest.id
                         ELSE last_shot_id
      /\ pc' = IF pc = "index" THEN "ready" ELSE "forced"
      /\ UNCHANGED <<terminal, sample_offset, record, samples, manifest>>
  BY DEF write_index_record, Indexing
<1>2. /\ shots \in Seq(ShotState) /\ shots # <<>> /\ index \in Seq(Record)
      /\ record \in Record /\ record.shot = Lowest.id /\ Exact(record)
      /\ record.issues = issue_flags(Lowest)
      /\ pc = "index" => shot_sequence_complete(Lowest)
      /\ last_shot_id \in Int /\ expected_sequence \in Int
      /\ \A k \in DOMAIN index : index[k] \in Record /\ index[k].shot # 0
  BY <1>1 DEF Inv, TypeOK, RecordInv
<1>3. /\ m \in DOMAIN shots /\ Lowest \in ShotState /\ Lowest = shots[m]
      /\ Lowest.id \in Nat \ {0}
      /\ have_info(Lowest) => \A j \in DOMAIN shots : have_info(shots[j]) =>
                                                        Lowest.id <= shots[j].id
  BY <1>2, LowestActive DEF Lowest, ShotState
<1>4. \A i \in DOMAIN shots : shots[i] \in ShotState /\ shots[i].id \in Nat
  <2>1. \A i \in DOMAIN shots : shots[i] \in ShotState
    BY <1>2
  <2> QED
    BY <2>1 DEF ShotState
<1> HIDE DEF m
<1>5. /\ shots' \in Seq(ShotState)
      /\ \A i \in DOMAIN shots' : \E j \in DOMAIN shots \ {m} :
           shots'[i] = shots[j] /\ j = IF i < m THEN i ELSE i + 1
  <2>1. /\ RemoveAt(shots, m) \in Seq(ShotState)
        /\ Len(RemoveAt(shots, m)) = Len(shots) - 1
        /\ \A k \in DOMAIN RemoveAt(shots, m) :
             RemoveAt(shots, m)[k] = shots[IF k < m THEN k ELSE k + 1]
    BY <1>2, <1>3, Removed
  <2>2. /\ shots' \in Seq(ShotState) /\ Len(shots') = Len(shots) - 1
        /\ \A k \in DOMAIN shots' :
             shots'[k] = shots[IF k < m THEN k ELSE k + 1]
    BY <1>1, <2>1
  <2>3. DOMAIN shots' = 1 .. Len(shots) - 1 /\ DOMAIN shots = 1 .. Len(shots)
          /\ Len(shots) \in Nat
    BY <1>2, <2>2
  <2>4. \A i \in DOMAIN shots' : (IF i < m THEN i ELSE i + 1) \in DOMAIN shots \ {m}
    BY <1>3, <2>3
  <2> QED
    BY <2>2, <2>4
<1>6. \A i, j \in DOMAIN shots' : shots'[i].id = shots'[j].id => i = j
  <2>1. \A i, j \in DOMAIN shots : shots[i].id = shots[j].id => i = j
    BY DEF Inv, IdInv
  <2>2. DOMAIN shots' \subseteq Nat /\ m \in Nat
    BY <1>2, <1>3, <1>5
  <2> QED
    BY <1>5, <2>1, <2>2
<1>7. \A i \in DOMAIN shots' :
        /\ shots'[i].id # Lowest.id
        /\ \A k \in DOMAIN index : shots'[i].id # index[k].shot
        /\ have_info(Lowest) /\ have_info(shots'[i]) =>
             shots'[i].id > Lowest.id
  <2>1. ASSUME NEW j \in DOMAIN shots \ {m}
        PROVE  /\ shots[j].id # Lowest.id
               /\ \A k \in DOMAIN index : shots[j].id # index[k].shot
               /\ have_info(Lowest) /\ have_info(shots[j]) =>
                    shots[j].id > Lowest.id
    BY <1>3, <1>4, <2>1 DEF Inv, IdInv
  <2> QED
    BY <1>5, <2>1
<1>8. /\ index' \in Seq(Record) /\ Len(index') = Len(index) + 1
      /\ Len(index) \in Nat
      /\ DOMAIN index' = 1 .. Len(index) + 1 /\ DOMAIN index = 1 .. Len(index)
      /\ index'[Len(index) + 1] = record
      /\ \A k \in DOMAIN index : index'[k] = index[k]
  BY <1>1, <1>2
<1>9. \A k \in DOMAIN index' :
        k \in DOMAIN index \/ (k = Len(index) + 1 /\ index'[k] = record)
  BY <1>8
<1>10. \A k \in DOMAIN index : index[k].shot # Lowest.id
  BY <1>3 DEF Inv, IdInv
<1>11. TypeOK'
  <2>1. ExpectedNext \in Int
    BY <1>2, <1>3, Boundaries DEF ExpectedNext
  <2>2. \A k \in DOMAIN index' : index'[k].shot # 0
    BY <1>2, <1>3, <1>8, <1>9
  <2> QED
    BY <1>1, <1>2, <1>3, <1>5, <1>8, <2>1, <2>2 DEF Inv, TypeOK, Pcs
<1>12. OffsetInv' /\ RecordInv' /\ TerminalInv'
  BY <1>1 DEF Inv, OffsetInv, RecordInv, TerminalInv, Writing, Indexing
<1>13. IdInv'
  <2>1. \A i \in DOMAIN shots' : \A k \in DOMAIN index' :
          shots'[i].id # index'[k].shot
    BY <1>2, <1>7, <1>8, <1>9
  <2>2. \A k, l \in DOMAIN index' : index'[k].shot = index'[l].shot => k = l
    BY <1>2, <1>8, <1>9, <1>10 DEF Inv, IdInv
  <2>3. ASSUME pc' \in Taking
        PROVE  /\ \A k \in DOMAIN index' : index'[k].shot <= last_shot_id'
               /\ \A i \in DOMAIN shots' : have_info(shots'[i]) =>
                                             shots'[i].id > last_shot_id'
    <3>1. pc = "index"
      BY <1>1, <2>3 DEF Taking, Indexing
    <3>2. shot_sequence_complete(Lowest) /\ have_info(Lowest)
      BY <1>2, <3>1 DEF shot_sequence_complete
    <3>3. last_shot_id' = Lowest.id
      BY <1>1, <1>3, <3>2, Timestamp
    <3>4. Lowest.id > last_shot_id
            /\ \A k \in DOMAIN index : index[k].shot <= last_shot_id
      BY <1>3, <3>1, <3>2 DEF Inv, IdInv, Taking
    <3>5. \A k \in DOMAIN index' : index'[k].shot <= last_shot_id'
      <4>1. \A k \in DOMAIN index : index[k].shot \in Nat
        BY <1>2 DEF Record
      <4>2. \A k \in DOMAIN index : index[k].shot <= Lowest.id
        BY <1>2, <1>3, <3>4, <4>1
      <4> QED
        BY <1>2, <1>3, <1>8, <1>9, <3>3, <4>2
    <3>6. \A i \in DOMAIN shots' : have_info(shots'[i]) =>
                                     shots'[i].id > last_shot_id'
      BY <1>7, <3>2, <3>3
    <3> QED
      BY <3>5, <3>6
  <2> QED
    BY <1>6, <2>1, <2>2, <2>3 DEF IdInv
<1>14. ExactInv'
  <2>1. \A k \in DOMAIN index' : Exact(index'[k])
    BY <1>2, <1>8, <1>9 DEF Inv, ExactInv
  <2> QED
    BY <1>1, <2>1 DEF ExactInv, Exact, Complete
<1>15. ChainInv'
  <2> SUFFICES ASSUME AllComplete'
               PROVE  /\ \A k \in DOMAIN index' :
                           index'[k].shot = Lowest.id - Len(index') + k
                      /\ expected_sequence' = EndOf(Lowest.id) + 1
    <3>1. LastShot' = Lowest.id
      BY <1>2, <1>8 DEF LastShot
    <3> QED
      BY <3>1 DEF ChainInv
  <2>1. \A k \in DOMAIN index' : Complete(index'[k])
    BY DEF AllComplete, Complete
  <2>2. AllComplete /\ issue_flags(Lowest) = {}
    BY <1>2, <1>8, <2>1 DEF AllComplete, Complete
  <2>3. have_end(Lowest)
          /\ (expected_sequence # None => InfoOf(Lowest.id) = expected_sequence)
    BY <2>2, NoIssue
  <2>4. expected_sequence' = EndOf(Lowest.id) + 1
    BY <1>1, <2>3 DEF ExpectedNext
  <2>5. CASE index = <<>>
    BY <1>2, <1>3, <1>8, <1>9, <2>4, <2>5
  <2>6. CASE index # <<>>
    <3>1. /\ \A k \in DOMAIN index : index[k].shot = LastShot - Len(index) + k
          /\ expected_sequence = EndOf(LastShot) + 1
      BY <2>2, <2>6 DEF Inv, ChainInv
    <3>2. LastShot \in Nat
      <4>1. index[Len(index)] \in Record
        BY <1>2, <2>6
      <4> QED
        BY <4>1 DEF LastShot, Record
    <3>3. expected_sequence = LastShot * PerShot /\ LastShot * PerShot >= 0
      BY <3>1, <3>2, Boundaries, SizesAssumption DEF PerShot
    <3>4. InfoOf(Lowest.id) = EndOf(LastShot) + 1
      BY <1>2, <2>3, <3>1, <3>3 DEF None
    <3>5. Lowest.id = LastShot + 1
      BY <1>3, <3>2, <3>4, Boundaries
    <3>6. \A k \in DOMAIN index' : index'[k].shot = Lowest.id - Len(index') + k
      BY <1>2, <1>8, <1>9, <3>1, <3>2, <3>5
    <3> QED
      BY <2>4, <3>6
  <2> QED
    BY <2>5, <2>6
<1>16. ManifestInv'
  BY <1>1 DEF Inv, ManifestInv, Indexing
<1> QED
  BY <1>11, <1>12, <1>13, <1>14, <1>15, <1>16 DEF Inv

(* run.json says complete only of a run without a gap. *)
LEMMA CloseKeeps ==
  ASSUME Inv, Close PROVE Inv'
<1>1. /\ pc = "close" /\ pc' = "done"
      /\ manifest' = IF clean THEN "complete" ELSE "incomplete"
      /\ UNCHANGED <<shots, expected_sequence, last_shot_id, terminal, samples,
                     sample_offset, record, index>>
  BY DEF Close, run
<1>2. ASSUME clean PROVE \A i \in DOMAIN index : index[i].shot = Shots - Len(index) + i
  <2>1. /\ AllComplete /\ index # <<>>
        /\ terminal.sequence # None /\ terminal.sequence = expected_sequence
    BY <1>2 DEF clean, run_continuity_error, AllComplete
  <2>2. /\ \A k \in DOMAIN index : index[k].shot = LastShot - Len(index) + k
        /\ EndOf(LastShot) + 1 = EndOfRun
    BY <2>1 DEF Inv, ChainInv, TerminalInv
  <2>3. LastShot \in Nat
    <3>1. index \in Seq(Record) /\ index # <<>>
      BY <2>1 DEF Inv, TypeOK
    <3>2. LastShot = index[Len(index)].shot /\ index[Len(index)] \in Record
      BY <3>1 DEF LastShot
    <3> QED
      BY <3>2 DEF Record
  <2> QED
    BY <2>2, <2>3, Boundaries
<1>3. TypeOK' /\ OffsetInv' /\ RecordInv' /\ TerminalInv'
  BY <1>1 DEF Inv, TypeOK, OffsetInv, RecordInv, TerminalInv, Pcs, Writing,
              Indexing
<1>4. IdInv'
  BY <1>1 DEF Inv, IdInv, Taking
<1>5. ExactInv' /\ ChainInv'
  BY <1>1 DEF Inv, ExactInv, Exact, Complete, ChainInv, AllComplete, LastShot
<1>6. ManifestInv'
  BY <1>1, <1>2 DEF ManifestInv, AcceptedRunHasNoGap
<1> QED
  BY <1>3, <1>4, <1>5, <1>6 DEF Inv

(* Nothing is active or published at first. *)
LEMMA InitInv == Init => Inv
<1> SUFFICES ASSUME Init PROVE Inv
  OBVIOUS
<1>1. TypeOK
  BY DEF Init, TypeOK, Pcs, None, Record, Issue
<1>2. OffsetInv /\ RecordInv /\ IdInv /\ ExactInv /\ ChainInv /\ TerminalInv
        /\ ManifestInv
  BY DEF Init, OffsetInv, RecordInv, IdInv, ExactInv, ChainInv, TerminalInv,
         ManifestInv, Indexing
<1> QED
  BY <1>1, <1>2 DEF Inv

(* Every step keeps the invariant. *)
LEMMA NextInv == Inv /\ [Next]_vars => Inv'
<1> SUFFICES ASSUME Inv, [Next]_vars PROVE Inv'
  OBVIOUS
<1>1. CASE UNCHANGED vars
  <2>1. UNCHANGED <<kept, terminal, pc>>
    BY <1>1 DEF vars, kept, run, publication, process
  <2> QED
    BY <2>1, Frame DEF Inv, TypeOK, TerminalInv
<1>2. CASE Recording
  BY <1>2, IntakeKeeps, EndKeeps, HeartbeatKeeps, AddPacketKeeps,
     FinalizeKeeps, IndexKeeps, CloseKeeps DEF Recording
<1> QED
  BY <1>1, <1>2, IntakeKeeps, EndKeeps DEF Next

(* The invariant holds in every reachable state. *)
LEMMA Invariance == Spec => []Inv
  BY InitInv, NextInv, PTL DEF Spec

(* What the index calls COMPLETE is the payload the sender transmitted,    *)
(* and no shot is recorded twice, for every number of shots, every loss,   *)
(* duplicate, alteration and order of the datagrams, and a kill or a       *)
(* failed write at any point.                                              *)
THEOREM PublishedSafe == Spec => []PublishedExact
<1>1. Inv => PublishedExact
  BY DEF Inv, ExactInv, IdInv, Exact, PublishedExact
<1> QED
  BY <1>1, Invariance, PTL

(* A run that run.json accepts has no gap from its first recorded shot to  *)
(* the last shot the sender transmitted.                                   *)
THEOREM NoGapSafe == Spec => []AcceptedRunHasNoGap
<1>1. Inv => AcceptedRunHasNoGap
  BY DEF Inv, ManifestInv, AcceptedRunHasNoGap
<1> QED
  BY <1>1, Invariance, PTL

-----------------------------------------------------------------------------
(* What becomes of the packets that reach the recorder.                    *)

Journaled == durable \cup buffered
Announces(d) == d.shape = "sent" /\ IsInfo(d.seq)
AnyInfo == \E i \in DOMAIN shots : have_info(shots[i])
Indexed(t) == \E k \in DOMAIN index : index[k].shot = t

(* Neither a failed write nor a kill has ended the run. *)
Alive == status = "ok" /\ pc # "crashed"

(* No datagram was left out, and what is lost does not come again. *)
Sound == Alive /\ ~pending_overflow /\ (extras = 0 \/ damaged = 0)

(* A shot one of whose packets the recorder will never have as it was      *)
(* sent, or of which it has an altered packet.                             *)
Altered(t) == \E d \in Journaled : d.shape = "altered" /\ ShotOf(d.seq) = t
Lacking(t) ==
  \E n \in Packet : /\ n # EndOfRun /\ ShotOf(n) = t /\ Sent(n) \notin Journaled
                    /\ n \notin net \/ pc \notin Taking
Broken(t) == Lacking(t) \/ Altered(t)

(* A journaled packet was not overtaken by more than the network allows,   *)
(* and without damage a packet that is no longer under way is journaled.   *)
NetInv ==
  /\ net \subseteq Packet
  /\ durable \subseteq Datagram /\ buffered \subseteq Datagram
  /\ extras \in 0 .. MaxExtras /\ damaged \in Nat
  /\ \A d \in Journaled : d.shape = "altered" => IsData(d.seq)
  /\ \A d \in Journaled : \A m \in net : d.seq <= m + Window
  /\ damaged = 0 => /\ \A n \in Packet \ net : Sent(n) \in Journaled
                    /\ \A d \in Journaled : d.shape # "altered"

(* The datagrams not yet ingested.  A STREAM_INFO is only ever the last of *)
(* them, and while older ones are replayed no shot has its STREAM_INFO.    *)
QueueInv ==
  /\ inbox \in Seq(Datagram) /\ pending \in Seq(Datagram)
  /\ \A i \in DOMAIN inbox : /\ inbox[i] \in Journaled
                             /\ i < Len(inbox) => ~Announces(inbox[i])
  /\ \A i \in DOMAIN pending : /\ pending[i] \in Journaled
                               /\ ~Announces(pending[i])
  /\ selected => pending = <<>>
  /\ ~selected => shots = <<>> /\ index = <<>> /\ Len(inbox) <= 1
  /\ inbox # <<>> => pc \in Taking
  /\ inbox # <<>> /\ (pc # "run" \/ Len(inbox) > 1) => ~AnyInfo
  /\ pc \in {"close", "done"} => shots = <<>>
  /\ pc = "done" => buffered = {}

(* What an active shot is made of. *)
Made(shot) ==
  /\ shot.id \in 1 .. Shots
  /\ \A d \in shot.packets :
       /\ d \in Journaled /\ d.shape \in {"sent", "altered"}
       /\ d.seq # EndOfRun /\ ShotOf(d.seq) = shot.id
  /\ shot.conflict => Altered(shot.id)
ShotsInv == \A i \in DOMAIN shots : Made(shots[i])

(* Where the continuity state comes from. *)
LastInv ==
  /\ index = <<>> => expected_sequence = None /\ last_shot_id = None
  /\ last_shot_id # None => Indexed(last_shot_id)

FlowInv == Alive => NetInv /\ QueueInv /\ ShotsInv /\ LastInv

(* A packet that was journaled as it was sent waits, is held in its shot,  *)
(* or belongs to a shot the index has passed.                              *)
Held(n) ==
  \/ \E i \in DOMAIN inbox : inbox[i] = Sent(n)
  \/ \E i \in DOMAIN pending : pending[i] = Sent(n)
  \/ \E i \in DOMAIN shots : shots[i].id = ShotOf(n) /\ n \in Got(shots[i])
  \/ \E k \in DOMAIN index : ShotOf(n) <= index[k].shot
AccountInv ==
  \A n \in Packet : n # EndOfRun /\ Sent(n) \in Journaled => Held(n)

(* A shot the index has passed over never gets its STREAM_INFO. *)
NoInfo(s) == /\ Sent(InfoOf(s)) \notin Journaled
             /\ pc \in Taking => InfoOf(s) \notin net
PassedInv ==
  \A k \in DOMAIN index : \A s \in 1 .. index[k].shot - 1 :
    Indexed(s) \/ NoInfo(s)

(* Shots with a STREAM_INFO are indexed in their order, and the next one   *)
(* is expected where a whole shot before it ended.                         *)
OrderInv ==
  /\ \A i \in DOMAIN shots : have_info(shots[i]) =>
       \A k \in DOMAIN index : index[k].shot < shots[i].id
  /\ index # <<>> /\ (AnyInfo \/ pc \in Taking) =>
       /\ \A k \in DOMAIN index : index[k].shot <= LastShot
       /\ expected_sequence = EndOf(LastShot) + 1 \/ Broken(LastShot)

(* A record that is not COMPLETE is that of a broken shot, or of the one   *)
(* after a broken shot.                                                    *)
Blamed(t) == Broken(t) \/ (t > 1 /\ Broken(t - 1))
BlameInv == \A k \in DOMAIN index : Complete(index[k]) \/ Blamed(index[k].shot)

KeepInv == Sound => AccountInv /\ PassedInv /\ OrderInv /\ BlameInv
-----------------------------------------------------------------------------
(* Packets of the shots the sender transmits. *)

(* Sizes of the stream. *)
LEMMA Sizes ==
  /\ PerShot \in Nat /\ PerShot >= 3 /\ PerShot = DataPackets + 2
  /\ Shots \in Nat \ {0} /\ DataPackets \in Nat \ {0} /\ EndOfRun \in Nat
  /\ EndOfRun = Shots * PerShot
  /\ Packet \subseteq Nat
  /\ \A n \in Nat : n < EndOfRun => n \in Packet
  /\ \A n \in Packet : n <= EndOfRun
<1>1. PerShot \in Nat /\ PerShot >= 3 /\ PerShot = DataPackets + 2
        /\ Shots \in Nat \ {0} /\ DataPackets \in Nat \ {0}
  BY SizesAssumption DEF PerShot
<1>2. EndOfRun \in Nat /\ EndOfRun = Shots * PerShot
  BY <1>1 DEF EndOfRun
<1> QED
  BY <1>1, <1>2 DEF Packet

(* The packets of shot s are those from its STREAM_INFO to its SHOT_END. *)
LEMMA PacketsOf ==
  ASSUME NEW s \in 1 .. Shots, NEW n \in InfoOf(s) .. EndOf(s)
  PROVE  n \in Packet /\ n # EndOfRun /\ ShotOf(n) = s /\ n \in Nat
<1>1. /\ PerShot \in Nat \ {0} /\ s \in Nat /\ s - 1 \in Nat /\ Shots \in Nat
      /\ EndOfRun = Shots * PerShot
  BY Sizes
<1>2. (s - 1) * PerShot \in Nat /\ s * PerShot = (s - 1) * PerShot + PerShot
  BY <1>1
<1>3. n - InfoOf(s) \in 0 .. PerShot - 1 /\ n \in Nat
        /\ n = (s - 1) * PerShot + (n - InfoOf(s)) /\ n < s * PerShot
  BY <1>1, <1>2 DEF InfoOf, EndOf
<1>4. s * PerShot <= Shots * PerShot
  BY <1>1, Times
<1>5. n < EndOfRun
  <2>1. s * PerShot \in Int /\ Shots * PerShot \in Int
    BY <1>1
  <2> QED
    BY <1>1, <1>3, <1>4, <2>1
<1>6. n \div PerShot = s - 1
  BY <1>1, <1>3, Divides
<1> QED
  BY <1>1, <1>3, <1>5, <1>6, Sizes DEF ShotOf

(* Every other packet of the stream belongs to one of the shots. *)
LEMMA ShotOfPacket ==
  ASSUME NEW n \in Packet, n # EndOfRun
  PROVE  ShotOf(n) \in 1 .. Shots /\ n \in InfoOf(ShotOf(n)) .. EndOf(ShotOf(n))
<1> DEFINE q == n \div PerShot
<1>1. /\ PerShot \in Nat \ {0} /\ n \in Nat /\ n < EndOfRun /\ Shots \in Nat
      /\ EndOfRun = Shots * PerShot
  <2>1. n \in Nat /\ n <= EndOfRun /\ EndOfRun \in Nat
    BY Sizes
  <2> QED
    BY <2>1, Sizes
<1>2. q \in Nat /\ PerShot * q <= n /\ n < PerShot * q + PerShot
  BY <1>1
<1>3. ShotOf(n) = q + 1
  BY DEF ShotOf
<1> HIDE DEF q
<1>4. q < Shots
  <2>1. Shots <= q => Shots * PerShot <= q * PerShot
    BY <1>1, <1>2, Times
  <2>2. PerShot * q = q * PerShot /\ q * PerShot \in Nat /\ Shots * PerShot \in Nat
    BY <1>1, <1>2
  <2> QED
    BY <1>1, <1>2, <2>1, <2>2
<1>5. InfoOf(q + 1) = q * PerShot /\ EndOf(q + 1) = q * PerShot + PerShot - 1
  <2>1. (q + 1) * PerShot = q * PerShot + PerShot
    BY <1>1, <1>2
  <2> QED
    BY <1>1, <1>2, <2>1 DEF InfoOf, EndOf
<1>6. PerShot * q = q * PerShot /\ q * PerShot \in Nat
  BY <1>1, <1>2
<1> QED
  BY <1>1, <1>2, <1>3, <1>4, <1>5, <1>6

(* The STREAM_INFO and the SHOT_END of a shot, and what is neither. *)
LEMMA ShotEdges ==
  ASSUME NEW s \in 1 .. Shots
  PROVE  /\ InfoOf(s) \in InfoOf(s) .. EndOf(s) /\ EndOf(s) \in InfoOf(s) .. EndOf(s)
         /\ EndOf(s) = InfoOf(s) + DataPackets + 1 /\ InfoOf(s) \in Nat
         /\ DataOf(s) = InfoOf(s) + 1 .. InfoOf(s) + DataPackets
         /\ IsInfo(InfoOf(s))
         /\ \A n \in Packet : n # EndOfRun /\ ShotOf(n) = s =>
              /\ IsInfo(n) => n = InfoOf(s)
              /\ IsData(n) <=> n \in DataOf(s)
<1>1. s \in Nat /\ s - 1 \in Nat /\ PerShot \in Nat /\ PerShot = DataPackets + 2
        /\ DataPackets \in Nat
  BY Sizes
<1>2. (s - 1) * PerShot \in Nat /\ s * PerShot = (s - 1) * PerShot + PerShot
  BY <1>1
<1>3. EndOf(s) = InfoOf(s) + DataPackets + 1 /\ InfoOf(s) \in Nat
  BY <1>1, <1>2 DEF InfoOf, EndOf
<1>4. InfoOf(s) \in InfoOf(s) .. EndOf(s) /\ EndOf(s) \in InfoOf(s) .. EndOf(s)
  BY <1>1, <1>3
<1>5. DataOf(s) = InfoOf(s) + 1 .. InfoOf(s) + DataPackets
  BY <1>1, <1>3 DEF DataOf
<1>6. IsInfo(InfoOf(s))
  BY <1>4, PacketsOf DEF IsInfo
<1> QED
  BY <1>3, <1>4, <1>5, <1>6 DEF IsInfo, IsData

(* The SHOT_END of a shot is sent too late to overtake the STREAM_INFO of  *)
(* an earlier one.                                                         *)
LEMMA Reach ==
  ASSUME Window < 2 * PerShot - 1, NEW s \in Nat, NEW t \in Nat, s < t
  PROVE  ~(EndOf(t) <= InfoOf(s) + Window)
<1>1. PerShot \in Nat \ {0} /\ Window \in Nat
  BY Sizes, SizesAssumption
<1>2. s * PerShot + PerShot <= t * PerShot
  BY <1>1, Times
<1>3. s * PerShot \in Int /\ t * PerShot \in Int
        /\ (s - 1) * PerShot = s * PerShot - PerShot
  BY <1>1
<1> QED
  BY <1>1, <1>2, <1>3 DEF InfoOf, EndOf

-----------------------------------------------------------------------------
(* The samples of a whole shot. *)

(* An increasing renumbering of 1 .. n is the identity. *)
LEMMA Increasing ==
  ASSUME NEW n \in Nat, NEW g \in [1 .. n -> 1 .. n],
         \A i, j \in 1 .. n : i < j => g[i] < g[j]
  PROVE  \A i \in 1 .. n : g[i] = i
<1>1. \A i \in 1 .. n : g[i] \in 1 .. n
  OBVIOUS
<1>2. ASSUME \E i \in 1 .. n : g[i] < i PROVE FALSE
  <2> DEFINE low == {i \in 1 .. n : g[i] < i}
  <2>1. low \subseteq Nat /\ low # {}
    BY <1>2
  <2>2. PICK m \in low : \A i \in low : m <= i
    BY <2>1, Minimum
  <2>3. m \in 1 .. n /\ g[m] < m /\ g[m] \in 1 .. n
    BY <1>1, <2>2
  <2>4. m - 1 \in 1 .. n /\ m - 1 \notin low
    BY <2>2, <2>3
  <2>5. g[m - 1] \in 1 .. n /\ ~(g[m - 1] < m - 1) /\ g[m - 1] < g[m]
    BY <1>1, <2>3, <2>4
  <2> QED
    BY <2>3, <2>5
<1>3. ASSUME \E i \in 1 .. n : g[i] > i PROVE FALSE
  <2> DEFINE high == {k \in 0 .. n - 1 : g[n - k] > n - k}
  <2>1. high \subseteq Nat /\ high # {}
    <3>1. PICK i \in 1 .. n : g[i] > i
      BY <1>3
    <3>2. n - i \in 0 .. n - 1 /\ n - (n - i) = i
      OBVIOUS
    <3>3. g[n - (n - i)] > n - (n - i)
      BY <3>1, <3>2
    <3>4. n - i \in high
      BY <3>2, <3>3
    <3>5. high \subseteq Nat
      OBVIOUS
    <3> HIDE DEF high
    <3> QED
      BY <3>4, <3>5
  <2>2. PICK m \in high : \A k \in high : m <= k
    BY <2>1, Minimum
  <2>3. /\ m \in 0 .. n - 1 /\ n - m \in 1 .. n
        /\ g[n - m] > n - m /\ g[n - m] \in 1 .. n
    BY <1>1, <2>2
  <2>4. m # 0 /\ m - 1 \in 0 .. n - 1 /\ m - 1 \notin high
    <3>1. m > 0 /\ m - 1 \in 0 .. n - 1 /\ ~(m <= m - 1)
      BY <2>3
    <3> HIDE DEF high
    <3> QED
      BY <2>2, <3>1
  <2>5. /\ n - (m - 1) \in 1 .. n /\ n - m < n - (m - 1)
        /\ ~(g[n - (m - 1)] > n - (m - 1))
    BY <2>3, <2>4
  <2>6. g[n - (m - 1)] \in 1 .. n /\ g[n - m] < g[n - (m - 1)]
    BY <1>1, <2>3, <2>5
  <2> QED
    BY <2>3, <2>5, <2>6
<1> QED
  BY <1>1, <1>2, <1>3

(* Sorting the DATA packets of a whole shot restores its payload. *)
LEMMA Assembles ==
  ASSUME NEW shot, shot.id \in 1 .. Shots,
         data_packets(shot) = {Sent(n) : n \in DataOf(shot.id)}
  PROVE  Assembled(shot) = Payload(shot.id)
<1> DEFINE D == data_packets(shot)
           N == DataPackets
           b == InfoOf(shot.id)
           P == Payload(shot.id)
           Sorted(s) == \A i, j \in DOMAIN s : i < j => s[i].seq < s[j].seq
<1>1. N \in Nat /\ b \in Nat /\ DataOf(shot.id) = b + 1 .. b + N
  BY Sizes, ShotEdges
<1>2. P \in [1 .. N -> D] /\ Sorted(P) /\ P \in Bijection(1 .. N, D)
  <2>1. P = [i \in 1 .. N |-> Sent(b + i)]
    BY DEF Payload
  <2>2. \A i \in 1 .. N : Sent(b + i) \in D
    BY <1>1
  <2>3. \A i \in 1 .. N : Sent(b + i).seq = b + i
    BY DEF Sent
  <2>4. \A d \in D : \E i \in 1 .. N : d = Sent(b + i)
    <3>1. ASSUME NEW n \in b + 1 .. b + N
          PROVE  n - b \in 1 .. N /\ b + (n - b) = n
      BY <1>1
    <3> QED
      BY <1>1, <3>1
  <2>5. P \in [1 .. N -> D]
    BY <2>1, <2>2
  <2>6. Sorted(P)
    BY <1>1, <2>1, <2>3
  <2>7. IsInjective(P)
    <3>1. \A i, j \in 1 .. N : P[i] = P[j] => b + i = b + j
      BY <2>1, <2>3
    <3> QED
      BY <1>1, <2>1, <3>1 DEF IsInjective
  <2> QED
    BY <2>1, <2>4, <2>5, <2>6, <2>7 DEF Bijection, Injection, Surjection
<1>3. Cardinality(D) = N
  BY <1>1, <1>2, FS_CountingElements DEF ExistsBijection
<1>4. \A d \in D : d.seq - b \in 1 .. N /\ d = Sent(b + (d.seq - b))
  <2>1. ASSUME NEW n \in b + 1 .. b + N
        PROVE  Sent(n).seq - b \in 1 .. N /\ b + (Sent(n).seq - b) = n
    BY <1>1 DEF Sent
  <2> QED
    BY <1>1, <2>1
<1>5. ASSUME NEW s \in [1 .. N -> D], Sorted(s) PROVE s = P
  <2> DEFINE g == [i \in 1 .. N |-> s[i].seq - b]
  <2>1. g \in [1 .. N -> 1 .. N]
    BY <1>4
  <2>2. \A i \in 1 .. N : s[i].seq \in Int
    <3>1. \A d \in D : d.seq \in Int
      BY <1>1 DEF Sent
    <3> QED
      BY <3>1
  <2>3. \A i, j \in 1 .. N : i < j => g[i] < g[j]
    BY <1>1, <1>5, <2>2
  <2>4. \A i \in 1 .. N : g[i] = i
    <3> HIDE DEF g
    <3> QED
      BY <1>1, <2>1, <2>3, Increasing
  <2>5. \A i \in 1 .. N : s[i] = Sent(b + i)
    BY <1>4, <2>4
  <2> QED
    BY <2>5 DEF Payload
<1> HIDE DEF P, D
<1>6. Assembled(shot)
        = CHOOSE s \in [1 .. Cardinality(D) -> D] : Sorted(s)
  BY DEF Assembled, D
<1>7. P = CHOOSE s \in [1 .. N -> D] : Sorted(s)
  BY <1>2, <1>5
<1> QED
  BY <1>3, <1>6, <1>7 DEF P

(* A shot of which every packet is held, none of them altered, can only be *)
(* rejected for its place in the run.                                      *)
LEMMA OnlyContinuity ==
  ASSUME NEW shot \in ShotState, Made(shot), shot_sequence_complete(shot),
         ~Altered(shot.id)
  PROVE  issue_flags(shot) \subseteq {"CONTINUITY"}
<1> DEFINE s == shot.id
<1>1. /\ s \in 1 .. Shots /\ have_info(shot) /\ have_end(shot)
      /\ DataOf(s) \subseteq Got(shot) /\ s \in Nat \ {0}
  BY DEF Made, shot_sequence_complete, ShotState
<1>2. \A d \in shot.packets : /\ d = Sent(d.seq) /\ d.seq \in Packet
                              /\ d.seq # EndOfRun /\ ShotOf(d.seq) = s
  <2>1. ASSUME NEW d \in shot.packets
        PROVE  d \in Datagram /\ d.shape = "sent" /\ d.seq # EndOfRun
                 /\ ShotOf(d.seq) = s
    BY DEF Made, Altered, ShotState
  <2> QED
    BY <2>1 DEF Datagram, Sent
<1>3. \A n \in DataOf(s) : IsData(n) /\ Sent(n) \in shot.packets
  <2>1. ASSUME NEW n \in DataOf(s) PROVE IsData(n) /\ Sent(n) \in shot.packets
    <3>1. n \in InfoOf(s) .. EndOf(s)
      <4>1. /\ n \in InfoOf(s) + 1 .. InfoOf(s) + DataPackets
            /\ EndOf(s) = InfoOf(s) + DataPackets + 1 /\ InfoOf(s) \in Nat
        BY <1>1, ShotEdges
      <4> QED
        BY <4>1, Sizes
    <3>2. n \in Packet /\ n # EndOfRun /\ ShotOf(n) = s
      BY <1>1, <3>1, PacketsOf
    <3>3. PICK d \in shot.packets : d.seq = n
      BY <1>1 DEF Got
    <3> QED
      BY <1>1, <1>2, <3>2, <3>3, ShotEdges
  <2> QED
    BY <2>1
<1>4. data_packets(shot) = {Sent(n) : n \in DataOf(s)}
  <2>1. data_packets(shot) = {d \in shot.packets : IsData(d.seq)}
    BY <1>1 DEF data_packets
  <2>2. \A d \in shot.packets : IsData(d.seq) => d.seq \in DataOf(s)
    BY <1>1, <1>2, ShotEdges
  <2>3. \A n \in DataOf(s) : Sent(n).seq = n
    BY DEF Sent
  <2> QED
    BY <1>2, <1>3, <2>1, <2>2, <2>3
<1>5. {d.seq : d \in data_packets(shot)} = DataOf(s)
  <2>1. \A n : Sent(n).seq = n
    BY DEF Sent
  <2> QED
    BY <1>4, <2>1
<1>6. first_timestamp(shot) = s
  BY Timestamp
<1>7. ~shot.conflict
  BY DEF Made
<1>8. Assembled(shot) = Payload(s)
  BY <1>1, <1>4, Assembles
<1>9. /\ ~Raises(shot, "MISSING") /\ ~Raises(shot, "PROTOCOL")
      /\ ~Raises(shot, "CONFLICT")
  BY <1>1, <1>7 DEF Raises
<1>10. ~Raises(shot, "TIMESTAMP")
  BY <1>1, <1>6 DEF Raises
<1>11. ~Raises(shot, "FRAME") /\ ~Raises(shot, "CRC")
  BY <1>1, <1>5, <1>8 DEF Raises
<1> QED
  BY <1>9, <1>10, <1>11 DEF issue_flags, Issue

(* In its place such a shot is published. *)
LEMMA InPlace ==
  ASSUME NEW shot \in ShotState, Made(shot), shot_sequence_complete(shot),
         ~Altered(shot.id),
         expected_sequence \in {None, InfoOf(shot.id)}, last_shot_id \in Int,
         last_shot_id = None \/ last_shot_id < shot.id
  PROVE  issue_flags(shot) = {}
<1>1. issue_flags(shot) \subseteq {"CONTINUITY"}
  BY OnlyContinuity
<1>2. first_timestamp(shot) = shot.id /\ shot.id \in Nat
  BY Timestamp DEF ShotState
<1>3. ~Raises(shot, "CONTINUITY")
  BY <1>2 DEF Raises
<1> QED
  BY <1>1, <1>3 DEF issue_flags

-----------------------------------------------------------------------------
(* The queues and the assembly, step by step. *)

(* What a received datagram changes. *)
LEMMA ReceiveEffect ==
  ASSUME NEW d, Receive(d)
  PROVE  /\ pc = "run" /\ pc' = "run" /\ inbox = <<>> /\ inbox' = <<d>>
         /\ Journaled' = Journaled \cup {d}
         /\ durable' \subseteq Journaled \cup {d}
         /\ buffered' \subseteq Journaled \cup {d}
         /\ UNCHANGED <<status, selected, pending, shots, expected_sequence,
                        last_shot_id, terminal, pending_overflow, index>>
BY DEF Receive, journal_datagram, Journaled, run, publication

(* A single datagram in the inbox. *)
LEMMA ReceiveFlows ==
  ASSUME Inv, FlowInv, NEW d \in Datagram, Receive(d),
         net' \subseteq net, extras' \in 0 .. MaxExtras, damaged' \in Nat,
         damaged' = 0 => damaged = 0,
         d.shape = "altered" => IsData(d.seq) /\ damaged' # 0,
         \A m \in net : d.seq <= m + Window,
         damaged' = 0 => \A n \in net \ net' : d = Sent(n)
  PROVE  FlowInv'
<1> SUFFICES ASSUME Alive' PROVE (NetInv /\ QueueInv /\ ShotsInv /\ LastInv)'
  BY DEF FlowInv
<1>1. /\ pc = "run" /\ pc' = "run" /\ inbox = <<>> /\ inbox' = <<d>>
      /\ Journaled' = Journaled \cup {d}
      /\ durable' \subseteq Journaled \cup {d}
      /\ buffered' \subseteq Journaled \cup {d}
      /\ UNCHANGED <<status, selected, pending, shots, expected_sequence,
                     last_shot_id, terminal, pending_overflow, index>>
  BY ReceiveEffect
<1>2. NetInv /\ QueueInv /\ ShotsInv /\ LastInv
  BY <1>1 DEF FlowInv, Alive
<1>3. NetInv'
  <2>1. durable' \subseteq Datagram /\ buffered' \subseteq Datagram
          /\ net' \subseteq Packet
    BY <1>1, <1>2 DEF NetInv, Journaled
  <2>2. /\ \A e \in Journaled' : e.shape = "altered" => IsData(e.seq)
        /\ \A e \in Journaled' : \A m \in net' : e.seq <= m + Window
    BY <1>1, <1>2 DEF NetInv
  <2>3. damaged' = 0 => /\ \A n \in Packet \ net' : Sent(n) \in Journaled'
                        /\ \A e \in Journaled' : e.shape # "altered"
    BY <1>1, <1>2 DEF NetInv
  <2> QED
    BY <2>1, <2>2, <2>3 DEF NetInv
<1>4. QueueInv'
  <2>1. /\ inbox' \in Seq(Datagram) /\ Len(inbox') = 1
        /\ \A i \in DOMAIN inbox' : i = 1 /\ inbox'[i] = d
    BY <1>1
  <2>2. \A i \in DOMAIN inbox' : /\ inbox'[i] \in Journaled'
                                 /\ i < Len(inbox') => ~Announces(inbox'[i])
    BY <1>1, <2>1
  <2>3. \A i \in DOMAIN pending' : /\ pending'[i] \in Journaled'
                                   /\ ~Announces(pending'[i])
    BY <1>1, <1>2 DEF QueueInv
  <2> QED
    BY <1>1, <1>2, <2>1, <2>2, <2>3 DEF QueueInv, Announces, Taking
<1>5. ShotsInv'
  <2>1. \A shot : Made(shot) => Made(shot)'
    BY <1>1 DEF Made, Altered
  <2> QED
    BY <1>1, <1>2, <2>1 DEF ShotsInv
<1>6. LastInv'
  BY <1>1, <1>2 DEF LastInv, Indexed
<1> QED
  BY <1>3, <1>4, <1>5, <1>6

(* Packets and their copies arrive. *)
LEMMA ArriveFlows ==
  ASSUME Inv, FlowInv, Arrive \/ ArriveExtra PROVE FlowInv'
<1>1. pc = "run" /\ UNCHANGED <<status>> /\ (Alive' => Alive)
  BY DEF Arrive, ArriveExtra, Receive, Alive
<1> SUFFICES ASSUME Alive' PROVE FlowInv'
  BY DEF FlowInv
<1>2. NetInv
  BY <1>1 DEF FlowInv
<1>3. net \subseteq Packet /\ extras \in 0 .. MaxExtras /\ damaged \in Nat
        /\ MaxExtras \in Nat
  BY <1>2, SizesAssumption DEF NetInv
<1>4. \A n \in Packet : \A x \in {"sent", "altered", "malformed", "foreign"} :
        [seq |-> n, shape |-> x] \in Datagram
  BY DEF Datagram
<1>5. CASE Arrive
  <2>1. PICK n \in InFlight :
          /\ net' = net \ {n} /\ UNCHANGED extras
          /\ \/ Receive(Sent(n)) /\ UNCHANGED damaged
             \/ /\ IsData(n) /\ Receive([seq |-> n, shape |-> "altered"])
                /\ damaged' = damaged + 1
             \/ /\ Receive([seq |-> n, shape |-> "malformed"])
                /\ damaged' = damaged + 1
    BY <1>5 DEF Arrive, Damage
  <2>2. n \in net /\ n \in Packet /\ \A m \in net : n <= m + Window
    BY <1>3 DEF InFlight
  <2>3. CASE Receive(Sent(n)) /\ UNCHANGED damaged
    <3>1. Sent(n) \in Datagram /\ Sent(n).seq = n /\ Sent(n).shape = "sent"
      BY <1>4, <2>2 DEF Sent
    <3>2. \A k \in net \ net' : Sent(n) = Sent(k)
      BY <2>1
    <3> QED
      BY <1>3, <2>1, <2>2, <2>3, <3>1, <3>2, ReceiveFlows
  <2>4. CASE /\ IsData(n) /\ Receive([seq |-> n, shape |-> "altered"])
             /\ damaged' = damaged + 1
    <3> DEFINE d == [seq |-> n, shape |-> "altered"]
    <3>1. d \in Datagram /\ d.seq = n
      BY <1>4, <2>2
    <3>2. damaged' # 0 /\ damaged' \in Nat
      BY <1>3, <2>4
    <3> QED
      BY <1>3, <2>1, <2>2, <2>4, <3>1, <3>2, ReceiveFlows
  <2>5. CASE /\ Receive([seq |-> n, shape |-> "malformed"])
             /\ damaged' = damaged + 1
    <3> DEFINE d == [seq |-> n, shape |-> "malformed"]
    <3>1. d \in Datagram /\ d.seq = n /\ d.shape = "malformed"
      BY <1>4, <2>2
    <3>2. damaged' # 0 /\ damaged' \in Nat
      BY <1>3, <2>5
    <3> QED
      BY <1>3, <2>1, <2>2, <2>5, <3>1, <3>2, ReceiveFlows
  <2> QED
    BY <2>1, <2>3, <2>4, <2>5
<1>6. CASE ArriveExtra
  <2>1. PICK n \in Packet :
          /\ WasSent(n) /\ extras < MaxExtras /\ extras' = extras + 1
          /\ UNCHANGED net
          /\ \/ Receive(Sent(n)) /\ UNCHANGED damaged
             \/ /\ IsData(n) /\ Receive([seq |-> n, shape |-> "altered"])
                /\ damaged' = damaged + 1
             \/ /\ IsData(n) /\ Receive([seq |-> n, shape |-> "foreign"])
                /\ UNCHANGED damaged
    BY <1>6 DEF ArriveExtra, Damage
  <2>2. extras' \in 0 .. MaxExtras /\ \A m \in net : n <= m + Window
    BY <1>3, <2>1 DEF WasSent
  <2>3. CASE Receive(Sent(n)) /\ UNCHANGED damaged
    <3>1. Sent(n) \in Datagram /\ Sent(n).seq = n /\ Sent(n).shape = "sent"
      BY <1>4, <2>1 DEF Sent
    <3> QED
      BY <1>3, <2>1, <2>2, <2>3, <3>1, ReceiveFlows
  <2>4. CASE /\ IsData(n) /\ Receive([seq |-> n, shape |-> "altered"])
             /\ damaged' = damaged + 1
    <3> DEFINE d == [seq |-> n, shape |-> "altered"]
    <3>1. d \in Datagram /\ d.seq = n
      BY <1>4, <2>1
    <3>2. damaged' # 0 /\ damaged' \in Nat
      BY <1>3, <2>4
    <3> QED
      BY <1>3, <2>1, <2>2, <2>4, <3>1, <3>2, ReceiveFlows
  <2>5. CASE /\ IsData(n) /\ Receive([seq |-> n, shape |-> "foreign"])
             /\ UNCHANGED damaged
    <3> DEFINE d == [seq |-> n, shape |-> "foreign"]
    <3>1. d \in Datagram /\ d.seq = n /\ d.shape = "foreign"
      BY <1>4, <2>1
    <3> QED
      BY <1>3, <2>1, <2>2, <2>5, <3>1, ReceiveFlows
  <2> QED
    BY <2>1, <2>3, <2>4, <2>5
<1> QED
  BY <1>5, <1>6

(* A packet is lost: the rest of the network and everything else stay. *)
LEMMA LoseFlows ==
  ASSUME Inv, FlowInv, Lose PROVE FlowInv'
<1> SUFFICES ASSUME Alive' PROVE (NetInv /\ QueueInv /\ ShotsInv /\ LastInv)'
  BY DEF FlowInv
<1>1. /\ net' \subseteq net /\ damaged' = damaged + 1
      /\ UNCHANGED <<extras, durable, buffered, pc, inbox, status, selected,
                     pending, shots, index, expected_sequence, last_shot_id>>
  BY DEF Lose, Damage, process, run, journal, publication
<1>2. NetInv /\ QueueInv /\ ShotsInv /\ LastInv
  BY <1>1 DEF FlowInv, Alive
<1>3. NetInv'
  <2>1. damaged' # 0 /\ damaged' \in Nat
    BY <1>1, <1>2 DEF NetInv
  <2> QED
    BY <1>1, <1>2, <2>1 DEF NetInv, Journaled
<1>4. QueueInv'
  BY <1>1, <1>2 DEF QueueInv, Journaled, AnyInfo
<1>5. ShotsInv' /\ LastInv'
  BY <1>1, <1>2 DEF ShotsInv, Made, Altered, Journaled, LastInv, Indexed
<1> QED
  BY <1>3, <1>4, <1>5

(* Steps that only move the control on. *)
taken == <<network, inbox, pending, selected, shots, index,
           expected_sequence, last_shot_id>>
(* Closing, interrupting and giving up move no packet.                     *)
LEMMA ControlFlows ==
  ASSUME FlowInv, UNCHANGED taken, Alive' => Alive,
         Journaled' = Journaled, buffered' \subseteq buffered,
         inbox # <<>> => pc' \in Taking,
         inbox # <<>> /\ (pc' # "run" \/ Len(inbox) > 1) => ~AnyInfo,
         pc' \in {"close", "done"} => shots = <<>>,
         pc' = "done" => buffered' = {}
  PROVE  FlowInv'
<1> SUFFICES ASSUME Alive' PROVE (NetInv /\ QueueInv /\ ShotsInv /\ LastInv)'
  BY DEF FlowInv
<1>1. /\ UNCHANGED <<net, extras, damaged, inbox, pending, selected,
                     shots, index, expected_sequence, last_shot_id>>
      /\ NetInv /\ QueueInv /\ ShotsInv /\ LastInv
  BY DEF FlowInv, taken, network
<1>2. NetInv'
  <2>1. durable' \subseteq Datagram /\ buffered' \subseteq Datagram
    BY <1>1 DEF NetInv, Journaled
  <2> QED
    BY <1>1, <2>1 DEF NetInv
<1>3. QueueInv'
  BY <1>1 DEF QueueInv, AnyInfo
<1>4. ShotsInv' /\ LastInv'
  BY <1>1 DEF ShotsInv, Made, Altered, LastInv, Indexed
<1> QED
  BY <1>2, <1>3, <1>4

(* The tail of a queue. *)
LEMMA TailOf ==
  ASSUME NEW S, NEW q \in Seq(S), q # <<>>
  PROVE  /\ Head(q) = q[1] /\ 1 \in DOMAIN q /\ Tail(q) \in Seq(S)
         /\ Len(q) \in Nat /\ Len(q) >= 1 /\ Len(Tail(q)) = Len(q) - 1
         /\ \A i \in DOMAIN Tail(q) : i + 1 \in DOMAIN q /\ Tail(q)[i] = q[i + 1]
         /\ \A i \in DOMAIN q : i # 1 => i - 1 \in DOMAIN Tail(q)
                                          /\ Tail(q)[i - 1] = q[i]
OBVIOUS

(* The first datagram leaves the inbox, and perhaps joins those that wait  *)
(* for a STREAM_INFO.                                                      *)
LEMMA ConsumeFlows ==
  ASSUME Inv, FlowInv, pc = "run", pc' = "run", inbox # <<>>, inbox' = Tail(inbox),
         UNCHANGED <<network, durable, buffered, status, selected, shots, index,
                     expected_sequence, last_shot_id>>,
         \/ UNCHANGED pending
         \/ /\ ~selected /\ ~Announces(Head(inbox))
            /\ pending' = Append(pending, Head(inbox))
  PROVE  FlowInv'
<1> SUFFICES ASSUME Alive' PROVE (NetInv /\ QueueInv /\ ShotsInv /\ LastInv)'
  BY DEF FlowInv
<1>1. UNCHANGED <<net, extras, damaged>> /\ Journaled' = Journaled
  BY DEF network, Journaled
<1>2. NetInv /\ QueueInv /\ ShotsInv /\ LastInv
  BY DEF FlowInv, Alive
<1>3. NetInv'
  BY <1>1, <1>2 DEF NetInv
<1>4. QueueInv'
  <2>1. inbox \in Seq(Datagram) /\ pending \in Seq(Datagram)
          /\ \A i \in DOMAIN inbox : /\ inbox[i] \in Journaled
                                     /\ i < Len(inbox) => ~Announces(inbox[i])
    BY <1>2 DEF QueueInv
  <2>2. /\ Head(inbox) = inbox[1] /\ 1 \in DOMAIN inbox
        /\ inbox' \in Seq(Datagram)
        /\ Len(inbox) \in Nat /\ Len(inbox) >= 1 /\ Len(inbox') = Len(inbox) - 1
        /\ \A i \in DOMAIN inbox' : i + 1 \in DOMAIN inbox
                                    /\ inbox'[i] = inbox[i + 1]
    BY <2>1, TailOf
  <2>3. \A i \in DOMAIN inbox' : /\ inbox'[i] \in Journaled'
                                 /\ i < Len(inbox') => ~Announces(inbox'[i])
    <3>1. ASSUME NEW i \in DOMAIN inbox'
          PROVE  /\ inbox'[i] \in Journaled'
                 /\ i < Len(inbox') => ~Announces(inbox'[i])
      <4>1. i \in Nat /\ (i < Len(inbox') => i + 1 < Len(inbox))
        BY <2>2
      <4> QED
        BY <1>1, <2>1, <2>2, <4>1
    <3> QED
      BY <3>1
  <2>4. /\ pending' \in Seq(Datagram)
        /\ \A i \in DOMAIN pending' : /\ pending'[i] \in Journaled'
                                      /\ ~Announces(pending'[i])
    <3>1. \A i \in DOMAIN pending : /\ pending[i] \in Journaled'
                                    /\ ~Announces(pending[i])
      BY <1>1, <1>2 DEF QueueInv
    <3>2. CASE UNCHANGED pending
      BY <2>1, <3>1, <3>2
    <3>3. CASE /\ ~Announces(Head(inbox))
               /\ pending' = Append(pending, Head(inbox))
      <4>1. Head(inbox) \in Datagram /\ Head(inbox) \in Journaled'
        BY <1>1, <2>1, <2>2
      <4>2. /\ pending' \in Seq(Datagram)
            /\ \A i \in DOMAIN pending' : \/ i \in DOMAIN pending
                                               /\ pending'[i] = pending[i]
                                          \/ pending'[i] = Head(inbox)
        BY <2>1, <3>3, <4>1
      <4> QED
        BY <3>1, <3>3, <4>1, <4>2
    <3> QED
      BY <3>2, <3>3
  <2>5. inbox' # <<>> /\ (pc' # "run" \/ Len(inbox') > 1) => ~AnyInfo'
    BY <1>2, <2>2 DEF QueueInv, AnyInfo
  <2>6. ~selected' => Len(inbox') <= 1
    BY <1>2, <2>2 DEF QueueInv
  <2>7. selected' => pending' = <<>>
    BY <1>2 DEF QueueInv
  <2>8. ~selected' => shots' = <<>> /\ index' = <<>>
    BY <1>2 DEF QueueInv
  <2> QED
    BY <2>2, <2>3, <2>4, <2>5, <2>6, <2>7, <2>8 DEF QueueInv, Taking
<1>5. ShotsInv' /\ LastInv'
  BY <1>1, <1>2 DEF ShotsInv, Made, Altered, LastInv, Indexed
<1> QED
  BY <1>3, <1>4, <1>5

(* Ingesting a datagram that joins no shot. *)
LEMMA IngestFlows ==
  ASSUME Inv, FlowInv, Malformed \/ save_pending \/ Ignored \/ Heartbeat
  PROVE  FlowInv'
<1>1. /\ pc = "run" /\ pc' = "run" /\ inbox # <<>> /\ inbox' = Tail(inbox)
      /\ UNCHANGED <<network, durable, buffered, status, selected, shots, index,
                     expected_sequence, last_shot_id>>
  BY DEF Malformed, save_pending, Ignored, Heartbeat, Ingest, Consumed, run,
         journal, publication
<1>2. \/ UNCHANGED pending
      \/ /\ ~selected /\ ~Announces(Head(inbox))
         /\ pending' = Append(pending, Head(inbox))
  <2>1. CASE Malformed \/ Ignored \/ Heartbeat
    BY <2>1 DEF Malformed, Ignored, Heartbeat, run
  <2>2. CASE save_pending
    BY <2>2 DEF save_pending, Ingest, Announces
  <2> QED
    BY <2>1, <2>2
<1> QED
  BY <1>1, <1>2, ConsumeFlows

(* The first STREAM_INFO puts what waited for it back in front of it. *)
LEMMA SelectFlows ==
  ASSUME Inv, FlowInv, select_run PROVE FlowInv'
<1> SUFFICES ASSUME Alive' PROVE (NetInv /\ QueueInv /\ ShotsInv /\ LastInv)'
  BY DEF FlowInv
<1>1. /\ pc = "run" /\ pc' = "run" /\ inbox # <<>> /\ ~selected /\ selected'
      /\ inbox' = pending \o inbox /\ pending' = <<>>
      /\ UNCHANGED <<net, extras, damaged, durable, buffered, status, shots,
                     index, expected_sequence, last_shot_id>>
  BY DEF select_run, Ingest, network, journal, publication
<1>2. NetInv /\ QueueInv /\ ShotsInv /\ LastInv
  BY <1>1 DEF FlowInv, Alive
<1>3. Journaled' = Journaled
  BY <1>1 DEF Journaled
<1>4. NetInv' /\ ShotsInv' /\ LastInv'
  BY <1>1, <1>2, <1>3 DEF NetInv, ShotsInv, Made, Altered, LastInv, Indexed
<1>5. QueueInv'
  <2>1. /\ inbox \in Seq(Datagram) /\ pending \in Seq(Datagram)
        /\ Len(inbox) <= 1 /\ shots = <<>>
        /\ \A i \in DOMAIN inbox : inbox[i] \in Journaled
        /\ \A i \in DOMAIN pending : pending[i] \in Journaled
                                     /\ ~Announces(pending[i])
    BY <1>1, <1>2 DEF QueueInv
  <2>2. Len(inbox) = 1 /\ DOMAIN inbox = {1}
    <3>1. Len(inbox) \in Nat /\ Len(inbox) >= 1 /\ DOMAIN inbox = 1 .. Len(inbox)
      BY <1>1, <2>1, TailOf
    <3>2. Len(inbox) = 1
      BY <2>1, <3>1
    <3> QED
      BY <3>1, <3>2
  <2>3. /\ inbox' \in Seq(Datagram) /\ Len(pending) \in Nat
        /\ Len(inbox') = Len(pending) + 1 /\ DOMAIN inbox' = 1 .. Len(pending) + 1
        /\ DOMAIN pending = 1 .. Len(pending)
        /\ \A i \in DOMAIN inbox' :
             IF i <= Len(pending) THEN inbox'[i] = pending[i]
             ELSE i = Len(pending) + 1 /\ inbox'[i] = inbox[1]
    <3>1. pending \o inbox \in Seq(Datagram) /\ Len(pending) \in Nat
            /\ Len(pending \o inbox) = Len(pending) + Len(inbox)
            /\ DOMAIN pending = 1 .. Len(pending)
            /\ \A i \in 1 .. Len(pending) + Len(inbox) :
                 (pending \o inbox)[i] = IF i <= Len(pending) THEN pending[i]
                                        ELSE inbox[i - Len(pending)]
      BY <2>1
    <3>2. \A i \in 1 .. Len(pending) + 1 :
            ~(i <= Len(pending)) => i = Len(pending) + 1 /\ i - Len(pending) = 1
      BY <3>1
    <3> QED
      BY <1>1, <2>2, <3>1, <3>2
  <2>4. ASSUME NEW i \in DOMAIN inbox'
        PROVE  /\ inbox'[i] \in Journaled'
               /\ i < Len(inbox') => ~Announces(inbox'[i])
    <3>1. CASE i <= Len(pending)
      <4>1. i \in DOMAIN pending
        BY <2>3, <3>1
      <4> QED
        BY <1>3, <2>1, <2>3, <3>1, <4>1
    <3>2. CASE ~(i <= Len(pending))
      <4>1. i = Len(pending) + 1 /\ inbox'[i] = inbox[1] /\ ~(i < Len(inbox'))
        BY <2>3, <3>2
      <4> QED
        BY <1>3, <2>1, <2>2, <4>1
    <3> QED
      BY <3>1, <3>2
  <2>5. ~AnyInfo'
    BY <1>1, <2>1 DEF AnyInfo
  <2> QED
    BY <1>1, <2>3, <2>4, <2>5 DEF QueueInv, Taking
<1> QED
  BY <1>4, <1>5

(* What add_packet makes of a shot: one packet more, or a conflict between *)
(* two versions of it.                                                     *)
LEMMA AddedFacts ==
  ASSUME NEW shot \in ShotState, NEW d \in Datagram
  PROVE  /\ Got(add_packet(shot, d)) = Got(shot) \cup {d.seq}
         /\ add_packet(shot, d).packets \subseteq shot.packets \cup {d}
         /\ add_packet(shot, d).id = shot.id
         /\ add_packet(shot, d).conflict => shot.conflict
              \/ \E e \in shot.packets : e.seq = d.seq /\ e # d
<1>1. /\ shot.packets \subseteq Datagram
      /\ shot = [id |-> shot.id, packets |-> shot.packets,
                 conflict |-> shot.conflict]
  BY DEF ShotState
<1>2. CASE d.seq \notin Got(shot)
  <2>1. add_packet(shot, d) = [id |-> shot.id, packets |-> shot.packets \cup {d},
                               conflict |-> shot.conflict]
    BY <1>1, <1>2 DEF add_packet
  <2>2. add_packet(shot, d).packets = shot.packets \cup {d}
          /\ add_packet(shot, d).conflict = shot.conflict
          /\ add_packet(shot, d).id = shot.id
    BY <2>1
  <2> QED
    BY <2>2 DEF Got
<1>3. CASE d.seq \in Got(shot)
  <2>1. add_packet(shot, d) = [id |-> shot.id, packets |-> shot.packets,
                        conflict |-> shot.conflict \/ d \notin shot.packets]
    BY <1>1, <1>3 DEF add_packet
  <2>2. /\ add_packet(shot, d).packets = shot.packets
        /\ add_packet(shot, d).id = shot.id
        /\ add_packet(shot, d).conflict = (shot.conflict \/ d \notin shot.packets)
    BY <2>1
  <2>3. PICK e \in shot.packets : e.seq = d.seq
    BY <1>3 DEF Got
  <2>4. add_packet(shot, d).conflict => shot.conflict
              \/ \E f \in shot.packets : f.seq = d.seq /\ f # d
    BY <2>2, <2>3
  <2> QED
    BY <1>3, <2>2, <2>4 DEF Got
<1> QED
  BY <1>2, <1>3

(* A packet added to what is made so far. *)
LEMMA StillMade ==
  ASSUME NetInv, NEW shot \in ShotState, NEW d \in Datagram, Made(shot),
         d \in Journaled, d.shape \in {"sent", "altered"}, d.seq # EndOfRun,
         ShotOf(d.seq) = shot.id
  PROVE  LET new == add_packet(shot, d)
         IN  /\ new \in ShotState /\ new.id = shot.id /\ Made(new)
             /\ Got(new) = Got(shot) \cup {d.seq}
             /\ have_info(new) => have_info(shot) \/ Announces(d)
<1> DEFINE new == add_packet(shot, d)
<1>1. /\ Got(new) = Got(shot) \cup {d.seq} /\ new.id = shot.id
      /\ new.packets \subseteq shot.packets \cup {d}
      /\ new.conflict => shot.conflict
              \/ \E e \in shot.packets : e.seq = d.seq /\ e # d
      /\ new \in ShotState
  BY AddedFacts, AddedPacket
<1> HIDE DEF new
<1>2. \A e \in shot.packets : /\ e \in Datagram /\ e \in Journaled
                              /\ e.shape \in {"sent", "altered"}
                              /\ e.seq # EndOfRun /\ ShotOf(e.seq) = shot.id
  BY DEF Made, ShotState
<1>3. ASSUME new.conflict PROVE Altered(shot.id)
  <2>1. CASE shot.conflict
    BY <2>1 DEF Made
  <2>2. CASE \E e \in shot.packets : e.seq = d.seq /\ e # d
    <3>1. PICK e \in shot.packets : e.seq = d.seq /\ e # d
      BY <2>2
    <3>2. e.shape = "altered" \/ d.shape = "altered"
      BY <1>2, <3>1 DEF Datagram
    <3> QED
      BY <1>2, <3>1, <3>2 DEF Altered
  <2> QED
    BY <1>1, <1>3, <2>1, <2>2
<1>4. Made(new)
  BY <1>1, <1>2, <1>3 DEF Made
<1>5. have_info(new) => have_info(shot) \/ Announces(d)
  <2>1. SUFFICES ASSUME d.seq = InfoOf(shot.id) PROVE Announces(d)
    BY <1>1 DEF have_info
  <2>2. IsInfo(d.seq)
    BY <2>1 DEF IsInfo
  <2>3. shot.id \in 1 .. Shots /\ d.seq \in Packet
    BY DEF Made, Datagram
  <2>4. ~IsData(d.seq)
    <3>1. InfoOf(shot.id) \in Nat
             /\ DataOf(shot.id) = InfoOf(shot.id) + 1 .. InfoOf(shot.id) + DataPackets
      BY <2>3, ShotEdges
    <3>2. InfoOf(shot.id) \notin DataOf(shot.id)
      BY <3>1, Sizes
    <3> QED
      BY <2>1, <3>2 DEF IsData
  <2> QED
    BY <2>2, <2>4 DEF Announces, NetInv
<1> QED
  BY <1>1, <1>4, <1>5 DEF new

(* What adding a packet d to the shot at place p does to the shots. *)
Joins(d, p, new) ==
  /\ new \in ShotState /\ new.id = ShotOf(d.seq) /\ Made(new)
  /\ d.seq \in Got(new)
  /\ have_info(new) => AnyInfo \/ Announces(d)
  /\ p \in DOMAIN shots' /\ shots'[p] = new
  /\ \A i \in DOMAIN shots' : i # p => i \in DOMAIN shots /\ shots'[i] = shots[i]
  /\ \A i \in DOMAIN shots :
       /\ i \in DOMAIN shots'
       /\ i # p => shots'[i] = shots[i]
       /\ i = p => shots[i].id = new.id /\ Got(shots[i]) \subseteq Got(new)

(* What add_packet does, when it does not end the run: one shot, old or    *)
(* new, gets the datagram.                                                 *)
LEMMA AddEffect ==
  ASSUME Inv, FlowInv, AddPacket, Alive'
  PROVE  \E d \in Datagram, p \in Nat, new \in ShotState :
           /\ Joins(d, p, new)
           /\ inbox # <<>> /\ d = Head(inbox) /\ inbox' = Tail(inbox) /\ ~Late(d.seq)
           /\ d.shape \in {"sent", "altered"} /\ d.seq # EndOfRun
           /\ pc = "run" /\ pc' = "ready" /\ selected
           /\ UNCHANGED <<network, durable, buffered, status, selected, pending,
                          pending_overflow, index, expected_sequence, last_shot_id>>
<1>1. PICK d \in Datagram :
        LET s == ShotOf(d.seq)
            found == {i \in DOMAIN shots : shots[i].id = s}
        IN  /\ Ingest(d) /\ d.shape \in {"sent", "altered"}
            /\ d.seq # EndOfRun /\ ~Late(d.seq)
            /\ \/ Fail
               \/ /\ found = {}
                  /\ shots' = Append(shots, add_packet([id |-> s, packets |-> {},
                                                        conflict |-> FALSE], d))
                  /\ pc' = "ready" /\ UNCHANGED status
               \/ /\ \E i \in found :
                       shots' = [shots EXCEPT ![i] = add_packet(@, d)]
                  /\ pc' = "ready" /\ UNCHANGED status
  BY DEF AddPacket
<1>2. /\ inbox # <<>> /\ d = Head(inbox) /\ inbox' = Tail(inbox) /\ pc = "run"
      /\ selected /\ ~Fail
      /\ UNCHANGED <<network, durable, buffered, selected, pending,
                     pending_overflow, index, expected_sequence, last_shot_id>>
  BY <1>1 DEF AddPacket, Ingest, Consumed, Alive, Fail, audit, journal, publication
<1> DEFINE s == ShotOf(d.seq)
<1>3. /\ pc' = "ready" /\ UNCHANGED status /\ Alive
      /\ \/ /\ \A i \in DOMAIN shots : shots[i].id # s
            /\ shots' = Append(shots, add_packet([id |-> s, packets |-> {},
                                                  conflict |-> FALSE], d))
         \/ \E i \in DOMAIN shots :
              /\ shots[i].id = s
              /\ shots' = [shots EXCEPT ![i] = add_packet(shots[i], d)]
  BY <1>1, <1>2 DEF Alive
<1>4. NetInv /\ QueueInv /\ ShotsInv /\ shots \in Seq(ShotState)
  BY <1>3 DEF FlowInv, Inv, TypeOK
<1>5. d \in Journaled
  <2>1. inbox \in Seq(Datagram)
    BY <1>4 DEF QueueInv
  <2>2. d = inbox[1] /\ 1 \in DOMAIN inbox
    BY <1>2, <2>1, TailOf
  <2> QED
    BY <1>4, <2>2 DEF QueueInv
<1>6. s \in 1 .. Shots /\ s \in Nat \ {0}
  BY <1>1, ShotOfPacket DEF Datagram
<1>7. \E p \in Nat, new \in ShotState : Joins(d, p, new)
  <2>1. CASE /\ \A i \in DOMAIN shots : shots[i].id # s
             /\ shots' = Append(shots, add_packet([id |-> s, packets |-> {},
                                                   conflict |-> FALSE], d))
    <3> DEFINE base == [id |-> s, packets |-> {}, conflict |-> FALSE]
               new == add_packet(base, d)
    <3>1. base \in ShotState /\ Made(base) /\ base.id = s /\ Got(base) = {}
      BY <1>6 DEF ShotState, Made, Got
    <3>2. ~have_info(base)
      BY <3>1 DEF have_info
    <3>3. /\ new \in ShotState /\ new.id = s /\ Made(new)
          /\ Got(new) = Got(base) \cup {d.seq}
          /\ have_info(new) => have_info(base) \/ Announces(d)
      <4> HIDE DEF base
      <4> QED
        BY <1>1, <1>4, <1>5, <3>1, StillMade
    <3> HIDE DEF new, base, s
    <3>4. /\ shots' \in Seq(ShotState) /\ Len(shots) \in Nat
          /\ DOMAIN shots' = 1 .. Len(shots) + 1 /\ DOMAIN shots = 1 .. Len(shots)
          /\ shots'[Len(shots) + 1] = new
          /\ \A i \in DOMAIN shots : shots'[i] = shots[i]
      BY <1>4, <2>1, <3>3 DEF new, base
    <3>5. Joins(d, Len(shots) + 1, new)
      BY <3>1, <3>2, <3>3, <3>4 DEF Joins, s
    <3> QED
      BY <3>3, <3>4, <3>5
  <2>2. CASE \E i \in DOMAIN shots :
               /\ shots[i].id = s
               /\ shots' = [shots EXCEPT ![i] = add_packet(shots[i], d)]
    <3>1. PICK p \in DOMAIN shots :
               /\ shots[p].id = s
               /\ shots' = [shots EXCEPT ![p] = add_packet(shots[p], d)]
      BY <2>2
    <3> DEFINE new == add_packet(shots[p], d)
    <3>2. shots[p] \in ShotState /\ Made(shots[p]) /\ p \in Nat
      BY <1>4 DEF ShotsInv
    <3>3. /\ new \in ShotState /\ new.id = s /\ Made(new)
          /\ Got(new) = Got(shots[p]) \cup {d.seq}
          /\ have_info(new) => have_info(shots[p]) \/ Announces(d)
      BY <1>1, <1>4, <1>5, <3>1, <3>2, StillMade
    <3> HIDE DEF new, s
    <3>4. /\ DOMAIN shots' = DOMAIN shots /\ shots'[p] = new
          /\ \A i \in DOMAIN shots : i # p => shots'[i] = shots[i]
      BY <1>4, <3>1 DEF new
    <3>5. Joins(d, p, new)
      BY <3>1, <3>3, <3>4 DEF Joins, AnyInfo, s
    <3> QED
      BY <3>2, <3>3, <3>5
  <2> QED
    BY <1>3, <2>1, <2>2
<1> QED
  BY <1>1, <1>2, <1>3, <1>7

(* A packet joins its shot. *)
LEMMA AddFlows ==
  ASSUME Inv, Inv', FlowInv, AddPacket PROVE FlowInv'
<1> SUFFICES ASSUME Alive' PROVE (NetInv /\ QueueInv /\ ShotsInv /\ LastInv)'
  BY DEF FlowInv
<1>1. PICK d \in Datagram, p \in Nat, new \in ShotState :
           /\ Joins(d, p, new)
           /\ inbox # <<>> /\ d = Head(inbox) /\ inbox' = Tail(inbox)
           /\ d.shape \in {"sent", "altered"} /\ d.seq # EndOfRun
           /\ pc = "run" /\ pc' = "ready" /\ selected
           /\ UNCHANGED <<network, durable, buffered, status, selected, pending,
                          index, expected_sequence, last_shot_id>>
  BY AddEffect
<1>2. NetInv /\ QueueInv /\ ShotsInv /\ LastInv
  BY <1>1 DEF FlowInv, Alive
<1>3. UNCHANGED <<net, extras, damaged>> /\ Journaled' = Journaled
  BY <1>1 DEF network, Journaled
<1>4. NetInv' /\ LastInv'
  BY <1>1, <1>2, <1>3 DEF NetInv, LastInv, Indexed
<1>5. ShotsInv'
  <2>1. \A shot : Made(shot) => Made(shot)'
    BY <1>3 DEF Made, Altered
  <2>2. \A i \in DOMAIN shots' : Made(shots'[i])
    BY <1>1, <1>2 DEF Joins, ShotsInv
  <2> QED
    BY <2>1, <2>2 DEF ShotsInv
<1>6. QueueInv'
  <2>1. inbox \in Seq(Datagram) /\ pending \in Seq(Datagram)
          /\ \A i \in DOMAIN inbox : /\ inbox[i] \in Journaled
                                     /\ i < Len(inbox) => ~Announces(inbox[i])
    BY <1>2 DEF QueueInv
  <2>2. /\ d = inbox[1] /\ 1 \in DOMAIN inbox
        /\ inbox' \in Seq(Datagram)
        /\ Len(inbox) \in Nat /\ Len(inbox) >= 1 /\ Len(inbox') = Len(inbox) - 1
        /\ \A i \in DOMAIN inbox' : i + 1 \in DOMAIN inbox
                                    /\ inbox'[i] = inbox[i + 1]
    BY <1>1, <2>1, TailOf
  <2>3. ASSUME NEW i \in DOMAIN inbox'
        PROVE  /\ inbox'[i] \in Journaled'
               /\ i < Len(inbox') => ~Announces(inbox'[i])
    <3>1. i \in Nat /\ (i < Len(inbox') => i + 1 < Len(inbox))
      BY <2>2
    <3> QED
      BY <1>3, <2>1, <2>2, <3>1
  <2>4. inbox' # <<>> => ~AnyInfo'
    <3>1. SUFFICES ASSUME inbox' # <<>> PROVE ~AnyInfo'
      OBVIOUS
    <3>2. Len(inbox') # 0
      BY <2>2, <3>1
    <3>3. Len(inbox) > 1 /\ 1 < Len(inbox)
      BY <2>2, <3>2
    <3>4. ~AnyInfo /\ ~Announces(d)
      BY <1>1, <1>2, <2>1, <2>2, <3>3 DEF QueueInv
    <3>5. \A i \in DOMAIN shots' : ~have_info(shots'[i])
      BY <1>1, <3>4 DEF Joins, AnyInfo
    <3> QED
      BY <3>5 DEF AnyInfo, have_info, Got
  <2>5. /\ \A i \in DOMAIN pending' : /\ pending'[i] \in Journaled'
                                      /\ ~Announces(pending'[i])
        /\ selected' /\ pending' = <<>>
    BY <1>1, <1>2, <1>3 DEF QueueInv
  <2> QED
    BY <1>1, <2>1, <2>2, <2>3, <2>4, <2>5 DEF QueueInv, Taking
<1> QED
  BY <1>4, <1>5, <1>6

(* Finalizing, the end of the receive loop, and closing. *)
LEMMA ControlStepFlows ==
  ASSUME Inv, FlowInv,
         finalize_ready \/ finalize_remaining \/ EndReceive \/ Close
  PROVE  FlowInv'
<1> SUFFICES ASSUME Alive' PROVE FlowInv'
  BY DEF FlowInv
<1>1. /\ UNCHANGED taken /\ UNCHANGED network
      /\ (Alive' => Alive)
      /\ Journaled' = Journaled /\ buffered' \subseteq buffered
      /\ pc' = "done" => buffered' = {}
      /\ \/ pc = "ready" /\ pc' \in {"run", "index"}
         \/ pc = "forced" /\ pc' = "forced_index"
         \/ pc = "forced" /\ pc' = "close" /\ shots = <<>>
         \/ pc = "run" /\ pc' = "forced" /\ inbox = <<>>
         \/ pc = "close" /\ pc' = "done"
  <2>1. CASE finalize_ready \/ finalize_remaining
    <3>1. /\ UNCHANGED <<network, inbox, run, journal, index>>
          /\ \/ pc = "ready" /\ pc' = "run" /\ UNCHANGED status
             \/ pc = "forced" /\ pc' = "close" /\ shots = <<>> /\ UNCHANGED status
             \/ pc \in {"ready", "forced"} /\ WriteSamples
      BY <2>1 DEF finalize_ready, finalize_remaining, publication
    <3>2. UNCHANGED taken /\ UNCHANGED <<durable, buffered>>
      BY <3>1 DEF taken, run, journal
    <3>3. WriteSamples /\ pc \in {"ready", "forced"} =>
            /\ pc' = IF pc = "ready" THEN "index" ELSE "forced_index"
            /\ UNCHANGED status
      BY DEF WriteSamples, Fail, Alive
    <3> QED
      BY <3>1, <3>2, <3>3 DEF Journaled, Alive
  <2>2. CASE EndReceive
    BY <2>2 DEF EndReceive, taken, run, journal, publication, Journaled, Alive
  <2>3. CASE Close
    BY <2>3 DEF Close, taken, run, Journaled, Alive
  <2> QED
    BY <2>1, <2>2, <2>3
<1>2. QueueInv
  BY <1>1 DEF FlowInv
<1>3. inbox # <<>> => /\ pc' \in Taking /\ pc # "run"
                      /\ ~AnyInfo
  <2>1. inbox # <<>> => pc \in Taking
    BY <1>2 DEF QueueInv
  <2>2. inbox # <<>> => pc' \in Taking /\ pc # "run"
    BY <1>1, <2>1 DEF Taking
  <2> QED
    BY <1>2, <2>2 DEF QueueInv
<1>4. pc' \in {"close", "done"} => shots = <<>>
  BY <1>1, <1>2 DEF QueueInv
<1> QED
  BY <1>1, <1>3, <1>4, ControlFlows

(* The lowest shot goes to the index. *)
LEMMA IndexEffect ==
  ASSUME Inv, write_index_record
  PROVE  /\ pc \in Indexing /\ shots # <<>> /\ lowest_sequence_shot \in DOMAIN shots
         /\ Lowest \in ShotState /\ Lowest = shots[lowest_sequence_shot]
         /\ index' = Append(index, record) /\ record.shot = Lowest.id
         /\ record.issues = issue_flags(Lowest) /\ record \in Record
         /\ pc = "index" => shot_sequence_complete(Lowest)
         /\ index \in Seq(Record) /\ shots \in Seq(ShotState)
         /\ DOMAIN index' = 1 .. Len(index) + 1 /\ DOMAIN index = 1 .. Len(index)
         /\ Len(index') = Len(index) + 1 /\ Len(index) \in Nat
         /\ index'[Len(index) + 1] = record
         /\ \A k \in DOMAIN index : index'[k] = index[k]
         /\ expected_sequence' = ExpectedNext
         /\ last_shot_id' = IF first_timestamp(Lowest) # 0 THEN Lowest.id
                            ELSE last_shot_id
         /\ pc' = IF pc = "index" THEN "ready" ELSE "forced"
         /\ \A i \in DOMAIN shots' : \E j \in DOMAIN shots :
              j # lowest_sequence_shot /\ shots'[i] = shots[j]
         /\ \A j \in DOMAIN shots : j # lowest_sequence_shot =>
              \E i \in DOMAIN shots' : shots'[i] = shots[j]
         /\ UNCHANGED <<network, durable, buffered, inbox, pending, selected,
                        status, pending_overflow>>
<1> DEFINE m == lowest_sequence_shot
<1>1. /\ pc \in Indexing /\ index' = Append(index, record)
      /\ shots' = RemoveAt(shots, m) /\ expected_sequence' = ExpectedNext
      /\ last_shot_id' = IF first_timestamp(Lowest) # 0 THEN Lowest.id
                         ELSE last_shot_id
      /\ pc' = IF pc = "index" THEN "ready" ELSE "forced"
      /\ UNCHANGED <<network, durable, buffered, inbox, pending, selected,
                     status, pending_overflow>>
  BY DEF write_index_record, Indexing, journal
<1>2. /\ shots \in Seq(ShotState) /\ shots # <<>> /\ index \in Seq(Record)
      /\ record \in Record /\ record.shot = Lowest.id
      /\ record.issues = issue_flags(Lowest)
      /\ pc = "index" => shot_sequence_complete(Lowest)
  BY <1>1 DEF Inv, TypeOK, RecordInv
<1>3. m \in DOMAIN shots /\ Lowest \in ShotState /\ Lowest = shots[m]
  BY <1>2, LowestActive DEF Lowest
<1>4. /\ DOMAIN index' = 1 .. Len(index) + 1 /\ DOMAIN index = 1 .. Len(index)
      /\ Len(index') = Len(index) + 1 /\ Len(index) \in Nat
      /\ index'[Len(index) + 1] = record
      /\ \A k \in DOMAIN index : index'[k] = index[k]
  BY <1>1, <1>2
<1> HIDE DEF m
<1>5. /\ shots' \in Seq(ShotState)
      /\ Len(shots') = Len(shots) - 1
      /\ \A k \in DOMAIN shots' :
           shots'[k] = shots[IF k < m THEN k ELSE k + 1]
  BY <1>1, <1>2, <1>3, Removed
<1>6. DOMAIN shots' = 1 .. Len(shots) - 1 /\ DOMAIN shots = 1 .. Len(shots)
        /\ Len(shots) \in Nat
  BY <1>2, <1>5
<1>7. \A i \in DOMAIN shots' : \E j \in DOMAIN shots :
        j # m /\ shots'[i] = shots[j]
  <2>1. \A i \in DOMAIN shots' : /\ (IF i < m THEN i ELSE i + 1) \in DOMAIN shots
                                 /\ (IF i < m THEN i ELSE i + 1) # m
    BY <1>3, <1>6
  <2> QED
    BY <1>5, <2>1
<1>8. \A j \in DOMAIN shots : j # m => \E i \in DOMAIN shots' : shots'[i] = shots[j]
  <2>1. ASSUME NEW j \in DOMAIN shots, j # m
        PROVE  \E i \in DOMAIN shots' : shots'[i] = shots[j]
    <3>1. CASE j < m
      <4>1. j \in DOMAIN shots'
        BY <1>3, <1>6, <3>1
      <4> QED
        BY <1>5, <3>1, <4>1
    <3>2. CASE ~(j < m)
      <4>1. j - 1 \in DOMAIN shots' /\ ~(j - 1 < m) /\ (j - 1) + 1 = j
        BY <1>3, <1>6, <2>1, <3>2
      <4>2. shots'[j - 1] = shots[(j - 1) + 1]
        BY <1>5, <4>1
      <4> QED
        BY <4>1, <4>2
    <3> QED
      BY <3>1, <3>2
  <2> QED
    BY <2>1
<1> QED
  BY <1>1, <1>2, <1>3, <1>4, <1>7, <1>8 DEF m

(* Indexing a shot keeps every packet accounted for.                       *)
LEMMA IndexFlows ==
  ASSUME Inv, FlowInv, write_index_record PROVE FlowInv'
<1> SUFFICES ASSUME Alive' PROVE (NetInv /\ QueueInv /\ ShotsInv /\ LastInv)'
  BY DEF FlowInv
<1> DEFINE m == lowest_sequence_shot
<1>1. /\ pc \in Indexing /\ shots # <<>> /\ Lowest \in ShotState
      /\ record.shot = Lowest.id
      /\ DOMAIN index' = 1 .. Len(index) + 1 /\ Len(index) \in Nat
      /\ DOMAIN index = 1 .. Len(index)
      /\ index'[Len(index) + 1] = record
      /\ \A k \in DOMAIN index : index'[k] = index[k]
      /\ last_shot_id' = IF first_timestamp(Lowest) # 0 THEN Lowest.id
                         ELSE last_shot_id
      /\ pc' = IF pc = "index" THEN "ready" ELSE "forced"
      /\ \A i \in DOMAIN shots' : \E j \in DOMAIN shots : shots'[i] = shots[j]
      /\ UNCHANGED <<network, durable, buffered, inbox, pending, selected,
                     status, pending_overflow>>
  BY IndexEffect
<1>2. NetInv /\ QueueInv /\ ShotsInv /\ LastInv
  BY <1>1 DEF FlowInv, Alive, Indexing
<1>3. UNCHANGED <<net, extras, damaged>> /\ Journaled' = Journaled
  BY <1>1 DEF network, Journaled
<1>4. NetInv'
  BY <1>1, <1>2, <1>3 DEF NetInv
<1>5. QueueInv'
  <2>1. selected /\ pc \notin {"run", "close", "done"}
    BY <1>1, <1>2 DEF QueueInv, Indexing
  <2>2. AnyInfo' => AnyInfo
    BY <1>1 DEF AnyInfo, have_info, Got
  <2>3. inbox # <<>> => pc = "index" /\ ~AnyInfo
    BY <1>1, <1>2, <2>1 DEF QueueInv, Taking, Indexing
  <2>4. inbox' # <<>> => pc' \in Taking
    BY <1>1, <2>3 DEF Taking
  <2>5. inbox' # <<>> => ~AnyInfo'
    BY <1>1, <2>2, <2>3
  <2>6. pc' \notin {"close", "done"}
    BY <1>1
  <2> QED
    BY <1>1, <1>2, <1>3, <2>1, <2>4, <2>5, <2>6 DEF QueueInv
<1>6. ShotsInv'
  <2>1. \A shot : Made(shot) => Made(shot)'
    BY <1>3 DEF Made, Altered
  <2>2. \A i \in DOMAIN shots' : Made(shots'[i])
    BY <1>1, <1>2 DEF ShotsInv
  <2> QED
    BY <2>1, <2>2 DEF ShotsInv
<1>7. LastInv'
  <2>1. Len(index) + 1 \in DOMAIN index' /\ index' # <<>>
    BY <1>1
  <2>2. \E k \in DOMAIN index' : index'[k].shot = Lowest.id
    BY <1>1, <2>1
  <2>3. Indexed(last_shot_id) =>
          \E k \in DOMAIN index' : index'[k].shot = last_shot_id
    BY <1>1 DEF Indexed
  <2>4. last_shot_id' # None => Indexed(last_shot_id)'
    <3>1. last_shot_id' = Lowest.id \/ last_shot_id' = last_shot_id
      BY <1>1
    <3> QED
      BY <1>2, <2>2, <2>3, <3>1 DEF LastInv, Indexed
  <2> QED
    BY <2>1, <2>4 DEF LastInv
<1> QED
  BY <1>4, <1>5, <1>6, <1>7

(* Nothing has happened at first. *)
LEMMA FlowInit == Init => FlowInv
<1> SUFFICES ASSUME Init PROVE NetInv /\ QueueInv /\ ShotsInv /\ LastInv
  BY DEF FlowInv
<1>1. NetInv
  BY SizesAssumption DEF Init, NetInv, Journaled
<1> QED
  BY <1>1 DEF Init, QueueInv, ShotsInv, LastInv

(* A step after which the recorder is not alive leaves nothing to show. *)
LEMMA FlowNext ==
  ASSUME Inv, Inv', FlowInv, [Next]_vars PROVE FlowInv'
<1>1. CASE UNCHANGED vars
  <2>1. UNCHANGED <<taken, pc, status, durable, buffered>>
    BY <1>1 DEF vars, taken, network, run, publication, process, journal
  <2>2. Journaled' = Journaled /\ (Alive' => Alive)
    BY <2>1 DEF Journaled, Alive
  <2>3. CASE Alive'
    BY <2>1, <2>2, <2>3, ControlFlows DEF FlowInv, QueueInv
  <2> QED
    BY <2>3 DEF FlowInv
<1>2. CASE JournalFails \/ IndexFails \/ SelectFails \/ CloseFails \/ Crash
  <2>1. ~Alive'
    BY <1>2 DEF JournalFails, IndexFails, SelectFails, CloseFails, Crash, Fail, Alive
  <2> QED
    BY <2>1 DEF FlowInv
<1>3. CASE Recording
  BY <1>2, <1>3, IngestFlows, SelectFlows, AddFlows, ControlStepFlows, IndexFlows
  DEF Recording
<1>4. CASE Arrive \/ ArriveExtra \/ Lose \/ EndReceive
  BY <1>4, ArriveFlows, LoseFlows, ControlStepFlows
<1> QED
  BY <1>1, <1>2, <1>3, <1>4 DEF Next

-----------------------------------------------------------------------------
(* What became of the packets and the shots, step by step. *)

(* Steps that neither index nor grow a shot. *)
LEMMA KeepFrame ==
  ASSUME KeepInv, Sound, UNCHANGED <<shots, index, expected_sequence>>,
         pc' \in Taking => pc \in Taking,
         \A t \in Int : Broken(t) => Broken(t)',
         \A s \in Nat : NoInfo(s) => NoInfo(s)',
         index \in Seq(Record), AccountInv'
  PROVE  KeepInv'
<1>0. \A k \in DOMAIN index : index[k].shot \in Nat
  <2>1. \A k \in DOMAIN index : index[k] \in Record
    OBVIOUS
  <2> QED
    BY <2>1 DEF Record
<1>1. PassedInv /\ OrderInv /\ BlameInv
  BY DEF KeepInv
<1>2. PassedInv'
  BY <1>1 DEF PassedInv, Indexed
<1>3. OrderInv'
  <2>1. \A i \in DOMAIN shots : have_info(shots[i]) =>
          \A k \in DOMAIN index : index[k].shot < shots[i].id
    BY <1>1 DEF OrderInv
  <2>2. AnyInfo' = AnyInfo /\ LastShot' = LastShot
    BY DEF AnyInfo, LastShot
  <2>3. ASSUME index # <<>>, AnyInfo \/ pc \in Taking
        PROVE  /\ \A k \in DOMAIN index : index[k].shot <= LastShot
               /\ expected_sequence = EndOf(LastShot) + 1 \/ Broken(LastShot)'
    <3>1. LastShot \in Int
      <4>1. Len(index) \in DOMAIN index
        BY <2>3
      <4> QED
        BY <1>0, <4>1 DEF LastShot
    <3> QED
      BY <1>1, <2>2, <2>3, <3>1 DEF OrderInv
  <2> QED
    BY <2>1, <2>2, <2>3 DEF OrderInv
<1>4. BlameInv'
  <2>1. \A t \in Nat : Blamed(t) => Blamed(t)'
    BY DEF Blamed
  <2> QED
    BY <1>0, <1>1, <2>1 DEF BlameInv, Complete
<1> QED
  BY <1>2, <1>3, <1>4 DEF KeepInv

(* While nothing new is journaled, what is missing stays missing. *)
LEMMA StaysMissing ==
  ASSUME Journaled' = Journaled, net' \subseteq net, pc' \in Taking => pc \in Taking
  PROVE  /\ \A t \in Int : Broken(t) => Broken(t)'
         /\ \A s \in Nat : NoInfo(s) => NoInfo(s)'
BY DEF Broken, Lacking, Altered, NoInfo

(* A packet the shots or the index hold is held on. *)
LEMMA StaysHeld ==
  ASSUME UNCHANGED <<shots, index>>,
         \A i \in DOMAIN inbox : \A n \in Packet :
           n # EndOfRun /\ inbox[i] = Sent(n) => Held(n)',
         \A i \in DOMAIN pending : \A n \in Packet :
           n # EndOfRun /\ pending[i] = Sent(n) => Held(n)',
         \A n \in Packet : Sent(n) \in Journaled' =>
           Sent(n) \in Journaled \/ Held(n)',
         AccountInv
  PROVE  AccountInv'
BY DEF AccountInv, Held

(* A datagram arrives: of a packet that was still under way, or, when      *)
(* nothing was damaged, of any.                                            *)
LEMMA ReceiveKeeps ==
  ASSUME Inv, FlowInv, KeepInv, Sound', NEW d \in Datagram, Receive(d),
         net' \subseteq net, UNCHANGED extras \/ extras' > 0, damaged' \in Nat,
         damaged' = 0 => damaged = 0,
         d.seq \in net \/ damaged' = 0, extras' = 0 => extras = 0
  PROVE  KeepInv'
<1>1. /\ pc = "run" /\ pc' = "run" /\ inbox = <<>> /\ inbox' = <<d>>
      /\ Journaled' = Journaled \cup {d}
      /\ UNCHANGED <<status, selected, pending, shots, expected_sequence,
                     last_shot_id, terminal, pending_overflow, index>>
  BY ReceiveEffect
<1>2. Sound
  BY <1>1 DEF Sound, Alive
<1>3. NetInv /\ AccountInv /\ index \in Seq(Record)
  BY <1>2 DEF FlowInv, KeepInv, Sound, Inv, TypeOK
<1>4. d.seq \in Packet
  BY DEF Datagram
<1>5. ASSUME NEW n \in Packet, Sent(n) \notin Journaled, n \notin net
      PROVE  Sent(n) \notin Journaled' /\ n \notin net'
  <2>1. SUFFICES ASSUME Sent(n) = d PROVE FALSE
    BY <1>1, <1>5
  <2>2. d.seq = n
    BY <2>1 DEF Sent
  <2>3. damaged = 0
    BY <1>5, <2>2
  <2> QED
    BY <1>3, <1>5, <2>3 DEF NetInv
<1>6. \A t \in Int : Broken(t) => Broken(t)'
  <2>1. \A t \in Int : Lacking(t) => Lacking(t)'
    BY <1>1, <1>5 DEF Lacking, Taking
  <2>2. \A t \in Int : Altered(t) => Altered(t)'
    BY <1>1 DEF Altered
  <2> QED
    BY <2>1, <2>2 DEF Broken
<1>7. \A s \in Nat : NoInfo(s) => NoInfo(s)'
  <2>1. ASSUME NEW s \in Nat, NoInfo(s) PROVE NoInfo(s)'
    <3>1. Sent(InfoOf(s)) \notin Journaled /\ InfoOf(s) \notin net
      BY <1>1, <2>1 DEF NoInfo, Taking
    <3>2. CASE InfoOf(s) \in Packet
      BY <1>5, <3>1, <3>2 DEF NoInfo
    <3>3. CASE InfoOf(s) \notin Packet
      <4>1. d # Sent(InfoOf(s))
        BY <1>4, <3>3 DEF Sent
      <4> QED
        BY <1>1, <3>1, <4>1 DEF NoInfo
    <3> QED
      BY <3>2, <3>3
  <2> QED
    BY <2>1
<1>8. AccountInv'
  <2>1. \A n \in Packet : Sent(n) = d => Held(n)'
    <3>1. 1 \in DOMAIN inbox' /\ inbox'[1] = d
      BY <1>1
    <3> QED
      BY <3>1 DEF Held
  <2>2. \A n \in Packet : Sent(n) \in Journaled' => Sent(n) \in Journaled \/ Held(n)'
    BY <1>1, <2>1
  <2>3. \A i \in DOMAIN pending : \A n \in Packet :
          pending[i] = Sent(n) => Held(n)'
    BY <1>1 DEF Held
  <2>4. DOMAIN inbox = {}
    BY <1>1
  <2> QED
    BY <1>1, <1>3, <2>2, <2>3, <2>4, StaysHeld
<1> QED
  BY <1>1, <1>2, <1>3, <1>6, <1>7, <1>8, KeepFrame

(* Packets and their copies arrive. *)
LEMMA ArriveKeeps ==
  ASSUME Inv, FlowInv, KeepInv, Arrive \/ ArriveExtra PROVE KeepInv'
<1> SUFFICES ASSUME Sound' PROVE KeepInv'
  BY DEF KeepInv
<1>1. Alive
  BY DEF Arrive, ArriveExtra, Receive, Sound, Alive
<1>2. net \subseteq Packet /\ extras \in Nat /\ damaged \in Nat
  BY <1>1, SizesAssumption DEF FlowInv, NetInv
<1>3. \A n \in Packet : \A x \in {"sent", "altered", "malformed", "foreign"} :
        [seq |-> n, shape |-> x] \in Datagram
  BY DEF Datagram
<1>4. CASE Arrive
  <2>1. PICK n \in net :
          /\ net' = net \ {n} /\ UNCHANGED extras
          /\ \E x \in {"sent", "altered", "malformed"} :
                Receive([seq |-> n, shape |-> x])
          /\ damaged' = damaged \/ damaged' = damaged + 1
    BY <1>4 DEF Arrive, Damage, InFlight, Sent
  <2>2. PICK x \in {"sent", "altered", "malformed"} :
          Receive([seq |-> n, shape |-> x])
    BY <2>1
  <2> DEFINE d == [seq |-> n, shape |-> x]
  <2>3. d \in Datagram /\ d.seq = n
    BY <1>2, <1>3
  <2>4. damaged' \in Nat /\ (damaged' = 0 => damaged = 0)
    BY <1>2, <2>1
  <2> HIDE DEF d
  <2> QED
    BY <2>1, <2>2, <2>3, <2>4, ReceiveKeeps DEF d
<1>5. CASE ArriveExtra
  <2>1. PICK n \in Packet :
          /\ UNCHANGED net /\ extras' = extras + 1
          /\ \E x \in {"sent", "altered", "foreign"} :
                Receive([seq |-> n, shape |-> x])
          /\ damaged' = damaged \/ damaged' = damaged + 1
    BY <1>5 DEF ArriveExtra, Damage, Sent
  <2>2. PICK x \in {"sent", "altered", "foreign"} :
          Receive([seq |-> n, shape |-> x])
    BY <2>1
  <2> DEFINE d == [seq |-> n, shape |-> x]
  <2>3. d \in Datagram
    BY <1>3
  <2>4. damaged' \in Nat /\ (damaged' = 0 => damaged = 0) /\ extras' > 0
          /\ extras' # 0
    BY <1>2, <2>1
  <2>5. damaged' = 0
    BY <2>4 DEF Sound
  <2> HIDE DEF d
  <2> QED
    BY <2>1, <2>2, <2>3, <2>4, <2>5, ReceiveKeeps DEF d
<1> QED
  BY <1>4, <1>5

(* A packet is lost. *)
LEMMA LoseKeeps ==
  ASSUME Inv, FlowInv, KeepInv, Lose PROVE KeepInv'
<1> SUFFICES ASSUME Sound' PROVE KeepInv'
  BY DEF KeepInv
<1>1. /\ net' \subseteq net /\ damaged' = damaged + 1
      /\ UNCHANGED <<extras, durable, buffered, pc, inbox, status, selected,
                     pending, pending_overflow, shots, index, expected_sequence>>
  BY DEF Lose, Damage, process, run, audit, journal, publication
<1>2. Alive
  BY <1>1 DEF Sound, Alive
<1>3. damaged \in Nat /\ index \in Seq(Record)
  BY <1>2 DEF FlowInv, NetInv, Inv, TypeOK
<1>4. Sound
  BY <1>1, <1>3 DEF Sound, Alive
<1>5. Journaled' = Journaled
  BY <1>1 DEF Journaled
<1>6. AccountInv'
  BY <1>1, <1>4, <1>5 DEF KeepInv, AccountInv, Held
<1> QED
  BY <1>1, <1>3, <1>4, <1>5, <1>6, StaysMissing, KeepFrame

(* The first datagram is counted, or put with those that wait. *)
LEMMA IngestKeeps ==
  ASSUME Inv, FlowInv, KeepInv, Malformed \/ save_pending \/ Ignored \/ Heartbeat
  PROVE  KeepInv'
<1> SUFFICES ASSUME Sound' PROVE KeepInv'
  BY DEF KeepInv
<1>1. /\ pc = "run" /\ pc' = "run" /\ inbox # <<>> /\ inbox' = Tail(inbox)
      /\ UNCHANGED <<network, durable, buffered, status, selected, shots, index,
                     expected_sequence, last_shot_id>>
      /\ pending_overflow => pending_overflow'
  BY DEF Malformed, save_pending, Ignored, Heartbeat, Ingest, Consumed, run,
         audit, journal, publication
<1>2. UNCHANGED <<net, extras, damaged>> /\ Journaled' = Journaled
  BY <1>1 DEF network, Journaled
<1>3. Sound
  BY <1>1, <1>2 DEF Sound, Alive
<1>4. /\ QueueInv /\ LastInv /\ AccountInv /\ index \in Seq(Record)
      /\ inbox \in Seq(Datagram) /\ pending \in Seq(Datagram)
  BY <1>3 DEF FlowInv, KeepInv, Sound, Inv, TypeOK, QueueInv
<1>5. /\ Head(inbox) = inbox[1] /\ 1 \in DOMAIN inbox
      /\ \A i \in DOMAIN inbox : i # 1 => i - 1 \in DOMAIN inbox'
                                           /\ inbox'[i - 1] = inbox[i]
  BY <1>1, <1>4, TailOf
<1>6. \A i \in DOMAIN pending : i \in DOMAIN pending' /\ pending'[i] = pending[i]
  <2>1. CASE Malformed \/ Ignored \/ Heartbeat
    BY <2>1 DEF Malformed, Ignored, Heartbeat, run
  <2>2. CASE save_pending
    <3>1. pending' = pending \/ \E d \in Datagram : pending' = Append(pending, d)
      BY <2>2 DEF save_pending
    <3>2. \A d \in Datagram : \A i \in DOMAIN pending :
            i \in DOMAIN Append(pending, d) /\ Append(pending, d)[i] = pending[i]
      BY <1>4
    <3> QED
      BY <3>1, <3>2
  <2> QED
    BY <2>1, <2>2
<1>7. ASSUME NEW n \in Packet, n # EndOfRun, inbox[1] = Sent(n)
      PROVE  Held(n)'
  <2>1. Head(inbox).shape = "sent" /\ Head(inbox).seq = n
    BY <1>5, <1>7 DEF Sent
  <2>2. CASE Malformed
    BY <2>1, <2>2 DEF Malformed, Ingest
  <2>3. CASE Heartbeat
    BY <1>7, <2>1, <2>3 DEF Heartbeat, Ingest, Sent
  <2>4. CASE Ignored
    <3>1. Late(n)
      BY <2>1, <2>4 DEF Ignored, Ingest
    <3>2. Indexed(last_shot_id) /\ ShotOf(n) <= last_shot_id
      BY <1>4, <3>1 DEF Late, LastInv
    <3> QED
      BY <1>1, <3>2 DEF Held, Indexed
  <2>5. CASE save_pending
    <3>1. pending' = Append(pending, Head(inbox)) /\ Head(inbox) \in Datagram
      BY <2>5 DEF save_pending, Ingest, Sound
    <3>2. Len(pending) + 1 \in DOMAIN pending'
            /\ pending'[Len(pending) + 1] = Head(inbox)
      BY <1>4, <3>1
    <3> QED
      BY <1>5, <1>7, <3>2 DEF Held
  <2> QED
    BY <2>2, <2>3, <2>4, <2>5
<1>8. AccountInv'
  <2>1. \A i \in DOMAIN inbox : \A n \in Packet :
          n # EndOfRun /\ inbox[i] = Sent(n) => Held(n)'
    <3>1. ASSUME NEW i \in DOMAIN inbox, NEW n \in Packet, n # EndOfRun,
                 inbox[i] = Sent(n)
          PROVE  Held(n)'
      <4>1. CASE i = 1
        BY <1>7, <3>1, <4>1
      <4>2. CASE i # 1
        BY <1>5, <3>1, <4>2 DEF Held
      <4> QED
        BY <4>1, <4>2
    <3> QED
      BY <3>1
  <2>2. \A i \in DOMAIN pending : \A n \in Packet :
          n # EndOfRun /\ pending[i] = Sent(n) => Held(n)'
    BY <1>6 DEF Held
  <2> QED
    BY <1>1, <1>2, <1>4, <2>1, <2>2, StaysHeld
<1> QED
  BY <1>1, <1>2, <1>3, <1>4, <1>8, StaysMissing, KeepFrame

(* What waited is replayed. *)
LEMMA SelectKeeps ==
  ASSUME Inv, FlowInv, KeepInv, select_run PROVE KeepInv'
<1> SUFFICES ASSUME Sound' PROVE KeepInv'
  BY DEF KeepInv
<1>1. /\ pc = "run" /\ pc' = "run"
      /\ inbox' = pending \o inbox
      /\ UNCHANGED <<net, extras, damaged, durable, buffered, status, shots,
                     index, expected_sequence, pending_overflow>>
  BY DEF select_run, Ingest, network, audit, journal, publication
<1>2. Journaled' = Journaled /\ Sound
  BY <1>1 DEF Journaled, Sound, Alive
<1>3. /\ AccountInv /\ index \in Seq(Record)
      /\ inbox \in Seq(Datagram) /\ pending \in Seq(Datagram)
  BY <1>2 DEF FlowInv, KeepInv, Sound, Inv, TypeOK, QueueInv
<1>4. /\ \A i \in DOMAIN pending : i \in DOMAIN inbox' /\ inbox'[i] = pending[i]
      /\ \A i \in DOMAIN inbox : Len(pending) + i \in DOMAIN inbox'
                                 /\ inbox'[Len(pending) + i] = inbox[i]
  BY <1>1, <1>3
<1>5. AccountInv'
  <2>1. \A i \in DOMAIN inbox : \A n \in Packet : inbox[i] = Sent(n) => Held(n)'
    BY <1>4 DEF Held
  <2>2. \A i \in DOMAIN pending : \A n \in Packet : pending[i] = Sent(n) => Held(n)'
    BY <1>4 DEF Held
  <2> QED
    BY <1>1, <1>2, <1>3, <2>1, <2>2, StaysHeld
<1> QED
  BY <1>1, <1>2, <1>3, <1>5, StaysMissing, KeepFrame

(* The control moves on. *)
LEMMA ControlStepKeeps ==
  ASSUME Inv, FlowInv, KeepInv,
         finalize_ready \/ finalize_remaining \/ EndReceive \/ Close \/ UNCHANGED vars
  PROVE  KeepInv'
<1> SUFFICES ASSUME Sound' PROVE KeepInv'
  BY DEF KeepInv
<1>1. /\ UNCHANGED <<net, extras, damaged, inbox, pending, shots, index,
                     expected_sequence, pending_overflow>>
      /\ Journaled' = Journaled /\ (Alive' => Alive)
      /\ pc' \in Taking => pc \in Taking
  <2>1. CASE finalize_ready
    <3>1. /\ UNCHANGED <<network, inbox, run, audit, journal, index>>
          /\ pc = "ready"
          /\ status' = "ok" => UNCHANGED status
      BY <2>1 DEF finalize_ready, publication, WriteSamples, Fail
    <3> QED
      BY <3>1 DEF network, run, audit, journal, Journaled, Alive, Taking
  <2>2. CASE finalize_remaining
    <3>1. /\ UNCHANGED <<network, inbox, run, audit, journal, index>>
          /\ pc = "forced" /\ pc' \in {"close", "forced_index"}
          /\ status' = "ok" => UNCHANGED status
      BY <2>2 DEF finalize_remaining, publication, WriteSamples, Fail
    <3> QED
      BY <3>1 DEF network, run, audit, journal, Journaled, Alive, Taking
  <2>3. CASE EndReceive
    BY <2>3 DEF EndReceive, network, run, audit, journal, publication, Journaled,
                Alive, Taking
  <2>4. CASE Close
    BY <2>4 DEF Close, network, run, audit, Journaled, Alive, Taking
  <2>5. CASE UNCHANGED vars
    BY <2>5 DEF vars, network, process, run, audit, journal, publication, Journaled,
                Alive
  <2> QED
    BY <2>1, <2>2, <2>3, <2>4, <2>5
<1>2. Sound
  BY <1>1 DEF Sound
<1>3. AccountInv /\ index \in Seq(Record)
  BY <1>2 DEF KeepInv, Inv, TypeOK
<1>4. AccountInv'
  BY <1>1, <1>3 DEF AccountInv, Held
<1> QED
  BY <1>1, <1>2, <1>3, <1>4, StaysMissing, KeepFrame

(* A packet joins its shot, which is past no indexed one. *)
LEMMA AddKeeps ==
  ASSUME Inv, Inv', FlowInv, KeepInv, AddPacket PROVE KeepInv'
<1> SUFFICES ASSUME Sound' PROVE KeepInv'
  BY DEF KeepInv
<1>1. PICK d \in Datagram, p \in Nat, new \in ShotState :
           /\ Joins(d, p, new)
           /\ inbox # <<>> /\ d = Head(inbox) /\ inbox' = Tail(inbox)
           /\ d.shape \in {"sent", "altered"} /\ d.seq # EndOfRun
           /\ pc = "run" /\ pc' = "ready" /\ selected
           /\ UNCHANGED <<network, durable, buffered, status, selected, pending,
                          pending_overflow, index, expected_sequence, last_shot_id>>
  BY AddEffect DEF Sound
<1>2. UNCHANGED <<net, extras, damaged>> /\ Journaled' = Journaled
  BY <1>1 DEF network, Journaled
<1>3. Sound
  BY <1>1, <1>2 DEF Sound, Alive
<1>4. /\ QueueInv /\ AccountInv /\ PassedInv /\ OrderInv /\ BlameInv
      /\ inbox \in Seq(Datagram) /\ pending \in Seq(Datagram)
      /\ index \in Seq(Record)
  BY <1>3 DEF FlowInv, KeepInv, Sound, QueueInv, Inv, TypeOK
<1>5. /\ d = inbox[1] /\ 1 \in DOMAIN inbox
      /\ \A i \in DOMAIN inbox : i # 1 => i - 1 \in DOMAIN inbox'
                                           /\ inbox'[i - 1] = inbox[i]
  BY <1>1, <1>4, TailOf
<1>6. /\ \A t \in Int : Broken(t) => Broken(t)'
      /\ \A s \in Nat : NoInfo(s) => NoInfo(s)'
  BY <1>1, <1>2, StaysMissing DEF Taking
<1>7. \A k \in DOMAIN index : index[k].shot \in Nat
  <2>1. \A k \in DOMAIN index : index[k] \in Record
    BY <1>4
  <2> QED
    BY <2>1 DEF Record
<1>8. AccountInv'
  <2>1. ASSUME NEW n \in Packet, n # EndOfRun, Held(n) PROVE Held(n)'
    <3>1. CASE \E i \in DOMAIN inbox : inbox[i] = Sent(n)
      <4>1. PICK i \in DOMAIN inbox : inbox[i] = Sent(n)
        BY <3>1
      <4>2. CASE i = 1
        <5>1. d.seq = n
          BY <1>5, <4>1, <4>2 DEF Sent
        <5>2. /\ p \in DOMAIN shots' /\ shots'[p].id = ShotOf(n)
              /\ n \in Got(shots'[p])
          BY <1>1, <5>1 DEF Joins
        <5> QED
          BY <5>2 DEF Held, Got
      <4>3. CASE i # 1
        BY <1>5, <4>1, <4>3 DEF Held
      <4> QED
        BY <4>2, <4>3
    <3>2. CASE \E i \in DOMAIN pending : pending[i] = Sent(n)
      BY <1>1, <3>2 DEF Held
    <3>3. CASE \E i \in DOMAIN shots : shots[i].id = ShotOf(n) /\ n \in Got(shots[i])
      <4>1. PICK i \in DOMAIN shots : shots[i].id = ShotOf(n) /\ n \in Got(shots[i])
        BY <3>3
      <4>2. /\ i \in DOMAIN shots' /\ shots'[i].id = ShotOf(n)
            /\ n \in Got(shots'[i])
        BY <1>1, <4>1 DEF Joins
      <4> QED
        BY <4>2 DEF Held, Got
    <3>4. CASE \E k \in DOMAIN index : ShotOf(n) <= index[k].shot
      BY <1>1, <3>4 DEF Held
    <3> QED
      BY <2>1, <3>1, <3>2, <3>3, <3>4 DEF Held
  <2> QED
    BY <1>2, <1>4, <2>1 DEF AccountInv
<1>9. PassedInv'
  BY <1>1, <1>4, <1>6, <1>7 DEF PassedInv, Indexed
<1>10. OrderInv'
  <2>1. \A i \in DOMAIN shots' : have_info(shots'[i]) =>
          \A k \in DOMAIN index : index[k].shot < shots'[i].id
    <3>1. /\ \A k \in DOMAIN index : index[k].shot <= last_shot_id
          /\ \A i \in DOMAIN shots' : have_info(shots'[i]) =>
                                        shots'[i].id > last_shot_id
          /\ last_shot_id \in Int /\ shots' \in Seq(ShotState)
      BY <1>1 DEF Inv, IdInv, TypeOK, Taking, have_info, Got
    <3>2. \A i \in DOMAIN shots' : shots'[i].id \in Nat
      <4>1. \A i \in DOMAIN shots' : shots'[i] \in ShotState
        BY <3>1
      <4> QED
        BY <4>1 DEF ShotState
    <3> QED
      BY <1>7, <3>1, <3>2
  <2>2. ASSUME index # <<>>
        PROVE  /\ \A k \in DOMAIN index : index[k].shot <= LastShot
               /\ expected_sequence = EndOf(LastShot) + 1 \/ Broken(LastShot)'
    <3>1. LastShot \in Int /\ LastShot' = LastShot
      <4>1. Len(index) \in DOMAIN index
        BY <1>4, <2>2
      <4> QED
        BY <1>1, <1>7, <4>1 DEF LastShot
    <3> QED
      BY <1>1, <1>4, <1>6, <2>2, <3>1 DEF OrderInv, Taking
  <2>3. LastShot' = LastShot
    BY <1>1 DEF LastShot
  <2> QED
    BY <1>1, <2>1, <2>2, <2>3 DEF OrderInv, have_info, Got
<1>11. BlameInv'
  <2>1. \A t \in Nat : Blamed(t) => Blamed(t)'
    BY <1>6 DEF Blamed
  <2> QED
    BY <1>1, <1>4, <1>7, <2>1 DEF BlameInv, Complete
<1> QED
  BY <1>8, <1>9, <1>10, <1>11 DEF KeepInv

(* While a shot is indexed nothing waits that belongs before it. *)
LEMMA Placed ==
  ASSUME Inv, FlowInv, KeepInv, Sound, pc \in Indexing,
         NEW n \in Packet, n # EndOfRun, Sent(n) \in Journaled
  PROVE  \/ \E i \in DOMAIN shots : shots[i].id = ShotOf(n) /\ n \in Got(shots[i])
         \/ \E k \in DOMAIN index : ShotOf(n) <= index[k].shot
<1>1. QueueInv /\ Held(n)
  BY DEF FlowInv, KeepInv, Sound, AccountInv
<1>2. shots # <<>> /\ shots \in Seq(ShotState)
        /\ (pc = "index" => shot_sequence_complete(Lowest))
  BY DEF Inv, RecordInv, TypeOK
<1>3. pc = "index" => AnyInfo
  <2>1. lowest_sequence_shot \in DOMAIN shots
    BY <1>2, LowestActive
  <2> QED
    BY <1>2, <2>1 DEF AnyInfo, Lowest, shot_sequence_complete
<1>4. inbox = <<>>
  BY <1>1, <1>3 DEF QueueInv, Taking, Indexing
<1>5. pending = <<>>
  BY <1>1, <1>2 DEF QueueInv
<1>6. DOMAIN inbox = {} /\ DOMAIN pending = {}
  BY <1>4, <1>5
<1> QED
  BY <1>1, <1>6 DEF Held

(* Facts about the shot that is about to be indexed. *)
LEMMA LowestFacts ==
  ASSUME Inv, FlowInv, Alive, pc \in Indexing
  PROVE  /\ Lowest \in ShotState /\ Made(Lowest) /\ Lowest.id \in 1 .. Shots
         /\ Lowest.id \in Nat
         /\ lowest_sequence_shot \in DOMAIN shots
         /\ Lowest = shots[lowest_sequence_shot]
         /\ \A i \in DOMAIN shots : shots[i].id = Lowest.id => shots[i] = Lowest
         /\ \A i \in DOMAIN shots : shots[i].id \in Nat
         /\ \A i \in DOMAIN shots : have_info(shots[i]) =>
              have_info(Lowest) /\ Lowest.id <= shots[i].id
         /\ \A k \in DOMAIN index : index[k].shot # Lowest.id
         /\ \A k \in DOMAIN index : index[k].shot \in Nat \ {0}
         /\ index \in Seq(Record)
<1>1. shots \in Seq(ShotState) /\ shots # <<>> /\ ShotsInv /\ index \in Seq(Record)
        /\ \A k \in DOMAIN index : index[k].shot # 0
  BY DEF Inv, RecordInv, TypeOK, FlowInv
<1>2. /\ Lowest \in ShotState
      /\ lowest_sequence_shot \in DOMAIN shots
      /\ Lowest = shots[lowest_sequence_shot]
      /\ \A i \in DOMAIN shots : have_info(shots[i]) =>
              have_info(Lowest) /\ Lowest.id <= shots[i].id
  BY <1>1, LowestActive DEF Lowest
<1>3. Made(Lowest)
  BY <1>1, <1>2 DEF ShotsInv
<1>4. /\ \A i \in DOMAIN shots : shots[i].id = Lowest.id => shots[i] = Lowest
      /\ \A k \in DOMAIN index : index[k].shot # Lowest.id
  BY <1>2 DEF Inv, IdInv
<1>5. /\ \A k \in DOMAIN index : index[k] \in Record
      /\ \A i \in DOMAIN shots : shots[i] \in ShotState
  BY <1>1
<1>6. /\ \A k \in DOMAIN index : index[k].shot \in Nat \ {0}
      /\ \A i \in DOMAIN shots : shots[i].id \in Nat
  BY <1>1, <1>5 DEF Record, ShotState
<1>7. Lowest.id \in 1 .. Shots /\ Lowest.id \in Nat
  BY <1>2, <1>3 DEF Made, ShotState
<1> QED
  BY <1>1, <1>2, <1>3, <1>4, <1>6, <1>7

(* A shot that is passed over by the one being indexed has no STREAM_INFO. *)
LEMMA PassedOver ==
  ASSUME Window < 2 * PerShot - 1, Inv, FlowInv, KeepInv, Sound, pc \in Indexing,
         NEW s \in 1 .. Lowest.id - 1, ~Indexed(s)
  PROVE  NoInfo(s)
<1> DEFINE t == Lowest.id
<1>1. NetInv /\ Alive
  BY DEF FlowInv, Sound
<1>2. /\ Lowest \in ShotState /\ Made(Lowest) /\ t \in 1 .. Shots
      /\ \A i \in DOMAIN shots : have_info(shots[i]) =>
              have_info(Lowest) /\ t <= shots[i].id
      /\ \A k \in DOMAIN index : index[k].shot \in Nat \ {0}
  BY <1>1, LowestFacts
<1> HIDE DEF t
<1>3. s \in 1 .. Shots /\ s \in Nat /\ t \in Nat /\ s < t
  <2>1. s \in 1 .. t - 1 /\ Shots \in Nat
    BY Sizes DEF t
  <2> QED
    BY <1>2, <2>1
<1>4. InfoOf(s) \in Packet /\ InfoOf(s) # EndOfRun /\ ShotOf(InfoOf(s)) = s
        /\ InfoOf(s) \in Nat
  BY <1>3, ShotEdges, PacketsOf
<1>5. ASSUME Sent(InfoOf(s)) \in Journaled PROVE FALSE
  <2>1. CASE \E i \in DOMAIN shots : shots[i].id = s /\ InfoOf(s) \in Got(shots[i])
    <3>1. PICK i \in DOMAIN shots : shots[i].id = s /\ InfoOf(s) \in Got(shots[i])
      BY <2>1
    <3>2. t <= s
      BY <1>2, <3>1 DEF have_info
    <3> QED
      BY <1>3, <3>2
  <2>2. CASE \E k \in DOMAIN index : s <= index[k].shot
    <3>1. PICK k \in DOMAIN index : s <= index[k].shot
      BY <2>2
    <3>2. index[k].shot # s /\ index[k].shot \in Nat
      BY <1>2 DEF Indexed
    <3>3. s \in 1 .. index[k].shot - 1
      BY <1>3, <3>1, <3>2
    <3>4. NoInfo(s)
      BY <3>3 DEF KeepInv, PassedInv
    <3> QED
      BY <1>5, <3>4 DEF NoInfo
  <2> QED
    BY <1>4, <1>5, <2>1, <2>2, Placed
<1>6. ASSUME pc \in Taking, InfoOf(s) \in net PROVE FALSE
  <2>1. pc = "index"
    BY <1>6 DEF Taking, Indexing
  <2>2. EndOf(t) \in Got(Lowest)
    BY <2>1 DEF Inv, RecordInv, shot_sequence_complete, have_end, t
  <2>3. PICK d \in Lowest.packets : d.seq = EndOf(t)
    BY <2>2 DEF Got
  <2>4. d \in Journaled
    BY <1>2, <2>3 DEF Made
  <2>5. EndOf(t) <= InfoOf(s) + Window
    BY <1>1, <1>6, <2>3, <2>4 DEF NetInv
  <2> QED
    BY <1>3, <2>5, Reach
<1> QED
  BY <1>5, <1>6 DEF NoInfo

(* A shot that is not broken is whole when its turn comes. *)
LEMMA WholeInTurn ==
  ASSUME Inv, FlowInv, KeepInv, Sound, pc \in Indexing, ~Broken(Lowest.id)
  PROVE  shot_sequence_complete(Lowest)
<1> DEFINE t == Lowest.id
<1>1. /\ Alive /\ t \in 1 .. Shots /\ t \in Nat
      /\ \A i \in DOMAIN shots : shots[i].id = t => shots[i] = Lowest
      /\ \A k \in DOMAIN index : index[k].shot # t
      /\ \A k \in DOMAIN index : index[k].shot \in Nat \ {0}
  BY LowestFacts DEF Sound
<1>2. pc = "index" => shot_sequence_complete(Lowest)
  BY DEF Inv, RecordInv
<1> SUFFICES ASSUME pc = "forced_index" PROVE shot_sequence_complete(Lowest)
  BY <1>2 DEF Indexing
<1>3. ~Lacking(t)
  BY DEF Broken
<1> HIDE DEF t
<1>4. \A n \in InfoOf(t) .. EndOf(t) :
        /\ n \in Packet /\ n # EndOfRun /\ ShotOf(n) = t
        /\ Sent(n) \in Journaled
  <2>1. ASSUME NEW n \in InfoOf(t) .. EndOf(t)
        PROVE  n \in Packet /\ n # EndOfRun /\ ShotOf(n) = t
    BY <1>1, PacketsOf
  <2> QED
    BY <1>3, <2>1 DEF Lacking, Taking
<1>5. InfoOf(t) \in InfoOf(t) .. EndOf(t) /\ EndOf(t) \in InfoOf(t) .. EndOf(t)
        /\ DataOf(t) \subseteq InfoOf(t) .. EndOf(t)
  <2>1. /\ InfoOf(t) \in InfoOf(t) .. EndOf(t) /\ EndOf(t) \in InfoOf(t) .. EndOf(t)
        /\ EndOf(t) = InfoOf(t) + DataPackets + 1 /\ InfoOf(t) \in Nat
        /\ DataOf(t) = InfoOf(t) + 1 .. InfoOf(t) + DataPackets
    BY <1>1, ShotEdges
  <2> QED
    BY <2>1, Sizes
<1>6. ASSUME NEW k \in DOMAIN index, t <= index[k].shot PROVE FALSE
  <2>1. t \in 1 .. index[k].shot - 1 /\ ~Indexed(t)
    BY <1>1, <1>6 DEF Indexed
  <2>2. NoInfo(t)
    BY <2>1 DEF KeepInv, PassedInv
  <2> QED
    BY <1>4, <1>5, <2>2 DEF NoInfo
<1>7. \A n \in InfoOf(t) .. EndOf(t) : n \in Got(Lowest)
  <2>1. ASSUME NEW n \in InfoOf(t) .. EndOf(t) PROVE n \in Got(Lowest)
    <3>1. \E i \in DOMAIN shots : shots[i].id = t /\ n \in Got(shots[i])
      BY <1>4, <1>6, Placed
    <3> QED
      BY <1>1, <3>1
  <2> QED
    BY <2>1
<1> QED
  BY <1>5, <1>7 DEF shot_sequence_complete, have_info, have_end, t

(* The record of a shot blames the shot, or the one before it. *)
LEMMA Verdict ==
  ASSUME Window < 2 * PerShot - 1, Inv, FlowInv, KeepInv, Sound, pc \in Indexing
  PROVE  record.issues = {} \/ Blamed(Lowest.id)
<1> DEFINE t == Lowest.id
<1>1. SUFFICES ASSUME ~Blamed(t) PROVE record.issues = {}
  OBVIOUS
<1>2. ~Broken(t) /\ (t > 1 => ~Broken(t - 1))
  BY <1>1 DEF Blamed
<1>3. shot_sequence_complete(Lowest)
  BY <1>2, WholeInTurn
<1>4. /\ Lowest \in ShotState /\ Made(Lowest) /\ t \in 1 .. Shots /\ t \in Nat
      /\ lowest_sequence_shot \in DOMAIN shots
      /\ Lowest = shots[lowest_sequence_shot]
      /\ \A i \in DOMAIN shots : have_info(shots[i]) => t <= shots[i].id
      /\ \A k \in DOMAIN index : index[k].shot \in Nat \ {0}
      /\ index \in Seq(Record) /\ Alive
      /\ last_shot_id \in Int
  BY LowestFacts DEF Sound, Inv, TypeOK
<1>5. ~Altered(t) /\ have_info(Lowest)
  BY <1>2, <1>3 DEF Broken, shot_sequence_complete
<1>6. AnyInfo
  BY <1>4, <1>5 DEF AnyInfo
<1>7. OrderInv /\ LastInv /\ NetInv
  BY <1>4 DEF KeepInv, FlowInv
<1>8. record.issues = issue_flags(Lowest)
  BY DEF Inv, RecordInv
<1>9. \A k \in DOMAIN index : index[k].shot < t
  BY <1>4, <1>5, <1>7 DEF OrderInv
<1> HIDE DEF t
<1>10. last_shot_id = None \/ last_shot_id < t
  BY <1>7, <1>9 DEF LastInv, Indexed
<1>11. expected_sequence \in {None, InfoOf(t)}
  <2>1. CASE index = <<>>
    BY <1>7, <2>1 DEF LastInv
  <2>2. CASE index # <<>>
    <3>1. Len(index) \in DOMAIN index
      BY <1>4, <2>2
    <3>2. LastShot \in Nat \ {0} /\ LastShot < t
      BY <1>4, <1>9, <3>1 DEF LastShot
    <3>3. /\ \A k \in DOMAIN index : index[k].shot <= LastShot
          /\ expected_sequence = EndOf(LastShot) + 1 \/ Broken(LastShot)
      BY <1>6, <1>7, <2>2 DEF OrderInv
    <3>4. ASSUME LastShot # t - 1 PROVE FALSE
      <4>1. /\ t - 1 \in 1 .. t - 1 /\ LastShot < t - 1 /\ t - 1 \in 1 .. Shots
            /\ t > 1
        BY <1>4, <3>2, <3>4, Sizes
      <4>2. ~Indexed(t - 1)
        BY <1>4, <3>2, <3>3, <4>1 DEF Indexed
      <4>3. NoInfo(t - 1)
        BY <4>1, <4>2, PassedOver DEF t
      <4>4. InfoOf(t - 1) \in Packet /\ InfoOf(t - 1) # EndOfRun
              /\ ShotOf(InfoOf(t - 1)) = t - 1
        BY <4>1, ShotEdges, PacketsOf
      <4>5. Lacking(t - 1)
        BY <4>3, <4>4 DEF NoInfo, Lacking
      <4> QED
        BY <1>2, <4>1, <4>5 DEF Broken
    <3>5. LastShot = t - 1 /\ t > 1 /\ t = LastShot + 1
      BY <1>4, <3>2, <3>4
    <3>6. expected_sequence = EndOf(LastShot) + 1
      BY <1>2, <3>3, <3>5
    <3> QED
      BY <3>2, <3>5, <3>6, Boundaries
  <2> QED
    BY <2>1, <2>2
<1> QED
  BY <1>3, <1>4, <1>5, <1>8, <1>10, <1>11, InPlace DEF t

(* A shot is indexed. *)
LEMMA IndexAccounts ==
  ASSUME Window < 2 * PerShot - 1, Inv, FlowInv, KeepInv, write_index_record
  PROVE  KeepInv'
<1> SUFFICES ASSUME Sound' PROVE KeepInv'
  BY DEF KeepInv
<1> DEFINE t == Lowest.id
           m == lowest_sequence_shot
<1>1. /\ pc \in Indexing /\ shots # <<>>
      /\ record.shot = t /\ index \in Seq(Record)
      /\ pc = "index" => shot_sequence_complete(Lowest)
      /\ DOMAIN index' = 1 .. Len(index) + 1 /\ DOMAIN index = 1 .. Len(index)
      /\ Len(index') = Len(index) + 1 /\ Len(index) \in Nat
      /\ index'[Len(index) + 1] = record
      /\ \A k \in DOMAIN index : index'[k] = index[k]
      /\ expected_sequence' = ExpectedNext
      /\ pc' = IF pc = "index" THEN "ready" ELSE "forced"
      /\ \A i \in DOMAIN shots' : \E j \in DOMAIN shots :
           j # m /\ shots'[i] = shots[j]
      /\ \A j \in DOMAIN shots : j # m => \E i \in DOMAIN shots' : shots'[i] = shots[j]
      /\ UNCHANGED <<network, durable, buffered, inbox, pending, selected,
                     status, pending_overflow>>
  BY IndexEffect
<1>2. UNCHANGED <<net, extras, damaged>> /\ Journaled' = Journaled
        /\ (pc' \in Taking <=> pc \in Taking)
  BY <1>1 DEF network, Journaled, Taking, Indexing
<1>3. Sound
  BY <1>1, <1>2 DEF Sound, Alive, Indexing
<1>4. AccountInv /\ PassedInv /\ OrderInv /\ BlameInv
  BY <1>3 DEF KeepInv
<1>5. /\ \A u \in Int : Broken(u) <=> Broken(u)'
      /\ \A s \in Nat : NoInfo(s) <=> NoInfo(s)'
  BY <1>2 DEF Broken, Lacking, Altered, NoInfo
<1>6. /\ t \in 1 .. Shots /\ t \in Nat /\ m \in DOMAIN shots /\ Lowest = shots[m]
      /\ \A i \in DOMAIN shots : shots[i].id = t => shots[i] = Lowest
      /\ \A i \in DOMAIN shots : shots[i].id \in Nat
      /\ \A i \in DOMAIN shots : have_info(shots[i]) =>
              have_info(Lowest) /\ t <= shots[i].id
      /\ \A k \in DOMAIN index : index[k].shot \in Nat \ {0}
  BY <1>1, <1>3, LowestFacts DEF Sound
<1>7. \A k \in DOMAIN index' : \/ k \in DOMAIN index /\ index'[k] = index[k]
                               \/ k = Len(index) + 1 /\ index'[k] = record
  BY <1>1
<1>8. /\ Len(index) + 1 \in DOMAIN index' /\ index'[Len(index) + 1].shot = t
      /\ \A k \in DOMAIN index : k \in DOMAIN index' /\ index'[k].shot = index[k].shot
  BY <1>1
<1>9. \A j \in DOMAIN shots : j # m => shots[j].id # t
  BY <1>6 DEF Inv, IdInv
<1>10. record.issues = {} \/ Blamed(t)
  BY <1>1, <1>3, Verdict
<1>11. have_info(Lowest) => \A k \in DOMAIN index : index[k].shot < t
  BY <1>4, <1>6 DEF OrderInv
<1>12. \A s \in 1 .. t - 1 : Indexed(s) \/ NoInfo(s)
  BY <1>1, <1>3, PassedOver
<1>13. pc \in Taking => have_info(Lowest) /\ have_end(Lowest)
  BY <1>1 DEF Taking, Indexing, shot_sequence_complete
<1>14. ~have_end(Lowest) /\ have_info(Lowest) => Broken(t)
  BY <1>1, <1>3, WholeInTurn DEF shot_sequence_complete
<1> HIDE DEF t, m
<1>15. AccountInv'
  <2>1. ASSUME NEW n \in Packet, Held(n) PROVE Held(n)'
    <3>1. CASE \E i \in DOMAIN inbox : inbox[i] = Sent(n)
      BY <1>1, <3>1 DEF Held
    <3>2. CASE \E i \in DOMAIN pending : pending[i] = Sent(n)
      BY <1>1, <3>2 DEF Held
    <3>3. CASE \E i \in DOMAIN shots : shots[i].id = ShotOf(n) /\ n \in Got(shots[i])
      <4>1. PICK i \in DOMAIN shots : shots[i].id = ShotOf(n) /\ n \in Got(shots[i])
        BY <3>3
      <4>2. CASE i = m
        <5>1. ShotOf(n) = t
          BY <1>6, <4>1, <4>2 DEF t
        <5>2. ShotOf(n) <= index'[Len(index) + 1].shot
          BY <1>6, <1>8, <5>1
        <5> QED
          BY <1>8, <5>2 DEF Held
      <4>3. CASE i # m
        BY <1>1, <4>1, <4>3 DEF Held, Got
      <4> QED
        BY <4>2, <4>3
    <3>4. CASE \E k \in DOMAIN index : ShotOf(n) <= index[k].shot
      <4>1. PICK k \in DOMAIN index : ShotOf(n) <= index[k].shot
        BY <3>4
      <4>2. k \in DOMAIN index' /\ ShotOf(n) <= index'[k].shot
        BY <1>8, <4>1
      <4> QED
        BY <4>2 DEF Held
    <3> QED
      BY <2>1, <3>1, <3>2, <3>3, <3>4 DEF Held
  <2> QED
    BY <1>2, <1>4, <2>1 DEF AccountInv
<1>16. PassedInv'
  <2>1. \A s : Indexed(s) => \E k \in DOMAIN index' : index'[k].shot = s
    BY <1>8 DEF Indexed
  <2>2. \A k \in DOMAIN index' : \A s \in 1 .. index'[k].shot - 1 :
          Indexed(s) \/ NoInfo(s)
    <3>1. ASSUME NEW k \in DOMAIN index', NEW s \in 1 .. index'[k].shot - 1
          PROVE  Indexed(s) \/ NoInfo(s)
      <4>1. CASE k \in DOMAIN index
        BY <1>4, <1>8, <4>1 DEF PassedInv
      <4>2. CASE k \notin DOMAIN index
        BY <1>7, <1>8, <1>12, <4>2
      <4> QED
        BY <4>1, <4>2
    <3> QED
      BY <3>1
  <2>3. \A k \in DOMAIN index' : \A s \in 1 .. index'[k].shot - 1 : s \in Nat
    <3>1. \A k \in DOMAIN index' : index'[k].shot \in Nat
      BY <1>6, <1>7, <1>8
    <3> QED
      BY <3>1
  <2> QED
    BY <1>5, <2>1, <2>2, <2>3 DEF PassedInv, Indexed
<1>17. AnyInfo' => /\ have_info(Lowest)
                   /\ \A i \in DOMAIN shots' : have_info(shots'[i]) => t < shots'[i].id
  <2>1. \A j \in DOMAIN shots : j # m /\ have_info(shots[j]) =>
          have_info(Lowest) /\ t < shots[j].id
    BY <1>6, <1>9
  <2>2. \A i \in DOMAIN shots' : have_info(shots'[i]) =>
          have_info(Lowest) /\ t < shots'[i].id
    BY <1>1, <2>1
  <2>3. AnyInfo' => \E i \in DOMAIN shots' : have_info(shots'[i])
    BY DEF AnyInfo, have_info, Got
  <2> QED
    BY <2>2, <2>3
<1>18. OrderInv'
  <2>1. ASSUME NEW i \in DOMAIN shots', have_info(shots'[i]),
               NEW k \in DOMAIN index'
        PROVE  index'[k].shot < shots'[i].id
    <3>1. AnyInfo'
      BY <2>1 DEF AnyInfo, have_info, Got
    <3>2. have_info(Lowest) /\ t < shots'[i].id
      BY <1>17, <2>1, <3>1
    <3>3. shots'[i].id \in Nat
      BY <1>1, <1>6
    <3>4. index'[k].shot <= t /\ index'[k].shot \in Nat
      BY <1>6, <1>7, <1>8, <1>11, <3>2
    <3> QED
      BY <1>6, <3>2, <3>3, <3>4
  <2>2. LastShot' = t
    BY <1>1, <1>8 DEF LastShot
  <2>3. ASSUME AnyInfo' \/ pc' \in Taking
        PROVE  /\ \A k \in DOMAIN index' : index'[k].shot <= t
               /\ expected_sequence' = EndOf(t) + 1 \/ Broken(t)
    <3>1. have_info(Lowest)
      BY <1>2, <1>13, <1>17, <2>3
    <3>2. \A k \in DOMAIN index' : index'[k].shot <= t
      BY <1>6, <1>7, <1>8, <1>11, <3>1
    <3>3. have_end(Lowest) => expected_sequence' = EndOf(t) + 1
      BY <1>1 DEF ExpectedNext, t
    <3> QED
      BY <1>14, <3>1, <3>2, <3>3
  <2>4. /\ \A k \in DOMAIN index' : index'[k].shot <= t
        /\ expected_sequence' = EndOf(t) + 1 \/ Broken(t)
        => /\ \A k \in DOMAIN index' : index'[k].shot <= LastShot'
           /\ expected_sequence' = EndOf(LastShot') + 1 \/ Broken(LastShot)'
    BY <1>5, <1>6, <2>2
  <2>5. \A i \in DOMAIN shots' : have_info(shots'[i]) =>
          \A k \in DOMAIN index' : index'[k].shot < shots'[i].id
    BY <2>1
  <2> QED
    BY <2>3, <2>4, <2>5 DEF OrderInv, have_info, Got
<1>19. BlameInv'
  <2>1. \A u \in Nat : Blamed(u) => Blamed(u)'
    BY <1>5 DEF Blamed
  <2>2. \A k \in DOMAIN index' : Complete(index'[k]) \/ Blamed(index'[k].shot)
    BY <1>4, <1>7, <1>8, <1>10 DEF BlameInv, Complete
  <2>3. \A k \in DOMAIN index' : index'[k].shot \in Nat
    BY <1>6, <1>7, <1>8
  <2> QED
    BY <2>1, <2>2, <2>3 DEF BlameInv, Complete
<1> QED
  BY <1>15, <1>16, <1>18, <1>19 DEF KeepInv

(* Nothing has been journaled or indexed at first. *)
LEMMA KeepInit == Init => KeepInv
BY DEF Init, KeepInv, Journaled, AccountInv, PassedInv, OrderInv, AnyInfo,
       BlameInv

(* Every step keeps what is known of the shots passed over.                *)
LEMMA KeepNext ==
  ASSUME Window < 2 * PerShot - 1, Inv, Inv', FlowInv, KeepInv, [Next]_vars
  PROVE  KeepInv'
<1>1. CASE JournalFails \/ IndexFails \/ SelectFails \/ CloseFails \/ Crash
  <2>1. ~Sound'
    BY <1>1 DEF JournalFails, IndexFails, SelectFails, CloseFails, Crash, Fail, Sound, Alive
  <2> QED
    BY <2>1 DEF KeepInv
<1>2. CASE Recording
  BY <1>1, <1>2, IngestKeeps, SelectKeeps, AddKeeps, ControlStepKeeps,
     IndexAccounts DEF Recording
<1>3. CASE Arrive \/ ArriveExtra \/ Lose \/ EndReceive \/ UNCHANGED vars
  BY <1>3, ArriveKeeps, LoseKeeps, ControlStepKeeps
<1> QED
  BY <1>1, <1>2, <1>3 DEF Next

(* At the end a shot that is not broken, and does not follow a broken one, *)
(* is published.                                                           *)
LEMMA Published ==
  ASSUME Inv, FlowInv, KeepInv, Sound, pc = "done",
         NEW s \in 1 .. Shots, ~Blamed(s)
  PROVE  \E i \in DOMAIN index : index[i].shot = s /\ Complete(index[i])
<1>1. QueueInv /\ AccountInv /\ PassedInv /\ BlameInv /\ index \in Seq(Record)
  BY DEF FlowInv, KeepInv, Sound, Inv, TypeOK
<1>2. /\ InfoOf(s) \in Packet /\ InfoOf(s) # EndOfRun
      /\ ShotOf(InfoOf(s)) = s /\ IsInfo(InfoOf(s))
  BY ShotEdges, PacketsOf
<1>3. Sent(InfoOf(s)) \in Journaled
  BY <1>2 DEF Blamed, Broken, Lacking, Taking
<1>4. Held(InfoOf(s))
  BY <1>1, <1>2, <1>3 DEF AccountInv
<1>5. inbox = <<>> /\ shots = <<>>
  BY <1>1 DEF QueueInv, Taking
<1>6. \A i \in DOMAIN pending : pending[i] # Sent(InfoOf(s))
  BY <1>1, <1>2 DEF QueueInv, Announces, Sent
<1>7. PICK k \in DOMAIN index : s <= index[k].shot
  BY <1>2, <1>4, <1>5, <1>6 DEF Held
<1>8. Indexed(s)
  <2>1. SUFFICES ASSUME ~Indexed(s) PROVE FALSE
    OBVIOUS
  <2>2. index[k].shot \in Nat /\ index[k].shot # s
    <3>1. index[k] \in Record
      BY <1>1
    <3> QED
      BY <2>1, <3>1 DEF Record, Indexed
  <2>3. s \in 1 .. index[k].shot - 1
    BY <1>7, <2>2
  <2> QED
    BY <1>1, <1>3, <2>1, <2>3 DEF PassedInv, NoInfo
<1> QED
  BY <1>1, <1>8 DEF BlameInv, Indexed

(* A shot that arrived intact is not broken. *)
LEMMA IntactNotBroken ==
  ASSUME FlowInv, Alive, pc = "done", NEW s \in 1 .. Shots, Intact(s)
  PROVE  ~Broken(s)
<1>1. Journaled = durable
  BY DEF FlowInv, QueueInv, Journaled
<1>2. \A n \in Packet : n # EndOfRun /\ ShotOf(n) = s =>
        n \in InfoOf(s) .. EndOf(s)
  BY ShotOfPacket
<1> QED
  BY <1>1, <1>2 DEF Broken, Lacking, Altered, Intact, Arrived

-----------------------------------------------------------------------------
(* Room for the datagrams that wait for a STREAM_INFO. *)

(* Nothing waits that did not arrive, and without damage the first         *)
(* STREAM_INFO is still under way while the recorder waits for one.        *)
RoomInv ==
  Alive =>
    /\ ~selected => Len(pending) + Len(inbox) <= Cardinality(Packet \ net) + extras
    /\ ~selected /\ damaged = 0 => 0 \in net \/ (inbox # <<>> /\ Announces(inbox[1]))
    /\ MaxPending >= Window + MaxExtras /\ damaged = 0 => ~pending_overflow
    /\ MaxPending >= Cardinality(Packet) + MaxExtras => ~pending_overflow

(* A run is a finite number of packets. *)
LEMMA PacketIsFinite == IsFiniteSet(Packet)
  BY Sizes, FS_Interval DEF Packet

(* How many packets have left the network. *)
LEMMA Gone ==
  ASSUME net \subseteq Packet
  PROVE  /\ Cardinality(Packet \ net) \in Nat /\ Cardinality(Packet) \in Nat
         /\ Cardinality(Packet \ net) <= Cardinality(Packet)
         /\ \A n \in net :
              Cardinality(Packet \ (net \ {n})) = Cardinality(Packet \ net) + 1
<1>1. IsFiniteSet(Packet)
  BY PacketIsFinite
<1>2. /\ IsFiniteSet(Packet \ net) /\ Cardinality(Packet \ net) <= Cardinality(Packet)
  BY <1>1, FS_Subset
<1>3. ASSUME NEW n \in net
      PROVE  Cardinality(Packet \ (net \ {n})) = Cardinality(Packet \ net) + 1
  <2>1. Packet \ (net \ {n}) = (Packet \ net) \cup {n} /\ n \notin Packet \ net
    OBVIOUS
  <2> QED
    BY <1>2, <2>1, FS_AddElement
<1> QED
  BY <1>1, <1>2, <1>3, FS_CardinalityType

(* No more than Window packets can have left it before the first one. *)
LEMMA GoneBeforeFirst ==
  ASSUME NetInv, damaged = 0, 0 \in net
  PROVE  Cardinality(Packet \ net) <= Window
<1>1. \A n \in Packet \ net : Sent(n) \in Journaled /\ Sent(n).seq = n
  BY DEF NetInv, Sent
<1>2. \A n \in Packet \ net : n <= 0 + Window
  BY <1>1 DEF NetInv
<1>3. Packet \ net \subseteq 1 .. Window
  <2>1. SUFFICES ASSUME NEW n \in Packet \ net PROVE n \in 1 .. Window
    OBVIOUS
  <2>2. n \in Nat /\ n <= 0 + Window /\ n # 0
    BY <1>2, <2>1, Sizes
  <2> QED
    BY <2>2, SizesAssumption
<1>4. IsFiniteSet(1 .. Window) /\ Cardinality(1 .. Window) = Window
  BY FS_Interval, SizesAssumption
<1> QED
  BY <1>3, <1>4, FS_Subset

(* A datagram arrives while the recorder waits. *)
LEMMA ArriveRoom ==
  ASSUME FlowInv, RoomInv, Arrive \/ ArriveExtra PROVE RoomInv'
<1> SUFFICES ASSUME Alive' PROVE RoomInv'
  BY DEF RoomInv
<1>1. /\ Alive /\ inbox = <<>> /\ UNCHANGED <<selected, pending, pending_overflow>>
      /\ \E d : inbox' = <<d>>
  BY DEF Arrive, ArriveExtra, Receive, Alive, run
<1>2. NetInv /\ QueueInv /\ net \subseteq Packet /\ extras \in Nat /\ damaged \in Nat
  BY <1>1, SizesAssumption DEF FlowInv, NetInv
<1>3. Len(inbox') = 1 /\ Len(inbox) = 0 /\ inbox' # <<>> /\ Len(pending) \in Nat
  BY <1>1, <1>2 DEF QueueInv
<1>4. Cardinality(Packet \ net) \in Nat
  BY <1>2, Gone
<1>5. CASE Arrive
  <2>1. PICK n \in net :
          /\ net' = net \ {n} /\ UNCHANGED extras
          /\ \/ Receive(Sent(n)) /\ UNCHANGED damaged
             \/ damaged' = damaged + 1
    BY <1>5 DEF Arrive, Damage, InFlight
  <2>2. Cardinality(Packet \ net') = Cardinality(Packet \ net) + 1
    BY <1>2, <2>1, Gone
  <2>3. damaged' = 0 => damaged = 0 /\ inbox' = <<Sent(n)>>
    BY <1>2, <2>1 DEF Receive
  <2>4. 0 \notin net' /\ 0 \in net /\ damaged' = 0 => Announces(inbox'[1])
    <3>1. InfoOf(1) = 0 /\ IsInfo(0)
      <4>1. 1 \in 1 .. Shots /\ InfoOf(1) = 0
        BY Sizes DEF InfoOf
      <4> QED
        BY <4>1, ShotEdges
    <3> QED
      BY <2>1, <2>3, <3>1 DEF Announces, Sent
  <2> QED
    BY <1>1, <1>2, <1>3, <1>4, <2>1, <2>2, <2>3, <2>4 DEF RoomInv
<1>6. CASE ArriveExtra
  <2>1. /\ UNCHANGED net /\ extras' = extras + 1
        /\ damaged' = damaged \/ damaged' = damaged + 1
    BY <1>6 DEF ArriveExtra, Damage
  <2> QED
    BY <1>1, <1>2, <1>3, <1>4, <2>1 DEF RoomInv
<1> QED
  BY <1>5, <1>6

(* The list has room for a datagram that has to wait. *)
LEMMA SaveRoom ==
  ASSUME FlowInv, RoomInv, save_pending PROVE RoomInv'
<1> SUFFICES ASSUME Alive' PROVE RoomInv'
  BY DEF RoomInv
<1>1. /\ Alive /\ ~selected /\ inbox # <<>> /\ inbox' = Tail(inbox)
      /\ UNCHANGED <<network, selected>> /\ ~Announces(Head(inbox))
      /\ IF Len(pending) = MaxPending
         THEN pending_overflow' = TRUE /\ UNCHANGED pending
         ELSE /\ \E d \in Datagram : pending' = Append(pending, d)
              /\ UNCHANGED pending_overflow
  BY DEF save_pending, Ingest, Consumed, Alive, Announces
<1>2. /\ UNCHANGED <<net, extras, damaged>> /\ NetInv /\ QueueInv
      /\ extras \in 0 .. MaxExtras /\ MaxExtras \in Nat /\ MaxPending \in Nat
      /\ net \subseteq Packet /\ Window \in Nat
  BY <1>1, SizesAssumption DEF network, FlowInv, NetInv
<1>3. /\ Head(inbox) = inbox[1] /\ Len(inbox) \in Nat /\ Len(inbox) >= 1
      /\ Len(inbox') = Len(inbox) - 1 /\ Len(pending) \in Nat
      /\ Len(pending') <= Len(pending) + 1 /\ Len(pending') \in Nat
  <2>1. inbox \in Seq(Datagram) /\ pending \in Seq(Datagram)
    BY <1>2 DEF QueueInv
  <2> QED
    BY <1>1, <2>1, TailOf
<1>4. /\ Cardinality(Packet \ net) \in Nat /\ Cardinality(Packet) \in Nat
      /\ Cardinality(Packet \ net) <= Cardinality(Packet)
  BY <1>2, Gone
<1>5. Len(pending) + Len(inbox) <= Cardinality(Packet \ net) + extras
  BY <1>1 DEF RoomInv
<1>6. damaged = 0 => 0 \in net /\ Cardinality(Packet \ net) <= Window
  BY <1>1, <1>2, <1>3, GoneBeforeFirst DEF RoomInv
<1>7. Len(pending') + Len(inbox') <= Cardinality(Packet \ net') + extras'
  BY <1>2, <1>3, <1>4, <1>5
<1>8. MaxPending >= Window + MaxExtras /\ damaged = 0 => Len(pending) # MaxPending
  BY <1>2, <1>3, <1>4, <1>5, <1>6
<1>9. MaxPending >= Cardinality(Packet) + MaxExtras => Len(pending) # MaxPending
  BY <1>2, <1>3, <1>4, <1>5
<1> QED
  BY <1>1, <1>2, <1>6, <1>7, <1>8, <1>9 DEF RoomInv

(* The other steps leave the list alone, or the recorder has its run. *)
LEMMA RoomNext ==
  ASSUME FlowInv, RoomInv, [Next]_vars PROVE RoomInv'
<1> SUFFICES ASSUME Alive' PROVE RoomInv'
  BY DEF RoomInv
<1>1. CASE Lose
  <2>1. /\ \E n \in net : net' = net \ {n}
        /\ damaged' = damaged + 1
        /\ UNCHANGED <<extras, selected, pending, inbox, pending_overflow>> /\ Alive
    BY <1>1 DEF Lose, Damage, InFlight, process, run, audit, Alive
  <2>2. NetInv /\ QueueInv /\ net \subseteq Packet /\ damaged \in Nat /\ extras \in Nat
    BY <2>1, SizesAssumption DEF FlowInv, NetInv
  <2>3. damaged' # 0 /\ Len(pending) \in Nat /\ Len(inbox) \in Nat
    BY <2>1, <2>2 DEF QueueInv
  <2>4. Cardinality(Packet \ net') = Cardinality(Packet \ net) + 1
          /\ Cardinality(Packet \ net) \in Nat
    BY <2>1, <2>2, Gone
  <2> QED
    BY <2>1, <2>2, <2>3, <2>4 DEF RoomInv
<1>2. CASE JournalFails \/ IndexFails \/ SelectFails \/ CloseFails \/ Crash
  BY <1>2 DEF JournalFails, IndexFails, SelectFails, CloseFails, Crash, Fail, Alive
<1>3. CASE Malformed
  <2>1. /\ inbox # <<>> /\ Head(inbox).shape = "malformed" /\ inbox' = Tail(inbox)
        /\ UNCHANGED <<network, selected, pending, pending_overflow>> /\ Alive
    BY <1>3 DEF Malformed, Ingest, Consumed, run, Alive
  <2>2. QueueInv
    BY <2>1 DEF FlowInv
  <2>3. /\ Head(inbox) = inbox[1] /\ Len(inbox) \in Nat /\ Len(inbox) >= 1
        /\ Len(inbox') = Len(inbox) - 1 /\ Len(pending) \in Nat
    BY <2>1, <2>2, TailOf DEF QueueInv
  <2>4. UNCHANGED <<net, extras, damaged>> /\ extras \in Nat
          /\ Cardinality(Packet \ net) \in Nat
    BY <2>1, Gone, SizesAssumption DEF network, FlowInv, NetInv
  <2> QED
    BY <2>1, <2>3, <2>4 DEF RoomInv, Announces
<1>4. CASE select_run \/ Ignored \/ Heartbeat \/ AddPacket
  <2>1. selected' /\ UNCHANGED <<damaged, pending_overflow>> /\ Alive
    <3>1. CASE select_run
      BY <3>1 DEF select_run, network, audit, Alive
    <3>2. CASE Ignored
      BY <3>2 DEF Ignored, network, audit, run, Alive
    <3>3. CASE Heartbeat
      BY <3>3 DEF Heartbeat, network, audit, Alive
    <3>4. CASE AddPacket
      <4>1. /\ selected /\ UNCHANGED <<selected, network, pending_overflow>>
            /\ pc = "run"
        BY <3>4 DEF AddPacket, Ingest, audit
      <4>2. UNCHANGED status
        BY <3>4 DEF AddPacket, Fail, Alive
      <4> QED
        BY <4>1, <4>2 DEF network, Alive
    <3> QED
      BY <1>4, <3>1, <3>2, <3>3, <3>4
  <2> QED
    BY <2>1 DEF RoomInv
<1>5. CASE \/ finalize_ready \/ finalize_remaining \/ EndReceive \/ Close
           \/ write_index_record \/ UNCHANGED vars
  <2>1. UNCHANGED <<net, extras, damaged, inbox, selected, pending,
                    pending_overflow>> /\ Alive
    <3>1. CASE finalize_ready \/ finalize_remaining
      BY <3>1 DEF finalize_ready, finalize_remaining, network, run, audit, Alive,
                  WriteSamples, Fail
    <3>2. CASE EndReceive \/ Close \/ write_index_record
      BY <3>2 DEF EndReceive, Close, write_index_record, network, run, audit, Alive
    <3>3. CASE UNCHANGED vars
      BY <3>3 DEF vars, network, process, run, audit, Alive
    <3> QED
      BY <1>5, <3>1, <3>2, <3>3
  <2> QED
    BY <2>1 DEF RoomInv
<1> QED
  BY <1>1, <1>2, <1>3, <1>4, <1>5, ArriveRoom, SaveRoom DEF Next, Recording

(* At the start nothing waits and nothing has left the network.            *)
LEMMA RoomInit == Init => RoomInv
<1> SUFFICES ASSUME Init PROVE RoomInv
  OBVIOUS
<1>1. net = Packet /\ extras = 0 /\ pending = <<>> /\ inbox = <<>>
        /\ ~pending_overflow
  BY DEF Init
<1>2. 0 \in Packet
  BY Sizes
<1>3. Cardinality(Packet \ net) \in Nat
  BY <1>1, Gone
<1> QED
  BY <1>1, <1>2, <1>3 DEF RoomInv

-----------------------------------------------------------------------------
(* Every reachable state. *)
LEMMA FlowInvariance == Spec => [](Inv /\ FlowInv)
<1>1. Inv /\ FlowInv /\ [Next]_vars => (Inv /\ FlowInv)'
  BY NextInv, FlowNext
<1> QED
  BY <1>1, InitInv, FlowInit, PTL DEF Spec

(* Hence the bound on what waits holds in every reachable state.           *)
LEMMA RoomInvariance == Spec => []RoomInv
<1>1. (Inv /\ FlowInv) /\ RoomInv /\ [Next]_vars => RoomInv'
  BY RoomNext
<1> QED
  BY <1>1, RoomInit, FlowInvariance, PTL DEF Spec

(* The flow of packets and the blame of the index hold together in every   *)
(* reachable state.                                                        *)
LEMMA KeepInvariance ==
  ASSUME Window < 2 * PerShot - 1 PROVE Spec => [](Inv /\ FlowInv /\ KeepInv)
<1>1. (Inv /\ FlowInv) /\ (Inv /\ FlowInv)' /\ KeepInv /\ [Next]_vars => KeepInv'
  BY KeepNext
<1> QED
  BY <1>1, KeepInit, FlowInvariance, PTL DEF Spec

(* A loss costs a shot and the one after it, no more: when no shot is      *)
(* overtaken by the end of the next one, nothing is sent twice and the     *)
(* list of early datagrams did not overflow, a shot that arrived intact    *)
(* after an intact shot is published.                                      *)
THEOREM LossContained ==
  ASSUME Window < 2 * PerShot - 1, MaxExtras = 0
  PROVE  Spec => [](~pending_overflow => LossIsContained)
<1>1. Inv /\ FlowInv /\ KeepInv => (~pending_overflow => LossIsContained)
  <2>1. SUFFICES ASSUME Inv, FlowInv, KeepInv, ~pending_overflow,
                        pc = "done", status = "ok",
                        NEW s \in 2 .. Shots, Intact(s - 1), Intact(s)
                 PROVE  \E i \in DOMAIN index :
                          index[i].shot = s /\ Complete(index[i])
    BY DEF LossIsContained
  <2>2. Alive /\ Sound
    BY <2>1 DEF Sound, Alive, FlowInv, NetInv
  <2>3. s \in 1 .. Shots /\ s - 1 \in 1 .. Shots
    BY <2>1, Sizes
  <2>4. ~Broken(s) /\ ~Broken(s - 1)
    BY <2>1, <2>2, <2>3, IntactNotBroken
  <2> QED
    BY <2>1, <2>2, <2>3, <2>4, Published DEF Blamed
<1> QED
  BY <1>1, KeepInvariance, PTL

(* With room for every packet of the run the list cannot overflow. *)
THEOREM LossContainedSafe ==
  ASSUME Window < 2 * PerShot - 1, MaxExtras = 0,
         MaxPending >= Cardinality(Packet)
  PROVE  Spec => []LossIsContained
<1>1. RoomInv /\ (~pending_overflow => LossIsContained) => LossIsContained
  <2>1. Cardinality(Packet) \in Nat
    BY PacketIsFinite, FS_CardinalityType
  <2>2. MaxPending >= Cardinality(Packet) + MaxExtras
    BY <2>1
  <2> QED
    BY <2>2 DEF RoomInv, LossIsContained, Alive
<1> QED
  BY <1>1, RoomInvariance, LossContained, PTL

(* Reordering within the window and identical copies of packets harm no    *)
(* shot, for any number of shots and packets: with every packet delivered  *)
(* as it was sent, every shot is published.                                *)
THEOREM ReorderingSafe ==
  ASSUME Window < 2 * PerShot - 1, MaxPending >= Window + MaxExtras
  PROVE  Spec => []ReorderingHarmless
<1>1. RoomInv /\ (Inv /\ FlowInv /\ KeepInv) => ReorderingHarmless
  <2>1. SUFFICES ASSUME Inv, FlowInv, KeepInv, RoomInv, pc = "done", net = {},
                        damaged = 0, status = "ok", NEW s \in 1 .. Shots
                 PROVE  \E i \in DOMAIN index :
                          index[i].shot = s /\ Complete(index[i])
    BY DEF ReorderingHarmless
  <2>2. Alive /\ Sound
    BY <2>1 DEF Sound, Alive, RoomInv
  <2>3. \A t : ~Broken(t)
    BY <2>1, <2>2 DEF FlowInv, NetInv, Broken, Lacking, Altered
  <2> QED
    BY <2>1, <2>2, <2>3, Published DEF Blamed
<1> QED
  BY <1>1, RoomInvariance, KeepInvariance, PTL
=============================================================================

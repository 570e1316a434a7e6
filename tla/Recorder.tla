------------------------------ MODULE Recorder ------------------------------
(***************************************************************************)
(* The host recorder (qcrate-recorder): it journals every UDP datagram of  *)
(* one run, reassembles the shots, publishes complete ones to samples.iq16 *)
(* and one record per shot to shots.qidx, and closes with run.json.        *)
(*                                                                         *)
(* The sender numbers its packets from 0: STREAM_INFO, the DATA packets    *)
(* and SHOT_END of each shot in turn, then an END_OF_STREAM heartbeat      *)
(* unless the last SHOT_END carries the flag.  The network loses,          *)
(* duplicates, delays, spoils and mixes in foreign datagrams.  The process *)
(* may be killed between any two file writes.                              *)
(***************************************************************************)
EXTENDS Integers, Sequences, FiniteSets, SequencesExt

CONSTANTS
  Shots,            \* shots the sender transmits
  DataPackets,      \* DATA packets per shot (one frame)
  ShotEndTerminal,  \* the last SHOT_END carries END_OF_STREAM, no heartbeat
  Window,           \* how many packets a packet may overtake
  MaxDamage,        \* bound: packets lost, dropped, altered or malformed
  MaxExtras,        \* bound: duplicated, conflicting and foreign datagrams
  MaxActive,        \* QCRATE_MAX_ACTIVE_SHOTS
  MaxPending,       \* QCRATE_MAX_PENDING_PACKETS
  FlushEvery,       \* journal records between two fflush calls
  Faults            \* what may go wrong

FaultKinds == {"loss", "drop", "alter", "malform", "foreign", "io",
               "interrupt", "crash", "timeout"}

ASSUME SizesAssumption ==
  /\ Shots \in Nat \ {0} /\ DataPackets \in Nat \ {0}
  /\ ShotEndTerminal \in BOOLEAN
  /\ Window \in Nat /\ MaxDamage \in Nat /\ MaxExtras \in Nat
  /\ MaxActive \in Nat \ {0} /\ MaxPending \in Nat /\ FlushEvery \in Nat \ {0}
ASSUME RecorderFaultsAssumption == Faults \subseteq FaultKinds

VARIABLES
  (* the network: packets still to arrive; what it did to them *)
  net, extras, dropped, damaged,
  (* control and outcome of the process *)
  pc, inbox, status, interrupted,
  (* struct run_state *)
  selected, pending, shots, expected_sequence, last_shot_id, terminal,
  malformed_packets, conflicting_packets, pending_overflow, kernel_drops,
  journal_records, sample_offset, record,
  (* the four files: journal in the file and in its buffer, the others *)
  durable, buffered, samples, index, manifest

network == <<net, extras, dropped, damaged>>
process == <<pc, inbox, status, interrupted>>
run     == <<selected, pending, shots, expected_sequence, last_shot_id, terminal>>
audit   == <<malformed_packets, conflicting_packets, pending_overflow,
             kernel_drops>>
journal == <<journal_records, durable, buffered>>
publication == <<sample_offset, record, samples, index, manifest>>

vars == <<network, process, run, audit, journal, publication>>
-----------------------------------------------------------------------------
(* The stream the sender transmits. *)

PerShot  == DataPackets + 2
EndOfRun == Shots * PerShot
Packet   == 0 .. IF ShotEndTerminal THEN EndOfRun - 1 ELSE EndOfRun
ShotOf(n)   == IF n = EndOfRun THEN Shots ELSE n \div PerShot + 1
InfoOf(s)   == (s - 1) * PerShot
EndOf(s)    == s * PerShot - 1
DataOf(s)   == InfoOf(s) + 1 .. EndOf(s) - 1
IsInfo(n)   == n # EndOfRun /\ n = InfoOf(ShotOf(n))
IsEnd(n)    == n = EndOf(ShotOf(n))
IsData(n)   == n \in DataOf(ShotOf(n))
CarriesEndOfStream(n) == ShotEndTerminal /\ n = EndOf(Shots)

(* A datagram: which packet, and in what shape it arrives. *)
Sent(n)    == [seq |-> n, shape |-> "sent"]
Datagram   == [seq : Packet, shape : {"sent", "altered", "malformed", "foreign"}]
None       == -1

(* qcrate_data_packetize: the bytes of a shot, in order. *)
Payload(s) == [i \in 1 .. DataPackets |-> Sent(InfoOf(s) + i)]
-----------------------------------------------------------------------------
(* struct shot_state: the first copy of each packet of one shot. *)

Got(shot)  == {d.seq : d \in shot.packets}
have_info(shot) == InfoOf(shot.id) \in Got(shot)
have_end(shot)  == EndOf(shot.id) \in Got(shot)

(* shot_sequence_complete, and count_missing is zero *)
shot_sequence_complete(shot) ==
  have_info(shot) /\ have_end(shot) /\ DataOf(shot.id) \subseteq Got(shot)

(* DATA packets are skipped when their format disagrees with the missing   *)
(* STREAM_INFO.                                                            *)
data_packets(shot) ==
  IF have_info(shot) THEN {d \in shot.packets : IsData(d.seq)} ELSE {}

(* Sorted by frame and sample offset, which is the sending order; no two   *)
(* packets of a shot have the same number.                                 *)
Assembled(shot) ==
  CHOOSE s \in [1 .. Cardinality(data_packets(shot)) -> data_packets(shot)] :
    \A i, j \in DOMAIN s : i < j => s[i].seq < s[j].seq

(* Only the first DATA packet of a shot carries a timestamp; it increases  *)
(* with the shot.                                                          *)
first_timestamp(shot) ==
  IF \E d \in data_packets(shot) : d.seq = InfoOf(shot.id) + 1
  THEN shot.id ELSE 0

Issue == {"MISSING", "PROTOCOL", "CONFLICT", "TIMESTAMP", "FRAME", "CRC",
          "CONTINUITY"}

(* The checks of finalize_shot, by the issue flag each one raises. *)
Raises(shot, f) ==
  CASE f = "MISSING"   -> ~shot_sequence_complete(shot)
    [] f = "PROTOCOL"  -> ~have_info(shot) \/ ~have_end(shot)
    [] f = "CONFLICT"  -> shot.conflict
    [] f = "TIMESTAMP" -> data_packets(shot) # {} /\ first_timestamp(shot) = 0
    [] f = "FRAME"     -> {d.seq : d \in data_packets(shot)} # DataOf(shot.id)
    [] f = "CRC"       -> have_end(shot) /\ Assembled(shot) # Payload(shot.id)
    [] f = "CONTINUITY" ->
         \/ /\ expected_sequence # None /\ have_info(shot)
            /\ InfoOf(shot.id) # expected_sequence
         \/ /\ last_shot_id # None
            /\ \/ shot.id <= last_shot_id
               \/ first_timestamp(shot) <= last_shot_id

(* Mutants: the shot checksum, or the order of the shots, is not checked. *)
IssuesButCrc(shot) == {f \in Issue \ {"CRC"} : Raises(shot, f)}
IssuesButContinuity(shot) == {f \in Issue \ {"CONTINUITY"} : Raises(shot, f)}
issue_flags(shot) == {f \in Issue : Raises(shot, f)}

(* Mutant: the shot whose first packet came first. *)
OldestActiveShot == 1

(* lowest_sequence_shot: first by STREAM_INFO sequence, position 1 when no *)
(* active shot has one.                                                    *)
lowest_sequence_shot ==
  LET known == {i \in DOMAIN shots : have_info(shots[i])}
  IN  IF known = {} THEN 1
      ELSE CHOOSE i \in known : \A j \in known : shots[i].id <= shots[j].id

Lowest == shots[lowest_sequence_shot]
-----------------------------------------------------------------------------
(* journal_datagram: append, and flush on every FlushEvery-th record.  The *)
(* stdio buffer is also written out whenever it fills.                     *)
journal_datagram(d) ==
  /\ journal_records' = journal_records + 1
  /\ IF journal_records' % FlushEvery = 0
     THEN durable' = durable \cup buffered \cup {d} /\ buffered' = {}
     ELSE \/ durable' = durable /\ buffered' = buffered \cup {d}
          \/ durable' = durable \cup buffered /\ buffered' = {d}

(* One datagram of receive_batch: drop counter, journal, then ingest. *)
Receive(d) ==
  /\ pc = "run" /\ inbox = <<>>
  /\ journal_datagram(d)
  /\ inbox' = <<d>>
  /\ kernel_drops' = dropped
  /\ UNCHANGED <<dropped, pc, status, interrupted, run, malformed_packets,
                 conflicting_packets, pending_overflow, publication>>

(* A packet may be overtaken by the Window packets sent after it. *)
InFlight == {n \in net : \A m \in net : n <= m + Window}
WasSent(n) == \A m \in net : n <= m + Window

Damage == damaged < MaxDamage /\ damaged' = damaged + 1

Arrive ==
  \E n \in InFlight :
    /\ net' = net \ {n}
    /\ \/ Receive(Sent(n)) /\ UNCHANGED damaged
       \/ /\ "alter" \in Faults /\ IsData(n)
          /\ Receive([seq |-> n, shape |-> "altered"])
          /\ Damage
       \/ /\ "malform" \in Faults
          /\ Receive([seq |-> n, shape |-> "malformed"])
          /\ Damage
    /\ UNCHANGED extras

ArriveExtra ==
  /\ extras < MaxExtras
  /\ extras' = extras + 1
  /\ \E n \in {m \in Packet : WasSent(m)} :
       \/ Receive(Sent(n)) /\ UNCHANGED damaged
       \/ /\ "alter" \in Faults /\ IsData(n)
          /\ Receive([seq |-> n, shape |-> "altered"])
          /\ Damage
       \/ /\ "foreign" \in Faults /\ IsData(n)
          /\ Receive([seq |-> n, shape |-> "foreign"])
          /\ UNCHANGED damaged
  /\ UNCHANGED net

(* The journal write itself fails: the run is over. *)
JournalFails ==
  /\ "io" \in Faults /\ pc = "run" /\ inbox = <<>>
  /\ \E n \in InFlight : net' = net \ {n}
  /\ Damage
  /\ status' = "error" /\ pc' = "close"
  /\ UNCHANGED <<extras, dropped, inbox, interrupted, run, audit, journal,
                 publication>>

(* Lost in the network, or dropped by the full socket queue, which the     *)
(* kernel reports with the next datagram.                                  *)
Lose ==
  /\ \E n \in InFlight : net' = net \ {n}
  /\ Damage
  /\ \/ "loss" \in Faults /\ UNCHANGED dropped
     \/ "drop" \in Faults /\ dropped' = TRUE
  /\ UNCHANGED <<extras, process, run, audit, journal, publication>>
-----------------------------------------------------------------------------
(* validate_and_ingest, by the branch taken for the first datagram of the  *)
(* inbox.  An error return ends the run without finalize_remaining.        *)

Ingest(d) == pc = "run" /\ inbox # <<>> /\ d = Head(inbox)
Consumed == inbox' = Tail(inbox)
Fail == status' = "error" /\ pc' = "close"

Malformed ==
  /\ \E d \in Datagram : Ingest(d) /\ d.shape = "malformed"
  /\ Consumed /\ malformed_packets' = TRUE
  /\ UNCHANGED <<network, pc, status, interrupted, run, conflicting_packets,
                 pending_overflow, kernel_drops, journal, publication>>

save_pending ==
  /\ ~selected
  /\ \E d \in Datagram :
       /\ Ingest(d) /\ d.shape # "malformed"
       /\ d.shape = "foreign" \/ ~IsInfo(d.seq)
       /\ IF Len(pending) = MaxPending
          THEN pending_overflow' = TRUE /\ UNCHANGED pending
          ELSE pending' = Append(pending, d) /\ UNCHANGED pending_overflow
  /\ Consumed
  /\ UNCHANGED <<network, pc, status, interrupted, selected, shots,
                 expected_sequence, last_shot_id, terminal, malformed_packets,
                 conflicting_packets, kernel_drops, journal, publication>>

(* select_run, then replay_pending ahead of the STREAM_INFO itself. *)
select_run ==
  /\ ~selected
  /\ \E d \in Datagram : Ingest(d) /\ d.shape = "sent" /\ IsInfo(d.seq)
  /\ selected' = TRUE
  /\ inbox' = pending \o inbox /\ pending' = <<>>
  /\ UNCHANGED <<network, pc, status, interrupted, shots, expected_sequence,
                 last_shot_id, terminal, audit, journal, publication>>

(* The index header cannot be written. *)
SelectFails ==
  /\ "io" \in Faults /\ ~selected
  /\ \E d \in Datagram : Ingest(d) /\ d.shape = "sent" /\ IsInfo(d.seq)
  /\ selected' = TRUE /\ Fail
  /\ UNCHANGED <<network, inbox, interrupted, pending, shots, expected_sequence,
                 last_shot_id, terminal, audit, journal, publication>>

(* The shot is already indexed. *)
Late(n) == n # EndOfRun /\ last_shot_id # None /\ ShotOf(n) <= last_shot_id

(* Another source or run, or a shot that is already indexed: only counted. *)
Ignored ==
  /\ selected
  /\ \E d \in Datagram :
       Ingest(d) /\ (d.shape = "foreign" \/ (d.shape # "malformed" /\ Late(d.seq)))
  /\ Consumed
  /\ UNCHANGED <<network, pc, status, interrupted, run, audit, journal,
                 publication>>

Heartbeat ==
  /\ selected /\ Ingest(Sent(EndOfRun))
  /\ terminal' = [sequence |-> EndOfRun, shot |-> Shots]
  /\ Consumed
  /\ UNCHANGED <<network, pc, status, interrupted, selected, pending, shots,
                 expected_sequence, last_shot_id, audit, journal, publication>>

(* add_packet: keep the first copy of each sequence number. *)
add_packet(shot, d) ==
  IF d.seq \notin Got(shot) THEN [shot EXCEPT !.packets = @ \cup {d}]
  ELSE [shot EXCEPT !.conflict = @ \/ d \notin shot.packets]

(* find_shot or create_shot, add_packet, the END_OF_STREAM flag, and then  *)
(* finalize_ready.                                                         *)
AddPacket ==
  /\ selected
  /\ \E d \in Datagram :
       LET s == ShotOf(d.seq)
           found == {i \in DOMAIN shots : shots[i].id = s}
       IN  /\ Ingest(d) /\ d.shape \in {"sent", "altered"}
           /\ d.seq # EndOfRun /\ ~Late(d.seq)
           /\ \/ /\ found = {} /\ Len(shots) = MaxActive
                 /\ Fail
                 /\ UNCHANGED <<shots, terminal>>
              \/ /\ found = {} /\ Len(shots) < MaxActive
                 /\ shots' = Append(shots, add_packet([id |-> s, packets |-> {},
                                                       conflict |-> FALSE], d))
                 /\ pc' = "ready" /\ UNCHANGED status
              \/ /\ \E i \in found :
                      shots' = [shots EXCEPT ![i] = add_packet(@, d)]
                 /\ pc' = "ready" /\ UNCHANGED status
           /\ IF CarriesEndOfStream(d.seq) /\ pc' = "ready"
                 /\ \A i \in found : ~have_end(shots[i])
              THEN terminal' = [sequence |-> d.seq + 1, shot |-> s]
              ELSE UNCHANGED terminal
  /\ Consumed
  /\ UNCHANGED <<network, interrupted, selected, pending, expected_sequence,
                 last_shot_id, audit, journal, publication>>
-----------------------------------------------------------------------------
Complete(r) == r.issues = {}

(* finalize_shot in two steps: the samples, then the index record. *)

WriteSamples ==
  LET shot == Lowest
      issues == issue_flags(shot)
      data == Assembled(shot)
  IN
  \/ /\ record' = [shot |-> shot.id, issues |-> issues,
                   offset |-> IF issues = {} THEN sample_offset ELSE None,
                   length |-> IF issues = {} THEN Len(data) ELSE 0]
     /\ IF issues = {}
        THEN /\ samples' = samples \o data
             /\ sample_offset' = sample_offset + Len(data)
        ELSE UNCHANGED <<samples, sample_offset>>
     /\ pc' = IF pc = "ready" THEN "index" ELSE "forced_index"
     /\ UNCHANGED status
  \/ /\ "io" \in Faults /\ issues = {}
     /\ \E n \in 0 .. Len(data) : samples' = samples \o SubSeq(data, 1, n)
     /\ Fail
     /\ UNCHANGED <<record, sample_offset>>

(* finalize_ready: publish the lowest shot while it is complete. *)
finalize_ready ==
  /\ pc = "ready"
  /\ \/ /\ shots # <<>> => ~shot_sequence_complete(Lowest)
        /\ pc' = "run"
        /\ UNCHANGED <<status, publication>>
     \/ /\ shots # <<>> /\ shot_sequence_complete(Lowest)
        /\ WriteSamples
        /\ UNCHANGED <<index, manifest>>
  /\ UNCHANGED <<network, inbox, interrupted, run, audit, journal>>

(* Where the next shot must start. *)
ExpectedNext ==
  IF have_end(Lowest) THEN EndOf(Lowest.id) + 1 ELSE expected_sequence

(* write_index_record, the continuity state, remove_and_finalize. *)
write_index_record ==
  /\ pc \in {"index", "forced_index"}
  /\ index' = Append(index, record)
  /\ shots' = RemoveAt(shots, lowest_sequence_shot)
  /\ expected_sequence' = ExpectedNext
  /\ last_shot_id' = IF first_timestamp(Lowest) # 0 THEN Lowest.id
                     ELSE last_shot_id
  /\ conflicting_packets' = (conflicting_packets \/ Lowest.conflict)
  /\ pc' = IF pc = "index" THEN "ready" ELSE "forced"
  /\ UNCHANGED <<network, inbox, status, interrupted, selected, pending,
                 terminal, malformed_packets, pending_overflow, kernel_drops,
                 journal, sample_offset, record, samples, manifest>>

IndexFails ==
  /\ "io" \in Faults /\ pc \in {"index", "forced_index"}
  /\ Fail
  /\ UNCHANGED <<network, inbox, interrupted, run, audit, journal, publication>>

(* receive_run leaves its loop: the grace period after the terminal, the   *)
(* idle or the first-datagram timeout, or a signal.                        *)
EndReceive ==
  /\ pc = "run" /\ inbox = <<>>
  /\ \/ /\ net = {} \/ "timeout" \in Faults
        /\ UNCHANGED interrupted
     \/ "interrupt" \in Faults /\ interrupted' = TRUE
  /\ pc' = "forced"
  /\ UNCHANGED <<network, inbox, status, run, audit, journal, publication>>

(* Mutants: the shots held back are dropped; the loop waits for them to    *)
(* become complete.                                                        *)
FinalizeDrops ==
  /\ pc = "forced" /\ pc' = "close"
  /\ UNCHANGED <<network, inbox, status, interrupted, run, audit, journal,
                 publication>>
FinalizeWaiting ==
  /\ pc = "forced"
  /\ \/ /\ shots = <<>>
        /\ pc' = "close"
        /\ UNCHANGED <<status, publication>>
     \/ /\ shots # <<>> /\ shot_sequence_complete(Lowest)
        /\ WriteSamples
        /\ UNCHANGED <<index, manifest>>
  /\ UNCHANGED <<network, inbox, interrupted, run, audit, journal>>

(* finalize_remaining: publish or quarantine what is left. *)
finalize_remaining ==
  /\ pc = "forced"
  /\ \/ /\ shots = <<>>
        /\ pc' = "close"
        /\ UNCHANGED <<status, publication>>
     \/ /\ shots # <<>>
        /\ WriteSamples
        /\ UNCHANGED <<index, manifest>>
  /\ UNCHANGED <<network, inbox, interrupted, run, audit, journal>>

run_continuity_error ==
  /\ terminal.sequence # None
  /\ \/ expected_sequence = None
     \/ terminal.sequence # expected_sequence
     \/ last_shot_id # None /\ terminal.shot # last_shot_id

clean ==
  /\ status = "ok" /\ selected /\ terminal.sequence # None /\ ~interrupted
  /\ \E i \in DOMAIN index : Complete(index[i])
  /\ \A i \in DOMAIN index : Complete(index[i])
  /\ ~malformed_packets /\ ~conflicting_packets /\ ~kernel_drops
  /\ ~run_continuity_error /\ ~pending_overflow

(* The tail of main: flush, write_manifest, exit. *)
Close ==
  /\ pc = "close" /\ pc' = "done"
  /\ durable' = durable \cup buffered /\ buffered' = {}
  /\ manifest' = IF clean THEN "complete" ELSE "incomplete"
  /\ UNCHANGED <<network, inbox, status, interrupted, run, audit,
                 journal_records, sample_offset, record, samples, index>>

(* A last flush or write_manifest fails: there is no run.json, but a       *)
(* temporary one at most, and the exit status says so.                     *)
CloseFails ==
  /\ "io" \in Faults
  /\ pc = "close" /\ pc' = "done" /\ status' = "error"
  /\ durable' \in {durable, durable \cup buffered} /\ buffered' = {}
  /\ UNCHANGED <<network, inbox, interrupted, run, audit, journal_records,
                 publication>>

(* The process is killed: what stdio still buffers is gone. *)
Crash ==
  /\ "crash" \in Faults /\ pc \notin {"done", "crashed"}
  /\ pc' = "crashed" /\ buffered' = {}
  /\ UNCHANGED <<network, inbox, status, interrupted, run, audit,
                 journal_records, durable, publication>>
-----------------------------------------------------------------------------
Init ==
  /\ net = Packet /\ extras = 0 /\ dropped = FALSE /\ damaged = 0
  /\ pc = "run" /\ inbox = <<>> /\ status = "ok" /\ interrupted = FALSE
  /\ selected = FALSE /\ pending = <<>> /\ shots = <<>>
  /\ expected_sequence = None /\ last_shot_id = None
  /\ terminal = [sequence |-> None, shot |-> None]
  /\ malformed_packets = FALSE /\ conflicting_packets = FALSE
  /\ pending_overflow = FALSE /\ kernel_drops = FALSE
  /\ journal_records = 0 /\ sample_offset = 0
  /\ record = [shot |-> 0, issues |-> {}, offset |-> None, length |-> 0]
  /\ durable = {} /\ buffered = {} /\ samples = <<>> /\ index = <<>>
  /\ manifest = "none"

Recording ==
  \/ Malformed \/ save_pending \/ select_run \/ SelectFails \/ Ignored
  \/ Heartbeat \/ AddPacket \/ finalize_ready \/ write_index_record
  \/ IndexFails \/ finalize_remaining \/ Close \/ CloseFails

Next ==
  \/ Arrive \/ ArriveExtra \/ JournalFails \/ Lose
  \/ Recording \/ EndReceive \/ Crash

Spec == Init /\ [][Next]_vars
-----------------------------------------------------------------------------
(* Properties. *)

(* "Expose sample bytes only for COMPLETE records": the bytes a COMPLETE   *)
(* record points at are the payload the sender transmitted for that shot,  *)
(* whatever was lost, altered, reordered or duplicated, and also when the  *)
(* process is killed or a write fails between samples.iq16 and shots.qidx. *)
(* No shot has two records: late packets do not start it again.            *)
PublishedExact ==
  /\ \A i \in DOMAIN index : Complete(index[i]) =>
       SubSeq(samples, index[i].offset + 1, index[i].offset + index[i].length)
         = Payload(index[i].shot)
  /\ \A i, j \in DOMAIN index : index[i].shot = index[j].shot => i = j

(* `complete: true` accepts a run only when every shot from the first one  *)
(* recorded to the last one sent is COMPLETE: no shot in the middle or at  *)
(* the end can be missing from an accepted run.                            *)
AcceptedRunHasNoGap ==
  manifest = "complete" =>
    \A i \in DOMAIN index : index[i].shot = Shots - Len(index) + i

(* "Reordered packets and byte-identical duplicates ... do not invalidate  *)
(* an otherwise exact shot": with every packet delivered intact before the *)
(* receive loop ends, every shot is published.                             *)
ReorderingHarmless ==
  (pc = "done" /\ net = {} /\ damaged = 0 /\ status = "ok") =>
    \A s \in 1 .. Shots :
      \E i \in DOMAIN index : index[i].shot = s /\ Complete(index[i])

(* What reached the recorder, in the journal file once the run has closed. *)
Arrived(s) == {n \in InfoOf(s) .. EndOf(s) : Sent(n) \in durable}
Intact(s) ==
  /\ Arrived(s) = InfoOf(s) .. EndOf(s)
  /\ \A d \in durable : d.shape = "altered" => ShotOf(d.seq) # s

(* A lost packet costs its own shot and, when the boundary was hit, the    *)
(* next one: a shot that arrived intact right after an intact shot is      *)
(* published although the recorder had to hold it back until the end.      *)
LossIsContained ==
  (pc = "done" /\ status = "ok") =>
    \A s \in 2 .. Shots :
      (Intact(s - 1) /\ Intact(s)) =>
        \E i \in DOMAIN index : index[i].shot = s /\ Complete(index[i])

(* The process is scheduled and writes the files it has started to close. *)
FairSpec == Spec /\ WF_vars(Recording) /\ WF_vars(EndReceive)

(* A recorder that has left its receive loop closes the run: the           *)
(* finalization loops end whatever shots they are left with.               *)
RunCloses == (pc = "forced") ~> (pc = "done")
=============================================================================

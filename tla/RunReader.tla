----------------------------- MODULE RunReader ------------------------------
(***************************************************************************)
(* The readers of a recorded run: RunIndex, which follows a growing run    *)
(* for the analyzer window, and RunBundle, which opens a finished one      *)
(* strictly (qcrate_run.py, qcrate_analyzer.py).  The recorder appends     *)
(* samples, then the index record, and at last renames run.json into       *)
(* place, at any point of the reader's refresh; sender.json comes from the *)
(* tool that started the run.                                              *)
(*                                                                         *)
(* Ordinals count from 0 as in the code.  A complete shot owns one block   *)
(* of the sample file.                                                     *)
(***************************************************************************)
EXTENDS Integers, Sequences, FiniteSets, SequencesExt

CONSTANTS
  Shots,        \* bound: highest shot ID
  WindowSize    \* SHOT_WINDOW_SIZE

ASSUME ReaderAssumption == Shots \in Nat \ {0} /\ WindowSize \in Nat \ {0}

VARIABLES
  (* the run directory and the recorder that fills it *)
  recorder,   \* "run", "index" (samples written), "closed" or "dead"
  header,     \* index header: "none", "run", or "zero" (no shot selected)
  samples,    \* samples.iq16: the shot each block belongs to
  writing,    \* the record being published
  index,      \* shots.qidx: its whole records
  torn,       \* part of one more record is visible
  run_json, sender_json,   \* "none", "complete" or "incomplete"
  (* class RunIndex, the refresh under way, and the analyzer window *)
  catalog, refresh, view

directory == <<recorder, header, samples, writing, index, torn, run_json, sender_json>>
vars == <<directory, catalog, refresh, view>>

None == -1
NoRecord == [id |-> 0, complete |-> FALSE, at |-> 0]
LastId == IF index = <<>> THEN 0 ELSE Last(index).id
-----------------------------------------------------------------------------
(* RunBundle.health: the counts of a list of records.  The skipped shots   *)
(* are the IDs between neighbours.                                         *)

Skips(records) ==
  UNION {records[i].id + 1 .. records[i + 1].id - 1 : i \in 1 .. Len(records) - 1}
Counted(records) ==
  [complete   |-> Cardinality({i \in DOMAIN records : records[i].complete}),
   incomplete |-> Cardinality({i \in DOMAIN records : ~records[i].complete}),
   skipped    |-> Cardinality(Skips(records))]

(* Mutant: a failed sender does not fail the run. *)
HealthIgnoringSender(counts, manifest, sender) ==
  IF counts.incomplete + counts.skipped > 0 THEN "failed"
  ELSE IF manifest = "none" THEN "recording"
  ELSE IF manifest = "complete" THEN "accepted" ELSE "failed"
(* _build_health: failed beats recording beats accepted. *)
HealthState(counts, manifest, sender) ==
  IF counts.incomplete + counts.skipped > 0 \/ sender = "incomplete" THEN "failed"
  ELSE IF manifest = "none" THEN "recording"
  ELSE IF manifest = "complete" THEN "accepted" ELSE "failed"

(* RunBundle.open and health, on a run whose recorder has closed. *)
RunBundleHealth ==
  [state |-> HealthState(Counted(index), run_json, sender_json),
   counts |-> Counted(index)]

(* RunBundle.open refuses a torn index, shot IDs out of order and records  *)
(* beyond the sample file.                                                 *)
RunBundleOpens ==
  /\ header # "none" /\ ~torn
  /\ \A i \in 1 .. Len(index) - 1 : index[i].id < index[i + 1].id
  /\ \A i \in DOMAIN index : index[i].complete => index[i].at <= Len(samples)
-----------------------------------------------------------------------------
(* RunIndex.__init__ *)
NewCatalog ==
  [open |-> FALSE, run_id |-> FALSE, record_count |-> 0, scanned |-> 0,
   counts |-> Counted(<<>>), previous_id |-> 0, previous_sample_end |-> 0,
   manifest |-> "none", sender |-> "none"]
NoRefresh ==
  [pc |-> "idle", opening |-> FALSE, old_count |-> 0, torn |-> FALSE,
   samples |-> 0, next |-> 0, changed |-> FALSE]
(* The application before a run is loaded: shown is the record in the      *)
(* figure and payload its samples, metadata the record the table beside it *)
(* describes; failure is why the last refresh raised.                      *)
NewView ==
  [selected |-> None, start |-> 0, stop |-> 0, job |-> None, shown |-> None,
   payload |-> None, metadata |-> None,
   health |-> [state |-> "none", counts |-> Counted(<<>>)], failure |-> "none"]

Init ==
  /\ recorder = "run" /\ header = "none" /\ samples = <<>> /\ writing = NoRecord
  /\ index = <<>> /\ torn = FALSE /\ run_json = "none" /\ sender_json = "none"
  /\ catalog = NewCatalog /\ refresh = NoRefresh /\ view = NewView

reader == <<catalog, refresh, view>>
-----------------------------------------------------------------------------
(* The recorder.  The index header follows the first valid STREAM_INFO. *)
SelectRun ==
  /\ recorder = "run" /\ header = "none"
  /\ header' = "run"
  /\ UNCHANGED <<recorder, samples, writing, index, torn, run_json, sender_json, reader>>

(* publish_shot: samples first ... *)
PublishSamples ==
  /\ recorder = "run" /\ header = "run"
  /\ \E id \in LastId + 1 .. Shots, complete \in BOOLEAN :
       IF complete
       THEN /\ samples' = Append(samples, id)
            /\ writing' = [id |-> id, complete |-> TRUE, at |-> Len(samples')]
       ELSE samples' = samples /\ writing' = [NoRecord EXCEPT !.id = id]
  /\ recorder' = "index"
  /\ UNCHANGED <<header, index, torn, run_json, sender_json, reader>>

(* ... then the index record; a reader may see the first part of one that  *)
(* spans two pages.                                                        *)
PublishPart ==
  /\ recorder = "index" /\ ~torn
  /\ torn' = TRUE
  /\ UNCHANGED <<recorder, header, samples, writing, index, run_json, sender_json, reader>>
PublishRecord ==
  /\ recorder = "index"
  /\ recorder' = "run" /\ torn' = FALSE
  /\ index' = Append(index, writing)
  /\ writing' = NoRecord
  /\ UNCHANGED <<header, samples, run_json, sender_json, reader>>

(* write_manifest: complete only if every shot is and no ID was skipped. *)
CloseRun ==
  /\ recorder = "run"
  /\ recorder' = "closed"
  /\ header' = IF header = "none" THEN "zero" ELSE header
  /\ run_json' \in {"complete", "incomplete"}
  /\ run_json' = "complete" =>
       /\ index # <<>> /\ Skips(index) = {}
       /\ \A i \in DOMAIN index : index[i].complete
  /\ UNCHANGED <<samples, writing, index, torn, sender_json, reader>>

RecorderDies ==
  /\ recorder \in {"run", "index"}
  /\ recorder' = "dead"
  /\ UNCHANGED <<header, samples, writing, index, torn, run_json, sender_json, reader>>

(* atomic_json of the tool that ran the sender. *)
SenderReports ==
  /\ sender_json = "none"
  /\ sender_json' \in {"complete", "incomplete"}
  /\ UNCHANGED <<recorder, header, samples, writing, index, torn, run_json, reader>>
-----------------------------------------------------------------------------
(* load_run of a new path (RunIndex.open), and periodic_refresh. *)
OpenRun ==
  /\ refresh.pc = "idle" /\ ~catalog.open
  /\ catalog' = NewCatalog
  /\ refresh' = [NoRefresh EXCEPT !.pc = "index", !.opening = TRUE]
  /\ UNCHANGED <<directory, view>>
PeriodicRefresh ==
  /\ refresh.pc = "idle" /\ catalog.open
  /\ refresh' = [NoRefresh EXCEPT !.pc = "index", !.old_count = catalog.record_count]
  /\ UNCHANGED <<directory, catalog, view>>

(* refresh: the size of the index, then its header. *)
StatIndex ==
  /\ refresh.pc = "index"
  /\ IF header = "none"
     THEN refresh' = [refresh EXCEPT !.pc = "show"] /\ UNCHANGED catalog
     ELSE /\ refresh' = [refresh EXCEPT !.pc = "samples", !.torn = torn,
                           !.changed = Len(index) # catalog.record_count]
          /\ catalog' = [catalog EXCEPT !.record_count = Len(index),
                                        !.run_id = header = "run"]
  /\ UNCHANGED <<directory, view>>

(* ... the size of the sample file ... *)
StatSamples ==
  /\ refresh.pc = "samples"
  /\ refresh' = [refresh EXCEPT !.pc = "scan", !.samples = Len(samples),
                                !.next = catalog.scanned]
  /\ UNCHANGED <<directory, catalog, view>>

(* A refresh that raises with the catalog c: an opening one closes it.     *)
Raise(error, c) ==
  /\ refresh' = NoRefresh
  /\ catalog' = IF refresh.opening THEN NewCatalog ELSE c
  /\ view' = [view EXCEPT !.failure = error]
  /\ UNCHANGED directory

(* ... the new records one by one (a scan is at most one batch of 4096):   *)
(* ID order, an extent inside the sample file and behind the one before,   *)
(* then the counts.  Records accumulated before one that raises stay in    *)
(* the counts, and so does the gap before one whose extent is bad ...      *)
RecordValid(shot) ==
  /\ shot.id > catalog.previous_id
  /\ shot.complete => /\ shot.at <= refresh.samples
                      /\ catalog.previous_sample_end < shot.at
SkippedTo(c, shot) ==
  IF c.previous_id = 0 THEN c.counts.skipped
  ELSE c.counts.skipped + shot.id - c.previous_id - 1
_accumulate(c, shot) ==
  [c EXCEPT
     !.previous_id = shot.id,
     !.previous_sample_end = IF shot.complete THEN shot.at ELSE @,
     !.counts.complete = IF shot.complete THEN @ + 1 ELSE @,
     !.counts.incomplete = IF shot.complete THEN @ ELSE @ + 1,
     !.counts.skipped = SkippedTo(c, shot)]

ScanRecord ==
  /\ refresh.pc = "scan" /\ refresh.next < catalog.record_count
  /\ LET shot == index[refresh.next + 1]
     IN  IF RecordValid(shot)
         THEN /\ catalog' = _accumulate(catalog, shot)
              /\ refresh' = [refresh EXCEPT !.next = @ + 1]
              /\ UNCHANGED <<directory, view>>
         ELSE Raise("records",
                    IF shot.id <= catalog.previous_id THEN catalog
                    ELSE [catalog EXCEPT !.previous_id = shot.id,
                            !.counts.skipped = SkippedTo(catalog, shot)])

(* Mutant: the records found by the last refresh are scanned again. *)
EndScanForgetting ==
  /\ refresh.pc = "scan" /\ refresh.next = catalog.record_count
  /\ refresh' = [refresh EXCEPT !.pc = IF catalog.run_id THEN "manifest" ELSE "check"]
  /\ UNCHANGED <<directory, catalog, view>>

(* ... and only when all are in does refresh remember how far it got ...   *)
EndScan ==
  /\ refresh.pc = "scan" /\ refresh.next = catalog.record_count
  /\ catalog' = [catalog EXCEPT !.scanned = catalog.record_count]
  /\ refresh' = [refresh EXCEPT !.pc = IF catalog.run_id THEN "manifest" ELSE "check"]
  /\ UNCHANGED <<directory, view>>

(* ... run.json and sender.json when their signatures changed ... *)
ReadManifest ==
  /\ refresh.pc = "manifest"
  /\ catalog' = [catalog EXCEPT !.manifest = run_json]
  /\ refresh' = [refresh EXCEPT !.pc = "sender",
                                !.changed = @ \/ run_json # catalog.manifest]
  /\ UNCHANGED <<directory, view>>
ReadSender ==
  /\ refresh.pc = "sender"
  /\ catalog' = [catalog EXCEPT !.sender = sender_json]
  /\ refresh' = [refresh EXCEPT !.pc = "check",
                                !.changed = @ \/ sender_json # catalog.sender]
  /\ UNCHANGED <<directory, view>>

(* ... and a complete run must not end in part of a record. *)
CheckTail ==
  /\ refresh.pc = "check"
  /\ IF catalog.manifest = "complete" /\ refresh.torn THEN Raise("truncated", catalog)
     ELSE /\ refresh' = [refresh EXCEPT !.pc = "show"]
          /\ UNCHANGED <<directory, catalog, view>>
-----------------------------------------------------------------------------
(* The analyzer window. *)

MaxOf(a, b) == IF a > b THEN a ELSE b
MinOf(a, b) == IF a < b THEN a ELSE b

(* select_record: the record is marked and its display scheduled, which    *)
(* cancels the display scheduled before.                                   *)
Select(v, ordinal) == [v EXCEPT !.selected = ordinal, !.job = ordinal]

(* Mutant: the window is centred without regard to the last record. *)
WindowPastEnd(v, ordinal, count) ==
  LET start == MaxOf(0, ordinal - WindowSize \div 2)
  IN  Select([v EXCEPT !.start = start, !.stop = start + WindowSize], ordinal)

populate_shot_window(v, ordinal, count) ==
  LET start == MaxOf(0, MinOf(ordinal - WindowSize \div 2, count - WindowSize))
  IN  Select([v EXCEPT !.start = start, !.stop = MinOf(count, start + WindowSize)],
             ordinal)

InWindow(v, ordinal) == v.start <= ordinal /\ ordinal < v.stop

select_record(v, ordinal, count) ==
  IF InWindow(v, ordinal) THEN Select(v, ordinal)
  ELSE populate_shot_window(v, ordinal, count)

(* Mutant: the window is refreshed only when the number of records grew. *)
ShowHealthOfNewRecords(v, c, old) ==
  IF old = c.record_count /\ c.record_count > 0 THEN v
  ELSE [v EXCEPT !.health = [state |-> HealthState(c.counts, c.manifest, c.sender),
                             counts |-> c.counts],
                 !.failure = "none"]

(* update_health, with run_summary *)
update_health(v, c, old) ==
  [v EXCEPT !.health = [state |-> HealthState(c.counts, c.manifest, c.sender),
                        counts |-> c.counts],
            !.failure = "none"]

(* The rest of load_run: health first, then the selection, which follows   *)
(* the newest record if it was on the newest one before.                   *)
ShowRun ==
  LET count   == catalog.record_count
      before  == IF refresh.opening THEN NewView ELSE view
      follows == view.selected # None /\ refresh.old_count > 0
                   /\ view.selected = refresh.old_count - 1
      target  == IF ~follows /\ before.selected # None /\ before.selected < count
                 THEN before.selected ELSE count - 1
      shown   == update_health(before, catalog, refresh.old_count)
  IN  /\ refresh.pc = "show"
      /\ refresh' = NoRefresh
      /\ catalog' = [catalog EXCEPT !.open = TRUE]
      /\ view' = IF (refresh.changed \/ refresh.opening) /\ count > 0
                   /\ (follows \/ refresh.opening \/ ~InWindow(shown, target))
                 THEN populate_shot_window(shown, target, count) ELSE shown
      /\ UNCHANGED directory

(* on_select and move_selection *)
SelectShot(ordinal) ==
  /\ refresh.pc = "idle" /\ catalog.open
  /\ ordinal \in 0 .. catalog.record_count - 1 /\ ordinal # view.selected
  /\ view' = select_record(view, ordinal, catalog.record_count)
  /\ UNCHANGED <<directory, catalog, refresh>>

(* find_shot_id: binary search in the catalog. *)
low(n, id) ==
  LET search[range \in (0 .. n) \X (0 .. n)] ==
        LET middle == (range[1] + range[2]) \div 2
        IN  IF range[1] >= range[2] THEN range[1]
            ELSE IF index[middle + 1].id < id THEN search[<<middle + 1, range[2]>>]
            ELSE search[<<range[1], middle>>]
  IN  search[<<0, n>>]
find_shot_id(id) ==
  LET n == catalog.record_count
  IN  IF low(n, id) < n /\ index[low(n, id) + 1].id = id THEN low(n, id) ELSE None

(* jump_to_shot; an absent shot changes the status line only. *)
JumpToShot(id) ==
  /\ refresh.pc = "idle" /\ catalog.open
  /\ LET ordinal == find_shot_id(id)
     IN  ordinal # None /\ view' = select_record(view, ordinal, catalog.record_count)
  /\ view' # view
  /\ UNCHANGED <<directory, catalog, refresh>>

(* display_record and read_samples: figure and table together; an          *)
(* incomplete shot shows its issues.                                       *)
DisplayRecord ==
  /\ refresh.pc = "idle" /\ view.job # None
  /\ LET shot == index[view.job + 1]
     IN  view' = [view EXCEPT !.job = None, !.shown = view.job, !.metadata = view.job,
                    !.payload = IF shot.complete THEN samples[shot.at] ELSE None]
  /\ UNCHANGED <<directory, catalog, refresh>>

(* Mutant: the table is cleared only when there are rows to put into it. *)
AnalysisFailsKeepingRows ==
  /\ refresh.pc = "idle" /\ view.job # None
  /\ index[view.job + 1].complete
  /\ view' = [view EXCEPT !.job = None]
  /\ UNCHANGED <<directory, catalog, refresh>>
(* The except of display_record: analyze_shot, called for a complete shot  *)
(* only, may raise (the payload format, a profile that no longer resolves, *)
(* a read that fails).  The table is cleared by then; the figure is not.   *)
AnalysisFails ==
  /\ refresh.pc = "idle" /\ view.job # None
  /\ index[view.job + 1].complete
  /\ view' = [view EXCEPT !.job = None, !.metadata = None]
  /\ UNCHANGED <<directory, catalog, refresh>>

ReaderStep ==
  \/ StatIndex \/ StatSamples \/ ScanRecord \/ EndScan
  \/ ReadManifest \/ ReadSender \/ CheckTail \/ ShowRun

Next ==
  \/ SelectRun \/ PublishSamples \/ PublishPart \/ PublishRecord
  \/ CloseRun \/ RecorderDies \/ SenderReports
  \/ OpenRun \/ PeriodicRefresh \/ ReaderStep
  \/ DisplayRecord \/ AnalysisFails
  \/ \E ordinal \in 0 .. Shots - 1 : SelectShot(ordinal)
  \/ \E id \in 1 .. Shots : JumpToShot(id)

Spec == Init /\ [][Next]_vars

(* The event loop of the window runs: refreshes begin (follow is on), go   *)
(* on, and the scheduled display fires.                                    *)
Fairness ==
  /\ WF_vars(PeriodicRefresh) /\ WF_vars(ReaderStep)
  /\ WF_vars(DisplayRecord \/ AnalysisFails)

FairSpec == Spec /\ Fairness
-----------------------------------------------------------------------------
(* Between refreshes the running counts of the catalog are those of the    *)
(* records it knows of, each counted once, although records appear between *)
(* their steps and a refresh may end in the error of a truncated index;    *)
(* the order in which refresh looks at the files lets no good record fail. *)
CountsAreExact ==
  /\ view.failure # "records"
  /\ refresh.pc = "idle" =>
       catalog.counts = Counted(SubSeq(index, 1, catalog.record_count))

(* The record that is selected is listed and in the catalog.  Once its     *)
(* display is done, the table describes it or is empty, the latter only if *)
(* its analysis can have failed.  A table that is not empty describes the  *)
(* shot in the figure: one that an analysis failed to replace stands       *)
(* beside an empty table.  What the figure shows are the samples published *)
(* for exactly its shot, none for an incomplete one.                       *)
ViewIsConsistent ==
  /\ view.selected # None =>
       /\ InWindow(view, view.selected) /\ view.stop <= catalog.record_count
       /\ view.job = None =>
            \/ view.metadata = view.selected
            \/ view.metadata = None /\ index[view.selected + 1].complete
  /\ view.metadata # None => view.metadata = view.shown
  /\ view.shown # None =>
       LET shot == index[view.shown + 1]
       IN  view.payload = IF shot.complete THEN shot.id ELSE None

(* A run the window calls accepted has a manifest that accepts it, only    *)
(* complete records without a skipped shot, and no report of a failed      *)
(* sender unless the next refresh is still to read it.                     *)
AcceptedIsTrue ==
  view.health.state = "accepted" =>
    /\ run_json = "complete"
    /\ Counted(index).incomplete = 0 /\ Counted(index).skipped = 0
    /\ catalog.sender # "incomplete"
       \/ refresh.pc \in {"check", "show"} \/ view.failure = "truncated"

Closed == recorder = "closed" /\ header = "run" /\ sender_json # "none"

(* Once the recorder has closed and the sender reported, an open window    *)
(* ends up with the health the strict reader computes from the files, even *)
(* if a refresh saw the index before and the manifest after the close.  A  *)
(* run in which no shot was ever selected is excepted: its header carries  *)
(* no run ID, and RunIndex reads no report without one.                    *)
CatchesUp ==
  (Closed /\ catalog.open) ~> (RunBundleOpens /\ view.health = RunBundleHealth)
=============================================================================

# Formal models of Q-Crate

Q-Crate captures finite bursts ("shots") of IQ samples on a KV260 board and
records them on a host. This directory holds TLA+ models of the parts that
decide whether a shot is captured, kept, transported and published correctly,
the TLC configurations that check them on small instances, and TLAPS proofs of
the central results for every instance.

    sequencer --trigger--> stream engine --AXIS--> S2MM DMA --> banks in memory
    (PL)                   (PL)                                     |
       ^  commands, status and configuration cross two clocks       | qcrate_dma
       |                                                            v (kernel)
    R5 firmware <--RPMsg-- Linux control tools          streamer (2 threads)
                                                                    | UDP
                                                                    v
                               analyzer, acceptance <-- files -- recorder

    sequence compiler, profiles --> experiment, sweep, soak tools, which start a
    recorder process here and a sender on the board and judge what they leave

## Inventory

| Component | State | Operations | What is hard | What makes it correct |
|---|---|---|---|---|
| Bank pool of `qcrate_dma.c` | bank states, generations, sequences, ownership counters, run flags, event word, `capture_lock` | `POOL_START`, `DEQUEUE`, `RELEASE`, `STOP`, `STATUS`, open, close, worker thread, DMA callback | worker, ioctls, callback and hardware interleave; waits time out; close after a failed stop | banks have one owner, unread data survives, tokens cannot be replayed, shots come in order, STOP and rearm always happen |
| Triggered and synchronous capture of `qcrate_dma.c` | `triggered_active`, `completion`, buffer | `CAPTURE`, `ARM`, `WAIT`, `CANCEL`, close | `WAIT` sleeps without the lock; one completion shared by four callers | the buffer is given up only when nothing writes to it; a completion belongs to its transfer |
| Stream engine (PL) | armed, busy, trigger and frame counters | start, arm, abort, soft reset, trigger | abort and reset racing a trigger | never stops inside a packet; every trigger is taken or counted |
| CDC handshake and the crossings built on it | request and acknowledge stages, data registers | send, accept | unrelated clocks | one bundle at a time, whole and once, and the source gets free again |
| Registers, interrupt controller, sequence engine, DSP configuration (PL) | shadow and active registers, sticky bits | APB accesses, commit, load, arm, start, abort | event and clear in one cycle, configuration changed under a running sequence | an event is never lost; active configuration changes only at a commit |
| R5 RPMsg service | staged configuration, sequence state | validate, commit, recover, load, arm, start, abort | shares the stream registers with the Linux driver | a commit is all or nothing |
| Linux RPMsg client | request in flight | request, retry | late replies | a reply answers its own request |
| Linux streamer | bounded queue between two threads | push, pop, finish, fail | one thread fails while the other waits | no deadlock, every bank is released, the stream ends with END_OF_STREAM |
| Data-plane codecs | none (pure) | encode, decode, packetize | boundaries | decode inverts encode; packets tile the shot |
| Host recorder | active shots, continuity state, four files | receive, journal, reassemble, publish, close | loss, reordering, duplicates, alteration, kill between two writes, resource limits | published bytes are exact, one record per shot, an accepted run has no gap |
| Sequence compiler | a document, an image file | compile, write | pulses that touch or overlap by a tick; a kill while writing | the image plays the document; the output is never half an image |
| Experiment profiles | profile, resolved file, target configuration | compile, load, apply, load sequence | rounding; files edited or recompiled apart | a run uses what its identity was computed from |
| Python receiver | one assembler, journal, bundle | receive, time out, write bundle, replay | order, loss, duplicates, three timers, a kill | the verdict depends on what arrived, and the bundle agrees with it |
| Run reader and analyzer | catalog of a growing run, window | refresh, select, jump, display | every file changes between two accesses | counts, selection, samples and verdict are those of the files |
| Experiment, sweep, sweep acceptance, soak | plan, run directories, verdicts, child processes | run, resume, preserve, verify, stop | killed tools leave recorders and senders; directories are renamed under them | a verdict is earned; a directory holds its own run; resume finishes |
| DSP datapath and reference model; build, boot and network scripts | numeric, or none at run time | | | not modelled |

`PROJECT.json` lists the hazards line by line, with the property that covers each.

## Modules

| Module | Models | Checked by |
|---|---|---|
| `StreamSource` | the stream engine and the S2MM channel as the driver sees them | through its users |
| `DmaPool` | the pool part of the driver | `DmaPoolFaults`, `DmaPoolLive` |
| `ShotQueue` | abstract: the queue of numbered shots the pool promises | refined by `DmaPool` |
| `DmaPoolProofs` | theorems about `DmaPool`: banks and transfers, counters and tokens, the refinement of `ShotQueue` | tlapm |
| `TriggeredCapture` | the one-transaction calls of the driver | `TriggeredFaults`, `TriggeredClose` |
| `Streamer` | the sustained mode of `qcrate_streamer.c` on a pool reduced to its ioctls | `Streamer` |
| `StreamerProofs` | theorems about `Streamer` | tlapm |
| `Recorder` | the host recorder, its network and its files | `RecorderFaults`, `RecorderOrder` |
| `RecorderProofs` | theorems about `Recorder` | tlapm |
| `CdcHandshake` | `qcrate_cdc_handshake.sv`, edge by edge | `CdcHandshake` |
| `Mailbox` | abstract: a one-place mailbox | refined by `CdcHandshake` |
| `BoardProofs` | theorems about `TriggeredCapture` and about `CdcHandshake`, which share nothing | tlapm |
| `SequenceCompiler` | `qcrate_sequence.py`: compilation as operators, the atomic write as actions | `Profile` |
| `ExperimentProfile` | `qcrate_profile.py` and the launch of one run; extends `SequenceCompiler` | `Profile` |
| `ProfileProofs` | theorems about `SequenceCompiler` and `ExperimentProfile` | tlapm |
| `MCProfile` | the documents and profiles of the small instance | `Profile` |
| `Receiver` | `qcrate_receiver.py` and `qcrate_data_protocol.py` | `Receiver` |
| `ReceiverProofs` | theorems about `Receiver` | tlapm |
| `RunReader` | `qcrate_run.py` and the window of `qcrate_analyzer.py`, beside a recorder that appends | `RunReader` |
| `RunReaderProofs` | theorems about `RunReader` | tlapm |
| `Campaign` | the experiment, sweep, acceptance and soak tools with their processes | `Campaign` |
| `CampaignProofs` | theorems about `Campaign` | tlapm |

Names follow the source (`discard_ready` is `qcrate_pool_discard_ready_locked`).
A definition commented "Mutant" is a wrong version of the definition that
follows it; no specification uses it. It shows, when put in the
place of the right one, that the properties would notice that mistake.

### DmaPool

The variables are the pool fields of `struct qcrate_dma_dev`, the hardware state
of `StreamSource`, what each bank holds (`buffer`, a shot number or 0 for the
poison or the discard pattern) and where each call is.

*Grain of atomicity.* Under `capture_lock` the driver is atomic towards other
lock holders but not towards the hardware. A path that touches the hardware
repeatedly is therefore split at every touch: arming a bank is `ArmAccount`
(read `MISSED_TRIGGERS`), `ArmReset`, `ArmIssue`, then `ArmConfirmed` or
`ArmTimeout`; draining is `DrainAbort`, `DrainWait` or `DrainTimeout`,
`DrainCheck`, `DrainReset`. Both run on behalf of the worker or of
`POOL_START`. The worker takes the event word before it takes the lock, as in
the code. `RELEASE` and `STOP` have an unlocked tail of their own.

*Faults.* `Faults` says which waits and provider calls may go wrong: the reset
poll, the preparation of descriptors, the armed poll, the drain wait, the status
poll, the DMA result. A poll also fails without a fault when what it polls for
does not come; in particular a trigger between `ARM_TRIGGERED` and the first
poll makes the arm time out.

*Abstraction.* The geometry checks and byte counters are left out. A status
read returns the current state: register accesses take microseconds, the
crossings nanoseconds. Generation wrap-around (2^32 arms) is out of range.

### TriggeredCapture

The pool is idle; one call of each kind may be inside the driver. `completion`
counts like `struct completion`. `WAIT` is `WaitBegin`, `WaitWoken` (it may take
a completion that belongs to a later transaction), then `WaitInterrupted` or
`WaitRelock`. `CANCEL`, close, a failed `ARM` and a `WAIT` with bad evidence all
run the `Cancel...` steps.

### Recorder

A packet is its sequence number; a datagram adds the shape it arrives in
(`sent`, `altered` payload, `malformed` header, `foreign` source or run). The
network may let a packet be overtaken by the `Window` packets sent after it, may
lose or spoil `MaxDamage` packets and add `MaxExtras` datagrams. Each action is
one branch of `validate_and_ingest`, one round of `finalize_ready` or
`finalize_remaining`, or one file write: publication is `WriteSamples`, then
`write_index_record`, with a crash or a write error possible between them. The
checks of `finalize_shot` are the cases of `Raises`, by the issue flag they set.
The checksum is perfect: it matches exactly when the assembled payload is the
one sent. A timestamp is the number of its shot; only the first DATA packet
of a shot carries one, as the sender does.

### Streamer

`run_sustained` with its three threads. `pc` says where each one is, `hold`
which bank token it has, `asleep` who waits on a condition variable of the queue.
A mutex section of the queue is one step; `acquired_shots` is counted in a step
of its own, because the code increments it after the unlock. Every call that
can block may fail, by its own fault or, once a signal came, because the handlers
are installed without `SA_RESTART`. The pool keeps what the streamer can see of
it: bank states, the transfer, the worker that finalizes and rearms under one
lock, and the unlocked tail of `RELEASE`. The sequencer raises one trigger per
sequence, and a sequence whose start "failed" may run nevertheless. `wire` is
the list of datagrams `sendmsg` accepted; what happens to them is `Recorder`'s
subject. A run by count and a run by duration are two initial states.

### CdcHandshake

Registers are variables; a step is one edge of one clock with arbitrary inputs.
A synchronizer that samples a changing bit resolves to the old or the new value,
which is the choice of which edge came first. Both domains leave reset together.
Its initial state, next-state relation and specification carry a `Cdc` prefix,
because its theorems stand beside those of the driver's calls.

### SequenceCompiler and ExperimentProfile

A document is a sequence of pulses. `compile_document` is the walk of the code:
intervals per channel in sorted order, set and clear masks per tick, events where
the output changes, refusals in between. `Sorted` lists a set by the rank of its
elements, and the walk is a recursive function, forms the prover can unfold. `encode_sequence` keeps the payload, its
length and its checksum as fields; `decode_sequence` is what rejects a torn file.
Writing is `OpenTemporary`, `WriteTemporary`, `Replace`, with a failure or a kill
before each.

A profile asks for multiples of 1/`Den`; `_phase_word` and `_q1_15` round half up
as the code does, at a small modulus and full scale. A digest is the digested value itself:
it collides with nothing. `Mix` replaces one part of the resolved file by the
same part of another, which is what a hand edit or a merge can do. A launch is
`Launch` (load and validate on the host), `CheckImage` (`sha256sum -c` on the
target), `ApplyConfig` (checked by `qcrate_validate_runtime_config`) and
`LoadSequence`. One thing is assumed: nobody deploys another image while the
target is between the digest check and the load (the code reads the file twice).

### Receiver

A session of one shot: packet 0 is STREAM_INFO, the last one SHOT_END. Datagrams
have a shape (`sent`, `altered` payload, `broken` payload under a good header,
`garbage`) and may belong to the shot, to another shot of the board, or to
another sender. `_save_pending`, `_route`, `_accept` and `ingest` are operators on
the assembler, as in the code. The three timers count ticks up to their limits.
The journal is flushed every `FlushEvery` records, so a kill leaves any prefix
from the last flush on. `Replay` runs the same assembler over the file
(`IngestAll`; this loop and that over the pending list are recursive functions).

### RunReader

The recorder's steps are those a reader can tell apart: the index header,
samples, part of an index record (one that spans two pages), the whole record, the
manifest. A refresh of `RunIndex` is one step per file access: `StatIndex`,
`StatSamples`, one `ScanRecord` per new record, `EndScan`, `ReadManifest`,
`ReadSender`, `CheckTail`, `ShowRun`, and it may raise at the checks. The recorder may write
between any two of them. The window is the selected ordinal, the listed range, the
scheduled display job, the record in the figure with its samples, the record the
table beside it describes, and the health line. A display succeeds
(`DisplayRecord`) or, for a complete shot, fails in its analysis
(`AnalysisFails`: the payload format, a profile that no longer resolves, a read):
the table is empty then and the figure keeps what it showed. `RunBundleHealth` is the
strict reader, used as the reference. Health is reduced to the record counts,
the manifest's verdict and the sender's; loss counters of the manifest are part
of its verdict.

### Campaign

One tool runs at a time, with the recorder process it started; a killed tool
leaves that recorder and a detached sender. A recorder is its state from
`create_socket` (which fails while another one holds the port) through
`MakeDirectory`, `OpenFiles`, `Select`, `receive_run`, `write_manifest` to
`close_run`. `holds` says whether the directory at its path is still the one it
made: `_preserve_interrupted` renames the directory, and the manifest is opened by
path. A run is its number and the configuration it was recorded with; comparing
every word with the model is comparing configurations. The sender has a first
shot and the rest; a recorder that selects a run late is not `whole`. The start timer, lost packets, a failed sender, a
session that breaks, a recorder that ignores the signal and a killed tool draw on
one budget of faults.

## Runs

Passing:

- **DmaPoolFaults**: 2 banks, 2 runs, 2 triggers, every fault, a signal that
  interrupts the stop of a close included. Two banks are the
  driver's minimum and enough for one bank in flight while another is unread or
  lent; two runs for stale tokens and for a transfer outliving its run. Counters
  match the states, unread data survives, `RELEASE` accepts exactly the granted
  tokens, the channel writes only to the filling bank, the source is never reset
  under a transfer, and the pool implements `ShotQueue`.
- **DmaPoolLive**: 2 banks, 3 triggers (a bank is used twice while the other is
  unread), drain timeouts, no signal at close. STOP ends, a RELEASE ends starvation, an accepted shot
  becomes a numbered bank.
- **TriggeredFaults**: 2 triggers, 3 transactions, every fault and signals.
- **RecorderFaults**: 2 shots of 2 packets, overtaking by one, two damaged
  packets and one extra datagram, every fault, the smallest limits.
- **RecorderOrder**: 3 shots, overtaking by four packets (more than a shot), up
  to three packets lost, which is a whole shot.
- **Streamer**: 3 shots of 2 packets over 2 banks, so that the pool starves while
  one bank is queued and one is being sent; every fault and a signal at any
  moment. Datagrams are the shots in capture order, numbered without a gap;
  END_OF_STREAM means that every shot was sent and its bank given back; a started
  sequence finds an armed bank; the run ends.
- **CdcHandshake**: four bundles, any clocks.
- **Profile**: every document of up to three pulses in four ticks (touching,
  nested, equal, too long, empty, more events than fit), every profile on a grid
  around each limit, and three edits of one of them. The compiler refuses exactly
  what the reference refuses and plays what it asks for; the output path always
  holds a whole image; a running target uses what its identity names; the target
  refuses what the host compiled only when both amplitudes were rounded up.
- **Receiver**: 2 DATA packets, a list of 2 pending datagrams (so that it
  overflows), 2 extra datagrams, timers of one tick. The verdict is a function of
  the set of datagrams that arrived, the bundle agrees with it, a replay repeats
  it, and the session ends.
- **RunReader**: 3 shot IDs, a list window of 2 (so that it moves). No record is
  counted twice or missed; the selected record is listed, the table describes it or
  is empty because its analysis failed, a filled table describes the figure, and the
  figure shows the samples of its record; an accepted run is one, and the window
  catches up with the strict reader.
- **Campaign**: 2 points, 2 faults, one launch of the acceptance or the soak.
  The code asks for at least three points; points are treated alike apart from
  the first and the last, so two show the loop. Two faults are enough for a
  killed tool whose orphan recorder meets a second failure. A manifest is
  written by the recorder that made the directory, verdicts are earned, tools
  that end leave no recorder, and resuming finishes the sweep.

Violated, where the code does not do what a document says (see `findings`):

- **TriggeredClose**: after `WAIT` rejected the evidence of a completed capture,
  every cancel waits for the completion that `WAIT` took; close cannot recover. No
  signal is needed; a completion lost to a signal would end the same way.

Observations that the models show or keep, without a run of their own:

- Driver: a trigger between the read of `MISSED_TRIGGERS` and the reset is in no
  count, although the DMA README says it appears in `skipped_triggers`. A stop
  whose reset failed counts the same missed triggers again. A `RELEASE` that
  ended starvation reads the flags a second time without the lock and may return
  -ESHUTDOWN although nothing failed; the streamer then ends the run. A close
  whose drain timed out frees the states of all banks; a late completion then makes
  a bank READY while `free_banks` still counts it. A signal while close waits for the
  lock makes its stop fail before it is requested (`CloseStop`): the pool goes on
  running without an owner, and the next `POOL_START` gets -EBUSY.
- Recorder: a shot that overtakes all of an earlier one makes the earlier one
  late. One lost packet holds back later shots until the limit of active shots
  (256) aborts the run without index records. A recorder that never hears any
  packet of the first shots accepts the run: the stream does not say where it
  starts. Samples and index are flushed per shot and the journal every 256
  records, so a kill can leave a published shot whose packets are not in the
  journal.
- Profiles: two amplitudes that add up to full scale can be rounded to words one
  count above it; the host accepts the profile and the target refuses it.
- Receiver: a datagram from a filtered source restarts the idle timer before it
  is dropped, so such traffic keeps a session open while it lasts.
- Run reader: a run that closed before any shot was selected has a header
  without run ID, and `RunIndex` then never reads `run.json`: the window says
  "recording" for good. A record that is seen in part fails one refresh
  ("final record is truncated") and the next one recovers. When the analysis of the
  selected shot fails, the figure still shows the shot before, with an empty table
  and an error in the status line; *Save PNG* (`qcrate_analyzer.py:742`) then offers
  that figure under the number of the selected shot, although the analyzer README
  (line 135) says that it "exports the currently selected shot using the same
  complete-shot analysis shown on screen". `ViewIsConsistent` says what does hold:
  a figure that is not of the selected shot never has a table beside it once the
  display is done.
- Campaign: `verify_run` does not compare the number of shots with the sender's
  report (the soak does); a recorder that joined late is accepted by a sweep when
  the rest arrives whole. `run_soak` leaves its recorder when the wait for the
  index fails. Between the check of a point and its renaming an orphan recorder may
  complete it; the run is repeated. `finalize_acceptance` trusts a sweep report it
  finds.

Deadlock is checked except for the recorder, the receiver and the streamer, which
are done when they have closed or were killed (`RunEnds`, `RunCloses` and
`ReceiveEnds` show that they get there).

## Fairness

- Driver: the worker kthread, a call inside the driver and the bounded waits
  make progress, because they are scheduled and every wait has a timeout; an
  issued transfer ends, because the engine always produces its finite frames
  once triggered or aborted; the callback runs. Nothing is assumed of triggers
  and of new calls. `WAIT` re-acquires the mutex under strong fairness: the
  kernel mutex hands over to a waiter, so a competitor cannot bar it for ever.
- Streamer: its threads are scheduled, every wait inside the driver is bounded
  by a timeout, and the hardware finishes what it was started for. A thread that
  sleeps on the queue is not helped by fairness: somebody must wake it.
- Recorder: the process is scheduled and its receive loop ends, by the idle, the
  terminal or the first-datagram timeout.
- Handshake: both clocks run and the receiver does not refuse for ever
  (`dest_accept_i` is tied high in the command and status crossings).
- Receiver: time passes and the process runs; the network promises nothing.
- Run reader: the event loop of the window runs, so a refresh begins every period,
  goes on, and the scheduled display fires. Nothing is assumed of the recorder.
- Campaign: the tool, the sender and the recorders make progress (each of their
  waits is bounded in the code), and the operator runs the sweep with `--resume`
  again as often as it is possible until the report is there. Faults are bounded
  by their budget and never forced.

## Proofs

All theorems hold for every value of the constants that satisfies the named
assumptions. Every invariant below was checked by TLC on the run of its module
before it was proved. Nearly every property is true for reasons that lie
elsewhere in the state, so none of them is inductive: each module first proves
one invariant `Inv`, a conjunction of named parts, with one lemma per action, and
then reads its properties off it.

| Module | Theorem | States |
|---|---|---|
| `DmaPoolProofs` | `TypeCorrect` | `Spec => []TypeOK` |
| | `ChannelOwnership` | `Spec => []DmaOwnsFilling` |
| | `UnreadDataSafe` | `Spec => []UnreadDataIntact` |
| | `ResetSafe` | `Spec => NeverResetUnderDma` (of every step) |
| | `CountsSafe` | `Spec => []CountsExact` |
| | `TokensSafe` | `Spec => []TokensExact` |
| | `QueueRefinement` | `Spec => ImplementsQueue` |
| `BoardProofs` | `ReleasedSafe` | `Spec => []ReleasedMeansQuiet` |
| | `CompletionSafe` | `Spec => []CompletionIsCurrent` |
| | `WaitSafe` | `Spec => WaitOkMeansShot` (of every step) |
| | `RegistersTyped`, `NoOverlap` | `CdcSpec => []RegistersOK`, `CdcSpec => []OneWave` |
| | `StableWhileValid` | `CdcSpec => []DataStable` |
| | `CdcRefinement` | `CdcSpec => ImplementsMailbox` |
| `StreamerProofs` | `TriggerSafe` | `Spec => []NoTriggerMissed` |
| | `WireSafe` | `Spec => []WireInOrder` |
| | `EndSafe` | `Spec => []CleanEndMeansAll` |
| `RecorderProofs` | `PublishedSafe` | `Spec => []PublishedExact` |
| | `NoGapSafe` | `Spec => []AcceptedRunHasNoGap` |
| | `ReorderingSafe` | `Window < 2 * PerShot - 1` and `MaxPending >= Window + MaxExtras` give `Spec => []ReorderingHarmless` |
| | `LossContained` | `Window < 2 * PerShot - 1` and `MaxExtras = 0` give `Spec => [](~pending_overflow => LossIsContained)` |
| | `LossContainedSafe` | and with room for the packets of the run, `Spec => []LossIsContained` |
| `ReceiverProofs` | `VerdictExact` | `Spec => []VerdictIsExact` |
| | `BundleSafe` | `Spec => []BundleNeverLies` |
| `ProfileProofs` | `OutputSafe` | `Spec => []OutputAlwaysWhole` |
| | `CompilationExact` | `Spec => []CompilesExactly` |
| | `IdentitySafe` | `Spec => []RunsWhatIdentityNames` |
| | `RefusalSafe` | `Spec => []TargetRefusesOnlyRounding` |
| `RunReaderProofs` | `Counting` | `Spec => []CountsAreExact` |
| | `Viewing` | `Spec => []ViewIsConsistent` |
| | `Accepting` | `Spec => []AcceptedIsTrue` |
| | `LowBounded` | the binary search ends inside the catalog |
| `CampaignProofs` | `ManifestSafe` | `Spec => []ManifestBelongs` |
| | `VerdictSafe` | `Spec => []PassIsEarned` |
| | `CleanUpSafe` | `Spec => ToolsCleanUp` (of every step) |

*Bank pool.* `UnreadDataIntact` could be broken by a transfer into an unread bank,
by arming one, or by finalizing a bank whose content is not the shot the
registers name. `Inv` excludes each: `LockInv` (who is inside the lock),
`CompletionInv` (one completion per transfer, in one place: channel, event word,
the worker's hands, or being answered), `ActiveInv` (the bank in flight is
FILLING, or FREE after close), `ArmInv` (only a running pool without a transfer
arms, and only a FREE bank), `EngineInv` (the engine runs exactly
while descriptors are issued, and what the trigger registers say about a
finished shot is what lies in the bank). `CompletionInv` is what shows that a
completion taken by the worker before it holds the lock is neither answered
twice nor mistaken for a later one.

*Account of the pool.* The counters are proved beside two more parts: `MetaInv`
(an unread or lent bank carries the current run, its own generation, and a
sequence number below the next one that no other such bank has) and `TokenInv`
(the tokens out are those of the lent banks). Each move of a bank changes two
cardinalities by one (`CountFollows`). The refinement maps the pool to the queue
by the sequence numbers of READY and USER_OWNED banks. It needs `MetaInv` for
"oldest first" and `TokenInv` for "a release is of a lent shot". Every step,
faults included, is a step of the queue or leaves it alone.

*Triggered capture.* `CompletionIsCurrent` survives because no descriptor is
issued with a completion pending: `CallInv` says that a caller that is about to
issue has a quiet source, that a canceller past its wait knows the transfer is
over, and that `CAPTURE` never runs beside a triggered transaction. `SourceInv`
ties the trigger registers to the buffer, which is what `WaitOkMeansShot` needs.
That close may nevertheless fail to cancel is no contradiction: then `active`
stays set (`TriggeredClose`).

*Streamer.* The invariant follows one shot through three threads. `OwnInv` says
that a lent bank is in the queue or in one thread's hands, once; `CaptureInv`
that each round of the acquisition captures one shot and what the pool then
holds; `QueueInv` that the queue carries exactly the shots between the last one
popped and the last one pushed, in order; `SendInv` counts the datagrams;
`FinishInv` and `EndInv` relate the flags of the threads to the end of the
stream. `TriggerInv` holds because the acquisition starts a sequence only after
`wait_pool_armed`, and in a healthy run only the trigger of that sequence takes
the bank out of the armed state.

*Recorder.* The published bytes are exact because the offset the recorder keeps
is the length of the file until a write fails (`OffsetInv`), the record in its
hands is that of the lowest active shot (`RecordInv`), and `last_shot_id`
separates shots that are active from those already indexed (`IdInv`): a shot at
or below it can start again only without its STREAM_INFO and then never becomes
complete. `ChainInv` says that as long as every record is COMPLETE they are
consecutive and the expected sequence number follows them, which with the end of
the stream gives `AcceptedRunHasNoGap`.

That the recorder does publish what it can needs to follow every packet.
`FlowInv` says that a packet which was journaled waits in the pending list or the
inbox, is held by an active shot, or belongs to a shot that was passed over
(`Held`), and that what is held is what was sent. `KeepInv` says that shots are
indexed in order, that a shot passed over before its packets came has lost its
STREAM_INFO (`PassedInv`), and that each record that is not COMPLETE blames a
broken shot, itself or the one before it (`BlameInv`). A shot still short of packets
is not indexed before the receive loop ends, except over a packet that can no
longer come: that is where `Window < 2 * PerShot - 1` is used. A packet of a
shot overtaken by two whole shots arrives as late as a lost one. `RoomInv`
counts what waits for the first STREAM_INFO by what has left the network, hence
the condition on `MaxPending`. The limits of the code (4096 pending datagrams, 256
active shots) are far above what a network reorders; a longer loss of STREAM_INFO
packets can still overflow the list, which is why `LossContained` says so and
`LossContainedSafe` is about runs the list has room for.
The loss theorems ask for `MaxExtras = 0`: a copy of a packet of a shot
that was passed over is journaled but too late to be used, so the journal then
holds shots that were not intact when it mattered. A run in which the table of
active shots overflows ends with an error, which both properties exclude.

*CDC handshake.* `RegistersOK /\ OneWave /\ DataStable` is inductive: the six stages of
request and acknowledge are either a rising or a falling wave, so a new request
starts only when nothing of the old one is left.

*Receiver.* What an assembler knows of a journal is a fact about the set of its
datagrams, not about their order (`Ingested`, `Routed`): it has seen one version of every
packet of the shot in that set, and it counts an error exactly when the set holds a
datagram that is damaged or another version (`Bad`). Routing keeps this one datagram at a
time (`RouteOne`), and so do the selection of the shot and the list of datagrams before it
(`IngestOne`); for a whole list it follows by its least counterexample (`RouteMany`,
`IngestMany`). When no number is missing, the packets up to a number are as many as that
number (`Packed`), so sorting puts each at its place and the checksum compares what the
board sampled (`SamplesAre`). The inductive invariant `RInv` says that the assembler is
what the journal makes of it, and that file, samples, manifest and verdict follow it from
the moment they are written; a replay therefore repeats the verdict.

*Compiler and profiles.* `CompilerInv`: the tool holds a decodable image from its
compilation to the rename. `ResolvedInv`: an unedited resolved file validates.
`LaunchInv`: what each stage of a launch has established is not changed before the
launch is over. The lemmas on rounding say that a phase word is a nearest one,
the carry out of its width included (`PhaseWordNearest`), and that two
amplitudes that fit exceed full scale by at most one count (`AmplitudeWords`).
`CompilationExact` is a proof of the algorithm of `compile_document`. Ranks below a
strict order are the numbers below the cardinality, so a sorted list has every
element once (`Sorting`). Intervals that clear their neighbours clear each other
(`Neighbours`), so the walk over a sorted channel finds an overlap exactly when there is
one (`OverlapsFound`). At a change time of a document without overlaps, clearing and
then setting leads from what was wanted before to what is wanted now (`Turn`). So
the walk has one event for each edge (`WalkOK`), which plays the document (`Plays`)
and makes the number of events the number of edges (`EventsValid`). Induction over
the walk is done by its least counterexample.

*Run reader.* `FilesOK` says what the recorder has published at any moment: ordered
records, each complete one backed by its samples. `CatalogOK` says how far the
catalog is: its counts are those of the first `Done` records, and the records a
scan still has to read lie inside the sample file, because the index is measured
before the samples and the recorder writes the samples before the index. So no
record raises. One more record changes the counts as the code does
(`CountedNext`: the gap behind it is disjoint from the earlier ones). `WindowOK`
ties the selection, the list and the scheduled display to the catalog, and the
table to the figure: a display that is done replaced both, or emptied the table of a
complete record, the only kind whose analysis can fail.
`AcceptedIsTrue` holds because the manifest the catalog knows is the one in the
directory or none. The binary search is a recursive function: that it exists
and ends inside the catalog is shown by taking the narrowest interval for which
it would not (`SearchExists`, `SearchEnds`).

*Campaign.* `PortInv`: at most one recorder holds the socket. `OwnerInv`: a
recorder past `mkdir` whose directory was not put aside finds no manifest in it.
`ManifestBelongs` follows because a recorder keeps the port until its manifest is
written, so its successor has not made a directory yet. `ToolInv` and `SentInv` say what
each tool has established where it stands. `EarnedInv` says that no tool writes
into a directory that was judged good, whatever recorders are left over.

Assumptions, each evaluated by TLC in the runs: `MaxBanks >= 2` and `Banks >= 2`
(the minimum of the driver); positive numbers of shots, packets and points;
positive limits and timers of the receiver; natural bounds; faults from the named kinds; `Zero` a bundle and `NoMail` none;
at least two sequence events (the engine ends with one); positive modulus, scale
and rate; documents of pulses and
profiles whose requested values are natural multiples of the model's unit
(`InputsAssumption`).

Only model-checked, and why:

- Liveness (`StopCompletes`, `FreeBankIsArmed`, `AcceptedShotDelivered`,
  `RunCloses`, `RunEnds`, `BusyEnds`, `ReceiveEnds`, `CatchesUp`, `SweepFinishes`):
  fairness is out of the prover's reach.

Every other property of a passing run is a theorem: `ReorderingHarmless` and
`LossIsContained` under the conditions on the constants that the table gives, which the
instance of `RecorderOrder` meets, the others for all constants.

## Not modelled, and the plan

In this order:

1. `ConfigService` (R5): staged configuration, commit, recover; sequence load,
   arm, start, abort, with the driver using the same registers.
2. `StreamEngine` per clock with the command, event and status crossings (two
   instances of `CdcHandshake`), refining `StreamSource`; sticky interrupts.
3. `SequenceEngine` with its registers, memory and crossings; DSP shadow and
   active configuration.
4. `Packetizer` as operators, against the frame layout the recorder checks.

Left out of the modelled drivers and tools, at the places a reader may miss them:

- `DmaPoolLive` assumes that no signal comes at close: a pool left running without
  an owner has nobody to stop it. `TriggeredClose` has no signals either.
- Errors of the operating system, of decoding and of JSON inside
  `RunIndex.refresh`: like the modelled ones they end the refresh, and the next
  period starts another.
- In `Receiver`, of the packets that are altered and still decode, only DATA. A
  changed field of STREAM_INFO or SHOT_END is what the assembler compares
  everything else with, and the model says nothing of a session that had one.
- In `Campaign` a SIGTERM between the creation of the files and `sigaction`
  (`qcrate_recorder.c:1511`) counts as handled. In the code it kills the
  recorder there, which leaves a directory without manifest, as does a recorder that
  ignores the signal and is killed 5 s later. `write_manifest` is one step: it
  writes a temporary file and renames it, and nobody reads the temporary one.

Left out of the modelled host tools: the numeric side of sweeps and profiles
(tolerances, the peak of the DSP model), plots, snapshots and session logs of the
analyzer, and the fault assessment file of the acceptance, a read, modify and write by one operator.

The DSP datapath and its reference model are fixed-point arithmetic at widths
TLC cannot enumerate. Build, boot and network scripts have no run-time state.

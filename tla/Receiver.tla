------------------------------ MODULE Receiver ------------------------------
(***************************************************************************)
(* The single-shot receiver (qcrate_receiver.py): it journals every        *)
(* datagram it accepts, assembles the first shot a STREAM_INFO announces,  *)
(* stops on a timer, and writes a bundle of samples.bin and manifest.json. *)
(* A later replay assembles the shot again from the journal.               *)
(*                                                                         *)
(* The board sends shot 1: STREAM_INFO, the DATA packets, then SHOT_END    *)
(* with END_OF_STREAM and a payload checksum, numbered from 0.  The        *)
(* network loses, reorders, duplicates and alters packets; other traffic   *)
(* reaches the port too.                                                   *)
(***************************************************************************)
EXTENDS Integers, Sequences, FiniteSets, Functions

CONSTANTS
  DataPackets,   \* DATA packets of the shot
  MaxPending,    \* MAX_PENDING_DATAGRAMS
  FlushEvery,    \* journal records between two flushes
  WaitTimeout, IdleTimeout, EndGrace,   \* in ticks
  MaxExtras      \* bound: datagrams added to, or altered in, the traffic

ASSUME ReceiverAssumption ==
  /\ DataPackets \in Nat \ {0} /\ MaxPending \in Nat \ {0}
  /\ FlushEvery \in Nat \ {0}
  /\ {WaitTimeout, IdleTimeout, EndGrace} \subseteq Nat \ {0}
  /\ MaxExtras \in Nat

VARIABLES
  net,       \* packets of the shot still to arrive
  extras,    \* datagrams added or altered so far
  pc,        \* where the process is
  asm,       \* the ShotAssembler
  journal,   \* datagrams written to packets.qcdp, in order
  flushed,   \* how many of them the file is sure to hold
  file,      \* the journal a later replay reads
  age,       \* time since the start, the last datagram, the seen end
  bundle,    \* what the output directory holds
  live       \* the verdict of the receiving session

vars == <<net, extras, pc, asm, journal, flushed, file, age, bundle, live>>

None == -1
EndSeq == DataPackets + 1
Packet == 0 .. EndSeq

(* shot 2 is another shot of the board, shot 0 another sender.  A "broken" *)
(* datagram has a good header only, a "garbage" one not even that.         *)
Datagram == [shot : 0 .. 2, seq : Packet,
             shape : {"sent", "altered", "broken", "garbage"}]
Sent(n) == [shot |-> 1, seq |-> n, shape |-> "sent"]
Stray ==
  {[shot |-> 2, seq |-> 0, shape |-> "sent"], [shot |-> 0, seq |-> 0, shape |-> "sent"],
   [shot |-> 1, seq |-> 0, shape |-> "garbage"],
   [shot |-> 0, seq |-> 0, shape |-> "garbage"]}

IsInfo(d) == d.seq = 0
IsEnd(d)  == d.seq = EndSeq
IsData(d) == ~IsInfo(d) /\ ~IsEnd(d)
-----------------------------------------------------------------------------
(* Header.decode and Packet.decode (validate_payload included). *)
HeaderDecodes(d) == d.shape # "garbage"
PacketDecodes(d) == d.shape \in {"sent", "altered"}

(* source_key and packet_key *)
FromBoard(d) == d.shot # 0
packet_key(d) == d.shot
SameSource(d, identity) == FromBoard(d) <=> identity # 0

(* class ShotAssembler.  errors: protocol_errors, malformed_selected or    *)
(* conflicting_duplicates; seen: the first copy of each accepted packet.   *)
NewAssembler == [identity |-> None, pending |-> <<>>, overflow |-> FALSE,
                 seen |-> {}, errors |-> FALSE, total |-> 0]

end_received(a) == \E d \in a.seen : IsEnd(d)

(* Mutant: a full list refuses the new datagram and counts nothing. *)
SavePendingSilently(a, d) ==
  IF Len(a.pending) >= MaxPending THEN a
  ELSE [a EXCEPT !.pending = Append(@, d)]

_save_pending(a, d) ==
  IF Len(a.pending) >= MaxPending
  THEN [a EXCEPT !.pending = Append(Tail(@), d), !.overflow = TRUE]
  ELSE [a EXCEPT !.pending = Append(@, d)]

_accept(a, d) ==
  LET first == {e \in a.seen : e.seq = d.seq}
  IN  IF first = {} THEN [a EXCEPT !.seen = @ \cup {d}]
      ELSE [a EXCEPT !.errors = @ \/ d \notin first]

_route(a, d) ==
  CASE ~HeaderDecodes(d) ->
         [a EXCEPT !.errors = @ \/ SameSource(d, a.identity)]
    [] HeaderDecodes(d) /\ packet_key(d) # a.identity -> a
    [] HeaderDecodes(d) /\ packet_key(d) = a.identity /\ ~PacketDecodes(d) ->
         [a EXCEPT !.errors = TRUE]
    [] OTHER -> _accept(a, d)

(* The assembler after _route of every datagram of s.                      *)
RouteAll(a, s) ==
  LET routed[k \in 0 .. Len(s)] == IF k = 0 THEN a ELSE _route(routed[k - 1], s[k])
  IN  routed[Len(s)]

(* The first valid STREAM_INFO selects the shot; what came before it is    *)
(* routed first.                                                           *)
Select(a, d) ==
  RouteAll([a EXCEPT !.identity = packet_key(d), !.pending = <<>>],
           Append(a.pending, d))

ingest(assembler, d) ==
  LET a == [assembler EXCEPT !.total = @ + 1]
  IN  IF a.identity # None THEN _route(a, d)
      ELSE IF PacketDecodes(d) /\ IsInfo(d) THEN Select(a, d)
      ELSE _save_pending(a, d)
-----------------------------------------------------------------------------
(* finalize *)

data_packets(a) == {d \in a.seen : IsData(d)}

(* sorted(data_packets.items()): each packet at the place of its rank.     *)
earlier(a, d) == {e \in data_packets(a) : e.seq < d.seq}
ordered_data(a) ==
  [i \in 1 .. Cardinality(data_packets(a)) |->
     CHOOSE d \in data_packets(a) : Cardinality(earlier(a, d)) = i - 1]
reconstructed(a) ==
  LET s == ordered_data(a) IN [i \in DOMAIN s |-> <<s[i].seq, s[i].shape>>]

(* What the board sampled. *)
Payload == [i \in 1 .. DataPackets |-> <<i, "sent">>]

(* Sequence numbers without a packet, and the frame and count checks.      *)
(* Another shot announces other samples.                                   *)
Missing(a) == Packet \ {d.seq : d \in a.seen}
ChecksumWrong(a) == end_received(a) /\ reconstructed(a) # Payload

(* Mutant: the checksum of SHOT_END is not compared. *)
CompleteWithoutChecksum(a) ==
  /\ a.identity # None /\ ~a.errors /\ ~a.overflow /\ Missing(a) = {}

complete(a) ==
  /\ a.identity # None /\ ~a.errors /\ ~a.overflow
  /\ Missing(a) = {} /\ ~ChecksumWrong(a)
-----------------------------------------------------------------------------
EmptyBundle == [samples |-> <<>>, manifest |-> "none"]
Fresh == [start |-> 0, last |-> 0, end |-> None]

Init ==
  /\ net = {Sent(n) : n \in Packet} /\ extras = 0
  /\ pc = "top" /\ asm = NewAssembler
  /\ journal = <<>> /\ flushed = 0 /\ file = <<>>
  /\ age = Fresh /\ bundle = EmptyBundle /\ live = "none"

traffic == <<net, extras>>

Grow(n, limit) == IF n < limit THEN n + 1 ELSE n
Tick ==
  /\ pc \in {"top", "recv"}
  /\ age' = [start |-> Grow(age.start, WaitTimeout),
             last  |-> Grow(age.last, IdleTimeout),
             end   |-> IF age.end = None THEN None ELSE Grow(age.end, EndGrace)]
  /\ age' # age
  /\ UNCHANGED <<traffic, pc, asm, journal, flushed, file, bundle, live>>

(* Mutant: without SHOT_END only the wait for a first datagram is timed. *)
ExpiredWithoutIdle(end) ==
  IF end_received(asm) THEN end >= EndGrace
  ELSE asm.total = 0 /\ age.start >= WaitTimeout

(* The timer that applies: after SHOT_END the grace period, before the     *)
(* first datagram the wait, else the idle time.                            *)
Expired(end) ==
  IF end_received(asm) THEN end >= EndGrace
  ELSE IF asm.total = 0 THEN age.start >= WaitTimeout
  ELSE age.last >= IdleTimeout

(* The socket is closed: what is still under way meets nobody. *)
CloseSocket == net' = {} /\ extras' = 0 /\ age' = Fresh

(* receive: the top of the loop. *)
CheckTimers ==
  /\ pc = "top"
  /\ LET end == IF end_received(asm) /\ age.end = None THEN 0 ELSE age.end
     IN  IF Expired(end) THEN pc' = "bundle" /\ CloseSocket
         ELSE /\ pc' = "recv" /\ age' = [age EXCEPT !.end = end]
              /\ UNCHANGED traffic
  /\ UNCHANGED <<asm, journal, flushed, file, bundle, live>>

RecvTimeout ==
  /\ pc = "recv" /\ pc' = "top"
  /\ UNCHANGED <<traffic, asm, journal, flushed, file, age, bundle, live>>

(* recvmsg returned d: journal.write, then ingest. *)
Accept(d) ==
  /\ pc = "recv" /\ pc' = "top"
  /\ age' = [age EXCEPT !.last = 0]
  /\ journal' = Append(journal, d)
  /\ flushed' = IF Len(journal') % FlushEvery = 0 THEN Len(journal') ELSE flushed
  /\ asm' = ingest(asm, d)
  /\ UNCHANGED <<file, bundle, live>>

Deliver(n) ==
  /\ Sent(n) \in net /\ Accept(Sent(n))
  /\ net' = net \ {Sent(n)} /\ UNCHANGED extras

(* The same packet again, or with another payload, or a damaged one. *)
Extra(d) == /\ extras < MaxExtras /\ Accept(d) /\ extras' = extras + 1
Duplicate(n) == Sent(n) \notin net /\ Extra(Sent(n)) /\ UNCHANGED net
Alter(n) ==
  /\ IsData(Sent(n)) /\ Extra([Sent(n) EXCEPT !.shape = "altered"])
  /\ net' \in {net, net \ {Sent(n)}}
Break(n) ==
  /\ Sent(n) \in net /\ Extra([Sent(n) EXCEPT !.shape = "broken"])
  /\ net' = net \ {Sent(n)}
OtherTraffic == \E d \in Stray : Extra(d) /\ UNCHANGED net

Lose(n) ==
  /\ Sent(n) \in net
  /\ net' = net \ {Sent(n)}
  /\ UNCHANGED <<extras, pc, asm, journal, flushed, file, age, bundle, live>>

(* A datagram from another address than --source: dropped, but only after  *)
(* the idle timer was restarted.                                           *)
Filtered ==
  /\ pc = "recv" /\ extras < MaxExtras
  /\ extras' = extras + 1
  /\ pc' = "top" /\ age' = [age EXCEPT !.last = 0]
  /\ UNCHANGED <<net, asm, journal, flushed, file, bundle, live>>

(* write_bundle: samples.bin is renamed into place, then manifest.json. *)
WriteSamples ==
  /\ pc = "bundle" /\ pc' = "manifest"
  /\ bundle' = [bundle EXCEPT !.samples = IF complete(asm) THEN reconstructed(asm)
                                          ELSE <<>>]
  /\ file' = journal
  /\ UNCHANGED <<traffic, asm, journal, flushed, age, live>>

WriteManifest ==
  /\ pc = "manifest" /\ pc' = "done"
  /\ bundle' = [bundle EXCEPT !.manifest =
                  IF complete(asm) THEN "complete" ELSE "incomplete"]
  /\ live' = IF live = "none" THEN bundle'.manifest ELSE live
  /\ UNCHANGED <<traffic, asm, journal, flushed, file, age>>

(* The process is killed, or recvmsg truncates: the file holds what was    *)
(* flushed and perhaps more, its last record perhaps cut.                  *)
Dies ==
  /\ pc \in {"top", "recv", "bundle", "manifest"} /\ live = "none"
  /\ pc' = "dead" /\ live' = "dead"
  /\ IF pc \in {"bundle", "manifest"} THEN file' = journal
     ELSE \E n \in flushed .. Len(journal) : file' = SubSeq(journal, 1, n)
  /\ CloseSocket
  /\ asm' = NewAssembler
  /\ UNCHANGED <<journal, flushed, bundle>>

(* A record was cut, or the header itself never reached the file:          *)
(* read_journal raises before anything is written.                         *)
ReplayRefuses ==
  /\ pc = "dead" /\ (Len(file) < Len(journal) \/ file = <<>>)
  /\ pc' = "refused"
  /\ UNCHANGED <<traffic, asm, journal, flushed, file, age, bundle, live>>

(* The assembler after the datagrams of s. *)
IngestAll(s) ==
  LET a[k \in 0 .. Len(s)] == IF k = 0 THEN NewAssembler ELSE ingest(a[k - 1], s[k])
  IN  a[Len(s)]

(* replay: a fresh directory (prepare_output) and the journal from its     *)
(* start.                                                                  *)
Replay ==
  /\ pc \in {"done", "dead"}
  /\ pc' = "bundle"
  /\ journal' = file
  /\ asm' = IngestAll(file)
  /\ bundle' = EmptyBundle
  /\ UNCHANGED <<traffic, flushed, file, age, live>>

Next ==
  \/ Tick \/ CheckTimers \/ RecvTimeout
  \/ \E n \in Packet : Deliver(n) \/ Lose(n) \/ Duplicate(n) \/ Alter(n) \/ Break(n)
  \/ OtherTraffic \/ Filtered
  \/ WriteSamples \/ WriteManifest \/ Dies \/ Replay \/ ReplayRefuses

Spec == Init /\ [][Next]_vars

(* Time passes and the process runs; the network promises nothing. *)
Fairness ==
  /\ WF_vars(Tick) /\ WF_vars(CheckTimers) /\ WF_vars(RecvTimeout)
  /\ WF_vars(WriteSamples) /\ WF_vars(WriteManifest)

FairSpec == Spec /\ Fairness
-----------------------------------------------------------------------------
Arrived == Range(journal)

(* Reference, on the set of datagrams that arrived and not on their order: *)
(* the whole shot as it was sent, no second version of a packet, and no    *)
(* damaged datagram from its source.                                       *)
ArrivedIntact ==
  /\ {Sent(n) : n \in Packet} \subseteq Arrived
  /\ \A d \in Arrived : d.shape = "altered" => d.shot # 1
  /\ \A d \in Arrived : d.shape = "broken" => d.shot # 1
  /\ \A d \in Arrived : d.shape = "garbage" => ~FromBoard(d)

(* However the datagrams were ordered, duplicated or mixed with others,    *)
(* the assembler of a session or a replay that selected the shot declares  *)
(* it complete exactly when it arrived intact; only datagrams pushed out   *)
(* of the list kept before STREAM_INFO may lower the verdict.              *)
VerdictIsExact ==
  pc = "manifest" =>
    /\ complete(asm) => asm.identity = 1 /\ ArrivedIntact
    /\ asm.identity = 1 /\ ArrivedIntact /\ ~asm.overflow => complete(asm)

(* A manifest that says complete stands beside exactly the samples the     *)
(* board sent, one that says incomplete beside none; a replay of a session *)
(* that closed repeats its verdict, and a killed one leaves no manifest.   *)
BundleNeverLies ==
  /\ bundle.manifest = "complete" => bundle.samples = Payload
  /\ bundle.manifest = "incomplete" => bundle.samples = <<>>
  /\ bundle.manifest # "none" /\ live # "dead" => bundle.manifest = live

(* Whatever is lost, SHOT_END included, a receiver that is not killed      *)
(* stops on its timers and writes its bundle; traffic from a filtered      *)
(* source delays that for as long as it lasts.                             *)
ReceiveEnds == <>(live # "none")
=============================================================================

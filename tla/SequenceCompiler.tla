-------------------------- MODULE SequenceCompiler --------------------------
(***************************************************************************)
(* The pulse-sequence compiler (qcrate_sequence.py): a document of pulses  *)
(* on two channels becomes a list of output-state events, the events an    *)
(* image with a checksum, and the image a file that replaces the previous  *)
(* one atomically.                                                         *)
(*                                                                         *)
(* An output state is the set of channels that are high.  A checksum is    *)
(* the checked bytes themselves: two payloads never share one.             *)
(***************************************************************************)
EXTENDS Integers, Sequences, FiniteSets, Functions

CONSTANTS
  MaxTick,     \* UINT64_MAX
  MaxEvents    \* MAX_EVENTS

ASSUME SequenceAssumption ==
  MaxTick \in Nat \ {0} /\ MaxEvents \in Nat /\ MaxEvents >= 2

VARIABLES
  document,    \* the JSON source file
  compiler,    \* the running tool: where it is, the document it read and
               \* the image it writes
  temporary,   \* the image in the temporary file, None when there is none
  qseq         \* the image at the output path

sequenceVars == <<document, compiler, temporary, qseq>>

None == <<>>   \* no image, no file
Channel == {0, 1}
Pulse == [channel : Channel, start : 0 .. MaxTick, duration : 0 .. MaxTick]
-----------------------------------------------------------------------------
(* compile_document *)

(* Per-pulse checks: a pulse lasts, and its end fits in 64 bits. *)
PulseFits(p) == p.duration # 0 /\ p.duration <= MaxTick - p.start

Before(a, b) ==
  \/ a.start < b.start
  \/ a.start = b.start /\ a.end < b.end
  \/ a.start = b.start /\ a.end = b.end /\ a.index < b.index

(* sorted: each element at the place its rank in the order gives it. *)
Below(S, order, x) == {y \in S : <<y, x>> \in order}
Sorted(S, order) ==
  [n \in 1 .. Cardinality(S) |->
     CHOOSE x \in S : Cardinality(Below(S, order, x)) = n - 1]

IntervalsOf(doc, c) ==
  {[start |-> doc[i].start, end |-> doc[i].start + doc[i].duration, index |-> i] :
     i \in {j \in DOMAIN doc : doc[j].channel = c}}
Intervals(doc, c) ==
  LET all == IntervalsOf(doc, c)
  IN  Sorted(all, {p \in all \X all : Before(p[1], p[2])})

(* Mutant: a pulse may start in the last tick of the pulse before it. *)
OverlapsByTwo(s) == \E i \in 1 .. Len(s) - 1 : s[i + 1].start < s[i].end - 1

(* The walk over the sorted intervals of a channel. *)
Overlaps(s) == \E i \in 1 .. Len(s) - 1 : s[i + 1].start < s[i].end

Starts(doc, t) == {p.channel : p \in {q \in Range(doc) : q.start = t}}
Ends(doc, t) ==
  {p.channel : p \in {q \in Range(doc) : q.start + q.duration = t}}
Changes(doc) ==
  {p.start : p \in Range(doc)} \cup {p.start + p.duration : p \in Range(doc)}
ChangeTimes(doc) ==
  LET all == Changes(doc)
  IN  Sorted(all, {p \in all \X all : p[1] < p[2]})

(* changes[timestamp]: clear first, then set. *)
NextState(doc, state, t) == (state \ Ends(doc, t)) \cup Starts(doc, t)

(* Only a timestamp that changes the outputs becomes an event. *)
Apply(doc, acc, t) ==
  LET next == NextState(doc, acc.state, t)
  IN  [state |-> next,
       events |-> IF next = acc.state THEN acc.events
                  ELSE Append(acc.events, [at |-> t, state |-> next])]

(* The walk over the sorted timestamps. *)
Events(doc) ==
  LET times == ChangeTimes(doc)
      walk[k \in 0 .. Len(times)] ==
        IF k = 0 THEN [state |-> {}, events |-> <<>>]
        ELSE Apply(doc, walk[k - 1], times[k])
  IN  walk[Len(times)].events

validate_events(events) ==
  /\ Len(events) \in 2 .. MaxEvents
  /\ \A i \in 1 .. Len(events) - 1 : events[i].at < events[i + 1].at
  /\ \A i \in DOMAIN events :
       events[i].state # IF i = 1 THEN {} ELSE events[i - 1].state
  /\ events[Len(events)].state = {}

Refused == <<>>

compile_document(doc) ==
  IF \/ doc = <<>>
     \/ \E p \in Range(doc) : ~PulseFits(p)
     \/ \E c \in Channel : Overlaps(Intervals(doc, c))
     \/ ~validate_events(Events(doc))
  THEN Refused ELSE Events(doc)
-----------------------------------------------------------------------------
(* The image: a header with event count and checksum, and the payload. *)

encode_sequence(events) ==
  [count |-> Len(events), crc |-> events, payload |-> events]

(* What a write that stopped half way leaves in a file. *)
Torn(image) == [image EXCEPT !.payload = SubSeq(@, 1, Len(@) \div 2)]

decode_sequence(image) ==
  IF /\ image # None
     /\ image.count \in 2 .. MaxEvents
     /\ Len(image.payload) = image.count
     /\ image.crc = image.payload
     /\ validate_events(image.payload)
  THEN image.payload ELSE Refused
-----------------------------------------------------------------------------
Idle == [pc |-> "idle", source |-> <<>>, image |-> None]

SequenceInit(doc) ==
  /\ document = doc
  /\ compiler = Idle /\ temporary = None /\ qseq = None

(* The operator edits the source document. *)
EditDocument(doc) ==
  /\ doc # document
  /\ document' = doc
  /\ UNCHANGED <<compiler, temporary, qseq>>

(* main compile: load_json, compile_document and encode_sequence.  A       *)
(* refused document ends the tool with nothing written.                    *)
Compile ==
  /\ compiler.pc = "idle"
  /\ LET events == compile_document(document)
     IN  compiler' =
           IF events = Refused
           THEN [pc |-> "refused", source |-> document, image |-> None]
           ELSE [pc |-> "open", source |-> document,
                 image |-> encode_sequence(events)]
  /\ UNCHANGED <<document, temporary, qseq>>

(* write_atomic: a temporary file in the same directory ... *)
OpenTemporary ==
  /\ compiler.pc = "open"
  /\ compiler' = [compiler EXCEPT !.pc = "write"]
  /\ temporary' = Torn(compiler.image)
  /\ UNCHANGED <<document, qseq>>

(* Mutant: the image is written at the output path itself. *)
WriteInPlace ==
  /\ compiler.pc = "write"
  /\ compiler' = [compiler EXCEPT !.pc = "replace"]
  /\ temporary' = compiler.image
  /\ qseq' = Torn(compiler.image)
  /\ UNCHANGED document

(* ... written and synchronised ... *)
WriteTemporary ==
  /\ compiler.pc = "write"
  /\ compiler' = [compiler EXCEPT !.pc = "replace"]
  /\ temporary' = compiler.image
  /\ UNCHANGED <<document, qseq>>

(* ... then renamed over the output path. *)
Replace ==
  /\ compiler.pc = "replace"
  /\ qseq' = temporary
  /\ temporary' = None
  /\ compiler' = Idle
  /\ UNCHANGED document

(* A full disk raises: the temporary file is unlinked in the finally.  A   *)
(* killed tool leaves it behind; the next run takes another name.          *)
CompilerFails ==
  /\ compiler.pc \in {"write", "replace"}
  /\ compiler' = Idle
  /\ temporary' \in {None, temporary}
  /\ UNCHANGED <<document, qseq>>

CompilerReports ==
  /\ compiler.pc = "refused"
  /\ compiler' = Idle
  /\ UNCHANGED <<document, temporary, qseq>>

SequenceNext ==
  \/ Compile \/ CompilerReports
  \/ OpenTemporary \/ WriteTemporary \/ Replace \/ CompilerFails
-----------------------------------------------------------------------------
(* Reference: the channels high in the tick that starts at t. *)
Wanted(doc, t) ==
  {c \in Channel : \E p \in Range(doc) :
     p.channel = c /\ p.start <= t /\ t < p.start + p.duration}

(* What the sequence engine outputs at t: the state of the last event. *)
Played(events, t) ==
  LET past == {i \in DOMAIN events : events[i].at <= t}
  IN  IF past = {} THEN {} ELSE events[CHOOSE i \in past : \A j \in past : j <= i].state

Disjoint(doc) ==
  \A i, j \in DOMAIN doc :
     i # j /\ doc[i].channel = doc[j].channel =>
       \/ doc[i].start + doc[i].duration <= doc[j].start
       \/ doc[j].start + doc[j].duration <= doc[i].start

Edges(doc) ==
  {t \in 1 .. MaxTick : Wanted(doc, t) # Wanted(doc, t - 1)}
    \cup {t \in {0} : Wanted(doc, t) # {}}

(* The sorted walk of compile_document refuses exactly the documents with  *)
(* an empty or too long pulse, two pulses of one channel in one tick, or   *)
(* more output changes than the hardware holds; every other one becomes    *)
(* the image that plays, tick for tick, the union of its pulses, however   *)
(* the pulses touch or are ordered.                                        *)
CompilesExactly ==
  LET doc == compiler.source
      wellFormed == /\ doc # <<>>
                    /\ \A p \in Range(doc) : PulseFits(p)
                    /\ Disjoint(doc)
  IN  /\ compiler.pc = "refused" =>
           ~wellFormed \/ Cardinality(Edges(doc)) > MaxEvents
      /\ compiler.pc = "open" =>
           /\ wellFormed
           /\ \A t \in 0 .. MaxTick :
                Played(compiler.image.payload, t) = Wanted(doc, t)

(* write_atomic and a reader at any moment, a full disk or a kill          *)
(* included: whatever is at the output path is a whole image that          *)
(* decode_sequence accepts.                                                *)
OutputAlwaysWhole == qseq # None => decode_sequence(qseq) # Refused
=============================================================================

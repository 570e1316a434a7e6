------------------------- MODULE ExperimentProfile --------------------------
(***************************************************************************)
(* Experiment profiles (qcrate_profile.py): a profile asks for physical    *)
(* values; the compiler resolves them to register words, names the result  *)
(* with two digests and writes it as a file.  Before a run the host loads  *)
(* that file again, recomputes every derived part, and the target checks   *)
(* the sequence image, the configuration and the image's events in turn.   *)
(*                                                                         *)
(* Requested values are whole multiples of 1/Den.  A SHA-256 digest is the *)
(* digested value itself: two values never share one.                      *)
(***************************************************************************)
EXTENDS SequenceCompiler

CONSTANTS
  PhaseModulus,   \* 2^32
  FullScale,      \* 2^15
  SampleRate,     \* SAMPLE_RATE_HZ
  MaxSeed,        \* 0xFFFF
  Den,            \* resolution of the requested values
  MaxFrameLength, MaxFrameCount, MaxWords,   \* acquisition limits
  Inputs,         \* what to start from: a pulse document, a profile, and a
                  \* bound on the edits of the document and the resolved file
  Others          \* the documents and profiles edits are taken from

ASSUME ProfileAssumption ==
  /\ {PhaseModulus, FullScale, SampleRate, MaxSeed, Den} \subseteq Nat \ {0}
  /\ {MaxFrameLength, MaxFrameCount, MaxWords} \subseteq Nat

VARIABLES
  profile,    \* the human profile: the requested values
  resolved,   \* the resolved file, None before the first compile
  mixed,      \* the resolved file was edited since it was written
  edits,      \* edits still to come
  launch,     \* where the launch of a run stands, or how it ended
  target      \* the target: active configuration, loaded events, running

vars == <<sequenceVars, profile, resolved, mixed, edits, launch, target>>

Request == [signal_frequency : Nat, signal_phase : Nat, signal_amplitude : Nat,
            noise_amplitude : Nat, noise_seed : Nat, lo_frequency : Nat,
            lo_phase : Nat, frame_length : Nat, frame_count : Nat]
ASSUME InputsAssumption ==
  \A i \in Inputs \cup Others : i.profile \in Request /\ i.doc \in Seq(Pulse)
-----------------------------------------------------------------------------
(* Conversion of the requested decimals. *)

HalfUp(n, d) == (2 * n + d) \div (2 * d)

_phase_word(value, scale) ==
  HalfUp(value * PhaseModulus, Den * scale) % PhaseModulus

_q1_15(value) ==
  LET scaled == HalfUp(value * FullScale, Den)
  IN  IF scaled > FullScale - 1 THEN FullScale - 1 ELSE scaled

(* Mutant: each amplitude is checked, their sum is not. *)
InRangeButSum(q) ==
  /\ 2 * q.signal_frequency < SampleRate * Den
  /\ 2 * q.lo_frequency < SampleRate * Den
  /\ q.signal_phase < Den /\ q.lo_phase < Den
  /\ q.signal_amplitude <= Den /\ q.noise_amplitude <= Den
  /\ q.noise_seed \in 1 .. MaxSeed

InRange(q) ==
  /\ 2 * q.signal_frequency < SampleRate * Den
  /\ 2 * q.lo_frequency < SampleRate * Den
  /\ q.signal_phase < Den /\ q.lo_phase < Den
  /\ q.signal_amplitude <= Den /\ q.noise_amplitude <= Den
  /\ q.signal_amplitude + q.noise_amplitude <= Den
  /\ q.noise_seed \in 1 .. MaxSeed

GeometryFits(length, count) ==
  length \in 1 .. MaxFrameLength /\ count \in 1 .. MaxFrameCount
  /\ length * count <= MaxWords

Active(q) ==
  [SIGNAL_PHASE_INCREMENT |-> _phase_word(q.signal_frequency, SampleRate),
   SIGNAL_PHASE_INITIAL   |-> _phase_word(q.signal_phase, 1),
   SIGNAL_AMPLITUDE_Q1_15 |-> _q1_15(q.signal_amplitude),
   NOISE_AMPLITUDE_Q1_15  |-> _q1_15(q.noise_amplitude),
   NOISE_SEED             |-> q.noise_seed,
   LO_PHASE_INCREMENT     |-> _phase_word(q.lo_frequency, SampleRate),
   LO_PHASE_INITIAL       |-> _phase_word(q.lo_phase, 1)]

(* In units of 1 / PhaseModulus Hz. *)
Realized(active) ==
  [signal |-> active.SIGNAL_PHASE_INCREMENT * SampleRate,
   lo     |-> active.LO_PHASE_INCREMENT * SampleRate,
   baseband |-> (active.SIGNAL_PHASE_INCREMENT - active.LO_PHASE_INCREMENT)
                  * SampleRate]

_sha256(active, acquisition, sequence) ==
  [active |-> active, acquisition |-> acquisition, sequence |-> sequence]

_register_writes(active, config_id) == <<config_id, active>>

_resolve_sequence(doc) ==
  LET image == encode_sequence(compile_document(doc))
  IN  [image |-> image, event_count |-> image.count]
-----------------------------------------------------------------------------
CompileRefused(q, doc) ==
  \/ ~InRange(q)
  \/ ~GeometryFits(q.frame_length, q.frame_count)
  \/ compile_document(doc) = Refused

Resolve(q, doc) ==
  LET active == Active(q)
      acquisition == [length |-> q.frame_length, count |-> q.frame_count]
      sequence == _resolve_sequence(doc)
  IN  [requested |-> q, active |-> active, realized |-> Realized(active),
       acquisition |-> acquisition, sequence |-> sequence,
       dsp_config_id |-> active,
       profile_digest |-> _sha256(active, acquisition, sequence),
       register_writes |-> _register_writes(active, active)]

(* configuration_command: the words of config-apply. *)
configuration_command(r) ==
  [id |-> r.dsp_config_id, words |-> r.active, length |-> r.acquisition.length,
   count |-> r.acquisition.count]

(* Mutant: the words are not compared with the requested values. *)
ValidateWithoutWords(r) ==
  /\ InRange(r.requested)
  /\ GeometryFits(r.acquisition.length, r.acquisition.count)
  /\ r.realized = Realized(r.active)
  /\ r.profile_digest = _sha256(r.active, r.acquisition, r.sequence)

validate_resolved_profile(r) ==
  /\ InRange(r.requested)
  /\ r.active = Active(r.requested)
  /\ r.realized = Realized(r.active)
  /\ GeometryFits(r.acquisition.length, r.acquisition.count)
  /\ r.dsp_config_id = r.active
  /\ r.profile_digest = _sha256(r.active, r.acquisition, r.sequence)
  /\ r.register_writes = _register_writes(r.active, r.dsp_config_id)

(* qcrate_validate_runtime_config on the R5, a zero identity aside. *)
TargetRefuses(c) ==
  \/ c.words.SIGNAL_AMPLITUDE_Q1_15 > FullScale - 1
  \/ c.words.NOISE_AMPLITUDE_Q1_15 > FullScale - 1
  \/ c.words.SIGNAL_AMPLITUDE_Q1_15 + c.words.NOISE_AMPLITUDE_Q1_15 > FullScale
  \/ c.words.NOISE_SEED \notin 1 .. MaxSeed
  \/ ~GeometryFits(c.length, c.count)
-----------------------------------------------------------------------------
Init ==
  /\ \E input \in Inputs :
       SequenceInit(input.doc) /\ profile = input.profile /\ edits = input.edits
  /\ resolved = None /\ mixed = FALSE /\ launch = "idle"
  /\ target = [config |-> None, events |-> None, running |-> None]

(* Nobody deploys another image while the target works on one. *)
Sequence ==
  /\ SequenceNext
  /\ launch \in {"config", "load"} => qseq' = qseq
  /\ UNCHANGED <<profile, resolved, mixed, edits, launch, target>>

Edit ==
  /\ edits > 0
  /\ edits' = edits - 1
  /\ \E other \in Others : EditDocument(other.doc)
  /\ UNCHANGED <<profile, resolved, mixed, launch, target>>

(* main compile: resolve, then _write_json renames a temporary file over   *)
(* the output.  A refused profile leaves the earlier file in place.        *)
CompileProfile ==
  /\ launch = "idle"
  /\ ~CompileRefused(profile, document)
  /\ resolved' = Resolve(profile, document)
  /\ mixed' = FALSE
  /\ UNCHANGED <<sequenceVars, profile, edits, launch, target>>

(* One part of the resolved file is replaced by that of another profile: a *)
(* hand edit or a merge gone wrong.                                        *)
Mix(other, part) ==
  /\ resolved # None /\ edits > 0 /\ launch = "idle"
  /\ resolved' = [resolved EXCEPT ![part] = Resolve(other.profile, other.doc)[part]]
  /\ mixed' = TRUE
  /\ edits' = edits - 1
  /\ UNCHANGED <<sequenceVars, profile, launch, target>>

(* run_experiment: load_resolved_profile. *)
Launch ==
  /\ launch = "idle" /\ resolved # None
  /\ launch' = IF validate_resolved_profile(resolved) THEN "image" ELSE "unloadable"
  /\ UNCHANGED <<sequenceVars, profile, resolved, mixed, edits, target>>

(* remote_workload, each operation run only if the last one succeeded: the *)
(* deployed image has the digest the profile names ...                     *)
CheckImage ==
  /\ launch = "image"
  /\ launch' = IF qseq = resolved.sequence.image THEN "config" ELSE "wrong image"
  /\ UNCHANGED <<sequenceVars, profile, resolved, mixed, edits, target>>

(* ... config-apply, which the R5 validates ... *)
ApplyConfig ==
  /\ launch = "config"
  /\ LET command == configuration_command(resolved)
     IN  IF TargetRefuses(command)
         THEN launch' = "config refused" /\ UNCHANGED target
         ELSE launch' = "load" /\ target' = [target EXCEPT !.config = command]
  /\ UNCHANGED <<sequenceVars, profile, resolved, mixed, edits>>

(* ... the image is loaded (and decoded) by the target, and the streamer   *)
(* started.                                                                *)
LoadSequence ==
  /\ launch = "load"
  /\ LET events == decode_sequence(qseq)
     IN  IF events = Refused
         THEN launch' = "image refused" /\ UNCHANGED target
         ELSE /\ launch' = "running"
              /\ target' = [target EXCEPT !.events = events,
                                          !.running = resolved.profile_digest]
  /\ UNCHANGED <<sequenceVars, profile, resolved, mixed, edits>>

(* The operator's next attempt. *)
EndLaunch ==
  /\ launch \notin {"idle", "image", "config", "load"}
  /\ launch' = "idle"
  /\ target' = [target EXCEPT !.running = None]
  /\ UNCHANGED <<sequenceVars, profile, resolved, mixed, edits>>

Next ==
  \/ Sequence \/ Edit \/ CompileProfile
  \/ \E other \in Others, part \in {"requested", "active", "realized",
       "acquisition", "sequence", "dsp_config_id", "profile_digest",
       "register_writes"} : Mix(other, part)
  \/ Launch \/ CheckImage \/ ApplyConfig \/ LoadSequence \/ EndLaunch

Spec == Init /\ [][Next]_vars
-----------------------------------------------------------------------------
Abs(n) == IF n < 0 THEN -n ELSE n

(* word is a nearest multiple of 1/PhaseModulus to value/scale turns. *)
NearestWord(word, value, scale) ==
  \E lap \in {0, PhaseModulus} :
    2 * Abs((word + lap) * Den * scale - value * PhaseModulus) <= Den * scale

(* A target that runs under an experiment identity plays the sequence and  *)
(* uses the words and the geometry that identity was computed from, and    *)
(* each word is the closest one to a value the resolved file requests,     *)
(* whatever was edited, mixed up, recompiled or refused on the way.        *)
RunsWhatIdentityNames ==
  launch = "running" =>
    LET id == target.running  q == resolved.requested IN
    /\ target.config.words = id.active
    /\ [length |-> target.config.length, count |-> target.config.count]
         = id.acquisition
    /\ target.events = id.sequence.image.payload
    /\ NearestWord(id.active.SIGNAL_PHASE_INCREMENT, q.signal_frequency, SampleRate)
    /\ NearestWord(id.active.LO_PHASE_INCREMENT, q.lo_frequency, SampleRate)
    /\ NearestWord(id.active.SIGNAL_PHASE_INITIAL, q.signal_phase, 1)
    /\ NearestWord(id.active.LO_PHASE_INITIAL, q.lo_phase, 1)

(* A profile that compiles also loads, and the target refuses it in one    *)
(* case only: both amplitudes were rounded up, so that their words exceed  *)
(* full scale by exactly one although the requested sum does not.          *)
TargetRefusesOnlyRounding ==
  ~mixed =>
    /\ launch \notin {"unloadable", "image refused"}
    /\ launch = "config refused" =>
         resolved.active.SIGNAL_AMPLITUDE_Q1_15
           + resolved.active.NOISE_AMPLITUDE_Q1_15 = FullScale + 1
=============================================================================

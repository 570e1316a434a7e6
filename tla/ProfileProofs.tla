---------------------------- MODULE ProfileProofs ----------------------------
(***************************************************************************)
(* The sequence compiler and the experiment profiles, for any documents,   *)
(* profiles, edits and word sizes: the file at the output path is always   *)
(* whole, a run is what its identity names, a target refuses a compiled    *)
(* profile for its rounded amplitudes only, and the compiler plays what a  *)
(* document wants or refuses it rightly.                                   *)
(***************************************************************************)
EXTENDS ExperimentProfile, FiniteSetTheorems, SequenceTheorems, WellFoundedInduction,
        TLAPS

(* The tool holds a decodable image once it has compiled one, and all of   *)
(* it is in the temporary file when that file is about to be renamed.      *)
Whole(image) == decode_sequence(image) # Refused
CompilerInv ==
  /\ compiler = [pc |-> compiler.pc, source |-> compiler.source,
                 image |-> compiler.image]
  /\ compiler.pc \in {"open", "write", "replace"} => Whole(compiler.image)
  /\ compiler.pc = "replace" => temporary = compiler.image
  /\ OutputAlwaysWhole

(* What is resolved from a profile and not edited afterwards loads.        *)
Parts == {"requested", "active", "realized", "acquisition", "sequence",
          "dsp_config_id", "profile_digest", "register_writes"}
IsAcquisition(a) == a = [length |-> a.length, count |-> a.count]
ResolvedInv ==
  /\ profile \in Request
  /\ resolved # None =>
       /\ DOMAIN resolved = Parts /\ resolved.requested \in Request
       /\ IsAcquisition(resolved.acquisition)
  /\ resolved # None /\ ~mixed => /\ validate_resolved_profile(resolved)
                                  /\ Whole(resolved.sequence.image)

(* What each stage of a launch has established.  Nothing of it changes     *)
(* before the launch is over.                                              *)
Passed == {"image", "wrong image", "config", "config refused", "load",
           "image refused", "running"}
LaunchInv ==
  /\ launch \in Passed \cup {"idle", "unloadable"}
  /\ launch # "idle" => resolved # None
  /\ launch \in Passed => validate_resolved_profile(resolved)
  /\ launch \in {"unloadable", "image refused"} => mixed
  /\ launch \in {"config", "load"} => qseq = resolved.sequence.image
  /\ target = [config |-> target.config, events |-> target.events,
               running |-> target.running]
  /\ launch \in {"load", "running"} =>
       target.config = configuration_command(resolved)
  /\ launch = "running" => /\ target.events = resolved.sequence.image.payload
                           /\ target.running = resolved.profile_digest
  /\ launch = "config refused" => TargetRefuses(configuration_command(resolved))

Inv == CompilerInv /\ ResolvedInv /\ LaunchInv

-----------------------------------------------------------------------------
(* The conversions. *)

(* ROUND_HALF_UP: the result is at most half away from the quotient. *)
LEMMA HalfUpNearest ==
  ASSUME NEW n \in Nat, NEW d \in Nat \ {0}
  PROVE  /\ HalfUp(n, d) \in Nat
         /\ 2 * (HalfUp(n, d) * d) <= 2 * n + d
         /\ 2 * n - d <= 2 * (HalfUp(n, d) * d)
<1> DEFINE x == 2 * n + d
           k == 2 * d
           q == x \div k
<1>1. /\ x \in Nat /\ 2 * d \in Nat \ {0} /\ q \in Nat
      /\ q * (2 * d) <= x /\ x < q * (2 * d) + 2 * d
  <2>1. x \in Nat /\ k \in Nat \ {0}
    OBVIOUS
  <2> HIDE DEF x, k
  <2>2. q \in Int /\ q * k <= x /\ x < q * k + k
    BY <2>1
  <2>3. q < 0 => q * k + k <= 0
    BY <2>1, <2>2
  <2>4. q \in Nat
    BY <2>1, <2>2, <2>3
  <2> QED
    BY <2>1, <2>2, <2>4 DEF k
<1>2. q * (2 * d) = 2 * (q * d) /\ q * d \in Nat
  BY <1>1
<1> QED
  BY <1>1, <1>2 DEF HalfUp

(* A phase word is a nearest one, the carry out of its width included. *)
LEMMA PhaseWordNearest ==
  ASSUME NEW value \in Nat, NEW scale \in Nat \ {0}, value <= Den * scale
  PROVE  NearestWord(_phase_word(value, scale), value, scale)
<1> USE ProfileAssumption
<1> DEFINE d == Den * scale
           n == value * PhaseModulus
           word == HalfUp(n, d)
<1>1. d \in Nat \ {0} /\ n \in Nat /\ PhaseModulus \in Nat \ {0}
  OBVIOUS
<1>2. n <= d * PhaseModulus
  BY <1>1
<1> HIDE DEF d, n
<1>3. /\ word \in Nat /\ 2 * (word * d) <= 2 * n + d /\ 2 * n - d <= 2 * (word * d)
  BY <1>1, HalfUpNearest
<1> HIDE DEF word
<1>4. word <= PhaseModulus
  <2>1. PhaseModulus < word => PhaseModulus * d + d <= word * d
    BY <1>1, <1>3
  <2>2. d * PhaseModulus = PhaseModulus * d /\ word * d \in Nat
    BY <1>1, <1>3
  <2> QED
    BY <1>1, <1>2, <1>3, <2>1, <2>2
<1>5. PICK lap \in {0, PhaseModulus} : (word % PhaseModulus) + lap = word
  BY <1>1, <1>3, <1>4
<1>6. 2 * Abs(word * d - n) <= d
  <2>1. word * d \in Nat
    BY <1>1, <1>3
  <2> QED
    BY <1>1, <1>3, <2>1 DEF Abs
<1>7. word * Den * scale = word * d
  BY <1>3 DEF d
<1> QED
  BY <1>5, <1>6, <1>7 DEF NearestWord, _phase_word, word, n, d

(* Two amplitudes that fit together: their words exceed full scale by at   *)
(* most one, and none exceeds it alone.                                    *)
LEMMA AmplitudeWords ==
  ASSUME NEW a \in Nat, NEW b \in Nat, a + b <= Den
  PROVE  /\ _q1_15(a) \in Int /\ _q1_15(b) \in Int
         /\ _q1_15(a) <= FullScale - 1 /\ _q1_15(b) <= FullScale - 1
         /\ _q1_15(a) + _q1_15(b) <= FullScale + 1
<1> USE ProfileAssumption
<1> DEFINE p == HalfUp(a * FullScale, Den)
           q == HalfUp(b * FullScale, Den)
<1>1. a * FullScale \in Nat /\ b * FullScale \in Nat /\ Den \in Nat \ {0}
        /\ FullScale \in Nat \ {0}
  OBVIOUS
<1>2. /\ p \in Nat /\ 2 * (p * Den) <= 2 * (a * FullScale) + Den
      /\ q \in Nat /\ 2 * (q * Den) <= 2 * (b * FullScale) + Den
  BY <1>1, HalfUpNearest
<1>3. a * FullScale + b * FullScale <= Den * FullScale
  <2>1. a * FullScale + b * FullScale = (a + b) * FullScale
    BY <1>1
  <2> QED
    BY <1>1, <2>1
<1> HIDE DEF p, q
<1>4. (p + q) * Den <= (FullScale + 1) * Den
  <2>1. (p + q) * Den = p * Den + q * Den /\ p * Den \in Nat /\ q * Den \in Nat
    BY <1>1, <1>2
  <2>2. (FullScale + 1) * Den = Den * FullScale + Den /\ Den * FullScale \in Nat
    BY <1>1
  <2> QED
    BY <1>1, <1>2, <1>3, <2>1, <2>2
<1>5. p + q <= FullScale + 1
  <2>1. FullScale + 1 < p + q => (FullScale + 1) * Den < (p + q) * Den
    BY <1>1, <1>2
  <2> QED
    BY <1>1, <1>2, <1>4, <2>1
<1>6. /\ _q1_15(a) = IF p > FullScale - 1 THEN FullScale - 1 ELSE p
      /\ _q1_15(b) = IF q > FullScale - 1 THEN FullScale - 1 ELSE q
  BY DEF _q1_15, p, q
<1> QED
  BY <1>1, <1>2, <1>5, <1>6

-----------------------------------------------------------------------------
(* The image of an accepted document decodes to its events. *)
LEMMA ImageDecodes ==
  ASSUME NEW doc, compile_document(doc) # Refused
  PROVE  Whole(encode_sequence(compile_document(doc)))
<1> DEFINE events == compile_document(doc)
<1>1. events = Events(doc) /\ validate_events(events)
  BY DEF compile_document
<1> HIDE DEF events
<1>2. encode_sequence(events) # None
  BY DEF encode_sequence, None
<1> QED
  BY <1>1, <1>2 DEF Whole, decode_sequence, encode_sequence, validate_events, events

-----------------------------------------------------------------------------
(* Every action preserves the invariant. *)

(* Nothing is compiled, resolved or launched at first.                     *)
LEMMA InitInv == Init => Inv
BY InputsAssumption DEF Init, SequenceInit, Idle, None, Inv, CompilerInv,
   OutputAlwaysWhole, ResolvedInv, LaunchInv, Passed

(* What CompilerInv and the others leave alone. *)
LEMMA Frame ==
  /\ CompilerInv /\ UNCHANGED sequenceVars => CompilerInv'
  /\ ResolvedInv /\ UNCHANGED <<profile, resolved, mixed>> => ResolvedInv'
  /\ LaunchInv /\ UNCHANGED <<launch, target, resolved>>
       /\ (mixed => mixed') /\ (launch \in {"config", "load"} => UNCHANGED qseq)
       => LaunchInv'
<1>1. CompilerInv /\ UNCHANGED sequenceVars => CompilerInv'
  BY DEF sequenceVars, CompilerInv, OutputAlwaysWhole, Whole
<1>2. ResolvedInv /\ UNCHANGED <<profile, resolved, mixed>> => ResolvedInv'
  BY DEF ResolvedInv, Whole, validate_resolved_profile
<1>3. LaunchInv /\ UNCHANGED <<launch, target, resolved>>
       /\ (mixed => mixed') /\ (launch \in {"config", "load"} => UNCHANGED qseq)
       => LaunchInv'
  BY DEF LaunchInv, Passed, validate_resolved_profile, configuration_command,
         TargetRefuses
<1> QED
  BY <1>1, <1>2, <1>3

(* write_atomic: only a whole temporary file is renamed. *)
LEMMA SequenceInv ==
  ASSUME Inv, Sequence PROVE Inv'
<1> USE DEF Inv
<1>1. ResolvedInv' /\ LaunchInv'
  BY Frame DEF Sequence
<1>2. CompilerInv'
  <2> USE DEF CompilerInv, OutputAlwaysWhole, Whole
  <2>1. CASE Compile
    <3>1. compile_document(document) # Refused =>
            Whole(encode_sequence(compile_document(document)))
      BY ImageDecodes
    <3> QED
      BY <2>1, <3>1 DEF Compile
  <2>2. CASE CompilerReports
    BY <2>2 DEF CompilerReports, Idle
  <2>3. CASE OpenTemporary
    BY <2>3 DEF OpenTemporary
  <2>4. CASE WriteTemporary
    BY <2>4 DEF WriteTemporary
  <2>5. CASE Replace
    BY <2>5 DEF Replace, Idle
  <2>6. CASE CompilerFails
    BY <2>6 DEF CompilerFails, Idle
  <2> QED
    BY <2>1, <2>2, <2>3, <2>4, <2>5, <2>6 DEF Sequence, SequenceNext
<1> QED
  BY <1>1, <1>2

(* The document changes; the tool keeps the one it has read. *)
LEMMA EditInv ==
  ASSUME Inv, Edit PROVE Inv'
<1> USE DEF Inv, Edit, EditDocument
<1>1. CompilerInv'
  BY DEF CompilerInv, OutputAlwaysWhole, Whole
<1> QED
  BY <1>1, Frame

(* main compile: a profile that compiles also loads. *)
LEMMA CompileProfileInv ==
  ASSUME Inv, CompileProfile PROVE Inv'
<1> USE DEF Inv, CompileProfile
<1>1. validate_resolved_profile(Resolve(profile, document))
  BY DEF Resolve, validate_resolved_profile, CompileRefused
<1>2. Whole(Resolve(profile, document).sequence.image)
  BY ImageDecodes DEF Resolve, _resolve_sequence, CompileRefused
<1>3. /\ DOMAIN Resolve(profile, document) = Parts
      /\ Resolve(profile, document).requested = profile
      /\ IsAcquisition(Resolve(profile, document).acquisition)
  BY DEF Resolve, Parts, IsAcquisition
<1>4. ResolvedInv'
  BY <1>1, <1>2, <1>3 DEF ResolvedInv
<1>5. LaunchInv'
  BY <1>3 DEF LaunchInv, Passed, Parts, None
<1> QED
  BY <1>4, <1>5, Frame

(* An edited file may load or not; it is no longer a compiled one. *)
LEMMA MixInv ==
  ASSUME Inv, NEW other \in Others, NEW part \in Parts, Mix(other, part)
  PROVE  Inv'
<1> USE DEF Inv, Mix
<1> DEFINE value == Resolve(other.profile, other.doc)[part]
<1>1. resolved' = [resolved EXCEPT ![part] = value] /\ mixed' /\ resolved # None
        /\ launch = "idle"
  OBVIOUS
<1>2. /\ part = "requested" => value = other.profile
      /\ part = "acquisition" => IsAcquisition(value)
  BY DEF Resolve, IsAcquisition
<1>3. other.profile \in Request
  BY InputsAssumption
<1> HIDE DEF value
<1>4. /\ DOMAIN resolved' = Parts /\ resolved'.requested \in Request
      /\ IsAcquisition(resolved'.acquisition)
  BY <1>1, <1>2, <1>3 DEF ResolvedInv, Parts
<1>5. ResolvedInv'
  BY <1>1, <1>4 DEF ResolvedInv
<1>6. LaunchInv'
  BY <1>1 DEF LaunchInv, Passed
<1> QED
  BY <1>5, <1>6, Frame

(* The steps of a launch: each keeps what the ones before established. *)
LEMMA LaunchSteps ==
  ASSUME Inv, Launch \/ CheckImage \/ ApplyConfig \/ LoadSequence \/ EndLaunch
  PROVE  Inv'
<1> USE DEF Inv
<1>1. UNCHANGED <<sequenceVars, profile, resolved, mixed>>
  BY DEF Launch, CheckImage, ApplyConfig, LoadSequence, EndLaunch
<1>2. CompilerInv' /\ ResolvedInv'
  BY <1>1, Frame
<1>3. qseq' = qseq
  BY <1>1 DEF sequenceVars
<1>4. LaunchInv'
  <2> USE DEF LaunchInv, Passed
  <2>1. validate_resolved_profile(resolved)' = validate_resolved_profile(resolved)
    BY <1>1 DEF validate_resolved_profile
  <2>2. configuration_command(resolved)' = configuration_command(resolved)
    BY <1>1 DEF configuration_command
  <2>3. CASE Launch
    BY <1>1, <1>3, <2>1, <2>2, <2>3 DEF Launch, ResolvedInv
  <2>4. CASE CheckImage
    BY <1>1, <1>3, <2>1, <2>2, <2>4 DEF CheckImage
  <2>5. CASE ApplyConfig
    BY <1>1, <1>3, <2>1, <2>2, <2>5 DEF ApplyConfig, TargetRefuses
  <2>6. CASE LoadSequence
    <3>1. Whole(resolved.sequence.image) =>
            decode_sequence(resolved.sequence.image) = resolved.sequence.image.payload
      BY DEF Whole, decode_sequence
    <3>2. qseq = resolved.sequence.image /\ resolved # None /\ launch = "load"
      BY <2>6 DEF LoadSequence
    <3>3. ~mixed => Whole(qseq)
      BY <3>2 DEF ResolvedInv
    <3>4. CASE decode_sequence(qseq) = Refused
      <4>1. mixed /\ launch' = "image refused" /\ target' = target
        BY <2>6, <3>3, <3>4 DEF LoadSequence, Whole
      <4> QED
        BY <1>1, <1>3, <2>1, <2>2, <3>2, <4>1
    <3>5. CASE decode_sequence(qseq) # Refused
      BY <1>1, <1>3, <2>1, <2>2, <2>6, <3>1, <3>2, <3>5 DEF LoadSequence, Whole
    <3> QED
      BY <3>4, <3>5
  <2>7. CASE EndLaunch
    BY <1>1, <1>3, <2>1, <2>2, <2>7 DEF EndLaunch
  <2> QED
    BY <2>3, <2>4, <2>5, <2>6, <2>7
<1> QED
  BY <1>2, <1>4

(* Every step of the tools, the editor and the target keeps Inv.           *)
LEMMA NextInv == Inv /\ [Next]_vars => Inv'
<1> SUFFICES ASSUME Inv, [Next]_vars PROVE Inv'
  OBVIOUS
<1>1. ASSUME NEW other \in Others, NEW part \in Parts, Mix(other, part) PROVE Inv'
  BY <1>1, MixInv
<1>2. CASE UNCHANGED vars
  BY <1>2, Frame DEF vars, sequenceVars, Inv
<1> QED
  BY <1>1, <1>2, SequenceInv, EditInv, CompileProfileInv, LaunchSteps
     DEF Next, Parts

-----------------------------------------------------------------------------
(* The invariant holds always, from it the three properties. *)
THEOREM Invariance == Spec => []Inv
BY InitInv, NextInv, PTL DEF Spec

(* write_atomic: whatever is at the output path decodes, a full disk or a  *)
(* killed tool included.                                                   *)
THEOREM OutputSafe == Spec => []OutputAlwaysWhole
<1>1. Inv => OutputAlwaysWhole
  BY DEF Inv, CompilerInv
<1> QED
  BY <1>1, Invariance, PTL

(* load_resolved_profile and remote_workload: what runs is the sequence,   *)
(* the words and the geometry its identity was computed from, and each     *)
(* word is nearest to the requested value.                                 *)
THEOREM IdentitySafe == Spec => []RunsWhatIdentityNames
<1>1. ASSUME Inv, launch = "running" PROVE RunsWhatIdentityNames
  <2> DEFINE q == resolved.requested
             id == target.running
  <2> USE ProfileAssumption
  <2>1. /\ validate_resolved_profile(resolved) /\ q \in Request
        /\ target.config = configuration_command(resolved)
        /\ target.events = resolved.sequence.image.payload
        /\ id = resolved.profile_digest /\ IsAcquisition(resolved.acquisition)
    BY <1>1 DEF Inv, LaunchInv, ResolvedInv, Passed
  <2>2. /\ id = _sha256(resolved.active, resolved.acquisition, resolved.sequence)
        /\ resolved.active = Active(q) /\ InRange(q)
    BY <2>1 DEF validate_resolved_profile
  <2>3. /\ id.active = Active(q) /\ id.acquisition = resolved.acquisition
        /\ id.sequence = resolved.sequence
    BY <2>2 DEF _sha256
  <2>4. /\ target.config.words = id.active
        /\ target.config.length = id.acquisition.length
        /\ target.config.count = id.acquisition.count
    BY <2>1, <2>2, <2>3 DEF configuration_command
  <2>5. /\ q.signal_frequency \in Nat /\ q.signal_frequency <= Den * SampleRate
        /\ q.lo_frequency \in Nat /\ q.lo_frequency <= Den * SampleRate
        /\ q.signal_phase \in Nat /\ q.signal_phase <= Den * 1
        /\ q.lo_phase \in Nat /\ q.lo_phase <= Den * 1
    <3>1. Den * SampleRate = SampleRate * Den /\ Den * 1 = Den
            /\ SampleRate * Den \in Nat /\ Den \in Nat
      OBVIOUS
    <3>2. /\ q.signal_frequency \in Nat /\ q.lo_frequency \in Nat
          /\ q.signal_phase \in Nat /\ q.lo_phase \in Nat
      BY <2>1 DEF Request
    <3> QED
      BY <2>2, <3>1, <3>2 DEF InRange
  <2> HIDE DEF q, id
  <2>6. /\ NearestWord(id.active.SIGNAL_PHASE_INCREMENT, q.signal_frequency, SampleRate)
        /\ NearestWord(id.active.LO_PHASE_INCREMENT, q.lo_frequency, SampleRate)
        /\ NearestWord(id.active.SIGNAL_PHASE_INITIAL, q.signal_phase, 1)
        /\ NearestWord(id.active.LO_PHASE_INITIAL, q.lo_phase, 1)
    BY <2>3, <2>5, PhaseWordNearest DEF Active
  <2> QED
    BY <2>1, <2>3, <2>4, <2>6 DEF RunsWhatIdentityNames, IsAcquisition, q, id
<1>2. Inv => RunsWhatIdentityNames
  BY <1>1 DEF RunsWhatIdentityNames
<1> QED
  BY <1>2, Invariance, PTL

(* qcrate_validate_runtime_config against compile_profile: they disagree   *)
(* about rounded amplitudes only.                                          *)
THEOREM RefusalSafe == Spec => []TargetRefusesOnlyRounding
<1>1. ASSUME Inv, launch = "config refused"
      PROVE  resolved.active.SIGNAL_AMPLITUDE_Q1_15
               + resolved.active.NOISE_AMPLITUDE_Q1_15 = FullScale + 1
  <2> DEFINE q == resolved.requested
  <2> USE ProfileAssumption
  <2>1. /\ validate_resolved_profile(resolved) /\ q \in Request
        /\ TargetRefuses(configuration_command(resolved))
    BY <1>1 DEF Inv, LaunchInv, ResolvedInv, Passed
  <2>2. /\ resolved.active = Active(q) /\ InRange(q)
        /\ GeometryFits(resolved.acquisition.length, resolved.acquisition.count)
    BY <2>1 DEF validate_resolved_profile
  <2>3. /\ q.signal_amplitude \in Nat /\ q.noise_amplitude \in Nat
        /\ q.signal_amplitude + q.noise_amplitude <= Den
        /\ q.noise_seed \in 1 .. MaxSeed
    BY <2>1, <2>2 DEF Request, InRange
  <2> HIDE DEF q
  <2>4. /\ resolved.active.SIGNAL_AMPLITUDE_Q1_15 = _q1_15(q.signal_amplitude)
        /\ resolved.active.NOISE_AMPLITUDE_Q1_15 = _q1_15(q.noise_amplitude)
        /\ resolved.active.NOISE_SEED = q.noise_seed
    BY <2>2 DEF Active
  <2>5. /\ _q1_15(q.signal_amplitude) <= FullScale - 1
        /\ _q1_15(q.noise_amplitude) <= FullScale - 1
        /\ _q1_15(q.signal_amplitude) + _q1_15(q.noise_amplitude) <= FullScale + 1
        /\ _q1_15(q.signal_amplitude) \in Int /\ _q1_15(q.noise_amplitude) \in Int
    BY <2>3, AmplitudeWords
  <2>6. _q1_15(q.signal_amplitude) + _q1_15(q.noise_amplitude) > FullScale
    BY <2>1, <2>2, <2>3, <2>4, <2>5 DEF TargetRefuses, configuration_command
  <2> QED
    BY <2>4, <2>5, <2>6
<1>2. Inv => TargetRefusesOnlyRounding
  BY <1>1 DEF Inv, LaunchInv, TargetRefusesOnlyRounding
<1> QED
  BY <1>2, Invariance, PTL

-----------------------------------------------------------------------------
(* Sorting. *)

StrictOrder(order, S) ==
  /\ \A x \in S : <<x, x>> \notin order
  /\ \A x, y \in S : x # y => <<x, y>> \in order \/ <<y, x>> \in order
  /\ \A x, y, z \in S :
       <<x, y>> \in order /\ <<y, z>> \in order => <<x, z>> \in order

IsSorted(s, S, order) ==
  /\ s \in [1 .. Cardinality(S) -> S] /\ Cardinality(S) \in Nat
  /\ \A x \in S : \E i \in DOMAIN s : s[i] = x
  /\ \A i, j \in DOMAIN s : i < j => <<s[i], s[j]>> \in order

(* A non-empty set of numbers has a least one. *)
LEMMA Minimum ==
  ASSUME NEW S, S \subseteq Nat, S # {}
  PROVE  \E m \in S : \A n \in S : m <= n
<1>1. \E m \in S : \A n \in S : <<n, m>> \notin OpToRel(<, Nat)
  BY NatLessThanWellFounded, WFMin
<1>2. \A n, m \in S : <<n, m>> \notin OpToRel(<, Nat) => m <= n
  BY DEF OpToRel
<1> QED
  BY <1>1, <1>2

(* The ranks of the elements of S are the numbers below its cardinality,   *)
(* so every place of the sorted list has one.                              *)
LEMMA Sorting ==
  ASSUME NEW S, IsFiniteSet(S), NEW order, StrictOrder(order, S)
  PROVE  IsSorted(Sorted(S, order), S, order)
<1> DEFINE n == Cardinality(S)
           rank(x) == Cardinality(Below(S, order, x))
           f == [x \in S |-> rank(x)]
<1>1. n \in Nat
  BY FS_CardinalityType
<1>2. ASSUME NEW x \in S
      PROVE  IsFiniteSet(Below(S, order, x)) /\ rank(x) \in 0 .. n - 1
  <2>1. Below(S, order, x) \subseteq S \ {x}
    BY DEF StrictOrder, Below
  <2>2. IsFiniteSet(S \ {x}) /\ Cardinality(S \ {x}) = n - 1
    BY FS_RemoveElement
  <2>3. IsFiniteSet(Below(S, order, x)) /\ rank(x) <= n - 1
    BY <2>1, <2>2, FS_Subset
  <2> QED
    BY <1>1, <2>3, FS_CardinalityType
<1>3. ASSUME NEW x \in S, NEW y \in S, <<x, y>> \in order
      PROVE  rank(x) < rank(y)
  <2>1. /\ Below(S, order, x) \subseteq Below(S, order, y)
        /\ x \in Below(S, order, y) /\ x \notin Below(S, order, x)
    BY <1>3 DEF StrictOrder, Below
  <2>2. rank(x) <= rank(y) /\ rank(x) # rank(y)
    BY <1>2, <2>1, FS_Subset
  <2> QED
    BY <1>2, <2>2
<1>4. f \in Injection(S, 0 .. n - 1)
  <2>1. f \in [S -> 0 .. n - 1]
    BY <1>2
  <2>2. ASSUME NEW x \in S, NEW y \in S, x # y PROVE rank(x) # rank(y)
    <3>1. <<x, y>> \in order \/ <<y, x>> \in order
      BY <2>2 DEF StrictOrder
    <3>2. rank(x) < rank(y) \/ rank(y) < rank(x)
      BY <1>3, <3>1
    <3> QED
      BY <1>2, <3>2
  <2> HIDE DEF rank
  <2>3. \A x, y \in S : f[x] = f[y] => x = y
    BY <2>2
  <2> HIDE DEF f
  <2> QED
    BY <2>1, <2>3 DEF Injection, IsInjective
<1>5. IsFiniteSet(0 .. n - 1) /\ Cardinality(0 .. n - 1) = n
  BY <1>1, FS_Interval
<1>6. f \in Surjection(S, 0 .. n - 1)
  BY <1>4, <1>5, FS_Injection
<1>7. \A k \in 0 .. n - 1 : \E x \in S : f[x] = k
  BY <1>6 DEF Surjection
<1>8. \A k \in 1 .. n : \E x \in S : rank(x) = k - 1
  <2>1. \A x \in S : f[x] = rank(x)
    OBVIOUS
  <2>2. \A k \in 1 .. n : k - 1 \in 0 .. n - 1
    BY <1>1
  <2> HIDE DEF f, rank
  <2> QED
    BY <1>7, <2>1, <2>2
<1> DEFINE s == Sorted(S, order)
<1>9. s = [k \in 1 .. n |-> CHOOSE x \in S : rank(x) = k - 1]
  BY DEF Sorted
<1> HIDE DEF s, rank, f, n
<1>10. \A k \in 1 .. n : s[k] \in S /\ rank(s[k]) = k - 1
  BY <1>8, <1>9
<1>11. DOMAIN s = 1 .. n /\ s \in [1 .. n -> S]
  BY <1>9, <1>10
<1>12. ASSUME NEW x \in S PROVE \E i \in 1 .. n : s[i] = x
  <2>1. rank(x) + 1 \in 1 .. n
    BY <1>1, <1>2
  <2>2. rank(s[rank(x) + 1]) = rank(x) /\ s[rank(x) + 1] \in S
    BY <1>2, <1>10, <2>1
  <2>3. s[rank(x) + 1] = x
    <3>1. ASSUME NEW y \in S, y # x PROVE rank(y) # rank(x)
      <4>1. <<x, y>> \in order \/ <<y, x>> \in order
        BY <3>1 DEF StrictOrder
      <4>2. rank(x) < rank(y) \/ rank(y) < rank(x)
        BY <1>3, <4>1
      <4> QED
        BY <1>2, <4>2
    <3> QED
      BY <2>2, <3>1
  <2> QED
    BY <2>1, <2>3
<1>13. ASSUME NEW i \in 1 .. n, NEW j \in 1 .. n, i < j
       PROVE  <<s[i], s[j]>> \in order
  <2>1. rank(s[i]) < rank(s[j]) /\ s[i] \in S /\ s[j] \in S
    BY <1>1, <1>10, <1>13
  <2>2. s[i] # s[j] /\ ~ rank(s[j]) < rank(s[i])
    BY <1>2, <2>1
  <2> QED
    BY <1>3, <2>1, <2>2 DEF StrictOrder
<1> QED
  BY <1>1, <1>11, <1>12, <1>13 DEF IsSorted, s, n

-----------------------------------------------------------------------------
(* Documents. *)

AllFit(doc) == \A p \in Range(doc) : PulseFits(p)
NumberOrder(S) == {p \in S \X S : p[1] < p[2]}
BeforeOrder(S) == {p \in S \X S : Before(p[1], p[2])}

(* The pulses of a document. *)
LEMMA Pulses ==
  ASSUME NEW doc \in Seq(Pulse), AllFit(doc)
  PROVE  /\ DOMAIN doc = 1 .. Len(doc) /\ Len(doc) \in Nat
         /\ IsFiniteSet(DOMAIN doc)
         /\ \A i \in DOMAIN doc : doc[i] \in Range(doc)
         /\ \A p \in Range(doc) : \E i \in DOMAIN doc : p = doc[i]
         /\ \A p \in Range(doc) :
              /\ p.channel \in Channel /\ p.start \in 0 .. MaxTick
              /\ p.duration \in 1 .. MaxTick /\ p.start + p.duration \in 1 .. MaxTick
<1>1. DOMAIN doc = 1 .. Len(doc) /\ Len(doc) \in Nat
  OBVIOUS
<1>2. IsFiniteSet(DOMAIN doc)
  BY <1>1, FS_Interval
<1>3. \A i \in DOMAIN doc : doc[i] \in Range(doc) /\ doc[i] \in Pulse
  BY DEF Range
<1>4. \A p \in Range(doc) : \E i \in DOMAIN doc : p = doc[i]
  BY DEF Range
<1>5. ASSUME NEW p \in Range(doc)
      PROVE  /\ p.channel \in Channel /\ p.start \in 0 .. MaxTick
             /\ p.duration \in 1 .. MaxTick /\ p.start + p.duration \in 1 .. MaxTick
  <2>1. p \in Pulse /\ PulseFits(p)
    BY <1>3, <1>4 DEF AllFit
  <2>2. /\ p.channel \in Channel /\ p.start \in 0 .. MaxTick
        /\ p.duration \in 0 .. MaxTick /\ p.duration # 0
        /\ p.duration <= MaxTick - p.start
    BY <2>1 DEF Pulse, PulseFits
  <2> QED
    BY <2>2, SequenceAssumption
<1> QED
  BY <1>1, <1>2, <1>3, <1>4, <1>5

(* The change times in increasing order. *)
LEMMA Times ==
  ASSUME NEW doc \in Seq(Pulse), AllFit(doc)
  PROVE  /\ ChangeTimes(doc) \in Seq(0 .. MaxTick)
         /\ \A i, j \in DOMAIN ChangeTimes(doc) :
              i < j => ChangeTimes(doc)[i] < ChangeTimes(doc)[j]
         /\ \A t \in Changes(doc) : \E i \in DOMAIN ChangeTimes(doc) :
              ChangeTimes(doc)[i] = t
         /\ \A i \in DOMAIN ChangeTimes(doc) : ChangeTimes(doc)[i] \in Changes(doc)
<1> DEFINE all == Changes(doc)
           D == DOMAIN doc
           starts == {p.start : p \in Range(doc)}
           ends == {p.start + p.duration : p \in Range(doc)}
           f == [i \in D |-> doc[i].start]
           g == [i \in D |-> doc[i].start + doc[i].duration]
<1>1. IsFiniteSet(D)
  BY Pulses
<1>2. f \in Surjection(D, starts) /\ g \in Surjection(D, ends)
  BY Pulses DEF Surjection
<1>3. IsFiniteSet(starts) /\ IsFiniteSet(ends)
  BY <1>1, <1>2, FS_Surjection
<1>4. IsFiniteSet(all)
  BY <1>3, FS_Union DEF Changes
<1>5. all \subseteq 0 .. MaxTick
  BY Pulses, SequenceAssumption DEF Changes
<1>6. StrictOrder(NumberOrder(all), all)
  BY <1>5 DEF StrictOrder, NumberOrder
<1>7. IsSorted(ChangeTimes(doc), all, NumberOrder(all))
  BY <1>4, <1>6, Sorting DEF ChangeTimes, NumberOrder
<1> HIDE DEF all, D, starts, ends, f, g
<1>8. /\ ChangeTimes(doc) \in [1 .. Cardinality(all) -> all] /\ Cardinality(all) \in Nat
      /\ \A t \in all : \E i \in DOMAIN ChangeTimes(doc) : ChangeTimes(doc)[i] = t
      /\ \A i, j \in DOMAIN ChangeTimes(doc) : i < j =>
           <<ChangeTimes(doc)[i], ChangeTimes(doc)[j]>> \in NumberOrder(all)
  BY <1>7 DEF IsSorted
<1>9. ChangeTimes(doc) \in [1 .. Cardinality(all) -> 0 .. MaxTick]
  BY <1>5, <1>8
<1>10. ChangeTimes(doc) \in Seq(0 .. MaxTick)
  <2>1. ASSUME NEW S, NEW k \in Nat PROVE [1 .. k -> S] \subseteq Seq(S)
    <3>1. [1 .. k -> S] \in {[1 .. n -> S] : n \in Nat}
      OBVIOUS
    <3>2. [1 .. k -> S] \subseteq UNION {[1 .. n -> S] : n \in Nat}
      BY <3>1, Zenon
    <3> QED
      BY <3>2, SeqDef, Zenon
  <2> QED
    BY <1>8, <1>9, <2>1
<1>11. \A i \in DOMAIN ChangeTimes(doc) : ChangeTimes(doc)[i] \in all
  BY <1>8
<1>12. \A i, j \in DOMAIN ChangeTimes(doc) :
         i < j => ChangeTimes(doc)[i] < ChangeTimes(doc)[j]
  BY <1>8 DEF NumberOrder
<1> QED
  BY <1>8, <1>10, <1>11, <1>12 DEF all

(* The intervals of a channel in the order of their starts. *)
LEMMA Intervalled ==
  ASSUME NEW doc \in Seq(Pulse), AllFit(doc), NEW c \in Channel
  PROVE  IsSorted(Intervals(doc, c), IntervalsOf(doc, c), BeforeOrder(IntervalsOf(doc, c)))
<1> DEFINE all == IntervalsOf(doc, c)
           D == {j \in DOMAIN doc : doc[j].channel = c}
           f == [i \in D |-> [start |-> doc[i].start,
                              end |-> doc[i].start + doc[i].duration, index |-> i]]
<1>1. IsFiniteSet(D)
  BY Pulses, FS_Subset
<1>2. f \in Surjection(D, all)
  BY DEF Surjection, IntervalsOf
<1>3. IsFiniteSet(all)
  BY <1>1, <1>2, FS_Surjection
<1>4. \A x \in all : /\ x.start \in Nat /\ x.end \in Nat /\ x.index \in Nat
                     /\ x.index \in D /\ x = f[x.index]
  BY Pulses DEF IntervalsOf
<1>5. \A x, y \in all : x # y => x.index # y.index
  BY <1>4
<1>6. StrictOrder(BeforeOrder(all), all)
  <2> HIDE DEF all, f, D
  <2>1. \A x \in all : <<x, x>> \notin BeforeOrder(all)
    BY <1>4 DEF BeforeOrder, Before
  <2>2. \A x, y \in all : x # y =>
          <<x, y>> \in BeforeOrder(all) \/ <<y, x>> \in BeforeOrder(all)
    BY <1>4, <1>5 DEF BeforeOrder, Before
  <2>3. \A x, y, z \in all :
          <<x, y>> \in BeforeOrder(all) /\ <<y, z>> \in BeforeOrder(all)
            => <<x, z>> \in BeforeOrder(all)
    BY <1>4 DEF BeforeOrder, Before
  <2> QED
    BY <2>1, <2>2, <2>3 DEF StrictOrder
<1> QED
  BY <1>3, <1>6, Sorting DEF Intervals, BeforeOrder

(* Intervals that do not overlap their neighbours overlap none.            *)
LEMMA Neighbours ==
  ASSUME NEW n \in Nat, NEW s, DOMAIN s = 1 .. n, Len(s) = n, ~Overlaps(s),
         \A k \in 1 .. n : s[k].start \in Nat /\ s[k].end \in Nat
                             /\ s[k].start < s[k].end,
         NEW a \in 1 .. n, NEW b \in 1 .. n, a < b
  PROVE  s[a].end <= s[b].start
<1> DEFINE Bad == {k \in a + 1 .. n : s[k].start < s[a].end}
<1>1. ASSUME NEW m \in Bad, \A k \in Bad : m <= k PROVE FALSE
  <2>0. \A k \in 1 .. n - 1 : s[k].end <= s[k + 1].start
    BY DEF Overlaps
  <2>1. CASE m = a + 1
    <3>1. a \in 1 .. n - 1
      BY <2>1
    <3>2. s[a].end <= s[a + 1].start
      BY <2>0, <3>1
    <3> QED
      BY <2>1, <3>2
  <2>2. CASE m # a + 1
    <3>1. m - 1 \in a + 1 .. n /\ m - 1 \notin Bad /\ m - 1 \in 1 .. n - 1
      BY <1>1, <2>2
    <3>2. s[m - 1].end <= s[(m - 1) + 1].start
      BY <2>0, <3>1
    <3>3. (m - 1) + 1 = m /\ m \in 1 .. n /\ m - 1 \in 1 .. n
      BY <3>1
    <3>4. s[a].end <= s[m - 1].start
      BY <3>1, <3>3
    <3> QED
      BY <3>2, <3>3, <3>4
  <2> QED
    BY <2>1, <2>2
<1>2. Bad \subseteq Nat
  OBVIOUS
<1>3. Bad = {}
  <2> HIDE DEF Bad
  <2> QED
    BY <1>1, <1>2, Minimum
<1> QED
  BY <1>3

(* The walk over the sorted intervals of each channel finds an overlap     *)
(* exactly when two pulses of one channel share a tick.                    *)
LEMMA OverlapsFound ==
  ASSUME NEW doc \in Seq(Pulse), AllFit(doc)
  PROVE  (\E c \in Channel : Overlaps(Intervals(doc, c))) <=> ~Disjoint(doc)
<1>1. ASSUME NEW c \in Channel
      PROVE  LET s == Intervals(doc, c)
                 n == Cardinality(IntervalsOf(doc, c))
             IN  /\ n \in Nat /\ DOMAIN s = 1 .. n /\ Len(s) = n
                 /\ \A k \in 1 .. n :
                      /\ s[k].index \in DOMAIN doc /\ doc[s[k].index].channel = c
                      /\ s[k].start = doc[s[k].index].start
                      /\ s[k].end = doc[s[k].index].start + doc[s[k].index].duration
                      /\ s[k].start \in Nat /\ s[k].end \in Nat
                      /\ s[k].start < s[k].end
                 /\ \A i \in DOMAIN doc : doc[i].channel = c =>
                      \E k \in 1 .. n : s[k].index = i
                 /\ \A j, k \in 1 .. n : j < k => Before(s[j], s[k])
  <2> DEFINE s == Intervals(doc, c)
             all == IntervalsOf(doc, c)
             n == Cardinality(all)
  <2>1. /\ s \in [1 .. n -> all] /\ n \in Nat
        /\ \A x \in all : \E k \in DOMAIN s : s[k] = x
        /\ \A i, j \in DOMAIN s : i < j => <<s[i], s[j]>> \in BeforeOrder(all)
    BY Intervalled DEF IsSorted
  <2>2. \A x \in all :
          /\ x.index \in DOMAIN doc /\ doc[x.index].channel = c
          /\ x.start = doc[x.index].start
          /\ x.end = doc[x.index].start + doc[x.index].duration
    <3> SUFFICES ASSUME NEW x \in all
                 PROVE  /\ x.index \in DOMAIN doc /\ doc[x.index].channel = c
                        /\ x.start = doc[x.index].start
                        /\ x.end = doc[x.index].start + doc[x.index].duration
      OBVIOUS
    <3>1. PICK i \in {j \in DOMAIN doc : doc[j].channel = c} :
            x = [start |-> doc[i].start, end |-> doc[i].start + doc[i].duration,
                 index |-> i]
      BY DEF IntervalsOf
    <3> QED
      BY <3>1
  <2>3. ASSUME NEW i \in DOMAIN doc, doc[i].channel = c
        PROVE  \E x \in all : x.index = i
    <3> DEFINE x == [start |-> doc[i].start, end |-> doc[i].start + doc[i].duration,
                     index |-> i]
    <3>1. x \in all /\ x.index = i
      BY <2>3 DEF IntervalsOf
    <3> QED
      BY <3>1
  <2>4. \A x \in all : x.start \in Nat /\ x.end \in Nat /\ x.start < x.end
    <3> SUFFICES ASSUME NEW x \in all
                 PROVE  x.start \in Nat /\ x.end \in Nat /\ x.start < x.end
      OBVIOUS
    <3> DEFINE a == doc[x.index].start
               b == doc[x.index].duration
    <3>1. a \in 0 .. MaxTick /\ b \in 1 .. MaxTick
      BY <2>2, Pulses
    <3>2. x.start = a /\ x.end = a + b
      BY <2>2
    <3> HIDE DEF all, a, b
    <3> QED
      BY <3>1, <3>2, SequenceAssumption
  <2> HIDE DEF s, all
  <2>5. DOMAIN s = 1 .. n /\ Len(s) = n /\ \A k \in 1 .. n : s[k] \in all
    BY <2>1
  <2>6. \A j, k \in 1 .. n : j < k => Before(s[j], s[k])
    BY <2>1, <2>5 DEF BeforeOrder
  <2>7. \A i \in DOMAIN doc : doc[i].channel = c => \E k \in 1 .. n : s[k].index = i
    BY <2>1, <2>3, <2>5
  <2> QED
    BY <2>1, <2>2, <2>4, <2>5, <2>6, <2>7 DEF s, all
<1>2. ASSUME NEW c \in Channel, Overlaps(Intervals(doc, c)) PROVE ~Disjoint(doc)
  <2> DEFINE s == Intervals(doc, c)
             n == Cardinality(IntervalsOf(doc, c))
  <2>1. PICK k \in 1 .. n - 1 : s[k + 1].start < s[k].end
    BY <1>1, <1>2 DEF Overlaps
  <2>2. k \in 1 .. n /\ k + 1 \in 1 .. n /\ k < k + 1
    BY <1>1, <2>1
  <2>3. /\ Before(s[k], s[k + 1])
        /\ s[k].start \in Nat /\ s[k].end \in Nat /\ s[k].start < s[k].end
        /\ s[k + 1].start \in Nat /\ s[k + 1].end \in Nat
        /\ s[k + 1].start < s[k + 1].end
    BY <1>1, <2>2
  <2> DEFINE i == s[k].index
             j == s[k + 1].index
  <2>4. /\ i \in DOMAIN doc /\ j \in DOMAIN doc /\ doc[i].channel = doc[j].channel
        /\ s[k].start = doc[i].start /\ s[k].end = doc[i].start + doc[i].duration
        /\ s[k + 1].start = doc[j].start
        /\ s[k + 1].end = doc[j].start + doc[j].duration
    BY <1>1, <2>2
  <2>5. i \in Nat /\ j \in Nat
    BY <2>4, Pulses
  <2> HIDE DEF s, n, i, j
  <2>6. i # j
    BY <2>3, <2>4, <2>5 DEF Before, i, j
  <2>7. s[k].start <= s[k + 1].start
    BY <2>3 DEF Before
  <2> QED
    BY <2>1, <2>3, <2>4, <2>6, <2>7 DEF Disjoint
<1>3. ASSUME \A c \in Channel : ~Overlaps(Intervals(doc, c)) PROVE Disjoint(doc)
  <2> SUFFICES ASSUME NEW i \in DOMAIN doc, NEW j \in DOMAIN doc, i # j,
                      doc[i].channel = doc[j].channel
               PROVE  \/ doc[i].start + doc[i].duration <= doc[j].start
                      \/ doc[j].start + doc[j].duration <= doc[i].start
    BY DEF Disjoint
  <2> DEFINE c == doc[i].channel
             s == Intervals(doc, c)
             n == Cardinality(IntervalsOf(doc, c))
  <2>1. c \in Channel
    BY Pulses
  <2>2. ~Overlaps(s)
    BY <1>3, <2>1
  <2>3. /\ n \in Nat /\ DOMAIN s = 1 .. n /\ Len(s) = n
        /\ \A k \in 1 .. n :
             /\ s[k].start = doc[s[k].index].start
             /\ s[k].end = doc[s[k].index].start + doc[s[k].index].duration
             /\ s[k].start \in Nat /\ s[k].end \in Nat /\ s[k].start < s[k].end
    BY <1>1, <2>1
  <2>4. (\E k \in 1 .. n : s[k].index = i) /\ (\E k \in 1 .. n : s[k].index = j)
    BY <1>1, <2>1
  <2>5. PICK a \in 1 .. n : s[a].index = i
    BY <2>4
  <2>6. PICK b \in 1 .. n : s[b].index = j
    BY <2>4
  <2>7. a < b \/ b < a
    BY <2>5, <2>6
  <2> HIDE DEF s, n, c
  <2>8. s[a].end <= s[b].start \/ s[b].end <= s[a].start
    BY <2>2, <2>3, <2>7, Neighbours
  <2> QED
    BY <2>3, <2>5, <2>6, <2>8
<1> QED
  BY <1>2, <1>3

-----------------------------------------------------------------------------
(* What a well-formed document wants at each tick. *)

Accepted(doc) == doc \in Seq(Pulse) /\ AllFit(doc) /\ Disjoint(doc)
Prior(doc, t) == IF t = 0 THEN {} ELSE Wanted(doc, t - 1)

(* The outputs wanted stay the same from t to u unless a pulse starts or   *)
(* ends in between.                                                        *)
LEMMA Steady ==
  ASSUME NEW doc \in Seq(Pulse), AllFit(doc), NEW t \in Nat, NEW u \in Nat, t <= u,
         \A x \in Changes(doc) : ~(t < x /\ x <= u)
  PROVE  Wanted(doc, t) = Wanted(doc, u)
<1>1. ASSUME NEW p \in Range(doc)
      PROVE  (p.start <= t /\ t < p.start + p.duration)
               <=> (p.start <= u /\ u < p.start + p.duration)
  <2> DEFINE a == p.start
             b == p.start + p.duration
  <2>1. a \in Changes(doc) /\ b \in Changes(doc)
    BY DEF Changes
  <2>2. a \in Nat /\ b \in Nat
    BY Pulses, SequenceAssumption
  <2> HIDE DEF a, b
  <2>3. ~(t < a /\ a <= u) /\ ~(t < b /\ b <= u)
    BY <2>1
  <2>4. (a <= t /\ t < b) <=> (a <= u /\ u < b)
    BY <2>2, <2>3
  <2> QED
    BY <2>4 DEF a, b
<1> QED
  BY <1>1 DEF Wanted

(* Nothing is wanted before the first change and after the last one.       *)
LEMMA Silent ==
  ASSUME NEW doc \in Seq(Pulse), AllFit(doc), NEW t \in Nat,
         (\A x \in Changes(doc) : t < x) \/ (\A x \in Changes(doc) : x <= t)
  PROVE  Wanted(doc, t) = {}
<1>1. ASSUME NEW p \in Range(doc), p.start <= t, t < p.start + p.duration
      PROVE  FALSE
  <2>1. p.start \in Changes(doc) /\ p.start + p.duration \in Changes(doc)
    BY DEF Changes
  <2>2. p.start \in Nat /\ p.start + p.duration \in Nat
    BY Pulses, SequenceAssumption
  <2> QED
    BY <1>1, <2>1, <2>2
<1> QED
  BY <1>1 DEF Wanted

(* Clear first, then set: the outputs go from those wanted before t to     *)
(* those wanted at t.                                                      *)
LEMMA Turn ==
  ASSUME NEW doc, Accepted(doc), NEW t \in Nat
  PROVE  NextState(doc, Prior(doc, t), t) = Wanted(doc, t)
<1>0. doc \in Seq(Pulse) /\ AllFit(doc) /\ Disjoint(doc)
  BY DEF Accepted
<1>1. \A p \in Range(doc) :
        /\ p.channel \in Channel /\ p.start \in Nat /\ p.duration \in Nat
        /\ p.duration >= 1
  BY <1>0, Pulses, SequenceAssumption
<1>2. ASSUME NEW p \in Range(doc), p.start <= t, t < p.start + p.duration
      PROVE  p.channel \in NextState(doc, Prior(doc, t), t)
  <2>1. CASE p.start = t
    BY <2>1 DEF NextState, Starts
  <2>2. CASE p.start < t
    <3>1. t # 0 /\ p.start <= t - 1 /\ t - 1 < p.start + p.duration
      BY <1>1, <1>2, <2>2
    <3>2. p.channel \in Prior(doc, t)
      BY <1>1, <3>1 DEF Prior, Wanted
    <3>3. ASSUME NEW q \in Range(doc), q.start + q.duration = t,
                 q.channel = p.channel
          PROVE  FALSE
      <4>1. PICK i \in DOMAIN doc : p = doc[i]
        BY <1>0, Pulses
      <4>2. PICK j \in DOMAIN doc : q = doc[j]
        BY <1>0, Pulses
      <4>3. i # j
        BY <1>2, <3>3, <4>1, <4>2
      <4>4. \/ p.start + p.duration <= q.start
            \/ q.start + q.duration <= p.start
        BY <1>0, <3>3, <4>1, <4>2, <4>3 DEF Disjoint
      <4>5. q.start < t
        BY <1>1, <3>3
      <4> QED
        BY <1>1, <1>2, <2>2, <3>3, <4>4, <4>5
    <3>4. p.channel \notin Ends(doc, t)
      BY <3>3 DEF Ends
    <3> QED
      BY <3>2, <3>4 DEF NextState
  <2> QED
    BY <1>1, <1>2, <2>1, <2>2
<1>3. ASSUME NEW c \in NextState(doc, Prior(doc, t), t)
      PROVE  c \in Wanted(doc, t)
  <2>1. CASE c \in Starts(doc, t)
    <3>1. PICK p \in Range(doc) : p.start = t /\ p.channel = c
      BY <2>1 DEF Starts
    <3>2. p.start <= t /\ t < p.start + p.duration /\ c \in Channel
      BY <1>1, <3>1
    <3> QED
      BY <3>1, <3>2 DEF Wanted
  <2>2. CASE c \notin Starts(doc, t)
    <3>1. c \in Prior(doc, t) /\ c \notin Ends(doc, t)
      BY <1>3, <2>2 DEF NextState
    <3>2. t # 0
      BY <3>1 DEF Prior
    <3>3. PICK p \in Range(doc) :
            p.channel = c /\ p.start <= t - 1 /\ t - 1 < p.start + p.duration
      BY <3>1, <3>2 DEF Prior, Wanted
    <3>4. p.start + p.duration # t
      BY <3>1, <3>3 DEF Ends
    <3>5. p.start <= t /\ t < p.start + p.duration /\ c \in Channel
      BY <1>1, <3>2, <3>3, <3>4
    <3> QED
      BY <3>3, <3>5 DEF Wanted
  <2> QED
    BY <2>1, <2>2
<1> QED
  BY <1>2, <1>3 DEF Wanted

(* The edges are the ticks that differ from the one before; each is a      *)
(* change time.                                                            *)
LEMMA EdgesAre ==
  ASSUME NEW doc \in Seq(Pulse), AllFit(doc)
  PROVE  /\ Edges(doc) = {t \in 0 .. MaxTick : Wanted(doc, t) # Prior(doc, t)}
         /\ Edges(doc) \subseteq Changes(doc) /\ Changes(doc) \subseteq 0 .. MaxTick
<1>1. Edges(doc) = {t \in 0 .. MaxTick : Wanted(doc, t) # Prior(doc, t)}
  BY SequenceAssumption DEF Edges, Prior
<1>2. ASSUME NEW t \in Edges(doc), t \notin Changes(doc) PROVE FALSE
  <2>1. t \in Nat /\ Wanted(doc, t) # Prior(doc, t)
    BY <1>1
  <2>2. CASE t = 0
    <3>1. PICK p \in Range(doc) : p.start <= 0
      BY <2>1, <2>2 DEF Wanted, Prior
    <3>2. p.start \in Nat
      BY Pulses, SequenceAssumption
    <3>3. p.start = t
      BY <2>2, <3>1, <3>2
    <3> QED
      BY <1>2, <3>3 DEF Changes
  <2>3. CASE t # 0
    <3>1. Changes(doc) \subseteq Nat
      BY Pulses, SequenceAssumption DEF Changes
    <3>2. \A x \in Changes(doc) : ~(t - 1 < x /\ x <= t)
      BY <1>2, <2>1, <3>1
    <3>3. Wanted(doc, t - 1) = Wanted(doc, t)
      BY <2>1, <2>3, <3>2, Steady
    <3> QED
      BY <2>1, <2>3, <3>3 DEF Prior
  <2> QED
    BY <2>2, <2>3
<1>3. Changes(doc) \subseteq 0 .. MaxTick
  BY Pulses, SequenceAssumption DEF Changes
<1> QED
  BY <1>1, <1>2, <1>3

(* Without an edge in between the same outputs are wanted.                 *)
LEMMA Constant ==
  ASSUME NEW doc \in Seq(Pulse), AllFit(doc), NEW t \in Nat, NEW u \in Nat,
         t <= u, u <= MaxTick, \A x \in Edges(doc) : ~(t < x /\ x <= u)
  PROVE  Wanted(doc, u) = Wanted(doc, t)
<1> DEFINE Bad == {v \in t .. u : Wanted(doc, v) # Wanted(doc, t)}
<1>1. ASSUME NEW m \in Bad, \A k \in Bad : m <= k PROVE FALSE
  <2>1. m \in Nat /\ t < m /\ m <= u /\ m # t
    BY <1>1
  <2>2. m - 1 \in t .. u /\ m - 1 \notin Bad
    BY <1>1, <2>1
  <2>3. Wanted(doc, m - 1) = Wanted(doc, t)
    BY <2>2
  <2>4. m \notin Edges(doc)
    BY <2>1
  <2>5. m \in 0 .. MaxTick
    BY <2>1, SequenceAssumption
  <2>6. Wanted(doc, m) = Prior(doc, m)
    BY <2>4, <2>5, EdgesAre
  <2> QED
    BY <1>1, <2>1, <2>3, <2>6 DEF Prior
<1>2. Bad \subseteq Nat
  OBVIOUS
<1>3. Bad = {}
  <2> HIDE DEF Bad
  <2> QED
    BY <1>1, <1>2, Minimum
<1> QED
  BY <1>3

-----------------------------------------------------------------------------
(* The walk over the change times. *)

Event == [at : 0 .. MaxTick, state : SUBSET Channel]
Start == [state |-> {}, events |-> <<>>]
Step(doc, w, k) == IF k = 0 THEN Start ELSE Apply(doc, w[k - 1], ChangeTimes(doc)[k])
Walks(doc, w, n) == w = [k \in 0 .. n |-> Step(doc, w, k)]

(* There is a walk of any length: a shorter one goes one step on.          *)
LEMMA WalkExists ==
  ASSUME NEW doc, NEW n \in Nat
  PROVE  \E w : Walks(doc, w, n)
<1> DEFINE Bad == {k \in Nat : ~ \E w : Walks(doc, w, k)}
<1>1. ASSUME NEW m \in Bad, \A k \in Bad : m <= k PROVE FALSE
  <2>1. CASE m = 0
    <3> DEFINE w == [k \in 0 .. 0 |-> Start]
    <3>1. w = [k \in 0 .. 0 |-> Step(doc, w, k)]
      BY DEF Step
    <3> QED
      BY <1>1, <2>1, <3>1 DEF Walks
  <2>2. CASE m # 0
    <3>1. m - 1 \in Nat /\ m - 1 \notin Bad
      BY <1>1, <2>2
    <3>2. PICK g : Walks(doc, g, m - 1)
      BY <3>1
    <3> DEFINE w == [k \in 0 .. m |-> Step(doc, g, k)]
    <3>3. ASSUME NEW k \in 0 .. m - 1 PROVE w[k] = g[k]
      <4>1. g[k] = Step(doc, g, k)
        BY <3>2 DEF Walks
      <4>2. k \in 0 .. m
        BY <3>1
      <4> QED
        BY <4>1, <4>2
    <3>4. ASSUME NEW k \in 0 .. m PROVE w[k] = Step(doc, w, k)
      <4>1. w[k] = Step(doc, g, k)
        OBVIOUS
      <4>2. CASE k = 0
        BY <4>1, <4>2 DEF Step
      <4>3. CASE k # 0
        <5>1. k - 1 \in 0 .. m - 1
          BY <4>3
        <5>2. w[k - 1] = g[k - 1]
          BY <3>3, <5>1
        <5> HIDE DEF w
        <5> QED
          BY <4>1, <5>2 DEF Step
      <4> QED
        BY <4>2, <4>3
    <3>5. w = [k \in 0 .. m |-> w[k]]
      OBVIOUS
    <3> HIDE DEF w
    <3>6. w = [k \in 0 .. m |-> Step(doc, w, k)]
      BY <3>4, <3>5
    <3> QED
      BY <1>1, <3>6 DEF Walks
  <2> QED
    BY <2>1, <2>2
<1>2. Bad \subseteq Nat
  OBVIOUS
<1>3. Bad = {}
  <2> HIDE DEF Bad
  <2> QED
    BY <1>1, <1>2, Minimum
<1> QED
  BY <1>3

(* The events of a document are what a walk to the last change time leaves. *)
LEMMA EventsWalk ==
  ASSUME NEW doc \in Seq(Pulse), AllFit(doc)
  PROVE  \E w : /\ \A k \in 0 .. Len(ChangeTimes(doc)) : w[k] = Step(doc, w, k)
                /\ Events(doc) = w[Len(ChangeTimes(doc))].events
<1> DEFINE times == ChangeTimes(doc)
           Is(w) == w = [k \in 0 .. Len(times) |->
                           IF k = 0 THEN [state |-> {}, events |-> <<>>]
                           ELSE Apply(doc, w[k - 1], times[k])]
           w == CHOOSE v : Is(v)
<1>1. Len(times) \in Nat
  BY Times
<1>2. \E v : Is(v)
  BY <1>1, WalkExists DEF Walks, Step, Start
<1>3. Is(w)
  BY <1>2
<1>4. Events(doc) = w[Len(times)].events
  BY DEF Events
<1>5. \A k \in 0 .. Len(times) : w[k] = Step(doc, w, k)
  <2>1. ASSUME NEW k \in 0 .. Len(times)
        PROVE  w[k] = IF k = 0 THEN [state |-> {}, events |-> <<>>]
                      ELSE Apply(doc, w[k - 1], times[k])
    <3> HIDE DEF w, times
    <3> QED
      BY <1>3
  <2> HIDE DEF w
  <2> QED
    BY <2>1 DEF Step, Start
<1> QED
  BY <1>4, <1>5

(* Up to its k-th change time a walk has the state wanted there, and one   *)
(* event for each edge, in order.                                          *)
WalkOK(doc, a, k) ==
  LET T == ChangeTimes(doc)
      E == a.events
  IN  /\ a.state = IF k = 0 THEN {} ELSE Wanted(doc, T[k])
      /\ E \in Seq(Event)
      /\ \A i \in 1 .. Len(E) : /\ E[i].at \in Edges(doc)
                                /\ E[i].state = Wanted(doc, E[i].at)
                                /\ k > 0 /\ E[i].at <= T[k]
      /\ \A i, j \in 1 .. Len(E) : i < j => E[i].at < E[j].at
      /\ \A j \in 1 .. k : T[j] \in Edges(doc) =>
           \E i \in 1 .. Len(E) : E[i].at = T[j]

(* What the walk brings to a change time is what was wanted before it.     *)
LEMMA Carried ==
  ASSUME NEW doc, Accepted(doc), NEW k \in 1 .. Len(ChangeTimes(doc)),
         NEW a, WalkOK(doc, a, k - 1)
  PROVE  a.state = Prior(doc, ChangeTimes(doc)[k])
<1> DEFINE T == ChangeTimes(doc)
           t == T[k]
<1>0. doc \in Seq(Pulse) /\ AllFit(doc)
  BY DEF Accepted
<1>1. /\ T \in Seq(0 .. MaxTick) /\ \A i, j \in DOMAIN T : i < j => T[i] < T[j]
      /\ \A x \in Changes(doc) : \E i \in DOMAIN T : T[i] = x
      /\ Changes(doc) \subseteq 0 .. MaxTick
  BY <1>0, Times, EdgesAre
<1>2. DOMAIN T = 1 .. Len(T) /\ Len(T) \in Nat /\ \A i \in DOMAIN T : T[i] \in Nat
  BY <1>1, SequenceAssumption
<1>3. a.state = IF k - 1 = 0 THEN {} ELSE Wanted(doc, T[k - 1])
  BY DEF WalkOK
<1> HIDE DEF T
<1>4. t \in Nat /\ k \in DOMAIN T
  BY <1>2 DEF T
<1>5. CASE k = 1
  <2>1. \A i \in DOMAIN T : i = 1 \/ 1 < i
    BY <1>2
  <2>2. \A x \in Changes(doc) : t <= x
    BY <1>1, <1>2, <1>4, <1>5, <2>1
  <2>3. t # 0 => Wanted(doc, t - 1) = {}
    <3> SUFFICES ASSUME t # 0 PROVE Wanted(doc, t - 1) = {}
      OBVIOUS
    <3>1. t - 1 \in Nat /\ \A x \in Changes(doc) : t - 1 < x
      BY <1>1, <1>4, <2>2
    <3> QED
      BY <1>0, <3>1, Silent
  <2> QED
    BY <1>3, <1>5, <2>3 DEF Prior, T
<1>6. CASE k # 1
  <2>1. k - 1 \in DOMAIN T /\ k - 1 < k /\ k - 1 # 0 /\ k \in Nat
    BY <1>2, <1>4, <1>6
  <2> DEFINE u == T[k - 1]
  <2>2. u \in Nat /\ u < t
    BY <1>1, <1>2, <1>4, <2>1
  <2>3. ASSUME NEW x \in Changes(doc), u < x, x < t PROVE FALSE
    <3>1. PICK i \in DOMAIN T : T[i] = x
      BY <1>1
    <3>2. i <= k - 1 \/ k <= i
      BY <1>2, <2>1
    <3>3. (i < k - 1 => T[i] < u) /\ (k < i => t < T[i])
      BY <1>1, <1>4, <2>1
    <3> QED
      BY <1>2, <1>4, <2>1, <2>2, <2>3, <3>1, <3>2, <3>3
  <2> HIDE DEF u, t
  <2>4. \A x \in Changes(doc) : ~(u < x /\ x <= t - 1)
    BY <1>1, <1>4, <2>3
  <2>5. Wanted(doc, u) = Wanted(doc, t - 1)
    BY <1>0, <1>4, <2>2, <2>4, Steady
  <2>6. a.state = Wanted(doc, u) /\ t # 0
    BY <1>3, <1>4, <2>1, <2>2 DEF u
  <2> QED
    BY <2>5, <2>6 DEF Prior, t, T
<1> QED
  BY <1>5, <1>6

(* One more change time: an event exactly when it is an edge.              *)
LEMMA WalkStep ==
  ASSUME NEW doc, Accepted(doc), NEW k \in 1 .. Len(ChangeTimes(doc)),
         NEW a, WalkOK(doc, a, k - 1)
  PROVE  WalkOK(doc, Apply(doc, a, ChangeTimes(doc)[k]), k)
<1> DEFINE T == ChangeTimes(doc)
           t == T[k]
           E == a.events
           next == Wanted(doc, t)
           b == Apply(doc, a, t)
           F == b.events
<1>0. doc \in Seq(Pulse) /\ AllFit(doc)
  BY DEF Accepted
<1>1. /\ T \in Seq(0 .. MaxTick) /\ \A i, j \in DOMAIN T : i < j => T[i] < T[j]
  BY <1>0, Times
<1>2. /\ DOMAIN T = 1 .. Len(T) /\ Len(T) \in Nat
      /\ \A i \in DOMAIN T : T[i] \in Nat /\ T[i] \in 0 .. MaxTick
  BY <1>1, SequenceAssumption
<1>3. t \in Nat /\ t \in 0 .. MaxTick /\ k \in Nat /\ k >= 1
  BY <1>2
<1>4. a.state = Prior(doc, t)
  BY Carried
<1>5. NextState(doc, a.state, t) = next
  BY <1>3, <1>4, Turn
<1>6. /\ b.state = next
      /\ F = IF next = a.state THEN E ELSE Append(E, [at |-> t, state |-> next])
  BY <1>5 DEF Apply
<1>7. t \in Edges(doc) <=> next # a.state
  BY <1>0, <1>3, <1>4, EdgesAre
<1>8. /\ E \in Seq(Event)
      /\ \A i \in 1 .. Len(E) : /\ E[i].at \in Edges(doc)
                                /\ E[i].state = Wanted(doc, E[i].at)
                                /\ k - 1 > 0 /\ E[i].at <= T[k - 1]
      /\ \A i, j \in 1 .. Len(E) : i < j => E[i].at < E[j].at
      /\ \A j \in 1 .. k - 1 : T[j] \in Edges(doc) =>
           \E i \in 1 .. Len(E) : E[i].at = T[j]
  BY DEF WalkOK
<1> HIDE DEF T, E, b
<1>9. ASSUME NEW i \in 1 .. Len(E) PROVE E[i].at < t /\ E[i].at \in Nat
  <2>1. k - 1 \in DOMAIN T /\ k \in DOMAIN T /\ k - 1 < k
    BY <1>2, <1>3, <1>8 DEF T
  <2>2. T[k - 1] < t /\ T[k - 1] \in Nat
    BY <1>1, <1>2, <2>1
  <2>3. E[i].at \in Nat
    BY <1>0, <1>8, EdgesAre, SequenceAssumption
  <2> QED
    BY <1>3, <1>8, <2>2, <2>3
<1>10. next \in SUBSET Channel
  BY DEF Wanted
<1>11. CASE next = a.state
  <2>1. F = E /\ t \notin Edges(doc)
    BY <1>6, <1>7, <1>11
  <2>2. \A i \in 1 .. Len(F) : F[i].at <= t
    BY <1>3, <1>9, <2>1
  <2>3. \A j \in 1 .. k : T[j] \in Edges(doc) => \E i \in 1 .. Len(F) : F[i].at = T[j]
    <3> SUFFICES ASSUME NEW j \in 1 .. k, T[j] \in Edges(doc)
                 PROVE  \E i \in 1 .. Len(F) : F[i].at = T[j]
      OBVIOUS
    <3>1. j # k
      BY <2>1
    <3>2. j \in 1 .. k - 1
      BY <1>3, <3>1
    <3> QED
      BY <1>8, <2>1, <3>2
  <2> HIDE DEF F
  <2>4. k # 0 /\ k > 0 /\ b.state = next
    BY <1>3, <1>6
  <2>5. /\ F \in Seq(Event)
        /\ \A i \in 1 .. Len(F) : /\ F[i].at \in Edges(doc)
                                  /\ F[i].state = Wanted(doc, F[i].at)
        /\ \A i, j \in 1 .. Len(F) : i < j => F[i].at < F[j].at
    BY <1>8, <2>1
  <2> QED
    BY <2>2, <2>3, <2>4, <2>5 DEF WalkOK, T, b, F
<1>12. CASE next # a.state
  <2> DEFINE e == [at |-> t, state |-> next]
  <2>1. F = Append(E, e) /\ t \in Edges(doc)
    BY <1>6, <1>7, <1>12
  <2>2. e \in Event
    BY <1>3, <1>10 DEF Event
  <2>3. /\ F \in Seq(Event) /\ Len(F) = Len(E) + 1 /\ Len(E) \in Nat
        /\ \A i \in 1 .. Len(E) : F[i] = E[i]
        /\ F[Len(E) + 1] = e
    BY <1>8, <2>1, <2>2, AppendProperties
  <2> HIDE DEF F
  <2>4. \A i \in 1 .. Len(F) : i \in 1 .. Len(E) \/ i = Len(E) + 1
    BY <2>3
  <2>5. e.at = t /\ e.state = next
    OBVIOUS
  <2> HIDE DEF e
  <2>6. ASSUME NEW i \in 1 .. Len(F)
        PROVE  /\ F[i].at \in Edges(doc) /\ F[i].state = Wanted(doc, F[i].at)
               /\ k > 0 /\ F[i].at <= t
    <3>1. CASE i \in 1 .. Len(E)
      BY <1>3, <1>8, <1>9, <2>3, <3>1
    <3>2. CASE i = Len(E) + 1
      BY <1>3, <2>1, <2>3, <2>5, <3>2
    <3> QED
      BY <2>4, <3>1, <3>2
  <2>7. ASSUME NEW i \in 1 .. Len(F), NEW j \in 1 .. Len(F), i < j
        PROVE  F[i].at < F[j].at
    <3>1. i \in 1 .. Len(E) /\ F[i] = E[i]
      BY <2>3, <2>4, <2>7
    <3>2. CASE j \in 1 .. Len(E)
      BY <1>8, <2>3, <2>7, <3>1, <3>2
    <3>3. CASE j = Len(E) + 1
      BY <1>9, <2>3, <2>5, <3>1, <3>3
    <3> QED
      BY <2>4, <3>2, <3>3
  <2>8. ASSUME NEW j \in 1 .. k, T[j] \in Edges(doc)
        PROVE  \E i \in 1 .. Len(F) : F[i].at = T[j]
    <3>1. CASE j = k
      <4>1. Len(E) + 1 \in 1 .. Len(F) /\ F[Len(E) + 1].at = T[j]
        BY <2>3, <2>5, <3>1
      <4> QED
        BY <4>1
    <3>2. CASE j # k
      <4>1. j \in 1 .. k - 1
        BY <1>3, <3>2
      <4>2. PICK i \in 1 .. Len(E) : E[i].at = T[j]
        BY <1>8, <2>8, <4>1
      <4>3. i \in 1 .. Len(F) /\ F[i].at = T[j]
        BY <2>3, <4>2
      <4> QED
        BY <4>3
    <3> QED
      BY <3>1, <3>2
  <2> QED
    BY <1>3, <1>6, <2>3, <2>6, <2>7, <2>8 DEF WalkOK, T, b, F
<1> QED
  BY <1>11, <1>12

(* The events: one for each edge of the wanted outputs, in order.          *)
LEMMA EventsExact ==
  ASSUME NEW doc, Accepted(doc)
  PROVE  LET E == Events(doc)
         IN  /\ E \in Seq(Event)
             /\ \A i \in 1 .. Len(E) : /\ E[i].at \in Edges(doc)
                                       /\ E[i].state = Wanted(doc, E[i].at)
             /\ \A i, j \in 1 .. Len(E) : i < j => E[i].at < E[j].at
             /\ \A t \in Edges(doc) : \E i \in 1 .. Len(E) : E[i].at = t
<1> DEFINE T == ChangeTimes(doc)
           n == Len(T)
<1>0. doc \in Seq(Pulse) /\ AllFit(doc)
  BY DEF Accepted
<1>1. PICK w : /\ \A k \in 0 .. n : w[k] = Step(doc, w, k)
               /\ Events(doc) = w[n].events
  BY <1>0, EventsWalk
<1>2. n \in Nat /\ DOMAIN T = 1 .. n /\ Edges(doc) \subseteq Changes(doc)
        /\ \A x \in Changes(doc) : \E i \in DOMAIN T : T[i] = x
  BY <1>0, Times, EdgesAre
<1> DEFINE Bad == {k \in 0 .. n : ~WalkOK(doc, w[k], k)}
<1>3. ASSUME NEW m \in Bad, \A k \in Bad : m <= k PROVE FALSE
  <2>1. CASE m = 0
    <3>1. w[0] = Start
      BY <1>1, <1>2 DEF Step
    <3>2. w[0].state = {} /\ w[0].events = <<>>
      BY <3>1 DEF Start
    <3>3. WalkOK(doc, w[0], 0)
      BY <3>2 DEF WalkOK
    <3> QED
      BY <1>3, <2>1, <3>3
  <2>2. CASE m # 0
    <3>1. m - 1 \in 0 .. n /\ m - 1 \notin Bad /\ m \in 1 .. n
      BY <1>2, <1>3, <2>2
    <3>2. WalkOK(doc, w[m - 1], m - 1)
      BY <3>1
    <3>3. w[m] = Apply(doc, w[m - 1], T[m])
      BY <1>1, <2>2 DEF Step
    <3>4. WalkOK(doc, w[m], m)
      BY <3>1, <3>2, <3>3, WalkStep
    <3> QED
      BY <1>3, <3>4
  <2> QED
    BY <2>1, <2>2
<1>4. Bad \subseteq Nat
  BY <1>2
<1>5. Bad = {}
  <2> HIDE DEF Bad
  <2> QED
    BY <1>3, <1>4, Minimum
<1>6. WalkOK(doc, w[n], n)
  BY <1>2, <1>5
<1>7. \A x \in Edges(doc) : \E j \in 1 .. n : T[j] = x
  BY <1>2
<1> QED
  BY <1>1, <1>6, <1>7 DEF WalkOK

(* Played back, the events give the wanted outputs at every tick.          *)
LEMMA Plays ==
  ASSUME NEW doc, Accepted(doc), NEW t \in 0 .. MaxTick
  PROVE  Played(Events(doc), t) = Wanted(doc, t)
<1> DEFINE E == Events(doc)
           past == {i \in DOMAIN E : E[i].at <= t}
<1>0. doc \in Seq(Pulse) /\ AllFit(doc) /\ t \in Nat
  BY SequenceAssumption DEF Accepted
<1>1. /\ E \in Seq(Event)
      /\ \A i \in 1 .. Len(E) : /\ E[i].at \in Edges(doc)
                                /\ E[i].state = Wanted(doc, E[i].at)
      /\ \A i, j \in 1 .. Len(E) : i < j => E[i].at < E[j].at
      /\ \A x \in Edges(doc) : \E i \in 1 .. Len(E) : E[i].at = x
  BY EventsExact
<1> HIDE DEF E
<1>2. /\ DOMAIN E = 1 .. Len(E) /\ Len(E) \in Nat
      /\ \A x \in Edges(doc) : x \in Nat
      /\ \A i \in DOMAIN E : E[i].at \in Nat
  BY <1>0, <1>1, EdgesAre, SequenceAssumption
<1>3. CASE past = {}
  <2>1. \A x \in Edges(doc) : t < x
    BY <1>0, <1>1, <1>2, <1>3
  <2>2. 0 \notin Edges(doc) /\ 0 \in 0 .. MaxTick
    BY <1>0, <2>1, SequenceAssumption
  <2>3. Wanted(doc, 0) = {}
    BY <1>0, <2>2, EdgesAre DEF Prior
  <2>4. \A x \in Edges(doc) : ~(0 < x /\ x <= t)
    BY <1>0, <1>2, <2>1
  <2>5. Wanted(doc, t) = Wanted(doc, 0)
    BY <1>0, <2>4, Constant
  <2> QED
    BY <1>3, <2>3, <2>5 DEF Played, E
<1>4. CASE past # {}
  <2> DEFINE up == {Len(E) - i : i \in past}
  <2>1. up \subseteq Nat /\ up # {}
    BY <1>2, <1>4
  <2>2. PICK m \in up : \A k \in up : m <= k
    BY <2>1, Minimum
  <2>3. PICK last \in past : m = Len(E) - last
    BY <2>2
  <2>4. ASSUME NEW j \in past PROVE j <= last
    <3>1. Len(E) - j \in up
      OBVIOUS
    <3>2. Len(E) - last <= Len(E) - j
      BY <2>2, <2>3, <3>1
    <3> QED
      BY <1>2, <3>2
  <2> DEFINE i == CHOOSE k \in past : \A j \in past : j <= k
  <2>5. i \in past /\ \A j \in past : j <= i
    BY <2>4
  <2>6. Played(E, t) = E[i].state
    BY <1>4 DEF Played
  <2> HIDE DEF i, up
  <2>7. ASSUME NEW x \in Edges(doc), E[i].at < x, x <= t PROVE FALSE
    <3>1. PICK j \in 1 .. Len(E) : E[j].at = x
      BY <1>1
    <3>2. j \in past /\ j <= i /\ i \in 1 .. Len(E)
      BY <1>2, <2>5, <2>7, <3>1
    <3>3. j = i \/ E[j].at < E[i].at
      BY <1>1, <3>2
    <3> QED
      BY <1>2, <2>5, <2>7, <3>1, <3>3
  <2>8. E[i].at \in Nat /\ E[i].at <= t /\ E[i].state = Wanted(doc, E[i].at)
    BY <1>1, <1>2, <2>5
  <2>9. Wanted(doc, t) = Wanted(doc, E[i].at)
    BY <1>0, <2>7, <2>8, Constant
  <2> QED
    BY <2>6, <2>8, <2>9 DEF E
<1> QED
  BY <1>3, <1>4

(* The events have what validate_events checks, their number aside, and    *)
(* there is one for each edge.                                             *)
LEMMA EventsValid ==
  ASSUME NEW doc, Accepted(doc), doc # <<>>
  PROVE  /\ Len(Events(doc)) = Cardinality(Edges(doc)) /\ Len(Events(doc)) \in Nat
         /\ Len(Events(doc)) <= MaxEvents <=> validate_events(Events(doc))
<1> DEFINE E == Events(doc)
<1>0. doc \in Seq(Pulse) /\ AllFit(doc)
  BY DEF Accepted
<1>1. /\ E \in Seq(Event)
      /\ \A i \in 1 .. Len(E) : /\ E[i].at \in Edges(doc)
                                /\ E[i].state = Wanted(doc, E[i].at)
      /\ \A i, j \in 1 .. Len(E) : i < j => E[i].at < E[j].at
      /\ \A x \in Edges(doc) : \E i \in 1 .. Len(E) : E[i].at = x
  BY EventsExact
<1>p. \A t \in 0 .. MaxTick : Played(E, t) = Wanted(doc, t)
  BY Plays
<1> HIDE DEF E
<1>2. /\ DOMAIN E = 1 .. Len(E) /\ Len(E) \in Nat
      /\ Edges(doc) \subseteq Nat /\ Edges(doc) \subseteq 0 .. MaxTick
      /\ Edges(doc) = {t \in 0 .. MaxTick : Wanted(doc, t) # Prior(doc, t)}
      /\ \A i \in DOMAIN E : E[i].at \in Nat
  BY <1>0, <1>1, EdgesAre, SequenceAssumption
<1>3. Len(E) = Cardinality(Edges(doc))
  <2> DEFINE f == [i \in 1 .. Len(E) |-> E[i].at]
  <2>1. f \in [1 .. Len(E) -> Edges(doc)]
    BY <1>1
  <2>2. \A i, j \in 1 .. Len(E) : f[i] = f[j] => i = j
    <3> SUFFICES ASSUME NEW i \in 1 .. Len(E), NEW j \in 1 .. Len(E), f[i] = f[j]
                 PROVE  i = j
      OBVIOUS
    <3>1. E[i].at = E[j].at /\ E[i].at \in Nat /\ i \in Nat /\ j \in Nat
      BY <1>2
    <3> QED
      BY <1>1, <3>1
  <2>3. \A x \in Edges(doc) : \E i \in 1 .. Len(E) : f[i] = x
    BY <1>1
  <2>4. f \in Bijection(1 .. Len(E), Edges(doc))
    BY <2>1, <2>2, <2>3 DEF Bijection, Injection, Surjection, IsInjective
  <2>5. ExistsBijection(1 .. Len(E), Edges(doc))
    BY <2>4 DEF ExistsBijection
  <2> QED
    BY <1>2, <2>5, FS_CountingElements
<1>4. ASSUME NEW i \in 1 .. Len(E)
      PROVE  E[i].state # IF i = 1 THEN {} ELSE E[i - 1].state
  <2> DEFINE t == E[i].at
  <2>1. /\ t \in Nat /\ t <= MaxTick /\ E[i].state = Wanted(doc, t)
        /\ Wanted(doc, t) # Prior(doc, t)
    BY <1>1, <1>2, SequenceAssumption
  <2> HIDE DEF t
  <2>2. CASE i = 1
    <3>1. ASSUME NEW x \in Edges(doc) PROVE t <= x
      <4>1. PICK j \in 1 .. Len(E) : E[j].at = x
        BY <1>1
      <4>2. j = 1 \/ t < x
        BY <1>1, <2>2, <4>1 DEF t
      <4> QED
        BY <1>2, <2>1, <2>2, <4>1, <4>2 DEF t
    <3>2. t # 0 => Wanted(doc, t - 1) = {}
      <4> SUFFICES ASSUME t # 0 PROVE Wanted(doc, t - 1) = {}
        OBVIOUS
      <4>1. 0 \notin Edges(doc) /\ 0 \in 0 .. MaxTick
        BY <2>1, <3>1, SequenceAssumption
      <4>2. Wanted(doc, 0) = {}
        BY <1>2, <4>1 DEF Prior
      <4>3. /\ t - 1 \in Nat /\ t - 1 <= MaxTick /\ 0 <= t - 1
            /\ \A x \in Edges(doc) : ~(0 < x /\ x <= t - 1)
        BY <1>2, <2>1, <3>1, SequenceAssumption
      <4>4. Wanted(doc, t - 1) = Wanted(doc, 0)
        BY <1>0, <4>3, Constant
      <4> QED
        BY <4>2, <4>4
    <3> QED
      BY <2>1, <2>2, <3>2 DEF Prior
  <2>3. CASE i # 1
    <3> DEFINE u == E[i - 1].at
    <3>1. i - 1 \in 1 .. Len(E) /\ i - 1 < i
      BY <1>2, <2>3
    <3>2. u \in Nat /\ u < t /\ E[i - 1].state = Wanted(doc, u)
      BY <1>1, <1>2, <3>1 DEF t
    <3> HIDE DEF u
    <3>3. ASSUME NEW x \in Edges(doc), u < x, x < t PROVE FALSE
      <4>1. PICK j \in 1 .. Len(E) : E[j].at = x
        BY <1>1
      <4>2. j < i - 1 \/ j = i - 1 \/ j = i \/ i < j
        BY <1>2, <4>1
      <4>3. (j < i - 1 => x < u) /\ (i < j => t < x)
        BY <1>1, <3>1, <4>1 DEF t, u
      <4> QED
        BY <1>2, <2>1, <3>2, <3>3, <4>1, <4>2, <4>3 DEF t, u
    <3>4. /\ t - 1 \in Nat /\ t - 1 <= MaxTick /\ u <= t - 1 /\ t # 0
          /\ \A x \in Edges(doc) : ~(u < x /\ x <= t - 1)
      BY <1>2, <2>1, <3>2, <3>3, SequenceAssumption
    <3>5. Wanted(doc, t - 1) = Wanted(doc, u)
      BY <1>0, <3>2, <3>4, Constant
    <3> QED
      BY <2>1, <2>3, <3>2, <3>4, <3>5 DEF Prior
  <2> QED
    BY <2>2, <2>3
<1>5. PICK p \in Range(doc) : TRUE
  <2>1. 1 \in DOMAIN doc
    BY <1>0
  <2> QED
    BY <2>1 DEF Range
<1>6. /\ p.channel \in Channel /\ p.start \in 0 .. MaxTick
      /\ p.start < p.start + p.duration
  BY <1>0, Pulses, SequenceAssumption
<1>7. Wanted(doc, p.start) # {}
  <2>1. p.start <= p.start
    BY <1>6, SequenceAssumption
  <2> QED
    BY <1>6, <2>1 DEF Wanted
<1>8. Len(E) # 0
  <2> SUFFICES ASSUME Len(E) = 0 PROVE FALSE
    OBVIOUS
  <2>1. DOMAIN E = {}
    BY <1>2
  <2>2. Played(E, p.start) = {}
    BY <2>1 DEF Played
  <2> QED
    BY <1>p, <1>6, <1>7, <2>2
<1>9. E[Len(E)].state = {}
  <2> DEFINE t == E[Len(E)].at
  <2>1. /\ Len(E) \in 1 .. Len(E) /\ t \in Nat /\ t <= MaxTick
        /\ E[Len(E)].state = Wanted(doc, t)
    BY <1>1, <1>2, <1>8, SequenceAssumption
  <2> HIDE DEF t
  <2>2. ASSUME NEW x \in Edges(doc), t < x PROVE FALSE
    <3>1. PICK j \in 1 .. Len(E) : E[j].at = x
      BY <1>1
    <3>2. j = Len(E) \/ x < t
      <4>1. j = Len(E) \/ j < Len(E)
        BY <1>2
      <4> QED
        BY <1>1, <2>1, <3>1, <4>1 DEF t
    <3>3. x \in Nat /\ ~ x < t
      BY <1>2, <2>1, <2>2
    <3>4. x = t
      BY <3>1, <3>2, <3>3 DEF t
    <3> QED
      BY <2>1, <2>2, <3>4
  <2>3. MaxTick \in Nat /\ \A x \in Edges(doc) : ~(t < x /\ x <= MaxTick)
    BY <2>2, SequenceAssumption
  <2>4. Wanted(doc, MaxTick) = Wanted(doc, t)
    BY <1>0, <2>1, <2>3, Constant
  <2>5. \A x \in Changes(doc) : x <= MaxTick
    BY <1>0, EdgesAre, SequenceAssumption
  <2>6. Wanted(doc, MaxTick) = {}
    BY <1>0, <2>3, <2>5, Silent
  <2> QED
    BY <2>1, <2>4, <2>6
<1>10. Len(E) >= 2
  <2>1. ASSUME Len(E) = 1 PROVE FALSE
    <3>1. E[1].state # {} /\ E[1].state = {}
      BY <1>4, <1>9, <2>1
    <3> QED
      BY <3>1
  <2> QED
    BY <1>2, <1>8, <2>1
<1>11. \A i \in 1 .. Len(E) - 1 : E[i].at < E[i + 1].at
  BY <1>1, <1>2
<1> QED
  <2>1. Len(E) <= MaxEvents <=> Len(E) \in 2 .. MaxEvents
    BY <1>2, <1>10, SequenceAssumption
  <2> QED
    BY <1>2, <1>3, <1>4, <1>9, <1>11, <2>1 DEF validate_events, E

-----------------------------------------------------------------------------
(* The compiler. *)

WellFormed(doc) == doc # <<>> /\ AllFit(doc) /\ Disjoint(doc)

(* A document is refused when it is not well-formed or has more edges than *)
(* the hardware holds events; otherwise its events play what it wants.     *)
LEMMA Compiles ==
  ASSUME NEW doc \in Seq(Pulse)
  PROVE  /\ compile_document(doc) = Refused =>
              ~WellFormed(doc) \/ Cardinality(Edges(doc)) > MaxEvents
         /\ compile_document(doc) # Refused =>
              /\ WellFormed(doc)
              /\ \A t \in 0 .. MaxTick :
                   Played(compile_document(doc), t) = Wanted(doc, t)
<1>1. ASSUME compile_document(doc) = Refused, WellFormed(doc)
      PROVE  Cardinality(Edges(doc)) > MaxEvents
  <2>1. AllFit(doc) /\ Accepted(doc) /\ doc # <<>>
    BY <1>1 DEF WellFormed, Accepted
  <2>2. \A c \in Channel : ~Overlaps(Intervals(doc, c))
    BY <2>1, OverlapsFound DEF Accepted
  <2>3. /\ Len(Events(doc)) = Cardinality(Edges(doc)) /\ Len(Events(doc)) \in Nat
        /\ Len(Events(doc)) <= MaxEvents <=> validate_events(Events(doc))
    BY <2>1, EventsValid
  <2>4. validate_events(Events(doc)) => compile_document(doc) = Events(doc)
    BY <2>1, <2>2 DEF compile_document, AllFit
  <2>5. ~validate_events(Refused)
    BY SequenceAssumption DEF validate_events, Refused
  <2>6. ~(Len(Events(doc)) <= MaxEvents)
    BY <1>1, <2>3, <2>4, <2>5
  <2> QED
    BY <2>3, <2>6, SequenceAssumption
<1>2. ASSUME compile_document(doc) # Refused
      PROVE  /\ WellFormed(doc)
             /\ \A t \in 0 .. MaxTick :
                  Played(compile_document(doc), t) = Wanted(doc, t)
  <2>1. /\ doc # <<>> /\ AllFit(doc) /\ \A c \in Channel : ~Overlaps(Intervals(doc, c))
        /\ compile_document(doc) = Events(doc)
    BY <1>2 DEF compile_document, AllFit
  <2>2. Accepted(doc)
    BY <2>1, OverlapsFound DEF Accepted
  <2> QED
    BY <2>1, <2>2, Plays DEF WellFormed, Accepted
<1> QED
  BY <1>1, <1>2

(* What the tool has compiled is the document it has read.                 *)
SourceInv ==
  /\ document \in Seq(Pulse)
  /\ compiler.pc \in {"refused", "open"} => compiler.source \in Seq(Pulse)
  /\ compiler.pc = "refused" => compile_document(compiler.source) = Refused
  /\ compiler.pc = "open" =>
       /\ compile_document(compiler.source) # Refused
       /\ compiler.image = encode_sequence(compile_document(compiler.source))

(* Every step keeps it.                                                    *)
LEMMA SourceNext ==
  ASSUME Inv, SourceInv, [Next]_vars PROVE SourceInv'
<1>1. CASE Compile /\ UNCHANGED document
  <2> DEFINE events == compile_document(document)
  <2>1. compiler' = IF events = Refused
                    THEN [pc |-> "refused", source |-> document, image |-> None]
                    ELSE [pc |-> "open", source |-> document,
                          image |-> encode_sequence(events)]
    BY <1>1 DEF Compile
  <2> HIDE DEF events
  <2>2. CASE events = Refused
    BY <1>1, <2>1, <2>2 DEF SourceInv, events
  <2>3. CASE events # Refused
    BY <1>1, <2>1, <2>3 DEF SourceInv, events
  <2> QED
    BY <2>2, <2>3
<1>2. CASE compiler'.pc \notin {"refused", "open"} /\ UNCHANGED document
  BY <1>2 DEF SourceInv
<1>3. CASE UNCHANGED compiler /\ document' \in Seq(Pulse)
  BY <1>3 DEF SourceInv
<1>4. CASE Sequence
  <2>1. UNCHANGED document
    BY <1>4 DEF Sequence, SequenceNext, Compile, CompilerReports, OpenTemporary,
                WriteTemporary, Replace, CompilerFails
  <2>2. Compile \/ compiler' = Idle \/ compiler' = [compiler EXCEPT !.pc = "write"]
          \/ compiler' = [compiler EXCEPT !.pc = "replace"]
    BY <1>4 DEF Sequence, SequenceNext, CompilerReports, OpenTemporary,
                WriteTemporary, Replace, CompilerFails
  <2>3. Compile \/ compiler'.pc \in {"idle", "write", "replace"}
    BY <2>2 DEF Idle, Inv, CompilerInv
  <2> QED
    BY <1>1, <1>2, <2>1, <2>3
<1>5. CASE Edit
  BY <1>3, <1>5, InputsAssumption DEF Edit, EditDocument
<1>6. CASE UNCHANGED <<document, compiler>>
  BY <1>3, <1>6 DEF SourceInv
<1> QED
  BY <1>4, <1>5, <1>6 DEF Next, vars, sequenceVars, CompileProfile, Mix, Launch,
     CheckImage, ApplyConfig, LoadSequence, EndLaunch

(* compile_document, for any number of pulses and any widths: the walk     *)
(* over sorted intervals refuses exactly the documents that cannot be      *)
(* played, and the events of every other one play the union of its pulses. *)
THEOREM CompilationExact == Spec => []CompilesExactly
<1>1. Init => SourceInv
  BY InputsAssumption DEF Init, SequenceInit, Idle, SourceInv
<1>2. SourceInv => CompilesExactly
  <2> SUFFICES ASSUME SourceInv PROVE CompilesExactly
    OBVIOUS
  <2> DEFINE doc == compiler.source
  <2>1. compiler.pc = "refused" =>
          ~WellFormed(doc) \/ Cardinality(Edges(doc)) > MaxEvents
    BY Compiles DEF SourceInv
  <2>2. compiler.pc = "open" =>
          /\ WellFormed(doc)
          /\ compiler.image = encode_sequence(compile_document(doc))
          /\ \A t \in 0 .. MaxTick :
               Played(compile_document(doc), t) = Wanted(doc, t)
    BY Compiles DEF SourceInv
  <2>3. \A e : encode_sequence(e).payload = e
    BY DEF encode_sequence
  <2> QED
    BY <2>1, <2>2, <2>3 DEF CompilesExactly, WellFormed, AllFit
<1> QED
  BY <1>1, <1>2, SourceNext, Invariance, PTL DEF Spec
=============================================================================

----------------------------- MODULE MCProfile ------------------------------
(* Small instances of ExperimentProfile: every document of up to three     *)
(* pulses with one profile, and every profile on a grid with two documents. *)
EXTENDS ExperimentProfile

P(c, s, d) == [channel |-> c, start |-> s, duration |-> d]
Fitting == {p \in Pulse : PulseFits(p)}
MCDocuments ==
  UNION {[1 .. n -> Fitting] : n \in 0 .. 3}
    \cup {<<P(0, 0, 1), P(1, 1, 0)>>, <<P(0, 2, MaxTick)>>}

Plain == [signal_frequency |-> 3, signal_phase |-> 1, signal_amplitude |-> 4,
          noise_amplitude |-> 2, noise_seed |-> 1, lo_frequency |-> 1,
          lo_phase |-> 2, frame_length |-> 2, frame_count |-> 1]

Grid == 0 .. Den
MCRequests ==
       {[Plain EXCEPT !.signal_amplitude = a, !.noise_amplitude = b] : a, b \in Grid}
  \cup {[Plain EXCEPT !.signal_frequency = a, !.signal_phase = b] : a, b \in Grid}
  \cup {[Plain EXCEPT !.lo_frequency = a, !.lo_phase = b] : a, b \in Grid}
  \cup {[Plain EXCEPT !.frame_length = a, !.frame_count = b] :
          a \in 0 .. MaxFrameLength + 1, b \in 0 .. MaxFrameCount + 1}
  \cup {[Plain EXCEPT !.noise_seed = n] : n \in 0 .. MaxSeed + 1}

Short == <<P(0, 0, 1)>>
Both  == <<P(1, 1, 2), P(0, 0, 2)>>

In(d, q, n) == [doc |-> d, profile |-> q, edits |-> n]
MCInputs == {In(d, Plain, 0) : d \in MCDocuments}
              \cup {In(Short, q, 0) : q \in MCRequests}
              \cup {In(Both, Plain, 3)}
MCOthers == {In(Short, Plain, 0),
             In(Both, [Plain EXCEPT !.lo_frequency = 5, !.frame_count = 2], 0)}
=============================================================================

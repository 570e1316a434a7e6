--------------------------- MODULE ReceiverProofs ---------------------------
(***************************************************************************)
(* The receiver, for a shot of any number of packets, any limits and any   *)
(* amount of disturbance: what the assembler knows after a journal depends *)
(* on the set of its datagrams and not on their order, so its verdict is   *)
(* exact, and the bundle and every replay of the journal repeat it.        *)
(***************************************************************************)
EXTENDS Receiver, FiniteSetTheorems, SequenceTheorems, WellFoundedInduction, TLAPS

(* A set of numbers has a least one.                                       *)
LEMMA Minimum ==
  ASSUME NEW S, S \subseteq Nat, S # {}
  PROVE  \E m \in S : \A n \in S : m <= n
<1>1. \E m \in S : \A n \in S : <<n, m>> \notin OpToRel(<, Nat)
  BY NatLessThanWellFounded, WFMin
<1>2. \A n, m \in S : <<n, m>> \notin OpToRel(<, Nat) => m <= n
  BY DEF OpToRel
<1> QED
  BY <1>1, <1>2

-----------------------------------------------------------------------------
(* The two loops over a list of datagrams, as walks along the list. *)

RouteStep(a, s, w, k) == IF k = 0 THEN a ELSE _route(w[k - 1], s[k])
Routes(a, s, w, n) == w = [k \in 0 .. n |-> RouteStep(a, s, w, k)]
IngestStep(s, w, k) == IF k = 0 THEN NewAssembler ELSE ingest(w[k - 1], s[k])
Ingests(s, w, n) == w = [k \in 0 .. n |-> IngestStep(s, w, k)]

(* A list of any length can be routed: a shorter one, and one more.        *)
LEMMA RouteExists ==
  ASSUME NEW a, NEW s, NEW n \in Nat
  PROVE  \E w : Routes(a, s, w, n)
<1> DEFINE Bad == {k \in Nat : ~ \E w : Routes(a, s, w, k)}
<1>1. ASSUME NEW m \in Bad, \A k \in Bad : m <= k PROVE FALSE
  <2>1. CASE m = 0
    <3> DEFINE w == [k \in 0 .. 0 |-> a]
    <3>1. w = [k \in 0 .. 0 |-> RouteStep(a, s, w, k)]
      BY DEF RouteStep
    <3> QED
      BY <1>1, <2>1, <3>1 DEF Routes
  <2>2. CASE m # 0
    <3>1. m - 1 \in Nat /\ m - 1 \notin Bad
      BY <1>1, <2>2
    <3>2. PICK g : Routes(a, s, g, m - 1)
      BY <3>1
    <3> DEFINE w == [k \in 0 .. m |-> RouteStep(a, s, g, k)]
    <3>3. ASSUME NEW k \in 0 .. m - 1 PROVE w[k] = g[k]
      <4>1. g[k] = RouteStep(a, s, g, k)
        BY <3>2 DEF Routes
      <4>2. k \in 0 .. m
        BY <3>1
      <4> QED
        BY <4>1, <4>2
    <3>4. ASSUME NEW k \in 0 .. m PROVE w[k] = RouteStep(a, s, w, k)
      <4>1. w[k] = RouteStep(a, s, g, k)
        OBVIOUS
      <4>2. CASE k = 0
        BY <4>1, <4>2 DEF RouteStep
      <4>3. CASE k # 0
        <5>1. k - 1 \in 0 .. m - 1
          BY <4>3
        <5>2. w[k - 1] = g[k - 1]
          BY <3>3, <5>1
        <5> HIDE DEF w
        <5> QED
          BY <4>1, <5>2 DEF RouteStep
      <4> QED
        BY <4>2, <4>3
    <3>5. w = [k \in 0 .. m |-> w[k]]
      OBVIOUS
    <3> HIDE DEF w
    <3>6. w = [k \in 0 .. m |-> RouteStep(a, s, w, k)]
      BY <3>4, <3>5
    <3> QED
      BY <1>1, <3>6 DEF Routes
  <2> QED
    BY <2>1, <2>2
<1>2. Bad \subseteq Nat
  OBVIOUS
<1>3. Bad = {}
  <2> HIDE DEF Bad
  <2> QED
    BY <1>1, <1>2, Minimum
<1> QED
  BY <1>3

(* A list of any length can be ingested: a shorter one, and one more.      *)
LEMMA IngestExists ==
  ASSUME NEW s, NEW n \in Nat
  PROVE  \E w : Ingests(s, w, n)
<1> DEFINE Bad == {k \in Nat : ~ \E w : Ingests(s, w, k)}
<1>1. ASSUME NEW m \in Bad, \A k \in Bad : m <= k PROVE FALSE
  <2>1. CASE m = 0
    <3> DEFINE w == [k \in 0 .. 0 |-> NewAssembler]
    <3>1. w = [k \in 0 .. 0 |-> IngestStep(s, w, k)]
      BY DEF IngestStep
    <3> QED
      BY <1>1, <2>1, <3>1 DEF Ingests
  <2>2. CASE m # 0
    <3>1. m - 1 \in Nat /\ m - 1 \notin Bad
      BY <1>1, <2>2
    <3>2. PICK g : Ingests(s, g, m - 1)
      BY <3>1
    <3> DEFINE w == [k \in 0 .. m |-> IngestStep(s, g, k)]
    <3>3. ASSUME NEW k \in 0 .. m - 1 PROVE w[k] = g[k]
      <4>1. g[k] = IngestStep(s, g, k)
        BY <3>2 DEF Ingests
      <4>2. k \in 0 .. m
        BY <3>1
      <4> QED
        BY <4>1, <4>2
    <3>4. ASSUME NEW k \in 0 .. m PROVE w[k] = IngestStep(s, w, k)
      <4>1. w[k] = IngestStep(s, g, k)
        OBVIOUS
      <4>2. CASE k = 0
        BY <4>1, <4>2 DEF IngestStep
      <4>3. CASE k # 0
        <5>1. k - 1 \in 0 .. m - 1
          BY <4>3
        <5>2. w[k - 1] = g[k - 1]
          BY <3>3, <5>1
        <5> HIDE DEF w
        <5> QED
          BY <4>1, <5>2 DEF IngestStep
      <4> QED
        BY <4>2, <4>3
    <3>5. w = [k \in 0 .. m |-> w[k]]
      OBVIOUS
    <3> HIDE DEF w
    <3>6. w = [k \in 0 .. m |-> IngestStep(s, w, k)]
      BY <3>4, <3>5
    <3> QED
      BY <1>1, <3>6 DEF Ingests
  <2> QED
    BY <2>1, <2>2
<1>2. Bad \subseteq Nat
  OBVIOUS
<1>3. Bad = {}
  <2> HIDE DEF Bad
  <2> QED
    BY <1>1, <1>2, Minimum
<1> QED
  BY <1>3

(* Routing a list is what the walk along it leaves.                        *)
LEMMA RouteWalk ==
  ASSUME NEW a, NEW s, Len(s) \in Nat
  PROVE  \E w : /\ \A k \in 0 .. Len(s) : w[k] = RouteStep(a, s, w, k)
                /\ RouteAll(a, s) = w[Len(s)]
<1> DEFINE Is(w) == w = [k \in 0 .. Len(s) |-> IF k = 0 THEN a ELSE _route(w[k - 1], s[k])]
           w == CHOOSE v : Is(v)
<1>1. \E v : Is(v)
  <2>1. PICK v : Routes(a, s, v, Len(s))
    BY RouteExists
  <2>2. Is(v)
    BY <2>1 DEF Routes, RouteStep
  <2> QED
    BY <2>2
<1>2. Is(w)
  BY <1>1
<1>3. RouteAll(a, s) = w[Len(s)]
  BY DEF RouteAll
<1>4. ASSUME NEW k \in 0 .. Len(s)
      PROVE  w[k] = RouteStep(a, s, w, k)
  <2>1. w[k] = IF k = 0 THEN a ELSE _route(w[k - 1], s[k])
    <3> HIDE DEF w
    <3> QED
      BY <1>2
  <2> HIDE DEF w
  <2> QED
    BY <2>1 DEF RouteStep
<1> QED
  BY <1>3, <1>4

(* Ingesting a list is what the walk along it leaves.                      *)
LEMMA IngestWalk ==
  ASSUME NEW s, Len(s) \in Nat
  PROVE  \E w : /\ \A k \in 0 .. Len(s) : w[k] = IngestStep(s, w, k)
                /\ IngestAll(s) = w[Len(s)]
<1> DEFINE Is(w) == w = [k \in 0 .. Len(s) |-> IF k = 0 THEN NewAssembler ELSE ingest(w[k - 1], s[k])]
           w == CHOOSE v : Is(v)
<1>1. \E v : Is(v)
  <2>1. PICK v : Ingests(s, v, Len(s))
    BY IngestExists
  <2>2. Is(v)
    BY <2>1 DEF Ingests, IngestStep
  <2> QED
    BY <2>2
<1>2. Is(w)
  BY <1>1
<1>3. IngestAll(s) = w[Len(s)]
  BY DEF IngestAll
<1>4. ASSUME NEW k \in 0 .. Len(s)
      PROVE  w[k] = IngestStep(s, w, k)
  <2>1. w[k] = IF k = 0 THEN NewAssembler ELSE ingest(w[k - 1], s[k])
    <3> HIDE DEF w
    <3> QED
      BY <1>2
  <2> HIDE DEF w
  <2> QED
    BY <2>1 DEF IngestStep
<1> QED
  BY <1>3, <1>4

(* Nothing was ingested yet.                                               *)
LEMMA IngestNothing == IngestAll(<<>>) = NewAssembler
<1>1. Len(<<>>) = 0
  BY EmptySeq
<1>2. PICK w : /\ \A k \in 0 .. 0 : w[k] = IngestStep(<<>>, w, k)
               /\ IngestAll(<<>>) = w[0]
  BY <1>1, IngestWalk
<1> QED
  BY <1>2 DEF IngestStep

(* Ingesting is incremental: the assembler of a longer journal is that of  *)
(* the shorter one after its last datagram.                                *)
LEMMA IngestMore ==
  ASSUME NEW S, NEW s \in Seq(S), NEW d \in S
  PROVE  IngestAll(Append(s, d)) = ingest(IngestAll(s), d)
<1> DEFINE t == Append(s, d)
           n == Len(s)
<1>1. /\ n \in Nat /\ Len(t) = n + 1 /\ t[n + 1] = d
      /\ \A k \in 1 .. n : t[k] = s[k]
  BY LenProperties, AppendProperties
<1>2. PICK w : /\ \A k \in 0 .. n : w[k] = IngestStep(s, w, k)
               /\ IngestAll(s) = w[n]
  BY <1>1, IngestWalk
<1>3. PICK v : /\ \A k \in 0 .. n + 1 : v[k] = IngestStep(t, v, k)
               /\ IngestAll(t) = v[n + 1]
  <2> HIDE DEF t, n
  <2>1. Len(t) \in Nat
    BY <1>1
  <2> QED
    BY <1>1, <2>1, IngestWalk
<1> HIDE DEF t, n
<1> DEFINE Bad == {k \in 0 .. n : v[k] # w[k]}
<1>4. ASSUME NEW m \in Bad, \A k \in Bad : m <= k PROVE FALSE
  <2>0. m \in 0 .. n /\ v[m] # w[m] /\ v[m] = IngestStep(t, v, m)
        /\ w[m] = IngestStep(s, w, m)
    BY <1>1, <1>2, <1>3
  <2>1. CASE m = 0
    BY <2>0, <2>1 DEF IngestStep
  <2>2. CASE m # 0
    <3>1. m - 1 \in 0 .. n /\ m - 1 \notin Bad /\ m \in 1 .. n
      BY <1>1, <1>4, <2>0, <2>2
    <3>2. v[m - 1] = w[m - 1] /\ t[m] = s[m]
      BY <1>1, <3>1
    <3> QED
      BY <2>0, <2>2, <3>2 DEF IngestStep
  <2> QED
    BY <2>1, <2>2
<1>5. Bad = {}
  <2>1. Bad \subseteq Nat
    BY <1>1
  <2> HIDE DEF Bad
  <2> QED
    BY <1>4, <2>1, Minimum
<1>6. v[n] = w[n]
  BY <1>1, <1>5
<1>7. v[n + 1] = ingest(v[n], d)
  BY <1>1, <1>3 DEF IngestStep
<1> QED
  BY <1>2, <1>3, <1>6, <1>7 DEF t

-----------------------------------------------------------------------------
(* What the assembler knows of a set of datagrams. *)

Assembler ==
  [identity : {None} \cup (0 .. 2), pending : Seq(Datagram), overflow : BOOLEAN,
   seen : SUBSET Datagram, errors : BOOLEAN, total : Nat]

Own(d, identity) == PacketDecodes(d) /\ d.shot = identity

(* A datagram that counts against the shot: damaged beyond attribution but *)
(* from its source, damaged, or another version of a packet.               *)
Bad(d, a) ==
  \/ d.shape = "garbage" /\ SameSource(d, a.identity)
  \/ d.shape = "broken" /\ d.shot = a.identity
  \/ Own(d, a.identity) /\ d \notin a.seen

(* The datagrams of R were routed, in some order.                          *)
Routed(a, R) ==
  /\ a.seen \subseteq {d \in R : Own(d, a.identity)}
  /\ \A d \in R : Own(d, a.identity) => \E e \in a.seen : e.seq = d.seq
  /\ \A d, e \in a.seen : d.seq = e.seq => d = e
  /\ a.errors <=> \E d \in R : Bad(d, a)

(* The datagrams of J were ingested, in some order: before STREAM_INFO all *)
(* of them wait, but for those an overflow pushed out, and afterwards all  *)
(* but those have been routed.                                             *)
Ingested(a, J) ==
  /\ a \in Assembler
  /\ a.identity = None =>
       /\ a.seen = {} /\ ~a.errors
       /\ Range(a.pending) \subseteq J
       /\ ~a.overflow => Range(a.pending) = J
  /\ a.identity # None =>
       \E R \in SUBSET J : Routed(a, R) /\ (~a.overflow => R = J)

(* Routing a datagram keeps the record and touches two fields of it.       *)
LEMMA RouteType ==
  ASSUME NEW a \in Assembler, NEW d \in Datagram
  PROVE  /\ _route(a, d) \in Assembler
         /\ _route(a, d).identity = a.identity
         /\ _route(a, d).overflow = a.overflow
<1>1. \A e \in BOOLEAN :
        /\ [a EXCEPT !.errors = e] \in Assembler
        /\ [a EXCEPT !.errors = e].identity = a.identity
        /\ [a EXCEPT !.errors = e].overflow = a.overflow
  BY DEF Assembler
<1>2. \A S \in SUBSET Datagram :
        /\ [a EXCEPT !.seen = S] \in Assembler
        /\ [a EXCEPT !.seen = S].identity = a.identity
        /\ [a EXCEPT !.seen = S].overflow = a.overflow
  BY DEF Assembler
<1>3. a.errors \in BOOLEAN /\ a.seen \cup {d} \in SUBSET Datagram
  BY DEF Assembler
<1>4. CASE ~HeaderDecodes(d)
  <2> DEFINE e == a.errors \/ SameSource(d, a.identity)
  <2>1. _route(a, d) = [a EXCEPT !.errors = e]
    BY <1>4 DEF _route
  <2>2. e \in BOOLEAN
    BY <1>3
  <2> HIDE DEF e
  <2> QED
    BY <1>1, <2>1, <2>2
<1>5. CASE HeaderDecodes(d) /\ packet_key(d) # a.identity
  BY <1>5 DEF _route
<1>6. CASE HeaderDecodes(d) /\ packet_key(d) = a.identity /\ ~PacketDecodes(d)
  <2>1. _route(a, d) = [a EXCEPT !.errors = TRUE]
    BY <1>6 DEF _route
  <2> QED
    BY <1>1, <2>1
<1>7. CASE HeaderDecodes(d) /\ packet_key(d) = a.identity /\ PacketDecodes(d)
  <2> DEFINE first == {e \in a.seen : e.seq = d.seq}
  <2>1. _route(a, d) = IF first = {} THEN [a EXCEPT !.seen = a.seen \cup {d}]
                       ELSE [a EXCEPT !.errors = a.errors \/ d \notin first]
    BY <1>7 DEF _route, _accept
  <2>2. (a.errors \/ d \notin first) \in BOOLEAN
    BY <1>3
  <2> HIDE DEF first
  <2> QED
    BY <1>1, <1>2, <1>3, <2>1, <2>2
<1> QED
  BY <1>4, <1>5, <1>6, <1>7

(* What routing a datagram does to the packets seen and to the errors.     *)
LEMMA RouteEffect ==
  ASSUME NEW a \in Assembler, NEW d \in Datagram
  PROVE  LET b == _route(a, d)
             fresh == Own(d, a.identity) /\ \A e \in a.seen : e.seq # d.seq
         IN  /\ b.seen = IF fresh THEN a.seen \cup {d} ELSE a.seen
             /\ b.errors <=> a.errors \/ (~fresh /\ Bad(d, a))
<1> DEFINE b == _route(a, d)
           fresh == Own(d, a.identity) /\ \A e \in a.seen : e.seq # d.seq
<1>1. \A e : /\ [a EXCEPT !.errors = e].errors = e
             /\ [a EXCEPT !.errors = e].seen = a.seen
  BY DEF Assembler
<1>2. \A S : /\ [a EXCEPT !.seen = S].seen = S
             /\ [a EXCEPT !.seen = S].errors = a.errors
  BY DEF Assembler
<1>3. d.shape \in {"sent", "altered", "broken", "garbage"}
  BY DEF Datagram
<1>4. CASE ~HeaderDecodes(d)
  <2>1. b = [a EXCEPT !.errors = a.errors \/ SameSource(d, a.identity)]
    BY <1>4 DEF _route
  <2>2. b.seen = a.seen /\ b.errors = (a.errors \/ SameSource(d, a.identity))
    BY <1>1, <2>1
  <2>3. ~fresh /\ (Bad(d, a) <=> SameSource(d, a.identity))
    BY <1>4 DEF HeaderDecodes, Own, PacketDecodes, Bad
  <2> QED
    BY <2>2, <2>3
<1>5. CASE HeaderDecodes(d) /\ packet_key(d) # a.identity
  <2>1. b = a
    BY <1>5 DEF _route
  <2>2. ~fresh /\ ~Bad(d, a)
    BY <1>5 DEF HeaderDecodes, packet_key, Own, Bad
  <2> QED
    BY <2>1, <2>2
<1>6. CASE HeaderDecodes(d) /\ packet_key(d) = a.identity /\ ~PacketDecodes(d)
  <2>1. b = [a EXCEPT !.errors = TRUE]
    BY <1>6 DEF _route
  <2>2. b.seen = a.seen /\ b.errors = TRUE
    BY <1>1, <2>1
  <2>3. ~fresh /\ Bad(d, a)
    BY <1>3, <1>6 DEF HeaderDecodes, packet_key, Own, PacketDecodes, Bad
  <2> QED
    BY <2>2, <2>3
<1>7. CASE HeaderDecodes(d) /\ packet_key(d) = a.identity /\ PacketDecodes(d)
  <2> DEFINE first == {e \in a.seen : e.seq = d.seq}
  <2>1. b = IF first = {} THEN [a EXCEPT !.seen = a.seen \cup {d}]
            ELSE [a EXCEPT !.errors = a.errors \/ d \notin first]
    BY <1>7 DEF _route, _accept
  <2>2. Own(d, a.identity)
    BY <1>7 DEF packet_key, Own
  <2>3. Bad(d, a) <=> d \notin a.seen
    BY <1>7, <2>2 DEF Bad, HeaderDecodes, PacketDecodes, Own
  <2>4. first = {} <=> fresh
    BY <2>2
  <2>5. d \notin first <=> d \notin a.seen
    OBVIOUS
  <2>6. CASE first = {}
    <3>1. b.seen = a.seen \cup {d} /\ b.errors = a.errors
      <4> HIDE DEF first
      <4> QED
        BY <1>2, <2>1, <2>6
    <3> QED
      BY <2>4, <2>6, <3>1
  <2>7. CASE first # {}
    <3>1. b.seen = a.seen /\ b.errors = (a.errors \/ d \notin first)
      <4> HIDE DEF first
      <4> QED
        BY <1>1, <2>1, <2>7
    <3> QED
      BY <2>3, <2>4, <2>5, <2>7, <3>1
  <2> QED
    BY <2>6, <2>7
<1> QED
  BY <1>4, <1>5, <1>6, <1>7

(* One more datagram routed.                                               *)
LEMMA RouteOne ==
  ASSUME NEW a \in Assembler, NEW R, Routed(a, R), NEW d \in Datagram
  PROVE  Routed(_route(a, d), R \cup {d})
<1> DEFINE b == _route(a, d)
           fresh == Own(d, a.identity) /\ \A e \in a.seen : e.seq # d.seq
<1>1. /\ b.identity = a.identity
      /\ b.seen = IF fresh THEN a.seen \cup {d} ELSE a.seen
      /\ b.errors <=> a.errors \/ (~fresh /\ Bad(d, a))
  BY RouteType, RouteEffect
<1>2. /\ a.seen \subseteq R /\ \A e \in a.seen : Own(e, a.identity)
      /\ \A e \in R : Own(e, a.identity) => \E f \in a.seen : f.seq = e.seq
      /\ \A e, f \in a.seen : e.seq = f.seq => e = f
      /\ a.errors <=> \E e \in R : Bad(e, a)
  BY DEF Routed
<1> SUFFICES Routed(b, R \cup {d})
  OBVIOUS
<1> HIDE DEF b
<1>3. CASE fresh
  <2>1. b.seen = a.seen \cup {d} /\ (b.errors <=> a.errors)
    BY <1>1, <1>3
  <2>2. \A e \in R : Bad(e, b) <=> Bad(e, a)
    <3>1. \A e \in R : Own(e, a.identity) => e # d
      BY <1>2, <1>3
    <3> QED
      BY <1>1, <2>1, <3>1 DEF Bad
  <2>3. ~Bad(d, b)
    BY <1>1, <1>3, <2>1 DEF Bad, Own, PacketDecodes
  <2>4. b.errors <=> \E e \in R \cup {d} : Bad(e, b)
    BY <1>2, <2>1, <2>2, <2>3
  <2>5. \A e, f \in b.seen : e.seq = f.seq => e = f
    BY <1>2, <1>3, <2>1
  <2>6. b.seen \subseteq {e \in R \cup {d} : Own(e, b.identity)}
    BY <1>1, <1>2, <1>3, <2>1
  <2>7. \A e \in R \cup {d} : Own(e, b.identity) => \E f \in b.seen : f.seq = e.seq
    BY <1>1, <1>2, <2>1
  <2> QED
    BY <2>4, <2>5, <2>6, <2>7 DEF Routed
<1>4. CASE ~fresh
  <2>1. b.seen = a.seen /\ (b.errors <=> a.errors \/ Bad(d, a))
    BY <1>1, <1>4
  <2>2. \A e : Bad(e, b) <=> Bad(e, a)
    BY <1>1, <2>1 DEF Bad
  <2>3. b.errors <=> \E e \in R \cup {d} : Bad(e, b)
    BY <1>2, <2>1, <2>2
  <2>4. b.seen \subseteq {e \in R \cup {d} : Own(e, b.identity)}
    BY <1>1, <1>2, <2>1
  <2>5. \A e \in R \cup {d} : Own(e, b.identity) => \E f \in b.seen : f.seq = e.seq
    BY <1>1, <1>2, <1>4, <2>1
  <2> QED
    BY <1>2, <2>1, <2>3, <2>4, <2>5 DEF Routed
<1> QED
  BY <1>3, <1>4

-----------------------------------------------------------------------------
(* The elements of a list with one more at its end.                        *)
LEMMA RangeAppend ==
  ASSUME NEW S, NEW s \in Seq(S), NEW d \in S
  PROVE  Range(Append(s, d)) = Range(s) \cup {d}
<1> DEFINE t == Append(s, d)
           n == Len(s)
<1>1. /\ n \in Nat /\ t \in Seq(S) /\ Len(t) = n + 1 /\ t[n + 1] = d
      /\ \A k \in 1 .. n : t[k] = s[k]
  BY LenProperties, AppendProperties
<1>2. Range(s) = {s[i] : i \in 1 .. n} /\ Range(t) = {t[i] : i \in 1 .. Len(t)}
  BY <1>1, RangeEquality
<1>3. SUFFICES Range(t) = Range(s) \cup {d}
  OBVIOUS
<1> HIDE DEF t, n
<1>4. 1 .. n + 1 = (1 .. n) \cup {n + 1}
  BY <1>1
<1> QED
  BY <1>1, <1>2, <1>4

(* Dropping the first element adds none.                                   *)
LEMMA RangeTail ==
  ASSUME NEW S, NEW s \in Seq(S), s # <<>>
  PROVE  Tail(s) \in Seq(S) /\ Range(Tail(s)) \subseteq Range(s)
<1>1. /\ Tail(s) \in Seq(S) /\ Len(Tail(s)) = Len(s) - 1
      /\ \A i \in 1 .. Len(Tail(s)) : Tail(s)[i] = s[i + 1]
  BY HeadTailProperties
<1>2. /\ Range(s) = {s[i] : i \in 1 .. Len(s)}
      /\ Range(Tail(s)) = {Tail(s)[i] : i \in 1 .. Len(Tail(s))}
  BY <1>1, RangeEquality
<1>3. Len(s) \in Nat
  BY LenProperties
<1>4. \A i \in 1 .. Len(Tail(s)) : i + 1 \in 1 .. Len(s)
  BY <1>1, <1>3
<1> QED
  BY <1>1, <1>2, <1>4

(* Routing a whole list from an assembler that has routed nothing.         *)
LEMMA RouteMany ==
  ASSUME NEW a \in Assembler, Routed(a, {}), NEW s \in Seq(Datagram)
  PROVE  /\ RouteAll(a, s) \in Assembler
         /\ RouteAll(a, s).identity = a.identity
         /\ RouteAll(a, s).overflow = a.overflow
         /\ Routed(RouteAll(a, s), Range(s))
<1> DEFINE n == Len(s)
           upto(k) == {s[j] : j \in 1 .. k}
<1>1. n \in Nat /\ \A k \in 1 .. n : s[k] \in Datagram
  BY LenProperties
<1>2. PICK w : /\ \A k \in 0 .. n : w[k] = RouteStep(a, s, w, k)
               /\ RouteAll(a, s) = w[n]
  BY <1>1, RouteWalk
<1> DEFINE Good(k) == /\ w[k] \in Assembler
                      /\ w[k].identity = a.identity /\ w[k].overflow = a.overflow
                      /\ Routed(w[k], upto(k))
           Wrong == {k \in 0 .. n : ~Good(k)}
<1> HIDE DEF n
<1>3. ASSUME NEW m \in Wrong, \A k \in Wrong : m <= k PROVE FALSE
  <2>0. m \in 0 .. n /\ w[m] = RouteStep(a, s, w, m) /\ ~Good(m)
    BY <1>2
  <2>1. CASE m = 0
    <3>1. w[m] = a /\ upto(m) = {}
      BY <2>0, <2>1 DEF RouteStep
    <3> QED
      BY <2>0, <3>1
  <2>2. CASE m # 0
    <3>1. m - 1 \in 0 .. n /\ m \in 1 .. n /\ m - 1 < m
      BY <1>1, <2>0, <2>2
    <3>2. Good(m - 1)
      <4> HIDE DEF Good
      <4> QED
        BY <1>1, <1>3, <3>1
    <3>3. w[m] = _route(w[m - 1], s[m])
      BY <2>0, <2>2 DEF RouteStep
    <3>4. upto(m) = upto(m - 1) \cup {s[m]}
      <4>1. 1 .. m = (1 .. m - 1) \cup {m}
        BY <3>1
      <4> QED
        BY <4>1
    <3>5. s[m] \in Datagram
      BY <1>1, <3>1
    <3> HIDE DEF upto
    <3>6. Routed(w[m], upto(m))
      BY <3>2, <3>3, <3>4, <3>5, RouteOne
    <3>7. /\ w[m] \in Assembler
          /\ w[m].identity = a.identity /\ w[m].overflow = a.overflow
      BY <3>2, <3>3, <3>5, RouteType
    <3> QED
      BY <2>0, <3>6, <3>7
  <2> QED
    BY <2>1, <2>2
<1>4. Wrong = {}
  <2>1. Wrong \subseteq Nat
    BY <1>1
  <2> HIDE DEF Wrong
  <2> QED
    BY <1>3, <2>1, Minimum
<1>5. Good(n)
  <2>1. n \in 0 .. n
    BY <1>1
  <2> HIDE DEF Good
  <2> QED
    BY <1>4, <2>1
<1>6. upto(n) = Range(s)
  BY RangeEquality DEF n
<1> QED
  BY <1>2, <1>5, <1>6

(* Nothing was ingested.                                                   *)
LEMMA IngestedNothing == Ingested(NewAssembler, {})
<1>1. <<>> \in Seq(Datagram) /\ Len(<<>>) = 0
  BY EmptySeq
<1>2. Range(<<>>) = {}
  <2>1. Range(<<>>) = {<<>>[i] : i \in 1 .. Len(<<>>)}
    BY <1>1, RangeEquality
  <2>2. 1 .. Len(<<>>) = {}
    BY <1>1
  <2> QED
    BY <2>1, <2>2
<1>3. NewAssembler \in Assembler
  BY <1>1 DEF NewAssembler, Assembler
<1> QED
  BY <1>2, <1>3 DEF Ingested, NewAssembler

(* One more datagram ingested: it is routed, or it selects the shot and    *)
(* what has waited is routed before it, or it waits.                       *)
LEMMA IngestOne ==
  ASSUME NEW a, NEW J, Ingested(a, J), NEW d \in Datagram
  PROVE  Ingested(ingest(a, d), J \cup {d})
<1> DEFINE c == [a EXCEPT !.total = @ + 1]
           b == ingest(a, d)
           K == J \cup {d}
<1>0. a \in Assembler
  BY DEF Ingested
<1>1. /\ c \in Assembler /\ c.identity = a.identity /\ c.pending = a.pending
      /\ c.overflow = a.overflow /\ c.seen = a.seen /\ c.errors = a.errors
  BY <1>0 DEF Assembler
<1>2. b = IF c.identity # None THEN _route(c, d)
          ELSE IF PacketDecodes(d) /\ IsInfo(d) THEN Select(c, d)
          ELSE _save_pending(c, d)
  BY DEF ingest
<1> SUFFICES Ingested(b, K)
  OBVIOUS
<1> HIDE DEF b, c
<1>3. CASE a.identity # None
  <2>1. PICK R \in SUBSET J : Routed(a, R) /\ (~a.overflow => R = J)
    BY <1>3 DEF Ingested
  <2>2. Routed(c, R)
    BY <1>1, <2>1 DEF Routed, Bad
  <2>3. b = _route(c, d)
    BY <1>1, <1>2, <1>3
  <2>4. Routed(b, R \cup {d})
    BY <1>1, <2>2, <2>3, RouteOne
  <2>5. b \in Assembler /\ b.identity = a.identity /\ b.overflow = a.overflow
    BY <1>1, <2>3, RouteType
  <2>6. R \cup {d} \in SUBSET K /\ (~b.overflow => R \cup {d} = K)
    BY <2>1, <2>5
  <2> HIDE DEF K
  <2> QED
    BY <1>3, <2>4, <2>5, <2>6 DEF Ingested
<1>4. CASE a.identity = None
  <2>1. /\ a.seen = {} /\ ~a.errors /\ Range(a.pending) \subseteq J
        /\ ~a.overflow => Range(a.pending) = J
    BY <1>4 DEF Ingested
  <2>2. a.pending \in Seq(Datagram) /\ a.overflow \in BOOLEAN
    BY <1>0 DEF Assembler
  <2>3. CASE PacketDecodes(d) /\ IsInfo(d)
    <3> DEFINE e == [c EXCEPT !.identity = packet_key(d), !.pending = <<>>]
               s == Append(c.pending, d)
    <3>1. /\ e \in Assembler /\ e.identity = d.shot /\ e.overflow = a.overflow
          /\ e.seen = {} /\ e.errors = FALSE
      <4>1. <<>> \in Seq(Datagram)
        BY EmptySeq
      <4>2. d.shot \in 0 .. 2
        BY DEF Datagram
      <4> QED
        BY <1>1, <2>1, <4>1, <4>2 DEF Assembler, packet_key
    <3>2. s \in Seq(Datagram) /\ Range(s) = Range(a.pending) \cup {d}
      BY <1>1, <2>2, AppendProperties, RangeAppend
    <3>3. b = RouteAll(e, s)
      BY <1>1, <1>2, <1>4, <2>3 DEF Select
    <3> HIDE DEF e, s
    <3>4. Routed(e, {})
      BY <3>1 DEF Routed
    <3>5. /\ b \in Assembler /\ b.identity = d.shot /\ b.overflow = a.overflow
          /\ Routed(b, Range(s))
      BY <3>1, <3>2, <3>3, <3>4, RouteMany
    <3>6. d.shot # None
      BY DEF Datagram, None
    <3>7. Range(s) \in SUBSET K /\ (~b.overflow => Range(s) = K)
      BY <2>1, <3>2, <3>5
    <3> HIDE DEF K
    <3> QED
      BY <3>5, <3>6, <3>7 DEF Ingested
  <2>4. CASE ~(PacketDecodes(d) /\ IsInfo(d))
    <3>1. b = _save_pending(c, d)
      BY <1>1, <1>2, <1>4, <2>4
    <3>2. CASE Len(c.pending) >= MaxPending
      <4> DEFINE p == Append(Tail(c.pending), d)
      <4>1. c.pending # <<>>
        BY <3>2, ReceiverAssumption, EmptySeq
      <4>2. p \in Seq(Datagram) /\ Range(p) = Range(Tail(c.pending)) \cup {d}
            /\ Range(Tail(c.pending)) \subseteq Range(c.pending)
        <5>1. /\ Tail(c.pending) \in Seq(Datagram)
              /\ Range(Tail(c.pending)) \subseteq Range(c.pending)
          BY <1>1, <2>2, <4>1, RangeTail
        <5>2. \A q \in Seq(Datagram) : Append(q, d) \in Seq(Datagram)
          BY AppendProperties
        <5>3. \A q \in Seq(Datagram) : Range(Append(q, d)) = Range(q) \cup {d}
          BY RangeAppend
        <5> QED
          BY <5>1, <5>2, <5>3
      <4>3. b = [c EXCEPT !.pending = p, !.overflow = TRUE]
        BY <3>1, <3>2 DEF _save_pending
      <4> HIDE DEF p
      <4>4. /\ b \in Assembler /\ b.identity = None /\ b.pending = p
            /\ b.overflow = TRUE /\ b.seen = {} /\ b.errors = FALSE
        BY <1>1, <1>4, <2>1, <4>2, <4>3 DEF Assembler
      <4> QED
        BY <1>1, <2>1, <4>2, <4>4 DEF Ingested
    <3>3. CASE ~(Len(c.pending) >= MaxPending)
      <4> DEFINE p == Append(c.pending, d)
      <4>1. p \in Seq(Datagram) /\ Range(p) = Range(a.pending) \cup {d}
        BY <1>1, <2>2, RangeAppend, AppendProperties
      <4>2. b = [c EXCEPT !.pending = p]
        BY <3>1, <3>3 DEF _save_pending
      <4> HIDE DEF p
      <4>3. /\ b \in Assembler /\ b.identity = None /\ b.pending = p
            /\ b.overflow = a.overflow /\ b.seen = {} /\ b.errors = FALSE
        BY <1>1, <1>4, <2>1, <4>1, <4>2 DEF Assembler
      <4> QED
        BY <2>1, <4>1, <4>3 DEF Ingested
    <3> QED
      BY <3>2, <3>3
  <2> QED
    BY <2>3, <2>4
<1> QED
  BY <1>3, <1>4

(* Ingesting a whole journal: the assembler knows its set of datagrams.    *)
LEMMA IngestMany ==
  ASSUME NEW s \in Seq(Datagram)
  PROVE  Ingested(IngestAll(s), Range(s))
<1> DEFINE n == Len(s)
           upto(k) == {s[j] : j \in 1 .. k}
<1>1. n \in Nat /\ \A k \in 1 .. n : s[k] \in Datagram
  BY LenProperties
<1>2. PICK w : /\ \A k \in 0 .. n : w[k] = IngestStep(s, w, k)
               /\ IngestAll(s) = w[n]
  BY <1>1, IngestWalk
<1> DEFINE Good(k) == Ingested(w[k], upto(k))
           Wrong == {k \in 0 .. n : ~Good(k)}
<1> HIDE DEF n
<1>3. ASSUME NEW m \in Wrong, \A k \in Wrong : m <= k PROVE FALSE
  <2>0. m \in 0 .. n /\ w[m] = IngestStep(s, w, m) /\ ~Good(m)
    BY <1>2
  <2>1. CASE m = 0
    <3>1. w[m] = NewAssembler /\ upto(m) = {}
      BY <2>0, <2>1 DEF IngestStep
    <3> QED
      BY <2>0, <3>1, IngestedNothing
  <2>2. CASE m # 0
    <3>1. m - 1 \in 0 .. n /\ m \in 1 .. n /\ m - 1 < m
      BY <1>1, <2>0, <2>2
    <3>2. Good(m - 1)
      <4> HIDE DEF Good
      <4> QED
        BY <1>1, <1>3, <3>1
    <3>3. w[m] = ingest(w[m - 1], s[m])
      BY <2>0, <2>2 DEF IngestStep
    <3>4. upto(m) = upto(m - 1) \cup {s[m]}
      <4>1. 1 .. m = (1 .. m - 1) \cup {m}
        BY <3>1
      <4> QED
        BY <4>1
    <3>5. s[m] \in Datagram
      BY <1>1, <3>1
    <3> HIDE DEF upto
    <3> QED
      BY <2>0, <3>2, <3>3, <3>4, <3>5, IngestOne
  <2> QED
    BY <2>1, <2>2
<1>4. Wrong = {}
  <2>1. Wrong \subseteq Nat
    BY <1>1
  <2> HIDE DEF Wrong
  <2> QED
    BY <1>3, <2>1, Minimum
<1>5. Good(n)
  <2>1. n \in 0 .. n
    BY <1>1
  <2> HIDE DEF Good
  <2> QED
    BY <1>4, <2>1
<1>6. upto(n) = Range(s)
  BY RangeEquality DEF n
<1> QED
  BY <1>2, <1>5, <1>6

-----------------------------------------------------------------------------
(* The samples, when no packet is missing. *)

(* Every packet was seen, and in one version.                              *)
Full(a) ==
  /\ a.seen \subseteq Datagram
  /\ \A d, e \in a.seen : d.seq = e.seq => d = e
  /\ Missing(a) = {}

(* With every sequence number seen once, as many DATA packets are numbered *)
(* up to m as there are numbers up to m.                                   *)
LEMMA Packed ==
  ASSUME NEW a, Full(a), NEW m \in 0 .. DataPackets
  PROVE  Cardinality({d \in data_packets(a) : d.seq <= m}) = m
<1> DEFINE D == {d \in data_packets(a) : d.seq <= m}
           g == [i \in 1 .. m |-> CHOOSE d \in D : d.seq = i]
<1>1. DataPackets \in Nat \ {0} /\ m \in Nat
  BY ReceiverAssumption
<1>2. ASSUME NEW d \in D PROVE d.seq \in 1 .. m /\ d \in a.seen
  <2>1. d \in a.seen /\ d.seq \in 0 .. DataPackets + 1 /\ d.seq # 0 /\ d.seq <= m
    BY DEF data_packets, IsData, IsInfo, IsEnd, EndSeq, Full, Datagram, Packet
  <2> QED
    BY <1>1, <2>1
<1>3. ASSUME NEW i \in 1 .. m PROVE \E d \in D : d.seq = i
  <2>1. i \in Packet /\ i # 0 /\ i # EndSeq
    BY <1>1 DEF Packet, EndSeq
  <2>2. PICK d \in a.seen : d.seq = i
    BY <2>1 DEF Full, Missing
  <2>3. d \in D
    BY <1>1, <2>1, <2>2 DEF data_packets, IsData, IsInfo, IsEnd
  <2> QED
    BY <2>2, <2>3
<1>4. \A d, e \in D : d.seq = e.seq => d = e
  BY <1>2 DEF Full
<1> HIDE DEF D
<1>5. \A i \in 1 .. m : g[i] \in D /\ g[i].seq = i
  BY <1>3
<1>6. g \in [1 .. m -> D]
  BY <1>5
<1>7. \A i, j \in 1 .. m : g[i] = g[j] => i = j
  BY <1>5
<1>8. \A d \in D : \E i \in 1 .. m : g[i] = d
  BY <1>2, <1>4, <1>5
<1> HIDE DEF g
<1>9. g \in Bijection(1 .. m, D)
  BY <1>6, <1>7, <1>8, Zenon DEF Bijection, Injection, IsInjective, Surjection
<1>10. ExistsBijection(1 .. m, D)
  BY <1>9 DEF ExistsBijection
<1>11. IsFiniteSet(1 .. m) /\ Cardinality(1 .. m) = m
  <2>1. /\ IsFiniteSet(1 .. m)
        /\ Cardinality(1 .. m) = IF 1 > m THEN 0 ELSE m - 1 + 1
    BY <1>1, FS_Interval
  <2> QED
    BY <1>1, <2>1
<1>12. Cardinality(D) = m
  BY <1>10, <1>11, FS_Bijection
<1> QED
  BY <1>12 DEF D

(* The sorted DATA packets are the board's samples when none of them was   *)
(* altered, and then only.                                                 *)
LEMMA SamplesAre ==
  ASSUME NEW a, Full(a)
  PROVE  reconstructed(a) = Payload
           <=> \A d \in data_packets(a) : d.shape = "sent"
<1> DEFINE D == data_packets(a)
           n == DataPackets
           s == ordered_data(a)
           r == reconstructed(a)
<1>1. n \in Nat \ {0}
  BY ReceiverAssumption
<1>2. \A d \in D : d.seq \in 1 .. n /\ d \in a.seen
  <2> SUFFICES ASSUME NEW d \in D PROVE d.seq \in 1 .. n /\ d \in a.seen
    OBVIOUS
  <2>1. d \in a.seen /\ d.seq \in 0 .. n + 1 /\ d.seq # 0 /\ d.seq # n + 1
    BY DEF data_packets, IsData, IsInfo, IsEnd, EndSeq, Full, Datagram, Packet
  <2> QED
    BY <1>1, <2>1
<1>3. \A i \in 1 .. n : \E d \in D : d.seq = i
  <2> SUFFICES ASSUME NEW i \in 1 .. n PROVE \E d \in D : d.seq = i
    OBVIOUS
  <2>1. i \in Packet /\ i # 0 /\ i # EndSeq
    BY <1>1 DEF Packet, EndSeq
  <2>2. PICK d \in a.seen : d.seq = i
    BY <2>1 DEF Full, Missing
  <2>3. d \in D
    BY <2>1, <2>2 DEF data_packets, IsData, IsInfo, IsEnd
  <2> QED
    BY <2>2, <2>3
<1>4. Cardinality(D) = n
  <2>1. {d \in D : d.seq <= n} = D
    BY <1>1, <1>2
  <2>2. n \in 0 .. n
    BY <1>1
  <2> QED
    BY <2>1, <2>2, Packed
<1>5. \A d \in D : Cardinality(earlier(a, d)) = d.seq - 1
  <2> SUFFICES ASSUME NEW d \in D PROVE Cardinality(earlier(a, d)) = d.seq - 1
    OBVIOUS
  <2>1. d.seq - 1 \in 0 .. n /\ \A e \in D : e.seq < d.seq <=> e.seq <= d.seq - 1
    BY <1>1, <1>2
  <2>2. earlier(a, d) = {e \in D : e.seq <= d.seq - 1}
    BY <2>1 DEF earlier
  <2> QED
    BY <2>1, <2>2, Packed
<1>6. s = [i \in 1 .. n |-> CHOOSE d \in D : Cardinality(earlier(a, d)) = i - 1]
  BY <1>4 DEF ordered_data
<1>7. DOMAIN s = 1 .. n
  BY <1>6
<1>8. ASSUME NEW i \in 1 .. n PROVE s[i] \in D /\ s[i].seq = i
  <2>1. s[i] = CHOOSE d \in D : Cardinality(earlier(a, d)) = i - 1
    BY <1>6
  <2>2. \E d \in D : Cardinality(earlier(a, d)) = i - 1
    BY <1>3, <1>5
  <2>3. s[i] \in D /\ Cardinality(earlier(a, s[i])) = i - 1
    BY <2>1, <2>2
  <2>4. s[i].seq - 1 = i - 1 /\ s[i].seq \in 1 .. n
    BY <1>2, <1>5, <2>3
  <2> QED
    BY <1>1, <2>3, <2>4
<1>9. r = [i \in 1 .. n |-> <<s[i].seq, s[i].shape>>]
  BY <1>7 DEF reconstructed
<1> HIDE DEF s, r
<1>10. \A i \in 1 .. n : r[i] = <<i, s[i].shape>>
  BY <1>8, <1>9
<1>11. r = [i \in 1 .. n |-> r[i]]
  BY <1>9
<1>12. r = Payload <=> \A i \in 1 .. n : s[i].shape = "sent"
  <2>1. ASSUME r = Payload, NEW i \in 1 .. n PROVE s[i].shape = "sent"
    <3>1. r[i] = <<i, "sent">>
      BY <2>1 DEF Payload
    <3> QED
      BY <1>10, <3>1
  <2>2. ASSUME \A i \in 1 .. n : s[i].shape = "sent" PROVE r = Payload
    <3>1. \A i \in 1 .. n : r[i] = <<i, "sent">>
      BY <1>10, <2>2
    <3> QED
      BY <1>11, <3>1 DEF Payload
  <2> QED
    BY <2>1, <2>2
<1>13. (\A i \in 1 .. n : s[i].shape = "sent") <=> \A d \in D : d.shape = "sent"
  <2>1. \A d \in D : d = s[d.seq]
    BY <1>2, <1>8 DEF Full
  <2> HIDE DEF D
  <2> QED
    BY <1>2, <1>8, <2>1
<1> QED
  BY <1>12, <1>13 DEF r

-----------------------------------------------------------------------------
(* The verdict on a journal of the traffic the receiver can meet. *)

(* Only the board's shot has packets after STREAM_INFO, only its DATA is   *)
(* altered and only its packets are damaged.                               *)
Traffic ==
  {d \in Datagram :
     /\ d.shape = "altered" => d.shot = 1 /\ IsData(d)
     /\ d.shape = "sent" /\ d.shot # 1 => d.seq = 0
     /\ d.shape = "broken" => d.shot = 1}

Exact ==
  /\ complete(asm) => asm.identity = 1 /\ ArrivedIntact
  /\ asm.identity = 1 /\ ArrivedIntact /\ ~asm.overflow => complete(asm)

(* What Ingested says of an assembler that selected a shot and lost none   *)
(* of the datagrams before it.                                             *)
LEMMA Selected ==
  ASSUME journal \in Seq(Traffic), asm = IngestAll(journal),
         asm.identity # None, ~asm.overflow
  PROVE  /\ Routed(asm, Arrived)
         /\ asm.seen \subseteq Traffic
         /\ Arrived \subseteq Traffic
<1>1. Traffic \subseteq Datagram
  BY DEF Traffic
<1>2. journal \in Seq(Datagram) /\ Arrived \subseteq Traffic
  BY <1>1, SeqMonotonic, RangeOfSeq DEF Arrived
<1>3. Ingested(asm, Arrived)
  BY <1>2, IngestMany DEF Arrived
<1>4. Routed(asm, Arrived)
  BY <1>3 DEF Ingested
<1> QED
  BY <1>2, <1>4 DEF Routed

(* Every packet of the board's shot is a Sent one, unless it was altered   *)
(* or damaged on the way.                                                  *)
LEMMA SentIs ==
  ASSUME NEW d \in Datagram, d.shot = 1, d.shape = "sent"
  PROVE  d = Sent(d.seq)
BY DEF Datagram, Sent

(* Complete: the shot was the board's, and it arrived intact.              *)
LEMMA CompleteIsIntact ==
  ASSUME journal \in Seq(Traffic), asm = IngestAll(journal), complete(asm)
  PROVE  asm.identity = 1 /\ ArrivedIntact
<1>1. /\ asm.identity # None /\ ~asm.errors /\ ~asm.overflow
      /\ Missing(asm) = {} /\ ~ChecksumWrong(asm)
  BY DEF complete
<1>2. Routed(asm, Arrived) /\ asm.seen \subseteq Traffic /\ Arrived \subseteq Traffic
  BY <1>1, Selected
<1>3. /\ \A d \in asm.seen : d \in Arrived /\ Own(d, asm.identity)
      /\ \A d, e \in asm.seen : d.seq = e.seq => d = e
      /\ \A d \in Arrived : ~Bad(d, asm)
  BY <1>1, <1>2 DEF Routed
<1>4. DataPackets \in Nat \ {0} /\ EndSeq \in Packet /\ EndSeq # 0
  BY ReceiverAssumption DEF EndSeq, Packet
<1>5. \A n \in Packet : \E d \in asm.seen : d.seq = n
  BY <1>1 DEF Missing
<1>6. Full(asm)
  BY <1>1, <1>2, <1>3 DEF Full, Traffic
<1>7. PICK last \in asm.seen : last.seq = EndSeq
  BY <1>4, <1>5
<1>8. asm.identity = 1
  <2>1. last.shape \in {"sent", "altered"} /\ last.shot = asm.identity
    BY <1>3 DEF Own, PacketDecodes
  <2>2. last \in Traffic
    BY <1>2
  <2> QED
    BY <1>4, <1>7, <2>1, <2>2 DEF Traffic
<1>9. end_received(asm)
  BY <1>7 DEF end_received, IsEnd
<1>10. \A d \in data_packets(asm) : d.shape = "sent"
  BY <1>1, <1>6, <1>9, SamplesAre DEF ChecksumWrong
<1>11. \A d \in asm.seen : d.shot = 1 /\ d.shape = "sent"
  <2> SUFFICES ASSUME NEW d \in asm.seen PROVE d.shot = 1 /\ d.shape = "sent"
    OBVIOUS
  <2>1. d.shape \in {"sent", "altered"} /\ d.shot = 1 /\ d \in Traffic
    BY <1>2, <1>3, <1>8 DEF Own, PacketDecodes
  <2>2. CASE d.shape = "altered"
    <3>1. d \in data_packets(asm)
      BY <2>1, <2>2 DEF Traffic, data_packets
    <3> QED
      BY <1>10, <2>1, <3>1
  <2> QED
    BY <2>1, <2>2
<1>12. {Sent(n) : n \in Packet} \subseteq Arrived
  <2> SUFFICES ASSUME NEW n \in Packet PROVE Sent(n) \in Arrived
    OBVIOUS
  <2>1. PICK d \in asm.seen : d.seq = n
    BY <1>5
  <2>2. d = Sent(n)
    BY <1>2, <1>11, <2>1, SentIs DEF Traffic
  <2> QED
    BY <1>3, <2>1, <2>2
<1>13. \A d \in Arrived : d.shape = "altered" => d.shot # 1
  <2> SUFFICES ASSUME NEW d \in Arrived, d.shape = "altered", d.shot = 1 PROVE FALSE
    OBVIOUS
  <2>1. d \in asm.seen
    BY <1>3, <1>8 DEF Bad, Own, PacketDecodes
  <2> QED
    BY <1>11, <2>1
<1>14. \A d \in Arrived : d.shape = "broken" => d.shot # 1
  BY <1>3, <1>8 DEF Bad
<1>15. \A d \in Arrived : d.shape = "garbage" => ~FromBoard(d)
  BY <1>3, <1>8 DEF Bad, SameSource
<1> QED
  BY <1>8, <1>12, <1>13, <1>14, <1>15 DEF ArrivedIntact

(* The board's shot, selected and arrived intact, is complete, unless      *)
(* datagrams were pushed out before it was selected.                       *)
LEMMA IntactIsComplete ==
  ASSUME journal \in Seq(Traffic), asm = IngestAll(journal),
         asm.identity = 1, ArrivedIntact, ~asm.overflow
  PROVE  complete(asm)
<1>1. asm.identity # None
  BY DEF None
<1>2. Routed(asm, Arrived) /\ asm.seen \subseteq Traffic /\ Arrived \subseteq Traffic
  BY <1>1, Selected
<1>3. /\ \A d \in asm.seen : d \in Arrived /\ Own(d, 1)
      /\ \A d \in Arrived : Own(d, 1) => \E e \in asm.seen : e.seq = d.seq
      /\ \A d, e \in asm.seen : d.seq = e.seq => d = e
      /\ asm.errors <=> \E d \in Arrived : Bad(d, asm)
  BY <1>2 DEF Routed
<1>4. \A d \in Arrived : Own(d, 1) => d.shape = "sent" /\ d.shot = 1
  BY DEF ArrivedIntact, Own, PacketDecodes
<1>5. \A d \in Arrived : Own(d, 1) => d \in asm.seen
  <2> SUFFICES ASSUME NEW d \in Arrived, Own(d, 1) PROVE d \in asm.seen
    OBVIOUS
  <2>1. PICK e \in asm.seen : e.seq = d.seq
    BY <1>3
  <2>2. d = Sent(d.seq) /\ e = Sent(e.seq)
    BY <1>2, <1>3, <1>4, SentIs DEF Traffic
  <2> QED
    BY <2>1, <2>2
<1>6. \A d \in Arrived : ~Bad(d, asm)
  <2> SUFFICES ASSUME NEW d \in Arrived, Bad(d, asm) PROVE FALSE
    OBVIOUS
  <2>1. CASE d.shape = "garbage" /\ SameSource(d, asm.identity)
    BY <2>1 DEF ArrivedIntact, SameSource
  <2>2. CASE d.shape = "broken" /\ d.shot = asm.identity
    BY <2>2 DEF ArrivedIntact
  <2>3. CASE Own(d, asm.identity) /\ d \notin asm.seen
    BY <1>5, <2>3
  <2> QED
    BY <2>1, <2>2, <2>3 DEF Bad
<1>7. \A n \in Packet : Sent(n) \in asm.seen /\ Sent(n).seq = n
  <2> SUFFICES ASSUME NEW n \in Packet PROVE Sent(n) \in asm.seen /\ Sent(n).seq = n
    OBVIOUS
  <2>1. Sent(n) \in Arrived
    BY DEF ArrivedIntact
  <2>2. Own(Sent(n), 1) /\ Sent(n).seq = n
    BY DEF Own, PacketDecodes, Sent
  <2> QED
    BY <1>5, <2>1, <2>2
<1>8. Missing(asm) = {}
  <2> SUFFICES ASSUME NEW n \in Missing(asm) PROVE FALSE
    OBVIOUS
  <2>1. n \in Packet /\ n \notin {d.seq : d \in asm.seen}
    BY DEF Missing
  <2>2. Sent(n) \in asm.seen /\ Sent(n).seq = n
    BY <1>7, <2>1
  <2>3. \E d \in asm.seen : d.seq = n
    BY <2>2
  <2> QED
    BY <2>1, <2>3
<1>9. Full(asm)
  BY <1>2, <1>3, <1>8 DEF Full, Traffic
<1>10. \A d \in data_packets(asm) : d.shape = "sent"
  BY <1>3, <1>4 DEF data_packets
<1>11. ~ChecksumWrong(asm)
  BY <1>9, <1>10, SamplesAre DEF ChecksumWrong
<1> QED
  BY <1>1, <1>3, <1>6, <1>8, <1>11 DEF complete

(* The verdict is exact for every journal of such traffic.                 *)
LEMMA JudgedExactly ==
  ASSUME journal \in Seq(Traffic), asm = IngestAll(journal)
  PROVE  Exact
BY CompleteIsIntact, IntactIsComplete DEF Exact

(* A complete shot has the samples the board sent.                         *)
LEMMA CompleteSamples ==
  ASSUME NEW a, complete(a)
  PROVE  reconstructed(a) = Payload
<1>1. EndSeq \in Packet
  BY ReceiverAssumption DEF EndSeq, Packet
<1>2. \E d \in a.seen : d.seq = EndSeq
  BY <1>1 DEF complete, Missing
<1>3. end_received(a)
  BY <1>2 DEF end_received, IsEnd
<1> QED
  BY <1>3 DEF complete, ChecksumWrong

-----------------------------------------------------------------------------
(* The receiver as a whole. *)

Judgement(a) == IF complete(a) THEN "complete" ELSE "incomplete"

(* The assembler is what the journal makes of it, so a replay makes it     *)
(* again; the file and the bundle follow it once they are written.         *)
RInv ==
  /\ pc \in {"top", "recv", "bundle", "manifest", "done", "dead", "refused"}
  /\ journal \in Seq(Traffic) /\ file \in Seq(Traffic) /\ flushed \in Nat
  /\ pc \notin {"dead", "refused"} => asm = IngestAll(journal)
  /\ pc \in {"manifest", "done"} => file = journal
  /\ bundle = [samples |-> bundle.samples, manifest |-> bundle.manifest]
  /\ bundle.manifest # "none" => pc = "done"
  /\ pc \in {"manifest", "done"} =>
       bundle.samples = IF complete(asm) THEN reconstructed(asm) ELSE <<>>
  /\ pc = "done" => bundle.manifest = Judgement(asm) /\ live # "none"
  /\ live \in {"none", "dead", "complete", "incomplete"}
  /\ live \in {"complete", "incomplete"} =>
       pc \in {"bundle", "manifest", "done"} /\ file = journal /\ live = Judgement(asm)

(* Every datagram the network can hand over is of the traffic.             *)
LEMMA TrafficOnly ==
  /\ \A n \in Packet : Sent(n) \in Traffic
  /\ \A n \in Packet : IsData(Sent(n)) => [Sent(n) EXCEPT !.shape = "altered"] \in Traffic
  /\ \A n \in Packet : [Sent(n) EXCEPT !.shape = "broken"] \in Traffic
  /\ Stray \subseteq Traffic
<1>1. DataPackets \in Nat \ {0} /\ 0 \in Packet
  BY ReceiverAssumption DEF Packet, EndSeq
<1>2. \A n \in Packet : Sent(n) \in Traffic
  BY DEF Sent, Traffic, Datagram
<1>3. ASSUME NEW n \in Packet, IsData(Sent(n))
      PROVE  [Sent(n) EXCEPT !.shape = "altered"] \in Traffic
  <2>1. [Sent(n) EXCEPT !.shape = "altered"] = [shot |-> 1, seq |-> n, shape |-> "altered"]
    BY DEF Sent
  <2>2. IsData([shot |-> 1, seq |-> n, shape |-> "altered"])
    BY <1>3 DEF Sent, IsData, IsInfo, IsEnd
  <2> QED
    BY <2>1, <2>2 DEF Traffic, Datagram
<1>4. ASSUME NEW n \in Packet
      PROVE  [Sent(n) EXCEPT !.shape = "broken"] \in Traffic
  <2>1. [Sent(n) EXCEPT !.shape = "broken"] = [shot |-> 1, seq |-> n, shape |-> "broken"]
    BY DEF Sent
  <2> QED
    BY <2>1 DEF Traffic, Datagram
<1>5. Stray \subseteq Traffic
  BY <1>1 DEF Stray, Traffic, Datagram
<1> QED
  BY <1>2, <1>3, <1>4, <1>5

(* Nothing was received.                                                   *)
LEMMA InitRInv == Init => RInv
<1> SUFFICES ASSUME Init PROVE RInv
  OBVIOUS
<1>1. <<>> \in Seq(Traffic)
  BY EmptySeq
<1> QED
  BY <1>1, IngestNothing DEF Init, RInv, EmptyBundle

(* A datagram is journalled and ingested in one step.                      *)
LEMMA AcceptRInv ==
  ASSUME RInv, NEW d \in Traffic, Accept(d)
  PROVE  RInv'
<1>1. /\ pc = "recv" /\ pc' = "top" /\ journal' = Append(journal, d)
      /\ asm' = ingest(asm, d) /\ UNCHANGED <<file, bundle, live>>
  BY DEF Accept
<1>2. journal' \in Seq(Traffic) /\ Len(journal') \in Nat
  BY <1>1, AppendProperties, LenProperties DEF RInv
<1>3. flushed' \in Nat
  BY <1>2 DEF Accept, RInv
<1>4. asm' = IngestAll(journal')
  BY <1>1, IngestMore DEF RInv
<1> QED
  BY <1>1, <1>2, <1>3, <1>4 DEF RInv

(* What the invariant reads stays as it is.                                *)
LEMMA SameRInv ==
  ASSUME RInv, UNCHANGED <<asm, journal, flushed, file, bundle, live>>,
         \/ UNCHANGED pc
         \/ pc \in {"top", "recv"} /\ pc' \in {"top", "recv", "bundle"}
         \/ pc = "dead" /\ pc' = "refused"
  PROVE  RInv'
BY DEF RInv, Judgement

(* A killed process leaves a part of the journal, and a fresh assembler    *)
(* that nothing reads.                                                     *)
LEMMA DiesRInv ==
  ASSUME RInv, Dies
  PROVE  RInv'
<1>1. /\ pc \in {"top", "recv", "bundle", "manifest"} /\ live = "none"
      /\ pc' = "dead" /\ live' = "dead" /\ UNCHANGED <<journal, flushed, bundle>>
  BY DEF Dies
<1>2. file' \in Seq(Traffic)
  <2>1. CASE pc \in {"bundle", "manifest"}
    BY <2>1 DEF Dies, RInv
  <2>2. CASE pc \notin {"bundle", "manifest"}
    <3>1. PICK n \in flushed .. Len(journal) : file' = SubSeq(journal, 1, n)
      BY <2>2 DEF Dies
    <3>2. /\ Len(journal) \in Nat /\ flushed \in Nat
          /\ \A i \in 1 .. Len(journal) : journal[i] \in Traffic
      BY LenProperties DEF RInv
    <3>3. n \in Int /\ \A i \in 1 .. n : journal[i] \in Traffic
      BY <3>1, <3>2
    <3> QED
      BY <3>1, <3>3, SubSeqProperties
  <2> QED
    BY <2>1, <2>2
<1> QED
  BY <1>1, <1>2 DEF RInv

(* A replay starts from the file, which is the journal if the session      *)
(* closed: its assembler is the one the session had.                       *)
LEMMA ReplayRInv ==
  ASSUME RInv, Replay
  PROVE  RInv'
<1>1. /\ pc \in {"done", "dead"} /\ pc' = "bundle" /\ journal' = file
      /\ asm' = IngestAll(file) /\ bundle' = EmptyBundle
      /\ UNCHANGED <<flushed, file, live>>
  BY DEF Replay, traffic
<1>2. live \in {"complete", "incomplete"} =>
        file = journal /\ asm' = asm /\ live = Judgement(asm)
  BY <1>1 DEF RInv
<1>3. Judgement(asm)' = Judgement(asm')
  BY DEF Judgement
<1> QED
  BY <1>1, <1>2, <1>3 DEF RInv, EmptyBundle

(* samples.bin follows the assembler, and the journal is closed.           *)
LEMMA WriteSamplesRInv ==
  ASSUME RInv, WriteSamples
  PROVE  RInv'
<1>1. /\ pc = "bundle" /\ pc' = "manifest" /\ file' = journal
      /\ UNCHANGED <<asm, journal, flushed, live>>
      /\ bundle' = [bundle EXCEPT !.samples = IF complete(asm) THEN reconstructed(asm)
                                              ELSE <<>>]
  BY DEF WriteSamples
<1>2. /\ bundle = [samples |-> bundle.samples, manifest |-> bundle.manifest]
      /\ bundle.manifest = "none"
  BY <1>1 DEF RInv
<1>3. bundle' = [samples |-> IF complete(asm) THEN reconstructed(asm) ELSE <<>>,
                 manifest |-> "none"]
  BY <1>1, <1>2
<1>4. complete(asm)' = complete(asm) /\ reconstructed(asm)' = reconstructed(asm)
      /\ Judgement(asm)' = Judgement(asm)
  BY <1>1
<1> QED
  BY <1>1, <1>3, <1>4 DEF RInv

(* manifest.json repeats the verdict, and the first one is the session's.  *)
LEMMA WriteManifestRInv ==
  ASSUME RInv, WriteManifest
  PROVE  RInv'
<1>1. /\ pc = "manifest" /\ pc' = "done"
      /\ UNCHANGED <<asm, journal, flushed, file>>
      /\ bundle' = [bundle EXCEPT !.manifest = Judgement(asm)]
      /\ live' = IF live = "none" THEN bundle'.manifest ELSE live
  BY DEF WriteManifest, Judgement
<1>2. bundle = [samples |-> bundle.samples, manifest |-> bundle.manifest]
  BY DEF RInv
<1>3. bundle' = [samples |-> bundle.samples, manifest |-> Judgement(asm)]
  BY <1>1, <1>2
<1>4. bundle'.samples = bundle.samples /\ bundle'.manifest = Judgement(asm)
  BY <1>3
<1>5. complete(asm)' = complete(asm) /\ reconstructed(asm)' = reconstructed(asm)
      /\ Judgement(asm)' = Judgement(asm)
  BY <1>1
<1>6. Judgement(asm) \in {"complete", "incomplete"}
  BY DEF Judgement
<1> QED
  BY <1>1, <1>3, <1>4, <1>5, <1>6 DEF RInv

(* Every step keeps the invariant.                                         *)
LEMMA NextRInv == RInv /\ [Next]_vars => RInv'
<1> SUFFICES ASSUME RInv, [Next]_vars PROVE RInv'
  OBVIOUS
<1>1. CASE Tick
  BY <1>1, SameRInv DEF Tick
<1>2. CASE CheckTimers
  <2>1. /\ pc = "top" /\ pc' \in {"recv", "bundle"}
        /\ UNCHANGED <<asm, journal, flushed, file, bundle, live>>
    BY <1>2 DEF CheckTimers
  <2> QED
    BY <2>1, SameRInv
<1>3. CASE RecvTimeout
  BY <1>3, SameRInv DEF RecvTimeout
<1>4. ASSUME NEW n \in Packet, Deliver(n) PROVE RInv'
  BY <1>4, TrafficOnly, AcceptRInv DEF Deliver
<1>5. ASSUME NEW n \in Packet, Lose(n) PROVE RInv'
  BY <1>5, SameRInv DEF Lose
<1>6. ASSUME NEW n \in Packet, Duplicate(n) PROVE RInv'
  BY <1>6, TrafficOnly, AcceptRInv DEF Duplicate, Extra
<1>7. ASSUME NEW n \in Packet, Alter(n) PROVE RInv'
  BY <1>7, TrafficOnly, AcceptRInv DEF Alter, Extra
<1>8. ASSUME NEW n \in Packet, Break(n) PROVE RInv'
  BY <1>8, TrafficOnly, AcceptRInv DEF Break, Extra
<1>9. CASE OtherTraffic
  BY <1>9, TrafficOnly, AcceptRInv DEF OtherTraffic, Extra
<1>10. CASE Filtered
  BY <1>10, SameRInv DEF Filtered
<1>11. CASE WriteSamples
  BY <1>11, WriteSamplesRInv
<1>12. CASE WriteManifest
  BY <1>12, WriteManifestRInv
<1>13. CASE Dies
  BY <1>13, DiesRInv
<1>14. CASE Replay
  BY <1>14, ReplayRInv
<1>15. CASE ReplayRefuses
  BY <1>15, SameRInv DEF ReplayRefuses
<1>16. CASE UNCHANGED vars
  BY <1>16, SameRInv DEF vars
<1> QED
  BY <1>1, <1>2, <1>3, <1>4, <1>5, <1>6, <1>7, <1>8, <1>9, <1>10, <1>11, <1>12,
     <1>13, <1>14, <1>15, <1>16 DEF Next

(* The invariant holds in every reachable state.                           *)
LEMMA ReceiverInvariance == Spec => []RInv
BY InitRInv, NextRInv, PTL DEF Spec

(* However many datagrams there are and however they were lost, reordered, *)
(* duplicated or mixed with others, finalize declares the shot complete    *)
(* exactly when it arrived intact.                                         *)
THEOREM VerdictExact == Spec => []VerdictIsExact
<1>1. RInv => VerdictIsExact
  BY JudgedExactly DEF RInv, VerdictIsExact, Exact
<1> QED
  BY <1>1, ReceiverInvariance, PTL

(* The manifest beside the samples never lies about them, and a replay of  *)
(* a closed session repeats its verdict.                                   *)
THEOREM BundleSafe == Spec => []BundleNeverLies
<1>1. ASSUME RInv PROVE BundleNeverLies
  <2>1. bundle.manifest # "none" =>
          /\ pc = "done" /\ bundle.manifest = Judgement(asm) /\ live # "none"
          /\ bundle.samples = IF complete(asm) THEN reconstructed(asm) ELSE <<>>
    BY <1>1 DEF RInv
  <2>2. bundle.manifest = "complete" => bundle.samples = Payload
    BY <2>1, CompleteSamples DEF Judgement
  <2>3. bundle.manifest = "incomplete" => bundle.samples = <<>>
    BY <2>1 DEF Judgement
  <2>4. bundle.manifest # "none" /\ live # "dead" => bundle.manifest = live
    BY <1>1, <2>1 DEF RInv
  <2> QED
    BY <2>2, <2>3, <2>4 DEF BundleNeverLies
<1> QED
  BY <1>1, ReceiverInvariance, PTL
=============================================================================

-------------------------- MODULE RunReaderProofs --------------------------
(***************************************************************************)
(* What the analyzer window shows of a growing run, for any number of      *)
(* shots, any window size and any interleaving of the recorder with the    *)
(* steps of a refresh.                                                     *)
(***************************************************************************)
EXTENDS RunReader, FiniteSetTheorems, WellFoundedInduction, SequenceTheorems, TLAPS

(* A non-empty set of numbers has a least one. *)
LEMMA Minimum ==
  ASSUME NEW S, S \subseteq Nat, S # {}
  PROVE  \E m \in S : \A n \in S : m <= n
<1>1. \E m \in S : \A n \in S : <<n, m>> \notin OpToRel(<, Nat)
  BY NatLessThanWellFounded, WFMin
<1>2. \A n, m \in S : <<n, m>> \notin OpToRel(<, Nat) => m <= n
  BY DEF OpToRel
<1> QED
  BY <1>1, <1>2

-----------------------------------------------------------------------------
(* Counts of the records. *)

Record == [id : Nat, complete : BOOLEAN, at : Nat]
Counts == [complete : Nat, incomplete : Nat, skipped : Nat]
Ordered(records) ==
  \A i, j \in 1 .. Len(records) : i < j => records[i].id < records[j].id

(* A record of a list. *)
LEMMA Fields ==
  ASSUME NEW records \in Seq(Record), NEW i \in 1 .. Len(records)
  PROVE  records[i] \in Record /\ records[i].id \in Nat
<1>1. records[i] \in Record
  BY ElementOfSeq
<1> QED
  BY <1>1 DEF Record

(* The IDs strictly between two. *)
LEMMA GapSize ==
  ASSUME NEW a \in Nat, NEW b \in Nat
  PROVE  /\ IsFiniteSet(a + 1 .. b - 1)
         /\ a < b => Cardinality(a + 1 .. b - 1) = b - a - 1
<1>1. a + 1 \in Int /\ b - 1 \in Int
  OBVIOUS
<1>2. /\ IsFiniteSet(a + 1 .. b - 1)
      /\ Cardinality(a + 1 .. b - 1) =
           IF a + 1 > b - 1 THEN 0 ELSE b - 1 - (a + 1) + 1
  BY <1>1, FS_Interval, Zenon
<1> QED
  BY <1>2

(* The first k of some records. *)
LEMMA Prefix ==
  ASSUME NEW records \in Seq(Record), NEW k \in 0 .. Len(records)
  PROVE  /\ SubSeq(records, 1, k) \in Seq(Record)
         /\ Len(SubSeq(records, 1, k)) = k
         /\ DOMAIN SubSeq(records, 1, k) = 1 .. k
         /\ \A i \in 1 .. k : SubSeq(records, 1, k)[i] = records[i]
<1>1. \A i \in 1 .. k : records[i] \in Record
  OBVIOUS
<1>2. /\ SubSeq(records, 1, k) \in Seq(Record)
      /\ Len(SubSeq(records, 1, k)) = IF 1 <= k THEN k - 1 + 1 ELSE 0
      /\ \A i \in 1 .. k - 1 + 1 : SubSeq(records, 1, k)[i] = records[1 + i - 1]
  BY <1>1, SubSeqProperties
<1> QED
  BY <1>2

(* Records added later do not change the first k. *)
LEMMA PrefixKept ==
  ASSUME NEW old \in Seq(Record), NEW new \in Seq(Record), Len(old) <= Len(new),
         \A i \in 1 .. Len(old) : new[i] = old[i],
         NEW k \in 0 .. Len(old)
  PROVE  SubSeq(new, 1, k) = SubSeq(old, 1, k)
<1> DEFINE s == SubSeq(old, 1, k)
           t == SubSeq(new, 1, k)
<1>1. /\ s \in Seq(Record) /\ Len(s) = k
      /\ \A i \in 1 .. k : s[i] = old[i]
  BY Prefix
<1>2. /\ t \in Seq(Record) /\ Len(t) = k
      /\ \A i \in 1 .. k : t[i] = new[i]
  BY Prefix
<1>3. \A i \in 1 .. k : t[i] = s[i]
  BY <1>1, <1>2
<1> HIDE DEF s, t
<1>4. t = s
  BY <1>1, <1>2, <1>3, SeqEqual
<1> QED
  BY <1>4 DEF s, t

(* The IDs between the first k + 1 records of an ordered list are those    *)
(* between the first k and the ones in the last gap.                       *)
LEMMA SkipsNext ==
  ASSUME NEW records \in Seq(Record), Ordered(records), NEW k \in 1 .. Len(records) - 1
  PROVE  LET gap == records[k].id + 1 .. records[k + 1].id - 1
             before == Skips(SubSeq(records, 1, k))
         IN  /\ Skips(SubSeq(records, 1, k + 1)) = before \cup gap
             /\ before \cap gap = {}
             /\ before \subseteq 0 .. records[k].id
<1> DEFINE s == SubSeq(records, 1, k)
           t == SubSeq(records, 1, k + 1)
           Gap(i) == records[i].id + 1 .. records[i + 1].id - 1
<1>1. /\ Len(s) = k /\ \A i \in 1 .. k : s[i] = records[i]
      /\ Len(t) = k + 1 /\ \A i \in 1 .. k + 1 : t[i] = records[i]
  BY Prefix
<1>2. Skips(s) = UNION {Gap(i) : i \in 1 .. k - 1}
  BY <1>1 DEF Skips
<1>3. Skips(t) = UNION {Gap(i) : i \in 1 .. k}
  BY <1>1 DEF Skips
<1>4. 1 .. k = (1 .. k - 1) \cup {k}
  OBVIOUS
<1>5. Skips(t) = Skips(s) \cup Gap(k)
  BY <1>2, <1>3, <1>4
<1>6. \A i \in 1 .. Len(records) : records[i].id \in Nat
  BY Fields
<1>7. \A i \in 1 .. k - 1 : records[i + 1].id <= records[k].id
  <2> SUFFICES ASSUME NEW i \in 1 .. k - 1 PROVE records[i + 1].id <= records[k].id
    OBVIOUS
  <2>1. CASE i + 1 = k
    BY <2>1, <1>6
  <2>2. CASE i + 1 < k
    BY <2>2, <1>6 DEF Ordered
  <2> QED
    BY <2>1, <2>2
<1>8. \A i \in 1 .. k - 1 : Gap(i) \subseteq 0 .. records[k].id
  <2> SUFFICES ASSUME NEW i \in 1 .. k - 1 PROVE Gap(i) \subseteq 0 .. records[k].id
    OBVIOUS
  <2>0. i \in 1 .. Len(records) /\ i + 1 \in 1 .. Len(records) /\ k \in 1 .. Len(records)
    OBVIOUS
  <2>1. records[i].id \in Nat /\ records[i + 1].id \in Nat /\ records[k].id \in Nat
    BY <2>0, <1>6, Zenon
  <2>2. records[i + 1].id <= records[k].id
    BY <1>7
  <2> QED
    BY <2>1, <2>2
<1>9. Skips(s) \subseteq 0 .. records[k].id
  BY <1>2, <1>8
<1>10. Skips(s) \cap Gap(k) = {}
  BY <1>9, <1>6
<1> QED
  BY <1>5, <1>9, <1>10

(* The counts of nothing. *)
LEMMA CountedNone ==
  Counted(<<>>) = [complete |-> 0, incomplete |-> 0, skipped |-> 0]
<1>1. {i \in DOMAIN <<>> : <<>>[i].complete} = {}
  OBVIOUS
<1>2. {i \in DOMAIN <<>> : ~<<>>[i].complete} = {}
  OBVIOUS
<1>3. Skips(<<>>) = {}
  BY DEF Skips
<1> QED
  BY <1>1, <1>2, <1>3, FS_EmptySet DEF Counted

(* The counts of an ordered list of records are numbers. *)
LEMMA CountedType ==
  ASSUME NEW records \in Seq(Record), Ordered(records), NEW k \in 0 .. Len(records)
  PROVE  /\ Counted(SubSeq(records, 1, k)) \in Counts
         /\ IsFiniteSet(Skips(SubSeq(records, 1, k)))
<1> DEFINE s == SubSeq(records, 1, k)
<1>1. Len(s) = k /\ DOMAIN s = 1 .. k
  BY Prefix
<1>2. IsFiniteSet(1 .. k)
  BY FS_Interval
<1>3. IsFiniteSet(Skips(s))
  <2>1. CASE k <= 1
    <3>1. Skips(s) = {}
      BY <1>1, <2>1 DEF Skips
    <3> QED
      BY <3>1, FS_EmptySet
  <2>2. CASE k > 1
    <3> DEFINE j == k - 1
    <3>1. j \in 1 .. Len(records) - 1 /\ j + 1 = k
      BY <2>2
    <3>2. Skips(s) = Skips(SubSeq(records, 1, j)) \cup
                       (records[j].id + 1 .. records[j + 1].id - 1)
          /\ Skips(SubSeq(records, 1, j)) \subseteq 0 .. records[j].id
      BY <3>1, SkipsNext
    <3>3. records[j].id \in Nat /\ records[j + 1].id \in Nat
      BY <3>1, Fields
    <3> HIDE DEF j
    <3>4. IsFiniteSet(0 .. records[j].id)
      <4>1. 0 \in Int /\ records[j].id \in Int
        BY <3>3
      <4> QED
        BY <4>1, FS_Interval
    <3>5. IsFiniteSet(Skips(SubSeq(records, 1, j)))
      BY <3>2, <3>4, FS_Subset
    <3>6. IsFiniteSet(records[j].id + 1 .. records[j + 1].id - 1)
      BY <3>3, GapSize
    <3>7. IsFiniteSet(Skips(SubSeq(records, 1, j)) \cup
                        (records[j].id + 1 .. records[j + 1].id - 1))
      BY <3>5, <3>6, FS_Union
    <3> QED
      BY <3>2, <3>7
  <2> QED
    BY <2>1, <2>2
<1>4. /\ IsFiniteSet({i \in 1 .. k : s[i].complete})
      /\ IsFiniteSet({i \in 1 .. k : ~s[i].complete})
  BY <1>2, FS_Subset
<1>5. /\ Cardinality({i \in DOMAIN s : s[i].complete}) \in Nat
      /\ Cardinality({i \in DOMAIN s : ~s[i].complete}) \in Nat
      /\ Cardinality(Skips(s)) \in Nat
  BY <1>1, <1>3, <1>4, FS_CardinalityType
<1> HIDE DEF s
<1>6. Counted(s) \in Counts
  BY <1>5 DEF Counted, Counts
<1> QED
  BY <1>3, <1>6 DEF s

(* One more record is complete or incomplete, and skips what lies between  *)
(* it and the one before.                                                  *)
LEMMA CountedNext ==
  ASSUME NEW records \in Seq(Record), Ordered(records),
         NEW k \in 0 .. Len(records) - 1
  PROVE  LET c == Counted(SubSeq(records, 1, k))
             shot == records[k + 1]
         IN  Counted(SubSeq(records, 1, k + 1)) =
               [complete   |-> IF shot.complete THEN c.complete + 1 ELSE c.complete,
                incomplete |-> IF shot.complete THEN c.incomplete ELSE c.incomplete + 1,
                skipped    |-> IF k = 0 THEN c.skipped
                               ELSE c.skipped + shot.id - records[k].id - 1]
<1> DEFINE s == SubSeq(records, 1, k)
           t == SubSeq(records, 1, k + 1)
           shot == records[k + 1]
           Yes(r) == {i \in DOMAIN r : r[i].complete}
           No(r) == {i \in DOMAIN r : ~r[i].complete}
<1>1. /\ Len(s) = k /\ DOMAIN s = 1 .. k /\ \A i \in 1 .. k : s[i] = records[i]
      /\ Len(t) = k + 1 /\ DOMAIN t = 1 .. k + 1
      /\ \A i \in 1 .. k + 1 : t[i] = records[i]
  BY Prefix
<1>2. 1 .. k + 1 = (1 .. k) \cup {k + 1} /\ k + 1 \notin 1 .. k
  OBVIOUS
<1>3. IsFiniteSet(1 .. k)
  BY FS_Interval
<1>4. IsFiniteSet(Yes(s)) /\ IsFiniteSet(No(s)) /\ k + 1 \notin Yes(s) /\ k + 1 \notin No(s)
  <2>1. Yes(s) \subseteq 1 .. k /\ No(s) \subseteq 1 .. k
    BY <1>1
  <2> QED
    BY <2>1, <1>2, <1>3, FS_Subset
<1>5. shot.complete => Yes(t) = Yes(s) \cup {k + 1} /\ No(t) = No(s)
  BY <1>1, <1>2
<1>6. ~shot.complete => Yes(t) = Yes(s) /\ No(t) = No(s) \cup {k + 1}
  BY <1>1, <1>2
<1> HIDE DEF Yes, No
<1>7. /\ Cardinality(Yes(t)) = IF shot.complete THEN Cardinality(Yes(s)) + 1
                               ELSE Cardinality(Yes(s))
      /\ Cardinality(No(t)) = IF shot.complete THEN Cardinality(No(s))
                              ELSE Cardinality(No(s)) + 1
  <2>1. /\ Cardinality(Yes(s) \cup {k + 1}) = Cardinality(Yes(s)) + 1
        /\ Cardinality(No(s) \cup {k + 1}) = Cardinality(No(s)) + 1
    BY <1>4, FS_AddElement
  <2> QED
    BY <2>1, <1>5, <1>6
<1>8. Cardinality(Skips(t)) = IF k = 0 THEN Cardinality(Skips(s))
                              ELSE Cardinality(Skips(s)) + shot.id - records[k].id - 1
  <2>1. CASE k = 0
    <3>1. Skips(s) = {} /\ Skips(t) = {}
      BY <1>1, <2>1 DEF Skips
    <3> QED
      BY <2>1, <3>1
  <2>2. CASE k # 0
    <3> DEFINE gap == records[k].id + 1 .. shot.id - 1
    <3>1. k \in 1 .. Len(records) - 1
      BY <2>2
    <3>2. Skips(t) = Skips(s) \cup gap /\ Skips(s) \cap gap = {}
      BY <3>1, SkipsNext
    <3>3. records[k].id \in Nat /\ shot.id \in Nat /\ records[k].id < shot.id
      BY <3>1, Fields DEF Ordered
    <3>4. IsFiniteSet(gap) /\ Cardinality(gap) = shot.id - records[k].id - 1
      BY <3>3, GapSize
    <3>5. IsFiniteSet(Skips(s)) /\ Cardinality(Skips(s)) \in Nat
      BY CountedType, FS_CardinalityType
    <3> HIDE DEF gap
    <3>6. Cardinality(Skips(t)) = Cardinality(Skips(s)) + Cardinality(gap)
                                    - Cardinality({})
      BY <3>2, <3>4, <3>5, FS_Union
    <3>7. Cardinality({}) = 0
      BY FS_EmptySet
    <3> QED
      BY <2>2, <3>3, <3>4, <3>5, <3>6, <3>7
  <2> QED
    BY <2>1, <2>2
<1>9. /\ Counted(s) = [complete |-> Cardinality(Yes(s)), incomplete |-> Cardinality(No(s)),
                       skipped |-> Cardinality(Skips(s))]
      /\ Counted(t) = [complete |-> Cardinality(Yes(t)), incomplete |-> Cardinality(No(t)),
                       skipped |-> Cardinality(Skips(t))]
  BY DEF Counted, Yes, No
<1> HIDE DEF s, t
<1>10. Counted(t) =
         [complete   |-> IF shot.complete THEN Counted(s).complete + 1
                         ELSE Counted(s).complete,
          incomplete |-> IF shot.complete THEN Counted(s).incomplete
                         ELSE Counted(s).incomplete + 1,
          skipped    |-> IF k = 0 THEN Counted(s).skipped
                         ELSE Counted(s).skipped + shot.id - records[k].id - 1]
  BY <1>7, <1>8, <1>9
<1> QED
  BY <1>10 DEF s, t

-----------------------------------------------------------------------------
(* The binary search. *)

(* The steps of the search: f answers for an interval what it answers for  *)
(* the half that is left.                                                  *)
Middle(a, b) == (a + b) \div 2
Answer(f, id, a, b) ==
  IF a >= b THEN a
  ELSE IF index[Middle(a, b) + 1].id < id THEN f[<<Middle(a, b) + 1, b>>]
  ELSE f[<<a, Middle(a, b)>>]
Bounds(n) == (0 .. n) \X (0 .. n)
Searches(f, n, id) == f = [p \in Bounds(n) |-> Answer(f, id, p[1], p[2])]

(* Both halves are shorter than the interval and inside it. *)
LEMMA Halves ==
  ASSUME NEW n \in Nat, NEW a \in 0 .. n, NEW b \in 0 .. n, a < b
  PROVE  /\ Middle(a, b) \in 0 .. n /\ Middle(a, b) + 1 \in 0 .. n
         /\ b - (Middle(a, b) + 1) < b - a /\ Middle(a, b) - a < b - a
         /\ a <= Middle(a, b) /\ Middle(a, b) < b
<1>1. Middle(a, b) \in Int /\ 2 * Middle(a, b) <= a + b /\ a + b < 2 * Middle(a, b) + 2
  BY DEF Middle
<1> QED
  BY <1>1

(* A function that searches right for intervals up to k. *)
SearchesUpTo(k, f, n, id) ==
  /\ f \in [Bounds(n) -> 0 .. n]
  /\ \A a, b \in 0 .. n : b - a <= k => f[<<a, b>>] = Answer(f, id, a, b)

(* There is a search: if not, there is a least width without one, and the  *)
(* one for the width before answers for its halves.                        *)
LEMMA SearchExists ==
  ASSUME NEW n \in Nat, NEW id \in Nat
  PROVE  \E f : Searches(f, n, id)
<1> DEFINE Bad == {k \in Nat : ~ \E f : SearchesUpTo(k, f, n, id)}
<1>1. ASSUME NEW m \in Bad, \A k \in Bad : m <= k PROVE FALSE
  <2>1. CASE m = 0
    <3> DEFINE f == [p \in Bounds(n) |-> p[1]]
    <3>1. \A a, b \in 0 .. n : <<a, b>> \in Bounds(n) /\ f[<<a, b>>] = a
      BY DEF Bounds
    <3>2. f \in [Bounds(n) -> 0 .. n]
      BY DEF Bounds
    <3>3. \A a, b \in 0 .. n : b - a <= 0 => f[<<a, b>>] = Answer(f, id, a, b)
      BY <3>1 DEF Answer
    <3> HIDE DEF f
    <3> QED
      BY <2>1, <3>2, <3>3 DEF SearchesUpTo
  <2>2. CASE m # 0
    <3>1. m - 1 \in Nat /\ m - 1 \notin Bad
      BY <1>1, <2>2
    <3>2. PICK g : SearchesUpTo(m - 1, g, n, id)
      BY <3>1
    <3> DEFINE f == [p \in Bounds(n) |-> Answer(g, id, p[1], p[2])]
    <3>3. \A a, b \in 0 .. n : <<a, b>> \in Bounds(n) /\ f[<<a, b>>] = Answer(g, id, a, b)
      BY DEF Bounds
    <3>4. \A a, b \in 0 .. n : g[<<a, b>>] \in 0 .. n
      BY <3>2 DEF SearchesUpTo, Bounds
    <3>5. \A a, b \in 0 .. n : Answer(g, id, a, b) \in 0 .. n
      <4> SUFFICES ASSUME NEW a \in 0 .. n, NEW b \in 0 .. n
                   PROVE  Answer(g, id, a, b) \in 0 .. n
        OBVIOUS
      <4>1. CASE a >= b
        BY <4>1 DEF Answer
      <4>2. CASE a < b
        <5>1. Middle(a, b) \in 0 .. n /\ Middle(a, b) + 1 \in 0 .. n
          BY <4>2, Halves
        <5> QED
          BY <3>4, <4>2, <5>1 DEF Answer
      <4> QED
        BY <4>1, <4>2
    <3>6. f \in [Bounds(n) -> 0 .. n]
      BY <3>5 DEF Bounds
    <3>7. \A a, b \in 0 .. n : b - a <= m - 1 => f[<<a, b>>] = g[<<a, b>>]
      BY <3>2, <3>3 DEF SearchesUpTo
    <3> HIDE DEF f
    <3>8. ASSUME NEW a \in 0 .. n, NEW b \in 0 .. n, b - a <= m
          PROVE  f[<<a, b>>] = Answer(f, id, a, b)
      <4>1. CASE a >= b
        BY <3>3, <4>1 DEF Answer
      <4>2. CASE a < b
        <5>1. /\ Middle(a, b) \in 0 .. n /\ Middle(a, b) + 1 \in 0 .. n
              /\ b - (Middle(a, b) + 1) <= m - 1 /\ Middle(a, b) - a <= m - 1
          <6>1. /\ Middle(a, b) \in 0 .. n /\ Middle(a, b) + 1 \in 0 .. n
                /\ b - (Middle(a, b) + 1) < b - a /\ Middle(a, b) - a < b - a
            BY <4>2, Halves
          <6>2. m \in Nat /\ a \in Int /\ b \in Int /\ Middle(a, b) \in Int
            BY <6>1
          <6> QED
            BY <3>8, <6>1, <6>2
        <5>2. /\ f[<<Middle(a, b) + 1, b>>] = g[<<Middle(a, b) + 1, b>>]
              /\ f[<<a, Middle(a, b)>>] = g[<<a, Middle(a, b)>>]
          BY <3>7, <5>1
        <5> QED
          BY <3>3, <4>2, <5>2 DEF Answer
      <4> QED
        BY <4>1, <4>2
    <3>9. SearchesUpTo(m, f, n, id)
      BY <3>6, <3>8 DEF SearchesUpTo
    <3> QED
      BY <1>1, <3>9
  <2> QED
    BY <2>1, <2>2
<1>2. Bad = {}
  BY <1>1, Minimum
<1>3. PICK f : SearchesUpTo(n, f, n, id)
  BY <1>2
<1>4. \A a, b \in 0 .. n : f[<<a, b>>] = Answer(f, id, a, b)
  <2>1. \A a, b \in 0 .. n : b - a <= n
    OBVIOUS
  <2> QED
    BY <1>3, <2>1 DEF SearchesUpTo
<1>5. f = [p \in Bounds(n) |-> f[p]]
  BY <1>3, Zenon DEF SearchesUpTo
<1>6. \A p \in Bounds(n) : f[p] = Answer(f, id, p[1], p[2])
  BY <1>4 DEF Bounds
<1>7. Searches(f, n, id)
  BY <1>5, <1>6 DEF Searches
<1> QED
  BY <1>7

(* Every search ends inside the list. *)
LEMMA SearchEnds ==
  ASSUME NEW n \in Nat, NEW id \in Nat, NEW f, Searches(f, n, id)
  PROVE  f[<<0, n>>] \in 0 .. n
<1>1. \A a, b \in 0 .. n : f[<<a, b>>] = Answer(f, id, a, b)
  BY DEF Searches, Bounds
<1> DEFINE Wide(k) == \E a, b \in 0 .. n : b - a = k /\ f[<<a, b>>] \notin 0 .. n
           Bad == {k \in Nat : Wide(k)}
<1>2. ASSUME NEW m \in Bad, \A k \in Bad : m <= k PROVE FALSE
  <2>1. PICK a \in 0 .. n, b \in 0 .. n : b - a = m /\ f[<<a, b>>] \notin 0 .. n
    BY <1>2
  <2>2. a < b
    <3>1. f[<<a, b>>] = Answer(f, id, a, b)
      BY <1>1
    <3>2. a >= b => Answer(f, id, a, b) = a
      BY DEF Answer
    <3> QED
      BY <2>1, <3>1, <3>2
  <2>3. \A c, d \in 0 .. n : d - c \in Nat /\ d - c < m => f[<<c, d>>] \in 0 .. n
    <3> SUFFICES ASSUME NEW c \in 0 .. n, NEW d \in 0 .. n, d - c \in Nat, d - c < m,
                        f[<<c, d>>] \notin 0 .. n
                 PROVE  FALSE
      OBVIOUS
    <3>1. Wide(d - c)
      OBVIOUS
    <3>2. d - c \in Bad
      BY <3>1
    <3> HIDE DEF Bad
    <3>3. m <= d - c
      BY <1>2, <3>2
    <3>4. m \in Nat
      BY <1>2 DEF Bad
    <3> QED
      BY <3>3, <3>4
  <2>4. /\ Middle(a, b) \in 0 .. n /\ Middle(a, b) + 1 \in 0 .. n
        /\ b - (Middle(a, b) + 1) \in Nat /\ b - (Middle(a, b) + 1) < m
        /\ Middle(a, b) - a \in Nat /\ Middle(a, b) - a < m
    <3>1. /\ Middle(a, b) \in 0 .. n /\ Middle(a, b) + 1 \in 0 .. n
          /\ b - (Middle(a, b) + 1) < b - a /\ Middle(a, b) - a < b - a
          /\ a <= Middle(a, b) /\ Middle(a, b) < b
      BY <2>2, Halves
    <3>2. Middle(a, b) \in Int /\ a \in Int /\ b \in Int
      BY <3>1
    <3> QED
      BY <2>1, <3>1, <3>2
  <2>5. /\ f[<<Middle(a, b) + 1, b>>] \in 0 .. n
        /\ f[<<a, Middle(a, b)>>] \in 0 .. n
    BY <2>3, <2>4
  <2> QED
    BY <1>1, <2>1, <2>2, <2>5 DEF Answer
<1>3. Bad = {}
  BY <1>2, Minimum
<1>4. n \notin Bad
  BY <1>3
<1>5. ~ Wide(n)
  BY <1>4
<1>6. 0 \in 0 .. n /\ n \in 0 .. n /\ n - 0 = n
  OBVIOUS
<1> QED
  BY <1>5, <1>6

(* The search of the catalog is one, and its answer is in the list.        *)
LEMMA LowBounded ==
  ASSUME NEW n \in Nat, NEW id \in Nat
  PROVE  low(n, id) \in 0 .. n
<1> DEFINE f == CHOOSE g : Searches(g, n, id)
<1>1. Searches(f, n, id)
  BY SearchExists
<1>2. low(n, id) = f[<<0, n>>]
  BY DEF low, Searches, Answer, Middle, Bounds
<1> HIDE DEF f
<1> QED
  BY <1>1, <1>2, SearchEnds

-----------------------------------------------------------------------------
(* The inductive invariant. *)

Report == {"none", "complete", "incomplete"}
Catalog ==
  [open : BOOLEAN, run_id : BOOLEAN, record_count : Nat, scanned : Nat,
   counts : Counts, previous_id : Nat, previous_sample_end : Nat,
   manifest : Report, sender : Report]
Refresh ==
  [pc : {"idle", "index", "samples", "scan", "manifest", "sender", "check", "show"},
   opening : BOOLEAN, old_count : Nat, torn : BOOLEAN, samples : Nat, next : Nat,
   changed : BOOLEAN]
Health ==
  [state : {"none", "failed", "recording", "accepted"}, counts : Counts]
View ==
  [selected : Int, start : Int, stop : Int, job : Int, shown : Int,
   payload : Int, metadata : Int, health : Health,
   failure : {"none", "records", "truncated"}]

FilesTypeOK ==
  /\ recorder \in {"run", "index", "closed", "dead"}
  /\ header \in {"none", "run", "zero"}
  /\ samples \in Seq(Nat) /\ index \in Seq(Record) /\ writing \in Record
  /\ torn \in BOOLEAN /\ run_json \in Report /\ sender_json \in Report

(* A record whose shot is complete points at the samples of that shot.     *)
Backed(shot) ==
  /\ shot.id >= 1
  /\ shot.complete => shot.at \in 1 .. Len(samples) /\ samples[shot.at] = shot.id
(* A record comes before another in the files. *)
Before(shot, other) ==
  /\ shot.id < other.id
  /\ shot.complete /\ other.complete => shot.at < other.at

FilesOK ==
  /\ \A i \in 1 .. Len(index) : Backed(index[i])
  /\ \A i, j \in 1 .. Len(index) : i < j => Before(index[i], index[j])
  /\ recorder = "index" =>
       Backed(writing) /\ \A i \in 1 .. Len(index) : Before(index[i], writing)
  /\ run_json # "none" => recorder = "closed"
  /\ run_json = "complete" =>
       /\ Skips(index) = {}
       /\ \A i \in 1 .. Len(index) : index[i].complete

(* The records whose counts the catalog holds. *)
Done == IF refresh.pc = "scan" THEN refresh.next ELSE catalog.scanned

(* The catalog: how far it is, what it has counted and the records it      *)
(* still has to count, all of them inside the sample file it has seen.     *)
CatalogOK ==
  /\ catalog.scanned <= Done /\ Done <= catalog.record_count
  /\ catalog.record_count <= Len(index)
  /\ refresh.pc \notin {"samples", "scan"} => catalog.scanned = catalog.record_count
  /\ catalog.counts = Counted(SubSeq(index, 1, Done))
  /\ catalog.previous_id = IF Done = 0 THEN 0 ELSE index[Done].id
  /\ catalog.previous_sample_end # 0 =>
       \E i \in 1 .. Done : /\ index[i].complete
                            /\ index[i].at = catalog.previous_sample_end
  /\ refresh.pc = "scan" =>
       \A i \in 1 .. catalog.record_count :
          index[i].complete => index[i].at <= refresh.samples
  /\ catalog.manifest \in {"none", run_json}

(* Which refresh is under way, and what the window shows of the catalog.   *)
WindowOK ==
  /\ refresh.pc = "idle" => ~refresh.opening
  /\ refresh.pc # "idle" => (refresh.opening <=> ~catalog.open)
  /\ view.failure # "records"
  /\ ~catalog.open => /\ view.selected = None /\ view.job = None /\ view.shown = None
                      /\ view.metadata = None /\ view.health.state = "none" /\ view.stop = 0
  /\ view.stop <= catalog.record_count
  /\ view.job # None => view.job = view.selected
  /\ view.selected # None => view.selected \in 0 .. catalog.record_count - 1
  /\ view.shown # None => view.shown \in 0 .. catalog.record_count - 1

ReaderTypeOK == catalog \in Catalog /\ refresh \in Refresh /\ view \in View

Inv ==
  /\ FilesTypeOK /\ ReaderTypeOK
  /\ FilesOK /\ CatalogOK /\ WindowOK
  /\ ViewIsConsistent /\ AcceptedIsTrue

(* The invariant says that the counts are exact. *)
LEMMA ExactFromInv == Inv => CountsAreExact
<1> SUFFICES ASSUME Inv PROVE CountsAreExact
  OBVIOUS
<1>1. view.failure # "records"
  BY DEF Inv, WindowOK
<1>2. refresh.pc = "idle" => Done = catalog.record_count
  BY DEF Inv, CatalogOK, Done
<1> QED
  BY <1>1, <1>2 DEF CountsAreExact, Inv, CatalogOK

(* The invariant holds of an empty directory and a new window. *)
LEMMA InitInv == Init => Inv
<1> SUFFICES ASSUME Init PROVE Inv
  OBVIOUS
<1>1. FilesTypeOK
  BY EmptySeq DEF Init, FilesTypeOK, NoRecord, Record, Report
<1>2. Counted(<<>>) \in Counts
  BY CountedNone DEF Counts
<1>3. ReaderTypeOK
  BY <1>2 DEF Init, ReaderTypeOK, NewCatalog, NoRefresh, NewView, Catalog, Refresh,
     View, Health, Report, None
<1>4. FilesOK
  BY DEF Init, FilesOK
<1>5. SubSeq(index, 1, 0) = <<>>
  BY SubSeqEmpty
<1>6. CatalogOK
  <2>1. catalog = NewCatalog /\ Done = 0 /\ index = <<>> /\ run_json = "none"
          /\ refresh.pc = "idle"
    BY DEF Init, Done, NewCatalog, NoRefresh
  <2>2. /\ NewCatalog.scanned = 0 /\ NewCatalog.record_count = 0
        /\ NewCatalog.counts = Counted(<<>>) /\ NewCatalog.previous_id = 0
        /\ NewCatalog.previous_sample_end = 0 /\ NewCatalog.manifest = "none"
    BY DEF NewCatalog
  <2>3. SubSeq(index, 1, Done) = <<>>
    BY <1>5, <2>1
  <2>4. Len(index) = 0
    BY <2>1
  <2>5. catalog.counts = Counted(SubSeq(index, 1, Done))
    BY <2>1, <2>2, <2>3
  <2> QED
    BY <2>1, <2>2, <2>4, <2>5 DEF CatalogOK
<1>7. WindowOK /\ ViewIsConsistent /\ AcceptedIsTrue
  BY DEF Init, WindowOK, NewCatalog, NoRefresh, NewView, None, ViewIsConsistent,
     AcceptedIsTrue
<1> QED
  BY <1>1, <1>3, <1>4, <1>6, <1>7 DEF Inv

-----------------------------------------------------------------------------
(* The recorder. *)

(* What a step of the recorder leaves to a reader: all that was published. *)
Grows ==
  /\ Len(index) <= Len(index') /\ \A i \in 1 .. Len(index) : index'[i] = index[i]
  /\ Len(samples) <= Len(samples')
  /\ \A i \in 1 .. Len(samples) : samples'[i] = samples[i]
  /\ run_json # "none" => run_json' = run_json
  /\ run_json = "complete" => index' = index

(* A backed record stays backed when samples are appended. *)
LEMMA BackedKept ==
  ASSUME samples \in Seq(Nat), samples' \in Seq(Nat), Len(samples) <= Len(samples'),
         \A i \in 1 .. Len(samples) : samples'[i] = samples[i],
         NEW shot, Backed(shot)
  PROVE  Backed(shot)'
BY DEF Backed

(* Every step of the recorder and the sender keeps the files consistent    *)
(* and only adds to them.                                                  *)
LEMMA FilesStep ==
  ASSUME FilesTypeOK, FilesOK,
         \/ SelectRun \/ PublishSamples \/ PublishPart \/ PublishRecord
         \/ CloseRun \/ RecorderDies \/ SenderReports
  PROVE  FilesTypeOK' /\ FilesOK' /\ Grows
<1> USE DEF FilesTypeOK, Grows
<1>1. CASE SelectRun \/ PublishPart \/ RecorderDies \/ SenderReports
  <2>1. UNCHANGED <<samples, writing, index, run_json>>
    BY <1>1 DEF SelectRun, PublishPart, RecorderDies, SenderReports
  <2>2. FilesTypeOK'
    BY <1>1 DEF SelectRun, PublishPart, RecorderDies, SenderReports, Report
  <2>3. run_json # "none" => recorder' = recorder
    BY <1>1 DEF SelectRun, PublishPart, RecorderDies, SenderReports, FilesOK
  <2>4. recorder' = "index" => recorder = "index"
    BY <1>1 DEF SelectRun, PublishPart, RecorderDies, SenderReports
  <2>5. FilesOK'
    BY <2>1, <2>3, <2>4 DEF FilesOK, Backed, Before, Skips
  <2> QED
    BY <2>1, <2>2, <2>5
<1>2. CASE PublishSamples
  <2>1. /\ recorder = "run" /\ recorder' = "index"
        /\ UNCHANGED <<header, index, torn, run_json, sender_json>>
    BY <1>2 DEF PublishSamples
  <2>2. PICK id \in LastId + 1 .. Shots, complete \in BOOLEAN :
          IF complete
          THEN /\ samples' = Append(samples, id)
               /\ writing' = [id |-> id, complete |-> TRUE, at |-> Len(samples')]
          ELSE samples' = samples /\ writing' = [NoRecord EXCEPT !.id = id]
    BY <1>2 DEF PublishSamples
  <2>3. \A i \in 1 .. Len(index) : /\ index[i].id \in Nat /\ index[i].id <= LastId
                                   /\ index[i].at \in Nat
    <3> SUFFICES ASSUME NEW i \in 1 .. Len(index)
                 PROVE  /\ index[i].id \in Nat /\ index[i].id <= LastId
                        /\ index[i].at \in Nat
      OBVIOUS
    <3>1. index # <<>> /\ Len(index) \in 1 .. Len(index)
      OBVIOUS
    <3>2. LastId = index[Len(index)].id
      BY <3>1 DEF LastId, Last
    <3>3. index[i] \in Record /\ index[i].id \in Nat /\ index[Len(index)].id \in Nat
      BY <3>1, Fields
    <3>4. i = Len(index) \/ index[i].id < index[Len(index)].id
      BY <3>1 DEF FilesOK, Before
    <3> QED
      BY <3>2, <3>3, <3>4 DEF Record
  <2>4. LastId \in Nat
    BY Fields DEF LastId, Last
  <2>5. id \in Nat /\ id >= 1 /\ LastId < id
    BY <2>4, ReaderAssumption DEF ReaderAssumption
  <2>6. /\ samples' \in Seq(Nat) /\ Len(samples) <= Len(samples')
        /\ \A i \in 1 .. Len(samples) : samples'[i] = samples[i]
    <3>1. CASE complete
      <4>1. samples' = Append(samples, id)
        BY <2>2, <3>1
      <4> QED
        BY <4>1, <2>5
    <3>2. CASE ~complete
      BY <2>2, <3>2
    <3> QED
      BY <3>1, <3>2
  <2>7. writing' \in Record /\ writing'.id = id /\ Backed(writing)'
    <3>1. CASE complete
      <4>1. /\ samples' = Append(samples, id)
            /\ writing' = [id |-> id, complete |-> TRUE, at |-> Len(samples')]
        BY <2>2, <3>1
      <4>2. Len(samples') = Len(samples) + 1 /\ samples'[Len(samples) + 1] = id
        BY <4>1
      <4> QED
        BY <4>1, <4>2, <2>5 DEF Record, Backed
    <3>2. CASE ~complete
      <4>1. writing' = [id |-> id, complete |-> FALSE, at |-> 0]
        BY <2>2, <3>2 DEF NoRecord
      <4> QED
        BY <4>1, <2>5 DEF Record, Backed
    <3> QED
      BY <3>1, <3>2
  <2>8. writing'.complete => writing'.at = Len(samples) + 1
    BY <2>2, <2>5 DEF NoRecord
  <2>9. \A i \in 1 .. Len(index) : Before(index[i], writing')
    <3> SUFFICES ASSUME NEW i \in 1 .. Len(index) PROVE Before(index[i], writing')
      OBVIOUS
    <3>1. Backed(index[i])
      BY DEF FilesOK
    <3> QED
      BY <2>3, <2>4, <2>5, <2>7, <2>8, <3>1 DEF Before, Backed
  <2>10. \A i \in 1 .. Len(index) : Backed(index[i])'
    <3> SUFFICES ASSUME NEW i \in 1 .. Len(index) PROVE Backed(index[i])'
      OBVIOUS
    <3>1. Backed(index[i]) /\ index' = index
      BY <2>1 DEF FilesOK
    <3> QED
      BY <2>6, <3>1 DEF Backed
  <2>11. FilesTypeOK'
    BY <2>1, <2>6, <2>7
  <2>12. FilesOK'
    BY <2>1, <2>7, <2>9, <2>10 DEF FilesOK, Before
  <2> QED
    BY <2>1, <2>6, <2>11, <2>12
<1>3. CASE PublishRecord
  <2>1. /\ recorder = "index" /\ recorder' = "run" /\ index' = Append(index, writing)
        /\ writing' = NoRecord /\ torn' = FALSE
        /\ UNCHANGED <<header, samples, run_json, sender_json>>
    BY <1>3 DEF PublishRecord
  <2>2. /\ index' \in Seq(Record) /\ Len(index') = Len(index) + 1
        /\ \A i \in 1 .. Len(index) : index'[i] = index[i]
        /\ index'[Len(index) + 1] = writing
    BY <2>1
  <2>3. FilesTypeOK'
    BY <2>1, <2>2 DEF NoRecord, Record
  <2>4. run_json = "none"
    BY <2>1 DEF FilesOK
  <2>5. \A i \in 1 .. Len(index') : Backed(index[i])'
    <3> SUFFICES ASSUME NEW i \in 1 .. Len(index') PROVE Backed(index[i])'
      OBVIOUS
    <3>1. Backed(index'[i])
      BY <2>1, <2>2 DEF FilesOK
    <3> QED
      BY <2>1, <3>1 DEF Backed
  <2>6. \A i, j \in 1 .. Len(index') : i < j => Before(index'[i], index'[j])
    BY <2>1, <2>2 DEF FilesOK
  <2>7. FilesOK'
    BY <2>1, <2>4, <2>5, <2>6 DEF FilesOK, Before
  <2> QED
    BY <2>1, <2>2, <2>3, <2>4, <2>7
<1>4. CASE CloseRun
  <2>1. /\ recorder = "run" /\ recorder' = "closed"
        /\ header' \in {"none", "run", "zero"}
        /\ run_json' \in {"complete", "incomplete"}
        /\ run_json' = "complete" =>
             Skips(index) = {} /\ \A i \in DOMAIN index : index[i].complete
        /\ UNCHANGED <<samples, writing, index, torn, sender_json>>
    BY <1>4 DEF CloseRun
  <2>2. run_json = "none"
    BY <2>1 DEF FilesOK
  <2>3. FilesTypeOK'
    BY <2>1 DEF Report
  <2>4. FilesOK'
    BY <2>1 DEF FilesOK, Backed, Before, Skips
  <2> QED
    BY <2>1, <2>2, <2>3, <2>4
<1> QED
  BY <1>1, <1>2, <1>3, <1>4

(* A reader that stands still while the files grow keeps its invariant.    *)
LEMMA ReaderStands ==
  ASSUME Inv, FilesTypeOK', FilesOK', Grows, UNCHANGED reader
  PROVE  Inv'
<1>1. UNCHANGED <<catalog, refresh, view>> /\ Done' = Done
  BY DEF reader, Done
<1>2. ReaderTypeOK'
  BY <1>1 DEF Inv, ReaderTypeOK
<1>3. /\ Len(index) \in Nat /\ Len(index') \in Nat /\ Len(index) <= Len(index')
      /\ \A i \in 1 .. Len(index) : index'[i] = index[i]
      /\ index \in Seq(Record) /\ index' \in Seq(Record)
  BY DEF Inv, FilesTypeOK, Grows
<1>4. /\ catalog \in Catalog /\ refresh \in Refresh /\ view \in View
      /\ Done \in 0 .. Len(index) /\ catalog.record_count \in 0 .. Len(index)
  BY <1>3 DEF Inv, ReaderTypeOK, CatalogOK, Done, Catalog, Refresh
<1>5. SubSeq(index', 1, Done) = SubSeq(index, 1, Done)
  BY <1>3, <1>4, PrefixKept
<1>6. CatalogOK'
  <2>1. CatalogOK
    BY DEF Inv
  <2>2. catalog.record_count <= Len(index')
    BY <1>3, <1>4
  <2>3. /\ catalog.previous_id = IF Done = 0 THEN 0 ELSE index'[Done].id
        /\ catalog.previous_sample_end # 0 =>
             \E i \in 1 .. Done : /\ index'[i].complete
                                  /\ index'[i].at = catalog.previous_sample_end
        /\ refresh.pc = "scan" =>
             \A i \in 1 .. catalog.record_count :
                index'[i].complete => index'[i].at <= refresh.samples
    <3>1. \A i \in 1 .. Done : i \in 1 .. Len(index)
      BY <1>3, <1>4
    <3>2. \A i \in 1 .. catalog.record_count : i \in 1 .. Len(index)
      BY <1>3, <1>4
    <3>3. Done = 0 \/ Done \in 1 .. Len(index)
      BY <1>3, <1>4
    <3>4. catalog.previous_id = IF Done = 0 THEN 0 ELSE index'[Done].id
      BY <1>3, <3>3, <2>1 DEF CatalogOK
    <3>5. catalog.previous_sample_end # 0 =>
             \E i \in 1 .. Done : /\ index'[i].complete
                                  /\ index'[i].at = catalog.previous_sample_end
      BY <1>3, <3>1, <2>1 DEF CatalogOK
    <3>6. refresh.pc = "scan" =>
             \A i \in 1 .. catalog.record_count :
                index'[i].complete => index'[i].at <= refresh.samples
      BY <1>3, <3>2, <2>1 DEF CatalogOK
    <3> QED
      BY <3>4, <3>5, <3>6
  <2>4. catalog.manifest \in {"none", run_json'}
    BY <2>1 DEF CatalogOK, Grows
  <2> QED
    BY <1>1, <1>5, <2>1, <2>2, <2>3, <2>4 DEF CatalogOK
<1>7. WindowOK'
  BY <1>1 DEF Inv, WindowOK
<1>8. ViewIsConsistent'
  <2>1. /\ view.shown # None => view.shown + 1 \in 1 .. Len(index)
        /\ view.selected # None => view.selected + 1 \in 1 .. Len(index)
    BY <1>4 DEF Inv, WindowOK
  <2>2. /\ view.shown # None => index'[view.shown + 1] = index[view.shown + 1]
        /\ view.selected # None => index'[view.selected + 1] = index[view.selected + 1]
    BY <1>3, <2>1
  <2> QED
    BY <1>1, <2>2 DEF Inv, ViewIsConsistent, InWindow
<1>9. AcceptedIsTrue'
  <2>1. run_json = "complete" => run_json' = "complete" /\ index' = index
    BY DEF Grows
  <2> QED
    BY <1>1, <2>1 DEF Inv, AcceptedIsTrue, Counted, Skips
<1> QED
  BY <1>2, <1>6, <1>7, <1>8, <1>9 DEF Inv

-----------------------------------------------------------------------------
(* The steps of a refresh.  None touches the files. *)

(* Files that nothing touches stay consistent. *)
LEMMA FilesStand ==
  ASSUME Inv, UNCHANGED directory
  PROVE  FilesTypeOK' /\ FilesOK'
BY DEF Inv, directory, FilesTypeOK, FilesOK, Backed, Before, Skips

(* An accepted run stays accepted while the files and the window do not    *)
(* change and the sender's report is not read.                             *)
LEMMA AcceptedStands ==
  ASSUME Inv, UNCHANGED <<directory, view>>, catalog'.sender = catalog.sender,
         refresh.pc \notin {"check", "show"} \/ refresh'.pc \in {"check", "show"}
  PROVE  AcceptedIsTrue'
BY DEF Inv, AcceptedIsTrue, directory, Counted, Skips

(* Opening a run and the refresh timer. *)
LEMMA BeginStep ==
  ASSUME Inv, OpenRun \/ PeriodicRefresh
  PROVE  Inv'
<1>1. UNCHANGED <<directory, view>> /\ refresh.pc = "idle"
  BY DEF OpenRun, PeriodicRefresh
<1>2. CASE OpenRun
  <2>1. /\ ~catalog.open /\ catalog' = NewCatalog
        /\ refresh' = [NoRefresh EXCEPT !.pc = "index", !.opening = TRUE]
    BY <1>2 DEF OpenRun
  <2>2. ReaderTypeOK'
    <3>1. Counted(<<>>) \in Counts
      BY CountedNone DEF Counts
    <3>2. NewCatalog \in Catalog
      BY <3>1 DEF NewCatalog, Catalog, Report
    <3>3. refresh' \in Refresh
      BY <2>1 DEF NoRefresh, Refresh
    <3> QED
      BY <1>1, <2>1, <3>2, <3>3 DEF Inv, ReaderTypeOK
  <2>3. /\ catalog'.scanned = 0 /\ catalog'.record_count = 0
        /\ catalog'.counts = Counted(<<>>) /\ catalog'.previous_id = 0
        /\ catalog'.previous_sample_end = 0 /\ catalog'.manifest = "none"
        /\ catalog'.open = FALSE /\ catalog'.sender = "none"
        /\ refresh'.pc = "index" /\ refresh'.opening = TRUE /\ Done' = 0
    BY <2>1 DEF NewCatalog, NoRefresh, Done
  <2>4. SubSeq(index', 1, 0) = <<>>
    BY SubSeqEmpty
  <2>5. Len(index') \in Nat
    BY <1>1 DEF Inv, FilesTypeOK, directory
  <2>6. CatalogOK'
    <3>1. catalog'.counts = Counted(SubSeq(index', 1, Done'))
      BY <2>3, <2>4
    <3> QED
      BY <2>3, <2>5, <3>1 DEF CatalogOK
  <2>7. WindowOK' /\ ViewIsConsistent' /\ AcceptedIsTrue'
    BY <1>1, <2>1, <2>3 DEF Inv, WindowOK, ViewIsConsistent, AcceptedIsTrue
  <2> QED
    BY <1>1, <2>2, <2>6, <2>7, FilesStand DEF Inv
<1>3. CASE PeriodicRefresh
  <2>1. /\ catalog.open /\ catalog' = catalog
        /\ refresh' = [NoRefresh EXCEPT !.pc = "index", !.old_count = catalog.record_count]
    BY <1>3 DEF PeriodicRefresh
  <2>2. ReaderTypeOK'
    BY <1>1, <2>1 DEF Inv, ReaderTypeOK, Catalog, Refresh, NoRefresh
  <2>3. refresh'.pc = "index" /\ refresh'.opening = FALSE /\ Done' = Done
    BY <1>1, <2>1 DEF NoRefresh, Done
  <2>4. CatalogOK' /\ WindowOK' /\ ViewIsConsistent'
    BY <1>1, <2>1, <2>3 DEF Inv, CatalogOK, WindowOK, ViewIsConsistent, InWindow,
       directory
  <2>5. AcceptedIsTrue'
    BY <1>1, <2>1, AcceptedStands
  <2> QED
    BY <1>1, <2>2, <2>4, <2>5, FilesStand DEF Inv
<1> QED
  BY <1>2, <1>3

(* The sizes of the index and of the sample file. *)
LEMMA StatStep ==
  ASSUME Inv, StatIndex \/ StatSamples
  PROVE  Inv'
<1>1. UNCHANGED <<directory, view>>
  BY DEF StatIndex, StatSamples
<1>2. index' = index /\ samples' = samples /\ run_json' = run_json
        /\ Len(index) \in Nat /\ Len(samples) \in Nat
  BY <1>1 DEF directory, Inv, FilesTypeOK
<1>3. CASE StatIndex /\ header = "none"
  <2>1. /\ refresh.pc = "index" /\ catalog' = catalog
        /\ refresh' = [refresh EXCEPT !.pc = "show"]
    BY <1>3 DEF StatIndex
  <2>2. ReaderTypeOK' /\ refresh'.pc = "show" /\ refresh'.opening = refresh.opening
    BY <1>1, <2>1 DEF Inv, ReaderTypeOK, Refresh
  <2>3. Done' = Done
    BY <2>1, <2>2 DEF Done
  <2>4. CatalogOK' /\ WindowOK' /\ ViewIsConsistent'
    BY <1>1, <1>2, <2>1, <2>2, <2>3 DEF Inv, CatalogOK, WindowOK, ViewIsConsistent,
       InWindow
  <2>5. AcceptedIsTrue'
    BY <1>1, <2>1, <2>2, AcceptedStands
  <2> QED
    BY <1>1, <2>2, <2>4, <2>5, FilesStand DEF Inv
<1>4. CASE StatIndex /\ header # "none"
  <2>1. /\ refresh.pc = "index"
        /\ refresh' = [refresh EXCEPT !.pc = "samples", !.torn = torn,
                         !.changed = Len(index) # catalog.record_count]
        /\ catalog' = [catalog EXCEPT !.record_count = Len(index),
                                      !.run_id = header = "run"]
    BY <1>4 DEF StatIndex
  <2>2. /\ ReaderTypeOK' /\ refresh'.pc = "samples"
        /\ refresh'.opening = refresh.opening
    BY <1>1, <1>2, <2>1 DEF Inv, ReaderTypeOK, Refresh, Catalog, FilesTypeOK
  <2>3. /\ catalog'.record_count = Len(index) /\ catalog'.scanned = catalog.scanned
        /\ catalog'.counts = catalog.counts /\ catalog'.open = catalog.open
        /\ catalog'.previous_id = catalog.previous_id
        /\ catalog'.previous_sample_end = catalog.previous_sample_end
        /\ catalog'.manifest = catalog.manifest /\ catalog'.sender = catalog.sender
    BY <2>1 DEF Inv, ReaderTypeOK, Catalog
  <2>4. Done' = Done
    BY <2>1, <2>2, <2>3 DEF Done
  <2>5. CatalogOK'
    BY <1>2, <2>1, <2>2, <2>3, <2>4 DEF Inv, CatalogOK, ReaderTypeOK, Catalog, Done
  <2>6. /\ catalog.record_count \in Nat /\ catalog.record_count <= Len(index)
        /\ view \in View
    BY DEF Inv, ReaderTypeOK, Catalog, CatalogOK
  <2>7. WindowOK'
    BY <1>1, <1>2, <2>1, <2>2, <2>3, <2>6 DEF Inv, WindowOK, View
  <2>8. ViewIsConsistent'
    BY <1>1, <1>2, <2>3, <2>6 DEF Inv, ViewIsConsistent, InWindow, View
  <2>9. AcceptedIsTrue'
    BY <1>1, <2>1, <2>3, AcceptedStands
  <2> QED
    BY <1>1, <2>2, <2>5, <2>7, <2>8, <2>9, FilesStand DEF Inv
<1>5. CASE StatSamples
  <2>1. /\ refresh.pc = "samples" /\ catalog' = catalog
        /\ refresh' = [refresh EXCEPT !.pc = "scan", !.samples = Len(samples),
                                      !.next = catalog.scanned]
    BY <1>5 DEF StatSamples
  <2>2. /\ ReaderTypeOK' /\ refresh'.pc = "scan"
        /\ refresh'.opening = refresh.opening
        /\ refresh'.samples = Len(samples) /\ refresh'.next = catalog.scanned
    BY <1>1, <1>2, <2>1 DEF Inv, ReaderTypeOK, Refresh, Catalog
  <2>3. Done' = Done
    BY <2>1, <2>2 DEF Done
  <2>4. \A i \in 1 .. catalog.record_count :
          index[i].complete => index[i].at <= Len(samples)
    <3>1. catalog.record_count \in Nat /\ catalog.record_count <= Len(index)
      BY DEF Inv, ReaderTypeOK, Catalog, CatalogOK
    <3> QED
      BY <1>2, <3>1 DEF Inv, FilesOK, Backed
  <2>5. CatalogOK'
    BY <1>2, <2>1, <2>2, <2>3, <2>4 DEF Inv, CatalogOK
  <2>6. WindowOK' /\ ViewIsConsistent'
    BY <1>1, <1>2, <2>1, <2>2 DEF Inv, WindowOK, ViewIsConsistent, InWindow
  <2>7. AcceptedIsTrue'
    BY <1>1, <2>1, AcceptedStands
  <2> QED
    BY <1>1, <2>2, <2>5, <2>6, <2>7, FilesStand DEF Inv
<1> QED
  BY <1>3, <1>4, <1>5

(* Every record found is valid, and counting it keeps the counts exact.    *)
LEMMA ScanRecordStep ==
  ASSUME Inv, ScanRecord
  PROVE  Inv'
<1> DEFINE n == refresh.next
           shot == index[n + 1]
<1>1. refresh.pc = "scan" /\ n < catalog.record_count /\ Done = n
  BY DEF ScanRecord, Done
<1>2. /\ catalog \in Catalog /\ refresh \in Refresh /\ view \in View
      /\ index \in Seq(Record) /\ Len(index) \in Nat
      /\ n \in 0 .. Len(index) - 1 /\ catalog.record_count \in Nat
      /\ catalog.record_count <= Len(index)
  BY <1>1 DEF Inv, ReaderTypeOK, FilesTypeOK, CatalogOK, Catalog, Refresh
<1>3. n + 1 \in 1 .. Len(index) /\ n + 1 \in 1 .. catalog.record_count
  BY <1>1, <1>2
<1>4. shot \in Record /\ shot.id \in Nat /\ shot.at \in Nat /\ shot.complete \in BOOLEAN
        /\ Backed(shot)
  BY <1>2, <1>3, Fields DEF Record, Inv, FilesOK
<1>5. n # 0 => /\ n \in 1 .. Len(index) /\ index[n].id < shot.id
               /\ index[n].id \in Nat /\ index[n].id >= 1
  BY <1>2, <1>3, Fields DEF Inv, FilesOK, Before, Backed
<1>6. catalog.previous_id < shot.id /\ (n # 0 => catalog.previous_id # 0)
        /\ (n # 0 => catalog.previous_id = index[n].id)
        /\ (n = 0 => catalog.previous_id = 0)
  BY <1>1, <1>2, <1>4, <1>5 DEF Inv, CatalogOK, Backed
<1>7. shot.complete => /\ shot.at <= refresh.samples
                       /\ catalog.previous_sample_end < shot.at
  <2> SUFFICES ASSUME shot.complete
               PROVE  /\ shot.at <= refresh.samples
                      /\ catalog.previous_sample_end < shot.at
    OBVIOUS
  <2>1. shot.at <= refresh.samples
    BY <1>1, <1>3 DEF Inv, CatalogOK
  <2>2. CASE catalog.previous_sample_end = 0
    BY <1>4, <2>1, <2>2 DEF Backed
  <2>3. CASE catalog.previous_sample_end # 0
    <3>1. PICK i \in 1 .. n : index[i].complete /\ index[i].at = catalog.previous_sample_end
      BY <1>1, <2>3 DEF Inv, CatalogOK
    <3>2. i \in 1 .. Len(index) /\ i < n + 1
      BY <1>2, <3>1
    <3>3. Before(index[i], index[n + 1])
      BY <1>3, <3>2 DEF Inv, FilesOK
    <3> QED
      BY <2>1, <3>1, <3>3 DEF Before
  <2> QED
    BY <2>2, <2>3, <2>1
<1>8. RecordValid(shot)
  BY <1>6, <1>7, <1>2, <1>4 DEF RecordValid, Catalog
<1>9. /\ catalog' = _accumulate(catalog, shot)
      /\ refresh' = [refresh EXCEPT !.next = @ + 1]
      /\ UNCHANGED <<directory, view>>
  BY <1>8 DEF ScanRecord
<1>10. /\ catalog'.open = catalog.open /\ catalog'.run_id = catalog.run_id
       /\ catalog'.record_count = catalog.record_count
       /\ catalog'.scanned = catalog.scanned /\ catalog'.manifest = catalog.manifest
       /\ catalog'.sender = catalog.sender /\ catalog'.previous_id = shot.id
       /\ catalog'.previous_sample_end =
            IF shot.complete THEN shot.at ELSE catalog.previous_sample_end
  BY <1>2, <1>9 DEF _accumulate, SkippedTo, Catalog
<1> DEFINE c == catalog.counts
<1>11. catalog'.counts =
         [complete   |-> IF shot.complete THEN c.complete + 1 ELSE c.complete,
          incomplete |-> IF shot.complete THEN c.incomplete ELSE c.incomplete + 1,
          skipped    |-> IF catalog.previous_id = 0 THEN c.skipped
                         ELSE c.skipped + shot.id - catalog.previous_id - 1]
  BY <1>2, <1>9 DEF _accumulate, SkippedTo, Catalog, Counts
<1>12. /\ refresh'.pc = "scan" /\ refresh'.opening = refresh.opening
       /\ refresh'.samples = refresh.samples /\ refresh'.next = n + 1
       /\ Done' = n + 1 /\ refresh' \in Refresh
  BY <1>1, <1>2, <1>9 DEF Refresh, Done
<1>13. c = Counted(SubSeq(index, 1, n))
  BY <1>1 DEF Inv, CatalogOK
<1>14. Ordered(index)
  BY DEF Inv, FilesOK, Before, Ordered
<1>15. catalog'.counts = Counted(SubSeq(index, 1, n + 1))
  <2>1. Counted(SubSeq(index, 1, n + 1)) =
         [complete   |-> IF shot.complete THEN c.complete + 1 ELSE c.complete,
          incomplete |-> IF shot.complete THEN c.incomplete ELSE c.incomplete + 1,
          skipped    |-> IF n = 0 THEN c.skipped
                         ELSE c.skipped + shot.id - index[n].id - 1]
    BY <1>2, <1>13, <1>14, CountedNext
  <2> QED
    BY <2>1, <1>6, <1>11
<1>16. catalog'.counts \in Counts
  BY <1>2, <1>3, <1>14, <1>15, CountedType
<1>17. catalog' \in Catalog
  <2>1. catalog' = [catalog EXCEPT !.previous_id = catalog'.previous_id,
                      !.previous_sample_end = catalog'.previous_sample_end,
                      !.counts = catalog'.counts]
    BY <1>2, <1>9 DEF _accumulate, SkippedTo, Catalog
  <2> HIDE DEF c, shot
  <2> QED
    BY <1>2, <1>4, <1>10, <1>16, <2>1 DEF Catalog
<1>18. index' = index /\ samples' = samples /\ run_json' = run_json
  BY <1>9 DEF directory
<1>19. CatalogOK'
  <2>1. catalog'.counts = Counted(SubSeq(index', 1, Done'))
    BY <1>12, <1>15, <1>18
  <2>2. catalog'.previous_id = IF Done' = 0 THEN 0 ELSE index'[Done'].id
    BY <1>10, <1>12, <1>18, <1>2
  <2>3. catalog'.previous_sample_end # 0 =>
          \E i \in 1 .. Done' : /\ index'[i].complete
                                /\ index'[i].at = catalog'.previous_sample_end
    <3>1. CASE shot.complete
      BY <3>1, <1>2, <1>3, <1>10, <1>12, <1>18
    <3>2. CASE ~shot.complete
      <4>1. catalog.previous_sample_end # 0 =>
              \E i \in 1 .. n : /\ index[i].complete
                                /\ index[i].at = catalog.previous_sample_end
        BY <1>1 DEF Inv, CatalogOK
      <4>2. \A i \in 1 .. n : i \in 1 .. n + 1
        BY <1>2
      <4> QED
        BY <3>2, <4>1, <4>2, <1>10, <1>12, <1>18
    <3> QED
      BY <3>1, <3>2
  <2>4. /\ catalog'.scanned <= Done' /\ Done' <= catalog'.record_count
        /\ catalog'.record_count <= Len(index')
    BY <1>1, <1>2, <1>10, <1>12, <1>18 DEF Inv, CatalogOK, Catalog
  <2>5. /\ \A i \in 1 .. catalog'.record_count :
              index'[i].complete => index'[i].at <= refresh'.samples
        /\ catalog'.manifest \in {"none", run_json'}
    BY <1>1, <1>10, <1>12, <1>18 DEF Inv, CatalogOK
  <2> QED
    BY <1>12, <2>1, <2>2, <2>3, <2>4, <2>5 DEF CatalogOK
<1>20. WindowOK'
  BY <1>1, <1>9, <1>10, <1>12 DEF Inv, WindowOK
<1>21. ViewIsConsistent'
  BY <1>9, <1>10, <1>18 DEF Inv, ViewIsConsistent, InWindow
<1>22. AcceptedIsTrue'
  BY <1>1, <1>9, <1>10, AcceptedStands
<1> QED
  BY <1>2, <1>9, <1>12, <1>17, <1>19, <1>20, <1>21, <1>22, FilesStand DEF Inv, ReaderTypeOK

(* The end of the scan, and the reports. *)
LEMMA ReadStep ==
  ASSUME Inv, EndScan \/ ReadManifest \/ ReadSender
  PROVE  Inv'
<1>1. UNCHANGED <<directory, view>> /\ refresh.pc \in {"scan", "manifest", "sender"}
  BY DEF EndScan, ReadManifest, ReadSender
<1>2. /\ index' = index /\ run_json' = run_json /\ run_json \in Report
      /\ sender_json \in Report /\ Len(index) \in Nat /\ view' = view
      /\ catalog \in Catalog /\ refresh \in Refresh /\ view \in View
  BY <1>1 DEF directory, Inv, FilesTypeOK, ReaderTypeOK
<1>3. /\ catalog'.record_count = catalog.record_count /\ catalog'.open = catalog.open
      /\ catalog'.scanned = catalog.record_count
      /\ catalog'.counts = catalog.counts
      /\ catalog'.previous_id = catalog.previous_id
      /\ catalog'.previous_sample_end = catalog.previous_sample_end
      /\ catalog'.manifest \in {"none", run_json}
      /\ catalog' \in Catalog
  BY <1>2 DEF EndScan, ReadManifest, ReadSender, Inv, CatalogOK, Catalog
<1>4. /\ refresh'.opening = refresh.opening /\ refresh' \in Refresh
      /\ refresh'.pc \in {"manifest", "sender", "check"}
      /\ catalog'.sender # catalog.sender => refresh'.pc = "check"
  <2>1. CASE EndScan
    BY <1>2, <2>1 DEF EndScan, Refresh, Catalog
  <2>2. CASE ReadManifest
    BY <1>2, <2>2 DEF ReadManifest, Refresh, Catalog
  <2>3. CASE ReadSender
    BY <1>2, <2>3 DEF ReadSender, Refresh
  <2> QED
    BY <2>1, <2>2, <2>3
<1>5. Done' = catalog.record_count /\ Done = catalog.record_count
  BY <1>1, <1>3, <1>4 DEF Done, EndScan, ReadManifest, ReadSender, Inv, CatalogOK
<1>6. CatalogOK'
  BY <1>2, <1>3, <1>4, <1>5 DEF Inv, CatalogOK, Catalog
<1>7. WindowOK' /\ ViewIsConsistent'
  BY <1>1, <1>2, <1>3, <1>4 DEF Inv, WindowOK, ViewIsConsistent, InWindow
<1>8. AcceptedIsTrue'
  <2>1. CASE refresh'.pc = "check"
    BY <1>2, <2>1 DEF Inv, AcceptedIsTrue
  <2>2. CASE refresh'.pc # "check"
    BY <1>1, <1>4, <2>2, AcceptedStands
  <2> QED
    BY <2>1, <2>2
<1> QED
  BY <1>1, <1>2, <1>3, <1>4, <1>6, <1>7, <1>8, FilesStand DEF Inv, ReaderTypeOK

(* A complete run must not end in part of a record. *)
LEMMA CheckTailStep ==
  ASSUME Inv, CheckTail
  PROVE  Inv'
<1>1. refresh.pc = "check" /\ UNCHANGED directory
  BY DEF CheckTail, Raise
<1>2. /\ index' = index /\ run_json' = run_json /\ Len(index) \in Nat
      /\ catalog \in Catalog /\ refresh \in Refresh /\ view \in View
  BY <1>1 DEF directory, Inv, FilesTypeOK, ReaderTypeOK
<1>3. CASE ~(catalog.manifest = "complete" /\ refresh.torn)
  <2>1. refresh' = [refresh EXCEPT !.pc = "show"] /\ catalog' = catalog /\ view' = view
    BY <1>3 DEF CheckTail
  <2>2. refresh' \in Refresh /\ refresh'.pc = "show" /\ refresh'.opening = refresh.opening
          /\ Done' = Done
    BY <1>1, <1>2, <2>1 DEF Refresh, Done
  <2>3. CatalogOK' /\ WindowOK' /\ ViewIsConsistent'
    BY <1>1, <1>2, <2>1, <2>2 DEF Inv, CatalogOK, WindowOK, ViewIsConsistent, InWindow
  <2>4. AcceptedIsTrue'
    BY <1>1, <2>1, <2>2, AcceptedStands
  <2> QED
    BY <1>1, <1>2, <2>1, <2>2, <2>3, <2>4, FilesStand DEF Inv, ReaderTypeOK
<1>4. CASE catalog.manifest = "complete" /\ refresh.torn
  <2>1. /\ refresh' = NoRefresh
        /\ catalog' = IF refresh.opening THEN NewCatalog ELSE catalog
        /\ view' = [view EXCEPT !.failure = "truncated"]
    BY <1>4 DEF CheckTail, Raise
  <2>2. refresh' \in Refresh /\ refresh'.pc = "idle" /\ refresh'.opening = FALSE
          /\ Done = catalog.scanned /\ Done' = catalog'.scanned
    BY <1>1, <2>1 DEF NoRefresh, Refresh, Done
  <2>3. /\ view' \in View /\ view'.failure = "truncated"
        /\ view'.selected = view.selected /\ view'.start = view.start
        /\ view'.stop = view.stop /\ view'.job = view.job /\ view'.shown = view.shown
        /\ view'.payload = view.payload /\ view'.health = view.health
        /\ view'.metadata = view.metadata
    BY <1>2, <2>1 DEF View
  <2>4. AcceptedIsTrue'
    BY <1>2, <2>3 DEF Inv, AcceptedIsTrue
  <2>5. CASE refresh.opening
    <3>1. catalog' = NewCatalog /\ ~catalog.open
      BY <1>1, <2>1, <2>5 DEF Inv, WindowOK
    <3>2. /\ catalog'.scanned = 0 /\ catalog'.record_count = 0
          /\ catalog'.counts = Counted(<<>>) /\ catalog'.previous_id = 0
          /\ catalog'.previous_sample_end = 0 /\ catalog'.manifest = "none"
          /\ catalog'.open = FALSE
      BY <3>1 DEF NewCatalog
    <3>3. SubSeq(index', 1, 0) = <<>>
      BY SubSeqEmpty
    <3>4. catalog'.counts = Counted(SubSeq(index', 1, Done'))
      BY <2>2, <3>2, <3>3
    <3>5. CatalogOK'
      BY <1>2, <2>2, <3>2, <3>4 DEF CatalogOK
    <3>6. WindowOK' /\ ViewIsConsistent'
      BY <2>2, <2>3, <3>1, <3>2 DEF Inv, WindowOK, ViewIsConsistent
    <3>7. catalog' \in Catalog
      <4>1. Counted(<<>>) \in Counts
        BY CountedNone DEF Counts
      <4> QED
        BY <3>1, <4>1 DEF NewCatalog, Catalog, Report
    <3> QED
      BY <1>1, <2>2, <2>3, <2>4, <3>5, <3>6, <3>7, FilesStand DEF Inv, ReaderTypeOK
  <2>6. CASE ~refresh.opening
    <3>1. catalog' = catalog /\ catalog.open
      BY <1>1, <2>1, <2>6 DEF Inv, WindowOK
    <3>2. CatalogOK'
      BY <1>1, <1>2, <2>2, <3>1 DEF Inv, CatalogOK
    <3>3. WindowOK' /\ ViewIsConsistent'
      BY <1>2, <2>2, <2>3, <3>1 DEF Inv, WindowOK, ViewIsConsistent, InWindow
    <3> QED
      BY <1>1, <1>2, <2>2, <2>3, <2>4, <3>1, <3>2, <3>3, FilesStand DEF Inv, ReaderTypeOK
  <2> QED
    BY <2>5, <2>6
<1> QED
  BY <1>3, <1>4

-----------------------------------------------------------------------------
(* The window. *)

(* The listed window holds the record it is centred on and ends with the   *)
(* catalog.                                                                *)
LEMMA WindowHolds ==
  ASSUME NEW v \in View, NEW count \in Nat, NEW ordinal \in 0 .. count - 1
  PROVE  LET w == populate_shot_window(v, ordinal, count)
         IN  /\ w \in View /\ InWindow(w, ordinal) /\ w.stop <= count
             /\ w.selected = ordinal /\ w.job = ordinal /\ w.shown = v.shown
             /\ w.payload = v.payload /\ w.health = v.health /\ w.failure = v.failure
             /\ w.metadata = v.metadata
<1> DEFINE h == WindowSize \div 2
           start == MaxOf(0, MinOf(ordinal - h, count - WindowSize))
           stop == MinOf(count, start + WindowSize)
           w == [v EXCEPT !.start = start, !.stop = stop, !.selected = ordinal,
                          !.job = ordinal]
<1>1. WindowSize \in Nat \ {0} /\ h \in Nat /\ h < WindowSize
  BY ReaderAssumption DEF ReaderAssumption
<1>2. /\ start \in Int /\ stop \in Int
      /\ start <= ordinal /\ ordinal < stop /\ stop <= count
  <2> HIDE DEF h
  <2> QED
    BY <1>1 DEF MaxOf, MinOf
<1>3. populate_shot_window(v, ordinal, count) = w
  BY DEF populate_shot_window, Select, View
<1> HIDE DEF start, stop
<1>4. /\ w \in View /\ w.start = start /\ w.stop = stop
      /\ w.selected = ordinal /\ w.job = ordinal /\ w.shown = v.shown
      /\ w.payload = v.payload /\ w.health = v.health /\ w.failure = v.failure
      /\ w.metadata = v.metadata
  <2>1. ordinal \in Int
    OBVIOUS
  <2> HIDE DEF w
  <2>2. w = [v EXCEPT !.start = start, !.stop = stop, !.selected = ordinal,
                      !.job = ordinal]
    BY DEF w
  <2> QED
    BY <1>2, <2>1, <2>2 DEF View
<1> QED
  BY <1>2, <1>3, <1>4 DEF InWindow

(* Selecting a record of the catalog, inside the window or outside. *)
LEMMA SelectHolds ==
  ASSUME NEW v \in View, NEW count \in Nat, NEW ordinal \in 0 .. count - 1,
         v.stop <= count \/ ~InWindow(v, ordinal)
  PROVE  LET w == select_record(v, ordinal, count)
         IN  /\ w \in View /\ InWindow(w, ordinal) /\ w.stop <= count
             /\ w.selected = ordinal /\ w.job = ordinal /\ w.shown = v.shown
             /\ w.payload = v.payload /\ w.health = v.health /\ w.failure = v.failure
             /\ w.metadata = v.metadata
<1>1. CASE InWindow(v, ordinal)
  <2> DEFINE w == [v EXCEPT !.selected = ordinal, !.job = ordinal]
  <2>1. select_record(v, ordinal, count) = w
    BY <1>1 DEF select_record, Select
  <2>2. /\ w \in View /\ w.start = v.start /\ w.stop = v.stop
        /\ w.selected = ordinal /\ w.job = ordinal /\ w.shown = v.shown
        /\ w.payload = v.payload /\ w.health = v.health /\ w.failure = v.failure
        /\ w.metadata = v.metadata
    <3>1. ordinal \in Int
      OBVIOUS
    <3> HIDE DEF w
    <3>2. w = [v EXCEPT !.selected = ordinal, !.job = ordinal]
      BY DEF w
    <3> QED
      BY <3>1, <3>2 DEF View
  <2> QED
    BY <1>1, <2>1, <2>2 DEF InWindow
<1>2. CASE ~InWindow(v, ordinal)
  <2>1. select_record(v, ordinal, count) = populate_shot_window(v, ordinal, count)
    BY <1>2 DEF select_record
  <2> QED
    BY <2>1, WindowHolds
<1> QED
  BY <1>1, <1>2

(* The user selects a record, or jumps to one by its shot ID. *)
LEMMA SelectStep ==
  ASSUME Inv, NEW ordinal \in 0 .. catalog.record_count - 1,
         refresh.pc = "idle", catalog.open,
         view' = select_record(view, ordinal, catalog.record_count),
         UNCHANGED <<directory, catalog, refresh>>
  PROVE  Inv'
<1>1. /\ catalog \in Catalog /\ refresh \in Refresh /\ view \in View
      /\ catalog.record_count \in Nat /\ ordinal # None
      /\ index' = index /\ run_json' = run_json
  BY DEF Inv, ReaderTypeOK, Catalog, directory, None
<1>2. view.stop <= catalog.record_count \/ ~InWindow(view, ordinal)
  BY DEF Inv, WindowOK
<1>3. /\ view' \in View /\ InWindow(view, ordinal)' /\ view'.stop <= catalog.record_count
      /\ view'.selected = ordinal /\ view'.job = ordinal /\ view'.shown = view.shown
      /\ view'.payload = view.payload /\ view'.health = view.health
      /\ view'.failure = view.failure /\ view'.metadata = view.metadata
  BY <1>1, <1>2, SelectHolds DEF InWindow
<1>4. CatalogOK'
  BY <1>1 DEF Inv, CatalogOK, Done
<1>5. WindowOK' /\ ViewIsConsistent'
  BY <1>1, <1>3 DEF Inv, WindowOK, ViewIsConsistent, InWindow
<1>6. AcceptedIsTrue'
  BY <1>1, <1>3 DEF Inv, AcceptedIsTrue
<1> QED
  BY <1>1, <1>3, <1>4, <1>5, <1>6, FilesStand DEF Inv, ReaderTypeOK

(* A jump finds a record of the catalog or nothing. *)
LEMMA JumpStep ==
  ASSUME Inv, NEW id \in 1 .. Shots, JumpToShot(id)
  PROVE  Inv'
<1> DEFINE n == catalog.record_count
<1>1. n \in Nat /\ id \in Nat
  BY ReaderAssumption DEF Inv, ReaderTypeOK, Catalog, ReaderAssumption
<1>2. low(n, id) \in 0 .. n
  BY <1>1, LowBounded
<1>3. /\ refresh.pc = "idle" /\ catalog.open /\ find_shot_id(id) # None
      /\ view' = select_record(view, find_shot_id(id), n)
      /\ UNCHANGED <<directory, catalog, refresh>>
  BY DEF JumpToShot
<1>4. find_shot_id(id) \in 0 .. n - 1
  BY <1>1, <1>2, <1>3 DEF find_shot_id
<1> QED
  BY <1>3, <1>4, SelectStep

(* The display shows the record that is selected. *)
LEMMA DisplayStep ==
  ASSUME Inv, DisplayRecord
  PROVE  Inv'
<1> DEFINE shot == index[view.job + 1]
<1>1. /\ refresh.pc = "idle" /\ view.job # None
      /\ view' = [view EXCEPT !.job = None, !.shown = view.job, !.metadata = view.job,
                    !.payload = IF shot.complete THEN samples[shot.at] ELSE None]
      /\ UNCHANGED <<directory, catalog, refresh>>
  BY DEF DisplayRecord
<1>2. /\ catalog \in Catalog /\ refresh \in Refresh /\ view \in View
      /\ index' = index /\ run_json' = run_json
      /\ index \in Seq(Record) /\ Len(index) \in Nat
      /\ samples \in Seq(Nat)
  BY <1>1 DEF Inv, ReaderTypeOK, FilesTypeOK, directory
<1>3. view.job = view.selected /\ view.job \in 0 .. catalog.record_count - 1
        /\ catalog.record_count \in Nat /\ catalog.record_count <= Len(index)
  BY <1>1, <1>2 DEF Inv, WindowOK, CatalogOK, Catalog
<1>4. view.job + 1 \in 1 .. Len(index)
  BY <1>2, <1>3
<1>5. Backed(shot) /\ shot \in Record /\ shot.id \in Nat
  BY <1>2, <1>4, Fields DEF Inv, FilesOK
<1> DEFINE payload == IF shot.complete THEN samples[shot.at] ELSE None
<1>6. payload = (IF shot.complete THEN shot.id ELSE None) /\ payload \in Int
  BY <1>5 DEF Backed, None
<1>7. /\ view' \in View /\ view'.job = None /\ view'.shown = view.job
      /\ view'.metadata = view.job
      /\ view'.payload = payload /\ view'.selected = view.selected
      /\ view'.start = view.start /\ view'.stop = view.stop
      /\ view'.health = view.health /\ view'.failure = view.failure
  <2> HIDE DEF payload
  <2>1. view' = [view EXCEPT !.job = None, !.shown = view.job, !.metadata = view.job,
                             !.payload = payload]
    BY <1>1 DEF payload
  <2> QED
    <3>1. None \in Int /\ view.job \in Int
      BY <1>2 DEF None, View
    <3> QED
      BY <1>2, <1>6, <2>1, <3>1 DEF View
<1>8. CatalogOK'
  BY <1>1, <1>2 DEF Inv, CatalogOK, Done
<1>9. WindowOK'
  BY <1>1, <1>2, <1>3, <1>7 DEF Inv, WindowOK, None
<1>10. ViewIsConsistent'
  BY <1>1, <1>2, <1>3, <1>6, <1>7 DEF Inv, ViewIsConsistent, InWindow
<1>11. AcceptedIsTrue'
  BY <1>1, <1>2, <1>7 DEF Inv, AcceptedIsTrue
<1> QED
  BY <1>1, <1>2, <1>7, <1>8, <1>9, <1>10, <1>11, FilesStand DEF Inv, ReaderTypeOK

(* A failed analysis empties the table and leaves the figure. *)
LEMMA FailStep ==
  ASSUME Inv, AnalysisFails
  PROVE  Inv'
<1>1. /\ refresh.pc = "idle" /\ view.job # None /\ index[view.job + 1].complete
      /\ view' = [view EXCEPT !.job = None, !.metadata = None]
      /\ UNCHANGED <<directory, catalog, refresh>>
  BY DEF AnalysisFails
<1>2. /\ catalog \in Catalog /\ refresh \in Refresh /\ view \in View
      /\ index' = index /\ run_json' = run_json
  BY <1>1 DEF Inv, ReaderTypeOK, directory
<1>3. view.job = view.selected
  BY <1>1 DEF Inv, WindowOK
<1>4. /\ view' \in View /\ view'.job = None /\ view'.metadata = None
      /\ view'.shown = view.shown /\ view'.payload = view.payload
      /\ view'.selected = view.selected
      /\ view'.start = view.start /\ view'.stop = view.stop
      /\ view'.health = view.health /\ view'.failure = view.failure
  <2>1. None \in Int
    BY DEF None
  <2> QED
    BY <1>1, <1>2, <2>1 DEF View
<1>5. CatalogOK'
  BY <1>1, <1>2 DEF Inv, CatalogOK, Done
<1>6. WindowOK'
  BY <1>1, <1>2, <1>4 DEF Inv, WindowOK, None
<1>7. ViewIsConsistent'
  BY <1>1, <1>2, <1>3, <1>4 DEF Inv, ViewIsConsistent, InWindow
<1>8. AcceptedIsTrue'
  BY <1>1, <1>2, <1>4 DEF Inv, AcceptedIsTrue
<1> QED
  BY <1>1, <1>2, <1>4, <1>5, <1>6, <1>7, <1>8, FilesStand DEF Inv, ReaderTypeOK

(* A run accepted by its files has no incomplete record and no skipped ID. *)
LEMMA CompleteCounts ==
  ASSUME Inv, run_json = "complete"
  PROVE  Counted(index).incomplete = 0 /\ Counted(index).skipped = 0
<1>1. Skips(index) = {} /\ {i \in DOMAIN index : ~index[i].complete} = {}
  BY DEF Inv, FilesOK, FilesTypeOK
<1> QED
  BY <1>1, FS_EmptySet DEF Counted

(* The end of a refresh: the health of what it read, then the selection.   *)
LEMMA ShowRunStep ==
  ASSUME Inv, ShowRun
  PROVE  Inv'
<1> DEFINE count == catalog.record_count
           before == IF refresh.opening THEN NewView ELSE view
           shown == update_health(before, catalog, refresh.old_count)
           health == [state |-> HealthState(catalog.counts, catalog.manifest, catalog.sender),
                      counts |-> catalog.counts]
<1>1. /\ refresh.pc = "show" /\ refresh' = NoRefresh
      /\ catalog' = [catalog EXCEPT !.open = TRUE]
      /\ UNCHANGED directory
  BY DEF ShowRun
<1> DEFINE follows == view.selected # None /\ refresh.old_count > 0
                        /\ view.selected = refresh.old_count - 1
           target == IF ~follows /\ before.selected # None /\ before.selected < count
                     THEN before.selected ELSE count - 1
           moves == (refresh.changed \/ refresh.opening) /\ count > 0
                      /\ (follows \/ refresh.opening \/ ~InWindow(shown, target))
           Good(v) ==
             /\ v.job # None => v.job = v.selected
             /\ v.selected # None => /\ v.selected \in 0 .. count - 1
                                     /\ InWindow(v, v.selected)
                                     /\ v.job = None =>
                                          \/ v.metadata = v.selected
                                          \/ /\ v.metadata = None
                                             /\ index[v.selected + 1].complete
             /\ v.metadata # None => v.metadata = v.shown
             /\ v.stop <= count
             /\ v.shown # None =>
                  /\ v.shown \in 0 .. count - 1
                  /\ v.payload = IF index[v.shown + 1].complete
                                 THEN index[v.shown + 1].id ELSE None
<1>2. view' = IF moves THEN populate_shot_window(shown, target, count) ELSE shown
  BY DEF ShowRun
<1>3. /\ catalog \in Catalog /\ refresh \in Refresh /\ view \in View
      /\ index' = index /\ run_json' = run_json /\ count \in Nat
      /\ catalog.counts \in Counts
  BY <1>1 DEF Inv, ReaderTypeOK, directory, Catalog
<1>4. before \in View /\ Good(before)
  <2>1. CASE refresh.opening
    <3>1. before = NewView
      BY <2>1
    <3>2. Counted(<<>>) \in Counts
      BY CountedNone DEF Counts
    <3>3. /\ NewView.selected = None /\ NewView.job = None /\ NewView.shown = None
          /\ NewView.metadata = None /\ NewView.stop = 0 /\ NewView \in View
      BY <3>2 DEF NewView, View, Health, None
    <3> QED
      BY <3>1, <3>3, <1>3
  <2>2. CASE ~refresh.opening
    <3>1. before = view
      BY <2>2
    <3> QED
      BY <3>1, <1>3 DEF Inv, WindowOK, ViewIsConsistent
  <2> QED
    BY <2>1, <2>2
<1>5. health \in Health
  BY <1>3 DEF Health, HealthState
<1>6. shown = [before EXCEPT !.health = health, !.failure = "none"]
  BY DEF update_health
<1> HIDE DEF before, health
<1>7. /\ shown \in View /\ shown.selected = before.selected /\ shown.job = before.job
      /\ shown.start = before.start /\ shown.stop = before.stop
      /\ shown.metadata = before.metadata
      /\ shown.shown = before.shown /\ shown.payload = before.payload
      /\ shown.health = health /\ shown.failure = "none"
  BY <1>4, <1>5, <1>6 DEF View
<1> HIDE DEF shown
<1>8. Good(shown)
  BY <1>4, <1>7 DEF InWindow
<1>9. count > 0 => target \in 0 .. count - 1
  BY <1>3, <1>4
<1> HIDE DEF target
<1>10. /\ view' \in View /\ Good(view') /\ view'.health = health
       /\ view'.failure = "none"
  <2>1. CASE moves
    <3>1. target \in 0 .. count - 1
      BY <1>9, <2>1
    <3>2. view' = populate_shot_window(shown, target, count)
      BY <1>2, <2>1
    <3>3. /\ view' \in View /\ InWindow(view', target) /\ view'.stop <= count
          /\ view'.selected = target /\ view'.job = target /\ view'.shown = shown.shown
          /\ view'.payload = shown.payload /\ view'.health = shown.health
          /\ view'.failure = shown.failure /\ view'.metadata = shown.metadata
      BY <1>3, <1>7, <3>1, <3>2, WindowHolds
    <3>4. target # None
      BY <3>1 DEF None
    <3> QED
      BY <1>7, <1>8, <3>1, <3>3, <3>4
  <2>2. CASE ~moves
    BY <1>2, <1>7, <1>8, <2>2
  <2> QED
    BY <2>1, <2>2
<1>11. /\ catalog' \in Catalog /\ catalog'.open = TRUE
       /\ catalog'.record_count = count /\ catalog'.scanned = catalog.scanned
       /\ catalog'.counts = catalog.counts /\ catalog'.previous_id = catalog.previous_id
       /\ catalog'.previous_sample_end = catalog.previous_sample_end
       /\ catalog'.manifest = catalog.manifest /\ catalog'.sender = catalog.sender
  BY <1>1, <1>3 DEF Catalog
<1>12. /\ refresh' \in Refresh /\ refresh'.pc = "idle" /\ refresh'.opening = FALSE
       /\ Done' = Done
  BY <1>1, <1>11 DEF NoRefresh, Refresh, Done
<1>13. CatalogOK'
  BY <1>1, <1>3, <1>11, <1>12 DEF Inv, CatalogOK
<1>14. WindowOK' /\ ViewIsConsistent'
  BY <1>3, <1>10, <1>11, <1>12 DEF WindowOK, ViewIsConsistent, InWindow
<1>15. AcceptedIsTrue'
  <2> SUFFICES ASSUME view'.health.state = "accepted"
               PROVE  /\ run_json = "complete" /\ catalog.sender # "incomplete"
    BY <1>3, <1>11, CompleteCounts DEF AcceptedIsTrue, Counted, Skips
  <2>1. HealthState(catalog.counts, catalog.manifest, catalog.sender) = "accepted"
    BY <1>10 DEF health
  <2>2. catalog.manifest = "complete" /\ catalog.sender # "incomplete"
    BY <2>1 DEF HealthState
  <2> QED
    BY <2>2 DEF Inv, CatalogOK
<1> QED
  BY <1>1, <1>10, <1>11, <1>12, <1>13, <1>14, <1>15, FilesStand DEF Inv, ReaderTypeOK

-----------------------------------------------------------------------------
(* Every step keeps the invariant. *)
LEMMA NextInv == Inv /\ [Next]_vars => Inv'
<1> SUFFICES ASSUME Inv, [Next]_vars PROVE Inv'
  OBVIOUS
<1>1. CASE \/ SelectRun \/ PublishSamples \/ PublishPart \/ PublishRecord
           \/ CloseRun \/ RecorderDies \/ SenderReports
  <2>1. UNCHANGED reader
    BY <1>1 DEF SelectRun, PublishSamples, PublishPart, PublishRecord, CloseRun,
       RecorderDies, SenderReports
  <2>2. FilesTypeOK /\ FilesOK
    BY DEF Inv
  <2> QED
    BY <1>1, <2>1, <2>2, FilesStep, ReaderStands
<1>2. CASE OpenRun \/ PeriodicRefresh
  BY <1>2, BeginStep
<1>3. CASE ReaderStep
  BY <1>3, StatStep, ScanRecordStep, ReadStep, CheckTailStep, ShowRunStep DEF ReaderStep
<1>4. CASE DisplayRecord \/ AnalysisFails
  BY <1>4, DisplayStep, FailStep
<1>5. ASSUME NEW ordinal \in 0 .. Shots - 1, SelectShot(ordinal) PROVE Inv'
  BY <1>5, SelectStep DEF SelectShot
<1>6. ASSUME NEW id \in 1 .. Shots, JumpToShot(id) PROVE Inv'
  BY <1>6, JumpStep
<1>7. CASE UNCHANGED vars
  <2>1. UNCHANGED directory /\ UNCHANGED reader
    BY <1>7 DEF vars, reader
  <2>2. FilesTypeOK' /\ FilesOK' /\ Grows
    BY <2>1, FilesStand DEF Inv, FilesTypeOK, Grows, directory
  <2> QED
    BY <2>1, <2>2, ReaderStands
<1> QED
  BY <1>1, <1>2, <1>3, <1>4, <1>5, <1>6, <1>7 DEF Next

(* The files, the catalog and the window agree in every reachable state. *)
THEOREM ReaderInvariant == Spec => []Inv
<1> QED
  BY InitInv, NextInv, PTL DEF Spec

(* Between refreshes the catalog holds the exact counts of the records it  *)
(* knows of, and no refresh finds a bad record (RunIndex.refresh).         *)
THEOREM Counting == Spec => []CountsAreExact
<1> QED
  BY ReaderInvariant, ExactFromInv, PTL

(* The selected record is listed and in the catalog, the table describes   *)
(* it or stands empty after a failed analysis, and the figure shows the    *)
(* samples of the shot the table describes (display_record with its        *)
(* except, populate_shot_window).                                          *)
THEOREM Viewing == Spec => []ViewIsConsistent
<1>1. Inv => ViewIsConsistent
  BY DEF Inv
<1> QED
  BY <1>1, ReaderInvariant, PTL

(* A run shown as accepted was accepted by its recorder, has no incomplete *)
(* or skipped shot and no failed sender that was read (_build_health).     *)
THEOREM Accepting == Spec => []AcceptedIsTrue
<1>1. Inv => AcceptedIsTrue
  BY DEF Inv
<1> QED
  BY <1>1, ReaderInvariant, PTL
=============================================================================

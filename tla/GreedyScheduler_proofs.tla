------------------------ MODULE GreedyScheduler_proofs ------------------------
(***************************************************************************)
(* Theorems about module GreedyScheduler, for every set of inputs.         *)
(***************************************************************************)
EXTENDS GreedyScheduler, FiniteSetTheorems, SequenceTheorems, TLAPS

-----------------------------------------------------------------------------
(***************************************************************************)
(* Facts about the data                                                    *)
(***************************************************************************)

\* The configuration in force is a configuration, given or default.
LEMMA ConfigType == ASSUME input \in Inputs PROVE config \in Config
<1>1. DefaultConfig \in Config
  BY DEF DefaultConfig, Config, TimeRange
<1>2. input.config \in Config \union {NoConfig}
  BY InputsAssumption DEF Input
<1> QED BY <1>1, <1>2 DEF config

\* The parts of an input have the types of the structs they stand for.
LEMMA InputType ==
  ASSUME input \in Inputs
  PROVE  /\ input.rooms \in Seq(RoomTypes)
         /\ input.courses \subseteq CourseIds
         /\ input.sessions \in Seq(CourseSession)
         /\ Rooms \subseteq Nat \ {0}
         /\ Sessions \subseteq Nat \ {0}
         /\ \A i \in Sessions : input.sessions[i] \in CourseSession
         /\ OperatingDays \subseteq Int
<1>1. input \in Input
  BY InputsAssumption
<1>2. config \in Config
  BY ConfigType
<1>3. input.rooms \in Seq(RoomTypes) /\ input.sessions \in Seq(CourseSession)
  BY <1>1 DEF Input
<1>4. Rooms = 1..Len(input.rooms) /\ Sessions = 1..Len(input.sessions)
  BY <1>3 DEF Rooms, Sessions
<1> QED BY <1>1, <1>2, <1>3, <1>4 DEF Input, Config, OperatingDays

\* Alignment moves a start forward, never back, and less than a slot from a
\* start that is not negative.
LEMMA AlignedForward ==
  ASSUME input \in Inputs, NEW t \in Int
  PROVE  /\ Aligned(t) \in Int /\ Aligned(t) >= t
         /\ t >= 0 /\ Aligned(t) # t => Aligned(t) - t < config.preferredSlot
<1>1. config.preferredSlot \in Int
  BY ConfigType DEF Config
<1>2. ASSUME config.preferredSlot > 0
      PROVE  /\ Remainder(t) \in Int /\ Remainder(t) < config.preferredSlot
             /\ t >= 0 => Remainder(t) >= 0
  <2>1. CASE t >= 0
    <3>1. t % config.preferredSlot \in 0 .. config.preferredSlot - 1
      BY <1>1, <1>2
    <3> QED BY <1>1, <2>1, <3>1 DEF Remainder
  <2>2. CASE ~(t >= 0)
    <3>1. (-t) % config.preferredSlot \in 0 .. config.preferredSlot - 1
      BY <1>1, <1>2
    <3> QED BY <1>1, <1>2, <2>2, <3>1 DEF Remainder
  <2> QED BY <2>1, <2>2
<1> QED BY <1>1, <1>2 DEF Aligned

\* The ranges of a slice are ranges.
LEMMA RangesOf ==
  ASSUME NEW R \in Seq(TimeRange)
  PROVE  /\ ToSet(R) \in SUBSET TimeRange
         /\ DOMAIN R = 1..Len(R) /\ Len(R) \in Nat
         /\ \A r : r \in ToSet(R) <=> \E i \in DOMAIN R : r = R[i]
<1>1. \A i \in DOMAIN R : R[i] \in TimeRange
  OBVIOUS
<1> QED BY <1>1 DEF ToSet

\* A start lies in the range it was found in, at its boundary or its start.
LEMMA StartsInRange ==
  ASSUME input \in Inputs, NEW r \in TimeRange, NEW d \in Nat \ {0},
         NEW t \in StartsIn(r, d)
  PROVE  /\ t \in Int /\ r.start <= t /\ t + d <= r.end
         /\ t = Aligned(r.start) \/ t = r.start
<1>1. r.start \in Int /\ r.end \in Int
  BY DEF TimeRange
<1>2. Aligned(r.start) \in Int /\ Aligned(r.start) >= r.start
  BY <1>1, AlignedForward
<1> QED BY <1>1, <1>2 DEF StartsIn

\* findFirstAvailableSlot returns a start from which the whole duration lies
\* in one free range.
LEMMA SlotInRange ==
  ASSUME input \in Inputs, NEW R \in Seq(TimeRange), NEW d \in Nat \ {0},
         NEW t \in FirstAvailableSlot(R, d)
  PROVE  t \in Int /\ \E r \in ToSet(R) : r.start <= t /\ t + d <= r.end
<1>1. PICK i \in DOMAIN R : t \in StartsIn(R[i], d)
  BY DEF FirstAvailableSlot
<1>2. R[i] \in ToSet(R) /\ R[i] \in TimeRange
  BY RangesOf
<1> QED BY <1>1, <1>2, StartsInRange

-----------------------------------------------------------------------------
(***************************************************************************)
(* Flattening a sequence of sequences                                      *)
(***************************************************************************)

LEMMA LeastOne ==
  ASSUME NEW S \in SUBSET Nat, S # {}
  PROVE  \E n \in S : \A m \in S : n <= m
<1> DEFINE R == OpToRel(<, Nat)
<1>1. IsWellFoundedOn(R, Nat)
  BY NatLessThanWellFounded, Zenon
<1>2. \A m, n \in Nat : m < n => <<m, n>> \in R
  BY DEF OpToRel
<1> HIDE DEF R
<1>3. PICK n \in S : \A m \in S : ~(<<m, n>> \in R)
  BY <1>1, WFMin
<1>4. \A m \in S : ~(m < n)
  BY <1>2, <1>3, Zenon
<1>5. \A m \in S : n <= m
  BY <1>4
<1> QED BY <1>5

\* f[k] is what the first k sequences flatten to.
Flattens(f, seqs, n) ==
  f = [i \in 1..n |-> IF i = 1 THEN seqs[i] ELSE f[i-1] \o seqs[i]]

LEMMA FlattenStep ==
  ASSUME NEW seqs, NEW k \in Nat, k > 1, NEW g, Flattens(g, seqs, k - 1)
  PROVE  \E f : Flattens(f, seqs, k)
<1> DEFINE h == [i \in 1..k |-> IF i = k THEN g[k-1] \o seqs[k] ELSE g[i]]
           t == [i \in 1..k |-> IF i = 1 THEN seqs[i] ELSE h[i-1] \o seqs[i]]
<1>1. g = [i \in 1..(k - 1) |-> IF i = 1 THEN seqs[i] ELSE g[i-1] \o seqs[i]]
  BY DEF Flattens
<1>2. \A i \in 1..(k - 1) : g[i] = IF i = 1 THEN seqs[i] ELSE g[i-1] \o seqs[i]
  BY <1>1
<1>3. \A i \in 1..k : h[i] = IF i = k THEN g[k-1] \o seqs[k] ELSE g[i]
  OBVIOUS
<1>4. ASSUME NEW i \in 1..k PROVE h[i] = t[i]
  <2>1. t[i] = IF i = 1 THEN seqs[i] ELSE h[i-1] \o seqs[i]
    OBVIOUS
  <2> HIDE DEF h, t
  <2>2. CASE i = 1
    BY <1>2, <1>3, <2>1, <2>2
  <2>3. CASE i # 1 /\ i # k
    <3>1. i \in 1..(k - 1) /\ i - 1 \in 1..k /\ i - 1 # k
      BY <2>3
    <3> QED BY <1>2, <1>3, <2>1, <2>3, <3>1
  <2>4. CASE i # 1 /\ i = k
    <3>1. k - 1 \in 1..k /\ k - 1 # k
      OBVIOUS
    <3> QED BY <1>3, <2>1, <2>4, <3>1
  <2> QED BY <2>2, <2>3, <2>4
<1>5. h = t
  <2>1. DOMAIN h = 1..k /\ DOMAIN t = 1..k
    OBVIOUS
  <2>2. h = [i \in DOMAIN h |-> h[i]] /\ t = [i \in DOMAIN t |-> t[i]]
    OBVIOUS
  <2> HIDE DEF h, t
  <2> QED BY <1>4, <2>1, <2>2
<1> HIDE DEF h
<1>6. Flattens(h, seqs, k)
  BY <1>5 DEF Flattens
<1> QED BY <1>6

LEMMA FlattenExists ==
  ASSUME NEW seqs, NEW n \in Nat, n > 0
  PROVE  \E f : Flattens(f, seqs, n)
<1> DEFINE none == {k \in 1..n : ~ \E f : Flattens(f, seqs, k)}
<1>1. SUFFICES ASSUME none # {} PROVE FALSE
  <2>1. n \in 1..n
    OBVIOUS
  <2> QED BY <2>1, Zenon
<1>2. PICK k \in none : \A m \in none : k <= m
  <2>1. none \in SUBSET Nat
    OBVIOUS
  <2> HIDE DEF none
  <2> QED BY <1>1, <2>1, LeastOne
<1>3. k \in 1..n /\ ~ \E f : Flattens(f, seqs, k)
  OBVIOUS
<1>4. CASE k = 1
  <2> DEFINE g == [i \in 1..1 |-> seqs[i]]
  <2>1. g = [i \in 1..1 |-> IF i = 1 THEN seqs[i] ELSE g[i-1] \o seqs[i]]
    OBVIOUS
  <2> HIDE DEF g
  <2>2. Flattens(g, seqs, 1)
    BY <2>1 DEF Flattens
  <2> QED BY <1>3, <1>4, <2>2
<1>5. CASE k # 1
  <2>1. k - 1 \in 1..n /\ k - 1 \notin none
    BY <1>2, <1>3, <1>5
  <2>2. PICK g : Flattens(g, seqs, k - 1)
    BY <2>1
  <2>3. k \in Nat /\ k > 1
    BY <1>3, <1>5
  <2> QED BY <1>3, <2>2, <2>3, FlattenStep
<1> QED BY <1>4, <1>5

LEMMA FlattenIs ==
  ASSUME NEW seqs, Len(seqs) \in Nat, Len(seqs) > 0
  PROVE  \E f : Flattens(f, seqs, Len(seqs)) /\ FlattenSeq(seqs) = f[Len(seqs)]
<1> DEFINE F == CHOOSE f : f = [i \in 1..Len(seqs) |->
                                  IF i = 1 THEN seqs[i] ELSE f[i-1] \o seqs[i]]
<1>1. Flattens(F, seqs, Len(seqs))
  BY FlattenExists DEF Flattens
<1>2. FlattenSeq(seqs) = F[Len(seqs)]
  BY DEF FlattenSeq
<1> QED BY <1>1, <1>2

\* What is in a flattened sequence, and in which order.
Gathers(s, seqs, k) ==
  /\ \A p \in DOMAIN s : \E i \in 1..k : \E a \in DOMAIN seqs[i] : s[p] = seqs[i][a]
  /\ \A i \in 1..k : \A a \in DOMAIN seqs[i] : \E p \in DOMAIN s : s[p] = seqs[i][a]
  /\ \A p, q \in DOMAIN s : p < q =>
       \E i, j \in 1..k : \E a \in DOMAIN seqs[i] : \E b \in DOMAIN seqs[j] :
         /\ s[p] = seqs[i][a] /\ s[q] = seqs[j][b]
         /\ i < j \/ (i = j /\ a < b)

LEMMA ConcatFacts ==
  ASSUME NEW S, NEW s \in Seq(S), NEW t \in Seq(S)
  PROVE  /\ s \o t \in Seq(S) /\ Len(s) \in Nat /\ Len(t) \in Nat
         /\ DOMAIN s = 1..Len(s) /\ DOMAIN t = 1..Len(t)
         /\ DOMAIN (s \o t) = 1..(Len(s) + Len(t))
         /\ \A p \in 1..Len(s) : (s \o t)[p] = s[p]
         /\ \A p \in 1..Len(t) : (s \o t)[Len(s) + p] = t[p]
OBVIOUS

\* One more sequence is appended.
LEMMA GatherNext ==
  ASSUME NEW S, NEW k \in Nat, k > 1, NEW seqs, NEW s \in Seq(S), seqs[k] \in Seq(S),
         Gathers(s, seqs, k - 1)
  PROVE  Gathers(s \o seqs[k], seqs, k)
<1> DEFINE t == seqs[k]
           u == s \o t
           n == Len(s)
<1>1. /\ n \in Nat /\ Len(t) \in Nat
      /\ DOMAIN s = 1..n /\ DOMAIN t = 1..Len(t) /\ DOMAIN u = 1..(n + Len(t))
      /\ \A p \in 1..n : u[p] = s[p]
      /\ \A p \in 1..Len(t) : u[n + p] = t[p]
  BY ConcatFacts
<1>2. /\ \A p \in DOMAIN s : \E i \in 1..(k - 1) : \E a \in DOMAIN seqs[i] : s[p] = seqs[i][a]
      /\ \A i \in 1..(k - 1) : \A a \in DOMAIN seqs[i] : \E p \in DOMAIN s : s[p] = seqs[i][a]
      /\ \A p, q \in DOMAIN s : p < q =>
           \E i, j \in 1..(k - 1) : \E a \in DOMAIN seqs[i] : \E b \in DOMAIN seqs[j] :
             /\ s[p] = seqs[i][a] /\ s[q] = seqs[j][b]
             /\ i < j \/ (i = j /\ a < b)
  BY DEF Gathers
<1> HIDE DEF u, n
\* a place of u is a place of s, or a place of t behind it
<1>3. ASSUME NEW p \in DOMAIN u, ~(p \in 1..n)
      PROVE  p - n \in DOMAIN t /\ u[p] = t[p - n]
  <2> HIDE DEF t
  <2>1. /\ p - n \in 1..Len(t) /\ n + (p - n) = p
        /\ DOMAIN t = 1..Len(t)
        /\ \A m \in 1..Len(t) : u[n + m] = t[m]
    BY <1>1, <1>3
  <2>2. u[n + (p - n)] = t[p - n]
    BY <2>1
  <2> QED BY <2>1, <2>2
<1>4. k \in 1..k /\ 1..(k - 1) \subseteq 1..k /\ \A i \in 1..(k - 1) : i < k
  OBVIOUS
<1>5. ASSUME NEW p \in DOMAIN u
      PROVE  \E i \in 1..k : \E a \in DOMAIN seqs[i] : u[p] = seqs[i][a]
  <2>1. CASE p \in 1..n
    BY <1>1, <1>2, <1>4, <2>1
  <2>2. CASE ~(p \in 1..n)
    BY <1>3, <1>4, <2>2
  <2> QED BY <2>1, <2>2
<1>6. ASSUME NEW i \in 1..k, NEW a \in DOMAIN seqs[i]
      PROVE  \E p \in DOMAIN u : u[p] = seqs[i][a]
  <2>1. CASE i = k
    <3>1. a \in 1..Len(t)
      BY <1>1, <1>6, <2>1
    <3>2. n + a \in DOMAIN u
      BY <1>1, <3>1 DEF n
    <3> QED BY <1>1, <2>1, <3>1, <3>2
  <2>2. CASE i # k
    <3>1. i \in 1..(k - 1)
      BY <2>2
    <3>2. PICK p \in DOMAIN s : s[p] = seqs[i][a]
      BY <1>2, <3>1
    <3>3. p \in DOMAIN u
      BY <1>1, <3>2 DEF n
    <3> QED BY <1>1, <3>2, <3>3
  <2> QED BY <2>1, <2>2
<1>7. ASSUME NEW p \in DOMAIN u, NEW q \in DOMAIN u, p < q
      PROVE  \E i, j \in 1..k : \E a \in DOMAIN seqs[i] : \E b \in DOMAIN seqs[j] :
               /\ u[p] = seqs[i][a] /\ u[q] = seqs[j][b]
               /\ i < j \/ (i = j /\ a < b)
  <2>1. p \in Int /\ q \in Int /\ n \in Int
    BY <1>1, <1>7
  <2>2. CASE p \in 1..n /\ q \in 1..n
    <3>1. PICK i \in 1..(k - 1), j \in 1..(k - 1) :
            \E a \in DOMAIN seqs[i] : \E b \in DOMAIN seqs[j] :
              /\ s[p] = seqs[i][a] /\ s[q] = seqs[j][b]
              /\ i < j \/ (i = j /\ a < b)
      BY <1>1, <1>2, <1>7, <2>2
    <3> QED BY <1>1, <1>4, <2>2, <3>1
  <2>3. CASE p \in 1..n /\ ~(q \in 1..n)
    <3>1. PICK i \in 1..(k - 1) : \E a \in DOMAIN seqs[i] : s[p] = seqs[i][a]
      BY <1>1, <1>2, <2>3
    <3>4. PICK a \in DOMAIN seqs[i] : s[p] = seqs[i][a]
      BY <3>1
    <3>2. q - n \in DOMAIN seqs[k] /\ u[q] = seqs[k][q - n]
      BY <1>3, <2>3
    <3>3. i \in 1..k /\ i < k /\ u[p] = seqs[i][a]
      BY <1>1, <1>4, <2>3, <3>4
    <3> QED BY <1>4, <3>4, <3>2, <3>3
  <2>4. CASE ~(p \in 1..n) /\ ~(q \in 1..n)
    <3>1. /\ p - n \in DOMAIN seqs[k] /\ u[p] = seqs[k][p - n]
          /\ q - n \in DOMAIN seqs[k] /\ u[q] = seqs[k][q - n]
      BY <1>3, <2>4
    <3>2. p - n < q - n
      BY <1>7, <2>1
    <3> QED BY <1>4, <3>1, <3>2
  <2>5. CASE ~(p \in 1..n) /\ q \in 1..n
    BY <1>1, <1>7, <2>1, <2>5
  <2> QED BY <2>2, <2>3, <2>4, <2>5
<1> QED BY <1>5, <1>6, <1>7 DEF Gathers, u

LEMMA FlattenGathers ==
  ASSUME NEW S, NEW n \in Nat, n > 0, NEW seqs, \A i \in 1..n : seqs[i] \in Seq(S),
         NEW f, Flattens(f, seqs, n)
  PROVE  f[n] \in Seq(S) /\ Gathers(f[n], seqs, n)
<1> DEFINE bad == {k \in 1..n : ~(f[k] \in Seq(S) /\ Gathers(f[k], seqs, k))}
<1>1. SUFFICES ASSUME bad # {} PROVE FALSE
  <2>1. n \in 1..n
    OBVIOUS
  <2> QED BY <2>1, Zenon
<1>2. PICK k \in bad : \A m \in bad : k <= m
  <2>1. bad \in SUBSET Nat
    OBVIOUS
  <2> HIDE DEF bad
  <2> QED BY <1>1, <2>1, LeastOne
<1>3. k \in 1..n /\ ~(f[k] \in Seq(S) /\ Gathers(f[k], seqs, k))
  OBVIOUS
<1>4. f[k] = IF k = 1 THEN seqs[k] ELSE f[k-1] \o seqs[k]
  BY <1>3 DEF Flattens
<1>5. CASE k = 1
  <2>1. f[1] = seqs[1] /\ seqs[1] \in Seq(S)
    BY <1>3, <1>4, <1>5
  <2>2. Gathers(seqs[1], seqs, 1)
    BY DEF Gathers
  <2> QED BY <1>3, <1>5, <2>1, <2>2
<1>6. CASE k # 1
  <2>1. k - 1 \in 1..n /\ k - 1 \notin bad /\ k \in Nat /\ k > 1
    BY <1>2, <1>3, <1>6
  <2>2. f[k-1] \in Seq(S) /\ Gathers(f[k-1], seqs, k - 1) /\ seqs[k] \in Seq(S)
    BY <1>3, <2>1
  <2>3. f[k] = f[k-1] \o seqs[k]
    BY <1>4, <1>6
  <2>4. f[k] \in Seq(S)
    BY <2>2, <2>3
  <2>5. Gathers(f[k], seqs, k)
    BY <2>1, <2>2, <2>3, GatherNext
  <2> QED BY <1>3, <2>4, <2>5
<1> QED BY <1>5, <1>6

LEMMA Flattened ==
  ASSUME NEW S, NEW n \in Nat, NEW seqs \in [1..n -> Seq(S)]
  PROVE  FlattenSeq(seqs) \in Seq(S) /\ Gathers(FlattenSeq(seqs), seqs, n)
<1>1. Len(seqs) = n /\ seqs \in Seq(Seq(S))
  OBVIOUS
<1>2. CASE n = 0
  <2>1. FlattenSeq(seqs) = seqs /\ seqs = <<>>
    BY <1>1, <1>2 DEF FlattenSeq
  <2> QED BY <1>2, <2>1 DEF Gathers
<1>3. CASE n > 0
  <2>1. PICK f : Flattens(f, seqs, n) /\ FlattenSeq(seqs) = f[n]
    BY <1>1, <1>3, FlattenIs
  <2>2. \A i \in 1..n : seqs[i] \in Seq(S)
    OBVIOUS
  <2> QED BY <1>3, <2>1, <2>2, FlattenGathers
<1> QED BY <1>2, <1>3

-----------------------------------------------------------------------------
(***************************************************************************)
(* What consumeSlot makes of a slice                                       *)
(***************************************************************************)

\* What is kept of one range.
Kept(r, start, end) ==
  {p \in {r} : ~(r.end > start /\ r.start < end)}
    \union {p \in {[start |-> r.start, end |-> start]} :
              r.end > start /\ r.start < end /\ r.start < start}
    \union {p \in {[start |-> end, end |-> r.end]} :
              r.end > start /\ r.start < end /\ r.end > end}

\* The pieces of a range lie in it, in order and apart from each other.
LEMMA PiecesAre ==
  ASSUME NEW r \in TimeRange, NEW start \in Int, NEW end \in Int
  PROVE  /\ Pieces(r, start, end) \in Seq(TimeRange)
         /\ \A a \in DOMAIN Pieces(r, start, end) :
              LET p == Pieces(r, start, end)[a]
              IN  r.start <= p.start /\ p.end <= r.end /\ (p.start < p.end \/ p = r)
         /\ \A a, b \in DOMAIN Pieces(r, start, end) :
              start < end /\ a < b =>
                Pieces(r, start, end)[a].end < Pieces(r, start, end)[b].start
         /\ \A p : (\E a \in DOMAIN Pieces(r, start, end) : p = Pieces(r, start, end)[a])
                     <=> p \in Kept(r, start, end)
<1> DEFINE left == [start |-> r.start, end |-> start]
           right == [start |-> end, end |-> r.end]
<1>1. /\ r.start \in Int /\ r.end \in Int
      /\ left \in TimeRange /\ left.start = r.start /\ left.end = start
      /\ right \in TimeRange /\ right.start = end /\ right.end = r.end
  BY DEF TimeRange
<1>2. \A p : p \in Kept(r, start, end) <=>
        \/ p = r /\ ~(r.end > start /\ r.start < end)
        \/ p = left /\ r.end > start /\ r.start < end /\ r.start < start
        \/ p = right /\ r.end > start /\ r.start < end /\ r.end > end
  BY DEF Kept
<1>3. Pieces(r, start, end) =
        IF r.end <= start \/ r.start >= end THEN <<r>>
        ELSE (IF r.start < start THEN <<left>> ELSE <<>>)
             \o (IF r.end > end THEN <<right>> ELSE <<>>)
  BY DEF Pieces, Left, Right
<1> HIDE DEF left, right
<1>10. <<left>> \o <<>> = <<left>>
  <2>1. <<left>> \in Seq(TimeRange) /\ <<>> \in Seq(TimeRange) /\ Len(<<>>) = 0
    BY <1>1
  <2>2. \A s \in Seq(TimeRange) : s \o <<>> = s
    BY ConcatEmptySeq
  <2> QED BY <2>1, <2>2
<1>4. CASE ~(r.end > start /\ r.start < end)
  <2>1. Pieces(r, start, end) = <<r>>
    BY <1>1, <1>3, <1>4
  <2> QED BY <1>1, <1>2, <1>4, <2>1
<1>5. CASE r.end > start /\ r.start < end /\ r.start < start /\ r.end > end
  <2>1. Pieces(r, start, end) = <<left>> \o <<right>>
    BY <1>1, <1>3, <1>5
  <2>2. \A p : p \in Kept(r, start, end) <=> p = left \/ p = right
    BY <1>1, <1>2, <1>5
  <2>3. /\ r.start <= left.start /\ left.end <= r.end /\ left.start < left.end
        /\ r.start <= right.start /\ right.end <= r.end /\ right.start < right.end
        /\ start < end => left.end < right.start
    BY <1>1, <1>5
  <2> DEFINE P == <<left>> \o <<right>>
  <2> HIDE DEF P
  <2>4. P \in Seq(TimeRange) /\ DOMAIN P = 1..2 /\ P[1] = left /\ P[2] = right
    <3>1. /\ <<left>> \in Seq(TimeRange) /\ Len(<<left>>) = 1 /\ <<left>>[1] = left
          /\ <<right>> \in Seq(TimeRange) /\ Len(<<right>>) = 1 /\ <<right>>[1] = right
      BY <1>1
    <3>2. /\ P \in Seq(TimeRange)
          /\ DOMAIN P = 1..(Len(<<left>>) + Len(<<right>>))
          /\ \A p \in 1..Len(<<left>>) : P[p] = <<left>>[p]
          /\ \A p \in 1..Len(<<right>>) : P[Len(<<left>>) + p] = <<right>>[p]
      BY <3>1, ConcatFacts DEF P
    <3> DEFINE ll == <<left>>
               rr == <<right>>
    <3>3. /\ Len(ll) = 1 /\ Len(rr) = 1 /\ ll[1] = left /\ rr[1] = right
          /\ DOMAIN P = 1..(Len(ll) + Len(rr))
          /\ \A p \in 1..Len(ll) : P[p] = ll[p]
          /\ \A p \in 1..Len(rr) : P[Len(ll) + p] = rr[p]
      BY <3>1, <3>2
    <3> HIDE DEF ll, rr
    <3>4. DOMAIN P = 1..2
      BY <3>3
    <3>5. P[1] = left
      BY <3>3
    <3>6. P[1 + 1] = right
      BY <3>3
    <3> QED BY <3>2, <3>4, <3>5, <3>6
  <2>5. \A a \in 1..2 : a = 1 \/ a = 2
    OBVIOUS
  <2>6. /\ \A a \in DOMAIN P : r.start <= P[a].start /\ P[a].end <= r.end
                                 /\ P[a].start < P[a].end
        /\ \A a, b \in DOMAIN P : start < end /\ a < b => P[a].end < P[b].start
    BY <2>3, <2>4, <2>5
  <2>7. \A p : (\E a \in DOMAIN P : p = P[a]) <=> p = left \/ p = right
    BY <2>4, <2>5
  <2>8. Pieces(r, start, end) = P /\ P \in Seq(TimeRange)
    BY <2>1, <2>4 DEF P
  <2> QED BY <2>2, <2>6, <2>7, <2>8
<1>6. CASE r.end > start /\ r.start < end /\ r.start < start /\ ~(r.end > end)
  <2>1. Pieces(r, start, end) = <<left>>
    <3>1. Pieces(r, start, end) = <<left>> \o <<>>
      <4>1. Pieces(r, start, end) = (IF r.start < start THEN <<left>> ELSE <<>>)
                                      \o (IF r.end > end THEN <<right>> ELSE <<>>)
        BY <1>1, <1>3, <1>6
      <4> QED BY <1>6, <4>1
    <3> QED BY <3>1, <1>10
  <2>2. \A p : p \in Kept(r, start, end) <=> p = left
    BY <1>1, <1>2, <1>6
  <2>3. r.start <= left.start /\ left.end <= r.end /\ left.start < left.end
    BY <1>1, <1>6
  <2> QED BY <1>1, <2>1, <2>2, <2>3
<1>7. CASE r.end > start /\ r.start < end /\ ~(r.start < start) /\ r.end > end
  <2>1. Pieces(r, start, end) = <<right>>
    BY <1>1, <1>3, <1>7
  <2>2. \A p : p \in Kept(r, start, end) <=> p = right
    BY <1>1, <1>2, <1>7
  <2>3. r.start <= right.start /\ right.end <= r.end /\ right.start < right.end
    BY <1>1, <1>7
  <2> QED BY <1>1, <2>1, <2>2, <2>3
<1>8. CASE r.end > start /\ r.start < end /\ ~(r.start < start) /\ ~(r.end > end)
  <2>1. Pieces(r, start, end) = <<>>
    BY <1>1, <1>3, <1>8
  <2> QED BY <1>1, <1>2, <1>8, <2>1
<1> QED BY <1>4, <1>5, <1>6, <1>7, <1>8

\* The new slice is made of what is kept of the old ranges, in their order.
LEMMA ConsumeIs ==
  ASSUME NEW R \in Seq(TimeRange), NEW s \in Int, NEW e \in Int
  PROVE  /\ ConsumeSlot(R, s, e) \in Seq(TimeRange)
         /\ \A x : x \in ToSet(ConsumeSlot(R, s, e)) <=> \E r \in ToSet(R) : x \in Kept(r, s, e)
         /\ (/\ s < e
             /\ \A i, j \in DOMAIN R : i < j => R[i].end < R[j].start)
              => \A p, q \in DOMAIN ConsumeSlot(R, s, e) :
                   p < q => ConsumeSlot(R, s, e)[p].end < ConsumeSlot(R, s, e)[q].start
<1> DEFINE n == Len(R)
           seqs == [i \in 1..n |-> Pieces(R[i], s, e)]
           C == ConsumeSlot(R, s, e)
           Faithful(P, r) ==
             /\ P \in Seq(TimeRange)
             /\ \A a \in DOMAIN P : r.start <= P[a].start /\ P[a].end <= r.end
             /\ \A a, b \in DOMAIN P : s < e /\ a < b => P[a].end < P[b].start
             /\ \A p : (\E a \in DOMAIN P : p = P[a]) <=> p \in Kept(r, s, e)
<1>1. n \in Nat /\ DOMAIN R = 1..n /\ \A i \in 1..n : R[i] \in TimeRange
  OBVIOUS
<1>2. \A i \in 1..n : Faithful(seqs[i], R[i])
  <2> SUFFICES ASSUME NEW i \in 1..n PROVE Faithful(seqs[i], R[i])
    OBVIOUS
  <2>1. seqs[i] = Pieces(R[i], s, e) /\ R[i] \in TimeRange
    BY <1>1
  <2> HIDE DEF seqs
  <2>2. \A r \in TimeRange : Faithful(Pieces(r, s, e), r)
    BY PiecesAre
  <2> HIDE DEF Faithful
  <2> QED BY <2>1, <2>2
<1>3. seqs \in [1..n -> Seq(TimeRange)]
  <2>1. \A i \in 1..n : seqs[i] \in Seq(TimeRange)
    BY <1>2
  <2> QED BY <2>1
<1>4. C = FlattenSeq(seqs)
  BY <1>1 DEF ConsumeSlot
<1> HIDE DEF seqs, n, C
<1>5. C \in Seq(TimeRange) /\ Gathers(C, seqs, n)
  BY <1>1, <1>3, <1>4, Flattened
<1>6. /\ \A p \in DOMAIN C : \E i \in 1..n : \E a \in DOMAIN seqs[i] : C[p] = seqs[i][a]
      /\ \A i \in 1..n : \A a \in DOMAIN seqs[i] : \E p \in DOMAIN C : C[p] = seqs[i][a]
      /\ \A p, q \in DOMAIN C : p < q =>
           \E i, j \in 1..n : \E a \in DOMAIN seqs[i] : \E b \in DOMAIN seqs[j] :
             /\ C[p] = seqs[i][a] /\ C[q] = seqs[j][b]
             /\ i < j \/ (i = j /\ a < b)
  BY <1>5 DEF Gathers
<1>7. ASSUME NEW x
      PROVE  x \in ToSet(C) <=> \E r \in ToSet(R) : x \in Kept(r, s, e)
  <2>1. (\E r \in ToSet(R) : x \in Kept(r, s, e)) <=> \E i \in 1..n : x \in Kept(R[i], s, e)
    BY <1>1 DEF ToSet
  <2>2. x \in ToSet(C) <=> \E i \in 1..n : \E a \in DOMAIN seqs[i] : x = seqs[i][a]
    BY <1>6 DEF ToSet
  <2>3. \A i \in 1..n : (\E a \in DOMAIN seqs[i] : x = seqs[i][a]) <=> x \in Kept(R[i], s, e)
    BY <1>2
  <2> QED BY <2>1, <2>2, <2>3
<1>8. ASSUME s < e, \A i, j \in 1..n : i < j => R[i].end < R[j].start,
             NEW p \in DOMAIN C, NEW q \in DOMAIN C, p < q
      PROVE  C[p].end < C[q].start
  <2>1. PICK i \in 1..n, j \in 1..n :
          \E a \in DOMAIN seqs[i] : \E b \in DOMAIN seqs[j] :
            /\ C[p] = seqs[i][a] /\ C[q] = seqs[j][b]
            /\ i < j \/ (i = j /\ a < b)
    BY <1>6, <1>8
  <2>2. PICK a \in DOMAIN seqs[i] : \E b \in DOMAIN seqs[j] :
            /\ C[p] = seqs[i][a] /\ C[q] = seqs[j][b]
            /\ i < j \/ (i = j /\ a < b)
    BY <2>1
  <2>3. PICK b \in DOMAIN seqs[j] :
            /\ C[p] = seqs[i][a] /\ C[q] = seqs[j][b]
            /\ i < j \/ (i = j /\ a < b)
    BY <2>2
  <2>4. CASE i < j
    <3>1. /\ C[p].end <= R[i].end /\ R[j].start <= C[q].start
          /\ R[i].end < R[j].start
      BY <1>2, <1>8, <2>3, <2>4
    <3>2. C[p] \in TimeRange /\ C[q] \in TimeRange /\ R[i] \in TimeRange /\ R[j] \in TimeRange
      BY <1>1, <1>5
    <3>3. /\ C[p].end \in Int /\ C[q].start \in Int
          /\ R[i].end \in Int /\ R[j].start \in Int
      BY <3>2 DEF TimeRange
    <3> QED BY <3>1, <3>3
  <2>5. CASE i = j /\ a < b
    BY <1>2, <1>8, <2>3, <2>5
  <2> QED BY <2>3, <2>4, <2>5
<1> QED BY <1>1, <1>5, <1>7, <1>8 DEF C

\* consumeSlot leaves ranges that lie inside an old one and outside the slot.
LEMMA ConsumePieces ==
  ASSUME NEW R \in Seq(TimeRange), NEW s \in Int, NEW e \in Int,
         NEW p \in ToSet(ConsumeSlot(R, s, e))
  PROVE  /\ p \in TimeRange
         /\ p.end <= s \/ e <= p.start
         /\ \E r \in ToSet(R) : /\ r.start <= p.start /\ p.end <= r.end
                                /\ p.start < p.end \/ p = r
<1>1. PICK r \in ToSet(R) : p \in Kept(r, s, e)
  BY ConsumeIs
<1>2. r \in TimeRange
  BY RangesOf
<1>3. /\ p \in TimeRange
      /\ p.end <= s \/ e <= p.start
      /\ r.start <= p.start /\ p.end <= r.end
      /\ p.start < p.end \/ p = r
  BY <1>1, <1>2 DEF Kept, TimeRange
<1> QED BY <1>3

-----------------------------------------------------------------------------
(***************************************************************************)
(* What PlaceOne does, without how it chooses                              *)
(***************************************************************************)

\* PlaceOne puts one meeting m of the current session in a room of its type
\* on an operating day, inside a range that was free, and takes m and the
\* break after it out of that room's day.
LEMMA PlaceOneEffect ==
  ASSUME TypeOK, PlaceOne
  PROVE  \E day \in OperatingDays, room \in Rooms, start \in Int :
           LET s == input.sessions[current]
               m == [course |-> s.course, room |-> room, day |-> day,
                     start |-> start, end |-> start + s.duration]
           IN  /\ current \in Sessions
               /\ room \in RoomsByType(s.requiredRoom)
               /\ ~SkipDay(s, day)
               /\ start \in FirstAvailableSlot(availability[room][day], s.duration)
               /\ \E r \in ToSet(availability[room][day]) :
                    r.start <= m.start /\ m.end <= r.end
               /\ m \in ScheduledSession
               /\ scheduled' = Append(scheduled, m)
               /\ availability' = [availability EXCEPT ![room][day] =
                    ConsumeSlot(availability[room][day], m.start, m.end + config.minBreak)]
               /\ courseDaysUsed' =
                    [courseDaysUsed EXCEPT ![s.course] = Append(@, day)]
<1> DEFINE s == input.sessions[current]
<1>1. current \in Sessions /\ s \in CourseSession
  BY InputType DEF TypeOK, PlaceOne, MeetingsLeft
<1>2. PICK day, room, start :
        /\ day \in ChosenDays(s)
        /\ room \in ChosenRooms(s, day)
        /\ start \in FirstAvailableSlot(availability[room][day], s.duration)
        /\ availability' = [availability EXCEPT ![room][day] =
             ConsumeSlot(availability[room][day], start,
                         start + s.duration + config.minBreak)]
        /\ courseDaysUsed' = [courseDaysUsed EXCEPT ![s.course] = Append(@, day)]
        /\ scheduled' = Append(scheduled,
             [course |-> s.course, room |-> room, day |-> day,
              start |-> start, end |-> start + s.duration])
  BY DEF PlaceOne, ConsumeEnd
<1>3. /\ day \in OperatingDays /\ room \in Rooms /\ room \in RoomsByType(s.requiredRoom)
      /\ ~SkipDay(s, day)
  BY <1>2 DEF ChosenDays, ChosenRooms, RoomsByType, Placeable
<1>4. availability[room][day] \in Seq(TimeRange)
  BY <1>3 DEF TypeOK
<1>5. s.duration \in Nat \ {0} /\ s.course \in CourseIds
  BY <1>1 DEF CourseSession
<1>6. /\ start \in Int
      /\ \E r \in ToSet(availability[room][day]) : r.start <= start /\ start + s.duration <= r.end
  BY <1>2, <1>4, <1>5, SlotInRange DEF TypeOK
<1>7. day \in Int /\ room \in Nat
  BY <1>3, InputType DEF TypeOK
<1>8. [course |-> s.course, room |-> room, day |-> day,
       start |-> start, end |-> start + s.duration] \in ScheduledSession
  BY <1>5, <1>6, <1>7 DEF ScheduledSession
<1> QED BY <1>1, <1>2, <1>3, <1>6, <1>8

-----------------------------------------------------------------------------
(***************************************************************************)
(* Type correctness                                                        *)
(***************************************************************************)

\* The free ranges of a room's day.
LEMMA FreeRanges ==
  ASSUME TypeOK, NEW q \in Rooms, NEW d \in OperatingDays
  PROVE  /\ availability[q][d] \in Seq(TimeRange)
         /\ \A r \in ToSet(availability[q][d]) :
              r \in TimeRange /\ r.start \in Int /\ r.end \in Int
<1>1. availability[q][d] \in Seq(TimeRange)
  BY DEF TypeOK
<1>2. \A r \in ToSet(availability[q][d]) : r \in TimeRange
  BY <1>1, RangesOf
<1> QED BY <1>1, <1>2 DEF TimeRange

\* A day starts with one range, the operating hours.
LEMMA InitRanges ==
  ASSUME Init, NEW q \in Rooms, NEW d \in OperatingDays
  PROVE  /\ config.operatingHours.start \in Int /\ config.operatingHours.end \in Int
         /\ DOMAIN availability[q][d] = {1} /\ availability[q][d][1] = config.operatingHours
         /\ ToSet(availability[q][d]) = {config.operatingHours}
<1>1. config.operatingHours \in TimeRange
  BY ConfigType DEF Init, Config
<1>2. availability[q][d] = <<config.operatingHours>>
  BY DEF Init
<1> QED BY <1>1, <1>2 DEF TimeRange, ToSet

LEMMA InitTypeOK == Init => TypeOK
<1> SUFFICES ASSUME Init PROVE TypeOK
  OBVIOUS
<1>1. config.operatingHours \in TimeRange
  BY ConfigType DEF Init, Config
<1> QED BY <1>1 DEF Init, TypeOK

LEMMA NextTypeOK ==
  ASSUME TypeOK, [Next]_vars
  PROVE  TypeOK'
<1>1. ASSUME NEW c \in coursesLeft, NextCourse(c)
      PROVE  TypeOK'
  BY <1>1 DEF TypeOK, NextCourse, SessionsOf, config, OperatingDays, Rooms, Sessions
<1>2. ASSUME NEW i \in sessionsLeft, NextSession(i)
      PROVE  TypeOK'
  <2>1. i \in Sessions /\ i # 0 /\ input.sessions[i].number \in Nat
    BY InputType DEF TypeOK, CourseSession
  <2> QED BY <1>2, <2>1 DEF TypeOK, NextSession, config, OperatingDays, Rooms, Sessions
<1>3. ASSUME PlaceOne
      PROVE  TypeOK'
  <2> DEFINE s == input.sessions[current]
  <2>1. PICK day \in OperatingDays, room \in Rooms, start \in Int :
          LET m == [course |-> s.course, room |-> room, day |-> day,
                    start |-> start, end |-> start + s.duration]
          IN  /\ m \in ScheduledSession
              /\ scheduled' = Append(scheduled, m)
              /\ availability' = [availability EXCEPT ![room][day] =
                   ConsumeSlot(availability[room][day], m.start, m.end + config.minBreak)]
              /\ courseDaysUsed' =
                   [courseDaysUsed EXCEPT ![s.course] = Append(@, day)]
    BY <1>3, PlaceOneEffect
  <2>2. /\ current \in Sessions /\ sessionsToPlace - 1 \in Nat
        /\ input' = input /\ coursesLeft' = coursesLeft /\ sessionsLeft' = sessionsLeft
        /\ current' = current /\ failed' = failed /\ sessionsToPlace' = sessionsToPlace - 1
    BY <1>3 DEF PlaceOne, MeetingsLeft, TypeOK
  <2>3. /\ config' = config /\ OperatingDays' = OperatingDays
        /\ Rooms' = Rooms /\ Sessions' = Sessions
    BY <2>2 DEF config, OperatingDays, Rooms, Sessions
  <2>4. availability' \in [Rooms -> [OperatingDays -> Seq(TimeRange)]]
    <3> DEFINE e == start + s.duration + config.minBreak
               taken == ConsumeSlot(availability[room][day], start, e)
    <3>1. availability[room][day] \in Seq(TimeRange)
      BY DEF TypeOK
    <3>2. s.duration \in Nat /\ config.minBreak \in Int
      BY <2>2, ConfigType, InputType DEF TypeOK, CourseSession, Config
    <3>3. taken \in Seq(TimeRange)
      BY <3>1, <3>2, ConsumeIs
    <3>4. availability' = [availability EXCEPT ![room][day] = taken]
      BY <2>1
    <3> QED BY <3>3, <3>4 DEF TypeOK
  <2>5. courseDaysUsed' \in [CourseIds -> Seq(OperatingDays)]
    <3>1. s.course \in CourseIds
      BY <2>2, InputType DEF TypeOK, CourseSession
    <3>2. courseDaysUsed[s.course] \in Seq(OperatingDays)
      BY <3>1 DEF TypeOK
    <3>3. Append(courseDaysUsed[s.course], day) \in Seq(OperatingDays)
      BY <3>2
    <3> QED BY <2>1, <3>3 DEF TypeOK
  <2>6. scheduled' \in Seq(ScheduledSession)
    BY <2>1 DEF TypeOK
  <2> QED BY <2>2, <2>3, <2>4, <2>5, <2>6 DEF TypeOK
<1>4. ASSUME FailSession
      PROVE  TypeOK'
  BY <1>4 DEF TypeOK, FailSession, MeetingsLeft, config, OperatingDays, Rooms, Sessions
<1>5. CASE UNCHANGED vars
  BY <1>5 DEF TypeOK, vars, config, OperatingDays, Rooms, Sessions
<1> QED BY <1>1, <1>2, <1>3, <1>4, <1>5 DEF Next

\* Every variable keeps its type: in particular a room's day only ever holds
\* ranges of minutes and every placed meeting is on an operating day's list.
THEOREM TypeCorrect == Spec => []TypeOK
<1> QED BY InitTypeOK, NextTypeOK, PTL DEF Spec

-----------------------------------------------------------------------------
(***************************************************************************)
(* No double booking, and the break after a meeting                        *)
(***************************************************************************)

\* A free range never reaches outside the operating hours.
FreeInHours ==
  \A room \in Rooms : \A day \in OperatingDays : \A r \in ToSet(availability[room][day]) :
    /\ config.operatingHours.start <= r.start
    /\ r.end <= config.operatingHours.end

\* A free range ends before every meeting of its room and day, or starts
\* after the break behind it.
FreeApart ==
  \A room \in Rooms : \A day \in OperatingDays : \A r \in ToSet(availability[room][day]) :
  \A k \in DOMAIN scheduled :
    scheduled[k].room = room /\ scheduled[k].day = day =>
      \/ r.end <= scheduled[k].start
      \/ scheduled[k].end + config.minBreak <= r.start

BookingInv == TypeOK /\ FreeInHours /\ FreeApart /\ BreakAfterPlaced

\* Appending to the list of placed meetings keeps the earlier ones.
LEMMA AppendFacts ==
  ASSUME NEW S, NEW q \in Seq(S), NEW m \in S
  PROVE  /\ DOMAIN Append(q, m) = DOMAIN q \union {Len(q) + 1}
         /\ DOMAIN q = 1..Len(q)
         /\ \A k \in DOMAIN q : Append(q, m)[k] = q[k]
         /\ Append(q, m)[Len(q) + 1] = m
  OBVIOUS

LEMMA InitBookingInv == Init => BookingInv
<1> SUFFICES ASSUME Init PROVE BookingInv
  OBVIOUS
<1>1. TypeOK
  BY InitTypeOK
<1>2. config.operatingHours \in TimeRange
  BY ConfigType DEF Init, Config
<1>3. FreeInHours
  BY InitRanges DEF FreeInHours
<1>4. FreeApart /\ BreakAfterPlaced
  BY DEF Init, FreeApart, BreakAfterPlaced
<1> QED BY <1>1, <1>3, <1>4 DEF BookingInv

LEMMA PlaceOneBookingInv ==
  ASSUME BookingInv, PlaceOne, TypeOK'
  PROVE  BookingInv'
<1> DEFINE s == input.sessions[current]
<1> USE DEF BookingInv
<1>1. PICK day \in OperatingDays, room \in Rooms, start \in Int :
        LET m == [course |-> s.course, room |-> room, day |-> day,
                  start |-> start, end |-> start + s.duration]
        IN  /\ \E r \in ToSet(availability[room][day]) : r.start <= m.start /\ m.end <= r.end
            /\ current \in Sessions
            /\ m \in ScheduledSession
            /\ scheduled' = Append(scheduled, m)
            /\ availability' = [availability EXCEPT ![room][day] =
                 ConsumeSlot(availability[room][day], m.start, m.end + config.minBreak)]
  BY PlaceOneEffect
<1> DEFINE m == [course |-> s.course, room |-> room, day |-> day,
                 start |-> start, end |-> start + s.duration]
           e == m.end + config.minBreak
           free == availability[room][day]
           taken == ConsumeSlot(free, start, e)
<1>2. /\ free \in Seq(TimeRange)
      /\ scheduled \in Seq(ScheduledSession)
      /\ availability \in [Rooms -> [OperatingDays -> Seq(TimeRange)]]
  BY DEF TypeOK
<1>3. s.duration \in Nat \ {0} /\ config.minBreak \in Int
  BY <1>1, ConfigType, InputType DEF TypeOK, CourseSession, Config
<1>4. /\ scheduled' = Append(scheduled, m) /\ m \in ScheduledSession
      /\ availability' = [availability EXCEPT ![room][day] = taken]
      /\ \E r \in ToSet(free) : r.start <= m.start /\ m.end <= r.end
  BY <1>1
<1> DEFINE n == Len(scheduled) + 1
<1>5. /\ DOMAIN scheduled' = DOMAIN scheduled \union {n}
      /\ DOMAIN scheduled = 1..Len(scheduled)
      /\ \A k \in DOMAIN scheduled : scheduled'[k] = scheduled[k]
      /\ scheduled'[n] = m
  BY <1>2, <1>4, AppendFacts
<1>6. config' = config /\ OperatingDays' = OperatingDays /\ Rooms' = Rooms
  BY DEF PlaceOne, config, OperatingDays, Rooms
<1>7. \* every range of the new availability is a part of an old one
      ASSUME NEW q \in Rooms, NEW d \in OperatingDays, NEW p \in ToSet(availability'[q][d])
      PROVE  /\ p \in TimeRange
             /\ \E r \in ToSet(availability[q][d]) : r.start <= p.start /\ p.end <= r.end
             /\ (q = room /\ d = day) => p.end <= m.start \/ e <= p.start
  <2>1. CASE q = room /\ d = day
    <3>1. p \in ToSet(taken)
      BY <1>2, <1>4, <2>1
    <3>2. start \in Int /\ e \in Int
      BY <1>3
    <3> HIDE DEF taken, e
    <3>3. /\ p \in TimeRange
          /\ p.end <= start \/ e <= p.start
          /\ \E r \in ToSet(free) : r.start <= p.start /\ p.end <= r.end
      BY <1>2, <3>1, <3>2, ConsumePieces DEF taken
    <3> QED BY <2>1, <3>3
  <2>2. CASE ~(q = room /\ d = day)
    <3>1. p \in ToSet(availability[q][d])
      BY <1>2, <1>4, <2>2
    <3>2. p \in TimeRange /\ p.start \in Int /\ p.end \in Int
      BY <3>1, FreeRanges
    <3> QED BY <3>1, <3>2, <2>2
  <2> QED BY <2>1, <2>2
<1>8. FreeInHours'
  <2> SUFFICES ASSUME NEW q \in Rooms, NEW d \in OperatingDays, NEW p \in ToSet(availability'[q][d])
               PROVE  /\ config.operatingHours.start <= p.start
                      /\ p.end <= config.operatingHours.end
    BY <1>6 DEF FreeInHours
  <2>1. PICK r \in ToSet(availability[q][d]) : r.start <= p.start /\ p.end <= r.end
    BY <1>7
  <2>2. /\ config.operatingHours.start <= r.start
        /\ r.end <= config.operatingHours.end
    BY DEF FreeInHours
  <2>3. r \in TimeRange /\ p \in TimeRange /\ config.operatingHours \in TimeRange
    BY <1>7, FreeRanges, ConfigType DEF TypeOK, Config
  <2> QED BY <2>1, <2>2, <2>3 DEF TimeRange
<1>9. FreeApart'
  <2> SUFFICES ASSUME NEW q \in Rooms, NEW d \in OperatingDays, NEW p \in ToSet(availability'[q][d]),
                      NEW k \in DOMAIN scheduled',
                      scheduled'[k].room = q, scheduled'[k].day = d
               PROVE  \/ p.end <= scheduled'[k].start
                      \/ scheduled'[k].end + config.minBreak <= p.start
    BY <1>6 DEF FreeApart
  <2>1. CASE k \in DOMAIN scheduled
    <3>1. PICK r \in ToSet(availability[q][d]) : r.start <= p.start /\ p.end <= r.end
      BY <1>7
    <3>2. /\ scheduled'[k] = scheduled[k] /\ scheduled[k] \in ScheduledSession
          /\ r \in TimeRange /\ p \in TimeRange
      BY <1>2, <1>5, <1>7, <2>1, FreeRanges
    <3>3. \/ r.end <= scheduled[k].start
          \/ scheduled[k].end + config.minBreak <= r.start
      BY <2>1, <3>2 DEF FreeApart
    <3> QED BY <1>3, <3>1, <3>2, <3>3 DEF TimeRange, ScheduledSession
  <2>2. CASE k = n
    BY <1>5, <1>7, <2>2
  <2> QED BY <1>5, <2>1, <2>2
<1>10. BreakAfterPlaced'
  <2> SUFFICES ASSUME NEW i \in DOMAIN scheduled', NEW j \in DOMAIN scheduled', i < j,
                      SameRoomDay(scheduled'[i], scheduled'[j])
               PROVE  \/ scheduled'[j].end <= scheduled'[i].start
                      \/ scheduled'[i].end + config.minBreak <= scheduled'[j].start
    BY <1>6 DEF BreakAfterPlaced, SameRoomDay
  <2>1. i \in DOMAIN scheduled /\ scheduled'[i] = scheduled[i]
    BY <1>5
  <2>2. CASE j \in DOMAIN scheduled
    BY <1>5, <2>1, <2>2 DEF BreakAfterPlaced
  <2>3. CASE j = n
    <3>1. PICK r \in ToSet(free) : r.start <= m.start /\ m.end <= r.end
      BY <1>4
    <3>2. scheduled[i].room = room /\ scheduled[i].day = day /\ scheduled'[j] = m
      BY <1>5, <2>1, <2>3 DEF SameRoomDay
    <3>3. \/ r.end <= scheduled[i].start
          \/ scheduled[i].end + config.minBreak <= r.start
      BY <2>1, <3>2 DEF FreeApart
    <3>4. scheduled[i] \in ScheduledSession /\ r \in TimeRange /\ m \in ScheduledSession
      BY <1>2, <1>4, <2>1, FreeRanges
    <3> HIDE DEF m
    <3> QED BY <1>3, <2>1, <3>1, <3>2, <3>3, <3>4 DEF TimeRange, ScheduledSession
  <2> QED BY <1>5, <2>2, <2>3
<1> QED BY <1>8, <1>9, <1>10

LEMMA NextBookingInv ==
  ASSUME BookingInv, [Next]_vars
  PROVE  BookingInv'
<1>1. TypeOK'
  BY NextTypeOK DEF BookingInv
<1>2. CASE PlaceOne
  BY <1>1, <1>2, PlaceOneBookingInv
<1>3. ASSUME UNCHANGED <<input, availability, scheduled>>
      PROVE  BookingInv'
  BY <1>1, <1>3 DEF BookingInv, FreeInHours, FreeApart, BreakAfterPlaced,
                    config, OperatingDays, Rooms
<1> QED BY <1>2, <1>3 DEF Next, NextCourse, NextSession, FailSession, vars

\* A meeting placed later in a room keeps clear of every earlier meeting and
\* of the break after it, for every input and every way ties are broken.
THEOREM BreakAfterPlacedHolds == Spec => []BreakAfterPlaced
<1>1. BookingInv => BreakAfterPlaced
  BY DEF BookingInv
<1> QED BY <1>1, InitBookingInv, NextBookingInv, PTL DEF Spec

-----------------------------------------------------------------------------
(***************************************************************************)
(* The generator implements a timetable                                    *)
(***************************************************************************)

LEMMA StepImplementsBook ==
  ASSUME BookingInv, BookingInv', [Next]_vars
  PROVE  [Promise!Book]_<<scheduled, config.minBreak>>
<1> config' = config
  BY DEF Next, NextCourse, NextSession, PlaceOne, FailSession, vars, config
<1>1. CASE PlaceOne
  <2> DEFINE s == input.sessions[current]
             n == Len(scheduled) + 1
  <2>1. PICK m \in ScheduledSession :
          scheduled' = Append(scheduled, m) /\ m.start < m.end
    <3>1. PICK day \in OperatingDays, room \in Rooms, start \in Int :
            LET m == [course |-> s.course, room |-> room, day |-> day,
                      start |-> start, end |-> start + s.duration]
            IN  /\ current \in Sessions
                /\ m \in ScheduledSession
                /\ scheduled' = Append(scheduled, m)
      BY <1>1, PlaceOneEffect DEF BookingInv
    <3>2. s.duration \in Nat \ {0}
      BY <3>1, InputType DEF BookingInv, TypeOK, CourseSession
    <3> QED BY <3>1, <3>2
  <2>2. scheduled \in Seq(ScheduledSession)
    BY DEF BookingInv, TypeOK
  <2>3. /\ DOMAIN scheduled' = DOMAIN scheduled \union {n}
        /\ DOMAIN scheduled = 1..Len(scheduled)
        /\ \A k \in DOMAIN scheduled : scheduled'[k] = scheduled[k]
        /\ scheduled'[n] = m
        /\ Len(scheduled') = n
    BY <2>1, <2>2, AppendFacts
  <2>4. ASSUME NEW i \in DOMAIN scheduled
        PROVE  Promise!Clear(scheduled[i], m)
    <3>1. i < n
      BY <2>2, <2>3
    <3>2. SameRoomDay(scheduled[i], m) =>
            \/ m.end <= scheduled[i].start
            \/ scheduled[i].end + config.minBreak <= m.start
      BY <2>3, <3>1 DEF BookingInv, BreakAfterPlaced
    <3> QED BY <3>2 DEF Promise!Clear, SameRoomDay
  <2> QED BY <2>1, <2>3, <2>4 DEF Promise!Book
<1>2. CASE UNCHANGED scheduled
  BY <1>2
<1> QED BY <1>1, <1>2 DEF Next, NextCourse, NextSession, FailSession, vars

\* Every behaviour of the generator is a timetable being filled: no placed
\* meeting is moved or dropped, and a new one keeps clear of the earlier ones
\* of its room by the break, which may be negative.
THEOREM GeneratorImplementsTimetable == Spec => ImplementsTimetable
<1>1. Init => Promise!Init
  BY ConfigType DEF Init, Promise!Init, Config
<1> QED BY <1>1, InitBookingInv, NextBookingInv, StepImplementsBook, PTL
        DEF Spec, ImplementsTimetable, Promise!Spec

\* Unless the break is negative, no room is booked twice: the negative break
\* is the only way to the double booking that the run of NoDoubleBooking finds.
RoomsBookedOnce == config.minBreak >= 0 => NoDoubleBooking

THEOREM RoomsBookedOnceHolds == Spec => []RoomsBookedOnce
<1>1. BookingInv => RoomsBookedOnce
  <2> SUFFICES ASSUME BookingInv, config.minBreak >= 0,
                      NEW i \in DOMAIN scheduled, NEW j \in DOMAIN scheduled, i # j,
                      SameRoomDay(scheduled[i], scheduled[j])
               PROVE  \/ scheduled[j].end <= scheduled[i].start
                      \/ scheduled[i].end <= scheduled[j].start
    BY DEF RoomsBookedOnce, NoDoubleBooking
  <2>1. config.minBreak \in Int /\ scheduled \in Seq(ScheduledSession)
    BY ConfigType DEF BookingInv, TypeOK, Config
  <2>2. /\ scheduled[i].start \in Int /\ scheduled[i].end \in Int
        /\ scheduled[j].start \in Int /\ scheduled[j].end \in Int
        /\ i \in Int /\ j \in Int
    <3>1. scheduled[i] \in ScheduledSession /\ scheduled[j] \in ScheduledSession
      BY <2>1
    <3> QED BY <2>1, <3>1 DEF ScheduledSession
  <2>3. CASE i < j
    <3>1. \/ scheduled[j].end <= scheduled[i].start
          \/ scheduled[i].end + config.minBreak <= scheduled[j].start
      BY <2>3 DEF BookingInv, BreakAfterPlaced
    <3> QED BY <2>1, <2>2, <3>1
  <2>4. CASE j < i
    <3>1. \/ scheduled[i].end <= scheduled[j].start
          \/ scheduled[j].end + config.minBreak <= scheduled[i].start
      BY <2>4 DEF BookingInv, BreakAfterPlaced, SameRoomDay
    <3> QED BY <2>1, <2>2, <3>1
  <2> QED BY <2>2, <2>3, <2>4
<1> QED BY <1>1, InitBookingInv, NextBookingInv, PTL DEF Spec

-----------------------------------------------------------------------------
(***************************************************************************)
(* Free time is exact                                                      *)
(***************************************************************************)

\* consumeSlot takes out the minutes of the slot and no other.
LEMMA ConsumeMinutes ==
  ASSUME NEW R \in Seq(TimeRange), NEW s \in Int, NEW e \in Int, NEW t \in Int
  PROVE  (\E p \in ToSet(ConsumeSlot(R, s, e)) : p.start <= t /\ t < p.end)
           <=> /\ \E r \in ToSet(R) : r.start <= t /\ t < r.end
               /\ ~(s <= t /\ t < e)
<1>1. ASSUME NEW p \in ToSet(ConsumeSlot(R, s, e)), p.start <= t, t < p.end
      PROVE  /\ \E r \in ToSet(R) : r.start <= t /\ t < r.end
             /\ ~(s <= t /\ t < e)
  <2>1. PICK r \in ToSet(R) : r.start <= p.start /\ p.end <= r.end
    BY ConsumePieces
  <2>2. p \in TimeRange /\ (p.end <= s \/ e <= p.start)
    BY ConsumePieces
  <2>3. r \in TimeRange
    BY RangesOf
  <2>4. r.start \in Int /\ r.end \in Int /\ p.start \in Int /\ p.end \in Int
    BY <2>2, <2>3 DEF TimeRange
  <2> QED BY <1>1, <2>1, <2>2, <2>4
<1>2. ASSUME NEW r \in ToSet(R), r.start <= t, t < r.end, ~(s <= t /\ t < e)
      PROVE  \E p \in ToSet(ConsumeSlot(R, s, e)) : p.start <= t /\ t < p.end
  <2>1. r \in TimeRange
    BY RangesOf
  <2>2. r.start \in Int /\ r.end \in Int
    BY <2>1 DEF TimeRange
  <2>3. \E p \in Kept(r, s, e) : p.start <= t /\ t < p.end
    <3>1. CASE ~(r.end > s /\ r.start < e)
      BY <1>2, <3>1 DEF Kept
    <3>2. CASE r.end > s /\ r.start < e /\ t < s
      <4> DEFINE p == [start |-> r.start, end |-> s]
      <4>1. p \in Kept(r, s, e)
        BY <1>2, <2>2, <3>2 DEF Kept
      <4> QED BY <1>2, <3>2, <4>1
    <3>3. CASE r.end > s /\ r.start < e /\ e <= t
      <4> DEFINE p == [start |-> e, end |-> r.end]
      <4>1. p \in Kept(r, s, e)
        BY <1>2, <2>2, <3>3 DEF Kept
      <4> QED BY <1>2, <3>3, <4>1
    <3> QED BY <1>2, <2>2, <3>1, <3>2, <3>3
  <2> QED BY <2>3, ConsumeIs
<1> QED BY <1>1, <1>2

ExactInv == TypeOK /\ AvailabilityExact

LEMMA InitExact == Init => ExactInv
<1> SUFFICES ASSUME Init PROVE AvailabilityExact
  BY InitTypeOK DEF ExactInv
<1>1. config.operatingHours.start \in Int /\ config.operatingHours.end \in Int
  BY ConfigType DEF Init, Config, TimeRange
<1>2. scheduled = <<>>
  BY DEF Init
<1>3. ASSUME NEW q \in Rooms, NEW d \in OperatingDays,
             NEW t \in config.operatingHours.start .. config.operatingHours.end - 1
      PROVE  \E r \in ToSet(availability[q][d]) : r.start <= t /\ t < r.end
  BY <1>1, InitRanges
<1> QED BY <1>2, <1>3 DEF AvailabilityExact

LEMMA PlaceOneExact ==
  ASSUME ExactInv, PlaceOne, TypeOK'
  PROVE  ExactInv'
<1> DEFINE s == input.sessions[current]
<1> USE DEF ExactInv
<1>1. PICK day \in OperatingDays, room \in Rooms, start \in Int :
        LET m == [course |-> s.course, room |-> room, day |-> day,
                  start |-> start, end |-> start + s.duration]
        IN  /\ current \in Sessions
            /\ m \in ScheduledSession
            /\ scheduled' = Append(scheduled, m)
            /\ availability' = [availability EXCEPT ![room][day] =
                 ConsumeSlot(availability[room][day], m.start, m.end + config.minBreak)]
  BY PlaceOneEffect
<1> DEFINE m == [course |-> s.course, room |-> room, day |-> day,
                 start |-> start, end |-> start + s.duration]
           e == m.end + config.minBreak
           free == availability[room][day]
           n == Len(scheduled) + 1
<1>2. /\ free \in Seq(TimeRange)
      /\ scheduled \in Seq(ScheduledSession)
      /\ availability \in [Rooms -> [OperatingDays -> Seq(TimeRange)]]
  BY DEF TypeOK
<1>3. s.duration \in Nat \ {0} /\ config.minBreak \in Int
  BY <1>1, ConfigType, InputType DEF TypeOK, CourseSession, Config
<1>4. /\ DOMAIN scheduled' = DOMAIN scheduled \union {n}
      /\ \A k \in DOMAIN scheduled : scheduled'[k] = scheduled[k]
      /\ scheduled'[n] = m
  BY <1>1, <1>2, AppendFacts
<1>5. config' = config /\ OperatingDays' = OperatingDays /\ Rooms' = Rooms
  BY DEF PlaceOne, config, OperatingDays, Rooms
<1>6. /\ config.operatingHours.start \in Int /\ config.operatingHours.end \in Int
      /\ start \in Int /\ e \in Int
  <2>1. config \in Config
    BY ConfigType DEF TypeOK
  <2>2. config.operatingHours \in TimeRange
    BY <2>1 DEF Config
  <2> QED BY <1>3, <2>2 DEF TimeRange
<1> SUFFICES
      ASSUME NEW q \in Rooms, NEW d \in OperatingDays,
             NEW t \in config.operatingHours.start .. config.operatingHours.end - 1
      PROVE  (\E r \in ToSet(availability'[q][d]) : r.start <= t /\ t < r.end)
               <=> ~ \E k \in DOMAIN scheduled' :
                       /\ scheduled'[k].room = q /\ scheduled'[k].day = d
                       /\ scheduled'[k].start <= t
                       /\ t < scheduled'[k].end + config.minBreak
  BY <1>5 DEF AvailabilityExact, Takes
<1>7. (\E r \in ToSet(availability[q][d]) : r.start <= t /\ t < r.end)
        <=> ~ \E k \in DOMAIN scheduled :
                /\ scheduled[k].room = q /\ scheduled[k].day = d
                /\ scheduled[k].start <= t
                /\ t < scheduled[k].end + config.minBreak
  BY DEF AvailabilityExact, Takes
<1>8. (\E k \in DOMAIN scheduled' :
         /\ scheduled'[k].room = q /\ scheduled'[k].day = d
         /\ scheduled'[k].start <= t /\ t < scheduled'[k].end + config.minBreak)
        <=> \/ \E k \in DOMAIN scheduled :
                 /\ scheduled[k].room = q /\ scheduled[k].day = d
                 /\ scheduled[k].start <= t /\ t < scheduled[k].end + config.minBreak
            \/ room = q /\ day = d /\ start <= t /\ t < e
  BY <1>4
<1>9. (\E r \in ToSet(availability'[q][d]) : r.start <= t /\ t < r.end)
        <=> /\ \E r \in ToSet(availability[q][d]) : r.start <= t /\ t < r.end
            /\ ~(room = q /\ day = d /\ start <= t /\ t < e)
  <2>1. CASE room = q /\ day = d
    <3> DEFINE taken == ConsumeSlot(free, start, e)
    <3>1. availability'[q][d] = taken
      BY <1>1, <1>2, <2>1
    <3>2. t \in Int
      BY <1>6
    <3> HIDE DEF e
    <3>3. (\E p \in ToSet(taken) : p.start <= t /\ t < p.end)
            <=> /\ \E r \in ToSet(free) : r.start <= t /\ t < r.end
                /\ ~(start <= t /\ t < e)
      BY <1>2, <1>6, <3>2, ConsumeMinutes
    <3> QED BY <2>1, <3>1, <3>3
  <2>2. CASE ~(room = q /\ day = d)
    <3>1. availability'[q][d] = availability[q][d]
      BY <1>1, <1>2, <2>2
    <3> QED BY <2>2, <3>1
  <2> QED BY <2>1, <2>2
<1> QED BY <1>7, <1>8, <1>9

LEMMA NextExact ==
  ASSUME ExactInv, [Next]_vars
  PROVE  ExactInv'
<1>1. TypeOK'
  BY NextTypeOK DEF ExactInv
<1>2. CASE PlaceOne
  BY <1>1, <1>2, PlaceOneExact
<1>3. ASSUME UNCHANGED <<input, availability, scheduled>>
      PROVE  ExactInv'
  BY <1>1, <1>3 DEF ExactInv, AvailabilityExact, Takes, config, OperatingDays, Rooms
<1> QED BY <1>2, <1>3 DEF Next, NextCourse, NextSession, FailSession, vars

\* Splitting ranges neither loses nor invents a minute: what is free in a
\* room is what no meeting and no break takes.
THEOREM AvailabilityIsExact == Spec => []AvailabilityExact
<1>1. ExactInv => AvailabilityExact
  BY DEF ExactInv
<1> QED BY <1>1, InitExact, NextExact, PTL DEF Spec

-----------------------------------------------------------------------------
(***************************************************************************)
(* Placed meetings are legal                                               *)
(***************************************************************************)

\* Only sessions of listed courses are ever started.
ListedOnly ==
  /\ \A i \in sessionsLeft : input.sessions[i].course \in input.courses
  /\ current # 0 => input.sessions[current].course \in input.courses

LegalInv == BookingInv /\ ListedOnly /\ PlacementLegal

LEMMA InitLegal == Init => LegalInv
<1> SUFFICES ASSUME Init PROVE ListedOnly /\ PlacementLegal
  BY InitBookingInv DEF LegalInv
<1> QED BY DEF Init, ListedOnly, PlacementLegal

LEMMA NextLegal ==
  ASSUME LegalInv, [Next]_vars
  PROVE  LegalInv'
<1>1. BookingInv' /\ TypeOK
  BY NextBookingInv DEF LegalInv, BookingInv
<1>2. ASSUME UNCHANGED <<input, scheduled>>
      PROVE  PlacementLegal'
  BY <1>2 DEF LegalInv, PlacementLegal, config, OperatingDays, Rooms, Sessions, RoomsByType
<1>3. ASSUME NEW c \in coursesLeft, NextCourse(c)
      PROVE  LegalInv'
  <2>1. ListedOnly'
    BY <1>1, <1>3 DEF LegalInv, ListedOnly, NextCourse, SessionsOf, TypeOK
  <2> QED BY <1>1, <1>2, <1>3, <2>1 DEF LegalInv, NextCourse
<1>4. ASSUME NEW i \in sessionsLeft, NextSession(i)
      PROVE  LegalInv'
  <2>1. ListedOnly'
    BY <1>4 DEF LegalInv, ListedOnly, NextSession
  <2> QED BY <1>1, <1>2, <1>4, <2>1 DEF LegalInv, NextSession
<1>5. CASE FailSession
  <2>1. ListedOnly'
    BY <1>5 DEF LegalInv, ListedOnly, FailSession
  <2> QED BY <1>1, <1>2, <1>5, <2>1 DEF LegalInv, FailSession
<1>6. CASE PlaceOne
  <2> DEFINE s == input.sessions[current]
             n == Len(scheduled) + 1
  <2>1. PICK day \in OperatingDays, room \in Rooms, start \in Int :
          LET m == [course |-> s.course, room |-> room, day |-> day,
                    start |-> start, end |-> start + s.duration]
          IN  /\ current \in Sessions
              /\ room \in RoomsByType(s.requiredRoom)
              /\ \E r \in ToSet(availability[room][day]) : r.start <= m.start /\ m.end <= r.end
              /\ m \in ScheduledSession
              /\ scheduled' = Append(scheduled, m)
    BY <1>1, <1>6, PlaceOneEffect
  <2> DEFINE m == [course |-> s.course, room |-> room, day |-> day,
                   start |-> start, end |-> start + s.duration]
  <2>2. /\ input' = input /\ current' = current /\ sessionsLeft' = sessionsLeft
        /\ config' = config /\ OperatingDays' = OperatingDays
        /\ Rooms' = Rooms /\ Sessions' = Sessions
        /\ \A type : RoomsByType(type)' = RoomsByType(type)
    BY <1>6 DEF PlaceOne, config, OperatingDays, Rooms, Sessions, RoomsByType
  <2>3. ListedOnly'
    BY <2>2 DEF LegalInv, ListedOnly
  <2>4. /\ DOMAIN scheduled' = DOMAIN scheduled \union {n}
        /\ \A k \in DOMAIN scheduled : scheduled'[k] = scheduled[k]
        /\ scheduled'[n] = m
    BY <1>1, <2>1, AppendFacts DEF TypeOK
  <2>5. current # 0 /\ s.duration \in Nat
    BY <1>1, <2>1, InputType DEF TypeOK, CourseSession
  <2>6. /\ config.operatingHours.start <= m.start
        /\ m.end <= config.operatingHours.end
    <3>1. PICK r \in ToSet(availability[room][day]) : r.start <= m.start /\ m.end <= r.end
      BY <2>1
    <3>2. /\ config.operatingHours.start <= r.start
          /\ r.end <= config.operatingHours.end
      BY DEF LegalInv, BookingInv, FreeInHours
    <3>3. r \in TimeRange
      BY <1>1, <3>1, FreeRanges
    <3>4. config.operatingHours \in TimeRange
      BY <1>1, ConfigType DEF TypeOK, Config
    <3> QED BY <2>5, <3>1, <3>2, <3>3, <3>4 DEF TimeRange
  <2>7. s.course \in input.courses
    BY <2>5 DEF LegalInv, ListedOnly
  <2>8. m.end - m.start = s.duration
    BY <2>5
  <2>9. PlacementLegal'
    <3> SUFFICES
          ASSUME NEW k \in DOMAIN scheduled'
          PROVE  /\ scheduled'[k].day \in OperatingDays
                 /\ config.operatingHours.start <= scheduled'[k].start
                 /\ scheduled'[k].end <= config.operatingHours.end
                 /\ \E i \in Sessions :
                      /\ input.sessions[i].course = scheduled'[k].course
                      /\ input.sessions[i].course \in input.courses
                      /\ scheduled'[k].end - scheduled'[k].start = input.sessions[i].duration
                      /\ scheduled'[k].room \in RoomsByType(input.sessions[i].requiredRoom)
      BY <2>2 DEF PlacementLegal
    <3>1. CASE k \in DOMAIN scheduled
      BY <2>4, <3>1 DEF LegalInv, PlacementLegal
    <3>2. CASE k = n
      BY <2>1, <2>4, <2>6, <2>7, <2>8, <3>2
    <3> QED BY <2>4, <3>1, <3>2
  <2> QED BY <1>1, <2>3, <2>9 DEF LegalInv
<1>7. CASE UNCHANGED vars
  <2>1. ListedOnly'
    BY <1>7 DEF LegalInv, ListedOnly, vars
  <2> QED BY <1>1, <1>2, <1>7, <2>1 DEF LegalInv, vars
<1> QED BY <1>3, <1>4, <1>5, <1>6, <1>7 DEF Next

\* Every placed meeting is one a listed course asked for, in a room of the
\* required type, on an operating day and within the operating hours.
THEOREM PlacementIsLegal == Spec => []PlacementLegal
<1>1. LegalInv => PlacementLegal
  BY DEF LegalInv
<1> QED BY <1>1, InitLegal, NextLegal, PTL DEF Spec

-----------------------------------------------------------------------------
(***************************************************************************)
(* The minimum gap, without slot alignment                                 *)
(***************************************************************************)

\* Without slots a meeting starts where its range starts, so a room's day
\* keeps one free range, and that range starts behind every break.
OneRangeBehind ==
  config.preferredSlot <= 0 =>
    \A room \in Rooms : \A day \in OperatingDays :
      /\ \A q, r \in ToSet(availability[room][day]) : q = r
      /\ \A r \in ToSet(availability[room][day]) : \A k \in DOMAIN scheduled :
           scheduled[k].room = room /\ scheduled[k].day = day =>
             scheduled[k].end + config.minBreak <= r.start

GapInv == TypeOK /\ OneRangeBehind /\ GapWithoutSlots

LEMMA InitGap == Init => GapInv
<1> SUFFICES ASSUME Init PROVE OneRangeBehind /\ GapWithoutSlots
  BY InitTypeOK DEF GapInv
<1>1. scheduled = <<>>
  BY DEF Init
<1>2. ASSUME NEW q \in Rooms, NEW d \in OperatingDays
      PROVE  \A p1, p2 \in ToSet(availability[q][d]) : p1 = p2
  BY InitRanges
<1> QED BY <1>1, <1>2 DEF OneRangeBehind, GapWithoutSlots

LEMMA PlaceOneGap ==
  ASSUME GapInv, PlaceOne, TypeOK'
  PROVE  GapInv'
<1> DEFINE s == input.sessions[current]
<1> USE DEF GapInv
<1>1. PICK day \in OperatingDays, room \in Rooms, start \in Int :
        LET m == [course |-> s.course, room |-> room, day |-> day,
                  start |-> start, end |-> start + s.duration]
        IN  /\ current \in Sessions
            /\ start \in FirstAvailableSlot(availability[room][day], s.duration)
            /\ m \in ScheduledSession
            /\ scheduled' = Append(scheduled, m)
            /\ availability' = [availability EXCEPT ![room][day] =
                 ConsumeSlot(availability[room][day], m.start, m.end + config.minBreak)]
  BY PlaceOneEffect
<1> DEFINE m == [course |-> s.course, room |-> room, day |-> day,
                 start |-> start, end |-> start + s.duration]
           e == m.end + config.minBreak
           free == availability[room][day]
           taken == ConsumeSlot(free, start, e)
           n == Len(scheduled) + 1
<1>2. /\ free \in Seq(TimeRange)
      /\ scheduled \in Seq(ScheduledSession)
      /\ availability \in [Rooms -> [OperatingDays -> Seq(TimeRange)]]
  BY DEF TypeOK
<1>3. s.duration \in Nat \ {0} /\ config.minBreak \in Int
  BY <1>1, ConfigType, InputType DEF TypeOK, CourseSession, Config
<1>4. /\ DOMAIN scheduled' = DOMAIN scheduled \union {n}
      /\ \A k \in DOMAIN scheduled : scheduled'[k] = scheduled[k]
      /\ scheduled'[n] = m
  BY <1>1, <1>2, AppendFacts
<1>5. config' = config /\ OperatingDays' = OperatingDays /\ Rooms' = Rooms
  BY DEF PlaceOne, config, OperatingDays, Rooms
<1> SUFFICES ASSUME config.preferredSlot <= 0
             PROVE  OneRangeBehind' /\ GapWithoutSlots'
  BY <1>5 DEF OneRangeBehind, GapWithoutSlots
<1>6. PICK r \in ToSet(free) : r.start = start /\ start + s.duration <= r.end
  <2>1. PICK i \in DOMAIN free : start \in StartsIn(free[i], s.duration)
    BY <1>1 DEF FirstAvailableSlot
  <2>2. free[i] \in ToSet(free) /\ free[i] \in TimeRange
    BY <1>2, RangesOf
  <2>3. Aligned(free[i].start) = free[i].start
    BY ConfigType DEF Aligned, TypeOK, Config
  <2>4. start = free[i].start /\ start + s.duration <= free[i].end
    BY <1>3, <2>1, <2>2, <2>3, StartsInRange DEF TypeOK
  <2> QED BY <2>2, <2>4
<1>7. \A q \in ToSet(free) : q = r
  BY <1>6 DEF OneRangeBehind
<1>8. /\ \A p1, p2 \in ToSet(taken) : p1 = p2
      /\ \A p \in ToSet(taken) : e <= p.start /\ start <= p.start
  <2>1. r \in TimeRange /\ e \in Int
    BY <1>2, <1>3, <1>6, RangesOf
  <2>2. start < r.end /\ r.start = start /\ r.start \in Int /\ r.end \in Int
    <3> DEFINE d == s.duration
    <3>1. d \in Nat \ {0} /\ r.start = start /\ start + d <= r.end
      BY <1>3, <1>6
    <3>2. r.start \in Int /\ r.end \in Int
      BY <2>1 DEF TimeRange
    <3> HIDE DEF s, d, m, e, free, taken, n
    <3> QED BY <3>1, <3>2
  <2> HIDE DEF e
  <2>3. \A p : p \in ToSet(taken) <=> p \in Kept(r, start, e)
    BY <1>2, <1>6, <1>7, <2>1, ConsumeIs
  <2>4. CASE r.start < e
    <3>1. \A p \in Kept(r, start, e) : p = [start |-> e, end |-> r.end]
      BY <2>1, <2>2, <2>4 DEF Kept
    <3> HIDE DEF taken
    <3> QED BY <2>1, <2>2, <2>3, <2>4, <3>1
  <2>5. CASE ~(r.start < e)
    <3>1. \A p \in Kept(r, start, e) : p = r
      BY <2>1, <2>2, <2>5 DEF Kept
    <3> HIDE DEF taken
    <3> QED BY <2>1, <2>2, <2>3, <2>5, <3>1
  <2> QED BY <2>4, <2>5
<1>9. /\ availability'[room][day] = taken
      /\ \A q \in Rooms, d \in OperatingDays :
           ~(q = room /\ d = day) => availability'[q][d] = availability[q][d]
  BY <1>1, <1>2
<1>10. \* earlier meetings of the same room and day end before the new one starts
       ASSUME NEW k \in DOMAIN scheduled, scheduled[k].room = room, scheduled[k].day = day
       PROVE  scheduled[k].end + config.minBreak <= start
  BY <1>6, <1>10 DEF OneRangeBehind
<1>11. OneRangeBehind'
  <2> SUFFICES ASSUME NEW q \in Rooms, NEW d \in OperatingDays
               PROVE  /\ \A p1, p2 \in ToSet(availability'[q][d]) : p1 = p2
                      /\ \A p \in ToSet(availability'[q][d]) : \A k \in DOMAIN scheduled' :
                           scheduled'[k].room = q /\ scheduled'[k].day = d =>
                             scheduled'[k].end + config.minBreak <= p.start
    BY <1>5 DEF OneRangeBehind
  <2>1. CASE q = room /\ d = day
    <3>1. \A p1, p2 \in ToSet(availability'[q][d]) : p1 = p2
      BY <1>8, <1>9, <2>1
    <3>2. ASSUME NEW p \in ToSet(availability'[q][d]), NEW k \in DOMAIN scheduled',
                 scheduled'[k].room = q, scheduled'[k].day = d
          PROVE  scheduled'[k].end + config.minBreak <= p.start
      <4>1. e <= p.start /\ start <= p.start /\ p.start \in Int
        <5>1. p \in ToSet(taken)
          BY <1>9, <2>1, <3>2
        <5>2. taken \in Seq(TimeRange)
          <6>1. e \in Int
            BY <1>3
          <6> HIDE DEF e
          <6> QED BY <1>2, <6>1, ConsumeIs
        <5> HIDE DEF taken
        <5>3. p \in TimeRange
          BY <5>1, <5>2, RangesOf
        <5> QED BY <1>8, <5>1, <5>3 DEF TimeRange
      <4>2. CASE k = n
        BY <1>3, <1>4, <4>1, <4>2
      <4>3. CASE k \in DOMAIN scheduled
        <5>1. scheduled[k].end + config.minBreak <= start
          BY <1>4, <1>10, <2>1, <3>2, <4>3
        <5>2. scheduled[k] \in ScheduledSession
          BY <1>2, <4>3
        <5>3. scheduled[k].end \in Int
          BY <5>2 DEF ScheduledSession
        <5> QED BY <1>3, <1>4, <4>1, <4>3, <5>1, <5>3
      <4> QED BY <1>4, <4>2, <4>3
    <3> QED BY <3>1, <3>2
  <2>2. CASE ~(q = room /\ d = day)
    <3>1. availability'[q][d] = availability[q][d]
      BY <1>9, <2>2
    <3>2. /\ \A p1, p2 \in ToSet(availability[q][d]) : p1 = p2
          /\ \A p \in ToSet(availability[q][d]) : \A k \in DOMAIN scheduled :
               scheduled[k].room = q /\ scheduled[k].day = d =>
                 scheduled[k].end + config.minBreak <= p.start
      BY DEF OneRangeBehind
    <3>3. ASSUME NEW k \in DOMAIN scheduled', scheduled'[k].room = q, scheduled'[k].day = d
          PROVE  k \in DOMAIN scheduled /\ scheduled'[k] = scheduled[k]
      BY <1>4, <2>2, <3>3
    <3> QED BY <3>1, <3>2, <3>3
  <2> QED BY <2>1, <2>2
<1>12. GapWithoutSlots'
  <2> SUFFICES ASSUME NEW i \in DOMAIN scheduled', NEW j \in DOMAIN scheduled', i # j,
                      SameRoomDay(scheduled'[i], scheduled'[j])
               PROVE  \/ scheduled'[j].end + config.minBreak <= scheduled'[i].start
                      \/ scheduled'[i].end + config.minBreak <= scheduled'[j].start
    BY <1>5 DEF GapWithoutSlots, SameRoomDay
  <2>1. CASE i \in DOMAIN scheduled /\ j \in DOMAIN scheduled
    BY <1>4, <2>1 DEF GapWithoutSlots
  <2>2. CASE i \in DOMAIN scheduled /\ j = n
    BY <1>4, <1>10, <2>2 DEF SameRoomDay
  <2>3. CASE i = n /\ j \in DOMAIN scheduled
    BY <1>4, <1>10, <2>3 DEF SameRoomDay
  <2> QED BY <1>4, <2>1, <2>2, <2>3
<1> QED BY <1>11, <1>12

LEMMA NextGap ==
  ASSUME GapInv, [Next]_vars
  PROVE  GapInv'
<1>1. TypeOK'
  BY NextTypeOK DEF GapInv
<1>2. CASE PlaceOne
  BY <1>1, <1>2, PlaceOneGap
<1>3. ASSUME UNCHANGED <<input, availability, scheduled>>
      PROVE  GapInv'
  BY <1>1, <1>3 DEF GapInv, OneRangeBehind, GapWithoutSlots, SameRoomDay,
                    config, OperatingDays, Rooms
<1> QED BY <1>2, <1>3 DEF Next, NextCourse, NextSession, FailSession, vars

\* Without slot alignment any two meetings of a room are at least the
\* minimum break apart, whichever was placed first.
THEOREM GapWithoutSlotsHolds == Spec => []GapWithoutSlots
<1>1. GapInv => GapWithoutSlots
  BY DEF GapInv
<1> QED BY <1>1, InitGap, NextGap, PTL DEF Spec

-----------------------------------------------------------------------------
(***************************************************************************)
(* Failures are justified                                                  *)
(***************************************************************************)

\* A range as long as the meeting has a start for it, aligned or not.
LEMMA LongEnoughHasStart ==
  ASSUME input \in Inputs, NEW r \in TimeRange, NEW d \in Nat \ {0},
         r.end - r.start >= d
  PROVE  StartsIn(r, d) # {}
<1>1. r.start \in Int /\ r.end \in Int
  BY DEF TimeRange
<1>2. config.preferredSlot \in Int
  BY ConfigType DEF Config
<1>3. Aligned(r.start) \in Int
  BY <1>1, AlignedForward
<1>4. CASE Aligned(r.start) + d <= r.end
  BY <1>4 DEF StartsIn
<1>5. CASE Aligned(r.start) + d > r.end /\ config.preferredSlot > 0
  BY <1>5 DEF StartsIn
<1>6. CASE config.preferredSlot <= 0
  <2>1. Aligned(r.start) = r.start
    BY <1>2, <1>6 DEF Aligned
  <2> QED BY <1>1, <1>4, <2>1
<1> QED BY <1>1, <1>2, <1>3, <1>4, <1>5, <1>6

\* When findFirstAvailableSlot finds nothing, every free range is too short.
LEMMA NoSlotMeansShort ==
  ASSUME input \in Inputs, NEW R \in Seq(TimeRange), NEW d \in Nat \ {0},
         FirstAvailableSlot(R, d) = {}, NEW r \in ToSet(R)
  PROVE  r.end - r.start < d
<1> DEFINE hits == {i \in DOMAIN R : StartsIn(R[i], d) # {}}
<1>1. r \in TimeRange /\ \A i \in DOMAIN R : R[i] \in TimeRange
  BY RangesOf
<1>2. SUFFICES ASSUME r.end - r.start >= d PROVE FALSE
  BY <1>1 DEF TimeRange
<1>3. StartsIn(r, d) # {}
  BY <1>1, <1>2, LongEnoughHasStart
<1>4. hits \in SUBSET Nat /\ hits # {}
  <2>1. PICK i \in DOMAIN R : r = R[i]
    BY RangesOf
  <2>2. i \in hits
    BY <1>3, <2>1
  <2>3. \A j \in DOMAIN R : j \in Nat
    BY RangesOf
  <2>4. hits \in SUBSET Nat
    BY <2>3
  <2> HIDE DEF hits
  <2> QED BY <2>2, <2>4
<1>5. PICK i \in hits : \A j \in hits : i <= j
  <2> HIDE DEF hits
  <2> QED BY <1>4, LeastOne
<1>6. \A j \in DOMAIN R : j < i => StartsIn(R[j], d) = {}
  BY <1>5, RangesOf
<1>7. StartsIn(R[i], d) \subseteq FirstAvailableSlot(R, d)
  BY <1>5, <1>6 DEF FirstAvailableSlot
<1> QED BY <1>5, <1>7

\* A day counted as used by a course has a placed meeting of the course: a
\* day is never skipped without reason.
DaysKept ==
  \A c \in CourseIds : \A i \in DOMAIN courseDaysUsed[c] :
    \E k \in MeetingsOf(c) : scheduled[k].day = courseDaysUsed[c][i]

JustifiedInv == TypeOK /\ DaysKept /\ FailureJustified

LEMMA InitJustified == Init => JustifiedInv
<1> SUFFICES ASSUME Init PROVE DaysKept /\ FailureJustified
  BY InitTypeOK DEF JustifiedInv
<1> QED BY DEF Init, DaysKept, FailureJustified, Failed

LEMMA FailSessionJustified ==
  ASSUME JustifiedInv, FailSession, TypeOK'
  PROVE  JustifiedInv'
<1> DEFINE s == input.sessions[current]
<1> USE DEF JustifiedInv
<1>1. current \in Sessions /\ s \in CourseSession
  BY InputType DEF TypeOK, FailSession, MeetingsLeft
<1>2. s.duration \in Nat \ {0} /\ s.course \in CourseIds
  BY <1>1 DEF CourseSession
<1>3. /\ input' = input /\ availability' = availability
      /\ courseDaysUsed' = courseDaysUsed /\ scheduled' = scheduled
      /\ failed' = Append(failed, current)
      /\ config' = config /\ OperatingDays' = OperatingDays
      /\ Rooms' = Rooms /\ Sessions' = Sessions
  BY DEF FailSession, config, OperatingDays, Rooms, Sessions
<1>4. DaysKept'
  BY <1>3 DEF DaysKept, MeetingsOf
<1>5. ASSUME NEW day \in OperatingDays
      PROVE  \/ \E k \in MeetingsOf(s.course) : scheduled[k].day = day
             \/ \A room \in RoomsByType(s.requiredRoom) :
                \A r \in ToSet(availability[room][day]) : r.end - r.start < s.duration
  <2>1. CASE SkipDay(s, day)
    BY <1>2, <2>1 DEF SkipDay, DaysKept
  <2>2. CASE ~SkipDay(s, day)
    <3> SUFFICES ASSUME NEW room \in RoomsByType(s.requiredRoom),
                        NEW r \in ToSet(availability[room][day])
                 PROVE  r.end - r.start < s.duration
      OBVIOUS
    <3>1. ~HasSlot(s, room, day)
      BY <2>2 DEF FailSession, Placeable
    <3>2. availability[room][day] \in Seq(TimeRange)
      BY DEF TypeOK, RoomsByType
    <3> QED BY <1>2, <3>1, <3>2, NoSlotMeansShort DEF HasSlot, TypeOK
  <2> QED BY <2>1, <2>2
<1>6. ASSUME NEW i \in Sessions, Failed(i)'
      PROVE  Failed(i) \/ i = current
  <2>1. failed \in Seq(Sessions)
    BY DEF TypeOK
  <2> QED BY <1>1, <1>3, <1>6, <2>1, AppendFacts DEF Failed
<1>7. FailureJustified'
  BY <1>3, <1>5, <1>6 DEF FailureJustified, MeetingsOf, RoomsByType
<1> QED BY <1>4, <1>7

LEMMA PlaceOneJustified ==
  ASSUME JustifiedInv, PlaceOne, TypeOK'
  PROVE  JustifiedInv'
<1> DEFINE s == input.sessions[current]
<1> USE DEF JustifiedInv
<1>1. PICK day \in OperatingDays, room \in Rooms, start \in Int :
        LET m == [course |-> s.course, room |-> room, day |-> day,
                  start |-> start, end |-> start + s.duration]
        IN  /\ current \in Sessions
            /\ m \in ScheduledSession
            /\ scheduled' = Append(scheduled, m)
            /\ availability' = [availability EXCEPT ![room][day] =
                 ConsumeSlot(availability[room][day], m.start, m.end + config.minBreak)]
            /\ courseDaysUsed' =
                 [courseDaysUsed EXCEPT ![s.course] = Append(@, day)]
  BY PlaceOneEffect
<1> DEFINE m == [course |-> s.course, room |-> room, day |-> day,
                 start |-> start, end |-> start + s.duration]
           e == m.end + config.minBreak
           taken == ConsumeSlot(availability[room][day], start, e)
           n == Len(scheduled) + 1
<1>2. /\ s.duration \in Nat \ {0} /\ s.course \in CourseIds /\ config.minBreak \in Int
  BY <1>1, ConfigType, InputType DEF TypeOK, CourseSession, Config
<1>3. /\ DOMAIN scheduled' = DOMAIN scheduled \union {n}
      /\ \A k \in DOMAIN scheduled : scheduled'[k] = scheduled[k]
      /\ scheduled'[n] = m
  BY <1>1, AppendFacts DEF TypeOK
<1>4. /\ input' = input /\ failed' = failed
      /\ config' = config /\ OperatingDays' = OperatingDays
      /\ Rooms' = Rooms /\ Sessions' = Sessions
  BY DEF PlaceOne, config, OperatingDays, Rooms, Sessions
<1>5. ASSUME NEW c, NEW k \in MeetingsOf(c)
      PROVE  k \in MeetingsOf(c)' /\ scheduled'[k].day = scheduled[k].day
  BY <1>3, <1>5 DEF MeetingsOf
<1>6. DaysKept'
  <2> SUFFICES ASSUME NEW c \in CourseIds, NEW i \in DOMAIN courseDaysUsed'[c]
               PROVE  \E k \in MeetingsOf(c)' : scheduled'[k].day = courseDaysUsed'[c][i]
    BY DEF DaysKept
  <2>1. CASE c # s.course
    <3>1. courseDaysUsed'[c] = courseDaysUsed[c]
      BY <1>1, <2>1 DEF TypeOK
    <3> QED BY <1>5, <3>1 DEF DaysKept
  <2>2. CASE c = s.course
    <3> DEFINE used == courseDaysUsed[c]
    <3>1. used \in Seq(OperatingDays) /\ courseDaysUsed'[c] = Append(used, day)
      BY <1>1, <1>2, <2>2 DEF TypeOK
    <3>2. CASE i \in DOMAIN used
      <4>1. courseDaysUsed'[c][i] = used[i]
        BY <3>1, <3>2, AppendFacts
      <4> QED BY <1>5, <3>2, <4>1 DEF DaysKept
    <3>3. CASE i = Len(used) + 1
      <4>1. courseDaysUsed'[c][i] = day
        BY <3>1, <3>3, AppendFacts
      <4>2. n \in MeetingsOf(c)' /\ scheduled'[n].day = day
        BY <1>3, <2>2 DEF MeetingsOf
      <4> QED BY <4>1, <4>2
    <3> QED BY <3>1, <3>2, <3>3, AppendFacts
  <2> QED BY <2>1, <2>2
<1>7. ASSUME NEW q \in Rooms, NEW d \in OperatingDays, NEW len \in Nat,
             \A r \in ToSet(availability[q][d]) : r.end - r.start < len,
             NEW p \in ToSet(availability'[q][d])
      PROVE  p.end - p.start < len
  <2>1. CASE q = room /\ d = day
    <3>1. p \in ToSet(taken)
      <4>1. availability' = [availability EXCEPT ![room][day] = taken]
        BY <1>1
      <4>2. availability \in [Rooms -> [OperatingDays -> Seq(TimeRange)]]
        BY DEF TypeOK
      <4> HIDE DEF taken
      <4>3. availability'[q][d] = taken
        BY <2>1, <4>1, <4>2
      <4> QED BY <4>3
    <3>2. availability[room][day] \in Seq(TimeRange)
      BY DEF TypeOK
    <3>3. start \in Int /\ e \in Int
      BY <1>2
    <3> HIDE DEF e
    <3>4. p \in TimeRange
          /\ \E r \in ToSet(availability[room][day]) : r.start <= p.start /\ p.end <= r.end
      BY <3>1, <3>2, <3>3, ConsumePieces
    <3>5. PICK r \in ToSet(availability[room][day]) : r.start <= p.start /\ p.end <= r.end
      BY <3>4
    <3>6. r.end - r.start < len
      BY <1>7, <2>1
    <3>7. r \in TimeRange
      BY <3>2, <3>5, RangesOf
    <3> QED BY <3>4, <3>5, <3>6, <3>7 DEF TimeRange
  <2>2. CASE ~(q = room /\ d = day)
    BY <1>1, <1>7, <2>2 DEF TypeOK
  <2> QED BY <2>1, <2>2
<1>8. FailureJustified'
  <2> SUFFICES ASSUME NEW i \in Sessions, Failed(i), NEW d \in OperatingDays,
                      ~ \E k \in MeetingsOf(input.sessions[i].course)' :
                          scheduled'[k].day = d,
                      NEW q \in RoomsByType(input.sessions[i].requiredRoom),
                      NEW p \in ToSet(availability'[q][d])
               PROVE  p.end - p.start < input.sessions[i].duration
    BY <1>4 DEF FailureJustified, Failed, RoomsByType
  <2>1. ~ \E k \in MeetingsOf(input.sessions[i].course) : scheduled[k].day = d
    BY <1>3, <1>4 DEF MeetingsOf
  <2>2. \A r \in ToSet(availability[q][d]) : r.end - r.start < input.sessions[i].duration
    BY <2>1 DEF FailureJustified
  <2>3. input.sessions[i].duration \in Nat /\ q \in Rooms
    BY InputType DEF TypeOK, CourseSession, RoomsByType
  <2> QED BY <1>7, <2>2, <2>3
<1> QED BY <1>6, <1>8

LEMMA NextJustified ==
  ASSUME JustifiedInv, [Next]_vars
  PROVE  JustifiedInv'
<1>1. TypeOK'
  BY NextTypeOK DEF JustifiedInv
<1>2. CASE PlaceOne
  BY <1>1, <1>2, PlaceOneJustified
<1>3. CASE FailSession
  BY <1>1, <1>3, FailSessionJustified
<1>4. ASSUME UNCHANGED <<input, availability, courseDaysUsed, scheduled, failed>>
      PROVE  JustifiedInv'
  BY <1>1, <1>4 DEF JustifiedInv, DaysKept, FailureJustified, Failed, MeetingsOf,
                    RoomsByType, config, OperatingDays, Rooms, Sessions
<1> QED BY <1>2, <1>3, <1>4 DEF Next, NextCourse, NextSession, vars

\* A session is reported as failed only when no room of its type has a long
\* enough free range on a day without a meeting of its course, and that
\* stays so: the failure list never blames time that was there.
THEOREM FailureIsJustified == Spec => []FailureJustified
<1>1. JustifiedInv => FailureJustified
  BY DEF JustifiedInv
<1> QED BY <1>1, InitJustified, NextJustified, PTL DEF Spec

-----------------------------------------------------------------------------
(***************************************************************************)
(* The slices stay in order, and the search is first fit                   *)
(***************************************************************************)

OrderInv == TypeOK /\ SlicesInOrder

LEMMA InitOrder == Init => OrderInv
<1> SUFFICES ASSUME Init PROVE SlicesInOrder
  BY InitTypeOK DEF OrderInv
<1>1. ASSUME NEW q \in Rooms, NEW d \in OperatingDays
      PROVE  LET ranges == availability[q][d] IN
             /\ \A i \in DOMAIN ranges :
                  ranges[i].start < ranges[i].end \/ ranges[i] = config.operatingHours
             /\ \A i, j \in DOMAIN ranges : i < j => ranges[i].end < ranges[j].start
  BY InitRanges
<1> QED BY <1>1 DEF SlicesInOrder

LEMMA PlaceOneOrder ==
  ASSUME OrderInv, PlaceOne, TypeOK'
  PROVE  OrderInv'
<1> DEFINE s == input.sessions[current]
<1> USE DEF OrderInv
<1>0. TypeOK /\ PlaceOne
  OBVIOUS
<1>1. PICK day \in OperatingDays, room \in Rooms, start \in Int :
        LET m == [course |-> s.course, room |-> room, day |-> day,
                  start |-> start, end |-> start + s.duration]
        IN  /\ current \in Sessions
            /\ m \in ScheduledSession
            /\ scheduled' = Append(scheduled, m)
            /\ availability' = [availability EXCEPT ![room][day] =
                 ConsumeSlot(availability[room][day], m.start, m.end + config.minBreak)]
  <2> HIDE DEF OrderInv
  <2> QED BY <1>0, PlaceOneEffect
<1> DEFINE e == start + s.duration + config.minBreak
           free == availability[room][day]
           taken == ConsumeSlot(free, start, e)
<1>2. /\ availability \in [Rooms -> [OperatingDays -> Seq(TimeRange)]]
      /\ availability' = [availability EXCEPT ![room][day] = taken]
  BY <1>1 DEF TypeOK
<1>3. s.duration \in Nat \ {0} /\ config.minBreak \in Int
  BY <1>1, ConfigType, InputType DEF TypeOK, CourseSession, Config
<1>4. config' = config /\ OperatingDays' = OperatingDays /\ Rooms' = Rooms
  BY DEF PlaceOne, config, OperatingDays, Rooms
<1> SUFFICES ASSUME config.minBreak >= 0, NEW q \in Rooms, NEW d \in OperatingDays
             PROVE  /\ \A i \in DOMAIN availability'[q][d] :
                         \/ availability'[q][d][i].start < availability'[q][d][i].end
                         \/ availability'[q][d][i] = config.operatingHours
                    /\ \A i, j \in DOMAIN availability'[q][d] :
                         i < j => availability'[q][d][i].end < availability'[q][d][j].start
  BY <1>4 DEF SlicesInOrder
<1>5. /\ \A i \in DOMAIN availability[q][d] :
           \/ availability[q][d][i].start < availability[q][d][i].end
           \/ availability[q][d][i] = config.operatingHours
      /\ \A i, j \in DOMAIN availability[q][d] :
           i < j => availability[q][d][i].end < availability[q][d][j].start
  BY DEF SlicesInOrder
<1>6. CASE q = room /\ d = day
  <2>1. start < e /\ e \in Int /\ free \in Seq(TimeRange)
    BY <1>3, FreeRanges
  <2>2. /\ \A i \in DOMAIN free : free[i].start < free[i].end \/ free[i] = config.operatingHours
        /\ \A i, j \in DOMAIN free : i < j => free[i].end < free[j].start
    BY <1>5, <1>6
  <2>3. availability'[q][d] = taken
    <3> HIDE DEF taken
    <3> QED BY <1>2, <1>6
  <2> HIDE DEF e, free
  <2>4. /\ taken \in Seq(TimeRange)
        /\ \A i, j \in DOMAIN taken : i < j => taken[i].end < taken[j].start
    BY <2>1, <2>2, ConsumeIs
  <2>5. ASSUME NEW i \in DOMAIN taken
        PROVE  taken[i].start < taken[i].end \/ taken[i] = config.operatingHours
    <3>1. taken[i] \in ToSet(taken)
      BY <2>4, RangesOf
    <3>2. PICK r \in ToSet(free) : taken[i].start < taken[i].end \/ taken[i] = r
      BY <2>1, <3>1, ConsumePieces
    <3>3. r.start < r.end \/ r = config.operatingHours
      BY <2>1, <2>2, RangesOf
    <3> QED BY <3>2, <3>3
  <2> QED BY <2>3, <2>4, <2>5
<1>7. CASE ~(q = room /\ d = day)
  <2>1. availability'[q][d] = availability[q][d]
    BY <1>2, <1>7
  <2> QED BY <1>5, <2>1
<1> QED BY <1>6, <1>7

LEMMA NextOrder ==
  ASSUME OrderInv, [Next]_vars
  PROVE  OrderInv'
<1>1. TypeOK'
  BY NextTypeOK DEF OrderInv
<1>2. CASE PlaceOne
  BY <1>1, <1>2, PlaceOneOrder
<1>3. ASSUME UNCHANGED <<input, availability>>
      PROVE  OrderInv'
  BY <1>1, <1>3 DEF OrderInv, SlicesInOrder, config, OperatingDays, Rooms
<1> QED BY <1>2, <1>3 DEF Next, NextCourse, NextSession, FailSession, vars

\* Unless the break is negative, the slice that consumeSlot rebuilds keeps
\* its ranges in order and apart, whatever meetings are taken out of it.
THEOREM SlicesInOrderHolds == Spec => []SlicesInOrder
<1>1. OrderInv => SlicesInOrder
  BY DEF OrderInv
<1> QED BY <1>1, InitOrder, NextOrder, PTL DEF Spec

\* Between a time and the start found a slot or more later, some minute that
\* the meeting would have needed is in no range of the slice.
LEMMA FirstFitMinute ==
  ASSUME input \in Inputs, NEW R \in Seq(TimeRange), NEW d \in Nat \ {0},
         \A i, j \in DOMAIN R : i < j => R[i].end < R[j].start,
         \A i \in DOMAIN R : R[i].start >= 0,
         NEW start \in FirstAvailableSlot(R, d),
         NEW t \in Int, t < start, start - t >= config.preferredSlot
  PROVE  \E u \in t .. t + d - 1 :
           \A r \in ToSet(R) : ~(r.start <= u /\ u < r.end)
<1>1. PICK i \in DOMAIN R : /\ start \in StartsIn(R[i], d)
                            /\ \A j \in DOMAIN R : j < i => StartsIn(R[j], d) = {}
  BY DEF FirstAvailableSlot
<1>2. \A j \in DOMAIN R : /\ R[j] \in TimeRange /\ R[j] \in ToSet(R) /\ j \in Nat
                          /\ R[j].start \in Int /\ R[j].end \in Int
  BY RangesOf DEF TimeRange
<1>3. /\ start \in Int /\ R[i].start <= start /\ start + d <= R[i].end
      /\ start = Aligned(R[i].start) \/ start = R[i].start
  BY <1>1, <1>2, StartsInRange
<1>4. \A j \in DOMAIN R : j < i => R[j].end - R[j].start < d
  <2> SUFFICES ASSUME NEW j \in DOMAIN R, j < i, R[j].end - R[j].start >= d
               PROVE  FALSE
    BY <1>2
  <2> QED BY <1>1, <1>2, LongEnoughHasStart
<1>5. config.preferredSlot \in Int
  BY ConfigType DEF Config
<1>6. CASE \A r \in ToSet(R) : ~(r.start <= t /\ t < r.end)
  BY <1>6
<1>7. ASSUME NEW r \in ToSet(R), r.start <= t, t < r.end
      PROVE  \E u \in t .. t + d - 1 :
               \A q \in ToSet(R) : ~(q.start <= u /\ u < q.end)
  <2>1. PICK j \in DOMAIN R : r = R[j]
    BY RangesOf
  <2>2. R[j].start <= t /\ t < R[j].end
    BY <1>7, <2>1
  <2>3. j < i
    <3>1. CASE j = i
      <4>1. start = Aligned(R[i].start) /\ start # R[i].start
        BY <1>2, <1>3, <2>2, <3>1
      <4>2. start - R[i].start < config.preferredSlot
        BY <1>2, <4>1, AlignedForward
      <4> QED BY <1>2, <1>3, <1>5, <2>2, <3>1, <4>2
    <3>2. CASE i < j
      <4>1. R[i].end < R[j].start
        BY <3>2
      <4> QED BY <1>2, <1>3, <2>2, <4>1
    <3> QED BY <1>2, <3>1, <3>2
  <2> DEFINE u == R[j].end
  <2>4. u \in t .. t + d - 1
    BY <1>2, <1>4, <2>2, <2>3
  <2>5. ASSUME NEW q \in ToSet(R), q.start <= u, u < q.end
        PROVE  FALSE
    <3>1. PICK l \in DOMAIN R : q = R[l]
      BY RangesOf
    <3>2. CASE l < j
      <4>1. R[l].end < R[j].start
        BY <3>2
      <4> QED BY <1>2, <2>2, <2>5, <3>1, <4>1
    <3>3. CASE j < l
      <4>1. R[j].end < R[l].start
        BY <3>3
      <4> QED BY <1>2, <2>5, <3>1, <4>1
    <3>4. CASE l = j
      BY <1>2, <2>5, <3>1, <3>4
    <3> QED BY <1>2, <3>2, <3>3, <3>4
  <2> QED BY <2>4, <2>5
<1> QED BY <1>6, <1>7

FitInv == BookingInv /\ ExactInv /\ OrderInv /\ FirstFit

LEMMA PlaceOneFit ==
  ASSUME FitInv, PlaceOne
  PROVE  FirstFit'
<1> DEFINE s == input.sessions[current]
           hours == config.operatingHours
<1>1. TypeOK /\ FreeInHours /\ AvailabilityExact /\ SlicesInOrder /\ FirstFit
  BY DEF FitInv, BookingInv, ExactInv, OrderInv
<1>2. PICK day \in OperatingDays, room \in Rooms, start \in Int :
        LET m == [course |-> s.course, room |-> room, day |-> day,
                  start |-> start, end |-> start + s.duration]
        IN  /\ current \in Sessions
            /\ start \in FirstAvailableSlot(availability[room][day], s.duration)
            /\ \E r \in ToSet(availability[room][day]) : r.start <= m.start /\ m.end <= r.end
            /\ m \in ScheduledSession
            /\ scheduled' = Append(scheduled, m)
  BY <1>1, PlaceOneEffect
<1> DEFINE m == [course |-> s.course, room |-> room, day |-> day,
                 start |-> start, end |-> start + s.duration]
           R == availability[room][day]
           n == Len(scheduled) + 1
<1>3. s.duration \in Nat \ {0} /\ config.minBreak \in Int /\ hours.start \in Int
      /\ hours.end \in Int /\ config.preferredSlot \in Int
  <2>1. s \in CourseSession
    BY <1>1, <1>2, InputType DEF TypeOK
  <2>2. config \in Config
    BY <1>1, ConfigType DEF TypeOK
  <2> QED BY <2>1, <2>2 DEF CourseSession, Config, TimeRange
<1>4. /\ DOMAIN scheduled' = DOMAIN scheduled \union {n}
      /\ DOMAIN scheduled = 1..Len(scheduled) /\ Len(scheduled) \in Nat
      /\ \A k \in DOMAIN scheduled : scheduled'[k] = scheduled[k]
      /\ scheduled'[n] = m
      /\ \A k \in DOMAIN scheduled : scheduled[k] \in ScheduledSession
  BY <1>1, <1>2, AppendFacts DEF TypeOK
<1>5. config' = config
  BY DEF PlaceOne, config
<1> SUFFICES ASSUME config.minBreak >= 0, hours.start >= 0, NEW k \in DOMAIN scheduled',
                    NEW t \in hours.start .. scheduled'[k].start - 1,
                    scheduled'[k].start - t >= config.preferredSlot
             PROVE  \E j \in DOMAIN scheduled' :
                      /\ j < k /\ SameRoomDay(scheduled'[j], scheduled'[k])
                      /\ scheduled'[j].start < t + (scheduled'[k].end - scheduled'[k].start)
                      /\ t < scheduled'[j].end + config.minBreak
  BY <1>5 DEF FirstFit, SameRoomDay
<1>6. CASE k \in DOMAIN scheduled
  <2>1. \E j \in DOMAIN scheduled :
          /\ j < k /\ SameRoomDay(scheduled[j], scheduled[k])
          /\ scheduled[j].start < t + (scheduled[k].end - scheduled[k].start)
          /\ t < scheduled[j].end + config.minBreak
    BY <1>1, <1>4, <1>6 DEF FirstFit
  <2> QED BY <1>4, <1>6, <2>1
<1>7. CASE k = n
  <2>1. /\ m.start = start /\ m.end = start + s.duration /\ m.room = room /\ m.day = day
        /\ scheduled'[k] = m
    BY <1>4, <1>7
  <2>2. t \in hours.start .. start - 1 /\ start - t >= config.preferredSlot
    BY <2>1
  <2>3. R \in Seq(TimeRange)
    BY <1>1, FreeRanges
  <2>4. start + s.duration <= hours.end
    <3>1. PICK r \in ToSet(R) : start + s.duration <= r.end
      BY <1>2
    <3>2. r.end <= hours.end /\ r.end \in Int
      BY <1>1, FreeRanges DEF FreeInHours
    <3> QED BY <1>3, <3>1, <3>2
  <2>5. PICK u \in t .. t + s.duration - 1 :
          \A r \in ToSet(R) : ~(r.start <= u /\ u < r.end)
    <3>1. \A i, j \in DOMAIN R : i < j => R[i].end < R[j].start
      BY <1>1 DEF SlicesInOrder
    <3>2. \A i \in DOMAIN R : R[i].start >= 0
      <4> SUFFICES ASSUME NEW i \in DOMAIN R PROVE R[i].start >= 0
        OBVIOUS
      <4>1. R[i] \in ToSet(R) /\ R[i].start \in Int
        BY <2>3, RangesOf DEF TimeRange
      <4>2. hours.start <= R[i].start
        BY <1>1, <4>1 DEF FreeInHours
      <4> QED BY <1>3, <4>1, <4>2
    <3>3. t \in Int /\ t < start /\ input \in Inputs
      BY <1>1, <1>3, <2>2 DEF TypeOK
    <3> HIDE DEF R
    <3> QED BY <1>2, <1>3, <2>2, <2>3, <3>1, <3>2, <3>3, FirstFitMinute DEF R
  <2>6. u \in Int /\ u \in hours.start .. hours.end - 1 /\ t <= u /\ u < t + s.duration
    BY <1>3, <2>2, <2>4
  <2>7. PICK j \in DOMAIN scheduled : /\ scheduled[j].room = room /\ scheduled[j].day = day
                                      /\ scheduled[j].start <= u
                                      /\ u < scheduled[j].end + config.minBreak
    BY <1>1, <2>5, <2>6 DEF AvailabilityExact, Takes
  <2>8. /\ scheduled[j].start \in Int /\ scheduled[j].end \in Int
    BY <1>4, <2>7 DEF ScheduledSession
  <2>9. /\ scheduled[j].start < t + s.duration
        /\ t < scheduled[j].end + config.minBreak
    BY <1>3, <2>2, <2>6, <2>7, <2>8
  <2>10. j < k /\ j \in DOMAIN scheduled' /\ scheduled'[j] = scheduled[j]
    BY <1>4, <1>7, <2>7
  <2>11. m.end - m.start = s.duration
    BY <1>3
  <2> HIDE DEF m
  <2> QED BY <2>1, <2>7, <2>9, <2>10, <2>11 DEF SameRoomDay
<1> QED BY <1>4, <1>6, <1>7

LEMMA InitFit == Init => FitInv
<1>1. Init => FirstFit
  BY DEF Init, FirstFit
<1> QED BY <1>1, InitBookingInv, InitExact, InitOrder DEF FitInv

LEMMA NextFit ==
  ASSUME FitInv, [Next]_vars
  PROVE  FitInv'
<1>1. BookingInv' /\ ExactInv' /\ OrderInv'
  BY NextBookingInv, NextExact, NextOrder DEF FitInv
<1>2. CASE PlaceOne
  BY <1>1, <1>2, PlaceOneFit DEF FitInv
<1>3. ASSUME UNCHANGED <<input, scheduled>>
      PROVE  FitInv'
  BY <1>1, <1>3 DEF FitInv, FirstFit, SameRoomDay, config
<1> QED BY <1>2, <1>3 DEF Next, NextCourse, NextSession, FailSession, vars

\* A meeting is put into the first time of its room and day that is free for
\* it, up to the rounding to a slot: something placed before was in the way
\* of every start a slot or more earlier.
THEOREM FirstFitHolds == Spec => []FirstFit
<1>1. FitInv => FirstFit
  BY DEF FitInv
<1> QED BY <1>1, InitFit, NextFit, PTL DEF Spec

-----------------------------------------------------------------------------
(***************************************************************************)
(* No meeting is lost or counted twice                                     *)
(***************************************************************************)

LEMMA Counted ==
  ASSUME NEW n \in Nat, NEW i
  PROVE  /\ IsFiniteSet(1..n) /\ Cardinality(1..n) = n
         /\ IsFiniteSet({i} \X (1..n)) /\ Cardinality({i} \X (1..n)) = n
<1>1. IsFiniteSet(1..n) /\ Cardinality(1..n) = n
  BY FS_Interval
<1>2. IsFiniteSet({i}) /\ Cardinality({i}) = 1
  BY FS_Singleton
<1> DEFINE A == {i}
           B == 1..n
<1> HIDE DEF A, B
<1>3. IsFiniteSet(A \X B) /\ Cardinality(A \X B) = Cardinality(A) * Cardinality(B)
  BY <1>1, <1>2, FS_Product DEF A, B
<1>4. Cardinality(A \X B) = n
  BY <1>1, <1>2, <1>3 DEF A, B
<1> QED BY <1>1, <1>3, <1>4 DEF A, B

\* Meetings asked for are counted session by session.
LEMMA AskedFinite ==
  ASSUME input \in Inputs, NEW S \in SUBSET Sessions
  PROVE  IsFiniteSet(S) /\ IsFiniteSet(Asked(S)) /\ Number(S) \in Nat
<1> DEFINE pairs(i) == {i} \X (1..input.sessions[i].number)
           T == {pairs(i) : i \in S}
           f == [i \in S |-> pairs(i)]
<1>1. IsFiniteSet(S)
  <2>1. Sessions = 1..Len(input.sessions) /\ Len(input.sessions) \in Nat
    BY InputType DEF Sessions
  <2>2. IsFiniteSet(Sessions)
    BY <2>1, Counted
  <2> QED BY <2>2, FS_Subset
<1>2. ASSUME NEW i \in S PROVE IsFiniteSet(pairs(i))
  <2>1. input.sessions[i].number \in Nat
    BY InputType DEF CourseSession
  <2> QED BY <2>1, Counted
<1> HIDE DEF pairs
<1>3. f \in Surjection(S, T)
  BY DEF Surjection
<1>4. IsFiniteSet(T)
  BY <1>1, <1>3, FS_Surjection
<1>5. IsFiniteSet(UNION T)
  BY <1>2, <1>4, FS_UNION
<1>6. Asked(S) = UNION T
  BY DEF Asked, pairs
<1> QED BY <1>1, <1>5, <1>6, FS_CardinalityType DEF Number

LEMMA NumberGrows ==
  ASSUME input \in Inputs, NEW S \in SUBSET Sessions, NEW T \in SUBSET S
  PROVE  Number(T) <= Number(S)
<1>1. Asked(T) \in SUBSET Asked(S)
  BY DEF Asked
<1> QED BY <1>1, AskedFinite, FS_Subset DEF Number

LEMMA NumberAdds ==
  ASSUME input \in Inputs, NEW S \in SUBSET Sessions, NEW i \in Sessions, i \notin S
  PROVE  Number(S \union {i}) = Number(S) + input.sessions[i].number
<1> DEFINE pairs == {i} \X (1..input.sessions[i].number)
<1>1. input.sessions[i].number \in Nat \ {0}
  BY InputType DEF CourseSession
<1>2. IsFiniteSet(pairs) /\ Cardinality(pairs) = input.sessions[i].number
  BY <1>1, Counted
<1>3. Asked(S \union {i}) = Asked(S) \union pairs /\ Asked(S) \intersect pairs = {}
  BY DEF Asked
<1>4. Cardinality(Asked(S) \union pairs)
        = Cardinality(Asked(S)) + Cardinality(pairs) - Cardinality(Asked(S) \intersect pairs)
  BY <1>2, AskedFinite, FS_Union
<1>5. Cardinality(Asked(S) \intersect pairs) = 0 /\ Cardinality(Asked(S)) \in Nat
  BY <1>3, AskedFinite, FS_EmptySet DEF Number
<1>6. Cardinality(Asked(S \union {i})) = Cardinality(Asked(S) \union pairs)
  BY <1>3
<1> HIDE DEF pairs
<1>7. Cardinality(Asked(S \union {i})) = Cardinality(Asked(S)) + Cardinality(pairs)
  BY <1>1, <1>2, <1>4, <1>5, <1>6
<1> QED BY <1>2, <1>7 DEF Number

\* The sessions of a course whose loop has begun, those of them that failed,
\* the reports of a failure, and the meetings still to place.
Begun(c)   == {i \in SessionsOf(c) : c \notin coursesLeft /\ i \notin sessionsLeft}
Lost(c)    == {i \in SessionsOf(c) : Failed(i)}
Reports(c) == {k \in DOMAIN failed : failed[k] \in Lost(c)}
ToPlace(c) == IF current \in SessionsOf(c) THEN sessionsToPlace ELSE 0

\* Of the meetings asked for by the sessions begun, each is placed, still to
\* be placed, or of a session that failed, and a failure stands for one that
\* is not placed.
Balanced(c) ==
  /\ Cardinality(MeetingsOf(c)) + ToPlace(c) >= Number(Begun(c) \ Lost(c))
  /\ Cardinality(MeetingsOf(c)) + ToPlace(c) + Cardinality(Reports(c)) <= Number(Begun(c))

\* Sessions are begun with their course, fail only when they have begun, and
\* what is left of the current one does not exceed it.
InTurn ==
  /\ \A i \in sessionsLeft : input.sessions[i].course \notin coursesLeft
  /\ \A i \in Sessions : i = current \/ Failed(i) => i \in Begun(input.sessions[i].course)
  /\ sessionsToPlace > 0 =>
       ~Failed(current) /\ sessionsToPlace <= input.sessions[current].number

AccountInv == TypeOK /\ InTurn /\ \A c \in input.courses : Balanced(c)

LEMMA CountsFinite ==
  ASSUME TypeOK
  PROVE  \A c : /\ IsFiniteSet(MeetingsOf(c)) /\ Cardinality(MeetingsOf(c)) \in Nat
                /\ IsFiniteSet(Reports(c)) /\ Cardinality(Reports(c)) \in Nat
                /\ Begun(c) \subseteq Sessions /\ Lost(c) \subseteq Sessions
                /\ Number(Begun(c)) \in Nat /\ Number(Begun(c) \ Lost(c)) \in Nat
                /\ ToPlace(c) \in Nat
<1> TAKE c
<1>1. /\ DOMAIN scheduled = 1..Len(scheduled) /\ Len(scheduled) \in Nat
      /\ DOMAIN failed = 1..Len(failed) /\ Len(failed) \in Nat
  BY DEF TypeOK
<1>2. IsFiniteSet(1..Len(scheduled)) /\ IsFiniteSet(1..Len(failed))
  BY <1>1, FS_Interval
<1>3. IsFiniteSet(MeetingsOf(c)) /\ IsFiniteSet(Reports(c))
  BY <1>1, <1>2, FS_Subset DEF MeetingsOf, Reports
<1>4. Begun(c) \subseteq Sessions /\ Lost(c) \subseteq Sessions
  BY DEF Begun, Lost, SessionsOf
<1>5. Number(Begun(c)) \in Nat /\ Number(Begun(c) \ Lost(c)) \in Nat
  BY <1>4, AskedFinite DEF TypeOK
<1> QED BY <1>3, <1>4, <1>5, FS_CardinalityType DEF ToPlace, TypeOK

LEMMA InitAccount == Init => AccountInv
<1> SUFFICES ASSUME Init PROVE InTurn /\ \A c \in input.courses : Balanced(c)
  BY InitTypeOK DEF AccountInv
<1>1. InTurn
  BY InputType DEF Init, InTurn, Failed
<1>2. ASSUME NEW c \in input.courses PROVE Balanced(c)
  <2>1. Begun(c) = {} /\ Begun(c) \ Lost(c) = {} /\ MeetingsOf(c) = {} /\ Reports(c) = {}
    BY <1>2 DEF Init, Begun, MeetingsOf, Reports
  <2>2. ToPlace(c) = 0
    BY DEF Init, ToPlace
  <2>3. Asked({}) = {}
    BY DEF Asked
  <2> QED BY <2>1, <2>2, <2>3, FS_EmptySet DEF Balanced, Number
<1> QED BY <1>1, <1>2

\* The next course has begun none of its sessions.
LEMMA NextCourseAccount ==
  ASSUME AccountInv, NEW c \in coursesLeft, NextCourse(c)
  PROVE  InTurn' /\ \A d \in input.courses : Balanced(d)'
<1> USE DEF AccountInv
<1>1. /\ coursesLeft' = coursesLeft \ {c} /\ sessionsLeft = {} /\ sessionsLeft' = SessionsOf(c)
      /\ input' = input /\ current' = current /\ sessionsToPlace' = sessionsToPlace
      /\ scheduled' = scheduled /\ failed' = failed /\ Sessions' = Sessions
  BY DEF NextCourse, Sessions
<1>2. \A d : /\ SessionsOf(d)' = SessionsOf(d) /\ MeetingsOf(d)' = MeetingsOf(d)
             /\ Lost(d)' = Lost(d) /\ Reports(d)' = Reports(d) /\ ToPlace(d)' = ToPlace(d)
  BY <1>1 DEF SessionsOf, MeetingsOf, Lost, Reports, Failed, ToPlace
<1>3. \A d : Begun(d)' = Begun(d)
  BY <1>1, <1>2 DEF Begun, SessionsOf
<1>4. \A S : Number(S)' = Number(S)
  BY <1>1 DEF Number, Asked
<1>5. InTurn'
  BY <1>1, <1>2, <1>3 DEF InTurn, Failed, SessionsOf
<1> QED BY <1>2, <1>3, <1>4, <1>5 DEF Balanced

LEMMA NextSessionAccount ==
  ASSUME AccountInv, NEW i \in sessionsLeft, NextSession(i)
  PROVE  InTurn' /\ \A c \in input.courses : Balanced(c)'
<1> USE DEF AccountInv
<1>1. /\ sessionsLeft' = sessionsLeft \ {i} /\ current' = i
      /\ sessionsToPlace' = input.sessions[i].number
      /\ sessionsToPlace = 0
      /\ input' = input /\ coursesLeft' = coursesLeft
      /\ scheduled' = scheduled /\ failed' = failed /\ Sessions' = Sessions
  BY DEF NextSession, Sessions, MeetingsLeft, TypeOK
<1>2. i \in Sessions /\ ~Failed(i) /\ input.sessions[i].course \notin coursesLeft
  BY DEF InTurn, Begun, TypeOK
<1>3. \A d : /\ SessionsOf(d)' = SessionsOf(d) /\ MeetingsOf(d)' = MeetingsOf(d)
             /\ Lost(d)' = Lost(d) /\ Reports(d)' = Reports(d)
  BY <1>1 DEF SessionsOf, MeetingsOf, Lost, Reports, Failed
<1>4. \A S : Number(S)' = Number(S)
  BY <1>1 DEF Number, Asked
<1>5. \A d : /\ i \notin SessionsOf(d) => Begun(d)' = Begun(d)
             /\ i \in SessionsOf(d) =>
                  Begun(d)' = Begun(d) \union {i} /\ i \notin Begun(d) /\ i \notin Lost(d)
  BY <1>1, <1>2, <1>3 DEF Begun, SessionsOf, Lost
<1>6. InTurn'
  <2>1. ASSUME NEW j \in Sessions, j = i \/ Failed(j), NEW d, d = input.sessions[j].course
        PROVE  j \in Begun(d)'
    <3>1. Begun(d) \subseteq Begun(d)'
      BY <1>5
    <3>2. CASE j = i
      <4>1. i \in SessionsOf(d)
        BY <1>2, <2>1, <3>2 DEF SessionsOf
      <4> QED BY <1>5, <3>2, <4>1
    <3>3. CASE Failed(j)
      <4>1. j \in Begun(d)
        BY <2>1, <3>3 DEF InTurn
      <4> QED BY <3>1, <4>1
    <3> QED BY <2>1, <3>2, <3>3
  <2>2. \A j \in Sessions : Failed(j)' <=> Failed(j)
    BY <1>1 DEF Failed
  <2>3. input.sessions[i].number \in Nat /\ ~Failed(i)'
    BY <1>2, <2>2, InputType DEF TypeOK, CourseSession
  <2> QED BY <1>1, <2>1, <2>2, <2>3 DEF InTurn
<1>7. ASSUME NEW c \in input.courses PROVE Balanced(c)'
  <2>1. CASE i \notin SessionsOf(c)
    <3>1. ToPlace(c)' = 0 /\ ToPlace(c) = 0
      BY <1>1, <1>3, <2>1 DEF ToPlace
    <3> QED BY <1>3, <1>4, <1>5, <2>1, <3>1 DEF Balanced
  <2>2. CASE i \in SessionsOf(c)
    <3>1. ToPlace(c)' = input.sessions[i].number /\ ToPlace(c) = 0
      BY <1>1, <1>3, <2>2 DEF ToPlace
    <3>2. Number(Begun(c) \union {i}) = Number(Begun(c)) + input.sessions[i].number
      BY <1>2, <1>5, <2>2, CountsFinite, NumberAdds DEF TypeOK
    <3>3. Number((Begun(c) \ Lost(c)) \union {i})
            = Number(Begun(c) \ Lost(c)) + input.sessions[i].number
      BY <1>2, <1>5, <2>2, CountsFinite, NumberAdds DEF TypeOK
    <3>4. (Begun(c) \union {i}) \ Lost(c) = (Begun(c) \ Lost(c)) \union {i}
      BY <1>5, <2>2
    <3>5. input.sessions[i].number \in Nat
      BY <1>2, InputType DEF TypeOK, CourseSession
    <3>6. /\ Number(Begun(c))' = Number(Begun(c)) + input.sessions[i].number
          /\ Number(Begun(c) \ Lost(c))' = Number(Begun(c) \ Lost(c)) + input.sessions[i].number
          /\ Cardinality(MeetingsOf(c))' = Cardinality(MeetingsOf(c))
          /\ Cardinality(Reports(c))' = Cardinality(Reports(c))
      BY <1>3, <1>4, <1>5, <2>2, <3>2, <3>3, <3>4
    <3>7. /\ Number(Begun(c)) \in Nat /\ Number(Begun(c) \ Lost(c)) \in Nat
          /\ Cardinality(MeetingsOf(c)) \in Nat /\ Cardinality(Reports(c)) \in Nat
      BY CountsFinite
    <3>8. Balanced(c)
      OBVIOUS
    <3> QED BY <3>1, <3>5, <3>6, <3>7, <3>8 DEF Balanced
  <2> QED BY <2>1, <2>2
<1> QED BY <1>6, <1>7

\* A meeting that is placed is no longer to be placed.
LEMMA PlaceOneAccount ==
  ASSUME AccountInv, PlaceOne
  PROVE  InTurn' /\ \A c \in input.courses : Balanced(c)'
<1> DEFINE s == input.sessions[current]
           n == Len(scheduled) + 1
<1> USE DEF AccountInv
<1>1. PICK m \in ScheduledSession : m.course = s.course /\ scheduled' = Append(scheduled, m)
  BY PlaceOneEffect
<1>2. /\ current \in Sessions /\ sessionsToPlace \in Nat /\ sessionsToPlace > 0
      /\ sessionsToPlace' = sessionsToPlace - 1
      /\ input' = input /\ coursesLeft' = coursesLeft /\ sessionsLeft' = sessionsLeft
      /\ current' = current /\ failed' = failed /\ Sessions' = Sessions
  BY DEF PlaceOne, MeetingsLeft, TypeOK, Sessions
<1>3. /\ DOMAIN scheduled' = DOMAIN scheduled \union {n} /\ n \notin DOMAIN scheduled
      /\ \A k \in DOMAIN scheduled : scheduled'[k] = scheduled[k]
      /\ scheduled'[n] = m
  BY <1>1, AppendFacts DEF TypeOK
<1>4. \A d : /\ SessionsOf(d)' = SessionsOf(d) /\ Begun(d)' = Begun(d)
             /\ Lost(d)' = Lost(d) /\ Reports(d)' = Reports(d)
  BY <1>2 DEF SessionsOf, Begun, Lost, Reports, Failed
<1>5. \A S : Number(S)' = Number(S)
  BY <1>2 DEF Number, Asked
<1>6. InTurn'
  <2>1. sessionsToPlace' > 0 =>
          ~Failed(current)' /\ sessionsToPlace' <= input.sessions[current].number
    <3>1. input.sessions[current].number \in Nat
      BY <1>2, InputType DEF TypeOK, CourseSession
    <3> QED BY <1>2, <3>1 DEF InTurn, Failed
  <2>2. \A i \in Sessions : i = current \/ Failed(i)' => i \in Begun(input.sessions[i].course)'
    BY <1>2 DEF InTurn, Failed, Begun, SessionsOf
  <2> QED BY <1>2, <2>1, <2>2 DEF InTurn
<1>7. ASSUME NEW c \in input.courses PROVE Balanced(c)'
  <2>1. CASE c # s.course
    <3>1. current \notin SessionsOf(c) /\ ToPlace(c) = 0 /\ ToPlace(c)' = 0
      BY <1>2, <1>4, <2>1 DEF SessionsOf, ToPlace
    <3>2. MeetingsOf(c)' = MeetingsOf(c)
      BY <1>1, <1>3, <2>1 DEF MeetingsOf
    <3> QED BY <1>4, <1>5, <3>1, <3>2 DEF Balanced
  <2>2. CASE c = s.course
    <3>1. ToPlace(c) = sessionsToPlace /\ ToPlace(c)' = sessionsToPlace - 1
      BY <1>2, <1>4, <2>2 DEF SessionsOf, ToPlace
    <3>2. MeetingsOf(c)' = MeetingsOf(c) \union {n} /\ n \notin MeetingsOf(c)
      BY <1>1, <1>3, <2>2 DEF MeetingsOf
    <3>3. Cardinality(MeetingsOf(c))' = Cardinality(MeetingsOf(c)) + 1
      BY <3>2, CountsFinite, FS_AddElement
    <3>4. /\ Number(Begun(c))' = Number(Begun(c))
          /\ Number(Begun(c) \ Lost(c))' = Number(Begun(c) \ Lost(c))
          /\ Cardinality(Reports(c))' = Cardinality(Reports(c))
      BY <1>4, <1>5
    <3>5. /\ Number(Begun(c)) \in Nat /\ Number(Begun(c) \ Lost(c)) \in Nat
          /\ Cardinality(MeetingsOf(c)) \in Nat /\ Cardinality(Reports(c)) \in Nat
      BY CountsFinite
    <3>6. Balanced(c)
      OBVIOUS
    <3> QED BY <1>2, <3>1, <3>3, <3>4, <3>5, <3>6 DEF Balanced
  <2> QED BY <2>1, <2>2
<1> QED BY <1>6, <1>7

\* A session that fails gives up at least the meeting that was tried.
LEMMA FailSessionAccount ==
  ASSUME AccountInv, FailSession
  PROVE  InTurn' /\ \A c \in input.courses : Balanced(c)'
<1> DEFINE s == input.sessions[current]
           n == Len(failed) + 1
<1> USE DEF AccountInv
<1>1. /\ current \in Sessions /\ sessionsToPlace \in Nat /\ sessionsToPlace > 0
      /\ failed' = Append(failed, current) /\ sessionsToPlace' = 0
      /\ input' = input /\ coursesLeft' = coursesLeft /\ sessionsLeft' = sessionsLeft
      /\ current' = current /\ scheduled' = scheduled /\ Sessions' = Sessions
  BY DEF FailSession, MeetingsLeft, TypeOK, Sessions
<1>2. ~Failed(current) /\ sessionsToPlace <= s.number /\ current \in Begun(s.course)
  BY <1>1 DEF InTurn
<1>3. /\ DOMAIN failed' = DOMAIN failed \union {n} /\ n \notin DOMAIN failed
      /\ \A k \in DOMAIN failed : failed'[k] = failed[k]
      /\ failed'[n] = current
  BY <1>1, AppendFacts DEF TypeOK
<1>4. \A i : Failed(i)' <=> Failed(i) \/ i = current
  BY <1>3 DEF Failed
<1>5. \A d : /\ SessionsOf(d)' = SessionsOf(d) /\ Begun(d)' = Begun(d)
             /\ MeetingsOf(d)' = MeetingsOf(d)
  BY <1>1 DEF SessionsOf, Begun, MeetingsOf
<1>6. \A S : Number(S)' = Number(S)
  BY <1>1 DEF Number, Asked
<1>7. InTurn'
  <2>1. \A i \in Sessions : i = current \/ Failed(i)' => i \in Begun(input.sessions[i].course)'
    BY <1>1, <1>4 DEF InTurn, Begun, SessionsOf
  <2> QED BY <1>1, <2>1 DEF InTurn
<1>8. ASSUME NEW c \in input.courses PROVE Balanced(c)'
  <2>1. CASE c # s.course
    <3>1. current \notin SessionsOf(c) /\ ToPlace(c) = 0 /\ ToPlace(c)' = 0
      BY <1>1, <1>5, <2>1 DEF SessionsOf, ToPlace
    <3>2. Lost(c)' = Lost(c)
      BY <1>4, <1>5, <3>1 DEF Lost
    <3>3. Reports(c)' = Reports(c)
      BY <1>3, <3>1, <3>2 DEF Reports, Lost
    <3> QED BY <1>5, <1>6, <3>1, <3>2, <3>3 DEF Balanced
  <2>2. CASE c = s.course
    <3>1. /\ current \in SessionsOf(c) /\ current \in Begun(c) /\ current \notin Lost(c)
          /\ ToPlace(c) = sessionsToPlace /\ ToPlace(c)' = 0
      BY <1>1, <1>2, <1>5, <2>2 DEF SessionsOf, ToPlace, Lost
    <3>2. Lost(c)' = Lost(c) \union {current}
      BY <1>4, <1>5, <3>1 DEF Lost
    <3>3. Reports(c)' = Reports(c) \union {n} /\ n \notin Reports(c)
      <4>1. \A k \in DOMAIN failed : failed[k] # current
        BY <1>2 DEF Failed
      <4> QED BY <1>3, <3>2, <4>1 DEF Reports
    <3>4. Cardinality(Reports(c))' = Cardinality(Reports(c)) + 1
      BY <3>3, CountsFinite, FS_AddElement
    <3> DEFINE rest == Begun(c) \ (Lost(c) \union {current})
    <3>5. Begun(c) \ Lost(c) = rest \union {current} /\ rest \in SUBSET Sessions
      BY <3>1, CountsFinite
    <3>6. Number(rest \union {current}) = Number(rest) + s.number
      BY <1>1, <3>5, NumberAdds DEF TypeOK
    <3>7. /\ Number(Begun(c))' = Number(Begun(c))
          /\ Number(Begun(c) \ Lost(c))' = Number(rest)
          /\ Cardinality(MeetingsOf(c))' = Cardinality(MeetingsOf(c))
      BY <1>5, <1>6, <3>2
    <3>8. /\ Number(Begun(c)) \in Nat /\ Number(rest) \in Nat /\ s.number \in Nat
          /\ Cardinality(MeetingsOf(c)) \in Nat /\ Cardinality(Reports(c)) \in Nat
      BY <1>1, <3>5, CountsFinite, AskedFinite, InputType DEF TypeOK, CourseSession
    <3>9. Balanced(c)
      OBVIOUS
    <3>10. Number(Begun(c) \ Lost(c)) = Number(rest) + s.number
      BY <3>5, <3>6
    <3> HIDE DEF rest
    <3> QED BY <1>1, <1>2, <3>1, <3>4, <3>7, <3>8, <3>9, <3>10 DEF Balanced
  <2> QED BY <2>1, <2>2
<1> QED BY <1>7, <1>8

LEMMA NextAccount ==
  ASSUME AccountInv, [Next]_vars
  PROVE  AccountInv'
<1>1. TypeOK'
  BY NextTypeOK DEF AccountInv
<1>2. CASE UNCHANGED vars
  <2>1. \A d : /\ SessionsOf(d)' = SessionsOf(d) /\ Begun(d)' = Begun(d)
               /\ MeetingsOf(d)' = MeetingsOf(d) /\ Lost(d)' = Lost(d)
               /\ Reports(d)' = Reports(d) /\ ToPlace(d)' = ToPlace(d)
    BY <1>2 DEF SessionsOf, Sessions, Begun, MeetingsOf, Lost, Reports, Failed, ToPlace, vars
  <2>2. \A S : Number(S)' = Number(S)
    BY <1>2 DEF Number, Asked, vars
  <2>3. \A c : Balanced(c)' <=> Balanced(c)
    BY <2>1, <2>2 DEF Balanced
  <2>4. InTurn'
    BY <1>2, <2>1 DEF AccountInv, InTurn, Failed, Sessions, Begun, SessionsOf, vars
  <2> QED BY <1>1, <1>2, <2>3, <2>4 DEF AccountInv, vars
<1>3. CASE Next
  <2>1. input' = input
    BY <1>3 DEF Next, NextCourse, NextSession, PlaceOne, FailSession
  <2>2. InTurn' /\ \A c \in input.courses : Balanced(c)'
    BY <1>3, NextCourseAccount, NextSessionAccount, PlaceOneAccount, FailSessionAccount
    DEF Next
  <2> QED BY <1>1, <2>1, <2>2 DEF AccountInv
<1> QED BY <1>2, <1>3

\* When Generate returns, the sessions that are not reported as failed have
\* all their meetings, and a session reported as failed, once, misses one at
\* least (greedy.go, the loop over a session's meetings and its failure).
THEOREM EverySessionIsAccounted == Spec => []EverySessionAccounted
<1>1. AccountInv => EverySessionAccounted
  <2> SUFFICES ASSUME AccountInv, Returned, NEW c \in input.courses
               PROVE  LET lost == {i \in SessionsOf(c) : Failed(i)} IN
                      /\ Cardinality(MeetingsOf(c)) >= Number(SessionsOf(c) \ lost)
                      /\ Cardinality(MeetingsOf(c))
                           + Cardinality({k \in DOMAIN failed : failed[k] \in lost})
                           <= Number(SessionsOf(c))
    BY DEF EverySessionAccounted
  <2>1. Begun(c) = SessionsOf(c)
    BY DEF Begun, Returned
  <2>2. ToPlace(c) = 0
    BY DEF ToPlace, Returned, MeetingsLeft, AccountInv, TypeOK
  <2>3. Balanced(c) /\ TypeOK
    BY DEF AccountInv
  <2>4. /\ Cardinality(MeetingsOf(c)) >= Number(SessionsOf(c) \ Lost(c))
        /\ Cardinality(MeetingsOf(c)) + Cardinality(Reports(c)) <= Number(SessionsOf(c))
    BY <2>1, <2>2, <2>3, CountsFinite DEF Balanced
  <2> QED BY <2>4 DEF Lost, Reports
<1> QED BY <1>1, InitAccount, NextAccount, PTL DEF Spec

-----------------------------------------------------------------------------
(***************************************************************************)
(* The days of a course                                                    *)
(***************************************************************************)

\* courseDaysUsed has one entry for every placed meeting of the course.
DaysListed ==
  \A c \in CourseIds :
    /\ Len(courseDaysUsed[c]) = Cardinality(MeetingsOf(c))
    /\ \A k \in MeetingsOf(c) :
         \E i \in DOMAIN courseDaysUsed[c] : courseDaysUsed[c][i] = scheduled[k].day

SpreadInv == AccountInv /\ ListedOnly /\ DaysListed /\ SpreadOverDays

LEMMA InitSpread == Init => DaysListed /\ SpreadOverDays
<1> SUFFICES ASSUME Init PROVE DaysListed /\ SpreadOverDays
  OBVIOUS
<1>1. \A c : MeetingsOf(c) = {}
  BY DEF Init, MeetingsOf
<1>2. \A c \in CourseIds : courseDaysUsed[c] = <<>>
  BY DEF Init
<1> QED BY <1>1, <1>2, FS_EmptySet DEF DaysListed, SpreadOverDays

\* As long as a course has no more than five meetings, what is left of the
\* current session fits in the days it has not used, so those are skipped.
LEMMA UsedDaySkipped ==
  ASSUME SpreadInv, current \in Sessions, sessionsToPlace > 0,
         NEW c, c = input.sessions[current].course, Number(SessionsOf(c)) <= 5,
         NEW day, ~SkipDay(input.sessions[current], day),
         NEW k \in MeetingsOf(c)
  PROVE  scheduled[k].day # day
<1>1. c \in input.courses /\ c \in CourseIds /\ TypeOK
  BY InputType DEF SpreadInv, AccountInv, ListedOnly, TypeOK
<1>2. ToPlace(c) = sessionsToPlace /\ sessionsToPlace \in Nat
  BY <1>1 DEF ToPlace, SessionsOf, TypeOK
<1>3. Cardinality(MeetingsOf(c)) + sessionsToPlace + Cardinality(Reports(c)) <= Number(Begun(c))
  BY <1>1, <1>2 DEF SpreadInv, AccountInv, Balanced
<1>4. Number(Begun(c)) <= Number(SessionsOf(c)) /\ Number(SessionsOf(c)) \in Nat
  <2>1. SessionsOf(c) \in SUBSET Sessions /\ Begun(c) \in SUBSET SessionsOf(c)
    BY DEF SessionsOf, Begun
  <2> QED BY <1>1, <2>1, NumberGrows, AskedFinite DEF TypeOK
<1>5. /\ Cardinality(MeetingsOf(c)) \in Nat /\ Cardinality(Reports(c)) \in Nat
      /\ Number(Begun(c)) \in Nat
  BY <1>1, CountsFinite
<1>6. Len(courseDaysUsed[c]) = Cardinality(MeetingsOf(c))
  BY <1>1 DEF SpreadInv, DaysListed
<1>7. sessionsToPlace <= 5 - Len(courseDaysUsed[c])
  BY <1>2, <1>3, <1>4, <1>5, <1>6
<1>8. ~ \E i \in DOMAIN courseDaysUsed[c] : courseDaysUsed[c][i] = day
  BY <1>7 DEF SkipDay
<1> QED BY <1>1, <1>8 DEF SpreadInv, DaysListed

LEMMA PlaceOneSpread ==
  ASSUME SpreadInv, PlaceOne
  PROVE  DaysListed' /\ SpreadOverDays'
<1> DEFINE s == input.sessions[current]
           n == Len(scheduled) + 1
<1>1. TypeOK /\ DaysListed /\ SpreadOverDays
  BY DEF SpreadInv, AccountInv
<1>2. PICK m \in ScheduledSession :
        /\ current \in Sessions /\ m.course = s.course /\ ~SkipDay(s, m.day)
        /\ m.day \in OperatingDays
        /\ scheduled' = Append(scheduled, m)
        /\ courseDaysUsed' = [courseDaysUsed EXCEPT ![s.course] = Append(@, m.day)]
  BY <1>1, PlaceOneEffect
<1>3. /\ DOMAIN scheduled' = DOMAIN scheduled \union {n} /\ n \notin DOMAIN scheduled
      /\ \A k \in DOMAIN scheduled : scheduled'[k] = scheduled[k]
      /\ scheduled'[n] = m
  BY <1>1, <1>2, AppendFacts DEF TypeOK
<1>4. /\ input' = input /\ \A d : SessionsOf(d)' = SessionsOf(d)
      /\ \A S : Number(S)' = Number(S)
  BY DEF PlaceOne, SessionsOf, Sessions, Number, Asked
<1>5. \A c : /\ c = s.course => MeetingsOf(c)' = MeetingsOf(c) \union {n}
             /\ c # s.course => MeetingsOf(c)' = MeetingsOf(c)
             /\ MeetingsOf(c) \subseteq DOMAIN scheduled
  BY <1>2, <1>3 DEF MeetingsOf
<1>6. ASSUME NEW c \in CourseIds
      PROVE  /\ Len(courseDaysUsed'[c]) = Cardinality(MeetingsOf(c)')
             /\ \A k \in MeetingsOf(c)' :
                  \E i \in DOMAIN courseDaysUsed'[c] : courseDaysUsed'[c][i] = scheduled'[k].day
  <2> DEFINE used == courseDaysUsed[c]
  <2>1. used \in Seq(OperatingDays) /\ Len(used) = Cardinality(MeetingsOf(c))
    BY <1>1 DEF TypeOK, DaysListed
  <2>2. \A k \in MeetingsOf(c) : \E i \in DOMAIN used : used[i] = scheduled[k].day
    BY <1>1 DEF DaysListed
  <2>3. CASE c # s.course
    <3>1. courseDaysUsed'[c] = used
      BY <1>1, <1>2, <2>3 DEF TypeOK
    <3> QED BY <1>3, <1>5, <2>1, <2>2, <2>3, <3>1
  <2>4. CASE c = s.course
    <3>1. courseDaysUsed'[c] = Append(used, m.day)
      BY <1>1, <1>2, <2>4 DEF TypeOK
    <3> HIDE DEF used
    <3>2. /\ Len(Append(used, m.day)) = Len(used) + 1
          /\ DOMAIN Append(used, m.day) = DOMAIN used \union {Len(used) + 1}
          /\ \A i \in DOMAIN used : Append(used, m.day)[i] = used[i]
          /\ Append(used, m.day)[Len(used) + 1] = m.day
      BY <1>2, <2>1, AppendFacts
    <3>3. Cardinality(MeetingsOf(c)') = Cardinality(MeetingsOf(c)) + 1
      BY <1>1, <1>3, <1>5, <2>4, CountsFinite, FS_AddElement
    <3> QED BY <1>3, <1>5, <2>1, <2>2, <2>4, <3>1, <3>2, <3>3
  <2> QED BY <2>3, <2>4
<1>7. DaysListed'
  BY <1>6 DEF DaysListed
<1>8. ASSUME NEW c \in input.courses, Number(SessionsOf(c)) <= 5,
             NEW i \in MeetingsOf(c)', NEW j \in MeetingsOf(c)', i # j
      PROVE  scheduled'[i].day # scheduled'[j].day
  <2>1. ASSUME i \in MeetingsOf(c), j \in MeetingsOf(c)
        PROVE  scheduled'[i].day # scheduled'[j].day
    BY <1>1, <1>3, <1>5, <1>8, <2>1 DEF SpreadOverDays
  <2>2. ASSUME c = s.course, NEW k \in MeetingsOf(c)
        PROVE  scheduled'[k].day # scheduled'[n].day
    <3>1. sessionsToPlace > 0
      BY DEF PlaceOne, MeetingsLeft
    <3>2. scheduled[k].day # m.day
      BY <1>2, <1>8, <2>2, <3>1, UsedDaySkipped
    <3> QED BY <1>3, <1>5, <3>2
  <2> QED BY <1>5, <1>8, <2>1, <2>2
<1>9. SpreadOverDays'
  BY <1>4, <1>8 DEF SpreadOverDays
<1> QED BY <1>7, <1>9

LEMMA NextSpread ==
  ASSUME SpreadInv, ListedOnly', [Next]_vars
  PROVE  SpreadInv'
<1>1. AccountInv'
  BY NextAccount DEF SpreadInv
<1>2. CASE PlaceOne
  BY <1>1, <1>2, PlaceOneSpread DEF SpreadInv
<1>3. ASSUME UNCHANGED <<input, scheduled, courseDaysUsed>>
      PROVE  DaysListed' /\ SpreadOverDays'
  <2>1. \A c : MeetingsOf(c)' = MeetingsOf(c) /\ SessionsOf(c)' = SessionsOf(c)
    BY <1>3 DEF MeetingsOf, SessionsOf, Sessions
  <2>2. \A S : Number(S)' = Number(S)
    BY <1>3 DEF Number, Asked
  <2>3. DaysListed'
    BY <1>3, <2>1 DEF SpreadInv, DaysListed
  <2>4. SpreadOverDays'
    BY <1>3, <2>1, <2>2 DEF SpreadInv, SpreadOverDays
  <2> QED BY <2>3, <2>4
<1> QED BY <1>1, <1>2, <1>3 DEF SpreadInv, Next, NextCourse, NextSession, FailSession, vars

\* A course of at most five meetings has them on different days (greedy.go:66,
\* the days skipped while the rest of the session still fits in a week).
THEOREM SpreadOverDaysHolds == Spec => []SpreadOverDays
<1>1. Init => LegalInv /\ SpreadInv
  BY InitLegal, InitAccount, InitSpread DEF SpreadInv, LegalInv
<1>2. LegalInv /\ SpreadInv /\ [Next]_vars => LegalInv' /\ SpreadInv'
  BY NextLegal, NextSpread DEF LegalInv
<1>3. SpreadInv => SpreadOverDays
  BY DEF SpreadInv
<1> QED BY <1>1, <1>2, <1>3, PTL DEF Spec
=============================================================================

--------------------------- MODULE CorrelatorProofs ---------------------------
(* Proofs about Correlator, for any goroutines, tests, races and number of
   transitions: what lanes, zones and groups show of a trace and its races. *)
EXTENDS Correlator, FiniteSetTheorems, SequenceTheorems, WellFoundedInduction, TLAPS

(* The goroutines that get a lane. *)
Relevant == IF bounds.trace THEN RelevantGoroutines ELSE AllRacing

(* The recorded transitions of a goroutine are in the order of time, within the
   bounds of the trace, which are 0 when there are none. *)
TraceInv ==
  /\ \A g \in Gid : \A i \in DOMAIN evs[g] :
       /\ minTime <= evs[g][i].time /\ evs[g][i].time <= maxTime
       /\ \A j \in DOMAIN evs[g] : i < j => evs[g][i].time < evs[g][j].time
  /\ minTime <= maxTime
  /\ maxTime = 0 => InTrace = {}
  /\ maxTime # 0 => traced /\ 0 < minTime

BoundsInv ==
  pc # "record" =>
    bounds = IF maxTime # 0 THEN [min |-> minTime, max |-> maxTime, trace |-> TRUE]
             ELSE [min |-> 0, max |-> SyntheticDuration, trace |-> FALSE]

LanesAreOfTrace == \A i \in DOMAIN lanes : lanes[i].segments = SegmentsOf(lanes[i].id)

LanesListRaces == \A i \in DOMAIN lanes : lanes[i].collisions = CollisionIDs(lanes[i].id, zones)

ZonesAreOfRaces == zones = [i \in DOMAIN races |-> ZoneOf(races[i])]

(* There is a lane for each relevant goroutine that was taken from todo, in the
   order of the numbers once they are sorted. *)
LanesInv ==
  /\ pc = "record" => lanes = <<>> /\ zones = <<>> /\ groups = <<>>
  /\ pc # "record" => {lanes[i].id : i \in DOMAIN lanes} = Relevant \ todo
  /\ pc # "record" => todo \subseteq Relevant
  /\ LanesAreOfTrace
  /\ pc \in {"zones", "groups", "done"} => todo = {} /\ SortedByID(lanes)

ZonesInv == pc \in {"groups", "done"} => ZonesAreOfRaces /\ LanesListRaces

(* A group for each name, in the order of the names. *)
GroupsInv ==
  pc = "done" =>
    \E order \in Listings(Names) :
      /\ SortedNames(order)
      /\ DOMAIN groups = DOMAIN order
      /\ \A i \in DOMAIN order : groups[i] \in GroupsOf(order[i])

IInv == TypeOK /\ TraceInv /\ BoundsInv /\ LanesInv /\ ZonesInv /\ GroupsInv

------------------------------------------------------------------------------
(* Numbers, sets and lists. *)

LEMMA Least ==
  ASSUME NEW S \in SUBSET Nat, S # {}
  PROVE  \E m \in S : \A n \in S : m <= n
<1>1. PICK m \in S : \A n \in S : ~ (<<n, m>> \in OpToRel(<, Nat))
  BY NatLessThanWellFounded, WFMin
<1>2. ASSUME NEW n \in S PROVE m <= n
  <2>1. n \in Nat /\ m \in Nat
    OBVIOUS
  <2>2. ~(n < m)
    BY <1>1, <2>1 DEF OpToRel
  <2> QED BY <2>1, <2>2
<1> QED BY <1>2

LEMMA MinProperties ==
  ASSUME NEW S \in SUBSET Nat, S # {}
  PROVE  Min(S) \in S /\ \A n \in S : Min(S) <= n
BY Least DEF Min

LEMMA MaxProperties ==
  ASSUME NEW n \in Nat, NEW S \in SUBSET (1 .. n), S # {}
  PROVE  Max(S) \in S /\ \A m \in S : Max(S) >= m
<1> DEFINE T == {m \in Nat : m <= n /\ n - m \in S}
<1>1. PICK s \in S : TRUE
  OBVIOUS
<1>2. n - s \in Nat /\ n - s <= n /\ n - (n - s) = s
  BY <1>1
<1>3. n - s \in T
  BY <1>1, <1>2
<1>4. PICK m \in T : \A k \in T : m <= k
  BY <1>3, Least
<1>5. n - m \in S /\ m \in Nat
  BY <1>4
<1>6. ASSUME NEW k \in S PROVE n - m >= k
  <2>1. k \in 1 .. n
    OBVIOUS
  <2>2. n - k \in Nat /\ n - k <= n /\ n - (n - k) = k
    BY <2>1
  <2>3. n - k \in T
    BY <2>2
  <2>4. m <= n - k
    BY <1>4, <2>3
  <2> HIDE DEF T
  <2> QED BY <2>4, <1>5, <2>1
<1>7. \E x \in S : \A y \in S : x >= y
  BY <1>5, <1>6
<1> QED BY <1>7 DEF Max

LEMMA RangeProperties ==
  ASSUME NEW f, NEW x
  PROVE  x \in Range(f) <=> \E i \in DOMAIN f : f[i] = x
BY DEF Range

LEMMA FiniteRange ==
  ASSUME NEW D, NEW T, NEW f \in [D -> T], IsFiniteSet(D)
  PROVE  IsFiniteSet(Range(f))
<1>1. f \in [D -> Range(f)]
  BY DEF Range
<1>2. \A y \in Range(f) : \E x \in D : f[x] = y
  BY DEF Range
<1>3. f \in Surjection(D, Range(f))
  BY <1>1, <1>2 DEF Surjection
<1> QED BY <1>3, FS_Surjection

LEMMA FiniteSeqRange ==
  ASSUME NEW S, NEW s \in Seq(S)
  PROVE  IsFiniteSet(Range(s))
<1>1. s \in [1 .. Len(s) -> S] /\ Len(s) \in Nat
  BY LenProperties, SeqDef
<1>2. IsFiniteSet(1 .. Len(s))
  BY <1>1, FS_Interval
<1> QED BY <1>1, <1>2, FiniteRange

LEMMA ListingProperties ==
  ASSUME NEW S, IsFiniteSet(S), NEW s \in Listings(S)
  PROVE  /\ s \in Seq(S) /\ DOMAIN s = 1 .. Len(s) /\ Len(s) \in Nat
         /\ \A x : x \in S <=> \E i \in DOMAIN s : s[i] = x
<1> DEFINE n == Cardinality(S)
<1>1. n \in Nat
  BY FS_CardinalityType
<1> HIDE DEF n
<1>2. s \in [1 .. n -> S] /\ Range(s) = S
  BY DEF Listings, n
<1>3. s \in Seq(S)
  BY <1>1, <1>2, IsASeq
<1>4. DOMAIN s = 1 .. Len(s) /\ Len(s) \in Nat
  BY <1>3, LenProperties
<1>5. \A x : x \in S <=> \E i \in DOMAIN s : s[i] = x
  BY <1>2, RangeProperties
<1> QED BY <1>3, <1>4, <1>5

(* A list sorted by a strict order has nothing twice. *)
LEMMA NamesDiffer ==
  ASSUME NEW s, NEW n \in Nat, DOMAIN s = 1 .. n, SortedNames(s)
  PROVE  /\ \A i, j \in DOMAIN s : s[i] = s[j] => i = j
         /\ \A i \in DOMAIN s : s[i] = "other" => i = n
<1>1. \A t : ~NameLess(t, t)
  <2>1. ASSUME NEW t, NameLess(t, t) PROVE FALSE
    <3>1. PICK i, j \in DOMAIN Tests : i < j /\ Tests[i] = t /\ Tests[j] = t
      BY <2>1 DEF NameLess
    <3>2. i = j
      BY <3>1, CorrelatorAssumption DEF CorrelatorAssumption
    <3>3. Tests \in Seq(STRING)
      BY CorrelatorAssumption DEF CorrelatorAssumption
    <3>4. DOMAIN Tests = 1 .. Len(Tests) /\ Len(Tests) \in Nat
      BY <3>3, LenProperties
    <3>5. i \in Nat /\ j \in Nat
      BY <3>4
    <3> QED BY <3>1, <3>2, <3>5
  <2> QED BY <2>1
<1>2. ASSUME NEW i \in DOMAIN s, NEW j \in DOMAIN s, s[i] = s[j] PROVE i = j
  <2>1. i \in Nat /\ j \in Nat
    OBVIOUS
  <2>2. ~(i < j) /\ ~(j < i)
    BY <1>1, <1>2 DEF SortedNames
  <2> QED BY <2>1, <2>2
<1>3. ASSUME NEW i \in DOMAIN s, s[i] = "other" PROVE i = n
  <2>1. ASSUME i # n PROVE FALSE
    <3>1. i + 1 \in DOMAIN s /\ i < i + 1
      BY <2>1
    <3>2. NameLess(s[i], s[i + 1])
      BY <3>1 DEF SortedNames
    <3> QED BY <3>2, <1>3 DEF NameLess
  <2> QED BY <2>1
<1> QED BY <1>2, <1>3

------------------------------------------------------------------------------
(* The trace. *)

(* The i-th of the transitions es is the last one at time t. *)
Current(es, i, t) == es[i].time <= t /\ (i < Len(es) => t < es[i + 1].time)

(* Transitions in the order of their times. *)
Ordered(es) ==
  /\ Len(es) \in Nat /\ DOMAIN es = 1 .. Len(es)
  /\ \A i \in 1 .. Len(es) : /\ es[i] \in Event /\ es[i].time \in Nat
                             /\ minTime <= es[i].time /\ es[i].time <= maxTime
  /\ \A i, j \in 1 .. Len(es) : i < j => es[i].time < es[j].time

LEMMA TimeIsNat ==
  /\ Time \subseteq Nat /\ 0 \in Time /\ SyntheticDuration = 20
  /\ Unit * MaxEvents \in Nat
  /\ \A t \in 0 .. 20 : t \in Time
  /\ \A t \in 0 .. Unit * MaxEvents : t \in Nat /\ t \in Time
  /\ \A s, t \in 0 .. Unit * MaxEvents : s + t \in Time
<1>1. MaxEvents \in Nat
  BY CorrelatorAssumption DEF CorrelatorAssumption
<1>2. 20 * MaxEvents \in Nat /\ 20 * (2 * MaxEvents + 2) = 2 * (20 * MaxEvents) + 40
  BY <1>1
<1>3. Time = 0 .. 2 * (20 * MaxEvents) + 40 /\ Unit = 20 /\ SyntheticDuration = 20
  BY <1>2 DEF Time, Unit, SyntheticDuration
<1> DEFINE n == 20 * MaxEvents
<1> HIDE DEF n
<1>4. n \in Nat /\ Time = 0 .. 2 * n + 40 /\ Unit * MaxEvents = n /\ SyntheticDuration = 20
  BY <1>2, <1>3 DEF n
<1>5. \A t \in 0 .. 2 * n + 40 : t \in Nat
  OBVIOUS
<1>6. \A t \in 0 .. 20 : t \in 0 .. 2 * n + 40
  BY ONLY <1>4
<1>7. \A t \in 0 .. n : t \in Nat /\ t \in 0 .. 2 * n + 40
  BY ONLY <1>4
<1>8. \A s, t \in 0 .. n : s + t \in 0 .. 2 * n + 40
  BY ONLY <1>4
<1>9. Time \subseteq Nat /\ 0 \in Time
  BY <1>4, <1>5, <1>6
<1> QED BY <1>4, <1>6, <1>7, <1>8, <1>9

LEMMA TraceTimes ==
  ASSUME TypeOK
  PROVE  minTime \in Nat /\ maxTime \in Nat /\ minTime \in Time /\ maxTime \in Time
BY TimeIsNat DEF TypeOK

LEMMA EventsOrdered ==
  ASSUME TypeOK, TraceInv, NEW g \in Gid
  PROVE  Ordered(evs[g]) /\ (g \in InTrace <=> 1 \in DOMAIN evs[g])
<1> DEFINE es == evs[g]
<1>1. es \in Seq(Event)
  BY DEF TypeOK
<1>2. Len(es) \in Nat /\ DOMAIN es = 1 .. Len(es) /\ \A i \in 1 .. Len(es) : es[i] \in Event
  BY <1>1, LenProperties, ElementOfSeq
<1>3. \A i \in 1 .. Len(es) : es[i].time \in Nat
  BY <1>2, TimeIsNat DEF Event
<1>4. \A i \in 1 .. Len(es) : minTime <= es[i].time /\ es[i].time <= maxTime
  BY <1>2 DEF TraceInv
<1>5. \A i, j \in 1 .. Len(es) : i < j => es[i].time < es[j].time
  BY <1>2 DEF TraceInv
<1>6. es # <<>> <=> 1 \in DOMAIN es
  BY <1>1, <1>2, EmptySeq
<1>7. g \in InTrace <=> es # <<>>
  BY DEF InTrace
<1> QED BY <1>2, <1>3, <1>4, <1>5, <1>6, <1>7 DEF Ordered

(* The state at a time is that after the last transition, or that before all. *)
LEMMA StateAtProperties ==
  ASSUME NEW g, Ordered(evs[g]), 1 \in DOMAIN evs[g], NEW t \in Nat
  PROVE  /\ t < evs[g][1].time => StateAt(g, t) = evs[g][1].from
         /\ \A i \in DOMAIN evs[g] : Current(evs[g], i, t) => StateAt(g, t) = evs[g][i].to
         /\ evs[g][1].time <= t => \E i \in DOMAIN evs[g] : Current(evs[g], i, t)
<1> DEFINE es   == evs[g]
           n    == Len(es)
           past == {i \in DOMAIN es : es[i].time <= t}
<1>1. /\ n \in Nat /\ DOMAIN es = 1 .. n /\ 1 \in 1 .. n
      /\ \A i \in 1 .. n : es[i].time \in Nat
      /\ \A i, j \in 1 .. n : i < j => es[i].time < es[j].time
  BY DEF Ordered
<1>2. StateAt(g, t) = IF past = {} THEN es[1].from ELSE es[Max(past)].to
  BY DEF StateAt
<1>3. \A i \in 1 .. n : Current(es, i, t) <=> es[i].time <= t /\ (i < n => t < es[i + 1].time)
  BY DEF Current
<1>4. past \in SUBSET (1 .. n) /\ \A i \in 1 .. n : i \in past <=> es[i].time <= t
  BY <1>1
<1> HIDE DEF n, es, past
<1>5. ASSUME t < es[1].time PROVE past = {}
  <2>1. ASSUME NEW i \in 1 .. n, es[i].time <= t PROVE FALSE
    <3>1. es[1].time <= es[i].time
      BY <1>1
    <3> QED BY <3>1, <2>1, <1>5, <1>1
  <2> QED BY <2>1, <1>4
<1>6. ASSUME past # {}
      PROVE  Max(past) \in 1 .. n /\ Current(es, Max(past), t) /\ \A k \in past : k <= Max(past)
  <2> DEFINE m == Max(past)
  <2>1. m \in past /\ \A k \in past : m >= k
    BY <1>6, <1>4, <1>1, MaxProperties
  <2> HIDE DEF m
  <2>2. m \in 1 .. n /\ es[m].time <= t
    BY <2>1, <1>4
  <2>3. ASSUME m < n PROVE t < es[m + 1].time
    <3>1. m + 1 \in 1 .. n /\ m + 1 \notin past
      BY <2>1, <2>2, <2>3, <1>1
    <3>2. ~(es[m + 1].time <= t) /\ es[m + 1].time \in Nat
      BY <3>1, <1>4, <1>1
    <3> QED BY <3>2
  <2>4. \A k \in past : k <= m
    BY <2>1, <2>2, <1>4
  <2> QED BY <2>2, <2>3, <2>4, <1>3 DEF m
<1>7. ASSUME NEW i \in 1 .. n, Current(es, i, t) PROVE StateAt(g, t) = es[i].to
  <2> DEFINE m == Max(past)
  <2>1. i \in past
    BY <1>3, <1>4, <1>7
  <2>2. m \in 1 .. n /\ es[m].time <= t /\ i <= m
    BY <1>6, <1>3, <2>1
  <2> HIDE DEF m
  <2>3. ASSUME i < m PROVE FALSE
    <3>1. i + 1 \in 1 .. n /\ t < es[i + 1].time
      BY <2>2, <2>3, <1>3, <1>7, <1>1
    <3>2. es[i + 1].time <= es[m].time
      BY <3>1, <2>2, <2>3, <1>1
    <3> QED BY <3>1, <3>2, <2>2, <1>1
  <2>4. i = m
    BY <2>2, <2>3
  <2> QED BY <2>1, <2>4, <1>2 DEF m
<1>8. ASSUME es[1].time <= t PROVE \E i \in 1 .. n : Current(es, i, t)
  <2>1. 1 \in past
    BY <1>8, <1>1, <1>4
  <2> QED BY <2>1, <1>6
<1>9. StateAt(g, t) = es[1].from \/ ~(t < es[1].time)
  BY <1>2, <1>5
<1> QED BY <1>1, <1>7, <1>8, <1>9 DEF es

LEMMA CurrentUnique ==
  ASSUME NEW es, Ordered(es), NEW t \in Nat, NEW i \in DOMAIN es, NEW j \in DOMAIN es,
         Current(es, i, t), Current(es, j, t)
  PROVE  i = j
<1>1. /\ Len(es) \in Nat /\ i \in 1 .. Len(es) /\ j \in 1 .. Len(es)
      /\ \A k \in 1 .. Len(es) : es[k].time \in Nat
      /\ \A k, l \in 1 .. Len(es) : k < l => es[k].time < es[l].time
  BY DEF Ordered
<1>2. ASSUME NEW k \in 1 .. Len(es), NEW l \in 1 .. Len(es), k < l,
             Current(es, k, t), Current(es, l, t)
      PROVE  FALSE
  <2>0. k < Len(es) /\ k + 1 \in 1 .. Len(es) /\ (k + 1 = l \/ k + 1 < l)
    BY <1>1, <1>2
  <2>1. t < es[k + 1].time /\ es[l].time <= t
    BY <2>0, <1>2 DEF Current
  <2>2. es[k + 1].time <= es[l].time
    BY <2>0, <1>1
  <2> QED BY <2>0, <2>1, <2>2, <1>1
<1>3. ~(i < j) /\ ~(j < i)
  BY <1>1, <1>2
<1> QED BY <1>1, <1>3

------------------------------------------------------------------------------
(* Lanes. *)

(* The number of segments before the first transition. *)
Older(es) == IF es # <<>> /\ es[1].from # "notexist" THEN 1 ELSE 0

SegmentAfter(es, i) ==
  [start |-> es[i].time, state |-> es[i].to,
   end   |-> IF i < Len(es) THEN es[i + 1].time ELSE bounds.max]

LEMMA SegmentsProperties ==
  ASSUME NEW es \in Seq(Event), bounds.min \in Time, bounds.max \in Time
  PROVE  /\ Segments(es) \in Seq(Segment)
         /\ Older(es) \in {0, 1} /\ Len(es) \in Nat /\ DOMAIN es = 1 .. Len(es)
         /\ DOMAIN Segments(es) = 1 .. Older(es) + Len(es)
         /\ Older(es) = 1 => Segments(es)[1] =
              [start |-> bounds.min, end |-> es[1].time, state |-> es[1].from]
         /\ \A i \in 1 .. Len(es) : Segments(es)[Older(es) + i] = SegmentAfter(es, i)
<1> DEFINE n     == Len(es)
           first == [start |-> bounds.min, end |-> es[1].time, state |-> es[1].from]
           o     == Older(es)
           a     == IF o = 1 THEN <<first>> ELSE <<>>
           b     == [i \in 1 .. n |-> SegmentAfter(es, i)]
<1>1. n \in Nat /\ DOMAIN es = 1 .. n /\ \A i \in 1 .. n : es[i] \in Event
  BY LenProperties, ElementOfSeq
<1>2. o \in {0, 1} /\ (o = 1 => 1 \in 1 .. n)
  <2>1. o = 1 => es # <<>>
    BY DEF Older
  <2>2. es # <<>> => n # 0
    BY EmptySeq
  <2> QED BY <1>1, <2>1, <2>2 DEF Older
<1>3. Segments(es) = a \o b
  <2>1. o = 1 <=> es # <<>> /\ es[1].from # "notexist"
    BY DEF Older
  <2>2. Segments(es) = (IF es # <<>> /\ es[1].from # "notexist" THEN <<first>> ELSE <<>>)
                       \o [i \in DOMAIN es |-> SegmentAfter(es, i)]
    BY Zenon DEF Segments, SegmentAfter
  <2>3. a = IF es # <<>> /\ es[1].from # "notexist" THEN <<first>> ELSE <<>>
    BY <2>1
  <2>4. b = [i \in DOMAIN es |-> SegmentAfter(es, i)]
    BY <1>1
  <2> QED BY <2>2, <2>3, <2>4
<1>4. ASSUME NEW i \in 1 .. n PROVE SegmentAfter(es, i) \in Segment
  <2>1. es[i] \in Event /\ (i < n => es[i + 1] \in Event)
    BY <1>1
  <2>2. es[i].time \in Time /\ es[i].to \in GoState /\ (i < n => es[i + 1].time \in Time)
    BY <2>1 DEF Event
  <2> QED BY <2>2 DEF SegmentAfter, Segment
<1>5. o = 1 => first \in Segment
  <2>1. o = 1 => es[1] \in Event
    BY <1>1, <1>2
  <2>2. o = 1 => es[1].time \in Time /\ es[1].from \in GoState
    BY <2>1 DEF Event
  <2> QED BY <2>2 DEF Segment
<1> HIDE DEF n, first, o
<1>6. a \in Seq(Segment) /\ Len(a) = o /\ (o = 1 => a[1] = first)
  <2>1. CASE o = 1
    <3>1. <<first>> \in Seq(Segment) /\ Len(<<first>>) = 1 /\ <<first>>[1] = first
      BY ONLY <1>5, <2>1
    <3> QED BY <3>1, <2>1
  <2>2. CASE o = 0
    <3>1. <<>> \in Seq(Segment) /\ Len(<<>>) = 0
      BY EmptySeq
    <3> QED BY <3>1, <2>2
  <2> QED BY <2>1, <2>2, <1>2
<1>7. b \in Seq(Segment) /\ Len(b) = n /\ \A i \in 1 .. n : b[i] = SegmentAfter(es, i)
  <2>1. b \in [1 .. n -> Segment]
    BY <1>4
  <2>2. b \in Seq(Segment)
    BY <2>1, <1>1, SeqDef
  <2>3. Len(b) \in Nat /\ DOMAIN b = 1 .. Len(b)
    BY <2>2, LenProperties
  <2>4. 1 .. Len(b) = 1 .. n
    BY <2>1, <2>3
  <2>5. Len(b) = n
    BY ONLY <2>3, <2>4, <1>1
  <2> QED BY <2>2, <2>5
<1> HIDE DEF a, b
<1>8. /\ a \o b \in Seq(Segment) /\ Len(a \o b) = Len(a) + Len(b)
      /\ \A k \in 1 .. Len(a) + Len(b) :
           (a \o b)[k] = IF k <= Len(a) THEN a[k] ELSE b[k - Len(a)]
  BY <1>6, <1>7, ConcatProperties
<1>9. DOMAIN (a \o b) = 1 .. o + n
  BY <1>8, <1>6, <1>7, LenProperties
<1>10. o = 1 => (a \o b)[1] = first
  <2>1. o = 1 => 1 \in 1 .. Len(a) + Len(b) /\ 1 <= Len(a)
    BY <1>6, <1>7, <1>1
  <2> QED BY <2>1, <1>8, <1>6
<1>11. ASSUME NEW i \in 1 .. n PROVE (a \o b)[o + i] = SegmentAfter(es, i)
  <2>1. o + i \in 1 .. o + n /\ ~(o + i <= o) /\ (o + i) - o = i
    BY <1>1, <1>2
  <2>2. (a \o b)[o + i] = b[(o + i) - o]
    BY <2>1, <1>6, <1>7, <1>8
  <2> QED BY <2>1, <2>2, <1>7
<1> QED BY <1>1, <1>2, <1>3, <1>8, <1>9, <1>10, <1>11 DEF n, o, first

(* The segments of a goroutine at a time are one, of the state that the trace
   says, but for a time before its birth. *)
LaneShows(g, t, segs) ==
  LET here == {k \in DOMAIN segs : segs[k].start <= t /\ t < segs[k].end}
  IN  IF StateAt(g, t) = "notexist" /\ here = {} THEN t < segs[1].start
      ELSE \E k \in here : here = {k} /\ segs[k].state = StateAt(g, t)

LEMMA SegmentsShow ==
  ASSUME NEW g, evs[g] \in Seq(Event), Ordered(evs[g]), 1 \in DOMAIN evs[g],
         bounds.min \in Time, bounds.max \in Time,
         NEW t \in Nat, bounds.min <= t, t < bounds.max
  PROVE  LaneShows(g, t, Segments(evs[g]))
<1> DEFINE es   == evs[g]
           n    == Len(es)
           o    == Older(es)
           segs == Segments(es)
           Here(k) == segs[k].start <= t /\ t < segs[k].end
           here == {k \in DOMAIN segs : Here(k)}
<1>1. /\ n \in Nat /\ DOMAIN es = 1 .. n /\ 1 \in 1 .. n
      /\ \A i \in 1 .. n : es[i].time \in Nat
      /\ \A i, j \in 1 .. n : i < j => es[i].time < es[j].time
  BY DEF Ordered
<1>2. /\ o \in {0, 1} /\ DOMAIN segs = 1 .. o + n
      /\ o = 1 => segs[1] = [start |-> bounds.min, end |-> es[1].time, state |-> es[1].from]
      /\ \A i \in 1 .. n : segs[o + i] = SegmentAfter(es, i)
  BY SegmentsProperties
<1>3. o = 0 => es[1].from = "notexist"
  <2>1. es # <<>>
    BY <1>1, EmptySeq
  <2> QED BY <2>1 DEF Older
<1>4. /\ t < es[1].time => StateAt(g, t) = es[1].from
      /\ \A i \in 1 .. n : Current(es, i, t) => StateAt(g, t) = es[i].to
      /\ es[1].time <= t => \E i \in 1 .. n : Current(es, i, t)
  BY <1>1, StateAtProperties
<1>5. \A i, j \in 1 .. n : Current(es, i, t) /\ Current(es, j, t) => i = j
  BY <1>1, CurrentUnique
<1>6. \A i \in 1 .. n : Current(es, i, t) <=> es[i].time <= t /\ (i < n => t < es[i + 1].time)
  BY DEF Current
<1>7. /\ StateAt(g, t) = "notexist" /\ here = {} /\ t < segs[1].start => LaneShows(g, t, segs)
      /\ \A k : here = {k} /\ segs[k].state = StateAt(g, t) => LaneShows(g, t, segs)
  <2>1. here = {} /\ StateAt(g, t) = "notexist" /\ t < segs[1].start => LaneShows(g, t, segs)
    BY DEF LaneShows
  <2>2. ASSUME NEW k, here = {k}, segs[k].state = StateAt(g, t) PROVE LaneShows(g, t, segs)
    <3>1. k \in here /\ ~(here = {})
      BY <2>2
    <3>2. \E j \in here : here = {j} /\ segs[j].state = StateAt(g, t)
      BY <3>1, <2>2
    <3> QED BY <3>1, <3>2 DEF LaneShows
  <2> QED BY <2>1, <2>2
<1> SUFFICES LaneShows(g, t, segs)
  OBVIOUS
<1> HIDE DEF es, n, o, segs
<1>8. ASSUME NEW i \in 1 .. n
      PROVE  /\ o + i \in DOMAIN segs /\ segs[o + i].state = es[i].to
             /\ segs[o + i].start = es[i].time
             /\ Here(o + i) <=> Current(es, i, t)
  <2>1. segs[o + i] = [start |-> es[i].time, state |-> es[i].to,
                       end |-> IF i < n THEN es[i + 1].time ELSE bounds.max]
    BY <1>2 DEF SegmentAfter, n
  <2>2. o + i \in DOMAIN segs
    BY <1>1, <1>2
  <2>3. bounds.max \in Nat
    BY TimeIsNat
  <2> QED BY <2>1, <2>2, <2>3, <1>6, <1>1
<1>9. ASSUME NEW k \in DOMAIN segs PROVE (\E i \in 1 .. n : k = o + i) \/ (o = 1 /\ k = 1)
  <2>1. (k - o \in 1 .. n /\ k = o + (k - o)) \/ (o = 1 /\ k = 1)
    BY <1>1, <1>2
  <2> QED BY <2>1
<1>10. o = 1 => (Here(1) <=> t < es[1].time) /\ 1 \in DOMAIN segs /\ segs[1].state = es[1].from
  BY <1>1, <1>2
<1>11. CASE es[1].time <= t
  <2>1. PICK i \in 1 .. n : Current(es, i, t)
    BY <1>4, <1>11
  <2>2. o + i \in here
    BY <2>1, <1>8
  <2>3. ASSUME NEW k \in DOMAIN segs, Here(k) PROVE k = o + i
    <3>1. ~(o = 1 /\ k = 1)
      BY <1>10, <1>11, <2>3, <1>1
    <3>2. PICK j \in 1 .. n : k = o + j
      BY <3>1, <1>9
    <3>3. Current(es, j, t)
      BY <3>2, <2>3, <1>8
    <3>4. i = j
      BY <3>3, <2>1, <1>5
    <3> QED BY <3>2, <3>4
  <2>4. here = {o + i}
    BY <2>2, <2>3
  <2>5. segs[o + i].state = StateAt(g, t)
    BY <2>1, <1>4, <1>8
  <2> HIDE DEF here
  <2> QED BY <2>4, <2>5, <1>7
<1>12. CASE t < es[1].time
  <2>1. ASSUME NEW i \in 1 .. n PROVE ~Here(o + i)
    <3>1. es[1].time <= es[i].time
      BY <1>1
    <3>2. ~Current(es, i, t)
      BY <3>1, <1>6, <1>12, <1>1
    <3> QED BY <3>2, <1>8
  <2>2. CASE o = 1
    <3>1. here = {1}
      BY <2>1, <2>2, <1>9, <1>10, <1>12
    <3>2. segs[1].state = StateAt(g, t)
      BY <2>2, <1>4, <1>10, <1>12
    <3> HIDE DEF here
    <3> QED BY <3>1, <3>2, <1>7
  <2>3. CASE o = 0
    <3>1. here = {}
      BY <2>1, <2>3, <1>9
    <3>2. segs[1].start = es[1].time
      BY <2>3, <1>1, <1>8
    <3>3. StateAt(g, t) = "notexist" /\ t < segs[1].start
      BY <3>2, <2>3, <1>3, <1>4, <1>12
    <3> HIDE DEF here
    <3> QED BY <3>1, <3>3, <1>7
  <2> QED BY <2>2, <2>3, <1>2
<1> QED BY <1>11, <1>12, <1>1

------------------------------------------------------------------------------
(* Collision zones. *)

(* Transition i begins the last period in which the goroutine was running. *)
LastRun(es, i) ==
  /\ i \in DOMAIN es /\ es[i].to = "running"
  /\ \A k \in DOMAIN es : es[k].to = "running" => k <= i

AfterEnd(es, i) == IF i < Len(es) THEN es[i + 1].time ELSE maxTime

LEMMA WindowProperties ==
  ASSUME TypeOK, TraceInv, NEW g \in Gid \cup {0}
  PROVE  LET w == BestRunningWindow(g)
         IN  /\ w[1] \in 0 .. Unit * MaxEvents /\ w[2] \in 0 .. Unit * MaxEvents
             /\ maxTime = 0 => w[1] = 0 /\ w[2] = 0
             /\ g \in Gid /\ Ran(g) =>
                  \E i \in DOMAIN evs[g] :
                    LastRun(evs[g], i) /\ w = <<evs[g][i].time, AfterEnd(evs[g], i)>>
<1> DEFINE w    == BestRunningWindow(g)
           es   == evs[g]
           runs == {i \in DOMAIN es : es[i].to = "running"}
           last == Max(runs)
           n    == Len(es)
<1>1. /\ minTime \in 0 .. Unit * MaxEvents /\ maxTime \in 0 .. Unit * MaxEvents
      /\ minTime <= maxTime
  BY DEF TypeOK, TraceInv
<1>2. CASE g \notin InTrace
  <2>1. w = <<minTime, maxTime>>
    BY <1>2 DEF BestRunningWindow
  <2>2. maxTime = 0 => minTime = 0
    BY <1>1, TraceTimes
  <2>3. ~(g \in Gid /\ Ran(g))
    <3>1. ASSUME g \in Gid, Ran(g) PROVE FALSE
      <4>1. Ordered(es) /\ 1 \notin DOMAIN es
        BY <3>1, <1>2, EventsOrdered
      <4>2. PICK i \in DOMAIN es : TRUE
        BY <3>1 DEF Ran
      <4>3. Len(es) \in Nat /\ i \in 1 .. Len(es) /\ 1 \notin 1 .. Len(es)
        BY <4>1, <4>2 DEF Ordered
      <4> QED BY <4>3
    <3> QED BY <3>1
  <2>4. w[1] = minTime /\ w[2] = maxTime
    BY <2>1
  <2> HIDE DEF w
  <2> QED BY <2>2, <2>3, <2>4, <1>1 DEF w
<1>3. CASE g \in InTrace
  <2>1. g \in Gid /\ Ordered(es) /\ 1 \in DOMAIN es
    BY <1>3, EventsOrdered DEF InTrace
  <2>2. /\ n \in Nat /\ DOMAIN es = 1 .. n /\ 1 \in 1 .. n
        /\ \A i \in 1 .. n : es[i].time \in Nat /\ es[i].time <= maxTime
    BY <2>1 DEF Ordered
  <2>3. w = IF runs = {} THEN <<es[1].time, es[n].time>> ELSE <<es[last].time, AfterEnd(es, last)>>
    BY <1>3 DEF BestRunningWindow, AfterEnd
  <2>4. runs \in SUBSET (1 .. n) /\ (Ran(g) => runs # {})
    BY <2>2 DEF Ran
  <2>5. \A i \in 1 .. n : /\ es[i].time \in 0 .. Unit * MaxEvents
                          /\ AfterEnd(es, i) \in 0 .. Unit * MaxEvents
    <3>0. Unit * MaxEvents \in Nat /\ maxTime \in Nat /\ maxTime <= Unit * MaxEvents
      BY <1>1, TimeIsNat
    <3> DEFINE m == Unit * MaxEvents
    <3> HIDE DEF m, es, n
    <3>1. \A i \in 1 .. n : es[i].time \in 0 .. m
      <4>1. m \in Nat /\ maxTime \in Nat /\ maxTime <= m
        BY <3>0 DEF m
      <4> QED BY ONLY <4>1, <2>2
    <3>2. \A i \in 1 .. n : AfterEnd(es, i) \in 0 .. Unit * MaxEvents
      BY <3>1, <2>2, <1>1 DEF AfterEnd, m, n
    <3> QED BY <3>1, <3>2 DEF m
  <2>6. maxTime # 0
    BY <1>3 DEF TraceInv
  <2>7. CASE runs = {}
    <3>1. w[1] = es[1].time /\ w[2] = es[n].time /\ 1 \in 1 .. n /\ n \in 1 .. n
      BY <2>2, <2>3, <2>7
    <3> HIDE DEF w, es, n, runs
    <3> QED BY <3>1, <2>4, <2>5, <2>6, <2>7 DEF w
  <2>8. CASE runs # {}
    <3>1. last \in runs /\ \A k \in runs : last >= k
      BY <2>2, <2>4, <2>8, MaxProperties
    <3>2. LastRun(es, last) /\ last \in 1 .. n /\ last \in DOMAIN es
      <4>1. last \in 1 .. n /\ last \in DOMAIN es /\ es[last].to = "running"
        BY <3>1, <2>2
      <4>2. \A k \in DOMAIN es : es[k].to = "running" => k <= last
        BY <3>1, <4>1, <2>2
      <4> QED BY <4>1, <4>2 DEF LastRun
    <3>3. w = <<es[last].time, AfterEnd(es, last)>>
      BY <2>3, <2>8
    <3>4. w[1] = es[last].time /\ w[2] = AfterEnd(es, last)
      BY <3>3
    <3> HIDE DEF w, es, n, runs, last
    <3> QED BY <3>2, <3>3, <3>4, <2>5, <2>6 DEF w, es
  <2> QED BY <2>7, <2>8
<1> QED BY <1>2, <1>3

LEMMA Twentieth ==
  ASSUME NEW d \in Nat
  PROVE  d \div 20 \in Nat /\ d \div 20 <= d
OBVIOUS

(* Where a zone begins and ends. *)
LEMMA ZoneProperties ==
  ASSUME TypeOK, TraceInv, BoundsInv, pc # "record", NEW race \in Race
  PROVE  LET A == BestRunningWindow(race.a)
             B == BestRunningWindow(race.b)
             z == ZoneOf(race)
         IN  /\ z \in Zone /\ z.a = race.a /\ z.b = race.b /\ z.race = race.id
             /\ bounds.trace =>
                  IF max64(A[1], B[1]) < min64(A[2], B[2])
                  THEN z.start = max64(A[1], B[1]) /\ z.end = min64(A[2], B[2])
                  ELSE z.start = B[1]
<1> DEFINE A        == BestRunningWindow(race.a)
           B        == BestRunningWindow(race.b)
           start    == max64(A[1], B[1])
           end      == min64(A[2], B[2])
           duration == bounds.max - bounds.min
           Window   == IF ~traced THEN <<duration \div 2 - duration \div 10,
                                        duration \div 2 + duration \div 10>>
                       ELSE IF start < end THEN <<start, end>>
                       ELSE <<B[1], B[1] + duration \div 20>>
           z        == ZoneOf(race)
<1>1. race.a \in Gid \cup {0} /\ race.b \in Gid \cup {0} /\ race.id \in Nat
  BY DEF Race
<1>2. z = [start |-> Window[1], end |-> Window[2],
           a |-> race.a, b |-> race.b, race |-> race.id]
  BY DEF ZoneOf
<1>3. /\ A[1] \in 0 .. Unit * MaxEvents /\ A[2] \in 0 .. Unit * MaxEvents
      /\ B[1] \in 0 .. Unit * MaxEvents /\ B[2] \in 0 .. Unit * MaxEvents
      /\ maxTime = 0 => B[1] = 0
  BY <1>1, WindowProperties
<1>4. start \in 0 .. Unit * MaxEvents /\ end \in 0 .. Unit * MaxEvents
  BY <1>3 DEF max64, min64
<1>5. /\ minTime \in 0 .. Unit * MaxEvents /\ maxTime \in 0 .. Unit * MaxEvents
      /\ minTime <= maxTime /\ traced \in BOOLEAN
      /\ maxTime # 0 => traced
  BY DEF TypeOK, TraceInv
<1>6. /\ maxTime # 0 => duration = maxTime - minTime
      /\ maxTime = 0 => duration = 20 /\ ~bounds.trace
  <2>1. maxTime # 0 => bounds.min = minTime /\ bounds.max = maxTime
    BY DEF BoundsInv
  <2>2. maxTime = 0 => bounds.min = 0 /\ bounds.max = 20 /\ ~bounds.trace
    BY TimeIsNat DEF BoundsInv
  <2> QED BY <2>1, <2>2
<1>7. maxTime # 0 => duration \in 0 .. Unit * MaxEvents
  <2>1. minTime \in Nat /\ maxTime \in Nat
    BY TraceTimes
  <2>2. Unit * MaxEvents \in Nat /\ maxTime <= Unit * MaxEvents
    BY <1>5, TimeIsNat
  <2> DEFINE m == Unit * MaxEvents
  <2> HIDE DEF m
  <2>3. ASSUME maxTime # 0 PROVE duration \in 0 .. m
    <3>1. duration = maxTime - minTime /\ minTime <= maxTime /\ m \in Nat /\ maxTime <= m
      BY <2>2, <2>3, <1>5, <1>6 DEF m
    <3> QED BY ONLY <3>1, <2>1
  <2> QED BY <2>3 DEF m
<1> HIDE DEF A, B, start, end, duration, z
<1>8. CASE ~traced
  <2>1. duration = 20 /\ ~bounds.trace
    BY <1>5, <1>6, <1>8
  <2>2. Window[1] = 8 /\ Window[2] = 12
    BY <1>8, <2>1
  <2>3. Window[1] \in Time /\ Window[2] \in Time
    BY <2>2, TimeIsNat
  <2> HIDE DEF Window
  <2> QED BY <1>1, <1>2, <2>1, <2>3 DEF Zone, z
<1>9. CASE traced /\ start < end
  <2>1. Window[1] = start /\ Window[2] = end
    BY <1>9
  <2>2. start \in Time /\ end \in Time
    BY <1>4, TimeIsNat
  <2> HIDE DEF Window
  <2>3. z \in Zone /\ z.start = start /\ z.end = end
    BY <1>1, <1>2, <2>1, <2>2 DEF Zone
  <2> QED BY <1>2, <1>9, <2>3 DEF A, B, start, end, z
<1>10. CASE traced /\ ~(start < end)
  <2>1. Window[1] = B[1] /\ Window[2] = B[1] + duration \div 20
    BY <1>10
  <2>2. B[1] \in Time
    BY <1>3, TimeIsNat
  <2>3. B[1] + duration \div 20 \in Time
    <3>1. CASE maxTime = 0
      <4>1. B[1] + duration \div 20 = 1
        BY <1>3, <1>6, <3>1
      <4> QED BY <4>1, TimeIsNat
    <3>2. CASE maxTime # 0
      <4>1. duration \in Nat /\ duration <= Unit * MaxEvents
        BY <1>7, <3>2, TimeIsNat
      <4>2. duration \div 20 \in Nat /\ duration \div 20 <= duration
        BY <4>1, Twentieth
      <4>3. Unit * MaxEvents \in Nat
        BY TimeIsNat
      <4>4. duration \div 20 \in 0 .. Unit * MaxEvents
        <5> DEFINE q == duration \div 20
                   m == Unit * MaxEvents
        <5> HIDE DEF q, m
        <5>1. q \in Nat /\ q <= duration /\ duration \in Nat /\ duration <= m /\ m \in Nat
          BY <4>1, <4>2, <4>3 DEF q, m
        <5>2. q \in 0 .. m
          BY ONLY <5>1
        <5> QED BY <5>2 DEF q, m
      <4> QED BY <4>4, <1>3, TimeIsNat
    <3> QED BY <3>1, <3>2
  <2> HIDE DEF Window
  <2>4. z \in Zone /\ z.start = B[1]
    BY <1>1, <1>2, <2>1, <2>2, <2>3 DEF Zone
  <2> QED BY <1>2, <1>10, <2>4 DEF A, B, start, end, z
<1> QED BY <1>8, <1>9, <1>10, <1>5

(* From the last transition to running to the next one a goroutine runs, and
   after the former it runs without interruption or not at all. *)
LEMMA LastRunProperties ==
  ASSUME NEW g, Ordered(evs[g]), NEW i, LastRun(evs[g], i), NEW t \in Nat,
         evs[g][i].time <= t
  PROVE  /\ t < AfterEnd(evs[g], i) => StateAt(g, t) = "running"
         /\ t = evs[g][i].time => StateAt(g, t) = "running"
         /\ StateAt(g, t) = "running" =>
              \A u \in Nat : evs[g][i].time <= u /\ u <= t => StateAt(g, u) = "running"
<1> DEFINE es == evs[g]
           n  == Len(es)
<1>1. /\ n \in Nat /\ DOMAIN es = 1 .. n /\ i \in 1 .. n /\ 1 \in 1 .. n
      /\ \A k \in 1 .. n : es[k].time \in Nat
      /\ \A k, l \in 1 .. n : k < l => es[k].time < es[l].time
      /\ es[i].to = "running" /\ \A k \in 1 .. n : es[k].to = "running" => k <= i
  BY DEF Ordered, LastRun
<1>2. \A k \in 1 .. n : \A u : Current(es, k, u) <=> es[k].time <= u /\ (k < n => u < es[k + 1].time)
  BY DEF Current
<1>3. \A u \in Nat : \A k \in 1 .. n : Current(es, k, u) => StateAt(g, u) = es[k].to
  BY <1>1, StateAtProperties
<1>4. \A u \in Nat : es[1].time <= u => \E k \in 1 .. n : Current(es, k, u)
  BY <1>1, StateAtProperties
<1>5. AfterEnd(es, i) = IF i < n THEN es[i + 1].time ELSE maxTime
  BY DEF AfterEnd
<1> SUFFICES /\ t < AfterEnd(es, i) => StateAt(g, t) = "running"
             /\ t = es[i].time => StateAt(g, t) = "running"
             /\ StateAt(g, t) = "running" =>
                  \A u \in Nat : es[i].time <= u /\ u <= t => StateAt(g, u) = "running"
  OBVIOUS
<1>6. es[i].time <= t
  OBVIOUS
<1> HIDE DEF es, n
<1>7. ASSUME t < AfterEnd(es, i) PROVE StateAt(g, t) = "running"
  <2>1. Current(es, i, t)
    BY <1>1, <1>2, <1>5, <1>6, <1>7
  <2> QED BY <2>1, <1>1, <1>3
<1>8. ASSUME t = es[i].time PROVE StateAt(g, t) = "running"
  <2>1. i < n => i + 1 \in 1 .. n /\ es[i].time < es[i + 1].time
    BY <1>1
  <2>2. Current(es, i, t)
    BY <2>1, <1>1, <1>2, <1>8
  <2> QED BY <2>2, <1>1, <1>3
<1>9. ASSUME StateAt(g, t) = "running", NEW u \in Nat, es[i].time <= u, u <= t
      PROVE  StateAt(g, u) = "running"
  <2>1. es[1].time <= es[i].time /\ es[i].time \in Nat /\ es[1].time \in Nat
    BY <1>1
  <2>2. PICK k \in 1 .. n : Current(es, k, t)
    BY <2>1, <1>4, <1>6
  <2>3. k <= i
    BY <2>2, <1>1, <1>3, <1>9
  <2>4. ASSUME k < i PROVE FALSE
    <3>0. n \in Nat /\ i \in 1 .. n /\ k < n
      BY <2>4, <1>1
    <3>1. k + 1 \in 1 .. n /\ k + 1 <= i
      BY <3>0, <2>4
    <3>2. t < es[k + 1].time
      BY <3>0, <2>2, <1>2
    <3>3. es[k + 1].time \in Nat
      BY <3>1, <1>1
    <3>4. es[k + 1].time <= es[i].time
      BY <3>0, <3>1, <3>3, <2>1, <1>1
    <3> QED BY <3>2, <3>3, <3>4, <2>1, <1>6
  <2>5. k = i
    BY <2>3, <2>4, <1>1
  <2>6. i < n => t < es[i + 1].time /\ es[i + 1].time \in Nat
    BY <2>2, <2>5, <1>1, <1>2
  <2>7. i < n => u < es[i + 1].time
    BY <2>6, <1>9
  <2>8. Current(es, i, u)
    BY <2>7, <1>1, <1>2, <1>9
  <2> QED BY <2>8, <1>1, <1>3
<1> QED BY <1>7, <1>8, <1>9

(* The zone of a race whose goroutines ran. *)
LEMMA ZoneIsRunning ==
  ASSUME TypeOK, TraceInv, BoundsInv, pc # "record", bounds.trace, NEW race \in Race,
         race.a \in Gid, race.b \in Gid, Ran(race.a), Ran(race.b)
  PROVE  LET z == ZoneOf(race)
         IN  \/ z.start < z.end /\ RunningTogether(race.a, race.b, z.start, z.end)
             \/ StateAt(race.b, z.start) = "running" /\ (\A t \in z.start .. bounds.max :
                  t > z.start /\ StateAt(race.b, t) = "running" =>
                    \A u \in z.start .. t : StateAt(race.b, u) = "running")
<1> DEFINE A == BestRunningWindow(race.a)
           B == BestRunningWindow(race.b)
           z == ZoneOf(race)
<1>1. PICK i \in DOMAIN evs[race.a] :
        LastRun(evs[race.a], i) /\ A = <<evs[race.a][i].time, AfterEnd(evs[race.a], i)>>
  BY WindowProperties
<1>2. PICK j \in DOMAIN evs[race.b] :
        LastRun(evs[race.b], j) /\ B = <<evs[race.b][j].time, AfterEnd(evs[race.b], j)>>
  BY WindowProperties
<1>3. /\ A[1] = evs[race.a][i].time /\ A[2] = AfterEnd(evs[race.a], i)
      /\ B[1] = evs[race.b][j].time /\ B[2] = AfterEnd(evs[race.b], j)
  BY <1>1, <1>2
<1>4. A[1] \in Nat /\ A[2] \in Nat /\ B[1] \in Nat /\ B[2] \in Nat
  BY WindowProperties, TimeIsNat
<1>5. /\ z \in Zone
      /\ IF max64(A[1], B[1]) < min64(A[2], B[2])
         THEN z.start = max64(A[1], B[1]) /\ z.end = min64(A[2], B[2])
         ELSE z.start = B[1]
  BY ZoneProperties
<1>6. Ordered(evs[race.a]) /\ Ordered(evs[race.b])
  BY EventsOrdered
<1>7. \A t \in Nat : A[1] <= t /\ t < A[2] => StateAt(race.a, t) = "running"
  BY <1>1, <1>3, <1>6, LastRunProperties
<1>8. \A t \in Nat : B[1] <= t =>
        /\ t < B[2] => StateAt(race.b, t) = "running"
        /\ t = B[1] => StateAt(race.b, t) = "running"
        /\ StateAt(race.b, t) = "running" =>
             \A u \in Nat : B[1] <= u /\ u <= t => StateAt(race.b, u) = "running"
  BY <1>2, <1>3, <1>6, LastRunProperties
<1>9. z.start \in Nat /\ z.end \in Nat /\ bounds.max \in Nat
  <2>1. z.start \in Time /\ z.end \in Time
    BY <1>5 DEF Zone
  <2>2. bounds.max \in Time
    BY DEF TypeOK
  <2> QED BY <2>1, <2>2, TimeIsNat
<1> HIDE DEF A, B, z
<1>10. CASE max64(A[1], B[1]) < min64(A[2], B[2])
  <2>1. z.start < z.end /\ A[1] <= z.start /\ B[1] <= z.start /\ z.end <= A[2] /\ z.end <= B[2]
    BY <1>4, <1>5, <1>10 DEF max64, min64
  <2>2. ASSUME NEW t \in z.start .. z.end - 1
        PROVE  StateAt(race.a, t) = "running" /\ StateAt(race.b, t) = "running"
    <3>1. t \in Nat /\ A[1] <= t /\ t < A[2] /\ B[1] <= t /\ t < B[2]
      BY <2>1, <1>4, <1>9
    <3> QED BY <3>1, <1>7, <1>8
  <2> QED BY <2>1, <2>2 DEF RunningTogether, z
<1>11. CASE ~(max64(A[1], B[1]) < min64(A[2], B[2]))
  <2>1. z.start = B[1]
    BY <1>5, <1>11
  <2>2. StateAt(race.b, z.start) = "running"
    BY <2>1, <1>4, <1>8
  <2>3. ASSUME NEW t \in z.start .. bounds.max, StateAt(race.b, t) = "running",
               NEW u \in z.start .. t
        PROVE  StateAt(race.b, u) = "running"
    <3>1. t \in Nat /\ u \in Nat /\ B[1] <= t /\ B[1] <= u /\ u <= t
      BY <2>1, <1>4, <1>9
    <3> QED BY <3>1, <2>3, <1>8
  <2> QED BY <2>2, <2>3 DEF z
<1> QED BY <1>10, <1>11

------------------------------------------------------------------------------
(* Types of what the steps compute. *)

LEMMA RacesTyped ==
  ASSUME TypeOK
  PROVE  /\ races \in Seq(Race) /\ DOMAIN races = 1 .. Len(races) /\ Len(races) \in Nat
         /\ \A i \in DOMAIN races :
              /\ races[i] \in Race /\ races[i].id \in Nat
              /\ races[i].a \in Gid \cup {0} /\ races[i].b \in Gid \cup {0}
              /\ races[i].test \in Test \cup {""}
              /\ 0 \in Racing(races[i]) => races[i].test = ""
<1>1. races \in Seq(Race)
  BY CorrelatorAssumption DEF CorrelatorAssumption, TypeOK
<1>2. DOMAIN races = 1 .. Len(races) /\ Len(races) \in Nat
  BY <1>1, LenProperties
<1>3. ASSUME NEW i \in DOMAIN races
      PROVE  /\ races[i] \in Race /\ races[i].id \in Nat
             /\ races[i].a \in Gid \cup {0} /\ races[i].b \in Gid \cup {0}
             /\ races[i].test \in Test \cup {""}
             /\ 0 \in Racing(races[i]) => races[i].test = ""
  <2>1. races[i] \in Race
    BY <1>1, <1>2, ElementOfSeq
  <2> QED BY <2>1 DEF Race, Racing
<1> QED BY <1>1, <1>2, <1>3

LEMMA RelevantTyped ==
  ASSUME TypeOK
  PROVE  /\ 0 \notin Gid /\ Relevant \subseteq Gid /\ AllRacing \subseteq Relevant
         /\ \A i \in DOMAIN races : \A g \in Racing(races[i]) : g # 0 => g \in Relevant
<1>1. 0 \notin Gid
  BY CorrelatorAssumption DEF CorrelatorAssumption
<1>2. AllRacing \subseteq Gid
  <2>1. ASSUME NEW g \in AllRacing PROVE g \in Gid
    <3>1. PICK i \in DOMAIN races : g \in Racing(races[i]) /\ g # 0
      BY DEF AllRacing
    <3>2. races[i].a \in Gid \cup {0} /\ races[i].b \in Gid \cup {0}
      BY RacesTyped
    <3>3. g = races[i].a \/ g = races[i].b
      BY <3>1 DEF Racing
    <3> QED BY <3>1, <3>2, <3>3
  <2> QED BY <2>1
<1>3. Relevant \subseteq Gid /\ AllRacing \subseteq Relevant
  BY <1>2 DEF Relevant, RelevantGoroutines, InTrace
<1>4. \A i \in DOMAIN races : \A g \in Racing(races[i]) : g # 0 => g \in AllRacing
  BY DEF AllRacing
<1> QED BY <1>1, <1>3, <1>4

LEMMA TestOfTyped ==
  ASSUME TypeOK
  PROVE  TestOf(0) = "" /\ \A g : TestOf(g) \in Test \cup {""}
<1> DEFINE named(g) == {i \in DOMAIN races : races[i].test # "" /\ g \in Racing(races[i])}
<1>1. \A g : TestOf(g) = IF g \in InTrace /\ birthTest[g] # "" THEN birthTest[g]
                         ELSE IF named(g) = {} THEN "" ELSE races[Min(named(g))].test
  BY DEF TestOf
<1>2. 0 \notin InTrace
  BY RelevantTyped DEF InTrace
<1>3. named(0) = {}
  BY RacesTyped
<1>4. ASSUME NEW g PROVE TestOf(g) \in Test \cup {""}
  <2>1. CASE g \in InTrace /\ birthTest[g] # ""
    <3>1. g \in Gid
      BY <2>1 DEF InTrace
    <3>2. birthTest[g] \in Test \cup {""}
      BY <3>1 DEF TypeOK
    <3> QED BY <3>2, <2>1, <1>1
  <2>2. CASE ~(g \in InTrace /\ birthTest[g] # "") /\ named(g) = {}
    <3>1. TestOf(g) = ""
      BY <2>2, <1>1
    <3> QED BY <3>1
  <2>3. CASE ~(g \in InTrace /\ birthTest[g] # "") /\ named(g) # {}
    <3>0. DOMAIN races = 1 .. Len(races) /\ Len(races) \in Nat
      BY RacesTyped
    <3>1. named(g) \in SUBSET Nat
      <4>1. \A i \in DOMAIN races : i \in Nat
        BY <3>0
      <4>2. \A i \in named(g) : i \in DOMAIN races
        OBVIOUS
      <4> HIDE DEF named
      <4> QED BY <4>1, <4>2
    <3>2. Min(named(g)) \in named(g)
      BY <3>1, <2>3, MinProperties
    <3>3. races[Min(named(g))].test \in Test \cup {""}
      BY <3>2, RacesTyped
    <3> QED BY <3>3, <2>3, <1>1
  <2> QED BY <2>1, <2>2, <2>3
<1>5. TestOf(0) = ""
  BY <1>1, <1>2, <1>3
<1> QED BY <1>4, <1>5

(* "other" is the group of the goroutines without a test. *)
LEMMA NameProperties ==
  ASSUME NEW t \in Test \cup {""}
  PROVE  /\ GroupName(t) \in Test \cup {"other"}
         /\ GroupName(t) = "other" <=> t = ""
BY CorrelatorAssumption DEF CorrelatorAssumption, GroupName

LEMMA NamesTyped ==
  ASSUME TypeOK
  PROVE  Names \subseteq Test \cup {"other"}
<1>1. \A l : LaneGroup(l) \in Test \cup {"other"}
  BY TestOfTyped, NameProperties DEF LaneGroup
<1>2. \A z : ZoneGroup(z) \in Test \cup {"other"}
  BY TestOfTyped, NameProperties DEF ZoneGroup
<1> QED BY <1>1, <1>2 DEF Names

LEMMA SegmentsOfTyped ==
  ASSUME TypeOK, NEW g \in Gid
  PROVE  SegmentsOf(g) \in Seq(Segment)
<1>1. CASE bounds.trace
  <2>1. evs[g] \in Seq(Event) /\ bounds.min \in Time /\ bounds.max \in Time
    BY DEF TypeOK
  <2> QED BY <2>1, <1>1, SegmentsProperties DEF SegmentsOf
<1>2. CASE ~bounds.trace
  <2> DEFINE s == [start |-> 0, end |-> SyntheticDuration, state |-> "running"]
  <2>1. s \in Segment
    BY TimeIsNat DEF Segment, GoState
  <2> HIDE DEF s
  <2>2. <<s>> \in Seq(Segment)
    BY <2>1
  <2> QED BY <2>2, <1>2 DEF SegmentsOf, s
<1> QED BY <1>1, <1>2

LEMMA LaneOfTyped ==
  ASSUME TypeOK, NEW g \in Gid
  PROVE  LET l == LaneOf(g, SegmentsOf(g))
         IN  l \in Lane /\ l.id = g /\ l.segments = SegmentsOf(g)
<1>1. SegmentsOf(g) \in Seq(Segment)
  BY SegmentsOfTyped
<1>2. FALSE \in BOOLEAN
  OBVIOUS
<1> QED BY <1>1, <1>2 DEF LaneOf, Lane

LEMMA LanesTyped ==
  ASSUME TypeOK
  PROVE  /\ DOMAIN lanes = 1 .. Len(lanes) /\ Len(lanes) \in Nat
         /\ \A i \in DOMAIN lanes : lanes[i] \in Lane /\ lanes[i].id \in Gid
<1>1. lanes \in Seq(Lane)
  BY DEF TypeOK
<1>2. DOMAIN lanes = 1 .. Len(lanes) /\ Len(lanes) \in Nat
  BY <1>1, LenProperties
<1>3. \A i \in DOMAIN lanes : lanes[i] \in Lane
  BY <1>1, <1>2, ElementOfSeq
<1> QED BY <1>2, <1>3 DEF Lane

(* The lanes and zones of a group. *)
LEMMA GroupLanesTyped ==
  ASSUME TypeOK, NEW name
  PROVE  /\ GroupLanes(name) \subseteq Lane /\ IsFiniteSet(GroupLanes(name))
         /\ \A l : l \in GroupLanes(name) <=>
              \E i \in DOMAIN lanes :
                LaneGroup(lanes[i]) = name /\ l = Marked(lanes[i], GroupZones(name))
<1> DEFINE M(i)  == Marked(lanes[i], GroupZones(name))
           D     == {i \in DOMAIN lanes : LaneGroup(lanes[i]) = name}
           f     == [i \in D |-> M(i)]
<1>1. ASSUME NEW l
      PROVE  l \in GroupLanes(name) <=>
               \E i \in DOMAIN lanes : LaneGroup(lanes[i]) = name /\ l = M(i)
  BY RangeProperties DEF GroupLanes, Range
<1>2. ASSUME NEW i \in DOMAIN lanes PROVE M(i) \in Lane
  <2>1. lanes[i] \in Lane
    BY LanesTyped
  <2> DEFINE r == \E z \in GroupZones(name) : lanes[i].id \in {z.a, z.b}
  <2>2. r \in BOOLEAN
    OBVIOUS
  <2>3. M(i) = [lanes[i] EXCEPT !.hasRace = r]
    BY DEF Marked
  <2> HIDE DEF r
  <2> QED BY <2>1, <2>2, <2>3 DEF Lane
<1>3. IsFiniteSet(D)
  <2>1. IsFiniteSet(DOMAIN lanes)
    BY LanesTyped, FS_Interval
  <2> QED BY <2>1, FS_Subset
<1>4. f \in [D -> Lane]
  BY <1>2
<1>5. IsFiniteSet(Range(f))
  BY <1>3, <1>4, FiniteRange
<1>6. Range(f) = GroupLanes(name)
  <2>1. \A l : l \in Range(f) <=> \E i \in D : M(i) = l
    BY DEF Range
  <2> HIDE DEF M, f
  <2> QED BY <2>1, <1>1
<1>7. GroupLanes(name) \subseteq Lane
  BY <1>1, <1>2
<1> QED BY <1>1, <1>5, <1>6, <1>7

LEMMA GroupTyped ==
  ASSUME TypeOK, NEW name \in Test \cup {"other"}, NEW group \in GroupsOf(name)
  PROVE  /\ group \in Group
         /\ group.test = name /\ group.zones = GroupZones(name)
         /\ group.lanes \in Seq(Lane)
         /\ DOMAIN group.lanes = 1 .. Len(group.lanes) /\ Len(group.lanes) \in Nat
         /\ \A l : l \in GroupLanes(name) <=> \E i \in DOMAIN group.lanes : group.lanes[i] = l
         /\ SortedRacingFirst(group.lanes)
<1>1. PICK ls \in Listings(GroupLanes(name)) :
        /\ SortedRacingFirst(ls)
        /\ group = [test |-> name, zones |-> GroupZones(name), lanes |-> ls]
  BY DEF GroupsOf
<1>2. /\ ls \in Seq(GroupLanes(name)) /\ DOMAIN ls = 1 .. Len(ls) /\ Len(ls) \in Nat
      /\ \A l : l \in GroupLanes(name) <=> \E i \in DOMAIN ls : ls[i] = l
  BY GroupLanesTyped, ListingProperties
<1>3. ls \in Seq(Lane)
  BY <1>2, GroupLanesTyped, SeqMonotonic
<1>4. GroupZones(name) \in SUBSET Zone
  <2>1. zones \in Seq(Zone)
    BY DEF TypeOK
  <2>2. \A z \in Range(zones) : z \in Zone
    BY <2>1, RangeProperties, LenProperties, ElementOfSeq
  <2> QED BY <2>2 DEF GroupZones
<1>5. group.test = name /\ group.zones = GroupZones(name) /\ group.lanes = ls
  BY <1>1
<1>6. group \in Group
  BY <1>1, <1>3, <1>4 DEF Group
<1> QED BY <1>1, <1>2, <1>3, <1>5, <1>6

LEMMA NamesFinite ==
  ASSUME TypeOK
  PROVE  /\ IsFiniteSet(Names)
         /\ \A name : name \in Names <=>
              \/ \E i \in DOMAIN lanes : LaneGroup(lanes[i]) = name
              \/ \E i \in DOMAIN zones : ZoneGroup(zones[i]) = name
<1> DEFINE f == [i \in DOMAIN lanes |-> LaneGroup(lanes[i])]
           h == [i \in DOMAIN zones |-> ZoneGroup(zones[i])]
           T == Test \cup {"other"}
<1>1. \A name : name \in Names <=>
              \/ \E i \in DOMAIN lanes : LaneGroup(lanes[i]) = name
              \/ \E i \in DOMAIN zones : ZoneGroup(zones[i]) = name
  BY DEF Names, Range
<1>2. (\A x : LaneGroup(x) \in T) /\ (\A x : ZoneGroup(x) \in T)
  BY TestOfTyped, NameProperties DEF LaneGroup, ZoneGroup
<1>3. f \in [DOMAIN lanes -> T] /\ h \in [DOMAIN zones -> T]
  BY <1>2
<1>4. IsFiniteSet(DOMAIN lanes) /\ IsFiniteSet(DOMAIN zones)
  <2>1. DOMAIN zones = 1 .. Len(zones) /\ Len(zones) \in Nat
    BY LenProperties DEF TypeOK
  <2>2. DOMAIN lanes = 1 .. Len(lanes) /\ Len(lanes) \in Nat
    BY LanesTyped
  <2> QED BY <2>1, <2>2, FS_Interval
<1>5. IsFiniteSet(Range(f)) /\ IsFiniteSet(Range(h))
  BY <1>3, <1>4, FiniteRange
<1>6. Names = Range(f) \cup Range(h)
  <2>1. \A x : x \in Range(f) <=> \E i \in DOMAIN lanes : LaneGroup(lanes[i]) = x
    BY DEF Range
  <2>2. \A x : x \in Range(h) <=> \E i \in DOMAIN zones : ZoneGroup(zones[i]) = x
    BY DEF Range
  <2> HIDE DEF f, h
  <2> QED BY <2>1, <2>2, <1>1
<1> HIDE DEF f, h
<1>7. IsFiniteSet(Range(f) \cup Range(h))
  BY <1>5, FS_Union
<1> QED BY <1>1, <1>6, <1>7

------------------------------------------------------------------------------
(* The invariant says what the timeline shows. *)

(* What the lists of zones, lanes and groups are at the end. *)
LEMMA DoneProperties ==
  ASSUME IInv, pc = "done"
  PROVE  /\ DOMAIN zones = DOMAIN races
         /\ \A i \in DOMAIN races :
              /\ zones[i].race = races[i].id
              /\ zones[i].a = races[i].a /\ zones[i].b = races[i].b
         /\ \A g : g \in Relevant <=> \E i \in DOMAIN lanes : lanes[i].id = g
         /\ Len(groups) \in Nat /\ DOMAIN groups = 1 .. Len(groups)
         /\ \A k \in DOMAIN groups :
              groups[k].test \in Names /\ groups[k] \in GroupsOf(groups[k].test)
         /\ \A name \in Names : \E k \in DOMAIN groups : groups[k].test = name
         /\ \A k, j \in DOMAIN groups : groups[k].test = groups[j].test => k = j
         /\ \A k \in DOMAIN groups : groups[k].test = "other" => k = Len(groups)
<1>1. zones = [i \in DOMAIN races |-> ZoneOf(races[i])]
  BY DEF IInv, ZonesInv, ZonesAreOfRaces
<1>2. \A i \in DOMAIN races :
        /\ zones[i].race = races[i].id
        /\ zones[i].a = races[i].a /\ zones[i].b = races[i].b
  <2>1. ASSUME NEW i \in DOMAIN races
        PROVE  /\ zones[i].race = races[i].id
               /\ zones[i].a = races[i].a /\ zones[i].b = races[i].b
    <3>1. zones[i] = ZoneOf(races[i])
      BY <1>1
    <3> QED BY <3>1 DEF ZoneOf
  <2> QED BY <2>1
<1>3. \A g : g \in Relevant <=> \E i \in DOMAIN lanes : lanes[i].id = g
  <2>1. {lanes[i].id : i \in DOMAIN lanes} = Relevant
    BY DEF IInv, LanesInv
  <2> QED BY <2>1
<1>4. Len(groups) \in Nat /\ DOMAIN groups = 1 .. Len(groups)
  BY LenProperties DEF IInv, TypeOK
<1>5. PICK order \in Listings(Names) :
        /\ SortedNames(order)
        /\ DOMAIN groups = DOMAIN order
        /\ \A i \in DOMAIN order : groups[i] \in GroupsOf(order[i])
  BY DEF IInv, GroupsInv
<1>6. IsFiniteSet(Names) /\ TypeOK /\ Names \subseteq Test \cup {"other"}
  BY NamesFinite, NamesTyped DEF IInv
<1>7. \A x : x \in Names <=> \E i \in DOMAIN order : order[i] = x
  BY <1>5, <1>6, ListingProperties
<1>8. \A k \in DOMAIN groups : groups[k].test = order[k] /\ order[k] \in Names
  BY <1>5, <1>6, <1>7, GroupTyped
<1>9. /\ \A i, j \in DOMAIN groups : order[i] = order[j] => i = j
      /\ \A i \in DOMAIN groups : order[i] = "other" => i = Len(groups)
  BY <1>4, <1>5, NamesDiffer
<1>10. \A k \in DOMAIN groups :
         groups[k].test \in Names /\ groups[k] \in GroupsOf(groups[k].test)
  BY <1>5, <1>8
<1>11. \A name \in Names : \E k \in DOMAIN groups : groups[k].test = name
  BY <1>5, <1>7, <1>8
<1>12. \A k, j \in DOMAIN groups : groups[k].test = groups[j].test => k = j
  BY <1>8, <1>9
<1>13. \A k \in DOMAIN groups : groups[k].test = "other" => k = Len(groups)
  BY <1>8, <1>9
<1> QED BY <1>1, <1>2, <1>3, <1>4, <1>10, <1>11, <1>12, <1>13

(* What is in the groups. *)
LEMMA GroupsHold ==
  ASSUME IInv, pc = "done", NEW k \in DOMAIN groups
  PROVE  /\ groups[k].test \in Test \cup {"other"}
         /\ \A i \in DOMAIN zones :
              zones[i] \in groups[k].zones <=> ZoneGroup(zones[i]) = groups[k].test
         /\ \A z \in groups[k].zones : \E i \in DOMAIN zones : z = zones[i]
         /\ DOMAIN groups[k].lanes = 1 .. Len(groups[k].lanes) /\ Len(groups[k].lanes) \in Nat
         /\ SortedRacingFirst(groups[k].lanes)
         /\ \A l : (\E i \in DOMAIN groups[k].lanes : groups[k].lanes[i] = l) <=>
              \E i \in DOMAIN lanes :
                LaneGroup(lanes[i]) = groups[k].test /\ l = Marked(lanes[i], groups[k].zones)
<1> DEFINE name == groups[k].test
<1>1. name \in Test \cup {"other"} /\ groups[k] \in GroupsOf(name) /\ TypeOK
  BY DoneProperties, NamesTyped DEF IInv
<1> HIDE DEF name
<1>2. /\ groups[k].zones = GroupZones(name)
      /\ DOMAIN groups[k].lanes = 1 .. Len(groups[k].lanes) /\ Len(groups[k].lanes) \in Nat
      /\ \A l : l \in GroupLanes(name) <=>
           \E i \in DOMAIN groups[k].lanes : groups[k].lanes[i] = l
      /\ SortedRacingFirst(groups[k].lanes)
  BY <1>1, GroupTyped
<1>3. \A l : l \in GroupLanes(name) <=>
        \E i \in DOMAIN lanes : LaneGroup(lanes[i]) = name /\ l = Marked(lanes[i], GroupZones(name))
  BY <1>1, GroupLanesTyped
<1>4. \A z : z \in GroupZones(name) <=> (\E i \in DOMAIN zones : zones[i] = z) /\ ZoneGroup(z) = name
  BY RangeProperties DEF GroupZones
<1>5. \A i \in DOMAIN zones : zones[i] \in groups[k].zones <=> ZoneGroup(zones[i]) = name
  BY <1>2, <1>4
<1>6. \A z \in groups[k].zones : \E i \in DOMAIN zones : z = zones[i]
  BY <1>2, <1>4
<1>7. \A l : (\E i \in DOMAIN groups[k].lanes : groups[k].lanes[i] = l) <=>
        \E i \in DOMAIN lanes : LaneGroup(lanes[i]) = name /\ l = Marked(lanes[i], groups[k].zones)
  BY <1>2, <1>3
<1> QED BY <1>1, <1>2, <1>5, <1>6, <1>7 DEF name

LEMMA MarkedProperties ==
  ASSUME NEW l \in Lane, NEW zs
  PROVE  /\ Marked(l, zs).id = l.id
         /\ Marked(l, zs).hasRace <=> \E z \in zs : l.id \in {z.a, z.b}
BY DEF Marked, Lane

LEMMA DoneShowsTheTrace ==
  ASSUME IInv
  PROVE  LanesShowTheTrace
<1>1. SUFFICES ASSUME pc = "done", bounds.trace, NEW i \in DOMAIN lanes, lanes[i].id \in InTrace,
                      NEW t \in bounds.min .. bounds.max - 1
               PROVE  LaneShows(lanes[i].id, t, lanes[i].segments)
  BY DEF LanesShowTheTrace, LaneShows
<1>2. lanes[i].segments = Segments(evs[lanes[i].id])
  BY <1>1 DEF IInv, LanesInv, LanesAreOfTrace, SegmentsOf
<1>3. lanes[i].id \in Gid /\ TypeOK /\ TraceInv
  BY <1>1 DEF InTrace, IInv
<1>4. /\ Ordered(evs[lanes[i].id]) /\ 1 \in DOMAIN evs[lanes[i].id]
      /\ evs[lanes[i].id] \in Seq(Event)
  BY <1>1, <1>3, EventsOrdered DEF TypeOK
<1>5. bounds.min \in Time /\ bounds.max \in Time /\ bounds.min \in Nat /\ bounds.max \in Nat
  BY <1>3, TimeIsNat DEF TypeOK
<1>6. t \in Nat /\ bounds.min <= t /\ t < bounds.max
  BY <1>5
<1> QED BY <1>2, <1>4, <1>5, <1>6, SegmentsShow

LEMMA DoneZonesAreRunning ==
  ASSUME IInv
  PROVE  ZonesAreRunningPeriods
<1>1. SUFFICES ASSUME pc = "done", bounds.trace, NEW i \in DOMAIN zones,
                      zones[i].a \in Gid, zones[i].b \in Gid, Ran(zones[i].a), Ran(zones[i].b)
      PROVE  LET z == zones[i]
             IN  \/ z.start < z.end /\ RunningTogether(z.a, z.b, z.start, z.end)
                 \/ StateAt(z.b, z.start) = "running" /\ (\A t \in z.start .. bounds.max :
                      t > z.start /\ StateAt(z.b, t) = "running" =>
                        \A u \in z.start .. t : StateAt(z.b, u) = "running")
  BY DEF ZonesAreRunningPeriods
<1>2. /\ i \in DOMAIN races /\ zones[i] = ZoneOf(races[i])
      /\ zones[i].a = races[i].a /\ zones[i].b = races[i].b
  BY <1>1, DoneProperties DEF IInv, ZonesInv, ZonesAreOfRaces
<1>3. races[i] \in Race /\ TypeOK /\ TraceInv /\ BoundsInv
  BY <1>2, RacesTyped DEF IInv
<1> QED BY <1>1, <1>2, <1>3, ZoneIsRunning

LEMMA DoneShowsRaces ==
  ASSUME IInv
  PROVE  EveryRaceIsShown
<1> SUFFICES ASSUME pc = "done" PROVE EveryRaceIsShown
  BY DEF EveryRaceIsShown
<1>1. TypeOK
  BY DEF IInv
<1>2. ASSUME NEW i \in DOMAIN races
      PROVE  LET z == zones[i]
             IN  /\ z \in Range(zones) /\ z.race = races[i].id
                 /\ \E k \in DOMAIN groups : \A j \in DOMAIN groups :
                      z \in groups[j].zones <=> j = k
                 /\ \A k \in DOMAIN groups :
                      z \in groups[k].zones /\ groups[k].test = "other" =>
                        TestOf(z.a) = "" /\ TestOf(z.b) = ""
                 /\ \A g \in Racing(races[i]) \ {0} :
                      \E l \in Range(lanes) : l.id = g /\ races[i].id \in l.collisions
  <2> DEFINE z == zones[i]
  <2>1. i \in DOMAIN zones /\ z.race = races[i].id /\ z.a = races[i].a /\ z.b = races[i].b
    BY <1>2, DoneProperties
  <2>2. ZoneGroup(z) \in Names
    BY <2>1, <1>1, NamesFinite
  <2>3. \E k \in DOMAIN groups : \A j \in DOMAIN groups : z \in groups[j].zones <=> j = k
    <3>1. PICK k \in DOMAIN groups : groups[k].test = ZoneGroup(z)
      BY <2>2, DoneProperties
    <3>2. \A j \in DOMAIN groups : z \in groups[j].zones <=> groups[j].test = ZoneGroup(z)
      BY <2>1, GroupsHold
    <3>3. \A j \in DOMAIN groups : groups[j].test = groups[k].test => j = k
      BY DoneProperties
    <3> QED BY <3>1, <3>2, <3>3
  <2>4. ASSUME NEW k \in DOMAIN groups, z \in groups[k].zones, groups[k].test = "other"
        PROVE  TestOf(z.a) = "" /\ TestOf(z.b) = ""
    <3>1. ZoneGroup(z) = "other"
      BY <2>1, <2>4, GroupsHold
    <3>2. TestOf(z.a) \in Test \cup {""} /\ TestOf(z.b) \in Test \cup {""}
      BY <1>1, TestOfTyped
    <3> QED BY <3>1, <3>2, NameProperties DEF ZoneGroup
  <2>5. ASSUME NEW g \in Racing(races[i]) \ {0}
        PROVE  \E l \in Range(lanes) : l.id = g /\ races[i].id \in l.collisions
    <3>1. g \in Relevant
      BY <1>1, <1>2, RelevantTyped
    <3>2. PICK j \in DOMAIN lanes : lanes[j].id = g
      BY <3>1, DoneProperties
    <3>3. lanes[j].collisions = CollisionIDs(g, zones)
      BY <3>2 DEF IInv, ZonesInv, LanesListRaces
    <3>4. g \in {z.a, z.b}
      BY <2>1 DEF Racing
    <3>5. races[i].id \in CollisionIDs(g, zones)
      BY <2>1, <3>4 DEF CollisionIDs
    <3>6. lanes[j] \in Range(lanes)
      BY <3>2, RangeProperties
    <3> QED BY <3>2, <3>3, <3>5, <3>6
  <2>6. z \in Range(zones)
    BY <2>1, RangeProperties
  <2> QED BY <2>1, <2>3, <2>4, <2>5, <2>6
<1>3. \A i, j \in DOMAIN lanes : i < j => lanes[i].id < lanes[j].id
  BY DEF IInv, LanesInv, SortedByID
<1>4. ASSUME NEW l \in Range(lanes)
      PROVE  \E k \in DOMAIN groups : \A j \in DOMAIN groups :
               (\E m \in Range(groups[j].lanes) : m.id = l.id) <=> j = k
  <2>1. PICK i \in DOMAIN lanes : lanes[i] = l
    BY RangeProperties
  <2>2. PICK k \in DOMAIN groups : groups[k].test = LaneGroup(l)
    <3>1. LaneGroup(l) \in Names
      BY <2>1, <1>1, NamesFinite
    <3> QED BY <3>1, DoneProperties
  <2>3. \A j \in DOMAIN lanes : lanes[j] \in Lane
    BY <1>1, LanesTyped
  <2>4. \A m \in Lane : m.id = l.id => LaneGroup(m) = LaneGroup(l)
    BY DEF LaneGroup
  <2>5. ASSUME NEW j \in DOMAIN groups, NEW m \in Range(groups[j].lanes), m.id = l.id
        PROVE  j = k
    <3>1. \E n \in DOMAIN groups[j].lanes : groups[j].lanes[n] = m
      BY RangeProperties
    <3>2. PICK n \in DOMAIN lanes :
            LaneGroup(lanes[n]) = groups[j].test /\ m = Marked(lanes[n], groups[j].zones)
      BY <3>1, GroupsHold
    <3>3. lanes[n].id = l.id
      BY <3>2, <2>3, <2>5, MarkedProperties
    <3>4. groups[j].test = groups[k].test
      BY <3>2, <3>3, <2>2, <2>3, <2>4
    <3> QED BY <3>4, DoneProperties
  <2>6. \E m \in Range(groups[k].lanes) : m.id = l.id
    <3> DEFINE m == Marked(l, groups[k].zones)
    <3>1. m.id = l.id
      BY <2>1, <2>3, MarkedProperties
    <3>2. \E n \in DOMAIN groups[k].lanes : groups[k].lanes[n] = m
      BY <2>1, <2>2, GroupsHold
    <3>3. m \in Range(groups[k].lanes)
      BY <3>2, RangeProperties
    <3> QED BY <3>1, <3>3
  <2> QED BY <2>5, <2>6
<1>5. \A i \in DOMAIN groups : groups[i].test = "other" => i = Len(groups)
  BY DoneProperties
<1> QED BY <1>2, <1>3, <1>4, <1>5 DEF EveryRaceIsShown

(* Of the goroutines of a zone, one is of the zone's group. *)
LEMMA ZoneHasLane ==
  ASSUME IInv, pc = "done", NEW i \in DOMAIN races, {races[i].a, races[i].b} # {0}
  PROVE  \E n \in DOMAIN lanes :
           lanes[n].id \in Racing(races[i]) /\ LaneGroup(lanes[n]) = ZoneGroup(zones[i])
<1> DEFINE a == races[i].a
           b == races[i].b
<1>1. zones[i].a = a /\ zones[i].b = b
  BY DoneProperties
<1>2. TypeOK
  BY DEF IInv
<1>3. \A g \in {a, b} : g # 0 => \E n \in DOMAIN lanes : lanes[n].id = g
  BY <1>2, RelevantTyped, DoneProperties DEF Racing
<1>4. TestOf(0) = ""
  BY <1>2, TestOfTyped
<1>5. \E g \in {a, b} : g # 0 /\ GroupName(TestOf(g)) = ZoneGroup(zones[i])
  <2>1. CASE TestOf(a) # ""
    BY <2>1, <1>1, <1>4 DEF ZoneGroup
  <2>2. CASE TestOf(a) = "" /\ b # 0
    BY <2>2, <1>1 DEF ZoneGroup
  <2>3. CASE TestOf(a) = "" /\ b = 0
    <3>1. a # 0
      BY <2>3
    <3> QED BY <2>3, <3>1, <1>1, <1>4 DEF ZoneGroup
  <2> QED BY <2>1, <2>2, <2>3
<1>6. PICK g \in {a, b} : g # 0 /\ GroupName(TestOf(g)) = ZoneGroup(zones[i])
  BY <1>5
<1>7. PICK n \in DOMAIN lanes : lanes[n].id = g
  BY <1>3, <1>6
<1> QED BY <1>6, <1>7 DEF Racing, LaneGroup

LEMMA DoneScopesMarks ==
  ASSUME IInv
  PROVE  MarksAreScoped
<1> SUFFICES ASSUME pc = "done" PROVE MarksAreScoped
  BY DEF MarksAreScoped
<1>1. \A n \in DOMAIN lanes : lanes[n] \in Lane
  BY LanesTyped DEF IInv
<1>2. ASSUME NEW k \in DOMAIN groups, NEW l \in Range(groups[k].lanes), l.hasRace
      PROVE  \E i \in DOMAIN races :
               /\ l.id \in Racing(races[i])
               /\ groups[k].test \in {GroupName(TestOf(g)) : g \in Racing(races[i])}
               /\ \E z \in groups[k].zones : z.race = races[i].id
  <2>1. \E n \in DOMAIN groups[k].lanes : groups[k].lanes[n] = l
    BY RangeProperties
  <2>2. PICK n \in DOMAIN lanes : l = Marked(lanes[n], groups[k].zones)
    BY <2>1, GroupsHold
  <2>3. PICK z \in groups[k].zones : l.id \in {z.a, z.b}
    BY <2>2, <1>1, <1>2, MarkedProperties
  <2>4. PICK i \in DOMAIN zones : z = zones[i]
    BY GroupsHold
  <2>5. i \in DOMAIN races /\ z.race = races[i].id /\ z.a = races[i].a /\ z.b = races[i].b
    BY <2>4, DoneProperties
  <2>6. ZoneGroup(z) = groups[k].test
    BY <2>4, GroupsHold
  <2>7. groups[k].test \in {GroupName(TestOf(g)) : g \in Racing(races[i])}
    BY <2>5, <2>6 DEF ZoneGroup, Racing
  <2> QED BY <2>3, <2>5, <2>7 DEF Racing
<1>3. ASSUME NEW k \in DOMAIN groups, NEW z \in groups[k].zones, {z.a, z.b} # {0}
      PROVE  /\ groups[k].lanes # <<>>
             /\ groups[k].lanes[1].hasRace
             /\ \E l \in Range(groups[k].lanes) : l.hasRace /\ l.id \in {z.a, z.b}
  <2> DEFINE ls == groups[k].lanes
  <2>1. PICK i \in DOMAIN zones : z = zones[i]
    BY GroupsHold
  <2>2. i \in DOMAIN races /\ z.a = races[i].a /\ z.b = races[i].b
    BY <2>1, DoneProperties
  <2>3. ZoneGroup(z) = groups[k].test
    BY <2>1, GroupsHold
  <2>4. PICK n \in DOMAIN lanes :
          lanes[n].id \in {z.a, z.b} /\ LaneGroup(lanes[n]) = groups[k].test
    BY <2>1, <2>2, <2>3, <1>3, ZoneHasLane DEF Racing
  <2> DEFINE m == Marked(lanes[n], groups[k].zones)
  <2>5. m.id = lanes[n].id /\ m.hasRace
    BY <2>4, <1>1, MarkedProperties
  <2>6. PICK j \in DOMAIN ls : ls[j] = m
    BY <2>4, GroupsHold
  <2>7. DOMAIN ls = 1 .. Len(ls) /\ Len(ls) \in Nat /\ SortedRacingFirst(ls)
    BY GroupsHold
  <2>8. 1 \in DOMAIN ls /\ j \in Nat /\ (j = 1 \/ 1 < j)
    BY <2>6, <2>7
  <2>9. ls[1].hasRace
    <3>1. CASE j = 1
      BY <3>1, <2>5, <2>6
    <3>2. CASE 1 < j
      <4>1. RacingFirst(ls[1], ls[j])
        BY <3>2, <2>7, <2>8 DEF SortedRacingFirst
      <4> QED BY <4>1, <2>5, <2>6 DEF RacingFirst
    <3> QED BY <3>1, <3>2, <2>8
  <2>10. m \in Range(ls)
    BY <2>6, RangeProperties
  <2>11. ls # <<>>
    BY <2>8
  <2> QED BY <2>4, <2>5, <2>9, <2>10, <2>11
<1> QED BY <1>2, <1>3 DEF MarksAreScoped

------------------------------------------------------------------------------
(* The invariant is inductive. *)

LEMMA InitInvariant == Init => IInv
<1> SUFFICES ASSUME Init PROVE IInv
  OBVIOUS
<1>1. TypeOK
  <2>1. status \in [Gid -> GoState] /\ birthTest \in [Gid -> Test \cup {""}] /\ traced \in BOOLEAN
    BY DEF Init, GoState
  <2>2. evs \in [Gid -> Seq(Event)]
    BY EmptySeq DEF Init
  <2>3. minTime \in 0 .. Unit * MaxEvents /\ maxTime \in 0 .. Unit * MaxEvents
    <3>1. Unit * MaxEvents \in Nat
      BY TimeIsNat
    <3>2. 0 \in 0 .. Unit * MaxEvents
      BY <3>1
    <3> QED BY <3>2 DEF Init
  <2>4. bounds \in [min : Time, max : Time, trace : BOOLEAN]
    <3>1. FALSE \in BOOLEAN /\ 0 \in Time
      BY TimeIsNat
    <3> QED BY <3>1 DEF Init
  <2>5. lanes \in Seq(Lane) /\ zones \in Seq(Zone) /\ groups \in Seq(Group)
    BY EmptySeq DEF Init
  <2> QED BY <2>1, <2>2, <2>3, <2>4, <2>5 DEF Init, TypeOK
<1>2. TraceInv
  <2>1. \A g \in Gid : evs[g] = <<>>
    BY DEF Init
  <2>2. InTrace = {} /\ \A g \in Gid : DOMAIN evs[g] = {}
    BY <2>1 DEF InTrace
  <2>3. minTime = 0 /\ maxTime = 0
    BY DEF Init
  <2> QED BY <2>2, <2>3 DEF TraceInv
<1>3. BoundsInv /\ LanesInv /\ ZonesInv /\ GroupsInv
  <2>1. lanes = <<>>
    BY DEF Init
  <2>2. DOMAIN lanes = {}
    BY <2>1
  <2> QED BY <2>2 DEF Init, BoundsInv, LanesInv, LanesAreOfTrace, ZonesInv, GroupsInv
<1> QED BY <1>1, <1>2, <1>3 DEF IInv

(* A step of Correlate leaves the trace, the races and what is relevant alone. *)
LEMMA CorrelateKeeps ==
  ASSUME TraceInv, UNCHANGED inputVars
  PROVE  /\ TraceInv' /\ InTrace' = InTrace /\ AllRacing' = AllRacing
         /\ RelevantGoroutines' = RelevantGoroutines
         /\ bounds' = bounds => Relevant' = Relevant /\ \A g : SegmentsOf(g)' = SegmentsOf(g)
         /\ \A g : TestOf(g)' = TestOf(g)
         /\ bounds' = bounds => \A r : ZoneOf(r)' = ZoneOf(r)
<1> USE DEF inputVars, traceVars
<1>1. TraceInv' /\ InTrace' = InTrace
  BY DEF TraceInv, InTrace
<1>2. AllRacing' = AllRacing
  BY DEF AllRacing, Racing
<1>3. RelevantGoroutines' = RelevantGoroutines
  BY <1>1, <1>2 DEF RelevantGoroutines
<1>4. bounds' = bounds => Relevant' = Relevant /\ \A g : SegmentsOf(g)' = SegmentsOf(g)
  BY <1>2, <1>3 DEF Relevant, SegmentsOf, Segments
<1>5. \A g : TestOf(g)' = TestOf(g)
  BY <1>1 DEF TestOf, Racing
<1>6. \A g : BestRunningWindow(g)' = BestRunningWindow(g)
  BY <1>1 DEF BestRunningWindow
<1>7. bounds' = bounds => \A r : ZoneOf(r)' = ZoneOf(r)
  BY <1>6 DEF ZoneOf
<1> QED BY <1>1, <1>2, <1>3, <1>4, <1>5, <1>7

LEMMA RecordInvariant ==
  ASSUME IInv, NEW g \in Gid, Record(g)
  PROVE  IInv'
<1>1. TypeOK /\ TraceInv
  BY DEF IInv
<1> DEFINE time == maxTime + Unit
<1>2. PICK s \in NextStates(status[g]) :
        /\ status' = [status EXCEPT ![g] = s]
        /\ evs' = [evs EXCEPT ![g] =
                      Append(@, [time |-> time, from |-> status[g], to |-> s])]
  BY DEF Record
<1>3. /\ maxTime' = time /\ minTime' = IF minTime = 0 THEN Unit ELSE minTime
      /\ time <= Unit * MaxEvents /\ traced
      /\ pc = "record" /\ UNCHANGED <<traced, races, pc, todo, bounds, lanes, zones, groups>>
  BY DEF Record, timelineVars
<1>4. /\ minTime \in Nat /\ maxTime \in Nat /\ Unit = 20 /\ Unit * MaxEvents \in Nat
      /\ minTime <= maxTime /\ minTime \in 0 .. Unit * MaxEvents
  BY <1>1, TraceTimes, TimeIsNat DEF Unit, TraceInv, TypeOK
<1>5. status[g] \in GoState /\ s \in GoState
  BY <1>1 DEF TypeOK, NextStates, GoState
<1> DEFINE m == Unit * MaxEvents
<1>6. time \in Nat /\ time \in 0 .. Unit * MaxEvents /\ time \in Time /\ maxTime < time
      /\ minTime' \in 0 .. Unit * MaxEvents /\ minTime' <= time /\ minTime' \in Nat
      /\ 0 < minTime' /\ (minTime # 0 => minTime' = minTime)
  <2>1. m \in Nat /\ time <= m /\ minTime <= m
    BY <1>3, <1>4
  <2> HIDE DEF m
  <2>2. time \in Nat /\ maxTime < time /\ time \in 0 .. m /\ Unit <= time
    BY <2>1, <1>4
  <2>3. /\ minTime' \in Nat /\ 0 < minTime' /\ (minTime # 0 => minTime' = minTime)
        /\ minTime' <= time
    BY <2>2, <1>3, <1>4
  <2>4. minTime' \in 0 .. m
    BY <2>1, <2>2, <2>3
  <2> QED BY <2>2, <2>3, <2>4, TimeIsNat DEF m
<1> HIDE DEF time, m
<1> DEFINE e == [time |-> time, from |-> status[g], to |-> s]
<1>7. e \in Event /\ e.time = time
  BY <1>5, <1>6 DEF Event
<1>8. evs[g] \in Seq(Event) /\ evs \in [Gid -> Seq(Event)] /\ Append(evs[g], e) \in Seq(Event)
  BY <1>1, <1>7, AppendProperties DEF TypeOK
<1>9. evs' = [evs EXCEPT ![g] = Append(evs[g], e)]
  BY <1>2
<1> HIDE DEF e
<1>10. TypeOK'
  <2>1. status' \in [Gid -> GoState]
    BY <1>1, <1>2, <1>5 DEF TypeOK
  <2>2. birthTest' \in [Gid -> Test \cup {""}]
    BY <1>1 DEF Record, TypeOK
  <2>3. evs' \in [Gid -> Seq(Event)]
    BY <1>8, <1>9
  <2>4. maxTime' \in 0 .. Unit * MaxEvents /\ minTime' \in 0 .. Unit * MaxEvents
    BY <1>3, <1>6
  <2> QED BY <1>1, <1>3, <2>1, <2>2, <2>3, <2>4 DEF TypeOK
<1>11. TraceInv'
  <2>1. ASSUME NEW h \in Gid, NEW i \in DOMAIN evs'[h]
        PROVE  /\ minTime' <= evs'[h][i].time /\ evs'[h][i].time <= maxTime'
               /\ \A j \in DOMAIN evs'[h] : i < j => evs'[h][i].time < evs'[h][j].time
    <3>1. /\ Len(evs[h]) \in Nat /\ DOMAIN evs[h] = 1 .. Len(evs[h])
          /\ \A k \in 1 .. Len(evs[h]) :
               /\ evs[h][k].time \in Nat /\ minTime <= evs[h][k].time /\ evs[h][k].time <= maxTime
               /\ \A j \in 1 .. Len(evs[h]) : k < j => evs[h][k].time < evs[h][j].time
      BY <1>1, EventsOrdered DEF Ordered
    <3>2. DOMAIN evs[h] # {} => minTime # 0
      <4>1. ASSUME NEW k \in DOMAIN evs[h] PROVE minTime # 0
        <5>1. 1 \in DOMAIN evs[h]
          BY <3>1
        <5>2. h \in InTrace
          BY <5>1, <1>1, EventsOrdered
        <5>3. maxTime # 0
          BY <5>2, <1>1 DEF TraceInv
        <5> QED BY <5>3, <1>1, <1>4 DEF TraceInv
      <4> QED BY <4>1
    <3>3. \A k \in 1 .. Len(evs[h]) :
            /\ minTime' <= evs[h][k].time /\ evs[h][k].time < time
            /\ evs[h][k].time <= maxTime'
      BY <3>1, <3>2, <1>3, <1>4, <1>6
    <3>4. CASE h = g
      <4>1. evs'[h] = Append(evs[g], e)
        BY <3>4, <1>8, <1>9
      <4>2. /\ DOMAIN Append(evs[g], e) = 1 .. Len(evs[g]) + 1
            /\ \A k \in 1 .. Len(evs[g]) : Append(evs[g], e)[k] = evs[g][k]
            /\ Append(evs[g], e)[Len(evs[g]) + 1] = e
        BY <1>7, <1>8, AppendProperties, LenProperties
      <4>3. ASSUME NEW k \in DOMAIN evs'[h]
            PROVE  \/ k \in 1 .. Len(evs[h]) /\ evs'[h][k] = evs[h][k]
                   \/ k = Len(evs[h]) + 1 /\ evs'[h][k].time = time
        BY <3>1, <3>4, <4>1, <4>2, <1>7
      <4>4. minTime' <= evs'[h][i].time /\ evs'[h][i].time <= maxTime'
        BY <4>3, <3>3, <1>3, <1>6
      <4>5. ASSUME NEW j \in DOMAIN evs'[h], i < j PROVE evs'[h][i].time < evs'[h][j].time
        <5>1. i \in 1 .. Len(evs[h]) /\ evs'[h][i] = evs[h][i]
          BY <3>1, <3>4, <4>1, <4>2, <4>3, <4>5
        <5> QED BY <3>1, <3>3, <4>3, <4>5, <5>1
      <4> QED BY <4>4, <4>5
    <3>5. CASE h # g
      <4>1. evs'[h] = evs[h]
        BY <3>5, <1>8, <1>9
      <4> QED BY <3>1, <3>3, <4>1
    <3> QED BY <3>4, <3>5
  <2>2. minTime' <= maxTime' /\ maxTime' # 0 /\ traced' /\ 0 < minTime'
    BY <1>3, <1>4, <1>6
  <2> QED BY <2>1, <2>2 DEF TraceInv
<1>12. BoundsInv' /\ ZonesInv' /\ GroupsInv'
  BY <1>3 DEF BoundsInv, ZonesInv, GroupsInv
<1>13. LanesInv'
  <2>1. lanes' = <<>> /\ zones' = <<>> /\ groups' = <<>>
    BY <1>3 DEF IInv, LanesInv
  <2>2. DOMAIN lanes' = {}
    BY <2>1
  <2> QED BY <1>3, <2>1, <2>2 DEF LanesInv, LanesAreOfTrace
<1> QED BY <1>10, <1>11, <1>12, <1>13 DEF IInv

LEMMA BeginInvariant ==
  ASSUME IInv, BeginFromTrace \/ BeginSynthetic
  PROVE  IInv'
<1>1. TypeOK /\ TraceInv
  BY DEF IInv
<1>2. /\ pc = "record" /\ pc' = "lanes" /\ UNCHANGED inputVars
      /\ lanes' = lanes /\ zones' = zones /\ groups' = groups
  BY DEF BeginFromTrace, BeginSynthetic
<1>3. bounds' = IF maxTime # 0 THEN [min |-> minTime, max |-> maxTime, trace |-> TRUE]
                ELSE [min |-> 0, max |-> SyntheticDuration, trace |-> FALSE]
  BY DEF BeginFromTrace, BeginSynthetic
<1>4. bounds' \in [min : Time, max : Time, trace : BOOLEAN]
  <2>1. /\ minTime \in Time /\ maxTime \in Time /\ 0 \in Time /\ SyntheticDuration \in Time
        /\ TRUE \in BOOLEAN /\ FALSE \in BOOLEAN
    BY <1>1, TraceTimes, TimeIsNat
  <2> QED BY <2>1, <1>3
<1>5. /\ TraceInv' /\ RelevantGoroutines' = RelevantGoroutines /\ AllRacing' = AllRacing
  BY <1>1, <1>2, CorrelateKeeps
<1>6. todo' = Relevant'
  <2>1. CASE BeginFromTrace
    <3>1. bounds'.trace /\ todo' = RelevantGoroutines
      BY <2>1 DEF BeginFromTrace
    <3> QED BY <3>1, <1>5 DEF Relevant
  <2>2. CASE BeginSynthetic
    <3>1. ~bounds'.trace /\ todo' = AllRacing
      BY <2>2 DEF BeginSynthetic
    <3> QED BY <3>1, <1>5 DEF Relevant
  <2> QED BY <2>1, <2>2
<1>7. todo' \in SUBSET Gid
  <2>1. AllRacing \subseteq Gid
    BY <1>1, RelevantTyped
  <2>2. RelevantGoroutines \subseteq Gid
    BY <2>1 DEF RelevantGoroutines, InTrace
  <2> QED BY <2>1, <2>2, <1>5, <1>6 DEF Relevant
<1>8. TypeOK'
  BY <1>1, <1>2, <1>4, <1>7 DEF TypeOK, inputVars, traceVars
<1>9. BoundsInv'
  BY <1>2, <1>3 DEF BoundsInv, inputVars, traceVars
<1>10. LanesInv'
  <2>1. lanes' = <<>> /\ DOMAIN lanes' = {}
    BY <1>2 DEF IInv, LanesInv
  <2> QED BY <2>1, <1>2, <1>6 DEF LanesInv, LanesAreOfTrace
<1>11. ZonesInv' /\ GroupsInv'
  BY <1>2 DEF ZonesInv, GroupsInv
<1> QED BY <1>5, <1>8, <1>9, <1>10, <1>11 DEF IInv

LEMMA AddLaneInvariant ==
  ASSUME IInv, NEW g \in Gid, AddLane(g)
  PROVE  IInv'
<1>1. TypeOK /\ TraceInv /\ BoundsInv /\ LanesInv
  BY DEF IInv
<1> DEFINE l == LaneOf(g, SegmentsOf(g))
<1>2. /\ pc = "lanes" /\ g \in todo /\ todo' = todo \ {g} /\ lanes' = Append(lanes, l)
      /\ UNCHANGED inputVars /\ pc' = pc /\ bounds' = bounds /\ zones' = zones /\ groups' = groups
  BY DEF AddLane
<1>3. l \in Lane /\ l.id = g /\ l.segments = SegmentsOf(g)
  BY <1>1, LaneOfTyped
<1> HIDE DEF l
<1>4. /\ lanes \in Seq(Lane) /\ Len(lanes) \in Nat /\ DOMAIN lanes = 1 .. Len(lanes)
  BY <1>1, LanesTyped DEF TypeOK
<1>5. /\ lanes' \in Seq(Lane) /\ DOMAIN lanes' = 1 .. Len(lanes) + 1
      /\ \A i \in 1 .. Len(lanes) : lanes'[i] = lanes[i]
      /\ lanes'[Len(lanes) + 1] = l
  BY <1>2, <1>3, <1>4, AppendProperties, LenProperties
<1>6. TypeOK'
  BY <1>1, <1>2, <1>5 DEF TypeOK, inputVars, traceVars
<1>7. TraceInv' /\ Relevant' = Relevant /\ \A h : SegmentsOf(h)' = SegmentsOf(h)
  BY <1>1, <1>2, CorrelateKeeps
<1>8. BoundsInv'
  BY <1>1, <1>2 DEF BoundsInv, inputVars, traceVars
<1>9. LanesInv'
  <2>1. {lanes[i].id : i \in DOMAIN lanes} = Relevant \ todo /\ todo \subseteq Relevant
    BY <1>1, <1>2 DEF LanesInv
  <2>2. \A h : (\E i \in DOMAIN lanes' : lanes'[i].id = h)
                 <=> h = g \/ \E i \in DOMAIN lanes : lanes[i].id = h
    <3>1. \A i \in DOMAIN lanes : i \in DOMAIN lanes' /\ lanes'[i].id = lanes[i].id
      BY <1>4, <1>5
    <3>2. Len(lanes) + 1 \in DOMAIN lanes' /\ lanes'[Len(lanes) + 1].id = g
      BY <1>3, <1>4, <1>5
    <3>3. \A i \in DOMAIN lanes' : i = Len(lanes) + 1 \/ i \in DOMAIN lanes
      BY <1>4, <1>5
    <3> TAKE h
    <3>4. ASSUME NEW i \in DOMAIN lanes', lanes'[i].id = h
          PROVE  h = g \/ \E j \in DOMAIN lanes : lanes[j].id = h
      <4>1. CASE i = Len(lanes) + 1
        BY <4>1, <3>2, <3>4
      <4>2. CASE i \in DOMAIN lanes
        BY <4>2, <3>1, <3>4
      <4> QED BY <4>1, <4>2, <3>3
    <3>5. ASSUME NEW j \in DOMAIN lanes, lanes[j].id = h
          PROVE  \E i \in DOMAIN lanes' : lanes'[i].id = h
      BY <3>1, <3>5
    <3>6. h = g => \E i \in DOMAIN lanes' : lanes'[i].id = h
      BY <3>2
    <3> QED BY <3>4, <3>5, <3>6
  <2>3. {lanes'[i].id : i \in DOMAIN lanes'} = Relevant \ todo'
    <3>1. \A h : h \in Relevant \ todo' <=> h = g \/ h \in Relevant \ todo
      BY <2>1, <1>2
    <3>2. \A h : h \in Relevant \ todo <=> \E i \in DOMAIN lanes : lanes[i].id = h
      BY <2>1
    <3> HIDE DEF Relevant
    <3> QED BY ONLY <3>1, <3>2, <2>2
  <2>4. todo' \subseteq Relevant
    BY <2>1, <1>2
  <2>5. \A i \in DOMAIN lanes' : lanes'[i].segments = SegmentsOf(lanes'[i].id)
    <3>1. \A i \in DOMAIN lanes : lanes[i].segments = SegmentsOf(lanes[i].id)
      BY <1>1 DEF LanesInv, LanesAreOfTrace
    <3> QED BY <3>1, <1>3, <1>4, <1>5
  <2>6. LanesAreOfTrace'
    BY <2>5, <1>7 DEF LanesAreOfTrace
  <2> QED BY <2>3, <2>4, <2>6, <1>2, <1>7 DEF LanesInv
<1>10. ZonesInv' /\ GroupsInv'
  BY <1>2 DEF ZonesInv, GroupsInv
<1> QED BY <1>6, <1>7, <1>8, <1>9, <1>10 DEF IInv

LEMMA SortLanesInvariant ==
  ASSUME IInv, SortLanes
  PROVE  IInv'
<1>1. TypeOK /\ TraceInv /\ BoundsInv /\ LanesInv
  BY DEF IInv
<1>2. /\ pc = "lanes" /\ todo = {} /\ todo' = todo /\ pc' = "zones"
      /\ lanes' \in Listings(Range(lanes)) /\ SortedByID(lanes')
      /\ UNCHANGED inputVars /\ bounds' = bounds /\ zones' = zones /\ groups' = groups
  BY DEF SortLanes
<1>3. lanes \in Seq(Lane) /\ IsFiniteSet(Range(lanes))
  BY <1>1, FiniteSeqRange DEF TypeOK
<1>4. lanes' \in Seq(Range(lanes)) /\ \A x : x \in Range(lanes) <=> \E i \in DOMAIN lanes' : lanes'[i] = x
  BY <1>2, <1>3, ListingProperties
<1>5. \A x : (\E i \in DOMAIN lanes : lanes[i] = x) <=> \E i \in DOMAIN lanes' : lanes'[i] = x
  BY <1>4, RangeProperties
<1>6. lanes' \in Seq(Lane)
  <2>1. Range(lanes) \subseteq Lane
    BY <1>1, LanesTyped, RangeProperties
  <2> QED BY <2>1, <1>4, SeqMonotonic
<1>7. TypeOK'
  BY <1>1, <1>2, <1>6 DEF TypeOK, inputVars, traceVars
<1>8. TraceInv' /\ Relevant' = Relevant /\ \A h : SegmentsOf(h)' = SegmentsOf(h)
  BY <1>1, <1>2, CorrelateKeeps
<1>9. BoundsInv'
  BY <1>1, <1>2 DEF BoundsInv, inputVars, traceVars
<1>10. LanesInv'
  <2>1. {lanes[i].id : i \in DOMAIN lanes} = Relevant \ todo
    BY <1>1, <1>2 DEF LanesInv
  <2>2. {lanes'[i].id : i \in DOMAIN lanes'} = {lanes[i].id : i \in DOMAIN lanes}
    BY <1>5
  <2>3. \A i \in DOMAIN lanes : lanes[i].segments = SegmentsOf(lanes[i].id)
    BY <1>1 DEF LanesInv, LanesAreOfTrace
  <2>4. \A i \in DOMAIN lanes' : lanes'[i].segments = SegmentsOf(lanes'[i].id)
    BY <2>3, <1>5
  <2>5. LanesAreOfTrace'
    BY <2>4, <1>8 DEF LanesAreOfTrace
  <2>6. SortedByID(lanes)'
    BY <1>2 DEF SortedByID
  <2> QED BY <2>1, <2>2, <2>5, <2>6, <1>2, <1>8 DEF LanesInv
<1>11. ZonesInv' /\ GroupsInv'
  BY <1>2 DEF ZonesInv, GroupsInv
<1> QED BY <1>7, <1>8, <1>9, <1>10, <1>11 DEF IInv

LEMMA BuildZonesInvariant ==
  ASSUME IInv, BuildZones
  PROVE  IInv'
<1>1. TypeOK /\ TraceInv /\ BoundsInv /\ LanesInv
  BY DEF IInv
<1> DEFINE L(i) == [lanes[i] EXCEPT !.collisions = CollisionIDs(lanes[i].id, zones')]
<1>2. /\ pc = "zones" /\ pc' = "groups" /\ UNCHANGED inputVars
      /\ zones' = [i \in DOMAIN races |-> ZoneOf(races[i])]
      /\ lanes' = [i \in DOMAIN lanes |-> L(i)]
      /\ todo' = todo /\ bounds' = bounds /\ groups' = groups
  BY DEF BuildZones
<1>3. \A i \in DOMAIN races : ZoneOf(races[i]) \in Zone /\ ZoneOf(races[i]).race = races[i].id
  BY <1>1, <1>2, RacesTyped, ZoneProperties
<1>4. zones' \in Seq(Zone)
  <2>1. DOMAIN races = 1 .. Len(races) /\ Len(races) \in Nat
    BY <1>1, RacesTyped
  <2>2. zones' \in [1 .. Len(races) -> Zone]
    BY <2>1, <1>2, <1>3
  <2> QED BY <2>1, <2>2, SeqDef
<1>5. ASSUME NEW g PROVE CollisionIDs(g, zones') \in SUBSET Nat
  <2>1. \A i \in DOMAIN zones' : zones'[i].race \in Nat
    BY <1>1, <1>2, <1>3, RacesTyped
  <2> QED BY <2>1 DEF CollisionIDs
<1>6. ASSUME NEW i \in DOMAIN lanes
      PROVE  /\ L(i) \in Lane /\ L(i).id = lanes[i].id /\ L(i).segments = lanes[i].segments
             /\ L(i).collisions = CollisionIDs(lanes[i].id, zones')
  <2> DEFINE c == CollisionIDs(lanes[i].id, zones')
  <2>1. lanes[i] \in Lane /\ c \in SUBSET Nat
    BY <1>1, <1>5, LanesTyped
  <2>2. L(i) = [lanes[i] EXCEPT !.collisions = c]
    OBVIOUS
  <2> HIDE DEF c, L
  <2>3. /\ L(i) \in Lane /\ L(i).id = lanes[i].id /\ L(i).segments = lanes[i].segments
        /\ L(i).collisions = c
    BY <2>1, <2>2 DEF Lane
  <2> QED BY <2>3 DEF c
<1> HIDE DEF L
<1>7. DOMAIN lanes' = DOMAIN lanes /\ \A i \in DOMAIN lanes : lanes'[i] = L(i)
  BY <1>2
<1>8. lanes' \in Seq(Lane)
  <2>1. DOMAIN lanes = 1 .. Len(lanes) /\ Len(lanes) \in Nat
    BY <1>1, LanesTyped
  <2>2. lanes' \in [1 .. Len(lanes) -> Lane]
    BY <2>1, <1>2, <1>6
  <2> QED BY <2>1, <2>2, SeqDef
<1>9. TypeOK'
  BY <1>1, <1>2, <1>4, <1>8 DEF TypeOK, inputVars, traceVars
<1>10. /\ TraceInv' /\ Relevant' = Relevant /\ \A h : SegmentsOf(h)' = SegmentsOf(h)
       /\ \A r : ZoneOf(r)' = ZoneOf(r)
  BY <1>1, <1>2, CorrelateKeeps
<1>11. BoundsInv'
  BY <1>1, <1>2 DEF BoundsInv, inputVars, traceVars
<1>12. LanesInv'
  <2>1. {lanes[i].id : i \in DOMAIN lanes} = Relevant \ todo /\ todo = {} /\ SortedByID(lanes)
    BY <1>1, <1>2 DEF LanesInv
  <2>2. \A i \in DOMAIN lanes : lanes'[i].id = lanes[i].id
    BY <1>6, <1>7
  <2>3. {lanes'[i].id : i \in DOMAIN lanes'} = Relevant \ todo
    BY <2>1, <2>2, <1>7
  <2>4. SortedByID(lanes)'
    BY <2>1, <2>2, <1>7 DEF SortedByID
  <2>5. \A i \in DOMAIN lanes : lanes[i].segments = SegmentsOf(lanes[i].id)
    BY <1>1 DEF LanesInv, LanesAreOfTrace
  <2>6. LanesAreOfTrace'
    BY <2>5, <1>6, <1>7, <1>10 DEF LanesAreOfTrace
  <2> QED BY <2>1, <2>3, <2>4, <2>6, <1>2, <1>10 DEF LanesInv
<1>13. ZonesInv'
  <2>1. ZonesAreOfRaces'
    BY <1>2, <1>10 DEF ZonesAreOfRaces, inputVars
  <2>2. LanesListRaces'
    BY <1>6, <1>7 DEF LanesListRaces, CollisionIDs
  <2> QED BY <2>1, <2>2 DEF ZonesInv
<1>14. GroupsInv'
  BY <1>2 DEF GroupsInv
<1> QED BY <1>9, <1>10, <1>11, <1>12, <1>13, <1>14 DEF IInv

(* The groups are those of tests, lanes and zones. *)
LEMMA NamesKeep ==
  ASSUME \A g : TestOf(g)' = TestOf(g), lanes' = lanes, zones' = zones
  PROVE  Listings(Names)' = Listings(Names) /\ \A name : GroupsOf(name)' = GroupsOf(name)
<1>1. (\A l : LaneGroup(l)' = LaneGroup(l)) /\ \A z : ZoneGroup(z)' = ZoneGroup(z)
  BY DEF LaneGroup, ZoneGroup
<1>2. Names' = Names
  BY <1>1 DEF Names
<1>3. \A name : GroupZones(name)' = GroupZones(name)
  BY <1>1 DEF GroupZones
<1>4. \A name : GroupLanes(name)' = GroupLanes(name)
  BY <1>1, <1>3 DEF GroupLanes
<1>5. \A name : GroupsOf(name)' = GroupsOf(name)
  BY <1>3, <1>4 DEF GroupsOf
<1>6. Listings(Names)' = Listings(Names)
  BY <1>2 DEF Listings
<1> QED BY <1>5, <1>6

LEMMA BuildGroupsInvariant ==
  ASSUME IInv, BuildGroups
  PROVE  IInv'
<1>1. TypeOK /\ TraceInv /\ BoundsInv /\ LanesInv /\ ZonesInv
  BY DEF IInv
<1>2. /\ pc = "groups" /\ pc' = "done" /\ UNCHANGED inputVars
      /\ todo' = todo /\ bounds' = bounds /\ lanes' = lanes /\ zones' = zones
  BY DEF BuildGroups
<1>3. PICK order \in Listings(Names) :
        /\ SortedNames(order)
        /\ groups' \in [DOMAIN order -> UNION {GroupsOf(name) : name \in Names}]
        /\ \A i \in DOMAIN order : groups'[i] \in GroupsOf(order[i])
  BY DEF BuildGroups
<1>4. DOMAIN groups' = DOMAIN order
  BY <1>3
<1>5. /\ DOMAIN order = 1 .. Len(order) /\ Len(order) \in Nat
      /\ \A i \in DOMAIN order : order[i] \in Test \cup {"other"}
  BY <1>1, <1>3, NamesFinite, NamesTyped, ListingProperties
<1>6. groups' \in Seq(Group)
  <2>1. \A i \in DOMAIN order : groups'[i] \in Group
    BY <1>1, <1>3, <1>5, GroupTyped
  <2>2. groups' \in [1 .. Len(order) -> Group]
    BY <2>1, <1>3, <1>5
  <2> QED BY <2>2, <1>5, SeqDef
<1>7. TypeOK'
  BY <1>1, <1>2, <1>6 DEF TypeOK, inputVars, traceVars
<1>8. /\ TraceInv' /\ Relevant' = Relevant /\ \A h : SegmentsOf(h)' = SegmentsOf(h)
      /\ (\A r : ZoneOf(r)' = ZoneOf(r)) /\ \A g : TestOf(g)' = TestOf(g)
  BY <1>1, <1>2, CorrelateKeeps
<1>9. BoundsInv'
  BY <1>1, <1>2 DEF BoundsInv, inputVars, traceVars
<1>10. LanesInv'
  <2>1. LanesAreOfTrace'
    BY <1>1, <1>2, <1>8 DEF LanesInv, LanesAreOfTrace
  <2> QED BY <2>1, <1>1, <1>2, <1>8 DEF LanesInv, SortedByID
<1>11. ZonesInv'
  <2>1. ZonesAreOfRaces'
    BY <1>1, <1>2, <1>8 DEF ZonesInv, ZonesAreOfRaces, inputVars
  <2>2. LanesListRaces'
    BY <1>1, <1>2 DEF ZonesInv, LanesListRaces, CollisionIDs
  <2> QED BY <2>1, <2>2 DEF ZonesInv
<1>12. GroupsInv'
  <2>1. Listings(Names)' = Listings(Names) /\ \A name : GroupsOf(name)' = GroupsOf(name)
    BY <1>2, <1>8, NamesKeep
  <2>2. SortedNames(order)' <=> SortedNames(order)
    BY DEF SortedNames, NameLess
  <2> QED BY <1>3, <1>4, <2>1, <2>2 DEF GroupsInv
<1> QED BY <1>7, <1>8, <1>9, <1>10, <1>11, <1>12 DEF IInv

LEMMA StutterInvariant ==
  ASSUME IInv, UNCHANGED vars
  PROVE  IInv'
<1>1. /\ UNCHANGED inputVars /\ pc' = pc /\ todo' = todo /\ bounds' = bounds
      /\ lanes' = lanes /\ zones' = zones /\ groups' = groups
  BY DEF vars, timelineVars
<1>2. /\ TraceInv' /\ Relevant' = Relevant /\ \A g : SegmentsOf(g)' = SegmentsOf(g)
      /\ (\A r : ZoneOf(r)' = ZoneOf(r)) /\ \A g : TestOf(g)' = TestOf(g)
  BY <1>1, CorrelateKeeps DEF IInv
<1>3. TypeOK'
  BY <1>1 DEF IInv, TypeOK, inputVars, traceVars
<1>4. BoundsInv'
  BY <1>1 DEF IInv, BoundsInv, inputVars, traceVars
<1>5. LanesInv'
  BY <1>1, <1>2 DEF IInv, LanesInv, LanesAreOfTrace, SortedByID
<1>6. ZonesInv'
  BY <1>1, <1>2 DEF IInv, ZonesInv, ZonesAreOfRaces, LanesListRaces, CollisionIDs, inputVars
<1>7. GroupsInv'
  BY <1>1, <1>2, NamesKeep DEF IInv, GroupsInv, SortedNames, NameLess
<1> QED BY <1>2, <1>3, <1>4, <1>5, <1>6, <1>7 DEF IInv

LEMMA StepInvariant == IInv /\ [Next]_vars => IInv'
<1> SUFFICES ASSUME IInv, [Next]_vars PROVE IInv'
  OBVIOUS
<1>1. ASSUME NEW g \in Gid, Record(g) PROVE IInv'
  BY <1>1, RecordInvariant
<1>2. ASSUME NEW g \in Gid, AddLane(g) PROVE IInv'
  BY <1>2, AddLaneInvariant
<1>3. CASE BeginFromTrace \/ BeginSynthetic
  BY <1>3, BeginInvariant
<1>4. CASE SortLanes
  BY <1>4, SortLanesInvariant
<1>5. CASE BuildZones
  BY <1>5, BuildZonesInvariant
<1>6. CASE BuildGroups
  BY <1>6, BuildGroupsInvariant
<1>7. CASE UNCHANGED vars
  BY <1>7, StutterInvariant
<1> QED BY <1>1, <1>2, <1>3, <1>4, <1>5, <1>6, <1>7 DEF Next

------------------------------------------------------------------------------
(***************************************************************************)
(* IInv holds in every reachable state (correlator.go:86-523).             *)
(***************************************************************************)
THEOREM Invariance == Spec => []IInv
BY InitInvariant, StepInvariant, PTL DEF Spec

(***************************************************************************)
(* The timeline keeps its types (correlator.go:26-79): no lane, zone or    *)
(* group has goroutine 0 or a time outside of the bounds.                  *)
(***************************************************************************)
THEOREM TypeCorrect == Spec => []TypeOK
<1>1. IInv => TypeOK
  BY DEF IInv
<1> QED BY Invariance, <1>1, PTL

(***************************************************************************)
(* Lanes show the trace, gapless and without overlap, for traces of any    *)
(* length and goroutines (correlator.go:121-182).                          *)
(***************************************************************************)
THEOREM LanesAreTheTrace == Spec => []LanesShowTheTrace
BY Invariance, DoneShowsTheTrace, PTL

(***************************************************************************)
(* Zones are periods in which both goroutines ran, or begin where B last   *)
(* began to (correlator.go:219-271, 462-498).                              *)
(***************************************************************************)
THEOREM ZonesRun == Spec => []ZonesAreRunningPeriods
BY Invariance, DoneZonesAreRunning, PTL

(***************************************************************************)
(* Every race has a zone in one group, and lanes that list it; groups and  *)
(* lanes are in an order of their own (correlator.go:178-181, 336-401).    *)
(***************************************************************************)
THEOREM RacesAreShown == Spec => []EveryRaceIsShown
BY Invariance, DoneShowsRaces, PTL

(***************************************************************************)
(* A lane is marked in its group for the races shown there only, and each  *)
(* of those marks one (correlator.go:380-398).                             *)
(***************************************************************************)
THEOREM MarksScoped == Spec => []MarksAreScoped
BY Invariance, DoneScopesMarks, PTL
==============================================================================

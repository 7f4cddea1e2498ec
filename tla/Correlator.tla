------------------------------ MODULE Correlator ------------------------------
(***************************************************************************)
(* Correlate (correlator/correlator.go:86-523): race events and a          *)
(* scheduler trace become a timeline of lanes, collision zones and test    *)
(* groups.  The trace is one that a run of the goroutines produces here,   *)
(* transition by transition, as ParseTraceOutput returns it; the races are *)
(* any of Races.  Where Go ranges over a map, the order is any.            *)
(***************************************************************************)
EXTENDS Naturals, Sequences, FiniteSets, FiniteSetsExt, Functions

CONSTANTS
  Gid,                  \* goroutines of the trace
  Tests,                \* names of tests, in the order of strings
  Races,                \* lists of race events, as ParseRaceOutput returns them
  MaxEvents,            \* bound: transitions in the trace
  MaxRunning            \* GOMAXPROCS of the traced run

Test == Range(Tests)

(* The goroutines of the accesses and what inferTestFromRace (408-417) finds in
   the creation stacks, none of which is read when an access is not: 0. *)
Race == {r \in [id : Nat, a : Gid \cup {0}, b : Gid \cup {0}, test : Test \cup {""}] :
           0 \in {r.a, r.b} => r.test = ""}

ASSUME CorrelatorAssumption ==
  /\ Gid \subseteq Nat \ {0} /\ IsFiniteSet(Gid)
  /\ Tests \in Seq(STRING) /\ "" \notin Test /\ "other" \notin Test
  /\ \A i, j \in DOMAIN Tests : Tests[i] = Tests[j] => i = j
  /\ Races \subseteq Seq(Race)
  /\ MaxEvents \in Nat /\ MaxRunning \in Nat

VARIABLES
  status,               \* the goroutines' states while the trace is recorded
  birthTest,            \* TestName of the creation of a goroutine, "" for none
  traced,               \* there is a trace: tr is not nil
  evs,                  \* its transitions by goroutine, as in tr.Goroutines
  minTime, maxTime,     \* tr.MinTime, tr.MaxTime; 0 if it has no transition
  races,
  pc,                   \* the step of Correlate
  todo,                 \* goroutines that still get a lane
  bounds,               \* MinTimeNs, MaxTimeNs, HasTraceData
  lanes, zones, groups

traceVars    == <<evs, minTime, maxTime>>
inputVars    == <<status, birthTest, traced, traceVars, races>>
timelineVars == <<bounds, lanes, zones, groups>>
vars         == <<inputVars, pc, todo, timelineVars>>

GoState == {"undetermined", "notexist", "runnable", "running", "waiting"}

(* Times are multiples of 20, so that a 20th of a duration is not always 0. *)
Unit == 20
SyntheticDuration == Unit
Time == 0 .. Unit * (2 * MaxEvents + 2)

Event   == [time : Time, from : GoState, to : GoState]
Segment == [start : Time, end : Time, state : GoState]
Lane    == [id : Gid, segments : Seq(Segment), collisions : SUBSET Nat, hasRace : BOOLEAN]
Zone    == [start : Time, end : Time, a : Gid \cup {0}, b : Gid \cup {0}, race : Nat]
Group   == [test : Test \cup {"other"}, lanes : Seq(Lane), zones : SUBSET Zone]

TypeOK ==
  /\ status \in [Gid -> GoState]
  /\ birthTest \in [Gid -> Test \cup {""}]
  /\ traced \in BOOLEAN
  /\ evs \in [Gid -> Seq(Event)]
  /\ minTime \in 0 .. Unit * MaxEvents /\ maxTime \in 0 .. Unit * MaxEvents
  /\ races \in Races
  /\ pc \in {"record", "lanes", "zones", "groups", "done"}
  /\ todo \in SUBSET Gid
  /\ bounds \in [min : Time, max : Time, trace : BOOLEAN]
  /\ lanes \in Seq(Lane) /\ zones \in Seq(Zone) /\ groups \in Seq(Group)

Init ==
  /\ status \in [Gid -> {"undetermined", "notexist"}]
  /\ birthTest = [g \in Gid |-> ""]
  /\ traced \in BOOLEAN
  /\ evs = [g \in Gid |-> <<>>] /\ minTime = 0 /\ maxTime = 0
  /\ races \in Races
  /\ pc = "record"
  /\ todo = {}
  /\ bounds = [min |-> 0, max |-> 0, trace |-> FALSE]
  /\ lanes = <<>> /\ zones = <<>> /\ groups = <<>>

------------------------------------------------------------------------------
(* The traced run (external): a goroutine's first transition tells its state or
   is its birth, in a test or not.  What is kept of it is what ParseTraceOutput
   returns (parser/trace.go:192-207). *)

NextStates(s) ==
  CASE s = "undetermined" -> {"runnable", "running", "waiting"}
    [] s = "notexist"     -> {"runnable"}
    [] s = "runnable"     -> {"running"}
    [] s = "running"      -> {"runnable", "waiting", "notexist"}
    [] s = "waiting"      -> {"runnable"}

Record(g) ==
  /\ pc = "record"
  /\ traced /\ maxTime + Unit <= Unit * MaxEvents
  /\ status[g] = "notexist" => evs[g] = <<>>
  /\ \E s \in NextStates(status[g]) :
       /\ s = "running" => Cardinality({h \in Gid : status[h] = "running"}) < MaxRunning
       /\ status' = [status EXCEPT ![g] = s]
       /\ evs' = [evs EXCEPT ![g] =
                     Append(@, [time |-> maxTime + Unit, from |-> status[g], to |-> s])]
  /\ minTime' = IF minTime = 0 THEN Unit ELSE minTime
  /\ maxTime' = maxTime + Unit
  /\ \E t \in Test \cup {""} :
       /\ status[g] # "notexist" => t = birthTest[g]
       /\ birthTest' = [birthTest EXCEPT ![g] = t]
  /\ UNCHANGED <<traced, races, pc, todo, timelineVars>>

------------------------------------------------------------------------------
(* The goroutines of the trace and those of the races. *)

InTrace == {g \in Gid : evs[g] # <<>>}

Racing(race) == {race.a, race.b}

(* Mutant: without the test of goroutine 0. *)
AllRacingWithZero == UNION {Racing(races[i]) : i \in DOMAIN races}

AllRacing == (UNION {Racing(races[i]) : i \in DOMAIN races}) \ {0}

(* collectRelevantGoroutines (correlator.go:427-454). *)
RelevantGoroutines == AllRacing \cup {g \in InTrace : birthTest[g] # ""}

------------------------------------------------------------------------------
(* Lanes. *)

LaneOf(id, segments) ==
  [id |-> id, segments |-> segments, collisions |-> {}, hasRace |-> FALSE]

(* Correlate begins (correlator.go:93-104): with a trace that has events, the
   lanes are built from it, else one for each racing goroutine. *)
BeginFromTrace ==
  /\ pc = "record"
  /\ maxTime # 0
  /\ bounds' = [min |-> minTime, max |-> maxTime, trace |-> TRUE]
  /\ todo' = RelevantGoroutines
  /\ pc' = "lanes"
  /\ UNCHANGED <<inputVars, lanes, zones, groups>>

BeginSynthetic ==
  /\ pc = "record"
  /\ maxTime = 0
  /\ bounds' = [min |-> 0, max |-> SyntheticDuration, trace |-> FALSE]
  /\ todo' = AllRacing
  /\ pc' = "lanes"
  /\ UNCHANGED <<inputVars, lanes, zones, groups>>

(* Mutant: a goroutine older than the trace starts with its first event. *)
SegmentsWithoutFirst(es) ==
  [i \in DOMAIN es |->
     [start |-> es[i].time, state |-> es[i].to,
      end   |-> IF i < Len(es) THEN es[i + 1].time ELSE bounds.max]]

(* correlator.go:148-173: a segment after each event, and one before the first
   for a goroutine that is older than the trace. *)
Segments(es) ==
  (IF es # <<>> /\ es[1].from # "notexist"
   THEN <<[start |-> bounds.min, end |-> es[1].time, state |-> es[1].from]>>
   ELSE <<>>)
  \o [i \in DOMAIN es |->
        [start |-> es[i].time, state |-> es[i].to,
         end   |-> IF i < Len(es) THEN es[i + 1].time ELSE bounds.max]]

(* Without a trace, one segment for all of the time (correlator.go:190-210). *)
SegmentsOf(g) ==
  IF bounds.trace THEN Segments(evs[g])
  ELSE <<[start |-> 0, end |-> SyntheticDuration, state |-> "running"]>>

(* One turn of the loop over the goroutines; of those a trace does not have, the
   lane has no segments (correlator.go:126-176, 196-212). *)
AddLane(g) ==
  /\ pc = "lanes"
  /\ g \in todo
  /\ todo' = todo \ {g}
  /\ lanes' = Append(lanes, LaneOf(g, SegmentsOf(g)))
  /\ UNCHANGED <<inputVars, pc, bounds, zones, groups>>

(* The elements of S, each once, in any order: no goroutine has two lanes and no
   name two groups, so a list that is sorted keeps all of its elements. *)
Listings(S) == {s \in [1 .. Cardinality(S) -> S] : Range(s) = S}

SortedByID(s) == \A i, j \in DOMAIN s : i < j => s[i].id < s[j].id

SortLanes ==
  /\ pc = "lanes"
  /\ todo = {}
  /\ \E s \in Listings(Range(lanes)) : SortedByID(s) /\ lanes' = s
  /\ pc' = "zones"
  /\ UNCHANGED <<inputVars, todo, bounds, zones, groups>>

------------------------------------------------------------------------------
(* Collision zones. *)

(* bestRunningWindow (correlator.go:462-498): the last period of running; for a
   goroutine that never ran here, the time from its first to its last event;
   for one that is not in the trace, all of it. *)
BestRunningWindow(g) ==
  LET es   == evs[g]
      runs == {i \in DOMAIN es : es[i].to = "running"}
      last == Max(runs)
  IN  IF g \notin InTrace THEN <<minTime, maxTime>>
      ELSE IF runs = {} THEN <<es[1].time, es[Len(es)].time>>
      ELSE <<es[last].time, IF last < Len(es) THEN es[last + 1].time ELSE maxTime>>

max64(a, b) == IF a > b THEN a ELSE b
min64(a, b) == IF a < b THEN a ELSE b

(* Mutant: the earlier start. *)
ZoneFromEarlierStart(race) ==
  LET A == BestRunningWindow(race.a)
      B == BestRunningWindow(race.b)
      Window == IF ~traced THEN <<8, 12>> ELSE <<min64(A[1], B[1]), min64(A[2], B[2])>>
  IN  [start |-> Window[1], end |-> Window[2], a |-> race.a, b |-> race.b, race |-> race.id]

(* One turn of buildCollisionZones (correlator.go:229-268).  A trace without
   events is a trace there. *)
ZoneOf(race) ==
  LET A == BestRunningWindow(race.a)
      B == BestRunningWindow(race.b)
      start    == max64(A[1], B[1])
      end      == min64(A[2], B[2])
      duration == bounds.max - bounds.min
      Window   == IF ~traced THEN <<duration \div 2 - duration \div 10,
                                   duration \div 2 + duration \div 10>>
                  ELSE IF start < end THEN <<start, end>>
                  ELSE <<B[1], B[1] + duration \div 20>>
  IN  [start |-> Window[1], end |-> Window[2], a |-> race.a, b |-> race.b, race |-> race.id]

(* annotateLanes (correlator.go:277-289). *)
CollisionIDs(g, zs) == {zs[i].race : i \in {k \in DOMAIN zs : g \in {zs[k].a, zs[k].b}}}

BuildZones ==
  /\ pc = "zones"
  /\ zones' = [i \in DOMAIN races |-> ZoneOf(races[i])]
  /\ lanes' = [i \in DOMAIN lanes |->
                 [lanes[i] EXCEPT !.collisions = CollisionIDs(lanes[i].id, zones')]]
  /\ pc' = "groups"
  /\ UNCHANGED <<inputVars, todo, bounds, groups>>

------------------------------------------------------------------------------
(* Groups (correlator.go:300-402). *)

(* gidToTest: the trace's creation stack, else the first race that names a
   test; "" when neither does. *)
TestOf(g) ==
  LET named == {i \in DOMAIN races : races[i].test # "" /\ g \in Racing(races[i])}
  IN  IF g \in InTrace /\ birthTest[g] # "" THEN birthTest[g]
      ELSE IF named = {} THEN "" ELSE races[Min(named)].test

GroupName(t) == IF t = "" THEN "other" ELSE t

LaneGroup(lane) == GroupName(TestOf(lane.id))

(* Mutant: without the fallback to goroutine B. *)
ZoneGroupOfA(z) == GroupName(TestOf(z.a))

ZoneGroup(z) == GroupName(IF TestOf(z.a) # "" THEN TestOf(z.a) ELSE TestOf(z.b))

RacingFirst(l1, l2) ==
  IF l1.hasRace # l2.hasRace THEN l1.hasRace ELSE l1.id < l2.id

(* Mutant: whoever races anywhere is marked. *)
MarkedGlobally(lane, zs) == [lane EXCEPT !.hasRace = lane.collisions # {}]

(* HasRace: racing in one of the group's own zones. *)
Marked(lane, zs) == [lane EXCEPT !.hasRace = \E z \in zs : lane.id \in {z.a, z.b}]

GroupZones(name) == {z \in Range(zones) : ZoneGroup(z) = name}
GroupLanes(name) ==
  {Marked(l, GroupZones(name)) : l \in {m \in Range(lanes) : LaneGroup(m) = name}}

SortedRacingFirst(s) == \A i, j \in DOMAIN s : i < j => RacingFirst(s[i], s[j])

(* The group of a name, by its sorted lanes. *)
GroupsOf(name) ==
  {[test |-> name, zones |-> GroupZones(name), lanes |-> ls] :
     ls \in {s \in Listings(GroupLanes(name)) : SortedRacingFirst(s)}}

(* The order of the names, which the map gives in any order: "other" is last. *)
NameLess(t1, t2) ==
  /\ t1 # "other"
  /\ t2 = "other" \/ \E i, j \in DOMAIN Tests : i < j /\ Tests[i] = t1 /\ Tests[j] = t2

Names == {LaneGroup(l) : l \in Range(lanes)} \cup {ZoneGroup(z) : z \in Range(zones)}

SortedNames(s) == \A i, j \in DOMAIN s : i < j => NameLess(s[i], s[j])

BuildGroups ==
  /\ pc = "groups"
  /\ \E order \in {s \in Listings(Names) : SortedNames(s)} :
       groups' \in {gs \in [DOMAIN order -> UNION {GroupsOf(name) : name \in Names}] :
                      \A i \in DOMAIN order : gs[i] \in GroupsOf(order[i])}
  /\ pc' = "done"
  /\ UNCHANGED <<inputVars, todo, bounds, lanes, zones>>

------------------------------------------------------------------------------
Next ==
  \/ \E g \in Gid : Record(g) \/ AddLane(g)
  \/ BeginFromTrace \/ BeginSynthetic \/ SortLanes \/ BuildZones \/ BuildGroups

Spec == Init /\ [][Next]_vars

------------------------------------------------------------------------------
(* The state goroutine g was in at time t, by the trace. *)
StateAt(g, t) ==
  LET es   == evs[g]
      past == {i \in DOMAIN es : es[i].time <= t}
  IN  IF past = {} THEN es[1].from ELSE es[Max(past)].to

(***************************************************************************)
(* correlator.go:145-147: at every moment of the trace a lane shows        *)
(* exactly one segment and it has the state the goroutine was in, from the *)
(* beginning of the trace or its birth to the end of the trace.            *)
(***************************************************************************)
LanesShowTheTrace ==
  pc = "done" /\ bounds.trace =>
    \A i \in DOMAIN lanes : lanes[i].id \in InTrace =>
      LET segs == lanes[i].segments
      IN  \A t \in bounds.min .. bounds.max - 1 :
            LET here == {k \in DOMAIN segs : segs[k].start <= t /\ t < segs[k].end}
            IN  IF StateAt(lanes[i].id, t) = "notexist" /\ here = {}
                THEN t < segs[1].start
                ELSE \E k \in here : here = {k} /\ segs[k].state = StateAt(lanes[i].id, t)

Ran(g) == \E i \in DOMAIN evs[g] : evs[g][i].to = "running"

RunningTogether(a, b, start, end) ==
  \A t \in start .. end - 1 : StateAt(a, t) = "running" /\ StateAt(b, t) = "running"

(***************************************************************************)
(* correlator.go:225-227, ADR-006: if both goroutines of a race ran in the *)
(* trace, its zone is a period in which both were running, or begins where *)
(* B began to run for the last time.                                       *)
(***************************************************************************)
ZonesAreRunningPeriods ==
  pc = "done" /\ bounds.trace =>
    \A i \in DOMAIN zones :
      LET z == zones[i]
      IN  z.a \in Gid /\ z.b \in Gid /\ Ran(z.a) /\ Ran(z.b) =>
            \/ z.start < z.end /\ RunningTogether(z.a, z.b, z.start, z.end)
            \/ StateAt(z.b, z.start) = "running" /\ (\A t \in z.start .. bounds.max :
                 t > z.start /\ StateAt(z.b, t) = "running" =>
                   \A u \in z.start .. t : StateAt(z.b, u) = "running")

(***************************************************************************)
(* Every race has one zone, and the zone is in one group, under a test of  *)
(* one of its goroutines if either has one; every lane is in one group;    *)
(* every goroutine of a race has a lane that lists the race; the order     *)
(* never depends on a map's (correlator.go:178-181, 336-401).              *)
(***************************************************************************)
EveryRaceIsShown ==
  pc = "done" =>
    /\ \A i \in DOMAIN races :
         \E z \in Range(zones) :
           /\ z.race = races[i].id
           /\ \E k \in DOMAIN groups : \A j \in DOMAIN groups :
                z \in groups[j].zones <=> j = k
           /\ \A k \in DOMAIN groups :
                z \in groups[k].zones /\ groups[k].test = "other" =>
                  TestOf(z.a) = "" /\ TestOf(z.b) = ""
           /\ \A g \in Racing(races[i]) \ {0} :
                \E l \in Range(lanes) : l.id = g /\ races[i].id \in l.collisions
    /\ \A i, j \in DOMAIN lanes : i < j => lanes[i].id < lanes[j].id
    /\ \A l \in Range(lanes) :
         \E k \in DOMAIN groups : \A j \in DOMAIN groups :
           (\E m \in Range(groups[j].lanes) : m.id = l.id) <=> j = k
    /\ \A i \in DOMAIN groups : groups[i].test = "other" => i = Len(groups)

(***************************************************************************)
(* correlator.go:380-382: a lane is marked in its group only for a race    *)
(* that is shown there and in which its goroutine, or the one it races     *)
(* with, is of the group's test; and the group that shows a race marks a   *)
(* goroutine of it, before the lanes that are not marked.                  *)
(***************************************************************************)
MarksAreScoped ==
  pc = "done" =>
    /\ \A k \in DOMAIN groups : \A l \in Range(groups[k].lanes) : l.hasRace =>
         \E i \in DOMAIN races :
           /\ l.id \in Racing(races[i])
           /\ groups[k].test \in {GroupName(TestOf(g)) : g \in Racing(races[i])}
           /\ \E z \in groups[k].zones : z.race = races[i].id
    /\ \A k \in DOMAIN groups : \A z \in groups[k].zones :
         {z.a, z.b} # {0} =>
           /\ groups[k].lanes # <<>>
           /\ groups[k].lanes[1].hasRace
           /\ \E l \in Range(groups[k].lanes) : l.hasRace /\ l.id \in {z.a, z.b}
==============================================================================

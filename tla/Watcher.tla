------------------------------- MODULE Watcher -------------------------------
(***************************************************************************)
(* The polling file watcher of watch mode (main.go:181-261) against a      *)
(* developer who edits while it scans and while it analyses.  Every save   *)
(* gives a file a new modification time, which also names its content, so  *)
(* an analysis is known by the modification times of the files it read:    *)
(* once per pass-1 run, once for pass 2, once for the source snippets.     *)
(***************************************************************************)
EXTENDS Naturals, FiniteSets

CONSTANTS
  File,                 \* the .go files of the target directory
  Count,                \* the -count flag: runs of pass 1 in one analysis
  MaxEdits              \* bound: saves in one behaviour

ASSUME WatcherAssumption ==
  /\ IsFiniteSet(File)
  /\ Count \in Nat \ {0}
  /\ MaxEdits \in Nat

VARIABLES
  disk,                 \* modification time of each file, 0 when there is none
  clock,                \* the newest modification time given
  phase,                \* "initial": the analysis before the server starts;
                        \* "first": the snapshot at main.go:209; "loop": polling
  pc,                   \* the step of the scan or of the analysis
  names,                \* directory entries the scan has still to stat
  current,              \* the snapshot being taken: a map, as in Go
  snapshots,            \* the snapshot last acted upon
  runs,                 \* pass-1 runs done by the analysis in progress
  work,                 \* what the analysis in progress has read
  err,                  \* did the last analysis fail?
  timeline,             \* what the timeline being served was computed from
  acted                 \* history: has the loop ever found a change?

vars == <<disk, clock, phase, pc, names, current, snapshots, runs, work, err,
          timeline, acted>>

diskVars     == <<disk, clock>>
scanVars     == <<names, current>>
analysisVars == <<runs, work, err>>

Stamp    == 0 .. MaxEdits + 1
Present  == {f \in File : disk[f] # 0}
Contents == [File -> Stamp]
Snapshot == UNION {[S -> Stamp] : S \in SUBSET File}

(* A timeline, by the file contents its parts were computed from. *)
Timeline == [{"race", "trace", "source"} -> SUBSET Contents]

NoEntries == [f \in {} |-> 0]
Empty     == [race |-> {}, trace |-> {}, source |-> {}]

PC == {"readdir", "stat", "compare", "pass1", "source", "done"}

TypeOK ==
  /\ disk \in Contents
  /\ clock \in 1 .. MaxEdits + 1
  /\ phase \in {"initial", "first", "loop"}
  /\ pc \in PC
  /\ names \in SUBSET File
  /\ current \in Snapshot
  /\ snapshots \in Snapshot
  /\ runs \in 0 .. Count
  /\ work \in Timeline
  /\ err \in BOOLEAN
  /\ timeline \in Timeline
  /\ acted \in BOOLEAN

Init ==
  /\ disk \in [File -> {0, 1}]
  /\ clock = 1
  /\ phase = "initial"
  /\ pc = "pass1"
  /\ names = {}
  /\ current = NoEntries
  /\ snapshots = NoEntries
  /\ runs = 0
  /\ work = Empty
  /\ err = FALSE
  /\ timeline = Empty
  /\ acted = FALSE

------------------------------------------------------------------------------
(* The developer (external): a save or a new file, and a removal. *)

Save(f) ==
  /\ clock <= MaxEdits
  /\ clock' = clock + 1
  /\ disk' = [disk EXCEPT ![f] = clock + 1]
  /\ UNCHANGED <<phase, pc, scanVars, snapshots, analysisVars, timeline, acted>>

Remove(f) ==
  /\ clock <= MaxEdits
  /\ disk[f] # 0
  /\ clock' = clock + 1
  /\ disk' = [disk EXCEPT ![f] = 0]
  /\ UNCHANGED <<phase, pc, scanVars, snapshots, analysisVars, timeline, acted>>

------------------------------------------------------------------------------
(* goFileSnapshots (main.go:234-248): the names first, then each file's
   information, so files change between the two and between one another. *)

(* The 500ms sleep and the listing. *)
ReadDir ==
  /\ pc = "readdir"
  /\ pc' = "stat"
  /\ names' = Present
  /\ current' = NoEntries
  /\ UNCHANGED <<diskVars, phase, snapshots, analysisVars, timeline, acted>>

(* A listing that fails is an empty snapshot (main.go:237-239). *)
ReadDirFails ==
  /\ pc = "readdir"
  /\ pc' = "stat"
  /\ names' = {}
  /\ current' = NoEntries
  /\ UNCHANGED <<diskVars, phase, snapshots, analysisVars, timeline, acted>>

(* The map m after m[f] = time (main.go:243). *)
With(m, f, time) == [g \in DOMAIN m \cup {f} |-> IF g = f THEN time ELSE m[g]]

(* A file removed since the listing is left out. *)
Stat(f) ==
  /\ pc = "stat"
  /\ f \in names
  /\ names' = names \ {f}
  /\ current' = IF disk[f] # 0 THEN With(current, f, disk[f]) ELSE current
  /\ UNCHANGED <<diskVars, phase, pc, snapshots, analysisVars, timeline, acted>>

FirstSnapshot ==
  /\ pc = "stat" /\ names = {}
  /\ phase = "first"
  /\ snapshots' = current
  /\ current' = NoEntries
  /\ phase' = "loop"
  /\ pc' = "readdir"
  /\ UNCHANGED <<diskVars, names, analysisVars, timeline, acted>>

NextSnapshot ==
  /\ pc = "stat" /\ names = {}
  /\ phase = "loop"
  /\ pc' = "compare"
  /\ UNCHANGED <<diskVars, phase, scanVars, snapshots, analysisVars, timeline, acted>>

------------------------------------------------------------------------------
(* The polling loop (main.go:210-224). *)

(* Mutant: the lengths are not compared, so a new file goes unnoticed. *)
SnapshotsEqualNoLen(a, b) == \A k \in DOMAIN a : k \in DOMAIN b /\ b[k] = a[k]

(* snapshotsEqual (main.go:251-261). *)
SnapshotsEqual(a, b) ==
  /\ Cardinality(DOMAIN a) = Cardinality(DOMAIN b)
  /\ \A k \in DOMAIN a : k \in DOMAIN b /\ b[k] = a[k]

Same ==
  /\ pc = "compare"
  /\ SnapshotsEqual(snapshots, current)
  /\ current' = NoEntries
  /\ pc' = "readdir"
  /\ UNCHANGED <<diskVars, phase, names, snapshots, analysisVars, timeline, acted>>

(* The snapshot is replaced before the analysis it triggers. *)
Changed ==
  /\ pc = "compare"
  /\ ~SnapshotsEqual(snapshots, current)
  /\ snapshots' = current
  /\ current' = NoEntries
  /\ pc' = "pass1"
  /\ acted' = TRUE
  /\ UNCHANGED <<diskVars, phase, names, analysisVars, timeline>>

------------------------------------------------------------------------------
(***************************************************************************)
(* analyze (main.go:111-179), first for the initial timeline and then for  *)
(* the loop.  `go test` compiles what is on the disk when it runs.         *)
(***************************************************************************)
AfterAnalysis ==
  /\ pc' = "readdir"
  /\ phase' = IF phase = "initial" THEN "first" ELSE phase
  /\ runs' = 0
  /\ work' = Empty

(* Mutant: one run too many. *)
Pass1RunOffByOne ==
  /\ pc = "pass1"
  /\ runs <= Count
  /\ runs' = runs + 1
  /\ work' = [work EXCEPT !.race = @ \cup {disk}]
  /\ UNCHANGED <<diskVars, phase, pc, scanVars, snapshots, err, timeline, acted>>

(* One of the -count runs of pass 1; the first follows validateTarget, which
   wants a .go file (runner.go:56-90, 201-205). *)
Pass1Run ==
  /\ pc = "pass1"
  /\ runs < Count
  /\ runs = 0 => Present # {}
  /\ runs' = runs + 1
  /\ work' = [work EXCEPT !.race = @ \cup {disk}]
  /\ UNCHANGED <<diskVars, phase, pc, scanVars, snapshots, err, timeline, acted>>

(* Pass 2, unless pass 1 found no test, and then only if it left a trace that
   could be read (runner.go:101-156, main.go:142-160). *)
Pass2 ==
  /\ pc = "pass1"
  /\ runs = Count
  /\ pc' = "source"
  /\ \E t \in {{disk}, {}} : work' = [work EXCEPT !.trace = t]
  /\ UNCHANGED <<diskVars, phase, scanVars, snapshots, runs, err, timeline, acted>>

(* enrichWithSource, then enrichWithDWARF and Correlate. *)
ReadSource ==
  /\ pc = "source"
  /\ pc' = "done"
  /\ work' = [work EXCEPT !.source = {disk}]
  /\ UNCHANGED <<diskVars, phase, scanVars, snapshots, runs, err, timeline, acted>>

(* The target is not valid, a run does not build, or its output cannot be
   parsed: the loop continues with the timeline it had, and a failed initial
   analysis serves an empty one (main.go:190-193, 217-220). *)
AnalysisFails ==
  /\ pc = "pass1"
  /\ AfterAnalysis
  /\ err' = TRUE
  /\ UNCHANGED <<diskVars, scanVars, snapshots, timeline, acted>>

(* Mutant: the snapshot is taken after the analysis, so an edit made during
   the analysis is in it. *)
PublishThenSnapshot ==
  /\ pc = "done"
  /\ AfterAnalysis
  /\ timeline' = work
  /\ err' = FALSE
  /\ snapshots' = [f \in Present |-> disk[f]]
  /\ UNCHANGED <<diskVars, scanVars, acted>>

(* server.New at first, UpdateTimeline from the loop. *)
Publish ==
  /\ pc = "done"
  /\ AfterAnalysis
  /\ timeline' = work
  /\ err' = FALSE
  /\ UNCHANGED <<diskVars, scanVars, snapshots, acted>>

------------------------------------------------------------------------------
Developer == \E f \in File : Save(f) \/ Remove(f)

Watch ==
  \/ ReadDir \/ ReadDirFails \/ FirstSnapshot \/ NextSnapshot \/ Same \/ Changed
  \/ \E f \in File : Stat(f)

Analyze == Pass1Run \/ Pass2 \/ ReadSource \/ AnalysisFails \/ Publish

Next == Developer \/ Watch \/ Analyze

SafeSpec == Init /\ [][Next]_vars

(***************************************************************************)
(* The goroutine keeps running: the sleep ends and every `go test` is      *)
(* bounded by its -timeout flag; a readable directory is not reported      *)
(* unreadable for ever.  The developer owes nothing.                       *)
(***************************************************************************)
Spec == SafeSpec /\ WF_vars(Watch \/ Analyze) /\ SF_vars(ReadDir)

------------------------------------------------------------------------------
(* The file contents a timeline was computed from. *)
Reads(t) == t.race \cup t.trace \cup t.source

(* Files that are as in the snapshot acted upon were read as they are. *)
ReadAsOnDisk(t) ==
  \A f \in Present \cap DOMAIN snapshots :
    snapshots[f] = disk[f] => \A r \in Reads(t) : r[f] = disk[f]

(***************************************************************************)
(* Between analyses, a timeline whose analysis followed a change and       *)
(* succeeded is up to date in every existing file that the next scan would *)
(* find unchanged: in each run of pass 1, in pass 2 and in the snippets.   *)
(* Edits made while scanning or analysing are never lost, only found       *)
(* later, because main.go:214 comes before main.go:216.                    *)
(***************************************************************************)
WatchedTimelineIsFresh ==
  acted /\ ~err /\ pc \in {"readdir", "stat", "compare"} => ReadAsOnDisk(timeline)

(* The inductive invariant of the proofs: a save's modification time is newer
   than any in a snapshot, and what an analysis in progress has read is as
   fresh as what will be claimed of its timeline. *)
StampsKnown ==
  /\ \A f \in File : disk[f] <= clock
  /\ \A f \in DOMAIN snapshots : snapshots[f] <= clock
  /\ \A f \in DOMAIN current : current[f] <= clock

PhaseKnown == acted \/ pc = "compare" => phase = "loop"

IdleIsEmpty == pc \in {"readdir", "stat", "compare"} => runs = 0 /\ work = Empty

WorkIsFresh == acted /\ pc \in {"pass1", "source", "done"} => ReadAsOnDisk(work)

IInv ==
  /\ TypeOK
  /\ StampsKnown
  /\ PhaseKnown
  /\ IdleIsEmpty
  /\ WorkIsFresh
  /\ WatchedTimelineIsFresh

Differs(f) == IF f \in DOMAIN snapshots THEN snapshots[f] # disk[f] ELSE disk[f] # 0

AnalyzedAs(f, m) == Reads(timeline) # {} /\ \A r \in Reads(timeline) : r[f] = m

(***************************************************************************)
(* A file saved while the loop runs gets analysed everywhere in the new    *)
(* content, unless it changes again or an analysis fails.                  *)
(***************************************************************************)
WatchedSaveIsShown ==
  \A f \in File, m \in 1 .. MaxEdits + 1 :
    (phase = "loop" /\ disk[f] = m /\ Differs(f))
      ~> (disk[f] # m \/ err \/ AnalyzedAs(f, m))

(***************************************************************************)
(* main.go:9: "-watch re-analyze on every .go file change".  As above, for *)
(* a save at any time after the program started.                           *)
(***************************************************************************)
EverySaveIsShown ==
  \A f \in File, m \in 2 .. MaxEdits + 1 :
    disk[f] = m ~> (disk[f] # m \/ err \/ AnalyzedAs(f, m))
==============================================================================

---------------------------- MODULE WatcherProofs ----------------------------
(* Proofs about Watcher, for any finite set of files, any -count and any
   number of edits. *)
EXTENDS Watcher, FiniteSetTheorems, TLAPS

(* A snapshot is a map from some of the files to modification times. *)
LEMMA SnapshotDomain ==
  \A s \in Snapshot : /\ DOMAIN s \in SUBSET File
                      /\ \A f \in DOMAIN s : s[f] \in Stamp
                      /\ s = [f \in DOMAIN s |-> s[f]]
BY DEF Snapshot

(* The comparison of main.go:251-261 answers whether the maps are equal: with
   as many keys on both sides, looking up one side's keys is enough. *)
THEOREM SnapshotsEqualCorrect ==
  ASSUME NEW a \in Snapshot, NEW b \in Snapshot
  PROVE  SnapshotsEqual(a, b) <=> a = b
<1>1. /\ DOMAIN a \in SUBSET File /\ IsFiniteSet(DOMAIN a)
      /\ DOMAIN b \in SUBSET File /\ IsFiniteSet(DOMAIN b)
      /\ a = [f \in DOMAIN a |-> a[f]] /\ b = [f \in DOMAIN b |-> b[f]]
  <2>1. /\ DOMAIN a \in SUBSET File /\ a = [f \in DOMAIN a |-> a[f]]
        /\ DOMAIN b \in SUBSET File /\ b = [f \in DOMAIN b |-> b[f]]
    BY SnapshotDomain
  <2>2. IsFiniteSet(DOMAIN a) /\ IsFiniteSet(DOMAIN b)
    BY <2>1, WatcherAssumption, FS_Subset
  <2> QED BY <2>1, <2>2
<1>2. ASSUME SnapshotsEqual(a, b)
      PROVE  a = b
  <2>1. DOMAIN a \in SUBSET DOMAIN b
    BY <1>2 DEF SnapshotsEqual
  <2>2. DOMAIN b = DOMAIN a
    BY <1>1, <1>2, <2>1, FS_Subset DEF SnapshotsEqual
  <2> QED BY <1>1, <1>2, <2>2 DEF SnapshotsEqual
<1>3. ASSUME a = b
      PROVE  SnapshotsEqual(a, b)
  BY <1>3 DEF SnapshotsEqual
<1> QED BY <1>2, <1>3

------------------------------------------------------------------------------
(* Adding one file to a snapshot. *)
LEMMA SnapshotWith ==
  ASSUME NEW s \in Snapshot, NEW f \in File, NEW m \in Stamp
  PROVE  With(s, f, m) \in Snapshot
<1> DEFINE T == DOMAIN s \cup {f}
<1>1. /\ DOMAIN s \in SUBSET File
      /\ \A g \in DOMAIN s : s[g] \in Stamp
  BY SnapshotDomain
<1>2. [g \in T |-> IF g = f THEN m ELSE s[g]] \in [T -> Stamp]
  BY <1>1
<1>3. T \in SUBSET File
  BY <1>1
<1> QED BY <1>2, <1>3 DEF Snapshot, With

LEMMA InitIInv == Init => IInv
<1> SUFFICES ASSUME Init PROVE IInv
  OBVIOUS
<1>1. NoEntries \in Snapshot /\ DOMAIN NoEntries = {}
  BY DEF NoEntries, Snapshot
<1>2. Empty \in Timeline
  BY DEF Empty, Timeline
<1>3. TypeOK
  <2>1. {0, 1} \subseteq Stamp /\ 1 \in 1 .. MaxEdits + 1 /\ 0 \in 0 .. Count
    BY WatcherAssumption DEF Stamp
  <2>2. disk \in Contents
    BY <2>1 DEF Init, Contents
  <2> QED BY <1>1, <1>2, <2>1, <2>2 DEF Init, TypeOK, PC
<1>4. StampsKnown /\ PhaseKnown /\ IdleIsEmpty
  BY <1>1 DEF Init, StampsKnown, PhaseKnown, IdleIsEmpty
<1>5. WorkIsFresh /\ WatchedTimelineIsFresh
  BY DEF Init, WorkIsFresh, WatchedTimelineIsFresh
<1> QED BY <1>3, <1>4, <1>5 DEF IInv

(* An edit gives its file a modification time no snapshot has, or removes it,
   and so takes it out of what a timeline must be fresh for. *)
LEMMA EditKeepsFresh ==
  ASSUME NEW f \in File, NEW t, ReadAsOnDisk(t), UNCHANGED snapshots, disk \in Contents,
         \A g \in File \ {f} : disk'[g] = disk[g],
         \/ disk'[f] = 0
         \/ f \in DOMAIN snapshots => snapshots[f] # disk'[f]
  PROVE  \A g \in Present' \cap DOMAIN snapshots' :
           snapshots'[g] = disk'[g] => \A r \in Reads(t) : r[g] = disk'[g]
BY DEF ReadAsOnDisk, Present

LEMMA DeveloperIInv ==
  ASSUME IInv, Developer
  PROVE  IInv'
<1> USE DEF scanVars, analysisVars
<1>1. PICK f \in File : Save(f) \/ Remove(f)
  BY DEF Developer
<1>2. /\ UNCHANGED <<phase, pc, names, current, snapshots, runs, work, err, timeline, acted>>
      /\ clock \in Nat /\ clock <= MaxEdits /\ clock' = clock + 1
  BY <1>1, WatcherAssumption DEF Save, Remove, IInv, TypeOK
<1>3. /\ disk \in Contents /\ disk' \in Contents
      /\ \A g \in File \ {f} : disk'[g] = disk[g]
      /\ disk'[f] \in {0, clock + 1}
  <2>1. clock + 1 \in Stamp /\ 0 \in Stamp
    BY <1>2, WatcherAssumption DEF Stamp
  <2> QED BY <1>1, <2>1 DEF Save, Remove, IInv, TypeOK, Contents
<1>4. TypeOK'
  <2>1. clock' \in 1 .. MaxEdits + 1
    BY <1>2, WatcherAssumption DEF IInv, TypeOK
  <2>2. current' \in Snapshot /\ snapshots' \in Snapshot
    BY <1>2 DEF IInv, TypeOK
  <2> QED BY <1>2, <1>3, <2>1, <2>2 DEF IInv, TypeOK, PC
<1>5. /\ \A g \in DOMAIN snapshots : snapshots[g] \in Nat
      /\ \A g \in DOMAIN current : current[g] \in Nat
      /\ \A g \in File : disk[g] \in Nat
  BY SnapshotDomain, WatcherAssumption DEF IInv, TypeOK, Contents, Stamp
<1>6. StampsKnown'
  BY <1>2, <1>3, <1>5 DEF IInv, StampsKnown
<1>7. \/ disk'[f] = 0
      \/ f \in DOMAIN snapshots => snapshots[f] # disk'[f]
  BY <1>2, <1>3, <1>5 DEF IInv, StampsKnown
<1>8. WorkIsFresh'
  BY <1>2, <1>3, <1>7, EditKeepsFresh DEF IInv, WorkIsFresh, ReadAsOnDisk, Reads
<1>9. WatchedTimelineIsFresh'
  BY <1>2, <1>3, <1>7, EditKeepsFresh DEF IInv, WatchedTimelineIsFresh, ReadAsOnDisk, Reads
<1>10. PhaseKnown' /\ IdleIsEmpty'
  BY <1>2 DEF IInv, PhaseKnown, IdleIsEmpty, Empty
<1> QED BY <1>4, <1>6, <1>8, <1>9, <1>10 DEF IInv

(* The scanning half of the loop. *)
LEMMA WatchIInv ==
  ASSUME IInv, Watch
  PROVE  IInv'
<1> USE DEF diskVars, scanVars, analysisVars
<1>0. /\ TypeOK /\ StampsKnown /\ PhaseKnown /\ IdleIsEmpty /\ WorkIsFresh
      /\ WatchedTimelineIsFresh
  BY DEF IInv
<1>n. NoEntries \in Snapshot /\ DOMAIN NoEntries = {}
  BY DEF NoEntries, Snapshot
<1>1. CASE ReadDir \/ ReadDirFails
  <2>1. TypeOK'
    BY <1>0, <1>n, <1>1 DEF TypeOK, ReadDir, ReadDirFails, PC, Present
  <2>2. StampsKnown' /\ PhaseKnown' /\ IdleIsEmpty' /\ WorkIsFresh'
    BY <1>0, <1>n, <1>1 DEF StampsKnown, PhaseKnown, IdleIsEmpty, WorkIsFresh, ReadDir,
                            ReadDirFails, Empty
  <2>3. WatchedTimelineIsFresh'
    BY <1>0, <1>1 DEF ReadDir, ReadDirFails, WatchedTimelineIsFresh, ReadAsOnDisk,
                      Present, Reads
  <2> QED BY <2>1, <2>2, <2>3 DEF IInv
<1>2. ASSUME NEW f \in File, Stat(f)
      PROVE  IInv'
  <2>1. current' \in Snapshot /\ \A g \in DOMAIN current' : current'[g] <= clock
    <3>1. disk[f] \in Stamp
      BY <1>0 DEF TypeOK, Contents
    <3> QED BY <1>0, <1>2, <3>1, SnapshotWith DEF TypeOK, StampsKnown, Stat, With
  <2>2. TypeOK'
    BY <1>0, <1>2, <2>1 DEF TypeOK, Stat
  <2>3. StampsKnown' /\ PhaseKnown' /\ IdleIsEmpty' /\ WorkIsFresh'
    BY <1>0, <1>2, <2>1 DEF StampsKnown, PhaseKnown, IdleIsEmpty, WorkIsFresh, Stat, Empty
  <2>4. WatchedTimelineIsFresh'
    BY <1>0, <1>2 DEF Stat, WatchedTimelineIsFresh, ReadAsOnDisk, Present, Reads
  <2> QED BY <2>2, <2>3, <2>4 DEF IInv
<1>3. CASE FirstSnapshot
  <2>1. ~acted /\ UNCHANGED acted
    BY <1>0, <1>3 DEF PhaseKnown, FirstSnapshot
  <2>2. TypeOK'
    BY <1>0, <1>n, <1>3 DEF TypeOK, FirstSnapshot, PC
  <2>3. StampsKnown' /\ PhaseKnown' /\ IdleIsEmpty' /\ WorkIsFresh'
    BY <1>0, <1>n, <1>3, <2>1 DEF StampsKnown, PhaseKnown, IdleIsEmpty, WorkIsFresh,
                                  FirstSnapshot, Empty
  <2> QED BY <2>1, <2>2, <2>3 DEF IInv, WatchedTimelineIsFresh
<1>4. CASE NextSnapshot \/ Same
  <2>1. TypeOK'
    BY <1>0, <1>n, <1>4 DEF TypeOK, NextSnapshot, Same, PC
  <2>2. StampsKnown' /\ PhaseKnown' /\ IdleIsEmpty' /\ WorkIsFresh'
    BY <1>0, <1>n, <1>4 DEF StampsKnown, PhaseKnown, IdleIsEmpty, WorkIsFresh,
                            NextSnapshot, Same, Empty
  <2>3. WatchedTimelineIsFresh'
    BY <1>0, <1>4 DEF NextSnapshot, Same, WatchedTimelineIsFresh, ReadAsOnDisk,
                      Present, Reads
  <2> QED BY <2>1, <2>2, <2>3 DEF IInv
<1>5. CASE Changed
  <2>1. TypeOK'
    BY <1>0, <1>n, <1>5 DEF TypeOK, Changed, PC
  <2>2. StampsKnown' /\ PhaseKnown' /\ IdleIsEmpty'
    BY <1>0, <1>n, <1>5 DEF StampsKnown, PhaseKnown, IdleIsEmpty, Changed
  <2>3. Reads(work') = {}
    BY <1>0, <1>5 DEF IdleIsEmpty, Changed, Reads, Empty
  <2>4. WorkIsFresh' /\ WatchedTimelineIsFresh'
    BY <1>5, <2>3 DEF Changed, WorkIsFresh, WatchedTimelineIsFresh, ReadAsOnDisk, Reads
  <2> QED BY <2>1, <2>2, <2>4 DEF IInv
<1> QED BY <1>1, <1>2, <1>3, <1>4, <1>5 DEF Watch
(* The stages of an analysis: each reads the disk as it is at that moment. *)
LEMMA AnalyzeIInv ==
  ASSUME IInv, Analyze
  PROVE  IInv'
<1> USE DEF diskVars, scanVars, analysisVars
<1>0. /\ TypeOK /\ StampsKnown /\ PhaseKnown /\ IdleIsEmpty /\ WorkIsFresh
      /\ WatchedTimelineIsFresh /\ disk \in Contents
      /\ Count \in Nat /\ Empty \in Timeline
  BY WatcherAssumption DEF IInv, TypeOK, Empty, Timeline
<1>1. CASE Pass1Run \/ Pass2 \/ ReadSource
  <2>1. work' \in Timeline
    <3>1. work \in [{"race", "trace", "source"} -> SUBSET Contents]
      BY <1>0 DEF TypeOK, Timeline
    <3>2. work.race \cup {disk} \in SUBSET Contents
      BY <1>0, <3>1
    <3> QED BY <1>0, <1>1, <3>1, <3>2 DEF Pass1Run, Pass2, ReadSource, Timeline
  <2>2. runs' \in 0 .. Count
    <3>1. CASE Pass1Run
      BY <1>0, <3>1 DEF TypeOK, Pass1Run
    <3>2. CASE Pass2 \/ ReadSource
      BY <1>0, <3>2 DEF TypeOK, Pass2, ReadSource
    <3> QED BY <1>1, <3>1, <3>2
  <2>3. /\ UNCHANGED <<disk, clock, names, current, snapshots, err, timeline, acted, phase>>
        /\ pc \in {"pass1", "source"} /\ pc' \in {"pass1", "source", "done"}
    BY <1>1 DEF Pass1Run, Pass2, ReadSource
  <2>4. TypeOK'
    BY <1>0, <2>1, <2>2, <2>3 DEF TypeOK, PC
  <2>5. StampsKnown' /\ PhaseKnown' /\ IdleIsEmpty' /\ WatchedTimelineIsFresh'
    BY <1>0, <2>3 DEF StampsKnown, PhaseKnown, IdleIsEmpty, WatchedTimelineIsFresh
  <2>6. Reads(work') \subseteq Reads(work) \cup {disk}
    <3>1. work \in [{"race", "trace", "source"} -> SUBSET Contents]
      BY <1>0 DEF TypeOK, Timeline
    <3> QED BY <1>1, <3>1 DEF Pass1Run, Pass2, ReadSource, Reads
  <2>7. WorkIsFresh'
    BY <1>0, <2>3, <2>6 DEF WorkIsFresh, ReadAsOnDisk, Present
  <2> QED BY <2>4, <2>5, <2>7 DEF IInv
<1>2. CASE AnalysisFails \/ Publish
  <2>1. /\ UNCHANGED <<disk, clock, names, current, snapshots, acted>>
        /\ pc' = "readdir" /\ runs' = 0 /\ work' = Empty
        /\ phase' = IF phase = "initial" THEN "first" ELSE phase
        /\ err' \in BOOLEAN /\ timeline' \in {timeline, work}
    BY <1>2 DEF AnalysisFails, Publish, AfterAnalysis
  <2>2. TypeOK'
    BY <1>0, <2>1 DEF TypeOK, PC
  <2>3. StampsKnown' /\ PhaseKnown' /\ IdleIsEmpty' /\ WorkIsFresh'
    BY <1>0, <2>1 DEF StampsKnown, PhaseKnown, IdleIsEmpty, WorkIsFresh, Empty
  <2>4. WatchedTimelineIsFresh'
    <3>1. CASE AnalysisFails
      BY <3>1 DEF AnalysisFails, WatchedTimelineIsFresh
    <3>2. CASE Publish
      <4>1. acted => ReadAsOnDisk(work)
        BY <1>0, <3>2 DEF Publish, WorkIsFresh
      <4>2. timeline' = work
        BY <3>2 DEF Publish
      <4> QED BY <2>1, <4>1, <4>2 DEF WatchedTimelineIsFresh, ReadAsOnDisk, Present
    <3> QED BY <1>2, <3>1, <3>2
  <2> QED BY <2>2, <2>3, <2>4 DEF IInv
<1> QED BY <1>1, <1>2 DEF Analyze

LEMMA NextIInv == IInv /\ [Next]_vars => IInv'
<1>1. IInv /\ UNCHANGED vars => IInv'
  BY DEF vars, IInv, TypeOK, StampsKnown, PhaseKnown, IdleIsEmpty, WorkIsFresh,
         WatchedTimelineIsFresh, ReadAsOnDisk, Present, Reads, Empty
<1> QED BY <1>1, DeveloperIInv, WatchIInv, AnalyzeIInv DEF Next

(* TypeOK of Watcher. *)
THEOREM TypeCorrect == Spec => []TypeOK
BY InitIInv, NextIInv, PTL DEF Spec, SafeSpec, IInv

(* Taking the snapshot before the analysis (main.go:214, 216) loses no edit
   made while scanning or analysing. *)
THEOREM TimelineIsFresh == Spec => []WatchedTimelineIsFresh
BY InitIInv, NextIInv, PTL DEF Spec, SafeSpec, IInv
==============================================================================

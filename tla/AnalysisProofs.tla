--------------------------- MODULE AnalysisProofs ---------------------------
(* Proofs about Analysis, for any number of analyses that share the temporary
   directory, any packages, races and -count. *)
EXTENDS Analysis, TLAPS

Running == {"pass1", "pass2", "stat", "parse", "trace", "dwarf", "load",
            "resolve", "correlate"}

(* A running analysis has a file of its own. *)
TmpIsOwn(p) ==
  state[p].pc \in Running =>
    /\ state[p].tmp \in TempName
    /\ disk[state[p].tmp] # None
    /\ disk[state[p].tmp].by = p

(* Nothing that pass 1 reported is lost, and races make it fail, unless a
   signal killed it. *)
OutputIsKept(p) ==
  /\ state[p].output = reported[p]
  /\ state[p].exitCode = 0 /\ p \notin signalled => reported[p] = {}
  /\ state[p].noTests =>
       state[p].exitCode = 0 /\ state[p].pc \notin {"start", "pass1"}

(* The file before, between and after the attempts. *)
AttemptsAreKnown(p) ==
  /\ state[p].pc \in {"start", "pass1"} => state[p].try = 0 /\ ~state[p].big
  /\ state[p].pc \in {"pass1", "pass2"} => ~disk[state[p].tmp].big
  /\ state[p].pc = "pass2" => state[p].try \in 0 .. 1
  /\ state[p].pc = "stat" /\ disk[state[p].tmp].big =>
       disk[state[p].tmp].try = state[p].try
  /\ state[p].pc \in {"parse", "trace"} /\ state[p].big =>
       disk[state[p].tmp].big /\ disk[state[p].tmp].try = state[p].try
  /\ state[p].pc = "trace" => state[p].big

TraceIsOwn(p) ==
  /\ state[p].pc \in {"start", "pass1", "pass2", "stat", "parse", "trace"} =>
       state[p].trace = None
  /\ state[p].trace # None =>
       /\ state[p].trace.by = p /\ state[p].trace.big
       /\ state[p].trace.try = state[p].try

(* The binary that is there when an analysis loads it, and what it loaded. *)
NamesAreKnown(p) ==
  p \notin overwritten /\ Root \in tested[p] =>
    /\ state[p].pc = "load" /\ disk[DwarfBin] # None => disk[DwarfBin].by = p
    /\ state[p].table \in {p, None} /\ state[p].names \in {p, None}

OwnInv(p) ==
  /\ TmpIsOwn(p) /\ OutputIsKept(p) /\ AttemptsAreKnown(p)
  /\ TraceIsOwn(p) /\ NamesAreKnown(p)

(* A trace file is that of an analysis that has not returned, ... *)
TracesAreKnown ==
  \A f \in TempName : disk[f] # None =>
    /\ state[disk[f].by].tmp = f
    /\ state[disk[f].by].pc \notin {"start", "done", "failed"}

(* ... and the binary that of one that is between build and Close. *)
BinaryIsKnown ==
  disk[DwarfBin] # None =>
    state[disk[DwarfBin].by].pc \in {"load", "resolve", "killed"}

IInv ==
  /\ TypeOK
  /\ \A p \in Analyses : OwnInv(p)
  /\ TracesAreKnown /\ BinaryIsKnown

------------------------------------------------------------------------------
(* Types, and what a step of one analysis leaves alone. *)

LEMMA Typed ==
  ASSUME TypeOK
  PROVE  /\ state \in [Analyses -> State]
         /\ disk \in [TempName \cup {DwarfBin} -> File \cup {None}]
         /\ reported \in [Analyses -> SUBSET Races]
         /\ signalled \subseteq Analyses
         /\ overwritten \subseteq Analyses
BY DEF TypeOK

LEMMA FileWritten ==
  ASSUME NEW p \in Analyses, NEW n \in 0 .. 2, NEW b \in BOOLEAN
  PROVE  /\ [by |-> p, try |-> n, big |-> b] \in File
         /\ [by |-> p, try |-> n, big |-> b] # None
<1>1. [by |-> p, try |-> n, big |-> b] \in File
  BY DEF File
<1> QED BY <1>1, AnalysisAssumption

LEMMA FileOfAnalysis ==
  ASSUME TypeOK, NEW f \in TempName \cup {DwarfBin}, disk[f] # None
  PROVE  /\ disk[f] \in File
         /\ disk[f].by \in Analyses /\ disk[f].big \in BOOLEAN /\ disk[f].try \in 0 .. 2
<1>1. disk[f] \in File
  BY Typed
<1> QED BY <1>1 DEF File

LEMMA BecomesTyped ==
  ASSUME TypeOK, NEW p \in Analyses, NEW s \in State, Becomes(p, s)
  PROVE  /\ state' \in [Analyses -> State]
         /\ state'[p] = s
         /\ \A q \in Analyses \ {p} : state'[q] = state[q]
BY Typed DEF Becomes

(* The fields that Goto keeps. *)
LEMMA GotoTyped ==
  ASSUME TypeOK, NEW p \in Analyses, NEW pc \in PC, Goto(p, pc)
  PROVE  \E s \in State :
           /\ Becomes(p, s)
           /\ s.pc = pc /\ s.tmp = state[p].tmp /\ s.output = state[p].output
           /\ s.exitCode = state[p].exitCode /\ s.noTests = state[p].noTests
           /\ s.try = state[p].try /\ s.big = state[p].big
           /\ s.trace = state[p].trace /\ s.table = state[p].table
           /\ s.names = state[p].names
<1> DEFINE s == [state[p] EXCEPT !.pc = pc]
<1>1. state[p] \in State
  BY Typed
<1>2. /\ s \in State
      /\ s.pc = pc /\ s.tmp = state[p].tmp /\ s.output = state[p].output
      /\ s.exitCode = state[p].exitCode /\ s.noTests = state[p].noTests
      /\ s.try = state[p].try /\ s.big = state[p].big
      /\ s.trace = state[p].trace /\ s.table = state[p].table
      /\ s.names = state[p].names
  BY <1>1 DEF State
<1>3. Becomes(p, s)
  BY DEF Goto
<1> HIDE DEF s
<1> QED BY <1>2, <1>3, Zenon

(***************************************************************************)
(* A step of p keeps the invariant of all when it keeps that of p, touches *)
(* the trace file of no other, and what is in the directory is known.      *)
(***************************************************************************)
LEMMA StepKeeps ==
  ASSUME IInv, NEW p \in Analyses, NEW s \in State, Becomes(p, s), tested' = tested,
         disk' \in [TempName \cup {DwarfBin} -> File \cup {None}],
         reported' \in [Analyses -> SUBSET Races],
         signalled' \subseteq Analyses, signalled \subseteq signalled',
         overwritten' \subseteq Analyses, overwritten \subseteq overwritten',
         \A q \in Analyses \ {p} : reported'[q] = reported[q],
         \A f \in TempName :
           /\ disk[f] # None /\ disk[f].by # p => disk'[f] = disk[f]
           /\ disk'[f] # None /\ disk'[f].by # p => disk'[f] = disk[f]
           /\ disk'[f] # None /\ disk'[f].by = p =>
                s.tmp = f /\ s.pc \notin {"start", "done", "failed"},
         disk'[DwarfBin] # None =>
           \/ disk'[DwarfBin].by # p /\ disk'[DwarfBin] = disk[DwarfBin]
           \/ disk'[DwarfBin].by = p /\ s.pc \in {"load", "resolve", "killed"},
         \A q \in Analyses \ {p} :
           state[q].pc = "load" /\ disk'[DwarfBin] # None /\ q \notin overwritten' =>
             disk'[DwarfBin] = disk[DwarfBin],
         OwnInv(p)'
  PROVE  IInv'
<1>1. TypeOK
  BY DEF IInv
<1>2. /\ state' \in [Analyses -> State] /\ state'[p] = s
      /\ \A q \in Analyses \ {p} : state'[q] = state[q]
  BY <1>1, BecomesTyped
<1>3. TypeOK'
  BY <1>1, <1>2 DEF TypeOK
<1>4. ASSUME NEW q \in Analyses \ {p}
      PROVE  OwnInv(q)'
  <2>1. OwnInv(q) /\ state'[q] = state[q] /\ reported'[q] = reported[q]
    BY <1>2 DEF IInv
  <2>2. state[q].pc \in Running =>
          /\ state[q].tmp \in TempName /\ disk[state[q].tmp] # None
          /\ disk[state[q].tmp].by = q /\ disk'[state[q].tmp] = disk[state[q].tmp]
    BY <2>1 DEF OwnInv, TmpIsOwn
  <2>3. TmpIsOwn(q)'
    BY <2>1, <2>2 DEF TmpIsOwn
  <2>4. OutputIsKept(q)'
    BY <2>1 DEF OwnInv, OutputIsKept
  <2>5. AttemptsAreKnown(q)'
    BY <2>1, <2>2 DEF OwnInv, AttemptsAreKnown, Running
  <2>6. TraceIsOwn(q)'
    BY <2>1 DEF OwnInv, TraceIsOwn
  <2>7. NamesAreKnown(q)'
    BY <2>1 DEF OwnInv, NamesAreKnown
  <2> QED BY <2>3, <2>4, <2>5, <2>6, <2>7 DEF OwnInv
<1>5. TracesAreKnown'
  <2> SUFFICES ASSUME NEW f \in TempName, disk'[f] # None
               PROVE  /\ state'[disk'[f].by].tmp = f
                      /\ state'[disk'[f].by].pc \notin {"start", "done", "failed"}
    BY DEF TracesAreKnown
  <2>1. CASE disk'[f].by = p
    BY <1>2, <2>1
  <2>2. CASE disk'[f].by # p
    <3>1. disk'[f] = disk[f] /\ disk[f] # None /\ disk[f].by \in Analyses \ {p}
      BY <1>1, <2>2, FileOfAnalysis
    <3> QED BY <1>2, <3>1 DEF IInv, TracesAreKnown
  <2> QED BY <2>1, <2>2
<1>6. BinaryIsKnown'
  <2> SUFFICES ASSUME disk'[DwarfBin] # None
               PROVE  state'[disk'[DwarfBin].by].pc \in {"load", "resolve", "killed"}
    BY DEF BinaryIsKnown
  <2>1. CASE disk'[DwarfBin].by = p
    BY <1>2, <2>1
  <2>2. CASE disk'[DwarfBin].by # p
    <3>1. /\ disk'[DwarfBin] = disk[DwarfBin] /\ disk[DwarfBin] # None
          /\ disk[DwarfBin].by \in Analyses \ {p}
      BY <1>1, <2>2, FileOfAnalysis
    <3> QED BY <1>2, <3>1 DEF IInv, BinaryIsKnown
  <2> QED BY <2>1, <2>2
<1> QED BY <1>3, <1>4, <1>5, <1>6 DEF IInv

(* A step that leaves the directory as it is. *)
LEMMA QuietStepKeeps ==
  ASSUME IInv, NEW p \in Analyses, NEW s \in State, Becomes(p, s),
         UNCHANGED <<tested, disk, overwritten>>,
         reported' \in [Analyses -> SUBSET Races],
         signalled' \subseteq Analyses, signalled \subseteq signalled',
         \A q \in Analyses \ {p} : reported'[q] = reported[q],
         \/ state[p].pc = "start"
         \/ s.tmp = state[p].tmp /\ s.pc \notin {"start", "done", "failed"},
         state[p].pc \in {"load", "resolve", "killed"} =>
           s.pc \in {"load", "resolve", "killed"},
         OwnInv(p)'
  PROVE  IInv'
<1>1. /\ disk' \in [TempName \cup {DwarfBin} -> File \cup {None}]
      /\ overwritten' \subseteq Analyses /\ overwritten \subseteq overwritten'
  BY Typed DEF IInv
<1>2. \A f \in TempName : disk[f] # None /\ disk[f].by = p =>
        s.tmp = f /\ s.pc \notin {"start", "done", "failed"}
  BY DEF IInv, TracesAreKnown
<1>3. disk[DwarfBin] # None /\ disk[DwarfBin].by = p =>
        s.pc \in {"load", "resolve", "killed"}
  BY DEF IInv, BinaryIsKnown
<1> QED BY <1>1, <1>2, <1>3, StepKeeps

------------------------------------------------------------------------------
(* Each action keeps the invariant. *)

LEMMA CreateTempIInv ==
  ASSUME IInv, NEW p \in Analyses, CreateTemp(p)
  PROVE  IInv'
<1> DEFINE new == [by |-> p, try |-> 0, big |-> FALSE]
<1>1. TypeOK /\ OwnInv(p) /\ state[p].pc = "start" /\ state[p] \in State
  BY Typed DEF IInv, CreateTemp, At
<1>2. PICK f \in TempName, pc \in {"pass1", "unclosed"} :
        /\ disk[f] = None /\ disk' = [disk EXCEPT ![f] = new]
        /\ Becomes(p, [state[p] EXCEPT !.pc = pc, !.tmp = f])
        /\ UNCHANGED <<tested, reported, signalled, overwritten>>
  BY DEF CreateTemp, Unused
<1>3. new \in File /\ new # None /\ new.by = p /\ new.try = 0 /\ ~new.big
  <2>1. 0 \in 0 .. 2 /\ FALSE \in BOOLEAN
    BY Zenon, SMT
  <2>2. new \in File /\ new # None
    BY <2>1, FileWritten, Zenon
  <2> QED BY <2>2
<1> DEFINE s == [state[p] EXCEPT !.pc = pc, !.tmp = f]
<1>4. /\ s \in State /\ Becomes(p, s)
      /\ s.pc = pc /\ s.tmp = f
      /\ s.output = state[p].output /\ s.exitCode = state[p].exitCode
      /\ s.noTests = state[p].noTests /\ s.try = state[p].try
      /\ s.big = state[p].big /\ s.trace = state[p].trace
      /\ s.table = state[p].table /\ s.names = state[p].names
  <2>1. pc \in PC
    BY DEF PC, Ended
  <2>2. s \in State
    BY <1>1, <2>1 DEF State
  <2> QED BY <1>1, <1>2, <2>2 DEF State
<1> HIDE DEF new, s
<1>5. /\ disk' \in [TempName \cup {DwarfBin} -> File \cup {None}]
      /\ disk'[f] = new /\ disk'[DwarfBin] = disk[DwarfBin]
      /\ \A g \in TempName \ {f} : disk'[g] = disk[g]
  BY <1>1, <1>2, <1>3, Typed, AnalysisAssumption
<1>6. state'[p] = s /\ reported'[p] = reported[p]
  BY <1>1, <1>2, <1>4, BecomesTyped
<1>7. OwnInv(p)'
  <2>1. TmpIsOwn(p)'
    BY <1>1, <1>2, <1>3, <1>4, <1>5, <1>6 DEF OwnInv, TmpIsOwn, Running
  <2>2. OutputIsKept(p)'
    BY <1>1, <1>2, <1>3, <1>4, <1>5, <1>6 DEF OwnInv, OutputIsKept
  <2>3. AttemptsAreKnown(p)'
    BY <1>1, <1>2, <1>3, <1>4, <1>5, <1>6 DEF OwnInv, AttemptsAreKnown, Running
  <2>4. TraceIsOwn(p)'
    BY <1>1, <1>2, <1>3, <1>4, <1>5, <1>6 DEF OwnInv, TraceIsOwn
  <2>5. NamesAreKnown(p)'
    BY <1>1, <1>2, <1>3, <1>4, <1>5, <1>6 DEF OwnInv, NamesAreKnown
  <2> QED BY <2>1, <2>2, <2>3, <2>4, <2>5 DEF OwnInv
<1>8. \A g \in TempName : disk[g] # None => disk[g].by # p
  BY <1>1 DEF IInv, TracesAreKnown
<1>9. disk[DwarfBin] # None => disk[DwarfBin].by # p
  BY <1>1 DEF IInv, BinaryIsKnown
<1> QED
  BY <1>1, <1>2, <1>3, <1>4, <1>5, <1>7, <1>8, <1>9, Typed, StepKeeps

LEMMA CreateTempFailsIInv ==
  ASSUME IInv, NEW p \in Analyses, CreateTempFails(p)
  PROVE  IInv'
<1>1. TypeOK /\ OwnInv(p) /\ state[p].pc = "start"
  BY DEF IInv, CreateTempFails, At
<1>2. /\ "failed" \in PC /\ Goto(p, "failed")
      /\ UNCHANGED <<tested, disk, reported, signalled, overwritten>>
  BY <1>1 DEF CreateTempFails, PC, Ended
<1>3. PICK s \in State :
        /\ Becomes(p, s) /\ s.pc = "failed"
        /\ s.tmp = state[p].tmp /\ s.output = state[p].output
        /\ s.exitCode = state[p].exitCode /\ s.noTests = state[p].noTests
        /\ s.try = state[p].try /\ s.big = state[p].big
        /\ s.trace = state[p].trace /\ s.table = state[p].table
        /\ s.names = state[p].names
  BY <1>1, <1>2, GotoTyped
<1>4. state'[p] = s /\ reported'[p] = reported[p]
  BY <1>1, <1>2, <1>3, BecomesTyped
<1>5. OwnInv(p)'
  <2>1. TmpIsOwn(p)'
    BY <1>1, <1>2, <1>3, <1>4 DEF OwnInv, TmpIsOwn, Running
  <2>2. OutputIsKept(p)'
    BY <1>1, <1>2, <1>3, <1>4 DEF OwnInv, OutputIsKept
  <2>3. AttemptsAreKnown(p)'
    BY <1>1, <1>2, <1>3, <1>4 DEF OwnInv, AttemptsAreKnown, Running
  <2>4. TraceIsOwn(p)'
    BY <1>1, <1>2, <1>3, <1>4 DEF OwnInv, TraceIsOwn
  <2>5. NamesAreKnown(p)'
    BY <1>1, <1>2, <1>3, <1>4 DEF OwnInv, NamesAreKnown
  <2> QED BY <2>1, <2>2, <2>3, <2>4, <2>5 DEF OwnInv
<1> QED
  BY <1>1, <1>2, <1>3, <1>5, Typed, QuietStepKeeps

LEMMA Pass1RunIInv ==
  ASSUME IInv, NEW p \in Analyses, Pass1Run(p)
  PROVE  IInv'
<1>1. TypeOK /\ OwnInv(p) /\ state[p].pc = "pass1" /\ state[p] \in State
  BY Typed DEF IInv, Pass1Run, At
<1>2. PICK r \in RunGoTest(p) :
        /\ Becomes(p, [state[p] EXCEPT !.runs = @ + 1, !.output = @ \cup r.races,
                                       !.exitCode = AtLeast(@, r.code)])
        /\ reported' = [reported EXCEPT ![p] = @ \cup r.races]
        /\ signalled' = Signalled(p, r)
        /\ UNCHANGED <<tested, disk, overwritten>>
  BY DEF Pass1Run
<1> DEFINE code  == AtLeast(state[p].exitCode, r.code)
           found == r.races
<1>3. /\ found \in SUBSET Races /\ code \in 0 .. 1
      /\ code = 0 => state[p].exitCode = 0 /\ (found = {} \/ r.code = -1)
      /\ state[p].runs + 1 \in 0 .. Count
  BY <1>1, AnalysisAssumption DEF Pass1Run, RunGoTest, State, AtLeast
<1>4. /\ signalled' \subseteq Analyses /\ signalled \subseteq signalled'
      /\ code = 0 /\ p \notin signalled' => state[p].exitCode = 0 /\ found = {}
  BY <1>1, <1>2, <1>3, Typed DEF Signalled
<1> HIDE DEF code, found
<1> DEFINE s == [state[p] EXCEPT !.runs = @ + 1, !.output = @ \cup found,
                                 !.exitCode = code]
<1>5. /\ s \in State /\ s.pc = "pass1"
      /\ s.output = state[p].output \cup found /\ s.exitCode = code
      /\ s.noTests = state[p].noTests /\ s.tmp = state[p].tmp
      /\ s.try = state[p].try /\ s.big = state[p].big
      /\ s.trace = state[p].trace /\ s.table = state[p].table
      /\ s.names = state[p].names
  BY <1>1, <1>3 DEF State
<1>6. Becomes(p, s)
  BY <1>2 DEF code, found
<1> HIDE DEF s
<1>7. /\ reported' \in [Analyses -> SUBSET Races]
      /\ reported'[p] = reported[p] \cup found
      /\ \A q \in Analyses \ {p} : reported'[q] = reported[q]
  BY <1>1, <1>2, <1>3, Typed DEF found
<1>8. /\ state'[p] = s /\ tested' = tested
      /\ disk' = disk /\ overwritten' = overwritten
  BY <1>1, <1>2, <1>5, <1>6, BecomesTyped
<1>9. OwnInv(p)'
  <2>1. TmpIsOwn(p)'
    BY <1>1, <1>3, <1>5, <1>7, <1>8 DEF OwnInv, TmpIsOwn, Running
  <2>2. OutputIsKept(p)'
    BY <1>1, <1>4, <1>5, <1>7, <1>8 DEF OwnInv, OutputIsKept
  <2>3. AttemptsAreKnown(p)'
    BY <1>1, <1>3, <1>5, <1>7, <1>8 DEF OwnInv, AttemptsAreKnown, Running
  <2>4. TraceIsOwn(p)'
    BY <1>1, <1>3, <1>5, <1>7, <1>8 DEF OwnInv, TraceIsOwn
  <2>5. NamesAreKnown(p)'
    BY <1>1, <1>3, <1>5, <1>7, <1>8 DEF OwnInv, NamesAreKnown
  <2> QED BY <2>1, <2>2, <2>3, <2>4, <2>5 DEF OwnInv
<1> QED
  BY <1>1, <1>2, <1>4, <1>5, <1>6, <1>7, <1>9, QuietStepKeeps

(* A return removes the trace file. *)
LEMMA ReturnIInv ==
  ASSUME IInv, NEW p \in Analyses, state[p].pc \in Running \ {"load", "resolve"},
         NEW pc \in {"done", "failed"}, Return(p, pc)
  PROVE  IInv'
<1>1. TypeOK /\ OwnInv(p)
  BY DEF IInv
<1>2. /\ pc \in PC /\ Goto(p, pc) /\ UNCHANGED <<tested, reported, signalled, overwritten>>
      /\ disk' = [disk EXCEPT ![state[p].tmp] = None]
  BY DEF Return, Remove, PC, Ended
<1>3. PICK s \in State :
        /\ Becomes(p, s) /\ s.pc = pc
        /\ s.tmp = state[p].tmp /\ s.output = state[p].output
        /\ s.exitCode = state[p].exitCode /\ s.noTests = state[p].noTests
        /\ s.try = state[p].try /\ s.big = state[p].big
        /\ s.trace = state[p].trace /\ s.table = state[p].table
        /\ s.names = state[p].names
  BY <1>1, <1>2, GotoTyped
<1>4. /\ state[p].tmp \in TempName
      /\ disk[state[p].tmp] # None /\ disk[state[p].tmp].by = p
  BY <1>1 DEF OwnInv, TmpIsOwn
<1>5. /\ disk' \in [TempName \cup {DwarfBin} -> File \cup {None}]
      /\ disk'[state[p].tmp] = None /\ disk'[DwarfBin] = disk[DwarfBin]
      /\ \A f \in TempName \ {state[p].tmp} : disk'[f] = disk[f]
  BY <1>1, <1>2, <1>4, Typed, AnalysisAssumption
<1>6. state'[p] = s /\ reported'[p] = reported[p]
  BY <1>1, <1>2, <1>3, BecomesTyped
<1>7. OwnInv(p)'
  <2>1. TmpIsOwn(p)'
    BY <1>1, <1>2, <1>3, <1>6 DEF OwnInv, TmpIsOwn, Running
  <2>2. OutputIsKept(p)'
    BY <1>1, <1>2, <1>3, <1>6 DEF OwnInv, OutputIsKept
  <2>3. AttemptsAreKnown(p)'
    BY <1>1, <1>2, <1>3, <1>6 DEF OwnInv, AttemptsAreKnown, Running
  <2>4. TraceIsOwn(p)'
    BY <1>1, <1>2, <1>3, <1>6 DEF OwnInv, TraceIsOwn
  <2>5. NamesAreKnown(p)'
    BY <1>1, <1>2, <1>3, <1>6 DEF OwnInv, NamesAreKnown
  <2> QED BY <2>1, <2>2, <2>3, <2>4, <2>5 DEF OwnInv
<1>8. \A f \in TempName : disk'[f] # None => disk'[f].by # p
  BY <1>4, <1>5 DEF IInv, TracesAreKnown
<1>9. disk[DwarfBin] # None => disk[DwarfBin].by # p
  BY DEF IInv, BinaryIsKnown, Running
<1> QED
  BY <1>1, <1>2, <1>3, <1>4, <1>5, <1>7, <1>8, <1>9, Typed, StepKeeps

LEMMA Pass1FailsIInv ==
  ASSUME IInv, NEW p \in Analyses, Pass1Fails(p)
  PROVE  IInv'
<1>1. state[p].pc = "pass1" /\ Return(p, "failed")
  BY DEF Pass1Fails, At
<1> QED BY <1>1, ReturnIInv DEF Running, Ended

LEMMA Pass1EndsIInv ==
  ASSUME IInv, NEW p \in Analyses, Pass1Ends(p)
  PROVE  IInv'
<1>1. TypeOK /\ OwnInv(p) /\ state[p].pc = "pass1" /\ state[p] \in State
  BY Typed DEF IInv, Pass1Ends, At
<1>2. PICK printed \in NoTestFilesPrinted(p) :
        LET noTests == printed /\ state[p].exitCode = 0
        IN  Becomes(p, [state[p] EXCEPT !.noTests = noTests,
                          !.pc = IF noTests THEN "parse" ELSE "pass2"])
  BY DEF Pass1Ends
<1>3. printed \in BOOLEAN
  BY DEF NoTestFilesPrinted
<1> DEFINE noTests == printed /\ state[p].exitCode = 0
           pc == IF noTests THEN "parse" ELSE "pass2"
<1>4. /\ Becomes(p, [state[p] EXCEPT !.noTests = noTests, !.pc = pc])
      /\ UNCHANGED <<tested, disk, reported, signalled, overwritten>>
  BY <1>2 DEF Pass1Ends
<1>5. /\ noTests \in BOOLEAN /\ (noTests => state[p].exitCode = 0)
      /\ pc \in {"parse", "pass2"}
  OBVIOUS
<1> HIDE DEF noTests, pc
<1> DEFINE s == [state[p] EXCEPT !.noTests = noTests, !.pc = pc]
<1>6. /\ s \in State /\ s.pc = pc /\ s.noTests = noTests
      /\ s.tmp = state[p].tmp /\ s.output = state[p].output
      /\ s.exitCode = state[p].exitCode /\ s.try = state[p].try
      /\ s.big = state[p].big /\ s.trace = state[p].trace
      /\ s.table = state[p].table /\ s.names = state[p].names
  BY <1>1, <1>5 DEF State, PC, Ended
<1> HIDE DEF s
<1>7. state'[p] = s /\ reported'[p] = reported[p]
  BY <1>1, <1>4, <1>6, BecomesTyped DEF s
<1>8. OwnInv(p)'
  <2>1. TmpIsOwn(p)'
    BY <1>1, <1>4, <1>5, <1>6, <1>7 DEF OwnInv, TmpIsOwn, Running
  <2>2. OutputIsKept(p)'
    BY <1>1, <1>4, <1>5, <1>6, <1>7 DEF OwnInv, OutputIsKept
  <2>3. AttemptsAreKnown(p)'
    BY <1>1, <1>4, <1>5, <1>6, <1>7 DEF OwnInv, AttemptsAreKnown, Running
  <2>4. TraceIsOwn(p)'
    BY <1>1, <1>4, <1>5, <1>6, <1>7 DEF OwnInv, TraceIsOwn
  <2>5. NamesAreKnown(p)'
    BY <1>1, <1>4, <1>5, <1>6, <1>7 DEF OwnInv, NamesAreKnown
  <2> QED BY <2>1, <2>2, <2>3, <2>4, <2>5 DEF OwnInv
<1> QED
  BY <1>1, <1>4, <1>5, <1>6, <1>8, Typed, QuietStepKeeps DEF s

LEMMA Pass2IInv ==
  ASSUME IInv, NEW p \in Analyses, Pass2(p)
  PROVE  IInv'
<1>1. TypeOK /\ OwnInv(p) /\ state[p].pc = "pass2" /\ state[p] \in State
  BY Typed DEF IInv, Pass2, At
<1> DEFINE s == [state[p] EXCEPT !.try = @ + 1, !.pc = "stat"]
           tmp == state[p].tmp
<1>2. state[p].try + 1 \in 0 .. 2
  BY <1>1 DEF OwnInv, AttemptsAreKnown
<1>3. /\ s \in State /\ s.pc = "stat" /\ s.try = state[p].try + 1
      /\ s.tmp = state[p].tmp /\ s.output = state[p].output
      /\ s.exitCode = state[p].exitCode /\ s.noTests = state[p].noTests
      /\ s.big = state[p].big /\ s.trace = state[p].trace
      /\ s.table = state[p].table /\ s.names = state[p].names
  BY <1>1, <1>2 DEF State, PC
<1>4. Becomes(p, s) /\ UNCHANGED <<tested, reported, signalled, overwritten>>
  BY DEF Pass2
<1> HIDE DEF s
<1>5. /\ tmp \in TempName /\ disk[tmp] # None /\ disk[tmp].by = p
      /\ disk[tmp] \in File /\ ~disk[tmp].big
  BY <1>1, FileOfAnalysis DEF OwnInv, TmpIsOwn, AttemptsAreKnown, Running
<1> HIDE DEF tmp
<1>6. PICK file \in File :
        /\ disk' = [disk EXCEPT ![tmp] = file]
        /\ file # None /\ file.by = p /\ (file.big => file.try = s.try)
  <2>1. CASE UNCHANGED disk
    <3>1. disk = [disk EXCEPT ![tmp] = disk[tmp]]
      BY <1>1, Typed
    <3> QED BY <1>5, <2>1, <3>1
  <2>2. CASE ~UNCHANGED disk
    <3>1. PICK b \in BOOLEAN :
            disk' = [disk EXCEPT ![tmp] = [by |-> p, try |-> state[p].try + 1, big |-> b]]
      BY <2>2 DEF Pass2, tmp
    <3> DEFINE new == [by |-> p, try |-> state[p].try + 1, big |-> b]
    <3>2. new \in File /\ new # None
      BY <1>2, FileWritten
    <3>3. new.by = p /\ new.try = s.try
      BY <1>3
    <3> HIDE DEF new
    <3>4. disk' = [disk EXCEPT ![tmp] = new]
      BY <3>1 DEF new
    <3> QED BY <3>2, <3>3, <3>4
  <2> QED BY <2>1, <2>2
<1>7. /\ disk' \in [TempName \cup {DwarfBin} -> File \cup {None}]
      /\ disk'[tmp] = file /\ disk'[DwarfBin] = disk[DwarfBin]
      /\ \A f \in TempName \ {tmp} : disk'[f] = disk[f]
  BY <1>1, <1>5, <1>6, Typed, AnalysisAssumption
<1>8. state'[p] = s /\ reported'[p] = reported[p]
  BY <1>1, <1>3, <1>4, BecomesTyped
<1>9. s.tmp = tmp
  BY <1>3 DEF tmp
<1>10. OwnInv(p)'
  <2>1. TmpIsOwn(p)'
    BY <1>1, <1>3, <1>4, <1>5, <1>6, <1>7, <1>8, <1>9 DEF OwnInv, TmpIsOwn, Running
  <2>2. OutputIsKept(p)'
    BY <1>1, <1>3, <1>4, <1>5, <1>6, <1>7, <1>8, <1>9 DEF OwnInv, OutputIsKept
  <2>3. AttemptsAreKnown(p)'
    BY <1>1, <1>3, <1>4, <1>5, <1>6, <1>7, <1>8, <1>9
    DEF OwnInv, AttemptsAreKnown, Running
  <2>4. TraceIsOwn(p)'
    BY <1>1, <1>3, <1>4, <1>5, <1>6, <1>7, <1>8, <1>9 DEF OwnInv, TraceIsOwn
  <2>5. NamesAreKnown(p)'
    BY <1>1, <1>3, <1>4, <1>5, <1>6, <1>7, <1>8, <1>9 DEF OwnInv, NamesAreKnown
  <2> QED BY <2>1, <2>2, <2>3, <2>4, <2>5 DEF OwnInv
<1>11. \A f \in TempName : disk'[f] # None /\ disk'[f].by = p => f = tmp
  BY <1>7 DEF IInv, TracesAreKnown, tmp
<1>12. disk[DwarfBin] # None => disk[DwarfBin].by # p
  BY <1>1 DEF IInv, BinaryIsKnown
<1> QED
  BY <1>1, <1>3, <1>4, <1>5, <1>6, <1>7, <1>9, <1>10, <1>11, <1>12, Typed, StepKeeps

LEMMA StatIInv ==
  ASSUME IInv, NEW p \in Analyses, Stat(p)
  PROVE  IInv'
<1>1. TypeOK /\ OwnInv(p) /\ state[p].pc = "stat" /\ state[p] \in State
  BY Typed DEF IInv, Stat, At
<1> DEFINE big == disk[state[p].tmp].big
           pc  == IF big \/ state[p].try = 2 THEN "parse" ELSE "pass2"
<1>2. /\ state[p].tmp \in TempName /\ disk[state[p].tmp] # None
      /\ disk[state[p].tmp].by = p /\ big \in BOOLEAN
  BY <1>1, FileOfAnalysis DEF OwnInv, TmpIsOwn, Running
<1>3. Big(state[p].tmp, state[p].big) = big
  BY <1>2 DEF Big
<1>4. /\ Becomes(p, [state[p] EXCEPT !.big = big, !.pc = pc])
      /\ UNCHANGED <<tested, disk, reported, signalled, overwritten>>
  BY <1>3 DEF Stat
<1>5. /\ pc \in {"parse", "pass2"}
      /\ pc = "pass2" => ~big /\ state[p].try \in 0 .. 1
  BY <1>1 DEF State
<1>6. big => disk[state[p].tmp].try = state[p].try
  BY <1>1 DEF OwnInv, AttemptsAreKnown
<1>7. disk[state[p].tmp].big = big
  OBVIOUS
<1> HIDE DEF big, pc
<1> DEFINE s == [state[p] EXCEPT !.big = big, !.pc = pc]
<1>8. /\ s \in State /\ s.pc = pc /\ s.big = big
      /\ s.tmp = state[p].tmp /\ s.output = state[p].output
      /\ s.exitCode = state[p].exitCode /\ s.noTests = state[p].noTests
      /\ s.try = state[p].try /\ s.trace = state[p].trace
      /\ s.table = state[p].table /\ s.names = state[p].names
  BY <1>1, <1>2, <1>5 DEF State, PC, Ended
<1> HIDE DEF s
<1>9. state'[p] = s /\ reported'[p] = reported[p]
  BY <1>1, <1>4, <1>8, BecomesTyped DEF s
<1>10. OwnInv(p)'
  <2>1. TmpIsOwn(p)'
    BY <1>1, <1>2, <1>4, <1>5, <1>6, <1>7, <1>8, <1>9 DEF OwnInv, TmpIsOwn, Running
  <2>2. OutputIsKept(p)'
    BY <1>1, <1>2, <1>4, <1>5, <1>6, <1>7, <1>8, <1>9 DEF OwnInv, OutputIsKept
  <2>3. AttemptsAreKnown(p)'
    BY <1>1, <1>2, <1>4, <1>5, <1>6, <1>7, <1>8, <1>9
    DEF OwnInv, AttemptsAreKnown, Running
  <2>4. TraceIsOwn(p)'
    BY <1>1, <1>2, <1>4, <1>5, <1>6, <1>7, <1>8, <1>9 DEF OwnInv, TraceIsOwn
  <2>5. NamesAreKnown(p)'
    BY <1>1, <1>2, <1>4, <1>5, <1>6, <1>7, <1>8, <1>9 DEF OwnInv, NamesAreKnown
  <2> QED BY <2>1, <2>2, <2>3, <2>4, <2>5 DEF OwnInv
<1> QED
  BY <1>1, <1>4, <1>5, <1>8, <1>10, Typed, QuietStepKeeps DEF s

LEMMA ParseRacesIInv ==
  ASSUME IInv, NEW p \in Analyses, ParseRaces(p)
  PROVE  IInv'
<1> DEFINE pc == IF state[p].big THEN "trace" ELSE "dwarf"
<1>1. TypeOK /\ OwnInv(p) /\ state[p].pc = "parse"
  BY DEF IInv, ParseRaces, At
<1>2. /\ pc \in PC /\ Goto(p, pc) /\ UNCHANGED <<tested, disk, reported, signalled, overwritten>>
      /\ pc \in {"trace", "dwarf"} /\ (pc = "trace" => state[p].big)
  BY <1>1 DEF ParseRaces, PC, Ended
<1> HIDE DEF pc
<1>3. PICK s \in State :
        /\ Becomes(p, s) /\ s.pc = pc
        /\ s.tmp = state[p].tmp /\ s.output = state[p].output
        /\ s.exitCode = state[p].exitCode /\ s.noTests = state[p].noTests
        /\ s.try = state[p].try /\ s.big = state[p].big
        /\ s.trace = state[p].trace /\ s.table = state[p].table
        /\ s.names = state[p].names
  BY <1>1, <1>2, GotoTyped
<1>4. state'[p] = s /\ reported'[p] = reported[p]
  BY <1>1, <1>2, <1>3, BecomesTyped
<1>5. OwnInv(p)'
  <2>1. TmpIsOwn(p)'
    BY <1>1, <1>2, <1>3, <1>4 DEF OwnInv, TmpIsOwn, Running
  <2>2. OutputIsKept(p)'
    BY <1>1, <1>2, <1>3, <1>4 DEF OwnInv, OutputIsKept
  <2>3. AttemptsAreKnown(p)'
    BY <1>1, <1>2, <1>3, <1>4 DEF OwnInv, AttemptsAreKnown, Running
  <2>4. TraceIsOwn(p)'
    BY <1>1, <1>2, <1>3, <1>4 DEF OwnInv, TraceIsOwn
  <2>5. NamesAreKnown(p)'
    BY <1>1, <1>2, <1>3, <1>4 DEF OwnInv, NamesAreKnown
  <2> QED BY <2>1, <2>2, <2>3, <2>4, <2>5 DEF OwnInv
<1> QED
  BY <1>1, <1>2, <1>3, <1>5, Typed, QuietStepKeeps

LEMMA ParseRacesFailsIInv ==
  ASSUME IInv, NEW p \in Analyses, ParseRacesFails(p)
  PROVE  IInv'
<1>1. state[p].pc = "parse" /\ Return(p, "failed")
  BY DEF ParseRacesFails, At
<1> QED BY <1>1, ReturnIInv DEF Running, Ended

(* The text of a trace is that of the file, if any. *)
LEMMA TextOfTheTrace ==
  ASSUME NEW f, NEW t \in CollectTraceEvents(f) \cup {None}
  PROVE  t \in {f, None}
<1>1. CASE t \in CollectTraceEvents(f)
  <2>1. PICK out \in {f, None} : t \in (IF out # None THEN {out} ELSE {f, None})
    BY <1>1, Zenon DEF CollectTraceEvents, invokeTraceCmd
  <2> QED BY <2>1
<1> QED BY <1>1

LEMMA CollectTraceIInv ==
  ASSUME IInv, NEW p \in Analyses, CollectTrace(p)
  PROVE  IInv'
<1>1. TypeOK /\ OwnInv(p) /\ state[p].pc = "trace" /\ state[p] \in State
  BY Typed DEF IInv, CollectTrace, At
<1>2. /\ state[p].tmp \in TempName /\ disk[state[p].tmp] # None
      /\ disk[state[p].tmp] \in File /\ disk[state[p].tmp].by = p
      /\ disk[state[p].tmp].big /\ disk[state[p].tmp].try = state[p].try
  BY <1>1, FileOfAnalysis DEF OwnInv, TmpIsOwn, AttemptsAreKnown, Running
<1>3. PICK t \in {disk[state[p].tmp], None} :
        /\ Becomes(p, [state[p] EXCEPT !.trace = t, !.pc = "dwarf"])
        /\ UNCHANGED <<tested, disk, reported, signalled, overwritten>>
  BY TextOfTheTrace DEF CollectTrace
<1>4. t # None => t.by = p /\ t.big /\ t.try = state[p].try
  BY <1>2
<1> DEFINE s == [state[p] EXCEPT !.trace = t, !.pc = "dwarf"]
<1>5. /\ s \in State /\ s.pc = "dwarf" /\ s.trace = t
      /\ s.tmp = state[p].tmp /\ s.output = state[p].output
      /\ s.exitCode = state[p].exitCode /\ s.noTests = state[p].noTests
      /\ s.try = state[p].try /\ s.big = state[p].big
      /\ s.table = state[p].table /\ s.names = state[p].names
  BY <1>1, <1>2 DEF State, PC
<1> HIDE DEF s
<1>6. state'[p] = s /\ reported'[p] = reported[p]
  BY <1>1, <1>3, <1>5, BecomesTyped DEF s
<1>7. OwnInv(p)'
  <2>1. TmpIsOwn(p)'
    BY <1>1, <1>2, <1>3, <1>4, <1>5, <1>6 DEF OwnInv, TmpIsOwn, Running
  <2>2. OutputIsKept(p)'
    BY <1>1, <1>2, <1>3, <1>4, <1>5, <1>6 DEF OwnInv, OutputIsKept
  <2>3. AttemptsAreKnown(p)'
    BY <1>1, <1>2, <1>3, <1>4, <1>5, <1>6 DEF OwnInv, AttemptsAreKnown, Running
  <2>4. TraceIsOwn(p)'
    BY <1>1, <1>2, <1>3, <1>4, <1>5, <1>6 DEF OwnInv, TraceIsOwn
  <2>5. NamesAreKnown(p)'
    BY <1>1, <1>2, <1>3, <1>4, <1>5, <1>6 DEF OwnInv, NamesAreKnown
  <2> QED BY <2>1, <2>2, <2>3, <2>4, <2>5 DEF OwnInv
<1> QED
  BY <1>1, <1>3, <1>5, <1>7, Typed, QuietStepKeeps DEF s

LEMMA BuildBinaryIInv ==
  ASSUME IInv, NEW p \in Analyses, BuildBinary(p)
  PROVE  IInv'
<1> DEFINE new == [by |-> p, try |-> 0, big |-> TRUE]
<1>1. TypeOK /\ OwnInv(p) /\ state[p].pc = "dwarf"
  BY DEF IInv, BuildBinary, At
<1>2. /\ "load" \in PC /\ Goto(p, "load") /\ UNCHANGED <<tested, reported, signalled>>
      /\ disk' = [disk EXCEPT ![DwarfBin] = new]
      /\ overwritten' = overwritten \cup {q \in Analyses \ {p} : state[q].pc = "load"}
  BY DEF BuildBinary, At, PC
<1>3. PICK s \in State :
        /\ Becomes(p, s) /\ s.pc = "load"
        /\ s.tmp = state[p].tmp /\ s.output = state[p].output
        /\ s.exitCode = state[p].exitCode /\ s.noTests = state[p].noTests
        /\ s.try = state[p].try /\ s.big = state[p].big
        /\ s.trace = state[p].trace /\ s.table = state[p].table
        /\ s.names = state[p].names
  BY <1>1, <1>2, GotoTyped
<1>4. new \in File /\ new # None /\ new.by = p
  <2>1. 0 \in 0 .. 2 /\ TRUE \in BOOLEAN
    BY Zenon, SMT
  <2>2. new \in File /\ new # None
    BY <2>1, FileWritten, Zenon
  <2> QED BY <2>2
<1> HIDE DEF new
<1>5. /\ disk' \in [TempName \cup {DwarfBin} -> File \cup {None}]
      /\ disk'[DwarfBin] = new /\ \A f \in TempName : disk'[f] = disk[f]
  BY <1>1, <1>2, <1>4, Typed, AnalysisAssumption
<1>6. /\ state'[p] = s /\ reported'[p] = reported[p]
      /\ UNCHANGED <<tested, signalled>>
  BY <1>1, <1>2, <1>3, BecomesTyped
<1>7. /\ overwritten' \subseteq Analyses /\ overwritten \subseteq overwritten'
      /\ \A q \in Analyses \ {p} : state[q].pc = "load" => q \in overwritten'
  BY <1>1, <1>2, Typed
<1>8. state[p].tmp \in TempName
  BY <1>1 DEF OwnInv, TmpIsOwn, Running
<1>9. OwnInv(p)'
  <2>1. TmpIsOwn(p)'
    BY <1>1, <1>3, <1>4, <1>5, <1>6, <1>7, <1>8 DEF OwnInv, TmpIsOwn, Running
  <2>2. OutputIsKept(p)'
    BY <1>1, <1>3, <1>4, <1>5, <1>6, <1>7, <1>8 DEF OwnInv, OutputIsKept
  <2>3. AttemptsAreKnown(p)'
    BY <1>1, <1>3, <1>4, <1>5, <1>6, <1>7, <1>8 DEF OwnInv, AttemptsAreKnown, Running
  <2>4. TraceIsOwn(p)'
    BY <1>1, <1>3, <1>4, <1>5, <1>6, <1>7, <1>8 DEF OwnInv, TraceIsOwn
  <2>5. NamesAreKnown(p)'
    BY <1>1, <1>3, <1>4, <1>5, <1>6, <1>7, <1>8 DEF OwnInv, NamesAreKnown
  <2> QED BY <2>1, <2>2, <2>3, <2>4, <2>5 DEF OwnInv
<1>10. \A f \in TempName : disk[f] # None /\ disk[f].by = p => s.tmp = f
  BY <1>1, <1>3 DEF IInv, TracesAreKnown
<1> QED
  BY <1>1, <1>2, <1>3, <1>4, <1>5, <1>7, <1>9, <1>10, Typed, StepKeeps

LEMMA BuildNothingIInv ==
  ASSUME IInv, NEW p \in Analyses, BuildNothing(p)
  PROVE  IInv'
<1>1. TypeOK /\ OwnInv(p) /\ state[p].pc = "dwarf" /\ Root \notin tested[p]
  BY DEF IInv, BuildNothing, At
<1>2. /\ "load" \in PC /\ Goto(p, "load")
      /\ UNCHANGED <<tested, disk, reported, signalled, overwritten>>
  BY <1>1 DEF BuildNothing, PC, Ended
<1>3. PICK s \in State :
        /\ Becomes(p, s) /\ s.pc = "load"
        /\ s.tmp = state[p].tmp /\ s.output = state[p].output
        /\ s.exitCode = state[p].exitCode /\ s.noTests = state[p].noTests
        /\ s.try = state[p].try /\ s.big = state[p].big
        /\ s.trace = state[p].trace /\ s.table = state[p].table
        /\ s.names = state[p].names
  BY <1>1, <1>2, GotoTyped
<1>4. state'[p] = s /\ reported'[p] = reported[p]
  BY <1>1, <1>2, <1>3, BecomesTyped
<1>5. OwnInv(p)'
  <2>1. TmpIsOwn(p)'
    BY <1>1, <1>2, <1>3, <1>4 DEF OwnInv, TmpIsOwn, Running
  <2>2. OutputIsKept(p)'
    BY <1>1, <1>2, <1>3, <1>4 DEF OwnInv, OutputIsKept
  <2>3. AttemptsAreKnown(p)'
    BY <1>1, <1>2, <1>3, <1>4 DEF OwnInv, AttemptsAreKnown, Running
  <2>4. TraceIsOwn(p)'
    BY <1>1, <1>2, <1>3, <1>4 DEF OwnInv, TraceIsOwn
  <2>5. NamesAreKnown(p)'
    BY <1>1, <1>2, <1>3, <1>4 DEF OwnInv, NamesAreKnown
  <2> QED BY <2>1, <2>2, <2>3, <2>4, <2>5 DEF OwnInv
<1> QED
  BY <1>1, <1>2, <1>3, <1>5, Typed, QuietStepKeeps

LEMMA NoBinaryIInv ==
  ASSUME IInv, NEW p \in Analyses, NoBinary(p)
  PROVE  IInv'
<1>1. TypeOK /\ OwnInv(p) /\ state[p].pc = "dwarf"
  BY DEF IInv, NoBinary, At
<1>2. /\ "correlate" \in PC /\ Goto(p, "correlate")
      /\ UNCHANGED <<tested, disk, reported, signalled, overwritten>>
  BY <1>1 DEF NoBinary, PC, Ended
<1>3. PICK s \in State :
        /\ Becomes(p, s) /\ s.pc = "correlate"
        /\ s.tmp = state[p].tmp /\ s.output = state[p].output
        /\ s.exitCode = state[p].exitCode /\ s.noTests = state[p].noTests
        /\ s.try = state[p].try /\ s.big = state[p].big
        /\ s.trace = state[p].trace /\ s.table = state[p].table
        /\ s.names = state[p].names
  BY <1>1, <1>2, GotoTyped
<1>4. state'[p] = s /\ reported'[p] = reported[p]
  BY <1>1, <1>2, <1>3, BecomesTyped
<1>5. OwnInv(p)'
  <2>1. TmpIsOwn(p)'
    BY <1>1, <1>2, <1>3, <1>4 DEF OwnInv, TmpIsOwn, Running
  <2>2. OutputIsKept(p)'
    BY <1>1, <1>2, <1>3, <1>4 DEF OwnInv, OutputIsKept
  <2>3. AttemptsAreKnown(p)'
    BY <1>1, <1>2, <1>3, <1>4 DEF OwnInv, AttemptsAreKnown, Running
  <2>4. TraceIsOwn(p)'
    BY <1>1, <1>2, <1>3, <1>4 DEF OwnInv, TraceIsOwn
  <2>5. NamesAreKnown(p)'
    BY <1>1, <1>2, <1>3, <1>4 DEF OwnInv, NamesAreKnown
  <2> QED BY <2>1, <2>2, <2>3, <2>4, <2>5 DEF OwnInv
<1> QED
  BY <1>1, <1>2, <1>3, <1>5, Typed, QuietStepKeeps

LEMMA LoadSymTableIInv ==
  ASSUME IInv, NEW p \in Analyses, LoadSymTable(p)
  PROVE  IInv'
<1> DEFINE by == disk[DwarfBin].by
           s  == [state[p] EXCEPT !.table = by, !.pc = "resolve"]
<1>1. /\ TypeOK /\ OwnInv(p) /\ state[p].pc = "load" /\ state[p] \in State
      /\ disk[DwarfBin] # None
  BY Typed DEF IInv, LoadSymTable, At
<1>2. by \in Analyses /\ (p \notin overwritten /\ Root \in tested[p] => by = p)
  BY <1>1, FileOfAnalysis DEF OwnInv, NamesAreKnown
<1>3. Becomes(p, s) /\ UNCHANGED <<tested, disk, reported, signalled, overwritten>>
  BY DEF LoadSymTable
<1> HIDE DEF by
<1>4. /\ s \in State /\ s.pc = "resolve" /\ s.table = by
      /\ s.tmp = state[p].tmp /\ s.output = state[p].output
      /\ s.exitCode = state[p].exitCode /\ s.noTests = state[p].noTests
      /\ s.try = state[p].try /\ s.big = state[p].big
      /\ s.trace = state[p].trace /\ s.names = state[p].names
  BY <1>1, <1>2 DEF State, PC
<1> HIDE DEF s
<1>5. state'[p] = s /\ reported'[p] = reported[p]
  BY <1>1, <1>3, <1>4, BecomesTyped
<1>6. OwnInv(p)'
  <2>1. TmpIsOwn(p)'
    BY <1>1, <1>2, <1>3, <1>4, <1>5 DEF OwnInv, TmpIsOwn, Running
  <2>2. OutputIsKept(p)'
    BY <1>1, <1>2, <1>3, <1>4, <1>5 DEF OwnInv, OutputIsKept
  <2>3. AttemptsAreKnown(p)'
    BY <1>1, <1>2, <1>3, <1>4, <1>5 DEF OwnInv, AttemptsAreKnown, Running
  <2>4. TraceIsOwn(p)'
    BY <1>1, <1>2, <1>3, <1>4, <1>5 DEF OwnInv, TraceIsOwn
  <2>5. NamesAreKnown(p)'
    BY <1>1, <1>2, <1>3, <1>4, <1>5 DEF OwnInv, NamesAreKnown
  <2> QED BY <2>1, <2>2, <2>3, <2>4, <2>5 DEF OwnInv
<1> QED
  BY <1>1, <1>3, <1>4, <1>6, Typed, QuietStepKeeps

LEMMA LoadSymTableFailsIInv ==
  ASSUME IInv, NEW p \in Analyses, LoadSymTableFails(p)
  PROVE  IInv'
<1>1. TypeOK /\ OwnInv(p) /\ state[p].pc = "load" /\ state[p] \in State
  BY Typed DEF IInv, LoadSymTableFails, At
<1>2. /\ "correlate" \in PC /\ Goto(p, "correlate")
      /\ UNCHANGED <<tested, reported, signalled, overwritten>>
      /\ disk' = [disk EXCEPT ![DwarfBin] = None]
  BY DEF LoadSymTableFails, Remove, PC
<1>3. PICK s \in State :
        /\ Becomes(p, s) /\ s.pc = "correlate"
        /\ s.tmp = state[p].tmp /\ s.output = state[p].output
        /\ s.exitCode = state[p].exitCode /\ s.noTests = state[p].noTests
        /\ s.try = state[p].try /\ s.big = state[p].big
        /\ s.trace = state[p].trace /\ s.table = state[p].table
        /\ s.names = state[p].names
  BY <1>1, <1>2, GotoTyped
<1>4. /\ disk' \in [TempName \cup {DwarfBin} -> File \cup {None}]
      /\ disk'[DwarfBin] = None /\ \A f \in TempName : disk'[f] = disk[f]
  BY <1>1, <1>2, Typed, AnalysisAssumption
<1>5. state'[p] = s /\ reported'[p] = reported[p]
  BY <1>1, <1>2, <1>3, BecomesTyped
<1>6. state[p].tmp \in TempName
  BY <1>1 DEF OwnInv, TmpIsOwn, Running
<1>7. OwnInv(p)'
  <2>1. TmpIsOwn(p)'
    BY <1>1, <1>2, <1>3, <1>4, <1>5, <1>6 DEF OwnInv, TmpIsOwn, Running
  <2>2. OutputIsKept(p)'
    BY <1>1, <1>2, <1>3, <1>4, <1>5, <1>6 DEF OwnInv, OutputIsKept
  <2>3. AttemptsAreKnown(p)'
    BY <1>1, <1>2, <1>3, <1>4, <1>5, <1>6 DEF OwnInv, AttemptsAreKnown, Running
  <2>4. TraceIsOwn(p)'
    BY <1>1, <1>2, <1>3, <1>4, <1>5, <1>6 DEF OwnInv, TraceIsOwn
  <2>5. NamesAreKnown(p)'
    BY <1>1, <1>2, <1>3, <1>4, <1>5, <1>6 DEF OwnInv, NamesAreKnown
  <2> QED BY <2>1, <2>2, <2>3, <2>4, <2>5 DEF OwnInv
<1>8. \A f \in TempName : disk[f] # None /\ disk[f].by = p => s.tmp = f
  BY <1>1, <1>3 DEF IInv, TracesAreKnown
<1> QED
  BY <1>1, <1>2, <1>3, <1>4, <1>7, <1>8, Typed, StepKeeps

LEMMA ResolveAndCloseIInv ==
  ASSUME IInv, NEW p \in Analyses, ResolveAndClose(p)
  PROVE  IInv'
<1>1. TypeOK /\ OwnInv(p) /\ state[p].pc = "resolve" /\ state[p] \in State
  BY Typed DEF IInv, ResolveAndClose, At
<1> DEFINE s == [state[p] EXCEPT !.names = state[p].table, !.pc = "correlate"]
<1>2. /\ Becomes(p, s) /\ UNCHANGED <<tested, reported, signalled, overwritten>>
      /\ disk' = [disk EXCEPT ![DwarfBin] = None]
  BY DEF ResolveAndClose, Remove
<1>3. /\ Becomes(p, s) /\ s \in State /\ s.pc = "correlate" /\ s.names = state[p].table
      /\ s.tmp = state[p].tmp /\ s.output = state[p].output
      /\ s.exitCode = state[p].exitCode /\ s.noTests = state[p].noTests
      /\ s.try = state[p].try /\ s.big = state[p].big
      /\ s.trace = state[p].trace /\ s.table = state[p].table
  BY <1>1, <1>2 DEF State, PC
<1> HIDE DEF s
<1>4. /\ disk' \in [TempName \cup {DwarfBin} -> File \cup {None}]
      /\ disk'[DwarfBin] = None /\ \A f \in TempName : disk'[f] = disk[f]
  BY <1>1, <1>2, Typed, AnalysisAssumption
<1>5. state'[p] = s /\ reported'[p] = reported[p]
  BY <1>1, <1>2, <1>3, BecomesTyped
<1>6. state[p].tmp \in TempName
  BY <1>1 DEF OwnInv, TmpIsOwn, Running
<1>7. OwnInv(p)'
  <2>1. TmpIsOwn(p)'
    BY <1>1, <1>2, <1>3, <1>4, <1>5, <1>6 DEF OwnInv, TmpIsOwn, Running
  <2>2. OutputIsKept(p)'
    BY <1>1, <1>2, <1>3, <1>4, <1>5, <1>6 DEF OwnInv, OutputIsKept
  <2>3. AttemptsAreKnown(p)'
    BY <1>1, <1>2, <1>3, <1>4, <1>5, <1>6 DEF OwnInv, AttemptsAreKnown, Running
  <2>4. TraceIsOwn(p)'
    BY <1>1, <1>2, <1>3, <1>4, <1>5, <1>6 DEF OwnInv, TraceIsOwn
  <2>5. NamesAreKnown(p)'
    BY <1>1, <1>2, <1>3, <1>4, <1>5, <1>6 DEF OwnInv, NamesAreKnown
  <2> QED BY <2>1, <2>2, <2>3, <2>4, <2>5 DEF OwnInv
<1>8. \A f \in TempName : disk[f] # None /\ disk[f].by = p => s.tmp = f
  BY <1>1, <1>3 DEF IInv, TracesAreKnown
<1> QED
  BY <1>1, <1>2, <1>3, <1>4, <1>7, <1>8, Typed, StepKeeps

LEMMA CorrelateIInv ==
  ASSUME IInv, NEW p \in Analyses, Correlate(p)
  PROVE  IInv'
<1>1. state[p].pc = "correlate" /\ Return(p, "done")
  BY DEF Correlate, At
<1> QED BY <1>1, ReturnIInv DEF Running, Ended

LEMMA InterruptIInv ==
  ASSUME IInv, NEW p \in Analyses, Interrupt(p)
  PROVE  IInv'
<1>1. TypeOK /\ OwnInv(p) /\ state[p].pc \in PC \ Ended
  BY Typed DEF IInv, Interrupt, State
<1>2. /\ "killed" \in PC /\ Goto(p, "killed")
      /\ UNCHANGED <<tested, disk, reported, signalled, overwritten>>
  BY <1>1 DEF Interrupt, PC, Ended
<1>3. PICK s \in State :
        /\ Becomes(p, s) /\ s.pc = "killed"
        /\ s.tmp = state[p].tmp /\ s.output = state[p].output
        /\ s.exitCode = state[p].exitCode /\ s.noTests = state[p].noTests
        /\ s.try = state[p].try /\ s.big = state[p].big
        /\ s.trace = state[p].trace /\ s.table = state[p].table
        /\ s.names = state[p].names
  BY <1>1, <1>2, GotoTyped
<1>4. state'[p] = s /\ reported'[p] = reported[p]
  BY <1>1, <1>2, <1>3, BecomesTyped
<1>5. OwnInv(p)'
  <2>1. TmpIsOwn(p)'
    BY <1>1, <1>2, <1>3, <1>4 DEF OwnInv, TmpIsOwn, Running
  <2>2. OutputIsKept(p)'
    BY <1>1, <1>2, <1>3, <1>4 DEF OwnInv, OutputIsKept
  <2>3. AttemptsAreKnown(p)'
    BY <1>1, <1>2, <1>3, <1>4 DEF OwnInv, AttemptsAreKnown, Running
  <2>4. TraceIsOwn(p)'
    BY <1>1, <1>2, <1>3, <1>4 DEF OwnInv, TraceIsOwn
  <2>5. NamesAreKnown(p)'
    BY <1>1, <1>2, <1>3, <1>4 DEF OwnInv, NamesAreKnown
  <2> QED BY <2>1, <2>2, <2>3, <2>4, <2>5 DEF OwnInv
<1> QED
  BY <1>1, <1>2, <1>3, <1>5, Typed, QuietStepKeeps

------------------------------------------------------------------------------
LEMMA InitIInv ==
  ASSUME Init
  PROVE  IInv
<1>1. TypeOK
  <2>1. /\ 0 \in 0 .. Count /\ 0 \in 0 .. 1 /\ 0 \in 0 .. 2
        /\ {} \in SUBSET Races /\ "start" \in PC
    BY AnalysisAssumption DEF PC
  <2>2. \A b \in BOOLEAN :
          [pc |-> "start", tmp |-> None, runs |-> 0, output |-> {}, exitCode |-> 0,
           noTests |-> b, try |-> 0, big |-> b, trace |-> None,
           table |-> None, names |-> None] \in State
    BY <2>1 DEF State
  <2>3. FALSE \in BOOLEAN
    BY Zenon
  <2>4. [pc |-> "start", tmp |-> None, runs |-> 0, output |-> {}, exitCode |-> 0,
         noTests |-> FALSE, try |-> 0, big |-> FALSE, trace |-> None,
         table |-> None, names |-> None] \in State
    BY <2>2, <2>3, Zenon
  <2>5. state \in [Analyses -> State]
    BY <2>4, Zenon DEF Init
  <2> QED BY <2>5 DEF Init, TypeOK
<1>2. \A p \in Analyses :
        /\ state[p].pc = "start" /\ state[p].output = {} /\ ~state[p].noTests
        /\ state[p].try = 0 /\ ~state[p].big
        /\ state[p].trace = None /\ state[p].table = None /\ state[p].names = None
  BY DEF Init
<1>3. TracesAreKnown /\ BinaryIsKnown
  BY DEF Init, TracesAreKnown, BinaryIsKnown
<1>4. \A p \in Analyses : TmpIsOwn(p) /\ AttemptsAreKnown(p)
  BY <1>2 DEF TmpIsOwn, AttemptsAreKnown, Running
<1>5. \A p \in Analyses : OutputIsKept(p)
  BY <1>2 DEF Init, OutputIsKept
<1>6. \A p \in Analyses : TraceIsOwn(p) /\ NamesAreKnown(p)
  BY <1>2 DEF TraceIsOwn, NamesAreKnown
<1> QED BY <1>1, <1>3, <1>4, <1>5, <1>6 DEF IInv, OwnInv

LEMMA NextIInv ==
  ASSUME IInv, [Next]_vars
  PROVE  IInv'
<1>1. CASE UNCHANGED vars
  BY <1>1 DEF vars, IInv, TypeOK, TracesAreKnown, BinaryIsKnown, OwnInv, TmpIsOwn,
              OutputIsKept, AttemptsAreKnown, TraceIsOwn, NamesAreKnown
<1>2. ASSUME NEW p \in Analyses, Analyze(p) \/ Interrupt(p)
      PROVE  IInv'
  <2>1. CASE CreateTemp(p)
    BY <2>1, CreateTempIInv
  <2>2. CASE CreateTempFails(p)
    BY <2>2, CreateTempFailsIInv
  <2>3. CASE Pass1Run(p)
    BY <2>3, Pass1RunIInv
  <2>4. CASE Pass1Fails(p)
    BY <2>4, Pass1FailsIInv
  <2>5. CASE Pass1Ends(p)
    BY <2>5, Pass1EndsIInv
  <2>6. CASE Pass2(p)
    BY <2>6, Pass2IInv
  <2>7. CASE Stat(p)
    BY <2>7, StatIInv
  <2>8. CASE ParseRaces(p)
    BY <2>8, ParseRacesIInv
  <2>9. CASE ParseRacesFails(p)
    BY <2>9, ParseRacesFailsIInv
  <2>10. CASE CollectTrace(p)
    BY <2>10, CollectTraceIInv
  <2>11. CASE BuildBinary(p)
    BY <2>11, BuildBinaryIInv
  <2>12. CASE BuildNothing(p)
    BY <2>12, BuildNothingIInv
  <2>13. CASE NoBinary(p)
    BY <2>13, NoBinaryIInv
  <2>14. CASE LoadSymTable(p)
    BY <2>14, LoadSymTableIInv
  <2>15. CASE LoadSymTableFails(p)
    BY <2>15, LoadSymTableFailsIInv
  <2>16. CASE ResolveAndClose(p)
    BY <2>16, ResolveAndCloseIInv
  <2>17. CASE Correlate(p)
    BY <2>17, CorrelateIInv
  <2>18. CASE Interrupt(p)
    BY <2>18, InterruptIInv
  <2> QED BY <1>2, <2>1, <2>2, <2>3, <2>4, <2>5, <2>6, <2>7, <2>8, <2>9, <2>10,
             <2>11, <2>12, <2>13, <2>14, <2>15, <2>16, <2>17, <2>18 DEF Analyze
<1> QED BY <1>1, <1>2 DEF Next

(***************************************************************************)
(* The invariant holds of every behaviour of the analyses, however many    *)
(* share the directory.                                                    *)
(***************************************************************************)
THEOREM Invariance == Spec => []IInv
<1>1. Init => IInv
  BY InitIInv
<1>2. IInv /\ [Next]_vars => IInv'
  BY NextIInv
<1> QED BY <1>1, <1>2, PTL DEF Spec

(* The variables keep their types (runner.go:25-40, main.go:111-179). *)
THEOREM TypeCorrect == Spec => []TypeOK
<1>1. IInv => TypeOK
  BY DEF IInv
<1> QED BY <1>1, Invariance, PTL

(***************************************************************************)
(* main.go:111-179: what a finished analysis shows was reported and        *)
(* written by its own tests, all of it, and in the last attempt.           *)
(***************************************************************************)
THEOREM OwnResults == Spec => []ResultsAreOwn
<1>1. IInv => ResultsAreOwn
  BY DEF IInv, OwnInv, OutputIsKept, TraceIsOwn, ResultsAreOwn, At
<1> QED BY <1>1, Invariance, PTL

(***************************************************************************)
(* main.go:121, dwarf.go:54-57, 89-93: no analysis that returned, with a   *)
(* result or with an error, left a file in the temporary directory.        *)
(***************************************************************************)
THEOREM CleanTemp == Spec => []TempIsClean
<1>1. IInv => TempIsClean
  BY DEF IInv, TypeOK, TracesAreKnown, BinaryIsKnown, TempIsClean
<1> QED BY <1>1, Invariance, PTL

(***************************************************************************)
(* dwarf.go:35-57: names come from the analysis' own binary, unless it     *)
(* built none or another one built its own before this one had read it.    *)
(***************************************************************************)
THEOREM OwnNames == Spec => []NamesAreOwn
<1>1. IInv => NamesAreOwn
  BY DEF IInv, OwnInv, NamesAreKnown, NamesAreOwn
<1> QED BY <1>1, Invariance, PTL

(***************************************************************************)
(* runner.go:87, 102: an analysis that skips pass 2 has no race to show in *)
(* it, unless a signal killed one of its runs.                             *)
(***************************************************************************)
THEOREM NoTraceNoRaces == Spec => []NoTestsNoRaces
<1>1. IInv => NoTestsNoRaces
  BY DEF IInv, OwnInv, OutputIsKept, NoTestsNoRaces
<1> QED BY <1>1, Invariance, PTL

------------------------------------------------------------------------------
(* Each step brings an analysis forward. *)

LEMMA OnlyOneMoves ==
  ASSUME TypeOK, NEW p \in Analyses, NEW s, Becomes(p, s)
  PROVE  state'[p] = s /\ \A q \in Analyses \ {p} : state'[q] = state[q]
BY Typed DEF Becomes

(* A step to a later place that neither runs nor tries anything. *)
LEMMA LaterPlace ==
  ASSUME NEW s \in State, NEW t, t.runs = s.runs, t.try = s.try,
         Place(t.pc) \in Int, Place(s.pc) \in Int, Place(t.pc) < Place(s.pc)
  PROVE  Left(t) < Left(s)
<1>1. s.runs \in Int /\ s.try \in Int /\ Count \in Int
  BY AnalysisAssumption DEF State
<1> QED BY <1>1 DEF Left

(* What is left is never less than nothing. *)
LEMMA LeftIsNat == ASSUME NEW s \in State PROVE Left(s) \in Nat
<1>1. s.runs \in 0 .. Count /\ s.try \in 0 .. 2 /\ Count \in Nat
  BY AnalysisAssumption DEF State
<1>2. Place(s.pc) \in Nat
  BY DEF Place
<1> QED BY <1>1, <1>2 DEF Left

LEMMA GotoAdvances ==
  ASSUME TypeOK, NEW p \in Analyses, NEW pc, Goto(p, pc),
         Place(pc) \in Int, Place(state[p].pc) \in Int, Place(pc) < Place(state[p].pc)
  PROVE  /\ Left(state'[p]) < Left(state[p])
         /\ \A q \in Analyses \ {p} : state'[q] = state[q]
<1> DEFINE t == [state[p] EXCEPT !.pc = pc]
<1>1. state[p] \in State /\ Becomes(p, t)
  BY Typed DEF Goto
<1>2. t.pc = pc /\ t.runs = state[p].runs /\ t.try = state[p].try
  BY <1>1 DEF State
<1> HIDE DEF t
<1> QED BY <1>1, <1>2, OnlyOneMoves, LaterPlace

LEMMA ReturnAdvances ==
  ASSUME TypeOK, NEW p \in Analyses, NEW pc \in Ended, Return(p, pc),
         Place(state[p].pc) \in Nat \ {0}
  PROVE  /\ Left(state'[p]) < Left(state[p])
         /\ \A q \in Analyses \ {p} : state'[q] = state[q]
<1>1. Place(pc) = 0 /\ Goto(p, pc)
  BY DEF Place, Ended, Return
<1> QED BY <1>1, GotoAdvances

LEMMA StepAdvances ==
  ASSUME TypeOK, NEW p \in Analyses, Analyze(p) \/ Interrupt(p)
  PROVE  /\ Left(state'[p]) < Left(state[p])
         /\ \A q \in Analyses \ {p} : state'[q] = state[q]
<1>0. state[p] \in State /\ state[p].runs \in Int /\ state[p].try \in Int /\ Count \in Int
  BY Typed, AnalysisAssumption DEF State
<1>1. CASE CreateTemp(p)
  <2>1. PICK f \in TempName, pc \in {"pass1", "unclosed"} :
          Becomes(p, [state[p] EXCEPT !.pc = pc, !.tmp = f])
    BY <1>1 DEF CreateTemp
  <2> DEFINE t == [state[p] EXCEPT !.pc = pc, !.tmp = f]
  <2>2. t.runs = state[p].runs /\ t.try = state[p].try /\ t.pc = pc
    BY <1>0 DEF State
  <2>3. Place(state[p].pc) = 10 /\ Place(pc) \in {9, 0}
    BY <1>1 DEF CreateTemp, At, Place
  <2> HIDE DEF t
  <2>4. Left(t) < Left(state[p])
    BY <1>0, <2>2, <2>3, LaterPlace
  <2> QED BY <2>1, <2>4, OnlyOneMoves DEF t
<1>2. CASE CreateTempFails(p)
  <2>1. Goto(p, "failed") /\ Place(state[p].pc) = 10 /\ Place("failed") = 0
    BY <1>2 DEF CreateTempFails, At, Place
  <2> QED BY <2>1, GotoAdvances
<1>3. CASE Pass1Run(p)
  <2>1. PICK r \in RunGoTest(p) :
          Becomes(p, [state[p] EXCEPT !.runs = @ + 1, !.output = @ \cup r.races,
                                      !.exitCode = AtLeast(@, r.code)])
    BY <1>3 DEF Pass1Run
  <2> DEFINE t == [state[p] EXCEPT !.runs = @ + 1, !.output = @ \cup r.races,
                                   !.exitCode = AtLeast(@, r.code)]
  <2>2. t.runs = state[p].runs + 1 /\ t.try = state[p].try /\ t.pc = state[p].pc
    BY <1>0 DEF State
  <2>3. Place(state[p].pc) = 9
    BY <1>3 DEF Pass1Run, At, Place
  <2> HIDE DEF t
  <2>4. Left(t) < Left(state[p])
    BY <1>0, <2>2, <2>3 DEF Left
  <2> QED BY <2>1, <2>4, OnlyOneMoves DEF t
<1>4. CASE Pass1Fails(p)
  <2>1. Return(p, "failed") /\ Place(state[p].pc) = 9
    BY <1>4 DEF Pass1Fails, At, Place
  <2> QED BY <2>1, ReturnAdvances DEF Ended
<1>5. CASE Pass1Ends(p)
  <2>1. PICK printed \in NoTestFilesPrinted(p) :
          LET noTests == printed /\ state[p].exitCode = 0
          IN  Becomes(p, [state[p] EXCEPT !.noTests = noTests,
                                          !.pc = IF noTests THEN "parse" ELSE "pass2"])
    BY <1>5 DEF Pass1Ends
  <2> DEFINE noTests == printed /\ state[p].exitCode = 0
             pc == IF noTests THEN "parse" ELSE "pass2"
             t  == [state[p] EXCEPT !.noTests = noTests, !.pc = pc]
  <2>2. Becomes(p, t)
    BY <2>1
  <2>3. t.runs = state[p].runs /\ t.try = state[p].try /\ t.pc = pc
    BY <1>0 DEF State
  <2>4. Place(state[p].pc) = 9 /\ Place(pc) \in {6, 7}
    BY <1>5 DEF Pass1Ends, At, Place
  <2> HIDE DEF t, pc, noTests
  <2>5. Left(t) < Left(state[p])
    BY <1>0, <2>3, <2>4, LaterPlace
  <2> QED BY <2>2, <2>5, OnlyOneMoves
<1>6. CASE Pass2(p)
  <2> DEFINE t == [state[p] EXCEPT !.try = @ + 1, !.pc = "stat"]
  <2>1. Becomes(p, t)
    BY <1>6 DEF Pass2
  <2>2. t.runs = state[p].runs /\ t.try = state[p].try + 1 /\ t.pc = "stat"
    BY <1>0 DEF State
  <2>3. Place(state[p].pc) = 7 /\ Place("stat") = 8
    BY <1>6 DEF Pass2, At, Place
  <2> HIDE DEF t
  <2>4. Left(t) < Left(state[p])
    BY <1>0, <2>2, <2>3 DEF Left
  <2> QED BY <2>1, <2>4, OnlyOneMoves
<1>7. CASE Stat(p)
  <2> DEFINE big == Big(state[p].tmp, state[p].big)
             pc  == IF big \/ state[p].try = 2 THEN "parse" ELSE "pass2"
             t   == [state[p] EXCEPT !.big = big, !.pc = pc]
  <2>1. Becomes(p, t)
    BY <1>7 DEF Stat
  <2>2. t.runs = state[p].runs /\ t.try = state[p].try /\ t.pc = pc
    BY <1>0 DEF State
  <2>3. Place(state[p].pc) = 8 /\ Place(pc) \in {6, 7}
    BY <1>7 DEF Stat, At, Place
  <2> HIDE DEF t, pc, big
  <2>4. Left(t) < Left(state[p])
    BY <1>0, <2>2, <2>3, LaterPlace
  <2> QED BY <2>1, <2>4, OnlyOneMoves
<1>8. CASE ParseRaces(p)
  <2>1. PICK pc \in {"trace", "dwarf"} : Goto(p, pc)
    BY <1>8 DEF ParseRaces
  <2>2. Place(state[p].pc) = 6 /\ Place(pc) \in {4, 5}
    BY <1>8 DEF ParseRaces, At, Place
  <2> QED BY <2>1, <2>2, GotoAdvances
<1>9. CASE ParseRacesFails(p)
  <2>1. Return(p, "failed") /\ Place(state[p].pc) = 6
    BY <1>9 DEF ParseRacesFails, At, Place
  <2> QED BY <2>1, ReturnAdvances DEF Ended
<1>10. CASE CollectTrace(p)
  <2>1. PICK x : Becomes(p, [state[p] EXCEPT !.trace = x, !.pc = "dwarf"])
    BY <1>10 DEF CollectTrace
  <2> DEFINE t == [state[p] EXCEPT !.trace = x, !.pc = "dwarf"]
  <2>2. t.runs = state[p].runs /\ t.try = state[p].try /\ t.pc = "dwarf"
    BY <1>0 DEF State
  <2>3. Place(state[p].pc) = 5 /\ Place("dwarf") = 4
    BY <1>10 DEF CollectTrace, At, Place
  <2> HIDE DEF t
  <2>4. Left(t) < Left(state[p])
    BY <1>0, <2>2, <2>3, LaterPlace
  <2> QED BY <2>1, <2>4, OnlyOneMoves DEF t
<1>11. CASE BuildBinary(p) \/ BuildNothing(p)
  <2>1. Goto(p, "load") /\ Place(state[p].pc) = 4 /\ Place("load") = 3
    BY <1>11 DEF BuildBinary, BuildNothing, At, Place
  <2> QED BY <2>1, GotoAdvances
<1>12. CASE NoBinary(p)
  <2>1. Goto(p, "correlate") /\ Place(state[p].pc) = 4 /\ Place("correlate") = 1
    BY <1>12 DEF NoBinary, At, Place
  <2> QED BY <2>1, GotoAdvances
<1>13. CASE LoadSymTable(p)
  <2> DEFINE t == [state[p] EXCEPT !.table = disk[DwarfBin].by, !.pc = "resolve"]
  <2>1. Becomes(p, t)
    BY <1>13 DEF LoadSymTable
  <2>2. t.runs = state[p].runs /\ t.try = state[p].try /\ t.pc = "resolve"
    BY <1>0 DEF State
  <2>3. Place(state[p].pc) = 3 /\ Place("resolve") = 2
    BY <1>13 DEF LoadSymTable, At, Place
  <2> HIDE DEF t
  <2>4. Left(t) < Left(state[p])
    BY <1>0, <2>2, <2>3, LaterPlace
  <2> QED BY <2>1, <2>4, OnlyOneMoves
<1>14. CASE LoadSymTableFails(p)
  <2>1. Goto(p, "correlate") /\ Place(state[p].pc) = 3 /\ Place("correlate") = 1
    BY <1>14 DEF LoadSymTableFails, At, Place
  <2> QED BY <2>1, GotoAdvances
<1>15. CASE ResolveAndClose(p)
  <2> DEFINE t == [state[p] EXCEPT !.names = state[p].table, !.pc = "correlate"]
  <2>1. Becomes(p, t)
    BY <1>15 DEF ResolveAndClose
  <2>2. t.runs = state[p].runs /\ t.try = state[p].try /\ t.pc = "correlate"
    BY <1>0 DEF State
  <2>3. Place(state[p].pc) = 2 /\ Place("correlate") = 1
    BY <1>15 DEF ResolveAndClose, At, Place
  <2> HIDE DEF t
  <2>4. Left(t) < Left(state[p])
    BY <1>0, <2>2, <2>3, LaterPlace
  <2> QED BY <2>1, <2>4, OnlyOneMoves
<1>16. CASE Correlate(p)
  <2>1. Return(p, "done") /\ Place(state[p].pc) = 1
    BY <1>16 DEF Correlate, At, Place
  <2> QED BY <2>1, ReturnAdvances DEF Ended
<1>17. CASE Interrupt(p)
  <2>1. Goto(p, "killed") /\ Place("killed") = 0
    BY <1>17 DEF Interrupt, Place
  <2>2. Place(state[p].pc) \in 1 .. 10
    BY <1>0, <1>17 DEF Interrupt, State, PC, Ended, Place
  <2> QED BY <2>1, <2>2, GotoAdvances
<1> QED BY <1>1, <1>2, <1>3, <1>4, <1>5, <1>6, <1>7, <1>8, <1>9, <1>10, <1>11, <1>12,
           <1>13, <1>14, <1>15, <1>16, <1>17 DEF Analyze

(***************************************************************************)
(* runner.go:134-146: each step brings one analysis nearer to its end and  *)
(* leaves the others where they are, so none goes on for ever.             *)
(***************************************************************************)
THEOREM NoneGoesOnForEver == Spec => AnalysesAdvance
<1> DEFINE Advances == \E p \in Analyses :
             /\ Left(state'[p]) < Left(state[p])
             /\ \A q \in Analyses \ {p} : state'[q] = state[q]
<1>1. TypeOK /\ Next => Advances
  BY StepAdvances DEF Next
<1>2. TypeOK /\ [Next]_vars => [Advances]_vars
  BY <1>1
<1> QED BY <1>2, TypeCorrect, PTL DEF Spec, AnalysesAdvance
==============================================================================

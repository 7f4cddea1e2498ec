------------------------------- MODULE Analysis -------------------------------
(***************************************************************************)
(* Analyses (main.go:111-179, runner/runner.go, dwarf.go) over the files   *)
(* they keep in the temporary directory.  The analyses of one watcher      *)
(* follow one another; those of several racevis processes run side by      *)
(* side.  What the go command prints and writes is any of what it may.     *)
(***************************************************************************)
EXTENDS Integers, FiniteSets

CONSTANTS
  Analyses,             \* analyses started by anybody on this machine
  Pkg, Root,            \* packages of a target, and the one in its directory
  Races,                \* races that a test may run into
  Count,                \* the -count flag
  TempName,             \* names that os.CreateTemp gives
  DwarfBin,             \* racevis-dwarf-bin in the temporary directory
  None                  \* no file, no trace, no symbol table

(* A file: who wrote it, in which attempt, and whether it has more than
   minViableTraceBytes (runner.go:127). *)
File == [by : Analyses, try : 0 .. 2, big : BOOLEAN]

ASSUME AnalysisAssumption ==
  /\ Root \in Pkg
  /\ Count \in Nat \ {0}
  /\ DwarfBin \notin TempName
  /\ None \notin File
  /\ IsFiniteSet(Analyses) /\ IsFiniteSet(TempName)
  /\ Cardinality(TempName) >= Cardinality(Analyses)

VARIABLES
  tested,               \* packages of each target with _test.go files
  disk,                 \* the files of the temporary directory
  state,                \* each analysis
  reported,             \* history: the races each analysis' tests have run into
  signalled,            \* history: those with a run of tests killed by a signal
  overwritten           \* history: those whose binary another one replaced unread

vars == <<tested, disk, state, reported, signalled, overwritten>>

Ended == {"done", "failed", "killed", "unclosed"}
PC    == {"start", "pass1", "pass2", "stat", "parse", "trace", "dwarf", "load",
          "resolve", "correlate"} \cup Ended

(* runner.Result and the variables of analyze; trace and names say whose file
   the timeline's parts come from. *)
State == [pc : PC, tmp : TempName \cup {None}, runs : 0 .. Count,
          output : SUBSET Races, exitCode : 0 .. 1, noTests : BOOLEAN,
          try : 0 .. 2, big : BOOLEAN, trace : File \cup {None},
          table : Analyses \cup {None}, names : Analyses \cup {None}]

TypeOK ==
  /\ tested \in [Analyses -> SUBSET Pkg]
  /\ disk \in [TempName \cup {DwarfBin} -> File \cup {None}]
  /\ state \in [Analyses -> State]
  /\ reported \in [Analyses -> SUBSET Races]
  /\ signalled \subseteq Analyses
  /\ overwritten \subseteq Analyses

Init ==
  /\ tested \in [Analyses -> SUBSET Pkg]
  /\ disk = [f \in TempName \cup {DwarfBin} |-> None]
  /\ state = [p \in Analyses |->
       [pc |-> "start", tmp |-> None, runs |-> 0, output |-> {}, exitCode |-> 0,
        noTests |-> FALSE, try |-> 0, big |-> FALSE, trace |-> None,
        table |-> None, names |-> None]]
  /\ reported = [p \in Analyses |-> {}]
  /\ signalled = {}
  /\ overwritten = {}

At(p, pc) == state[p].pc = pc
Becomes(p, s) == state' = [state EXCEPT ![p] = s]
Goto(p, pc) == Becomes(p, [state[p] EXCEPT !.pc = pc])

Remove(f) == disk' = [disk EXCEPT ![f] = None]

(* A return from analyze after the defer of main.go:121. *)
Return(p, pc) ==
  /\ Goto(p, pc)
  /\ Remove(state[p].tmp)
  /\ UNCHANGED <<tested, reported, signalled, overwritten>>

------------------------------------------------------------------------------
(* The temporary file (main.go:112-121). *)

(* os.CreateTemp gives a name that no file has. *)
Unused(f) == disk[f] = None

CreateTemp(p) ==
  /\ At(p, "start")
  /\ \E f \in TempName : \E pc \in {"pass1", "unclosed"} :
       /\ Unused(f)
       /\ disk' = [disk EXCEPT ![f] = [by |-> p, try |-> 0, big |-> FALSE]]
       /\ Becomes(p, [state[p] EXCEPT !.pc = pc, !.tmp = f])
  /\ UNCHANGED <<tested, reported, signalled, overwritten>>

CreateTempFails(p) ==
  /\ At(p, "start")
  /\ Goto(p, "failed")
  /\ UNCHANGED <<tested, disk, reported, signalled, overwritten>>

------------------------------------------------------------------------------
(* Pass 1 (runner.go:51-106). *)

AtLeast(n, m) == IF n < m THEN m ELSE n

(* What runGoTest returns (runner.go:213-241) when it is not an error, which
   code 2 is: tests that race fail, or are killed by a signal, which is
   code -1 with the output so far. *)
RunGoTest(p) ==
  {r \in [races : SUBSET Races, code : -1 .. 1] :
     r.races # {} => r.code # 0 /\ tested[p] # {}}

Signalled(p, r) == IF r.code = -1 THEN signalled \cup {p} ELSE signalled

(* Mutant: the output of the last run only. *)
Pass1RunLast(p) ==
  /\ At(p, "pass1")
  /\ state[p].runs < Count
  /\ \E r \in RunGoTest(p) :
       /\ Becomes(p, [state[p] EXCEPT !.runs = @ + 1, !.output = r.races,
                                      !.exitCode = AtLeast(@, r.code)])
       /\ reported' = [reported EXCEPT ![p] = @ \cup r.races]
       /\ signalled' = Signalled(p, r)
  /\ UNCHANGED <<tested, disk, overwritten>>

(* One of the runs. *)
Pass1Run(p) ==
  /\ At(p, "pass1")
  /\ state[p].runs < Count
  /\ \E r \in RunGoTest(p) :
       /\ Becomes(p, [state[p] EXCEPT !.runs = @ + 1, !.output = @ \cup r.races,
                                      !.exitCode = AtLeast(@, r.code)])
       /\ reported' = [reported EXCEPT ![p] = @ \cup r.races]
       /\ signalled' = Signalled(p, r)
  /\ UNCHANGED <<tested, disk, overwritten>>

(* validateTarget, exit code 2 or a command that does not start. *)
Pass1Fails(p) ==
  /\ At(p, "pass1")
  /\ state[p].runs < Count
  /\ Return(p, "failed")

(* Whether the output names a package without tests, as "[no test files]":
   go test names each, unless it is killed before. *)
NoTestFilesPrinted(p) ==
  {tested[p] # Pkg} \cup (IF p \in signalled THEN {FALSE} ELSE {})

(* Mutant: the output alone decides. *)
Pass1EndsByOutput(p) ==
  /\ At(p, "pass1")
  /\ state[p].runs = Count
  /\ \E noTests \in NoTestFilesPrinted(p) :
       Becomes(p, [state[p] EXCEPT !.noTests = noTests,
                                   !.pc = IF noTests THEN "parse" ELSE "pass2"])
  /\ UNCHANGED <<tested, disk, reported, signalled, overwritten>>

Pass1Ends(p) ==
  /\ At(p, "pass1")
  /\ state[p].runs = Count
  /\ \E printed \in NoTestFilesPrinted(p) :
       LET noTests == printed /\ state[p].exitCode = 0
       IN  Becomes(p, [state[p] EXCEPT !.noTests = noTests,
                                       !.pc = IF noTests THEN "parse" ELSE "pass2"])
  /\ UNCHANGED <<tested, disk, reported, signalled, overwritten>>

------------------------------------------------------------------------------
(* Pass 2 (runner.go:108-156). *)

(* The tests of the root package write the trace; when they do not build, or
   there are none, they leave the file as it was. *)
Pass2(p) ==
  /\ At(p, "pass2")
  /\ Becomes(p, [state[p] EXCEPT !.try = @ + 1, !.pc = "stat"])
  /\ \/ /\ Root \in tested[p]
        /\ \E b \in BOOLEAN :
             disk' = [disk EXCEPT ![state[p].tmp] =
                        [by |-> p, try |-> state[p].try + 1, big |-> b]]
     \/ UNCHANGED disk
  /\ UNCHANGED <<tested, reported, signalled, overwritten>>

Big(f, before) == IF disk[f] = None THEN before ELSE disk[f].big

(* Mutant: retry until there is a trace. *)
StatAlwaysRetry(p) ==
  /\ At(p, "stat")
  /\ LET big == Big(state[p].tmp, state[p].big)
     IN  Becomes(p, [state[p] EXCEPT !.big = big, !.try = IF big THEN @ ELSE 0,
                                     !.pc = IF big THEN "parse" ELSE "pass2"])
  /\ UNCHANGED <<tested, disk, reported, signalled, overwritten>>

(* Mutant: one retry too many. *)
StatRetryTwice(p) ==
  /\ At(p, "stat")
  /\ LET big == Big(state[p].tmp, state[p].big)
     IN  Becomes(p, [state[p] EXCEPT !.big = big,
                       !.pc = IF big \/ state[p].try > 2 THEN "parse" ELSE "pass2"])
  /\ UNCHANGED <<tested, disk, reported, signalled, overwritten>>

(* The size is checked after each attempt; one retry. *)
Stat(p) ==
  /\ At(p, "stat")
  /\ LET big == Big(state[p].tmp, state[p].big)
     IN  Becomes(p, [state[p] EXCEPT !.big = big,
                       !.pc = IF big \/ state[p].try = 2 THEN "parse" ELSE "pass2"])
  /\ UNCHANGED <<tested, disk, reported, signalled, overwritten>>

------------------------------------------------------------------------------
(* The rest of analyze (main.go:135-178). *)

ParseRaces(p) ==
  /\ At(p, "parse")
  /\ Goto(p, IF state[p].big THEN "trace" ELSE "dwarf")
  /\ UNCHANGED <<tested, disk, reported, signalled, overwritten>>

(* The scanner's limit (race.go:220-222). *)
ParseRacesFails(p) ==
  /\ At(p, "parse")
  /\ Return(p, "failed")

(* go tool trace, with one of the flags: the text of the trace, also that of a
   tool that failed half-way, or nothing. *)
invokeTraceCmd(f) == {f, None}

(* -d=parsed, and -d=1 when that gave nothing (runner.go:163-184). *)
CollectTraceEvents(f) ==
  UNION {IF out # None THEN {out} ELSE invokeTraceCmd(f) : out \in invokeTraceCmd(f)}

(* An error of the tool or of ParseTraceOutput leaves the trace nil, and the
   analysis goes on. *)
CollectTrace(p) ==
  /\ At(p, "trace")
  /\ \E t \in CollectTraceEvents(disk[state[p].tmp]) \cup {None} :
       Becomes(p, [state[p] EXCEPT !.trace = t, !.pc = "dwarf"])
  /\ UNCHANGED <<tested, disk, reported, signalled, overwritten>>

(* newDWARFResolver: go test -c writes the binary, loadSymTable reads it
   (dwarf.go:36-62). *)
BuildBinary(p) ==
  /\ At(p, "dwarf")
  /\ Root \in tested[p]
  /\ disk' = [disk EXCEPT ![DwarfBin] = [by |-> p, try |-> 0, big |-> TRUE]]
  /\ Goto(p, "load")
  /\ overwritten' = overwritten \cup {q \in Analyses \ {p} : At(q, "load")}
  /\ UNCHANGED <<tested, reported, signalled>>

(* go test -c writes no binary for a package without tests, and succeeds. *)
BuildNothing(p) ==
  /\ At(p, "dwarf")
  /\ Root \notin tested[p]
  /\ Goto(p, "load")
  /\ UNCHANGED <<tested, disk, reported, signalled, overwritten>>

(* Mutant: a build that fails goes on with the file there is. *)
NoBinaryGoesOn(p) ==
  /\ At(p, "dwarf")
  /\ Goto(p, "load")
  /\ UNCHANGED <<tested, disk, reported, signalled, overwritten>>

(* Without the -dwarf flag, or the binary cannot be built: no names. *)
NoBinary(p) ==
  /\ At(p, "dwarf")
  /\ Goto(p, "correlate")
  /\ UNCHANGED <<tested, disk, reported, signalled, overwritten>>

LoadSymTable(p) ==
  /\ At(p, "load")
  /\ disk[DwarfBin] # None
  /\ Becomes(p, [state[p] EXCEPT !.table = disk[DwarfBin].by, !.pc = "resolve"])
  /\ UNCHANGED <<tested, disk, reported, signalled, overwritten>>

(* Mutant: the binary is expected to be there. *)
LoadSymTableFailsIfThere(p) ==
  /\ At(p, "load")
  /\ disk[DwarfBin] # None
  /\ Remove(DwarfBin)
  /\ Goto(p, "correlate")
  /\ UNCHANGED <<tested, reported, signalled, overwritten>>

(* Mutant: the binary stays. *)
LoadSymTableFailsKeeping(p) ==
  /\ At(p, "load")
  /\ Goto(p, "correlate")
  /\ UNCHANGED <<tested, disk, reported, signalled, overwritten>>

(* The binary is gone or has no symbol table. *)
LoadSymTableFails(p) ==
  /\ At(p, "load")
  /\ Remove(DwarfBin)
  /\ Goto(p, "correlate")
  /\ UNCHANGED <<tested, reported, signalled, overwritten>>

(* Resolve for every race, then Close (main.go:363-377). *)
ResolveAndClose(p) ==
  /\ At(p, "resolve")
  /\ Remove(DwarfBin)
  /\ Becomes(p, [state[p] EXCEPT !.names = state[p].table, !.pc = "correlate"])
  /\ UNCHANGED <<tested, reported, signalled, overwritten>>

(* The timeline is made of output, trace and names. *)
Correlate(p) ==
  /\ At(p, "correlate")
  /\ Return(p, "done")

(* Ctrl+C: os.Exit runs no deferred call (main.go:199-206). *)
Interrupt(p) ==
  /\ state[p].pc \notin Ended
  /\ Goto(p, "killed")
  /\ UNCHANGED <<tested, disk, reported, signalled, overwritten>>

------------------------------------------------------------------------------
Analyze(p) ==
  \/ CreateTemp(p) \/ CreateTempFails(p)
  \/ Pass1Run(p) \/ Pass1Fails(p) \/ Pass1Ends(p) \/ Pass2(p) \/ Stat(p)
  \/ ParseRaces(p) \/ ParseRacesFails(p) \/ CollectTrace(p)
  \/ BuildBinary(p) \/ BuildNothing(p) \/ NoBinary(p)
  \/ LoadSymTable(p) \/ LoadSymTableFails(p) \/ ResolveAndClose(p) \/ Correlate(p)

Next == \E p \in Analyses : Analyze(p) \/ Interrupt(p)

Spec == Init /\ [][Next]_vars

------------------------------------------------------------------------------
(***************************************************************************)
(* A finished analysis has every race that any of its -count runs reported *)
(* (runner.go:70-71), whatever became of its trace and of its names, and   *)
(* its trace is one that its own tests wrote, in the last attempt made:    *)
(* none of another analysis that shares the temporary directory.           *)
(***************************************************************************)
ResultsAreOwn ==
  \A p \in Analyses : At(p, "done") =>
    /\ state[p].output = reported[p]
    /\ state[p].trace # None =>
         /\ state[p].trace.by = p /\ state[p].trace.big
         /\ state[p].trace.try = state[p].try

(***************************************************************************)
(* An analysis that has ended, well or not, left no file behind            *)
(* (main.go:121, dwarf.go:54-57, 89-93): what is in the directory belongs  *)
(* to one that has not ended, was interrupted, or could not close it.      *)
(***************************************************************************)
TempIsClean ==
  \A f \in DOMAIN disk : disk[f] # None =>
    state[disk[f].by].pc \notin {"done", "failed"}

(* What is left to do for an analysis: its runs, its attempts at a trace, each
   of two steps, and the steps after them. *)
Place(pc) ==
  CASE pc = "start"   -> 10
    [] pc = "pass1"   -> 9
    [] pc = "pass2"   -> 7
    [] pc = "stat"    -> 8
    [] pc = "parse"   -> 6
    [] pc = "trace"   -> 5
    [] pc = "dwarf"   -> 4
    [] pc = "load"    -> 3
    [] pc = "resolve" -> 2
    [] pc = "correlate" -> 1
    [] OTHER          -> 0

Left(s) == (Count - s.runs) + 2 * (2 - s.try) + Place(s.pc)

(***************************************************************************)
(* runner.go:134-146: an analysis ends, however small its traces are and   *)
(* whatever others do: each step of the system brings one analysis forward *)
(* and throws none back, since there is one retry.  With NobodyIsStuck,    *)
(* and commands that end by their -timeout, all end.                       *)
(***************************************************************************)
AnalysesAdvance ==
  [][\E p \in Analyses :
       /\ Left(state'[p]) < Left(state[p])
       /\ \A q \in Analyses \ {p} : state'[q] = state[q]]_vars

(***************************************************************************)
(* dwarf.go:55, runner.go:131: an analysis that has not ended can go on,   *)
(* also when another one has removed or replaced the binary it is about to *)
(* read.                                                                   *)
(***************************************************************************)
NobodyIsStuck == \A p \in Analyses : state[p].pc \in Ended \/ ENABLED Analyze(p)

(***************************************************************************)
(* dwarf.go:35-57: names come from the binary that the analysis compiled,  *)
(* whatever others left behind, unless it compiled none, its package       *)
(* having no tests, or another analysis built its own before this one had  *)
(* read it: all have one path (dwarf.go:38).                               *)
(***************************************************************************)
NamesAreOwn ==
  \A p \in Analyses :
    \/ state[p].names \in {p, None}
    \/ p \in overwritten \/ Root \notin tested[p]

(***************************************************************************)
(* dwarf.go:35 "newDWARFResolver compiles a debug binary and loads its     *)
(* symbol table": names never come from another analysis' binary.          *)
(***************************************************************************)
NamesAreOfTheBinary == \A p \in Analyses : state[p].names \in {p, None}

(***************************************************************************)
(* runner.go:87, 102: an analysis that skips pass 2 because of one package *)
(* without tests has no race to show in it, in none of its runs, unless    *)
(* one of them was killed by a signal, which does not change exitCode.     *)
(***************************************************************************)
NoTestsNoRaces ==
  \A p \in Analyses : state[p].noTests => reported[p] = {} \/ p \in signalled

(***************************************************************************)
(* runner.go:37 "NoTests is true when the target package has no _test.go   *)
(* files": so at least when no run was killed by a signal.                 *)
(***************************************************************************)
NoTestsIsOfTheTarget ==
  \A p \in Analyses : state[p].noTests => Root \notin tested[p] \/ p \in signalled

(***************************************************************************)
(* runner.go:34 "ExitCode from go test -race. 0 = pass, 1 = races found":  *)
(* when pass 1 is over and its code is 0, it has found no race.            *)
(***************************************************************************)
ExitCodeTellsOfRaces ==
  \A p \in Analyses :
    state[p].runs = Count /\ state[p].exitCode = 0 => state[p].output = {}
==============================================================================

------------------------------ MODULE RaceReport ------------------------------
(***************************************************************************)
(* The race detector (external) writing its reports, the tested program    *)
(* writing between their lines, and ParseRaceOutput reading what comes of  *)
(* it.  A report: a separator, the warning, the two accesses with their    *)
(* stacks, the creation stack of each goroutine except the main one, and a *)
(* separator.  A stack's frame is a function line and a file line.  Blank  *)
(* lines and "[failed to restore the stack]" are "other" lines.  The       *)
(* program's own lines may look like parts of a report: a line of = signs, *)
(* t.Log's "    x_test.go:12: ..." like a file line, an indented "name("   *)
(* like a function; it does not print the detector's headings.  A test     *)
(* binary may die inside a report; the output of the next package or run   *)
(* follows without a separator (runner.go:86).                             *)
(***************************************************************************)
EXTENDS RaceParser

CONSTANTS
  Stack,                \* the call stacks in reports, as sequences of functions
  Reports,              \* the reports the input is made of
  Damaged,              \* a report cut short, or with the program's lines in it
  MaxReports,           \* bound: reports in one input
  MaxStrays             \* bound: lines of the program's own inside reports

Report ==
  {r \in [opA : Op, gidA : Gid, stackA : Stack, creationA : Stack,
          opB : Op, gidB : Gid, stackB : Stack, creationB : Stack] :
     r.gidA # r.gidB}

ASSUME ReportAssumption ==
  /\ Stack \subseteq Seq(Func)
  /\ Reports \subseteq Report
  /\ Damaged \notin Report
  /\ MaxReports \in Nat
  /\ MaxStrays \in Nat

VARIABLES
  report,               \* the report being written, or the last one
  section,              \* what was written of it last
  n,                    \* frames of the section's stack written in full
  line,                 \* the line its next frame goes on with: "func", "file"
  intact,               \* nothing of the program's own is in the report so far
  strays,               \* history: lines of the program's own inside reports
  reported              \* history: the reports written, and the damaged ones

reportVars == <<report, section, n, line, intact, strays, reported>>
vars == <<parserVars, reportVars>>

Section == {"none", "open", "warning", "stackA", "stackB", "creationA", "creationB",
            "cut"}

InReport == section \notin {"none", "open"}
Writing  == InReport /\ section # "cut"

Blocks == Len(reported) + IF InReport THEN 1 ELSE 0

(* The stack a section writes. *)
StackOf(r, s) ==
  CASE s = "stackA"    -> r.stackA
    [] s = "stackB"    -> r.stackB
    [] s = "creationA" -> r.creationA
    [] s = "creationB" -> r.creationB
    [] OTHER           -> <<>>

WriterTypeOK ==
  /\ report \in Report
  /\ section \in Section
  /\ n \in 0 .. Len(StackOf(report, section))
  /\ line \in {"func", "file"}
  /\ line = "file" => n < Len(StackOf(report, section))
  /\ intact \in BOOLEAN
  /\ strays \in 0 .. MaxStrays
  /\ reported \in Seq(Report \cup {Damaged})

TypeOK == ParserTypeOK /\ WriterTypeOK

Init ==
  /\ ParserInit
  /\ report \in Reports
  /\ section = "none"
  /\ n = 0
  /\ line = "func"
  /\ intact = TRUE
  /\ strays = 0
  /\ reported = <<>>

------------------------------------------------------------------------------
StackWritten == line = "func" /\ n = Len(StackOf(report, section))

(* Write line l and begin section s. *)
Begin(s, l) ==
  /\ ReadLine(l)
  /\ section' = s
  /\ n' = 0
  /\ line' = "func"

OpenReport ==
  /\ section \in {"none", "cut"}
  /\ Blocks < MaxReports
  /\ report' \in Reports
  /\ reported' = IF section = "cut" THEN Append(reported, Damaged) ELSE reported
  /\ intact' = TRUE
  /\ Begin("open", Line("sep"))
  /\ UNCHANGED strays

WriteWarning ==
  /\ section = "open"
  /\ Begin("warning", Line("warning"))
  /\ UNCHANGED <<report, intact, strays, reported>>

WriteAccess ==
  /\ section = "warning"
  /\ Begin("stackA", AccessLine(report.opA, report.gidA))
  /\ UNCHANGED <<report, intact, strays, reported>>

WritePrevious ==
  /\ section = "stackA" /\ StackWritten
  /\ Begin("stackB", PreviousLine(report.opB, report.gidB))
  /\ UNCHANGED <<report, intact, strays, reported>>

(* The first access's goroutine comes first. *)
WriteCreationA ==
  /\ section = "stackB" /\ StackWritten
  /\ report.gidA # Main
  /\ Begin("creationA", CreationLine(report.gidA))
  /\ UNCHANGED <<report, intact, strays, reported>>

WriteCreationB ==
  /\ \/ section = "creationA"
     \/ section = "stackB" /\ report.gidA = Main
  /\ StackWritten
  /\ report.gidB # Main
  /\ Begin("creationB", CreationLine(report.gidB))
  /\ UNCHANGED <<report, intact, strays, reported>>

WriteFunc ==
  /\ line = "func" /\ n < Len(StackOf(report, section))
  /\ ReadLine(FuncLine(StackOf(report, section)[n + 1]))
  /\ line' = "file"
  /\ UNCHANGED <<report, section, n, intact, strays, reported>>

WriteFile ==
  /\ line = "file"
  /\ ReadLine(FileLine(StackOf(report, section)[n + 1]))
  /\ line' = "func"
  /\ n' = n + 1
  /\ UNCHANGED <<report, section, intact, strays, reported>>

CloseReport ==
  /\ \/ section = "creationB"
     \/ section = "creationA" /\ report.gidB = Main
  /\ StackWritten
  /\ reported' = Append(reported, IF intact THEN report ELSE Damaged)
  /\ Begin("none", Line("sep"))
  /\ UNCHANGED <<report, intact, strays>>

(* The test binary dies: what comes next is of another one. *)
Killed ==
  /\ result = "reading"
  /\ section = "open" \/ Writing
  /\ section' = IF section = "open" THEN "none" ELSE "cut"
  /\ n' = 0
  /\ line' = "func"
  /\ UNCHANGED <<report, intact, strays, reported, parserVars>>

(* The lines of the program's own. *)
OwnLine == {Line("other"), Line("sep")} \cup {FuncLine(f) : f \in Func}
             \cup {FileLine(f) : f \in Func}

(* Those that can be taken for a part of the report they fall into: a file line
   only before the one that a function still waits for. *)
Strays(l) ==
  /\ InReport
  /\ \/ l.kind = "sep"
     \/ l.kind = "func" /\ section # "warning"
     \/ l.kind = "file" /\ line = "file"

WriteOther ==
  \E l \in OwnLine :
    /\ ReadLine(l)
    /\ IF Strays(l)
       THEN strays < MaxStrays /\ strays' = strays + 1 /\ intact' = FALSE
       ELSE UNCHANGED <<intact, strays>>
    /\ UNCHANGED <<report, section, n, line, reported>>

(* The output ends, perhaps inside a report: a test binary can be killed. *)
End == (EndOfInput \/ LineTooLong) /\ UNCHANGED reportVars

Next ==
  \/ OpenReport \/ WriteWarning \/ WriteAccess \/ WritePrevious
  \/ WriteCreationA \/ WriteCreationB \/ WriteFunc \/ WriteFile \/ CloseReport
  \/ Killed \/ WriteOther \/ End

Spec == Init /\ [][Next]_vars

------------------------------------------------------------------------------
(* What a report should become. *)

(* The first k frames of a stack: every function with its own file. *)
Prefix(s, k) == [i \in 1 .. k |-> [function |-> s[i], file |-> s[i]]]

Frames(s) == Prefix(s, Len(s))

EventOf(r, id) ==
  [id |-> id,
   accessA |-> [op |-> r.opA, gid |-> r.gidA, stack |-> Frames(r.stackA)],
   accessB |-> [op |-> r.opB, gid |-> r.gidB, stack |-> Frames(r.stackB)],
   creationA |-> IF r.gidA = Main THEN <<>> ELSE Frames(r.creationA),
   creationB |-> IF r.gidB = Main THEN <<>> ELSE Frames(r.creationB)]

(***************************************************************************)
(* race.go:60-68: the reports written in full, with nothing of the         *)
(* program's own among their lines but what the parser can tell from a     *)
(* report, are events: both accesses with their own goroutines, stacks and *)
(* creation stacks, in order, numbered from 1, also after reports that are *)
(* damaged; between two reports there are no other events, whatever the    *)
(* program writes there.                                                   *)
(***************************************************************************)
ReportsAreParsed ==
  result # "error" =>
    /\ section = "none" => Len(events) = Len(reported)
    /\ \A i \in DOMAIN reported : reported[i] # Damaged =>
         i \in DOMAIN events /\ events[i] = EventOf(reported[i], i)

(***************************************************************************)
(* race.go:61: one warning block is one event, also when the input ends    *)
(* inside the block or the program's lines are in it; no event is made of  *)
(* the lines between reports.                                              *)
(***************************************************************************)
OneEventPerBlock ==
  /\ result = "reading" => Len(events) + Len(current) = Blocks
  /\ result = "events"  => Len(events) = Blocks

EventStacks(e) == {e.accessA.stack, e.accessB.stack, e.creationA, e.creationB}

(***************************************************************************)
(* race.go:23: a frame of an event is a frame of a call stack: a function, *)
(* and its own file unless that was not written.  A line the program logs  *)
(* (t.Log's "    x_test.go:12: ...") between the two is not its file.      *)
(***************************************************************************)
FramesAreOfStacks ==
  \A i \in DOMAIN events : \A frames \in EventStacks(events[i]) : \A j \in DOMAIN frames :
    frames[j].file \in {frames[j].function, ""}

------------------------------------------------------------------------------
(***************************************************************************)
(* The inductive invariant of the proofs, for reports without the main     *)
(* goroutine.  While a report is written and nothing strayed into it, the  *)
(* parser's state is the writer's section, the pending function is the one *)
(* whose file is still to come, and the open event is the report as far as *)
(* it is written.  In a damaged one nothing is known of the event but that *)
(* a block is one event; outside of reports none is open.                  *)
(***************************************************************************)
StateAt(s) ==
  CASE s = "warning"   -> "accessA"
    [] s = "stackA"    -> "accessAStack"
    [] s = "stackB"    -> "accessBStack"
    [] s = "creationA" -> "creationStack"
    [] s = "creationB" -> "creationBStack"
    [] OTHER           -> "idle"

(* What is written of the stack of section t when section s has k frames. *)
WrittenOf(r, s, k, t) == IF s = t THEN Prefix(StackOf(r, t), k) ELSE Frames(StackOf(r, t))

(* The event of report r when k frames of section s are written. *)
Partial(r, s, k, id) ==
  [id |-> id,
   accessA |-> IF s = "warning" THEN NoAccess
               ELSE [op |-> r.opA, gid |-> r.gidA, stack |-> WrittenOf(r, s, k, "stackA")],
   accessB |-> IF s \in {"warning", "stackA"} THEN NoAccess
               ELSE [op |-> r.opB, gid |-> r.gidB, stack |-> WrittenOf(r, s, k, "stackB")],
   creationA |-> IF s \in {"creationA", "creationB"} THEN WrittenOf(r, s, k, "creationA")
                 ELSE <<>>,
   creationB |-> IF s = "creationB" THEN WrittenOf(r, s, k, "creationB") ELSE <<>>]

Synchronised ==
  result = "reading" =>
    /\ current = <<>> <=> state = "idle"
    /\ current = <<>> => pendingFunc = ""
    /\ ~InReport => current = <<>>
    /\ idCounter = Blocks
    /\ Writing /\ intact =>
         /\ current = <<Partial(report, section, n, Len(reported) + 1)>>
         /\ state = StateAt(section)
         /\ pendingFunc = IF line = "file" THEN StackOf(report, section)[n + 1] ELSE ""

EventsAreReports ==
  result # "error" =>
    \A i \in 1 .. Len(reported) :
      reported[i] # Damaged => i <= Len(events) /\ events[i] = EventOf(reported[i], i)

IInv == TypeOK /\ Synchronised /\ EventsAreReports /\ OneEventPerBlock
==============================================================================

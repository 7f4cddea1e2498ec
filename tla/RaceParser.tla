------------------------------ MODULE RaceParser ------------------------------
(***************************************************************************)
(* ParseRaceOutput (parser/race.go:76-275), one step per line of input.  A *)
(* line is what the regular expressions at race.go:92-99 make of it:       *)
(*   "sep"       a line of = signs         "warning"   WARNING: DATA RACE  *)
(*   "access"    Read/Write at ... by      "previous"  Previous ... by     *)
(*   "creation"  Goroutine ... created at  "func"      a function name     *)
(*   "file"      file:line                 "other"     anything else       *)
(* Addresses and line numbers are left out, and so is RaceType, which      *)
(* finalize makes of the two access types; a file is named after the       *)
(* function in it, so a frame with the wrong file can be told.             *)
(***************************************************************************)
EXTENDS Naturals, Sequences

CONSTANTS
  Gid,                  \* goroutines, numbered as the race detector does
  Main,                 \* the main goroutine, printed without its number
  Func                  \* function names

ASSUME ParserAssumption ==
  /\ Gid \subseteq Nat \ {0}
  /\ Func \subseteq STRING \ {""}

VARIABLES
  state,                \* the parser's state
  current,              \* the event being filled: empty (nil), or one event
  pendingFunc,          \* a function name waiting for its file, or ""
  idCounter,
  events,               \* the events found so far
  result                \* "reading", or what was returned: "events", "error"

parserVars == <<state, current, pendingFunc, idCounter, events, result>>

State == {"idle", "accessA", "accessAStack", "accessBStack", "creationStack",
          "creationBStack"}

Op    == {"read", "write"}
Frame == [function : Func, file : Func \cup {""}]

Access == [op : Op \cup {""}, gid : Gid \cup {0}, stack : Seq(Frame)]

RaceEvent == [id : Nat, accessA : Access, accessB : Access,
              creationA : Seq(Frame), creationB : Seq(Frame)]

NoAccess == [op |-> "", gid |-> 0, stack |-> <<>>]

NewEvent(id) ==
  [id |-> id, accessA |-> NoAccess, accessB |-> NoAccess,
   creationA |-> <<>>, creationB |-> <<>>]

ParserTypeOK ==
  /\ state \in State
  /\ current \in Seq(RaceEvent) /\ Len(current) <= 1
  /\ pendingFunc \in Func \cup {""}
  /\ idCounter \in Nat
  /\ events \in Seq(RaceEvent)
  /\ result \in {"reading", "events", "error"}

ParserInit ==
  /\ state = "idle"
  /\ current = <<>>
  /\ pendingFunc = ""
  /\ idCounter = 0
  /\ events = <<>>
  /\ result = "reading"

------------------------------------------------------------------------------
(* Lines. *)

Line(kind)         == [kind |-> kind, op |-> "", gid |-> 0, name |-> ""]
AccessLine(op, g)  == [Line("access") EXCEPT !.op = op, !.gid = g]
PreviousLine(op, g) == [Line("previous") EXCEPT !.op = op, !.gid = g]
CreationLine(g)    == [Line("creation") EXCEPT !.gid = g]
FuncLine(f)        == [Line("func") EXCEPT !.name = f]
FileLine(f)        == [Line("file") EXCEPT !.name = f]

(* The access expressions want "by goroutine <number>:"; the main goroutine's
   line says "by main goroutine:". *)
Matches(l, kind) == l.kind = kind /\ (kind \in {"access", "previous"} => l.gid # Main)

(* Mutant: without the guard for an empty function. *)
FlushUnguarded(frames, fn) == Append(frames, [function |-> fn, file |-> ""])

(* flushFrame (race.go:112-121): a function whose file never came. *)
Flush(frames, fn) ==
  IF fn = "" THEN frames ELSE Append(frames, [function |-> fn, file |-> ""])

(* parseStackLine (race.go:229-266): the frames, and the pending function. *)
StackFrames(l, frames, pending) ==
  CASE l.kind = "file" /\ pending # "" ->
         Append(frames, [function |-> pending, file |-> l.name])
    [] l.kind = "func" -> Flush(frames, pending)
    [] OTHER           -> frames

StackPending(l, pending) ==
  CASE l.kind = "file" -> ""
    [] l.kind = "func" -> l.name
    [] OTHER           -> pending

------------------------------------------------------------------------------
(* The loop's body for a line l (race.go:123-212). *)

(* Mutant: the finished event stays current. *)
SeparatorKeepsCurrent(l) ==
  /\ l.kind = "sep"
  /\ IF current # <<>> /\ state # "idle"
     THEN /\ events' = Append(events, current[1])
          /\ state' = "idle"
          /\ pendingFunc' = ""
          /\ UNCHANGED <<current, idCounter, result>>
     ELSE UNCHANGED parserVars

(* A separator ends the block that is open, wherever it has got to; only a
   creation stack keeps a function without a file. *)
Separator(l) ==
  /\ l.kind = "sep"
  /\ IF current # <<>> /\ state # "idle"
     THEN LET e == CASE state = "creationStack" ->
                          [current[1] EXCEPT !.creationA = Flush(@, pendingFunc)]
                     [] state = "creationBStack" ->
                          [current[1] EXCEPT !.creationB = Flush(@, pendingFunc)]
                     [] OTHER -> current[1]
          IN  /\ events' = Append(events, e)
              /\ current' = <<>>
              /\ state' = "idle"
              /\ pendingFunc' = ""
              /\ UNCHANGED <<idCounter, result>>
     ELSE UNCHANGED parserVars

(* A new event replaces one that is open. *)
Warning(l) ==
  /\ l.kind = "warning"
  /\ idCounter' = idCounter + 1
  /\ current' = <<NewEvent(idCounter + 1)>>
  /\ state' = "accessA"
  /\ pendingFunc' = ""
  /\ UNCHANGED <<events, result>>

Outside(l) ==
  /\ l.kind \notin {"sep", "warning"}
  /\ current = <<>>
  /\ UNCHANGED parserVars

(* A line of an open block. *)
Inside(l, s) == l.kind \notin {"sep", "warning"} /\ current # <<>> /\ state = s

InAccessA(l) ==
  /\ Inside(l, "accessA")
  /\ IF Matches(l, "access")
     THEN /\ current' = <<[current[1] EXCEPT !.accessA =
                           [op |-> l.op, gid |-> l.gid, stack |-> <<>>]]>>
          /\ state' = "accessAStack"
          /\ pendingFunc' = ""
          /\ UNCHANGED <<idCounter, events, result>>
     ELSE UNCHANGED parserVars

InAccessAStack(l) ==
  /\ Inside(l, "accessAStack")
  /\ IF Matches(l, "previous")
     THEN /\ current' = <<[current[1] EXCEPT
                           !.accessA.stack = Flush(@, pendingFunc),
                           !.accessB = [op |-> l.op, gid |-> l.gid, stack |-> <<>>]]>>
          /\ state' = "accessBStack"
          /\ pendingFunc' = ""
     ELSE /\ current' = <<[current[1] EXCEPT
                           !.accessA.stack = StackFrames(l, @, pendingFunc)]>>
          /\ pendingFunc' = StackPending(l, pendingFunc)
          /\ UNCHANGED state
  /\ UNCHANGED <<idCounter, events, result>>

(* Mutant: compared with the other access's goroutine. *)
InAccessBStackSwapped(l) ==
  /\ Inside(l, "accessBStack")
  /\ IF Matches(l, "creation")
     THEN /\ current' = <<[current[1] EXCEPT !.accessB.stack = Flush(@, pendingFunc)]>>
          /\ state' = IF l.gid = current[1].accessB.gid THEN "creationStack"
                                                        ELSE "creationBStack"
          /\ pendingFunc' = ""
     ELSE /\ current' = <<[current[1] EXCEPT
                           !.accessB.stack = StackFrames(l, @, pendingFunc)]>>
          /\ pendingFunc' = StackPending(l, pendingFunc)
          /\ UNCHANGED state
  /\ UNCHANGED <<idCounter, events, result>>

InAccessBStack(l) ==
  /\ Inside(l, "accessBStack")
  /\ IF Matches(l, "creation")
     THEN /\ current' = <<[current[1] EXCEPT !.accessB.stack = Flush(@, pendingFunc)]>>
          /\ state' = IF l.gid = current[1].accessA.gid THEN "creationStack"
                                                        ELSE "creationBStack"
          /\ pendingFunc' = ""
     ELSE /\ current' = <<[current[1] EXCEPT
                           !.accessB.stack = StackFrames(l, @, pendingFunc)]>>
          /\ pendingFunc' = StackPending(l, pendingFunc)
          /\ UNCHANGED state
  /\ UNCHANGED <<idCounter, events, result>>

InCreationStack(l) ==
  /\ Inside(l, "creationStack")
  /\ IF Matches(l, "creation")
     THEN /\ current' = <<[current[1] EXCEPT !.creationA = Flush(@, pendingFunc)]>>
          /\ state' = "creationBStack"
          /\ pendingFunc' = ""
     ELSE /\ current' = <<[current[1] EXCEPT
                           !.creationA = StackFrames(l, @, pendingFunc)]>>
          /\ pendingFunc' = StackPending(l, pendingFunc)
          /\ UNCHANGED state
  /\ UNCHANGED <<idCounter, events, result>>

InCreationBStack(l) ==
  /\ Inside(l, "creationBStack")
  /\ current' = <<[current[1] EXCEPT
                           !.creationB = StackFrames(l, @, pendingFunc)]>>
  /\ pendingFunc' = StackPending(l, pendingFunc)
  /\ UNCHANGED <<state, idCounter, events, result>>

ReadLine(l) ==
  /\ result = "reading"
  /\ \/ Separator(l) \/ Warning(l) \/ Outside(l)
     \/ InAccessA(l) \/ InAccessAStack(l) \/ InAccessBStack(l)
     \/ InCreationStack(l) \/ InCreationBStack(l)

(* The end of the input (race.go:214-224): an open block is an event too, less
   its pending function. *)
EndOfInput ==
  /\ result = "reading"
  /\ result' = "events"
  /\ events' = IF current = <<>> THEN events ELSE Append(events, current[1])
  /\ UNCHANGED <<state, current, pendingFunc, idCounter>>

(* A line longer than the scanner's 64KB stops it: nothing is returned. *)
LineTooLong ==
  /\ result = "reading"
  /\ result' = "error"
  /\ events' = <<>>
  /\ UNCHANGED <<state, current, pendingFunc, idCounter>>
==============================================================================

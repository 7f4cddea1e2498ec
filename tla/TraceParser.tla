----------------------------- MODULE TraceParser -----------------------------
(***************************************************************************)
(* `go tool trace -d=parsed` (external) writing the events of a trace, and *)
(* ParseTraceOutput (parser/trace.go:89-254) reading them line by line.    *)
(* An event is a header line "M=... P=... G=...", perhaps a section        *)
(* TransitionStack= (for a birth: the new goroutine's own stack), perhaps  *)
(* a section Stack= (the stack of the goroutine it happens on), and an     *)
(* empty line after a section.  A header is a goroutine's transition or    *)
(* something else; a birth is the transition NotExist->Runnable.  Reasons, *)
(* P numbers and line numbers are left out; a file is named after its      *)
(* function, so a frame with another one's file can be told.               *)
(***************************************************************************)
EXTENDS Naturals, Sequences, SequencesExt

CONSTANTS
  Gid,                  \* goroutines
  TransitionStack,      \* what a section TransitionStack= may show
  Stack,                \* what a section Stack= may show; <<>>: no section
  MaxEvents             \* bound: events in one trace

(* A function by its package, its first name and what follows the name. *)
Func == [pkg : {"testing", "user"}, name : {"tRunner", "TestMain", "TestA", "work"},
         rest : {"", "func1"}]

(* A frame as written: a function of an assembly file has no .go line. *)
Written == [fn : Func, go : BOOLEAN]

ASSUME TraceAssumption ==
  /\ Gid \subseteq Nat \ {0}
  /\ TransitionStack \subseteq Seq(Written)
  /\ Stack \subseteq Seq(Written)
  /\ MaxEvents \in Nat

VARIABLES
  written,              \* the events written, in order
  todo,                 \* the lines of the last one still to come
  cur,                  \* block: "normal", "transition", "stack"
  pending,              \* pendingGID (0 for none), pendingByG, pendingTs
  transFrames,
  stackFrames,
  last,                 \* lastFn, or <<>>, and lastFile
  events,               \* result.Events
  goroutines,           \* result.Goroutines: a map, as in Go
  minTime, maxTime,
  done,                 \* has the scan ended?
  err                   \* the scanner failed, and nothing is returned

writerVars == <<written, todo>>
blockVars  == <<cur, pending, transFrames, stackFrames, last>>
resultVars == <<events, goroutines, minTime, maxTime>>
vars       == <<writerVars, blockVars, resultVars, done, err>>

None == <<>>

(* A header: its time, the goroutine it is a transition of (0: it is none) and,
   of a birth, the goroutine it happened on (0: none). *)
Header == [time : 1 .. MaxEvents, by : Gid \cup {0}, gid : Gid \cup {0}, birth : BOOLEAN]
Event  == [header : Header, trans : TransitionStack, stack : Stack]

Frame    == [fn : Func, file : Func \cup {None}]
Creation == [func : Func \cup {None}, file : Func \cup {None},
             test : {"TestA", ""}, by : Gid \cup {0}]
Info     == [events : Seq(Header), firstSeen : 0 .. MaxEvents, lastSeen : 0 .. MaxEvents,
             creation : Creation \cup {None}]

NoPending == [gid |-> 0, by |-> 0, time |-> 0]
NothingRead == [fn |-> None, file |-> None]

TypeOK ==
  /\ written \in Seq(Event) /\ Len(written) <= MaxEvents
  /\ cur \in {"normal", "transition", "stack"}
  /\ pending \in [gid : Gid \cup {0}, by : Gid \cup {0}, time : 0 .. MaxEvents]
  /\ transFrames \in Seq(Frame) /\ stackFrames \in Seq(Frame)
  /\ last \in [fn : Func \cup {None}, file : Func \cup {None}]
  /\ events \in Seq(Header)
  /\ DOMAIN goroutines \subseteq Gid
  /\ \A g \in DOMAIN goroutines : goroutines[g] \in Info
  /\ minTime \in 0 .. MaxEvents /\ maxTime \in 0 .. MaxEvents
  /\ done \in BOOLEAN /\ err \in BOOLEAN
  /\ cur = "normal" <=> pending.gid = 0

Init ==
  /\ written = <<>> /\ todo = <<>>
  /\ cur = "normal" /\ pending = NoPending
  /\ transFrames = <<>> /\ stackFrames = <<>> /\ last = NothingRead
  /\ events = <<>> /\ goroutines = [g \in {} |-> None]
  /\ minTime = 0 /\ maxTime = 0
  /\ done = FALSE /\ err = FALSE

------------------------------------------------------------------------------
(* Names (trace.go:258-287). *)

(* A test function of the package under test, whichever closure of it runs. *)
TestNameFromFunction(fn) ==
  IF fn.pkg # "testing" /\ fn.name = "TestA" THEN fn.name ELSE ""

(* shortName: the package is dropped, here named the same for all. *)
ShortName(fn) == [fn EXCEPT !.pkg = "user"]

(* buildCreation (trace.go:235-254): the goroutine's own first frame, and the
   first test function in its spawner's stack. *)
BuildCreation(trans, stack, by) ==
  LET tests == {i \in DOMAIN stack : TestNameFromFunction(stack[i].fn) # ""}
  IN  [func |-> IF trans = <<>> THEN None ELSE ShortName(trans[1].fn),
       file |-> IF trans = <<>> THEN None ELSE trans[1].file,
       test |-> IF tests = {} THEN "" ELSE TestNameFromFunction(stack[Min(tests)].fn),
       by   |-> by]

------------------------------------------------------------------------------
(* The parser's helpers, as operators on its variables. *)

(* saveFrame (trace.go:107-112). *)
Saved(frames) == IF last.fn = None THEN frames
                 ELSE Append(frames, [fn |-> last.fn, file |-> last.file])

SavedLast == IF last.fn = None THEN last ELSE NothingRead

Put(m, k, v) == [x \in DOMAIN m \cup {k} |-> IF x = k THEN v ELSE m[x]]

(* Mutant: the entry is made anew each time. *)
EntryAlwaysNew(m, g, t) ==
  [events |-> <<>>, firstSeen |-> t, lastSeen |-> 0, creation |-> None]

(* The map entry of g, made at time t if it is not there (trace.go:119-123,
   194-198). *)
Entry(m, g, t) ==
  IF g \in DOMAIN m THEN m[g]
  ELSE [events |-> <<>>, firstSeen |-> t, lastSeen |-> 0, creation |-> None]

(* The map after commitCreation (trace.go:114-128). *)
Committed ==
  IF pending.gid = 0 THEN goroutines
  ELSE Put(goroutines, pending.gid,
           [Entry(goroutines, pending.gid, pending.time) EXCEPT !.creation =
              BuildCreation(transFrames, Saved(stackFrames), pending.by)])

(* Mutant: the frames outlive the goroutine they belong to. *)
ForgetBlockKeepsFrames ==
  IF pending.gid = 0 THEN UNCHANGED <<pending, transFrames, stackFrames, last>>
  ELSE /\ pending' = NoPending
       /\ last' = NothingRead
       /\ UNCHANGED <<transFrames, stackFrames>>

(* What commitCreation resets. *)
ForgetBlock ==
  IF pending.gid = 0 THEN UNCHANGED <<pending, transFrames, stackFrames, last>>
  ELSE /\ pending' = NoPending
       /\ transFrames' = <<>>
       /\ stackFrames' = <<>>
       /\ last' = NothingRead

------------------------------------------------------------------------------
(* The loop's body for a line (trace.go:130-224). *)

(* An empty line: the end of a section of the open block (trace.go:136-144). *)
EmptyLine ==
  CASE cur = "normal" -> UNCHANGED <<blockVars, resultVars>>
    [] cur = "transition" ->
         /\ transFrames' = Saved(transFrames)
         /\ last' = SavedLast
         /\ UNCHANGED <<cur, pending, stackFrames, resultVars>>
    [] cur = "stack" ->
         /\ goroutines' = Committed
         /\ ForgetBlock
         /\ cur' = "normal"
         /\ UNCHANGED <<events, minTime, maxTime>>

(* Stack= (trace.go:146-149); TransitionStack= changes nothing. *)
StackLine ==
  IF cur = "normal" THEN UNCHANGED <<blockVars, resultVars>>
  ELSE /\ transFrames' = Saved(transFrames)
       /\ last' = SavedLast
       /\ cur' = "stack"
       /\ UNCHANGED <<pending, stackFrames, resultVars>>

(* The open section gets the pending frame. *)
SaveFrame ==
  /\ transFrames' = IF cur = "transition" THEN Saved(transFrames) ELSE transFrames
  /\ stackFrames' = IF cur = "stack" THEN Saved(stackFrames) ELSE stackFrames

(* trace.go:161-168. *)
FuncLine(fn) ==
  IF cur = "normal" THEN UNCHANGED <<blockVars, resultVars>>
  ELSE /\ SaveFrame
       /\ last' = [SavedLast EXCEPT !.fn = fn]
       /\ UNCHANGED <<cur, pending, resultVars>>

(* trace.go:169-177: the frame is complete; a file without a function waits. *)
FileLine(fn) ==
  IF cur = "normal" THEN UNCHANGED <<blockVars, resultVars>>
  ELSE LET frame == [fn |-> last.fn, file |-> fn]
           Add(frames) == IF last.fn = None THEN frames ELSE Append(frames, frame)
       IN  /\ transFrames' = IF cur = "transition" THEN Add(transFrames) ELSE transFrames
           /\ stackFrames' = IF cur = "stack" THEN Add(stackFrames) ELSE stackFrames
           /\ last' = IF last.fn = None THEN [last EXCEPT !.file = fn] ELSE NothingRead
           /\ UNCHANGED <<cur, pending, resultVars>>

(* Mutant: the block is left without a commit. *)
OtherHeaderForgetsBlock ==
  /\ cur' = "normal"
  /\ UNCHANGED <<pending, transFrames, stackFrames, last, resultVars>>

(* A header that is no goroutine's transition still ends the open block
   (trace.go:154-158, 183-190). *)
OtherHeader ==
  /\ goroutines' = Committed
  /\ ForgetBlock
  /\ cur' = "normal"
  /\ UNCHANGED <<events, minTime, maxTime>>

(* A transition ends the open block, is recorded, and if it is a birth begins
   the block of its stacks (trace.go:154-158, 187-223). *)
Transition(h) ==
  LET g == Entry(Committed, h.gid, h.time)
  IN  /\ goroutines' = Put(Committed, h.gid,
                           [g EXCEPT !.events = Append(@, h), !.lastSeen = h.time])
      /\ events' = Append(events, h)
      /\ minTime' = IF minTime = 0 \/ h.time < minTime THEN h.time ELSE minTime
      /\ maxTime' = IF h.time > maxTime THEN h.time ELSE maxTime
      /\ IF h.birth
         THEN /\ cur' = "transition"
              /\ pending' = [gid |-> h.gid, by |-> h.by, time |-> h.time]
              /\ IF pending.gid = 0 THEN UNCHANGED <<transFrames, stackFrames, last>>
                 ELSE transFrames' = <<>> /\ stackFrames' = <<>> /\ last' = NothingRead
         ELSE cur' = "normal" /\ ForgetBlock

------------------------------------------------------------------------------
(* The lines of an event after its header. *)

SectionLine(kind) == [kind |-> kind, fn |-> None]

(* Two lines for each frame: its function, then its file. *)
FrameLines(frames) ==
  [k \in 1 .. 2 * Len(frames) |->
    LET f == frames[(k + 1) \div 2]
    IN  [kind |-> IF k % 2 = 1 THEN "func" ELSE IF f.go THEN "file" ELSE "asm",
         fn   |-> f.fn]]

Section(kind, frames) ==
  IF frames = <<>> THEN <<>>
  ELSE <<SectionLine(kind)>> \o FrameLines(frames) \o <<SectionLine("empty")>>

Lines(e) == Section("TransitionStack", e.trans) \o Section("Stack", e.stack)

(* A goroutine is born once and before its other transitions, unless it is
   older than the trace; it is not its own parent. *)
Possible(h) ==
  /\ h.gid = 0 => ~h.birth
  /\ ~h.birth => h.by = 0
  /\ h.birth => h.by # h.gid /\ \A i \in DOMAIN written : written[i].header.gid # h.gid

WriteHeader ==
  /\ ~done
  /\ todo = <<>>
  /\ Len(written) < MaxEvents
  /\ \E e \in Event :
       /\ e.header.time = Len(written) + 1
       /\ Possible(e.header)
       /\ written' = Append(written, e)
       /\ todo' = Lines(e)
       /\ IF e.header.gid = 0 THEN OtherHeader ELSE Transition(e.header)
  /\ UNCHANGED <<done, err>>

WriteLine ==
  /\ ~done
  /\ todo # <<>>
  /\ todo' = Tail(todo)
  /\ LET l == Head(todo)
     IN  CASE l.kind = "empty" -> EmptyLine
           [] l.kind = "Stack" -> StackLine
           [] l.kind = "func"  -> FuncLine(l.fn)
           [] l.kind = "file"  -> FileLine(l.fn)
           [] OTHER            -> UNCHANGED <<blockVars, resultVars>>
  /\ UNCHANGED <<written, done, err>>

(* The end of the input (trace.go:226).  The tool writes an event at once, so a
   trace that was cut short ends between two events. *)
End ==
  /\ ~done
  /\ todo = <<>>
  /\ done' = TRUE
  /\ goroutines' = Committed
  /\ ForgetBlock
  /\ cur' = "normal"
  /\ UNCHANGED <<writerVars, events, minTime, maxTime, err>>

(* The next line is over the scanner's 4 MB, or cannot be read: the result is
   nil, whatever was read of it (trace.go:95, 228-230). *)
ScanFails ==
  /\ ~done
  /\ done' = TRUE /\ err' = TRUE
  /\ cur' = "normal" /\ pending' = NoPending
  /\ transFrames' = <<>> /\ stackFrames' = <<>> /\ last' = NothingRead
  /\ events' = <<>> /\ goroutines' = [g \in {} |-> None]
  /\ minTime' = 0 /\ maxTime' = 0
  /\ UNCHANGED writerVars

Next == WriteHeader \/ WriteLine \/ End \/ ScanFails

Spec == Init /\ [][Next]_vars

------------------------------------------------------------------------------
Headers     == {written[i].header : i \in DOMAIN written}
Transitions == {h \in Headers : h.gid # 0}
Of(g)       == {h \in Headers : h.gid = g}

(* s is the headers of S, each once, in the order of the trace: no two headers
   have one time. *)
InOrder(s, S) ==
  /\ Range(s) = S
  /\ \A i, j \in DOMAIN s : i < j => s[i].time < s[j].time

(* What is recorded are all transitions, in order, with their time bounds. *)
AllIsRecorded ==
  /\ InOrder(events, Transitions)
  /\ \A g \in Gid :
       IF Of(g) = {} THEN g \notin DOMAIN goroutines
       ELSE /\ g \in DOMAIN goroutines
            /\ InOrder(goroutines[g].events, Of(g))
            /\ goroutines[g].firstSeen = goroutines[g].events[1].time
            /\ goroutines[g].lastSeen = Last(goroutines[g].events).time
  /\ Transitions # {} => minTime = events[1].time /\ maxTime = Last(events).time

(***************************************************************************)
(* Every transition is recorded once, in the whole trace and under its own *)
(* goroutine, in order, and the time bounds are those of the first and the *)
(* last one: no line of a stack is taken for a header, and no header is    *)
(* lost to the block before it (trace.go:154, 192-207).  Nothing is said of *)
(* a scan that failed, which returns no result.                            *)
(***************************************************************************)
EventsAreRecorded == ~err => AllIsRecorded

(***************************************************************************)
(* Once the lines of a birth are read, the creation of its goroutine, open *)
(* or committed, is and stays that of the birth: the goroutine's own first *)
(* frame, its spawner, and the test found in the spawner's stack; nothing  *)
(* of another event's stacks gets into it.  Other goroutines have none     *)
(* (trace.go:114-128, 209-223, 235-254).  A scan that failed has no result. *)
(***************************************************************************)
CreationOf(c, e) ==
  /\ c.by = e.header.by
  /\ IF e.trans = <<>> THEN c.func = None /\ c.file = None
     ELSE /\ c.func = ShortName(e.trans[1].fn)
          /\ c.file = IF e.trans[1].go THEN e.trans[1].fn ELSE None
  /\ c.test # "" <=> \E i \in DOMAIN e.stack : TestNameFromFunction(e.stack[i].fn) # ""

BirthsAreRead == ~err =>
  /\ \A i \in DOMAIN written :
       written[i].header.birth /\ (i < Len(written) \/ todo = <<>>) =>
         CreationOf(Committed[written[i].header.gid].creation, written[i])
  /\ \A g \in DOMAIN Committed :
       Committed[g].creation # None =>
         \E i \in DOMAIN written : written[i].header.gid = g /\ written[i].header.birth
==============================================================================

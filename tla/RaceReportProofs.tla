--------------------------- MODULE RaceReportProofs ---------------------------
(* Proofs about RaceReport, for any goroutines, functions, call stacks and
   number of reports, as long as the main goroutine is in none of them. *)
EXTENDS RaceReport, SequenceTheorems, TLAPS

LEMMA StackType ==
  ASSUME NEW s \in Stack
  PROVE  s \in Seq(Func) /\ Len(s) \in Nat /\ \A i \in 1 .. Len(s) : s[i] \in Func
<1>1. s \in Seq(Func)
  BY ReportAssumption
<1> QED BY <1>1, LenProperties, ElementOfSeq

LEMMA PrefixType ==
  ASSUME NEW s \in Stack, NEW k \in 0 .. Len(s)
  PROVE  Prefix(s, k) \in Seq(Frame) /\ Len(Prefix(s, k)) = k
<1>1. \A i \in 1 .. k : s[i] \in Func
  BY StackType
<1>2. \A i \in 1 .. k : [function |-> s[i], file |-> s[i]] \in Frame
  BY <1>1 DEF Frame
<1>3. k \in Nat
  BY StackType
<1> QED BY <1>2, <1>3 DEF Prefix

LEMMA PrefixZero ==
  ASSUME NEW s
  PROVE  Prefix(s, 0) = <<>>
<1>1. Prefix(s, 0) = [i \in {} |-> [function |-> s[i], file |-> s[i]]]
  <2>1. 1 .. 0 = {}
    OBVIOUS
  <2> QED BY <2>1 DEF Prefix
<1> QED BY <1>1, EmptySeq DEF Prefix

(* A function line and its file line add one frame. *)
LEMMA PrefixNext ==
  ASSUME NEW s \in Stack, NEW k \in 0 .. Len(s), k < Len(s)
  PROVE  Append(Prefix(s, k), [function |-> s[k + 1], file |-> s[k + 1]])
           = Prefix(s, k + 1)
<1> DEFINE f == [function |-> s[k + 1], file |-> s[k + 1]]
<1>1. k + 1 \in 0 .. Len(s) /\ k + 1 \in 1 .. Len(s)
  BY StackType
<1>2. f \in Frame
  BY <1>1, StackType DEF Frame
<1>3. /\ Prefix(s, k) \in Seq(Frame) /\ Len(Prefix(s, k)) = k
      /\ Prefix(s, k + 1) \in Seq(Frame) /\ Len(Prefix(s, k + 1)) = k + 1
  BY <1>1, PrefixType
<1> HIDE DEF f
<1>4. /\ Append(Prefix(s, k), f) \in Seq(Frame)
      /\ Len(Append(Prefix(s, k), f)) = k + 1
      /\ \A i \in 1 .. k : Append(Prefix(s, k), f)[i] = Prefix(s, k)[i]
      /\ Append(Prefix(s, k), f)[k + 1] = f
  BY <1>2, <1>3, AppendProperties
<1>5. ASSUME NEW i \in 1 .. k + 1
      PROVE  Append(Prefix(s, k), f)[i] = Prefix(s, k + 1)[i]
  <2>1. CASE i \in 1 .. k
    BY <1>4, <2>1 DEF Prefix
  <2>2. CASE i = k + 1
    BY <1>4, <2>2 DEF Prefix, f
  <2>3. k \in Nat
    BY StackType
  <2>4. i \in 1 .. k \/ i = k + 1
    BY <2>3
  <2> QED BY <2>1, <2>2, <2>4
<1>6. Append(Prefix(s, k), f) = Prefix(s, k + 1)
  BY <1>3, <1>4, <1>5, SeqEqual
<1> QED BY <1>6 DEF f

------------------------------------------------------------------------------
(* How the lines of a report change the event being filled. *)

LEMMA StackOfSection ==
  ASSUME NEW r \in Report, NEW s \in {"stackA", "stackB", "creationA", "creationB"}
  PROVE  StackOf(r, s) \in Stack
BY DEF Report, StackOf

LEMMA WrittenType ==
  ASSUME NEW r \in Report, NEW s \in Section, NEW k \in 0 .. Len(StackOf(r, s)),
         NEW t \in {"stackA", "stackB", "creationA", "creationB"}
  PROVE  WrittenOf(r, s, k, t) \in Seq(Frame)
<1>1. StackOf(r, t) \in Stack
  BY StackOfSection
<1>2. Len(StackOf(r, t)) \in 0 .. Len(StackOf(r, t))
  BY <1>1, StackType
<1> QED BY <1>1, <1>2, PrefixType DEF WrittenOf, Frames

LEMMA PartialType ==
  ASSUME NEW r \in Report, NEW s \in Section, NEW k \in 0 .. Len(StackOf(r, s)),
         NEW id \in Nat
  PROVE  Partial(r, s, k, id) \in RaceEvent
<1>1. \A t \in {"stackA", "stackB", "creationA", "creationB"} :
        WrittenOf(r, s, k, t) \in Seq(Frame)
  BY WrittenType
<1>2. <<>> \in Seq(Frame)
  BY EmptySeq
<1>3. NoAccess \in Access
  BY <1>2 DEF NoAccess, Access
<1>4. /\ [op |-> r.opA, gid |-> r.gidA, stack |-> WrittenOf(r, s, k, "stackA")] \in Access
      /\ [op |-> r.opB, gid |-> r.gidB, stack |-> WrittenOf(r, s, k, "stackB")] \in Access
  BY <1>1 DEF Report, Access
<1> HIDE DEF WrittenOf
<1> QED BY <1>1, <1>2, <1>3, <1>4 DEF Partial, RaceEvent

LEMMA StackOfIs ==
  ASSUME NEW r
  PROVE  /\ StackOf(r, "stackA") = r.stackA /\ StackOf(r, "stackB") = r.stackB
         /\ StackOf(r, "creationA") = r.creationA
         /\ StackOf(r, "creationB") = r.creationB
BY DEF StackOf

(* Nothing is pending at the end of a stack. *)
LEMMA FlushNothing ==
  ASSUME NEW s
  PROVE  Flush(s, "") = s
BY DEF Flush

LEMMA WarningStarts ==
  ASSUME NEW r, NEW id
  PROVE  NewEvent(id) = Partial(r, "warning", 0, id)
BY DEF NewEvent, Partial

LEMMA AccessStarts ==
  ASSUME NEW r, NEW id
  PROVE  [Partial(r, "warning", 0, id) EXCEPT !.accessA =
            [op |-> r.opA, gid |-> r.gidA, stack |-> <<>>]] = Partial(r, "stackA", 0, id)
<1>1. Partial(r, "stackA", 0, id)
        = [Partial(r, "warning", 0, id) EXCEPT !.accessA =
             [op |-> r.opA, gid |-> r.gidA, stack |-> <<>>]]
  BY PrefixZero DEF Partial, WrittenOf
<1> QED BY <1>1

LEMMA PreviousStarts ==
  ASSUME NEW r, NEW id
  PROVE  [Partial(r, "stackA", Len(r.stackA), id) EXCEPT
            !.accessA.stack = Flush(@, ""),
            !.accessB = [op |-> r.opB, gid |-> r.gidB, stack |-> <<>>]]
           = Partial(r, "stackB", 0, id)
<1>1. Partial(r, "stackA", Len(r.stackA), id).accessA.stack = Frames(r.stackA)
  BY StackOfIs DEF Partial, WrittenOf, Frames
<1>2. Partial(r, "stackA", Len(r.stackA), id)
        = [Partial(r, "stackA", Len(r.stackA), id) EXCEPT !.accessA.stack = Frames(r.stackA)]
  BY StackOfIs DEF Partial, WrittenOf, Frames
<1>3. Partial(r, "stackB", 0, id)
        = [Partial(r, "stackA", Len(r.stackA), id) EXCEPT
             !.accessB = [op |-> r.opB, gid |-> r.gidB, stack |-> <<>>]]
  BY StackOfIs, PrefixZero DEF Partial, WrittenOf, Frames
<1> HIDE DEF Partial
<1> QED BY <1>1, <1>2, <1>3, FlushNothing

LEMMA CreationAStarts ==
  ASSUME NEW r, NEW id
  PROVE  [Partial(r, "stackB", Len(r.stackB), id) EXCEPT
            !.accessB.stack = Flush(@, "")]
           = Partial(r, "creationA", 0, id)
<1>1. Partial(r, "stackB", Len(r.stackB), id).accessB.stack = Frames(r.stackB)
  BY StackOfIs DEF Partial, WrittenOf, Frames
<1>2. Partial(r, "creationA", 0, id)
        = [Partial(r, "stackB", Len(r.stackB), id) EXCEPT
            !.accessB.stack = Frames(r.stackB)]
  BY StackOfIs, PrefixZero DEF Partial, WrittenOf, Frames
<1> QED BY <1>1, <1>2, FlushNothing

LEMMA CreationBStarts ==
  ASSUME NEW r, NEW id
  PROVE  [Partial(r, "creationA", Len(r.creationA), id) EXCEPT
            !.creationA = Flush(@, "")]
           = Partial(r, "creationB", 0, id)
<1>1. Partial(r, "creationA", Len(r.creationA), id).creationA = Frames(r.creationA)
  BY StackOfIs DEF Partial, WrittenOf, Frames
<1>2. Partial(r, "creationB", 0, id)
        = [Partial(r, "creationA", Len(r.creationA), id) EXCEPT
            !.creationA = Frames(r.creationA)]
  BY StackOfIs, PrefixZero DEF Partial, WrittenOf, Frames
<1> QED BY <1>1, <1>2, FlushNothing

LEMMA PartialGid ==
  ASSUME NEW r, NEW k, NEW id
  PROVE  Partial(r, "stackB", k, id).accessA.gid = r.gidA
BY DEF Partial

(* A line that adds no frame leaves the event as it is. *)
LEMMA FrameKept ==
  ASSUME NEW r, NEW k, NEW id
  PROVE  /\ [Partial(r, "stackA", k, id) EXCEPT !.accessA.stack = @]
              = Partial(r, "stackA", k, id)
         /\ [Partial(r, "stackB", k, id) EXCEPT !.accessB.stack = @]
              = Partial(r, "stackB", k, id)
         /\ [Partial(r, "creationA", k, id) EXCEPT !.creationA = @]
              = Partial(r, "creationA", k, id)
         /\ [Partial(r, "creationB", k, id) EXCEPT !.creationB = @]
              = Partial(r, "creationB", k, id)
<1> HIDE DEF WrittenOf
<1>1. [Partial(r, "stackA", k, id) EXCEPT !.accessA.stack = @] = Partial(r, "stackA", k, id)
  BY DEF Partial
<1>2. [Partial(r, "stackB", k, id) EXCEPT !.accessB.stack = @] = Partial(r, "stackB", k, id)
  BY DEF Partial
<1>3. [Partial(r, "creationA", k, id) EXCEPT !.creationA = @] = Partial(r, "creationA", k, id)
  BY DEF Partial
<1>4. [Partial(r, "creationB", k, id) EXCEPT !.creationB = @] = Partial(r, "creationB", k, id)
  BY DEF Partial
<1> QED BY <1>1, <1>2, <1>3, <1>4

LEMMA StackLines ==
  ASSUME NEW l, NEW s, NEW p
  PROVE  /\ l.kind = "func" => StackFrames(l, s, "") = s /\ StackPending(l, p) = l.name
         /\ l.kind = "file" /\ p # "" =>
              StackFrames(l, s, p) = Append(s, [function |-> p, file |-> l.name])
         /\ l.kind = "file" => StackPending(l, p) = ""
         /\ (l.kind = "other" \/ (l.kind = "file" /\ p = "")) =>
              StackFrames(l, s, p) = s /\ StackPending(l, p) = p
BY DEF StackFrames, StackPending, Flush

LEMMA ReportEnds ==
  ASSUME NEW r \in Report, NEW id, Main \notin Gid
  PROVE  Partial(r, "creationB", Len(r.creationB), id) = EventOf(r, id)
<1>1. r.gidA # Main /\ r.gidB # Main
  BY DEF Report
<1>2. \A t \in {"stackA", "stackB", "creationA", "creationB"} :
        WrittenOf(r, "creationB", Len(r.creationB), t) = Frames(StackOf(r, t))
  BY StackOfIs DEF WrittenOf, Frames
<1>3. EventOf(r, id) = Partial(r, "creationB", Len(r.creationB), id)
  BY <1>1, <1>2, StackOfIs DEF Partial, EventOf
<1> QED BY <1>3

(* A frame written in full is a frame of the open event. *)
LEMMA FrameAddedToA ==
  ASSUME NEW r \in Report, NEW id, NEW k \in Nat, k < Len(r.stackA),
         NEW f, f = r.stackA[k + 1]
  PROVE  [Partial(r, "stackA", k, id) EXCEPT !.accessA.stack =
            Append(@, [function |-> f, file |-> f])] = Partial(r, "stackA", k + 1, id)
<1>1. r.stackA \in Stack
  BY DEF Report
<1>2. Append(Prefix(r.stackA, k), [function |-> f, file |-> f]) = Prefix(r.stackA, k + 1)
  BY <1>1, StackType, PrefixNext
<1>3. Partial(r, "stackA", k, id).accessA.stack = Prefix(r.stackA, k)
  BY StackOfIs DEF Partial, WrittenOf
<1>4. Partial(r, "stackA", k + 1, id)
        = [Partial(r, "stackA", k, id) EXCEPT !.accessA.stack = Prefix(r.stackA, k + 1)]
  BY StackOfIs DEF Partial, WrittenOf
<1> QED BY <1>2, <1>3, <1>4

LEMMA FrameAddedToB ==
  ASSUME NEW r \in Report, NEW id, NEW k \in Nat, k < Len(r.stackB),
         NEW f, f = r.stackB[k + 1]
  PROVE  [Partial(r, "stackB", k, id) EXCEPT !.accessB.stack =
            Append(@, [function |-> f, file |-> f])] = Partial(r, "stackB", k + 1, id)
<1>1. r.stackB \in Stack
  BY DEF Report
<1>2. Append(Prefix(r.stackB, k), [function |-> f, file |-> f]) = Prefix(r.stackB, k + 1)
  BY <1>1, StackType, PrefixNext
<1>3. Partial(r, "stackB", k, id).accessB.stack = Prefix(r.stackB, k)
  BY StackOfIs DEF Partial, WrittenOf
<1>4. Partial(r, "stackB", k + 1, id)
        = [Partial(r, "stackB", k, id) EXCEPT !.accessB.stack = Prefix(r.stackB, k + 1)]
  BY StackOfIs DEF Partial, WrittenOf
<1> QED BY <1>2, <1>3, <1>4

LEMMA FrameAddedToCreationA ==
  ASSUME NEW r \in Report, NEW id, NEW k \in Nat, k < Len(r.creationA),
         NEW f, f = r.creationA[k + 1]
  PROVE  [Partial(r, "creationA", k, id) EXCEPT !.creationA =
            Append(@, [function |-> f, file |-> f])] = Partial(r, "creationA", k + 1, id)
<1>1. r.creationA \in Stack
  BY DEF Report
<1>2. Append(Prefix(r.creationA, k), [function |-> f, file |-> f]) = Prefix(r.creationA, k + 1)
  BY <1>1, StackType, PrefixNext
<1>3. Partial(r, "creationA", k, id).creationA = Prefix(r.creationA, k)
  BY StackOfIs DEF Partial, WrittenOf
<1>4. Partial(r, "creationA", k + 1, id)
        = [Partial(r, "creationA", k, id) EXCEPT !.creationA = Prefix(r.creationA, k + 1)]
  BY StackOfIs DEF Partial, WrittenOf
<1> QED BY <1>2, <1>3, <1>4

LEMMA FrameAddedToCreationB ==
  ASSUME NEW r \in Report, NEW id, NEW k \in Nat, k < Len(r.creationB),
         NEW f, f = r.creationB[k + 1]
  PROVE  [Partial(r, "creationB", k, id) EXCEPT !.creationB =
            Append(@, [function |-> f, file |-> f])] = Partial(r, "creationB", k + 1, id)
<1>1. r.creationB \in Stack
  BY DEF Report
<1>2. Append(Prefix(r.creationB, k), [function |-> f, file |-> f]) = Prefix(r.creationB, k + 1)
  BY <1>1, StackType, PrefixNext
<1>3. Partial(r, "creationB", k, id).creationB = Prefix(r.creationB, k)
  BY StackOfIs DEF Partial, WrittenOf
<1>4. Partial(r, "creationB", k + 1, id)
        = [Partial(r, "creationB", k, id) EXCEPT !.creationB = Prefix(r.creationB, k + 1)]
  BY StackOfIs DEF Partial, WrittenOf
<1> QED BY <1>2, <1>3, <1>4

------------------------------------------------------------------------------
(* The parser follows the writer, one action at a time. *)

(* The kinds and the numbers the lines carry. *)
LineOK(l) ==
  /\ l.op \in Op \cup {""} /\ l.gid \in Gid \cup {0}
  /\ l.kind \in {"func", "file"} => l.name \in Func

LEMMA Lines ==
  ASSUME NEW k, NEW op, NEW g, NEW f
  PROVE  /\ Line(k).kind = k
         /\ AccessLine(op, g).kind = "access" /\ AccessLine(op, g).op = op
         /\ AccessLine(op, g).gid = g
         /\ PreviousLine(op, g).kind = "previous" /\ PreviousLine(op, g).op = op
         /\ PreviousLine(op, g).gid = g
         /\ CreationLine(g).kind = "creation" /\ CreationLine(g).gid = g
         /\ FuncLine(f).kind = "func" /\ FuncLine(f).name = f
         /\ FileLine(f).kind = "file" /\ FileLine(f).name = f
BY DEF Line, AccessLine, PreviousLine, CreationLine, FuncLine, FileLine

LEMMA LinesOK ==
  /\ \A op \in Op, g \in Gid : LineOK(AccessLine(op, g)) /\ LineOK(PreviousLine(op, g))
  /\ \A g \in Gid : LineOK(CreationLine(g))
  /\ \A f \in Func : LineOK(FuncLine(f)) /\ LineOK(FileLine(f))
  /\ LineOK(Line("sep")) /\ LineOK(Line("other"))
BY DEF LineOK, Line, AccessLine, PreviousLine, CreationLine, FuncLine, FileLine

LEMMA OneEvent ==
  ASSUME NEW e \in RaceEvent
  PROVE  /\ <<e>> \in Seq(RaceEvent) /\ Len(<<e>>) = 1
         /\ Len(<<e>>) <= 1 /\ <<e>>[1] = e /\ <<e>> # <<>>
OBVIOUS

LEMMA NextIndex ==
  ASSUME NEW m \in Nat, NEW k \in 0 .. m, k < m
  PROVE  k + 1 \in 1 .. m
OBVIOUS

LEMMA StateAtType ==
  ASSUME NEW s \in Section
  PROVE  StateAt(s) \in State
BY DEF StateAt, State, Section

(* Which branch of the loop a line of an open block takes. *)
LEMMA Dispatch ==
  ASSUME NEW l, ReadLine(l), l.kind \notin {"sep", "warning"}, current # <<>>
  PROVE  /\ state = "accessA" => InAccessA(l)
         /\ state = "accessAStack" => InAccessAStack(l)
         /\ state = "accessBStack" => InAccessBStack(l)
         /\ state = "creationStack" => InCreationStack(l)
         /\ state = "creationBStack" => InCreationBStack(l)
BY DEF ReadLine, Separator, Warning, Outside, Inside,
   InAccessA, InAccessAStack, InAccessBStack, InCreationStack, InCreationBStack

LEMMA DispatchOutside ==
  ASSUME NEW l, ReadLine(l)
  PROVE  /\ l.kind = "sep" => Separator(l)
         /\ l.kind = "warning" => Warning(l)
         /\ l.kind = "other" /\ current = <<>> => Outside(l)
BY DEF ReadLine, Separator, Warning, Outside, Inside,
   InAccessA, InAccessAStack, InAccessBStack, InCreationStack, InCreationBStack

------------------------------------------------------------------------------
(* What any line does to the parser, whatever state it is in. *)

(* No event is open: the parser is idle and nothing is pending. *)
Resting ==
  /\ current = <<>> <=> state = "idle"
  /\ current = <<>> => pendingFunc = ""

LEMMA OpenEvent ==
  ASSUME ParserTypeOK, current # <<>>
  PROVE  current[1] \in RaceEvent /\ current = <<current[1]>>
<1>1. current \in Seq(RaceEvent) /\ Len(current) <= 1
  BY DEF ParserTypeOK
<1>2. Len(current) \in Nat \ {0}
  BY <1>1, EmptySeq
<1>3. Len(current) = 1
  <2>1. \A k \in Nat \ {0} : k <= 1 => k = 1
    OBVIOUS
  <2> QED BY <1>1, <1>2, <2>1, Zenon
<1>4. current[1] \in RaceEvent
  <2>1. 1 \in 1 .. Len(current)
    BY <1>3
  <2> QED BY <1>1, <2>1, ElementOfSeq
<1> QED BY <1>1, <1>3, <1>4

LEMMA FlushType ==
  ASSUME NEW frames \in Seq(Frame), NEW fn \in Func \cup {""}
  PROVE  Flush(frames, fn) \in Seq(Frame)
<1> DEFINE f == [function |-> fn, file |-> ""]
<1>1. CASE fn = ""
  BY <1>1 DEF Flush
<1>2. CASE fn # ""
  <2>1. f \in Frame
    BY <1>2 DEF Frame
  <2> HIDE DEF f
  <2>2. Append(frames, f) \in Seq(Frame)
    BY <2>1, AppendProperties
  <2> QED BY <1>2, <2>2 DEF Flush, f
<1> QED BY <1>1, <1>2

(* Frames and pending function after any line. *)
LEMMA StackLineType ==
  ASSUME NEW l, LineOK(l), NEW frames \in Seq(Frame), NEW p \in Func \cup {""}
  PROVE  StackFrames(l, frames, p) \in Seq(Frame) /\ StackPending(l, p) \in Func \cup {""}
<1>1. StackPending(l, p) \in Func \cup {""}
  BY DEF StackPending, LineOK
<1>2. CASE l.kind = "file" /\ p # ""
  <2> DEFINE f == [function |-> p, file |-> l.name]
  <2>1. f \in Frame
    BY <1>2 DEF Frame, LineOK
  <2> HIDE DEF f
  <2>2. Append(frames, f) \in Seq(Frame)
    BY <2>1, AppendProperties
  <2>3. StackFrames(l, frames, p) = Append(frames, f)
    BY <1>2 DEF StackFrames, f
  <2> QED BY <1>1, <2>2, <2>3
<1>3. CASE ~(l.kind = "file" /\ p # "") /\ l.kind = "func"
  <2>1. StackFrames(l, frames, p) = Flush(frames, p)
    BY <1>3 DEF StackFrames
  <2> QED BY <1>1, <2>1, FlushType
<1>4. CASE ~(l.kind = "file" /\ p # "") /\ l.kind # "func"
  <2>1. StackFrames(l, frames, p) = frames
    BY <1>4 DEF StackFrames
  <2> QED BY <1>1, <2>1
<1> QED BY <1>2, <1>3, <1>4

(* The stacks of an event can be replaced. *)
LEMMA EventWith ==
  ASSUME NEW e \in RaceEvent, NEW frames \in Seq(Frame), NEW a \in Access, NEW b \in Access
  PROVE  /\ [e EXCEPT !.accessA = a] \in RaceEvent
         /\ [e EXCEPT !.accessA.stack = frames] \in RaceEvent
         /\ [e EXCEPT !.accessB.stack = frames] \in RaceEvent
         /\ [e EXCEPT !.creationA = frames] \in RaceEvent
         /\ [e EXCEPT !.creationB = frames] \in RaceEvent
         /\ [e EXCEPT !.accessA.stack = frames, !.accessB = b] \in RaceEvent
<1>1. /\ [e.accessA EXCEPT !.stack = frames] \in Access
      /\ [e.accessB EXCEPT !.stack = frames] \in Access
  BY DEF RaceEvent, Access
<1>2. /\ [e EXCEPT !.accessA = a] \in RaceEvent
      /\ [e EXCEPT !.creationA = frames] \in RaceEvent
      /\ [e EXCEPT !.creationB = frames] \in RaceEvent
  BY DEF RaceEvent
<1>3. [e EXCEPT !.accessA.stack = frames] \in RaceEvent
  BY <1>1 DEF RaceEvent
<1>4. [e EXCEPT !.accessB.stack = frames] \in RaceEvent
  BY <1>1 DEF RaceEvent
<1>5. [e EXCEPT !.accessA.stack = frames, !.accessB = b] \in RaceEvent
  BY <1>1 DEF RaceEvent
<1> QED BY <1>2, <1>3, <1>4, <1>5

(* A line inside an open block changes that block's event only. *)
LEMMA InsideKeeps ==
  ASSUME ParserTypeOK, NEW l, LineOK(l), l.kind \notin {"sep", "warning"},
         current # <<>>, state # "idle", ReadLine(l)
  PROVE  /\ current' \in Seq(RaceEvent) /\ Len(current') = 1
         /\ state' \in State \ {"idle"} /\ pendingFunc' \in Func \cup {""}
         /\ UNCHANGED <<idCounter, events, result>>
<1> DEFINE e == current[1]
<1>1. /\ e \in RaceEvent /\ current = <<e>> /\ state \in State /\ pendingFunc \in Func \cup {""}
      /\ l.op \in Op \cup {""} /\ l.gid \in Gid \cup {0}
  BY OpenEvent DEF ParserTypeOK, LineOK
<1>2. \A frames \in Seq(Frame) :
        /\ StackFrames(l, frames, pendingFunc) \in Seq(Frame)
        /\ Flush(frames, pendingFunc) \in Seq(Frame)
  BY <1>1, StackLineType, FlushType
<1>3. StackPending(l, pendingFunc) \in Func \cup {""} /\ "" \in Func \cup {""}
  <2>1. <<>> \in Seq(Frame)
    BY EmptySeq
  <2> QED BY <1>1, <2>1, StackLineType
<1>4. [op |-> l.op, gid |-> l.gid, stack |-> <<>>] \in Access
  BY <1>1, EmptySeq DEF Access
<1>5. /\ e.accessA \in Access /\ e.accessA.stack \in Seq(Frame) /\ e.accessB.stack \in Seq(Frame)
      /\ e.creationA \in Seq(Frame) /\ e.creationB \in Seq(Frame)
  BY <1>1 DEF RaceEvent, Access
<1> HIDE DEF e
<1>6. SUFFICES /\ \E d \in RaceEvent : current' = <<d>>
               /\ state' \in State \ {"idle"} /\ pendingFunc' \in Func \cup {""}
               /\ UNCHANGED <<idCounter, events, result>>
  BY OneEvent
<1>7. CASE state = "accessA"
  <2>1. InAccessA(l)
    BY <1>7, Dispatch
  <2>2. CASE Matches(l, "access")
    <3>1. /\ current' = <<[e EXCEPT !.accessA = [op |-> l.op, gid |-> l.gid, stack |-> <<>>]]>>
          /\ state' = "accessAStack" /\ pendingFunc' = ""
          /\ UNCHANGED <<idCounter, events, result>>
      BY <2>1, <2>2 DEF InAccessA, e
    <3>2. [e EXCEPT !.accessA = [op |-> l.op, gid |-> l.gid, stack |-> <<>>]] \in RaceEvent
      BY <1>1, <1>4, <1>5, EventWith
    <3> QED BY <1>3, <3>1, <3>2 DEF State
  <2>3. CASE ~Matches(l, "access")
    <3>1. UNCHANGED parserVars
      BY <2>1, <2>3 DEF InAccessA
    <3> QED BY <1>1, <3>1 DEF parserVars
  <2> QED BY <2>2, <2>3
<1>8. CASE state = "accessAStack"
  <2>1. InAccessAStack(l)
    BY <1>8, Dispatch
  <2>2. CASE Matches(l, "previous")
    <3> DEFINE d == [e EXCEPT !.accessA.stack = Flush(e.accessA.stack, pendingFunc),
                              !.accessB = [op |-> l.op, gid |-> l.gid, stack |-> <<>>]]
    <3>1. /\ current' = <<d>> /\ state' = "accessBStack" /\ pendingFunc' = ""
          /\ UNCHANGED <<idCounter, events, result>>
      BY <2>1, <2>2 DEF InAccessAStack, e
    <3>2. d \in RaceEvent
      <4>1. Flush(e.accessA.stack, pendingFunc) \in Seq(Frame)
        BY <1>2, <1>5
      <4> QED BY <1>1, <1>4, <4>1, EventWith
    <3> QED BY <1>3, <3>1, <3>2 DEF State
  <2>3. CASE ~Matches(l, "previous")
    <3> DEFINE d == [e EXCEPT !.accessA.stack = StackFrames(l, e.accessA.stack, pendingFunc)]
    <3>1. /\ current' = <<d>> /\ pendingFunc' = StackPending(l, pendingFunc)
          /\ UNCHANGED <<state, idCounter, events, result>>
      BY <2>1, <2>3 DEF InAccessAStack, e
    <3>2. d \in RaceEvent
      BY <1>1, <1>2, <1>4, <1>5, EventWith
    <3> QED BY <1>1, <1>3, <3>1, <3>2
  <2> QED BY <2>2, <2>3
<1>9. CASE state = "accessBStack"
  <2>1. InAccessBStack(l)
    BY <1>9, Dispatch
  <2>2. CASE Matches(l, "creation")
    <3> DEFINE d == [e EXCEPT !.accessB.stack = Flush(e.accessB.stack, pendingFunc)]
    <3>1. /\ current' = <<d>> /\ state' \in {"creationStack", "creationBStack"}
          /\ pendingFunc' = "" /\ UNCHANGED <<idCounter, events, result>>
      BY <2>1, <2>2 DEF InAccessBStack, e
    <3>2. d \in RaceEvent
      BY <1>1, <1>2, <1>4, <1>5, EventWith
    <3> QED BY <1>3, <3>1, <3>2 DEF State
  <2>3. CASE ~Matches(l, "creation")
    <3> DEFINE d == [e EXCEPT !.accessB.stack = StackFrames(l, e.accessB.stack, pendingFunc)]
    <3>1. /\ current' = <<d>> /\ pendingFunc' = StackPending(l, pendingFunc)
          /\ UNCHANGED <<state, idCounter, events, result>>
      BY <2>1, <2>3 DEF InAccessBStack, e
    <3>2. d \in RaceEvent
      BY <1>1, <1>2, <1>4, <1>5, EventWith
    <3> QED BY <1>1, <1>3, <3>1, <3>2
  <2> QED BY <2>2, <2>3
<1>10. CASE state = "creationStack"
  <2>1. InCreationStack(l)
    BY <1>10, Dispatch
  <2>2. CASE Matches(l, "creation")
    <3> DEFINE d == [e EXCEPT !.creationA = Flush(e.creationA, pendingFunc)]
    <3>1. /\ current' = <<d>> /\ state' = "creationBStack"
          /\ pendingFunc' = "" /\ UNCHANGED <<idCounter, events, result>>
      BY <2>1, <2>2 DEF InCreationStack, e
    <3>2. d \in RaceEvent
      BY <1>1, <1>2, <1>4, <1>5, EventWith
    <3> QED BY <1>3, <3>1, <3>2 DEF State
  <2>3. CASE ~Matches(l, "creation")
    <3> DEFINE d == [e EXCEPT !.creationA = StackFrames(l, e.creationA, pendingFunc)]
    <3>1. /\ current' = <<d>> /\ pendingFunc' = StackPending(l, pendingFunc)
          /\ UNCHANGED <<state, idCounter, events, result>>
      BY <2>1, <2>3 DEF InCreationStack, e
    <3>2. d \in RaceEvent
      BY <1>1, <1>2, <1>4, <1>5, EventWith
    <3> QED BY <1>1, <1>3, <3>1, <3>2
  <2> QED BY <2>2, <2>3
<1>11. CASE state = "creationBStack"
  <2> DEFINE d == [e EXCEPT !.creationB = StackFrames(l, e.creationB, pendingFunc)]
  <2>1. InCreationBStack(l)
    BY <1>11, Dispatch
  <2>2. /\ current' = <<d>> /\ pendingFunc' = StackPending(l, pendingFunc)
        /\ UNCHANGED <<state, idCounter, events, result>>
    BY <2>1 DEF InCreationBStack, e
  <2>3. d \in RaceEvent
    BY <1>1, <1>2, <1>4, <1>5, EventWith
  <2> QED BY <1>1, <1>3, <2>2, <2>3
<1> QED BY <1>1, <1>7, <1>8, <1>9, <1>10, <1>11 DEF State

(* A separator ends the block that is open, as one more event. *)
LEMMA SeparatorEnds ==
  ASSUME ParserTypeOK, Resting, NEW l, l.kind = "sep", ReadLine(l)
  PROVE  /\ current' = <<>> /\ state' = "idle" /\ pendingFunc' = ""
         /\ UNCHANGED <<idCounter, result>>
         /\ events' \in Seq(RaceEvent) /\ Len(events') = Len(events) + Len(current)
         /\ \A i \in 1 .. Len(events) : events'[i] = events[i]
<1>1. Separator(l)
  BY DispatchOutside
<1>2. events \in Seq(RaceEvent) /\ Len(events) \in Nat /\ pendingFunc \in Func \cup {""}
  BY LenProperties DEF ParserTypeOK
<1>3. CASE current = <<>>
  <2>1. UNCHANGED parserVars
    BY <1>1, <1>3 DEF Separator
  <2>2. Len(current) = 0
    BY <1>3, EmptySeq
  <2>3. state = "idle" /\ pendingFunc = ""
    BY <1>3 DEF Resting
  <2>4. UNCHANGED <<state, current, pendingFunc, idCounter, events, result>>
    BY <2>1 DEF parserVars
  <2>5. Len(events) = Len(events) + Len(current)
    <3>1. Len(events) \in Nat
      BY <1>2
    <3> QED BY ONLY <2>2, <3>1
  <2> QED BY <1>2, <1>3, <2>3, <2>4, <2>5
<1>4. CASE current # <<>>
  <2> DEFINE c == current[1]
             a == Flush(c.creationA, pendingFunc)
             b == Flush(c.creationB, pendingFunc)
  <2>1. c \in RaceEvent /\ state # "idle" /\ Len(current) = 1
    BY <1>4, OpenEvent, OneEvent DEF Resting
  <2>2. PICK e \in RaceEvent :
          /\ events' = Append(events, e) /\ current' = <<>> /\ state' = "idle"
          /\ pendingFunc' = "" /\ UNCHANGED <<idCounter, result>>
    <3>1. c.creationA \in Seq(Frame) /\ c.creationB \in Seq(Frame)
      BY <2>1 DEF RaceEvent
    <3>2. a \in Seq(Frame) /\ b \in Seq(Frame)
      BY <1>2, <3>1, FlushType
    <3> HIDE DEF a, b
    <3>3. [c EXCEPT !.creationA = a] \in RaceEvent /\ [c EXCEPT !.creationB = b] \in RaceEvent
      BY <2>1, <3>2 DEF RaceEvent
    <3>4. CASE state = "creationStack"
      <4>1. events' = Append(events, [c EXCEPT !.creationA = a])
        BY <1>1, <1>4, <3>4 DEF Separator, a
      <4> QED BY <1>1, <1>4, <2>1, <3>3, <4>1 DEF Separator
    <3>5. CASE state = "creationBStack"
      <4>1. events' = Append(events, [c EXCEPT !.creationB = b])
        BY <1>1, <1>4, <3>5 DEF Separator, b
      <4> QED BY <1>1, <1>4, <2>1, <3>3, <4>1 DEF Separator
    <3>6. CASE state \notin {"creationStack", "creationBStack"}
      <4>1. events' = Append(events, c)
        BY <1>1, <1>4, <2>1, <3>6 DEF Separator
      <4> QED BY <1>1, <1>4, <2>1, <4>1 DEF Separator
    <3> QED BY <3>4, <3>5, <3>6
  <2>3. /\ Append(events, e) \in Seq(RaceEvent)
        /\ Len(Append(events, e)) = Len(events) + 1
        /\ \A i \in 1 .. Len(events) : Append(events, e)[i] = events[i]
    <3>1. events \in Seq(RaceEvent) /\ e \in RaceEvent
      BY <1>2
    <3> QED BY ONLY <3>1, AppendProperties
  <2>4. Len(events) + Len(current) = Len(events) + 1
    BY <2>1
  <2> QED BY <2>2, <2>3, <2>4
<1> QED BY <1>3, <1>4

(* Whatever a line that is no warning does, an event that was open is open still
   or the last of the events; and no other event opens. *)
LEMMA LineKeeps ==
  ASSUME ParserTypeOK, Resting, NEW l, LineOK(l), l.kind # "warning", ReadLine(l)
  PROVE  /\ ParserTypeOK' /\ Resting'
         /\ UNCHANGED <<idCounter, result>>
         /\ Len(events') + Len(current') = Len(events) + Len(current)
         /\ Len(events) <= Len(events')
         /\ \A i \in 1 .. Len(events) : events'[i] = events[i]
         /\ current = <<>> => current' = <<>>
<1>1. /\ events \in Seq(RaceEvent) /\ Len(events) \in Nat
      /\ current \in Seq(RaceEvent) /\ Len(current) \in Nat
      /\ idCounter \in Nat /\ result \in {"reading", "events", "error"}
  <2>1. /\ events \in Seq(RaceEvent) /\ current \in Seq(RaceEvent)
        /\ idCounter \in Nat /\ result \in {"reading", "events", "error"}
    BY DEF ParserTypeOK
  <2> QED BY <2>1, LenProperties
<1>2. CASE l.kind = "sep"
  <2>1. /\ current' = <<>> /\ state' = "idle" /\ pendingFunc' = ""
        /\ UNCHANGED <<idCounter, result>>
        /\ events' \in Seq(RaceEvent) /\ Len(events') = Len(events) + Len(current)
        /\ \A i \in 1 .. Len(events) : events'[i] = events[i]
    BY <1>2, SeparatorEnds
  <2>2. <<>> \in Seq(RaceEvent) /\ Len(<<>>) = 0 /\ Len(<<>>) <= 1
    BY EmptySeq
  <2>3. ParserTypeOK'
    BY <1>1, <2>1, <2>2 DEF ParserTypeOK, State
  <2>4. Resting'
    BY <2>1 DEF Resting
  <2>5. Len(current') = 0
    BY <2>1, <2>2
  <2>6. /\ Len(events') + Len(current') = Len(events) + Len(current)
        /\ Len(events) <= Len(events')
    <3>1. /\ Len(events') = Len(events) + Len(current)
          /\ Len(events) \in Nat /\ Len(current) \in Nat
      BY <1>1, <2>1
    <3> QED BY ONLY <2>5, <3>1
  <2> QED BY <2>1, <2>3, <2>4, <2>6
<1>3. CASE l.kind # "sep" /\ current = <<>>
  <2>1. UNCHANGED parserVars
    BY <1>3 DEF ReadLine, Separator, Warning, Outside, Inside,
       InAccessA, InAccessAStack, InAccessBStack, InCreationStack, InCreationBStack
  <2>2. UNCHANGED <<state, current, pendingFunc, idCounter, events, result>>
    BY <2>1 DEF parserVars
  <2>3. ParserTypeOK'
    BY <2>2 DEF ParserTypeOK
  <2>4. Resting'
    BY <2>2 DEF Resting
  <2>5. Len(events) <= Len(events)
    BY <1>1
  <2> QED BY <2>2, <2>3, <2>4, <2>5
<1>4. CASE l.kind # "sep" /\ current # <<>>
  <2>1. state # "idle"
    BY <1>4 DEF Resting
  <2>2. /\ current' \in Seq(RaceEvent) /\ Len(current') = 1
        /\ state' \in State \ {"idle"} /\ pendingFunc' \in Func \cup {""}
        /\ UNCHANGED <<idCounter, events, result>>
    BY <1>4, <2>1, InsideKeeps
  <2>3. current' # <<>>
    <3>1. Len(current') = 1
      BY <2>2
    <3> QED BY ONLY <3>1, EmptySeq
  <2>4. Len(current) = 1
    <3>1. current = <<current[1]>> /\ current[1] \in RaceEvent
      BY <1>4, OpenEvent
    <3> QED BY <3>1, OneEvent
  <2>5. ParserTypeOK'
    <3>1. Len(current') <= 1
      <4>1. Len(current') = 1
        BY <2>2
      <4> QED BY ONLY <4>1
    <3> QED BY <1>1, <2>2, <3>1 DEF ParserTypeOK
  <2>6. Resting'
    BY <2>2, <2>3 DEF Resting
  <2>7. Len(events) <= Len(events) /\ Len(events) + 1 = Len(events) + Len(current)
    BY ONLY <1>1, <2>4
  <2> QED BY <1>4, <2>2, <2>5, <2>6, <2>7
<1> QED BY <1>2, <1>3, <1>4

(* What a line does not change: which reports are events, and their number. *)
LEMMA EventsKept ==
  ASSUME IInv, result = "reading", UNCHANGED result, Len(events) \in Nat, Len(events') \in Nat,
         Len(events) <= Len(events'), \A i \in 1 .. Len(events) : events'[i] = events[i],
         Len(reported') \in Nat,
         \A i \in 1 .. Len(reported') :
           reported'[i] # Damaged => i \in 1 .. Len(reported) /\ reported'[i] = reported[i]
  PROVE  EventsAreReports'
<1>1. ASSUME NEW i \in 1 .. Len(reported'), reported'[i] # Damaged
      PROVE  i <= Len(events') /\ events'[i] = EventOf(reported'[i], i)
  <2>1. i \in 1 .. Len(reported) /\ reported'[i] = reported[i]
    BY <1>1
  <2>2. i <= Len(events) /\ events[i] = EventOf(reported[i], i)
    BY <1>1, <2>1 DEF IInv, EventsAreReports
  <2>3. i \in Nat /\ i >= 1
    BY <1>1
  <2>4. i \in 1 .. Len(events) /\ i <= Len(events')
    BY <2>2, <2>3
  <2> QED BY <2>1, <2>2, <2>4
<1> QED BY <1>1 DEF EventsAreReports

(* Of a report that is damaged, or of lines outside of reports, the invariant says
   little, and any line keeps that. *)
LEMMA DamagedStep ==
  ASSUME IInv, WriterTypeOK', NEW l, LineOK(l), l.kind # "warning", ReadLine(l),
         reported' = reported, InReport' <=> InReport, ~(Writing' /\ intact')
  PROVE  IInv'
<1>1. result = "reading" /\ ParserTypeOK /\ Resting
  BY DEF ReadLine, IInv, TypeOK, Synchronised, Resting
<1>2. /\ ParserTypeOK' /\ Resting'
      /\ UNCHANGED <<idCounter, result>>
      /\ Len(events') + Len(current') = Len(events) + Len(current)
      /\ Len(events) <= Len(events')
      /\ \A i \in 1 .. Len(events) : events'[i] = events[i]
      /\ current = <<>> => current' = <<>>
  BY <1>1, LineKeeps
<1>3. Blocks' = Blocks
  BY DEF Blocks
<1>4. Synchronised'
  <2>1. ~InReport => current = <<>>
    BY <1>1 DEF IInv, Synchronised
  <2>2. idCounter = Blocks
    BY <1>1 DEF IInv, Synchronised
  <2> HIDE DEF Blocks
  <2> QED BY <1>2, <1>3, <2>1, <2>2 DEF Synchronised, Resting
<1>5. EventsAreReports'
  <2>1. /\ Len(events) \in Nat /\ Len(events') \in Nat /\ Len(reported) \in Nat
    BY <1>1, <1>2, LenProperties DEF ParserTypeOK, IInv, TypeOK, WriterTypeOK
  <2> QED BY <1>1, <1>2, <2>1, EventsKept
<1>6. OneEventPerBlock'
  <2> HIDE DEF Blocks
  <2> QED BY <1>1, <1>2, <1>3 DEF OneEventPerBlock, IInv
<1> QED BY <1>2, <1>4, <1>5, <1>6 DEF IInv, TypeOK

(* A separator after which no report is open: all that are begun are events. *)
LEMMA OutsideStep ==
  ASSUME IInv, WriterTypeOK', ReadLine(Line("sep")), ~InReport', Len(reported') = Blocks,
         \A i \in 1 .. Len(reported') :
           reported'[i] # Damaged => i \in 1 .. Len(reported) /\ reported'[i] = reported[i]
  PROVE  IInv'
<1> DEFINE l == Line("sep")
<1>1. result = "reading" /\ ParserTypeOK /\ Resting
  BY DEF ReadLine, IInv, TypeOK, Synchronised, Resting
<1>2. l.kind = "sep"
  BY Lines
<1> HIDE DEF l
<1>3. /\ current' = <<>> /\ state' = "idle" /\ pendingFunc' = ""
      /\ UNCHANGED <<idCounter, result>>
      /\ events' \in Seq(RaceEvent) /\ Len(events') = Len(events) + Len(current)
      /\ \A i \in 1 .. Len(events) : events'[i] = events[i]
  BY <1>1, <1>2, SeparatorEnds DEF l
<1>4. /\ Len(events) + Len(current) = Blocks /\ idCounter = Blocks
  BY <1>1 DEF IInv, OneEventPerBlock, Synchronised
<1>5. /\ Len(events) \in Nat /\ Len(current) \in Nat /\ Len(reported) \in Nat
      /\ Len(events') \in Nat /\ Len(reported') \in Nat
  <2>1. /\ events \in Seq(RaceEvent) /\ current \in Seq(RaceEvent)
        /\ reported \in Seq(Report \cup {Damaged}) /\ reported' \in Seq(Report \cup {Damaged})
    BY DEF IInv, TypeOK, ParserTypeOK, WriterTypeOK
  <2> QED BY <1>3, <2>1, LenProperties
<1>6. <<>> \in Seq(RaceEvent) /\ Len(<<>>) = 0 /\ Len(<<>>) <= 1
  BY EmptySeq
<1>7. ParserTypeOK'
  BY <1>1, <1>3, <1>6 DEF ParserTypeOK, State
<1>8. Blocks' = Blocks
  <2>1. Blocks' = Len(reported')
    BY <1>5 DEF Blocks
  <2> QED BY <2>1
<1> HIDE DEF Blocks
<1>9. Synchronised'
  <2>1. ~Writing'
    BY DEF Writing
  <2> QED BY <1>3, <1>4, <1>8, <2>1 DEF Synchronised
<1>10. EventsAreReports'
  <2>1. Len(events) <= Len(events')
    <3>1. Len(events') = Len(events) + Len(current)
      BY <1>3
    <3> QED BY ONLY <1>5, <3>1
  <2> QED BY <1>1, <1>3, <1>5, <2>1, EventsKept
<1>11. OneEventPerBlock'
  <2>1. Len(events') + Len(current') = Len(events) + Len(current)
    <3>1. Len(current') = 0
      BY <1>3, <1>6
    <3>2. Len(events') = Len(events) + Len(current)
      BY <1>3
    <3> QED BY ONLY <1>5, <3>1, <3>2
  <2> QED BY <1>1, <1>3, <1>4, <1>8, <2>1 DEF OneEventPerBlock
<1> QED BY <1>7, <1>9, <1>10, <1>11 DEF IInv, TypeOK

(* What the invariant says while a report is written and nothing strayed into it. *)
LEMMA InBlock ==
  ASSUME IInv, result = "reading", Writing, intact
  PROVE  /\ current # <<>>
         /\ current[1] = Partial(report, section, n, Len(reported) + 1)
         /\ state = StateAt(section)
         /\ pendingFunc = IF line = "file" THEN StackOf(report, section)[n + 1] ELSE ""
<1>1. Partial(report, section, n, Len(reported) + 1) \in RaceEvent
  <2>1. Len(reported) + 1 \in Nat
    BY LenProperties DEF IInv, TypeOK, WriterTypeOK
  <2> QED BY <2>1, PartialType DEF IInv, TypeOK, WriterTypeOK
<1>2. current = <<Partial(report, section, n, Len(reported) + 1)>>
  BY DEF IInv, Synchronised
<1>3. current # <<>> /\ current[1] = Partial(report, section, n, Len(reported) + 1)
  BY <1>1, <1>2, OneEvent
<1> QED BY <1>3 DEF IInv, Synchronised, Writing

(* A step inside a report that fills the open event as far as the writer has
   got keeps the invariant. *)
LEMMA BlockStep ==
  ASSUME IInv, WriterTypeOK', result = "reading", Writing, Writing', intact,
         UNCHANGED <<report, reported, events, idCounter, result>>,
         current' = <<Partial(report, section', n', Len(reported) + 1)>>,
         state' = StateAt(section'),
         pendingFunc' = IF line' = "file" THEN StackOf(report, section')[n' + 1] ELSE ""
  PROVE  IInv'
<1> DEFINE p == Partial(report, section', n', Len(reported) + 1)
<1>1. /\ reported \in Seq(Report \cup {Damaged}) /\ events \in Seq(RaceEvent)
      /\ Len(reported) \in Nat /\ Len(events) \in Nat /\ idCounter \in Nat
      /\ idCounter = Blocks /\ Len(events) + 1 = Blocks
  <2>1. /\ reported \in Seq(Report \cup {Damaged}) /\ events \in Seq(RaceEvent)
        /\ idCounter \in Nat /\ idCounter = Blocks /\ Len(events) + Len(current) = Blocks
    BY DEF IInv, TypeOK, WriterTypeOK, ParserTypeOK, Synchronised, OneEventPerBlock
  <2>2. Len(current) = 1
    <3>1. current = <<current[1]>> /\ current[1] \in RaceEvent
      BY InBlock, OpenEvent DEF IInv, TypeOK
    <3> QED BY <3>1, OneEvent
  <2> HIDE DEF Blocks
  <2> QED BY <2>1, <2>2, LenProperties
<1>2. /\ report \in Report /\ section' \in Section /\ line' \in {"func", "file"}
      /\ n' \in 0 .. Len(StackOf(report, section'))
      /\ line' = "file" => n' < Len(StackOf(report, section'))
  BY DEF WriterTypeOK
<1>3. p \in RaceEvent
  <2>0. Len(reported) \in Nat
    BY <1>1
  <2>1. Len(reported) + 1 \in Nat
    BY ONLY <2>0
  <2> QED BY <1>2, <2>1, PartialType
<1> HIDE DEF p
<1>4. current' = <<p>>
  BY DEF p
<1>5. current' \in Seq(RaceEvent) /\ Len(current') = 1
  BY <1>3, <1>4, OneEvent
<1>6. pendingFunc' \in Func \cup {""}
  <2>1. CASE line' = "file"
    <3>1. section' \in {"stackA", "stackB", "creationA", "creationB"}
      <4>1. CASE section' = "warning"
        <5>1. StackOf(report, section') = <<>>
          BY <4>1 DEF StackOf
        <5> QED BY <1>2, <2>1, <5>1
      <4> QED BY <1>2, <4>1 DEF Section, InReport, Writing
    <3>2. StackOf(report, section') \in Stack
      BY <1>2, <3>1, StackOfSection
    <3> DEFINE t == StackOf(report, section')
    <3> HIDE DEF t
    <3>3. t \in Stack /\ n' \in 0 .. Len(t) /\ n' < Len(t)
      BY <1>2, <2>1, <3>2 DEF t
    <3>4. t[n' + 1] \in Func
      <4>1. Len(t) \in Nat /\ \A i \in 1 .. Len(t) : t[i] \in Func
        BY <3>3, StackType
      <4>2. n' + 1 \in 1 .. Len(t)
        BY <3>3, <4>1, NextIndex
      <4> QED BY <4>1, <4>2
    <3> QED BY <2>1, <3>4 DEF t
  <2> QED BY <2>1
<1>7. state' \in State
  <2>1. StateAt(section') \in State
    BY <1>2, StateAtType
  <2> QED BY <2>1
<1>8. ParserTypeOK'
  <2>1. Len(current') <= 1
    BY <1>3, <1>4, OneEvent
  <2>2. events' \in Seq(RaceEvent) /\ idCounter' \in Nat /\ result' \in {"reading", "events", "error"}
    BY <1>1
  <2> QED BY <1>5, <1>6, <1>7, <2>1, <2>2 DEF ParserTypeOK
<1>9. Synchronised'
  <2>1. Blocks' = Blocks
    BY DEF Blocks, Writing
  <2>2. idCounter' = Blocks'
    BY <1>1, <2>1
  <2>3. current' # <<>>
    BY <1>5, EmptySeq
  <2>4. state' # "idle"
    <3>1. section' \in {"warning", "stackA", "stackB", "creationA", "creationB"}
      BY <1>2 DEF Section, InReport, Writing
    <3> QED BY <3>1 DEF StateAt
  <2> HIDE DEF Blocks
  <2> QED BY <1>1, <2>2, <2>3, <2>4 DEF Synchronised, Writing
<1>10. EventsAreReports' /\ OneEventPerBlock'
  <2>1. Blocks' = Blocks
    BY DEF Blocks, Writing
  <2>2. EventsAreReports'
    BY DEF IInv, EventsAreReports
  <2> HIDE DEF Blocks
  <2> QED BY <1>1, <1>5, <2>1, <2>2 DEF OneEventPerBlock
<1> QED BY <1>8, <1>9, <1>10 DEF IInv, TypeOK

(* The writer's variables when a section begins. *)
LEMMA WriterBegins ==
  ASSUME IInv, NEW s \in Section, section' = s, n' = 0, line' = "func",
         UNCHANGED <<report, intact, strays, reported>>
  PROVE  WriterTypeOK'
<1>1. Len(StackOf(report, s)) \in Nat
  <2>1. CASE s \in {"stackA", "stackB", "creationA", "creationB"}
    BY <2>1, StackOfSection, StackType DEF IInv, TypeOK, WriterTypeOK
  <2>2. CASE s \in {"none", "open", "warning", "cut"}
    BY <2>2 DEF StackOf
  <2> QED BY <2>1, <2>2 DEF Section
<1>2. report \in Report /\ reported \in Seq(Report \cup {Damaged})
  BY DEF IInv, TypeOK, WriterTypeOK
<1>3. intact' \in BOOLEAN /\ strays' \in 0 .. MaxStrays
  BY DEF IInv, TypeOK, WriterTypeOK
<1> QED BY <1>1, <1>2, <1>3 DEF WriterTypeOK

LEMMA AccessIInv ==
  ASSUME IInv, intact, Main \notin Gid, WriteAccess
  PROVE  IInv'
<1> DEFINE l  == AccessLine(report.opA, report.gidA)
           id == Len(reported) + 1
<1>1. /\ section = "warning" /\ section' = "stackA" /\ n' = 0 /\ line' = "func"
      /\ UNCHANGED <<report, intact, strays, reported>> /\ ReadLine(l) /\ result = "reading"
  BY DEF WriteAccess, Begin, ReadLine
<1>2. Writing /\ Writing'
  BY <1>1 DEF InReport, Writing
<1>3. WriterTypeOK'
  BY <1>1, WriterBegins DEF Section
<1>4. /\ state = "accessA" /\ current # <<>>
      /\ current[1] = Partial(report, "warning", n, id)
  BY <1>1, <1>2, InBlock DEF StateAt
<1>5. n = 0
  <2>1. StackOf(report, "warning") = <<>>
    BY DEF StackOf
  <2> QED BY <1>1, <2>1 DEF IInv, TypeOK, WriterTypeOK
<1>6. l.kind = "access" /\ l.op = report.opA /\ l.gid = report.gidA /\ l.gid # Main
  BY Lines DEF Report, IInv, TypeOK, WriterTypeOK
<1> HIDE DEF l, id
<1>7. InAccessA(l)
  BY <1>1, <1>4, <1>6, Dispatch
<1>8. /\ current' = <<[current[1] EXCEPT !.accessA =
                        [op |-> report.opA, gid |-> report.gidA, stack |-> <<>>]]>>
      /\ state' = "accessAStack" /\ pendingFunc' = ""
      /\ UNCHANGED <<idCounter, events, result>>
  BY <1>6, <1>7 DEF InAccessA, Matches
<1>9. current' = <<Partial(report, section', n', id)>>
  BY <1>1, <1>4, <1>5, <1>8, AccessStarts
<1> QED BY <1>1, <1>2, <1>3, <1>8, <1>9, BlockStep DEF StateAt, id

LEMMA PreviousIInv ==
  ASSUME IInv, intact, Main \notin Gid, WritePrevious
  PROVE  IInv'
<1> DEFINE l  == PreviousLine(report.opB, report.gidB)
           id == Len(reported) + 1
<1>1. /\ section = "stackA" /\ section' = "stackB" /\ n' = 0
      /\ line = "func" /\ line' = "func" /\ n = Len(report.stackA)
      /\ UNCHANGED <<report, intact, strays, reported>> /\ ReadLine(l) /\ result = "reading"
  BY StackOfIs DEF WritePrevious, StackWritten, Begin, ReadLine
<1>2. Writing /\ Writing'
  BY <1>1 DEF InReport, Writing
<1>3. WriterTypeOK'
  BY <1>1, WriterBegins DEF Section
<1>4. /\ state = "accessAStack" /\ current # <<>> /\ pendingFunc = ""
      /\ current[1] = Partial(report, "stackA", Len(report.stackA), id)
  BY <1>1, <1>2, InBlock DEF StateAt
<1>5. l.kind = "previous" /\ l.op = report.opB /\ l.gid = report.gidB /\ l.gid # Main
  BY Lines DEF Report, IInv, TypeOK, WriterTypeOK
<1> HIDE DEF l, id
<1>6. InAccessAStack(l)
  BY <1>1, <1>4, <1>5, Dispatch
<1>7. /\ current' = <<[current[1] EXCEPT
                        !.accessA.stack = Flush(@, ""),
                        !.accessB = [op |-> report.opB, gid |-> report.gidB, stack |-> <<>>]]>>
      /\ state' = "accessBStack" /\ pendingFunc' = ""
      /\ UNCHANGED <<idCounter, events, result>>
  BY <1>4, <1>5, <1>6 DEF InAccessAStack, Matches
<1>8. current' = <<Partial(report, section', n', id)>>
  BY <1>1, <1>4, <1>7, PreviousStarts
<1> QED BY <1>1, <1>2, <1>3, <1>7, <1>8, BlockStep DEF StateAt, id

LEMMA CreationAIInv ==
  ASSUME IInv, intact, Main \notin Gid, WriteCreationA
  PROVE  IInv'
<1> DEFINE l  == CreationLine(report.gidA)
           id == Len(reported) + 1
<1>1. /\ section = "stackB" /\ section' = "creationA" /\ n' = 0
      /\ line = "func" /\ line' = "func" /\ n = Len(report.stackB)
      /\ UNCHANGED <<report, intact, strays, reported>> /\ ReadLine(l) /\ result = "reading"
  BY StackOfIs DEF WriteCreationA, StackWritten, Begin, ReadLine
<1>2. Writing /\ Writing'
  BY <1>1 DEF InReport, Writing
<1>3. WriterTypeOK'
  BY <1>1, WriterBegins DEF Section
<1>4. /\ state = "accessBStack" /\ current # <<>> /\ pendingFunc = ""
      /\ current[1] = Partial(report, "stackB", Len(report.stackB), id)
  BY <1>1, <1>2, InBlock DEF StateAt
<1>5. l.kind = "creation" /\ l.gid = report.gidA
  BY Lines
<1>6. current[1].accessA.gid = report.gidA
  BY <1>4, PartialGid
<1> HIDE DEF l, id
<1>7. InAccessBStack(l)
  BY <1>1, <1>4, <1>5, Dispatch
<1>8. /\ current' = <<[current[1] EXCEPT !.accessB.stack = Flush(@, "")]>>
      /\ state' = "creationStack" /\ pendingFunc' = ""
      /\ UNCHANGED <<idCounter, events, result>>
  BY <1>4, <1>5, <1>6, <1>7 DEF InAccessBStack, Matches
<1>9. current' = <<Partial(report, section', n', id)>>
  BY <1>1, <1>4, <1>8, CreationAStarts
<1> QED BY <1>1, <1>2, <1>3, <1>8, <1>9, BlockStep DEF StateAt, id

LEMMA CreationBIInv ==
  ASSUME IInv, intact, Main \notin Gid, WriteCreationB
  PROVE  IInv'
<1> DEFINE l  == CreationLine(report.gidB)
           id == Len(reported) + 1
<1>0. report.gidA # Main
  BY DEF Report, IInv, TypeOK, WriterTypeOK
<1>1. /\ section = "creationA" /\ section' = "creationB" /\ n' = 0
      /\ line = "func" /\ line' = "func" /\ n = Len(report.creationA)
      /\ UNCHANGED <<report, intact, strays, reported>> /\ ReadLine(l) /\ result = "reading"
  BY <1>0, StackOfIs DEF WriteCreationB, StackWritten, Begin, ReadLine
<1>2. Writing /\ Writing'
  BY <1>1 DEF InReport, Writing
<1>3. WriterTypeOK'
  BY <1>1, WriterBegins DEF Section
<1>4. /\ state = "creationStack" /\ current # <<>> /\ pendingFunc = ""
      /\ current[1] = Partial(report, "creationA", Len(report.creationA), id)
  BY <1>1, <1>2, InBlock DEF StateAt
<1>5. l.kind = "creation"
  BY Lines
<1> HIDE DEF l, id
<1>6. InCreationStack(l)
  BY <1>1, <1>4, <1>5, Dispatch
<1>7. /\ current' = <<[current[1] EXCEPT !.creationA = Flush(@, "")]>>
      /\ state' = "creationBStack" /\ pendingFunc' = ""
      /\ UNCHANGED <<idCounter, events, result>>
  BY <1>4, <1>5, <1>6 DEF InCreationStack, Matches
<1>8. current' = <<Partial(report, section', n', id)>>
  BY <1>1, <1>4, <1>7, CreationBStarts
<1> QED BY <1>1, <1>2, <1>3, <1>7, <1>8, BlockStep DEF StateAt, id

(* Only four sections have frames. *)
LEMMA SectionWithFrames ==
  ASSUME WriterTypeOK, n < Len(StackOf(report, section))
  PROVE  /\ section \in {"stackA", "stackB", "creationA", "creationB"}
         /\ StackOf(report, section) \in Stack /\ report \in Report
         /\ Len(StackOf(report, section)) \in Nat
         /\ n \in Nat /\ n + 1 \in 1 .. Len(StackOf(report, section))
         /\ StackOf(report, section)[n + 1] \in Func
<1>1. report \in Report /\ section \in Section /\ n \in 0 .. Len(StackOf(report, section))
  BY DEF WriterTypeOK
<1>2. section \notin {"none", "open", "warning", "cut"}
  <2>1. SUFFICES ASSUME section \in {"none", "open", "warning", "cut"}
                 PROVE  FALSE
    OBVIOUS
  <2>2. StackOf(report, section) = <<>>
    BY <2>1 DEF StackOf
  <2>3. n \in 0 .. 0 /\ n < 0
    BY <1>1, <2>2
  <2> QED BY <2>3
<1>3. section \in {"stackA", "stackB", "creationA", "creationB"}
  BY <1>1, <1>2 DEF Section
<1>4. StackOf(report, section) \in Stack
  BY <1>1, <1>3, StackOfSection
<1> DEFINE t == StackOf(report, section)
<1> HIDE DEF t
<1>5. t \in Stack /\ n \in 0 .. Len(t) /\ n < Len(t)
  BY <1>1, <1>4 DEF t
<1>6. Len(t) \in Nat /\ \A i \in 1 .. Len(t) : t[i] \in Func
  BY <1>5, StackType
<1>7. n + 1 \in 1 .. Len(t)
  BY <1>5, <1>6, NextIndex
<1>8. n \in Nat
  BY <1>5, <1>6
<1> QED BY <1>1, <1>3, <1>5, <1>6, <1>7, <1>8 DEF t

LEMMA FuncIInv ==
  ASSUME IInv, intact, WriteFunc
  PROVE  IInv'
<1> DEFINE l  == FuncLine(StackOf(report, section)[n + 1])
           id == Len(reported) + 1
<1>1. /\ line = "func" /\ line' = "file" /\ n < Len(StackOf(report, section))
      /\ UNCHANGED <<report, section, n, intact, strays, reported>> /\ ReadLine(l) /\ result = "reading"
  BY DEF WriteFunc, ReadLine
<1>2. section \in {"stackA", "stackB", "creationA", "creationB"}
  BY <1>1, SectionWithFrames DEF IInv, TypeOK
<1>3. Writing /\ Writing'
  BY <1>1, <1>2 DEF InReport, Writing
<1>4. WriterTypeOK'
  BY <1>1 DEF IInv, TypeOK, WriterTypeOK
<1>5. /\ state = StateAt(section) /\ current # <<>> /\ pendingFunc = ""
      /\ current[1] = Partial(report, section, n, id)
  BY <1>1, <1>3, InBlock
<1>6. l.kind = "func" /\ l.name = StackOf(report, section)[n + 1]
  BY Lines
<1> HIDE DEF l, id
<1>7. \A frames : StackFrames(l, frames, pendingFunc) = frames
  BY <1>5, <1>6, StackLines
<1>8. StackPending(l, pendingFunc) = l.name
  BY <1>6, StackLines
<1>9. CASE section = "stackA"
  <2>1. state = "accessAStack"
    BY <1>5, <1>9 DEF StateAt
  <2>2. InAccessAStack(l)
    BY <1>1, <1>5, <1>6, <2>1, Dispatch
  <2>3. /\ current' = <<[current[1] EXCEPT !.accessA.stack = StackFrames(l, @, pendingFunc)]>>
        /\ pendingFunc' = StackPending(l, pendingFunc)
        /\ UNCHANGED <<state, idCounter, events, result>>
    BY <1>6, <2>2 DEF InAccessAStack, Matches
  <2>4. StackFrames(l, current[1].accessA.stack, pendingFunc) = current[1].accessA.stack
    BY <1>7
  <2>5. [Partial(report, "stackA", n, id) EXCEPT !.accessA.stack = @]
          = Partial(report, "stackA", n, id)
    BY FrameKept
  <2>6. current' = <<Partial(report, section, n, id)>>
    BY <1>5, <1>9, <2>3, <2>4, <2>5
  <2> QED BY <1>1, <1>3, <1>4, <1>5, <1>6, <1>8, <2>3, <2>6, BlockStep DEF id
<1>10. CASE section = "stackB"
  <2>1. state = "accessBStack"
    BY <1>5, <1>10 DEF StateAt
  <2>2. InAccessBStack(l)
    BY <1>1, <1>5, <1>6, <2>1, Dispatch
  <2>3. /\ current' = <<[current[1] EXCEPT !.accessB.stack = StackFrames(l, @, pendingFunc)]>>
        /\ pendingFunc' = StackPending(l, pendingFunc)
        /\ UNCHANGED <<state, idCounter, events, result>>
    BY <1>6, <2>2 DEF InAccessBStack, Matches
  <2>4. StackFrames(l, current[1].accessB.stack, pendingFunc) = current[1].accessB.stack
    BY <1>7
  <2>5. [Partial(report, "stackB", n, id) EXCEPT !.accessB.stack = @]
          = Partial(report, "stackB", n, id)
    BY FrameKept
  <2>6. current' = <<Partial(report, section, n, id)>>
    BY <1>5, <1>10, <2>3, <2>4, <2>5
  <2> QED BY <1>1, <1>3, <1>4, <1>5, <1>6, <1>8, <2>3, <2>6, BlockStep DEF id
<1>11. CASE section = "creationA"
  <2>1. state = "creationStack"
    BY <1>5, <1>11 DEF StateAt
  <2>2. InCreationStack(l)
    BY <1>1, <1>5, <1>6, <2>1, Dispatch
  <2>3. /\ current' = <<[current[1] EXCEPT !.creationA = StackFrames(l, @, pendingFunc)]>>
        /\ pendingFunc' = StackPending(l, pendingFunc)
        /\ UNCHANGED <<state, idCounter, events, result>>
    BY <1>6, <2>2 DEF InCreationStack, Matches
  <2>4. StackFrames(l, current[1].creationA, pendingFunc) = current[1].creationA
    BY <1>7
  <2>5. [Partial(report, "creationA", n, id) EXCEPT !.creationA = @]
          = Partial(report, "creationA", n, id)
    BY FrameKept
  <2>6. current' = <<Partial(report, section, n, id)>>
    BY <1>5, <1>11, <2>3, <2>4, <2>5
  <2> QED BY <1>1, <1>3, <1>4, <1>5, <1>6, <1>8, <2>3, <2>6, BlockStep DEF id
<1>12. CASE section = "creationB"
  <2>1. state = "creationBStack"
    BY <1>5, <1>12 DEF StateAt
  <2>2. InCreationBStack(l)
    BY <1>1, <1>5, <1>6, <2>1, Dispatch
  <2>3. /\ current' = <<[current[1] EXCEPT !.creationB = StackFrames(l, @, pendingFunc)]>>
        /\ pendingFunc' = StackPending(l, pendingFunc)
        /\ UNCHANGED <<state, idCounter, events, result>>
    BY <1>6, <2>2 DEF InCreationBStack, Matches
  <2>4. StackFrames(l, current[1].creationB, pendingFunc) = current[1].creationB
    BY <1>7
  <2>5. [Partial(report, "creationB", n, id) EXCEPT !.creationB = @]
          = Partial(report, "creationB", n, id)
    BY FrameKept
  <2>6. current' = <<Partial(report, section, n, id)>>
    BY <1>5, <1>12, <2>3, <2>4, <2>5
  <2> QED BY <1>1, <1>3, <1>4, <1>5, <1>6, <1>8, <2>3, <2>6, BlockStep DEF id
<1> QED BY <1>2, <1>9, <1>10, <1>11, <1>12

LEMMA FileIInv ==
  ASSUME IInv, intact, WriteFile
  PROVE  IInv'
<1> DEFINE f  == StackOf(report, section)[n + 1]
           l  == FileLine(f)
           id == Len(reported) + 1
<1>1. /\ line = "file" /\ line' = "func" /\ n' = n + 1
      /\ n < Len(StackOf(report, section))
      /\ UNCHANGED <<report, section, intact, strays, reported>> /\ ReadLine(l) /\ result = "reading"
  BY DEF WriteFile, ReadLine, IInv, TypeOK, WriterTypeOK
<1>2. /\ section \in {"stackA", "stackB", "creationA", "creationB"}
      /\ report \in Report /\ n \in Nat
      /\ n + 1 \in 1 .. Len(StackOf(report, section)) /\ f \in Func
      /\ Len(StackOf(report, section)) \in Nat
  BY <1>1, SectionWithFrames DEF IInv, TypeOK
<1>3. Writing /\ Writing'
  BY <1>1, <1>2 DEF InReport, Writing
<1>4. WriterTypeOK'
  <2>1. n' \in 0 .. Len(StackOf(report, section))
    BY <1>1, <1>2
  <2>2. /\ section \in Section /\ reported \in Seq(Report \cup {Damaged})
        /\ intact \in BOOLEAN /\ strays \in 0 .. MaxStrays
    BY DEF IInv, TypeOK, WriterTypeOK
  <2> QED BY <1>1, <1>2, <2>1, <2>2 DEF WriterTypeOK
<1>5. /\ state = StateAt(section) /\ current # <<>> /\ pendingFunc = f
      /\ current[1] = Partial(report, section, n, id)
  BY <1>1, <1>3, InBlock
<1>6. l.kind = "file" /\ l.name = f
  BY Lines
<1>7. pendingFunc # ""
  BY <1>2, <1>5, ParserAssumption
<1> HIDE DEF f, l, id
<1>8. \A frames : StackFrames(l, frames, pendingFunc)
                    = Append(frames, [function |-> f, file |-> f])
  <2>1. TAKE frames
  <2>2. StackFrames(l, frames, pendingFunc)
          = Append(frames, [function |-> pendingFunc, file |-> l.name])
    <3>1. l.kind = "file" /\ pendingFunc # ""
      BY <1>6, <1>7
    <3> QED BY ONLY <3>1 DEF StackFrames
  <2> QED BY <1>5, <1>6, <2>2
<1>9. StackPending(l, pendingFunc) = ""
  BY <1>6, StackLines
<1>10. CASE section = "stackA"
  <2>1. state = "accessAStack"
    BY <1>5, <1>10 DEF StateAt
  <2>2. InAccessAStack(l)
    BY <1>1, <1>5, <1>6, <2>1, Dispatch
  <2>3. /\ current' = <<[current[1] EXCEPT !.accessA.stack = StackFrames(l, @, pendingFunc)]>>
        /\ pendingFunc' = StackPending(l, pendingFunc)
        /\ UNCHANGED <<state, idCounter, events, result>>
    BY <1>6, <2>2 DEF InAccessAStack, Matches
  <2>4. f = report.stackA[n + 1] /\ n < Len(report.stackA)
    BY <1>1, <1>10, StackOfIs DEF f
  <2>5. [Partial(report, "stackA", n, id) EXCEPT !.accessA.stack =
           Append(@, [function |-> f, file |-> f])] = Partial(report, "stackA", n + 1, id)
    BY <1>2, <2>4, FrameAddedToA
  <2>6. current' = <<Partial(report, section, n + 1, id)>>
    BY <1>5, <1>8, <1>10, <2>3, <2>5
  <2> QED BY <1>1, <1>3, <1>4, <1>5, <1>9, <2>3, <2>6, BlockStep DEF id
<1>11. CASE section = "stackB"
  <2>1. state = "accessBStack"
    BY <1>5, <1>11 DEF StateAt
  <2>2. InAccessBStack(l)
    BY <1>1, <1>5, <1>6, <2>1, Dispatch
  <2>3. /\ current' = <<[current[1] EXCEPT !.accessB.stack = StackFrames(l, @, pendingFunc)]>>
        /\ pendingFunc' = StackPending(l, pendingFunc)
        /\ UNCHANGED <<state, idCounter, events, result>>
    BY <1>6, <2>2 DEF InAccessBStack, Matches
  <2>4. f = report.stackB[n + 1] /\ n < Len(report.stackB)
    BY <1>1, <1>11, StackOfIs DEF f
  <2>5. [Partial(report, "stackB", n, id) EXCEPT !.accessB.stack =
           Append(@, [function |-> f, file |-> f])] = Partial(report, "stackB", n + 1, id)
    BY <1>2, <2>4, FrameAddedToB
  <2>6. current' = <<Partial(report, section, n + 1, id)>>
    BY <1>5, <1>8, <1>11, <2>3, <2>5
  <2> QED BY <1>1, <1>3, <1>4, <1>5, <1>9, <2>3, <2>6, BlockStep DEF id
<1>12. CASE section = "creationA"
  <2>1. state = "creationStack"
    BY <1>5, <1>12 DEF StateAt
  <2>2. InCreationStack(l)
    BY <1>1, <1>5, <1>6, <2>1, Dispatch
  <2>3. /\ current' = <<[current[1] EXCEPT !.creationA = StackFrames(l, @, pendingFunc)]>>
        /\ pendingFunc' = StackPending(l, pendingFunc)
        /\ UNCHANGED <<state, idCounter, events, result>>
    BY <1>6, <2>2 DEF InCreationStack, Matches
  <2>4. f = report.creationA[n + 1] /\ n < Len(report.creationA)
    BY <1>1, <1>12, StackOfIs DEF f
  <2>5. [Partial(report, "creationA", n, id) EXCEPT !.creationA =
           Append(@, [function |-> f, file |-> f])] = Partial(report, "creationA", n + 1, id)
    BY <1>2, <2>4, FrameAddedToCreationA
  <2>6. current' = <<Partial(report, section, n + 1, id)>>
    BY <1>5, <1>8, <1>12, <2>3, <2>5
  <2> QED BY <1>1, <1>3, <1>4, <1>5, <1>9, <2>3, <2>6, BlockStep DEF id
<1>13. CASE section = "creationB"
  <2>1. state = "creationBStack"
    BY <1>5, <1>13 DEF StateAt
  <2>2. InCreationBStack(l)
    BY <1>1, <1>5, <1>6, <2>1, Dispatch
  <2>3. /\ current' = <<[current[1] EXCEPT !.creationB = StackFrames(l, @, pendingFunc)]>>
        /\ pendingFunc' = StackPending(l, pendingFunc)
        /\ UNCHANGED <<state, idCounter, events, result>>
    BY <1>6, <2>2 DEF InCreationBStack, Matches
  <2>4. f = report.creationB[n + 1] /\ n < Len(report.creationB)
    BY <1>1, <1>13, StackOfIs DEF f
  <2>5. [Partial(report, "creationB", n, id) EXCEPT !.creationB =
           Append(@, [function |-> f, file |-> f])] = Partial(report, "creationB", n + 1, id)
    BY <1>2, <2>4, FrameAddedToCreationB
  <2>6. current' = <<Partial(report, section, n + 1, id)>>
    BY <1>5, <1>8, <1>13, <2>3, <2>5
  <2> QED BY <1>1, <1>3, <1>4, <1>5, <1>9, <2>3, <2>6, BlockStep DEF id
<1> QED BY <1>2, <1>10, <1>11, <1>12, <1>13

(* The lines of a report that is damaged. *)
LEMMA DamagedReportIInv ==
  ASSUME IInv, ~intact, Main \notin Gid,
         \/ WriteAccess \/ WritePrevious \/ WriteCreationA \/ WriteCreationB
         \/ WriteFunc \/ WriteFile
  PROVE  IInv'
<1>1. /\ report \in Report /\ report.opA \in Op /\ report.opB \in Op
      /\ report.gidA \in Gid /\ report.gidB \in Gid
  BY DEF IInv, TypeOK, WriterTypeOK, Report
<1>2. ASSUME NEW l, NEW s \in Section, LineOK(l), l.kind # "warning", Begin(s, l),
             InReport, s \notin {"none", "open"},
             UNCHANGED <<report, intact, strays, reported>>
      PROVE  IInv'
  <2>1. section' = s /\ n' = 0 /\ line' = "func" /\ ReadLine(l)
    BY <1>2 DEF Begin
  <2>2. WriterTypeOK'
    BY <1>2, <2>1, WriterBegins
  <2>3. InReport'
    BY <1>2, <2>1 DEF InReport
  <2> QED BY <1>2, <2>1, <2>2, <2>3, DamagedStep
<1>3. CASE WriteAccess
  <2> DEFINE l == AccessLine(report.opA, report.gidA)
  <2>1. LineOK(l) /\ l.kind # "warning"
    BY <1>1, LinesOK, Lines
  <2> HIDE DEF l
  <2>2. Begin("stackA", l) /\ InReport /\ UNCHANGED <<report, intact, strays, reported>>
    BY <1>3 DEF WriteAccess, InReport, l
  <2> QED BY <1>2, <2>1, <2>2 DEF Section
<1>4. CASE WritePrevious
  <2> DEFINE l == PreviousLine(report.opB, report.gidB)
  <2>1. LineOK(l) /\ l.kind # "warning"
    BY <1>1, LinesOK, Lines
  <2> HIDE DEF l
  <2>2. Begin("stackB", l) /\ InReport /\ UNCHANGED <<report, intact, strays, reported>>
    BY <1>4 DEF WritePrevious, InReport, l
  <2> QED BY <1>2, <2>1, <2>2 DEF Section
<1>5. CASE WriteCreationA
  <2> DEFINE l == CreationLine(report.gidA)
  <2>1. LineOK(l) /\ l.kind # "warning"
    BY <1>1, LinesOK, Lines
  <2> HIDE DEF l
  <2>2. Begin("creationA", l) /\ InReport /\ UNCHANGED <<report, intact, strays, reported>>
    BY <1>5 DEF WriteCreationA, InReport, l
  <2> QED BY <1>2, <2>1, <2>2 DEF Section
<1>6. CASE WriteCreationB
  <2> DEFINE l == CreationLine(report.gidB)
  <2>1. LineOK(l) /\ l.kind # "warning"
    BY <1>1, LinesOK, Lines
  <2> HIDE DEF l
  <2>2. Begin("creationB", l) /\ InReport /\ UNCHANGED <<report, intact, strays, reported>>
    BY <1>6 DEF WriteCreationB, InReport, l
  <2> QED BY <1>2, <2>1, <2>2 DEF Section
<1>7. ASSUME NEW l, LineOK(l), l.kind # "warning", ReadLine(l),
             n < Len(StackOf(report, section)), n' \in 0 .. Len(StackOf(report, section)),
             line' \in {"func", "file"},
             line' = "file" => n' < Len(StackOf(report, section)),
             UNCHANGED <<report, section, intact, strays, reported>>
      PROVE  IInv'
  <2>1. WriterTypeOK'
    BY <1>7 DEF IInv, TypeOK, WriterTypeOK
  <2>2. InReport' <=> InReport
    BY <1>7 DEF InReport
  <2> QED BY <1>7, <2>1, <2>2, DamagedStep
<1>8. CASE WriteFunc
  <2> DEFINE l == FuncLine(StackOf(report, section)[n + 1])
  <2>1. n < Len(StackOf(report, section))
    BY <1>8 DEF WriteFunc
  <2>2. LineOK(l) /\ l.kind # "warning"
    BY <2>1, SectionWithFrames, LinesOK, Lines DEF IInv, TypeOK
  <2> HIDE DEF l
  <2>3. ReadLine(l) /\ line' = "file" /\ UNCHANGED <<report, section, n, intact, strays, reported>>
    BY <1>8 DEF WriteFunc, l
  <2>4. n \in 0 .. Len(StackOf(report, section))
    BY DEF IInv, TypeOK, WriterTypeOK
  <2> QED BY <1>7, <2>1, <2>2, <2>3, <2>4
<1>9. CASE WriteFile
  <2> DEFINE l == FileLine(StackOf(report, section)[n + 1])
  <2>1. n < Len(StackOf(report, section))
    BY <1>9 DEF WriteFile, IInv, TypeOK, WriterTypeOK
  <2>2. /\ LineOK(l) /\ l.kind # "warning"
        /\ n + 1 \in 0 .. Len(StackOf(report, section))
    BY <2>1, SectionWithFrames, LinesOK, Lines DEF IInv, TypeOK
  <2> HIDE DEF l
  <2>3. /\ ReadLine(l) /\ line' = "func" /\ n' = n + 1
        /\ UNCHANGED <<report, section, intact, strays, reported>>
    BY <1>9 DEF WriteFile, l
  <2> QED BY <1>7, <2>1, <2>2, <2>3
<1> QED BY <1>3, <1>4, <1>5, <1>6, <1>8, <1>9

(* A report that was cut is damaged. *)
LEMMA OpenIInv ==
  ASSUME IInv, OpenReport
  PROVE  IInv'
<1>1. /\ section \in {"none", "cut"} /\ section' = "open" /\ n' = 0 /\ line' = "func"
      /\ report' \in Report /\ intact' = TRUE /\ strays' = strays
      /\ reported' = IF section = "cut" THEN Append(reported, Damaged) ELSE reported
      /\ ReadLine(Line("sep"))
  BY ReportAssumption DEF OpenReport, Begin
<1>2. ~InReport' /\ (InReport <=> section = "cut")
  BY <1>1 DEF InReport
<1>3. reported \in Seq(Report \cup {Damaged}) /\ Len(reported) \in Nat
  BY LenProperties DEF IInv, TypeOK, WriterTypeOK
<1>4. /\ reported' \in Seq(Report \cup {Damaged}) /\ Len(reported') = Blocks
      /\ \A i \in 1 .. Len(reported') :
           reported'[i] # Damaged => i \in 1 .. Len(reported) /\ reported'[i] = reported[i]
  <2>1. CASE section = "none"
    BY <1>1, <1>2, <1>3, <2>1 DEF Blocks
  <2>2. CASE section = "cut"
    <3>1. Damaged \in Report \cup {Damaged}
      OBVIOUS
    <3>2. /\ reported' \in Seq(Report \cup {Damaged})
          /\ Len(reported') = Len(reported) + 1
          /\ \A i \in 1 .. Len(reported) : reported'[i] = reported[i]
          /\ reported'[Len(reported) + 1] = Damaged
      BY <1>1, <1>3, <2>2, <3>1, AppendProperties
    <3>3. Blocks = Len(reported) + 1
      BY <1>2, <2>2 DEF Blocks
    <3>4. \A i \in 1 .. Len(reported) + 1 : i \in 1 .. Len(reported) \/ i = Len(reported) + 1
      BY <1>3
    <3> HIDE DEF Blocks
    <3> QED BY <3>2, <3>3, <3>4
  <2> QED BY <1>1, <2>1, <2>2
<1>5. WriterTypeOK'
  <2>1. StackOf(report', "open") = <<>> /\ 0 \in 0 .. Len(<<>>)
    BY DEF StackOf
  <2>2. strays \in 0 .. MaxStrays
    BY DEF IInv, TypeOK, WriterTypeOK
  <2> QED BY <1>1, <1>4, <2>1, <2>2 DEF WriterTypeOK, Section
<1> QED BY <1>1, <1>2, <1>4, <1>5, OutsideStep

LEMMA WarningIInv ==
  ASSUME IInv, WriteWarning
  PROVE  IInv'
<1> DEFINE id == Len(reported) + 1
<1>1. /\ section = "open" /\ section' = "warning" /\ n' = 0 /\ line' = "func"
      /\ UNCHANGED <<report, intact, strays, reported>>
      /\ ReadLine(Line("warning")) /\ result = "reading"
  BY DEF WriteWarning, Begin, ReadLine
<1>2. ~InReport /\ InReport'
  BY <1>1 DEF InReport
<1>3. /\ current = <<>> /\ Len(events) = Len(reported) /\ idCounter = Len(reported)
      /\ reported \in Seq(Report \cup {Damaged}) /\ events \in Seq(RaceEvent)
      /\ Len(reported) \in Nat
  <2>1. /\ reported \in Seq(Report \cup {Damaged}) /\ events \in Seq(RaceEvent)
        /\ idCounter \in Nat
    BY DEF IInv, TypeOK, ParserTypeOK, WriterTypeOK
  <2>2. Len(reported) \in Nat
    BY <2>1, LenProperties
  <2>3. Blocks = Len(reported)
    BY <1>2, <2>2 DEF Blocks
  <2>4. current = <<>> /\ idCounter = Blocks /\ Len(events) + Len(current) = Blocks
    BY <1>1, <1>2 DEF IInv, Synchronised, OneEventPerBlock
  <2>5. Len(current) = 0 /\ Len(events) \in Nat
    BY <2>1, <2>4, EmptySeq, LenProperties
  <2>6. Len(events) = Len(reported)
    BY <2>2, <2>3, <2>4, <2>5
  <2> HIDE DEF Blocks
  <2> QED BY <2>1, <2>2, <2>3, <2>4, <2>6
<1>4. Warning(Line("warning"))
  BY <1>1, Lines, DispatchOutside
<1>5. /\ idCounter' = id /\ current' = <<NewEvent(id)>> /\ state' = "accessA"
      /\ pendingFunc' = "" /\ UNCHANGED <<events, result>>
  BY <1>3, <1>4 DEF Warning
<1>6. id \in Nat
  BY ONLY <1>3
<1> HIDE DEF id
<1>7. WriterTypeOK'
  BY <1>1, WriterBegins DEF Section
<1>8. NewEvent(id) = Partial(report, "warning", 0, id)
  BY WarningStarts
<1>9. NewEvent(id) \in RaceEvent
  <2>1. report \in Report /\ 0 \in 0 .. Len(StackOf(report, "warning"))
    BY <1>1, <1>7 DEF WriterTypeOK
  <2> QED BY <1>6, <1>8, <2>1, PartialType DEF Section
<1>10. current' \in Seq(RaceEvent) /\ Len(current') = 1 /\ Len(current') <= 1
  BY <1>5, <1>9, OneEvent
<1>11. ParserTypeOK'
  BY <1>1, <1>3, <1>5, <1>6, <1>10 DEF ParserTypeOK, State
<1>12. Blocks' = id
  BY <1>1, <1>2 DEF Blocks, id
<1>13. Synchronised'
  <2>1. current' = <<Partial(report', section', n', Len(reported') + 1)>>
    BY <1>1, <1>5, <1>8 DEF id
  <2>2. state' = StateAt(section')
    BY <1>1, <1>5 DEF StateAt
  <2>3. current' # <<>> /\ state' # "idle"
    BY <1>5, <1>10, EmptySeq
  <2> HIDE DEF Blocks
  <2> QED BY <1>1, <1>2, <1>3, <1>5, <1>12, <2>1, <2>2, <2>3 DEF Synchronised
<1>14. EventsAreReports'
  BY <1>1, <1>5 DEF IInv, EventsAreReports
<1>15. OneEventPerBlock'
  BY <1>1, <1>3, <1>5, <1>10, <1>12 DEF OneEventPerBlock, id
<1> QED BY <1>7, <1>11, <1>13, <1>14, <1>15 DEF IInv, TypeOK

(* A line of the program's own: the parser passes over it, or the report it falls
   into is damaged. *)
LEMMA OtherIInv ==
  ASSUME IInv, WriteOther
  PROVE  IInv'
<1>0. PICK l \in OwnLine :
        /\ ReadLine(l)
        /\ IF Strays(l)
           THEN strays < MaxStrays /\ strays' = strays + 1 /\ intact' = FALSE
           ELSE UNCHANGED <<intact, strays>>
        /\ UNCHANGED <<report, section, n, line, reported>>
  BY DEF WriteOther
<1>1. /\ ReadLine(l) /\ result = "reading"
      /\ UNCHANGED <<report, section, n, line, reported>>
  BY <1>0 DEF ReadLine
<1>2. LineOK(l) /\ l.kind \in {"other", "sep", "func", "file"}
  BY LinesOK, Lines DEF OwnLine
<1>3. WriterTypeOK'
  <2>1. CASE Strays(l)
    <3>1. strays' \in 0 .. MaxStrays
      <4>1. strays \in 0 .. MaxStrays /\ MaxStrays \in Nat
        BY ReportAssumption DEF IInv, TypeOK, WriterTypeOK
      <4>2. strays < MaxStrays /\ strays' = strays + 1
        BY <1>0, <2>1
      <4> QED BY ONLY <4>1, <4>2
    <3>2. intact' \in BOOLEAN
      <4>1. intact' = FALSE
        BY <1>0, <2>1
      <4> QED BY <4>1, Zenon
    <3> QED BY <1>1, <3>1, <3>2 DEF IInv, TypeOK, WriterTypeOK
  <2>2. CASE ~Strays(l)
    BY <1>0, <2>2 DEF IInv, TypeOK, WriterTypeOK
  <2> QED BY <2>1, <2>2
<1>4. /\ InReport' <=> InReport
      /\ Writing' <=> Writing
  BY <1>1 DEF InReport, Writing
<1>5. CASE ~(Writing' /\ intact')
  BY <1>1, <1>2, <1>3, <1>4, <1>5, DamagedStep
<1>6. CASE Writing' /\ intact'
  <2>0. ~Strays(l) /\ UNCHANGED <<intact, strays>>
    BY <1>0, <1>6
  <2>1. /\ Writing /\ Writing' /\ intact
        /\ UNCHANGED <<report, section, n, line, intact, strays, reported>>
        /\ l.kind \in {"other", "file", "func"}
        /\ l.kind = "file" => line = "func"
        /\ l.kind = "func" => section = "warning"
    BY <1>1, <1>2, <1>4, <1>6, <2>0 DEF InReport, Writing, Strays, WriterTypeOK, IInv, TypeOK
  <2>2. WriterTypeOK'
    BY <1>3
  <2> DEFINE id == Len(reported) + 1
  <2>3. /\ current # <<>> /\ state = StateAt(section)
        /\ current[1] = Partial(report, section, n, id)
        /\ current = <<current[1]>>
        /\ pendingFunc = IF line = "file" THEN StackOf(report, section)[n + 1] ELSE ""
    <3>1. current = <<Partial(report, section, n, id)>>
      BY <1>1, <2>1 DEF IInv, Synchronised
    <3>2. /\ current # <<>> /\ state = StateAt(section)
          /\ current[1] = Partial(report, section, n, id)
          /\ pendingFunc = IF line = "file" THEN StackOf(report, section)[n + 1] ELSE ""
      BY <1>1, <2>1, InBlock
    <3> HIDE DEF id
    <3> QED BY <3>1, <3>2
  <2> HIDE DEF id
  <2>4. section # "warning" =>
          /\ \A frames : StackFrames(l, frames, pendingFunc) = frames
          /\ StackPending(l, pendingFunc) = pendingFunc
    <3>1. section # "warning" => l.kind = "other" \/ (l.kind = "file" /\ pendingFunc = "")
      BY <2>1, <2>3
    <3>2. ASSUME section # "warning"
          PROVE  /\ \A frames : StackFrames(l, frames, pendingFunc) = frames
                 /\ StackPending(l, pendingFunc) = pendingFunc
      <4>1. l.kind = "other" \/ (l.kind = "file" /\ pendingFunc = "")
        BY <3>1, <3>2
      <4> QED BY ONLY <4>1 DEF StackFrames, StackPending
    <3> QED BY <3>2
  <2>5. /\ current' = <<Partial(report, section, n, id)>>
        /\ UNCHANGED <<state, pendingFunc, idCounter, events, result>>
    <3>1. CASE section = "warning"
      <4>1. InAccessA(l)
        BY <1>1, <2>1, <2>3, <3>1, Dispatch DEF StateAt
      <4>2. UNCHANGED parserVars
        BY <2>1, <4>1 DEF InAccessA, Matches
      <4> QED BY <2>3, <4>2 DEF parserVars
    <3>2. CASE section = "stackA"
      <4>1. InAccessAStack(l)
        BY <1>1, <2>1, <2>3, <3>2, Dispatch DEF StateAt
      <4>2. /\ current' = <<[current[1] EXCEPT !.accessA.stack = StackFrames(l, @, pendingFunc)]>>
            /\ pendingFunc' = StackPending(l, pendingFunc)
            /\ UNCHANGED <<state, idCounter, events, result>>
        BY <2>1, <4>1 DEF InAccessAStack, Matches
      <4>3. StackFrames(l, current[1].accessA.stack, pendingFunc) = current[1].accessA.stack
        BY <2>4, <3>2
      <4>4. [Partial(report, "stackA", n, id) EXCEPT !.accessA.stack = @]
              = Partial(report, "stackA", n, id)
        BY FrameKept
      <4> QED BY <2>3, <2>4, <3>2, <4>2, <4>3, <4>4
    <3>3. CASE section = "stackB"
      <4>1. InAccessBStack(l)
        BY <1>1, <2>1, <2>3, <3>3, Dispatch DEF StateAt
      <4>2. /\ current' = <<[current[1] EXCEPT !.accessB.stack = StackFrames(l, @, pendingFunc)]>>
            /\ pendingFunc' = StackPending(l, pendingFunc)
            /\ UNCHANGED <<state, idCounter, events, result>>
        BY <2>1, <4>1 DEF InAccessBStack, Matches
      <4>3. StackFrames(l, current[1].accessB.stack, pendingFunc) = current[1].accessB.stack
        BY <2>4, <3>3
      <4>4. [Partial(report, "stackB", n, id) EXCEPT !.accessB.stack = @]
              = Partial(report, "stackB", n, id)
        BY FrameKept
      <4> QED BY <2>3, <2>4, <3>3, <4>2, <4>3, <4>4
    <3>4. CASE section = "creationA"
      <4>1. InCreationStack(l)
        BY <1>1, <2>1, <2>3, <3>4, Dispatch DEF StateAt
      <4>2. /\ current' = <<[current[1] EXCEPT !.creationA = StackFrames(l, @, pendingFunc)]>>
            /\ pendingFunc' = StackPending(l, pendingFunc)
            /\ UNCHANGED <<state, idCounter, events, result>>
        BY <2>1, <4>1 DEF InCreationStack, Matches
      <4>3. StackFrames(l, current[1].creationA, pendingFunc) = current[1].creationA
        BY <2>4, <3>4
      <4>4. [Partial(report, "creationA", n, id) EXCEPT !.creationA = @]
              = Partial(report, "creationA", n, id)
        BY FrameKept
      <4> QED BY <2>3, <2>4, <3>4, <4>2, <4>3, <4>4
    <3>5. CASE section = "creationB"
      <4>1. InCreationBStack(l)
        BY <1>1, <2>1, <2>3, <3>5, Dispatch DEF StateAt
      <4>2. /\ current' = <<[current[1] EXCEPT !.creationB = StackFrames(l, @, pendingFunc)]>>
            /\ pendingFunc' = StackPending(l, pendingFunc)
            /\ UNCHANGED <<state, idCounter, events, result>>
        BY <2>1, <4>1 DEF InCreationBStack, Matches
      <4>3. StackFrames(l, current[1].creationB, pendingFunc) = current[1].creationB
        BY <2>4, <3>5
      <4>4. [Partial(report, "creationB", n, id) EXCEPT !.creationB = @]
              = Partial(report, "creationB", n, id)
        BY FrameKept
      <4> QED BY <2>3, <2>4, <3>5, <4>2, <4>3, <4>4
    <3>6. section \in {"warning", "stackA", "stackB", "creationA", "creationB"}
      BY <2>1 DEF InReport, Writing, Section, IInv, TypeOK, WriterTypeOK
    <3> QED BY <3>1, <3>2, <3>3, <3>4, <3>5, <3>6
  <2> QED BY <1>1, <2>1, <2>2, <2>3, <2>5, BlockStep DEF id
<1> QED BY <1>5, <1>6

LEMMA CloseIInv ==
  ASSUME IInv, intact, Main \notin Gid, CloseReport
  PROVE  IInv'
<1> DEFINE id == Len(reported) + 1
           l  == Line("sep")
<1>0. report \in Report /\ report.gidB # Main
  BY DEF Report, IInv, TypeOK, WriterTypeOK
<1>1. /\ section = "creationB" /\ section' = "none" /\ n' = 0
      /\ line = "func" /\ line' = "func" /\ n = Len(report.creationB)
      /\ UNCHANGED <<report, intact, strays>> /\ reported' = Append(reported, report)
      /\ ReadLine(l) /\ result = "reading"
  BY <1>0, StackOfIs DEF CloseReport, StackWritten, Begin, ReadLine
<1>2. InReport /\ Writing /\ ~InReport' /\ ~Writing'
  BY <1>1 DEF InReport, Writing
<1>3. /\ state = "creationBStack" /\ current # <<>> /\ pendingFunc = ""
      /\ current[1] = Partial(report, "creationB", Len(report.creationB), id)
  BY <1>1, <1>2, InBlock DEF StateAt
<1>4. l.kind = "sep"
  BY Lines
<1>5. /\ reported \in Seq(Report \cup {Damaged}) /\ events \in Seq(RaceEvent)
      /\ Len(reported) \in Nat /\ Len(events) \in Nat /\ Len(events) = Len(reported)
  <2>1. reported \in Seq(Report \cup {Damaged}) /\ events \in Seq(RaceEvent)
    BY DEF IInv, TypeOK, ParserTypeOK, WriterTypeOK
  <2>2. Len(reported) \in Nat
    BY <2>1, LenProperties
  <2>3. Len(events) + Len(current) = Blocks
    BY <1>1 DEF IInv, OneEventPerBlock
  <2>4. Len(current) = 1
    <3>1. current = <<current[1]>> /\ current[1] \in RaceEvent
      BY <1>3, OpenEvent DEF IInv, TypeOK
    <3> QED BY <3>1, OneEvent
  <2>5. Blocks = Len(reported) + 1
    BY <1>2 DEF Blocks
  <2>6. Len(events) \in Nat
    BY <2>1, LenProperties
  <2>7. Len(events) = Len(reported)
    BY <2>2, <2>3, <2>4, <2>5, <2>6
  <2> QED BY <2>1, <2>2, <2>6, <2>7
<1>6. id \in Nat
  BY ONLY <1>5
<1>7. idCounter = id /\ idCounter \in Nat
  <2>1. idCounter = Blocks
    BY <1>1 DEF IInv, Synchronised
  <2>2. Blocks = id
    BY <1>2 DEF Blocks
  <2> QED BY <1>6, <2>1, <2>2
<1>8. current[1] = EventOf(report, id)
  BY <1>0, <1>3, ReportEnds
<1>9. current[1] \in RaceEvent
  <2>1. Len(report.creationB) \in 0 .. Len(StackOf(report, "creationB"))
    BY <1>1, StackOfIs DEF IInv, TypeOK, WriterTypeOK
  <2> QED BY <1>0, <1>3, <1>6, <2>1, PartialType DEF Section
<1> HIDE DEF l, id
<1>10. /\ events' = Append(events, EventOf(report, id)) /\ current' = <<>>
       /\ state' = "idle" /\ pendingFunc' = "" /\ UNCHANGED <<idCounter, result>>
  <2>1. Separator(l)
    BY <1>1, <1>4, DispatchOutside
  <2>2. /\ events' = Append(events,
                        [current[1] EXCEPT !.creationB = Flush(@, "")])
        /\ current' = <<>> /\ state' = "idle" /\ pendingFunc' = ""
        /\ UNCHANGED <<idCounter, result>>
    BY <1>3, <2>1 DEF Separator
  <2>3. Flush(current[1].creationB, "") = current[1].creationB
    BY FlushNothing
  <2>4. [Partial(report, "creationB", Len(report.creationB), id) EXCEPT !.creationB = @]
          = Partial(report, "creationB", Len(report.creationB), id)
    BY FrameKept
  <2> QED BY <1>3, <1>8, <2>2, <2>3, <2>4
<1>11. /\ events' \in Seq(RaceEvent) /\ Len(events') = id
       /\ events'[id] = EventOf(report, id)
       /\ \A i \in 1 .. Len(events) : events'[i] = events[i]
  <2> DEFINE e == EventOf(report, id)
  <2> HIDE DEF e
  <2>1. e \in RaceEvent /\ events' = Append(events, e)
    BY <1>8, <1>9, <1>10 DEF e
  <2>2. /\ events' \in Seq(RaceEvent) /\ Len(events') = Len(events) + 1
        /\ events'[Len(events) + 1] = e
        /\ \A i \in 1 .. Len(events) : events'[i] = events[i]
    BY <1>5, <2>1, AppendProperties
  <2> QED BY <1>5, <2>2 DEF e, id
<1>12. /\ reported' \in Seq(Report \cup {Damaged}) /\ Len(reported') = id
       /\ reported'[id] = report
       /\ \A i \in 1 .. Len(reported) : reported'[i] = reported[i]
  <2>1. report \in Report \cup {Damaged}
    BY <1>0
  <2> QED BY <1>1, <1>5, <2>1, AppendProperties DEF id
<1>13. WriterTypeOK'
  <2>1. StackOf(report, "none") = <<>> /\ 0 \in 0 .. Len(<<>>)
    BY DEF StackOf
  <2>2. intact \in BOOLEAN /\ strays \in 0 .. MaxStrays
    BY DEF IInv, TypeOK, WriterTypeOK
  <2> QED BY <1>0, <1>1, <1>12, <2>1, <2>2 DEF WriterTypeOK, Section
<1>14. ParserTypeOK'
  <2>1. <<>> \in Seq(RaceEvent) /\ Len(<<>>) <= 1
    BY EmptySeq
  <2> QED BY <1>1, <1>7, <1>10, <1>11, <2>1 DEF ParserTypeOK, State
<1>15. Blocks' = id
  BY <1>2, <1>6, <1>12 DEF Blocks
<1>16. Synchronised'
  <2>1. state' = StateAt(section')
    BY <1>1, <1>10 DEF StateAt
  <2> HIDE DEF Blocks
  <2> QED BY <1>1, <1>2, <1>7, <1>10, <1>11, <1>12, <1>15, <2>1 DEF Synchronised
<1>17. EventsAreReports'
  <2>1. ASSUME NEW i \in 1 .. id, reported'[i] # Damaged
        PROVE  i <= Len(events') /\ events'[i] = EventOf(reported'[i], i)
    <3>1. CASE i \in 1 .. Len(reported)
      <4>1. reported[i] # Damaged
        BY <1>12, <2>1, <3>1
      <4>2. events[i] = EventOf(reported[i], i)
        BY <1>1, <3>1, <4>1 DEF IInv, EventsAreReports
      <4> QED BY <1>5, <1>11, <1>12, <2>1, <3>1, <4>2
    <3>2. CASE i = id
      BY <1>6, <1>11, <1>12, <3>2
    <3>3. i \in 1 .. Len(reported) \/ i = id
      BY <1>5 DEF id
    <3> QED BY <3>1, <3>2, <3>3
  <2> QED BY <1>12, <2>1 DEF EventsAreReports
<1>18. OneEventPerBlock'
  <2>1. Len(current') = 0
    BY <1>10, EmptySeq
  <2>2. Len(events') + Len(current') = id
    BY <1>6, <1>11, <2>1
  <2> QED BY <1>1, <1>10, <1>15, <2>2 DEF OneEventPerBlock
<1> QED BY <1>13, <1>14, <1>16, <1>17, <1>18 DEF IInv, TypeOK

LEMMA CloseDamagedIInv ==
  ASSUME IInv, ~intact, CloseReport
  PROVE  IInv'
<1>1. /\ section' = "none" /\ n' = 0 /\ line' = "func"
      /\ UNCHANGED <<report, intact, strays>> /\ reported' = Append(reported, Damaged)
      /\ ReadLine(Line("sep")) /\ section \in {"creationA", "creationB"}
  BY DEF CloseReport, Begin
<1>2. InReport /\ ~InReport'
  BY <1>1 DEF InReport
<1>3. reported \in Seq(Report \cup {Damaged}) /\ Len(reported) \in Nat
  BY LenProperties DEF IInv, TypeOK, WriterTypeOK
<1>4. /\ reported' \in Seq(Report \cup {Damaged})
      /\ Len(reported') = Len(reported) + 1
      /\ \A i \in 1 .. Len(reported) : reported'[i] = reported[i]
      /\ reported'[Len(reported) + 1] = Damaged
  <2>1. Damaged \in Report \cup {Damaged}
    OBVIOUS
  <2> QED BY <1>1, <1>3, <2>1, AppendProperties
<1>5. Len(reported') = Blocks
  BY <1>2, <1>4 DEF Blocks
<1>6. \A i \in 1 .. Len(reported') :
        reported'[i] # Damaged => i \in 1 .. Len(reported) /\ reported'[i] = reported[i]
  <2>1. \A i \in 1 .. Len(reported) + 1 : i \in 1 .. Len(reported) \/ i = Len(reported) + 1
    BY <1>3
  <2> QED BY <1>4, <2>1
<1>7. WriterTypeOK'
  <2>1. StackOf(report, "none") = <<>> /\ 0 \in 0 .. Len(<<>>)
    BY DEF StackOf
  <2>2. report \in Report /\ intact \in BOOLEAN /\ strays \in 0 .. MaxStrays
    BY DEF IInv, TypeOK, WriterTypeOK
  <2> QED BY <1>1, <1>4, <2>1, <2>2 DEF WriterTypeOK, Section
<1> QED BY <1>1, <1>2, <1>5, <1>6, <1>7, OutsideStep

(* The parser sees nothing of a death. *)
LEMMA KilledIInv ==
  ASSUME IInv, Killed
  PROVE  IInv'
<1>1. /\ result = "reading" /\ n' = 0 /\ line' = "func"
      /\ UNCHANGED <<report, intact, strays, reported, parserVars>>
      /\ \/ section = "open" /\ section' = "none"
         \/ Writing /\ section' = "cut"
  BY DEF Killed, InReport, Writing
<1>2. WriterTypeOK'
  BY <1>1, WriterBegins DEF Section
<1>3. ParserTypeOK'
  BY <1>1 DEF IInv, TypeOK, ParserTypeOK, parserVars
<1>4. (InReport' <=> InReport) /\ ~Writing'
  BY <1>1 DEF InReport, Writing
<1>5. Blocks' = Blocks
  BY <1>1, <1>4 DEF Blocks
<1> HIDE DEF Blocks
<1>6. Synchronised'
  BY <1>1, <1>4, <1>5 DEF IInv, Synchronised, parserVars
<1>7. EventsAreReports' /\ OneEventPerBlock'
  BY <1>1, <1>5 DEF IInv, EventsAreReports, OneEventPerBlock, parserVars
<1> QED BY <1>2, <1>3, <1>6, <1>7 DEF IInv, TypeOK

(* An open block is one more event; nothing is left after an error. *)
LEMMA EndIInv ==
  ASSUME IInv, End
  PROVE  IInv'
<1>1. UNCHANGED reportVars /\ result = "reading"
  BY DEF End, EndOfInput, LineTooLong
<1>2. WriterTypeOK'
  BY <1>1 DEF IInv, TypeOK, WriterTypeOK, reportVars
<1>3. /\ current \in Seq(RaceEvent) /\ Len(current) <= 1 /\ events \in Seq(RaceEvent)
      /\ Len(events) \in Nat /\ Len(current) \in Nat
  <2>1. current \in Seq(RaceEvent) /\ Len(current) <= 1 /\ events \in Seq(RaceEvent)
    BY DEF IInv, TypeOK, ParserTypeOK
  <2> QED BY <2>1, LenProperties
<1>4. CASE LineTooLong
  <2>1. <<>> \in Seq(RaceEvent)
    BY EmptySeq
  <2>2. ParserTypeOK'
    BY <1>4, <2>1 DEF LineTooLong, IInv, TypeOK, ParserTypeOK
  <2>3. Synchronised' /\ EventsAreReports' /\ OneEventPerBlock'
    BY <1>4 DEF LineTooLong, Synchronised, EventsAreReports, OneEventPerBlock
  <2> QED BY <1>2, <2>2, <2>3 DEF IInv, TypeOK
<1>5. CASE EndOfInput
  <2>1. /\ result' = "events" /\ UNCHANGED <<state, current, pendingFunc, idCounter>>
        /\ current = <<>> => events' = events
        /\ current # <<>> => events' = Append(events, current[1])
    BY <1>5 DEF EndOfInput
  <2>2. /\ events' \in Seq(RaceEvent) /\ Len(events') = Len(events) + Len(current)
        /\ \A i \in 1 .. Len(events) : events'[i] = events[i]
    <3>1. CASE current = <<>>
      <4>1. Len(current) = 0
        BY <3>1
      <4> QED BY <1>3, <2>1, <3>1, <4>1
    <3>2. CASE current # <<>>
      <4>1. Len(current) = 1
        <5>1. current = <<current[1]>> /\ current[1] \in RaceEvent
          BY <3>2, OpenEvent DEF IInv, TypeOK
        <5> QED BY <5>1, OneEvent
      <4>2. current[1] \in RaceEvent
        <5>1. 1 \in 1 .. Len(current)
          BY <4>1
        <5> QED BY <1>3, <5>1, ElementOfSeq
      <4> DEFINE e == current[1]
      <4> HIDE DEF e
      <4>3. e \in RaceEvent /\ events' = Append(events, e)
        BY <2>1, <3>2, <4>2 DEF e
      <4>4. /\ events' \in Seq(RaceEvent) /\ Len(events') = Len(events) + 1
            /\ \A i \in 1 .. Len(events) : events'[i] = events[i]
        BY <1>3, <4>3, AppendProperties
      <4> QED BY <4>1, <4>4
    <3> QED BY <3>1, <3>2
  <2>3. ParserTypeOK'
    BY <1>3, <2>1, <2>2 DEF IInv, TypeOK, ParserTypeOK
  <2>4. Synchronised'
    BY <2>1 DEF Synchronised
  <2>5. EventsAreReports'
    <3>1. Len(events) <= Len(events') /\ Len(events') \in Nat
      BY <1>3, <2>2
    <3>2. \A i \in 1 .. Len(reported) :
            reported[i] # Damaged => i <= Len(events) /\ events[i] = EventOf(reported[i], i)
      BY <1>1 DEF IInv, EventsAreReports
    <3>3. ASSUME NEW i \in 1 .. Len(reported), reported[i] # Damaged
          PROVE  i <= Len(events') /\ events'[i] = EventOf(reported[i], i)
      <4>1. i <= Len(events) /\ events[i] = EventOf(reported[i], i)
        BY <3>2, <3>3
      <4>2. i \in Nat /\ i >= 1
        OBVIOUS
      <4>3. i \in 1 .. Len(events) /\ i <= Len(events')
        BY <1>3, <3>1, <4>1, <4>2
      <4> QED BY <2>2, <4>1, <4>3
    <3> QED BY <1>1, <3>3 DEF EventsAreReports, reportVars
  <2>6. OneEventPerBlock'
    <3>1. Len(events) + Len(current) = Blocks
      BY <1>1 DEF IInv, OneEventPerBlock
    <3>2. Blocks' = Blocks
      BY <1>1 DEF Blocks, InReport, reportVars
    <3> HIDE DEF Blocks
    <3> QED BY <2>1, <2>2, <3>1, <3>2 DEF OneEventPerBlock
  <2> QED BY <1>2, <2>3, <2>4, <2>5, <2>6 DEF IInv, TypeOK
<1> QED BY <1>4, <1>5 DEF End

------------------------------------------------------------------------------
(* The invariant, and what it implies. *)

LEMMA InitIInv ==
  ASSUME Init
  PROVE  IInv
<1>1. /\ <<>> \in Seq(RaceEvent) /\ <<>> \in Seq(Report \cup {Damaged})
      /\ Len(<<>>) = 0 /\ Len(<<>>) <= 1
  BY EmptySeq
<1>2. ParserTypeOK
  BY <1>1 DEF Init, ParserInit, ParserTypeOK, State
<1>3. WriterTypeOK
  <2>1. StackOf(report, "none") = <<>> /\ 0 \in 0 .. Len(<<>>)
    BY DEF StackOf
  <2> QED BY <1>1, <2>1, ReportAssumption DEF Init, WriterTypeOK, Section
<1>4. Blocks = 0
  BY <1>1 DEF Init, Blocks, InReport
<1>5. Synchronised
  BY <1>1, <1>4 DEF Init, ParserInit, Synchronised, InReport, Writing
<1>6. EventsAreReports /\ OneEventPerBlock
  <2>1. events = <<>> /\ current = <<>> /\ reported = <<>> /\ result = "reading"
    BY DEF Init, ParserInit
  <2>2. 1 .. Len(reported) = {}
    BY <1>1, <2>1
  <2>3. EventsAreReports
    BY <2>2 DEF EventsAreReports
  <2>4. Len(events) + Len(current) = 0
    BY <1>1, <2>1
  <2>5. OneEventPerBlock
    BY <1>4, <2>1, <2>4 DEF OneEventPerBlock
  <2> QED BY <2>3, <2>5
<1> QED BY <1>2, <1>3, <1>5, <1>6 DEF IInv, TypeOK

LEMMA NextIInv ==
  ASSUME Main \notin Gid, IInv, [Next]_vars
  PROVE  IInv'
<1>1. CASE OpenReport
  BY <1>1, OpenIInv
<1>2. CASE WriteWarning
  BY <1>2, WarningIInv
<1>3. CASE WriteAccess
  BY <1>3, AccessIInv, DamagedReportIInv
<1>4. CASE WritePrevious
  BY <1>4, PreviousIInv, DamagedReportIInv
<1>5. CASE WriteCreationA
  BY <1>5, CreationAIInv, DamagedReportIInv
<1>6. CASE WriteCreationB
  BY <1>6, CreationBIInv, DamagedReportIInv
<1>7. CASE WriteFunc
  BY <1>7, FuncIInv, DamagedReportIInv
<1>8. CASE WriteFile
  BY <1>8, FileIInv, DamagedReportIInv
<1>9. CASE CloseReport
  BY <1>9, CloseIInv, CloseDamagedIInv
<1>10. CASE WriteOther
  BY <1>10, OtherIInv
<1>11. CASE End
  BY <1>11, EndIInv
<1>12. CASE Killed
  BY <1>12, KilledIInv
<1>13. CASE UNCHANGED vars
  BY <1>13 DEF IInv, TypeOK, ParserTypeOK, WriterTypeOK, Synchronised, EventsAreReports,
     OneEventPerBlock, Blocks, InReport, Writing, vars, parserVars, reportVars
<1> QED BY <1>1, <1>2, <1>3, <1>4, <1>5, <1>6, <1>7, <1>8, <1>9, <1>10, <1>11, <1>12,
     <1>13
     DEF Next

(* The invariant holds of every input without the main goroutine. *)
THEOREM Invariance ==
  ASSUME Main \notin Gid
  PROVE  Spec => []IInv
<1>1. Init => IInv
  BY InitIInv
<1>2. IInv /\ [Next]_vars => IInv'
  BY NextIInv
<1> QED BY <1>1, <1>2, PTL DEF Spec

(* Parser and writer keep their types (parser/race.go:76-226). *)
THEOREM TypeCorrect ==
  ASSUME Main \notin Gid
  PROVE  Spec => []TypeOK
<1>1. IInv => TypeOK
  BY DEF IInv
<1> QED BY <1>1, Invariance, PTL

(* A report that was written in full, with nothing among its lines that could be
   part of a report, is an event with its own goroutines, stacks and creation
   stacks, also after damaged ones; and between two reports there are no other
   events, whatever lines the program writes (race.go:60-68, 123-212). *)
THEOREM ParsedReports ==
  ASSUME Main \notin Gid
  PROVE  Spec => []ReportsAreParsed
<1>1. ASSUME IInv, result # "error"
      PROVE  /\ reported \in Seq(Report \cup {Damaged}) /\ events \in Seq(RaceEvent)
             /\ Len(reported) \in Nat /\ Len(events) \in Nat
             /\ DOMAIN reported = 1 .. Len(reported) /\ DOMAIN events = 1 .. Len(events)
  <2>1. reported \in Seq(Report \cup {Damaged}) /\ events \in Seq(RaceEvent)
    BY <1>1 DEF IInv, TypeOK, WriterTypeOK, ParserTypeOK
  <2> QED BY <2>1, LenProperties
<1>2. ASSUME IInv, section = "none", result # "error"
      PROVE  Len(events) = Len(reported)
  <2>1. Blocks = Len(reported)
    <3>1. ~InReport
      BY <1>2 DEF InReport
    <3> QED BY <1>1, <1>2, <3>1 DEF Blocks
  <2>2. CASE result = "reading"
    <3>1. current = <<>> /\ Len(events) + Len(current) = Blocks
      BY <1>2, <2>2 DEF IInv, Synchronised, OneEventPerBlock, InReport
    <3>2. Len(current) = 0
      BY <3>1, EmptySeq
    <3>3. Len(events) + Len(current) = Len(reported) /\ Len(events) \in Nat
      BY <1>1, <1>2, <2>1, <3>1
    <3> QED BY ONLY <3>2, <3>3
  <2>3. CASE result = "events"
    BY <1>2, <2>1, <2>3 DEF IInv, OneEventPerBlock
  <2>4. result \in {"reading", "events"}
    BY <1>2 DEF IInv, TypeOK, ParserTypeOK
  <2> QED BY <2>2, <2>3, <2>4
<1>3. ASSUME IInv, result # "error", NEW i \in DOMAIN reported, reported[i] # Damaged
      PROVE  i \in DOMAIN events /\ events[i] = EventOf(reported[i], i)
  <2>1. i \in 1 .. Len(reported)
    BY <1>1, <1>3
  <2>2. i <= Len(events) /\ events[i] = EventOf(reported[i], i)
    BY <1>3, <2>1 DEF IInv, EventsAreReports
  <2>3. i \in DOMAIN events
    BY <1>1, <1>3, <2>1, <2>2
  <2> QED BY <2>2, <2>3
<1>4. IInv => ReportsAreParsed
  BY <1>2, <1>3 DEF ReportsAreParsed
<1> QED BY <1>4, Invariance, PTL

(* One warning block, one event, wherever the input ends and whatever strays into
   the block (race.go:61, 127-142, 214-219). *)
THEOREM OneEventEachBlock ==
  ASSUME Main \notin Gid
  PROVE  Spec => []OneEventPerBlock
<1>1. IInv => OneEventPerBlock
  BY DEF IInv
<1> QED BY <1>1, Invariance, PTL
==============================================================================

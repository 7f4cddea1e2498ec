----------------------------- MODULE SourceReader -----------------------------
(***************************************************************************)
(* enrichWithSource (main.go:319-357) putting a piece of source next to    *)
(* every access of a race (source/reader.go), while the developer goes on  *)
(* saving the files.  A path is the sequence of its components, with ""    *)
(* before a leading slash; a line of source is a value of its own.         *)
(***************************************************************************)
EXTENDS Integers, SequencesExt

CONSTANTS
  Path,                 \* the paths in stack frames; <<"">> is the empty one
  Site,                 \* the tops of stacks: a path and a line number
  Files,                \* the files of this machine, by their absolute paths
  Cwd,                  \* the working directory, as a path
  GoRoot,               \* the variable GOROOT, as a path; <<>> if it is not set
  GoHomes,              \* the directories where Go is installed
  StartsWith,           \* pairs of components, the first beginning the second
  Text, Long,           \* lines of source, and one over the scanner's 64KB
  Source,               \* what a file may hold
  context,              \* lines shown above and below: 5 (main.go:328)
  MaxAccesses,          \* bound: accesses of the races
  MaxSaves,             \* bound: files saved during one enrichment
  None                  \* no frame, no (readable) file, no snippet

Absolute(p) == IF Head(p) = "" THEN p ELSE Cwd \o p

SourceLine == [number : Nat, content : Text, isRace : BOOLEAN]
Snippets   == [file : Seq(STRING), fullFile : Seq(STRING), raceLine : Nat \ {0},
               lines : Seq(SourceLine)]

ASSUME SourceAssumption ==
  /\ Path \subseteq Seq(STRING) \ {<<>>} /\ Cwd \in Seq(STRING)
  /\ GoHomes \subseteq Seq(STRING)
  /\ Site \subseteq Path \X Nat
  /\ Source \subseteq Seq(Text)
  /\ context \in Nat /\ MaxAccesses \in Nat /\ MaxSaves \in Nat
  /\ None \notin Site /\ None \notin Source /\ None \notin Snippets

VARIABLES
  disk,                 \* what each file holds now
  tops,                 \* the top frames of the accesses, in order
  snippets,             \* the snippets of the accesses done
  cache,                \* the sites looked up so far, with what was found
  pc,                   \* "lookup", "open", "scan"
  all,                  \* ReadSnippet's lines so far
  file,                 \* what is left of the open file
  saves,                \* files saved so far
  tested,               \* history: what the files held when the tests ran
  changed               \* history: the files saved since then

vars == <<disk, tops, snippets, cache, pc, all, file, saves, tested, changed>>

------------------------------------------------------------------------------
(* Paths (reader.go:120-221). *)

stdlibPrefixes ==
  {<<"", "usr", "lib", "go">>, <<"", "usr", "local", "go">>,
   <<"", "opt", "homebrew", "Cellar", "go">>}

(* GOROOT is a prefix of the text: its last component may go on. *)
UnderGoRoot(p) ==
  /\ GoRoot # <<>> /\ Len(GoRoot) <= Len(p)
  /\ IsPrefix(Front(GoRoot), p)
  /\ <<Last(GoRoot), p[Len(GoRoot)]>> \in StartsWith

isStdlib(p) ==
  \/ \E s \in stdlibPrefixes : IsStrictPrefix(s, p)
  \/ UnderGoRoot(p)
  \/ \E i \in 1 .. Len(p) - 1 : p[i] = "go" /\ p[i + 1] \in {"src", "pkg", "libexec"}

(* Whether a file is a part of Go, whatever isStdlib thinks of its path. *)
OfGo(p) == \E h \in GoHomes : IsStrictPrefix(h, Absolute(p))

displayPath(p) == IF Len(p) >= 2 THEN SubSeq(p, Len(p) - 1, Len(p)) ELSE p

------------------------------------------------------------------------------
(* The lines around line n of the lines l (reader.go:83-109). *)

AtLeast(i, j) == IF i < j THEN j ELSE i
AtMost(i, j)  == IF i > j THEN j ELSE i

(* Mutant: one line too few at the end. *)
LinesAroundShort(l, n) ==
  LET start == AtLeast(n - 1 - context, 0)
      end   == AtMost(n - 1 + context, Len(l))
  IN  [i \in 1 .. end - start |->
         [number |-> start + i, content |-> l[start + i], isRace |-> start + i = n]]

(* Mutant: the index, not the line number, is marked. *)
LinesAroundOff(l, n) ==
  LET start == AtLeast(n - 1 - context, 0)
      end   == AtMost(n + context, Len(l))
  IN  [i \in 1 .. end - start |->
         [number |-> start + i, content |-> l[start + i], isRace |-> start + i = n - 1]]

LinesAround(l, n) ==
  LET start == AtLeast(n - 1 - context, 0)
      end   == AtMost(n + context, Len(l))
  IN  [i \in 1 .. end - start |->
         [number |-> start + i, content |-> l[start + i], isRace |-> start + i = n]]

Snippet(p, n, l) ==
  [file |-> displayPath(Absolute(p)), fullFile |-> Absolute(p), raceLine |-> n,
   lines |-> LinesAround(l, n)]

TypeOK ==
  /\ disk \in [Files -> Source \cup {None}]
  /\ tops \in Seq(Site \cup {None})
  /\ snippets \in Seq(Snippets \cup {None}) /\ Len(snippets) <= Len(tops)
  /\ DOMAIN cache \subseteq Site
  /\ \A s \in DOMAIN cache : cache[s] \in Snippets \cup {None}
  /\ pc \in {"lookup", "open", "scan"}
  /\ pc # "lookup" => Len(snippets) < Len(tops) /\ tops[Len(snippets) + 1] \in Site
  /\ all \in Seq(Text) /\ file \in Seq(Text)
  /\ saves \in 0 .. MaxSaves
  /\ tested \in [Files -> Source \cup {None}]
  /\ changed \subseteq Files

Init ==
  /\ disk \in [Files -> Source \cup {None}]
  /\ tops \in [1 .. MaxAccesses -> Site \cup {None}]
  /\ snippets = <<>>
  /\ cache = <<>>
  /\ pc = "lookup"
  /\ all = <<>> /\ file = <<>>
  /\ saves = 0
  /\ tested = disk
  /\ changed = {}

------------------------------------------------------------------------------
(* What a file of the file system d holds, by a path. *)
Content(d, p) == IF Absolute(p) \in Files THEN d[Absolute(p)] ELSE None

top      == tops[Len(snippets) + 1]
topPath  == top[1]
topLine  == top[2]

Busy(c) == pc = c /\ Len(snippets) < Len(tops)

(* cache[s] = x. *)
With(c, s, x) == [t \in DOMAIN c \cup {s} |-> IF t = s THEN x ELSE c[t]]

(* The cached result s goes to the access, whatever the result is. *)
Give(s) ==
  /\ snippets' = Append(snippets, s)
  /\ pc' = "lookup"
  /\ all' = <<>> /\ file' = <<>>
  /\ UNCHANGED <<disk, tops, saves, tested, changed>>

(* Mutant: only what was found is cached. *)
ReturnFound(s) ==
  /\ cache' = IF s = None THEN cache ELSE With(cache, top, s)
  /\ Give(s)

(* ReadSnippet returns (an error comes with a nil snippet). *)
Return(s) ==
  /\ cache' = With(cache, top, s)
  /\ Give(s)

(* An empty stack, or a site that was looked up before. *)
Skip == Busy("lookup") /\ top = None /\ Give(None) /\ UNCHANGED cache
Hit  == Busy("lookup") /\ top \in DOMAIN cache /\ Give(cache[top]) /\ UNCHANGED cache

Miss == Busy("lookup") /\ top # None /\ top \notin DOMAIN cache

(* Mutant: without the check of the line number. *)
NotShownAnyLine(p, n) == p = <<"">> \/ isStdlib(p)

NotShown(p, n) == p = <<"">> \/ isStdlib(p) \/ n < 1

(* The early returns; resolveFile finds no file. *)
Refuse ==
  /\ Miss
  /\ NotShown(topPath, topLine) \/ Content(disk, topPath) = None
  /\ Return(None)

Resolve ==
  /\ Miss
  /\ ~NotShown(topPath, topLine) /\ Content(disk, topPath) # None
  /\ pc' = "open"
  /\ UNCHANGED <<disk, tops, snippets, cache, all, file, saves, tested, changed>>

Open ==
  /\ Busy("open")
  /\ Content(disk, topPath) # None
  /\ file' = Content(disk, topPath)
  /\ pc' = "scan"
  /\ UNCHANGED <<disk, tops, snippets, cache, all, saves, tested, changed>>

OpenFails ==
  /\ Busy("open")
  /\ Content(disk, topPath) = None
  /\ Return(None)

ScanLine ==
  /\ Busy("scan")
  /\ file # <<>> /\ Head(file) # Long
  /\ all' = Append(all, Head(file))
  /\ file' = Tail(file)
  /\ UNCHANGED <<disk, tops, snippets, cache, pc, saves, tested, changed>>

ScanFails ==
  /\ Busy("scan")
  /\ file # <<>> /\ Head(file) = Long
  /\ Return(None)

(* The end of the file: an empty one, or one too short for the line, is an
   error. *)
Finish ==
  /\ Busy("scan")
  /\ file = <<>>
  /\ Return(IF topLine > Len(all) THEN None ELSE Snippet(topPath, topLine, all))

Read == Skip \/ Hit \/ Refuse \/ Resolve \/ Open \/ OpenFails \/ ScanLine
          \/ ScanFails \/ Finish

(* A file is saved or removed.  A reader that has it open sees the rest of a
   save in place, but nothing of a file put in its place. *)
Save(f) ==
  /\ saves < MaxSaves
  /\ saves' = saves + 1
  /\ \E l \in Source \cup {None} :
       /\ disk' = [disk EXCEPT ![f] = l]
       /\ \/ UNCHANGED file
          \/ /\ pc = "scan" /\ Absolute(topPath) = f /\ l # None
             /\ file' = SubSeq(l, Len(all) + 1, Len(l))
  /\ changed' = changed \cup {f}
  /\ UNCHANGED <<tops, snippets, cache, pc, all, tested>>

Next == Read \/ \E f \in Files : Save(f)

Spec == Init /\ [][Next]_vars

------------------------------------------------------------------------------
(***************************************************************************)
(* main.go:321-334: accesses at one site show one snippet, or all none,    *)
(* however often the file is saved, removed or created between the races.  *)
(***************************************************************************)
SameSiteSameSnippet ==
  \A i, j \in DOMAIN snippets :
    tops[i] = tops[j] => snippets[i] = snippets[j]

(* The lines k of l that are to be shown with line n: k is near n. *)
Near(l, n) == {k \in 1 .. Len(l) : k <= n + context /\ n <= k + context}

Shows(s, l, n) ==
  /\ {s.lines[i].number : i \in DOMAIN s.lines} = Near(l, n)
  /\ \A i \in DOMAIN s.lines : s.lines[i].content = l[s.lines[i].number]

(* The line n of a file that was tested with the lines l can be shown. *)
Showable(l, n) ==
  /\ l # None
  /\ n \in 1 .. Len(l)
  /\ \A k \in DOMAIN l : l[k] # Long

(***************************************************************************)
(* reader.go:23-39: the source of a file that was not saved since the      *)
(* tests ran is shown as the tests ran it, if it can be: the line of the   *)
(* race and its neighbours, by their own numbers.  Nothing is shown of the *)
(* files of Go that isStdlib knows.  The property is silent on the files   *)
(* it takes for Go's and that are not: see UserSourceIsShown.              *)
(***************************************************************************)
TestedSourceIsShown ==
  \A i \in DOMAIN snippets : tops[i] # None =>
    LET p == tops[i][1]
        n == tops[i][2]
        l == Content(tested, p)
    IN  Absolute(p) \notin changed /\ (isStdlib(p) => OfGo(p)) =>
          IF p = <<"">> \/ isStdlib(p) \/ ~Showable(l, n)
          THEN snippets[i] = None
          ELSE snippets[i] # None /\ Shows(snippets[i], l, n)

(***************************************************************************)
(* reader.go:148-149: "Uses prefix/component matching rather than Contains *)
(* to avoid false positives": the developer's own source, which nobody     *)
(* saved since the tests ran, is shown.  (A run finds it violated: a user  *)
(* may keep a project below a directory go/src.)                           *)
(***************************************************************************)
UserSourceIsShown ==
  \A i \in DOMAIN snippets : tops[i] # None =>
    LET p == tops[i][1]
    IN  /\ ~OfGo(p) /\ Absolute(p) \notin changed
        /\ Showable(Content(tested, p), tops[i][2])
        => snippets[i] # None

(***************************************************************************)
(* reader.go:20: isRace "= this is the exact line the race was detected    *)
(* on": if the tests ran that line, the one that is marked is the same.    *)
(* (A run finds it violated: the file is read after the tests, as it is    *)
(* by then.)                                                               *)
(***************************************************************************)
MarkedLineIsTested ==
  \A i \in DOMAIN snippets : snippets[i] # None =>
    LET l == Content(tested, tops[i][1])
    IN  Showable(l, tops[i][2]) =>
          \A line \in Range(snippets[i].lines) :
            line.isRace => line.content = l[tops[i][2]]

(***************************************************************************)
(* reader.go:16-20: a snippet, also one of a file that was saved while it  *)
(* was read, is a run of lines that holds the line of the race, marked,    *)
(* and marks no other.                                                     *)
(***************************************************************************)
OneLineIsMarked ==
  \A i \in DOMAIN snippets : snippets[i] # None =>
    LET ls == snippets[i].lines
        n  == tops[i][2]
    IN  /\ Len(ls) \in 1 .. 2 * context + 1
        /\ \A k \in DOMAIN ls : ls[k].number = ls[1].number + k - 1
        /\ \E k \in DOMAIN ls : ls[k].number = n
        /\ \A k \in DOMAIN ls : ls[k].isRace <=> ls[k].number = n
==============================================================================

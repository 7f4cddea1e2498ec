--------------------------- MODULE SourceReaderProofs ---------------------------
(* Proofs about SourceReader, for any paths, files and lines of source, any
   context, and any number of accesses and saves. *)
EXTENDS SourceReader, SequenceTheorems, TLAPS

(* Every snippet given is what the cache holds for its site. *)
CacheIsGiven ==
  \A i \in 1 .. Len(snippets) :
    IF tops[i] = None THEN snippets[i] = None
    ELSE tops[i] \in DOMAIN cache /\ snippets[i] = cache[tops[i]]

(* A snippet of line n is a run of lines around it. *)
Marked(s, n) ==
  s # None =>
    /\ Len(s.lines) \in 1 .. 2 * context + 1
    /\ \A k \in DOMAIN s.lines : s.lines[k].number = s.lines[1].number + k - 1
    /\ \E k \in DOMAIN s.lines : s.lines[k].number = n
    /\ \A k \in DOMAIN s.lines : s.lines[k].isRace <=> s.lines[k].number = n

(* What a site is to be shown with, if its file is as it was tested and not
   taken for one of Go's. *)
Tested(s, site) ==
  LET p == site[1]
      n == site[2]
      l == Content(tested, p)
  IN  Absolute(p) \notin changed /\ (isStdlib(p) => OfGo(p)) =>
        IF p = <<"">> \/ isStdlib(p) \/ ~Showable(l, n)
        THEN s = None
        ELSE s # None /\ Shows(s, l, n)

CacheIsGood ==
  \A site \in DOMAIN cache : Marked(cache[site], site[2]) /\ Tested(cache[site], site)

DiskIsTested == \A f \in Files \ changed : disk[f] = tested[f]

(* A file that is read and was not saved is the one that was tested. *)
ReadingIsKnown ==
  /\ pc # "scan" => all = <<>>
  /\ pc \in {"open", "scan"} => top \notin DOMAIN cache /\ ~NotShown(topPath, topLine)
  /\ pc = "scan" =>
       /\ Absolute(topPath) \in Files
       /\ \A i \in 1 .. Len(all) : all[i] # Long
       /\ Absolute(topPath) \notin changed =>
            /\ tested[Absolute(topPath)] # None
            /\ tested[Absolute(topPath)] = all \o file

IInv ==
  /\ TypeOK
  /\ CacheIsGiven /\ CacheIsGood /\ DiskIsTested /\ ReadingIsKnown

------------------------------------------------------------------------------
(* The lines around line n are those from start + 1 to end, n among them. *)
LEMMA LinesAroundProperties ==
  ASSUME NEW l \in Seq(Text), NEW n \in 1 .. Len(l)
  PROVE  \E start \in 0 .. n - 1, end \in n .. Len(l) :
           /\ end - start <= 2 * context + 1
           /\ \A k \in 1 .. Len(l) :
                start < k /\ k <= end <=> k <= n + context /\ n <= k + context
           /\ LinesAround(l, n) \in Seq(SourceLine)
           /\ Len(LinesAround(l, n)) = end - start
           /\ \A i \in 1 .. end - start :
                LinesAround(l, n)[i] =
                  [number |-> start + i, content |-> l[start + i], isRace |-> start + i = n]
<1> DEFINE start == AtLeast(n - 1 - context, 0)
           end   == AtMost(n + context, Len(l))
           r == [i \in 1 .. end - start |->
                  [number |-> start + i, content |-> l[start + i], isRace |-> start + i = n]]
<1>1. Len(l) \in Nat /\ context \in Nat /\ \A k \in 1 .. Len(l) : l[k] \in Text
  BY SourceAssumption, ElementOfSeq, LenProperties
<1>2. /\ start \in 0 .. n - 1 /\ end \in n .. Len(l)
      /\ end - start <= 2 * context + 1
      /\ \A k \in 1 .. Len(l) :
           start < k /\ k <= end <=> k <= n + context /\ n <= k + context
  BY <1>1 DEF AtLeast, AtMost
<1>3. LinesAround(l, n) = r
  BY DEF LinesAround
<1> HIDE DEF start, end
<1>4. end - start \in Nat /\ \A i \in 1 .. end - start : start + i \in 1 .. Len(l)
  BY <1>1, <1>2
<1>5. ASSUME NEW i \in 1 .. end - start
      PROVE  [number |-> start + i, content |-> l[start + i], isRace |-> start + i = n]
               \in SourceLine
  <2>1. start + i \in Nat /\ l[start + i] \in Text /\ (start + i = n) \in BOOLEAN
    BY <1>1, <1>4
  <2> QED BY <2>1 DEF SourceLine
<1>6. r \in Seq(SourceLine) /\ Len(r) = end - start
  BY <1>4, <1>5
<1>7. \A i \in 1 .. end - start :
        r[i] = [number |-> start + i, content |-> l[start + i], isRace |-> start + i = n]
  OBVIOUS
<1> QED BY <1>2, <1>3, <1>6, <1>7

(* A snippet of l is one of the snippets, marks line n and shows l around it. *)
LEMMA SnippetProperties ==
  ASSUME NEW site \in Site, NEW l \in Seq(Text), site[2] \in 1 .. Len(l)
  PROVE  LET s == Snippet(site[1], site[2], l)
         IN  s \in Snippets /\ s # None /\ Marked(s, site[2]) /\ Shows(s, l, site[2])
<1> DEFINE p == site[1]
           n == site[2]
           s == Snippet(p, n, l)
<1>1. p \in Seq(STRING) /\ Len(p) \in Nat /\ n \in 1 .. Len(l)
  BY SourceAssumption, LenProperties
<1>2. Absolute(p) \in Seq(STRING)
  BY <1>1, SourceAssumption, ConcatProperties DEF Absolute
<1>3. displayPath(Absolute(p)) \in Seq(STRING)
  <2> DEFINE a == Absolute(p)
  <2>1. Len(a) \in Nat /\ \A i \in 1 .. Len(a) : a[i] \in STRING
    BY <1>2, ElementOfSeq, LenProperties
  <2> HIDE DEF a
  <2>2. ASSUME Len(a) >= 2
        PROVE  SubSeq(a, Len(a) - 1, Len(a)) \in Seq(STRING)
    <3>1. Len(a) - 1 \in Int /\ Len(a) \in Int /\ \A i \in Len(a) - 1 .. Len(a) : a[i] \in STRING
      BY <2>1, <2>2
    <3> QED BY <3>1, SubSeqProperties
  <2>3. a \in Seq(STRING)
    BY <1>2 DEF a
  <2> QED BY <2>2, <2>3 DEF displayPath, a
<1> HIDE DEF p, n
<1>4. PICK start \in 0 .. n - 1, end \in n .. Len(l) :
           /\ end - start <= 2 * context + 1
           /\ \A k \in 1 .. Len(l) :
                start < k /\ k <= end <=> k <= n + context /\ n <= k + context
           /\ LinesAround(l, n) \in Seq(SourceLine)
           /\ Len(LinesAround(l, n)) = end - start
           /\ \A i \in 1 .. end - start :
                LinesAround(l, n)[i] =
                  [number |-> start + i, content |-> l[start + i], isRace |-> start + i = n]
  BY <1>1, LinesAroundProperties
<1> DEFINE ls == LinesAround(l, n)
<1> HIDE DEF ls
<1>5. /\ ls \in Seq(SourceLine) /\ Len(ls) = end - start /\ DOMAIN ls = 1 .. end - start
      /\ \A i \in 1 .. end - start :
           /\ ls[i].number = start + i /\ ls[i].content = l[start + i]
           /\ ls[i].isRace <=> start + i = n
  <2>1. ls \in Seq(SourceLine) /\ Len(ls) = end - start /\ DOMAIN ls = 1 .. end - start
    BY <1>4, LenProperties DEF ls
  <2>2. ASSUME NEW i \in 1 .. end - start
        PROVE  /\ ls[i].number = start + i /\ ls[i].content = l[start + i]
               /\ ls[i].isRace <=> start + i = n
    <3>1. ls[i] = [number |-> start + i, content |-> l[start + i], isRace |-> start + i = n]
      BY <1>4 DEF ls
    <3>2. [number |-> start + i, content |-> l[start + i], isRace |-> start + i = n].isRace
            <=> start + i = n
      OBVIOUS
    <3>3. ls[i].isRace <=> start + i = n
      BY <3>1, <3>2, Zenon
    <3> QED BY <3>1, <3>3
  <2> QED BY <2>1, <2>2
<1>6. s = [file |-> displayPath(Absolute(p)), fullFile |-> Absolute(p), raceLine |-> n,
           lines |-> ls]
  BY DEF Snippet, ls
<1>7. n \in Nat \ {0} /\ Len(l) \in Nat /\ context \in Nat
  BY <1>1, SourceAssumption, LenProperties
<1>8. s \in Snippets /\ s # None
  BY <1>2, <1>3, <1>5, <1>6, <1>7, SourceAssumption DEF Snippets
<1> HIDE DEF s
<1>9. s.lines = ls
  BY <1>6
<1>10. Marked(s, n)
  <2>1. Len(ls) \in 1 .. 2 * context + 1
    BY <1>4, <1>5, <1>7
  <2>2. 1 \in DOMAIN ls /\ n - start \in DOMAIN ls /\ ls[n - start].number = n
    BY <1>5, <1>7
  <2>3. \A k \in DOMAIN ls : /\ ls[k].number = ls[1].number + k - 1
                             /\ ls[k].isRace <=> ls[k].number = n
    BY <1>5, <1>7
  <2> QED BY <1>9, <2>1, <2>2, <2>3 DEF Marked
<1>11. Shows(s, l, n)
  <2>1. ASSUME NEW k \in Near(l, n)
        PROVE  \E i \in DOMAIN ls : ls[i].number = k
    <3>1. k \in 1 .. Len(l) /\ start < k /\ k <= end
      BY <1>4 DEF Near
    <3>2. k - start \in DOMAIN ls /\ ls[k - start].number = k
      BY <3>1, <1>5, <1>7
    <3> QED BY <3>2
  <2>2. ASSUME NEW i \in DOMAIN ls
        PROVE  ls[i].number \in Near(l, n) /\ ls[i].content = l[ls[i].number]
    <3>1. ls[i].number = start + i /\ ls[i].content = l[start + i]
      BY <1>5
    <3>2. start + i \in 1 .. Len(l) /\ start < start + i /\ start + i <= end
      BY <1>5, <1>7
    <3> QED BY <1>4, <3>1, <3>2 DEF Near
  <2>3. {ls[i].number : i \in DOMAIN ls} = Near(l, n)
    BY <2>1, <2>2
  <2> QED BY <1>9, <2>2, <2>3 DEF Shows
<1> QED BY <1>8, <1>10, <1>11 DEF s, n, p

------------------------------------------------------------------------------
(* The types, as the steps need them. *)
LEMMA Typed ==
  ASSUME TypeOK
  PROVE  /\ disk \in [Files -> Source \cup {None}] /\ tested \in [Files -> Source \cup {None}]
         /\ tops \in Seq(Site \cup {None}) /\ snippets \in Seq(Snippets \cup {None})
         /\ Len(snippets) \in Nat /\ Len(tops) \in Nat /\ Len(snippets) <= Len(tops)
         /\ DOMAIN cache \subseteq Site
         /\ \A s \in DOMAIN cache : cache[s] \in Snippets \cup {None}
         /\ all \in Seq(Text) /\ file \in Seq(Text)
         /\ Len(all) \in Nat /\ Len(file) \in Nat
         /\ changed \subseteq Files
BY LenProperties DEF TypeOK

LEMMA TopTyped ==
  ASSUME TypeOK, Len(snippets) < Len(tops)
  PROVE  /\ top \in Site \cup {None}
         /\ top \in Site => /\ top # None /\ top[1] = topPath /\ top[2] = topLine
                             /\ topPath \in Path /\ topLine \in Nat
<1>1. Len(snippets) + 1 \in 1 .. Len(tops)
  BY Typed
<1>2. top \in Site \cup {None}
  BY <1>1, Typed, ElementOfSeq DEF top
<1> QED BY <1>2, SourceAssumption DEF topPath, topLine

LEMMA InitIInv == Init => IInv
<1> SUFFICES ASSUME Init PROVE IInv
  OBVIOUS
<1> USE SourceAssumption DEF Init
<1>1. tops \in Seq(Site \cup {None}) /\ Len(tops) = MaxAccesses
  BY SMT
<1>2. TypeOK
  BY <1>1 DEF TypeOK
<1>3. CacheIsGiven /\ CacheIsGood /\ DiskIsTested /\ ReadingIsKnown
  BY DEF CacheIsGiven, CacheIsGood, DiskIsTested, ReadingIsKnown
<1> QED BY <1>2, <1>3 DEF IInv

(* The next access gets a snippet that the cache has for its site. *)
LEMMA GiveIInv ==
  ASSUME IInv, Len(snippets) < Len(tops), NEW s \in Snippets \cup {None}, Give(s),
         IF top = None
         THEN s = None /\ UNCHANGED cache
         ELSE /\ top \in DOMAIN cache' /\ cache'[top] = s
              /\ DOMAIN cache' = DOMAIN cache \cup {top}
              /\ \A t \in DOMAIN cache : cache'[t] = cache[t]
              /\ Marked(s, topLine) /\ Tested(s, top)
  PROVE  IInv'
<1> DEFINE n == Len(snippets)
<1>0. TypeOK /\ CacheIsGiven /\ CacheIsGood /\ DiskIsTested /\ ReadingIsKnown
  BY DEF IInv
<1>1. /\ snippets' = Append(snippets, s) /\ pc' = "lookup" /\ all' = <<>> /\ file' = <<>>
      /\ UNCHANGED <<disk, tops, saves, tested, changed>>
  BY DEF Give
<1>2. /\ snippets' \in Seq(Snippets \cup {None}) /\ Len(snippets') = n + 1
      /\ \A i \in 1 .. n : snippets'[i] = snippets[i]
      /\ snippets'[n + 1] = s
  BY <1>0, <1>1, Typed, AppendProperties
<1>3. n \in Nat /\ Len(tops) \in Nat /\ n + 1 <= Len(tops)
  BY <1>0, Typed
<1>4. tops[n + 1] = top
  BY DEF top
<1>5. top \in Site \cup {None}
  BY <1>0, TopTyped
<1>6. TypeOK'
  <2>1. DOMAIN cache' \subseteq Site /\ \A t \in DOMAIN cache' : cache'[t] \in Snippets \cup {None}
    BY <1>0, <1>5, Typed
  <2> QED BY <1>0, <1>1, <1>2, <1>3, <2>1 DEF TypeOK
<1> HIDE DEF n
<1>7. CacheIsGiven'
  <2> SUFFICES ASSUME NEW i \in 1 .. n + 1
               PROVE  IF tops[i] = None THEN snippets'[i] = None
                      ELSE tops[i] \in DOMAIN cache' /\ snippets'[i] = cache'[tops[i]]
    BY <1>1, <1>2 DEF CacheIsGiven
  <2>1. CASE i = n + 1
    BY <1>2, <1>4, <2>1
  <2>2. CASE i \in 1 .. n
    BY <1>0, <1>2, <2>2 DEF CacheIsGiven, n
  <2> QED BY <1>3, <2>1, <2>2
<1>8. CacheIsGood'
  <2>0. \A x, t : Tested(x, t) => Tested(x, t)'
    BY ONLY <1>1 DEF Tested, Content
  <2> SUFFICES ASSUME NEW t \in DOMAIN cache'
               PROVE  Marked(cache'[t], t[2]) /\ Tested(cache'[t], t)
    BY <2>0 DEF CacheIsGood
  <2>1. CASE t \in DOMAIN cache
    <3>1. cache'[t] = cache[t]
      BY <2>1
    <3> QED BY <1>0, <2>1, <3>1 DEF CacheIsGood
  <2>2. CASE t \notin DOMAIN cache
    <3>1. t = top /\ top # None /\ cache'[t] = s
      BY <2>2
    <3> QED BY <3>1 DEF topLine
  <2> QED BY <2>1, <2>2
<1>9. DiskIsTested' /\ ReadingIsKnown'
  BY <1>0, <1>1 DEF DiskIsTested, ReadingIsKnown
<1> QED BY <1>6, <1>7, <1>8, <1>9 DEF IInv

LEMMA ReturnIInv ==
  ASSUME IInv, Len(snippets) < Len(tops), top # None, top \notin DOMAIN cache,
         NEW s \in Snippets \cup {None}, Return(s),
         Marked(s, topLine), Tested(s, top)
  PROVE  IInv'
<1>1. cache' = With(cache, top, s) /\ Give(s)
  BY DEF Return
<1>2. /\ DOMAIN cache' = DOMAIN cache \cup {top} /\ cache'[top] = s
      /\ \A t \in DOMAIN cache \ {top} : cache'[t] = cache[t]
  BY <1>1 DEF With
<1> QED BY <1>1, <1>2, GiveIInv

(* A step that leaves what was found alone. *)
LEMMA KeepIInv ==
  ASSUME IInv, TypeOK', UNCHANGED <<tops, snippets, cache, tested>>,
         changed \subseteq changed', DiskIsTested', ReadingIsKnown'
  PROVE  IInv'
<1>1. CacheIsGiven /\ CacheIsGood
  BY DEF IInv
<1>2. CacheIsGiven'
  BY <1>1 DEF CacheIsGiven
<1>3. CacheIsGood'
  <2>1. \A x, t : Tested(x, t) => Tested(x, t)'
    <3>1. tested' = tested /\ \A f : f \notin changed' => f \notin changed
      OBVIOUS
    <3> QED BY ONLY <3>1 DEF Tested, Content
  <2>2. cache' = cache
    OBVIOUS
  <2> QED BY ONLY <1>1, <2>1, <2>2 DEF CacheIsGood
<1> QED BY <1>2, <1>3 DEF IInv

(* A line that can be shown is one: lines are numbered from 1. *)
LEMMA LineIsPositive ==
  ASSUME NEW l, NEW n, Showable(l, n)
  PROVE  l # None /\ ~(n < 1)
<1>1. n \in 1 .. Len(l) /\ l # None
  BY DEF Showable
<1> QED BY <1>1

(* A top that is looked up again was no longer in its place, or not shown. *)
LEMMA NothingTested ==
  ASSUME DiskIsTested, top \in Site,
         NotShown(top[1], top[2]) \/ Content(disk, top[1]) = None
  PROVE  Marked(None, topLine) /\ Tested(None, top)
<1>1. Marked(None, topLine)
  BY DEF Marked
<1>2. Tested(None, top)
  <2> SUFFICES ASSUME Absolute(top[1]) \notin changed,
                      Showable(Content(tested, top[1]), top[2])
               PROVE  top[1] = <<"">> \/ isStdlib(top[1])
    BY Zenon DEF Tested
  <2>1. Content(tested, top[1]) # None /\ ~(top[2] < 1)
    BY LineIsPositive
  <2>2. Absolute(top[1]) \in Files
    BY <2>1 DEF Content
  <2>3. Content(disk, top[1]) # None
    BY <2>1, <2>2 DEF Content, DiskIsTested
  <2> QED BY <2>1, <2>3, Zenon DEF NotShown
<1> QED BY <1>1, <1>2

LEMMA LookupIInv ==
  ASSUME IInv, Skip \/ Hit \/ Refuse \/ Resolve
  PROVE  IInv'
<1>0. TypeOK /\ CacheIsGood /\ DiskIsTested /\ ReadingIsKnown
  BY DEF IInv
<1>1. CASE Skip
  BY <1>1, GiveIInv DEF Skip, Busy
<1>2. CASE Hit
  <2>1. /\ Len(snippets) < Len(tops) /\ top \in DOMAIN cache /\ Give(cache[top])
        /\ UNCHANGED cache
    BY <1>2 DEF Hit, Busy
  <2>2. cache[top] \in Snippets \cup {None} /\ top \in Site /\ top # None
    BY <1>0, <2>1, Typed, SourceAssumption
  <2>3. Marked(cache[top], topLine) /\ Tested(cache[top], top)
    BY <1>0, <2>1 DEF CacheIsGood, topLine
  <2> QED BY <2>1, <2>2, <2>3, GiveIInv
<1>3. CASE Refuse
  <2>1. Len(snippets) < Len(tops) /\ top # None /\ top \notin DOMAIN cache /\ Return(None)
    BY <1>3 DEF Refuse, Miss, Busy
  <2>2. top \in Site /\ topPath = top[1] /\ topLine = top[2]
    BY <1>0, <2>1, TopTyped
  <2>3. Marked(None, topLine) /\ Tested(None, top)
    BY <1>0, <1>3, <2>2, NothingTested DEF Refuse
  <2> QED BY <2>1, <2>3, ReturnIInv
<1>4. CASE Resolve
  <2>1. /\ pc' = "open" /\ ~NotShown(topPath, topLine)
        /\ Len(snippets) < Len(tops) /\ top # None /\ top \notin DOMAIN cache
        /\ UNCHANGED <<disk, tops, snippets, cache, all, file, saves, tested, changed>>
    BY <1>4 DEF Resolve, Miss, Busy
  <2>2. top \in Site
    BY <1>0, <2>1, TopTyped
  <2>3. TypeOK'
    BY <1>0, <2>1, <2>2 DEF TypeOK, top
  <2>4. ReadingIsKnown'
    <3>1. all = <<>>
      BY <1>0, <1>4 DEF ReadingIsKnown, Resolve, Miss, Busy
    <3> QED BY <2>1, <3>1 DEF ReadingIsKnown, topPath, topLine, top
  <2>5. DiskIsTested'
    BY <1>0, <2>1 DEF DiskIsTested
  <2> QED BY <2>1, <2>3, <2>4, <2>5, KeepIInv
<1> QED BY <1>1, <1>2, <1>3, <1>4

(* The site of the access that is being read. *)
LEMMA TopRead ==
  ASSUME IInv, Busy("open") \/ Busy("scan")
  PROVE  /\ Len(snippets) < Len(tops) /\ top \in Site /\ top # None
         /\ topPath = top[1] /\ topLine = top[2] /\ topLine \in Nat \ {0}
         /\ ~NotShown(top[1], top[2])
<1>1. TypeOK /\ ReadingIsKnown /\ pc \in {"open", "scan"} /\ Len(snippets) < Len(tops)
  BY DEF IInv, Busy
<1>2. top \in Site
  BY <1>1 DEF TypeOK, top
<1>3. topPath = top[1] /\ topLine = top[2] /\ topLine \in Nat /\ top # None
  BY <1>1, <1>2, TopTyped
<1>4. ~NotShown(topPath, topLine)
  BY <1>1 DEF ReadingIsKnown
<1>5. topLine # 0
  <2>1. ~(topLine < 1)
    BY <1>4, Zenon DEF NotShown
  <2> QED BY <1>3, <2>1
<1> QED BY <1>1, <1>2, <1>3, <1>4, <1>5

LEMMA OpenIInv ==
  ASSUME IInv, Open \/ OpenFails
  PROVE  IInv'
<1>0. TypeOK /\ DiskIsTested /\ ReadingIsKnown /\ Busy("open")
  BY DEF IInv, Open, OpenFails
<1>1. CASE Open
  <2>1. /\ Content(disk, topPath) # None /\ file' = Content(disk, topPath) /\ pc' = "scan"
        /\ UNCHANGED <<disk, tops, snippets, cache, all, saves, tested, changed>>
    BY <1>1 DEF Open
  <2> DEFINE f == Absolute(topPath)
  <2>2. f \in Files /\ disk[f] # None /\ file' = disk[f]
    BY <2>1 DEF Content
  <2>3. file' \in Seq(Text)
    BY <1>0, <2>2, Typed, SourceAssumption
  <2>4. UNCHANGED <<topPath, topLine>>
    BY <2>1 DEF topPath, topLine, top
  <2>5. all = <<>> /\ TypeOK'
    <3>1. pc # "lookup" /\ pc = "open" /\ all = <<>>
      BY <1>0 DEF Busy, ReadingIsKnown
    <3> QED BY <1>0, <2>1, <2>3, <3>1 DEF TypeOK
  <2>6. ReadingIsKnown'
    <3> HIDE DEF f
    <3>1. all' = <<>> /\ all' \o file' = file'
      BY <2>1, <2>3, <2>5
    <3>2. f \notin changed => tested[f] = disk[f]
      BY <1>0, <2>2 DEF DiskIsTested
    <3>3. top' \notin DOMAIN cache' /\ ~NotShown(topPath, topLine)
      BY <1>0, <2>1 DEF ReadingIsKnown, Busy, top
    <3>4. \A i \in 1 .. Len(all') : all'[i] # Long
      BY <3>1
    <3> QED BY <2>1, <2>2, <2>4, <3>1, <3>2, <3>3, <3>4 DEF ReadingIsKnown, f
  <2>7. DiskIsTested'
    BY <1>0, <2>1 DEF DiskIsTested
  <2> QED BY <2>1, <2>5, <2>6, <2>7, KeepIInv
<1>2. CASE OpenFails
  <2>1. top \notin DOMAIN cache
    BY <1>0 DEF ReadingIsKnown, Busy
  <2>2. Content(disk, topPath) = None /\ Return(None)
    BY <1>2 DEF OpenFails
  <2>3. Marked(None, topLine) /\ Tested(None, top)
    BY <1>0, <2>2, TopRead, NothingTested
  <2> QED BY <1>0, <2>1, <2>2, <2>3, TopRead, ReturnIInv
<1> QED BY <1>1, <1>2

(* The lines read, and those left. *)
LEMMA ScanOne ==
  ASSUME NEW a \in Seq(Text), NEW r \in Seq(Text), r # <<>>
  PROVE  Append(a, Head(r)) \o Tail(r) = a \o r
<1> DEFINE h == Head(r)
           t == Tail(r)
           b == Append(a, h)
<1>1. /\ h \in Text /\ t \in Seq(Text) /\ Len(t) = Len(r) - 1 /\ h = r[1]
      /\ \A i \in 1 .. Len(t) : t[i] = r[i + 1]
  BY HeadTailProperties
<1>2. Len(a) \in Nat /\ Len(r) \in Nat \ {0}
  BY LenProperties, EmptySeq
<1> HIDE DEF h, t
<1>3. /\ b \in Seq(Text) /\ Len(b) = Len(a) + 1 /\ b[Len(a) + 1] = h
      /\ \A i \in 1 .. Len(a) : b[i] = a[i]
  BY <1>1, AppendProperties
<1> HIDE DEF b
<1>4. /\ b \o t \in Seq(Text) /\ Len(b \o t) = Len(b) + Len(t)
      /\ \A i \in 1 .. Len(b) + Len(t) :
           (b \o t)[i] = IF i <= Len(b) THEN b[i] ELSE t[i - Len(b)]
  BY <1>1, <1>3, ConcatProperties
<1>5. /\ a \o r \in Seq(Text) /\ Len(a \o r) = Len(a) + Len(r)
      /\ \A i \in 1 .. Len(a) + Len(r) :
           (a \o r)[i] = IF i <= Len(a) THEN a[i] ELSE r[i - Len(a)]
  BY ConcatProperties
<1> DEFINE x == b \o t
           y == a \o r
           m == Len(a)
<1>6. ASSUME NEW i \in 1 .. m + Len(r)
      PROVE  x[i] = y[i]
  <2>1. /\ m \in Nat /\ Len(r) \in Nat /\ Len(b) = m + 1 /\ Len(t) = Len(r) - 1
        /\ i \in Int
    BY <1>1, <1>2, <1>3
  <2>2. /\ x[i] = IF i <= m + 1 THEN b[i] ELSE t[i - (m + 1)]
        /\ y[i] = IF i <= m THEN a[i] ELSE r[i - m]
    <3>1. i \in 1 .. Len(b) + Len(t) /\ i \in 1 .. Len(a) + Len(r)
      BY <2>1
    <3>2. x[i] = IF i <= Len(b) THEN b[i] ELSE t[i - Len(b)]
      BY <1>4, <3>1
    <3>3. y[i] = IF i <= Len(a) THEN a[i] ELSE r[i - Len(a)]
      BY <1>5, <3>1
    <3> HIDE DEF x, y
    <3> QED BY <2>1, <3>2, <3>3
  <2>3. CASE i <= m
    BY <1>3, <2>1, <2>2, <2>3
  <2>4. CASE i = m + 1
    <3>1. y[i] = r[1] /\ x[i] = h
      BY <1>3, <2>1, <2>2, <2>4
    <3> QED BY <1>1, <3>1
  <2>5. CASE i > m + 1
    <3>1. /\ i - (m + 1) \in 1 .. Len(t) /\ (i - (m + 1)) + 1 = i - m
          /\ ~(i <= m + 1) /\ ~(i <= m)
      BY <2>1, <2>5
    <3>2. x[i] = t[i - (m + 1)] /\ y[i] = r[i - m]
      BY <2>2, <3>1
    <3> HIDE DEF x, y, m
    <3>3. t[i - (m + 1)] = r[(i - (m + 1)) + 1]
      BY <1>1, <3>1
    <3> QED BY <3>1, <3>2, <3>3
  <2>6. i <= m \/ i = m + 1 \/ i > m + 1
    BY <2>1
  <2> HIDE DEF x, y, m
  <2> QED BY <2>3, <2>4, <2>5, <2>6
<1>7. b \o t = a \o r
  <2>1. x \in Seq(Text) /\ y \in Seq(Text) /\ Len(x) = Len(y) /\ Len(x) = m + Len(r)
    BY <1>1, <1>2, <1>3, <1>4, <1>5
  <2> HIDE DEF x, y, m
  <2>2. x = y
    BY <1>6, <2>1, SeqEqual
  <2> QED BY <2>2 DEF x, y
<1> QED BY <1>7 DEF b, h, t

LEMMA ScanLineIInv ==
  ASSUME IInv, ScanLine
  PROVE  IInv'
<1>0. TypeOK /\ DiskIsTested /\ ReadingIsKnown /\ Busy("scan")
  BY DEF IInv, ScanLine
<1>1. /\ file # <<>> /\ Head(file) # Long
      /\ all' = Append(all, Head(file)) /\ file' = Tail(file)
      /\ UNCHANGED <<disk, tops, snippets, cache, pc, saves, tested, changed>>
  BY DEF ScanLine
<1>2. all \in Seq(Text) /\ file \in Seq(Text) /\ Len(all) \in Nat
  BY <1>0, Typed
<1>3. Head(file) \in Text /\ file' \in Seq(Text)
  BY <1>1, <1>2, HeadTailProperties
<1>4. /\ all' \in Seq(Text) /\ Len(all') = Len(all) + 1
      /\ \A i \in 1 .. Len(all) : all'[i] = all[i]
      /\ all'[Len(all) + 1] = Head(file)
  BY <1>1, <1>2, <1>3, AppendProperties
<1>5. TypeOK'
  BY <1>0, <1>1, <1>3, <1>4 DEF TypeOK
<1>6. all' \o file' = all \o file
  BY <1>1, <1>2, ScanOne
<1>7. ReadingIsKnown'
  <2>1. UNCHANGED <<topPath, topLine, top>>
    BY <1>1 DEF topPath, topLine, top
  <2>2. \A i \in 1 .. Len(all') : all'[i] # Long
    <3>1. \A i \in 1 .. Len(all) : all[i] # Long
      BY <1>0 DEF ReadingIsKnown, Busy
    <3> QED BY <1>1, <1>2, <1>4, <3>1
  <2>3. pc = "scan" /\ pc' = "scan"
    BY <1>0, <1>1 DEF Busy
  <2> QED BY <1>0, <1>1, <1>6, <2>1, <2>2, <2>3 DEF ReadingIsKnown
<1>8. DiskIsTested'
  BY <1>0, <1>1 DEF DiskIsTested
<1> QED BY <1>1, <1>5, <1>7, <1>8, KeepIInv

(* What is read of a file that was not saved is what was tested. *)
LEMMA ReadTested ==
  ASSUME IInv, Busy("scan"), Absolute(top[1]) \notin changed
  PROVE  /\ Content(tested, top[1]) # None
         /\ Content(tested, top[1]) = all \o file
         /\ \A i \in 1 .. Len(all) : all[i] # Long
BY TopRead DEF IInv, ReadingIsKnown, Busy, Content

LEMMA ScanFailsIInv ==
  ASSUME IInv, ScanFails
  PROVE  IInv'
<1>0. TypeOK /\ ReadingIsKnown /\ Busy("scan") /\ pc = "scan" /\ Return(None)
      /\ file # <<>> /\ Head(file) = Long
  BY DEF IInv, ScanFails, Busy
<1>1. all \in Seq(Text) /\ file \in Seq(Text) /\ Len(all) \in Nat /\ Len(file) \in Nat \ {0}
  BY <1>0, Typed, EmptySeq
<1>2. Marked(None, topLine)
  BY DEF Marked
<1>3. Tested(None, top)
  <2> SUFFICES ASSUME Absolute(top[1]) \notin changed
               PROVE  \E k \in DOMAIN Content(tested, top[1]) : Content(tested, top[1])[k] = Long
    BY Zenon DEF Tested, Showable
  <2> DEFINE k == Len(all) + 1
  <2>1. /\ all \o file \in Seq(Text) /\ Len(all \o file) = Len(all) + Len(file)
        /\ (all \o file)[k] = IF k <= Len(all) THEN all[k] ELSE file[k - Len(all)]
    BY <1>1, ConcatProperties
  <2>2. k \in DOMAIN (all \o file) /\ (all \o file)[k] = file[1] /\ file[1] = Long
    BY <1>0, <1>1, <2>1
  <2> QED BY <1>0, <2>2, ReadTested
<1>4. top \notin DOMAIN cache
  BY <1>0 DEF ReadingIsKnown
<1> QED BY <1>0, <1>2, <1>3, <1>4, TopRead, ReturnIInv

LEMMA FinishIInv ==
  ASSUME IInv, Finish
  PROVE  IInv'
<1> DEFINE s == IF topLine > Len(all) THEN None ELSE Snippet(topPath, topLine, all)
<1>0. /\ TypeOK /\ ReadingIsKnown /\ Busy("scan") /\ pc = "scan" /\ Return(s)
      /\ file = <<>> /\ all \in Seq(Text) /\ Len(all) \in Nat
  BY Typed DEF IInv, Finish, Busy
<1>1. /\ Len(snippets) < Len(tops) /\ top \in Site /\ top # None
      /\ topPath = top[1] /\ topLine = top[2] /\ topLine \in Nat \ {0}
      /\ ~NotShown(top[1], top[2])
  BY <1>0, TopRead
<1>2. top \notin DOMAIN cache
  BY <1>0 DEF ReadingIsKnown
<1>3. Absolute(top[1]) \notin changed =>
        /\ Content(tested, top[1]) # None /\ Content(tested, top[1]) = all
        /\ \A i \in DOMAIN all : all[i] # Long
  <2>1. all \o file = all /\ DOMAIN all = 1 .. Len(all)
    BY <1>0, LenProperties
  <2> QED BY <1>0, <2>1, ReadTested
<1>4. CASE topLine > Len(all)
  <2>1. s = None
    BY <1>4
  <2>2. Marked(s, topLine)
    BY <2>1 DEF Marked
  <2>3. Absolute(top[1]) \notin changed => ~Showable(Content(tested, top[1]), top[2])
    BY <1>0, <1>1, <1>3, <1>4 DEF Showable
  <2>4. Tested(s, top)
    BY <2>1, <2>3, Zenon DEF Tested
  <2> QED BY <1>0, <1>1, <1>2, <2>1, <2>2, <2>4, ReturnIInv
<1>5. CASE ~(topLine > Len(all))
  <2>1. s = Snippet(top[1], top[2], all) /\ top[2] \in 1 .. Len(all)
    BY <1>0, <1>1, <1>5
  <2>2. s \in Snippets /\ s # None /\ Marked(s, top[2]) /\ Shows(s, all, top[2])
    BY <1>0, <1>1, <2>1, SnippetProperties
  <2> HIDE DEF s
  <2>3. top[1] # <<"">> /\ ~isStdlib(top[1])
    BY <1>1, Zenon DEF NotShown
  <2>4. Absolute(top[1]) \notin changed =>
          /\ Content(tested, top[1]) = all
          /\ Showable(Content(tested, top[1]), top[2])
    <3>1. DOMAIN all = 1 .. Len(all)
      BY <1>0, LenProperties
    <3> QED BY <1>3, <2>1, <3>1 DEF Showable
  <2>5. Tested(s, top)
    BY <2>2, <2>3, <2>4, Zenon DEF Tested
  <2> QED BY <1>0, <1>1, <1>2, <2>2, <2>5, ReturnIInv
<1> QED BY <1>4, <1>5

(* A save may change what is left of the open file, but only of the file that
   then counts as changed. *)
LEMMA SaveIInv ==
  ASSUME IInv, NEW f \in Files, Save(f)
  PROVE  IInv'
<1>0. TypeOK /\ DiskIsTested /\ ReadingIsKnown
  BY DEF IInv
<1>1. PICK l \in Source \cup {None} :
        /\ disk' = [disk EXCEPT ![f] = l]
        /\ \/ UNCHANGED file
           \/ /\ pc = "scan" /\ Absolute(topPath) = f /\ l # None
              /\ file' = SubSeq(l, Len(all) + 1, Len(l))
  BY DEF Save
<1>2. /\ saves < MaxSaves /\ saves' = saves + 1 /\ changed' = changed \cup {f}
      /\ UNCHANGED <<tops, snippets, cache, pc, all, tested>>
  BY DEF Save
<1>3. disk' \in [Files -> Source \cup {None}] /\ \A g \in Files \ {f} : disk'[g] = disk[g]
  BY <1>0, <1>1, Typed
<1>4. file' \in Seq(Text) /\ Len(all) \in Nat
  <2>1. file \in Seq(Text) /\ Len(all) \in Nat
    BY <1>0, Typed
  <2>2. ASSUME l # None
        PROVE  SubSeq(l, Len(all) + 1, Len(l)) \in Seq(Text)
    <3>1. l \in Seq(Text)
      BY <2>2, SourceAssumption
    <3>2. Len(l) \in Nat /\ \A i \in 1 .. Len(l) : l[i] \in Text
      BY <3>1, ElementOfSeq, LenProperties
    <3>3. /\ Len(all) + 1 \in Int /\ Len(l) \in Int
          /\ \A i \in Len(all) + 1 .. Len(l) : l[i] \in Text
      BY <2>1, <3>2
    <3> QED BY <3>3, SubSeqProperties
  <2> QED BY <1>1, <2>1, <2>2
<1>5. TypeOK'
  <2>1. saves' \in 0 .. MaxSaves
    BY <1>0, <1>2, SourceAssumption DEF TypeOK
  <2> QED BY <1>0, <1>2, <1>3, <1>4, <2>1 DEF TypeOK
<1>6. DiskIsTested'
  BY <1>0, <1>2, <1>3 DEF DiskIsTested
<1>7. ReadingIsKnown'
  <2>1. UNCHANGED <<topPath, topLine, top>>
    BY <1>2 DEF topPath, topLine, top
  <2> QED BY <1>0, <1>1, <1>2, <2>1 DEF ReadingIsKnown
<1> QED BY <1>2, <1>5, <1>6, <1>7, KeepIInv

LEMMA NextIInv == IInv /\ [Next]_vars => IInv'
<1>1. ASSUME IInv, UNCHANGED vars
      PROVE  IInv'
  <2>1. UNCHANGED <<disk, tops, snippets, cache, pc, all, file, saves, tested, changed>>
    BY <1>1 DEF vars
  <2>2. TypeOK' /\ DiskIsTested' /\ ReadingIsKnown'
    BY <1>1, <2>1 DEF IInv, TypeOK, DiskIsTested, ReadingIsKnown, topPath, topLine, top
  <2> QED BY <1>1, <2>1, <2>2, KeepIInv
<1> QED BY <1>1, LookupIInv, OpenIInv, ScanLineIInv, ScanFailsIInv, FinishIInv, SaveIInv
        DEF Next, Read

LEMMA Invariance == Spec => []IInv
BY InitIInv, NextIInv, PTL DEF Spec

------------------------------------------------------------------------------
(* TypeOK of SourceReader. *)
THEOREM TypeCorrect == Spec => []TypeOK
BY Invariance, PTL DEF IInv

(* SameSiteSameSnippet: both accesses have what the cache holds (main.go:326),
   and no entry of the cache is ever replaced. *)
THEOREM SameSnippets == Spec => []SameSiteSameSnippet
<1>1. IInv => SameSiteSameSnippet
  <2> SUFFICES ASSUME IInv, NEW i \in DOMAIN snippets, NEW j \in DOMAIN snippets,
                      tops[i] = tops[j]
               PROVE  snippets[i] = snippets[j]
    BY DEF SameSiteSameSnippet
  <2>1. DOMAIN snippets = 1 .. Len(snippets)
    BY LenProperties DEF IInv, TypeOK
  <2> QED BY <2>1 DEF IInv, CacheIsGiven
<1> QED BY <1>1, Invariance, PTL

(* TestedSourceIsShown, for files the developer leaves alone and isStdlib does
   not take for Go's by mistake. *)
THEOREM TestedIsShown == Spec => []TestedSourceIsShown
<1>1. IInv => TestedSourceIsShown
  <2> SUFFICES ASSUME IInv, NEW i \in DOMAIN snippets, tops[i] # None
               PROVE  Tested(snippets[i], tops[i])
    BY DEF TestedSourceIsShown, Tested
  <2>1. DOMAIN snippets = 1 .. Len(snippets)
    BY LenProperties DEF IInv, TypeOK
  <2> QED BY <2>1 DEF IInv, CacheIsGiven, CacheIsGood
<1> QED BY <1>1, Invariance, PTL

(* OneLineIsMarked, also for files that are saved while they are read. *)
THEOREM OneMark == Spec => []OneLineIsMarked
<1>1. IInv => OneLineIsMarked
  <2> SUFFICES ASSUME IInv, NEW i \in DOMAIN snippets, snippets[i] # None
               PROVE  Marked(snippets[i], tops[i][2])
    BY DEF OneLineIsMarked, Marked
  <2>1. DOMAIN snippets = 1 .. Len(snippets)
    BY LenProperties DEF IInv, TypeOK
  <2> QED BY <2>1 DEF IInv, CacheIsGiven, CacheIsGood
<1> QED BY <1>1, Invariance, PTL
==============================================================================

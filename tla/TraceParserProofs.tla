-------------------------- MODULE TraceParserProofs --------------------------
(* Proofs about TraceParser, for any goroutines, stacks and number of events:
   what is recorded of a trace and what is read of the stacks of a birth. *)
EXTENDS TraceParser, SequenceTheorems, WellFoundedInduction, TLAPS

Line == [kind : {"TransitionStack", "Stack", "empty", "func", "file", "asm"},
         fn : Func \cup {None}]

SectionLen(frames) == IF frames = <<>> THEN 0 ELSE 2 * Len(frames) + 2
LinesLen(x)        == SectionLen(x.trans) + SectionLen(x.stack)

(* The event that is read, and how many of its lines were. *)
e == written[Len(written)]
c == LinesLen(e) - Len(todo)

(* The frame that the lines of f make. *)
FrameOf(f)          == [fn |-> f.fn, file |-> IF f.go THEN f.fn ELSE None]
FramesOf(frames, n) == [k \in 1 .. n |-> FrameOf(frames[k])]

(* The creation that the lines of x make. *)
CreationRead(x) ==
  BuildCreation(FramesOf(x.trans, Len(x.trans)), FramesOf(x.stack, Len(x.stack)), x.header.by)

(* The first frame of a section, or nothing, is read; the function of frame j
   is; its file is too, or it has none. *)
Begun(read, l) == read = <<>> /\ l = NothingRead

FuncRead(frames, read, l, j) ==
  read = FramesOf(frames, j - 1) /\ l = [fn |-> frames[j].fn, file |-> None]

FileRead(frames, read, l, j) ==
  IF frames[j].go THEN read = FramesOf(frames, j) /\ l = NothingRead
  ELSE FuncRead(frames, read, l, j)

Ended(frames, read, l) == read = FramesOf(frames, Len(frames)) /\ l = NothingRead

(* What d lines of a section of frames leave in its list and in last. *)
SectionRead(frames, read, l, d) ==
  /\ d \in {0, 1} => Begun(read, l)
  /\ d = SectionLen(frames) => Ended(frames, read, l)
  /\ \A j \in DOMAIN frames :
       /\ d = 2 * j     => FuncRead(frames, read, l, j)
       /\ d = 2 * j + 1 => FileRead(frames, read, l, j)

------------------------------------------------------------------------------
(* Numbers: a set of them has a least one, and a line is a func or a file. *)

LEMMA Least ==
  ASSUME NEW S \in SUBSET Nat, S # {}
  PROVE  \E m \in S : \A n \in S : m <= n
<1>1. PICK m \in S : \A n \in S : ~ (<<n, m>> \in OpToRel(<, Nat))
  BY NatLessThanWellFounded, WFMin
<1>2. ASSUME NEW n \in S PROVE m <= n
  <2>1. n \in Nat /\ m \in Nat
    OBVIOUS
  <2>2. ~(n < m)
    BY <1>1, <2>1 DEF OpToRel
  <2> QED BY <2>1, <2>2
<1> QED BY <1>2

LEMMA MinProperties ==
  ASSUME NEW S \in SUBSET Nat, S # {}
  PROVE  Min(S) \in S /\ \A n \in S : Min(S) <= n
BY Least DEF Min

LEMMA FuncOrFile ==
  /\ \A j \in Nat \ {0} : /\ (2 * j - 1 + 1) \div 2 = j /\ (2 * j - 1) % 2 = 1
                          /\ (2 * j + 1) \div 2 = j /\ (2 * j) % 2 = 0
  /\ \A n \in Nat : \A k \in 1 .. 2 * n : \E j \in 1 .. n : k = 2 * j - 1 \/ k = 2 * j
<1>1. \A j \in Nat \ {0} : /\ (2 * j - 1 + 1) \div 2 = j /\ (2 * j - 1) % 2 = 1
                           /\ (2 * j + 1) \div 2 = j /\ (2 * j) % 2 = 0
  OBVIOUS
<1>2. ASSUME NEW n \in Nat, NEW k \in 1 .. 2 * n
      PROVE  \E j \in 1 .. n : k = 2 * j - 1 \/ k = 2 * j
  <2>1. (k + 1) \div 2 \in 1 .. n
    OBVIOUS
  <2>2. k = 2 * ((k + 1) \div 2) - 1 \/ k = 2 * ((k + 1) \div 2)
    OBVIOUS
  <2> QED BY <2>1, <2>2
<1> QED BY <1>1, <1>2

LEMMA NamesAreNamed ==
  /\ \A fn \in Func : fn # None
  /\ \A x \in Creation : x # None
<1>1. DOMAIN None = {}
  BY DEF None
<1>2. ASSUME NEW fn \in Func PROVE fn # None
  <2>1. "pkg" \in DOMAIN fn
    BY DEF Func
  <2> QED BY <1>1, <2>1
<1>3. ASSUME NEW x \in Creation PROVE x # None
  <2>1. "by" \in DOMAIN x
    BY DEF Creation
  <2> QED BY <1>1, <2>1
<1> QED BY <1>2, <1>3

------------------------------------------------------------------------------
(* The lines of an event. *)

LEMMA FrameLinesProperties ==
  ASSUME NEW frames \in Seq(Written)
  PROVE  /\ FrameLines(frames) \in Seq(Line)
         /\ Len(FrameLines(frames)) = 2 * Len(frames)
         /\ \A j \in DOMAIN frames :
              /\ FrameLines(frames)[2 * j - 1] = [kind |-> "func", fn |-> frames[j].fn]
              /\ FrameLines(frames)[2 * j] =
                   [kind |-> IF frames[j].go THEN "file" ELSE "asm", fn |-> frames[j].fn]
<1> DEFINE L(k) == [kind |-> IF k % 2 = 1 THEN "func"
                             ELSE IF frames[(k + 1) \div 2].go THEN "file" ELSE "asm",
                    fn   |-> frames[(k + 1) \div 2].fn]
           n == Len(frames)
<1>1. n \in Nat /\ DOMAIN frames = 1 .. n /\ \A j \in 1 .. n : frames[j] \in Written
  BY LenProperties, ElementOfSeq
<1>2. FrameLines(frames) = [k \in 1 .. 2 * n |-> L(k)]
  BY DEF FrameLines
<1> HIDE DEF n
<1>3. ASSUME NEW k \in 1 .. 2 * n PROVE L(k) \in Line
  <2>1. (k + 1) \div 2 \in 1 .. n
    BY <1>1
  <2>2. frames[(k + 1) \div 2] \in Written
    BY <1>1, <2>1
  <2>3. frames[(k + 1) \div 2].fn \in Func
    BY <2>2 DEF Written
  <2> QED BY <2>3 DEF Line
<1>4. ASSUME NEW j \in 1 .. n
      PROVE  /\ 2 * j - 1 \in 1 .. 2 * n /\ 2 * j \in 1 .. 2 * n
             /\ L(2 * j - 1) = [kind |-> "func", fn |-> frames[j].fn]
             /\ L(2 * j) = [kind |-> IF frames[j].go THEN "file" ELSE "asm",
                            fn |-> frames[j].fn]
  <2>1. /\ (2 * j - 1 + 1) \div 2 = j /\ (2 * j - 1) % 2 = 1
        /\ (2 * j + 1) \div 2 = j /\ (2 * j) % 2 = 0
    BY FuncOrFile, <1>1
  <2>2. 2 * j - 1 \in 1 .. 2 * n /\ 2 * j \in 1 .. 2 * n
    BY <1>1
  <2> QED BY <2>1, <2>2
<1> HIDE DEF L
<1>5. 2 * n \in Nat
  BY <1>1
<1>6. FrameLines(frames) \in Seq(Line) /\ Len(FrameLines(frames)) = 2 * n
  BY <1>2, <1>3, <1>5
<1>7. \A j \in DOMAIN frames :
        /\ FrameLines(frames)[2 * j - 1] = L(2 * j - 1)
        /\ FrameLines(frames)[2 * j] = L(2 * j)
  BY <1>1, <1>2, <1>4
<1> QED BY <1>1, <1>4, <1>6, <1>7 DEF n

LEMMA SectionProperties ==
  ASSUME NEW frames \in Seq(Written), NEW kind \in {"TransitionStack", "Stack"}
  PROVE  /\ SectionLen(frames) \in Nat
         /\ Section(kind, frames) \in Seq(Line)
         /\ Len(Section(kind, frames)) = SectionLen(frames)
         /\ frames # <<>> =>
              /\ Section(kind, frames)[1] = SectionLine(kind)
              /\ Section(kind, frames)[2 * Len(frames) + 2] = SectionLine("empty")
              /\ \A j \in DOMAIN frames :
                   /\ Section(kind, frames)[2 * j] = [kind |-> "func", fn |-> frames[j].fn]
                   /\ Section(kind, frames)[2 * j + 1] =
                        [kind |-> IF frames[j].go THEN "file" ELSE "asm", fn |-> frames[j].fn]
<1> DEFINE n == Len(frames)
           F == FrameLines(frames)
           A == <<SectionLine(kind)>>
           Z == <<SectionLine("empty")>>
<1>1. n \in Nat /\ DOMAIN frames = 1 .. n
  BY LenProperties
<1>2. /\ F \in Seq(Line) /\ Len(F) = 2 * n
      /\ \A j \in 1 .. n :
           /\ F[2 * j - 1] = [kind |-> "func", fn |-> frames[j].fn]
           /\ F[2 * j] = [kind |-> IF frames[j].go THEN "file" ELSE "asm", fn |-> frames[j].fn]
  BY FrameLinesProperties, <1>1
<1>3. SectionLine(kind) \in Line /\ SectionLine("empty") \in Line
  BY DEF SectionLine, Line
<1>4. /\ A \in Seq(Line) /\ Len(A) = 1 /\ A[1] = SectionLine(kind)
      /\ Z \in Seq(Line) /\ Len(Z) = 1 /\ Z[1] = SectionLine("empty")
  BY <1>3
<1>5. SectionLen(frames) \in Nat
  BY <1>1 DEF SectionLen
<1>6. CASE frames = <<>>
  BY <1>5, <1>6, EmptySeq DEF Section, SectionLen
<1>7. CASE frames # <<>>
  <2>1. Section(kind, frames) = (A \o F) \o Z
    BY <1>7 DEF Section
  <2>2. SectionLen(frames) = 2 * n + 2
    BY <1>7 DEF SectionLen
  <2> HIDE DEF n, F, A, Z
  <2> DEFINE G == A \o F
             H == G \o Z
             g == 1 + 2 * n
  <2>3. /\ G \in Seq(Line) /\ Len(G) = g
        /\ \A k \in 1 .. 1 : G[k] = A[k]
        /\ \A k \in 1 .. 2 * n : G[1 + k] = F[k]
    <3>1. A \in Seq(Line) /\ F \in Seq(Line)
      BY <1>2, <1>4
    <3>2. /\ A \o F \in Seq(Line) /\ Len(A \o F) = Len(A) + Len(F)
          /\ \A k \in 1 .. Len(A) : (A \o F)[k] = A[k]
          /\ \A k \in 1 .. Len(F) : (A \o F)[Len(A) + k] = F[k]
      BY ONLY <3>1
    <3>3. Len(A) = 1 /\ Len(F) = 2 * n
      BY <1>2, <1>4
    <3> QED BY ONLY <3>2, <3>3
  <2> HIDE DEF G
  <2>4. /\ H \in Seq(Line) /\ Len(H) = g + 1
        /\ \A k \in 1 .. g : H[k] = G[k]
        /\ \A k \in 1 .. 1 : H[g + k] = Z[k]
    <3>1. G \in Seq(Line) /\ Z \in Seq(Line)
      BY <1>4, <2>3
    <3>2. /\ G \o Z \in Seq(Line) /\ Len(G \o Z) = Len(G) + Len(Z)
          /\ \A k \in 1 .. Len(G) : (G \o Z)[k] = G[k]
          /\ \A k \in 1 .. Len(Z) : (G \o Z)[Len(G) + k] = Z[k]
      BY ONLY <3>1
    <3>3. Len(G) = g /\ Len(Z) = 1
      BY <1>4, <2>3
    <3> QED BY ONLY <3>2, <3>3
  <2> HIDE DEF H
  <2>5. g + 1 = 2 * n + 2 /\ 1 \in 1 .. g /\ 1 \in 1 .. 1
    BY <1>1
  <2>6. \A j \in 1 .. n : /\ 1 + (2 * j - 1) = 2 * j /\ 1 + 2 * j = 2 * j + 1
                          /\ 2 * j - 1 \in 1 .. 2 * n /\ 2 * j \in 1 .. 2 * n
                          /\ 2 * j \in 1 .. g /\ 2 * j + 1 \in 1 .. g
    BY <1>1
  <2> HIDE DEF g
  <2>7. H[1] = SectionLine(kind) /\ H[2 * n + 2] = SectionLine("empty")
    <3>1. H[1] = G[1] /\ G[1] = A[1] /\ H[g + 1] = Z[1]
      BY <2>3, <2>4, <2>5
    <3> QED BY <1>4, <2>5, <3>1
  <2>8. ASSUME NEW j \in 1 .. n
        PROVE  H[2 * j] = F[2 * j - 1] /\ H[2 * j + 1] = F[2 * j]
    <3>1. G[1 + (2 * j - 1)] = F[2 * j - 1] /\ G[1 + 2 * j] = F[2 * j]
      BY <2>3, <2>6
    <3>2. H[2 * j] = G[2 * j] /\ H[2 * j + 1] = G[2 * j + 1]
      BY <2>4, <2>6
    <3> QED BY <3>1, <3>2, <2>6
  <2>9. Section(kind, frames) = H
    BY <2>1 DEF G, H
  <2>10. H \in Seq(Line) /\ Len(H) = SectionLen(frames)
    BY <2>2, <2>4, <2>5
  <2> QED BY <1>1, <1>2, <1>5, <2>7, <2>8, <2>9, <2>10 DEF n
<1> QED BY <1>6, <1>7

(* Line k of an event is of its first section, or of its second one. *)
LEMMA LinesProperties ==
  ASSUME NEW x \in Event
  PROVE  /\ x.trans \in Seq(Written) /\ x.stack \in Seq(Written)
         /\ SectionLen(x.trans) \in Nat /\ SectionLen(x.stack) \in Nat
         /\ LinesLen(x) = SectionLen(x.trans) + SectionLen(x.stack)
         /\ Lines(x) \in Seq(Line) /\ Len(Lines(x)) = LinesLen(x)
         /\ \A k \in 1 .. SectionLen(x.trans) :
              Lines(x)[k] = Section("TransitionStack", x.trans)[k]
         /\ \A k \in 1 .. SectionLen(x.stack) :
              Lines(x)[SectionLen(x.trans) + k] = Section("Stack", x.stack)[k]
<1> DEFINE A == Section("TransitionStack", x.trans)
           B == Section("Stack", x.stack)
           a == SectionLen(x.trans)
           b == SectionLen(x.stack)
<1>1. x.trans \in Seq(Written) /\ x.stack \in Seq(Written)
  BY TraceAssumption DEF Event
<1>2. /\ a \in Nat /\ A \in Seq(Line) /\ Len(A) = a
      /\ b \in Nat /\ B \in Seq(Line) /\ Len(B) = b
  BY <1>1, SectionProperties
<1>3. Lines(x) = A \o B /\ LinesLen(x) = a + b
  BY DEF Lines, LinesLen
<1> HIDE DEF A, B, a, b
<1>4. /\ A \o B \in Seq(Line) /\ Len(A \o B) = a + b
      /\ \A k \in 1 .. a : (A \o B)[k] = A[k]
      /\ \A k \in 1 .. b : (A \o B)[a + k] = B[k]
  <2>1. /\ A \o B \in Seq(Line) /\ Len(A \o B) = Len(A) + Len(B)
        /\ \A k \in 1 .. Len(A) : (A \o B)[k] = A[k]
        /\ \A k \in 1 .. Len(B) : (A \o B)[Len(A) + k] = B[k]
    BY ONLY <1>2
  <2> QED BY ONLY <1>2, <2>1
<1> QED BY <1>1, <1>2, <1>3, <1>4 DEF A, B, a, b

------------------------------------------------------------------------------
(* The frames of a section, line by line. *)

LEMMA FramesGrow ==
  ASSUME NEW frames \in Seq(Written)
  PROVE  /\ FramesOf(frames, 0) = <<>>
         /\ \A n \in 0 .. Len(frames) : FramesOf(frames, n) \in Seq(Frame)
         /\ \A j \in DOMAIN frames :
              Append(FramesOf(frames, j - 1), FrameOf(frames[j])) = FramesOf(frames, j)
<1>1. Len(frames) \in Nat /\ DOMAIN frames = 1 .. Len(frames)
      /\ \A j \in 1 .. Len(frames) : frames[j] \in Written
  BY LenProperties, ElementOfSeq
<1>2. \A f \in Written : FrameOf(f) \in Frame
  BY DEF FrameOf, Frame, Written, None
<1>3. FramesOf(frames, 0) = <<>>
  BY DEF FramesOf
<1>4. ASSUME NEW n \in 0 .. Len(frames)
      PROVE  /\ FramesOf(frames, n) \in Seq(Frame) /\ Len(FramesOf(frames, n)) = n
             /\ \A k \in 1 .. n : FramesOf(frames, n)[k] = FrameOf(frames[k])
  <2>1. n \in Nat /\ \A k \in 1 .. n : FrameOf(frames[k]) \in Frame
    BY <1>1, <1>2
  <2> DEFINE F(k) == FrameOf(frames[k])
  <2>2. FramesOf(frames, n) = [k \in 1 .. n |-> F(k)] /\ \A k \in 1 .. n : F(k) \in Frame
    BY <2>1 DEF FramesOf
  <2> HIDE DEF F
  <2>3. /\ [k \in 1 .. n |-> F(k)] \in Seq(Frame) /\ Len([k \in 1 .. n |-> F(k)]) = n
        /\ \A k \in 1 .. n : [i \in 1 .. n |-> F(i)][k] = F(k)
    BY ONLY <2>1, <2>2
  <2> QED BY <2>2, <2>3 DEF F
<1>5. ASSUME NEW j \in 1 .. Len(frames)
      PROVE  Append(FramesOf(frames, j - 1), FrameOf(frames[j])) = FramesOf(frames, j)
  <2> DEFINE s == FramesOf(frames, j - 1)
             t == FramesOf(frames, j)
             f == FrameOf(frames[j])
  <2>1. j - 1 \in 0 .. Len(frames) /\ j \in 0 .. Len(frames) /\ j - 1 + 1 = j /\ j \in Nat
    BY <1>1
  <2>2. /\ s \in Seq(Frame) /\ Len(s) = j - 1
        /\ \A k \in 1 .. j - 1 : s[k] = FrameOf(frames[k])
    BY <1>4, <2>1
  <2>3. /\ t \in Seq(Frame) /\ Len(t) = j
        /\ \A k \in 1 .. j : t[k] = FrameOf(frames[k])
    BY <1>4, <2>1
  <2>4. f \in Frame
    BY <1>1, <1>2
  <2>5. t[j] = f /\ \A k \in 1 .. j - 1 : t[k] = s[k]
    BY <2>1, <2>2, <2>3
  <2> HIDE DEF s, t, f
  <2>6. /\ Append(s, f) \in Seq(Frame) /\ Len(Append(s, f)) = j
        /\ \A k \in 1 .. j - 1 : Append(s, f)[k] = s[k]
        /\ Append(s, f)[j] = f
    BY <2>1, <2>2, <2>4, AppendProperties
  <2>7. \A k \in 1 .. j : Append(s, f)[k] = t[k]
    BY <2>1, <2>5, <2>6
  <2> QED BY <2>3, <2>6, <2>7, SeqEqual DEF s, t, f
<1> QED BY <1>1, <1>3, <1>4, <1>5

(* Which of its cases SectionRead is. *)
LEMMA SectionReadAt ==
  ASSUME NEW frames \in Seq(Written), NEW read, NEW l
  PROVE  /\ SectionRead(frames, read, l, 0) <=> Begun(read, l)
         /\ SectionRead(frames, read, l, 1) <=> Begun(read, l)
         /\ \A j \in DOMAIN frames :
              /\ SectionRead(frames, read, l, 2 * j) <=> FuncRead(frames, read, l, j)
              /\ SectionRead(frames, read, l, 2 * j + 1) <=> FileRead(frames, read, l, j)
         /\ SectionRead(frames, read, l, SectionLen(frames)) <=> Ended(frames, read, l)
<1> DEFINE n == Len(frames)
           s == SectionLen(frames)
<1>1. n \in Nat /\ DOMAIN frames = 1 .. n
  BY LenProperties
<1>2. frames = <<>> => n = 0 /\ s = 0 /\ (Ended(frames, read, l) <=> Begun(read, l))
  <2>1. FramesOf(frames, 0) = <<>>
    BY FramesGrow
  <2> QED BY <2>1, EmptySeq DEF SectionLen, Ended, Begun
<1>3. frames # <<>> => s = 2 * n + 2
  BY DEF SectionLen
<1> HIDE DEF n, s
<1>4. \A j \in 1 .. n : /\ 2 * j # 0 /\ 2 * j + 1 # 0 /\ 2 * j # 1 /\ 2 * j + 1 # 1
                        /\ 2 * j # s /\ 2 * j + 1 # s
                        /\ \A i \in 1 .. n : /\ 2 * j # 2 * i + 1 /\ 2 * j + 1 # 2 * i
                                             /\ 2 * j = 2 * i => i = j
                                             /\ 2 * j + 1 = 2 * i + 1 => i = j
  BY <1>1, <1>2, <1>3
<1>5. s # 1 /\ (s = 0 => frames = <<>>)
  BY <1>1, <1>2, <1>3
<1>6. /\ SectionRead(frames, read, l, 0) <=> Begun(read, l)
      /\ SectionRead(frames, read, l, 1) <=> Begun(read, l)
  BY <1>1, <1>2, <1>4, <1>5 DEF SectionRead, s
<1>7. ASSUME NEW j \in 1 .. n
      PROVE  /\ SectionRead(frames, read, l, 2 * j) <=> FuncRead(frames, read, l, j)
             /\ SectionRead(frames, read, l, 2 * j + 1) <=> FileRead(frames, read, l, j)
  BY ONLY <1>1, <1>4, <1>7 DEF SectionRead, s
<1>8. SectionRead(frames, read, l, s) <=> Ended(frames, read, l)
  BY <1>1, <1>2, <1>4, <1>5 DEF SectionRead, s
<1> QED BY <1>1, <1>6, <1>7, <1>8 DEF s

------------------------------------------------------------------------------
(* What each kind of line adds to the section it is read in. *)

(* SaveFrame and lastFn at the function of frame j. *)
LEMMA ReadFunc ==
  ASSUME NEW frames \in Seq(Written), NEW j \in DOMAIN frames, NEW read,
         SectionRead(frames, read, last, 2 * j - 1)
  PROVE  SectionRead(frames, Saved(read), [SavedLast EXCEPT !.fn = frames[j].fn], 2 * j)
<1> DEFINE i == j - 1
<1>1. /\ Len(frames) \in Nat /\ DOMAIN frames = 1 .. Len(frames)
      /\ \A k \in 1 .. Len(frames) : frames[k] \in Written
  BY LenProperties, ElementOfSeq
<1>2. CASE j = 1
  <2>1. Begun(read, last)
    BY <1>2, SectionReadAt
  <2>2. FuncRead(frames, Saved(read), [SavedLast EXCEPT !.fn = frames[j].fn], j)
    BY <1>2, <2>1, FramesGrow DEF Begun, FuncRead, Saved, SavedLast, NothingRead
  <2> QED BY <2>2, SectionReadAt
<1>3. CASE j # 1
  <2>1. i \in DOMAIN frames /\ 2 * i + 1 = 2 * j - 1 /\ i \in Nat
    BY <1>1, <1>3
  <2> HIDE DEF i
  <2>2. FileRead(frames, read, last, i)
    BY <2>1, SectionReadAt
  <2>3. frames[i].fn # None
    BY <1>1, <2>1, NamesAreNamed DEF Written
  <2>4. Append(FramesOf(frames, i - 1), FrameOf(frames[i])) = FramesOf(frames, i)
    BY <2>1, FramesGrow
  <2>5. Saved(read) = FramesOf(frames, i) /\ SavedLast = NothingRead
    BY <2>2, <2>3, <2>4 DEF FileRead, FuncRead, FrameOf, Saved, SavedLast, NothingRead
  <2>6. FuncRead(frames, Saved(read), [SavedLast EXCEPT !.fn = frames[j].fn], j)
    BY <2>5 DEF FuncRead, NothingRead, i
  <2> QED BY <2>6, SectionReadAt
<1> QED BY <1>2, <1>3

(* FileLine, or a line that is none, after the function of frame j. *)
LEMMA ReadFile ==
  ASSUME NEW frames \in Seq(Written), NEW j \in DOMAIN frames, NEW read,
         SectionRead(frames, read, last, 2 * j)
  PROVE  /\ last.fn # None
         /\ frames[j].go =>
              SectionRead(frames, Append(read, [fn |-> last.fn, file |-> frames[j].fn]),
                          NothingRead, 2 * j + 1)
         /\ ~frames[j].go => SectionRead(frames, read, last, 2 * j + 1)
<1>1. frames[j] \in Written
  BY LenProperties, ElementOfSeq
<1>2. FuncRead(frames, read, last, j)
  BY SectionReadAt
<1>3. last.fn # None
  BY <1>1, <1>2, NamesAreNamed DEF Written, FuncRead
<1>4. frames[j].go =>
        Append(read, [fn |-> last.fn, file |-> frames[j].fn]) = FramesOf(frames, j)
  BY <1>2, FramesGrow DEF FuncRead, FrameOf
<1>5. frames[j].go =>
        FileRead(frames, Append(read, [fn |-> last.fn, file |-> frames[j].fn]), NothingRead, j)
  BY <1>4 DEF FileRead
<1>6. ~frames[j].go => FileRead(frames, read, last, j)
  BY <1>2 DEF FileRead
<1> QED BY <1>3, <1>5, <1>6, SectionReadAt

(* The line after the last frame. *)
LEMMA ReadEmpty ==
  ASSUME NEW frames \in Seq(Written), frames # <<>>, NEW read,
         SectionRead(frames, read, last, 2 * Len(frames) + 1)
  PROVE  Saved(read) = FramesOf(frames, Len(frames)) /\ SavedLast = NothingRead
<1> DEFINE n == Len(frames)
<1>1. n \in DOMAIN frames /\ frames[n] \in Written
  BY LenProperties, ElementOfSeq, EmptySeq
<1> HIDE DEF n
<1>2. FileRead(frames, read, last, n)
  BY <1>1, SectionReadAt DEF n
<1>3. frames[n].fn # None
  BY <1>1, NamesAreNamed DEF Written
<1>4. Append(FramesOf(frames, n - 1), FrameOf(frames[n])) = FramesOf(frames, n)
  BY <1>1, FramesGrow
<1> QED BY <1>2, <1>3, <1>4 DEF FileRead, FuncRead, FrameOf, Saved, SavedLast, NothingRead, n
------------------------------------------------------------------------------
(* The inductive invariant. *)

(* The time of an event is its place; a birth is a goroutine's first event. *)
TraceIsPossible ==
  \A i \in DOMAIN written :
    /\ written[i].header.time = i
    /\ written[i].header.birth =>
         /\ written[i].header.gid # 0
         /\ \A j \in 1 .. i - 1 : written[j].header.gid # written[i].header.gid

(* What is still to come are the last lines of the last event. *)
TodoIsLeft ==
  IF written = <<>> THEN todo = <<>>
  ELSE /\ todo \in Seq(Line) /\ Len(todo) <= LinesLen(e)
       /\ \A k \in 1 .. Len(todo) : todo[k] = Lines(e)[c + k]

TransitionIsRead ==
  /\ c <= SectionLen(e.trans)
  /\ stackFrames = <<>>
  /\ SectionRead(e.trans, transFrames, last, c)

StackIsRead ==
  /\ SectionLen(e.trans) < c /\ c < LinesLen(e)
  /\ transFrames = FramesOf(e.trans, Len(e.trans))
  /\ SectionRead(e.stack, stackFrames, last, c - SectionLen(e.trans))

NoBlock == pending = NoPending /\ transFrames = <<>> /\ stackFrames = <<>> /\ last = NothingRead

(* The open block is that of the last event, as far as its lines are read. *)
BlockIsRead ==
  IF cur = "normal" THEN NoBlock
  ELSE /\ ~done /\ written # <<>> /\ e.header.birth
       /\ pending = [gid |-> e.header.gid, by |-> e.header.by, time |-> e.header.time]
       /\ cur = "transition" => TransitionIsRead
       /\ cur = "stack" => StackIsRead

IsBirth(i, g) == written[i].header.birth /\ written[i].header.gid = g

(* The births of which the block is closed, and no others, have a creation. *)
CreationsAreRead ==
  /\ \A i \in DOMAIN written : \A g \in Gid : IsBirth(i, g) /\ g # pending.gid =>
       g \in DOMAIN goroutines /\ goroutines[g].creation = CreationRead(written[i])
  /\ \A g \in DOMAIN goroutines : goroutines[g].creation # None =>
       g # pending.gid /\ \E i \in DOMAIN written : IsBirth(i, g)

TimesAreUnset == Transitions = {} => minTime = 0 /\ maxTime = 0

DoneIsClosed == done => cur = "normal" /\ todo = <<>>

IInv ==
  /\ TypeOK
  /\ TraceIsPossible /\ TodoIsLeft /\ BlockIsRead /\ CreationsAreRead
  /\ AllIsRecorded /\ TimesAreUnset /\ DoneIsClosed

(* The types, as the steps need them. *)
LEMMA Typed ==
  ASSUME IInv
  PROVE  /\ TypeOK
         /\ written \in Seq(Event) /\ Len(written) \in Nat /\ DOMAIN written = 1 .. Len(written)
         /\ \A i \in DOMAIN written : written[i] \in Event /\ written[i].header \in Header
         /\ written # <<>> => Len(written) \in DOMAIN written /\ e \in Event /\ e.header \in Header
         /\ transFrames \in Seq(Frame) /\ stackFrames \in Seq(Frame)
         /\ last \in [fn : Func \cup {None}, file : Func \cup {None}]
         /\ events \in Seq(Header)
         /\ DOMAIN goroutines \subseteq Gid
         /\ \A g \in DOMAIN goroutines : goroutines[g] \in Info
         /\ pending \in [gid : Gid \cup {0}, by : Gid \cup {0}, time : 0 .. MaxEvents]
         /\ MaxEvents \in Nat /\ \A g \in Gid : g \in Nat /\ g # 0
<1>1. TypeOK
  BY DEF IInv
<1>2. written \in Seq(Event)
  BY <1>1 DEF TypeOK
<1>3. /\ Len(written) \in Nat /\ DOMAIN written = 1 .. Len(written)
      /\ \A i \in DOMAIN written : written[i] \in Event
      /\ written # <<>> => Len(written) \in 1 .. Len(written)
  BY <1>2, LenProperties, ElementOfSeq, EmptySeq
<1>4. \A x \in Event : x.header \in Header
  BY DEF Event
<1> QED BY <1>1, <1>2, <1>3, <1>4, TraceAssumption DEF TypeOK, e

LEMMA TodoTyped ==
  ASSUME IInv
  PROVE  /\ todo \in Seq(Line) /\ Len(todo) \in Nat
         /\ todo = <<>> <=> Len(todo) = 0
         /\ written # <<>> => /\ c \in 0 .. LinesLen(e) /\ LinesLen(e) \in Nat
                              /\ Len(todo) = LinesLen(e) - c
<1>1. todo \in Seq(Line)
  BY EmptySeq DEF IInv, TodoIsLeft
<1>2. Len(todo) \in Nat /\ (todo = <<>> <=> Len(todo) = 0)
  BY <1>1, LenProperties, EmptySeq
<1>3. ASSUME written # <<>>
      PROVE  /\ c \in 0 .. LinesLen(e) /\ LinesLen(e) \in Nat
             /\ Len(todo) = LinesLen(e) - c
  <2>1. Len(todo) <= LinesLen(e)
    BY <1>3 DEF IInv, TodoIsLeft
  <2>2. LinesLen(e) \in Nat
    BY <1>3, Typed, LinesProperties
  <2> QED BY <1>2, <2>1, <2>2 DEF c
<1> QED BY <1>1, <1>2, <1>3

------------------------------------------------------------------------------
(* The creation of a goroutine. *)

LEMMA TestNames ==
  \A fn \in Func : TestNameFromFunction(fn) \in {"TestA", ""}
BY DEF TestNameFromFunction

(* BuildCreation finds a test if some frame of the stack is one. *)
LEMMA BuildCreationProperties ==
  ASSUME NEW trans \in Seq(Frame), NEW stack \in Seq(Frame),
         \A i \in DOMAIN stack : stack[i].fn \in Func,
         \A i \in DOMAIN trans : trans[i].fn \in Func,
         NEW by \in Gid \cup {0}
  PROVE  /\ BuildCreation(trans, stack, by) \in Creation
         /\ BuildCreation(trans, stack, by).test # "" <=>
              \E i \in DOMAIN stack : TestNameFromFunction(stack[i].fn) # ""
<1> DEFINE tests == {i \in DOMAIN stack : TestNameFromFunction(stack[i].fn) # ""}
           name == IF tests = {} THEN "" ELSE TestNameFromFunction(stack[Min(tests)].fn)
           func == IF trans = <<>> THEN None ELSE ShortName(trans[1].fn)
           file == IF trans = <<>> THEN None ELSE trans[1].file
<1>1. BuildCreation(trans, stack, by) = [func |-> func, file |-> file, test |-> name, by |-> by]
  BY DEF BuildCreation
<1>2. tests # {} => Min(tests) \in tests
  <2>1. DOMAIN stack = 1 .. Len(stack) /\ Len(stack) \in Nat
    BY LenProperties
  <2>2. \A i \in tests : i \in DOMAIN stack
    OBVIOUS
  <2> HIDE DEF tests
  <2>3. tests \in SUBSET Nat
    BY <2>1, <2>2
  <2> QED BY <2>3, MinProperties
<1>3. name \in {"TestA", ""} /\ (name # "" <=> tests # {})
  BY <1>2, TestNames
<1>4. func \in Func \cup {None} /\ file \in Func \cup {None}
  <2>1. CASE trans = <<>>
    BY <2>1
  <2>2. CASE trans # <<>>
    <3>1. 1 \in DOMAIN trans
      BY <2>2, LenProperties, EmptySeq
    <3>2. trans[1] \in Frame /\ trans[1].fn \in Func
      BY <3>1, LenProperties, ElementOfSeq
    <3>3. ShortName(trans[1].fn) \in Func
      BY <3>2 DEF ShortName, Func
    <3> QED BY <2>2, <3>2, <3>3 DEF Frame
  <2> QED BY <2>1, <2>2
<1>5. tests # {} <=> \E i \in DOMAIN stack : TestNameFromFunction(stack[i].fn) # ""
  OBVIOUS
<1> HIDE DEF tests, name, func, file
<1>6. BuildCreation(trans, stack, by) \in Creation
  <2>1. ASSUME NEW u \in Func \cup {None}, NEW v \in Func \cup {None},
               NEW w \in {"TestA", ""}, NEW b \in Gid \cup {0}
        PROVE  [func |-> u, file |-> v, test |-> w, by |-> b] \in Creation
    BY DEF Creation
  <2>2. [func |-> func, file |-> file, test |-> name, by |-> by] \in Creation
    BY <1>3, <1>4, <2>1
  <2> QED BY <1>1, <2>2
<1>7. BuildCreation(trans, stack, by).test = name
  BY <1>1
<1> QED BY <1>3, <1>5, <1>6, <1>7

(* The lines of a birth make its creation. *)
LEMMA CreationReadProperties ==
  ASSUME NEW x \in Event
  PROVE  CreationOf(CreationRead(x), x) /\ CreationRead(x) \in Creation
<1> DEFINE t == FramesOf(x.trans, Len(x.trans))
           s == FramesOf(x.stack, Len(x.stack))
           b == BuildCreation(t, s, x.header.by)
<1>1. x.trans \in Seq(Written) /\ x.stack \in Seq(Written) /\ x.header.by \in Gid \cup {0}
  BY LinesProperties DEF Event, Header
<1>2. /\ Len(x.trans) \in Nat /\ DOMAIN x.trans = 1 .. Len(x.trans)
      /\ Len(x.stack) \in Nat /\ DOMAIN x.stack = 1 .. Len(x.stack)
      /\ \A i \in DOMAIN x.trans : x.trans[i] \in Written
      /\ \A i \in DOMAIN x.stack : x.stack[i] \in Written
  BY <1>1, LenProperties, ElementOfSeq
<1>3. /\ t \in Seq(Frame) /\ s \in Seq(Frame)
      /\ DOMAIN t = DOMAIN x.trans /\ DOMAIN s = DOMAIN x.stack
      /\ \A i \in DOMAIN t : t[i].fn = x.trans[i].fn
      /\ \A i \in DOMAIN t : t[i].file = IF x.trans[i].go THEN x.trans[i].fn ELSE None
      /\ \A i \in DOMAIN s : s[i].fn = x.stack[i].fn
  <2>1. t \in Seq(Frame) /\ s \in Seq(Frame)
    BY <1>1, <1>2, FramesGrow
  <2> QED BY <1>2, <2>1 DEF FramesOf, FrameOf
<1>4. t = <<>> <=> x.trans = <<>>
  <2>1. ASSUME NEW S, NEW q \in Seq(S) PROVE q = <<>> <=> DOMAIN q = {}
    <3>1. DOMAIN q = 1 .. Len(q) /\ Len(q) \in Nat /\ (q = <<>> <=> Len(q) = 0)
      BY LenProperties, EmptySeq
    <3> QED BY <3>1
  <2> HIDE DEF t, s
  <2>2. t = <<>> <=> DOMAIN t = {}
    BY <1>3, <2>1
  <2>3. x.trans = <<>> <=> DOMAIN x.trans = {}
    BY <1>1, <2>1
  <2> QED BY <1>3, <2>2, <2>3
<1> HIDE DEF t, s
<1>5. /\ b \in Creation
      /\ b.test # "" <=> \E i \in DOMAIN s : TestNameFromFunction(s[i].fn) # ""
  <2>1. /\ \A i \in DOMAIN t : t[i].fn \in Func
        /\ \A i \in DOMAIN s : s[i].fn \in Func
    BY <1>2, <1>3 DEF Written
  <2> QED BY <1>1, <1>3, <2>1, BuildCreationProperties
<1>6. /\ b.by = x.header.by
      /\ b.func = IF t = <<>> THEN None ELSE ShortName(t[1].fn)
      /\ b.file = IF t = <<>> THEN None ELSE t[1].file
  BY DEF BuildCreation
<1>7. CreationRead(x) = b
  BY DEF CreationRead, t, s
<1> HIDE DEF b
<1>8. b.test # "" <=> \E i \in DOMAIN x.stack : TestNameFromFunction(x.stack[i].fn) # ""
  BY <1>3, <1>5
<1>9. IF x.trans = <<>> THEN b.func = None /\ b.file = None
      ELSE /\ b.func = ShortName(x.trans[1].fn)
           /\ b.file = IF x.trans[1].go THEN x.trans[1].fn ELSE None
  <2>1. x.trans # <<>> => 1 \in DOMAIN t
    BY <1>1, <1>3, LenProperties, EmptySeq
  <2> QED BY <1>3, <1>4, <1>6, <2>1
<1> QED BY <1>5, <1>6, <1>7, <1>8, <1>9 DEF CreationOf

------------------------------------------------------------------------------
(* Headers in order. *)

LEMMA InOrderEmpty ==
  ASSUME NEW s \in Seq(Header), NEW S, InOrder(s, S)
  PROVE  /\ S = {} <=> s = <<>>
         /\ S # {} => /\ Len(s) \in Nat /\ Len(s) # 0 /\ 1 \in DOMAIN s /\ Len(s) \in DOMAIN s
                      /\ s[1] \in S /\ Last(s) \in S /\ Last(s) = s[Len(s)]
<1>1. /\ Len(s) \in Nat /\ DOMAIN s = 1 .. Len(s) /\ (s = <<>> <=> Len(s) = 0)
  BY LenProperties, EmptySeq
<1>2. S = {s[i] : i \in DOMAIN s}
  BY DEF InOrder, Range
<1>3. S = {} <=> s = <<>>
  <2>1. Len(s) = 0 => DOMAIN s = {}
    BY ONLY <1>1
  <2>2. Len(s) # 0 => 1 \in DOMAIN s
    BY ONLY <1>1
  <2>3. S = {} <=> DOMAIN s = {}
    BY ONLY <1>2
  <2> QED BY ONLY <1>1, <2>1, <2>2, <2>3
<1>4. s # <<>> => 1 \in DOMAIN s /\ Len(s) \in DOMAIN s
  BY <1>1
<1>5. Last(s) = s[Len(s)]
  BY DEF Last
<1> QED BY <1>1, <1>2, <1>3, <1>4, <1>5

(* A header later than those of s goes after them. *)
LEMMA InOrderAppend ==
  ASSUME NEW s \in Seq(Header), NEW S, InOrder(s, S),
         NEW h \in Header, \A x \in S : x.time < h.time
  PROVE  /\ Append(s, h) \in Seq(Header)
         /\ InOrder(Append(s, h), S \cup {h})
         /\ Append(s, h)[1] = IF S = {} THEN h ELSE s[1]
         /\ Last(Append(s, h)) = h
<1> DEFINE n == Len(s)
           t == Append(s, h)
<1>1. n \in Nat /\ DOMAIN s = 1 .. n
  BY LenProperties
<1>2. /\ t \in Seq(Header) /\ Len(t) = n + 1 /\ t[n + 1] = h
      /\ \A i \in 1 .. n : t[i] = s[i]
  BY AppendProperties
<1>3. DOMAIN t = 1 .. n + 1
  BY <1>2, LenProperties
<1>4. Range(s) = S /\ \A i, j \in DOMAIN s : i < j => s[i].time < s[j].time
  BY DEF InOrder
<1> HIDE DEF n, t
<1>5. Range(t) = S \cup {h}
  <2>1. \A i \in 1 .. n + 1 : i \in 1 .. n \/ i = n + 1
    BY <1>1
  <2>2. \A i \in 1 .. n : i \in 1 .. n + 1
    BY <1>1
  <2>3. n + 1 \in 1 .. n + 1
    BY <1>1
  <2>4. S = {s[i] : i \in 1 .. n}
    BY <1>1, <1>4 DEF Range
  <2>5. Range(t) = {t[i] : i \in 1 .. n + 1}
    BY <1>3 DEF Range
  <2> QED BY <1>2, <2>1, <2>2, <2>3, <2>4, <2>5
<1>6. ASSUME NEW i \in DOMAIN t, NEW j \in DOMAIN t, i < j PROVE t[i].time < t[j].time
  <2>1. i \in 1 .. n /\ (j \in 1 .. n \/ j = n + 1)
    BY <1>1, <1>3, <1>6
  <2>2. t[i] = s[i] /\ s[i] \in S
    BY <1>1, <1>2, <1>4, <2>1 DEF Range
  <2> QED BY <1>1, <1>2, <1>4, <1>6, <2>1, <2>2
<1>7. t[1] = IF S = {} THEN h ELSE s[1]
  <2>1. S = {} => n = 0
    BY InOrderEmpty, EmptySeq DEF n
  <2>2. S # {} => 1 \in 1 .. n
    BY <1>1, InOrderEmpty
  <2> QED BY <1>2, <2>1, <2>2
<1>8. Last(t) = h
  BY <1>2 DEF Last
<1> QED BY <1>2, <1>5, <1>6, <1>7, <1>8 DEF InOrder, t

(* What AllIsRecorded says of a goroutine's entry. *)
IsRecord(r, S) ==
  InOrder(r.events, S) /\ r.firstSeen = r.events[1].time /\ r.lastSeen = Last(r.events).time

LEMMA RecordGrows ==
  ASSUME NEW S, NEW h \in Header, \A x \in S : x.time < h.time,
         NEW r \in Info,
         IF S = {} THEN r.events = <<>> /\ r.firstSeen = h.time ELSE IsRecord(r, S)
  PROVE  /\ [r EXCEPT !.events = Append(@, h), !.lastSeen = h.time] \in Info
         /\ IsRecord([r EXCEPT !.events = Append(@, h), !.lastSeen = h.time], S \cup {h})
<1> DEFINE t == Append(r.events, h)
           q == [r EXCEPT !.events = Append(@, h), !.lastSeen = h.time]
<1>1. r.events \in Seq(Header) /\ h.time \in 0 .. MaxEvents
  BY TraceAssumption DEF Info, Header
<1>2. InOrder(r.events, S)
  <2>1. CASE S = {}
    BY <2>1, EmptySeq DEF InOrder, Range
  <2>2. CASE S # {}
    BY <2>2 DEF IsRecord
  <2> QED BY <2>1, <2>2
<1>3. /\ t \in Seq(Header) /\ InOrder(t, S \cup {h}) /\ Last(t) = h
      /\ t[1] = IF S = {} THEN h ELSE r.events[1]
  <2>1. r.events \in Seq(Header) /\ h \in Header /\ \A x \in S : x.time < h.time
    BY <1>1
  <2> DEFINE q0 == r.events
  <2>2. q0 \in Seq(Header) /\ InOrder(q0, S)
    BY <1>2, <2>1
  <2> HIDE DEF q0, q
  <2>3. /\ Append(q0, h) \in Seq(Header) /\ InOrder(Append(q0, h), S \cup {h})
        /\ Last(Append(q0, h)) = h /\ Append(q0, h)[1] = IF S = {} THEN h ELSE q0[1]
    BY ONLY <2>1, <2>2, InOrderAppend
  <2> QED BY ONLY <2>3 DEF q0
<1>4. q = [events |-> t, firstSeen |-> r.firstSeen, lastSeen |-> h.time,
           creation |-> r.creation]
  <2> HIDE DEF t
  <2>1. q = [r EXCEPT !.events = t, !.lastSeen = h.time]
    BY DEF t
  <2> HIDE DEF q
  <2> QED BY <2>1 DEF Info
<1>5. r.firstSeen \in 0 .. MaxEvents /\ r.creation \in Creation \cup {None}
  BY DEF Info
<1>6. r.firstSeen = t[1].time
  <2>1. S # {} => r.firstSeen = r.events[1].time
    BY DEF IsRecord
  <2> QED BY <1>3, <2>1
<1> HIDE DEF t, q
<1>7. q \in Info
  BY <1>1, <1>3, <1>4, <1>5 DEF Info
<1>8. IsRecord(q, S \cup {h})
  BY <1>3, <1>4, <1>6 DEF IsRecord
<1> QED BY <1>7, <1>8 DEF q

(* An event is added to the trace. *)
LEMMA TraceGrows ==
  ASSUME IInv, NEW x \in Event, written' = Append(written, x),
         x.header.time = Len(written) + 1
  PROVE  /\ written' \in Seq(Event) /\ Len(written') = Len(written) + 1
         /\ DOMAIN written' = 1 .. Len(written) + 1
         /\ \A i \in DOMAIN written : i \in DOMAIN written' /\ written'[i] = written[i]
         /\ \A i \in DOMAIN written' : i \in DOMAIN written \/ i = Len(written) + 1
         /\ Len(written) + 1 \in DOMAIN written'
         /\ written'[Len(written) + 1] = x /\ e' = x /\ written' # <<>>
         /\ x.header \in Header
         /\ \A h \in Headers : h \in Header /\ h.time < x.header.time
         /\ Transitions' = IF x.header.gid = 0 THEN Transitions ELSE Transitions \cup {x.header}
         /\ \A g \in Gid : Of(g)' = IF x.header.gid = g THEN Of(g) \cup {x.header} ELSE Of(g)
<1> DEFINE n == Len(written)
<1>1. n \in Nat /\ DOMAIN written = 1 .. n /\ written \in Seq(Event)
  BY Typed
<1>2. /\ written' \in Seq(Event) /\ Len(written') = n + 1 /\ written'[n + 1] = x
      /\ \A i \in 1 .. n : written'[i] = written[i]
  BY <1>1, AppendProperties
<1>3. DOMAIN written' = 1 .. n + 1
  BY <1>2, LenProperties
<1> HIDE DEF n
<1>4. /\ \A i \in 1 .. n : i \in 1 .. n + 1
      /\ \A i \in 1 .. n + 1 : i \in 1 .. n \/ i = n + 1
      /\ n + 1 \in 1 .. n + 1
  BY <1>1
<1>5. e' = x
  BY <1>2 DEF e
<1>6. x.header \in Header
  BY DEF Event
<1>7. Headers' = Headers \cup {x.header}
  <2>1. Headers' = {written'[i].header : i \in 1 .. n + 1}
    BY <1>3 DEF Headers
  <2>2. Headers = {written[i].header : i \in 1 .. n}
    BY <1>1 DEF Headers
  <2> QED BY <1>2, <1>4, <2>1, <2>2
<1>8. \A h \in Headers : h \in Header /\ h.time < x.header.time
  <2>1. \A i \in DOMAIN written : written[i].header \in Header /\ written[i].header.time = i
    BY Typed DEF IInv, TraceIsPossible
  <2>2. \A i \in 1 .. n : i < n + 1
    BY <1>1
  <2> QED BY <1>1, <2>1, <2>2 DEF Headers, n
<1>9. Transitions' = IF x.header.gid = 0 THEN Transitions ELSE Transitions \cup {x.header}
  BY <1>7 DEF Transitions
<1>10. \A g \in Gid : Of(g)' = IF x.header.gid = g THEN Of(g) \cup {x.header} ELSE Of(g)
  BY <1>7 DEF Of
<1>11. written' # <<>>
  BY <1>1, <1>2, EmptySeq
<1> QED BY <1>1, <1>2, <1>3, <1>4, <1>5, <1>6, <1>8, <1>9, <1>10, <1>11 DEF n

------------------------------------------------------------------------------
(* What commitCreation makes. *)

LEMMA SavedTyped ==
  ASSUME IInv, NEW frames \in Seq(Frame)
  PROVE  /\ Saved(frames) \in Seq(Frame)
         /\ SavedLast \in [fn : Func \cup {None}, file : Func \cup {None}]
<1>1. last \in [fn : Func \cup {None}, file : Func \cup {None}]
  BY Typed
<1>2. last.fn # None => [fn |-> last.fn, file |-> last.file] \in Frame
  BY <1>1 DEF Frame
<1>3. Saved(frames) \in Seq(Frame)
  BY <1>2, AppendProperties DEF Saved
<1> QED BY <1>1, <1>3 DEF SavedLast, NothingRead

(* The block's creation, whether it is read to its end or not. *)
CreationOpen == BuildCreation(transFrames, Saved(stackFrames), pending.by)

(* Nothing but the creation of the block's goroutine is changed. *)
LEMMA CommittedProperties ==
  ASSUME IInv
  PROVE  /\ DOMAIN Committed = DOMAIN goroutines
         /\ \A g \in DOMAIN goroutines :
              /\ Committed[g] \in Info
              /\ Committed[g].events = goroutines[g].events
              /\ Committed[g].firstSeen = goroutines[g].firstSeen
              /\ Committed[g].lastSeen = goroutines[g].lastSeen
              /\ g # pending.gid => Committed[g] = goroutines[g]
         /\ pending.gid # 0 => /\ pending.gid \in DOMAIN goroutines
                               /\ Committed[pending.gid].creation = CreationOpen
<1>1. CreationOpen \in Creation
  <2>1. ASSUME NEW q \in Seq(Frame), NEW i \in DOMAIN q PROVE q[i].fn \in Func
    <3>1. q[i] \in Frame
      BY LenProperties, ElementOfSeq
    <3> QED BY <3>1 DEF Frame
  <2>2. transFrames \in Seq(Frame) /\ Saved(stackFrames) \in Seq(Frame)
    BY Typed, SavedTyped
  <2>3. pending.by \in Gid \cup {0}
    BY Typed
  <2> QED BY <2>1, <2>2, <2>3, BuildCreationProperties DEF CreationOpen
<1>2. \A g \in DOMAIN goroutines : goroutines[g] \in Info
  BY Typed
<1>3. CASE pending.gid = 0
  <2>1. Committed = goroutines
    BY <1>3 DEF Committed
  <2> QED BY <1>2, <1>3, <2>1
<1>4. CASE pending.gid # 0
  <2> DEFINE p == pending.gid
             r == goroutines[p]
             q == [r EXCEPT !.creation = CreationOpen]
  <2>1. p \in DOMAIN goroutines
    <3>1. cur # "normal" /\ p \in Gid
      BY <1>4, Typed DEF TypeOK
    <3>2. written # <<>> /\ p = e.header.gid
      BY <3>1 DEF IInv, BlockIsRead
    <3>3. e.header \in Of(p)
      BY <3>2, Typed DEF Of, Headers, e
    <3> QED BY <3>1, <3>3 DEF IInv, AllIsRecorded
  <2>2. Committed = [x \in DOMAIN goroutines |-> IF x = p THEN q ELSE goroutines[x]]
    BY <1>4, <2>1 DEF Committed, Put, Entry, CreationOpen
  <2>3. /\ q \in Info /\ q.creation = CreationOpen
        /\ q.events = r.events /\ q.firstSeen = r.firstSeen /\ q.lastSeen = r.lastSeen
    BY <1>1, <1>2, <2>1 DEF Info
  <2> HIDE DEF q
  <2> QED BY <1>2, <2>1, <2>2, <2>3
<1> QED BY <1>3, <1>4

(* A block is committed when its lines are read, or at the last of them. *)
BlockEnds == todo = <<>> \/ (cur = "stack" /\ Len(todo) = 1)

LEMMA BlockMakesCreation ==
  ASSUME IInv, cur # "normal", BlockEnds
  PROVE  CreationOpen = CreationRead(e)
<1> DEFINE a == SectionLen(e.trans)
           b == SectionLen(e.stack)
<1>1. /\ written # <<>> /\ e \in Event /\ pending.by = e.header.by
      /\ cur = "transition" => TransitionIsRead
      /\ cur = "stack" => StackIsRead
      /\ cur \in {"transition", "stack"}
  BY Typed DEF IInv, TypeOK, BlockIsRead
<1>2. /\ e.trans \in Seq(Written) /\ e.stack \in Seq(Written)
      /\ a \in Nat /\ b \in Nat /\ LinesLen(e) = a + b
  BY <1>1, LinesProperties
<1>3. c \in 0 .. LinesLen(e) /\ Len(todo) = LinesLen(e) - c /\ (todo = <<>> <=> Len(todo) = 0)
  BY <1>1, TodoTyped
<1>4. /\ Len(e.stack) \in Nat /\ (e.stack = <<>> <=> Len(e.stack) = 0)
      /\ e.stack # <<>> => b = 2 * Len(e.stack) + 2
      /\ e.stack = <<>> => b = 0
  BY <1>2, LenProperties, EmptySeq DEF SectionLen
<1>5. CASE cur = "transition"
  <2>1. c <= a /\ stackFrames = <<>> /\ SectionRead(e.trans, transFrames, last, c)
    BY <1>1, <1>5 DEF TransitionIsRead
  <2>2. Len(todo) = 0
    BY <1>3, <1>5 DEF BlockEnds
  <2>3. c = a /\ b = 0
    BY <1>2, <1>3, <2>1, <2>2
  <2>4. e.stack = <<>> /\ Len(e.stack) = 0
    BY <1>4, <2>3
  <2>5. Ended(e.trans, transFrames, last)
    BY <1>2, <2>1, <2>3, SectionReadAt
  <2>6. Saved(stackFrames) = FramesOf(e.stack, 0)
    BY <1>2, <2>1, <2>5, FramesGrow DEF Ended, Saved, NothingRead
  <2> QED BY <1>1, <2>4, <2>5, <2>6 DEF CreationOpen, CreationRead, Ended
<1>6. CASE cur = "stack"
  <2>1. /\ a < c /\ c < LinesLen(e)
        /\ transFrames = FramesOf(e.trans, Len(e.trans))
        /\ SectionRead(e.stack, stackFrames, last, c - a)
    BY <1>1, <1>6 DEF StackIsRead
  <2>2. Len(todo) = 1
    <3>1. Len(todo) # 0
      BY <1>2, <1>3, <2>1
    <3>2. todo # <<>>
      BY <1>3, <3>1
    <3> QED BY <3>2, Zenon DEF BlockEnds
  <2>3. c = a + b - 1
    <3> HIDE DEF a, b
    <3>1. a + b \in Nat /\ LinesLen(e) = a + b
      BY <1>2
    <3>2. c \in 0 .. a + b /\ 1 = (a + b) - c
      BY <1>3, <2>2, <3>1
    <3> QED BY <1>2, <3>2
  <2>4. b > 1
    BY <1>2, <2>1, <2>3
  <2>5. c - a = 2 * Len(e.stack) + 1 /\ e.stack # <<>>
    BY <1>2, <1>4, <2>3, <2>4
  <2>6. SectionRead(e.stack, stackFrames, last, 2 * Len(e.stack) + 1)
    BY <2>1, <2>5
  <2>7. Saved(stackFrames) = FramesOf(e.stack, Len(e.stack))
    BY <1>2, <2>5, <2>6, ReadEmpty
  <2> QED BY <1>1, <2>1, <2>7 DEF CreationOpen, CreationRead
<1> QED BY <1>1, <1>5, <1>6

(* A goroutine has one birth. *)
LEMMA OneBirth ==
  ASSUME IInv, NEW i \in DOMAIN written, NEW j \in DOMAIN written, NEW g,
         IsBirth(i, g), IsBirth(j, g)
  PROVE  i = j
<1>1. i \in Nat /\ j \in Nat /\ i # 0 /\ j # 0
  BY Typed
<1>2. ~(i \in 1 .. j - 1) /\ ~(j \in 1 .. i - 1)
  BY DEF IInv, TraceIsPossible, IsBirth
<1> QED BY <1>1, <1>2

(* After a commit, every birth has the creation of its lines. *)
LEMMA CommitClosesBlock ==
  ASSUME IInv, BlockEnds
  PROVE  /\ \A i \in DOMAIN written : \A g \in Gid : IsBirth(i, g) =>
              g \in DOMAIN Committed /\ Committed[g].creation = CreationRead(written[i])
         /\ \A g \in DOMAIN Committed : Committed[g].creation # None =>
              \E i \in DOMAIN written : IsBirth(i, g)
<1>1. CreationsAreRead
  BY DEF IInv
<1>2. pending.gid # 0 => /\ IsBirth(Len(written), pending.gid)
                         /\ Len(written) \in DOMAIN written
                         /\ CreationOpen = CreationRead(written[Len(written)])
  <2>1. pending.gid # 0 => cur # "normal"
    BY DEF IInv, TypeOK
  <2>2. cur # "normal" => written # <<>> /\ e.header.birth /\ pending.gid = e.header.gid
    BY DEF IInv, BlockIsRead
  <2>3. cur # "normal" => CreationOpen = CreationRead(e)
    BY BlockMakesCreation
  <2> QED BY <2>1, <2>2, <2>3, Typed DEF IsBirth, e
<1>3. ASSUME NEW i \in DOMAIN written, NEW g \in Gid, IsBirth(i, g)
      PROVE  g \in DOMAIN Committed /\ Committed[g].creation = CreationRead(written[i])
  <2>1. CASE g = pending.gid
    <3>1. g # 0
      BY Typed
    <3>2. i = Len(written)
      BY <1>2, <1>3, <2>1, <3>1, OneBirth
    <3> QED BY <1>2, <2>1, <3>1, <3>2, CommittedProperties
  <2>2. CASE g # pending.gid
    BY <1>1, <1>3, <2>2, CommittedProperties DEF CreationsAreRead
  <2> QED BY <2>1, <2>2
<1>4. ASSUME NEW g \in DOMAIN Committed, Committed[g].creation # None
      PROVE  \E i \in DOMAIN written : IsBirth(i, g)
  <2>1. g \in DOMAIN goroutines /\ g \in Gid /\ g # 0
    BY CommittedProperties, Typed
  <2>2. CASE g = pending.gid
    BY <1>2, <2>1, <2>2
  <2>3. CASE g # pending.gid
    BY <1>1, <1>4, <2>1, <2>3, CommittedProperties DEF CreationsAreRead
  <2> QED BY <2>2, <2>3
<1> QED BY <1>3, <1>4

(* What commitCreation resets is then as at the start. *)
LEMMA BlockForgotten ==
  ASSUME IInv, ForgetBlock
  PROVE  NoBlock'
<1>1. CASE pending.gid = 0
  <2>1. NoBlock
    BY <1>1 DEF IInv, TypeOK, BlockIsRead
  <2> QED BY <1>1, <2>1 DEF ForgetBlock, NoBlock
<1>2. CASE pending.gid # 0
  BY <1>2 DEF ForgetBlock, NoBlock
<1> QED BY <1>1, <1>2

------------------------------------------------------------------------------
(* A line is written. *)

LEMMA NextLine ==
  ASSUME IInv, todo # <<>>, todo' = Tail(todo), written' = written
  PROVE  /\ written # <<>> /\ e \in Event /\ e' = e
         /\ c \in Nat /\ LinesLen(e) \in Nat /\ c < LinesLen(e)
         /\ Len(todo) = LinesLen(e) - c
         /\ Head(todo) = Lines(e)[c + 1] /\ c' = c + 1
         /\ TodoIsLeft'
<1>1. written # <<>> /\ e \in Event
  BY Typed DEF IInv, TodoIsLeft
<1>2. e' = e
  BY DEF e
<1>3. /\ todo \in Seq(Line) /\ Len(todo) \in Nat /\ Len(todo) # 0
      /\ c \in 0 .. LinesLen(e) /\ LinesLen(e) \in Nat /\ Len(todo) = LinesLen(e) - c
  BY <1>1, TodoTyped
<1>4. \A k \in 1 .. Len(todo) : todo[k] = Lines(e)[c + k]
  BY <1>1 DEF IInv, TodoIsLeft
<1>5. /\ Head(todo) = todo[1] /\ todo' \in Seq(Line) /\ Len(todo') = Len(todo) - 1
      /\ \A k \in 1 .. Len(todo') : todo'[k] = todo[k + 1]
  BY <1>3, HeadTailProperties
<1> DEFINE n == Len(todo)
           m == LinesLen(e)
<1>6. c < m /\ c \in Nat
  <2> HIDE DEF n, m
  <2>1. n \in Nat /\ n # 0 /\ m \in Nat /\ c \in 0 .. m /\ n = m - c
    BY <1>3 DEF n, m
  <2> QED BY ONLY <2>1
<1>7. c' = c + 1
  <2>1. c' = LinesLen(e') - Len(todo')
    BY DEF c
  <2>2. c' = m - (n - 1)
    BY <1>2, <1>5, <2>1
  <2> HIDE DEF n, m
  <2>3. n \in Nat /\ m \in Nat /\ c \in 0 .. m /\ n = m - c
    BY <1>3 DEF n, m
  <2> QED BY <2>2, <2>3
<1>8. Head(todo) = Lines(e)[c + 1]
  <2>1. 1 \in 1 .. Len(todo)
    BY <1>3
  <2> QED BY <1>4, <1>5, <2>1
<1>9. TodoIsLeft'
  <2>1. Len(todo') <= LinesLen(e)
    <3> HIDE DEF n, m
    <3>1. n \in Nat /\ m \in Nat /\ c \in 0 .. m /\ n = m - c
      BY <1>3 DEF n, m
    <3>2. n - 1 <= m
      BY ONLY <3>1
    <3> QED BY <1>5, <3>2 DEF n, m
  <2>2. ASSUME NEW k \in 1 .. Len(todo') PROVE todo'[k] = Lines(e)[c' + k]
    <3> HIDE DEF n, m
    <3>1. k \in 1 .. n - 1 /\ n \in Nat
      BY <1>3, <1>5 DEF n
    <3>2. k + 1 \in 1 .. n /\ c + (k + 1) = (c + 1) + k
      BY <1>6, <3>1
    <3>3. todo[k + 1] = Lines(e)[c + (k + 1)]
      BY <1>4, <3>2 DEF n
    <3> QED BY <1>5, <1>7, <3>2, <3>3
  <2>3. written' # <<>>
    BY <1>1
  <2> QED BY <1>2, <1>5, <2>1, <2>2, <2>3 DEF TodoIsLeft
<1> QED BY <1>1, <1>2, <1>3, <1>6, <1>7, <1>8, <1>9

(* Which line of a section line k is. *)
LEMMA LineAt ==
  ASSUME NEW frames \in Seq(Written), NEW kind \in {"TransitionStack", "Stack"},
         NEW k \in 1 .. SectionLen(frames)
  PROVE  /\ frames # <<>>
         /\ \/ k = 1 /\ Section(kind, frames)[k].kind = kind
            \/ \E j \in DOMAIN frames :
                 k = 2 * j /\ Section(kind, frames)[k] = [kind |-> "func", fn |-> frames[j].fn]
            \/ \E j \in DOMAIN frames :
                 /\ k = 2 * j + 1
                 /\ Section(kind, frames)[k] =
                      [kind |-> IF frames[j].go THEN "file" ELSE "asm", fn |-> frames[j].fn]
            \/ /\ k = 2 * Len(frames) + 2 /\ k = SectionLen(frames)
               /\ Section(kind, frames)[k].kind = "empty"
<1> DEFINE n == Len(frames)
<1>1. frames # <<>> /\ SectionLen(frames) = 2 * n + 2
  BY DEF SectionLen
<1>2. n \in Nat /\ DOMAIN frames = 1 .. n
  BY LenProperties
<1> HIDE DEF n
<1>3. k = 1 \/ k = 2 * n + 2 \/ \E j \in 1 .. n : k = 2 * j \/ k = 2 * j + 1
  <2>1. k \in 1 .. 2 * n + 2
    BY <1>1
  <2>2. k # 1 /\ k # 2 * n + 2 => k - 1 \in 1 .. 2 * n
    BY <1>2, <2>1
  <2>3. \A j \in 1 .. n : (k - 1 = 2 * j - 1 => k = 2 * j) /\ (k - 1 = 2 * j => k = 2 * j + 1)
    BY <1>2, <2>1
  <2> QED BY <1>2, <2>2, <2>3, FuncOrFile
<1>4. /\ Section(kind, frames)[1] = SectionLine(kind)
      /\ Section(kind, frames)[2 * n + 2] = SectionLine("empty")
      /\ \A j \in 1 .. n :
           /\ Section(kind, frames)[2 * j] = [kind |-> "func", fn |-> frames[j].fn]
           /\ Section(kind, frames)[2 * j + 1] =
                [kind |-> IF frames[j].go THEN "file" ELSE "asm", fn |-> frames[j].fn]
  <2>1. /\ Section(kind, frames)[1] = SectionLine(kind)
        /\ Section(kind, frames)[2 * Len(frames) + 2] = SectionLine("empty")
        /\ \A j \in DOMAIN frames :
             /\ Section(kind, frames)[2 * j] = [kind |-> "func", fn |-> frames[j].fn]
             /\ Section(kind, frames)[2 * j + 1] =
                  [kind |-> IF frames[j].go THEN "file" ELSE "asm", fn |-> frames[j].fn]
    BY <1>1, SectionProperties
  <2> QED BY <1>2, <2>1 DEF n
<1>5. \A w \in {"TransitionStack", "Stack", "empty"} : SectionLine(w).kind = w
  BY DEF SectionLine
<1>6. CASE k = 1
  BY <1>1, <1>4, <1>5, <1>6
<1>7. CASE k = 2 * n + 2
  BY <1>1, <1>4, <1>5, <1>7 DEF n
<1>8. CASE \E j \in 1 .. n : k = 2 * j
  BY <1>1, <1>2, <1>4, <1>8
<1>9. CASE \E j \in 1 .. n : k = 2 * j + 1
  BY <1>1, <1>2, <1>4, <1>9
<1> QED BY <1>3, <1>6, <1>7, <1>8, <1>9

(* What the line does, by its kind. *)
LEMMA LineDoes ==
  ASSUME WriteLine
  PROVE  LET l == Head(todo)
         IN  /\ ~done /\ todo # <<>> /\ todo' = Tail(todo) /\ UNCHANGED <<written, done, err>>
             /\ l.kind = "empty" => EmptyLine
             /\ l.kind = "Stack" => StackLine
             /\ l.kind = "func" => FuncLine(l.fn)
             /\ l.kind = "file" => FileLine(l.fn)
             /\ l.kind \in {"TransitionStack", "asm"} => UNCHANGED <<blockVars, resultVars>>
<1> DEFINE l == Head(todo)
           K == l.kind
           Rest == UNCHANGED <<blockVars, resultVars>>
<1>1. (CASE K = "empty" -> EmptyLine
         [] K = "Stack" -> StackLine
         [] K = "func"  -> FuncLine(l.fn)
         [] K = "file"  -> FileLine(l.fn)
         [] OTHER       -> Rest)
  BY DEF WriteLine
<1> HIDE DEF Rest, l, K
<1>2. /\ K = "empty" => EmptyLine
      /\ K = "Stack" => StackLine
      /\ K = "func" => FuncLine(l.fn)
      /\ K = "file" => FileLine(l.fn)
      /\ K \in {"TransitionStack", "asm"} => Rest
  BY <1>1
<1>3. ~done /\ todo # <<>> /\ todo' = Tail(todo) /\ UNCHANGED <<written, done, err>>
  BY DEF WriteLine
<1> QED BY <1>2, <1>3 DEF Rest, l, K

(* Outside of a block no line counts. *)
LEMMA LineOutside ==
  ASSUME IInv, WriteLine, cur = "normal"
  PROVE  UNCHANGED <<blockVars, resultVars>>
<1>1. Head(todo).kind \in {"TransitionStack", "Stack", "empty", "func", "file", "asm"}
  <2>1. todo \in Seq(Line) /\ todo # <<>>
    BY TodoTyped, LineDoes
  <2>2. Head(todo) \in Line
    BY <2>1, HeadTailProperties
  <2> QED BY <2>2 DEF Line
<1> QED BY <1>1, LineDoes DEF EmptyLine, StackLine, FuncLine, FileLine

(* What line k of a section, l, adds to what is read of it. *)
LineReads(frames, kind, k, l, read) ==
  /\ l.kind \in {kind, "func", "file", "asm", "empty"}
  /\ l.kind \in {kind, "asm"} => SectionRead(frames, read, last, k)
  /\ l.kind = "func" =>
       /\ l.fn \in Func
       /\ SectionRead(frames, Saved(read), [SavedLast EXCEPT !.fn = l.fn], k)
  /\ l.kind = "file" =>
       /\ [fn |-> last.fn, file |-> l.fn] \in Frame /\ last.fn # None
       /\ SectionRead(frames, Append(read, [fn |-> last.fn, file |-> l.fn]), NothingRead, k)
  /\ l.kind = "empty" =>
       k = SectionLen(frames) /\ SectionRead(frames, Saved(read), SavedLast, k)

LEMMA ReadLine ==
  ASSUME IInv, NEW frames \in Seq(Written), NEW kind \in {"TransitionStack", "Stack"},
         NEW k \in 1 .. SectionLen(frames), NEW l, l = Section(kind, frames)[k],
         NEW read \in Seq(Frame), SectionRead(frames, read, last, k - 1)
  PROVE  LineReads(frames, kind, k, l, read)
<1> USE DEF LineReads
<1>1. Len(frames) \in Nat /\ DOMAIN frames = 1 .. Len(frames) /\ k \in Nat
  BY LenProperties, SectionProperties
<1>2. \A j \in DOMAIN frames : j \in Nat /\ frames[j].fn \in Func
  <2>1. \A j \in DOMAIN frames : frames[j] \in Written
    BY <1>1, ElementOfSeq
  <2> QED BY <1>1, <2>1 DEF Written
<1>3. frames # <<>>
  BY LineAt
<1>4. CASE k = 1 /\ l.kind = kind
  <2>1. SectionRead(frames, read, last, 0)
    BY <1>4
  <2>2. SectionRead(frames, read, last, k)
    BY <1>4, <2>1, SectionReadAt
  <2> QED BY <1>4, <2>2
<1>5. ASSUME NEW j \in DOMAIN frames, k = 2 * j, l = [kind |-> "func", fn |-> frames[j].fn]
      PROVE  /\ l.kind = "func" /\ l.fn \in Func
             /\ SectionRead(frames, Saved(read), [SavedLast EXCEPT !.fn = l.fn], k)
  <2>1. SectionRead(frames, read, last, 2 * j - 1)
    BY <1>5
  <2>2. SectionRead(frames, Saved(read), [SavedLast EXCEPT !.fn = frames[j].fn], 2 * j)
    BY <2>1, ReadFunc
  <2> QED BY <1>2, <1>5, <2>2
<1>6. ASSUME NEW j \in DOMAIN frames, k = 2 * j + 1,
             l = [kind |-> IF frames[j].go THEN "file" ELSE "asm", fn |-> frames[j].fn]
      PROVE  /\ l.kind \in {"file", "asm"}
             /\ l.kind = "asm" => SectionRead(frames, read, last, k)
             /\ l.kind = "file" =>
                  /\ [fn |-> last.fn, file |-> l.fn] \in Frame /\ last.fn # None
                  /\ SectionRead(frames, Append(read, [fn |-> last.fn, file |-> l.fn]),
                                 NothingRead, k)
  <2>1. k - 1 = 2 * j
    BY <1>2, <1>6
  <2>2. SectionRead(frames, read, last, 2 * j)
    BY <2>1
  <2>3. /\ last.fn # None
        /\ frames[j].go =>
             SectionRead(frames, Append(read, [fn |-> last.fn, file |-> frames[j].fn]),
                         NothingRead, 2 * j + 1)
        /\ ~frames[j].go => SectionRead(frames, read, last, 2 * j + 1)
    BY <2>2, ReadFile
  <2>4. [fn |-> last.fn, file |-> frames[j].fn] \in Frame
    BY <1>2, <2>3, Typed DEF Frame
  <2> QED BY <1>6, <2>3, <2>4
<1>7. CASE k = 2 * Len(frames) + 2 /\ k = SectionLen(frames) /\ l.kind = "empty"
  <2>1. k - 1 = 2 * Len(frames) + 1
    BY <1>1, <1>7
  <2>2. Saved(read) = FramesOf(frames, Len(frames)) /\ SavedLast = NothingRead
    BY <1>3, <2>1, ReadEmpty
  <2>3. SectionRead(frames, Saved(read), SavedLast, SectionLen(frames))
    BY <2>2, SectionReadAt DEF Ended
  <2> QED BY <1>7, <2>3
<1>8. \/ k = 1 /\ l.kind = kind
      \/ \E j \in DOMAIN frames : k = 2 * j /\ l = [kind |-> "func", fn |-> frames[j].fn]
      \/ \E j \in DOMAIN frames :
           /\ k = 2 * j + 1
           /\ l = [kind |-> IF frames[j].go THEN "file" ELSE "asm", fn |-> frames[j].fn]
      \/ k = 2 * Len(frames) + 2 /\ k = SectionLen(frames) /\ l.kind = "empty"
  <2>1. \/ k = 1 /\ Section(kind, frames)[k].kind = kind
        \/ \E j \in DOMAIN frames :
             k = 2 * j /\ Section(kind, frames)[k] = [kind |-> "func", fn |-> frames[j].fn]
        \/ \E j \in DOMAIN frames :
             /\ k = 2 * j + 1
             /\ Section(kind, frames)[k] =
                  [kind |-> IF frames[j].go THEN "file" ELSE "asm", fn |-> frames[j].fn]
        \/ /\ k = 2 * Len(frames) + 2 /\ k = SectionLen(frames)
           /\ Section(kind, frames)[k].kind = "empty"
    BY LineAt
  <2>2. l = Section(kind, frames)[k]
    OBVIOUS
  <2> QED BY ONLY <2>1, <2>2
<1>9. CASE \E j \in DOMAIN frames : k = 2 * j /\ l = [kind |-> "func", fn |-> frames[j].fn]
  BY <1>5, <1>9
<1>10. CASE \E j \in DOMAIN frames :
              /\ k = 2 * j + 1
              /\ l = [kind |-> IF frames[j].go THEN "file" ELSE "asm", fn |-> frames[j].fn]
  BY <1>6, <1>10
<1> QED BY <1>4, <1>7, <1>8, <1>9, <1>10

BlockTyped ==
  /\ transFrames \in Seq(Frame) /\ stackFrames \in Seq(Frame)
  /\ last \in [fn : Func \cup {None}, file : Func \cup {None}]

(* A line of a TransitionStack section, or the one that begins the Stack. *)
LEMMA LineInTransition ==
  ASSUME IInv, WriteLine, cur = "transition"
  PROVE  /\ UNCHANGED <<pending, resultVars>> /\ BlockTyped'
         /\ cur' \in {"transition", "stack"} /\ BlockIsRead'
<1> DEFINE a == SectionLen(e.trans)
           l == Head(todo)
<1>1. /\ ~done /\ ~done' /\ written # <<>> /\ written' # <<>> /\ e' = e /\ e.header.birth
      /\ pending = [gid |-> e.header.gid, by |-> e.header.by, time |-> e.header.time]
      /\ c <= a /\ stackFrames = <<>> /\ SectionRead(e.trans, transFrames, last, c)
  <2>1. /\ e.header.birth /\ TransitionIsRead
        /\ pending = [gid |-> e.header.gid, by |-> e.header.by, time |-> e.header.time]
    BY DEF IInv, BlockIsRead
  <2>2. ~done /\ done' = done /\ written' = written
    BY LineDoes
  <2> QED BY <2>1, <2>2, NextLine, LineDoes DEF TransitionIsRead
<1>2. /\ e.trans \in Seq(Written) /\ e.stack \in Seq(Written)
      /\ a \in Nat /\ SectionLen(e.stack) \in Nat
      /\ LinesLen(e) = a + SectionLen(e.stack)
      /\ \A k \in 1 .. a : Lines(e)[k] = Section("TransitionStack", e.trans)[k]
      /\ \A k \in 1 .. SectionLen(e.stack) : Lines(e)[a + k] = Section("Stack", e.stack)[k]
  BY NextLine, LineDoes, LinesProperties
<1>3. c \in Nat /\ c < LinesLen(e) /\ l = Lines(e)[c + 1] /\ c' = c + 1
  BY NextLine, LineDoes
<1>4. /\ transFrames \in Seq(Frame) /\ stackFrames \in Seq(Frame)
      /\ last \in [fn : Func \cup {None}, file : Func \cup {None}]
      /\ Saved(transFrames) \in Seq(Frame)
      /\ SavedLast \in [fn : Func \cup {None}, file : Func \cup {None}]
  BY Typed, SavedTyped
<1> HIDE DEF a, l
<1>5. CASE c + 1 <= a
  <2>1. c + 1 \in 1 .. a /\ (c + 1) - 1 = c
    BY <1>2, <1>3, <1>5
  <2>2. l = Section("TransitionStack", e.trans)[c + 1]
    BY <1>2, <1>3, <2>1
  <2>3. SectionRead(e.trans, transFrames, last, (c + 1) - 1)
    BY <1>1, <2>1
  <2>4. LineReads(e.trans, "TransitionStack", c + 1, l, transFrames)
    BY <1>2, <1>4, <2>1, <2>2, <2>3, ReadLine DEF a
  <2>5. /\ UNCHANGED <<cur, stackFrames, pending, resultVars>> /\ BlockTyped'
        /\ SectionRead(e.trans, transFrames', last', c + 1)
    <3>1. CASE l.kind \in {"TransitionStack", "asm"}
      <4>1. UNCHANGED <<blockVars, resultVars>>
        BY <3>1, LineDoes DEF l
      <4> QED BY <1>4, <2>4, <3>1, <4>1 DEF blockVars, BlockTyped, LineReads
    <3>2. CASE l.kind = "func"
      <4>1. FuncLine(l.fn)
        BY <3>2, LineDoes DEF l
      <4>2. /\ transFrames' = Saved(transFrames) /\ last' = [SavedLast EXCEPT !.fn = l.fn]
            /\ UNCHANGED <<cur, stackFrames, pending, resultVars>>
        BY <4>1 DEF FuncLine, SaveFrame
      <4> QED BY <1>4, <2>4, <3>2, <4>2 DEF BlockTyped, LineReads
    <3>3. CASE l.kind = "file"
      <4>1. FileLine(l.fn)
        BY <3>3, LineDoes DEF l
      <4>2. /\ transFrames' = Append(transFrames, [fn |-> last.fn, file |-> l.fn])
            /\ last' = NothingRead
            /\ UNCHANGED <<cur, stackFrames, pending, resultVars>>
        BY <2>4, <3>3, <4>1 DEF FileLine, LineReads
      <4>3. transFrames' \in Seq(Frame)
        BY <1>4, <2>4, <3>3, <4>2, AppendProperties DEF LineReads
      <4> QED BY <1>4, <2>4, <3>3, <4>2, <4>3 DEF BlockTyped, NothingRead, LineReads
    <3>4. CASE l.kind = "empty"
      <4>1. EmptyLine
        BY <3>4, LineDoes DEF l
      <4>2. /\ transFrames' = Saved(transFrames) /\ last' = SavedLast
            /\ UNCHANGED <<cur, stackFrames, pending, resultVars>>
        BY <4>1 DEF EmptyLine
      <4> QED BY <1>4, <2>4, <3>4, <4>2 DEF BlockTyped, LineReads
    <3> QED BY <2>4, <3>1, <3>2, <3>3, <3>4 DEF LineReads
  <2>6. TransitionIsRead'
    BY <1>1, <1>3, <1>5, <2>5 DEF TransitionIsRead, a
  <2> QED BY <1>1, <2>5, <2>6 DEF BlockIsRead
<1>6. CASE ~(c + 1 <= a)
  <2>1. c = a /\ 1 \in 1 .. SectionLen(e.stack)
    BY <1>1, <1>2, <1>3, <1>6
  <2>2. l = Section("Stack", e.stack)[1]
    BY <1>2, <1>3, <2>1
  <2>3. e.stack # <<>>
    BY <1>2, <2>1, LineAt
  <2>4. l.kind = "Stack" /\ SectionLen(e.stack) = 2 * Len(e.stack) + 2
    BY <1>2, <2>2, <2>3, SectionProperties DEF SectionLine, SectionLen
  <2>5. Len(e.stack) \in Nat /\ Len(e.trans) \in 0 .. Len(e.trans)
    BY <1>2, LenProperties
  <2>6. a < c' /\ c' - a = 1 /\ c' < LinesLen(e')
    BY <1>1, <1>2, <1>3, <2>1, <2>4, <2>5
  <2>7. StackLine
    BY <2>4, LineDoes DEF l
  <2>8. /\ transFrames' = Saved(transFrames) /\ last' = SavedLast
        /\ cur' = "stack" /\ UNCHANGED <<pending, stackFrames, resultVars>>
    BY <2>7 DEF StackLine
  <2>9. Ended(e.trans, transFrames, last)
    BY <1>1, <1>2, <2>1, SectionReadAt DEF a
  <2>10. transFrames' = FramesOf(e.trans, Len(e.trans)) /\ last' = NothingRead
    BY <2>8, <2>9 DEF Ended, Saved, SavedLast, NothingRead
  <2>11. SectionRead(e.stack, stackFrames', last', 1)
    BY <1>1, <1>2, <2>8, <2>10, SectionReadAt DEF Begun
  <2>12. StackIsRead'
    BY <1>1, <2>6, <2>10, <2>11 DEF StackIsRead, a
  <2>13. BlockTyped'
    BY <1>4, <2>8 DEF BlockTyped
  <2> QED BY <1>1, <2>8, <2>12, <2>13 DEF BlockIsRead
<1> QED BY <1>5, <1>6

(* A line of a Stack section; its last one closes the block. *)
LEMMA LineInStack ==
  ASSUME IInv, WriteLine, cur = "stack"
  PROVE  \/ /\ UNCHANGED <<pending, resultVars>> /\ BlockTyped'
            /\ cur' = "stack" /\ BlockIsRead'
         \/ /\ BlockEnds /\ goroutines' = Committed /\ ForgetBlock
            /\ cur' = "normal" /\ UNCHANGED <<events, minTime, maxTime>>
<1> DEFINE a == SectionLen(e.trans)
           b == SectionLen(e.stack)
           l == Head(todo)
           k == (c + 1) - a
<1>1. /\ ~done /\ ~done' /\ written # <<>> /\ written' # <<>> /\ e' = e /\ e.header.birth
      /\ pending = [gid |-> e.header.gid, by |-> e.header.by, time |-> e.header.time]
      /\ a < c /\ transFrames = FramesOf(e.trans, Len(e.trans))
      /\ SectionRead(e.stack, stackFrames, last, c - a)
  <2>1. /\ e.header.birth /\ StackIsRead
        /\ pending = [gid |-> e.header.gid, by |-> e.header.by, time |-> e.header.time]
    BY DEF IInv, BlockIsRead
  <2>2. ~done /\ done' = done /\ written' = written
    BY LineDoes
  <2> QED BY <2>1, <2>2, NextLine, LineDoes DEF StackIsRead
<1>2. /\ e.trans \in Seq(Written) /\ e.stack \in Seq(Written)
      /\ a \in Nat /\ b \in Nat /\ LinesLen(e) = a + b
      /\ \A i \in 1 .. b : Lines(e)[a + i] = Section("Stack", e.stack)[i]
  BY NextLine, LineDoes, LinesProperties
<1>3. /\ c \in Nat /\ c < LinesLen(e) /\ l = Lines(e)[c + 1] /\ c' = c + 1
      /\ Len(todo) = LinesLen(e) - c
  BY NextLine, LineDoes
<1>4. /\ transFrames \in Seq(Frame) /\ stackFrames \in Seq(Frame)
      /\ last \in [fn : Func \cup {None}, file : Func \cup {None}]
      /\ Saved(stackFrames) \in Seq(Frame)
      /\ SavedLast \in [fn : Func \cup {None}, file : Func \cup {None}]
  BY Typed, SavedTyped
<1> HIDE DEF a, b, l
<1>5. /\ k \in 1 .. b /\ k - 1 = c - a /\ a + k = c + 1 /\ k # 1 /\ c' - a = k
      /\ k # b => c' < LinesLen(e)
      /\ k = b => Len(todo) = 1
      /\ a < c'
  BY <1>1, <1>2, <1>3
<1> HIDE DEF k
<1>6. l = Section("Stack", e.stack)[k]
  BY <1>2, <1>3, <1>5
<1>7. SectionRead(e.stack, stackFrames, last, k - 1)
  BY <1>1, <1>5
<1>8. LineReads(e.stack, "Stack", k, l, stackFrames)
  BY <1>2, <1>4, <1>5, <1>6, <1>7, ReadLine DEF b
<1>9. e.stack # <<>> /\ l.kind # "Stack" /\ (l.kind # "empty" => k # b)
  <2>1. \A j \in DOMAIN e.stack : 2 * j # b /\ 2 * j + 1 # b
    BY <1>2, LenProperties DEF b, SectionLen
  <2>2. /\ e.stack # <<>>
        /\ \/ k = 1 /\ l.kind = "Stack"
           \/ \E j \in DOMAIN e.stack :
                k = 2 * j /\ l = [kind |-> "func", fn |-> e.stack[j].fn]
           \/ \E j \in DOMAIN e.stack :
                /\ k = 2 * j + 1
                /\ l = [kind |-> IF e.stack[j].go THEN "file" ELSE "asm", fn |-> e.stack[j].fn]
           \/ k = 2 * Len(e.stack) + 2 /\ k = b /\ l.kind = "empty"
    BY <1>2, <1>5, <1>6, LineAt DEF b
  <2> QED BY <1>5, <2>1, <2>2
<1>10. CASE l.kind = "empty"
  <2>1. EmptyLine
    BY <1>10, LineDoes DEF l
  <2>2. /\ goroutines' = Committed /\ ForgetBlock
        /\ cur' = "normal" /\ UNCHANGED <<events, minTime, maxTime>>
    BY <2>1 DEF EmptyLine
  <2>3. BlockEnds
    BY <1>5, <1>8, <1>10 DEF BlockEnds, LineReads, b
  <2> QED BY <2>2, <2>3
<1>11. CASE l.kind # "empty"
  <2>1. /\ UNCHANGED <<cur, transFrames, pending, resultVars>> /\ BlockTyped'
        /\ SectionRead(e.stack, stackFrames', last', k)
    <3>1. CASE l.kind = "asm"
      <4>1. UNCHANGED <<blockVars, resultVars>>
        BY <3>1, LineDoes DEF l
      <4> QED BY <1>4, <1>8, <3>1, <4>1 DEF blockVars, BlockTyped, LineReads
    <3>2. CASE l.kind = "func"
      <4>1. FuncLine(l.fn)
        BY <3>2, LineDoes DEF l
      <4>2. /\ stackFrames' = Saved(stackFrames) /\ last' = [SavedLast EXCEPT !.fn = l.fn]
            /\ UNCHANGED <<cur, transFrames, pending, resultVars>>
        BY <4>1 DEF FuncLine, SaveFrame
      <4> QED BY <1>4, <1>8, <3>2, <4>2 DEF BlockTyped, LineReads
    <3>3. CASE l.kind = "file"
      <4>1. FileLine(l.fn)
        BY <3>3, LineDoes DEF l
      <4>2. /\ stackFrames' = Append(stackFrames, [fn |-> last.fn, file |-> l.fn])
            /\ last' = NothingRead
            /\ UNCHANGED <<cur, transFrames, pending, resultVars>>
        BY <1>8, <3>3, <4>1 DEF FileLine, LineReads
      <4>3. stackFrames' \in Seq(Frame)
        BY <1>4, <1>8, <3>3, <4>2, AppendProperties DEF LineReads
      <4> QED BY <1>4, <1>8, <3>3, <4>2, <4>3 DEF BlockTyped, NothingRead, LineReads
    <3> QED BY <1>8, <1>9, <1>11, <3>1, <3>2, <3>3 DEF LineReads
  <2>2. StackIsRead'
    BY <1>1, <1>5, <1>9, <1>11, <2>1 DEF StackIsRead, a
  <2> QED BY <1>1, <2>1, <2>2 DEF BlockIsRead
<1> QED BY <1>10, <1>11

------------------------------------------------------------------------------
(* The steps keep the invariant. *)

LEMMA InitIInv ==
  ASSUME Init
  PROVE  IInv
<1>1. /\ written = <<>> /\ todo = <<>> /\ cur = "normal" /\ pending = NoPending
      /\ transFrames = <<>> /\ stackFrames = <<>> /\ last = NothingRead
      /\ events = <<>> /\ goroutines = [g \in {} |-> None]
      /\ minTime = 0 /\ maxTime = 0 /\ done = FALSE /\ err = FALSE
  BY DEF Init
<1>2. DOMAIN written = {} /\ DOMAIN goroutines = {} /\ DOMAIN events = {} /\ Len(written) = 0
  BY <1>1
<1>3. TypeOK
  <2>1. /\ written \in Seq(Event) /\ transFrames \in Seq(Frame) /\ stackFrames \in Seq(Frame)
        /\ events \in Seq(Header)
    BY <1>1, EmptySeq
  <2>2. done \in BOOLEAN /\ err \in BOOLEAN
    BY <1>1, Zenon
  <2>3. 0 \in 0 .. MaxEvents /\ Len(written) <= MaxEvents
    BY <1>2, TraceAssumption
  <2>4. /\ pending \in [gid : Gid \cup {0}, by : Gid \cup {0}, time : 0 .. MaxEvents]
        /\ last \in [fn : Func \cup {None}, file : Func \cup {None}]
        /\ pending.gid = 0
    BY <1>1, <2>3 DEF NoPending, NothingRead
  <2> QED BY <1>1, <1>2, <2>1, <2>2, <2>3, <2>4 DEF TypeOK
<1>4. Headers = {} /\ Transitions = {} /\ \A g \in Gid : Of(g) = {}
  BY <1>2 DEF Headers, Transitions, Of
<1>5. InOrder(events, Transitions)
  BY <1>2, <1>4 DEF InOrder, Range
<1>6. AllIsRecorded
  BY <1>2, <1>4, <1>5 DEF AllIsRecorded
<1>7. TraceIsPossible /\ TodoIsLeft /\ CreationsAreRead
  BY <1>1, <1>2 DEF TraceIsPossible, TodoIsLeft, CreationsAreRead
<1>8. BlockIsRead /\ TimesAreUnset /\ DoneIsClosed
  BY <1>1 DEF BlockIsRead, NoBlock, TimesAreUnset, DoneIsClosed
<1> QED BY <1>3, <1>6, <1>7, <1>8 DEF IInv

(* A step that changes what is read of the block only. *)
LEMMA ReadingKeeps ==
  ASSUME IInv, ~done, UNCHANGED <<written, done, err, pending, resultVars>>,
         TodoIsLeft', BlockIsRead', BlockTyped',
         cur' \in {"normal", "transition", "stack"}, cur' = "normal" <=> cur = "normal"
  PROVE  IInv'
<1>1. TypeOK'
  BY DEF IInv, TypeOK, BlockTyped, resultVars
<1>2. TraceIsPossible' /\ CreationsAreRead' /\ AllIsRecorded' /\ TimesAreUnset'
  <2>1. Headers' = Headers
    BY DEF Headers
  <2>2. Transitions' = Transitions /\ \A g : Of(g)' = Of(g)
    BY <2>1 DEF Transitions, Of
  <2>3. TraceIsPossible'
    BY DEF IInv, TraceIsPossible
  <2>4. \A i, g : IsBirth(i, g)' <=> IsBirth(i, g)
    BY DEF IsBirth
  <2>5. CreationsAreRead'
    BY <2>4 DEF IInv, CreationsAreRead, resultVars
  <2>6. AllIsRecorded' /\ TimesAreUnset'
    BY <2>2 DEF IInv, AllIsRecorded, TimesAreUnset, resultVars
  <2> QED BY <2>3, <2>5, <2>6
<1>3. DoneIsClosed'
  BY DEF DoneIsClosed
<1> QED BY <1>1, <1>2, <1>3 DEF IInv

(* A step that commits the open block, if any, and records nothing. *)
LEMMA CommitKeeps ==
  ASSUME IInv, BlockEnds, goroutines' = Committed, ForgetBlock, cur' = "normal",
         UNCHANGED <<events, minTime, maxTime>>,
         TraceIsPossible', TodoIsLeft', done' \in BOOLEAN, err' \in BOOLEAN, done' => todo' = <<>>,
         written' \in Seq(Event), Len(written') <= MaxEvents,
         \A i \in DOMAIN written : i \in DOMAIN written' /\ written'[i] = written[i],
         \A i \in DOMAIN written' : written'[i].header.birth => i \in DOMAIN written,
         Transitions' = Transitions, \A g \in Gid : Of(g)' = Of(g)
  PROVE  IInv'
<1>1. NoBlock'
  BY BlockForgotten
<1>2. pending'.gid = 0 /\ pending' = NoPending
  BY <1>1 DEF NoBlock, NoPending
<1>3. /\ DOMAIN goroutines' = DOMAIN goroutines
      /\ \A g \in DOMAIN goroutines :
           /\ goroutines'[g] \in Info
           /\ goroutines'[g].events = goroutines[g].events
           /\ goroutines'[g].firstSeen = goroutines[g].firstSeen
           /\ goroutines'[g].lastSeen = goroutines[g].lastSeen
  BY CommittedProperties
<1>4. TypeOK'
  <2>1. /\ transFrames' \in Seq(Frame) /\ stackFrames' \in Seq(Frame)
        /\ last' \in [fn : Func \cup {None}, file : Func \cup {None}]
    BY <1>1, EmptySeq DEF NoBlock, NothingRead
  <2>2. pending' \in [gid : Gid \cup {0}, by : Gid \cup {0}, time : 0 .. MaxEvents]
    BY <1>2, TraceAssumption DEF NoPending
  <2> QED BY <1>2, <1>3, <2>1, <2>2 DEF IInv, TypeOK
<1>5. BlockIsRead'
  BY <1>1 DEF BlockIsRead
<1>6. CreationsAreRead'
  <2>1. ASSUME NEW i \in DOMAIN written', NEW g \in Gid, IsBirth(i, g)'
        PROVE  g \in DOMAIN goroutines' /\ goroutines'[g].creation = CreationRead(written'[i])
    <3>1. i \in DOMAIN written /\ IsBirth(i, g) /\ written'[i] = written[i]
      BY <2>1 DEF IsBirth
    <3> QED BY <3>1, CommitClosesBlock
  <2>2. ASSUME NEW g \in DOMAIN goroutines', goroutines'[g].creation # None
        PROVE  g # 0 /\ \E i \in DOMAIN written' : IsBirth(i, g)'
    <3>1. PICK i \in DOMAIN written : IsBirth(i, g)
      BY <2>2, CommitClosesBlock
    <3>2. i \in DOMAIN written' /\ IsBirth(i, g)'
      BY <3>1 DEF IsBirth
    <3>3. g # 0
      BY <1>3, Typed
    <3> QED BY <3>2, <3>3
  <2> QED BY <1>2, <2>1, <2>2 DEF CreationsAreRead
<1>7. AllIsRecorded'
  BY <1>3, CommittedProperties DEF IInv, AllIsRecorded
<1>8. TimesAreUnset' /\ DoneIsClosed'
  BY DEF IInv, TimesAreUnset, DoneIsClosed
<1> QED BY <1>4, <1>5, <1>6, <1>7, <1>8 DEF IInv

LEMMA LineKeeps ==
  ASSUME IInv, WriteLine
  PROVE  IInv'
<1>1. ~done /\ todo # <<>> /\ todo' = Tail(todo) /\ UNCHANGED <<written, done, err>>
  BY LineDoes
<1>2. TodoIsLeft'
  BY <1>1, NextLine
<1>3. cur \in {"normal", "transition", "stack"}
  BY Typed DEF TypeOK
<1>4. CASE cur = "normal"
  <2>1. UNCHANGED <<blockVars, resultVars>>
    BY <1>4, LineOutside
  <2>2. NoBlock /\ BlockTyped
    BY <1>4, Typed DEF IInv, BlockIsRead, BlockTyped
  <2>3. NoBlock' /\ BlockTyped' /\ cur' = cur /\ UNCHANGED <<pending, resultVars>>
    BY <2>1, <2>2 DEF NoBlock, BlockTyped, blockVars
  <2>4. BlockIsRead'
    BY <1>4, <2>3 DEF BlockIsRead
  <2> QED BY <1>1, <1>2, <1>4, <2>3, <2>4, ReadingKeeps
<1>5. CASE cur = "transition"
  BY <1>1, <1>2, <1>5, LineInTransition, ReadingKeeps
<1>6. CASE cur = "stack"
  <2>1. CASE /\ UNCHANGED <<pending, resultVars>> /\ BlockTyped'
             /\ cur' = "stack" /\ BlockIsRead'
    BY <1>1, <1>2, <1>6, <2>1, ReadingKeeps
  <2>2. CASE /\ BlockEnds /\ goroutines' = Committed /\ ForgetBlock
             /\ cur' = "normal" /\ UNCHANGED <<events, minTime, maxTime>>
    <3>1. Headers' = Headers
      BY <1>1 DEF Headers
    <3>2. Transitions' = Transitions /\ \A g \in Gid : Of(g)' = Of(g)
      BY <3>1 DEF Transitions, Of
    <3>3. TraceIsPossible'
      BY <1>1 DEF IInv, TraceIsPossible
    <3>4. written' \in Seq(Event) /\ Len(written') <= MaxEvents
      BY <1>1 DEF IInv, TypeOK
    <3>5. done' \in BOOLEAN /\ ~done' /\ err' \in BOOLEAN
      BY <1>1 DEF IInv, TypeOK
    <3> QED BY <1>1, <1>2, <2>2, <3>2, <3>3, <3>4, <3>5, CommitKeeps
  <2> QED BY <1>6, <2>1, <2>2, LineInStack
<1> QED BY <1>3, <1>4, <1>5, <1>6

LEMMA EndKeeps ==
  ASSUME IInv, End
  PROVE  IInv'
<1>1. /\ todo = <<>> /\ done' = TRUE /\ goroutines' = Committed /\ ForgetBlock
      /\ cur' = "normal" /\ UNCHANGED <<written, todo, events, minTime, maxTime, err>>
  BY DEF End, writerVars
<1>2. Headers' = Headers
  BY <1>1 DEF Headers
<1>3. Transitions' = Transitions /\ \A g \in Gid : Of(g)' = Of(g)
  BY <1>2 DEF Transitions, Of
<1>4. TraceIsPossible'
  BY <1>1 DEF IInv, TraceIsPossible
<1>5. TodoIsLeft'
  <2>1. e' = e /\ c' = c
    BY <1>1 DEF e, c
  <2> QED BY <1>1, <2>1 DEF IInv, TodoIsLeft
<1>6. written' \in Seq(Event) /\ Len(written') <= MaxEvents
  BY <1>1 DEF IInv, TypeOK
<1>7. BlockEnds
  BY <1>1 DEF BlockEnds
<1>8. done' \in BOOLEAN /\ err' \in BOOLEAN
  <2>1. done' \in BOOLEAN
    BY <1>1, Zenon
  <2> QED BY <1>1, <2>1 DEF IInv, TypeOK
<1> QED BY <1>1, <1>3, <1>4, <1>5, <1>6, <1>7, <1>8, CommitKeeps

(* What every header adds to the trace. *)
LEMMA HeaderIsWritten ==
  ASSUME IInv, NEW x \in Event, x.header.time = Len(written) + 1, Possible(x.header),
         written' = Append(written, x), todo' = Lines(x), Len(written) < MaxEvents
  PROVE  /\ TraceIsPossible' /\ TodoIsLeft' /\ c' = 0
         /\ written' \in Seq(Event) /\ Len(written') <= MaxEvents
<1> DEFINE n == Len(written)
<1>1. /\ written' \in Seq(Event) /\ Len(written') = n + 1 /\ DOMAIN written' = 1 .. n + 1
      /\ written' # <<>> /\ e' = x
      /\ \A i \in DOMAIN written : written'[i] = written[i]
      /\ \A i \in DOMAIN written' : i \in DOMAIN written \/ i = n + 1
      /\ written'[n + 1] = x
  BY TraceGrows
<1>2. n \in Nat /\ DOMAIN written = 1 .. n /\ MaxEvents \in Nat
  BY Typed
<1>3. /\ LinesLen(x) \in Nat /\ Lines(x) \in Seq(Line) /\ Len(Lines(x)) = LinesLen(x)
  BY LinesProperties
<1>4. c' = 0
  <2>1. c' = LinesLen(e') - Len(todo')
    BY DEF c
  <2> QED BY <1>1, <1>3, <2>1
<1>5. TodoIsLeft'
  <2>1. \A k \in 1 .. Len(todo') : 0 + k = k
    BY <1>3
  <2> QED BY <1>1, <1>3, <1>4, <2>1 DEF TodoIsLeft
<1>6. TraceIsPossible'
  <2>1. ASSUME NEW i \in DOMAIN written'
        PROVE  /\ written'[i].header.time = i
               /\ written'[i].header.birth =>
                    /\ written'[i].header.gid # 0
                    /\ \A j \in 1 .. i - 1 : written'[j].header.gid # written'[i].header.gid
    <3> HIDE DEF n
    <3>1. CASE i \in DOMAIN written
      <4>1. \A j \in 1 .. i - 1 : j \in DOMAIN written
        BY <1>2, <3>1
      <4> QED BY <1>1, <3>1, <4>1 DEF IInv, TraceIsPossible
    <3>2. CASE i = n + 1
      <4>1. \A j \in 1 .. i - 1 : j \in DOMAIN written
        BY <1>2, <3>2
      <4>2. x.header.birth => /\ x.header.gid # 0
                              /\ \A j \in DOMAIN written : written[j].header.gid # x.header.gid
        BY DEF Possible
      <4> QED BY <1>1, <3>2, <4>1, <4>2 DEF n
    <3> QED BY <1>1, <2>1, <3>1, <3>2 DEF n
  <2> QED BY <2>1 DEF TraceIsPossible
<1>7. Len(written') <= MaxEvents
  <2> HIDE DEF n
  <2>1. n + 1 <= MaxEvents
    BY <1>2 DEF n
  <2> QED BY <1>1, <2>1
<1> QED BY <1>1, <1>4, <1>5, <1>6, <1>7

(* A header that is no transition. *)
LEMMA OtherHeaderKeeps ==
  ASSUME IInv, ~done, done' = done, err' = err, todo = <<>>, NEW x \in Event,
         x.header.time = Len(written) + 1, Possible(x.header), x.header.gid = 0,
         written' = Append(written, x), todo' = Lines(x), Len(written) < MaxEvents,
         OtherHeader
  PROVE  IInv'
<1>1. /\ TraceIsPossible' /\ TodoIsLeft'
      /\ written' \in Seq(Event) /\ Len(written') <= MaxEvents
  BY HeaderIsWritten
<1>2. /\ \A i \in DOMAIN written : i \in DOMAIN written' /\ written'[i] = written[i]
      /\ \A i \in DOMAIN written' : i \in DOMAIN written \/ written'[i] = x
      /\ Transitions' = Transitions /\ \A g \in Gid : Of(g)' = Of(g)
  <2>1. \A g \in Gid : x.header.gid # g
    BY Typed
  <2> QED BY <2>1, TraceGrows
<1>3. ~x.header.birth
  BY DEF Possible
<1>4. /\ BlockEnds /\ goroutines' = Committed /\ ForgetBlock /\ cur' = "normal"
      /\ UNCHANGED <<events, minTime, maxTime>>
  BY DEF BlockEnds, OtherHeader
<1>5. done' \in BOOLEAN /\ ~done' /\ err' \in BOOLEAN
  BY DEF IInv, TypeOK
<1>6. \A i \in DOMAIN written' : written'[i].header.birth => i \in DOMAIN written
  BY <1>2, <1>3
<1> QED BY <1>1, <1>2, <1>4, <1>5, <1>6, CommitKeeps

(* The goroutine's entry gets the transition, after the commit. *)
LEMMA TransitionRecords ==
  ASSUME IInv, NEW h \in Header, h.gid \in Gid, \A x \in Headers : x.time < h.time,
         Transition(h)
  PROVE  /\ DOMAIN goroutines' = DOMAIN goroutines \cup {h.gid}
         /\ \A g \in DOMAIN goroutines : g # h.gid => goroutines'[g] = Committed[g]
         /\ goroutines'[h.gid] \in Info
         /\ IsRecord(goroutines'[h.gid], Of(h.gid) \cup {h})
         /\ goroutines'[h.gid].creation =
              IF h.gid \in DOMAIN goroutines THEN Committed[h.gid].creation ELSE None
<1> DEFINE r == Entry(Committed, h.gid, h.time)
           q == [r EXCEPT !.events = Append(@, h), !.lastSeen = h.time]
           S == Of(h.gid)
<1>1. goroutines' = [y \in DOMAIN Committed \cup {h.gid} |-> IF y = h.gid THEN q ELSE Committed[y]]
  BY DEF Transition, Put
<1>2. DOMAIN Committed = DOMAIN goroutines
  BY CommittedProperties
<1>3. IF S = {} THEN h.gid \notin DOMAIN goroutines
      ELSE h.gid \in DOMAIN goroutines /\ IsRecord(goroutines[h.gid], S)
  BY DEF IInv, AllIsRecorded, IsRecord
<1>4. /\ r \in Info
      /\ IF S = {} THEN r.events = <<>> /\ r.firstSeen = h.time ELSE IsRecord(r, S)
      /\ r.creation = IF h.gid \in DOMAIN goroutines THEN Committed[h.gid].creation ELSE None
  <2>1. CASE h.gid \in DOMAIN goroutines
    <3>1. r = Committed[h.gid] /\ S # {}
      BY <1>2, <1>3, <2>1 DEF Entry
    <3> HIDE DEF r
    <3>2. /\ r \in Info /\ r.events = goroutines[h.gid].events
          /\ r.firstSeen = goroutines[h.gid].firstSeen /\ r.lastSeen = goroutines[h.gid].lastSeen
      BY <2>1, <3>1, CommittedProperties
    <3> QED BY <1>3, <2>1, <3>1, <3>2 DEF IsRecord
  <2>2. CASE h.gid \notin DOMAIN goroutines
    <3>1. r = [events |-> <<>>, firstSeen |-> h.time, lastSeen |-> 0, creation |-> None]
      BY <1>2, <2>2 DEF Entry
    <3> HIDE DEF r
    <3>2. h.time \in 0 .. MaxEvents /\ 0 \in 0 .. MaxEvents /\ <<>> \in Seq(Header)
      BY TraceAssumption, EmptySeq DEF Header
    <3>3. r \in Info
      BY <3>1, <3>2 DEF Info
    <3> QED BY <1>3, <2>2, <3>1, <3>3
  <2> QED BY <2>1, <2>2
<1>5. \A x \in S : x.time < h.time
  BY DEF Of
<1> HIDE DEF r
<1>6. q \in Info /\ IsRecord(q, S \cup {h})
  BY <1>4, <1>5, RecordGrows
<1>7. q.creation = r.creation
  BY <1>4 DEF Info
<1> HIDE DEF q
<1> QED BY <1>1, <1>2, <1>4, <1>6, <1>7

LEMMA TransitionKeeps ==
  ASSUME IInv, ~done, done' = done, err' = err, todo = <<>>, NEW x \in Event,
         x.header.time = Len(written) + 1, Possible(x.header), x.header.gid # 0,
         written' = Append(written, x), todo' = Lines(x), Len(written) < MaxEvents,
         Transition(x.header)
  PROVE  IInv'
<1> DEFINE h == x.header
<1>1. /\ TraceIsPossible' /\ TodoIsLeft' /\ c' = 0
      /\ written' \in Seq(Event) /\ Len(written') <= MaxEvents
  BY HeaderIsWritten
<1>2. /\ \A i \in DOMAIN written : i \in DOMAIN written' /\ written'[i] = written[i]
      /\ \A i \in DOMAIN written' : i \in DOMAIN written \/ i = Len(written) + 1
      /\ Len(written) + 1 \in DOMAIN written' /\ written'[Len(written) + 1] = x
      /\ e' = x /\ written' # <<>>
      /\ \A y \in Headers : y \in Header /\ y.time < h.time
      /\ Transitions' = Transitions \cup {h}
      /\ \A g \in Gid : Of(g)' = IF h.gid = g THEN Of(g) \cup {h} ELSE Of(g)
  BY TraceGrows
<1>3. h \in Header /\ h.gid \in Gid /\ h.time \in 1 .. MaxEvents /\ h.by \in Gid \cup {0}
      /\ h.birth \in BOOLEAN
  BY DEF Event, Header
<1>4. BlockEnds
  BY DEF BlockEnds
<1> HIDE DEF h
<1>5. Transition(h) /\ Possible(h)
  BY DEF h
<1>6. /\ events' = Append(events, h)
      /\ minTime' = IF minTime = 0 \/ h.time < minTime THEN h.time ELSE minTime
      /\ maxTime' = IF h.time > maxTime THEN h.time ELSE maxTime
  BY <1>5 DEF Transition
<1>7. /\ DOMAIN goroutines' = DOMAIN goroutines \cup {h.gid}
      /\ \A g \in DOMAIN goroutines : g # h.gid => goroutines'[g] = Committed[g]
      /\ goroutines'[h.gid] \in Info
      /\ IsRecord(goroutines'[h.gid], Of(h.gid) \cup {h})
      /\ goroutines'[h.gid].creation =
           IF h.gid \in DOMAIN goroutines THEN Committed[h.gid].creation ELSE None
  BY <1>2, <1>3, <1>5, TransitionRecords
<1>8. InOrder(events, Transitions) /\ \A y \in Transitions : y.time < h.time
  <2>1. InOrder(events, Transitions)
    BY DEF IInv, AllIsRecorded
  <2>2. \A y \in Transitions : y.time < h.time
    BY <1>2 DEF Transitions
  <2> QED BY <2>1, <2>2
<1>9. /\ events' \in Seq(Header) /\ InOrder(events', Transitions') /\ Last(events') = h
      /\ events'[1] = IF Transitions = {} THEN h ELSE events[1]
  <2>1. events \in Seq(Header) /\ h \in Header
    BY <1>3, Typed
  <2>2. /\ Append(events, h) \in Seq(Header) /\ InOrder(Append(events, h), Transitions \cup {h})
        /\ Append(events, h)[1] = IF Transitions = {} THEN h ELSE events[1]
        /\ Last(Append(events, h)) = h
    BY ONLY <1>8, <2>1, InOrderAppend
  <2> HIDE DEF Last
  <2> QED BY <1>2, <1>6, <2>2
<1>10. minTime' = events'[1].time /\ maxTime' = h.time
  <2>1. CASE Transitions = {}
    <3>1. minTime = 0 /\ maxTime = 0
      BY <2>1 DEF IInv, TimesAreUnset
    <3> QED BY <1>3, <1>6, <1>9, <2>1, <3>1
  <2>2. CASE Transitions # {}
    <3>1. minTime = events[1].time /\ maxTime = Last(events).time
      BY <2>2 DEF IInv, AllIsRecorded
    <3>2. events[1] \in Transitions /\ Last(events) \in Transitions
      BY <1>8, <2>2, Typed, InOrderEmpty
    <3>3. /\ events[1].time \in 1 .. MaxEvents /\ Last(events).time \in 1 .. MaxEvents
          /\ events[1].time < h.time /\ Last(events).time < h.time
      BY <1>2, <1>8, <3>2 DEF Transitions, Header
    <3> QED BY <1>3, <1>6, <1>9, <2>2, <3>1, <3>3
  <2> QED BY <2>1, <2>2
<1>11. /\ IF h.birth THEN cur' = "transition" /\ pending' = [gid |-> h.gid, by |-> h.by, time |-> h.time]
          ELSE cur' = "normal" /\ pending' = NoPending
       /\ transFrames' = <<>> /\ stackFrames' = <<>> /\ last' = NothingRead
  <2>1. CASE h.birth
    <3>1. pending.gid = 0 => transFrames = <<>> /\ stackFrames = <<>> /\ last = NothingRead
      BY DEF IInv, TypeOK, BlockIsRead, NoBlock
    <3> QED BY <1>5, <2>1, <3>1 DEF Transition
  <2>2. CASE ~h.birth
    <3>1. cur' = "normal" /\ ForgetBlock
      BY <1>5, <2>2 DEF Transition
    <3> QED BY <2>2, <3>1, BlockForgotten DEF NoBlock
  <2> QED BY <2>1, <2>2
<1>12. TypeOK'
  <2>1. /\ transFrames' \in Seq(Frame) /\ stackFrames' \in Seq(Frame)
        /\ last' \in [fn : Func \cup {None}, file : Func \cup {None}]
    BY <1>11, EmptySeq DEF NothingRead
  <2>2. /\ pending' \in [gid : Gid \cup {0}, by : Gid \cup {0}, time : 0 .. MaxEvents]
        /\ cur' \in {"normal", "transition", "stack"}
        /\ cur' = "normal" <=> pending'.gid = 0
    <3>1. h.gid # 0 /\ h.time \in 0 .. MaxEvents /\ 0 \in 0 .. MaxEvents
      BY <1>3, TraceAssumption
    <3> QED BY <1>3, <1>11, <3>1 DEF NoPending
  <2>3. DOMAIN goroutines' \subseteq Gid
    BY <1>3, <1>7, Typed
  <2>4. \A g \in DOMAIN goroutines' : goroutines'[g] \in Info
    BY <1>7, CommittedProperties
  <2>5. minTime' \in 0 .. MaxEvents /\ maxTime' \in 0 .. MaxEvents
    BY <1>3, <1>6 DEF IInv, TypeOK
  <2>6. done' \in BOOLEAN /\ err' \in BOOLEAN
    BY DEF IInv, TypeOK
  <2> QED BY <1>1, <1>9, <2>1, <2>2, <2>3, <2>4, <2>5, <2>6 DEF TypeOK
<1>13. BlockIsRead'
  <2>1. CASE h.birth
    <3>1. cur' = "transition" /\ pending' = [gid |-> h.gid, by |-> h.by, time |-> h.time]
      BY <1>11, <2>1
    <3>2. x.trans \in Seq(Written) /\ SectionLen(x.trans) \in Nat
      BY LinesProperties
    <3>3. SectionRead(x.trans, transFrames', last', 0)
      BY <1>11, <3>2, SectionReadAt DEF Begun
    <3>4. TransitionIsRead'
      BY <1>1, <1>2, <1>11, <3>2, <3>3 DEF TransitionIsRead
    <3> QED BY <1>2, <2>1, <3>1, <3>4 DEF BlockIsRead, h
  <2>2. CASE ~h.birth
    BY <1>11, <2>2 DEF BlockIsRead, NoBlock
  <2> QED BY <2>1, <2>2
<1>14. CreationsAreRead'
  <2>1. h.birth => h.gid \notin DOMAIN goroutines
    <3>1. h.birth => Of(h.gid) = {}
      BY <1>5 DEF Possible, Of, Headers
    <3> QED BY <1>3, <3>1 DEF IInv, AllIsRecorded
  <2>2. \A g \in DOMAIN goroutines : goroutines'[g].creation = Committed[g].creation
    BY <1>7
  <2>3. pending'.gid = IF h.birth THEN h.gid ELSE 0
    BY <1>11 DEF NoPending
  <2>4. ASSUME NEW i \in DOMAIN written', NEW g \in Gid, IsBirth(i, g)', g # pending'.gid
        PROVE  g \in DOMAIN goroutines' /\ goroutines'[g].creation = CreationRead(written'[i])
    <3>1. i \in DOMAIN written
      BY <1>2, <2>3, <2>4 DEF IsBirth, h
    <3>2. IsBirth(i, g) /\ written'[i] = written[i]
      BY <1>2, <2>4, <3>1 DEF IsBirth
    <3>3. g \in DOMAIN Committed /\ Committed[g].creation = CreationRead(written[i])
      BY <1>4, <3>1, <3>2, CommitClosesBlock
    <3> QED BY <1>7, <2>2, <3>2, <3>3, CommittedProperties
  <2>5. ASSUME NEW g \in DOMAIN goroutines', goroutines'[g].creation # None
        PROVE  g # pending'.gid /\ \E i \in DOMAIN written' : IsBirth(i, g)'
    <3>1. g \in DOMAIN goroutines
      BY <1>7, <2>5
    <3>2. Committed[g].creation # None
      BY <2>2, <2>5, <3>1
    <3>3. PICK i \in DOMAIN written : IsBirth(i, g)
      BY <1>4, <3>1, <3>2, CommitClosesBlock, CommittedProperties
    <3>4. i \in DOMAIN written' /\ IsBirth(i, g)'
      BY <1>2, <3>3 DEF IsBirth
    <3>5. g # pending'.gid
      BY <2>1, <2>3, <3>1, Typed
    <3> QED BY <3>4, <3>5
  <2> QED BY <2>4, <2>5 DEF CreationsAreRead
<1>15. AllIsRecorded'
  <2>1. ASSUME NEW g \in Gid
        PROVE  IF Of(g)' = {} THEN g \notin DOMAIN goroutines'
               ELSE g \in DOMAIN goroutines' /\ IsRecord(goroutines'[g], Of(g)')
    <3>1. CASE g = h.gid
      BY <1>2, <1>7, <3>1
    <3>2. CASE g # h.gid
      <4>1. Of(g)' = Of(g)
        BY <1>2, <3>2
      <4>2. g \in DOMAIN goroutines' <=> g \in DOMAIN goroutines
        BY <1>7, <3>2
      <4>3. IF Of(g) = {} THEN g \notin DOMAIN goroutines
            ELSE g \in DOMAIN goroutines /\ IsRecord(goroutines[g], Of(g))
        BY DEF IInv, AllIsRecorded, IsRecord
      <4>4. g \in DOMAIN goroutines =>
              /\ goroutines'[g].events = goroutines[g].events
              /\ goroutines'[g].firstSeen = goroutines[g].firstSeen
              /\ goroutines'[g].lastSeen = goroutines[g].lastSeen
        BY <1>7, <3>2, CommittedProperties
      <4> QED BY <4>1, <4>2, <4>3, <4>4 DEF IsRecord
    <3> QED BY <3>1, <3>2
  <2> QED BY <1>9, <1>10, <2>1 DEF AllIsRecorded, IsRecord
<1>16. TimesAreUnset' /\ DoneIsClosed'
  BY <1>2 DEF TimesAreUnset, DoneIsClosed
<1> QED BY <1>1, <1>12, <1>13, <1>14, <1>15, <1>16 DEF IInv

LEMMA HeaderKeeps ==
  ASSUME IInv, WriteHeader
  PROVE  IInv'
<1>1. PICK x \in Event :
        /\ x.header.time = Len(written) + 1
        /\ Possible(x.header)
        /\ written' = Append(written, x)
        /\ todo' = Lines(x)
        /\ IF x.header.gid = 0 THEN OtherHeader ELSE Transition(x.header)
  BY DEF WriteHeader
<1>2. ~done /\ done' = done /\ err' = err /\ todo = <<>> /\ Len(written) < MaxEvents
  BY DEF WriteHeader
<1>3. CASE x.header.gid = 0
  BY <1>1, <1>2, <1>3, OtherHeaderKeeps
<1>4. CASE x.header.gid # 0
  BY <1>1, <1>2, <1>4, TransitionKeeps
<1> QED BY <1>3, <1>4

LEMMA StutterKeeps ==
  ASSUME IInv, UNCHANGED vars
  PROVE  IInv'
<1>1. /\ UNCHANGED <<written, todo, cur, pending, transFrames, stackFrames, last, events,
                     goroutines, minTime, maxTime, done, err>>
  BY DEF vars, writerVars, blockVars, resultVars
<1>2. TypeOK' /\ TraceIsPossible'
  BY <1>1 DEF IInv, TypeOK, TraceIsPossible
<1>3. Headers' = Headers /\ e' = e /\ c' = c
  BY <1>1 DEF Headers, e, c
<1>4. Transitions' = Transitions /\ \A g : Of(g)' = Of(g)
  BY <1>3 DEF Transitions, Of
<1>5. AllIsRecorded' /\ TimesAreUnset'
  BY <1>1, <1>4 DEF IInv, AllIsRecorded, TimesAreUnset
<1>6. TodoIsLeft' /\ DoneIsClosed'
  BY <1>1, <1>3 DEF IInv, TodoIsLeft, DoneIsClosed
<1>7. TransitionIsRead' <=> TransitionIsRead
  BY <1>1, <1>3 DEF TransitionIsRead
<1>8. StackIsRead' <=> StackIsRead
  BY <1>1, <1>3 DEF StackIsRead
<1>9. BlockIsRead'
  BY <1>1, <1>3, <1>7, <1>8 DEF IInv, BlockIsRead, NoBlock
<1>10. \A i, g : IsBirth(i, g)' <=> IsBirth(i, g)
  BY <1>1 DEF IsBirth
<1>11. CreationsAreRead'
  BY <1>1, <1>10 DEF IInv, CreationsAreRead
<1> QED BY <1>2, <1>5, <1>6, <1>9, <1>11 DEF IInv

(* A scan that fails leaves nothing. *)
LEMMA FailureTyped ==
  ASSUME TypeOK, ScanFails
  PROVE  TypeOK' /\ err' /\ done'
<1>1. /\ cur' = "normal" /\ pending' = NoPending
      /\ transFrames' = <<>> /\ stackFrames' = <<>> /\ last' = NothingRead
      /\ events' = <<>> /\ goroutines' = [g \in {} |-> None]
      /\ minTime' = 0 /\ maxTime' = 0 /\ UNCHANGED <<written, todo>>
  BY DEF ScanFails, writerVars
<1>2. done' = TRUE /\ err' = TRUE
  BY DEF ScanFails
<1>3. done' \in BOOLEAN /\ err' \in BOOLEAN /\ done' /\ err'
  BY <1>2, Zenon
<1>4. transFrames' \in Seq(Frame) /\ stackFrames' \in Seq(Frame) /\ events' \in Seq(Header)
  BY <1>1, EmptySeq
<1>5. /\ pending' \in [gid : Gid \cup {0}, by : Gid \cup {0}, time : 0 .. MaxEvents]
      /\ last' \in [fn : Func \cup {None}, file : Func \cup {None}]
      /\ pending'.gid = 0 /\ 0 \in 0 .. MaxEvents /\ DOMAIN goroutines' = {}
  BY <1>1, TraceAssumption DEF NoPending, NothingRead
<1> QED BY <1>1, <1>3, <1>4, <1>5 DEF TypeOK

(***************************************************************************)
(* The inductive invariant: the parser's block is the last event as far as *)
(* its lines are read, and what is recorded is what was written, unless    *)
(* the scan failed, which ends it.                                         *)
(***************************************************************************)
ParseInv ==
  /\ TypeOK
  /\ err => done
  /\ ~err => IInv

THEOREM Invariance == Spec => []ParseInv
<1>1. Init => ParseInv
  <2> SUFFICES ASSUME Init PROVE ParseInv
    OBVIOUS
  <2>1. IInv /\ ~err
    BY InitIInv DEF Init
  <2>2. TypeOK
    BY <2>1 DEF IInv
  <2> QED BY <2>1, <2>2 DEF ParseInv
<1>2. ParseInv /\ [Next]_vars => ParseInv'
  <2> SUFFICES ASSUME ParseInv, [Next]_vars PROVE ParseInv'
    OBVIOUS
  <2>1. CASE WriteHeader \/ WriteLine \/ End
    <3>1. ~err /\ err' = err
      BY <2>1 DEF ParseInv, WriteHeader, WriteLine, End
    <3>2. IInv'
      BY <2>1, <3>1, HeaderKeeps, LineKeeps, EndKeeps DEF ParseInv
    <3>3. TypeOK'
      BY <3>2 DEF IInv
    <3> QED BY <3>1, <3>2, <3>3 DEF ParseInv
  <2>2. CASE ScanFails
    <3>1. TypeOK
      BY DEF ParseInv
    <3> QED BY <2>2, <3>1, FailureTyped DEF ParseInv
  <2>3. CASE UNCHANGED vars
    <3>1. err' = err /\ done' = done
      BY <2>3 DEF vars
    <3>2. TypeOK'
      BY <2>3 DEF ParseInv, TypeOK, vars, writerVars, blockVars, resultVars
    <3>3. ~err => IInv'
      BY <2>3, StutterKeeps DEF ParseInv
    <3> QED BY <3>1, <3>2, <3>3 DEF ParseInv
  <2> QED BY <2>1, <2>2, <2>3 DEF Next
<1> QED BY <1>1, <1>2, PTL DEF Spec

(***************************************************************************)
(* The parser's variables and its result keep their types, and a block is  *)
(* open if a birth is pending, whatever is written.                        *)
(***************************************************************************)
THEOREM TypeCorrect == Spec => []TypeOK
<1>1. ParseInv => TypeOK
  BY DEF ParseInv
<1> QED BY <1>1, Invariance, PTL

(***************************************************************************)
(* Every transition of the trace is in the result once, in order, of all   *)
(* and of its own goroutine, and the time bounds are those of the first    *)
(* and the last one (trace.go:154, 192-207).                               *)
(***************************************************************************)
THEOREM EventsRecorded == Spec => []EventsAreRecorded
<1>1. ParseInv => EventsAreRecorded
  BY DEF ParseInv, IInv, EventsAreRecorded
<1> QED BY <1>1, Invariance, PTL

(* The creations, of births whose block is open too. *)
LEMMA BirthsAreReadAtOnce ==
  ASSUME IInv
  PROVE  BirthsAreRead
<1>1. ASSUME NEW i \in DOMAIN written, written[i].header.birth,
             i < Len(written) \/ todo = <<>>
      PROVE  CreationOf(Committed[written[i].header.gid].creation, written[i])
  <2> DEFINE g == written[i].header.gid
  <2>1. g \in Gid /\ IsBirth(i, g) /\ written[i] \in Event
    <3>1. g # 0
      BY <1>1 DEF IInv, TraceIsPossible
    <3> QED BY <1>1, <3>1, Typed DEF IsBirth, Header
  <2>2. CreationOf(CreationRead(written[i]), written[i])
    BY <2>1, CreationReadProperties
  <2>3. CASE g # pending.gid
    <3>1. g \in DOMAIN goroutines /\ goroutines[g].creation = CreationRead(written[i])
      BY <2>1, <2>3 DEF IInv, CreationsAreRead
    <3> QED BY <2>2, <2>3, <3>1, CommittedProperties
  <2>4. CASE g = pending.gid
    <3>1. pending.gid # 0
      BY <2>1, <2>4, Typed
    <3>2. /\ cur # "normal" /\ written # <<>> /\ e.header.birth /\ pending.gid = e.header.gid
      BY <3>1 DEF IInv, TypeOK, BlockIsRead
    <3>3. IsBirth(Len(written), g) /\ Len(written) \in DOMAIN written
      BY <2>4, <3>2, Typed DEF IsBirth, e
    <3>4. i = Len(written)
      BY <2>1, <3>3, OneBirth
    <3>5. BlockEnds
      BY <1>1, <3>4, Typed DEF BlockEnds
    <3> QED BY <2>1, <2>2, <3>5, CommitClosesBlock
  <2> QED BY <2>3, <2>4
<1>2. ASSUME NEW g \in DOMAIN Committed, Committed[g].creation # None
      PROVE  \E i \in DOMAIN written : written[i].header.gid = g /\ written[i].header.birth
  <2>1. g \in DOMAIN goroutines
    BY CommittedProperties
  <2>2. CASE g = pending.gid
    <3>1. pending.gid # 0
      BY <2>1, <2>2, Typed
    <3>2. /\ cur # "normal" /\ written # <<>> /\ e.header.birth /\ pending.gid = e.header.gid
      BY <3>1 DEF IInv, TypeOK, BlockIsRead
    <3> QED BY <2>2, <3>2, Typed DEF e
  <2>3. CASE g # pending.gid
    <3>1. goroutines[g].creation # None
      BY <1>2, <2>1, <2>3, CommittedProperties
    <3>2. \E i \in DOMAIN written : IsBirth(i, g)
      BY <2>1, <3>1 DEF IInv, CreationsAreRead
    <3> QED BY <3>2 DEF IsBirth
  <2> QED BY <2>2, <2>3
<1> QED BY <1>1, <1>2 DEF BirthsAreRead

(***************************************************************************)
(* A goroutine has the creation that the lines of its birth make, however  *)
(* many frames they have and whatever follows them, and no goroutine has   *)
(* another's (trace.go:114-128, 209-223, 235-254).                         *)
(***************************************************************************)
THEOREM BirthsRead == Spec => []BirthsAreRead
<1>1. ParseInv => BirthsAreRead
  BY BirthsAreReadAtOnce DEF ParseInv, BirthsAreRead
<1> QED BY <1>1, Invariance, PTL
=============================================================================

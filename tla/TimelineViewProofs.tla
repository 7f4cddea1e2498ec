--------------------------- MODULE TimelineViewProofs ---------------------------
(* Proofs about TimelineView, for any tests, any number of races, timelines
   and steps of the playhead. *)
EXTENDS TimelineView, SequenceTheorems, TLAPS

(* Without two fetches at a time there is one request or one answer on its
   way, and with no event to read the answer is the newest timeline; the page
   has it when neither is left, unless the last one failed. *)
OneFetch ==
  ~overtaken =>
    /\ requests <= 1
    /\ \A v \in Version : responses[v] > 0 => requests = 0 /\ responses[v] = 1
    /\ \A v, w \in Version : responses[v] > 0 /\ responses[w] > 0 => v = w
    /\ events = 0 =>
         /\ \A v \in Version : responses[v] > 0 => v = Len(published)
         /\ Pending \/ lost \/ tl = Len(published)

IInv ==
  /\ TypeOK
  /\ OneFrameWhilePlaying /\ PlayheadIsShown
  /\ ViewIsOfTheTimeline /\ CardsFollowTheFocus
  /\ OneFetch

(* The timeline a version names stays what it is. *)
LEMMA TimelineTyped ==
  ASSUME NEW s \in Seq(Timeline), NEW v \in 1 .. Len(s)
  PROVE  s[v] \in Timeline /\ s[v].hasTraceData \in BOOLEAN /\ s[v].races \in Nat
<1>1. s[v] \in Timeline
  BY ElementOfSeq
<1> QED BY <1>1, ViewAssumption DEF Timeline

LEMMA KindTyped ==
  ASSUME published \in Seq(Timeline), NEW v \in 1 .. Len(published), NEW mode \in Mode
  PROVE  /\ Kind(v, mode) \in Mode \cup {"topology"}
         /\ EcgOnly(v, mode) \in BOOLEAN
         /\ EcgOnly(v, mode) = (Kind(v, mode) = "ecg")
BY TimelineTyped DEF Kind, EcgOnly, Mode

LEMMA InitIInv == Init => IInv
<1> SUFFICES ASSUME Init PROVE IInv
  OBVIOUS
<1> USE ViewAssumption
<1>1. PICK t \in Timeline :
        /\ published = <<t>>
        /\ transport = t.hasTraceData /\ controls = t.hasTraceData
        /\ drawn = [kind |-> IF t.hasTraceData THEN "ecg" ELSE "topology",
                    tl |-> 1, group |-> All]
        /\ head = IF t.hasTraceData THEN Steps ELSE 0
  BY DEF Init
<1>2. /\ published \in Seq(Timeline) /\ Len(published) = 1 /\ published[1] = t
      /\ t.hasTraceData \in BOOLEAN
  BY <1>1 DEF Timeline
<1>3. TypeOK
  <2>1. drawn \in View
    BY <1>1 DEF View, Mode, Version, Test
  <2>2. pct \in Playhead /\ head \in Playhead /\ timers \in Seq({"racevis", "updated"})
    BY <1>1 DEF Init, Playhead
  <2>3. transport \in BOOLEAN /\ controls \in BOOLEAN
    BY <1>1, <1>2
  <2>4. responses \in [Version -> Nat] /\ \A v \in Version : responses[v] = 0
    BY DEF Init
  <2>5. Len(published) \in Version /\ tl \in 1 .. Len(published)
    BY <1>2 DEF Init, Version
  <2>6. /\ events = 0 /\ requests = 0 /\ frames = 0 /\ detail = Nothing /\ src = Nothing
        /\ logo = "racevis" /\ reflashed \in BOOLEAN /\ overtaken \in BOOLEAN /\ lost \in BOOLEAN
        /\ playing \in BOOLEAN
        /\ viewMode = "ecg" /\ activeGroup = All
    BY DEF Init
  <2> QED BY <1>2, <2>1, <2>2, <2>3, <2>4, <2>5, <2>6 DEF TypeOK, Mode, Test
<1>4. OneFrameWhilePlaying /\ PlayheadIsShown /\ CardsFollowTheFocus
  BY <1>1 DEF Init, OneFrameWhilePlaying, PlayheadIsShown, CardsFollowTheFocus
<1>5. ViewIsOfTheTimeline
  BY <1>1, <1>2 DEF Init, ViewIsOfTheTimeline, Kind
<1>6. OneFetch
  BY <1>2 DEF Init, OneFetch, Version
<1> QED BY <1>3, <1>4, <1>5, <1>6 DEF IInv

(* What the invariant says of the variables. *)
LEMMA Typed ==
  ASSUME IInv
  PROVE  /\ published \in Seq(Timeline) /\ Len(published) \in 1 .. MaxVersion
         /\ events \in Nat /\ requests \in Nat /\ responses \in [Version -> Nat]
         /\ overtaken \in BOOLEAN /\ lost \in BOOLEAN /\ reflashed \in BOOLEAN
         /\ tl \in 1 .. Len(published) /\ tl \in Version
         /\ \A v \in Version : responses[v] > 0 => v <= Len(published)
         /\ viewMode \in Mode /\ activeGroup \in Test
         /\ pct \in Playhead /\ head \in Playhead
         /\ playing \in BOOLEAN /\ frames = IF playing THEN 1 ELSE 0
         /\ drawn = [kind |-> Kind(tl, viewMode), tl |-> tl, group |-> activeGroup]
         /\ controls \in BOOLEAN /\ transport \in BOOLEAN
         /\ timers \in Seq({"racevis", "updated"}) /\ logo \in {"racevis", "updated"}
         /\ Steps \in Nat \ {0} /\ MaxVersion \in Nat \ {0} /\ MaxRaces \in Nat
BY ViewAssumption DEF IInv, TypeOK, OneFrameWhilePlaying, ViewIsOfTheTimeline, Version

------------------------------------------------------------------------------
(* Reloads. *)

LEMMA PublishIInv ==
  ASSUME IInv, Publish
  PROVE  IInv'
<1> USE Typed
<1>1. PICK t \in Timeline : published' = Append(published, t)
  BY DEF Publish
<1>2. /\ published' \in Seq(Timeline) /\ Len(published') = Len(published) + 1
      /\ Len(published') \in Version
      /\ \A v \in 1 .. Len(published) : published'[v] = published[v]
  BY <1>1, AppendProperties DEF Publish, Version
<1>3. /\ events' = events + 1
      /\ UNCHANGED <<requests, responses, overtaken, lost, tl, viewMode, activeGroup,
                     playVars, drawn, head, barVars, detail, src, logoVars>>
  BY DEF Publish
<1>4. TypeOK'
  <2>1. tl \in 1 .. Len(published') /\ events' \in Nat
    BY <1>2, <1>3
  <2>2. \A v \in Version : responses[v] > 0 => v <= Len(published')
    BY <1>2 DEF Version
  <2> QED BY <1>2, <1>3, <2>1, <2>2 DEF IInv, TypeOK, playVars, barVars, logoVars
<1>5. OneFrameWhilePlaying' /\ PlayheadIsShown' /\ CardsFollowTheFocus'
  BY <1>3 DEF IInv, OneFrameWhilePlaying, PlayheadIsShown, CardsFollowTheFocus, playVars
<1>6. ViewIsOfTheTimeline'
  BY <1>2, <1>3 DEF IInv, ViewIsOfTheTimeline, Kind, Races, barVars
<1>7. OneFetch'
  BY <1>3 DEF IInv, OneFetch, Pending
<1> QED BY <1>4, <1>5, <1>6, <1>7 DEF IInv

LEMMA MessageIInv ==
  ASSUME IInv, Message
  PROVE  IInv'
<1> USE Typed
<1>1. /\ events' = events - 1 /\ requests' = requests + 1 /\ events > 0
      /\ overtaken' = (overtaken \/ Pending)
      /\ UNCHANGED <<published, responses, lost, tl, viewMode, activeGroup, playVars,
                     drawn, head, barVars, detail, src, logoVars>>
  BY DEF Message
<1>2. TypeOK'
  BY <1>1 DEF IInv, TypeOK, playVars, barVars, logoVars
<1>3. OneFrameWhilePlaying' /\ PlayheadIsShown' /\ CardsFollowTheFocus'
  BY <1>1 DEF IInv, OneFrameWhilePlaying, PlayheadIsShown, CardsFollowTheFocus, playVars
<1>4. ViewIsOfTheTimeline'
  BY <1>1 DEF IInv, ViewIsOfTheTimeline, Kind, Races, barVars
<1>5. OneFetch'
  <2> SUFFICES ASSUME ~overtaken' PROVE OneFetch'
    BY DEF OneFetch
  <2>1. ~overtaken /\ ~Pending
    BY <1>1
  <2>2. requests = 0 /\ \A v \in Version : ~(responses[v] > 0)
    BY <2>1 DEF Pending
  <2> QED BY <1>1, <2>2 DEF OneFetch, Pending
<1> QED BY <1>2, <1>3, <1>4, <1>5 DEF IInv

LEMMA AnswerIInv ==
  ASSUME IInv, Answer
  PROVE  IInv'
<1> USE Typed
<1> DEFINE n == Len(published)
<1>1. /\ requests > 0 /\ requests' = requests - 1
      /\ responses' = [responses EXCEPT ![n] = @ + 1]
      /\ UNCHANGED <<published, events, overtaken, lost, tl, viewMode, activeGroup,
                     playVars, drawn, head, barVars, detail, src, logoVars>>
  BY DEF Answer
<1>2. n \in Version /\ n' = n /\ n \in Nat
  BY <1>1 DEF Version
<1> HIDE DEF n
<1>3. /\ responses' \in [Version -> Nat]
      /\ responses'[n] = responses[n] + 1
      /\ \A v \in Version \ {n} : responses'[v] = responses[v]
  <2>1. responses \in [Version -> Nat]
    OBVIOUS
  <2> QED BY ONLY <1>1, <1>2, <2>1
<1>4. TypeOK'
  BY <1>1, <1>2, <1>3 DEF IInv, TypeOK, playVars, barVars, logoVars, n
<1>5. OneFrameWhilePlaying' /\ PlayheadIsShown' /\ CardsFollowTheFocus'
  BY <1>1 DEF IInv, OneFrameWhilePlaying, PlayheadIsShown, CardsFollowTheFocus, playVars
<1>6. ViewIsOfTheTimeline'
  BY <1>1 DEF IInv, ViewIsOfTheTimeline, Kind, Races, barVars
<1>7. OneFetch'
  <2> SUFFICES ASSUME ~overtaken PROVE OneFetch'
    BY <1>1 DEF OneFetch
  <2>1. requests = 1 /\ \A v \in Version : responses[v] = 0
    BY <1>1 DEF IInv, OneFetch
  <2> QED BY <2>1, <1>1, <1>2, <1>3 DEF OneFetch, Pending, n
<1> QED BY <1>4, <1>5, <1>6, <1>7 DEF IInv

LEMMA ReloadIInv ==
  ASSUME IInv, NEW v \in Version, Reload(v)
  PROVE  IInv'
<1> USE Typed
<1>1. /\ responses[v] > 0 /\ responses' = [responses EXCEPT ![v] = @ - 1] /\ lost' = FALSE
      /\ tl' = v /\ pct' = Steps /\ activeGroup' = All /\ src' = Nothing
      /\ drawn' = [kind |-> Kind(v, viewMode), tl |-> v, group |-> All]
      /\ head' = IF drawn'.kind = "ecg" THEN Steps ELSE head
      /\ transport' = EcgOnly(v, viewMode)
      /\ UNCHANGED <<published, events, requests, overtaken, viewMode, detail>>
  BY DEF Reload, renderTimeline
<1>2. /\ playing' = FALSE /\ frames' = 0
      /\ controls' = (controls /\ drawn'.kind # "topology")
      /\ logo' = "updated" /\ timers' = Append(timers, logo)
      /\ reflashed' = (reflashed \/ timers # <<>>)
  BY DEF Reload, renderTimeline, stopPlay, Flash
<1>3. /\ v \in 1 .. Len(published)
      /\ Kind(v, viewMode) \in Mode \cup {"topology"}
      /\ transport' \in BOOLEAN /\ transport' = (Kind(v, viewMode) = "ecg")
  BY <1>1, KindTyped DEF Version
<1>4. /\ responses' \in [Version -> Nat]
      /\ responses'[v] = responses[v] - 1
      /\ \A w \in Version \ {v} : responses'[w] = responses[w]
  BY <1>1
<1>5. drawn' \in View /\ drawn'.kind = Kind(v, viewMode)
  BY <1>1, <1>3 DEF View, Test
<1>6. timers' \in Seq({"racevis", "updated"})
  BY <1>2
<1>7. TypeOK'
  <2>1. controls' \in BOOLEAN /\ reflashed' \in BOOLEAN
    BY <1>2
  <2>2. pct' \in Playhead /\ head' \in Playhead
    BY <1>1 DEF Playhead
  <2> QED BY <1>1, <1>2, <1>3, <1>4, <1>5, <1>6, <2>1, <2>2 DEF IInv, TypeOK, Test
<1>8. OneFrameWhilePlaying' /\ PlayheadIsShown' /\ CardsFollowTheFocus'
  BY <1>1, <1>2 DEF OneFrameWhilePlaying, PlayheadIsShown, CardsFollowTheFocus
<1>9. ViewIsOfTheTimeline'
  BY <1>1, <1>2, <1>3, <1>5 DEF ViewIsOfTheTimeline, Kind
<1>10. OneFetch'
  BY <1>1, <1>4 DEF IInv, OneFetch, Pending
<1> QED BY <1>7, <1>8, <1>9, <1>10 DEF IInv

LEMMA ReloadFailsIInv ==
  ASSUME IInv, ReloadFails
  PROVE  IInv'
<1> USE Typed
<1>1. /\ lost' = TRUE
      /\ UNCHANGED <<published, events, overtaken, tl, viewMode, activeGroup, playVars,
                     drawn, head, barVars, detail, src, logoVars>>
  BY DEF ReloadFails
<1>2. /\ requests' \in Nat /\ requests' <= requests
      /\ responses' \in [Version -> Nat]
      /\ \A v \in Version : responses'[v] <= responses[v]
  <2>1. CASE requests > 0 /\ requests' = requests - 1 /\ UNCHANGED responses
    BY <2>1
  <2>2. CASE \E v \in Version : /\ responses[v] > 0
                               /\ responses' = [responses EXCEPT ![v] = @ - 1]
                               /\ UNCHANGED requests
    <3>1. PICK v \in Version : /\ responses[v] > 0
                               /\ responses' = [responses EXCEPT ![v] = @ - 1]
                               /\ UNCHANGED requests
      BY <2>2
    <3>2. /\ responses'[v] = responses[v] - 1 /\ responses[v] - 1 \in Nat
          /\ \A w \in Version \ {v} : responses'[w] = responses[w]
      BY <3>1
    <3> QED BY <3>1, <3>2
  <2> QED BY <2>1, <2>2 DEF ReloadFails
<1>3. TypeOK'
  BY <1>1, <1>2 DEF IInv, TypeOK, playVars, barVars, logoVars
<1>4. OneFrameWhilePlaying' /\ PlayheadIsShown' /\ CardsFollowTheFocus'
  BY <1>1 DEF IInv, OneFrameWhilePlaying, PlayheadIsShown, CardsFollowTheFocus, playVars
<1>5. ViewIsOfTheTimeline'
  <2>1. /\ drawn' = drawn /\ tl' = tl /\ published' = published /\ src' = src
        /\ viewMode' = viewMode /\ activeGroup' = activeGroup
        /\ transport' = transport /\ controls' = controls
    BY <1>1 DEF barVars
  <2>2. ViewIsOfTheTimeline
    BY DEF IInv
  <2>3. /\ drawn = [kind |-> Kind(tl, viewMode), tl |-> tl, group |-> activeGroup]
        /\ transport = (drawn.kind = "ecg") /\ (controls => drawn.kind # "topology")
    BY ONLY <2>2 DEF ViewIsOfTheTimeline
  <2>4. src # Nothing => src.tl = tl /\ src.race \in Races(tl)
    BY ONLY <2>2 DEF ViewIsOfTheTimeline
  <2>5. drawn' = [kind |-> Kind(tl, viewMode)', tl |-> tl', group |-> activeGroup']
    BY ONLY <2>1, <2>3 DEF Kind
  <2>6. transport' = (drawn'.kind = "ecg") /\ (controls' => drawn'.kind # "topology")
    BY ONLY <2>1, <2>3
  <2>7. src' # Nothing => src'.tl = tl' /\ src'.race \in Races(tl)'
    BY ONLY <2>1, <2>4 DEF Races
  <2> QED BY ONLY <2>5, <2>6, <2>7 DEF ViewIsOfTheTimeline
<1>6. OneFetch'
  BY <1>1, <1>2, SMTT(30) DEF IInv, OneFetch
<1> QED BY <1>3, <1>4, <1>5, <1>6 DEF IInv

LEMMA UnflashIInv ==
  ASSUME IInv, Unflash
  PROVE  IInv'
<1> USE Typed
<1>1. /\ logo' = Head(timers) /\ timers' = Tail(timers) /\ timers # <<>>
      /\ UNCHANGED <<reloadVars, tl, viewMode, activeGroup, playVars, drawn, head, barVars,
                     detail, src, reflashed>>
  BY DEF Unflash
<1>2. logo' \in {"racevis", "updated"} /\ timers' \in Seq({"racevis", "updated"})
  BY <1>1, HeadTailProperties
<1>3. TypeOK'
  BY <1>1, <1>2 DEF IInv, TypeOK, reloadVars, playVars, barVars
<1>4. OneFrameWhilePlaying' /\ PlayheadIsShown' /\ CardsFollowTheFocus'
  BY <1>1 DEF IInv, OneFrameWhilePlaying, PlayheadIsShown, CardsFollowTheFocus, playVars
<1>5. ViewIsOfTheTimeline' /\ OneFetch'
  BY <1>1 DEF IInv, ViewIsOfTheTimeline, Kind, Races, barVars, OneFetch, Pending, reloadVars
<1> QED BY <1>2, <1>3, <1>4, <1>5 DEF IInv

------------------------------------------------------------------------------
(* Playback. *)

(* A step that leaves the timeline, the view and the panels alone, except that
   the source panel may show a race of the timeline there is. *)
LEMMA PlayIInv ==
  ASSUME IInv, UNCHANGED static,
         pct' \in Playhead, head' \in Playhead, playing' \in BOOLEAN,
         frames' = IF playing' THEN 1 ELSE 0,
         drawn.kind = "ecg" => head' = pct' \/ pct' = 0,
         src' \in {src, Nothing} \cup {[tl |-> tl, race |-> id] : id \in Races(tl)}
  PROVE  IInv'
<1> USE Typed
<1>1. UNCHANGED <<reloadVars, tl, viewMode, activeGroup, drawn, barVars, detail, logoVars>>
  BY DEF static
<1>2. Races(tl) \subseteq 1 .. MaxRaces
  <2>1. published[tl] \in Timeline
    BY TimelineTyped
  <2>2. published[tl].races \in 0 .. MaxRaces
    BY ONLY <2>1 DEF Timeline
  <2> QED BY ONLY <2>2, ViewAssumption DEF Races
<1>3. src' \in Panel \cup {Nothing}
  BY <1>2 DEF IInv, TypeOK, Panel
<1>4. frames' \in Nat
  OBVIOUS
<1>5. TypeOK'
  BY <1>1, <1>3, <1>4 DEF IInv, TypeOK, reloadVars, barVars, logoVars
<1>6. OneFrameWhilePlaying' /\ PlayheadIsShown' /\ CardsFollowTheFocus'
  BY <1>1 DEF IInv, OneFrameWhilePlaying, PlayheadIsShown, CardsFollowTheFocus
<1>7. ViewIsOfTheTimeline'
  <2>1. src' # Nothing => src'.tl = tl /\ src'.race \in Races(tl)
    BY DEF IInv, ViewIsOfTheTimeline
  <2> QED BY <1>1, <2>1 DEF IInv, ViewIsOfTheTimeline, Kind, Races, reloadVars, barVars
<1>8. OneFetch'
  BY <1>1 DEF IInv, OneFetch, Pending, reloadVars
<1> QED BY <1>5, <1>6, <1>7, <1>8 DEF IInv

LEMMA StopPlayed ==
  ASSUME IInv, stopPlay
  PROVE  playing' = FALSE /\ playing' \in BOOLEAN /\ frames' = IF playing' THEN 1 ELSE 0
<1>1. frames \in {0, 1}
  BY Typed
<1>2. frames' = 0 /\ playing' = FALSE
  BY <1>1 DEF stopPlay
<1> QED BY <1>2

LEMMA SeekIInv ==
  ASSUME IInv, Seek
  PROVE  IInv'
<1>1. PICK p \in 0 .. Steps : pct' = p /\ head' = p
  BY DEF Seek
<1>2. pct' \in Playhead /\ head' \in Playhead /\ head' = pct'
  BY <1>1, Typed DEF Playhead
<1> QED BY <1>2, StopPlayed, PlayIInv DEF Seek

LEMMA TogglePlayIInv ==
  ASSUME IInv, TogglePlay
  PROVE  IInv'
<1>1. UNCHANGED <<static, head, src>> /\ head \in Playhead /\ playing \in BOOLEAN
  BY Typed DEF TogglePlay
<1>2. drawn.kind = "ecg" => head = pct \/ pct = 0
  BY DEF IInv, PlayheadIsShown
<1>3. CASE playing
  <2>1. stopPlay /\ UNCHANGED pct
    BY <1>3 DEF TogglePlay
  <2>2. pct' \in Playhead
    BY <2>1, Typed
  <2> QED BY <1>1, <1>2, <2>1, <2>2, StopPlayed, PlayIInv
<1>4. CASE ~playing
  <2>1. pct' = 0 /\ playing' = TRUE /\ frames' = 1
    BY <1>4, Typed DEF TogglePlay, startPlay
  <2>2. pct' \in Playhead
    BY <2>1, Typed DEF Playhead
  <2> QED BY <1>1, <2>1, <2>2, PlayIInv
<1> QED BY <1>3, <1>4

LEMMA TickIInv ==
  ASSUME IInv, Tick
  PROVE  IInv'
<1>1. PICK p \in Advance(pct) :
        /\ pct' = p /\ head' = p
        /\ IF p = Steps THEN playing' = FALSE /\ frames' = frames - 1
                        ELSE UNCHANGED <<playing, frames>>
  BY DEF Tick
<1>2. frames > 0 /\ UNCHANGED <<static, src>>
  BY DEF Tick
<1>3. pct' \in Playhead /\ head' = pct'
  BY <1>1, Typed DEF Advance, Playhead
<1>4. playing' \in BOOLEAN /\ frames' = IF playing' THEN 1 ELSE 0
  <2>1. playing = TRUE /\ frames = 1
    BY <1>2, Typed
  <2>2. CASE p = Steps
    <3>1. playing' = FALSE /\ frames' = frames - 1
      BY <1>1, <2>2
    <3>2. frames' = 0
      BY <2>1, <3>1
    <3> QED BY <3>1, <3>2
  <2>3. CASE p # Steps
    BY <1>1, <2>1, <2>3
  <2> QED BY <2>2, <2>3
<1> QED BY <1>2, <1>3, <1>4, PlayIInv

LEMMA SrcIInv ==
  ASSUME IInv, UNCHANGED <<static, playVars, head>>,
         src' \in {src, Nothing} \cup {[tl |-> tl, race |-> id] : id \in Races(tl)}
  PROVE  IInv'
<1>1. drawn.kind = "ecg" => head = pct \/ pct = 0
  BY DEF IInv, PlayheadIsShown
<1>2. UNCHANGED <<pct, playing, frames, head>> /\ UNCHANGED static
  BY DEF playVars
<1> QED BY <1>1, <1>2, Typed, PlayIInv

------------------------------------------------------------------------------
(* The view and the panels. *)

(* The timeline there is, drawn again. *)
LEMMA RenderIInv ==
  ASSUME IInv, NEW mode \in Mode, NEW g \in Test, NEW p \in Playhead,
         renderTimeline(tl, g, mode, p),
         viewMode' = mode, activeGroup' = g, pct' = p,
         transport' = EcgOnly(tl, mode),
         playing' \in BOOLEAN, frames' = IF playing' THEN 1 ELSE 0,
         UNCHANGED <<reloadVars, tl, logoVars>>,
         \/ detail' = detail /\ g = activeGroup
         \/ detail' = IF g = All THEN Nothing ELSE [tl |-> tl, group |-> g],
         src' \in {src, Nothing} \cup {[tl |-> tl, race |-> id] : id \in Races(tl)}
  PROVE  IInv'
<1> USE Typed
<1>0. UNCHANGED <<published, events, requests, responses, overtaken, lost, tl, logo, timers, reflashed>>
  BY DEF reloadVars, logoVars
<1>1. /\ drawn' = [kind |-> Kind(tl, mode), tl |-> tl, group |-> g]
      /\ head' = IF drawn'.kind = "ecg" THEN p ELSE head
      /\ controls' = (controls /\ drawn'.kind # "topology")
  BY DEF renderTimeline
<1>2. /\ Kind(tl, mode) \in Mode \cup {"topology"}
      /\ transport' \in BOOLEAN /\ transport' = (Kind(tl, mode) = "ecg")
  BY KindTyped
<1>3. drawn' \in View /\ drawn'.kind = Kind(tl, mode)
  BY <1>1, <1>2 DEF View
<1>4. Races(tl) \subseteq 1 .. MaxRaces
  <2>1. published[tl] \in Timeline
    BY TimelineTyped
  <2>2. published[tl].races \in 0 .. MaxRaces
    BY ONLY <2>1 DEF Timeline
  <2> QED BY ONLY <2>2, ViewAssumption DEF Races
<1>5. src' \in Panel \cup {Nothing}
  BY <1>4 DEF IInv, TypeOK, Panel
<1>6. detail' \in Detail \cup {Nothing}
  BY DEF IInv, TypeOK, Detail, Test
<1>7. TypeOK'
  <2>1. controls' \in BOOLEAN /\ head' \in Playhead /\ frames' \in Nat
    BY <1>1
  <2> QED BY <1>0, <1>2, <1>3, <1>5, <1>6, <2>1 DEF IInv, TypeOK
<1>8. OneFrameWhilePlaying' /\ PlayheadIsShown' /\ CardsFollowTheFocus'
  BY <1>0, <1>1 DEF IInv, OneFrameWhilePlaying, PlayheadIsShown, CardsFollowTheFocus
<1>9. ViewIsOfTheTimeline'
  <2>1. src' # Nothing => src'.tl = tl /\ src'.race \in Races(tl)
    BY DEF IInv, ViewIsOfTheTimeline
  <2> QED BY <1>0, <1>1, <1>2, <1>3, <2>1 DEF ViewIsOfTheTimeline, Kind, Races
<1>10. OneFetch'
  BY <1>0 DEF IInv, OneFetch, Pending
<1> QED BY <1>7, <1>8, <1>9, <1>10 DEF IInv

LEMMA SetViewModeIInv ==
  ASSUME IInv, NEW mode \in Mode, SetViewMode(mode)
  PROVE  IInv'
BY Typed, StopPlayed, RenderIInv DEF SetViewMode

LEMMA FocusGroupIInv ==
  ASSUME IInv, NEW g \in Test, FocusGroup(g)
  PROVE  IInv'
<1>1. Steps \in Playhead
  BY Typed DEF Playhead
<1>2. transport' = EcgOnly(tl, viewMode)
  BY Typed, KindTyped DEF FocusGroup, IInv, ViewIsOfTheTimeline
<1> QED BY <1>1, <1>2, Typed, StopPlayed, RenderIInv DEF FocusGroup

LEMMA OpenIInv ==
  ASSUME IInv, NEW id \in 1 .. MaxRaces,
         OpenCard(id) \/ OpenMapCard(id) \/ OpenZone(id)
  PROVE  IInv'
<1>1. openSrc(id) => src' \in {src} \cup {[tl |-> tl, race |-> i] : i \in Races(tl)}
  BY DEF openSrc
<1>2. CASE OpenCard(id)
  BY <1>1, <1>2, SrcIInv DEF OpenCard, static
<1>3. CASE OpenMapCard(id)
  <2>1. transport' = EcgOnly(tl, viewMode)
    BY <1>3, Typed, KindTyped DEF OpenMapCard, IInv, ViewIsOfTheTimeline
  <2>2. UNCHANGED <<pct, playing, frames>>
    BY <1>3 DEF OpenMapCard, playVars
  <2> QED BY <1>1, <1>3, <2>1, <2>2, Typed, RenderIInv DEF OpenMapCard
<1>4. CASE OpenZone(id)
  <2>1. CASE UNCHANGED <<playVars, head>>
    BY <1>1, <1>4, <2>1, SrcIInv DEF OpenZone
  <2>2. CASE (\E p \in 0 .. Steps : pct' = p /\ head' = p) /\ stopPlay
    <3>1. pct' \in Playhead /\ head' \in Playhead /\ head' = pct'
      BY <2>2, Typed DEF Playhead
    <3> QED BY <1>1, <1>4, <2>2, <3>1, StopPlayed, PlayIInv DEF OpenZone
  <2> QED BY <1>4, <2>1, <2>2 DEF OpenZone
<1> QED BY <1>2, <1>3, <1>4

LEMMA CloseSrcIInv ==
  ASSUME IInv, CloseSrc
  PROVE  IInv'
BY SrcIInv DEF CloseSrc, static

LEMMA NextIInv == IInv /\ [Next]_vars => IInv'
<1>1. ASSUME IInv, UNCHANGED vars
      PROVE  IInv'
  BY <1>1, SrcIInv DEF vars, static, playVars
<1>2. ASSUME IInv, Network
      PROVE  IInv'
  BY <1>2, MessageIInv, AnswerIInv, ReloadIInv, ReloadFailsIInv DEF Network
<1>3. ASSUME IInv, Developer
      PROVE  IInv'
  BY <1>3, SeekIInv, TogglePlayIInv, CloseSrcIInv, SetViewModeIInv, FocusGroupIInv,
     OpenIInv DEF Developer
<1> QED BY <1>1, <1>2, <1>3, PublishIInv, UnflashIInv, TickIInv DEF Next

LEMMA Invariance == Spec => []IInv
BY InitIInv, NextIInv, PTL DEF Spec

------------------------------------------------------------------------------
(* TypeOK of TimelineView. *)
THEOREM TypeCorrect == Spec => []TypeOK
BY Invariance, PTL DEF IInv

(* OneFrameWhilePlaying, whatever the developer clicks and whenever a reload
   comes: no playback leaves a frame behind, and none runs twice. *)
THEOREM OneFrame == Spec => []OneFrameWhilePlaying
BY Invariance, PTL DEF IInv

(* PlayheadIsShown, also after the map was shown while the playhead moved. *)
THEOREM ShownPlayhead == Spec => []PlayheadIsShown
BY Invariance, PTL DEF IInv

(* View, ECG buttons, scrubber and source panel are of the timeline received
   last, and so are the cards while a test is in focus (ui:1174-1177, 1463,
   1522-1527, 1936-1941). *)
THEOREM PageOfTheTimeline == Spec => []PageIsOfTheTimeline
<1>1. IInv => PageIsOfTheTimeline
  BY DEF IInv, PageIsOfTheTimeline
<1> QED BY <1>1, Invariance, PTL

(* QuietPageIsFresh, from OneFetch: the one answer on its way is the newest
   timeline, or an event is still to be read. *)
THEOREM FreshWhenQuiet == Spec => []QuietPageIsFresh
<1>1. IInv => QuietPageIsFresh
  BY DEF IInv, OneFetch, QuietPageIsFresh
<1> QED BY <1>1, Invariance, PTL
==============================================================================

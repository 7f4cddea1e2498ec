----------------------------- MODULE TimelineView -----------------------------
(***************************************************************************)
(* What the page shows of the timeline it has (ui/index.html:1105-2145):   *)
(* the view, the playback, the panels and the logo, under the developer's  *)
(* clicks, animation frames, timers, and reloads, whose fetches may        *)
(* overtake one another.  The page is loaded and listens (WatchPage has    *)
(* how it gets there); a view is what was last rendered into the page.     *)
(***************************************************************************)
EXTENDS Integers, Sequences

CONSTANTS
  Group,                \* test names
  All,                  \* no test name: all of them (null)
  MaxRaces,             \* bound: races of a timeline, numbered from 1
  MaxVersion,           \* bound: timelines published
  Steps,                \* the playhead's way from 0 to 1, in steps
  Nothing               \* nothing rendered, a panel that is closed

ASSUME ViewAssumption ==
  /\ All \notin Group
  /\ MaxRaces \in Nat /\ MaxVersion \in Nat \ {0} /\ Steps \in Nat \ {0}

VARIABLES
  published,            \* the timelines of the server, the newest last
  events,               \* reload events the page has not read
  requests,             \* fetches the server has not answered
  responses,            \* answers on their way, counted by version
  overtaken,            \* history: did two fetches ever overlap?
  lost,                 \* history: has the last reload failed?
  tl,                   \* version of the timeline in tl
  viewMode, activeGroup, pct, playing,
  frames,               \* animation frames that will call tick
  drawn,                \* what #timeline shows: its kind, version and filter
  head,                 \* playhead of the tracks, the time and the scrubber
  controls,             \* is .controls visible?
  transport,            \* are its ECG buttons and the scrubber visible?
  detail,               \* version and test of the cards in #race-detail
  src,                  \* version and number of the race in the source panel
  logo,                 \* what .logo shows
  timers,               \* the flashes' timers, oldest first: what each restores
  reflashed             \* history: did a flash begin within another?

reloadVars == <<published, events, requests, responses, overtaken, lost>>
playVars   == <<pct, playing, frames>>
logoVars   == <<logo, timers, reflashed>>
barVars    == <<controls, transport>>
vars == <<reloadVars, tl, viewMode, activeGroup, playVars, drawn, head, barVars,
          detail, src, logoVars>>

Version  == 1 .. MaxVersion
Timeline == [hasTraceData : BOOLEAN, races : 0 .. MaxRaces]
Mode     == {"ecg", "diamond"}
Test     == Group \cup {All}
Playhead == -1 .. Steps

View   == [kind : Mode \cup {"topology"}, tl : Version, group : Test]
Detail == [tl : Version, group : Group]
Panel  == [tl : Version, race : 1 .. MaxRaces]

TypeOK ==
  /\ published \in Seq(Timeline) /\ Len(published) \in Version
  /\ events \in Nat /\ requests \in Nat /\ responses \in [Version -> Nat]
  /\ overtaken \in BOOLEAN /\ lost \in BOOLEAN /\ reflashed \in BOOLEAN
  /\ tl \in 1 .. Len(published)
  /\ \A v \in Version : responses[v] > 0 => v <= Len(published)
  /\ viewMode \in Mode /\ activeGroup \in Test
  /\ pct \in Playhead /\ head \in Playhead
  /\ playing \in BOOLEAN /\ frames \in Nat
  /\ drawn \in View
  /\ controls \in BOOLEAN /\ transport \in BOOLEAN
  /\ detail \in Detail \cup {Nothing}
  /\ src \in Panel \cup {Nothing}
  /\ logo \in {"racevis", "updated"}
  /\ timers \in Seq({"racevis", "updated"})

------------------------------------------------------------------------------
(* Rendering. *)

Races(v) == 1 .. published[v].races

Kind(v, mode) == IF published[v].hasTraceData THEN mode ELSE "topology"

(* Mutant: the ECG is drawn without its playhead. *)
renderTimelineOnly(v, group, mode, p) ==
  /\ drawn' = [kind |-> Kind(v, mode), tl |-> v, group |-> group]
  /\ head' = head
  /\ controls' = (controls /\ drawn'.kind # "topology")

(* renderTimeline (ui:1522-1604) of version v with the playhead at p: only the
   ECG updates it; topology hides .controls and nothing shows it again. *)
renderTimeline(v, group, mode, p) ==
  /\ drawn' = [kind |-> Kind(v, mode), tl |-> v, group |-> group]
  /\ head' = IF drawn'.kind = "ecg" THEN p ELSE head
  /\ controls' = (controls /\ drawn'.kind # "topology")

(* updateViewModeButtons (ui:1943-1956). *)
EcgOnly(v, mode) == mode = "ecg" /\ published[v].hasTraceData

(* Mutant: the frame is not cancelled. *)
stopPlayKeepsFrame == playing' = FALSE /\ frames' = frames

(* stopPlay (ui:1969-1974): cancelAnimationFrame takes back the frame whose id
   is known. *)
stopPlay ==
  /\ playing' = FALSE
  /\ frames' = IF frames > 0 THEN frames - 1 ELSE 0

Init ==
  /\ \E t \in Timeline :
       /\ published = <<t>>
       /\ transport = t.hasTraceData /\ controls = t.hasTraceData
       /\ drawn = [kind |-> IF t.hasTraceData THEN "ecg" ELSE "topology",
                   tl |-> 1, group |-> All]
       /\ head = IF t.hasTraceData THEN Steps ELSE 0
  /\ events = 0 /\ requests = 0 /\ responses = [v \in Version |-> 0]
  /\ overtaken = FALSE /\ lost = FALSE
  /\ tl = 1 /\ viewMode = "ecg" /\ activeGroup = All
  /\ pct = Steps /\ playing = FALSE /\ frames = 0
  /\ detail = Nothing /\ src = Nothing
  /\ logo = "racevis" /\ timers = <<>> /\ reflashed = FALSE

------------------------------------------------------------------------------
(* Reloads (ui:1165-1192). *)

Publish ==
  /\ Len(published) < MaxVersion
  /\ \E t \in Timeline : published' = Append(published, t)
  /\ events' = events + 1
  /\ UNCHANGED <<requests, responses, overtaken, lost, tl, viewMode, activeGroup,
                 playVars, drawn, head, barVars, detail, src, logoVars>>

Pending == requests > 0 \/ \E v \in Version : responses[v] > 0

(* onmessage up to its first await. *)
Message ==
  /\ events > 0
  /\ events' = events - 1
  /\ requests' = requests + 1
  /\ overtaken' = (overtaken \/ Pending)
  /\ UNCHANGED <<published, responses, lost, tl, viewMode, activeGroup, playVars,
                 drawn, head, barVars, detail, src, logoVars>>

(* The server answers with the timeline it has. *)
Answer ==
  /\ requests > 0
  /\ requests' = requests - 1
  /\ responses' = [responses EXCEPT ![Len(published)] = @ + 1]
  /\ UNCHANGED <<published, events, overtaken, lost, tl, viewMode, activeGroup,
                 playVars, drawn, head, barVars, detail, src, logoVars>>

(* The flash saves what the logo shows. *)
Flash ==
  /\ logo' = "updated"
  /\ timers' = Append(timers, logo)
  /\ reflashed' = (reflashed \/ timers # <<>>)

(* Mutant: the source panel stays open. *)
ReloadKeepsSrc(v) ==
  /\ responses[v] > 0
  /\ responses' = [responses EXCEPT ![v] = @ - 1] /\ lost' = FALSE
  /\ tl' = v
  /\ stopPlay
  /\ pct' = Steps
  /\ activeGroup' = All
  /\ renderTimeline(v, All, viewMode, Steps)
  /\ transport' = EcgOnly(v, viewMode)
  /\ Flash
  /\ UNCHANGED <<published, events, requests, overtaken, viewMode, detail, src>>

(* onmessage from its last await on.  render() renders the header, the tests
   and the timeline, not the cards of #race-detail. *)
Reload(v) ==
  /\ responses[v] > 0
  /\ responses' = [responses EXCEPT ![v] = @ - 1] /\ lost' = FALSE
  /\ tl' = v
  /\ stopPlay
  /\ pct' = Steps
  /\ activeGroup' = All
  /\ src' = Nothing
  /\ renderTimeline(v, All, viewMode, Steps)
  /\ transport' = EcgOnly(v, viewMode)
  /\ Flash
  /\ UNCHANGED <<published, events, requests, overtaken, viewMode, detail>>

(* The fetch fails, its answer is no timeline, or its body breaks off (ui:1171,
   1190): the page stays as it is. *)
ReloadFails ==
  /\ \/ requests > 0 /\ requests' = requests - 1 /\ UNCHANGED responses
     \/ \E v \in Version :
          /\ responses[v] > 0
          /\ responses' = [responses EXCEPT ![v] = @ - 1]
          /\ UNCHANGED requests
  /\ lost' = TRUE
  /\ UNCHANGED <<published, events, overtaken, tl, viewMode, activeGroup, playVars,
                 drawn, head, barVars, detail, src, logoVars>>

(* 1.5s later. *)
Unflash ==
  /\ timers # <<>>
  /\ logo' = Head(timers)
  /\ timers' = Tail(timers)
  /\ UNCHANGED <<reloadVars, tl, viewMode, activeGroup, playVars, drawn, head, barVars,
                 detail, src, reflashed>>

------------------------------------------------------------------------------
(* Playback (ui:1911-1999). *)

static == <<reloadVars, tl, viewMode, activeGroup, drawn, barVars, detail, logoVars>>

(* Rewind, fast forward, the scrubber. *)
Seek ==
  /\ transport
  /\ \E p \in 0 .. Steps : pct' = p /\ head' = p
  /\ stopPlay
  /\ UNCHANGED <<static, src>>

(* startPlay (ui:1960-1967): the tracks show it with the first frame. *)
startPlay ==
  /\ pct' = 0
  /\ playing' = TRUE
  /\ frames' = frames + 1

TogglePlay ==
  /\ controls /\ transport
  /\ IF playing THEN stopPlay /\ UNCHANGED pct ELSE startPlay
  /\ UNCHANGED <<static, head, src>>

(* Mutant: without Math.min. *)
AdvancePast(p) ==
  {q \in 1 .. Steps + 1 : q > p} \cup (IF p = 0 THEN {-1} ELSE {})

(* How far a frame moves the playhead, at any speed; the first frame's time may
   be a little before the click's. *)
Advance(p) ==
  {q \in 1 .. Steps : q > p} \cup (IF p = 0 THEN {-1} ELSE {})

(* Mutant: the playback does not stop at the end. *)
TickOn ==
  /\ frames > 0
  /\ \E p \in Advance(pct) \cup {Steps} : pct' = p /\ head' = p
  /\ UNCHANGED <<playing, frames, static, src>>

(* tick (ui:1976-1983): the frame calls for the next one, or stopPlay. *)
Tick ==
  /\ frames > 0
  /\ \E p \in Advance(pct) :
       /\ pct' = p /\ head' = p
       /\ IF p = Steps THEN playing' = FALSE /\ frames' = frames - 1
                       ELSE UNCHANGED <<playing, frames>>
  /\ UNCHANGED <<static, src>>

(* setViewMode (ui:1936-1941). *)
SetViewMode(mode) ==
  /\ controls
  /\ viewMode' = mode
  /\ stopPlay
  /\ renderTimeline(tl, activeGroup, mode, pct)
  /\ transport' = EcgOnly(tl, mode)
  /\ UNCHANGED <<reloadVars, tl, activeGroup, pct, detail, src, logoVars>>

------------------------------------------------------------------------------
(* The panels. *)

(* focusGroup (ui:1346-1354), from the list or the drop-down. *)
FocusGroup(g) ==
  /\ activeGroup' = g
  /\ src' = Nothing
  /\ stopPlay
  /\ pct' = Steps
  /\ renderTimeline(tl, g, viewMode, Steps)
  /\ detail' = IF g = All THEN Nothing ELSE [tl |-> tl, group |-> g]
  /\ UNCHANGED <<reloadVars, tl, viewMode, transport, logoVars>>

(* openSrc (ui:2004-2100) looks the number up in the timeline there is. *)
openSrc(id) == src' = IF id \in Races(tl) THEN [tl |-> tl, race |-> id] ELSE src

(* A card of the topology, or of #race-detail. *)
OpenCard(id) ==
  /\ \/ drawn.kind = "topology" /\ id \in Races(drawn.tl)
     \/ detail # Nothing /\ id \in Races(detail.tl)
  /\ openSrc(id)
  /\ UNCHANGED <<reloadVars, tl, viewMode, activeGroup, playVars, drawn, head, barVars,
                 detail, logoVars>>

(* A card of the map, which is drawn again (ui:1642). *)
OpenMapCard(id) ==
  /\ drawn.kind = "diamond" /\ id \in Races(drawn.tl)
  /\ openSrc(id)
  /\ renderTimeline(tl, activeGroup, viewMode, pct)
  /\ UNCHANGED <<reloadVars, tl, viewMode, activeGroup, playVars, transport, detail,
                 logoVars>>

(* A collision zone (ui:1777): jumpTo (ui:1994-1999), unless the trace has no
   duration, and openSrc. *)
OpenZone(id) ==
  /\ drawn.kind = "ecg" /\ id \in Races(drawn.tl)
  /\ \/ (\E p \in 0 .. Steps : pct' = p /\ head' = p) /\ stopPlay
     \/ UNCHANGED <<playVars, head>>
  /\ openSrc(id)
  /\ UNCHANGED static

CloseSrc ==
  /\ src' = Nothing
  /\ UNCHANGED <<reloadVars, tl, viewMode, activeGroup, playVars, drawn, head, barVars,
                 detail, logoVars>>

------------------------------------------------------------------------------
Network == Message \/ Answer \/ ReloadFails \/ \E v \in Version : Reload(v)

Developer ==
  \/ Seek \/ TogglePlay \/ CloseSrc
  \/ \E mode \in Mode : SetViewMode(mode)
  \/ \E g \in Test : FocusGroup(g)
  \/ \E id \in 1 .. MaxRaces : OpenCard(id) \/ OpenMapCard(id) \/ OpenZone(id)

Next == Publish \/ Network \/ Unflash \/ Tick \/ Developer

(* The browser calls timers and animation frames; a developer who plays again
   and again, or seeks, is not assumed to stop. *)
Spec == Init /\ [][Next]_vars /\ WF_vars(Tick) /\ WF_vars(Unflash)

------------------------------------------------------------------------------
(***************************************************************************)
(* ui:1958-1983: a playback is one chain of frames, and without a playback *)
(* no frame is left that would move the playhead.                          *)
(***************************************************************************)
OneFrameWhilePlaying == frames = IF playing THEN 1 ELSE 0

(***************************************************************************)
(* ui:1986-1991: the tracks, the time and the scrubber of an ECG show the  *)
(* playhead, whatever moved it and whatever view was shown meanwhile; only *)
(* a playback that was started, and stopped again perhaps, before its      *)
(* first frame has put it back to 0 without showing it there.              *)
(***************************************************************************)
PlayheadIsShown == drawn.kind = "ecg" => head = pct \/ pct = 0

(* The timeline drawn is the newest one received, in the chosen view and for
   the test in focus, with the buttons and the scrubber of that view, and the
   source panel shows a race of it.  A topology has no .controls. *)
ViewIsOfTheTimeline ==
  /\ drawn = [kind |-> Kind(tl, viewMode), tl |-> tl, group |-> activeGroup]
  /\ transport = (drawn.kind = "ecg")
  /\ controls => drawn.kind # "topology"
  /\ src # Nothing => src.tl = tl /\ src.race \in Races(tl)

(* While a test is in focus, the cards are that test's. *)
CardsFollowTheFocus ==
  activeGroup # All => detail = [tl |-> tl, group |-> activeGroup]

(***************************************************************************)
(* ui:1174-1177, 1463 "prevents stale content showing when switching       *)
(* tests", 1522-1527, 1936-1941: after any clicks and reloads the view,    *)
(* its ECG buttons and scrubber, and the source panel are of the timeline  *)
(* received last, and so are the cards while a test is in focus.  That the *)
(* view has its .controls, and that there are no other cards, is not part  *)
(* of it: see ControlsAreOfTheView and CardsAreOfTheTimeline.              *)
(***************************************************************************)
PageIsOfTheTimeline == ViewIsOfTheTimeline /\ CardsFollowTheFocus

(***************************************************************************)
(* ui:1179 "Rebuild the entire UI with the new timeline data": every view  *)
(* but the topology has its .controls, whatever was shown before.          *)
(***************************************************************************)
ControlsAreOfTheView == controls = (drawn.kind # "topology")

(***************************************************************************)
(* ui:1179 "Rebuild the entire UI with the new timeline data": the cards   *)
(* in #race-detail are never those of a timeline that was replaced.        *)
(***************************************************************************)
CardsAreOfTheTimeline == detail # Nothing => detail.tl = tl

(***************************************************************************)
(* ui:1165-1174: a page that has no reload to do shows the newest          *)
(* timeline, unless it ever fetched two at a time or the last fetch failed.*)
(***************************************************************************)
QuietPageIsFresh ==
  events = 0 /\ ~Pending /\ ~overtaken /\ ~lost => tl = Len(published)

(***************************************************************************)
(* ui:1168 "so we always get fresh data": no reload replaces a timeline by *)
(* an older one.                                                           *)
(***************************************************************************)
ReloadsGetFreshData == [][tl' >= tl]_vars

(***************************************************************************)
(* ui:1981, 1182-1187: what the page does by itself comes to an end: a     *)
(* playback, and the flash of the logo, unless a reload came within the    *)
(* 1.5s of the flash before.                                               *)
(***************************************************************************)
PageSettles ==
  /\ playing ~> ~playing
  /\ logo = "updated" ~> logo = "racevis" \/ reflashed

(***************************************************************************)
(* ui:1182 "Flash [updated] in the logo area so the developer sees it      *)
(* refreshed": the logo comes back after every flash.                      *)
(***************************************************************************)
LogoComesBack == logo = "updated" ~> logo = "racevis"
==============================================================================

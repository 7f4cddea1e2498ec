------------------------------ MODULE WatchPage ------------------------------
(***************************************************************************)
(* One browser tab in watch mode (ui/index.html:1105-1203), the server it  *)
(* talks to (SSEServer) and the developer, who opens and closes the tab    *)
(* and stops and restarts the program.  The page fetches the timeline,     *)
(* renders it, then opens the event stream; it fetches again for every     *)
(* event, and responses may overtake one another.                          *)
(***************************************************************************)
EXTENDS SSEServer

CONSTANT Restarts       \* bound: may the program be stopped and restarted?

VARIABLES
  up,                   \* is the program running?
  page,                 \* "closed"; "loading": in init's fetch; "failed": it
                        \* failed; "watching": connectWatchMode was called
  es,                   \* the EventSource: "none", "connecting", "open", "closed"
  stream,               \* the connection it reads, if any
  connected,            \* the variable of connectWatchMode
  cut,                  \* did the program exit under the stream?
  requests,             \* fetches of /api/timeline the server has not answered
  responses,            \* answers on their way, counted by timeline version
  shown,                \* version of the timeline in tl
  received,             \* history: newest version fetched since the page opened
  joined                \* history: version when the stream was last registered

pageVars == <<page, es, stream, connected, cut, requests, responses, shown,
              received, joined>>
allVars  == <<vars, up, pageVars>>

fetchVars  == <<requests, responses>>
streamVars == <<es, stream, connected, cut>>
shownVars  == <<shown, received>>

Version == 0 .. MaxUpdates
Larger(a, b) == IF a < b THEN b ELSE a

PageTypeOK ==
  /\ up \in BOOLEAN
  /\ page \in {"closed", "loading", "failed", "watching"}
  /\ es \in {"none", "connecting", "open", "closed"}
  /\ stream = {} \/ \E c \in Conn : stream = {c}
  /\ stream # {} <=> es = "open"
  /\ connected \in BOOLEAN /\ cut \in BOOLEAN
  /\ requests \in Nat /\ responses \in [Version -> Nat]
  /\ shown \in Version /\ received \in Version /\ joined \in Version
  /\ page # "watching" => es = "none" /\ requests <= 1

NoAnswers == [v \in Version |-> 0]

PageInit ==
  /\ Init
  /\ up = TRUE
  /\ page = "closed"
  /\ es = "none" /\ stream = {} /\ connected = FALSE /\ cut = FALSE
  /\ requests = 0 /\ responses = NoAnswers
  /\ shown = 0 /\ received = 0 /\ joined = 0

------------------------------------------------------------------------------
(* The server's own steps.  The page notices none of them. *)

PublishTimeline == up /\ BeginUpdate /\ UNCHANGED <<up, pageVars>>

NotifyClients == (Notify \/ EndUpdate) /\ UNCHANGED <<up, pageVars>>

RegisterStream(c) ==
  /\ Register(c)
  /\ joined' = IF stream = {c} THEN timeline ELSE joined
  /\ UNCHANGED <<up, page, streamVars, fetchVars, shownVars>>

ForwardEvent(c) ==
  /\ Receive(c) \/ FlushOk(c) \/ FlushLost(c)
  /\ UNCHANGED <<up, pageVars>>

EndStream(c) == (Leave(c) \/ Unregister(c)) /\ UNCHANGED <<up, pageVars>>

Deadline(c) == (ReadDeadline(c) \/ WriteDeadline(c)) /\ UNCHANGED <<up, pageVars>>

(* Mutant: the answer comes from the browser's cache (no ?t=, ui:1169). *)
ServeFetchCached ==
  /\ up
  /\ requests > 0
  /\ mu = "free"
  /\ requests' = requests - 1
  /\ responses' = [responses EXCEPT ![shown] = @ + 1]
  /\ UNCHANGED <<vars, up, page, streamVars, shownVars, joined>>

(* handleTimeline (server.go:88-123) reads the timeline under the read lock. *)
ServeFetch ==
  /\ up
  /\ requests > 0
  /\ mu = "free"
  /\ requests' = requests - 1
  /\ responses' = [responses EXCEPT ![timeline] = @ + 1]
  /\ UNCHANGED <<vars, up, page, streamVars, shownVars, joined>>

------------------------------------------------------------------------------
(* init (ui:1117-1142). *)

OpenPage ==
  /\ page = "closed"
  /\ up
  /\ page' = "loading"
  /\ requests' = 1
  /\ UNCHANGED <<vars, up, streamVars, responses, shownVars, joined>>

(* The timeline arrives, is rendered, and connectWatchMode is called. *)
Loaded(v) ==
  /\ page = "loading"
  /\ responses[v] > 0
  /\ responses' = [responses EXCEPT ![v] = @ - 1]
  /\ page' = "watching"
  /\ es' = "connecting"
  /\ shown' = v /\ received' = v
  /\ UNCHANGED <<vars, up, stream, connected, cut, requests, joined>>

(* The page shows an error and never connects. *)
LoadFails ==
  /\ page = "loading"
  /\ ~up
  /\ requests > 0
  /\ requests' = requests - 1
  /\ page' = "failed"
  /\ UNCHANGED <<vars, up, streamVars, responses, shownVars, joined>>

------------------------------------------------------------------------------
(* connectWatchMode (ui:1154-1203) and the EventSource below it (external):
   the connection ends or fails, onerror runs, and unless it closed the
   EventSource the browser connects again after a delay. *)

Connect(c) ==
  /\ es = "connecting"
  /\ up
  /\ Accept(c)
  /\ es' = "open"
  /\ stream' = {c}
  /\ cut' = FALSE
  /\ UNCHANGED <<up, page, connected, fetchVars, shownVars, joined>>

(* Nothing listens: onerror; a page that was connected is retried. *)
ConnectFails ==
  /\ es = "connecting"
  /\ ~up
  /\ ~connected
  /\ es' = "closed"
  /\ UNCHANGED <<vars, up, page, stream, connected, cut, fetchVars, shownVars, joined>>

(* Mutant: an event is ignored while an answer is on its way. *)
ReadEventUnlessBusy(c) ==
  /\ stream = {c}
  /\ ClientRead(c)
  /\ connected' = TRUE
  /\ requests' = IF \E v \in Version : responses[v] > 0 THEN requests ELSE requests + 1
  /\ UNCHANGED <<up, page, es, stream, cut, responses, shownVars, joined>>

(* The first event also brings the response headers: nothing flushes them
   before it.  So onopen runs, then onmessage starts a fetch. *)
ReadEvent(c) ==
  /\ stream = {c}
  /\ ClientRead(c)
  /\ connected' = TRUE
  /\ requests' = requests + 1
  /\ UNCHANGED <<up, page, es, stream, cut, responses, shownVars, joined>>

(* Mutant: onerror closes the EventSource whatever happened before. *)
StreamEndsForGood(c) ==
  /\ stream = {c}
  /\ pc[c] = "none" /\ net[c] = 0
  /\ stream' = {}
  /\ connected' = (connected \/ ~cut)
  /\ es' = "closed"
  /\ UNCHANGED <<vars, up, page, cut, fetchVars, shownVars, joined>>

(* Mutant: the old stream is kept when it has ended. *)
StreamEndsButStays(c) ==
  /\ stream = {c}
  /\ pc[c] = "none" /\ net[c] = 0
  /\ connected' = (connected \/ ~cut)
  /\ es' = IF connected' THEN "connecting" ELSE "closed"
  /\ UNCHANGED <<vars, up, page, stream, cut, fetchVars, shownVars, joined>>

(* The end of the stream.  A handler that returns sends the headers if no event
   did, so onopen runs; a stream cut by the program's exit has none. *)
StreamEnds(c) ==
  /\ stream = {c}
  /\ pc[c] = "none" /\ net[c] = 0
  /\ stream' = {}
  /\ connected' = (connected \/ ~cut)
  /\ es' = IF connected' THEN "connecting" ELSE "closed"
  /\ UNCHANGED <<vars, up, page, cut, fetchVars, shownVars, joined>>

(* onmessage goes on after its fetch: tl = ..., render(). *)
Apply(v) ==
  /\ page = "watching"
  /\ responses[v] > 0
  /\ responses' = [responses EXCEPT ![v] = @ - 1]
  /\ shown' = v
  /\ received' = Larger(received, v)
  /\ UNCHANGED <<vars, up, page, streamVars, requests, joined>>

(* onmessage logs a failed fetch and keeps the old timeline. *)
ReloadFails ==
  /\ page = "watching"
  /\ ~up
  /\ requests > 0
  /\ requests' = requests - 1
  /\ UNCHANGED <<vars, up, page, streamVars, responses, shownVars, joined>>

------------------------------------------------------------------------------
(* The developer. *)

ClosePage ==
  /\ page # "closed"
  /\ \/ \E c \in stream : Disconnect(c)
     \/ (\A c \in stream : pc[c] = "none" \/ ctx[c] # "live") /\ UNCHANGED vars
  /\ page' = "closed"
  /\ es' = "none" /\ stream' = {} /\ connected' = FALSE /\ cut' = FALSE
  /\ requests' = 0 /\ responses' = NoAnswers
  /\ shown' = 0 /\ received' = 0 /\ joined' = 0
  /\ UNCHANGED up

(* Ctrl+C (main.go:199-206): os.Exit runs no deferred function.  What was
   written to a socket is still delivered. *)
Exit ==
  /\ Restarts
  /\ up
  /\ up' = FALSE
  /\ mu' = "free" /\ sseClients' = <<>> /\ idx' = 1
  /\ pc' = [c \in Conn |-> "none"]
  /\ ch' = [c \in Conn |-> 0]
  /\ ctx' = [c \in Conn |-> "live"]
  /\ deadline' = [c \in Conn |-> "none"]
  /\ told' = [c \in Conn |-> 0]
  /\ cut' = (cut \/ \E c \in stream : pc[c] # "none")
  /\ UNCHANGED <<timeline, net, page, es, stream, connected, fetchVars, shownVars,
                 joined>>

(* A new process analyses the package before it serves; requests to the old
   one have failed by then. *)
Restart ==
  /\ ~up
  /\ requests = 0
  /\ timeline < MaxUpdates
  /\ up' = TRUE
  /\ timeline' = timeline + 1
  /\ UNCHANGED <<mu, sseClients, idx, ch, pc, connVars, pageVars>>

------------------------------------------------------------------------------
ServerStep ==
  \/ PublishTimeline \/ NotifyClients \/ ServeFetch
  \/ \E c \in Conn : RegisterStream(c) \/ ForwardEvent(c) \/ EndStream(c) \/ Deadline(c)

PageStep ==
  \/ LoadFails \/ ConnectFails \/ ReloadFails
  \/ \E c \in Conn : Connect(c) \/ ReadEvent(c) \/ StreamEnds(c)
  \/ \E v \in Version : Loaded(v) \/ Apply(v)

DeveloperStep == OpenPage \/ ClosePage \/ Exit \/ Restart

PageNext == ServerStep \/ PageStep \/ DeveloperStep

(***************************************************************************)
(* The server's goroutines run, the network delivers, and an open page's   *)
(* event loop runs; nobody has to edit a file, open a page or restart the  *)
(* program, and no stream has to reach its deadline.  Locking s.mu does    *)
(* not take the 15s to the read deadline every time.                       *)
(***************************************************************************)
PageFairness ==
  /\ WF_allVars(NotifyClients) /\ WF_allVars(ServeFetch)
  /\ WF_allVars(LoadFails) /\ WF_allVars(ConnectFails) /\ WF_allVars(ReloadFails)
  /\ WF_allVars(\E c \in Conn : Connect(c))
  /\ \A c \in Conn :
       /\ WF_allVars(RegisterStream(c)) /\ WF_allVars(ForwardEvent(c))
       /\ SF_allVars(ctx[c] = "live" /\ RegisterStream(c))
       /\ WF_allVars(EndStream(c))
       /\ WF_allVars(ReadEvent(c)) /\ WF_allVars(StreamEnds(c))
  /\ \A v \in Version : WF_allVars(Loaded(v)) /\ WF_allVars(Apply(v))

PageSpec == PageInit /\ [][PageNext]_allVars /\ PageFairness

------------------------------------------------------------------------------
(* The page's stream is registered with the server and has not ended. *)
Listening == \E c \in stream : c \in Subscribers

(* Nothing was published since the stream was registered that the page has not
   fetched. *)
CaughtUp == joined = timeline \/ received = timeline

(***************************************************************************)
(* Whatever was published while the page's stream was registered is on its *)
(* way: as an event in the channel, in the handler's hands or on the wire, *)
(* as a fetch not yet answered, or as an answer with the newest timeline.  *)
(***************************************************************************)
PublishedIsOnItsWay ==
  \A c \in stream \cap Subscribers :
    CaughtUp \/ ch[c] > 0 \/ pc[c] = "flush" \/ ToBeNotified(c) \/ net[c] > 0
             \/ requests > 0 \/ responses[timeline] > 0

(* A page that listens fetches what is published meanwhile, unless its stream
   ends or the tab is closed (ui:1165-1171 and server.go:158-212). *)
ListeningPageCatchesUp == Listening /\ ~CaughtUp ~> CaughtUp \/ ~Listening

(* ui:1153, 1198: a page that was connected listens again while the program
   runs, however its stream ended. *)
ConnectedPageComesBack ==
  page = "watching" /\ connected /\ up ~> Listening \/ ~up \/ page = "closed"

(***************************************************************************)
(* README.md:123 "Browser updates automatically when you save a .go file": *)
(* a page that has been connected gets to show every published timeline.   *)
(***************************************************************************)
ConnectedPageIsUpdated ==
  page = "watching" /\ connected /\ shown < timeline
    ~> shown = timeline \/ page = "closed"
==============================================================================

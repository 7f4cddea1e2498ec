------------------------------ MODULE SSEServer ------------------------------
(***************************************************************************)
(* The watch-mode half of server/server.go: one goroutine replaces the     *)
(* timeline and notifies the registered event-stream clients               *)
(* (UpdateTimeline), one goroutine per connection forwards the             *)
(* notifications to its browser (handleSSE), and net/http and TCP sit      *)
(* below.  A timeline is its version number; every event is the same       *)
(* string "reload", so a channel is the number of events it holds.         *)
(***************************************************************************)
EXTENDS Naturals, Sequences, SequencesExt

CONSTANTS
  Conn,                 \* connections (a connection may be used again)
  ChanCap,              \* capacity of a client's channel: 4 at server.go:187
  NetCap,               \* events the socket buffers hold before a write waits
  MaxUpdates            \* bound: timelines published in one behaviour

ASSUME CapsAssumption ==
  /\ ChanCap \in Nat \ {0}
  /\ NetCap \in Nat \ {0}
  /\ MaxUpdates \in Nat

VARIABLES
  timeline,             \* s.timeline, as a version number
  mu,                   \* s.mu: "free", or held by the "updater" in its loop
  sseClients,           \* s.sseClients; each channel named by its connection
  idx,                  \* the loop variable of UpdateTimeline
  ch,                   \* events queued in each connection's channel
  pc,                   \* where the handler goroutine of each connection is
  ctx,                  \* r.Context(): "live", done since the client is "gone",
                        \* or "ended" by net/http at the read deadline
  deadline,             \* the last deadline the connection has passed
  net,                  \* events written and not yet read by the browser
  told                  \* history: version current when the connection was
                        \* registered or last had an event written

vars == <<timeline, mu, sseClients, idx, ch, pc, ctx, deadline, net, told>>

updaterVars == <<timeline, mu, idx>>
connVars    == <<ctx, deadline, net, told>>

(***************************************************************************)
(* "none": no request; "accepted": before registration; "loop": at the     *)
(* select; "flush": an event was received and is being written; "leaving": *)
(* in the deferred function.                                               *)
(***************************************************************************)
PC == {"none", "accepted", "loop", "flush", "leaving"}

Registered == {c \in Conn : pc[c] \in {"loop", "flush", "leaving"}}

(* Is an UpdateTimeline in progress still to come to client c? *)
ToBeNotified(c) ==
  /\ mu = "updater"
  /\ \E i \in idx .. Len(sseClients) : sseClients[i] = c

TypeOK ==
  /\ timeline \in 0 .. MaxUpdates
  /\ mu \in {"free", "updater"}
  /\ sseClients \in Seq(Conn)
  /\ idx \in 1 .. Len(sseClients) + 1
  /\ ch \in [Conn -> 0 .. ChanCap]
  /\ pc \in [Conn -> PC]
  /\ ctx \in [Conn -> {"live", "gone", "ended"}]
  /\ deadline \in [Conn -> {"none", "read", "write"}]
  /\ net \in [Conn -> 0 .. NetCap]
  /\ told \in [Conn -> 0 .. MaxUpdates]

Init ==
  /\ timeline = 0
  /\ mu = "free"
  /\ sseClients = <<>>
  /\ idx = 1
  /\ ch = [c \in Conn |-> 0]
  /\ pc = [c \in Conn |-> "none"]
  /\ ctx = [c \in Conn |-> "live"]
  /\ deadline = [c \in Conn |-> "none"]
  /\ net = [c \in Conn |-> 0]
  /\ told = [c \in Conn |-> 0]

------------------------------------------------------------------------------
(* UpdateTimeline, called by the watcher goroutine (server.go:158-169). *)

(* Mutant: the loop misses the first client. *)
BeginUpdateAtSecond ==
  /\ mu = "free"
  /\ timeline < MaxUpdates
  /\ mu' = "updater"
  /\ timeline' = timeline + 1
  /\ idx' = IF sseClients = <<>> THEN 1 ELSE 2
  /\ UNCHANGED <<sseClients, ch, pc, connVars>>

(* Lock and assign; the range expression is evaluated here. *)
BeginUpdate ==
  /\ mu = "free"
  /\ timeline < MaxUpdates
  /\ mu' = "updater"
  /\ timeline' = timeline + 1
  /\ idx' = 1
  /\ UNCHANGED <<sseClients, ch, pc, connVars>>

(* Mutant: nothing bounds what is queued for a slow client. *)
NotifyUnbounded ==
  /\ mu = "updater"
  /\ idx <= Len(sseClients)
  /\ ch' = [ch EXCEPT ![sseClients[idx]] = @ + 1]
  /\ idx' = idx + 1
  /\ UNCHANGED <<timeline, mu, sseClients, pc, connVars>>

(* Mutant: the send waits for room, without the default case. *)
NotifyBlocking ==
  /\ mu = "updater"
  /\ idx <= Len(sseClients)
  /\ ch[sseClients[idx]] < ChanCap
  /\ NotifyUnbounded

(* The non-blocking send: a full channel is skipped. *)
Notify ==
  /\ mu = "updater"
  /\ idx <= Len(sseClients)
  /\ ch' = [ch EXCEPT ![sseClients[idx]] = IF @ < ChanCap THEN @ + 1 ELSE @]
  /\ idx' = idx + 1
  /\ UNCHANGED <<timeline, mu, sseClients, pc, connVars>>

EndUpdate ==
  /\ mu = "updater"
  /\ idx > Len(sseClients)
  /\ mu' = "free"
  /\ idx' = 1
  /\ UNCHANGED <<timeline, sseClients, ch, pc, connVars>>

------------------------------------------------------------------------------
(* handleSSE (server.go:175-212), one goroutine per connection. *)

(* A new request, on a new socket: its channel is empty, its context live. *)
Accept(c) ==
  /\ pc[c] = "none"
  /\ pc' = [pc EXCEPT ![c] = "accepted"]
  /\ net' = [net EXCEPT ![c] = 0]
  /\ UNCHANGED <<updaterVars, sseClients, ch, ctx, deadline, told>>

(* The critical section is one step: nothing else runs under s.mu. *)
Register(c) ==
  /\ pc[c] = "accepted"
  /\ mu = "free"
  /\ sseClients' = Append(sseClients, c)
  /\ pc' = [pc EXCEPT ![c] = "loop"]
  /\ told' = [told EXCEPT ![c] = timeline]
  /\ UNCHANGED <<updaterVars, ch, ctx, deadline, net>>

(* With both cases ready select picks either, so a done context does not
   prevent this step. *)
Receive(c) ==
  /\ pc[c] = "loop"
  /\ ch[c] > 0
  /\ ch' = [ch EXCEPT ![c] = @ - 1]
  /\ pc' = [pc EXCEPT ![c] = "flush"]
  /\ UNCHANGED <<updaterVars, sseClients, connVars>>

(* Mutant: the event stays in the response buffer. *)
FlushOkWithoutFlush(c) ==
  /\ pc[c] = "flush"
  /\ ctx[c] # "gone" /\ deadline[c] # "write"
  /\ pc' = [pc EXCEPT ![c] = "loop"]
  /\ UNCHANGED <<updaterVars, sseClients, ch, connVars>>

(* Fprintf fills the response buffer, Flush writes it to the socket. *)
FlushOk(c) ==
  /\ pc[c] = "flush"
  /\ ctx[c] # "gone" /\ deadline[c] # "write"
  /\ net[c] < NetCap
  /\ net' = [net EXCEPT ![c] = @ + 1]
  /\ told' = [told EXCEPT ![c] = timeline]
  /\ pc' = [pc EXCEPT ![c] = "loop"]
  /\ UNCHANGED <<updaterVars, sseClients, ch, ctx, deadline>>

(* Both results are ignored at server.go:206-207: the event is lost. *)
FlushLost(c) ==
  /\ pc[c] = "flush"
  /\ ctx[c] = "gone" \/ deadline[c] = "write"
  /\ pc' = [pc EXCEPT ![c] = "loop"]
  /\ UNCHANGED <<updaterVars, sseClients, ch, connVars>>

(* Mutant: the handler returns without a deferred function. *)
LeaveWithoutDefer(c) ==
  /\ pc[c] = "loop"
  /\ ctx[c] # "live"
  /\ pc' = [pc EXCEPT ![c] = "none"]
  /\ UNCHANGED <<updaterVars, sseClients, ch, connVars>>

(* Mutant: the context is looked at only after an event. *)
LeaveOnEvent(c) ==
  /\ pc[c] = "loop"
  /\ ctx[c] # "live"
  /\ ch[c] > 0
  /\ pc' = [pc EXCEPT ![c] = "leaving"]
  /\ UNCHANGED <<updaterVars, sseClients, ch, connVars>>

(* return on r.Context().Done(). *)
Leave(c) ==
  /\ pc[c] = "loop"
  /\ ctx[c] # "live"
  /\ pc' = [pc EXCEPT ![c] = "leaving"]
  /\ UNCHANGED <<updaterVars, sseClients, ch, connVars>>

(* The deferred function; then the handler returns and what belonged to the
   request is gone, except what the browser has not read yet. *)
Unregister(c) ==
  /\ pc[c] = "leaving"
  /\ mu = "free"
  /\ sseClients' = RemoveFirst(sseClients, c)
  /\ pc' = [pc EXCEPT ![c] = "none"]
  /\ ch' = [ch EXCEPT ![c] = 0]
  /\ ctx' = [ctx EXCEPT ![c] = "live"]
  /\ deadline' = [deadline EXCEPT ![c] = "none"]
  /\ told' = [told EXCEPT ![c] = 0]
  /\ UNCHANGED <<updaterVars, net>>

------------------------------------------------------------------------------
(* net/http, the network and the browser (external). *)

(* ReadTimeout (server.go:61) stays set on the connection while the handler
   runs: when it passes, net/http's background read fails, which it takes for
   the end of the connection, and the request's context is done. *)
ReadDeadline(c) ==
  /\ pc[c] # "none"
  /\ deadline[c] = "none"
  /\ deadline' = [deadline EXCEPT ![c] = "read"]
  /\ ctx' = [ctx EXCEPT ![c] = IF @ = "live" THEN "ended" ELSE @]
  /\ UNCHANGED <<updaterVars, sseClients, ch, pc, net, told>>

(* WriteTimeout (server.go:62), 15s later: only a handler that waits in a write
   is still there. *)
WriteDeadline(c) ==
  /\ pc[c] = "flush"
  /\ net[c] = NetCap
  /\ deadline[c] = "read"
  /\ deadline' = [deadline EXCEPT ![c] = "write"]
  /\ UNCHANGED <<updaterVars, sseClients, ch, pc, ctx, net, told>>

(* The browser closes the connection; net/http's background read sees it. *)
Disconnect(c) ==
  /\ pc[c] # "none"
  /\ ctx[c] = "live"
  /\ ctx' = [ctx EXCEPT ![c] = "gone"]
  /\ net' = [net EXCEPT ![c] = 0]
  /\ UNCHANGED <<updaterVars, sseClients, ch, pc, deadline, told>>

ClientRead(c) ==
  /\ net[c] > 0
  /\ net' = [net EXCEPT ![c] = @ - 1]
  /\ UNCHANGED <<updaterVars, sseClients, ch, pc, ctx, deadline, told>>

------------------------------------------------------------------------------
Update == BeginUpdate \/ Notify \/ EndUpdate

Handler(c) ==
  \/ Accept(c) \/ Register(c) \/ Receive(c) \/ FlushOk(c) \/ FlushLost(c)
  \/ Leave(c) \/ Unregister(c)

Environment(c) ==
  ReadDeadline(c) \/ WriteDeadline(c) \/ Disconnect(c) \/ ClientRead(c)

Next ==
  \/ Update
  \/ \E c \in Conn : Handler(c) \/ Environment(c)

SafeSpec == Init /\ [][Next]_vars

(***************************************************************************)
(* Goroutines that can run do run, an accepted handler included, and the   *)
(* clock reaches the deadlines of a handler that waits in a write (it      *)
(* reaches the read deadline of every stream, but no property needs it).   *)
(* Nothing is assumed of the browser: it may stop reading, stay for ever   *)
(* or never connect.  BeginUpdate is not fair: nobody has to edit a file.  *)
(***************************************************************************)
Fairness ==
  /\ WF_vars(Notify)
  /\ WF_vars(EndUpdate)
  /\ \A c \in Conn :
       /\ WF_vars(Register(c))
       /\ WF_vars(Receive(c))
       /\ WF_vars(FlushOk(c) \/ FlushLost(c))
       /\ WF_vars(Leave(c))
       /\ WF_vars(Unregister(c))
       /\ WF_vars(pc[c] = "flush" /\ net[c] = NetCap /\ ReadDeadline(c))
       /\ WF_vars(WriteDeadline(c))

Spec == SafeSpec /\ Fairness

------------------------------------------------------------------------------
(***************************************************************************)
(* The registry is exactly the handlers between registration and the end   *)
(* of the deferred function, each once: the removal by index at            *)
(* server.go:194-199 never drops another client and never leaves one       *)
(* behind for UpdateTimeline to send to.                                   *)
(***************************************************************************)
NoDuplicates ==
  \A i, j \in 1 .. Len(sseClients) : sseClients[i] = sseClients[j] => i = j

Registry ==
  /\ NoDuplicates
  /\ \A c \in Conn : c \in Registered <=> \E i \in 1 .. Len(sseClients) : sseClients[i] = c

(***************************************************************************)
(* A registered client whose connection has not ended and that was last    *)
(* told of an older timeline has an event in its channel, is being written *)
(* one, or will be sent one by the running UpdateTimeline: skipping a full *)
(* channel (server.go:165) never loses the last reload.                    *)
(***************************************************************************)
NoLostReload ==
  \A c \in Registered :
    ctx[c] = "live" /\ told[c] < timeline
      => ch[c] > 0 \/ pc[c] = "flush" \/ ToBeNotified(c)

(* The inductive invariant of the proofs: Registry is what makes a new
   UpdateTimeline come to every registered client. *)
IInv ==
  /\ TypeOK
  /\ mu = "free" => idx = 1
  /\ \A c \in Conn : told[c] <= timeline
  /\ \A c \in Conn : pc[c] = "leaving" => ctx[c] # "live"
  /\ \A c \in Conn : deadline[c] # "none" => ctx[c] # "live"
  /\ Registry
  /\ NoLostReload

(* UpdateTimeline never waits for a browser: whatever the clients do, the
   watcher goroutine gets out of its loop (server.go:162-168). *)
UpdateCompletes == mu = "updater" ~> mu = "free"

(* A connection that ended is taken out of the registry: handlers of closed
   tabs do not accumulate, not even those that were blocked in a write. *)
EndedConnectionLeaves ==
  \A c \in Conn : (pc[c] # "none" /\ ctx[c] # "live") ~> pc[c] = "none"

(***************************************************************************)
(* The refinement: subscribers are the registered connections that have    *)
(* not ended.  Checked with its fairness, so every reload is eventually    *)
(* written unless the connection ends.                                     *)
(***************************************************************************)
Subscribers == {c \in Registered : ctx[c] = "live"}

SubscriberTold == [c \in Conn |-> IF c \in Subscribers THEN told[c] ELSE 0]

Feed == INSTANCE SSEFeed WITH
  version     <- timeline,
  subscribers <- Subscribers,
  told        <- SubscriberTold

RefinesFeed == Feed!Spec
==============================================================================

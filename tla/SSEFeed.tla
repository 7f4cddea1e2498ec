------------------------------- MODULE SSEFeed -------------------------------
(***************************************************************************)
(* What the watch-mode event stream promises, without locks, channels,     *)
(* sockets or deadlines (server/server.go:171-174): whoever is subscribed  *)
(* when a new timeline is published is told to reload at some time after   *)
(* the publication, or stops being a subscriber.  A subscriber may be told *)
(* once for several publications: it re-fetches, so only the newest        *)
(* version counts.                                                         *)
(***************************************************************************)
EXTENDS Naturals

CONSTANT Conn           \* event-stream connections

VARIABLES
  version,              \* number of the newest published timeline
  subscribers,          \* connections that are owed a reload per publication
  told                  \* newest version each subscriber has been told of

vars == <<version, subscribers, told>>

TypeOK ==
  /\ version \in Nat
  /\ subscribers \subseteq Conn
  /\ told \in [Conn -> Nat]

Init ==
  /\ version = 0
  /\ subscribers = {}
  /\ told = [c \in Conn |-> 0]

Publish ==
  /\ version' = version + 1
  /\ UNCHANGED <<subscribers, told>>

(* A new subscriber is owed only what is published from now on. *)
Subscribe(c) ==
  /\ c \notin subscribers
  /\ subscribers' = subscribers \cup {c}
  /\ told' = [told EXCEPT ![c] = version]
  /\ UNCHANGED version

Unsubscribe(c) ==
  /\ c \in subscribers
  /\ subscribers' = subscribers \ {c}
  /\ told' = [told EXCEPT ![c] = 0]
  /\ UNCHANGED version

Deliver(c) ==
  /\ c \in subscribers
  /\ told[c] < version
  /\ told' = [told EXCEPT ![c] = version]
  /\ UNCHANGED <<version, subscribers>>

Next ==
  \/ Publish
  \/ \E c \in Conn : Subscribe(c) \/ Unsubscribe(c) \/ Deliver(c)

SafeSpec == Init /\ [][Next]_vars

Spec == SafeSpec /\ \A c \in Conn : WF_vars(Deliver(c))
==============================================================================

---------------------------- MODULE WatchPageProofs ----------------------------
(* Proofs about SSEServer and about WatchPage, which composes it with the page
   and restarts of the program, for any connections, capacities and number of
   updates: the server's invariant and refinement, then the page's invariant. *)
EXTENDS WatchPage, SequenceTheorems, TLAPS

------------------------------------------------------------------------------
(* The server. *)

(* What `append(s[:i], s[i+1:]...)` (server.go:196) leaves of a slice. *)
LEMMA RemoveAtProperties ==
  ASSUME NEW S, NEW s \in Seq(S), NEW i \in 1 .. Len(s)
  PROVE  /\ RemoveAt(s, i) \in Seq(S)
         /\ Len(RemoveAt(s, i)) = Len(s) - 1
         /\ \A k \in 1 .. Len(s) - 1 :
              RemoveAt(s, i)[k] = IF k < i THEN s[k] ELSE s[k + 1]
<1> DEFINE a == SubSeq(s, 1, i - 1)
           b == SubSeq(s, i + 1, Len(s))
<1>0. /\ Len(s) \in Nat
      /\ \A k \in 1 .. Len(s) : s[k] \in S
  BY ElementOfSeq, LenProperties
<1>1. /\ a \in Seq(S)
      /\ Len(a) = i - 1
      /\ \A k \in 1 .. i - 1 : a[k] = s[k]
  <2>1. \A k \in 1 .. i - 1 : s[k] \in S
    BY <1>0
  <2>2. /\ SubSeq(s, 1, i - 1) \in Seq(S)
        /\ Len(SubSeq(s, 1, i - 1)) = IF 1 <= i - 1 THEN (i - 1) - 1 + 1 ELSE 0
        /\ \A k \in 1 .. (i - 1) - 1 + 1 : SubSeq(s, 1, i - 1)[k] = s[1 + k - 1]
    BY <2>1, <1>0, SubSeqProperties
  <2> QED BY <2>2, <1>0
<1>2. /\ b \in Seq(S)
      /\ Len(b) = Len(s) - i
      /\ \A k \in 1 .. Len(s) - i : b[k] = s[i + k]
  <2>1. \A k \in i + 1 .. Len(s) : s[k] \in S
    BY <1>0
  <2>2. /\ SubSeq(s, i + 1, Len(s)) \in Seq(S)
        /\ Len(SubSeq(s, i + 1, Len(s)))
             = IF i + 1 <= Len(s) THEN Len(s) - (i + 1) + 1 ELSE 0
        /\ \A k \in 1 .. Len(s) - (i + 1) + 1 :
             SubSeq(s, i + 1, Len(s))[k] = s[(i + 1) + k - 1]
    BY <2>1, <1>0, SubSeqProperties
  <2> QED BY <2>2, <1>0
<1> HIDE DEF a, b
<1>3. /\ a \o b \in Seq(S)
      /\ Len(a \o b) = Len(a) + Len(b)
      /\ \A k \in 1 .. Len(a) + Len(b) :
           (a \o b)[k] = IF k <= Len(a) THEN a[k] ELSE b[k - Len(a)]
  BY <1>1, <1>2, ConcatProperties
<1>4. RemoveAt(s, i) = a \o b
  BY DEF RemoveAt, a, b
<1>5. Len(a) + Len(b) = Len(s) - 1
  BY <1>0, <1>1, <1>2
<1>6. ASSUME NEW k \in 1 .. Len(s) - 1
      PROVE  (a \o b)[k] = IF k < i THEN s[k] ELSE s[k + 1]
  <2>1. (a \o b)[k] = IF k <= i - 1 THEN a[k] ELSE b[k - (i - 1)]
    BY <1>3, <1>5, <1>1
  <2>2. CASE k < i
    BY <2>1, <2>2, <1>1, <1>0
  <2>3. CASE ~(k < i)
    <3>1. k - (i - 1) \in 1 .. Len(s) - i /\ i + (k - (i - 1)) = k + 1
      BY <2>3, <1>0
    <3>2. b[k - (i - 1)] = s[k + 1]
      BY <3>1, <1>2
    <3> QED BY <2>1, <2>3, <3>2, <1>0
  <2> QED BY <2>2, <2>3
<1> QED BY <1>3, <1>4, <1>5, <1>6

(* The deferred loop of handleSSE on a registry without duplicates: exactly
   the handler's own entry goes. *)
LEMMA RemoveFirstProperties ==
  ASSUME NEW s \in Seq(Conn), NEW c \in Conn,
         \A i, j \in 1 .. Len(s) : s[i] = s[j] => i = j
  PROVE  LET r == RemoveFirst(s, c)
         IN  /\ r \in Seq(Conn)
             /\ Len(r) \in {Len(s), Len(s) - 1}
             /\ \A i, j \in 1 .. Len(r) : r[i] = r[j] => i = j
             /\ \A d \in Conn :
                  (\E i \in 1 .. Len(r) : r[i] = d)
                    <=> d # c /\ \E i \in 1 .. Len(s) : s[i] = d
<1>0. Len(s) \in Nat
  BY LenProperties
<1>1. CASE ~ \E i \in 1 .. Len(s) : s[i] = c
  <2>1. RemoveFirst(s, c) = s
    BY <1>1 DEF RemoveFirst
  <2> QED BY <1>1, <2>1
<1>2. CASE \E i \in 1 .. Len(s) : s[i] = c
  <2>1. PICK i \in 1 .. Len(s) : s[i] = c
    BY <1>2
  <2>2. SelectInSeq(s, LAMBDA v : v = c) = i
    <3>1. {k \in 1 .. Len(s) : s[k] = c} = {i}
      BY <2>1
    <3>2. Min({i}) = i
      BY <1>0, <2>1 DEF Min
    <3> QED BY <3>1, <3>2 DEF SelectInSeq
  <2> DEFINE r == RemoveAt(s, i)
  <2>3. RemoveFirst(s, c) = r
    BY <1>2, <2>2 DEF RemoveFirst
  <2>4. /\ r \in Seq(Conn)
        /\ Len(r) = Len(s) - 1
        /\ \A k \in 1 .. Len(s) - 1 : r[k] = IF k < i THEN s[k] ELSE s[k + 1]
    BY RemoveAtProperties
  <2> HIDE DEF r
  <2>5. ASSUME NEW k \in 1 .. Len(r), NEW m \in 1 .. Len(r), r[k] = r[m]
        PROVE  k = m
    BY <1>0, <2>4, <2>5
  <2>6. ASSUME NEW d \in Conn
        PROVE  (\E k \in 1 .. Len(r) : r[k] = d)
                 <=> d # c /\ \E k \in 1 .. Len(s) : s[k] = d
    <3>1. ASSUME NEW k \in 1 .. Len(r), r[k] = d
          PROVE  d # c /\ \E m \in 1 .. Len(s) : s[m] = d
      BY <1>0, <2>1, <2>4, <3>1
    <3>2. ASSUME d # c, NEW k \in 1 .. Len(s), s[k] = d
          PROVE  \E m \in 1 .. Len(r) : r[m] = d
      <4>1. CASE k < i
        BY <1>0, <2>4, <3>2, <4>1
      <4>2. CASE k > i
        <5>1. k - 1 \in 1 .. Len(r) /\ ~(k - 1 < i) /\ (k - 1) + 1 = k
          BY <1>0, <2>4, <4>2
        <5>2. r[k - 1] = d
          BY <5>1, <2>4, <3>2
        <5> QED BY <5>1, <5>2
      <4> QED BY <1>0, <2>1, <3>2, <4>1, <4>2
    <3> QED BY <3>1, <3>2
  <2> QED BY <2>3, <2>4, <2>5, <2>6
<1> QED BY <1>1, <1>2

------------------------------------------------------------------------------
LEMMA InitIInv == Init => IInv
BY CapsAssumption
   DEF Init, IInv, TypeOK, Registry, NoDuplicates, Registered, NoLostReload, PC

(* A step that keeps the slice and registers or unregisters nobody. *)
LEMMA SameRegistry ==
  ASSUME Registry, UNCHANGED sseClients, Registered' = Registered
  PROVE  Registry'
BY DEF Registry, NoDuplicates

(* Registration puts a newcomer in the slice once. *)
LEMMA AppendRegistry ==
  ASSUME Registry, sseClients \in Seq(Conn), NEW c \in Conn, c \notin Registered,
         sseClients' = Append(sseClients, c), Registered' = Registered \cup {c}
  PROVE  Registry' /\ sseClients' \in Seq(Conn) /\ Len(sseClients') = Len(sseClients) + 1
<1>1. Len(sseClients) \in Nat
  BY LenProperties
<1>2. /\ sseClients' \in Seq(Conn)
      /\ Len(sseClients') = Len(sseClients) + 1
      /\ \A i \in 1 .. Len(sseClients) : sseClients'[i] = sseClients[i]
      /\ sseClients'[Len(sseClients) + 1] = c
  BY AppendProperties
<1>3. \A i \in 1 .. Len(sseClients) : sseClients[i] # c
  BY DEF Registry
<1>4. NoDuplicates'
  <2> SUFFICES ASSUME NEW i \in 1 .. Len(sseClients'), NEW j \in 1 .. Len(sseClients'),
                      sseClients'[i] = sseClients'[j]
               PROVE  i = j
    BY DEF NoDuplicates
  <2>1. CASE i = Len(sseClients) + 1 \/ j = Len(sseClients) + 1
    BY <1>1, <1>2, <1>3, <2>1
  <2>2. CASE i \in 1 .. Len(sseClients) /\ j \in 1 .. Len(sseClients)
    BY <1>2, <2>2 DEF Registry, NoDuplicates
  <2> QED BY <1>1, <1>2, <2>1, <2>2
<1>5. ASSUME NEW d \in Conn
      PROVE  d \in Registered' <=> \E i \in 1 .. Len(sseClients') : sseClients'[i] = d
  <2>1. (\E i \in 1 .. Len(sseClients') : sseClients'[i] = d)
          <=> d = c \/ \E i \in 1 .. Len(sseClients) : sseClients[i] = d
    <3>1. ASSUME NEW i \in 1 .. Len(sseClients'), sseClients'[i] = d
          PROVE  d = c \/ \E k \in 1 .. Len(sseClients) : sseClients[k] = d
      BY <1>1, <1>2, <3>1
    <3>2. ASSUME NEW k \in 1 .. Len(sseClients), sseClients[k] = d
          PROVE  \E i \in 1 .. Len(sseClients') : sseClients'[i] = d
      BY <1>1, <1>2, <3>2
    <3>3. Len(sseClients) + 1 \in 1 .. Len(sseClients')
      BY <1>1, <1>2
    <3> QED BY <1>2, <3>1, <3>2, <3>3
  <2>2. d \in Registered <=> \E i \in 1 .. Len(sseClients) : sseClients[i] = d
    BY DEF Registry
  <2> QED BY <2>1, <2>2
<1> QED BY <1>2, <1>4, <1>5 DEF Registry

(* The deferred function takes out the leaving handler and nobody else. *)
LEMMA RemoveRegistry ==
  ASSUME Registry, sseClients \in Seq(Conn), NEW c \in Conn,
         sseClients' = RemoveFirst(sseClients, c), Registered' = Registered \ {c}
  PROVE  Registry' /\ sseClients' \in Seq(Conn)
<1>1. \A i, j \in 1 .. Len(sseClients) : sseClients[i] = sseClients[j] => i = j
  BY DEF Registry, NoDuplicates
<1> DEFINE r == RemoveFirst(sseClients, c)
<1>2. /\ r \in Seq(Conn)
      /\ \A i, j \in 1 .. Len(r) : r[i] = r[j] => i = j
      /\ \A d \in Conn :
           (\E i \in 1 .. Len(r) : r[i] = d)
             <=> d # c /\ \E i \in 1 .. Len(sseClients) : sseClients[i] = d
  BY <1>1, RemoveFirstProperties
<1> HIDE DEF r
<1>2a. sseClients' = r
  BY DEF r
<1>3. \A d \in Conn : d \in Registered <=> \E i \in 1 .. Len(sseClients) : sseClients[i] = d
  BY DEF Registry
<1>4. Registry'
  BY <1>2, <1>2a, <1>3 DEF Registry, NoDuplicates
<1> QED BY <1>2, <1>2a, <1>4

(* The types, as the steps need them. *)
LEMMA Typed ==
  ASSUME IInv
  PROVE  /\ ch \in [Conn -> 0 .. ChanCap] /\ pc \in [Conn -> PC]
         /\ ctx \in [Conn -> {"live", "gone", "ended"}]
         /\ deadline \in [Conn -> {"none", "read", "write"}]
         /\ net \in [Conn -> 0 .. NetCap] /\ told \in [Conn -> 0 .. MaxUpdates]
         /\ timeline \in 0 .. MaxUpdates
         /\ mu \in {"free", "updater"} /\ sseClients \in Seq(Conn)
         /\ idx \in 1 .. Len(sseClients) + 1
BY DEF IInv, TypeOK

(* A step that registers and unregisters nobody, and after which a client that
   is still to be told of the timeline has what it had. *)
LEMMA SameRegisteredIInv ==
  ASSUME IInv, UNCHANGED updaterVars, UNCHANGED sseClients, Registered' = Registered,
         ch' \in [Conn -> 0 .. ChanCap], pc' \in [Conn -> PC],
         ctx' \in [Conn -> {"live", "gone", "ended"}],
         deadline' \in [Conn -> {"none", "read", "write"}],
         net' \in [Conn -> 0 .. NetCap], told' \in [Conn -> 0 .. MaxUpdates],
         \A d \in Conn : told'[d] \in {told[d], timeline},
         \A d \in Conn : pc'[d] = "leaving" => ctx'[d] # "live",
         \A d \in Conn : deadline'[d] # "none" => ctx'[d] # "live",
         \A d \in Registered : ctx'[d] = "live" /\ told'[d] # timeline =>
           /\ ctx[d] = "live" /\ told'[d] = told[d]
           /\ ch[d] > 0 \/ pc[d] = "flush" => ch'[d] > 0 \/ pc'[d] = "flush"
  PROVE  IInv'
<1>1. UNCHANGED <<timeline, mu, idx, sseClients>> /\ timeline \in Nat
  BY CapsAssumption DEF updaterVars, IInv, TypeOK
<1>2. TypeOK'
  BY <1>1 DEF IInv, TypeOK
<1>3. Registry'
  BY <1>1, SameRegistry DEF IInv
<1>4. \A d \in Conn : told'[d] <= timeline'
  BY <1>1 DEF IInv
<1>5. NoLostReload'
  <2> SUFFICES ASSUME NEW d \in Registered, ctx'[d] = "live", told'[d] < timeline
               PROVE  ch'[d] > 0 \/ pc'[d] = "flush" \/ ToBeNotified(d)'
    BY <1>1 DEF NoLostReload
  <2>1. told'[d] # timeline
    BY <1>1
  <2>2. ToBeNotified(d)' = ToBeNotified(d)
    BY <1>1 DEF ToBeNotified
  <2>3. ch[d] > 0 \/ pc[d] = "flush" \/ ToBeNotified(d)
    BY <2>1 DEF IInv, NoLostReload
  <2> QED BY <2>1, <2>2, <2>3
<1>6. mu' = "free" => idx' = 1
  BY <1>1 DEF IInv
<1> QED BY <1>2, <1>3, <1>4, <1>5, <1>6 DEF IInv

(* Steps of the browser, the network and the clock touch no registry. *)
LEMMA EnvironmentIInv ==
  ASSUME IInv, NEW c \in Conn, Environment(c)
  PROVE  IInv'
<1>0. /\ UNCHANGED updaterVars /\ UNCHANGED <<sseClients, ch, pc, told>>
      /\ Registered' = Registered
  BY DEF Environment, ReadDeadline, Disconnect, ClientRead, WriteDeadline, Registered
<1>1. /\ ctx' \in [Conn -> {"live", "gone", "ended"}]
      /\ \A d \in Conn : ctx'[d] = ctx[d] \/ ctx'[d] # "live"
  BY Typed DEF Environment, ReadDeadline, Disconnect, ClientRead, WriteDeadline
<1>2. deadline' \in [Conn -> {"none", "read", "write"}]
  BY Typed DEF Environment, ReadDeadline, Disconnect, ClientRead, WriteDeadline
<1>3. net' \in [Conn -> 0 .. NetCap]
  <2>1. \A k \in 0 .. NetCap : k > 0 => k - 1 \in 0 .. NetCap
    BY CapsAssumption
  <2>2. CASE Disconnect(c)
    BY <2>2, Typed, CapsAssumption DEF Disconnect
  <2>3. CASE ClientRead(c)
    <3>1. net[c] - 1 \in 0 .. NetCap
      BY <2>1, <2>3, Typed DEF ClientRead
    <3> QED BY <2>3, <3>1, Typed DEF ClientRead
  <2> QED BY <2>2, <2>3, Typed DEF Environment, ReadDeadline, WriteDeadline
<1>4. \A d \in Conn : pc'[d] = "leaving" => ctx'[d] # "live"
  BY <1>0, <1>1 DEF IInv
<1>4a. \A d \in Conn : deadline'[d] # "none" => ctx'[d] # "live"
  BY <1>1, Typed DEF IInv, Environment, ReadDeadline, Disconnect, ClientRead, WriteDeadline
<1>5. Registered \subseteq Conn
  BY DEF Registered
<1> QED BY <1>0, <1>1, <1>2, <1>3, <1>4, <1>4a, <1>5, Typed, SameRegisteredIInv

(* The three stages of UpdateTimeline. *)
LEMMA UpdateIInv ==
  ASSUME IInv, Update
  PROVE  IInv'
<1> USE CapsAssumption DEF IInv, TypeOK, PC, connVars
<1>1. CASE BeginUpdate
  <2> USE <1>1 DEF BeginUpdate
  <2>1. TypeOK' /\ (mu' = "free" => idx' = 1) /\ \A c \in Conn : told'[c] <= timeline'
    OBVIOUS
  <2>2. Registry'
    BY DEF Registry, NoDuplicates, Registered
  <2>3. NoLostReload'
    BY <2>1 DEF NoLostReload, Registry, Registered, ToBeNotified
  <2> QED BY <2>1, <2>2, <2>3
<1>2. CASE Notify
  <2> USE <1>2 DEF Notify
  <2>1. Len(sseClients) \in Nat /\ sseClients[idx] \in Conn
    BY LenProperties, ElementOfSeq
  <2>2. TypeOK' /\ (mu' = "free" => idx' = 1) /\ \A c \in Conn : told'[c] <= timeline'
    <3>1. ch' \in [Conn -> 0 .. ChanCap]
      <4> DEFINE n == IF ch[sseClients[idx]] < ChanCap
                        THEN ch[sseClients[idx]] + 1 ELSE ch[sseClients[idx]]
      <4>1. n \in 0 .. ChanCap
        <5>1. \A k \in 0 .. ChanCap : k < ChanCap => k + 1 \in 0 .. ChanCap
          BY CapsAssumption
        <5>2. ch[sseClients[idx]] \in 0 .. ChanCap
          BY ONLY <2>1, IInv, Typed
        <5> HIDE DEF IInv, TypeOK
        <5> QED BY ONLY <5>1, <5>2
      <4>2. ch' = [ch EXCEPT ![sseClients[idx]] = n]
        OBVIOUS
      <4> HIDE DEF n
      <4> QED BY <4>1, <4>2
    <3>2. idx' \in 1 .. Len(sseClients') + 1
      BY <2>1
    <3> QED BY <3>1, <3>2
  <2>3. Registry'
    BY DEF Registry, NoDuplicates, Registered
  <2>4. ASSUME NEW c \in Registered', ctx'[c] = "live", told'[c] < timeline'
        PROVE  ch'[c] > 0 \/ pc'[c] = "flush" \/ ToBeNotified(c)'
    <3>1. c \in Conn /\ (ch[c] > 0 \/ pc[c] = "flush" \/ ToBeNotified(c))
      BY <2>4 DEF NoLostReload, Registered
    <3>2. CASE c = sseClients[idx]
      <4>1. /\ ch[c] \in 0 .. ChanCap
            /\ ch'[c] = IF ch[c] < ChanCap THEN ch[c] + 1 ELSE ch[c]
        BY <3>1, <3>2
      <4> QED BY ONLY <4>1, CapsAssumption
    <3>3. CASE c # sseClients[idx]
      <4>1. ch'[c] = ch[c] /\ pc'[c] = pc[c]
        BY <3>1, <3>3
      <4>2. ToBeNotified(c) => ToBeNotified(c)'
        <5>1. \A i \in idx .. Len(sseClients) :
                sseClients[i] = c => i \in idx + 1 .. Len(sseClients)
          <6>1. \A i \in idx .. Len(sseClients) : sseClients[i] = c => i # idx
            BY <3>3
          <6>2. idx \in Nat /\ Len(sseClients) \in Nat
            BY <2>1
          <6> QED BY ONLY <6>1, <6>2
        <5> QED BY <5>1 DEF ToBeNotified
      <4> QED BY <3>1, <4>1, <4>2
    <3> QED BY <3>2, <3>3
  <2>5. NoLostReload'
    BY <2>4 DEF NoLostReload
  <2> QED BY <2>2, <2>3, <2>5
<1>3. CASE EndUpdate
  <2> USE <1>3 DEF EndUpdate
  <2>1. Len(sseClients) \in Nat
    BY LenProperties
  <2>2. TypeOK' /\ (mu' = "free" => idx' = 1) /\ \A c \in Conn : told'[c] <= timeline'
    BY <2>1
  <2>3. Registry'
    BY DEF Registry, NoDuplicates, Registered
  <2>4. NoLostReload'
    BY <2>1 DEF NoLostReload, Registered, ToBeNotified
  <2> QED BY <2>2, <2>3, <2>4
<1> QED BY <1>1, <1>2, <1>3 DEF Update
(* Receiving an event, writing it and leaving: the client stays registered. *)
LEMMA ForwardIInv ==
  ASSUME IInv, NEW c \in Conn, Receive(c) \/ FlushOk(c) \/ FlushLost(c) \/ Leave(c)
  PROVE  IInv'
<1> DEFINE at == IF Receive(c) THEN "flush" ELSE IF Leave(c) THEN "leaving" ELSE "loop"
<1>1. /\ UNCHANGED updaterVars /\ UNCHANGED <<sseClients, ctx, deadline>>
      /\ pc[c] \in {"loop", "flush"} /\ pc' = [pc EXCEPT ![c] = at]
  BY DEF Receive, FlushOk, FlushLost, Leave, connVars
<1>2. at \in PC /\ (at = "leaving" => ctx[c] # "live")
  BY DEF Leave, PC
<1>3. /\ ch' \in [Conn -> 0 .. ChanCap]
      /\ \A d \in Conn : ch'[d] = ch[d] \/ (d = c /\ at = "flush")
  <2>1. CASE Receive(c)
    <3>1. \A k \in 0 .. ChanCap : k > 0 => k - 1 \in 0 .. ChanCap
      BY CapsAssumption
    <3>2. ch[c] - 1 \in 0 .. ChanCap /\ ch' = [ch EXCEPT ![c] = ch[c] - 1]
      BY <2>1, <3>1, Typed DEF Receive
    <3>3. at = "flush"
      BY <2>1
    <3> HIDE DEF at
    <3> QED BY <3>2, <3>3, Typed
  <2>2. CASE UNCHANGED ch
    BY <2>2, Typed
  <2> QED BY <2>1, <2>2 DEF FlushOk, FlushLost, Leave
<1>4. /\ net' \in [Conn -> 0 .. NetCap] /\ told' \in [Conn -> 0 .. MaxUpdates]
      /\ \A d \in Conn : told'[d] \in {told[d], timeline}
      /\ at = "loop" => told'[c] = timeline \/ ctx[c] # "live"
      /\ told' = told \/ at = "loop"
  <2>1. CASE FlushOk(c)
    <3>1. \A k \in 0 .. NetCap : k < NetCap => k + 1 \in 0 .. NetCap
      BY CapsAssumption
    <3>2. net[c] + 1 \in 0 .. NetCap /\ net' = [net EXCEPT ![c] = net[c] + 1]
      BY <2>1, <3>1, Typed DEF FlushOk
    <3>3. told' = [told EXCEPT ![c] = timeline]
      BY <2>1 DEF FlushOk
    <3>4. at = "loop"
      BY <2>1 DEF FlushOk, Receive, Leave
    <3> HIDE DEF at
    <3> QED BY <3>2, <3>3, <3>4, Typed
  <2>2. CASE Receive(c) \/ FlushLost(c) \/ Leave(c)
    <3>1. UNCHANGED <<net, told>>
      BY <2>2 DEF Receive, FlushLost, Leave, connVars
    <3>2. at = "loop" => ctx[c] # "live"
      BY <2>2 DEF FlushLost, IInv
    <3> QED BY <3>1, <3>2, Typed
  <2> QED BY <2>1, <2>2
<1> HIDE DEF at
<1>5. pc' \in [Conn -> PC] /\ pc'[c] = at /\ \A d \in Conn \ {c} : pc'[d] = pc[d]
  BY <1>1, <1>2, Typed
<1>6. at \in {"loop", "flush", "leaving"}
  BY DEF at
<1>7. Registered' = Registered /\ Registered \subseteq Conn
  BY <1>1, <1>5, <1>6 DEF Registered
<1>8. /\ \A d \in Conn : pc'[d] = "leaving" => ctx'[d] # "live"
      /\ \A d \in Conn : deadline'[d] # "none" => ctx'[d] # "live"
  BY <1>1, <1>2, <1>5 DEF IInv
<1>9. ASSUME NEW d \in Registered, ctx'[d] = "live", told'[d] # timeline
      PROVE  /\ ctx[d] = "live" /\ told'[d] = told[d]
             /\ ch[d] > 0 \/ pc[d] = "flush" => ch'[d] > 0 \/ pc'[d] = "flush"
  <2>1. ctx[d] = "live" /\ told'[d] = told[d]
    BY <1>1, <1>4, <1>7, <1>9
  <2>2. CASE d = c
    BY <1>1, <1>2, <1>4, <1>5, <1>6, <1>9, <2>1, <2>2
  <2>3. CASE d # c
    BY <1>3, <1>5, <1>7, <2>1, <2>3
  <2> QED BY <2>2, <2>3
<1> QED BY <1>1, <1>3, <1>4, <1>5, <1>7, <1>8, <1>9, Typed, SameRegisteredIInv

(* The steps of a connection's handler. *)
LEMMA HandlerIInv ==
  ASSUME IInv, NEW c \in Conn, Handler(c)
  PROVE  IInv'
<1> USE CapsAssumption DEF IInv, TypeOK, updaterVars, connVars
<1>0. Len(sseClients) \in Nat
  BY LenProperties
<1>1. CASE Accept(c)
  <2> USE <1>1 DEF Accept
  <2>1. TypeOK'
    <3>1. 0 \in 0 .. NetCap /\ "accepted" \in PC
      BY DEF PC
    <3> QED BY <3>1
  <2>2. Registered' = Registered
    BY DEF Registered
  <2>3. Registry'
    BY <2>2, SameRegistry
  <2>4. NoLostReload'
    BY <2>2 DEF NoLostReload, Registered, ToBeNotified
  <2> QED BY <2>1, <2>3, <2>4
<1>2. CASE Register(c)
  <2> USE <1>2 DEF Register
  <2>1. Registered' = Registered \cup {c} /\ c \notin Registered
    BY DEF Registered
  <2>2. Registry' /\ sseClients' \in Seq(Conn) /\ Len(sseClients') = Len(sseClients) + 1
    BY <2>1, AppendRegistry
  <2>3. TypeOK'
    <3>1. "loop" \in PC
      BY DEF PC
    <3>2. idx' \in 1 .. Len(sseClients') + 1
      BY <1>0, <2>2
    <3>3. pc' \in [Conn -> PC] /\ told' \in [Conn -> 0 .. MaxUpdates]
      BY <3>1
    <3> QED BY <2>2, <3>2, <3>3
  <2>4. \A d \in Conn : told'[d] <= timeline'
    OBVIOUS
  <2>5. NoLostReload'
    BY <2>1 DEF NoLostReload, Registered, ToBeNotified
  <2> QED BY <2>2, <2>3, <2>4, <2>5
<1>3. CASE Receive(c) \/ FlushOk(c) \/ FlushLost(c) \/ Leave(c)
  BY <1>3, ForwardIInv
<1>4. CASE Unregister(c)
  <2> USE <1>4 DEF Unregister
  <2>3. Registered' = Registered \ {c}
    BY DEF Registered
  <2>0. Registry' /\ sseClients' \in Seq(Conn)
    BY <2>3, RemoveRegistry
  <2>1. TypeOK'
    <3>1. Len(sseClients') \in Nat
      BY <2>0, LenProperties
    <3>2. 0 \in 0 .. ChanCap /\ 0 \in 0 .. MaxUpdates /\ "none" \in PC
      BY DEF PC
    <3>3. idx' \in 1 .. Len(sseClients') + 1
      BY <3>1
    <3> QED BY <2>0, <3>2, <3>3
  <2>2. \A d \in Conn : told'[d] <= timeline'
    OBVIOUS
  <2>4. NoLostReload'
    BY <2>3 DEF NoLostReload, Registered, ToBeNotified
  <2> QED BY <2>0, <2>1, <2>2, <2>4
<1> QED BY <1>1, <1>2, <1>3, <1>4 DEF Handler

LEMMA StutterIInv == IInv /\ UNCHANGED vars => IInv'
BY DEF vars, IInv, TypeOK, Registry, NoDuplicates, Registered, NoLostReload,
       ToBeNotified

LEMMA NextIInv == IInv /\ [Next]_vars => IInv'
BY UpdateIInv, HandlerIInv, EnvironmentIInv, StutterIInv DEF Next

THEOREM Invariance == SafeSpec => []IInv
BY InitIInv, NextIInv, PTL DEF SafeSpec
(* TypeOK of SSEServer. *)
THEOREM TypeCorrect == Spec => []TypeOK
BY Invariance, PTL DEF Spec, IInv

(* The registry of server.go:28 holds exactly the registered handlers. *)
THEOREM RegistryCorrect == Spec => []Registry
BY Invariance, PTL DEF Spec, IInv

(* Skipping a full channel (server.go:165) never loses the last reload. *)
THEOREM NoReloadIsLost == Spec => []NoLostReload
BY Invariance, PTL DEF Spec, IInv

------------------------------------------------------------------------------
(* The refinement of SSEFeed: initial states, then each kind of step. *)
LEMMA FeedInit == Init => Feed!Init
BY DEF Init, Feed!Init, Subscribers, SubscriberTold, Registered

LEMMA UpdateFeed ==
  ASSUME IInv, Update
  PROVE  [Feed!Next]_Feed!vars
<1>1. UNCHANGED <<Subscribers, SubscriberTold>>
  BY DEF Update, BeginUpdate, Notify, EndUpdate, connVars, Subscribers,
         SubscriberTold, Registered
<1>2. CASE BeginUpdate
  BY <1>1, <1>2 DEF BeginUpdate, Feed!Next, Feed!Publish
<1>3. CASE Notify \/ EndUpdate
  BY <1>1, <1>3 DEF Notify, EndUpdate, Feed!vars
<1> QED BY <1>2, <1>3 DEF Update

(* A step after which the connection is no longer, or is still not, a
   subscriber. *)
LEMMA EndSubscription ==
  ASSUME IInv, NEW c \in Conn, UNCHANGED timeline, c \notin Subscribers',
         \A d \in Conn \ {c} : d \in Subscribers' <=> d \in Subscribers,
         \A d \in Conn \ {c} : told'[d] = told[d]
  PROVE  [Feed!Next]_Feed!vars
<1>1. Subscribers' = Subscribers \ {c}
  BY DEF Subscribers, Registered
<1>2. SubscriberTold' = [SubscriberTold EXCEPT ![c] = 0]
  BY <1>1 DEF SubscriberTold
<1>3. CASE c \in Subscribers
  BY <1>1, <1>2, <1>3 DEF Feed!Next, Feed!Unsubscribe
<1>4. CASE c \notin Subscribers
  <2>1. SubscriberTold' = SubscriberTold
    BY <1>1, <1>4 DEF SubscriberTold
  <2> QED BY <1>1, <1>4, <2>1 DEF Feed!vars
<1> QED BY <1>3, <1>4

LEMMA ConnFeed ==
  ASSUME IInv, NEW c \in Conn, Handler(c) \/ Environment(c)
  PROVE  [Feed!Next]_Feed!vars
<1> USE DEF updaterVars, connVars
<1>0. /\ pc \in [Conn -> PC] /\ ctx \in [Conn -> {"live", "gone", "ended"}]
      /\ told \in [Conn -> 0 .. MaxUpdates] /\ timeline \in Nat
      /\ told[c] <= timeline /\ (pc[c] = "leaving" => ctx[c] # "live")
  <2>1. \A k \in 0 .. MaxUpdates : k \in Nat
    BY CapsAssumption
  <2> QED BY <2>1, Typed DEF IInv
<1>1. CASE \/ Accept(c) \/ Receive(c) \/ Leave(c) \/ FlushLost(c)
           \/ WriteDeadline(c) \/ ClientRead(c)
  <2>1. UNCHANGED <<timeline, told, ctx>> /\ Registered' = Registered
    BY <1>0, <1>1 DEF Accept, Receive, Leave, FlushLost, WriteDeadline, ClientRead,
         Registered
  <2> QED BY <2>1 DEF Feed!vars, Subscribers, SubscriberTold
<1>2. CASE Register(c)
  <2>1. /\ UNCHANGED <<timeline, ctx>>
        /\ told' = [told EXCEPT ![c] = timeline]
        /\ Registered' = Registered \cup {c} /\ c \notin Registered
    BY <1>0, <1>2 DEF Register, Registered
  <2>2. CASE ctx[c] = "live"
    <3>1. Subscribers' = Subscribers \cup {c} /\ c \notin Subscribers
      BY <2>1, <2>2 DEF Subscribers
    <3>2. SubscriberTold' = [SubscriberTold EXCEPT ![c] = timeline]
      BY <1>0, <2>1, <3>1 DEF SubscriberTold
    <3> QED BY <2>1, <3>1, <3>2 DEF Feed!Next, Feed!Subscribe
  <2>3. CASE ctx[c] # "live"
    BY <1>0, <2>1, <2>3, EndSubscription DEF Subscribers
  <2> QED BY <2>2, <2>3
<1>3. CASE FlushOk(c)
  <2>1. /\ UNCHANGED <<timeline, ctx>>
        /\ told' = [told EXCEPT ![c] = timeline]
        /\ Registered' = Registered /\ c \in Registered
    BY <1>0, <1>3 DEF FlushOk, Registered
  <2>2. Subscribers' = Subscribers
    BY <2>1 DEF Subscribers
  <2>3. CASE c \in Subscribers
    <3>1. SubscriberTold' = [SubscriberTold EXCEPT ![c] = timeline]
      BY <1>0, <2>1, <2>2, <2>3 DEF SubscriberTold
    <3>2. SubscriberTold[c] = told[c]
      BY <2>3 DEF SubscriberTold
    <3>3. CASE told[c] < timeline
      BY <2>1, <2>2, <2>3, <3>1, <3>2, <3>3 DEF Feed!Next, Feed!Deliver
    <3>4. CASE told[c] = timeline
      <4>1. told' = told
        BY <1>0, <2>1, <3>4
      <4>2. SubscriberTold' = SubscriberTold
        BY <2>2, <4>1 DEF SubscriberTold
      <4> QED BY <2>1, <2>2, <4>2 DEF Feed!vars
    <3> QED BY <1>0, <3>3, <3>4
  <2>4. CASE c \notin Subscribers
    BY <1>0, <2>1, <2>2, <2>4, EndSubscription
  <2> QED BY <2>3, <2>4
<1>4. CASE ReadDeadline(c) \/ Unregister(c) \/ Disconnect(c)
  <2>1. c \notin Subscribers'
    BY <1>0, <1>4 DEF ReadDeadline, Unregister, Disconnect, Subscribers, Registered
  <2>2. /\ UNCHANGED timeline
        /\ \A d \in Conn \ {c} : d \in Subscribers' <=> d \in Subscribers
        /\ \A d \in Conn \ {c} : told'[d] = told[d]
    BY <1>0, <1>4 DEF ReadDeadline, Unregister, Disconnect, Subscribers, Registered
  <2> QED BY <2>1, <2>2, EndSubscription
<1> QED BY <1>1, <1>2, <1>3, <1>4 DEF Handler, Environment

(* Every behaviour of the server is, seen through the refinement mapping, a
   behaviour of the feed: server.go:158-212 delivers and ends subscriptions
   the way SSEFeed says. *)
THEOREM ImplementsFeed == Spec => Feed!SafeSpec
<1>1. IInv /\ [Next]_vars => [Feed!Next]_Feed!vars
  <2>1. UNCHANGED vars => UNCHANGED Feed!vars
    BY DEF vars, Feed!vars, Subscribers, SubscriberTold, Registered
  <2> QED BY <2>1, UpdateFeed, ConnFeed DEF Next
<1> QED BY <1>1, FeedInit, Invariance, PTL DEF Spec, SafeSpec, Feed!SafeSpec

------------------------------------------------------------------------------
(* The page. *)

(* Nothing the page has or is sent is newer than the timeline. *)
VersionsKnown ==
  /\ shown <= timeline /\ received <= timeline /\ joined <= timeline
  /\ \A v \in Version : responses[v] > 0 => v <= timeline

(* A program that has exited left no handler and no update behind. *)
DownIsEmpty == ~up => mu = "free" /\ \A c \in Conn : pc[c] = "none"

ClosedIsEmpty == page \in {"closed", "failed"} => requests = 0

PageIInv ==
  /\ IInv
  /\ PageTypeOK
  /\ VersionsKnown /\ DownIsEmpty /\ ClosedIsEmpty
  /\ PublishedIsOnItsWay

LEMMA PageInitIInv == PageInit => PageIInv
<1> SUFFICES ASSUME PageInit PROVE PageIInv
  OBVIOUS
<1>1. IInv
  BY InitIInv DEF PageInit
<1>2. PageTypeOK
  <2>1. /\ up \in BOOLEAN /\ connected \in BOOLEAN /\ cut \in BOOLEAN
        /\ page = "closed" /\ es = "none" /\ stream = {}
        /\ requests = 0 /\ responses = NoAnswers
        /\ shown = 0 /\ received = 0 /\ joined = 0
    BY DEF PageInit
  <2>2. 0 \in Version /\ NoAnswers \in [Version -> Nat]
    BY CapsAssumption DEF Version, NoAnswers
  <2> QED BY <2>1, <2>2 DEF PageTypeOK
<1>3. VersionsKnown /\ DownIsEmpty /\ ClosedIsEmpty
  <2>1. /\ up /\ requests = 0 /\ responses = NoAnswers
        /\ shown = 0 /\ received = 0 /\ joined = 0
    BY DEF PageInit
  <2>2. timeline = 0
    BY DEF PageInit, Init
  <2>3. \A v \in Version : NoAnswers[v] = 0
    BY DEF NoAnswers
  <2>4. VersionsKnown
    BY <2>1, <2>2, <2>3 DEF VersionsKnown
  <2> QED BY <2>1, <2>4 DEF DownIsEmpty, ClosedIsEmpty
<1>4. PublishedIsOnItsWay
  BY DEF PageInit, PublishedIsOnItsWay
<1> QED BY <1>1, <1>2, <1>3, <1>4 DEF PageIInv

(* The types, as the steps need them. *)
LEMMA PageTyped ==
  ASSUME PageIInv
  PROVE  /\ IInv /\ TypeOK /\ PageTypeOK
         /\ VersionsKnown /\ DownIsEmpty /\ ClosedIsEmpty /\ PublishedIsOnItsWay
         /\ timeline \in Version /\ timeline \in Nat /\ MaxUpdates \in Nat
         /\ requests \in Nat /\ responses \in [Version -> Nat]
         /\ shown \in Version /\ received \in Version /\ joined \in Version
         /\ Version \subseteq Nat
         /\ stream = {} \/ \E c \in Conn : stream = {c}
<1>1. /\ IInv /\ TypeOK /\ PageTypeOK
      /\ VersionsKnown /\ DownIsEmpty /\ ClosedIsEmpty /\ PublishedIsOnItsWay
  BY DEF PageIInv, IInv
<1>2. /\ timeline \in Version /\ timeline \in Nat /\ MaxUpdates \in Nat
      /\ Version \subseteq Nat
  BY <1>1, CapsAssumption DEF TypeOK, Version
<1> QED BY <1>1, <1>2 DEF PageTypeOK

------------------------------------------------------------------------------
(* The server's steps leave the page alone, but for the version joined. *)

LEMMA ServerKeeps ==
  ASSUME PageIInv, IInv', UNCHANGED <<up, page, es, stream, connected, cut>>,
         UNCHANGED <<requests, responses, shown, received>>,
         timeline <= timeline', joined' \in {joined, timeline}, up,
         PublishedIsOnItsWay'
  PROVE  PageIInv'
<1> USE PageTyped
<1>1. timeline' \in Nat /\ timeline' \in Version
  BY DEF IInv, TypeOK, Version
<1>2. PageTypeOK'
  BY DEF PageTypeOK
<1>3. VersionsKnown'
  <2>1. \A v \in Version : v <= timeline => v <= timeline'
    BY <1>1
  <2>2. joined' <= timeline'
    <3>1. joined \in Nat /\ joined <= timeline /\ timeline \in Nat
      BY DEF VersionsKnown
    <3>2. CASE joined' = joined
      BY <1>1, <3>1, <3>2
    <3>3. CASE joined' = timeline
      BY <3>3
    <3> QED BY <3>2, <3>3
  <2> QED BY <2>1, <2>2 DEF VersionsKnown
<1>4. DownIsEmpty' /\ ClosedIsEmpty'
  BY DEF DownIsEmpty, ClosedIsEmpty
<1> QED BY <1>2, <1>3, <1>4 DEF PageIInv

(* A publication is on its way to every registered client (Registry). *)
LEMMA PublishIInv ==
  ASSUME PageIInv, PublishTimeline
  PROVE  PageIInv'
<1>0. /\ up /\ BeginUpdate /\ UNCHANGED <<up, page, es, stream, connected, cut>>
      /\ UNCHANGED <<requests, responses, shown, received, joined>>
  BY DEF PublishTimeline, pageVars
<1>1. IInv'
  BY <1>0, PageTyped, NextIInv DEF Next, Update
<1>2. timeline <= timeline'
  BY <1>0, PageTyped DEF BeginUpdate
<1>3. PublishedIsOnItsWay'
  <2> SUFFICES ASSUME NEW c \in (stream \cap Subscribers)'
               PROVE  ToBeNotified(c)'
    BY DEF PublishedIsOnItsWay
  <2>1. c \in Registered /\ c \in Conn
    BY <1>0 DEF Subscribers, Registered, BeginUpdate
  <2>2. \E i \in 1 .. Len(sseClients) : sseClients[i] = c
    BY <2>1, PageTyped DEF IInv, Registry
  <2> QED BY <1>0, <2>2 DEF BeginUpdate, ToBeNotified
<1> QED BY <1>0, <1>1, <1>2, <1>3, ServerKeeps

LEMMA NotifyIInv ==
  ASSUME PageIInv, NotifyClients
  PROVE  PageIInv'
<1>0. /\ Notify \/ EndUpdate
      /\ UNCHANGED <<up, page, es, stream, connected, cut>>
      /\ UNCHANGED <<requests, responses, shown, received, joined>>
  BY DEF NotifyClients, pageVars
<1>1. IInv'
  BY <1>0, PageTyped, NextIInv DEF Next, Update
<1>2. up /\ UNCHANGED <<timeline, pc, ctx, net, sseClients>>
  BY <1>0, PageTyped DEF Notify, EndUpdate, DownIsEmpty, connVars
<1>3. PublishedIsOnItsWay'
  <2> SUFFICES ASSUME NEW c \in stream \cap Subscribers
               PROVE  CaughtUp \/ ch'[c] > 0 \/ pc[c] = "flush" \/ ToBeNotified(c)'
                        \/ net[c] > 0 \/ requests > 0 \/ responses[timeline] > 0
    BY <1>0, <1>2 DEF PublishedIsOnItsWay, Subscribers, Registered, CaughtUp
  <2>1. c \in Conn
    BY DEF Subscribers, Registered
  <2>2. ch[c] > 0 => ch'[c] > 0
    <3>1. ch \in [Conn -> 0 .. ChanCap] /\ ChanCap \in Nat
      BY PageTyped, CapsAssumption DEF TypeOK
    <3>2. CASE Notify
      <4>1. ch' = [ch EXCEPT ![sseClients[idx]] = IF @ < ChanCap THEN @ + 1 ELSE @]
        BY <3>2 DEF Notify
      <4>2. CASE sseClients[idx] = c
        BY <2>1, <3>1, <4>1, <4>2
      <4>3. CASE sseClients[idx] # c
        BY <2>1, <3>1, <4>1, <4>3
      <4> QED BY <4>2, <4>3
    <3>3. CASE EndUpdate
      BY <3>3 DEF EndUpdate
    <3> QED BY <1>0, <3>2, <3>3
  <2>3. ToBeNotified(c) => ch'[c] > 0 \/ ToBeNotified(c)'
    <3> SUFFICES ASSUME ToBeNotified(c)
                 PROVE  ch'[c] > 0 \/ ToBeNotified(c)'
      OBVIOUS
    <3>1. Len(sseClients) \in Nat /\ idx \in Nat
      BY PageTyped, LenProperties DEF TypeOK
    <3>2. PICK i \in idx .. Len(sseClients) : sseClients[i] = c
      BY DEF ToBeNotified
    <3>3. Notify
      BY <1>0, <3>1, <3>2 DEF EndUpdate
    <3>4. CASE i = idx
      <4>1. ch' = [ch EXCEPT ![c] = IF @ < ChanCap THEN @ + 1 ELSE @]
        BY <3>2, <3>3, <3>4 DEF Notify
      <4>2. ch \in [Conn -> 0 .. ChanCap] /\ ChanCap \in Nat \ {0}
        BY PageTyped, CapsAssumption DEF TypeOK
      <4> QED BY <2>1, <4>1, <4>2
    <3>5. CASE i # idx
      <4>1. i \in idx' .. Len(sseClients') /\ sseClients'[i] = c /\ mu' = "updater"
        BY <3>1, <3>2, <3>3, <3>5 DEF Notify
      <4> QED BY <4>1 DEF ToBeNotified
    <3> QED BY <3>4, <3>5
  <2> QED BY <2>2, <2>3, PageTyped DEF PublishedIsOnItsWay
<1> QED BY <1>0, <1>1, <1>2, <1>3, PageTyped, ServerKeeps

LEMMA RegisterStreamIInv ==
  ASSUME PageIInv, NEW c \in Conn, RegisterStream(c)
  PROVE  PageIInv'
<1>0. /\ Register(c)
      /\ joined' = IF stream = {c} THEN timeline ELSE joined
      /\ UNCHANGED <<up, page, es, stream, connected, cut>>
      /\ UNCHANGED <<requests, responses, shown, received>>
  BY DEF RegisterStream, streamVars, fetchVars, shownVars
<1>1. IInv'
  BY <1>0, PageTyped, NextIInv DEF Next, Handler
<1>2. up /\ UNCHANGED <<timeline, mu, ch, ctx, net>> /\ mu = "free"
  BY <1>0, PageTyped DEF Register, DownIsEmpty, updaterVars
<1>3. PublishedIsOnItsWay'
  <2> SUFFICES ASSUME NEW d \in (stream \cap Subscribers)'
               PROVE  CaughtUp' \/ ch[d] > 0 \/ pc'[d] = "flush"
                        \/ net[d] > 0 \/ requests > 0 \/ responses[timeline] > 0
    BY <1>0, <1>2 DEF PublishedIsOnItsWay
  <2>1. d \in Conn /\ d \in stream
    BY <1>0 DEF Subscribers, Registered
  <2>2. CASE d = c
    BY <1>0, <1>2, <2>1, <2>2, PageTyped DEF CaughtUp
  <2>3. CASE d # c
    <3>1. pc'[d] = pc[d] /\ d \in Subscribers
      BY <1>0, <1>2, <2>1, <2>3, PageTyped DEF Register, Subscribers, Registered, TypeOK
    <3>2. stream # {c}
      BY <2>1, <2>3
    <3> QED BY <1>0, <1>2, <2>1, <3>1, <3>2, PageTyped
            DEF PublishedIsOnItsWay, ToBeNotified, CaughtUp
  <2> QED BY <2>2, <2>3
<1> QED BY <1>0, <1>1, <1>2, <1>3, PageTyped, ServerKeeps

(* The handler passes an event on; a lost one belongs to a stream that has
   ended. *)
LEMMA PageForwardIInv ==
  ASSUME PageIInv, NEW c \in Conn, ForwardEvent(c)
  PROVE  PageIInv'
<1>0. /\ Receive(c) \/ FlushOk(c) \/ FlushLost(c)
      /\ UNCHANGED <<up, page, es, stream, connected, cut>>
      /\ UNCHANGED <<requests, responses, shown, received, joined>>
  BY DEF ForwardEvent, pageVars
<1>1. IInv'
  BY <1>0, PageTyped, NextIInv DEF Next, Handler
<1>2. up /\ UNCHANGED <<timeline, mu, idx, sseClients, ctx, deadline>>
  <2>1. UNCHANGED <<timeline, mu, idx, sseClients, ctx, deadline>> /\ pc[c] \in {"loop", "flush"}
    BY <1>0 DEF Receive, FlushOk, FlushLost, updaterVars, connVars
  <2> QED BY <2>1, PageTyped DEF DownIsEmpty
<1>3. /\ ch \in [Conn -> 0 .. ChanCap] /\ net \in [Conn -> 0 .. NetCap] /\ pc \in [Conn -> PC]
      /\ ChanCap \in Nat /\ NetCap \in Nat
      /\ \A d \in Conn : deadline[d] # "none" => ctx[d] # "live"
  BY PageTyped, CapsAssumption DEF IInv, TypeOK
<1>4. PublishedIsOnItsWay'
  <2> SUFFICES ASSUME NEW d \in (stream \cap Subscribers)'
               PROVE  CaughtUp \/ ch'[d] > 0 \/ pc'[d] = "flush" \/ ToBeNotified(d)
                        \/ net'[d] > 0 \/ requests > 0 \/ responses[timeline] > 0
    BY <1>0, <1>2 DEF PublishedIsOnItsWay, CaughtUp, ToBeNotified
  <2>1. d \in Conn /\ d \in stream /\ ctx[d] = "live"
    BY <1>0, <1>2 DEF Subscribers, Registered
  <2>2. CASE d = c
    <3>1. CASE Receive(c)
      BY <1>3, <2>1, <2>2, <3>1 DEF Receive
    <3>2. CASE FlushOk(c)
      <4>1. net'[d] = net[d] + 1
        BY <1>3, <2>1, <2>2, <3>2 DEF FlushOk
      <4> QED BY <1>3, <2>1, <4>1
    <3>3. CASE FlushLost(c)
      BY <1>3, <2>1, <2>2, <3>3 DEF FlushLost
    <3> QED BY <1>0, <3>1, <3>2, <3>3
  <2>3. CASE d # c
    <3>1. ch'[d] = ch[d] /\ net'[d] = net[d] /\ pc'[d] = pc[d]
      BY <1>0, <1>3, <2>1, <2>3 DEF Receive, FlushOk, FlushLost, connVars
    <3>2. d \in Subscribers
      BY <1>2, <2>1, <3>1 DEF Subscribers, Registered
    <3> QED BY <2>1, <3>1, <3>2, PageTyped DEF PublishedIsOnItsWay
  <2> QED BY <2>2, <2>3
<1> QED BY <1>0, <1>1, <1>2, <1>4, PageTyped, ServerKeeps

LEMMA EndStreamIInv ==
  ASSUME PageIInv, NEW c \in Conn, EndStream(c)
  PROVE  PageIInv'
<1>0. /\ Leave(c) \/ Unregister(c)
      /\ UNCHANGED <<up, page, es, stream, connected, cut>>
      /\ UNCHANGED <<requests, responses, shown, received, joined>>
  BY DEF EndStream, pageVars
<1>1. IInv'
  BY <1>0, PageTyped, NextIInv DEF Next, Handler
<1>2. up /\ UNCHANGED <<timeline, mu, idx, net>> /\ pc[c] # "none"
  <2>1. UNCHANGED <<timeline, mu, idx, net>> /\ pc[c] \in {"loop", "leaving"}
    BY <1>0 DEF Leave, Unregister, updaterVars, connVars
  <2> QED BY <2>1, PageTyped DEF DownIsEmpty
<1>3. /\ ch \in [Conn -> 0 .. ChanCap] /\ pc \in [Conn -> PC]
      /\ ctx \in [Conn -> {"live", "gone", "ended"}]
  BY PageTyped DEF IInv, TypeOK
<1>4. PublishedIsOnItsWay'
  <2> SUFFICES ASSUME NEW d \in (stream \cap Subscribers)'
               PROVE  CaughtUp \/ ch'[d] > 0 \/ pc'[d] = "flush" \/ ToBeNotified(d)'
                        \/ net[d] > 0 \/ requests > 0 \/ responses[timeline] > 0
    BY <1>0, <1>2 DEF PublishedIsOnItsWay, CaughtUp
  <2>1. d \in Conn /\ d \in stream /\ ctx'[d] = "live" /\ pc'[d] \in {"loop", "flush", "leaving"}
    BY <1>0 DEF Subscribers, Registered
  <2>2. d # c
    <3>1. CASE Leave(c)
      BY <1>3, <2>1, <3>1 DEF Leave, connVars
    <3>2. CASE Unregister(c)
      BY <1>3, <2>1, <3>2 DEF Unregister
    <3> QED BY <1>0, <3>1, <3>2
  <2>3. ch'[d] = ch[d] /\ pc'[d] = pc[d] /\ ctx'[d] = ctx[d]
    BY <1>0, <1>3, <2>1, <2>2 DEF Leave, Unregister, connVars
  <2>4. d \in Subscribers
    BY <2>1, <2>3 DEF Subscribers, Registered
  <2>5. ToBeNotified(d) => ToBeNotified(d)'
    <3>1. CASE Leave(c)
      BY <1>2, <3>1 DEF Leave, ToBeNotified
    <3>2. CASE Unregister(c)
      BY <3>2 DEF Unregister, ToBeNotified
    <3> QED BY <1>0, <3>1, <3>2
  <2> QED BY <2>1, <2>3, <2>4, <2>5, PageTyped DEF PublishedIsOnItsWay
<1> QED BY <1>0, <1>1, <1>2, <1>4, PageTyped, ServerKeeps

LEMMA DeadlineIInv ==
  ASSUME PageIInv, NEW c \in Conn, Deadline(c)
  PROVE  PageIInv'
<1>0. /\ ReadDeadline(c) \/ WriteDeadline(c)
      /\ UNCHANGED <<up, page, es, stream, connected, cut>>
      /\ UNCHANGED <<requests, responses, shown, received, joined>>
  BY DEF Deadline, pageVars
<1>1. IInv'
  BY <1>0, PageTyped, NextIInv DEF Next, Environment
<1>2. up /\ UNCHANGED <<timeline, mu, idx, sseClients, ch, pc, net>> /\ pc[c] # "none"
  <2>1. UNCHANGED <<timeline, mu, idx, sseClients, ch, pc, net>> /\ pc[c] # "none"
    BY <1>0 DEF ReadDeadline, WriteDeadline, updaterVars
  <2> QED BY <2>1, PageTyped DEF DownIsEmpty
<1>3. PublishedIsOnItsWay'
  <2>1. Subscribers' \subseteq Subscribers
    <3>1. ctx \in [Conn -> {"live", "gone", "ended"}]
      BY PageTyped DEF TypeOK
    <3>2. \A d \in Conn : ctx'[d] = "live" => ctx[d] = "live"
      BY <1>0, <3>1 DEF ReadDeadline, WriteDeadline
    <3> QED BY <1>2, <3>2 DEF Subscribers, Registered
  <2> QED BY <1>0, <1>2, <2>1, PageTyped DEF PublishedIsOnItsWay, CaughtUp, ToBeNotified
<1> QED BY <1>0, <1>1, <1>2, <1>3, PageTyped, ServerKeeps

------------------------------------------------------------------------------
(* The page's steps, and the fetches. *)

(* A step that leaves the server's variables alone. *)
LEMMA PageKeeps ==
  ASSUME PageIInv, UNCHANGED <<vars, up>>, PageTypeOK', ClosedIsEmpty',
         VersionsKnown', PublishedIsOnItsWay'
  PROVE  PageIInv'
<1>1. IInv'
  BY PageTyped, StutterIInv
<1>2. DownIsEmpty'
  BY PageTyped DEF DownIsEmpty, vars
<1> QED BY <1>1, <1>2 DEF PageIInv

(* Without a stream nothing has to be on its way. *)
LEMMA NoStream ==
  ASSUME stream' = {}
  PROVE  PublishedIsOnItsWay'
BY DEF PublishedIsOnItsWay

(* One answer more, or less. *)
LEMMA ResponsesWith ==
  ASSUME PageIInv, NEW v \in Version, NEW k \in Nat,
         responses' = [responses EXCEPT ![v] = k]
  PROVE  /\ responses' \in [Version -> Nat] /\ responses'[v] = k
         /\ \A w \in Version \ {v} : responses'[w] = responses[w]
BY PageTyped

LEMMA ServeFetchIInv ==
  ASSUME PageIInv, ServeFetch
  PROVE  PageIInv'
<1> USE PageTyped
<1>0. /\ requests > 0 /\ requests' = requests - 1
      /\ responses' = [responses EXCEPT ![timeline] = responses[timeline] + 1]
      /\ UNCHANGED <<vars, up>>
      /\ UNCHANGED <<page, es, stream, connected, cut, shown, received, joined, timeline>>
  BY DEF ServeFetch, streamVars, shownVars, vars
<1>1. /\ responses' \in [Version -> Nat] /\ responses'[timeline] = responses[timeline] + 1
      /\ \A w \in Version \ {timeline} : responses'[w] = responses[w]
      /\ responses[timeline] \in Nat
  <2>1. responses[timeline] \in Nat /\ responses[timeline] + 1 \in Nat
    OBVIOUS
  <2> QED BY <1>0, <2>1, ResponsesWith
<1>2. requests' \in Nat /\ requests' <= requests
  BY <1>0
<1>3. PageTypeOK'
  BY <1>0, <1>1, <1>2 DEF PageTypeOK
<1>4. ClosedIsEmpty'
  BY <1>0 DEF ClosedIsEmpty
<1>5. VersionsKnown'
  BY <1>0, <1>1 DEF VersionsKnown
<1>6. PublishedIsOnItsWay'
  <2>1. responses'[timeline'] > 0
    BY <1>0, <1>1
  <2> QED BY <2>1 DEF PublishedIsOnItsWay
<1> QED BY <1>0, <1>3, <1>4, <1>5, <1>6, PageKeeps

LEMMA LoadedIInv ==
  ASSUME PageIInv, NEW v \in Version, Loaded(v)
  PROVE  PageIInv'
<1> USE PageTyped
<1>0. /\ page = "loading" /\ page' = "watching" /\ es' = "connecting"
      /\ responses[v] > 0 /\ responses' = [responses EXCEPT ![v] = responses[v] - 1]
      /\ shown' = v /\ received' = v
      /\ UNCHANGED <<vars, up>> /\ UNCHANGED <<stream, connected, cut, requests, joined, timeline>>
  BY DEF Loaded, vars
<1>1. /\ responses' \in [Version -> Nat] /\ responses'[v] = responses[v] - 1
      /\ \A w \in Version \ {v} : responses'[w] = responses[w]
      /\ responses[v] \in Nat
  <2>1. responses[v] \in Nat /\ responses[v] - 1 \in Nat
    BY <1>0
  <2> QED BY <1>0, <2>1, ResponsesWith
<1>2. stream = {}
  BY <1>0 DEF PageTypeOK
<1>3. PageTypeOK' /\ ClosedIsEmpty'
  BY <1>0, <1>1, <1>2 DEF PageTypeOK, ClosedIsEmpty
<1>4. VersionsKnown'
  BY <1>0, <1>1 DEF VersionsKnown
<1> QED BY <1>0, <1>2, <1>3, <1>4, NoStream, PageKeeps

LEMMA ApplyIInv ==
  ASSUME PageIInv, NEW v \in Version, Apply(v)
  PROVE  PageIInv'
<1> USE PageTyped
<1>0. /\ page = "watching" /\ responses[v] > 0
      /\ responses' = [responses EXCEPT ![v] = responses[v] - 1]
      /\ shown' = v /\ received' = Larger(received, v)
      /\ UNCHANGED <<vars, up>>
      /\ UNCHANGED <<page, es, stream, connected, cut, requests, joined, timeline>>
  BY DEF Apply, streamVars, vars
<1>1. /\ responses' \in [Version -> Nat] /\ responses'[v] = responses[v] - 1
      /\ \A w \in Version \ {v} : responses'[w] = responses[w]
      /\ responses[v] \in Nat
  <2>1. responses[v] \in Nat /\ responses[v] - 1 \in Nat
    BY <1>0
  <2> QED BY <1>0, <2>1, ResponsesWith
<1>2. v <= timeline
  BY <1>0 DEF VersionsKnown
<1>3. /\ received' \in Version /\ received' <= timeline
      /\ v = timeline \/ received = timeline => received' = timeline
  BY <1>0, <1>2 DEF VersionsKnown, Larger
<1>4. PageTypeOK' /\ ClosedIsEmpty'
  BY <1>0, <1>1, <1>3 DEF PageTypeOK, ClosedIsEmpty
<1>5. VersionsKnown'
  BY <1>0, <1>1, <1>2, <1>3 DEF VersionsKnown
<1>6. PublishedIsOnItsWay'
  <2>1. UNCHANGED <<Subscribers, ch, pc, net>> /\ \A c \in Conn : ToBeNotified(c)' = ToBeNotified(c)
    BY <1>0 DEF vars, Subscribers, Registered, ToBeNotified
  <2>2. CaughtUp => CaughtUp'
    BY <1>0, <1>3 DEF CaughtUp
  <2>3. responses[timeline] > 0 => responses'[timeline] > 0 \/ CaughtUp'
    BY <1>0, <1>1, <1>3 DEF CaughtUp
  <2>4. Subscribers \subseteq Conn
    BY DEF Subscribers, Registered
  <2> QED BY <1>0, <2>1, <2>2, <2>3, <2>4 DEF PublishedIsOnItsWay
<1> QED BY <1>0, <1>4, <1>5, <1>6, PageKeeps

(* A fetch fails only when the program is down, which ended every stream. *)
LEMMA FailsIInv ==
  ASSUME PageIInv, LoadFails \/ ConnectFails \/ ReloadFails
  PROVE  PageIInv'
<1> USE PageTyped
<1>0. /\ ~up /\ UNCHANGED <<vars, up>>
      /\ UNCHANGED <<stream, connected, cut, responses, shown, received, joined, timeline>>
  BY DEF LoadFails, ConnectFails, ReloadFails, streamVars, shownVars, fetchVars, vars
<1>1. requests' \in Nat /\ requests' <= requests
  BY DEF LoadFails, ConnectFails, ReloadFails, fetchVars
<1>2. Subscribers' = {}
  BY <1>0 DEF DownIsEmpty, Subscribers, Registered, vars
<1>3. PublishedIsOnItsWay'
  BY <1>2 DEF PublishedIsOnItsWay
<1>4. VersionsKnown'
  BY <1>0 DEF VersionsKnown
<1>5. CASE LoadFails
  <2>1. page = "loading" /\ page' = "failed" /\ es' = es /\ requests' = requests - 1
    BY <1>5 DEF LoadFails, streamVars
  <2>2. PageTypeOK' /\ ClosedIsEmpty'
    BY <1>0, <1>1, <2>1 DEF PageTypeOK, ClosedIsEmpty
  <2> QED BY <1>0, <1>3, <1>4, <2>2, PageKeeps
<1>6. CASE ConnectFails
  <2>1. page' = page /\ es = "connecting" /\ es' = "closed" /\ requests' = requests
    BY <1>6 DEF ConnectFails, fetchVars
  <2>2. PageTypeOK' /\ ClosedIsEmpty'
    BY <1>0, <1>1, <2>1 DEF PageTypeOK, ClosedIsEmpty
  <2> QED BY <1>0, <1>3, <1>4, <2>2, PageKeeps
<1>7. CASE ReloadFails
  <2>1. page = "watching" /\ page' = page /\ es' = es
    BY <1>7 DEF ReloadFails, streamVars
  <2>2. PageTypeOK' /\ ClosedIsEmpty'
    BY <1>0, <1>1, <2>1 DEF PageTypeOK, ClosedIsEmpty
  <2> QED BY <1>0, <1>3, <1>4, <2>2, PageKeeps
<1> QED BY <1>5, <1>6, <1>7

------------------------------------------------------------------------------
(* The event stream. *)

(* A new connection is not registered yet. *)
LEMMA ConnectIInv ==
  ASSUME PageIInv, NEW c \in Conn, Connect(c)
  PROVE  PageIInv'
<1> USE PageTyped
<1>0. /\ up /\ Accept(c) /\ es = "connecting" /\ es' = "open" /\ stream' = {c}
      /\ cut' \in BOOLEAN
      /\ UNCHANGED <<up, page, connected, requests, responses, shown, received, joined>>
  BY DEF Connect, fetchVars, shownVars
<1>1. IInv'
  BY <1>0, NextIInv DEF Next, Handler
<1>2. UNCHANGED timeline /\ pc' = [pc EXCEPT ![c] = "accepted"]
  BY <1>0 DEF Accept, updaterVars
<1>3. PageTypeOK' /\ ClosedIsEmpty'
  BY <1>0 DEF PageTypeOK, ClosedIsEmpty
<1>4. VersionsKnown' /\ DownIsEmpty'
  BY <1>0, <1>2 DEF VersionsKnown, DownIsEmpty
<1>5. PublishedIsOnItsWay'
  <2>1. pc'[c] = "accepted"
    BY <1>2 DEF TypeOK
  <2>2. stream' \cap Subscribers' = {}
    BY <1>0, <2>1 DEF Subscribers, Registered
  <2> QED BY <2>2 DEF PublishedIsOnItsWay
<1> QED BY <1>1, <1>3, <1>4, <1>5 DEF PageIInv

(* An event that was read became a fetch. *)
LEMMA ReadEventIInv ==
  ASSUME PageIInv, NEW c \in Conn, ReadEvent(c)
  PROVE  PageIInv'
<1> USE PageTyped
<1>0. /\ ClientRead(c) /\ stream = {c} /\ connected' \in BOOLEAN /\ requests' = requests + 1
      /\ UNCHANGED <<up, page, es, stream, cut, responses, shown, received, joined>>
  BY DEF ReadEvent, shownVars
<1>1. IInv'
  BY <1>0, NextIInv DEF Next, Environment
<1>2. UNCHANGED <<timeline, mu, pc>>
  BY <1>0 DEF ClientRead, updaterVars
<1>3. page = "watching"
  BY <1>0 DEF PageTypeOK
<1>4. requests' \in Nat /\ requests' > 0
  BY <1>0
<1>5. PageTypeOK' /\ ClosedIsEmpty'
  BY <1>0, <1>3, <1>4 DEF PageTypeOK, ClosedIsEmpty
<1>6. VersionsKnown' /\ DownIsEmpty'
  BY <1>0, <1>2 DEF VersionsKnown, DownIsEmpty
<1>7. PublishedIsOnItsWay'
  BY <1>4 DEF PublishedIsOnItsWay
<1> QED BY <1>1, <1>5, <1>6, <1>7 DEF PageIInv

LEMMA StreamEndsIInv ==
  ASSUME PageIInv, NEW c \in Conn, StreamEnds(c)
  PROVE  PageIInv'
<1> USE PageTyped
<1>0. /\ stream = {c} /\ stream' = {} /\ es' \in {"connecting", "closed"}
      /\ UNCHANGED <<vars, up>>
      /\ UNCHANGED <<page, cut, requests, responses, shown, received, joined, timeline>>
  BY DEF StreamEnds, fetchVars, shownVars, vars
<1>1. connected' \in BOOLEAN
  <2>1. connected' = (connected \/ ~cut)
    BY DEF StreamEnds
  <2> QED BY <2>1
<1>2. page = "watching"
  BY <1>0 DEF PageTypeOK
<1>3. PageTypeOK' /\ ClosedIsEmpty'
  BY <1>0, <1>1, <1>2 DEF PageTypeOK, ClosedIsEmpty
<1>4. VersionsKnown'
  BY <1>0 DEF VersionsKnown
<1> QED BY <1>0, <1>3, <1>4, NoStream, PageKeeps

------------------------------------------------------------------------------
(* The developer. *)

LEMMA OpenPageIInv ==
  ASSUME PageIInv, OpenPage
  PROVE  PageIInv'
<1> USE PageTyped
<1>0. /\ page = "closed" /\ page' = "loading" /\ requests' = 1
      /\ UNCHANGED <<vars, up>>
      /\ UNCHANGED <<es, stream, connected, cut, responses, shown, received, joined, timeline>>
  BY DEF OpenPage, streamVars, shownVars, vars
<1>1. es = "none" /\ stream = {}
  BY <1>0 DEF PageTypeOK
<1>2. PageTypeOK' /\ ClosedIsEmpty' /\ VersionsKnown'
  BY <1>0, <1>1 DEF PageTypeOK, ClosedIsEmpty, VersionsKnown
<1> QED BY <1>0, <1>1, <1>2, NoStream, PageKeeps

LEMMA ClosePageIInv ==
  ASSUME PageIInv, ClosePage
  PROVE  PageIInv'
<1> USE PageTyped
<1>0. /\ page' = "closed" /\ es' = "none" /\ stream' = {} /\ requests' = 0
      /\ connected' \in BOOLEAN /\ cut' \in BOOLEAN /\ responses' = NoAnswers
      /\ shown' = 0 /\ received' = 0 /\ joined' = 0
      /\ UNCHANGED up
  BY DEF ClosePage
<1>1. 0 \in Version /\ responses' \in [Version -> Nat] /\ \A v \in Version : responses'[v] = 0
  BY <1>0 DEF NoAnswers, Version
<1>2. PageTypeOK' /\ ClosedIsEmpty'
  BY <1>0, <1>1 DEF PageTypeOK, ClosedIsEmpty
<1>3. IInv' /\ timeline' = timeline /\ (DownIsEmpty' \/ ~DownIsEmpty)
  <2>1. CASE UNCHANGED vars
    BY <1>0, <2>1, StutterIInv DEF vars, DownIsEmpty
  <2>2. CASE \E c \in stream : Disconnect(c)
    <3>1. PICK c \in Conn : Disconnect(c)
      BY <2>2
    <3>2. IInv'
      BY <3>1, NextIInv DEF Next, Environment
    <3> QED BY <1>0, <3>1, <3>2 DEF Disconnect, updaterVars, DownIsEmpty
  <2> QED BY <2>1, <2>2 DEF ClosePage
<1>4. VersionsKnown'
  BY <1>0, <1>1, <1>3 DEF VersionsKnown
<1> QED BY <1>0, <1>2, <1>3, <1>4, NoStream DEF PageIInv

(* os.Exit takes the goroutines with it: the new program starts with an empty
   registry, and what is on the wire stays there. *)
LEMMA ExitIInv ==
  ASSUME PageIInv, Exit
  PROVE  PageIInv'
<1> USE PageTyped, CapsAssumption
<1>0. /\ up' = FALSE /\ mu' = "free" /\ sseClients' = <<>> /\ idx' = 1
      /\ pc' = [c \in Conn |-> "none"]
      /\ ch' = [c \in Conn |-> 0]
      /\ ctx' = [c \in Conn |-> "live"]
      /\ deadline' = [c \in Conn |-> "none"]
      /\ told' = [c \in Conn |-> 0]
      /\ UNCHANGED <<timeline, net, page, es, stream, connected, requests, responses, shown,
                     received, joined>>
  BY DEF Exit, fetchVars, shownVars
<1>1. up' \in BOOLEAN /\ cut' \in BOOLEAN
  <2>1. cut' = (cut \/ \E c \in stream : pc[c] # "none")
    BY DEF Exit
  <2> QED BY <1>0, <2>1
<1>2. Registered' = {}
  BY <1>0 DEF Registered
<1>3. IInv'
  <2>1. TypeOK'
    BY <1>0 DEF TypeOK, PC
  <2>2. Registry' /\ NoLostReload'
    BY <1>0, <1>2 DEF Registry, NoDuplicates, NoLostReload
  <2>3. /\ \A c \in Conn : told'[c] <= timeline'
        /\ \A c \in Conn : pc'[c] = "leaving" => ctx'[c] # "live"
        /\ \A c \in Conn : deadline'[c] # "none" => ctx'[c] # "live"
    BY <1>0
  <2> QED BY <1>0, <2>1, <2>2, <2>3 DEF IInv
<1>4. PageTypeOK' /\ ClosedIsEmpty' /\ VersionsKnown'
  BY <1>0, <1>1 DEF PageTypeOK, ClosedIsEmpty, VersionsKnown
<1>5. DownIsEmpty'
  BY <1>0 DEF DownIsEmpty
<1>6. PublishedIsOnItsWay'
  BY <1>2 DEF PublishedIsOnItsWay, Subscribers
<1> QED BY <1>3, <1>4, <1>5, <1>6 DEF PageIInv

LEMMA RestartIInv ==
  ASSUME PageIInv, Restart
  PROVE  PageIInv'
<1> USE PageTyped, CapsAssumption
<1>0. /\ ~up /\ up' \in BOOLEAN /\ timeline < MaxUpdates /\ timeline' = timeline + 1
      /\ UNCHANGED <<mu, sseClients, idx, ch, pc, ctx, deadline, net, told>>
      /\ UNCHANGED <<page, es, stream, connected, cut, requests, responses, shown, received,
                     joined>>
  BY DEF Restart, connVars, pageVars
<1>1. Registered' = {} /\ Registered = {} /\ mu = "free" /\ \A c \in Conn : pc[c] = "none"
  BY <1>0 DEF DownIsEmpty, Registered
<1>2. timeline' \in 0 .. MaxUpdates /\ timeline' \in Nat /\ timeline <= timeline'
  BY <1>0
<1>3. IInv'
  <2>1. TypeOK'
    BY <1>0, <1>2 DEF TypeOK
  <2>2. Registry' /\ NoLostReload'
    BY <1>0, <1>1 DEF IInv, Registry, NoDuplicates, NoLostReload
  <2>3. /\ \A c \in Conn : told'[c] <= timeline'
        /\ \A c \in Conn : pc'[c] = "leaving" => ctx'[c] # "live"
        /\ \A c \in Conn : deadline'[c] # "none" => ctx'[c] # "live"
        /\ mu' = "free" => idx' = 1
    <3>1. \A c \in Conn : told[c] <= timeline /\ told[c] \in Nat
      BY DEF IInv, TypeOK
    <3>2. \A c \in Conn : told'[c] <= timeline'
      BY <1>0, <1>2, <3>1
    <3> QED BY <1>0, <3>2 DEF IInv
  <2> QED BY <2>1, <2>2, <2>3 DEF IInv
<1>4. PageTypeOK' /\ ClosedIsEmpty'
  BY <1>0 DEF PageTypeOK, ClosedIsEmpty
<1>5. VersionsKnown'
  <2>1. \A v \in Version : v <= timeline => v <= timeline'
    BY <1>2
  <2> QED BY <1>0, <2>1 DEF VersionsKnown
<1>6. DownIsEmpty'
  BY <1>0, <1>1 DEF DownIsEmpty
<1>7. PublishedIsOnItsWay'
  BY <1>1 DEF PublishedIsOnItsWay, Subscribers
<1> QED BY <1>3, <1>4, <1>5, <1>6, <1>7 DEF PageIInv

------------------------------------------------------------------------------
LEMMA PageNextIInv == PageIInv /\ [PageNext]_allVars => PageIInv'
<1>1. ASSUME PageIInv, UNCHANGED allVars
      PROVE  PageIInv'
  <2>1. UNCHANGED <<vars, up>> /\ UNCHANGED pageVars
    BY <1>1 DEF allVars
  <2>2. PageTypeOK' /\ ClosedIsEmpty' /\ VersionsKnown' /\ PublishedIsOnItsWay'
    BY <1>1, <2>1, PageTyped
       DEF vars, pageVars, PageTypeOK, ClosedIsEmpty, VersionsKnown, PublishedIsOnItsWay,
           CaughtUp, Subscribers, Registered, ToBeNotified
  <2> QED BY <1>1, <2>1, <2>2, PageKeeps
<1>2. ASSUME PageIInv, ServerStep
      PROVE  PageIInv'
  BY <1>2, PublishIInv, NotifyIInv, ServeFetchIInv, RegisterStreamIInv, PageForwardIInv,
     EndStreamIInv, DeadlineIInv DEF ServerStep
<1>3. ASSUME PageIInv, PageStep
      PROVE  PageIInv'
  BY <1>3, FailsIInv, ConnectIInv, ReadEventIInv, StreamEndsIInv, LoadedIInv, ApplyIInv
     DEF PageStep
<1>4. ASSUME PageIInv, DeveloperStep
      PROVE  PageIInv'
  BY <1>4, OpenPageIInv, ClosePageIInv, ExitIInv, RestartIInv DEF DeveloperStep
<1> QED BY <1>1, <1>2, <1>3, <1>4 DEF PageNext

LEMMA PageInvariance == PageSpec => []PageIInv
BY PageInitIInv, PageNextIInv, PTL DEF PageSpec

(* PageTypeOK of WatchPage. *)
THEOREM PageTypeCorrect == PageSpec => []PageTypeOK
BY PageInvariance, PTL DEF PageIInv

(* PublishedIsOnItsWay: between the update loop of the server and the fetch of
   the page nothing published is dropped, across restarts and closed tabs. *)
THEOREM NothingIsDropped == PageSpec => []PublishedIsOnItsWay
BY PageInvariance, PTL DEF PageIInv

(* The registry and the channels stay right although the program is stopped
   at any moment and started again. *)
THEOREM ServerSurvivesRestarts == PageSpec => [](Registry /\ NoLostReload)
<1>1. PageIInv => Registry /\ NoLostReload
  BY DEF PageIInv, IInv
<1> QED BY <1>1, PageInvariance, PTL
==============================================================================

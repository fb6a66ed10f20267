---------------------------- MODULE GcLinkProofs ----------------------------
(***************************************************************************)
(* Theorems about GcLink, for every set of links and peers and every       *)
(* capacity of the channels.  The invariants of the runs are not inductive:*)
(* that an authenticated link belongs to Fc rests on the payloads still in *)
(* the event channel, and that an answered challenge stays answered rests  *)
(* on each link being activated at most once.  IInv says both.             *)
(***************************************************************************)
EXTENDS GcLink, TLAPS

InLinkType == [Link -> {"none", "open", "closed", "gone"}]
ChallengeType == [Link -> {"none", "sent", "answered", "lost"}]

(* A payload that came over l was made by its owner, over the nonce of l.    *)
Genuine(l, auth, ch) ==
    /\ auth.dest = Owner[l]
    /\ auth.nonce = l
    /\ ch[l] = "answered"

(* The events that wait belong to links that were once up.  An Activated     *)
(* event is the only one of its link, whose nonce is not yet drawn.          *)
QueueOK(q, il, ch) ==
    \A i \in 1..Len(q) :
        /\ il[q[i].link] # "none"
        /\ q[i].kind = "Auth" => Genuine(q[i].link, q[i].auth, ch)
        /\ q[i].kind = "Activated" =>
              /\ ch[q[i].link] = "none"
              /\ \A j \in 1..Len(q) :
                    q[j].kind = "Activated" /\ q[j].link = q[i].link => i = j

FreshLinks == \A l \in Link : inLink[l] = "none" => challenge[l] = "none"

KeptPayloadOK ==
    linkState.tag = "PendingKey" =>
        linkState.auth.dest = Fc /\ Genuine(linkState.link, linkState.auth, challenge)

IInv ==
    /\ TypeOK
    /\ QueueOK(events, inLink, challenge)
    /\ FreshLinks
    /\ KeptPayloadOK
    /\ AuthenticatedIsFc
    /\ ServedOnlyFc

-----------------------------------------------------------------------------
(* Facts about the event channel.                                            *)

(* Taking the head off the channel leaves a channel of link events.          *)
LEMMA TailType ==
    ASSUME NEW q \in Seq(LinkEvent), q # <<>>, Len(q) <= EventCap
    PROVE  /\ Tail(q) \in Seq(LinkEvent)
           /\ Len(Tail(q)) = Len(q) - 1
           /\ Len(Tail(q)) <= EventCap
           /\ \A i \in 1..Len(Tail(q)) : Tail(q)[i] = q[i + 1] /\ i + 1 \in 1..Len(q)
           /\ Head(q) = q[1]
           /\ Head(q) \in LinkEvent
  BY ConstantsAssumption

(* What Broadcast leaves: the new event last, before it the old ones in      *)
(* their order, without the oldest when the channel was full.                *)
LEMMA BroadcastShape ==
    ASSUME NEW q \in Seq(LinkEvent), Len(q) <= EventCap, NEW e \in LinkEvent
    PROVE  /\ Broadcast(q, e) \in Seq(LinkEvent)
           /\ Len(Broadcast(q, e)) <= EventCap
           /\ \E d \in {0, 1} :
                 /\ Len(Broadcast(q, e)) = Len(q) + 1 - d
                 /\ \A i \in 1..Len(Broadcast(q, e)) :
                       IF i = Len(Broadcast(q, e))
                       THEN Broadcast(q, e)[i] = e
                       ELSE /\ i + d \in 1..Len(q)
                            /\ Broadcast(q, e)[i] = q[i + d]
<1>1. CASE Len(q) < EventCap
  <2>1. Broadcast(q, e) = Append(q, e)
    BY <1>1 DEF Broadcast
  <2> QED
    BY <1>1, <2>1, ConstantsAssumption
<1>2. CASE ~(Len(q) < EventCap)
  <2>1. Broadcast(q, e) = Append(Tail(q), e)
    BY <1>2 DEF Broadcast
  <2>2. Len(q) = EventCap /\ q # <<>>
    BY <1>2, ConstantsAssumption
  <2> DEFINE r == Tail(q)
  <2>3. /\ r \in Seq(LinkEvent)
        /\ Len(r) = Len(q) - 1
        /\ \A i \in 1..Len(r) : r[i] = q[i + 1] /\ i + 1 \in 1..Len(q)
    BY <2>2, TailType
  <2> HIDE DEF r
  <2>4. /\ Append(r, e) \in Seq(LinkEvent)
        /\ Len(Append(r, e)) = Len(q)
        /\ \A i \in 1..Len(q) : Append(r, e)[i] = IF i = Len(q) THEN e ELSE r[i]
    BY <2>2, <2>3
  <2>5. /\ Broadcast(q, e) = Append(r, e)
        /\ Len(q) = Len(q) + 1 - 1
    BY <2>1 DEF r
  <2> QED
    BY <2>2, <2>3, <2>4, <2>5
<1> QED
  BY <1>1, <1>2

(* A link event names a link, and an Auth event carries a payload.           *)
LEMMA EventType ==
    ASSUME NEW e \in LinkEvent
    PROVE  /\ e.link \in Link
           /\ e.kind \in {"Activated", "Data", "Closed", "Auth"}
           /\ e.kind = "Auth" => e.auth \in AuthPayload
  BY DEF LinkEvent

(* The rest of a good channel is good.                                       *)
LEMMA QueueTail ==
    ASSUME NEW q \in Seq(LinkEvent), q # <<>>, Len(q) <= EventCap, NEW il, NEW ch,
           QueueOK(q, il, ch)
    PROVE  QueueOK(Tail(q), il, ch)
<1> DEFINE r == Tail(q)
<1>1. /\ Len(r) \in Nat /\ Len(q) \in Nat
      /\ \A i \in 1..Len(r) : r[i] = q[i + 1] /\ i + 1 \in 1..Len(q)
  BY TailType
<1> HIDE DEF r
<1> SUFFICES ASSUME NEW i \in 1..Len(r)
             PROVE  /\ il[r[i].link] # "none"
                    /\ r[i].kind = "Auth" => Genuine(r[i].link, r[i].auth, ch)
                    /\ r[i].kind = "Activated" =>
                          /\ ch[r[i].link] = "none"
                          /\ \A j \in 1..Len(r) :
                                r[j].kind = "Activated" /\ r[j].link = r[i].link
                                    => i = j
  BY DEF QueueOK, r
<1>2. r[i] = q[i + 1] /\ i + 1 \in 1..Len(q)
  BY <1>1
<1>3. \A j \in 1..Len(r) : r[j] = q[j + 1] /\ j + 1 \in 1..Len(q) /\ (i + 1 = j + 1 => i = j)
  BY <1>1
<1> QED
  BY <1>2, <1>3 DEF QueueOK

(* A good channel stays good when an event is broadcast that is good itself. *)
LEMMA QueueBroadcast ==
    ASSUME NEW q \in Seq(LinkEvent), Len(q) <= EventCap, NEW e \in LinkEvent,
           NEW il, NEW ch, QueueOK(q, il, ch),
           il[e.link] # "none",
           e.kind = "Auth" => Genuine(e.link, e.auth, ch),
           e.kind = "Activated" =>
              ch[e.link] = "none" /\ \A j \in 1..Len(q) : q[j].link # e.link
    PROVE  QueueOK(Broadcast(q, e), il, ch)
<1> DEFINE r == Broadcast(q, e)
<1>1. PICK d \in {0, 1} :
         /\ Len(r) = Len(q) + 1 - d
         /\ \A i \in 1..Len(r) :
               IF i = Len(r) THEN r[i] = e ELSE i + d \in 1..Len(q) /\ r[i] = q[i + d]
  BY BroadcastShape
<1>2. r \in Seq(LinkEvent)
  BY BroadcastShape
<1>3. Len(r) \in Nat /\ Len(q) \in Nat
  BY <1>2
<1> HIDE DEF r
<1> SUFFICES ASSUME NEW i \in 1..Len(r)
             PROVE  /\ il[r[i].link] # "none"
                    /\ r[i].kind = "Auth" => Genuine(r[i].link, r[i].auth, ch)
                    /\ r[i].kind = "Activated" =>
                          /\ ch[r[i].link] = "none"
                          /\ \A j \in 1..Len(r) :
                                r[j].kind = "Activated" /\ r[j].link = r[i].link
                                    => i = j
  BY DEF QueueOK, r
<1>4. CASE i = Len(r)
  <2>1. r[i] = e
    BY <1>1, <1>4
  <2>2. \A j \in 1..Len(r) : j # i => j + d \in 1..Len(q) /\ r[j] = q[j + d]
    BY <1>1, <1>4
  <2> QED
    BY <2>1, <2>2
<1>5. CASE i # Len(r)
  <2>1. i + d \in 1..Len(q) /\ r[i] = q[i + d]
    BY <1>1, <1>5
  <2>2. ASSUME NEW j \in 1..Len(r), r[i].kind = "Activated",
               r[j].kind = "Activated", r[j].link = r[i].link
        PROVE  i = j
    <3>1. CASE j = Len(r)
      <4>1. r[j] = e
        BY <1>1, <3>1
      <4> QED
        BY <2>1, <2>2, <4>1
    <3>2. CASE j # Len(r)
      <4>1. j + d \in 1..Len(q) /\ r[j] = q[j + d]
        BY <1>1, <3>2
      <4>2. i + d = j + d
        BY <2>1, <2>2, <4>1 DEF QueueOK
      <4> QED
        BY <4>2
    <3> QED
      BY <3>1, <3>2
  <2> QED
    BY <2>1, <2>2 DEF QueueOK
<1> QED
  BY <1>4, <1>5

(* A good channel stays good when links come up and challenges are answered, *)
(* as long as no nonce is drawn for a link whose Activated event waits.      *)
LEMMA QueueFrame ==
    ASSUME NEW q \in Seq(LinkEvent), NEW il, NEW ch, NEW il2, NEW ch2,
           QueueOK(q, il, ch),
           \A l \in Link : il[l] # "none" => il2[l] # "none",
           \A l \in Link : ch[l] = "answered" => ch2[l] = "answered",
           \A i \in 1..Len(q) : q[i].kind = "Activated" => ch2[q[i].link] = "none"
    PROVE  QueueOK(q, il2, ch2)
<1>1. \A i \in 1..Len(q) : q[i].link \in Link
  BY EventType
<1> QED
  BY <1>1 DEF QueueOK, Genuine

-----------------------------------------------------------------------------
(* Facts about closing a link.                                               *)

(* transport.link_close keeps the types, brings no link up and leaves a good *)
(* channel good.                                                             *)
LEMMA CloseLinkOK ==
    ASSUME inLink \in InLinkType, NEW l \in Link,
           NEW q \in Seq(LinkEvent), Len(q) <= EventCap, NEW ch,
           QueueOK(q, inLink, ch),
           CloseLink(l, q)
    PROVE  /\ inLink' \in InLinkType
           /\ events' \in Seq(LinkEvent)
           /\ Len(events') <= EventCap
           /\ \A m \in Link : inLink'[m] = "none" <=> inLink[m] = "none"
           /\ QueueOK(events', inLink', ch)
<1> DEFINE e == Plain("Closed", l)
<1>1. e \in LinkEvent /\ e.kind = "Closed" /\ e.link = l
  BY DEF Plain, LinkEvent
<1> HIDE DEF e
<1>2. CASE /\ inLink[l] = "open"
           /\ inLink' = [inLink EXCEPT ![l] = "closed"]
           /\ events' \in {q, Broadcast(q, e)}
  <2>1. inLink' = [inLink EXCEPT ![l] = "closed"] /\ events' \in {q, Broadcast(q, e)}
    BY <1>2
  <2>2. /\ inLink' \in InLinkType /\ inLink'[l] # "none"
        /\ \A m \in Link : inLink'[m] = "none" <=> inLink[m] = "none"
    BY <1>2, <2>1 DEF InLinkType
  <2>3. \A i \in 1..Len(q) : q[i].kind = "Activated" => ch[q[i].link] = "none"
    BY DEF QueueOK
  <2>4. QueueOK(q, inLink', ch)
    BY <2>2, <2>3, QueueFrame
  <2>5. QueueOK(Broadcast(q, e), inLink', ch)
    BY <1>1, <2>2, <2>4, QueueBroadcast
  <2> QED
    BY <1>1, <2>1, <2>2, <2>4, <2>5, BroadcastShape
<1>3. CASE KeepLink(q)
  BY <1>3 DEF KeepLink
<1> QED
  BY <1>2, <1>3 DEF CloseLink, e

-----------------------------------------------------------------------------
(* Facts about LinkState.                                                    *)

(* What each variant of the state carries.                                   *)
LEMMA StateFields ==
    ASSUME NEW st \in LinkState
    PROVE  /\ st.tag \in {"Disconnected", "PendingAuth", "PendingKey", "Authenticated"}
           /\ st.tag = "Disconnected" <=> st = Disconnected
           /\ st.tag # "Disconnected" => st.link \in Link
           /\ st.tag \in {"PendingAuth", "PendingKey"} =>
                 st.due \in BOOLEAN /\ st.nonce \in Nonce
           /\ st.tag = "PendingKey" => st.auth \in AuthPayload
  BY DEF LinkState, Disconnected

(* The constructors build states, with the fields they are given.            *)
LEMMA StateConstructors ==
    ASSUME NEW due \in BOOLEAN, NEW l \in Link, NEW n \in Nonce,
           NEW auth \in AuthPayload
    PROVE  /\ Disconnected \in LinkState /\ Disconnected.tag = "Disconnected"
           /\ PendingAuth(due, l, n) \in LinkState
           /\ PendingAuth(due, l, n).tag = "PendingAuth"
           /\ PendingKey(due, l, n, auth) \in LinkState
           /\ PendingKey(due, l, n, auth).tag = "PendingKey"
           /\ PendingKey(due, l, n, auth).link = l
           /\ PendingKey(due, l, n, auth).nonce = n
           /\ PendingKey(due, l, n, auth).auth = auth
           /\ Authenticated(l) \in LinkState
           /\ Authenticated(l).tag = "Authenticated"
           /\ Authenticated(l).link = l
  BY DEF LinkState, Disconnected, PendingAuth, PendingKey, Authenticated

(* Disconnected is a state by itself, whatever Link is.                      *)
LEMMA DisconnectedState ==
    Disconnected \in LinkState /\ Disconnected.tag = "Disconnected"
  BY DEF LinkState, Disconnected

-----------------------------------------------------------------------------
(* The inductive invariant.                                                  *)

(* The initial state satisfies it.                                           *)
LEMMA InitIInv == Init => IInv
<1> SUFFICES ASSUME Init PROVE IInv
  OBVIOUS
<1>1. TypeOK
  <2>1. linkState \in LinkState
    BY DisconnectedState DEF Init
  <2>2. /\ inLink \in [Link -> {"none", "open", "closed", "gone"}]
        /\ challenge \in [Link -> {"none", "sent", "answered", "lost"}]
    BY DEF Init
  <2>3. events \in Seq(LinkEvent) /\ Len(events) <= EventCap
    BY ConstantsAssumption DEF Init
  <2>4. announces \in 0..(AnnounceCap + 1) /\ served \subseteq Link
    BY ConstantsAssumption DEF Init
  <2>5. keyKnown \in BOOLEAN /\ station \in BOOLEAN /\ lockedUp \in BOOLEAN
    BY Zenon DEF Init
  <2> QED
    BY <2>1, <2>2, <2>3, <2>4, <2>5 DEF TypeOK
<1>2. QueueOK(events, inLink, challenge)
  BY DEF Init, QueueOK
<1>3. FreshLinks /\ ServedOnlyFc
  BY DEF Init, FreshLinks, ServedOnlyFc
<1>4. KeptPayloadOK /\ AuthenticatedIsFc
  BY DisconnectedState DEF Init, KeptPayloadOK, AuthenticatedIsFc, IsAuthenticated
<1> QED
  BY <1>1, <1>2, <1>3, <1>4 DEF IInv

(* The event at the head of the channel, and what is left behind it.         *)
LEMMA HeadFacts ==
    ASSUME IInv, events # <<>>
    PROVE  /\ Head(events) \in LinkEvent
           /\ Head(events).link \in Link
           /\ inLink[Head(events).link] # "none"
           /\ Head(events).kind = "Auth" =>
                 /\ Head(events).auth \in AuthPayload
                 /\ Genuine(Head(events).link, Head(events).auth, challenge)
           /\ Tail(events) \in Seq(LinkEvent)
           /\ Len(Tail(events)) <= EventCap
           /\ QueueOK(Tail(events), inLink, challenge)
<1>1. events \in Seq(LinkEvent) /\ Len(events) <= EventCap
      /\ QueueOK(events, inLink, challenge)
  BY DEF IInv, TypeOK
<1>2. Head(events) = events[1] /\ 1 \in 1..Len(events) /\ Head(events) \in LinkEvent
  BY <1>1
<1> QED
  BY <1>1, <1>2, EventType, TailType, QueueTail DEF QueueOK

(* A nonce is drawn for a link whose Activated event was the only one.       *)
LEMMA HandleActivatedIInv == IInv /\ HandleActivated => IInv'
<1> SUFFICES ASSUME IInv, HandleActivated PROVE IInv'
  OBVIOUS
<1> DEFINE l == Head(events).link
           q == Tail(events)
<1>1. /\ events # <<>> /\ Head(events).kind = "Activated"
      /\ Head(events) \in LinkEvent /\ l \in Link /\ inLink[l] # "none"
      /\ q \in Seq(LinkEvent) /\ Len(q) <= EventCap
      /\ QueueOK(q, inLink, challenge)
  BY HeadFacts DEF HandleActivated, NextEvent
<1>2. /\ TypeOK /\ FreshLinks /\ KeptPayloadOK /\ AuthenticatedIsFc /\ ServedOnlyFc
      /\ inLink \in InLinkType
      /\ UNCHANGED <<announces, keyKnown, station, served, lockedUp>>
  BY DEF IInv, TypeOK, InLinkType, HandleActivated, OthersUnchanged
<1>3. challenge[l] = "none" /\ \A i \in 1..Len(q) : q[i].kind = "Activated" => q[i].link # l
  <2>1. events \in Seq(LinkEvent) /\ Len(events) <= EventCap
        /\ QueueOK(events, inLink, challenge)
    BY DEF IInv, TypeOK
  <2>2. Head(events) = events[1] /\ 1 \in 1..Len(events)
    BY <1>1, <2>1
  <2>3. \A i \in 1..Len(q) : q[i] = events[i + 1] /\ i + 1 \in 1..Len(events) /\ i + 1 # 1
    BY <1>1, <2>1, TailType
  <2> QED
    BY <1>1, <2>1, <2>2, <2>3 DEF QueueOK
<1> HIDE DEF l, q
<1>4. CASE KeepLink(q) /\ UNCHANGED <<linkState, challenge>>
  BY <1>1, <1>2, <1>4
  DEF IInv, TypeOK, KeepLink, FreshLinks, KeptPayloadOK, Genuine, AuthenticatedIsFc,
      IsAuthenticated, ServedOnlyFc
<1>5. CASE CloseLink(l, q) /\ UNCHANGED <<linkState, challenge>>
  <2>1. /\ inLink' \in InLinkType /\ events' \in Seq(LinkEvent) /\ Len(events') <= EventCap
        /\ \A m \in Link : inLink'[m] = "none" <=> inLink[m] = "none"
        /\ QueueOK(events', inLink', challenge)
    BY <1>1, <1>2, <1>5, CloseLinkOK
  <2> QED
    BY <1>2, <1>5, <2>1
    DEF IInv, TypeOK, InLinkType, FreshLinks, KeptPayloadOK, Genuine, AuthenticatedIsFc,
        IsAuthenticated, ServedOnlyFc
<1>6. CASE /\ linkState' = PendingAuth(FALSE, l, l)
           /\ challenge' = [challenge EXCEPT ![l] = "sent"]
           /\ KeepLink(q)
  <2>1. linkState' \in LinkState /\ linkState'.tag = "PendingAuth"
    BY <1>1, <1>6 DEF PendingAuth, LinkState, Nonce
  <2>2. /\ challenge' \in ChallengeType
        /\ \A m \in Link : challenge[m] = "answered" => challenge'[m] = "answered"
        /\ \A m \in Link : m # l => challenge'[m] = challenge[m]
    BY <1>1, <1>2, <1>3, <1>6 DEF TypeOK, ChallengeType
  <2>3. \A i \in 1..Len(q) : q[i].kind = "Activated" => challenge'[q[i].link] = "none"
    BY <1>1, <1>3, <2>2, EventType DEF QueueOK
  <2>4. QueueOK(events', inLink', challenge')
    <3>1. \A m \in Link : inLink[m] # "none" => inLink[m] # "none"
      OBVIOUS
    <3>2. QueueOK(q, inLink, challenge')
      BY <1>1, <2>2, <2>3, <3>1, QueueFrame
    <3> QED
      BY <1>6, <3>2 DEF KeepLink
  <2>5. TypeOK'
    BY <1>1, <1>2, <1>6, <2>1, <2>2 DEF TypeOK, KeepLink, ChallengeType
  <2>6. FreshLinks' /\ KeptPayloadOK' /\ AuthenticatedIsFc' /\ ServedOnlyFc'
    BY <1>1, <1>2, <1>6, <2>1, <2>2
    DEF TypeOK, KeepLink, FreshLinks, KeptPayloadOK, AuthenticatedIsFc, IsAuthenticated,
        ServedOnlyFc
  <2> QED
    BY <2>4, <2>5, <2>6 DEF IInv
<1> QED
  BY <1>4, <1>5, <1>6 DEF HandleActivated, l, q

(* The link is closed or left alone: either way the types, the links that    *)
(* were never up and a good channel are preserved.                           *)
LEMMA CloseOrKeep ==
    ASSUME inLink \in InLinkType, NEW l \in Link,
           NEW q \in Seq(LinkEvent), Len(q) <= EventCap, NEW ch,
           QueueOK(q, inLink, ch),
           CloseLink(l, q) \/ KeepLink(q)
    PROVE  /\ inLink' \in InLinkType
           /\ events' \in Seq(LinkEvent)
           /\ Len(events') <= EventCap
           /\ \A m \in Link : inLink'[m] = "none" <=> inLink[m] = "none"
           /\ QueueOK(events', inLink', ch)
<1>1. CASE CloseLink(l, q)
  BY <1>1, CloseLinkOK
<1>2. CASE KeepLink(q)
  BY <1>2 DEF KeepLink
<1> QED
  BY <1>1, <1>2

(* Data is served only within the session.                                   *)
LEMMA HandleDataIInv == IInv /\ HandleData => IInv'
<1> SUFFICES ASSUME IInv, HandleData PROVE IInv'
  OBVIOUS
<1> DEFINE l == Head(events).link
           q == Tail(events)
<1>1. l \in Link /\ q \in Seq(LinkEvent) /\ Len(q) <= EventCap
      /\ QueueOK(q, inLink, challenge)
  BY HeadFacts DEF HandleData, NextEvent
<1>2. /\ TypeOK /\ FreshLinks /\ KeptPayloadOK /\ AuthenticatedIsFc /\ ServedOnlyFc
      /\ inLink \in InLinkType
      /\ UNCHANGED <<linkState, challenge, announces, keyKnown, station, lockedUp>>
  BY DEF IInv, TypeOK, InLinkType, HandleData, OthersUnchanged
<1>3. \E m \in Link : CloseLink(m, q) \/ KeepLink(q)
  <2>1. ClosedOnData(l) \subseteq Link
    BY <1>1 DEF ClosedOnData
  <2> QED
    BY <1>1, <2>1 DEF HandleData
<1>4. served' = served \cup ServedByData(l)
  BY DEF HandleData
<1> HIDE DEF l, q
<1>5. /\ inLink' \in InLinkType /\ events' \in Seq(LinkEvent) /\ Len(events') <= EventCap
      /\ \A m \in Link : inLink'[m] = "none" <=> inLink[m] = "none"
      /\ QueueOK(events', inLink', challenge')
  BY <1>1, <1>2, <1>3, CloseOrKeep
<1>6. \A m \in ServedByData(l) : m \in Link /\ Owner[m] = Fc /\ challenge[m] = "answered"
  BY <1>1, <1>2 DEF ServedByData, AuthenticatedIsFc
<1>7. TypeOK'
  BY <1>2, <1>4, <1>5, <1>6 DEF TypeOK, InLinkType
<1>8. FreshLinks' /\ ServedOnlyFc'
  BY <1>2, <1>4, <1>5, <1>6 DEF FreshLinks, ServedOnlyFc
<1>9. KeptPayloadOK' /\ AuthenticatedIsFc'
  BY <1>2 DEF KeptPayloadOK, Genuine, AuthenticatedIsFc, IsAuthenticated
<1> QED
  BY <1>5, <1>7, <1>8, <1>9 DEF IInv

(* What got_auth makes of a payload: it is kept or accepted only when it     *)
(* names Fc, kept only without the key, accepted only over the nonce asked.  *)
LEMMA VerdictFacts ==
    ASSUME NEW l \in Link, NEW due \in BOOLEAN, NEW n \in Nonce,
           NEW auth \in AuthPayload, NEW st, st = Verdict(l, due, n, auth)
    PROVE  /\ st \in LinkState
           /\ st.tag = "PendingKey" =>
                 st.link = l /\ st.auth = auth /\ auth.dest = Fc /\ ~keyKnown
           /\ st.tag = "Authenticated" =>
                 st.link = l /\ auth.dest = Fc /\ auth.nonce = n
           /\ st.tag # "PendingAuth"
<1>1. CASE st = Disconnected
  BY <1>1, StateConstructors
<1>2. CASE FromFc(auth) /\ ~keyKnown
  <2>1. st = PendingKey(due, l, n, auth)
    BY <1>2 DEF Verdict
  <2> QED
    BY <1>2, <2>1, StateConstructors DEF FromFc
<1>3. CASE FromFc(auth) /\ ValidSignature(auth, n) /\ st = Authenticated(l)
  BY <1>3, StateConstructors DEF FromFc, ValidSignature
<1> QED
  BY <1>1, <1>2, <1>3 DEF Verdict

(* A payload from the channel is genuine, so what is kept or accepted of it  *)
(* belongs to Fc.                                                            *)
LEMMA HandleAuthIInv == IInv /\ HandleAuth => IInv'
<1> SUFFICES ASSUME IInv, HandleAuth PROVE IInv'
  OBVIOUS
<1> DEFINE l == Head(events).link
           auth == Head(events).auth
           q == Tail(events)
<1>1. /\ l \in Link /\ q \in Seq(LinkEvent) /\ Len(q) <= EventCap
      /\ QueueOK(q, inLink, challenge)
      /\ auth \in AuthPayload /\ Genuine(l, auth, challenge)
  BY HeadFacts DEF HandleAuth, NextEvent
<1>2. /\ TypeOK /\ FreshLinks /\ KeptPayloadOK /\ AuthenticatedIsFc /\ ServedOnlyFc
      /\ inLink \in InLinkType
      /\ UNCHANGED <<challenge, served, announces, keyKnown, station, lockedUp>>
  BY DEF IInv, TypeOK, InLinkType, HandleAuth, OthersUnchanged
<1>3. \/ linkState' = linkState /\ KeepLink(q)
      \/ /\ linkState.tag = "PendingAuth"
         /\ linkState' = Verdict(l, linkState.due, linkState.nonce, auth)
         /\ CloseLink(l, q) \/ KeepLink(q)
  BY DEF HandleAuth
<1> HIDE DEF l, auth, q
<1>4. /\ inLink' \in InLinkType /\ events' \in Seq(LinkEvent) /\ Len(events') <= EventCap
      /\ \A m \in Link : inLink'[m] = "none" <=> inLink[m] = "none"
      /\ QueueOK(events', inLink', challenge')
  BY <1>1, <1>2, <1>3, CloseOrKeep
<1>5. FreshLinks' /\ ServedOnlyFc'
  BY <1>2, <1>4 DEF FreshLinks, ServedOnlyFc
<1>6. linkState' \in LinkState /\ KeptPayloadOK' /\ AuthenticatedIsFc'
  <2>1. CASE linkState' = linkState
    BY <1>2, <2>1 DEF TypeOK, KeptPayloadOK, Genuine, AuthenticatedIsFc, IsAuthenticated
  <2>2. CASE /\ linkState.tag = "PendingAuth"
             /\ linkState' = Verdict(l, linkState.due, linkState.nonce, auth)
    <3>1. linkState.due \in BOOLEAN /\ linkState.nonce \in Nonce
      BY <1>2, <2>2, StateFields DEF TypeOK
    <3>2. /\ linkState' \in LinkState
          /\ linkState'.tag = "PendingKey" =>
                linkState'.link = l /\ linkState'.auth = auth /\ auth.dest = Fc
          /\ linkState'.tag = "Authenticated" => linkState'.link = l /\ auth.dest = Fc
      BY <1>1, <2>2, <3>1, VerdictFacts
    <3> QED
      BY <1>1, <1>2, <3>2
      DEF KeptPayloadOK, Genuine, AuthenticatedIsFc, IsAuthenticated
  <2> QED
    BY <1>3, <2>1, <2>2
<1>7. TypeOK'
  BY <1>2, <1>4, <1>6 DEF TypeOK, InLinkType
<1> QED
  BY <1>4, <1>5, <1>6, <1>7 DEF IInv

(* Steps that give up the held link, by an event, a timeout or a lost link.  *)
LEMMA ReleaseIInv ==
    ASSUME IInv, linkState' = Disconnected, NEW q \in Seq(LinkEvent),
           Len(q) <= EventCap, QueueOK(q, inLink, challenge),
           (\E m \in Link : CloseLink(m, q)) \/ KeepLink(q),
           UNCHANGED <<challenge, served, keyKnown, station, lockedUp>>,
           announces' \in 0..(AnnounceCap + 1)
    PROVE  IInv'
<1>1. TypeOK /\ FreshLinks /\ ServedOnlyFc /\ inLink \in InLinkType
  BY DEF IInv, TypeOK, InLinkType
<1>2. /\ inLink' \in InLinkType /\ events' \in Seq(LinkEvent) /\ Len(events') <= EventCap
      /\ \A m \in Link : inLink'[m] = "none" <=> inLink[m] = "none"
      /\ QueueOK(events', inLink', challenge')
  <2>1. CASE KeepLink(q)
    BY <1>1, <2>1 DEF KeepLink
  <2>2. CASE \E m \in Link : CloseLink(m, q)
    BY <1>1, <2>2, CloseLinkOK
  <2> QED
    BY <2>1, <2>2
<1>3. linkState' \in LinkState /\ linkState'.tag = "Disconnected"
  BY DisconnectedState
<1>4. TypeOK'
  BY <1>1, <1>2, <1>3 DEF TypeOK, InLinkType
<1>5. FreshLinks' /\ ServedOnlyFc'
  BY <1>1, <1>2 DEF FreshLinks, ServedOnlyFc
<1>6. KeptPayloadOK' /\ AuthenticatedIsFc'
  BY <1>3 DEF KeptPayloadOK, AuthenticatedIsFc, IsAuthenticated
<1> QED
  BY <1>2, <1>4, <1>5, <1>6 DEF IInv

(* A Closed event gives up the held link.                                    *)
LEMMA HandleClosedIInv == IInv /\ HandleClosed => IInv'
<1> SUFFICES ASSUME IInv, HandleClosed PROVE IInv'
  OBVIOUS
<1>1. /\ Tail(events) \in Seq(LinkEvent) /\ Len(Tail(events)) <= EventCap
      /\ QueueOK(Tail(events), inLink, challenge)
  BY HeadFacts DEF HandleClosed, NextEvent
<1>2. announces' \in 0..(AnnounceCap + 1)
  BY DEF IInv, TypeOK, HandleClosed, OthersUnchanged
<1> QED
  BY <1>1, <1>2, ReleaseIInv DEF HandleClosed, OthersUnchanged

(* When the event loop locks itself up, the link may have been closed, and   *)
(* nothing else of the session has changed.                                  *)
LEMMA LockUpIInv == IInv /\ LockUp => IInv'
<1> SUFFICES ASSUME IInv, LockUp PROVE IInv'
  OBVIOUS
<1> DEFINE l == Head(events).link
           q == Tail(events)
<1>1. l \in Link /\ q \in Seq(LinkEvent) /\ Len(q) <= EventCap
      /\ QueueOK(q, inLink, challenge)
  BY HeadFacts DEF LockUp, AuthMeetsAnnounce, CloseWhileLocked, NextEvent
<1>2. /\ TypeOK /\ FreshLinks /\ KeptPayloadOK /\ AuthenticatedIsFc /\ ServedOnlyFc
      /\ inLink \in InLinkType
      /\ UNCHANGED <<linkState, challenge, keyKnown, station, served>>
      /\ lockedUp' \in BOOLEAN
  BY DEF IInv, TypeOK, InLinkType, LockUp
<1>3. CloseLink(l, q) \/ KeepLink(q)
  BY DEF LockUp, AuthMeetsAnnounce, CloseWhileLocked
<1>4. announces' \in 0..(AnnounceCap + 1)
  <2>1. \/ announces \in 1..AnnounceCap /\ announces' = announces - 1
        \/ UNCHANGED announces
    BY DEF LockUp, AuthMeetsAnnounce, CloseWhileLocked
  <2> QED
    BY <1>2, <2>1, ConstantsAssumption DEF TypeOK
<1> HIDE DEF l, q
<1>5. /\ inLink' \in InLinkType /\ events' \in Seq(LinkEvent) /\ Len(events') <= EventCap
      /\ \A m \in Link : inLink'[m] = "none" <=> inLink[m] = "none"
      /\ QueueOK(events', inLink', challenge')
  BY <1>1, <1>2, <1>3, CloseOrKeep
<1> QED
  BY <1>2, <1>4, <1>5
  DEF IInv, TypeOK, InLinkType, FreshLinks, KeptPayloadOK, Genuine, AuthenticatedIsFc,
      IsAuthenticated, ServedOnlyFc

(* A lost link and a deadline that passed give up the held link.             *)
LEMMA AnnounceTickIInv == IInv /\ AnnounceTick => IInv'
<1> SUFFICES ASSUME IInv, AnnounceTick PROVE IInv'
  OBVIOUS
<1>1. /\ events \in Seq(LinkEvent) /\ Len(events) <= EventCap
      /\ QueueOK(events, inLink, challenge) /\ linkState \in LinkState
      /\ announces' \in 0..(AnnounceCap + 1)
  BY DEF IInv, TypeOK, AnnounceTick, OthersUnchanged
<1>2. (\E m \in Link : CloseLink(m, events)) \/ KeepLink(events)
  BY <1>1, StateFields DEF AnnounceTick, AuthTimedOut, IsPending
<1> QED
  BY <1>1, <1>2, ReleaseIInv DEF AnnounceTick, OthersUnchanged

(* The payload kept in PendingKey is genuine and names Fc.                   *)
LEMMA HandleFcAnnounceIInv == IInv /\ HandleFcAnnounce => IInv'
<1> SUFFICES ASSUME IInv, HandleFcAnnounce PROVE IInv'
  OBVIOUS
<1>1. /\ TypeOK /\ FreshLinks /\ KeptPayloadOK /\ AuthenticatedIsFc /\ ServedOnlyFc
      /\ QueueOK(events, inLink, challenge)
      /\ events \in Seq(LinkEvent) /\ Len(events) <= EventCap /\ linkState \in LinkState
      /\ UNCHANGED <<challenge, served, keyKnown, station, lockedUp>>
  BY DEF IInv, TypeOK, HandleFcAnnounce
<1>2. announces' \in 0..(AnnounceCap + 1)
  BY ConstantsAssumption DEF HandleFcAnnounce
<1>3. CASE linkState.tag # "PendingKey"
  <2>1. KeepLink(events) /\ linkState' = linkState
    BY <1>3 DEF HandleFcAnnounce
  <2> QED
    BY <1>1, <1>2, <2>1
    DEF IInv, TypeOK, KeepLink, FreshLinks, KeptPayloadOK, Genuine, AuthenticatedIsFc,
        IsAuthenticated, ServedOnlyFc
<1>4. CASE linkState.tag = "PendingKey" /\ ValidSignature(linkState.auth, linkState.nonce)
  <2>1. linkState' = Authenticated(linkState.link) /\ KeepLink(events)
    BY <1>4 DEF HandleFcAnnounce
  <2>2. linkState.link \in Link
    BY <1>1, <1>4, StateFields
  <2>3. /\ linkState' \in LinkState /\ linkState'.tag = "Authenticated"
        /\ linkState'.link = linkState.link
    BY <2>1, <2>2 DEF Authenticated, LinkState
  <2>4. AuthenticatedIsFc'
    BY <1>1, <1>4, <2>3 DEF KeptPayloadOK, Genuine, AuthenticatedIsFc, IsAuthenticated
  <2>5. TypeOK'
    BY <1>1, <1>2, <2>1, <2>3 DEF TypeOK, KeepLink
  <2>6. QueueOK(events', inLink', challenge') /\ FreshLinks' /\ ServedOnlyFc'
    BY <1>1, <2>1 DEF KeepLink, FreshLinks, ServedOnlyFc
  <2>7. KeptPayloadOK'
    BY <2>3 DEF KeptPayloadOK
  <2> QED
    BY <2>4, <2>5, <2>6, <2>7 DEF IInv
<1>5. CASE linkState.tag = "PendingKey" /\ ~ValidSignature(linkState.auth, linkState.nonce)
  <2>1. linkState' = Disconnected /\ CloseLink(linkState.link, events)
    BY <1>5 DEF HandleFcAnnounce
  <2>2. linkState.link \in Link
    BY <1>1, <1>5, StateFields
  <2> QED
    BY <1>1, <1>2, <2>1, <2>2, ReleaseIInv
<1> QED
  BY <1>3, <1>4, <1>5

(* A restart forgets everything but the history of links and challenges.     *)
LEMMA ResetProcessIInv == IInv /\ ResetProcess => IInv'
<1> SUFFICES ASSUME IInv, ResetProcess PROVE IInv'
  OBVIOUS
<1>1. TypeOK /\ FreshLinks /\ ServedOnlyFc
  BY DEF IInv
<1>2. linkState' \in LinkState /\ linkState'.tag = "Disconnected"
  BY DisconnectedState DEF ResetProcess
<1>3. /\ inLink' \in InLinkType /\ challenge' \in ChallengeType
      /\ \A m \in Link : inLink'[m] = "none" <=> inLink[m] = "none"
      /\ \A m \in Link : challenge[m] # "sent" => challenge'[m] = challenge[m]
  BY <1>1 DEF TypeOK, ResetProcess, InLinkType, ChallengeType
<1>4. events' \in Seq(LinkEvent) /\ Len(events') <= EventCap /\ Len(events') = 0
  BY ConstantsAssumption DEF ResetProcess
<1>5. TypeOK'
  <2>1. announces' \in 0..(AnnounceCap + 1) /\ served' \subseteq Link
    BY <1>1, ConstantsAssumption DEF TypeOK, ResetProcess
  <2>2. keyKnown' \in BOOLEAN /\ station' \in BOOLEAN /\ lockedUp' \in BOOLEAN
    BY Zenon DEF ResetProcess
  <2> QED
    BY <1>2, <1>3, <1>4, <2>1, <2>2 DEF TypeOK, InLinkType, ChallengeType
<1>6. QueueOK(events', inLink', challenge')
  BY <1>4 DEF QueueOK
<1>7. FreshLinks' /\ ServedOnlyFc'
  BY <1>1, <1>3 DEF TypeOK, FreshLinks, ServedOnlyFc, ResetProcess
<1>8. KeptPayloadOK' /\ AuthenticatedIsFc'
  BY <1>2 DEF KeptPayloadOK, AuthenticatedIsFc, IsAuthenticated
<1> QED
  BY <1>5, <1>6, <1>7, <1>8 DEF IInv

-----------------------------------------------------------------------------
(* The transport, the peers and the clock.                                   *)

(* Steps that bring one event, of a link that is up, and change no state of  *)
(* the ground control.                                                       *)
LEMMA ArrivalIInv ==
    ASSUME IInv, NEW e \in LinkEvent, events' = Broadcast(events, e),
           inLink' \in InLinkType, challenge' \in ChallengeType,
           inLink'[e.link] # "none",
           \A l \in Link : inLink'[l] = "none" => inLink[l] = "none" /\ challenge'[l] = "none",
           \A l \in Link : challenge[l] = "answered" => challenge'[l] = "answered",
           \A l \in Link : challenge[l] = "none" => challenge'[l] = "none",
           e.kind = "Auth" => Genuine(e.link, e.auth, challenge'),
           e.kind = "Activated" =>
              challenge'[e.link] = "none" /\ inLink[e.link] = "none",
           UNCHANGED <<linkState, announces, keyKnown, station, served, lockedUp>>
    PROVE  IInv'
<1>1. /\ TypeOK /\ FreshLinks /\ KeptPayloadOK /\ AuthenticatedIsFc /\ ServedOnlyFc
      /\ QueueOK(events, inLink, challenge)
      /\ events \in Seq(LinkEvent) /\ Len(events) <= EventCap /\ linkState \in LinkState
  BY DEF IInv, TypeOK
<1>2. \A i \in 1..Len(events) : events[i].link \in Link
  BY <1>1, EventType
<1>3. \A i \in 1..Len(events) :
         events[i].kind = "Activated" => challenge'[events[i].link] = "none"
  BY <1>1, <1>2 DEF QueueOK
<1>4. QueueOK(events, inLink', challenge')
  <2>1. \A l \in Link : inLink[l] # "none" => inLink'[l] # "none"
    OBVIOUS
  <2> QED
    BY <1>1, <1>3, <2>1, QueueFrame
<1>5. e.kind = "Activated" => \A j \in 1..Len(events) : events[j].link # e.link
  BY <1>1 DEF QueueOK
<1>6. QueueOK(events', inLink', challenge')
  BY <1>1, <1>4, <1>5, QueueBroadcast
<1>7. TypeOK'
  BY <1>1, BroadcastShape DEF TypeOK, InLinkType, ChallengeType
<1>8. FreshLinks' /\ ServedOnlyFc'
  BY <1>1 DEF TypeOK, FreshLinks, ServedOnlyFc
<1>9. KeptPayloadOK' /\ AuthenticatedIsFc'
  BY <1>1, StateFields DEF KeptPayloadOK, Genuine, AuthenticatedIsFc, IsAuthenticated
<1> QED
  BY <1>6, <1>7, <1>8, <1>9 DEF IInv

(* Steps that touch neither the channel nor the challenges that matter.      *)
LEMMA QuietIInv ==
    ASSUME IInv, UNCHANGED events,
           inLink' \in InLinkType, challenge' \in ChallengeType,
           \A l \in Link : inLink'[l] = "none" <=> inLink[l] = "none",
           \A l \in Link : challenge[l] # "sent" => challenge'[l] = challenge[l],
           \/ linkState' = linkState
           \/ IsPending /\ linkState' = [linkState EXCEPT !.due = TRUE],
           announces' \in 0..(AnnounceCap + 1),
           keyKnown' \in BOOLEAN, station' \in BOOLEAN, lockedUp' \in BOOLEAN,
           \A l \in served' :
              l \in served \/ (l \in Link /\ IsAuthenticated /\ l = linkState.link)
    PROVE  IInv'
<1>1. /\ TypeOK /\ FreshLinks /\ KeptPayloadOK /\ AuthenticatedIsFc /\ ServedOnlyFc
      /\ QueueOK(events, inLink, challenge)
      /\ events \in Seq(LinkEvent) /\ Len(events) <= EventCap /\ linkState \in LinkState
  BY DEF IInv, TypeOK
<1>2. \A i \in 1..Len(events) : events[i].link \in Link
  BY <1>1, EventType
<1>3. QueueOK(events', inLink', challenge')
  <2>1. \A l \in Link : inLink[l] # "none" => inLink'[l] # "none"
    OBVIOUS
  <2>2. \A l \in Link : challenge[l] = "answered" => challenge'[l] = "answered"
    OBVIOUS
  <2>3. \A i \in 1..Len(events) :
           events[i].kind = "Activated" => challenge'[events[i].link] = "none"
    BY <1>1, <1>2 DEF QueueOK
  <2> QED
    BY <1>1, <2>1, <2>2, <2>3, QueueFrame
<1>4. linkState' \in LinkState /\ KeptPayloadOK' /\ AuthenticatedIsFc'
  <2>1. CASE linkState' = linkState
    BY <1>1, <2>1, StateFields
    DEF KeptPayloadOK, Genuine, AuthenticatedIsFc, IsAuthenticated
  <2>2. CASE IsPending /\ linkState' = [linkState EXCEPT !.due = TRUE]
    <3>1. /\ linkState' \in LinkState /\ linkState'.tag = linkState.tag
          /\ linkState'.link = linkState.link
          /\ linkState.tag = "PendingKey" => linkState'.auth = linkState.auth
      BY <1>1, <2>2 DEF LinkState, IsPending, Disconnected
    <3> QED
      BY <1>1, <2>2, <3>1, StateFields
      DEF KeptPayloadOK, Genuine, AuthenticatedIsFc, IsAuthenticated, IsPending
  <2> QED
    BY <2>1, <2>2
<1>5. TypeOK'
  BY <1>1, <1>4, <1>1 DEF TypeOK, InLinkType, ChallengeType
<1>6. FreshLinks'
  BY <1>1 DEF FreshLinks
<1>7. ServedOnlyFc'
  BY <1>1 DEF TypeOK, ServedOnlyFc, AuthenticatedIsFc
<1> QED
  BY <1>3, <1>4, <1>5, <1>6, <1>7 DEF IInv

(* Each step of a link is an arrival, or quiet.                              *)
LEMMA LinkStepIInv ==
    ASSUME IInv, NEW l \in Link, LinkStep(l)
    PROVE  IInv'
<1>1. /\ TypeOK /\ FreshLinks
      /\ inLink \in InLinkType /\ challenge \in ChallengeType
      /\ announces \in 0..(AnnounceCap + 1)
      /\ keyKnown \in BOOLEAN /\ station \in BOOLEAN /\ lockedUp \in BOOLEAN
  BY DEF IInv, TypeOK, InLinkType, ChallengeType
<1>2. CASE LinkUp(l)
  <2>1. Plain("Activated", l) \in LinkEvent
        /\ Plain("Activated", l).kind = "Activated" /\ Plain("Activated", l).link = l
    BY DEF Plain, LinkEvent
  <2>2. inLink' \in InLinkType /\ inLink'[l] = "open"
        /\ \A m \in Link : m # l => inLink'[m] = inLink[m]
    BY <1>1, <1>2 DEF LinkUp, InLinkType
  <2>3. inLink[l] = "none" /\ challenge[l] = "none" /\ challenge' = challenge
        /\ events' = Broadcast(events, Plain("Activated", l))
        /\ UNCHANGED <<linkState, announces, keyKnown, station, served, lockedUp>>
    BY <1>1, <1>2 DEF LinkUp, FreshLinks, OthersUnchanged
  <2>4. \A m \in Link : inLink'[m] = "none" => inLink[m] = "none" /\ challenge'[m] = "none"
    BY <1>1, <2>2, <2>3 DEF FreshLinks
  <2> QED
    BY <1>1, <2>1, <2>2, <2>3, <2>4, ArrivalIInv
<1>3. CASE LinkDown(l)
  <2>1. QueueOK(events, inLink, challenge) /\ events \in Seq(LinkEvent) /\ Len(events) <= EventCap
        /\ KeptPayloadOK /\ AuthenticatedIsFc /\ ServedOnlyFc
    BY DEF IInv, TypeOK
  <2>2. /\ inLink' \in InLinkType /\ events' \in Seq(LinkEvent) /\ Len(events') <= EventCap
        /\ \A m \in Link : inLink'[m] = "none" <=> inLink[m] = "none"
        /\ QueueOK(events', inLink', challenge)
    BY <1>1, <1>3, <2>1, CloseLinkOK DEF LinkDown
  <2>3. UNCHANGED <<linkState, challenge, announces, keyKnown, station, served, lockedUp>>
    BY <1>3 DEF LinkDown, OthersUnchanged
  <2> QED
    BY <1>1, <2>1, <2>2, <2>3
    DEF IInv, TypeOK, InLinkType, FreshLinks, KeptPayloadOK, Genuine, AuthenticatedIsFc,
        IsAuthenticated, ServedOnlyFc
<1>4. CASE Forget(l)
  <2>1. inLink' \in InLinkType /\ \A m \in Link : inLink'[m] = "none" <=> inLink[m] = "none"
    BY <1>1, <1>4 DEF Forget, InLinkType
  <2>2. UNCHANGED <<linkState, challenge, events, announces, keyKnown, station, served, lockedUp>>
    BY <1>4 DEF Forget, OthersUnchanged
  <2> QED
    BY <1>1, <2>1, <2>2, QuietIInv
<1>5. CASE PeerAnswers(l)
  <2> DEFINE auth == [dest |-> Owner[l], nonce |-> l]
             e == AuthEvent(l, auth)
  <2>1. auth \in AuthPayload /\ auth.dest = Owner[l] /\ auth.nonce = l
    BY ConstantsAssumption DEF AuthPayload, Nonce
  <2> HIDE DEF auth
  <2>2. e \in LinkEvent /\ e.kind = "Auth" /\ e.link = l /\ e.auth = auth
    BY <2>1 DEF AuthEvent, LinkEvent
  <2>3. events' = Broadcast(events, e)
    BY <1>5 DEF PeerAnswers, auth
  <2> HIDE DEF e
  <2>4. /\ inLink[l] = "open" /\ challenge[l] = "sent"
        /\ challenge' = [challenge EXCEPT ![l] = "answered"]
        /\ UNCHANGED <<inLink, linkState, announces, keyKnown, station, served, lockedUp>>
    BY <1>5 DEF PeerAnswers, OthersUnchanged
  <2>5. /\ challenge' \in ChallengeType /\ challenge'[l] = "answered"
        /\ \A m \in Link : m # l => challenge'[m] = challenge[m]
    BY <1>1, <2>4 DEF ChallengeType
  <2>6. Genuine(e.link, e.auth, challenge')
    BY <2>1, <2>2, <2>5 DEF Genuine
  <2>7. \A m \in Link : inLink'[m] = "none" => inLink[m] = "none" /\ challenge'[m] = "none"
    BY <1>1, <2>4, <2>5 DEF FreshLinks
  <2>8. /\ \A m \in Link : challenge[m] = "answered" => challenge'[m] = "answered"
        /\ \A m \in Link : challenge[m] = "none" => challenge'[m] = "none"
    BY <2>4, <2>5
  <2> QED
    BY <1>1, <2>2, <2>3, <2>4, <2>5, <2>6, <2>7, <2>8, ArrivalIInv
<1>6. CASE ChallengeLost(l)
  <2>1. challenge' \in ChallengeType
        /\ \A m \in Link : challenge[m] # "sent" => challenge'[m] = challenge[m]
    BY <1>1, <1>6 DEF ChallengeLost, ChallengeType
  <2>2. UNCHANGED <<linkState, inLink, events, announces, keyKnown, station, served, lockedUp>>
    BY <1>6 DEF ChallengeLost, OthersUnchanged
  <2> QED
    BY <1>1, <2>1, <2>2, QuietIInv
<1>7. CASE PeerSends(l)
  <2>1. Plain("Data", l) \in LinkEvent
        /\ Plain("Data", l).kind = "Data" /\ Plain("Data", l).link = l
    BY DEF Plain, LinkEvent
  <2>2. inLink[l] = "open" /\ events' = Broadcast(events, Plain("Data", l))
        /\ UNCHANGED <<linkState, inLink, challenge, announces, keyKnown, station, served, lockedUp>>
    BY <1>7 DEF PeerSends, OthersUnchanged
  <2>3. \A m \in Link : inLink'[m] = "none" => inLink[m] = "none" /\ challenge'[m] = "none"
    BY <1>1, <2>2 DEF FreshLinks
  <2> QED
    BY <1>1, <2>1, <2>2, <2>3, ArrivalIInv
<1> QED
  BY <1>2, <1>3, <1>4, <1>5, <1>6, <1>7 DEF LinkStep

(* The remaining steps: the ground station, an announce, the deadline.       *)
LEMMA OtherStepsIInv ==
    ASSUME IInv,
           \/ StationFound \/ StationSilent \/ ForwardGroundData
           \/ FcAnnounces \/ DeadlinePasses \/ UNCHANGED vars
    PROVE  IInv'
<1>1. /\ inLink \in InLinkType /\ challenge \in ChallengeType
      /\ announces \in 0..(AnnounceCap + 1)
      /\ keyKnown \in BOOLEAN /\ station \in BOOLEAN /\ lockedUp \in BOOLEAN
      /\ linkState \in LinkState
  BY DEF IInv, TypeOK, InLinkType, ChallengeType
<1>2. UNCHANGED <<inLink, challenge, events>>
  BY DEF StationFound, StationSilent, ForwardGroundData, FcAnnounces, DeadlinePasses, vars
<1>3. announces' \in 0..(AnnounceCap + 1)
  BY <1>1, ConstantsAssumption
  DEF StationFound, StationSilent, ForwardGroundData, FcAnnounces, DeadlinePasses,
      OthersUnchanged, vars
<1>4. keyKnown' \in BOOLEAN /\ station' \in BOOLEAN /\ lockedUp' \in BOOLEAN
  BY <1>1, Zenon
  DEF StationFound, StationSilent, ForwardGroundData, FcAnnounces, DeadlinePasses,
      OthersUnchanged, vars
<1>5. \/ linkState' = linkState
      \/ IsPending /\ linkState' = [linkState EXCEPT !.due = TRUE]
  BY DEF StationFound, StationSilent, ForwardGroundData, FcAnnounces, DeadlinePasses, vars
<1>6. \A l \in served' :
         l \in served \/ (l \in Link /\ IsAuthenticated /\ l = linkState.link)
  BY DEF StationFound, StationSilent, ForwardGroundData, ForwardTarget, Holds,
         FcAnnounces, DeadlinePasses, vars
<1> QED
  BY <1>1, <1>2, <1>3, <1>4, <1>5, <1>6, QuietIInv

(* Every step preserves the invariant.                                       *)
LEMMA NextIInv == IInv /\ [Next]_vars => IInv'
<1> SUFFICES ASSUME IInv, [Next]_vars PROVE IInv'
  OBVIOUS
<1>1. CASE HandleEvent \/ LockUp
  BY <1>1, HandleActivatedIInv, HandleDataIInv, HandleAuthIInv, HandleClosedIInv,
     LockUpIInv
  DEF HandleEvent
<1>2. CASE AnnounceTick \/ HandleFcAnnounce
  BY <1>2, AnnounceTickIInv, HandleFcAnnounceIInv
<1>3. CASE AnnounceLag \/ Restart
  BY <1>3, ResetProcessIInv DEF AnnounceLag, Restart
<1>4. CASE \/ StationFound \/ StationSilent \/ ForwardGroundData
           \/ FcAnnounces \/ DeadlinePasses \/ UNCHANGED vars
  BY <1>4, OtherStepsIInv
<1>5. CASE \E l \in Link : LinkStep(l)
  BY <1>5, LinkStepIInv
<1> QED
  BY <1>1, <1>2, <1>3, <1>4, <1>5 DEF Next

(* So it holds in every reachable state.                                     *)
LEMMA Inductive == Spec => []IInv
  BY InitIInv, NextIInv, PTL DEF Spec

-----------------------------------------------------------------------------
(* The theorems.                                                             *)

(* Every variable keeps its type, and the event channel its bound.           *)
THEOREM TypeCorrect == Spec => []TypeOK
<1>1. IInv => TypeOK
  BY DEF IInv
<1> QED
  BY <1>1, Inductive, PTL

(* Only a link of Fc, whose challenge Fc answered, is ever authenticated.    *)
THEOREM OnlyFcAuthenticated == Spec => []AuthenticatedIsFc
<1>1. IInv => AuthenticatedIsFc
  BY DEF IInv
<1> QED
  BY <1>1, Inductive, PTL

(* Ground station traffic passes only over links that Fc authenticated.      *)
THEOREM OnlyFcServed == Spec => []ServedOnlyFc
<1>1. IInv => ServedOnlyFc
  BY DEF IInv
<1> QED
  BY <1>1, Inductive, PTL

=============================================================================

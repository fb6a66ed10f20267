----------------------------- MODULE FcLinkProofs -----------------------------
(***************************************************************************)
(* Theorems about FcLink, for every set of links, every capacity of the    *)
(* channel, size of a read and limit of empty reads.  Why the flight       *)
(* controller never has two links open, although check_status and the      *)
(* event loop take data_link each on its own account and a Closed event    *)
(* may be handled long after the link: every event that waits is about the *)
(* data link, until check_status has taken it; and from there check_status *)
(* waits for itself, so that no other link is ever requested.              *)
(***************************************************************************)
EXTENDS FcLink, TLAPS

LinkEvent == [kind : {"Data", "Nonce", "Activated", "Closed"}, link : Link]
StatusType == [Link -> {"unused", "pending", "active", "closed"}]

(* Where each loop can be.                                                   *)
PlacesOK ==
    /\ pc["link"] \in {"recv", "check", "timer", "take", "clear", "connect", "stamp"}
    /\ pc["event"] \in {"recv", "reply", "assert", "clear", "take"}
    /\ pc["port"] \in {"recv", "forward", "send"}

(* Who holds the guard of which mutex, and where.                            *)
GuardsOK ==
    /\ dlHeld # "event"
    /\ dlHeld = "port" <=> At("port", "send")
    /\ dlHeld = "link" => At("link", "take") \/ At("link", "stamp")
    /\ At("link", "stamp") => dlHeld = "link"
    /\ tsHeld \in {"free", "link"}
    /\ tsHeld = "link" => At("link", "take") \/ At("link", "clear")
    /\ At("link", "take") => dlHeld = "link" \/ tsHeld = "link"
    /\ At("link", "clear") => tsHeld = "link" /\ dataLink = NoLink

(* An event about l, of that kind, that waits while dl is the data link.     *)
EventOK(kind, l, dl, st, nonces) ==
    /\ l = dl
    /\ st[l] \in {"active", "closed"}
    /\ kind = "Nonce" => l \in nonces
    /\ kind = "Closed" => st[l] = "closed"

(* The events that wait are about the data link, and a Closed event is the   *)
(* last.                                                                     *)
QueueOK(q, dl, st, nonces) ==
    \A i \in 1..Len(q) :
        /\ EventOK(q[i].kind, q[i].link, dl, st, nonces)
        /\ q[i].kind = "Closed" => i = Len(q)

(* So is the event being handled; the handler of a Closed event has emptied  *)
(* the channel.                                                              *)
HandlerOK ==
    /\ ~At("event", "recv") =>
          current \in Link /\ EventOK("Data", current, dataLink, status, nonceSent)
    /\ At("event", "reply") => current \in nonceSent
    /\ At("event", "take") => status[current] = "closed" /\ events = <<>>

EventsOK == Discarded \/ (QueueOK(events, dataLink, status, nonceSent) /\ HandlerOK)

IInv ==
    /\ TypeOK
    /\ PlacesOK
    /\ GuardsOK
    /\ EventsOK
    /\ NoLeakedLink
    /\ PendingLinkTimed
    /\ AnswersOnOwnLink

-----------------------------------------------------------------------------
(* Facts about the event channel.                                            *)

(* A link event names a link.                                                *)
LEMMA EventType ==
    ASSUME NEW q \in Seq(LinkEvent), NEW i \in 1..Len(q)
    PROVE  q[i].link \in Link
<1>1. q[i] \in LinkEvent
  OBVIOUS
<1> QED
  BY <1>1 DEF LinkEvent

(* Taking the head off the channel leaves a channel of link events.          *)
LEMMA TailType ==
    ASSUME NEW q \in Seq(LinkEvent), q # <<>>, Len(q) <= EventCap
    PROVE  /\ Tail(q) \in Seq(LinkEvent)
           /\ Len(Tail(q)) = Len(q) - 1
           /\ Len(Tail(q)) <= EventCap
           /\ \A i \in 1..Len(Tail(q)) : Tail(q)[i] = q[i + 1] /\ i + 1 \in 1..Len(q)
           /\ Head(q) = q[1]
           /\ 1 \in 1..Len(q)
           /\ Head(q) \in LinkEvent
  BY ConstantsAssumption

(* What Broadcast leaves: the new event last, before it events that waited.  *)
LEMMA BroadcastShape ==
    ASSUME NEW q \in Seq(LinkEvent), Len(q) <= EventCap, NEW e \in LinkEvent
    PROVE  /\ Broadcast(q, e) \in Seq(LinkEvent)
           /\ Len(Broadcast(q, e)) <= EventCap
           /\ \A i \in 1..Len(Broadcast(q, e)) :
                 IF i = Len(Broadcast(q, e))
                 THEN Broadcast(q, e)[i] = e
                 ELSE \E j \in 1..Len(q) : Broadcast(q, e)[i] = q[j]
<1>1. CASE Len(q) < EventCap
  <2>1. Broadcast(q, e) = Append(q, e)
    BY <1>1 DEF Broadcast
  <2> QED
    BY <1>1, <2>1, ConstantsAssumption
<1>2. CASE ~(Len(q) < EventCap)
  <2> DEFINE r == Tail(q)
  <2>1. Broadcast(q, e) = Append(r, e)
    BY <1>2 DEF Broadcast
  <2>2. Len(q) = EventCap /\ q # <<>>
    BY <1>2, ConstantsAssumption
  <2>3. /\ r \in Seq(LinkEvent)
        /\ Len(r) = Len(q) - 1
        /\ \A i \in 1..Len(r) : r[i] = q[i + 1] /\ i + 1 \in 1..Len(q)
    BY <2>2, TailType
  <2> HIDE DEF r
  <2>4. /\ Append(r, e) \in Seq(LinkEvent)
        /\ Len(Append(r, e)) = Len(q)
        /\ \A i \in 1..Len(q) : Append(r, e)[i] = IF i = Len(q) THEN e ELSE r[i]
    BY <2>2, <2>3
  <2> QED
    BY <2>1, <2>2, <2>3, <2>4
<1> QED
  BY <1>1, <1>2

(* The first event of a good channel is about the data link; the rest of the *)
(* channel is good, and empty behind a Closed event.                         *)
LEMMA QueueTail ==
    ASSUME NEW q \in Seq(LinkEvent), q # <<>>, Len(q) <= EventCap,
           NEW dl, NEW st, NEW nonces, QueueOK(q, dl, st, nonces)
    PROVE  /\ EventOK(Head(q).kind, Head(q).link, dl, st, nonces)
           /\ QueueOK(Tail(q), dl, st, nonces)
           /\ Head(q).kind = "Closed" => Tail(q) = <<>>
<1> DEFINE r == Tail(q)
<1>1. /\ r \in Seq(LinkEvent)
      /\ Len(r) = Len(q) - 1
      /\ Len(r) \in Nat /\ Len(q) \in Nat
      /\ \A i \in 1..Len(r) : r[i] = q[i + 1] /\ i + 1 \in 1..Len(q)
      /\ Head(q) = q[1] /\ 1 \in 1..Len(q)
  BY TailType
<1>2. Head(q).kind = "Closed" => r = <<>>
  <2> HIDE DEF r
  <2> QED
    BY <1>1 DEF QueueOK
<1>3. QueueOK(r, dl, st, nonces)
  <2> HIDE DEF r
  <2> QED
    BY <1>1 DEF QueueOK
<1> QED
  BY <1>1, <1>2, <1>3 DEF QueueOK

(* A good channel without a Closed event stays good when an event about the  *)
(* data link is broadcast.                                                   *)
LEMMA QueueBroadcast ==
    ASSUME NEW q \in Seq(LinkEvent), Len(q) <= EventCap, NEW e \in LinkEvent,
           NEW dl, NEW st, NEW nonces, QueueOK(q, dl, st, nonces),
           \A i \in 1..Len(q) : q[i].kind # "Closed",
           EventOK(e.kind, e.link, dl, st, nonces)
    PROVE  QueueOK(Broadcast(q, e), dl, st, nonces)
<1> DEFINE r == Broadcast(q, e)
<1>1. \A i \in 1..Len(r) :
         IF i = Len(r) THEN r[i] = e ELSE \E j \in 1..Len(q) : r[i] = q[j]
  BY BroadcastShape
<1> HIDE DEF r
<1>2. QueueOK(r, dl, st, nonces)
  BY <1>1 DEF QueueOK
<1> QED
  BY <1>2 DEF r

(* An event that waits stays good when its link closes or a nonce comes, and *)
(* no Closed event waits for a link that is not closed.                      *)
LEMMA QueueFrame ==
    ASSUME NEW q \in Seq(LinkEvent), NEW dl, NEW st, NEW nonces, NEW st2, NEW nonces2,
           QueueOK(q, dl, st, nonces),
           nonces \subseteq nonces2,
           st[dl] \in {"active", "closed"} => st2[dl] = st[dl] \/ st2[dl] = "closed"
    PROVE  QueueOK(q, dl, st2, nonces2)
  BY DEF QueueOK, EventOK

-----------------------------------------------------------------------------
(* The steps.                                                                *)

(* The initial state satisfies the invariant.                                *)
LEMMA InitOK == Init => IInv
<1> SUFFICES ASSUME Init PROVE IInv
  OBVIOUS
<1>1. TypeOK
  <2>1. gcSeen \in BOOLEAN /\ unplugged \in BOOLEAN
    BY Zenon DEF Init
  <2> QED
    BY <2>1, ConstantsAssumption DEF Init, TypeOK, Loop
<1>2. PlacesOK /\ GuardsOK
  BY DEF Init, PlacesOK, GuardsOK, At, Loop
<1>3. EventsOK
  BY DEF Init, EventsOK, QueueOK, HandlerOK, At, Loop
<1>4. NoLeakedLink /\ PendingLinkTimed /\ AnswersOnOwnLink
  BY DEF Init, NoLeakedLink, PendingLinkTimed, AnswersOnOwnLink, Open, Discarded, At
<1> QED
  BY <1>1, <1>2, <1>3, <1>4 DEF IInv

(* A new process satisfies it.                                               *)
LEMMA ResetOK == IInv /\ ResetProcess => IInv'
<1> SUFFICES ASSUME IInv, ResetProcess PROVE IInv'
  OBVIOUS
<1> USE DEF IInv
<1>1. TypeOK'
  <2>1. gcSeen' \in BOOLEAN /\ unplugged' \in BOOLEAN
    BY Zenon DEF ResetProcess
  <2>2. status' \in [Link -> {"unused", "pending", "active", "closed"}]
    BY DEF ResetProcess, TypeOK
  <2> QED
    BY <2>1, <2>2, ConstantsAssumption DEF ResetProcess, TypeOK, Loop
<1>2. PlacesOK' /\ GuardsOK'
  BY DEF ResetProcess, PlacesOK, GuardsOK, At, Loop
<1>3. EventsOK'
  BY DEF ResetProcess, EventsOK, QueueOK, HandlerOK, At, Loop
<1>4. NoLeakedLink' /\ PendingLinkTimed' /\ AnswersOnOwnLink'
  BY DEF ResetProcess, NoLeakedLink, PendingLinkTimed, AnswersOnOwnLink, TypeOK, Open, Discarded, At
<1> QED
  BY <1>1, <1>2, <1>3, <1>4

(* Steps that change only where a loop is, who holds which guard, and what   *)
(* the announce and the serial port brought, leave the data link, the links  *)
(* and the events as they are.                                               *)
Calm == UNCHANGED <<dataLink, request, netVars, eventLoopVars>>

(* Such a step keeps the invariant.                                          *)
LEMMA CalmOK ==
    ASSUME IInv, Calm, UNCHANGED pc["event"],
           pc'["link"] = pc["link"] \/ pc["link"] \notin {"clear", "stamp"},
           pc'["link"] # "clear" \/ pc["link"] = "clear"
    PROVE  EventsOK' /\ NoLeakedLink' /\ PendingLinkTimed' /\ AnswersOnOwnLink'
<1>1. EventsOK'
  <2>1. QueueOK(events, dataLink, status, nonceSent)
           => QueueOK(events', dataLink', status', nonceSent')
    BY DEF Calm, netVars, eventLoopVars
  <2>2. HandlerOK => HandlerOK'
    BY DEF Calm, HandlerOK, At, netVars, eventLoopVars
  <2>3. Discarded => Discarded'
    BY DEF Discarded, At
  <2> QED
    BY <2>1, <2>2, <2>3 DEF IInv, EventsOK
<1>2. NoLeakedLink' /\ AnswersOnOwnLink'
  BY DEF IInv, Calm, NoLeakedLink, AnswersOnOwnLink, netVars, eventLoopVars, Open, Discarded, At
<1>3. PendingLinkTimed'
  BY DEF IInv, Calm, PendingLinkTimed, At, netVars
<1> QED
  BY <1>1, <1>2, <1>3

(* An announce, or none for a while: check_status comes first.               *)
LEMMA RecvAnnounceOK == IInv /\ RecvAnnounce => IInv'
<1> SUFFICES ASSUME IInv, RecvAnnounce PROVE IInv'
  OBVIOUS
<1> USE DEF RecvAnnounce, At, Goto
<1>1. TypeOK'
  BY DEF IInv, TypeOK, netVars, eventLoopVars, portVars, Loop
<1>2. PlacesOK' /\ GuardsOK'
  BY DEF IInv, TypeOK, PlacesOK, GuardsOK, Loop
<1>3. EventsOK' /\ NoLeakedLink' /\ PendingLinkTimed' /\ AnswersOnOwnLink'
  BY CalmOK DEF IInv, TypeOK, Loop, Calm
<1> QED
  BY <1>1, <1>2, <1>3 DEF IInv

(* check_status keeps the guard of data_link when the link is closed.        *)
LEMMA CheckLinkOK == IInv /\ CheckLink => IInv'
<1> SUFFICES ASSUME IInv, CheckLink PROVE IInv'
  OBVIOUS
<1> USE DEF CheckLink, At, Goto
<1>1. TypeOK'
  BY DEF IInv, TypeOK, netVars, eventLoopVars, portVars, linkLoopVars, Loop
<1>2. PlacesOK' /\ GuardsOK'
  BY DEF IInv, TypeOK, PlacesOK, GuardsOK, Loop, linkLoopVars
<1>3. EventsOK' /\ NoLeakedLink' /\ PendingLinkTimed' /\ AnswersOnOwnLink'
  BY CalmOK DEF IInv, TypeOK, Loop, Calm, linkLoopVars
<1> QED
  BY <1>1, <1>2, <1>3 DEF IInv

(* check_status keeps the guard of the request time when it is too old.      *)
LEMMA CheckTimerOK == IInv /\ CheckTimer => IInv'
<1> SUFFICES ASSUME IInv, CheckTimer PROVE IInv'
  OBVIOUS
<1> USE DEF CheckTimer, AfterCheck, At, Goto
<1>1. TypeOK'
  BY DEF IInv, TypeOK, netVars, eventLoopVars, portVars, Loop
<1>2. PlacesOK' /\ GuardsOK'
  BY DEF IInv, TypeOK, PlacesOK, GuardsOK, Loop
<1>3. EventsOK' /\ NoLeakedLink' /\ PendingLinkTimed' /\ AnswersOnOwnLink'
  BY CalmOK DEF IInv, TypeOK, Loop, Calm
<1> QED
  BY <1>1, <1>2, <1>3 DEF IInv

(* No other link is open than the one taken.  check_status stops here for    *)
(* good when it took the link, closed or not; otherwise the link is closed   *)
(* and the channel empty.                                                    *)
LEMMA TakeLinkOK ==
    ASSUME NEW t \in {"link", "event"}, IInv, TakeLink(t)
    PROVE  IInv'
<1> USE DEF TakeLink, At, Goto
<1>1. /\ events' \in Seq(LinkEvent)
      /\ Len(events') <= EventCap
      /\ status' \in StatusType
      /\ \A l \in Link : status'[l] \in {status[l], "closed"}
      /\ t = "event" => status' = status /\ events' = events
  <2>1. events \in Seq(LinkEvent) /\ Len(events) <= EventCap /\ status \in StatusType
    BY DEF IInv, TypeOK, LinkEvent, StatusType
  <2>2. CASE UNCHANGED <<status, events>>
    BY <2>1, <2>2, ConstantsAssumption
  <2>3. CASE ~UNCHANGED <<status, events>>
    <3>1. t = "link" /\ dataLink \in Link
      BY <2>3 DEF CloseTaken, IInv, TypeOK
    <3> DEFINE e == Event("Closed", dataLink)
    <3>2. e \in LinkEvent
      BY <3>1 DEF Event, LinkEvent
    <3> HIDE DEF e
    <3>3. status' = [status EXCEPT ![dataLink] = "closed"]
          /\ events' \in {events, Broadcast(events, e)}
      BY <2>3 DEF CloseTaken, e
    <3> QED
      BY <2>1, <3>1, <3>2, <3>3, BroadcastShape DEF StatusType
  <2> QED
    BY <2>2, <2>3
<1>2. TypeOK'
  BY <1>1 DEF IInv, TypeOK, LinkEvent, StatusType, linkLoopVars, eventLoopVars,
              portVars, Loop
<1>3. PlacesOK' /\ GuardsOK'
  BY DEF IInv, TypeOK, PlacesOK, GuardsOK, Loop, linkLoopVars
<1>4. EventsOK'
  <2>1. CASE t = "link"
    BY <2>1 DEF EventsOK, Discarded, IInv, TypeOK, Loop, At
  <2>2. CASE t = "event" /\ ~Discarded
    <3>1. events' = <<>> /\ pc'["event"] = "recv"
      BY <1>1, <2>2 DEF IInv, TypeOK, EventsOK, HandlerOK, Loop
    <3> QED
      BY <3>1 DEF EventsOK, QueueOK, HandlerOK
  <2>3. CASE t = "event" /\ Discarded
    BY <2>3 DEF EventsOK, Discarded, IInv, TypeOK, Loop, At
  <2> QED
    BY <2>1, <2>2, <2>3
<1>5. NoLeakedLink'
  <2>1. \A l, m \in Link : Open(l)' /\ Open(m)' => Open(l) /\ Open(m) /\ l = m
    BY <1>1 DEF IInv, NoLeakedLink, Open
  <2>2. ASSUME NEW l \in Link, Open(l)'
        PROVE  Discarded'
    <3>1. CASE t = "link" \/ Discarded
      BY <3>1 DEF IInv, TypeOK, Discarded, Loop
    <3>2. CASE t = "event" /\ ~Discarded
      <4>1. l = dataLink
        BY <2>1, <2>2, <3>2 DEF IInv, NoLeakedLink
      <4>2. status[dataLink] = "closed"
        BY <3>2, <4>1, ConstantsAssumption DEF IInv, EventsOK, HandlerOK, EventOK
      <4> QED
        BY <1>1, <2>2, <3>2, <4>1, <4>2 DEF Open
    <3> QED
      BY <3>1, <3>2
  <2> QED
    BY <2>1, <2>2 DEF NoLeakedLink
<1>6. PendingLinkTimed' /\ AnswersOnOwnLink'
  BY DEF IInv, PendingLinkTimed, AnswersOnOwnLink, eventLoopVars
<1> QED
  BY <1>2, <1>3, <1>4, <1>5, <1>6 DEF IInv

(* check_status never gets here while it holds the guard.  An Activated      *)
(* event is about a link that is no longer pending.                          *)
LEMMA ClearTimerOK ==
    ASSUME NEW t \in {"link", "event"}, IInv, ClearTimer(t)
    PROVE  IInv'
<1> USE DEF ClearTimer, At, Goto, TimerFree
<1>1. /\ t = "event"
      /\ pc' = [pc EXCEPT !["event"] = "recv"]
      /\ dlHeld' = dlHeld /\ tsHeld' = tsHeld
  BY DEF IInv, GuardsOK
<1>2. TypeOK'
  BY <1>1 DEF IInv, TypeOK, netVars, eventLoopVars, portVars, Loop
<1>3. PlacesOK' /\ GuardsOK'
  BY <1>1 DEF IInv, TypeOK, PlacesOK, GuardsOK, Loop
<1>4. EventsOK'
  <2>1. QueueOK(events, dataLink, status, nonceSent)
           => QueueOK(events', dataLink', status', nonceSent')
    BY DEF netVars
  <2>2. HandlerOK' /\ (Discarded => Discarded')
    BY <1>1 DEF IInv, TypeOK, HandlerOK, Discarded, Loop, At
  <2> QED
    BY <2>1, <2>2 DEF IInv, EventsOK
<1>5. NoLeakedLink' /\ AnswersOnOwnLink'
  BY <1>1 DEF IInv, TypeOK, NoLeakedLink, Open, Discarded, AnswersOnOwnLink, netVars,
              eventLoopVars, Loop
<1>6. PendingLinkTimed'
  <2>1. Discarded \/ (current = dataLink /\ status[current] # "pending")
    BY <1>1 DEF IInv, EventsOK, HandlerOK, EventOK
  <2> QED
    BY <2>1 DEF IInv, GuardsOK, Discarded, PendingLinkTimed, netVars, At
<1> QED
  BY <1>2, <1>3, <1>4, <1>5, <1>6 DEF IInv

(* Without a data link no link is open, and no event waits.                  *)
LEMMA ConnectOK == IInv /\ Connect => IInv'
<1> SUFFICES ASSUME IInv, Connect PROVE IInv'
  OBVIOUS
<1> USE DEF Connect, RequestGuard, At, Goto
<1>1. CASE ~(NeedsLink /\ Unused # {})
  <2> USE <1>1
  <2>1. TypeOK'
    BY DEF IInv, TypeOK, linkLoopVars, netVars, eventLoopVars, portVars, Loop
  <2>2. PlacesOK' /\ GuardsOK'
    BY DEF IInv, TypeOK, PlacesOK, GuardsOK, Loop, linkLoopVars
  <2>3. EventsOK' /\ NoLeakedLink' /\ PendingLinkTimed' /\ AnswersOnOwnLink'
    BY CalmOK DEF IInv, TypeOK, Loop, Calm, linkLoopVars, netVars
  <2> QED
    BY <2>1, <2>2, <2>3 DEF IInv
<1>2. CASE NeedsLink /\ Unused # {}
  <2>1. PICK l \in Unused :
           /\ dataLink' = l
           /\ status' = [status EXCEPT ![l] = "pending"]
           /\ dlHeld' = "link"
           /\ pc' = [pc EXCEPT !["link"] = "stamp"]
    BY <1>2
  <2>2. l \in Link /\ status[l] = "unused" /\ dataLink = NoLink
    BY <1>2 DEF NeedsLink, Unused
  <2>3. TypeOK'
    BY <2>1, <2>2 DEF IInv, TypeOK, linkLoopVars, eventLoopVars, portVars, Loop
  <2>4. PlacesOK' /\ GuardsOK'
    BY <2>1 DEF IInv, TypeOK, PlacesOK, GuardsOK, Loop, linkLoopVars
  <2>5. EventsOK'
    <3>1. events = <<>> /\ pc["event"] = "recv"
      <4>1. QueueOK(events, dataLink, status, nonceSent) /\ HandlerOK
        BY DEF IInv, EventsOK, Discarded, At
      <4>2. events \in Seq(LinkEvent) /\ current \in Link \cup {NoLink}
        BY DEF IInv, TypeOK, LinkEvent
      <4>3. \A i \in 1..Len(events) : events[i].link = NoLink /\ events[i].link \in Link
        BY <2>2, <4>1, <4>2, EventType DEF QueueOK, EventOK
      <4>4. events = <<>>
        BY <4>2, <4>3, ConstantsAssumption
      <4>5. pc["event"] = "recv"
        BY <2>2, <4>1, ConstantsAssumption DEF HandlerOK, EventOK
      <4> QED
        BY <4>4, <4>5
    <3> QED
      BY <2>1, <3>1 DEF IInv, TypeOK, EventsOK, QueueOK, HandlerOK, Loop
  <2>6. NoLeakedLink'
    BY <2>1, <2>2, ConstantsAssumption DEF IInv, TypeOK, NoLeakedLink, Open, Discarded, At
  <2>7. PendingLinkTimed' /\ AnswersOnOwnLink'
    BY <2>1 DEF IInv, TypeOK, PendingLinkTimed, AnswersOnOwnLink, eventLoopVars, Loop
  <2> QED
    BY <2>3, <2>4, <2>5, <2>6, <2>7 DEF IInv
<1> QED
  BY <1>1, <1>2

(* The request time is noted for a link that is pending or more.             *)
LEMMA StampOK == IInv /\ Stamp => IInv'
<1> SUFFICES ASSUME IInv, Stamp PROVE IInv'
  OBVIOUS
<1> USE DEF Stamp, Timestamp, At, Goto
<1>1. TypeOK'
  BY DEF IInv, TypeOK, netVars, eventLoopVars, portVars, Loop
<1>2. PlacesOK' /\ GuardsOK'
  BY DEF IInv, TypeOK, PlacesOK, GuardsOK, Loop
<1>3. EventsOK'
  <2>1. QueueOK(events, dataLink, status, nonceSent)
           => QueueOK(events', dataLink', status', nonceSent')
    BY DEF netVars
  <2>2. HandlerOK => HandlerOK'
    BY DEF IInv, TypeOK, HandlerOK, netVars, eventLoopVars, Loop
  <2> QED
    BY <2>1, <2>2 DEF IInv, EventsOK, Discarded, At
<1>4. NoLeakedLink' /\ AnswersOnOwnLink'
  BY DEF IInv, NoLeakedLink, AnswersOnOwnLink, netVars, eventLoopVars, Open, Discarded, At
<1>5. PendingLinkTimed'
  BY DEF PendingLinkTimed
<1> QED
  BY <1>1, <1>2, <1>3, <1>4, <1>5 DEF IInv

(* The event taken off the channel is about the data link.                   *)
LEMMA RecvEventOK == IInv /\ RecvEvent => IInv'
<1> SUFFICES ASSUME IInv, RecvEvent PROVE IInv'
  OBVIOUS
<1> USE DEF RecvEvent, At, Goto
<1> DEFINE e == Head(events)
<1>1. /\ events \in Seq(LinkEvent)
      /\ events # <<>>
      /\ Len(events) <= EventCap
  BY DEF IInv, TypeOK, LinkEvent
<1>2. /\ events' \in Seq(LinkEvent)
      /\ Len(events') <= EventCap
      /\ e \in LinkEvent
  BY <1>1, TailType
<1>3. PICK place \in Handlers[e.kind] : pc' = [pc EXCEPT !["event"] = place]
  OBVIOUS
<1>4. /\ place \in {"recv", "reply", "take", "assert", "clear"}
      /\ place = "reply" => e.kind = "Nonce"
      /\ place = "take" => e.kind = "Closed"
      /\ e.link \in Link
      /\ current' = e.link
  <2>1. e.kind \in {"Data", "Nonce", "Activated", "Closed"} /\ e.link \in Link
    BY <1>2 DEF LinkEvent
  <2> HIDE DEF e
  <2>2. current' = e.link
    BY DEF e
  <2> QED
    BY <1>3, <2>1, <2>2 DEF Handlers
<1> HIDE DEF e
<1>5. TypeOK'
  BY <1>2, <1>3, <1>4 DEF IInv, TypeOK, LinkEvent, linkLoopVars, portVars, Loop
<1>6. PlacesOK' /\ GuardsOK'
  BY <1>3, <1>4 DEF IInv, TypeOK, PlacesOK, GuardsOK, Loop, linkLoopVars
<1>7. EventsOK'
  <2>1. CASE Discarded
    BY <1>3, <2>1 DEF EventsOK, Discarded, IInv, TypeOK, Loop, At
  <2>2. CASE ~Discarded
    <3>1. /\ EventOK(e.kind, e.link, dataLink, status, nonceSent)
          /\ QueueOK(events', dataLink, status, nonceSent)
          /\ e.kind = "Closed" => events' = <<>>
      BY <1>1, <2>2, QueueTail DEF IInv, EventsOK, e
    <3>2. HandlerOK'
      BY <1>3, <1>4, <3>1 DEF HandlerOK, EventOK, IInv, TypeOK, Loop
    <3> QED
      BY <3>1, <3>2 DEF EventsOK
  <2> QED
    BY <2>1, <2>2
<1>8. NoLeakedLink' /\ AnswersOnOwnLink'
  BY DEF IInv, NoLeakedLink, AnswersOnOwnLink, Open, Discarded, At
<1>9. PendingLinkTimed'
  BY <1>3 DEF IInv, TypeOK, PendingLinkTimed, linkLoopVars, Loop
<1> QED
  BY <1>5, <1>6, <1>7, <1>8, <1>9 DEF IInv

(* The data link of the moment, if there is one, is the link of the nonce.   *)
LEMMA ReplyOnOwnLink ==
    ASSUME IInv, Reply, dataLink # NoLink
    PROVE  current = dataLink /\ current \in Link /\ current \in nonceSent
<1>1. ~Discarded
  BY DEF IInv, GuardsOK, Discarded, At
<1> QED
  BY <1>1 DEF Reply, At, IInv, EventsOK, HandlerOK, EventOK

(* A nonce is answered on the data link, which brought it.                   *)
LEMMA ReplyOK == IInv /\ Reply => IInv'
<1> SUFFICES ASSUME IInv, Reply PROVE IInv'
  OBVIOUS
<1> USE DEF Reply, At, Goto
<1>1. answers' = IF dataLink = NoLink THEN answers
                 ELSE answers \cup {<<dataLink, dataLink>>}
  <2>1. CASE dataLink = NoLink
    BY <2>1
  <2>2. CASE dataLink # NoLink
    BY <2>2, ReplyOnOwnLink
  <2> QED
    BY <2>1, <2>2
<1>2. TypeOK'
  BY <1>1 DEF IInv, TypeOK, linkLoopVars, netVars, portVars, Loop
<1>3. PlacesOK' /\ GuardsOK'
  BY DEF IInv, TypeOK, PlacesOK, GuardsOK, Loop, linkLoopVars
<1>4. EventsOK'
  <2>1. QueueOK(events, dataLink, status, nonceSent)
           => QueueOK(events', dataLink', status', nonceSent')
    BY DEF netVars
  <2>2. HandlerOK' /\ (Discarded => Discarded')
    BY DEF IInv, TypeOK, HandlerOK, Discarded, Loop, At
  <2> QED
    BY <2>1, <2>2 DEF IInv, EventsOK
<1>5. NoLeakedLink' /\ PendingLinkTimed'
  BY DEF IInv, TypeOK, NoLeakedLink, PendingLinkTimed, netVars, linkLoopVars, Loop, Open, Discarded, At
<1>6. AnswersOnOwnLink'
  BY <1>1 DEF IInv, AnswersOnOwnLink
<1> QED
  BY <1>2, <1>3, <1>4, <1>5, <1>6 DEF IInv

(* The data link is there for its Activated event, or the process ends.      *)
LEMMA AssertLinkOK == IInv /\ AssertLink => IInv'
<1> SUFFICES ASSUME IInv, AssertLink, ~ResetProcess PROVE IInv'
  BY ResetOK
<1> USE DEF AssertLink, At, Goto
<1>1. TypeOK'
  BY DEF IInv, TypeOK, linkLoopVars, netVars, eventLoopVars, portVars, Loop
<1>2. PlacesOK' /\ GuardsOK'
  BY DEF IInv, TypeOK, PlacesOK, GuardsOK, Loop, linkLoopVars
<1>3. EventsOK'
  <2>1. QueueOK(events, dataLink, status, nonceSent)
           => QueueOK(events', dataLink', status', nonceSent')
    BY DEF netVars
  <2>2. (HandlerOK => HandlerOK') /\ (Discarded => Discarded')
    BY DEF IInv, TypeOK, HandlerOK, Discarded, netVars, eventLoopVars, Loop, At
  <2> QED
    BY <2>1, <2>2 DEF IInv, EventsOK
<1>4. NoLeakedLink' /\ PendingLinkTimed' /\ AnswersOnOwnLink'
  BY DEF IInv, TypeOK, NoLeakedLink, PendingLinkTimed, AnswersOnOwnLink, linkLoopVars,
         netVars, eventLoopVars, Loop, Open, Discarded, At
<1> QED
  BY <1>1, <1>2, <1>3, <1>4 DEF IInv

(* The serial loop touches none of the links.                                *)
LEMMA PortReadOK == IInv /\ PortRead => IInv'
<1> SUFFICES ASSUME IInv, PortRead, ~ResetProcess PROVE IInv'
  BY ResetOK
<1> USE DEF PortRead, ReadData, ReadNothing, LastZeroRead, CountZeroRead, At, Goto
<1>1. TypeOK'
  BY ConstantsAssumption
  DEF IInv, TypeOK, linkLoopVars, netVars, eventLoopVars, portVars, Loop
<1>2. PlacesOK' /\ GuardsOK'
  BY DEF IInv, TypeOK, PlacesOK, GuardsOK, Loop, linkLoopVars
<1>3. EventsOK' /\ NoLeakedLink' /\ PendingLinkTimed' /\ AnswersOnOwnLink'
  BY CalmOK DEF IInv, TypeOK, Loop, Calm, linkLoopVars
<1> QED
  BY <1>1, <1>2, <1>3 DEF IInv

(* A read is sent with the guard of data_link held, or dropped.              *)
LEMMA ForwardOK == IInv /\ Forward => IInv'
<1> SUFFICES ASSUME IInv, Forward PROVE IInv'
  OBVIOUS
<1> USE DEF Forward, PortGuard, At, Goto
<1>1. TypeOK'
  BY ConstantsAssumption
  DEF IInv, TypeOK, linkLoopVars, netVars, eventLoopVars, Loop
<1>2. PlacesOK' /\ GuardsOK'
  BY DEF IInv, TypeOK, PlacesOK, GuardsOK, Loop, linkLoopVars
<1>3. EventsOK' /\ NoLeakedLink' /\ PendingLinkTimed' /\ AnswersOnOwnLink'
  BY CalmOK DEF IInv, TypeOK, Loop, Calm, linkLoopVars
<1> QED
  BY <1>1, <1>2, <1>3 DEF IInv

(* The guard is released with the last chunk.                                *)
LEMMA SendChunkOK == IInv /\ SendChunk => IInv'
<1> SUFFICES ASSUME IInv, SendChunk PROVE IInv'
  OBVIOUS
<1> USE DEF SendChunk, AfterLastChunk, At, Goto
<1>1. TypeOK'
  BY ConstantsAssumption
  DEF IInv, TypeOK, linkLoopVars, netVars, eventLoopVars, Loop
<1>2. PlacesOK' /\ GuardsOK'
  BY DEF IInv, TypeOK, PlacesOK, GuardsOK, Loop, linkLoopVars
<1>3. EventsOK' /\ NoLeakedLink' /\ PendingLinkTimed' /\ AnswersOnOwnLink'
  BY CalmOK DEF IInv, TypeOK, Loop, Calm, linkLoopVars
<1> QED
  BY <1>1, <1>2, <1>3 DEF IInv

(* A step of the network about an open link.  If check_status has discarded  *)
(* it, nothing is promised of the events; otherwise it is the data link, no  *)
(* Closed event waits, and the event of the step may wait with the others.   *)
LEMMA NetStepOK ==
    ASSUME IInv, NetStep, NEW l \in Link, NEW kind,
           Event(kind, l) \in LinkEvent,
           status[l] \in {"pending", "active"},
           status' \in StatusType,
           \A m \in Link : m # l => status'[m] = status[m],
           status'[l] \in {"active", "closed"},
           kind = "Closed" => status'[l] = "closed",
           nonceSent \subseteq nonceSent', nonceSent' \subseteq Link,
           kind = "Nonce" => l \in nonceSent',
           events' = Broadcast(events, Event(kind, l))
    PROVE  IInv'
<1> DEFINE e == Event(kind, l)
<1>1. e.kind = kind /\ e.link = l
  BY DEF Event
<1> HIDE DEF e
<1>2. /\ ~Discarded => dataLink = l /\ dataLink # NoLink
      /\ Discarded => dataLink = NoLink
      /\ \A m \in Link : Open(m) => m = l
  BY ConstantsAssumption DEF IInv, NoLeakedLink, Open, GuardsOK, Discarded, At
<1>3. events \in Seq(LinkEvent) /\ Len(events) <= EventCap
  BY DEF IInv, TypeOK, LinkEvent
<1>4. /\ events' \in Seq(LinkEvent)
      /\ Len(events') <= EventCap
  BY <1>3, BroadcastShape
<1>5. TypeOK'
  BY <1>4 DEF IInv, TypeOK, LinkEvent, StatusType, NetStep, linkLoopVars,
              eventLoopVars, portVars, Loop
<1>6. PlacesOK' /\ GuardsOK'
  BY DEF IInv, TypeOK, PlacesOK, GuardsOK, NetStep, linkLoopVars, At
<1>7. CASE Discarded
  <2>1. EventsOK' /\ PendingLinkTimed'
    BY <1>7 DEF EventsOK, Discarded, At, IInv, GuardsOK, PendingLinkTimed, NetStep
  <2>2. \A m \in Link : Open(m)' => m = l
    BY <1>2 DEF Open
  <2> QED
    BY <1>5, <1>6, <1>7, <2>1, <2>2
    DEF IInv, NoLeakedLink, Discarded, At, AnswersOnOwnLink, NetStep, eventLoopVars
<1>8. CASE ~Discarded
  <2> USE <1>8
  <2>1. QueueOK(events, dataLink, status, nonceSent) /\ HandlerOK
    BY DEF IInv, EventsOK
  <2>2. \A i \in 1..Len(events) : events[i].kind # "Closed"
    BY <1>2, <2>1 DEF QueueOK, EventOK
  <2>3. QueueOK(events, dataLink, status', nonceSent')
    BY <1>2, <2>1, <2>2 DEF QueueOK, EventOK
  <2>4. EventOK(e.kind, e.link, dataLink, status', nonceSent')
    BY <1>1, <1>2 DEF EventOK
  <2>5. QueueOK(events', dataLink, status', nonceSent')
    <3>1. e \in LinkEvent /\ events' = Broadcast(events, e)
      BY DEF e
    <3> QED
      BY <1>3, <2>2, <2>3, <2>4, <3>1, QueueBroadcast
  <2>6. HandlerOK'
    BY <1>2, <2>1 DEF HandlerOK, EventOK, NetStep, eventLoopVars, At
  <2>7. EventsOK'
    BY <2>5, <2>6 DEF EventsOK, NetStep
  <2>8. NoLeakedLink'
    BY <1>2 DEF NoLeakedLink, Open, NetStep
  <2>9. PendingLinkTimed' /\ AnswersOnOwnLink'
    BY <1>2 DEF IInv, PendingLinkTimed, AnswersOnOwnLink, NetStep, linkLoopVars,
                eventLoopVars, At
  <2> QED
    BY <1>5, <1>6, <2>7, <2>8, <2>9 DEF IInv
<1> QED
  BY <1>7, <1>8

(* The pending link is the data link, and becomes active.                    *)
LEMMA LinkActivatesOK == ASSUME NEW l \in Link, IInv, LinkActivates(l) PROVE IInv'
<1>1. status' \in StatusType
  BY DEF LinkActivates, IInv, TypeOK, StatusType
<1>2. Event("Activated", l) \in LinkEvent
  BY DEF Event, LinkEvent
<1>3. /\ status[l] \in {"pending", "active"} /\ status'[l] \in {"active", "closed"}
      /\ "Activated" = "Closed" => status'[l] = "closed"
      /\ \A m \in Link : m # l => status'[m] = status[m]
  BY DEF LinkActivates, IInv, TypeOK
<1>4. /\ nonceSent \subseteq nonceSent' /\ nonceSent' \subseteq Link
      /\ "Activated" = "Nonce" => l \in nonceSent'
  BY DEF LinkActivates, IInv, TypeOK
<1>5. NetStep /\ events' = Broadcast(events, Event("Activated", l))
  BY DEF LinkActivates
<1> QED
  BY <1>1, <1>2, <1>3, <1>4, <1>5, NetStepOK

(* A link that closes is the data link, and its Closed event comes last.     *)
LEMMA LinkClosesOK == ASSUME NEW l \in Link, IInv, LinkCloses(l) PROVE IInv'
<1>1. status' \in StatusType
  BY DEF LinkCloses, IInv, TypeOK, StatusType
<1>2. Event("Closed", l) \in LinkEvent
  BY DEF Event, LinkEvent
<1>3. /\ status[l] \in {"pending", "active"} /\ status'[l] \in {"active", "closed"}
      /\ "Closed" = "Closed" => status'[l] = "closed"
      /\ \A m \in Link : m # l => status'[m] = status[m]
  BY DEF LinkCloses, IInv, TypeOK
<1>4. /\ nonceSent \subseteq nonceSent' /\ nonceSent' \subseteq Link
      /\ "Closed" = "Nonce" => l \in nonceSent'
  BY DEF LinkCloses, IInv, TypeOK
<1>5. NetStep /\ events' = Broadcast(events, Event("Closed", l))
  BY DEF LinkCloses
<1> QED
  BY <1>1, <1>2, <1>3, <1>4, <1>5, NetStepOK

(* A nonce arrives on the data link.                                         *)
LEMMA GcSendsNonceOK == ASSUME NEW l \in Link, IInv, GcSendsNonce(l) PROVE IInv'
<1>1. status' \in StatusType
  BY DEF GcSendsNonce, IInv, TypeOK, StatusType
<1>2. Event("Nonce", l) \in LinkEvent
  BY DEF Event, LinkEvent
<1>3. /\ status[l] \in {"pending", "active"} /\ status'[l] \in {"active", "closed"}
      /\ "Nonce" = "Closed" => status'[l] = "closed"
      /\ \A m \in Link : m # l => status'[m] = status[m]
  BY DEF GcSendsNonce, IInv, TypeOK
<1>4. /\ nonceSent \subseteq nonceSent' /\ nonceSent' \subseteq Link
      /\ "Nonce" = "Nonce" => l \in nonceSent'
  BY DEF GcSendsNonce, IInv, TypeOK
<1>5. NetStep /\ events' = Broadcast(events, Event("Nonce", l))
  BY DEF GcSendsNonce
<1> QED
  BY <1>1, <1>2, <1>3, <1>4, <1>5, NetStepOK

(* Data arrives on the data link.                                            *)
LEMMA GcSendsDataOK == ASSUME NEW l \in Link, IInv, GcSendsData(l) PROVE IInv'
<1>1. status' \in StatusType
  BY DEF GcSendsData, IInv, TypeOK, StatusType
<1>2. Event("Data", l) \in LinkEvent
  BY DEF Event, LinkEvent
<1>3. /\ status[l] \in {"pending", "active"} /\ status'[l] \in {"active", "closed"}
      /\ "Data" = "Closed" => status'[l] = "closed"
      /\ \A m \in Link : m # l => status'[m] = status[m]
  BY DEF GcSendsData, IInv, TypeOK
<1>4. /\ nonceSent \subseteq nonceSent' /\ nonceSent' \subseteq Link
      /\ "Data" = "Nonce" => l \in nonceSent'
  BY DEF GcSendsData, IInv, TypeOK
<1>5. NetStep /\ events' = Broadcast(events, Event("Data", l))
  BY DEF GcSendsData
<1> QED
  BY <1>1, <1>2, <1>3, <1>4, <1>5, NetStepOK

(* A request grows old; it was noted.                                        *)
LEMMA RequestAgesOK == IInv /\ RequestAges => IInv'
<1> SUFFICES ASSUME IInv, RequestAges PROVE IInv'
  OBVIOUS
<1> USE DEF RequestAges
<1>1. TypeOK'
  BY DEF IInv, TypeOK, netVars, eventLoopVars, portVars, Loop
<1>2. PlacesOK' /\ GuardsOK'
  BY DEF IInv, PlacesOK, GuardsOK, At
<1>3. EventsOK'
  <2>1. QueueOK(events, dataLink, status, nonceSent)
           => QueueOK(events', dataLink', status', nonceSent')
    BY DEF netVars
  <2>2. (HandlerOK => HandlerOK') /\ (Discarded => Discarded')
    BY DEF HandlerOK, Discarded, netVars, eventLoopVars, At
  <2> QED
    BY <2>1, <2>2 DEF IInv, EventsOK
<1>4. NoLeakedLink' /\ PendingLinkTimed' /\ AnswersOnOwnLink'
  BY DEF IInv, NoLeakedLink, PendingLinkTimed, AnswersOnOwnLink, netVars, eventLoopVars, Open, Discarded, At
<1> QED
  BY <1>1, <1>2, <1>3, <1>4 DEF IInv

(* The serial device goes away.                                              *)
LEMMA UnplugOK == IInv /\ Unplug => IInv'
<1> SUFFICES ASSUME IInv, Unplug PROVE IInv'
  OBVIOUS
<1> USE DEF Unplug
<1>1. TypeOK'
  BY DEF IInv, TypeOK, linkLoopVars, netVars, eventLoopVars, Loop
<1>2. PlacesOK' /\ GuardsOK'
  BY DEF IInv, PlacesOK, GuardsOK, linkLoopVars, At
<1>3. EventsOK' /\ NoLeakedLink' /\ PendingLinkTimed' /\ AnswersOnOwnLink'
  BY CalmOK DEF Calm, linkLoopVars
<1> QED
  BY <1>1, <1>2, <1>3 DEF IInv

(* Every step keeps the invariant.                                           *)
LEMMA NextOK == IInv /\ [Next]_vars => IInv'
<1> SUFFICES ASSUME IInv, [Next]_vars PROVE IInv'
  OBVIOUS
<1>1. CASE UNCHANGED vars
  <2> USE <1>1 DEF vars
  <2>1. TypeOK'
    BY DEF IInv, TypeOK, linkLoopVars, netVars, eventLoopVars, portVars, Loop
  <2>2. PlacesOK' /\ GuardsOK'
    BY DEF IInv, PlacesOK, GuardsOK, linkLoopVars, At
  <2>3. EventsOK' /\ NoLeakedLink' /\ PendingLinkTimed' /\ AnswersOnOwnLink'
    BY CalmOK DEF Calm, linkLoopVars
  <2> QED
    BY <2>1, <2>2, <2>3 DEF IInv
<1>2. CASE Next
  <2>1. CASE RecvAnnounce \/ CheckLink \/ CheckTimer \/ Connect \/ Stamp
    BY <2>1, RecvAnnounceOK, CheckLinkOK, CheckTimerOK, ConnectOK, StampOK
  <2>2. CASE RecvEvent \/ Reply \/ AssertLink
    BY <2>2, RecvEventOK, ReplyOK, AssertLinkOK
  <2>3. CASE \E t \in {"link", "event"} : TakeLink(t) \/ ClearTimer(t)
    BY <2>3, TakeLinkOK, ClearTimerOK
  <2>4. CASE PortRead \/ Forward \/ SendChunk
    BY <2>4, PortReadOK, ForwardOK, SendChunkOK
  <2>5. CASE \E l \in Link : \/ LinkActivates(l) \/ LinkCloses(l)
                            \/ GcSendsNonce(l) \/ GcSendsData(l)
    BY <2>5, LinkActivatesOK, LinkClosesOK, GcSendsNonceOK, GcSendsDataOK
  <2>6. CASE RequestAges \/ Unplug \/ Restart
    BY <2>6, RequestAgesOK, UnplugOK, ResetOK DEF Restart
  <2> QED
    BY <1>2, <2>1, <2>2, <2>3, <2>4, <2>5, <2>6 DEF Next
<1> QED
  BY <1>1, <1>2

(* The invariant holds in every state.                                       *)
LEMMA Inductive == Spec => []IInv
  BY InitOK, NextOK, PTL DEF Spec

-----------------------------------------------------------------------------
(* The assertions on an Activated event.  Of one data link there is never    *)
(* more than one such event, waiting or being handled, and until it is       *)
(* handled the request time is noted, or is about to be under the guard of   *)
(* data_link, for which the assertions wait.                                 *)

ActivatedWaits == \E i \in 1..Len(events) : events[i].kind = "Activated"
Handling == At("event", "assert") \/ At("event", "clear")

OneActivated(q) ==
    \A i, j \in 1..Len(q) : q[i].kind = "Activated" /\ q[j].kind = "Activated" => i = j

TimeNoted ==
    /\ status[dataLink] # "pending"
    /\ request # "none" \/ At("link", "stamp")

ActivatedOK ==
    \/ Discarded
    \/ /\ OneActivated(events)
       /\ ~(ActivatedWaits /\ Handling)
       /\ ActivatedWaits \/ Handling => TimeNoted

(* No event waits and none is being handled.                                 *)
LEMMA NoneActivated ==
    ASSUME events = <<>>, At("event", "recv") \/ At("event", "reply") \/ At("event", "take")
    PROVE  ActivatedOK
BY DEF ActivatedOK, OneActivated, ActivatedWaits, Handling, At

(* A step that neither touches the events nor begins to handle one, and      *)
(* leaves the link and its time alone.                                       *)
LEMMA ActivatedFrame ==
    ASSUME ActivatedOK, events' = events, dataLink' = dataLink, status' = status,
           Handling' => Handling,
           Discarded => Discarded',
           TimeNoted => TimeNoted' \/ ~(ActivatedWaits \/ Handling')
    PROVE  ActivatedOK'
BY DEF ActivatedOK, ActivatedWaits

(* Broadcasting an event leaves one Activated event at most, when it is not  *)
(* one or none waited.                                                       *)
LEMMA ActivatedBroadcast ==
    ASSUME NEW q \in Seq(LinkEvent), Len(q) <= EventCap, NEW e \in LinkEvent,
           OneActivated(q),
           \/ e.kind # "Activated"
           \/ \A i \in 1..Len(q) : q[i].kind # "Activated"
    PROVE  /\ OneActivated(Broadcast(q, e))
           /\ \A i \in 1..Len(Broadcast(q, e)) :
                 Broadcast(q, e)[i].kind = "Activated" =>
                    e.kind = "Activated" \/ \E j \in 1..Len(q) : q[j].kind = "Activated"
<1>1. CASE Len(q) < EventCap
  <2> DEFINE r == Broadcast(q, e)
  <2>1. /\ Len(r) = Len(q) + 1 /\ Len(q) \in Nat
        /\ \A i \in 1..Len(q) : r[i] = q[i]
        /\ r[Len(q) + 1] = e
    BY <1>1 DEF Broadcast
  <2> HIDE DEF r
  <2>2. \A i \in 1..Len(r) : i \in 1..Len(q) \/ i = Len(q) + 1
    BY <2>1
  <2>3. OneActivated(r)
    BY <2>1, <2>2 DEF OneActivated
  <2> QED
    BY <2>1, <2>2, <2>3 DEF r
<1>2. CASE ~(Len(q) < EventCap)
  <2> DEFINE u == Tail(q)  r == Append(u, e)
  <2>1. Len(q) = EventCap /\ q # <<>> /\ Broadcast(q, e) = r
    BY <1>2, ConstantsAssumption DEF Broadcast
  <2>2. /\ u \in Seq(LinkEvent) /\ Len(u) = Len(q) - 1 /\ Len(q) \in Nat
        /\ \A i \in 1..Len(u) : u[i] = q[i + 1] /\ i + 1 \in 1..Len(q)
    BY <2>1, TailType
  <2> HIDE DEF u
  <2>3. /\ Len(r) = Len(q)
        /\ \A i \in 1..Len(u) : r[i] = q[i + 1] /\ i + 1 \in 1..Len(q)
        /\ r[Len(q)] = e
    BY <2>1, <2>2, ConstantsAssumption
  <2> HIDE DEF r
  <2>4. \A i \in 1..Len(r) : i \in 1..Len(u) \/ i = Len(q)
    BY <2>2, <2>3
  <2>5. \A i, j \in 1..Len(u) : i + 1 = j + 1 => i = j
    BY <2>2
  <2>6. OneActivated(r)
    BY <2>3, <2>4, <2>5 DEF OneActivated
  <2>7. \A i \in 1..Len(r) : r[i].kind = "Activated" =>
           e.kind = "Activated" \/ \E j \in 1..Len(q) : q[j].kind = "Activated"
    BY <2>3, <2>4
  <2> QED
    BY <2>1, <2>6, <2>7
<1> QED
  BY <1>1, <1>2

(* A step of the network: the link is the data link, and only an activation, *)
(* of a link that is pending, adds an Activated event.                       *)
LEMMA NetActivated ==
    ASSUME IInv, ActivatedOK, NetStep, NEW l \in Link, NEW kind,
           Event(kind, l) \in LinkEvent,
           status[l] \in {"pending", "active"},
           status'[l] = status[l] \/ status'[l] \in {"active", "closed"},
           kind = "Activated" => status[l] = "pending" /\ status'[l] = "active",
           events' = Broadcast(events, Event(kind, l))
    PROVE  ActivatedOK'
<1> DEFINE e == Event(kind, l)
<1> SUFFICES ASSUME ~Discarded PROVE ActivatedOK'
  BY DEF ActivatedOK, Discarded, At, NetStep
<1>1. /\ dataLink = l /\ dataLink' = l
      /\ e.kind = kind /\ request' = request /\ pc' = pc
  BY ConstantsAssumption DEF IInv, NoLeakedLink, Open, NetStep, linkLoopVars, Event
<1>2. events \in Seq(LinkEvent) /\ Len(events) <= EventCap
  BY DEF IInv, TypeOK, LinkEvent
<1>3. /\ OneActivated(events) /\ ~(ActivatedWaits /\ Handling)
      /\ ActivatedWaits \/ Handling => TimeNoted
  BY <1>1 DEF ActivatedOK
<1>4. kind = "Activated" => ~ActivatedWaits /\ ~Handling
  BY <1>1, <1>3 DEF TimeNoted
<1> HIDE DEF e
<1>5. /\ OneActivated(events')
      /\ ActivatedWaits' => kind = "Activated" \/ ActivatedWaits
  <2>1. e \in LinkEvent /\ events' = Broadcast(events, e)
    BY DEF e
  <2>2. e.kind # "Activated" \/ \A i \in 1..Len(events) : events[i].kind # "Activated"
    BY <1>1, <1>4 DEF ActivatedWaits
  <2> QED
    BY <1>1, <1>2, <1>3, <2>1, <2>2, ActivatedBroadcast DEF ActivatedWaits
<1>6. Handling' <=> Handling
  BY <1>1 DEF Handling, At
<1>7. CASE kind = "Activated"
  <2>1. status[dataLink] = "pending" /\ status'[dataLink'] = "active"
    BY <1>1, <1>7
  <2>2. TimeNoted'
    BY <1>1, <2>1, ConstantsAssumption DEF IInv, PendingLinkTimed, TimeNoted, At
  <2> QED
    BY <1>4, <1>5, <1>6, <1>7, <2>2 DEF ActivatedOK
<1>8. CASE kind # "Activated"
  <2>1. TimeNoted => TimeNoted'
    BY <1>1 DEF TimeNoted, At
  <2> QED
    BY <1>3, <1>5, <1>6, <1>8, <2>1 DEF ActivatedOK
<1> QED
  BY <1>7, <1>8

(* Every step keeps it.                                                      *)
LEMMA ActivatedNext == IInv /\ ActivatedOK /\ [Next]_vars => ActivatedOK'
<1> SUFFICES ASSUME IInv, ActivatedOK, [Next]_vars PROVE ActivatedOK'
  OBVIOUS
<1> USE DEF At, Goto
<1>1. CASE ResetProcess
  BY <1>1, NoneActivated
  DEF ResetProcess, ActivatedOK, OneActivated, ActivatedWaits, Handling, Loop
(* The loops that leave the link, its status and its time alone. *)
<1>2. CASE RecvAnnounce \/ CheckLink \/ CheckTimer \/ Forward \/ SendChunk
           \/ (PortRead /\ ~ResetProcess) \/ Reply \/ RequestAges \/ Unplug
           \/ UNCHANGED vars \/ (AssertLink /\ ~ResetProcess)
  <2>1. events' = events /\ dataLink' = dataLink /\ status' = status
    BY <1>2 DEF RecvAnnounce, CheckLink, CheckTimer, Forward, SendChunk, PortRead,
       ReadData, ReadNothing, Reply, RequestAges, Unplug, AssertLink, vars, netVars
  <2>2. (Handling' => Handling) /\ (Discarded => Discarded')
    BY <1>2 DEF IInv, TypeOK, Loop, Handling, Discarded, RecvAnnounce, CheckLink,
       CheckTimer, Forward, SendChunk, PortRead, ReadData, ReadNothing, Reply,
       RequestAges, Unplug, AssertLink, vars, At
  <2>3. TimeNoted => TimeNoted'
    <3>1. request' = request \/ request' = "elapsed"
      BY <1>2 DEF RecvAnnounce, CheckLink, CheckTimer, Forward, SendChunk, PortRead,
         ReadData, ReadNothing, Reply, RequestAges, Unplug, AssertLink, vars,
         linkLoopVars
    <3>2. pc["link"] = "stamp" => pc'["link"] = "stamp"
      BY <1>2 DEF IInv, TypeOK, Loop, RecvAnnounce, CheckLink, CheckTimer, Forward,
         SendChunk, PortRead, ReadData, ReadNothing, Reply, RequestAges, Unplug,
         AssertLink, vars
    <3> QED
      BY <2>1, <3>1, <3>2 DEF TimeNoted
  <2> QED
    BY <2>1, <2>2, <2>3, ActivatedFrame
<1>3. CASE Connect
  <2>1. CASE ~(NeedsLink /\ Unused # {})
    BY <1>3, <2>1, ActivatedFrame
    DEF Connect, IInv, TypeOK, Loop, Handling, Discarded, TimeNoted, linkLoopVars, At
  <2>2. CASE NeedsLink
    <3>1. events' = events /\ dataLink = NoLink /\ ~Discarded /\ pc'["event"] = pc["event"]
      BY <1>3, <2>2 DEF Connect, NeedsLink, Discarded, IInv, TypeOK, Loop, At
    <3>2. QueueOK(events, dataLink, status, nonceSent) /\ HandlerOK
      BY <3>1 DEF IInv, EventsOK
    <3>3. events \in Seq(LinkEvent) /\ current \in Link \cup {NoLink}
      BY DEF IInv, TypeOK, LinkEvent
    <3>4. \A i \in 1..Len(events) : FALSE
      BY <3>1, <3>2, <3>3, EventType, ConstantsAssumption DEF QueueOK, EventOK
    <3>5. pc["event"] = "recv"
      BY <3>1, <3>2, ConstantsAssumption DEF HandlerOK, EventOK
    <3>6. ~ActivatedWaits' /\ ~Handling' /\ OneActivated(events')
      BY <3>1, <3>4, <3>5 DEF ActivatedWaits, Handling, OneActivated
    <3> QED
      BY <3>6 DEF ActivatedOK
  <2> QED
    BY <2>1, <2>2
<1>4. CASE Stamp
  <2>1. request' # "none"
    BY <1>4 DEF Stamp, Timestamp
  <2>2. events' = events /\ dataLink' = dataLink /\ status' = status
    BY <1>4 DEF Stamp, netVars
  <2>3. (Handling' => Handling) /\ (Discarded => Discarded')
    BY <1>4 DEF Stamp, IInv, TypeOK, Loop, Handling, Discarded, At
  <2> QED
    BY <2>1, <2>2, <2>3, ActivatedFrame DEF TimeNoted
<1>5. CASE RecvEvent
  <2> DEFINE q == events  r == Tail(q)
  <2>1. /\ q \in Seq(LinkEvent) /\ q # <<>> /\ Len(q) <= EventCap /\ events' = r
        /\ request' = request /\ dataLink' = dataLink /\ status' = status
    BY <1>5 DEF RecvEvent, IInv, TypeOK, LinkEvent, linkLoopVars
  <2>2. /\ Len(r) = Len(q) - 1 /\ Len(r) \in Nat /\ Len(q) \in Nat
        /\ \A i \in 1..Len(r) : r[i] = q[i + 1] /\ i + 1 \in 1..Len(q) /\ i + 1 # 1
        /\ Head(q) = q[1] /\ 1 \in 1..Len(q) /\ Head(q) \in LinkEvent
    BY <2>1, TailType
  <2>3. /\ pc["event"] = "recv" /\ pc'["link"] = pc["link"]
        /\ \E place \in Handlers[Head(q).kind] : pc'["event"] = place
    BY <1>5 DEF RecvEvent, IInv, TypeOK, Loop
  <2> HIDE DEF q, r
  <2>4. Handling' => q[1].kind = "Activated"
    <3>1. Head(q).kind \in {"Data", "Nonce", "Activated", "Closed"}
      BY <2>2 DEF LinkEvent
    <3> QED
      BY <2>2, <2>3, <3>1 DEF Handlers, Handling
  <2>5. CASE Discarded
    BY <2>3, <2>5 DEF Discarded, ActivatedOK, At
  <2>6. CASE ~Discarded
    <3>1. /\ OneActivated(q)
          /\ (\E i \in 1..Len(q) : q[i].kind = "Activated") => TimeNoted
      BY <2>6 DEF ActivatedOK, ActivatedWaits, q
    <3>2. OneActivated(r)
      <4>1. \A i, j \in 1..Len(r) : i + 1 = j + 1 => i = j
        BY <2>2
      <4> QED
        BY <2>2, <3>1, <4>1 DEF OneActivated
    <3>3. q[1].kind = "Activated" => \A i \in 1..Len(r) : r[i].kind # "Activated"
      BY <2>2, <3>1 DEF OneActivated
    <3>4. TimeNoted => TimeNoted'
      BY <2>1, <2>3 DEF TimeNoted
    <3>5. ActivatedWaits' <=> \E i \in 1..Len(r) : r[i].kind = "Activated"
      BY <2>1 DEF ActivatedWaits
    <3>6. ActivatedWaits' \/ Handling' => TimeNoted'
      BY <2>2, <2>4, <3>1, <3>4, <3>5
    <3>7. ~(ActivatedWaits' /\ Handling')
      BY <2>4, <3>3, <3>5
    <3> QED
      BY <2>1, <3>2, <3>6, <3>7 DEF ActivatedOK
  <2> QED
    BY <2>5, <2>6
<1>6. CASE TakeLink("link")
  BY <1>6 DEF TakeLink, ActivatedOK, Discarded, IInv, TypeOK, Loop, At
<1>7. CASE TakeLink("event")
  <2>1. CASE Discarded
    BY <1>7, <2>1 DEF TakeLink, ActivatedOK, Discarded, IInv, TypeOK, Loop, At
  <2>2. CASE ~Discarded
    <3>1. events' = <<>> /\ pc'["event"] = "recv"
      BY <1>7, <2>2 DEF TakeLink, CloseTaken, IInv, TypeOK, EventsOK, HandlerOK, Loop
    <3> QED
      BY <3>1 DEF ActivatedOK, OneActivated, ActivatedWaits, Handling
  <2> QED
    BY <2>1, <2>2
<1>8. CASE ClearTimer("event")
  <2>1. /\ events' = events /\ dataLink' = dataLink /\ status' = status
        /\ Handling /\ ~Handling' /\ (Discarded => Discarded')
    BY <1>8 DEF ClearTimer, netVars, IInv, TypeOK, Loop, Handling, Discarded, At, TimerFree
  <2>2. Discarded \/ ~ActivatedWaits
    BY <2>1 DEF ActivatedOK
  <2> QED
    BY <2>1, <2>2, ActivatedFrame DEF ActivatedOK, ActivatedWaits
<1>9. CASE ClearTimer("link")
  BY <1>9 DEF ClearTimer, IInv, GuardsOK, TimerFree
<1>10. ASSUME NEW l \in Link, LinkActivates(l)
       PROVE  ActivatedOK'
  <2>1. /\ NetStep /\ Event("Activated", l) \in LinkEvent
        /\ status[l] = "pending" /\ status'[l] = "active"
        /\ events' = Broadcast(events, Event("Activated", l))
    BY <1>10 DEF LinkActivates, Event, LinkEvent, IInv, TypeOK
  <2> QED
    BY <2>1, NetActivated
<1>11. ASSUME NEW l \in Link, LinkCloses(l)
       PROVE  ActivatedOK'
  <2>1. /\ NetStep /\ Event("Closed", l) \in LinkEvent
        /\ status[l] \in {"pending", "active"} /\ status'[l] = "closed"
        /\ events' = Broadcast(events, Event("Closed", l))
    BY <1>11 DEF LinkCloses, Event, LinkEvent, IInv, TypeOK
  <2> QED
    BY <2>1, NetActivated
<1>12. ASSUME NEW l \in Link, GcSendsNonce(l)
       PROVE  ActivatedOK'
  <2>1. /\ NetStep /\ Event("Nonce", l) \in LinkEvent
        /\ status[l] \in {"pending", "active"} /\ status'[l] = status[l]
        /\ events' = Broadcast(events, Event("Nonce", l))
    BY <1>12 DEF GcSendsNonce, Event, LinkEvent
  <2> QED
    BY <2>1, NetActivated
<1>13. ASSUME NEW l \in Link, GcSendsData(l)
       PROVE  ActivatedOK'
  <2>1. /\ NetStep /\ Event("Data", l) \in LinkEvent
        /\ status[l] \in {"pending", "active"} /\ status'[l] = status[l]
        /\ events' = Broadcast(events, Event("Data", l))
    BY <1>13 DEF GcSendsData, Event, LinkEvent
  <2> QED
    BY <2>1, NetActivated
<1> QED
  BY <1>1, <1>2, <1>3, <1>4, <1>5, <1>6, <1>7, <1>8, <1>9, <1>10, <1>11, <1>12, <1>13
  DEF Next, Restart

-----------------------------------------------------------------------------
(* The theorems.                                                             *)

(* Every variable keeps its type, and the event channel its capacity.        *)
THEOREM TypeCorrect == Spec => []TypeOK
  BY Inductive, PTL DEF IInv

(* The process never has two links open, and the open one is held, or was    *)
(* just discarded and could not be closed: whatever the order of checks,     *)
(* events, losses and restarts.                                              *)
THEOREM NoLinkLeaked == Spec => []NoLeakedLink
  BY Inductive, PTL DEF IInv

(* A link that is still only requested has its time noted: a late Activated  *)
(* event of an earlier link never clears it.                                 *)
THEOREM RequestsTimed == Spec => []PendingLinkTimed
  BY Inductive, PTL DEF IInv

(* A nonce is answered on the link that brought it, or not at all.           *)
THEOREM AnsweredOnOwnLink == Spec => []AnswersOnOwnLink
  BY Inductive, PTL DEF IInv

(* The assertions of the event loop fail only when check_status has taken    *)
(* the link and waits for itself.                                            *)
THEOREM AssertionsKept == Spec => []AssertionsHoldUnlessDiscarded
<1>1. Init => ActivatedOK
  BY DEF Init, ActivatedOK, OneActivated, ActivatedWaits, Handling, At, Loop
<1>2. IInv /\ ActivatedOK => AssertionsHoldUnlessDiscarded
  <2> SUFFICES ASSUME IInv, ActivatedOK, ~Discarded
               PROVE  /\ At("event", "assert") /\ dlHeld = "free"
                            => dataLink # NoLink /\ request # "none"
                      /\ At("event", "clear") => request # "none" \/ At("link", "stamp")
    BY DEF AssertionsHoldUnlessDiscarded
  <2>1. At("event", "assert") => dataLink # NoLink
    BY ConstantsAssumption DEF IInv, EventsOK, HandlerOK, EventOK, At
  <2>2. Handling => request # "none" \/ At("link", "stamp")
    BY DEF ActivatedOK, TimeNoted
  <2>3. dlHeld = "free" => ~At("link", "stamp")
    BY DEF IInv, GuardsOK
  <2> QED
    BY <2>1, <2>2, <2>3 DEF Handling
<1> QED
  BY <1>1, <1>2, ActivatedNext, Inductive, PTL DEF Spec

(* The loops never wait for each other in a circle, nor for a loop that is   *)
(* back to receiving, unless check_status waits for itself.                  *)
THEOREM WaitsEnd == Spec => []NoCircularWait
<1>1. IInv => NoCircularWait
  <2> SUFFICES ASSUME IInv, ~SelfWait
               PROVE  /\ \A S \in (SUBSET Loop) \ {{}} : \E t \in S : WaitsFor(t) \cap S = {}
                      /\ \A t \in Loop : \A u \in WaitsFor(t) : ~At(u, "recv")
    BY DEF NoCircularWait
  <2>1. /\ \A t \in Loop : "event" \notin WaitsFor(t)
        /\ "port" \notin WaitsFor("port") /\ "link" \notin WaitsFor("link")
        /\ "link" \in WaitsFor("port") => "port" \notin WaitsFor("link")
    BY DEF IInv, PlacesOK, GuardsOK, SelfWait, WaitsFor, At, Loop
  <2>2. \A t \in Loop : \A u \in WaitsFor(t) : ~At(u, "recv")
    BY DEF IInv, GuardsOK, WaitsFor, At, Loop
  <2>3. ASSUME NEW S \in SUBSET Loop, S # {}
        PROVE  \E t \in S : WaitsFor(t) \cap S = {}
    <3>1. \A t \in Loop : WaitsFor(t) \subseteq {"link", "port"}
      BY <2>1 DEF WaitsFor, Loop
    <3>2. CASE "link" \notin S /\ "port" \notin S
      BY <2>3, <3>1, <3>2
    <3>3. CASE "link" \in S /\ ("port" \notin S \/ "port" \notin WaitsFor("link"))
      BY <2>1, <3>1, <3>3 DEF Loop
    <3>4. CASE "port" \in S /\ ("link" \notin S \/ "link" \notin WaitsFor("port"))
      BY <2>1, <3>1, <3>4 DEF Loop
    <3> QED
      BY <2>1, <3>2, <3>3, <3>4
  <2> QED
    BY <2>2, <2>3
<1> QED
  BY <1>1, Inductive, PTL

(* The chunks of a read go out over one link: the guard the serial loop      *)
(* holds keeps the others from the data link.                                *)
THEOREM ReadKeepsLink == Spec => ReadGoesOverOneLink
<1>1. IInv /\ [Next]_vars
        => (At("port", "send") /\ pc'["port"] = "send" => dataLink' = dataLink)
  <2> SUFFICES ASSUME IInv, [Next]_vars, At("port", "send"), pc'["port"] = "send"
               PROVE  dataLink' = dataLink
    OBVIOUS
  <2>1. dlHeld = "port"
    BY DEF IInv, GuardsOK
  <2>2. ~ResetProcess
    BY DEF ResetProcess, Loop
  <2>3. CASE UNCHANGED vars
    BY <2>3 DEF vars
  <2>4. CASE Next
    BY <2>1, <2>2, <2>4
    DEF Next, RecvAnnounce, CheckLink, CheckTimer, Connect, Stamp, RecvEvent, Reply,
        AssertLink, TakeLink, ClearTimer, PortRead, Forward, SendChunk,
        LinkActivates, LinkCloses, GcSendsNonce, GcSendsData, NetStep, RequestAges,
        Unplug, Restart, ReadData, ReadNothing, At, TimerFree
  <2> QED
    BY <2>3, <2>4
<1> QED
  BY <1>1, Inductive, PTL DEF Spec, ReadGoesOverOneLink

-----------------------------------------------------------------------------
(* FcLink implements FcSession.                                              *)

sessionVars == <<dataLink, status, nonceSent, answers>>

(* A new process is a fresh start of the session.                            *)
LEMMA ResetRefines == ResetProcess => Session!StartAnew
  BY DEF ResetProcess, Session!StartAnew

(* Taking the data link discards it: its link is closed by now or with this  *)
(* step, or could not be closed.                                             *)
LEMMA TakeLinkRefines ==
    ASSUME NEW t \in {"link", "event"}, IInv, TakeLink(t)
    PROVE  Session!Discard \/ UNCHANGED sessionVars
<1>1. CASE dataLink = NoLink
  BY <1>1 DEF TakeLink, CloseTaken, sessionVars, eventLoopVars
<1>2. CASE dataLink # NoLink
  BY <1>2 DEF TakeLink, CloseTaken, Session!Discard, eventLoopVars
<1> QED
  BY <1>1, <1>2

(* An answer is one on the data link, to the nonce it brought.               *)
LEMMA ReplyRefines == IInv /\ Reply => Session!AnswerNonce \/ UNCHANGED sessionVars
<1> SUFFICES ASSUME IInv, Reply
             PROVE  Session!AnswerNonce \/ UNCHANGED sessionVars
  OBVIOUS
<1>1. CASE dataLink = NoLink
  BY <1>1 DEF Reply, sessionVars, netVars
<1>2. CASE dataLink # NoLink
  <2>1. current = dataLink /\ dataLink \in nonceSent
    BY <1>2, ReplyOnOwnLink
  <2>2. answers' = answers \cup {<<dataLink, dataLink>>}
    BY <1>2, <2>1 DEF Reply
  <2> QED
    BY <2>1, <2>2 DEF Reply, Session!AnswerNonce, Session!AnswerTo, netVars
<1> QED
  BY <1>1, <1>2

(* Every step is one of the session or leaves it alone.                      *)
LEMMA StepRefines == IInv /\ [Next]_vars => [Session!Next]_sessionVars
<1> SUFFICES ASSUME IInv, [Next]_vars
             PROVE  Session!Next \/ UNCHANGED sessionVars
  OBVIOUS
<1>1. CASE UNCHANGED vars
  BY <1>1 DEF vars, sessionVars, netVars, eventLoopVars
<1>2. CASE ResetProcess
  BY <1>2, ResetRefines DEF Session!Next
<1>3. CASE RecvAnnounce \/ CheckLink \/ CheckTimer \/ Stamp
  BY <1>3 DEF RecvAnnounce, CheckLink, CheckTimer, Stamp, sessionVars, netVars,
              eventLoopVars
<1>4. CASE Connect
  <2>1. CASE NeedsLink /\ Unused # {}
    <3>1. PICK l \in Unused : dataLink' = l /\ status' = [status EXCEPT ![l] = "pending"]
      BY <1>4, <2>1 DEF Connect
    <3>2. \A m \in Link : ~Open(m)
      BY <1>4, <2>1, ConstantsAssumption
      DEF IInv, NoLeakedLink, Discarded, Connect, NeedsLink, At
    <3>3. l \in Link /\ Session!Request(l)
      BY <1>4, <2>1, <3>1, <3>2
      DEF Connect, NeedsLink, Unused, Session!Request, Session!NoneOpen, Session!Open,
          Open, eventLoopVars
    <3> QED
      BY <3>3 DEF Session!Next
  <2>2. CASE ~(NeedsLink /\ Unused # {})
    BY <1>4, <2>2 DEF Connect, sessionVars, eventLoopVars
  <2> QED
    BY <2>1, <2>2
<1>5. CASE RecvEvent \/ RequestAges \/ Unplug \/ Forward \/ SendChunk
  BY <1>5 DEF RecvEvent, RequestAges, Unplug, Forward, SendChunk, sessionVars, netVars,
              eventLoopVars
<1>6. CASE Reply
  BY <1>6, ReplyRefines DEF Session!Next
<1>7. CASE AssertLink /\ ~ResetProcess
  BY <1>7 DEF AssertLink, sessionVars, netVars, eventLoopVars
<1>8. CASE \E t \in {"link", "event"} : TakeLink(t)
  BY <1>8, TakeLinkRefines DEF Session!Next
<1>9. CASE \E t \in {"link", "event"} : ClearTimer(t)
  BY <1>9 DEF ClearTimer, sessionVars, netVars, eventLoopVars, TimerFree
<1>10. CASE PortRead /\ ~ResetProcess
  BY <1>10 DEF PortRead, ReadData, ReadNothing, sessionVars, netVars, eventLoopVars
<1>11. ASSUME NEW l \in Link,
              LinkActivates(l) \/ LinkCloses(l) \/ GcSendsNonce(l) \/ GcSendsData(l)
       PROVE  Session!Next \/ UNCHANGED sessionVars
  <2>1. LinkActivates(l) => Session!Activate(l)
    BY DEF LinkActivates, NetStep, Session!Activate, eventLoopVars
  <2>2. LinkCloses(l) => Session!Close(l)
    BY DEF LinkCloses, NetStep, Session!Close, Session!Open, eventLoopVars
  <2>3. GcSendsNonce(l) => Session!GetNonce(l)
    BY DEF GcSendsNonce, NetStep, Session!GetNonce, eventLoopVars
  <2>4. GcSendsData(l) => UNCHANGED sessionVars
    BY DEF GcSendsData, NetStep, sessionVars, eventLoopVars
  <2> QED
    BY <1>11, <2>1, <2>2, <2>3, <2>4 DEF Session!Next
<1> QED
  BY <1>1, <1>2, <1>3, <1>4, <1>5, <1>6, <1>7, <1>8, <1>9, <1>10, <1>11
  DEF Next, Restart

(* FcLink implements FcSession: the mutexes, timers and channels never show, *)
(* so Bridge may put FcSession in its place.                                 *)
THEOREM ImplementsFcSession == Spec => SessionSpec
<1>1. Init => Session!Init
  BY DEF Init, Session!Init
<1>2. IInv /\ [Next]_vars => [Session!Next]_(Session!vars)
  BY StepRefines DEF sessionVars, Session!vars
<1> QED
  BY <1>1, <1>2, Inductive, PTL DEF Spec, SessionSpec, Session!Spec

=============================================================================

------------------------------- MODULE FcLink -------------------------------
(***************************************************************************)
(* The flight-controller side of the bridge (src/src/fc.rs): the loop that *)
(* keeps one link to the ground control, the loop that handles the events  *)
(* of that link and the loop that reads the serial port.  The three are    *)
(* branches of one select! and share two async mutexes, data_link and      *)
(* data_link_request_ts.  A loop runs undisturbed between two awaits, so   *)
(* a step is what it does from one await that can suspend it to the next.  *)
(* A guard of a mutex that is held across such an await is modelled as     *)
(* held; one taken and dropped within a step is not.                       *)
(*                                                                         *)
(* The Reticulum transport, the ground control and the serial device are   *)
(* external and modelled from how fc.rs uses them.  LinkStatus::Stale is   *)
(* treated as Active and Handshake as Pending throughout, as fc.rs does.   *)
(* A debug_assert! may be checked or not, so that the steps are those of a *)
(* debug build and of a release build alike.                               *)
(***************************************************************************)
EXTENDS Integers, Sequences

CONSTANTS
    Link,            \* links the process may request, each at most once
    NoLink,          \* data_link is None
    EventCap,        \* capacity of the out-link event broadcast channel
    DataCap,         \* data arrives only while fewer events than this wait
    MaxChunks,       \* chunks that one read of the serial port may fill
    ZeroReadLimit    \* SERIAL_PORT_READ_0_BYTES_LIMIT

ASSUME ConstantsAssumption ==
    /\ NoLink \notin Link
    /\ EventCap \in Nat \ {0}
    /\ DataCap \in Nat
    /\ MaxChunks \in Nat \ {0}
    /\ ZeroReadLimit \in Nat \ {0}

VARIABLES
    pc,        \* where each loop is suspended
    dataLink,  \* the contents of the data_link mutex
    request,   \* the contents of data_link_request_ts
    dlHeld,    \* whether a suspended loop holds the guard of data_link
    tsHeld,    \* whether a suspended loop holds the guard of ..request_ts
    gcSeen,    \* the announce being processed is one of the ground control
    status,    \* what the transport knows of each outgoing link
    nonceSent, \* links on which the ground control has sent its nonce
    answers,   \* <<m, l>>: the nonce received on m was answered on l
    events,    \* link events broadcast and not yet received
    current,   \* the link of the event being handled
    chunks,    \* chunks of the last read still to be sent
    zeroReads, \* read_0_bytes_counter
    unplugged  \* the serial device is gone and reads return 0 bytes

linkLoopVars == <<gcSeen, request, tsHeld>>
portVars == <<chunks, zeroReads, unplugged>>
netVars == <<status, nonceSent, events>>
eventLoopVars == <<current, answers>>
vars == <<pc, dataLink, dlHeld, linkLoopVars, netVars, eventLoopVars, portVars>>

Loop == {"link", "event", "port"}

TypeOK ==
    /\ pc \in [Loop -> {"recv", "check", "timer", "take", "clear", "connect",
                        "stamp", "reply", "assert", "forward", "send"}]
    /\ dataLink \in Link \cup {NoLink}
    /\ request \in {"none", "running", "elapsed"}
    /\ dlHeld \in {"free"} \cup Loop
    /\ tsHeld \in {"free"} \cup Loop
    /\ gcSeen \in BOOLEAN
    /\ status \in [Link -> {"unused", "pending", "active", "closed"}]
    /\ nonceSent \subseteq Link
    /\ answers \subseteq Link \X Link
    /\ events \in Seq([kind : {"Data", "Nonce", "Activated", "Closed"}, link : Link])
    /\ Len(events) <= EventCap
    /\ current \in Link \cup {NoLink}
    /\ chunks \in 0..MaxChunks
    /\ zeroReads \in 0..(ZeroReadLimit - 1)
    /\ unplugged \in BOOLEAN

Init ==
    /\ pc = [t \in Loop |-> "recv"]
    /\ dataLink = NoLink
    /\ request = "none"
    /\ dlHeld = "free"
    /\ tsHeld = "free"
    /\ gcSeen = FALSE
    /\ status = [l \in Link |-> "unused"]
    /\ nonceSent = {}
    /\ answers = {}
    /\ events = <<>>
    /\ current = NoLink
    /\ chunks = 0
    /\ zeroReads = 0
    /\ unplugged = FALSE

-----------------------------------------------------------------------------
At(t, place) == pc[t] = place
Goto(t, place) == pc' = [pc EXCEPT ![t] = place]

Event(kind, l) == [kind |-> kind, link |-> l]

BroadcastUnbounded(q, e) == Append(q, e)
Broadcast(q, e) ==
    IF Len(q) < EventCap THEN Append(q, e) ELSE Append(Tail(q), e)

(* The process ends when a loop exits (the port limit, a serial write error,*)
(* an error or a lag of the announce channel, a failed radio ping), panics  *)
(* on an assertion or otherwise, or is stopped, and is started anew by      *)
(* systemd.                                                                 *)

ResetProcess ==
    /\ pc' = [t \in Loop |-> "recv"]
    /\ dataLink' = NoLink
    /\ request' = "none"
    /\ dlHeld' = "free"
    /\ tsHeld' = "free"
    /\ gcSeen' = FALSE
    /\ status' = [l \in Link |-> IF status[l] = "unused" THEN "unused" ELSE "closed"]
    /\ events' = <<>>
    /\ current' = NoLink
    /\ chunks' = 0
    /\ zeroReads' = 0
    /\ unplugged' = FALSE
    /\ UNCHANGED <<nonceSent, answers>>

Restart == ResetProcess

-----------------------------------------------------------------------------
(* link_loop                                                                 *)

(* An announce arrives, of the ground control or not, or none does for      *)
(* ANNOUNCE_RECV_TIMEOUT; either way check_status comes first.              *)

RecvAnnounce ==
    /\ At("link", "recv")
    /\ gcSeen' \in BOOLEAN
    /\ Goto("link", "check")
    /\ UNCHANGED <<dataLink, dlHeld, request, tsHeld, netVars, eventLoopVars, portVars>>

(* check_status, lines 146-147: the guard of data_link lives as long as the *)
(* `if let' does, so when the link is closed the loop keeps it.             *)

CheckLink ==
    /\ At("link", "check")
    /\ dlHeld = "free"
    /\ IF dataLink # NoLink /\ status[dataLink] = "closed"
       THEN Goto("link", "take") /\ dlHeld' = "link"
       ELSE Goto("link", "timer") /\ UNCHANGED dlHeld
    /\ UNCHANGED <<dataLink, linkLoopVars, netVars, eventLoopVars, portVars>>

(* check_status, lines 158-161: likewise the guard of the request time is   *)
(* kept when the request is too old.                                        *)

AfterCheck == IF gcSeen THEN "connect" ELSE "recv"

CheckTimer ==
    /\ At("link", "timer")
    /\ tsHeld = "free"
    /\ IF request = "elapsed"
       THEN Goto("link", "take") /\ tsHeld' = "link"
       ELSE Goto("link", AfterCheck) /\ UNCHANGED tsHeld
    /\ UNCHANGED <<dataLink, dlHeld, request, gcSeen, netVars, eventLoopVars, portVars>>

(* data_link.lock().await.take(): in check_status at lines 149 and 164,     *)
(* where link_close follows, and at line 325 for a Closed event.  An error  *)
(* of link_close is only logged and leaves the link as it was.              *)

CloseTaken(t) ==
    \/ UNCHANGED <<status, events>>
    \/ /\ t = "link"
       /\ dataLink # NoLink
       /\ status' = [status EXCEPT ![dataLink] = "closed"]
       /\ events' \in {events, Broadcast(events, Event("Closed", dataLink))}

TakeLink(t) ==
    /\ At(t, "take")
    /\ dlHeld = "free"
    /\ dataLink' = NoLink
    /\ CloseTaken(t)
    /\ Goto(t, IF t = "link" THEN "clear" ELSE "recv")
    /\ UNCHANGED <<dlHeld, linkLoopVars, nonceSent, eventLoopVars, portVars>>

(* *data_link_request_ts.lock().await = None: in check_status at lines 155  *)
(* and 170, after which the guard the loop still holds is dropped, and at   *)
(* line 321 for an Activated event (line 320 waits for the same mutex).     *)

GuardDropped(t) == tsHeld \in {"free", t}
TimerFree(t) == tsHeld = "free"

ClearTimer(t) ==
    /\ At(t, "clear")
    /\ TimerFree(t)
    /\ request' = "none"
    /\ dlHeld' = IF dlHeld = t THEN "free" ELSE dlHeld
    /\ tsHeld' = IF tsHeld = t THEN "free" ELSE tsHeld
    /\ Goto(t, CASE t = "event" -> "recv"
                 [] t = "link" /\ dlHeld = t -> "timer"
                 [] OTHER -> AfterCheck)
    /\ UNCHANGED <<dataLink, gcSeen, netVars, eventLoopVars, portVars>>

(* Lines 180-187: an announce of the ground control, and no data link.  The *)
(* guard of data_link is held while the link is requested; the request time *)
(* is noted afterwards.                                                     *)

AlwaysNeedsLink == TRUE
NeedsLink == dataLink = NoLink

Unused == {l \in Link : status[l] = "unused"}

NoGuard == dlHeld
RequestGuard == "link"

Connect ==
    /\ At("link", "connect")
    /\ dlHeld = "free"
    /\ IF NeedsLink /\ Unused # {}
       THEN \E l \in Unused :
               /\ dataLink' = l
               /\ status' = [status EXCEPT ![l] = "pending"]
               /\ dlHeld' = RequestGuard
               /\ Goto("link", "stamp")
       ELSE /\ Goto("link", "recv")
            /\ UNCHANGED <<dataLink, status, dlHeld>>
    /\ UNCHANGED <<linkLoopVars, nonceSent, events, eventLoopVars, portVars>>

TimestampForgotten == request
Timestamp == "running"

Stamp ==
    /\ At("link", "stamp")
    /\ tsHeld = "free"
    /\ request' = Timestamp
    /\ dlHeld' = "free"
    /\ Goto("link", "recv")
    /\ UNCHANGED <<dataLink, gcSeen, tsHeld, netVars, eventLoopVars, portVars>>

-----------------------------------------------------------------------------
(* link_event_loop                                                           *)

(* Where the handler of an event is first suspended.  Data is written to    *)
(* the serial port at once.                                                 *)

Handlers ==
    [Data |-> {"recv"}, Nonce |-> {"reply"}, Closed |-> {"take"},
     Activated |-> {"assert", "clear"}]

RecvEvent ==
    /\ At("event", "recv")
    /\ events # <<>>
    /\ events' = Tail(events)
    /\ current' = Head(events).link
    /\ \E place \in Handlers[Head(events).kind] : Goto("event", place)
    /\ UNCHANGED <<dataLink, dlHeld, linkLoopVars, status, nonceSent, answers,
                   portVars>>

(* Lines 310-314: the signed answer goes out on the data link of the moment.*)

Reply ==
    /\ At("event", "reply")
    /\ dlHeld = "free"
    /\ answers' = answers \cup {<<current, l>> : l \in {dataLink} \ {NoLink}}
    /\ Goto("event", "recv")
    /\ UNCHANGED <<dataLink, dlHeld, linkLoopVars, netVars, current, portVars>>

(* Line 319, in a debug build: a link is there, or the process panics.  The *)
(* assertion of line 320 waits for the mutex that line 321 takes, so the    *)
(* two are the one step ClearTimer; when it fails the process ends as in    *)
(* Restart.                                                                 *)

AssertLink ==
    /\ At("event", "assert")
    /\ dlHeld = "free"
    /\ \/ dataLink = NoLink /\ ResetProcess
       \/ /\ dataLink # NoLink
          /\ Goto("event", "clear")
          /\ UNCHANGED <<dataLink, dlHeld, linkLoopVars, netVars, eventLoopVars,
                         portVars>>

-----------------------------------------------------------------------------
(* read_port_loop                                                            *)

ReadData ==
    /\ ~unplugged
    /\ chunks' \in 1..MaxChunks
    /\ zeroReads' = 0
    /\ Goto("port", "forward")
    /\ UNCHANGED <<dataLink, dlHeld, linkLoopVars, netVars, eventLoopVars, unplugged>>

ZeroReadForgotten == 0
CountZeroRead == zeroReads + 1

LastZeroRead == CountZeroRead = ZeroReadLimit

ReadNothing ==
    /\ unplugged
    /\ \/ LastZeroRead /\ ResetProcess
       \/ /\ ~LastZeroRead
          /\ zeroReads' = CountZeroRead
          /\ Goto("port", "forward")
          /\ UNCHANGED <<dataLink, dlHeld, linkLoopVars, netVars, eventLoopVars,
                         chunks, unplugged>>

PortRead == At("port", "recv") /\ (ReadData \/ ReadNothing)

(* Lines 222-223: the guard of data_link is held until the last chunk of    *)
(* the read is sent.                                                        *)

PortGuard == "port"

Forward ==
    /\ At("port", "forward")
    /\ dlHeld = "free"
    /\ IF dataLink = NoLink \/ chunks = 0
       THEN Goto("port", "recv") /\ chunks' = 0 /\ UNCHANGED dlHeld
       ELSE Goto("port", "send") /\ dlHeld' = PortGuard /\ UNCHANGED chunks
    /\ UNCHANGED <<dataLink, linkLoopVars, netVars, eventLoopVars, zeroReads,
                   unplugged>>

(* One chunk, unless the link is not active: then the rest is dropped.       *)

BreakKeepingGuard == dlHeld
AfterLastChunk == "free"

SendChunk ==
    /\ At("port", "send")
    /\ IF status[dataLink] = "active" /\ chunks > 1
       THEN /\ chunks' = chunks - 1
            /\ UNCHANGED <<pc, dlHeld>>
       ELSE /\ chunks' = 0
            /\ dlHeld' = AfterLastChunk
            /\ Goto("port", "recv")
    /\ UNCHANGED <<dataLink, linkLoopVars, netVars, eventLoopVars, zeroReads,
                   unplugged>>

-----------------------------------------------------------------------------
(* The transport, the ground control, the serial device and the clock.       *)

NetStep == UNCHANGED <<pc, dataLink, dlHeld, linkLoopVars, eventLoopVars, portVars>>

LinkActivates(l) ==
    /\ status[l] = "pending"
    /\ status' = [status EXCEPT ![l] = "active"]
    /\ events' = Broadcast(events, Event("Activated", l))
    /\ UNCHANGED nonceSent
    /\ NetStep

LinkCloses(l) ==
    /\ status[l] \in {"pending", "active"}
    /\ status' = [status EXCEPT ![l] = "closed"]
    /\ events' = Broadcast(events, Event("Closed", l))
    /\ UNCHANGED nonceSent
    /\ NetStep

GcSendsNonce(l) ==
    /\ status[l] = "active"
    /\ l \notin nonceSent
    /\ nonceSent' = nonceSent \cup {l}
    /\ events' = Broadcast(events, Event("Nonce", l))
    /\ UNCHANGED status
    /\ NetStep

GcSendsData(l) ==
    /\ status[l] = "active"
    /\ Len(events) < DataCap
    /\ events' = Broadcast(events, Event("Data", l))
    /\ UNCHANGED <<status, nonceSent>>
    /\ NetStep

RequestAges ==
    /\ request = "running"
    /\ request' = "elapsed"
    /\ UNCHANGED <<pc, dataLink, dlHeld, gcSeen, tsHeld, netVars, eventLoopVars,
                   portVars>>

Unplug ==
    /\ ~unplugged
    /\ unplugged' = TRUE
    /\ UNCHANGED <<pc, dataLink, dlHeld, linkLoopVars, netVars, eventLoopVars,
                   chunks, zeroReads>>

-----------------------------------------------------------------------------
LinkLoop ==
    \/ RecvAnnounce \/ CheckLink \/ CheckTimer
    \/ TakeLink("link") \/ ClearTimer("link")
    \/ Connect \/ Stamp

EventLoop ==
    \/ RecvEvent \/ Reply \/ AssertLink
    \/ TakeLink("event") \/ ClearTimer("event")

PortLoop == Forward \/ SendChunk \/ (unplugged /\ PortRead)

Next ==
    \/ RecvAnnounce \/ CheckLink \/ CheckTimer \/ Connect \/ Stamp
    \/ RecvEvent \/ Reply \/ AssertLink
    \/ \E t \in {"link", "event"} : TakeLink(t) \/ ClearTimer(t)
    \/ PortRead \/ Forward \/ SendChunk
    \/ \E l \in Link : \/ LinkActivates(l) \/ LinkCloses(l)
                       \/ GcSendsNonce(l) \/ GcSendsData(l)
    \/ RequestAges \/ Unplug \/ Restart

Spec == Init /\ [][Next]_vars

(* Fairness.  The three loops are polled by one select!; tokio's Mutex      *)
(* serves its waiters first come, first served, so a loop that waits for a  *)
(* mutex which is free again and again gets it (SF).  Receiving announces   *)
(* times out after 5 seconds and reading a port that is gone returns at     *)
(* once.  Nothing is assumed of the network or of a port that is there.     *)

Fairness == SF_vars(LinkLoop) /\ SF_vars(EventLoop) /\ SF_vars(PortLoop)

FairSpec == Spec /\ Fairness

-----------------------------------------------------------------------------
(* The abstract flight controller this module implements.                    *)

Session == INSTANCE FcSession

(* What the ground control is promised: no link is requested while another  *)
(* is open, held or not, and a nonce is answered on the link that brought   *)
(* it.  The mutexes, timers and channels between never show.                *)

SessionSpec == Session!Spec

-----------------------------------------------------------------------------
(* Safety.                                                                   *)

(* An answer to the challenge of the ground control goes out on the link    *)
(* that brought the nonce, although fc.rs:310 sends it on whatever link     *)
(* data_link then holds.                                                    *)

AnswersOnOwnLink == \A a \in answers : a[1] = a[2]

(* check_status has taken the link for an old request (line 164) and has    *)
(* not come past line 170.                                                  *)

Discarded == At("link", "clear")

Open(l) == status[l] \in {"pending", "active"}

(* The transport never has two links of this process open.  The open one is *)
(* what data_link holds; or check_status has just taken it, could not close *)
(* it (fc.rs:167, an error that is only logged) and is not past line 170,   *)
(* so that no other link is requested beside it.                            *)

NoLeakedLink ==
    \A l \in Link : Open(l) =>
        /\ dataLink = l \/ Discarded
        /\ \A m \in Link : Open(m) => m = l

(* A link that is still only requested can always be given up: its request  *)
(* time is noted, whatever events of earlier links are still to come.       *)

PendingLinkTimed ==
    dataLink # NoLink /\ status[dataLink] = "pending" /\ ~At("link", "stamp")
        => request # "none"

(* check_status waiting for a mutex whose guard it holds itself.             *)

SelfWait ==
    \/ At("link", "take") /\ dlHeld = "link"
    \/ At("link", "clear") /\ tsHeld = "link"

(* The assertions of fc.rs:319 and 320 on an Activated event, that a link   *)
(* is held and its request time noted, hold from when line 319 gets its     *)
(* mutex to when line 320 does, with one exception: they do fail once       *)
(* check_status has discarded the link for an old request.  Nothing else    *)
(* breaks them: the event may come before the time is noted, or after its   *)
(* link has closed, and the port loop and check_status may take either      *)
(* mutex in between.                                                        *)

AssertionsHoldUnlessDiscarded ==
    ~Discarded =>
        /\ At("event", "assert") /\ dlHeld = "free"
              => dataLink # NoLink /\ request # "none"
        /\ At("event", "clear") /\ tsHeld = "free"
              => request # "none" \/ At("link", "stamp")

(* The loops that hold a mutex the loop t needs next.                        *)

WaitsFor(t) ==
    {u \in Loop :
        \/ /\ dlHeld = u
           /\ pc[t] \in {"check", "take", "connect", "reply", "assert", "forward"}
        \/ tsHeld = u /\ pc[t] \in {"timer", "clear", "stamp"}}

(* Unless check_status waits for itself, the loops never wait for each      *)
(* other in a circle, nor for one that has gone back to receiving: some     *)
(* loop that holds a mutex can always go on to give it back.                *)

NoCircularWait ==
    ~SelfWait =>
        /\ \A S \in (SUBSET Loop) \ {{}} : \E t \in S : WaitsFor(t) \cap S = {}
        /\ \A t \in Loop : \A u \in WaitsFor(t) : ~At(u, "recv")

(* The chunks of one serial read never go out over two links.                *)

ReadGoesOverOneLink ==
    [][ At("port", "send") /\ pc'["port"] = "send" => dataLink' = dataLink ]_vars

(* Liveness.                                                                 *)

(* Whatever the three loops do to each other, each gets back to receiving,  *)
(* unless check_status waits for itself: there is no other way to block.    *)

OnlySelfWaitBlocks ==
    \A t \in Loop : ~At(t, "recv") ~> (At(t, "recv") \/ SelfWait)

(* fc.rs:18: when the serial device is gone the process shuts down (and is  *)
(* started anew), unless check_status waits for itself.                     *)

UnpluggedShutsDown == unplugged ~> (~unplugged \/ SelfWait)

(* fc.rs:148: "data link is closed, discarding link".                        *)

ClosedLinkDiscarded ==
    \A l \in Link :
        (At("link", "take") /\ dataLink = l /\ status[l] = "closed")
            ~> dataLink # l

(* fc.rs:162: a request that was not answered in time is given up, so that  *)
(* another link can be requested.                                           *)

RequestGivenUp ==
    (At("link", "clear") /\ request = "elapsed") ~> request # "elapsed"

=============================================================================

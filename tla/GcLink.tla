------------------------------- MODULE GcLink -------------------------------
(***************************************************************************)
(* The ground-control side of the bridge: the link authorization state     *)
(* machine of src/src/gc.rs (LinkState) and the loops that drive it.       *)
(*                                                                         *)
(* Every handler of LinkState runs with the link_state mutex held from its *)
(* first line to its last, so a handler is one action.  Around it          *)
(* everything is concurrent: links come and go in the transport, the event *)
(* loop works through a bounded broadcast channel, and the announce loop,  *)
(* the socket loop and the clock take their steps in between.              *)
(*                                                                         *)
(* The Reticulum transport and the remote peers are external.  They are    *)
(* modelled from how gc.rs uses them; peers follow the protocol of         *)
(* src/src/fc.rs and answer a challenge on the link that carried it.       *)
(***************************************************************************)
EXTENDS Integers, Sequences

CONSTANTS
    Link,        \* link ids, each established at most once
    Peer,        \* Reticulum destinations
    Fc,          \* the configured fc_destination
    Owner,       \* the peer at the far end of each link
    EventCap,    \* capacity of the in-link event broadcast channel
    AnnounceCap, \* capacity of the announce broadcast channel
    DataCap,     \* peers send data only while fewer events than this wait
    CloseFails   \* whether link_close may fail on an open link

ASSUME ConstantsAssumption ==
    /\ Fc \in Peer
    /\ Owner \in [Link -> Peer]
    /\ EventCap \in Nat \ {0}
    /\ AnnounceCap \in Nat \ {0}
    /\ DataCap \in Nat
    /\ CloseFails \in BOOLEAN

VARIABLES
    linkState, \* the LinkState of the ground control
    inLink,    \* what the transport knows of each incoming link
    challenge, \* what became of the nonce drawn for each link
    events,    \* link events broadcast and not yet received by the event loop
    announces, \* announces of Fc not yet received by the announce loop
    keyKnown,  \* whether the transport has a verify key for Fc
    station,   \* whether the address of the ground station is known
    served,    \* links over which ground station traffic has passed
    lockedUp   \* the event loop waits for ever, with link_state locked

vars == <<linkState, inLink, challenge, events, announces, keyKnown, station,
          served, lockedUp>>

-----------------------------------------------------------------------------
(* A nonce is named by the link it was drawn for.  `due' says that the      *)
(* deadline kept in the state has passed.                                   *)

Nonce == Link
AuthPayload == [dest : Peer, nonce : Nonce]

Disconnected == [tag |-> "Disconnected"]
PendingAuth(due, link, nonce) ==
    [tag |-> "PendingAuth", due |-> due, link |-> link, nonce |-> nonce]
PendingKey(due, link, nonce, auth) ==
    [tag |-> "PendingKey", due |-> due, link |-> link, nonce |-> nonce,
     auth |-> auth]
Authenticated(link) == [tag |-> "Authenticated", link |-> link]

LinkState ==
         {Disconnected}
    \cup [tag : {"PendingAuth"}, due : BOOLEAN, link : Link, nonce : Nonce]
    \cup [tag : {"PendingKey"}, due : BOOLEAN, link : Link, nonce : Nonce,
          auth : AuthPayload]
    \cup [tag : {"Authenticated"}, link : Link]

IsAuthenticated == linkState.tag = "Authenticated"
IsPending == linkState.tag \in {"PendingAuth", "PendingKey"}
Holds(l) == linkState.tag # "Disconnected" /\ linkState.link = l

LinkEvent ==
         [kind : {"Activated", "Data", "Closed"}, link : Link]
    \cup [kind : {"Auth"}, link : Link, auth : AuthPayload]

Plain(kind, l) == [kind |-> kind, link |-> l]
AuthEvent(l, auth) == [kind |-> "Auth", link |-> l, auth |-> auth]

TypeOK ==
    /\ linkState \in LinkState
    /\ inLink \in [Link -> {"none", "open", "closed", "gone"}]
    /\ challenge \in [Link -> {"none", "sent", "answered", "lost"}]
    /\ events \in Seq(LinkEvent)
    /\ Len(events) <= EventCap
    /\ announces \in 0..(AnnounceCap + 1)
    /\ keyKnown \in BOOLEAN
    /\ station \in BOOLEAN
    /\ served \subseteq Link
    /\ lockedUp \in BOOLEAN

Init ==
    /\ linkState = Disconnected
    /\ inLink = [l \in Link |-> "none"]
    /\ challenge = [l \in Link |-> "none"]
    /\ events = <<>>
    /\ announces = 0
    /\ keyKnown = FALSE
    /\ station = FALSE
    /\ served = {}
    /\ lockedUp = FALSE

-----------------------------------------------------------------------------
(* The broadcast channel overwrites its oldest event when it is full; the   *)
(* receiver logs the lag and goes on with what is left.                     *)

BroadcastUnbounded(q, e) == Append(q, e)
Broadcast(q, e) ==
    IF Len(q) < EventCap THEN Append(q, e) ELSE Append(Tail(q), e)

(* transport.link_close: an open link becomes closed, and whether the event *)
(* loop gets a Closed event for it is up to the transport.  When it fails,  *)
(* or the link is not open, there is no effect but an error in the log.     *)
(* `q' is the event backlog the caller leaves.                              *)

KeepLink(q) == events' = q /\ UNCHANGED inLink
CloseLink(l, q) ==
    \/ KeepLink(q) /\ (CloseFails \/ inLink[l] # "open")
    \/ /\ inLink[l] = "open"
       /\ inLink' = [inLink EXCEPT ![l] = "closed"]
       /\ events' \in {q, Broadcast(q, Plain("Closed", l))}

(* validate_signature: the payload was signed by the peer it names, over    *)
(* its own destination and the nonce it was given.                          *)

AcceptAnySignature(auth, nonce) == TRUE
ValidSignature(auth, nonce) == auth.nonce = nonce

AcceptAnyDestination(auth) == TRUE
FromFc(auth) == auth.dest = Fc

-----------------------------------------------------------------------------
(* The link event loop: one action per kind of event at the head.           *)

NextEvent(kind) == ~lockedUp /\ events # <<>> /\ Head(events).kind = kind

OthersUnchanged == UNCHANGED <<announces, keyKnown, station, lockedUp>>

(* LinkEvent::Activated -> link_activated: a link that comes up while       *)
(* another is held is ignored.  Otherwise a nonce is drawn and sent; when   *)
(* drawing it, finding the link or building the packet fails the link is    *)
(* closed and the state stays Disconnected.                                 *)

HandleActivated ==
    /\ NextEvent("Activated")
    /\ LET l == Head(events).link IN
       \/ /\ linkState # Disconnected
          /\ KeepLink(Tail(events))
          /\ UNCHANGED <<linkState, challenge>>
       \/ /\ linkState = Disconnected
          /\ CloseLink(l, Tail(events))
          /\ UNCHANGED <<linkState, challenge>>
       \/ /\ linkState = Disconnected
          /\ inLink[l] \in {"open", "closed"}
          /\ linkState' = PendingAuth(FALSE, l, l)
          /\ challenge' = [challenge EXCEPT ![l] = "sent"]
          /\ KeepLink(Tail(events))
    /\ UNCHANGED served
    /\ OthersUnchanged

(* LinkEvent::Data with a data byte: forwarded to the ground station when   *)
(* it came over the authenticated link; another link that sends data while  *)
(* one is authenticated is closed; without an authenticated link, or        *)
(* without an address, the payload is dropped.                              *)

CloseSessionOnStrayData(l) ==
    IF IsAuthenticated /\ linkState.link # l THEN {linkState.link} ELSE {}
ClosedOnData(l) == IF IsAuthenticated THEN {l} \ {linkState.link} ELSE {}

ServeAnyLink(l) == IF station THEN {l} ELSE {}
ServedByData(l) ==
    IF IsAuthenticated /\ linkState.link = l /\ station THEN {l} ELSE {}

HandleData ==
    /\ NextEvent("Data")
    /\ LET l == Head(events).link IN
       /\ IF ClosedOnData(l) = {}
          THEN KeepLink(Tail(events))
          ELSE \E stray \in ClosedOnData(l) : CloseLink(stray, Tail(events))
       /\ served' = served \cup ServedByData(l)
    /\ UNCHANGED <<linkState, challenge>>
    /\ OthersUnchanged

(* LinkEvent::Data with an auth payload -> got_auth.  Data that comes while  *)
(* no challenge is outstanding is dropped.  An answer on another link than  *)
(* the challenged one has that link closed, and is then processed all the   *)
(* same: the code has no return there.                                      *)

RestartDeadline(l, due, nonce, auth) ==
    IF ~FromFc(auth) THEN Disconnected
    ELSE IF ~keyKnown THEN PendingKey(FALSE, l, nonce, auth)
    ELSE IF ValidSignature(auth, nonce) THEN Authenticated(l)
    ELSE Disconnected

AlwaysAwaitKey(l, due, nonce, auth) ==
    IF FromFc(auth) THEN PendingKey(due, l, nonce, auth) ELSE Disconnected

Verdict(l, due, nonce, auth) ==
    IF ~FromFc(auth) THEN Disconnected
    ELSE IF ~keyKnown THEN PendingKey(due, l, nonce, auth)
    ELSE IF ValidSignature(auth, nonce) THEN Authenticated(l)
    ELSE Disconnected

HandleAuth ==
    /\ NextEvent("Auth")
    /\ LET l == Head(events).link
           auth == Head(events).auth
       IN  IF linkState.tag # "PendingAuth"
           THEN /\ KeepLink(Tail(events))
                /\ UNCHANGED linkState
           ELSE /\ linkState' = Verdict(l, linkState.due, linkState.nonce, auth)
                /\ IF linkState'.tag = "Disconnected" \/ linkState.link # l
                   THEN CloseLink(l, Tail(events))
                   ELSE KeepLink(Tail(events))
    /\ UNCHANGED <<challenge, served>>
    /\ OthersUnchanged

(* LinkEvent::Closed -> link_closed: whatever link was closed.              *)

HandleClosed ==
    /\ NextEvent("Closed")
    /\ linkState' = Disconnected
    /\ KeepLink(Tail(events))
    /\ UNCHANGED <<challenge, served>>
    /\ OthersUnchanged

HandleEvent == HandleActivated \/ HandleData \/ HandleAuth \/ HandleClosed

(* Two ways in which a handler may wait for ever, with link_state locked,   *)
(* so that every other loop that needs it waits too.  Whether the mutexes   *)
(* are the same is up to the transport.  got_auth, which holds link_state,  *)
(* locks the destination of Fc, while recv_announce_loop has an announce of *)
(* Fc in hand, holds its destination and waits for link_state.              *)

AuthMeetsAnnounce ==
    /\ NextEvent("Auth")
    /\ linkState.tag = "PendingAuth"
    /\ FromFc(Head(events).auth)
    /\ keyKnown
    /\ announces \in 1..AnnounceCap
    /\ announces' = announces - 1
    /\ IF linkState.link # Head(events).link
       THEN CloseLink(Head(events).link, Tail(events))
       ELSE KeepLink(Tail(events))

(* link_activated closes a link whose guard it holds, because the packet    *)
(* with the nonce could not be built.                                       *)

CloseWhileLocked ==
    /\ NextEvent("Activated")
    /\ linkState = Disconnected
    /\ inLink[Head(events).link] \in {"open", "closed"}
    /\ KeepLink(Tail(events))
    /\ UNCHANGED announces

LockUp ==
    /\ AuthMeetsAnnounce \/ CloseWhileLocked
    /\ lockedUp' = TRUE
    /\ UNCHANGED <<linkState, challenge, keyKnown, station, served>>

-----------------------------------------------------------------------------
(* The announce loops.                                                       *)

(* check_status: the held link is no longer open, or no longer found.       *)

NoLinkLost == FALSE
HeldLinkLost == linkState # Disconnected /\ inLink[linkState.link] # "open"

DeadlineOnlyForAuth == linkState.tag = "PendingAuth" /\ linkState.due
AuthTimedOut == IsPending /\ linkState.due

(* One turn of send_announce_loop after its sleep: check_status, then       *)
(* auth_timeout, under one lock.                                            *)

AnnounceTick ==
    /\ ~lockedUp
    /\ \/ /\ HeldLinkLost
          /\ KeepLink(events)
       \/ /\ ~HeldLinkLost
          /\ AuthTimedOut
          /\ CloseLink(linkState.link, events)
    /\ linkState' = Disconnected
    /\ UNCHANGED <<challenge, served>>
    /\ OthersUnchanged

(* recv_announce_loop, an announce of Fc -> got_fc_announce: the payload    *)
(* kept in PendingKey is validated now that the key is at hand.             *)

HandleFcAnnounce ==
    /\ ~lockedUp
    /\ announces \in 1..AnnounceCap
    /\ announces' = announces - 1
    /\ IF linkState.tag # "PendingKey"
       THEN /\ KeepLink(events)
            /\ UNCHANGED linkState
       ELSE IF ValidSignature(linkState.auth, linkState.nonce)
       THEN /\ linkState' = Authenticated(linkState.link)
            /\ KeepLink(events)
       ELSE /\ linkState' = Disconnected
            /\ CloseLink(linkState.link, events)
    /\ UNCHANGED <<challenge, served, keyKnown, station, lockedUp>>

(* The process ends when any of its loops exits (a lagged announce channel, *)
(* a socket error, a failed radio ping, ctrl-c) and systemd starts it anew: *)
(* the links of the old transport are unknown to the new one, and so is the *)
(* key of Fc.                                                               *)

ResetProcess ==
    /\ linkState' = Disconnected
    /\ inLink' = [l \in Link |-> IF inLink[l] = "none" THEN "none" ELSE "gone"]
    /\ challenge' =
          [l \in Link |-> IF challenge[l] = "sent" THEN "lost" ELSE challenge[l]]
    /\ events' = <<>>
    /\ announces' = 0
    /\ keyKnown' = FALSE
    /\ station' = FALSE
    /\ lockedUp' = FALSE
    /\ UNCHANGED served

Restart == ResetProcess

(* recv_announce_loop takes any receive error, a lag included, as fatal.    *)

AnnounceLag ==
    /\ ~lockedUp
    /\ announces > AnnounceCap
    /\ ResetProcess

-----------------------------------------------------------------------------
(* The socket loop, as far as the link is concerned.                         *)

(* A ground station replied to the search or has a configured address.      *)

StationFound ==
    /\ ~station
    /\ station' = TRUE
    /\ UNCHANGED <<linkState, inLink, challenge, events, announces, keyKnown,
                   served, lockedUp>>

(* Nothing was received from the ground station for 10 seconds.             *)

StationSilent ==
    /\ station
    /\ station' = FALSE
    /\ UNCHANGED <<linkState, inLink, challenge, events, announces, keyKnown,
                   served, lockedUp>>

(* A datagram of the ground station goes out on the authenticated link when *)
(* the transport still finds it.                                            *)

AnyHeldLink == {l \in Link : Holds(l)}
ForwardTarget == {l \in Link : IsAuthenticated /\ Holds(l)}

ForwardGroundData ==
    /\ ~lockedUp
    /\ \E l \in ForwardTarget :
          /\ inLink[l] \in {"open", "closed"}
          /\ served' = served \cup {l}
    /\ station
    /\ UNCHANGED <<linkState, inLink, challenge, events, announces, keyKnown,
                   station, lockedUp>>

-----------------------------------------------------------------------------
(* The transport, the peers and the clock.                                   *)

LinkUp(l) ==
    /\ inLink[l] = "none"
    /\ inLink' = [inLink EXCEPT ![l] = "open"]
    /\ events' = Broadcast(events, Plain("Activated", l))
    /\ UNCHANGED <<linkState, challenge, served>>
    /\ OthersUnchanged

LinkDown(l) ==
    /\ inLink[l] = "open"
    /\ CloseLink(l, events)
    /\ UNCHANGED <<linkState, challenge, served>>
    /\ OthersUnchanged

Forget(l) ==
    /\ inLink[l] = "closed"
    /\ inLink' = [inLink EXCEPT ![l] = "gone"]
    /\ UNCHANGED <<linkState, challenge, events, served>>
    /\ OthersUnchanged

PeerAnswers(l) ==
    /\ inLink[l] = "open"
    /\ challenge[l] = "sent"
    /\ challenge' = [challenge EXCEPT ![l] = "answered"]
    /\ events' = Broadcast(events, AuthEvent(l, [dest |-> Owner[l], nonce |-> l]))
    /\ UNCHANGED <<linkState, inLink, served>>
    /\ OthersUnchanged

ChallengeLost(l) ==
    /\ challenge[l] = "sent"
    /\ challenge' = [challenge EXCEPT ![l] = "lost"]
    /\ UNCHANGED <<linkState, inLink, events, served>>
    /\ OthersUnchanged

PeerSends(l) ==
    /\ inLink[l] = "open"
    /\ Len(events) < DataCap
    /\ events' = Broadcast(events, Plain("Data", l))
    /\ UNCHANGED <<linkState, inLink, challenge, served>>
    /\ OthersUnchanged

(* The transport learns the key from the announce before it broadcasts it.  *)

FcAnnounces ==
    /\ announces <= AnnounceCap
    /\ announces' = announces + 1
    /\ keyKnown' = TRUE
    /\ UNCHANGED <<linkState, inLink, challenge, events, station, served,
                   lockedUp>>

DeadlinePasses ==
    /\ IsPending
    /\ ~linkState.due
    /\ linkState' = [linkState EXCEPT !.due = TRUE]
    /\ UNCHANGED <<inLink, challenge, events, served>>
    /\ OthersUnchanged

LinkStep(l) ==
    \/ LinkUp(l) \/ LinkDown(l) \/ Forget(l)
    \/ PeerAnswers(l) \/ ChallengeLost(l) \/ PeerSends(l)

Next ==
    \/ HandleEvent \/ LockUp
    \/ AnnounceTick \/ HandleFcAnnounce \/ AnnounceLag \/ Restart
    \/ StationFound \/ StationSilent \/ ForwardGroundData
    \/ FcAnnounces \/ DeadlinePasses
    \/ \E l \in Link : LinkStep(l)

Spec == Init /\ [][Next]_vars

(* Fairness.  The loops are polled by one select!, and each returns to its  *)
(* receive or its sleep after every handler, so an event, an announce or an *)
(* announce tick that waits is eventually handled, unless the loops are     *)
(* locked up; and time passes.  Nothing is assumed of the peers, the links, *)
(* the radio or the ground station.                                         *)

Fairness ==
    /\ WF_vars(HandleEvent)
    /\ WF_vars(AnnounceTick)
    /\ WF_vars(HandleFcAnnounce)
    /\ WF_vars(AnnounceLag)
    /\ WF_vars(DeadlinePasses)

FairSpec == Spec /\ Fairness

-----------------------------------------------------------------------------
(* Safety.                                                                   *)

(* README: the ground control talks only to the configured flight           *)
(* controller.  An authenticated link is a link of Fc whose challenge Fc    *)
(* has answered.                                                            *)

AuthenticatedIsFc ==
    IsAuthenticated =>
        /\ Owner[linkState.link] = Fc
        /\ challenge[linkState.link] = "answered"

(* Ground station traffic has passed only over links that Fc had answered   *)
(* a challenge on, across lost events, timeouts and restarts.               *)

ServedOnlyFc ==
    \A l \in served : Owner[l] = Fc /\ challenge[l] = "answered"

(* A payload that waits for the key of Fc never waits in vain: as long as   *)
(* it waits, either the key is unknown or the announce that brought it is   *)
(* still to be received.  Nothing looks up the key again in PendingKey.     *)

KeyAnnounceWaits ==
    linkState.tag = "PendingKey" /\ keyKnown => announces > 0

(* Actions.                                                                  *)

(* The link a handler leaves the ground control authenticated on is never   *)
(* one that the handler has closed.  (The Closed event of any link ends the *)
(* session; Bridge shows what comes of that.)                               *)

KeepsSessionLinkOpen ==
    [][ IsAuthenticated' /\ inLink'[linkState'.link] # inLink[linkState'.link]
            => ~HandleEvent ]_vars

(* A session begins on the link whose nonce is the outstanding challenge:   *)
(* an answer to an earlier nonce never opens one, although got_auth goes on *)
(* with an answer that came on another link than the challenged one.        *)

FreshAnswer ==
    [][ ~IsAuthenticated /\ IsAuthenticated'
            => IsPending /\ linkState.nonce = linkState'.link ]_vars

(* One handshake has one deadline: while its nonce is outstanding, a        *)
(* deadline that has passed stays passed, through PendingAuth and           *)
(* PendingKey alike.                                                        *)

DeadlineKept ==
    [][ IsPending /\ IsPending' /\ linkState'.nonce = linkState.nonce
            => (linkState.due => linkState'.due) ]_vars

(* Liveness.                                                                 *)

(* A handshake ends, by a verdict, a timeout or the loss of its link, with  *)
(* one exception: the event loop waits for ever, as in LockUp.              *)

PendingResolves ==
    \A n \in Nonce : (IsPending /\ linkState.nonce = n)
                        ~> (~(IsPending /\ linkState.nonce = n) \/ lockedUp)

(* A link that is no longer open is given up even when its Closed event was *)
(* lost to a lag or never sent, with the same exception.                    *)

LostLinkReleased ==
    \A l \in Link : (Holds(l) /\ inLink[l] # "open") ~> (~Holds(l) \/ lockedUp)

(* The abstract session this module implements.                             *)

FcLinks == {l \in Link : Owner[l] = Fc}
InSession == {l \in Link : IsAuthenticated /\ Holds(l)}
Answered == {l \in Link : challenge[l] = "answered"}

Session ==
    INSTANCE AuthSession WITH
        FcLink <- FcLinks, session <- InSession, answered <- Answered

(* README: the bridge as the rest of the program sees it, whatever the       *)
(* radio, the peers and the clock do: at most one session, with Fc, over an *)
(* answered link, and traffic within it.                                    *)
SessionSpec == Session!Spec

=============================================================================

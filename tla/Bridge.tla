-------------------------------- MODULE Bridge --------------------------------
(***************************************************************************)
(* The two bridge processes together: src/src/gc.rs beside the ground      *)
(* station, src/src/fc.rs beside the flight controller, and the radio      *)
(* between them.  The ground control takes the steps of GcLink; the flight *)
(* controller takes those of FcSession, which FcLink implements.  What     *)
(* GcLink leaves to the environment of a link is here what the flight      *)
(* controller sent and the radio delivered; the links of other peers are   *)
(* left to GcLink.  Either process may end at any time and be started anew.*)
(*                                                                         *)
(* The radio and the Reticulum transport are external: packets arrive in   *)
(* any order or not at all, and either end of a link may find it closed at *)
(* any time, without the other.  An incoming link of the ground control is *)
(* an outgoing link of the flight controller, under the same id.           *)
(***************************************************************************)
EXTENDS GcLink, FiniteSets

CONSTANTS
    NoLink, \* data_link is None
    AirCap  \* packets under way at once; any more are lost

ASSUME BridgeAssumption ==
    /\ \A l \in Link : Owner[l] = Fc
    /\ NoLink \notin Link
    /\ AirCap \in Nat

VARIABLES
    dataLink, status, nonceSent, answers, \* the flight controller: FcSession
    air,        \* packets under way
    lastAnswer, \* the link the flight controller answered a nonce on last
    written     \* links whose ground data was written to the serial port

fcVars == <<dataLink, status, nonceSent, answers>>
bridgeVars == <<vars, fcVars, air, lastAnswer, written>>

FcEnd == INSTANCE FcSession

-----------------------------------------------------------------------------
(* Packets.  `setup' tells the ground control that a link is established;   *)
(* `nonce' and `down' go to the flight controller, `auth' and `up' come     *)
(* from it.  An answer carries the nonce it signs.                          *)

Packet ==
         [kind : {"setup", "nonce", "up", "down"}, link : Link]
    \cup [kind : {"auth"}, link : Link, nonce : Link]

Answer(a) == [kind |-> "auth", link |-> a[2], nonce |-> a[1]]

ToGc == {p \in air : p.kind \in {"setup", "auth", "up"}}

Send(ps) ==
    air' = IF Cardinality(air \cup ps) <= AirCap THEN air \cup ps ELSE air
Receive(p) == p \in air /\ air' = air \ {p}
Quiet == UNCHANGED air

BridgeTypeOK ==
    /\ TypeOK
    /\ dataLink \in Link \cup {NoLink}
    /\ status \in [Link -> {"unused", "pending", "active", "closed"}]
    /\ nonceSent \subseteq Link
    /\ answers \subseteq Link \X Link
    /\ air \subseteq Packet
    /\ lastAnswer \in Link \cup {NoLink}
    /\ written \subseteq Link

BridgeInit ==
    /\ Init
    /\ FcEnd!Init
    /\ air = {}
    /\ lastAnswer = NoLink
    /\ written = {}

-----------------------------------------------------------------------------
(* The ground control.                                                       *)

Challenged == {l \in Link : challenge'[l] # challenge[l]}

GcChallenges ==
    /\ HandleActivated
    /\ Send({Plain("nonce", l) : l \in Challenged})

GcHandles == (HandleData \/ HandleAuth \/ HandleClosed \/ LockUp) /\ Quiet

GcTicks == AnnounceTick /\ Quiet
GcHearsAnnounce == HandleFcAnnounce /\ Quiet
GcDeadlinePasses == DeadlinePasses /\ Quiet
GcStation == (StationFound \/ StationSilent) /\ Quiet

ForwardToOpen == {l \in Link : inLink[l] = "open"}
ForwardTo == ForwardTarget

GcForwards ==
    /\ ForwardGroundData
    /\ Send({Plain("down", l) : l \in ForwardTo})

(* The transport of a new process finds no link for what was sent to the    *)
(* old one.                                                                 *)

GcStartsAnew ==
    /\ Restart \/ AnnounceLag
    /\ air' = air \ ToGc

GcLosesLink(l) == (LinkDown(l) \/ Forget(l)) /\ Quiet

GcStep ==
    /\ \/ GcChallenges \/ GcHandles \/ GcTicks \/ GcHearsAnnounce
       \/ GcDeadlinePasses \/ GcStation \/ GcForwards \/ GcStartsAnew
       \/ \E l \in Link : GcLosesLink(l)
    /\ UNCHANGED <<fcVars, lastAnswer, written>>

-----------------------------------------------------------------------------
(* The flight controller.                                                    *)

FcEstablishes(l) ==
    /\ FcEnd!Activate(l)
    /\ Send({Plain("setup", l)})
    /\ UNCHANGED lastAnswer

FcAnswers ==
    /\ FcEnd!AnswerNonce
    /\ Send({Answer(a) : a \in answers' \ answers})
    /\ lastAnswer' = dataLink

(* What the serial port brings goes out as soon as the link is active,      *)
(* whether or not the ground control has authenticated it.                  *)

FcForwards ==
    /\ \E l \in {dataLink} \ {NoLink} :
          /\ status[l] = "active"
          /\ Send({Plain("up", l)})
    /\ UNCHANGED <<fcVars, lastAnswer>>

FcManagesLink ==
    /\ FcEnd!Discard \/ FcEnd!StartAnew
       \/ \E l \in Link : FcEnd!Request(l) \/ FcEnd!Close(l)
    /\ Quiet
    /\ UNCHANGED lastAnswer

FcStep ==
    /\ \/ FcAnswers \/ FcForwards \/ FcManagesLink
       \/ \E l \in Link : FcEstablishes(l)
    /\ UNCHANGED <<vars, written>>

-----------------------------------------------------------------------------
(* The radio.                                                                *)

DeliverToGc(l) ==
    /\ \/ Receive(Plain("setup", l)) /\ LinkUp(l)
       \/ Receive(Answer(<<l, l>>)) /\ PeerAnswers(l)
       \/ Receive(Plain("up", l)) /\ PeerSends(l)
    /\ UNCHANGED <<fcVars, lastAnswer, written>>

DeliverNonce(l) ==
    /\ Receive(Plain("nonce", l))
    /\ FcEnd!GetNonce(l)
    /\ UNCHANGED <<vars, lastAnswer, written>>

(* Ground data that arrives on an active link is written to the serial port *)
(* without another look at the link.                                        *)

DeliverGroundData(l) ==
    /\ Receive(Plain("down", l))
    /\ status[l] = "active"
    /\ written' = written \cup {l}
    /\ UNCHANGED <<vars, fcVars, lastAnswer>>

HearAnnounce ==
    /\ FcAnnounces
    /\ Quiet
    /\ UNCHANGED <<fcVars, lastAnswer, written>>

Lose ==
    /\ \E p \in air : Receive(p)
    /\ UNCHANGED <<vars, fcVars, lastAnswer, written>>

BridgeNext ==
    \/ GcStep \/ FcStep
    \/ \E l \in Link : DeliverToGc(l) \/ DeliverNonce(l) \/ DeliverGroundData(l)
    \/ HearAnnounce \/ Lose

BridgeSpec == BridgeInit /\ [][BridgeNext]_bridgeVars

(* Fairness, for a property that fails even so: the loops of the ground     *)
(* control and time go on as in GcLink, the flight controller answers a     *)
(* nonce, and a packet that can arrive again and again does arrive.         *)

BridgeFairness ==
    /\ WF_bridgeVars(GcStep /\ (GcChallenges \/ GcHandles))
    /\ WF_bridgeVars(GcStep /\ GcTicks)
    /\ WF_bridgeVars(GcStep /\ GcHearsAnnounce)
    /\ WF_bridgeVars(GcStep /\ GcDeadlinePasses)
    /\ WF_bridgeVars(FcStep /\ FcAnswers)
    /\ \A l \in Link :
          SF_bridgeVars(DeliverToGc(l)) /\ SF_bridgeVars(DeliverNonce(l))

FairBridgeSpec == BridgeSpec /\ BridgeFairness

-----------------------------------------------------------------------------
(* Safety.                                                                   *)

(* The two ends agree on the session.  When the ground control holds a link *)
(* authenticated that is active at the other end, the flight controller has *)
(* answered on it and has no other link open or held: no restart, no link   *)
(* that was discarded and could not be closed, and no late packet leaves    *)
(* the two bridging over different live links.                              *)

SessionAgreed ==
    IsAuthenticated /\ status[linkState.link] = "active"
        => /\ <<linkState.link, linkState.link>> \in answers
           /\ dataLink \in {linkState.link, NoLink}
           /\ \A l \in Link : FcEnd!Open(l) => l = linkState.link

(* The flight controller writes whatever a link brings to its serial port   *)
(* (fc.rs:280), without a check of its own: still, ground data reaches it   *)
(* only over links on which it has answered a nonce of the ground control.  *)

WrittenInSession == \A l \in written : <<l, l>> \in answers

(* A session begins on the link the flight controller answered on last: an  *)
(* answer that was delayed past a later handshake begins none, whatever the *)
(* ground control lost or forgot in between.                                *)

SessionOnLastAnswer ==
    [][ ~IsAuthenticated /\ IsAuthenticated'
            => linkState'.link = lastAnswer ]_bridgeVars

(* Liveness.                                                                 *)

(* README: the ground control bridges between the flight controller and the *)
(* ground station.  A link that is open at both ends and the data link of   *)
(* the flight controller ends up authenticated, or closed or given up at    *)
(* either end, so that another is requested; unless the loops of the ground *)
(* control are locked up.                                                   *)

LinkServed ==
    \A l \in Link :
        (dataLink = l /\ status[l] = "active" /\ inLink[l] = "open")
            ~> \/ linkState = Authenticated(l)
               \/ status[l] # "active"
               \/ inLink[l] # "open"
               \/ dataLink # l
               \/ lockedUp

=============================================================================

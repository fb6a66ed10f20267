----------------------------- MODULE BridgeProofs -----------------------------
(***************************************************************************)
(* Theorems about Bridge, for every set of links and every capacity.  The  *)
(* ground control and the flight controller keep what GcLinkProofs and     *)
(* FcSession say of them on their own; what is proved here is what the two *)
(* agree on.  It rests on the packets under way: each says something that  *)
(* was true of its sender when it was sent and can no longer change.       *)
(***************************************************************************)
EXTENDS Bridge, GcSessionProofs

StatusType == [Link -> {"unused", "pending", "active", "closed"}]

BothAnswered(l) == <<l, l>> \in answers
Challengeable(l) == challenge[l] # "none"
Established(l) == status[l] \notin {"unused", "pending"}

(* The flight controller: only one link is requested or open, and data_link  *)
(* holds no other; and a nonce is answered on the link that brought it.      *)
FcOK ==
    /\ dataLink \in Link \cup {NoLink}
    /\ status \in StatusType
    /\ nonceSent \subseteq Link
    /\ answers \subseteq Link \X Link
    /\ \A l \in Link : FcEnd!Open(l) =>
          /\ dataLink \in {l, NoLink}
          /\ \A m \in Link : FcEnd!Open(m) => m = l
    /\ \A l \in Link, m \in Link : <<l, m>> \in answers => l = m /\ m \in nonceSent

HistoryOK == lastAnswer \in Link \cup {NoLink} /\ written \subseteq Link

(* What a packet under way says of its link.                                 *)
PacketOK(p) ==
    /\ p.kind = "setup" => Established(p.link)
    /\ p.kind = "nonce" => Challengeable(p.link)
    /\ p.kind = "auth" => p.nonce = p.link /\ BothAnswered(p.link)
    /\ p.kind = "down" => BothAnswered(p.link)

AirOK == air \subseteq Packet /\ \A p \in air : PacketOK(p)

(* What either end knows happened at the other.                              *)
EndsOK ==
    /\ \A l \in Link : inLink[l] # "none" => Established(l)
    /\ \A l \in Link : challenge[l] = "answered" => BothAnswered(l)
    /\ \A l \in nonceSent : Challengeable(l)
    /\ \A l \in written : BothAnswered(l)

(* While the nonce of a link that was answered is outstanding, it is the    *)
(* last one answered: the flight controller is not on an earlier link again.*)
HandshakeOK ==
    IsPending /\ BothAnswered(linkState.nonce) =>
        /\ lastAnswer = linkState.nonce
        /\ \A m \in Link : Challengeable(m) /\ dataLink = m => m = linkState.nonce

BInv == IInv /\ FcOK /\ HistoryOK /\ AirOK /\ EndsOK /\ HandshakeOK

-----------------------------------------------------------------------------
(* Each end takes its own steps.                                             *)

(* A step of the bridge is a step of the ground control or leaves it alone.  *)
LEMMA GroundControlStep == [BridgeNext]_bridgeVars => [Next]_vars
<1> SUFFICES ASSUME [BridgeNext]_bridgeVars PROVE [Next]_vars
  OBVIOUS
<1>1. CASE GcStep
  BY <1>1 DEF GcStep, GcChallenges, GcHandles, GcTicks, GcHearsAnnounce,
              GcDeadlinePasses, GcStation, GcForwards, GcStartsAnew, GcLosesLink,
              Next, HandleEvent, LinkStep
<1>2. CASE FcStep \/ UNCHANGED bridgeVars
  BY <1>2 DEF FcStep, bridgeVars
<1>3. CASE \E l \in Link : DeliverToGc(l) \/ DeliverNonce(l) \/ DeliverGroundData(l)
  BY <1>3 DEF DeliverToGc, DeliverNonce, DeliverGroundData, Next, LinkStep
<1>4. CASE HearAnnounce \/ Lose
  BY <1>4 DEF HearAnnounce, Lose, Next
<1> QED
  BY <1>1, <1>2, <1>3, <1>4 DEF BridgeNext

(* A step of the bridge is a step of the flight controller or leaves it      *)
(* alone.                                                                    *)
LEMMA FlightControllerStep == [BridgeNext]_bridgeVars => [FcEnd!Next]_(FcEnd!vars)
<1> SUFFICES ASSUME [BridgeNext]_bridgeVars, ~UNCHANGED fcVars PROVE FcEnd!Next
  BY DEF FcEnd!vars, fcVars
<1>1. \/ FcEnd!AnswerNonce \/ FcEnd!Discard \/ FcEnd!StartAnew
      \/ \E l \in Link : \/ FcEnd!Activate(l) \/ FcEnd!Request(l)
                         \/ FcEnd!Close(l) \/ FcEnd!GetNonce(l)
  BY DEF BridgeNext, GcStep, FcStep, DeliverToGc, DeliverNonce, DeliverGroundData,
         HearAnnounce, Lose, bridgeVars, FcEstablishes, FcAnswers, FcForwards,
         FcManagesLink
<1> QED
  BY <1>1 DEF FcEnd!Next

(* In the bridge the ground control behaves as GcLink says: what is proved   *)
(* and checked of it there holds here.                                       *)
THEOREM BridgeRunsGroundControl == BridgeSpec => Spec
<1>1. BridgeInit => Init
  BY DEF BridgeInit
<1> QED
  BY <1>1, GroundControlStep, PTL DEF BridgeSpec, Spec

(* In the bridge the flight controller behaves as FcSession says, which is   *)
(* what FcLink implements.                                                   *)
THEOREM BridgeRunsFlightController == BridgeSpec => FcEnd!Spec
<1>1. BridgeInit => FcEnd!Init
  BY DEF BridgeInit
<1> QED
  BY <1>1, FlightControllerStep, PTL DEF BridgeSpec, FcEnd!Spec

-----------------------------------------------------------------------------
(* What a step of the ground control leaves.                                 *)

(* No step of its own brings a link up or answers a challenge; a nonce that  *)
(* was drawn stays drawn, and is outstanding when it was drawn just now; and *)
(* a nonce is outstanding that was, or one that was never drawn before.      *)
GcEffect ==
    /\ \A l \in Link : inLink'[l] # "none" => inLink[l] # "none"
    /\ \A l \in Link : challenge'[l] = "answered" => challenge[l] = "answered"
    /\ \A l \in Link : Challengeable(l) => Challengeable(l)'
    /\ \A l \in Link : Challengeable(l)' =>
          Challengeable(l) \/ (IsPending' /\ linkState'.nonce = l)
    /\ IsPending' =>
          \/ IsPending /\ linkState'.nonce = linkState.nonce
          \/ linkState'.nonce \in Link /\ ~Challengeable(linkState'.nonce)

(* The event loop, a fresh link: a nonce is drawn for it, or nothing happens.*)
LEMMA ActivatedEffect ==
    ASSUME IInv, HandleActivated
    PROVE  GcEffect
<1> DEFINE l == Head(events).link
<1>1. l \in Link /\ challenge[l] = "none"
  <2>1. /\ events \in Seq(LinkEvent) /\ events # <<>>
        /\ QueueOK(events, inLink, challenge) /\ Head(events).kind = "Activated"
    BY DEF IInv, TypeOK, HandleActivated, NextEvent
  <2>2. Head(events) = events[1] /\ 1 \in 1..Len(events)
    BY <2>1
  <2> QED
    BY <2>1, <2>2, HeadFacts DEF QueueOK
<1>2. inLink \in InLinkType /\ challenge \in ChallengeType
  BY DEF IInv, TypeOK, InLinkType, ChallengeType
<1>3. \/ /\ CloseLink(l, Tail(events)) \/ KeepLink(Tail(events))
         /\ UNCHANGED <<linkState, challenge>>
      \/ /\ KeepLink(Tail(events))
         /\ linkState' = PendingAuth(FALSE, l, l)
         /\ challenge' = [challenge EXCEPT ![l] = "sent"]
  BY DEF HandleActivated
<1> HIDE DEF l
<1>4. \A m \in Link : inLink'[m] # "none" => inLink[m] # "none"
  BY <1>1, <1>2, <1>3 DEF CloseLink, KeepLink, InLinkType
<1>5. CASE UNCHANGED <<linkState, challenge>>
  BY <1>4, <1>5 DEF GcEffect, Challengeable, IsPending
<1>6. CASE /\ linkState' = PendingAuth(FALSE, l, l)
           /\ challenge' = [challenge EXCEPT ![l] = "sent"]
  <2>1. IsPending' /\ linkState'.nonce = l
    BY <1>6 DEF PendingAuth, IsPending
  <2>2. \A m \in Link : challenge'[m] = IF m = l THEN "sent" ELSE challenge[m]
    BY <1>2, <1>6 DEF ChallengeType
  <2> QED
    BY <1>1, <1>4, <2>1, <2>2 DEF GcEffect, Challengeable
<1> QED
  BY <1>3, <1>5, <1>6

(* A step that draws no nonce and brings no link up, and leaves outstanding  *)
(* at most the nonce that was.                                               *)
LEMMA CalmEffect ==
    ASSUME challenge \in ChallengeType,
           \A l \in Link : inLink'[l] # "none" => inLink[l] # "none",
           \/ UNCHANGED challenge
           \/ challenge' = [l \in Link |->
                               IF challenge[l] = "sent" THEN "lost" ELSE challenge[l]],
           \/ ~IsPending'
           \/ IsPending /\ linkState'.nonce = linkState.nonce
    PROVE  GcEffect
<1>1. \A l \in Link : /\ challenge'[l] = "answered" <=> challenge[l] = "answered"
                      /\ challenge'[l] = "none" <=> challenge[l] = "none"
  BY DEF ChallengeType
<1> QED
  BY <1>1 DEF GcEffect, Challengeable

(* Closing a link brings none up.                                            *)
LEMMA CloseBringsNoneUp ==
    ASSUME inLink \in InLinkType, NEW l \in Link, NEW q,
           CloseLink(l, q) \/ KeepLink(q)
    PROVE  \A m \in Link : inLink'[m] # "none" => inLink[m] # "none"
  BY DEF CloseLink, KeepLink, InLinkType

(* Every step of the ground control has that effect.                         *)
LEMMA GcStepEffect ==
    ASSUME IInv, GcStep
    PROVE  GcEffect
<1> USE DisconnectedState
<1>1. /\ inLink \in InLinkType /\ challenge \in ChallengeType /\ linkState \in LinkState
  BY DEF IInv, TypeOK, InLinkType, ChallengeType
<1>2. CASE GcChallenges
  BY <1>2, ActivatedEffect DEF GcChallenges
<1>3. CASE GcHandles
  <2>1. CASE HandleData
    <3>1. UNCHANGED <<linkState, challenge>>
      BY <2>1 DEF HandleData
    <3>2. \A m \in Link : inLink'[m] # "none" => inLink[m] # "none"
      <4>1. \/ KeepLink(Tail(events))
            \/ \E stray \in {Head(events).link} : CloseLink(stray, Tail(events))
        BY <2>1 DEF HandleData, ClosedOnData
      <4>2. Head(events).link \in Link
        BY <2>1, HeadFacts DEF HandleData, NextEvent
      <4> QED
        BY <1>1, <4>1, <4>2, CloseBringsNoneUp
    <3>3. ~IsPending' \/ (IsPending /\ linkState'.nonce = linkState.nonce)
      BY <3>1 DEF IsPending
    <3> QED
      BY <1>1, <3>1, <3>2, <3>3, CalmEffect
  <2>2. CASE HandleAuth
    <3>1. UNCHANGED challenge
      BY <2>2 DEF HandleAuth
    <3>2. \A m \in Link : inLink'[m] # "none" => inLink[m] # "none"
      <4>1. \/ KeepLink(Tail(events)) \/ CloseLink(Head(events).link, Tail(events))
        BY <2>2 DEF HandleAuth
      <4>2. Head(events).link \in Link
        BY <2>2, HeadFacts DEF HandleAuth, NextEvent
      <4> QED
        BY <1>1, <4>1, <4>2, CloseBringsNoneUp
    <3>3. ~IsPending' \/ (IsPending /\ linkState'.nonce = linkState.nonce)
      <4>1. \/ UNCHANGED linkState
            \/ /\ linkState.tag = "PendingAuth"
               /\ linkState' = Verdict(Head(events).link, linkState.due,
                                       linkState.nonce, Head(events).auth)
        BY <2>2 DEF HandleAuth
      <4> QED
        BY <4>1 DEF IsPending, Verdict, PendingKey, Authenticated, Disconnected
    <3> QED
      BY <1>1, <3>1, <3>2, <3>3, CalmEffect
  <2>3. CASE HandleClosed
    <3>1. UNCHANGED <<challenge, inLink>> /\ linkState'.tag = "Disconnected"
      BY <2>3 DEF HandleClosed, KeepLink
    <3> QED
      BY <1>1, <3>1, CalmEffect DEF IsPending
  <2>4. CASE LockUp
    <3>1. UNCHANGED <<linkState, challenge>>
      BY <2>4 DEF LockUp
    <3>2. \A m \in Link : inLink'[m] # "none" => inLink[m] # "none"
      <4>1. \/ KeepLink(Tail(events))
            \/ CloseLink(Head(events).link, Tail(events))
        BY <2>4 DEF LockUp, AuthMeetsAnnounce, CloseWhileLocked
      <4>2. Head(events).link \in Link
        BY <2>4, HeadFacts DEF LockUp, AuthMeetsAnnounce, CloseWhileLocked, NextEvent
      <4> QED
        BY <1>1, <4>1, <4>2, CloseBringsNoneUp
    <3>3. ~IsPending' \/ (IsPending /\ linkState'.nonce = linkState.nonce)
      BY <3>1 DEF IsPending
    <3> QED
      BY <1>1, <3>1, <3>2, <3>3, CalmEffect
  <2> QED
    BY <1>3, <2>1, <2>2, <2>3, <2>4 DEF GcHandles
<1>4. CASE GcTicks
  <2>1. UNCHANGED challenge /\ linkState'.tag = "Disconnected"
    BY <1>4 DEF GcTicks, AnnounceTick
  <2>2. /\ linkState.tag # "Disconnected"
        /\ KeepLink(events) \/ CloseLink(linkState.link, events)
    BY <1>1, <1>4, StateFields
    DEF GcTicks, AnnounceTick, AuthTimedOut, IsPending, HeldLinkLost
  <2>3. \A m \in Link : inLink'[m] # "none" => inLink[m] # "none"
    BY <1>1, <2>2, StateFields, CloseBringsNoneUp
  <2> QED
    BY <1>1, <2>1, <2>3, CalmEffect DEF IsPending
<1>5. CASE GcHearsAnnounce
  <2>1. /\ UNCHANGED challenge
        /\ \/ UNCHANGED linkState /\ KeepLink(events)
           \/ /\ linkState.tag = "PendingKey"
              /\ linkState' \in {Disconnected, Authenticated(linkState.link)}
              /\ KeepLink(events) \/ CloseLink(linkState.link, events)
    BY <1>5 DEF GcHearsAnnounce, HandleFcAnnounce
  <2>2. \A m \in Link : inLink'[m] # "none" => inLink[m] # "none"
    <3>1. CASE linkState.tag = "PendingKey"
      BY <1>1, <2>1, <3>1, StateFields, CloseBringsNoneUp DEF KeepLink
    <3>2. CASE linkState.tag # "PendingKey"
      BY <2>1, <3>2 DEF KeepLink
    <3> QED
      BY <3>1, <3>2
  <2>3. ~IsPending' \/ (IsPending /\ linkState'.nonce = linkState.nonce)
    BY <2>1 DEF IsPending, Authenticated
  <2> QED
    BY <1>1, <2>1, <2>2, <2>3, CalmEffect
<1>6. CASE GcDeadlinePasses
  <2>1. /\ IsPending /\ UNCHANGED <<challenge, inLink>>
        /\ linkState' = [linkState EXCEPT !.due = TRUE]
    BY <1>6 DEF GcDeadlinePasses, DeadlinePasses
  <2>2. linkState'.nonce = linkState.nonce
    BY <1>1, <2>1 DEF LinkState, IsPending, Disconnected
  <2> QED
    BY <1>1, <2>1, <2>2, CalmEffect
<1>7. CASE GcStation \/ GcForwards
  <2>1. UNCHANGED <<linkState, inLink, challenge>>
    BY <1>7 DEF GcStation, StationFound, StationSilent, GcForwards, ForwardGroundData
  <2> QED
    BY <1>1, <2>1, CalmEffect DEF IsPending
<1>8. CASE GcStartsAnew
  <2>1. ResetProcess
    BY <1>8 DEF GcStartsAnew, Restart, AnnounceLag
  <2>2. /\ linkState'.tag = "Disconnected"
        /\ \A m \in Link : inLink'[m] # "none" => inLink[m] # "none"
    BY <2>1 DEF ResetProcess
  <2> QED
    BY <1>1, <2>1, <2>2, CalmEffect DEF ResetProcess, IsPending
<1>9. ASSUME NEW l \in Link, GcLosesLink(l)
      PROVE  GcEffect
  <2>1. UNCHANGED <<linkState, challenge>>
    BY <1>9 DEF GcLosesLink, LinkDown, Forget
  <2>2. \A m \in Link : inLink'[m] # "none" => inLink[m] # "none"
    BY <1>1, <1>9, CloseBringsNoneUp DEF GcLosesLink, LinkDown, Forget, InLinkType
  <2> QED
    BY <1>1, <2>1, <2>2, CalmEffect DEF IsPending
<1> QED
  BY <1>2, <1>3, <1>4, <1>5, <1>6, <1>7, <1>8, <1>9 DEF GcStep

-----------------------------------------------------------------------------
(* What a step of the flight controller leaves.                              *)

(* A link that was established stays so, an answer stays an answer, and the  *)
(* data link changes only to none or to a link never requested before.       *)
FcEffect ==
    /\ \A l \in Link : Established(l) => Established(l)'
    /\ answers \subseteq answers'
    /\ \/ dataLink' \in {dataLink, NoLink}
       \/ dataLink' \in Link /\ ~Established(dataLink')

(* Every step of the flight controller keeps its invariant and has that      *)
(* effect.                                                                   *)
LEMMA FcStepEffect ==
    ASSUME FcOK, [FcEnd!Next]_(FcEnd!vars)
    PROVE  FcOK' /\ FcEffect
<1> USE BridgeAssumption DEF FcOK, FcEffect, Established, StatusType, FcEnd!Open
<1>1. ASSUME NEW l \in Link, FcEnd!Request(l)
      PROVE  FcOK' /\ FcEffect
  BY <1>1 DEF FcEnd!Request, FcEnd!NoneOpen
<1>2. ASSUME NEW l \in Link, FcEnd!Activate(l)
      PROVE  FcOK' /\ FcEffect
  BY <1>2 DEF FcEnd!Activate
<1>3. ASSUME NEW l \in Link, FcEnd!Close(l)
      PROVE  FcOK' /\ FcEffect
  BY <1>3 DEF FcEnd!Close
<1>4. ASSUME NEW l \in Link, FcEnd!GetNonce(l)
      PROVE  FcOK' /\ FcEffect
  BY <1>4 DEF FcEnd!GetNonce
<1>5. CASE FcEnd!Discard
  BY <1>5 DEF FcEnd!Discard
<1>6. CASE FcEnd!AnswerNonce
  BY <1>6 DEF FcEnd!AnswerNonce, FcEnd!AnswerTo
<1>7. CASE FcEnd!StartAnew
  BY <1>7 DEF FcEnd!StartAnew
<1>8. CASE UNCHANGED FcEnd!vars
  BY <1>8 DEF FcEnd!vars
<1> QED
  BY <1>1, <1>2, <1>3, <1>4, <1>5, <1>6, <1>7, <1>8 DEF FcEnd!Next

-----------------------------------------------------------------------------
(* What the radio leaves.                                                    *)

(* Nothing is under way that was not before or was not sent now.             *)
LEMMA SendReceive ==
    /\ \A ps : Send(ps) => air' \subseteq air \cup ps
    /\ \A p : Receive(p) => p \in air /\ air' \subseteq air
    /\ Quiet => air' \subseteq air
  BY DEF Send, Receive, Quiet

(* What packets say stays true, so the air stays good when what is sent is.  *)
LEMMA AirStays ==
    ASSUME AirOK, NEW ps, ps \subseteq Packet, air' \subseteq air \cup ps,
           \A p \in ps : PacketOK(p)',
           \A l \in Link : /\ Established(l) => Established(l)'
                           /\ Challengeable(l) => Challengeable(l)'
                           /\ BothAnswered(l) => BothAnswered(l)'
    PROVE  AirOK'
<1>1. \A p \in Packet : p.link \in Link
  BY DEF Packet
<1>2. ASSUME NEW p \in air
      PROVE  PacketOK(p)'
  BY <1>1, <1>2 DEF AirOK, PacketOK
<1> QED
  BY <1>2 DEF AirOK

(* The same when one good packet was sent, or none.                          *)
LEMMA AirGains ==
    ASSUME AirOK, NEW p,
           \/ air' \subseteq air
           \/ air' \subseteq air \cup {p} /\ p \in Packet /\ PacketOK(p)',
           \A l \in Link : /\ Established(l) => Established(l)'
                           /\ Challengeable(l) => Challengeable(l)'
                           /\ BothAnswered(l) => BothAnswered(l)'
    PROVE  AirOK'
<1> DEFINE ps == air' \ air
<1>1. air' \subseteq air \cup ps /\ ps \subseteq Packet /\ \A q \in ps : PacketOK(q)'
  OBVIOUS
<1> HIDE DEF ps
<1> QED
  BY <1>1, AirStays

(* A plain packet is what its kind and link say.                             *)
LEMMA PlainPacket ==
    ASSUME NEW l \in Link, NEW k \in {"setup", "nonce", "up", "down"}
    PROVE  /\ Plain(k, l) \in Packet
           /\ Plain(k, l).kind = k
           /\ Plain(k, l).link = l
  BY DEF Plain, Packet

(* An answer carries the nonce it signs.                                     *)
LEMMA AnswerPacket ==
    ASSUME NEW n \in Link, NEW l \in Link
    PROVE  /\ Answer(<<n, l>>) \in Packet
           /\ Answer(<<n, l>>).kind = "auth"
           /\ Answer(<<n, l>>).link = l
           /\ Answer(<<n, l>>).nonce = n
  BY DEF Answer, Packet

-----------------------------------------------------------------------------
(* The inductive invariant.                                                  *)

(* The initial state satisfies it.                                           *)
LEMMA BridgeInitBInv == BridgeInit => BInv
<1> SUFFICES ASSUME BridgeInit PROVE BInv
  OBVIOUS
<1>1. Init /\ FcEnd!Init /\ air = {} /\ lastAnswer = NoLink /\ written = {}
  BY DEF BridgeInit
<1>2. IInv
  BY <1>1, InitIInv
<1>3. FcOK /\ HistoryOK /\ AirOK
  BY <1>1 DEF FcEnd!Init, FcOK, FcEnd!Open, HistoryOK, AirOK, StatusType
<1>4. EndsOK /\ HandshakeOK
  BY <1>1, DisconnectedState DEF Init, FcEnd!Init, EndsOK, HandshakeOK, IsPending
<1> QED
  BY <1>2, <1>3, <1>4 DEF BInv

(* A nonce of a link that was answered had been drawn, and so had the link   *)
(* come up, which the flight controller had established.                     *)
LEMMA AnsweredWasChallenged ==
    ASSUME BInv, NEW l \in Link
    PROVE  /\ BothAnswered(l) => Challengeable(l)
           /\ Challengeable(l) => Established(l)
<1>1. BothAnswered(l) => Challengeable(l)
  BY DEF BInv, FcOK, EndsOK, BothAnswered
<1>2. Challengeable(l) => Established(l)
  BY DEF BInv, IInv, FreshLinks, EndsOK, Challengeable
<1> QED
  BY <1>1, <1>2

(* The ground control: what it sends is a nonce it has drawn or the data of  *)
(* a session, and a nonce it draws was never answered.                       *)
LEMMA GcStepBInv ==
    ASSUME BInv, IInv', GcStep
    PROVE  BInv'
<1>1. /\ IInv /\ FcOK /\ HistoryOK /\ AirOK /\ EndsOK /\ HandshakeOK
      /\ UNCHANGED <<fcVars, lastAnswer, written>>
  BY DEF BInv, GcStep
<1>2. GcEffect
  BY <1>1, GcStepEffect
<1>3. FcOK' /\ HistoryOK'
  BY <1>1 DEF FcOK, FcEnd!Open, HistoryOK, fcVars
<1>4. \A l \in Link : /\ Established(l) => Established(l)'
                      /\ Challengeable(l) => Challengeable(l)'
                      /\ BothAnswered(l) => BothAnswered(l)'
  BY <1>1, <1>2 DEF GcEffect, Established, BothAnswered, fcVars
<1>5. AirOK'
  <2>1. CASE GcChallenges
    <3> DEFINE ps == {Plain("nonce", l) : l \in Challenged}
    <3>1. air' \subseteq air \cup ps
      BY <2>1, SendReceive DEF GcChallenges
    <3>2. \A l \in Challenged : l \in Link /\ Challengeable(l)'
      BY <1>2 DEF Challenged, GcEffect, Challengeable
    <3>3. ps \subseteq Packet /\ \A p \in ps : PacketOK(p)'
      BY <3>2, PlainPacket DEF PacketOK
    <3> QED
      BY <1>1, <1>4, <3>1, <3>3, AirStays
  <2>2. CASE GcForwards
    <3> DEFINE ps == {Plain("down", l) : l \in ForwardTo}
    <3>1. air' \subseteq air \cup ps
      BY <2>2, SendReceive DEF GcForwards
    <3>2. \A l \in ForwardTo : l \in Link /\ BothAnswered(l)'
      <4>1. \A l \in ForwardTo : l \in Link /\ challenge[l] = "answered"
        BY <1>1 DEF ForwardTo, ForwardTarget, Holds, IInv, AuthenticatedIsFc
      <4> QED
        BY <1>1, <1>4, <4>1 DEF EndsOK
    <3>3. ps \subseteq Packet /\ \A p \in ps : PacketOK(p)'
      BY <3>2, PlainPacket DEF PacketOK
    <3> QED
      BY <1>1, <1>4, <3>1, <3>3, AirStays
  <2>3. CASE ~GcChallenges /\ ~GcForwards
    <3>1. air' \subseteq air
      BY <2>3 DEF GcStep, GcHandles, GcTicks, GcHearsAnnounce, GcDeadlinePasses,
                  GcStation, GcStartsAnew, GcLosesLink, Quiet
    <3> QED
      BY <1>1, <1>4, <3>1, AirGains
  <2> QED
    BY <2>1, <2>2, <2>3
<1>6. EndsOK'
  BY <1>1, <1>2 DEF EndsOK, GcEffect, Established, BothAnswered, fcVars, FcOK,
                    Challengeable
<1>7. HandshakeOK'
  <2> SUFFICES ASSUME IsPending', BothAnswered(linkState.nonce)'
               PROVE  /\ lastAnswer' = linkState'.nonce
                      /\ \A m \in Link : Challengeable(m)' /\ dataLink' = m
                                            => m = linkState'.nonce
    BY DEF HandshakeOK
  <2>1. UNCHANGED <<dataLink, lastAnswer, answers>>
    BY <1>1 DEF fcVars
  <2>2. BothAnswered(linkState'.nonce)
    BY <2>1 DEF BothAnswered
  <2>3. IsPending /\ linkState'.nonce = linkState.nonce
    BY <1>2, <2>2, AnsweredWasChallenged DEF GcEffect
  <2>4. /\ lastAnswer = linkState.nonce
        /\ \A m \in Link : Challengeable(m) /\ dataLink = m => m = linkState.nonce
    BY <1>1, <2>2, <2>3 DEF HandshakeOK
  <2>5. \A m \in Link : Challengeable(m)' => Challengeable(m) \/ linkState'.nonce = m
    BY <1>2 DEF GcEffect
  <2> QED
    BY <2>1, <2>3, <2>4, <2>5
<1> QED
  BY <1>3, <1>5, <1>6, <1>7 DEF BInv

(* The flight controller: it is on the outstanding link or on one that no    *)
(* nonce was drawn for.                                                      *)
LEMMA FcStepBInv ==
    ASSUME BInv, IInv', FcStep
    PROVE  BInv'
<1>1. /\ IInv /\ FcOK /\ HistoryOK /\ AirOK /\ EndsOK /\ HandshakeOK
      /\ UNCHANGED <<vars, written>>
  BY DEF BInv, FcStep
<1>2. [FcEnd!Next]_(FcEnd!vars) /\ UNCHANGED nonceSent
  BY DEF FcStep, FcEstablishes, FcAnswers, FcForwards, FcManagesLink, fcVars,
         FcEnd!Next, FcEnd!vars, FcEnd!Activate, FcEnd!AnswerNonce, FcEnd!Discard,
         FcEnd!StartAnew, FcEnd!Request, FcEnd!Close
<1>3. FcOK' /\ FcEffect
  BY <1>1, <1>2, FcStepEffect
<1>4. \A l \in Link : /\ Established(l) => Established(l)'
                      /\ Challengeable(l) <=> Challengeable(l)'
                      /\ BothAnswered(l) => BothAnswered(l)'
  BY <1>1, <1>3 DEF FcEffect, Challengeable, BothAnswered, vars
<1>5. EndsOK'
  <2>1. /\ \A l \in Link : inLink'[l] # "none" => Established(l)'
        /\ \A l \in Link : challenge'[l] = "answered" => BothAnswered(l)'
    BY <1>1, <1>4 DEF EndsOK, vars
  <2>2. /\ \A l \in nonceSent : Challengeable(l)'
        /\ \A l \in written : BothAnswered(l)'
    BY <1>1, <1>4 DEF EndsOK, FcOK, HistoryOK
  <2> QED
    BY <1>1, <1>2, <2>1, <2>2 DEF EndsOK
<1>6. CASE FcAnswers
  <2>1. /\ dataLink \in nonceSent /\ lastAnswer' = dataLink
        /\ answers' = answers \cup {<<dataLink, dataLink>>}
        /\ UNCHANGED dataLink
        /\ Send({Answer(a) : a \in answers' \ answers})
    BY <1>6 DEF FcAnswers, FcEnd!AnswerNonce, FcEnd!AnswerTo
  <2>2. dataLink \in Link /\ Challengeable(dataLink)
    BY <1>1, <2>1 DEF FcOK, EndsOK
  <2>3. AirOK'
    <3> DEFINE ps == {Answer(a) : a \in answers' \ answers}
    <3>1. air' \subseteq air \cup ps
      BY <2>1, SendReceive
    <3>2. ps \subseteq {Answer(<<dataLink, dataLink>>)}
      BY <2>1
    <3>3. BothAnswered(dataLink)'
      BY <2>1 DEF BothAnswered
    <3>4. ps \subseteq Packet /\ \A p \in ps : PacketOK(p)'
      BY <2>1, <2>2, <3>2, <3>3, AnswerPacket DEF PacketOK, BothAnswered
    <3> HIDE DEF ps
    <3> QED
      BY <1>1, <1>4, <3>1, <3>4, AirStays
  <2>4. HandshakeOK'
    <3> SUFFICES ASSUME IsPending, BothAnswered(linkState.nonce)'
                 PROVE  linkState.nonce = dataLink
      BY <1>1, <2>1 DEF HandshakeOK, vars, IsPending
    <3>1. CASE BothAnswered(linkState.nonce)
      BY <1>1, <2>2, <3>1 DEF HandshakeOK
    <3>2. CASE ~BothAnswered(linkState.nonce)
      BY <1>1, <2>1, <3>2 DEF BothAnswered, vars
    <3> QED
      BY <3>1, <3>2
  <2>5. HistoryOK'
    BY <1>1, <2>1, <2>2 DEF HistoryOK
  <2> QED
    BY <1>3, <1>5, <2>3, <2>4, <2>5 DEF BInv
<1>7. CASE ~FcAnswers
  <2>1. UNCHANGED <<lastAnswer, answers>>
    BY <1>7 DEF FcStep, FcEstablishes, FcForwards, FcManagesLink, fcVars,
                FcEnd!Activate, FcEnd!Discard, FcEnd!StartAnew, FcEnd!Request,
                FcEnd!Close
  <2>2. AirOK'
    <3>1. ASSUME NEW l \in Link, FcEstablishes(l)
          PROVE  AirOK'
      <4>1. Established(l)' /\ air' \subseteq air \cup {Plain("setup", l)}
        BY <1>1, <3>1, SendReceive
        DEF FcEstablishes, FcEnd!Activate, Established, FcOK, StatusType
      <4>2. Plain("setup", l) \in Packet /\ PacketOK(Plain("setup", l))'
        BY <4>1, PlainPacket DEF PacketOK
      <4> QED
        BY <1>1, <1>4, <4>1, <4>2, AirGains
    <3>2. CASE FcForwards
      <4>1. PICK l \in Link : air' \subseteq air \cup {Plain("up", l)}
        BY <1>1, <3>2, SendReceive DEF FcForwards, FcOK
      <4>2. Plain("up", l) \in Packet /\ PacketOK(Plain("up", l))'
        BY PlainPacket DEF PacketOK
      <4> QED
        BY <1>1, <1>4, <4>1, <4>2, AirGains
    <3>3. CASE FcManagesLink
      <4>1. air' \subseteq air
        BY <3>3 DEF FcManagesLink, Quiet
      <4> QED
        BY <1>1, <1>4, <4>1, AirGains
    <3> QED
      BY <1>7, <3>1, <3>2, <3>3 DEF FcStep
  <2>3. HandshakeOK'
    <3> SUFFICES ASSUME IsPending, BothAnswered(linkState.nonce)
                 PROVE  /\ lastAnswer = linkState.nonce
                        /\ \A m \in Link : Challengeable(m) /\ dataLink' = m
                                              => m = linkState.nonce
      BY <1>1, <1>4, <2>1 DEF HandshakeOK, vars, IsPending, BothAnswered
    <3>1. /\ lastAnswer = linkState.nonce
          /\ \A m \in Link : Challengeable(m) /\ dataLink = m => m = linkState.nonce
      BY <1>1 DEF HandshakeOK
    <3>2. \A m \in Link : Challengeable(m) => Established(m)
      BY AnsweredWasChallenged
    <3> QED
      BY <1>3, <3>1, <3>2, BridgeAssumption DEF FcEffect
  <2>4. HistoryOK'
    BY <1>1, <2>1 DEF HistoryOK
  <2> QED
    BY <1>3, <1>5, <2>2, <2>3, <2>4 DEF BInv
<1> QED
  BY <1>6, <1>7

(* The radio: a packet that arrives tells the truth of its sender.           *)
LEMMA RadioBInv ==
    ASSUME BInv, IInv', NEW l \in Link,
           DeliverToGc(l) \/ DeliverNonce(l) \/ DeliverGroundData(l)
    PROVE  BInv'
<1>1. /\ IInv /\ FcOK /\ HistoryOK /\ AirOK /\ EndsOK /\ HandshakeOK
      /\ inLink \in InLinkType /\ challenge \in ChallengeType
  BY DEF BInv, IInv, TypeOK, InLinkType, ChallengeType
<1>2. \A p : Receive(p) => air' \subseteq air /\ PacketOK(p)
  BY <1>1, SendReceive DEF AirOK
<1>3. CASE DeliverToGc(l)
  <2>1. UNCHANGED <<fcVars, lastAnswer, written, linkState>> /\ air' \subseteq air
    BY <1>2, <1>3 DEF DeliverToGc, LinkUp, PeerAnswers, PeerSends
  <2>2. /\ \A m \in Link : inLink'[m] # "none" => Established(m)
        /\ \A m \in Link : challenge'[m] = "answered" => BothAnswered(m)
        /\ \A m \in Link : Challengeable(m) <=> Challengeable(m)'
    <3>1. CASE Receive(Plain("setup", l)) /\ LinkUp(l)
      <4>1. Established(l)
        BY <1>2, <3>1, PlainPacket DEF PacketOK
      <4>2. /\ inLink' = [inLink EXCEPT ![l] = "open"]
            /\ UNCHANGED challenge
        BY <3>1 DEF LinkUp
      <4> QED
        BY <1>1, <4>1, <4>2 DEF EndsOK, InLinkType, Challengeable
    <3>2. CASE Receive(Answer(<<l, l>>)) /\ PeerAnswers(l)
      <4>1. BothAnswered(l)
        BY <1>2, <3>2, AnswerPacket DEF PacketOK
      <4>2. /\ challenge[l] = "sent" /\ UNCHANGED inLink
            /\ challenge' = [challenge EXCEPT ![l] = "answered"]
        BY <3>2 DEF PeerAnswers
      <4> QED
        BY <1>1, <4>1, <4>2 DEF EndsOK, ChallengeType, Challengeable
    <3>3. CASE Receive(Plain("up", l)) /\ PeerSends(l)
      BY <1>1, <3>3 DEF EndsOK, PeerSends, Challengeable
    <3> QED
      BY <1>3, <3>1, <3>2, <3>3 DEF DeliverToGc
  <2>3. FcOK' /\ HistoryOK'
    BY <1>1, <2>1 DEF FcOK, FcEnd!Open, HistoryOK, fcVars
  <2>4. /\ UNCHANGED <<dataLink, nonceSent>>
        /\ \A m \in Link : /\ Established(m) <=> Established(m)'
                           /\ BothAnswered(m) <=> BothAnswered(m)'
    BY <2>1 DEF Established, BothAnswered, fcVars
  <2>5. AirOK'
    BY <1>1, <2>1, <2>2, <2>4, AirGains
  <2>6. EndsOK'
    BY <1>1, <2>1, <2>2, <2>4 DEF EndsOK, FcOK, HistoryOK
  <2>7. HandshakeOK'
    BY <1>1, <2>1, <2>2, <2>4 DEF HandshakeOK, IsPending, BothAnswered, fcVars
  <2> QED
    BY <2>3, <2>5, <2>6, <2>7 DEF BInv
<1>4. CASE DeliverNonce(l)
  <2>1. /\ Receive(Plain("nonce", l)) /\ FcEnd!GetNonce(l)
        /\ UNCHANGED <<vars, lastAnswer, written>>
    BY <1>4 DEF DeliverNonce
  <2>2. Challengeable(l) /\ air' \subseteq air
    BY <1>2, <2>1, PlainPacket DEF PacketOK
  <2>3. nonceSent' = nonceSent \cup {l} /\ UNCHANGED <<dataLink, status, answers>>
    BY <2>1 DEF FcEnd!GetNonce
  <2>4. FcOK' /\ HistoryOK'
    BY <1>1, <2>1, <2>3 DEF FcOK, FcEnd!Open, HistoryOK
  <2>5. \A m \in Link : /\ Established(m) <=> Established(m)'
                        /\ Challengeable(m) <=> Challengeable(m)'
                        /\ BothAnswered(m) <=> BothAnswered(m)'
    BY <2>1, <2>3 DEF Established, Challengeable, BothAnswered, vars
  <2>6. AirOK'
    BY <1>1, <2>2, <2>5, AirGains
  <2>7. EndsOK'
    BY <1>1, <2>1, <2>2, <2>3, <2>5 DEF EndsOK, FcOK, HistoryOK, vars
  <2>8. HandshakeOK'
    BY <1>1, <2>1, <2>3, <2>5 DEF HandshakeOK, IsPending, BothAnswered, vars
  <2> QED
    BY <1>1, <2>1, <2>4, <2>6, <2>7, <2>8 DEF BInv
<1>5. CASE DeliverGroundData(l)
  <2>1. /\ Receive(Plain("down", l)) /\ written' = written \cup {l}
        /\ UNCHANGED <<vars, fcVars, lastAnswer>>
    BY <1>5 DEF DeliverGroundData
  <2>2. BothAnswered(l) /\ air' \subseteq air
    BY <1>2, <2>1, PlainPacket DEF PacketOK
  <2>3. FcOK' /\ HistoryOK'
    BY <1>1, <2>1 DEF FcOK, FcEnd!Open, HistoryOK, fcVars
  <2>4. \A m \in Link : /\ Established(m) <=> Established(m)'
                        /\ Challengeable(m) <=> Challengeable(m)'
                        /\ BothAnswered(m) <=> BothAnswered(m)'
    BY <2>1 DEF Established, Challengeable, BothAnswered, vars, fcVars
  <2>5. AirOK'
    BY <1>1, <2>2, <2>4, AirGains
  <2>6. EndsOK'
    BY <1>1, <2>1, <2>2, <2>4 DEF EndsOK, FcOK, HistoryOK, vars, fcVars
  <2>7. HandshakeOK'
    BY <1>1, <2>1, <2>4 DEF HandshakeOK, IsPending, BothAnswered, vars, fcVars
  <2> QED
    BY <1>1, <2>1, <2>3, <2>5, <2>6, <2>7 DEF BInv
<1> QED
  BY <1>3, <1>4, <1>5

(* Every step of the bridge keeps it.                                        *)
LEMMA NextBInv == BInv /\ [BridgeNext]_bridgeVars => BInv'
<1> SUFFICES ASSUME BInv, [BridgeNext]_bridgeVars PROVE BInv'
  OBVIOUS
<1>1. IInv'
  BY GroundControlStep, NextIInv DEF BInv
<1>2. CASE GcStep \/ FcStep
  BY <1>1, <1>2, GcStepBInv, FcStepBInv
<1>3. CASE \E l \in Link : DeliverToGc(l) \/ DeliverNonce(l) \/ DeliverGroundData(l)
  BY <1>1, <1>3, RadioBInv
<1>4. CASE HearAnnounce \/ Lose \/ UNCHANGED bridgeVars
  <2>1. /\ UNCHANGED <<linkState, inLink, challenge, fcVars, lastAnswer, written>>
        /\ air' \subseteq air
    BY <1>4, SendReceive DEF HearAnnounce, FcAnnounces, Lose, Quiet, bridgeVars, vars
  <2>2. \A m \in Link : /\ Established(m) <=> Established(m)'
                        /\ Challengeable(m) <=> Challengeable(m)'
                        /\ BothAnswered(m) <=> BothAnswered(m)'
    BY <2>1 DEF Established, Challengeable, BothAnswered, fcVars
  <2>3. AirOK'
    BY <2>1, <2>2, AirGains DEF BInv
  <2>4. FcOK' /\ HistoryOK'
    BY <2>1 DEF BInv, FcOK, FcEnd!Open, HistoryOK, fcVars
  <2>5. EndsOK'
    BY <2>1, <2>2 DEF BInv, FcOK, HistoryOK, EndsOK, fcVars
  <2>6. HandshakeOK'
    BY <2>1, <2>2 DEF BInv, HandshakeOK, IsPending, BothAnswered, fcVars
  <2> QED
    BY <1>1, <2>3, <2>4, <2>5, <2>6 DEF BInv
<1> QED
  BY <1>2, <1>3, <1>4 DEF BridgeNext

(* It holds in every state.                                                  *)
LEMMA BridgeInductive == BridgeSpec => []BInv
<1> QED
  BY BridgeInitBInv, NextBInv, PTL DEF BridgeSpec

-----------------------------------------------------------------------------
(* The theorems.                                                             *)

(* The variables of the two ends and of the radio have their types.          *)
THEOREM BridgeTypeCorrect == BridgeSpec => []BridgeTypeOK
<1>1. BInv => BridgeTypeOK
  BY DEF BInv, IInv, FcOK, HistoryOK, AirOK, StatusType, BridgeTypeOK
<1> QED
  BY <1>1, BridgeInductive, PTL

(* On a link that is in session at the ground control and active at the      *)
(* flight controller that one has answered, and it has no other link open or *)
(* held: after any restarts, discarded links, closed or not, and late        *)
(* packets the two are not on different live links.                          *)
THEOREM EndsAgree == BridgeSpec => []SessionAgreed
<1>1. BInv => SessionAgreed
  <2> SUFFICES ASSUME BInv, IsAuthenticated, status[linkState.link] = "active"
               PROVE  /\ BothAnswered(linkState.link)
                      /\ dataLink \in {linkState.link, NoLink}
                      /\ \A l \in Link : FcEnd!Open(l) => l = linkState.link
    BY DEF SessionAgreed, BothAnswered
  <2>1. linkState.link \in Link
    BY StateFields DEF BInv, IInv, TypeOK, IsAuthenticated
  <2>2. challenge[linkState.link] = "answered"
    BY DEF BInv, IInv, AuthenticatedIsFc
  <2>3. FcEnd!Open(linkState.link)
    BY DEF FcEnd!Open
  <2> QED
    BY <2>1, <2>2, <2>3 DEF BInv, FcOK, EndsOK
<1> QED
  BY <1>1, BridgeInductive, PTL

(* The serial port is written only over links on which the flight controller *)
(* has answered a nonce, though fc.rs does not look when it writes.          *)
THEOREM OnlyAnsweredWritten == BridgeSpec => []WrittenInSession
<1>1. BInv => WrittenInSession
  BY DEF BInv, EndsOK, WrittenInSession, BothAnswered
<1> QED
  BY <1>1, BridgeInductive, PTL

(* A session begins on the link the flight controller answered on last: an   *)
(* answer delayed past a later handshake opens none.                         *)
THEOREM OnLastAnswer == BridgeSpec => SessionOnLastAnswer
<1>1. ASSUME BInv, [BridgeNext]_bridgeVars, ~IsAuthenticated, IsAuthenticated'
      PROVE  linkState'.link = lastAnswer
  <2>1. IsPending /\ linkState.nonce = linkState'.link
    BY <1>1, GroundControlStep, StepFreshAnswer DEF BInv
  <2>2. BInv'
    BY <1>1, NextBInv
  <2>3. linkState'.link \in Link /\ challenge'[linkState'.link] = "answered"
    <3>1. linkState' \in LinkState /\ linkState'.tag = "Authenticated"
      BY <1>1, <2>2 DEF BInv, IInv, TypeOK, IsAuthenticated
    <3> QED
      BY <1>1, <2>2, <3>1, StateFields DEF BInv, IInv, AuthenticatedIsFc
  <2>4. <<linkState'.link, linkState'.link>> \in answers'
    BY <2>2, <2>3 DEF BInv, EndsOK, BothAnswered
  <2>5. CASE FcStep \/ UNCHANGED bridgeVars
    BY <1>1, <2>5 DEF FcStep, bridgeVars, vars, IsAuthenticated
  <2>6. CASE ~FcStep /\ ~UNCHANGED bridgeVars
    <3>1. CASE \E l \in Link : DeliverNonce(l)
      BY <1>1, <3>1 DEF DeliverNonce, vars, IsAuthenticated
    <3>2. CASE ~\E l \in Link : DeliverNonce(l)
      <4>1. UNCHANGED answers
        BY <1>1, <2>6, <3>2 DEF BridgeNext, GcStep, DeliverToGc, DeliverGroundData,
                                HearAnnounce, Lose, fcVars
      <4> QED
        BY <1>1, <2>1, <2>4, <4>1 DEF BInv, HandshakeOK, BothAnswered
    <3> QED
      BY <3>1, <3>2
  <2> QED
    BY <2>5, <2>6
<1>2. BInv /\ [BridgeNext]_bridgeVars =>
        [ ~IsAuthenticated /\ IsAuthenticated' => linkState'.link = lastAnswer ]_bridgeVars
  BY <1>1
<1> QED
  BY <1>2, BridgeInductive, PTL DEF BridgeSpec, SessionOnLastAnswer

=============================================================================

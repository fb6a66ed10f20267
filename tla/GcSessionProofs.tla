-------------------------- MODULE GcSessionProofs --------------------------
(***************************************************************************)
(* What GcLink promises beyond single states, for every value of its       *)
(* constants: a payload that waits for a key has an announce to come, a    *)
(* session begins only on the link whose nonce was asked for, no handler   *)
(* closes the link it leaves authenticated, a deadline is kept, and GcLink *)
(* implements AuthSession.  All of it rests on the inductive invariant of  *)
(* GcLinkProofs.                                                           *)
(***************************************************************************)
EXTENDS GcLinkProofs

(* What each kind of step does to the variables the session is made of:      *)
(* the answer to a challenge is handled with the facts of got_auth.          *)
LEMMA HandleAuthStep ==
    ASSUME IInv, HandleAuth
    PROVE  /\ UNCHANGED <<challenge, served, announces, keyKnown>>
           /\ \/ UNCHANGED linkState
              \/ /\ linkState.tag = "PendingAuth"
                 /\ linkState' \in LinkState
                 /\ linkState'.tag # "PendingAuth"
                 /\ linkState'.tag = "PendingKey" => ~keyKnown
                 /\ linkState'.tag = "Authenticated" =>
                       /\ linkState'.link \in Link
                       /\ linkState'.link = linkState.nonce
                       /\ Owner[linkState'.link] = Fc
                       /\ challenge[linkState'.link] = "answered"
<1> DEFINE l == Head(events).link
           auth == Head(events).auth
<1>1. l \in Link /\ auth \in AuthPayload /\ Genuine(l, auth, challenge)
  BY HeadFacts DEF HandleAuth, NextEvent
<1>2. UNCHANGED <<challenge, served, announces, keyKnown>>
  BY DEF HandleAuth, OthersUnchanged
<1>3. \/ linkState' = linkState
      \/ /\ linkState.tag = "PendingAuth"
         /\ linkState' = Verdict(l, linkState.due, linkState.nonce, auth)
  BY DEF HandleAuth
<1> HIDE DEF l, auth
<1>4. ASSUME linkState.tag = "PendingAuth",
             linkState' = Verdict(l, linkState.due, linkState.nonce, auth)
      PROVE  /\ linkState' \in LinkState
             /\ linkState'.tag # "PendingAuth"
             /\ linkState'.tag = "PendingKey" => ~keyKnown
             /\ linkState'.tag = "Authenticated" =>
                   /\ linkState'.link = l
                   /\ auth.dest = Fc
                   /\ auth.nonce = linkState.nonce
  <2>1. linkState.due \in BOOLEAN /\ linkState.nonce \in Nonce
    BY <1>4, StateFields DEF IInv, TypeOK
  <2> QED
    BY <1>1, <1>4, <2>1, VerdictFacts
<1> QED
  BY <1>1, <1>2, <1>3, <1>4 DEF Genuine

(* An announce either finds no payload waiting or settles the one that does. *)
LEMMA HandleFcAnnounceStep ==
    ASSUME IInv, HandleFcAnnounce
    PROVE  /\ UNCHANGED <<challenge, served, keyKnown>>
           /\ \/ UNCHANGED linkState /\ linkState.tag # "PendingKey"
              \/ linkState' = Disconnected
              \/ /\ linkState.tag = "PendingKey"
                 /\ linkState' \in LinkState
                 /\ linkState'.tag = "Authenticated"
                 /\ linkState'.link \in Link
                 /\ linkState'.link = linkState.nonce
                 /\ Owner[linkState'.link] = Fc
                 /\ challenge[linkState'.link] = "answered"
<1>1. UNCHANGED <<challenge, served, keyKnown>>
  BY DEF HandleFcAnnounce
<1>2. \/ UNCHANGED linkState /\ linkState.tag # "PendingKey"
      \/ linkState' = Disconnected
      \/ /\ linkState.tag = "PendingKey"
         /\ linkState.auth.nonce = linkState.nonce
         /\ linkState' = Authenticated(linkState.link)
  BY DEF HandleFcAnnounce, ValidSignature
<1>3. ASSUME linkState.tag = "PendingKey",
             linkState.auth.nonce = linkState.nonce,
             linkState' = Authenticated(linkState.link)
      PROVE  /\ linkState' \in LinkState
             /\ linkState'.tag = "Authenticated"
             /\ linkState'.link \in Link
             /\ linkState'.link = linkState.nonce
             /\ Owner[linkState'.link] = Fc
             /\ challenge[linkState'.link] = "answered"
  <2>1. linkState.link \in Link
    BY <1>3, StateFields DEF IInv, TypeOK
  <2>2. /\ linkState' \in LinkState /\ linkState'.tag = "Authenticated"
        /\ linkState'.link = linkState.link
    BY <1>3, <2>1 DEF Authenticated, LinkState
  <2>3. linkState.auth.dest = Fc /\ Genuine(linkState.link, linkState.auth, challenge)
    BY <1>3 DEF IInv, KeptPayloadOK
  <2> QED
    BY <1>3, <2>1, <2>2, <2>3 DEF Genuine
<1> QED
  BY <1>1, <1>2, <1>3

(* The other steps never make the state wait for a key or authenticate it.   *)
LEMMA OtherStep ==
    ASSUME IInv, [Next]_vars, ~HandleAuth, ~HandleFcAnnounce
    PROVE  /\ linkState'.tag = "PendingKey" =>
                 /\ linkState.tag = "PendingKey"
                 /\ \/ UNCHANGED <<announces, keyKnown>>
                    \/ announces' > 0
           /\ \/ UNCHANGED linkState
              \/ linkState'.tag # "Authenticated"
<1> USE DisconnectedState
<1>1. linkState \in LinkState /\ announces \in Nat
  BY DEF IInv, TypeOK
<1>2. CASE HandleActivated
  <2>1. \/ UNCHANGED linkState
        \/ \E l \in Link : linkState' = PendingAuth(FALSE, l, l)
    BY <1>2, HeadFacts DEF HandleActivated, NextEvent
  <2>2. UNCHANGED linkState \/ linkState'.tag = "PendingAuth"
    BY <2>1 DEF PendingAuth
  <2>3. UNCHANGED <<announces, keyKnown>>
    BY <1>2 DEF HandleActivated, OthersUnchanged
  <2> QED
    BY <1>1, <2>2, <2>3
<1>3. CASE HandleData \/ \E l \in Link : LinkStep(l)
  <2>1. UNCHANGED <<linkState, announces, keyKnown>>
    BY <1>3 DEF HandleData, LinkStep, LinkUp, LinkDown, Forget, PeerAnswers,
                ChallengeLost, PeerSends, OthersUnchanged
  <2> QED
    BY <1>1, <2>1
<1>4. CASE HandleClosed \/ AnnounceTick \/ AnnounceLag \/ Restart
  <2>1. linkState'.tag = "Disconnected"
    BY <1>4 DEF HandleClosed, AnnounceTick, AnnounceLag, Restart, ResetProcess
  <2> QED
    BY <2>1
<1>5. CASE StationFound \/ StationSilent \/ ForwardGroundData \/ UNCHANGED vars
  <2>1. UNCHANGED <<linkState, announces, keyKnown>>
    BY <1>5 DEF StationFound, StationSilent, ForwardGroundData, vars
  <2> QED
    BY <1>1, <2>1
<1>6. CASE FcAnnounces
  <2>1. UNCHANGED linkState /\ announces' = announces + 1
    BY <1>6 DEF FcAnnounces
  <2> QED
    BY <1>1, <2>1
<1>7. CASE DeadlinePasses
  <2>1. IsPending /\ linkState' = [linkState EXCEPT !.due = TRUE]
        /\ UNCHANGED <<announces, keyKnown>>
    BY <1>7 DEF DeadlinePasses, OthersUnchanged
  <2>2. linkState'.tag = linkState.tag
    BY <1>1, <2>1 DEF LinkState, IsPending, Disconnected
  <2> QED
    BY <1>1, <2>1, <2>2 DEF IsPending
<1>8. CASE LockUp
  <2>1. UNCHANGED <<linkState, keyKnown>>
    BY <1>8 DEF LockUp
  <2>2. linkState.tag = "PendingAuth" \/ UNCHANGED announces
    BY <1>8 DEF LockUp, AuthMeetsAnnounce, CloseWhileLocked
  <2> QED
    BY <1>1, <2>1, <2>2
<1> QED
  BY <1>2, <1>3, <1>4, <1>5, <1>6, <1>7, <1>8 DEF Next, HandleEvent

-----------------------------------------------------------------------------
(* A waiting payload.                                                        *)

(* Every step keeps an announce to come for a payload that waits.            *)
LEMMA NextKeyAnnounceWaits ==
    IInv /\ KeyAnnounceWaits /\ [Next]_vars => KeyAnnounceWaits'
<1> SUFFICES ASSUME IInv, KeyAnnounceWaits, [Next]_vars,
                    linkState'.tag = "PendingKey", keyKnown'
             PROVE  announces' > 0
  BY DEF KeyAnnounceWaits
<1>1. announces \in Nat
  BY DEF IInv, TypeOK
<1>2. CASE HandleAuth
  BY <1>2, HandleAuthStep DEF KeyAnnounceWaits
<1>3. CASE HandleFcAnnounce
  BY <1>3, HandleFcAnnounceStep, DisconnectedState
<1>4. CASE ~HandleAuth /\ ~HandleFcAnnounce
  <2>1. /\ linkState.tag = "PendingKey"
        /\ UNCHANGED <<announces, keyKnown>> \/ announces' > 0
    BY <1>4, OtherStep
  <2>2. CASE UNCHANGED <<announces, keyKnown>>
    BY <2>1, <2>2, Zenon DEF KeyAnnounceWaits
  <2> QED
    BY <2>1, <2>2
<1> QED
  BY <1>2, <1>3, <1>4

(* A payload never waits in PendingKey for a key that is known already       *)
(* without an announce to come: nothing but an announce looks again.         *)
THEOREM WaitsForAnnounce == Spec => []KeyAnnounceWaits
<1>1. Init => KeyAnnounceWaits
  BY DisconnectedState DEF Init, KeyAnnounceWaits
<1> QED
  BY <1>1, NextKeyAnnounceWaits, Inductive, PTL DEF Spec

-----------------------------------------------------------------------------
(* The beginning of a session.                                               *)

(* Only an answer to the outstanding nonce, at once or kept, begins one.     *)
LEMMA StepFreshAnswer ==
    ASSUME IInv, [Next]_vars, ~IsAuthenticated, IsAuthenticated'
    PROVE  IsPending /\ linkState.nonce = linkState'.link
<1>1. CASE HandleAuth
  BY <1>1, HandleAuthStep DEF IsAuthenticated, IsPending
<1>2. CASE HandleFcAnnounce
  BY <1>2, HandleFcAnnounceStep, DisconnectedState DEF IsAuthenticated, IsPending
<1>3. CASE ~HandleAuth /\ ~HandleFcAnnounce
  BY <1>3, OtherStep DEF IsAuthenticated
<1> QED
  BY <1>1, <1>2, <1>3

(* A session begins on the link whose nonce is the outstanding challenge,    *)
(* although got_auth goes on with an answer that came on another link.       *)
THEOREM OnlyFreshAnswers == Spec => FreshAnswer
<1>1. IInv /\ [Next]_vars =>
        [ ~IsAuthenticated /\ IsAuthenticated'
              => IsPending /\ linkState.nonce = linkState'.link ]_vars
  BY StepFreshAnswer
<1> QED
  BY <1>1, Inductive, PTL DEF Spec, FreshAnswer


-----------------------------------------------------------------------------
(* The challenged link and the deadline.                                     *)

(* The nonce that PendingAuth waits for was drawn for the link it holds.     *)
AskedOnItsLink ==
    linkState.tag = "PendingAuth" => linkState.link = linkState.nonce

(* A step that leaves a nonce outstanding drew it now, kept the state as it  *)
(* was, had the deadline pass, or moved the payload and the deadline of      *)
(* PendingAuth to PendingKey.                                                *)
LEMMA PendingStep ==
    ASSUME IInv, [Next]_vars, IsPending'
    PROVE  \/ UNCHANGED linkState
           \/ /\ linkState.tag = "Disconnected"
              /\ linkState'.tag = "PendingAuth"
              /\ linkState'.link = linkState'.nonce
           \/ /\ IsPending
              /\ linkState'.tag = linkState.tag
              /\ linkState'.link = linkState.link
              /\ linkState'.nonce = linkState.nonce
              /\ linkState'.due = TRUE
           \/ /\ linkState.tag = "PendingAuth"
              /\ linkState'.tag = "PendingKey"
              /\ linkState'.due = linkState.due
<1> USE DisconnectedState
<1>1. CASE HandleActivated
  <2>1. \/ UNCHANGED linkState
        \/ /\ linkState = Disconnected
           /\ \E l \in Link : linkState' = PendingAuth(FALSE, l, l)
    BY <1>1, HeadFacts DEF HandleActivated, NextEvent
  <2> QED
    BY <2>1 DEF PendingAuth
<1>2. CASE HandleAuth
  <2>1. \/ UNCHANGED linkState
        \/ /\ linkState.tag = "PendingAuth"
           /\ linkState' = Verdict(Head(events).link, linkState.due,
                                   linkState.nonce, Head(events).auth)
    BY <1>2 DEF HandleAuth
  <2> QED
    BY <2>1 DEF Verdict, PendingKey, Authenticated, Disconnected, IsPending
<1>3. CASE DeadlinePasses
  <2>1. linkState \in LinkState /\ IsPending
        /\ linkState' = [linkState EXCEPT !.due = TRUE]
    BY <1>3 DEF IInv, TypeOK, DeadlinePasses
  <2> QED
    BY <2>1 DEF LinkState, IsPending, Disconnected
<1>4. CASE HandleFcAnnounce
  BY <1>4 DEF HandleFcAnnounce, Authenticated, IsPending
<1>5. CASE HandleClosed \/ AnnounceTick \/ AnnounceLag \/ Restart
  <2>1. linkState'.tag = "Disconnected"
    BY <1>5 DEF HandleClosed, AnnounceTick, AnnounceLag, Restart, ResetProcess
  <2> QED
    BY <2>1 DEF IsPending
<1>6. CASE \/ HandleData \/ LockUp \/ StationFound \/ StationSilent \/ ForwardGroundData
           \/ FcAnnounces \/ UNCHANGED vars \/ \E l \in Link : LinkStep(l)
  BY <1>6 DEF HandleData, LockUp, StationFound, StationSilent, ForwardGroundData,
              FcAnnounces, vars, LinkStep, LinkUp, LinkDown, Forget, PeerAnswers,
              ChallengeLost, PeerSends
<1> QED
  BY <1>1, <1>2, <1>3, <1>4, <1>5, <1>6 DEF Next, HandleEvent

(* So it stays true that the nonce was drawn for the link that is held.      *)
LEMMA AskedInductive == Spec => []AskedOnItsLink
<1>1. Init => AskedOnItsLink
  BY DisconnectedState DEF Init, AskedOnItsLink
<1>2. IInv /\ AskedOnItsLink /\ [Next]_vars => AskedOnItsLink'
  BY PendingStep DEF AskedOnItsLink, IsPending
<1> QED
  BY <1>1, <1>2, Inductive, PTL DEF Spec

(* While its nonce is outstanding, a deadline that has passed stays passed:  *)
(* the payload that waits for a key does not start the time over.            *)
THEOREM OneDeadline == Spec => DeadlineKept
<1>1. ASSUME IInv, [Next]_vars, IsPending, IsPending', linkState.due
      PROVE  linkState'.due
  BY <1>1, PendingStep DEF IsPending
<1>2. IInv /\ [Next]_vars =>
        [ IsPending /\ IsPending' /\ linkState'.nonce = linkState.nonce
              => (linkState.due => linkState'.due) ]_vars
  BY <1>1
<1> QED
  BY <1>2, Inductive, PTL DEF Spec, DeadlineKept

(* The handler of an event leaves the link it holds authenticated as the     *)
(* transport had it: stray data and stray answers close other links only.    *)
LEMMA StepKeepsLink ==
    ASSUME IInv, AskedOnItsLink, HandleEvent, linkState'.tag = "Authenticated"
    PROVE  inLink'[linkState'.link] = inLink[linkState'.link]
<1> USE DisconnectedState
<1>1. inLink \in InLinkType
  BY DEF IInv, TypeOK, InLinkType
<1>2. CASE HandleActivated
  BY <1>2 DEF HandleActivated, KeepLink, PendingAuth
<1>3. CASE HandleData
  <2>1. /\ UNCHANGED linkState
        /\ \/ KeepLink(Tail(events))
           \/ \E stray \in ClosedOnData(Head(events).link) :
                 CloseLink(stray, Tail(events))
    BY <1>3 DEF HandleData
  <2>2. ClosedOnData(Head(events).link) \subseteq Link \ {linkState.link}
    BY <1>3, <2>1, HeadFacts DEF HandleData, NextEvent, ClosedOnData, IsAuthenticated
  <2>3. linkState.link \in Link
    BY <2>1, StateFields DEF IInv, TypeOK
  <2>4. ASSUME NEW stray \in Link, stray # linkState.link,
               CloseLink(stray, Tail(events))
        PROVE  inLink'[linkState.link] = inLink[linkState.link]
    BY <1>1, <2>3, <2>4 DEF KeepLink, CloseLink, InLinkType
  <2> QED
    BY <2>1, <2>2, <2>4 DEF KeepLink
<1>4. CASE HandleAuth
  <2> DEFINE l == Head(events).link
             auth == Head(events).auth
  <2>1. l \in Link /\ auth \in AuthPayload /\ Genuine(l, auth, challenge)
    BY <1>4, HeadFacts DEF HandleAuth, NextEvent
  <2>2. \/ KeepLink(Tail(events))
        \/ /\ linkState.tag = "PendingAuth"
           /\ linkState.link # l
           /\ linkState' = Verdict(l, linkState.due, linkState.nonce, auth)
    BY <1>4 DEF HandleAuth
  <2> HIDE DEF l, auth
  <2>3. ASSUME linkState.tag = "PendingAuth",
               linkState' = Verdict(l, linkState.due, linkState.nonce, auth)
        PROVE  linkState.link = l
    <3>1. linkState.due \in BOOLEAN /\ linkState.nonce \in Nonce
      BY <2>3, StateFields DEF IInv, TypeOK
    <3>2. auth.nonce = linkState.nonce
      BY <2>1, <2>3, <3>1, VerdictFacts
    <3> QED
      BY <2>1, <2>3, <3>2 DEF Genuine, AskedOnItsLink
  <2> QED
    BY <2>2, <2>3 DEF KeepLink
<1>5. CASE HandleClosed
  BY <1>5 DEF HandleClosed
<1> QED
  BY <1>2, <1>3, <1>4, <1>5 DEF HandleEvent

(* Handling an event never leaves the ground control authenticated on a link *)
(* that the same handler has closed.                                         *)
THEOREM SessionLinkKeptOpen == Spec => KeepsSessionLinkOpen
<1>1. IInv /\ AskedOnItsLink /\ [Next]_vars =>
        [ IsAuthenticated' /\ inLink'[linkState'.link] # inLink[linkState'.link]
              => ~HandleEvent ]_vars
  BY StepKeepsLink DEF IsAuthenticated
<1> QED
  BY <1>1, Inductive, AskedInductive, PTL DEF Spec, KeepsSessionLinkOpen

-----------------------------------------------------------------------------
(* The session as AuthSession sees it.                                       *)

(* There is at most one link in session: the one held, when authenticated.   *)
LEMMA InSessionIs ==
    ASSUME linkState \in LinkState
    PROVE  /\ linkState.tag = "Authenticated" =>
                 linkState.link \in Link /\ InSession = {linkState.link}
           /\ linkState.tag # "Authenticated" => InSession = {}
<1>1. linkState.tag = "Authenticated" => linkState.link \in Link
  BY StateFields
<1> QED
  BY <1>1 DEF InSession, IsAuthenticated, Holds

(* A challenge is answered by PeerAnswers and stays answered: in every other *)
(* step the answered challenges are what they were.                          *)
LEMMA AnsweredStep ==
    ASSUME IInv, [Next]_vars
    PROVE  \/ UNCHANGED Answered
           \/ \E l \in Link :
                 /\ Answered' = Answered \cup {l}
                 /\ UNCHANGED <<linkState, served>>
<1>1. challenge \in ChallengeType /\ linkState \in LinkState
  BY DEF IInv, TypeOK, ChallengeType
<1>2. CASE UNCHANGED challenge
  BY <1>2 DEF Answered
<1>3. CASE HandleActivated
  <2> DEFINE l == Head(events).link
  <2>1. l \in Link /\ challenge[l] = "none"
    <3>1. /\ events \in Seq(LinkEvent) /\ events # <<>>
          /\ QueueOK(events, inLink, challenge) /\ Head(events).kind = "Activated"
      BY <1>3 DEF IInv, TypeOK, HandleActivated, NextEvent
    <3>2. Head(events) = events[1] /\ 1 \in 1..Len(events)
      BY <3>1
    <3> QED
      BY <3>1, <3>2, <1>3, HeadFacts DEF QueueOK
  <2>2. UNCHANGED challenge \/ challenge' = [challenge EXCEPT ![l] = "sent"]
    BY <1>3 DEF HandleActivated
  <2> HIDE DEF l
  <2> QED
    BY <1>1, <2>1, <2>2 DEF Answered, ChallengeType
<1>4. CASE AnnounceLag \/ Restart
  BY <1>1, <1>4 DEF AnnounceLag, Restart, ResetProcess, Answered, ChallengeType
<1>5. ASSUME NEW l \in Link, PeerAnswers(l)
      PROVE  /\ Answered' = Answered \cup {l}
             /\ UNCHANGED <<linkState, served>>
  BY <1>1, <1>5 DEF PeerAnswers, Answered, ChallengeType
<1>6. ASSUME NEW l \in Link, ChallengeLost(l)
      PROVE  UNCHANGED Answered
  BY <1>1, <1>6 DEF ChallengeLost, Answered, ChallengeType
<1>7. \/ UNCHANGED challenge \/ HandleActivated \/ AnnounceLag \/ Restart
      \/ \E l \in Link : PeerAnswers(l) \/ ChallengeLost(l)
  BY DEF Next, HandleEvent, HandleData, HandleAuth, HandleClosed, AnnounceTick,
         HandleFcAnnounce, LockUp, StationFound, StationSilent, ForwardGroundData,
         FcAnnounces, DeadlinePasses, LinkStep, LinkUp, LinkDown, Forget, PeerSends,
         OthersUnchanged, vars
<1> QED
  BY <1>2, <1>3, <1>4, <1>5, <1>6, <1>7

(* Traffic passes only over the link in session, which it leaves in session. *)
LEMMA ServedStep ==
    ASSUME IInv, [Next]_vars
    PROVE  \/ UNCHANGED served
           \/ /\ IsAuthenticated
              /\ served' = served \cup {linkState.link}
              /\ UNCHANGED <<linkState, challenge>>
<1>1. CASE HandleData
  <2> DEFINE l == Head(events).link
  <2>1. served' = served \cup ServedByData(l) /\ UNCHANGED <<linkState, challenge>>
    BY <1>1 DEF HandleData
  <2>2. \/ ServedByData(l) = {}
        \/ IsAuthenticated /\ ServedByData(l) = {linkState.link}
    BY DEF ServedByData
  <2> QED
    BY <2>1, <2>2
<1>2. CASE ForwardGroundData
  BY <1>2 DEF ForwardGroundData, ForwardTarget, Holds
<1>3. ~HandleData /\ ~ForwardGroundData => UNCHANGED served
  BY DEF Next, HandleEvent, HandleActivated, HandleAuth, HandleClosed, AnnounceTick,
         HandleFcAnnounce, LockUp, AnnounceLag, Restart, ResetProcess, StationFound,
         StationSilent, FcAnnounces, DeadlinePasses, LinkStep, LinkUp, LinkDown,
         Forget, PeerAnswers, ChallengeLost, PeerSends, OthersUnchanged, vars
<1> QED
  BY <1>1, <1>2, <1>3

(* The state changes to Authenticated from no session, over an answered      *)
(* challenge of Fc, and changes from it only to no session.                  *)
LEMMA SessionStep ==
    ASSUME IInv, [Next]_vars
    PROVE  \/ UNCHANGED linkState
           \/ linkState'.tag # "Authenticated"
           \/ /\ linkState.tag # "Authenticated"
              /\ linkState'.tag = "Authenticated"
              /\ linkState'.link \in FcLinks \cap Answered
              /\ UNCHANGED <<challenge, served>>
<1>1. CASE HandleAuth
  BY <1>1, HandleAuthStep DEF FcLinks, Answered
<1>2. CASE HandleFcAnnounce
  BY <1>2, HandleFcAnnounceStep, DisconnectedState DEF FcLinks, Answered
<1>3. CASE ~HandleAuth /\ ~HandleFcAnnounce
  BY <1>3, OtherStep
<1> QED
  BY <1>1, <1>2, <1>3

(* Every step of the ground control is a step of the session or none of it.  *)
LEMMA StepRefines == IInv /\ IInv' /\ [Next]_vars => [Session!Next]_(Session!sessionVars)
<1> SUFFICES ASSUME IInv, IInv', [Next]_vars
             PROVE  [Session!Next]_(Session!sessionVars)
  OBVIOUS
<1>1. linkState \in LinkState /\ linkState' \in LinkState
  BY DEF IInv, TypeOK
<1>2. /\ linkState.tag = "Authenticated" =>
            linkState.link \in Link /\ InSession = {linkState.link}
      /\ linkState.tag # "Authenticated" => InSession = {}
  BY <1>1, InSessionIs
<1>3. /\ linkState'.tag = "Authenticated" =>
            linkState'.link \in Link /\ InSession' = {linkState'.link}
      /\ linkState'.tag # "Authenticated" => InSession' = {}
  <2>1. linkState'.tag = "Authenticated" => linkState'.link \in Link
    BY <1>1, StateFields
  <2> QED
    BY <2>1 DEF InSession, IsAuthenticated, Holds
<1>4. UNCHANGED linkState => UNCHANGED InSession
  BY DEF InSession, IsAuthenticated, Holds
<1>5. UNCHANGED challenge => UNCHANGED Answered
  BY DEF Answered
<1>6. CASE ~UNCHANGED Answered
  <2>1. PICK l \in Link : /\ Answered' = Answered \cup {l}
                          /\ UNCHANGED <<linkState, served>>
    BY <1>6, AnsweredStep
  <2>2. Session!Answer(l)
    BY <1>4, <2>1 DEF Session!Answer
  <2> QED
    BY <2>1, <2>2 DEF Session!Next
<1>7. CASE ~UNCHANGED served
  <2>1. /\ IsAuthenticated /\ served' = served \cup {linkState.link}
        /\ UNCHANGED <<InSession, Answered>>
    BY <1>4, <1>5, <1>7, ServedStep
  <2>2. Session!Serve
    BY <1>2, <2>1 DEF Session!Serve, IsAuthenticated
  <2> QED
    BY <2>2 DEF Session!Next
<1>8. CASE UNCHANGED <<Answered, served>> /\ UNCHANGED linkState
  BY <1>4, <1>8 DEF Session!sessionVars
<1>9. CASE UNCHANGED <<Answered, served>> /\ linkState'.tag # "Authenticated"
  <2>1. InSession' = {}
    BY <1>3, <1>9
  <2>2. CASE InSession = {}
    BY <1>9, <2>1, <2>2 DEF Session!sessionVars
  <2>3. CASE InSession # {}
    BY <1>9, <2>1, <2>3 DEF Session!Next, Session!End
  <2> QED
    BY <2>2, <2>3
<1>10. CASE /\ UNCHANGED <<Answered, served>>
            /\ linkState.tag # "Authenticated"
            /\ linkState'.tag = "Authenticated"
            /\ linkState'.link \in FcLinks \cap Answered
  <2>1. InSession = {} /\ InSession' = {linkState'.link} /\ linkState'.link \in Link
    BY <1>2, <1>3, <1>10
  <2>2. Session!Begin(linkState'.link)
    BY <1>10, <2>1 DEF Session!Begin
  <2> QED
    BY <2>1, <2>2 DEF Session!Next
<1> QED
  BY <1>6, <1>7, <1>8, <1>9, <1>10, SessionStep

(* The ground control implements the session: at most one at a time, with    *)
(* Fc, over a link whose challenge was answered, and traffic only within it. *)
THEOREM ImplementsSession == Spec => SessionSpec
<1>1. Init => Session!Init
  <2> SUFFICES ASSUME Init PROVE Session!Init
    OBVIOUS
  <2>1. linkState.tag = "Disconnected"
    BY DisconnectedState DEF Init
  <2> QED
    BY <2>1 DEF Init, Session!Init, InSession, IsAuthenticated, Answered
<1> QED
  BY <1>1, StepRefines, Inductive, PTL DEF Spec, SessionSpec, Session!Spec

=============================================================================

-------------------------- MODULE GroundStationProofs --------------------------
(***************************************************************************)
(* Theorems about GroundStation, for every set of hosts, size of the       *)
(* subnet, inbox and number of restarts.  That the station is a host that  *)
(* was heard rests on the inbox: at any time its senders were all heard    *)
(* since the last station was given up, because that happens only when the *)
(* inbox is empty.                                                         *)
(***************************************************************************)
EXTENDS GroundStation, TLAPS

(* The senders of the datagrams that wait have been heard.                   *)
InboxHeard == \A i \in 1..Len(inbox) : inbox[i] \in heard

IInv == TypeOK /\ InboxHeard /\ StationHeard

-----------------------------------------------------------------------------
(* Taking a datagram off the inbox leaves senders that were heard.           *)
LEMMA TakeOne ==
    ASSUME IInv, inbox # <<>>
    PROVE  /\ Head(inbox) \in heard
           /\ Tail(inbox) \in Seq(Host)
           /\ Len(Tail(inbox)) <= InboxCap
           /\ \A i \in 1..Len(Tail(inbox)) : Tail(inbox)[i] \in heard
<1>1. inbox \in Seq(Host) /\ Len(inbox) \in Nat /\ Len(inbox) > 0 /\ Len(inbox) <= InboxCap
  BY DEF IInv, TypeOK
<1>2. Head(inbox) = inbox[1] /\ 1 \in 1..Len(inbox)
  BY <1>1
<1>3. Tail(inbox) \in Seq(Host) /\ Len(Tail(inbox)) = Len(inbox) - 1
  BY <1>1
<1>4. ASSUME NEW i \in 1..Len(Tail(inbox))
      PROVE  Tail(inbox)[i] = inbox[i + 1] /\ i + 1 \in 1..Len(inbox)
  BY <1>1, <1>3, <1>4
<1> QED
  BY <1>1, <1>2, <1>3, <1>4, ConstantsAssumption DEF IInv, InboxHeard

(* A datagram that arrives is lost, or its sender is heard.                  *)
LEMMA ArrivesOK ==
    ASSUME IInv, NEW h \in Host, Arrives(h)
    PROVE  /\ inbox' \in Seq(Host)
           /\ Len(inbox') <= InboxCap
           /\ heard \subseteq heard'
           /\ heard' \subseteq Host
           /\ InboxHeard'
<1>1. inbox \in Seq(Host) /\ Len(inbox) <= InboxCap /\ heard \subseteq Host
  BY DEF IInv, TypeOK
<1>2. CASE Len(inbox) < InboxCap
  <2>1. inbox' = Append(inbox, h) /\ heard' = heard \cup {h}
    BY <1>2 DEF Arrives
  <2>2. ASSUME NEW i \in 1..Len(inbox') PROVE inbox'[i] \in heard'
    <3>1. CASE i = Len(inbox) + 1
      BY <1>1, <2>1, <3>1
    <3>2. CASE i # Len(inbox) + 1
      <4>1. i \in 1..Len(inbox) /\ inbox'[i] = inbox[i]
        BY <1>1, <2>1, <2>2, <3>2
      <4> QED
        BY <2>1, <4>1 DEF IInv, InboxHeard
    <3> QED
      BY <3>1, <3>2
  <2>3. inbox' \in Seq(Host) /\ Len(inbox') = Len(inbox) + 1
    BY <1>1, <2>1
  <2> QED
    BY <1>1, <1>2, <2>1, <2>2, <2>3, ConstantsAssumption DEF InboxHeard
<1>3. CASE ~(Len(inbox) < InboxCap)
  BY <1>1, <1>3 DEF Arrives, IInv, InboxHeard
<1> QED
  BY <1>2, <1>3

-----------------------------------------------------------------------------
(* At the start nothing waits and there is no station.                       *)
LEMMA InitOK == Init => IInv
<1> SUFFICES ASSUME Init PROVE IInv
  OBVIOUS
<1>1. TypeOK
  BY ConstantsAssumption DEF Init, TypeOK, Searched
<1> QED
  BY <1>1 DEF Init, IInv, InboxHeard, StationHeard

(* socket_loop.                                                              *)
LEMMA SocketLoopOK == IInv /\ SocketLoop => IInv'
<1> SUFFICES ASSUME IInv, SocketLoop PROVE IInv'
  OBVIOUS
<1> USE DEF IInv, TypeOK, InboxHeard, StationHeard, envVars
<1>1. CASE UseConfigured
  BY <1>1 DEF UseConfigured, Heartbeat
<1>2. CASE BeginSearch
  BY <1>2, ConstantsAssumption DEF BeginSearch, Searched
<1>3. CASE Probe
  BY <1>3 DEF Probe, Heartbeat
<1>4. CASE GetReply
  BY <1>4, TakeOne DEF GetReply, Replier
<1>5. CASE WindowEnds
  <2>1. n' \in Searched
    BY <1>5, ConstantsAssumption DEF WindowEnds, NextHost, Searched
  <2> QED
    BY <1>5, <2>1 DEF WindowEnds
<1>6. CASE Receive
  BY <1>6, TakeOne DEF Receive
<1>7. CASE Silence
  BY <1>7 DEF Silence, NothingReceived, StationGivenUp
<1> QED
  BY <1>1, <1>2, <1>3, <1>4, <1>5, <1>6, <1>7 DEF SocketLoop

(* A new process has an empty inbox and no station.                          *)
LEMMA RestartOK == IInv /\ Restart => IInv'
<1> SUFFICES ASSUME IInv, Restart PROVE IInv'
  OBVIOUS
<1>1. restarts' \in 0..MaxRestarts /\ 2 \in Searched
  BY ConstantsAssumption DEF Restart, IInv, TypeOK, Searched
<1> QED
  BY <1>1, ConstantsAssumption
  DEF Restart, IInv, TypeOK, InboxHeard, StationHeard, envVars

(* What hosts and network do reaches the process by the inbox only.          *)
LEMMA NetworkOK ==
    ASSUME IInv,
           \/ \E h \in Host : Answers(h) \/ Speaks(h) \/ StationStartsOrStops(h)
           \/ NetworkChanges \/ SocketChanges
    PROVE  IInv'
<1>1. CASE \E h \in Host : Answers(h) \/ Speaks(h)
  <2> PICK h \in Host : Answers(h) \/ Speaks(h)
    BY <1>1
  <2>1. Arrives(h) /\ NetStep /\ UNCHANGED envVars /\ pending' \subseteq pending
    BY DEF Answers, Speaks
  <2> QED
    BY <2>1, ArrivesOK DEF NetStep, envVars, IInv, TypeOK, StationHeard
<1>2. CASE \E h \in Host : StationStartsOrStops(h)
  BY <1>2 DEF StationStartsOrStops, NetStep, IInv, TypeOK, InboxHeard, StationHeard
<1>3. CASE NetworkChanges
  BY <1>3 DEF NetworkChanges, NetStep, IInv, TypeOK, InboxHeard, StationHeard
<1>4. CASE SocketChanges
  BY <1>4 DEF SocketChanges, NetStep, IInv, TypeOK, InboxHeard, StationHeard
<1> QED
  BY <1>1, <1>2, <1>3, <1>4

(* The invariant holds in every reachable state.                             *)
LEMMA Inductive == Spec => []IInv
<1>1. IInv /\ [Next]_vars => IInv'
  <2>1. ASSUME IInv, UNCHANGED vars PROVE IInv'
    BY <2>1 DEF vars, envVars, IInv, TypeOK, InboxHeard, StationHeard
  <2> QED
    BY <2>1, SocketLoopOK, RestartOK, NetworkOK DEF Next
<1> QED
  BY <1>1, InitOK, PTL DEF Spec

(* Every variable keeps its type: in particular only hosts of the subnet are *)
(* probed and the inbox keeps its size.                                      *)
THEOREM TypeCorrect == Spec => []TypeOK
<1> QED
  BY Inductive, PTL DEF IInv

(* A station that was found by searching was heard since the last one was    *)
(* given up, whatever hosts answer late, speak unasked or stop, and across   *)
(* restarts.                                                                 *)
THEOREM FoundIsHeard == Spec => []StationHeard
<1> QED
  BY Inductive, PTL DEF IInv

=============================================================================

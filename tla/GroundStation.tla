----------------------------- MODULE GroundStation -----------------------------
(***************************************************************************)
(* The loop of the ground control that finds the ground station and reads  *)
(* its datagrams (socket_loop of src/src/gc.rs): one heartbeat after the   *)
(* other to the hosts of the subnet, with a window of 50 ms for an answer, *)
(* or one heartbeat to the configured host; then the datagrams that come,  *)
(* until none has come for 10 seconds.  GcLink says what becomes of them.  *)
(*                                                                         *)
(* A host is its last address byte.  Ground station software, the network  *)
(* and the socket are external.  A timeout fires only while the inbox of   *)
(* the socket is empty, since the receive it bounds is tried first.        *)
(***************************************************************************)
EXTENDS Integers, Sequences

CONSTANTS
    Host,       \* the hosts that exist
    NoHost,     \* ground_station_address or gc_udp_address is None
    LastHost,   \* the last host searched, 254
    InboxCap,   \* datagrams the socket buffers
    MaxRestarts \* restarts of the process

ASSUME ConstantsAssumption ==
    /\ Host \subseteq Nat
    /\ NoHost \notin Host
    /\ LastHost \in Nat /\ LastHost > 2
    /\ InboxCap \in Nat \ {0}
    /\ MaxRestarts \in Nat

VARIABLES
    phase,    \* where socket_loop is
    n,        \* the host to be probed
    address,  \* ground_station_address
    config,   \* gc_udp_address
    inbox,    \* the senders of the datagrams buffered by the socket
    up,       \* whether the network is reachable
    failing,  \* whether a receive on the socket fails
    running,  \* the hosts that answer heartbeats
    pending,  \* the hosts that have a heartbeat to answer
    heard,    \* senders since the last station was given up; history
    restarts  \* restarts so far

envVars == <<up, failing, running>>
vars == <<phase, n, address, config, inbox, envVars, pending, heard, restarts>>

Searched == 2..LastHost

TypeOK ==
    /\ phase \in {"start", "probe", "window", "listen"}
    /\ n \in Searched
    /\ address \in Host \cup {NoHost}
    /\ config \in Host \cup {NoHost}
    /\ inbox \in Seq(Host) /\ Len(inbox) <= InboxCap
    /\ up \in BOOLEAN
    /\ failing \in BOOLEAN
    /\ running \subseteq Host
    /\ pending \subseteq running
    /\ heard \subseteq Host
    /\ restarts \in 0..MaxRestarts

Init ==
    /\ phase = "start"
    /\ n = 2
    /\ address = NoHost
    /\ config \in Host \cup {NoHost}
    /\ inbox = <<>>
    /\ up \in BOOLEAN
    /\ failing \in BOOLEAN
    /\ running \in SUBSET Host
    /\ pending = {}
    /\ heard = {}
    /\ restarts = 0

-----------------------------------------------------------------------------
(* socket_loop                                                               *)

Heartbeat(h) == pending \cup ({h} \cap running)

(* The configured host is taken without an answer.  While the network is    *)
(* unreachable the loop sleeps and tries again.                             *)

UseConfigured ==
    /\ phase = "start"
    /\ config # NoHost
    /\ up
    /\ pending' = Heartbeat(config)
    /\ address' = config
    /\ phase' = "listen"
    /\ UNCHANGED <<n, config, inbox, envVars, heard, restarts>>

BeginSearch ==
    /\ phase = "start"
    /\ config = NoHost
    /\ n' = 2
    /\ phase' = "probe"
    /\ UNCHANGED <<address, config, inbox, envVars, pending, heard, restarts>>

(* An unreachable network does not stop the search.                          *)

Probe ==
    /\ phase = "probe"
    /\ pending' = IF up THEN Heartbeat(n) ELSE pending
    /\ phase' = "window"
    /\ UNCHANGED <<n, address, config, inbox, envVars, heard, restarts>>

(* Whoever sent the first datagram is the station; its content is lost.      *)

ProbedHost == n
Replier == Head(inbox)

GetReply ==
    /\ phase = "window"
    /\ inbox # <<>> /\ ~failing
    /\ address' = Replier
    /\ inbox' = Tail(inbox)
    /\ phase' = "listen"
    /\ UNCHANGED <<n, config, envVars, pending, heard, restarts>>

NoWrap == n + 1
NextHost == IF n + 1 = LastHost + 1 THEN 2 ELSE n + 1

(* A failed receive ends the window like no answer does.                     *)

WindowEnds ==
    /\ phase = "window"
    /\ inbox = <<>> \/ failing
    /\ n' = NextHost
    /\ phase' = "probe"
    /\ UNCHANGED <<address, config, inbox, envVars, pending, heard, restarts>>

(* A datagram of any host, not only of the station, counts as a sign of it.  *)

Receive ==
    /\ phase = "listen"
    /\ inbox # <<>> /\ ~failing
    /\ inbox' = Tail(inbox)
    /\ UNCHANGED <<phase, n, address, config, envVars, pending, heard, restarts>>

(* Every receive has the full 10 seconds, one after a failed receive too:    *)
(* that is only logged, and while receives fail nothing else happens here.   *)

DeadlineOfListening == ~failing
NothingReceived == inbox = <<>> /\ ~failing

StationKept == address
StationGivenUp == NoHost

Silence ==
    /\ phase = "listen"
    /\ NothingReceived
    /\ address' = StationGivenUp
    /\ heard' = {}
    /\ phase' = "start"
    /\ UNCHANGED <<n, config, inbox, envVars, pending, restarts>>

(* A heartbeat that cannot be sent for another reason ends the process, as  *)
(* the exit of any other loop does.  It may come back with another          *)
(* configuration; what the old socket buffered is lost.                     *)

Restart ==
    /\ restarts < MaxRestarts
    /\ restarts' = restarts + 1
    /\ phase' = "start"
    /\ n' = 2
    /\ address' = NoHost
    /\ config' \in Host \cup {NoHost}
    /\ inbox' = <<>>
    /\ heard' = {}
    /\ UNCHANGED <<envVars, pending>>

-----------------------------------------------------------------------------
(* The ground station and the network.                                       *)

Arrives(h) ==
    IF Len(inbox) < InboxCap
    THEN inbox' = Append(inbox, h) /\ heard' = heard \cup {h}
    ELSE UNCHANGED <<inbox, heard>>

NetStep == UNCHANGED <<phase, n, address, config, restarts>>

(* An answer may come at any later time, also after the window, and be lost *)
(* when the inbox is full.                                                  *)

Answers(h) ==
    /\ h \in pending
    /\ Arrives(h)
    /\ pending' = pending \ {h}
    /\ NetStep /\ UNCHANGED envVars

Speaks(h) == Arrives(h) /\ NetStep /\ UNCHANGED <<envVars, pending>>

StationStartsOrStops(h) ==
    /\ running' = IF h \in running THEN running \ {h} ELSE running \cup {h}
    /\ pending' = pending \ {h}
    /\ NetStep /\ UNCHANGED <<inbox, up, failing, heard>>

NetworkChanges ==
    /\ up' = ~up
    /\ NetStep /\ UNCHANGED <<inbox, failing, running, pending, heard>>

SocketChanges ==
    /\ failing' = ~failing
    /\ NetStep /\ UNCHANGED <<inbox, up, running, pending, heard>>

-----------------------------------------------------------------------------
SocketLoop ==
    \/ UseConfigured \/ BeginSearch
    \/ Probe \/ GetReply \/ WindowEnds
    \/ Receive \/ Silence

Next ==
    \/ SocketLoop \/ Restart
    \/ \E h \in Host : Answers(h) \/ Speaks(h) \/ StationStartsOrStops(h)
    \/ NetworkChanges \/ SocketChanges

Spec == Init /\ [][Next]_vars

(* Fairness.  The loop is a branch of the select! of the process and time   *)
(* passes; a station that runs answers the heartbeats it gets.  Nothing     *)
(* makes a station run or speak, or the network or the socket recover.      *)

Fairness == WF_vars(SocketLoop) /\ \A h \in Host : WF_vars(Answers(h))

FairSpec == Spec /\ Fairness

-----------------------------------------------------------------------------
(* Safety.                                                                   *)

(* A station that was found by searching has sent something since the last  *)
(* one was given up: the datagrams of a station that fell silent do not     *)
(* bring it back, nor does a probed host that never answered become one.    *)

StationHeard == config = NoHost /\ address # NoHost => address \in heard

(* Liveness.                                                                 *)

(* On a network that stays up, the only ground station that runs, on one of *)
(* the searched hosts, becomes the station however late it answers, and     *)
(* again after every silence, also when another host was taken for it       *)
(* before.  It may speak unasked while no other host is taken for it.       *)
(* Without those conditions it need not be found: the first host that sends *)
(* anything is taken, and kept for as long as anyone sends.                 *)

SpeaksAsStation(h) ==
    \A g \in Host : Speaks(g) => g = h /\ address \in {NoHost, h}

RunningStationFound ==
    \A h \in Host \cap Searched :
        /\ <>[](up /\ ~failing /\ config = NoHost /\ running = {h})
        /\ <>[][SpeaksAsStation(h)]_vars
        => []<>(address = h)

(* gc.rs:312: "no data received ..., assumed disconnected": when no host    *)
(* sends any more, the station is given up.  That all must be silent is the *)
(* point: while any other host sends, a station that is gone stays.         *)

SilentStationGivenUp == <>[](inbox = <<>> /\ ~failing) => []<>(address = NoHost)

=============================================================================

------------------------------ MODULE FcSession ------------------------------
(***************************************************************************)
(* What the three loops of src/src/fc.rs promise the ground control, with- *)
(* out mutexes, timers, event channels or the order of awaits: no link is  *)
(* requested while another is open, be it the one in data_link or one that *)
(* was discarded and could not be closed; and a nonce is answered on the   *)
(* link that brought it while it is the data link.                         *)
(* FcLink implements this; Bridge composes it with GcLink.                 *)
(***************************************************************************)
CONSTANTS Link, NoLink

VARIABLES
    dataLink,  \* the contents of the data_link mutex
    status,    \* what the transport knows of each outgoing link
    nonceSent, \* links on which a nonce has arrived
    answers    \* <<m, l>>: the nonce received on m was answered on l

vars == <<dataLink, status, nonceSent, answers>>

Init ==
    /\ dataLink = NoLink
    /\ status = [l \in Link |-> "unused"]
    /\ nonceSent = {}
    /\ answers = {}

(* An announce of the ground control, and no data link: one is requested.   *)
(* A link that was discarded and is still open keeps the process from it.   *)

Open(l) == status[l] \in {"pending", "active"}

NoneHeld == dataLink = NoLink
NoneOpen == dataLink = NoLink /\ \A m \in Link : ~Open(m)

Request(l) ==
    /\ NoneOpen
    /\ status[l] = "unused"
    /\ dataLink' = l
    /\ status' = [status EXCEPT ![l] = "pending"]
    /\ UNCHANGED <<nonceSent, answers>>

Activate(l) ==
    /\ status[l] = "pending"
    /\ status' = [status EXCEPT ![l] = "active"]
    /\ UNCHANGED <<dataLink, nonceSent, answers>>

Close(l) ==
    /\ Open(l)
    /\ status' = [status EXCEPT ![l] = "closed"]
    /\ UNCHANGED <<dataLink, nonceSent, answers>>

(* data_link.take(): the link is closed by now, or is with this step, or    *)
(* closing it fails.                                                        *)

Discard ==
    /\ dataLink # NoLink
    /\ dataLink' = NoLink
    /\ status' \in {status, [status EXCEPT ![dataLink] = "closed"]}
    /\ UNCHANGED <<nonceSent, answers>>

GetNonce(l) ==
    /\ status[l] = "active"
    /\ l \notin nonceSent
    /\ nonceSent' = nonceSent \cup {l}
    /\ UNCHANGED <<dataLink, status, answers>>

AnswerTo(l) == <<l, l>>

AnswerNonce ==
    /\ dataLink \in nonceSent
    /\ answers' = answers \cup {AnswerTo(dataLink)}
    /\ UNCHANGED <<dataLink, status, nonceSent>>

StartAnew ==
    /\ dataLink' = NoLink
    /\ status' = [l \in Link |-> IF status[l] = "unused" THEN "unused" ELSE "closed"]
    /\ UNCHANGED <<nonceSent, answers>>

Next ==
    \/ \E l \in Link : Request(l) \/ Activate(l) \/ Close(l) \/ GetNonce(l)
    \/ Discard \/ AnswerNonce \/ StartAnew

Spec == Init /\ [][Next]_vars

=============================================================================

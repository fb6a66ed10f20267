---------------------------- MODULE AuthSession ----------------------------
(***************************************************************************)
(* What the link authorization of the ground control (src/src/gc.rs)       *)
(* promises to the rest of the bridge, without its states, timeouts, event *)
(* queues and keys: there is at most one session at a time, it is with the *)
(* flight controller, over a link whose challenge was answered, it ends    *)
(* before another one begins, and traffic passes only within it.           *)
(***************************************************************************)
CONSTANTS
    Link,   \* link ids
    FcLink  \* the links of the flight controller

VARIABLES
    session,  \* the link in session, a set of at most one
    answered, \* the links whose challenge was answered
    served    \* the links over which traffic has passed

sessionVars == <<session, answered, served>>

Init ==
    /\ session = {}
    /\ answered = {}
    /\ served = {}

(* The far end of l answers the challenge sent on l.                         *)
Answer(l) ==
    /\ answered' = answered \cup {l}
    /\ UNCHANGED <<session, served>>

Begin(l) ==
    /\ session = {}
    /\ l \in FcLink \cap answered
    /\ session' = {l}
    /\ UNCHANGED <<answered, served>>

Serve ==
    /\ session # {}
    /\ served' = served \cup session
    /\ UNCHANGED <<session, answered>>

End ==
    /\ session # {}
    /\ session' = {}
    /\ UNCHANGED <<answered, served>>

Next == (\E l \in Link : Answer(l) \/ Begin(l)) \/ Serve \/ End

Spec == Init /\ [][Next]_sessionVars

=============================================================================

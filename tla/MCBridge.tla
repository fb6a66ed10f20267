------------------------------ MODULE MCBridge ------------------------------
(* Small instances of Bridge: every link is one of the flight controller.   *)
EXTENDS Bridge, TLC

CONSTANTS l1, l2

FcOwnsAll == [l \in Link |-> Fc]

LinkSymmetry == Permutations(Link)

=============================================================================

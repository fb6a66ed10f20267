------------------------------ MODULE MCGcLink ------------------------------
(* Small instances of GcLink: which peer owns which link.                    *)
EXTENDS GcLink, TLC

CONSTANTS l1, l2, l3, other

(* Two links of the flight controller, as after a restart, and another's.    *)
FcTwiceAndOther == (l1 :> Fc) @@ (l2 :> Fc) @@ (l3 :> other)

FcTwice == (l1 :> Fc) @@ (l2 :> Fc)

FcLinkSymmetry == Permutations({l1, l2})

=============================================================================

----------------------------- MODULE MCMavlinkLog -----------------------------
(* Six messages of up to three pieces behind a piece of none.  A piece       *)
(* inside the second looks like the start of a message, and so does the      *)
(* piece of none behind it; the fourth and fifth message do not parse.       *)
EXTENDS MavlinkLog

Messages == 1..6
FirstPieces == <<2, 4, 8, 9, 10, 11>>
FinalPieces == <<3, 6, 8, 9, 10, 12>>
Claims == <<0, 2, 0, 3, 4, 0, 3, 1, 1, 1, 2, 0>>

=============================================================================

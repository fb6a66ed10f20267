------------------------------ MODULE MCFcLink ------------------------------
(* Small instances of FcLink: the process requests two links.                *)
EXTENDS FcLink

CONSTANTS l1, l2

=============================================================================

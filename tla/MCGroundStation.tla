---------------------------- MODULE MCGroundStation ----------------------------
(* A small subnet: the hosts 2 to 4 are searched; host 1, the gateway, never *)
(* is but may send; host 4 is the last one searched.                         *)
EXTENDS GroundStation

Hosts == {1, 2, 4}

=============================================================================

------------------------ MODULE MCDrainingServer ------------------------
(* Two probes over a pool of one. *)
EXTENDS DrainingServer, TLC

CONSTANTS p1, p2
Probes == {p1, p2}
=========================================================================

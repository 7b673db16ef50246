---------------------------- MODULE MCLiveUpdates ----------------------------
(* One page and the connections it goes through, on two starts of the panel. *)
EXTENDS LiveUpdates

CONSTANTS p1, s1, s2
=============================================================================

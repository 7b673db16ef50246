---------------------------- MODULE MCNginxFront ----------------------------
(* NginxFront on small instances. *)
EXTENDS NginxFront

CONSTANTS i1, i2

Shared == [Off EXCEPT !.mode = "shared"]
Closed == [mode |-> "only443", panel |-> FALSE, firewall |-> TRUE]
Sealed == [mode |-> "only443", panel |-> TRUE, firewall |-> TRUE]
WantedAll == {Off, Shared, Closed, Sealed}
=============================================================================

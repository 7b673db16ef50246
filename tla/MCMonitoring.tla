---------------------------- MODULE MCMonitoring ---------------------------
(* Monitoring with one request at a time: transactions are serial, and what *)
(* two at once add is only the order in which their messages leave.         *)
EXTENDS Monitoring
=============================================================================

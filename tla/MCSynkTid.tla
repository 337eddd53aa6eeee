------------------------------ MODULE MCSynkTid ------------------------------
(* Three nights around a change of the clocks, hour by hour. *)
EXTENDS SynkTid
=============================================================================

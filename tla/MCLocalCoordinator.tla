------------------------- MODULE MCLocalCoordinator -------------------------
(* Two topics and two keys: a Release may hit another topic's counter only  *)
(* if the table confuses them.  Counters up to 3.                           *)
EXTENDS LocalCoordinator
=============================================================================

---------------------------- MODULE MCSynchronize ----------------------------
(* Instances of Synchronize *)
EXTENDS Synchronize

CONSTANTS c1, c2, p1, p2
=============================================================================

------------------------- MODULE MCTrackerLifecycle -------------------------
(* Instances of TrackerLifecycle: calls for one topic and for two.          *)
EXTENDS TrackerLifecycle, TLC

CONSTANTS c1, c2, c3, t1, t2

ThreeForTwo == (c1 :> t1) @@ (c2 :> t1) @@ (c3 :> t2)
TwoForOne   == (c1 :> t1) @@ (c2 :> t1)
=============================================================================

---------------------------- MODULE KeyCounters ----------------------------
(***************************************************************************)
(* What the local lock table promises (interfaces.go, StateCoordinator):   *)
(* one independent counter per topic and key, counted up by Acquire and    *)
(* down, never below zero, by Release.  A key is locked while its counter  *)
(* is positive.                                                            *)
(***************************************************************************)
EXTENDS Naturals

CONSTANTS Topics, Keys

VARIABLE refs

Init == refs = [tk \in Topics \X Keys |-> 0]

Acquire(t, k) == refs' = [refs EXCEPT ![<<t, k>>] = @ + 1]

Release(t, k) == /\ refs[<<t, k>>] > 0
                 /\ refs' = [refs EXCEPT ![<<t, k>>] = @ - 1]

Next == \E t \in Topics, k \in Keys : Acquire(t, k) \/ Release(t, k)

Spec == Init /\ [][Next]_refs
=============================================================================

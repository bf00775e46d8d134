------------------------- MODULE MCKafkaCoordinator -------------------------
(* Instances of KafkaCoordinator: one process alone, and two processes with *)
(* redirect groups of their own or with a common one.                       *)
EXTENDS KafkaCoordinator, TLC

CONSTANTS i1, i2, l1, l2, k1, k2, p1, p2, g1, g2

\* Two locks on one key and one partition.
TwoLocks == (l1 :> k1) @@ (l2 :> k1)
OneLock  == (l1 :> k1)
OnePart  == (l1 :> p1) @@ (l2 :> p1)
AtP1     == (l1 :> p1)
Spread   == (l1 :> p1) @@ (l2 :> p2)

OwnGroups   == (i1 :> g1) @@ (i2 :> g2)
SharedGroup == (i1 :> g1) @@ (i2 :> g1)
SoloGroup   == (i1 :> g1)

Bounds(fault, restart, move, redelivery, compaction, cancel) ==
  [fault |-> fault, restart |-> restart, move |-> move, redelivery |-> redelivery,
   compaction |-> compaction, cancel |-> cancel]

Alone      == Bounds(2, 0, 1, 1, 1, 0)
Restarting == Bounds(0, 1, 0, 0, 1, 1)
Disturbed  == Bounds(1, 1, 1, 0, 1, 0)
Quiet      == Bounds(0, 0, 0, 0, 0, 0)

\* The two locks of one key and one partition are interchangeable.
LockSymmetry == Permutations({l1, l2})

\* So are two instances, each with its group.
Swap == (i1 :> i2) @@ (i2 :> i1) @@ (g1 :> g2) @@ (g2 :> g1)
PairSymmetry == LockSymmetry \cup {Swap}
                  \cup {Swap @@ f : f \in Permutations({l1, l2})}
=============================================================================

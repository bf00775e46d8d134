-------------------------- MODULE LocalCoordinator --------------------------
(***************************************************************************)
(* localStateCoordinator (coordinator_local.go): the in-memory lock table  *)
(* every lock check of the library ends in.  Each method runs under the    *)
(* mutex of the table, so each is one atomic action.  Start, Synchronize,  *)
(* Close and Errors change nothing.                                        *)
(***************************************************************************)
EXTENDS LockMap

CONSTANTS
  Topics, Keys,   \* names of topics and message keys
  NoHeader,       \* a message without the "topic" header
  MaxRefs         \* bound on one counter, for model checking

ASSUME LocalAssumption == NoHeader \notin Topics /\ MaxRefs \in Nat \ {0}

\* What the table reads of a message: its topic, its key and the "topic"
\* header that Redirect writes and Release reads.
Messages == [topic : Topics, key : Keys, header : Topics \cup {NoHeader}]

VARIABLE lm

Init == lm = Nothing

Acquire(originalTopic, msg) ==
  /\ GetRefCount(lm, originalTopic, msg.key) < MaxRefs
  /\ lm' = IncrementRef(lm, originalTopic, msg.key)

ReleasedTopic(msg) == IF msg.header = NoHeader THEN msg.topic ELSE msg.header

Release(msg) == lm' = ReleaseRef(lm, ReleasedTopic(msg), msg.key)

Next == \E msg \in Messages :
          \/ \E t \in Topics : Acquire(t, msg)
          \/ Release(msg)

Spec == Init /\ [][Next]_lm

-----------------------------------------------------------------------------
(* Properties *)

\* The table maps topics to maps from keys to natural counts.
TypeOK == IsLockMap(lm, Topics, Keys)

\* Nothing is left behind: every entry counts at least one acquisition and
\* every topic has an entry, so a table whose locks are all released is
\* empty (Release drops keys and topics, coordinator_local.go:55-61; a
\* leftover would leak memory and, at a count of zero or less, let one
\* Release too many be repaid by a later Acquire that then locks nothing).
NoResidue == IsClean(lm)

\* The rollback of a failed Acquire is exact: from every reachable table,
\* Acquire followed by Release of the same key gives the same table back
\* (coordinator_kafka.go:195 relies on it).
ReleaseUndoesAcquire ==
  \A t \in Topics, k \in Keys : ReleaseRef(IncrementRef(lm, t, k), t, k) = lm

\* The rollback of a failed Release is exact as long as the key was locked
\* (coordinator_kafka.go:264 relies on it).
AcquireUndoesRelease ==
  \A t \in Topics, k \in Keys :
    IsLocked(lm, t, k) => IncrementRef(ReleaseRef(lm, t, k), t, k) = lm

\* The table implements one independent counter per topic and key.
Counters == INSTANCE KeyCounters WITH
  refs <- [tk \in Topics \X Keys |-> GetRefCount(lm, tk[1], tk[2])]

ImplementsCounters == Counters!Spec
=============================================================================

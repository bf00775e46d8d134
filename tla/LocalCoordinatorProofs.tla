----------------------- MODULE LocalCoordinatorProofs -----------------------
(***************************************************************************)
(* For every set of topics and keys and every bound: the local lock table  *)
(* is well typed, leaves no residue, undoes exactly what its callers roll  *)
(* back, and implements one independent counter per topic and key.         *)
(***************************************************************************)
EXTENDS LocalCoordinator, LockMapProofs

IInv == TypeOK /\ NoResidue

LEMMA InitIInv == Init => IInv
BY EmptyMap DEF Init, IInv, TypeOK, NoResidue, IsClean, Nothing

LEMMA ReleasedTopicType ==
  ASSUME NEW msg \in Messages
  PROVE  ReleasedTopic(msg) \in Topics /\ msg.key \in Keys
BY DEF Messages, ReleasedTopic

LEMMA NextIInv == IInv /\ [Next]_lm => IInv'
<1> SUFFICES ASSUME IInv, [Next]_lm PROVE IInv'
  OBVIOUS
<1> USE DEF IInv, TypeOK, NoResidue
<1>1. ASSUME NEW msg \in Messages, NEW t \in Topics, Acquire(t, msg)
      PROVE  IInv'
  BY <1>1, ReleasedTopicType, IncrementCount, IncrementClean DEF Acquire
<1>2. ASSUME NEW msg \in Messages, Release(msg)
      PROVE  IInv'
  BY <1>2, ReleaseCount, ReleaseClean DEF Release
<1>3. CASE UNCHANGED lm
  BY <1>3
<1> QED
  BY <1>1, <1>2, <1>3 DEF Next

LEMMA InvariantIInv == Spec => []IInv
BY InitIInv, NextIInv, PTL DEF Spec

\* The table is always a map of topics to maps of keys to naturals.
THEOREM TypeCorrect == Spec => []TypeOK
BY InvariantIInv, PTL DEF IInv

\* No key with a count of zero and no topic without keys stays behind, so
\* a table whose locks are all released is empty.
THEOREM ResidueFree == Spec => []NoResidue
BY InvariantIInv, PTL DEF IInv

LEMMA UndoAcquire == IInv => ReleaseUndoesAcquire
<1> SUFFICES ASSUME IInv, NEW t \in Topics, NEW k \in Keys
             PROVE  ReleaseRef(IncrementRef(lm, t, k), t, k) = lm
  BY DEF ReleaseUndoesAcquire
<1> DEFINE up   == IncrementRef(lm, t, k)
           back == ReleaseRef(up, t, k)
<1>0. IsLockMap(lm, Topics, Keys) /\ IsClean(lm)
  BY DEF IInv, TypeOK, NoResidue
<1>1. IsLockMap(up, Topics, Keys) /\ IsClean(up)
  BY <1>0, IncrementCount, IncrementClean
<1>2. \A t2, k2 : GetRefCount(up, t2, k2) =
                    GetRefCount(lm, t2, k2) + (IF t2 = t /\ k2 = k THEN 1 ELSE 0)
  BY <1>0, IncrementCount
<1>3. IsLockMap(back, Topics, Keys) /\ IsClean(back)
  BY <1>1, ReleaseCount, ReleaseClean
<1>4. \A t2, k2 : GetRefCount(lm, t2, k2) \in Nat
  BY <1>0, CountType
<1>5. \A t2, k2 : GetRefCount(back, t2, k2) =
                    IF t2 = t /\ k2 = k /\ GetRefCount(up, t, k) > 0
                    THEN GetRefCount(up, t2, k2) - 1 ELSE GetRefCount(up, t2, k2)
  BY <1>1, ReleaseCount
<1> HIDE DEF up, back
<1>6. \A t2, k2 : GetRefCount(back, t2, k2) = GetRefCount(lm, t2, k2)
  BY <1>2, <1>4, <1>5
<1> QED
  BY <1>0, <1>3, <1>6, CleanEqual DEF up, back

\* Rolling an acquisition back restores the table it started from.
THEOREM AcquireRollback == Spec => []ReleaseUndoesAcquire
BY InvariantIInv, UndoAcquire, PTL

LEMMA UndoRelease == IInv => AcquireUndoesRelease
<1> SUFFICES ASSUME IInv, NEW t \in Topics, NEW k \in Keys, IsLocked(lm, t, k)
             PROVE  IncrementRef(ReleaseRef(lm, t, k), t, k) = lm
  BY DEF AcquireUndoesRelease
<1> DEFINE down == ReleaseRef(lm, t, k)
           back == IncrementRef(down, t, k)
<1>0. IsLockMap(lm, Topics, Keys) /\ IsClean(lm)
  BY DEF IInv, TypeOK, NoResidue
<1>1. IsLockMap(down, Topics, Keys) /\ IsClean(down)
  BY <1>0, ReleaseCount, ReleaseClean
<1>2. \A t2, k2 : GetRefCount(down, t2, k2) =
                    IF t2 = t /\ k2 = k /\ GetRefCount(lm, t, k) > 0
                    THEN GetRefCount(lm, t2, k2) - 1 ELSE GetRefCount(lm, t2, k2)
  BY <1>0, ReleaseCount
<1>3. IsLockMap(back, Topics, Keys) /\ IsClean(back)
  BY <1>1, IncrementCount, IncrementClean
<1>4. \A t2, k2 : GetRefCount(lm, t2, k2) \in Nat
  BY <1>0, CountType
<1>5. \A t2, k2 : GetRefCount(back, t2, k2) =
                    GetRefCount(down, t2, k2) + (IF t2 = t /\ k2 = k THEN 1 ELSE 0)
  BY <1>1, IncrementCount
<1>6. GetRefCount(lm, t, k) > 0
  BY DEF IsLocked
<1> HIDE DEF down, back
<1>7. \A t2, k2 : GetRefCount(back, t2, k2) = GetRefCount(lm, t2, k2)
  BY <1>2, <1>4, <1>5, <1>6
<1> QED
  BY <1>0, <1>3, <1>7, CleanEqual DEF down, back

\* Rolling the release of a locked key back restores the table it started
\* from.
THEOREM ReleaseRollback == Spec => []AcquireUndoesRelease
BY InvariantIInv, UndoRelease, PTL

-----------------------------------------------------------------------------
(* Refinement *)

refsBar == [tk \in Topics \X Keys |-> GetRefCount(lm, tk[1], tk[2])]

LEMMA InitRefines == Init => Counters!Init
BY EmptyMap DEF Init, Counters!Init

LEMMA StepRefines == IInv /\ [Next]_lm => [Counters!Next]_refsBar
<1> SUFFICES ASSUME IInv, [Next]_lm PROVE [Counters!Next]_refsBar
  OBVIOUS
<1>0. IsLockMap(lm, Topics, Keys)
  BY DEF IInv, TypeOK
<1>1. \A t, k : GetRefCount(lm, t, k) \in Nat
  BY <1>0, CountType
<1>2. ASSUME NEW msg \in Messages, NEW t \in Topics, Acquire(t, msg)
      PROVE  Counters!Next
  <2>1. msg.key \in Keys
    BY ReleasedTopicType
  <2>2. \A t2, k2 : GetRefCount(lm', t2, k2) =
          GetRefCount(lm, t2, k2) + (IF t2 = t /\ k2 = msg.key THEN 1 ELSE 0)
    BY <1>0, <1>2, <2>1, IncrementCount DEF Acquire
  <2>3. Counters!Acquire(t, msg.key)
    <3>1. refsBar' = [tk \in Topics \X Keys |->
            IF tk = <<t, msg.key>> THEN refsBar[<<t, msg.key>>] + 1 ELSE refsBar[tk]]
      BY <1>1, <2>1, <2>2 DEF refsBar
    <3> QED
      BY <2>1, <3>1 DEF Counters!Acquire, refsBar
  <2> QED
    BY <2>1, <2>3 DEF Counters!Next
<1>3. ASSUME NEW msg \in Messages, Release(msg)
      PROVE  Counters!Next \/ UNCHANGED refsBar
  <2> DEFINE t == ReleasedTopic(msg)
             k == msg.key
  <2>1. t \in Topics /\ k \in Keys
    BY ReleasedTopicType
  <2> HIDE DEF t, k
  <2>2. \A t2, k2 : GetRefCount(lm', t2, k2) =
          IF t2 = t /\ k2 = k /\ GetRefCount(lm, t, k) > 0
          THEN GetRefCount(lm, t2, k2) - 1 ELSE GetRefCount(lm, t2, k2)
    BY <1>0, <1>3, ReleaseCount DEF Release, t, k
  <2>3. CASE GetRefCount(lm, t, k) > 0
    <3>1. refsBar' = [tk \in Topics \X Keys |->
            IF tk = <<t, k>> THEN refsBar[<<t, k>>] - 1 ELSE refsBar[tk]]
      BY <1>1, <2>1, <2>2, <2>3 DEF refsBar
    <3>2. refsBar[<<t, k>>] > 0
      BY <2>1, <2>3 DEF refsBar
    <3>3. Counters!Release(t, k)
      BY <2>1, <3>1, <3>2 DEF Counters!Release, refsBar
    <3> QED
      BY <2>1, <3>3 DEF Counters!Next
  <2>4. CASE ~(GetRefCount(lm, t, k) > 0)
    BY <2>2, <2>4 DEF refsBar
  <2> QED
    BY <2>3, <2>4
<1>4. CASE UNCHANGED lm
  BY <1>4 DEF refsBar
<1> QED
  BY <1>2, <1>3, <1>4 DEF Next

\* The lock table implements the abstract counters: Acquire counts its key
\* up by one, Release counts it down by one or does nothing.
THEOREM Refinement == Spec => ImplementsCounters
BY InvariantIInv, InitRefines, StepRefines, PTL
   DEF Spec, ImplementsCounters, Counters!Spec, refsBar
=============================================================================

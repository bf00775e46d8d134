----------------------- MODULE KafkaCoordinatorProofs -----------------------
(***************************************************************************)
(* For any number of instances, locks, keys, partitions and disturbances:  *)
(* the coordinator is well typed, every lock an instance knows stays       *)
(* counted, and a restored instance knows every lock recorded before it    *)
(* started.                                                                *)
(***************************************************************************)
EXTENDS KafkaCoordinator, LockMapProofs, FiniteSetTheorems

TableOK == /\ DOMAIN lm = Instances
           /\ \A i \in Instances : IsLockMap(lm[i], {Topic}, Keys)
           /\ known \in [Instances -> SUBSET Locks]
           /\ stolen \in [Instances -> SUBSET Keys]

LEMMA TypeTable == TypeOK => TableOK
BY DEF TypeOK, TableOK

LEMMA KeyOfLock == ASSUME NEW l \in Locks PROVE KeyOf[l] \in Keys
BY KafkaAssumption

LEMMA CountNat ==
  ASSUME TableOK, NEW i \in Instances, NEW k
  PROVE  Count(i, k) \in Nat
BY CountType DEF TableOK, Count

\* Counting a lock: one more on its key, at its instance only.
LEMMA CountLockTable ==
  ASSUME TableOK, NEW i \in Instances, NEW l \in Locks, CountLock(i, l)
  PROVE  /\ DOMAIN lm' = Instances
         /\ \A j \in Instances : IsLockMap(lm'[j], {Topic}, Keys)
         /\ known' = [known EXCEPT ![i] = @ \cup {l}]
         /\ known' \in [Instances -> SUBSET Locks]
         /\ \A j \in Instances, k \in Keys :
              Count(j, k)' = Count(j, k) + (IF j = i /\ k = KeyOf[l] THEN 1 ELSE 0)
<1>1. KeyOf[l] \in Keys
  BY KeyOfLock
<1>2. /\ IsLockMap(IncrementRef(lm[i], Topic, KeyOf[l]), {Topic}, Keys)
      /\ \A t2, k2 : GetRefCount(IncrementRef(lm[i], Topic, KeyOf[l]), t2, k2) =
           GetRefCount(lm[i], t2, k2) + (IF t2 = Topic /\ k2 = KeyOf[l] THEN 1 ELSE 0)
  <2>1. IsLockMap(lm[i], {Topic}, Keys) /\ Topic \in {Topic}
    BY DEF TableOK
  <2> QED
    BY <1>1, <2>1, IncrementCount
<1>3. /\ DOMAIN lm' = Instances
      /\ \A j \in Instances :
           lm'[j] = IF j = i THEN IncrementRef(lm[i], Topic, KeyOf[l]) ELSE lm[j]
  BY DEF TableOK, CountLock
<1>4. \A j \in Instances, k \in Keys : Count(j, k) \in Nat
  BY CountNat
<1>5. ASSUME NEW j \in Instances, NEW k \in Keys
      PROVE  Count(j, k)' = Count(j, k) + (IF j = i /\ k = KeyOf[l] THEN 1 ELSE 0)
  <2>1. Count(j, k)' = GetRefCount(lm'[j], Topic, k)
    BY DEF Count
  <2>2. CASE j = i
    BY <1>2, <1>3, <2>1, <2>2 DEF Count
  <2>3. CASE j # i
    <3>1. Count(j, k)' = Count(j, k)
      BY <1>3, <2>1, <2>3 DEF Count
    <3> QED
      BY <1>4, <2>3, <3>1
  <2> QED
    BY <2>2, <2>3
<1>6. known' = [known EXCEPT ![i] = @ \cup {l}] /\ known' \in [Instances -> SUBSET Locks]
  BY DEF CountLock, TableOK
<1>7. \A j \in Instances : IsLockMap(lm'[j], {Topic}, Keys)
  BY <1>2, <1>3 DEF TableOK
<1> QED
  BY <1>3, <1>5, <1>6, <1>7

\* Uncounting a lock: one less on its key, at its instance only, unless the
\* count is zero.
LEMMA UncountLockTable ==
  ASSUME TableOK, NEW i \in Instances, NEW l \in Locks, UncountLock(i, l)
  PROVE  /\ DOMAIN lm' = Instances
         /\ \A j \in Instances : IsLockMap(lm'[j], {Topic}, Keys)
         /\ known' = [known EXCEPT ![i] = @ \ {l}]
         /\ known' \in [Instances -> SUBSET Locks]
         /\ \A j \in Instances, k \in Keys :
              Count(j, k)' = IF j = i /\ k = KeyOf[l] /\ Count(j, k) > 0
                             THEN Count(j, k) - 1 ELSE Count(j, k)
<1>2. /\ IsLockMap(ReleaseRef(lm[i], Topic, KeyOf[l]), {Topic}, Keys)
      /\ \A t2, k2 : GetRefCount(ReleaseRef(lm[i], Topic, KeyOf[l]), t2, k2) =
           IF t2 = Topic /\ k2 = KeyOf[l] /\ GetRefCount(lm[i], Topic, KeyOf[l]) > 0
           THEN GetRefCount(lm[i], t2, k2) - 1 ELSE GetRefCount(lm[i], t2, k2)
  BY ReleaseCount DEF TableOK
<1>3. /\ DOMAIN lm' = Instances
      /\ \A j \in Instances :
           lm'[j] = IF j = i THEN ReleaseRef(lm[i], Topic, KeyOf[l]) ELSE lm[j]
  BY DEF TableOK, UncountLock
<1> QED
  BY <1>2, <1>3 DEF TableOK, UncountLock, Count

\* A consumed record never lowers a count, and counts what the instance
\* learns from it.
LEMMA ProcessTable ==
  ASSUME TableOK, NEW i \in Instances, NEW r \in Records, ProcessRedirectMessage(i, r)
  PROVE  /\ DOMAIN lm' = Instances
         /\ \A j \in Instances : IsLockMap(lm'[j], {Topic}, Keys)
         /\ known' \in [Instances -> SUBSET Locks]
         /\ stolen' = stolen
         /\ \/ /\ known' = known
               /\ \A j \in Instances, k \in Keys : Count(j, k)' = Count(j, k)
               /\ r.origin = <<i, life[i]>> \/ r.tomb
            \/ /\ known' = [known EXCEPT ![i] = @ \cup {r.lock}]
               /\ \A j \in Instances, k \in Keys :
                    Count(j, k)' = Count(j, k) +
                      (IF j = i /\ k = KeyOf[r.lock] THEN 1 ELSE 0)
<1>0. r.lock \in Locks
  BY DEF Records
<1>1. CASE r.origin = <<i, life[i]>>
  BY <1>1 DEF ProcessRedirectMessage, tableVars, TableOK, Count
<1>2. CASE r.origin # <<i, life[i]>> /\ r.tomb
  <2>1. /\ IsLockMap(ReleaseRef(lm[i], Topic, r.lock), {Topic}, Keys)
        /\ \A t2, k2 : k2 # r.lock =>
             GetRefCount(ReleaseRef(lm[i], Topic, r.lock), t2, k2) =
               GetRefCount(lm[i], t2, k2)
    BY ReleaseCount DEF TableOK
  <2>2. \A k \in Keys : k # r.lock
    BY <1>0, KafkaAssumption
  <2>3. /\ DOMAIN lm' = Instances
        /\ \A j \in Instances :
             lm'[j] = IF j = i THEN ReleaseRef(lm[i], Topic, r.lock) ELSE lm[j]
        /\ known' = known
        /\ stolen' = stolen
    BY <1>2 DEF ProcessRedirectMessage, TableOK
  <2> QED
    BY <1>2, <2>1, <2>2, <2>3 DEF TableOK, Count
<1>3. CASE r.origin # <<i, life[i]>> /\ ~r.tomb
  <2>1. CountLock(i, r.lock) /\ stolen' = stolen
    BY <1>3 DEF ProcessRedirectMessage
  <2> QED
    BY <1>0, <2>1, CountLockTable
<1> QED
  BY <1>1, <1>2, <1>3

-----------------------------------------------------------------------------
(* Type correctness *)

LEMMA InitType == Init => TypeOK
<1> SUFFICES ASSUME Init PROVE TypeOK
  OBVIOUS
<1>1. op \in [Locks -> [pc : Phases, at : Instances \cup {NoOne}, tries : Nat]]
  BY DEF Init, Rest, At, Phases
<1>2. DOMAIN lm = Instances /\ \A i \in Instances : IsLockMap(lm[i], {Topic}, Keys)
  BY EmptyMap DEF Init
<1>3. log \in [Partitions -> Seq(Records)]
  BY DEF Init
<1>4. used \in [Disturbances -> Nat]
  BY DEF Init
<1>5. /\ restorePos \in [Instances -> [Partitions -> Nat]]
      /\ target \in [Instances -> [Partitions -> Nat]]
      /\ committed \in [Groups -> [Partitions -> Nat]]
      /\ pos \in [Groups -> [Partitions -> Nat]]
  BY DEF Init
<1> QED
  BY <1>1, <1>2, <1>3, <1>4, <1>5 DEF Init, TypeOK

LEMMA RecordAt ==
  ASSUME TypeOK, NEW p \in Partitions, NEW o \in 1..Len(log[p])
  PROVE  log[p][o] \in Records /\ o \in Nat
BY DEF TypeOK

LEMMA PublishedType ==
  ASSUME TypeOK, NEW l \in Locks, op[l].at \in Instances, NEW b \in BOOLEAN, Published(l, b)
  PROVE  /\ log' \in [Partitions -> Seq(Records)]
         /\ \E r \in Records :
              /\ r.lock = l
              /\ r.tomb = b
              /\ r.origin = <<op[l].at, life[op[l].at]>>
              /\ log' = [log EXCEPT ![PartitionOf[l]] = Append(@, r)]
<1> DEFINE r == [lock |-> l, origin |-> <<op[l].at, life[op[l].at]>>, tomb |-> b]
<1>1. r \in Records
  BY DEF TypeOK, Records, Origins
<1>2. log' = [log EXCEPT ![PartitionOf[l]] = Append(@, r)]
  BY DEF Published
<1>3. PartitionOf[l] \in Partitions
  BY KafkaAssumption
<1>4. log' \in [Partitions -> Seq(Records)]
  BY <1>1, <1>2, <1>3 DEF TypeOK
<1> QED
  BY <1>1, <1>2, <1>4

\* An operation under way has a running instance.
OpsRun ==
  \A l \in Locks :
    /\ op[l].pc \in {"acquiring", "undoAcquire", "releasing", "undoRelease"}
         => op[l].at \in Instances /\ status[op[l].at] \in {"up", "detached"}
    /\ op[l].pc \notin {"acquiring", "undoAcquire", "releasing", "undoRelease"}
         => op[l].at = NoOne

Base == TypeOK /\ OpsRun

LEMMA InitBase == Init => Base
<1> SUFFICES ASSUME Init PROVE Base
  OBVIOUS
<1>1. TypeOK
  BY InitType
<1>2. OpsRun
  BY DEF Init, OpsRun, Rest, At
<1> QED
  BY <1>1, <1>2 DEF Base

LEMMA StartBase ==
  ASSUME Base, NEW i \in Instances, Start(i) PROVE Base'
<1>1. HighWaterMarks \in [Partitions -> Nat]
  BY DEF HighWaterMarks, Base, TypeOK
<1>2. TypeOK'
  BY <1>1 DEF Base, TypeOK, Start, topicVars, groupVars, tableVars
<1>3. OpsRun'
  BY KafkaAssumption DEF Base, TypeOK, OpsRun, Start
<1> QED
  BY <1>2, <1>3 DEF Base

LEMMA RestoreHandleBase ==
  ASSUME Base, NEW i \in Instances, RestoreHandle(i) PROVE Base'
<1>0. PICK p \in Partitions : \E o \in 1..Len(log[p]) :
        /\ ProcessRedirectMessage(i, log[p][o])
        /\ restorePos' = [restorePos EXCEPT ![i][p] = o + 1]
  BY DEF RestoreHandle
<1>1. PICK o \in 1..Len(log[p]) :
        /\ ProcessRedirectMessage(i, log[p][o])
        /\ restorePos' = [restorePos EXCEPT ![i][p] = o + 1]
  BY <1>0
<1>2. log[p][o] \in Records /\ o \in Nat
  BY RecordAt DEF Base
<1>3. TableOK'
  BY <1>1, <1>2, TypeTable, ProcessTable DEF Base, TableOK
<1>4. UNCHANGED <<log, gone, committed, owner, pos, target, status, life, op, used>>
  BY DEF RestoreHandle, topicVars, groupVars, processVars
<1>6. restorePos' \in [Instances -> [Partitions -> Nat]]
  BY <1>1, <1>2 DEF Base, TypeOK
<1>7. TypeOK'
  BY <1>3, <1>4, <1>6 DEF Base, TypeOK, TableOK
<1>5. OpsRun'
  BY <1>4 DEF Base, OpsRun
<1> QED
  BY <1>7, <1>5 DEF Base

LEMMA FinishRestoreBase ==
  ASSUME Base, NEW i \in Instances, FinishRestore(i) PROVE Base'
<1>1. TypeOK'
  BY DEF Base, TypeOK, FinishRestore, topicVars, groupVars, restoreVars, tableVars
<1>2. OpsRun'
  BY KafkaAssumption DEF Base, TypeOK, OpsRun, FinishRestore
<1> QED
  BY <1>1, <1>2 DEF Base

LEMMA AcquireLocalBase ==
  ASSUME Base, NEW i \in Instances, NEW l \in Locks, AcquireLocal(i, l) PROVE Base'
<1>1. TableOK'
  BY TypeTable, CountLockTable DEF Base, TableOK, AcquireLocal
<1>2. TypeOK'
  BY <1>1 DEF Base, TypeOK, TableOK, AcquireLocal, At, Phases,
              topicVars, groupVars, restoreVars, processVars
<1>3. OpsRun'
  BY DEF Base, TypeOK, OpsRun, AcquireLocal, Serving, At, processVars
<1> QED
  BY <1>2, <1>3 DEF Base

LEMMA ReleaseLocalBase ==
  ASSUME Base, NEW i \in Instances, NEW l \in Locks, ReleaseLocal(i, l) PROVE Base'
<1>1. TableOK'
  BY TypeTable, UncountLockTable, KeyOfLock DEF Base, TableOK, ReleaseLocal
<1>2. used' \in [Disturbances -> Nat]
  BY DEF Base, TypeOK, ReleaseLocal, Spend, Disturbances
<1>3. TypeOK'
  BY <1>1, <1>2 DEF Base, TypeOK, TableOK, ReleaseLocal, At, Phases,
                    topicVars, groupVars, restoreVars, processVars
<1>4. OpsRun'
  BY DEF Base, TypeOK, OpsRun, ReleaseLocal, Serving, At, processVars
<1> QED
  BY <1>3, <1>4 DEF Base

LEMMA ProducedBase ==
  ASSUME Base, NEW l \in Locks, AcquireProduced(l) \/ ReleaseProduced(l) PROVE Base'
<1>1. op[l].at \in Instances
  BY DEF Base, OpsRun, AcquireProduced, ReleaseProduced
<1>2. log' \in [Partitions -> Seq(Records)]
  BY <1>1, PublishedType DEF Base, AcquireProduced, ReleaseProduced
<1>3. UNCHANGED <<gone, committed, owner, pos, restorePos, target, status, life,
                  lm, known, stolen, used>>
  BY DEF AcquireProduced, ReleaseProduced, groupVars, restoreVars, processVars, tableVars
<1>4. PICK phase \in {"held", "released"} :
        op' = [op EXCEPT ![l] = [pc |-> phase, at |-> NoOne, tries |-> 0]]
  BY DEF AcquireProduced, ReleaseProduced, Rest, At
<1>5. op' \in [Locks -> [pc : Phases, at : Instances \cup {NoOne}, tries : Nat]]
  BY <1>4 DEF Base, TypeOK, Phases
<1>6. TypeOK'
  BY <1>2, <1>3, <1>5 DEF Base, TypeOK
<1>7. OpsRun'
  BY <1>3, <1>4 DEF Base, TypeOK, OpsRun
<1> QED
  BY <1>6, <1>7 DEF Base

LEMMA AttemptFailsBase ==
  ASSUME Base, NEW l \in Locks, AcquireAttemptFails(l) \/ ReleaseAttemptFails(l)
  PROVE  Base'
<1>1. op[l].at \in Instances /\ status[op[l].at] \in {"up", "detached"}
  BY DEF Base, OpsRun, AcquireAttemptFails, ReleaseAttemptFails
<1>2. PICK b \in BOOLEAN, undo \in {"undoAcquire", "undoRelease"} : FailedAttempt(l, b, undo)
  BY DEF AcquireAttemptFails, ReleaseAttemptFails
<1>3. log' \in [Partitions -> Seq(Records)]
  BY <1>1, <1>2, PublishedType DEF Base, TypeOK, FailedAttempt
<1>4. used' \in [Disturbances -> Nat]
  BY <1>2 DEF Base, TypeOK, FailedAttempt, Spend, Disturbances
<1>5. PICK o : /\ op' = [op EXCEPT ![l] = o]
               /\ \/ o = [op[l] EXCEPT !.tries = @ + 1]
                  \/ o = [op[l] EXCEPT !.pc = undo]
  BY <1>2 DEF FailedAttempt
<1>6. op' \in [Locks -> [pc : Phases, at : Instances \cup {NoOne}, tries : Nat]]
  <2>1. op[l] \in [pc : Phases, at : Instances \cup {NoOne}, tries : Nat]
    BY DEF Base, TypeOK
  <2>2. o \in [pc : Phases, at : Instances \cup {NoOne}, tries : Nat]
    BY <1>5, <2>1 DEF Phases
  <2> QED
    BY <1>5, <2>2 DEF Base, TypeOK
<1>7. UNCHANGED <<gone, committed, owner, pos, restorePos, target, status, life,
                  lm, known, stolen>>
  BY DEF AcquireAttemptFails, ReleaseAttemptFails,
         groupVars, restoreVars, processVars, tableVars
<1>8. TypeOK'
  BY <1>3, <1>4, <1>6, <1>7 DEF Base, TypeOK
<1>9. /\ \A m \in Locks : op'[m].at = op[m].at
      /\ \A m \in Locks : m # l => op'[m] = op[m]
      /\ op'[l].pc \in {op[l].pc, undo}
  BY <1>5 DEF Base, TypeOK
<1>10. op[l].pc \in {"acquiring", "releasing"}
  BY DEF AcquireAttemptFails, ReleaseAttemptFails
<1>11. OpsRun'
  BY <1>1, <1>7, <1>9, <1>10 DEF Base, OpsRun
<1> QED
  BY <1>8, <1>11 DEF Base

LEMMA RollbackBase ==
  ASSUME Base, NEW l \in Locks, RollbackAcquire(l) \/ RollbackRelease(l) PROVE Base'
<1>1. op[l].at \in Instances
  BY DEF Base, OpsRun, RollbackAcquire, RollbackRelease
<1>2. TableOK'
  BY <1>1, TypeTable, CountLockTable, UncountLockTable
     DEF Base, TableOK, RollbackAcquire, RollbackRelease
<1>3. UNCHANGED <<log, gone, committed, owner, pos, restorePos, target, status, life, used>>
  BY DEF RollbackAcquire, RollbackRelease, topicVars, groupVars, restoreVars, processVars
<1>4. PICK phase \in {"failed", "held"} :
        op' = [op EXCEPT ![l] = [pc |-> phase, at |-> NoOne, tries |-> 0]]
  BY DEF RollbackAcquire, RollbackRelease, Rest, At
<1>5. op' \in [Locks -> [pc : Phases, at : Instances \cup {NoOne}, tries : Nat]]
  BY <1>4 DEF Base, TypeOK, Phases
<1>6. TypeOK'
  BY <1>2, <1>3, <1>5 DEF Base, TypeOK, TableOK
<1>7. OpsRun'
  BY <1>3, <1>4 DEF Base, TypeOK, OpsRun
<1> QED
  BY <1>6, <1>7 DEF Base

LEMMA AssignBase ==
  ASSUME Base, NEW i \in Instances, NEW p \in Partitions, Assign(i, p) PROVE Base'
<1>1. GroupOf[i] \in Groups
  BY KafkaAssumption
<1>2. TypeOK'
  BY <1>1 DEF Base, TypeOK, Assign, topicVars, restoreVars, processVars, tableVars
<1>3. OpsRun'
  BY DEF Base, OpsRun, Assign, processVars
<1> QED
  BY <1>2, <1>3 DEF Base

\* Losing partitions keeps the group's variables well typed.
LEMMA DisownType ==
  ASSUME TypeOK, NEW g \in Groups, NEW lost \in SUBSET Partitions, Disown(g, lost)
  PROVE  /\ committed' \in [Groups -> [Partitions -> Nat]]
         /\ owner' \in [Groups -> [Partitions -> Instances \cup {NoOne}]]
         /\ pos' \in [Groups -> [Partitions -> Nat]]
<1>1. PICK c : /\ \A p \in lost : c[p] \in committed[g][p]..pos[g][p]
               /\ owner' = [owner EXCEPT ![g] =
                    [p \in Partitions |-> IF p \in lost THEN NoOne ELSE @[p]]]
               /\ committed' = [committed EXCEPT ![g] =
                    [p \in Partitions |-> IF p \in lost THEN c[p] ELSE @[p]]]
               /\ pos' = [pos EXCEPT ![g] =
                    [p \in Partitions |-> IF p \in lost THEN c[p] ELSE @[p]]]
  BY DEF Disown
<1>2. \A p \in lost : c[p] \in Nat
  BY <1>1 DEF TypeOK
<1> QED
  BY <1>1, <1>2 DEF TypeOK

LEMMA RevokeBase ==
  ASSUME Base, NEW g \in Groups, NEW p \in Partitions, Revoke(g, p) PROVE Base'
<1>1. used' \in [Disturbances -> Nat]
  BY DEF Base, TypeOK, Revoke, Spend, Disturbances
<1>2. /\ committed' \in [Groups -> [Partitions -> Nat]]
      /\ owner' \in [Groups -> [Partitions -> Instances \cup {NoOne}]]
      /\ pos' \in [Groups -> [Partitions -> Nat]]
  BY DisownType DEF Base, Revoke
<1>3. TypeOK'
  BY <1>1, <1>2 DEF Base, TypeOK, Revoke, topicVars, restoreVars, processVars, tableVars
<1>4. OpsRun'
  BY DEF Base, OpsRun, Revoke, processVars
<1> QED
  BY <1>3, <1>4 DEF Base

LEMMA LiveHandleBase ==
  ASSUME Base, NEW i \in Instances, NEW p \in Partitions, LiveHandle(i, p) PROVE Base'
<1>1. PICK o \in 1..Len(log[p]) :
        /\ ProcessRedirectMessage(i, log[p][o])
        /\ pos' = [pos EXCEPT ![GroupOf[i]][p] = o + 1]
  BY DEF LiveHandle
<1>2. log[p][o] \in Records /\ o \in Nat /\ GroupOf[i] \in Groups
  BY RecordAt, KafkaAssumption DEF Base
<1>3. TableOK'
  BY <1>1, <1>2, TypeTable, ProcessTable DEF Base, TableOK
<1>4. UNCHANGED <<log, gone, committed, owner, restorePos, target, status, life, op, used>>
  BY DEF LiveHandle, topicVars, restoreVars, processVars
<1>5. pos' \in [Groups -> [Partitions -> Nat]]
  BY <1>1, <1>2 DEF Base, TypeOK
<1>6. TypeOK'
  BY <1>3, <1>4, <1>5 DEF Base, TypeOK, TableOK
<1>7. OpsRun'
  BY <1>4 DEF Base, OpsRun
<1> QED
  BY <1>6, <1>7 DEF Base

LEMMA CompactBase ==
  ASSUME Base, NEW p \in Partitions, NEW o \in 1..Len(log[p]), Compact(p, o) PROVE Base'
<1>1. used' \in [Disturbances -> Nat]
  BY DEF Base, TypeOK, Compact, Spend, Disturbances
<1>2. gone' \in [Partitions -> SUBSET Nat]
  BY DEF Base, TypeOK, Compact
<1>3. TypeOK'
  BY <1>1, <1>2 DEF Base, TypeOK, Compact, groupVars, restoreVars, processVars, tableVars
<1>4. OpsRun'
  BY DEF Base, OpsRun, Compact, processVars
<1> QED
  BY <1>3, <1>4 DEF Base

LEMMA CrashBase ==
  ASSUME Base, NEW i \in Instances, Crash(i) PROVE Base'
<1>1. used' \in [Disturbances -> Nat]
  BY DEF Base, TypeOK, Crash, Spend, Disturbances
<1>2. /\ committed' \in [Groups -> [Partitions -> Nat]]
      /\ owner' \in [Groups -> [Partitions -> Instances \cup {NoOne}]]
      /\ pos' \in [Groups -> [Partitions -> Nat]]
  <2>1. GroupOf[i] \in Groups
    BY KafkaAssumption
  <2> QED
    BY <2>1, DisownType DEF Base, Crash
<1>3. \A l \in Locks :
        op'[l] = IF op[l].at # i THEN op[l]
                 ELSE [pc |-> IF op[l].pc \in {"acquiring", "undoAcquire"}
                              THEN "failed" ELSE "held",
                       at |-> NoOne, tries |-> 0]
  BY DEF Crash, AfterCrash, Rest, At
<1>4. op' \in [Locks -> [pc : Phases, at : Instances \cup {NoOne}, tries : Nat]]
  BY <1>3 DEF Base, TypeOK, Crash, Phases
<1>5. /\ DOMAIN lm' = Instances
      /\ \A j \in Instances : IsLockMap(lm'[j], {Topic}, Keys)
  BY EmptyMap DEF Base, TypeOK, Crash
<1>8. /\ UNCHANGED <<log, gone, restorePos, target>>
      /\ status' \in [Instances -> {"down", "restoring", "up", "detached"}]
      /\ life' \in [Instances -> Nat]
      /\ known' \in [Instances -> SUBSET Locks]
      /\ stolen' \in [Instances -> SUBSET Keys]
  BY DEF Base, TypeOK, Crash, topicVars, restoreVars
<1>6. TypeOK'
  BY <1>1, <1>2, <1>4, <1>5, <1>8 DEF Base, TypeOK
<1>7. OpsRun'
  BY <1>3 DEF Base, TypeOK, OpsRun, Crash
<1> QED
  BY <1>6, <1>7 DEF Base

LEMMA CancelStartBase ==
  ASSUME Base, NEW i \in Instances, CancelStart(i) PROVE Base'
<1>1. used' \in [Disturbances -> Nat]
  BY DEF Base, TypeOK, CancelStart, Spend, Disturbances
<1>2. /\ committed' \in [Groups -> [Partitions -> Nat]]
      /\ owner' \in [Groups -> [Partitions -> Instances \cup {NoOne}]]
      /\ pos' \in [Groups -> [Partitions -> Nat]]
  <2>1. GroupOf[i] \in Groups
    BY KafkaAssumption
  <2> QED
    BY <2>1, DisownType DEF Base, CancelStart
<1>3. TypeOK'
  BY <1>1, <1>2 DEF Base, TypeOK, CancelStart, topicVars, restoreVars, tableVars
<1>4. OpsRun'
  BY KafkaAssumption DEF Base, TypeOK, OpsRun, CancelStart
<1> QED
  BY <1>3, <1>4 DEF Base

LEMMA NextBase == Base /\ [Next]_vars => Base'
<1> SUFFICES ASSUME Base, [Next]_vars PROVE Base'
  OBVIOUS
<1>1. ASSUME NEW i \in Instances,
             \/ Start(i) \/ RestoreHandle(i) \/ FinishRestore(i)
             \/ CancelStart(i) \/ Crash(i)
      PROVE  Base'
  BY <1>1, StartBase, RestoreHandleBase, FinishRestoreBase, CancelStartBase, CrashBase
<1>2. ASSUME NEW i \in Instances, NEW l \in Locks, AcquireLocal(i, l) \/ ReleaseLocal(i, l)
      PROVE  Base'
  BY <1>2, AcquireLocalBase, ReleaseLocalBase
<1>3. ASSUME NEW l \in Locks, LockStep(l) PROVE Base'
  BY <1>3, ProducedBase, AttemptFailsBase, RollbackBase DEF LockStep
<1>4. ASSUME NEW i \in Instances, NEW p \in Partitions, Assign(i, p) \/ LiveHandle(i, p)
      PROVE  Base'
  BY <1>4, AssignBase, LiveHandleBase
<1>5. ASSUME NEW g \in Groups, NEW p \in Partitions, Revoke(g, p) PROVE Base'
  BY <1>5, RevokeBase
<1>6. ASSUME NEW p \in Partitions, NEW o \in 1..Len(log[p]), Compact(p, o) PROVE Base'
  BY <1>6, CompactBase
<1>7. CASE UNCHANGED vars
  BY <1>7 DEF vars, topicVars, groupVars, restoreVars, processVars, tableVars,
              Base, TypeOK, OpsRun
<1> QED
  BY <1>1, <1>2, <1>3, <1>4, <1>5, <1>6, <1>7 DEF Next

LEMMA InvariantBase == Spec => []Base
BY InitBase, NextBase, PTL DEF Spec

\* Type correctness: tables, offsets and operations stay well typed
\* whatever is replayed, moved, cleaned or rolled back.
THEOREM TypeCorrect == Spec => []TypeOK
BY InvariantBase, PTL DEF Base

-----------------------------------------------------------------------------
(* Known locks stay counted *)

\* The lock being acquired is one its instance knows: the rollback of the
\* acquisition gives back its own count.
AcquirerKnows ==
  \A l \in Locks : op[l].pc \in {"acquiring", "undoAcquire"} => l \in known[op[l].at]

CountedInv == Base /\ KnownCounted /\ AcquirerKnows

LEMMA KnownFinite ==
  ASSUME TableOK, NEW i \in Instances, NEW k
  PROVE  IsFiniteSet(KnownOf(i, k)) /\ Cardinality(KnownOf(i, k)) \in Nat
<1>1. KnownOf(i, k) \subseteq Locks
  BY DEF TableOK, KnownOf
<1> QED
  BY <1>1, KafkaAssumption, FS_Subset, FS_CardinalityType

LEMMA CountKeepsCounted ==
  ASSUME TableOK, KnownCounted, NEW i \in Instances, NEW l \in Locks,
         known' = [known EXCEPT ![i] = @ \cup {l}], stolen' = stolen,
         \A j \in Instances, k \in Keys :
           Count(j, k)' = Count(j, k) + (IF j = i /\ k = KeyOf[l] THEN 1 ELSE 0)
  PROVE  KnownCounted'
<1> SUFFICES ASSUME NEW j \in Instances, NEW k \in Keys \ stolen[j]
             PROVE  Count(j, k)' >= Cardinality(KnownOf(j, k)')
  BY DEF KnownCounted
<1>1. Count(j, k) >= Cardinality(KnownOf(j, k)) /\ Count(j, k) \in Nat
  BY CountNat DEF KnownCounted
<1>2. IsFiniteSet(KnownOf(j, k)) /\ Cardinality(KnownOf(j, k)) \in Nat
  BY KnownFinite
<1>3. CASE j = i /\ k = KeyOf[l]
  <2>1. KnownOf(j, k)' = KnownOf(j, k) \cup {l}
    BY <1>3 DEF KnownOf, TableOK
  <2> DEFINE S == KnownOf(j, k)
  <2>2. IsFiniteSet(S) /\ Cardinality(S) \in Nat
    BY <1>2
  <2>3. Count(j, k) >= Cardinality(S) /\ Count(j, k) \in Nat
    BY <1>1
  <2> HIDE DEF S
  <2>4. Cardinality(S \cup {l}) = IF l \in S THEN Cardinality(S) ELSE Cardinality(S) + 1
    BY <2>2, FS_AddElement
  <2>5. Count(j, k)' >= Cardinality(S \cup {l})
    BY <1>3, <2>2, <2>3, <2>4
  <2> QED
    BY <2>1, <2>5 DEF S
<1>4. CASE ~(j = i /\ k = KeyOf[l])
  <2>1. KnownOf(j, k)' = KnownOf(j, k)
    BY <1>4 DEF KnownOf, TableOK
  <2> QED
    BY <1>1, <1>4, <2>1
<1> QED
  BY <1>3, <1>4

LEMMA UncountKeepsCounted ==
  ASSUME TableOK, KnownCounted, NEW i \in Instances, NEW l \in Locks,
         UncountLock(i, l),
         \A j \in Instances : stolen[j] \subseteq stolen'[j],
         l \in known[i] \/ KeyOf[l] \in stolen'[i]
  PROVE  KnownCounted'
<1> SUFFICES ASSUME NEW j \in Instances, NEW k \in Keys \ stolen'[j]
             PROVE  Count(j, k)' >= Cardinality(KnownOf(j, k)')
  BY DEF KnownCounted
<1>1. Count(j, k) >= Cardinality(KnownOf(j, k)) /\ Count(j, k) \in Nat
  BY CountNat DEF KnownCounted
<1>2. IsFiniteSet(KnownOf(j, k)) /\ Cardinality(KnownOf(j, k)) \in Nat
  BY KnownFinite
<1>3. /\ known' = [known EXCEPT ![i] = @ \ {l}]
      /\ Count(j, k)' = IF j = i /\ k = KeyOf[l] /\ Count(j, k) > 0
                        THEN Count(j, k) - 1 ELSE Count(j, k)
  BY UncountLockTable
<1>4. CASE j = i /\ k = KeyOf[l]
  <2>1. l \in KnownOf(j, k)
    BY <1>4 DEF KnownOf
  <2>2. KnownOf(j, k)' = KnownOf(j, k) \ {l}
    BY <1>3, <1>4 DEF KnownOf, TableOK
  <2>3. Cardinality(KnownOf(j, k)') = Cardinality(KnownOf(j, k)) - 1
    BY <1>2, <2>1, <2>2, FS_RemoveElement
  <2> QED
    BY <1>1, <1>2, <1>3, <1>4, <2>3
<1>5. CASE ~(j = i /\ k = KeyOf[l])
  <2>1. KnownOf(j, k)' = KnownOf(j, k)
    BY <1>3, <1>5 DEF KnownOf, TableOK
  <2> QED
    BY <1>1, <1>3, <1>5, <2>1
<1> QED
  BY <1>4, <1>5

LEMMA SameKeepsCounted ==
  ASSUME KnownCounted, known' = known, stolen' = stolen,
         \A j \in Instances, k \in Keys : Count(j, k)' = Count(j, k)
  PROVE  KnownCounted'
BY DEF KnownCounted, KnownOf

LEMMA ProcessKeepsCounted ==
  ASSUME TableOK, KnownCounted, NEW i \in Instances, NEW r \in Records,
         ProcessRedirectMessage(i, r)
  PROVE  KnownCounted' /\ \A j \in Instances : known[j] \subseteq known'[j]
<1>1. r.lock \in Locks
  BY DEF Records
<1>2. CASE known' = known /\ \A j \in Instances, k \in Keys : Count(j, k)' = Count(j, k)
  BY <1>2, ProcessTable, SameKeepsCounted
<1>3. CASE /\ known' = [known EXCEPT ![i] = @ \cup {r.lock}]
           /\ \A j \in Instances, k \in Keys :
                Count(j, k)' = Count(j, k) + (IF j = i /\ k = KeyOf[r.lock] THEN 1 ELSE 0)
  <2>1. stolen' = stolen
    BY ProcessTable
  <2>2. KnownCounted'
    BY <1>1, <1>3, <2>1, CountKeepsCounted
  <2> QED
    BY <1>3, <2>2 DEF TableOK
<1> QED
  BY <1>2, <1>3, ProcessTable

LEMMA InitCounted == Init => CountedInv
<1> SUFFICES ASSUME Init PROVE CountedInv
  OBVIOUS
<1>1. Base
  BY InitBase
<1>2. KnownCounted
  <2> SUFFICES ASSUME NEW i \in Instances, NEW k \in Keys
               PROVE  Count(i, k) >= Cardinality(KnownOf(i, k))
    BY DEF KnownCounted
  <2>1. KnownOf(i, k) = {}
    BY DEF Init, KnownOf
  <2>2. Count(i, k) = 0
    BY EmptyMap DEF Init, Count
  <2> QED
    BY <2>1, <2>2, FS_EmptySet
<1>3. AcquirerKnows
  BY DEF Init, AcquirerKnows, Rest, At
<1> QED
  BY <1>1, <1>2, <1>3 DEF CountedInv

LEMMA NextCounted == CountedInv /\ [Next]_vars => CountedInv'
<1> SUFFICES ASSUME CountedInv, [Next]_vars PROVE CountedInv'
  OBVIOUS
<1>0. Base' /\ TypeOK /\ TableOK /\ KnownCounted /\ AcquirerKnows /\ OpsRun
  BY NextBase, TypeTable DEF CountedInv, Base
<1>1. ASSUME UNCHANGED <<lm, known, stolen>>,
             \A l \in Locks : /\ op'[l].pc \in {"acquiring", "undoAcquire"}
                                => op[l].pc \in {"acquiring", "undoAcquire"}
                              /\ op'[l].pc \in {"acquiring", "undoAcquire"}
                                => op'[l].at = op[l].at
      PROVE  KnownCounted' /\ AcquirerKnows'
  <2>1. KnownCounted'
    BY <1>0, <1>1, SameKeepsCounted DEF Count
  <2>2. AcquirerKnows'
    BY <1>0, <1>1 DEF AcquirerKnows
  <2> QED
    BY <2>1, <2>2
<1>2. ASSUME NEW i \in Instances, Start(i) \/ FinishRestore(i) \/ CancelStart(i)
      PROVE  KnownCounted' /\ AcquirerKnows'
  BY <1>1, <1>2 DEF Start, FinishRestore, CancelStart, tableVars
<1>3. ASSUME NEW i \in Instances, RestoreHandle(i)
      PROVE  KnownCounted' /\ AcquirerKnows'
  <2>1. PICK p \in Partitions : \E o \in 1..Len(log[p]) : ProcessRedirectMessage(i, log[p][o])
    BY <1>3 DEF RestoreHandle
  <2>2. PICK o \in 1..Len(log[p]) : ProcessRedirectMessage(i, log[p][o])
    BY <2>1
  <2>3. KnownCounted' /\ \A j \in Instances : known[j] \subseteq known'[j]
    BY <1>0, <2>2, RecordAt, ProcessKeepsCounted
  <2>4. op' = op
    BY <1>3 DEF RestoreHandle
  <2> QED
    BY <1>0, <2>3, <2>4 DEF AcquirerKnows, OpsRun
<1>4. ASSUME NEW i \in Instances, NEW p \in Partitions, LiveHandle(i, p)
      PROVE  KnownCounted' /\ AcquirerKnows'
  <2>1. PICK o \in 1..Len(log[p]) : ProcessRedirectMessage(i, log[p][o])
    BY <1>4 DEF LiveHandle
  <2>2. KnownCounted' /\ \A j \in Instances : known[j] \subseteq known'[j]
    BY <1>0, <2>1, RecordAt, ProcessKeepsCounted
  <2>3. op' = op
    BY <1>4 DEF LiveHandle
  <2> QED
    BY <1>0, <2>2, <2>3 DEF AcquirerKnows, OpsRun
<1>5. ASSUME NEW i \in Instances, NEW l \in Locks, AcquireLocal(i, l)
      PROVE  KnownCounted' /\ AcquirerKnows'
  <2>1. CountLock(i, l) /\ stolen' = stolen
    BY <1>5 DEF AcquireLocal
  <2>2. KnownCounted'
    BY <1>0, <2>1, CountLockTable, CountKeepsCounted
  <2>3. known' = [known EXCEPT ![i] = @ \cup {l}]
    BY <2>1 DEF CountLock
  <2>4. op' = [op EXCEPT ![l] = [pc |-> "acquiring", at |-> i, tries |-> 0]]
    BY <1>5 DEF AcquireLocal, At
  <2> QED
    BY <1>0, <2>2, <2>3, <2>4 DEF AcquirerKnows, OpsRun, TypeOK
<1>6. ASSUME NEW i \in Instances, NEW l \in Locks, ReleaseLocal(i, l)
      PROVE  KnownCounted' /\ AcquirerKnows'
  <2>1. /\ UncountLock(i, l)
        /\ stolen' = [stolen EXCEPT ![i] = IF l \in known[i] THEN @ ELSE @ \cup {KeyOf[l]}]
        /\ op[l].pc \in {"held", "released"}
    BY <1>6 DEF ReleaseLocal
  <2>2. /\ \A j \in Instances : stolen[j] \subseteq stolen'[j]
        /\ l \in known[i] \/ KeyOf[l] \in stolen'[i]
    BY <1>0, <2>1 DEF TableOK
  <2>3. KnownCounted'
    BY <1>0, <2>1, <2>2, UncountKeepsCounted
  <2>4. known' = [known EXCEPT ![i] = @ \ {l}]
    BY <2>1 DEF UncountLock
  <2>5. op' = [op EXCEPT ![l] = [pc |-> "releasing", at |-> i, tries |-> 0]]
    BY <1>6 DEF ReleaseLocal, At
  <2> QED
    BY <1>0, <2>1, <2>3, <2>4, <2>5 DEF AcquirerKnows, OpsRun, TypeOK
<1>7. ASSUME NEW l \in Locks, AcquireProduced(l) \/ ReleaseProduced(l)
      PROVE  KnownCounted' /\ AcquirerKnows'
  <2>1. UNCHANGED <<lm, known, stolen>>
    BY <1>7 DEF AcquireProduced, ReleaseProduced, tableVars
  <2>2. PICK phase \in {"held", "released"} :
          op' = [op EXCEPT ![l] = [pc |-> phase, at |-> NoOne, tries |-> 0]]
    BY <1>7 DEF AcquireProduced, ReleaseProduced, Rest, At
  <2> QED
    BY <1>0, <1>1, <2>1, <2>2 DEF TypeOK
<1>8. ASSUME NEW l \in Locks, AcquireAttemptFails(l)
      PROVE  KnownCounted' /\ AcquirerKnows'
  <2>1. UNCHANGED <<lm, known, stolen>> /\ op[l].pc = "acquiring"
    BY <1>8 DEF AcquireAttemptFails, tableVars
  <2>2. PICK o : /\ op' = [op EXCEPT ![l] = o]
                 /\ \/ o = [op[l] EXCEPT !.tries = @ + 1]
                    \/ o = [op[l] EXCEPT !.pc = "undoAcquire"]
    BY <1>8 DEF AcquireAttemptFails, FailedAttempt
  <2>3. o.at = op[l].at
    BY <1>0, <2>2 DEF TypeOK
  <2> QED
    BY <1>0, <1>1, <2>1, <2>2, <2>3 DEF TypeOK
<1>9. ASSUME NEW l \in Locks, ReleaseAttemptFails(l)
      PROVE  KnownCounted' /\ AcquirerKnows'
  <2>1. UNCHANGED <<lm, known, stolen>> /\ op[l].pc = "releasing"
    BY <1>9 DEF ReleaseAttemptFails, tableVars
  <2>2. PICK o : /\ op' = [op EXCEPT ![l] = o]
                 /\ \/ o = [op[l] EXCEPT !.tries = @ + 1]
                    \/ o = [op[l] EXCEPT !.pc = "undoRelease"]
    BY <1>9 DEF ReleaseAttemptFails, FailedAttempt
  <2>3. o.pc \in {"releasing", "undoRelease"}
    BY <1>0, <2>1, <2>2 DEF TypeOK
  <2> QED
    BY <1>0, <1>1, <2>1, <2>2, <2>3 DEF TypeOK
<1>10. ASSUME NEW l \in Locks, RollbackAcquire(l)
       PROVE  KnownCounted' /\ AcquirerKnows'
  <2>1. /\ UncountLock(op[l].at, l)
        /\ stolen' = stolen
        /\ op' = [op EXCEPT ![l] = [pc |-> "failed", at |-> NoOne, tries |-> 0]]
    BY <1>10 DEF RollbackAcquire, Rest, At
  <2>2. op[l].at \in Instances /\ l \in known[op[l].at]
    BY <1>0, <1>10 DEF RollbackAcquire, OpsRun, AcquirerKnows
  <2>3. KnownCounted'
    BY <1>0, <2>1, <2>2, UncountKeepsCounted
  <2>4. known' = [known EXCEPT ![op[l].at] = @ \ {l}]
    BY <2>1 DEF UncountLock
  <2> QED
    BY <1>0, <2>1, <2>2, <2>3, <2>4 DEF AcquirerKnows, OpsRun, TypeOK
<1>11. ASSUME NEW l \in Locks, RollbackRelease(l)
       PROVE  KnownCounted' /\ AcquirerKnows'
  <2>1. /\ CountLock(op[l].at, l)
        /\ stolen' = stolen
        /\ op' = [op EXCEPT ![l] = [pc |-> "held", at |-> NoOne, tries |-> 0]]
    BY <1>11 DEF RollbackRelease, Rest, At
  <2>2. op[l].at \in Instances
    BY <1>0, <1>11 DEF RollbackRelease, OpsRun
  <2>3. KnownCounted'
    BY <1>0, <2>1, <2>2, CountLockTable, CountKeepsCounted
  <2>4. known' = [known EXCEPT ![op[l].at] = @ \cup {l}]
    BY <2>1 DEF CountLock
  <2> QED
    BY <1>0, <2>1, <2>2, <2>3, <2>4 DEF AcquirerKnows, OpsRun, TypeOK
<1>12. ASSUME NEW i \in Instances, NEW p \in Partitions, Assign(i, p)
       PROVE  KnownCounted' /\ AcquirerKnows'
  BY <1>1, <1>12 DEF Assign, tableVars
<1>13. ASSUME NEW g \in Groups, NEW p \in Partitions, Revoke(g, p)
       PROVE  KnownCounted' /\ AcquirerKnows'
  BY <1>1, <1>13 DEF Revoke, tableVars
<1>14. ASSUME NEW p \in Partitions, NEW o \in 1..Len(log[p]), Compact(p, o)
       PROVE  KnownCounted' /\ AcquirerKnows'
  BY <1>1, <1>14 DEF Compact, tableVars
<1>15. ASSUME NEW i \in Instances, Crash(i)
       PROVE  KnownCounted' /\ AcquirerKnows'
  <2>1. /\ lm' = [lm EXCEPT ![i] = Nothing]
        /\ known' = [known EXCEPT ![i] = {}]
        /\ stolen' = [stolen EXCEPT ![i] = {}]
        /\ \A l \in Locks : op'[l] = AfterCrash(i, op[l])
    BY <1>15 DEF Crash
  <2>2. KnownCounted'
    <3> SUFFICES ASSUME NEW j \in Instances, NEW k \in Keys \ stolen'[j]
                 PROVE  Count(j, k)' >= Cardinality(KnownOf(j, k)')
      BY DEF KnownCounted
    <3>1. CASE j = i
      <4>1. KnownOf(j, k)' = {}
        BY <1>0, <2>1, <3>1 DEF KnownOf, TableOK
      <4>2. Count(j, k)' = 0
        BY <1>0, <2>1, <3>1, EmptyMap DEF Count, TableOK
      <4> QED
        BY <4>1, <4>2, FS_EmptySet
    <3>2. CASE j # i
      <4>1. k \in Keys \ stolen[j]
        BY <1>0, <2>1, <3>2 DEF TableOK
      <4>2. Count(j, k)' = Count(j, k) /\ KnownOf(j, k)' = KnownOf(j, k)
        BY <1>0, <2>1, <3>2 DEF Count, KnownOf, TableOK
      <4> QED
        BY <1>0, <4>1, <4>2 DEF KnownCounted
    <3> QED
      BY <3>1, <3>2
  <2>3. ASSUME NEW l \in Locks, op'[l].pc \in {"acquiring", "undoAcquire"}
        PROVE  op'[l] = op[l] /\ op[l].at # i
    <3>1. CASE op[l].at # i
      BY <2>1, <3>1 DEF AfterCrash
    <3>2. CASE op[l].at = i
      <4>0. op'[l] = [pc |-> IF op[l].pc \in {"acquiring", "undoAcquire"}
                             THEN "failed" ELSE "held",
                      at |-> NoOne, tries |-> 0]
        BY <2>1, <3>2 DEF AfterCrash, Rest, At
      <4>1. op'[l].pc \in {"failed", "held"}
        BY <4>0
      <4> QED
        BY <2>3, <4>1
    <3> QED
      BY <3>1, <3>2
  <2>4. AcquirerKnows'
    <3> SUFFICES ASSUME NEW l \in Locks, op'[l].pc \in {"acquiring", "undoAcquire"}
                 PROVE  l \in known'[op'[l].at]
      BY DEF AcquirerKnows
    <3>1. op'[l] = op[l] /\ op[l].at # i
      BY <2>3
    <3>2. op[l].at \in Instances /\ l \in known[op[l].at]
      BY <1>0, <3>1 DEF AcquirerKnows, OpsRun
    <3>3. known'[op[l].at] = known[op[l].at]
      BY <1>0, <2>1, <3>1, <3>2 DEF TableOK
    <3> QED
      BY <3>1, <3>2, <3>3
  <2> QED
    BY <2>2, <2>4
<1>16. ASSUME UNCHANGED vars
       PROVE  KnownCounted' /\ AcquirerKnows'
  <2>1. UNCHANGED <<lm, known, stolen>> /\ op' = op
    BY <1>16 DEF vars, tableVars
  <2> QED
    BY <1>1, <2>1
<1>17. ASSUME NEW l \in Locks, LockStep(l)
       PROVE  KnownCounted' /\ AcquirerKnows'
  BY <1>7, <1>8, <1>9, <1>10, <1>11, <1>17 DEF LockStep
<1>18. KnownCounted' /\ AcquirerKnows'
  BY <1>2, <1>3, <1>4, <1>5, <1>6, <1>12, <1>13, <1>14, <1>15, <1>16, <1>17 DEF Next
<1> QED
  BY <1>0, <1>18 DEF CountedInv

LEMMA InvariantCounted == Spec => []CountedInv
BY InitCounted, NextCounted, PTL DEF Spec

\* A key is counted at least once for every lock an instance knows, so it
\* stays locked until the instance itself released them all, unless the
\* instance released a lock of the key it had not counted.
THEOREM KnownStayCounted == Spec => []KnownCounted
BY InvariantCounted, PTL DEF CountedInv

\* A lock an instance knows locks its key there, stolen keys excepted.
KnownLockedUnlessStolen ==
  \A i \in Instances : \A l \in known[i] :
    KeyOf[l] \in stolen[i] \/ IsLocked(lm[i], Topic, KeyOf[l])

LEMMA CountedLocks == CountedInv => KnownLockedUnlessStolen
<1> SUFFICES ASSUME CountedInv, NEW i \in Instances, NEW l \in known[i],
                    KeyOf[l] \notin stolen[i]
             PROVE  IsLocked(lm[i], Topic, KeyOf[l])
  BY DEF KnownLockedUnlessStolen
<1>1. TableOK
  BY TypeTable DEF CountedInv, Base
<1>2. l \in Locks /\ KeyOf[l] \in Keys
  BY <1>1, KeyOfLock DEF TableOK
<1>3. l \in KnownOf(i, KeyOf[l])
  BY DEF KnownOf
<1>4. Cardinality(KnownOf(i, KeyOf[l])) \in Nat /\ Cardinality(KnownOf(i, KeyOf[l])) # 0
  BY <1>1, <1>3, KnownFinite, FS_EmptySet
<1>5. Count(i, KeyOf[l]) > 0
  BY <1>1, <1>2, <1>4, CountNat DEF CountedInv, KnownCounted
<1> QED
  BY <1>5 DEF IsLocked, Count, GetRefCount

\* A lock an instance knows locks its key there, unless the instance
\* released a lock of that key it had not counted.
THEOREM KnownKeysStayLocked == Spec => []KnownLockedUnlessStolen
BY InvariantCounted, CountedLocks, PTL
=============================================================================

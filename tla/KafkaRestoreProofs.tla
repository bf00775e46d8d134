------------------------- MODULE KafkaRestoreProofs -------------------------
(***************************************************************************)
(* For any number of instances, locks, keys, partitions and disturbances:  *)
(* when Start has returned, the instance counts every lock recorded before *)
(* the snapshot of the high water marks that nobody began to release; an   *)
(* instance that only its own records reach counts exactly the locks it    *)
(* holds; and instances with groups of their own count every lock that is  *)
(* held once they have consumed the topic.                                 *)
(***************************************************************************)
EXTENDS KafkaCoordinatorProofs

\* A record was written in a life of its instance that began, and an
\* instance that does not serve yet has written nothing in its present life.
OriginsPast ==
  \A p \in Partitions : \A o \in 1..Len(log[p]) :
    LET j == log[p][o].origin[1]
        n == log[p][o].origin[2]
    IN  n <= life[j] /\ (status[j] \notin {"up", "detached"} => n < life[j])

\* A uuid that was not drawn yet is nowhere.
FreshUnrecorded ==
  \A p \in Partitions : \A o \in 1..Len(log[p]) : op[log[p][o].lock].pc # "fresh"

TargetsPast ==
  \A i \in Instances, p \in Partitions : target[i][p] <= Len(log[p])

\* Nothing of l is in the part of the topic i had to replay.
Unrecorded(i, l) ==
  \A p \in Partitions : \A o \in 1..target[i][p] : log[p][o].lock # l

\* An acquisition under way is younger than the snapshot of its instance.
NewAfterSnapshot ==
  \A l \in Locks :
    op[l].pc \in {"acquiring", "undoAcquire"} => Unrecorded(op[l].at, l)

Replayed ==
  \A i \in Instances : status[i] = "up" =>
    \A p \in Partitions : restorePos[i][p] > target[i][p]

LearntLock(i, l) == l \in known[i] \/ op[l].at = i \/ Tombstoned(l)

\* What RestoredLocksKnown says, as far as the refill consumer got.
LearntSoFar ==
  \A i \in Instances : status[i] # "down" =>
    \A p \in Partitions : \A o \in (1..target[i][p]) \ gone[p] :
      \/ o >= restorePos[i][p]
      \/ log[p][o].tomb
      \/ LearntLock(i, log[p][o].lock)

History == OriginsPast /\ FreshUnrecorded /\ TargetsPast /\ NewAfterSnapshot
RestoreInv == Base /\ History /\ Replayed /\ LearntSoFar

-----------------------------------------------------------------------------
(* The topic only grows                                                    *)

\* Every new record is one of l, written by the instance that works on l.
Appended(l) ==
  \A p \in Partitions :
    /\ Len(log[p]) \in Nat /\ Len(log'[p]) \in Nat /\ Len(log[p]) <= Len(log'[p])
    /\ \A o \in 1..Len(log[p]) : log'[p][o] = log[p][o]
    /\ \A o \in 1..Len(log'[p]) :
         \/ o \in 1..Len(log[p])
         \/ log'[p][o].lock = l /\ log'[p][o].origin = <<op[l].at, life[op[l].at]>>

LEMMA SameLog ==
  ASSUME TypeOK, UNCHANGED log, NEW l
  PROVE  Appended(l)
<1>1. \A p \in Partitions : Len(log[p]) \in Nat
  BY DEF TypeOK
<1> QED
  BY <1>1 DEF Appended

LEMMA PublishedAppends ==
  ASSUME Base, NEW l \in Locks, op[l].at \in Instances, NEW b \in BOOLEAN, Published(l, b)
  PROVE  Appended(l) /\ (b => Tombstoned(l)')
<1>1. PICK r \in Records :
        /\ r.lock = l
        /\ r.tomb = b
        /\ r.origin = <<op[l].at, life[op[l].at]>>
        /\ log' = [log EXCEPT ![PartitionOf[l]] = Append(@, r)]
  BY PublishedType DEF Base
<1>2. PartitionOf[l] \in Partitions /\ log \in [Partitions -> Seq(Records)]
  BY KafkaAssumption DEF Base, TypeOK
<1>3. /\ log'[PartitionOf[l]] = Append(log[PartitionOf[l]], r)
      /\ \A p \in Partitions \ {PartitionOf[l]} : log'[p] = log[p]
      /\ \A p \in Partitions : log[p] \in Seq(Records)
  BY <1>1, <1>2
<1>4. ASSUME NEW p \in Partitions
      PROVE  /\ Len(log[p]) \in Nat /\ Len(log'[p]) \in Nat /\ Len(log[p]) <= Len(log'[p])
             /\ \A o \in 1..Len(log[p]) : log'[p][o] = log[p][o]
             /\ \A o \in 1..Len(log'[p]) : o \in 1..Len(log[p]) \/ log'[p][o] = r
  <2>1. CASE p = PartitionOf[l]
    BY <1>2, <1>3, <2>1
  <2>2. CASE p # PartitionOf[l]
    BY <1>3, <2>2
  <2> QED
    BY <2>1, <2>2
<1>5. Appended(l)
  BY <1>1, <1>4 DEF Appended
<1>6. ASSUME b PROVE Tombstoned(l)'
  <2>1. /\ Len(log[PartitionOf[l]]) + 1 \in 1..Len(log'[PartitionOf[l]])
        /\ log'[PartitionOf[l]][Len(log[PartitionOf[l]]) + 1] = r
    BY <1>2, <1>3
  <2> QED
    BY <1>1, <1>6, <2>1 DEF Tombstoned
<1> QED
  BY <1>5, <1>6

LEMMA TombstonedStays ==
  ASSUME NEW l, Appended(l), NEW m \in Locks, Tombstoned(m)
  PROVE  Tombstoned(m)'
<1>1. PartitionOf[m] \in Partitions
  BY KafkaAssumption
<1> DEFINE q == PartitionOf[m]
<1>2. PICK o \in 1..Len(log[q]) : log[q][o].lock = m /\ log[q][o].tomb
  BY DEF Tombstoned
<1>3. o \in 1..Len(log'[q]) /\ log'[q][o] = log[q][o]
  BY <1>1, <1>2 DEF Appended
<1> QED
  BY <1>2, <1>3 DEF Tombstoned

LEMMA RecordType ==
  ASSUME Base, NEW p \in Partitions, NEW o \in 1..Len(log[p])
  PROVE  /\ log[p][o].lock \in Locks
         /\ log[p][o].origin[1] \in Instances
         /\ log[p][o].origin[2] \in Nat
         /\ log[p][o].origin = <<log[p][o].origin[1], log[p][o].origin[2]>>
         /\ log[p][o].tomb \in BOOLEAN
<1>1. log[p][o] \in Records
  BY RecordAt DEF Base
<1> QED
  BY <1>1 DEF Records, Origins

-----------------------------------------------------------------------------
(* A step of one lock's Acquire or Release                                 *)

LEMMA OperationStep ==
  ASSUME RestoreInv, NEW l \in Locks, NEW o,
         op' = [op EXCEPT ![l] = o], Appended(l),
         UNCHANGED <<gone, status, life, restorePos, target>>,
         (op[l].at \in Instances /\ status[op[l].at] \in {"up", "detached"}) \/ UNCHANGED log,
         o.pc # "fresh", op[l].pc # "fresh" \/ UNCHANGED log,
         o.pc \in {"acquiring", "undoAcquire"} =>
           \/ op[l].pc \in {"acquiring", "undoAcquire"} /\ o.at = op[l].at
           \/ op[l].pc = "fresh" /\ o.at \in Instances,
         \A j \in Instances, m \in Locks \ {l} : m \in known[j] => m \in known'[j],
         \A j \in Instances : LearntLock(j, l) =>
           l \in known'[j] \/ o.at = j \/ Tombstoned(l)' \/ Unrecorded(j, l)
  PROVE  History' /\ Replayed' /\ LearntSoFar'
<1> USE DEF RestoreInv, History
<1>1. op'[l] = o /\ \A m \in Locks \ {l} : op'[m] = op[m]
  BY DEF Base, TypeOK
<1>2. OriginsPast'
  <2> SUFFICES ASSUME NEW p \in Partitions, NEW x \in 1..Len(log'[p])
               PROVE  (LET j == log[p][x].origin[1]
                           n == log[p][x].origin[2]
                       IN  n <= life[j] /\ (status[j] \notin {"up", "detached"} => n < life[j]))'
    BY DEF OriginsPast
  <2>1. CASE x \in 1..Len(log[p])
    <3>1. log'[p][x] = log[p][x]
      BY <2>1 DEF Appended
    <3> QED
      BY <2>1, <3>1 DEF OriginsPast
  <2>2. CASE x \notin 1..Len(log[p])
    <3>1. log'[p][x].origin = <<op[l].at, life[op[l].at]>>
      BY <2>2 DEF Appended
    <3>2. op[l].at \in Instances /\ status[op[l].at] \in {"up", "detached"}
      BY <2>2
    <3>3. life[op[l].at] \in Nat
      BY <3>2 DEF Base, TypeOK
    <3> QED
      BY <3>1, <3>2, <3>3
  <2> QED
    BY <2>1, <2>2
<1>3. FreshUnrecorded'
  <2> SUFFICES ASSUME NEW p \in Partitions, NEW x \in 1..Len(log'[p])
               PROVE  op'[log'[p][x].lock].pc # "fresh"
    BY DEF FreshUnrecorded
  <2>1. CASE x \in 1..Len(log[p])
    <3>1. log'[p][x] = log[p][x] /\ log[p][x].lock \in Locks
      BY <2>1, RecordType DEF Appended
    <3>2. op[log[p][x].lock].pc # "fresh"
      BY <2>1 DEF FreshUnrecorded
    <3> QED
      BY <1>1, <3>1, <3>2
  <2>2. CASE x \notin 1..Len(log[p])
    BY <1>1, <2>2 DEF Appended
  <2> QED
    BY <2>1, <2>2
<1>4. TargetsPast'
  <2> SUFFICES ASSUME NEW i \in Instances, NEW p \in Partitions
               PROVE  target[i][p] <= Len(log'[p])
    BY DEF TargetsPast
  <2>1. /\ target[i][p] <= Len(log[p]) /\ Len(log[p]) <= Len(log'[p])
        /\ Len(log[p]) \in Nat /\ Len(log'[p]) \in Nat
    BY DEF TargetsPast, Appended
  <2>2. target[i][p] \in Nat
    BY DEF Base, TypeOK
  <2> QED
    BY <2>1, <2>2
<1>5. \A i \in Instances, p \in Partitions : \A x \in 1..target[i][p] :
        x \in 1..Len(log[p]) /\ log'[p][x] = log[p][x]
  <2> SUFFICES ASSUME NEW i \in Instances, NEW p \in Partitions, NEW x \in 1..target[i][p]
               PROVE  x \in 1..Len(log[p]) /\ log'[p][x] = log[p][x]
    OBVIOUS
  <2>1. target[i][p] \in Nat /\ target[i][p] <= Len(log[p]) /\ Len(log[p]) \in Nat
    BY DEF Base, TypeOK, TargetsPast, Appended
  <2>2. x \in 1..Len(log[p])
    BY <2>1
  <2> QED
    BY <2>2 DEF Appended
<1>7. NewAfterSnapshot'
  <2> SUFFICES ASSUME NEW m \in Locks, op'[m].pc \in {"acquiring", "undoAcquire"}
               PROVE  Unrecorded(op[m].at, m)'
    BY DEF NewAfterSnapshot
  <2>1. CASE m # l
    <3>1. op'[m] = op[m] /\ op[m].at \in Instances
      BY <1>1, <2>1 DEF Base, OpsRun
    <3>2. Unrecorded(op[m].at, m)
      BY <3>1 DEF NewAfterSnapshot
    <3> QED
      BY <1>5, <3>1, <3>2 DEF Unrecorded
  <2>2. CASE m = l /\ op[l].pc \in {"acquiring", "undoAcquire"} /\ o.at = op[l].at
    <3>1. op[l].at \in Instances /\ Unrecorded(op[l].at, l)
      BY <2>2 DEF NewAfterSnapshot, Base, OpsRun
    <3> QED
      BY <1>1, <1>5, <2>2, <3>1 DEF Unrecorded
  <2>3. CASE m = l /\ op[l].pc = "fresh" /\ o.at \in Instances
    <3>1. ASSUME NEW p \in Partitions, NEW x \in 1..target[o.at][p]
          PROVE  log'[p][x].lock # l
      BY <1>5, <2>3, <3>1 DEF FreshUnrecorded
    <3> QED
      BY <1>1, <2>3, <3>1 DEF Unrecorded
  <2> QED
    BY <1>1, <2>1, <2>2, <2>3
<1>8. Replayed'
  BY DEF Replayed
<1>9. LearntSoFar'
  <2> SUFFICES ASSUME NEW i \in Instances, status[i] # "down", NEW p \in Partitions,
                      NEW x \in (1..target[i][p]) \ gone[p]
               PROVE  (\/ x >= restorePos[i][p]
                       \/ log[p][x].tomb
                       \/ LearntLock(i, log[p][x].lock))'
    BY DEF LearntSoFar
  <2>1. x \in 1..Len(log[p]) /\ log'[p][x] = log[p][x]
    BY <1>5
  <2>2. log[p][x].lock \in Locks
    BY <2>1, RecordType
  <2>3. CASE x >= restorePos[i][p] \/ log[p][x].tomb
    BY <2>1, <2>3
  <2>4. CASE LearntLock(i, log[p][x].lock)
    <3>1. CASE log[p][x].lock = l
      <4>1. ~Unrecorded(i, l)
        BY <3>1 DEF Unrecorded
      <4>2. l \in known'[i] \/ o.at = i \/ Tombstoned(l)'
        BY <2>4, <3>1, <4>1
      <4> QED
        BY <1>1, <2>1, <3>1, <4>2 DEF LearntLock, Tombstoned
    <3>2. CASE log[p][x].lock # l
      <4>1. PICK m \in Locks \ {l} : m = log[p][x].lock
        BY <2>2, <3>2
      <4>2. Tombstoned(m) => Tombstoned(m)'
        BY TombstonedStays
      <4>3. m \in known[i] => m \in known'[i]
        OBVIOUS
      <4>4. op'[m] = op[m]
        BY <1>1
      <4>5. m \in known'[i] \/ op'[m].at = i \/ Tombstoned(m)'
        BY <2>4, <4>1, <4>2, <4>3, <4>4 DEF LearntLock
      <4> QED
        BY <2>1, <4>1, <4>5 DEF LearntLock, Tombstoned
    <3> QED
      BY <3>1, <3>2
  <2> QED
    BY <2>3, <2>4 DEF LearntSoFar
<1> QED
  BY <1>2, <1>3, <1>4, <1>7, <1>8, <1>9

LEMMA RestPC == ASSUME NEW phase PROVE Rest(phase).pc = phase
BY DEF Rest, At

LEMMA AcquireLocalRestore ==
  ASSUME RestoreInv, NEW i \in Instances, NEW l \in Locks, AcquireLocal(i, l)
  PROVE  History' /\ Replayed' /\ LearntSoFar'
<1> DEFINE o == [pc |-> "acquiring", at |-> i, tries |-> 0]
<1>1. /\ op' = [op EXCEPT ![l] = o]
      /\ op[l].pc = "fresh"
      /\ known' = [known EXCEPT ![i] = @ \cup {l}]
      /\ UNCHANGED <<log, gone, status, life, restorePos, target>>
  BY DEF AcquireLocal, At, CountLock, topicVars, restoreVars, processVars
<1>2. TypeOK /\ Appended(l)
  BY <1>1, SameLog DEF RestoreInv, Base
<1>3. op[l].at = NoOne
  BY <1>1 DEF RestoreInv, Base, OpsRun
<1>4. \A j \in Instances, m \in Locks : m \in known[j] => m \in known'[j]
  BY <1>1, <1>2 DEF TypeOK
<1>5. ASSUME NEW j \in Instances, LearntLock(j, l)
      PROVE  l \in known'[j] \/ Tombstoned(l)'
  BY <1>1, <1>3, <1>4, <1>5, KafkaAssumption DEF LearntLock, Tombstoned
<1>6. o.pc = "acquiring" /\ o.at = i
  OBVIOUS
<1> HIDE DEF o
<1> QED
  BY <1>1, <1>2, <1>4, <1>5, <1>6, OperationStep

LEMMA ReleaseLocalRestore ==
  ASSUME RestoreInv, NEW i \in Instances, NEW l \in Locks, ReleaseLocal(i, l)
  PROVE  History' /\ Replayed' /\ LearntSoFar'
<1>1. /\ op' = [op EXCEPT ![l] = [pc |-> "releasing", at |-> i, tries |-> 0]]
      /\ op[l].pc \in {"held", "released"}
      /\ known' = [known EXCEPT ![i] = @ \ {l}]
      /\ UNCHANGED <<log, gone, status, life, restorePos, target>>
  BY DEF ReleaseLocal, At, UncountLock, topicVars, restoreVars, processVars
<1>2. TypeOK /\ Appended(l)
  BY <1>1, SameLog DEF RestoreInv, Base
<1>3. op[l].at = NoOne
  BY <1>1 DEF RestoreInv, Base, OpsRun
<1>4. \A j \in Instances, m \in Locks \ {l} : m \in known[j] => m \in known'[j]
  BY <1>1, <1>2 DEF TypeOK
<1>5. ASSUME NEW j \in Instances, LearntLock(j, l)
      PROVE  l \in known'[j] \/ i = j \/ Tombstoned(l)'
  BY <1>1, <1>2, <1>3, <1>5, KafkaAssumption DEF LearntLock, Tombstoned, TypeOK
<1>6. PICK o : o = [pc |-> "releasing", at |-> i, tries |-> 0]
  OBVIOUS
<1>7. o.pc = "releasing" /\ o.at = i /\ op' = [op EXCEPT ![l] = o]
  BY <1>1, <1>6
<1> QED
  BY <1>1, <1>2, <1>4, <1>5, <1>7, OperationStep

\* The record of an acquisition is new to everybody, and its own instance
\* replays nothing any more; the record of a release is a tombstone.
LEMMA ProducedRestore ==
  ASSUME RestoreInv, NEW l \in Locks, AcquireProduced(l) \/ ReleaseProduced(l)
  PROVE  History' /\ Replayed' /\ LearntSoFar'
<1>1. /\ UNCHANGED <<gone, status, life, restorePos, target, known>>
      /\ op[l].pc \in {"acquiring", "releasing"}
  BY DEF AcquireProduced, ReleaseProduced, restoreVars, processVars, tableVars
<1>2. op[l].at \in Instances /\ status[op[l].at] \in {"up", "detached"}
  BY <1>1 DEF RestoreInv, Base, OpsRun
<1>3. PICK o : op' = [op EXCEPT ![l] = o] /\ o.pc \in {"held", "released"}
  <2>1. Rest("held").pc = "held" /\ Rest("released").pc = "released"
    BY RestPC
  <2> QED
    BY <2>1 DEF AcquireProduced, ReleaseProduced
<1>4. Appended(l) /\ (op[l].pc = "releasing" => Tombstoned(l)')
  <2>1. CASE AcquireProduced(l)
    BY <1>2, <2>1, PublishedAppends DEF AcquireProduced, RestoreInv
  <2>2. CASE ReleaseProduced(l)
    BY <1>2, <2>2, PublishedAppends DEF ReleaseProduced, RestoreInv
  <2> QED
    BY <2>1, <2>2
<1>5. ASSUME NEW j \in Instances, LearntLock(j, l)
      PROVE  l \in known'[j] \/ Tombstoned(l)' \/ Unrecorded(j, l)
  <2>1. CASE l \in known[j]
    BY <1>1, <2>1
  <2>2. CASE Tombstoned(l)
    BY <1>4, <2>2, TombstonedStays
  <2>3. CASE op[l].at = j /\ op[l].pc = "acquiring"
    BY <2>3 DEF RestoreInv, History, NewAfterSnapshot
  <2>4. CASE op[l].at = j /\ op[l].pc = "releasing"
    BY <1>4, <2>4
  <2> QED
    BY <1>1, <1>5, <2>1, <2>2, <2>3, <2>4 DEF LearntLock
<1> QED
  BY <1>1, <1>2, <1>3, <1>4, <1>5, OperationStep

LEMMA AttemptFailsRestore ==
  ASSUME RestoreInv, NEW l \in Locks, AcquireAttemptFails(l) \/ ReleaseAttemptFails(l)
  PROVE  History' /\ Replayed' /\ LearntSoFar'
<1>1. /\ UNCHANGED <<gone, status, life, restorePos, target, known>>
      /\ op[l].pc \in {"acquiring", "releasing"}
  BY DEF AcquireAttemptFails, ReleaseAttemptFails, restoreVars, processVars, tableVars
<1>2. op[l].at \in Instances /\ status[op[l].at] \in {"up", "detached"}
  BY <1>1 DEF RestoreInv, Base, OpsRun
<1>3. PICK b \in BOOLEAN, undo \in {"undoAcquire", "undoRelease"} :
        /\ FailedAttempt(l, b, undo)
        /\ undo = "undoAcquire" => op[l].pc = "acquiring"
  BY DEF AcquireAttemptFails, ReleaseAttemptFails
<1>4. PICK o : /\ op' = [op EXCEPT ![l] = o]
               /\ \/ o = [op[l] EXCEPT !.tries = @ + 1]
                  \/ o = [op[l] EXCEPT !.pc = undo]
  BY <1>3 DEF FailedAttempt
<1>5. o.at = op[l].at /\ o.pc \in {op[l].pc, undo}
  BY <1>4 DEF RestoreInv, Base, TypeOK
<1>6. Appended(l)
  <2>1. CASE Published(l, b)
    BY <1>2, <2>1, PublishedAppends DEF RestoreInv
  <2>2. CASE UNCHANGED log
    BY <2>2, SameLog DEF RestoreInv, Base
  <2> QED
    BY <1>3, <2>1, <2>2 DEF FailedAttempt
<1>7. ASSUME NEW j \in Instances, LearntLock(j, l)
      PROVE  l \in known'[j] \/ o.at = j \/ Tombstoned(l)'
  BY <1>1, <1>5, <1>6, <1>7, TombstonedStays DEF LearntLock
<1>8. o.pc # "fresh"
  BY <1>1, <1>5
<1>9. o.pc \in {"acquiring", "undoAcquire"} => op[l].pc \in {"acquiring", "undoAcquire"}
  BY <1>1, <1>3, <1>5
<1> QED
  BY <1>1, <1>2, <1>4, <1>5, <1>6, <1>7, <1>8, <1>9, OperationStep

LEMMA RollbackRestore ==
  ASSUME RestoreInv, NEW l \in Locks, RollbackAcquire(l) \/ RollbackRelease(l)
  PROVE  History' /\ Replayed' /\ LearntSoFar'
<1>1. /\ UNCHANGED <<log, gone, status, life, restorePos, target>>
      /\ op[l].pc \in {"undoAcquire", "undoRelease"}
  BY DEF RollbackAcquire, RollbackRelease, topicVars, restoreVars, processVars
<1>2. TypeOK /\ Appended(l)
  BY <1>1, SameLog DEF RestoreInv, Base
<1>3. op[l].at \in Instances
  BY <1>1 DEF RestoreInv, Base, OpsRun
<1>4. PICK o : op' = [op EXCEPT ![l] = o] /\ o.pc \in {"failed", "held"}
  <2>1. Rest("failed").pc = "failed" /\ Rest("held").pc = "held"
    BY RestPC
  <2> QED
    BY <2>1 DEF RollbackAcquire, RollbackRelease
<1>5. \/ RollbackAcquire(l) /\ known' = [known EXCEPT ![op[l].at] = @ \ {l}]
      \/ RollbackRelease(l) /\ known' = [known EXCEPT ![op[l].at] = @ \cup {l}]
  BY DEF RollbackAcquire, RollbackRelease, CountLock, UncountLock
<1>6. \A j \in Instances, m \in Locks \ {l} : m \in known[j] => m \in known'[j]
  <2>1. CASE known' = [known EXCEPT ![op[l].at] = @ \ {l}]
    BY <1>2, <1>3, <2>1 DEF TypeOK
  <2>2. CASE known' = [known EXCEPT ![op[l].at] = @ \cup {l}]
    BY <1>2, <1>3, <2>2 DEF TypeOK
  <2> QED
    BY <1>5, <2>1, <2>2
<1>7. ASSUME NEW j \in Instances, LearntLock(j, l)
      PROVE  l \in known'[j] \/ Tombstoned(l)' \/ Unrecorded(j, l)
  <2>1. CASE Tombstoned(l)
    BY <1>2, <2>1, TombstonedStays
  <2>2. CASE l \in known[j] /\ j # op[l].at
    BY <1>2, <1>3, <1>5, <2>2 DEF TypeOK
  <2>3. CASE op[l].at = j /\ RollbackAcquire(l)
    BY <2>3 DEF RestoreInv, History, NewAfterSnapshot, RollbackAcquire
  <2>4. CASE op[l].at = j /\ RollbackRelease(l)
    <3>1. known' = [known EXCEPT ![op[l].at] = @ \cup {l}]
      BY <2>4 DEF RollbackRelease, CountLock
    <3> QED
      BY <1>2, <1>3, <2>4, <3>1 DEF TypeOK
  <2> QED
    BY <1>7, <2>1, <2>2, <2>3, <2>4 DEF LearntLock
<1> QED
  BY <1>1, <1>2, <1>4, <1>6, <1>7, OperationStep

-----------------------------------------------------------------------------
(* Starting, replaying and consuming                                       *)

\* Nothing is written and no operation moves.
LEMMA SameHistory ==
  ASSUME RestoreInv, UNCHANGED <<log, life, target, op>>,
         \A j \in Instances : status[j] \in {"up", "detached"} => status'[j] \in {"up", "detached"}
  PROVE  History'
<1> USE DEF RestoreInv, History
<1>1. OriginsPast'
  <2> SUFFICES ASSUME NEW p \in Partitions, NEW o \in 1..Len(log[p])
               PROVE  /\ log[p][o].origin[2] <= life[log[p][o].origin[1]]
                      /\ status'[log[p][o].origin[1]] \notin {"up", "detached"} =>
                           log[p][o].origin[2] < life[log[p][o].origin[1]]
    BY DEF OriginsPast
  <2>1. log[p][o].origin[1] \in Instances
    BY RecordType
  <2> QED
    BY <2>1 DEF OriginsPast
<1>2. FreshUnrecorded' /\ TargetsPast' /\ NewAfterSnapshot'
  BY DEF FreshUnrecorded, TargetsPast, NewAfterSnapshot, Unrecorded
<1> QED
  BY <1>1, <1>2

\* A snapshot is not behind itself, and nothing precedes the first offset.
LEMMA StartRestore ==
  ASSUME RestoreInv, NEW i \in Instances, Start(i)
  PROVE  History' /\ Replayed' /\ LearntSoFar'
<1> USE DEF RestoreInv, History
<1>1. /\ UNCHANGED <<log, gone, life, op, known>>
      /\ status[i] = "down"
      /\ target' = [target EXCEPT ![i] = HighWaterMarks]
      /\ restorePos' = [restorePos EXCEPT ![i] = [p \in Partitions |-> 1]]
      /\ status'[i] \in {"restoring", "up"}
      /\ status'[i] = "up" => \A p \in Partitions : ~(HighWaterMarks[p] > 0)
      /\ \A j \in Instances \ {i} : status'[j] = status[j]
  BY DEF Start, topicVars, tableVars, Base, TypeOK
<1>2. /\ \A p \in Partitions : target'[i][p] = Len(log[p]) /\ restorePos'[i][p] = 1
      /\ \A j \in Instances \ {i} : target'[j] = target[j] /\ restorePos'[j] = restorePos[j]
      /\ \A p \in Partitions : HighWaterMarks[p] = Len(log[p]) /\ Len(log[p]) \in Nat
  BY <1>1 DEF HighWaterMarks, Base, TypeOK
<1>3. OriginsPast'
  <2> SUFFICES ASSUME NEW p \in Partitions, NEW o \in 1..Len(log[p])
               PROVE  /\ log[p][o].origin[2] <= life[log[p][o].origin[1]]
                      /\ status'[log[p][o].origin[1]] \notin {"up", "detached"} =>
                           log[p][o].origin[2] < life[log[p][o].origin[1]]
    BY <1>1 DEF OriginsPast
  <2>1. log[p][o].origin[1] \in Instances
    BY RecordType
  <2> QED
    BY <1>1, <2>1 DEF OriginsPast
<1>4. FreshUnrecorded'
  BY <1>1 DEF FreshUnrecorded
<1>5. TargetsPast'
  BY <1>1, <1>2 DEF TargetsPast
<1>6. NewAfterSnapshot'
  <2> SUFFICES ASSUME NEW l \in Locks, op[l].pc \in {"acquiring", "undoAcquire"}
               PROVE  Unrecorded(op[l].at, l)'
    BY <1>1 DEF NewAfterSnapshot
  <2>1. op[l].at \in Instances \ {i}
    BY <1>1 DEF Base, OpsRun
  <2>2. Unrecorded(op[l].at, l)
    BY DEF NewAfterSnapshot
  <2> QED
    BY <1>1, <1>2, <2>1, <2>2 DEF Unrecorded
<1>7. Replayed'
  <2> SUFFICES ASSUME NEW j \in Instances, status'[j] = "up", NEW p \in Partitions
               PROVE  restorePos'[j][p] > target'[j][p]
    BY DEF Replayed
  <2>1. CASE j = i
    BY <1>1, <1>2, <2>1
  <2>2. CASE j # i
    BY <1>1, <1>2, <2>2 DEF Replayed
  <2> QED
    BY <2>1, <2>2
<1>8. LearntSoFar'
  <2> SUFFICES ASSUME NEW j \in Instances, status'[j] # "down", NEW p \in Partitions,
                      NEW o \in (1..target'[j][p]) \ gone[p]
               PROVE  (\/ o >= restorePos[j][p]
                       \/ log[p][o].tomb
                       \/ LearntLock(j, log[p][o].lock))'
    BY <1>1 DEF LearntSoFar
  <2>1. CASE j = i
    BY <1>2, <2>1
  <2>2. CASE j # i
    <3>1. status[j] # "down" /\ o \in (1..target[j][p]) \ gone[p]
      BY <1>1, <1>2, <2>2
    <3>2. o >= restorePos[j][p] \/ log[p][o].tomb \/ LearntLock(j, log[p][o].lock)
      BY <3>1 DEF LearntSoFar
    <3>3. LearntLock(j, log[p][o].lock) => LearntLock(j, log[p][o].lock)'
      BY <1>1 DEF LearntLock, Tombstoned
    <3> QED
      BY <1>1, <1>2, <2>2, <3>2, <3>3
  <2> QED
    BY <2>1, <2>2
<1> QED
  BY <1>3, <1>4, <1>5, <1>6, <1>7, <1>8

\* A record of the snapshot is of an earlier life: it is not skipped.
LEMMA RestoreHandleRestore ==
  ASSUME RestoreInv, NEW i \in Instances, RestoreHandle(i)
  PROVE  History' /\ Replayed' /\ LearntSoFar'
<1>1. PICK p \in Partitions : \E o \in 1..Len(log[p]) :
        /\ IsNext(p, restorePos[i][p], o)
        /\ ProcessRedirectMessage(i, log[p][o])
        /\ restorePos' = [restorePos EXCEPT ![i][p] = o + 1]
  BY DEF RestoreHandle
<1>2. PICK o \in 1..Len(log[p]) :
        /\ IsNext(p, restorePos[i][p], o)
        /\ ProcessRedirectMessage(i, log[p][o])
        /\ restorePos' = [restorePos EXCEPT ![i][p] = o + 1]
  BY <1>1
<1>3. status[i] = "restoring" /\ UNCHANGED <<log, gone, status, life, target, op>>
  BY DEF RestoreHandle, topicVars, processVars
<1>4. Base /\ TypeOK /\ TableOK
  BY TypeTable DEF RestoreInv, Base
<1>5. log[p][o] \in Records /\ o \in Nat
  BY <1>4, RecordAt
<1>6. /\ \A j \in Instances, m \in Locks : m \in known[j] => m \in known'[j]
      /\ log[p][o].tomb \/ log[p][o].lock \in known'[i]
  <2>1. log[p][o].origin # <<i, life[i]>>
    <3>1. /\ log[p][o].origin[1] = i => log[p][o].origin[2] < life[i]
          /\ log[p][o].origin[2] \in Nat /\ life[i] \in Nat
      BY <1>3, <1>4, RecordType DEF RestoreInv, History, OriginsPast, TypeOK
    <3> QED
      BY <3>1
  <2>2. CASE log[p][o].tomb
    BY <1>2, <2>1, <2>2 DEF ProcessRedirectMessage
  <2>3. CASE ~log[p][o].tomb
    <3>1. known' = [known EXCEPT ![i] = @ \cup {log[p][o].lock}]
      BY <1>2, <2>1, <2>3 DEF ProcessRedirectMessage, CountLock
    <3> QED
      BY <1>4, <3>1 DEF TypeOK
  <2> QED
    BY <2>2, <2>3
<1>7. /\ restorePos'[i][p] = o + 1
      /\ \A q \in Partitions \ {p} : restorePos'[i][q] = restorePos[i][q]
      /\ \A j \in Instances \ {i} : restorePos'[j] = restorePos[j]
  BY <1>2, <1>4 DEF TypeOK
<1>8. History'
  BY <1>3, SameHistory
<1>9. Replayed'
  BY <1>3, <1>7 DEF RestoreInv, Replayed
<1>10. LearntSoFar'
  <2> SUFFICES ASSUME NEW j \in Instances, status[j] # "down", NEW q \in Partitions,
                      NEW x \in (1..target[j][q]) \ gone[q]
               PROVE  (\/ x >= restorePos[j][q]
                       \/ log[q][x].tomb
                       \/ LearntLock(j, log[q][x].lock))'
    BY <1>3 DEF LearntSoFar
  <2>1. x \in 1..Len(log[q])
    <3>1. target[j][q] \in Nat /\ target[j][q] <= Len(log[q]) /\ Len(log[q]) \in Nat
      BY <1>4 DEF TypeOK, RestoreInv, History, TargetsPast
    <3> QED
      BY <3>1
  <2>2. log[q][x].lock \in Locks
    BY <1>4, <2>1, RecordType
  <2>3. LearntLock(j, log[q][x].lock) => LearntLock(j, log[q][x].lock)'
    BY <1>3, <1>6, <2>2 DEF LearntLock, Tombstoned
  <2>4. CASE j = i /\ q = p
    <3>1. restorePos[i][p] \in Nat /\ x \in Nat
      BY <1>4, <2>1 DEF TypeOK
    <3>2. CASE x < restorePos[i][p]
      BY <1>3, <2>3, <2>4, <3>1, <3>2 DEF RestoreInv, LearntSoFar
    <3>3. CASE x >= restorePos[i][p] /\ x < o
      BY <1>2, <1>5, <2>4, <3>1, <3>3 DEF IsNext
    <3>4. CASE x = o
      BY <1>3, <1>6, <2>4, <3>4 DEF LearntLock
    <3>5. CASE x > o
      BY <1>5, <1>7, <2>4, <3>1, <3>5
    <3> QED
      BY <1>5, <3>1, <3>2, <3>3, <3>4, <3>5
  <2>5. CASE ~(j = i /\ q = p)
    <3>1. restorePos'[j][q] = restorePos[j][q]
      BY <1>7, <2>5
    <3> QED
      BY <1>3, <2>3, <3>1 DEF RestoreInv, LearntSoFar
  <2> QED
    BY <2>4, <2>5
<1> QED
  BY <1>8, <1>9, <1>10

\* The steps that leave the replay alone and take no lock from a table.
LEMMA SameRestore ==
  ASSUME RestoreInv, UNCHANGED <<log, life, target, restorePos, op>>,
         \A p \in Partitions : gone[p] \subseteq gone'[p],
         \A j \in Instances : known[j] \subseteq known'[j],
         \A j \in Instances :
           \/ status'[j] = status[j]
           \/ /\ status[j] = "restoring" /\ status'[j] = "up"
              /\ \A p \in Partitions : restorePos[j][p] > target[j][p]
           \/ status[j] # "down" /\ status'[j] = "detached"
  PROVE  History' /\ Replayed' /\ LearntSoFar'
<1>1. History'
  BY SameHistory
<1>2. Replayed'
  BY DEF RestoreInv, Replayed
<1>3. LearntSoFar'
  <2> SUFFICES ASSUME NEW j \in Instances, status'[j] # "down", NEW p \in Partitions,
                      NEW o \in (1..target[j][p]) \ gone'[p]
               PROVE  (\/ o >= restorePos[j][p]
                       \/ log[p][o].tomb
                       \/ LearntLock(j, log[p][o].lock))'
    BY DEF LearntSoFar
  <2>1. status[j] # "down" /\ o \in (1..target[j][p]) \ gone[p]
    OBVIOUS
  <2>2. o >= restorePos[j][p] \/ log[p][o].tomb \/ LearntLock(j, log[p][o].lock)
    BY <2>1 DEF RestoreInv, LearntSoFar
  <2>3. LearntLock(j, log[p][o].lock) => LearntLock(j, log[p][o].lock)'
    BY DEF LearntLock, Tombstoned
  <2> QED
    BY <2>2, <2>3
<1> QED
  BY <1>1, <1>2, <1>3

LEMMA ProcessKnows ==
  ASSUME TypeOK, NEW i \in Instances, NEW r \in Records, ProcessRedirectMessage(i, r)
  PROVE  \A j \in Instances : known[j] \subseteq known'[j]
<1>1. known' = known \/ known' = [known EXCEPT ![i] = @ \cup {r.lock}]
  BY DEF ProcessRedirectMessage, CountLock, tableVars
<1>2. ASSUME NEW j \in Instances, known' = [known EXCEPT ![i] = @ \cup {r.lock}]
      PROVE  known'[j] = known[j] \/ known'[j] = known[j] \cup {r.lock}
  BY <1>2 DEF TypeOK
<1> QED
  BY <1>1, <1>2

LEMMA GroupRestore ==
  ASSUME RestoreInv,
         \/ \E i \in Instances, p \in Partitions : Assign(i, p) \/ LiveHandle(i, p)
         \/ \E g \in Groups, p \in Partitions : Revoke(g, p)
  PROVE  History' /\ Replayed' /\ LearntSoFar'
<1>1. ASSUME NEW i \in Instances, NEW p \in Partitions, Assign(i, p)
      PROVE  History' /\ Replayed' /\ LearntSoFar'
  BY <1>1, SameRestore DEF Assign, topicVars, restoreVars, processVars, tableVars
<1>2. ASSUME NEW i \in Instances, NEW p \in Partitions, LiveHandle(i, p)
      PROVE  History' /\ Replayed' /\ LearntSoFar'
  <2>1. PICK o \in 1..Len(log[p]) : ProcessRedirectMessage(i, log[p][o])
    BY <1>2 DEF LiveHandle
  <2>2. \A j \in Instances : known[j] \subseteq known'[j]
    BY <2>1, RecordAt, ProcessKnows DEF RestoreInv, Base
  <2> QED
    BY <1>2, <2>2, SameRestore DEF LiveHandle, topicVars, restoreVars, processVars
<1>3. ASSUME NEW g \in Groups, NEW p \in Partitions, Revoke(g, p)
      PROVE  History' /\ Replayed' /\ LearntSoFar'
  BY <1>3, SameRestore DEF Revoke, topicVars, restoreVars, processVars, tableVars
<1> QED
  BY <1>1, <1>2, <1>3

LEMMA CompactRestore ==
  ASSUME RestoreInv, NEW p \in Partitions, NEW o \in 1..Len(log[p]), Compact(p, o)
  PROVE  History' /\ Replayed' /\ LearntSoFar'
<1>1. gone' = [gone EXCEPT ![p] = @ \cup {o}]
  BY DEF Compact
<1>2. \A q \in Partitions : gone[q] \subseteq gone'[q]
  BY <1>1 DEF RestoreInv, Base, TypeOK
<1> QED
  BY <1>2, SameRestore DEF Compact, restoreVars, processVars, tableVars

LEMMA FinishRestoreRestore ==
  ASSUME RestoreInv, NEW i \in Instances, FinishRestore(i)
  PROVE  History' /\ Replayed' /\ LearntSoFar'
<1>1. \A j \in Instances :
        \/ status'[j] = status[j]
        \/ /\ status[j] = "restoring" /\ status'[j] = "up"
           /\ \A p \in Partitions : restorePos[j][p] > target[j][p]
  BY DEF FinishRestore, RestoreInv, Base, TypeOK
<1> QED
  BY <1>1, SameRestore DEF FinishRestore, topicVars, restoreVars, tableVars

\* A cancelled Start promises nothing, and keeps what it has learnt.
LEMMA CancelStartRestore ==
  ASSUME RestoreInv, NEW i \in Instances, CancelStart(i)
  PROVE  History' /\ Replayed' /\ LearntSoFar'
<1>1. \A j \in Instances :
        \/ status'[j] = status[j]
        \/ status[j] # "down" /\ status'[j] = "detached"
  BY DEF CancelStart, RestoreInv, Base, TypeOK
<1> QED
  BY <1>1, SameRestore DEF CancelStart, topicVars, restoreVars, tableVars

\* A crash begins a life that has written nothing yet.
LEMMA CrashRestore ==
  ASSUME RestoreInv, NEW i \in Instances, Crash(i)
  PROVE  History' /\ Replayed' /\ LearntSoFar'
<1> USE DEF RestoreInv, History
<1>1. /\ UNCHANGED <<log, gone, restorePos, target>>
      /\ status'[i] = "down" /\ life'[i] = life[i] + 1
      /\ \A j \in Instances \ {i} :
           status'[j] = status[j] /\ life'[j] = life[j] /\ known'[j] = known[j]
      /\ \A l \in Locks : op'[l] = AfterCrash(i, op[l])
  BY DEF Crash, topicVars, restoreVars, Base, TypeOK
<1>2. ASSUME NEW l \in Locks
      PROVE  /\ op[l].at # i => op'[l] = op[l]
             /\ op[l].at = i => op'[l].pc \in {"failed", "held"}
  <2>1. CASE op[l].at # i
    BY <1>1, <2>1 DEF AfterCrash
  <2>2. CASE op[l].at = i
    <3>1. PICK phase \in {"failed", "held"} : op'[l] = Rest(phase)
      BY <1>1, <2>2 DEF AfterCrash
    <3> QED
      BY <2>2, <3>1, RestPC
  <2> QED
    BY <2>1, <2>2
<1>3. OriginsPast'
  <2> SUFFICES ASSUME NEW p \in Partitions, NEW o \in 1..Len(log[p])
               PROVE  /\ log[p][o].origin[2] <= life'[log[p][o].origin[1]]
                      /\ status'[log[p][o].origin[1]] \notin {"up", "detached"} =>
                           log[p][o].origin[2] < life'[log[p][o].origin[1]]
    BY <1>1 DEF OriginsPast
  <2>1. PICK j \in Instances : j = log[p][o].origin[1]
    BY RecordType
  <2>2. PICK n \in Nat : n = log[p][o].origin[2]
    BY RecordType
  <2>3. n <= life[j] /\ (status[j] \notin {"up", "detached"} => n < life[j]) /\ life[j] \in Nat
    BY <2>1, <2>2 DEF OriginsPast, Base, TypeOK
  <2>4. n <= life'[j] /\ (status'[j] \notin {"up", "detached"} => n < life'[j])
    BY <1>1, <2>3
  <2> QED
    BY <2>1, <2>2, <2>4
<1>4. FreshUnrecorded'
  <2> SUFFICES ASSUME NEW p \in Partitions, NEW o \in 1..Len(log[p])
               PROVE  op'[log[p][o].lock].pc # "fresh"
    BY <1>1 DEF FreshUnrecorded
  <2>1. log[p][o].lock \in Locks /\ op[log[p][o].lock].pc # "fresh"
    BY RecordType DEF FreshUnrecorded
  <2> QED
    BY <1>2, <2>1
<1>5. TargetsPast' /\ Replayed'
  BY <1>1 DEF TargetsPast, Replayed
<1>6. NewAfterSnapshot'
  <2> SUFFICES ASSUME NEW l \in Locks, op'[l].pc \in {"acquiring", "undoAcquire"}
               PROVE  Unrecorded(op[l].at, l)'
    BY DEF NewAfterSnapshot
  <2>1. op'[l] = op[l]
    BY <1>2
  <2> QED
    BY <1>1, <2>1 DEF NewAfterSnapshot, Unrecorded
<1>7. LearntSoFar'
  <2> SUFFICES ASSUME NEW j \in Instances, status'[j] # "down", NEW p \in Partitions,
                      NEW o \in (1..target[j][p]) \ gone[p]
               PROVE  (\/ o >= restorePos[j][p]
                       \/ log[p][o].tomb
                       \/ LearntLock(j, log[p][o].lock))'
    BY <1>1 DEF LearntSoFar
  <2>1. j # i /\ status[j] # "down"
    BY <1>1
  <2>2. o >= restorePos[j][p] \/ log[p][o].tomb \/ LearntLock(j, log[p][o].lock)
    BY <2>1 DEF LearntSoFar
  <2>3. log[p][o].lock \in Locks
    <3>1. target[j][p] \in Nat /\ target[j][p] <= Len(log[p]) /\ Len(log[p]) \in Nat
      BY DEF Base, TypeOK, TargetsPast
    <3>2. o \in 1..Len(log[p])
      BY <3>1
    <3> QED
      BY <3>2, RecordType
  <2>4. LearntLock(j, log[p][o].lock) => LearntLock(j, log[p][o].lock)'
    BY <1>1, <1>2, <2>1, <2>3 DEF LearntLock, Tombstoned
  <2> QED
    BY <1>1, <2>2, <2>4
<1> QED
  BY <1>3, <1>4, <1>5, <1>6, <1>7

-----------------------------------------------------------------------------
(* Once Start has returned                                                 *)

LEMMA InitRestore == Init => RestoreInv
<1> SUFFICES ASSUME Init PROVE RestoreInv
  OBVIOUS
<1>1. Base
  BY InitBase
<1>2. \A p \in Partitions : Len(log[p]) = 0
  BY DEF Init
<1>3. OriginsPast /\ FreshUnrecorded
  BY <1>2 DEF OriginsPast, FreshUnrecorded
<1>4. TargetsPast
  BY <1>2 DEF Init, TargetsPast
<1>5. NewAfterSnapshot
  BY RestPC DEF Init, NewAfterSnapshot
<1>6. Replayed /\ LearntSoFar
  BY DEF Init, Replayed, LearntSoFar
<1> QED
  BY <1>1, <1>3, <1>4, <1>5, <1>6 DEF RestoreInv, History

LEMMA NextRestore == RestoreInv /\ [Next]_vars => RestoreInv'
<1> SUFFICES ASSUME RestoreInv, [Next]_vars
             PROVE  Base' /\ History' /\ Replayed' /\ LearntSoFar'
  BY DEF RestoreInv
<1>1. Base'
  BY NextBase DEF RestoreInv
<1>2. ASSUME NEW i \in Instances,
             \/ Start(i) \/ RestoreHandle(i) \/ FinishRestore(i)
             \/ CancelStart(i) \/ Crash(i)
      PROVE  History' /\ Replayed' /\ LearntSoFar'
  BY <1>2, StartRestore, RestoreHandleRestore, FinishRestoreRestore, CancelStartRestore,
     CrashRestore
<1>3. ASSUME NEW i \in Instances, NEW l \in Locks, AcquireLocal(i, l) \/ ReleaseLocal(i, l)
      PROVE  History' /\ Replayed' /\ LearntSoFar'
  BY <1>3, AcquireLocalRestore, ReleaseLocalRestore
<1>4. ASSUME NEW l \in Locks, LockStep(l)
      PROVE  History' /\ Replayed' /\ LearntSoFar'
  BY <1>4, ProducedRestore, AttemptFailsRestore, RollbackRestore DEF LockStep
<1>5. ASSUME NEW p \in Partitions, NEW o \in 1..Len(log[p]), Compact(p, o)
      PROVE  History' /\ Replayed' /\ LearntSoFar'
  BY <1>5, CompactRestore
<1>6. CASE UNCHANGED vars
  <2>1. UNCHANGED <<log, gone, status, life, target, restorePos, op, known>>
    BY <1>6 DEF vars, topicVars, restoreVars, processVars, tableVars
  <2> QED
    BY <1>1, <2>1, SameRestore
<1> QED
  BY <1>1, <1>2, <1>3, <1>4, <1>5, <1>6, GroupRestore DEF Next

LEMMA InvariantRestore == Spec => []RestoreInv
BY InitRestore, NextRestore, PTL DEF Spec

LEMMA ReplayedLearnt == RestoreInv => RestoredLocksKnown
<1> SUFFICES ASSUME RestoreInv, NEW i \in Instances, status[i] = "up",
                    NEW p \in Partitions, NEW o \in (1..target[i][p]) \ gone[p]
             PROVE  \/ log[p][o].tomb
                    \/ log[p][o].lock \in known[i]
                    \/ op[log[p][o].lock].at = i
                    \/ Tombstoned(log[p][o].lock)
  BY DEF RestoredLocksKnown
<1>1. o \in Nat /\ target[i][p] \in Nat /\ restorePos[i][p] \in Nat /\ o <= target[i][p]
  BY DEF RestoreInv, Base, TypeOK
<1>2. restorePos[i][p] > target[i][p]
  BY DEF RestoreInv, Replayed
<1>3. ~(o >= restorePos[i][p])
  BY <1>1, <1>2
<1>4. log[p][o].tomb \/ LearntLock(i, log[p][o].lock)
  BY <1>3 DEF RestoreInv, LearntSoFar
<1> QED
  BY <1>4 DEF LearntLock

\* When Start has returned and its context was not cancelled, the instance
\* counts every lock recorded before the snapshot that nobody began to
\* release (coordinator_kafka.go:87-88).
THEOREM RestoreComplete == Spec => []RestoredLocksKnown
BY InvariantRestore, ReplayedLearnt, PTL

-----------------------------------------------------------------------------
(* An instance nobody else has written beside                              *)

\* Every record of the topic was written by i in its present life.
OnlyOwn(i) ==
  \A p \in Partitions : \A o \in 1..Len(log[p]) : log[p][o].origin = <<i, life[i]>>

NoExcess(i) == \A k \in Keys : Count(i, k) <= Cardinality(KnownOf(i, k))

\* What such an instance knows it acquired itself and did not release.
OwnKnown(i) ==
  \A l \in known[i] :
    /\ op[l].pc \notin {"fresh", "failed", "released"}
    /\ op[l].pc \in {"acquiring", "undoAcquire"} => op[l].at = i
    /\ op[l].pc \in {"releasing", "undoRelease"} => op[l].at # i

OwnCounted(i) == NoExcess(i) /\ OwnKnown(i)
OwnTables     == \A i \in Instances : OnlyOwn(i) => OwnCounted(i)

\* The record published is the last of its partition.
LEMMA PublishedLast ==
  ASSUME Base, NEW l \in Locks, op[l].at \in Instances, NEW b \in BOOLEAN, Published(l, b)
  PROVE  LET q == PartitionOf[l]
             n == Len(log[q]) + 1
         IN  /\ q \in Partitions /\ n \in 1..Len(log'[q])
             /\ Len(log'[q]) = n
             /\ log'[q][n].lock = l /\ log'[q][n].tomb = b
             /\ log'[q][n].origin = <<op[l].at, life[op[l].at]>>
             /\ \A o \in 1..Len(log[q]) : log'[q][o] = log[q][o]
             /\ \A p \in Partitions \ {q} : log'[p] = log[p]
<1>1. PICK r \in Records :
        /\ r.lock = l
        /\ r.tomb = b
        /\ r.origin = <<op[l].at, life[op[l].at]>>
        /\ log' = [log EXCEPT ![PartitionOf[l]] = Append(@, r)]
  BY PublishedType DEF Base
<1>2. PartitionOf[l] \in Partitions /\ log \in [Partitions -> Seq(Records)]
  BY KafkaAssumption DEF Base, TypeOK
<1>3. /\ log'[PartitionOf[l]] = Append(log[PartitionOf[l]], r)
      /\ \A p \in Partitions \ {PartitionOf[l]} : log'[p] = log[p]
      /\ log[PartitionOf[l]] \in Seq(Records)
  BY <1>1, <1>2
<1>4. /\ Len(log[PartitionOf[l]]) + 1 \in 1..Len(log'[PartitionOf[l]])
      /\ Len(log'[PartitionOf[l]]) = Len(log[PartitionOf[l]]) + 1
      /\ log'[PartitionOf[l]][Len(log[PartitionOf[l]]) + 1] = r
      /\ \A o \in 1..Len(log[PartitionOf[l]]) : log'[PartitionOf[l]][o] = log[PartitionOf[l]][o]
  BY <1>3
<1> QED
  BY <1>1, <1>2, <1>3, <1>4

LEMMA OnlyOwnBefore ==
  ASSUME NEW i \in Instances, NEW l, Appended(l), life'[i] = life[i], OnlyOwn(i)'
  PROVE  OnlyOwn(i)
<1> SUFFICES ASSUME NEW p \in Partitions, NEW o \in 1..Len(log[p])
             PROVE  log[p][o].origin = <<i, life[i]>>
  BY DEF OnlyOwn
<1>1. o \in 1..Len(log'[p]) /\ log'[p][o] = log[p][o]
  BY DEF Appended
<1> QED
  BY <1>1 DEF OnlyOwn

LEMMA ExcessCount ==
  ASSUME TableOK, NEW i \in Instances, NEW l \in Locks, NoExcess(i), CountLock(i, l),
         l \notin known[i]
  PROVE  NoExcess(i)'
<1> SUFFICES ASSUME NEW k \in Keys PROVE Count(i, k)' <= Cardinality(KnownOf(i, k)')
  BY DEF NoExcess
<1>1. Count(i, k) <= Cardinality(KnownOf(i, k)) /\ Count(i, k) \in Nat
  BY CountNat DEF NoExcess
<1>2. IsFiniteSet(KnownOf(i, k)) /\ Cardinality(KnownOf(i, k)) \in Nat
  BY KnownFinite
<1>3. /\ known' = [known EXCEPT ![i] = @ \cup {l}]
      /\ Count(i, k)' = Count(i, k) + (IF k = KeyOf[l] THEN 1 ELSE 0)
  BY CountLockTable
<1>4. CASE k = KeyOf[l]
  <2>1. KnownOf(i, k)' = KnownOf(i, k) \cup {l} /\ l \notin KnownOf(i, k)
    BY <1>3, <1>4 DEF KnownOf, TableOK
  <2>2. Cardinality(KnownOf(i, k)') = Cardinality(KnownOf(i, k)) + 1
    BY <1>2, <2>1, FS_AddElement
  <2> QED
    BY <1>1, <1>2, <1>3, <1>4, <2>2
<1>5. CASE k # KeyOf[l]
  <2>1. KnownOf(i, k)' = KnownOf(i, k)
    BY <1>3, <1>5 DEF KnownOf, TableOK
  <2> QED
    BY <1>1, <1>3, <1>5, <2>1
<1> QED
  BY <1>4, <1>5

LEMMA ExcessUncount ==
  ASSUME TableOK, NEW i \in Instances, NEW l \in Locks, NoExcess(i), UncountLock(i, l)
  PROVE  NoExcess(i)'
<1> SUFFICES ASSUME NEW k \in Keys PROVE Count(i, k)' <= Cardinality(KnownOf(i, k)')
  BY DEF NoExcess
<1>1. Count(i, k) <= Cardinality(KnownOf(i, k)) /\ Count(i, k) \in Nat
  BY CountNat DEF NoExcess
<1>2. IsFiniteSet(KnownOf(i, k)) /\ Cardinality(KnownOf(i, k)) \in Nat
  BY KnownFinite
<1>3. /\ known' = [known EXCEPT ![i] = @ \ {l}]
      /\ Count(i, k)' = IF k = KeyOf[l] /\ Count(i, k) > 0 THEN Count(i, k) - 1
                                                           ELSE Count(i, k)
  BY UncountLockTable
<1>4. CASE k = KeyOf[l]
  <2>1. KnownOf(i, k)' = KnownOf(i, k) \ {l}
    BY <1>3, <1>4 DEF KnownOf, TableOK
  <2>2. Cardinality(KnownOf(i, k) \ {l}) =
          IF l \in KnownOf(i, k) THEN Cardinality(KnownOf(i, k)) - 1
                                 ELSE Cardinality(KnownOf(i, k))
    BY <1>2, FS_RemoveElement
  <2>3. l \in KnownOf(i, k) => Cardinality(KnownOf(i, k)) # 0
    BY <1>2, FS_EmptySet
  <2>4. Cardinality(KnownOf(i, k)') = IF l \in KnownOf(i, k) THEN Cardinality(KnownOf(i, k)) - 1
                                                            ELSE Cardinality(KnownOf(i, k))
    BY <2>1, <2>2
  <2> QED
    BY <1>1, <1>2, <1>3, <1>4, <2>3, <2>4
<1>5. CASE k # KeyOf[l]
  <2>1. KnownOf(i, k)' = KnownOf(i, k)
    BY <1>3, <1>5 DEF KnownOf, TableOK
  <2> QED
    BY <1>1, <1>3, <1>5, <2>1
<1> QED
  BY <1>4, <1>5

LEMMA ExcessSame ==
  ASSUME NEW i \in Instances, NoExcess(i), lm'[i] = lm[i], known'[i] = known[i]
  PROVE  NoExcess(i)'
BY DEF NoExcess, Count, KnownOf

LEMMA Elsewhere ==
  ASSUME TableOK, NEW i \in Instances, NEW j \in Instances \ {i}, NEW l \in Locks,
         CountLock(j, l) \/ UncountLock(j, l)
  PROVE  lm'[i] = lm[i] /\ known'[i] = known[i]
BY DEF CountLock, UncountLock, TableOK

\* An instance skips what it wrote itself, and another one has a table of
\* its own.
LEMMA OwnProcess ==
  ASSUME TableOK, NEW i \in Instances, OnlyOwn(i), NEW j \in Instances,
         NEW p \in Partitions, NEW o \in 1..Len(log[p]),
         ProcessRedirectMessage(j, log[p][o])
  PROVE  lm'[i] = lm[i] /\ known'[i] = known[i]
<1>1. CASE j = i
  <2>1. log[p][o].origin = <<i, life[i]>>
    BY DEF OnlyOwn
  <2> QED
    BY <1>1, <2>1 DEF ProcessRedirectMessage, tableVars
<1>2. CASE j # i
  BY <1>2 DEF ProcessRedirectMessage, CountLock, tableVars, TableOK
<1> QED
  BY <1>1, <1>2

LEMMA OwnSame ==
  ASSUME NEW i \in Instances, OwnCounted(i), op' = op, lm'[i] = lm[i], known'[i] = known[i]
  PROVE  OwnCounted(i)'
BY ExcessSame DEF OwnCounted, OwnKnown

LEMMA OwnAcquireLocal ==
  ASSUME Base, NEW i \in Instances, OwnCounted(i),
         NEW j \in Instances, NEW l \in Locks, AcquireLocal(j, l)
  PROVE  OwnCounted(i)'
<1>0. TypeOK /\ TableOK
  BY TypeTable DEF Base
<1>1. /\ op[l].pc = "fresh" /\ CountLock(j, l)
      /\ op' = [op EXCEPT ![l] = [pc |-> "acquiring", at |-> j, tries |-> 0]]
  BY DEF AcquireLocal, At
<1>2. l \notin known[i]
  BY <1>1 DEF OwnCounted, OwnKnown
<1>3. op'[l].pc = "acquiring" /\ op'[l].at = j /\ \A m \in Locks \ {l} : op'[m] = op[m]
  BY <1>0, <1>1 DEF TypeOK
<1>4. CASE j = i
  <2>1. NoExcess(i)'
    BY <1>0, <1>1, <1>2, <1>4, ExcessCount DEF OwnCounted
  <2>2. known'[i] = known[i] \cup {l} /\ known[i] \subseteq Locks
    BY <1>0, <1>1, <1>4 DEF CountLock, TableOK
  <2> QED
    BY <1>3, <1>4, <2>1, <2>2 DEF OwnCounted, OwnKnown
<1>5. CASE j # i
  <2>1. lm'[i] = lm[i] /\ known'[i] = known[i] /\ known[i] \subseteq Locks
    BY <1>0, <1>1, <1>5, Elsewhere DEF TableOK
  <2> QED
    BY <1>2, <1>3, <2>1, ExcessSame DEF OwnCounted, OwnKnown
<1> QED
  BY <1>4, <1>5

LEMMA OwnReleaseLocal ==
  ASSUME Base, NEW i \in Instances, OwnCounted(i),
         NEW j \in Instances, NEW l \in Locks, ReleaseLocal(j, l)
  PROVE  OwnCounted(i)'
<1>0. TypeOK /\ TableOK
  BY TypeTable DEF Base
<1>1. /\ UncountLock(j, l)
      /\ op' = [op EXCEPT ![l] = [pc |-> "releasing", at |-> j, tries |-> 0]]
  BY DEF ReleaseLocal, At
<1>2. op'[l].pc = "releasing" /\ op'[l].at = j /\ \A m \in Locks \ {l} : op'[m] = op[m]
  BY <1>0, <1>1 DEF TypeOK
<1>3. CASE j = i
  <2>1. NoExcess(i)'
    BY <1>0, <1>1, <1>3, ExcessUncount DEF OwnCounted
  <2>2. known'[i] = known[i] \ {l} /\ known[i] \subseteq Locks
    BY <1>0, <1>1, <1>3 DEF UncountLock, TableOK
  <2> QED
    BY <1>2, <2>1, <2>2 DEF OwnCounted, OwnKnown
<1>4. CASE j # i
  <2>1. lm'[i] = lm[i] /\ known'[i] = known[i] /\ known[i] \subseteq Locks
    BY <1>0, <1>1, <1>4, Elsewhere DEF TableOK
  <2> QED
    BY <1>2, <1>4, <2>1, ExcessSame DEF OwnCounted, OwnKnown
<1> QED
  BY <1>3, <1>4

\* The tombstone is the instance's own: it released the lock before.
LEMMA OwnProduced ==
  ASSUME Base, NEW i \in Instances, OwnCounted(i), OnlyOwn(i)',
         NEW l \in Locks, AcquireProduced(l) \/ ReleaseProduced(l)
  PROVE  OwnCounted(i)'
<1>0. TypeOK /\ op[l].at \in Instances /\ known[i] \subseteq Locks
  BY DEF Base, TypeOK, OpsRun, AcquireProduced, ReleaseProduced
<1>1. UNCHANGED <<lm, known, life>>
  BY DEF AcquireProduced, ReleaseProduced, tableVars, processVars
<1>2. CASE AcquireProduced(l)
  <2>1. op' = [op EXCEPT ![l] = [pc |-> "held", at |-> NoOne, tries |-> 0]]
    BY <1>2 DEF AcquireProduced, Rest, At
  <2>2. op'[l].pc = "held" /\ \A m \in Locks \ {l} : op'[m] = op[m]
    BY <1>0, <2>1 DEF TypeOK
  <2> QED
    BY <1>0, <1>1, <2>2, ExcessSame DEF OwnCounted, OwnKnown
<1>3. CASE ReleaseProduced(l)
  <2>1. op' = [op EXCEPT ![l] = [pc |-> "released", at |-> NoOne, tries |-> 0]]
    BY <1>3 DEF ReleaseProduced, Rest, At
  <2>2. \A m \in Locks \ {l} : op'[m] = op[m]
    BY <1>0, <2>1 DEF TypeOK
  <2> DEFINE q == PartitionOf[l]
             n == Len(log[q]) + 1
  <2>3. /\ q \in Partitions /\ n \in 1..Len(log'[q])
        /\ log'[q][n].origin = <<op[l].at, life[op[l].at]>>
    BY <1>0, <1>3, PublishedLast DEF ReleaseProduced
  <2>4. log'[q][n].origin = <<i, life'[i]>>
    BY <2>3 DEF OnlyOwn
  <2>5. op[l].at = i
    BY <2>3, <2>4
  <2>6. l \notin known[i]
    BY <1>3, <2>5 DEF OwnCounted, OwnKnown, ReleaseProduced
  <2> QED
    BY <1>0, <1>1, <2>2, <2>6, ExcessSame DEF OwnCounted, OwnKnown
<1> QED
  BY <1>2, <1>3

LEMMA OwnAttemptFails ==
  ASSUME Base, NEW i \in Instances, OwnCounted(i),
         NEW l \in Locks, AcquireAttemptFails(l) \/ ReleaseAttemptFails(l)
  PROVE  OwnCounted(i)'
<1>0. TypeOK /\ known[i] \subseteq Locks
  BY DEF Base, TypeOK
<1>1. UNCHANGED <<lm, known>>
  BY DEF AcquireAttemptFails, ReleaseAttemptFails, tableVars
<1>2. PICK undo \in {"undoAcquire", "undoRelease"} :
        /\ \/ op' = [op EXCEPT ![l].tries = @ + 1]
           \/ op' = [op EXCEPT ![l].pc = undo]
        /\ \/ undo = "undoAcquire" /\ op[l].pc = "acquiring"
           \/ undo = "undoRelease" /\ op[l].pc = "releasing"
  BY DEF AcquireAttemptFails, ReleaseAttemptFails, FailedAttempt
<1>3. /\ op'[l].pc \in {op[l].pc, undo} /\ op'[l].at = op[l].at
      /\ \A m \in Locks \ {l} : op'[m] = op[m]
  BY <1>0, <1>2 DEF TypeOK
<1> QED
  BY <1>0, <1>1, <1>2, <1>3, ExcessSame DEF OwnCounted, OwnKnown

LEMMA OwnRollback ==
  ASSUME Base, NEW i \in Instances, OwnCounted(i),
         NEW l \in Locks, RollbackAcquire(l) \/ RollbackRelease(l)
  PROVE  OwnCounted(i)'
<1>0. TypeOK /\ TableOK /\ op[l].at \in Instances /\ known[i] \subseteq Locks
  BY TypeTable DEF Base, TypeOK, OpsRun, RollbackAcquire, RollbackRelease
<1>1. CASE RollbackAcquire(l)
  <2>1. op' = [op EXCEPT ![l] = [pc |-> "failed", at |-> NoOne, tries |-> 0]]
    BY <1>1 DEF RollbackAcquire, Rest, At
  <2>2. /\ UncountLock(op[l].at, l) /\ op[l].pc = "undoAcquire"
        /\ \A m \in Locks \ {l} : op'[m] = op[m]
    BY <1>0, <1>1, <2>1 DEF RollbackAcquire, TypeOK
  <2>3. CASE op[l].at = i
    <3>1. NoExcess(i)'
      BY <1>0, <2>2, <2>3, ExcessUncount DEF OwnCounted
    <3>2. known'[i] = known[i] \ {l}
      BY <1>0, <2>2, <2>3 DEF UncountLock, TableOK
    <3> QED
      BY <1>0, <2>2, <3>1, <3>2 DEF OwnCounted, OwnKnown
  <2>4. CASE op[l].at # i
    <3>1. lm'[i] = lm[i] /\ known'[i] = known[i]
      BY <1>0, <2>2, <2>4, Elsewhere
    <3>2. l \notin known[i]
      BY <2>2, <2>4 DEF OwnCounted, OwnKnown
    <3> QED
      BY <1>0, <2>2, <3>1, <3>2, ExcessSame DEF OwnCounted, OwnKnown
  <2> QED
    BY <2>3, <2>4
<1>2. CASE RollbackRelease(l)
  <2>1. op' = [op EXCEPT ![l] = [pc |-> "held", at |-> NoOne, tries |-> 0]]
    BY <1>2 DEF RollbackRelease, Rest, At
  <2>2. /\ CountLock(op[l].at, l) /\ op[l].pc = "undoRelease" /\ op'[l].pc = "held"
        /\ \A m \in Locks \ {l} : op'[m] = op[m]
    BY <1>0, <1>2, <2>1 DEF RollbackRelease, TypeOK
  <2>3. CASE op[l].at = i
    <3>1. l \notin known[i]
      BY <2>2, <2>3 DEF OwnCounted, OwnKnown
    <3>2. NoExcess(i)'
      BY <1>0, <2>2, <2>3, <3>1, ExcessCount DEF OwnCounted
    <3>3. known'[i] = known[i] \cup {l}
      BY <1>0, <2>2, <2>3 DEF CountLock, TableOK
    <3> QED
      BY <1>0, <2>2, <3>2, <3>3 DEF OwnCounted, OwnKnown
  <2>4. CASE op[l].at # i
    <3>1. lm'[i] = lm[i] /\ known'[i] = known[i]
      BY <1>0, <2>2, <2>4, Elsewhere
    <3> QED
      BY <1>0, <2>2, <3>1, ExcessSame DEF OwnCounted, OwnKnown
  <2> QED
    BY <2>3, <2>4
<1> QED
  BY <1>1, <1>2

\* A crash leaves nothing in the table of the instance; an operation of
\* another one ends failed or held.
LEMMA OwnCrash ==
  ASSUME Base, NEW i \in Instances, NEW j \in Instances, Crash(j),
         j # i => OwnCounted(i)
  PROVE  OwnCounted(i)'
<1>0. TypeOK /\ TableOK /\ known[i] \subseteq Locks
  BY TypeTable DEF Base, TypeOK
<1>1. /\ lm' = [lm EXCEPT ![j] = Nothing]
      /\ known' = [known EXCEPT ![j] = {}]
      /\ \A l \in Locks : op'[l] = AfterCrash(j, op[l])
  BY DEF Crash
<1>2. CASE j = i
  <2>1. known'[i] = {} /\ lm'[i] = Nothing
    BY <1>0, <1>1, <1>2 DEF TableOK
  <2>2. ASSUME NEW k \in Keys PROVE Count(i, k)' <= Cardinality(KnownOf(i, k)')
    <3>1. Count(i, k)' = 0
      BY <2>1, EmptyMap DEF Count
    <3>2. KnownOf(i, k)' = {}
      BY <2>1 DEF KnownOf
    <3> QED
      BY <3>1, <3>2, FS_EmptySet
  <2> QED
    BY <2>1, <2>2 DEF OwnCounted, OwnKnown, NoExcess
<1>3. CASE j # i
  <2>1. known'[i] = known[i] /\ lm'[i] = lm[i]
    BY <1>0, <1>1, <1>3 DEF TableOK
  <2>2. ASSUME NEW l \in known[i]
        PROVE  op'[l] = op[l] \/ op'[l].pc = "held"
    <3>1. CASE op[l].at # j
      BY <1>0, <1>1, <3>1 DEF AfterCrash
    <3>2. CASE op[l].at = j
      <4>1. op[l].pc \notin {"acquiring", "undoAcquire"}
        BY <1>3, <3>2 DEF OwnCounted, OwnKnown
      <4>2. op'[l] = Rest("held")
        BY <1>0, <1>1, <3>2, <4>1 DEF AfterCrash
      <4> QED
        BY <4>2, RestPC
    <3> QED
      BY <3>1, <3>2
  <2> QED
    BY <1>3, <2>1, <2>2, ExcessSame DEF OwnCounted, OwnKnown
<1> QED
  BY <1>2, <1>3

\* A step of an operation writes records of its instance or nothing, and
\* every other step but a crash writes nothing.
LEMMA OperationAppends ==
  ASSUME Base, NEW l \in Locks, LockStep(l)
  PROVE  Appended(l) /\ UNCHANGED <<status, life>>
<1>1. UNCHANGED <<status, life>>
  BY DEF LockStep, AcquireProduced, AcquireAttemptFails, RollbackAcquire, ReleaseProduced,
     ReleaseAttemptFails, RollbackRelease, processVars
<1>2. CASE UNCHANGED log
  BY <1>1, <1>2, SameLog DEF Base
<1>3. CASE op[l].at \in Instances /\ \E b \in BOOLEAN : Published(l, b)
  BY <1>1, <1>3, PublishedAppends
<1>4. op[l].at \in Instances
  BY DEF Base, OpsRun, LockStep, AcquireProduced, AcquireAttemptFails, RollbackAcquire,
     ReleaseProduced, ReleaseAttemptFails, RollbackRelease
<1> QED
  BY <1>1, <1>2, <1>3, <1>4
  DEF LockStep, AcquireProduced, AcquireAttemptFails, RollbackAcquire, ReleaseProduced,
     ReleaseAttemptFails, RollbackRelease, FailedAttempt, topicVars

LEMMA OwnStep ==
  ASSUME Base, OwnTables, [Next]_vars, NEW i \in Instances, OnlyOwn(i)'
  PROVE  OwnCounted(i)'
<1>0. TypeOK /\ TableOK
  BY TypeTable DEF Base
<1>1. ASSUME UNCHANGED <<log, life>> PROVE OnlyOwn(i) /\ OwnCounted(i)
  BY <1>0, <1>1, SameLog, OnlyOwnBefore DEF OwnTables
<1>2. ASSUME NEW j \in Instances,
             \/ Start(j) \/ FinishRestore(j) \/ RestoreHandle(j)
             \/ \E p \in Partitions : Assign(j, p) \/ LiveHandle(j, p)
      PROVE  OwnCounted(i)'
  <2>1. UNCHANGED <<log, life, op>>
    BY <1>2 DEF Start, FinishRestore, RestoreHandle, Assign, LiveHandle, topicVars, processVars
  <2>2. CASE UNCHANGED <<lm, known>>
    BY <1>1, <2>1, <2>2, OwnSame
  <2>3. CASE \E p \in Partitions : \E o \in 1..Len(log[p]) : ProcessRedirectMessage(j, log[p][o])
    BY <1>0, <1>1, <2>1, <2>3, OwnProcess, OwnSame
  <2> QED
    BY <1>2, <2>2, <2>3 DEF Start, FinishRestore, RestoreHandle, Assign, LiveHandle, tableVars
<1>3. ASSUME NEW j \in Instances, NEW l \in Locks, AcquireLocal(j, l) \/ ReleaseLocal(j, l)
      PROVE  OwnCounted(i)'
  <2>1. UNCHANGED <<log, life>>
    BY <1>3 DEF AcquireLocal, ReleaseLocal, topicVars, processVars
  <2> QED
    BY <1>1, <1>3, <2>1, OwnAcquireLocal, OwnReleaseLocal
<1>4. ASSUME NEW l \in Locks, LockStep(l) PROVE OwnCounted(i)'
  <2>1. OwnCounted(i)
    BY <1>4, OperationAppends, OnlyOwnBefore DEF OwnTables
  <2> QED
    BY <1>4, <2>1, OwnProduced, OwnAttemptFails, OwnRollback DEF LockStep
<1>5. ASSUME \/ \E j \in Instances : CancelStart(j)
             \/ \E g \in Groups, p \in Partitions : Revoke(g, p)
             \/ \E p \in Partitions : \E o \in 1..Len(log[p]) : Compact(p, o)
             \/ UNCHANGED vars
      PROVE  OwnCounted(i)'
  <2>1. UNCHANGED <<log, life, op, lm, known>>
    BY <1>5 DEF CancelStart, Revoke, Compact, vars, topicVars, processVars, tableVars
  <2> QED
    BY <1>1, <2>1, OwnSame
<1>6. ASSUME NEW j \in Instances, Crash(j) PROVE OwnCounted(i)'
  <2>1. CASE j # i
    <3>1. UNCHANGED log /\ life'[i] = life[i]
      BY <1>0, <1>6, <2>1 DEF Crash, topicVars, TypeOK
    <3>2. OwnCounted(i)
      BY <1>0, <3>1, SameLog, OnlyOwnBefore DEF OwnTables
    <3> QED
      BY <1>6, <3>2, OwnCrash
  <2>2. CASE j = i
    BY <1>6, <2>2, OwnCrash
  <2> QED
    BY <2>1, <2>2
<1> QED
  BY <1>2, <1>3, <1>4, <1>5, <1>6 DEF Next

LEMMA InitOwn == Init => OwnTables
<1> SUFFICES ASSUME Init, NEW i \in Instances PROVE OwnCounted(i)
  BY DEF OwnTables
<1>1. known[i] = {} /\ lm[i] = Nothing
  BY DEF Init
<1>2. ASSUME NEW k \in Keys PROVE Count(i, k) <= Cardinality(KnownOf(i, k))
  <2>1. Count(i, k) = 0
    BY <1>1, EmptyMap DEF Count
  <2>2. KnownOf(i, k) = {}
    BY <1>1 DEF KnownOf
  <2> QED
    BY <2>1, <2>2, FS_EmptySet
<1> QED
  BY <1>1, <1>2 DEF OwnCounted, OwnKnown, NoExcess

LEMMA InvariantOwn == Spec => []OwnTables
<1>1. Base /\ OwnTables /\ [Next]_vars => OwnTables'
  BY OwnStep DEF OwnTables
<1> QED
  BY <1>1, InitOwn, InvariantBase, PTL DEF Spec

\* Nobody restarted: every instance is in its first life.
FirstLives == used["restart"] = 0 => \A i \in Instances : life[i] = 0

LEMMA InvariantFirst == Spec => []FirstLives
<1>1. Init => FirstLives
  BY DEF Init, FirstLives
<1>2. ASSUME TypeOK, FirstLives, [Next]_vars PROVE FirstLives'
  <2>1. ASSUME NEW i \in Instances, Crash(i) PROVE FirstLives'
    <3>1. used'["restart"] = used["restart"] + 1 /\ used["restart"] \in Nat
      BY <1>2, <2>1 DEF Crash, Spend, TypeOK, Disturbances
    <3> QED
      BY <3>1 DEF FirstLives
  <2>2. ASSUME life' = life, \/ used' = used
                             \/ \E d \in Disturbances \ {"restart"} : Spend(d)
        PROVE  FirstLives'
    <3>1. used'["restart"] = used["restart"]
      BY <1>2, <2>2 DEF Spend, TypeOK, Disturbances
    <3> QED
      BY <1>2, <2>2, <3>1 DEF FirstLives
  <2>3. ASSUME NEW i \in Instances, Start(i) \/ RestoreHandle(i) \/ FinishRestore(i)
        PROVE  FirstLives'
    BY <2>2, <2>3 DEF Start, RestoreHandle, FinishRestore, processVars
  <2>4. ASSUME NEW i \in Instances, NEW l \in Locks, AcquireLocal(i, l) \/ ReleaseLocal(i, l)
        PROVE  FirstLives'
    BY <2>2, <2>4 DEF AcquireLocal, ReleaseLocal, processVars, Disturbances
  <2>5. ASSUME NEW l \in Locks, LockStep(l) PROVE FirstLives'
    BY <2>2, <2>5 DEF LockStep, AcquireProduced, AcquireAttemptFails, RollbackAcquire,
       ReleaseProduced, ReleaseAttemptFails, RollbackRelease, FailedAttempt, processVars,
       Disturbances
  <2>6. ASSUME \/ \E i \in Instances, p \in Partitions : Assign(i, p) \/ LiveHandle(i, p)
               \/ \E i \in Instances : CancelStart(i)
               \/ \E g \in Groups, p \in Partitions : Revoke(g, p)
               \/ \E p \in Partitions : \E o \in 1..Len(log[p]) : Compact(p, o)
               \/ UNCHANGED vars
        PROVE  FirstLives'
    BY <2>2, <2>6 DEF Assign, LiveHandle, CancelStart, Revoke, Compact, vars, processVars, Disturbances
  <2> QED
    BY <1>2, <2>1, <2>3, <2>4, <2>5, <2>6 DEF Next
<1> QED
  BY <1>1, <1>2, TypeCorrect, PTL DEF Spec

\* An instance that is the only one and was never restarted.
Lone == (\A i, j \in Instances : i = j) /\ used["restart"] = 0

LEMMA LoneWrites ==
  ASSUME Base, OriginsPast, FirstLives, Lone, NEW i \in Instances
  PROVE  OnlyOwn(i)
<1> SUFFICES ASSUME NEW p \in Partitions, NEW o \in 1..Len(log[p])
             PROVE  log[p][o].origin = <<i, life[i]>>
  BY DEF OnlyOwn
<1>1. PICK j \in Instances, n \in Nat : log[p][o].origin = <<j, n>>
  BY RecordType
<1>2. j = i /\ life[i] = 0
  BY DEF Lone, FirstLives
<1>3. n <= life[j]
  BY <1>1 DEF OriginsPast
<1> QED
  BY <1>1, <1>2, <1>3

LEMMA OwnExact ==
  ASSUME CountedInv, NEW i \in Instances, OwnCounted(i), NEW k \in Keys \ stolen[i]
  PROVE  Count(i, k) = Cardinality(KnownOf(i, k))
<1>1. TableOK
  BY TypeTable DEF CountedInv, Base
<1>2. Count(i, k) \in Nat /\ Cardinality(KnownOf(i, k)) \in Nat
  BY <1>1, CountNat, KnownFinite
<1> QED
  BY <1>2 DEF CountedInv, KnownCounted, OwnCounted, NoExcess

LEMMA OwnDone ==
  ASSUME CountedInv, NEW i \in Instances, OwnCounted(i), NEW k \in Keys,
         \A l \in Locks : KeyOf[l] = k => Idle(l)
  PROVE  ~IsLocked(lm[i], Topic, k)
<1>1. TableOK
  BY TypeTable DEF CountedInv, Base
<1>2. KnownOf(i, k) = {}
  BY <1>1 DEF KnownOf, OwnCounted, OwnKnown, Idle, TableOK
<1>3. Count(i, k) <= 0 /\ Count(i, k) \in Nat
  BY <1>1, <1>2, CountNat, FS_EmptySet DEF OwnCounted, NoExcess
<1> QED
  BY <1>3 DEF Count, IsLocked, GetRefCount

\* As long as only it has written to the redirect topic, an instance counts
\* exactly the locks it holds: its own records, read back, read twice or
\* partly cleaned away, count nothing (coordinator_kafka.go:603-608).
ExactAmongOwn ==
  \A i \in Instances : OnlyOwn(i) =>
    \A k \in Keys \ stolen[i] : Count(i, k) = Cardinality(KnownOf(i, k))

THEOREM OwnRecordsCountNothing == Spec => []ExactAmongOwn
<1>1. CountedInv /\ OwnTables => ExactAmongOwn
  BY OwnExact DEF OwnTables, ExactAmongOwn
<1> QED
  BY <1>1, InvariantCounted, InvariantOwn, PTL

LEMMA LoneCounted ==
  RestoreInv /\ FirstLives /\ OwnTables /\ Lone => \A i \in Instances : OwnCounted(i)
BY LoneWrites DEF RestoreInv, History, OwnTables

\* An instance that is alone and never restarts counts exactly the locks it
\* holds, whatever the broker reports and the cleaner drops.
THEOREM LoneIsExact == Spec => [](Lone => ExactCount)
<1>1. CountedInv /\ RestoreInv /\ FirstLives /\ OwnTables => (Lone => ExactCount)
  BY LoneCounted, OwnExact DEF ExactCount
<1> QED
  BY <1>1, InvariantCounted, InvariantRestore, InvariantFirst, InvariantOwn, PTL

\* There a key is unlocked when all its locks are released, failed or not
\* yet taken (coordinator_kafka.go:208-209).
THEOREM LoneUnlocksDone == Spec => [](Lone => DoneKeysUnlocked)
<1>1. CountedInv /\ RestoreInv /\ FirstLives /\ OwnTables => (Lone => DoneKeysUnlocked)
  BY LoneCounted, OwnDone DEF DoneKeysUnlocked
<1> QED
  BY <1>1, InvariantCounted, InvariantRestore, InvariantFirst, InvariantOwn, PTL

-----------------------------------------------------------------------------
(* Groups of their own: no offset is skipped                               *)

\* Every instance consumes the redirect topic in a group of its own.
GroupsApart == \A i, j \in Instances : GroupOf[i] = GroupOf[j] => i = j

\* Only running members own partitions, and positions and the cleaner stay
\* inside the log.
OwnersUp ==
  \A g \in Groups, p \in Partitions :
    owner[g][p] # NoOne => /\ status[owner[g][p]] = "up"
                           /\ GroupOf[owner[g][p]] = g
InLog    == \A g \in Groups, p \in Partitions : pos[g][p] <= Len(log[p]) + 1
GonePast == \A p \in Partitions : gone[p] \subseteq 1..Len(log[p])
Places   == OwnersUp /\ InLog /\ GonePast

\* The last record of a lock is never cleaned away unless it is a tombstone,
\* so a lock that is held has a record.
LastRecord(l) ==
  LET q == PartitionOf[l] IN
  \E o \in (1..Len(log[q])) \ gone[q] :
    /\ log[q][o].lock = l
    /\ \A x \in 1..Len(log[q]) : x > o => log[q][x].lock # l

RecordedLock(l) == Tombstoned(l) \/ LastRecord(l)
Recorded ==
  \A l \in Locks :
    op[l].pc \in {"held", "releasing", "undoRelease", "released"} => RecordedLock(l)

\* An acquisition that failed may have left a record nobody has to count.
SeenLock(i, l) == LearntLock(i, l) \/ op[l].pc = "failed"

\* What an instance wrote in its present life it knows without reading it.
OwnSeen ==
  \A i \in Instances, p \in Partitions : \A o \in 1..Len(log[p]) :
    log[p][o].origin = <<i, life[i]>> => log[p][o].tomb \/ SeenLock(i, log[p][o].lock)

\* While an instance replays the topic, its group does not pass the snapshot.
Behind ==
  \A i \in Instances, p \in Partitions :
    status[i] = "restoring" => pos[GroupOf[i]][p] <= target[i][p] + 1

\* What the group of a running instance is past the instance has seen.
Caught ==
  \A i \in Instances : status[i] = "up" =>
    \A p \in Partitions : \A o \in (1..Len(log[p])) \ gone[p] :
      o < pos[GroupOf[i]][p] => log[p][o].tomb \/ SeenLock(i, log[p][o].lock)

Followed == GroupsApart => Behind /\ Caught
Grounds == RestoreInv /\ CountedInv
SeenInv  == Grounds /\ Places /\ Recorded /\ OwnSeen /\ Followed

-----------------------------------------------------------------------------
(* A lock that was seen stays seen                                         *)

LEMMA SeenKept ==
  ASSUME NEW l, Appended(l), NEW i \in Instances, NEW m \in Locks, SeenLock(i, m),
         op'[m] = op[m], m \in known[i] => m \in known'[i]
  PROVE  SeenLock(i, m)'
<1>1. Tombstoned(m) => Tombstoned(m)'
  BY TombstonedStays
<1> QED
  BY <1>1 DEF SeenLock, LearntLock

LEMMA SeenAcquireLocal ==
  ASSUME Grounds, NEW j \in Instances, NEW l \in Locks, AcquireLocal(j, l),
         NEW i \in Instances, NEW m \in Locks, SeenLock(i, m)
  PROVE  SeenLock(i, m)'
<1>0. TypeOK /\ OpsRun
  BY DEF Grounds, RestoreInv, Base
<1>1. /\ op[l].pc = "fresh" /\ UNCHANGED log
      /\ known' = [known EXCEPT ![j] = @ \cup {l}]
      /\ op' = [op EXCEPT ![l] = [pc |-> "acquiring", at |-> j, tries |-> 0]]
  BY DEF AcquireLocal, CountLock, At, topicVars
<1>2. m \in known[i] => m \in known'[i]
  BY <1>0, <1>1 DEF TypeOK
<1>3. CASE m # l
  BY <1>0, <1>1, <1>2, <1>3, SameLog, SeenKept DEF TypeOK
<1>4. CASE m = l
  <2>1. op[m].at = NoOne
    BY <1>0, <1>1, <1>4 DEF OpsRun
  <2>2. m \in known[i] \/ Tombstoned(m)
    BY <1>1, <1>4, <2>1, KafkaAssumption DEF SeenLock, LearntLock
  <2> QED
    BY <1>1, <1>2, <2>2 DEF SeenLock, LearntLock, Tombstoned
<1> QED
  BY <1>3, <1>4

LEMMA SeenReleaseLocal ==
  ASSUME Grounds, NEW j \in Instances, NEW l \in Locks, ReleaseLocal(j, l),
         NEW i \in Instances, NEW m \in Locks, SeenLock(i, m)
  PROVE  SeenLock(i, m)'
<1>0. TypeOK /\ OpsRun
  BY DEF Grounds, RestoreInv, Base
<1>1. /\ op[l].pc \in {"held", "released"} /\ UNCHANGED log
      /\ known' = [known EXCEPT ![j] = @ \ {l}]
      /\ op' = [op EXCEPT ![l] = [pc |-> "releasing", at |-> j, tries |-> 0]]
  BY DEF ReleaseLocal, UncountLock, At, topicVars
<1>2. CASE m # l
  <2>1. m \in known[i] => m \in known'[i]
    BY <1>0, <1>1, <1>2 DEF TypeOK
  <2> QED
    BY <1>0, <1>1, <1>2, <2>1, SameLog, SeenKept DEF TypeOK
<1>3. CASE m = l
  <2>1. op[m].at = NoOne /\ op'[m].at = j
    BY <1>0, <1>1, <1>3 DEF OpsRun, TypeOK
  <2>2. m \in known[i] \/ Tombstoned(m)
    BY <1>1, <1>3, <2>1, KafkaAssumption DEF SeenLock, LearntLock
  <2>3. i # j => known'[i] = known[i]
    BY <1>0, <1>1 DEF TypeOK
  <2> QED
    BY <1>1, <2>1, <2>2, <2>3 DEF SeenLock, LearntLock, Tombstoned
<1> QED
  BY <1>2, <1>3

LEMMA SeenOperation ==
  ASSUME Grounds, NEW l \in Locks, LockStep(l),
         NEW i \in Instances, NEW m \in Locks, SeenLock(i, m)
  PROVE  SeenLock(i, m)'
<1>0. Base /\ TypeOK /\ OpsRun /\ AcquirerKnows
  BY DEF Grounds, CountedInv, Base
<1>1. Appended(l)
  BY <1>0, OperationAppends
<1>2. Tombstoned(m) => Tombstoned(m)'
  BY <1>1, TombstonedStays
<1>3. op[l].at \in Instances
  BY <1>0 DEF OpsRun, LockStep, AcquireProduced, AcquireAttemptFails, RollbackAcquire,
     ReleaseProduced, ReleaseAttemptFails, RollbackRelease
<1>4. CASE AcquireProduced(l)
  <2>1. /\ op[l].pc = "acquiring" /\ UNCHANGED known
        /\ op' = [op EXCEPT ![l] = [pc |-> "held", at |-> NoOne, tries |-> 0]]
    BY <1>4 DEF AcquireProduced, Rest, At, tableVars
  <2>2. m # l => op'[m] = op[m]
    BY <1>0, <2>1 DEF TypeOK
  <2>3. CASE m = l
    BY <1>0, <1>2, <2>1, <2>3 DEF SeenLock, LearntLock, AcquirerKnows
  <2> QED
    BY <1>1, <2>1, <2>2, <2>3, SeenKept
<1>5. CASE ReleaseProduced(l)
  <2>1. /\ op[l].pc = "releasing" /\ UNCHANGED known /\ Tombstoned(l)'
        /\ op' = [op EXCEPT ![l] = [pc |-> "released", at |-> NoOne, tries |-> 0]]
    BY <1>0, <1>3, <1>5, PublishedAppends DEF ReleaseProduced, Rest, At, tableVars
  <2>2. m # l => op'[m] = op[m]
    BY <1>0, <2>1 DEF TypeOK
  <2>3. CASE m = l
    BY <2>1, <2>3 DEF SeenLock, LearntLock
  <2> QED
    BY <1>1, <2>1, <2>2, <2>3, SeenKept
<1>6. CASE AcquireAttemptFails(l) \/ ReleaseAttemptFails(l)
  <2>1. /\ op[l].pc \in {"acquiring", "releasing"} /\ UNCHANGED known
        /\ \/ op' = [op EXCEPT ![l].tries = @ + 1]
           \/ \E undo : op' = [op EXCEPT ![l].pc = undo]
    BY <1>6 DEF AcquireAttemptFails, ReleaseAttemptFails, FailedAttempt, tableVars
  <2>2. op'[m].at = op[m].at /\ (m # l => op'[m] = op[m])
    BY <1>0, <2>1 DEF TypeOK
  <2>3. CASE m = l
    BY <1>2, <2>1, <2>2, <2>3 DEF SeenLock, LearntLock
  <2> QED
    BY <1>1, <2>1, <2>2, <2>3, SeenKept
<1>7. CASE RollbackAcquire(l)
  <2>1. /\ known' = [known EXCEPT ![op[l].at] = @ \ {l}]
        /\ op' = [op EXCEPT ![l] = [pc |-> "failed", at |-> NoOne, tries |-> 0]]
    BY <1>7 DEF RollbackAcquire, UncountLock, Rest, At
  <2>2. m # l => op'[m] = op[m] /\ (m \in known[i] => m \in known'[i])
    BY <1>0, <1>3, <2>1 DEF TypeOK
  <2>3. m = l => op'[m].pc = "failed"
    BY <1>0, <2>1 DEF TypeOK
  <2> QED
    BY <1>1, <2>2, <2>3, SeenKept DEF SeenLock
<1>8. CASE RollbackRelease(l)
  <2>1. /\ known' = [known EXCEPT ![op[l].at] = @ \cup {l}] /\ op[l].pc = "undoRelease"
        /\ op' = [op EXCEPT ![l] = [pc |-> "held", at |-> NoOne, tries |-> 0]]
    BY <1>8 DEF RollbackRelease, CountLock, Rest, At
  <2>2. /\ m \in known[i] => m \in known'[i]
        /\ l \in known'[op[l].at]
        /\ m # l => op'[m] = op[m]
    BY <1>0, <1>3, <2>1 DEF TypeOK
  <2>3. CASE m = l
    BY <1>2, <2>1, <2>2, <2>3 DEF SeenLock, LearntLock
  <2> QED
    BY <1>1, <2>2, <2>3, SeenKept
<1> QED
  BY <1>4, <1>5, <1>6, <1>7, <1>8 DEF LockStep

LEMMA SeenCrash ==
  ASSUME Grounds, NEW i \in Instances, NEW j \in Instances \ {i}, Crash(j),
         NEW m \in Locks, SeenLock(i, m)
  PROVE  SeenLock(i, m)'
<1>0. TypeOK /\ OpsRun
  BY DEF Grounds, RestoreInv, Base
<1>1. known'[i] = known[i] /\ UNCHANGED log
  BY <1>0 DEF Crash, topicVars, TypeOK
<1>2. op[m].pc = "failed" => op[m].at = NoOne
  BY <1>0 DEF OpsRun
<1>3. op[m].at # j => op'[m] = op[m]
  BY DEF Crash, AfterCrash
<1>4. CASE op[m].at # j
  BY <1>1, <1>3, <1>4 DEF SeenLock, LearntLock, Tombstoned
<1>5. CASE op[m].at = j
  <2>1. op[m].pc # "failed" /\ op[m].at # i
    BY <1>2, <1>5, KafkaAssumption
  <2> QED
    BY <1>1, <2>1 DEF SeenLock, LearntLock, Tombstoned
<1> QED
  BY <1>4, <1>5

\* The steps in which no operation moves.
Reads(i) == \/ Start(i) \/ RestoreHandle(i) \/ FinishRestore(i)
            \/ \E p \in Partitions : Assign(i, p) \/ LiveHandle(i, p)
Environment == \/ \E i \in Instances : CancelStart(i)
               \/ \E g \in Groups, p \in Partitions : Revoke(g, p)
               \/ \E p \in Partitions : \E o \in 1..Len(log[p]) : Compact(p, o)
               \/ UNCHANGED vars

LEMMA ReadsSame ==
  ASSUME TypeOK, Environment \/ \E j \in Instances : Reads(j)
  PROVE  /\ UNCHANGED <<log, op, life>>
         /\ \A j \in Instances : known[j] \subseteq known'[j]
<1>1. UNCHANGED <<log, op, life>>
  BY DEF Reads, Environment, Start, RestoreHandle, FinishRestore, Assign, LiveHandle,
     CancelStart, Revoke, Compact, vars, topicVars, processVars
<1>2. CASE \E j \in Instances, p \in Partitions : \E o \in 1..Len(log[p]) :
             ProcessRedirectMessage(j, log[p][o])
  BY <1>1, <1>2, RecordAt, ProcessKnows
<1>3. CASE UNCHANGED known
  BY <1>1, <1>3
<1> QED
  BY <1>1, <1>2, <1>3 DEF Reads, Environment, Start, RestoreHandle, FinishRestore, Assign,
     LiveHandle, CancelStart, Revoke, Compact, vars, tableVars

LEMMA SeenReads ==
  ASSUME TypeOK, Environment \/ \E j \in Instances : Reads(j),
         NEW i \in Instances, NEW m \in Locks, SeenLock(i, m)
  PROVE  SeenLock(i, m)'
BY ReadsSame DEF SeenLock, LearntLock, Tombstoned

\* All steps, told apart.
LEMMA NextForms ==
  ASSUME [Next]_vars
  PROVE  \/ \E i \in Instances : Reads(i)
         \/ \E i \in Instances, l \in Locks : AcquireLocal(i, l) \/ ReleaseLocal(i, l)
         \/ \E l \in Locks : LockStep(l)
         \/ \E i \in Instances : Crash(i)
         \/ Environment
BY DEF Next, Reads, Environment

LEMMA SeenStays ==
  ASSUME Grounds, [Next]_vars, NEW i \in Instances, ~Crash(i),
         NEW m \in Locks, SeenLock(i, m)
  PROVE  SeenLock(i, m)'
<1>1. TypeOK
  BY DEF Grounds, RestoreInv, Base
<1>2. CASE \E j \in Instances, l \in Locks : AcquireLocal(j, l) \/ ReleaseLocal(j, l)
  BY <1>2, SeenAcquireLocal, SeenReleaseLocal
<1>3. CASE \E l \in Locks : LockStep(l)
  BY <1>3, SeenOperation
<1>4. CASE \E j \in Instances : Crash(j)
  BY <1>4, SeenCrash
<1>5. CASE Environment \/ \E j \in Instances : Reads(j)
  BY <1>1, <1>5, SeenReads
<1> QED
  BY <1>2, <1>3, <1>4, <1>5, NextForms

-----------------------------------------------------------------------------
(* Positions                                                               *)

\* What every step leaves of the topic.
Grown ==
  \A p \in Partitions :
    /\ Len(log[p]) \in Nat /\ Len(log'[p]) \in Nat /\ Len(log[p]) <= Len(log'[p])
    /\ \A o \in 1..Len(log[p]) : log'[p][o] = log[p][o]

LEMMA TopicGrows == ASSUME Base, [Next]_vars PROVE Grown
<1>1. CASE UNCHANGED log
  BY <1>1 DEF Base, TypeOK, Grown
<1>2. CASE \E l \in Locks : LockStep(l)
  BY <1>2, OperationAppends DEF Appended, Grown
<1>3. (\E i \in Instances : Reads(i)) \/ Environment => UNCHANGED log
  BY ReadsSame DEF Base
<1> QED
  BY <1>1, <1>2, <1>3, NextForms DEF AcquireLocal, ReleaseLocal, Crash, topicVars

LEMMA DisownBack ==
  ASSUME TypeOK, NEW g \in Groups, NEW lost \in SUBSET Partitions, Disown(g, lost),
         NEW h \in Groups, NEW p \in Partitions
  PROVE  /\ pos'[h][p] <= pos[h][p]
         /\ owner'[h][p] = IF h = g /\ p \in lost THEN NoOne ELSE owner[h][p]
<1>1. PICK c : /\ \A x \in lost : c[x] \in committed[g][x]..pos[g][x]
               /\ owner' = [owner EXCEPT ![g] =
                    [x \in Partitions |-> IF x \in lost THEN NoOne ELSE @[x]]]
               /\ pos' = [pos EXCEPT ![g] =
                    [x \in Partitions |-> IF x \in lost THEN c[x] ELSE @[x]]]
  BY DEF Disown
<1>2. /\ pos'[h][p] = IF h = g /\ p \in lost THEN c[p] ELSE pos[h][p]
      /\ owner'[h][p] = IF h = g /\ p \in lost THEN NoOne ELSE owner[h][p]
  BY <1>1 DEF TypeOK
<1>3. p \in lost => c[p] \in committed[g][p]..pos[g][p]
  BY <1>1
<1>4. committed[g][p] \in Nat /\ pos[g][p] \in Nat /\ pos[h][p] \in Nat
  BY DEF TypeOK
<1> QED
  BY <1>2, <1>3, <1>4

\* Only a member that consumes moves its group forward.
LEMMA PositionForms ==
  ASSUME TypeOK, [Next]_vars, NEW g \in Groups, NEW p \in Partitions
  PROVE  \/ pos'[g][p] <= pos[g][p]
         \/ \E j \in Instances : GroupOf[j] = g /\ LiveHandle(j, p)
<1>1. pos[g][p] \in Nat /\ (UNCHANGED pos => pos'[g][p] <= pos[g][p])
  BY DEF TypeOK
<1>2. ASSUME NEW j \in Instances, NEW q \in Partitions, LiveHandle(j, q)
      PROVE  pos'[g][p] <= pos[g][p] \/ (GroupOf[j] = g /\ q = p)
  <2>1. PICK o \in 1..Len(log[q]) : pos' = [pos EXCEPT ![GroupOf[j]][q] = o + 1]
    BY <1>2 DEF LiveHandle
  <2>2. ~(GroupOf[j] = g /\ q = p) => pos'[g][p] = pos[g][p]
    BY <2>1 DEF TypeOK
  <2> QED
    BY <1>1, <2>2
<1>3. CASE (\E j \in Instances : Reads(j)) /\ ~\E j \in Instances, q \in Partitions : LiveHandle(j, q)
  BY <1>1, <1>3 DEF Reads, Start, RestoreHandle, FinishRestore, Assign, groupVars
<1>4. CASE \E j \in Instances, l \in Locks : AcquireLocal(j, l) \/ ReleaseLocal(j, l)
  BY <1>1, <1>4 DEF AcquireLocal, ReleaseLocal, groupVars
<1>5. CASE \E l \in Locks : LockStep(l)
  BY <1>1, <1>5 DEF LockStep, AcquireProduced, AcquireAttemptFails, RollbackAcquire,
     ReleaseProduced, ReleaseAttemptFails, RollbackRelease, groupVars
<1>6. CASE \E j \in Instances : Crash(j)
  <2>1. PICK j \in Instances : Crash(j)
    BY <1>6
  <2>2. GroupOf[j] \in Groups
    BY KafkaAssumption
  <2> QED
    BY <2>1, <2>2, DisownBack DEF Crash
<1>7. CASE Environment
  <2>1. CASE \E h \in Groups, q \in Partitions : Revoke(h, q)
    BY <2>1, DisownBack DEF Revoke
  <2>2. CASE \E j \in Instances : CancelStart(j)
    <3>1. PICK j \in Instances : CancelStart(j)
      BY <2>2
    <3>2. GroupOf[j] \in Groups
      BY KafkaAssumption
    <3> QED
      BY <3>1, <3>2, DisownBack DEF CancelStart
  <2>3. CASE ~\E h \in Groups, q \in Partitions : Revoke(h, q)
    BY <1>1, <1>7, <2>2, <2>3 DEF Environment, Compact, vars, groupVars
  <2> QED
    BY <2>1, <2>2, <2>3
<1> QED
  BY <1>2, <1>3, <1>4, <1>5, <1>6, <1>7, NextForms

LEMMA OwnersStep == ASSUME Base, OwnersUp, [Next]_vars PROVE OwnersUp'
<1> SUFFICES ASSUME NEW g \in Groups, NEW p \in Partitions, owner'[g][p] # NoOne
             PROVE  status'[owner'[g][p]] = "up" /\ GroupOf[owner'[g][p]] = g
  BY DEF OwnersUp
<1>0. TypeOK
  BY DEF Base
<1>1. ASSUME owner'[g][p] = owner[g][p],
             status[owner[g][p]] = "up" => status'[owner[g][p]] = "up"
      PROVE  status'[owner'[g][p]] = "up" /\ GroupOf[owner'[g][p]] = g
  BY <1>1 DEF OwnersUp
<1>2. owner[g][p] \in Instances \cup {NoOne}
  BY <1>0 DEF TypeOK
<1>3. CASE UNCHANGED <<owner, status>>
  BY <1>1, <1>3
<1>4. ASSUME NEW j \in Instances, Start(j) \/ FinishRestore(j)
      PROVE  status'[owner'[g][p]] = "up" /\ GroupOf[owner'[g][p]] = g
  <2>1. owner' = owner /\ status[j] # "up" /\ \A i \in Instances \ {j} : status'[i] = status[i]
    BY <1>0, <1>4 DEF Start, FinishRestore, groupVars, TypeOK
  <2> QED
    BY <1>1, <1>2, <2>1
<1>5. ASSUME NEW j \in Instances, NEW q \in Partitions, Assign(j, q)
      PROVE  status'[owner'[g][p]] = "up" /\ GroupOf[owner'[g][p]] = g
  <2>1. /\ status' = status /\ status[j] = "up"
        /\ owner'[g][p] = IF g = GroupOf[j] /\ p = q THEN j ELSE owner[g][p]
    BY <1>0, <1>5 DEF Assign, processVars, TypeOK
  <2> QED
    BY <1>1, <2>1
<1>6. ASSUME NEW j \in Instances, Crash(j) \/ CancelStart(j)
      PROVE  status'[owner'[g][p]] = "up" /\ GroupOf[owner'[g][p]] = g
  <2>1. GroupOf[j] \in Groups
    BY KafkaAssumption
  <2>2. owner'[g][p] = IF g = GroupOf[j] /\ owner[g][p] = j THEN NoOne ELSE owner[g][p]
    <3> DEFINE lost == {q \in Partitions : owner[GroupOf[j]][q] = j}
    <3>1. lost \in SUBSET Partitions /\ Disown(GroupOf[j], lost)
      BY <1>6 DEF Crash, CancelStart
    <3>2. owner'[g][p] = IF g = GroupOf[j] /\ p \in lost THEN NoOne ELSE owner[g][p]
      BY <1>0, <2>1, <3>1, DisownBack
    <3> QED
      BY <3>2
  <2>3. owner'[g][p] = owner[g][p]
    BY <2>2
  <2>4. owner[g][p] # j
    BY <2>2, <2>3 DEF OwnersUp
  <2>5. \A i \in Instances \ {j} : status'[i] = status[i]
    BY <1>0, <1>6 DEF Crash, CancelStart, TypeOK
  <2> QED
    BY <1>1, <1>2, <2>3, <2>4, <2>5
<1>7. ASSUME NEW h \in Groups, NEW q \in Partitions, Revoke(h, q)
      PROVE  status'[owner'[g][p]] = "up" /\ GroupOf[owner'[g][p]] = g
  <2>1. status' = status /\ owner'[g][p] \in {NoOne, owner[g][p]}
    BY <1>0, <1>7, DisownBack DEF Revoke, processVars
  <2> QED
    BY <1>1, <2>1
<1>8. CASE \E l \in Locks : LockStep(l)
  BY <1>3, <1>8 DEF LockStep, AcquireProduced, AcquireAttemptFails, RollbackAcquire,
     ReleaseProduced, ReleaseAttemptFails, RollbackRelease, groupVars, processVars
<1>9. CASE \E j \in Instances, l \in Locks : AcquireLocal(j, l) \/ ReleaseLocal(j, l)
  BY <1>3, <1>9 DEF AcquireLocal, ReleaseLocal, groupVars, processVars
<1> QED
  BY <1>3, <1>4, <1>5, <1>6, <1>7, <1>8, <1>9, NextForms
  DEF Reads, Environment, RestoreHandle, LiveHandle, Compact, vars, groupVars, processVars

LEMMA InLogStep == ASSUME Base, InLog, [Next]_vars PROVE InLog'
<1> SUFFICES ASSUME NEW g \in Groups, NEW p \in Partitions
             PROVE  pos'[g][p] <= Len(log'[p]) + 1
  BY DEF InLog
<1>0. TypeOK /\ TypeOK' /\ Grown
  BY NextBase, TopicGrows DEF Base
<1>1. /\ pos[g][p] <= Len(log[p]) + 1 /\ Len(log[p]) <= Len(log'[p])
      /\ Len(log[p]) \in Nat /\ Len(log'[p]) \in Nat /\ pos[g][p] \in Nat
  BY <1>0 DEF InLog, Grown, TypeOK
<1>2. pos'[g][p] \in Nat
  BY <1>0 DEF TypeOK
<1>3. CASE pos'[g][p] <= pos[g][p]
  BY <1>1, <1>2, <1>3
<1>4. ASSUME NEW j \in Instances, GroupOf[j] = g, LiveHandle(j, p)
      PROVE  pos'[g][p] <= Len(log'[p]) + 1
  <2>1. PICK o \in 1..Len(log[p]) : pos' = [pos EXCEPT ![GroupOf[j]][p] = o + 1]
    BY <1>4 DEF LiveHandle
  <2>2. pos'[g][p] = o + 1
    BY <1>4, <2>1 DEF Base, TypeOK
  <2> QED
    BY <1>1, <2>2
<1> QED
  BY <1>3, <1>4, PositionForms DEF Base

\* Only the cleaner drops records, never the newest one.
LEMMA GoneForms ==
  ASSUME [Next]_vars
  PROVE  UNCHANGED gone \/ \E p \in Partitions : \E o \in 1..Len(log[p]) : Compact(p, o)
BY DEF Next, vars, topicVars, Start, RestoreHandle, FinishRestore, CancelStart, Crash,
   AcquireLocal, ReleaseLocal, LockStep, AcquireProduced, AcquireAttemptFails, RollbackAcquire,
   ReleaseProduced, ReleaseAttemptFails, RollbackRelease, Assign, LiveHandle, Revoke

LEMMA GoneStep ==
  ASSUME Base, GonePast, [Next]_vars
  PROVE  GonePast' /\ \A p \in Partitions : gone[p] \subseteq gone'[p]
<1>1. ASSUME NEW p \in Partitions, NEW o \in 1..Len(log[p])
      PROVE  o \in 1..Len(log'[p])
  BY <1>1, TopicGrows DEF Grown
<1>2. CASE UNCHANGED gone
  BY <1>1, <1>2 DEF GonePast
<1>3. ASSUME NEW p \in Partitions, NEW o \in 1..Len(log[p]), Compact(p, o)
      PROVE  GonePast' /\ \A q \in Partitions : gone[q] \subseteq gone'[q]
  <2>1. \A q \in Partitions : gone'[q] = IF q = p THEN gone[q] \cup {o} ELSE gone[q]
    BY <1>3 DEF Compact, Base, TypeOK
  <2> QED
    BY <1>1, <2>1 DEF GonePast
<1> QED
  BY <1>2, <1>3, GoneForms

LEMMA PlacesStep == ASSUME Base, Places, [Next]_vars PROVE Places'
BY OwnersStep, InLogStep, GoneStep DEF Places

-----------------------------------------------------------------------------
(* What is held is recorded                                                *)

LEMMA RecordedStays ==
  ASSUME NEW l, Appended(l), UNCHANGED gone, NEW m \in Locks, m # l, RecordedLock(m)
  PROVE  RecordedLock(m)'
<1> DEFINE q == PartitionOf[m]
<1>1. q \in Partitions
  BY KafkaAssumption
<1>2. CASE Tombstoned(m)
  BY <1>2, TombstonedStays DEF RecordedLock
<1>3. CASE LastRecord(m)
  <2>1. PICK o \in (1..Len(log[q])) \ gone[q] :
          /\ log[q][o].lock = m
          /\ \A x \in 1..Len(log[q]) : x > o => log[q][x].lock # m
    BY <1>3 DEF LastRecord
  <2>2. o \in (1..Len(log'[q])) \ gone'[q] /\ log'[q][o].lock = m
    BY <1>1, <2>1 DEF Appended
  <2>3. ASSUME NEW x \in 1..Len(log'[q]), x > o PROVE log'[q][x].lock # m
    BY <1>1, <2>1, <2>3 DEF Appended
  <2> QED
    BY <2>2, <2>3 DEF RecordedLock, LastRecord
<1> QED
  BY <1>2, <1>3 DEF RecordedLock

LEMMA RecordedSame ==
  ASSUME UNCHANGED <<log, gone>>, NEW m, RecordedLock(m)
  PROVE  RecordedLock(m)'
BY DEF RecordedLock, LastRecord, Tombstoned

\* The newest record of a lock is dropped only if it is a tombstone.
LEMMA RecordedCompact ==
  ASSUME TypeOK, NEW p \in Partitions, NEW o \in 1..Len(log[p]), Compact(p, o),
         NEW m \in Locks, RecordedLock(m)
  PROVE  RecordedLock(m)'
<1> DEFINE q == PartitionOf[m]
<1>1. q \in Partitions
  BY KafkaAssumption
<1>2. /\ UNCHANGED log
      /\ \A x \in Partitions : gone'[x] = IF x = p THEN gone[x] \cup {o} ELSE gone[x]
      /\ \/ \E later \in (o + 1)..Len(log[p]) : log[p][later].lock = log[p][o].lock
         \/ log[p][o].tomb
  BY DEF Compact, TypeOK
<1>3. CASE Tombstoned(m)
  BY <1>2, <1>3 DEF RecordedLock, Tombstoned
<1>4. CASE LastRecord(m)
  <2>1. PICK w \in (1..Len(log[q])) \ gone[q] :
          /\ log[q][w].lock = m
          /\ \A x \in 1..Len(log[q]) : x > w => log[q][x].lock # m
    BY <1>4 DEF LastRecord
  <2>2. CASE p = q /\ o = w
    <3>1. ASSUME NEW later \in (o + 1)..Len(log[p]) PROVE log[p][later].lock # log[p][o].lock
      <4>1. later \in 1..Len(log[q]) /\ later > w
        BY <2>2
      <4> QED
        BY <2>1, <2>2, <4>1
    <3>2. log[q][w].tomb
      BY <1>2, <2>2, <3>1
    <3> QED
      BY <1>2, <2>1, <3>2 DEF RecordedLock, Tombstoned
  <2>3. CASE ~(p = q /\ o = w)
    <3>0. gone'[q] = IF q = p THEN gone[q] \cup {o} ELSE gone[q]
      BY <1>1, <1>2
    <3>1. w \in (1..Len(log'[q])) \ gone'[q]
      <4> HIDE DEF q
      <4> QED
        BY <1>2, <2>1, <2>3, <3>0
    <3> QED
      BY <1>2, <2>1, <3>1 DEF RecordedLock, LastRecord
  <2> QED
    BY <2>2, <2>3
<1> QED
  BY <1>3, <1>4 DEF RecordedLock

LEMMA RecordedOperation ==
  ASSUME Base, GonePast, Recorded, NEW l \in Locks, LockStep(l)
  PROVE  Recorded'
<1>0. TypeOK /\ Appended(l) /\ UNCHANGED gone
  BY OperationAppends DEF Base, LockStep, AcquireProduced, AcquireAttemptFails, RollbackAcquire,
     ReleaseProduced, ReleaseAttemptFails, RollbackRelease, topicVars
<1>1. op[l].at \in Instances
  BY DEF Base, OpsRun, LockStep, AcquireProduced, AcquireAttemptFails, RollbackAcquire,
     ReleaseProduced, ReleaseAttemptFails, RollbackRelease
<1>2. \E o : op' = [op EXCEPT ![l] = o]
  BY DEF LockStep, AcquireProduced, AcquireAttemptFails, RollbackAcquire,
     ReleaseProduced, ReleaseAttemptFails, RollbackRelease, FailedAttempt
<1>3. \A m \in Locks \ {l} : op'[m] = op[m]
  BY <1>0, <1>2 DEF TypeOK
<1>4. ASSUME op'[l].pc \in {"held", "releasing", "undoRelease", "released"}
      PROVE  RecordedLock(l)'
  <2>1. CASE AcquireProduced(l)
    <3> DEFINE q == PartitionOf[l]
               n == Len(log[q]) + 1
    <3>1. /\ q \in Partitions /\ n \in 1..Len(log'[q]) /\ Len(log'[q]) = n
          /\ log'[q][n].lock = l
      BY <1>1, <2>1, PublishedLast DEF AcquireProduced
    <3>2. Len(log[q]) \in Nat
      BY <1>0, <3>1 DEF TypeOK
    <3>3. n \notin gone'[q]
      BY <1>0, <3>1, <3>2 DEF GonePast
    <3>4. \A x \in 1..Len(log'[q]) : ~(x > n)
      BY <3>1, <3>2
    <3> HIDE DEF n
    <3> QED
      BY <3>1, <3>3, <3>4 DEF RecordedLock, LastRecord
  <2>2. CASE ReleaseProduced(l)
    BY <1>1, <2>2, PublishedAppends DEF ReleaseProduced, RecordedLock
  <2>3. CASE ReleaseAttemptFails(l)
    <3>1. CASE UNCHANGED log
      BY <1>0, <2>3, <3>1, RecordedSame DEF Recorded, ReleaseAttemptFails
    <3>2. CASE Published(l, TRUE)
      BY <1>1, <3>2, PublishedAppends DEF RecordedLock
    <3> QED
      BY <2>3, <3>1, <3>2 DEF ReleaseAttemptFails, FailedAttempt
  <2>4. CASE RollbackRelease(l)
    BY <2>4, RecordedSame DEF RollbackRelease, Recorded, topicVars
  <2>5. ~AcquireAttemptFails(l)
    <3>1. ASSUME AcquireAttemptFails(l) PROVE op'[l].pc \in {"acquiring", "undoAcquire"}
      BY <1>0, <3>1 DEF AcquireAttemptFails, FailedAttempt, TypeOK
    <3> QED
      BY <1>4, <3>1
  <2>6. ~RollbackAcquire(l)
    <3>1. ASSUME RollbackAcquire(l) PROVE op'[l] = Rest("failed")
      BY <1>0, <3>1 DEF RollbackAcquire, TypeOK
    <3> QED
      BY <1>4, <3>1, RestPC
  <2> QED
    BY <2>1, <2>2, <2>3, <2>4, <2>5, <2>6 DEF LockStep
<1>5. ASSUME NEW m \in Locks \ {l}, op'[m].pc \in {"held", "releasing", "undoRelease", "released"}
      PROVE  RecordedLock(m)'
  BY <1>0, <1>3, <1>5, RecordedStays DEF Recorded
<1> SUFFICES ASSUME NEW m \in Locks,
                    op'[m].pc \in {"held", "releasing", "undoRelease", "released"}
             PROVE  RecordedLock(m)'
  BY DEF Recorded
<1> QED
  BY <1>4, <1>5

LEMMA RecordedStep == ASSUME Base, GonePast, Recorded, [Next]_vars PROVE Recorded'
<1> DEFINE Settled == {"held", "releasing", "undoRelease", "released"}
<1>0. TypeOK
  BY DEF Base
<1>1. ASSUME UNCHANGED <<log, gone>>,
             \A m \in Locks : op'[m].pc \in Settled => op[m].pc \in Settled
      PROVE  Recorded'
  <2> SUFFICES ASSUME NEW m \in Locks, op'[m].pc \in Settled PROVE RecordedLock(m)'
    BY DEF Recorded
  <2> QED
    BY <1>1, RecordedSame DEF Recorded
<1>2. ASSUME NEW j \in Instances, NEW l \in Locks, AcquireLocal(j, l) \/ ReleaseLocal(j, l)
      PROVE  Recorded'
  <2>1. /\ UNCHANGED <<log, gone>>
        /\ \/ op' = [op EXCEPT ![l] = [pc |-> "acquiring", at |-> j, tries |-> 0]]
           \/ op[l].pc \in Settled
              /\ op' = [op EXCEPT ![l] = [pc |-> "releasing", at |-> j, tries |-> 0]]
    BY <1>2 DEF AcquireLocal, ReleaseLocal, At, topicVars
  <2>2. ASSUME NEW m \in Locks, op'[m].pc \in Settled PROVE op[m].pc \in Settled
    <3>1. CASE m # l
      <4>1. op'[m] = op[m]
        BY <1>0, <2>1, <3>1 DEF TypeOK
      <4> QED
        BY <2>2, <4>1
    <3>2. CASE m = l
      BY <1>0, <2>1, <2>2, <3>2 DEF TypeOK
    <3> QED
      BY <3>1, <3>2
  <2> QED
    BY <1>1, <2>1, <2>2
<1>3. ASSUME NEW j \in Instances, Crash(j) PROVE Recorded'
  <2>1. UNCHANGED <<log, gone>> /\ \A m \in Locks : op'[m] = AfterCrash(j, op[m])
    BY <1>3 DEF Crash, topicVars
  <2>2. ASSUME NEW m \in Locks, op'[m].pc \in Settled PROVE op[m].pc \in Settled
    <3>1. CASE op[m].at # j
      BY <2>1, <2>2, <3>1 DEF AfterCrash
    <3>2. CASE op[m].at = j
      <4>1. op[m].pc \in {"acquiring", "undoAcquire"} => op'[m] = Rest("failed")
        BY <2>1, <3>2 DEF AfterCrash
      <4>2. op[m].pc \notin {"acquiring", "undoAcquire"}
        BY <2>2, <4>1, RestPC
      <4>3. op[m].pc \in {"acquiring", "undoAcquire", "releasing", "undoRelease"}
        BY <3>2, KafkaAssumption DEF Base, OpsRun
      <4> QED
        BY <4>2, <4>3
    <3> QED
      BY <3>1, <3>2
  <2> QED
    BY <1>1, <2>1, <2>2
<1>4. ASSUME NEW p \in Partitions, NEW o \in 1..Len(log[p]), Compact(p, o) PROVE Recorded'
  <2>1. UNCHANGED op
    BY <1>4 DEF Compact
  <2> QED
    BY <1>0, <1>4, <2>1, RecordedCompact DEF Recorded
<1>5. CASE \E j \in Instances : Reads(j)
  <2>1. UNCHANGED <<log, gone, op>>
    BY <1>5 DEF Reads, Start, RestoreHandle, FinishRestore, Assign, LiveHandle, topicVars
  <2> QED
    BY <1>1, <2>1
<1>6. CASE Environment /\ UNCHANGED gone
  <2>1. UNCHANGED <<log, gone, op>>
    BY <1>0, <1>6, ReadsSame
  <2> QED
    BY <1>1, <2>1
<1> QED
  BY <1>2, <1>3, <1>4, <1>5, <1>6, RecordedOperation, NextForms, GoneForms

-----------------------------------------------------------------------------
(* What the group of an instance is past, the instance has seen            *)

\* A record a step writes is a tombstone or tells of a lock its instance
\* counts.
LEMMA NewRecord ==
  ASSUME Base, AcquirerKnows, [Next]_vars, NEW p \in Partitions,
         NEW o \in 1..Len(log'[p]), o \notin 1..Len(log[p])
  PROVE  \/ log'[p][o].tomb
         \/ \E j \in Instances : /\ log'[p][o].origin = <<j, life[j]>>
                                 /\ log'[p][o].lock \in known'[j]
<1>1. log' # log
  OBVIOUS
<1>2. PICK l \in Locks : LockStep(l)
  BY <1>1, ReadsSame, NextForms DEF Base, AcquireLocal, ReleaseLocal, Crash, topicVars
<1>3. op[l].at \in Instances
  BY <1>2 DEF Base, OpsRun, LockStep, AcquireProduced, AcquireAttemptFails, RollbackAcquire,
     ReleaseProduced, ReleaseAttemptFails, RollbackRelease
<1>4. PICK b \in BOOLEAN : /\ Published(l, b) /\ UNCHANGED known
                           /\ ~b => op[l].pc = "acquiring"
  BY <1>1, <1>2 DEF LockStep, AcquireProduced, AcquireAttemptFails, RollbackAcquire,
     ReleaseProduced, ReleaseAttemptFails, RollbackRelease, FailedAttempt, topicVars, tableVars
<1>5. /\ p = PartitionOf[l]
      /\ log'[p][o].lock = l /\ log'[p][o].tomb = b
      /\ log'[p][o].origin = <<op[l].at, life[op[l].at]>>
  <2> DEFINE q == PartitionOf[l]
             n == Len(log[q]) + 1
  <2>1. /\ q \in Partitions
        /\ Len(log'[q]) = n
        /\ log'[q][n].lock = l /\ log'[q][n].tomb = b
        /\ log'[q][n].origin = <<op[l].at, life[op[l].at]>>
        /\ \A x \in Partitions \ {q} : log'[x] = log[x]
    BY <1>3, <1>4, PublishedLast
  <2>2. p = q
    BY <2>1
  <2>3. Len(log[q]) \in Nat
    BY <2>1 DEF Base, TypeOK
  <2>4. o = n
    BY <2>1, <2>2, <2>3
  <2> QED
    BY <2>1, <2>2, <2>4
<1>6. ~b => l \in known'[op[l].at]
  BY <1>4 DEF AcquirerKnows
<1> QED
  BY <1>3, <1>4, <1>5, <1>6

LEMMA LifeKept ==
  ASSUME TypeOK, [Next]_vars, NEW i \in Instances, ~Crash(i)
  PROVE  life'[i] = life[i]
<1>1. CASE \E j \in Instances : Crash(j)
  <2>1. PICK j \in Instances \ {i} : Crash(j)
    BY <1>1
  <2> QED
    BY <2>1 DEF Crash, TypeOK
<1>2. CASE Environment \/ \E j \in Instances : Reads(j)
  BY <1>2, ReadsSame
<1>3. CASE \E j \in Instances, l \in Locks : AcquireLocal(j, l) \/ ReleaseLocal(j, l)
  BY <1>3 DEF AcquireLocal, ReleaseLocal, processVars
<1>4. CASE \E l \in Locks : LockStep(l)
  BY <1>4 DEF LockStep, AcquireProduced, AcquireAttemptFails, RollbackAcquire,
     ReleaseProduced, ReleaseAttemptFails, RollbackRelease, processVars
<1> QED
  BY <1>1, <1>2, <1>3, <1>4, NextForms

LEMMA OwnSeenStep == ASSUME Grounds, OwnSeen, [Next]_vars PROVE OwnSeen'
<1> SUFFICES ASSUME NEW i \in Instances, NEW p \in Partitions, NEW o \in 1..Len(log'[p]),
                    log'[p][o].origin = <<i, life'[i]>>, ~log'[p][o].tomb
             PROVE  SeenLock(i, log[p][o].lock)'
  BY DEF OwnSeen
<1>0. Base /\ TypeOK /\ AcquirerKnows /\ OriginsPast
  BY DEF Grounds, CountedInv, RestoreInv, History, Base
<1>1. CASE o \in 1..Len(log[p])
  <2>1. log'[p][o] = log[p][o]
    BY <1>0, <1>1, TopicGrows DEF Grown
  <2>2. PICK m \in Locks : m = log[p][o].lock
    BY <1>0, <1>1, RecordType
  <2>3. ~Crash(i)
    <3>1. ASSUME Crash(i) PROVE FALSE
      <4>1. life'[i] = life[i] + 1 /\ life[i] \in Nat
        BY <1>0, <3>1 DEF Crash, TypeOK
      <4>2. PICK n \in Nat : log[p][o].origin = <<i, n>>
        BY <2>1, <4>1
      <4>3. n <= life[i]
        BY <1>0, <1>1, <4>2 DEF OriginsPast
      <4> QED
        BY <2>1, <4>1, <4>2, <4>3
    <3> QED
      BY <3>1
  <2>4. life'[i] = life[i]
    BY <1>0, <2>3, LifeKept
  <2>5. SeenLock(i, m)
    BY <1>1, <2>1, <2>2, <2>4 DEF OwnSeen
  <2>6. SeenLock(i, m)'
    BY <2>3, <2>5, SeenStays
  <2> QED
    BY <2>1, <2>2, <2>6 DEF SeenLock, LearntLock, Tombstoned
<1>2. CASE o \notin 1..Len(log[p])
  <2>1. PICK j \in Instances : /\ log'[p][o].origin = <<j, life[j]>>
                               /\ log'[p][o].lock \in known'[j]
    BY <1>0, <1>2, NewRecord
  <2> QED
    BY <2>1 DEF SeenLock, LearntLock
<1> QED
  BY <1>1, <1>2

LEMMA StatusForms ==
  ASSUME TypeOK, [Next]_vars, NEW i \in Instances
  PROVE  \/ status'[i] = status[i] /\ target'[i] = target[i]
         \/ Start(i) \/ FinishRestore(i) \/ CancelStart(i) \/ Crash(i)
<1>1. CASE UNCHANGED <<status, target>>
  BY <1>1
<1>2. ASSUME NEW j \in Instances \ {i},
             Start(j) \/ FinishRestore(j) \/ CancelStart(j) \/ Crash(j)
      PROVE  status'[i] = status[i] /\ target'[i] = target[i]
  BY <1>2 DEF Start, FinishRestore, CancelStart, Crash, restoreVars, TypeOK
<1>3. CASE \E j \in Instances, l \in Locks : AcquireLocal(j, l) \/ ReleaseLocal(j, l)
  BY <1>1, <1>3 DEF AcquireLocal, ReleaseLocal, restoreVars, processVars
<1>4. CASE \E l \in Locks : LockStep(l)
  BY <1>1, <1>4 DEF LockStep, AcquireProduced, AcquireAttemptFails, RollbackAcquire,
     ReleaseProduced, ReleaseAttemptFails, RollbackRelease, restoreVars, processVars
<1>5. CASE Environment
  BY <1>1, <1>2, <1>5 DEF Environment, Revoke, Compact, vars, restoreVars, processVars
<1>6. CASE \E j \in Instances : Reads(j)
  BY <1>1, <1>2, <1>6 DEF Reads, RestoreHandle, Assign, LiveHandle, restoreVars, processVars
<1> QED
  BY <1>2, <1>3, <1>4, <1>5, <1>6, NextForms

\* The group of an instance moves forward only by the instance itself.
LEMMA OwnPosition ==
  ASSUME GroupsApart, TypeOK, [Next]_vars, NEW i \in Instances, NEW p \in Partitions,
         ~LiveHandle(i, p)
  PROVE  pos'[GroupOf[i]][p] <= pos[GroupOf[i]][p]
<1>1. GroupOf[i] \in Groups
  BY KafkaAssumption
<1> QED
  BY <1>1, PositionForms DEF GroupsApart

LEMMA BehindStep ==
  ASSUME GroupsApart, Base, Places, Behind, [Next]_vars
  PROVE  Behind'
<1> SUFFICES ASSUME NEW i \in Instances, NEW p \in Partitions, status'[i] = "restoring"
             PROVE  pos'[GroupOf[i]][p] <= target'[i][p] + 1
  BY DEF Behind
<1>0. TypeOK /\ TypeOK' /\ GroupOf[i] \in Groups
  BY NextBase, KafkaAssumption DEF Base
<1>1. /\ pos[GroupOf[i]][p] \in Nat /\ pos'[GroupOf[i]][p] \in Nat
      /\ target[i][p] \in Nat /\ target'[i][p] \in Nat
  BY <1>0 DEF TypeOK
<1>2. CASE Start(i)
  <2>1. UNCHANGED pos /\ target'[i] = HighWaterMarks
    BY <1>0, <1>2 DEF Start, groupVars, TypeOK
  <2>2. pos[GroupOf[i]][p] <= Len(log[p]) + 1
    BY <1>0 DEF Places, InLog
  <2> QED
    BY <2>1, <2>2 DEF HighWaterMarks
<1>3. CASE status'[i] = status[i] /\ target'[i] = target[i]
  <2>1. ~LiveHandle(i, p)
    <3>1. LiveHandle(i, p) => status[i] = "up"
      BY <1>0, KafkaAssumption DEF LiveHandle, Places, OwnersUp
    <3> QED
      BY <1>3, <3>1
  <2>2. pos'[GroupOf[i]][p] <= pos[GroupOf[i]][p]
    BY <1>0, <2>1, OwnPosition
  <2>3. pos[GroupOf[i]][p] <= target[i][p] + 1
    BY <1>3 DEF Behind
  <2> QED
    BY <1>1, <1>3, <2>2, <2>3
<1>4. ~FinishRestore(i) /\ ~CancelStart(i) /\ ~Crash(i)
  BY <1>0 DEF FinishRestore, CancelStart, Crash, TypeOK
<1> QED
  BY <1>0, <1>2, <1>3, <1>4, StatusForms

\* The record consumed was the instance's own, a tombstone, or is counted.
LEMMA CaughtLive ==
  ASSUME Grounds, Places, OwnSeen, Caught, NEW i \in Instances, NEW p \in Partitions,
         LiveHandle(i, p), NEW x \in (1..Len(log[p])) \ gone[p],
         x < pos'[GroupOf[i]][p], ~log[p][x].tomb
  PROVE  SeenLock(i, log[p][x].lock)'
<1>0. Base /\ TypeOK /\ GroupOf[i] \in Groups
  BY KafkaAssumption DEF Grounds, RestoreInv, Base
<1>1. PICK o \in 1..Len(log[p]) :
        /\ IsNext(p, pos[GroupOf[i]][p], o)
        /\ ProcessRedirectMessage(i, log[p][o])
        /\ pos' = [pos EXCEPT ![GroupOf[i]][p] = o + 1]
  BY DEF LiveHandle
<1>2. pos'[GroupOf[i]][p] = o + 1 /\ pos[GroupOf[i]][p] \in Nat /\ o \in Nat /\ x \in Nat
  BY <1>0, <1>1, RecordAt DEF TypeOK
<1>3. status[i] = "up"
  BY <1>0, KafkaAssumption DEF LiveHandle, Places, OwnersUp
<1>4. PICK m \in Locks : m = log[p][x].lock
  BY <1>0, RecordType
<1>5. UNCHANGED <<log, op>> /\ known[i] \subseteq known'[i]
  <2>1. Reads(i)
    BY DEF Reads
  <2> QED
    BY <1>0, <2>1, ReadsSame
<1>6. SeenLock(i, m) => SeenLock(i, m)'
  BY <1>5 DEF SeenLock, LearntLock, Tombstoned
<1>7. CASE x < pos[GroupOf[i]][p]
  BY <1>3, <1>4, <1>5, <1>6, <1>7 DEF Caught
<1>8. CASE x >= pos[GroupOf[i]][p] /\ x < o
  BY <1>1, <1>2, <1>8 DEF IsNext
<1>9. CASE x = o
  <2>1. CASE log[p][o].origin = <<i, life[i]>>
    BY <1>4, <1>5, <1>6, <1>9, <2>1 DEF OwnSeen
  <2>2. CASE log[p][o].origin # <<i, life[i]>>
    <3>1. known' = [known EXCEPT ![i] = @ \cup {log[p][o].lock}]
      BY <1>1, <1>9, <2>2 DEF ProcessRedirectMessage, CountLock
    <3>2. log[p][x].lock \in known'[i]
      BY <1>0, <1>9, <3>1 DEF TypeOK
    <3> QED
      BY <1>5, <3>2 DEF SeenLock, LearntLock
  <2> QED
    BY <2>1, <2>2
<1> QED
  BY <1>2, <1>4, <1>5, <1>7, <1>8, <1>9

LEMMA CaughtStep ==
  ASSUME GroupsApart, Grounds, Places, OwnSeen, Behind, Caught, [Next]_vars
  PROVE  Caught'
<1> SUFFICES ASSUME NEW i \in Instances, status'[i] = "up", NEW p \in Partitions,
                    NEW o \in (1..Len(log'[p])) \ gone'[p], o < pos'[GroupOf[i]][p],
                    ~log'[p][o].tomb
             PROVE  SeenLock(i, log[p][o].lock)'
  BY DEF Caught
<1>0. /\ Base /\ TypeOK /\ TypeOK' /\ GroupOf[i] \in Groups
      /\ GonePast /\ InLog
  BY NextBase, KafkaAssumption DEF Grounds, RestoreInv, Base, Places
<1>1. pos[GroupOf[i]][p] \in Nat /\ pos'[GroupOf[i]][p] \in Nat /\ target[i][p] \in Nat
  BY <1>0 DEF TypeOK
<1>2. Grown /\ gone[p] \subseteq gone'[p]
  BY <1>0, TopicGrows, GoneStep
<1>3. ~Crash(i) /\ ~CancelStart(i)
  BY <1>0 DEF Crash, CancelStart, TypeOK
<1>4. CASE LiveHandle(i, p)
  <2>1. UNCHANGED <<log, gone>>
    BY <1>4 DEF LiveHandle, topicVars
  <2> QED
    BY <1>4, <2>1, CaughtLive
<1>5. CASE ~LiveHandle(i, p)
  <2>1. pos'[GroupOf[i]][p] <= pos[GroupOf[i]][p]
    BY <1>0, <1>5, OwnPosition
  <2>2. pos[GroupOf[i]][p] <= Len(log[p]) + 1 /\ Len(log[p]) \in Nat /\ Len(log'[p]) \in Nat
    BY <1>0, <1>2 DEF InLog, Grown
  <2>3. o \in (1..Len(log[p])) \ gone[p] /\ o < pos[GroupOf[i]][p]
    BY <1>1, <1>2, <2>1, <2>2
  <2>4. log'[p][o] = log[p][o]
    BY <1>2, <2>3 DEF Grown
  <2>5. PICK m \in Locks : m = log[p][o].lock
    BY <1>0, <2>3, RecordType
  <2>6. SeenLock(i, m)
    <3>1. CASE Start(i)
      <4>1. \A q \in Partitions : ~(HighWaterMarks[q] > 0)
        BY <1>0, <3>1 DEF Start, TypeOK
      <4>2. ~(Len(log[p]) > 0)
        BY <4>1 DEF HighWaterMarks
      <4> QED
        BY <2>2, <2>3, <4>2
    <3>2. CASE FinishRestore(i)
      <4>1. status[i] = "restoring" /\ restorePos[i][p] > target[i][p]
        BY <3>2 DEF FinishRestore
      <4>2. pos[GroupOf[i]][p] <= target[i][p] + 1
        BY <4>1 DEF Behind
      <4>3. restorePos[i][p] \in Nat
        BY <1>0 DEF TypeOK
      <4>4. o \in (1..target[i][p]) \ gone[p] /\ ~(o >= restorePos[i][p])
        BY <1>1, <2>2, <2>3, <4>1, <4>2, <4>3
      <4>5. LearntLock(i, log[p][o].lock)
        BY <2>4, <4>1, <4>4 DEF Grounds, RestoreInv, LearntSoFar
      <4> QED
        BY <2>5, <4>5 DEF SeenLock
    <3>3. CASE status[i] = "up"
      BY <2>3, <2>4, <2>5, <3>3 DEF Caught
    <3> QED
      BY <1>0, <1>3, <3>1, <3>2, <3>3, StatusForms
  <2>7. SeenLock(i, m)'
    BY <1>3, <2>6, SeenStays
  <2> QED
    BY <2>4, <2>5, <2>7 DEF SeenLock, LearntLock, Tombstoned
<1> QED
  BY <1>4, <1>5

LEMMA InitSeen == Init => Places /\ Recorded /\ OwnSeen /\ Followed
<1> SUFFICES ASSUME Init PROVE Places /\ Recorded /\ OwnSeen /\ Followed
  OBVIOUS
<1>1. \A p \in Partitions : Len(log[p]) = 0 /\ gone[p] = {}
  BY DEF Init
<1>2. Places
  BY <1>1 DEF Init, Places, OwnersUp, InLog, GonePast
<1>3. Recorded
  BY RestPC DEF Init, Recorded
<1>4. OwnSeen /\ Followed
  BY <1>1 DEF Init, OwnSeen, Followed, Behind, Caught
<1> QED
  BY <1>2, <1>3, <1>4

LEMMA InvariantSeen == Spec => []SeenInv
<1>1. Init => SeenInv
  BY InitSeen, InitRestore, InitCounted DEF SeenInv, Grounds
<1>2. ASSUME SeenInv, [Next]_vars PROVE SeenInv'
  <2>1. Base /\ Grounds /\ Grounds'
    BY <1>2, NextRestore, NextCounted DEF SeenInv, Grounds, RestoreInv
  <2>2. Places' /\ Recorded' /\ OwnSeen'
    BY <1>2, <2>1, PlacesStep, RecordedStep, OwnSeenStep DEF SeenInv, Places
  <2>3. Followed'
    BY <1>2, <2>1, BehindStep, CaughtStep DEF SeenInv, Followed, GroupsApart
  <2> QED
    BY <2>1, <2>2, <2>3 DEF SeenInv
<1> QED
  BY <1>1, <1>2, PTL DEF Spec

LEMMA HeldSeen ==
  ASSUME SeenInv, GroupsApart, NEW i \in Instances, NEW l \in Locks, status[i] = "up",
         CaughtUp(GroupOf[i]), op[l].pc = "held", ~Tombstoned(l)
  PROVE  l \in known[i]
<1> DEFINE q == PartitionOf[l]
<1>0. q \in Partitions /\ GroupOf[i] \in Groups /\ NoOne \notin Instances
  BY KafkaAssumption
<1>1. op[l].at = NoOne /\ TypeOK
  BY DEF SeenInv, Grounds, RestoreInv, Base, OpsRun
<1>2. PICK o \in (1..Len(log[q])) \ gone[q] : log[q][o].lock = l
  BY DEF SeenInv, Recorded, RecordedLock, LastRecord
<1>3. pos[GroupOf[i]][q] \in Nat /\ Len(log[q]) \in Nat /\ o \in Nat
  BY <1>0, <1>1 DEF TypeOK
<1>4. o < pos[GroupOf[i]][q]
  BY <1>0, <1>2, <1>3 DEF CaughtUp
<1>5. log[q][o].tomb \/ SeenLock(i, l)
  BY <1>0, <1>2, <1>4 DEF SeenInv, Followed, Caught
<1>6. ~log[q][o].tomb
  BY <1>2 DEF Tombstoned
<1> QED
  BY <1>0, <1>1, <1>5, <1>6 DEF SeenLock, LearntLock

\* When every instance consumes the redirect topic in a group of its own and
\* has consumed it, every running instance counts every lock that is held
\* (README.md:105): neither a restart, a replay, a move of the partition nor
\* the cleaner makes it skip the record.
THEOREM HeldAreSeen == Spec => [](GroupsApart => HeldLocksSeen)
<1>1. SeenInv => (GroupsApart => HeldLocksSeen)
  BY HeldSeen DEF HeldLocksSeen
<1> QED
  BY <1>1, InvariantSeen, PTL
=============================================================================

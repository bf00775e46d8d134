-------------------------- MODULE KafkaCoordinator --------------------------
(***************************************************************************)
(* KafkaStateCoordinator (coordinator_kafka.go) on every application       *)
(* instance, for one primary topic, around the shared compacted redirect   *)
(* topic.  An instance counts locks in its local table first and publishes *)
(* them second; it learns the locks of the others by replaying the topic   *)
(* when it starts and by consuming it afterwards.                          *)
(*                                                                         *)
(* A lock is one acquisition, named by the uuid Acquire writes into the    *)
(* message headers.  The uuid is also the record key on the redirect       *)
(* topic.  Offsets are positions in the partition's sequence, from 1.      *)
(***************************************************************************)
EXTENDS LockMap, Sequences, FiniteSets

CONSTANTS
  Instances,      \* application processes
  Locks,          \* uuids
  Keys, KeyOf,    \* message keys, and the key of the message behind a lock
  Topic,          \* the primary topic
  Partitions, PartitionOf,  \* of the redirect topic; where a uuid hashes to
  Groups, GroupOf,  \* consumer groups {GroupID}-redirect; that of an instance
  NoOne,          \* no instance
  Attempts,       \* tries of one produce (3 in the code)
  Bound,          \* how often each disturbance may happen, see Disturbances
  Kinds           \* how many kinds of them one behaviour may show

\* fault:      a produce attempt reports an error (its record may be there)
\* restart:    an instance dies and may start again
\* move:       the group takes a partition away from its owner
\* redelivery: a retry message whose lock is released is handled again
\* compaction: the log cleaner drops a record
\* cancel:     the context given to Start ends while the process lives on
Disturbances == {"fault", "restart", "move", "redelivery", "compaction", "cancel"}

ASSUME KafkaAssumption ==
  /\ IsFiniteSet(Locks)
  /\ Keys \cap Locks = {}
  /\ KeyOf \in [Locks -> Keys]
  /\ PartitionOf \in [Locks -> Partitions]
  /\ GroupOf \in [Instances -> Groups]
  /\ NoOne \notin Instances
  /\ Attempts \in Nat \ {0}
  /\ Bound \in [Disturbances -> Nat]
  /\ Kinds \in Nat

VARIABLES
  log, gone,        \* redirect topic: records ever written, offsets cleaned
  committed,        \* committed position of each group and partition
  owner, pos,       \* owner of each partition in each group, its position
  status, life,     \* of an instance, and how often it was restarted
  lm,               \* its local lock table
  restorePos, target,  \* refill consumer: next offsets and HWM snapshot
  op,               \* progress of Acquire and Release of each lock
  known,            \* auxiliary: locks an instance counts in its table
  stolen,           \* auxiliary: keys it released a lock of without counting it
  used              \* disturbances so far

topicVars    == <<log, gone>>
groupVars    == <<committed, owner, pos>>
restoreVars  == <<restorePos, target>>
processVars  == <<status, life>>
tableVars    == <<lm, known, stolen>>
vars == <<topicVars, groupVars, restoreVars, processVars, tableVars, op, used>>

Phases == {"fresh", "acquiring", "undoAcquire", "failed",
           "held", "releasing", "undoRelease", "released"}

Origins == Instances \X Nat     \* instanceID: a new uuid for every process
Records == [lock : Locks, origin : Origins, tomb : BOOLEAN]

Spend(what) == /\ used[what] < Bound[what]
               /\ Cardinality({d \in Disturbances : used[d] > 0} \cup {what}) <= Kinds
               /\ used' = [used EXCEPT ![what] = @ + 1]

At(phase, i, tries) == [pc |-> phase, at |-> i, tries |-> tries]
Rest(phase) == At(phase, NoOne, 0)

Init ==
  /\ log = [p \in Partitions |-> << >>]
  /\ gone = [p \in Partitions |-> {}]
  /\ committed = [g \in Groups |-> [p \in Partitions |-> 1]]
  /\ owner = [g \in Groups |-> [p \in Partitions |-> NoOne]]
  /\ pos = [g \in Groups |-> [p \in Partitions |-> 1]]
  /\ status = [i \in Instances |-> "down"]
  /\ life = [i \in Instances |-> 0]
  /\ lm = [i \in Instances |-> Nothing]
  /\ restorePos = [i \in Instances |-> [p \in Partitions |-> 1]]
  /\ target = [i \in Instances |-> [p \in Partitions |-> 0]]
  /\ op = [l \in Locks |-> Rest("fresh")]
  /\ known = [i \in Instances |-> {}]
  /\ stolen = [i \in Instances |-> {}]
  /\ used = [d \in Disturbances |-> 0]

-----------------------------------------------------------------------------
(* The local table *)

Count(i, k) == GetRefCount(lm[i], Topic, k)

CountLock(i, l) ==
  /\ lm' = [lm EXCEPT ![i] = IncrementRef(@, Topic, KeyOf[l])]
  /\ known' = [known EXCEPT ![i] = @ \cup {l}]

UncountLock(i, l) ==
  /\ lm' = [lm EXCEPT ![i] = ReleaseRef(@, Topic, KeyOf[l])]
  /\ known' = [known EXCEPT ![i] = @ \ {l}]

\* Mutant: no echo filter.
ProcessEchoes(i, record) ==
  \/ /\ record.tomb
     /\ lm' = [lm EXCEPT ![i] = ReleaseRef(@, Topic, record.lock)]
     /\ UNCHANGED <<known, stolen>>
  \/ /\ ~record.tomb
     /\ CountLock(i, record.lock)
     /\ UNCHANGED stolen

\* Mutant: a key that is locked is not counted again.
ProcessOncePerKey(i, record) ==
  IF \/ record.origin = <<i, life[i]>>
     \/ record.tomb
     \/ IsLocked(lm[i], Topic, KeyOf[record.lock])
  THEN UNCHANGED tableVars
  ELSE CountLock(i, record.lock) /\ UNCHANGED stolen

\* processRedirectMessage: an instance skips the records of its own life,
\* counts the locks of all others, and hands a tombstone to the local
\* Release under the record key, the uuid.
ProcessRedirectMessage(i, record) ==
  \/ /\ record.origin = <<i, life[i]>>
     /\ UNCHANGED tableVars
  \/ /\ record.origin # <<i, life[i]>>
     /\ record.tomb
     /\ lm' = [lm EXCEPT ![i] = ReleaseRef(@, Topic, record.lock)]
     /\ UNCHANGED <<known, stolen>>
  \/ /\ record.origin # <<i, life[i]>>
     /\ ~record.tomb
     /\ CountLock(i, record.lock)
     /\ UNCHANGED stolen

\* o is the next offset a reader at position from gets from partition p.
IsNext(p, from, o) == /\ o \in (from..Len(log[p])) \ gone[p]
                      /\ from..(o - 1) \subseteq gone[p]

-----------------------------------------------------------------------------
(* Start: snapshot the high water marks, replay the topic up to them with  *)
(* a consumer group of its own, then join the redirect group.              *)

HighWaterMarks == [p \in Partitions |-> Len(log[p])]

Start(i) ==
  /\ status[i] = "down"
  /\ status' = [status EXCEPT ![i] =
       IF \E p \in Partitions : HighWaterMarks[p] > 0 THEN "restoring" ELSE "up"]
  /\ target' = [target EXCEPT ![i] = HighWaterMarks]
  /\ restorePos' = [restorePos EXCEPT ![i] = [p \in Partitions |-> 1]]
  /\ UNCHANGED <<topicVars, groupVars, life, tableVars, op, used>>

\* The refill consumer may run past the snapshot before it is cancelled.
RestoreHandle(i) ==
  /\ status[i] = "restoring"
  /\ \E p \in Partitions : \E o \in 1..Len(log[p]) :
       /\ IsNext(p, restorePos[i][p], o)
       /\ ProcessRedirectMessage(i, log[p][o])
       /\ restorePos' = [restorePos EXCEPT ![i][p] = o + 1]
  /\ UNCHANGED <<topicVars, groupVars, target, processVars, op, used>>

\* Mutant: caught up one record before the snapshot's last.
FinishRestoreShort(i) ==
  /\ status[i] = "restoring"
  /\ \A p \in Partitions : restorePos[i][p] >= target[i][p]
  /\ status' = [status EXCEPT ![i] = "up"]
  /\ UNCHANGED <<topicVars, groupVars, restoreVars, life, tableVars, op, used>>

\* Mutant: the replay has to end exactly at the snapshot.
FinishRestoreAtMark(i) ==
  /\ status[i] = "restoring"
  /\ \A p \in Partitions : restorePos[i][p] = target[i][p] + 1
  /\ status' = [status EXCEPT ![i] = "up"]
  /\ UNCHANGED <<topicVars, groupVars, restoreVars, life, tableVars, op, used>>

\* The refill handler sees every partition at its mark and cancels the
\* refill consumer; Start launches the redirect consumer and returns nil.
FinishRestore(i) ==
  /\ status[i] = "restoring"
  /\ \A p \in Partitions : restorePos[i][p] > target[i][p]
  /\ status' = [status EXCEPT ![i] = "up"]
  /\ UNCHANGED <<topicVars, groupVars, restoreVars, life, tableVars, op, used>>

-----------------------------------------------------------------------------
(* Acquire and Release: the local table first, then up to Attempts tries   *)
(* to publish, and the table back if they fail.                            *)

Published(l, isTomb) ==
  log' = [log EXCEPT ![PartitionOf[l]] =
            Append(@, [lock |-> l, origin |-> <<op[l].at, life[op[l].at]>>,
                       tomb |-> isTomb])]

\* A failed attempt: the record may have reached the topic all the same.
\* Another attempt follows while some are left and the context lives.
FailedAttempt(l, isTomb, undo) ==
  /\ Spend("fault")
  /\ \/ Published(l, isTomb)
     \/ UNCHANGED log
  /\ \/ /\ op[l].tries + 1 < Attempts
        /\ op' = [op EXCEPT ![l].tries = @ + 1]
     \/ op' = [op EXCEPT ![l].pc = undo]

\* Acquire and Release have contexts of their own and never look at Start's.
Serving(i) == status[i] \in {"up", "detached"}

AcquireLocal(i, l) ==
  /\ Serving(i)
  /\ op[l].pc = "fresh"
  /\ CountLock(i, l)
  /\ op' = [op EXCEPT ![l] = At("acquiring", i, 0)]
  /\ UNCHANGED <<topicVars, groupVars, restoreVars, processVars, stolen, used>>

AcquireProduced(l) ==
  /\ op[l].pc = "acquiring"
  /\ Published(l, FALSE)
  /\ op' = [op EXCEPT ![l] = Rest("held")]
  /\ UNCHANGED <<gone, groupVars, restoreVars, processVars, tableVars, used>>

AcquireAttemptFails(l) ==
  /\ op[l].pc = "acquiring"
  /\ FailedAttempt(l, FALSE, "undoAcquire")
  /\ UNCHANGED <<gone, groupVars, restoreVars, processVars, tableVars>>

RollbackAcquire(l) ==
  /\ op[l].pc = "undoAcquire"
  /\ UncountLock(op[l].at, l)
  /\ op' = [op EXCEPT ![l] = Rest("failed")]
  /\ UNCHANGED <<topicVars, groupVars, restoreVars, processVars, stolen, used>>

\* Any instance may release a lock: the retry topic has a consumer group of
\* its own.  The message is handled again if its offset was not committed.
ReleaseLocal(i, l) ==
  /\ Serving(i)
  /\ \/ op[l].pc = "held" /\ UNCHANGED used
     \/ op[l].pc = "released" /\ Spend("redelivery")
  /\ UncountLock(i, l)
  /\ stolen' = [stolen EXCEPT ![i] = IF l \in known[i] THEN @ ELSE @ \cup {KeyOf[l]}]
  /\ op' = [op EXCEPT ![l] = At("releasing", i, 0)]
  /\ UNCHANGED <<topicVars, groupVars, restoreVars, processVars>>

ReleaseProduced(l) ==
  /\ op[l].pc = "releasing"
  /\ Published(l, TRUE)
  /\ op' = [op EXCEPT ![l] = Rest("released")]
  /\ UNCHANGED <<gone, groupVars, restoreVars, processVars, tableVars, used>>

ReleaseAttemptFails(l) ==
  /\ op[l].pc = "releasing"
  /\ FailedAttempt(l, TRUE, "undoRelease")
  /\ UNCHANGED <<gone, groupVars, restoreVars, processVars, tableVars>>

\* The error leaves the retry message unmarked: it is delivered again.
RollbackRelease(l) ==
  /\ op[l].pc = "undoRelease"
  /\ CountLock(op[l].at, l)
  /\ op' = [op EXCEPT ![l] = Rest("held")]
  /\ UNCHANGED <<topicVars, groupVars, restoreVars, processVars, stolen, used>>

-----------------------------------------------------------------------------
(* The background redirect consumer and its group.                         *)

Assign(i, p) ==
  /\ status[i] = "up"
  /\ owner[GroupOf[i]][p] = NoOne
  /\ owner' = [owner EXCEPT ![GroupOf[i]][p] = i]
  /\ UNCHANGED <<topicVars, committed, pos, restoreVars, processVars, tableVars, op, used>>

\* Mutant: the next owner starts at the end of the log.
DisownToEnd(g, lost) ==
  /\ owner' = [owner EXCEPT ![g] =
                 [p \in Partitions |-> IF p \in lost THEN NoOne ELSE @[p]]]
  /\ pos' = [pos EXCEPT ![g] =
               [p \in Partitions |-> IF p \in lost THEN Len(log[p]) + 1 ELSE @[p]]]
  /\ UNCHANGED committed

\* Handled offsets are marked and committed in the background.  How far that
\* got is seen only by the next owner of the partition, so it is chosen when
\* an owner loses the partition: anything handled may be uncommitted.
Disown(g, lost) ==
  \E c \in [lost -> UNION {committed[g][p]..pos[g][p] : p \in lost}] :
    /\ \A p \in lost : c[p] \in committed[g][p]..pos[g][p]
    /\ owner' = [owner EXCEPT ![g] =
                   [p \in Partitions |-> IF p \in lost THEN NoOne ELSE @[p]]]
    /\ committed' = [committed EXCEPT ![g] =
                       [p \in Partitions |-> IF p \in lost THEN c[p] ELSE @[p]]]
    /\ pos' = [pos EXCEPT ![g] =
                 [p \in Partitions |-> IF p \in lost THEN c[p] ELSE @[p]]]

Revoke(g, p) ==
  /\ owner[g][p] # NoOne
  /\ Spend("move")
  /\ Disown(g, {p})
  /\ UNCHANGED <<topicVars, restoreVars, processVars, tableVars, op>>

LiveHandle(i, p) ==
  /\ owner[GroupOf[i]][p] = i
  /\ \E o \in 1..Len(log[p]) :
       /\ IsNext(p, pos[GroupOf[i]][p], o)
       /\ ProcessRedirectMessage(i, log[p][o])
       /\ pos' = [pos EXCEPT ![GroupOf[i]][p] = o + 1]
  /\ UNCHANGED <<topicVars, committed, owner, restoreVars, processVars, op, used>>

\* The context given to Start ends: the redirect consumer returns and gives
\* up its partitions.  A restore under way is cut short, and since its error
\* is context.Canceled Start returns nil all the same, with the part of the
\* table it has.  Close ends the redirect consumer alone, if need be as soon
\* as a restore is done.
CancelStart(i) ==
  /\ status[i] \in {"restoring", "up"}
  /\ Spend("cancel")
  /\ status' = [status EXCEPT ![i] = "detached"]
  /\ Disown(GroupOf[i], {p \in Partitions : owner[GroupOf[i]][p] = i})
  /\ UNCHANGED <<topicVars, restoreVars, life, tableVars, op>>

-----------------------------------------------------------------------------
(* The environment.                                                        *)

\* The cleaner drops a record when a later one has its key, and a tombstone
\* once nothing older of its key is left; never the newest record.
Compact(p, o) ==
  /\ o \in (1..(Len(log[p]) - 1)) \ gone[p]
  /\ \/ \E later \in (o + 1)..Len(log[p]) : log[p][later].lock = log[p][o].lock
     \/ /\ log[p][o].tomb
        /\ \A older \in (1..(o - 1)) \ gone[p] : log[p][older].lock # log[p][o].lock
  /\ Spend("compaction")
  /\ gone' = [gone EXCEPT ![p] = @ \cup {o}]
  /\ UNCHANGED <<log, groupVars, restoreVars, processVars, tableVars, op>>

\* A process dies with its table.  The message of an acquisition under way
\* will be delivered again and get another uuid; that of a release under
\* way will be delivered again and released again.
AfterCrash(i, o) ==
  IF o.at # i THEN o
  ELSE Rest(IF o.pc \in {"acquiring", "undoAcquire"} THEN "failed" ELSE "held")

Crash(i) ==
  /\ status[i] # "down"
  /\ Spend("restart")
  /\ status' = [status EXCEPT ![i] = "down"]
  /\ life' = [life EXCEPT ![i] = @ + 1]
  /\ lm' = [lm EXCEPT ![i] = Nothing]
  /\ known' = [known EXCEPT ![i] = {}]
  /\ stolen' = [stolen EXCEPT ![i] = {}]
  /\ Disown(GroupOf[i], {p \in Partitions : owner[GroupOf[i]][p] = i})
  /\ op' = [l \in Locks |-> AfterCrash(i, op[l])]
  /\ UNCHANGED <<topicVars, restoreVars>>

-----------------------------------------------------------------------------

LockStep(l) ==
  \/ AcquireProduced(l) \/ AcquireAttemptFails(l) \/ RollbackAcquire(l)
  \/ ReleaseProduced(l) \/ ReleaseAttemptFails(l) \/ RollbackRelease(l)

Next ==
  \/ \E i \in Instances : Start(i) \/ RestoreHandle(i) \/ FinishRestore(i)
  \/ \E i \in Instances : CancelStart(i) \/ Crash(i)
  \/ \E i \in Instances, l \in Locks : AcquireLocal(i, l) \/ ReleaseLocal(i, l)
  \/ \E l \in Locks : LockStep(l)
  \/ \E i \in Instances, p \in Partitions : Assign(i, p) \/ LiveHandle(i, p)
  \/ \E g \in Groups, p \in Partitions : Revoke(g, p)
  \/ \E p \in Partitions : \E o \in 1..Len(log[p]) : Compact(p, o)

Spec == Init /\ [][Next]_vars

\* Consumers, partition assignment and pending operations keep running as
\* long as their process lives; disturbances are never forced.
Fairness ==
  /\ \A i \in Instances :
       /\ WF_vars(RestoreHandle(i))
       /\ WF_vars(FinishRestore(i))
       /\ \A p \in Partitions : WF_vars(Assign(i, p)) /\ WF_vars(LiveHandle(i, p))
  /\ \A l \in Locks : WF_vars(LockStep(l))

FairSpec == Spec /\ Fairness

-----------------------------------------------------------------------------
(* Properties *)

TypeOK ==
  /\ log \in [Partitions -> Seq(Records)]
  /\ gone \in [Partitions -> SUBSET Nat]
  /\ committed \in [Groups -> [Partitions -> Nat]]
  /\ owner \in [Groups -> [Partitions -> Instances \cup {NoOne}]]
  /\ pos \in [Groups -> [Partitions -> Nat]]
  /\ status \in [Instances -> {"down", "restoring", "up", "detached"}]
  /\ life \in [Instances -> Nat]
  /\ DOMAIN lm = Instances /\ \A i \in Instances : IsLockMap(lm[i], {Topic}, Keys)
  /\ restorePos \in [Instances -> [Partitions -> Nat]]
  /\ target \in [Instances -> [Partitions -> Nat]]
  /\ op \in [Locks -> [pc : Phases, at : Instances \cup {NoOne}, tries : Nat]]
  /\ known \in [Instances -> SUBSET Locks]
  /\ stolen \in [Instances -> SUBSET Keys]
  /\ used \in [Disturbances -> Nat]

KnownOf(i, k) == {l \in known[i] : KeyOf[l] = k}

\* A key is counted at least once for every lock an instance knows: whatever
\* the others do, whatever is replayed, consumed twice or rolled back, no
\* lock an instance has learnt of is given back except by its own release
\* (the reference count of coordinator_kafka.go:158-162).  The exception
\* are keys an instance released a lock of without counting it first.
KnownCounted ==
  \A i \in Instances : \A k \in Keys \ stolen[i] :
    Count(i, k) >= Cardinality(KnownOf(i, k))

\* A record of l that is a tombstone was written.
Tombstoned(l) == LET records == log[PartitionOf[l]] IN
  \E o \in 1..Len(records) : records[o].lock = l /\ records[o].tomb

\* Once Start has returned (coordinator_kafka.go:87-88) and its context has
\* not ended, the instance counts every lock recorded before the snapshot,
\* compacted or not, that nobody began to release.  A Start whose context is
\* cancelled returns nil with whatever was replayed (line 538): a detached
\* instance is promised nothing.
RestoredLocksKnown ==
  \A i \in Instances : status[i] = "up" =>
    \A p \in Partitions : \A o \in (1..target[i][p]) \ gone[p] :
      \/ log[p][o].tomb
      \/ log[p][o].lock \in known[i]
      \/ op[log[p][o].lock].at = i
      \/ Tombstoned(log[p][o].lock)

\* An instance that is alone and never restarts counts exactly the locks it
\* holds: its own records, read back or read twice, count nothing (the echo
\* filter of coordinator_kafka.go:603-608).
ExactCount ==
  \A i \in Instances : \A k \in Keys \ stolen[i] :
    Count(i, k) = Cardinality(KnownOf(i, k))

\* Everything in the topic was handled by the members of the group.
CaughtUp(g) ==
  \A p \in Partitions : /\ owner[g][p] # NoOne
                         /\ pos[g][p]..Len(log[p]) \subseteq gone[p]

Idle(l) == op[l].pc \in {"fresh", "failed", "released"}

\* When all locks of a key are released and the redirect topic is consumed,
\* the key is unlocked: a tombstone "signals all coordinators to remove the
\* lock" (coordinator_kafka.go:208-209).
DoneKeysUnlocked ==
  \A i \in Instances, k \in Keys :
    (/\ status[i] = "up"
     /\ CaughtUp(GroupOf[i])
     /\ \A l \in Locks : KeyOf[l] = k => Idle(l))
    => ~IsLocked(lm[i], Topic, k)

\* When the redirect topic is consumed, every running instance counts every
\* lock that is held: all instances of a consumer group see the same state
\* (README.md:105).  No offset is skipped by a restart, a replay, a move of
\* the partition or the cleaner.
HeldLocksSeen ==
  \A i \in Instances, l \in Locks :
    (/\ status[i] = "up"
     /\ CaughtUp(GroupOf[i])
     /\ op[l].pc = "held"
     /\ ~Tombstoned(l))
    => l \in known[i]

\* A lock that is held reaches every instance that stays up, and each
\* operation ends: the background consumer keeps the table synchronized
\* (coordinator_kafka.go:545-547).
LocksPropagate ==
  \A i \in Instances, l \in Locks :
    (op[l].pc = "held" /\ status[i] = "up")
      ~> (l \in known[i] \/ op[l].pc # "held" \/ status[i] # "up" \/ Tombstoned(l))

\* A restore reaches its snapshot and ends, although the others keep
\* writing and the cleaner drops records of the snapshot meanwhile, the one
\* at the mark included: it is not left to the safety timeout of
\* coordinator_kafka.go:510-515.
RestoresEnd ==
  \A i \in Instances : status[i] = "restoring" ~> status[i] # "restoring"
=============================================================================

# kafka-resilience in TLA+

A formal model of the library in `src/resilience` and of the parts of
`src/adapter/sarama` it relies on: what the lock tables of several application
processes say while messages travel from a primary topic through the retry
topic to success or to the dead letter queue. TLC checks the modules on small
instances; TLAPS proves the theorems in the `*Proofs` modules for every value
of the constants.

## The system

| Component | State | Operations | Interacts with |
|---|---|---|---|
| Local lock table (`coordinator_local.go`) | `lm`: topic → key → count | `Acquire`, `Release`, `IsLocked` | called by the Kafka coordinator under a mutex |
| Kafka coordinator (`coordinator_kafka.go`) | its local table, `instanceID`, `started`, `consumedOffsets`; the compacted redirect topic, shared | `Start` (replay the topic), `Acquire`, `Release`, the redirect consumer, `Synchronize`, `Close` | produces and consumes lock records and tombstones; called by the tracker |
| Message pipeline (`tracker.go`) | nothing of its own: message headers (`attempt`, `retry`, `id`, `topic`), the retry topic, the DLQ | `NewResilientHandler`, the retry worker's `Handle`, `Redirect`, `Free`, `SendToDLQ`, `handleMaxRetriesExceeded` | asks, takes and gives back locks; publishes; its errors decide what the consumer marks |
| Tracker lifecycle (`tracker.go`) | `startedTopics`, `cancels`, `wg`; of the coordinator `started`, `cancel`, `wg` | `Start`, `Close` | starts the coordinator, then the retry worker |
| Topic creation (`ensureTopicsExist`, `ensureRedirectTopic`) | none | describe, create | admin client |
| Synchronize (`coordinator_kafka.go`) | `consumedOffsets`, a condition variable, a goroutine per call | describe, compare, wait, give up | reads the high water marks; woken by the redirect consumer |
| Backoff and retry timing (`backoff.go`, `WaitForRetryTime`) | none | `NextDelay`, wait | header `next time` |
| Messages and headers (`message.go`, `adapter/sarama/message.go`) | header lists | get, set, copy, filter | all of the above |
| Configuration, options, metrics, logging | settings | `Validate` | |
| Sarama adapters | none | `ConsumeClaim`: mark after success, end the session on an error | client library |

What is hard about it: the local table is changed before the redirect topic is
written and put back if that fails; a failed produce may have written its
record all the same; a lock taken by one process is learnt by the others only
through the topic, and may be released by another process than the one that
took it; the restore races with writers and with the log cleaner; two consumers
of one process, main and retry, change one table in any order; the calls of
`Start` and `Close` overlap; `Synchronize` waits on a condition variable that is
also broadcast without its mutex, for offsets that only arrive with records; and
what a retry does next is decided by headers that went through several copies.

What makes the components correct:

* local table: independent counters, exact rollbacks, nothing left behind;
* Kafka coordinator: no lock an instance has learnt of is lost, no lock is
  missed by a restore, held locks reach everybody, released keys become free;
* pipeline: no message is lost, a key is locked as long as one of its messages
  waits, messages of a key are handled in order, everything ends;
* lifecycle: one worker per topic, no worker before the locks are restored,
  Close stops what was started and returns;
* Synchronize: nil means the records were seen, wake-ups are not lost, a call
  whose table is complete returns;
* messages: the headers of the user stay, attempts are the hops made, every lock
  is closed by the message it was taken for, nothing is retried early.

## The modules

```
LockMap ------------- LocalCoordinator ---- KeyCounters (abstract)
   |   \                     |                   |
   |    LockMapProofs -- LocalCoordinatorProofs  |
   |                  \                          |
KafkaCoordinator ---- KafkaCoordinatorProofs     RetryChain -------- RetryChainProofs
   |                     |                       |
   |                  KafkaRestoreProofs      MCRetryChain
MCKafkaCoordinator

TrackerLifecycle ---- TrackerLifecycleProofs     HeaderList    Backoff
   |                                                     \    /
MCTrackerLifecycle                                    RetryMessage ---- RetryMessageProofs
                                                           |
Synchronize --------- SynchronizeProofs              MCRetryMessage
   |
MCSynchronize
```

**LockMap** holds the operators of the Go type `lockMap`, named for its methods.
A Go map is a function on the keys present. `ReleaseRef` is the whole of what
`Release` does to the map, with the removal of keys and topics that became
empty.

**LocalCoordinator** is the table as a state machine. Every method runs under
one mutex, so `Acquire` and `Release` are atomic. A message is what the table
reads of it: topic, key, and the `topic` header or its absence.

**KeyCounters** is the abstract specification: one counter per topic and key.
`LocalCoordinator` implements it under the mapping that reads every count out
of the nested maps (`ImplementsCounters`). `RetryChain` uses `KeyCounters` as
its lock table, which is what that refinement is for.

**KafkaCoordinator** has one local table per instance around a shared redirect
topic, for one primary topic.

* A *lock* is one acquisition, named by its uuid. `op[l]` says how far its
  `Acquire` or `Release` got and on which instance: the local table
  (`AcquireLocal`, `ReleaseLocal`), up to `Attempts` tries to produce
  (`...Produced`, `...AttemptFails`), the table back (`Rollback...`).
* The topic is a sequence per partition, `log`, that only grows; `gone` are the
  offsets the cleaner removed. A record has its lock, its origin and whether it
  is a tombstone. The origin is an instance *and its life*, because
  `instanceID` is a new uuid in every process.
* `Start` takes the snapshot of the high water marks; `RestoreHandle` is one
  record handled by the refill consumer; `FinishRestore` is the return of
  `Start`. `Assign`, `LiveHandle` and `Revoke` are the redirect consumer in its
  group; `Crash` is the death of a process with its table. What was committed
  when a partition is lost is any position between the last committed and the
  handled one.
* `CancelStart` is the end of the context given to `Start`, on which the restore
  and the redirect consumer run. The instance is then `"detached"`: it serves
  `Acquire` and `Release`, which have contexts of their own (`Serving`), and
  reads no more records. If the restore was under way its error is
  `context.Canceled`, which `coordinator_kafka.go:538` takes for success, so
  `Start` returns nil with the part of the table it has. `Close` ends the context
  of the redirect consumer alone; that is the same step once the restore is done.
* `known` and `stolen` are auxiliary: which locks an instance counts, and of
  which keys it has released a lock it did not count.

**RetryChain** is the pipeline in one process: a main consumer and a retry
worker, each taking the records of one partition one by one, with the lock
table between them. Each produce call and each user handler is a step of its
own, so the two workers interleave at those points. A message is its offset in
the main partition, `KeyOf` gives its key. `attempt` stands for all the headers
a redirect writes: they are written together. `Mark` and `Redeliver` are the two
ends of a delivery in `ConsumeClaim`. Lock records of other processes are not in
this module.

**TrackerLifecycle** has calls of `Start`, each with its topic and its own
context, running side by side in the steps between which the code gives up the
mutex, the goroutines they launch, and one `Close`.

**Synchronize** is the barrier. Of the redirect topic it keeps offsets:
`applied[p]` are those whose records are in this instance's table, restored or
handled, `elsewhere[p]` those only other members of its group were given since
it started. A call describes the topic (`Describe`), compares (`Compare`) and
waits in a `select` (`Return`) beside its goroutine, which looks at the offsets,
parks and is woken (`Check`, `Park`, `WakeUp`). Between its look and its `Wait`
the goroutine holds the mutex, `Free` is the mutex being free, and the
broadcasts of a caller that gives up need neither. `Apply` and `Publish` are the
two halves of `redirectHandler.Handle`; `Revoke` and `Crash` put the position of
a partition back to anything not before the last committed one.

**HeaderList** holds the operators of the two header lists, **Backoff** the
strategies as functions on durations that wrap around. A loop over headers is the
function of the list after each of its turns (`Loop`), a power one of the
exponents (`Powers`); both are recursive functions. **RetryMessage** is one
message with its record: every handling is one step, in which the headers are
copied (`Copy`), extended by `Acquire` (`Acquired`) and written to the next topic
(`RetryHeaders`, `DLQHeaders`); the clock ticks between. It is the same pipeline
as RetryChain, seen from one message instead of from the workers: there
`attempt` stands for headers that always arrive as they were written, here that
is what is checked. An operator may send a record of the DLQ to the main topic
again. `hops`, `due`, `delay`, `first` and `left` are auxiliary.

Mutants are definitions with a plausible bug in them, kept beside the definition
they would replace; they are there to see that each property notices one.

## The runs

| Run | Question | Bounds |
|---|---|---|
| `MCLocalCoordinator` | Does the table keep independent, exact counters? | 2 topics, 2 keys, counts to 3; a header of the same or another topic, or none |
| `KafkaSolo` | Does one instance count exactly its locks? | 2 locks on 1 key, 2 partitions; 2 faults, 1 move, 1 redelivery, 1 compaction, 2 tries |
| `KafkaPairRestart` | Is no lock missed by a restart? | 2 instances with groups of their own, 2 locks on 1 key and partition; any two of 1 crash, 1 cancelled context, 1 compaction |
| `KafkaLive` | Does a held lock arrive, does a restore end? | 2 instances, 1 lock; any three of 1 fault, 1 crash, 1 move, 1 compaction |
| `RetryQuiet` | Are order and locks right when nothing fails but the handler? | 3 messages of 2 keys, 2 retries, freed on DLQ |
| `RetryFaulty` | Is no message lost or stuck when the broker fails? | 2 messages of 1 key, 2 retries, freed on DLQ; 2 faults, 1 redelivery, all answers of the handler |
| `LifecycleFaulty` | Do overlapping, failing starts and Close get along? | 3 calls for 2 topics, 2 failures |
| `SyncBarrier` | May a caller rely on nil, and is every waiter woken? | 2 calls, 1 partition, 2 records; 1 restart or lost partition |
| `RetryMessage` | Does a record carry what the next decision needs? | 1 message, with and without a repeated header; 0, 2 and 3 retries with constant, exponential, linear and overflowing backoff; 1 fault, 2 replays, 8 ticks of half a second |

Bounds. Two locks on one key are the smallest case in which reference counting
matters; one key more only adds independent counters, which the refinement of
the local table shows to be independent. Two instances show everything one
instance can do to another; a third would be another reader. One disturbance of
each kind is enough for it to fall between any two steps of the others, and
`Attempts` of 2 has a first and a last try (3 in the code). `Bound` says how
often each kind of disturbance may happen, `Kinds` how many kinds of them may
meet in one behaviour: all pairs in `KafkaPairRestart`, all triples in
`KafkaLive`, all four that `KafkaSolo` has. `KafkaPairRestart` has no failing
broker because that with two locks and a restart is out of reach; `KafkaLive` has
it on one lock. (With a fault and a move in the bounds of `KafkaPairRestart`, and
no restart, `KnownCounted` and `HeldLocksSeen` hold on two locks as well.) In `RetryChain` two messages
of one key already overtake each other; a third one of another key runs beside
them; with two retries one of them may fail again and go behind the other, and
come to the DLQ, whose release `RetryFaulty` lets fail. In `Synchronize` two
calls are enough for one to give up, and broadcast, between any two steps of the other's goroutine; partitions are compared one by
one. Two records let the second be the one that wakes, and one be delivered
twice. In `RetryMessage` a duration has 4 bits (64 in the code), so that the
second delay of one setting wraps around, and two replays let the headers of two
lives meet. Deadlock is not checked where the model stops by design: when all locks,
messages, calls or disturbances are used up.

What the runs show. On one instance the count of a key is exact, through retries
of a produce, double records, double deliveries and its own records read back:
the echo filter is what makes it so. On two, a lock an instance has learnt of is
never lost, a restore that runs to its end misses none and does end, and every
held lock is learnt by everybody who has consumed the topic. No message of the
pipeline is ever lost, both consumers get to the end of what they read, a message
is passed by a later one of its key only when its retry failed again, and keys
are locked just as long as they should be. A nil of `Synchronize` before its deadline means
what it says, and the broadcasts without the mutex cost no goroutine the wake-up
its offsets come with. A record carries through retries, the DLQ and a replay
what the next decision needs: its user headers, its own lock, as many attempts
as hops, the time of its first failure; it is retried at most a second early,
and backoffs do not shrink as long as they do not overflow.

The fairness. `KafkaLive`: consumers go on with records there are, a restore
that is at its marks returns, partitions without owner are assigned, and an
operation under way takes its next step; all of these are calls under way, or loops of the code or of the client library that restart after an
error (`startRedirectConsumer`, `ConsumerAdapter.Consume`). No fault, crash,
move, cleaning or release is ever forced. `RetryFaulty`: each worker takes a step
if it has one; how the handler answers is open. `LifecycleFaulty`: calls under way,
goroutines whose context is cancelled, and Close go on; nobody has to call
anything, and the deadline of Close is not counted on. `SyncBarrier`: partitions
find an owner, and the redirect consumer, the goroutines and the callers' selects
run on; deadlines and contexts need never end, and no record need be written. A
goroutine that contends for the mutex gets it in the end: Go's mutexes are fair.

### Disagreements between the code and what it says

Three runs are expected to violate a property that the repository states:

* `KafkaForeignTombstone` — a tombstone is handed to the local `Release` with
  the record key, a uuid, instead of the key header
  (`coordinator_kafka.go:648`). Other instances never unlock the key.
* `LifecycleRepeated` — `started` is set before the restore and never reset
  (`coordinator_kafka.go:97`): a `Start` repeated after a failure succeeds
  without restored locks and without a redirect consumer.
* `SyncRestart` — `consumedOffsets` is filled by records that are handled, not by
  the restore or by committed positions (`coordinator_kafka.go:385`). An instance
  that starts again when its group has read the topic to the end is given no
  record: its table is complete, and every `Synchronize` fails at its deadline
  until somebody writes to every partition that is not empty.

The models show more of the kind, each with a small change of a configuration:

* With two retries or more, as in `RetryQuiet` and with the default of 5, a
  message that fails again goes to the end of the retry topic, behind the later
  messages of its key (`tracker.go:527`), and these are handled first, against
  README.md:99. This is the exception `Overtakes` in `OvertakenOnlyByRetry`;
  without it the invariant fails.
* A `Start` whose context is cancelled during the restore returns nil with part
  of the table (`coordinator_kafka.go:538`), against `coordinator_kafka.go:87-88`,
  and its redirect consumer stops at once. `RestoredLocksKnown` speaks of
  instances that are `"up"`; asked of those that are `"detached"` it fails in
  `KafkaPairRestart`.
* An `Acquire` whose last try reports an error although its record reached the
  topic is rolled back here (`coordinator_kafka.go:195`), and nobody writes a
  tombstone: the others, and this instance after a restart, keep the key locked,
  a "zombie key" such as `tracker.go:427` wants to prevent. `DoneKeysUnlocked`
  fails for two instances with one fault, also where no lock is ever released.
* With `MaxRetries = 0` and `FreeOnDLQ` (`RetryFaulty` so changed), `Release`
  refuses the message that was never acquired, and the main consumer sends it to
  the DLQ again and again (`tracker.go:734`): `MainDrains` fails, although
  config_test.go:239 calls the setting valid. In `RetryMessage` it is the last
  case of `Exhaust`, which leaves the record where it is.
* Instances with one `GroupID` (`GroupOf <- SharedGroup`, one group) divide the
  redirect partitions between them: `HeldLocksSeen` fails, against README.md:105.
* With a `GroupID` per instance, as config.go:27 asks, the retry groups
  (`tracker.go:278`) are one per instance too: each of them handles every retry
  message and releases its lock. `KafkaCoordinator` has one release of a lock, by
  any instance, and any instance may release again with a redelivery; `RetryChain`
  is one process with its own table.
* After a restart, the records between the committed position of the redirect
  group and the snapshot are counted twice: `ExactCount` fails in `KafkaSolo`
  with a restart.
* An instance that releases a lock before it has read its record gives back the
  count of another lock of the key. This is the exception `stolen` in
  `KnownCounted`; without it the invariant fails for two instances.
* With one fault or one second delivery, `PendingLocked` fails: the rollback at
  `tracker.go:538` unlocks a key whose message is in the retry topic after all,
  or is delivered from it again, and a retry message that was freed and comes
  again takes down the count of another message (`tracker.go:355`).
* With `"reject"` among the outcomes, `DrainedUnlocked` fails: the shortcut at
  `tracker.go:469` never releases the lock of a retry message.
* With `FreeOnDLQ = FALSE` later messages of the locked key are redirected and
  then handled by the retry worker, which asks no lock, although
  `tracker.go:705-706` says they are prevented from processing until manual
  intervention and `config.go:60` that the ordering is preserved. `RetryFaulty`
  so changed passes, and reaches states in which the first message is in the DLQ,
  the second one is handled and their key is still locked.
* For a second topic the coordinator's `Start` does nothing
  (`TopicOf <- ThreeForTwo`): `WorkerAfterRestore` fails.
* A `Start` that fails in `startRetryWorker` leaves the wait group counted and
  the topic registered. This is the exception `abandoned` in `CloseEnds`.
* A wake-up after the deadline closes the channel whatever the offsets say
  (`coordinator_kafka.go:340`), and the `select` may then return nil. This is the
  exception `expired` in `NilMeansApplied`.
* With a shared `GroupID` the partitions of other members never get an entry in
  `consumedOffsets`, so calls wait for their deadline; and a partition that moves
  here after a mate consumed half of it makes `Synchronize` speak for records
  this table never saw. These are `elsewhere` in `NilMeansApplied` and the mates
  in `Synced`.
* A goroutine whose caller gave up on a dead context may miss that broadcast and
  park: it stays until the next redirect record. `WakeUpsArrive` therefore asks
  only for goroutines whose offsets are reached.
* The next retry time is written in whole seconds (`message.go:348`), against
  README.md:109; a delay below a second, such as the 500ms of README.md:216, may
  vanish. `NeverEarly` grants that second.
* A linear backoff may overflow into a negative delay, which passes the cap
  (`backoff.go:137`), and the message is retried at once. This is `NoOverflow` in
  `BackoffGrows`.
* Of a header that is repeated only the last value outlives the first hop,
  while reading the record itself gives the first (`message.go:125-128`; the
  comment at tracker.go:568-569 says user headers are preserved).
* A message rejected with `NotRetriableError`, or given up without `FreeOnDLQ`,
  leaves its lock behind; after a replay from the DLQ its key is still locked.
  This is `left` in `LocksSettled`.

## The proofs

`LockMapProofs` has the lemmas about the map: what `IncrementRef` and
`ReleaseRef` do to every count, and that they keep maps well formed and free of
empty entries. Both coordinators' proofs cite them by name.

`LocalCoordinatorProofs`: `TypeCorrect`, `ResidueFree`, `AcquireRollback`,
`ReleaseRollback` and `Refinement`. The invariant is well-formedness together
with cleanness; the rollbacks are equalities of maps and need both, since a
`Release` that leaves an empty topic behind does not undo the `Acquire` that
created it.

`KafkaCoordinatorProofs`: `TypeCorrect`, `KnownStayCounted` and
`KnownKeysStayLocked`. `KnownCounted` is not inductive. A rollback takes back
the count of the lock it belongs to, so that lock has to be known where its
`Acquire` runs (`AcquirerKnows`), and that instance has to exist (`OpsRun`, part
of `Base`). The invariant is `CountedInv == Base /\ KnownCounted /\
AcquirerKnows`; the step lemma has one case per action and uses that a count
changes by one when a finite set of known locks changes by one element. The
assumptions are those of `KafkaAssumption`: finitely many locks, keys apart from
uuids, functions on the right domains. The last one is the only property of
uuids used: a uuid is not a message key, so a foreign tombstone releases nothing.

`KafkaRestoreProofs`: `RestoreComplete`. `RestoredLocksKnown` speaks of
instances that are up; the invariant `RestoreInv` says the same of one that is
replaying, as far as the refill consumer got (`LearntSoFar`), and that an
instance is up only past its snapshot (`Replayed`). One whose context was
cancelled is `"detached"` and none of this is said of it. Three facts about the topic
carry it. The echo filter skips no record of the snapshot, because an instance
that is not up has written nothing in its present life (`OriginsPast`: a restart
draws a new `instanceID`). A rolled back `Acquire` takes no replayed lock away,
because its lock is younger than the snapshot (`NewAfterSnapshot`, which rests
on `FreshUnrecorded`: a new uuid is nowhere in the topic). And records are only
appended (`Appended`, `TargetsPast`). `OperationStep` covers the six steps of
`Acquire` and `Release`, `SameRestore` those that touch neither the replay nor
an operation.

The other four theorems of `KafkaRestoreProofs` say when the local table may be
taken for the truth, and under conditions, because in general it may not: a
restart counts a lock twice, and a group that is shared divides the partitions of
the topic among its members (both are runs that end in a violation).

`OwnRecordsCountNothing` says that an instance counts exactly its locks as long
as only its present life has written to the topic (`OnlyOwn`): what it reads
back, in a replay or in the background, however often, counts nothing.
`KnownCounted` bounds the counts from below; here `NoExcess` bounds them from
above, and `OwnKnown` says that what such an instance counts it acquired itself
and did not release, so that no count is left over for a lock that came to its
end. `LoneIsExact` and `LoneUnlocksDone` carry this to `ExactCount` and
`DoneKeysUnlocked` for a single instance without restarts (`Lone`), which is what
`KafkaSolo` checks: there every record is its own, because there is no other
instance and no other life (`FirstLives`).

`HeldAreSeen` proves `HeldLocksSeen` where every instance has a group of its own
(`GroupsApart`). A lock that is held has a record the cleaner can never drop,
because nothing newer replaces it (`Recorded`). What the group is past, its
member has seen, handled or replayed; a position that is put back only makes it
see records twice (`Caught`, and `Behind` for an instance that is restoring,
whose group stays within the snapshot). Its own records, which it skips, it
counted when it wrote them (`OwnSeen`). `Places` says that positions and the
cleaner stay inside the log and that owners are up; `Grounds` is `RestoreInv`
with `CountedInv`. An acquisition that failed may have left a record nobody has
to count, so a lock is seen when it is learnt or failed (`SeenLock`).

`TrackerLifecycleProofs`: `LifecycleTypeCorrect` and `LifecycleOneWorker`.
`OneWorkerPerTopic` alone does not say why a second call cannot start a worker:
`Named` does, a call under way and not cancelled is the one its topic's entry in
`cancels` belongs to. It survives the clean-up of a failed `Start`, which deletes
the topic's entry whoever owns it, because of `CancelledBy`: before `Close` only
a failed call is cancelled, and after it the map is empty for good. `WaitGroup`
equates the counter with the number of calls counted and not done, so that
`wg \in Nat` is a theorem and not an assumption. The only assumption is
`LifecycleAssumption`.

`RetryChainProofs`: `ChainTypeCorrect` and `NoMessageLost`. `NothingLost` says
nothing of the deliveries under way, so the invariant adds the cursors: a busy
worker holds the message at its offset (`MainCursor`, `RetryCursor`, `InRange`),
and it releases a lock only for a message that came to an end
(`FreedResolved`). Every step of a busy worker either stays at its offset or
finishes with a mark or without one; `GotoInv` and `FinishInv` prove the
invariant for the two kinds, and the lemmas per group of actions show which kind
a step is and that a marked message is `Covered`. The only assumption is
`ChainAssumption`.

`PendingStaysLocked` and `DrainedIsUnlocked` prove `PendingLocked` and
`DrainedUnlocked` while no call has failed and no delivery was repeated
(`Undisturbed`): a failed publication releases the lock of a message that stays
in the retry topic, which is one of the disagreements above. The invariant
`CountInv` counts what is owed: a key is counted at least once for every message
of it that waits in the retry topic or that the main worker has locked and not
yet published, less the one the retry worker has released and not yet marked
(`LocksCounted`, `Owed`), and exactly that often where every end of a message
frees its lock (`AlwaysFreed`). It needs to know that the retry topic holds only
records of the retry chain (`LogRetries`) and which worker takes locks and which
gives them back (`Courses`).

`OrderStaysKept` proves `OvertakenOnlyByRetry`, undisturbed and for every
`MaxRetries`: a message redirected a second time may be overtaken, which is
another of the disagreements, and it is the only way to be overtaken. What the
main worker published is in the order of the main topic (`FirstsSorted`), a
record of a further attempt comes after the first one of its message
(`FirstsFirst`), and everything in the retry topic is behind the main consumer's
offset (`Behind`). So when the retry worker is at a message, an earlier one of
its key is settled, or only later records of it are left and these were put
behind (`Passed`). The main worker gives the handler a message only when the
earlier ones of its key are settled (`Turn`), for otherwise the key would be
locked: the order rests on `LocksCounted`.

`SynchronizeProofs`: `SyncTypeCorrect` and `SyncNilMeansApplied`. A nil rests on
an offset in `consumedOffsets`, and the offset on all records before it. So the
invariant says that everything before an entry was seen (`Offsets`), as was
everything before the position of a partition (`Behind`), which is how the entry
came about: the record being handled is at the position and in the table
(`Handled`), and only while the instance runs (`Mine`). A record delivered twice
takes an entry back, which harms nobody, since a smaller offset speaks for less.
A call that was content stays so because the table only grows (`TableKeeps`), and
its goroutine cannot have closed the channel before the call began to wait
(`Fresh`). The restart is the one step at which the table shrinks; `Down` says
that nobody is left who relied on it, but for calls that asked for nothing. The
only assumption is `SynchronizeAssumption`.

`RetryMessageProofs`: `RecordTypeCorrect`, `UserHeadersStay`, `LocksAreSettled`,
`AttemptsAreCounted` and `FirstFailureStays` for the invariants, `NotEarly` and
`BackoffsGrow` for the action properties, for header lists of any length, any
settings in `Strategies` and durations of any width. It has three layers.

* *Lists and delays.* What a loop over headers or a power is for every length or
  exponent is proved by the least counterexample (`Smallest`): the least turn
  at which no function satisfies the equations (`LoopExists`, `PowersExist`), or
  at which its value is not what it should be (`LoopFills`, `PowerSteps`). This
  gives `FromMessageIs`, `WithoutIs` and `SetAllIs`: which names are on the list
  returned, once each, and with which value. `DelayIsCapped` says that no delay
  exceeds its cap, even where the linear sum wraps around, `DelayGrows` that
  without overflow a delay is not shorter than the one before, for all three
  strategies;
  `LinearIsCapped` and `LinearGrows` are the linear case. Of the division in the
  exponential delay only that it is rounded down is used (`Quotient`).
* *Operations.* `CopyIs`, `AcquiredIs`, `RetryHeadersIs`, `ReportIs` and
  `DLQHeadersIs` say of every name what the record an operation writes has for
  it; `CopyMeets`, `AcquiredMeets`, `RedirectedMeets` and `ReportedMeets` carry
  what is required of records through them.
* *Steps.* The invariant is `RecordInv`. `Headed` says what the headers of the
  message hold in each topic: on the main topic no attempt, time or lock, also
  after a replay (`Outside`); on the retry topic those written last, each name
  once (`Inside`); on both the headers of the user and the time of the first
  failure (`Timed`). `Reported` says of the records of
  the DLQ that they may be replayed into it, which makes `Headed` inductive.
  `Counted` says that uuids in use are older than the next one, and, while nothing
  has failed, that the lock of a record in the retry topic is open and each is
  counted once; `LocksSettled` follows from it and is not inductive alone, since
  it says nothing of which lock a record is carrying.

`NotEarly` uses that the time on the record is `due` rounded down to seconds
(`SecondsAre`, `RipeWaited`), `BackoffsGrow` that the delay of the record is that
of its hops (`Headed`) and `DelayGrows`. The assumptions are
`RetryMessageAssumption` and `BackoffAssumption`.

So every invariant of the passing runs is a theorem, as are the action
properties and the refinement; where a theorem has a condition that the
invariant itself has not, the configuration of its run satisfies it. Only
model-checked is what needs fairness, which the provers cannot reason about:
`LocksPropagate`, `RestoresEnd`, `MainDrains`, `RetryDrains`,
`EverythingStops`, `CloseEnds` and `WakeUpsArrive`.

## Not modelled

Partition counts and topic settings (the two functions that create topics differ
where the primary topic has no metadata: `coordinator_kafka.go:447` asks for no
partitions, `tracker.go:228` fails); topics the broker reports with an error,
which `DescribeTopics` leaves out (`admin.go:79`); user headers named `id`,
`topic`, `retry` or `key`, which the library takes for its own; header values
that cannot be parsed; redirect records nobody of this library wrote; a `Start`
that returns an error, at its deadline for one, but for what the lifecycle makes
of it; `InitialOffset` (`config.go:34`), which nothing in the library reads: a
group without committed positions begins where the client is configured to, and
in the models with the oldest record, the default of that setting; the error
channel; validation of the configuration; metrics and logging; the adapters'
calls to the client library; the examples; retention of the retry topic (one
hour, `tracker.go:245`).

## Plan

Done, in this order: the lock table with its refinement and proofs; the Kafka
coordinator with its type, counting and restore invariants, the exact counts and
what an instance has seen proved; the pipeline with `NothingLost`, the locks of
pending messages and the order of a key proved; the lifecycle with its worker
invariant proved; the barrier with the meaning of nil proved; headers and backoff
with the life of one message, and all its properties proved.

Open:

1. Composition of `Synchronize` with the hand-over of a main partition between
   two instances. Abstract specification: a message is delivered to the handler
   only if no lock of its key was held when the barrier was taken.
2. Abstract specifications of `RetryChain` (a key is handled by one message after
   the other) and of `RetryMessage` (attempts as a counter, as `RetryChain` has
   them), with the refinement proved from `RetryChainProofs` and
   `RetryMessageProofs`.

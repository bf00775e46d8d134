----------------------------- MODULE Synchronize -----------------------------
(***************************************************************************)
(* KafkaStateCoordinator.Synchronize (coordinator_kafka.go), the barrier   *)
(* an application calls before it consumes newly assigned main partitions: *)
(* calls of it on one instance, the goroutine each leaves on the condition *)
(* variable, and the redirect consumer they wait for.                      *)
(*                                                                         *)
(* Of the redirect topic only offsets matter, from 0 as in Kafka.  The     *)
(* instance restarts, and shares its consumer group with other members,    *)
(* the mates.  What a restore reads is KafkaCoordinator's; here it is one  *)
(* step.                                                                   *)
(***************************************************************************)
EXTENDS Integers

CONSTANTS
  Calls,         \* calls of Synchronize
  Partitions,    \* of the redirect topic
  MaxRecords,    \* bound on the records of a partition
  MaxFaults      \* bound on partitions taken away and deaths of the instance

ASSUME SynchronizeAssumption ==
  /\ MaxRecords \in Nat
  /\ MaxFaults \in Nat

VARIABLES
  log,               \* next offset to be written, the high water mark
  owner, pos, committed,  \* of each partition in the redirect group
  up,                \* the instance runs and has restored its table
  applied,           \* offsets whose records are in its lock table
  elsewhere,         \* offsets only mates were given since it started
  handling,          \* partitions with a record in the table, not published
  consumed,          \* consumedOffsets
  pc, target,        \* of a call: progress, and the marks it waits for
  waiter,            \* the goroutine of a call
  done,              \* calls whose channel is closed
  expired, cancelled,  \* calls past their deadline, with a dead context
  faults

groupVars  == <<owner, pos, committed, faults>>
tableVars  == <<up, applied, elsewhere>>
offsetVars == <<handling, consumed>>
callVars   == <<pc, target, expired, cancelled>>
waitVars   == <<waiter, done>>
vars == <<log, groupVars, tableVars, offsetVars, callVars, waitVars>>

PCs     == {"new", "compare", "waiting", "nil", "timeout", "cancelled"}
Waiters == {"none", "check", "parking", "parked", "woken", "gone"}

Init ==
  /\ log = [p \in Partitions |-> 0]
  /\ owner = [p \in Partitions |-> "none"]
  /\ pos = [p \in Partitions |-> 0]
  /\ committed = [p \in Partitions |-> 0]
  /\ faults = 0
  /\ up = FALSE
  /\ applied = [p \in Partitions |-> {}]
  /\ elsewhere = [p \in Partitions |-> {}]
  /\ handling = {}
  /\ consumed = << >>
  /\ pc = [c \in Calls |-> "new"]
  /\ target = [c \in Calls |-> log]
  /\ expired = {}
  /\ cancelled = {}
  /\ waiter = [c \in Calls |-> "none"]
  /\ done = {}

Goto(c, label) == pc' = [pc EXCEPT ![c] = label]

\* The mutex.  A waiter holds it from its look at the offsets until Wait has
\* put it on the condition variable; every other holder is one step here.
Free == \A c \in Calls : waiter[c] # "parking"

Broadcast == waiter' = [c \in Calls |->
                          IF waiter[c] = "parked" THEN "woken" ELSE waiter[c]]

\* Mutant: a partition without an entry counts as consumed up to 0, the
\* zero value of the map.
CaughtUpByDefault(c) ==
  \A p \in Partitions : \/ target[c][p] <= 1
                        \/ p \in DOMAIN consumed /\ consumed[p] >= target[c][p] - 1

\* isCaughtUp.
CaughtUp(c) ==
  \A p \in Partitions : \/ target[c][p] = 0
                        \/ p \in DOMAIN consumed /\ consumed[p] >= target[c][p] - 1

-----------------------------------------------------------------------------
(* The topic, the process and the redirect group.                          *)

Write(p) ==
  /\ log[p] < MaxRecords
  /\ log' = [log EXCEPT ![p] = @ + 1]
  /\ UNCHANGED <<groupVars, tableVars, offsetVars, callVars, waitVars>>

\* The table is restored from the topic; consumedOffsets stays empty.
Start ==
  /\ ~up
  /\ up' = TRUE
  /\ applied' = [p \in Partitions |-> 0..(log[p] - 1)]
  /\ elsewhere' = [p \in Partitions |-> {}]
  /\ UNCHANGED <<log, groupVars, offsetVars, callVars, waitVars>>

\* A partition without owner is given to this instance or to a mate.
Assign(p) ==
  /\ owner[p] = "none"
  /\ \E member \in {"mate"} \cup IF up THEN {"me"} ELSE {} :
       owner' = [owner EXCEPT ![p] = member]
  /\ UNCHANGED <<log, pos, committed, faults, tableVars, offsetVars, callVars, waitVars>>

\* Mutant: the end of the partition is not noticed.
ApplyPastEnd(p) ==
  /\ owner[p] = "me"
  /\ p \notin handling
  /\ pos[p] <= log[p]
  /\ applied' = [applied EXCEPT ![p] = @ \cup {pos[p]}]
  /\ handling' = handling \cup {p}
  /\ UNCHANGED <<log, groupVars, up, elsewhere, consumed, callVars, waitVars>>

\* The first half of redirectHandler.Handle: processRedirectMessage.
Apply(p) ==
  /\ owner[p] = "me"
  /\ p \notin handling
  /\ pos[p] < log[p]
  /\ applied' = [applied EXCEPT ![p] = @ \cup {pos[p]}]
  /\ handling' = handling \cup {p}
  /\ UNCHANGED <<log, groupVars, up, elsewhere, consumed, callVars, waitVars>>

\* Mutant: nobody is woken.
PublishSilently(p) ==
  /\ p \in handling
  /\ Free
  /\ consumed' = [q \in DOMAIN consumed \cup {p} |->
                    IF q = p THEN pos[p] ELSE consumed[q]]
  /\ handling' = handling \ {p}
  /\ pos' = [pos EXCEPT ![p] = @ + 1]
  /\ UNCHANGED <<log, owner, committed, faults, tableVars, callVars, waitVars>>

\* The second half, under the mutex.  The offset of a record that is
\* delivered again takes the entry back.
Publish(p) ==
  /\ p \in handling
  /\ Free
  /\ consumed' = [q \in DOMAIN consumed \cup {p} |->
                    IF q = p THEN pos[p] ELSE consumed[q]]
  /\ Broadcast
  /\ handling' = handling \ {p}
  /\ pos' = [pos EXCEPT ![p] = @ + 1]
  /\ UNCHANGED <<log, owner, committed, faults, tableVars, callVars, done>>

\* A rebalance waits for the handler to return.  Anything handled may turn
\* out not to be committed.
Revoke(p) ==
  /\ owner[p] # "none"
  /\ p \notin handling
  /\ faults < MaxFaults
  /\ faults' = faults + 1
  /\ owner' = [owner EXCEPT ![p] = "none"]
  /\ \E o \in committed[p]..pos[p] : /\ committed' = [committed EXCEPT ![p] = o]
                                    /\ pos' = [pos EXCEPT ![p] = o]
  /\ UNCHANGED <<log, tableVars, offsetVars, callVars, waitVars>>

MateHandles(p) ==
  /\ owner[p] = "mate"
  /\ pos[p] < log[p]
  /\ pos' = [pos EXCEPT ![p] = @ + 1]
  /\ elsewhere' = [elsewhere EXCEPT ![p] = @ \cup {pos[p]}]
  /\ UNCHANGED <<log, owner, committed, faults, up, applied,
                 offsetVars, callVars, waitVars>>

\* The process dies with its table, its offsets and the calls under way.  The
\* next life may make them again.
Crash ==
  /\ up
  /\ faults < MaxFaults
  /\ faults' = faults + 1
  /\ up' = FALSE
  /\ applied' = [p \in Partitions |-> {}]
  /\ owner' = [p \in Partitions |-> IF owner[p] = "me" THEN "none" ELSE owner[p]]
  /\ \E kept \in [Partitions -> 0..MaxRecords] :
       LET At(was) == [p \in Partitions |-> IF owner[p] = "me" THEN kept[p] ELSE was[p]]
       IN  /\ \A p \in Partitions :
                IF owner[p] = "me" THEN kept[p] \in committed[p]..pos[p] ELSE kept[p] = 0
           /\ pos' = At(pos)
           /\ committed' = At(committed)
  /\ handling' = {}
  /\ consumed' = << >>
  /\ pc' = [c \in Calls |-> "new"]
  /\ target' = [c \in Calls |-> [p \in Partitions |-> 0]]
  /\ waiter' = [c \in Calls |-> "none"]
  /\ done' = {} /\ expired' = {} /\ cancelled' = {}
  /\ UNCHANGED <<log, elsewhere>>

-----------------------------------------------------------------------------
(* A call: describe the topic, compare, and wait.                          *)

\* Start may still be restoring the table.  A call that ends before it has
\* targets changes nothing and is no step: the coordinator was never started,
\* the broker cannot be asked (an error), or it has no metadata, which
\* DescribeTopics also makes of an error of the topic (nil).
Describe(c) ==
  /\ pc[c] = "new"
  /\ target' = [target EXCEPT ![c] = log]
  /\ Goto(c, "compare")
  /\ UNCHANGED <<log, groupVars, tableVars, offsetVars, expired, cancelled, waitVars>>

Compare(c) ==
  /\ pc[c] = "compare"
  /\ Free
  /\ IF CaughtUp(c)
     THEN Goto(c, "nil") /\ UNCHANGED waiter
     ELSE Goto(c, "waiting") /\ waiter' = [waiter EXCEPT ![c] = "check"]
  /\ UNCHANGED <<log, groupVars, tableVars, offsetVars, target, expired,
                 cancelled, done>>

\* The timer of the call fires, or its context ends.
Interrupt(c) ==
  /\ pc[c] = "waiting"
  /\ \/ expired' = expired \cup {c} /\ UNCHANGED cancelled
     \/ cancelled' = cancelled \cup {c} /\ UNCHANGED expired
  /\ UNCHANGED <<log, groupVars, tableVars, offsetVars, pc, target, waitVars>>

\* The select of the caller, which takes any case that is ready.  The two
\* that give up broadcast without the mutex.
ReturnNil(c) ==
  /\ pc[c] = "waiting"
  /\ c \in done
  /\ Goto(c, "nil")
  /\ UNCHANGED <<log, groupVars, tableVars, offsetVars, target, expired,
                 cancelled, waitVars>>

GiveUp(c, ready, label) ==
  /\ pc[c] = "waiting"
  /\ c \in ready
  /\ Goto(c, label)
  /\ Broadcast
  /\ UNCHANGED <<log, groupVars, tableVars, offsetVars, target, expired,
                 cancelled, done>>

Return(c) == \/ ReturnNil(c)
             \/ GiveUp(c, expired, "timeout")
             \/ GiveUp(c, cancelled, "cancelled")

-----------------------------------------------------------------------------
(* The goroutine of a call, under the mutex.                               *)

\* The loop head: caught up, a dead context, or Wait.
Look(c) ==
  /\ done' = IF CaughtUp(c) THEN done \cup {c} ELSE done
  /\ waiter' = [waiter EXCEPT ![c] =
       IF CaughtUp(c) \/ c \in cancelled THEN "gone" ELSE "parking"]

Check(c) ==
  /\ waiter[c] = "check"
  /\ Free
  /\ Look(c)
  /\ UNCHANGED <<log, groupVars, tableVars, offsetVars, callVars>>

Park(c) ==
  /\ waiter[c] = "parking"
  /\ waiter' = [waiter EXCEPT ![c] = "parked"]
  /\ UNCHANGED <<log, groupVars, tableVars, offsetVars, callVars, done>>

\* After the deadline the channel is closed whatever the offsets say.
WakeUp(c) ==
  /\ waiter[c] = "woken"
  /\ Free
  /\ IF c \in expired
     THEN done' = done \cup {c} /\ waiter' = [waiter EXCEPT ![c] = "gone"]
     ELSE Look(c)
  /\ UNCHANGED <<log, groupVars, tableVars, offsetVars, callVars>>

-----------------------------------------------------------------------------

CallStep(c)   == Describe(c) \/ Compare(c)
WaiterStep(c) == Check(c) \/ Park(c) \/ WakeUp(c)
ConsumeStep(p) == Apply(p) \/ Publish(p)
GroupStep(p)  == Write(p) \/ Assign(p) \/ Revoke(p) \/ MateHandles(p)

Next ==
  \/ Start \/ Crash
  \/ \E p \in Partitions : GroupStep(p) \/ ConsumeStep(p)
  \/ \E c \in Calls : CallStep(c) \/ Interrupt(c) \/ Return(c) \/ WaiterStep(c)

Spec == Init /\ [][Next]_vars

\* Partitions find an owner, the redirect consumer, the goroutines and the
\* callers run on.  The deadline need not pass: what has to happen happens
\* without it.
FairSpec ==
  /\ Spec
  /\ \A p \in Partitions : /\ WF_vars(Assign(p))
                            /\ WF_vars(ConsumeStep(p))
  /\ \A c \in Calls : /\ WF_vars(Compare(c))
                      /\ WF_vars(WaiterStep(c))
                      /\ WF_vars(Return(c))

-----------------------------------------------------------------------------
(* Properties *)

TypeOK ==
  /\ log \in [Partitions -> Nat]
  /\ owner \in [Partitions -> {"none", "me", "mate"}]
  /\ pos \in [Partitions -> Nat] /\ committed \in [Partitions -> Nat]
  /\ \A p \in Partitions : committed[p] <= pos[p] /\ pos[p] <= log[p]
  /\ faults \in Nat
  /\ up \in BOOLEAN
  /\ applied \in [Partitions -> SUBSET Nat]
  /\ elsewhere \in [Partitions -> SUBSET Nat]
  /\ handling \subseteq Partitions
  /\ DOMAIN consumed \subseteq Partitions
  /\ \A p \in DOMAIN consumed : consumed[p] \in Nat
  /\ pc \in [Calls -> PCs]
  /\ target \in [Calls -> [Partitions -> Nat]]
  /\ waiter \in [Calls -> Waiters]
  /\ done \subseteq Calls
  /\ expired \subseteq Calls /\ cancelled \subseteq Calls

\* When a call has compared offsets and returned nil, every record that was
\* in the topic when it began is in the lock table, restored or consumed in
\* this life, or was given to a member of the group that is not this one: a
\* restart, a partition that comes and goes, and records delivered twice
\* never make the offsets say more (coordinator_kafka.go:284-285).  A call
\* past its deadline is excepted: any wake-up then counts as success
\* (coordinator_kafka.go:338-343).
NilMeansApplied ==
  \A c \in Calls : (pc[c] = "nil" /\ c \notin expired) =>
    \A p \in Partitions : 0..(target[c][p] - 1) \subseteq applied[p] \cup elsewhere[p]

\* No goroutine stays on the condition variable once its offsets are reached,
\* whether or not its caller still waits: whatever the order of its look at
\* the offsets, its Wait, the consumer's broadcast and those without the
\* mutex, that wake-up is not lost (coordinator_kafka.go:330, 704-705).
WakeUpsArrive ==
  \A c \in Calls : ~<>[](waiter[c] \in {"check", "parking", "parked", "woken"} /\ CaughtUp(c))

\* The table of the instance has every record of the topic, and no other
\* member takes records away.
Synced == /\ up
          /\ \A p \in Partitions : /\ 0..(log[p] - 1) \subseteq applied[p]
                                    /\ owner[p] # "mate"

\* A call "blocks until the coordinator's local state is fully synchronized"
\* (tracker.go:373) and no longer: it does not wait for its deadline while
\* the table stays complete.
SyncedCallsReturn ==
  \A c \in Calls : (pc[c] = "waiting" /\ Synced) ~> (pc[c] # "waiting" \/ ~Synced)
=============================================================================

----------------------------- MODULE RetryChain -----------------------------
(***************************************************************************)
(* The message pipeline of ErrorTracker (tracker.go) in one process: the   *)
(* main consumer behind NewResilientHandler and the retry worker, each     *)
(* reading one partition one message at a time, with the lock table        *)
(* between them.  The table is the local one of the coordinator, whose     *)
(* redirect records only this process reads here; KafkaCoordinator models  *)
(* what several processes make of them.                                    *)
(*                                                                         *)
(* Messages are the offsets 1, 2, ... of the main partition.               *)
(***************************************************************************)
EXTENDS Integers, Sequences

CONSTANTS
  Topic,          \* the primary topic
  Keys, KeyOf,    \* message keys, and the key of each main message
  MaxRetries, FreeOnDLQ,    \* of the Config
  Outcomes,       \* what the user handler may return, see below
  MaxFaults,      \* bound on produce calls that report an error
  MaxRewinds      \* bound on handled messages that are delivered again

\* ok: nil; fail: an error; reject: a NotRetriableError
ASSUME ChainAssumption ==
  /\ KeyOf \in Seq(Keys)
  /\ MaxRetries \in Nat
  /\ FreeOnDLQ \in BOOLEAN
  /\ Outcomes \subseteq {"ok", "fail", "reject"}
  /\ MaxFaults \in Nat
  /\ MaxRewinds \in Nat

VARIABLES
  next,           \* next offset of each worker; what is below it is marked
  pc, cur,        \* what a worker is doing, and the delivery it does it for
  retryLog,       \* the retry topic
  refs,           \* reference counts of the lock table
  done, dlq,      \* messages handled without error, messages in the DLQ
  faults, rewinds \* disturbances so far

vars == <<next, pc, cur, retryLog, refs, done, dlq, faults, rewinds>>

Workers  == {"main", "retry"}
Messages == DOMAIN KeyOf

\* A delivery of a message.  The attempt header counts the redirects of the
\* message; with the first of them come the retry, the id and the topic
\* header, so a delivery has all of them or none.
Deliveries == [msg : Messages, attempt : Nat]
Nobody     == [msg |-> 0, attempt |-> 0]
IsRetry(d) == d.attempt > 0

PCs == {"idle", "handle", "acquire", "lock", "publish", "undo", "undone",
        "exhausted", "rejected", "free", "unlock"}

Table == INSTANCE KeyCounters WITH Topics <- {Topic}

Init ==
  /\ next = [w \in Workers |-> 1]
  /\ pc = [w \in Workers |-> "idle"]
  /\ cur = [w \in Workers |-> Nobody]
  /\ retryLog = << >>
  /\ Table!Init
  /\ done = {}
  /\ dlq = {}
  /\ faults = 0
  /\ rewinds = 0

-----------------------------------------------------------------------------

Key(w) == KeyOf[cur[w].msg]

Locked(k) == refs[<<Topic, k>>] > 0
Lock(k)   == Table!Acquire(Topic, k)

\* Mutants: a release frees the key whatever its count; a release of a key
\* that is not locked is counted.
UnlockAll(k)  == refs' = [refs EXCEPT ![<<Topic, k>>] = 0]
UnlockMore(k) == refs' = [refs EXCEPT ![<<Topic, k>>] = @ - 1]

Unlock(k) == IF Locked(k) THEN Table!Release(Topic, k) ELSE UNCHANGED refs

Goto(w, label) == /\ pc' = [pc EXCEPT ![w] = label]
                  /\ UNCHANGED <<next, cur>>

Finish(w, mark) == /\ pc' = [pc EXCEPT ![w] = "idle"]
                   /\ cur' = [cur EXCEPT ![w] = Nobody]
                   /\ next' = [next EXCEPT ![w] = @ + mark]

\* ConsumeClaim marks a message whose handler returns nil.  An error ends
\* the session; the next one starts at the first message not marked.
Mark(w)      == Finish(w, 1)
Redeliver(w) == Finish(w, 0)

Fault == faults < MaxFaults /\ faults' = faults + 1

\* Where redirectMessageWithError goes with a delivery whose error can be
\* retried: a chain that used up its attempts ends, a first redirect takes
\* the lock, a further one still has it.
Redirect(d) ==
  CASE d.attempt >= MaxRetries -> "exhausted"
    [] d.attempt < MaxRetries /\ ~IsRetry(d) -> "acquire"
    [] d.attempt < MaxRetries /\ IsRetry(d) -> "publish"

-----------------------------------------------------------------------------
(* Delivery and the user handler.                                          *)

\* Mutant: no ordering check.
DeliverUnchecked ==
  /\ pc["main"] = "idle"
  /\ next["main"] \in Messages
  /\ cur' = [cur EXCEPT !["main"] = [msg |-> next["main"], attempt |-> 0]]
  /\ pc' = [pc EXCEPT !["main"] = "handle"]
  /\ UNCHANGED <<next, retryLog, refs, done, dlq, faults, rewinds>>

\* The main consumer looks at the lock once, before the handler runs.
DeliverMain ==
  /\ pc["main"] = "idle"
  /\ next["main"] \in Messages
  /\ LET d == [msg |-> next["main"], attempt |-> 0]
     IN  /\ cur' = [cur EXCEPT !["main"] = d]
         /\ pc' = [pc EXCEPT !["main"] =
              IF Locked(KeyOf[d.msg]) THEN Redirect(d) ELSE "handle"]
  /\ UNCHANGED <<next, retryLog, refs, done, dlq, faults, rewinds>>

\* The retry worker waits for the backoff and asks no lock.
DeliverRetry ==
  /\ pc["retry"] = "idle"
  /\ next["retry"] \in DOMAIN retryLog
  /\ cur' = [cur EXCEPT !["retry"] = retryLog[next["retry"]]]
  /\ pc' = [pc EXCEPT !["retry"] = "handle"]
  /\ UNCHANGED <<next, retryLog, refs, done, dlq, faults, rewinds>>

HandleOk(w) ==
  /\ pc[w] = "handle"
  /\ "ok" \in Outcomes
  /\ done' = done \cup {cur[w].msg}
  /\ IF w = "retry" THEN Goto(w, "free") ELSE Mark(w)
  /\ UNCHANGED <<retryLog, refs, dlq, faults, rewinds>>

HandleFails(w) ==
  /\ pc[w] = "handle"
  /\ "fail" \in Outcomes
  /\ Goto(w, Redirect(cur[w]))
  /\ UNCHANGED <<retryLog, refs, done, dlq, faults, rewinds>>

HandleRejects(w) ==
  /\ pc[w] = "handle"
  /\ "reject" \in Outcomes
  /\ Goto(w, "rejected")
  /\ UNCHANGED <<retryLog, refs, done, dlq, faults, rewinds>>

-----------------------------------------------------------------------------
(* Redirect: take the lock, publish to the retry topic, give the lock back *)
(* when that fails.                                                        *)

Acquire(w) ==
  /\ pc[w] = "acquire"
  /\ Lock(Key(w))
  /\ Goto(w, "lock")
  /\ UNCHANGED <<retryLog, done, dlq, faults, rewinds>>

LockProduced(w) ==
  /\ pc[w] = "lock"
  /\ Goto(w, "publish")
  /\ UNCHANGED <<retryLog, refs, done, dlq, faults, rewinds>>

LockFails(w) ==
  /\ pc[w] = "lock"
  /\ Fault
  /\ Unlock(Key(w))
  /\ Redeliver(w)
  /\ UNCHANGED <<retryLog, done, dlq, rewinds>>

Published(w) == retryLog' = Append(retryLog, [cur[w] EXCEPT !.attempt = @ + 1])

PublishToRetry(w) ==
  /\ pc[w] = "publish"
  /\ Published(w)
  /\ Mark(w)
  /\ UNCHANGED <<refs, done, dlq, faults, rewinds>>

\* The record may have reached the topic although the call failed.
PublishFails(w) ==
  /\ pc[w] = "publish"
  /\ Fault
  /\ Published(w) \/ UNCHANGED retryLog
  /\ Goto(w, "undo")
  /\ UNCHANGED <<refs, done, dlq, rewinds>>

UndoLocal(w) ==
  /\ pc[w] = "undo"
  /\ Unlock(Key(w))
  /\ Goto(w, "undone")
  /\ UNCHANGED <<retryLog, done, dlq, faults, rewinds>>

\* Mutant: the error of the publication is swallowed after the rollback.
UndoProducedMarks(w) ==
  /\ pc[w] = "undone"
  /\ Mark(w)
  /\ UNCHANGED <<retryLog, refs, done, dlq, faults, rewinds>>

UndoProduced(w) ==
  /\ pc[w] = "undone"
  /\ Redeliver(w)
  /\ UNCHANGED <<retryLog, refs, done, dlq, faults, rewinds>>

\* The failed Release counts the lock again; another try, or none is left.
UndoFails(w) ==
  /\ pc[w] = "undone"
  /\ Fault
  /\ Lock(Key(w))
  /\ Goto(w, "undo") \/ Redeliver(w)
  /\ UNCHANGED <<retryLog, done, dlq, rewinds>>

-----------------------------------------------------------------------------
(* The dead letter queue: a chain that used up its attempts goes on to     *)
(* Release when FreeOnDLQ says so, a rejected message never does.          *)

InDLQ(w) == dlq' = dlq \cup {cur[w].msg}

\* Mutant: the lock is kept whatever FreeOnDLQ says.
GiveUpKeepsLock(w) ==
  /\ pc[w] = "exhausted"
  /\ InDLQ(w)
  /\ Mark(w)
  /\ UNCHANGED <<retryLog, refs, done, faults, rewinds>>

GiveUp(w) ==
  /\ pc[w] = "exhausted"
  /\ InDLQ(w)
  /\ IF FreeOnDLQ THEN Goto(w, "free") ELSE Mark(w)
  /\ UNCHANGED <<retryLog, refs, done, faults, rewinds>>

\* Mutant: the error is returned although the message is in the DLQ.
RejectReturnsError(w) ==
  /\ pc[w] = "rejected"
  /\ InDLQ(w)
  /\ Redeliver(w)
  /\ UNCHANGED <<retryLog, refs, done, faults, rewinds>>

Reject(w) ==
  /\ pc[w] = "rejected"
  /\ InDLQ(w)
  /\ Mark(w)
  /\ UNCHANGED <<retryLog, refs, done, faults, rewinds>>

SendToDLQFails(w) ==
  /\ pc[w] \in {"exhausted", "rejected"}
  /\ Fault
  /\ InDLQ(w) \/ UNCHANGED dlq
  /\ Redeliver(w)
  /\ UNCHANGED <<retryLog, refs, done, rewinds>>

-----------------------------------------------------------------------------
(* Release by the coordinator, from Free and after the DLQ.                *)

\* Mutant: it also refuses a key that is not locked.
ReleaseOnlyLocked(w) ==
  /\ pc[w] = "free"
  /\ IF IsRetry(cur[w]) /\ Locked(Key(w))
     THEN Unlock(Key(w)) /\ Goto(w, "unlock")
     ELSE Redeliver(w) /\ UNCHANGED refs
  /\ UNCHANGED <<retryLog, done, dlq, faults, rewinds>>

\* It refuses a message that was never acquired.
ReleaseLocal(w) ==
  /\ pc[w] = "free"
  /\ IF IsRetry(cur[w])
     THEN Unlock(Key(w)) /\ Goto(w, "unlock")
     ELSE Redeliver(w) /\ UNCHANGED refs
  /\ UNCHANGED <<retryLog, done, dlq, faults, rewinds>>

ReleaseProduced(w) ==
  /\ pc[w] = "unlock"
  /\ Mark(w)
  /\ UNCHANGED <<retryLog, refs, done, dlq, faults, rewinds>>

ReleaseFails(w) ==
  /\ pc[w] = "unlock"
  /\ Fault
  /\ Lock(Key(w))
  /\ Redeliver(w)
  /\ UNCHANGED <<retryLog, done, dlq, rewinds>>

-----------------------------------------------------------------------------

\* A rebalance before the mark is committed: the message comes once more.
Rewind(w) ==
  /\ pc[w] = "idle"
  /\ next[w] > 1
  /\ rewinds < MaxRewinds
  /\ rewinds' = rewinds + 1
  /\ next' = [next EXCEPT ![w] = @ - 1]
  /\ UNCHANGED <<pc, cur, retryLog, refs, done, dlq, faults>>

Handle(w) == HandleOk(w) \/ HandleFails(w) \/ HandleRejects(w)

RedirectStep(w) ==
  \/ Acquire(w) \/ LockProduced(w) \/ LockFails(w)
  \/ PublishToRetry(w) \/ PublishFails(w)
  \/ UndoLocal(w) \/ UndoProduced(w) \/ UndoFails(w)

EndStep(w) ==
  \/ GiveUp(w) \/ Reject(w) \/ SendToDLQFails(w)
  \/ ReleaseLocal(w) \/ ReleaseProduced(w) \/ ReleaseFails(w)

Deliver(w) == \/ w = "main" /\ DeliverMain
              \/ w = "retry" /\ DeliverRetry

WorkerStep(w) == Deliver(w) \/ Handle(w) \/ RedirectStep(w) \/ EndStep(w)

Next == \E w \in Workers : WorkerStep(w) \/ Rewind(w)

Spec == Init /\ [][Next]_vars

\* Both consumers run on as long as there is something to deliver: an error
\* only restarts them.  How the handler answers and whether the broker fails
\* is not forced.
FairSpec == Spec /\ \A w \in Workers : WF_vars(WorkerStep(w))

-----------------------------------------------------------------------------
(* Properties *)

TypeOK ==
  /\ next \in [Workers -> Nat \ {0}]
  /\ pc \in [Workers -> PCs]
  /\ cur \in [Workers -> Deliveries \cup {Nobody}]
  /\ retryLog \in Seq(Deliveries)
  /\ refs \in [{Topic} \X Keys -> Nat]
  /\ done \subseteq Messages
  /\ dlq \subseteq Messages
  /\ faults \in Nat
  /\ rewinds \in Nat

\* Offsets of the retry topic still to be marked, those of one key, and
\* whether a message has one.
Pending       == next["retry"]..Len(retryLog)
PendingOf(k)  == {o \in Pending : KeyOf[retryLog[o].msg] = k}
InRetry(m)    == \E o \in Pending : retryLog[o].msg = m
Resolved(m)   == m \in done \cup dlq
AllIdle       == \A w \in Workers : pc[w] = "idle"

\* No message is lost: one that a consumer is past was handled, is in the
\* DLQ, or waits in the retry topic, whichever produce call failed or lied
\* on the way (tracker.go:423-428 and the marks of consumer.go:73-78).
NothingLost ==
  \A m \in 1..(next["main"] - 1) : Resolved(m) \/ InRetry(m)

\* A key is locked as long as a message of it waits in the retry topic: it
\* "is only considered free when all pending retries for it are resolved"
\* (README.md:101).  The worker that just gave the lock of the message at
\* the head back is about to mark it.
PendingLocked ==
  \A k \in Keys : PendingOf(k) # {} =>
    \/ Locked(k)
    \/ /\ pc["retry"] = "unlock"
       /\ Key("retry") = k
       /\ PendingOf(k) = {next["retry"]}

\* The lock of a key is not outlived: when nothing is left to do, no key is
\* locked, if messages that go to the DLQ are freed ("FreeOnDLQ determines
\* whether to release locks when a message is sent to DLQ", config.go:59).
DrainedUnlocked ==
  (FreeOnDLQ /\ AllIdle /\ Pending = {}) => \A k \in Keys : ~Locked(k)

\* In the retry topic n went to the end of the queue, behind m, after it had
\* failed again there.
Overtakes(m, n) ==
  \E o, q \in DOMAIN retryLog :
    /\ o < q
    /\ retryLog[o].msg = m
    /\ retryLog[q].msg = n /\ retryLog[q].attempt > 1

\* A message is handled without error only after every earlier message of
\* its key was, or was given up, "a failed order-1 is always processed before
\* a subsequent order-1" (README.md:99): the main consumer never passes an
\* earlier message.  The exception is a retry that fails: the message is put
\* behind the later ones of its key that are in the retry topic already.
OvertakenOnlyByRetry ==
  \A m \in done : \A n \in 1..(m - 1) :
    KeyOf[n] = KeyOf[m] => Resolved(n) \/ Overtakes(m, n)

\* The main consumer gets past every message.
MainDrains == <>(next["main"] = Len(KeyOf) + 1)

\* The retry topic is read to its end for good: no retry comes back for ever,
\* not even one whose lock a rolled back or repeated Release gave away
\* (tracker.go:471-473, 723-726).
RetryDrains == <>[](next["retry"] = Len(retryLog) + 1)
=============================================================================

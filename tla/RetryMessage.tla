---------------------------- MODULE RetryMessage ----------------------------
(***************************************************************************)
(* What the record of one message carries from the main topic through the  *)
(* retry topic, time after time, to its end or to the DLQ, and back when   *)
(* it is replayed (tracker.go, with Acquire and Release of                 *)
(* coordinator_kafka.go): the headers on which the decisions of RetryChain *)
(* rest, and the clock.                                                    *)
(*                                                                         *)
(* One process handles the message; each handling is one step, in which at *)
(* most one call fails for good.  Headers that only people read (maximum,  *)
(* reasons, source topic, time of the DLQ) are left out.                   *)
(***************************************************************************)
EXTENDS HeaderList, Backoff, FiniteSets

CONSTANTS
  Configs,       \* maximum of retries, FreeOnDLQ and backoff strategy
  UserHeaders,   \* the header lists a message may be written with
  Second,        \* ticks of the clock in a second
  MaxTime,       \* bound on the clock
  MaxFaults,     \* bound on handlings in which a call fails
  MaxReplays     \* bound on replays from the DLQ

UserNames == {"u", "v"}

ASSUME RetryMessageAssumption ==
  /\ \A c \in Configs : /\ c.maxRetries \in Nat /\ c.freeOnDLQ \in BOOLEAN
                        /\ c.backoff \in Strategies /\ Accepted(c.backoff)
  /\ Second \in Nat \ {0}
  /\ MaxTime \in Nat /\ MaxFaults \in Nat /\ MaxReplays \in Nat
  /\ \A list \in UserHeaders : /\ IsList(list)
                               /\ \A i \in DOMAIN list : NameOf(list[i]) \in UserNames

Main          == <<"main">>
RetryTopic(t) == <<"retry">> \o t
Nowhere       == << >>

VARIABLES
  written,     \* the headers the message was first written with
  cfg,         \* the configuration
  topic,       \* where the record under way is; Nowhere if there is none
  headers,     \* its headers
  dlq,         \* records in the DLQ: headers, and what hops and first were
  held,        \* lock records without tombstone: id and topic
  count,       \* of the key in the local lock table
  ids,         \* the next uuid
  now,
  hops,        \* times the message went to the retry topic since main
  due, delay,  \* when its backoff ends, and how long it was
  first,       \* the second it was first redirected in; -1 before
  left,        \* locks a fault or the settings have left without owner
  faults, replays

recordVars == <<topic, headers, hops, due, delay, first>>
lockVars   == <<held, count, ids, left>>
vars == <<written, cfg, recordVars, lockVars, dlq, now, faults, replays>>

Init ==
  /\ written \in UserHeaders
  /\ cfg \in Configs
  /\ topic = Main
  /\ headers = written
  /\ dlq = {}
  /\ held = {} /\ count = 0 /\ ids = 0 /\ left = {}
  /\ now = 0
  /\ hops = 0 /\ due = 0 /\ delay = 0 /\ first = -1
  /\ faults = 0 /\ replays = 0

\* The copy each operation makes of the message first.
Copy == FromMessage(headers)

OriginalTopic(h) == GetOr(h, "topic", topic)
LockOf(h) == <<Get(h, "id"), Get(h, "topic")>>
Attempt(h) == GetOr(h, "attempt", 0)
InRetry(h) == GetOr(h, "retry", "") = "true"

Locked == count > 0

-----------------------------------------------------------------------------
(* The headers of the records that are written.                            *)

\* Acquire leaves its id and topic on the copy.
Acquired(h) ==
  IF InRetry(h) THEN h
  ELSE SetAll(h, << <<"id", GetOr(h, "id", ids)>>, <<"topic", OriginalTopic(h)>> >>)

\* What publishToRetry writes besides the next time and the mark.
Carried(h) ==
  SetAll(Without(h, {"attempt", "next", "original", "id", "retry"}),
         << <<"attempt", Attempt(h) + 1>>,
            <<"original", GetOr(h, "original", now \div Second)>>,
            <<"id", Get(h, "id")>>,
            <<"topic", OriginalTopic(h)>> >>)

\* Mutants: the record is not marked as one of the retry chain; it is due at
\* once.
RetryHeadersUnmarked(h, wait) ==
  SetAll(Carried(h), << <<"next", (now + wait) \div Second>> >>)

RetryHeadersDueNow(h, wait) ==
  SetAll(Carried(h), << <<"next", now \div Second>>, <<"retry", "true">> >>)

\* publishToRetry.
RetryHeaders(h, wait) ==
  SetAll(Carried(h), << <<"next", (now + wait) \div Second>>, <<"retry", "true">> >>)

\* What SendToDLQ adds.
Report(h) ==
  << <<"dlq-attempts", Attempt(h)>> >> \o
  IF Has(h, "original") THEN << <<"dlq-failed", Get(h, "original")>> >> ELSE << >>

\* Mutants: the attempts stay on the record; the original time does not.
DLQHeadersKeepAttempt(h) == SetAll(Without(h, {"next", "id", "retry"}), Report(h))

DLQHeadersForgetTime(h) ==
  SetAll(Without(h, {"attempt", "next", "id", "retry", "original"}), Report(h))

\* SendToDLQ.
DLQHeaders(h) == SetAll(Without(h, {"attempt", "next", "id", "retry"}), Report(h))

-----------------------------------------------------------------------------
(* A handling.  When it fails the record stays and comes again; what it    *)
(* changed on its copy is gone.                                            *)

Stays == UNCHANGED recordVars

Over == topic' = Nowhere /\ headers' = << >> /\ UNCHANGED <<hops, due, delay, first>>

Unlock(h) == /\ held' = held \ {LockOf(h)}
             /\ count' = IF count = 0 THEN 0 ELSE count - 1

Lock(h) == /\ held' = held \cup {LockOf(h)}
           /\ count' = count + 1
           /\ ids' = ids + 1

Abandon(h) == left' = IF Has(h, "id") THEN left \cup {LockOf(h)} ELSE left

ToDLQ(h) ==
  dlq' = dlq \cup {[headers |-> DLQHeaders(h), hops |-> hops, first |-> first]}

\* redirectMessageWithError.
Redirect(h) ==
  LET wait == NextDelay(cfg.backoff, Attempt(h))
  IN  /\ Attempt(h) < cfg.maxRetries
      /\ topic' = RetryTopic(OriginalTopic(h))
      /\ headers' = RetryHeaders(Acquired(h), wait)
      /\ hops' = hops + 1
      /\ due' = now + wait
      /\ delay' = wait
      /\ first' = IF first = -1 THEN now \div Second ELSE first
      /\ IF InRetry(h) THEN UNCHANGED <<held, count, ids>> ELSE Lock(Acquired(h))
      /\ UNCHANGED <<left, dlq>>

\* The publication fails, and the lock is released: also that of a message
\* that stays in the retry topic.  Or that fails too, and a lock just taken
\* is nobody's.
PublishFails(h) ==
  /\ Attempt(h) < cfg.maxRetries
  /\ Stays
  /\ \/ InRetry(h) /\ Unlock(h) /\ Abandon(h) /\ UNCHANGED ids
     \/ ~InRetry(h) /\ Lock(Acquired(h)) /\ Abandon(Acquired(h))
  /\ UNCHANGED dlq

\* handleMaxRetriesExceeded.  A message that never was in the retry chain
\* has no id, without which Release fails.
Exhaust(h) ==
  /\ Attempt(h) >= cfg.maxRetries
  /\ ToDLQ(h)
  /\ IF ~cfg.freeOnDLQ     THEN Over /\ Abandon(h) /\ UNCHANGED <<held, count>>
     ELSE IF Has(h, "id") THEN Over /\ Unlock(h) /\ UNCHANGED left
     ELSE Stays /\ UNCHANGED <<held, count, left>>
  /\ UNCHANGED ids

\* The shortcut for errors that cannot be retried: the lock stays.
Reject(h) ==
  /\ ToDLQ(h)
  /\ Over
  /\ Abandon(h)
  /\ UNCHANGED <<held, count, ids>>

-----------------------------------------------------------------------------

\* WaitForRetryTime is over.
Ripe == Has(headers, "next") => now >= Get(headers, "next") * Second

Delivered == topic # Nowhere /\ (topic # Main => Ripe)

\* NewResilientHandler does not ask the user's handler for a locked key.
Asked == topic = Main => ~Locked

HandleOk ==
  /\ Delivered /\ Asked
  /\ Over
  /\ IF topic = Main THEN UNCHANGED <<held, count>> ELSE Unlock(Copy)
  /\ UNCHANGED <<written, cfg, ids, left, dlq, now, faults, replays>>

HandleFails ==
  /\ Delivered
  /\ Redirect(Copy) \/ Exhaust(Copy)
  /\ UNCHANGED <<written, cfg, now, faults, replays>>

HandleRejects ==
  /\ Delivered /\ Asked
  /\ Reject(Copy)
  /\ UNCHANGED <<written, cfg, now, faults, replays>>

\* A call fails after its retries.  Before anything was written only the
\* delivery is lost; after the DLQ has the record it has it again.
Fault ==
  /\ Delivered
  /\ faults < MaxFaults
  /\ faults' = faults + 1
  /\ \/ PublishFails(Copy)
     \/ Stays /\ UNCHANGED <<lockVars, dlq>>
     \/ /\ Attempt(Copy) >= cfg.maxRetries /\ cfg.freeOnDLQ
        /\ ToDLQ(Copy) /\ Stays /\ UNCHANGED lockVars
  /\ UNCHANGED <<written, cfg, now, replays>>

\* An operator sends a record of the DLQ to the main topic, as it is.
Replay ==
  /\ topic = Nowhere
  /\ replays < MaxReplays
  /\ replays' = replays + 1
  /\ topic' = Main
  /\ \E record \in dlq : headers' = record.headers /\ first' = record.first
  /\ hops' = 0 /\ due' = now /\ delay' = 0
  /\ UNCHANGED <<written, cfg, lockVars, dlq, now, faults>>

Tick ==
  /\ now < MaxTime
  /\ now' = now + 1
  /\ UNCHANGED <<written, cfg, recordVars, lockVars, dlq, faults, replays>>

Next == HandleOk \/ HandleFails \/ HandleRejects \/ Fault \/ Replay \/ Tick

Spec == Init /\ [][Next]_vars

-----------------------------------------------------------------------------
(* Properties *)

TypeOK ==
  /\ written \in UserHeaders /\ cfg \in Configs
  /\ topic \in {Nowhere, Main, RetryTopic(Main)}
  /\ \A i, j \in DOMAIN headers :
       (topic # Main /\ NameOf(headers[i]) = NameOf(headers[j])) => i = j
  /\ \A lock \in held \cup left : lock[1] \in 0..(ids - 1) /\ lock[2] = Main
  /\ count \in Nat /\ ids \in Nat /\ now \in Nat /\ hops \in 0..cfg.maxRetries
  /\ first \in {-1} \cup Nat /\ faults \in Nat /\ replays \in Nat

UserPart(list) == [name \in {n \in UserNames : Has(list, n)} |-> All(list)[name]]

\* The headers the user wrote are on every later record of the message, in
\* the retry topic, in the DLQ and after a replay; of a name that is
\* repeated, with the last value (tracker.go:566-569, 617-620; NewFromMessage).
UserHeadersKept ==
  /\ topic # Nowhere => UserPart(headers) = UserPart(written)
  /\ \A record \in dlq : UserPart(record.headers) = UserPart(written)

\* A record in the retry topic carries the id and topic of its own lock, and
\* no other lock is open: each lock is closed by the release of the message
\* it was taken for, however often the message goes round and is replayed
\* (tracker.go:520-521).  Excepted are the locks the settings or a fault
\* leave behind.
LocksSettled ==
  /\ (topic = RetryTopic(Main)) => LockOf(headers) \in held \cup left
  /\ held \subseteq left \cup IF topic = RetryTopic(Main) THEN {LockOf(headers)} ELSE {}
  /\ faults = 0 => count = Cardinality(held)

\* The attempts on the record are the hops it made since the main topic, and
\* so is what the DLQ reports: a replay from the DLQ has all retries again
\* (tracker.go:634, 640-641).
AttemptsCounted ==
  /\ topic # Nowhere => Attempt(headers) = hops /\ hops <= cfg.maxRetries
  /\ topic = Main => ~InRetry(headers)
  /\ \A record \in dlq : Get(record.headers, "dlq-attempts") = record.hops

\* The time of the first failure never changes, through all retries, the DLQ
\* and replays (message.go:29-30, tracker.go:480-483).
FirstFailureKept ==
  /\ topic = RetryTopic(Main) => Get(headers, "original") = first
  /\ \A record \in dlq : GetOr(record.headers, "dlq-failed", -1) = record.first

\* A record leaves the retry topic at most a second before its backoff ends
\* (README.md:109), and no backoff is longer than the configured maximum,
\* even one that wrapped around.
NeverEarly ==
  [][(topic = RetryTopic(Main) /\ headers' # headers) =>
       now + Second > due /\ delay <= Longest(cfg.backoff)]_vars

\* From one hop to the next the backoff does not get shorter, as long as the
\* linear strategy does not overflow.
BackoffGrows ==
  [][(hops' > hops /\ NoOverflow(cfg.backoff, cfg.maxRetries)) => delay' >= delay]_vars
=============================================================================

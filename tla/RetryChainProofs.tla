-------------------------- MODULE RetryChainProofs --------------------------
(***************************************************************************)
(* For any messages, keys, number of retries and number of faults: the     *)
(* pipeline is well typed, and no message is lost in it.  As long as no    *)
(* call failed and nothing was delivered twice, a key is locked exactly as *)
(* long as a message of it waits, and its messages are handled in order,   *)
(* but for those that fail again in the retry topic.                       *)
(***************************************************************************)
EXTENDS RetryChain, FiniteSetTheorems, TLAPS

\* Nobody reads past the end.
InRange ==
  /\ next["main"] <= Len(KeyOf) + 1
  /\ next["retry"] <= Len(retryLog) + 1

\* A busy worker has the message at its offset, an idle one has none.
MainCursor ==
  IF pc["main"] = "idle" THEN cur["main"] = Nobody
  ELSE /\ next["main"] \in Messages
       /\ cur["main"] = [msg |-> next["main"], attempt |-> 0]

RetryCursor ==
  IF pc["retry"] = "idle" THEN cur["retry"] = Nobody
  ELSE /\ next["retry"] \in DOMAIN retryLog
       /\ cur["retry"] = retryLog[next["retry"]]

\* The lock is given back only for a message that came to an end.
FreedResolved ==
  \A w \in Workers : pc[w] \in {"free", "unlock"} => Resolved(cur[w].msg)

Base == TypeOK /\ InRange /\ MainCursor /\ RetryCursor
IInv == Base /\ FreedResolved /\ NothingLost

-----------------------------------------------------------------------------
(* The cursors                                                             *)

LEMMA MessageRange == Messages = 1..Len(KeyOf) /\ Len(KeyOf) \in Nat
BY ChainAssumption DEF Messages

LEMMA CurrentDelivery ==
  ASSUME Base, NEW w \in Workers, pc[w] # "idle"
  PROVE  /\ cur[w] \in Deliveries
         /\ cur[w].msg \in Messages
         /\ cur[w].attempt \in Nat
<1>1. CASE w = "main"
  <2>1. cur[w] = [msg |-> next["main"], attempt |-> 0] /\ next["main"] \in Messages
    BY <1>1 DEF Base, MainCursor
  <2> QED
    BY <2>1 DEF Deliveries
<1>2. CASE w = "retry"
  <2>1. cur[w] = retryLog[next["retry"]] /\ next["retry"] \in DOMAIN retryLog
    BY <1>2 DEF Base, RetryCursor
  <2>2. cur[w] \in Deliveries
    BY <2>1 DEF Base, TypeOK
  <2> QED
    BY <2>2 DEF Deliveries
<1> QED
  BY <1>1, <1>2 DEF Workers

LEMMA KeyIn ==
  ASSUME Base, NEW w \in Workers, pc[w] # "idle"
  PROVE  Key(w) \in Keys
<1>1. cur[w].msg \in Messages
  BY CurrentDelivery
<1> QED
  BY <1>1, ChainAssumption DEF Key, Messages

LEMMA LockType ==
  ASSUME TypeOK, NEW k \in Keys, Lock(k)
  PROVE  refs' \in [{Topic} \X Keys -> Nat]
BY DEF TypeOK, Lock, Table!Acquire

LEMMA UnlockType ==
  ASSUME TypeOK, NEW k \in Keys, Unlock(k)
  PROVE  refs' \in [{Topic} \X Keys -> Nat]
<1>1. CASE Locked(k)
  <2>1. <<Topic, k>> \in {Topic} \X Keys
    OBVIOUS
  <2>2. refs[<<Topic, k>>] \in Nat /\ refs[<<Topic, k>>] > 0
    BY <1>1, <2>1 DEF TypeOK, Locked
  <2>3. refs' = [refs EXCEPT ![<<Topic, k>>] = refs[<<Topic, k>>] - 1]
    BY <1>1 DEF Unlock, Table!Release
  <2>4. refs[<<Topic, k>>] - 1 \in Nat
    BY <2>2
  <2> QED
    BY <2>1, <2>3, <2>4 DEF TypeOK
<1>2. CASE ~Locked(k)
  BY <1>2 DEF TypeOK, Unlock
<1> QED
  BY <1>1, <1>2

\* The message published again follows the log and is the one delivered.
LEMMA PublishedLog ==
  ASSUME Base, NEW w \in Workers, pc[w] # "idle", Published(w)
  PROVE  /\ retryLog' \in Seq(Deliveries)
         /\ Len(retryLog') = Len(retryLog) + 1
         /\ \A o \in 1..Len(retryLog) : retryLog'[o] = retryLog[o]
         /\ retryLog'[Len(retryLog) + 1].msg = cur[w].msg
<1> DEFINE d == [cur[w] EXCEPT !.attempt = @ + 1]
<1>1. cur[w] \in Deliveries
  BY CurrentDelivery
<1>2. d \in Deliveries /\ d.msg = cur[w].msg
  BY <1>1 DEF Deliveries
<1>3. retryLog' = Append(retryLog, d) /\ retryLog \in Seq(Deliveries)
  BY DEF Published, Base, TypeOK
<1> HIDE DEF d
<1> QED
  BY <1>2, <1>3

\* The retry topic only grows.
Grown ==
  /\ retryLog' \in Seq(Deliveries)
  /\ Len(retryLog') >= Len(retryLog)
  /\ \A o \in 1..Len(retryLog) : retryLog'[o] = retryLog[o]

LEMMA PublishedGrown ==
  ASSUME Base, NEW w \in Workers, pc[w] # "idle", Published(w)
  PROVE  Grown
BY PublishedLog DEF Grown, Base, TypeOK

LEMMA UnchangedGrown == ASSUME TypeOK, UNCHANGED retryLog PROVE Grown
BY DEF TypeOK, Grown

LEMMA RedirectPC == ASSUME NEW d \in Deliveries
                    PROVE Redirect(d) \in {"exhausted", "acquire", "publish"}
BY ChainAssumption DEF Redirect, Deliveries, IsRetry

\* What every step does with the shared state.
Progress ==
  /\ Grown
  /\ refs' \in [{Topic} \X Keys -> Nat]
  /\ done \subseteq done' /\ done' \subseteq Messages
  /\ dlq \subseteq dlq' /\ dlq' \subseteq Messages
  /\ faults' \in Nat
  /\ UNCHANGED rewinds

\* A step inside the handling of a delivery keeps the cursors.
LEMMA GotoBase ==
  ASSUME Base, NEW w \in Workers, pc[w] # "idle", NEW v \in PCs, v # "idle",
         Goto(w, v), Progress
  PROVE  Base'
<1> USE DEF Base
<1>1. /\ next' = next /\ cur' = cur
      /\ pc' \in [Workers -> PCs] /\ pc'[w] = v
      /\ \A u \in Workers \ {w} : pc'[u] = pc[u]
  BY DEF Goto, TypeOK
<1>2. TypeOK'
  BY <1>1 DEF TypeOK, Progress, Grown
<1>3. InRange'
  BY <1>1 DEF InRange, Progress, Grown, TypeOK, Workers
<1>4. MainCursor'
  BY <1>1 DEF MainCursor, Workers
<1>5. RetryCursor'
  <2>1. pc'["retry"] = "idle" <=> pc["retry"] = "idle"
    BY <1>1 DEF Workers
  <2>2. /\ DOMAIN retryLog = 1..Len(retryLog) /\ DOMAIN retryLog' = 1..Len(retryLog')
        /\ Len(retryLog) \in Nat /\ Len(retryLog') \in Nat
    BY DEF Progress, Grown, TypeOK
  <2>3. \A o \in DOMAIN retryLog : o \in DOMAIN retryLog' /\ retryLog'[o] = retryLog[o]
    BY <2>2 DEF Progress, Grown
  <2> QED
    BY <1>1, <2>1, <2>3 DEF RetryCursor
<1> QED
  BY <1>2, <1>3, <1>4, <1>5

\* The end of a delivery, marked or not, leaves the worker idle.
LEMMA FinishBase ==
  ASSUME Base, NEW w \in Workers, pc[w] # "idle", NEW mark \in {0, 1},
         Finish(w, mark), Progress
  PROVE  Base'
<1> USE DEF Base
<1>1. /\ cur' \in [Workers -> Deliveries \cup {Nobody}] /\ cur'[w] = Nobody
      /\ \A u \in Workers \ {w} : cur'[u] = cur[u]
  BY DEF Finish, TypeOK
<1>2. /\ pc' \in [Workers -> PCs] /\ pc'[w] = "idle"
      /\ \A u \in Workers \ {w} : pc'[u] = pc[u]
  BY DEF Finish, TypeOK, PCs
<1>3. /\ next' \in [Workers -> Nat \ {0}] /\ next'[w] = next[w] + mark
      /\ \A u \in Workers \ {w} : next'[u] = next[u]
  BY DEF Finish, TypeOK
<1>4. TypeOK'
  BY <1>1, <1>2, <1>3 DEF TypeOK, Progress, Grown
<1>5. /\ DOMAIN retryLog = 1..Len(retryLog) /\ DOMAIN retryLog' = 1..Len(retryLog')
      /\ Len(retryLog) \in Nat /\ Len(retryLog') \in Nat
      /\ Len(retryLog') >= Len(retryLog)
      /\ \A o \in 1..Len(retryLog) : retryLog'[o] = retryLog[o]
  BY DEF Progress, Grown, TypeOK
<1>6. InRange'
  <2>1. CASE w = "main"
    <3>1. next["main"] \in 1..Len(KeyOf)
      BY <2>1, MessageRange DEF MainCursor
    <3> QED
      BY <1>3, <1>5, <2>1, <3>1, MessageRange DEF InRange, Workers, TypeOK
  <2>2. CASE w = "retry"
    <3>1. next["retry"] \in 1..Len(retryLog)
      BY <1>5, <2>2 DEF RetryCursor
    <3> QED
      BY <1>3, <1>5, <2>2, <3>1, MessageRange DEF InRange, Workers, TypeOK
  <2> QED
    BY <2>1, <2>2 DEF Workers
<1>7. MainCursor'
  BY <1>1, <1>2, <1>3 DEF MainCursor, Workers
<1>8. RetryCursor'
  <2>1. CASE w = "retry"
    BY <1>1, <1>2, <2>1 DEF RetryCursor
  <2>2. CASE w = "main"
    <3>1. \A o \in DOMAIN retryLog : o \in DOMAIN retryLog' /\ retryLog'[o] = retryLog[o]
      BY <1>5
    <3> QED
      BY <1>1, <1>2, <1>3, <2>2, <3>1 DEF RetryCursor, Workers
  <2> QED
    BY <2>1, <2>2 DEF Workers
<1> QED
  BY <1>4, <1>6, <1>7, <1>8

-----------------------------------------------------------------------------
(* A message is never dropped                                              *)

\* What may be marked: a message that came to an end, or was just published.
Covered(m) ==
  \/ m \in done' \cup dlq'
  \/ /\ Len(retryLog') = Len(retryLog) + 1
     /\ retryLog'[Len(retryLog) + 1].msg = m

\* Offsets that stay pending keep their messages in the retry topic.
LEMMA NoMark ==
  ASSUME IInv, UNCHANGED next, Progress
  PROVE  NothingLost'
<1>1. /\ Len(retryLog) \in Nat /\ Len(retryLog') \in Nat
      /\ Len(retryLog') >= Len(retryLog)
      /\ \A o \in 1..Len(retryLog) : retryLog'[o] = retryLog[o]
      /\ next["retry"] \in Nat \ {0}
  BY DEF IInv, Base, TypeOK, Progress, Grown, Workers
<1>2. ASSUME NEW o \in Pending PROVE o \in Pending' /\ retryLog'[o] = retryLog[o]
  BY <1>1, <1>2 DEF Pending
<1>3. \A m : InRetry(m) => InRetry(m)'
  BY <1>2 DEF InRetry
<1>4. \A m : Resolved(m) => Resolved(m)'
  BY DEF Resolved, Progress
<1> QED
  BY <1>3, <1>4 DEF IInv, NothingLost

LEMMA MarkMain ==
  ASSUME IInv, pc["main"] # "idle", Finish("main", 1), Progress,
         Covered(cur["main"].msg)
  PROVE  NothingLost'
<1>1. /\ Len(retryLog) \in Nat /\ Len(retryLog') \in Nat
      /\ Len(retryLog') >= Len(retryLog)
      /\ \A o \in 1..Len(retryLog) : retryLog'[o] = retryLog[o]
      /\ next["retry"] \in Nat \ {0} /\ next["main"] \in Nat \ {0}
  BY DEF IInv, Base, TypeOK, Progress, Grown, Workers
<1>2. next'["main"] = next["main"] + 1 /\ next'["retry"] = next["retry"]
  BY DEF IInv, Base, TypeOK, Finish, Workers
<1>3. cur["main"].msg = next["main"]
  BY DEF IInv, Base, MainCursor
<1>4. ASSUME NEW o \in Pending PROVE o \in Pending' /\ retryLog'[o] = retryLog[o]
  BY <1>1, <1>2, <1>4 DEF Pending
<1>5. \A m : InRetry(m) => InRetry(m)'
  BY <1>4 DEF InRetry
<1>6. \A m : Resolved(m) => Resolved(m)'
  BY DEF Resolved, Progress
<1>7. ASSUME NEW m \in 1..(next'["main"] - 1)
      PROVE  Resolved(m)' \/ InRetry(m)'
  <2>1. CASE m = next["main"] /\ m \in done' \cup dlq'
    BY <2>1 DEF Resolved
  <2>2. CASE m = next["main"] /\ m \notin done' \cup dlq'
    <3>1. /\ Len(retryLog') = Len(retryLog) + 1
          /\ retryLog'[Len(retryLog) + 1].msg = m
      BY <1>3, <2>2 DEF Covered
    <3>2. Len(retryLog) + 1 \in Pending'
      BY <1>1, <1>2, <3>1 DEF Pending, IInv, Base, InRange
    <3> QED
      BY <3>1, <3>2 DEF InRetry
  <2>3. CASE m # next["main"]
    <3>1. m \in 1..(next["main"] - 1)
      BY <1>1, <1>2, <1>7, <2>3
    <3> QED
      BY <1>5, <1>6, <3>1 DEF IInv, NothingLost
  <2> QED
    BY <2>1, <2>2, <2>3
<1> QED
  BY <1>7 DEF NothingLost

LEMMA MarkRetry ==
  ASSUME IInv, pc["retry"] # "idle", Finish("retry", 1), Progress,
         Covered(cur["retry"].msg)
  PROVE  NothingLost'
<1>1. /\ Len(retryLog) \in Nat /\ Len(retryLog') \in Nat
      /\ Len(retryLog') >= Len(retryLog)
      /\ \A o \in 1..Len(retryLog) : retryLog'[o] = retryLog[o]
      /\ next["retry"] \in Nat \ {0}
  BY DEF IInv, Base, TypeOK, Progress, Grown, Workers
<1>2. next'["retry"] = next["retry"] + 1 /\ next'["main"] = next["main"]
  BY DEF IInv, Base, TypeOK, Finish, Workers
<1>3. /\ next["retry"] \in 1..Len(retryLog)
      /\ cur["retry"].msg = retryLog[next["retry"]].msg
  BY DEF IInv, Base, RetryCursor, TypeOK
<1>4. \A m : Resolved(m) => Resolved(m)'
  BY DEF Resolved, Progress
<1>5. ASSUME NEW m, InRetry(m) PROVE Resolved(m)' \/ InRetry(m)'
  <2>1. PICK o \in Pending : retryLog[o].msg = m
    BY <1>5 DEF InRetry
  <2>2. CASE o # next["retry"]
    <3>1. o \in Pending' /\ retryLog'[o] = retryLog[o]
      BY <1>1, <1>2, <2>2 DEF Pending
    <3> QED
      BY <2>1, <3>1 DEF InRetry
  <2>3. CASE o = next["retry"] /\ m \in done' \cup dlq'
    BY <2>3 DEF Resolved
  <2>4. CASE o = next["retry"] /\ m \notin done' \cup dlq'
    <3>1. /\ Len(retryLog') = Len(retryLog) + 1
          /\ retryLog'[Len(retryLog) + 1].msg = m
      BY <1>3, <2>1, <2>4 DEF Covered
    <3>2. Len(retryLog) + 1 \in Pending'
      BY <1>1, <1>2, <1>3, <3>1 DEF Pending
    <3> QED
      BY <3>1, <3>2 DEF InRetry
  <2> QED
    BY <2>2, <2>3, <2>4
<1> QED
  BY <1>2, <1>4, <1>5 DEF IInv, NothingLost

-----------------------------------------------------------------------------
(* The two kinds of steps a busy worker takes                              *)

LEMMA GotoInv ==
  ASSUME IInv, NEW w \in Workers, pc[w] # "idle", NEW v \in PCs, v # "idle",
         Goto(w, v), Progress,
         v \in {"free", "unlock"} => cur[w].msg \in done' \cup dlq'
  PROVE  IInv'
<1>1. Base'
  BY GotoBase DEF IInv
<1>2. NothingLost'
  BY NoMark DEF Goto
<1>3. FreedResolved'
  <2>1. cur' = cur /\ pc'[w] = v /\ \A u \in Workers \ {w} : pc'[u] = pc[u]
    BY DEF Goto, IInv, Base, TypeOK
  <2> QED
    BY <2>1 DEF IInv, FreedResolved, Resolved, Progress
<1> QED
  BY <1>1, <1>2, <1>3 DEF IInv

LEMMA FinishInv ==
  ASSUME IInv, NEW w \in Workers, pc[w] # "idle", NEW mark \in {0, 1},
         Finish(w, mark), Progress, mark = 1 => Covered(cur[w].msg)
  PROVE  IInv'
<1>1. Base'
  BY FinishBase DEF IInv
<1>2. NothingLost'
  <2>1. CASE mark = 0
    <3>1. next' = next
      BY <2>1 DEF Finish, IInv, Base, TypeOK
    <3> QED
      BY <3>1, NoMark
  <2>2. CASE mark = 1
    BY <2>2, MarkMain, MarkRetry DEF Workers
  <2> QED
    BY <2>1, <2>2
<1>3. FreedResolved'
  <2>1. /\ pc'[w] = "idle"
        /\ \A u \in Workers \ {w} : pc'[u] = pc[u] /\ cur'[u] = cur[u]
    BY DEF Finish, IInv, Base, TypeOK
  <2> QED
    BY <2>1 DEF IInv, FreedResolved, Resolved, Progress
<1> QED
  BY <1>1, <1>2, <1>3 DEF IInv

\* A step that leaves the retry topic, the locks and the verdicts alone.
LEMMA QuietProgress ==
  ASSUME TypeOK, UNCHANGED <<retryLog, refs, done, dlq, rewinds>>, faults' \in Nat
  PROVE  Progress
<1>1. Grown
  BY UnchangedGrown
<1> QED
  BY <1>1 DEF Progress, TypeOK

LEMMA FaultType == ASSUME TypeOK, Fault PROVE faults' \in Nat
BY DEF TypeOK, Fault

-----------------------------------------------------------------------------
(* Deliveries, and a message that comes once more                          *)

LEMMA DeliverMainInv == ASSUME IInv, DeliverMain PROVE IInv'
<1> DEFINE d == [msg |-> next["main"], attempt |-> 0]
<1>1. pc["main"] = "idle" /\ next["main"] \in Messages
  BY DEF DeliverMain
<1>2. d \in Deliveries
  BY <1>1 DEF Deliveries
<1>3. PICK v \in PCs \ {"idle", "free", "unlock"} :
        pc' = [pc EXCEPT !["main"] = v] /\ cur' = [cur EXCEPT !["main"] = d]
  <2>1. Redirect(d) \in PCs \ {"idle", "free", "unlock"}
    BY <1>2, RedirectPC DEF PCs
  <2>2. "handle" \in PCs \ {"idle", "free", "unlock"}
    BY DEF PCs
  <2> QED
    BY <2>1, <2>2 DEF DeliverMain
<1>4. UNCHANGED <<next, retryLog, refs, done, dlq, faults, rewinds>>
  BY DEF DeliverMain
<1>5. /\ pc' \in [Workers -> PCs] /\ cur' \in [Workers -> Deliveries \cup {Nobody}]
      /\ pc'["main"] = v /\ pc'["retry"] = pc["retry"]
      /\ cur'["main"] = d /\ cur'["retry"] = cur["retry"]
  BY <1>2, <1>3 DEF IInv, Base, TypeOK, Workers
<1>6. TypeOK'
  BY <1>4, <1>5 DEF IInv, Base, TypeOK
<1>7. InRange' /\ MainCursor' /\ RetryCursor'
  BY <1>1, <1>3, <1>4, <1>5 DEF IInv, Base, InRange, MainCursor, RetryCursor
<1>8. FreedResolved'
  BY <1>3, <1>4, <1>5 DEF IInv, FreedResolved, Resolved, Workers
<1>9. NothingLost'
  BY <1>4 DEF IInv, NothingLost, Resolved, InRetry, Pending
<1> QED
  BY <1>6, <1>7, <1>8, <1>9 DEF IInv, Base

LEMMA DeliverRetryInv == ASSUME IInv, DeliverRetry PROVE IInv'
<1>1. /\ pc["retry"] = "idle" /\ next["retry"] \in DOMAIN retryLog
      /\ pc' = [pc EXCEPT !["retry"] = "handle"]
      /\ cur' = [cur EXCEPT !["retry"] = retryLog[next["retry"]]]
  BY DEF DeliverRetry
<1>2. retryLog[next["retry"]] \in Deliveries
  BY <1>1 DEF IInv, Base, TypeOK
<1>3. UNCHANGED <<next, retryLog, refs, done, dlq, faults, rewinds>>
  BY DEF DeliverRetry
<1>4. /\ pc' \in [Workers -> PCs] /\ cur' \in [Workers -> Deliveries \cup {Nobody}]
      /\ pc'["retry"] = "handle" /\ pc'["main"] = pc["main"]
      /\ cur'["retry"] = retryLog[next["retry"]] /\ cur'["main"] = cur["main"]
  BY <1>1, <1>2 DEF IInv, Base, TypeOK, Workers, PCs
<1>5. TypeOK'
  BY <1>3, <1>4 DEF IInv, Base, TypeOK
<1>6. InRange' /\ MainCursor' /\ RetryCursor'
  BY <1>1, <1>3, <1>4 DEF IInv, Base, InRange, MainCursor, RetryCursor
<1>7. FreedResolved'
  BY <1>3, <1>4 DEF IInv, FreedResolved, Resolved, Workers
<1>8. NothingLost'
  BY <1>3 DEF IInv, NothingLost, Resolved, InRetry, Pending
<1> QED
  BY <1>5, <1>6, <1>7, <1>8 DEF IInv, Base

\* One offset back: fewer messages are passed, or more are pending.
LEMMA RewindInv == ASSUME IInv, NEW w \in Workers, Rewind(w) PROVE IInv'
<1>1. /\ pc[w] = "idle" /\ next[w] > 1
      /\ next' = [next EXCEPT ![w] = next[w] - 1]
      /\ rewinds' = rewinds + 1
  BY DEF Rewind
<1>2. UNCHANGED <<pc, cur, retryLog, refs, done, dlq, faults>>
  BY DEF Rewind
<1>3. /\ next \in [Workers -> Nat \ {0}]
      /\ next' \in [Workers -> Nat \ {0}] /\ next'[w] = next[w] - 1
      /\ \A u \in Workers \ {w} : next'[u] = next[u]
  BY <1>1 DEF IInv, Base, TypeOK
<1>4. Len(retryLog) \in Nat /\ Len(KeyOf) \in Nat
  BY MessageRange DEF IInv, Base, TypeOK
<1>5. TypeOK'
  BY <1>1, <1>2, <1>3 DEF IInv, Base, TypeOK
<1>6. InRange'
  BY <1>2, <1>3, <1>4 DEF IInv, Base, InRange, Workers
<1>7. MainCursor' /\ RetryCursor'
  BY <1>1, <1>2, <1>3 DEF IInv, Base, MainCursor, RetryCursor, Workers
<1>8. FreedResolved'
  BY <1>2 DEF IInv, FreedResolved, Resolved
<1>9. NothingLost'
  <2>1. \A u \in Workers : next'[u] <= next[u]
    BY <1>3
  <2>2. next'["main"] <= next["main"] /\ next'["retry"] <= next["retry"]
    BY <2>1 DEF Workers
  <2>3. /\ next["main"] \in Nat /\ next'["main"] \in Nat
        /\ next["retry"] \in Nat /\ next'["retry"] \in Nat
    BY <1>3 DEF Workers
  <2>4. 1..(next'["main"] - 1) \subseteq 1..(next["main"] - 1)
    BY <2>2, <2>3
  <2>5. Pending \subseteq Pending'
    BY <1>2, <1>4, <2>2, <2>3 DEF Pending
  <2> QED
    BY <1>2, <2>4, <2>5 DEF IInv, NothingLost, Resolved, InRetry
<1> QED
  BY <1>5, <1>6, <1>7, <1>8, <1>9 DEF IInv, Base

-----------------------------------------------------------------------------
(* The handler                                                             *)

LEMMA HandleInv == ASSUME IInv, NEW w \in Workers, Handle(w) PROVE IInv'
<1>0. TypeOK /\ Base
  BY DEF IInv, Base
<1>1. pc[w] # "idle"
  BY DEF Handle, HandleOk, HandleFails, HandleRejects
<1>2. cur[w] \in Deliveries /\ cur[w].msg \in Messages
  BY <1>0, <1>1, CurrentDelivery
<1>3. CASE HandleOk(w)
  <2>1. /\ done' = done \cup {cur[w].msg}
        /\ UNCHANGED <<retryLog, refs, dlq, faults, rewinds>>
    BY <1>3 DEF HandleOk
  <2>2. Progress
    BY <1>0, <1>2, <2>1, UnchangedGrown DEF Progress, TypeOK
  <2>3. CASE Goto(w, "free")
    BY <1>1, <2>1, <2>2, <2>3, GotoInv DEF PCs
  <2>4. CASE Mark(w)
    <3>1. Finish(w, 1) /\ Covered(cur[w].msg)
      BY <2>1, <2>4 DEF Mark, Covered
    <3> QED
      BY <1>1, <2>2, <3>1, FinishInv
  <2> QED
    BY <1>3, <2>3, <2>4 DEF HandleOk
<1>4. CASE HandleFails(w)
  <2>1. Goto(w, Redirect(cur[w])) /\ Progress
    BY <1>0, <1>4, QuietProgress DEF HandleFails, TypeOK
  <2>2. Redirect(cur[w]) \in {"exhausted", "acquire", "publish"}
    BY <1>2, RedirectPC
  <2>3. PICK v : v = Redirect(cur[w])
    OBVIOUS
  <2> QED
    BY <1>1, <2>1, <2>2, <2>3, GotoInv DEF PCs
<1>5. CASE HandleRejects(w)
  <2>1. Goto(w, "rejected") /\ Progress
    BY <1>0, <1>5, QuietProgress DEF HandleRejects, TypeOK
  <2> QED
    BY <1>1, <2>1, GotoInv DEF PCs
<1> QED
  BY <1>3, <1>4, <1>5 DEF Handle

-----------------------------------------------------------------------------
(* Redirect                                                                *)

LEMMA LockSteps ==
  ASSUME IInv, NEW w \in Workers, Acquire(w) \/ LockProduced(w) \/ LockFails(w)
  PROVE  IInv'
<1>0. TypeOK /\ Base
  BY DEF IInv, Base
<1>1. pc[w] # "idle" /\ Key(w) \in Keys
  BY <1>0, KeyIn DEF Acquire, LockProduced, LockFails
<1>2. CASE Acquire(w)
  <2>1. Progress
    BY <1>0, <1>1, <1>2, LockType, UnchangedGrown DEF Acquire, Progress, TypeOK
  <2> QED
    BY <1>1, <1>2, <2>1, GotoInv DEF Acquire, PCs
<1>3. CASE LockProduced(w)
  <2>1. Progress
    BY <1>0, <1>3, QuietProgress DEF LockProduced, TypeOK
  <2> QED
    BY <1>1, <1>3, <2>1, GotoInv DEF LockProduced, PCs
<1>4. CASE LockFails(w)
  <2>1. Progress
    BY <1>0, <1>1, <1>4, UnlockType, UnchangedGrown, FaultType
    DEF LockFails, Progress, TypeOK
  <2> QED
    BY <1>1, <1>4, <2>1, FinishInv DEF LockFails, Redeliver
<1> QED
  BY <1>2, <1>3, <1>4

LEMMA PublishSteps ==
  ASSUME IInv, NEW w \in Workers, PublishToRetry(w) \/ PublishFails(w)
  PROVE  IInv'
<1>0. TypeOK /\ Base
  BY DEF IInv, Base
<1>1. pc[w] # "idle"
  BY DEF PublishToRetry, PublishFails
<1>2. CASE PublishToRetry(w)
  <2>1. Progress
    BY <1>0, <1>1, <1>2, PublishedGrown DEF PublishToRetry, Progress, TypeOK
  <2>2. Covered(cur[w].msg)
    BY <1>0, <1>1, <1>2, PublishedLog DEF PublishToRetry, Covered
  <2> QED
    BY <1>1, <1>2, <2>1, <2>2, FinishInv DEF PublishToRetry, Mark
<1>3. CASE PublishFails(w)
  <2>1. Grown
    BY <1>0, <1>1, <1>3, PublishedGrown, UnchangedGrown DEF PublishFails
  <2>2. Progress
    BY <1>0, <1>3, <2>1, FaultType DEF PublishFails, Progress, TypeOK
  <2> QED
    BY <1>1, <1>3, <2>2, GotoInv DEF PublishFails, PCs
<1> QED
  BY <1>2, <1>3

LEMMA UndoSteps ==
  ASSUME IInv, NEW w \in Workers, UndoLocal(w) \/ UndoProduced(w) \/ UndoFails(w)
  PROVE  IInv'
<1>0. TypeOK /\ Base
  BY DEF IInv, Base
<1>1. pc[w] # "idle" /\ Key(w) \in Keys
  BY <1>0, KeyIn DEF UndoLocal, UndoProduced, UndoFails
<1>2. CASE UndoLocal(w)
  <2>1. Progress
    BY <1>0, <1>1, <1>2, UnlockType, UnchangedGrown DEF UndoLocal, Progress, TypeOK
  <2> QED
    BY <1>1, <1>2, <2>1, GotoInv DEF UndoLocal, PCs
<1>3. CASE UndoProduced(w)
  <2>1. Progress
    BY <1>0, <1>3, QuietProgress DEF UndoProduced, TypeOK
  <2> QED
    BY <1>1, <1>3, <2>1, FinishInv DEF UndoProduced, Redeliver
<1>4. CASE UndoFails(w)
  <2>1. Progress
    BY <1>0, <1>1, <1>4, LockType, UnchangedGrown, FaultType
    DEF UndoFails, Progress, TypeOK
  <2>2. CASE Goto(w, "undo")
    BY <1>1, <2>1, <2>2, GotoInv DEF PCs
  <2>3. CASE Redeliver(w)
    BY <1>1, <2>1, <2>3, FinishInv DEF Redeliver
  <2> QED
    BY <1>4, <2>2, <2>3 DEF UndoFails
<1> QED
  BY <1>2, <1>3, <1>4

-----------------------------------------------------------------------------
(* The dead letter queue and Release                                       *)

LEMMA DLQSteps ==
  ASSUME IInv, NEW w \in Workers, GiveUp(w) \/ Reject(w) \/ SendToDLQFails(w)
  PROVE  IInv'
<1>0. TypeOK /\ Base
  BY DEF IInv, Base
<1>1. pc[w] # "idle"
  BY DEF GiveUp, Reject, SendToDLQFails
<1>2. cur[w].msg \in Messages
  BY <1>0, <1>1, CurrentDelivery
<1>3. CASE GiveUp(w)
  <2>1. Progress /\ cur[w].msg \in dlq'
    BY <1>0, <1>2, <1>3, UnchangedGrown DEF GiveUp, InDLQ, Progress, TypeOK
  <2>2. CASE Goto(w, "free")
    BY <1>1, <2>1, <2>2, GotoInv DEF PCs
  <2>3. CASE Mark(w)
    BY <1>1, <2>1, <2>3, FinishInv DEF Mark, Covered
  <2> QED
    BY <1>3, <2>2, <2>3 DEF GiveUp
<1>4. CASE Reject(w)
  <2>1. Progress /\ cur[w].msg \in dlq'
    BY <1>0, <1>2, <1>4, UnchangedGrown DEF Reject, InDLQ, Progress, TypeOK
  <2> QED
    BY <1>1, <1>4, <2>1, FinishInv DEF Reject, Mark, Covered
<1>5. CASE SendToDLQFails(w)
  <2>1. Progress
    BY <1>0, <1>2, <1>5, UnchangedGrown, FaultType
    DEF SendToDLQFails, InDLQ, Progress, TypeOK
  <2> QED
    BY <1>1, <1>5, <2>1, FinishInv DEF SendToDLQFails, Redeliver
<1> QED
  BY <1>3, <1>4, <1>5

\* Only a message that came to an end gets as far as Release, so its mark
\* drops nothing.
LEMMA ReleaseSteps ==
  ASSUME IInv, NEW w \in Workers,
         ReleaseLocal(w) \/ ReleaseProduced(w) \/ ReleaseFails(w)
  PROVE  IInv'
<1>0. TypeOK /\ Base
  BY DEF IInv, Base
<1>1. pc[w] # "idle" /\ Key(w) \in Keys
  BY <1>0, KeyIn DEF ReleaseLocal, ReleaseProduced, ReleaseFails
<1>2. cur[w].msg \in done \cup dlq
  BY DEF IInv, FreedResolved, Resolved, ReleaseLocal, ReleaseProduced, ReleaseFails
<1>3. CASE ReleaseLocal(w)
  <2>1. Progress
    BY <1>0, <1>1, <1>3, UnlockType, UnchangedGrown
    DEF ReleaseLocal, Progress, TypeOK
  <2>2. CASE Goto(w, "unlock")
    BY <1>1, <1>2, <2>1, <2>2, GotoInv DEF PCs, Progress
  <2>3. CASE Redeliver(w)
    BY <1>1, <2>1, <2>3, FinishInv DEF Redeliver
  <2> QED
    BY <1>3, <2>2, <2>3 DEF ReleaseLocal
<1>4. CASE ReleaseProduced(w)
  <2>1. Progress
    BY <1>0, <1>4, QuietProgress DEF ReleaseProduced, TypeOK
  <2>2. Covered(cur[w].msg)
    BY <1>2, <2>1 DEF Covered, Progress
  <2> QED
    BY <1>1, <1>4, <2>1, <2>2, FinishInv DEF ReleaseProduced, Mark
<1>5. CASE ReleaseFails(w)
  <2>1. Progress
    BY <1>0, <1>1, <1>5, LockType, UnchangedGrown, FaultType
    DEF ReleaseFails, Progress, TypeOK
  <2> QED
    BY <1>1, <1>5, <2>1, FinishInv DEF ReleaseFails, Redeliver
<1> QED
  BY <1>3, <1>4, <1>5

-----------------------------------------------------------------------------
(* The theorems                                                            *)

LEMMA InitInv == ASSUME Init PROVE IInv
<1>1. TypeOK
  BY DEF Init, TypeOK, Table!Init, PCs
<1>2. Len(KeyOf) \in Nat /\ Len(retryLog) = 0
  BY MessageRange DEF Init
<1>3. InRange
  BY <1>2 DEF Init, InRange, Workers
<1>4. MainCursor /\ RetryCursor
  BY DEF Init, MainCursor, RetryCursor, Workers
<1>5. FreedResolved
  BY DEF Init, FreedResolved
<1>6. NothingLost
  BY DEF Init, NothingLost, Workers
<1> QED
  BY <1>1, <1>3, <1>4, <1>5, <1>6 DEF IInv, Base

LEMMA StepInv == ASSUME IInv, [Next]_vars PROVE IInv'
<1>1. ASSUME NEW w \in Workers, Deliver(w) PROVE IInv'
  BY <1>1, DeliverMainInv, DeliverRetryInv DEF Deliver
<1>2. ASSUME NEW w \in Workers, RedirectStep(w) PROVE IInv'
  BY <1>2, LockSteps, PublishSteps, UndoSteps DEF RedirectStep
<1>3. ASSUME NEW w \in Workers, EndStep(w) PROVE IInv'
  BY <1>3, DLQSteps, ReleaseSteps DEF EndStep
<1>4. CASE UNCHANGED vars
  BY <1>4 DEF vars, IInv, Base, TypeOK, InRange, MainCursor, RetryCursor,
     FreedResolved, NothingLost, Resolved, InRetry, Pending
<1> QED
  BY <1>1, <1>2, <1>3, <1>4, HandleInv, RewindInv DEF Next, WorkerStep

LEMMA Inductive == Spec => []IInv
<1>1. Init => IInv
  BY InitInv
<1>2. IInv /\ [Next]_vars => IInv'
  BY StepInv
<1> QED
  BY <1>1, <1>2, PTL DEF Spec

\* The pipeline is well typed, whatever the handler answers, the broker
\* reports and a rebalance delivers again; in particular no lock is counted
\* below zero (tracker.go:423-734).
THEOREM ChainTypeCorrect == Spec => []TypeOK
<1>1. IInv => TypeOK
  BY DEF IInv, Base
<1> QED
  BY <1>1, Inductive, PTL

\* For any number of messages, retries, faults and second deliveries: a main
\* message the consumer is past was handled, is in the DLQ or waits in the
\* retry topic (tracker.go:423-428, consumer.go:73-78).
THEOREM NoMessageLost == Spec => []NothingLost
<1>1. IInv => NothingLost
  BY DEF IInv
<1> QED
  BY <1>1, Inductive, PTL

-----------------------------------------------------------------------------
(* The locks of the keys, counted                                          *)

\* Nothing failed yet and nothing was delivered a second time.
Undisturbed == faults = 0 /\ rewinds = 0

\* Locks of k the main worker has taken for a message it did not publish yet,
\* and locks the retry worker gave back for a message it did not mark yet.
TakenAhead(k) == IF pc["main"] \in {"lock", "publish"} /\ Key("main") = k THEN 1 ELSE 0
GivenBack(k)  == IF pc["retry"] = "unlock" /\ Key("retry") = k THEN 1 ELSE 0

Owed(k) == Cardinality(PendingOf(k)) + TakenAhead(k) - GivenBack(k)

\* Every message that leaves the retry topic gives its lock back.
AlwaysFreed == FreeOnDLQ /\ "reject" \notin Outcomes

\* A key is counted once for every message of it that waits in the retry
\* topic or is on the way there, and not more often if all locks are freed.
LocksCounted ==
  Undisturbed => \A k \in Keys :
    /\ refs[<<Topic, k>>] >= Owed(k)
    /\ AlwaysFreed => refs[<<Topic, k>>] = Owed(k)

\* The main worker takes no lock for a message of the retry topic, and gives
\* none back; the retry worker takes none.
LogRetries == \A o \in DOMAIN retryLog : IsRetry(retryLog[o])
Courses ==
  /\ pc["main"] # "unlock"
  /\ pc["retry"] \notin {"acquire", "lock"}
  /\ \A w \in Workers : pc[w] = "rejected" => "reject" \in Outcomes
  /\ Undisturbed => \A w \in Workers : pc[w] \notin {"undo", "undone"}

CountInv == IInv /\ LogRetries /\ Courses /\ LocksCounted

-----------------------------------------------------------------------------

LEMMA LockCounts ==
  ASSUME TypeOK, NEW k \in Keys, Lock(k)
  PROVE  \A j \in Keys : refs'[<<Topic, j>>] = IF j = k THEN refs[<<Topic, j>>] + 1
                                                 ELSE refs[<<Topic, j>>]
<1>1. refs' = [refs EXCEPT ![<<Topic, k>>] = refs[<<Topic, k>>] + 1]
  BY DEF Lock, Table!Acquire
<1>2. refs \in [{Topic} \X Keys -> Nat]
  BY DEF TypeOK
<1> SUFFICES ASSUME NEW j \in Keys
             PROVE  refs'[<<Topic, j>>] = IF j = k THEN refs[<<Topic, j>>] + 1
                                                 ELSE refs[<<Topic, j>>]
  OBVIOUS
<1>3. <<Topic, j>> \in {Topic} \X Keys /\ refs[<<Topic, j>>] \in Nat
  BY <1>2
<1>4. CASE j = k
  BY <1>1, <1>2, <1>3, <1>4
<1>5. CASE j # k
  BY <1>1, <1>2, <1>3, <1>5
<1> QED
  BY <1>4, <1>5

LEMMA UnlockCounts ==
  ASSUME TypeOK, NEW k \in Keys, Locked(k), Unlock(k)
  PROVE  \A j \in Keys : refs'[<<Topic, j>>] = IF j = k THEN refs[<<Topic, j>>] - 1
                                                 ELSE refs[<<Topic, j>>]
<1>1. refs' = [refs EXCEPT ![<<Topic, k>>] = refs[<<Topic, k>>] - 1]
  BY DEF Unlock, Table!Release
<1>2. refs \in [{Topic} \X Keys -> Nat]
  BY DEF TypeOK
<1> SUFFICES ASSUME NEW j \in Keys
             PROVE  refs'[<<Topic, j>>] = IF j = k THEN refs[<<Topic, j>>] - 1
                                                 ELSE refs[<<Topic, j>>]
  OBVIOUS
<1>3. <<Topic, j>> \in {Topic} \X Keys /\ refs[<<Topic, j>>] \in Nat
  BY <1>2
<1>4. CASE j = k
  BY <1>1, <1>2, <1>3, <1>4
<1>5. CASE j # k
  BY <1>1, <1>2, <1>3, <1>5
<1> QED
  BY <1>4, <1>5

LEMMA PendingFinite ==
  ASSUME Base, NEW k
  PROVE  IsFiniteSet(PendingOf(k)) /\ Cardinality(PendingOf(k)) \in Nat
<1>1. next["retry"] \in Int /\ Len(retryLog) \in Int
  BY DEF Base, TypeOK, Workers
<1>2. IsFiniteSet(Pending)
  BY <1>1, FS_Interval DEF Pending
<1>3. PendingOf(k) \subseteq Pending
  BY DEF PendingOf
<1> QED
  BY <1>2, <1>3, FS_Subset, FS_CardinalityType

\* What the retry worker marks no longer waits.
LEMMA PendingMarked ==
  ASSUME Base, pc["retry"] # "idle", Finish("retry", 1), UNCHANGED retryLog
  PROVE  \A k \in Keys :
           Cardinality(PendingOf(k)') = IF k = Key("retry") THEN Cardinality(PendingOf(k)) - 1
                                                          ELSE Cardinality(PendingOf(k))
<1> DEFINE n == next["retry"]
<1>1. /\ n \in 1..Len(retryLog) /\ Len(retryLog) \in Nat
      /\ KeyOf[retryLog[n].msg] = Key("retry")
  BY DEF Base, TypeOK, RetryCursor, Key
<1>2. next'["retry"] = n + 1
  BY DEF Finish, Base, TypeOK, Workers
<1> SUFFICES ASSUME NEW k \in Keys
             PROVE  Cardinality(PendingOf(k)') = IF k = Key("retry") THEN Cardinality(PendingOf(k)) - 1
                                                                   ELSE Cardinality(PendingOf(k))
  OBVIOUS
<1>3. IsFiniteSet(PendingOf(k)) /\ Cardinality(PendingOf(k)) \in Nat
  BY PendingFinite
<1>4. Pending' = Pending \ {n} /\ n \in Pending
  BY <1>1, <1>2 DEF Pending
<1>5. PendingOf(k)' = PendingOf(k) \ {n}
  BY <1>4 DEF PendingOf
<1>6. n \in PendingOf(k) <=> k = Key("retry")
  BY <1>1, <1>4 DEF PendingOf
<1>7. Cardinality(PendingOf(k) \ {n}) =
        IF n \in PendingOf(k) THEN Cardinality(PendingOf(k)) - 1 ELSE Cardinality(PendingOf(k))
  BY <1>3, FS_RemoveElement
<1> QED
  BY <1>3, <1>5, <1>6, <1>7

\* What the main worker publishes waits.
LEMMA PendingPublished ==
  ASSUME Base, pc["main"] # "idle", Published("main"), next'["retry"] = next["retry"]
  PROVE  \A k \in Keys :
           Cardinality(PendingOf(k)') = IF k = Key("main") THEN Cardinality(PendingOf(k)) + 1
                                                          ELSE Cardinality(PendingOf(k))
<1> DEFINE n == Len(retryLog) + 1
<1>1. /\ Len(retryLog) \in Nat /\ next["retry"] \in Nat /\ next["retry"] <= n
      /\ Len(retryLog') = n
      /\ \A o \in 1..Len(retryLog) : retryLog'[o] = retryLog[o]
      /\ KeyOf[retryLog'[n].msg] = Key("main")
  BY PublishedLog DEF Base, TypeOK, InRange, Workers, Key
<1> SUFFICES ASSUME NEW k \in Keys
             PROVE  Cardinality(PendingOf(k)') = IF k = Key("main") THEN Cardinality(PendingOf(k)) + 1
                                                                   ELSE Cardinality(PendingOf(k))
  OBVIOUS
<1>2. IsFiniteSet(PendingOf(k)) /\ Cardinality(PendingOf(k)) \in Nat
  BY PendingFinite
<1>3. Pending' = Pending \cup {n} /\ n \notin Pending
  BY <1>1 DEF Pending
<1>4. \A o \in Pending : retryLog'[o] = retryLog[o]
  BY <1>1 DEF Pending, Base, TypeOK, Workers
<1>5. PendingOf(k)' = PendingOf(k) \cup (IF k = Key("main") THEN {n} ELSE {})
  BY <1>1, <1>3, <1>4 DEF PendingOf
<1>6. n \notin PendingOf(k)
  BY <1>3 DEF PendingOf
<1>7. Cardinality(PendingOf(k) \cup {n}) = Cardinality(PendingOf(k)) + 1
  BY <1>2, <1>6, FS_AddElement
<1> QED
  BY <1>2, <1>5, <1>7

\* What the retry worker publishes again moves to the end.
LEMMA PendingMoved ==
  ASSUME Base, pc["retry"] # "idle", Published("retry"), Finish("retry", 1)
  PROVE  \A k \in Keys : Cardinality(PendingOf(k)') = Cardinality(PendingOf(k))
<1> DEFINE n == next["retry"]
           m == Len(retryLog) + 1
<1>1. /\ n \in 1..Len(retryLog) /\ Len(retryLog) \in Nat
      /\ KeyOf[retryLog[n].msg] = Key("retry")
  BY DEF Base, TypeOK, RetryCursor, Key
<1>2. /\ Len(retryLog') = m
      /\ \A o \in 1..Len(retryLog) : retryLog'[o] = retryLog[o]
      /\ KeyOf[retryLog'[m].msg] = Key("retry")
      /\ next'["retry"] = n + 1
  BY PublishedLog DEF Finish, Base, TypeOK, Workers, Key
<1> SUFFICES ASSUME NEW k \in Keys
             PROVE  Cardinality(PendingOf(k)') = Cardinality(PendingOf(k))
  OBVIOUS
<1>3. IsFiniteSet(PendingOf(k)) /\ Cardinality(PendingOf(k)) \in Nat
  BY PendingFinite
<1>4. /\ Pending' = (Pending \ {n}) \cup {m}
      /\ n \in Pending /\ m \notin Pending
  BY <1>1, <1>2 DEF Pending
<1>5. \A o \in Pending : retryLog'[o] = retryLog[o]
  BY <1>1, <1>2 DEF Pending
<1>6. CASE k = Key("retry")
  <2>1. PendingOf(k)' = (PendingOf(k) \ {n}) \cup {m}
    BY <1>2, <1>4, <1>5, <1>6 DEF PendingOf
  <2>2. n \in PendingOf(k) /\ m \notin PendingOf(k) \ {n}
    BY <1>1, <1>4, <1>6 DEF PendingOf
  <2>3. /\ IsFiniteSet(PendingOf(k) \ {n})
        /\ Cardinality(PendingOf(k) \ {n}) = Cardinality(PendingOf(k)) - 1
    BY <1>3, <2>2, FS_RemoveElement
  <2>4. Cardinality((PendingOf(k) \ {n}) \cup {m}) = Cardinality(PendingOf(k) \ {n}) + 1
    BY <2>2, <2>3, FS_AddElement
  <2> QED
    BY <1>3, <2>1, <2>3, <2>4
<1>7. CASE k # Key("retry")
  <2>1. PendingOf(k)' = PendingOf(k)
    BY <1>1, <1>2, <1>4, <1>5, <1>7 DEF PendingOf
  <2> QED
    BY <2>1
<1> QED
  BY <1>6, <1>7
-----------------------------------------------------------------------------
(* How the count of a key follows its messages *)

LEMMA OnlyMoreFaults == ASSUME TypeOK, faults' = faults \/ Fault, rewinds' = rewinds
                        PROVE  Undisturbed' => Undisturbed
BY DEF Undisturbed, Fault, TypeOK

LEMMA FaultDisturbs == ASSUME TypeOK, Fault PROVE ~Undisturbed'
BY DEF Undisturbed, Fault, TypeOK

\* A worker goes on to v.
LEMMA CourseStep ==
  ASSUME CountInv, NEW w \in Workers, NEW v,
         pc' = [pc EXCEPT ![w] = v], Undisturbed' => Undisturbed,
         w = "main" => v # "unlock",
         w = "retry" => v \notin {"acquire", "lock"},
         v = "rejected" => "reject" \in Outcomes,
         v \in {"undo", "undone"} => ~Undisturbed'
  PROVE  Courses'
<1>1. pc \in [Workers -> PCs]
  BY DEF CountInv, IInv, Base, TypeOK
<1>2. pc'[w] = v /\ \A u \in Workers \ {w} : pc'[u] = pc[u]
  BY <1>1
<1> QED
  BY <1>2 DEF CountInv, Courses, Workers

LEMMA RetriesStay == ASSUME LogRetries, UNCHANGED retryLog PROVE LogRetries'
BY DEF LogRetries

LEMMA RetriesPublished ==
  ASSUME Base, LogRetries, NEW w \in Workers, pc[w] # "idle", Published(w)
  PROVE  LogRetries'
<1> DEFINE d == [cur[w] EXCEPT !.attempt = @ + 1]
<1>1. cur[w] \in Deliveries /\ cur[w].attempt \in Nat
  BY CurrentDelivery
<1>2. d \in Deliveries /\ d.attempt = cur[w].attempt + 1
  BY <1>1 DEF Deliveries
<1>3. IsRetry(d)
  BY <1>1, <1>2 DEF IsRetry
<1>4. retryLog' = Append(retryLog, d) /\ retryLog \in Seq(Deliveries)
  BY DEF Published, Base, TypeOK
<1> HIDE DEF d
<1> QED
  BY <1>2, <1>3, <1>4 DEF LogRetries

\* Nothing is owed more or less, and no lock is taken or given back.
LEMMA SameCounted ==
  ASSUME CountInv, Undisturbed' => Undisturbed, UNCHANGED <<retryLog, refs>>,
         next'["retry"] = next["retry"],
         \A k \in Keys : TakenAhead(k)' = TakenAhead(k) /\ GivenBack(k)' = GivenBack(k)
  PROVE  LocksCounted'
<1>1. ASSUME NEW k \in Keys PROVE Owed(k)' = Owed(k)
  <2>1. PendingOf(k)' = PendingOf(k)
    BY DEF PendingOf, Pending
  <2> QED
    BY <2>1 DEF Owed
<1> QED
  BY <1>1 DEF CountInv, LocksCounted

\* The workers whose course says nothing about locks.
Apart(w, v) == \/ w = "main" /\ v \notin {"lock", "publish"}
               \/ w = "retry" /\ v # "unlock"

LEMMA ApartStep ==
  ASSUME CountInv, Undisturbed' => Undisturbed, UNCHANGED <<retryLog, refs>>,
         next'["retry"] = next["retry"], NEW w \in Workers, NEW v,
         Apart(w, pc[w]), Apart(w, v), pc' = [pc EXCEPT ![w] = v],
         \A u \in Workers \ {w} : cur'[u] = cur[u]
  PROVE  LocksCounted'
<1>1. pc \in [Workers -> PCs]
  BY DEF CountInv, IInv, Base, TypeOK
<1>2. pc'[w] = v /\ \A u \in Workers \ {w} : pc'[u] = pc[u]
  BY <1>1
<1>3. ASSUME NEW k \in Keys
      PROVE  TakenAhead(k)' = TakenAhead(k) /\ GivenBack(k)' = GivenBack(k)
  <2>1. CASE w = "main"
    <3>1. pc'["retry"] = pc["retry"] /\ cur'["retry"] = cur["retry"]
      BY <1>2, <2>1 DEF Workers
    <3> QED
      BY <1>2, <2>1, <3>1 DEF TakenAhead, GivenBack, Key, Apart
  <2>2. CASE w = "retry"
    <3>1. pc'["main"] = pc["main"] /\ cur'["main"] = cur["main"]
      BY <1>2, <2>2 DEF Workers
    <3> QED
      BY <1>2, <2>2, <3>1 DEF TakenAhead, GivenBack, Key, Apart
  <2> QED
    BY <2>1, <2>2 DEF Workers
<1> QED
  BY <1>3, SameCounted

\* The retry worker marks a message whose lock stays behind.
LEMMA LeftBehind ==
  ASSUME CountInv, Undisturbed' => Undisturbed, UNCHANGED <<retryLog, refs>>,
         pc["retry"] \notin {"idle", "unlock"}, Finish("retry", 1), ~AlwaysFreed
  PROVE  LocksCounted'
<1>1. Base
  BY DEF CountInv, IInv
<1>2. \A k \in Keys :
        Cardinality(PendingOf(k)') = IF k = Key("retry") THEN Cardinality(PendingOf(k)) - 1
                                                       ELSE Cardinality(PendingOf(k))
  BY <1>1, PendingMarked
<1>3. ASSUME NEW k \in Keys
      PROVE  TakenAhead(k)' = TakenAhead(k) /\ GivenBack(k)' = GivenBack(k)
  <2>1. /\ pc'["retry"] = "idle" /\ pc'["main"] = pc["main"] /\ cur'["main"] = cur["main"]
    BY <1>1 DEF Finish, Base, TypeOK, Workers
  <2> QED
    BY <2>1 DEF TakenAhead, GivenBack, Key
<1>4. ASSUME NEW k \in Keys PROVE Owed(k)' <= Owed(k) /\ Owed(k)' \in Int /\ Owed(k) \in Int
  <2>1. Cardinality(PendingOf(k)) \in Nat
    BY <1>1, PendingFinite
  <2>2. TakenAhead(k) \in Int /\ GivenBack(k) \in Int
    BY DEF TakenAhead, GivenBack
  <2> QED
    BY <1>2, <1>3, <2>1, <2>2 DEF Owed
<1>5. ASSUME NEW k \in Keys PROVE refs[<<Topic, k>>] \in Nat
  BY <1>1 DEF Base, TypeOK
<1>6. ~AlwaysFreed'
  BY DEF AlwaysFreed
<1> QED
  BY <1>4, <1>5, <1>6 DEF CountInv, LocksCounted

Counted == LogRetries /\ Courses /\ LocksCounted

LEMMA GotoPC ==
  ASSUME TypeOK, NEW w \in Workers, NEW v, Goto(w, v)
  PROVE  /\ pc' = [pc EXCEPT ![w] = v]
         /\ next'["retry"] = next["retry"]
         /\ \A u \in Workers \ {w} : cur'[u] = cur[u]
BY DEF Goto

LEMMA FinishPC ==
  ASSUME TypeOK, NEW w \in Workers, NEW mark, Finish(w, mark)
  PROVE  /\ pc' = [pc EXCEPT ![w] = "idle"]
         /\ w = "main" => next'["retry"] = next["retry"]
         /\ \A u \in Workers \ {w} : cur'[u] = cur[u]
BY DEF Finish, TypeOK, Workers

LEMMA RedirectCourse ==
  ASSUME Base, LogRetries, NEW w \in Workers, pc[w] # "idle"
  PROVE  /\ w = "main" => Redirect(cur[w]) \in {"exhausted", "acquire"}
         /\ w = "retry" => Redirect(cur[w]) \in {"exhausted", "publish"}
<1>1. cur[w] \in Deliveries /\ cur[w].attempt \in Nat
  BY CurrentDelivery
<1>2. CASE w = "main"
  <2>1. ~IsRetry(cur[w])
    BY <1>2 DEF Base, MainCursor, IsRetry
  <2> QED
    BY <1>1, <1>2, <2>1, ChainAssumption DEF Redirect
<1>3. CASE w = "retry"
  <2>1. IsRetry(cur[w])
    BY <1>3 DEF Base, RetryCursor, LogRetries
  <2> QED
    BY <1>1, <1>3, <2>1, ChainAssumption DEF Redirect
<1> QED
  BY <1>2, <1>3 DEF Workers

LEMMA DeliverCounted ==
  ASSUME CountInv, NEW w \in Workers, Deliver(w)
  PROVE  Counted'
<1>0. Base /\ TypeOK /\ LogRetries
  BY DEF CountInv, IInv, Base
<1>1. /\ UNCHANGED <<next, retryLog, refs, done, dlq, faults, rewinds>>
      /\ pc[w] = "idle"
      /\ \A u \in Workers \ {w} : cur'[u] = cur[u]
  BY <1>0 DEF Deliver, DeliverMain, DeliverRetry, TypeOK
<1>2. PICK v \in {"handle", "exhausted", "acquire"} :
        pc' = [pc EXCEPT ![w] = v] /\ (w = "retry" => v = "handle")
  <2>1. CASE w = "main"
    <3> DEFINE d == [msg |-> next["main"], attempt |-> 0]
    <3>1. d \in Deliveries /\ ~IsRetry(d) /\ d.attempt = 0
      BY <2>1 DEF Deliver, DeliverMain, Deliveries, IsRetry
    <3>2. Redirect(d) \in {"exhausted", "acquire"}
      BY <3>1, ChainAssumption DEF Redirect
    <3>3. DeliverMain
      BY <2>1 DEF Deliver
    <3> QED
      BY <2>1, <3>2, <3>3 DEF DeliverMain
  <2>2. CASE w = "retry"
    BY <2>2 DEF Deliver, DeliverRetry
  <2> QED
    BY <2>1, <2>2 DEF Workers
<1>3. Undisturbed' => Undisturbed
  BY <1>1 DEF Undisturbed
<1>4. Courses'
  BY <1>2, <1>3, CourseStep
<1>5. LocksCounted'
  BY <1>1, <1>2, <1>3, ApartStep DEF Apart, Workers
<1>6. LogRetries'
  BY <1>0, <1>1, RetriesStay
<1> QED
  BY <1>4, <1>5, <1>6 DEF Counted

LEMMA HandleCounted ==
  ASSUME CountInv, NEW w \in Workers, Handle(w)
  PROVE  Counted'
<1>0. Base /\ TypeOK /\ LogRetries
  BY DEF CountInv, IInv, Base
<1>1. UNCHANGED <<retryLog, refs, faults, rewinds>> /\ pc[w] = "handle"
  BY DEF Handle, HandleOk, HandleFails, HandleRejects
<1>2. Undisturbed' => Undisturbed
  BY <1>1 DEF Undisturbed
<1>3. PICK v : /\ pc' = [pc EXCEPT ![w] = v]
               /\ next'["retry"] = next["retry"]
               /\ \A u \in Workers \ {w} : cur'[u] = cur[u]
               /\ w = "main" => v \in {"idle", "exhausted", "acquire", "rejected"}
               /\ w = "retry" => v \in {"free", "exhausted", "publish", "rejected"}
               /\ v = "rejected" => "reject" \in Outcomes
  <2>1. CASE HandleOk(w)
    BY <1>0, <2>1, GotoPC, FinishPC DEF HandleOk, Mark, Workers
  <2>2. CASE HandleFails(w)
    <3>1. Goto(w, Redirect(cur[w]))
      BY <2>2 DEF HandleFails
    <3>2. PICK v : v = Redirect(cur[w])
      OBVIOUS
    <3>3. /\ w = "main" => v \in {"exhausted", "acquire"}
          /\ w = "retry" => v \in {"exhausted", "publish"}
      BY <1>0, <1>1, <3>2, RedirectCourse
    <3>4. /\ pc' = [pc EXCEPT ![w] = v]
          /\ next'["retry"] = next["retry"]
          /\ \A u \in Workers \ {w} : cur'[u] = cur[u]
      BY <1>0, <3>1, <3>2, GotoPC
    <3> QED
      BY <3>3, <3>4 DEF Workers
  <2>3. CASE HandleRejects(w)
    BY <1>0, <2>3, GotoPC DEF HandleRejects
  <2> QED
    BY <2>1, <2>2, <2>3 DEF Handle
<1>4. Courses'
  BY <1>2, <1>3, CourseStep DEF Workers
<1>5. LocksCounted'
  BY <1>1, <1>2, <1>3, ApartStep DEF Apart, Workers
<1>6. LogRetries'
  BY <1>0, <1>1, RetriesStay
<1> QED
  BY <1>4, <1>5, <1>6 DEF Counted

LEMMA AcquireCounted ==
  ASSUME CountInv, NEW w \in Workers, Acquire(w)
  PROVE  Counted'
<1>0. Base /\ TypeOK /\ LogRetries
  BY DEF CountInv, IInv, Base
<1>1. w = "main" /\ pc["main"] = "acquire"
  BY DEF CountInv, Courses, Acquire, Workers
<1>2. /\ UNCHANGED <<retryLog, faults, rewinds, next, cur>> /\ Lock(Key("main"))
      /\ pc' = [pc EXCEPT !["main"] = "lock"]
  BY <1>1 DEF Acquire, Goto
<1>3. Undisturbed' => Undisturbed
  BY <1>2 DEF Undisturbed
<1>4. Courses'
  BY <1>2, <1>3, CourseStep DEF Workers
<1>5. LogRetries'
  BY <1>0, <1>2, RetriesStay
<1>6. LocksCounted'
  <2> SUFFICES ASSUME Undisturbed, NEW k \in Keys
               PROVE  /\ refs'[<<Topic, k>>] >= Owed(k)'
                      /\ AlwaysFreed => refs'[<<Topic, k>>] = Owed(k)'
    BY <1>3 DEF LocksCounted, AlwaysFreed
  <2>1. /\ refs[<<Topic, k>>] >= Owed(k)
        /\ AlwaysFreed => refs[<<Topic, k>>] = Owed(k)
        /\ refs[<<Topic, k>>] \in Nat
    BY <1>0 DEF CountInv, LocksCounted, TypeOK
  <2>2. Key("main") \in Keys
    BY <1>0, <1>1, KeyIn DEF Workers
  <2>3. refs'[<<Topic, k>>] = IF k = Key("main") THEN refs[<<Topic, k>>] + 1
                                                ELSE refs[<<Topic, k>>]
    BY <1>0, <1>2, <2>2, LockCounts
  <2>4. PendingOf(k)' = PendingOf(k) /\ GivenBack(k)' = GivenBack(k) /\ GivenBack(k) \in Int
    BY <1>0, <1>2 DEF PendingOf, Pending, GivenBack, Key, TypeOK, Workers
  <2>5. TakenAhead(k) = 0 /\ TakenAhead(k)' = IF k = Key("main") THEN 1 ELSE 0
    BY <1>0, <1>1, <1>2 DEF TakenAhead, Key, TypeOK, Workers
  <2>6. Cardinality(PendingOf(k)) \in Nat
    BY <1>0, PendingFinite
  <2> QED
    BY <2>1, <2>3, <2>4, <2>5, <2>6 DEF Owed
<1> QED
  BY <1>4, <1>5, <1>6 DEF Counted

LEMMA LockProducedCounted ==
  ASSUME CountInv, NEW w \in Workers, LockProduced(w)
  PROVE  Counted'
<1>0. Base /\ TypeOK /\ LogRetries
  BY DEF CountInv, IInv, Base
<1>1. w = "main" /\ pc["main"] = "lock"
  BY DEF CountInv, Courses, LockProduced, Workers
<1>2. /\ UNCHANGED <<retryLog, refs, faults, rewinds, next, cur>>
      /\ pc' = [pc EXCEPT !["main"] = "publish"]
  BY <1>1 DEF LockProduced, Goto
<1>3. Undisturbed' => Undisturbed
  BY <1>2 DEF Undisturbed
<1>4. Courses'
  BY <1>2, <1>3, CourseStep DEF Workers
<1>5. \A k \in Keys : TakenAhead(k)' = TakenAhead(k) /\ GivenBack(k)' = GivenBack(k)
  BY <1>0, <1>1, <1>2 DEF TakenAhead, GivenBack, Key, TypeOK, Workers
<1> QED
  BY <1>0, <1>2, <1>3, <1>4, <1>5, SameCounted, RetriesStay DEF Counted

LEMMA PublishCounted ==
  ASSUME CountInv, NEW w \in Workers, PublishToRetry(w)
  PROVE  Counted'
<1>0. Base /\ TypeOK /\ LogRetries
  BY DEF CountInv, IInv, Base
<1>1. /\ UNCHANGED <<refs, faults, rewinds>> /\ pc[w] = "publish"
      /\ Published(w) /\ Finish(w, 1)
  BY DEF PublishToRetry, Mark
<1>2. /\ pc' = [pc EXCEPT ![w] = "idle"]
      /\ w = "main" => next'["retry"] = next["retry"]
      /\ \A u \in Workers \ {w} : cur'[u] = cur[u]
  BY <1>0, <1>1, FinishPC
<1>3. Undisturbed' => Undisturbed
  BY <1>1 DEF Undisturbed
<1>4. Courses'
  BY <1>2, <1>3, CourseStep
<1>5. LogRetries'
  BY <1>0, <1>1, RetriesPublished
<1>6. LocksCounted'
  <2> SUFFICES ASSUME Undisturbed, NEW k \in Keys
               PROVE  /\ refs'[<<Topic, k>>] >= Owed(k)'
                      /\ AlwaysFreed => refs'[<<Topic, k>>] = Owed(k)'
    BY <1>3 DEF LocksCounted, AlwaysFreed
  <2>1. /\ refs[<<Topic, k>>] >= Owed(k)
        /\ AlwaysFreed => refs[<<Topic, k>>] = Owed(k)
        /\ refs'[<<Topic, k>>] = refs[<<Topic, k>>]
    BY <1>0, <1>1 DEF CountInv, LocksCounted, TypeOK
  <2>2. Cardinality(PendingOf(k)) \in Nat
    BY <1>0, PendingFinite
  <2>3. CASE w = "main"
    <3>1. Cardinality(PendingOf(k)') = IF k = Key("main") THEN Cardinality(PendingOf(k)) + 1
                                                           ELSE Cardinality(PendingOf(k))
      BY <1>0, <1>1, <1>2, <2>3, PendingPublished
    <3>2. TakenAhead(k)' = 0 /\ TakenAhead(k) = IF k = Key("main") THEN 1 ELSE 0
      BY <1>0, <1>1, <1>2, <2>3 DEF TakenAhead, TypeOK
    <3>3. GivenBack(k)' = GivenBack(k) /\ GivenBack(k) \in Int
      BY <1>0, <1>2, <2>3 DEF GivenBack, Key, TypeOK, Workers
    <3>4. Owed(k)' = Owed(k)
      BY <2>2, <3>1, <3>2, <3>3 DEF Owed
    <3> QED
      BY <2>1, <3>4
  <2>4. CASE w = "retry"
    <3>1. Cardinality(PendingOf(k)') = Cardinality(PendingOf(k))
      BY <1>0, <1>1, <2>4, PendingMoved
    <3>2. TakenAhead(k)' = TakenAhead(k)
      BY <1>0, <1>2, <2>4 DEF TakenAhead, Key, TypeOK, Workers
    <3>3. GivenBack(k)' = 0 /\ GivenBack(k) = 0
      BY <1>0, <1>1, <1>2, <2>4 DEF GivenBack, TypeOK
    <3>4. Owed(k)' = Owed(k)
      BY <3>1, <3>2, <3>3 DEF Owed
    <3> QED
      BY <2>1, <3>4
  <2> QED
    BY <2>3, <2>4 DEF Workers
<1> QED
  BY <1>4, <1>5, <1>6 DEF Counted

LEMMA DLQCounted ==
  ASSUME CountInv, NEW w \in Workers, GiveUp(w) \/ Reject(w)
  PROVE  Counted'
<1>0. Base /\ TypeOK /\ LogRetries
  BY DEF CountInv, IInv, Base
<1>1. UNCHANGED <<retryLog, refs, faults, rewinds>> /\ pc[w] \in {"exhausted", "rejected"}
  BY DEF GiveUp, Reject
<1>2. Undisturbed' => Undisturbed
  BY <1>1 DEF Undisturbed
<1>3. PICK v \in {"idle", "free"} :
        /\ pc' = [pc EXCEPT ![w] = v]
        /\ \A u \in Workers \ {w} : cur'[u] = cur[u]
        /\ \/ next'["retry"] = next["retry"]
           \/ w = "retry" /\ Finish("retry", 1) /\ ~AlwaysFreed
  <2>1. CASE GiveUp(w)
    BY <1>0, <2>1, GotoPC, FinishPC DEF GiveUp, Mark, Workers, AlwaysFreed
  <2>2. CASE Reject(w)
    <3>1. ~AlwaysFreed
      BY <2>2 DEF Reject, CountInv, Courses, AlwaysFreed
    <3>2. Finish(w, 1)
      BY <2>2 DEF Reject, Mark
    <3> QED
      BY <1>0, <3>1, <3>2, FinishPC DEF Workers
  <2> QED
    BY <2>1, <2>2
<1>4. Courses'
  BY <1>2, <1>3, CourseStep DEF Workers
<1>5. LocksCounted'
  <2>1. CASE next'["retry"] = next["retry"]
    BY <1>1, <1>2, <1>3, <2>1, ApartStep DEF Apart, Workers
  <2>2. CASE w = "retry" /\ Finish("retry", 1) /\ ~AlwaysFreed
    BY <1>1, <1>2, <2>2, LeftBehind
  <2> QED
    BY <1>3, <2>1, <2>2
<1> QED
  BY <1>0, <1>1, <1>4, <1>5, RetriesStay DEF Counted

\* The count is positive when it is given back: the message still waits.
LEMMA ReleaseLocalCounted ==
  ASSUME CountInv, NEW w \in Workers, ReleaseLocal(w)
  PROVE  Counted'
<1>0. Base /\ TypeOK /\ LogRetries
  BY DEF CountInv, IInv, Base
<1>1. UNCHANGED <<retryLog, faults, rewinds>> /\ pc[w] = "free"
  BY DEF ReleaseLocal
<1>2. Undisturbed' => Undisturbed
  BY <1>1 DEF Undisturbed
<1>3. LogRetries'
  BY <1>0, <1>1, RetriesStay
<1>4. CASE w = "main"
  <2>1. ~IsRetry(cur["main"])
    BY <1>0, <1>1, <1>4 DEF Base, MainCursor, IsRetry
  <2>2. Finish("main", 0) /\ UNCHANGED refs
    BY <1>4, <2>1 DEF ReleaseLocal, Redeliver
  <2>3. /\ pc' = [pc EXCEPT !["main"] = "idle"]
        /\ next'["retry"] = next["retry"]
        /\ \A u \in Workers \ {"main"} : cur'[u] = cur[u]
    BY <1>0, <2>2, FinishPC DEF Workers
  <2>4. Courses'
    BY <1>2, <2>3, CourseStep DEF Workers
  <2>5. LocksCounted'
    BY <1>1, <1>2, <1>4, <2>2, <2>3, ApartStep DEF Apart, Workers
  <2> QED
    BY <1>3, <2>4, <2>5 DEF Counted
<1>5. CASE w = "retry"
  <2>1. IsRetry(cur["retry"])
    BY <1>0, <1>1, <1>5 DEF Base, RetryCursor, LogRetries
  <2>2. Unlock(Key("retry")) /\ Goto("retry", "unlock")
    BY <1>5, <2>1 DEF ReleaseLocal
  <2>3. /\ pc' = [pc EXCEPT !["retry"] = "unlock"]
        /\ next' = next /\ cur' = cur
    BY <2>2 DEF Goto
  <2>4. Courses'
    BY <1>2, <2>3, CourseStep DEF Workers
  <2>5. Key("retry") \in Keys
    BY <1>0, <1>1, <1>5, KeyIn DEF Workers
  <2>6. \A k \in Keys : GivenBack(k) = 0 /\ GivenBack(k)' = IF k = Key("retry") THEN 1 ELSE 0
    BY <1>0, <1>1, <1>5, <2>3 DEF GivenBack, Key, TypeOK, Workers
  <2>7. \A k \in Keys : /\ TakenAhead(k)' = TakenAhead(k)
                        /\ TakenAhead(k) \in {0, 1}
                        /\ PendingOf(k)' = PendingOf(k)
    BY <1>0, <1>1, <2>3 DEF TakenAhead, Key, TypeOK, Workers, PendingOf, Pending
  <2>8. LocksCounted'
    <3> SUFFICES ASSUME Undisturbed, NEW k \in Keys
                 PROVE  /\ refs'[<<Topic, k>>] >= Owed(k)'
                        /\ AlwaysFreed => refs'[<<Topic, k>>] = Owed(k)'
      BY <1>2 DEF LocksCounted, AlwaysFreed
    <3>1. \A j \in Keys : /\ refs[<<Topic, j>>] >= Owed(j)
                          /\ AlwaysFreed => refs[<<Topic, j>>] = Owed(j)
                          /\ refs[<<Topic, j>>] \in Nat
      BY <1>0 DEF CountInv, LocksCounted, TypeOK
    <3>2. \A j \in Keys : Cardinality(PendingOf(j)) \in Nat
      BY <1>0, PendingFinite
    <3>3. Locked(Key("retry"))
      <4>1. next["retry"] \in PendingOf(Key("retry"))
        BY <1>0, <1>1, <1>5 DEF Base, TypeOK, RetryCursor, PendingOf, Pending, Key, Workers
      <4>2. IsFiniteSet(PendingOf(Key("retry"))) /\ Cardinality(PendingOf(Key("retry"))) # 0
        BY <1>0, <4>1, PendingFinite, FS_EmptySet
      <4>3. Owed(Key("retry")) > 0
        BY <2>5, <2>6, <2>7, <3>2, <4>2 DEF Owed
      <4>4. Owed(Key("retry")) \in Int
        BY <2>5, <2>6, <2>7, <3>2 DEF Owed
      <4>5. /\ refs[<<Topic, Key("retry")>>] >= Owed(Key("retry"))
            /\ refs[<<Topic, Key("retry")>>] \in Nat
        BY <2>5, <3>1
      <4>6. PICK n : n = refs[<<Topic, Key("retry")>>]
        OBVIOUS
      <4>7. n > 0
        BY <4>3, <4>4, <4>5, <4>6
      <4> QED
        BY <4>6, <4>7 DEF Locked
    <3>4. refs'[<<Topic, k>>] = IF k = Key("retry") THEN refs[<<Topic, k>>] - 1
                                                   ELSE refs[<<Topic, k>>]
      BY <1>0, <2>2, <2>5, <3>3, UnlockCounts
    <3> QED
      BY <2>6, <2>7, <3>1, <3>2, <3>4 DEF Owed
  <2> QED
    BY <1>3, <2>4, <2>8 DEF Counted
<1> QED
  BY <1>4, <1>5 DEF Workers

LEMMA ReleaseProducedCounted ==
  ASSUME CountInv, NEW w \in Workers, ReleaseProduced(w)
  PROVE  Counted'
<1>0. Base /\ TypeOK /\ LogRetries
  BY DEF CountInv, IInv, Base
<1>1. UNCHANGED <<retryLog, refs, faults, rewinds>> /\ pc["retry"] = "unlock" /\ w = "retry"
  BY DEF CountInv, Courses, ReleaseProduced, Workers
<1>2. Finish("retry", 1)
  BY <1>1 DEF ReleaseProduced, Mark
<1>3. Undisturbed' => Undisturbed
  BY <1>1 DEF Undisturbed
<1>4. pc' = [pc EXCEPT !["retry"] = "idle"] /\ cur'["main"] = cur["main"]
  BY <1>0, <1>2, FinishPC DEF Workers
<1>5. Courses'
  BY <1>3, <1>4, CourseStep DEF Workers
<1>6. LocksCounted'
  <2> SUFFICES ASSUME Undisturbed, NEW k \in Keys
               PROVE  /\ refs'[<<Topic, k>>] >= Owed(k)'
                      /\ AlwaysFreed => refs'[<<Topic, k>>] = Owed(k)'
    BY <1>3 DEF LocksCounted, AlwaysFreed
  <2>1. /\ refs[<<Topic, k>>] >= Owed(k)
        /\ AlwaysFreed => refs[<<Topic, k>>] = Owed(k)
    BY DEF CountInv, LocksCounted
  <2>2. Cardinality(PendingOf(k)) \in Nat
    BY <1>0, PendingFinite
  <2>3. Cardinality(PendingOf(k)') = IF k = Key("retry") THEN Cardinality(PendingOf(k)) - 1
                                                         ELSE Cardinality(PendingOf(k))
    BY <1>0, <1>1, <1>2, PendingMarked
  <2>4. GivenBack(k)' = 0 /\ GivenBack(k) = IF k = Key("retry") THEN 1 ELSE 0
    BY <1>0, <1>1, <1>4 DEF GivenBack, TypeOK
  <2>5. TakenAhead(k)' = TakenAhead(k) /\ TakenAhead(k) \in Int
    BY <1>0, <1>4 DEF TakenAhead, Key, TypeOK, Workers
  <2>6. Owed(k)' = Owed(k)
    BY <2>2, <2>3, <2>4, <2>5 DEF Owed
  <2> QED
    BY <1>1, <2>1, <2>6
<1> QED
  BY <1>0, <1>1, <1>5, <1>6, RetriesStay DEF Counted

\* The steps a call that failed takes or follows up.
FailStep(w) == \/ LockFails(w) \/ PublishFails(w) \/ UndoLocal(w) \/ UndoProduced(w)
               \/ UndoFails(w) \/ SendToDLQFails(w) \/ ReleaseFails(w)

LEMMA Disturbs ==
  ASSUME CountInv, NEW w \in Workers, FailStep(w) \/ Rewind(w)
  PROVE  ~Undisturbed'
<1>0. TypeOK
  BY DEF CountInv, IInv, Base
<1>1. CASE UndoLocal(w) \/ UndoProduced(w)
  <2>1. ~Undisturbed
    BY <1>1 DEF CountInv, Courses, UndoLocal, UndoProduced
  <2> QED
    BY <1>1, <2>1 DEF UndoLocal, UndoProduced, Undisturbed
<1>2. CASE Fault
  BY <1>0, <1>2, FaultDisturbs
<1>3. CASE Rewind(w)
  BY <1>0, <1>3 DEF Rewind, TypeOK, Undisturbed
<1> QED
  BY <1>1, <1>2, <1>3
  DEF FailStep, LockFails, PublishFails, UndoFails, SendToDLQFails, ReleaseFails

\* After a disturbance only the courses of the workers are claimed.
LEMMA DisturbedCounted ==
  ASSUME CountInv, NEW w \in Workers, FailStep(w)
  PROVE  Counted'
<1>0. Base /\ TypeOK /\ LogRetries
  BY DEF CountInv, IInv, Base
<1>1. ~Undisturbed'
  BY Disturbs
<1>2. PICK v \in {"idle", "undo", "undone"} : pc' = [pc EXCEPT ![w] = v]
  BY DEF FailStep, LockFails, PublishFails, UndoLocal, UndoProduced, UndoFails, SendToDLQFails,
         ReleaseFails, Goto, Redeliver, Finish
<1>3. Courses'
  BY <1>1, <1>2, CourseStep
<1>4. LocksCounted'
  BY <1>1 DEF LocksCounted
<1>5. LogRetries'
  <2>1. CASE UNCHANGED retryLog
    BY <1>0, <2>1, RetriesStay
  <2>2. CASE Published(w) /\ pc[w] = "publish"
    BY <1>0, <2>2, RetriesPublished
  <2> QED
    BY <2>1, <2>2 DEF FailStep, LockFails, PublishFails, UndoLocal, UndoProduced, UndoFails,
       SendToDLQFails, ReleaseFails
<1> QED
  BY <1>3, <1>4, <1>5 DEF Counted

LEMMA RewindCounted ==
  ASSUME CountInv, NEW w \in Workers, Rewind(w)
  PROVE  Counted'
<1>1. UNCHANGED <<pc, retryLog>>
  BY DEF Rewind
<1>2. ~Undisturbed'
  BY Disturbs
<1> QED
  BY <1>1, <1>2 DEF CountInv, Counted, LogRetries, Courses, LocksCounted

LEMMA InitCounted == ASSUME Init PROVE CountInv
<1>1. IInv
  BY InitInv
<1>2. LogRetries /\ Courses
  BY DEF Init, LogRetries, Courses, Workers
<1>3. LocksCounted
  <2>1. ASSUME NEW k \in Keys
        PROVE  refs[<<Topic, k>>] >= Owed(k) /\ refs[<<Topic, k>>] = Owed(k)
    <3>1. PendingOf(k) = {}
      BY DEF Init, PendingOf, Pending, Workers
    <3>2. TakenAhead(k) = 0 /\ GivenBack(k) = 0
      BY DEF Init, TakenAhead, GivenBack, Workers
    <3>3. Owed(k) = 0
      BY <3>1, <3>2, FS_EmptySet DEF Owed
    <3>4. refs[<<Topic, k>>] = 0
      BY DEF Init, Table!Init
    <3> QED
      BY <3>3, <3>4
  <2> QED
    BY <2>1 DEF LocksCounted
<1> QED
  BY <1>1, <1>2, <1>3 DEF CountInv

LEMMA StepCounted == ASSUME CountInv, [Next]_vars PROVE CountInv'
<1>1. IInv'
  BY StepInv DEF CountInv
<1>2. ASSUME NEW w \in Workers, RedirectStep(w) PROVE Counted'
  BY <1>2, AcquireCounted, LockProducedCounted, PublishCounted, DisturbedCounted
  DEF RedirectStep, FailStep
<1>3. ASSUME NEW w \in Workers, EndStep(w) PROVE Counted'
  BY <1>3, DLQCounted, ReleaseLocalCounted, ReleaseProducedCounted, DisturbedCounted
  DEF EndStep, FailStep
<1>4. ASSUME UNCHANGED vars PROVE Counted'
  <2>1. LogRetries' /\ Courses'
    BY <1>4 DEF vars, CountInv, LogRetries, Courses, Undisturbed
  <2>2. \A k \in Keys : TakenAhead(k)' = TakenAhead(k) /\ GivenBack(k)' = GivenBack(k)
    BY <1>4 DEF vars, TakenAhead, GivenBack, Key
  <2>3. LocksCounted'
    BY <1>4, <2>2, SameCounted DEF vars, Undisturbed
  <2> QED
    BY <2>1, <2>3 DEF Counted
<1>5. ASSUME NEW w \in Workers, WorkerStep(w) PROVE Counted'
  BY <1>2, <1>3, <1>5, DeliverCounted, HandleCounted DEF WorkerStep
<1>6. ASSUME NEW w \in Workers, Rewind(w) PROVE Counted'
  BY <1>6, RewindCounted
<1>7. Counted'
  BY <1>4, <1>5, <1>6 DEF Next
<1> QED
  BY <1>1, <1>7 DEF CountInv, Counted

LEMMA InductiveCount == Spec => []CountInv
<1>1. Init => CountInv
  BY InitCounted
<1>2. CountInv /\ [Next]_vars => CountInv'
  BY StepCounted
<1> QED
  BY <1>1, <1>2, PTL DEF Spec

LEMMA CountedPending == CountInv /\ Undisturbed => PendingLocked
<1> SUFFICES ASSUME CountInv, Undisturbed, NEW k \in Keys, PendingOf(k) # {}, ~Locked(k)
             PROVE  /\ pc["retry"] = "unlock"
                    /\ Key("retry") = k
                    /\ PendingOf(k) = {next["retry"]}
  BY DEF PendingLocked
<1>0. Base
  BY DEF CountInv, IInv
<1>1. IsFiniteSet(PendingOf(k)) /\ Cardinality(PendingOf(k)) \in Nat
  BY <1>0, PendingFinite
<1>2. Cardinality(PendingOf(k)) # 0
  BY <1>1, FS_EmptySet
<1>3. 0 >= Owed(k)
  <2>1. refs[<<Topic, k>>] >= Owed(k)
    BY DEF CountInv, LocksCounted
  <2>2. refs[<<Topic, k>>] \in Nat
    BY <1>0 DEF Base, TypeOK
  <2>3. refs[<<Topic, k>>] = 0
    BY <2>2 DEF Locked
  <2> QED
    BY <2>1, <2>3
<1>4. TakenAhead(k) \in {0, 1} /\ GivenBack(k) \in {0, 1}
  BY DEF TakenAhead, GivenBack
<1>5. GivenBack(k) = 1 /\ Cardinality(PendingOf(k)) = 1
  BY <1>1, <1>2, <1>3, <1>4 DEF Owed
<1>6. pc["retry"] = "unlock" /\ Key("retry") = k
  BY <1>5 DEF GivenBack
<1>7. next["retry"] \in PendingOf(k)
  BY <1>0, <1>6 DEF Base, TypeOK, RetryCursor, PendingOf, Pending, Key, Workers
<1>8. PICK x : PendingOf(k) = {x}
  BY <1>1, <1>5, FS_Singleton
<1> QED
  BY <1>6, <1>7, <1>8

\* As long as no call failed and nothing was delivered twice, a key is
\* locked while a message of it waits in the retry topic (README.md:101),
\* for any handler and any setting.
THEOREM PendingStaysLocked == Spec => [](Undisturbed => PendingLocked)
BY InductiveCount, CountedPending, PTL

LEMMA CountedDrained ==
  CountInv /\ Undisturbed /\ "reject" \notin Outcomes => DrainedUnlocked
<1> SUFFICES ASSUME CountInv, Undisturbed, "reject" \notin Outcomes, FreeOnDLQ, AllIdle,
                    Pending = {}, NEW k \in Keys
             PROVE  ~Locked(k)
  BY DEF DrainedUnlocked
<1>1. refs[<<Topic, k>>] = Owed(k)
  BY DEF CountInv, LocksCounted, AlwaysFreed
<1>2. PendingOf(k) = {}
  BY DEF PendingOf
<1>3. TakenAhead(k) = 0 /\ GivenBack(k) = 0
  BY DEF AllIdle, TakenAhead, GivenBack, Workers
<1>4. Owed(k) = 0
  BY <1>2, <1>3, FS_EmptySet DEF Owed
<1> QED
  BY <1>1, <1>4 DEF Locked

\* And no lock is left over when nothing is left to do, unless the handler
\* rejects a message or the settings keep the locks of the DLQ (config.go:59).
THEOREM DrainedIsUnlocked ==
  Spec => [](Undisturbed /\ "reject" \notin Outcomes => DrainedUnlocked)
BY InductiveCount, CountedDrained, PTL
-----------------------------------------------------------------------------
(* The order of a key                                                      *)

\* What the main worker published is in the order of the main topic, and
\* what the retry worker published is there already.  The main consumer hands
\* the handler a message when the earlier ones of its key are settled.
First(o) == retryLog[o].attempt = 1
FirstsSorted ==
  \A o, q \in DOMAIN retryLog : First(o) /\ First(q) /\ o < q => retryLog[o].msg < retryLog[q].msg
FirstsFirst ==
  \A o \in DOMAIN retryLog : \E f \in DOMAIN retryLog :
    f <= o /\ First(f) /\ retryLog[f].msg = retryLog[o].msg
Behind == \A o \in DOMAIN retryLog : retryLog[o].msg < next["main"]
Turn(m) == \A n \in 1..(m - 1) : KeyOf[n] = KeyOf[m] => Resolved(n)

\* No earlier message of the key waits, or it was put behind m.
Passed(m) == \A n \in 1..(m - 1) : KeyOf[n] = KeyOf[m] => Resolved(n) \/ Overtakes(m, n)

Lined   == FirstsSorted /\ FirstsFirst /\ Behind
Ordered ==
  /\ Lined
  /\ pc["main"] = "handle" => Turn(cur["main"].msg)
  /\ OvertakenOnlyByRetry

InTurn   == Undisturbed => Ordered
OrderInv == CountInv /\ InTurn

LEMMA OrderPassed == OvertakenOnlyByRetry <=> \A m \in done : Passed(m)
BY DEF OvertakenOnlyByRetry, Passed

LEMMA LogMessages ==
  ASSUME TypeOK
  PROVE  /\ \A o \in DOMAIN retryLog : /\ retryLog[o].msg \in Messages
                                       /\ retryLog[o].msg \in Nat
                                       /\ retryLog[o].attempt \in Nat
         /\ DOMAIN retryLog = 1..Len(retryLog) /\ Len(retryLog) \in Nat
<1>1. \A o \in DOMAIN retryLog : retryLog[o] \in Deliveries
  BY DEF TypeOK
<1>2. \A d \in Deliveries : d.msg \in Messages /\ d.attempt \in Nat
  BY DEF Deliveries
<1>3. \A m \in Messages : m \in Nat
  BY MessageRange
<1>4. DOMAIN retryLog = 1..Len(retryLog) /\ Len(retryLog) \in Nat
  BY DEF TypeOK
<1> QED
  BY <1>1, <1>2, <1>3, <1>4

\* Whoever passed the earlier messages has passed them for good.
LEMMA PassedStays ==
  ASSUME TypeOK, Grown, done \subseteq done', dlq \subseteq dlq', NEW m, Passed(m)
  PROVE  Passed(m)'
<1> SUFFICES ASSUME NEW n \in 1..(m - 1), KeyOf[n] = KeyOf[m], ~Resolved(n)'
             PROVE  Overtakes(m, n)'
  BY DEF Passed
<1>1. Overtakes(m, n)
  BY DEF Passed, Resolved
<1>2. PICK o \in DOMAIN retryLog, q \in DOMAIN retryLog :
        /\ o < q
        /\ retryLog[o].msg = m
        /\ retryLog[q].msg = n /\ retryLog[q].attempt > 1
  BY <1>1 DEF Overtakes
<1>3. /\ o \in DOMAIN retryLog' /\ retryLog'[o] = retryLog[o]
      /\ q \in DOMAIN retryLog' /\ retryLog'[q] = retryLog[q]
  BY LogMessages DEF Grown
<1> QED
  BY <1>2, <1>3 DEF Overtakes

\* Nobody is handled or published.
LEMMA QuietOrder ==
  ASSUME IInv, Ordered, UNCHANGED <<retryLog, done>>, dlq \subseteq dlq',
         next'["main"] \in Nat, next'["main"] >= next["main"],
         pc'["main"] = "handle" =>
           pc["main"] = "handle" /\ cur'["main"] = cur["main"]
  PROVE  Ordered'
<1>1. TypeOK
  BY DEF IInv, Base
<1>2. FirstsSorted' /\ FirstsFirst'
  BY DEF Ordered, Lined, FirstsSorted, FirstsFirst, First
<1>3. Behind'
  <2>1. next["main"] \in Nat
    BY <1>1 DEF TypeOK, Workers
  <2> QED
    BY <1>1, <2>1, LogMessages DEF Ordered, Lined, Behind
<1>4. pc'["main"] = "handle" => Turn(cur["main"].msg)'
  BY DEF Ordered, Turn, Resolved
<1>5. OvertakenOnlyByRetry'
  BY DEF Ordered, OvertakenOnlyByRetry, Overtakes, Resolved
<1> QED
  BY <1>2, <1>3, <1>4, <1>5 DEF Ordered, Lined

\* An earlier message of the key that is not settled waits in the retry topic.
LEMMA Waiting ==
  ASSUME IInv, NEW n \in 1..(next["main"] - 1), ~Resolved(n)
  PROVE  \E o \in PendingOf(KeyOf[n]) : retryLog[o].msg = n
BY DEF IInv, NothingLost, InRetry, PendingOf

\* What waits while its key is not locked is at the head, and its lock was
\* given back because it is settled.
LEMMA UnlockedTurn ==
  ASSUME CountInv, Undisturbed, next["main"] \in Messages, ~Locked(KeyOf[next["main"]])
  PROVE  Turn(next["main"])
<1> SUFFICES ASSUME NEW n \in 1..(next["main"] - 1), KeyOf[n] = KeyOf[next["main"]],
                    ~Resolved(n)
             PROVE  FALSE
  BY DEF Turn
<1>0. IInv /\ Base
  BY DEF CountInv, IInv
<1>1. PICK o \in PendingOf(KeyOf[n]) : retryLog[o].msg = n
  BY <1>0, Waiting
<1>2. KeyOf[next["main"]] \in Keys
  BY ChainAssumption DEF Messages
<1>3. pc["retry"] = "unlock" /\ PendingOf(KeyOf[n]) = {next["retry"]}
  BY <1>1, <1>2, CountedPending DEF PendingLocked
<1>4. cur["retry"].msg = n
  BY <1>0, <1>1, <1>3 DEF Base, RetryCursor
<1> QED
  BY <1>0, <1>3, <1>4 DEF IInv, FreedResolved, Workers

\* An earlier message that waits behind the head of the retry topic failed
\* again: the main worker published it before the message at the head.
LEMMA HeadPassed ==
  ASSUME CountInv, Lined, pc["retry"] # "idle"
  PROVE  Passed(cur["retry"].msg)
<1> DEFINE h == next["retry"]
<1>0. IInv /\ Base /\ TypeOK /\ LogRetries
  BY DEF CountInv, IInv, Base
<1>1. h \in DOMAIN retryLog /\ cur["retry"] = retryLog[h] /\ h \in Nat
  BY <1>0 DEF Base, RetryCursor, TypeOK
<1>2. /\ \A o \in DOMAIN retryLog : retryLog[o].msg \in Nat /\ retryLog[o].attempt \in Nat
      /\ next["main"] \in Nat /\ DOMAIN retryLog = 1..Len(retryLog) /\ Len(retryLog) \in Nat
  BY <1>0, LogMessages DEF TypeOK, Workers
<1> SUFFICES ASSUME NEW n \in 1..(retryLog[h].msg - 1), ~Resolved(n)
             PROVE  Overtakes(retryLog[h].msg, n)
  BY <1>1 DEF Passed
<1>3. n < retryLog[h].msg /\ n \in Nat
  BY <1>1, <1>2
<1>4. retryLog[h].msg < next["main"]
  BY <1>1 DEF Lined, Behind
<1>5. n \in 1..(next["main"] - 1)
  BY <1>1, <1>2, <1>3, <1>4
<1>6. PICK o \in PendingOf(KeyOf[n]) : retryLog[o].msg = n
  BY <1>0, <1>5, Waiting
<1>7. o \in DOMAIN retryLog /\ o \in Nat /\ h < o
  BY <1>1, <1>2, <1>3, <1>6 DEF PendingOf, Pending
<1>8. PICK f \in DOMAIN retryLog : f <= h /\ First(f) /\ retryLog[f].msg = retryLog[h].msg
  BY <1>1 DEF Lined, FirstsFirst
<1>9. ~First(o)
  <2> SUFFICES ASSUME First(o) PROVE FALSE
    OBVIOUS
  <2>1. f < o
    BY <1>1, <1>2, <1>7, <1>8
  <2>2. retryLog[f].msg < retryLog[o].msg
    BY <1>7, <1>8, <2>1 DEF Lined, FirstsSorted
  <2> QED
    BY <1>1, <1>2, <1>3, <1>6, <1>8, <2>2
<1>10. retryLog[o].attempt > 1
  <2>1. retryLog[o].attempt > 0
    BY <1>0, <1>7 DEF LogRetries, IsRetry
  <2> QED
    BY <1>2, <1>7, <1>9, <2>1 DEF First
<1> QED
  BY <1>1, <1>6, <1>7, <1>10 DEF Overtakes

LEMMA DeliverInTurn ==
  ASSUME OrderInv, Undisturbed, NEW w \in Workers, Deliver(w)
  PROVE  Ordered'
<1>0. IInv /\ CountInv /\ TypeOK /\ Ordered
  BY DEF OrderInv, CountInv, IInv, Base, InTurn
<1>1. UNCHANGED <<next, retryLog, refs, done, dlq>> /\ next["main"] \in Nat
  BY <1>0 DEF Deliver, DeliverMain, DeliverRetry, TypeOK, Workers
<1>2. CASE w = "retry"
  <2>1. pc'["main"] = pc["main"] /\ cur'["main"] = cur["main"]
    BY <1>0, <1>2 DEF Deliver, DeliverRetry, TypeOK, Workers
  <2> QED
    BY <1>0, <1>1, <2>1, QuietOrder
<1>3. CASE w = "main"
  <2>1. DeliverMain
    BY <1>3 DEF Deliver
  <2>2. cur'["main"].msg = next["main"] /\ next["main"] \in Messages
    BY <1>0, <2>1 DEF DeliverMain, TypeOK, Workers
  <2>3. CASE pc'["main"] # "handle"
    BY <1>0, <1>1, <2>3, QuietOrder
  <2>4. CASE pc'["main"] = "handle"
    <3>1. ~Locked(KeyOf[next["main"]])
      <4> DEFINE d == [msg |-> next["main"], attempt |-> 0]
      <4>1. d \in Deliveries
        BY <2>2 DEF Deliveries
      <4>2. Redirect(d) # "handle"
        BY <4>1, RedirectPC
      <4> QED
        BY <1>0, <2>1, <2>4, <4>2 DEF DeliverMain, TypeOK, Workers
    <3>2. Turn(next["main"])
      BY <1>0, <2>2, <3>1, UnlockedTurn
    <3>3. Turn(cur["main"].msg)'
      BY <1>1, <2>2, <3>2 DEF Turn, Resolved
    <3>4. FirstsSorted' /\ FirstsFirst' /\ Behind'
      BY <1>0, <1>1 DEF Ordered, Lined, FirstsSorted, FirstsFirst, Behind, First
    <3>5. OvertakenOnlyByRetry'
      BY <1>0, <1>1 DEF Ordered, OvertakenOnlyByRetry, Overtakes, Resolved
    <3> QED
      BY <3>3, <3>4, <3>5 DEF Ordered, Lined
  <2> QED
    BY <2>3, <2>4
<1> QED
  BY <1>2, <1>3 DEF Workers

LEMMA HandleInTurn ==
  ASSUME OrderInv, Undisturbed, NEW w \in Workers, Handle(w)
  PROVE  Ordered'
<1>0. CountInv /\ IInv /\ Base /\ TypeOK /\ Ordered
  BY DEF OrderInv, CountInv, IInv, Base, InTurn
<1>1. pc[w] = "handle" /\ UNCHANGED <<retryLog, dlq>>
  BY DEF Handle, HandleOk, HandleFails, HandleRejects
<1>2. /\ next'["main"] \in Nat /\ next["main"] \in Nat /\ next'["main"] >= next["main"]
  BY <1>0 DEF Handle, HandleOk, HandleFails, HandleRejects, Goto, Mark, Finish, TypeOK,
     Workers
<1>3. PICK v \in PCs \ {"handle"} :
        /\ pc' = [pc EXCEPT ![w] = v]
        /\ \A u \in Workers \ {w} : cur'[u] = cur[u]
  <2>1. CASE HandleOk(w)
    BY <1>0, <2>1, GotoPC, FinishPC DEF HandleOk, Mark, Workers, PCs
  <2>2. CASE HandleFails(w)
    <3>1. cur[w] \in Deliveries
      BY <1>0, <1>1, CurrentDelivery
    <3>2. PICK v : v = Redirect(cur[w])
      OBVIOUS
    <3>3. v \in {"exhausted", "acquire", "publish"}
      BY <3>1, <3>2, RedirectPC
    <3>4. Goto(w, v)
      BY <2>2, <3>2 DEF HandleFails
    <3> QED
      BY <1>0, <3>3, <3>4, GotoPC DEF PCs
  <2>3. CASE HandleRejects(w)
    BY <1>0, <2>3, GotoPC DEF HandleRejects, PCs
  <2> QED
    BY <2>1, <2>2, <2>3 DEF Handle
<1>4. pc'["main"] = "handle" => w = "retry" /\ pc["main"] = "handle" /\ cur'["main"] = cur["main"]
  BY <1>0, <1>3 DEF TypeOK, Workers
<1>5. CASE ~HandleOk(w)
  <2>1. done' = done
    BY <1>5 DEF Handle, HandleFails, HandleRejects
  <2> QED
    BY <1>0, <1>1, <1>2, <1>4, <2>1, QuietOrder
<1>6. CASE HandleOk(w)
  <2>1. done' = done \cup {cur[w].msg}
    BY <1>6 DEF HandleOk
  <2>2. Passed(cur[w].msg)
    <3>1. CASE w = "main"
      BY <1>0, <1>1, <3>1 DEF Ordered, Turn, Passed
    <3>2. CASE w = "retry"
      BY <1>0, <1>1, <3>2, HeadPassed DEF Ordered
    <3> QED
      BY <3>1, <3>2 DEF Workers
  <2>3. \A m \in done' : Passed(m)
    BY <1>0, <2>1, <2>2, OrderPassed DEF Ordered
  <2>4. Grown
    BY <1>0, <1>1, UnchangedGrown
  <2>5. \A m \in done' : Passed(m)'
    BY <1>0, <1>1, <2>1, <2>3, <2>4, PassedStays
  <2>6. OvertakenOnlyByRetry'
    BY <2>5 DEF Passed, OvertakenOnlyByRetry
  <2>7. FirstsSorted' /\ FirstsFirst'
    BY <1>0, <1>1 DEF Ordered, Lined, FirstsSorted, FirstsFirst, First
  <2>8. Behind'
    BY <1>0, <1>1, <1>2, LogMessages DEF Ordered, Lined, Behind
  <2>9. pc'["main"] = "handle" => Turn(cur["main"].msg)'
    BY <1>0, <1>1, <1>4, <2>1 DEF Ordered, Turn, Resolved
  <2> QED
    BY <2>6, <2>7, <2>8, <2>9 DEF Ordered, Lined
<1> QED
  BY <1>5, <1>6

\* The main worker publishes the message after the last, with attempt 1; the
\* retry worker one that is in the topic, with a higher attempt.
LEMMA PublishInTurn ==
  ASSUME OrderInv, Undisturbed, NEW w \in Workers, PublishToRetry(w)
  PROVE  Ordered'
<1>0. IInv /\ Base /\ TypeOK /\ Ordered /\ LogRetries
  BY DEF OrderInv, CountInv, IInv, Base, InTurn
<1>1. /\ Published(w) /\ Finish(w, 1) /\ pc[w] = "publish"
      /\ UNCHANGED <<done, dlq>>
  BY DEF PublishToRetry, Mark
<1>2. cur[w] \in Deliveries
  BY <1>0, <1>1, CurrentDelivery
<1> DEFINE e == Len(retryLog) + 1
<1>3. /\ Len(retryLog) \in Nat
      /\ DOMAIN retryLog = 1..Len(retryLog) /\ DOMAIN retryLog' = 1..e
      /\ \A o \in 1..Len(retryLog) : retryLog'[o] = retryLog[o]
      /\ retryLog'[e].msg = cur[w].msg
      /\ retryLog'[e].attempt = cur[w].attempt + 1
  <2>1. retryLog' = Append(retryLog, [cur[w] EXCEPT !.attempt = @ + 1])
    BY <1>1 DEF Published
  <2>2. [cur[w] EXCEPT !.attempt = @ + 1].msg = cur[w].msg
    BY <1>2 DEF Deliveries
  <2>3. [cur[w] EXCEPT !.attempt = @ + 1].attempt = cur[w].attempt + 1
    BY <1>2 DEF Deliveries
  <2> QED
    BY <1>0, <2>1, <2>2, <2>3 DEF TypeOK
<1>4. /\ next["main"] \in Nat /\ next'["main"] \in Nat
      /\ next'["main"] = IF w = "main" THEN next["main"] + 1 ELSE next["main"]
      /\ pc'["main"] = "handle" => w = "retry" /\ pc["main"] = "handle" /\ cur'["main"] = cur["main"]
  BY <1>0, <1>1 DEF Finish, TypeOK, Workers
<1>5. /\ \A o \in DOMAIN retryLog : retryLog[o].msg \in Nat /\ retryLog[o].msg < next["main"]
      /\ FirstsSorted /\ FirstsFirst
  BY <1>0, LogMessages DEF Ordered, Lined, Behind
<1>6. \/ /\ w = "main" /\ retryLog'[e].msg = next["main"] /\ retryLog'[e].attempt = 1
      \/ /\ w = "retry" /\ retryLog'[e].attempt # 1
         /\ next["retry"] \in DOMAIN retryLog /\ retryLog'[e].msg = retryLog[next["retry"]].msg
  <2>1. CASE w = "main"
    BY <1>0, <1>1, <1>3, <2>1 DEF Base, MainCursor
  <2>2. CASE w = "retry"
    <3>1. next["retry"] \in DOMAIN retryLog /\ cur["retry"] = retryLog[next["retry"]]
      BY <1>0, <1>1, <2>2 DEF Base, RetryCursor
    <3>2. cur["retry"].attempt > 0 /\ cur["retry"].attempt \in Nat
      BY <1>0, <3>1, LogMessages DEF LogRetries, IsRetry
    <3> QED
      BY <1>3, <2>2, <3>1, <3>2
  <2> QED
    BY <2>1, <2>2 DEF Workers
<1> HIDE DEF e
<1>7. \A o \in DOMAIN retryLog' :
        \/ o \in DOMAIN retryLog /\ retryLog'[o] = retryLog[o]
        \/ o = e
  BY <1>3 DEF e
<1>8. FirstsSorted'
  <2> SUFFICES ASSUME NEW o \in DOMAIN retryLog', NEW q \in DOMAIN retryLog', o < q,
                      retryLog'[o].attempt = 1, retryLog'[q].attempt = 1
               PROVE  retryLog'[o].msg < retryLog'[q].msg
    BY DEF FirstsSorted, First
  <2>1. o \in DOMAIN retryLog /\ retryLog'[o] = retryLog[o]
    BY <1>3 DEF e
  <2>2. CASE q \in DOMAIN retryLog /\ retryLog'[q] = retryLog[q]
    BY <1>5, <2>1, <2>2 DEF FirstsSorted, First
  <2>3. CASE q = e
    BY <1>5, <1>6, <2>1, <2>3
  <2> QED
    BY <1>7, <2>2, <2>3
<1>9. FirstsFirst'
  <2> SUFFICES ASSUME NEW o \in DOMAIN retryLog'
               PROVE  \E f \in DOMAIN retryLog' :
                        f <= o /\ retryLog'[f].attempt = 1 /\ retryLog'[f].msg = retryLog'[o].msg
    BY DEF FirstsFirst, First
  <2>1. ASSUME NEW x \in DOMAIN retryLog, retryLog'[o].msg = retryLog[x].msg, x <= o
        PROVE  \E f \in DOMAIN retryLog' :
                 f <= o /\ retryLog'[f].attempt = 1 /\ retryLog'[f].msg = retryLog'[o].msg
    <3>1. PICK f \in DOMAIN retryLog :
            f <= x /\ retryLog[f].attempt = 1 /\ retryLog[f].msg = retryLog[x].msg
      BY <1>5 DEF FirstsFirst, First
    <3>2. f \in DOMAIN retryLog' /\ retryLog'[f] = retryLog[f] /\ f <= o
      BY <1>3, <2>1, <3>1 DEF e
    <3> QED
      BY <2>1, <3>1, <3>2
  <2>2. CASE o \in DOMAIN retryLog /\ retryLog'[o] = retryLog[o]
    BY <1>3, <2>1, <2>2
  <2>3. CASE o = e /\ w = "main"
    BY <1>3, <1>6, <2>3 DEF e
  <2>4. CASE o = e /\ w = "retry"
    BY <1>3, <1>6, <2>1, <2>4 DEF e
  <2> QED
    BY <1>7, <2>2, <2>3, <2>4 DEF Workers
<1>10. Behind'
  <2> SUFFICES ASSUME NEW o \in DOMAIN retryLog' PROVE retryLog'[o].msg < next'["main"]
    BY DEF Behind
  <2>1. CASE o \in DOMAIN retryLog /\ retryLog'[o] = retryLog[o]
    BY <1>4, <1>5, <2>1
  <2>2. CASE o = e
    BY <1>4, <1>5, <1>6, <2>2
  <2> QED
    BY <1>7, <2>1, <2>2
<1>11. Grown
  BY <1>0, <1>1, PublishedGrown
<1>12. OvertakenOnlyByRetry'
  <2>1. \A m \in done : Passed(m)
    BY <1>0, OrderPassed DEF Ordered
  <2>2. \A m \in done' : Passed(m)'
    BY <1>0, <1>1, <1>11, <2>1, PassedStays
  <2> QED
    BY <2>2 DEF Passed, OvertakenOnlyByRetry
<1>13. pc'["main"] = "handle" => Turn(cur["main"].msg)'
  BY <1>0, <1>1, <1>4 DEF Ordered, Turn, Resolved
<1> QED
  BY <1>8, <1>9, <1>10, <1>12, <1>13 DEF Ordered, Lined

\* The other steps of a worker settle messages at most.
LEMMA RestInTurn ==
  ASSUME OrderInv, Undisturbed, NEW w \in Workers,
         \/ Acquire(w) \/ LockProduced(w) \/ GiveUp(w) \/ Reject(w)
         \/ ReleaseLocal(w) \/ ReleaseProduced(w)
  PROVE  Ordered'
<1>0. IInv /\ TypeOK /\ Ordered
  BY DEF OrderInv, CountInv, IInv, Base, InTurn
<1>1. UNCHANGED <<retryLog, done>> /\ dlq \subseteq dlq' /\ pc[w] # "handle"
  BY DEF Acquire, LockProduced, GiveUp, Reject, ReleaseLocal, ReleaseProduced, InDLQ
<1>2. \/ \E v \in {"lock", "publish", "free", "unlock"} : Goto(w, v)
      \/ Finish(w, 0)
      \/ Finish(w, 1)
  BY DEF Acquire, LockProduced, GiveUp, Reject, ReleaseLocal, ReleaseProduced, Mark, Redeliver
<1>3. next'["main"] \in Nat /\ next'["main"] >= next["main"]
  BY <1>0, <1>2 DEF Goto, Finish, TypeOK, Workers
<1>4. PICK v : /\ pc' = [pc EXCEPT ![w] = v]
               /\ v # "handle"
               /\ \A u \in Workers \ {w} : cur'[u] = cur[u]
  BY <1>0, <1>2, GotoPC, FinishPC
<1>5. pc'["main"] = "handle" => pc["main"] = "handle" /\ cur'["main"] = cur["main"]
  BY <1>0, <1>4 DEF TypeOK, Workers
<1> QED
  BY <1>0, <1>1, <1>3, <1>5, QuietOrder

LEMMA StepInTurn == ASSUME OrderInv, [Next]_vars PROVE OrderInv'
<1>1. CountInv'
  BY StepCounted DEF OrderInv
<1> SUFFICES ASSUME Undisturbed' PROVE Ordered'
  BY <1>1 DEF OrderInv, InTurn
<1>2. ASSUME NEW w \in Workers, FailStep(w) \/ Rewind(w) PROVE Ordered'
  BY <1>2, Disturbs DEF OrderInv
<1>3. ASSUME NEW w \in Workers, WorkerStep(w), ~FailStep(w), Undisturbed PROVE Ordered'
  BY <1>3, DeliverInTurn, HandleInTurn, PublishInTurn, RestInTurn
  DEF WorkerStep, RedirectStep, EndStep, FailStep
<1>4. ASSUME UNCHANGED vars, Undisturbed PROVE Ordered'
  BY <1>4 DEF vars, OrderInv, InTurn, Ordered, Lined, FirstsSorted, FirstsFirst, First, Behind,
     Turn, OvertakenOnlyByRetry, Overtakes, Resolved
<1>5. Undisturbed
  <2>1. ASSUME NEW w \in Workers, WorkerStep(w), ~FailStep(w)
        PROVE UNCHANGED <<faults, rewinds>>
    BY <2>1 DEF WorkerStep, Deliver, DeliverMain, DeliverRetry, Handle, HandleOk, HandleFails,
       HandleRejects, RedirectStep, EndStep, FailStep, Acquire, LockProduced, PublishToRetry,
       GiveUp, Reject, ReleaseLocal, ReleaseProduced
  <2>2. ASSUME NEW w \in Workers, FailStep(w) \/ Rewind(w) PROVE FALSE
    BY <2>2, Disturbs DEF OrderInv
  <2>3. UNCHANGED <<faults, rewinds>>
    BY <2>1, <2>2 DEF Next, vars
  <2> QED
    BY <2>3 DEF Undisturbed
<1> QED
  BY <1>2, <1>3, <1>4, <1>5 DEF Next

LEMMA InitInTurn == ASSUME Init PROVE OrderInv
<1>1. CountInv
  BY InitCounted
<1>2. DOMAIN retryLog = {} /\ pc["main"] # "handle" /\ done = {}
  BY DEF Init, Workers
<1> QED
  BY <1>1, <1>2 DEF OrderInv, InTurn, Ordered, Lined, FirstsSorted, FirstsFirst, Behind,
     OvertakenOnlyByRetry

\* As long as no call failed and nothing was delivered twice, and however
\* often a message is retried, it is handled without error only after every
\* earlier one of its key was handled or given up (README.md:99), or failed
\* again and was put behind it in the retry topic.
THEOREM OrderStaysKept == Spec => [](Undisturbed => OvertakenOnlyByRetry)
<1>1. Init => OrderInv
  BY InitInTurn
<1>2. OrderInv /\ [Next]_vars => OrderInv'
  BY StepInTurn
<1>3. OrderInv => (Undisturbed => OvertakenOnlyByRetry)
  BY DEF OrderInv, InTurn, Ordered
<1> QED
  BY <1>1, <1>2, <1>3, PTL DEF Spec
=============================================================================

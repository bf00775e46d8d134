-------------------------- MODULE SynchronizeProofs --------------------------
(***************************************************************************)
(* Synchronize is well typed, and a call of it that compared offsets and   *)
(* returns nil before its deadline finds every record it asked for in the  *)
(* table or with another member of the group.                              *)
(***************************************************************************)
EXTENDS Synchronize, TLAPS

Seen(p) == applied[p] \cup elsewhere[p]

Covered(c) == \A p \in Partitions : 0..(target[c][p] - 1) \subseteq Seen(p)

\* Calls that take their channel, or a comparison, for success in time.
Content(c) == (pc[c] = "nil" \/ c \in done) /\ c \notin expired

Handled == \A p \in handling : /\ owner[p] = "me"
                               /\ pos[p] < log[p]
                               /\ pos[p] \in applied[p]

Mine == \A p \in Partitions : owner[p] = "me" => up

Down == ~up => /\ DOMAIN consumed = {}
               /\ \A c \in Calls : Content(c) => \A p \in Partitions : target[c][p] = 0

Behind == up => \A p \in Partitions : 0..(pos[p] - 1) \subseteq Seen(p)

Offsets == \A p \in DOMAIN consumed : 0..consumed[p] \subseteq Seen(p)

Settled == \A c \in Calls : Content(c) => Covered(c)

\* A call that has not begun to wait has no goroutine and no closed channel.
Fresh == \A c \in Calls :
  pc[c] \in {"new", "compare"} => c \notin done /\ waiter[c] = "none"

IInv == TypeOK /\ Handled /\ Mine /\ Down /\ Behind /\ Offsets /\ Settled /\ Fresh

-----------------------------------------------------------------------------

LEMMA InitInv == Init => IInv
<1> SUFFICES ASSUME Init PROVE IInv
  OBVIOUS
<1>1. DOMAIN consumed = {}
  BY DEF Init
<1>2. TypeOK
  <2>1. log \in [Partitions -> Nat] /\ target \in [Calls -> [Partitions -> Nat]]
    BY DEF Init
  <2>2. pos \in [Partitions -> Nat] /\ committed \in [Partitions -> Nat]
        /\ \A p \in Partitions : committed[p] <= pos[p] /\ pos[p] <= log[p]
    BY DEF Init
  <2>3. applied \in [Partitions -> SUBSET Nat] /\ elsewhere \in [Partitions -> SUBSET Nat]
    BY DEF Init
  <2>4. pc \in [Calls -> PCs] /\ waiter \in [Calls -> Waiters]
    BY DEF Init, PCs, Waiters
  <2>5. owner \in [Partitions -> {"none", "me", "mate"}]
    BY DEF Init
  <2> QED BY <1>1, <2>1, <2>2, <2>3, <2>4, <2>5 DEF Init, TypeOK
<1>3. \A c \in Calls : ~Content(c)
  BY DEF Init, Content
<1> QED BY <1>1, <1>2, <1>3 DEF Init, IInv, Handled, Mine, Down, Behind, Offsets,
           Settled, Fresh

\* Offsets that reach the target speak for all records before it.
LEMMA CaughtUpCovers ==
  ASSUME IInv, NEW c \in Calls, CaughtUp(c)
  PROVE  Covered(c) /\ (~up => \A p \in Partitions : target[c][p] = 0)
<1>1. ASSUME NEW p \in Partitions PROVE 0..(target[c][p] - 1) \subseteq Seen(p)
  <2>1. target[c][p] \in Nat
    BY DEF IInv, TypeOK
  <2>2. CASE target[c][p] = 0
    BY <2>2
  <2>3. CASE p \in DOMAIN consumed /\ consumed[p] >= target[c][p] - 1
    <3>1. consumed[p] \in Nat
      BY <2>3 DEF IInv, TypeOK
    <3>2. 0..consumed[p] \subseteq Seen(p)
      BY <2>3 DEF IInv, Offsets
    <3> QED BY <2>1, <2>3, <3>1, <3>2
  <2> QED BY <2>2, <2>3 DEF CaughtUp
<1>2. ASSUME ~up PROVE \A p \in Partitions : target[c][p] = 0
  BY <1>2 DEF IInv, Down, CaughtUp
<1> QED BY <1>1, <1>2 DEF Covered

\* A step of a call or of its goroutine keeps the invariant if a call it
\* makes content is caught up.
LEMMA CallsKeep ==
  ASSUME IInv, UNCHANGED <<log, groupVars, tableVars, offsetVars>>,
         TypeOK', Fresh',
         \A c \in Calls : Content(c)' =>
           target'[c] = target[c] /\ (Content(c) \/ CaughtUp(c))
  PROVE  IInv'
<1> USE DEF groupVars, tableVars, offsetVars
<1>1. Handled' /\ Mine' /\ Behind' /\ Offsets'
  BY DEF IInv, Handled, Mine, Behind, Offsets, Seen
<1>2. ASSUME NEW c \in Calls, Content(c)'
      PROVE  Covered(c)' /\ (~up => \A p \in Partitions : target'[c][p] = 0)
  <2>1. target'[c] = target[c] /\ (Content(c) \/ CaughtUp(c))
    BY <1>2
  <2>2. Covered(c) /\ (~up => \A p \in Partitions : target[c][p] = 0)
    BY <2>1, CaughtUpCovers DEF IInv, Settled, Down
  <2> QED BY <2>1, <2>2 DEF Covered, Seen
<1> QED BY <1>1, <1>2 DEF IInv, Down, Settled

\* A step of the topic, the group or the consumer keeps it if the table only
\* grows.
LEMMA TableKeeps ==
  ASSUME IInv, UNCHANGED <<up, pc, target, done, expired>>,
         TypeOK', Fresh', Handled', Mine', Behind', Offsets',
         ~up => DOMAIN consumed' = {},
         \A p \in Partitions : Seen(p) \subseteq Seen(p)'
  PROVE  IInv'
<1>1. \A c \in Calls : Content(c)' = Content(c)
  BY DEF Content
<1>2. Down'
  BY <1>1 DEF IInv, Down
<1>3. Settled'
  BY <1>1 DEF IInv, Settled, Covered
<1> QED BY <1>2, <1>3 DEF IInv

-----------------------------------------------------------------------------
(* Calls and their goroutines *)

LEMMA BroadcastTyped ==
  ASSUME TypeOK, Broadcast
  PROVE  /\ waiter' \in [Calls -> Waiters]
         /\ \A c \in Calls : waiter'[c] = "none" <=> waiter[c] = "none"
  BY DEF TypeOK, Broadcast, Waiters

LEMMA GotoTyped ==
  ASSUME TypeOK, NEW c \in Calls, NEW label \in PCs, Goto(c, label)
  PROVE  /\ pc' \in [Calls -> PCs]
         /\ pc'[c] = label
         /\ \A d \in Calls : d # c => pc'[d] = pc[d]
  BY DEF TypeOK, Goto

LEMMA DescribeKeeps == ASSUME IInv, NEW c \in Calls, Describe(c) PROVE IInv'
<1> USE DEF Describe, groupVars, tableVars, offsetVars, waitVars
<1>1. /\ pc' \in [Calls -> PCs] /\ pc'[c] = "compare"
      /\ \A d \in Calls : d # c => pc'[d] = pc[d]
  BY GotoTyped DEF IInv, PCs
<1>2. target' \in [Calls -> [Partitions -> Nat]]
  BY DEF IInv, TypeOK
<1>3. TypeOK'
  BY <1>1, <1>2 DEF IInv, TypeOK
<1>4. c \notin done /\ waiter[c] = "none"
  BY DEF IInv, Fresh
<1>5. Fresh'
  BY <1>1, <1>4 DEF IInv, Fresh
<1>6. ASSUME NEW d \in Calls, Content(d)'
      PROVE  target'[d] = target[d] /\ Content(d)
  <2>1. d # c
    BY <1>1, <1>4, <1>6 DEF Content
  <2> QED BY <1>1, <1>6, <2>1 DEF Content, IInv, TypeOK
<1> QED BY <1>3, <1>5, <1>6, CallsKeep

LEMMA CompareKeeps == ASSUME IInv, NEW c \in Calls, Compare(c) PROVE IInv'
<1> USE DEF Compare, groupVars, tableVars, offsetVars
<1>1. /\ pc' \in [Calls -> PCs] /\ pc'[c] \in {"nil", "waiting"}
      /\ pc'[c] = "nil" => CaughtUp(c)
      /\ \A d \in Calls : d # c => pc'[d] = pc[d]
  BY GotoTyped DEF IInv, PCs
<1>2. /\ waiter' \in [Calls -> Waiters]
      /\ \A d \in Calls : d # c => waiter'[d] = waiter[d]
  BY DEF IInv, TypeOK, Waiters
<1>3. TypeOK'
  BY <1>1, <1>2 DEF IInv, TypeOK
<1>4. c \notin done
  BY DEF IInv, Fresh
<1>5. Fresh'
  BY <1>1, <1>2 DEF IInv, Fresh
<1>6. ASSUME NEW d \in Calls, Content(d)'
      PROVE  target'[d] = target[d] /\ (Content(d) \/ CaughtUp(d))
  BY <1>1, <1>4, <1>6 DEF Content
<1> QED BY <1>3, <1>5, <1>6, CallsKeep

LEMMA InterruptKeeps == ASSUME IInv, NEW c \in Calls, Interrupt(c) PROVE IInv'
<1> USE DEF Interrupt, groupVars, tableVars, offsetVars, waitVars
<1>1. TypeOK' /\ Fresh'
  BY DEF IInv, TypeOK, Fresh
<1>2. \A d \in Calls : Content(d)' => target'[d] = target[d] /\ Content(d)
  BY DEF Content
<1> QED BY <1>1, <1>2, CallsKeep

LEMMA ReturnKeeps == ASSUME IInv, NEW c \in Calls, Return(c) PROVE IInv'
<1> USE DEF groupVars, tableVars, offsetVars, waitVars
<1>1. CASE ReturnNil(c)
  <2> USE <1>1 DEF ReturnNil
  <2>1. /\ pc' \in [Calls -> PCs] /\ pc'[c] = "nil"
        /\ \A d \in Calls : d # c => pc'[d] = pc[d]
    BY GotoTyped DEF IInv, PCs
  <2>2. TypeOK' /\ Fresh'
    BY <2>1 DEF IInv, TypeOK, Fresh
  <2>3. \A d \in Calls : Content(d)' => target'[d] = target[d] /\ Content(d)
    BY <2>1 DEF Content
  <2> QED BY <2>2, <2>3, CallsKeep
<1>2. ASSUME NEW ready, NEW label \in {"timeout", "cancelled"}, GiveUp(c, ready, label)
      PROVE  IInv'
  <2> USE <1>2 DEF GiveUp
  <2>1. /\ pc' \in [Calls -> PCs] /\ pc'[c] = label
        /\ \A d \in Calls : d # c => pc'[d] = pc[d]
    BY GotoTyped DEF IInv, PCs
  <2>2. /\ waiter' \in [Calls -> Waiters]
        /\ \A d \in Calls : waiter'[d] = "none" <=> waiter[d] = "none"
    BY BroadcastTyped DEF IInv
  <2>3. TypeOK' /\ Fresh'
    BY <2>1, <2>2 DEF IInv, TypeOK, Fresh
  <2>4. \A d \in Calls : Content(d)' => target'[d] = target[d] /\ Content(d)
    BY <2>1 DEF Content
  <2> QED BY <2>3, <2>4, CallsKeep
<1> QED BY <1>1, <1>2 DEF Return

\* The steps of the goroutine set its channel only when it is caught up, or
\* past the deadline.
LEMMA WaiterKeeps == ASSUME IInv, NEW c \in Calls, WaiterStep(c) PROVE IInv'
<1> USE DEF groupVars, tableVars, offsetVars, callVars
<1>1. /\ UNCHANGED <<log, groupVars, tableVars, offsetVars, callVars>>
      /\ waiter[c] # "none"
      /\ waiter' \in [Calls -> Waiters]
      /\ \A d \in Calls : d # c => waiter'[d] = waiter[d]
  <2>1. CASE Check(c)
    BY <2>1 DEF Check, Look, IInv, TypeOK, Waiters
  <2>2. CASE Park(c)
    BY <2>2 DEF Park, IInv, TypeOK, Waiters
  <2>3. CASE WakeUp(c)
    BY <2>3 DEF WakeUp, Look, IInv, TypeOK, Waiters
  <2> QED BY <2>1, <2>2, <2>3 DEF WaiterStep
<1>2. done' = done \/ (done' = done \cup {c} /\ (CaughtUp(c) \/ c \in expired))
  BY DEF WaiterStep, Check, Park, WakeUp, Look
<1>3. pc[c] \notin {"new", "compare"}
  BY <1>1 DEF IInv, Fresh
<1>4. TypeOK' /\ Fresh'
  BY <1>1, <1>2, <1>3 DEF IInv, TypeOK, Fresh
<1>5. \A d \in Calls : Content(d)' =>
        target'[d] = target[d] /\ (Content(d) \/ CaughtUp(d))
  BY <1>1, <1>2 DEF Content
<1> QED BY <1>1, <1>4, <1>5, CallsKeep

-----------------------------------------------------------------------------
(* The topic, the process and the redirect group *)

LEMMA WriteKeeps == ASSUME IInv, NEW p \in Partitions, Write(p) PROVE IInv'
<1> USE DEF Write, groupVars, tableVars, offsetVars, callVars, waitVars
<1>1. log' \in [Partitions -> Nat] /\ \A q \in Partitions : log[q] <= log'[q]
  BY DEF IInv, TypeOK
<1>2. TypeOK'
  <2>1. \A q \in Partitions : committed'[q] <= pos'[q] /\ pos'[q] <= log'[q]
    BY <1>1 DEF IInv, TypeOK
  <2> QED BY <1>1, <2>1 DEF IInv, TypeOK
<1>3. Handled'
  BY <1>1 DEF IInv, Handled, TypeOK
<1>4. Fresh' /\ Mine' /\ Behind' /\ Offsets'
  BY DEF IInv, Fresh, Mine, Behind, Offsets, Seen
<1>5. ~up => DOMAIN consumed' = {}
  BY DEF IInv, Down
<1> QED BY <1>2, <1>3, <1>4, <1>5, TableKeeps DEF Seen

LEMMA AssignKeeps == ASSUME IInv, NEW p \in Partitions, Assign(p) PROVE IInv'
<1> USE DEF Assign, groupVars, tableVars, offsetVars, callVars, waitVars
<1>1. PICK member \in {"mate"} \cup IF up THEN {"me"} ELSE {} :
        owner' = [owner EXCEPT ![p] = member]
  OBVIOUS
<1>2. /\ owner' \in [Partitions -> {"none", "me", "mate"}]
      /\ owner'[p] = "me" => up
      /\ \A q \in Partitions : q # p => owner'[q] = owner[q]
  BY <1>1 DEF IInv, TypeOK
<1>3. p \notin handling
  BY DEF IInv, Handled
<1>4. TypeOK'
  BY <1>2 DEF IInv, TypeOK
<1>5. Handled' /\ Mine'
  BY <1>2, <1>3 DEF IInv, TypeOK, Handled, Mine
<1>6. Fresh' /\ Behind' /\ Offsets'
  BY DEF IInv, Fresh, Behind, Offsets, Seen
<1>7. ~up => DOMAIN consumed' = {}
  BY DEF IInv, Down
<1> QED BY <1>4, <1>5, <1>6, <1>7, TableKeeps DEF Seen

LEMMA ApplyKeeps == ASSUME IInv, NEW p \in Partitions, Apply(p) PROVE IInv'
<1> USE DEF Apply, groupVars, tableVars, offsetVars, callVars, waitVars
<1>1. /\ applied' \in [Partitions -> SUBSET Nat]
      /\ pos[p] \in applied'[p]
      /\ \A q \in Partitions : applied[q] \subseteq applied'[q]
  BY DEF IInv, TypeOK
<1>2. TypeOK'
  BY <1>1 DEF IInv, TypeOK
<1>3. Handled'
  BY <1>1 DEF IInv, TypeOK, Handled
<1>4. \A q \in Partitions : Seen(q) \subseteq Seen(q)'
  BY <1>1 DEF Seen
<1>5. Behind'
  BY <1>4 DEF IInv, Behind
<1>6. Offsets'
  BY <1>4 DEF IInv, Offsets, TypeOK
<1>7. Fresh' /\ Mine'
  BY DEF IInv, Fresh, Mine
<1>8. ~up => DOMAIN consumed' = {}
  BY DEF IInv, Down
<1> QED BY <1>2, <1>3, <1>4, <1>5, <1>6, <1>7, <1>8, TableKeeps

\* The offset published is that of the record in the table, and everything
\* before it was seen on the way there.
LEMMA PublishKeeps == ASSUME IInv, NEW p \in Partitions, Publish(p) PROVE IInv'
<1> USE DEF Publish, groupVars, tableVars, offsetVars, callVars, waitVars
<1>1. up /\ pos[p] < log[p] /\ pos[p] \in applied[p]
  BY DEF IInv, Handled, Mine
<1>2. pos \in [Partitions -> Nat]
  BY DEF IInv, TypeOK
<1>3. /\ DOMAIN consumed' = DOMAIN consumed \cup {p}
      /\ consumed'[p] = pos[p]
      /\ \A q \in DOMAIN consumed : q # p => consumed'[q] = consumed[q]
  OBVIOUS
<1>4. 0..pos[p] \subseteq Seen(p)
  <2>1. 0..(pos[p] - 1) \subseteq Seen(p)
    BY <1>1 DEF IInv, Behind
  <2>2. pos[p] \in Seen(p)
    BY <1>1 DEF Seen
  <2> QED BY <1>2, <2>1, <2>2
<1>5. /\ pos' \in [Partitions -> Nat] /\ pos'[p] = pos[p] + 1
      /\ \A q \in Partitions : q # p => pos'[q] = pos[q]
  BY <1>2
<1>6. TypeOK'
  <2>1. \A q \in Partitions : committed'[q] <= pos'[q] /\ pos'[q] <= log'[q]
    BY <1>1, <1>5 DEF IInv, TypeOK
  <2>2. \A q \in DOMAIN consumed' : consumed'[q] \in Nat
    BY <1>2, <1>3 DEF IInv, TypeOK
  <2>3. waiter' \in [Calls -> Waiters]
    BY BroadcastTyped DEF IInv
  <2> QED BY <1>3, <1>5, <2>1, <2>2, <2>3 DEF IInv, TypeOK
<1>7. Handled' /\ Mine'
  BY <1>5 DEF IInv, TypeOK, Handled, Mine
<1>8. Fresh'
  BY BroadcastTyped DEF IInv, Fresh
<1>9. \A q \in Partitions : Seen(q)' = Seen(q)
  BY DEF Seen
<1>10. Behind'
  <2> SUFFICES ASSUME NEW q \in Partitions PROVE 0..(pos'[q] - 1) \subseteq Seen(q)
    BY <1>9 DEF Behind
  <2>1. CASE q = p
    BY <1>2, <1>4, <1>5, <2>1
  <2>2. CASE q # p
    BY <1>1, <1>5, <2>2 DEF IInv, Behind
  <2> QED BY <2>1, <2>2
<1>11. Offsets'
  BY <1>3, <1>4, <1>9 DEF IInv, Offsets, TypeOK
<1> QED BY <1>1, <1>6, <1>7, <1>8, <1>9, <1>10, <1>11, TableKeeps

LEMMA RevokeKeeps == ASSUME IInv, NEW p \in Partitions, Revoke(p) PROVE IInv'
<1> USE DEF Revoke, groupVars, tableVars, offsetVars, callVars, waitVars
<1>1. /\ pos \in [Partitions -> Nat] /\ committed \in [Partitions -> Nat]
      /\ log \in [Partitions -> Nat]
      /\ \A q \in Partitions : committed[q] <= pos[q] /\ pos[q] <= log[q]
  BY DEF IInv, TypeOK
<1>2. PICK o \in committed[p]..pos[p] : /\ committed' = [committed EXCEPT ![p] = o]
                                        /\ pos' = [pos EXCEPT ![p] = o]
  OBVIOUS
<1>3. o \in Nat /\ o <= pos[p] /\ o <= log[p]
  BY <1>1
<1>4. /\ pos' \in [Partitions -> Nat] /\ committed' \in [Partitions -> Nat]
      /\ \A q \in Partitions : pos'[q] <= pos[q]
      /\ \A q \in Partitions : q # p => pos'[q] = pos[q]
      /\ \A q \in Partitions : committed'[q] <= pos'[q] /\ pos'[q] <= log[q]
  BY <1>1, <1>2, <1>3
<1>5. /\ owner' \in [Partitions -> {"none", "me", "mate"}]
      /\ owner'[p] = "none"
      /\ \A q \in Partitions : q # p => owner'[q] = owner[q]
  BY DEF IInv, TypeOK
<1>6. TypeOK'
  BY <1>4, <1>5 DEF IInv, TypeOK
<1>7. Handled' /\ Mine'
  BY <1>4, <1>5 DEF IInv, TypeOK, Handled, Mine
<1>8. Behind'
  BY <1>1, <1>4 DEF IInv, Behind, Seen
<1>9. Fresh' /\ Offsets'
  BY DEF IInv, Fresh, Offsets, Seen
<1>10. ~up => DOMAIN consumed' = {}
  BY DEF IInv, Down
<1> QED BY <1>6, <1>7, <1>8, <1>9, <1>10, TableKeeps DEF Seen

LEMMA MateHandlesKeeps == ASSUME IInv, NEW p \in Partitions, MateHandles(p) PROVE IInv'
<1> USE DEF MateHandles, groupVars, tableVars, offsetVars, callVars, waitVars
<1>1. /\ pos \in [Partitions -> Nat] /\ log \in [Partitions -> Nat]
      /\ elsewhere \in [Partitions -> SUBSET Nat]
  BY DEF IInv, TypeOK
<1>2. /\ pos' \in [Partitions -> Nat] /\ pos'[p] = pos[p] + 1
      /\ \A q \in Partitions : q # p => pos'[q] = pos[q]
  BY <1>1
<1>3. /\ elsewhere' \in [Partitions -> SUBSET Nat]
      /\ pos[p] \in elsewhere'[p]
      /\ \A q \in Partitions : elsewhere[q] \subseteq elsewhere'[q]
  BY <1>1
<1>4. TypeOK'
  <2>1. \A q \in Partitions : committed'[q] <= pos'[q] /\ pos'[q] <= log'[q]
    BY <1>2 DEF IInv, TypeOK
  <2> QED BY <1>2, <1>3, <2>1 DEF IInv, TypeOK
<1>5. p \notin handling
  BY DEF IInv, Handled
<1>6. Handled' /\ Mine'
  BY <1>2, <1>5 DEF IInv, TypeOK, Handled, Mine
<1>7. \A q \in Partitions : Seen(q) \subseteq Seen(q)'
  BY <1>3 DEF Seen
<1>8. Behind'
  <2> SUFFICES ASSUME up, NEW q \in Partitions PROVE 0..(pos'[q] - 1) \subseteq Seen(q)'
    BY DEF Behind
  <2>1. 0..(pos[q] - 1) \subseteq Seen(q)'
    BY <1>7 DEF IInv, Behind
  <2>2. CASE q = p
    <3>1. pos[p] \in Seen(p)'
      BY <1>3 DEF Seen
    <3> QED BY <1>1, <1>2, <2>1, <2>2, <3>1
  <2>3. CASE q # p
    BY <1>2, <2>1, <2>3
  <2> QED BY <2>2, <2>3
<1>9. Offsets'
  BY <1>7 DEF IInv, Offsets, TypeOK
<1>10. Fresh'
  BY DEF IInv, Fresh
<1>11. ~up => DOMAIN consumed' = {}
  BY DEF IInv, Down
<1> QED BY <1>4, <1>6, <1>7, <1>8, <1>9, <1>10, <1>11, TableKeeps

\* Nothing was handled, published or waited for with records while the
\* instance was down.
LEMMA StartKeeps == ASSUME IInv, Start PROVE IInv'
<1> USE DEF Start, groupVars, offsetVars, callVars, waitVars
<1>1. handling = {} /\ DOMAIN consumed = {}
  BY DEF IInv, Handled, Mine, Down, TypeOK
<1>2. TypeOK'
  <2>1. /\ applied' \in [Partitions -> SUBSET Nat]
        /\ elsewhere' \in [Partitions -> SUBSET Nat]
    BY DEF IInv, TypeOK
  <2> QED BY <2>1 DEF IInv, TypeOK
<1>3. Handled' /\ Mine' /\ Down' /\ Offsets' /\ Fresh'
  BY <1>1 DEF IInv, Handled, Mine, Down, Offsets, Fresh
<1>4. Behind'
  <2> SUFFICES ASSUME NEW p \in Partitions PROVE 0..(pos[p] - 1) \subseteq 0..(log[p] - 1)
    BY DEF Behind, Seen
  <2> QED BY DEF IInv, TypeOK
<1>5. Settled'
  <2> SUFFICES ASSUME NEW c \in Calls, Content(c), NEW p \in Partitions
               PROVE  0..(target[c][p] - 1) = {}
    BY DEF Settled, Content, Covered
  <2>1. target[c][p] = 0
    BY DEF IInv, Down
  <2> QED BY <2>1
<1> QED BY <1>2, <1>3, <1>4, <1>5 DEF IInv

LEMMA CrashKeeps == ASSUME IInv, Crash PROVE IInv'
<1> USE DEF Crash
<1>1. PICK kept \in [Partitions -> 0..MaxRecords] :
        /\ \A p \in Partitions :
             IF owner[p] = "me" THEN kept[p] \in committed[p]..pos[p] ELSE kept[p] = 0
        /\ pos' = [p \in Partitions |-> IF owner[p] = "me" THEN kept[p] ELSE pos[p]]
        /\ committed' = [p \in Partitions |-> IF owner[p] = "me" THEN kept[p] ELSE committed[p]]
  OBVIOUS
<1>2. /\ pos \in [Partitions -> Nat] /\ committed \in [Partitions -> Nat]
      /\ log \in [Partitions -> Nat]
      /\ \A p \in Partitions : committed[p] <= pos[p] /\ pos[p] <= log[p]
  BY DEF IInv, TypeOK
<1>3. ASSUME NEW p \in Partitions
      PROVE  /\ pos'[p] \in Nat /\ committed'[p] \in Nat
             /\ committed'[p] <= pos'[p] /\ pos'[p] <= log[p]
  <2>1. CASE owner[p] = "me"
    <3>1. kept[p] \in committed[p]..pos[p]
      BY <1>1, <2>1
    <3>2. pos'[p] = kept[p] /\ committed'[p] = kept[p]
      BY <1>1, <2>1
    <3> QED BY <1>2, <3>1, <3>2
  <2>2. CASE owner[p] # "me"
    BY <1>1, <1>2, <2>2
  <2> QED BY <2>1, <2>2
<1>4. DOMAIN consumed' = {}
  OBVIOUS
<1>5. TypeOK'
  <2>1. pos' \in [Partitions -> Nat] /\ committed' \in [Partitions -> Nat]
    BY <1>1, <1>3
  <2>2. /\ log' \in [Partitions -> Nat]
        /\ \A p \in Partitions : committed'[p] <= pos'[p] /\ pos'[p] <= log'[p]
    BY <1>2, <1>3
  <2>3. owner' \in [Partitions -> {"none", "me", "mate"}]
    BY DEF IInv, TypeOK
  <2>4. /\ applied' \in [Partitions -> SUBSET Nat]
        /\ elsewhere' \in [Partitions -> SUBSET Nat]
    BY DEF IInv, TypeOK
  <2>5. pc' \in [Calls -> PCs] /\ waiter' \in [Calls -> Waiters]
    BY DEF PCs, Waiters
  <2>6. target' \in [Calls -> [Partitions -> Nat]]
    OBVIOUS
  <2>7. faults' \in Nat
    BY DEF IInv, TypeOK
  <2>8. up' \in BOOLEAN /\ handling' = {} /\ done' = {} /\ expired' = {} /\ cancelled' = {}
    OBVIOUS
  <2> HIDE DEF Crash
  <2> QED BY <1>4, <2>1, <2>2, <2>3, <2>4, <2>5, <2>6, <2>7, <2>8 DEF TypeOK
<1>6. \A c \in Calls : pc'[c] = "new" /\ waiter'[c] = "none" /\ c \notin done'
  OBVIOUS
<1>7. Handled' /\ Mine' /\ Behind' /\ Offsets'
  BY <1>4 DEF Handled, Mine, Behind, Offsets
<1>8. Down' /\ Settled' /\ Fresh'
  BY <1>4, <1>6 DEF Down, Settled, Fresh, Content
<1> QED BY <1>5, <1>7, <1>8 DEF IInv

-----------------------------------------------------------------------------

LEMMA StutterKeeps == ASSUME IInv, UNCHANGED vars PROVE IInv'
<1> USE DEF vars, groupVars, tableVars, offsetVars, callVars, waitVars
<1>1. TypeOK' /\ Fresh'
  BY DEF IInv, TypeOK, Fresh
<1>2. \A c \in Calls : Content(c)' => target'[c] = target[c] /\ Content(c)
  BY DEF Content
<1> QED BY <1>1, <1>2, CallsKeep

LEMMA NextKeeps == IInv /\ [Next]_vars => IInv'
<1> SUFFICES ASSUME IInv, [Next]_vars PROVE IInv'
  OBVIOUS
<1>1. CASE Start
  BY <1>1, StartKeeps
<1>2. CASE Crash
  BY <1>2, CrashKeeps
<1>3. ASSUME NEW p \in Partitions, GroupStep(p) \/ ConsumeStep(p) PROVE IInv'
  BY <1>3, WriteKeeps, AssignKeeps, RevokeKeeps, MateHandlesKeeps, ApplyKeeps,
     PublishKeeps DEF GroupStep, ConsumeStep
<1>4. ASSUME NEW c \in Calls, CallStep(c) \/ Interrupt(c) \/ Return(c) \/ WaiterStep(c)
      PROVE  IInv'
  BY <1>4, DescribeKeeps, CompareKeeps, InterruptKeeps, ReturnKeeps, WaiterKeeps
     DEF CallStep
<1>5. CASE UNCHANGED vars
  BY <1>5, StutterKeeps
<1> QED BY <1>1, <1>2, <1>3, <1>4, <1>5 DEF Next

LEMMA SyncInv == Spec => []IInv
<1>1. Init => IInv
  BY InitInv
<1>2. IInv /\ [Next]_vars => IInv'
  BY NextKeeps
<1> QED BY <1>1, <1>2, PTL DEF Spec

\* Whatever the calls, the partitions and the faults, the offsets of the
\* group stay in order, committed before read before written, and every
\* variable in its type (coordinator_kafka.go:276-391, 695-708).
THEOREM SyncTypeCorrect == Spec => []TypeOK
<1>1. IInv => TypeOK
  BY DEF IInv
<1> QED BY <1>1, SyncInv, PTL

\* Every nil that Synchronize returns before its deadline speaks for all the
\* records its call found in the topic (coordinator_kafka.go:276-364).
THEOREM SyncNilMeansApplied == Spec => []NilMeansApplied
<1>1. IInv => NilMeansApplied
  BY DEF IInv, Settled, Content, Covered, Seen, NilMeansApplied
<1> QED BY <1>1, SyncInv, PTL
=============================================================================

----------------------- MODULE TrackerLifecycleProofs -----------------------
(***************************************************************************)
(* For any calls of Start and any topics: the wait group counts the calls  *)
(* that added a worker and are not done, so it is never negative, and a    *)
(* topic has at most one worker that nobody told to stop.                  *)
(***************************************************************************)
EXTENDS TrackerLifecycle, FiniteSetTheorems, TLAPS

\* What the wait group counts: Add(1) was called, Done() was not.
Counted == workers \cup {c \in Calls : pc[c] \in {"launch", "abandoned"}}

\* Past the registration in startedTopics and not returned, or a worker.
Registered ==
  {c \in Calls : pc[c] \in {"coordinator", "setup", "cleanup", "worker",
                            "launch", "abandoned"}} \cup workers

Typed ==
  /\ pc \in [Calls -> PCs]
  /\ DOMAIN cancels \subseteq Topics
  /\ \A t \in DOMAIN cancels : cancels[t] \in Calls
  /\ cancelled \subseteq Calls
  /\ workers \subseteq Calls
  /\ coordinator \in Calls \cup {NoCall}
  /\ restored \subseteq Topics
  /\ redirect \in Calls \cup {NoCall}
  /\ closing \in {"no", "workers", "coordinator", "closed", "timeout"}
  /\ failures \in 0..MaxFailures

WorkersReturned == \A c \in workers : pc[c] = "ok"

WaitGroup == IsFiniteSet(Counted) /\ wg = Cardinality(Counted)

\* A call that runs and that nobody cancelled is the one its topic names.
Named ==
  \A c \in Registered \ cancelled :
    TopicOf[c] \in DOMAIN cancels /\ cancels[TopicOf[c]] = c

\* Before Close only a failed Start is cancelled; after it no topic is named.
CancelledBy ==
  /\ closing = "no" => \A c \in cancelled : pc[c] = "error"
  /\ closing # "no" => DOMAIN cancels = {}

IInv == Typed /\ WorkersReturned /\ WaitGroup /\ Named /\ CancelledBy

-----------------------------------------------------------------------------

LEMMA RangeIn ==
  ASSUME NEW f, NEW S, \A x \in DOMAIN f : f[x] \in S
  PROVE  Range(f) \subseteq S
BY DEF Range

LEMMA TopicIn == ASSUME NEW c \in Calls PROVE TopicOf[c] \in Topics
BY DEF Topics

LEMMA WithoutIs ==
  ASSUME NEW f, NEW x
  PROVE  /\ DOMAIN Without(f, x) = DOMAIN f \ {x}
         /\ \A y \in DOMAIN f \ {x} : Without(f, x)[y] = f[y]
BY DEF Without, Restrict

LEMMA InitInv == ASSUME Init PROVE IInv
<1>1. DOMAIN cancels = {}
  BY DEF Init
<1>2. Typed
  BY <1>1, LifecycleAssumption DEF Init, Typed, PCs
<1>3. Counted = {} /\ Registered = {}
  BY DEF Init, Counted, Registered
<1>4. WaitGroup
  BY <1>3, FS_EmptySet DEF WaitGroup, Init
<1> QED
  BY <1>1, <1>2, <1>3, <1>4 DEF Init, IInv, WorkersReturned, Named, CancelledBy

-----------------------------------------------------------------------------
(* One lemma per part of the invariant                                     *)

LEMMA StepTyped == ASSUME IInv, [Next]_vars PROVE Typed'
<1> USE DEF IInv, Typed
<1>1. ASSUME NEW c \in Calls, Enter(c) PROVE Typed'
  <2>1. CASE TopicOf[c] \in startedTopics
    BY <1>1, <2>1 DEF Enter, Goto, PCs
  <2>2. CASE TopicOf[c] \notin startedTopics
    <3>1. TopicOf[c] \in Topics
      BY TopicIn
    <3>2. /\ DOMAIN cancels' = DOMAIN cancels \cup {TopicOf[c]}
          /\ \A t \in DOMAIN cancels' :
               cancels'[t] = IF t = TopicOf[c] THEN c ELSE cancels[t]
      BY <1>1, <2>2 DEF Enter, startedTopics
    <3>3. pc' \in [Calls -> PCs]
      BY <1>1, <2>2 DEF Enter, Goto, PCs
    <3>4. /\ UNCHANGED <<cancelled, workers, coordinator, restored>>
          /\ UNCHANGED <<redirect, closing, failures>>
      BY <1>1 DEF Enter
    <3> QED
      BY <3>1, <3>2, <3>3, <3>4
  <2> QED
    BY <2>1, <2>2
<1>2. ASSUME NEW c \in Calls, StartCoordinator(c) PROVE Typed'
  BY <1>2 DEF StartCoordinator, Goto, PCs
<1>3. ASSUME NEW c \in Calls, Restored(c) PROVE Typed'
  BY <1>3, TopicIn DEF Restored, Goto, PCs
<1>4. ASSUME NEW c \in Calls, SetupFails(c) PROVE Typed'
  BY <1>4, LifecycleAssumption DEF SetupFails, Failure, Goto, PCs
<1>5. ASSUME NEW c \in Calls, SetupCancelled(c) PROVE Typed'
  BY <1>5 DEF SetupCancelled, Goto, PCs
<1>6. ASSUME NEW c \in Calls, Cleanup(c) PROVE Typed'
  <2>1. /\ DOMAIN cancels' \subseteq DOMAIN cancels
        /\ \A t \in DOMAIN cancels' : cancels'[t] = cancels[t]
    <3>1. cancels' = Without(cancels, TopicOf[c])
      BY <1>6 DEF Cleanup
    <3>2. DOMAIN cancels' = DOMAIN cancels \ {TopicOf[c]}
      BY <3>1, WithoutIs
    <3>3. \A t \in DOMAIN cancels \ {TopicOf[c]} : cancels'[t] = cancels[t]
      BY <3>1, WithoutIs
    <3> QED
      BY <3>2, <3>3
  <2>2. pc' \in [Calls -> PCs] /\ cancelled' \subseteq Calls
    BY <1>6 DEF Cleanup, Goto, PCs
  <2>3. /\ UNCHANGED <<workers, coordinator, restored>>
        /\ UNCHANGED <<redirect, closing, failures>>
    BY <1>6 DEF Cleanup
  <2> QED
    BY <2>1, <2>2, <2>3
<1>7. ASSUME NEW c \in Calls, AddWorker(c) PROVE Typed'
  BY <1>7 DEF AddWorker, Goto, PCs
<1>8. ASSUME NEW c \in Calls, LaunchWorker(c) PROVE Typed'
  BY <1>8 DEF LaunchWorker, Goto, PCs
<1>9. ASSUME NEW c \in Calls, LaunchFails(c) PROVE Typed'
  BY <1>9, LifecycleAssumption DEF LaunchFails, Failure, Goto, PCs
<1>10. ASSUME NEW c \in Calls, WorkerExits(c) PROVE Typed'
  BY <1>10 DEF WorkerExits
<1>11. CASE RedirectExits
  BY <1>11 DEF RedirectExits
<1>12. CASE Close
  BY <1>12, RangeIn DEF Close
<1>13. CASE CloseStep
  BY <1>13 DEF CloseStep, WorkersDone, CoordinatorDone
<1>14. CASE CloseTimesOut
  BY <1>14 DEF CloseTimesOut
<1>15. CASE UNCHANGED vars
  BY <1>15 DEF vars
<1> QED
  BY <1>1, <1>2, <1>3, <1>4, <1>5, <1>6, <1>7, <1>8, <1>9, <1>10, <1>11,
     <1>12, <1>13, <1>14, <1>15 DEF Next, StartStep

LEMMA StepReturned == ASSUME IInv, [Next]_vars PROVE WorkersReturned'
<1> USE DEF IInv, WorkersReturned
<1>1. ASSUME NEW c \in Calls, pc[c] # "ok", NEW v, Goto(c, v), workers' = workers
      PROVE  WorkersReturned'
  BY <1>1 DEF Goto, Typed
<1>2. ASSUME NEW c \in Calls, Enter(c) \/ (StartStep(c) /\ ~LaunchWorker(c))
      PROVE  WorkersReturned'
  BY <1>1, <1>2 DEF Enter, StartStep, StartCoordinator, Restored, SetupFails,
     SetupCancelled, Cleanup, AddWorker, LaunchFails
<1>3. ASSUME NEW c \in Calls, LaunchWorker(c) PROVE WorkersReturned'
  BY <1>3 DEF LaunchWorker, Goto, Typed
<1>4. ASSUME NEW c \in Calls, WorkerExits(c) PROVE WorkersReturned'
  BY <1>4 DEF WorkerExits
<1>5. CASE RedirectExits \/ Close \/ CloseStep \/ CloseTimesOut \/ UNCHANGED vars
  BY <1>5 DEF RedirectExits, Close, CloseStep, WorkersDone, CoordinatorDone,
     CloseTimesOut, vars
<1> QED
  BY <1>2, <1>3, <1>4, <1>5 DEF Next

\* The counter follows the calls: up with AddWorker, down with the end of a
\* worker, and the launch only hands the count over.
LEMMA StepWaitGroup == ASSUME IInv, [Next]_vars PROVE WaitGroup'
<1> USE DEF IInv
<1>1. ASSUME NEW c \in Calls, NEW v, Goto(c, v), workers' = workers, wg' = wg,
             pc[c] \notin {"launch", "abandoned"}, v \notin {"launch", "abandoned"}
      PROVE  WaitGroup'
  <2>1. Counted' = Counted
    BY <1>1 DEF Counted, Goto, Typed
  <2> QED
    BY <1>1, <2>1 DEF WaitGroup
<1>2. ASSUME NEW c \in Calls,
             Enter(c) \/ StartCoordinator(c) \/ Restored(c) \/ SetupFails(c)
               \/ SetupCancelled(c) \/ Cleanup(c)
      PROVE  WaitGroup'
  BY <1>1, <1>2 DEF Enter, StartCoordinator, Restored, SetupFails,
     SetupCancelled, Cleanup
<1>3. ASSUME NEW c \in Calls, AddWorker(c) PROVE WaitGroup'
  <2>1. c \notin Counted
    BY <1>3 DEF AddWorker, Counted, WorkersReturned
  <2>2. Counted' = Counted \cup {c}
    BY <1>3 DEF AddWorker, Goto, Counted, Typed
  <2> QED
    BY <1>3, <2>1, <2>2, FS_AddElement DEF WaitGroup, AddWorker
<1>4. ASSUME NEW c \in Calls, LaunchWorker(c) PROVE WaitGroup'
  <2>1. Counted' = Counted
    BY <1>4 DEF LaunchWorker, Goto, Counted, Typed
  <2> QED
    BY <1>4, <2>1 DEF WaitGroup, LaunchWorker
<1>5. ASSUME NEW c \in Calls, LaunchFails(c) PROVE WaitGroup'
  <2>1. Counted' = Counted
    BY <1>5 DEF LaunchFails, Goto, Counted, Typed
  <2> QED
    BY <1>5, <2>1 DEF WaitGroup, LaunchFails
<1>6. ASSUME NEW c \in Calls, WorkerExits(c) PROVE WaitGroup'
  <2>1. c \in workers /\ pc[c] = "ok" /\ c \in Counted
    BY <1>6 DEF WorkerExits, WorkersReturned, Counted
  <2>2. Counted' = Counted \ {c}
    BY <1>6, <2>1 DEF WorkerExits, Counted, Typed
  <2> QED
    BY <1>6, <2>1, <2>2, FS_RemoveElement DEF WaitGroup, WorkerExits
<1>7. CASE RedirectExits \/ Close \/ CloseStep \/ CloseTimesOut \/ UNCHANGED vars
  <2>1. UNCHANGED <<pc, workers, wg>>
    BY <1>7 DEF RedirectExits, Close, CloseStep, WorkersDone, CoordinatorDone,
       CloseTimesOut, vars
  <2>2. Counted' = Counted
    BY <2>1 DEF Counted
  <2> QED
    BY <2>1, <2>2 DEF WaitGroup
<1> QED
  BY <1>2, <1>3, <1>4, <1>5, <1>6, <1>7 DEF Next, StartStep

LEMMA StepNamed == ASSUME IInv, [Next]_vars PROVE Named'
<1> USE DEF IInv
<1>1. ASSUME Registered' \ cancelled' \subseteq Registered \ cancelled, UNCHANGED cancels
      PROVE  Named'
  BY <1>1 DEF Named
<1>2. ASSUME NEW c \in Calls, Enter(c) PROVE Named'
  <2>1. CASE TopicOf[c] \in startedTopics
    <3>1. Registered' \subseteq Registered
      BY <1>2, <2>1 DEF Enter, Goto, Registered, Typed
    <3> QED
      BY <1>1, <1>2, <2>1, <3>1 DEF Enter
  <2>2. CASE TopicOf[c] \notin startedTopics
    <3>1. /\ DOMAIN cancels' = DOMAIN cancels \cup {TopicOf[c]}
          /\ \A t \in DOMAIN cancels' :
               cancels'[t] = IF t = TopicOf[c] THEN c ELSE cancels[t]
          /\ UNCHANGED cancelled
      BY <1>2, <2>2 DEF Enter, startedTopics
    <3>2. Registered' \subseteq Registered \cup {c}
      BY <1>2, <2>2 DEF Enter, Goto, Registered, Typed
    <3>3. ASSUME NEW d \in Registered' \ cancelled', d # c
          PROVE  TopicOf[d] \in DOMAIN cancels' /\ cancels'[TopicOf[d]] = d
      BY <2>2, <3>1, <3>2, <3>3 DEF Named, startedTopics
    <3> QED
      BY <3>1, <3>3 DEF Named
  <2> QED
    BY <2>1, <2>2
<1>3. ASSUME NEW c \in Calls,
             StartCoordinator(c) \/ Restored(c) \/ SetupFails(c) \/ SetupCancelled(c)
               \/ AddWorker(c) \/ LaunchFails(c)
      PROVE  Named'
  <2>1. /\ Registered' \subseteq Registered
        /\ UNCHANGED <<cancels, cancelled>>
    BY <1>3 DEF StartCoordinator, Restored, SetupFails, SetupCancelled, AddWorker,
       LaunchFails, Goto, Registered, Typed
  <2> QED
    BY <1>1, <2>1
<1>4. ASSUME NEW c \in Calls, LaunchWorker(c) PROVE Named'
  <2>1. Registered' \subseteq Registered
    BY <1>4 DEF LaunchWorker, Goto, Registered, Typed
  <2> QED
    BY <1>1, <1>4, <2>1 DEF LaunchWorker
<1>5. ASSUME NEW c \in Calls, Cleanup(c) PROVE Named'
  <2>1. Registered' \subseteq Registered /\ c \in Registered
    BY <1>5 DEF Cleanup, Goto, Registered, Typed
  <2>2. cancelled' = cancelled \cup {c}
    BY <1>5 DEF Cleanup
  <2>3. ASSUME NEW d \in Registered' \ cancelled'
        PROVE  TopicOf[d] \in DOMAIN cancels' /\ cancels'[TopicOf[d]] = d
    <3>1. d \in Registered \ cancelled /\ d # c
      BY <2>1, <2>2, <2>3
    <3>2. TopicOf[d] \in DOMAIN cancels /\ cancels[TopicOf[d]] = d
      BY <3>1 DEF Named
    <3>3. c \notin cancelled
      BY <1>5, <3>2 DEF Cleanup, CancelledBy
    <3>4. cancels[TopicOf[c]] = c
      BY <2>1, <3>3 DEF Named
    <3>5. TopicOf[d] \in DOMAIN cancels \ {TopicOf[c]}
      BY <3>1, <3>2, <3>4
    <3>6. cancels' = Without(cancels, TopicOf[c])
      BY <1>5 DEF Cleanup
    <3> QED
      BY <3>2, <3>5, <3>6, WithoutIs
  <2> QED
    BY <2>3 DEF Named
<1>6. ASSUME NEW c \in Calls, WorkerExits(c) PROVE Named'
  <2>1. Registered' \subseteq Registered
    BY <1>6 DEF WorkerExits, Registered
  <2> QED
    BY <1>1, <1>6, <2>1 DEF WorkerExits
<1>7. CASE Close
  <2>1. Registered' = Registered
    BY <1>7 DEF Close, Registered
  <2>2. ASSUME NEW d \in Registered \ cancelled PROVE d \in Range(cancels)
    BY <2>2 DEF Named, Range
  <2> QED
    BY <1>7, <2>1, <2>2 DEF Close, Named
<1>8. CASE RedirectExits \/ CloseStep \/ CloseTimesOut \/ UNCHANGED vars
  <2>1. UNCHANGED <<pc, workers, cancels>> /\ cancelled \subseteq cancelled'
    BY <1>8 DEF RedirectExits, CloseStep, WorkersDone, CoordinatorDone,
       CloseTimesOut, vars
  <2>2. Registered' = Registered
    BY <2>1 DEF Registered
  <2> QED
    BY <1>1, <2>1, <2>2
<1> QED
  BY <1>2, <1>3, <1>4, <1>5, <1>6, <1>7, <1>8 DEF Next, StartStep

LEMMA StepCancelled == ASSUME IInv, [Next]_vars PROVE CancelledBy'
<1> USE DEF IInv, CancelledBy
<1>1. ASSUME NEW c \in Calls, NEW v, Goto(c, v), pc[c] # "error",
             UNCHANGED <<cancels, cancelled, closing>>
      PROVE  CancelledBy'
  BY <1>1 DEF Goto, Typed
<1>2. ASSUME NEW c \in Calls, Enter(c) PROVE CancelledBy'
  <2>1. closing = "no" /\ UNCHANGED <<closing, cancelled>> /\ pc[c] = "new"
    BY <1>2 DEF Enter
  <2>2. \A d \in Calls : d # c => pc'[d] = pc[d]
    BY <1>2 DEF Enter, Goto, Typed
  <2> QED
    BY <2>1, <2>2 DEF Typed
<1>3. ASSUME NEW c \in Calls, StartStep(c), ~Cleanup(c) PROVE CancelledBy'
  BY <1>1, <1>3 DEF StartStep, StartCoordinator, Restored, SetupFails,
     SetupCancelled, AddWorker, LaunchWorker, LaunchFails
<1>4. ASSUME NEW c \in Calls, Cleanup(c) PROVE CancelledBy'
  <2>1. cancelled' = cancelled \cup {c} /\ UNCHANGED closing
    BY <1>4 DEF Cleanup
  <2>2. pc'[c] = "error" /\ \A d \in Calls : d # c => pc'[d] = pc[d]
    BY <1>4 DEF Cleanup, Goto, Typed
  <2>3. cancels' = Without(cancels, TopicOf[c])
    BY <1>4 DEF Cleanup
  <2>4. DOMAIN cancels' = DOMAIN cancels \ {TopicOf[c]}
    BY <2>3, WithoutIs
  <2> QED
    BY <2>1, <2>2, <2>4 DEF Typed
<1>5. ASSUME NEW c \in Calls, WorkerExits(c) PROVE CancelledBy'
  BY <1>5 DEF WorkerExits
<1>6. CASE RedirectExits \/ CloseTimesOut \/ UNCHANGED vars
  BY <1>6 DEF RedirectExits, CloseTimesOut, vars
<1>7. CASE Close \/ CloseStep
  BY <1>7 DEF Close, CloseStep, WorkersDone, CoordinatorDone
<1> QED
  BY <1>2, <1>3, <1>4, <1>5, <1>6, <1>7 DEF Next

-----------------------------------------------------------------------------

\* The invariant holds in every state of every behaviour.
LEMMA Inductive == Spec => []IInv
<1>1. Init => IInv
  BY InitInv
<1>2. IInv /\ [Next]_vars => IInv'
  BY StepTyped, StepReturned, StepWaitGroup, StepNamed, StepCancelled DEF IInv
<1> QED
  BY <1>1, <1>2, PTL DEF Spec

\* The state of Start and Close is well typed; in particular the counter of
\* the wait group, where a negative one would panic (tracker.go:146, 291).
THEOREM LifecycleTypeCorrect == Spec => []TypeOK
<1>1. IInv => TypeOK
  <2> SUFFICES ASSUME IInv PROVE TypeOK
    OBVIOUS
  <2>1. wg \in Nat
    BY FS_CardinalityType DEF IInv, WaitGroup
  <2>2. Range(cancels) \subseteq Calls
    BY RangeIn DEF IInv, Typed
  <2> QED
    BY <2>1, <2>2 DEF IInv, Typed, TypeOK, startedTopics
<1> QED
  BY <1>1, Inductive, PTL

\* However many calls of Start overlap, fail and are repeated, a topic has at
\* most one retry worker that is not on its way out (tracker.go:116-140).
THEOREM LifecycleOneWorker == Spec => []OneWorkerPerTopic
<1>1. IInv => OneWorkerPerTopic
  BY DEF IInv, Named, Registered, OneWorkerPerTopic
<1> QED
  BY <1>1, Inductive, PTL
=============================================================================

-------------------------- MODULE TrackerLifecycle --------------------------
(***************************************************************************)
(* Start and Close of ErrorTracker (tracker.go) and of the coordinator it  *)
(* owns (coordinator_kafka.go): calls of Start that overlap, fail half way *)
(* and are repeated, the goroutines they leave running, and one Close.     *)
(*                                                                         *)
(* A call of Start is named by its own context, workerCtx.  Start is not   *)
(* called any more once Close was (tracker.go:153).                        *)
(***************************************************************************)
EXTENDS Integers, Functions

CONSTANTS
  Calls, TopicOf,   \* calls of Start, and the topic each is made for
  NoCall,
  MaxFailures       \* bound on steps of a Start that return an error

ASSUME LifecycleAssumption == NoCall \notin Calls /\ MaxFailures \in Nat

VARIABLES
  pc,            \* progress of each call
  cancels,       \* of the tracker: the call whose context a topic cancels
  cancelled,     \* calls whose context is cancelled
  wg,            \* counter of the tracker's wait group
  workers,       \* calls whose retry worker runs
  coordinator,   \* call that started it, restored or not
  restored,      \* topic whose lock state the coordinator restored, if any
  redirect,      \* call whose redirect consumer runs
  closing,       \* progress of Close
  failures

vars == <<pc, cancels, cancelled, wg, workers, coordinator, restored,
          redirect, closing, failures>>

PCs == {"new", "coordinator", "setup", "cleanup", "worker", "launch",
        "ok", "error", "abandoned"}

Topics == {TopicOf[c] : c \in Calls}

\* startedTopics and cancels have the same keys, in every step.
startedTopics == DOMAIN cancels

Without(f, x) == Restrict(f, DOMAIN f \ {x})

Init ==
  /\ pc = [c \in Calls |-> "new"]
  /\ cancels = << >>
  /\ cancelled = {}
  /\ wg = 0
  /\ workers = {}
  /\ coordinator = NoCall
  /\ restored = {}
  /\ redirect = NoCall
  /\ closing = "no"
  /\ failures = 0

Goto(c, label) == pc' = [pc EXCEPT ![c] = label]
Failure == failures < MaxFailures /\ failures' = failures + 1

-----------------------------------------------------------------------------
(* ErrorTracker.Start, up to the coordinator's Start                       *)

\* Mutant: Start does not look at startedTopics.
EnterTwice(c) ==
  /\ pc[c] = "new"
  /\ closing = "no"
  /\ Goto(c, "coordinator")
  /\ cancels' = [t \in startedTopics \cup {TopicOf[c]} |->
                   IF t = TopicOf[c] THEN c ELSE cancels[t]]
  /\ UNCHANGED <<cancelled, wg, workers, coordinator, restored, redirect,
                 closing, failures>>

Enter(c) ==
  /\ pc[c] = "new"
  /\ closing = "no"
  /\ IF TopicOf[c] \in startedTopics
     THEN Goto(c, "ok") /\ UNCHANGED cancels
     ELSE /\ Goto(c, "coordinator")
          /\ cancels' = [t \in startedTopics \cup {TopicOf[c]} |->
                           IF t = TopicOf[c] THEN c ELSE cancels[t]]
  /\ UNCHANGED <<cancelled, wg, workers, coordinator, restored, redirect,
                 closing, failures>>

\* A coordinator that was started once returns nil, whatever came of it.
StartCoordinator(c) ==
  /\ pc[c] = "coordinator"
  /\ IF coordinator # NoCall
     THEN Goto(c, "worker") /\ UNCHANGED coordinator
     ELSE Goto(c, "setup") /\ coordinator' = c
  /\ UNCHANGED <<cancels, cancelled, wg, workers, restored, redirect, closing, failures>>

\* Topic there, state restored, redirect consumer launched.
Restored(c) ==
  /\ pc[c] = "setup"
  /\ restored' = {TopicOf[c]}
  /\ redirect' = c
  /\ Goto(c, "worker")
  /\ UNCHANGED <<cancels, cancelled, wg, workers, coordinator, closing, failures>>

SetupFails(c) ==
  /\ pc[c] = "setup"
  /\ Failure
  /\ Goto(c, "cleanup")
  /\ UNCHANGED <<cancels, cancelled, wg, workers, coordinator, restored, redirect, closing>>

\* restoreState takes a cancelled context for its own cancellation: it
\* returns nil before it is done, and the consumer is launched.
SetupCancelled(c) ==
  /\ pc[c] = "setup"
  /\ c \in cancelled
  /\ redirect' = c
  /\ Goto(c, "worker")
  /\ UNCHANGED <<cancels, cancelled, wg, workers, coordinator, restored, closing, failures>>

Cleanup(c) ==
  /\ pc[c] = "cleanup"
  /\ cancelled' = cancelled \cup {c}
  /\ cancels' = Without(cancels, TopicOf[c])
  /\ Goto(c, "error")
  /\ UNCHANGED <<wg, workers, coordinator, restored, redirect, closing, failures>>

-----------------------------------------------------------------------------
(* The rest of Start: the retry worker                                     *)

\* Mutant: the worker is not added to the wait group.
AddNoWorker(c) ==
  /\ pc[c] = "worker"
  /\ Goto(c, "launch")
  /\ UNCHANGED <<cancels, cancelled, wg, workers, coordinator, restored, redirect,
                 closing, failures>>

AddWorker(c) ==
  /\ pc[c] = "worker"
  /\ wg' = wg + 1
  /\ Goto(c, "launch")
  /\ UNCHANGED <<cancels, cancelled, workers, coordinator, restored, redirect,
                 closing, failures>>

LaunchWorker(c) ==
  /\ pc[c] = "launch"
  /\ workers' = workers \cup {c}
  /\ Goto(c, "ok")
  /\ UNCHANGED <<cancels, cancelled, wg, coordinator, restored, redirect, closing, failures>>

\* Creating the topics or the consumer fails; nothing is taken back.
LaunchFails(c) ==
  /\ pc[c] = "launch"
  /\ Failure
  /\ Goto(c, "abandoned")
  /\ UNCHANGED <<cancels, cancelled, wg, workers, coordinator, restored, redirect, closing>>

-----------------------------------------------------------------------------
(* The goroutines: they restart their consumer until the context ends.     *)

\* Mutant: a worker that ends does not say so.
WorkerExitsSilently(c) ==
  /\ c \in workers \cap cancelled
  /\ workers' = workers \ {c}
  /\ UNCHANGED <<pc, cancels, cancelled, wg, coordinator, restored, redirect, closing, failures>>

WorkerExits(c) ==
  /\ c \in workers \cap cancelled
  /\ workers' = workers \ {c}
  /\ wg' = wg - 1
  /\ UNCHANGED <<pc, cancels, cancelled, coordinator, restored, redirect, closing, failures>>

RedirectExits ==
  /\ redirect \in cancelled
  /\ redirect' = NoCall
  /\ UNCHANGED <<pc, cancels, cancelled, wg, workers, coordinator, restored,
                 closing, failures>>

-----------------------------------------------------------------------------
(* Close                                                                   *)

\* Mutant: the maps are cleared and nothing is cancelled.
CloseForgets ==
  /\ closing = "no"
  /\ cancels' = << >>
  /\ closing' = "workers"
  /\ UNCHANGED <<pc, cancelled, wg, workers, coordinator, restored, redirect, failures>>

Close ==
  /\ closing = "no"
  /\ cancelled' = cancelled \cup Range(cancels)
  /\ cancels' = << >>
  /\ closing' = "workers"
  /\ UNCHANGED <<pc, wg, workers, coordinator, restored, redirect, failures>>

\* The coordinator cancels the context of the call that started it.
WorkersDone ==
  /\ closing = "workers"
  /\ wg = 0
  /\ cancelled' = cancelled \cup ({coordinator} \ {NoCall})
  /\ closing' = "coordinator"
  /\ UNCHANGED <<pc, cancels, wg, workers, coordinator, restored, redirect, failures>>

CoordinatorDone ==
  /\ closing = "coordinator"
  /\ redirect = NoCall
  /\ closing' = "closed"
  /\ UNCHANGED <<pc, cancels, cancelled, wg, workers, coordinator, restored,
                 redirect, failures>>

CloseTimesOut ==
  /\ closing \in {"workers", "coordinator"}
  /\ closing' = "timeout"
  /\ UNCHANGED <<pc, cancels, cancelled, wg, workers, coordinator, restored,
                 redirect, failures>>

-----------------------------------------------------------------------------

StartStep(c) ==
  \/ StartCoordinator(c) \/ Restored(c) \/ SetupFails(c) \/ SetupCancelled(c)
  \/ Cleanup(c) \/ AddWorker(c) \/ LaunchWorker(c) \/ LaunchFails(c)

CloseStep == WorkersDone \/ CoordinatorDone

Next ==
  \/ \E c \in Calls : Enter(c) \/ StartStep(c) \/ WorkerExits(c)
  \/ RedirectExits
  \/ Close \/ CloseStep \/ CloseTimesOut

Spec == Init /\ [][Next]_vars

\* Calls under way, goroutines and Close run on.  Nobody has to call Start
\* or Close, and the deadline of Close need not pass.
FairSpec ==
  /\ Spec
  /\ \A c \in Calls : WF_vars(StartStep(c)) /\ WF_vars(WorkerExits(c))
  /\ WF_vars(RedirectExits)
  /\ WF_vars(CloseStep)

-----------------------------------------------------------------------------
(* Properties *)

TypeOK ==
  /\ pc \in [Calls -> PCs]
  /\ startedTopics \subseteq Topics /\ Range(cancels) \subseteq Calls
  /\ cancelled \subseteq Calls
  /\ wg \in Nat
  /\ workers \subseteq Calls
  /\ coordinator \in Calls \cup {NoCall}
  /\ restored \subseteq Topics
  /\ redirect \in Calls \cup {NoCall}
  /\ closing \in {"no", "workers", "coordinator", "closed", "timeout"}
  /\ failures \in 0..MaxFailures

\* Overlapping and repeated calls leave a topic with at most one worker that
\* is not on its way out: "calling Start multiple times for the same topic
\* is safe" (tracker.go:116-117).
OneWorkerPerTopic ==
  \A c, d \in workers \ cancelled : TopicOf[c] = TopicOf[d] => c = d

\* Close reaches every goroutine, those of calls it overtook included: once
\* it was called, nothing goes on running for ever (tracker.go:151-153).
EverythingStops ==
  closing # "no" ~> [](workers = {} /\ redirect = NoCall)

\* Close comes to its end by itself, without its deadline, unless a Start
\* was abandoned after it counted a worker that never ran (tracker.go:146).
CloseEnds ==
  closing # "no" ~>
    (closing \in {"closed", "timeout"} \/ \E c \in Calls : pc[c] = "abandoned")

\* A retry worker runs only when the coordinator has restored the locks of
\* its topic: "Once it completes, the coordinator is ready to use with
\* accurate lock state" (coordinator_kafka.go:87-88).
WorkerAfterRestore ==
  \A c \in workers : TopicOf[c] \in restored \/ c \in cancelled
=============================================================================

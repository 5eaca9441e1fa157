----------------------------- MODULE TaskQueue -----------------------------
(***************************************************************************)
(* PGLib/src/util/TaskQueue.cpp: a FIFO of callables executed by one       *)
(* worker thread.  One action per access to shared state.  A critical      *)
(* section of m_queueMutex is one step, but for the one that ends in       *)
(* m_cv.wait: the predicate is evaluated with the mutex held, and m_running*)
(* is written without it, so the evaluation and the blocking are two steps *)
(* (workerPc = "predFalse" holds the mutex).                               *)
(*                                                                         *)
(* Producers call queueTask.  One controller calls waitForCompletion and   *)
(* shutdown, as every client in PGLib and PGPatcher does.  An exception    *)
(* recorded by any other thread is an action of the environment.           *)
(***************************************************************************)
EXTENDS Naturals, Sequences

CONSTANTS Tasks,      \* the callables, each submitted at most once
          Producers,  \* the threads that call queueTask
          NoTask      \* an empty std::function

ASSUME NoTaskAssumption == NoTask \notin Tasks

VARIABLES
  taskQueue,        \* m_taskQueue
  queuedTasks,      \* m_queuedTasks
  running,          \* m_running
  isBusy,           \* m_isBusy
  exceptionThrown,  \* ExceptionHandler::s_exceptionThrown
  workerPc,         \* where the worker is in workerLoop
  hand,             \* the worker's local variable task
  prodPc,           \* where each producer is in queueTask
  prodTask,         \* the callable each producer is submitting
  ctlPc             \* where the controller is

\* History variables: they record what happened and no action reads them.
VARIABLES
  accepted,    \* the tasks emplaced, in order
  begun,       \* the tasks the worker has taken, in order
  finished,    \* the tasks that returned normally
  failed,      \* the task of this queue that threw, or NoTask
  lateStarts,  \* tasks taken after a stop or an exception was visible
  waitMark     \* Len(accepted) when waitForCompletion was called

workerVars == <<workerPc, hand>>
prodVars   == <<prodPc, prodTask>>
stateVars  == <<taskQueue, queuedTasks, running, isBusy, exceptionThrown>>
histVars   == <<accepted, begun, finished, failed, lateStarts, waitMark>>
vars       == <<stateVars, workerVars, prodVars, ctlPc, histVars>>

WorkerPcs == {"loop", "checkException", "lock", "predFalse", "waiting",
              "taken", "executing", "clear", "exited"}
ProdPcs   == {"idle", "emplace", "notify"}
CtlPcs    == {"idle", "pollBusy", "pollQueued", "returned",
              "stopped", "joining", "down"}

Init ==
  /\ taskQueue = <<>> /\ queuedTasks = 0
  /\ running = TRUE /\ isBusy = FALSE /\ exceptionThrown = FALSE
  /\ workerPc = "loop" /\ hand = NoTask
  /\ prodPc = [p \in Producers |-> "idle"]
  /\ prodTask = [p \in Producers |-> NoTask]
  /\ ctlPc = "idle"
  /\ accepted = <<>> /\ begun = <<>> /\ finished = {} /\ failed = NoTask
  /\ lateStarts = 0 /\ waitMark = 0

\* m_queueMutex is held across steps only by a worker about to block.
MutexFree == workerPc # "predFalse"

\* Mutant: a notification that wakes nobody.
NotifyNobody == UNCHANGED workerPc

\* m_cv.notify_one(): only the worker ever waits on m_cv.
NotifyOne == workerPc' = IF workerPc = "waiting" THEN "lock" ELSE workerPc

-----------------------------------------------------------------------------
(* queueTask                                                               *)

Submitted == {accepted[i] : i \in DOMAIN accepted}
             \cup {prodTask[p] : p \in Producers}

\* A call of queueTask: hasException() drops the task silently.
QueueTask(p, t) ==
  /\ prodPc[p] = "idle"
  /\ t \notin Submitted
  /\ ~exceptionThrown
  /\ prodPc' = [prodPc EXCEPT ![p] = "emplace"]
  /\ prodTask' = [prodTask EXCEPT ![p] = t]
  /\ UNCHANGED <<stateVars, workerVars, ctlPc, histVars>>

\* Mutant: the producer does not notify after emplacing.
EmplaceSilently(p) ==
  /\ prodPc[p] = "emplace" /\ MutexFree
  /\ taskQueue' = Append(taskQueue, prodTask[p])
  /\ queuedTasks' = queuedTasks + 1
  /\ accepted' = Append(accepted, prodTask[p])
  /\ prodPc' = [prodPc EXCEPT ![p] = "idle"]
  /\ prodTask' = [prodTask EXCEPT ![p] = NoTask]
  /\ UNCHANGED <<running, isBusy, exceptionThrown, workerVars, ctlPc,
                 begun, finished, failed, lateStarts, waitMark>>

\* The critical section: emplace and count.
Emplace(p) ==
  /\ prodPc[p] = "emplace" /\ MutexFree
  /\ taskQueue' = Append(taskQueue, prodTask[p])
  /\ queuedTasks' = queuedTasks + 1
  /\ accepted' = Append(accepted, prodTask[p])
  /\ prodPc' = [prodPc EXCEPT ![p] = "notify"]
  /\ prodTask' = [prodTask EXCEPT ![p] = NoTask]
  /\ UNCHANGED <<running, isBusy, exceptionThrown, workerVars, ctlPc,
                 begun, finished, failed, lateStarts, waitMark>>

NotifyQueued(p) ==
  /\ prodPc[p] = "notify"
  /\ NotifyOne
  /\ prodPc' = [prodPc EXCEPT ![p] = "idle"]
  /\ UNCHANGED <<stateVars, hand, prodTask, ctlPc, histVars>>

-----------------------------------------------------------------------------
(* workerLoop                                                              *)

\* while (m_running)
LoopTest ==
  /\ workerPc = "loop"
  /\ workerPc' = IF running THEN "checkException" ELSE "exited"
  /\ UNCHANGED <<stateVars, hand, prodVars, ctlPc, histVars>>

CheckException ==
  /\ workerPc = "checkException"
  /\ \/ /\ exceptionThrown
        /\ running' = FALSE
        /\ workerPc' = "exited"
     \/ /\ ~exceptionThrown
        /\ workerPc' = "lock"
        /\ UNCHANGED running
  /\ UNCHANGED <<taskQueue, queuedTasks, isBusy, exceptionThrown, hand,
                 prodVars, ctlPc, histVars>>

\* Mutant: the task is copied out of the queue and never popped.
TakeWithoutPop ==
  /\ workerPc = "lock"
  /\ taskQueue # <<>>
  /\ hand' = Head(taskQueue)
  /\ begun' = Append(begun, Head(taskQueue))
  /\ workerPc' = "taken"
  /\ UNCHANGED <<stateVars, prodVars, ctlPc,
                 accepted, finished, failed, lateStarts, waitMark>>

\* Mutant: m_queuedTasks is not decremented with the pop.
TakeUncounted ==
  /\ workerPc = "lock"
  /\ taskQueue # <<>>
  /\ hand' = Head(taskQueue)
  /\ taskQueue' = Tail(taskQueue)
  /\ begun' = Append(begun, Head(taskQueue))
  /\ workerPc' = "taken"
  /\ UNCHANGED <<queuedTasks, running, isBusy, exceptionThrown, prodVars,
                 ctlPc, accepted, finished, failed, lateStarts, waitMark>>

\* The predicate of m_cv.wait holds because the queue is not empty.
Take ==
  /\ workerPc = "lock"
  /\ taskQueue # <<>>
  /\ hand' = Head(taskQueue)
  /\ taskQueue' = Tail(taskQueue)
  /\ queuedTasks' = queuedTasks - 1
  /\ workerPc' = "taken"
  /\ begun' = Append(begun, Head(taskQueue))
  /\ lateStarts' = IF running /\ ~exceptionThrown
                   THEN lateStarts ELSE lateStarts + 1
  /\ UNCHANGED <<running, isBusy, exceptionThrown, prodVars, ctlPc,
                 accepted, finished, failed, waitMark>>

\* !m_running && m_taskQueue.empty(): leave the loop.
StopEmpty ==
  /\ workerPc = "lock"
  /\ taskQueue = <<>> /\ ~running
  /\ workerPc' = "exited"
  /\ UNCHANGED <<stateVars, hand, prodVars, ctlPc, histVars>>

\* The predicate is false: the worker will block, still holding the mutex.
PredicateFalse ==
  /\ workerPc = "lock"
  /\ taskQueue = <<>> /\ running
  /\ workerPc' = "predFalse"
  /\ UNCHANGED <<stateVars, hand, prodVars, ctlPc, histVars>>

\* Atomically release the mutex and block on m_cv.
Block ==
  /\ workerPc = "predFalse"
  /\ workerPc' = "waiting"
  /\ UNCHANGED <<stateVars, hand, prodVars, ctlPc, histVars>>

\* A condition variable may wake its waiter for no reason.
SpuriousWakeup ==
  /\ workerPc = "waiting"
  /\ workerPc' = "lock"
  /\ UNCHANGED <<stateVars, hand, prodVars, ctlPc, histVars>>

SetBusy ==
  /\ workerPc = "taken"
  /\ isBusy' = TRUE
  /\ workerPc' = "executing"
  /\ UNCHANGED <<taskQueue, queuedTasks, running, exceptionThrown, hand,
                 prodVars, ctlPc, histVars>>

TaskReturns ==
  /\ workerPc = "executing"
  /\ finished' = finished \cup {hand}
  /\ workerPc' = "clear"
  /\ UNCHANGED <<stateVars, hand, prodVars, ctlPc,
                 accepted, begun, failed, lateStarts, waitMark>>

\* The task throws: ExceptionHandler::setException on the worker thread.
TaskThrows ==
  /\ workerPc = "executing"
  /\ exceptionThrown' = TRUE
  /\ failed' = hand
  /\ workerPc' = "clear"
  /\ UNCHANGED <<taskQueue, queuedTasks, running, isBusy, hand, prodVars,
                 ctlPc, accepted, begun, finished, lateStarts, waitMark>>

\* Mutant: the busy flag is left set.
StayBusy ==
  /\ workerPc = "clear"
  /\ hand' = NoTask
  /\ workerPc' = "loop"
  /\ UNCHANGED <<stateVars, prodVars, ctlPc, histVars>>

ClearBusy ==
  /\ workerPc = "clear"
  /\ isBusy' = FALSE
  /\ hand' = NoTask
  /\ workerPc' = "loop"
  /\ UNCHANGED <<taskQueue, queuedTasks, running, exceptionThrown,
                 prodVars, ctlPc, histVars>>

Worker == \/ LoopTest \/ CheckException \/ Take \/ StopEmpty
          \/ PredicateFalse \/ Block \/ SetBusy
          \/ TaskReturns \/ TaskThrows \/ ClearBusy

-----------------------------------------------------------------------------
(* The controller: waitForCompletion and shutdown                          *)

ctlStep(from, to) == ctlPc = from /\ ctlPc' = to

CallWait ==
  /\ ctlStep("idle", "pollBusy")
  /\ waitMark' = Len(accepted)
  /\ UNCHANGED <<stateVars, workerVars, prodVars,
                 accepted, begun, finished, failed, lateStarts>>

\* isWorking() reads m_isBusy, and only when it is false m_queuedTasks.
PollBusy ==
  /\ ~isBusy
  /\ ctlStep("pollBusy", "pollQueued")
  /\ UNCHANGED <<stateVars, workerVars, prodVars, histVars>>

\* Mutant: the boundary of the comparison is off by one.
PollQueuedOffByOne ==
  /\ \/ queuedTasks <= 1 /\ ctlStep("pollQueued", "returned")
     \/ queuedTasks > 1 /\ ctlStep("pollQueued", "pollBusy")
  /\ UNCHANGED <<stateVars, workerVars, prodVars, histVars>>

PollQueued ==
  /\ \/ queuedTasks = 0 /\ ctlStep("pollQueued", "returned")
     \/ queuedTasks > 0 /\ ctlStep("pollQueued", "pollBusy")
  /\ UNCHANGED <<stateVars, workerVars, prodVars, histVars>>

WaitReturned ==
  /\ ctlStep("returned", "idle")
  /\ UNCHANGED <<stateVars, workerVars, prodVars, histVars>>

\* shutdown(): m_running is cleared without the mutex, ...
Shutdown ==
  /\ ctlStep("idle", "stopped")
  /\ running' = FALSE
  /\ UNCHANGED <<taskQueue, queuedTasks, isBusy, exceptionThrown,
                 workerVars, prodVars, histVars>>

\* ... the worker is notified if it is waiting by now, ...
NotifyStopped ==
  /\ ctlStep("stopped", "joining")
  /\ NotifyOne
  /\ UNCHANGED <<stateVars, hand, prodVars, histVars>>

\* Mutant: the worker is signalled and not joined.
Detach ==
  /\ ctlStep("joining", "down")
  /\ UNCHANGED <<stateVars, workerVars, prodVars, histVars>>

\* ... and joined.
Join ==
  /\ workerPc = "exited"
  /\ ctlStep("joining", "down")
  /\ UNCHANGED <<stateVars, workerVars, prodVars, histVars>>

Controller == \/ CallWait \/ PollBusy \/ PollQueued \/ WaitReturned
              \/ Shutdown \/ NotifyStopped \/ Join

-----------------------------------------------------------------------------
\* Another queue, or a thread of a TaskPoolRunner, records an exception.
OtherThreadThrows ==
  /\ ~exceptionThrown
  /\ exceptionThrown' = TRUE
  /\ UNCHANGED <<taskQueue, queuedTasks, running, isBusy, workerVars,
                 prodVars, ctlPc, histVars>>

Next == \/ Worker
        \/ SpuriousWakeup
        \/ \E p \in Producers, t \in Tasks : QueueTask(p, t)
        \/ \E p \in Producers : Emplace(p) \/ NotifyQueued(p)
        \/ Controller
        \/ OtherThreadThrows

Spec == Init /\ [][Next]_vars

(* Threads that can run do run, tasks end, calls in progress are           *)
(* completed.  Nobody is obliged to submit, to wait, to stop or to throw,  *)
(* and spurious wakeups are not counted on.                                *)
Fairness ==
  /\ WF_vars(Worker)
  /\ \A p \in Producers : SF_vars(Emplace(p)) /\ WF_vars(NotifyQueued(p))
  /\ WF_vars(PollBusy \/ PollQueued \/ WaitReturned \/ NotifyStopped \/ Join)

FairSpec == Spec /\ Fairness

-----------------------------------------------------------------------------
(* Properties                                                              *)

TypeOK ==
  /\ taskQueue \in Seq(Tasks) /\ queuedTasks \in Nat
  /\ running \in BOOLEAN /\ isBusy \in BOOLEAN /\ exceptionThrown \in BOOLEAN
  /\ workerPc \in WorkerPcs /\ hand \in Tasks \cup {NoTask}
  /\ prodPc \in [Producers -> ProdPcs]
  /\ prodTask \in [Producers -> Tasks \cup {NoTask}]
  /\ ctlPc \in CtlPcs
  /\ accepted \in Seq(Tasks) /\ begun \in Seq(Tasks)
  /\ finished \in SUBSET Tasks /\ failed \in Tasks \cup {NoTask}
  /\ lateStarts \in Nat /\ waitMark \in Nat

(* Across every interleaving of producers, worker and stop, the tasks      *)
(* taken followed by the tasks still queued are the tasks accepted, in     *)
(* order: none is lost, repeated or overtaken, and the counter that        *)
(* isWorking reads without the mutex agrees with the queue it stands for.  *)
QueueAccounts == /\ accepted = begun \o taskQueue
                 /\ queuedTasks = Len(taskQueue)

(* After shutdown has cleared m_running, or any thread has recorded an     *)
(* exception, the worker takes at most one more task: the one whose checks *)
(* at the top of the loop it had already passed.                           *)
AtMostOneLateStart == lateStarts <= 1

(* The state is well formed, the accounts of the queue agree, and a stop   *)
(* or an exception is overtaken by one task at most.                       *)
QueueSafe == TypeOK /\ QueueAccounts /\ AtMostOneLateStart

(* The worker sleeps on a non-empty queue only while the producer that     *)
(* filled it has yet to call notify_one: a queued task cannot be left      *)
(* behind by a notification sent before the worker slept.                  *)
NoLostWakeup ==
  workerPc = "waiting" /\ taskQueue # <<>> =>
    \E p \in Producers : prodPc[p] = "notify"

(* When waitForCompletion returns, every task accepted before the call has *)
(* finished or thrown, but for at most one: the task the worker has in     *)
(* hand, popped and counted off the queue before m_isBusy was set.         *)
WaitLeavesOnlyTheTaskInHand ==
  ctlPc = "returned" =>
    \A i \in 1..waitMark : accepted[i] \in finished \cup {failed, hand}

(* Waiting and then stopping, as patchMeshes does at its end (PGPatcher.cpp *)
(* :137-141, the destructor stops), does complete every task accepted      *)
(* before the wait: the join covers the task the wait may leave in hand.   *)
DrainedWhenDown ==
  ctlPc = "down" =>
    \A i \in 1..waitMark : accepted[i] \in finished \cup {failed}

(* What a caller of waitForCompletion may count on: at its return all but  *)
(* the task in hand is done, and that one too after the shutdown.          *)
WaitSafe == WaitLeavesOnlyTheTaskInHand /\ DrainedWhenDown

(* The queue executes its tasks serially, in the order accepted, and none  *)
(* after one of them has thrown.                                           *)
SQ == INSTANCE SerialQueue WITH pending <- taskQueue, current <- hand
SerialExecution == SQ!Spec

(* A task accepted into a queue that is neither stopped nor poisoned by an *)
(* exception is eventually executed to its end.                            *)
AcceptedTaskRuns ==
  \A t \in Tasks :
    (\E i \in DOMAIN taskQueue : taskQueue[i] = t)
      ~> (t \in finished \/ exceptionThrown \/ ~running)

(* waitForCompletion returns unless an exception is recorded: then tasks   *)
(* that nobody will take may keep m_queuedTasks above zero for ever.       *)
WaitReturns ==
  ctlPc \in {"pollBusy", "pollQueued"} ~> (ctlPc = "returned" \/ exceptionThrown)

(* TaskQueue.hpp:110 of shutdown: "Signals the worker thread to stop and   *)
(* waits for it to exit."                                                  *)
ShutdownReturns == ctlPc = "stopped" ~> ctlPc = "down"
=============================================================================

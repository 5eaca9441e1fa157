---------------------------- MODULE MeshMapping ----------------------------
(***************************************************************************)
(* PGDirectory::mapFiles and waitForMeshMapping: the meshes of the load    *)
(* order are read by the threads of a TaskPoolRunner, and each mesh read   *)
(* is handed to the TaskQueue m_meshUseMappingQueue, which looks up the    *)
(* plugin records that use it and enters it into m_meshes.  The patching   *)
(* run waits for that queue and then walks m_meshes without a lock.        *)
(*                                                                         *)
(* The queue, its worker and its control operations are those of module    *)
(* TaskQueue; its tasks are the meshes, its producers the pool's threads,  *)
(* its controller the thread that runs mapFiles and then the patching run. *)
(* m_CMClassificationQueue is used and waited for in the same way.         *)
(***************************************************************************)
EXTENDS TaskQueue, FiniteSets

CONSTANT Blocked   \* the meshes the NIF allow- and blocklist exclude

ASSUME BlockedAssumption == Blocked \subseteq Tasks
ASSUME FiniteMeshes == IsFiniteSet(Tasks)

Meshes  == Tasks
Threads == Producers

VARIABLES
  multithreading,  \* the parameter of mapFiles
  mainPc,          \* where the controlling thread is
  posted,          \* the meshes posted to the pool and not yet picked
  threadPc,        \* where each pool thread is
  threadMesh,      \* the mesh each pool thread works on
  completedTasks,  \* TaskPoolRunner::m_completedTasks
  totalRanJobs,    \* TaskTracker::m_totalRanJobs
  loaded,          \* history: the meshes whose NIF was read
  meshes,          \* the keys of m_meshes
  waited           \* history: waitForMeshMapping saw the queue processing

poolVars == <<posted, threadPc, threadMesh>>
mapVars  == <<multithreading, completedTasks, totalRanJobs, loaded, meshes, waited>>
allVars  == <<vars, mainPc, poolVars, mapVars>>

MainPcs   == {"mapFiles", "runTasks", "waitForMeshMapping", "isProcessing",
              "wait", "shutdown", "patch"}
ThreadPcs == {"idle", "read", "queue", "complete"}

ToRun == Meshes \ Blocked

MapInit ==
  /\ Init
  /\ multithreading \in BOOLEAN
  /\ mainPc = "mapFiles"
  /\ posted = {} /\ completedTasks = 0 /\ totalRanJobs = 0
  /\ threadPc = [th \in Threads |-> "idle"]
  /\ threadMesh = [th \in Threads |-> NoTask]
  /\ loaded = {} /\ meshes = {} /\ waited = FALSE

GoTo(from, to) == mainPc = from /\ mainPc' = to

-----------------------------------------------------------------------------
(* The pool: one lambda of runTasks around one call of mapTexturesFromNIF. *)
(* Threads that find an exception recorded return without counting.        *)

PickTask(th) ==
  /\ threadPc[th] = "idle"
  /\ \E m \in posted :
       /\ posted' = posted \ {m}
       /\ \/ exceptionThrown /\ UNCHANGED <<threadPc, threadMesh>>
          \/ /\ ~exceptionThrown
             /\ threadPc' = [threadPc EXCEPT ![th] = "read"]
             /\ threadMesh' = [threadMesh EXCEPT ![th] = m]
  /\ UNCHANGED <<vars, mainPc, mapVars>>

\* An unreadable NIF fails the job; a mesh that was read goes to the queue.
ReadNIF(th) ==
  /\ threadPc[th] = "read"
  /\ \/ /\ threadPc' = [threadPc EXCEPT ![th] = "complete"]
        /\ UNCHANGED loaded
     \/ /\ threadPc' = [threadPc EXCEPT ![th] = "queue"]
        /\ loaded' = loaded \cup {threadMesh[th]}
  /\ UNCHANGED <<vars, mainPc, posted, threadMesh, multithreading,
                 completedTasks, totalRanJobs, meshes, waited>>

\* queueTask begins, or drops the task because of an exception.
QueueMesh(th) ==
  /\ threadPc[th] = "queue"
  /\ \/ QueueTask(th, threadMesh[th])
     \/ exceptionThrown /\ UNCHANGED vars
  /\ threadPc' = [threadPc EXCEPT ![th] = "complete"]
  /\ UNCHANGED <<mainPc, posted, threadMesh, mapVars>>

\* Mutant: the job is tracked, and the pool's counter forgotten.
CompleteUncounted(th) ==
  /\ threadPc[th] = "complete"
  /\ prodPc[th] = "idle"
  /\ totalRanJobs' = totalRanJobs + 1
  /\ threadPc' = [threadPc EXCEPT ![th] = "idle"]
  /\ threadMesh' = [threadMesh EXCEPT ![th] = NoTask]
  /\ UNCHANGED <<vars, mainPc, posted, multithreading, completedTasks, loaded,
                 meshes, waited>>

\* queueTask has returned: completeJob, then the pool's counter.
CompleteJob(th) ==
  /\ threadPc[th] = "complete"
  /\ prodPc[th] = "idle"
  /\ totalRanJobs' = totalRanJobs + 1
  /\ completedTasks' = completedTasks + 1
  /\ threadPc' = [threadPc EXCEPT ![th] = "idle"]
  /\ threadMesh' = [threadMesh EXCEPT ![th] = NoTask]
  /\ UNCHANGED <<vars, mainPc, posted, multithreading, loaded, meshes, waited>>

\* mapTexturesFromNIF throws: the exception is recorded, nothing is counted.
JobThrows(th) ==
  /\ threadPc[th] \in {"read", "complete"} /\ prodPc[th] = "idle"
  /\ exceptionThrown' = TRUE
  /\ threadPc' = [threadPc EXCEPT ![th] = "idle"]
  /\ threadMesh' = [threadMesh EXCEPT ![th] = NoTask]
  /\ UNCHANGED <<taskQueue, queuedTasks, running, isBusy, workerVars, prodVars,
                 ctlPc, histVars, mainPc, posted, mapVars>>

Thread(th) == \/ PickTask(th) \/ ReadNIF(th) \/ QueueMesh(th)
              \/ CompleteJob(th) \/ JobThrows(th)

-----------------------------------------------------------------------------
(* The worker of the queue: a task that returns has entered its mesh.      *)

MapWorker ==
  /\ Worker
  /\ meshes' = meshes \cup (finished' \ finished)
  /\ UNCHANGED <<mainPc, poolVars, multithreading, completedTasks,
                 totalRanJobs, loaded, waited>>

FinishQueueTask(th) == /\ Emplace(th) \/ NotifyQueued(th)
                       /\ UNCHANGED <<mainPc, poolVars, mapVars>>

-----------------------------------------------------------------------------
(* The controlling thread.                                                 *)

\* Excluded meshes complete their job at once, the others become tasks.
MapFiles ==
  /\ GoTo("mapFiles", "runTasks")
  /\ totalRanJobs' = Cardinality(Blocked)
  /\ posted' = ToRun
  /\ UNCHANGED <<vars, threadPc, threadMesh, multithreading, completedTasks,
                 loaded, meshes, waited>>

\* Mutant: the pool's counter is compared off by one.
RunTasksEarly ==
  /\ multithreading
  /\ GoTo("runTasks", "waitForMeshMapping")
  /\ completedTasks + 1 >= Cardinality(ToRun)
  /\ UNCHANGED <<vars, poolVars, mapVars>>

\* runTasks with multithreading: poll the counter.  After an exception the
\* pool is stopped, which discards what is posted, and the loop goes on.
RunTasksDone ==
  /\ multithreading
  /\ GoTo("runTasks", "waitForMeshMapping")
  /\ completedTasks >= Cardinality(ToRun)
  /\ UNCHANGED <<vars, poolVars, mapVars>>

StopPool ==
  /\ multithreading /\ mainPc = "runTasks"
  /\ completedTasks < Cardinality(ToRun)
  /\ exceptionThrown /\ posted # {}
  /\ posted' = {}
  /\ UNCHANGED <<vars, mainPc, threadPc, threadMesh, mapVars>>

\* runTasks without multithreading: the tasks run here, one by one, and the
\* mesh is entered without the queue; an exception ends the loop.
RunInline ==
  /\ ~multithreading /\ mainPc = "runTasks"
  /\ \E m \in posted :
       /\ posted' = posted \ {m}
       /\ \/ loaded' = loaded \cup {m} /\ meshes' = meshes \cup {m}
          \/ UNCHANGED <<loaded, meshes>>
  /\ totalRanJobs' = totalRanJobs + 1
  /\ completedTasks' = completedTasks + 1
  /\ UNCHANGED <<vars, mainPc, threadPc, threadMesh, multithreading, waited>>

InlineThrows ==
  /\ ~multithreading /\ posted # {}
  /\ GoTo("runTasks", "waitForMeshMapping")
  /\ posted' = {}
  /\ exceptionThrown' = TRUE
  /\ UNCHANGED <<taskQueue, queuedTasks, running, isBusy, workerVars, prodVars,
                 ctlPc, histVars, threadPc, threadMesh, mapVars>>

RunInlineDone ==
  /\ ~multithreading /\ posted = {}
  /\ GoTo("runTasks", "waitForMeshMapping")
  /\ UNCHANGED <<vars, poolVars, mapVars>>

\* waitForMeshMapping: a queue that is shut down is waited for already.
TestShutdown ==
  /\ \/ ~running /\ GoTo("waitForMeshMapping", "patch")
     \/ running /\ GoTo("waitForMeshMapping", "isProcessing")
  /\ UNCHANGED <<vars, poolVars, mapVars>>

\* Mutant: the queue is shut down without a wait.
NeverWait ==
  /\ GoTo("isProcessing", "shutdown")
  /\ waited' = isBusy
  /\ UNCHANGED <<vars, poolVars, multithreading, completedTasks,
                 totalRanJobs, loaded, meshes>>

\* Only a queue that is executing a task right now is waited for.
TestProcessing ==
  /\ \/ isBusy /\ GoTo("isProcessing", "wait")
     \/ ~isBusy /\ GoTo("isProcessing", "shutdown")
  /\ waited' = isBusy
  /\ UNCHANGED <<vars, poolVars, multithreading, completedTasks,
                 totalRanJobs, loaded, meshes>>

\* The calls of waitForCompletion and shutdown, step by step.
CallStep ==
  /\ \/ mainPc = "wait" /\ (CallWait \/ PollBusy \/ PollQueued)
     \/ mainPc = "shutdown" /\ (Shutdown \/ NotifyStopped)
  /\ UNCHANGED <<mainPc, poolVars, mapVars>>

ReturnStep ==
  /\ \/ GoTo("wait", "shutdown") /\ WaitReturned
     \/ GoTo("shutdown", "patch") /\ Join
  /\ UNCHANGED <<poolVars, mapVars>>

Main == \/ MapFiles \/ RunTasksDone \/ StopPool
        \/ RunInline \/ InlineThrows \/ RunInlineDone
        \/ TestShutdown \/ TestProcessing \/ CallStep \/ ReturnStep

\* A thread outside the pool and the queue, such as the worker of
\* m_CMClassificationQueue, records an exception.
OtherThreadFails == OtherThreadThrows /\ UNCHANGED <<mainPc, poolVars, mapVars>>

MapNext == \/ Main
           \/ MapWorker
           \/ OtherThreadFails
           \/ \E th \in Threads : multithreading /\ (Thread(th) \/ FinishQueueTask(th))

MapSpec == MapInit /\ [][MapNext]_allVars

MapFairness ==
  /\ WF_allVars(Main) /\ WF_allVars(MapWorker)
  /\ \A th \in Threads : WF_allVars(Thread(th)) /\ SF_allVars(FinishQueueTask(th))

FairMapSpec == MapSpec /\ MapFairness

-----------------------------------------------------------------------------
(* Properties                                                              *)

MapTypeOK ==
  /\ TypeOK
  /\ multithreading \in BOOLEAN /\ waited \in BOOLEAN
  /\ mainPc \in MainPcs
  /\ posted \in SUBSET Meshes /\ loaded \in SUBSET Meshes
  /\ meshes \in SUBSET Meshes
  /\ threadPc \in [Threads -> ThreadPcs]
  /\ threadMesh \in [Threads -> Meshes \cup {NoTask}]
  /\ completedTasks \in 0..Cardinality(Meshes)
  /\ totalRanJobs \in 0..Cardinality(Meshes)

(* runTasks returns only when every job is complete, the tracker stands at *)
(* 100% and every mesh read has reached the queue; the one exception is a  *)
(* single-threaded run cut short by an exception, which returns as if it   *)
(* were complete.                                                          *)
RunTasksCompletes ==
  mainPc \notin {"mapFiles", "runTasks"} /\ (multithreading \/ ~exceptionThrown) =>
    /\ totalRanJobs = Cardinality(Meshes)
    /\ posted = {} /\ \A th \in Threads : threadPc[th] = "idle"

(* The state is well formed, and runTasks returns no earlier than it says. *)
MappingSafe == MapTypeOK /\ RunTasksCompletes

(* The patching run walks m_meshes without a lock: by then no worker may   *)
(* still enter meshes into it, on any path through waitForMeshMapping.     *)
MeshesSettled == [][mainPc = "patch" => meshes' = meshes]_allVars

(* When waitForMeshMapping did find the queue processing, every mesh read  *)
(* is in m_meshes afterwards: the task the early return of                 *)
(* waitForCompletion may have left in hand is completed by the join.       *)
WaitedMappingComplete ==
  mainPc = "patch" /\ waited /\ ~exceptionThrown => loaded \subseteq meshes

(* The meshes the patching run misses are those left in the queue when     *)
(* waitForMeshMapping met the worker between two tasks, and no others.     *)
MissedMeshesAreQueued ==
  mainPc = "patch" /\ ~exceptionThrown =>
    loaded \ meshes = {taskQueue[i] : i \in DOMAIN taskQueue}

(* Which meshes the patching run sees: all of them if the queue was waited *)
(* for, and otherwise all but those still queued.                          *)
MeshesAccounted == WaitedMappingComplete /\ MissedMeshesAreQueued

(* runTasks returns unless an exception is recorded.                       *)
RunTasksEnds == mainPc = "runTasks" ~> (mainPc # "runTasks" \/ exceptionThrown)
=============================================================================

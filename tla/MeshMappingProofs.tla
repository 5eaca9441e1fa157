------------------------- MODULE MeshMappingProofs -------------------------
(***************************************************************************)
(* The serial queue alone (TaskQueue), for every set of tasks and          *)
(* producers: its safety invariants, each proved on top of the ones before *)
(* it, and the refinement of SerialQueue.  Then the mapping of meshes, for *)
(* every set of meshes, excluded meshes and pool threads: every step of    *)
(* the composed system is a step of its queue or none of it, so what is    *)
(* shown of the queue holds there; the rest is about the pool, its         *)
(* counters and the controlling thread.                                    *)
(***************************************************************************)
EXTENDS MeshMapping, SequenceTheorems, FiniteSetTheorems, TLAPS

InHand == {"taken", "executing", "clear"}

\* The worker holds a task exactly between the pop and the end of its loop,
\* and a producer holds one exactly until it has emplaced it.
HandInv ==
  /\ hand # NoTask <=> workerPc \in InHand
  /\ \A p \in Producers : prodTask[p] # NoTask <=> prodPc[p] = "emplace"

Typing == TypeOK /\ HandInv /\ QueueAccounts

-----------------------------------------------------------------------------
\* Moving the head of the queue to the end of another sequence keeps their
\* concatenation.
LEMMA MoveHead ==
  ASSUME NEW S, NEW s \in Seq(S), NEW q \in Seq(S), q # <<>>
  PROVE  /\ Append(s, Head(q)) \o Tail(q) = s \o q
         /\ Head(q) \in S /\ Tail(q) \in Seq(S)
         /\ Append(s, Head(q)) \in Seq(S)
         /\ Len(Tail(q)) = Len(q) - 1
<1>1. Head(q) \in S /\ Tail(q) \in Seq(S) /\ Len(Tail(q)) = Len(q) - 1
  BY HeadTailProperties
<1>2. Append(s, Head(q)) = s \o <<Head(q)>> /\ Append(s, Head(q)) \in Seq(S)
  BY <1>1, AppendIsConcat, AppendProperties
<1>3. q = <<Head(q)>> \o Tail(q)
  BY <1>1, SMT
<1>4. (s \o <<Head(q)>>) \o Tail(q) = s \o (<<Head(q)>> \o Tail(q))
  <2>1. <<Head(q)>> \in Seq(S)
    BY <1>1
  <2> QED BY <2>1, <1>1, ConcatAssociative
<1> QED BY <1>1, <1>2, <1>3, <1>4

\* Appending to the queue appends to the concatenation.
LEMMA AppendRight ==
  ASSUME NEW S, NEW s \in Seq(S), NEW q \in Seq(S), NEW t \in S
  PROVE  s \o Append(q, t) = Append(s \o q, t)
<1>1. Append(q, t) = q \o <<t>>
  BY AppendIsConcat
<1>2. s \o q \in Seq(S) /\ <<t>> \in Seq(S)
  BY ConcatProperties
<1>3. Append(s \o q, t) = (s \o q) \o <<t>>
  BY <1>2, AppendIsConcat
<1>4. (s \o q) \o <<t>> = s \o (q \o <<t>>)
  BY <1>2, ConcatAssociative
<1> QED BY <1>1, <1>3, <1>4

-----------------------------------------------------------------------------
LEMMA InitTyping == Init => Typing
<1> SUFFICES ASSUME Init PROVE Typing
  OBVIOUS
<1>1. TypeOK
  <2>1. <<>> \in Seq(Tasks)
    BY EmptySeq
  <2> QED BY <2>1 DEF Init, TypeOK, WorkerPcs, ProdPcs, CtlPcs
<1>2. HandInv
  BY DEF Init, HandInv, InHand
<1>3. QueueAccounts
  BY ConcatEmptySeq, EmptySeq DEF Init, QueueAccounts
<1> QED BY <1>1, <1>2, <1>3 DEF Typing

LEMMA NextTyping == Typing /\ [Next]_vars => Typing'
<1> SUFFICES ASSUME Typing, [Next]_vars PROVE Typing'
  OBVIOUS
<1> USE NoTaskAssumption DEF Typing, TypeOK, HandInv, InHand, QueueAccounts,
      WorkerPcs, ProdPcs, CtlPcs, stateVars, workerVars, prodVars, histVars
<1>1. ASSUME NEW p \in Producers, NEW t \in Tasks, QueueTask(p, t)
      PROVE  Typing'
  BY <1>1 DEF QueueTask
<1>2. ASSUME NEW p \in Producers, Emplace(p) PROVE Typing'
  <2>1. prodTask[p] \in Tasks
    BY <1>2 DEF Emplace
  <2>2. /\ taskQueue' \in Seq(Tasks) /\ Len(taskQueue') = Len(taskQueue) + 1
        /\ accepted' \in Seq(Tasks)
    BY <1>2, <2>1, AppendProperties DEF Emplace
  <2>3. accepted' = begun \o taskQueue'
    <3>1. begun \in Seq(Tasks) /\ taskQueue \in Seq(Tasks)
      OBVIOUS
    <3>2. begun \o Append(taskQueue, prodTask[p])
            = Append(begun \o taskQueue, prodTask[p])
      BY <3>1, <2>1, AppendRight
    <3> QED BY <1>2, <3>2, Zenon DEF Emplace
  <2>4. prodPc' \in [Producers -> ProdPcs]
    BY <1>2 DEF Emplace
  <2>5. prodTask' \in [Producers -> Tasks \cup {NoTask}]
    BY <1>2 DEF Emplace
  <2>6. HandInv'
    BY <1>2 DEF Emplace
  <2> QED BY <1>2, <2>2, <2>3, <2>4, <2>5, <2>6 DEF Emplace
<1>3. ASSUME NEW p \in Producers, NotifyQueued(p) PROVE Typing'
  BY <1>3 DEF NotifyQueued, NotifyOne
<1>4. CASE Take
  <2>1. /\ accepted' = begun' \o taskQueue'
        /\ hand' \in Tasks /\ taskQueue' \in Seq(Tasks)
        /\ begun' \in Seq(Tasks) /\ Len(taskQueue') = Len(taskQueue) - 1
    BY <1>4, MoveHead DEF Take
  <2>2. queuedTasks' \in Nat /\ queuedTasks' = Len(taskQueue')
    BY <1>4, <2>1, EmptySeq DEF Take
  <2> QED BY <1>4, <2>1, <2>2 DEF Take
<1>5. CASE LoopTest \/ StopEmpty \/ PredicateFalse \/ Block \/ SpuriousWakeup
  BY <1>5 DEF LoopTest, StopEmpty, PredicateFalse, Block, SpuriousWakeup
<1>6. CASE CheckException \/ SetBusy
  BY <1>6 DEF CheckException, SetBusy
<1>7. CASE TaskReturns \/ TaskThrows \/ ClearBusy
  BY <1>7 DEF TaskReturns, TaskThrows, ClearBusy
<1>8. CASE CallWait
  BY <1>8, LenProperties DEF CallWait, ctlStep
<1>9. CASE PollBusy \/ PollQueued \/ WaitReturned \/ Join \/ Shutdown
  BY <1>9 DEF PollBusy, PollQueued, WaitReturned, Join, Shutdown, ctlStep
<1>10. CASE NotifyStopped
  BY <1>10 DEF NotifyStopped, NotifyOne, ctlStep
<1>11. CASE OtherThreadThrows
  BY <1>11 DEF OtherThreadThrows
<1>12. CASE UNCHANGED vars
  BY <1>12 DEF vars
<1> QED BY <1>1, <1>2, <1>3, <1>4, <1>5, <1>6, <1>7, <1>8, <1>9, <1>10,
           <1>11, <1>12 DEF Next, Worker, Controller

-----------------------------------------------------------------------------
(* Wakeups and late starts: facts about control alone.                     *)

Wakeup == /\ NoLostWakeup
          /\ workerPc = "predFalse" => taskQueue = <<>>

\* A late start has used up the checks the worker had passed: it must go
\* back to the top of the loop, where one of the two flags stops it.
LateStart ==
  /\ AtMostOneLateStart
  /\ lateStarts > 0 =>
       /\ exceptionThrown \/ ~running
       /\ workerPc \notin {"lock", "predFalse", "waiting"}
       /\ workerPc = "checkException" => exceptionThrown

\* After a task of this queue threw, the worker is past its last task.
AfterFailure ==
  failed # NoTask =>
    /\ exceptionThrown
    /\ workerPc \in {"clear", "loop", "checkException", "exited"}

ControlInv == Wakeup /\ LateStart /\ AfterFailure

LEMMA InitControl == Init => ControlInv
  BY DEF Init, ControlInv, Wakeup, NoLostWakeup, LateStart,
         AtMostOneLateStart, AfterFailure

LEMMA NextControl == Typing /\ ControlInv /\ [Next]_vars => ControlInv'
<1> SUFFICES ASSUME Typing, ControlInv, [Next]_vars PROVE ControlInv'
  OBVIOUS
<1> USE NoTaskAssumption DEF ControlInv, Wakeup, NoLostWakeup, LateStart,
      AtMostOneLateStart, AfterFailure,
      stateVars, workerVars, prodVars, histVars
<1>a. /\ prodPc \in [Producers -> ProdPcs] /\ taskQueue \in Seq(Tasks)
      /\ workerPc \in WorkerPcs /\ lateStarts \in Nat /\ running \in BOOLEAN
      /\ exceptionThrown \in BOOLEAN
  BY DEF Typing, TypeOK
<1>1. ASSUME NEW p \in Producers, NEW t \in Tasks, QueueTask(p, t)
      PROVE  ControlInv'
  BY <1>1, <1>a DEF QueueTask
<1>2. ASSUME NEW p \in Producers, Emplace(p) PROVE ControlInv'
  <2>1. prodPc'[p] = "notify" /\ workerPc # "predFalse" /\ workerPc' = workerPc
    BY <1>2, <1>a DEF Emplace, MutexFree
  <2> QED BY <1>2, <2>1 DEF Emplace
<1>3. ASSUME NEW p \in Producers, NotifyQueued(p) PROVE ControlInv'
  <2>1. workerPc' # "waiting" /\ (workerPc' = workerPc \/ workerPc' = "lock")
    BY <1>3 DEF NotifyQueued, NotifyOne
  <2> QED BY <1>3, <2>1, <1>a DEF NotifyQueued, NotifyOne
<1>4. CASE LoopTest
  BY <1>4, <1>a DEF LoopTest
<1>5. CASE CheckException
  BY <1>5, <1>a DEF CheckException
<1>6. CASE Take
  BY <1>6, <1>a DEF Take
<1>7. CASE StopEmpty
  BY <1>7, <1>a DEF StopEmpty
<1>8. CASE PredicateFalse
  BY <1>8, <1>a DEF PredicateFalse
<1>9. CASE Block
  BY <1>9, <1>a DEF Block
<1>10. CASE SpuriousWakeup
  BY <1>10, <1>a DEF SpuriousWakeup
<1>11. CASE SetBusy
  BY <1>11, <1>a DEF SetBusy
<1>12. CASE TaskReturns
  BY <1>12, <1>a DEF TaskReturns
<1>13. CASE TaskThrows
  BY <1>13, <1>a DEF TaskThrows
<1>14. CASE ClearBusy
  BY <1>14, <1>a DEF ClearBusy
<1>15. CASE CallWait
  BY <1>15, <1>a DEF CallWait, ctlStep
<1>16. CASE PollBusy
  BY <1>16, <1>a DEF PollBusy, ctlStep
<1>17. CASE PollQueued
  BY <1>17, <1>a DEF PollQueued, ctlStep
<1>18. CASE WaitReturned
  BY <1>18, <1>a DEF WaitReturned, ctlStep
<1>19. CASE Shutdown
  BY <1>19, <1>a DEF Shutdown, ctlStep
<1>20. CASE NotifyStopped
  BY <1>20, <1>a DEF NotifyStopped, NotifyOne, ctlStep
<1>21. CASE Join
  BY <1>21, <1>a DEF Join, ctlStep
<1>22. CASE OtherThreadThrows
  BY <1>22, <1>a DEF OtherThreadThrows
<1>23. CASE UNCHANGED vars
  BY <1>23 DEF vars
<1> QED BY <1>1, <1>2, <1>3, <1>4, <1>5, <1>6, <1>7, <1>8, <1>9, <1>10, <1>11, <1>12, <1>13, <1>14, <1>15, <1>16, <1>17, <1>18, <1>19, <1>20, <1>21, <1>22, <1>23
     DEF Next, Worker, Controller

\* The worker sleeps on a non-empty queue only while a notification is due.
THEOREM WakeupsKept == Spec => []NoLostWakeup
<1>1. Typing /\ ControlInv /\ [Next]_vars => Typing' /\ ControlInv'
  BY NextTyping, NextControl
<1>2. ControlInv => NoLostWakeup
  BY DEF ControlInv, Wakeup
<1> QED BY InitTyping, InitControl, <1>1, <1>2, PTL DEF Spec

\* The types; the tasks taken followed by those still queued are the tasks
\* accepted, in order; the counter counts the queue; and once a stop or an
\* exception is visible, at most one more task is taken.
THEOREM QueueCorrect == Spec => []QueueSafe
<1>1. Typing /\ ControlInv /\ [Next]_vars => Typing' /\ ControlInv'
  BY NextTyping, NextControl
<1>2. Typing /\ ControlInv => QueueSafe
  BY DEF Typing, ControlInv, LateStart, QueueSafe
<1> QED BY InitTyping, InitControl, <1>1, <1>2, PTL DEF Spec

-----------------------------------------------------------------------------
(* What waitForCompletion leaves unfinished.                               *)

\* Every task taken is over, or is the one in hand; and it is over as soon
\* as the worker is done with it.
Over == finished \cup {failed, hand}
ExecInv ==
  /\ \A i \in 1..Len(begun) : begun[i] \in Over
  /\ workerPc = "clear" => hand \in finished \cup {failed}

Polling == ctlPc \in {"pollBusy", "pollQueued"}

\* It is the poll of an empty queue that ends a wait; from then on all that
\* was accepted before it is over, until the next wait is begun.
WaitInv == /\ waitMark <= Len(accepted)
           /\ Polling \/
                \A i \in 1..waitMark : accepted[i] \in Over
           /\ ctlPc = "down" => workerPc = "exited"

CompletionInv == ExecInv /\ WaitInv

LEMMA InitCompletion == Init => CompletionInv
  BY EmptySeq DEF Init, CompletionInv, ExecInv, WaitInv

\* A task over stays over, whatever the step: hand is emptied only when the
\* task in it has finished or thrown, and failed is set only once.
LEMMA OverGrows ==
  ASSUME Typing, ControlInv, ExecInv, [Next]_vars, NEW t \in Tasks, t \in Over
  PROVE  t \in Over'
<1> USE NoTaskAssumption DEF Over, stateVars, workerVars, prodVars, histVars
<1>a. /\ hand # NoTask <=> workerPc \in InHand
      /\ workerPc = "clear" => hand \in finished \cup {failed}
      /\ failed # NoTask => workerPc \notin {"taken", "executing", "lock"}
  BY DEF Typing, HandInv, ExecInv, ControlInv, AfterFailure
<1>1. CASE Take
  BY <1>1, <1>a DEF Take, InHand
<1>2. CASE TaskReturns
  BY <1>2 DEF TaskReturns
<1>3. CASE TaskThrows
  BY <1>3, <1>a DEF TaskThrows
<1>4. CASE ClearBusy
  BY <1>4, <1>a DEF ClearBusy
<1>5. CASE UNCHANGED <<hand, finished, failed>>
  BY <1>5
<1>6. \/ Take \/ TaskReturns \/ TaskThrows \/ ClearBusy
      \/ UNCHANGED <<hand, finished, failed>>
  BY DEF Next, Worker, Controller, vars, QueueTask, Emplace, NotifyQueued,
         LoopTest, CheckException, StopEmpty, PredicateFalse, Block,
         SpuriousWakeup, SetBusy, CallWait, PollBusy, PollQueued,
         WaitReturned, Shutdown, NotifyStopped, Join, OtherThreadThrows
<1> QED BY <1>1, <1>2, <1>3, <1>4, <1>5, <1>6

LEMMA NextExec ==
  Typing /\ ControlInv /\ ExecInv /\ [Next]_vars => ExecInv'
<1> SUFFICES ASSUME Typing, ControlInv, ExecInv, [Next]_vars PROVE ExecInv'
  OBVIOUS
<1>a. begun \in Seq(Tasks) /\ taskQueue \in Seq(Tasks)
  BY DEF Typing, TypeOK
<1>1. \A i \in 1..Len(begun) : begun[i] \in Over'
  <2> TAKE i \in 1..Len(begun)
  <2>1. begun[i] \in Tasks /\ begun[i] \in Over
    BY <1>a, ElementOfSeq DEF ExecInv
  <2> QED BY <2>1, OverGrows
<1>2. CASE Take
  <2>1. Head(taskQueue) \in Tasks
    BY <1>2, <1>a, HeadTailProperties DEF Take
  <2>2. /\ Len(begun') = Len(begun) + 1
        /\ \A i \in 1..Len(begun) : begun'[i] = begun[i]
        /\ begun'[Len(begun) + 1] = hand'
    BY <1>2, <1>a, <2>1, AppendProperties DEF Take
  <2>3. \A i \in 1..Len(begun') : begun'[i] \in Over'
    BY <1>1, <2>2, <1>a, LenProperties DEF Over
  <2> QED BY <1>2, <2>3 DEF Take, ExecInv
<1>3. CASE begun' = begun
  <2>1. \A i \in 1..Len(begun') : begun'[i] \in Over'
    BY <1>1, <1>3
  <2>2. (workerPc = "clear" => hand \in finished \cup {failed})'
    BY DEF ExecInv, Next, Worker, Controller, vars, stateVars, workerVars,
           prodVars, histVars, QueueTask, Emplace, NotifyQueued, NotifyOne,
           LoopTest, CheckException, Take, StopEmpty, PredicateFalse, Block,
           SpuriousWakeup, SetBusy, TaskReturns, TaskThrows, ClearBusy,
           CallWait, PollBusy, PollQueued, WaitReturned, Shutdown,
           NotifyStopped, Join, OtherThreadThrows
  <2> QED BY <2>1, <2>2 DEF ExecInv
<1>4. Take \/ begun' = begun
  BY DEF Next, Worker, Controller, vars, stateVars, workerVars,
         prodVars, histVars, QueueTask, Emplace, NotifyQueued,
         LoopTest, CheckException, StopEmpty, PredicateFalse, Block,
         SpuriousWakeup, SetBusy, TaskReturns, TaskThrows, ClearBusy,
         CallWait, PollBusy, PollQueued, WaitReturned, Shutdown,
         NotifyStopped, Join, OtherThreadThrows
<1> QED BY <1>2, <1>3, <1>4

\* The poll that ends a wait finds the queue empty, so every accepted task
\* has been taken by then.
LEMMA NextWait ==
  Typing /\ ControlInv /\ CompletionInv /\ [Next]_vars => WaitInv'
<1> SUFFICES ASSUME Typing, ControlInv, ExecInv, WaitInv, [Next]_vars
             PROVE  WaitInv'
  BY DEF CompletionInv
<1> USE DEF stateVars, workerVars, prodVars, histVars
<1>a. /\ accepted \in Seq(Tasks) /\ waitMark \in Nat /\ begun \in Seq(Tasks)
      /\ taskQueue \in Seq(Tasks) /\ waitMark <= Len(accepted)
  BY DEF Typing, TypeOK, WaitInv
<1>b. \A i \in 1..waitMark : accepted[i] \in Over => accepted[i] \in Over'
  <2> TAKE i \in 1..waitMark
  <2>1. accepted[i] \in Tasks
    BY <1>a, ElementOfSeq, LenProperties
  <2> QED BY <2>1, OverGrows
<1>c. /\ Polling \/ \A i \in 1..waitMark : accepted[i] \in Over
      /\ ctlPc = "down" => workerPc = "exited"
  BY DEF WaitInv, Polling
<1>d. (ctlPc = "down" => workerPc = "exited")'
  BY <1>c DEF Next, Worker, Controller, vars, QueueTask, Emplace,
         NotifyQueued, NotifyOne, LoopTest, CheckException, Take, StopEmpty,
         PredicateFalse, Block, SpuriousWakeup, SetBusy, TaskReturns,
         TaskThrows, ClearBusy, CallWait, PollBusy, PollQueued, WaitReturned,
         Shutdown, NotifyStopped, Join, OtherThreadThrows, ctlStep
<1>e. SUFFICES /\ waitMark' <= Len(accepted')
               /\ Polling' \/ \A i \in 1..waitMark' : accepted'[i] \in Over'
  BY <1>d DEF WaitInv, Polling
<1>1. CASE CallWait
  BY <1>1, <1>a, LenProperties DEF CallWait, ctlStep, Polling
<1>2. CASE PollQueued
  <2>1. UNCHANGED <<accepted, waitMark>>
    BY <1>2 DEF PollQueued
  <2>2. CASE queuedTasks = 0
    <3>1. taskQueue = <<>> /\ accepted = begun \o taskQueue
      BY <2>2, <1>a, EmptySeq DEF Typing, QueueAccounts
    <3>2. accepted = begun
      BY <3>1, <1>a, ConcatEmptySeq
    <3>3. \A i \in 1..waitMark : accepted[i] \in Over
      BY <3>2, <1>a, LenProperties DEF ExecInv
    <3> QED BY <3>3, <2>1, <1>b, <1>a
  <2>3. CASE queuedTasks # 0
    BY <2>3, <2>1, <1>2, <1>a DEF PollQueued, ctlStep, Polling
  <2> QED BY <2>2, <2>3
<1>3. ASSUME NEW p \in Producers, Emplace(p)
      PROVE  /\ waitMark' <= Len(accepted')
             /\ Polling' \/ \A i \in 1..waitMark' : accepted'[i] \in Over'
  <2>1. prodTask[p] \in Tasks
    BY <1>3 DEF Emplace, Typing, TypeOK, HandInv
  <2>2. /\ Len(accepted') = Len(accepted) + 1
        /\ \A i \in 1..Len(accepted) : accepted'[i] = accepted[i]
    BY <1>3, <2>1, <1>a, AppendProperties DEF Emplace
  <2>3. waitMark' = waitMark /\ (Polling' <=> Polling)
    BY <1>3 DEF Emplace, Polling
  <2>4. \A i \in 1..waitMark : accepted'[i] = accepted[i]
    BY <2>2, <1>a, LenProperties
  <2> QED BY <2>2, <2>3, <2>4, <1>a, <1>b, <1>c, LenProperties
<1>4. CASE UNCHANGED <<accepted, waitMark>> /\ (Polling => Polling')
  BY <1>4, <1>a, <1>b, <1>c
<1>5. \/ CallWait \/ PollQueued \/ \E p \in Producers : Emplace(p)
      \/ UNCHANGED <<accepted, waitMark>> /\ (Polling => Polling')
  BY DEF Next, Worker, Controller, vars, QueueTask, NotifyQueued,
         LoopTest, CheckException, Take, StopEmpty, PredicateFalse, Block,
         SpuriousWakeup, SetBusy, TaskReturns, TaskThrows, ClearBusy,
         PollBusy, WaitReturned, Shutdown,
         NotifyStopped, Join, OtherThreadThrows, ctlStep, Polling
<1> QED BY <1>1, <1>2, <1>3, <1>4, <1>5

IInv == Typing /\ ControlInv /\ CompletionInv

LEMMA InitInductive == Init => IInv
  BY InitTyping, InitControl, InitCompletion DEF IInv

LEMMA NextInductive == IInv /\ [Next]_vars => IInv'
  BY NextTyping, NextControl, NextExec, NextWait DEF IInv, CompletionInv

\* waitForCompletion returns with at most the task in hand unfinished, and a
\* queue that was waited for and then stopped has completed every task
\* accepted before the wait.
THEOREM WaitCorrect == Spec => []WaitSafe
<1>1. IInv => WaitLeavesOnlyTheTaskInHand
  BY DEF IInv, CompletionInv, WaitInv, Over, Polling, WaitLeavesOnlyTheTaskInHand
<1>2. IInv => DrainedWhenDown
  <2> SUFFICES ASSUME IInv, ctlPc = "down", NEW i \in 1..waitMark
               PROVE  accepted[i] \in finished \cup {failed}
    BY DEF DrainedWhenDown
  <2>1. accepted[i] \in Over /\ hand = NoTask
    BY DEF IInv, CompletionInv, WaitInv, Polling, Typing, HandInv, InHand
  <2>2. accepted[i] \in Tasks
    BY ElementOfSeq, LenProperties
       DEF IInv, Typing, TypeOK, CompletionInv, WaitInv
  <2> QED BY <2>1, <2>2, NoTaskAssumption DEF Over
<1>3. IInv => WaitSafe
  BY <1>1, <1>2 DEF WaitSafe
<1> QED BY InitInductive, NextInductive, <1>3, PTL DEF Spec

-----------------------------------------------------------------------------
(* TaskQueue implements SerialQueue.                                       *)

\* No task is submitted twice: those on their way into the queue differ
\* from each other and from those accepted.
Fresh ==
  \A p \in Producers : prodTask[p] # NoTask =>
    /\ \A i \in DOMAIN accepted : accepted[i] # prodTask[p]
    /\ \A q \in Producers : q # p => prodTask[q] # prodTask[p]

LEMMA InitFresh == Init => Fresh
  BY DEF Init, Fresh

LEMMA NextFresh == Typing /\ Fresh /\ [Next]_vars => Fresh'
<1> SUFFICES ASSUME Typing, Fresh, [Next]_vars PROVE Fresh'
  OBVIOUS
<1> USE NoTaskAssumption DEF Fresh, stateVars, workerVars, prodVars, histVars
<1>a. prodTask \in [Producers -> Tasks \cup {NoTask}] /\ accepted \in Seq(Tasks)
  BY DEF Typing, TypeOK
<1>1. ASSUME NEW p \in Producers, NEW t \in Tasks, QueueTask(p, t)
      PROVE  Fresh'
  <2>1. /\ \A i \in DOMAIN accepted : accepted[i] # t
        /\ \A q \in Producers : prodTask[q] # t
    BY <1>1 DEF QueueTask, Submitted
  <2> QED BY <1>1, <1>a, <2>1 DEF QueueTask
<1>2. ASSUME NEW p \in Producers, Emplace(p) PROVE Fresh'
  <2>1. prodTask[p] \in Tasks /\ prodTask[p] # NoTask
    BY <1>2 DEF Emplace, Typing, TypeOK, HandInv
  <2>2. \A i \in DOMAIN accepted' :
           accepted'[i] = prodTask[p] \/ \E j \in DOMAIN accepted : accepted'[i] = accepted[j]
    BY <1>2, <2>1, <1>a, AppendProperties, LenProperties DEF Emplace
  <2>3. \A q \in Producers : prodTask'[q] = IF q = p THEN NoTask ELSE prodTask[q]
    BY <1>2, <1>a DEF Emplace
  <2> QED BY <2>1, <2>2, <2>3
<1>3. CASE UNCHANGED <<accepted, prodTask>>
  BY <1>3
<1>4. \/ \E p \in Producers, t \in Tasks : QueueTask(p, t)
      \/ \E p \in Producers : Emplace(p)
      \/ UNCHANGED <<accepted, prodTask>>
  BY DEF Next, Worker, Controller, vars, NotifyQueued,
         LoopTest, CheckException, Take, StopEmpty, PredicateFalse, Block,
         SpuriousWakeup, SetBusy, TaskReturns, TaskThrows, ClearBusy,
         CallWait, PollBusy, PollQueued, WaitReturned, Shutdown,
         NotifyStopped, Join, OtherThreadThrows
<1> QED BY <1>1, <1>2, <1>3, <1>4

\* Every step of the queue is a step of the abstract queue, or none of its.
LEMMA StepSimulation ==
  Typing /\ ControlInv /\ Fresh /\ [Next]_vars => [SQ!Next]_SQ!vars
<1> SUFFICES ASSUME Typing, ControlInv, Fresh, [Next]_vars
             PROVE  [SQ!Next]_SQ!vars
  OBVIOUS
<1> USE DEF SQ!vars, stateVars, workerVars, prodVars, histVars
<1>1. ASSUME NEW p \in Producers, Emplace(p) PROVE SQ!Next
  <2>1. prodTask[p] \in Tasks /\ prodTask[p] # NoTask
    BY <1>1, NoTaskAssumption DEF Emplace, Typing, TypeOK, HandInv
  <2>2. SQ!Accept(prodTask[p])
    BY <1>1, <2>1 DEF Emplace, Fresh, SQ!Accept
  <2> QED BY <2>1, <2>2 DEF SQ!Next
<1>2. CASE Take
  BY <1>2 DEF Take, SQ!Next, SQ!Begin, Typing, HandInv, InHand,
              ControlInv, AfterFailure
<1>3. CASE TaskThrows
  BY <1>3 DEF TaskThrows, SQ!Next, SQ!Fail, Typing, HandInv, InHand,
              ControlInv, AfterFailure
<1>4. CASE ClearBusy
  BY <1>4 DEF ClearBusy, SQ!Next, SQ!End, Typing, HandInv, InHand
<1>5. CASE UNCHANGED SQ!vars
  BY <1>5
<1>6. \/ \E p \in Producers : Emplace(p)
      \/ Take \/ TaskThrows \/ ClearBusy
      \/ UNCHANGED SQ!vars
  BY DEF Next, Worker, Controller, vars, QueueTask, NotifyQueued,
         LoopTest, CheckException, StopEmpty, PredicateFalse, Block,
         SpuriousWakeup, SetBusy, TaskReturns,
         CallWait, PollBusy, PollQueued, WaitReturned, Shutdown,
         NotifyStopped, Join, OtherThreadThrows
<1> QED BY <1>1, <1>2, <1>3, <1>4, <1>5, <1>6

\* Tasks are executed one at a time, in the order accepted, none after one
\* has thrown.
THEOREM Serial == Spec => SerialExecution
<1>1. Init => SQ!Init
  BY DEF Init, SQ!Init
<1>2. /\ Init => Typing /\ ControlInv /\ Fresh
      /\ Typing /\ ControlInv /\ Fresh /\ [Next]_vars
           => (Typing /\ ControlInv /\ Fresh)'
  BY InitTyping, InitControl, InitFresh, NextTyping, NextControl, NextFresh
<1> QED BY <1>1, <1>2, StepSimulation, PTL DEF Spec, SerialExecution, SQ!Spec

-----------------------------------------------------------------------------
(* The mapping of meshes.                                                  *)

\* Well-typed but for the ranges of the two counters.
MapTyping ==
  /\ multithreading \in BOOLEAN /\ waited \in BOOLEAN
  /\ mainPc \in MainPcs
  /\ posted \in SUBSET Meshes /\ loaded \in SUBSET Meshes
  /\ meshes \in SUBSET Meshes
  /\ threadPc \in [Threads -> ThreadPcs]
  /\ threadMesh \in [Threads -> Meshes \cup {NoTask}]

\* A mesh is posted or with one thread, and a thread is in queueTask only
\* when it has just read a mesh.
PoolInv ==
  /\ \A th \in Threads : threadMesh[th] # NoTask <=> threadPc[th] # "idle"
  /\ \A th \in Threads : threadPc[th] # "complete" => prodPc[th] = "idle"
  /\ \A th \in Threads : threadMesh[th] \notin posted
  /\ \A th, tg \in Threads :
       th # tg /\ threadMesh[th] # NoTask => threadMesh[th] # threadMesh[tg]
  /\ mainPc = "mapFiles" =>
       posted = {} /\ \A th \in Threads : threadMesh[th] = NoTask

QueueInv == IInv /\ Fresh

-----------------------------------------------------------------------------
(* The queue inside the composed system.                                   *)

LEMMA QueueStep == MapTyping /\ PoolInv /\ [MapNext]_allVars => [Next]_vars
<1> SUFFICES ASSUME MapTyping, PoolInv, [MapNext]_allVars PROVE [Next]_vars
  OBVIOUS
<1>1. ASSUME NEW th \in Threads, QueueMesh(th) PROVE [Next]_vars
  <2>1. threadMesh[th] \in Tasks
    BY <1>1 DEF QueueMesh, PoolInv, MapTyping, Meshes
  <2>2. CASE QueueTask(th, threadMesh[th])
    BY <2>1, <2>2 DEF Next, Threads
  <2>3. CASE UNCHANGED vars
    BY <2>3
  <2> QED BY <1>1, <2>2, <2>3 DEF QueueMesh
<1>2. ASSUME NEW th \in Threads, JobThrows(th) PROVE [Next]_vars
  <2>1. CASE exceptionThrown = TRUE
    BY <1>2, <2>1 DEF JobThrows, vars, stateVars
  <2>2. CASE ~exceptionThrown
    BY <1>2, <2>2 DEF JobThrows, OtherThreadThrows, Next
  <2> QED BY <2>1, <2>2
<1>3. CASE InlineThrows
  <2>1. CASE exceptionThrown = TRUE
    BY <1>3, <2>1 DEF InlineThrows, vars, stateVars
  <2>2. CASE ~exceptionThrown
    BY <1>3, <2>2 DEF InlineThrows, OtherThreadThrows, Next
  <2> QED BY <2>1, <2>2
<1>4. ASSUME NEW th \in Threads, FinishQueueTask(th) PROVE [Next]_vars
  BY <1>4 DEF FinishQueueTask, Next, Threads
<1>5. CASE MapWorker
  BY <1>5 DEF MapWorker, Next
<1>6. CASE CallStep \/ ReturnStep
  BY <1>6 DEF CallStep, ReturnStep, Next, Controller
<1>7. CASE UNCHANGED vars
  BY <1>7
<1>9. CASE OtherThreadFails
  BY <1>9 DEF OtherThreadFails, Next
<1>8. \/ \E th \in Threads : QueueMesh(th) \/ JobThrows(th) \/ FinishQueueTask(th)
      \/ OtherThreadFails \/ InlineThrows \/ MapWorker \/ CallStep \/ ReturnStep \/ UNCHANGED vars
  BY DEF MapNext, Main, Thread, PickTask, ReadNIF, CompleteJob, MapFiles,
         RunTasksDone, StopPool, RunInline, RunInlineDone, TestShutdown,
         TestProcessing, allVars
<1> QED BY <1>1, <1>2, <1>3, <1>4, <1>5, <1>6, <1>7, <1>8, <1>9

LEMMA InitQueue == MapInit => QueueInv
  BY InitInductive, InitFresh DEF MapInit, QueueInv

LEMMA NextQueue ==
  MapTyping /\ PoolInv /\ QueueInv /\ [MapNext]_allVars => QueueInv'
  BY QueueStep, NextInductive, NextFresh DEF QueueInv, IInv

LEMMA InitPool == MapInit => MapTyping /\ PoolInv
  BY NoTaskAssumption
  DEF MapInit, Init, MapTyping, PoolInv, MainPcs, ThreadPcs, Meshes, Threads

\* The step of a thread changes its own place only.
LEMMA NextPool ==
  MapTyping /\ PoolInv /\ QueueInv /\ [MapNext]_allVars => (MapTyping /\ PoolInv)'
<1> SUFFICES ASSUME MapTyping, PoolInv, QueueInv, [MapNext]_allVars
             PROVE  (MapTyping /\ PoolInv)'
  OBVIOUS
<1>a. NoTask \notin Meshes /\ prodPc \in [Threads -> ProdPcs] /\ isBusy \in BOOLEAN
  BY NoTaskAssumption DEF QueueInv, IInv, Typing, TypeOK, Meshes, Threads
<1>b. finished' \in SUBSET Meshes
  BY NextQueue DEF QueueInv, IInv, Typing, TypeOK, Meshes
<1> USE <1>a DEF MapTyping, PoolInv, MainPcs, ThreadPcs, GoTo, poolVars, mapVars
<1>1. ASSUME NEW th \in Threads, PickTask(th) PROVE (MapTyping /\ PoolInv)'
  BY <1>1 DEF PickTask, vars, prodVars
<1>2. ASSUME NEW th \in Threads, ReadNIF(th) PROVE (MapTyping /\ PoolInv)'
  BY <1>2 DEF ReadNIF, vars, prodVars
<1>3. ASSUME NEW th \in Threads, QueueMesh(th) PROVE (MapTyping /\ PoolInv)'
  BY <1>3 DEF QueueMesh, QueueTask, vars, prodVars
<1>4. ASSUME NEW th \in Threads, CompleteJob(th) PROVE (MapTyping /\ PoolInv)'
  BY <1>4 DEF CompleteJob, vars, prodVars
<1>5. ASSUME NEW th \in Threads, JobThrows(th) PROVE (MapTyping /\ PoolInv)'
  BY <1>5 DEF JobThrows, prodVars
<1>6. ASSUME NEW th \in Threads, FinishQueueTask(th) PROVE (MapTyping /\ PoolInv)'
  BY <1>6 DEF FinishQueueTask, Emplace, NotifyQueued
<1>7. CASE MapWorker
  <2>1. prodPc' = prodPc
    BY <1>7 DEF MapWorker, Worker, prodVars, LoopTest, CheckException, Take,
        StopEmpty, PredicateFalse, Block, SetBusy, TaskReturns, TaskThrows, ClearBusy
  <2> QED BY <1>7, <1>b, <2>1 DEF MapWorker
<1>8. CASE MapFiles
  BY <1>8 DEF MapFiles, ToRun, vars, prodVars
<1>14. CASE RunTasksDone \/ StopPool \/ RunInlineDone
  BY <1>14 DEF RunTasksDone, StopPool, RunInlineDone, vars, prodVars
<1>9. CASE RunInline
  BY <1>9 DEF RunInline, vars, prodVars
<1>13. CASE InlineThrows
  BY <1>13 DEF InlineThrows, vars, prodVars
<1>10. CASE TestShutdown \/ TestProcessing
  BY <1>10 DEF TestShutdown, TestProcessing, vars, prodVars
<1>11. CASE CallStep \/ ReturnStep
  BY <1>11 DEF CallStep, ReturnStep, CallWait, PollBusy, PollQueued, Shutdown,
       NotifyStopped, WaitReturned, Join, prodVars
<1>12. CASE UNCHANGED allVars
  BY <1>12 DEF allVars, vars, prodVars
<1>15. CASE OtherThreadFails
  BY <1>15 DEF OtherThreadFails, OtherThreadThrows, prodVars
<1> QED BY <1>1, <1>2, <1>3, <1>4, <1>5, <1>6, <1>7, <1>8, <1>9, <1>10,
           <1>11, <1>12, <1>13, <1>14, <1>15 DEF MapNext, Main, Thread

\* The composed system implements the specification of its queue: what is
\* proved of TaskQueue holds of m_meshUseMappingQueue.
THEOREM QueueInContext == MapSpec => Spec
<1>1. MapInit => Init
  BY DEF MapInit
<1> QED BY InitQueue, InitPool, NextQueue, NextPool, QueueStep, <1>1, PTL
        DEF MapSpec, Spec

-----------------------------------------------------------------------------
(* The counters.                                                           *)

\* The meshes posted or in work.
Open == posted \cup {m \in Meshes : \E th \in Threads : threadMesh[th] = m}

CountInv ==
  /\ Open \subseteq ToRun
  /\ completedTasks \in Nat
  /\ totalRanJobs = IF mainPc = "mapFiles" THEN 0
                    ELSE Cardinality(Blocked) + completedTasks
  /\ completedTasks + Cardinality(Open) <= Cardinality(ToRun)
  /\ mainPc = "mapFiles" => completedTasks = 0 /\ Open = {}
  /\ ~multithreading => \A th \in Threads : threadMesh[th] = NoTask
  /\ ~multithreading /\ mainPc = "runTasks" =>
       completedTasks + Cardinality(Open) = Cardinality(ToRun)
  /\ mainPc \notin {"mapFiles", "runTasks"} =>
       /\ Open = {}
       /\ multithreading \/ ~exceptionThrown => completedTasks = Cardinality(ToRun)

LEMMA Finite ==
  /\ \A S \in SUBSET Meshes : IsFiniteSet(S) /\ Cardinality(S) \in Nat
  /\ Cardinality({}) = 0
  /\ Cardinality(Meshes) = Cardinality(Blocked) + Cardinality(ToRun)
<1>1. \A S \in SUBSET Meshes : IsFiniteSet(S) /\ Cardinality(S) \in Nat
  BY FiniteMeshes, FS_Subset, FS_CardinalityType DEF Meshes
<1>2. Blocked \cup ToRun = Meshes /\ Blocked \cap ToRun = {}
  BY BlockedAssumption DEF ToRun, Meshes
<1>3. IsFiniteSet(Blocked) /\ IsFiniteSet(ToRun)
  BY <1>1, <1>2
<1>4. Cardinality(Meshes) = Cardinality(Blocked) + Cardinality(ToRun) - Cardinality({})
  BY <1>2, <1>3, FS_Union
<1>5. Cardinality({}) = 0
  BY FS_EmptySet
<1>6. Cardinality(Blocked) \in Nat /\ Cardinality(ToRun) \in Nat
  BY <1>1, <1>2
<1> QED BY <1>1, <1>4, <1>5, <1>6

LEMMA InitCount == MapInit => CountInv
<1> SUFFICES ASSUME MapInit PROVE CountInv
  OBVIOUS
<1>1. Open = {} /\ \A th \in Threads : threadMesh[th] = NoTask
  BY NoTaskAssumption DEF MapInit, Open, Meshes, Threads
<1>2. ToRun \in SUBSET Meshes
  BY DEF ToRun
<1> QED BY <1>1, <1>2, Finite DEF MapInit, CountInv

\* A thread that lets go of its mesh takes it out of Open.
LEMMA LetGo ==
  ASSUME MapTyping, PoolInv, NEW th \in Threads, threadMesh[th] # NoTask,
         posted' = posted,
         threadMesh' = [threadMesh EXCEPT ![th] = NoTask]
  PROVE  /\ Open' = Open \ {threadMesh[th]}
         /\ threadMesh[th] \in Open
<1>1. threadMesh[th] \in Meshes /\ threadMesh[th] \notin posted
  BY DEF MapTyping, PoolInv
<1>2. \A tg \in Threads : threadMesh'[tg] = IF tg = th THEN NoTask ELSE threadMesh[tg]
  BY DEF MapTyping
<1>3. \A tg \in Threads : tg # th => threadMesh[tg] # threadMesh[th]
  BY DEF PoolInv
<1>4. NoTask \notin Meshes
  BY NoTaskAssumption DEF Meshes
<1> QED BY <1>1, <1>2, <1>3, <1>4 DEF Open

LEMMA RemoveOpen ==
  ASSUME MapTyping, NEW m \in Open
  PROVE  /\ Cardinality(Open) \in Nat /\ Cardinality(Open) > 0
         /\ Cardinality(Open \ {m}) = Cardinality(Open) - 1
<1>1. IsFiniteSet(Open) /\ Cardinality(Open) \in Nat /\ Cardinality(Open \ {m}) \in Nat
  <2>1. Open \in SUBSET Meshes /\ Open \ {m} \in SUBSET Meshes
    BY DEF Open, MapTyping
  <2> QED BY <2>1, Finite
<1>2. Cardinality(Open \ {m}) =
        IF m \in Open THEN Cardinality(Open) - 1 ELSE Cardinality(Open)
  BY <1>1, FS_RemoveElement, Zenon
<1> QED BY <1>1, <1>2

LEMMA NextCount ==
  MapTyping /\ PoolInv /\ QueueInv /\ CountInv /\ [MapNext]_allVars => CountInv'
<1> SUFFICES ASSUME MapTyping, PoolInv, QueueInv, CountInv, [MapNext]_allVars
             PROVE  CountInv'
  OBVIOUS
<1>a. /\ Cardinality(Open) \in Nat /\ Cardinality(ToRun) \in Nat
      /\ Cardinality(Blocked) \in Nat /\ completedTasks \in Nat
  <2>1. /\ Open \in SUBSET Meshes /\ ToRun \in SUBSET Meshes
        /\ Blocked \in SUBSET Meshes
    BY BlockedAssumption DEF Open, MapTyping, ToRun, Meshes
  <2> QED BY <2>1, Finite DEF CountInv
<1>b. exceptionThrown \in BOOLEAN /\ NoTask \notin Meshes
  BY NoTaskAssumption DEF QueueInv, IInv, Typing, TypeOK, Meshes
<1>c. mainPc = "mapFiles" => \A th \in Threads : threadMesh[th] = NoTask
  BY DEF PoolInv
<1> USE <1>a, <1>b DEF GoTo, poolVars, mapVars
<1>1. ASSUME NEW th \in Threads, PickTask(th), multithreading PROVE CountInv'
  <2>1. PICK m \in posted :
           /\ posted' = posted \ {m}
           /\ \/ exceptionThrown /\ UNCHANGED <<threadPc, threadMesh>>
              \/ /\ ~exceptionThrown
                 /\ threadMesh' = [threadMesh EXCEPT ![th] = m]
    BY <1>1 DEF PickTask
  <2>2. UNCHANGED <<mainPc, multithreading, completedTasks, totalRanJobs, exceptionThrown>>
    BY <1>1 DEF PickTask, vars, stateVars
  <2>3. m \in Open /\ Open # {} /\ threadMesh[th] = NoTask
    BY <1>1 DEF Open, MapTyping, PickTask, PoolInv
  <2>4. CASE exceptionThrown /\ UNCHANGED <<threadPc, threadMesh>>
    <3>1. Open' = Open \ {m}
      BY <2>1, <2>4 DEF Open, PoolInv
    <3>2. Cardinality(Open') = Cardinality(Open) - 1
      BY <3>1, <2>3, RemoveOpen
    <3> QED BY <2>2, <2>3, <3>1, <3>2, <1>1 DEF CountInv
  <2>5. CASE threadMesh' = [threadMesh EXCEPT ![th] = m]
    <3>1. \A tg \in Threads : threadMesh'[tg] = IF tg = th THEN m ELSE threadMesh[tg]
      BY <2>5 DEF MapTyping
    <3>2. Open' = Open
      BY <3>1, <2>1, <2>3 DEF Open, MapTyping
    <3> QED BY <2>2, <2>3, <3>2, <1>1 DEF CountInv
  <2> QED BY <2>1, <2>4, <2>5
<1>2. ASSUME NEW th \in Threads, CompleteJob(th), multithreading PROVE CountInv'
  <2>1. threadMesh[th] # NoTask
    BY <1>2 DEF CompleteJob, PoolInv
  <2>2. Open' = Open \ {threadMesh[th]} /\ threadMesh[th] \in Open
    BY <1>2, <2>1, LetGo DEF CompleteJob
  <2>3. Cardinality(Open') = Cardinality(Open) - 1
    BY <2>2, RemoveOpen
  <2>4. mainPc = "runTasks"
    BY <2>2 DEF CountInv, MapTyping, MainPcs
  <2> QED BY <1>2, <2>2, <2>3, <2>4 DEF CompleteJob, CountInv
<1>3. ASSUME NEW th \in Threads, JobThrows(th), multithreading PROVE CountInv'
  <2>1. threadMesh[th] # NoTask
    BY <1>3 DEF JobThrows, PoolInv
  <2>2. Open' = Open \ {threadMesh[th]} /\ threadMesh[th] \in Open
    BY <1>3, <2>1, LetGo DEF JobThrows
  <2>3. Cardinality(Open') = Cardinality(Open) - 1
    BY <2>2, RemoveOpen
  <2>4. mainPc = "runTasks"
    BY <2>2 DEF CountInv, MapTyping, MainPcs
  <2> QED BY <1>3, <2>2, <2>3, <2>4 DEF JobThrows, CountInv
<1>4. CASE MapFiles
  <2>1. Open' = ToRun
    <3>1. posted' = ToRun /\ threadMesh' = threadMesh
      BY <1>4 DEF MapFiles
    <3>2. \A th \in Threads : threadMesh[th] = NoTask
      BY <1>4, <1>c DEF MapFiles
    <3> QED BY <3>1, <3>2 DEF Open
  <2> QED BY <1>4, <2>1 DEF MapFiles, CountInv
<1>5. CASE RunTasksDone
  <2>1. Open' = Open /\ completedTasks >= Cardinality(ToRun) /\ Cardinality(Open) = 0
    BY <1>5 DEF RunTasksDone, CountInv, Open
  <2>2. Open = {}
    <3>1. IsFiniteSet(Open)
      BY Finite DEF Open, MapTyping
    <3> QED BY <3>1, <2>1, FS_EmptySet
  <2> QED BY <1>5, <2>1, <2>2 DEF RunTasksDone, CountInv
<1>6. CASE StopPool
  <2>1. Open' \subseteq Open
    BY <1>6 DEF StopPool, Open
  <2>2. Cardinality(Open') \in Nat /\ Cardinality(Open') <= Cardinality(Open)
    <3>1. IsFiniteSet(Open)
      BY Finite DEF Open, MapTyping
    <3>2. IsFiniteSet(Open')
      BY <3>1, <2>1, FS_Subset
    <3> QED BY <3>1, <3>2, <2>1, FS_Subset, FS_CardinalityType
  <2> QED BY <1>6, <2>1, <2>2 DEF StopPool, CountInv
<1>7. CASE RunInline
  <2>1. PICK m \in posted : posted' = posted \ {m}
    BY <1>7 DEF RunInline
  <2>2. \A th \in Threads : threadMesh[th] = NoTask
    BY <1>7 DEF RunInline, CountInv
  <2>3. m \in Open /\ Open' = Open \ {m}
    BY <1>7, <2>1, <2>2 DEF RunInline, Open, MapTyping
  <2>4. Cardinality(Open') = Cardinality(Open) - 1
    BY <2>3, RemoveOpen
  <2> QED BY <1>7, <2>2, <2>3, <2>4 DEF RunInline, CountInv
<1>8. CASE InlineThrows
  <2>1. Open' = {}
    BY <1>8 DEF InlineThrows, Open, CountInv
  <2>2. Cardinality(Open') = 0 /\ Cardinality(Open) \in Nat
    BY <2>1, Finite
  <2> QED BY <1>8, <2>1, <2>2 DEF InlineThrows, CountInv
<1>9. CASE RunInlineDone
  <2>1. Open' = {} /\ Open = {}
    BY <1>9 DEF RunInlineDone, Open, CountInv
  <2>2. Cardinality(Open) = 0
    BY <2>1, Finite
  <2> QED BY <1>9, <2>1, <2>2 DEF RunInlineDone, CountInv
<1>10. ASSUME UNCHANGED <<multithreading, posted, threadMesh, completedTasks, totalRanJobs>>,
              (mainPc \in {"mapFiles", "runTasks"} \/ mainPc' \in {"mapFiles", "runTasks"})
                 => mainPc' = mainPc,
              exceptionThrown => exceptionThrown'
       PROVE  CountInv'
  <2>1. Open' = Open
    BY <1>10 DEF Open
  <2> QED BY <1>10, <2>1 DEF CountInv
<1>11. CASE TestShutdown \/ TestProcessing
  BY <1>10, <1>11 DEF TestShutdown, TestProcessing, vars, stateVars
<1>12. CASE CallStep \/ ReturnStep
  BY <1>10, <1>12 DEF CallStep, ReturnStep, CallWait, PollBusy, PollQueued,
     Shutdown, NotifyStopped, WaitReturned, Join, stateVars
<1>13. ASSUME NEW th \in Threads, ReadNIF(th) \/ QueueMesh(th) \/ FinishQueueTask(th)
       PROVE  CountInv'
  BY <1>10, <1>13 DEF ReadNIF, QueueMesh, QueueTask, FinishQueueTask, Emplace,
     NotifyQueued, vars, stateVars
<1>14. CASE MapWorker
  BY <1>10, <1>14 DEF MapWorker, Worker, LoopTest, CheckException, Take, StopEmpty,
     PredicateFalse, Block, SetBusy, TaskReturns, TaskThrows, ClearBusy, stateVars
<1>15. CASE UNCHANGED allVars
  BY <1>10, <1>15 DEF allVars, vars, stateVars
<1>16. CASE OtherThreadFails
  BY <1>10, <1>16 DEF OtherThreadFails, OtherThreadThrows
<1> QED BY <1>1, <1>2, <1>3, <1>4, <1>5, <1>6, <1>7, <1>8, <1>9, <1>11, <1>12,
           <1>13, <1>14, <1>15, <1>16 DEF MapNext, Main, Thread

MapIInv == MapTyping /\ PoolInv /\ QueueInv /\ CountInv

LEMMA InitMapInductive == MapInit => MapIInv
  BY InitQueue, InitPool, InitCount DEF MapIInv

LEMMA NextMapInductive == MapIInv /\ [MapNext]_allVars => MapIInv'
  BY NextQueue, NextPool, NextCount DEF MapIInv

\* The system is well typed, and runTasks returns only when every job is
\* complete, unless it ran without threads and an exception cut it short.
THEOREM MappingCorrect == MapSpec => []MappingSafe
<1>1. MapIInv => MappingSafe
  <2> SUFFICES ASSUME MapIInv PROVE MappingSafe
    OBVIOUS
  <2>a. /\ Cardinality(Meshes) = Cardinality(Blocked) + Cardinality(ToRun)
        /\ Cardinality(Blocked) \in Nat /\ Cardinality(ToRun) \in Nat
        /\ Cardinality(Open) \in Nat /\ completedTasks \in Nat
    <3>1. /\ Open \in SUBSET Meshes /\ ToRun \in SUBSET Meshes
          /\ Blocked \in SUBSET Meshes
      BY BlockedAssumption DEF Open, MapIInv, MapTyping, ToRun, Meshes
    <3> QED BY <3>1, Finite DEF MapIInv, CountInv
  <2>1. /\ completedTasks \in 0..Cardinality(Meshes)
        /\ totalRanJobs \in 0..Cardinality(Meshes)
    BY <2>a DEF MapIInv, CountInv
  <2>2. MapTypeOK
    BY <2>1 DEF MapIInv, MapTypeOK, MapTyping, QueueInv, IInv, Typing
  <2>3. RunTasksCompletes
    BY <2>a DEF RunTasksCompletes, MapIInv, CountInv, PoolInv, MapTyping, Open
  <2> QED BY <2>2, <2>3 DEF MappingSafe
<1> QED BY InitMapInductive, NextMapInductive, <1>1, PTL DEF MapSpec

-----------------------------------------------------------------------------
(* The end of waitForMeshMapping.                                          *)

\* Where the controlling thread is in its calls, and when the worker is gone.
StopInv ==
  /\ mainPc \notin {"wait", "shutdown", "patch"} => ctlPc = "idle"
  /\ mainPc = "wait" => ctlPc \in {"idle", "pollBusy", "pollQueued", "returned"}
  /\ mainPc = "shutdown" => ctlPc \in {"idle", "stopped", "joining"}
  /\ mainPc = "patch" => ctlPc \in {"idle", "down"} /\ workerPc = "exited"
  /\ ~running => workerPc = "exited" \/ ctlPc \in {"stopped", "joining", "down"}
  /\ ~running => exceptionThrown \/ mainPc \in {"shutdown", "patch"}

LEMMA InitStop == MapInit => StopInv
  BY DEF MapInit, Init, StopInv

LEMMA NextStop == MapIInv /\ StopInv /\ [MapNext]_allVars => StopInv'
<1> SUFFICES ASSUME MapIInv, StopInv, [MapNext]_allVars PROVE StopInv'
  OBVIOUS
<1>a. /\ running \in BOOLEAN /\ exceptionThrown \in BOOLEAN /\ isBusy \in BOOLEAN
      /\ ctlPc \in CtlPcs
  BY DEF MapIInv, QueueInv, IInv, Typing, TypeOK
<1> USE <1>a DEF StopInv, GoTo, stateVars, workerVars
<1>1. ASSUME NEW th \in Threads, Thread(th) PROVE StopInv'
  BY <1>1 DEF Thread, PickTask, ReadNIF, QueueMesh, QueueTask, CompleteJob,
              JobThrows, vars
<1>2. ASSUME NEW th \in Threads, FinishQueueTask(th) PROVE StopInv'
  BY <1>2 DEF FinishQueueTask, Emplace, NotifyQueued, NotifyOne
<1>3. CASE MapWorker
  BY <1>3 DEF MapWorker, Worker, LoopTest, CheckException, Take, StopEmpty,
     PredicateFalse, Block, SetBusy, TaskReturns, TaskThrows, ClearBusy
<1>4. CASE MapFiles \/ RunTasksDone \/ StopPool
  BY <1>4 DEF MapFiles, RunTasksDone, StopPool, vars
<1>5. CASE RunInline \/ InlineThrows \/ RunInlineDone
  BY <1>5 DEF RunInline, InlineThrows, RunInlineDone, vars
<1>6. CASE TestShutdown \/ TestProcessing
  BY <1>6 DEF TestShutdown, TestProcessing, vars
<1>7. CASE CallStep
  BY <1>7 DEF CallStep, CallWait, PollBusy, PollQueued, Shutdown, NotifyStopped,
     NotifyOne, ctlStep
<1>8. CASE ReturnStep
  BY <1>8 DEF ReturnStep, WaitReturned, Join, ctlStep
<1>9. CASE UNCHANGED allVars
  BY <1>9 DEF allVars, vars
<1>10. CASE OtherThreadFails
  BY <1>10 DEF OtherThreadFails, OtherThreadThrows
<1> QED BY <1>1, <1>2, <1>3, <1>4, <1>5, <1>6, <1>7, <1>8, <1>9, <1>10
        DEF MapNext, Main

\* When the patching run starts to walk m_meshes nobody enters meshes any
\* more: on every path the worker has left its loop.
THEOREM SettledCorrect == MapSpec => MeshesSettled
<1>1. MapIInv /\ StopInv /\ [MapNext]_allVars
        => (mainPc = "patch" => meshes' = meshes)
  <2> SUFFICES ASSUME MapIInv, StopInv, [MapNext]_allVars, mainPc = "patch"
               PROVE  meshes' = meshes
    OBVIOUS
  <2>1. workerPc = "exited" /\ ~ MapWorker
    BY DEF StopInv, MapWorker, Worker, LoopTest, CheckException, Take, StopEmpty,
       PredicateFalse, Block, SetBusy, TaskReturns, TaskThrows, ClearBusy
  <2> QED BY <2>1 DEF MapNext, Main, Thread, PickTask, ReadNIF, QueueMesh,
       CompleteJob, JobThrows, FinishQueueTask, MapFiles, RunTasksDone, StopPool,
       RunInline, InlineThrows, RunInlineDone, TestShutdown, TestProcessing,
       CallStep, ReturnStep, OtherThreadFails, GoTo, mapVars, allVars
<1> QED BY InitMapInductive, InitStop, NextMapInductive, NextStop, <1>1, PTL
        DEF MapSpec, MeshesSettled

-----------------------------------------------------------------------------
(* Where a mesh that was read is.                                          *)

Accepted == Range(accepted)
Begun    == Range(begun)
Submitting == {m \in Meshes : \E th \in Threads : prodTask[th] = m}
Handing  == {m \in Meshes : \E th \in Threads : threadPc[th] = "queue" /\ threadMesh[th] = m}

\* With threads, a mesh that was read is about to be handed over, is being
\* submitted or has been accepted, and m_meshes holds what the worker has
\* finished; without them, it is in m_meshes and the queue is not used.
SourceInv ==
  /\ Accepted \cup Submitting \cup Handing \subseteq loaded
  /\ multithreading =>
       /\ meshes = finished
       /\ exceptionThrown \/ loaded \subseteq Accepted \cup Submitting \cup Handing
  /\ ~multithreading =>
       meshes = loaded /\ accepted = <<>> /\ finished = {} /\ hand = NoTask

\* No mesh is accepted twice, and only what was taken is in hand or over.
TakenInv ==
  /\ \A i, j \in DOMAIN accepted : accepted[i] = accepted[j] => i = j
  /\ finished \cup {hand} \subseteq Begun \cup {NoTask}

LEMMA InitSource == MapInit => SourceInv /\ TakenInv
  BY NoTaskAssumption, EmptySeq
  DEF MapInit, Init, SourceInv, TakenInv, Accepted, Submitting, Handing, Begun,
      Range, Meshes, Threads

LEMMA AppendElements ==
  ASSUME NEW S, NEW s \in Seq(S), NEW x \in S
  PROVE  Range(Append(s, x)) = Range(s) \cup {x}
<1>1. /\ DOMAIN s = 1..Len(s) /\ Len(s) \in Nat
      /\ DOMAIN Append(s, x) = 1..(Len(s) + 1)
      /\ \A i \in 1..Len(s) : Append(s, x)[i] = s[i]
      /\ Append(s, x)[Len(s) + 1] = x
  BY AppendProperties, LenProperties
<1> QED BY <1>1 DEF Range

LEMMA NextTaken == QueueInv /\ TakenInv /\ [Next]_vars => TakenInv'
<1> SUFFICES ASSUME QueueInv, TakenInv, [Next]_vars PROVE TakenInv'
  OBVIOUS
<1>a. /\ accepted \in Seq(Tasks) /\ begun \in Seq(Tasks) /\ taskQueue \in Seq(Tasks)
      /\ hand # NoTask <=> workerPc \in InHand
  BY DEF QueueInv, IInv, Typing, TypeOK, HandInv
<1> USE DEF stateVars, workerVars, prodVars, histVars
<1>1. ASSUME NEW p \in Producers, Emplace(p) PROVE TakenInv'
  <2>1. prodTask[p] \in Tasks /\ prodTask[p] # NoTask
    BY <1>1, NoTaskAssumption DEF Emplace, QueueInv, IInv, Typing, TypeOK, HandInv
  <2>2. \A i \in DOMAIN accepted : accepted[i] # prodTask[p]
    BY <2>1 DEF QueueInv, Fresh
  <2>3. /\ DOMAIN accepted' = 1..(Len(accepted) + 1) /\ Len(accepted) \in Nat
        /\ DOMAIN accepted = 1..Len(accepted)
        /\ \A i \in 1..Len(accepted) : accepted'[i] = accepted[i]
        /\ accepted'[Len(accepted) + 1] = prodTask[p]
    BY <1>1, <1>a, <2>1, AppendProperties, LenProperties DEF Emplace
  <2>4. \A i, j \in DOMAIN accepted' : accepted'[i] = accepted'[j] => i = j
    BY <2>2, <2>3 DEF TakenInv
  <2>5. UNCHANGED <<begun, finished, hand>>
    BY <1>1 DEF Emplace
  <2> QED BY <2>4, <2>5 DEF TakenInv, Begun
<1>2. CASE Take
  <2>1. Head(taskQueue) \in Tasks
    BY <1>2, <1>a, HeadTailProperties DEF Take
  <2>2. begun' = Append(begun, Head(taskQueue)) /\ hand' = Head(taskQueue)
        /\ UNCHANGED <<accepted, finished>>
    BY <1>2 DEF Take
  <2>3. Begun' = Begun \cup {hand'}
    BY <2>1, <2>2, <1>a, AppendElements DEF Begun
  <2> QED BY <2>2, <2>3 DEF TakenInv
<1>3. CASE TaskReturns
  BY <1>3 DEF TaskReturns, TakenInv, Begun
<1>4. CASE ClearBusy
  BY <1>4 DEF ClearBusy, TakenInv, Begun
<1>5. CASE UNCHANGED <<accepted, begun, finished, hand>>
  BY <1>5 DEF TakenInv, Begun
<1>6. \/ \E p \in Producers : Emplace(p)
      \/ Take \/ TaskReturns \/ ClearBusy
      \/ UNCHANGED <<accepted, begun, finished, hand>>
  BY DEF Next, Worker, Controller, vars, QueueTask, NotifyQueued,
         LoopTest, CheckException, StopEmpty, PredicateFalse, Block,
         SpuriousWakeup, SetBusy, TaskThrows, CallWait, PollBusy, PollQueued,
         WaitReturned, Shutdown, NotifyStopped, Join, OtherThreadThrows
<1> QED BY <1>1, <1>2, <1>3, <1>4, <1>5, <1>6

LEMMA NextSource ==
  MapIInv /\ SourceInv /\ [MapNext]_allVars => SourceInv'
<1> SUFFICES ASSUME MapIInv, SourceInv, [MapNext]_allVars PROVE SourceInv'
  OBVIOUS
<1>a. /\ prodTask \in [Threads -> Meshes \cup {NoTask}]
      /\ threadMesh \in [Threads -> Meshes \cup {NoTask}]
      /\ threadPc \in [Threads -> ThreadPcs]
      /\ accepted \in Seq(Meshes) /\ NoTask \notin Meshes /\ posted \subseteq Meshes
      /\ multithreading \in BOOLEAN
  BY NoTaskAssumption
     DEF MapIInv, MapTyping, QueueInv, IInv, Typing, TypeOK, Meshes, Threads
<1>b. \A th \in Threads : threadPc[th] # "idle" => threadMesh[th] \in Meshes
  BY <1>a DEF MapIInv, PoolInv
<1> USE DEF stateVars, workerVars, prodVars, histVars, poolVars, mapVars
<1>1. ASSUME NEW th \in Threads, multithreading, PickTask(th) PROVE SourceInv'
  <2>1. Handing' = Handing
    <3>1. CASE UNCHANGED <<threadPc, threadMesh>>
      BY <3>1 DEF Handing
    <3>2. CASE ~ UNCHANGED <<threadPc, threadMesh>>
      <4>1. PICK m \in posted : /\ threadPc' = [threadPc EXCEPT ![th] = "read"]
                                /\ threadMesh' = [threadMesh EXCEPT ![th] = m]
        BY <1>1, <3>2 DEF PickTask
      <4>2. threadPc[th] = "idle"
        BY <1>1 DEF PickTask
      <4> QED BY <4>1, <4>2, <1>a DEF Handing
    <3> QED BY <3>1, <3>2
  <2> QED BY <1>1, <2>1 DEF PickTask, SourceInv, Accepted, Submitting, vars
<1>2. ASSUME NEW th \in Threads, multithreading, ReadNIF(th) PROVE SourceInv'
  <2>1. UNCHANGED <<vars, threadMesh, multithreading, meshes>>
    BY <1>2 DEF ReadNIF
  <2>2. CASE threadPc' = [threadPc EXCEPT ![th] = "complete"] /\ UNCHANGED loaded
    <3>1. Handing' = Handing
      BY <1>2, <2>1, <2>2, <1>a DEF Handing, ReadNIF
    <3> QED BY <2>1, <2>2, <3>1 DEF SourceInv, Accepted, Submitting, vars
  <2>3. CASE /\ threadPc' = [threadPc EXCEPT ![th] = "queue"]
             /\ loaded' = loaded \cup {threadMesh[th]}
    <3>1. Handing' = Handing \cup {threadMesh[th]}
      BY <1>2, <2>1, <2>3, <1>a, <1>b DEF Handing, ReadNIF
    <3> QED BY <1>2, <2>1, <2>3, <3>1 DEF SourceInv, Accepted, Submitting, vars
  <2> QED BY <1>2, <2>2, <2>3 DEF ReadNIF
<1>3. ASSUME NEW th \in Threads, multithreading, QueueMesh(th) PROVE SourceInv'
  <2>1. /\ threadPc' = [threadPc EXCEPT ![th] = "complete"]
        /\ UNCHANGED <<threadMesh, mapVars>>
        /\ threadPc[th] = "queue"
    BY <1>3 DEF QueueMesh
  <2>2. /\ Handing \subseteq Handing' \cup {threadMesh[th]}
        /\ Handing' \subseteq Handing /\ threadMesh[th] \in Handing
    BY <2>1, <1>a, <1>b DEF Handing
  <2>3. CASE QueueTask(th, threadMesh[th])
    <3>1. prodTask[th] = NoTask
      BY <2>3 DEF QueueTask, MapIInv, QueueInv, IInv, Typing, HandInv, Threads
    <3>2. Submitting' = Submitting \cup {threadMesh[th]}
      BY <2>1, <2>3, <3>1, <1>a, <1>b DEF QueueTask, Submitting
    <3> QED BY <2>1, <2>2, <2>3, <3>2, <1>3 DEF QueueTask, SourceInv, Accepted
  <2>4. CASE exceptionThrown /\ UNCHANGED vars
    BY <2>1, <2>2, <2>4, <1>3 DEF SourceInv, Accepted, Submitting, vars
  <2> QED BY <1>3, <2>3, <2>4 DEF QueueMesh
<1>4. ASSUME NEW th \in Threads, multithreading, CompleteJob(th) \/ JobThrows(th)
      PROVE  SourceInv'
  <2>1. Handing' = Handing
    BY <1>4, <1>a DEF CompleteJob, JobThrows, Handing
  <2>2. /\ UNCHANGED <<accepted, prodTask, loaded, meshes, multithreading, finished, hand>>
        /\ exceptionThrown => exceptionThrown'
    <3>1. CASE CompleteJob(th)
      BY <3>1 DEF CompleteJob, vars
    <3>2. CASE JobThrows(th)
      BY <3>2 DEF JobThrows
    <3> QED BY <1>4, <3>1, <3>2
  <2> QED BY <2>1, <2>2 DEF SourceInv, Accepted, Submitting
<1>5. ASSUME NEW th \in Threads, multithreading, FinishQueueTask(th) PROVE SourceInv'
  <2>1. Handing' = Handing /\ UNCHANGED <<mapVars, finished, exceptionThrown>>
    BY <1>5 DEF FinishQueueTask, Emplace, NotifyQueued, Handing
  <2>2. CASE Emplace(th)
    <3>1. prodTask[th] \in Meshes
      BY <2>2, <1>a DEF Emplace, MapIInv, QueueInv, IInv, Typing, HandInv, Threads
    <3>2. Accepted' = Accepted \cup {prodTask[th]}
      BY <2>2, <3>1, <1>a, AppendElements DEF Emplace, Accepted
    <3>3. /\ Submitting \subseteq Submitting' \cup {prodTask[th]}
          /\ Submitting' \subseteq Submitting /\ prodTask[th] \in Submitting
      BY <2>2, <3>1, <1>a DEF Emplace, Submitting
    <3> QED BY <1>5, <2>1, <3>2, <3>3 DEF SourceInv
  <2>3. CASE NotifyQueued(th)
    BY <2>1, <2>3, <1>5 DEF NotifyQueued, SourceInv, Accepted, Submitting
  <2> QED BY <1>5, <2>2, <2>3 DEF FinishQueueTask
<1>6. CASE MapWorker
  <2>1. /\ UNCHANGED <<accepted, prodTask, threadPc, threadMesh, loaded, multithreading>>
        /\ exceptionThrown => exceptionThrown'
        /\ finished \subseteq finished'
        /\ meshes' = meshes \cup (finished' \ finished)
    BY <1>6 DEF MapWorker, Worker, LoopTest, CheckException, Take, StopEmpty,
       PredicateFalse, Block, SetBusy, TaskReturns, TaskThrows, ClearBusy
  <2>2. ASSUME ~multithreading PROVE hand' = NoTask /\ finished' = finished
    <3>1. accepted = <<>> /\ hand = NoTask /\ workerPc \notin InHand
      BY <2>2 DEF SourceInv, MapIInv, QueueInv, IInv, Typing, HandInv
    <3>2. taskQueue = <<>>
      <4>1. /\ begun \in Seq(Tasks) /\ taskQueue \in Seq(Tasks)
            /\ begun \o taskQueue = <<>>
        BY <3>1 DEF MapIInv, QueueInv, IInv, Typing, TypeOK, QueueAccounts
      <4>2. Len(begun) + Len(taskQueue) = 0
        BY <4>1, ConcatProperties, EmptySeq
      <4> QED BY <4>1, <4>2, EmptySeq, LenProperties
    <3> QED BY <1>6, <3>1, <3>2 DEF MapWorker, Worker, LoopTest, CheckException,
         Take, StopEmpty, PredicateFalse, Block, SetBusy, TaskReturns, TaskThrows,
         ClearBusy, InHand
  <2>3. Accepted' = Accepted /\ Submitting' = Submitting /\ Handing' = Handing
    BY <2>1 DEF Accepted, Submitting, Handing
  <2> QED BY <2>1, <2>2, <2>3 DEF SourceInv
<1>7. ASSUME UNCHANGED <<accepted, prodTask, threadPc, threadMesh, loaded, meshes,
                         multithreading, finished, hand>>,
             exceptionThrown => exceptionThrown'
      PROVE  SourceInv'
  <2>1. Accepted' = Accepted /\ Submitting' = Submitting /\ Handing' = Handing
    BY <1>7 DEF Accepted, Submitting, Handing
  <2> QED BY <1>7, <2>1 DEF SourceInv
<1>8. CASE RunInline
  <2>1. /\ UNCHANGED <<accepted, prodTask, threadPc, threadMesh, multithreading,
                       finished, hand>>
        /\ ~multithreading
        /\ loaded \subseteq loaded' /\ (meshes = loaded => meshes' = loaded')
    BY <1>8 DEF RunInline, vars
  <2>2. Accepted' = Accepted /\ Submitting' = Submitting /\ Handing' = Handing
    BY <2>1 DEF Accepted, Submitting, Handing
  <2> QED BY <2>1, <2>2 DEF SourceInv
<1>9. CASE MapFiles \/ RunTasksDone \/ StopPool \/ InlineThrows \/ RunInlineDone
  BY <1>9, <1>7 DEF MapFiles, RunTasksDone, StopPool, InlineThrows, RunInlineDone, vars
<1>10. CASE TestShutdown \/ TestProcessing
  BY <1>10, <1>7 DEF TestShutdown, TestProcessing, vars
<1>11. CASE CallStep \/ ReturnStep
  BY <1>11, <1>7 DEF CallStep, ReturnStep, CallWait, PollBusy, PollQueued, Shutdown,
     NotifyStopped, WaitReturned, Join
<1>12. CASE UNCHANGED allVars
  BY <1>12, <1>7 DEF allVars, vars
<1>13. CASE OtherThreadFails
  BY <1>13, <1>7 DEF OtherThreadFails, OtherThreadThrows
<1> QED BY <1>1, <1>2, <1>3, <1>4, <1>5, <1>6, <1>8, <1>9, <1>10, <1>11, <1>12, <1>13
        DEF MapNext, Main, Thread
-----------------------------------------------------------------------------
(* The wait.                                                               *)

\* The queue is waited for only when the worker was seen with a task; once
\* runTasks has returned nobody submits any more, so the wait covers all that
\* was accepted.
WaitedInv ==
  /\ waited => mainPc \in {"wait", "shutdown", "patch"}
  /\ waited /\ (mainPc # "wait" \/ ctlPc # "idle") => waitMark = Len(accepted)
  /\ mainPc = "wait" => waited

LEMMA InitWaited == MapInit => WaitedInv
  BY DEF MapInit, WaitedInv

LEMMA NextWaited ==
  MapIInv /\ StopInv /\ WaitedInv /\ [MapNext]_allVars => WaitedInv'
<1> SUFFICES ASSUME MapIInv, StopInv, WaitedInv, [MapNext]_allVars PROVE WaitedInv'
  OBVIOUS
<1>a. waited \in BOOLEAN /\ mainPc \in MainPcs /\ isBusy \in BOOLEAN
  BY DEF MapIInv, MapTyping, QueueInv, IInv, Typing, TypeOK
<1>b. mainPc \notin {"mapFiles", "runTasks"} =>
        \A th \in Threads : threadPc[th] = "idle" /\ prodPc[th] = "idle"
  BY DEF MapIInv, CountInv, PoolInv, Open, MapTyping
<1> USE <1>a DEF GoTo, mapVars, histVars, stateVars
<1>1. ASSUME UNCHANGED <<waited, mainPc, ctlPc, accepted, waitMark>> PROVE WaitedInv'
  BY <1>1 DEF WaitedInv
<1>2. ASSUME NEW th \in Threads, PickTask(th) \/ ReadNIF(th) \/ CompleteJob(th)
                                 \/ JobThrows(th) \/ QueueMesh(th)
      PROVE  WaitedInv'
  BY <1>1, <1>2 DEF PickTask, ReadNIF, CompleteJob, JobThrows, QueueMesh, QueueTask, vars
<1>3. ASSUME NEW th \in Threads, FinishQueueTask(th) PROVE WaitedInv'
  <2>1. CASE Emplace(th)
    <3>1. mainPc \in {"mapFiles", "runTasks"}
      BY <2>1, <1>b DEF Emplace
    <3> QED BY <1>3, <3>1 DEF FinishQueueTask, WaitedInv
  <2>2. CASE NotifyQueued(th)
    BY <1>1, <1>3, <2>2 DEF FinishQueueTask, NotifyQueued
  <2> QED BY <1>3, <2>1, <2>2 DEF FinishQueueTask
<1>4. CASE MapWorker
  BY <1>1, <1>4 DEF MapWorker, Worker, LoopTest, CheckException, Take, StopEmpty,
     PredicateFalse, Block, SetBusy, TaskReturns, TaskThrows, ClearBusy
<1>5. CASE MapFiles \/ RunTasksDone \/ StopPool \/ RunInline \/ InlineThrows \/ RunInlineDone
  BY <1>5 DEF MapFiles, RunTasksDone, StopPool, RunInline, InlineThrows,
     RunInlineDone, WaitedInv
<1>6. CASE TestShutdown
  BY <1>6 DEF TestShutdown, WaitedInv
<1>7. CASE TestProcessing
  BY <1>7 DEF TestProcessing, WaitedInv, StopInv, vars
<1>8. CASE CallStep
  BY <1>8 DEF CallStep, CallWait, PollBusy, PollQueued, Shutdown, NotifyStopped,
     ctlStep, WaitedInv
<1>9. CASE ReturnStep
  BY <1>9 DEF ReturnStep, WaitReturned, Join, ctlStep, WaitedInv
<1>10. CASE UNCHANGED allVars
  BY <1>1, <1>10 DEF allVars, vars
<1>11. CASE OtherThreadFails
  BY <1>1, <1>11 DEF OtherThreadFails, OtherThreadThrows
<1> QED BY <1>2, <1>3, <1>4, <1>5, <1>6, <1>7, <1>8, <1>9, <1>10, <1>11
        DEF MapNext, Main, Thread

AccountInv == MapIInv /\ StopInv /\ SourceInv /\ TakenInv /\ WaitedInv

\* When the patching run starts, without an exception, every task taken is
\* finished and every mesh read has been accepted.
LEMMA AtPatch ==
  ASSUME AccountInv, mainPc = "patch", ~exceptionThrown, multithreading
  PROVE  /\ loaded = Accepted /\ meshes = finished
         /\ Begun \subseteq finished /\ finished \subseteq Begun \cup {NoTask}
         /\ NoTask \notin Accepted
         /\ waited => Accepted \subseteq finished
<1>1. failed = NoTask /\ hand = NoTask
  BY DEF AccountInv, MapIInv, QueueInv, IInv, ControlInv, AfterFailure, StopInv,
         Typing, HandInv, InHand
<1>2. \A th \in Threads : threadPc[th] = "idle" /\ prodTask[th] = NoTask
  BY DEF AccountInv, MapIInv, CountInv, PoolInv, Open, MapTyping, QueueInv, IInv,
         Typing, HandInv, Threads
<1>3. Submitting = {} /\ Handing = {}
  BY <1>2, NoTaskAssumption DEF Submitting, Handing, Meshes
<1>4. loaded = Accepted /\ meshes = finished
  BY <1>3 DEF AccountInv, SourceInv
<1>5. /\ begun \in Seq(Tasks) /\ accepted \in Seq(Tasks)
      /\ DOMAIN begun = 1..Len(begun) /\ DOMAIN accepted = 1..Len(accepted)
      /\ NoTask \notin Tasks
  BY NoTaskAssumption, LenProperties
     DEF AccountInv, MapIInv, QueueInv, IInv, Typing, TypeOK
<1>6. Begun \subseteq finished
  BY <1>1, <1>5
     DEF Begun, Range, Over, AccountInv, MapIInv, QueueInv, IInv, CompletionInv, ExecInv
<1>7. finished \subseteq Begun \cup {NoTask}
  BY DEF AccountInv, TakenInv
<1>8. NoTask \notin Accepted
  BY <1>5 DEF Accepted, Range
<1>9. ASSUME waited PROVE Accepted \subseteq finished
  <2>1. waitMark = Len(accepted) /\ ~Polling
    BY <1>9 DEF AccountInv, WaitedInv, StopInv, Polling
  <2>2. \A i \in 1..Len(accepted) : accepted[i] \in finished
    BY <2>1, <1>1, <1>5
       DEF AccountInv, MapIInv, QueueInv, IInv, CompletionInv, WaitInv, Over
  <2> QED BY <2>2, <1>5 DEF Accepted, Range
<1> QED BY <1>4, <1>6, <1>7, <1>8, <1>9

\* Which meshes the patching run sees: all that were read when the queue was
\* waited for, and otherwise all but those still in the queue.
THEOREM AccountedCorrect == MapSpec => []MeshesAccounted
<1>1. AccountInv => MeshesAccounted
  <2> SUFFICES ASSUME AccountInv, mainPc = "patch", ~exceptionThrown
               PROVE  /\ waited => loaded \subseteq meshes
                      /\ loaded \ meshes = {taskQueue[i] : i \in DOMAIN taskQueue}
    BY DEF MeshesAccounted, WaitedMappingComplete, MissedMeshesAreQueued
  <2>a. /\ begun \in Seq(Tasks) /\ taskQueue \in Seq(Tasks)
        /\ accepted = begun \o taskQueue
    BY DEF AccountInv, MapIInv, QueueInv, IInv, Typing, TypeOK, QueueAccounts
  <2>1. CASE multithreading
    <3>1. Accepted = Begun \cup Range(taskQueue)
      BY <2>a, RangeConcatenation DEF Accepted, Begun
    <3>2. ASSUME NEW t \in Begun, t \in Range(taskQueue) PROVE FALSE
      <4>1. PICK i \in DOMAIN begun, j \in DOMAIN taskQueue :
              begun[i] = t /\ taskQueue[j] = t
        BY <3>2 DEF Begun, Range
      <4>2. /\ Len(begun) \in Nat /\ Len(taskQueue) \in Nat
            /\ i \in 1..Len(begun) /\ j \in 1..Len(taskQueue)
            /\ DOMAIN accepted = 1..(Len(begun) + Len(taskQueue))
            /\ accepted[i] = begun[i] /\ accepted[Len(begun) + j] = taskQueue[j]
        BY <2>a, <4>1, LenProperties, ConcatProperties
      <4>3. \A k, l \in DOMAIN accepted : accepted[k] = accepted[l] => k = l
        BY DEF AccountInv, TakenInv
      <4> QED BY <4>1, <4>2, <4>3
    <3>3. loaded \ meshes = Range(taskQueue)
      BY <2>1, <3>1, <3>2, AtPatch
    <3> QED BY <2>1, <3>3, AtPatch DEF Range
  <2>2. CASE ~multithreading
    <3>1. meshes = loaded /\ begun \o taskQueue = <<>>
      BY <2>2, <2>a DEF AccountInv, SourceInv
    <3>2. Len(begun) + Len(taskQueue) = 0
      BY <3>1, <2>a, ConcatProperties, EmptySeq
    <3>3. taskQueue = <<>>
      BY <3>2, <2>a, EmptySeq, LenProperties
    <3> QED BY <3>1, <3>3, EmptySeq
  <2> QED BY <2>1, <2>2 DEF AccountInv, MapIInv, MapTyping
<1>2. MapInit => AccountInv
  BY InitMapInductive, InitStop, InitSource, InitWaited DEF AccountInv
<1>3. AccountInv /\ [MapNext]_allVars => AccountInv'
  BY NextMapInductive, NextStop, NextSource, NextTaken, NextWaited, QueueStep
     DEF AccountInv, MapIInv
<1> QED BY <1>1, <1>2, <1>3, PTL DEF MapSpec

=============================================================================

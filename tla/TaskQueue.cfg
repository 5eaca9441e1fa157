\* Two threads submit three tasks; everything else may interleave freely.
SPECIFICATION FairSpec
CONSTANTS
  Tasks = {t1, t2, t3}
  Producers = {p1, p2}
  NoTask = NoTask
INVARIANTS
  QueueSafe
  NoLostWakeup
  WaitSafe
PROPERTIES
  SerialExecution
  AcceptedTaskRuns
  WaitReturns
\* The system ends when the queue has been shut down.
CHECK_DEADLOCK FALSE

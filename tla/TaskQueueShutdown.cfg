\* What TaskQueue.hpp says of shutdown, under the fairness of the threads.
SPECIFICATION FairSpec
CONSTANTS
  Tasks = {t1}
  Producers = {p1}
  NoTask = NoTask
PROPERTY ShutdownReturns
CHECK_DEADLOCK FALSE

SPECIFICATION FairSpec
CHECK_DEADLOCK FALSE
CONSTANTS
  t1 = t1
  t2 = t2
  t3 = t3
  t4 = t4
  NoTask = NoTask
  Worker = {w1, w2, w3}
  Client = {c1, c2}
  Task = {t1, t2, t3, t4}
  FollowUp <- MCFollowUp
INVARIANT TypeOK
INVARIANT NoLostWakeup
INVARIANT TasksAreTakenInOrder
INVARIANT DestructorDrainsQueue
PROPERTY AcceptedTasksRun
PROPERTY DestructorReturns

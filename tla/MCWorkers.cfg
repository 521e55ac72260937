CONSTANTS
  Callers = {c1, c2}
  Self = self
  Tasks = {t1, t2, t3}
  Expiring = {t3}
  ShutdownTask = shutdownTask
  Clients = {c1, c2}
  Worker = worker
  Flusher = flusher
  Queries = {q1, q2, q3}
  WithCallback = {q1, q2}
SPECIFICATION MCSpec
INVARIANTS
  NoLostWakeup
  NothingLeftBehind
  OnlyTheHeldIsOvertaken
  CallbacksInOrder
PROPERTIES
  Served
  AbstractSpec
  AcceptedIsExecuted
  QueryQueueSpec
CHECK_DEADLOCK FALSE

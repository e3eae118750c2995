SPECIFICATION Spec
CONSTANTS
  Queue = {q1, q2}
  Work = {w1, w2}
  Caller = {isr, task}
  NoQueue = NoQueue
  NoWork = NoWork
INVARIANTS
  TypeOK
  HandlerNotReentered
  NodeLinkedOnce
  NoLostWakeup
PROPERTIES
  ImplementsService
  QueuedWorkRuns
CHECK_DEADLOCK FALSE

SPECIFICATION Spec
CONSTANTS
  rx = rx
  tx = tx
  Queues = {rx}
  TaskCalls = {13, 15}
  MaxEvents = 2
INVARIANTS ResumeGivesEvents
CHECK_DEADLOCK FALSE

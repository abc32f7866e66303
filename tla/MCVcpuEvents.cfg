SPECIFICATION Spec
CONSTANTS
  rx = rx
  tx = tx
  Queues = {rx, tx}
  TaskCalls = {1, 13, 14, 15}
  MaxEvents = 2
INVARIANTS TypeOK NoLostEvent NoSelfDeadlock HaltedDry
PROPERTIES QueueServed RunnableRuns
CHECK_DEADLOCK FALSE

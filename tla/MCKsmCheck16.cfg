SPECIFICATION CheckSpec
CONSTANTS
  NotPresent = NotPresent
  Slots = {0}
  Pages = {0, 1, 4194303, 4194304, 7864320, 8126464, 8387584, 8388096, 8388606, 8388607, 8388608, 9000000}
INVARIANTS LeavesBelow16GB
CHECK_DEADLOCK FALSE

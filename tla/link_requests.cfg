\* Three requests for a pool of two, and two for counters of one or two, in six
\* workloads.
SPECIFICATION Spec
CONSTANTS
  j1 = j1 j2 = j2 j3 = j3 e1 = e1 e2 = e2 i1 = i1
  Slots = {j1, j2, j3}
  Emails = {e1, e2} Addresses = {i1}
  Capacity = 2
  Window <- Windows
  Configs <- Workloads
INVARIANTS LimitKept
PROPERTIES RefusedOnlyWhenSpent DroppedOnlyWhenFull ShutdownInOrder
CHECK_DEADLOCK FALSE

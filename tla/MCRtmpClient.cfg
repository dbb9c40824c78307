CONSTANTS
  r1 = r1  r2 = r2
  None = None
  Requests = {r1, r2}
  Limits = {1, 2}
SPECIFICATION Spec
INVARIANTS ClientTypeOK WaitersHaveCause RunningCanBeClosed
PROPERTY EndedRequestsLeave
CHECK_DEADLOCK FALSE

SPECIFICATION Spec
CONSTANTS
  Requests = {r1}
  Replicas = {n1, n2}
  NoRequest = NoRequest
CHECK_DEADLOCK FALSE
INVARIANTS
  NotFoundMeansResolved

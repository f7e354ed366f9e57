SPECIFICATION Spec
CONSTANTS
  Requests = {r1}
  Replicas = {n1}
  NoRequest = NoRequest
CHECK_DEADLOCK FALSE
INVARIANTS
  EveryOutcomeLogged

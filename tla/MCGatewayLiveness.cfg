SPECIFICATION FairSpec
CONSTANTS
  Requests = {r1, r2}
  Replicas = {n1}
  NoRequest = NoRequest
CHECK_DEADLOCK FALSE
PROPERTIES
  EveryRequestEnds
  ApprovalHasOutcome

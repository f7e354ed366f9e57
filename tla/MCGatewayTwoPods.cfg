SPECIFICATION Spec
CONSTANTS
  Requests = {r1, r2}
  Replicas = {n1, n2}
  NoRequest = NoRequest
SYMMETRY Symmetry
CHECK_DEADLOCK FALSE
INVARIANTS
  TypeOK
  OnlyClearedIsApplied
  AppliedAtMostOnce
  QueueIsExclusive
  TurnedAwayStaysAway
  AuditTrailsAreLegal
  AnsweredMeansLogged
  LoggedExecutionIsReal
PROPERTIES
  RulingIsFinal
  HeldUntilRuledOrDead
  KeepsPromise

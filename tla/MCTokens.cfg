SPECIFICATION Spec
CONSTANTS
  Processes = {"gateway", "script"}
  Secrets = {"dev", "prod"}
  DevSecret = "dev"
  Ttl = 2
  PerSecond = 2
  MaxTime = 9
CHECK_DEADLOCK FALSE
INVARIANTS
  LifetimeIsExact
  DevTokensStayOutside

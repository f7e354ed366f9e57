SPECIFICATION MCSpec
CONSTANTS
  Asks = {a1}
  Requests <- MCRequests
  Replicas = {n1, n2}
  NoRequest = NoRequest
  Roles = {"readonly", "deployer", "auditor"}
  Actions = {"get", "create", "patch"}
  Resources = {"pods", "deployments", "secrets"}
  Namespaces = {"demo"}
  Paddings = {{}, {"resource"}}
  ImageNames = {"nginx:"}
  Counts = {1}
  TrustedImagePrefixes = {"nginx:"}
  MaxReplicasThreshold = 10
  Bodies <- MCBodies
  Names = {"gateway-managed-app"}
  Ports = {"80", "443"}
  Foreign <- MCForeign
  Posts <- MCPosts
SYMMETRY ReplicaSymmetry
CHECK_DEADLOCK FALSE
INVARIANTS
  RepeatedOnlyIfCutOff
  DeniedMeansUndone
  ReturnedMeansHandled
  AppliedIsPermitted
  RetryIsNoSecondChance
  LogSurvivesReview
PROPERTIES
  ClusterIsGuarded
  RepeatIsHarmless

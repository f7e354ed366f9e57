SPECIFICATION Spec
CONSTANTS
  Roles = {"readonly", "deployer", "auditor"}
  Actions <- MCActions
  Resources = {"pods", "secrets"}
  Namespaces = {"demo", "kube-system"}
  Paddings <- MCPaddings
  ImageNames <- MCImageNames
  Counts = {2, 10, 11}
  TrustedImagePrefixes <- DefaultPrefixes
  MaxReplicasThreshold = 10
CHECK_DEADLOCK FALSE
INVARIANTS
  TypeOK
  AllowedHasNoDenyReason
  DefaultDenyIsForUnknownVerbs
  PendingNeedsDisagreement
  ScoredPayloadIsDenied
  ReadsAreNeverHigh
  DangerIsMonotone

SPECIFICATION Spec
CONSTANTS
  Roles = {"deployer"}
  Actions <- MCActions
  Resources = {"deployments"}
  Namespaces = {"demo"}
  Paddings = {{}}
  ImageNames <- MCImageNames
  Counts = {2}
  TrustedImagePrefixes <- ManifestPrefixes
  MaxReplicasThreshold = 10
CHECK_DEADLOCK FALSE
INVARIANTS
  UntrustedImageIsDenied

SPECIFICATION Spec
CONSTANTS
  Roles = {"readonly", "deployer"}
  Actions = {"get", "list", "create", "update", "patch", "apply", "delete"}
  Resources = {"pods", "deployments", "secrets", "namespaces", "configmap", "services"}
  Namespaces = {"demo"}
  Paddings = {{}, {"resource", "namespace"}}
  ImageNames <- MCImageNames
  Counts = {10, 11}
  Requests <- MCRequests
  Names = {"gateway-managed-app"}
  Ports = {"80"}
  Foreign <- MCForeign
CHECK_DEADLOCK FALSE
INVARIANTS
  PatchKeepsTheRest

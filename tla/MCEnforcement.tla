--------------------------- MODULE MCEnforcement ---------------------------
(* Values for model-checking Enforcement with TLC.                         *)
EXTENDS Enforcement

(* One image per way the two sides can treat it: trusted by both, trusted  *)
(* by the policy only once the settings leave it out, trusted by neither.  *)
MCImageNames == {"nginx:", "busybox:", "docker.io/"}

(* Every verb of the tables, one class each, and one that is in none.      *)
MCActions == {"get", "create", "patch", "replace", "delete", "scale"}

(* Blanks around the verb, and around the two names that the scorer looks  *)
(* up (around a harmless one of them they change nothing).                 *)
MCPaddings == { {}, {"action"}, {"resource", "namespace"} }

(* The settings of app/config.py and those of k8s/gateway/deployment.yaml, *)
(* restricted to MCImageNames.                                             *)
DefaultPrefixes  == {"nginx:", "busybox:"}
ManifestPrefixes == {"nginx:"}
=============================================================================

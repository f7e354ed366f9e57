------------------------------- MODULE Policy -------------------------------
(***************************************************************************)
(* The OPA policy, policies/agent_actions.rego, as operators on a request  *)
(* of ActionRequest.  A reason is a short name for the rule that gives it. *)
(***************************************************************************)
EXTENDS ActionRequest, FiniteSets

ReadOnlyActions == {"get", "list", "watch"}
WriteActions    == {"create", "update", "patch", "apply"}
DeleteActions   == {"delete", "replace", "exec"}

PrivilegedNamespaces == {"kube-system", "kube-public", "kube-node-lease"}

SensitiveResources ==
  {"secret", "secrets", "role", "roles", "rolebinding", "rolebindings",
   "clusterrole", "clusterroles", "clusterrolebinding", "clusterrolebindings",
   "serviceaccount", "serviceaccounts"}

PolicyTrustedPrefixes ==
  {"nginx:", "python:", "alpine:", "busybox:", "gcr.io/", "quay.io/",
   "registry.k8s.io/"}

PolicyMaxReplicas == 10

(* The names as _query_opa sends them: one with blanks around it equals none *)
(* of the names in the lists above.                                        *)
Unlisted == "a name with blanks"
OpaAction(r)    == IF "action" \in r.padded THEN Unlisted ELSE r.action
OpaResource(r)  == IF "resource" \in r.padded THEN Unlisted ELSE r.resource
OpaNamespace(r) == IF "namespace" \in r.padded THEN Unlisted ELSE r.namespace

(* image != "", image != null, not _is_trusted_image(image); an absent     *)
(* image leaves the rule undefined, and startswith on a value that is not  *)
(* a string is undefined, so that `not` holds.                             *)
ImageViolates(r) ==
  r.params.image \notin PolicyTrustedPrefixes \cup {"absent", "empty", "null"}

(* replicas > max_replicas in Rego's order of all values: null, booleans,  *)
(* numbers, strings, collections.  Any string or collection exceeds any    *)
(* number.                                                                 *)
ReplicasViolate(r) ==
  LET v == r.params.replicas IN
    \/ v.kind = "number" /\ v.count > PolicyMaxReplicas
    \/ v.kind = "fraction" /\ v.count >= PolicyMaxReplicas
    \/ v.kind \in {"text", "other text", "collection"}

(* Mutant of ForbiddenFlags: the host network rule is missing.             *)
ForbiddenFlagsNoNetwork == {"privileged", "hostPID", "hostIPC"}

(* The fields that have a payload rule; hostPath has none.                 *)
ForbiddenFlags == {"privileged", "hostNetwork", "hostPID", "hostIPC"}

PayloadViolations(r) ==
  IF OpaAction(r) \notin WriteActions THEN {}
  ELSE (r.params.flags \cap ForbiddenFlags)
       \cup {x \in {"image"} : ImageViolates(r)}
       \cup {x \in {"replicas"} : ReplicasViolate(r)}

(* Mutant of Allow: rule C does not look at the kind of resource.          *)
AllowAnyResource(r) ==
  \/ r.role \in {"readonly", "deployer"} /\ OpaAction(r) \in ReadOnlyActions
  \/ /\ r.role = "deployer" /\ OpaAction(r) \in WriteActions
     /\ OpaNamespace(r) \notin PrivilegedNamespaces
     /\ PayloadViolations(r) = {}

(* Rules A and B: reading.  Rule C: a deployer's writes outside privileged *)
(* namespaces and sensitive resources, with a clean payload.               *)
Allow(r) ==
  \/ r.role \in {"readonly", "deployer"} /\ OpaAction(r) \in ReadOnlyActions
  \/ /\ r.role = "deployer" /\ OpaAction(r) \in WriteActions
     /\ OpaNamespace(r) \notin PrivilegedNamespaces
     /\ OpaResource(r) \notin SensitiveResources
     /\ PayloadViolations(r) = {}

(* Mutant of DenyReasons: the rule for sensitive resources is missing.     *)
DenyReasonsNoResource(r) ==
  {x \in {"deletes"} : OpaAction(r) \in DeleteActions}
  \cup {x \in {"namespace"} : OpaNamespace(r) \in PrivilegedNamespaces
                              /\ OpaAction(r) \in WriteActions}
  \cup {x \in {"readonly"} : r.role = "readonly" /\ OpaAction(r) \notin ReadOnlyActions}
  \cup {x \in {"role"} : r.role \notin {"readonly", "deployer"}}
  \cup PayloadViolations(r)

DenyReasons(r) ==
  {x \in {"deletes"} : OpaAction(r) \in DeleteActions}
  \cup {x \in {"namespace"} : OpaNamespace(r) \in PrivilegedNamespaces
                              /\ OpaAction(r) \in WriteActions}
  \cup {x \in {"readonly"} : r.role = "readonly" /\ OpaAction(r) \notin ReadOnlyActions}
  \cup {x \in {"resource"} : r.role = "deployer" /\ OpaAction(r) \in WriteActions
                             /\ OpaResource(r) \in SensitiveResources}
  \cup {x \in {"role"} : r.role \notin {"readonly", "deployer"}}
  \cup PayloadViolations(r)
=============================================================================

----------------------------- MODULE MCEndToEnd -----------------------------
(* Values for model-checking EndToEnd with TLC.                            *)
EXTENDS EndToEnd, TLC

MCRequests == Asks \X {1, 2}

(* Replicas are interchangeable; the attempts of an ask are not.           *)
ReplicaSymmetry == Permutations(Replicas)

MCBody(role, action, resource, flags, image) ==
  [role |-> role, action |-> action, resource |-> resource, namespace |-> "demo",
   padded |-> {}, params |-> [flags |-> flags, image |-> image,
                              replicas |-> [kind |-> "number", count |-> 1]]]

Blanks(b) == [b EXCEPT !.padded = {"resource"}]

(* One body for each level the scorer may give and each verdict on it; a   *)
(* high score is allowed for a hostPath with a null image.  What is        *)
(* allowed reads, creates and patches.                                     *)
Read    == MCBody("readonly", "get", "deployments", {}, "absent")           \* low
Create  == MCBody("deployer", "create", "deployments", {}, "absent")        \* medium
Patch   == MCBody("deployer", "patch", "deployments", {}, "nginx:")         \* medium
HostPath == MCBody("deployer", "patch", "deployments", {"hostPath"}, "null") \* high
Secret  == MCBody("deployer", "create", "secrets", {}, "absent")            \* medium
Denied ==
  { MCBody("auditor", "get", "pods", {}, "absent"),                         \* low
    Secret,
    MCBody("deployer", "create", "pods", {"privileged"}, "nginx:") }        \* high
MCBodies == Denied \cup {Read, Create, Patch, HostPath, Blanks(Secret)}

(* Each with a name and a port; of those with a branch, a patch without a  *)
(* name (502) and a create with a null port (500) are not sent either.     *)
MCPost(b, name, port) ==
  [request |-> b, name |-> name, port |-> port, limits |-> "quantities"]
MCPosts ==
  {MCPost(b, "gateway-managed-app", "443") : b \in MCBodies}
  \cup {MCPost(Patch, "absent", "443"), MCPost(Create, "gateway-managed-app", "null")}

(* A Deployment that people made.                                          *)
MCForeign ==
  { [replicas |-> 11, selector |-> "own", others |-> FALSE, hostAccess |-> FALSE,
     own |-> {[image |-> "nginx:", ports |-> {}, confined |-> FALSE,
               limits |-> "none"]},
     hands |-> "operator"] }

(* The bounds: one replica is down at a time, and neither approvers that   *)
(* are turned away nor writes of the log that fail, which MCGateway has.   *)
MaxDown == 1
Bounded ==
  /\ Cardinality({n \in Replicas : status[n] # "running"}) <= MaxDown
  /\ warned = {}
  /\ \A r \in Requests : answer[r].status \notin {401, 404}

MCSpec == EndToEndInit /\ [][EndToEndNext /\ Bounded']_endVars
=============================================================================

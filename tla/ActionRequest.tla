--------------------------- MODULE ActionRequest ---------------------------
(***************************************************************************)
(* The body of POST /agent-action (AgentActionRequest in app/main.py) and  *)
(* the role of the token that came with it: the data the risk scorer       *)
(* (RiskScorer) and the policy (Policy) both look at.                      *)
(*                                                                         *)
(* Names are in lower case.  `padded` tells which of them came with blanks *)
(* around them: the scorer and the Kubernetes client strip these           *)
(* (risk/scorer.py, lines 156-158; k8s/client.py, lines 129-131), what the *)
(* gateway sends to OPA keeps them (main.py, lines 143-145).  An image is  *)
(* represented by the trusted prefix it starts with, or by another name    *)
(* when it starts with none.  A parameter that is not exactly JSON `true`  *)
(* counts as FALSE: `is True` in Python and `== true` in Rego agree on it. *)
(***************************************************************************)
EXTENDS Naturals

CONSTANTS Roles, Actions, Resources, Namespaces,
          Paddings,     \* which names may have blanks around them together
          ImageNames,   \* what an image string may start with
          Counts        \* numbers that occur as replica counts

ASSUME PaddingsAssumption ==
  Paddings \subseteq SUBSET {"action", "resource", "namespace"}
ASSUME CountsAssumption == Counts \subseteq Nat
ASSUME ImageNamesAssumption ==
  ImageNames \cap {"absent", "null", "empty", "not a string"} = {}

Images == ImageNames \cup {"absent", "null", "empty", "not a string"}

(* The JSON values `replicas` may have.  A "fraction" lies strictly        *)
(* between count and count + 1, a "text" is the decimal numeral of count.  *)
(* Negative numbers and numbers beyond the range of a float are left out.  *)
ReplicaValues ==
  [kind : {"absent", "null", "other text", "collection"}, count : {0}]
  \cup [kind : {"boolean"}, count : {0, 1}]   \* false and true
  \cup [kind : {"number", "fraction", "text"}, count : Counts]

Flags == {"privileged", "hostNetwork", "hostPID", "hostIPC", "hostPath"}

Params == [flags : SUBSET Flags,   \* the fields whose value is `true`
           image : Images, replicas : ReplicaValues]

ActionRequests == [role : Roles, action : Actions, resource : Resources,
                   namespace : Namespaces, padded : Paddings, params : Params]
=============================================================================

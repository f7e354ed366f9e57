---------------------------- MODULE Enforcement ----------------------------
(***************************************************************************)
(* Stages 2 and 3 of agent_action: one request is scored by the gateway    *)
(* and judged by the OPA policy, and the two results together decide what  *)
(* becomes of it.                                                          *)
(***************************************************************************)
EXTENDS RiskScorer, Policy

VARIABLES request,  \* the request under evaluation
          risk,     \* [score, level] once scored
          outcome   \* "none", "deny", "pending-approval" or "execute"

vars == << request, risk, outcome >>

Unscored == [score |-> 0, level |-> "unscored"]

Init ==
  /\ request \in ActionRequests
  /\ risk = Unscored
  /\ outcome = "none"

(* compute_risk(body.action, body.resource, body.namespace, body.params)   *)
ScoreRequest ==
  /\ risk = Unscored
  /\ risk' = [score |-> Score(request), level |-> Level(request)]
  /\ UNCHANGED << request, outcome >>

(* The answer of OPA and the branches that follow it.                      *)
Decide ==
  /\ risk # Unscored /\ outcome = "none"
  /\ outcome' = IF ~Allow(request) THEN "deny"
                ELSE IF risk.level = "high" THEN "pending-approval"
                ELSE "execute"
  /\ UNCHANGED << request, risk >>

Next == ScoreRequest \/ Decide

Spec == Init /\ [][Next]_vars

-----------------------------------------------------------------------------
(* Properties                                                              *)

(* The score stays between 0 and 18 and its level is the band it falls in. *)
TypeOK ==
  /\ request \in ActionRequests
  /\ risk = Unscored \/ risk \in [score : 0..18, level : {"low", "medium", "high"}]
  /\ outcome \in {"none", "deny", "pending-approval", "execute"}

(* The policy never both allows a request and names a reason to deny it:   *)
(* the allow rules and the deny rules, written separately, do not overlap. *)
AllowedHasNoDenyReason ==
  outcome \in {"execute", "pending-approval"} => DenyReasons(request) = {}

(* A denied agent is told why: the wordless default deny is left for verbs *)
(* the policy has in none of its three lists.                              *)
DefaultDenyIsForUnknownVerbs ==
  outcome = "deny" /\ DenyReasons(request) = {} =>
    /\ request.role = "deployer"
    /\ OpaAction(request) \notin ReadOnlyActions \cup WriteActions \cup DeleteActions

(* What the scorer counts against a write and the policy passes over: a    *)
(* hostPath, which has no rule; a name that the policy does not recognise  *)
(* for the blanks around it; an image or a replica count that only the     *)
(* settings object to.                                                     *)
OverlookedPoints(r) ==
  PointsIf("hostPath" \in r.params.flags, 2)
  + PointsIf("namespace" \in r.padded /\ r.namespace \in PrivilegedNamespaces, 2)
  + PointsIf("resource" \in r.padded /\ r.resource \in SensitiveResources, 1)
  + PointsIf(ImageIsUntrusted(r) /\ ~ImageViolates(r), 1)
  + PointsIf(ReplicasExceed(r) /\ ~ReplicasViolate(r), 1)

(* A request waits for a human only where scorer and policy disagree: it   *)
(* takes three points for what the policy passes over.  Everything else    *)
(* that scores high is denied outright.                                    *)
PendingNeedsDisagreement ==
  outcome = "pending-approval" => OverlookedPoints(request) >= 3

(* With the same settings on both sides, what the scorer counts against a  *)
(* write's image (unless it is null) or replica count, the policy denies.  *)
ScoredPayloadIsDenied ==
  /\ outcome # "none" /\ request.action \in WriteActions
  /\ \/ ImageIsUntrusted(request) /\ request.params.image # "null"
     \/ ReplicasExceed(request)
  => outcome = "deny"

(* Reading is never held back: payload fields do not count for a verb that *)
(* changes nothing, whatever the namespace and the resource.               *)
ReadsAreNeverHigh ==
  request.action \in ReadOnlyActions /\ risk # Unscored => risk.level # "high"

(* A more dangerous payload never fares better: one more host-level field  *)
(* lowers neither the score nor turns a denial into an allowance.          *)
WithFlag(r, f) == [r EXCEPT !.params.flags = @ \cup {f}]
DangerIsMonotone ==
  \A f \in Flags :
    /\ Score(request) <= Score(WithFlag(request, f))
    /\ Allow(WithFlag(request, f)) => Allow(request)
    /\ f \notin request.params.flags /\ request.action \in WriteVerbs =>
         Score(request) < Score(WithFlag(request, f))

-----------------------------------------------------------------------------
(* What the repository says and the code does not do                       *)

(* app/config.py, lines 41-43: an image that does not match a trusted      *)
(* prefix adds to the risk score and triggers an OPA deny_reason.          *)
UntrustedImageIsDenied ==
  /\ outcome # "none" /\ request.action \in WriteActions
  /\ request.params.image \in ImageNames \ TrustedImagePrefixes
  => "image" \in DenyReasons(request)
=============================================================================

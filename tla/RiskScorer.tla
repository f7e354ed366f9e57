----------------------------- MODULE RiskScorer -----------------------------
(***************************************************************************)
(* The rule-based risk scorer, app/risk/scorer.py, as operators on a       *)
(* request of ActionRequest.  Only the score and the level are kept; the   *)
(* reasons are wording.                                                    *)
(***************************************************************************)
EXTENDS ActionRequest, FiniteSets

CONSTANTS TrustedImagePrefixes,   \* settings.trusted_image_prefixes
          MaxReplicasThreshold    \* settings.max_replicas_threshold

ASSUME SettingsAssumption ==
  TrustedImagePrefixes \subseteq ImageNames /\ MaxReplicasThreshold \in Nat

HighRiskNamespaces == {"kube-system", "kube-public", "kube-node-lease"}

SensitiveKinds ==
  {"secret", "secrets", "role", "roles", "rolebinding", "rolebindings",
   "clusterrole", "clusterroles", "clusterrolebinding", "clusterrolebindings",
   "serviceaccount", "serviceaccounts"}

WriteVerbs == {"create", "update", "patch", "apply", "replace"}

(* ACTION_WEIGHTS.get(action, 1): an unknown verb weighs like a write.     *)
ActionPoints(r) ==
  IF r.action \in {"get", "list", "watch"} THEN 0
  ELSE IF r.action \in {"delete", "replace", "exec"} THEN 2 ELSE 1

NamespacePoints(r) == IF r.namespace \in HighRiskNamespaces THEN 2 ELSE 0

ResourcePoints(r) == IF r.resource \in SensitiveKinds THEN 1 ELSE 0

PointsIf(p, n) == IF p THEN n ELSE 0

(* Mutant of FlagPoints: the loop stops at the first dangerous field.      *)
FlagPointsFirst(r) ==
  LET f == r.params.flags IN
  IF "privileged" \in f THEN 3
  ELSE IF f # {} THEN 2 ELSE 0

(* PRIVILEGED_FIELDS: privileged weighs 3, every other host-level field 2. *)
FlagPoints(r) ==
  LET f == r.params.flags IN
    PointsIf("privileged" \in f, 3) + PointsIf("hostNetwork" \in f, 2)
    + PointsIf("hostPID" \in f, 2) + PointsIf("hostIPC" \in f, 2)
    + PointsIf("hostPath" \in f, 2)

(* str(params.get("image", "")): a missing image is the empty string, a    *)
(* null one the text "None", any other value its textual form; only the    *)
(* empty string is passed over.                                            *)
ImageIsUntrusted(r) ==
  r.params.image \notin TrustedImagePrefixes \cup {"absent", "empty"}

(* int(params.get("replicas", 1)): truncates a fraction, reads a numeral,  *)
(* counts false and true as 0 and 1 and falls back to 1 on anything else.  *)
ReplicaCount(r) ==
  IF r.params.replicas.kind \in {"number", "fraction", "text", "boolean"}
  THEN r.params.replicas.count ELSE 1

(* Mutant of ReplicasExceed: the threshold itself is already too many.     *)
ReplicasExceedAtLimit(r) == ReplicaCount(r) >= MaxReplicasThreshold

ReplicasExceed(r) == ReplicaCount(r) > MaxReplicasThreshold

(* _score_params, applied to the write verbs only.                         *)
PayloadPoints(r) ==
  IF r.action \in WriteVerbs
  THEN FlagPoints(r) + PointsIf(ImageIsUntrusted(r), 1)
       + PointsIf(ReplicasExceed(r), 1)
  ELSE 0

Score(r) ==
  ActionPoints(r) + NamespacePoints(r) + ResourcePoints(r) + PayloadPoints(r)

(* Mutant of Band: 3 points are already high.                              *)
BandLower(total) ==
  IF total <= 1 THEN "low" ELSE IF total <= 2 THEN "medium" ELSE "high"

(* Mutant of Band: a fourth band that no other component knows.            *)
BandCritical(total) ==
  IF total <= 1 THEN "low" ELSE IF total <= 3 THEN "medium"
  ELSE IF total <= 6 THEN "high" ELSE "critical"

Band(total) ==
  IF total <= 1 THEN "low" ELSE IF total <= 3 THEN "medium" ELSE "high"

Level(r) == Band(Score(r))
=============================================================================

------------------------- MODULE EnforcementProofs -------------------------
(***************************************************************************)
(* Theorems about the scorer and the policy for every set of roles, verbs, *)
(* resources, namespaces, images and replica counts and for all settings.  *)
(***************************************************************************)
EXTENDS Enforcement, TLAPS

(* The allow rules and the deny rules do not overlap.                      *)
LEMMA AllowExcludesReasons ==
  ASSUME NEW r \in ActionRequests, Allow(r)
  PROVE  DenyReasons(r) = {}
  <1>1. CASE r.role \in {"readonly", "deployer"} /\ OpaAction(r) \in ReadOnlyActions
    <2>1. PayloadViolations(r) = {}
      BY <1>1 DEF PayloadViolations, ReadOnlyActions, WriteActions
    <2> QED
      BY <1>1, <2>1 DEF DenyReasons, ReadOnlyActions, WriteActions, DeleteActions
  <1>2. CASE /\ r.role = "deployer" /\ OpaAction(r) \in WriteActions
             /\ OpaNamespace(r) \notin PrivilegedNamespaces
             /\ OpaResource(r) \notin SensitiveResources
             /\ PayloadViolations(r) = {}
    BY <1>2 DEF DenyReasons, WriteActions, DeleteActions
  <1> QED
    BY <1>1, <1>2 DEF Allow

(* Together they cover everything but a deployer's unknown verb.           *)
LEMMA ReasonsCoverKnownVerbs ==
  ASSUME NEW r \in ActionRequests, ~Allow(r), DenyReasons(r) = {}
  PROVE  /\ r.role = "deployer"
         /\ OpaAction(r) \notin ReadOnlyActions \cup WriteActions \cup DeleteActions
  <1>1. r.role \in {"readonly", "deployer"}
    BY DEF DenyReasons
  <1>2. OpaAction(r) \notin DeleteActions
    BY DEF DenyReasons
  <1>3. OpaAction(r) \notin ReadOnlyActions
    BY <1>1 DEF Allow
  <1>4. r.role = "deployer"
    BY <1>1, <1>3 DEF DenyReasons
  <1>5. OpaAction(r) \notin WriteActions
    <2> SUFFICES ASSUME OpaAction(r) \in WriteActions
                 PROVE  FALSE
      OBVIOUS
    <2>1. OpaNamespace(r) \notin PrivilegedNamespaces
      BY DEF DenyReasons
    <2>2. OpaResource(r) \notin SensitiveResources
      BY <1>4 DEF DenyReasons
    <2>3. PayloadViolations(r) = {}
      BY DEF DenyReasons
    <2> QED
      BY <1>4, <2>1, <2>2, <2>3 DEF Allow
  <1> QED
    BY <1>2, <1>3, <1>4, <1>5

(* A verb that only reads scores at most 3.                                *)
LEMMA ReadScore ==
  ASSUME NEW r \in ActionRequests, r.action \in ReadOnlyActions
  PROVE  Score(r) \in 0..3
  <1>1. ActionPoints(r) = 0 /\ PayloadPoints(r) = 0
    BY DEF ReadOnlyActions, ActionPoints, PayloadPoints, WriteVerbs
  <1>2. NamespacePoints(r) \in 0..2 /\ ResourcePoints(r) \in 0..1
    BY DEF NamespacePoints, ResourcePoints
  <1> QED
    BY <1>1, <1>2 DEF Score

(* A verb in one of the policy's lists came without blanks.                *)
LEMMA ListedVerb ==
  ASSUME NEW r, OpaAction(r) \in ReadOnlyActions \cup WriteActions
  PROVE  OpaAction(r) = r.action
  BY DEF OpaAction, Unlisted, ReadOnlyActions, WriteActions

(* What an allowed write scores: the verb, and what the policy passes      *)
(* over.                                                                   *)
LEMMA AllowedWriteScore ==
  ASSUME NEW r \in ActionRequests, Allow(r), r.action \notin ReadOnlyActions
  PROVE  /\ r.action \in WriteActions
         /\ Score(r) = 1 + OverlookedPoints(r)
  <1>1. /\ r.action \in WriteActions /\ OpaAction(r) = r.action
        /\ OpaNamespace(r) \notin PrivilegedNamespaces
        /\ OpaResource(r) \notin SensitiveResources
        /\ PayloadViolations(r) = {}
    BY ListedVerb DEF Allow
  <1>2. /\ r.params.flags \cap ForbiddenFlags = {}
        /\ ~ImageViolates(r) /\ ~ReplicasViolate(r)
    BY <1>1 DEF PayloadViolations
  <1>3. FlagPoints(r) = PointsIf("hostPath" \in r.params.flags, 2)
    BY <1>2 DEF FlagPoints, PointsIf, ForbiddenFlags
  <1>4. ActionPoints(r) = 1
    BY <1>1 DEF ActionPoints, WriteActions
  <1>5. NamespacePoints(r)
          = PointsIf("namespace" \in r.padded /\ r.namespace \in PrivilegedNamespaces, 2)
    BY <1>1 DEF NamespacePoints, OpaNamespace, HighRiskNamespaces,
       PrivilegedNamespaces, PointsIf
  <1>6. ResourcePoints(r)
          = PointsIf("resource" \in r.padded /\ r.resource \in SensitiveResources, 1)
    BY <1>1 DEF ResourcePoints, OpaResource, SensitiveKinds, SensitiveResources,
       PointsIf
  <1>7. PayloadPoints(r) = FlagPoints(r) + PointsIf(ImageIsUntrusted(r), 1)
                             + PointsIf(ReplicasExceed(r), 1)
    BY <1>1 DEF PayloadPoints, WriteVerbs, WriteActions
  <1> QED
    BY <1>1, <1>2, <1>3, <1>4, <1>5, <1>6, <1>7 DEF Score, OverlookedPoints, PointsIf

(* What is allowed and scores high has three points that the policy passes *)
(* over.                                                                   *)
LEMMA HighAndAllowed ==
  ASSUME NEW r \in ActionRequests, Allow(r), Level(r) = "high"
  PROVE  OverlookedPoints(r) >= 3
  <1>1. ~(Score(r) <= 3)
    BY DEF Level, Band
  <1>2. r.action \notin ReadOnlyActions
    BY <1>1, ReadScore
  <1>3. Score(r) = 1 + OverlookedPoints(r)
    BY <1>2, AllowedWriteScore
  <1>4. OverlookedPoints(r) \in Nat
    BY DEF OverlookedPoints, PointsIf
  <1> QED
    BY <1>1, <1>3, <1>4

-----------------------------------------------------------------------------
(* The state of an evaluation is a function of its request.                *)
Verdict(r) == IF ~Allow(r) THEN "deny"
              ELSE IF Level(r) = "high" THEN "pending-approval" ELSE "execute"

Inv ==
  /\ request \in ActionRequests
  /\ risk \in {Unscored, [score |-> Score(request), level |-> Level(request)]}
  /\ outcome \in {"none", Verdict(request)}
  /\ outcome # "none" => risk # Unscored

LEMMA LevelIsKnown == \A r : Level(r) \in {"low", "medium", "high"}
  BY DEF Level, Band

LEMMA InvHolds == Spec => []Inv
  <1>1. Init => Inv
    BY DEF Init, Inv
  <1>2. Inv /\ [Next]_vars => Inv'
    <2> SUFFICES ASSUME Inv, [Next]_vars
                 PROVE  Inv'
      OBVIOUS
    <2>1. CASE ScoreRequest
      <3>1. [score |-> Score(request), level |-> Level(request)] # Unscored
        BY LevelIsKnown DEF Unscored
      <3> QED
        BY <2>1, <3>1 DEF Inv, ScoreRequest
    <2>2. CASE Decide
      <3>1. risk = [score |-> Score(request), level |-> Level(request)]
        BY <2>2 DEF Inv, Decide
      <3> QED
        BY <2>2, <3>1 DEF Inv, Decide, Verdict
    <2>3. CASE UNCHANGED vars
      BY <2>3 DEF Inv, vars
    <2> QED
      BY <2>1, <2>2, <2>3 DEF Next
  <1> QED
    BY <1>1, <1>2, PTL DEF Spec

(* The policy never allows what it has a reason to deny.                   *)
THEOREM NoReasonAgainstAllowed == Spec => []AllowedHasNoDenyReason
  <1>1. Inv => AllowedHasNoDenyReason
    BY AllowExcludesReasons DEF Inv, Verdict, AllowedHasNoDenyReason
  <1> QED
    BY <1>1, InvHolds, PTL

(* Only a deployer's verb that the policy does not know is denied without  *)
(* a reason.                                                               *)
THEOREM DenialsAreExplained == Spec => []DefaultDenyIsForUnknownVerbs
  <1>1. Inv => DefaultDenyIsForUnknownVerbs
    BY ReasonsCoverKnownVerbs DEF Inv, Verdict, DefaultDenyIsForUnknownVerbs
  <1> QED
    BY <1>1, InvHolds, PTL

(* The approval queue is reached only where scorer and policy disagree,    *)
(* whatever the settings.                                                  *)
THEOREM QueueNeedsDisagreement == Spec => []PendingNeedsDisagreement
  <1>1. Inv => PendingNeedsDisagreement
    BY HighAndAllowed DEF Inv, Verdict, PendingNeedsDisagreement
  <1> QED
    BY <1>1, InvHolds, PTL

(* Reading never needs a human.                                            *)
THEOREM ReadsStayBelowHigh == Spec => []ReadsAreNeverHigh
  <1>1. Inv => ReadsAreNeverHigh
    <2> SUFFICES ASSUME Inv, request.action \in ReadOnlyActions, risk # Unscored
                 PROVE  risk.level # "high"
      BY DEF ReadsAreNeverHigh
    <2>1. risk.level = Level(request) /\ request \in ActionRequests
      BY DEF Inv
    <2>2. Score(request) <= 3
      BY <2>1, ReadScore
    <2> QED
      BY <2>1, <2>2 DEF Level, Band
  <1> QED
    BY <1>1, InvHolds, PTL

LEMMA CountsAreNatural ==
  ASSUME NEW v \in ReplicaValues
  PROVE  v.count \in Nat
  <1>1. CASE v \in [kind : {"number", "fraction", "text"}, count : Counts]
    BY <1>1, CountsAssumption
  <1>2. CASE v \notin [kind : {"number", "fraction", "text"}, count : Counts]
    <2>1. v.count = 0 \/ v.count = 1
      BY <1>2 DEF ReplicaValues
    <2> QED
      BY <2>1
  <1> QED
    BY <1>1, <1>2

(* When the scorer trusts every image and replica count the policy trusts, *)
(* nothing it counts against an image or a replica count is allowed.       *)
THEOREM SyncedSettingsAgree ==
  ASSUME PolicyTrustedPrefixes \cap ImageNames \subseteq TrustedImagePrefixes,
         MaxReplicasThreshold >= PolicyMaxReplicas
  PROVE  Spec => []ScoredPayloadIsDenied
  <1>1. ASSUME NEW r \in ActionRequests, r.action \in WriteActions,
               \/ ImageIsUntrusted(r) /\ r.params.image # "null"
               \/ ReplicasExceed(r)
        PROVE  ~Allow(r)
    <2>1. r.params \in Params
      BY DEF ActionRequests
    <2>2. ASSUME ImageIsUntrusted(r), r.params.image # "null"
          PROVE  ImageViolates(r)
      <3>1. r.params.image \in Images
        BY <2>1 DEF Params
      <3> QED
        BY <2>2, <3>1 DEF ImageIsUntrusted, ImageViolates, Images,
           PolicyTrustedPrefixes
    <2>3. ASSUME ReplicasExceed(r)
          PROVE  ReplicasViolate(r)
      <3>1. PICK v \in ReplicaValues : v = r.params.replicas
        BY <2>1 DEF Params
      <3>2. ReplicaCount(r) > 10
        <4>1. ReplicaCount(r) \in Nat
          BY <3>1, CountsAreNatural DEF ReplicaCount
        <4> QED
          BY <2>3, <4>1, SettingsAssumption DEF ReplicasExceed, PolicyMaxReplicas
      <3>3. v.kind \in {"number", "fraction", "text"} /\ v.count > 10
        <4>1. v.kind = "boolean" => v.count = 0 \/ v.count = 1
          BY DEF ReplicaValues
        <4> QED
          BY <3>1, <3>2, <4>1 DEF ReplicaCount
      <3>4. v.count \in Nat
        BY CountsAreNatural
      <3>5. v.count > PolicyMaxReplicas /\ v.count >= PolicyMaxReplicas
        BY <3>3, <3>4 DEF PolicyMaxReplicas
      <3> QED
        BY <3>1, <3>3, <3>5, Zenon DEF ReplicasViolate
    <2>4. OpaAction(r) = r.action => PayloadViolations(r) # {}
      BY <1>1, <2>2, <2>3 DEF PayloadViolations
    <2> QED
      BY <1>1, <2>4, ListedVerb DEF Allow, ReadOnlyActions, WriteActions
  <1>2. Inv => ScoredPayloadIsDenied
    BY <1>1 DEF Inv, Verdict, ScoredPayloadIsDenied
  <1> QED
    BY <1>2, InvHolds, PTL

(* A host-level field adds to the score of a write and nothing to that of  *)
(* any other verb.                                                         *)
LEMMA FlagScore ==
  ASSUME NEW r \in ActionRequests, NEW f \in Flags
  PROVE  /\ Score(r) <= Score(WithFlag(r, f))
         /\ f \notin r.params.flags /\ r.action \in WriteVerbs =>
              Score(r) < Score(WithFlag(r, f))
  <1> DEFINE w == WithFlag(r, f)
  <1>1. /\ w.role = r.role /\ w.action = r.action /\ w.resource = r.resource
        /\ w.namespace = r.namespace /\ w.padded = r.padded
        /\ w.params.flags = r.params.flags \cup {f}
        /\ w.params.image = r.params.image /\ w.params.replicas = r.params.replicas
    BY DEF WithFlag, ActionRequests, Params
  <1>2. /\ ActionPoints(w) = ActionPoints(r) /\ ActionPoints(r) \in Nat
        /\ NamespacePoints(w) = NamespacePoints(r) /\ NamespacePoints(r) \in Nat
        /\ ResourcePoints(w) = ResourcePoints(r) /\ ResourcePoints(r) \in Nat
    BY <1>1 DEF ActionPoints, NamespacePoints, ResourcePoints
  <1>3. /\ ImageIsUntrusted(w) = ImageIsUntrusted(r)
        /\ ReplicasExceed(w) = ReplicasExceed(r)
    BY <1>1 DEF ImageIsUntrusted, ReplicasExceed, ReplicaCount
  <1>4. /\ FlagPoints(r) \in Nat /\ FlagPoints(w) \in Nat
        /\ FlagPoints(r) <= FlagPoints(w)
        /\ f \notin r.params.flags => FlagPoints(r) < FlagPoints(w)
    BY <1>1 DEF FlagPoints, PointsIf, Flags
  <1>5. /\ PayloadPoints(r) \in Nat /\ PayloadPoints(w) \in Nat
        /\ PayloadPoints(r) <= PayloadPoints(w)
        /\ f \notin r.params.flags /\ r.action \in WriteVerbs =>
             PayloadPoints(r) < PayloadPoints(w)
    BY <1>1, <1>3, <1>4 DEF PayloadPoints, PointsIf
  <1> HIDE DEF w
  <1>6. /\ Score(r) <= Score(w)
        /\ f \notin r.params.flags /\ r.action \in WriteVerbs => Score(r) < Score(w)
    BY <1>2, <1>5 DEF Score
  <1> QED
    BY <1>6 DEF w

(* A request that is allowed with one more host-level field is allowed     *)
(* without it.                                                             *)
LEMMA FlagAllow ==
  ASSUME NEW r \in ActionRequests, NEW f \in Flags, Allow(WithFlag(r, f))
  PROVE  Allow(r)
  <1> DEFINE w == WithFlag(r, f)
  <1>1. /\ w.role = r.role /\ w.action = r.action /\ w.resource = r.resource
        /\ w.namespace = r.namespace /\ w.padded = r.padded
        /\ r.params.flags \subseteq w.params.flags
        /\ w.params.image = r.params.image /\ w.params.replicas = r.params.replicas
    BY DEF WithFlag, ActionRequests, Params
  <1> HIDE DEF w
  <1>2. /\ OpaAction(w) = OpaAction(r) /\ OpaResource(w) = OpaResource(r)
        /\ OpaNamespace(w) = OpaNamespace(r)
    BY <1>1 DEF OpaAction, OpaResource, OpaNamespace
  <1>3. PayloadViolations(r) \subseteq PayloadViolations(w)
    BY <1>1, <1>2 DEF PayloadViolations, ImageViolates, ReplicasViolate
  <1>4. Allow(w)
    BY DEF w
  <1> QED
    BY <1>1, <1>2, <1>3, <1>4 DEF Allow

(* More danger never fares better.                                         *)
THEOREM MoreDangerIsNeverBetter == Spec => []DangerIsMonotone
  <1>1. Inv => DangerIsMonotone
    BY FlagScore, FlagAllow DEF Inv, DangerIsMonotone
  <1> QED
    BY <1>1, InvHolds, PTL

LEMMA ScoreIsBounded ==
  ASSUME NEW r \in ActionRequests
  PROVE  Score(r) \in 0..18
  <1>1. /\ ActionPoints(r) \in 0..2 /\ NamespacePoints(r) \in 0..2
        /\ ResourcePoints(r) \in 0..1
    BY DEF ActionPoints, NamespacePoints, ResourcePoints
  <1>2. FlagPoints(r) \in 0..11
    BY DEF FlagPoints, PointsIf
  <1>3. PayloadPoints(r) \in 0..13
    BY <1>2 DEF PayloadPoints, PointsIf
  <1> QED
    BY <1>1, <1>3 DEF Score

(* The score stays within 0..18 and its level is one of the three bands,   *)
(* whatever the tables are asked about and the settings say.               *)
THEOREM ScoresAreBounded == Spec => []TypeOK
  <1>1. Inv => TypeOK
    <2> SUFFICES ASSUME Inv
                 PROVE  TypeOK
      OBVIOUS
    <2>1. request \in ActionRequests
      BY DEF Inv
    <2>2. [score |-> Score(request), level |-> Level(request)]
            \in [score : 0..18, level : {"low", "medium", "high"}]
      BY <2>1, ScoreIsBounded, LevelIsKnown
    <2>3. Verdict(request) \in {"deny", "pending-approval", "execute"}
      BY DEF Verdict
    <2> QED
      BY <2>1, <2>2, <2>3 DEF Inv, TypeOK
  <1> QED
    BY <1>1, InvHolds, PTL
=============================================================================

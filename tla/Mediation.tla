----------------------------- MODULE Mediation -----------------------------
(***************************************************************************)
(* The whole path of an action: GatewayClient, the gateway's replicas, and *)
(* in them the scorer and the policy on the body the client posted.        *)
(*                                                                         *)
(* Gateway leaves the level and the verdict of a request open.  Here both  *)
(* are computed from the body and the role of the token, as compute_risk   *)
(* and the sidecar do.  The client posts the same payload with the same    *)
(* token again when it retries, perhaps to another replica.  All replicas  *)
(* run with the same settings and the same policy.                         *)
(***************************************************************************)
EXTENDS AgentClient, RiskScorer, Policy

CONSTANT Bodies   \* what agents post, with the roles of their tokens

ASSUME BodiesAssumption == Bodies \subseteq ActionRequests

VARIABLE payload  \* the payload and the role of the token of each ask

mediationVars == << allVars, payload >>

(* Both attempts of an ask carry the payload built by action().            *)
Body(r) == payload[r[1]]

(* The verdict the sidecar computes from opa_input; risk_level, which is   *)
(* in it, has no rule in the policy.                                       *)
Verdict(b) == IF Allow(b) THEN "allow" ELSE "deny"

MediationInit == ClientInit /\ payload \in [Asks -> Bodies]

-----------------------------------------------------------------------------
(* Mutant of ScoredByRules: an error of the scorer is caught and the       *)
(* request goes on as low-risk.                                            *)
ScoredOrLow(r) ==
  phase[r] = "new" /\ phase'[r] = "opa" => level'[r] \in {Level(Body(r)), "low"}

(* Stage 2: rs = compute_risk(body.action, ..., body.params).  What the    *)
(* scorer cannot score remains ScoringFails.                               *)
ScoredByRules(r) ==
  phase[r] = "new" /\ phase'[r] = "opa" => level'[r] = Level(Body(r))

(* Stage 3: the sidecar's result, if it reaches the gateway as JSON.       *)
JudgedByPolicy(r) == opa'[r] # opa[r] => opa'[r] \in {Verdict(Body(r)), "garbled"}

MediationNext ==
  /\ ClientNext
  /\ \A r \in Requests : ScoredByRules(r) /\ JudgedByPolicy(r)
  /\ UNCHANGED payload

MediationSpec == MediationInit /\ [][MediationNext]_mediationVars

-----------------------------------------------------------------------------
(* Properties                                                              *)

Permitted(b) == Allow(b) /\ DenyReasons(b) = {}

(* The cluster carries out only what the policy permits on the body that   *)
(* was posted, and what scores high only with a human's approval.  Neither *)
(* the approval, which does not ask OPA again, nor a retry, nor a sidecar  *)
(* that is silent, late or garbled makes a denied body pass.               *)
AppliedIsPermitted ==
  \A r \in Requests : effects[r] > 0 =>
    /\ Permitted(Body(r))
    /\ Level(Body(r)) = "high" => ruling[r] = "approved"

(* A retry is no second chance.  When the policy denied one attempt of an  *)
(* ask, neither is carried out or held, even if the first was cut off;     *)
(* when one attempt was answered "pending-approval", no attempt was sent   *)
(* to the cluster but by a human's approval of that very attempt.          *)
RetryIsNoSecondChance ==
  \A a \in Asks : \A i, j \in {1, 2} :
    LET r == << a, i >>  s == << a, j >> IN
    /\ opa[r] = "deny" => effects[s] = 0 /\ ~Held(s)
    /\ reply[r].decision = "pending-approval" /\ wire[s] # "none" =>
         ruling[s] = "approved"

(* Whoever replays the log through the scorer and the policy agrees with   *)
(* it: every record that is no denial is of a permitted body, and it says  *)
(* "allow" exactly if that body needed no human.                           *)
LogSurvivesReview ==
  \A n \in Replicas, r \in Requests : \A i \in DOMAIN audit[n][r] :
    audit[n][r][i] # "deny" =>
      /\ Permitted(Body(r))
      /\ audit[n][r][i] = "allow" <=> Level(Body(r)) # "high"
=============================================================================

--------------------------- MODULE EndToEndProofs ---------------------------
(***************************************************************************)
(* Theorems about the whole path of an action, for any number of asks,     *)
(* replicas and bodies, any settings of the scorer, any Deployments of     *)
(* other people and any behaviour of network, proxy, sidecars, API server, *)
(* operators and processes.                                                *)
(*                                                                         *)
(* MediationSpec only restricts the choices of ClientSpec, so the theorems *)
(* about GatewayClient and the gateway hold here as well; what is new      *)
(* rests on one invariant, Judged: level and verdict belong to the body.   *)
(* From it follows that the cluster sees a behavior of K8sClient, so that  *)
(* the theorems about that module hold of the whole path, too.             *)
(***************************************************************************)
EXTENDS EndToEnd, AgentClientProofs, GatewayRefinement

(* Whatever ClientSpec guarantees holds on the whole path, too.            *)
LEMMA MediationIsClient == MediationSpec => ClientSpec
<1>1. MediationInit => ClientInit BY DEF MediationInit
<1>2. [MediationNext]_mediationVars => [ClientNext]_allVars
  BY DEF MediationNext, mediationVars
<1> QED BY <1>1, <1>2, PTL DEF MediationSpec, ClientSpec

(* The allow rules and the deny rules of the policy do not overlap.        *)
LEMMA AllowedIsPermitted ==
  ASSUME NEW b, Allow(b) PROVE Permitted(b)
<1>1. CASE b.role \in {"readonly", "deployer"} /\ OpaAction(b) \in ReadOnlyActions
  <2>1. PayloadViolations(b) = {}
    BY <1>1 DEF PayloadViolations, ReadOnlyActions, WriteActions
  <2> QED BY <1>1, <2>1
    DEF Permitted, DenyReasons, ReadOnlyActions, WriteActions, DeleteActions
<1>2. CASE /\ b.role = "deployer" /\ OpaAction(b) \in WriteActions
           /\ OpaNamespace(b) \notin PrivilegedNamespaces
           /\ OpaResource(b) \notin SensitiveResources
           /\ PayloadViolations(b) = {}
  BY <1>2 DEF Permitted, DenyReasons, WriteActions, DeleteActions
<1> QED BY <1>1, <1>2 DEF Allow

-----------------------------------------------------------------------------
(* Level and verdict belong to the body                                    *)

(* compute_risk has been called on the request, whatever happens to it     *)
(* afterwards.                                                             *)
Scored(r) ==
  phase[r] \in {"opa", "exec", "lost"} \/ opa[r] # "none" \/ reply[r].status = 403

(* What a step of the gateway does to the stage of a request: it sends its *)
(* query, with a level, or it leaves its level as it is.                   *)
Submitted(q) == phase[q] = "new" /\ phase'[q] = "opa" /\ opa'[q] = opa[q]
Restaged(q) == level'[q] = level[q] /\ (Scored(q)' <=> Scored(q))

(* OPA has an opinion only of what was scored.                             *)
Quiet(q) == opa'[q] = opa[q] \/ (opa[q] = "none" /\ Scored(q))

LEMMA NewIsUnscored ==
  ASSUME Inductive, Unasked, NEW q \in Requests, phase[q] = "new"
  PROVE  ~Scored(q)
BY DEF Inductive, RequestOK, Unasked, Scored, NoAnswer

LEMMA AgentStage ==
  ASSUME TypeOK, Inductive, Unasked, NEW r \in Requests,
         AgentHandler(r) \/ OpaDecides(r), NEW q \in Requests
  PROVE  (Submitted(q) \/ Restaged(q)) /\ Quiet(q)
<1>1. CASE Submit(r)
  <2>1. /\ phase' = [phase EXCEPT ![r] = "opa"] /\ phase[r] = "new"
        /\ UNCHANGED << opa, reply >>
        /\ \E l \in Levels : level' = [level EXCEPT ![r] = l]
    BY <1>1 DEF Submit
  <2>2. CASE q = r BY <2>1, <2>2 DEF Submitted, Quiet, TypeOK
  <2>3. CASE q # r BY <2>1, <2>3 DEF Restaged, Scored, Quiet, TypeOK
  <2> QED BY <2>2, <2>3
<1>2. CASE OpaDecides(r)
  <2>1. /\ UNCHANGED << level, phase, reply >> /\ Scored(r) /\ opa[r] = "none"
        /\ \E v \in {"allow", "deny", "garbled"} : opa' = [opa EXCEPT ![r] = v]
    BY <1>2 DEF OpaDecides, requestVars, Scored
  <2>2. opa'[q] = opa[q] \/ (q = r /\ opa'[q] # "none") BY <2>1 DEF TypeOK
  <2> QED BY <2>1, <2>2 DEF Restaged, Scored, Quiet
<1>3. CASE Unauthorized(r) \/ ScoringFails(r)
  <2>1. PICK s \in {401, 500} : Respond(r, s, "none")
    BY <1>3 DEF Unauthorized, ScoringFails
  <2>2. UNCHANGED << level, opa >> /\ phase[r] = "new"
    BY <1>3 DEF Unauthorized, ScoringFails, requestVars
  <2>3. ~Scored(r) BY <2>2, NewIsUnscored
  <2>4. q = r => phase'[q] = "done" /\ reply'[q].status \in {401, 500}
    BY <2>1 DEF Respond, Http, TypeOK
  <2>5. q # r => phase'[q] = phase[q] /\ reply'[q] = reply[q]
    BY <2>1 DEF Respond, TypeOK
  <2> QED BY <2>2, <2>3, <2>4, <2>5 DEF Restaged, Scored, Quiet
<1>4. CASE OpaDenied(r) \/ OpaFailed(r) \/ OpaGarbled(r) \/ QueueForHuman(r)
  <2>1. PICK s, d : /\ Respond(r, s, d) /\ (s = 403 \/ opa[r] # "none")
                    /\ UNCHANGED << level, opa >> /\ phase[r] = "opa"
    BY <1>4 DEF OpaDenied, OpaFailed, Denies, OpaGarbled, QueueForHuman, Allowed,
       Resumes, requestVars
  <2>2. q = r => Scored(q) /\ Scored(q)'
    BY <2>1 DEF Respond, Http, Scored, TypeOK
  <2>3. q # r => phase'[q] = phase[q] /\ reply'[q] = reply[q]
    BY <2>1 DEF Respond, TypeOK
  <2> QED BY <2>1, <2>2, <2>3 DEF Restaged, Scored, Quiet
<1>5. CASE BeginDirect(r)
  <2>1. /\ phase' = [phase EXCEPT ![r] = "exec"] /\ phase[r] = "opa"
        /\ UNCHANGED << level, opa, reply >>
    BY <1>5 DEF BeginDirect, Resumes, requestVars
  <2> QED BY <2>1 DEF Restaged, Scored, Quiet, TypeOK
<1> QED BY <1>1, <1>2, <1>3, <1>4, <1>5 DEF AgentHandler

(* The end of a call, of a handler's or an approver's, is that of a        *)
(* request OPA allowed.                                                    *)
LEMMA FinishStage ==
  ASSUME TypeOK, Inductive, NEW n \in Replicas, call[n] # Idle, NEW s, NEW d,
         Finish(n, s, d), NEW q \in Requests
  PROVE  Restaged(q) /\ Quiet(q)
<1>1. PICK r \in Requests : r = call[n].id BY CallHasId
<1>2. opa[r] = "allow" /\ UNCHANGED << level, opa >>
  BY <1>1 DEF Inductive, CallOK, Finish, requestVars
<1>3. q # r => phase'[q] = phase[q] /\ reply'[q] = reply[q]
  BY <1>1 DEF Finish, Respond, TypeOK
<1>4. q = r => Scored(q) /\ Scored(q)' BY <1>2 DEF Scored
<1> QED BY <1>2, <1>3, <1>4 DEF Restaged, Scored, Quiet

LEMMA StageStep ==
  ASSUME TypeOK, Inductive, Unasked, [Next]_vars, NEW q \in Requests
  PROVE  (Submitted(q) \/ Restaged(q)) /\ Quiet(q)
<1>1. CASE UNCHANGED << level, phase, opa, reply >>
  BY <1>1 DEF Restaged, Scored, Quiet
<1>2. CASE UNCHANGED vars BY <1>1, <1>2 DEF vars
<1>3. ASSUME NEW r \in Requests, AgentHandler(r) \/ OpaDecides(r)
      PROVE  (Submitted(q) \/ Restaged(q)) /\ Quiet(q)
  BY <1>3, AgentStage
<1>4. ASSUME NEW n \in Replicas, NEW r \in Requests, ApproveHandler(n, r)
      PROVE  UNCHANGED << level, phase, opa, reply >>
  BY <1>4 DEF ApproveHandler, ApproveUnauthorized, ApproveUnknown, Approve, Reject,
     requestVars
<1>5. ASSUME NEW n \in Replicas, CallReturns(n) PROVE Restaged(q) /\ Quiet(q)
  <2>1. call[n] # Idle /\ \E s, d : Finish(n, s, d)
    BY <1>5 DEF CallReturns, ReturnDone, ReturnSimulated, ReturnK8sError, ReturnUncaught
  <2> QED BY <2>1, FinishStage
<1>6. ASSUME \/ \E n \in Replicas : Send(n) \/ Restart(n)
             \/ \E r \in Requests : ApiApplies(r) \/ ApiRefuses(r)
      PROVE  UNCHANGED << level, phase, opa, reply >>
  BY <1>6 DEF Send, Restart, ApiApplies, ApiRefuses, requestVars
<1>7. ASSUME NEW n \in Replicas, Dies(n) PROVE Restaged(q) /\ Quiet(q)
  <2>1. UNCHANGED << level, opa >> BY <1>7 DEF Dies, requestVars
  <2>2. \/ phase'[q] = phase[q] /\ reply'[q] = reply[q]
        \/ phase[q] \in {"opa", "exec"} /\ phase'[q] = "lost"
    BY <1>7 DEF Dies
  <2> QED BY <2>1, <2>2 DEF Restaged, Scored, Quiet
<1>8. ASSUME NEW n \in Replicas, Crash(n) \/ DeletePod(n) PROVE Dies(n)
  BY <1>8 DEF Crash, DeletePod
<1> QED BY <1>1, <1>2, <1>3, <1>4, <1>5, <1>6, <1>7, <1>8 DEF Next

(* The verdict is that of the policy on the body, and once the request is  *)
(* scored its level is that of the scorer.                                 *)
Judged(r) ==
  /\ opa[r] \in {"none", "garbled", Verdict(Body(r))}
  /\ Scored(r) => level[r] = Level(Body(r))

(* A record that is no denial was written about a request OPA allowed, and *)
(* its decision agrees with its level.                                     *)
RecordsOK(r) ==
  \A n \in Replicas : \A i \in DOMAIN audit[n][r] :
    audit[n][r][i] # "deny" =>
      opa[r] = "allow" /\ (audit[n][r][i] = "allow" <=> level[r] # "high")

MediationOK ==
  /\ payload \in [Asks -> Bodies] /\ Unasked
  /\ \A r \in Requests : Judged(r) /\ RecordsOK(r)

LEMMA InitMediationOK == MediationInit => MediationOK
BY DEF MediationInit, ClientInit, Init, MediationOK, Unasked, Judged, Scored, RecordsOK,
   NoAnswer

LEMMA StepJudged ==
  ASSUME TypeOK, Inductive, Unasked, [Next]_vars, NEW q \in Requests, Judged(q),
         ScoredByRules(q), JudgedByPolicy(q), UNCHANGED payload
  PROVE  Judged(q)'
<1>1. Body(q)' = Body(q) BY DEF Body
<1>2. opa'[q] \in {"none", "garbled", Verdict(Body(q))} BY DEF Judged, JudgedByPolicy
<1>3. Scored(q)' => level'[q] = Level(Body(q))
  <2>1. CASE Submitted(q) BY <2>1 DEF Submitted, ScoredByRules
  <2>2. CASE Restaged(q) BY <2>2 DEF Restaged, Judged
  <2> QED BY <2>1, <2>2, StageStep
<1>4. Verdict(Body(q))' = Verdict(Body(q)) /\ Level(Body(q))' = Level(Body(q))
  BY <1>1 DEF Verdict, Level
<1> QED BY <1>2, <1>3, <1>4 DEF Judged

LEMMA StepRecordsOK ==
  ASSUME TypeOK, Inductive, Unasked, [Next]_vars, NEW q \in Requests, RecordsOK(q)
  PROVE  RecordsOK(q)'
<1>1. OneRequest(q) BY StepOfOne
<1>2. opa[q] = "allow" => opa'[q] = "allow" /\ level'[q] = level[q]
  <2>1. ASSUME opa[q] = "allow" PROVE ~Submitted(q)
    BY <2>1 DEF Submitted, Unasked
  <2>2. (Submitted(q) \/ Restaged(q)) /\ Quiet(q) BY StageStep
  <2> QED BY <2>1, <2>2 DEF Restaged, Quiet
<1> SUFFICES ASSUME NEW n \in Replicas, NEW i \in DOMAIN audit'[n][q],
                    audit'[n][q][i] # "deny"
             PROVE  /\ opa'[q] = "allow"
                    /\ audit'[n][q][i] = "allow" <=> level'[q] # "high"
  BY DEF RecordsOK
<1> DEFINE t == audit[n][q]
<1>3. t \in Seq(Decisions) BY DEF TypeOK
<1>4. CASE i \in DOMAIN t /\ audit'[n][q][i] = t[i]
  BY <1>2, <1>4 DEF RecordsOK
<1>5. CASE audit'[n][q] = << >> BY <1>5
<1>6. ASSUME NEW d \in Decisions, Writes(q, d), audit'[n][q][i] = d
      PROVE  /\ opa'[q] = "allow"
             /\ audit'[n][q][i] = "allow" <=> level'[q] # "high"
  BY <1>2, <1>6 DEF Writes
<1>7. CASE \E d \in Decisions : Writes(q, d)
  <2>1. PICK d \in Decisions : Writes(q, d) BY <1>7
  <2>2. audit'[n][q] = t \/ audit'[n][q] = Append(t, d) BY <2>1 DEF Writes, LogsRecord
  <2>3. \/ i \in DOMAIN t /\ audit'[n][q][i] = t[i]
        \/ audit'[n][q][i] = d
    BY <1>3, <2>2
  <2> QED BY <1>4, <1>6, <2>1, <2>3
<1>8. CASE \E m \in Replicas : LogLost(q, m) BY <1>4, <1>5, <1>8 DEF LogLost
<1> QED BY <1>1, <1>4, <1>7, <1>8 DEF OneRequest, Unlogged

(* What holds at every moment of the whole path.                           *)
PathOK == GatewayOK /\ MediationOK

(* A step of the path is one of the gateway or a stutter of it, scored and *)
(* judged by the rules.                                                    *)
LEMMA MediationSteps ==
  ASSUME [MediationNext]_mediationVars
  PROVE  /\ [Next]_vars /\ UNCHANGED payload
         /\ \A r \in Requests : ScoredByRules(r) /\ JudgedByPolicy(r)
<1>1. [Next]_vars /\ UNCHANGED payload
  BY DEF MediationNext, mediationVars, ClientNext, allVars, Post, Receive, Unavailable,
     Unreachable, Deliver, GatewayStep
<1>2. ASSUME NEW r \in Requests PROVE ScoredByRules(r) /\ JudgedByPolicy(r)
  BY DEF MediationNext, mediationVars, allVars, vars, ScoredByRules, JudgedByPolicy
<1> QED BY <1>1, <1>2

LEMMA StepMediationOK ==
  GatewayOK /\ MediationOK /\ [MediationNext]_mediationVars => MediationOK'
<1> SUFFICES ASSUME GatewayOK, MediationOK, [MediationNext]_mediationVars
             PROVE  MediationOK'
  OBVIOUS
<1>1. TypeOK /\ Inductive /\ Unasked BY DEF GatewayOK, MediationOK
<1>2. Unasked' BY <1>1, MediationSteps, UnaskedStep
<1>3. ASSUME NEW r \in Requests PROVE Judged(r)' /\ RecordsOK(r)'
  BY <1>1, MediationSteps, StepJudged, StepRecordsOK DEF MediationOK
<1> QED BY MediationSteps, <1>2, <1>3 DEF MediationOK

LEMMA PathAlwaysOK == MediationSpec => []PathOK
BY MediationIsClient, GatewayKeeps, InitMediationOK, StepMediationOK, PTL
DEF MediationSpec, PathOK

-----------------------------------------------------------------------------
(* The properties                                                          *)

(* What OPA allowed is permitted, and its level is that of its body.       *)
LEMMA AllowedIsJudged ==
  ASSUME PathOK, NEW r \in Requests, opa[r] = "allow"
  PROVE  Permitted(Body(r)) /\ level[r] = Level(Body(r))
<1>1. Judged(r) BY DEF PathOK, MediationOK
<1>2. Verdict(Body(r)) = "allow" /\ level[r] = Level(Body(r))
  BY <1>1 DEF Judged, Scored
<1> QED BY <1>2, AllowedIsPermitted DEF Verdict

(* Only what the policy permits on the posted body reaches the cluster,    *)
(* and what scores high only by a human's approval.                        *)
THEOREM MediationIsComplete == MediationSpec => []AppliedIsPermitted
<1>1. PathOK => AppliedIsPermitted
  <2> SUFFICES ASSUME PathOK, NEW r \in Requests, effects[r] > 0
               PROVE  /\ Permitted(Body(r))
                      /\ Level(Body(r)) = "high" => ruling[r] = "approved"
    BY DEF AppliedIsPermitted
  <2>1. RequestOK(r) BY DEF PathOK, GatewayOK, Inductive
  <2>2. Cleared(r) BY <2>1 DEF RequestOK
  <2> QED BY <2>2, AllowedIsJudged DEF Cleared
<1> QED BY <1>1, PathAlwaysOK, PTL

(* A retry is no second chance: neither for what the policy denied nor for *)
(* what waits for a human.                                                 *)
THEOREM RetriesChangeNothing == MediationSpec => []RetryIsNoSecondChance
<1>1. PathOK => RetryIsNoSecondChance
  <2> SUFFICES ASSUME PathOK, NEW a \in Asks, NEW i \in {1, 2}, NEW j \in {1, 2}
               PROVE  LET r == << a, i >>  s == << a, j >> IN
                      /\ opa[r] = "deny" => effects[s] = 0 /\ ~Held(s)
                      /\ reply[r].decision = "pending-approval" /\ wire[s] # "none" =>
                           ruling[s] = "approved"
    BY DEF RetryIsNoSecondChance
  <2> DEFINE r == << a, i >>
             s == << a, j >>
  <2>1. r \in Requests /\ s \in Requests BY AttemptsAreRequests
  <2>2. Body(r) = Body(s) BY DEF Body
  <2>3. Judged(r) /\ Judged(s) /\ RequestOK(s) /\ AnswerTrue(r)
    BY <2>1 DEF PathOK, MediationOK, GatewayOK, Inductive
  <2>4. \A n \in Replicas : HeldOK(n, s) BY <2>1 DEF PathOK, GatewayOK, Inductive
  <2> HIDE DEF r, s
  <2>5. ASSUME opa[r] = "deny" PROVE effects[s] = 0 /\ ~Held(s)
    <3>1. opa[s] # "allow" BY <2>2, <2>3, <2>5 DEF Judged, Verdict
    <3> QED BY <2>3, <2>4, <3>1 DEF RequestOK, Cleared, HeldOK, Held
  <2>6. ASSUME reply[r].decision = "pending-approval", wire[s] # "none"
        PROVE  ruling[s] = "approved"
    <3>1. opa[r] = "allow" /\ level[r] = "high" BY <2>3, <2>6 DEF AnswerTrue
    <3>2. Level(Body(s)) = "high" BY <2>1, <2>2, <3>1, AllowedIsJudged
    <3>3. Cleared(s) BY <2>3, <2>6 DEF RequestOK
    <3> QED BY <2>1, <3>2, <3>3, AllowedIsJudged DEF Cleared
  <2> QED BY <2>5, <2>6 DEF r, s
<1> QED BY <1>1, PathAlwaysOK, PTL

(* The log agrees with anyone who replays it through scorer and policy.    *)
THEOREM LogIsReproducible == MediationSpec => []LogSurvivesReview
<1>1. PathOK => LogSurvivesReview
  <2> SUFFICES ASSUME PathOK, NEW n \in Replicas, NEW r \in Requests,
                      NEW i \in DOMAIN audit[n][r], audit[n][r][i] # "deny"
               PROVE  /\ Permitted(Body(r))
                      /\ audit[n][r][i] = "allow" <=> Level(Body(r)) # "high"
    BY DEF LogSurvivesReview
  <2>1. opa[r] = "allow" /\ (audit[n][r][i] = "allow" <=> level[r] # "high")
    BY DEF PathOK, MediationOK, RecordsOK
  <2> QED BY <2>1, AllowedIsJudged
<1> QED BY <1>1, PathAlwaysOK, PTL

-----------------------------------------------------------------------------
(* The cluster behind the gateway                                          *)

(* Every step of EndToEnd is one of Mediation or of other people.          *)
LEMMA EndToEndIsMediation == EndToEndSpec => MediationSpec
<1>1. EndToEndInit => MediationInit BY DEF EndToEndInit
<1>2. [EndToEndNext]_endVars => [MediationNext]_mediationVars
  BY DEF EndToEndNext, endVars
<1> QED BY <1>1, <1>2, PTL DEF EndToEndSpec, MediationSpec

LEMMA EndToEndPathOK == EndToEndSpec => []PathOK
BY EndToEndIsMediation, PathAlwaysOK, PTL

(* Each ask is posted with parameters that belong to its body.             *)
ArgsOK == \A r \in Requests : Body(r) \in Bodies /\ Call(r) \in K8s!CallsFor(Body(r))

LEMMA InitArgsOK == EndToEndInit => ArgsOK
<1> SUFFICES ASSUME EndToEndInit, NEW r \in Requests
             PROVE  Body(r) \in Bodies /\ Call(r) \in K8s!CallsFor(Body(r))
  BY DEF ArgsOK
<1>1. r[1] \in Asks BY AttemptsAssumption
<1>2. PICK b \in Bodies : Call(r) \in K8s!CallsFor(b)
  BY <1>1, PostsAssumption DEF EndToEndInit, Call
<1>3. Call(r).request = Body(r) BY <1>1 DEF EndToEndInit, Call, Body
<1>4. Call(r).request = b BY <1>2 DEF K8s!CallsFor
<1> QED BY <1>2, <1>3, <1>4

LEMMA StepArgsOK == ArgsOK /\ [EndToEndNext]_endVars => ArgsOK'
<1> SUFFICES ASSUME ArgsOK, [EndToEndNext]_endVars PROVE ArgsOK'
  OBVIOUS
<1>1. UNCHANGED << args, payload >>
  BY DEF EndToEndNext, endVars, MediationNext, mediationVars
<1> QED BY <1>1 DEF ArgsOK, Body, Call, K8s!CallsFor

(* What is on the wire or in a call was allowed, and approved if high.     *)
LEMMA SentIsJustified ==
  ASSUME PathOK, NEW r \in Requests, wire[r] # "none" PROVE Justified(r)
<1>1. Cleared(r) BY DEF PathOK, GatewayOK, Inductive, RequestOK
<1> QED BY <1>1, AllowedIsJudged DEF Cleared, Permitted, Justified

LEMMA CalledIsJustified ==
  ASSUME PathOK, NEW n \in Replicas, call[n] # Idle
  PROVE  call[n].id \in Requests /\ Justified(call[n].id)
<1>1. TypeOK /\ Inductive BY DEF PathOK, GatewayOK
<1>2. PICK r \in Requests : r = call[n].id BY <1>1, CallHasId
<1>3. CallOK(n) /\ RequestOK(r) BY <1>1 DEF Inductive
<1>4. opa[r] = "allow" /\ (level[r] = "high" => ruling[r] = "approved")
  BY <1>2, <1>3 DEF CallOK
<1> QED BY <1>2, <1>4, AllowedIsJudged DEF Permitted, Justified

LEMMA StepIsGuarded == ASSUME PathOK, [EndToEndNext]_endVars PROVE Guarded
<1>1. CASE UNCHANGED endVars \/ Unnoticed
  BY <1>1 DEF endVars, Unnoticed, Guarded
<1>2. ASSUME NEW r \in Requests, ClusterAnswers(r) PROVE Guarded
  <2>1. K8s!ExecuteAction(Call(r)) BY <1>2 DEF ClusterAnswers, K8s!ExecuteAction
  <2>2. Justified(r) BY <1>2, SentIsJustified DEF ClusterAnswers
  <2> QED BY <2>1, <2>2 DEF Guarded
<1>3. ASSUME NEW n \in Replicas, BuildingFails(n) PROVE Guarded
  <2>1. call[n] # Idle /\ K8s!ExecuteAction(Call(call[n].id))
    BY <1>3 DEF BuildingFails, FailsUnsent, K8s!ExecuteAction
  <2> QED BY <2>1, CalledIsJustified DEF Guarded
<1>4. CASE \E n \in Names : K8s!OperatorWrites(n) \/ K8s!OperatorDeletes(n)
  BY <1>4 DEF Guarded
<1> QED BY <1>1, <1>2, <1>3, <1>4 DEF EndToEndNext

(* Only permitted, and where needed approved, requests are executed.       *)
THEOREM ClusterAlwaysGuarded == EndToEndSpec => ClusterIsGuarded
<1>1. EndToEndInit => K8s!Init BY DEF EndToEndInit
<1>2. PathOK /\ [EndToEndNext]_endVars => Guarded BY StepIsGuarded
<1> QED BY <1>1, <1>2, EndToEndPathOK, PTL
  DEF EndToEndSpec, ClusterIsGuarded

-----------------------------------------------------------------------------
(* What K8sClientProofs says of the Deployments                            *)

Cluster == INSTANCE K8sClientProofs WITH
  Requests <- Bodies, store <- deployments, reply <- last

(* The assumptions of K8sClient hold of the instance.                      *)
LEMMA ClusterAssumptions ==
  /\ Bodies \subseteq Cluster!ActionRequests
  /\ \A r, s \in Bodies : r.namespace = s.namespace
  /\ Cluster!DefaultName \in Names
  /\ Names \cap {"absent", "null", "empty", "not a string"} = {}
  /\ Cluster!DefaultPort \in Ports /\ Ports \cap {"absent", "null", "text"} = {}
  /\ Cluster!DefaultImage \in ImageNames
  /\ Foreign \subseteq {d \in Cluster!Deployments : d.hands = "operator"}
<1>1. Cluster!ActionRequests = ActionRequests
  BY DEF Cluster!ActionRequests, ActionRequests, Cluster!Params, Params, Cluster!Flags,
     Flags, Cluster!Images, Images, Cluster!ReplicaValues, ReplicaValues
<1>2. Cluster!Deployments = K8s!Deployments
  BY DEF Cluster!Deployments, K8s!Deployments, Cluster!Containers, K8s!Containers
<1> QED
  BY <1>1, <1>2, BodiesAssumption, OneNamespaceAssumption, ClusterAssumption
  DEF Cluster!DefaultName, K8s!DefaultName, Cluster!DefaultPort, K8s!DefaultPort,
      Cluster!DefaultImage, K8s!DefaultImage

(* EndToEnd's instance of K8sClient and that inside Cluster are one.       *)
LEMMA SamePolicy == ASSUME NEW b PROVE Cluster!Allow(b) <=> Allow(b)
<1>0. /\ Cluster!OpaAction(b) = OpaAction(b) /\ Cluster!OpaResource(b) = OpaResource(b)
      /\ Cluster!OpaNamespace(b) = OpaNamespace(b)
  BY DEF Cluster!OpaAction, OpaAction, Cluster!OpaResource, OpaResource,
     Cluster!OpaNamespace, OpaNamespace, Cluster!Unlisted, Unlisted
<1>1. Cluster!PayloadViolations(b) = PayloadViolations(b)
  BY <1>0 DEF Cluster!PayloadViolations, PayloadViolations, Cluster!ImageViolates, ImageViolates,
     Cluster!PolicyTrustedPrefixes, PolicyTrustedPrefixes, Cluster!ReplicasViolate,
     ReplicasViolate, Cluster!PolicyMaxReplicas, PolicyMaxReplicas, Cluster!WriteActions,
     WriteActions, Cluster!ForbiddenFlags, ForbiddenFlags
<1> QED BY <1>0, <1>1 DEF Cluster!Allow, Allow, Cluster!ReadOnlyActions, ReadOnlyActions,
     Cluster!WriteActions, WriteActions, Cluster!PrivilegedNamespaces,
     PrivilegedNamespaces, Cluster!SensitiveResources, SensitiveResources

LEMMA SameParameters ==
  ASSUME NEW c
  PROVE  /\ Cluster!ObjectName(c) = K8s!ObjectName(c) /\ Cluster!Port(c) = K8s!Port(c)
         /\ Cluster!Image(c) = K8s!Image(c) /\ Cluster!ReplicaCount(c) = K8s!ReplicaCount(c)
         /\ Cluster!Raised(c) = K8s!Raised(c) /\ (Cluster!LacksName(c) <=> K8s!LacksName(c))
         /\ Cluster!Typed(c) <=> K8s!Typed(c)
BY DEF Cluster!ObjectName, K8s!ObjectName, Cluster!Port, K8s!Port, Cluster!Image,
   K8s!Image, Cluster!ReplicaCount, K8s!ReplicaCount, Cluster!Raised, K8s!Raised,
   Cluster!LacksName, K8s!LacksName, Cluster!Typed, K8s!Typed,
   Cluster!DefaultName, K8s!DefaultName, Cluster!DefaultPort, K8s!DefaultPort,
   Cluster!DefaultImage, K8s!DefaultImage

LEMMA SameTable ==
  /\ \A r : Cluster!ApiVerbs(r) = K8s!ApiVerbs(r) /\ Cluster!Kind(r) = K8s!Kind(r)
  /\ Cluster!Granted = K8s!Granted
BY DEF Cluster!ApiVerbs, K8s!ApiVerbs, Cluster!Kind, K8s!Kind, Cluster!DispatchTable,
   K8s!DispatchTable, Cluster!Granted, K8s!Granted

LEMMA SameObjects ==
  ASSUME NEW c
  PROVE  /\ Cluster!Built(c) = K8s!Built(c)
         /\ \A d : Cluster!Patched(d, c) = K8s!Patched(d, c)
         /\ \A n, d : Cluster!Put(n, d) <=> K8s!Put(n, d)
         /\ Cluster!Named(c) = K8s!Named(c)
         /\ \A d, e : Cluster!Changed(d, e) = K8s!Changed(d, e)
BY SameParameters DEF Cluster!Built, K8s!Built, Cluster!Patched, K8s!Patched, Cluster!Put,
   K8s!Put, Cluster!Named, K8s!Named, Cluster!Changed, K8s!Changed,
   Cluster!PatchedLimits, K8s!PatchedLimits

LEMMA SameRefusals ==
  ASSUME NEW c, NEW v PROVE Cluster!Refusals(c, v) = K8s!Refusals(c, v)
<1>1. /\ Cluster!Granted = K8s!Granted
      /\ Cluster!Kind(c.request.resource) = K8s!Kind(c.request.resource)
  BY SameTable
<1>2. Cluster!ObjectName(c) = K8s!ObjectName(c) /\ Cluster!Image(c) = K8s!Image(c)
  BY SameParameters
<1>3. {x \in {"invalid"} :
           \/ Cluster!ObjectName(c) \in {"empty", "not a string"}
           \/ Cluster!Image(c) \notin ImageNames \/ c.limits # "quantities"}
      = {x \in {"invalid"} :
           \/ K8s!ObjectName(c) \in {"empty", "not a string"}
           \/ K8s!Image(c) \notin ImageNames \/ c.limits # "quantities"}
  BY <1>2
<1>4. {x \in {"exists"} : Cluster!ObjectName(c) \in DOMAIN deployments}
      = {x \in {"exists"} : K8s!ObjectName(c) \in DOMAIN deployments}
  BY <1>2
<1>5. {x \in {"invalid"} : v = "patch" /\
             \/ deployments[Cluster!ObjectName(c)].selector = "other" \/ c.limits = "bad"
             \/ Cluster!Image(c) \notin ImageNames \cup {"null"}
             \/ Cluster!Image(c) = "null" /\ deployments[Cluster!ObjectName(c)].own = {}}
      = {x \in {"invalid"} : v = "patch" /\
             \/ deployments[K8s!ObjectName(c)].selector = "other" \/ c.limits = "bad"
             \/ K8s!Image(c) \notin ImageNames \cup {"null"}
             \/ K8s!Image(c) = "null" /\ deployments[K8s!ObjectName(c)].own = {}}
  BY <1>2
<1> QED BY <1>1, <1>2, <1>3, <1>4, <1>5 DEF Cluster!Refusals, K8s!Refusals

LEMMA SameSent == ASSUME NEW c, NEW v PROVE Cluster!Sent(c, v) <=> K8s!Sent(c, v)
BY SameParameters, SameTable DEF Cluster!Sent, K8s!Sent

LEMMA SameAccepted ==
  ASSUME NEW c, NEW v PROVE Cluster!Accepted(c, v) <=> K8s!Accepted(c, v)
BY SameSent, SameRefusals DEF Cluster!Accepted, K8s!Accepted

LEMMA SameAnswers ==
  ASSUME NEW c, NEW s, NEW x
  PROVE  /\ Cluster!Answer(c, s, x) = K8s!Answer(c, s, x)
         /\ Cluster!Fail(c, s, x) <=> K8s!Fail(c, s, x)
         /\ Cluster!Success(c) = K8s!Success(c)
<1>1. Cluster!Typed(c) = K8s!Typed(c)
  BY DEF Cluster!Typed, K8s!Typed
<1>2. \A t, y : Cluster!Answer(c, t, y) = K8s!Answer(c, t, y)
  BY <1>1 DEF Cluster!Answer, K8s!Answer
<1> QED
  BY <1>2 DEF Cluster!Fail, K8s!Fail, Cluster!Success, K8s!Success

LEMMA SameFailures ==
  ASSUME NEW c
  PROVE  /\ Cluster!Unsupported(c) <=> K8s!Unsupported(c)
         /\ Cluster!Nameless(c) <=> K8s!Nameless(c)
         /\ Cluster!BadNumber(c) <=> K8s!BadNumber(c)
         /\ Cluster!ApiError(c) <=> K8s!ApiError(c)
         /\ Cluster!NoPod(c) <=> K8s!NoPod(c)
<1>1. \A s, x : Cluster!Fail(c, s, x) <=> K8s!Fail(c, s, x) BY SameAnswers
<1>2. /\ Cluster!ApiVerbs(c.request) = K8s!ApiVerbs(c.request)
      /\ Cluster!Kind(c.request.resource) = K8s!Kind(c.request.resource)
  BY SameTable
<1>3. Cluster!LacksName(c) <=> K8s!LacksName(c) BY SameParameters
<1>4. Cluster!Raised(c) = K8s!Raised(c) BY SameParameters
<1>5. Cluster!Unsupported(c) <=> K8s!Unsupported(c)
  BY <1>1, <1>2 DEF Cluster!Unsupported, K8s!Unsupported
<1>6. Cluster!Nameless(c) <=> K8s!Nameless(c)
  BY <1>1, <1>2, <1>3 DEF Cluster!Nameless, K8s!Nameless
<1>7. Cluster!BadNumber(c) <=> K8s!BadNumber(c)
  BY <1>1, <1>2, <1>3, <1>4 DEF Cluster!BadNumber, K8s!BadNumber
<1>8. Cluster!ApiError(c) <=> K8s!ApiError(c)
  BY <1>1, <1>2, SameSent, SameRefusals DEF Cluster!ApiError, K8s!ApiError
<1>9. Cluster!NoPod(c) <=> K8s!NoPod(c)
  BY <1>1, <1>2, SameSent DEF Cluster!NoPod, K8s!NoPod
<1> QED BY <1>5, <1>6, <1>7, <1>8, <1>9

LEMMA SameSuccesses ==
  ASSUME NEW c
  PROVE  /\ Cluster!Reads(c) <=> K8s!Reads(c)
         /\ Cluster!Creates(c) <=> K8s!Creates(c)
         /\ Cluster!Patches(c) <=> K8s!Patches(c)
<1>1. Cluster!Success(c) = K8s!Success(c) BY SameAnswers
<1>2. Cluster!ObjectName(c) = K8s!ObjectName(c) BY SameParameters
<1>3. \A v : Cluster!Accepted(c, v) <=> K8s!Accepted(c, v) BY SameAccepted
<1>4. /\ Cluster!Built(c) = K8s!Built(c)
      /\ \A d : Cluster!Patched(d, c) = K8s!Patched(d, c)
      /\ \A n, d : Cluster!Put(n, d) <=> K8s!Put(n, d)
      /\ Cluster!Named(c) = K8s!Named(c)
      /\ \A d, e : Cluster!Changed(d, e) = K8s!Changed(d, e)
  BY SameObjects
<1>5. Cluster!Reads(c) <=> K8s!Reads(c)
  BY <1>1, <1>3 DEF Cluster!Reads, K8s!Reads
<1>6. Cluster!Creates(c) <=> K8s!Creates(c)
  BY <1>1, <1>2, <1>3, <1>4 DEF Cluster!Creates, K8s!Creates
<1>7. Cluster!Patches(c) <=> K8s!Patches(c)
  BY <1>1, <1>2, <1>3, <1>4 DEF Cluster!Patches, K8s!Patches
<1> QED BY <1>5, <1>6, <1>7

LEMMA SameExecution ==
  ASSUME NEW c PROVE Cluster!ExecuteAction(c) <=> K8s!ExecuteAction(c)
BY SameFailures, SameSuccesses DEF Cluster!ExecuteAction, K8s!ExecuteAction

LEMMA SameOperators ==
  ASSUME NEW n \in Names, K8s!OperatorWrites(n) \/ K8s!OperatorDeletes(n)
  PROVE  Cluster!OperatorWrites(n) \/ Cluster!OperatorDeletes(n)
BY DEF Cluster!OperatorWrites, K8s!OperatorWrites, Cluster!OperatorDeletes,
   K8s!OperatorDeletes, Cluster!Put, K8s!Put, Cluster!NoReply, K8s!NoReply

(* The gateway is the environment that K8sClient takes for granted.        *)
LEMMA ClusterIsK8sClient == EndToEndSpec => Cluster!Spec
<1>1. EndToEndInit => Cluster!Init
  BY DEF EndToEndInit, K8s!Init, Cluster!Init, K8s!NoReply, Cluster!NoReply
<1>2. ASSUME PathOK, ArgsOK, [EndToEndNext]_endVars PROVE [Cluster!Next]_(Cluster!vars)
  <2>1. Guarded BY <1>2, StepIsGuarded
  <2>2. ASSUME NEW r \in Requests, Justified(r), K8s!ExecuteAction(Call(r))
        PROVE  Cluster!Next
    <3>1. Body(r) \in Bodies /\ Call(r) \in K8s!CallsFor(Body(r)) BY <1>2 DEF ArgsOK
    <3>2. Call(r) \in Cluster!CallsFor(Body(r))
      BY <3>1 DEF Cluster!CallsFor, K8s!CallsFor
    <3>3. Cluster!Allow(Body(r)) BY <2>2, SamePolicy DEF Justified
    <3>4. Cluster!ExecuteAction(Call(r)) BY <2>2, SameExecution
    <3> QED BY <3>1, <3>2, <3>3, <3>4 DEF Cluster!Next
  <2>3. ASSUME NEW n \in Names, K8s!OperatorWrites(n) \/ K8s!OperatorDeletes(n)
        PROVE  Cluster!Next
    BY <2>3, SameOperators DEF Cluster!Next
  <2>4. CASE UNCHANGED clusterState BY <2>4 DEF clusterState, Cluster!vars
  <2> QED BY <2>1, <2>2, <2>3, <2>4 DEF Guarded
<1> QED BY <1>1, <1>2, EndToEndPathOK, InitArgsOK, StepArgsOK, PTL
  DEF EndToEndSpec, Cluster!Spec

(* So what the policy promises holds in the cluster behind the whole path: *)
(* the ClusterRole suffices, limits and registries are kept to, and what   *)
(* only the gateway wrote passes Gatekeeper.                               *)
THEOREM BoundsHoldEndToEnd ==
  EndToEndSpec => [](/\ K8s!TypeOK /\ K8s!NeverForbidden
                     /\ K8s!WritesStayInBounds /\ K8s!OwnWorkIsAdmitted)
<1>1. Cluster!Spec => [](Cluster!TypeOK)
  BY Cluster!TypeCorrect, ClusterAssumptions, CountsAssumption,
     ImageNamesAssumption, PaddingsAssumption
<1>2. Cluster!Spec => [](Cluster!NeverForbidden)
  BY Cluster!PermissionsSuffice, ClusterAssumptions, CountsAssumption,
     ImageNamesAssumption, PaddingsAssumption
<1>3. Cluster!Spec => [](Cluster!WritesStayInBounds)
  BY Cluster!BoundsReachTheCluster, ClusterAssumptions, CountsAssumption,
     ImageNamesAssumption, PaddingsAssumption
<1>4. Cluster!TypeOK => K8s!TypeOK
  BY DEF Cluster!TypeOK, K8s!TypeOK, Cluster!Deployments, K8s!Deployments,
     Cluster!Containers, K8s!Containers, Cluster!Replies, K8s!Replies
<1>5. Cluster!NeverForbidden => K8s!NeverForbidden
  BY DEF Cluster!NeverForbidden, K8s!NeverForbidden
<1>6. Cluster!WritesStayInBounds => K8s!WritesStayInBounds
  BY DEF Cluster!WritesStayInBounds, K8s!WritesStayInBounds,
     Cluster!PolicyMaxReplicas, K8s!PolicyMaxReplicas,
     Cluster!PolicyTrustedPrefixes, K8s!PolicyTrustedPrefixes
<1>7. Cluster!Spec => [](Cluster!OwnWorkIsAdmitted)
  BY Cluster!OwnWorkRuns, ClusterAssumptions, CountsAssumption,
     ImageNamesAssumption, PaddingsAssumption
<1>8. Cluster!OwnWorkIsAdmitted => K8s!OwnWorkIsAdmitted
  <2>1. \A d : Cluster!Admitted(d) <=> K8s!Admitted(d)
    BY DEF Cluster!Admitted, K8s!Admitted, Cluster!NoPrivileged, K8s!NoPrivileged,
       Cluster!TrustedImages, K8s!TrustedImages, Cluster!RequireLimits, K8s!RequireLimits,
       Cluster!AllowedRepos, K8s!AllowedRepos
  <2>2. \A d : (Cluster!Lifted(d) /\ Cluster!NoPrivileged(d) /\ Cluster!TrustedImages(d))
               <=> (K8s!Lifted(d) /\ K8s!NoPrivileged(d) /\ K8s!TrustedImages(d))
    BY DEF Cluster!Lifted, K8s!Lifted, Cluster!NoPrivileged, K8s!NoPrivileged,
       Cluster!TrustedImages, K8s!TrustedImages, Cluster!AllowedRepos, K8s!AllowedRepos
  <2> QED BY <2>1, <2>2 DEF Cluster!OwnWorkIsAdmitted, K8s!OwnWorkIsAdmitted
<1> QED BY <1>1, <1>2, <1>3, <1>4, <1>5, <1>6, <1>7, <1>8, ClusterIsK8sClient, PTL

-----------------------------------------------------------------------------
(* A retry that is carried out                                             *)

(* A patch sent once more changes nothing: what it sets is set, and the    *)
(* ports it merges in are in.                                              *)
LEMMA PatchedTwice ==
  ASSUME NEW c, NEW d \in K8s!Deployments
  PROVE  K8s!Patched(K8s!Patched(d, c), c) = K8s!Patched(d, c)
<1> DEFINE e == K8s!Patched(d, c)
           images(x) == IF K8s!Image(c) = "null" THEN {o.image : o \in x.own}
                        ELSE {K8s!Image(c)}
           ports(x) == {K8s!Port(c)} \cup UNION {o.ports : o \in x.own}
           own(x) == [image : images(x), confined : {TRUE},
                      limits : {K8s!PatchedLimits(c)}, ports : {ports(x)}]
           hands(x) == IF x.hands = "gateway" THEN x.hands ELSE "both"
<1>1. \A x : K8s!Patched(x, c) =
        [x EXCEPT !.replicas = K8s!ReplicaCount(c), !.own = own(x), !.hands = hands(x)]
  BY DEF K8s!Patched
<1>2. /\ e.replicas = K8s!ReplicaCount(c) /\ e.own = own(d) /\ e.hands = hands(d)
      /\ e = [e EXCEPT !.replicas = e.replicas, !.own = e.own, !.hands = e.hands]
  <2> DEFINE x == K8s!ReplicaCount(c)
             y == own(d)
             z == hands(d)
  <2>1. e = [d EXCEPT !.replicas = x, !.own = y, !.hands = z] BY <1>1
  <2> HIDE DEF x, y, z, e
  <2>2. e.replicas = x /\ e.own = y /\ e.hands = z BY <2>1 DEF K8s!Deployments
  <2>3. e = [e EXCEPT !.replicas = e.replicas, !.own = e.own, !.hands = e.hands]
    BY <2>1, <2>2 DEF K8s!Deployments
  <2> QED BY <2>2, <2>3 DEF x, y, z
<1>3. hands(e) = e.hands BY <1>2
<1>4. own(e) = e.own
  <2>1. CASE images(d) = {}
    <3>1. own(d) = {} BY <2>1
    <3>2. images(e) = {} BY <1>2, <2>1, <3>1
    <3> QED BY <1>2, <3>1, <3>2
  <2>2. CASE images(d) # {}
    <3> DEFINE of(i) == [image |-> i, confined |-> TRUE,
                         limits |-> K8s!PatchedLimits(c), ports |-> ports(d)]
    <3>1. \A i \in images(d) : of(i) \in own(d) OBVIOUS
    <3>2. \A o \in own(d) : o.image \in images(d) /\ o.ports = ports(d) OBVIOUS
    <3>3. images(e) = images(d)
      <4> HIDE DEF own, e
      <4>1. {o.image : o \in e.own} = images(d) BY <1>2, <3>1, <3>2
      <4> QED BY <4>1
    <3>4. UNION {o.ports : o \in own(d)} = ports(d)
      <4> HIDE DEF own, ports, images
      <4> QED BY <2>2, <3>1, <3>2
    <3>5. ports(e) = ports(d) BY <1>2, <3>4
    <3> QED BY <1>2, <3>3, <3>5
  <2> QED BY <2>1, <2>2
<1> HIDE DEF e, own, hands
<1>5. K8s!Patched(e, c) = e BY <1>1, <1>2, <1>3, <1>4
<1> QED BY <1>5 DEF e

(* A request has one branch at most, and that writes Deployments only.     *)
LEMMA OneVerb ==
  ASSUME NEW r, NEW v \in K8s!ApiVerbs(r), NEW w \in K8s!ApiVerbs(r)
  PROVE  v = w
BY DEF K8s!ApiVerbs, K8s!DispatchTable

LEMMA WritesDeployments ==
  ASSUME NEW r, NEW v \in {"create", "patch"}, v \in K8s!ApiVerbs(r)
  PROVE  K8s!Kind(r.resource) = "deployments"
BY DEF K8s!ApiVerbs, K8s!DispatchTable

IsStore(d) == d = [m \in DOMAIN d |-> d[m]]

(* The Deployments d are as a call c that was carried out leaves them.     *)
Fixed(c, d) ==
  LET n == K8s!ObjectName(c)
      verbs == K8s!ApiVerbs(c.request)
  IN /\ "create" \in verbs => n \in DOMAIN d
     /\ "patch" \in verbs => n \in DOMAIN d /\ K8s!Patched(d[n], c) = d[n]

CarriesOut(c) == K8s!Reads(c) \/ K8s!Creates(c) \/ K8s!Patches(c)

LEMMA PutIsStore ==
  ASSUME NEW n, NEW d, K8s!Put(n, d)
  PROVE  IsStore(deployments') /\ n \in DOMAIN deployments' /\ deployments'[n] = d
BY DEF K8s!Put, IsStore

(* So a call that is carried out leaves the Deployments fixed for it ...   *)
LEMMA CarryingOutFixes ==
  ASSUME NEW c, CarriesOut(c), IsStore(deployments), K8s!TypeOK
  PROVE  IsStore(deployments') /\ Fixed(c, deployments')
<1> DEFINE n == K8s!ObjectName(c)
           verbs == K8s!ApiVerbs(c.request)
<1>1. CASE K8s!Reads(c)
  <2>1. UNCHANGED deployments /\ ("list" \in verbs \/ "get" \in verbs)
    BY <1>1 DEF K8s!Reads, K8s!Accepted, K8s!Sent
  <2>2. "create" \notin verbs /\ "patch" \notin verbs BY <2>1, OneVerb
  <2> QED BY <2>1, <2>2 DEF Fixed, IsStore
<1>2. CASE K8s!Creates(c)
  <2>1. K8s!Put(n, K8s!Built(c)) /\ "create" \in verbs
    BY <1>2 DEF K8s!Creates, K8s!Accepted, K8s!Sent
  <2>2. "patch" \notin verbs BY <2>1, OneVerb
  <2>3. IsStore(deployments') /\ n \in DOMAIN deployments' BY <2>1, PutIsStore
  <2> QED BY <2>2, <2>3 DEF Fixed
<1>3. CASE K8s!Patches(c)
  <2>1. K8s!Put(n, K8s!Patched(deployments[n], c)) /\ "patch" \in verbs
        /\ K8s!Refusals(c, "patch") = {}
    BY <1>3 DEF K8s!Patches, K8s!Accepted, K8s!Sent
  <2>2. "create" \notin verbs BY <2>1, OneVerb
  <2>3. n \in DOMAIN deployments
    <3>1. K8s!Kind(c.request.resource) = "deployments" BY <2>1, WritesDeployments
    <3> QED BY <2>1, <3>1 DEF K8s!Refusals
  <2>4. deployments[n] \in K8s!Deployments BY <2>3 DEF K8s!TypeOK
  <2>5. /\ IsStore(deployments') /\ n \in DOMAIN deployments'
        /\ deployments'[n] = K8s!Patched(deployments[n], c)
    BY <2>1, PutIsStore
  <2>6. K8s!Patched(deployments'[n], c) = deployments'[n]
    BY <2>4, <2>5, PatchedTwice
  <2> QED BY <2>2, <2>5, <2>6 DEF Fixed
<1> QED BY <1>1, <1>2, <1>3 DEF CarriesOut

(* ... and the same call leaves them so when it is carried out again.      *)
LEMMA CarryingOutAgain ==
  ASSUME NEW c, CarriesOut(c), IsStore(deployments), Fixed(c, deployments)
  PROVE  deployments' = deployments
<1> DEFINE n == K8s!ObjectName(c)
           verbs == K8s!ApiVerbs(c.request)
<1>1. CASE K8s!Reads(c) BY <1>1 DEF K8s!Reads
<1>2. ~K8s!Creates(c)
  <2> SUFFICES ASSUME K8s!Creates(c) PROVE FALSE
    OBVIOUS
  <2>1. "create" \in verbs /\ K8s!Refusals(c, "create") = {}
    BY DEF K8s!Creates, K8s!Accepted, K8s!Sent
  <2>2. K8s!Kind(c.request.resource) = "deployments" BY <2>1, WritesDeployments
  <2>3. n \in DOMAIN deployments BY <2>1 DEF Fixed
  <2> QED BY <2>1, <2>2, <2>3 DEF K8s!Refusals
<1>3. CASE K8s!Patches(c)
  <2>1. K8s!Put(n, K8s!Patched(deployments[n], c)) /\ "patch" \in verbs
    BY <1>3 DEF K8s!Patches, K8s!Accepted, K8s!Sent
  <2>2. n \in DOMAIN deployments /\ K8s!Patched(deployments[n], c) = deployments[n]
    BY <2>1 DEF Fixed
  <2>3. deployments' = [m \in DOMAIN deployments \cup {n} |->
                          IF m = n THEN deployments[n] ELSE deployments[m]]
    BY <2>1, <2>2 DEF K8s!Put
  <2>4. deployments' = [m \in DOMAIN deployments |-> deployments[m]]
    BY <2>2, <2>3
  <2> QED BY <2>4 DEF IsStore
<1> QED BY <1>1, <1>2, <1>3 DEF CarriesOut

(* effects change when the API server carries a request out, by one.       *)
LEMMA EffectsStep ==
  ASSUME TypeOK, [Next]_vars, NEW r \in Requests, effects'[r] # effects[r]
  PROVE  /\ ApiApplies(r) /\ wire'[r] = "applied" /\ effects'[r] = effects[r] + 1
         /\ \A q \in Requests \ {r} : wire'[q] = wire[q] /\ effects'[q] = effects[q]
<1>1. effects' # effects OBVIOUS
<1>2. ASSUME NEW q \in Requests, AgentHandler(q) \/ OpaDecides(q) PROVE FALSE
  BY <1>1, <1>2 DEF AgentHandler, Unauthorized, ScoringFails, Submit, OpaDecides,
     OpaDenied, OpaFailed, Denies, OpaGarbled, QueueForHuman, BeginDirect, clusterVars
<1>3. ASSUME NEW n \in Replicas, NEW q \in Requests, ApproveHandler(n, q) PROVE FALSE
  BY <1>1, <1>3 DEF ApproveHandler, ApproveUnauthorized, ApproveUnknown, Approve,
     Reject, clusterVars
<1>4. ASSUME NEW n \in Replicas,
             Send(n) \/ CallReturns(n) \/ Crash(n) \/ Restart(n) \/ DeletePod(n)
      PROVE  FALSE
  BY <1>1, <1>4 DEF Send, CallReturns, ReturnDone, ReturnSimulated, ReturnK8sError,
     ReturnUncaught, Finish, Crash, Restart, DeletePod, Dies, clusterVars
<1>5. PICK q \in Requests : ApiApplies(q)
  BY <1>1, <1>2, <1>3, <1>4 DEF Next, vars, clusterVars, ApiRefuses
<1>6. q = r BY <1>5 DEF ApiApplies, TypeOK
<1> QED BY <1>5, <1>6 DEF ApiApplies, TypeOK

(* What is carried out is the call that the request became.                *)
LEMMA EffectsAreCarriedOut ==
  ASSUME PathOK, [EndToEndNext]_endVars, NEW r \in Requests, effects'[r] # effects[r]
  PROVE  CarriesOut(Call(r)) /\ effects'[r] = effects[r] + 1
         /\ \A q \in Requests \ {r} : effects'[q] = effects[q]
<1>1. TypeOK BY DEF PathOK, GatewayOK
<1>2. EndToEndNext /\ MediationNext
  BY DEF endVars, EndToEndNext, mediationVars, allVars, vars, clusterVars
<1>3. [Next]_vars BY <1>2, MediationSteps
<1>4. /\ ApiApplies(r) /\ wire'[r] = "applied" /\ effects'[r] = effects[r] + 1
      /\ \A q \in Requests \ {r} : wire'[q] = wire[q] /\ effects'[q] = effects[q]
  BY <1>1, <1>3, EffectsStep
<1>5. wire[r] = "sent" BY <1>4 DEF ApiApplies
<1>6. ASSUME NEW n \in Replicas, BuildingFails(n) PROVE FALSE
  <2>1. call' = call BY <1>4 DEF ApiApplies
  <2>2. call[n] # Idle /\ call'[n] = Idle
    BY <1>1, <1>6 DEF BuildingFails, FailsUnsent, Finish, TypeOK
  <2> QED BY <2>1, <2>2
<1>7. ~Unnoticed BY <1>4, <1>5 DEF Unnoticed
<1>8. PICK q \in Requests : ClusterAnswers(q)
  <2>1. ~(UNCHANGED mediationVars)
    BY DEF mediationVars, allVars, vars, clusterVars
  <2> QED BY <1>2, <1>6, <1>7, <2>1 DEF EndToEndNext
<1>9. wire'[q] # wire[q] BY <1>8 DEF ClusterAnswers
<1>10. q = r BY <1>4, <1>9
<1>11. CarriesOut(Call(r)) BY <1>4, <1>8, <1>10 DEF ClusterAnswers, CarriesOut
<1> QED BY <1>4, <1>11

(* The inductive invariant: before an ask is carried out for the first     *)
(* time there is nothing to compare with, and what is remembered after     *)
(* that is fixed for the ask's call.                                       *)
SettledOK ==
  /\ IsStore(deployments)
  /\ \A a \in Asks : /\ Carried(a) = 0 => settled[a] = {}
                     /\ \A d \in settled[a] : Fixed(args[a], d)

LEMMA InitSettledOK == EndToEndInit => SettledOK
<1>1. EndToEndInit => IsStore(deployments)
  BY DEF EndToEndInit, K8s!Init, IsStore
<1> QED BY <1>1 DEF EndToEndInit, SettledOK

LEMMA CarriedStep ==
  ASSUME PathOK, [EndToEndNext]_endVars, NEW a \in Asks, Carried(a)' # Carried(a)
  PROVE  CarriesOut(args[a]) /\ Carried(a)' # 0
<1>1. << a, 1 >> \in Requests /\ << a, 2 >> \in Requests BY AttemptsAssumption
<1>2. effects[<< a, 1 >>] \in Nat /\ effects[<< a, 2 >>] \in Nat
  BY <1>1 DEF PathOK, GatewayOK, TypeOK
<1>3. PICK i \in {1, 2} : effects'[<< a, i >>] # effects[<< a, i >>]
  BY DEF Carried
<1> DEFINE r == << a, i >>
<1>4. r \in Requests BY <1>1
<1>5. /\ CarriesOut(Call(r)) /\ effects'[r] = effects[r] + 1
      /\ \A q \in Requests \ {r} : effects'[q] = effects[q]
  BY <1>3, <1>4, EffectsAreCarriedOut
<1>6. Call(r) = args[a] BY DEF Call
<1>7. effects'[<< a, 1 >>] + effects'[<< a, 2 >>] # 0
  BY <1>1, <1>2, <1>5
<1> QED BY <1>5, <1>6, <1>7 DEF Carried

LEMMA StepSettledOK ==
  ASSUME PathOK, K8s!TypeOK, SettledOK, [EndToEndNext]_endVars PROVE SettledOK'
<1>1. IsStore(deployments')
  <2>1. Guarded BY StepIsGuarded
  <2>2. IsStore(deployments) BY DEF SettledOK
  <2>3. ASSUME NEW n, NEW d, K8s!Put(n, d) PROVE IsStore(deployments')
    BY <2>3, PutIsStore
  <2>4. ASSUME NEW n, K8s!OperatorDeletes(n) PROVE IsStore(deployments')
    BY <2>4 DEF K8s!OperatorDeletes, IsStore
  <2>5. ASSUME NEW n, K8s!OperatorWrites(n) PROVE IsStore(deployments')
    BY <2>3, <2>5 DEF K8s!OperatorWrites
  <2>6. ASSUME NEW c, K8s!ExecuteAction(c) PROVE IsStore(deployments')
    BY <2>2, <2>3, <2>6 DEF K8s!ExecuteAction, K8s!Unsupported, K8s!Nameless,
       K8s!BadNumber, K8s!ApiError, K8s!NoPod, K8s!Fail, K8s!Reads, K8s!Creates,
       K8s!Patches
  <2>7. UNCHANGED clusterState => IsStore(deployments') BY <2>2 DEF clusterState
  <2> QED BY <2>1, <2>4, <2>5, <2>6, <2>7 DEF Guarded
<1>2. ASSUME NEW a \in Asks
      PROVE  /\ Carried(a)' = 0 => settled'[a] = {}
             /\ \A d \in settled'[a] : Fixed(args'[a], d)
  <2>1. args' = args BY DEF EndToEndNext, endVars
  <2>2. CASE Carried(a) = 0 /\ Carried(a)' = 1 /\ settled'[a] = {deployments'}
    <3>1. CarriesOut(args[a]) BY <2>2, CarriedStep
    <3>2. Fixed(args[a], deployments') BY <3>1, CarryingOutFixes DEF SettledOK
    <3> QED BY <2>1, <2>2, <3>2
  <2>3. CASE settled'[a] = settled[a]
    <3>1. Carried(a)' = 0 => Carried(a) = 0 BY CarriedStep
    <3> QED BY <2>1, <2>3, <3>1 DEF SettledOK
  <2>4. \/ settled'[a] = settled[a]
        \/ Carried(a) = 0 /\ Carried(a)' = 1 /\ settled'[a] = {deployments'}
    BY DEF EndToEndNext, endVars
  <2> QED BY <2>2, <2>3, <2>4
<1> QED BY <1>1, <1>2 DEF SettledOK

(* A retry that is carried out does no more than its first attempt did.    *)
THEOREM RepeatsAreHarmless == EndToEndSpec => RepeatIsHarmless
<1> DEFINE Step == \A a \in Asks :
             Carried(a)' > Carried(a) /\ deployments \in settled[a] =>
               deployments' = deployments
<1>1. ASSUME PathOK, K8s!TypeOK, SettledOK, [EndToEndNext]_endVars PROVE Step
  <2> SUFFICES ASSUME NEW a \in Asks, Carried(a)' > Carried(a),
                      deployments \in settled[a]
               PROVE  deployments' = deployments
    OBVIOUS
  <2>1. Carried(a) \in Nat
    BY <1>1, AttemptsAssumption DEF Carried, PathOK, GatewayOK, TypeOK
  <2>2. CarriesOut(args[a]) BY <1>1, <2>1, CarriedStep
  <2>3. Fixed(args[a], deployments) /\ IsStore(deployments) BY <1>1 DEF SettledOK
  <2> QED BY <2>2, <2>3, CarryingOutAgain
<1>2. EndToEndSpec => []K8s!TypeOK BY BoundsHoldEndToEnd, PTL
<1>3. PathOK /\ K8s!TypeOK /\ SettledOK /\ [EndToEndNext]_endVars => SettledOK'
  BY StepSettledOK
<1>4. PathOK /\ K8s!TypeOK /\ SettledOK /\ [EndToEndNext]_endVars => Step BY <1>1
<1> QED BY <1>2, <1>3, <1>4, EndToEndPathOK, InitSettledOK, PTL
  DEF EndToEndSpec, RepeatIsHarmless
=============================================================================

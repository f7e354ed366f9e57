------------------------------ MODULE Gateway ------------------------------
(***************************************************************************)
(* The gateway service (app/main.py) with its approval queue               *)
(* (app/approval/queue.py) and its audit log (app/audit/logger.py), run as *)
(* several replicas in front of one Kubernetes API server, each beside its *)
(* own OPA sidecar.                                                        *)
(*                                                                         *)
(* Every route handler is an `async def` on one event loop per process.    *)
(* The only point where a handler gives the loop away is the await of the  *)
(* OPA query; the Kubernetes client is synchronous, so a replica that is   *)
(* inside execute_action runs nothing else until the call returns.  A      *)
(* handler is therefore cut into steps at exactly three places: the OPA    *)
(* await, the start of the Kubernetes call and its end.                    *)
(*                                                                         *)
(* A request is identified by the uuid the handler gives it.  Of its body  *)
(* only what decides the control flow is kept: its risk level and what the *)
(* policy says of it.                                                      *)
(***************************************************************************)
EXTENDS Naturals, Sequences, FiniteSets

CONSTANTS Requests,   \* POST /agent-action requests, by request_id
          Replicas,   \* gateway pods
          NoRequest   \* a replica with no Kubernetes call in progress

ASSUME RequestsAssumption == NoRequest \notin Requests
ASSUME ReplicasAssumption == Replicas # {}

VARIABLES
  home,    \* the replica the Service routes the request to
  phase,   \* how far the agent_action handler of the request has come
  level,   \* the risk level the scorer gave it
  opa,     \* what the OPA sidecar decided, once it has decided
  reply,   \* the answer the agent received
  queue,   \* per replica, the keys of ApprovalQueue._queue
  ruling,  \* what a human decided about the request
  answer,  \* the answer the last POST /approve/{id} for it received
  call,    \* per replica, the Kubernetes call its event loop is blocked in
  wire,    \* what became of the request at the Kubernetes API
  effects, \* how many times the API server carried the request out
  audit,   \* per replica and request, the records in its log file
  warned,  \* requests named by an [AUDIT WARNING] on stderr
  status   \* per replica, the state of its process

vars == << home, phase, level, opa, reply, queue, ruling, answer, call, wire,
           effects, audit, warned, status >>

requestVars == << home, level >>
humanVars   == << queue, ruling, answer >>
clusterVars == << call, wire, effects >>
logVars     == << audit, warned >>

Levels    == {"low", "medium", "high"}
Decisions == {"allow", "deny", "pending-approval", "human-allow", "human-deny"}
Answers   == [status : {200, 401, 403, 404, 500, 502},
              decision : Decisions \cup {"none"}]
Http(s, d) == [status |-> s, decision |-> d]
NoAnswer   == [status |-> 0, decision |-> "none"]   \* nothing received yet
Dropped    == [status |-> 0, decision |-> "lost"]   \* the connection broke

Idle == [id |-> NoRequest, by |-> "nobody", sent |-> FALSE]
Calls == {Idle} \cup
         [id : Requests, by : {"agent", "approver"}, sent : BOOLEAN]

(* The running replicas whose event loop is not inside a Kubernetes call.  *)
LoopFree(n) == status[n] = "running" /\ call[n] = Idle
Held(r)     == \E n \in Replicas : r \in queue[n]
Calling(r)  == \E n \in Replicas : call[n].id = r

Init ==
  /\ home \in [Requests -> Replicas]
  /\ phase = [r \in Requests |-> "new"]
  /\ level = [r \in Requests |-> "low"]
  /\ opa = [r \in Requests |-> "none"]
  /\ reply = [r \in Requests |-> NoAnswer]
  /\ queue = [n \in Replicas |-> {}]
  /\ ruling = [r \in Requests |-> "none"]
  /\ answer = [r \in Requests |-> NoAnswer]
  /\ call = [n \in Replicas |-> Idle]
  /\ wire = [r \in Requests |-> "none"]
  /\ effects = [r \in Requests |-> 0]
  /\ audit = [n \in Replicas |-> [r \in Requests |-> << >>]]
  /\ warned = {}
  /\ status = [n \in Replicas |-> "running"]

-----------------------------------------------------------------------------
(* Audit log and approval queue                                            *)

(* Mutant of Record: the newest record goes to the front of the file.      *)
RecordPrepends(n, r, d) ==
  \/ /\ audit' = [audit EXCEPT ![n][r] = << d >> \o @]
     /\ UNCHANGED warned
  \/ /\ warned' = warned \cup {r}
     /\ UNCHANGED audit

(* audit.log: the record is appended, or the OSError is swallowed and only *)
(* stderr tells.                                                           *)
Record(n, r, d) ==
  \/ /\ audit' = [audit EXCEPT ![n][r] = Append(@, d)]
     /\ UNCHANGED warned
  \/ /\ warned' = warned \cup {r}
     /\ UNCHANGED audit

(* Mutant of Enqueue: the queue remembers the last request only.           *)
EnqueueOverwrites(n, r) == queue' = [queue EXCEPT ![n] = {r}]

(* ApprovalQueue.enqueue: self._queue[request_id] = request                *)
Enqueue(n, r) == queue' = [queue EXCEPT ![n] = @ \cup {r}]

(* Mutant of Resolve: the entry is read (peek) and stays in the queue.     *)
ResolvePeeks(n, r) == queue' = queue

(* ApprovalQueue.resolve: self._queue.pop(request_id, None)                *)
Resolve(n, r) == queue' = [queue EXCEPT ![n] = @ \ {r}]

(* The reply to the agent ends its handler.                                *)
Respond(r, s, d) ==
  /\ phase' = [phase EXCEPT ![r] = "done"]
  /\ reply' = [reply EXCEPT ![r] = Http(s, d)]

-----------------------------------------------------------------------------
(* POST /agent-action up to the OPA await                                  *)

(* verify_token raises: 401 before anything else happens.                  *)
Unauthorized(r) ==
  /\ phase[r] = "new" /\ LoopFree(home[r])
  /\ Respond(r, 401, "none")
  /\ UNCHANGED << requestVars, opa, humanVars, clusterVars, logVars, status >>

(* compute_risk raises what the handler does not catch: int() of a number  *)
(* beyond the range of a float is an OverflowError.  500, no audit.        *)
ScoringFails(r) ==
  /\ phase[r] = "new" /\ LoopFree(home[r])
  /\ Respond(r, 500, "none")
  /\ UNCHANGED << requestVars, opa, humanVars, clusterVars, logVars, status >>

(* Stages 1-3: the token verifies, the request is scored and the OPA query *)
(* is sent; the handler suspends.                                          *)
Submit(r) ==
  /\ phase[r] = "new" /\ LoopFree(home[r])
  /\ \E l \in Levels : level' = [level EXCEPT ![r] = l]
  /\ phase' = [phase EXCEPT ![r] = "opa"]
  /\ UNCHANGED << home, opa, reply, humanVars, clusterVars, logVars, status >>

(* The sidecar evaluates the policy.  It may do so after the gateway has   *)
(* given up on it or has died.  "garbled" is a reply whose body is not the *)
(* JSON object the gateway expects.                                        *)
OpaDecides(r) ==
  /\ phase[r] \in {"opa", "lost"} \/ reply[r].status = 403
  /\ opa[r] = "none"
  /\ \E v \in {"allow", "deny", "garbled"} : opa' = [opa EXCEPT ![r] = v]
  /\ UNCHANGED << requestVars, phase, reply, humanVars, clusterVars, logVars,
                  status >>

-----------------------------------------------------------------------------
(* POST /agent-action after the OPA await                                  *)

Resumes(r) == phase[r] = "opa" /\ LoopFree(home[r])

(* Mutant of Allowed: the handler fails open when the sidecar is silent.   *)
AllowedFailsOpen(r) == opa[r] \in {"allow", "none"}

(* `allowed` as the handler sees it once the query has been answered.      *)
Allowed(r) == opa[r] = "allow"

(* Mutant of Denies: the denial is not written to the log.                 *)
DeniesUnaudited(r) ==
  /\ Respond(r, 403, "deny")
  /\ UNCHANGED << requestVars, opa, humanVars, clusterVars, logVars, status >>

(* Mutant of Denies: the HTTPException is built but not raised, and the    *)
(* handler runs on into the approval queue.                                *)
DeniesAndGoesOn(r) ==
  /\ Record(home[r], r, "deny")
  /\ Respond(r, 403, "deny")
  /\ Enqueue(home[r], r)
  /\ UNCHANGED << requestVars, opa, ruling, answer, clusterVars, status >>

(* Stage 4a: the denial is audited, then answered with 403.                *)
Denies(r) ==
  /\ Record(home[r], r, "deny")
  /\ Respond(r, 403, "deny")
  /\ UNCHANGED << requestVars, opa, humanVars, clusterVars, status >>

OpaDenied(r) == Resumes(r) /\ opa[r] = "deny" /\ Denies(r)

(* Mutant of OpaFailed: no client timeout, an error needs an answer.       *)
OpaFailedNoTimeout(r) == Resumes(r) /\ opa[r] # "none" /\ Denies(r)

(* The query fails: OPA is unreachable, answers with an HTTP error status  *)
(* or does not answer within the 5 s timeout.  The handler fails closed,   *)
(* whatever the sidecar decides meanwhile or later.                        *)
OpaFailed(r) == Resumes(r) /\ Denies(r)

(* resp.json() or .get raises something that is no httpx error: 500.       *)
OpaGarbled(r) ==
  /\ Resumes(r) /\ opa[r] = "garbled"
  /\ Respond(r, 500, "none")
  /\ UNCHANGED << requestVars, opa, humanVars, clusterVars, logVars, status >>

(* Mutant of NeedsHuman: only an exact "critical" level is held back.      *)
NeedsHumanNever(r) == FALSE

NeedsHuman(r) == level[r] = "high"

(* Stage 5a: a high-risk request is queued, audited and answered with the  *)
(* route's default status 200.                                             *)
QueueForHuman(r) ==
  /\ Resumes(r) /\ Allowed(r) /\ NeedsHuman(r)
  /\ Enqueue(home[r], r)
  /\ Record(home[r], r, "pending-approval")
  /\ Respond(r, 200, "pending-approval")
  /\ UNCHANGED << requestVars, opa, ruling, answer, clusterVars, status >>

(* Mutant of BeginDirect: the request enters the queue before the branch   *)
(* on its level.                                                           *)
BeginDirectQueued(r) ==
  /\ Resumes(r) /\ Allowed(r) /\ ~NeedsHuman(r)
  /\ phase' = [phase EXCEPT ![r] = "exec"]
  /\ call' = [call EXCEPT ![home[r]] = [id |-> r, by |-> "agent", sent |-> FALSE]]
  /\ Enqueue(home[r], r)
  /\ UNCHANGED << requestVars, opa, reply, ruling, answer, wire, effects,
                  logVars, status >>

(* Stage 5b: a low- or medium-risk request enters execute_action at once.  *)
BeginDirect(r) ==
  /\ Resumes(r) /\ Allowed(r) /\ ~NeedsHuman(r)
  /\ phase' = [phase EXCEPT ![r] = "exec"]
  /\ call' = [call EXCEPT ![home[r]] = [id |-> r, by |-> "agent", sent |-> FALSE]]
  /\ UNCHANGED << requestVars, opa, reply, humanVars, wire, effects, logVars,
                  status >>

-----------------------------------------------------------------------------
(* POST /approve/{request_id}                                              *)

(* An approver knows the id of a request that was answered                 *)
(* "pending-approval".                                                     *)
KnownToHumans(r) == reply[r].decision = "pending-approval"

Answer(r, s, d) == answer' = [answer EXCEPT ![r] = Http(s, d)]

(* verify_token raises before the queue is looked at.                      *)
ApproveUnauthorized(n, r) ==
  /\ LoopFree(n) /\ KnownToHumans(r)
  /\ Answer(r, 401, "none")
  /\ UNCHANGED << requestVars, phase, opa, reply, queue, ruling, clusterVars,
                  logVars, status >>

ApproveUnknown(n, r) ==
  /\ LoopFree(n) /\ KnownToHumans(r) /\ r \notin queue[n]
  /\ Answer(r, 404, "none")
  /\ UNCHANGED << requestVars, phase, opa, reply, queue, ruling, clusterVars,
                  logVars, status >>

(* approved = true: the entry is popped and the handler enters             *)
(* execute_action; OPA is not asked again.                                 *)
Approve(n, r) ==
  /\ LoopFree(n) /\ KnownToHumans(r) /\ r \in queue[n]
  /\ Resolve(n, r)
  /\ ruling' = [ruling EXCEPT ![r] = "approved"]
  /\ call' = [call EXCEPT ![n] = [id |-> r, by |-> "approver", sent |-> FALSE]]
  /\ UNCHANGED << requestVars, phase, opa, reply, answer, wire, effects,
                  logVars, status >>

(* Mutant of HumanDecision: the words of the message, not of the schema.   *)
HumanDecisionWords(ok) == IF ok THEN "approved" ELSE "denied"

HumanDecision(ok) == IF ok THEN "human-allow" ELSE "human-deny"

(* Mutant of Reject: a denied entry is looked at and stays queued.         *)
RejectKeeps(n, r) ==
  /\ LoopFree(n) /\ KnownToHumans(r) /\ r \in queue[n]
  /\ ruling' = [ruling EXCEPT ![r] = "denied"]
  /\ Record(n, r, HumanDecision(FALSE))
  /\ Answer(r, 200, HumanDecision(FALSE))
  /\ UNCHANGED << requestVars, phase, opa, reply, queue, clusterVars, status >>

(* approved = false: the entry is popped, the decision audited.            *)
Reject(n, r) ==
  /\ LoopFree(n) /\ KnownToHumans(r) /\ r \in queue[n]
  /\ Resolve(n, r)
  /\ ruling' = [ruling EXCEPT ![r] = "denied"]
  /\ Record(n, r, HumanDecision(FALSE))
  /\ Answer(r, 200, HumanDecision(FALSE))
  /\ UNCHANGED << requestVars, phase, opa, reply, clusterVars, status >>

-----------------------------------------------------------------------------
(* The Kubernetes call.  While it lasts the replica's event loop does      *)
(* nothing else.                                                           *)

(* _dispatch sends the request to the API server.                          *)
Send(n) ==
  /\ call[n] # Idle /\ ~call[n].sent
  /\ call' = [call EXCEPT ![n].sent = TRUE]
  /\ wire' = [wire EXCEPT ![call[n].id] = "sent"]
  /\ UNCHANGED << requestVars, phase, opa, reply, humanVars, effects, logVars,
                  status >>

(* The API server carries the request out.  It may do so after the replica *)
(* that sent it has died.                                                  *)
ApiApplies(r) ==
  /\ wire[r] = "sent"
  /\ wire' = [wire EXCEPT ![r] = "applied"]
  /\ effects' = [effects EXCEPT ![r] = @ + 1]
  /\ UNCHANGED << requestVars, phase, opa, reply, humanVars, call, logVars,
                  status >>

(* The API server, or an admission webhook, refuses it for good.           *)
ApiRefuses(r) ==
  /\ wire[r] = "sent"
  /\ wire' = [wire EXCEPT ![r] = "refused"]
  /\ UNCHANGED << requestVars, phase, opa, reply, humanVars, call, effects,
                  logVars, status >>

(* The handler that was blocked in the call ends with an HTTP answer.      *)
Finish(n, s, d) ==
  /\ call' = [call EXCEPT ![n] = Idle]
  /\ IF call[n].by = "agent"
     THEN Respond(call[n].id, s, d) /\ UNCHANGED answer
     ELSE Answer(call[n].id, s, d) /\ UNCHANGED << phase, reply >>
  /\ UNCHANGED << requestVars, opa, queue, ruling, effects, status >>

ExecDecision(n) ==
  IF call[n].by = "agent" THEN "allow" ELSE HumanDecision(TRUE)

(* The API server answered with success: audit, then 200.                  *)
ReturnDone(n) ==
  /\ call[n] # Idle /\ call[n].sent /\ wire[call[n].id] = "applied"
  /\ Record(n, call[n].id, ExecDecision(n))
  /\ Finish(n, 200, ExecDecision(n))
  /\ UNCHANGED wire

(* No kubeconfig: nothing is sent, the handler answers and audits as if it *)
(* had been, with a [SIMULATED] result.                                    *)
ReturnSimulated(n) ==
  /\ call[n] # Idle /\ ~call[n].sent
  /\ wire' = [wire EXCEPT ![call[n].id] = "simulated"]
  /\ Record(n, call[n].id, ExecDecision(n))
  /\ Finish(n, 200, ExecDecision(n))

(* Mutant of ReturnK8sError: the error is taken for a result.              *)
ReturnK8sErrorAsResult(n) ==
  /\ call[n] # Idle
  /\ Record(n, call[n].id, ExecDecision(n))
  /\ Finish(n, 200, ExecDecision(n))
  /\ UNCHANGED wire

(* ValueError before anything is sent (unsupported combination, missing    *)
(* parameter), or any ApiException: a refusal, but also a timeout or an    *)
(* internal error of the API server, which may have carried the request    *)
(* out or still will.  HTTPException 502, raised before audit.log.         *)
ReturnK8sError(n) ==
  /\ call[n] # Idle
  /\ Finish(n, 502, "none")
  /\ UNCHANGED << wire, logVars >>

(* An exception _execute_k8s does not name (a broken connection, whatever  *)
(* the API server made of the request; a TypeError before): 500, no audit. *)
ReturnUncaught(n) ==
  /\ call[n] # Idle
  /\ Finish(n, 500, "none")
  /\ UNCHANGED << wire, logVars >>

-----------------------------------------------------------------------------
(* Processes                                                               *)

(* The process ends: the handlers it ran are gone with their connections,  *)
(* and the queue with its memory.                                          *)
Dies(n) ==
  /\ phase' = [r \in Requests |->
                IF home[r] = n /\ phase[r] \in {"opa", "exec"}
                THEN "lost" ELSE phase[r]]
  /\ reply' = [r \in Requests |->
                IF home[r] = n /\ phase[r] \in {"opa", "exec"}
                THEN Dropped ELSE reply[r]]
  /\ answer' = [r \in Requests |->
                 IF call[n].by = "approver" /\ call[n].id = r
                 THEN Dropped ELSE answer[r]]
  /\ queue' = [queue EXCEPT ![n] = {}]
  /\ call' = [call EXCEPT ![n] = Idle]
  /\ UNCHANGED << requestVars, opa, ruling, wire, effects, warned >>

(* The container dies (a crash, or the liveness probe that a blocked loop  *)
(* does not answer).  The pod and its emptyDir volume stay.                *)
Crash(n) ==
  /\ status[n] = "running"
  /\ status' = [status EXCEPT ![n] = "crashed"]
  /\ Dies(n)
  /\ UNCHANGED audit

Restart(n) ==
  /\ status[n] = "crashed"
  /\ status' = [status EXCEPT ![n] = "running"]
  /\ UNCHANGED << requestVars, phase, opa, reply, humanVars, clusterVars,
                  logVars >>

(* The pod is deleted (rollout, scale-in, eviction): its emptyDir, with    *)
(* the log file, goes too.                                                 *)
DeletePod(n) ==
  /\ status[n] # "gone"
  /\ status' = [status EXCEPT ![n] = "gone"]
  /\ Dies(n)
  /\ audit' = [audit EXCEPT ![n] = [r \in Requests |-> << >>]]

-----------------------------------------------------------------------------
AgentHandler(r) ==
  \/ Unauthorized(r) \/ ScoringFails(r) \/ Submit(r)
  \/ OpaDenied(r) \/ OpaFailed(r) \/ OpaGarbled(r)
  \/ QueueForHuman(r) \/ BeginDirect(r)

ApproveHandler(n, r) ==
  \/ ApproveUnauthorized(n, r) \/ ApproveUnknown(n, r)
  \/ Approve(n, r) \/ Reject(n, r)

CallReturns(n) ==
  ReturnDone(n) \/ ReturnSimulated(n) \/ ReturnK8sError(n) \/ ReturnUncaught(n)

Next ==
  \/ \E r \in Requests : AgentHandler(r) \/ OpaDecides(r)
  \/ \E n \in Replicas, r \in Requests : ApproveHandler(n, r)
  \/ \E n \in Replicas : Send(n) \/ CallReturns(n)
  \/ \E r \in Requests : ApiApplies(r) \/ ApiRefuses(r)
  \/ \E n \in Replicas : Crash(n) \/ Restart(n) \/ DeletePod(n)

Spec == Init /\ [][Next]_vars

(* A blocked event loop does not stay blocked: the call goes on, or the    *)
(* liveness probe, which the loop cannot answer, has the container killed. *)
CallProceeds(n) ==
  call[n] # Idle /\ (Send(n) \/ CallReturns(n) \/ Crash(n))

(* What the scheduling gives.  The event loop of a live process runs every *)
(* ready handler, so that a query without an answer times out.  No call of *)
(* the Kubernetes client has a timeout, and nothing makes the API server   *)
(* answer it: what bounds it is the liveness probe of                      *)
(* k8s/gateway/deployment.yaml.  Nothing makes OPA answer, an operator     *)
(* decide, or a process come back.                                         *)
Fairness ==
  /\ \A r \in Requests : WF_vars(OpaFailed(r))
  /\ \A n \in Replicas : WF_vars(CallProceeds(n))

FairSpec == Spec /\ Fairness

-----------------------------------------------------------------------------
(* Properties                                                              *)

(* Every variable holds a value the program can hold.                      *)
TypeOK ==
  /\ home \in [Requests -> Replicas]
  /\ phase \in [Requests -> {"new", "opa", "exec", "done", "lost"}]
  /\ level \in [Requests -> Levels]
  /\ opa \in [Requests -> {"none", "allow", "deny", "garbled"}]
  /\ reply \in [Requests -> Answers \cup {NoAnswer, Dropped}]
  /\ queue \in [Replicas -> SUBSET Requests]
  /\ ruling \in [Requests -> {"none", "approved", "denied"}]
  /\ answer \in [Requests -> Answers \cup {NoAnswer, Dropped}]
  /\ call \in [Replicas -> Calls]
  /\ wire \in [Requests -> {"none", "sent", "applied", "refused", "simulated"}]
  /\ effects \in [Requests -> Nat]
  /\ audit \in [Replicas -> [Requests -> Seq(Decisions)]]
  /\ warned \subseteq Requests
  /\ status \in [Replicas -> {"running", "crashed", "gone"}]

(* The cluster carries out only what OPA allowed and, for a high-risk      *)
(* request, a human approved (somebody with a valid token, of any role,    *)
(* called /approve): agent_action's and approve_action's order of checks,  *)
(* across suspended handlers, other replicas and crashes.                  *)
Cleared(r) == opa[r] = "allow" /\ (level[r] = "high" => ruling[r] = "approved")
OnlyClearedIsApplied == \A r \in Requests : effects[r] > 0 => Cleared(r)

(* One POST /agent-action changes the cluster at most once, however many   *)
(* operators approve it, on whichever replicas, with whatever crashes.     *)
AppliedAtMostOnce == \A r \in Requests : effects[r] <= 1

(* A request waits for a human in one queue only, that of the replica that *)
(* took it in, and only while it is still undecided: OPA allowed it, it is *)
(* high-risk, its agent was told to wait, nobody ruled on it and nothing   *)
(* was sent to the API server for it.                                      *)
QueueIsExclusive ==
  \A n \in Replicas : \A r \in queue[n] :
    /\ home[r] = n /\ status[n] = "running"
    /\ opa[r] = "allow" /\ level[r] = "high"
    /\ phase[r] = "done" /\ reply[r] = Http(200, "pending-approval")
    /\ ruling[r] = "none" /\ wire[r] = "none" /\ ~Calling(r)

(* No replica holds a request or carries it to the cluster after it was    *)
(* turned away (401, 403), even when an "allow" of OPA arrives after the   *)
(* gateway gave up on it.                                                  *)
TurnedAwayStaysAway ==
  \A r \in Requests :
    reply[r].status \in {401, 403} =>
      wire[r] = "none" /\ effects[r] = 0 /\ ~Held(r) /\ ~Calling(r)

(* What the log of a replica may say of a request whose records were all   *)
(* written: one outcome, and a human's decision only after the record that *)
(* the request was pending.  A human's decision is never in another log    *)
(* than the pending record, and no request is decided twice.               *)
Trails == { << >>, << "allow" >>, << "deny" >>, << "pending-approval" >>,
            << "pending-approval", "human-allow" >>,
            << "pending-approval", "human-deny" >> }
AuditTrailsAreLegal ==
  \A n \in Replicas, r \in Requests :
    /\ r \notin warned => audit[n][r] \in Trails
    /\ n # home[r] => audit[n][r] = << >>

(* A request answered 200 or 403, and a human decision answered 200, is in *)
(* the log of its replica with that very decision, unless stderr says the  *)
(* write failed or the pod and its log are gone.                           *)
Logged(r, d) ==
  \/ \E i \in DOMAIN audit[home[r]][r] : audit[home[r]][r][i] = d
  \/ r \in warned
  \/ status[home[r]] = "gone"
AnsweredMeansLogged ==
  \A r \in Requests :
    /\ reply[r].status \in {200, 403} => Logged(r, reply[r].decision)
    /\ answer[r].status = 200 => Logged(r, answer[r].decision)

(* The log claims an execution only of a request the API server carried    *)
(* out, or of one whose result was marked [SIMULATED].                     *)
LoggedExecutionIsReal ==
  \A n \in Replicas, r \in Requests : \A i \in DOMAIN audit[n][r] :
    audit[n][r][i] \in {"allow", "human-allow"} =>
      \/ wire[r] = "applied" /\ effects[r] = 1
      \/ wire[r] = "simulated" /\ effects[r] = 0

(* Why the properties above hold: what every step relies on and preserves. *)
CallOK(n) ==
  call[n] # Idle =>
    /\ status[n] = "running" /\ home[call[n].id] = n
    /\ opa[call[n].id] = "allow"
    /\ \/ /\ call[n].by = "agent"
          /\ phase[call[n].id] = "exec" /\ level[call[n].id] # "high"
       \/ call[n].by = "approver" /\ ruling[call[n].id] = "approved"
    /\ IF call[n].sent
       THEN wire[call[n].id] \in {"sent", "applied", "refused"}
       ELSE wire[call[n].id] = "none"

HeldOK(n, r) ==
  r \in queue[n] =>
    /\ home[r] = n /\ status[n] = "running"
    /\ opa[r] = "allow" /\ level[r] = "high" /\ phase[r] = "done"
    /\ reply[r] = Http(200, "pending-approval")
    /\ ruling[r] = "none" /\ wire[r] = "none"

RequestOK(r) ==
  /\ effects[r] = IF wire[r] = "applied" THEN 1 ELSE 0
  /\ wire[r] # "none" => Cleared(r) /\ phase[r] \notin {"new", "opa"}
  /\ phase[r] \in {"new", "opa", "exec"} => reply[r] = NoAnswer
  /\ reply[r].status \in {401, 403} => wire[r] = "none"
  /\ ruling[r] # "none" =>
       /\ level[r] = "high" /\ phase[r] = "done"
       /\ reply[r] = Http(200, "pending-approval")

Inductive ==
  /\ \A n \in Replicas : CallOK(n)
  /\ \A n \in Replicas, r \in Requests : HeldOK(n, r)
  /\ \A r \in Requests : RequestOK(r)

(* A human decision is final: no later call to /approve changes it.        *)
RulingIsFinal ==
  [][\A r \in Requests : ruling[r] # "none" => ruling'[r] = ruling[r]]_vars

(* A request leaves the queue only by a human decision on it or with the   *)
(* process that held it; other requests coming and going do not disturb it.*)
HeldUntilRuledOrDead ==
  [][\A n \in Replicas : \A r \in queue[n] \ queue'[n] :
       ruling'[r] # "none" \/ status'[n] # "running"]_vars

(* Every request the gateway took in is answered, or its process dies:     *)
(* OPA's silence, a neighbour's blocking Kubernetes call and an API server *)
(* that errs or says nothing do not keep an agent waiting for ever.        *)
EveryRequestEnds ==
  \A r \in Requests :
    phase[r] \in {"opa", "exec"} ~> phase[r] \in {"done", "lost"}

(* An approval that was accepted takes effect, or whoever gave it learns   *)
(* that it may not have: an error answer or a broken connection.           *)
ApprovalHasOutcome ==
  \A n \in Replicas, r \in Requests :
    call[n].id = r /\ call[n].by = "approver" ~>
      \/ wire[r] \in {"applied", "simulated"}
      \/ answer[r].status \in {500, 502} \/ answer[r] = Dropped

-----------------------------------------------------------------------------
(* What the repository says and the code does not do                       *)

(* audit/logger.py, lines 4-5: every request that reaches the gateway,     *)
(* regardless of outcome, is written.  (401s are exempt by                 *)
(* docs/architecture.md, and a write that failed is on stderr.)            *)
EveryOutcomeLogged ==
  \A r \in Requests :
    phase[r] = "done" /\ reply[r].status # 401 =>
      audit[home[r]][r] # << >> \/ r \in warned \/ status[home[r]] = "gone"

(* approve_action's docstring: a second audit record is appended, so that  *)
(* the log shows both the pending entry and the human's decision.          *)
EveryRulingLogged ==
  \A r \in Requests :
    answer[r].status \in {200, 500, 502} =>
      Logged(r, "human-allow") \/ Logged(r, "human-deny")

(* approval/queue.py, lines 5-6: the gateway enqueues the request and      *)
(* returns HTTP 202.                                                       *)
PendingIsAccepted ==
  \A r \in Requests :
    reply[r].decision = "pending-approval" => reply[r].status = 202

(* ApprovalQueue.resolve: None if the ID is unknown (already resolved,     *)
(* never existed, or mistyped).  The ids here exist and are typed right.   *)
NotFoundMeansResolved ==
  \A r \in Requests : answer[r].status = 404 => ruling[r] # "none"

-----------------------------------------------------------------------------
(* Refinement of Lifecycle                                                 *)

(* The stage of a request is read off where it is: waiting in a queue, in  *)
(* a Kubernetes call or already sent by one, still in its handler, or none *)
(* of these.                                                               *)
Stage(r) ==
  IF Held(r) THEN "held"
  ELSE IF Calling(r) \/ wire[r] \in {"sent", "applied"} THEN "open"
  ELSE IF wire[r] = "none" /\ phase[r] \in {"new", "opa"} THEN "submitted"
  ELSE "closed"

Clearance(r) ==
  IF opa[r] # "allow" THEN "none"
  ELSE IF level[r] = "high" THEN "human" ELSE "auto"

Promise == INSTANCE Lifecycle WITH
  clearance <- [r \in Requests |-> Clearance(r)],
  stage     <- [r \in Requests |-> Stage(r)],
  applied   <- effects

(* The gateway, whatever its replicas, crashes and API errors, keeps the   *)
(* promise of Lifecycle: an action is carried out only while it is open,   *)
(* and becomes open only by the policy's clearance or from a queue.        *)
KeepsPromise == Promise!Spec
=============================================================================

--------------------------- MODULE GatewayProofs ---------------------------
(***************************************************************************)
(* Theorems about Gateway for every set of requests and replicas.          *)
(***************************************************************************)
EXTENDS Gateway, SequenceTheorems, TLAPS

-----------------------------------------------------------------------------
(* Type correctness                                                        *)

LEMMA InitTypeOK == Init => TypeOK
  BY ReplicasAssumption DEF Init, TypeOK, NoAnswer, Idle, Calls, Levels

(* Appending to one request's records keeps the logs well typed.           *)
LEMMA RecordType ==
  ASSUME TypeOK, NEW n \in Replicas, NEW r \in Requests, NEW d \in Decisions,
         Record(n, r, d)
  PROVE  /\ audit' \in [Replicas -> [Requests -> Seq(Decisions)]]
         /\ warned' \subseteq Requests
  <1>1. Append(audit[n][r], d) \in Seq(Decisions)
    BY AppendProperties DEF TypeOK
  <1>2. CASE audit' = [audit EXCEPT ![n][r] = Append(@, d)] /\ UNCHANGED warned
    <2>1. [audit[n] EXCEPT ![r] = Append(@, d)] \in [Requests -> Seq(Decisions)]
      BY <1>1 DEF TypeOK
    <2> QED
      BY <1>2, <2>1 DEF TypeOK
  <1>3. CASE warned' = warned \cup {r} /\ UNCHANGED audit
    BY <1>3 DEF TypeOK
  <1> QED
    BY <1>2, <1>3 DEF Record

(* The answer that ends an agent's handler is one an HTTP client can see.  *)
LEMMA RespondType ==
  ASSUME TypeOK, NEW r \in Requests, NEW s, NEW d, Http(s, d) \in Answers,
         Respond(r, s, d)
  PROVE  /\ phase' \in [Requests -> {"new", "opa", "exec", "done", "lost"}]
         /\ reply' \in [Requests -> Answers \cup {NoAnswer, Dropped}]
  BY DEF Respond, TypeOK

(* So is the answer that ends an approver's.                               *)
LEMMA AnswerType ==
  ASSUME TypeOK, NEW r \in Requests, NEW s, NEW d, Http(s, d) \in Answers,
         Answer(r, s, d)
  PROVE  answer' \in [Requests -> Answers \cup {NoAnswer, Dropped}]
  BY DEF Answer, TypeOK

LEMMA AgentHandlerType ==
  ASSUME TypeOK, NEW r \in Requests, AgentHandler(r) \/ OpaDecides(r)
  PROVE  TypeOK'
  <1>h. home[r] \in Replicas
    BY DEF TypeOK
  <1>d. "deny" \in Decisions /\ "pending-approval" \in Decisions
    BY DEF Decisions
  <1>1. CASE Unauthorized(r) \/ ScoringFails(r)
    <2>1. /\ Http(401, "none") \in Answers
          /\ Http(500, "none") \in Answers
      BY DEF Http, Answers
    <2>2. PICK s \in {401, 500} : Respond(r, s, "none")
      BY <1>1 DEF Unauthorized, ScoringFails
    <2>3. /\ phase' \in [Requests -> {"new", "opa", "exec", "done", "lost"}]
          /\ reply' \in [Requests -> Answers \cup {NoAnswer, Dropped}]
      BY <2>1, <2>2, RespondType
    <2>4. UNCHANGED << home, level, opa, queue, ruling, answer, call, wire,
                       effects, audit, warned, status >>
      BY <1>1 DEF Unauthorized, ScoringFails, requestVars, humanVars,
         clusterVars, logVars
    <2> QED
      BY <2>3, <2>4 DEF TypeOK
  <1>2. CASE Submit(r)
    BY <1>2 DEF Submit, Levels, TypeOK, vars, requestVars, humanVars,
       clusterVars, logVars
  <1>3. CASE OpaDenied(r) \/ OpaFailed(r)
    <2>1. Denies(r)
      BY <1>3 DEF OpaDenied, OpaFailed
    <2>2. Record(home[r], r, "deny")
      BY <2>1 DEF Denies
    <2>3. /\ audit' \in [Replicas -> [Requests -> Seq(Decisions)]]
          /\ warned' \subseteq Requests
      BY <1>h, <1>d, <2>2, RecordType
    <2> QED
      BY <2>1, <2>3 DEF Denies, Respond, Http, Answers, Decisions, TypeOK,
         requestVars, humanVars, clusterVars
  <1>4. CASE OpaGarbled(r)
    BY <1>4 DEF OpaGarbled, Respond, Http, Answers, Decisions, TypeOK,
       requestVars, humanVars, clusterVars, logVars
  <1>5. CASE QueueForHuman(r)
    <2>1. Record(home[r], r, "pending-approval")
      BY <1>5 DEF QueueForHuman
    <2>2. /\ audit' \in [Replicas -> [Requests -> Seq(Decisions)]]
          /\ warned' \subseteq Requests
      BY <1>h, <1>d, <2>1, RecordType
    <2>3. Respond(r, 200, "pending-approval")
      BY <1>5 DEF QueueForHuman
    <2>h. Http(200, "pending-approval") \in Answers
      BY DEF Http, Answers, Decisions
    <2>4. /\ phase' \in [Requests -> {"new", "opa", "exec", "done", "lost"}]
          /\ reply' \in [Requests -> Answers \cup {NoAnswer, Dropped}]
      BY <2>3, <2>h, RespondType
    <2>5. queue' \in [Replicas -> SUBSET Requests]
      BY <1>h, <1>5 DEF QueueForHuman, Enqueue, TypeOK
    <2> QED
      BY <1>5, <2>2, <2>4, <2>5 DEF QueueForHuman, TypeOK, requestVars,
         clusterVars
  <1>6. CASE BeginDirect(r)
    BY <1>6 DEF BeginDirect, Calls, TypeOK, requestVars, humanVars, logVars
  <1>7. CASE OpaDecides(r)
    BY <1>7 DEF OpaDecides, TypeOK, requestVars, humanVars, clusterVars, logVars
  <1> QED
    BY <1>1, <1>2, <1>3, <1>4, <1>5, <1>6, <1>7 DEF AgentHandler

LEMMA ApproveHandlerType ==
  ASSUME TypeOK, NEW n \in Replicas, NEW r \in Requests, ApproveHandler(n, r)
  PROVE  TypeOK'
  <1>1. CASE ApproveUnauthorized(n, r) \/ ApproveUnknown(n, r)
    <2>1. /\ Http(401, "none") \in Answers
          /\ Http(404, "none") \in Answers
      BY DEF Http, Answers
    <2>2. PICK s \in {401, 404} : Answer(r, s, "none")
      BY <1>1 DEF ApproveUnauthorized, ApproveUnknown
    <2>3. answer' \in [Requests -> Answers \cup {NoAnswer, Dropped}]
      BY <2>1, <2>2, AnswerType
    <2>4. UNCHANGED << home, phase, level, opa, reply, queue, ruling, call,
                       wire, effects, audit, warned, status >>
      BY <1>1 DEF ApproveUnauthorized, ApproveUnknown, requestVars,
         clusterVars, logVars
    <2> QED
      BY <2>3, <2>4 DEF TypeOK
  <1>2. CASE Approve(n, r)
    BY <1>2 DEF Approve, Resolve, Calls, TypeOK, requestVars, logVars
  <1>3. CASE Reject(n, r)
    <2>1. "human-deny" \in Decisions /\ Http(200, "human-deny") \in Answers
      BY DEF Decisions, Answers, Http
    <2>2. Record(n, r, "human-deny")
      BY <1>3 DEF Reject, HumanDecision
    <2>3. /\ audit' \in [Replicas -> [Requests -> Seq(Decisions)]]
          /\ warned' \subseteq Requests
      BY <2>1, <2>2, RecordType
    <2>4. Answer(r, 200, "human-deny")
      BY <1>3 DEF Reject, HumanDecision
    <2>5. answer' \in [Requests -> Answers \cup {NoAnswer, Dropped}]
      BY <2>1, <2>4, AnswerType
    <2>6. queue' \in [Replicas -> SUBSET Requests]
      BY <1>3 DEF Reject, Resolve, TypeOK
    <2> QED
      BY <1>3, <2>3, <2>5, <2>6 DEF Reject, TypeOK, requestVars, clusterVars
  <1> QED
    BY <1>1, <1>2, <1>3 DEF ApproveHandler

(* A replica that is not idle is blocked in the call of some request.      *)
LEMMA CallHasId ==
  ASSUME TypeOK, NEW n \in Replicas, call[n] # Idle
  PROVE  /\ call[n].id \in Requests
         /\ call[n].by \in {"agent", "approver"}
         /\ call[n].sent \in BOOLEAN
  BY DEF TypeOK, Calls

LEMMA ExecDecisionType ==
  ASSUME NEW n \in Replicas
  PROVE  ExecDecision(n) \in {"allow", "human-allow"}
  BY DEF ExecDecision, HumanDecision

(* The end of a call answers its agent or its approver and frees the loop. *)
LEMMA FinishType ==
  ASSUME TypeOK, NEW n \in Replicas, call[n] # Idle,
         NEW s, NEW d, Http(s, d) \in Answers, Finish(n, s, d),
         wire' \in [Requests -> {"none", "sent", "applied", "refused", "simulated"}],
         audit' \in [Replicas -> [Requests -> Seq(Decisions)]],
         warned' \subseteq Requests
  PROVE  TypeOK'
  <1>1. call[n].id \in Requests
    BY CallHasId
  <1>2. call' \in [Replicas -> Calls]
    BY DEF Finish, TypeOK, Calls
  <1>3. CASE call[n].by = "agent"
    <2>1. Respond(call[n].id, s, d) /\ UNCHANGED answer
      BY <1>3 DEF Finish
    <2>2. /\ phase' \in [Requests -> {"new", "opa", "exec", "done", "lost"}]
          /\ reply' \in [Requests -> Answers \cup {NoAnswer, Dropped}]
      BY <1>1, <2>1, RespondType
    <2> QED
      BY <1>2, <2>1, <2>2 DEF Finish, TypeOK, requestVars
  <1>4. CASE call[n].by # "agent"
    <2>1. Answer(call[n].id, s, d) /\ UNCHANGED << phase, reply >>
      BY <1>4 DEF Finish
    <2>2. answer' \in [Requests -> Answers \cup {NoAnswer, Dropped}]
      BY <1>1, <2>1, AnswerType
    <2> QED
      BY <1>2, <2>1, <2>2 DEF Finish, TypeOK, requestVars
  <1> QED
    BY <1>3, <1>4

LEMMA CallType ==
  ASSUME TypeOK, NEW n \in Replicas, Send(n) \/ CallReturns(n)
  PROVE  TypeOK'
  <1>1. call[n] # Idle
    BY DEF Send, CallReturns, ReturnDone, ReturnSimulated, ReturnK8sError,
       ReturnUncaught
  <1>2. call[n].id \in Requests /\ call[n].by \in {"agent", "approver"}
    BY <1>1, CallHasId
  <1>3. /\ ExecDecision(n) \in Decisions
        /\ Http(200, ExecDecision(n)) \in Answers
    BY ExecDecisionType DEF Decisions, Http, Answers
  <1>4. CASE Send(n)
    <2>1. call' \in [Replicas -> Calls]
      <3>1. call[n] \in [id : Requests, by : {"agent", "approver"}, sent : BOOLEAN]
        BY <1>1 DEF TypeOK, Calls
      <3>2. [call[n] EXCEPT !.sent = TRUE] \in Calls
        BY <3>1 DEF Calls
      <3> QED
        BY <1>4, <3>2 DEF Send, TypeOK
    <2>2. wire' \in [Requests -> {"none", "sent", "applied", "refused", "simulated"}]
      BY <1>2, <1>4 DEF Send, TypeOK
    <2> QED
      BY <1>4, <2>1, <2>2 DEF Send, TypeOK, requestVars, humanVars, logVars
  <1>5. CASE ReturnDone(n)
    <2>1. Record(n, call[n].id, ExecDecision(n)) /\ wire' = wire
      BY <1>5 DEF ReturnDone
    <2>2. /\ audit' \in [Replicas -> [Requests -> Seq(Decisions)]]
          /\ warned' \subseteq Requests
      BY <1>2, <1>3, <2>1, RecordType
    <2>3. Finish(n, 200, ExecDecision(n))
      BY <1>5 DEF ReturnDone
    <2>4. wire' \in [Requests -> {"none", "sent", "applied", "refused", "simulated"}]
      BY <2>1 DEF TypeOK
    <2> QED
      BY <1>1, <1>3, <2>2, <2>3, <2>4, FinishType
  <1>6. CASE ReturnSimulated(n)
    <2>1. Record(n, call[n].id, ExecDecision(n))
      BY <1>6 DEF ReturnSimulated
    <2>2. /\ audit' \in [Replicas -> [Requests -> Seq(Decisions)]]
          /\ warned' \subseteq Requests
      BY <1>2, <1>3, <2>1, RecordType
    <2>3. Finish(n, 200, ExecDecision(n))
      BY <1>6 DEF ReturnSimulated
    <2>4. wire' \in [Requests -> {"none", "sent", "applied", "refused", "simulated"}]
      BY <1>6 DEF ReturnSimulated, TypeOK
    <2> QED
      BY <1>1, <1>3, <2>2, <2>3, <2>4, FinishType
  <1>7. CASE ReturnK8sError(n) \/ ReturnUncaught(n)
    <2>1. UNCHANGED << wire, audit, warned >>
      BY <1>7 DEF ReturnK8sError, ReturnUncaught, logVars
    <2>2. Finish(n, 502, "none") \/ Finish(n, 500, "none")
      BY <1>7 DEF ReturnK8sError, ReturnUncaught
    <2>3. /\ wire' \in [Requests -> {"none", "sent", "applied", "refused", "simulated"}]
          /\ audit' \in [Replicas -> [Requests -> Seq(Decisions)]]
          /\ warned' \subseteq Requests
      BY <2>1 DEF TypeOK
    <2>4. Http(500, "none") \in Answers /\ Http(502, "none") \in Answers
      BY DEF Http, Answers
    <2>5. CASE Finish(n, 502, "none")
      BY <1>1, <2>3, <2>4, <2>5, FinishType
    <2>6. CASE Finish(n, 500, "none")
      BY <1>1, <2>3, <2>4, <2>6, FinishType
    <2> QED
      BY <2>2, <2>5, <2>6
  <1> QED
    BY <1>4, <1>5, <1>6, <1>7 DEF CallReturns

LEMMA EnvironmentType ==
  ASSUME TypeOK
  PROVE  /\ \A r \in Requests : ApiApplies(r) \/ ApiRefuses(r) => TypeOK'
         /\ \A n \in Replicas : Crash(n) \/ Restart(n) \/ DeletePod(n) => TypeOK'
  <1>0. ASSUME NEW r \in Requests, ApiApplies(r)
        PROVE  TypeOK'
    <2>1. effects' \in [Requests -> Nat]
      BY <1>0 DEF ApiApplies, TypeOK
    <2>2. wire' \in [Requests -> {"none", "sent", "applied", "refused", "simulated"}]
      BY <1>0 DEF ApiApplies, TypeOK
    <2> QED
      BY <1>0, <2>1, <2>2 DEF ApiApplies, TypeOK, requestVars, humanVars,
         logVars
  <1>1. ASSUME NEW r \in Requests, ApiRefuses(r)
        PROVE  TypeOK'
    <2>1. wire' \in [Requests -> {"none", "sent", "applied", "refused", "simulated"}]
      BY <1>1 DEF ApiRefuses, TypeOK
    <2> QED
      BY <1>1, <2>1 DEF ApiRefuses, TypeOK, requestVars, humanVars, logVars
  <1>2. ASSUME NEW n \in Replicas, Dies(n)
        PROVE  /\ phase' \in [Requests -> {"new", "opa", "exec", "done", "lost"}]
               /\ reply' \in [Requests -> Answers \cup {NoAnswer, Dropped}]
               /\ answer' \in [Requests -> Answers \cup {NoAnswer, Dropped}]
               /\ queue' \in [Replicas -> SUBSET Requests]
               /\ call' \in [Replicas -> Calls]
    BY <1>2 DEF Dies, TypeOK, Calls
  <1>3. ASSUME NEW n \in Replicas, Crash(n)
        PROVE  TypeOK'
    BY <1>2, <1>3 DEF Crash, Dies, TypeOK, requestVars
  <1>4. ASSUME NEW n \in Replicas, Restart(n)
        PROVE  TypeOK'
    BY <1>4 DEF Restart, TypeOK, requestVars, humanVars, clusterVars, logVars
  <1>5. ASSUME NEW n \in Replicas, DeletePod(n)
        PROVE  TypeOK'
    <2>1. [r \in Requests |-> << >>] \in [Requests -> Seq(Decisions)]
      OBVIOUS
    <2> QED
      BY <1>2, <1>5, <2>1 DEF DeletePod, Dies, TypeOK, requestVars
  <1> QED
    BY <1>0, <1>1, <1>3, <1>4, <1>5

LEMMA StepTypeOK == TypeOK /\ [Next]_vars => TypeOK'
  <1> SUFFICES ASSUME TypeOK, [Next]_vars
               PROVE  TypeOK'
    OBVIOUS
  <1>1. CASE UNCHANGED vars
    BY <1>1 DEF vars, TypeOK
  <1>2. CASE Next
    BY <1>2, AgentHandlerType, ApproveHandlerType, CallType, EnvironmentType
       DEF Next
  <1> QED
    BY <1>1, <1>2

(* Every variable of the gateway always holds a value the program can      *)
(* hold.                                                                   *)
THEOREM TypeCorrect == Spec => []TypeOK
  BY InitTypeOK, StepTypeOK, PTL DEF Spec
-----------------------------------------------------------------------------
(* The inductive invariant, one lemma per action                           *)

LEMMA InitInductive == Init => Inductive
  BY DEF Init, Inductive, CallOK, HeldOK, RequestOK, NoAnswer, Idle

(* A request is in a Kubernetes call only after OPA allowed it.            *)
LEMMA NotYetCalling ==
  ASSUME TypeOK, Inductive, NEW r \in Requests,
         phase[r] \in {"new", "opa"} \/ opa[r] # "allow"
  PROVE  ~Calling(r)
  <1> SUFFICES ASSUME NEW m \in Replicas, call[m].id = r
               PROVE  FALSE
    BY DEF Calling
  <1>1. call[m] # Idle
    BY RequestsAssumption DEF Idle
  <1>2. CallOK(m) /\ RequestOK(r)
    BY DEF Inductive
  <1> QED
    BY <1>1, <1>2 DEF CallOK, RequestOK

(* What a handler does to its own request does not disturb the calls of    *)
(* others.                                                                 *)
LEMMA CallsUndisturbed ==
  ASSUME TypeOK, Inductive, NEW r \in Requests, ~Calling(r),
         UNCHANGED << home, ruling, answer, call, wire, status >>,
         \A q \in Requests \ {r} :
           phase'[q] = phase[q] /\ level'[q] = level[q] /\ opa'[q] = opa[q],
         NEW m \in Replicas
  PROVE  CallOK(m)'
  <1>1. CASE call[m] = Idle
    BY <1>1 DEF CallOK
  <1>2. CASE call[m] # Idle
    <2>1. call[m].id \in Requests \ {r}
      BY <1>2, CallHasId DEF Calling
    <2>2. CallOK(m)
      BY DEF Inductive
    <2> QED
      BY <1>2, <2>1, <2>2 DEF CallOK
  <1> QED
    BY <1>1, <1>2

(* A handler that ends before the OPA query leaves everything else alone.  *)
LEMMA EarlyEndStep ==
  ASSUME TypeOK, Inductive, NEW r \in Requests,
         Unauthorized(r) \/ ScoringFails(r)
  PROVE  Inductive'
  <1>1. PICK s \in {401, 500} : Respond(r, s, "none")
    BY DEF Unauthorized, ScoringFails
  <1>2. /\ phase[r] = "new"
        /\ UNCHANGED << home, level, opa, queue, ruling, answer, call, wire,
                        effects, audit, warned, status >>
    BY DEF Unauthorized, ScoringFails, requestVars, humanVars, clusterVars,
       logVars
  <1>3. ASSUME NEW m \in Replicas
        PROVE  CallOK(m)'
    <2>1. \A q \in Requests \ {r} : phase'[q] = phase[q]
      BY <1>1 DEF Respond, TypeOK
    <2>2. ~Calling(r)
      BY <1>2, NotYetCalling
    <2> QED
      BY <1>2, <2>1, <2>2, CallsUndisturbed
  <1>4. ASSUME NEW m \in Replicas, NEW q \in Requests
        PROVE  HeldOK(m, q)'
    BY <1>1, <1>2 DEF Respond, Http, CallOK, HeldOK, RequestOK, TypeOK, Inductive
  <1>5. ASSUME NEW q \in Requests
        PROVE  RequestOK(q)'
    BY <1>1, <1>2 DEF Respond, Http, CallOK, HeldOK, RequestOK, Cleared,
       NoAnswer, Dropped, TypeOK, Inductive
  <1> QED
    BY <1>3, <1>4, <1>5 DEF Inductive

LEMMA SubmitStep ==
  ASSUME TypeOK, Inductive, NEW r \in Requests, Submit(r)
  PROVE  Inductive'
  <1>1. ASSUME NEW m \in Replicas
        PROVE  CallOK(m)'
    <2>1. UNCHANGED << home, ruling, answer, call, wire, status >>
      BY DEF Submit, requestVars, humanVars, clusterVars
    <2>2. \A q \in Requests \ {r} :
            phase'[q] = phase[q] /\ level'[q] = level[q] /\ opa'[q] = opa[q]
      BY DEF Submit, TypeOK
    <2>3. ~Calling(r)
      BY NotYetCalling DEF Submit
    <2> QED
      BY <2>1, <2>2, <2>3, CallsUndisturbed
  <1>2. ASSUME NEW m \in Replicas, NEW s \in Requests
        PROVE  HeldOK(m, s)'
    BY DEF Submit, CallOK, HeldOK, RequestOK, TypeOK, Inductive,
       requestVars, humanVars, clusterVars, logVars
  <1>3. ASSUME NEW s \in Requests
        PROVE  RequestOK(s)'
    BY DEF Submit, CallOK, HeldOK, RequestOK, Cleared, NoAnswer,
       Dropped, TypeOK, Inductive, requestVars, humanVars,
       clusterVars, logVars
  <1> QED
    BY <1>1, <1>2, <1>3 DEF Inductive

LEMMA OpaDecidesStep ==
  ASSUME TypeOK, Inductive, NEW r \in Requests, OpaDecides(r)
  PROVE  Inductive'
  <1>1. ASSUME NEW m \in Replicas
        PROVE  CallOK(m)'
    <2>1. UNCHANGED << home, ruling, answer, call, wire, status >>
      BY DEF OpaDecides, requestVars, humanVars, clusterVars
    <2>2. \A q \in Requests \ {r} :
            phase'[q] = phase[q] /\ level'[q] = level[q] /\ opa'[q] = opa[q]
      BY DEF OpaDecides, requestVars, TypeOK
    <2>3. ~Calling(r)
      BY NotYetCalling DEF OpaDecides
    <2> QED
      BY <2>1, <2>2, <2>3, CallsUndisturbed
  <1>2. ASSUME NEW m \in Replicas, NEW s \in Requests
        PROVE  HeldOK(m, s)'
    BY DEF OpaDecides, CallOK, HeldOK, RequestOK, TypeOK, Inductive,
       requestVars, humanVars, clusterVars, logVars
  <1>3. ASSUME NEW s \in Requests
        PROVE  RequestOK(s)'
    BY DEF OpaDecides, CallOK, HeldOK, RequestOK, Cleared, NoAnswer,
       Dropped, TypeOK, Inductive, requestVars, humanVars,
       clusterVars, logVars
  <1> QED
    BY <1>1, <1>2, <1>3 DEF Inductive

LEMMA DeniesStep ==
  ASSUME TypeOK, Inductive, NEW r \in Requests, Resumes(r), Denies(r)
  PROVE  Inductive'
  <1>1. ASSUME NEW m \in Replicas
        PROVE  CallOK(m)'
    <2>1. UNCHANGED << home, ruling, answer, call, wire, status >>
      BY DEF Denies, requestVars, humanVars, clusterVars
    <2>2. \A q \in Requests \ {r} :
            phase'[q] = phase[q] /\ level'[q] = level[q] /\ opa'[q] = opa[q]
      BY DEF Denies, Respond, requestVars, TypeOK
    <2>3. ~Calling(r)
      BY NotYetCalling DEF Resumes
    <2> QED
      BY <2>1, <2>2, <2>3, CallsUndisturbed
  <1>2. ASSUME NEW m \in Replicas, NEW s \in Requests
        PROVE  HeldOK(m, s)'
    BY DEF Resumes, Denies, Respond, Http, CallOK, HeldOK, RequestOK,
       TypeOK, Inductive, requestVars, humanVars, clusterVars, logVars
  <1>3. ASSUME NEW s \in Requests
        PROVE  RequestOK(s)'
    BY DEF Resumes, Denies, Respond, Http, CallOK, HeldOK, RequestOK,
       Cleared, NoAnswer, Dropped, TypeOK, Inductive, requestVars,
       humanVars, clusterVars, logVars
  <1> QED
    BY <1>1, <1>2, <1>3 DEF Inductive

LEMMA OpaGarbledStep ==
  ASSUME TypeOK, Inductive, NEW r \in Requests, OpaGarbled(r)
  PROVE  Inductive'
  <1>1. ASSUME NEW m \in Replicas
        PROVE  CallOK(m)'
    <2>1. UNCHANGED << home, ruling, answer, call, wire, status >>
      BY DEF OpaGarbled, requestVars, humanVars,
         clusterVars
    <2>2. \A q \in Requests \ {r} :
            phase'[q] = phase[q] /\ level'[q] = level[q] /\ opa'[q] = opa[q]
      BY DEF OpaGarbled, Respond, requestVars, TypeOK
    <2>3. ~Calling(r)
      BY NotYetCalling DEF OpaGarbled, Resumes
    <2> QED
      BY <2>1, <2>2, <2>3, CallsUndisturbed
  <1>2. ASSUME NEW m \in Replicas, NEW s \in Requests
        PROVE  HeldOK(m, s)'
    BY DEF OpaGarbled, Resumes, Respond, Http, CallOK, HeldOK,
       RequestOK, TypeOK, Inductive, requestVars, humanVars,
       clusterVars, logVars
  <1>3. ASSUME NEW s \in Requests
        PROVE  RequestOK(s)'
    BY DEF OpaGarbled, Resumes, Respond, Http, CallOK, HeldOK,
       RequestOK, Cleared, NoAnswer, Dropped, TypeOK, Inductive,
       requestVars, humanVars, clusterVars, logVars
  <1> QED
    BY <1>1, <1>2, <1>3 DEF Inductive

LEMMA QueueForHumanStep ==
  ASSUME TypeOK, Inductive, NEW r \in Requests, QueueForHuman(r)
  PROVE  Inductive'
  <1>1. ASSUME NEW m \in Replicas
        PROVE  CallOK(m)'
    <2>1. UNCHANGED << home, ruling, answer, call, wire, status >>
      BY DEF QueueForHuman, requestVars, clusterVars
    <2>2. \A q \in Requests \ {r} :
            phase'[q] = phase[q] /\ level'[q] = level[q] /\ opa'[q] = opa[q]
      BY DEF QueueForHuman, Respond, requestVars, TypeOK
    <2>3. ~Calling(r)
      BY NotYetCalling DEF QueueForHuman, Resumes
    <2> QED
      BY <2>1, <2>2, <2>3, CallsUndisturbed
  <1>2. ASSUME NEW m \in Replicas, NEW s \in Requests
        PROVE  HeldOK(m, s)'
    BY DEF QueueForHuman, Resumes, LoopFree, Allowed, NeedsHuman,
       Enqueue, Respond, Http, CallOK, HeldOK, RequestOK, TypeOK,
       Inductive, requestVars, humanVars, clusterVars, logVars
  <1>3. ASSUME NEW s \in Requests
        PROVE  RequestOK(s)'
    BY DEF QueueForHuman, Resumes, LoopFree, Allowed, NeedsHuman,
       Enqueue, Respond, Http, CallOK, HeldOK, RequestOK, Cleared,
       NoAnswer, Dropped, TypeOK, Inductive, requestVars, humanVars,
       clusterVars, logVars
  <1> QED
    BY <1>1, <1>2, <1>3 DEF Inductive

LEMMA BeginDirectStep ==
  ASSUME TypeOK, Inductive, NEW r \in Requests, BeginDirect(r)
  PROVE  Inductive'
  <1>1. ASSUME NEW m \in Replicas
        PROVE  CallOK(m)'
    BY DEF BeginDirect, Resumes, LoopFree, Allowed, NeedsHuman,
       CallOK, RequestOK, TypeOK, Inductive, requestVars, humanVars,
       clusterVars, logVars
  <1>2. ASSUME NEW m \in Replicas, NEW s \in Requests
        PROVE  HeldOK(m, s)'
    BY DEF BeginDirect, Resumes, LoopFree, Allowed, NeedsHuman,
       CallOK, HeldOK, RequestOK, TypeOK, Inductive, requestVars,
       humanVars, clusterVars, logVars
  <1>3. ASSUME NEW s \in Requests
        PROVE  RequestOK(s)'
    BY DEF BeginDirect, Resumes, LoopFree, Allowed, NeedsHuman,
       CallOK, HeldOK, RequestOK, Cleared, NoAnswer, Dropped, TypeOK,
       Inductive, requestVars, humanVars, clusterVars, logVars
  <1> QED
    BY <1>1, <1>2, <1>3 DEF Inductive

(* An approver turned away changes nothing but his own answer.             *)
LEMMA NoResolutionStep ==
  ASSUME TypeOK, Inductive, NEW n \in Replicas, NEW r \in Requests,
         ApproveUnauthorized(n, r) \/ ApproveUnknown(n, r)
  PROVE  Inductive'
  <1>1. UNCHANGED << home, phase, level, opa, reply, queue, ruling, call,
                     wire, effects, audit, warned, status >>
    BY DEF ApproveUnauthorized, ApproveUnknown, requestVars, clusterVars,
       logVars
  <1>2. ASSUME NEW m \in Replicas
        PROVE  CallOK(m)'
    <2>1. call[m] # Idle => call[m].id \in Requests
      BY CallHasId
    <2> QED
      BY <1>1, <2>1 DEF Inductive, CallOK
  <1>3. ASSUME NEW m \in Replicas, NEW s \in Requests
        PROVE  HeldOK(m, s)'
    BY <1>1 DEF Inductive, HeldOK
  <1>4. ASSUME NEW s \in Requests
        PROVE  RequestOK(s)'
    BY <1>1 DEF Inductive, RequestOK, Cleared
  <1> QED
    BY <1>2, <1>3, <1>4 DEF Inductive

LEMMA ApproveStep ==
  ASSUME TypeOK, Inductive, NEW n \in Replicas, NEW r \in Requests, Approve(n, r)
  PROVE  Inductive'
  <1>1. ASSUME NEW m \in Replicas
        PROVE  CallOK(m)'
    <2>1. CASE m = n
      <3>1. call'[n] = [id |-> r, by |-> "approver", sent |-> FALSE]
        BY DEF Approve, TypeOK
      <3>2. HeldOK(n, r) /\ RequestOK(r) /\ r \in queue[n] /\ ruling'[r] = "approved"
        BY DEF Approve, Inductive, TypeOK
      <3>3. /\ call'[n].id = r /\ call'[n].by = "approver" /\ ~call'[n].sent
        BY <3>1
      <3> QED
        BY <2>1, <3>2, <3>3 DEF CallOK, HeldOK, RequestOK, Approve, requestVars
    <2>2. CASE m # n
      <3>1. call'[m] = call[m]
        BY <2>2 DEF Approve, TypeOK
      <3>2. CASE call[m] # Idle
        <4>1. call[m].id # r /\ call[m].id \in Requests /\ CallOK(m)
          BY <2>2, <3>2, CallHasId DEF Inductive, CallOK, HeldOK, Approve
        <4> QED
          BY <3>1, <3>2, <4>1 DEF CallOK, Approve, requestVars, TypeOK
      <3> QED
        BY <3>1, <3>2 DEF CallOK
    <2> QED
      BY <2>1, <2>2
  <1>2. ASSUME NEW m \in Replicas, NEW s \in Requests
        PROVE  HeldOK(m, s)'
    BY DEF Approve, LoopFree, Resolve, CallOK, HeldOK, RequestOK,
       TypeOK, Inductive, requestVars, humanVars, clusterVars, logVars
  <1>3. ASSUME NEW s \in Requests
        PROVE  RequestOK(s)'
    BY DEF Approve, LoopFree, Resolve, CallOK, HeldOK, RequestOK,
       Cleared, NoAnswer, Dropped, TypeOK, Inductive, requestVars,
       humanVars, clusterVars, logVars
  <1> QED
    BY <1>1, <1>2, <1>3 DEF Inductive

LEMMA RejectStep ==
  ASSUME TypeOK, Inductive, NEW n \in Replicas, NEW r \in Requests, Reject(n, r)
  PROVE  Inductive'
  <1>1. ASSUME NEW m \in Replicas
        PROVE  CallOK(m)'
    <2>1. UNCHANGED call
      BY DEF Reject, clusterVars
    <2>2. CASE call[m] # Idle
      <3>1. call[m].id # r /\ call[m].id \in Requests /\ CallOK(m)
        BY <2>2, CallHasId DEF Inductive, CallOK, HeldOK, RequestOK, Reject, LoopFree
      <3> QED
        BY <2>1, <2>2, <3>1 DEF CallOK, Reject, Answer, requestVars, clusterVars,
           TypeOK
    <2> QED
      BY <2>1, <2>2 DEF CallOK
  <1>2. ASSUME NEW m \in Replicas, NEW s \in Requests
        PROVE  HeldOK(m, s)'
    BY DEF Reject, Resolve, Answer, Http, CallOK, HeldOK, RequestOK,
       TypeOK, Inductive, requestVars, humanVars, clusterVars, logVars
  <1>3. ASSUME NEW s \in Requests
        PROVE  RequestOK(s)'
    BY DEF Reject, Resolve, Answer, Http, CallOK, HeldOK, RequestOK,
       Cleared, NoAnswer, Dropped, TypeOK, Inductive, requestVars,
       humanVars, clusterVars, logVars
  <1> QED
    BY <1>1, <1>2, <1>3 DEF Inductive

(* The blocking calls of two replicas serve different requests.            *)
LEMMA CallsAreDistinct ==
  ASSUME Inductive, NEW m \in Replicas, NEW n \in Replicas,
         call[m] # Idle, call[n] # Idle, m # n
  PROVE  call[m].id # call[n].id
  BY DEF Inductive, CallOK

LEMMA SendStep ==
  ASSUME TypeOK, Inductive, NEW n \in Replicas, Send(n)
  PROVE  Inductive'
  <1> DEFINE r == call[n].id
  <1>a. call[n] # Idle /\ ~call[n].sent
    BY DEF Send
  <1>b. r \in Requests /\ CallOK(n) /\ RequestOK(r)
    BY <1>a, CallHasId DEF Inductive
  <1>c. /\ call'[n] = [call[n] EXCEPT !.sent = TRUE]
        /\ \A m \in Replicas : m # n => call'[m] = call[m]
    BY DEF Send, TypeOK
  <1>d. wire'[r] = "sent" /\ \A s \in Requests : s # r => wire'[s] = wire[s]
    BY <1>b DEF Send, TypeOK
  <1>e. call'[n].id = r /\ call'[n].by = call[n].by /\ call'[n].sent
    <2>1. call[n] \in [id : Requests, by : {"agent", "approver"}, sent : BOOLEAN]
      BY <1>a DEF TypeOK, Calls
    <2> QED
      BY <1>c, <2>1
  <1>1. ASSUME NEW m \in Replicas
        PROVE  CallOK(m)'
    <2>1. CASE m = n
      BY <1>a, <1>b, <1>d, <1>e, <2>1 DEF CallOK, Send, requestVars, humanVars
    <2>2. CASE m # n
      <3>1. CASE call[m] = Idle
        BY <1>c, <2>2, <3>1 DEF CallOK
      <3>2. CASE call[m] # Idle
        <4>1. call[m].id # r /\ call[m].id \in Requests /\ CallOK(m)
          BY <1>a, <2>2, <3>2, CallsAreDistinct, CallHasId DEF Inductive
        <4> QED
          BY <1>c, <1>d, <2>2, <3>2, <4>1 DEF CallOK, Send, requestVars, humanVars
      <3> QED
        BY <3>1, <3>2
    <2> QED
      BY <2>1, <2>2
  <1>2. ASSUME NEW m \in Replicas, NEW s \in Requests
        PROVE  HeldOK(m, s)'
    BY <1>a, <1>b DEF Send, CallOK, HeldOK, RequestOK, TypeOK, Inductive,
       requestVars, humanVars, clusterVars, logVars
  <1>3. ASSUME NEW s \in Requests
        PROVE  RequestOK(s)'
    <2>1. CASE s = r
      BY <1>a, <1>b, <1>d, <2>1 DEF Send, CallOK, RequestOK, Cleared, NoAnswer,
         requestVars, humanVars, Http
    <2>2. CASE s # r
      BY <1>d, <2>2 DEF Send, RequestOK, Cleared, Inductive, requestVars, humanVars
    <2> QED
      BY <2>1, <2>2
  <1> QED
    BY <1>1, <1>2, <1>3 DEF Inductive

(* A call that returns frees its replica and touches no request but its    *)
(* own; what remains to be shown of each kind of return is the request's   *)
(* own part of the invariant.                                              *)
LEMMA FinishStep ==
  ASSUME TypeOK, Inductive, NEW n \in Replicas, call[n] # Idle,
         NEW r \in Requests, r = call[n].id,
         NEW s, NEW d, Finish(n, s, d),
         \A q \in Requests : q # r => wire'[q] = wire[q],
         RequestOK(r)'
  PROVE  Inductive'
  <1>a. CallOK(n) /\ RequestOK(r)
    BY DEF Inductive
  <1>b. call'[n] = Idle /\ \A m \in Replicas : m # n => call'[m] = call[m]
    BY DEF Finish, TypeOK
  <1>c. \A q \in Requests : q # r => /\ phase'[q] = phase[q]
                                     /\ reply'[q] = reply[q]
                                     /\ answer'[q] = answer[q]
    BY <1>a DEF Finish, Respond, Answer, TypeOK
  <1>d. UNCHANGED << home, level, opa, queue, ruling, effects, status >>
    BY DEF Finish, requestVars
  <1>1. ASSUME NEW m \in Replicas
        PROVE  CallOK(m)'
    <2>1. CASE call'[m] = Idle
      BY <2>1 DEF CallOK
    <2>2. CASE call'[m] # Idle
      <3>1. m # n /\ call'[m] = call[m] /\ call[m] # Idle
        BY <1>b, <2>2
      <3>2. call[m].id # r /\ call[m].id \in Requests /\ CallOK(m)
        BY <3>1, CallsAreDistinct, CallHasId DEF Inductive
      <3> QED
        BY <1>c, <1>d, <3>1, <3>2 DEF CallOK
    <2> QED
      BY <2>1, <2>2
  <1>2. ASSUME NEW m \in Replicas, NEW q \in Requests
        PROVE  HeldOK(m, q)'
    <2>1. CASE q = r
      <3>1. r \notin queue[m]
        BY <1>a DEF HeldOK, CallOK, Inductive
      <3> QED
        BY <1>d, <2>1, <3>1 DEF HeldOK
    <2>2. CASE q # r
      BY <1>c, <1>d, <2>2 DEF HeldOK, Inductive
    <2> QED
      BY <2>1, <2>2
  <1>3. ASSUME NEW q \in Requests
        PROVE  RequestOK(q)'
    <2>1. CASE q # r
      BY <1>c, <1>d, <2>1 DEF RequestOK, Cleared, Inductive
    <2> QED
      BY <2>1
  <1> QED
    BY <1>1, <1>2, <1>3 DEF Inductive

LEMMA ReturnDoneStep ==
  ASSUME TypeOK, Inductive, NEW n \in Replicas, ReturnDone(n)
  PROVE  Inductive'
  <1>a. call[n] # Idle /\ Finish(n, 200, ExecDecision(n))
    BY DEF ReturnDone
  <1> PICK r \in Requests : r = call[n].id
    BY <1>a, CallHasId
  <1>b. CallOK(n) /\ RequestOK(r)
    BY DEF Inductive
  <1>c. \A q \in Requests : q # r => wire'[q] = wire[q]
    BY DEF ReturnDone, TypeOK
  <1>d. RequestOK(r)'
    <2>1. CASE call[n].by = "agent"
      BY <1>a, <1>b, <2>1 DEF ReturnDone, Finish, Respond, Http, NoAnswer,
         CallOK, RequestOK, Cleared, TypeOK, requestVars
    <2>2. CASE call[n].by # "agent"
      BY <1>a, <1>b, <2>2 DEF ReturnDone, Finish, Answer, Http, NoAnswer,
         CallOK, RequestOK, Cleared, TypeOK, requestVars
    <2> QED
      BY <2>1, <2>2
  <1> QED
    BY <1>a, <1>c, <1>d, FinishStep

LEMMA ReturnSimulatedStep ==
  ASSUME TypeOK, Inductive, NEW n \in Replicas, ReturnSimulated(n)
  PROVE  Inductive'
  <1>a. call[n] # Idle /\ Finish(n, 200, ExecDecision(n))
    BY DEF ReturnSimulated
  <1> PICK r \in Requests : r = call[n].id
    BY <1>a, CallHasId
  <1>b. CallOK(n) /\ RequestOK(r)
    BY DEF Inductive
  <1>c. \A q \in Requests : q # r => wire'[q] = wire[q]
    BY DEF ReturnSimulated, TypeOK
  <1>d. RequestOK(r)'
    <2>1. CASE call[n].by = "agent"
      BY <1>a, <1>b, <2>1 DEF ReturnSimulated, Finish, Respond, Http, NoAnswer,
         CallOK, RequestOK, Cleared, TypeOK, requestVars
    <2>2. CASE call[n].by # "agent"
      BY <1>a, <1>b, <2>2 DEF ReturnSimulated, Finish, Answer, Http, NoAnswer,
         CallOK, RequestOK, Cleared, TypeOK, requestVars
    <2> QED
      BY <2>1, <2>2
  <1> QED
    BY <1>a, <1>c, <1>d, FinishStep

LEMMA ReturnK8sErrorStep ==
  ASSUME TypeOK, Inductive, NEW n \in Replicas, ReturnK8sError(n)
  PROVE  Inductive'
  <1>a. call[n] # Idle /\ Finish(n, 502, "none")
    BY DEF ReturnK8sError
  <1> PICK r \in Requests : r = call[n].id
    BY <1>a, CallHasId
  <1>b. CallOK(n) /\ RequestOK(r)
    BY DEF Inductive
  <1>c. \A q \in Requests : q # r => wire'[q] = wire[q]
    BY DEF ReturnK8sError, TypeOK
  <1>d. RequestOK(r)'
    <2>1. CASE call[n].by = "agent"
      BY <1>a, <1>b, <2>1 DEF ReturnK8sError, Finish, Respond, Http, NoAnswer,
         CallOK, RequestOK, Cleared, TypeOK, requestVars
    <2>2. CASE call[n].by # "agent"
      BY <1>a, <1>b, <2>2 DEF ReturnK8sError, Finish, Answer, Http, NoAnswer,
         CallOK, RequestOK, Cleared, TypeOK, requestVars
    <2> QED
      BY <2>1, <2>2
  <1> QED
    BY <1>a, <1>c, <1>d, FinishStep

LEMMA ReturnUncaughtStep ==
  ASSUME TypeOK, Inductive, NEW n \in Replicas, ReturnUncaught(n)
  PROVE  Inductive'
  <1>a. call[n] # Idle /\ Finish(n, 500, "none")
    BY DEF ReturnUncaught
  <1> PICK r \in Requests : r = call[n].id
    BY <1>a, CallHasId
  <1>b. CallOK(n) /\ RequestOK(r)
    BY DEF Inductive
  <1>c. \A q \in Requests : q # r => wire'[q] = wire[q]
    BY DEF ReturnUncaught, TypeOK
  <1>d. RequestOK(r)'
    <2>1. CASE call[n].by = "agent"
      BY <1>a, <1>b, <2>1 DEF ReturnUncaught, Finish, Respond, Http, NoAnswer,
         CallOK, RequestOK, Cleared, TypeOK, requestVars
    <2>2. CASE call[n].by # "agent"
      BY <1>a, <1>b, <2>2 DEF ReturnUncaught, Finish, Answer, Http, NoAnswer,
         CallOK, RequestOK, Cleared, TypeOK, requestVars
    <2> QED
      BY <2>1, <2>2
  <1> QED
    BY <1>a, <1>c, <1>d, FinishStep

LEMMA ApiAppliesStep ==
  ASSUME TypeOK, Inductive, NEW r \in Requests, ApiApplies(r)
  PROVE  Inductive'
  <1>1. ASSUME NEW m \in Replicas
        PROVE  CallOK(m)'
    <2>1. UNCHANGED << home, phase, level, opa, ruling, answer, call, status >>
      BY DEF ApiApplies, requestVars, humanVars
    <2>2. \A q \in Requests :
            wire'[q] = wire[q] \/ (wire[q] = "sent" /\ wire'[q] = "applied")
      BY DEF ApiApplies, TypeOK
    <2>3. call[m] # Idle => call[m].id \in Requests
      BY CallHasId
    <2> QED
      BY <2>1, <2>2, <2>3 DEF Inductive, CallOK
  <1>2. ASSUME NEW m \in Replicas, NEW s \in Requests
        PROVE  HeldOK(m, s)'
    BY DEF ApiApplies, CallOK, HeldOK, RequestOK, TypeOK, Inductive,
       requestVars, humanVars, clusterVars, logVars
  <1>3. ASSUME NEW s \in Requests
        PROVE  RequestOK(s)'
    BY DEF ApiApplies, CallOK, HeldOK, RequestOK, Cleared, NoAnswer,
       Dropped, TypeOK, Inductive, requestVars, humanVars,
       clusterVars, logVars
  <1> QED
    BY <1>1, <1>2, <1>3 DEF Inductive

LEMMA ApiRefusesStep ==
  ASSUME TypeOK, Inductive, NEW r \in Requests, ApiRefuses(r)
  PROVE  Inductive'
  <1>1. ASSUME NEW m \in Replicas
        PROVE  CallOK(m)'
    <2>1. UNCHANGED << home, phase, level, opa, ruling, answer, call, status >>
      BY DEF ApiRefuses, requestVars, humanVars
    <2>2. \A q \in Requests :
            wire'[q] = wire[q] \/ (wire[q] = "sent" /\ wire'[q] = "refused")
      BY DEF ApiRefuses, TypeOK
    <2>3. call[m] # Idle => call[m].id \in Requests
      BY CallHasId
    <2> QED
      BY <2>1, <2>2, <2>3 DEF Inductive, CallOK
  <1>2. ASSUME NEW m \in Replicas, NEW s \in Requests
        PROVE  HeldOK(m, s)'
    BY DEF ApiRefuses, CallOK, HeldOK, RequestOK, TypeOK, Inductive,
       requestVars, humanVars, clusterVars, logVars
  <1>3. ASSUME NEW s \in Requests
        PROVE  RequestOK(s)'
    BY DEF ApiRefuses, CallOK, HeldOK, RequestOK, Cleared, NoAnswer,
       Dropped, TypeOK, Inductive, requestVars, humanVars,
       clusterVars, logVars
  <1> QED
    BY <1>1, <1>2, <1>3 DEF Inductive

LEMMA CrashStep ==
  ASSUME TypeOK, Inductive, NEW n \in Replicas, Crash(n)
  PROVE  Inductive'
  <1>1. ASSUME NEW m \in Replicas
        PROVE  CallOK(m)'
    <2>1. call'[n] = Idle /\ \A k \in Replicas : k # n => call'[k] = call[k]
      BY DEF Crash, Dies, TypeOK
    <2>2. CASE call'[m] # Idle
      <3>1. m # n /\ call'[m] = call[m] /\ call[m] # Idle
        BY <2>1, <2>2
      <3>2. CallOK(m) /\ call[m].id \in Requests
        BY <3>1, CallHasId DEF Inductive
      <3>3. home[call[m].id] # n /\ status'[m] = status[m]
        BY <3>1, <3>2 DEF CallOK, Crash, TypeOK
      <3> QED
        BY <3>1, <3>2, <3>3 DEF CallOK, Crash, Dies, requestVars
    <2> QED
      BY <2>2 DEF CallOK
  <1>2. ASSUME NEW m \in Replicas, NEW s \in Requests
        PROVE  HeldOK(m, s)'
    BY DEF Crash, Dies, CallOK, HeldOK, RequestOK, TypeOK, Inductive,
       requestVars, humanVars, clusterVars, logVars
  <1>3. ASSUME NEW s \in Requests
        PROVE  RequestOK(s)'
    BY DEF Crash, Dies, CallOK, HeldOK, RequestOK, Cleared, NoAnswer,
       Dropped, TypeOK, Inductive, requestVars, humanVars,
       clusterVars, logVars
  <1> QED
    BY <1>1, <1>2, <1>3 DEF Inductive

LEMMA RestartStep ==
  ASSUME TypeOK, Inductive, NEW n \in Replicas, Restart(n)
  PROVE  Inductive'
  <1>1. ASSUME NEW m \in Replicas
        PROVE  CallOK(m)'
    BY DEF Restart, CallOK, RequestOK, TypeOK, Inductive, requestVars,
       humanVars, clusterVars, logVars
  <1>2. ASSUME NEW m \in Replicas, NEW s \in Requests
        PROVE  HeldOK(m, s)'
    BY DEF Restart, CallOK, HeldOK, RequestOK, TypeOK, Inductive,
       requestVars, humanVars, clusterVars, logVars
  <1>3. ASSUME NEW s \in Requests
        PROVE  RequestOK(s)'
    BY DEF Restart, CallOK, HeldOK, RequestOK, Cleared, NoAnswer,
       Dropped, TypeOK, Inductive, requestVars, humanVars,
       clusterVars, logVars
  <1> QED
    BY <1>1, <1>2, <1>3 DEF Inductive

LEMMA DeletePodStep ==
  ASSUME TypeOK, Inductive, NEW n \in Replicas, DeletePod(n)
  PROVE  Inductive'
  <1>1. ASSUME NEW m \in Replicas
        PROVE  CallOK(m)'
    <2>1. call'[n] = Idle /\ \A k \in Replicas : k # n => call'[k] = call[k]
      BY DEF DeletePod, Dies, TypeOK
    <2>2. CASE call'[m] # Idle
      <3>1. m # n /\ call'[m] = call[m] /\ call[m] # Idle
        BY <2>1, <2>2
      <3>2. CallOK(m) /\ call[m].id \in Requests
        BY <3>1, CallHasId DEF Inductive
      <3>3. home[call[m].id] # n /\ status'[m] = status[m]
        BY <3>1, <3>2 DEF CallOK, DeletePod, TypeOK
      <3> QED
        BY <3>1, <3>2, <3>3 DEF CallOK, DeletePod, Dies, requestVars
    <2> QED
      BY <2>2 DEF CallOK
  <1>2. ASSUME NEW m \in Replicas, NEW s \in Requests
        PROVE  HeldOK(m, s)'
    BY DEF DeletePod, Dies, CallOK, HeldOK, RequestOK, TypeOK,
       Inductive, requestVars, humanVars, clusterVars, logVars
  <1>3. ASSUME NEW s \in Requests
        PROVE  RequestOK(s)'
    BY DEF DeletePod, Dies, CallOK, HeldOK, RequestOK, Cleared,
       NoAnswer, Dropped, TypeOK, Inductive, requestVars, humanVars,
       clusterVars, logVars
  <1> QED
    BY <1>1, <1>2, <1>3 DEF Inductive

LEMMA StepInductive == TypeOK /\ Inductive /\ [Next]_vars => Inductive'
  <1> SUFFICES ASSUME TypeOK, Inductive, [Next]_vars
               PROVE  Inductive'
    OBVIOUS
  <1>1. CASE UNCHANGED vars
    BY <1>1 DEF vars, Inductive, CallOK, HeldOK, RequestOK, Cleared
  <1>2. ASSUME NEW r \in Requests, AgentHandler(r) \/ OpaDecides(r)
        PROVE  Inductive'
    <2>1. CASE \/ Unauthorized(r) \/ ScoringFails(r) \/ Submit(r)
               \/ OpaDecides(r) \/ OpaGarbled(r)
      BY <2>1, EarlyEndStep, SubmitStep, OpaDecidesStep, OpaGarbledStep
    <2>2. CASE OpaDenied(r) \/ OpaFailed(r)
      BY <2>2, DeniesStep DEF OpaDenied, OpaFailed
    <2>3. CASE QueueForHuman(r) \/ BeginDirect(r)
      BY <2>3, QueueForHumanStep, BeginDirectStep
    <2> QED
      BY <1>2, <2>1, <2>2, <2>3 DEF AgentHandler
  <1>3. ASSUME NEW n \in Replicas, NEW r \in Requests, ApproveHandler(n, r)
        PROVE  Inductive'
    BY <1>3, NoResolutionStep, ApproveStep, RejectStep DEF ApproveHandler
  <1>4. ASSUME NEW n \in Replicas, Send(n) \/ CallReturns(n)
        PROVE  Inductive'
    BY <1>4, SendStep, ReturnDoneStep, ReturnSimulatedStep, ReturnK8sErrorStep,
       ReturnUncaughtStep DEF CallReturns
  <1>5. ASSUME NEW r \in Requests, ApiApplies(r) \/ ApiRefuses(r)
        PROVE  Inductive'
    BY <1>5, ApiAppliesStep, ApiRefusesStep
  <1>6. ASSUME NEW n \in Replicas, Crash(n) \/ Restart(n) \/ DeletePod(n)
        PROVE  Inductive'
    BY <1>6, CrashStep, RestartStep, DeletePodStep
  <1> QED
    BY <1>1, <1>2, <1>3, <1>4, <1>5, <1>6 DEF Next

(* The inductive invariant holds in every state of every execution.        *)
LEMMA AlwaysInductive == Spec => []Inductive
  <1>1. Init => TypeOK /\ Inductive
    BY InitTypeOK, InitInductive
  <1>2. TypeOK /\ Inductive /\ [Next]_vars => (TypeOK /\ Inductive)'
    BY StepTypeOK, StepInductive
  <1> QED
    BY <1>1, <1>2, PTL DEF Spec

-----------------------------------------------------------------------------
(* The safety properties                                                   *)

(* Nothing reaches the cluster that OPA did not allow or that needed a     *)
(* human's approval and did not get it.                                    *)
THEOREM ClearedBeforeApplied == Spec => []OnlyClearedIsApplied
  <1>1. Inductive => OnlyClearedIsApplied
    <2> SUFFICES ASSUME Inductive, NEW r \in Requests, effects[r] > 0
                 PROVE  Cleared(r)
      BY DEF OnlyClearedIsApplied
    <2>1. RequestOK(r)
      BY DEF Inductive
    <2>2. wire[r] = "applied"
      BY <2>1 DEF RequestOK
    <2> QED
      BY <2>1, <2>2 DEF RequestOK
  <1> QED
    BY <1>1, AlwaysInductive, PTL

(* No request is carried out twice.                                        *)
THEOREM AtMostOnce == Spec => []AppliedAtMostOnce
  <1>1. Inductive => AppliedAtMostOnce
    BY DEF Inductive, RequestOK, AppliedAtMostOnce
  <1> QED
    BY <1>1, AlwaysInductive, PTL

(* A request that waits for a human waits in one place and is undecided.   *)
THEOREM ExclusiveQueue == Spec => []QueueIsExclusive
  <1>1. TypeOK /\ Inductive => QueueIsExclusive
    <2> SUFFICES ASSUME TypeOK, Inductive,
                        NEW n \in Replicas, NEW r \in queue[n]
                 PROVE  /\ HeldOK(n, r) /\ ~Calling(r)
      BY DEF QueueIsExclusive, HeldOK
    <2>1. r \in Requests
      BY DEF TypeOK
    <2>2. HeldOK(n, r)
      BY <2>1 DEF Inductive
    <2>3. ASSUME NEW m \in Replicas, call[m].id = r
          PROVE  FALSE
      BY <2>1, <2>2, <2>3, RequestsAssumption DEF Inductive, CallOK, HeldOK, Idle
    <2> QED
      BY <2>2, <2>3 DEF Calling
  <1> QED
    BY <1>1, TypeCorrect, AlwaysInductive, PTL

(* The agent of a request in some replica's call has no answer yet, or has *)
(* been told to wait.                                                      *)
LEMMA CallingIsUndecided ==
  ASSUME Inductive, NEW r \in Requests, Calling(r)
  PROVE  reply[r] \in {NoAnswer, Http(200, "pending-approval")}
  BY RequestsAssumption DEF Calling, Inductive, CallOK, RequestOK, Idle

(* Failing closed is final: what was answered 401 or 403 never reaches the *)
(* queue, a Kubernetes call or the cluster.                                *)
THEOREM TurnedAwayForGood == Spec => []TurnedAwayStaysAway
  <1>1. TypeOK /\ Inductive => TurnedAwayStaysAway
    <2> SUFFICES ASSUME TypeOK, Inductive, NEW r \in Requests,
                        reply[r].status \in {401, 403}
                 PROVE  wire[r] = "none" /\ effects[r] = 0 /\ ~Held(r) /\ ~Calling(r)
      BY DEF TurnedAwayStaysAway
    <2>1. wire[r] = "none" /\ effects[r] = 0
      BY DEF Inductive, RequestOK
    <2>2. ~Held(r)
      BY DEF Held, Inductive, HeldOK, Http
    <2>3. ~Calling(r)
      BY CallingIsUndecided DEF NoAnswer, Http
    <2> QED
      BY <2>1, <2>2, <2>3
  <1> QED
    BY <1>1, TypeCorrect, AlwaysInductive, PTL

-----------------------------------------------------------------------------
(* What a step may never do                                                *)

(* Which handlers touch the queues and the decisions.                      *)
LEMMA AgentFrame ==
  ASSUME NEW r \in Requests, AgentHandler(r) \/ OpaDecides(r)
  PROVE  ruling' = ruling /\ (queue' = queue \/ QueueForHuman(r))
  <1>1. CASE Unauthorized(r) \/ ScoringFails(r) \/ Submit(r) \/ OpaDecides(r)
    BY <1>1 DEF Unauthorized, ScoringFails, Submit, OpaDecides, humanVars
  <1>2. CASE OpaDenied(r) \/ OpaFailed(r) \/ OpaGarbled(r)
    BY <1>2 DEF OpaDenied, OpaFailed, Denies, OpaGarbled, humanVars
  <1>3. CASE QueueForHuman(r) \/ BeginDirect(r)
    BY <1>3 DEF QueueForHuman, BeginDirect, humanVars
  <1> QED
    BY <1>1, <1>2, <1>3 DEF AgentHandler

LEMMA CallFrame ==
  ASSUME NEW n \in Replicas, Send(n) \/ CallReturns(n)
  PROVE  UNCHANGED << queue, ruling >>
  <1>1. CASE Send(n)
    BY <1>1 DEF Send, humanVars
  <1>2. CASE CallReturns(n)
    <2>1. \E s, d : Finish(n, s, d)
      BY <1>2 DEF CallReturns, ReturnDone, ReturnSimulated, ReturnK8sError,
         ReturnUncaught
    <2> QED
      BY <2>1 DEF Finish
  <1> QED
    BY <1>1, <1>2

LEMMA HumanFrame ==
  ASSUME Next
  PROVE  \/ UNCHANGED << queue, ruling >>
         \/ \E r \in Requests : QueueForHuman(r) /\ ruling' = ruling
         \/ \E n \in Replicas, r \in Requests : Approve(n, r) \/ Reject(n, r)
         \/ \E n \in Replicas : (Crash(n) \/ DeletePod(n)) /\ ruling' = ruling
  <1>1. CASE \E r \in Requests : AgentHandler(r) \/ OpaDecides(r)
    BY <1>1, AgentFrame
  <1>2. CASE \E n \in Replicas, r \in Requests : ApproveHandler(n, r)
    BY <1>2 DEF ApproveHandler, ApproveUnauthorized, ApproveUnknown
  <1>3. CASE \E n \in Replicas : Send(n) \/ CallReturns(n)
    BY <1>3, CallFrame
  <1>4. CASE \E r \in Requests : ApiApplies(r) \/ ApiRefuses(r)
    BY <1>4 DEF ApiApplies, ApiRefuses, humanVars
  <1>5. CASE \E n \in Replicas : Crash(n) \/ Restart(n) \/ DeletePod(n)
    BY <1>5 DEF Crash, Restart, DeletePod, Dies, humanVars
  <1> QED
    BY <1>1, <1>2, <1>3, <1>4, <1>5 DEF Next

(* Only a POST /approve that finds the request in the queue rules on it.   *)
LEMMA RulingStep ==
  ASSUME TypeOK, Next, NEW r \in Requests, ruling'[r] # ruling[r]
  PROVE  \E n \in Replicas : r \in queue[n]
  <1>1. PICK n \in Replicas, q \in Requests : Approve(n, q) \/ Reject(n, q)
    BY HumanFrame
  <1>2. q = r
    BY <1>1 DEF Approve, Reject, TypeOK
  <1> QED
    BY <1>1, <1>2 DEF Approve, Reject

(* A human's decision on a request is never changed by a later one.        *)
THEOREM RulingsAreFinal == Spec => RulingIsFinal
  <1>1. TypeOK /\ Inductive /\ [Next]_vars =>
          [\A r \in Requests : ruling[r] # "none" => ruling'[r] = ruling[r]]_vars
    <2> SUFFICES ASSUME TypeOK, Inductive, Next, NEW r \in Requests,
                        ruling[r] # "none", ruling'[r] # ruling[r]
                 PROVE  FALSE
      OBVIOUS
    <2>1. PICK n \in Replicas : r \in queue[n]
      BY RulingStep
    <2> QED
      BY <2>1 DEF Inductive, HeldOK
  <1> QED
    BY <1>1, TypeCorrect, AlwaysInductive, PTL DEF Spec, RulingIsFinal

(* A request leaves a queue in three ways: ruled on, or with its process.  *)
LEMMA QueueStep ==
  ASSUME TypeOK, Next, NEW n \in Replicas, NEW r \in queue[n], r \notin queue'[n]
  PROVE  \/ Approve(n, r) \/ Reject(n, r)
         \/ Crash(n) \/ DeletePod(n)
  <1>1. queue' # queue
    OBVIOUS
  <1>2. \/ \E q \in Requests : QueueForHuman(q)
        \/ \E m \in Replicas, q \in Requests : Approve(m, q) \/ Reject(m, q)
        \/ \E m \in Replicas : Crash(m) \/ DeletePod(m)
    BY <1>1, HumanFrame
  <1>3. ASSUME NEW q \in Requests, QueueForHuman(q)
        PROVE  FALSE
    BY <1>3 DEF QueueForHuman, Enqueue, TypeOK
  <1>4. ASSUME NEW m \in Replicas, NEW q \in Requests, Approve(m, q) \/ Reject(m, q)
        PROVE  m = n /\ q = r
    <2>1. Resolve(m, q)
      BY <1>4 DEF Approve, Reject
    <2>2. \A k \in Replicas : k # m => queue'[k] = queue[k]
      BY <2>1 DEF Resolve, TypeOK
    <2>3. m = n
      BY <2>2
    <2>4. queue'[n] = queue[n] \ {q}
      BY <2>1, <2>3 DEF Resolve, TypeOK
    <2> QED
      BY <2>3, <2>4
  <1>5. ASSUME NEW m \in Replicas, Crash(m) \/ DeletePod(m)
        PROVE  m = n
    BY <1>5 DEF Crash, DeletePod, Dies, TypeOK
  <1> QED
    BY <1>2, <1>3, <1>4, <1>5

(* A waiting request is not lost while its process lives.                  *)
THEOREM HeldRequestsStay == Spec => HeldUntilRuledOrDead
  <1>1. TypeOK /\ [Next]_vars =>
          [\A n \in Replicas : \A r \in queue[n] \ queue'[n] :
             ruling'[r] # "none" \/ status'[n] # "running"]_vars
    <2> SUFFICES ASSUME TypeOK, Next, NEW n \in Replicas, NEW r \in queue[n],
                        r \notin queue'[n]
                 PROVE  ruling'[r] # "none" \/ status'[n] # "running"
      OBVIOUS
    <2>1. r \in Requests
      BY DEF TypeOK
    <2>2. CASE Approve(n, r) \/ Reject(n, r)
      BY <2>1, <2>2 DEF Approve, Reject, TypeOK
    <2>3. CASE Crash(n) \/ DeletePod(n)
      BY <2>3 DEF Crash, DeletePod, TypeOK
    <2> QED
      BY <2>2, <2>3, QueueStep
  <1> QED
    BY <1>1, TypeCorrect, PTL DEF Spec, HeldUntilRuledOrDead
=============================================================================

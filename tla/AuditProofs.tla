---------------------------- MODULE AuditProofs ----------------------------
(***************************************************************************)
(* Theorems about what Gateway tells agents, approvers and its log, for    *)
(* any set of requests and replicas.  Every step is first described by     *)
(* what it does to one request (OneRequest); the invariants follow from    *)
(* that description without looking at the actions again.                  *)
(***************************************************************************)
EXTENDS GatewayProofs

(* The records of a request stay as they are, or get one more.             *)
Unlogged(q) ==
  (\A n \in Replicas : audit'[n][q] = audit[n][q]) /\ (q \in warned' <=> q \in warned)
LogsRecord(q, d) ==
  \/ /\ audit'[home[q]][q] = Append(audit[home[q]][q], d)
     /\ \A n \in Replicas \ {home[q]} : audit'[n][q] = audit[n][q]
     /\ q \in warned' <=> q \in warned
  \/ (\A n \in Replicas : audit'[n][q] = audit[n][q]) /\ q \in warned'

(* The pod n, and its log with it, is gone.                                *)
LogLost(q, n) ==
  /\ status'[n] = "gone" /\ audit'[n][q] = << >>
  /\ \A m \in Replicas \ {n} : audit'[m][q] = audit[m][q] /\ status'[m] = status[m]
  /\ q \in warned' <=> q \in warned

Executed == {"applied", "simulated"}

(* A step that writes no record about q: an outcome it has is kept, and    *)
(* one that it gets claims nothing.                                        *)
Mute(q) ==
  /\ \/ reply'[q] = reply[q]
     \/ /\ reply[q] = NoAnswer /\ reply'[q].decision \in {"none", "lost"}
        /\ reply'[q].status \notin {200, 403}
  /\ \/ answer'[q] = answer[q]
     \/ answer'[q].decision \in {"none", "lost"} /\ answer'[q].status # 200
  /\ \/ ruling'[q] = ruling[q] /\ (Calling(q)' => Calling(q) \/ reply'[q] = NoAnswer)
     \/ ruling[q] = "none" /\ ruling'[q] = "approved"

(* A step that writes record d about q.                                    *)
Writes(q, d) ==
  /\ LogsRecord(q, d) /\ status[home[q]] = "running" /\ UNCHANGED status
  /\ d # "deny" => opa[q] = "allow" /\ (d = "allow" <=> level[q] # "high")
  /\ \/ /\ d \in {"deny", "pending-approval", "allow"}
        /\ reply[q] = NoAnswer /\ answer'[q] = answer[q] /\ ruling'[q] = ruling[q]
        /\ reply'[q] = Http(IF d = "deny" THEN 403 ELSE 200, d)
        /\ d = "allow" => wire'[q] \in Executed
     \/ /\ d = "human-deny" /\ reply'[q] = reply[q] /\ answer'[q] = Http(200, d)
        /\ ruling[q] = "none" /\ ruling'[q] = "denied"
     \/ /\ d = "human-allow" /\ reply'[q] = reply[q] /\ answer'[q] = Http(200, d)
        /\ ruling[q] = "approved" /\ ruling'[q] = "approved"
        /\ Calling(q) /\ ~Calling(q)' /\ wire'[q] \in Executed

(* What a step does to one request, whichever it is.                       *)
OneRequest(q) ==
  /\ home'[q] = home[q]
  /\ level'[q] = level[q] \/ reply'[q] = NoAnswer
  /\ opa'[q] = opa[q] \/ opa[q] = "none"
  /\ wire'[q] = wire[q] \/ wire[q] \in {"none", "sent"}
  /\ \A n \in Replicas : status[n] = "gone" => status'[n] = "gone"
  /\ \/ /\ Mute(q) /\ Unlogged(q)
        /\ status'[home[q]] = "gone" => status[home[q]] = "gone"
     \/ Mute(q) /\ \E n \in Replicas : LogLost(q, n)
     \/ \E d \in Decisions : Writes(q, d)

(* Nothing about q changes but perhaps which loop is busy with others.     *)
Untouched(q) ==
  /\ home'[q] = home[q] /\ level'[q] = level[q] /\ opa'[q] = opa[q] /\ reply'[q] = reply[q]
  /\ answer'[q] = answer[q] /\ ruling'[q] = ruling[q] /\ wire'[q] = wire[q]
  /\ Unlogged(q) /\ (Calling(q)' => Calling(q)) /\ UNCHANGED status

LEMMA UntouchedIsQuiet ==
  ASSUME NEW q \in Requests, Untouched(q) PROVE OneRequest(q)
BY DEF Untouched, OneRequest, Mute

LEMMA RecordLogs ==
  ASSUME TypeOK, NEW r \in Requests, NEW d, Record(home[r], r, d)
  PROVE LogsRecord(r, d) /\ \A q \in Requests : q # r => Unlogged(q)
<1>1. home[r] \in Replicas BY DEF TypeOK
<1>2. CASE audit' = [audit EXCEPT ![home[r]][r] = Append(@, d)] /\ UNCHANGED warned
  <2>1. \A n \in Replicas, q \in Requests :
          audit'[n][q] = IF n = home[r] /\ q = r THEN Append(audit[n][q], d)
                         ELSE audit[n][q]
    BY <1>1, <1>2 DEF TypeOK
  <2>2. /\ audit'[home[r]][r] = Append(audit[home[r]][r], d)
        /\ \A n \in Replicas \ {home[r]} : audit'[n][r] = audit[n][r]
    BY <1>1, <2>1
  <2>3. \A q \in Requests : q # r => \A n \in Replicas : audit'[n][q] = audit[n][q]
    BY <2>1
  <2> QED BY <1>2, <2>2, <2>3 DEF LogsRecord, Unlogged
<1>3. CASE warned' = warned \cup {r} /\ UNCHANGED audit
  BY <1>3 DEF LogsRecord, Unlogged
<1> QED BY <1>2, <1>3 DEF Record

(* One case for each handler step.                                         *)
LEMMA AgentStep ==
  ASSUME TypeOK, Inductive, NEW r \in Requests, AgentHandler(r) \/ OpaDecides(r),
         NEW q \in Requests
  PROVE OneRequest(q)
<1>0. home[r] \in Replicas /\ RequestOK(r) BY DEF TypeOK, Inductive
<1>1. CASE Unauthorized(r) \/ ScoringFails(r) \/ OpaGarbled(r)
  <2>1. PICK s \in {401, 500} : Respond(r, s, "none")
    BY <1>1 DEF Unauthorized, ScoringFails, OpaGarbled
  <2>2. UNCHANGED << home, level, opa, answer, ruling, wire, call, audit, warned, status >>
        /\ phase[r] \in {"new", "opa"}
    BY <1>1 DEF Unauthorized, ScoringFails, OpaGarbled, Resumes, requestVars, humanVars,
       clusterVars, logVars
  <2>3. q # r => Untouched(q)
    BY <2>1, <2>2 DEF Untouched, Unlogged, Calling, Respond, TypeOK
  <2>4. q = r => OneRequest(q)
    BY <1>0, <2>1, <2>2 DEF OneRequest, Mute, Unlogged, Calling, Respond, Http, TypeOK, RequestOK
  <2> QED BY <2>3, <2>4, UntouchedIsQuiet
<1>2. CASE Submit(r) \/ OpaDecides(r)
  <2>1. UNCHANGED << home, reply, answer, ruling, wire, call, audit, warned, status >>
    BY <1>2 DEF Submit, OpaDecides, requestVars, humanVars, clusterVars, logVars
  <2>2. level'[q] = level[q] \/ phase[q] = "new"
    BY <1>2 DEF Submit, OpaDecides, requestVars, TypeOK
  <2>3. phase[q] = "new" => reply[q] = NoAnswer BY DEF Inductive, RequestOK
  <2>4. opa'[q] = opa[q] \/ opa[q] = "none" BY <1>2 DEF Submit, OpaDecides, TypeOK
  <2> QED BY <2>1, <2>2, <2>3, <2>4 DEF OneRequest, Mute, Unlogged, Calling
<1>3. CASE OpaDenied(r) \/ OpaFailed(r)
  <2>1. Resumes(r) /\ Denies(r) BY <1>3 DEF OpaDenied, OpaFailed
  <2>2. /\ UNCHANGED << home, level, opa, answer, ruling, wire, call, status >>
        /\ Record(home[r], r, "deny") /\ Respond(r, 403, "deny")
        /\ phase[r] = "opa" /\ status[home[r]] = "running"
    BY <2>1 DEF Denies, Resumes, LoopFree, requestVars, humanVars, clusterVars
  <2>3. q # r => Untouched(q)
    BY <2>2, RecordLogs DEF Untouched, Calling, Respond, TypeOK
  <2>4. q = r => Writes(q, "deny")
    BY <1>0, <2>2, RecordLogs DEF Writes, Respond, TypeOK, RequestOK
  <2> QED BY <2>2, <2>3, <2>4, UntouchedIsQuiet DEF OneRequest, Decisions
<1>4. CASE QueueForHuman(r)
  <2>2. /\ UNCHANGED << home, level, opa, answer, ruling, wire, call, status >>
        /\ Record(home[r], r, "pending-approval") /\ Respond(r, 200, "pending-approval")
        /\ phase[r] = "opa" /\ status[home[r]] = "running"
        /\ opa[r] = "allow" /\ level[r] = "high"
    BY <1>4 DEF QueueForHuman, Allowed, NeedsHuman, Resumes, LoopFree, requestVars, clusterVars
  <2>3. q # r => Untouched(q)
    BY <2>2, RecordLogs DEF Untouched, Calling, Respond, TypeOK
  <2>4. q = r => Writes(q, "pending-approval")
    BY <1>0, <2>2, RecordLogs DEF Writes, Respond, TypeOK, RequestOK
  <2> QED BY <2>2, <2>3, <2>4, UntouchedIsQuiet DEF OneRequest, Decisions
<1>5. CASE BeginDirect(r)
  <2>1. /\ UNCHANGED << home, level, opa, reply, answer, ruling, wire, audit, warned, status >>
        /\ phase[r] = "opa"
        /\ call' = [call EXCEPT ![home[r]] = [id |-> r, by |-> "agent", sent |-> FALSE]]
    BY <1>5 DEF BeginDirect, Resumes, requestVars, humanVars, logVars
  <2>2. q # r => Untouched(q)
    BY <1>0, <2>1 DEF Untouched, Unlogged, Calling, TypeOK
  <2>3. q = r => OneRequest(q)
    BY <1>0, <2>1 DEF OneRequest, Mute, Unlogged, RequestOK
  <2> QED BY <2>2, <2>3, UntouchedIsQuiet
<1> QED BY <1>1, <1>2, <1>3, <1>4, <1>5 DEF AgentHandler

LEMMA ApproverStep ==
  ASSUME TypeOK, Inductive, NEW n \in Replicas, NEW r \in Requests, ApproveHandler(n, r),
         NEW q \in Requests
  PROVE OneRequest(q)
<1>1. CASE ApproveUnauthorized(n, r) \/ ApproveUnknown(n, r)
  <2>1. PICK s \in {401, 404} : Answer(r, s, "none")
    BY <1>1 DEF ApproveUnauthorized, ApproveUnknown
  <2>2. UNCHANGED << home, level, opa, reply, ruling, wire, call, audit, warned, status >>
    BY <1>1 DEF ApproveUnauthorized, ApproveUnknown, requestVars, clusterVars, logVars
  <2>3. answer'[q] = answer[q] \/ answer'[q] = Http(s, "none")
    BY <2>1 DEF Answer, TypeOK
  <2> QED BY <2>2, <2>3 DEF OneRequest, Mute, Unlogged, Calling, Http
<1>2. CASE Approve(n, r)
  <2>1. /\ UNCHANGED << home, level, opa, reply, answer, wire, audit, warned, status >>
        /\ ruling' = [ruling EXCEPT ![r] = "approved"] /\ r \in queue[n]
        /\ call' = [call EXCEPT ![n] = [id |-> r, by |-> "approver", sent |-> FALSE]]
    BY <1>2 DEF Approve, requestVars, logVars
  <2>2. ruling[r] = "none" BY <2>1 DEF Inductive, HeldOK
  <2>3. q # r => Untouched(q)
    BY <2>1 DEF Untouched, Unlogged, Calling, TypeOK
  <2>4. q = r => OneRequest(q)
    BY <2>1, <2>2 DEF OneRequest, Mute, Unlogged, TypeOK
  <2> QED BY <2>3, <2>4, UntouchedIsQuiet
<1>3. CASE Reject(n, r)
  <2>1. /\ UNCHANGED << home, level, opa, reply, wire, call, status >>
        /\ ruling' = [ruling EXCEPT ![r] = "denied"] /\ r \in queue[n]
        /\ Record(n, r, "human-deny") /\ Answer(r, 200, "human-deny")
    BY <1>3 DEF Reject, HumanDecision, requestVars, clusterVars
  <2>2. /\ ruling[r] = "none" /\ home[r] = n /\ status[n] = "running"
        /\ opa[r] = "allow" /\ level[r] = "high"
    BY <2>1 DEF Inductive, HeldOK
  <2>3. q # r => Untouched(q)
    BY <2>1, <2>2, RecordLogs DEF Untouched, Calling, Answer, TypeOK
  <2>4. q = r => Writes(q, "human-deny")
    BY <2>1, <2>2, RecordLogs DEF Writes, Answer, TypeOK
  <2> QED BY <2>1, <2>3, <2>4, UntouchedIsQuiet DEF OneRequest, Decisions
<1> QED BY <1>1, <1>2, <1>3 DEF ApproveHandler

(* The end of a Kubernetes call, but for what it writes to the log.        *)
LEMMA FinishOf ==
  ASSUME TypeOK, Inductive, NEW n \in Replicas, NEW r \in Requests, call[n] # Idle,
         r = call[n].id, NEW s, NEW d, Finish(n, s, d)
  PROVE /\ UNCHANGED << home, level, opa, ruling, status >>
        /\ home[r] = n /\ status[n] = "running" /\ Calling(r) /\ ~Calling(r)'
        /\ \A q \in Requests : Calling(q)' => Calling(q)
        /\ \A q \in Requests : q # r => reply'[q] = reply[q] /\ answer'[q] = answer[q]
        /\ opa[r] = "allow"
        /\ \/ /\ call[n].by = "agent" /\ reply[r] = NoAnswer /\ answer'[r] = answer[r]
              /\ reply'[r] = Http(s, d) /\ level[r] # "high"
           \/ /\ call[n].by = "approver" /\ ruling[r] = "approved" /\ level[r] = "high"
              /\ reply'[r] = reply[r] /\ answer'[r] = Http(s, d)
<1>1. CallOK(n) /\ RequestOK(r) BY DEF Inductive
<1>2. UNCHANGED << home, level, opa, ruling, status >> BY DEF Finish, requestVars
<1>3. home[r] = n /\ status[n] = "running" /\ opa[r] = "allow" BY <1>1 DEF CallOK
<1>4. call'[n] = Idle /\ \A m \in Replicas : m # n => call'[m] = call[m]
  BY DEF Finish, TypeOK
<1>5. ~Calling(r)'
  <2>1. ASSUME NEW m \in Replicas, m # n, call[m].id = r PROVE FALSE
    <3>1. call[m] # Idle BY <2>1, RequestsAssumption DEF Idle
    <3> QED BY <2>1, <3>1, CallsAreDistinct
  <2> QED BY <1>4, <2>1, RequestsAssumption DEF Calling, Idle
<1>6. \A q \in Requests : Calling(q)' => Calling(q)
  BY <1>4, RequestsAssumption DEF Calling, Idle
<1>7. CASE call[n].by = "agent"
  <2>1. Respond(r, s, d) /\ UNCHANGED answer BY <1>7 DEF Finish
  <2>2. phase[r] = "exec" /\ reply[r] = NoAnswer /\ level[r] # "high"
    BY <1>1, <1>7 DEF CallOK, RequestOK
  <2> QED BY <1>2, <1>3, <1>5, <1>6, <1>7, <2>1, <2>2 DEF Respond, Calling, TypeOK
<1>8. CASE call[n].by = "approver"
  <2>1. Answer(r, s, d) /\ UNCHANGED reply BY <1>8 DEF Finish
  <2>2. ruling[r] = "approved" /\ level[r] = "high" BY <1>1, <1>8 DEF CallOK, RequestOK
  <2> QED BY <1>2, <1>3, <1>5, <1>6, <1>8, <2>1, <2>2 DEF Answer, Calling, TypeOK
<1> QED BY <1>7, <1>8, CallHasId

LEMMA CallStep ==
  ASSUME TypeOK, Inductive, NEW n \in Replicas, Send(n) \/ CallReturns(n),
         NEW q \in Requests
  PROVE OneRequest(q)
<1>0. call[n] # Idle
  BY DEF Send, CallReturns, ReturnDone, ReturnSimulated, ReturnK8sError, ReturnUncaught
<1> PICK r \in Requests : r = call[n].id BY <1>0, CallHasId
<1>1. CallOK(n) BY DEF Inductive
<1>2. CASE Send(n)
  <2>1. UNCHANGED << home, level, opa, reply, answer, ruling, audit, warned, status >>
    BY <1>2 DEF Send, requestVars, humanVars, logVars
  <2>2. wire'[q] = wire[q] \/ wire[q] = "none"
    BY <1>0, <1>1, <1>2 DEF Send, CallOK, TypeOK
  <2>3. \A m \in Replicas : call'[m].id = call[m].id
    BY <1>0, <1>2, CallHasId DEF Send, TypeOK, Calls
  <2> QED BY <2>1, <2>2, <2>3 DEF OneRequest, Mute, Unlogged, Calling
<1>3. CASE ReturnK8sError(n) \/ ReturnUncaught(n)
  <2>1. PICK s \in {500, 502} : Finish(n, s, "none")
    BY <1>3 DEF ReturnK8sError, ReturnUncaught
  <2>2. UNCHANGED << wire, audit, warned >>
    BY <1>3 DEF ReturnK8sError, ReturnUncaught, logVars
  <2>3. q # r => Untouched(q)
    BY <1>0, <2>1, <2>2, FinishOf DEF Untouched, Unlogged
  <2>4. CASE q = r
    <3>1. \/ reply'[q] = reply[q] /\ answer'[q] = Http(s, "none")
          \/ reply[q] = NoAnswer /\ reply'[q] = Http(s, "none") /\ answer'[q] = answer[q]
      BY <1>0, <2>1, <2>4, FinishOf
    <3>2. ruling'[q] = ruling[q] /\ ~Calling(q)' BY <1>0, <2>1, <2>4, FinishOf
    <3>3. Mute(q) BY <3>1, <3>2 DEF Mute, Http
    <3>4. home'[q] = home[q] /\ level'[q] = level[q] /\ opa'[q] = opa[q] /\ UNCHANGED status
      BY <1>0, <2>1, FinishOf
    <3> QED BY <2>2, <3>3, <3>4 DEF OneRequest, Unlogged
  <2> QED BY <2>3, <2>4, UntouchedIsQuiet
<1>4. CASE ReturnDone(n) \/ ReturnSimulated(n)
  <2> DEFINE d == ExecDecision(n)
  <2>1. Finish(n, 200, d) /\ Record(home[r], r, d)
    <3>1. home[r] = n BY <1>0, <1>1 DEF CallOK
    <3> QED BY <1>4, <3>1 DEF ReturnDone, ReturnSimulated
  <2>2. /\ wire'[r] \in Executed
        /\ wire'[q] = wire[q] \/ wire[q] \in {"none", "sent"}
    BY <1>0, <1>1, <1>4 DEF ReturnDone, ReturnSimulated, CallOK, TypeOK, Executed
  <2>3. CASE q # r
    <3>1. wire'[q] = wire[q] BY <1>4, <2>3 DEF ReturnDone, ReturnSimulated, TypeOK
    <3>2. Untouched(q)
      BY <1>0, <2>1, <2>3, <3>1, FinishOf, RecordLogs DEF Untouched
    <3> QED BY <3>2, UntouchedIsQuiet
  <2>4. CASE q = r /\ call[n].by = "agent"
    <3>1. d = "allow" BY <2>4 DEF ExecDecision
    <3>2. Writes(q, "allow")
      BY <1>0, <2>1, <2>2, <2>4, <3>1, FinishOf, RecordLogs DEF Writes
    <3> QED BY <1>0, <2>1, <2>2, <2>4, <3>2, FinishOf DEF OneRequest, Decisions
  <2>5. CASE q = r /\ call[n].by = "approver"
    <3>1. d = "human-allow" BY <2>5 DEF ExecDecision, HumanDecision
    <3>2. Writes(q, "human-allow")
      BY <1>0, <2>1, <2>2, <2>5, <3>1, FinishOf, RecordLogs DEF Writes
    <3> QED BY <1>0, <2>1, <2>2, <2>5, <3>2, FinishOf DEF OneRequest, Decisions
  <2> QED BY <1>0, <2>3, <2>4, <2>5, CallHasId
<1> QED BY <1>2, <1>3, <1>4 DEF CallReturns

LEMMA ApiStep ==
  ASSUME TypeOK, NEW r \in Requests, ApiApplies(r) \/ ApiRefuses(r), NEW q \in Requests
  PROVE OneRequest(q)
<1>1. UNCHANGED << home, level, opa, reply, answer, ruling, call, audit, warned, status >>
  BY DEF ApiApplies, ApiRefuses, requestVars, humanVars, logVars
<1>2. wire'[q] = wire[q] \/ wire[q] = "sent" BY DEF ApiApplies, ApiRefuses, TypeOK
<1> QED BY <1>1, <1>2 DEF OneRequest, Mute, Unlogged, Calling

LEMMA ProcessStep ==
  ASSUME TypeOK, Inductive, NEW n \in Replicas, Crash(n) \/ Restart(n) \/ DeletePod(n),
         NEW q \in Requests
  PROVE OneRequest(q)
<1>1. CASE Restart(n)
  <2>1. UNCHANGED << home, level, opa, reply, answer, ruling, wire, call, audit, warned >>
    BY <1>1 DEF Restart, requestVars, humanVars, clusterVars, logVars
  <2>2. \A m \in Replicas : status[m] = "gone" <=> status'[m] = "gone"
    BY <1>1 DEF Restart, TypeOK
  <2>3. home[q] \in Replicas BY DEF TypeOK
  <2> QED BY <2>1, <2>2, <2>3 DEF OneRequest, Mute, Unlogged, Calling
<1>2. CASE Crash(n) \/ DeletePod(n)
  <2>1. Dies(n) BY <1>2 DEF Crash, DeletePod
  <2>2. UNCHANGED << home, level, opa, ruling, wire, warned >> BY <2>1 DEF Dies, requestVars
  <2>3. \/ reply'[q] = reply[q]
        \/ reply[q] = NoAnswer /\ reply'[q] = Dropped
    BY <2>1 DEF Dies, Inductive, RequestOK
  <2>4. answer'[q] = answer[q] \/ answer'[q] = Dropped BY <2>1 DEF Dies
  <2>5. Calling(q)' => Calling(q)
    BY <2>1, RequestsAssumption DEF Dies, Calling, Idle, TypeOK
  <2>6. Mute(q) BY <2>2, <2>3, <2>4, <2>5 DEF Mute, Dropped
  <2>7. \A m \in Replicas : status[m] = "gone" => status'[m] = "gone"
    BY <1>2 DEF Crash, DeletePod, TypeOK
  <2>8. \/ Unlogged(q) /\ (status'[home[q]] = "gone" => status[home[q]] = "gone")
        \/ \E m \in Replicas : LogLost(q, m)
    <3>1. CASE Crash(n)
      <4>1. Unlogged(q) BY <2>2, <3>1 DEF Crash, Unlogged
      <4>2. status'[home[q]] = "gone" => status[home[q]] = "gone"
        BY <3>1 DEF Crash, TypeOK
      <4> QED BY <4>1, <4>2
    <3>2. CASE DeletePod(n)
      <4>1. status'[n] = "gone" /\ audit'[n][q] = << >>
        BY <3>2 DEF DeletePod, TypeOK
      <4>2. \A m \in Replicas \ {n} :
              audit'[m][q] = audit[m][q] /\ status'[m] = status[m]
        BY <3>2 DEF DeletePod, TypeOK
      <4> QED BY <2>2, <4>1, <4>2 DEF LogLost
    <3> QED BY <1>2, <3>1, <3>2
  <2> QED BY <2>2, <2>6, <2>7, <2>8 DEF OneRequest
<1> QED BY <1>1, <1>2

(* Every step of the gateway and of what surrounds it.                     *)
LEMMA StepOfOne ==
  ASSUME TypeOK, Inductive, [Next]_vars, NEW q \in Requests
  PROVE OneRequest(q)
<1>1. CASE UNCHANGED vars
  BY <1>1 DEF vars, OneRequest, Mute, Unlogged, Calling
<1>2. CASE Next
  BY <1>2, AgentStep, ApproverStep, CallStep, ApiStep, ProcessStep DEF Next
<1> QED BY <1>1, <1>2

-----------------------------------------------------------------------------
(* What was answered is in the log                                         *)

(* A record that was written stays, for as long as the log is there.       *)
LEMMA LoggedStays ==
  ASSUME TypeOK, NEW q \in Requests, OneRequest(q), NEW d, Logged(q, d)
  PROVE Logged(q, d)'
<1> DEFINE t == audit[home[q]][q]
<1>0. home[q] \in Replicas /\ home'[q] = home[q] /\ t \in Seq(Decisions)
  BY DEF TypeOK, OneRequest
<1>1. CASE status[home[q]] = "gone"
  BY <1>0, <1>1 DEF OneRequest, Logged
<1>2. CASE q \in warned
  BY <1>0, <1>2 DEF OneRequest, Unlogged, LogLost, Writes, LogsRecord, Logged
<1>3. CASE \E i \in DOMAIN t : t[i] = d
  <2>1. PICK i \in DOMAIN t : t[i] = d BY <1>3
  <2>2. CASE audit'[home[q]][q] = t
    BY <1>0, <2>1, <2>2 DEF Logged
  <2>3. CASE \E e \in Decisions : audit'[home[q]][q] = Append(t, e)
    <3>1. PICK e \in Decisions : audit'[home[q]][q] = Append(t, e) BY <2>3
    <3>2. i \in DOMAIN Append(t, e) /\ Append(t, e)[i] = d BY <1>0, <2>1
    <3> QED BY <1>0, <3>1, <3>2 DEF Logged
  <2>4. CASE \E n \in Replicas : LogLost(q, n)
    BY <1>0, <2>2, <2>4 DEF LogLost, Logged
  <2> QED BY <1>0, <2>2, <2>3, <2>4 DEF OneRequest, Unlogged, Writes, LogsRecord
<1> QED BY <1>1, <1>2, <1>3 DEF Logged

(* The record that a step writes can be found in the log after it.         *)
LEMMA WrittenIsLogged ==
  ASSUME TypeOK, NEW q \in Requests, OneRequest(q), NEW d \in Decisions, Writes(q, d)
  PROVE Logged(q, d)'
<1> DEFINE t == audit[home[q]][q]
<1>0. home[q] \in Replicas /\ home'[q] = home[q] /\ t \in Seq(Decisions)
  BY DEF TypeOK, OneRequest
<1>1. Len(t) + 1 \in DOMAIN Append(t, d) /\ Append(t, d)[Len(t) + 1] = d BY <1>0
<1>2. audit'[home[q]][q] = Append(t, d) \/ q \in warned' BY DEF Writes, LogsRecord
<1> QED BY <1>0, <1>1, <1>2 DEF Logged

AnswerLogged(r) ==
  /\ reply[r].status \in {200, 403} => Logged(r, reply[r].decision)
  /\ answer[r].status = 200 => Logged(r, answer[r].decision)

LEMMA StepAnswerLogged ==
  ASSUME TypeOK, NEW q \in Requests, OneRequest(q), AnswerLogged(q)
  PROVE AnswerLogged(q)'
<1>1. CASE Mute(q)
  <2>1. reply'[q].status \in {200, 403} => reply'[q] = reply[q] BY <1>1 DEF Mute
  <2>2. answer'[q].status = 200 => answer'[q] = answer[q] BY <1>1 DEF Mute
  <2> QED BY <2>1, <2>2, LoggedStays DEF AnswerLogged
<1>2. ASSUME NEW d \in Decisions, Writes(q, d) PROVE AnswerLogged(q)'
  <2>1. Logged(q, d)' BY <1>2, WrittenIsLogged
  <2>2. reply'[q] = reply[q] \/ reply'[q].decision = d BY <1>2 DEF Writes, Http
  <2>3. answer'[q] = answer[q] \/ answer'[q].decision = d BY <1>2 DEF Writes, Http
  <2> QED BY <2>1, <2>2, <2>3, LoggedStays DEF AnswerLogged
<1> QED BY <1>1, <1>2 DEF OneRequest

(* A request answered 200 or 403, and a human decision answered 200, is in *)
(* the log of its replica with that decision, or stderr tells, or the pod  *)
(* is gone: main.py audits before it answers.                              *)
THEOREM AnswersAreLogged == Spec => []AnsweredMeansLogged
<1> DEFINE I == \A r \in Requests : AnswerLogged(r)
<1>1. Init => I BY DEF Init, AnswerLogged, NoAnswer
<1>2. TypeOK /\ Inductive /\ I /\ [Next]_vars => I'
  BY StepOfOne, StepAnswerLogged
<1>3. I => AnsweredMeansLogged BY DEF AnswerLogged, AnsweredMeansLogged
<1> HIDE DEF I
<1> QED BY <1>1, <1>2, <1>3, TypeCorrect, AlwaysInductive, PTL DEF Spec

-----------------------------------------------------------------------------
(* What the log says was executed was executed                             *)

ExecutionReal(r) ==
  \A n \in Replicas : \A i \in DOMAIN audit[n][r] :
    audit[n][r][i] \in {"allow", "human-allow"} => wire[r] \in Executed

LEMMA StepExecutionReal ==
  ASSUME TypeOK, NEW q \in Requests, OneRequest(q), ExecutionReal(q)
  PROVE ExecutionReal(q)'
<1> SUFFICES ASSUME NEW n \in Replicas, NEW i \in DOMAIN audit'[n][q],
                    audit'[n][q][i] \in {"allow", "human-allow"}
             PROVE wire'[q] \in Executed
  BY DEF ExecutionReal
<1> DEFINE t == audit[n][q]
<1>0. t \in Seq(Decisions) BY DEF TypeOK
<1>1. wire[q] \in Executed => wire'[q] \in Executed BY DEF OneRequest, Executed
<1>2. CASE audit'[n][q] = t BY <1>1, <1>2 DEF ExecutionReal
<1>3. CASE audit'[n][q] = << >> BY <1>3
<1>4. ASSUME NEW d \in Decisions, Writes(q, d), audit'[n][q] = Append(t, d)
      PROVE wire'[q] \in Executed
  <2>1. CASE i \in DOMAIN t /\ Append(t, d)[i] = t[i]
    BY <1>1, <1>4, <2>1 DEF ExecutionReal
  <2>2. CASE Append(t, d)[i] = d
    <3>1. d \in {"allow", "human-allow"} BY <1>4, <2>2
    <3> QED BY <1>4, <3>1 DEF Writes
  <2>3. \/ i \in DOMAIN t /\ Append(t, d)[i] = t[i]
        \/ Append(t, d)[i] = d
    BY <1>0, <1>4
  <2> QED BY <2>1, <2>2, <2>3
<1>5. CASE \E d \in Decisions : Writes(q, d)
  <2>1. PICK d \in Decisions : Writes(q, d) BY <1>5
  <2>2. audit'[n][q] = t \/ audit'[n][q] = Append(t, d) BY <2>1 DEF Writes, LogsRecord
  <2> QED BY <1>2, <1>4, <2>1, <2>2
<1>6. CASE \E m \in Replicas : LogLost(q, m) BY <1>2, <1>3, <1>6 DEF LogLost
<1> QED BY <1>2, <1>5, <1>6 DEF OneRequest, Unlogged

(* The log claims an execution only of what the API server carried out, or *)
(* of a result marked [SIMULATED]: main.py audits after execute_action.    *)
THEOREM LogIsTruthful == Spec => []LoggedExecutionIsReal
<1> DEFINE I == \A r \in Requests : ExecutionReal(r)
<1>1. Init => I BY DEF Init, ExecutionReal
<1>2. TypeOK /\ Inductive /\ I /\ [Next]_vars => I'
  BY StepOfOne, StepExecutionReal
<1>3. Inductive /\ I => LoggedExecutionIsReal
  BY DEF Inductive, RequestOK, ExecutionReal, Executed, LoggedExecutionIsReal
<1> HIDE DEF I
<1> QED BY <1>1, <1>2, <1>3, TypeCorrect, AlwaysInductive, PTL DEF Spec

-----------------------------------------------------------------------------
(* The order of the records                                                *)

(* The log t of a request that is on record as far as its answer and the   *)
(* ruling on it say.  Of an approval the log still says nothing while the  *)
(* approved call lasts, and never does if the call fails.                  *)
InStep(r, t) ==
  \/ reply[r].decision \in {"none", "lost"} /\ ruling[r] = "none" /\ t = << >>
  \/ reply[r].decision = "allow" /\ ruling[r] = "none" /\ t = << "allow" >>
  \/ reply[r].decision = "deny" /\ ruling[r] = "none" /\ t = << "deny" >>
  \/ /\ reply[r].decision = "pending-approval"
     /\ \/ ruling[r] \in {"none", "approved"} /\ t = << "pending-approval" >>
        \/ ruling[r] = "denied" /\ t = << "pending-approval", "human-deny" >>
        \/ /\ ruling[r] = "approved" /\ ~Calling(r)
           /\ t = << "pending-approval", "human-allow" >>

TrailOK(r) ==
  /\ \A n \in Replicas \ {home[r]} : audit[n][r] = << >>
  /\ IF status[home[r]] = "gone" THEN audit[home[r]][r] = << >>
     ELSE r \notin warned => InStep(r, audit[home[r]][r])

LEMMA MuteKeepsStep ==
  ASSUME TypeOK, Inductive, Inductive', NEW q \in Requests, Mute(q), NEW t, InStep(q, t)
  PROVE InStep(q, t)'
<1>1. ruling'[q] # "none" => reply'[q] = Http(200, "pending-approval")
  BY DEF Inductive, RequestOK
<1>2. ruling'[q] # "none" => reply'[q] # NoAnswer /\ reply'[q] = reply[q]
  BY <1>1 DEF Mute, Http, NoAnswer
<1>3. CASE ruling[q] = "none" /\ ruling'[q] = "approved"
  <2>1. reply'[q] = reply[q] /\ reply[q].decision = "pending-approval"
    BY <1>1, <1>2, <1>3 DEF Http
  <2> QED BY <1>3, <2>1 DEF InStep
<1>4. CASE ruling'[q] = ruling[q] /\ (Calling(q)' => Calling(q) \/ reply'[q] = NoAnswer)
  <2>1. CASE reply'[q] = reply[q]
    <3>1. ruling[q] # "none" => (Calling(q)' => Calling(q)) BY <1>2, <1>4
    <3> QED BY <1>4, <2>1, <3>1 DEF InStep
  <2>2. CASE reply[q] = NoAnswer /\ reply'[q].decision \in {"none", "lost"}
    <3>1. ruling[q] = "none" /\ ruling'[q] = "none"
      <4>1. ruling'[q] # "none" => reply[q] = reply'[q] /\ reply'[q] # NoAnswer BY <1>2
      <4> QED BY <1>4, <2>2, <4>1
    <3>2. t = << >> BY <2>2, <3>1 DEF InStep, NoAnswer
    <3> QED BY <2>2, <3>1, <3>2 DEF InStep
  <2> QED BY <2>1, <2>2 DEF Mute
<1> QED BY <1>3, <1>4 DEF Mute

LEMMA AppendIs ==
  ASSUME NEW S, NEW s \in Seq(S), NEW b \in S
  PROVE  /\ Append(s, b) \in Seq(S) /\ Len(Append(s, b)) = Len(s) + 1
         /\ \A i \in 1 .. Len(s) : Append(s, b)[i] = s[i]
         /\ Append(s, b)[Len(s) + 1] = b
OBVIOUS

LEMMA AppendToOne ==
  ASSUME NEW S, NEW a \in S, NEW b \in S
  PROVE  Append(<< a >>, b) = << a, b >>
<1> DEFINE s == << a >>
           t == Append(s, b)
           u == << a, b >>
<1>1. s \in Seq(S) /\ Len(s) = 1 /\ s[1] = a OBVIOUS
<1>2. u \in Seq(S) /\ Len(u) = 2 /\ u[1] = a /\ u[2] = b OBVIOUS
<1>3. /\ t \in Seq(S) /\ Len(t) = Len(s) + 1 /\ t[Len(s) + 1] = b
      /\ \A i \in 1 .. Len(s) : t[i] = s[i]
  BY <1>1, AppendIs DEF s
<1> HIDE DEF s, t, u
<1>4. Len(s) + 1 = 2 /\ 1 \in 1 .. Len(s) BY <1>1
<1>5. Len(t) = 2 /\ t[1] = a /\ t[2] = b BY <1>1, <1>3, <1>4
<1>6. t \in Seq(S) /\ Len(t) = Len(u) BY <1>2, <1>3, <1>5
<1>7. \A i \in 1 .. 2 : i = 1 \/ i = 2 OBVIOUS
<1>8. \A i \in 1 .. Len(t) : t[i] = u[i] BY <1>2, <1>5, <1>7
<1>9. t = u BY <1>2, <1>6, <1>8, SeqEqual
<1> QED BY <1>9 DEF s, t, u

LEMMA WriteKeepsStep ==
  ASSUME TypeOK, Inductive, Inductive', NEW q \in Requests, NEW d \in Decisions,
         Writes(q, d), NEW t, InStep(q, t)
  PROVE InStep(q, Append(t, d))'
<1>1. ruling'[q] # "none" => reply'[q].decision = "pending-approval"
  BY DEF Inductive, RequestOK, Http
<1>2. CASE /\ d \in {"deny", "pending-approval", "allow"}
           /\ reply[q] = NoAnswer /\ ruling'[q] = ruling[q]
           /\ reply'[q].decision = d
  <2>1. ruling[q] = "none" /\ t = << >> BY <1>2 DEF InStep, NoAnswer
  <2>2. Append(t, d) = << d >> BY <2>1
  <2> QED BY <1>2, <2>1, <2>2 DEF InStep
<1>3. CASE d = "human-deny" /\ reply'[q] = reply[q] /\ ruling[q] = "none" /\ ruling'[q] = "denied"
  <2>1. t = << "pending-approval" >> BY <1>1, <1>3 DEF InStep
  <2>2. Append(t, d) = << "pending-approval", "human-deny" >>
    BY <1>3, <2>1, AppendToOne DEF Decisions
  <2> QED BY <1>1, <1>3, <2>2 DEF InStep
<1>4. CASE /\ d = "human-allow" /\ reply'[q] = reply[q]
           /\ ruling[q] = "approved" /\ ruling'[q] = "approved"
           /\ Calling(q) /\ ~Calling(q)'
  <2>1. t = << "pending-approval" >> BY <1>1, <1>4 DEF InStep
  <2>2. Append(t, d) = << "pending-approval", "human-allow" >>
    BY <1>4, <2>1, AppendToOne DEF Decisions
  <2> QED BY <1>1, <1>4, <2>2 DEF InStep
<1> QED BY <1>2, <1>3, <1>4 DEF Writes, Http

LEMMA StepTrail ==
  ASSUME TypeOK, Inductive, Inductive', NEW q \in Requests, OneRequest(q), TrailOK(q)
  PROVE TrailOK(q)'
<1> DEFINE h == home[q]
<1> PICK t : t = audit[h][q] OBVIOUS
<1>0. h \in Replicas /\ home'[q] = h BY DEF TypeOK, OneRequest
<1>1. CASE /\ Mute(q) /\ audit'[h][q] = t /\ (q \in warned' <=> q \in warned)
           /\ status'[h] = "gone" <=> status[h] = "gone"
           /\ \A n \in Replicas \ {h} : audit'[n][q] = << >>
  <2>1. InStep(q, t) => InStep(q, t)' BY <1>1, MuteKeepsStep
  <2>2. InStep(q, t)' => InStep(q, audit[home[q]][q])' BY <1>0, <1>1 DEF InStep
  <2> QED BY <1>0, <1>1, <2>1, <2>2 DEF TrailOK
<1>2. CASE Mute(q) /\ Unlogged(q) /\ (status'[h] = "gone" => status[h] = "gone")
  BY <1>0, <1>1, <1>2 DEF TrailOK, Unlogged, OneRequest
<1>3. ASSUME NEW n \in Replicas, LogLost(q, n), Mute(q) PROVE TrailOK(q)'
  <2>1. \A m \in Replicas \ {h} : audit'[m][q] = << >> BY <1>3 DEF TrailOK, LogLost
  <2>2. CASE n = h BY <1>0, <1>3, <2>1, <2>2 DEF TrailOK, LogLost
  <2>3. CASE n # h BY <1>0, <1>1, <1>3, <2>1, <2>3 DEF LogLost
  <2> QED BY <2>2, <2>3
<1>4. ASSUME NEW d \in Decisions, Writes(q, d) PROVE TrailOK(q)'
  <2>1. \A m \in Replicas \ {h} : audit'[m][q] = << >>
    BY <1>4 DEF TrailOK, Writes, LogsRecord
  <2>2. status[h] = "running" /\ status'[h] = "running" BY <1>4 DEF Writes
  <2>3. q \notin warned' => q \notin warned /\ audit'[h][q] = Append(t, d)
    BY <1>4 DEF Writes, LogsRecord
  <2>4. InStep(q, t) => InStep(q, Append(t, d))' BY <1>4, WriteKeepsStep
  <2>5. q \notin warned' /\ InStep(q, Append(t, d))' => InStep(q, audit[home[q]][q])'
    BY <1>0, <2>3 DEF InStep
  <2> QED BY <1>0, <2>1, <2>2, <2>3, <2>4, <2>5 DEF TrailOK
<1> QED BY <1>2, <1>3, <1>4 DEF OneRequest

(* One outcome per request, a human's only after the pending record and in *)
(* the same log: the order of main.py's audit.log calls across handlers,   *)
(* replicas and crashes.                                                   *)
THEOREM TrailsAreLegal == Spec => []AuditTrailsAreLegal
<1> DEFINE I == \A r \in Requests : TrailOK(r)
<1>1. Init => I BY DEF Init, TrailOK, InStep, NoAnswer
<1>2. TypeOK /\ Inductive /\ I /\ [Next]_vars => I'
  BY StepInductive, StepOfOne, StepTrail
<1>3. TypeOK /\ I => AuditTrailsAreLegal
  BY DEF TypeOK, TrailOK, InStep, AuditTrailsAreLegal, Trails
<1> HIDE DEF I
<1> QED BY <1>1, <1>2, <1>3, TypeCorrect, AlwaysInductive, PTL DEF Spec

-----------------------------------------------------------------------------
(* What an answer of the gateway tells its caller                          *)

AnswerTrue(r) ==
  /\ reply[r].decision = "allow" => wire[r] \in Executed
  /\ answer[r].decision = "human-allow" => wire[r] \in Executed
  /\ reply[r].decision = "pending-approval" => opa[r] = "allow" /\ level[r] = "high"
  /\ reply[r].status = 200 => reply[r].decision \in {"allow", "pending-approval"}

LEMMA StepAnswerTrue ==
  ASSUME TypeOK, NEW q \in Requests, OneRequest(q), AnswerTrue(q)
  PROVE AnswerTrue(q)'
<1>1. wire[q] \in Executed => wire'[q] \in Executed BY DEF OneRequest, Executed
<1>2. reply'[q] = NoAnswer \/ level'[q] = level[q] BY DEF OneRequest
<1>3. opa[q] = "allow" => opa'[q] = "allow" BY DEF OneRequest
<1>4. CASE Mute(q) BY <1>1, <1>2, <1>3, <1>4 DEF Mute, AnswerTrue, NoAnswer
<1>5. ASSUME NEW d \in Decisions, Writes(q, d) PROVE AnswerTrue(q)'
  <2>1. d = "pending-approval" => opa[q] = "allow" /\ level[q] = "high"
    BY <1>5 DEF Writes
  <2> QED BY <1>1, <1>2, <1>3, <1>5, <2>1 DEF Writes, AnswerTrue, NoAnswer, Http
<1> QED BY <1>4, <1>5 DEF OneRequest

(* "allow" and "human-allow" are answered only about what was carried out  *)
(* or simulated, "pending-approval" only about a high-risk request that    *)
(* OPA allowed.                                                            *)
THEOREM AnswersAreTrue == Spec => [](\A r \in Requests : AnswerTrue(r))
<1> DEFINE I == \A r \in Requests : AnswerTrue(r)
<1>1. Init => I BY DEF Init, AnswerTrue, NoAnswer
<1>2. TypeOK /\ Inductive /\ I /\ [Next]_vars => I'
  BY StepOfOne, StepAnswerTrue
<1> HIDE DEF I
<1>3. Spec => []I BY <1>1, <1>2, TypeCorrect, AlwaysInductive, PTL DEF Spec
<1> QED BY <1>3 DEF I
=============================================================================

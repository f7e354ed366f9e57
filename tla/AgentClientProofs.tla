------------------------- MODULE AgentClientProofs -------------------------
(***************************************************************************)
(* Theorems about what an agent learns from GatewayClient, for any number  *)
(* of calls of action(), any replicas and any behaviour of the network and *)
(* of the proxy between them.  The gateway's own theorems are carried over *)
(* because every step of the client, seen from the gateway, is a stutter.  *)
(***************************************************************************)
EXTENDS AgentClient, AuditProofs

LEMMA ClientIsGateway == ClientSpec => Spec
<1>1. ClientInit => Init BY DEF ClientInit
<1>2. [ClientNext]_allVars => [Next]_vars
  BY DEF ClientNext, allVars, Post, Receive, Unavailable, Unreachable, Deliver, GatewayStep
<1> QED BY <1>1, <1>2, PTL DEF ClientSpec, Spec

LEMMA AttemptsAreRequests ==
  \A a \in Asks, i \in {1, 2} : << a, i >> \in Requests
BY AttemptsAssumption

(* What the gateway guarantees of each request, at every moment.           *)
GatewayOK == TypeOK /\ Inductive /\ \A r \in Requests : AnswerTrue(r)

LEMMA GatewayKeeps == ClientSpec => []GatewayOK
BY ClientIsGateway, TypeCorrect, AlwaysInductive, AnswersAreTrue, PTL DEF GatewayOK

-----------------------------------------------------------------------------
(* Types                                                                   *)

LEMMA InitClientType == ClientInit => ClientTypeOK
BY DEF ClientInit, ClientTypeOK, Results

LEMMA OutcomeType == \A code : Outcome(code) \in Results
BY DEF Outcome, Results

LEMMA StepClientType == ClientTypeOK /\ [ClientNext]_allVars => ClientTypeOK'
<1> SUFFICES ASSUME ClientTypeOK, [ClientNext]_allVars PROVE ClientTypeOK'
  OBVIOUS
<1>1. CASE UNCHANGED allVars BY <1>1 DEF allVars, clientVars, ClientTypeOK
<1>2. CASE GatewayStep BY <1>2 DEF GatewayStep, clientVars, ClientTypeOK
<1>3. ASSUME NEW r \in Requests, Deliver(r) PROVE ClientTypeOK'
  BY <1>3 DEF Deliver, ClientTypeOK
<1>4. ASSUME NEW a \in Asks, Post(a) PROVE ClientTypeOK'
  <2>1. << a, 1 >> \in Requests BY AttemptsAreRequests
  <2> QED BY <1>4, <2>1 DEF Post, ClientTypeOK
<1>5. ASSUME NEW a \in Asks, Unavailable(a) PROVE ClientTypeOK'
  <2>1. << a, 1 >> \in Requests /\ << a, 2 >> \in Requests BY AttemptsAreRequests
  <2>2. flying' \subseteq Requests /\ taken' \subseteq Requests /\ cutOff' \subseteq Asks
    BY <1>5, <2>1 DEF Unavailable, ClientTypeOK
  <2>3. turn' \in [Asks -> 0..3]
    BY <1>5 DEF Unavailable, Ends, ClientTypeOK
  <2>4. result' \in [Asks -> Results]
    BY <1>5, OutcomeType DEF Unavailable, Ends, ClientTypeOK
  <2> QED BY <2>2, <2>3, <2>4 DEF ClientTypeOK
<1>6. ASSUME NEW a \in Asks, Receive(a) \/ Unreachable(a) PROVE ClientTypeOK'
  <2>1. PICK how \in Results : Ends(a, how)
    BY <1>6, OutcomeType DEF Receive, Unreachable, Results
  <2> QED BY <1>6, <2>1 DEF Receive, Unreachable, Ends, ClientTypeOK
<1> QED BY <1>1, <1>2, <1>3, <1>4, <1>5, <1>6 DEF ClientNext

(* Every variable of GatewayClient holds a value it can hold; every answer *)
(* of the gateway or the proxy becomes an exception that callers know.     *)
THEOREM ClientTypeCorrect == ClientSpec => []ClientTypeOK
BY InitClientType, StepClientType, PTL DEF ClientSpec

-----------------------------------------------------------------------------
(* Which attempts are under way                                            *)

Sent(r) == r \in flying \cup taken

(* The gateway has done nothing about a request it has not received.       *)
Fresh(r) == r \notin taken => phase[r] = "new"

(* The attempts of an ask follow one another; a second one is sent only if *)
(* the first was cut off or will never arrive.                             *)
AttemptsOK(a) ==
  /\ \A i \in {1, 2} : Sent(<< a, i >>) => turn[a] >= i
  /\ \A i \in {1, 2} : << a, i >> \notin flying \cap taken
  /\ Sent(<< a, 2 >>) => a \in cutOff \/ ~Sent(<< a, 1 >>)

(* What the outcome of an ask was made of.                                 *)
OutcomeOK(a) ==
  result[a] \in {"GatewayDeniedError", "GatewayAuthError", "returned"} =>
    /\ turn[a] = 3
    /\ \E i \in {1, 2} :
         /\ reply[<< a, i >>].status \in
              (IF result[a] = "returned" THEN {200} ELSE {401, 403})
         /\ i = 1 => ~Sent(<< a, 2 >>)

ClientOK ==
  /\ \A r \in Requests : Fresh(r)
  /\ \A a \in Asks : AttemptsOK(a) /\ OutcomeOK(a)

LEMMA InitClientOK == ClientInit => ClientOK
BY DEF ClientInit, Init, ClientOK, Fresh, AttemptsOK, OutcomeOK, Sent

(* An answer, once given, is not replaced.                                 *)
LEMMA RepliesAreFinal ==
  ASSUME GatewayOK, [Next]_vars, NEW r \in Requests, reply[r].status # 0 \/ reply[r] = Dropped
  PROVE reply'[r] = reply[r]
<1>1. reply[r] # NoAnswer BY DEF NoAnswer, Dropped
<1> QED BY <1>1, StepOfOne DEF GatewayOK, OneRequest, Mute, Writes

(* The gateway's steps.                                                    *)
LEMMA GatewayStepOK ==
  ASSUME GatewayOK, ClientTypeOK, ClientOK, GatewayStep
  PROVE ClientOK'
<1>0. Next /\ UNCHANGED << turn, result, flying, taken, cutOff >> /\ [Next]_vars
  BY DEF GatewayStep, clientVars
<1>1. \A r \in Requests : Fresh(r)' BY <1>0 DEF ClientOK, Fresh, GatewayStep
<1>2. ASSUME NEW a \in Asks PROVE AttemptsOK(a)'
  BY <1>0 DEF ClientOK, AttemptsOK, Sent
<1>3. ASSUME NEW a \in Asks PROVE OutcomeOK(a)'
  <2> SUFFICES ASSUME result[a] \in {"GatewayDeniedError", "GatewayAuthError", "returned"}
               PROVE OutcomeOK(a)'
    BY <1>0 DEF OutcomeOK
  <2>1. PICK i \in {1, 2} :
          /\ reply[<< a, i >>].status \in
               (IF result[a] = "returned" THEN {200} ELSE {401, 403})
          /\ i = 1 => ~Sent(<< a, 2 >>)
    BY DEF ClientOK, OutcomeOK
  <2>2. reply'[<< a, i >>] = reply[<< a, i >>]
    <3>1. << a, i >> \in Requests BY AttemptsAreRequests
    <3>2. reply[<< a, i >>].status \in {200, 401, 403} BY <2>1
    <3>3. reply[<< a, i >>].status # 0 BY <3>2
    <3> QED BY <1>0, <3>1, <3>3, RepliesAreFinal
  <2> QED BY <1>0, <2>1, <2>2 DEF ClientOK, OutcomeOK, Sent
<1> QED BY <1>1, <1>2, <1>3 DEF ClientOK

(* The steps of the client and of the network.  None touches the gateway.  *)
LEMMA DeliverOK ==
  ASSUME ClientOK, NEW r \in Requests, Deliver(r)
  PROVE ClientOK'
<1>0. UNCHANGED vars /\ UNCHANGED << turn, result, cutOff >> /\ r \in flying
      /\ flying' = flying \ {r} /\ taken' = taken \cup {r}
  BY DEF Deliver
<1>1. \A q : Sent(q)' <=> Sent(q) BY <1>0 DEF Sent
<1>2. \A q \in Requests : Fresh(q)' BY <1>0 DEF vars, ClientOK, Fresh
<1>3. ASSUME NEW a \in Asks PROVE AttemptsOK(a)' /\ OutcomeOK(a)'
  <2>1. AttemptsOK(a) /\ OutcomeOK(a) BY DEF ClientOK
  <2>2. \A i \in {1, 2} : << a, i >> \notin flying' \cap taken'
    BY <1>0, <2>1 DEF AttemptsOK
  <2>3. AttemptsOK(a)' BY <1>0, <1>1, <2>1, <2>2 DEF AttemptsOK
  <2>4. OutcomeOK(a)' BY <1>0, <1>1, <2>1 DEF vars, OutcomeOK
  <2> QED BY <2>3, <2>4
<1> QED BY <1>2, <1>3 DEF ClientOK

(* What a step of one ask leaves alone: the attempts of every other.       *)
Elsewhere(a) ==
  /\ UNCHANGED << vars, taken >>
  /\ \A b \in Asks \ {a} : /\ turn'[b] = turn[b] /\ result'[b] = result[b]
                           /\ b \in cutOff' <=> b \in cutOff
  /\ \A b \in Asks \ {a}, i \in {1, 2} : << b, i >> \in flying' <=> << b, i >> \in flying

LEMMA OthersKeep ==
  ASSUME ClientOK, NEW a \in Asks, Elsewhere(a), AttemptsOK(a)', OutcomeOK(a)'
  PROVE ClientOK'
<1>1. \A q \in Requests : Fresh(q)' BY DEF Elsewhere, vars, ClientOK, Fresh
<1>2. ASSUME NEW b \in Asks, b # a PROVE AttemptsOK(b)' /\ OutcomeOK(b)'
  <2>1. AttemptsOK(b) /\ OutcomeOK(b) BY DEF ClientOK
  <2>2. /\ turn'[b] = turn[b] /\ result'[b] = result[b] /\ reply' = reply /\ taken' = taken
        /\ \A i \in {1, 2} : << b, i >> \in flying' <=> << b, i >> \in flying
    BY <1>2 DEF Elsewhere, vars
  <2>3. \A i \in {1, 2} : Sent(<< b, i >>)' <=> Sent(<< b, i >>) BY <2>2 DEF Sent
  <2>4. b \in cutOff' <=> b \in cutOff BY <1>2 DEF Elsewhere
  <2>5. AttemptsOK(b)' BY <2>1, <2>2, <2>3, <2>4 DEF AttemptsOK
  <2>6. OutcomeOK(b)' BY <2>1, <2>2, <2>3 DEF OutcomeOK
  <2> QED BY <2>5, <2>6
<1> QED BY <1>1, <1>2 DEF ClientOK

LEMMA PostOK ==
  ASSUME ClientTypeOK, ClientOK, NEW a \in Asks, Post(a)
  PROVE ClientOK'
<1>1. Elsewhere(a) BY DEF Post, Elsewhere, ClientTypeOK
<1>2. /\ turn[a] = 0 /\ turn'[a] = 1 /\ result' = result /\ taken' = taken
      /\ flying' = flying \cup {<< a, 1 >>} /\ UNCHANGED vars
  BY DEF Post, ClientTypeOK
<1>3. AttemptsOK(a) /\ OutcomeOK(a) BY DEF ClientOK
<1>4. ~Sent(<< a, 1 >>) /\ ~Sent(<< a, 2 >>) BY <1>2, <1>3 DEF AttemptsOK
<1>5. /\ << a, 1 >> \in flying' /\ << a, 1 >> \notin taken'
      /\ << a, 2 >> \notin flying' /\ << a, 2 >> \notin taken'
  BY <1>2, <1>4 DEF Sent
<1>6. AttemptsOK(a)' BY <1>2, <1>5 DEF AttemptsOK, Sent
<1>7. OutcomeOK(a)' BY <1>2, <1>3 DEF OutcomeOK
<1> QED BY <1>1, <1>6, <1>7, OthersKeep

(* The ask ends; what it had on its way may be given up, too.              *)
LEMMA EndOK ==
  ASSUME ClientTypeOK, ClientOK, NEW a \in Asks, NEW how, Waiting(a), Ends(a, how),
         flying' \in {flying, flying \ {<< a, 2 >>}},
         UNCHANGED << vars, taken, cutOff >>,
         how \in {"GatewayDeniedError", "GatewayAuthError", "returned"} =>
           reply[Attempt(a)].status \in
             (IF how = "returned" THEN {200} ELSE {401, 403})
  PROVE ClientOK'
<1>1. Elsewhere(a) BY DEF Ends, Elsewhere, ClientTypeOK
<1>2. turn[a] \in {1, 2} /\ turn'[a] = 3 /\ result'[a] = how /\ reply' = reply
  BY DEF Waiting, Ends, ClientTypeOK, vars
<1>3. AttemptsOK(a) /\ OutcomeOK(a) BY DEF ClientOK
<1>4. \A i \in {1, 2} : Sent(<< a, i >>)' => Sent(<< a, i >>) BY DEF Sent
<1>5. AttemptsOK(a)' BY <1>2, <1>3, <1>4 DEF AttemptsOK
<1>6. turn[a] = 1 => ~Sent(<< a, 2 >>)' BY <1>3, <1>4 DEF AttemptsOK
<1>7. OutcomeOK(a)' BY <1>2, <1>6 DEF OutcomeOK, Attempt
<1> QED BY <1>1, <1>5, <1>7, OthersKeep

(* A proxy's 503 for the first attempt: either that one never arrives, or  *)
(* the ask is marked.                                                      *)
LEMMA RetryOK ==
  ASSUME ClientTypeOK, ClientOK, NEW a \in Asks, Unavailable(a), turn[a] = 1
  PROVE ClientOK'
<1>1. PICK left \in {flying \ {<< a, 1 >>}, flying} :
        /\ turn' = [turn EXCEPT ![a] = 2] /\ UNCHANGED << vars, result, taken >>
        /\ flying' = left \cup {<< a, 2 >>}
        /\ cutOff' = IF left = flying THEN cutOff \cup {a} ELSE cutOff
  BY DEF Unavailable, Attempt
<1>2. Elsewhere(a) BY <1>1 DEF Elsewhere, ClientTypeOK
<1>3. AttemptsOK(a) /\ OutcomeOK(a) BY DEF ClientOK
<1>4. turn'[a] = 2 BY <1>1 DEF ClientTypeOK
<1>5. ~Sent(<< a, 2 >>) BY <1>3 DEF AttemptsOK
<1>6. << a, 2 >> \in flying' /\ << a, 2 >> \notin taken' BY <1>1, <1>5 DEF Sent
<1>7. << a, 1 >> \in flying' => << a, 1 >> \in flying BY <1>1
<1>8. a \in cutOff' \/ ~Sent(<< a, 1 >>)'
  <2>1. CASE left = flying BY <1>1, <2>1
  <2>2. CASE left # flying
    <3>1. << a, 1 >> \in flying /\ << a, 1 >> \notin left BY <2>2
    <3>2. << a, 1 >> \notin taken BY <1>3, <3>1 DEF AttemptsOK
    <3> QED BY <1>1, <3>1, <3>2 DEF Sent
  <2> QED BY <2>1, <2>2
<1>9. AttemptsOK(a)' BY <1>1, <1>3, <1>4, <1>6, <1>7, <1>8 DEF AttemptsOK, Sent
<1>10. OutcomeOK(a)' BY <1>1, <1>3 DEF OutcomeOK
<1> QED BY <1>2, <1>9, <1>10, OthersKeep

LEMMA StepClientOK ==
  GatewayOK /\ ClientTypeOK /\ ClientOK /\ [ClientNext]_allVars => ClientOK'
<1> SUFFICES ASSUME GatewayOK, ClientTypeOK, ClientOK, [ClientNext]_allVars
             PROVE ClientOK'
  OBVIOUS
<1>1. CASE UNCHANGED allVars
  BY <1>1 DEF allVars, vars, clientVars, ClientOK, Fresh, AttemptsOK, OutcomeOK, Sent
<1>2. CASE GatewayStep BY <1>2, GatewayStepOK
<1>3. ASSUME NEW r \in Requests, Deliver(r) PROVE ClientOK' BY <1>3, DeliverOK
<1>4. ASSUME NEW a \in Asks, Post(a) PROVE ClientOK' BY <1>4, PostOK
<1>5. ASSUME NEW a \in Asks, Receive(a) PROVE ClientOK'
  <2> DEFINE how == Outcome(reply[Attempt(a)].status)
  <2>1. how \in {"GatewayDeniedError", "GatewayAuthError", "returned"} =>
          reply[Attempt(a)].status \in (IF how = "returned" THEN {200} ELSE {401, 403})
    BY DEF Outcome
  <2>2. Waiting(a) /\ Ends(a, how) /\ flying' = flying
        /\ UNCHANGED << vars, taken, cutOff >>
    BY <1>5 DEF Receive
  <2> HIDE DEF how
  <2> QED BY <2>1, <2>2, EndOK
<1>6. ASSUME NEW a \in Asks, Unreachable(a) PROVE ClientOK'
  <2>1. /\ Waiting(a) /\ Ends(a, "GatewayConnectionError") /\ flying' = flying
        /\ UNCHANGED << vars, taken, cutOff >>
    BY <1>6 DEF Unreachable
  <2> QED BY <2>1, EndOK
<1>7. ASSUME NEW a \in Asks, Unavailable(a) PROVE ClientOK'
  <2>1. CASE turn[a] = 1 BY <1>7, <2>1, RetryOK
  <2>2. CASE turn[a] = 2
    <3>1. /\ Waiting(a) /\ Ends(a, "GatewayError")
          /\ flying' \in {flying, flying \ {<< a, 2 >>}}
          /\ UNCHANGED << vars, taken, cutOff >>
      BY <1>7, <2>2 DEF Unavailable, Outcome, Attempt
    <3> QED BY <3>1, EndOK
  <2> QED BY <1>7, <2>1, <2>2 DEF Unavailable
<1> QED BY <1>1, <1>2, <1>3, <1>4, <1>5, <1>6, <1>7 DEF ClientNext

LEMMA ClientAlwaysOK == ClientSpec => [](GatewayOK /\ ClientOK)
BY GatewayKeeps, ClientTypeCorrect, InitClientOK, StepClientOK, PTL DEF ClientSpec

-----------------------------------------------------------------------------
(* The properties                                                          *)

(* A request that was not received is nowhere in the gateway.              *)
LEMMA FreshIsUndone ==
  ASSUME GatewayOK, ClientOK, NEW r \in Requests, r \notin taken
  PROVE effects[r] = 0 /\ ~Held(r) /\ reply[r] = NoAnswer
<1>1. phase[r] = "new" BY DEF ClientOK, Fresh
<1>2. effects[r] = 0 /\ reply[r] = NoAnswer BY <1>1 DEF GatewayOK, Inductive, RequestOK
<1>3. ~Held(r) BY <1>1 DEF GatewayOK, Inductive, HeldOK, Held
<1> QED BY <1>2, <1>3

(* One action() changes the cluster twice only if a proxy answered 503 for *)
(* a request it had handed on: the client's retry is no repetition         *)
(* otherwise, and its own timeout never is.                                *)
THEOREM RetryIsSafe == ClientSpec => []RepeatedOnlyIfCutOff
<1>1. GatewayOK /\ ClientOK => RepeatedOnlyIfCutOff
  <2> SUFFICES ASSUME GatewayOK, ClientOK, NEW a \in Asks,
                      effects[<< a, 1 >>] + effects[<< a, 2 >>] > 1
               PROVE a \in cutOff
    BY DEF RepeatedOnlyIfCutOff
  <2>1. << a, 1 >> \in Requests /\ << a, 2 >> \in Requests BY AttemptsAreRequests
  <2>2. effects[<< a, 1 >>] \in {0, 1} /\ effects[<< a, 2 >>] \in {0, 1}
    BY <2>1 DEF GatewayOK, Inductive, RequestOK
  <2>3. effects[<< a, 1 >>] # 0 /\ effects[<< a, 2 >>] # 0 BY <2>2
  <2>4. << a, 1 >> \in taken /\ << a, 2 >> \in taken BY <2>1, <2>3, FreshIsUndone
  <2> QED BY <2>4 DEF ClientOK, AttemptsOK, Sent
<1> QED BY <1>1, ClientAlwaysOK, PTL

(* GatewayDeniedError and GatewayAuthError: neither attempt was or will be *)
(* carried out, unless the first was cut off.                              *)
THEOREM DenialIsFinal == ClientSpec => []DeniedMeansUndone
<1>1. GatewayOK /\ ClientOK => DeniedMeansUndone
  <2> SUFFICES ASSUME GatewayOK, ClientOK, NEW a \in Asks,
                      result[a] \in {"GatewayDeniedError", "GatewayAuthError"}
               PROVE /\ effects[<< a, 2 >>] = 0 /\ ~Held(<< a, 2 >>)
                     /\ a \in cutOff \/ (effects[<< a, 1 >>] = 0 /\ ~Held(<< a, 1 >>))
    BY DEF DeniedMeansUndone
  <2>1. << a, 1 >> \in Requests /\ << a, 2 >> \in Requests BY AttemptsAreRequests
  <2>2. PICK i \in {1, 2} : /\ reply[<< a, i >>].status \in {401, 403}
                            /\ i = 1 => ~Sent(<< a, 2 >>)
    BY DEF ClientOK, OutcomeOK
  <2> DEFINE r == << a, i >>
  <2>3. effects[r] = 0 /\ ~Held(r)
    <3>1. RequestOK(r) BY <2>1 DEF GatewayOK, Inductive
    <3>2. wire[r] = "none" /\ effects[r] = 0 BY <2>2, <3>1 DEF RequestOK
    <3>3. \A n \in Replicas : r \notin queue[n]
      BY <2>1, <2>2 DEF GatewayOK, Inductive, HeldOK, Http
    <3> QED BY <3>2, <3>3 DEF Held
  <2>4. CASE i = 1
    <3>1. << a, 2 >> \notin taken BY <2>2, <2>4 DEF Sent
    <3> QED BY <2>1, <2>3, <2>4, <3>1, FreshIsUndone
  <2>5. CASE i = 2
    <3>1. reply[<< a, 2 >>] # NoAnswer BY <2>2, <2>5 DEF NoAnswer
    <3>2. << a, 2 >> \in taken BY <2>1, <3>1, FreshIsUndone
    <3>3. a \in cutOff \/ << a, 1 >> \notin taken BY <3>2 DEF ClientOK, AttemptsOK, Sent
    <3> QED BY <2>1, <2>3, <2>5, <3>3, FreshIsUndone
  <2> QED BY <2>4, <2>5
<1> QED BY <1>1, ClientAlwaysOK, PTL

(* action() returns only for what was executed, simulated or is pending    *)
(* for a human; approve() returns "human-allow" only for what was executed *)
(* or simulated.                                                           *)
THEOREM ReturnsAreTrue == ClientSpec => []ReturnedMeansHandled
<1>1. GatewayOK /\ ClientOK => ReturnedMeansHandled
  <2> SUFFICES ASSUME GatewayOK, ClientOK PROVE ReturnedMeansHandled
    OBVIOUS
  <2>1. ASSUME NEW a \in Asks, result[a] = "returned"
        PROVE \E i \in {1, 2} :
                /\ reply[<< a, i >>].status = 200
                /\ \/ /\ reply[<< a, i >>].decision = "allow"
                      /\ wire[<< a, i >>] \in {"applied", "simulated"}
                   \/ /\ reply[<< a, i >>].decision = "pending-approval"
                      /\ wire[<< a, i >>] # "none" => ruling[<< a, i >>] = "approved"
    <3>1. PICK i \in {1, 2} : reply[<< a, i >>].status = 200
      BY <2>1 DEF ClientOK, OutcomeOK
    <3>2. << a, i >> \in Requests BY AttemptsAreRequests
    <3>3. AnswerTrue(<< a, i >>) /\ RequestOK(<< a, i >>)
      BY <3>2 DEF GatewayOK, Inductive
    <3>4. reply[<< a, i >>].decision = "pending-approval" =>
            (wire[<< a, i >>] # "none" => ruling[<< a, i >>] = "approved")
      BY <3>3 DEF AnswerTrue, RequestOK, Cleared
    <3> QED BY <3>1, <3>3, <3>4 DEF AnswerTrue, Executed
  <2>2. \A r \in Requests : answer[r].decision = "human-allow" =>
          wire[r] \in {"applied", "simulated"}
    BY DEF GatewayOK, AnswerTrue, Executed
  <2> QED BY <2>1, <2>2 DEF ReturnedMeansHandled
<1> QED BY <1>1, ClientAlwaysOK, PTL
=============================================================================

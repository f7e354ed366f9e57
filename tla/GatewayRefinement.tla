------------------------- MODULE GatewayRefinement -------------------------
(***************************************************************************)
(* The gateway implements Lifecycle: every step of Gateway is a step of    *)
(* the abstract promise on the mapped state, or leaves it as it is.        *)
(***************************************************************************)
EXTENDS GatewayProofs

-----------------------------------------------------------------------------
(* Where a request is, in terms of the inductive invariant                 *)

(* The states the invariants of Gateway leave, seen from one request.      *)
LEMMA StageFacts ==
  ASSUME TypeOK, Inductive, NEW q \in Requests
  PROVE  /\ Held(q) => /\ ~Calling(q) /\ wire[q] = "none"
                       /\ phase[q] = "done"
         /\ Calling(q) => phase[q] \notin {"new", "opa"}
         /\ phase[q] \in {"new", "opa"} =>
              ~Held(q) /\ ~Calling(q) /\ wire[q] = "none"
         /\ wire[q] # "none" => ~Held(q)
         /\ wire[q] # "applied" => effects[q] = 0
  <1>1. ASSUME NEW n \in Replicas, call[n].id = q
        PROVE  /\ phase[q] \notin {"new", "opa"}
               /\ phase[q] = "exec" \/ ruling[q] = "approved"
    <2>1. call[n] # Idle
      BY <1>1, RequestsAssumption DEF Idle
    <2>2. CallOK(n) /\ RequestOK(q)
      BY DEF Inductive
    <2> QED
      BY <1>1, <2>1, <2>2 DEF CallOK, RequestOK
  <1>2. Held(q) => /\ phase[q] = "done" /\ wire[q] = "none"
                   /\ ruling[q] = "none"
    BY DEF Held, Inductive, HeldOK
  <1>3. /\ wire[q] # "none" => phase[q] \notin {"new", "opa"}
        /\ wire[q] # "applied" => effects[q] = 0
    BY DEF Inductive, RequestOK
  <1> QED
    BY <1>1, <1>2, <1>3 DEF Calling

(* A request none of whose places changes stays in its stage.              *)
LEMMA StageFrame ==
  ASSUME NEW q \in Requests,
         Held(q)' <=> Held(q), Calling(q)' <=> Calling(q),
         wire'[q] = wire[q],
         phase'[q] \in {"new", "opa"} <=> phase[q] \in {"new", "opa"}
  PROVE  Stage(q)' = Stage(q)
  BY DEF Stage

LEMMA ClearanceFrame ==
  ASSUME NEW q \in Requests, opa'[q] = opa[q], level'[q] = level[q]
  PROVE  Clearance(q)' = Clearance(q)
  BY DEF Clearance

-----------------------------------------------------------------------------
(* The abstract steps on the mapped state                                  *)

(* Requests that change their stage are closed without having been carried *)
(* out: the abstract Close.                                                *)
LEMMA CloseImplements ==
  ASSUME UNCHANGED effects,
         \A q \in Requests : Clearance(q)' = Clearance(q),
         \A q \in Requests : \/ Stage(q)' = Stage(q)
                             \/ Stage(q)' = "closed" /\ effects[q] = 0
  PROVE  Promise!Next
  <1> DEFINE S == {q \in Requests : Stage(q)' # Stage(q)}
  <1>1. S \in SUBSET Requests
    OBVIOUS
  <1>2. \A q \in S : effects[q] = 0
    OBVIOUS
  <1>3. [q \in Requests |-> Stage(q)]' =
          [q \in Requests |-> IF q \in S THEN "closed"
                              ELSE [t \in Requests |-> Stage(t)][q]]
    OBVIOUS
  <1>4. [q \in Requests |-> Clearance(q)]' = [q \in Requests |-> Clearance(q)]
    OBVIOUS
  <1>5. Promise!Close(S)
    BY <1>2, <1>3, <1>4 DEF Promise!Close
  <1> QED
    BY <1>1, <1>5 DEF Promise!Next

(* One request changes its stage, its clearance and effects stay.          *)
LEMMA MoveImplements ==
  ASSUME TypeOK, NEW r \in Requests, UNCHANGED effects,
         \A q \in Requests : Clearance(q)' = Clearance(q),
         \A q \in Requests \ {r} : Stage(q)' = Stage(q),
         \/ /\ Stage(r) = "submitted" /\ Clearance(r) = "auto"
            /\ Stage(r)' = "open"
         \/ Stage(r) = "held" /\ Stage(r)' = "open"
         \/ /\ Stage(r) = "submitted" /\ Clearance(r) = "human"
            /\ Stage(r)' = "held"
  PROVE  Promise!Next
  <1> DEFINE st == [q \in Requests |-> Stage(q)]
             cl == [q \in Requests |-> Clearance(q)]
  <1>1. cl' = cl
    OBVIOUS
  <1>2. st' = [st EXCEPT ![r] = Stage(r)']
    OBVIOUS
  <1>3. st[r] = Stage(r) /\ cl[r] = Clearance(r)
    OBVIOUS
  <1>4. Promise!Open(r) \/ Promise!Hold(r)
    BY <1>1, <1>2, <1>3 DEF Promise!Open, Promise!Hold
  <1> QED
    BY <1>4 DEF Promise!Next

-----------------------------------------------------------------------------
(* POST /agent-action                                                      *)

(* A handler that ends with an answer before execution closes its request. *)
LEMMA EndsImplements ==
  ASSUME TypeOK, Inductive, NEW r \in Requests, NEW s, NEW d,
         phase[r] \in {"new", "opa"}, Respond(r, s, d),
         UNCHANGED << home, level, opa, queue, call, wire, effects >>
  PROVE  Promise!Next
  <1>1. \A q \in Requests : Clearance(q)' = Clearance(q)
    BY ClearanceFrame
  <1>2. \A q \in Requests : (Held(q)' <=> Held(q)) /\ (Calling(q)' <=> Calling(q))
    BY DEF Held, Calling
  <1>3. \A q \in Requests \ {r} : phase'[q] = phase[q]
    BY DEF Respond, TypeOK
  <1>4. \A q \in Requests \ {r} : Stage(q)' = Stage(q)
    BY <1>2, <1>3, StageFrame
  <1>5. phase'[r] = "done"
    BY DEF Respond, TypeOK
  <1>6. ~Held(r)' /\ ~Calling(r)' /\ wire'[r] = "none" /\ effects[r] = 0
    BY <1>2, StageFacts
  <1>7. Stage(r)' = "closed"
    BY <1>5, <1>6 DEF Stage
  <1> QED
    BY <1>1, <1>4, <1>6, <1>7, CloseImplements

(* Stages 1-3 and OPA's answer move nothing but the clearance.             *)
LEMMA SubmitImplements ==
  ASSUME TypeOK, Inductive, NEW r \in Requests, opa[r] = "none", Submit(r)
  PROVE  Promise!Next
  <1>1. UNCHANGED << opa, queue, call, wire, effects >>
    BY DEF Submit, humanVars, clusterVars
  <1>2. \A q \in Requests : Clearance(q)' = Clearance(q)
    BY <1>1 DEF Submit, Clearance, TypeOK
  <1>3. \A q \in Requests : (Held(q)' <=> Held(q)) /\ (Calling(q)' <=> Calling(q))
    BY <1>1 DEF Held, Calling
  <1>4. \A q \in Requests :
          phase'[q] \in {"new", "opa"} <=> phase[q] \in {"new", "opa"}
    BY DEF Submit, TypeOK
  <1>5. \A q \in Requests : Stage(q)' = Stage(q)
    BY <1>1, <1>3, <1>4, StageFrame
  <1> QED
    BY <1>1, <1>2, <1>5, CloseImplements

LEMMA OpaDecidesImplements ==
  ASSUME TypeOK, NEW r \in Requests, OpaDecides(r)
  PROVE  Promise!Next
  <1>1. UNCHANGED << level, phase, queue, call, wire, effects >>
    BY DEF OpaDecides, requestVars, humanVars, clusterVars
  <1>2. \A q \in Requests : (Held(q)' <=> Held(q)) /\ (Calling(q)' <=> Calling(q))
    BY <1>1 DEF Held, Calling
  <1>3. \A q \in Requests : Stage(q)' = Stage(q)
    BY <1>1, <1>2, StageFrame
  <1>4. \A q \in Requests \ {r} : Clearance(q)' = Clearance(q)
    BY <1>1, ClearanceFrame DEF OpaDecides, TypeOK
  <1>5. Clearance(r) = "none"
    BY DEF OpaDecides, Clearance
  <1>6. Clearance(r)' \in {"none", "auto", "human"}
    BY DEF Clearance
  <1>7. CASE Clearance(r)' = "none"
    BY <1>1, <1>3, <1>4, <1>5, <1>7, CloseImplements
  <1>8. CASE Clearance(r)' # "none"
    <2> DEFINE st == [q \in Requests |-> Stage(q)]
               cl == [q \in Requests |-> Clearance(q)]
    <2>1. st' = st
      BY <1>3
    <2>2. cl' = [cl EXCEPT ![r] = Clearance(r)'] /\ cl[r] = "none"
      BY <1>4, <1>5
    <2>3. Clearance(r)' \in {"auto", "human"}
      BY <1>6, <1>8
    <2>4. Promise!Clear(r)
      BY <1>1, <2>1, <2>2, <2>3 DEF Promise!Clear
    <2> QED
      BY <2>4 DEF Promise!Next
  <1> QED
    BY <1>7, <1>8

(* A high-risk request that OPA allowed is held.                           *)
LEMMA QueueImplements ==
  ASSUME TypeOK, Inductive, NEW r \in Requests, QueueForHuman(r)
  PROVE  Promise!Next
  <1>1. UNCHANGED << home, level, opa, call, wire, effects >>
    BY DEF QueueForHuman, requestVars, clusterVars
  <1>2. \A q \in Requests : Clearance(q)' = Clearance(q)
    BY <1>1, ClearanceFrame
  <1>3. \A q \in Requests \ {r} : (Held(q)' <=> Held(q)) /\ phase'[q] = phase[q]
    BY DEF QueueForHuman, Enqueue, Respond, Held, TypeOK
  <1>4. \A q \in Requests : Calling(q)' <=> Calling(q)
    BY <1>1 DEF Calling
  <1>5. \A q \in Requests \ {r} : Stage(q)' = Stage(q)
    BY <1>1, <1>3, <1>4, StageFrame
  <1>6. Stage(r) = "submitted"
    BY StageFacts DEF QueueForHuman, Resumes, Stage
  <1>7. Clearance(r) = "human"
    BY DEF QueueForHuman, Allowed, NeedsHuman, Clearance
  <1>8. Stage(r)' = "held"
    <2>1. home[r] \in Replicas
      BY DEF TypeOK
    <2>2. r \in queue'[home[r]]
      BY <2>1 DEF QueueForHuman, Enqueue, TypeOK
    <2> QED
      BY <2>1, <2>2 DEF Held, Stage
  <1> QED
    BY <1>1, <1>2, <1>5, <1>6, <1>7, <1>8, MoveImplements

(* A request that needs no human is opened by the start of its call.       *)
LEMMA BeginImplements ==
  ASSUME TypeOK, Inductive, NEW r \in Requests, BeginDirect(r)
  PROVE  Promise!Next
  <1>1. UNCHANGED << home, level, opa, queue, wire, effects >>
    BY DEF BeginDirect, requestVars, humanVars
  <1>2. \A q \in Requests : Clearance(q)' = Clearance(q)
    BY <1>1, ClearanceFrame
  <1>3. \A q \in Requests : Held(q)' <=> Held(q)
    BY <1>1 DEF Held
  <1>4. /\ home[r] \in Replicas
        /\ call[home[r]].id = NoRequest
        /\ call'[home[r]].id = r
        /\ \A m \in Replicas : m # home[r] => call'[m] = call[m]
    BY DEF BeginDirect, Resumes, LoopFree, Idle, TypeOK
  <1>5. \A q \in Requests \ {r} : Calling(q)' <=> Calling(q)
    BY <1>4, RequestsAssumption DEF Calling
  <1>6. \A q \in Requests \ {r} : phase'[q] = phase[q]
    BY DEF BeginDirect, TypeOK
  <1>7. \A q \in Requests \ {r} : Stage(q)' = Stage(q)
    BY <1>1, <1>3, <1>5, <1>6, StageFrame
  <1>8. Stage(r) = "submitted" /\ ~Held(r)
    BY StageFacts DEF BeginDirect, Resumes, Stage
  <1>9. Clearance(r) = "auto"
    BY DEF BeginDirect, Allowed, NeedsHuman, Clearance
  <1>10. Stage(r)' = "open"
    BY <1>3, <1>4, <1>8 DEF Calling, Stage
  <1> QED
    BY <1>1, <1>2, <1>7, <1>8, <1>9, <1>10, MoveImplements

-----------------------------------------------------------------------------
(* POST /approve/{request_id}                                              *)

(* Only the queue the id is in holds it, so the pop ends its being held.   *)
LEMMA ResolveFrame ==
  ASSUME TypeOK, Inductive, NEW n \in Replicas, NEW r \in Requests,
         r \in queue[n], Resolve(n, r)
  PROVE  /\ Held(r) /\ ~Held(r)'
         /\ \A q \in Requests \ {r} : Held(q)' <=> Held(q)
  <1>1. /\ queue'[n] = queue[n] \ {r}
        /\ \A m \in Replicas : m # n => queue'[m] = queue[m]
    BY DEF Resolve, TypeOK
  <1>2. \A m \in Replicas : r \in queue[m] => m = n
    BY DEF Inductive, HeldOK
  <1>3. Held(r) /\ ~Held(r)'
    BY <1>1, <1>2 DEF Held
  <1>4. \A q \in Requests \ {r} : Held(q)' <=> Held(q)
    BY <1>1 DEF Held
  <1> QED
    BY <1>3, <1>4

LEMMA NoResolutionImplements ==
  ASSUME NEW n \in Replicas, NEW r \in Requests,
         ApproveUnauthorized(n, r) \/ ApproveUnknown(n, r)
  PROVE  Promise!Next
  <1>1. UNCHANGED << level, opa, phase, queue, call, wire, effects >>
    BY DEF ApproveUnauthorized, ApproveUnknown, requestVars, clusterVars
  <1>2. \A q \in Requests : (Held(q)' <=> Held(q)) /\ (Calling(q)' <=> Calling(q))
    BY <1>1 DEF Held, Calling
  <1> QED
    BY <1>1, <1>2, StageFrame, ClearanceFrame, CloseImplements

(* An approved request is opened by the start of its call.                 *)
LEMMA ApproveImplements ==
  ASSUME TypeOK, Inductive, NEW n \in Replicas, NEW r \in Requests, Approve(n, r)
  PROVE  Promise!Next
  <1>1. UNCHANGED << level, opa, phase, wire, effects >>
    BY DEF Approve, requestVars
  <1>2. /\ Held(r) /\ ~Held(r)'
        /\ \A q \in Requests \ {r} : Held(q)' <=> Held(q)
    BY ResolveFrame DEF Approve
  <1>3. /\ call[n].id = NoRequest
        /\ call'[n].id = r
        /\ \A m \in Replicas : m # n => call'[m] = call[m]
    BY DEF Approve, LoopFree, Idle, TypeOK
  <1>4. \A q \in Requests \ {r} : Calling(q)' <=> Calling(q)
    BY <1>3, RequestsAssumption DEF Calling
  <1>5. \A q \in Requests \ {r} : Stage(q)' = Stage(q)
    BY <1>1, <1>2, <1>4, StageFrame
  <1>6. Stage(r) = "held"
    BY <1>2 DEF Stage
  <1>7. Stage(r)' = "open"
    BY <1>2, <1>3 DEF Calling, Stage
  <1>8. \A q \in Requests : Clearance(q)' = Clearance(q)
    BY <1>1, ClearanceFrame
  <1> QED
    BY <1>1, <1>5, <1>6, <1>7, <1>8, MoveImplements

(* A denied request is closed.                                             *)
LEMMA RejectImplements ==
  ASSUME TypeOK, Inductive, NEW n \in Replicas, NEW r \in Requests, Reject(n, r)
  PROVE  Promise!Next
  <1>1. UNCHANGED << level, opa, phase, call, wire, effects >>
    BY DEF Reject, requestVars, clusterVars
  <1>2. /\ Held(r) /\ ~Held(r)'
        /\ \A q \in Requests \ {r} : Held(q)' <=> Held(q)
    BY ResolveFrame DEF Reject
  <1>3. \A q \in Requests : Calling(q)' <=> Calling(q)
    BY <1>1 DEF Calling
  <1>4. \A q \in Requests \ {r} : Stage(q)' = Stage(q)
    BY <1>1, <1>2, <1>3, StageFrame
  <1>5. ~Calling(r)' /\ wire'[r] = "none" /\ phase'[r] = "done" /\ effects[r] = 0
    BY <1>1, <1>2, <1>3, StageFacts
  <1>6. Stage(r)' = "closed"
    BY <1>2, <1>5 DEF Stage
  <1>7. \A q \in Requests : Clearance(q)' = Clearance(q)
    BY <1>1, ClearanceFrame
  <1> QED
    BY <1>1, <1>4, <1>5, <1>6, <1>7, CloseImplements

-----------------------------------------------------------------------------
(* The Kubernetes call and the API server                                  *)

(* An open request that is sent stays open.                                *)
LEMMA SendImplements ==
  ASSUME TypeOK, Inductive, NEW n \in Replicas, Send(n)
  PROVE  Promise!Next
  <1>1. UNCHANGED << level, opa, phase, queue, effects >>
    BY DEF Send, requestVars, humanVars
  <1>2. call[n] # Idle
    BY DEF Send
  <1>r. PICK r \in Requests : r = call[n].id
    BY <1>2, CallHasId
  <1>3. \A m \in Replicas : call'[m].id = call[m].id
    BY <1>2 DEF Send, TypeOK, Calls, Idle
  <1>4. \A q \in Requests : (Held(q)' <=> Held(q)) /\ (Calling(q)' <=> Calling(q))
    BY <1>1, <1>3 DEF Held, Calling
  <1>5. \A q \in Requests \ {r} : wire'[q] = wire[q]
    BY <1>r DEF Send, TypeOK
  <1>6. \A q \in Requests \ {r} : Stage(q)' = Stage(q)
    BY <1>1, <1>4, <1>5, StageFrame
  <1>7. Calling(r) /\ ~Held(r)
    BY <1>r, StageFacts DEF Calling
  <1>8. Stage(r)' = Stage(r)
    BY <1>4, <1>7 DEF Stage
  <1>9. \A q \in Requests : Clearance(q)' = Clearance(q)
    BY <1>1, ClearanceFrame
  <1> QED
    BY <1>1, <1>6, <1>8, <1>9, CloseImplements

(* The call of a request ends: the request is closed unless the API server *)
(* has it or has carried it out.                                           *)
LEMMA ReturnImplements ==
  ASSUME TypeOK, Inductive, NEW n \in Replicas, call[n] # Idle,
         NEW s, NEW d, Finish(n, s, d),
         \/ wire' = wire
         \/ /\ wire[call[n].id] = "none"
            /\ wire' = [wire EXCEPT ![call[n].id] = "simulated"]
  PROVE  Promise!Next
  <1>1. UNCHANGED << level, opa, queue, effects >>
    BY DEF Finish, requestVars
  <1>2. PICK r \in Requests : r = call[n].id
    BY CallHasId
  <1>3. /\ call'[n] = Idle
        /\ \A m \in Replicas : m # n => call'[m] = call[m]
    BY DEF Finish, TypeOK
  <1>4. \A q \in Requests : Held(q)' <=> Held(q)
    BY <1>1 DEF Held
  <1>5. \A q \in Requests \ {r} : Calling(q)' <=> Calling(q)
    BY <1>2, <1>3, RequestsAssumption DEF Calling, Idle
  <1>6. ~Calling(r)'
    <2> SUFFICES ASSUME NEW m \in Replicas, call'[m].id = r
                 PROVE  FALSE
      BY DEF Calling
    <2>1. m # n /\ call[m].id = r /\ call[m] # Idle
      BY <1>2, <1>3, RequestsAssumption DEF Idle
    <2> QED
      BY <1>2, <2>1, CallsAreDistinct
  <1>7. \A q \in Requests \ {r} : phase'[q] = phase[q] /\ wire'[q] = wire[q]
    <2>1. \A q \in Requests \ {r} : phase'[q] = phase[q]
      BY <1>2 DEF Finish, Respond, TypeOK
    <2>2. \A q \in Requests \ {r} : wire'[q] = wire[q]
      BY <1>2 DEF TypeOK
    <2> QED
      BY <2>1, <2>2
  <1>8. \A q \in Requests \ {r} : Stage(q)' = Stage(q)
    BY <1>4, <1>5, <1>7, StageFrame
  <1>9. Calling(r) /\ ~Held(r) /\ phase[r] \notin {"new", "opa"}
    BY <1>2, StageFacts DEF Calling
  <1>10. phase'[r] \notin {"new", "opa"}
    BY <1>2, <1>9 DEF Finish, Respond, TypeOK
  <1>11. Stage(r) = "open"
    BY <1>9 DEF Stage
  <1>12. CASE wire'[r] \in {"sent", "applied"}
    <2>1. Stage(r)' = "open"
      BY <1>4, <1>9, <1>12 DEF Stage
    <2> QED
      BY <1>1, <1>8, <1>11, <2>1, ClearanceFrame, CloseImplements
  <1>13. CASE wire'[r] \notin {"sent", "applied"}
    <2>1. Stage(r)' = "closed"
      BY <1>4, <1>6, <1>9, <1>10, <1>13 DEF Stage
    <2>2. wire[r] # "applied"
      BY <1>2, <1>13 DEF TypeOK
    <2>3. effects[r] = 0
      BY <1>2, <2>2, StageFacts
    <2> QED
      BY <1>1, <1>8, <2>1, <2>3, ClearanceFrame, CloseImplements
  <1> QED
    BY <1>12, <1>13

LEMMA CallImplements ==
  ASSUME TypeOK, Inductive, NEW n \in Replicas, CallReturns(n)
  PROVE  Promise!Next
  <1>1. call[n] # Idle
    BY DEF CallReturns, ReturnDone, ReturnSimulated, ReturnK8sError,
       ReturnUncaught
  <1>2. CallOK(n)
    BY DEF Inductive
  <1>3. CASE ReturnDone(n)
    BY <1>1, <1>3, ReturnImplements DEF ReturnDone
  <1>4. CASE ReturnSimulated(n)
    <2>1. wire[call[n].id] = "none"
      BY <1>1, <1>2, <1>4 DEF ReturnSimulated, CallOK
    <2>2. /\ Finish(n, 200, ExecDecision(n))
          /\ wire' = [wire EXCEPT ![call[n].id] = "simulated"]
      BY <1>4 DEF ReturnSimulated
    <2> QED
      BY <1>1, <2>1, <2>2, ReturnImplements
  <1>5. CASE ReturnK8sError(n)
    BY <1>1, <1>5, ReturnImplements DEF ReturnK8sError
  <1>6. CASE ReturnUncaught(n)
    BY <1>1, <1>6, ReturnImplements DEF ReturnUncaught
  <1> QED
    BY <1>3, <1>4, <1>5, <1>6 DEF CallReturns

(* The API server carries out what is open, and for the first time.        *)
LEMMA AppliesImplements ==
  ASSUME TypeOK, Inductive, NEW r \in Requests, ApiApplies(r)
  PROVE  Promise!Next
  <1>1. UNCHANGED << level, opa, phase, queue, call >>
    BY DEF ApiApplies, requestVars, humanVars
  <1>2. \A q \in Requests : (Held(q)' <=> Held(q)) /\ (Calling(q)' <=> Calling(q))
    BY <1>1 DEF Held, Calling
  <1>3. \A q \in Requests \ {r} : Stage(q)' = Stage(q)
    BY <1>1, <1>2, StageFrame DEF ApiApplies, TypeOK
  <1>4. wire[r] = "sent" /\ wire'[r] = "applied" /\ ~Held(r) /\ effects[r] = 0
    BY StageFacts DEF ApiApplies, TypeOK
  <1>5. Stage(r) = "open" /\ Stage(r)' = "open"
    BY <1>2, <1>4 DEF Stage
  <1>6. effects' = [effects EXCEPT ![r] = 1]
    BY <1>4 DEF ApiApplies, TypeOK
  <1>7. \A q \in Requests : Clearance(q)' = Clearance(q)
    BY <1>1, ClearanceFrame
  <1> DEFINE st == [q \in Requests |-> Stage(q)]
             cl == [q \in Requests |-> Clearance(q)]
  <1>8. st' = st /\ cl' = cl /\ st[r] = "open"
    BY <1>3, <1>5, <1>7
  <1>9. Promise!Apply(r)
    BY <1>4, <1>6, <1>8 DEF Promise!Apply
  <1> QED
    BY <1>9 DEF Promise!Next

(* What the API server refuses is closed, or will be when its call ends.   *)
LEMMA RefusesImplements ==
  ASSUME TypeOK, Inductive, NEW r \in Requests, ApiRefuses(r)
  PROVE  Promise!Next
  <1>1. UNCHANGED << level, opa, phase, queue, call, effects >>
    BY DEF ApiRefuses, requestVars, humanVars
  <1>2. \A q \in Requests : (Held(q)' <=> Held(q)) /\ (Calling(q)' <=> Calling(q))
    BY <1>1 DEF Held, Calling
  <1>3. \A q \in Requests \ {r} : Stage(q)' = Stage(q)
    BY <1>1, <1>2, StageFrame DEF ApiRefuses, TypeOK
  <1>4. wire[r] = "sent" /\ wire'[r] = "refused" /\ ~Held(r) /\ effects[r] = 0
    BY StageFacts DEF ApiRefuses, TypeOK
  <1>5. Stage(r) = "open" /\ Stage(r)' \in {"open", "closed"}
    BY <1>2, <1>4 DEF Stage
  <1> QED
    BY <1>1, <1>3, <1>4, <1>5, ClearanceFrame, CloseImplements

-----------------------------------------------------------------------------
(* Processes                                                               *)

(* The requests of a dead process are closed, except those that its call   *)
(* had already sent.                                                       *)
LEMMA DiesImplements ==
  ASSUME TypeOK, Inductive, NEW n \in Replicas, Dies(n)
  PROVE  Promise!Next
  <1>1. UNCHANGED << level, opa, wire, effects >>
    BY DEF Dies, requestVars
  <1>2. /\ queue'[n] = {} /\ call'[n] = Idle
        /\ \A m \in Replicas : m # n => queue'[m] = queue[m] /\ call'[m] = call[m]
    BY DEF Dies, TypeOK
  <1>3. \A q \in Requests : Clearance(q)' = Clearance(q)
    BY <1>1, ClearanceFrame
  <1>4. ASSUME NEW q \in Requests, Stage(q)' # Stage(q)
        PROVE  Stage(q)' = "closed" /\ effects[q] = 0
    <2>1. Held(q)' => Held(q)
      BY <1>2 DEF Held
    <2>2. Calling(q)' => Calling(q)
      BY <1>2, RequestsAssumption DEF Calling, Idle
    <2>3. phase'[q] \in {"new", "opa"} => phase'[q] = phase[q]
      BY DEF Dies, TypeOK
    <2>4. ~Held(q)'
      BY <1>4, <2>1 DEF Stage
    <2>5. ~(Calling(q)' \/ wire'[q] \in {"sent", "applied"})
      <3>1. SUFFICES ASSUME Calling(q)' \/ wire'[q] \in {"sent", "applied"}
                     PROVE  Stage(q) = "open" /\ Stage(q)' = "open"
        BY <1>4
      <3>2. Calling(q) \/ wire[q] \in {"sent", "applied"}
        BY <1>1, <2>2, <3>1
      <3>3. ~Held(q)
        BY <3>2, StageFacts
      <3> QED
        BY <2>4, <3>1, <3>2, <3>3 DEF Stage
    <2>6. effects[q] = 0
      BY <1>1, <2>5, StageFacts
    <2>7. CASE Stage(q)' = "submitted"
      <3>1. wire[q] = "none" /\ phase[q] \in {"new", "opa"}
        BY <1>1, <2>3, <2>4, <2>5, <2>7 DEF Stage
      <3>2. Stage(q) = "submitted"
        BY <3>1, StageFacts DEF Stage
      <3> QED
        BY <1>4, <2>7, <3>2
    <2>8. Stage(q)' \in {"submitted", "closed"}
      BY <2>4, <2>5 DEF Stage
    <2> QED
      BY <2>6, <2>7, <2>8
  <1> QED
    BY <1>1, <1>3, <1>4, CloseImplements

LEMMA RestartImplements ==
  ASSUME NEW n \in Replicas, Restart(n)
  PROVE  Promise!Next
  <1>1. UNCHANGED << level, opa, phase, queue, call, wire, effects >>
    BY DEF Restart, requestVars, humanVars, clusterVars
  <1>2. \A q \in Requests : (Held(q)' <=> Held(q)) /\ (Calling(q)' <=> Calling(q))
    BY <1>1 DEF Held, Calling
  <1> QED
    BY <1>1, <1>2, StageFrame, ClearanceFrame, CloseImplements

-----------------------------------------------------------------------------
(* Until a request is submitted, OPA is not asked about it                 *)

Unasked == \A r \in Requests : phase[r] = "new" => opa[r] = "none"

LEMMA UnaskedStep == TypeOK /\ Inductive /\ Unasked /\ [Next]_vars => Unasked'
  <1> SUFFICES ASSUME TypeOK, Inductive, Unasked, [Next]_vars,
                      NEW q \in Requests, phase'[q] = "new"
               PROVE  opa'[q] = "none"
    BY DEF Unasked
  <1>1. SUFFICES phase[q] = "new" /\ (opa'[q] = opa[q] \/ reply[q].status = 403
                                      \/ phase[q] = "opa")
    BY DEF Unasked, Inductive, RequestOK, NoAnswer
  <1>2. ASSUME NEW r \in Requests, AgentHandler(r)
        PROVE  phase[q] = "new" /\ opa' = opa
    BY <1>2 DEF AgentHandler, Unauthorized, ScoringFails, Submit, OpaDenied,
       OpaFailed, Denies, OpaGarbled, QueueForHuman, BeginDirect, Respond, TypeOK
  <1>3. ASSUME NEW r \in Requests, OpaDecides(r)
        PROVE  /\ phase[q] = "new"
               /\ opa'[q] = opa[q] \/ reply[q].status = 403 \/ phase[q] = "opa"
    BY <1>3 DEF OpaDecides, TypeOK
  <1>4. ASSUME NEW n \in Replicas, NEW r \in Requests, ApproveHandler(n, r)
        PROVE  UNCHANGED << phase, opa >>
    BY <1>4 DEF ApproveHandler, ApproveUnauthorized, ApproveUnknown, Approve,
       Reject
  <1>5. ASSUME NEW n \in Replicas, Send(n)
        PROVE  UNCHANGED << phase, opa >>
    BY <1>5 DEF Send
  <1>6. ASSUME NEW n \in Replicas, CallReturns(n)
        PROVE  phase[q] = "new" /\ opa' = opa
    <2>1. PICK s, d : Finish(n, s, d)
      BY <1>6 DEF CallReturns, ReturnDone, ReturnSimulated, ReturnK8sError,
         ReturnUncaught
    <2> QED
      BY <2>1 DEF Finish, Respond, TypeOK
  <1>7. ASSUME NEW r \in Requests, ApiApplies(r) \/ ApiRefuses(r)
        PROVE  UNCHANGED << phase, opa >>
    BY <1>7 DEF ApiApplies, ApiRefuses
  <1>8. ASSUME NEW n \in Replicas, Crash(n) \/ Restart(n) \/ DeletePod(n)
        PROVE  phase[q] = "new" /\ opa' = opa
    BY <1>8 DEF Crash, Restart, DeletePod, Dies, TypeOK
  <1>9. CASE UNCHANGED vars
    BY <1>9 DEF vars
  <1>10. CASE \/ \E n \in Replicas, r \in Requests : ApproveHandler(n, r)
              \/ \E n \in Replicas : Send(n)
              \/ \E r \in Requests : ApiApplies(r) \/ ApiRefuses(r)
    <2>1. UNCHANGED << phase, opa >>
      BY <1>4, <1>5, <1>7, <1>10
    <2> QED
      BY <2>1
  <1>11. CASE Next
    BY <1>2, <1>3, <1>6, <1>8, <1>10, <1>11 DEF Next
  <1> QED
    BY <1>9, <1>11

-----------------------------------------------------------------------------
(* The refinement                                                          *)

LEMMA InitImplements == Init => Promise!Init
  <1> SUFFICES ASSUME Init
               PROVE  Promise!Init
    OBVIOUS
  <1>1. ASSUME NEW r \in Requests
        PROVE  Clearance(r) = "none" /\ Stage(r) = "submitted"
    <2>1. opa[r] = "none" /\ phase[r] = "new" /\ wire[r] = "none"
      BY DEF Init
    <2>2. ~Held(r)
      BY DEF Init, Held
    <2>3. ~Calling(r)
      BY RequestsAssumption DEF Init, Calling, Idle
    <2> QED
      BY <2>1, <2>2, <2>3 DEF Clearance, Stage
  <1>2. effects = [r \in Requests |-> 0]
    BY DEF Init
  <1> QED
    BY <1>1, <1>2 DEF Promise!Init

LEMMA StepImplements ==
  ASSUME TypeOK, Inductive, Unasked, Next
  PROVE  Promise!Next
  <1>1. ASSUME NEW r \in Requests, AgentHandler(r)
        PROVE  Promise!Next
    <2>1. CASE Unauthorized(r) \/ ScoringFails(r)
      BY <2>1, EndsImplements DEF Unauthorized, ScoringFails, requestVars,
         humanVars, clusterVars
    <2>2. CASE Submit(r)
      BY <2>2, SubmitImplements DEF Submit, Unasked
    <2>3. CASE OpaDenied(r) \/ OpaFailed(r)
      <3>1. Resumes(r) /\ Denies(r)
        BY <2>3 DEF OpaDenied, OpaFailed
      <3> QED
        BY <3>1, EndsImplements DEF Resumes, Denies, requestVars, humanVars,
           clusterVars
    <2>4. CASE OpaGarbled(r)
      BY <2>4, EndsImplements DEF OpaGarbled, Resumes, requestVars, humanVars,
         clusterVars
    <2>5. CASE QueueForHuman(r) \/ BeginDirect(r)
      BY <2>5, QueueImplements, BeginImplements
    <2> QED
      BY <1>1, <2>1, <2>2, <2>3, <2>4, <2>5 DEF AgentHandler
  <1>2. ASSUME NEW n \in Replicas, NEW r \in Requests, ApproveHandler(n, r)
        PROVE  Promise!Next
    BY <1>2, NoResolutionImplements, ApproveImplements, RejectImplements
       DEF ApproveHandler
  <1>3. ASSUME NEW n \in Replicas, Send(n) \/ CallReturns(n)
        PROVE  Promise!Next
    BY <1>3, SendImplements, CallImplements
  <1>4. ASSUME NEW n \in Replicas, Crash(n) \/ Restart(n) \/ DeletePod(n)
        PROVE  Promise!Next
    BY <1>4, DiesImplements, RestartImplements DEF Crash, DeletePod
  <1> QED
    BY <1>1, <1>2, <1>3, <1>4, OpaDecidesImplements, AppliesImplements,
       RefusesImplements DEF Next

LEMMA StutterImplements == UNCHANGED vars => UNCHANGED Promise!vars
  <1> SUFFICES ASSUME UNCHANGED vars
               PROVE  UNCHANGED Promise!vars
    OBVIOUS
  <1>1. UNCHANGED << level, opa, phase, queue, call, wire, effects >>
    BY DEF vars
  <1>2. \A q \in Requests : (Held(q)' <=> Held(q)) /\ (Calling(q)' <=> Calling(q))
    BY <1>1 DEF Held, Calling
  <1>3. \A q \in Requests : Stage(q)' = Stage(q) /\ Clearance(q)' = Clearance(q)
    BY <1>1, <1>2, StageFrame, ClearanceFrame
  <1> QED
    BY <1>1, <1>3 DEF Promise!vars

(* The gateway keeps the promise of Lifecycle: with any number of requests,*)
(* replicas and approvers, and whatever crashes, an action is carried out  *)
(* at most once and only while it is open, and it opens only by the        *)
(* policy's clearance or by a human's approval from a queue.               *)
THEOREM GatewayKeepsPromise == Spec => KeepsPromise
  <1>1. Init => Unasked
    BY DEF Init, Unasked
  <1>2. TypeOK /\ Inductive /\ Unasked /\ [Next]_vars => [Promise!Next]_(Promise!vars)
    BY StepImplements, StutterImplements
  <1> QED
    BY <1>1, <1>2, InitImplements, UnaskedStep, TypeCorrect, AlwaysInductive,
       PTL DEF Spec, KeepsPromise, Promise!Spec
=============================================================================

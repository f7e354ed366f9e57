---------------------------- MODULE AgentClient ----------------------------
(***************************************************************************)
(* GatewayClient (ai_agent_client.py) in front of the gateway: what an     *)
(* agent learns from the outcome of client.action(), with the client's     *)
(* timeout, its one retry after a 503, a network that may deliver a        *)
(* request after the client has given up on it, and a proxy (mesh sidecar, *)
(* load balancer) that may answer 503 in the gateway's place.              *)
(*                                                                         *)
(* The client sends no key by which the gateway could recognise a retry:   *)
(* each POST becomes a request with an id of its own, << ask, 1 >> for the *)
(* first and << ask, 2 >> for the second.                                  *)
(***************************************************************************)
EXTENDS Gateway

CONSTANT Asks    \* calls of client.action()

ASSUME AttemptsAssumption == Requests = Asks \X {1, 2}

VARIABLES
  turn,    \* which attempt of the ask is under way: 0 before, 3 after
  result,  \* what action() returned or raised
  flying,  \* requests on their way to the gateway
  taken,   \* requests the gateway received
  cutOff   \* history: asks whose first attempt a proxy answered 503 although
           \* it had handed it on

clientVars == << turn, result, flying, taken, cutOff >>
allVars == << vars, clientVars >>

Results == {"none", "returned", "GatewayPendingError", "GatewayAuthError",
            "GatewayDeniedError", "GatewayError", "GatewayConnectionError"}

ClientInit ==
  /\ Init
  /\ turn = [a \in Asks |-> 0]
  /\ result = [a \in Asks |-> "none"]
  /\ flying = {}
  /\ taken = {}
  /\ cutOff = {}

-----------------------------------------------------------------------------
(* _handle_response: the exception, or the return, for an HTTP status.     *)
(* The bodies are those the gateway and the proxy send.                    *)
Outcome(code) ==
  CASE code = 200 -> "returned"
    [] code = 202 -> "GatewayPendingError"
    [] code = 401 -> "GatewayAuthError"
    [] code = 403 -> "GatewayDeniedError"
    [] OTHER -> "GatewayError"

Attempt(a) == << a, turn[a] >>
Waiting(a) == turn[a] \in {1, 2}

Ends(a, how) ==
  /\ turn' = [turn EXCEPT ![a] = 3]
  /\ result' = [result EXCEPT ![a] = how]

(* self._client.post("/agent-action", json=payload)                        *)
Post(a) ==
  /\ turn[a] = 0
  /\ turn' = [turn EXCEPT ![a] = 1]
  /\ flying' = flying \cup {<< a, 1 >>}
  /\ UNCHANGED << vars, result, taken, cutOff >>

(* The gateway's process reads the request, perhaps from a connection that *)
(* the client has closed meanwhile.                                        *)
Deliver(r) ==
  /\ r \in flying
  /\ flying' = flying \ {r}
  /\ taken' = taken \cup {r}
  /\ UNCHANGED << vars, turn, result, cutOff >>

(* The gateway's answer arrives.  It never is a 503.                       *)
Receive(a) ==
  /\ Waiting(a) /\ reply[Attempt(a)].status # 0
  /\ Ends(a, Outcome(reply[Attempt(a)].status))
  /\ UNCHANGED << vars, flying, taken, cutOff >>

(* Mutant of Unavailable: the client tries again when its own timeout has  *)
(* passed, too.                                                            *)
UnavailableOrSlow(a) ==
  /\ Waiting(a)
  /\ \/ /\ turn[a] = 1
        /\ turn' = [turn EXCEPT ![a] = 2]
        /\ flying' = flying \cup {<< a, 2 >>}
        /\ UNCHANGED result
     \/ turn[a] = 2 /\ Ends(a, "GatewayError") /\ UNCHANGED flying
  /\ UNCHANGED << vars, taken, cutOff >>

(* A proxy answers 503.  It could not hand the request on; or it had, and  *)
(* its connection to the gateway broke, whether the replica died, is still *)
(* at work, has answered or has yet to read the request.  The client       *)
(* sleeps a second and posts the same payload again, once.                 *)
Unavailable(a) ==
  /\ Waiting(a)
  /\ \E left \in {flying \ {Attempt(a)}, flying} :
       \/ /\ turn[a] = 1
          /\ turn' = [turn EXCEPT ![a] = 2]
          /\ flying' = left \cup {<< a, 2 >>}
          /\ cutOff' = IF left = flying THEN cutOff \cup {a} ELSE cutOff
          /\ UNCHANGED result
       \/ /\ turn[a] = 2
          /\ Ends(a, Outcome(503))
          /\ flying' = left
          /\ UNCHANGED cutOff
  /\ UNCHANGED << vars, taken >>

(* httpx.RequestError: no connection, a broken one, or no answer within    *)
(* the timeout.  What is on its way stays on its way.                      *)
Unreachable(a) ==
  /\ Waiting(a)
  /\ Ends(a, "GatewayConnectionError")
  /\ UNCHANGED << vars, flying, taken, cutOff >>

(* A step of the gateway, which handles only what it has received.         *)
GatewayStep ==
  /\ Next
  /\ \A r \in Requests \ taken : phase'[r] = phase[r]
  /\ UNCHANGED clientVars

ClientNext ==
  \/ \E a \in Asks : Post(a) \/ Receive(a) \/ Unavailable(a) \/ Unreachable(a)
  \/ \E r \in Requests : Deliver(r)
  \/ GatewayStep

ClientSpec == ClientInit /\ [][ClientNext]_allVars

-----------------------------------------------------------------------------
(* Properties                                                              *)

(* Every variable of the client holds a value it can hold.                 *)
ClientTypeOK ==
  /\ turn \in [Asks -> 0..3]
  /\ result \in [Asks -> Results]
  /\ flying \subseteq Requests /\ taken \subseteq Requests
  /\ cutOff \subseteq Asks

(* One action() changes the cluster at most once, though the client may    *)
(* post it twice; twice only when a proxy answered 503 for a request it    *)
(* had handed on.  The client's own timeout, an error answer of the        *)
(* gateway and a 503 for what was never handed on repeat nothing.          *)
RepeatedOnlyIfCutOff ==
  \A a \in Asks :
    effects[<< a, 1 >>] + effects[<< a, 2 >>] > 1 => a \in cutOff

(* GatewayDeniedError and GatewayAuthError mean that the action was not    *)
(* and will not be carried out by the attempt they answer, nor by an       *)
(* earlier one, unless a proxy had cut that one off: then the agent is     *)
(* told "denied" of an action that may be carried out or wait for a human. *)
DeniedMeansUndone ==
  \A a \in Asks :
    result[a] \in {"GatewayDeniedError", "GatewayAuthError"} =>
      /\ effects[<< a, 2 >>] = 0 /\ ~Held(<< a, 2 >>)
      /\ a \in cutOff \/ (effects[<< a, 1 >>] = 0 /\ ~Held(<< a, 1 >>))

(* When action() returns, one of its attempts was carried out (or its      *)
(* result is marked [SIMULATED]), or it is pending, and then nothing is    *)
(* sent to the cluster for it before a human has approved it.  When        *)
(* approve() returns "human-allow" the approved request was carried out    *)
(* (or simulated).                                                         *)
ReturnedMeansHandled ==
  /\ \A a \in Asks : result[a] = "returned" =>
       \E i \in {1, 2} :
         LET r == << a, i >> IN
         /\ reply[r].status = 200
         /\ \/ reply[r].decision = "allow" /\ wire[r] \in {"applied", "simulated"}
            \/ /\ reply[r].decision = "pending-approval"
               /\ wire[r] # "none" => ruling[r] = "approved"
  /\ \A r \in Requests :
       Outcome(answer[r].status) = "returned" /\ answer[r].decision = "human-allow" =>
         wire[r] \in {"applied", "simulated"}
=============================================================================

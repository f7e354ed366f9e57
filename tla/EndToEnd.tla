------------------------------ MODULE EndToEnd ------------------------------
(***************************************************************************)
(* From the agent's call to the objects in the cluster: Mediation, with    *)
(* K8sClient in place of the bare wire.                                    *)
(*                                                                         *)
(* What a replica sends, the API server carries out or refuses later, on   *)
(* the Deployments as they are then: another replica's call, people with   *)
(* kubectl or a retry may have come first, and the sender may be dead.     *)
(***************************************************************************)
EXTENDS Mediation

CONSTANTS Names, Ports, Foreign,   \* as in K8sClient
          Posts   \* what agents post: bodies with all their parameters

VARIABLES deployments,  \* the Deployments that exist, by name
          last,         \* how the last execute_action ended, at the API server
          args,         \* the parameters of each ask that only the client reads
          settled       \* history: per ask, the Deployments as the first
                        \* attempt that was carried out left them

K8s == INSTANCE K8sClient WITH Requests <- Bodies, store <- deployments, reply <- last

ASSUME OneNamespaceAssumption == \A a, b \in Bodies : a.namespace = b.namespace
ASSUME PostsAssumption == Posts \subseteq UNION {K8s!CallsFor(b) : b \in Bodies}
ASSUME ClusterAssumption ==
  /\ K8s!DefaultName \in Names
  /\ Names \cap {"absent", "null", "empty", "not a string"} = {}
  /\ K8s!DefaultPort \in Ports /\ Ports \cap {"absent", "null", "text"} = {}
  /\ K8s!DefaultImage \in ImageNames
  /\ Foreign \subseteq {d \in K8s!Deployments : d.hands = "operator"}

clusterState == << deployments, last >>
endVars == << mediationVars, clusterState, args, settled >>

-----------------------------------------------------------------------------
(* Mutant of Call: the retry leaves the port out.                          *)
CallRetriedBare(r) ==
  IF r[2] = 1 THEN args[r[1]] ELSE [args[r[1]] EXCEPT !.port = "absent"]

(* The execute_action call a request becomes: both attempts of an ask      *)
(* carry the same parameters, and so does the queue entry of one that      *)
(* waits for a human.                                                      *)
Call(r) == args[r[1]]

Sendable(c) == \E v \in K8s!ApiVerbs(c.request) : K8s!Sent(c, v)

(* How often the attempts of an ask were carried out.                      *)
Carried(a) == effects[<< a, 1 >>] + effects[<< a, 2 >>]

EndToEndInit ==
  /\ MediationInit /\ K8s!Init
  /\ args \in [Asks -> Posts]
  /\ \A a \in Asks : args[a].request = payload[a]
  /\ settled = [a \in Asks |-> {}]

(* The API server answers what was sent to it.                             *)
ClusterAnswers(r) ==
  /\ wire[r] = "sent"
  /\ \/ /\ wire'[r] = "applied"
        /\ K8s!Reads(Call(r)) \/ K8s!Creates(Call(r)) \/ K8s!Patches(Call(r))
     \/ /\ wire'[r] = "refused"
        /\ K8s!ApiError(Call(r)) \/ K8s!NoPod(Call(r))

FailsUnsent(n, s) == call[n] # Idle /\ ~call[n].sent /\ Finish(n, s, "none")

(* _dispatch or _build_deployment raises before anything is sent: 502 for  *)
(* a ValueError, 500 for a TypeError.                                      *)
BuildingFails(n) ==
  LET c == Call(call[n].id) IN
  \E s \in {500, 502} :
    /\ FailsUnsent(n, s)
    /\ K8s!Unsupported(c) \/ K8s!Nameless(c) \/ K8s!BadNumber(c)
    /\ last'.status = s

(* A step the cluster does not notice.  Only a call with a branch and all  *)
(* its parameters is sent; without them it fails as BuildingFails says,    *)
(* and with them for want of a connection only (500; 502 if TLS fails).    *)
Unnoticed ==
  /\ \A r \in Requests : wire'[r] # wire[r] =>
       wire'[r] = "simulated" \/ (wire'[r] = "sent" /\ Sendable(Call(r)))
  /\ \A n \in Replicas : \A s \in {500, 502} :
       FailsUnsent(n, s) => Sendable(Call(call[n].id))
  /\ UNCHANGED clusterState

EndToEndNext ==
  \/ /\ MediationNext
     /\ \/ \E r \in Requests : ClusterAnswers(r)
        \/ \E n \in Replicas : BuildingFails(n)
        \/ Unnoticed
     /\ settled' = [a \in Asks |->
          IF Carried(a) = 0 /\ Carried(a)' = 1 THEN {deployments'} ELSE settled[a]]
     /\ UNCHANGED args
  \/ /\ \E n \in Names : K8s!OperatorWrites(n) \/ K8s!OperatorDeletes(n)
     /\ UNCHANGED << mediationVars, args, settled >>

EndToEndSpec == EndToEndInit /\ [][EndToEndNext]_endVars

-----------------------------------------------------------------------------
(* Properties                                                              *)

(* K8sClient takes for granted that only what the policy allows is ever    *)
(* executed.  The whole path delivers that: whatever replicas, retries,    *)
(* approvals and late answers do, each step the cluster sees is an         *)
(* execution of a request whose body the policy allows, approved by a      *)
(* human if it scores high, or one of other people.                        *)
Justified(r) ==
  Allow(Body(r)) /\ (Level(Body(r)) = "high" => ruling[r] = "approved")

Guarded ==
  \/ UNCHANGED clusterState
  \/ \E r \in Requests : Justified(r) /\ K8s!ExecuteAction(Call(r))
  \/ \E n \in Names : K8s!OperatorWrites(n) \/ K8s!OperatorDeletes(n)

ClusterIsGuarded == K8s!Init /\ [][Guarded]_endVars

(* A retry may be carried out after the first attempt was (RepeatedOnlyIf- *)
(* CutOff says when), but it does no more: as long as nobody else changed  *)
(* the Deployments in between, it leaves them as the first attempt did, in *)
(* whichever order the two arrive.                                         *)
RepeatIsHarmless ==
  [][\A a \in Asks :
       Carried(a)' > Carried(a) /\ deployments \in settled[a] =>
         deployments' = deployments]_endVars
=============================================================================

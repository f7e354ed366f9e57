----------------------------- MODULE K8sClient -----------------------------
(***************************************************************************)
(* The Kubernetes client (app/k8s/client.py) behind the policy: which API  *)
(* call an allowed request becomes, what it does to the Deployments of one *)
(* namespace, and what the Gatekeeper constraints say of the result.       *)
(*                                                                         *)
(* The namespace is shared with people who use kubectl.  A Deployment is   *)
(* reduced to the container that bears the Deployment's own name, the only *)
(* one the client ever writes, and a remark whether there are others.      *)
(* Its security context is kept as one mark, `confined`; of its CPU and    *)
(* memory limits, whether both are there.                                  *)
(***************************************************************************)
EXTENDS Policy

CONSTANTS Requests,  \* the requests considered, all in one namespace
          Names,     \* names of Deployments
          Ports,     \* container ports that int() converts
          Foreign    \* Deployments as people write them with kubectl

DefaultName  == "gateway-managed-app"
DefaultImage == "nginx:"    \* nginx:alpine, by its prefix
DefaultPort  == "80"

ASSUME RequestSetAssumption ==
  /\ Requests \subseteq ActionRequests
  /\ \A r, s \in Requests : r.namespace = s.namespace
ASSUME NamesAssumption ==
  DefaultName \in Names
  /\ Names \cap {"absent", "null", "empty", "not a string"} = {}
ASSUME PortsAssumption ==
  DefaultPort \in Ports /\ Ports \cap {"absent", "null", "text"} = {}
ASSUME DefaultImageAssumption == DefaultImage \in ImageNames

VARIABLES store,  \* the Deployments that exist, by name
          reply   \* the outcome of the last execute_action

vars == << store, reply >>

(* A call of execute_action: a request with the parameters that only this  *)
(* client reads.  "null" and "text" are ports int() does not convert.  The *)
(* limits and requests are quantities, given or by default, or one of the  *)
(* limits is null, or they are nothing the API server takes.  A name that  *)
(* is false, zero or an empty collection fares like the empty one.         *)
CallsFor(r) == [request : {r},
                name : Names \cup {"absent", "null", "empty", "not a string"},
                port : Ports \cup {"absent", "null", "text"},
                limits : {"quantities", "null", "bad"}]

(* The calls that the typed methods of GatewayClient make, with arguments  *)
(* of their annotated types.                                               *)
Typed(c) ==
  LET r == c.request
      kind == r.params.replicas.kind
  IN /\ r.padded \cap {"action", "resource"} = {}
     /\ \/ /\ r.action = "list"
           /\ r.resource \in {"pods", "deployments", "secrets", "namespaces"}
        \/ /\ r.action = "get" /\ r.resource \in {"pods", "deployments"}
           /\ c.name \in Names
        \/ /\ r.action = "create" /\ r.resource = "deployments"
           /\ c.name \in Names /\ c.port \in Ports /\ c.limits # "null"
           /\ r.params.image \in ImageNames /\ kind = "number"
        \/ /\ r.action = "patch" /\ r.resource = "deployments"
           /\ c.name \in Names /\ c.port = "absent" /\ c.limits = "quantities"
           /\ r.params.image \in ImageNames \cup {"absent"}
           /\ kind \in {"number", "absent"}

Containers ==
  [image : ImageNames, ports : SUBSET Ports, confined : BOOLEAN,
   limits : {"both", "lifted", "none"}]  \* "lifted": taken away by an agent
Deployments ==
  [replicas : Nat,
   selector : {"own", "other"},  \* "own" is {app: <name of the Deployment>}
   own : SUBSET Containers,      \* the container with the Deployment's name
   others : BOOLEAN,             \* containers by another name
   hostAccess : BOOLEAN,         \* hostNetwork, hostPID or hostIPC
   hands : {"operator", "gateway", "both"}]
                    \* written by people, by the gateway, last by the gateway

ASSUME ForeignAssumption ==
  Foreign \subseteq {d \in Deployments : d.hands = "operator"}

Replies ==
  [status : {0, 200, 500, 502},
   reason : {"none", "ok", "unsupported", "no name", "TypeError", "ValueError",
             "forbidden", "not found", "exists", "invalid"},
   typed : BOOLEAN,    \* the call is one of the typed methods'
   named : SUBSET {"image", "replicas", "port"},     \* what a patch named
   changed : SUBSET {"image", "replicas", "port"}]   \* and what it changed

NoReply == [status |-> 0, reason |-> "none", typed |-> FALSE,
            named |-> {}, changed |-> {}]

Init == store = << >> /\ reply = NoReply

-----------------------------------------------------------------------------
(* The dispatch table and the ClusterRole                                  *)

(* Singular and plural name the same branch of _dispatch.                  *)
Kind(resource) ==
  CASE resource = "pod" -> "pods"
    [] resource = "deployment" -> "deployments"
    [] resource = "secret" -> "secrets"
    [] resource = "namespace" -> "namespaces"
    [] resource = "configmap" -> "configmaps"
    [] OTHER -> resource

(* Mutant of DispatchTable: services were added, the ClusterRole was not.  *)
DispatchTableServices ==
  ({"pods", "deployments", "secrets", "namespaces", "configmaps", "services"}
     \X { << "list", "list" >> })
  \cup ({"pods", "deployments"} \X { << "get", "get" >>, << "delete", "delete" >> })
  \cup ({"deployments"} \X { << "create", "create" >>, << "patch", "patch" >>,
                             << "update", "patch" >> })

(* Mutant of DispatchTable: only "update" leads to a patch.                *)
DispatchTableNoPatch ==
  ({"pods", "deployments", "secrets", "namespaces", "configmaps"}
     \X { << "list", "list" >> })
  \cup ({"pods", "deployments"} \X { << "get", "get" >>, << "delete", "delete" >> })
  \cup ({"deployments"} \X { << "create", "create" >>, << "update", "patch" >> })

(* What the branches are keyed by, and the API verb each of them uses.     *)
DispatchTable ==
  ({"pods", "deployments", "secrets", "namespaces", "configmaps"}
     \X { << "list", "list" >> })
  \cup ({"pods", "deployments"} \X { << "get", "get" >>, << "delete", "delete" >> })
  \cup ({"deployments"} \X { << "create", "create" >>, << "patch", "patch" >>,
                             << "update", "patch" >> })

ApiVerbs(r) ==
  {v \in {"list", "get", "create", "patch", "delete"} :
     << Kind(r.resource), << r.action, v >> >> \in DispatchTable}

(* The rules of the ClusterRole ai-gateway-role.                           *)
Granted ==
  ({"pods"} \X {"get", "list", "watch"})
  \cup ({"deployments"} \X {"get", "list", "watch", "create", "update", "patch"})
  \cup ({"secrets", "namespaces", "configmaps"} \X {"list"})

-----------------------------------------------------------------------------
(* Parameters and the Deployment that is built from them                   *)

(* _require_param: absent, null and empty are the same.                    *)
LacksName(c) == c.name \in {"absent", "null", "empty"}

(* What int() of replicas, then of container_port raises, and V1Container  *)
(* over a name that is null.                                               *)
Raised(c) ==
  LET kind == c.request.params.replicas.kind
  IN IF kind \in {"null", "collection"} THEN "TypeError"
     ELSE IF kind = "other text" THEN "ValueError"
     ELSE IF c.port = "null" THEN "TypeError"
     ELSE IF c.port = "text" \/ c.name = "null" THEN "ValueError" ELSE "nothing"

(* int(params.get("replicas", 1)), when it does not raise: a fraction      *)
(* loses what follows the point, false and true count as 0 and 1.          *)
ReplicaCount(c) ==
  LET v == c.request.params.replicas
  IN IF v.kind = "absent" THEN 1 ELSE v.count

(* Mutant of ObjectName: no default.                                       *)
ObjectNameAsGiven(c) == c.name

ObjectName(c) == IF c.name = "absent" THEN DefaultName ELSE c.name
Port(c)  == IF c.port = "absent" THEN DefaultPort ELSE c.port
Image(c) == IF c.request.params.image = "absent" THEN DefaultImage
            ELSE c.request.params.image

(* _build_deployment as a new object.                                      *)
Built(c) ==
  [replicas |-> ReplicaCount(c), selector |-> "own",
   own |-> {[image |-> Image(c), ports |-> {Port(c)}, confined |-> TRUE,
             limits |-> "both"]},
   others |-> FALSE, hostAccess |-> FALSE, hands |-> "gateway"]

(* In a patch, a null deletes the key it is sent for.                      *)
PatchedLimits(c) == IF c.limits = "null" THEN "lifted" ELSE "both"

(* Mutant of Patched: limits and security context are left as they are.    *)
PatchedLoosely(d, c) ==
  LET image == IF Image(c) = "null" THEN {o.image : o \in d.own} ELSE {Image(c)}
      loose == IF d.own = {} THEN {FALSE} ELSE {o.confined : o \in d.own}
  IN [d EXCEPT !.replicas = ReplicaCount(c),
               !.own = [image : image, confined : loose, limits : {"none"},
                        ports : {{Port(c)} \cup UNION {o.ports : o \in d.own}}],
               !.hands = IF @ = "gateway" THEN @ ELSE "both"]

(* The same object sent as a strategic merge patch: the container with the *)
(* Deployment's name is merged, or added beside the others; its ports are  *)
(* merged by number; an image that is null is not sent at all.             *)
Patched(d, c) ==
  LET image == IF Image(c) = "null" THEN {o.image : o \in d.own} ELSE {Image(c)}
  IN [d EXCEPT !.replicas = ReplicaCount(c),
               !.own = [image : image, confined : {TRUE}, limits : {PatchedLimits(c)},
                        ports : {{Port(c)} \cup UNION {o.ports : o \in d.own}}],
               !.hands = IF @ = "gateway" THEN @ ELSE "both"]

-----------------------------------------------------------------------------
(* execute_action                                                          *)

Answer(c, status, reason) ==
  [status |-> status, reason |-> reason, typed |-> Typed(c),
   named |-> {}, changed |-> {}]

Fail(c, status, reason) ==
  /\ reply' = Answer(c, status, reason)
  /\ UNCHANGED store

(* No branch: ValueError.                                                  *)
Unsupported(c) == ApiVerbs(c.request) = {} /\ Fail(c, 502, "unsupported")

(* The branches for one object need its name: ValueError.                  *)
Nameless(c) ==
  /\ ApiVerbs(c.request) \cap {"get", "patch", "delete"} # {} /\ LacksName(c)
  /\ Fail(c, 502, "no name")

(* Building the Deployment raises.  _execute_k8s catches the ValueError    *)
(* but not the TypeError.                                                  *)
BadNumber(c) ==
  /\ \/ "create" \in ApiVerbs(c.request)
     \/ "patch" \in ApiVerbs(c.request) /\ ~LacksName(c)
  /\ Raised(c) # "nothing"
  /\ Fail(c, IF Raised(c) = "ValueError" THEN 502 ELSE 500, Raised(c))

(* The call c goes out with verb v.                                        *)
Sent(c, v) ==
  /\ v \in ApiVerbs(c.request)
  /\ v \in {"get", "patch", "delete"} => ~LacksName(c)
  /\ v \in {"create", "patch"} => Raised(c) = "nothing"

(* Why the API server refuses it: no permission, no such Deployment, a name *)
(* in use, limits that are none, a new object without a usable name or     *)
(* image or with a limit of null, which is less than its request, a patch  *)
(* that would change the immutable selector, give the image a value that   *)
(* is none or add a container without one.                                 *)
Refusals(c, v) ==
  LET n == ObjectName(c)
  IN IF << Kind(c.request.resource), v >> \notin Granted THEN {"forbidden"}
     ELSE IF Kind(c.request.resource) # "deployments" \/ v = "list" THEN {}
     ELSE IF v = "create"
     THEN {x \in {"exists"} : n \in DOMAIN store}
          \cup {x \in {"invalid"} :
                  \/ n \in {"empty", "not a string"}
                  \/ Image(c) \notin ImageNames \/ c.limits # "quantities"}
     ELSE IF n \notin DOMAIN store THEN {"not found"}
     ELSE {x \in {"invalid"} : v = "patch" /\
             \/ store[n].selector = "other" \/ c.limits = "bad"
             \/ Image(c) \notin ImageNames \cup {"null"}
             \/ Image(c) = "null" /\ store[n].own = {}}

(* ApiException: K8sActionError, 502.                                      *)
ApiError(c) ==
  \E v \in ApiVerbs(c.request) :
    Sent(c, v) /\ \E x \in Refusals(c, v) : Fail(c, 502, x)

(* No such pod: pods are not in the store.                                 *)
NoPod(c) ==
  /\ Sent(c, "get") /\ Kind(c.request.resource) = "pods"
  /\ Fail(c, 502, "not found")

Accepted(c, v) == Sent(c, v) /\ Refusals(c, v) = {}
Success(c) == Answer(c, 200, "ok")

Reads(c) ==
  /\ Accepted(c, "list") \/ Accepted(c, "get")
  /\ reply' = Success(c)
  /\ UNCHANGED store

Put(n, d) == store' = [m \in DOMAIN store \cup {n} |-> IF m = n THEN d ELSE store[m]]

Creates(c) ==
  /\ Accepted(c, "create")
  /\ Put(ObjectName(c), Built(c))
  /\ reply' = Success(c)

(* What the agent named in a patch, and what of the object the patch       *)
(* changed.                                                                *)
Named(c) ==
  {f \in {"image"} : c.request.params.image \notin {"absent", "null"}}
  \cup {f \in {"replicas"} : c.request.params.replicas.kind # "absent"}
  \cup {f \in {"port"} : c.port # "absent"}
Changed(d, e) ==
  {f \in {"image"} : {o.image : o \in d.own} # {o.image : o \in e.own}}
  \cup {f \in {"replicas"} : d.replicas # e.replicas}
  \cup {f \in {"port"} : {o.ports : o \in d.own} # {o.ports : o \in e.own}}

Patches(c) ==
  LET n == ObjectName(c) IN
  /\ Accepted(c, "patch")
  /\ Put(n, Patched(store[n], c))
  /\ reply' = [Success(c) EXCEPT
       !.named = Named(c), !.changed = Changed(store[n], Patched(store[n], c))]

ExecuteAction(c) ==
  \/ Unsupported(c) \/ Nameless(c) \/ BadNumber(c)
  \/ ApiError(c) \/ NoPod(c) \/ Reads(c) \/ Creates(c) \/ Patches(c)

-----------------------------------------------------------------------------
(* The cluster's other users                                               *)

(* kubectl creates or edits a Deployment as people please: the policy and  *)
(* the limit on replicas are the gateway's, not theirs.  Only the selector *)
(* cannot be edited.                                                       *)
OperatorWrites(n) ==
  /\ \E d \in Foreign :
       /\ n \in DOMAIN store => d.selector = store[n].selector
       /\ Put(n, d)
  /\ reply' = NoReply

OperatorDeletes(n) ==
  /\ n \in DOMAIN store
  /\ store' = [m \in DOMAIN store \ {n} |-> store[m]]
  /\ reply' = NoReply

-----------------------------------------------------------------------------
(* agent_action executes only what the policy allows.  That a human may be *)
(* asked in between is the business of Gateway.                            *)
Next ==
  \/ \E r \in {x \in Requests : Allow(x)} :
       \E c \in CallsFor(r) : ExecuteAction(c)
  \/ \E n \in Names : OperatorWrites(n) \/ OperatorDeletes(n)

Spec == Init /\ [][Next]_vars

-----------------------------------------------------------------------------
(* Gatekeeper                                                              *)

(* Mutant of AllowedRepos: the Google registry was taken off the list.     *)
AllowedReposShort(image) ==
  image \in {"nginx", "nginx:", "python", "python:", "alpine", "alpine:",
             "busybox", "busybox:", "quay.io/", "registry.k8s.io/"}

(* K8sAllowedRepos: startswith one of its prefixes.  They leave out the    *)
(* colon that some of the policy's prefixes end with: "nginx" stands for   *)
(* the images that begin so and go on without a colon.                     *)
AllowedRepos(image) ==
  image \in {"nginx", "nginx:", "python", "python:", "alpine", "alpine:",
             "busybox", "busybox:", "gcr.io/", "quay.io/", "registry.k8s.io/"}

(* The three constraints, for the pods of a Deployment whose only          *)
(* container is the one named like it.                                     *)
NoPrivileged(d)  == ~d.hostAccess /\ \A o \in d.own : o.confined
TrustedImages(d) == ~d.others /\ \A o \in d.own : AllowedRepos(o.image)
RequireLimits(d) == ~d.others /\ \A o \in d.own : o.limits = "both"
Admitted(d) == NoPrivileged(d) /\ TrustedImages(d) /\ RequireLimits(d)

-----------------------------------------------------------------------------
(* Properties                                                              *)

(* Every variable holds a value the cluster and the client can hold.       *)
TypeOK ==
  /\ DOMAIN store \subseteq Names
  /\ \A n \in DOMAIN store : store[n] \in Deployments
  /\ reply \in Replies

(* Whatever a typed method of the agent's client asks for and the policy   *)
(* allows gets as far as the cluster: the dispatch table knows it, its     *)
(* parameters suffice, and the answer is about the cluster's objects.      *)
TypedCallsReachTheCluster ==
  reply.typed => reply.reason \in {"ok", "not found", "exists", "invalid"}

(* Policy, dispatch table and ClusterRole are three lists in three files:  *)
(* what the first allows and the second sends, the third grants.           *)
NeverForbidden == reply.reason # "forbidden"

(* What the policy made of a request still holds of the object in the      *)
(* cluster, after Rego's and Python's readings of its parameters, defaults *)
(* and merging: no Deployment the gateway wrote last exceeds the limit on  *)
(* replicas, its container is confined, and where no one else had a hand   *)
(* in it the image is trusted.                                             *)
WritesStayInBounds ==
  \A n \in DOMAIN store :
    store[n].hands # "operator" =>
      /\ store[n].replicas <= PolicyMaxReplicas
      /\ \A o \in store[n].own :
           o.confined /\ (store[n].hands = "gateway" => o.image \in PolicyTrustedPrefixes)

(* An agent's last patch sent a limit as null.                             *)
Lifted(d) == \E o \in d.own : o.limits = "lifted"

(* An agent's Deployment really runs: the pods of what only the gateway    *)
(* created and patched pass the three Gatekeeper constraints, whose list   *)
(* of registries is yet another copy.  The one exception are limits that   *)
(* the agent's own last patch took away, and then nothing else is missing. *)
OwnWorkIsAdmitted ==
  \A n \in DOMAIN store : LET d == store[n] IN
    d.hands = "gateway" =>
      Admitted(d) \/ (Lifted(d) /\ NoPrivileged(d) /\ TrustedImages(d))

(* The client and its agents' tools say of patch_deployment: "Update an    *)
(* existing deployment's image or replica count".  The one of the two that *)
(* the call did not name should stay as it was.                            *)
PatchKeepsTheRest ==
  reply.typed => reply.changed \cap {"image", "replicas"} \subseteq reply.named
=============================================================================

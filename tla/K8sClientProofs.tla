-------------------------- MODULE K8sClientProofs --------------------------
(***************************************************************************)
(* Theorems about K8sClient, for any requests, names, images, ports and    *)
(* Deployments of other people.                                            *)
(***************************************************************************)
EXTENDS K8sClient, TLAPS

(* A Deployment as it may be found in the cluster: within the bounds of    *)
(* WritesStayInBounds, and with its one container, its limits unless they  *)
(* were lifted, and no share in the host when only the gateway wrote it.   *)
Sound(d) ==
  /\ d \in Deployments
  /\ d.hands # "operator" =>
       /\ d.replicas \in Nat /\ d.replicas <= PolicyMaxReplicas
       /\ \A o \in d.own :
            o.confined /\ (d.hands = "gateway" => o.image \in PolicyTrustedPrefixes)
  /\ d.hands = "gateway" =>
       ~d.others /\ ~d.hostAccess /\ \A o \in d.own : o.limits # "none"

(* Why a call fails, and which of the reasons are the cluster's.           *)
Failures == {"unsupported", "no name", "TypeError", "ValueError",
             "not found", "exists", "invalid"}
FailureCodes == {500, 502}
Answers  == {"not found", "exists", "invalid"}

StoreSound == DOMAIN store \subseteq Names /\ \A n \in DOMAIN store : Sound(store[n])
ReplySound == reply \in Replies /\ NeverForbidden /\ TypedCallsReachTheCluster
Inductive  == StoreSound /\ ReplySound

-----------------------------------------------------------------------------
(* Operators                                                               *)

(* A verb that the policy allows came without blanks and is no deletion.   *)
LEMMA AllowedVerbs ==
  ASSUME NEW r, Allow(r)
  PROVE /\ OpaAction(r) = r.action
        /\ r.action \in ReadOnlyActions \cup WriteActions
        /\ r.action \notin DeleteActions
<1>1. OpaAction(r) \in ReadOnlyActions \cup WriteActions BY DEF Allow
<1>2. OpaAction(r) = r.action
  BY <1>1 DEF OpaAction, Unlisted, ReadOnlyActions, WriteActions
<1> QED
  BY <1>1, <1>2 DEF ReadOnlyActions, WriteActions, DeleteActions

(* A write that the policy allows has a clean image and replica count.     *)
LEMMA CleanWrites ==
  ASSUME NEW r, Allow(r), r.action \in WriteActions
  PROVE ~ImageViolates(r) /\ ~ReplicasViolate(r)
<1>1. OpaAction(r) \in WriteActions BY AllowedVerbs
<1>2. PayloadViolations(r) = {}
  BY <1>1 DEF Allow, WriteActions, ReadOnlyActions
<1> QED
  BY <1>1, <1>2 DEF PayloadViolations

(* Only branches for writing lead to a writing API verb.                   *)
LEMMA WritingVerbs ==
  ASSUME NEW r, NEW v \in {"create", "patch"}, v \in ApiVerbs(r)
  PROVE r.action \in WriteActions /\ Kind(r.resource) = "deployments"
BY DEF ApiVerbs, DispatchTable, WriteActions

(* The ClusterRole grants every API verb that a branch of a verb outside   *)
(* DeleteActions uses.                                                     *)
LEMMA Grants ==
  ASSUME NEW r, NEW v \in ApiVerbs(r), r.action \notin DeleteActions
  PROVE << Kind(r.resource), v >> \in Granted
BY DEF ApiVerbs, DispatchTable, Granted, DeleteActions

(* What int() makes of a replica count that the policy accepts is within   *)
(* the policy's limit.                                                     *)
LEMMA CountsAreBounded ==
  ASSUME NEW r \in ActionRequests, NEW c \in CallsFor(r), ~ReplicasViolate(r),
         Raised(c) = "nothing"
  PROVE ReplicaCount(c) \in Nat /\ ReplicaCount(c) <= PolicyMaxReplicas
<1> DEFINE v == r.params.replicas
           k == ReplicaCount(c)
<1>1. c.request = r BY DEF CallsFor
<1>2. v \in ReplicaValues BY DEF ActionRequests, Params
<1>3. v.kind \notin {"null", "collection", "other text", "text"}
  BY <1>1 DEF Raised, ReplicasViolate
<1>4. CASE v.kind \in {"absent", "boolean"}
  <2>1. k = 0 \/ k = 1 BY <1>1, <1>2, <1>4 DEF ReplicaCount, ReplicaValues
  <2>2. k \in Nat BY <2>1
  <2>3. k <= 10 BY <2>1
  <2> QED BY <2>2, <2>3 DEF PolicyMaxReplicas
<1>5. CASE v.kind \in {"number", "fraction"}
  <2>1. k = v.count BY <1>1, <1>5 DEF ReplicaCount
  <2>2. v.count \in Nat BY <1>2, <1>5, CountsAssumption DEF ReplicaValues
  <2>3. ~(v.kind = "number" /\ v.count > 10) /\ ~(v.kind = "fraction" /\ v.count >= 10)
    BY DEF ReplicasViolate, PolicyMaxReplicas
  <2>4. v.count <= 10 BY <1>5, <2>2, <2>3
  <2> QED BY <2>1, <2>2, <2>4 DEF PolicyMaxReplicas
<1> QED BY <1>2, <1>3, <1>4, <1>5 DEF ReplicaValues

(* An image that gets into an object is one the policy trusts.             *)
LEMMA ImagesAreTrusted ==
  ASSUME NEW r, NEW c \in CallsFor(r), ~ImageViolates(r), Image(c) \in ImageNames
  PROVE Image(c) \in PolicyTrustedPrefixes
BY ImageNamesAssumption DEF CallsFor, Image, ImageViolates, PolicyTrustedPrefixes, DefaultImage

LEMMA PortsArePorts ==
  ASSUME NEW r, NEW c \in CallsFor(r), Raised(c) = "nothing"
  PROVE Port(c) \in Ports
BY PortsAssumption DEF CallsFor, Raised, Port, DefaultPort

(* Gatekeeper's registries include the policy's.                           *)
LEMMA RegistriesAgree ==
  ASSUME NEW image \in PolicyTrustedPrefixes PROVE AllowedRepos(image)
BY DEF PolicyTrustedPrefixes, AllowedRepos

(* Putting a sound Deployment into a sound store.                          *)
LEMMA PutKeeps ==
  ASSUME StoreSound, NEW n \in Names, NEW d, Sound(d), Put(n, d)
  PROVE StoreSound'
<1>1. DOMAIN store' = DOMAIN store \cup {n} BY DEF Put
<1>2. ASSUME NEW m \in DOMAIN store' PROVE Sound(store'[m])
  <2>1. store'[m] = IF m = n THEN d ELSE store[m] BY <1>1, <1>2 DEF Put
  <2> QED BY <1>1, <1>2, <2>1 DEF StoreSound
<1> QED BY <1>1, <1>2 DEF StoreSound

(* What _build_deployment makes of an allowed request, as a new object.    *)
LEMMA BuiltIsSound ==
  ASSUME NEW r \in ActionRequests, NEW c \in CallsFor(r), Allow(r),
         r.action \in WriteActions, Raised(c) = "nothing",
         Image(c) \in ImageNames
  PROVE Sound(Built(c))
<1>1. ReplicaCount(c) \in Nat /\ ReplicaCount(c) <= PolicyMaxReplicas
  BY CleanWrites, CountsAreBounded
<1>2. Port(c) \in Ports BY PortsArePorts
<1>3. Image(c) \in PolicyTrustedPrefixes BY CleanWrites, ImagesAreTrusted
<1> DEFINE o == [image |-> Image(c), ports |-> {Port(c)}, confined |-> TRUE,
                   limits |-> "both"]
<1>4. o \in Containers BY <1>2 DEF Containers
<1>5. Built(c) \in Deployments BY <1>1, <1>4 DEF Built, Deployments
<1> QED BY <1>1, <1>3, <1>5 DEF Sound, Built

(* The same object merged into a sound Deployment.                         *)
LEMMA PatchedIsSound ==
  ASSUME NEW r \in ActionRequests, NEW c \in CallsFor(r), Allow(r),
         r.action \in WriteActions, Raised(c) = "nothing",
         Image(c) \in ImageNames \cup {"null"},
         NEW d, Sound(d)
  PROVE Sound(Patched(d, c))
<1> DEFINE e == Patched(d, c)
           image == IF Image(c) = "null" THEN {o.image : o \in d.own} ELSE {Image(c)}
           ports == {Port(c)} \cup UNION {o.ports : o \in d.own}
<1>1. ReplicaCount(c) \in Nat /\ ReplicaCount(c) <= PolicyMaxReplicas
  BY CleanWrites, CountsAreBounded
<1>2. d \in Deployments BY DEF Sound
<1>3. \A o \in d.own : o \in Containers BY <1>2 DEF Deployments
<1>4. image \subseteq ImageNames BY <1>3 DEF Containers
<1>5. ports \subseteq Ports
  <2>1. Port(c) \in Ports BY PortsArePorts
  <2>2. \A o \in d.own : o.ports \subseteq Ports BY <1>3 DEF Containers
  <2> QED BY <2>1, <2>2
<1>6. /\ e.replicas = ReplicaCount(c) /\ e.selector = d.selector /\ e.others = d.others
      /\ e.hostAccess = d.hostAccess
      /\ e.own = [image : image, confined : {TRUE}, limits : {PatchedLimits(c)},
                  ports : {ports}]
      /\ e.hands = IF d.hands = "gateway" THEN "gateway" ELSE "both"
  BY <1>2 DEF Patched, Deployments
<1>11. PatchedLimits(c) \in {"both", "lifted"} BY DEF PatchedLimits
<1>7. e.own \subseteq Containers
  <2>1. [image : image, confined : {TRUE}, limits : {PatchedLimits(c)}, ports : {ports}]
           \subseteq Containers
    BY <1>4, <1>5, <1>11 DEF Containers
  <2> QED BY <1>6, <2>1
<1>8. e \in Deployments
  <2>1. e = [d EXCEPT !.replicas = e.replicas, !.own = e.own, !.hands = e.hands]
    BY <1>2 DEF Patched, Deployments
  <2> QED BY <1>1, <1>2, <1>6, <1>7, <2>1 DEF Deployments
<1>9. ASSUME NEW o \in e.own
      PROVE /\ o.confined /\ o.limits # "none"
            /\ e.hands = "gateway" => o.image \in PolicyTrustedPrefixes
  <2>1. o \in [image : image, confined : {TRUE}, limits : {PatchedLimits(c)},
               ports : {ports}]
    BY <1>6, <1>9
  <2>2. o.confined = TRUE /\ o.limits # "none" /\ o.image \in image BY <1>11, <2>1
  <2>3. ASSUME e.hands = "gateway" PROVE o.image \in PolicyTrustedPrefixes
    <3>1. d.hands = "gateway" BY <1>6, <2>3
    <3>2. \A x \in d.own : x.image \in PolicyTrustedPrefixes BY <3>1 DEF Sound
    <3>3. Image(c) = "null" \/ Image(c) \in PolicyTrustedPrefixes
      BY CleanWrites, ImagesAreTrusted
    <3> QED BY <2>2, <3>2, <3>3
  <2> QED BY <2>2, <2>3
<1>10. e.hands = "gateway" => ~e.others /\ ~e.hostAccess BY <1>6 DEF Sound
<1> QED BY <1>1, <1>6, <1>8, <1>9, <1>10 DEF Sound

-----------------------------------------------------------------------------
(* Steps                                                                   *)

LEMMA InitIsSound == Init => Inductive
BY DEF Init, Inductive, StoreSound, ReplySound, Replies, NoReply, NeverForbidden, TypedCallsReachTheCluster

LEMMA RepliesAre ==
  ASSUME NEW status, status \in {0, 200, 500, 502},
         NEW x, x \in {"none", "ok", "forbidden"} \cup Failures, NEW c
  PROVE Answer(c, status, x) \in Replies
<1>1. Typed(c) \in BOOLEAN BY DEF Typed
<1>2. x \in {"none", "ok", "unsupported", "no name", "TypeError", "ValueError",
            "forbidden", "not found", "exists", "invalid"}
  BY DEF Failures
<1> QED BY <1>1, <1>2, ZenonT(40) DEF Answer, Replies

(* A failing call leaves the store and does not fail for want of           *)
(* permission.                                                             *)
LEMMA FailKeeps ==
  ASSUME Inductive, NEW c, NEW status, NEW x, Fail(c, status, x),
         status \in FailureCodes,
         x \in Failures, Typed(c) => x \in Answers
  PROVE Inductive'
<1>1. reply' = Answer(c, status, x) BY DEF Fail
<1>2. reply' \in Replies /\ reply'.reason = x /\ reply'.typed = Typed(c)
  <2>1. status \in {0, 200, 500, 502} BY DEF FailureCodes
  <2>2. x \in {"none", "ok", "forbidden"} \cup Failures OBVIOUS
  <2> QED BY <1>1, <2>1, <2>2, RepliesAre DEF Answer
<1>3. StoreSound' BY DEF Fail, Inductive, StoreSound
<1> QED BY <1>2, <1>3 DEF Failures, Answers, Inductive, ReplySound, NeverForbidden, TypedCallsReachTheCluster

LEMMA SuccessIsSound ==
  ASSUME NEW c PROVE Success(c) \in Replies /\ Success(c).reason = "ok"
<1>1. 200 \in {0, 200, 500, 502} /\ "ok" \in {"none", "ok", "forbidden"} \cup Failures
  OBVIOUS
<1> QED BY <1>1, RepliesAre DEF Success, Answer

(* A typed method's call has a branch, and its parameters suffice for it.  *)
LEMMA TypedCallsAreComplete ==
  ASSUME NEW r, NEW c \in CallsFor(r), Typed(c)
  PROVE /\ ApiVerbs(r) # {}
        /\ ApiVerbs(r) \cap {"get", "patch", "delete"} # {} => ~LacksName(c)
        /\ ApiVerbs(r) \cap {"create", "patch"} # {} => Raised(c) = "nothing"
<1>1. c.request = r BY DEF CallsFor
<1> DEFINE kind == r.params.replicas.kind
<1>2. CASE r.action = "list"
           /\ r.resource \in {"pods", "deployments", "secrets", "namespaces"}
  <2>1. ApiVerbs(r) = {"list"} BY <1>2 DEF ApiVerbs, DispatchTable, Kind
  <2> QED BY <2>1
<1>3. CASE r.action = "get" /\ r.resource \in {"pods", "deployments"} /\ c.name \in Names
  <2>1. ApiVerbs(r) = {"get"} BY <1>3 DEF ApiVerbs, DispatchTable, Kind
  <2> QED BY <1>3, <2>1, NamesAssumption DEF LacksName
<1>4. CASE /\ r.action = "create" /\ r.resource = "deployments" /\ c.port \in Ports
           /\ c.name \in Names /\ kind = "number"
  <2>1. ApiVerbs(r) = {"create"} BY <1>4 DEF ApiVerbs, DispatchTable, Kind
  <2>2. Raised(c) = "nothing" BY <1>1, <1>4, NamesAssumption, PortsAssumption DEF Raised
  <2> QED BY <2>1, <2>2
<1>5. CASE /\ r.action = "patch" /\ r.resource = "deployments" /\ c.name \in Names
           /\ c.port = "absent" /\ kind \in {"number", "absent"}
  <2>1. ApiVerbs(r) = {"patch"} BY <1>5 DEF ApiVerbs, DispatchTable, Kind
  <2>2. Raised(c) = "nothing" BY <1>1, <1>5, NamesAssumption DEF Raised
  <2>3. ~LacksName(c) BY <1>5, NamesAssumption DEF LacksName
  <2> QED BY <2>1, <2>2, <2>3
<1> QED BY <1>1, <1>2, <1>3, <1>4, <1>5 DEF Typed

(* One case for each way execute_action ends.                              *)
LEMMA ExecuteKeeps ==
  ASSUME Inductive, NEW r \in Requests, Allow(r), NEW c \in CallsFor(r),
         ExecuteAction(c)
  PROVE Inductive'
<1>1. r \in ActionRequests /\ c.request = r
  BY RequestSetAssumption DEF CallsFor
<1>2. r.action \notin DeleteActions BY AllowedVerbs
<1>3. \A v \in ApiVerbs(r) : "forbidden" \notin Refusals(c, v)
  BY <1>1, <1>2, Grants DEF Refusals
<1>12. 500 \in FailureCodes /\ 502 \in FailureCodes BY DEF FailureCodes
<1>4. CASE Unsupported(c)
  <2>1. Fail(c, 502, "unsupported") /\ ~Typed(c)
    BY <1>1, <1>4, TypedCallsAreComplete DEF Unsupported
  <2> QED BY <2>1, <1>12, FailKeeps, ZenonT(40) DEF Failures
<1>5. CASE Nameless(c)
  <2>1. Fail(c, 502, "no name") /\ ~Typed(c)
    BY <1>1, <1>5, TypedCallsAreComplete DEF Nameless
  <2> QED BY <2>1, <1>12, FailKeeps, ZenonT(40) DEF Failures
<1>6. CASE BadNumber(c)
  <2>1. Raised(c) \in {"TypeError", "ValueError"} BY <1>6 DEF BadNumber, Raised
  <2>2. ~Typed(c)
    BY <1>1, <1>6, <2>1, TypedCallsAreComplete DEF BadNumber
  <2>3. CASE Raised(c) = "ValueError"
    <3>1. Fail(c, 502, "ValueError") BY <1>6, <2>3 DEF BadNumber
    <3> QED BY <2>2, <3>1, <1>12, FailKeeps, ZenonT(40) DEF Failures
  <2>4. CASE Raised(c) = "TypeError"
    <3>1. Fail(c, 500, "TypeError") BY <1>6, <2>4 DEF BadNumber
    <3> QED BY <2>2, <3>1, <1>12, FailKeeps, ZenonT(40) DEF Failures
  <2> QED BY <2>1, <2>3, <2>4
<1>7. CASE ApiError(c)
  <2>1. PICK v \in ApiVerbs(r) : \E x \in Refusals(c, v) : Fail(c, 502, x)
    BY <1>1, <1>7 DEF ApiError
  <2>2. PICK x \in Refusals(c, v) : Fail(c, 502, x) BY <2>1
  <2>3. x \in {"not found", "exists", "invalid"} BY <1>3, <2>2 DEF Refusals
  <2> QED BY <2>2, <2>3, <1>12, FailKeeps, ZenonT(40) DEF Failures, Answers
<1>8. CASE NoPod(c)
  <2>1. Fail(c, 502, "not found") BY <1>8 DEF NoPod
  <2> QED BY <2>1, <1>12, FailKeeps, ZenonT(40) DEF Failures, Answers
<1>9. CASE Reads(c)
  BY <1>9, SuccessIsSound
     DEF Reads, Inductive, StoreSound, ReplySound, NeverForbidden, TypedCallsReachTheCluster
<1>10. CASE Creates(c)
  <2>1. "create" \in ApiVerbs(r) /\ Raised(c) = "nothing" /\ Refusals(c, "create") = {}
    BY <1>1, <1>10 DEF Creates, Accepted, Sent
  <2>2. r.action \in WriteActions /\ Kind(r.resource) = "deployments"
    BY <2>1, WritingVerbs
  <2>3. ObjectName(c) \notin {"empty", "not a string"} /\ Image(c) \in ImageNames
    BY <1>1, <1>3, <2>1, <2>2 DEF Refusals, Granted
  <2>4. ObjectName(c) \in Names
    <3>1. c.name # "null" BY <2>1 DEF Raised
    <3> QED BY <2>3, <3>1, NamesAssumption DEF CallsFor, ObjectName
  <2>5. Put(ObjectName(c), Built(c)) BY <1>10 DEF Creates
  <2>6. StoreSound'
    BY <1>1, <2>1, <2>2, <2>3, <2>4, <2>5, BuiltIsSound, PutKeeps DEF Inductive
  <2> QED
    BY <1>10, <2>6, SuccessIsSound DEF Creates, Inductive, ReplySound, NeverForbidden, TypedCallsReachTheCluster
<1>11. CASE Patches(c)
  <2> DEFINE n == ObjectName(c)
  <2>1. /\ "patch" \in ApiVerbs(r) /\ ~LacksName(c) /\ Raised(c) = "nothing"
        /\ Refusals(c, "patch") = {}
    BY <1>1, <1>11 DEF Patches, Accepted, Sent
  <2>2. r.action \in WriteActions /\ Kind(r.resource) = "deployments"
    BY <2>1 DEF ApiVerbs, DispatchTable, WriteActions
  <2>3. n \in DOMAIN store /\ Image(c) \in ImageNames \cup {"null"}
    BY <1>1, <1>3, <2>1, <2>2 DEF Refusals, Granted
  <2>4. n \in Names /\ Sound(store[n]) BY <2>3 DEF Inductive, StoreSound
  <2>5. /\ Put(n, Patched(store[n], c))
        /\ reply' = [Success(c) EXCEPT !.named = Named(c),
                        !.changed = Changed(store[n], Patched(store[n], c))]
    BY <1>11 DEF Patches
  <2>6. StoreSound'
    BY <1>1, <2>1, <2>2, <2>3, <2>4, <2>5, PatchedIsSound, PutKeeps DEF Inductive
  <2>7. /\ Named(c) \subseteq {"image", "replicas", "port"}
        /\ Changed(store[n], Patched(store[n], c)) \subseteq {"image", "replicas", "port"}
    BY DEF Named, Changed
  <2>8. reply' = [status |-> 200, reason |-> "ok", typed |-> Typed(c), named |-> Named(c),
                  changed |-> Changed(store[n], Patched(store[n], c))]
    BY <2>5 DEF Success, Answer
  <2>9. reply' \in Replies /\ reply'.reason = "ok"
    BY <2>7, <2>8 DEF Replies, Typed
  <2> QED BY <2>6, <2>9 DEF Inductive, ReplySound, NeverForbidden, TypedCallsReachTheCluster
<1> QED
  BY <1>4, <1>5, <1>6, <1>7, <1>8, <1>9, <1>10, <1>11 DEF ExecuteAction

(* People's edits are sound because the bounds say nothing of them.        *)
LEMMA OperatorKeeps ==
  ASSUME Inductive, NEW n \in Names, OperatorWrites(n) \/ OperatorDeletes(n)
  PROVE Inductive'
<1>1. NoReply \in Replies /\ NoReply.reason = "none" /\ ~NoReply.typed
  BY DEF NoReply, Replies
<1>2. CASE OperatorWrites(n)
  <2>1. PICK d \in Foreign : Put(n, d) BY <1>2 DEF OperatorWrites
  <2>2. Sound(d) BY ForeignAssumption DEF Sound
  <2>3. StoreSound' BY <2>1, <2>2, PutKeeps DEF Inductive
  <2> QED BY <1>1, <1>2, <2>3 DEF OperatorWrites, Inductive, ReplySound, NeverForbidden, TypedCallsReachTheCluster
<1>3. CASE OperatorDeletes(n)
  <2>1. StoreSound' BY <1>3 DEF OperatorDeletes, Inductive, StoreSound
  <2> QED BY <1>1, <1>3, <2>1 DEF OperatorDeletes, Inductive, ReplySound, NeverForbidden, TypedCallsReachTheCluster
<1> QED BY <1>2, <1>3

LEMMA NextKeeps == Inductive /\ [Next]_vars => Inductive'
<1> SUFFICES ASSUME Inductive, [Next]_vars PROVE Inductive'
  OBVIOUS
<1>1. CASE UNCHANGED vars
  BY <1>1 DEF vars, Inductive, StoreSound, ReplySound, NeverForbidden, TypedCallsReachTheCluster
<1>2. CASE Next BY <1>2, ExecuteKeeps, OperatorKeeps DEF Next
<1> QED BY <1>1, <1>2

LEMMA AlwaysInductive == Spec => []Inductive
BY InitIsSound, NextKeeps, PTL DEF Spec

-----------------------------------------------------------------------------
(* Theorems                                                                *)

(* The store holds Deployments of the known names, the reply is one that   *)
(* execute_action can give.                                                *)
THEOREM TypeCorrect == Spec => []TypeOK
<1>1. Inductive => TypeOK
  BY DEF Inductive, StoreSound, ReplySound, Sound, TypeOK
<1> QED BY <1>1, AlwaysInductive, PTL

(* What the policy allows and the dispatch table sends, the ClusterRole    *)
(* grants, for any set of verbs and resources the agents ask for.          *)
THEOREM PermissionsSuffice == Spec => []NeverForbidden
<1>1. Inductive => NeverForbidden BY DEF Inductive, ReplySound
<1> QED BY <1>1, AlwaysInductive, PTL

(* Dispatch table and parameter checks never stop what a typed method of   *)
(* the agent's client sends, whatever arguments it is given.               *)
THEOREM TypedCallsArrive == Spec => []TypedCallsReachTheCluster
<1>1. Inductive => TypedCallsReachTheCluster BY DEF Inductive, ReplySound
<1> QED BY <1>1, AlwaysInductive, PTL

(* The policy's bounds hold of the objects in the cluster, for any images  *)
(* and numbers, whatever people put there in between.                      *)
THEOREM BoundsReachTheCluster == Spec => []WritesStayInBounds
<1>1. Inductive => WritesStayInBounds
  BY DEF Inductive, StoreSound, Sound, WritesStayInBounds
<1> QED BY <1>1, AlwaysInductive, PTL

(* Gatekeeper admits the pods of whatever only the gateway wrote, except   *)
(* for limits that an agent took away itself.                              *)
THEOREM OwnWorkRuns == Spec => []OwnWorkIsAdmitted
<1>1. ASSUME Inductive PROVE OwnWorkIsAdmitted
  <2> SUFFICES ASSUME NEW n \in DOMAIN store, store[n].hands = "gateway"
               PROVE LET d == store[n] IN
                     Admitted(d) \/ (Lifted(d) /\ NoPrivileged(d) /\ TrustedImages(d))
    BY DEF OwnWorkIsAdmitted
  <2> DEFINE d == store[n]
  <2>1. Sound(d) BY <1>1 DEF Inductive, StoreSound
  <2>2. NoPrivileged(d) /\ TrustedImages(d)
    BY <2>1, RegistriesAgree DEF Sound, NoPrivileged, TrustedImages
  <2>3. RequireLimits(d) \/ Lifted(d)
    <3>1. \A o \in d.own : o \in Containers BY <2>1 DEF Sound, Deployments
    <3>2. \A o \in d.own : o.limits \in {"both", "lifted"} BY <2>1, <3>1 DEF Sound, Containers
    <3> QED BY <2>1, <3>2 DEF Sound, RequireLimits, Lifted
  <2> QED BY <2>2, <2>3 DEF Admitted
<1> QED BY <1>1, AlwaysInductive, PTL
=============================================================================

---------------------------- MODULE MCK8sClient ----------------------------
(* Values for model-checking K8sClient with TLC.                           *)
EXTENDS K8sClient

(* Two images the policy trusts, one that only Gatekeeper accepts, one     *)
(* that nobody does.                                                       *)
MCImageNames == {"nginx:", "gcr.io/", "nginx", "docker.io/"}

Plain == [flags |-> {}, image |-> "absent", replicas |-> [kind |-> "absent", count |-> 0]]

(* Every verb class on every kind with a plain payload, by both roles, two *)
(* kinds also with blanks around them and the namespace; a patch by its    *)
(* other name and a write that no branch knows; and a deployer's writes    *)
(* with every image and with every replica value.                          *)
MCRequests ==
  [role : Roles, action : Actions \ {"update", "apply"}, resource : Resources,
   namespace : Namespaces, padded : {{}}, params : {Plain}]
  \cup [role : {"deployer"}, action : Actions \ {"update", "apply"},
        resource : {"deployments", "secrets"}, namespace : Namespaces,
        padded : Paddings \ {{}}, params : {Plain}]
  \cup [role : {"deployer"}, action : {"update", "apply"},
        resource : {"deployments"}, namespace : Namespaces, padded : {{}},
        params : {Plain}]
  \cup [role : {"deployer"}, action : {"create", "patch"},
        resource : {"deployments"}, namespace : Namespaces, padded : {{}},
        params :
          [flags : {{}}, image : Images,
           replicas : {v \in ReplicaValues : v.kind \in {"absent", "number"}}]
          \cup [flags : {{}}, image : {"gcr.io/"}, replicas : ReplicaValues]]

(* People's Deployments: one much like the gateway's but unconfined and    *)
(* beyond its limit, one whose only container has another name, one on the *)
(* host's network with an image nobody trusts, and one that selects its    *)
(* pods by another label.                                                  *)
Shop == [replicas |-> 11, selector |-> "own", others |-> FALSE, hostAccess |-> FALSE,
         own |-> {[image |-> "gcr.io/", ports |-> {}, confined |-> FALSE,
                   limits |-> "none"]},
         hands |-> "operator"]
MCForeign ==
  { Shop, [Shop EXCEPT !.own = {}, !.others = TRUE],
    [Shop EXCEPT !.hostAccess = TRUE,
                 !.own = {[image |-> "docker.io/", ports |-> {}, confined |-> FALSE,
                           limits |-> "both"]}],
    [Shop EXCEPT !.selector = "other"] }
=============================================================================

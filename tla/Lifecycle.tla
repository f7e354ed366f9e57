----------------------------- MODULE Lifecycle -----------------------------
(***************************************************************************)
(* What the gateway as a whole promises about one submitted action, with   *)
(* no replicas, queues, calls or logs: the mediation the README describes. *)
(* An action is cleared by the policy to run at once or only after a human *)
(* released it; a cleared and released action may be carried out, once;    *)
(* what is closed is never carried out.  Losing an action is always        *)
(* allowed, carrying out one that is not open for it never.                *)
(***************************************************************************)
EXTENDS Naturals

CONSTANT Requests

VARIABLES
  clearance, \* the policy's decision: "none", "auto" (run), "human" (hold)
  stage,     \* "submitted", "held", "open" (may be carried out) or "closed"
  applied    \* how often the cluster carried it out

vars == << clearance, stage, applied >>

Init ==
  /\ clearance = [r \in Requests |-> "none"]
  /\ stage = [r \in Requests |-> "submitted"]
  /\ applied = [r \in Requests |-> 0]

Clear(r) ==
  /\ clearance[r] = "none"
  /\ \E c \in {"auto", "human"} : clearance' = [clearance EXCEPT ![r] = c]
  /\ UNCHANGED << stage, applied >>

Open(r) ==
  /\ \/ stage[r] = "submitted" /\ clearance[r] = "auto"
     \/ stage[r] = "held"
  /\ stage' = [stage EXCEPT ![r] = "open"]
  /\ UNCHANGED << clearance, applied >>

Hold(r) ==
  /\ stage[r] = "submitted" /\ clearance[r] = "human"
  /\ stage' = [stage EXCEPT ![r] = "held"]
  /\ UNCHANGED << clearance, applied >>

Apply(r) ==
  /\ stage[r] = "open" /\ applied[r] = 0
  /\ applied' = [applied EXCEPT ![r] = 1]
  /\ UNCHANGED << clearance, stage >>

(* Refused, answered with an error or lost with a process, possibly several*)
(* at a time; what was carried out stays open.                             *)
Close(S) ==
  /\ \A r \in S : applied[r] = 0
  /\ stage' = [r \in Requests |-> IF r \in S THEN "closed" ELSE stage[r]]
  /\ UNCHANGED << clearance, applied >>

Next ==
  \/ \E r \in Requests : Clear(r) \/ Open(r) \/ Hold(r) \/ Apply(r)
  \/ \E S \in SUBSET Requests : Close(S)

Spec == Init /\ [][Next]_vars
=============================================================================

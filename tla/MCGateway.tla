----------------------------- MODULE MCGateway -----------------------------
(* Definitions for model-checking Gateway with TLC.                        *)
EXTENDS Gateway, TLC

(* Requests and replicas are interchangeable: no definition of Gateway     *)
(* names one of them.                                                      *)
Symmetry == Permutations(Requests) \cup Permutations(Replicas)
=============================================================================

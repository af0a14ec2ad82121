---------------------------- MODULE MCAbacEvaluator ----------------------------
(* Every policy file of up to MaxPolicies policies.                        *)
EXTENDS AbacEvaluator

CONSTANT MaxPolicies

MCLists == UNION {[1 .. n -> Policy] : n \in 0 .. MaxPolicies}
=============================================================================

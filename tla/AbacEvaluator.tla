----------------------------- MODULE AbacEvaluator -----------------------------
(***************************************************************************)
(* abac.Evaluate (evaluator.go:24-45): one pass over the policy file that  *)
(* stops at the first matching Deny and remembers the first matching       *)
(* Allow.  A policy is its effect and whether it matches this request,     *)
(* resourceMatches and evalCondition both (AbacCondition).                 *)
(***************************************************************************)
EXTENDS Integers, Sequences

CONSTANT PolicyLists

Effect == {"Allow", "Deny"} \* ParsePolicySet refuses any other

Policy == [effect : Effect, matches : BOOLEAN]

ASSUME PolicyAssumption == PolicyLists \subseteq Seq(Policy)

VARIABLES
  policies,    \* the policy file
  i,           \* the loop's index
  allowPolicy, \* index of the first matching Allow, 0 while sawAllow is false
  effect,      \* Decision.Effect, "none" until Evaluate returns
  policy       \* Decision.Policy, 0 for the default Deny

vars == <<policies, i, allowPolicy, effect, policy>>

Init ==
  /\ policies \in PolicyLists
  /\ i = 1 /\ allowPolicy = 0 /\ effect = "none" /\ policy = 0

Running == effect = "none" /\ i <= Len(policies)

Return(e, p) == effect' = e /\ policy' = p /\ UNCHANGED <<policies, i, allowPolicy>>

\* continue: the resource or the condition does not match.
Skip ==
  /\ Running /\ ~policies[i].matches
  /\ i' = i + 1
  /\ UNCHANGED <<policies, allowPolicy, effect, policy>>

\* Mutant: a matching Deny after a matching Allow is passed over.
DenyUnlessAllowed ==
  /\ Running /\ policies[i].matches /\ policies[i].effect = "Deny"
  /\ IF allowPolicy = 0
       THEN Return("Deny", i)
       ELSE i' = i + 1 /\ UNCHANGED <<policies, allowPolicy, effect, policy>>

\* A matching Deny ends the loop.
DenyMatched ==
  /\ Running /\ policies[i].matches /\ policies[i].effect = "Deny"
  /\ Return("Deny", i)

\* Mutant: the last matching Allow is remembered.
RememberLast ==
  /\ Running /\ policies[i].matches /\ policies[i].effect # "Deny"
  /\ allowPolicy' = i
  /\ i' = i + 1
  /\ UNCHANGED <<policies, effect, policy>>

\* A matching Allow is remembered if it is the first.
AllowMatched ==
  /\ Running /\ policies[i].matches /\ policies[i].effect # "Deny"
  /\ allowPolicy' = IF allowPolicy = 0 THEN i ELSE allowPolicy
  /\ i' = i + 1
  /\ UNCHANGED <<policies, effect, policy>>

\* Mutant: the Allow returned is the one under the loop variable.
ReturnLoopVariable ==
  /\ effect = "none" /\ i > Len(policies)
  /\ IF allowPolicy # 0 THEN Return("Allow", i) ELSE Return("Deny", 0)

\* After the loop: the remembered Allow, or the default Deny.
EndOfLoop ==
  /\ effect = "none" /\ i > Len(policies)
  /\ IF allowPolicy # 0 THEN Return("Allow", allowPolicy) ELSE Return("Deny", 0)

\* Evaluate has returned.
Finished == effect # "none" /\ UNCHANGED vars

Next == Skip \/ DenyMatched \/ AllowMatched \/ EndOfLoop \/ Finished

Spec == Init /\ [][Next]_vars

-----------------------------------------------------------------------------
(* The loop variables keep their types and the index its range.            *)
TypeOK ==
  /\ policies \in PolicyLists
  /\ i \in 1 .. Len(policies) + 1
  /\ allowPolicy \in 0 .. Len(policies)
  /\ effect \in Effect \union {"none"}
  /\ policy \in 0 .. Len(policies)

(* The policy a decision names, which the audit log records, is one that   *)
(* matched and has the decision's effect, the first such in the file; the  *)
(* default Deny names none and nothing matched.                            *)
NamesItsPolicy ==
  effect # "none" =>
    IF policy = 0
      THEN effect = "Deny" /\ \A j \in 1 .. Len(policies) : ~policies[j].matches
      ELSE /\ policies[policy].matches /\ policies[policy].effect = effect
           /\ \A j \in 1 .. policy - 1 :
                ~(policies[j].matches /\ policies[j].effect = effect)

(* Evaluate computes the order-independent combination AbacCombining       *)
(* states: early return and remembered Allow are one step of it.           *)
Abstract == INSTANCE AbacCombining WITH decision <- effect
ImplementsCombining == Abstract!Spec
=============================================================================

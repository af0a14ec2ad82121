----------------------------- MODULE AbacCombining -----------------------------
(***************************************************************************)
(* What abac.Evaluate promises (evaluator.go:19-23): explicit Deny beats   *)
(* explicit Allow, no match is a Deny, and the order of the policy file    *)
(* does not matter.  One step decides from the set of matching effects.    *)
(***************************************************************************)
CONSTANT PolicyLists \* the policy files to decide on: sequences of policies

VARIABLES
  policies, \* the policy file
  decision  \* "none", then the effect decided on

\* The effects of the policies that match.
Effects == {policies[i].effect : i \in {j \in DOMAIN policies : policies[j].matches}}

\* Deny overrides, default Deny.
Combined == IF "Allow" \in Effects /\ "Deny" \notin Effects THEN "Allow" ELSE "Deny"

Init == policies \in PolicyLists /\ decision = "none"

Decide ==
  /\ decision = "none"
  /\ decision' = Combined
  /\ UNCHANGED policies

Spec == Init /\ [][Decide]_<<policies, decision>>
=============================================================================

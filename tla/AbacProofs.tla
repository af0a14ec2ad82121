------------------------------ MODULE AbacProofs ------------------------------
(***************************************************************************)
(* For every set of policy files, of any length: the loop of               *)
(* abac.Evaluate is type correct, names the policy that decided, and       *)
(* implements the order-independent combination of AbacCombining.  For     *)
(* conditions of any depth, over any attributes: what evalCondition        *)
(* returns, by induction on the depth.                                     *)
(***************************************************************************)
EXTENDS AbacEvaluator, AbacCondition, WellFoundedInduction, TLAPS

\* No matching Deny before the index: the loop would have returned.
NoDenyBefore ==
  effect = "none" =>
    \A j \in 1 .. i - 1 : ~(policies[j].matches /\ policies[j].effect = "Deny")

\* allowPolicy is the first matching Allow before the index, if there is one.
FirstAllow ==
  effect = "none" =>
    IF allowPolicy = 0
      THEN \A j \in 1 .. i - 1 : ~policies[j].matches
      ELSE /\ allowPolicy < i
           /\ policies[allowPolicy].matches
           /\ policies[allowPolicy].effect = "Allow"
           /\ \A j \in 1 .. allowPolicy - 1 : ~policies[j].matches

LoopInv == TypeOK /\ NoDenyBefore /\ FirstAllow

(* Every entry of a policy file has an effect and a match.                 *)
LEMMA Entries ==
  ASSUME TypeOK
  PROVE  /\ Len(policies) \in Nat
         /\ DOMAIN policies = 1 .. Len(policies)
         /\ \A j \in 1 .. Len(policies) :
              /\ policies[j].effect \in Effect
              /\ policies[j].matches \in BOOLEAN
<1>1. policies \in Seq(Policy)
  BY PolicyAssumption DEF TypeOK
<1>2. Len(policies) \in Nat /\ DOMAIN policies = 1 .. Len(policies)
  BY <1>1
<1>3. \A j \in 1 .. Len(policies) : policies[j] \in Policy
  BY <1>1
<1>4. ASSUME NEW j \in 1 .. Len(policies)
      PROVE  policies[j].effect \in Effect /\ policies[j].matches \in BOOLEAN
  <2>1. policies[j] \in Policy
    BY <1>3
  <2> QED
    BY <2>1 DEF Policy
<1> QED
  BY <1>2, <1>4

(* The loop starts at the first policy with nothing remembered.            *)
LEMMA LoopInit == Init => LoopInv
<1> SUFFICES ASSUME Init PROVE LoopInv
  OBVIOUS
<1>1. policies \in Seq(Policy)
  BY PolicyAssumption DEF Init
<1>2. Len(policies) \in Nat
  BY <1>1
<1> QED
  BY <1>2 DEF Init, LoopInv, TypeOK, NoDenyBefore, FirstAllow

(* Each step of the loop keeps the types and what is known of the policies *)
(* already passed.                                                         *)
LEMMA LoopStep == LoopInv /\ [Next]_vars => LoopInv'
<1> SUFFICES ASSUME LoopInv, [Next]_vars PROVE LoopInv'
  OBVIOUS
<1> USE DEF LoopInv
<1>e. /\ Len(policies) \in Nat
      /\ DOMAIN policies = 1 .. Len(policies)
      /\ \A j \in 1 .. Len(policies) :
           policies[j].effect \in Effect /\ policies[j].matches \in BOOLEAN
  BY Entries
<1>1. CASE Skip
  BY <1>1, <1>e DEF Skip, Running, TypeOK, NoDenyBefore, FirstAllow
<1>2. CASE DenyMatched
  BY <1>2, <1>e DEF DenyMatched, Running, Return, TypeOK, NoDenyBefore, FirstAllow, Effect
<1>3. CASE AllowMatched
  <2>1. policies[i].effect = "Allow"
    BY <1>3, <1>e DEF AllowMatched, Running, TypeOK, Effect
  <2>2. TypeOK'
    BY <1>3, <1>e DEF AllowMatched, Running, TypeOK
  <2>3. NoDenyBefore'
    BY <1>3, <1>e DEF AllowMatched, Running, TypeOK, NoDenyBefore
  <2>4. FirstAllow'
    BY <1>3, <1>e, <2>1 DEF AllowMatched, Running, TypeOK, FirstAllow
  <2> QED
    BY <2>2, <2>3, <2>4
<1>4. CASE EndOfLoop
  BY <1>4, <1>e DEF EndOfLoop, Return, TypeOK, NoDenyBefore, FirstAllow, Effect
<1>5. CASE UNCHANGED vars
  BY <1>5 DEF vars, TypeOK, NoDenyBefore, FirstAllow
<1> QED
  BY <1>1, <1>2, <1>3, <1>4, <1>5 DEF Next, Finished

(* Evaluate's loop variables keep their types, for policy files of any     *)
(* length.                                                                 *)
THEOREM LoopTypeCorrect == Spec => []TypeOK
<1>1. LoopInv => TypeOK
  BY DEF LoopInv
<1> QED
  BY LoopInit, LoopStep, <1>1, PTL DEF Spec

(* A return names the first policy that matched with the decision's        *)
(* effect; the default Deny names none.                                    *)
LEMMA NamesStep == LoopInv /\ NamesItsPolicy /\ [Next]_vars => NamesItsPolicy'
<1> SUFFICES ASSUME LoopInv, NamesItsPolicy, [Next]_vars PROVE NamesItsPolicy'
  OBVIOUS
<1> USE DEF LoopInv
<1>e. /\ Len(policies) \in Nat
      /\ \A j \in 1 .. Len(policies) : policies[j].effect \in Effect
  BY Entries
<1>1. CASE Skip
  BY <1>1 DEF Skip, Running, NamesItsPolicy
<1>2. CASE DenyMatched
  BY <1>2, <1>e DEF DenyMatched, Running, Return, TypeOK, NoDenyBefore, NamesItsPolicy
<1>3. CASE AllowMatched
  BY <1>3 DEF AllowMatched, Running, NamesItsPolicy
<1>4. CASE EndOfLoop
  <2>1. CASE allowPolicy # 0
    BY <1>4, <2>1, <1>e DEF EndOfLoop, Return, TypeOK, FirstAllow, NamesItsPolicy
  <2>2. CASE allowPolicy = 0
    BY <1>4, <2>2, <1>e DEF EndOfLoop, Return, TypeOK, FirstAllow, NamesItsPolicy
  <2> QED
    BY <2>1, <2>2
<1>5. CASE UNCHANGED vars
  BY <1>5 DEF vars, NamesItsPolicy
<1> QED
  BY <1>1, <1>2, <1>3, <1>4, <1>5 DEF Next, Finished

(* The policy recorded with every decision is the one that made it.        *)
THEOREM NamesTheorem == Spec => []NamesItsPolicy
<1>1. Init => NamesItsPolicy
  BY DEF Init, NamesItsPolicy
<1> QED
  BY LoopInit, LoopStep, NamesStep, <1>1, PTL DEF Spec

-----------------------------------------------------------------------------
(* What is left to see when a matching Deny is met decides nothing.        *)
LEMMA DenyCombines ==
  ASSUME LoopInv, Running, policies[i].matches, policies[i].effect = "Deny"
  PROVE  Abstract!Combined = "Deny"
<1>1. i \in DOMAIN policies
  BY Entries DEF LoopInv, Running, TypeOK
<1>2. "Deny" \in Abstract!Effects
  BY <1>1 DEF Abstract!Effects
<1> QED
  BY <1>2 DEF Abstract!Combined

(* At the end of the loop the remembered Allow is all there is to know.    *)
LEMMA EndCombines ==
  ASSUME LoopInv, effect = "none", i > Len(policies)
  PROVE  Abstract!Combined = IF allowPolicy # 0 THEN "Allow" ELSE "Deny"
<1> USE DEF LoopInv
<1>e. /\ Len(policies) \in Nat
      /\ DOMAIN policies = 1 .. Len(policies)
  BY Entries
<1>i. i = Len(policies) + 1
  BY <1>e DEF TypeOK
<1>1. "Deny" \notin Abstract!Effects
  BY <1>e, <1>i DEF NoDenyBefore, Abstract!Effects
<1>2. CASE allowPolicy # 0
  <2>1. allowPolicy \in DOMAIN policies
    BY <1>2, <1>e DEF TypeOK
  <2>2. "Allow" \in Abstract!Effects
    BY <1>2, <2>1 DEF FirstAllow, Abstract!Effects
  <2> QED
    BY <1>1, <1>2, <2>2 DEF Abstract!Combined
<1>3. CASE allowPolicy = 0
  <2>1. "Allow" \notin Abstract!Effects
    BY <1>3, <1>e, <1>i DEF FirstAllow, Abstract!Effects
  <2> QED
    BY <1>3, <2>1 DEF Abstract!Combined
<1> QED
  BY <1>2, <1>3

(* A step of the loop is a stutter or the decision.                        *)
LEMMA DecisionStep ==
  LoopInv /\ [Next]_vars => [Abstract!Decide]_<<policies, effect>>
<1> SUFFICES ASSUME LoopInv, [Next]_vars
             PROVE  [Abstract!Decide]_<<policies, effect>>
  OBVIOUS
<1>1. CASE Skip
  BY <1>1 DEF Skip
<1>2. CASE DenyMatched
  BY <1>2, DenyCombines DEF DenyMatched, Running, Return, Abstract!Decide
<1>3. CASE AllowMatched
  BY <1>3 DEF AllowMatched
<1>4. CASE EndOfLoop
  BY <1>4, EndCombines DEF EndOfLoop, Return, Abstract!Decide
<1>5. CASE UNCHANGED vars
  BY <1>5 DEF vars
<1> QED
  BY <1>1, <1>2, <1>3, <1>4, <1>5 DEF Next, Finished

(* Evaluate implements deny-overrides with a default Deny, whatever the    *)
(* order and number of the policies.                                       *)
THEOREM RefinementTheorem == Spec => ImplementsCombining
<1>1. Init => Abstract!Init
  BY DEF Init, Abstract!Init
<1> QED
  BY LoopInit, LoopStep, DecisionStep, <1>1, PTL
    DEF Spec, ImplementsCombining, Abstract!Spec
-----------------------------------------------------------------------------
(* Induction, in the form the proofs below use it: a non-empty set of      *)
(* naturals has a least element.                                           *)
LEMMA LeastNatural ==
  ASSUME NEW T \in SUBSET Nat, T # {}
  PROVE  \E n \in T : \A m \in T : n <= m
<1> DEFINE R == {ss \in Nat \X Nat : ss[1] < ss[2]}
<1>1. R = OpToRel(<, Nat)
  BY Zenon DEF OpToRel
<1>2. IsWellFoundedOn(R, Nat)
  BY <1>1, NatLessThanWellFounded, Zenon
<1>3. T \subseteq Nat /\ T # {}
  OBVIOUS
<1>4. PICK n \in T : \A m \in T : ~(<<m, n>> \in R)
  <2> HIDE DEF R
  <2> QED
    BY <1>2, <1>3, WFMin, Zenon
<1>5. ASSUME NEW m \in T
      PROVE  n <= m
  <2>1. m \in Nat /\ n \in Nat
    OBVIOUS
  <2>2. ~(<<m, n>> \in R)
    BY <1>4
  <2> QED
    BY <2>1, <2>2
<1> QED
  BY <1>5

(* What a group consists of: its parts are conditions, and they are the    *)
(* entries of its lists.                                                   *)
LEMMA PartsOf ==
  ASSUME NEW k \in Conditions
  PROVE  /\ Parts(k) \subseteq Conditions
         /\ \A j \in DOMAIN k.all : k.all[j] \in Parts(k)
         /\ \A j \in DOMAIN k.any : k.any[j] \in Parts(k)
         /\ k.not # <<>> => k.not[1] \in Parts(k)
<1>1. k.all \in Seq(Conditions) /\ k.any \in Seq(Conditions) /\ k.not \in Seq(Conditions)
  BY TreeAssumption
<1>2. ASSUME NEW g \in Seq(Conditions)
      PROVE  /\ \A j \in DOMAIN g : g[j] \in Conditions
             /\ g # <<>> => 1 \in DOMAIN g
  OBVIOUS
<1>3. ASSUME NEW n \in Parts(k)
      PROVE  n \in Conditions
  <2>1. PICK g \in {k.all, k.any, k.not} : \E j \in DOMAIN g : n = g[j]
    BY Zenon DEF Parts
  <2> QED
    BY <1>1, <1>2, <2>1
<1>4. \A g \in {k.all, k.any, k.not} : \A j \in DOMAIN g : g[j] \in Parts(k)
  BY Zenon DEF Parts
<1> QED
  BY <1>1, <1>2, <1>3, <1>4

\* The conditions less than d deep.
Below(d) == {k \in Conditions : Depth[k] < d}

(* The parts of a condition are less deep, and no condition is deeper than *)
(* MaxDepth.                                                               *)
LEMMA Levels ==
  /\ Below(0) = {}
  /\ Below(MaxDepth + 1) = Conditions
  /\ \A d \in Nat : \A k \in Below(d + 1) : k \in Conditions /\ Parts(k) \subseteq Below(d)
<1>1. Below(0) = {} /\ Below(MaxDepth + 1) = Conditions
  BY TreeAssumption DEF Below
<1>2. ASSUME NEW d \in Nat, NEW k \in Below(d + 1)
      PROVE  k \in Conditions /\ Parts(k) \subseteq Below(d)
  <2>1. k \in Conditions /\ Depth[k] \in Nat /\ Depth[k] < d + 1
    BY TreeAssumption DEF Below
  <2>2. ASSUME NEW n \in Parts(k)
        PROVE  n \in Below(d)
    <3>1. n \in Conditions /\ Depth[n] < Depth[k] /\ Depth[n] \in Nat
      BY <2>1, PartsOf, TreeAssumption
    <3> QED
      BY <2>1, <3>1 DEF Below
  <2> QED
    BY <2>1, <2>2
<1> QED
  BY <1>1, <1>2

(* A set of depths that holds 0 and with d also d + 1 holds every depth.   *)
LEMMA DepthInduction ==
  ASSUME NEW S, 0 \in S, \A d \in Nat : d \in S => d + 1 \in S
  PROVE  \A d \in Nat : d \in S
<1> DEFINE T == {d \in Nat : d \notin S}
<1> SUFFICES ASSUME T # {}
             PROVE  FALSE
  OBVIOUS
<1>1. PICK d \in T : \A e \in T : d <= e
  BY LeastNatural
<1>2. d - 1 \in Nat /\ d - 1 \notin T
  BY <1>1
<1> QED
  BY <1>1, <1>2

-----------------------------------------------------------------------------
(* The recursion of Nodes is well founded: a condition's nodes are itself  *)
(* and those of its parts.                                                 *)
LEMMA NodesUnfold ==
  \A k \in Conditions : Nodes[k] = {k} \union UNION {Nodes[n] : n \in Parts(k)}
<1> DEFINE Unfold(f, k) == {k} \union UNION {f[n] : n \in Parts(k)}
           Solves(f, d) ==
             f = [k \in Conditions |-> f[k]] /\ \A k \in Below(d) : f[k] = Unfold(f, k)
           S == {d \in Nat : \E f : Solves(f, d)}
<1>1. ASSUME NEW f, NEW g, NEW k, \A n \in Parts(k) : f[n] = g[n]
      PROVE  Unfold(f, k) = Unfold(g, k)
  <2>1. {f[n] : n \in Parts(k)} = {g[n] : n \in Parts(k)}
    BY <1>1
  <2> QED
    BY <2>1
<1>2. 0 \in S
  <2> DEFINE f == [k \in Conditions |-> {}]
  <2>1. Solves(f, 0)
    BY Levels
  <2> HIDE DEF f, Solves
  <2> QED
    BY <2>1
<1>3. ASSUME NEW d \in Nat, d \in S
      PROVE  d + 1 \in S
  <2>1. PICK g : Solves(g, d)
    BY <1>3
  <2> DEFINE f == [k \in Conditions |-> Unfold(g, k)]
  <2> HIDE DEF Unfold
  <2>2. ASSUME NEW k \in Below(d + 1)
        PROVE  f[k] = Unfold(f, k)
    <3>1. k \in Conditions /\ Parts(k) \subseteq Below(d)
      BY Levels
    <3>2. Below(d) \subseteq Conditions
      BY DEF Below
    <3>3. \A n \in Parts(k) : f[n] = g[n]
      BY <2>1, <3>1, <3>2
    <3> QED
      BY <1>1, <3>1, <3>3
  <2>3. Solves(f, d + 1)
    BY <2>2
  <2> HIDE DEF f, Solves
  <2> QED
    BY <2>3
<1>4. MaxDepth + 1 \in S
  <2> HIDE DEF S
  <2> QED
    BY <1>2, <1>3, DepthInduction, TreeAssumption
<1>5. PICK f : Solves(f, MaxDepth + 1)
  BY <1>4
<1> DEFINE P(g) == g = [k \in Conditions |-> Unfold(g, k)]
<1>6. P(f)
  <2> HIDE DEF Unfold
  <2> QED
    BY <1>5, Levels
<1>7. Nodes = CHOOSE g : P(g)
  BY Zenon DEF Nodes
<1>8. P(CHOOSE g : P(g))
  <2> HIDE DEF P
  <2> QED
    BY <1>6, Zenon
<1>9. P(Nodes)
  <2> HIDE DEF P
  <2> QED
    BY <1>7, <1>8, Zenon
<1> HIDE DEF Unfold
<1>10. \A k \in Conditions : Nodes[k] = Unfold(Nodes, k)
  BY <1>9
<1> QED
  BY <1>10 DEF Unfold

(* A condition is one of its nodes, and so are those of its parts.         *)
LEMMA NodesContain ==
  ASSUME NEW k \in Conditions
  PROVE  k \in Nodes[k] /\ \A n \in Parts(k) : Nodes[n] \subseteq Nodes[k]
BY NodesUnfold

(* The recursion of evalCondition is well founded too: what it returns for *)
(* a condition is made of what it returns for the parts.                   *)
LEMMA FormOfParts ==
  ASSUME NEW f, NEW g, NEW c, NEW k \in Conditions, \A n \in Parts(k) : f[n] = g[n]
  PROVE  EvalForm(f, k, c) = EvalForm(g, k, c)
<1>1. /\ \A j \in DOMAIN k.all : f[k.all[j]] = g[k.all[j]]
      /\ \A j \in DOMAIN k.any : f[k.any[j]] = g[k.any[j]]
      /\ k.not # <<>> => f[k.not[1]] = g[k.not[1]]
  BY PartsOf
<1> QED
  BY <1>1 DEF EvalForm

LEMMA EvalUnfold ==
  ASSUME NEW c
  PROVE  \E f : /\ \A k \in Conditions : EvalCondition(k, c) = f[k]
                /\ \A k \in Conditions : f[k] = EvalForm(f, k, c)
<1> DEFINE Solves(f, d) ==
             f = [k \in Conditions |-> f[k]] /\ \A k \in Below(d) : f[k] = EvalForm(f, k, c)
           S == {d \in Nat : \E f : Solves(f, d)}
<1>2. 0 \in S
  <2> DEFINE f == [k \in Conditions |-> {}]
  <2>1. Solves(f, 0)
    BY Levels
  <2> HIDE DEF f, Solves
  <2> QED
    BY <2>1
<1>3. ASSUME NEW d \in Nat, d \in S
      PROVE  d + 1 \in S
  <2>1. PICK g : Solves(g, d)
    BY <1>3
  <2> DEFINE f == [k \in Conditions |-> EvalForm(g, k, c)]
  <2>2. ASSUME NEW k \in Below(d + 1)
        PROVE  f[k] = EvalForm(f, k, c)
    <3>1. k \in Conditions /\ Parts(k) \subseteq Below(d)
      BY Levels
    <3>2. Below(d) \subseteq Conditions
      BY DEF Below
    <3>3. \A n \in Parts(k) : f[n] = g[n]
      BY <2>1, <3>1, <3>2
    <3>4. EvalForm(f, k, c) = EvalForm(g, k, c)
      <4> HIDE DEF f
      <4> QED
        BY <3>1, <3>3, FormOfParts
    <3> QED
      BY <3>1, <3>4
  <2>3. Solves(f, d + 1)
    BY <2>2
  <2> HIDE DEF f, Solves
  <2> QED
    BY <2>3
<1>4. MaxDepth + 1 \in S
  <2> HIDE DEF S
  <2> QED
    BY <1>2, <1>3, DepthInduction, TreeAssumption
<1>5. PICK f : Solves(f, MaxDepth + 1)
  BY <1>4
<1> DEFINE P(g) == g = [k \in Conditions |-> EvalForm(g, k, c)]
           eval == CHOOSE g : P(g)
<1>6. P(f)
  BY <1>5, Levels
<1>7. \A k \in Conditions : EvalCondition(k, c) = eval[k]
  BY Zenon DEF EvalCondition
<1>8. P(eval)
  <2> HIDE DEF P
  <2> QED
    BY <1>6, Zenon
<1> HIDE DEF eval
<1>9. \A k \in Conditions : eval[k] = EvalForm(eval, k, c)
  BY <1>8
<1> QED
  BY <1>7, <1>9

-----------------------------------------------------------------------------
(* An attribute that is found is found with the same value in a context    *)
(* that has more of them.                                                  *)
LEMMA ResolveMonotone ==
  ASSUME NEW c, NEW d, Extends(d, c), NEW a
  PROVE  ResolveAttr(c, a) \subseteq ResolveAttr(d, a)
<1>1. CASE a.ns = "user"
  BY <1>1 DEF Extends, ResolveAttr
<1>2. CASE a.ns = "request"
  BY <1>2 DEF Extends, ResolveAttr
<1>3. CASE a.ns \notin {"user", "request"}
  BY <1>3 DEF ResolveAttr
<1> QED
  BY <1>1, <1>2, <1>3

(* evalLeaf with an operator other than ne gains by attributes.            *)
LEMMA LeafMonotone ==
  ASSUME NEW c, NEW d, Extends(d, c), NEW k, k.op \notin {"ne", "!="}, EvalLeaf(k, c)
  PROVE  EvalLeaf(k, d)
<1>1. CASE k.op = "is"
  BY <1>1 DEF Extends, EvalLeaf
<1>2. CASE k.op # "is"
  <2>1. PICK v \in ResolveAttr(c, k.attr) : Holds(k.op, v, k.value)
    BY <1>2 DEF EvalLeaf
  <2>2. v \in ResolveAttr(d, k.attr)
    BY ResolveMonotone
  <2> QED
    BY <1>2, <2>1, <2>2 DEF EvalLeaf
<1> QED
  BY <1>1, <1>2

(* Without attributes and outside business hours no leaf holds, except ne  *)
(* and one that asks for the clock.                                        *)
LEMMA LeafFromNothing ==
  ASSUME NEW c, DOMAIN c.user = {}, DOMAIN c.request = {}, ~InBusinessHours(c.time, c.hours),
         NEW k, k.op \notin {"ne", "!="}, k.attr.ns = "time" => k.op = "is"
  PROVE  ~EvalLeaf(k, c)
<1>1. CASE k.op = "is"
  BY <1>1 DEF EvalLeaf
<1>2. CASE k.op # "is"
  <2>1. ResolveAttr(c, k.attr) = {}
    BY <1>2 DEF ResolveAttr
  <2> QED
    BY <1>2, <2>1 DEF EvalLeaf
<1> QED
  BY <1>1, <1>2

(* What is asked of every node of a condition is asked of its parts.       *)
LEMMA PositiveParts ==
  ASSUME NEW k \in Conditions, Positive(k)
  PROVE  /\ k.not = <<>> /\ k.op \notin {"ne", "!="}
         /\ \A n \in Parts(k) : Positive(n)
BY NodesContain DEF Positive

LEMMA ClockParts ==
  ASSUME NEW k \in Conditions, ~ReadsClock(k)
  PROVE  /\ k.attr.ns = "time" => k.op = "is"
         /\ \A n \in Parts(k) : ~ReadsClock(n)
BY NodesContain DEF ReadsClock

(* A condition without negation gains by attributes, at any depth.         *)
LEMMA EvalMonotone ==
  ASSUME NEW c, NEW d, Extends(d, c)
  PROVE  \A k \in Conditions : Positive(k) /\ EvalCondition(k, c) => EvalCondition(k, d)
<1> DEFINE S == {e \in Nat : \A k \in Below(e) :
                   Positive(k) /\ EvalCondition(k, c) => EvalCondition(k, d)}
<1>1. 0 \in S
  BY Levels
<1>2. ASSUME NEW e \in Nat, e \in S
      PROVE  e + 1 \in S
  <2> SUFFICES ASSUME NEW k \in Below(e + 1), Positive(k), EvalCondition(k, c)
               PROVE  EvalCondition(k, d)
    OBVIOUS
  <2>1. k \in Conditions /\ Parts(k) \subseteq Below(e) /\ Parts(k) \subseteq Conditions
    BY Levels, PartsOf
  <2>2. PICK f : /\ \A n \in Conditions : EvalCondition(n, c) = f[n]
                 /\ \A n \in Conditions : f[n] = EvalForm(f, n, c)
    BY EvalUnfold
  <2>3. PICK g : /\ \A n \in Conditions : EvalCondition(n, d) = g[n]
                 /\ \A n \in Conditions : g[n] = EvalForm(g, n, d)
    BY EvalUnfold
  <2>4. /\ k.not = <<>> /\ k.op \notin {"ne", "!="}
        /\ \A n \in Parts(k) : Positive(n)
    BY <2>1, PositiveParts
  <2>5. \A n \in Parts(k) : f[n] => g[n]
    BY <1>2, <2>1, <2>2, <2>3, <2>4
  <2>6. EvalForm(f, k, c)
    BY <2>1, <2>2
  <2>7. EvalLeaf(k, c) => EvalLeaf(k, d)
    BY <2>4, LeafMonotone
  <2>8. EvalForm(g, k, d)
    BY <2>1, <2>4, <2>5, <2>6, <2>7, PartsOf DEF EvalForm
  <2> QED
    BY <2>1, <2>3, <2>8
<1>3. MaxDepth + 1 \in S
  <2> HIDE DEF S
  <2> QED
    BY <1>1, <1>2, DepthInduction, TreeAssumption
<1> QED
  BY <1>3, Levels

(* A condition without negation that does not read the clock takes an      *)
(* attribute, or business hours, at any depth.                             *)
LEMMA EvalFromNothing ==
  ASSUME NEW c, DOMAIN c.user = {}, DOMAIN c.request = {}, ~InBusinessHours(c.time, c.hours)
  PROVE  \A k \in Conditions : Positive(k) /\ ~ReadsClock(k) => ~EvalCondition(k, c)
<1> DEFINE S == {e \in Nat : \A k \in Below(e) :
                   Positive(k) /\ ~ReadsClock(k) => ~EvalCondition(k, c)}
<1>1. 0 \in S
  BY Levels
<1>2. ASSUME NEW e \in Nat, e \in S
      PROVE  e + 1 \in S
  <2> SUFFICES ASSUME NEW k \in Below(e + 1), Positive(k), ~ReadsClock(k)
               PROVE  ~EvalCondition(k, c)
    OBVIOUS
  <2>1. k \in Conditions /\ Parts(k) \subseteq Below(e) /\ Parts(k) \subseteq Conditions
    BY Levels, PartsOf
  <2>2. PICK f : /\ \A n \in Conditions : EvalCondition(n, c) = f[n]
                 /\ \A n \in Conditions : f[n] = EvalForm(f, n, c)
    BY EvalUnfold
  <2>3. /\ k.not = <<>> /\ k.op \notin {"ne", "!="}
        /\ k.attr.ns = "time" => k.op = "is"
        /\ \A n \in Parts(k) : Positive(n) /\ ~ReadsClock(n)
    BY <2>1, PositiveParts, ClockParts
  <2>4. \A n \in Parts(k) : ~f[n]
    BY <1>2, <2>1, <2>2, <2>3
  <2>5. ~EvalLeaf(k, c)
    BY <2>3, LeafFromNothing
  <2>6. k.all # <<>> => 1 \in DOMAIN k.all
    BY <2>1, TreeAssumption
  <2>7. ~EvalForm(f, k, c)
    BY <2>1, <2>3, <2>4, <2>5, <2>6, PartsOf DEF EvalForm
  <2> QED
    BY <2>1, <2>2, <2>7
<1>3. MaxDepth + 1 \in S
  <2> HIDE DEF S
  <2> QED
    BY <1>1, <1>2, DepthInduction, TreeAssumption
<1> QED
  BY <1>3, Levels

-----------------------------------------------------------------------------
LEMMA MinutesDef ==
  ASSUME NEW n \in Nat
  PROVE  \A m : m \in FirstMinutes(n) <=> m \in Nat /\ m < n
BY DEF FirstMinutes

(* A minute of the week is a minute of one day.                            *)
LEMMA DayMinute ==
  ASSUME NEW x \in Nat, x < Week
  PROVE  \E d \in 0 .. 6, m \in Nat :
           m < Day /\ x = Day * d + m /\ x \div Day = d /\ x % Day = m
<1> USE DEF Day, Week
<1>1. PICK d \in 0 .. 6 : Day * d <= x /\ x < Day * d + Day
  OBVIOUS
<1>2. PICK m \in Nat : m < Day /\ x = Day * d + m
  <2>1. x - Day * d \in Nat /\ x - Day * d < Day /\ x = Day * d + (x - Day * d)
    BY <1>1
  <2> QED
    BY <2>1
<1>3. x \div Day = d /\ x % Day = m
  BY <1>2
<1> QED
  BY <1>2, <1>3

(* Adding an offset around the week undoes taking it off.                  *)
LEMMA AroundTheWeek ==
  ASSUME NEW t \in Nat, t < Week, NEW y \in Nat, y < Week, NEW o \in Nat, o < Week
  PROVE  (t + o) % Week = y <=> t = (y + Week - o) % Week
<1> USE DEF Week
<1>1. (t + o) % Week = IF t + o < Week THEN t + o ELSE t + o - Week
  OBVIOUS
<1>2. (y + Week - o) % Week = IF y < o THEN y + Week - o ELSE y - o
  OBVIOUS
<1>3. PICK a \in Int : a = (t + o) % Week
  BY <1>1
<1>4. PICK b \in Int : b = (y + Week - o) % Week
  BY <1>2
<1>5. a = y <=> t = b
  BY <1>1, <1>2, <1>3, <1>4
<1> QED
  BY <1>3, <1>4, <1>5

(* Hours are compared as the times of day they begin and end at.           *)
LEMMA MinuteHour ==
  ASSUME NEW m \in Nat, NEW start \in Int, NEW end \in Int
  PROVE  m \div Hour >= start /\ m \div Hour < end <=> Hour * start <= m /\ m < Hour * end
<1> USE DEF Hour
<1>1. m \div Hour \in Int /\ Hour * (m \div Hour) <= m /\ m < Hour * (m \div Hour) + Hour
  OBVIOUS
<1>2. PICK h \in Int : h = m \div Hour
  BY <1>1
<1> QED
  BY <1>1, <1>2

(* inBusinessHours, which moves the time into the zone, says the same as   *)
(* the office's hours moved out of it.                                     *)
LEMMA HoursOpen ==
  ASSUME NEW t \in Nat, t < Week, NEW bh, bh.start \in Int, bh.end \in Int,
         NEW o \in Nat, o < Week, o = Offset(bh.zone)
  PROVE  InBusinessHours(t, bh) <=> t \in OpenMinutes(bh, o)
<1> DEFINE days == {d \in 0 .. 6 : bh.days = {} \/ d \in bh.days}
           minutes == {m \in FirstMinutes(Day) : Hour * bh.start <= m /\ m < Hour * bh.end}
<1>1. PICK x \in Nat : x < Week /\ x = (t + o) % Week
  <2>1. (t + o) % Week \in Nat /\ (t + o) % Week < Week
    BY DEF Week
  <2> QED
    BY <2>1
<1>2. InBusinessHours(t, bh) <=>
        (bh.days = {} \/ x \div Day \in bh.days) /\ HourOpen(x, bh)
  BY <1>1, Zenon DEF InBusinessHours
<1>3. t \in OpenMinutes(bh, o) <=>
        \E d \in days, m \in minutes : t = (Day * d + m + Week - o) % Week
  BY DEF OpenMinutes
<1>4. PICK d0 \in 0 .. 6, m0 \in Nat :
        m0 < Day /\ x = Day * d0 + m0 /\ x \div Day = d0 /\ x % Day = m0
  BY <1>1, DayMinute
<1>5. InBusinessHours(t, bh) <=> d0 \in days /\ m0 \in minutes
  <2>1. HourOpen(x, bh) <=> m0 \div Hour >= bh.start /\ m0 \div Hour < bh.end
    BY <1>4, Zenon DEF HourOpen
  <2>2. m0 \div Hour >= bh.start /\ m0 \div Hour < bh.end <=> Hour * bh.start <= m0 /\ m0 < Hour * bh.end
    BY MinuteHour
  <2>3. m0 \in FirstMinutes(Day)
    BY <1>4, MinutesDef DEF Day
  <2>4. m0 \in minutes <=> Hour * bh.start <= m0 /\ m0 < Hour * bh.end
    BY <2>3, Zenon
  <2>5. d0 \in days <=> bh.days = {} \/ d0 \in bh.days
    BY Zenon
  <2> QED
    BY <1>2, <1>4, <2>1, <2>2, <2>4, <2>5, Zenon
<1>6. ASSUME NEW d \in 0 .. 6, NEW m \in FirstMinutes(Day)
      PROVE  t = (Day * d + m + Week - o) % Week <=> d = d0 /\ m = m0
  <2>1. m \in Nat /\ m < Day
    BY MinutesDef DEF Day
  <2>2. PICK y \in Nat : y < Week /\ y = Day * d + m
    BY <2>1 DEF Day, Week
  <2>3. x = y <=> t = (y + Week - o) % Week
    BY <1>1, <2>2, AroundTheWeek
  <2>4. x = y <=> d = d0 /\ m = m0
    BY <1>4, <2>1, <2>2 DEF Day
  <2> QED
    BY <2>2, <2>3, <2>4, Zenon
<1>7. d0 \in days /\ m0 \in minutes <=>
        \E d \in days, m \in minutes : t = (Day * d + m + Week - o) % Week
  BY <1>6, Zenon
<1> QED
  BY <1>3, <1>5, <1>7, Zenon

(* What a policy's condition and the last answer have to do with each      *)
(* other: the answer is evalCondition's, in the context of the request.    *)
Answered ==
  /\ cond \in Conditions
  /\ loaded = "yes" => ValidateCondition(cond)
  /\ \/ ctx = NoContext /\ ~match
     \/ loaded = "yes" /\ ctx \in Contexts /\ (match <=> EvalCondition(cond, ctx))

LEMMA AnsweredInit == CondInit => Answered
  BY DEF CondInit, Answered

LEMMA AnsweredStep == Answered /\ [CondNext]_condVars => Answered'
<1> SUFFICES ASSUME Answered, [CondNext]_condVars
             PROVE  Answered'
  OBVIOUS
<1>1. CASE Load
  BY <1>1 DEF Load, Answered
<1>2. ASSUME NEW c \in Contexts, Request(c)
      PROVE  Answered'
  BY <1>2 DEF Request, Answered
<1>3. CASE UNCHANGED condVars
  BY <1>3 DEF condVars, Answered
<1> QED
  BY <1>1, <1>2, <1>3 DEF CondNext, Refused

(* A condition without negation that matches a request matches every       *)
(* request that brings more, at any depth and for every operator           *)
(* (evalCondition, evalLeaf).                                              *)
THEOREM MissingTheorem == CondSpec => MissingNeverGrants
<1>1. Answered /\ [CondNext]_condVars =>
        [match /\ Extends(ctx', ctx) /\ Positive(cond) => match']_condVars
  <2> SUFFICES ASSUME Answered, [CondNext]_condVars, match, Extends(ctx', ctx), Positive(cond)
               PROVE  match' \/ UNCHANGED condVars
    OBVIOUS
  <2>1. cond \in Conditions /\ EvalCondition(cond, ctx)
    BY DEF Answered
  <2>2. CASE Load
    BY <2>2 DEF Load, Answered
  <2>3. ASSUME NEW c \in Contexts, Request(c)
        PROVE  match'
    <3>1. ctx' = c /\ (match' <=> EvalCondition(cond, c))
      BY <2>3 DEF Request
    <3>2. EvalCondition(cond, c)
      BY <2>1, <3>1, EvalMonotone
    <3> QED
      BY <3>1, <3>2
  <2> QED
    BY <2>2, <2>3 DEF CondNext, Refused
<1> QED
  BY AnsweredInit, AnsweredStep, <1>1, PTL DEF CondSpec, MissingNeverGrants

(* No condition without negation holds of nothing: of no attributes,       *)
(* outside business hours (evalCondition, evalLeaf).                       *)
THEOREM NothingTheorem == CondSpec => []NothingFromNothing
<1>1. Answered => NothingFromNothing
  <2> SUFFICES ASSUME Answered, match, Positive(cond), ~ReadsClock(cond),
                      DOMAIN ctx.user = {}, DOMAIN ctx.request = {},
                      ~InBusinessHours(ctx.time, ctx.hours)
               PROVE  FALSE
    BY DEF NothingFromNothing
  <2>1. cond \in Conditions /\ EvalCondition(cond, ctx)
    BY DEF Answered
  <2> QED
    BY <2>1, EvalFromNothing
<1> QED
  BY AnsweredInit, AnsweredStep, <1>1, PTL DEF CondSpec

(* A policy on business hours matches while the office is open at its      *)
(* zone's offset, whatever number of minutes that is and for all days and  *)
(* hours, and in those hours of UTC if the zone does not resolve           *)
(* (inBusinessHours).                                                      *)
THEOREM HoursTheorem == CondSpec => []HoursAreLocal
<1>1. Answered => HoursAreLocal
  <2> SUFFICES ASSUME Answered, loaded = "yes", ctx # NoContext,
                      cond.op = "is", cond.value = Str("Business_Hours")
               PROVE  /\ ctx.hours.zone.valid =>
                           (match <=> ctx.time \in OpenMinutes(ctx.hours, ctx.hours.zone.offset))
                      /\ ~ctx.hours.zone.valid =>
                           (match <=> ctx.time \in OpenMinutes(ctx.hours, 0))
    BY DEF HoursAreLocal
  <2>1. /\ cond \in Conditions /\ ValidateCondition(cond)
        /\ ctx \in Contexts /\ (match <=> EvalCondition(cond, ctx))
    BY DEF Answered
  <2>2. Groups(cond) = {}
    BY <2>1, NodesContain DEF ValidateCondition, IsLeaf
  <2>3. cond.all = <<>> /\ cond.any = <<>> /\ cond.not = <<>>
    BY <2>2 DEF Groups
  <2>4. PICK f : /\ \A n \in Conditions : EvalCondition(n, ctx) = f[n]
                 /\ \A n \in Conditions : f[n] = EvalForm(f, n, ctx)
    BY EvalUnfold
  <2>5. EvalCondition(cond, ctx) = EvalForm(f, cond, ctx)
    BY <2>1, <2>4
  <2>6. EvalForm(f, cond, ctx) = EvalLeaf(cond, ctx)
    BY <2>3 DEF EvalForm
  <2>7. EvalLeaf(cond, ctx) <=> InBusinessHours(ctx.time, ctx.hours)
    BY DEF EvalLeaf
  <2>8. ctx.time \in Nat /\ ctx.time < Week /\ ctx.hours.start \in Int /\ ctx.hours.end \in Int
    BY <2>1, HoursAssumption, MinutesDef DEF Week
  <2>9. CASE ctx.hours.zone.valid
    <3>1. PICK o \in Nat : o < Week /\ o = ctx.hours.zone.offset
      BY <2>1, <2>9, HoursAssumption, MinutesDef DEF Week
    <3>2. o = Offset(ctx.hours.zone)
      BY <2>9, <3>1 DEF Offset
    <3>3. InBusinessHours(ctx.time, ctx.hours) <=> ctx.time \in OpenMinutes(ctx.hours, o)
      BY <2>8, <3>1, <3>2, HoursOpen
    <3> QED
      BY <2>1, <2>5, <2>6, <2>7, <2>9, <3>1, <3>3
  <2>10. CASE ~ctx.hours.zone.valid
    <3>1. 0 = Offset(ctx.hours.zone)
      BY <2>10 DEF Offset
    <3>2. InBusinessHours(ctx.time, ctx.hours) <=> ctx.time \in OpenMinutes(ctx.hours, 0)
      BY <2>8, <3>1, HoursOpen DEF Week
    <3> QED
      BY <2>1, <2>5, <2>6, <2>7, <2>10, <3>2
  <2> QED
    BY <2>9, <2>10
<1> QED
  BY AnsweredInit, AnsweredStep, <1>1, PTL DEF CondSpec
=============================================================================

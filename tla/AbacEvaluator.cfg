SPECIFICATION Spec
CONSTANTS
  MaxPolicies = 5
  PolicyLists <- MCLists
INVARIANTS TypeOK NamesItsPolicy
PROPERTIES ImplementsCombining

SPECIFICATION Spec
CONSTANTS
  t1 = t1  t2 = t2  c1 = c1  c2 = c2  c3 = c3  u1 = u1  u2 = u2  u3 = u3  g1 = g1
  Tenants = {t1, t2}
  Calls = {c1, c2, c3}
  Ops <- AllOps
  SeedUsers <- MCUsers
  SeedGroups <- MCGroups
  SeedMembers <- MCMembers
INVARIANTS UniqueNames DeletedStaysDeleted NoOrphanRoster LostOnlyUnderStaleVersion
PROPERTIES OwnTenantOnly
SYMMETRY CallSymmetry

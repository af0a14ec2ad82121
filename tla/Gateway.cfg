SPECIFICATION Spec
CONSTANTS
  t1 = t1  t2 = t2  t3 = t3  t4 = t4  c1 = c1  c2 = c2  l1 = l1  l2 = l2  eng = eng  fake = fake
  lan = lan  internet = internet  RemoteAddr = internet  TrustForwardedFor = TRUE
  Tenants = {t1, t2, t3, t4}
  Backend <- MCBackend
  NoBackend = NoBackend
  Unparsable = {"http://%"}
  Calls = {c1, c2}
  Logins = {l1, l2}
  NoCookie = NoCookie
  Departments = {eng}
  NoDepartment = NoDepartment
  Paths <- MCPaths
  Routes <- MCRoutes
  Policies <- MCPolicies
  Clients <- MCClients
  SessionTTL = 0
  MaxTime = 1
INVARIANTS TypeOK LongestRouteDecides ExpiredNeverForwarded OwnTenantBackend
SYMMETRY CallSymmetry

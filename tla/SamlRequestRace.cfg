SPECIFICATION Spec
CONSTANTS
  t1 = t1  t2 = t2  bob = bob  eve = eve  r1 = r1  c1 = c1  c2 = c2  a1 = a1  a2 = a2  a3 = a3
  p1 = p1  p2 = p2  p3 = p3  s1 = s1
  Tenants = {t1, t2}
  Posts = {p1, p2}
  Requests = {r1}
  NoRequest = NoRequest
  Syncs = {s1}
  Names = {bob, eve}
  NoId = NoId
  Docs <- AnswerDocs
  IdPCerts <- MCCerts
  ClockSkew = 1
  RequestTTL = 1
  TicksPerSecond = 2
  MaxTime = 3
INVARIANTS RequestUsedOnce

SPECIFICATION Spec
CONSTANTS
  t1 = t1  t2 = t2  c1 = c1  c2 = c2  bob = bob  eve = eve  op = op  app = app  s1 = s1
  r1 = r1  r2 = r2  k1 = k1  k2 = k2
  Tenants = {t1, t2}
  Issuer <- MCIssuer
  ClientId <- MCClient
  Logins = {r1, r2}
  Codes = {k1, k2}
  Callbacks = {c1, c2}
  Syncs = {s1}
  Names = {bob, eve}
  NoClaim = NoClaim
  Accounts <- TwoAccounts
  ClockSkew = 0
  RequestTTL = 0
  TokenTTL = 0
  MaxKeys = 1
  MaxTime = 1
INVARIANTS TypeOK SessionOfOwnLogin OneSessionPerCode
PROPERTIES LateCallbackRefused
SYMMETRY DrawSymmetry

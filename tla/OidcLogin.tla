------------------------------ MODULE OidcLogin ------------------------------
(***************************************************************************)
(* OpenID Connect single sign-on of the gateway: internal/oidc/handlers.go *)
(* (login, callback, jitProvisionUser), the token checks of                *)
(* internal/oidc/jwt.go, TakeOIDCRequest of internal/store, and the        *)
(* provider of cmd/mockoidc, which checks nothing at its token endpoint    *)
(* but the code: what holds with it holds with a stricter one.             *)
(*                                                                         *)
(* As in SamlLogin an SQL statement is one atomic step, and a member of    *)
(* Callbacks is one GET /oidc/{tenant}/callback in a goroutine of its own. *)
(***************************************************************************)
EXTENDS Integers, FiniteSets

CONSTANTS
  Tenants,    \* configured tenants
  Issuer,     \* Issuer[t]: oidc_issuer of tenant t
  ClientId,   \* ClientId[t]: oidc_client_id of tenant t
  Logins,     \* draws of state, nonce and PKCE verifier: random, so all three
              \* of a login are named by the login
  Codes,      \* authorization codes the providers can draw
  Callbacks,  \* the GET /oidc/{tenant}/callback requests
  Syncs,      \* SCIM POST, PUT and PATCH calls of the directory sync
  Names,      \* sub and email claims, user names
  NoClaim,    \* Claims.String of a claim the token lacks
  Accounts,   \* accounts at the providers: claims sub and email
  ClockSkew,  \* client.go:104, 2 minutes
  RequestTTL, \* handlers.go:83, 10 minutes
  TokenTTL,   \* mockoidc, 10 minutes
  MaxKeys,    \* bound on the providers' key rotations, for TLC
  MaxTime     \* bound on the clock, for TLC

ASSUME AccountAssumption ==
  /\ NoClaim \notin Names
  /\ Accounts \subseteq [sub : Names \union {NoClaim}, email : Names \union {NoClaim}]

\* IDs are random: a login and the sync never draw the same.
ASSUME IdAssumption == Callbacks \intersect Syncs = {}

ASSUME TimeAssumption ==
  {ClockSkew, RequestTTL, TokenTTL, MaxKeys, MaxTime} \subseteq Nat

VARIABLES
  now,          \* the clock
  key,          \* number of the providers' current signing key
  oidcRequests, \* table oidc_requests
  users,        \* table users
  sessions,     \* table sessions
  grants,       \* codes the providers have drawn and not yet redeemed
  pc,           \* pc[c]: the next statement of handler c
  query,        \* query[c]: {tenant} of c's path and its code and state
  pending,      \* pending[c]: the row TakeOIDCRequest read
  token,        \* token[c]: the ID token ExchangeCode returned
  user,         \* user[c]: the ID of the user jitProvisionUser returned
  resp,         \* resp[c]: the HTTP answer of c
  started,      \* history: the logins redirected to a provider, with their tenant
  granted,      \* history: all codes the providers have drawn
  consumed,     \* history: the callbacks whose DELETE of the request has run
  renamed,      \* history: the callbacks whose user has been renamed since its lookup
  synced        \* the Syncs that have run

idp     == <<key, grants, granted>>
tables  == <<oidcRequests, users, sessions>>
local   == <<pending, token, user>>
hist    == <<started, consumed, renamed>>
vars    == <<now, idp, tables, pc, query, local, resp, hist, synced>>

Steps == {"select", "delete", "check", "exchange", "verify", "find", "create", "session"}

Responses == {"none", "forbidden", "badGateway", "conflict", "error", "ok"}

UserIds == Callbacks \union Syncs

Requests == [login : Logins, tenant : Tenants, exp : Nat]

Grants == [code : Codes, login : Logins, aud : {ClientId[t] : t \in Tenants},
           iss : {Issuer[t] : t \in Tenants}, account : Accounts]

Tokens == [grant : Grants, key : Nat, iat : Nat, exp : Nat]

Init ==
  /\ now = 0 /\ key = 0
  /\ oidcRequests = {} /\ users = {} /\ sessions = {} /\ grants = {}
  /\ pc = [c \in Callbacks |-> "new"]
  /\ query = [c \in Callbacks |-> {}]
  /\ pending = [c \in Callbacks |-> {}]
  /\ token = [c \in Callbacks |-> {}]
  /\ user = [c \in Callbacks |-> c]
  /\ resp = [c \in Callbacks |-> "none"]
  /\ started = {} /\ granted = {} /\ consumed = {} /\ renamed = {} /\ synced = {}

Goto(c, step) == pc' = [pc EXCEPT ![c] = step] /\ UNCHANGED resp

Answer(c, r) == pc' = [pc EXCEPT ![c] = "done"] /\ resp' = [resp EXCEPT ![c] = r]

\* query, pending and token hold one record once they are set.
The(s) == CHOOSE x \in s : TRUE

Tenant(c) == The(query[c]).tenant

-----------------------------------------------------------------------------
(* GET /oidc/{tenant}/login: fresh state, nonce and verifier are recorded  *)
(* and sent.  A discovery failure ends it before it writes anything.       *)
Login(t, r) ==
  /\ \A s \in started : s.login # r
  /\ started' = started \union {[login |-> r, tenant |-> t]}
  /\ oidcRequests' = oidcRequests \union {[login |-> r, tenant |-> t, exp |-> now + RequestTTL]}
  /\ UNCHANGED <<now, idp, users, sessions, pc, query, local, resp, consumed, renamed, synced>>

(* The provider's /authorize: an account signs in on the URL of a login.   *)
(* A reloaded URL draws another code.                                      *)
Authorize(k, s, a) ==
  /\ \A g \in granted : g.code # k
  /\ LET g == [code |-> k, login |-> s.login, aud |-> ClientId[s.tenant],
               iss |-> Issuer[s.tenant], account |-> a]
     IN  grants' = grants \union {g} /\ granted' = granted \union {g}
  /\ UNCHANGED <<now, key, tables, pc, query, local, resp, hist, synced>>

(* The provider signs with a new key from now on.                          *)
Rotate ==
  /\ key < MaxKeys
  /\ key' = key + 1
  /\ UNCHANGED <<now, grants, granted, tables, pc, query, local, resp, hist, synced>>

(* GET /oidc/{tenant}/callback: a browser brings a code and a state of the *)
(* past, in any combination and to any tenant's path.                      *)
Arrive(c, t, g, s) ==
  /\ pc[c] = "new"
  /\ query' = [query EXCEPT ![c] = {[tenant |-> t, code |-> g.code, state |-> s.login]}]
  /\ Goto(c, "select")
  /\ UNCHANGED <<now, idp, tables, local, hist, synced>>

(* TakeOIDCRequest, SELECT by state alone.                                 *)
TakeSelect(c) ==
  /\ pc[c] = "select"
  /\ \/ /\ \A row \in oidcRequests : row.login # The(query[c]).state
        /\ Answer(c, "forbidden")
        /\ UNCHANGED pending
     \/ \E row \in oidcRequests :
          /\ row.login = The(query[c]).state
          /\ pending' = [pending EXCEPT ![c] = {row}]
          /\ Goto(c, "delete")
  /\ UNCHANGED <<now, idp, tables, query, token, user, hist, synced>>

\* Mutant: the row is deleted only for the tenant of the callback's path.
TakeDeleteOwn(c) ==
  /\ pc[c] = "delete"
  /\ oidcRequests' = {row \in oidcRequests : row.login # The(query[c]).state \/ row.tenant # Tenant(c)}
  /\ consumed' = consumed \union {c}
  /\ Goto(c, "check")
  /\ UNCHANGED <<now, idp, users, sessions, query, local, started, renamed, synced>>

(* TakeOIDCRequest, DELETE by state alone.                                 *)
TakeDelete(c) ==
  /\ pc[c] = "delete"
  /\ oidcRequests' = {row \in oidcRequests : row.login # The(query[c]).state}
  /\ consumed' = consumed \union {c}
  /\ Goto(c, "check")
  /\ UNCHANGED <<now, idp, users, sessions, query, local, started, renamed, synced>>

\* Mutant: callback does not compare the request's tenant with its own.
CheckPendingAnyTenant(c) ==
  /\ pc[c] = "check"
  /\ IF now <= The(pending[c]).exp THEN Goto(c, "exchange") ELSE Answer(c, "forbidden")
  /\ UNCHANGED <<now, idp, tables, query, local, hist, synced>>

(* TakeOIDCRequest's expiry check and callback's tenant check.             *)
CheckPending(c) ==
  /\ pc[c] = "check"
  /\ IF now <= The(pending[c]).exp /\ The(pending[c]).tenant = Tenant(c)
       THEN Goto(c, "exchange")
       ELSE Answer(c, "forbidden")
  /\ UNCHANGED <<now, idp, tables, query, local, hist, synced>>

\* Mutant: the provider redeems a code any number of times.
ExchangeCodeAgain(c) ==
  /\ pc[c] = "exchange"
  /\ \/ /\ \A g \in granted : ~(g.code = The(query[c]).code /\ g.iss = Issuer[Tenant(c)])
        /\ Answer(c, "badGateway")
        /\ UNCHANGED <<grants, token>>
     \/ \E g \in granted :
          /\ g.code = The(query[c]).code /\ g.iss = Issuer[Tenant(c)]
          /\ token' = [token EXCEPT ![c] =
               {[grant |-> g, key |-> key, iat |-> now, exp |-> now + TokenTTL]}]
          /\ Goto(c, "verify")
          /\ UNCHANGED grants
  /\ UNCHANGED <<now, key, granted, tables, query, pending, user, hist, synced>>

(* ExchangeCode, and the provider's /token: it redeems a code of its own   *)
(* once and signs a token for the client the code was drawn for.           *)
ExchangeCode(c) ==
  /\ pc[c] = "exchange"
  /\ \/ /\ \A g \in grants : ~(g.code = The(query[c]).code /\ g.iss = Issuer[Tenant(c)])
        /\ Answer(c, "badGateway")
        /\ UNCHANGED <<grants, token>>
     \/ \E g \in grants :
          /\ g.code = The(query[c]).code /\ g.iss = Issuer[Tenant(c)]
          /\ grants' = grants \ {g}
          /\ token' = [token EXCEPT ![c] =
               {[grant |-> g, key |-> key, iat |-> now, exp |-> now + TokenTTL]}]
          /\ Goto(c, "verify")
  /\ UNCHANGED <<now, key, granted, tables, query, pending, user, hist, synced>>

\* VerifyIDToken against a key set that holds key k: signature, iss, aud,
\* exp, iat and the nonce of the pending request.
VerifyIDToken(c, k) ==
  LET tok == The(token[c])
  IN  /\ tok.key = k
      /\ tok.grant.iss = Issuer[Tenant(c)]
      /\ tok.grant.aud = ClientId[Tenant(c)]
      /\ now <= tok.exp + ClockSkew
      /\ now + ClockSkew >= tok.iat
      /\ tok.grant.login = The(pending[c]).login

\* Mutant: the missing-sub check of callback is dropped.
VerifyNoSubCheck(c) ==
  /\ pc[c] = "verify"
  /\ \E k \in 0 .. key :
       IF VerifyIDToken(c, k) THEN Goto(c, "find") ELSE Answer(c, "forbidden")
  /\ UNCHANGED <<now, idp, tables, query, local, hist, synced>>

(* JWKS, VerifyIDToken and the sub check.  The cache may serve an older    *)
(* key set (DiscoveryCache).                                               *)
Verify(c) ==
  /\ pc[c] = "verify"
  /\ \E k \in 0 .. key :
       IF VerifyIDToken(c, k) /\ The(token[c]).grant.account.sub # NoClaim
         THEN Goto(c, "find")
         ELSE Answer(c, "forbidden")
  /\ UNCHANGED <<now, idp, tables, query, local, hist, synced>>

\* jitProvisionUser's name: the email claim, or sub without one.
NameOf(a) == IF a.email # NoClaim THEN a.email ELSE a.sub

UserName(c) == NameOf(The(token[c]).grant.account)

\* Rows of the unique index (tenant_id, user_name).
UsersNamed(t, n) == {u \in users : u.tenant = t /\ u.userName = n}

(* jitProvisionUser, FindUserByUserName.                                   *)
JitFind(c) ==
  /\ pc[c] = "find"
  /\ \/ /\ UsersNamed(Tenant(c), UserName(c)) = {}
        /\ Goto(c, "create")
        /\ UNCHANGED user
     \/ \E u \in UsersNamed(Tenant(c), UserName(c)) :
          Goto(c, "session") /\ user' = [user EXCEPT ![c] = u.id]
  /\ UNCHANGED <<now, idp, tables, query, pending, token, hist, synced>>

(* jitProvisionUser, CreateUser: ErrConflict is answered with a 500.       *)
JitCreate(c) ==
  /\ pc[c] = "create"
  /\ IF UsersNamed(Tenant(c), UserName(c)) # {}
       THEN Answer(c, "conflict") /\ UNCHANGED <<users, user>>
       ELSE /\ users' = users \union {[id |-> c, tenant |-> Tenant(c), userName |-> UserName(c)]}
            /\ user' = [user EXCEPT ![c] = c]
            /\ Goto(c, "session")
  /\ UNCHANGED <<now, idp, oidcRequests, sessions, query, pending, token, hist, synced>>

(* GroupsForUser (read only), CreateSession and the redirect.              *)
CreateSession(c) ==
  /\ pc[c] = "session"
  /\ sessions' = sessions \union
       {[id |-> c, tenant |-> Tenant(c), user |-> user[c],
         subject |-> The(token[c]).grant.account.sub]}
  /\ Answer(c, "ok")
  /\ UNCHANGED <<now, idp, oidcRequests, users, query, local, hist, synced>>

(* A statement or a fetch fails, or the process stops before it.           *)
Abort(c) ==
  /\ pc[c] \in Steps
  /\ Answer(c, "error")
  /\ UNCHANGED <<now, idp, tables, query, local, hist, synced>>

-----------------------------------------------------------------------------
\* The sync's users that logins can meet; JitFind looks up no other name.
SyncNames == {NameOf(a) : a \in Accounts} \intersect Names

(* The directory sync: what SCIM POST, PUT, PATCH and DELETE of /Users do  *)
(* to IDs, tenants and user names.                                         *)
ScimCreate(s, t, n) ==
  /\ s \notin synced
  /\ UsersNamed(t, n) = {}
  /\ users' = users \union {[id |-> s, tenant |-> t, userName |-> n]}
  /\ synced' = synced \union {s}
  /\ UNCHANGED <<now, idp, oidcRequests, sessions, pc, query, local, resp, hist>>

ScimDelete(u) ==
  /\ users' = users \ {u}
  /\ UNCHANGED <<now, idp, oidcRequests, sessions, pc, query, local, resp, hist, synced>>

(* ReplaceUser, called by PUT and PATCH, with another user name: the row   *)
(* keeps its ID and tenant, and the unique index refuses a name in use.    *)
ScimRename(s, u, n) ==
  /\ s \notin synced
  /\ UsersNamed(u.tenant, n) = {}
  /\ users' = (users \ {u}) \union {[u EXCEPT !.userName = n]}
  /\ renamed' = renamed \union
       {c \in Callbacks : pc[c] \in {"session", "done"} /\ user[c] = u.id}
  /\ synced' = synced \union {s}
  /\ UNCHANGED <<now, idp, oidcRequests, sessions, pc, query, local, resp, started, consumed>>

Tick ==
  /\ now < MaxTime
  /\ now' = now + 1
  /\ UNCHANGED <<idp, tables, pc, query, local, resp, hist, synced>>

\* Every callback has been answered.
Finished ==
  /\ \A c \in Callbacks : pc[c] = "done"
  /\ UNCHANGED vars

Step(c) ==
  \/ TakeSelect(c) \/ TakeDelete(c) \/ CheckPending(c)
  \/ ExchangeCode(c) \/ Verify(c)
  \/ JitFind(c) \/ JitCreate(c) \/ CreateSession(c)

Next ==
  \/ \E t \in Tenants, r \in Logins : Login(t, r)
  \/ \E k \in Codes, s \in started, a \in Accounts : Authorize(k, s, a)
  \/ Rotate
  \/ \E c \in Callbacks, t \in Tenants, g \in granted, s \in started : Arrive(c, t, g, s)
  \/ \E c \in Callbacks : Step(c) \/ Abort(c)
  \/ \E s \in Syncs, t \in Tenants, n \in SyncNames : ScimCreate(s, t, n)
  \/ \E u \in users : ScimDelete(u) \/ \E s \in Syncs, n \in Names : ScimRename(s, u, n)
  \/ Tick
  \/ Finished

Spec == Init /\ [][Next]_vars

-----------------------------------------------------------------------------
(* Every table, handler variable and history variable holds values of its  *)
(* declared kind; every session has a subject.                             *)
TypeOK ==
  /\ now \in Nat /\ key \in Nat
  /\ oidcRequests \subseteq Requests
  /\ users \subseteq [id : UserIds, tenant : Tenants, userName : Names]
  /\ sessions \subseteq [id : Callbacks, tenant : Tenants, user : UserIds, subject : Names]
  /\ grants \subseteq granted /\ granted \subseteq Grants
  /\ pc \in [Callbacks -> Steps \union {"new", "done"}]
  /\ query \in [Callbacks -> SUBSET [tenant : Tenants, code : Codes, state : Logins]]
  /\ pending \in [Callbacks -> SUBSET Requests]
  /\ token \in [Callbacks -> SUBSET Tokens]
  /\ user \in [Callbacks -> UserIds] /\ resp \in [Callbacks -> Responses]
  /\ started \subseteq [login : Logins, tenant : Tenants]
  /\ consumed \subseteq Callbacks
  /\ renamed \subseteq Callbacks
  /\ synced \subseteq Syncs

(* Every session belongs to the tenant whose login started it, and to the  *)
(* account that signed in for that very login: a code of one login brought *)
(* back with the state of another, or to another tenant's path, opens no   *)
(* session, even when two tenants share a provider and a client ID; its    *)
(* request is no longer pending; and its user, while the directory still   *)
(* has it, is a user of the tenant and of the account's name, unless a     *)
(* SCIM PUT or PATCH has renamed that user since jitProvisionUser found or *)
(* created it.                                                             *)
SessionOfOwnLogin ==
  \A s \in sessions :
    LET q == The(query[s.id])
    IN  /\ [login |-> q.state, tenant |-> s.tenant] \in started
        /\ \A row \in oidcRequests : row.login # q.state
        /\ \E g \in granted :
             g.code = q.code /\ g.login = q.state /\ g.account.sub = s.subject
        /\ \A u \in users :
             u.id = s.user =>
               u.tenant = s.tenant /\ (u.userName = UserName(s.id) \/ s.id \in renamed)

(* Callbacks that overlap can both take one pending request (SELECT before *)
(* the other's DELETE), yet an authorization code never opens two          *)
(* sessions: the exchange is what serialises them.                         *)
OneSessionPerCode ==
  \A s, u \in sessions :
    s # u => The(query[s.id]).code # The(query[u.id]).code

(* Once any callback's DELETE of a request has run, whatever became of     *)
(* that callback and whichever tenant's path it was on, a callback that    *)
(* comes to its SELECT with the same state is refused.                     *)
LateCallbackRefused ==
  [][\A c \in Callbacks, d \in consumed :
       pc[c] = "select" /\ The(query[c]).state = The(query[d]).state
         => pc'[c] \in {"select", "done"}]_vars
=============================================================================

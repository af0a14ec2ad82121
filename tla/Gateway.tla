------------------------------- MODULE Gateway -------------------------------
(***************************************************************************)
(* The enforced path to a backend: internal/authz/middleware.go (Enforce,  *)
(* SessionFrom), GetSession and DeleteSession of internal/store, the       *)
(* resource mapper of cmd/gateway/main.go and internal/proxy/proxy.go,     *)
(* with the logins that write the rows they read.                          *)
(*                                                                         *)
(* A member of Calls is one request to /api/ in a goroutine of its own.    *)
(* The ABAC decision is AbacCombining's, over the policies whose condition *)
(* the session's department and the client's address satisfy.              *)
(***************************************************************************)
EXTENDS Integers, FiniteSets, SequencesExt

CONSTANTS
  Tenants,      \* configured tenants
  Backend,      \* Backend[t]: backend_url of t, NoBackend if it has none
  NoBackend,
  Unparsable,   \* the backend_urls url.Parse refuses
  Calls,        \* the requests to /api/
  Logins,       \* successful logins: each opens one session
  NoCookie,     \* a request without a session cookie
  Departments,  \* values of the Department attribute
  NoDepartment, \* a session without the attribute
  Paths,        \* request paths: sequences
  Routes,       \* resource_routes: prefix -> resource
  Policies,     \* the policy set: [effect, resource, departments, sources]
  Clients,      \* what a client may send: [headers, names -> values; connection, the
                \* headers its Connection header names]
  RemoteAddr,   \* the address /api/ is reached from
  TrustForwardedFor, \* trust_forwarded_for of the configuration
  SessionTTL,   \* sp.go:246, handlers.go:150: 8 hours
  MaxTime       \* bound on the clock, for TLC

ASSUME TimeAssumption == SessionTTL \in Nat /\ MaxTime \in Nat

\* A prefix is a sequence.
ASSUME RouteAssumption == \A p \in DOMAIN Routes : Len(p) \in Nat

VARIABLES
  now,      \* the clock
  sessions, \* table sessions
  proxies,  \* TenantRouter.proxies: tenant -> backend of the cached proxy
  pc,       \* pc[c]: the next step of call c
  req,      \* req[c]: cookie and path, and the headers the client sent
  sess,     \* sess[c]: the row GetSession read
  left,     \* left[c]: the routes the mapper has not visited
  best,     \* best[c]: the longest matching prefix so far
  resp,     \* resp[c]: the HTTP answer of c
  arrived,  \* arrived[c]: the clock at c's arrival
  audit,    \* what AuditLog received
  sent,     \* what backends received
  opened    \* history: the sessions CreateSession wrote

handler == <<pc, req, sess, left, best, resp, arrived>>
vars    == <<now, sessions, proxies, handler, audit, sent, opened>>

Reserved == {"Tenant", "User", "Subject", "AuthMethod", "Department", "Groups"} \* after X-B2BFP-

RoutePrefixes == DOMAIN Routes

Steps == {"select", "expiry", "map", "decide", "proxy"}

Responses == {"none", "unauthorized", "forbidden", "badGateway", "serverError",
              "forwarded", "dropped"}

Init ==
  /\ now = 0
  /\ sessions = {} /\ proxies = {}
  /\ pc = [c \in Calls |-> "new"]
  /\ req = [c \in Calls |-> {}]
  /\ sess = [c \in Calls |-> {}]
  /\ left = [c \in Calls |-> {}]
  /\ best = [c \in Calls |-> {}]
  /\ resp = [c \in Calls |-> "none"]
  /\ arrived = [c \in Calls |-> {}]
  /\ audit = {} /\ sent = {} /\ opened = {}

Goto(c, step) == pc' = [pc EXCEPT ![c] = step] /\ UNCHANGED resp

Answer(c, r) == pc' = [pc EXCEPT ![c] = "done"] /\ resp' = [resp EXCEPT ![c] = r]

\* req, sess, best and arrived hold one value once they are set.
The(s) == CHOOSE x \in s : TRUE

-----------------------------------------------------------------------------
(* A login of the tenant's user: CreateSession with the attributes of the  *)
(* login, kept for the session's lifetime.  No login path reads Active.    *)
Login(l, t, d) ==
  /\ \A s \in opened : s.id # l
  /\ LET row == [id |-> l, tenant |-> t, department |-> d, exp |-> now + SessionTTL]
     IN  sessions' = sessions \union {row} /\ opened' = opened \union {row}
  /\ UNCHANGED <<now, proxies, handler, audit, sent>>

(* A request to /api/ with a cookie of the past or none.                   *)
Arrive(c, k, p, b) ==
  /\ pc[c] = "new"
  /\ req' = [req EXCEPT ![c] = {[cookie |-> k, path |-> p, client |-> b]}]
  /\ arrived' = [arrived EXCEPT ![c] = {now}]
  /\ IF k = NoCookie THEN Answer(c, "unauthorized") ELSE Goto(c, "select")
  /\ UNCHANGED <<now, sessions, proxies, sess, left, best, audit, sent, opened>>

(* GetSession, SELECT: there is no row, or the statement fails.            *)
GetSession(c) ==
  /\ pc[c] = "select"
  /\ \/ Answer(c, "unauthorized") /\ UNCHANGED sess
     \/ \E row \in sessions :
          /\ row.id = The(req[c]).cookie
          /\ sess' = [sess EXCEPT ![c] = {row}]
          /\ Goto(c, "expiry")
  /\ UNCHANGED <<now, sessions, proxies, req, left, best, arrived, audit, sent, opened>>

\* Mutant: a session past its expiry is deleted but still returned.
CheckExpiryReturns(c) ==
  /\ pc[c] = "expiry"
  /\ sessions' = IF now > The(sess[c]).exp
                   THEN {row \in sessions : row.id # The(sess[c]).id}
                   ELSE sessions
  /\ Goto(c, "map") /\ left' = [left EXCEPT ![c] = RoutePrefixes]
  /\ UNCHANGED <<now, proxies, req, sess, best, arrived, audit, sent, opened>>

(* GetSession, the expiry check on the row read, and DeleteSession, whose  *)
(* error is ignored.                                                       *)
CheckExpiry(c) ==
  /\ pc[c] = "expiry"
  /\ IF now > The(sess[c]).exp
       THEN /\ sessions' \in {sessions, {row \in sessions : row.id # The(sess[c]).id}}
            /\ Answer(c, "unauthorized")
            /\ UNCHANGED left
       ELSE /\ Goto(c, "map") /\ left' = [left EXCEPT ![c] = RoutePrefixes]
            /\ UNCHANGED sessions
  /\ UNCHANGED <<now, proxies, req, sess, best, arrived, audit, sent, opened>>

\* Mutant: a later match replaces an earlier one whatever its length.
BetterAny(c, p) == TRUE

\* A prefix of the path longer than the best so far.
Better(c, p) == \A b \in best[c] : Len(p) > Len(b)

(* The mapper visits the routes in the order of Go's map iteration: any.   *)
MapRoute(c, p) ==
  /\ pc[c] = "map"
  /\ left' = [left EXCEPT ![c] = @ \ {p}]
  /\ best' = [best EXCEPT ![c] =
       IF IsPrefix(p, The(req[c]).path) /\ Better(c, p) THEN {p} ELSE @]
  /\ UNCHANGED <<now, sessions, proxies, pc, req, sess, resp, arrived, audit, sent, opened>>

(* The mapper returns; no matching prefix is a 403.                        *)
MapReturn(c) ==
  /\ pc[c] = "map" /\ left[c] = {}
  /\ IF best[c] = {} THEN Answer(c, "forbidden") ELSE Goto(c, "decide")
  /\ UNCHANGED <<now, sessions, proxies, req, sess, left, best, arrived, audit, sent, opened>>

Resource(c) == Routes[The(best[c])]

\* clientIP: the first hop a trusted load balancer names, or the connection's.
ClientIP(c) ==
  LET h == The(req[c]).client.headers
  IN  IF TrustForwardedFor /\ "ForwardedFor" \in DOMAIN h THEN h["ForwardedFor"] ELSE RemoteAddr

\* abac.Evaluate on the session's attributes: the promise of AbacCombining.
Effect(c) ==
  LET matching == {p \in Policies : /\ p.resource = Resource(c)
                                    /\ The(sess[c]).department \in p.departments
                                    /\ ClientIP(c) \in p.sources}
      effects  == {p.effect : p \in matching}
  IN  IF "Allow" \in effects /\ "Deny" \notin effects THEN "Allow" ELSE "Deny"

(* Enforce: the decision, the audit entry and the 403.                     *)
Decide(c) ==
  /\ pc[c] = "decide"
  /\ audit' = audit \union
       {[call |-> c, session |-> The(sess[c]), resource |-> Resource(c), effect |-> Effect(c)]}
  /\ IF Effect(c) = "Allow" THEN Goto(c, "proxy") ELSE Answer(c, "forbidden")
  /\ UNCHANGED <<now, sessions, proxies, req, sess, left, best, arrived, sent, opened>>

\* The headers Enforce sets.  It sets Department only if the session has one.
Identity(s) ==
  [n \in {"Tenant", "User", "Subject", "AuthMethod"} \union
         (IF s.department = NoDepartment THEN {} ELSE {"Department"}) |->
     IF n = "Tenant" THEN s.tenant ELSE IF n = "Department" THEN s.department ELSE s.id]

\* Mutant: only the headers Enforce sets are overwritten.
HeadersOverwrite(c) == Identity(The(sess[c])) @@ The(req[c]).client.headers

\* Enforce strips every X-B2BFP- header of the request and sets its own.
Headers(c) ==
  LET h  == The(req[c]).client.headers
      id == Identity(The(sess[c]))
  IN  [n \in DOMAIN id \union (DOMAIN h \ Reserved) |-> IF n \in DOMAIN id THEN id[n] ELSE h[n]]

\* httputil.ReverseProxy (external), once its Director has run, removes the
\* headers the request's Connection header names, Enforce's own included.
Outgoing(c) ==
  [n \in DOMAIN Headers(c) \ The(req[c]).client.connection |-> Headers(c)[n]]

\* TenantRouter.proxyFor: the cached proxy, or a new one.
ProxyFor(t) ==
  IF \E x \in proxies : x.tenant = t
    THEN The({x \in proxies : x.tenant = t})
    ELSE [tenant |-> t, backend |-> Backend[t]]

\* Mutant: a tenant without a backend_url gets a proxy like any other.
ForwardNoBackendCheck(c) ==
  LET t == Headers(c)["Tenant"]
  IN  /\ pc[c] = "proxy"
      /\ proxies' = proxies \union {ProxyFor(t)}
      /\ Answer(c, "badGateway")
      /\ UNCHANGED <<now, sessions, req, sess, left, best, arrived, audit, sent, opened>>

(* TenantRouter.Handler, by the tenant header Enforce has set.  A backend  *)
(* that cannot be reached is a 502 of the proxy's ErrorHandler, one whose  *)
(* URL does not parse a 500, and no proxy is cached for it.                *)
Forward(c) ==
  LET t == Headers(c)["Tenant"]
  IN  /\ pc[c] = "proxy"
      /\ IF Backend[t] = NoBackend
           THEN Answer(c, "badGateway") /\ UNCHANGED <<proxies, sent>>
         ELSE IF Backend[t] \in Unparsable
           THEN Answer(c, "serverError") /\ UNCHANGED <<proxies, sent>>
           ELSE /\ proxies' = proxies \union {ProxyFor(t)}
                /\ \/ /\ sent' = sent \union
                          {[call |-> c, backend |-> ProxyFor(t).backend, headers |-> Outgoing(c)]}
                      /\ Answer(c, "forwarded")
                   \/ Answer(c, "badGateway") /\ UNCHANGED sent
      /\ UNCHANGED <<now, sessions, req, sess, left, best, arrived, audit, opened>>

(* The process restarts: open requests and cached proxies are lost, the    *)
(* tables are not.                                                         *)
Restart ==
  /\ \E c \in Calls : pc[c] \in Steps
  /\ proxies' = {}
  /\ pc' = [c \in Calls |-> IF pc[c] \in Steps THEN "done" ELSE pc[c]]
  /\ resp' = [c \in Calls |-> IF pc[c] \in Steps THEN "dropped" ELSE resp[c]]
  /\ UNCHANGED <<now, sessions, req, sess, left, best, arrived, audit, sent, opened>>

Tick ==
  /\ now < MaxTime
  /\ now' = now + 1
  /\ UNCHANGED <<sessions, proxies, handler, audit, sent, opened>>

\* Every request has been answered.
Finished ==
  /\ \A c \in Calls : pc[c] = "done"
  /\ UNCHANGED vars

Step(c) ==
  \/ GetSession(c) \/ CheckExpiry(c)
  \/ (\E p \in left[c] : MapRoute(c, p)) \/ MapReturn(c)
  \/ Decide(c) \/ Forward(c)

Next ==
  \/ \E l \in Logins, t \in Tenants, d \in Departments \union {NoDepartment} : Login(l, t, d)
  \/ \E c \in Calls, k \in {s.id : s \in opened} \union {NoCookie}, p \in Paths, b \in Clients :
       Arrive(c, k, p, b)
  \/ \E c \in Calls : Step(c)
  \/ Restart
  \/ Tick
  \/ Finished

Spec == Init /\ [][Next]_vars

-----------------------------------------------------------------------------
\* The backends proxyFor can make a proxy for.
Reachable == {Backend[t] : t \in Tenants} \ (Unparsable \union {NoBackend})

\* The rows CreateSession may write.
Rows == [id : Logins, tenant : Tenants, department : Departments \union {NoDepartment}, exp : Nat]

(* Every table, handler variable and log holds values of its declared      *)
(* kind, and no proxy is cached for a tenant without a backend that can be *)
(* reached.                                                                *)
TypeOK ==
  /\ now \in Nat
  /\ sessions \subseteq opened /\ opened \subseteq Rows
  /\ proxies \subseteq [tenant : Tenants, backend : Reachable]
  /\ pc \in [Calls -> Steps \union {"new", "done"}] /\ resp \in [Calls -> Responses]
  /\ req \in [Calls -> SUBSET [cookie : Logins \union {NoCookie}, path : Paths, client : Clients]]
  /\ sess \in [Calls -> SUBSET Rows]
  /\ left \in [Calls -> SUBSET RoutePrefixes] /\ best \in [Calls -> SUBSET RoutePrefixes]
  /\ arrived \in [Calls -> SUBSET Nat]
  /\ audit \subseteq [call : Calls, session : Rows, resource : {Routes[p] : p \in RoutePrefixes},
                      effect : {"Allow", "Deny"}]
  /\ \A m \in sent : m.call \in Calls /\ m.backend \in Reachable

(* What a backend receives is the request of a session that had not        *)
(* expired when the request came in, whatever other handlers deleted       *)
(* meanwhile, and the decision that let it pass was on that session.       *)
ExpiredNeverForwarded ==
  \A m \in sent :
    LET s == The(sess[m.call])
    IN  /\ The(arrived[m.call]) <= s.exp
        /\ \E e \in audit : e.call = m.call /\ e.session = s /\ e.effect = "Allow"

(* A backend is reached only by requests of its own tenants' sessions; a   *)
(* reserved header it reads is the session's, never the client's; and of   *)
(* the headers Enforce sets it misses only those the client's own          *)
(* Connection header names: tenant isolation at the backend rests on this. *)
OwnTenantBackend ==
  \A m \in sent :
    LET s == The(sess[m.call])
    IN  /\ m.backend = Backend[s.tenant]
        /\ \A n \in Reserved \intersect DOMAIN m.headers :
             n \in DOMAIN Identity(s) /\ m.headers[n] = Identity(s)[n]
        /\ DOMAIN Identity(s) \ The(req[m.call]).client.connection \subseteq DOMAIN m.headers

(* Every decision is on the resource of the longest route that prefixes    *)
(* the path, in whatever order Go iterated the map.                        *)
LongestRouteDecides ==
  \A e \in audit :
    \E p \in RoutePrefixes :
      /\ IsPrefix(p, The(req[e.call]).path) /\ Routes[p] = e.resource
      /\ \A q \in RoutePrefixes : IsPrefix(q, The(req[e.call]).path) => Len(q) <= Len(p)

=============================================================================

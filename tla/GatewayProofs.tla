---------------------------- MODULE GatewayProofs ----------------------------
(* Theorems about Gateway, for every set of tenants, calls, routes and     *)
(* policies, every header a client may send and every clock bound.         *)
EXTENDS Gateway, TLAPS

LEMMA TheMember == ASSUME NEW s, s # {} PROVE The(s) \in s
  BY DEF The

(* Enforce: of the reserved names the request carries exactly those of the *)
(* session, with the session's values, whatever the client sent.           *)
LEMMA HeadersReserved ==
  ASSUME NEW c \in Calls
  PROVE  /\ Headers(c)["Tenant"] = The(sess[c]).tenant
         /\ \A n \in Reserved :
              /\ n \in DOMAIN Headers(c) <=> n \in DOMAIN Identity(The(sess[c]))
              /\ n \in DOMAIN Headers(c) => Headers(c)[n] = Identity(The(sess[c]))[n]
  <1> DEFINE s == The(sess[c])
             id == Identity(s)
  <1>1. "Tenant" \in DOMAIN id /\ id["Tenant"] = s.tenant
    BY DEF Identity
  <1> QED BY <1>1 DEF Headers

(* What ReverseProxy leaves of them: nothing but the session's, and all of *)
(* the session's but what the request's own Connection header names.       *)
LEMMA OutgoingReserved ==
  ASSUME NEW c \in Calls
  PROVE  /\ \A n \in Reserved \intersect DOMAIN Outgoing(c) :
              /\ n \in DOMAIN Identity(The(sess[c]))
              /\ Outgoing(c)[n] = Identity(The(sess[c]))[n]
         /\ DOMAIN Identity(The(sess[c])) \ The(req[c]).client.connection \subseteq DOMAIN Outgoing(c)
  <1>1. DOMAIN Identity(The(sess[c])) \subseteq DOMAIN Headers(c)
    BY DEF Headers
  <1>2. /\ DOMAIN Outgoing(c) = DOMAIN Headers(c) \ The(req[c]).client.connection
        /\ \A n \in DOMAIN Outgoing(c) : Outgoing(c)[n] = Headers(c)[n]
    BY DEF Outgoing
  <1> QED BY <1>1, <1>2, HeadersReserved

-----------------------------------------------------------------------------
\* The steps after which a call has its request, and its session row.
HasSession == {"expiry", "map", "decide", "proxy"}
Mapped     == {"decide", "proxy"}

(* What the steps of a handler have set before it reads it.                *)
HandlerOrder ==
  \A c \in Calls :
    /\ pc[c] \in HasSession => sess[c] # {}
    /\ pc[c] \in Mapped => best[c] # {}

(* TenantRouter: the cached proxy of a tenant leads to its own backend.    *)
OwnProxy == \A x \in proxies : x.backend = Backend[x.tenant]

TypeInv == TypeOK /\ HandlerOrder /\ OwnProxy

LEMMA TypeInvInit == Init => TypeInv
  BY DEF Init, TypeInv, TypeOK, HandlerOrder, OwnProxy, Steps, Responses, HasSession, Mapped

LEMMA ProxyForOwn ==
  ASSUME TypeInv, NEW t \in Tenants, Backend[t] # NoBackend, Backend[t] \notin Unparsable
  PROVE  /\ ProxyFor(t) \in [tenant : Tenants, backend : Reachable]
         /\ ProxyFor(t).backend = Backend[t] /\ ProxyFor(t).tenant = t
  <1>1. CASE \E x \in proxies : x.tenant = t
    <2>1. ProxyFor(t) \in {x \in proxies : x.tenant = t}
      BY <1>1, TheMember DEF ProxyFor
    <2> QED BY <2>1 DEF TypeInv, TypeOK, OwnProxy
  <1>2. CASE ~\E x \in proxies : x.tenant = t
    BY <1>2 DEF ProxyFor, Reachable
  <1> QED BY <1>1, <1>2

(* One step per action of the logins, Enforce, the mapper and the router.  *)
LEMMA TypeInvStep == TypeInv /\ [Next]_vars => TypeInv'
  <1> SUFFICES ASSUME TypeInv, [Next]_vars PROVE TypeInv'
    OBVIOUS
  <1> USE DEF TypeInv, TypeOK, HandlerOrder, OwnProxy, Steps, Responses, HasSession, Mapped,
          handler, Goto, Answer
  <1>1. ASSUME NEW l \in Logins, NEW t \in Tenants, NEW d \in Departments \union {NoDepartment},
               Login(l, t, d)
        PROVE  TypeInv'
    <2>1. [id |-> l, tenant |-> t, department |-> d, exp |-> now + SessionTTL] \in Rows
      BY TimeAssumption DEF Rows
    <2> QED BY <1>1, <2>1 DEF Login
  <1>2. ASSUME NEW c \in Calls, NEW k \in {s.id : s \in opened} \union {NoCookie},
               NEW p \in Paths, NEW b \in Clients, Arrive(c, k, p, b)
        PROVE  TypeInv'
    <2>1. k \in Logins \union {NoCookie}
      BY DEF Rows
    <2>2. req' \in [Calls -> SUBSET [cookie : Logins \union {NoCookie}, path : Paths,
                                     client : Clients]]
      BY <1>2, <2>1 DEF Arrive
    <2>3. HandlerOrder'
      BY <1>2 DEF Arrive
    <2> QED BY <1>2, <2>2, <2>3 DEF Arrive
  <1>3. ASSUME NEW c \in Calls, GetSession(c) PROVE TypeInv'
    <2>1. sess' \in [Calls -> SUBSET Rows]
      BY <1>3 DEF GetSession
    <2>2. /\ pc' \in [Calls -> Steps \union {"new", "done"}] /\ UNCHANGED best
          /\ \A d \in Calls : d # c => pc'[d] = pc[d] /\ sess'[d] = sess[d]
          /\ pc[c] = "select"
          /\ pc'[c] = "done" \/ (pc'[c] = "expiry" /\ sess'[c] # {})
      BY <1>3 DEF GetSession
    <2>3. HandlerOrder'
      BY <2>2
    <2> QED BY <1>3, <2>1, <2>2, <2>3 DEF GetSession
  <1>4. ASSUME NEW c \in Calls, CheckExpiry(c) PROVE TypeInv'
    BY <1>4 DEF CheckExpiry
  <1>5. ASSUME NEW c \in Calls, NEW p \in left[c], MapRoute(c, p) PROVE TypeInv'
    <2>1. p \in RoutePrefixes
      OBVIOUS
    <2>2. left' \in [Calls -> SUBSET RoutePrefixes] /\ best' \in [Calls -> SUBSET RoutePrefixes]
      BY <1>5, <2>1 DEF MapRoute
    <2>3. HandlerOrder'
      BY <1>5 DEF MapRoute
    <2> QED BY <1>5, <2>2, <2>3 DEF MapRoute
  <1>6. ASSUME NEW c \in Calls, MapReturn(c) PROVE TypeInv'
    BY <1>6 DEF MapReturn
  <1>7. ASSUME NEW c \in Calls, Decide(c) PROVE TypeInv'
    <2>1. The(sess[c]) \in Rows
      BY <1>7, TheMember DEF Decide
    <2>2. Resource(c) \in {Routes[p] : p \in RoutePrefixes}
      BY <1>7, TheMember DEF Decide, Resource
    <2>3. Effect(c) \in {"Allow", "Deny"}
      BY DEF Effect
    <2>4. audit' \subseteq [call : Calls, session : Rows,
                            resource : {Routes[p] : p \in RoutePrefixes},
                            effect : {"Allow", "Deny"}]
      BY <1>7, <2>1, <2>2, <2>3 DEF Decide
    <2>5. HandlerOrder'
      BY <1>7 DEF Decide
    <2> QED BY <1>7, <2>4, <2>5 DEF Decide
  <1>8. ASSUME NEW c \in Calls, Forward(c) PROVE TypeInv'
    <2> DEFINE t == Headers(c)["Tenant"]
    <2>1. The(sess[c]) \in Rows
      BY <1>8, TheMember DEF Forward
    <2>2. t \in Tenants
      BY <2>1, HeadersReserved DEF Rows
    <2>3. HandlerOrder'
      BY <1>8 DEF Forward
    <2>4. UNCHANGED <<now, sessions, req, sess, left, best, arrived, audit, opened>>
      BY <1>8 DEF Forward
    <2>5. pc' \in [Calls -> Steps \union {"new", "done"}] /\ resp' \in [Calls -> Responses]
      BY <1>8 DEF Forward
    <2>6. CASE Backend[t] = NoBackend \/ Backend[t] \in Unparsable
      <3>1. UNCHANGED <<proxies, sent>>
        BY <1>8, <2>6 DEF Forward
      <3> QED BY <3>1, <2>3, <2>4, <2>5
    <2>7. CASE Backend[t] # NoBackend /\ Backend[t] \notin Unparsable
      <3> HIDE DEF t
      <3>1. /\ ProxyFor(t) \in [tenant : Tenants, backend : Reachable]
            /\ ProxyFor(t).backend = Backend[t] /\ ProxyFor(t).tenant = t
        BY <2>2, <2>7, ProxyForOwn
      <3>2. /\ proxies' = proxies \union {ProxyFor(t)}
            /\ sent' \subseteq sent \union
                 {[call |-> c, backend |-> ProxyFor(t).backend, headers |-> Outgoing(c)]}
        BY <1>8, <2>7 DEF Forward, t
      <3>3. OwnProxy'
        BY <3>1, <3>2
      <3>4. \A m \in sent' : m.call \in Calls /\ m.backend \in Reachable
        BY <3>1, <3>2, <2>2
      <3> QED BY <3>1, <3>2, <3>3, <3>4, <2>3, <2>4, <2>5
    <2> QED BY <2>6, <2>7
  <1>9. CASE Restart
    BY <1>9 DEF Restart
  <1>10. CASE Tick
    BY <1>10 DEF Tick
  <1>11. CASE UNCHANGED vars
    BY <1>11 DEF vars
  <1> QED BY <1>1, <1>2, <1>3, <1>4, <1>5, <1>6, <1>7, <1>8, <1>9, <1>10, <1>11
          DEF Next, Step, Finished

(* The tables, handlers and logs keep their types, and no proxy is cached  *)
(* for a tenant without a backend that can be reached.                     *)
THEOREM TypeCorrect == Spec => []TypeOK
  <1>1. TypeInv => TypeOK
    BY DEF TypeInv
  <1> QED BY TypeInvInit, TypeInvStep, <1>1, PTL DEF Spec
-----------------------------------------------------------------------------
(* The clock of the arrival is behind the one the expiry is checked with,  *)
(* so a call past the check arrived in its session's lifetime; and a call  *)
(* at the proxy has been allowed on the row it still holds.                *)
InLifetime ==
  \A c \in Calls :
    /\ pc[c] # "new" => arrived[c] # {}
    /\ \A x \in arrived[c] : x <= now
    /\ pc[c] \in {"map", "decide", "proxy"} => The(arrived[c]) <= The(sess[c]).exp
    /\ pc[c] = "proxy" =>
         \E e \in audit : e.call = c /\ e.session = The(sess[c]) /\ e.effect = "Allow"

\* A call whose request has gone to a backend takes no further step.
SentDone == \A m \in sent : pc[m.call] = "done"

ForwardInv == TypeInv /\ InLifetime /\ SentDone /\ ExpiredNeverForwarded /\ OwnTenantBackend

LEMMA ForwardInit == Init => ForwardInv
  BY TypeInvInit DEF Init, ForwardInv, InLifetime, SentDone, ExpiredNeverForwarded, OwnTenantBackend

(* Steps that send nothing, keep the audit log and leave the requests, the *)
(* rows and the arrivals of the calls already sent alone.                  *)
LEMMA ForwardFrame ==
  ASSUME ForwardInv, UNCHANGED sent, audit \subseteq audit',
         \A c \in Calls : pc[c] = "done" =>
           /\ pc'[c] = "done" /\ req'[c] = req[c]
           /\ sess'[c] = sess[c] /\ arrived'[c] = arrived[c]
  PROVE  (SentDone /\ ExpiredNeverForwarded /\ OwnTenantBackend)'
  <1>1. \A m \in sent : /\ m.call \in Calls /\ pc[m.call] = "done" /\ pc'[m.call] = "done"
                        /\ req'[m.call] = req[m.call]
                        /\ sess'[m.call] = sess[m.call] /\ arrived'[m.call] = arrived[m.call]
    BY DEF ForwardInv, TypeInv, TypeOK, SentDone
  <1>2. SentDone'
    BY <1>1 DEF SentDone
  <1>3. ExpiredNeverForwarded'
    BY <1>1 DEF ForwardInv, ExpiredNeverForwarded
  <1>4. OwnTenantBackend'
    BY <1>1 DEF ForwardInv, OwnTenantBackend
  <1> QED BY <1>2, <1>3, <1>4

LEMMA ForwardStep == ForwardInv /\ [Next]_vars => ForwardInv'
  <1> SUFFICES ASSUME ForwardInv, [Next]_vars PROVE ForwardInv'
    OBVIOUS
  <1>a. TypeInv'
    BY TypeInvStep DEF ForwardInv
  <1>b. /\ TypeInv /\ InLifetime /\ now \in Nat /\ arrived \in [Calls -> SUBSET Nat]
        /\ pc \in [Calls -> Steps \union {"new", "done"}]
        /\ sess \in [Calls -> SUBSET Rows] /\ DOMAIN req = Calls
    BY DEF ForwardInv, TypeInv, TypeOK
  <1>c. \A c \in Calls : pc[c] \in HasSession =>
          The(sess[c]) \in Rows /\ The(arrived[c]) \in Nat /\ The(arrived[c]) <= now
    BY <1>b, TheMember DEF TypeInv, HandlerOrder, HasSession, InLifetime
  <1> USE <1>b DEF handler, Goto, Answer
  <1>1. ASSUME NEW c \in Calls, NEW k, NEW p, NEW h, Arrive(c, k, p, h) PROVE ForwardInv'
    <2>1. InLifetime'
      BY <1>1 DEF Arrive, InLifetime
    <2>2. (SentDone /\ ExpiredNeverForwarded /\ OwnTenantBackend)'
      BY <1>1, ForwardFrame DEF Arrive
    <2> QED BY <1>a, <2>1, <2>2 DEF ForwardInv
  <1>2. ASSUME NEW c \in Calls, GetSession(c) PROVE ForwardInv'
    <2>1. InLifetime'
      BY <1>2 DEF GetSession, InLifetime
    <2>2. (SentDone /\ ExpiredNeverForwarded /\ OwnTenantBackend)'
      BY <1>2, ForwardFrame DEF GetSession
    <2> QED BY <1>a, <2>1, <2>2 DEF ForwardInv
  <1>3. ASSUME NEW c \in Calls, CheckExpiry(c) PROVE ForwardInv'
    <2>1. UNCHANGED <<now, sess, arrived, audit>> /\ pc[c] = "expiry"
          /\ \A d \in Calls : d # c => pc'[d] = pc[d]
      BY <1>3 DEF CheckExpiry
    <2>2. pc'[c] = "done" \/ (pc'[c] = "map" /\ ~(now > The(sess[c]).exp))
      BY <1>3 DEF CheckExpiry
    <2>3. The(sess[c]).exp \in Nat
      BY <2>1, <1>c DEF HasSession, Rows
    <2>4. The(arrived[c]) \in Nat /\ The(arrived[c]) <= now
      BY <2>1, <1>c DEF HasSession
    <2>5. pc'[c] = "map" => The(arrived[c]) <= The(sess[c]).exp
      BY <2>2, <2>3, <2>4
    <2>6. InLifetime'
      BY <2>1, <2>2, <2>5 DEF InLifetime
    <2>7. (SentDone /\ ExpiredNeverForwarded /\ OwnTenantBackend)'
      BY <1>3, ForwardFrame DEF CheckExpiry
    <2> QED BY <1>a, <2>6, <2>7 DEF ForwardInv
  <1>4. ASSUME NEW c \in Calls, (\E p \in left[c] : MapRoute(c, p)) \/ MapReturn(c)
        PROVE ForwardInv'
    <2>1. InLifetime'
      BY <1>4 DEF MapRoute, MapReturn, InLifetime
    <2>2. (SentDone /\ ExpiredNeverForwarded /\ OwnTenantBackend)'
      BY <1>4, ForwardFrame DEF MapRoute, MapReturn
    <2> QED BY <1>a, <2>1, <2>2 DEF ForwardInv
  <1>5. ASSUME NEW c \in Calls, Decide(c) PROVE ForwardInv'
    <2> DEFINE e == [call |-> c, session |-> The(sess[c]), resource |-> Resource(c),
                     effect |-> Effect(c)]
    <2>1. /\ audit' = audit \union {e} /\ UNCHANGED <<now, req, sess, arrived, sent>>
          /\ pc[c] = "decide" /\ pc'[c] \in {"proxy", "done"}
          /\ pc'[c] = "proxy" => Effect(c) = "Allow"
          /\ \A d \in Calls : d # c => pc'[d] = pc[d]
      BY <1>5 DEF Decide
    <2>2. e.call = c /\ e.session = The(sess[c]) /\ e.effect = Effect(c)
      OBVIOUS
    <2> HIDE DEF e
    <2>3. InLifetime'
      BY <2>1, <2>2 DEF InLifetime
    <2>4. (SentDone /\ ExpiredNeverForwarded /\ OwnTenantBackend)'
      BY <2>1, ForwardFrame
    <2> QED BY <1>a, <2>3, <2>4 DEF ForwardInv
  <1>6. ASSUME NEW c \in Calls, Forward(c) PROVE ForwardInv'
    <2> DEFINE t == Headers(c)["Tenant"]
               m == [call |-> c, backend |-> ProxyFor(t).backend, headers |-> Outgoing(c)]
    <2>1. /\ UNCHANGED <<now, req, sess, arrived, audit>> /\ pc[c] = "proxy" /\ pc'[c] = "done"
          /\ \A d \in Calls : d # c => pc'[d] = pc[d]
      BY <1>6 DEF Forward
    <2>2. InLifetime'
      BY <2>1 DEF InLifetime
    <2>3. CASE sent' = sent
      <3>1. (SentDone /\ ExpiredNeverForwarded /\ OwnTenantBackend)'
        BY <2>1, <2>3, ForwardFrame
      <3> QED BY <1>a, <2>2, <3>1 DEF ForwardInv
    <2>4. CASE sent' # sent
      <3>1. Backend[t] # NoBackend /\ Backend[t] \notin Unparsable /\ sent' = sent \union {m}
        BY <1>6, <2>4 DEF Forward
      <3>2. t = The(sess[c]).tenant /\ t \in Tenants
        BY <2>1, <1>c, HeadersReserved DEF HasSession, Rows
      <3>3. m.call = c /\ m.backend = Backend[t] /\ m.headers = Outgoing(c)
        BY <3>1, <3>2, ProxyForOwn
      <3> HIDE DEF m, t
      <3>4. \A x \in sent : x.call \in Calls /\ pc[x.call] = "done"
        BY DEF ForwardInv, SentDone, TypeInv, TypeOK
      <3>5. SentDone'
        BY <2>1, <3>1, <3>3, <3>4 DEF SentDone
      <3>6. ExpiredNeverForwarded'
        BY <2>1, <3>1, <3>3 DEF ForwardInv, ExpiredNeverForwarded, InLifetime
      <3>7. OwnTenantBackend'
        <4>1. /\ m.backend = Backend[The(sess[c]).tenant]
              /\ \A n \in Reserved \intersect DOMAIN m.headers :
                   n \in DOMAIN Identity(The(sess[c])) /\ m.headers[n] = Identity(The(sess[c]))[n]
              /\ DOMAIN Identity(The(sess[c])) \ The(req[c]).client.connection
                   \subseteq DOMAIN m.headers
          BY <3>2, <3>3, OutgoingReserved
        <4> QED BY <2>1, <3>1, <3>3, <4>1 DEF ForwardInv, OwnTenantBackend
      <3> QED BY <1>a, <2>2, <3>5, <3>6, <3>7 DEF ForwardInv
    <2> QED BY <2>3, <2>4
  <1>7. CASE Tick
    <2>1. InLifetime'
      <3>1. now' = now + 1 /\ UNCHANGED <<handler, audit>>
        BY <1>7 DEF Tick
      <3>2. \A c \in Calls : \A x \in arrived[c] : x <= now + 1
        BY DEF InLifetime
      <3> QED BY <3>1, <3>2 DEF InLifetime
    <2>2. (SentDone /\ ExpiredNeverForwarded /\ OwnTenantBackend)'
      BY <1>7, ForwardFrame DEF Tick
    <2> QED BY <1>a, <2>1, <2>2 DEF ForwardInv
  <1>8. CASE \/ \E l \in Logins, t \in Tenants, d \in Departments \union {NoDepartment} : Login(l, t, d)
             \/ Restart \/ UNCHANGED vars
    <2>1. InLifetime'
      <3>1. /\ UNCHANGED <<now, sess, arrived, audit>>
            /\ \A c \in Calls : pc'[c] = pc[c] \/ (pc'[c] = "done" /\ pc[c] \in Steps)
        BY <1>8 DEF Login, Restart, vars
      <3> QED BY <3>1 DEF InLifetime, Steps
    <2>2. (SentDone /\ ExpiredNeverForwarded /\ OwnTenantBackend)'
      BY <1>8, ForwardFrame DEF Login, Restart, vars, Steps
    <2> QED BY <1>a, <2>1, <2>2 DEF ForwardInv
  <1> QED BY <1>1, <1>2, <1>3, <1>4, <1>5, <1>6, <1>7, <1>8 DEF Next, Step, Finished

(* GetSession and Enforce: no backend receives a request whose session had *)
(* expired on arrival, or without an Allow on that session in the log.     *)
THEOREM ExpiryTheorem == Spec => []ExpiredNeverForwarded
  <1>1. ForwardInv => ExpiredNeverForwarded
    BY DEF ForwardInv
  <1> QED BY ForwardInit, ForwardStep, <1>1, PTL DEF Spec

(* Enforce, TenantRouter and ReverseProxy: a backend is reached by its own *)
(* tenant's sessions only, a reserved header it reads is the session's,    *)
(* and it misses one only if the client's Connection header named it.      *)
THEOREM OwnTenantTheorem == Spec => []OwnTenantBackend
  <1>1. ForwardInv => OwnTenantBackend
    BY DEF ForwardInv
  <1> QED BY ForwardInit, ForwardStep, <1>1, PTL DEF Spec

-----------------------------------------------------------------------------
(* The mapper's loop invariant: best is the longest matching prefix of     *)
(* those visited so far, in whatever order they come.                      *)
BestSoFar(c) ==
  /\ \A b \in best[c] : IsPrefix(b, The(req[c]).path)
  /\ \A a, b \in best[c] : a = b
  /\ \A q \in RoutePrefixes \ left[c] :
       IsPrefix(q, The(req[c]).path) => \E b \in best[c] : Len(q) <= Len(b)

RouteOrder ==
  \A c \in Calls :
    /\ pc[c] \in {"map", "decide"} => BestSoFar(c)
    /\ pc[c] = "decide" => left[c] = {}
    /\ pc[c] \in {"new", "select", "expiry"} => best[c] = {}

\* A call that has been decided has its request for good.
AuditDone == \A e \in audit : e.call \in Calls /\ pc[e.call] \in {"proxy", "done"}

RouteInv == TypeInv /\ RouteOrder /\ AuditDone /\ LongestRouteDecides

LEMMA RouteInit == Init => RouteInv
  BY TypeInvInit DEF Init, RouteInv, RouteOrder, AuditDone, LongestRouteDecides

(* Steps that decide nothing and leave the requests decided on alone.      *)
LEMMA RouteFrame ==
  ASSUME RouteInv, UNCHANGED audit,
         \A c \in Calls : pc[c] \in {"proxy", "done"} =>
           pc'[c] \in {"proxy", "done"} /\ req'[c] = req[c]
  PROVE  (AuditDone /\ LongestRouteDecides)'
  <1>1. \A e \in audit : /\ e.call \in Calls /\ pc'[e.call] \in {"proxy", "done"}
                         /\ req'[e.call] = req[e.call]
    BY DEF RouteInv, AuditDone
  <1>2. AuditDone'
    BY <1>1 DEF AuditDone
  <1>3. LongestRouteDecides'
    BY <1>1 DEF RouteInv, LongestRouteDecides
  <1> QED BY <1>2, <1>3

LEMMA RouteStep == RouteInv /\ [Next]_vars => RouteInv'
  <1> SUFFICES ASSUME RouteInv, [Next]_vars PROVE RouteInv'
    OBVIOUS
  <1>a. TypeInv'
    BY TypeInvStep DEF RouteInv
  <1>b. /\ RouteOrder
        /\ pc \in [Calls -> Steps \union {"new", "done"}]
        /\ left \in [Calls -> SUBSET RoutePrefixes] /\ best \in [Calls -> SUBSET RoutePrefixes]
        /\ DOMAIN req = Calls
    BY DEF RouteInv, TypeInv, TypeOK
  <1> USE <1>b DEF handler, Goto, Answer
  <1>1. ASSUME NEW c \in Calls, CheckExpiry(c) PROVE RouteInv'
    <2>1. /\ UNCHANGED <<req, best, audit>> /\ pc[c] = "expiry"
          /\ \A d \in Calls : d # c => pc'[d] = pc[d] /\ left'[d] = left[d]
          /\ pc'[c] = "done" \/ (pc'[c] = "map" /\ left'[c] = RoutePrefixes)
      BY <1>1 DEF CheckExpiry
    <2>2. RouteOrder'
      BY <2>1 DEF RouteOrder, BestSoFar
    <2>3. (AuditDone /\ LongestRouteDecides)'
      BY <2>1, RouteFrame
    <2> QED BY <1>a, <2>2, <2>3 DEF RouteInv
  <1>2. ASSUME NEW c \in Calls, NEW p \in left[c], MapRoute(c, p) PROVE RouteInv'
    <2>1. /\ UNCHANGED <<req, pc, audit>> /\ pc[c] = "map"
          /\ left'[c] = left[c] \ {p}
          /\ best'[c] = IF IsPrefix(p, The(req[c]).path) /\ Better(c, p) THEN {p} ELSE best[c]
          /\ \A d \in Calls : d # c => left'[d] = left[d] /\ best'[d] = best[d]
      BY <1>2 DEF MapRoute
    <2>2. BestSoFar(c) /\ p \in RoutePrefixes /\ Len(p) \in Nat
          /\ \A q \in RoutePrefixes : Len(q) \in Nat
      BY <2>1, RouteAssumption DEF RouteOrder, RoutePrefixes
    <2>3. BestSoFar(c)'
      <3>1. CASE IsPrefix(p, The(req[c]).path) /\ Better(c, p)
        <4>1. best'[c] = {p}
          BY <2>1, <3>1
        <4>2. ASSUME NEW q \in RoutePrefixes, q \notin left'[c], IsPrefix(q, The(req[c]).path)
              PROVE  Len(q) <= Len(p)
          <5>1. CASE q = p
            BY <5>1, <2>2
          <5>2. CASE q # p
            <6>1. PICK b \in best[c] : Len(q) <= Len(b)
              BY <4>2, <5>2, <2>1, <2>2 DEF BestSoFar
            <6>2. Len(p) > Len(b) /\ Len(b) \in Nat
              BY <6>1, <3>1, <2>2 DEF Better
            <6> QED BY <6>1, <6>2, <2>2
          <5> QED BY <5>1, <5>2
        <4> QED BY <4>1, <4>2, <3>1, <2>1 DEF BestSoFar
      <3>2. CASE ~(IsPrefix(p, The(req[c]).path) /\ Better(c, p))
        <4>1. best'[c] = best[c]
          BY <2>1, <3>2
        <4>2. ASSUME IsPrefix(p, The(req[c]).path) PROVE \E b \in best[c] : Len(p) <= Len(b)
          BY <4>2, <3>2, <2>2 DEF Better
        <4> QED BY <4>1, <4>2, <2>1, <2>2 DEF BestSoFar
      <3> QED BY <3>1, <3>2
    <2>4. RouteOrder'
      BY <2>1, <2>3 DEF RouteOrder, BestSoFar
    <2>5. (AuditDone /\ LongestRouteDecides)'
      BY <2>1, RouteFrame
    <2> QED BY <1>a, <2>4, <2>5 DEF RouteInv
  <1>3. ASSUME NEW c \in Calls, MapReturn(c) PROVE RouteInv'
    <2>1. RouteOrder'
      BY <1>3 DEF MapReturn, RouteOrder, BestSoFar
    <2>2. (AuditDone /\ LongestRouteDecides)'
      BY <1>3, RouteFrame DEF MapReturn
    <2> QED BY <1>a, <2>1, <2>2 DEF RouteInv
  <1>4. ASSUME NEW c \in Calls, Decide(c) PROVE RouteInv'
    <2> DEFINE e == [call |-> c, session |-> The(sess[c]), resource |-> Resource(c),
                     effect |-> Effect(c)]
               p == The(best[c])
    <2>1. /\ audit' = audit \union {e} /\ UNCHANGED <<req, left, best>>
          /\ pc[c] = "decide" /\ pc'[c] \in {"proxy", "done"}
          /\ \A d \in Calls : d # c => pc'[d] = pc[d]
      BY <1>4 DEF Decide
    <2>2. e.call = c /\ e.resource = Routes[p]
      BY DEF Resource
    <2>3. p \in best[c] /\ p \in RoutePrefixes /\ left[c] = {} /\ BestSoFar(c)
      BY <2>1, TheMember DEF RouteOrder, RouteInv, TypeInv, HandlerOrder, Mapped
    <2> HIDE DEF e, p
    <2>4. /\ IsPrefix(p, The(req[c]).path)
          /\ \A q \in RoutePrefixes : IsPrefix(q, The(req[c]).path) => Len(q) <= Len(p)
      BY <2>3 DEF BestSoFar
    <2>5. RouteOrder'
      BY <2>1 DEF RouteOrder, BestSoFar
    <2>6. AuditDone'
      BY <2>1, <2>2 DEF RouteInv, AuditDone
    <2>7. LongestRouteDecides'
      BY <2>1, <2>2, <2>3, <2>4 DEF RouteInv, LongestRouteDecides
    <2> QED BY <1>a, <2>5, <2>6, <2>7 DEF RouteInv
  <1>5. ASSUME NEW c \in Calls, NEW k, NEW p, NEW h, Arrive(c, k, p, h) PROVE RouteInv'
    <2>1. RouteOrder'
      BY <1>5 DEF Arrive, RouteOrder, BestSoFar
    <2>2. (AuditDone /\ LongestRouteDecides)'
      BY <1>5, RouteFrame DEF Arrive
    <2> QED BY <1>a, <2>1, <2>2 DEF RouteInv
  <1>6. ASSUME NEW c \in Calls, GetSession(c) \/ Forward(c) PROVE RouteInv'
    <2>1. /\ UNCHANGED <<req, left, best, audit>> /\ pc[c] \in {"select", "proxy"}
          /\ pc'[c] \in {"expiry", "done"}
          /\ pc[c] = "proxy" => pc'[c] = "done"
          /\ \A d \in Calls : d # c => pc'[d] = pc[d]
      BY <1>6 DEF GetSession, Forward
    <2>2. RouteOrder'
      BY <2>1 DEF RouteOrder, BestSoFar
    <2>3. (AuditDone /\ LongestRouteDecides)'
      BY <2>1, RouteFrame
    <2> QED BY <1>a, <2>2, <2>3 DEF RouteInv
  <1>7. CASE \/ \E l \in Logins, t \in Tenants, d \in Departments \union {NoDepartment} : Login(l, t, d)
             \/ Restart \/ Tick \/ UNCHANGED vars
    <2>1. /\ UNCHANGED <<req, left, best, audit>>
          /\ \A c \in Calls : pc'[c] = pc[c] \/ pc'[c] = "done"
      BY <1>7 DEF Login, Restart, Tick, vars
    <2>2. RouteOrder'
      BY <2>1 DEF RouteOrder, BestSoFar
    <2>3. (AuditDone /\ LongestRouteDecides)'
      BY <2>1, RouteFrame
    <2> QED BY <1>a, <2>2, <2>3 DEF RouteInv
  <1> QED BY <1>1, <1>2, <1>3, <1>4, <1>5, <1>6, <1>7 DEF Next, Step, Finished

(* The resource mapper: the longest prefix of the path decides, whatever   *)
(* order Go's map iteration gives the routes in.                           *)
THEOREM LongestRouteTheorem == Spec => []LongestRouteDecides
  <1>1. RouteInv => LongestRouteDecides
    BY DEF RouteInv
  <1> QED BY RouteInit, RouteStep, <1>1, PTL DEF Spec
=============================================================================

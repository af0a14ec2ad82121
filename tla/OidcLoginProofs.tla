--------------------------- MODULE OidcLoginProofs ---------------------------
(* Theorems about OidcLogin, for every set of tenants, providers, logins,  *)
(* codes and callbacks and every clock bound.                              *)
EXTENDS OidcLogin, TLAPS

LEMMA TheMember == ASSUME NEW s, s # {} PROVE The(s) \in s
  BY DEF The

LEMMA TheOnly == ASSUME NEW x PROVE The({x}) = x
  BY DEF The

-----------------------------------------------------------------------------
\* The steps by which a callback has its request, its token, and a user claim.
Taken    == {"delete", "check", "exchange", "verify", "find", "create", "session"}
Redeemed == {"verify", "find", "create", "session"}
Verified == {"find", "create", "session"}

(* What each step of a callback has set, and what no step has set before.  *)
HandlerOrder ==
  \A c \in Callbacks :
    /\ pc[c] \in {"select"} \union Taken => query[c] # {}
    /\ pc[c] \in Taken => pending[c] # {}
    /\ pc[c] \in Redeemed => token[c] # {}
    /\ pc[c] \in Verified => The(token[c]).grant.account.sub # NoClaim
    /\ pc[c] \in {"new", "select"} => pending[c] = {}
    /\ pc[c] \in {"new", "select", "delete", "check", "exchange"} => token[c] = {}

TypeInv == TypeOK /\ HandlerOrder

LEMMA TypeInvInit == Init => TypeInv
  BY DEF Init, TypeInv, TypeOK, HandlerOrder, UserIds, Responses, Taken, Redeemed, Verified

(* The claims of a redeemed token are an account's.                        *)
LEMMA TokenClaims ==
  ASSUME TypeInv, NEW c \in Callbacks, pc[c] \in Verified
  PROVE  /\ The(token[c]) \in Tokens
         /\ The(token[c]).grant.account.sub \in Names
         /\ UserName(c) \in Names /\ Tenant(c) \in Tenants
  <1>1. The(token[c]) \in token[c] /\ The(query[c]) \in query[c]
    BY TheMember DEF TypeInv, HandlerOrder, Taken, Redeemed, Verified
  <1>2. The(token[c]) \in Tokens /\ Tenant(c) \in Tenants
    BY <1>1 DEF TypeInv, TypeOK, Tenant
  <1>3. The(token[c]).grant.account \in [sub : Names \union {NoClaim},
                                         email : Names \union {NoClaim}]
    BY <1>2, AccountAssumption DEF Tokens, Grants
  <1>4. The(token[c]).grant.account.sub # NoClaim
    BY DEF TypeInv, HandlerOrder
  <1> QED BY <1>2, <1>3, <1>4 DEF UserName, NameOf

(* One step per action of login, callback, the providers and the sync.     *)
LEMMA TypeInvStep == TypeInv /\ [Next]_vars => TypeInv'
  <1> SUFFICES ASSUME TypeInv, [Next]_vars PROVE TypeInv'
    OBVIOUS
  <1>a. RequestTTL \in Nat /\ TokenTTL \in Nat
    BY TimeAssumption
  <1> USE DEF TypeInv, TypeOK, HandlerOrder, Steps, Responses, Taken, Redeemed, Verified,
          UserIds, idp, tables, local, hist, Goto, Answer
  <1>1. ASSUME NEW t \in Tenants, NEW r \in Logins, Login(t, r) PROVE TypeInv'
    <2>1. [login |-> r, tenant |-> t, exp |-> now + RequestTTL] \in Requests
      BY <1>a DEF Requests
    <2> QED BY <1>1, <2>1 DEF Login
  <1>2. ASSUME NEW k \in Codes, NEW s \in started, NEW a \in Accounts, Authorize(k, s, a)
        PROVE  TypeInv'
    <2>1. [code |-> k, login |-> s.login, aud |-> ClientId[s.tenant],
           iss |-> Issuer[s.tenant], account |-> a] \in Grants
      BY DEF Grants
    <2> QED BY <1>2, <2>1 DEF Authorize
  <1>3. ASSUME NEW c \in Callbacks, NEW t \in Tenants, NEW g \in granted, NEW s \in started,
               Arrive(c, t, g, s)
        PROVE  TypeInv'
    <2>1. [tenant |-> t, code |-> g.code, state |-> s.login]
            \in [tenant : Tenants, code : Codes, state : Logins]
      BY DEF Grants
    <2>2. query' \in [Callbacks -> SUBSET [tenant : Tenants, code : Codes, state : Logins]]
      BY <1>3, <2>1 DEF Arrive
    <2>3. HandlerOrder'
      BY <1>3 DEF Arrive
    <2> QED BY <1>3, <2>2, <2>3 DEF Arrive
  <1>4. ASSUME NEW c \in Callbacks, TakeSelect(c) PROVE TypeInv'
    <2>1. pending' \in [Callbacks -> SUBSET Requests]
      BY <1>4 DEF TakeSelect
    <2>2. /\ UNCHANGED <<query, token>> /\ pc[c] = "select"
          /\ \A d \in Callbacks : d # c => pc'[d] = pc[d] /\ pending'[d] = pending[d]
          /\ \/ pc'[c] = "done"
             \/ pc'[c] = "delete" /\ \E row \in oidcRequests : pending'[c] = {row}
      BY <1>4 DEF TakeSelect
    <2>3. HandlerOrder'
      BY <2>2
    <2> QED BY <1>4, <2>1, <2>3 DEF TakeSelect
  <1>5. ASSUME NEW c \in Callbacks, TakeDelete(c) PROVE TypeInv'
    BY <1>5 DEF TakeDelete
  <1>6. ASSUME NEW c \in Callbacks, CheckPending(c) PROVE TypeInv'
    BY <1>6 DEF CheckPending
  <1>7. ASSUME NEW c \in Callbacks, ExchangeCode(c) PROVE TypeInv'
    <2>1. CASE UNCHANGED <<grants, token>> /\ Answer(c, "badGateway")
      BY <1>7, <2>1 DEF ExchangeCode
    <2>2. CASE \E g \in grants :
                 /\ grants' = grants \ {g}
                 /\ token' = [token EXCEPT ![c] =
                      {[grant |-> g, key |-> key, iat |-> now, exp |-> now + TokenTTL]}]
                 /\ Goto(c, "verify")
      <3>1. PICK g \in grants :
              /\ grants' = grants \ {g}
              /\ token' = [token EXCEPT ![c] =
                   {[grant |-> g, key |-> key, iat |-> now, exp |-> now + TokenTTL]}]
              /\ Goto(c, "verify")
        BY <2>2
      <3>2. [grant |-> g, key |-> key, iat |-> now, exp |-> now + TokenTTL] \in Tokens
        BY <1>a DEF Tokens
      <3>3. token' \in [Callbacks -> SUBSET Tokens] /\ grants' \subseteq granted
        BY <3>1, <3>2
      <3>4. /\ UNCHANGED <<query, pending>> /\ pc[c] = "exchange" /\ pc'[c] = "verify"
            /\ token'[c] # {}
            /\ \A d \in Callbacks : d # c => pc'[d] = pc[d] /\ token'[d] = token[d]
        BY <1>7, <3>1 DEF ExchangeCode
      <3>5. HandlerOrder'
        BY <3>4
      <3> QED BY <1>7, <3>1, <3>3, <3>5 DEF ExchangeCode
    <2> QED BY <1>7, <2>1, <2>2 DEF ExchangeCode
  <1>8. ASSUME NEW c \in Callbacks, Verify(c) PROVE TypeInv'
    BY <1>8 DEF Verify
  <1>9. ASSUME NEW c \in Callbacks, JitFind(c) PROVE TypeInv'
    BY <1>9 DEF JitFind, UsersNamed
  <1>10. ASSUME NEW c \in Callbacks, JitCreate(c) PROVE TypeInv'
    <2>1. UserName(c) \in Names /\ Tenant(c) \in Tenants
      BY <1>10, TokenClaims DEF JitCreate
    <2>2. users' \subseteq [id : UserIds, tenant : Tenants, userName : Names]
      BY <1>10, <2>1 DEF JitCreate
    <2> QED BY <1>10, <2>2 DEF JitCreate
  <1>11. ASSUME NEW c \in Callbacks, CreateSession(c) PROVE TypeInv'
    <2>1. The(token[c]).grant.account.sub \in Names /\ Tenant(c) \in Tenants
      BY <1>11, TokenClaims DEF CreateSession
    <2>2. sessions' \subseteq [id : Callbacks, tenant : Tenants, user : UserIds, subject : Names]
      BY <1>11, <2>1 DEF CreateSession
    <2> QED BY <1>11, <2>2 DEF CreateSession
  <1>12. ASSUME NEW c \in Callbacks, Abort(c) PROVE TypeInv'
    BY <1>12 DEF Abort
  <1>13. ASSUME NEW s \in Syncs, NEW t \in Tenants, NEW n \in SyncNames, ScimCreate(s, t, n)
         PROVE TypeInv'
    <2>1. n \in Names
      BY DEF SyncNames
    <2> QED BY <1>13, <2>1 DEF ScimCreate
  <1>14. ASSUME NEW u \in users, ScimDelete(u) PROVE TypeInv'
    BY <1>14 DEF ScimDelete
  <1>15. ASSUME NEW s \in Syncs, NEW u \in users, NEW n \in Names, ScimRename(s, u, n)
         PROVE  TypeInv'
    BY <1>15 DEF ScimRename
  <1>16. CASE Tick
    BY <1>16 DEF Tick
  <1>17. CASE Rotate
    BY <1>17 DEF Rotate
  <1>18. CASE UNCHANGED vars
    BY <1>18 DEF vars
  <1> QED BY <1>1, <1>2, <1>3, <1>4, <1>5, <1>6, <1>7, <1>8, <1>9, <1>10, <1>11, <1>12, <1>13,
             <1>14, <1>15, <1>16, <1>17, <1>18 DEF Next, Step, Finished

(* The tables, callbacks and histories keep their types, and every session *)
(* has a subject: callback refuses a token without a sub.                  *)
THEOREM TypeCorrect == Spec => []TypeOK
  <1>1. TypeInv => TypeOK
    BY DEF TypeInv
  <1> QED BY TypeInvInit, TypeInvStep, <1>1, PTL DEF Spec

-----------------------------------------------------------------------------
(* A callback's query, pending request and token are set once.             *)
LEMMA SetOnce ==
  ASSUME TypeInv, [Next]_vars, NEW c \in Callbacks
  PROVE  /\ pc[c] # "new" => query'[c] = query[c]
         /\ pending[c] # {} => query'[c] = query[c] /\ pending'[c] = pending[c]
         /\ token[c] # {} => query'[c] = query[c] /\ token'[c] = token[c]
  <1>1. /\ query \in [Callbacks -> SUBSET [tenant : Tenants, code : Codes, state : Logins]]
        /\ pending \in [Callbacks -> SUBSET Requests] /\ token \in [Callbacks -> SUBSET Tokens]
        /\ HandlerOrder
    BY DEF TypeInv, TypeOK
  <1> USE <1>1 DEF HandlerOrder, idp, tables, local, hist, Goto, Answer
  <1>2. ASSUME NEW d \in Callbacks, Step(d) \/ Abort(d)
        PROVE  /\ UNCHANGED query
               /\ pending[c] # {} => pending'[c] = pending[c]
               /\ token[c] # {} => token'[c] = token[c]
    BY <1>2 DEF Step, Abort, TakeSelect, TakeDelete, CheckPending, ExchangeCode, Verify, JitFind,
       JitCreate, CreateSession
  <1>3. ASSUME NEW d \in Callbacks, NEW t, NEW g, NEW s, Arrive(d, t, g, s)
        PROVE  UNCHANGED <<pending, token>> /\ pc[d] = "new" /\ (d # c => query'[c] = query[c])
    BY <1>3 DEF Arrive
  <1>4. CASE \/ \E t \in Tenants, r \in Logins : Login(t, r)
             \/ \E k \in Codes, s \in started, a \in Accounts : Authorize(k, s, a)
             \/ \E s \in Syncs, t \in Tenants, n \in SyncNames : ScimCreate(s, t, n)
             \/ \E u \in users : ScimDelete(u)
             \/ \E s \in Syncs, u \in users, n \in Names : ScimRename(s, u, n)
             \/ Rotate \/ Tick \/ UNCHANGED vars
    BY <1>4 DEF Login, Authorize, ScimCreate, ScimDelete, ScimRename, Rotate, Tick, vars
  <1> QED BY <1>2, <1>3, <1>4 DEF Next, Finished

(* The life of a pending login.  A row was started for its tenant, a       *)
(* callback holds the row of its state, and once a DELETE has run no row   *)
(* of that state can come back: login draws a fresh state.                 *)
Owns(c) ==
  /\ pending[c] # {}
  /\ The(pending[c]).login = The(query[c]).state
  /\ [login |-> The(pending[c]).login, tenant |-> The(pending[c]).tenant] \in started

RequestLife ==
  /\ \A row \in oidcRequests : [login |-> row.login, tenant |-> row.tenant] \in started
  /\ \A c \in Callbacks : pending[c] # {} => Owns(c)
  /\ \A c \in consumed : pending[c] # {}
  /\ \A c \in consumed : \A row \in oidcRequests : row.login # The(query[c]).state
  /\ \A c \in Callbacks : pc[c] \in Taken \ {"delete"} => c \in consumed
  /\ \A c \in Callbacks : pc[c] \in {"exchange"} \union Redeemed => The(pending[c]).tenant = Tenant(c)
  /\ \A s \in sessions : /\ s.id \in consumed /\ s.tenant = Tenant(s.id)
                         /\ The(pending[s.id]).tenant = s.tenant

RequestInv == TypeInv /\ RequestLife

LEMMA RequestInit == Init => RequestInv
  BY TypeInvInit DEF Init, RequestInv, RequestLife, Taken, Redeemed

LEMMA OwnsKept ==
  ASSUME TypeInv, [Next]_vars, NEW c \in Callbacks, pending[c] # {},
         started \subseteq started'
  PROVE  /\ Owns(c) => Owns(c)'
         /\ pending'[c] = pending[c] /\ query'[c] = query[c]
  BY SetOnce DEF Owns

(* A step that starts no login, takes no request and opens no session.     *)
LEMMA RequestFrame ==
  ASSUME RequestInv, [Next]_vars,
         UNCHANGED <<oidcRequests, pending, consumed, sessions, started>>,
         \A c \in Callbacks : pc'[c] \in Taken =>
           \/ pc[c] = pc'[c]
           \/ pc[c] \in {"exchange"} \union Redeemed /\ pc'[c] \in Redeemed
  PROVE  RequestLife'
  <1>1. \A c \in Callbacks : pending[c] # {} => (Owns(c) => Owns(c)') /\ query'[c] = query[c]
    BY OwnsKept DEF RequestInv
  <1>2. consumed \subseteq Callbacks /\ \A s \in sessions : s.id \in Callbacks
    BY DEF RequestInv, TypeInv, TypeOK
  <1>3. \A c \in Callbacks : pc[c] \in Taken => pending[c] # {}
    BY DEF RequestInv, TypeInv, HandlerOrder
  <1> QED BY <1>1, <1>2, <1>3 DEF RequestInv, RequestLife, Tenant, Taken, Redeemed

LEMMA RequestStep == RequestInv /\ [Next]_vars => RequestInv'
  <1> SUFFICES ASSUME RequestInv, [Next]_vars PROVE RequestLife'
    BY TypeInvStep DEF RequestInv
  <1>a. /\ pc \in [Callbacks -> Steps \union {"new", "done"}] /\ consumed \subseteq Callbacks
        /\ pending \in [Callbacks -> SUBSET Requests]
        /\ started \subseteq [login : Logins, tenant : Tenants]
        /\ \A s \in sessions : s.id \in Callbacks
        /\ RequestLife
    BY DEF RequestInv, TypeInv, TypeOK
  <1>b. ASSUME started \subseteq started', NEW c \in Callbacks, pending[c] # {}
        PROVE  /\ Owns(c)' /\ pending'[c] = pending[c] /\ query'[c] = query[c]
               /\ Tenant(c)' = Tenant(c)
    BY <1>a, <1>b, OwnsKept DEF RequestInv, RequestLife, Tenant
  <1>c. \A c \in Callbacks : pc[c] \in Taken => pending[c] # {}
    BY DEF RequestInv, TypeInv, HandlerOrder
  <1> USE <1>a DEF idp, tables, local, hist, Goto, Answer
  <1>1. ASSUME NEW t \in Tenants, NEW r \in Logins, Login(t, r) PROVE RequestLife'
    <2> DEFINE i == [login |-> r, tenant |-> t]
               row == [login |-> r, tenant |-> t, exp |-> now + RequestTTL]
    <2>1. /\ started' = started \union {i} /\ oidcRequests' = oidcRequests \union {row}
          /\ UNCHANGED <<pc, consumed, sessions, pending, query>>
          /\ \A j \in started : j.login # r
      BY <1>1 DEF Login
    <2>2. row.login = r /\ i = [login |-> row.login, tenant |-> row.tenant]
      OBVIOUS
    <2> HIDE DEF i, row
    <2>3. \A c \in consumed : Owns(c) /\ The(query[c]).state # r
      BY <2>1 DEF RequestLife, Owns
    <2>4. \A c \in Callbacks : pending[c] # {} => Owns(c)'
      BY <2>1, <1>b
    <2>5. \A x \in oidcRequests' : [login |-> x.login, tenant |-> x.tenant] \in started'
      BY <2>1, <2>2 DEF RequestLife
    <2>6. \A c \in consumed : \A x \in oidcRequests' : x.login # The(query[c]).state
      BY <2>1, <2>2, <2>3 DEF RequestLife
    <2> QED BY <2>1, <2>4, <2>5, <2>6 DEF RequestLife, Tenant
  <1>2. ASSUME NEW c \in Callbacks, TakeSelect(c) PROVE RequestLife'
    <2>1. /\ UNCHANGED <<oidcRequests, consumed, sessions, started, query>>
          /\ pc[c] = "select" /\ pc'[c] \in {"delete", "done"}
          /\ \A d \in Callbacks : d # c => pc'[d] = pc[d] /\ pending'[d] = pending[d]
          /\ \/ pending'[c] = pending[c]
             \/ \E row \in oidcRequests : row.login = The(query[c]).state /\ pending'[c] = {row}
      BY <1>2 DEF TakeSelect
    <2>2. pending[c] = {}
      BY <2>1 DEF RequestInv, TypeInv, HandlerOrder
    <2>3. c \notin consumed
      BY <2>2 DEF RequestLife
    <2>4. pending'[c] # {} => Owns(c)'
      <3> SUFFICES ASSUME pending'[c] # {} PROVE Owns(c)'
        OBVIOUS
      <3>1. PICK row \in oidcRequests : row.login = The(query[c]).state /\ pending'[c] = {row}
        BY <2>1, <2>2
      <3>2. The(pending'[c]) = row
        BY <3>1, TheOnly
      <3>3. [login |-> row.login, tenant |-> row.tenant] \in started
        BY DEF RequestLife
      <3> QED BY <2>1, <3>1, <3>2, <3>3 DEF Owns
    <2>5. \A d \in Callbacks : d # c => Owns(d)' = Owns(d) /\ Tenant(d)' = Tenant(d)
      BY <2>1 DEF Owns, Tenant
    <2> QED BY <2>1, <2>2, <2>3, <2>4, <2>5 DEF RequestLife, Taken, Redeemed
  <1>3. ASSUME NEW c \in Callbacks, TakeDelete(c) PROVE RequestLife'
    <2>1. /\ oidcRequests' = {row \in oidcRequests : row.login # The(query[c]).state}
          /\ consumed' = consumed \union {c} /\ UNCHANGED <<started, sessions, pending, query>>
          /\ pc[c] = "delete" /\ pc'[c] = "check"
          /\ \A d \in Callbacks : d # c => pc'[d] = pc[d]
      BY <1>3 DEF TakeDelete
    <2>2. pending[c] # {}
      BY <2>1, <1>c DEF Taken
    <2> QED BY <2>1, <2>2 DEF RequestLife, Owns, Tenant, Taken, Redeemed
  <1>4. ASSUME NEW c \in Callbacks, CheckPending(c) PROVE RequestLife'
    <2>1. /\ UNCHANGED <<oidcRequests, consumed, sessions, started, query, pending>>
          /\ pc[c] = "check"
          /\ \A d \in Callbacks : d # c => pc'[d] = pc[d]
          /\ pc'[c] = "done" \/ (pc'[c] = "exchange" /\ The(pending[c]).tenant = Tenant(c))
      BY <1>4 DEF CheckPending
    <2> QED BY <2>1 DEF RequestLife, Owns, Tenant, Taken, Redeemed
  <1>5. ASSUME NEW c \in Callbacks, CreateSession(c) PROVE RequestLife'
    <2> DEFINE s == [id |-> c, tenant |-> Tenant(c), user |-> user[c],
                     subject |-> The(token[c]).grant.account.sub]
    <2>1. /\ sessions' = sessions \union {s}
          /\ UNCHANGED <<oidcRequests, consumed, started, query, pending>>
          /\ pc[c] = "session" /\ pc'[c] = "done"
          /\ \A d \in Callbacks : d # c => pc'[d] = pc[d]
      BY <1>5 DEF CreateSession
    <2>2. s.id = c /\ s.tenant = Tenant(c)
      OBVIOUS
    <2> HIDE DEF s
    <2> QED BY <2>1, <2>2 DEF RequestLife, Owns, Tenant, Taken, Redeemed
  <1>6. ASSUME NEW c \in Callbacks, \/ \E t \in Tenants, g \in granted, s \in started : Arrive(c, t, g, s)
                                    \/ ExchangeCode(c) \/ Verify(c)
                                    \/ JitFind(c) \/ JitCreate(c) \/ Abort(c)
        PROVE  RequestLife'
    <2>1. /\ UNCHANGED <<oidcRequests, pending, consumed, sessions, started>>
          /\ \A d \in Callbacks : pc'[d] \in Taken =>
               \/ pc[d] = pc'[d]
               \/ pc[d] \in {"exchange"} \union Redeemed /\ pc'[d] \in Redeemed
      BY <1>6 DEF Arrive, ExchangeCode, Verify, JitFind, JitCreate, Abort, Taken, Redeemed
    <2> QED BY <2>1, RequestFrame
  <1>7. CASE \/ \E k \in Codes, s \in started, a \in Accounts : Authorize(k, s, a)
             \/ \E s \in Syncs, t \in Tenants, n \in SyncNames : ScimCreate(s, t, n)
             \/ \E u \in users : ScimDelete(u)
             \/ \E s \in Syncs, u \in users, n \in Names : ScimRename(s, u, n)
             \/ Rotate \/ Tick \/ UNCHANGED vars
    <2>1. UNCHANGED <<oidcRequests, pending, consumed, sessions, started, pc>>
      BY <1>7 DEF Authorize, ScimCreate, ScimDelete, ScimRename, Rotate, Tick, vars
    <2> QED BY <2>1, RequestFrame
  <1> QED BY <1>1, <1>2, <1>3, <1>4, <1>5, <1>6, <1>7 DEF Next, Step, Finished

(* TakeOIDCRequest: a callback that selects after another's DELETE of the  *)
(* same state has run is refused, whatever became of that other one.       *)
THEOREM LateCallbackTheorem == Spec => LateCallbackRefused
  <1> DEFINE Refused == \A c \in Callbacks, d \in consumed :
        pc[c] = "select" /\ The(query[c]).state = The(query[d]).state
          => pc'[c] \in {"select", "done"}
  <1>1. RequestInv /\ [Next]_vars => [Refused]_vars
    <2> SUFFICES ASSUME RequestInv, [Next]_vars, NEW c \in Callbacks, NEW d \in consumed,
                        pc[c] = "select", The(query[c]).state = The(query[d]).state
                 PROVE  pc'[c] \in {"select", "done"}
      OBVIOUS
    <2>1. pc \in [Callbacks -> Steps \union {"new", "done"}] /\ RequestLife
      BY DEF RequestInv, TypeInv, TypeOK
    <2>2. \A row \in oidcRequests : row.login # The(query[c]).state
      BY <2>1 DEF RequestLife
    <2> USE <2>1 DEF idp, tables, local, hist, Goto, Answer
    <2>3. ASSUME NEW r \in Callbacks,
                 \/ \E t \in Tenants, g \in granted, s \in started : Arrive(r, t, g, s)
                 \/ Step(r) \/ Abort(r)
          PROVE  pc'[c] \in {"select", "done"}
      <3>1. CASE r # c
        BY <2>3, <3>1 DEF Step, Arrive, TakeSelect, TakeDelete, CheckPending, ExchangeCode, Verify,
           JitFind, JitCreate, CreateSession, Abort
      <3>2. CASE r = c
        <4>1. TakeSelect(c) \/ Abort(c)
          BY <2>3, <3>2 DEF Step, Arrive, TakeDelete, CheckPending, ExchangeCode, Verify, JitFind,
             JitCreate, CreateSession
        <4> QED BY <4>1, <2>2 DEF TakeSelect, Abort
      <3> QED BY <3>1, <3>2
    <2>4. CASE \/ \E t \in Tenants, r \in Logins : Login(t, r)
               \/ \E k \in Codes, s \in started, a \in Accounts : Authorize(k, s, a)
               \/ \E s \in Syncs, t \in Tenants, n \in SyncNames : ScimCreate(s, t, n)
               \/ \E u \in users : ScimDelete(u)
               \/ \E s \in Syncs, u \in users, n \in Names : ScimRename(s, u, n)
               \/ Rotate \/ Tick \/ UNCHANGED vars
      BY <2>4 DEF Login, Authorize, ScimCreate, ScimDelete, ScimRename, Rotate, Tick, vars
    <2> QED BY <2>3, <2>4 DEF Next, Finished
  <1> QED BY RequestInit, RequestStep, <1>1, PTL DEF Spec, LateCallbackRefused

-----------------------------------------------------------------------------
(* The life of a code.  The provider redeems it once: a grant behind a     *)
(* token is gone, and no two callbacks hold tokens of one grant.           *)
Grant(c) == The(token[c]).grant

Redeems(c) ==
  /\ token[c] # {}
  /\ Grant(c) \in granted \ grants /\ Grant(c).code = The(query[c]).code

GrantLife ==
  /\ grants \subseteq granted
  /\ \A g, h \in granted : g.code = h.code => g = h
  /\ \A c \in Callbacks : token[c] # {} => Redeems(c)
  /\ \A c, d \in Callbacks : token[c] # {} /\ token[d] # {} /\ Grant(c) = Grant(d) => c = d
  /\ \A c \in Callbacks : pc[c] \in Verified => Grant(c).login = The(pending[c]).login
  /\ \A s \in sessions :
       /\ pc[s.id] = "done" /\ token[s.id] # {} /\ pending[s.id] # {}
       /\ Grant(s.id).login = The(pending[s.id]).login
       /\ s.subject = Grant(s.id).account.sub
  /\ \A s, u \in sessions : s.id = u.id => s = u

GrantInv == TypeInv /\ GrantLife

LEMMA GrantInit == Init => GrantInv
  BY TypeInvInit DEF Init, GrantInv, GrantLife, Verified

(* A step that touches no code and opens no session.                       *)
LEMMA GrantFrame ==
  ASSUME GrantInv, [Next]_vars, UNCHANGED <<grants, granted, token, sessions>>,
         \A c \in Callbacks : pc[c] = "done" => pc'[c] = "done",
         \A c \in Callbacks : pc'[c] \in Verified =>
           pending[c] # {} /\ Grant(c).login = The(pending[c]).login
  PROVE  GrantLife'
  <1>1. \A c \in Callbacks : /\ token[c] # {} => query'[c] = query[c]
                             /\ pending[c] # {} => pending'[c] = pending[c]
    BY SetOnce DEF GrantInv
  <1>2. \A s \in sessions : s.id \in Callbacks
    BY DEF GrantInv, TypeInv, TypeOK
  <1> QED BY <1>1, <1>2 DEF GrantInv, GrantLife, Redeems, Grant

LEMMA GrantStep == GrantInv /\ [Next]_vars => GrantInv'
  <1> SUFFICES ASSUME GrantInv, [Next]_vars PROVE GrantLife'
    BY TypeInvStep DEF GrantInv
  <1>a. /\ pc \in [Callbacks -> Steps \union {"new", "done"}]
        /\ token \in [Callbacks -> SUBSET Tokens]
        /\ \A s \in sessions : s.id \in Callbacks
        /\ GrantLife
    BY DEF GrantInv, TypeInv, TypeOK
  <1>b. \A c \in Callbacks : /\ pc[c] \in Taken => pending[c] # {}
                             /\ pc[c] \in Redeemed => token[c] # {}
    BY DEF GrantInv, TypeInv, HandlerOrder
  <1> USE <1>a DEF idp, tables, local, hist, Goto, Answer
  <1>1. ASSUME NEW k \in Codes, NEW s \in started, NEW a \in Accounts, Authorize(k, s, a)
        PROVE  GrantLife'
    <2> DEFINE g == [code |-> k, login |-> s.login, aud |-> ClientId[s.tenant],
                     iss |-> Issuer[s.tenant], account |-> a]
    <2>1. /\ grants' = grants \union {g} /\ granted' = granted \union {g}
          /\ \A h \in granted : h.code # k
          /\ UNCHANGED <<pc, query, pending, token, sessions>>
      BY <1>1 DEF Authorize
    <2>2. g.code = k
      OBVIOUS
    <2> HIDE DEF g
    <2>3. g \notin granted
      BY <2>1, <2>2
    <2>4. \A c \in Callbacks : token[c] # {} => Redeems(c)'
      BY <2>1, <2>3 DEF GrantLife, Redeems, Grant
    <2>5. \A x, y \in granted' : x.code = y.code => x = y
      BY <2>1, <2>2 DEF GrantLife
    <2> QED BY <2>1, <2>4, <2>5 DEF GrantLife, Grant
  <1>2. ASSUME NEW c \in Callbacks, ExchangeCode(c) PROVE GrantLife'
    <2>0. pc[c] = "exchange" /\ token[c] = {}
      BY <1>2 DEF ExchangeCode, GrantInv, TypeInv, HandlerOrder
    <2>1. CASE UNCHANGED <<grants, token>> /\ Answer(c, "badGateway")
      <3>1. /\ UNCHANGED <<grants, granted, token, sessions>>
            /\ \A d \in Callbacks : pc[d] = "done" => pc'[d] = "done"
            /\ \A d \in Callbacks : pc'[d] \in Verified => pc[d] = pc'[d]
        BY <1>2, <2>1 DEF ExchangeCode, Verified
      <3> QED BY <3>1, <1>b, GrantFrame DEF GrantLife, Verified, Taken
    <2>2. CASE \E g \in grants :
                 /\ g.code = The(query[c]).code
                 /\ grants' = grants \ {g}
                 /\ token' = [token EXCEPT ![c] =
                      {[grant |-> g, key |-> key, iat |-> now, exp |-> now + TokenTTL]}]
                 /\ Goto(c, "verify")
      <3>1. PICK g \in grants :
              /\ g.code = The(query[c]).code
              /\ grants' = grants \ {g}
              /\ token' = [token EXCEPT ![c] =
                   {[grant |-> g, key |-> key, iat |-> now, exp |-> now + TokenTTL]}]
              /\ Goto(c, "verify")
        BY <2>2
      <3>2. /\ UNCHANGED <<granted, query, pending, sessions>>
            /\ pc'[c] = "verify"
            /\ \A d \in Callbacks : d # c => pc'[d] = pc[d] /\ token'[d] = token[d]
        BY <1>2, <3>1 DEF ExchangeCode
      <3>3. The(token'[c]).grant = g /\ token'[c] # {}
        <4> DEFINE tok == [grant |-> g, key |-> key, iat |-> now, exp |-> now + TokenTTL]
        <4>1. token'[c] = {tok} /\ tok.grant = g
          BY <3>1
        <4> HIDE DEF tok
        <4>2. The({tok}) = tok
          BY TheOnly
        <4> QED BY <4>1, <4>2
      <3>4. g \in granted /\ g \notin grants'
        BY <3>1 DEF GrantLife
      <3>5. \A d \in Callbacks : d # c /\ token[d] # {} => Grant(d) # g /\ Redeems(d)'
        BY <3>1, <3>2, <3>4 DEF GrantLife, Redeems, Grant
      <3>6. Redeems(c)'
        BY <3>1, <3>2, <3>3, <3>4 DEF Redeems, Grant
      <3>7. \A d, e \in Callbacks :
              token'[d] # {} /\ token'[e] # {} /\ Grant(d)' = Grant(e)' => d = e
        BY <3>2, <3>3, <3>5 DEF GrantLife, Grant
      <3>8. \A s \in sessions : s.id # c
        BY <2>0 DEF GrantLife
      <3>9. \A d \in Callbacks : token'[d] # {} => Redeems(d)'
        BY <3>2, <3>5, <3>6
      <3>10. grants' \subseteq granted
        BY <3>1 DEF GrantLife
      <3>11. \A d \in Callbacks : pc'[d] \in Verified => Grant(d)' = Grant(d) /\ pc[d] \in Verified
        BY <3>2 DEF Grant, Verified
      <3>12. \A s \in sessions : pc'[s.id] = pc[s.id] /\ token'[s.id] = token[s.id]
                                 /\ Grant(s.id)' = Grant(s.id)
        BY <3>2, <3>8 DEF Grant
      <3> QED BY <3>2, <3>7, <3>9, <3>10, <3>11, <3>12 DEF GrantLife
    <2> QED BY <1>2, <2>1, <2>2 DEF ExchangeCode
  <1>3. ASSUME NEW c \in Callbacks, Verify(c) PROVE GrantLife'
    <2>1. /\ UNCHANGED <<grants, granted, token, sessions>>
          /\ pc[c] = "verify"
          /\ \A d \in Callbacks : d # c => pc'[d] = pc[d]
          /\ pc'[c] = "done" \/ (pc'[c] = "find" /\ Grant(c).login = The(pending[c]).login)
      BY <1>3 DEF Verify, VerifyIDToken, Grant
    <2> QED BY <2>1, <1>b, GrantFrame DEF GrantLife, Verified, Taken
  <1>4. ASSUME NEW c \in Callbacks, CreateSession(c) PROVE GrantLife'
    <2> DEFINE s == [id |-> c, tenant |-> Tenant(c), user |-> user[c],
                     subject |-> The(token[c]).grant.account.sub]
    <2>1. /\ sessions' = sessions \union {s}
          /\ UNCHANGED <<grants, granted, token, query, pending>>
          /\ pc[c] = "session" /\ pc'[c] = "done"
          /\ \A d \in Callbacks : d # c => pc'[d] = pc[d]
      BY <1>4 DEF CreateSession
    <2>2. s.id = c /\ s.subject = Grant(c).account.sub
      BY DEF Grant
    <2> HIDE DEF s
    <2>3. \A u \in sessions : u.id # c
      BY <2>1 DEF GrantLife
    <2>4. token[c] # {} /\ pending[c] # {} /\ Grant(c).login = The(pending[c]).login
      BY <2>1, <1>b DEF GrantLife, Verified, Taken, Redeemed
    <2>5. \A u \in sessions' :
            /\ pc'[u.id] = "done" /\ token[u.id] # {} /\ pending[u.id] # {}
            /\ Grant(u.id).login = The(pending[u.id]).login
            /\ u.subject = Grant(u.id).account.sub
      BY <2>1, <2>2, <2>3, <2>4 DEF GrantLife
    <2>6. \A u, v \in sessions' : u.id = v.id => u = v
      BY <2>1, <2>2, <2>3 DEF GrantLife
    <2> QED BY <2>1, <2>5, <2>6 DEF GrantLife, Redeems, Grant, Verified
  <1>5. ASSUME NEW c \in Callbacks, \/ \E t \in Tenants, g \in granted, s \in started : Arrive(c, t, g, s)
                                    \/ TakeSelect(c) \/ TakeDelete(c) \/ CheckPending(c)
                                    \/ JitFind(c) \/ JitCreate(c) \/ Abort(c)
        PROVE  GrantLife'
    <2>1. /\ UNCHANGED <<grants, granted, token, sessions>>
          /\ \A d \in Callbacks : pc[d] = "done" => pc'[d] = "done"
          /\ \A d \in Callbacks : pc'[d] \in Verified => pc[d] \in Verified
      BY <1>5 DEF Arrive, TakeSelect, TakeDelete, CheckPending, JitFind, JitCreate, Abort,
                  Verified, Steps
    <2> QED BY <2>1, <1>b, GrantFrame DEF GrantLife, Verified, Taken
  <1>6. CASE \/ \E t \in Tenants, r \in Logins : Login(t, r)
             \/ \E s \in Syncs, t \in Tenants, n \in SyncNames : ScimCreate(s, t, n)
             \/ \E u \in users : ScimDelete(u)
             \/ \E s \in Syncs, u \in users, n \in Names : ScimRename(s, u, n)
             \/ Rotate \/ Tick \/ UNCHANGED vars
    <2>1. UNCHANGED <<grants, granted, token, sessions, pc>>
      BY <1>6 DEF Login, ScimCreate, ScimDelete, ScimRename, Rotate, Tick, vars
    <2> QED BY <2>1, <1>b, GrantFrame DEF GrantLife, Verified, Taken
  <1> QED BY <1>1, <1>2, <1>3, <1>4, <1>5, <1>6 DEF Next, Step, Finished

(* ExchangeCode: an authorization code never opens two sessions, although  *)
(* overlapping callbacks can both take its pending request.                *)
THEOREM OneSessionTheorem == Spec => []OneSessionPerCode
  <1>1. GrantInv => OneSessionPerCode
    <2> SUFFICES ASSUME GrantInv, NEW s \in sessions, NEW u \in sessions,
                        The(query[s.id]).code = The(query[u.id]).code
                 PROVE  s = u
      BY DEF OneSessionPerCode
    <2>1. s.id \in Callbacks /\ u.id \in Callbacks
      BY DEF GrantInv, TypeInv, TypeOK
    <2>2. Redeems(s.id) /\ Redeems(u.id)
      BY <2>1 DEF GrantInv, GrantLife
    <2>3. Grant(s.id) = Grant(u.id)
      BY <2>2 DEF Redeems, GrantInv, GrantLife
    <2> QED BY <2>1, <2>2, <2>3 DEF Redeems, GrantInv, GrantLife
  <1> QED BY GrantInit, GrantStep, <1>1, PTL DEF Spec

-----------------------------------------------------------------------------
(* i is the ID of a user of tenant t or, if the directory has deleted the  *)
(* user since, can never be another's: a callback and a sync each create   *)
(* at most one user, and a rename keeps the ID and the tenant.             *)
Owner(i, t) ==
  /\ i \in Callbacks => token[i] # {} /\ Tenant(i) = t /\ pc[i] \in {"session", "done"}
  /\ i \in Syncs => i \in synced
  /\ \A u \in users : u.id = i => u.tenant = t

(* The user of callback c is its tenant's and of its account's name,       *)
(* unless it has been renamed since c looked it up.                        *)
Known(c) ==
  /\ token[c] # {} /\ Owner(user[c], Tenant(c))
  /\ \A u \in users : u.id = user[c] => u.userName = UserName(c) \/ c \in renamed

UserOwners ==
  /\ \A u \in users : Owner(u.id, u.tenant)
  /\ \A u, v \in users : u.id = v.id => u = v
  /\ \A c \in Callbacks : pc[c] = "session" => Known(c)
  /\ \A s \in sessions :
       /\ s.tenant = Tenant(s.id) /\ s.user = user[s.id]
       /\ pc[s.id] = "done" /\ Known(s.id)

UserInv == TypeInv /\ UserOwners

LEMMA UserInit == Init => UserInv
  BY TypeInvInit DEF Init, UserInv, UserOwners

\* A redeemed callback keeps its tenant and its name.
LEMMA NameKept ==
  ASSUME TypeInv, [Next]_vars, NEW c \in Callbacks, token[c] # {}
  PROVE  token'[c] # {} /\ Tenant(c)' = Tenant(c) /\ UserName(c)' = UserName(c)
  BY SetOnce DEF Tenant, UserName

\* A user row that is new has an ID no callback or session refers to yet.
LEMMA OwnerKept ==
  ASSUME TypeInv, [Next]_vars, synced \subseteq synced', renamed \subseteq renamed',
         \A q \in Callbacks : pc[q] \in {"session", "done"} => pc'[q] \in {"session", "done"},
         \A u \in users' \ users :
           \/ u.id \in Callbacks /\ pc[u.id] \notin {"session", "done"}
           \/ u.id \in Syncs \ synced
  PROVE  /\ \A i, t : Owner(i, t) => Owner(i, t)'
         /\ \A q \in Callbacks : Known(q) /\ user'[q] = user[q] => Known(q)'
  <1>1. ASSUME NEW i, NEW t, Owner(i, t)
        PROVE  Owner(i, t)' /\ \A u \in users' : u.id = i => u \in users
    <2>1. i \in Callbacks => token'[i] # {} /\ Tenant(i)' = t
      BY <1>1, NameKept DEF Owner
    <2> QED BY <1>1, <2>1 DEF Owner
  <1>2. ASSUME NEW q \in Callbacks, Known(q), user'[q] = user[q] PROVE Known(q)'
    <2>1. token'[q] # {} /\ Tenant(q)' = Tenant(q) /\ UserName(q)' = UserName(q)
      BY <1>2, NameKept DEF Known
    <2>2. PICK i, t : i = user[q] /\ t = Tenant(q)
      OBVIOUS
    <2>3. Owner(i, t)' /\ \A u \in users' : u.id = i => u \in users
      BY <1>1, <1>2, <2>2 DEF Known
    <2>4. Owner(user[q], Tenant(q))'
      BY <1>2, <2>1, <2>2, <2>3
    <2> QED BY <1>2, <2>1, <2>2, <2>3, <2>4 DEF Known
  <1> QED BY <1>1, <1>2

LEMMA UserStep == UserInv /\ [Next]_vars => UserInv'
  <1> SUFFICES ASSUME UserInv, [Next]_vars PROVE UserOwners'
    BY TypeInvStep DEF UserInv
  <1>a. /\ pc \in [Callbacks -> Steps \union {"new", "done"}] /\ user \in [Callbacks -> UserIds]
        /\ users \subseteq [id : UserIds, tenant : Tenants, userName : Names]
        /\ sessions \subseteq [id : Callbacks, tenant : Tenants, user : UserIds, subject : Names]
        /\ UserOwners /\ TypeInv
    BY DEF UserInv, TypeInv, TypeOK
  <1>b. \A c \in Callbacks : pc[c] \in Verified => token[c] # {}
    BY DEF UserInv, TypeInv, HandlerOrder, Verified, Redeemed
  <1>c. \A c \in Callbacks : token[c] # {} =>
          token'[c] # {} /\ Tenant(c)' = Tenant(c) /\ UserName(c)' = UserName(c)
    BY NameKept DEF UserInv
  <1> USE <1>a DEF idp, tables, local, hist, Goto, Answer
  <1>d. ASSUME UNCHANGED sessions, \A s \in sessions : user'[s.id] = user[s.id],
               \A q \in Callbacks : pc[q] = "done" => pc'[q] = "done",
               \A q \in Callbacks : Known(q) /\ user'[q] = user[q] => Known(q)'
        PROVE  \A s \in sessions' :
                 /\ s.tenant = Tenant(s.id)' /\ s.user = user'[s.id]
                 /\ pc'[s.id] = "done" /\ Known(s.id)'
    <2> SUFFICES ASSUME NEW s \in sessions
                 PROVE  /\ s.tenant = Tenant(s.id)' /\ s.user = user'[s.id]
                        /\ pc'[s.id] = "done" /\ Known(s.id)'
      BY <1>d
    <2>1. /\ s.id \in Callbacks /\ s.tenant = Tenant(s.id) /\ s.user = user[s.id]
          /\ pc[s.id] = "done" /\ Known(s.id)
      BY DEF UserOwners
    <2>2. Tenant(s.id)' = Tenant(s.id)
      BY <1>c, <2>1 DEF Known
    <2> QED BY <1>d, <2>1, <2>2
  <1>e. ASSUME UNCHANGED <<user, sessions>>, users' \subseteq users, synced \subseteq synced',
               renamed \subseteq renamed',
               \A q \in Callbacks : pc'[q] = "session" => pc[q] = "session",
               \A q \in Callbacks : pc[q] = "session" => pc'[q] \in {"session", "done"},
               \A q \in Callbacks : pc[q] = "done" => pc'[q] = "done"
        PROVE  UserOwners'
    <2>1. /\ \A i, t : Owner(i, t) => Owner(i, t)'
          /\ \A q \in Callbacks : Known(q) /\ user'[q] = user[q] => Known(q)'
      BY <1>e, OwnerKept
    <2> QED BY <1>d, <1>e, <2>1 DEF UserOwners
  <1>1. ASSUME NEW c \in Callbacks, JitFind(c) PROVE UserOwners'
    <2>1. CASE pc'[c] # "session"
      <3>1. /\ UNCHANGED <<users, user, sessions, synced, renamed>>
            /\ \A q \in Callbacks : pc'[q] = "session" => pc[q] = "session"
            /\ \A q \in Callbacks : pc[q] = "session" => pc'[q] \in {"session", "done"}
            /\ \A q \in Callbacks : pc[q] = "done" => pc'[q] = "done"
        BY <1>1, <2>1 DEF JitFind
      <3> QED BY <3>1, <1>e
    <2>2. CASE pc'[c] = "session"
      <3>1. PICK u \in UsersNamed(Tenant(c), UserName(c)) : user' = [user EXCEPT ![c] = u.id]
        BY <1>1, <2>2 DEF JitFind
      <3>2. /\ UNCHANGED <<users, sessions, synced, renamed>> /\ pc[c] = "find"
            /\ \A q \in Callbacks : q # c => pc'[q] = pc[q] /\ user'[q] = user[q]
        BY <1>1, <3>1 DEF JitFind
      <3>3. /\ \A i, t : Owner(i, t) => Owner(i, t)'
            /\ \A q \in Callbacks : Known(q) /\ user'[q] = user[q] => Known(q)'
        <4>1. \A q \in Callbacks : pc[q] \in {"session", "done"} => pc'[q] \in {"session", "done"}
          BY <2>2, <3>2
        <4> QED BY <3>2, <4>1, OwnerKept
      <3>4. token'[c] # {} /\ Tenant(c)' = Tenant(c) /\ UserName(c)' = UserName(c)
        BY <3>2, <1>b, <1>c DEF Verified
      <3>5. Owner(u.id, u.tenant)' /\ u.tenant = Tenant(c) /\ user'[c] = u.id
        BY <3>1, <3>3 DEF UserOwners, UsersNamed
      <3>6. Known(c)'
        BY <3>1, <3>2, <3>4, <3>5 DEF Known, UserOwners, UsersNamed
      <3>7. \A s \in sessions : s.id # c
        BY <3>2 DEF UserOwners
      <3>8. \A s \in sessions' :
                 /\ s.tenant = Tenant(s.id)' /\ s.user = user'[s.id]
                 /\ pc'[s.id] = "done" /\ Known(s.id)'
        BY <1>d, <3>2, <3>3, <3>7
      <3> QED BY <3>2, <3>3, <3>6, <3>8 DEF UserOwners
    <2> QED BY <2>1, <2>2
  <1>2. ASSUME NEW c \in Callbacks, JitCreate(c) PROVE UserOwners'
    <2>1. CASE UsersNamed(Tenant(c), UserName(c)) # {}
      <3>1. /\ UNCHANGED <<users, user, sessions, synced, renamed>>
            /\ \A q \in Callbacks : pc'[q] = "session" => pc[q] = "session"
            /\ \A q \in Callbacks : pc[q] = "session" => pc'[q] \in {"session", "done"}
            /\ \A q \in Callbacks : pc[q] = "done" => pc'[q] = "done"
        BY <1>2, <2>1 DEF JitCreate
      <3> QED BY <3>1, <1>e
    <2>2. CASE UsersNamed(Tenant(c), UserName(c)) = {}
      <3> DEFINE row == [id |-> c, tenant |-> Tenant(c), userName |-> UserName(c)]
      <3>1. /\ users' = users \union {row} /\ UNCHANGED <<sessions, synced, renamed>>
            /\ \A q \in Callbacks : q # c => pc'[q] = pc[q] /\ user'[q] = user[q]
            /\ user'[c] = c /\ pc[c] = "create" /\ pc'[c] = "session"
        BY <1>2, <2>2 DEF JitCreate
      <3>2. row.id = c /\ row.tenant = Tenant(c) /\ row.userName = UserName(c)
        OBVIOUS
      <3> HIDE DEF row
      <3>3. \A u \in users : u.id # c
        BY <3>1 DEF UserOwners, Owner
      <3>4. token'[c] # {} /\ Tenant(c)' = Tenant(c) /\ UserName(c)' = UserName(c)
        BY <3>1, <1>b, <1>c DEF Verified
      <3>5. Owner(c, Tenant(c))' /\ Known(c)'
        BY <3>1, <3>2, <3>3, <3>4, IdAssumption DEF Owner, Known
      <3>6. /\ \A i, t : Owner(i, t) => Owner(i, t)'
            /\ \A q \in Callbacks : Known(q) /\ user'[q] = user[q] => Known(q)'
        <4>1. \A q \in Callbacks : pc[q] \in {"session", "done"} => pc'[q] \in {"session", "done"}
          BY <3>1
        <4> QED BY <3>1, <3>2, <4>1, OwnerKept
      <3>7. /\ \A u \in users' : Owner(u.id, u.tenant)'
            /\ \A u, v \in users' : u.id = v.id => u = v
        BY <3>1, <3>2, <3>3, <3>4, <3>5, <3>6 DEF UserOwners
      <3>8. \A s \in sessions : s.id # c
        BY <3>1 DEF UserOwners
      <3>9. \A s \in sessions' :
                 /\ s.tenant = Tenant(s.id)' /\ s.user = user'[s.id]
                 /\ pc'[s.id] = "done" /\ Known(s.id)'
        BY <1>d, <3>1, <3>6, <3>8
      <3> QED BY <3>1, <3>5, <3>6, <3>7, <3>9 DEF UserOwners
    <2> QED BY <2>1, <2>2
  <1>3. ASSUME NEW c \in Callbacks, CreateSession(c) PROVE UserOwners'
    <2> DEFINE s == [id |-> c, tenant |-> Tenant(c), user |-> user[c],
                     subject |-> The(token[c]).grant.account.sub]
    <2>1. /\ sessions' = sessions \union {s} /\ UNCHANGED <<users, user, synced, renamed>>
          /\ \A q \in Callbacks : q # c => pc'[q] = pc[q]
          /\ pc[c] = "session" /\ pc'[c] = "done"
      BY <1>3 DEF CreateSession
    <2>2. s.id = c /\ s.user = user[c] /\ s.tenant = Tenant(c)
      OBVIOUS
    <2> HIDE DEF s
    <2>3. /\ \A i, t : Owner(i, t) => Owner(i, t)'
          /\ \A q \in Callbacks : Known(q) /\ user'[q] = user[q] => Known(q)'
      <3>1. \A q \in Callbacks : pc[q] \in {"session", "done"} => pc'[q] \in {"session", "done"}
        BY <2>1
      <3> QED BY <2>1, <3>1, OwnerKept
    <2>4. \A q \in Callbacks : Known(q) => Tenant(q)' = Tenant(q)
      BY <1>c DEF Known
    <2> QED BY <2>1, <2>2, <2>3, <2>4 DEF UserOwners
  <1>4. ASSUME NEW s \in Syncs, NEW t \in Tenants, NEW n \in SyncNames, ScimCreate(s, t, n)
        PROVE  UserOwners'
    <2> DEFINE row == [id |-> s, tenant |-> t, userName |-> n]
    <2>1. /\ users' = users \union {row} /\ synced' = synced \union {s} /\ s \notin synced
          /\ UNCHANGED <<pc, user, sessions, renamed>>
      BY <1>4 DEF ScimCreate
    <2>2. row.id = s /\ row.tenant = t /\ row.userName = n
      OBVIOUS
    <2> HIDE DEF row
    <2>3. \A u \in users : u.id # s
      BY <2>1 DEF UserOwners, Owner
    <2>4. Owner(s, t)'
      BY <2>1, <2>2, <2>3, IdAssumption DEF Owner
    <2>5. /\ \A i, m : Owner(i, m) => Owner(i, m)'
          /\ \A q \in Callbacks : Known(q) /\ user'[q] = user[q] => Known(q)'
      BY <2>1, <2>2, OwnerKept
    <2>6. /\ \A u \in users' : Owner(u.id, u.tenant)'
          /\ \A u, v \in users' : u.id = v.id => u = v
      BY <2>1, <2>2, <2>3, <2>4, <2>5 DEF UserOwners
    <2> QED BY <1>d, <2>1, <2>5, <2>6 DEF UserOwners
  <1>5. ASSUME NEW s \in Syncs, NEW u \in users, NEW n \in Names, ScimRename(s, u, n)
        PROVE  UserOwners'
    <2> DEFINE row == [u EXCEPT !.userName = n]
    <2>1. /\ users' = (users \ {u}) \union {row} /\ synced' = synced \union {s}
          /\ renamed' = renamed \union
               {c \in Callbacks : pc[c] \in {"session", "done"} /\ user[c] = u.id}
          /\ UNCHANGED <<pc, user, sessions, token, query>>
      BY <1>5 DEF ScimRename
    <2>2. row.id = u.id /\ row.tenant = u.tenant
      OBVIOUS
    <2> HIDE DEF row
    <2>3. \A i, t : Owner(i, t) => Owner(i, t)'
      BY <2>1, <2>2 DEF Owner, Tenant
    <2>4. ASSUME NEW q \in Callbacks, Known(q), pc[q] \in {"session", "done"}
          PROVE  Known(q)'
      <3>1. Tenant(q)' = Tenant(q) /\ UserName(q)' = UserName(q) /\ token'[q] # {}
        BY <1>c, <2>4 DEF Known
      <3>2. Owner(user[q], Tenant(q))'
        <4>1. PICK i, t : i = user[q] /\ t = Tenant(q)
          OBVIOUS
        <4>2. Owner(i, t)'
          BY <2>3, <2>4, <4>1 DEF Known
        <4> QED BY <2>1, <3>1, <4>1, <4>2
      <3>3. CASE user[q] = u.id
        BY <2>1, <2>4, <3>1, <3>2, <3>3 DEF Known
      <3>4. CASE user[q] # u.id
        BY <2>1, <2>2, <2>4, <3>1, <3>2, <3>4 DEF Known
      <3> QED BY <3>3, <3>4
    <2>5. /\ \A v \in users' : Owner(v.id, v.tenant)'
          /\ \A v, w \in users' : v.id = w.id => v = w
      BY <2>1, <2>2, <2>3 DEF UserOwners
    <2>6. \A q \in Callbacks : Known(q) => Tenant(q)' = Tenant(q)
      BY <1>c DEF Known
    <2> QED BY <2>1, <2>4, <2>5, <2>6 DEF UserOwners
  <1>6. ASSUME NEW c \in Callbacks, \/ \E t \in Tenants, g \in granted, s \in started : Arrive(c, t, g, s)
                                    \/ TakeSelect(c) \/ TakeDelete(c) \/ CheckPending(c)
                                    \/ ExchangeCode(c) \/ Verify(c) \/ Abort(c)
        PROVE  UserOwners'
    <2>1. /\ UNCHANGED <<users, user, sessions, synced, renamed>>
          /\ \A q \in Callbacks : pc'[q] = "session" => pc[q] = "session"
          /\ \A q \in Callbacks : pc[q] = "session" => pc'[q] \in {"session", "done"}
          /\ \A q \in Callbacks : pc[q] = "done" => pc'[q] = "done"
      BY <1>6 DEF Arrive, TakeSelect, TakeDelete, CheckPending, ExchangeCode, Verify, Abort, Steps
    <2> QED BY <2>1, <1>e
  <1>7. CASE \/ \E t \in Tenants, r \in Logins : Login(t, r)
             \/ \E k \in Codes, s \in started, a \in Accounts : Authorize(k, s, a)
             \/ \E u \in users : ScimDelete(u)
             \/ Rotate \/ Tick \/ UNCHANGED vars
    <2>1. UNCHANGED <<user, sessions, synced, renamed, pc>> /\ users' \subseteq users
      BY <1>7 DEF Login, Authorize, ScimDelete, Rotate, Tick, vars
    <2> QED BY <2>1, <1>e
  <1> QED BY <1>1, <1>2, <1>3, <1>4, <1>5, <1>6, <1>7 DEF Next, Step, Finished

(* callback: a session is of the login and the tenant it was started for   *)
(* and of the account that signed in for it, even when two tenants share a *)
(* provider and a client ID; its user is the tenant's, and of the          *)
(* account's name unless renamed since its lookup.                         *)
THEOREM OwnLoginTheorem == Spec => []SessionOfOwnLogin
  <1>1. RequestInv /\ GrantInv /\ UserInv => SessionOfOwnLogin
    <2> SUFFICES ASSUME RequestInv, GrantInv, UserInv, NEW s \in sessions
                 PROVE  /\ [login |-> The(query[s.id]).state, tenant |-> s.tenant] \in started
                        /\ \A row \in oidcRequests : row.login # The(query[s.id]).state
                        /\ \E g \in granted :
                             /\ g.code = The(query[s.id]).code
                             /\ g.login = The(query[s.id]).state
                             /\ g.account.sub = s.subject
                        /\ \A u \in users : u.id = s.user =>
                             u.tenant = s.tenant /\ (u.userName = UserName(s.id) \/ s.id \in renamed)
      BY DEF SessionOfOwnLogin
    <2>1. s.id \in Callbacks
      BY DEF RequestInv, TypeInv, TypeOK
    <2>2. s.id \in consumed /\ The(pending[s.id]).tenant = s.tenant /\ Owns(s.id)
      BY <2>1 DEF RequestInv, RequestLife
    <2>3. Redeems(s.id) /\ Grant(s.id).login = The(pending[s.id]).login
          /\ s.subject = Grant(s.id).account.sub
      BY <2>1 DEF GrantInv, GrantLife
    <2>4. Known(s.id) /\ s.user = user[s.id] /\ s.tenant = Tenant(s.id)
      BY DEF UserInv, UserOwners
    <2>5. \A row \in oidcRequests : row.login # The(query[s.id]).state
      BY <2>2 DEF RequestInv, RequestLife
    <2> QED BY <2>2, <2>3, <2>4, <2>5 DEF Owns, Redeems, Known, Owner
  <1> QED BY RequestInit, RequestStep, GrantInit, GrantStep, UserInit, UserStep, <1>1, PTL
          DEF Spec
=============================================================================

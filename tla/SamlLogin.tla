------------------------------ MODULE SamlLogin ------------------------------
(***************************************************************************)
(* SAML single sign-on of the gateway: internal/saml/sp.go (login, acs,    *)
(* jitProvisionUser), the checks of internal/saml/response.go, and the     *)
(* SQLite tables of internal/store they write.                             *)
(*                                                                         *)
(* store.Open allows one connection, so an SQL statement is one atomic     *)
(* step and the statements of two handlers interleave freely.  net/http    *)
(* runs every request in a goroutine of its own: a member of Posts is one  *)
(* POST /saml/{tenant}/acs and goes through its handler once.              *)
(***************************************************************************)
EXTENDS Integers, FiniteSets

CONSTANTS
  Tenants,        \* configured tenants
  Posts,          \* the POST /saml/{tenant}/acs requests
  Requests,       \* AuthnRequest IDs BuildRedirectURL can draw
  NoRequest,      \* an assertion without InResponseTo (IdP-initiated)
  Syncs,          \* SCIM POST, PUT and PATCH calls of the directory sync
  Names,          \* NameIDs and user names
  NoId,           \* an assertion without an ID attribute
  Docs,           \* the signed responses browsers bring to the gateway
  IdPCerts,       \* IdPCerts[t]: signing certificates in t's IdP metadata
  ClockSkew,      \* sp.go:187, 2 minutes
  RequestTTL,     \* sp.go:143, 10 minutes
  TicksPerSecond, \* resolution of the clock; the tables hold it as text
  MaxTime         \* bound on the clock, for TLC

(***************************************************************************)
(* A response as ParseAndVerifyResponse reads it.  An optional attribute   *)
(* is a set of at most one element; a URL is the tenant whose SP it names. *)
(* complete: Subject, NameID, SubjectConfirmationData, Conditions,         *)
(* NotOnOrAfter and AudienceRestriction are present and well formed.       *)
(***************************************************************************)
IsDoc(d) ==
  /\ d.inResponseTo \in Requests \union {NoRequest}
  /\ d.nameID \in Names
  /\ d.destination \subseteq Tenants
  /\ d.recipient \subseteq Tenants
  /\ d.audience \subseteq Tenants
  /\ d.scdNotOnOrAfter \subseteq Nat
  /\ d.notBefore \subseteq Nat
  /\ d.notOnOrAfter \in Nat
  /\ d.complete \in BOOLEAN

ASSUME DocsAssumption == \A d \in Docs : IsDoc(d)

\* SAML core 1.3.4: an IdP gives no two assertions one ID.  notOnOrAfter is
\* what attrValue reads: this also says that the Conditions of a signed
\* assertion have no second entry of that local name, see XmlSignature.
ASSUME IdAssumption ==
  \A d, e \in Docs : d.id = e.id /\ d.id # NoId => d.notOnOrAfter = e.notOnOrAfter

ASSUME TimeAssumption ==
  /\ ClockSkew \in Nat /\ RequestTTL \in Nat /\ MaxTime \in Nat
  /\ TicksPerSecond \in {1, 2, 5, 10}

ASSUME NameAssumption ==
  NoRequest \notin Requests /\ Posts \intersect Syncs = {}

VARIABLES
  now,          \* the clock
  samlRequests, \* table saml_requests
  used,         \* table used_saml_assertions
  users,        \* table users
  sessions,     \* table sessions
  pc,           \* pc[p]: the next statement of handler p
  tenant,       \* tenant[p]: the {tenant} of p's path
  doc,          \* doc[p]: the SAMLResponse p carries
  at,           \* at[p]: the clock at p's verification, from its INSERT on at that
  takenExp,     \* takenExp[p]: expires_at read by TakeSAMLRequest
  user,         \* user[p]: the ID of the user jitProvisionUser returned
  resp,         \* resp[p]: the HTTP answer of p
  issued,       \* history: the AuthnRequests sent, with their tenant
  accepted,     \* history: the posts MarkAssertionUsed let pass
  consumed,     \* history: the posts whose DELETE of the request has run
  renamed,      \* history: the posts whose user has been renamed since its lookup
  synced        \* the Syncs that have run

tables  == <<samlRequests, used, users, sessions>>
input   == <<tenant, doc>>
local   == <<at, takenExp, user>>
history == <<issued, accepted, consumed, renamed>>
vars    == <<now, tables, pc, input, local, resp, history, synced>>

UserIds == Posts \union Syncs

Steps == {"verify", "purge", "insert", "select", "consume", "expiry", "find",
          "create", "session"}

Responses == {"none", "forbidden", "replayed", "refused", "conflict", "error", "ok"}

\* The key of an assertion in used_saml_assertions.
Key(p) == <<tenant[p], doc[p].id>>

(***************************************************************************)
(* Timestamps are stored as time.RFC3339Nano text, which drops trailing    *)
(* zeros of the fraction, and compared by SQLite as text: "05.5Z" sorts    *)
(* before "05Z".                                                           *)
(***************************************************************************)
Second(t)   == t \div TicksPerSecond
Fraction(t) == t % TicksPerSecond

TextLess(a, b) ==
  \/ Second(a) < Second(b)
  \/ /\ Second(a) = Second(b)
     /\ Fraction(a) # 0
     /\ Fraction(b) = 0 \/ Fraction(a) < Fraction(b)

\* ParseAndVerifyResponse under one of tenant t's certificates, at time n.
ParseAndVerifyResponse(d, t, n) ==
  /\ d.signer \in IdPCerts[t]
  /\ d.destination \subseteq {t}
  /\ d.complete
  /\ d.recipient \subseteq {t}
  /\ \A x \in d.scdNotOnOrAfter : n <= x + ClockSkew
  /\ \A x \in d.notBefore : n + ClockSkew >= x
  /\ n <= d.notOnOrAfter + ClockSkew
  /\ t \in d.audience

Init ==
  /\ now = 0
  /\ samlRequests = {} /\ used = {} /\ users = {} /\ sessions = {}
  /\ pc = [p \in Posts |-> "new"]
  /\ tenant \in [Posts -> Tenants]
  /\ doc \in [Posts -> Docs]
  /\ at = [p \in Posts |-> 0]
  /\ takenExp = [p \in Posts |-> 0]
  /\ user = [p \in Posts |-> p]
  /\ resp = [p \in Posts |-> "none"]
  /\ issued = {} /\ accepted = {} /\ consumed = {} /\ renamed = {} /\ synced = {}

Goto(p, step) == pc' = [pc EXCEPT ![p] = step] /\ UNCHANGED resp

Answer(p, r) == pc' = [pc EXCEPT ![p] = "done"] /\ resp' = [resp EXCEPT ![p] = r]

-----------------------------------------------------------------------------
(* GET /saml/{tenant}/login: a fresh AuthnRequest ID, sent and recorded.   *)
Login(t, r) ==
  /\ \A i \in issued : i.id # r
  /\ issued' = issued \union {[id |-> r, tenant |-> t]}
  /\ samlRequests' = samlRequests \union {[id |-> r, tenant |-> t, exp |-> now + RequestTTL]}
  /\ UNCHANGED <<now, used, users, sessions, pc, input, local, resp, accepted, consumed,
                 renamed, synced>>

(* POST /saml/{tenant}/acs arrives, with whatever response it carries.     *)
Arrive(p) ==
  /\ pc[p] = "new"
  /\ Goto(p, "verify")
  /\ UNCHANGED <<now, tables, input, local, history, synced>>

\* Mutant: the missing-ID check of acs is dropped.
AcsVerifyNoIdCheck(p) ==
  /\ pc[p] = "verify"
  /\ IF ParseAndVerifyResponse(doc[p], tenant[p], now)
       THEN Goto(p, "purge") /\ at' = [at EXCEPT ![p] = now]
       ELSE Answer(p, "forbidden") /\ UNCHANGED at
  /\ UNCHANGED <<now, tables, input, takenExp, user, history, synced>>

(* The certificate loop and the missing-ID check.                          *)
AcsVerify(p) ==
  /\ pc[p] = "verify"
  /\ IF ParseAndVerifyResponse(doc[p], tenant[p], now) /\ doc[p].id # NoId
       THEN Goto(p, "purge") /\ at' = [at EXCEPT ![p] = now]
       ELSE Answer(p, "forbidden") /\ UNCHANGED at
  /\ UNCHANGED <<now, tables, input, takenExp, user, history, synced>>

(* MarkAssertionUsed, first statement.  Its cutoff is the clock read some  *)
(* time after verification and before the statement runs.                  *)
MarkPurge(p) ==
  /\ pc[p] = "purge"
  /\ \E cutoff \in at[p] .. now :
       used' = {row \in used : ~TextLess(row.exp, cutoff)}
  /\ Goto(p, "insert")
  /\ UNCHANGED <<now, samlRequests, users, sessions, input, local, history, synced>>

\* Mutant: INSERT OR REPLACE, so a second insert of a key is no error.
MarkInsertOrReplace(p) ==
  /\ pc[p] = "insert"
  /\ used' = {row \in used : row.key # Key(p)}
              \union {[key |-> Key(p), exp |-> doc[p].notOnOrAfter]}
  /\ at' = [at EXCEPT ![p] = now]
  /\ accepted' = accepted \union {p}
  /\ Goto(p, "select")
  /\ UNCHANGED <<now, samlRequests, users, sessions, input, takenExp, user, issued, consumed,
                 renamed, synced>>

(* MarkAssertionUsed, INSERT: PRIMARY KEY (tenant_id, assertion_id).       *)
MarkInsert(p) ==
  /\ pc[p] = "insert"
  /\ IF \E row \in used : row.key = Key(p)
       THEN Answer(p, "replayed") /\ UNCHANGED <<used, at, accepted>>
       ELSE /\ used' = used \union {[key |-> Key(p), exp |-> doc[p].notOnOrAfter]}
            /\ at' = [at EXCEPT ![p] = now]
            /\ accepted' = accepted \union {p}
            /\ Goto(p, "select")
  /\ UNCHANGED <<now, samlRequests, users, sessions, input, takenExp, user, issued, consumed,
                 renamed, synced>>

\* Mutant: the SELECT looks the request up without its tenant.
PendingAnyTenant(p) == {row \in samlRequests : row.id = doc[p].inResponseTo}

\* The row TakeSAMLRequest's SELECT returns: by request ID and tenant.
Pending(p) ==
  {row \in samlRequests : row.id = doc[p].inResponseTo /\ row.tenant = tenant[p]}

(* TakeSAMLRequest, SELECT.  No row is an error only with an InResponseTo. *)
TakeSelect(p) ==
  /\ pc[p] = "select"
  /\ \/ /\ Pending(p) = {}
        /\ IF doc[p].inResponseTo = NoRequest THEN Goto(p, "find") ELSE Answer(p, "refused")
        /\ UNCHANGED takenExp
     \/ \E row \in Pending(p) :
          Goto(p, "consume") /\ takenExp' = [takenExp EXCEPT ![p] = row.exp]
  /\ UNCHANGED <<now, tables, input, at, user, history, synced>>

\* Mutant: the row is read but not deleted.
TakeWithoutDelete(p) ==
  /\ pc[p] = "consume"
  /\ consumed' = consumed \union {p}
  /\ Goto(p, "expiry")
  /\ UNCHANGED <<now, tables, input, local, issued, accepted, renamed, synced>>

(* TakeSAMLRequest, DELETE: by request ID alone.                           *)
TakeDelete(p) ==
  /\ pc[p] = "consume"
  /\ samlRequests' = {row \in samlRequests : row.id # doc[p].inResponseTo}
  /\ consumed' = consumed \union {p}
  /\ Goto(p, "expiry")
  /\ UNCHANGED <<now, used, users, sessions, input, local, issued, accepted, renamed, synced>>

(* TakeSAMLRequest, the expiry check on the row read earlier.              *)
TakeExpiry(p) ==
  /\ pc[p] = "expiry"
  /\ IF now > takenExp[p] THEN Answer(p, "refused") ELSE Goto(p, "find")
  /\ UNCHANGED <<now, tables, input, local, history, synced>>

\* Rows of the unique index (tenant_id, user_name).
UsersNamed(t, n) == {u \in users : u.tenant = t /\ u.userName = n}

(* jitProvisionUser, FindUserByUserName.                                   *)
JitFind(p) ==
  /\ pc[p] = "find"
  /\ \/ /\ UsersNamed(tenant[p], doc[p].nameID) = {}
        /\ Goto(p, "create")
        /\ UNCHANGED user
     \/ \E u \in UsersNamed(tenant[p], doc[p].nameID) :
          Goto(p, "session") /\ user' = [user EXCEPT ![p] = u.id]
  /\ UNCHANGED <<now, tables, input, at, takenExp, history, synced>>

(* jitProvisionUser, CreateUser: ErrConflict is answered with a 500.       *)
JitCreate(p) ==
  /\ pc[p] = "create"
  /\ IF UsersNamed(tenant[p], doc[p].nameID) # {}
       THEN Answer(p, "conflict") /\ UNCHANGED <<users, user>>
       ELSE /\ users' = users \union {[id |-> p, tenant |-> tenant[p], userName |-> doc[p].nameID]}
            /\ user' = [user EXCEPT ![p] = p]
            /\ Goto(p, "session")
  /\ UNCHANGED <<now, samlRequests, used, sessions, input, at, takenExp, history, synced>>

(* GroupsForUser (read only), CreateSession and the redirect.              *)
CreateSession(p) ==
  /\ pc[p] = "session"
  /\ sessions' = sessions \union
       {[id |-> p, tenant |-> tenant[p], user |-> user[p], subject |-> doc[p].nameID]}
  /\ Answer(p, "ok")
  /\ UNCHANGED <<now, samlRequests, used, users, input, local, history, synced>>

(* A statement fails (http.Error 500) or the process stops before it.      *)
Abort(p) ==
  /\ pc[p] \in Steps
  /\ Answer(p, "error")
  /\ UNCHANGED <<now, tables, input, local, history, synced>>

-----------------------------------------------------------------------------
(* The directory sync: what SCIM POST, PUT, PATCH and DELETE of /Users do  *)
(* to IDs, tenants and user names.                                         *)
ScimCreate(s, t, n) ==
  /\ s \notin synced
  /\ UsersNamed(t, n) = {}
  /\ users' = users \union {[id |-> s, tenant |-> t, userName |-> n]}
  /\ synced' = synced \union {s}
  /\ UNCHANGED <<now, samlRequests, used, sessions, pc, input, local, resp, history>>

ScimDelete(u) ==
  /\ users' = users \ {u}
  /\ UNCHANGED <<now, samlRequests, used, sessions, pc, input, local, resp, history, synced>>

(* ReplaceUser, called by PUT and PATCH, with another user name: the row   *)
(* keeps its ID and tenant, and the unique index refuses a name in use.    *)
ScimRename(s, u, n) ==
  /\ s \notin synced
  /\ UsersNamed(u.tenant, n) = {}
  /\ users' = (users \ {u}) \union {[u EXCEPT !.userName = n]}
  /\ renamed' = renamed \union
       {p \in Posts : pc[p] \in {"session", "done"} /\ user[p] = u.id}
  /\ synced' = synced \union {s}
  /\ UNCHANGED <<now, samlRequests, used, sessions, pc, input, local, resp, issued, accepted,
                 consumed>>

Tick ==
  /\ now < MaxTime
  /\ now' = now + 1
  /\ UNCHANGED <<tables, pc, input, local, resp, history, synced>>

\* Every request has been answered.
Finished ==
  /\ \A p \in Posts : pc[p] = "done"
  /\ UNCHANGED vars

Step(p) ==
  \/ AcsVerify(p) \/ MarkPurge(p) \/ MarkInsert(p)
  \/ TakeSelect(p) \/ TakeDelete(p) \/ TakeExpiry(p)
  \/ JitFind(p) \/ JitCreate(p) \/ CreateSession(p)

Next ==
  \/ \E t \in Tenants, r \in Requests : Login(t, r)
  \/ \E p \in Posts : Arrive(p) \/ Step(p) \/ Abort(p)
  \/ \E s \in Syncs, t \in Tenants, n \in Names : ScimCreate(s, t, n)
  \/ \E u \in users : ScimDelete(u) \/ \E s \in Syncs, n \in Names : ScimRename(s, u, n)
  \/ Tick
  \/ Finished

Spec == Init /\ [][Next]_vars

-----------------------------------------------------------------------------
(* Every table, handler variable and history variable holds values of its  *)
(* declared kind.                                                          *)
TypeOK ==
  /\ now \in Nat
  /\ samlRequests \subseteq [id : Requests, tenant : Tenants, exp : Nat]
  /\ used \subseteq [key : Tenants \X ({d.id : d \in Docs} \ {NoId}), exp : Nat]
  /\ users \subseteq [id : UserIds, tenant : Tenants, userName : Names]
  /\ sessions \subseteq [id : Posts, tenant : Tenants, user : UserIds, subject : Names]
  /\ pc \in [Posts -> Steps \union {"new", "done"}]
  /\ tenant \in [Posts -> Tenants]
  /\ doc \in [Posts -> Docs]
  /\ at \in [Posts -> Nat]
  /\ takenExp \in [Posts -> Nat]
  /\ user \in [Posts -> UserIds]
  /\ resp \in [Posts -> Responses]
  /\ issued \subseteq [id : Requests, tenant : Tenants]
  /\ accepted \subseteq Posts
  /\ consumed \subseteq Posts
  /\ renamed \subseteq Posts
  /\ synced \subseteq Syncs

(* MarkAssertionUsed lets one assertion pass twice for a tenant only if    *)
(* the second pass comes in the second of its NotOnOrAfter or later,       *)
(* whatever the interleaving of the purges and inserts of other handlers,  *)
(* aborted handlers and restarts included.                                 *)
SingleUseBeforeExpiry ==
  \A p, q \in accepted :
    p # q /\ Key(p) = Key(q) =>
      \/ Second(at[p]) >= Second(doc[p].notOnOrAfter)
      \/ Second(at[q]) >= Second(doc[p].notOnOrAfter)

(* Every session comes from an accepted assertion of an IdP the tenant     *)
(* trusts, addressed to that tenant; if the assertion answers a request,   *)
(* acs sent it for the same tenant, and it is no longer pending; and the   *)
(* session's user, while the directory still has it, is a user of the      *)
(* tenant and of the assertion's name, unless a SCIM PUT or PATCH has      *)
(* renamed that user since jitProvisionUser found or created it.           *)
SessionProvenance ==
  \A s \in sessions :
    /\ s.id \in accepted
    /\ s.tenant \in doc[s.id].audience
    /\ doc[s.id].signer \in IdPCerts[s.tenant]
    /\ doc[s.id].inResponseTo # NoRequest =>
         /\ [id |-> doc[s.id].inResponseTo, tenant |-> s.tenant] \in issued
         /\ \A row \in samlRequests : row.id # doc[s.id].inResponseTo
    /\ \A u \in users : u.id = s.user =>
         u.tenant = s.tenant /\ (u.userName = s.subject \/ s.id \in renamed)

(* TakeSAMLRequest: once any handler's DELETE of a request has run, a      *)
(* handler that comes to its SELECT with the same InResponseTo is refused, *)
(* so only handlers that overlap can share a request.                      *)
LateConsumerRefused ==
  [][\A p \in Posts, q \in consumed :
       pc[p] = "select" /\ doc[p].inResponseTo = doc[q].inResponseTo
         => pc'[p] \in {"select", "done"}]_vars

(* A pending AuthnRequest disappears only when a handler of the tenant it  *)
(* was sent for consumes it: another tenant's acs cannot burn it.          *)
BurntByOwnTenant ==
  [][\A row \in samlRequests \ samlRequests' :
       \E p \in consumed' \ consumed :
         tenant[p] = row.tenant /\ doc[p].inResponseTo = row.id]_vars

-----------------------------------------------------------------------------
(* What a comment of the code says and the code does not do.               *)

(* sessions.go:110: an AuthnRequest ID is consumed exactly once.           *)
RequestUsedOnce ==
  \A s, u \in sessions :
    s # u /\ doc[s.id].inResponseTo = doc[u.id].inResponseTo
      => doc[s.id].inResponseTo = NoRequest
=============================================================================

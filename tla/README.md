# TLA+ models of the federation gateway

This directory specifies the B2B federation and provisioning gateway of this
repository in TLA+. TLC checks the specifications on small instances, and TLAPS
proves most of their safety properties for every value of the constants. `PROJECT.json`
lists the components, runs, mutants, theorems, findings and hazards, and gives
for every definition the source lines it models. Paths below are relative to `src/`.

    tlc -workers 2 -config SamlLogin.cfg MCSamlLogin     # one run
    tlapm SamlProofs.tla                                 # one proof module

## The system

| Component | Code | State | Operations |
|---|---|---|---|
| SAML service provider | `internal/saml/sp.go`, `response.go` | tables `saml_requests`, `used_saml_assertions`, `users`, `sessions` | `login`, `acs`, `ParseAndVerifyResponse`, `jitProvisionUser` |
| SP keys and IdP metadata | `internal/saml/sp.go`, `keys.go`, `metadata.go` | a key file and a certificate file per tenant, the IdP's metadata file, a map of each in memory under a mutex | `spFor`, `LoadOrCreateSPKeyPair`, `idpFor`, `metadata` |
| XML signatures | `internal/saml/canon.go`, `xmldoc.go`, `xmldsig.go`, `sign.go` | none | `canonicalize`, `BuildSignedElementXML`, `VerifySAMLResponseSignature` |
| OIDC relying party | `internal/oidc/handlers.go`, `client.go`, `jwt.go` | tables `oidc_requests`, `users`, `sessions` | `login`, `callback`, `ExchangeCode`, `VerifyIDToken` |
| Discovery cache | `internal/oidc/discovery.go` | a map per kind of document, under a mutex | `Metadata`, `JWKS` |
| Store | `internal/store` | SQLite, one connection | one statement or transaction per call or per half of a call |
| SCIM server | `internal/scim` | tables `users`, `groups`, `group_members` | POST, PUT, PATCH, DELETE, list by pages |
| SCIM filter | `internal/scim/filter.go` | none | `ParseFilter`, `Eval` |
| ABAC engine | `internal/abac` | a policy file, read at start-up | `ParsePolicySet`, `Evaluate` |
| Enforcement | `internal/authz` | none of its own | `SessionFrom`, `clientIP`, `Enforce` |
| Reverse proxy | `internal/proxy` | a map of proxies, under a mutex | `Handler`, `proxyFor` |
| Wiring | `cmd/gateway`, `internal/config` | the route table | the resource mapper |

A login (SAML or OIDC) turns an IdP's answer into a row of `sessions`, creating the
user if SCIM has not. A request to `/api/` presents the session's cookie;
`Enforce` decides it with the ABAC engine on the attributes stored in the session and
hands it to the proxy of the session's tenant. Meanwhile IdPs rewrite the directory
through SCIM.

What makes this hard:

- **Interleaving.** `net/http` runs each request in a goroutine. `store.Open`
  allows one connection, so a statement is atomic, but most operations are several
  statements without a transaction: look up then insert, read then write back, select then
  delete, delete then cascade.
- **Failure.** A statement may fail, or the process stop, after earlier statements of the
  same handler have taken effect; a key file or a metadata file may be cut short, missing or
  unreadable when it is next read.
- **Time.** Requests, assertions, tokens, sessions and cache entries expire; expiry is checked
  against a clock that moves between statements, in one place on timestamps
  compared as text.
- **Several tenants.** Tenants may share an IdP, an OIDC provider, a client ID and
  the store; every check has to keep them apart.
- **Lists that move.** A SCIM client reads a list in pages cut by position, while other calls insert
  into it and remove from it.
- **Names that depend on their place.** An assertion is signed as a document of its own and verified
  inside another, where prefixes may be bound differently.
- **Order.** Policies are evaluated in file order with early returns, and routes in the
  random order of a Go map; neither order may show in the decision.

## Modules

| Module | Models | Checked by | Proved in |
|---|---|---|---|
| `SamlLogin` | SAML login, statement by statement | `MCSamlLogin` | `SamlProofs` |
| `OidcLogin` | OIDC login and the provider | `MCOidcLogin` | `OidcLoginProofs` |
| `DiscoveryCache` | one entry of the discovery cache | `MCDiscoveryCache` | `DiscoveryCacheProofs` |
| `ScimPatch` | `applyUserPatch`, `applyGroupPatch`, `applyUserResource` as operators | through `Directory` | |
| `Directory` | the writing SCIM handlers and the directory tables | `MCDirectory` | `DirectoryProofs` |
| `SpTrust` | SP key files, IdP metadata file and their caches | `MCSpTrust` | `SpTrustProofs` |
| `XmlNames` | the namespaces of one element and the declarations `render` writes on it, as operators | through `XmlSignature` | `SamlProofs` |
| `XmlCanon` | exclusive canonicalisation and the searches in a document, as operators | through `XmlSignature` | |
| `XmlSignature` | signing, sending and verifying a response | `MCXmlSignature` | |
| `ScimFilter` | the filter's parser and evaluation, as operators | through `MCScimList` | |
| `ScimList` | `listUsers`, page by page, while the table changes | `MCScimList` | `ScimListProofs` |
| `AbacCombining` | abstract: what a decision is, whatever the order of policies | | |
| `AbacEvaluator` | the loop of `Evaluate` | `MCAbacEvaluator` | `AbacProofs` |
| `AbacCondition` | `validateCondition`, `evalCondition`, `evalLeaf` | `MCAbacCondition` | `AbacProofs` |
| `Gateway` | `SessionFrom`, `Enforce`, mapper, proxy | `MCGateway` | `GatewayProofs` |

Conventions. A handler is a value of `pc`; one action is one SQL statement, or the
computation between two. `Goto` and `Answer` move a handler on or end it.
An optional value is a set of at most one element. Variables
called *history* in their comment are read by no guard and exist for the
properties. Definitions introduced by `Mutant:` are faults used to test the properties and
are part of no specification.

### SamlLogin

`Login` is `login`. `acs` is `Arrive`, `AcsVerify` (tenant, decoding,
`ParseAndVerifyResponse`, the ID check), `MarkPurge` and `MarkInsert`
(`MarkAssertionUsed`), `TakeSelect`, `TakeDelete`, `TakeExpiry` (`TakeSAMLRequest`),
`JitFind`, `JitCreate`, `CreateSession`. `Abort` is a statement that fails or a
process that stops there. `ScimCreate`, `ScimRename` and `ScimDelete` are what the directory sync (SCIM POST, PUT and PATCH,
DELETE, each in its one statement that changes the table) does to IDs, tenants and names of users at any moment; the other columns decide nothing here.
A rename keeps the user's ID and tenant, so `SessionProvenance` says of a session's user that it had the name of the login when the login
found or made it, and has it still unless it was renamed since (`renamed`, history).
A response may carry an InResponseTo that no login issued.
A response is a record of the attributes the code reads; signature checking is
abstracted to "the signer's certificate is in the tenant's metadata". URLs are
the tenant they name. `TextLess` is SQLite's comparison of RFC 3339 texts without
trailing zeros, where `05.5Z` sorts before `05Z`.

### OidcLogin

As SamlLogin, the directory sync included, for `callback`: `TakeSelect`, `TakeDelete`, `CheckPending`,
`ExchangeCode`, `Verify`, `JitFind`, `JitCreate`, `CreateSession`. A login's
state, nonce and verifier are fresh random strings and are named by the login. The
provider (`Authorize`, the token endpoint inside `ExchangeCode`, `Rotate`) is the one of `cmd/mockoidc`,
which redeems a code once and checks neither client nor PKCE verifier: what holds with it
holds with a stricter one. Callbacks may carry any code and any state to any tenant's path.

### DiscoveryCache

`Metadata` and `JWKS` are one algorithm on two maps; the module is one entry.
`Hit` and `Miss` are the lookup under the mutex, `Serve` the moment the provider
answers, `Store` the second critical section, `Fail` an error, `Restart` a new
process. Time is kept as ages capped where the code cannot tell them apart.

### Directory and ScimPatch

A call is an operation chosen initially from a set and then goes through its
statements: `FindUser`/`InsertUser` (a lookup that fails counts as one that finds nobody, as in `users_handler.go:73`),
`ReadUser`/`WriteUser`, `DeleteUser`/`CascadeUser`,
and the same for groups with `ReadMembers` between. `Row` and `Insert` are the columns an INSERT
fills; an UPDATE sets the others and leaves `tenant` alone. `ScimPatch` keeps of a user what the code
treats differently: `userName`, a string attribute (`department`), the
boolean `active` and the raw attributes. `serial` (history) is each user as if every update
had been applied to the row it replaced, and `raced` says whose row was overwritten by a handler that had read
an older version: `LostOnlyUnderStaleVersion` says that outside `raced` the two agree, so that
the version column, which no handler compares, would be enough to notice every lost update.

### ScimFilter and ScimList

`ScimFilter` is `ParseFilter` from the tokens on, one operator per parse function, with its positions, its depth
counter and its error returns, and `Eval` over every node, operator and type of value. `FilterSets`, at its
end, is the grammar of the comment in `filter.go:14-18`, written as what each rule
derives and not as a parser; it is the reference. `ScimList` knows a filter only through two constant
operators, `Parse` and `Selects`, so that it can be proved about for every filter language; `ScimList.cfg` gives them
`ParseFilter` and `Eval`, and `MCScimList`, which sees both modules, states `FilterMeansGrammar`.
Users are listed by a key (`created_at`, then `id`) that is fixed when they are created. In `ScimList` a client sends `startIndex` and `count`,
takes what `ListUsers` returns, and goes on after the last user of the page until it has seen
`totalResults`, while users are created anywhere in the order, deleted, and changed so that they
match or no longer match. A SELECT that fails is a 500 that changes nothing: a stuttering step.

### SpTrust

A request is on `metadata`, `login` or `acs`. `SpFor` takes the mutex;
`Load`, `LoadFails`, `Generate`, `WritePair`, `WriteFails` are `LoadOrCreateSPKeyPair` under it, one step per file
operation, a written file being truncated first. `IdpFor`, `ReadIdp`, `StoreIdp` are `idpFor`, which reads the file without the
mutex. `Publish` and `Use` are where the certificate goes out and the key signs.
`Crash` may come at any step; `Provision` is an administrator who installs a pair; `TruncateIdp`
and `WriteIdp` rewrite the IdP's file. `misread` (history) is set when a file that exists cannot be
read, since the code then treats it as missing.

### XmlNames, XmlCanon and XmlSignature

A document is a tree of elements with their prefixes as written and their own declarations. `Render` carries the
scope of the document and the bindings already rendered, as `render` does. What one call of it does with them is in `XmlNames`, which
has no recursion and so can be proved about: `Needed` is `addIfNeeded`, `Emitted` the declarations on the start tag and `Enter` what is
passed on to the children. A canonical form is again a tree. `XmlSignature` builds an assertion, signs
it, the response around it, or both (`SignAssertion`, `Wrap`, as `cmd/fakeidp` and the tests
do), sends it, and verifies it. On the way (`Send`) it is left alone, written differently (each tag in the opposite order, comments), or changed in one
place, which may be any element outside a Signature: a text shortened, a declaration, attribute or element added, an element put into another one,
a signature moved or copied to the element around. A digest is the
canonical form it is taken of, and a signature is the key with the canonical form of
SignedInfo, whose content is one value here. A Signature element is outside the digest it carries, in the code as in the model; what else might
be put into one is not explored.

There are two references. `Meaning` is the document with its names resolved and attributes as a set: it is what a canonical form has to keep
and what a signature has to cover. `AsRead` is what `response.go` gets out of it through `attrValue`, which takes the first entry of a tag with a local name,
whatever its namespace, and among the entries are the `xmlns:` declarations. The two may differ where a tag has two entries of one local
name, or a declaration named like an attribute that is read. `AcceptedIffUnchanged` therefore asks for the ID as `attrValue` reads it, and states that what is read of an accepted
response is what was signed for documents without such tags; it fails without that condition.

### AbacCombining, AbacEvaluator, AbacCondition

`AbacCombining` decides in one step: Deny if a matching policy denies or none
allows, else Allow. `AbacEvaluator` is the loop, with its index, its remembered Allow and
its early return; its `effect` is the abstract `decision`. `AbacCondition` takes a condition through `ParsePolicySet` and then
through requests. Time is the minute of the week. `OpenMinutes` is the reference for `inBusinessHours`: the minutes in which an office at a given offset is
open, moved into the UTC week. It does not know the code's `Offset`: `HoursAreLocal` gives it the zone's offset where the zone resolves, and says
separately that the hours are those of UTC where it does not. An offset is the one in force at that minute, so changes to and from summer time are
the business of Go's zone database, and of the context. Values are equal as the code has it, by their printed text unless both are
strings, numbers or booleans. A condition is one of a set closed under its parts, with a depth, and `EvalCondition` and `Nodes` are
recursive functions on that set. The specification is `CondSpec`, so that one proof module can extend both specifications.

### Gateway

`Arrive`, `GetSession`, `CheckExpiry` are `SessionFrom` and `GetSession`;
`MapRoute` visits one route, in any order; `MapReturn`, `Decide` are the rest of
`Enforce`, with `ClientIP` for the address a condition sees; `Forward` is the proxy, with its answers for a tenant without a backend and for a
URL that does not parse. `Headers` are those of the request when `Enforce` hands it on, `Outgoing` those that go out: `httputil.ReverseProxy` (external)
runs its Director and then removes every header that the client's Connection header names. `OwnTenantBackend` says what a backend can
rely on after that. The effect is that of `AbacCombining`. Path prefixes are prefixes of sequences.

## What the runs show

| Run | Instance | Shows |
|---|---|---|
| `saml_login` | 2 handlers, 2 tenants with a common IdP, 1 request, 5 responses, 2 user names, 1 sync call that creates or renames and any number that delete, clock 0..3 in half seconds | `SingleUseBeforeExpiry`, `SessionProvenance`, `LateConsumerRefused`, `BurntByOwnTenant` |
| `saml_request_race` | the same, 2 answers to 1 request | `RequestUsedOnce` is violated |
| `oidc_login` | 2 callbacks, 2 logins, 2 codes, 2 tenants with one provider and client, 2 user names, sync calls as above, 1 key rotation | `SessionOfOwnLogin`, `OneSessionPerCode`, `LateCallbackRefused` |
| `discovery_cache` | 2 callers, TTL 2, fetches of at most 1, 2 rotations | `BoundedStaleness`, `RestartFresh`, `RotationSeen` |
| `directory` | 3 concurrent calls out of 20, 2 tenants | `UniqueNames`, `DeletedStaysDeleted`, `NoOrphanRoster`, `LostOnlyUnderStaleVersion`, `OwnTenantOnly` |
| `directory_foreign_delete` | 1 DELETE by another tenant | `OwnTenantRosters` is violated |
| `sp_trust` | 2 requests, 2 key pairs, 2 IdP documents, the second without HTTP-Redirect, any number of stops and starts | `PairMatches`, `OneIdentity`, `OnlyTornCertBlocks`, `MetadataSinceStart`, `AllAnswered` |
| `xml_signature` | assertions of 3 levels with a prefix and the default namespace bound, rebound and unbound at each, a few of up to 5, in 3 kinds of response, one change on the way out of 4 declarations, an attribute, an element, texts and signatures, depth limit 3 | `MeaningPreserved`, `AcceptedIffUnchanged` |
| `scim_list` | every filter of up to 4 tokens of 11, every comparison, longer ones with each token removed or exchanged; 3 users and 1 more, 2 writes, counts -1, 0, 1, 9 | `FilterMeansGrammar`, `MissedOnlyByRemovals`, `RepeatedOnlyByArrivals`, `ListEnds` |
| `abac_evaluator` | every policy file of up to 5 policies | `NamesItsPolicy`, `ImplementsCombining` |
| `abac_condition` | conditions of up to 3 levels over leaves of every operator, 127 contexts; offices in New York, Auckland and Kolkata (UTC+5:30) and one with an unknown zone, the minutes on both sides of their openings and closings | `MissingNeverGrants`, `NothingFromNothing`, `HoursAreLocal` |
| `gateway` | 2 requests, 2 sessions, 4 tenants (1 without backend, 1 whose URL does not parse), 2 overlapping routes, 2 addresses, a client with forged headers and a Connection header | `ExpiredNeverForwarded`, `OwnTenantBackend`, `LongestRouteDecides` |

The runs of SamlLogin, OidcLogin, DiscoveryCache, AbacEvaluator, SpTrust and Gateway also check the module's
type invariant, which their proofs build on.

**Bounds.** Two handlers produce every race between two statements of
different requests, which is all that two-statement operations can lose; the directory run has a third call, so
that a delete can fall between a read and a write while another call renames. Two
tenants are what isolation needs, two more in `gateway` cannot be reached. One create or rename by the directory during two logins
is what each can be disturbed by; the theorems have any number. Clocks run past
an expiry of every kind (request, confirmation, token, session, cache entry): the lifetimes are
scaled down to 0, 1 or 2 ticks, and the code compares times only with each other. Half-second ticks show the
text comparison. Lists of five policies contain every order of Allow, Deny and
non-matching that the loop distinguishes; the proofs cover the rest. Two key pairs are a first
one and the one that replaces it; a third would repeat the second's case. The filter run has a depth limit of 2 and
filters on both sides of it, the signature run likewise. Two writes during a list can each come before, inside or
behind what has been read. A session's attributes, Groups among them, are those of its login, and its expiry is the only bound on
their age: `ExpiredNeverForwarded` is that bound, and no property says that they are up to date. Symmetry is used over
handlers, random draws and tenants configured alike, and never in a run with a liveness property.

**Fairness.** Three runs state it.

- `discovery_cache`: weak fairness of the clock
  and of each caller's steps once its call has begun. A goroutine that can run is run by Go's
  scheduler, and the HTTP client's timeout ends every fetch, with a document or an error. Callers need not call,
  and the provider need not rotate. Under this `RotationSeen` says that
  hits, slow fetches and overwrites cannot keep an old document alive.
- `sp_trust`: weak fairness of a handler's steps without the mutex or under it, for the same reason (file
  operations return), and strong fairness of the three steps that take the mutex: Go's `sync.Mutex` hands itself to a
  waiter that has waited a millisecond, so that a handler cannot be passed over for ever. Nothing is assumed of stops,
  starts and writers. `AllAnswered` says the mutex is released on every path.
- `scim_list`: the client asks for its next page, with a `count` above 0. That is an assumption on
  the client, not on the code; `ListEnds` says that the code's `startIndex`, `itemsPerPage` and
  `totalResults` then bring it to an end.

**Deadlock** is checked in every run. Models whose requests are finite in number have a
stuttering `Finished` (or `Refused`) that is enabled exactly when every request has
been answered, so a handler that could not go on would be reported.

## What is proved

TLAPS checks these for every value of the constants that satisfies the named
assumptions.

*SamlProofs* (from `DocsAssumption`, `IdAssumption`, `TimeAssumption`,
`NameAssumption`).
`TypeCorrect` needs `Named`: a handler past verification has an assertion ID, which is what keeps the
empty ID out of the replay table.
`SingleUseTheorem`: MarkAssertionUsed lets one assertion pass twice only if
one of the two inserts runs in or after the second of its NotOnOrAfter. The property is
not inductive. `SingleUseInv` adds `MarkOrder` (a handler counted as accepted is past its
insert, and its recorded time is not in the future) and `RowKept` (until that second, the row
of an accepted assertion is still in the table). `RowKept` survives another
handler's purge by `PurgeKeeps`: a row whose text sorts before the cutoff's text expires in
a second that is not after the cutoff's. `IdAssumption`, that one ID has one NotOnOrAfter, is
SAML's uniqueness of assertion IDs and is used to identify the rows.
`LateConsumerTheorem` and `BurntTheorem` rest on `RequestLife`: a pending request was issued for the tenant of its row, a
handler about to delete one answers it for that tenant, and after a DELETE no row of that ID comes back, since `login` draws fresh IDs.
`ProvenanceTheorem` adds `AcceptOrder` (what has been verified by the time a handler is at each step) and `UserOwners`. The last is
needed because the directory may delete or rename a user between `JitFind` and `CreateSession` or after it: the invariant then says that
the session's user ID can never come to name anybody else, and that a user under another name has been renamed since the login.

The same module proves three theorems about `XmlNames`, for documents of any depth. They follow one path from the signed element inwards:
a `Walk` is the sequence of arguments that the calls of `render` have on it (`WalkExists`: there is one for every path), a `Reading` the scopes
that a parser finds in the start tags so written. `ReaderKnowsRendered` is the invariant of the walk: the scope of the reader is, at
every element, the bindings that `render` has rendered; `RenderedAsUsed` says that after a call these agree with the document
on every prefix the element uses. `NamesPreserved` follows: every name means in the canonical form what it means in the document. `SameFormIffSameNames`
compares two paths that use the same prefixes, with any declarations on and around them: the declarations written are equal exactly when the names are.
`ContextExcluded` is the case of one path in two places, what makes the canonicalisation exclusive. They need no assumption on prefixes or URIs;
the inductions are on the position in the path (`PathInduction`).

*OidcLoginProofs* (from `AccountAssumption`, `IdAssumption`, `TimeAssumption`). `TypeCorrect` needs `HandlerOrder`:
past each step the handler holds the row, token or user that the step fetched. `LateCallbackTheorem` is as in SamlLogin, from
the `RequestLife` of a state. `OneSessionTheorem` uses `GrantLife`: a grant behind a token has left the provider, no two
callbacks hold tokens of one grant, and past `Verify` the grant's login is the pending login's (the nonce).
`OwnLoginTheorem` combines both with `UserOwners`. No assumption separates tenants: they may share provider, client and accounts.

*DirectoryProofs* (from `OpsAssumption` and `SeedAssumption`: uuids are unique and the initial tables satisfy their unique
indexes). The proofs never look into `ScimPatch`, so they hold whatever a PATCH computes. `NamesTheorem`: `UniqueNames` is inductive as it
stands, as the indexes are enforced by every statement that writes. `DeletedTheorem` needs `Ids`: an ID
names one row, once, and a create call that has not inserted yet owns an ID no table knows. `RosterTheorem` adds to it that roster rows
are written under an existing group only. `LostUpdateTheorem` needs `Versions`: while no write of a user has raced, its version
counts its writes, so that a copy some call still holds is either older than the row or is the row. `OwnTenantTheorem` is the action
property, from the same `IdInv`.

*GatewayProofs* (from `TimeAssumption`, `RouteAssumption`). `HandlerOrder` says what a call holds at each step, `OwnProxy`
that a cached proxy points to its tenant's backend. `HeadersReserved` is about the request as `Enforce` leaves it, `OutgoingReserved` about what
is left of it after the removal of what Connection names. `ExpiryTheorem` and `OwnTenantTheorem` need `InLifetime` (the clock of the arrival is
behind the clock of the expiry check, and a call at the proxy has its Allow in the log for the session it still holds) and `SentDone`.
`LongestRouteTheorem` is a loop proof: `BestSoFar` says that the best prefix is at least as long as every matching prefix visited so far,
in whatever order they come, and `AuditDone` that a decision is not taken again.

*SpTrustProofs* (from `TrustAssumption`). `Locked` is mutual exclusion of the steps under the mutex, over stops and starts.
`FileOrder` says what a stop may leave on disk: the key is complete before the certificate is created, so a complete certificate is the
key's; `Installed` that the cached pair and every pair that went out are the ones on disk; `Blocked` that after a parse error
no handler writes. They hold until a file that exists cannot be read (`misread`), the exception the three properties state.
`PairTheorem`, `IdentityTheorem` and `BlockedTheorem` follow. `MetadataTheorem` uses `SinceStart`: whatever is cached, held by a handler
or on disk now was on disk at some time since the process started.
`MutexTheorem` and `NearerTheorem` are what `AllAnswered` needs apart from fairness. `HeldByHolder`: when the mutex is taken, a handler is
at a file operation, which waits for nothing; so handlers never all wait. `Remaining` counts the steps before an answer: a handler's own steps lower it,
and nothing raises it, whatever the caches do meanwhile.

*ScimListProofs* (from `ListAssumption`: finitely many users, distinct integer keys, natural limits). For every `Parse` and
`Selects`, every `count` and any number of writes between two pages. `PageInv` counts two sets of users: those that matched all along
and that the client has passed without seeing (at most as many as have left the match), and those it has seen and
will meet again (with the repeats so far, at most as many as have come into the match). Neither property is inductive, since it
speaks of what the client has seen and not of where users stand. The induction step rests on `LeaveCrosses` and `EnterCrosses`:
one departure moves at most one user across the start of the next page, and so does one arrival; `Window` and `PageEnd` say what a page returns.
`MissedTheorem` also needs that nothing is missed beyond that once the client has read up to `totalResults`, wherever users move afterwards.
`AdvanceTheorem` is what `ListEnds` needs apart from fairness: by `ShortPage`, since the indexes of the matched users have no gap, a page that is not full is
the last one, and `totalResults` is never above the number of users there can be.

*DiscoveryCacheProofs* (from `CacheAssumption`).
`StalenessTheorem` strengthens to `FetchInv` (a document in flight is no older than its
fetch) and `EntryInv` (an entry's document is no staler than its age plus one fetch), with
`CurrentInv` for the version being served. `RestartTheorem` uses `FloorInv`: nothing in the entry or in
flight is older than the version served at the last start. `RotationTheorem` gives `RotationSeen` its bound: once the provider has served a document for
the TTL and one fetch, no call returns another, since by `StaleInv` an earlier one could neither be a valid entry nor be in flight.

*AbacProofs* (from `PolicyAssumption`, `TreeAssumption`, `HoursAssumption`). `LoopInv` is the loop invariant: no policy before the index is a
matching Deny, and the remembered Allow is the first matching one. From it
`NamesTheorem` and `RefinementTheorem`: `Spec => ImplementsCombining`, the loop implements
`AbacCombining` under the mapping that hides the index, for policy files of any length.
`MissingTheorem` and `NothingTheorem` are about conditions of any depth and go by induction on it. The library's induction
theorems take an operator, which the provers cannot instantiate; `DepthInduction` states the same of a set, from the fact that
a non-empty set of naturals has a least element (`LeastNatural`, from the library's `WFMin`). `NodesUnfold` and `EvalUnfold` show with it that the
recursive functions exist and so satisfy their equations; `EvalMonotone` and `EvalFromNothing` are then inductions over the form of a
condition, with `LeafMonotone` and `LeafFromNothing` for the operators of `evalLeaf`. `HoursTheorem` is arithmetic around the week
(`DayMinute`, `AroundTheWeek`, `HoursOpen`), for every offset in minutes and whatever integers `environment.json` gives. `Answered` ties the last answer to `EvalCondition`.

Every safety property of a passing run is one of these theorems, except those that are only model-checked:

- `FilterMeansGrammar` (`ScimFilter`), `MeaningPreserved` and `AcceptedIffUnchanged` (`XmlCanon`, `XmlSignature`): they say
  what RECURSIVE operators compute on filters and documents, and a module that declares one is closed to the SMT backend. Of the last two the part
  about names is proved, see `SamlProofs`; what is left to TLC is the order of attributes, the joining of texts, the depth limit and the searches.
- `RotationSeen`, `AllAnswered` and `ListEnds`: liveness under fairness is beyond the prover. The safety facts they rest on are proved (`RotationTheorem`,
  `MutexTheorem`, `NearerTheorem`, `AdvanceTheorem`).
- What the folds of `ScimPatch` make of a PATCH; the theorems about Directory do not depend on it.

## Where code and comments disagree

The runs that expect a violation:

- `saml_request_race`: `TakeSAMLRequest` is said to consume a request atomically
  (`internal/store/sessions.go:110`); it is a SELECT and a DELETE, and two overlapping
  handlers both succeed. `LateConsumerRefused` is what does hold.
- `directory_foreign_delete`: `DeleteUser` removes group memberships by user ID
  alone and even if the user is another tenant's (`internal/store/users.go:163`).

Met while modelling, and modelled as the code has it, without a run of their own:

- Assertions are said to be single-use (`internal/saml/sp.go:200`); the replay record is purged at
  NotOnOrAfter while the assertion verifies for the clock skew longer. `SingleUseBeforeExpiry`
  is what does hold; it speaks of the *second* of NotOnOrAfter because the purge
  compares texts, and a record may go up to a second early.
- Of two overlapping PATCHes of one user, the later write restores the field the earlier one changed
  (`internal/store/users.go:140`, against the comment at lines 17-20). `LostOnlyUnderStaleVersion` is what does hold.
- PATCH remove of `members[value eq "id"]` clears the whole roster (`internal/scim/patch.go:160`,
  against lines 169-170).
- `internal/saml/keys.go:15-19` lets the SP make its pair only if there is none and come up cleanly. A stop while the
  certificate is being written leaves a file that stops every later call for the tenant until it is removed
  (`OnlyTornCertBlocks` says that nothing else does). Any error of `os.ReadFile`, not only a missing file,
  makes a new pair over an existing one, and a stop between the two writes then leaves a key and a certificate that do not
  belong together; the properties of SpTrust except this case.
- A rotated IdP certificate is not seen before a restart, and of two overlapping first reads the older document may stay cached
  (`internal/saml/sp.go:83`).
- In filters, `eq` ignores case while `gt`, `ge`, `lt`, `le` do not; `emails pr` holds for a user without email; an
  attribute of the extension bag with a capital in its name is never found, as is the enterprise URN unless it is written in
  lower case (`internal/scim/filter.go:163`). `matchesGroupFilter` lets every group pass for any
  filter other than `displayName eq` (`internal/scim/groups_handler.go:46`). Users are listed by `created_at` as text, which is not
  the order of creation within a second.
- Canonical forms declare `xmlns=""` at the apex for an unprefixed name in no namespace, and
  `xmlns:xml=""` for an `xml:` attribute (`internal/saml/canon.go:204`); signer and verifier
  share the code and agree.
- Business hours that end before they start never match (`internal/abac/evaluator.go:322`).
- A first login that races the directory sync on the INSERT gets a 500, with its
  assertion and request used up (`internal/saml/sp.go:304`, response `conflict`).
- A response without Recipient and Destination is accepted, which the repository's
  README (lines 192-195) says is refused (`internal/saml/response.go:58`).
- PUT without `active` re-activates a user, since the default "on create" is in code that
  PUT shares (`internal/scim/convert.go:54`); PUT and PATCH can store an empty
  `userName`, which POST refuses (`internal/scim/users_handler.go:70`).
- A condition with two group forms passes `validateCondition`
  (`internal/abac/policy.go:84`), and only the first form is evaluated.
- An unknown timezone falls back to UTC (`internal/abac/evaluator.go:307`), which may
  open hours that the intended zone has closed; the comment at lines 301-304 says that it "fails closed (narrows access)". `HoursAreLocal` says
  what the hours then are, and does not say that they are fewer.
- `Enforce` strips and sets the reserved headers so that the backend can rely on them (`internal/authz/middleware.go:101`,
  `internal/proxy/proxy.go:61`), but `ReverseProxy` afterwards removes those that the client's Connection header names: a backend may miss an identity header,
  though it never reads one of the client's. `OwnTenantBackend` is what does hold.
- `internal/saml/xmldsig.go:69` says that claims are read from exactly the element whose digest was checked. They are, but `attrValue`
  (`internal/saml/xmldoc.go:154`) also reads declarations, which the digest leaves out unless a name uses them
  (`internal/saml/canon.go:217`, `239`), and picks by position between attributes of one local name, whose order the digest leaves out too.
  With `xmlns:ID` in front of the ID an unchanged document is refused. `AcceptedIffUnchanged` is what does hold, and `IdAssumption` of SamlLogin
  takes NotOnOrAfter as read.
- `createUser` takes any error of its lookup for an absent user and goes on to the INSERT (`internal/scim/users_handler.go:73`); the unique index decides.
- A `matches` condition looks a named range up only if the name has no slash (`internal/abac/evaluator.go:284`), and `eq` compares a list by its printed
  text, so that `["En"]` equals `"[En]"` (line 204).
- `active = false` ends no session and refuses no login: neither `GetSession`, `Enforce` nor
  the logins read it.
- A callback on another tenant's path uses up the login's OIDC request
  (`internal/store/sessions.go:161`); it opens no session.

## Not modelled

- Hashes, RSA, base64, deflation, JWT encoding and the scanning of raw tags: functions of
  bytes, without state. A digest identifies what it was taken of, and a signature verifies exactly under its signer's key.
  `VerifyRedirectSignature` and `InflateAndDecodeSAMLMessage` (`request.go`) are called by nothing.
- Changes inside a Signature element on the way, and more than one change at a time (`XmlSignature`); in the login modules, what the directory
  sync writes besides IDs, tenants and names, and its groups.
- `httputil.ReverseProxy` beyond the removal of what Connection names: the fixed list of hop-by-hop headers holds none the models look at.
- HTTP, JSON and XML shapes, cookies, logging, flags and configuration files; `tokenize` of filters.
- `GET` of single resources, the list of groups, ETags and the bearer token of SCIM.
- Wildcard resources; the CIDR and regular-expression libraries are given as finite relations.
- `src/main.go`, a demonstration that repeats the gateway's wiring, and the echo backend. The
  development IdP and provider appear as far as the models need the other side.

## Plan

Login and replay protection, directory, decision, enforcement, caches, key files, signatures and lists are modelled, and their
safety properties are proved except what recursive operators compute on filters and documents. Left:

1. Proofs: the part of `MeaningPreserved` that is not about names, with `Render` and `Meaning` as recursive functions on documents of bounded depth; that
   `SortAttrs` permutes the attributes and that joining texts twice is joining them once are the lemmas it needs.
2. In `ScimList`, the list of groups; in `AbacCondition`, resource patterns.

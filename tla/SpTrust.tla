-------------------------------- MODULE SpTrust --------------------------------
(***************************************************************************)
(* What a tenant's service provider and its IdP know of each other: the    *)
(* key pair of internal/saml/keys.go, made on first use and kept in two    *)
(* files, and the IdP's metadata file, both cached by internal/saml/sp.go  *)
(* for the life of the process.  spFor holds the mutex while it reads and  *)
(* writes files; idpFor releases it while it reads.                        *)
(*                                                                         *)
(* A file is None, Torn (created or truncated, not yet written in full) or *)
(* the number of the key pair or document it holds.  The process may stop  *)
(* at any step and is started again; what it had written stays.            *)
(***************************************************************************)
EXTENDS Integers

CONSTANTS
  Handlers,   \* requests being served: metadata, login or acs of one tenant
  MaxPair,    \* bound on the key pairs made, for TLC
  MaxDoc,     \* bound on the IdP's documents, for TLC
  PostOnly    \* the documents without an HTTP-Redirect binding

ASSUME TrustAssumption ==
  MaxPair \in Nat \ {0} /\ MaxDoc \in Nat \ {0} /\ PostOnly \subseteq Nat

None == 0
Torn == -1
Nobody == [key |-> None, cert |-> None]

VARIABLES
  keyFile, certFile, \* <tenant>.key.pem and <tenant>.cert.pem
  idpFile,           \* tenant.SAMLIdPMetadataFile
  made,              \* key pairs made so far; a pair is its number
  written,           \* documents the IdP has written so far
  up,                \* the gateway is running
  free,              \* s.mu is not held
  sp,                \* s.sps[tenant], Nobody if absent
  idp,               \* s.idpCache[tenant], None if absent
  kind, pc,          \* kind[h] and pc[h]: h's route and its next step
  pair,              \* pair[h]: the pair h's LoadOrCreateSPKeyPair has made
  doc,               \* doc[h]: the document h has read or was given
  resp,              \* resp[h]: the answer of h
  identity,          \* history: the pairs published in metadata or signed with
  onDisk,            \* history: the documents on disk since the process started
  misread            \* history: an existing pair could not be read, since it was installed

files   == <<keyFile, certFile, idpFile>>
caches  == <<sp, idp>>
history == <<identity, onDisk, misread>>
vars    == <<files, made, written, up, free, caches, kind, pc, pair, doc, resp, history>>

\* The pair just made is on disk; provisioned files hold pair 1.
Init ==
  /\ \/ keyFile = None /\ certFile = None /\ made = 0
     \/ keyFile = 1 /\ certFile = 1 /\ made = 1
  /\ idpFile \in {None, 1} /\ written = idpFile
  /\ up = FALSE /\ free = TRUE /\ sp = Nobody /\ idp = None
  /\ kind = [h \in Handlers |-> "none"] /\ pc = [h \in Handlers |-> "idle"]
  /\ pair = [h \in Handlers |-> None] /\ doc = [h \in Handlers |-> None]
  /\ resp = [h \in Handlers |-> "none"]
  /\ identity = {} /\ onDisk = {} /\ misread = FALSE

Goto(h, step) == pc' = [pc EXCEPT ![h] = step] /\ UNCHANGED <<kind, resp>>

\* The handler answers r and its locals are gone.
Answer(h, r) ==
  /\ pc' = [pc EXCEPT ![h] = "idle"] /\ kind' = [kind EXCEPT ![h] = "none"]
  /\ pair' = [pair EXCEPT ![h] = None] /\ doc' = [doc EXCEPT ![h] = None]
  /\ resp' = [resp EXCEPT ![h] = r]

\* A request for the tenant arrives on one of its three routes.
Arrive(h) ==
  /\ up /\ pc[h] = "idle"
  /\ \E k \in {"metadata", "login", "acs"} : kind' = [kind EXCEPT ![h] = k]
  /\ pc' = [pc EXCEPT ![h] = "spFor"] /\ resp' = [resp EXCEPT ![h] = "none"]
  /\ UNCHANGED <<files, made, written, up, free, caches, pair, doc, history>>

\* Where a handler goes once it has its SP.
AfterSP(h) == IF kind[h] = "metadata" THEN "publish" ELSE "idpFor"

-----------------------------------------------------------------------------
\* Mutant: spFor releases the mutex while it reads and writes the files.
SpForUnlocked(h) ==
  /\ pc[h] = "spFor" /\ free
  /\ Goto(h, IF sp # Nobody THEN AfterSP(h) ELSE "load")
  /\ UNCHANGED <<files, made, written, up, free, caches, pair, doc, history>>

(* spFor: the mutex is taken; a cached SP is returned.                     *)
SpFor(h) ==
  /\ pc[h] = "spFor" /\ free
  /\ IF sp # Nobody THEN Goto(h, AfterSP(h)) /\ UNCHANGED free
                    ELSE Goto(h, "load") /\ free' = FALSE
  /\ UNCHANGED <<files, made, written, up, caches, pair, doc, history>>

\* LoadOrCreateSPKeyPair has a pair: spFor caches it and unlocks.
Cache(h, k, c) ==
  /\ sp' = [key |-> k, cert |-> c]
  /\ free' = TRUE
  /\ Goto(h, AfterSP(h))

\* Mutant: a parse error returns without unlocking.
LoadFailsLocked(h) ==
  /\ pc[h] = "load" /\ Torn \in {keyFile, certFile} /\ None \notin {keyFile, certFile}
  /\ Answer(h, "parseError")
  /\ UNCHANGED <<files, made, written, up, free, caches, history>>

(* Both files exist and one does not parse: every later call fails too.    *)
LoadFails(h) ==
  /\ pc[h] = "load" /\ Torn \in {keyFile, certFile} /\ None \notin {keyFile, certFile}
  /\ Answer(h, "parseError") /\ free' = TRUE
  /\ UNCHANGED <<files, made, written, up, caches, history>>

(* Both files exist and parse: they are the pair, matching or not.         *)
Load(h) ==
  /\ pc[h] = "load" /\ keyFile > 0 /\ certFile > 0
  /\ Cache(h, keyFile, certFile)
  /\ UNCHANGED <<files, made, written, up, idp, pair, doc, history>>

(* A file is missing, or both exist and os.ReadFile fails on one of them:  *)
(* a new pair is made, whatever the files hold.                            *)
Generate(h) ==
  /\ pc[h] = "load"
  /\ misread' = (misread \/ None \notin {keyFile, certFile})
  /\ made < MaxPair
  /\ made' = made + 1
  /\ pair' = [pair EXCEPT ![h] = made + 1]
  /\ Goto(h, "openKey")
  /\ UNCHANGED <<files, written, up, free, caches, doc, identity, onDisk>>

\* Mutant: the certificate is written before the key.
WriteCertFirst(h) ==
  \/ /\ pc[h] = "openKey" /\ certFile' = Torn /\ Goto(h, "writeKey")
     /\ UNCHANGED <<keyFile, idpFile, made, written, up, free, caches, pair, doc, history>>
  \/ /\ pc[h] = "writeKey" /\ certFile' = pair[h] /\ Goto(h, "openCert")
     /\ UNCHANGED <<keyFile, idpFile, made, written, up, free, caches, pair, doc, history>>
  \/ /\ pc[h] = "openCert" /\ keyFile' = Torn /\ Goto(h, "writeCert")
     /\ UNCHANGED <<certFile, idpFile, made, written, up, free, caches, pair, doc, history>>
  \/ /\ pc[h] = "writeCert" /\ keyFile' = pair[h] /\ Cache(h, pair[h], pair[h])
     /\ UNCHANGED <<certFile, idpFile, made, written, up, idp, pair, doc, history>>

(* os.WriteFile of the key and then of the certificate, each a truncation  *)
(* and a write; after the second the pair is cached.                       *)
WritePair(h) ==
  \/ /\ pc[h] = "openKey" /\ keyFile' = Torn /\ Goto(h, "writeKey")
     /\ UNCHANGED <<certFile, idpFile, made, written, up, free, caches, pair, doc, history>>
  \/ /\ pc[h] = "writeKey" /\ keyFile' = pair[h] /\ Goto(h, "openCert")
     /\ UNCHANGED <<certFile, idpFile, made, written, up, free, caches, pair, doc, history>>
  \/ /\ pc[h] = "openCert" /\ certFile' = Torn /\ Goto(h, "writeCert")
     /\ UNCHANGED <<keyFile, idpFile, made, written, up, free, caches, pair, doc, history>>
  \/ /\ pc[h] = "writeCert" /\ certFile' = pair[h] /\ Cache(h, pair[h], pair[h])
     /\ UNCHANGED <<keyFile, idpFile, made, written, up, idp, pair, doc, history>>

\* Mutant: a pair that could not be written is used all the same.
WriteFailsIgnored(h) ==
  /\ pc[h] \in {"openKey", "writeKey", "openCert", "writeCert"}
  /\ Cache(h, pair[h], pair[h])
  /\ UNCHANGED <<files, made, written, up, idp, pair, doc, history>>

\* MkdirAll, the generation or a write fails: nothing is cached.
WriteFails(h) ==
  /\ pc[h] \in {"load", "openKey", "writeKey", "openCert", "writeCert"}
  /\ Answer(h, "writeError") /\ free' = TRUE
  /\ UNCHANGED <<files, made, written, up, caches, history>>

(* metadata: the SP's certificate goes out to the IdP's administrator.     *)
Publish(h) ==
  /\ pc[h] = "publish"
  /\ identity' = identity \union {sp.cert}
  /\ Answer(h, "ok")
  /\ UNCHANGED <<files, made, written, up, free, caches, onDisk, misread>>

-----------------------------------------------------------------------------
(* idpFor: the lookup under the mutex.                                     *)
IdpFor(h) ==
  /\ pc[h] = "idpFor" /\ free
  /\ IF idp # None THEN Goto(h, "use") /\ doc' = [doc EXCEPT ![h] = idp]
                   ELSE Goto(h, "readIdp") /\ UNCHANGED doc
  /\ UNCHANGED <<files, made, written, up, free, caches, pair, history>>

\* Mutant: the error of ParseIdPMetadata is dropped.
ReadIdpUnchecked(h) ==
  /\ pc[h] = "readIdp"
  /\ IF idpFile # None THEN Goto(h, "storeIdp") /\ doc' = [doc EXCEPT ![h] = idpFile] /\ UNCHANGED pair
                       ELSE Answer(h, "unavailable")
  /\ UNCHANGED <<files, made, written, up, free, caches, history>>

(* The file is read and parsed without the mutex; a missing or half        *)
(* written one is a 502 (from acs too) and is not cached.                  *)
ReadIdp(h) ==
  /\ pc[h] = "readIdp"
  /\ IF idpFile > 0 THEN Goto(h, "storeIdp") /\ doc' = [doc EXCEPT ![h] = idpFile] /\ UNCHANGED pair
                    ELSE Answer(h, "unavailable")
  /\ UNCHANGED <<files, made, written, up, free, caches, history>>

(* The document is stored, over one that a faster handler stored.          *)
StoreIdp(h) ==
  /\ pc[h] = "storeIdp" /\ free
  /\ idp' = doc[h]
  /\ Goto(h, "use")
  /\ UNCHANGED <<files, made, written, up, free, sp, pair, doc, history>>

(* login signs a redirect to the document's endpoint; acs verifies with    *)
(* the document's certificates and signs nothing.                          *)
Use(h) ==
  /\ pc[h] = "use"
  /\ IF kind[h] = "login" /\ doc[h] \notin PostOnly
       THEN identity' = identity \union {sp.key}
       ELSE UNCHANGED identity
  /\ Answer(h, IF kind[h] = "login" /\ doc[h] \in PostOnly THEN "noRedirect" ELSE "ok")
  /\ UNCHANGED <<files, made, written, up, free, caches, onDisk, misread>>

-----------------------------------------------------------------------------
\* NewServer makes empty maps.
Start ==
  /\ ~up /\ up' = TRUE
  /\ onDisk' = {idpFile} \ {None, Torn}
  /\ UNCHANGED <<files, made, written, free, caches, kind, pc, pair, doc, resp, identity, misread>>

\* Every handler ends without an answer.
Stop ==
  /\ pc' = [h \in Handlers |-> "idle"] /\ kind' = [h \in Handlers |-> "none"]
  /\ pair' = [h \in Handlers |-> None] /\ doc' = [h \in Handlers |-> None]
  /\ resp' = [h \in Handlers |-> "none"] /\ onDisk' = {}

\* Mutant: a reload in place, which keeps the maps.
CrashKeepsCaches ==
  /\ up /\ up' = FALSE
  /\ free' = TRUE
  /\ Stop
  /\ UNCHANGED <<files, made, written, caches, identity, misread>>

\* The process stops, at whatever step its handlers are.
Crash ==
  /\ up /\ up' = FALSE
  /\ free' = TRUE /\ sp' = Nobody /\ idp' = None
  /\ Stop
  /\ UNCHANGED <<files, made, written, identity, misread>>

(* The administrator installs a pair from PKI tooling while the gateway is *)
(* down, and registers its certificate anew.                               *)
Provision ==
  /\ ~up /\ made < MaxPair
  /\ made' = made + 1
  /\ keyFile' = made + 1 /\ certFile' = made + 1
  /\ identity' = {} /\ misread' = FALSE
  /\ UNCHANGED <<idpFile, written, up, free, caches, kind, pc, pair, doc, resp, onDisk>>

(* The IdP's document is rewritten in place (fakeidp init, or by hand): a  *)
(* truncation and a write.  A writer that dies in between leaves it Torn,  *)
(* and ensureFakeIDP, which only looks whether the file exists, leaves it  *)
(* so.                                                                     *)
TruncateIdp ==
  /\ idpFile # Torn /\ written < MaxDoc
  /\ idpFile' = Torn
  /\ UNCHANGED <<keyFile, certFile, made, written, up, free, caches, kind, pc, pair, doc, resp, history>>

WriteIdp ==
  /\ idpFile = Torn
  /\ idpFile' = written + 1 /\ written' = written + 1
  /\ onDisk' = IF up THEN onDisk \union {written + 1} ELSE {}
  /\ UNCHANGED <<keyFile, certFile, made, up, free, caches, kind, pc, pair, doc, resp, identity, misread>>

LoadStep(h) == LoadFails(h) \/ Load(h) \/ Generate(h) \/ WritePair(h) \/ WriteFails(h)
Step(h) == SpFor(h) \/ LoadStep(h) \/ Publish(h) \/ IdpFor(h) \/ ReadIdp(h) \/ StoreIdp(h) \/ Use(h)

Next ==
  \/ \E h \in Handlers : Arrive(h) \/ Step(h)
  \/ Start \/ Crash \/ Provision \/ TruncateIdp \/ WriteIdp

Spec == Init /\ [][Next]_vars

(* A handler that can run is run, and sync.Mutex hands itself to a waiter  *)
(* that has waited long enough.                                            *)
FairSpec ==
  /\ Spec
  /\ \A h \in Handlers :
       /\ WF_vars(LoadStep(h) \/ Publish(h) \/ ReadIdp(h) \/ Use(h))
       /\ SF_vars(SpFor(h)) /\ SF_vars(IdpFor(h)) /\ SF_vars(StoreIdp(h))

-----------------------------------------------------------------------------
Kinds  == {"none", "metadata", "login", "acs"}
Writes == {"openKey", "writeKey", "openCert", "writeCert"}
Steps  == {"idle", "spFor", "load", "publish", "idpFor", "readIdp", "storeIdp", "use"} \union Writes
Responses == {"none", "ok", "parseError", "writeError", "unavailable", "noRedirect"}
Files(n) == {Torn} \union 0 .. n

(* Files, caches and handlers hold pairs and documents that exist.         *)
TypeOK ==
  /\ made \in 0 .. MaxPair /\ written \in 0 .. MaxDoc
  /\ keyFile \in Files(made) /\ certFile \in Files(made) /\ idpFile \in Files(written)
  /\ up \in BOOLEAN /\ free \in BOOLEAN /\ misread \in BOOLEAN
  /\ sp \in [key : 0 .. made, cert : 0 .. made] /\ idp \in 0 .. written
  /\ kind \in [Handlers -> Kinds] /\ pc \in [Handlers -> Steps]
  /\ pair \in [Handlers -> 0 .. made] /\ doc \in [Handlers -> 0 .. written]
  /\ resp \in [Handlers -> Responses]
  /\ identity \subseteq 1 .. made /\ onDisk \subseteq 1 .. written

(* Key and certificate of a tenant belong together, in the cache and, once *)
(* both are written, on disk, although LoadOrCreateSPKeyPair never checks  *)
(* it and a stop may come between any two writes.  This, and the next two, *)
(* unless an existing file could not be read: then the pair is replaced.   *)
PairMatches ==
  ~misread =>
    /\ sp.key = sp.cert
    /\ keyFile > 0 /\ certFile > 0 => keyFile = certFile

(* What the IdP was given to verify requests with and what requests are    *)
(* signed with is one pair, over all restarts, until the administrator     *)
(* installs another: nothing goes out before both files are complete.      *)
OneIdentity == ~misread => \A p, q \in identity : p = q

(* The files stop the service provider from coming up only when a write of *)
(* the certificate was cut short: everything else a stop can leave behind  *)
(* is replaced by the next call.                                           *)
OnlyTornCertBlocks ==
  \A h \in Handlers : ~misread /\ resp[h] = "parseError" => certFile = Torn /\ keyFile > 0

(* The IdP document a handler uses was on disk, complete, at some time     *)
(* since the process started, however reads overlap rewrites and each      *)
(* other: a rotation is seen by the next process at the latest.            *)
MetadataSinceStart ==
  \A h \in Handlers : pc[h] = "use" => doc[h] \in onDisk

(* Every request is answered, or ended by a stop of the process: the       *)
(* mutex held over file operations is released on every path.              *)
AllAnswered == \A h \in Handlers : pc[h] # "idle" ~> pc[h] = "idle"
=============================================================================

---------------------------- MODULE DiscoveryCache ----------------------------
(***************************************************************************)
(* internal/oidc/discovery.go: the per-issuer cache of provider metadata   *)
(* and of signing keys.  Metadata and JWKS are the same algorithm on two   *)
(* maps; this module is one entry of either, for one issuer.  The mutex is *)
(* held only to look an entry up and to store one, so fetches of several   *)
(* handlers overlap and the last to store wins.                            *)
(*                                                                         *)
(* The provider's document is a version number, raised by a rotation.      *)
(* Time is kept as ages: ticks since something happened, up to the age     *)
(* beyond which the code no longer tells them apart.                       *)
(***************************************************************************)
EXTENDS Integers

CONSTANTS
  Callers,     \* handlers calling Metadata or JWKS
  TTL,         \* handlers.go:32, 10 minutes
  MaxFetch,    \* longest fetch, from the lookup that misses to its store
  MaxVersion   \* bound on rotations, for TLC

ASSUME CacheAssumption ==
  TTL \in Nat \ {0} /\ MaxFetch \in Nat /\ MaxVersion \in Nat

VARIABLES
  version,   \* the document the provider serves
  staleFor,  \* staleFor[v]: age of the end of version v (0 while it is served)
  entry,     \* the map entry: present, its version and the age of fetchedAt
  pc,        \* pc[c]: "idle", "fetching", "storing" or "use"
  elapsed,   \* elapsed[c]: age of c's fetch
  got,       \* got[c]: the version c has read or was given
  gotStale,  \* history: staleFor[got[c]] when Metadata or JWKS returned it
  floor      \* history: the version served at the last start of the process

vars == <<version, staleFor, entry, pc, elapsed, got, gotStale, floor>>

Versions == 0 .. MaxVersion
StaleCap == TTL + MaxFetch

Older(age, cap) == IF age < cap THEN age + 1 ELSE cap

Init ==
  /\ version = 0
  /\ staleFor = [v \in Versions |-> 0]
  /\ entry = [present |-> FALSE, version |-> 0, age |-> 0]
  /\ pc = [c \in Callers |-> "idle"]
  /\ elapsed = [c \in Callers |-> 0]
  /\ got = [c \in Callers |-> 0]
  /\ gotStale = [c \in Callers |-> 0]
  /\ floor = 0

\* time.Since(fetchedAt) < ttl
Valid == entry.present /\ entry.age < TTL

\* The call returns version v.
Return(c, v) ==
  /\ pc' = [pc EXCEPT ![c] = "use"]
  /\ got' = [got EXCEPT ![c] = v]
  /\ gotStale' = [gotStale EXCEPT ![c] = staleFor[v]]

\* Mutant: a hit renews the entry (sliding expiry).
HitRenews(c) ==
  /\ pc[c] = "idle" /\ Valid
  /\ Return(c, entry.version)
  /\ entry' = [entry EXCEPT !.age = 0]
  /\ UNCHANGED <<version, staleFor, elapsed, floor>>

(* The lookup under the mutex finds an entry younger than the TTL.         *)
Hit(c) ==
  /\ pc[c] = "idle" /\ Valid
  /\ Return(c, entry.version)
  /\ UNCHANGED <<version, staleFor, entry, elapsed, floor>>

(* The lookup finds none: the mutex is released and a GET is sent.         *)
Miss(c) ==
  /\ pc[c] = "idle" /\ ~Valid
  /\ pc' = [pc EXCEPT ![c] = "fetching"]
  /\ elapsed' = [elapsed EXCEPT ![c] = 0]
  /\ UNCHANGED <<version, staleFor, entry, got, gotStale, floor>>

(* The provider answers 200 with the document it serves now.               *)
Serve(c) ==
  /\ pc[c] = "fetching"
  /\ pc' = [pc EXCEPT ![c] = "storing"]
  /\ got' = [got EXCEPT ![c] = version]
  /\ UNCHANGED <<version, staleFor, entry, elapsed, gotStale, floor>>

(* The document is decoded, stored under the mutex as fetched now, and     *)
(* returned.                                                               *)
Store(c) ==
  /\ pc[c] = "storing"
  /\ entry' = [present |-> TRUE, version |-> got[c], age |-> 0]
  /\ Return(c, got[c])
  /\ UNCHANGED <<version, staleFor, elapsed, floor>>

(* The fetch fails: timeout, status, JSON or the wrong issuer.  Nothing    *)
(* is stored and the handler answers 502.                                  *)
Fail(c) ==
  /\ pc[c] \in {"fetching", "storing"}
  /\ pc' = [pc EXCEPT ![c] = "idle"]
  /\ UNCHANGED <<version, staleFor, entry, elapsed, got, gotStale, floor>>

\* The handler has used the document; the caller is free for another request.
Finish(c) ==
  /\ pc[c] = "use"
  /\ pc' = [pc EXCEPT ![c] = "idle"]
  /\ UNCHANGED <<version, staleFor, entry, elapsed, got, gotStale, floor>>

\* The provider rotates its keys or changes its metadata.
Rotate ==
  /\ version < MaxVersion
  /\ version' = version + 1
  /\ UNCHANGED <<staleFor, entry, pc, elapsed, got, gotStale, floor>>

\* Mutant: the entry survives a restart.
RestartKeepsEntry ==
  /\ pc' = [c \in Callers |-> "idle"]
  /\ floor' = version
  /\ UNCHANGED <<version, staleFor, entry, elapsed, got, gotStale>>

\* The process restarts: NewDiscoveryCache makes empty maps.
Restart ==
  /\ entry' = [entry EXCEPT !.present = FALSE]
  /\ pc' = [c \in Callers |-> "idle"]
  /\ floor' = version
  /\ UNCHANGED <<version, staleFor, elapsed, got, gotStale>>

\* Mutant: an http.Client without Timeout, so a fetch may last for ever.
TickNoTimeout ==
  /\ staleFor' = [v \in Versions |-> IF v < version THEN Older(staleFor[v], StaleCap) ELSE 0]
  /\ entry' = [entry EXCEPT !.age = Older(@, TTL)]
  /\ elapsed' = [c \in Callers |->
                   IF pc[c] \in {"fetching", "storing"} THEN elapsed[c] + 1 ELSE elapsed[c]]
  /\ UNCHANGED <<version, pc, got, gotStale, floor>>

\* A tick of the clock; no fetch outlives MaxFetch.
Tick ==
  /\ \A c \in Callers : pc[c] \in {"fetching", "storing"} => elapsed[c] < MaxFetch
  /\ staleFor' = [v \in Versions |-> IF v < version THEN Older(staleFor[v], StaleCap) ELSE 0]
  /\ entry' = [entry EXCEPT !.age = Older(@, TTL)]
  /\ elapsed' = [c \in Callers |->
                   IF pc[c] \in {"fetching", "storing"} THEN elapsed[c] + 1 ELSE elapsed[c]]
  /\ UNCHANGED <<version, pc, got, gotStale, floor>>

Step(c) == Hit(c) \/ Miss(c) \/ Serve(c) \/ Store(c) \/ Fail(c) \/ Finish(c)

Next ==
  \/ \E c \in Callers : Step(c)
  \/ Rotate \/ Restart \/ Tick

Spec == Init /\ [][Next]_vars

\* Time passes, and a call that has begun ends.
FairSpec ==
  /\ Spec
  /\ WF_vars(Tick)
  /\ \A c \in Callers : WF_vars(Serve(c) \/ Store(c) \/ Fail(c) \/ Finish(c))

-----------------------------------------------------------------------------
(* The entry, the calls and the ages keep to their types and caps.         *)
TypeOK ==
  /\ version \in Versions /\ floor \in Versions
  /\ staleFor \in [Versions -> 0 .. StaleCap]
  /\ entry \in [present : BOOLEAN, version : Versions, age : 0 .. TTL]
  /\ pc \in [Callers -> {"idle", "fetching", "storing", "use"}]
  /\ elapsed \in [Callers -> 0 .. MaxFetch]
  /\ got \in [Callers -> Versions]
  /\ gotStale \in [Callers -> 0 .. StaleCap]

(* A document that Metadata or JWKS returns was the provider's own less    *)
(* than TTL plus one fetch ago, although fetchedAt is the time of the      *)
(* store and a slow fetch may replace a newer entry by an older one.       *)
BoundedStaleness ==
  \A c \in Callers : pc[c] = "use" => gotStale[c] < StaleCap

(* discovery.go:24, a restart always picks up rotated signing keys: no     *)
(* call returns a document that was replaced before the process started.   *)
RestartFresh ==
  \A c \in Callers : pc[c] = "use" => got[c] >= floor

(* When the provider stops rotating, calls end up with its last document   *)
(* for good, however hits, misses and slow fetches interleave.             *)
RotationSeen ==
  <>[](\A c \in Callers : pc[c] = "use" => got[c] = version)
=============================================================================

------------------------- MODULE DiscoveryCacheProofs -------------------------
(* Theorems about DiscoveryCache, for any number of handlers, rotations    *)
(* and restarts and every TTL and fetch time.                              *)
EXTENDS DiscoveryCache, TLAPS

(* The staleness of what a call holds is bounded by the age of its fetch,  *)
(* and that of the entry by its own age plus one whole fetch.              *)
FetchInv ==
  \A c \in Callers : pc[c] = "storing" => staleFor[got[c]] <= elapsed[c]

EntryInv ==
  entry.present => staleFor[entry.version] <= entry.age + MaxFetch

StaleInv == TypeOK /\ FetchInv /\ EntryInv /\ BoundedStaleness

(* The versions in play are numbers, the served one is not stale, and      *)
(* everything read since the last start is at least the version of then.   *)
FloorInv ==
  /\ TypeOK
  /\ floor <= version
  /\ entry.present => entry.version >= floor
  /\ \A c \in Callers : pc[c] = "storing" => got[c] >= floor
  /\ RestartFresh

CurrentInv == \A v \in Versions : v >= version => staleFor[v] = 0

LEMMA OlderType ==
  ASSUME NEW cap \in Nat, NEW a \in 0 .. cap
  PROVE  Older(a, cap) \in 0 .. cap /\ (Older(a, cap) = a + 1 \/ (a = cap /\ Older(a, cap) = cap))
  BY DEF Older

LEMMA CacheTypeInit == Init => TypeOK
  BY CacheAssumption DEF Init, TypeOK, Versions, StaleCap

LEMMA CacheTypeStep == TypeOK /\ [Next]_vars => TypeOK'
  <1> SUFFICES ASSUME TypeOK, [Next]_vars PROVE TypeOK'
    OBVIOUS
  <1> USE CacheAssumption DEF TypeOK
  <1>a. StaleCap \in Nat
    BY DEF StaleCap
  <1>1. ASSUME NEW c \in Callers, Hit(c) PROVE TypeOK'
    BY <1>1 DEF Hit, Return
  <1>2. ASSUME NEW c \in Callers, Miss(c) PROVE TypeOK'
    BY <1>2 DEF Miss
  <1>3. ASSUME NEW c \in Callers, Serve(c) PROVE TypeOK'
    BY <1>3 DEF Serve
  <1>4. ASSUME NEW c \in Callers, Store(c) PROVE TypeOK'
    <2>1. got[c] \in Versions /\ 0 \in 0 .. TTL
      OBVIOUS
    <2> QED BY <1>4, <2>1 DEF Store, Return
  <1>5. ASSUME NEW c \in Callers, Fail(c) PROVE TypeOK'
    BY <1>5 DEF Fail
  <1>6. ASSUME NEW c \in Callers, Finish(c) PROVE TypeOK'
    BY <1>6 DEF Finish
  <1>7. CASE Rotate
    BY <1>7 DEF Rotate, Versions
  <1>8. CASE Restart
    BY <1>8 DEF Restart
  <1>9. CASE Tick
    <2>1. staleFor' \in [Versions -> 0 .. StaleCap]
      BY <1>9, <1>a, OlderType DEF Tick
    <2>2. entry' \in [present : BOOLEAN, version : Versions, age : 0 .. TTL]
      BY <1>9, OlderType DEF Tick
    <2>3. elapsed' \in [Callers -> 0 .. MaxFetch]
      BY <1>9 DEF Tick
    <2> QED BY <1>9, <2>1, <2>2, <2>3 DEF Tick
  <1>10. CASE UNCHANGED vars
    BY <1>10 DEF vars
  <1> QED BY <1>1, <1>2, <1>3, <1>4, <1>5, <1>6, <1>7, <1>8, <1>9, <1>10 DEF Next, Step

(* The entry, the calls and the ages keep to their types and caps.         *)
THEOREM CacheTypeCorrect == Spec => []TypeOK
  BY CacheTypeInit, CacheTypeStep, PTL DEF Spec

-----------------------------------------------------------------------------
(* What the provider serves is never stale.                                *)
LEMMA CurrentStep == TypeOK /\ CurrentInv /\ [Next]_vars => CurrentInv'
  <1> SUFFICES ASSUME TypeOK, CurrentInv, [Next]_vars PROVE CurrentInv'
    OBVIOUS
  <1>1. CASE Tick
    <2>1. \A v \in Versions : v \in Int /\ version \in Int
      BY CacheAssumption DEF TypeOK, Versions
    <2>2. version' = version /\ \A v \in Versions : ~(v < version) => staleFor'[v] = 0
      BY <1>1 DEF Tick
    <2> QED BY <2>1, <2>2 DEF CurrentInv
  <1>2. CASE Rotate
    <2>1. version \in Int /\ version' = version + 1 /\ staleFor' = staleFor
      BY <1>2, CacheAssumption DEF Rotate, TypeOK, Versions
    <2>2. \A v \in Versions : v >= version' => v >= version
      BY <2>1, CacheAssumption DEF Versions
    <2> QED BY <2>1, <2>2 DEF CurrentInv
  <1>3. CASE UNCHANGED <<version, staleFor>>
    BY <1>3 DEF CurrentInv
  <1> QED BY <1>1, <1>2, <1>3 DEF Next, Step, Hit, Miss, Serve, Store, Fail, Finish, Restart, vars

LEMMA StaleStep == StaleInv /\ CurrentInv /\ [Next]_vars => StaleInv'
  <1> SUFFICES ASSUME StaleInv, CurrentInv, [Next]_vars PROVE StaleInv'
    OBVIOUS
  <1>a. TypeOK /\ TypeOK'
    BY CacheTypeStep DEF StaleInv
  <1>b. /\ TTL \in Nat \ {0} /\ MaxFetch \in Nat /\ StaleCap = TTL + MaxFetch
        /\ entry.age \in 0 .. TTL /\ entry.version \in Versions
        /\ \A v \in Versions : staleFor[v] \in 0 .. StaleCap
        /\ \A c \in Callers : elapsed[c] \in 0 .. MaxFetch /\ got[c] \in Versions
                              /\ gotStale[c] \in 0 .. StaleCap
    BY <1>a, CacheAssumption DEF TypeOK, StaleCap
  <1>1. ASSUME NEW c \in Callers, Hit(c) PROVE StaleInv'
    <2>1. staleFor[entry.version] < StaleCap
      BY <1>1, <1>b DEF Hit, Valid, StaleInv, EntryInv
    <2>2. BoundedStaleness'
      BY <1>1, <1>a, <2>1 DEF Hit, Return, StaleInv, BoundedStaleness, TypeOK
    <2>3. FetchInv' /\ EntryInv'
      BY <1>1, <1>a DEF Hit, Return, StaleInv, FetchInv, EntryInv, TypeOK
    <2> QED BY <1>a, <2>2, <2>3 DEF StaleInv
  <1>2. ASSUME NEW c \in Callers, Miss(c) PROVE StaleInv'
    BY <1>2, <1>a DEF Miss, StaleInv, FetchInv, EntryInv, BoundedStaleness, TypeOK
  <1>3. ASSUME NEW c \in Callers, Serve(c) PROVE StaleInv'
    <2>1. staleFor[version] = 0
      BY <1>a DEF CurrentInv, TypeOK, Versions
    <2>2. FetchInv'
      BY <1>3, <1>a, <1>b, <2>1 DEF Serve, StaleInv, FetchInv, TypeOK
    <2>3. EntryInv' /\ BoundedStaleness'
      BY <1>3, <1>a DEF Serve, StaleInv, EntryInv, BoundedStaleness, TypeOK
    <2> QED BY <1>a, <2>2, <2>3 DEF StaleInv
  <1>4. ASSUME NEW c \in Callers, Store(c) PROVE StaleInv'
    <2>1. staleFor[got[c]] <= MaxFetch /\ staleFor[got[c]] < StaleCap
      BY <1>4, <1>b DEF Store, StaleInv, FetchInv
    <2>2. EntryInv'
      BY <1>4, <1>b, <2>1 DEF Store, EntryInv
    <2>3. FetchInv' /\ BoundedStaleness'
      BY <1>4, <1>a, <2>1 DEF Store, Return, StaleInv, FetchInv, BoundedStaleness, TypeOK
    <2> QED BY <1>a, <2>2, <2>3 DEF StaleInv
  <1>5. ASSUME NEW c \in Callers, Fail(c) \/ Finish(c) PROVE StaleInv'
    BY <1>5, <1>a DEF Fail, Finish, StaleInv, FetchInv, EntryInv, BoundedStaleness, TypeOK
  <1>6. CASE Rotate
    BY <1>6, <1>a DEF Rotate, StaleInv, FetchInv, EntryInv, BoundedStaleness
  <1>7. CASE Restart
    BY <1>7, <1>a DEF Restart, StaleInv, FetchInv, EntryInv, BoundedStaleness, TypeOK
  <1>8. CASE Tick
    <2>1. \A v \in Versions : staleFor'[v] \in Nat /\ staleFor'[v] <= staleFor[v] + 1
                              /\ staleFor'[v] <= StaleCap
      BY <1>8, <1>a, <1>b DEF Tick, TypeOK, Older
    <2>2. FetchInv'
      <3>1. \A c \in Callers : pc[c] = "storing" => elapsed'[c] = elapsed[c] + 1
        BY <1>8 DEF Tick
      <3> QED BY <1>8, <1>b, <2>1, <3>1 DEF Tick, StaleInv, FetchInv
    <2>3. EntryInv'
      <3>1. /\ entry'.present = entry.present /\ entry'.version = entry.version
            /\ entry'.age = Older(entry.age, TTL)
        BY <1>8, <1>a DEF Tick, TypeOK
      <3>2. entry'.age = entry.age + 1 \/ (entry.age = TTL /\ entry'.age = TTL)
        BY <3>1, <1>b DEF Older
      <3>3. ASSUME entry.present
            PROVE  staleFor'[entry.version] <= entry'.age + MaxFetch
        <4>1. staleFor[entry.version] <= entry.age + MaxFetch
          BY <3>3 DEF StaleInv, EntryInv
        <4> QED BY <4>1, <3>2, <2>1, <1>b
      <3> QED BY <3>1, <3>3 DEF EntryInv
    <2>4. BoundedStaleness'
      BY <1>8 DEF Tick, StaleInv, BoundedStaleness
    <2> QED BY <1>a, <2>2, <2>3, <2>4 DEF StaleInv
  <1>9. CASE UNCHANGED vars
    BY <1>9, <1>a DEF vars, StaleInv, FetchInv, EntryInv, BoundedStaleness, TypeOK
  <1> QED BY <1>1, <1>2, <1>3, <1>4, <1>5, <1>6, <1>7, <1>8, <1>9 DEF Next, Step

(* No call of Metadata or JWKS returns a document the provider replaced    *)
(* TTL plus one fetch ago or earlier.                                      *)
THEOREM StalenessTheorem == Spec => []BoundedStaleness
  <1>1. Init => StaleInv /\ CurrentInv
    BY CacheTypeInit, CacheAssumption
       DEF Init, StaleInv, CurrentInv, FetchInv, EntryInv, BoundedStaleness
  <1>2. StaleInv /\ CurrentInv /\ [Next]_vars => (StaleInv /\ CurrentInv)'
    BY StaleStep, CurrentStep DEF StaleInv
  <1>3. StaleInv => BoundedStaleness
    BY DEF StaleInv
  <1> QED BY <1>1, <1>2, <1>3, PTL DEF Spec

-----------------------------------------------------------------------------
LEMMA FloorStep == FloorInv /\ [Next]_vars => FloorInv'
  <1> SUFFICES ASSUME FloorInv, [Next]_vars PROVE FloorInv'
    OBVIOUS
  <1>a. TypeOK /\ TypeOK'
    BY CacheTypeStep DEF FloorInv
  <1>b. /\ version \in Int /\ floor \in Int /\ entry.version \in Int
        /\ \A c \in Callers : got[c] \in Int
    BY <1>a, CacheAssumption DEF TypeOK, Versions
  <1> USE <1>a, <1>b DEF FloorInv, RestartFresh
  <1>1. ASSUME NEW c \in Callers, Hit(c) PROVE FloorInv'
    BY <1>1 DEF Hit, Valid, Return, TypeOK
  <1>2. ASSUME NEW c \in Callers, Miss(c) PROVE FloorInv'
    BY <1>2 DEF Miss, TypeOK
  <1>3. ASSUME NEW c \in Callers, Serve(c) PROVE FloorInv'
    BY <1>3 DEF Serve, TypeOK
  <1>4. ASSUME NEW c \in Callers, Store(c) PROVE FloorInv'
    BY <1>4 DEF Store, Return, TypeOK
  <1>5. ASSUME NEW c \in Callers, Fail(c) \/ Finish(c) PROVE FloorInv'
    BY <1>5 DEF Fail, Finish, TypeOK
  <1>6. CASE Rotate
    BY <1>6 DEF Rotate
  <1>7. CASE Restart
    BY <1>7 DEF Restart, TypeOK
  <1>8. CASE Tick
    BY <1>8 DEF Tick, TypeOK
  <1>9. CASE UNCHANGED vars
    BY <1>9 DEF vars
  <1> QED BY <1>1, <1>2, <1>3, <1>4, <1>5, <1>6, <1>7, <1>8, <1>9 DEF Next, Step

(* discovery.go:24: after a restart no call returns a document replaced    *)
(* before it.                                                              *)
THEOREM RestartTheorem == Spec => []RestartFresh
  <1>1. Init => FloorInv
    BY CacheTypeInit DEF Init, FloorInv, RestartFresh
  <1>2. FloorInv => RestartFresh
    BY DEF FloorInv
  <1> QED BY <1>1, <1>2, FloorStep, PTL DEF Spec

-----------------------------------------------------------------------------
\* Nothing was read that the provider has not served yet.
ServedInv ==
  /\ entry.version <= version
  /\ \A c \in Callers : got[c] <= version

LEMMA ServedStep == TypeOK /\ ServedInv /\ [Next]_vars => ServedInv'
  <1> SUFFICES ASSUME TypeOK, ServedInv, [Next]_vars PROVE ServedInv'
    OBVIOUS
  <1>a. /\ version \in Int /\ entry.version \in Int
        /\ \A c \in Callers : got[c] \in Int
    BY CacheAssumption DEF TypeOK, Versions
  <1> USE <1>a DEF ServedInv, TypeOK
  <1>1. ASSUME NEW c \in Callers, Hit(c) \/ Miss(c) PROVE ServedInv'
    BY <1>1 DEF Hit, Miss, Return
  <1>2. ASSUME NEW c \in Callers, Serve(c) PROVE ServedInv'
    BY <1>2 DEF Serve
  <1>3. ASSUME NEW c \in Callers, Store(c) PROVE ServedInv'
    BY <1>3 DEF Store, Return
  <1>4. ASSUME NEW c \in Callers, Fail(c) \/ Finish(c) PROVE ServedInv'
    BY <1>4 DEF Fail, Finish
  <1>5. CASE Rotate
    BY <1>5 DEF Rotate
  <1>6. CASE Restart
    BY <1>6 DEF Restart
  <1>7. CASE Tick
    BY <1>7 DEF Tick
  <1>8. CASE UNCHANGED vars
    BY <1>8 DEF vars
  <1> QED BY <1>1, <1>2, <1>3, <1>4, <1>5, <1>6, <1>7, <1>8 DEF Next, Step

\* The provider has served its document for TTL and one fetch.
Settled == \A v \in Versions : v < version => staleFor[v] >= StaleCap

\* A call of Metadata or JWKS that returns then returns that document.
ReturnsCurrent ==
  \A c \in Callers : Settled /\ pc[c] # "use" /\ pc'[c] = "use" => got'[c] = version

(* How soon a rotation is seen: once the provider has served a document    *)
(* for the TTL and one fetch, every call that returns, from the cache or   *)
(* after a fetch, returns it, however slow fetches and stores of earlier   *)
(* documents were overlapping.  RotationSeen without the bound is left to  *)
(* TLC, as it needs time to pass.                                          *)
THEOREM RotationTheorem == Spec => [][ReturnsCurrent]_vars
  <1> DEFINE Inv == StaleInv /\ CurrentInv /\ ServedInv
  <1>1. Init => Inv
    BY CacheTypeInit, CacheAssumption
       DEF Init, StaleInv, CurrentInv, FetchInv, EntryInv, BoundedStaleness, ServedInv
  <1>2. Inv /\ [Next]_vars => Inv'
    BY StaleStep, CurrentStep, ServedStep DEF StaleInv
  <1>3. ASSUME Inv, Next
        PROVE  ReturnsCurrent
    <2> SUFFICES ASSUME NEW c \in Callers, Settled, pc[c] # "use", pc'[c] = "use"
                 PROVE  got'[c] = version
      BY DEF ReturnsCurrent
    <2>a. /\ TTL \in Nat \ {0} /\ MaxFetch \in Nat /\ StaleCap = TTL + MaxFetch
          /\ entry.age \in 0 .. TTL /\ entry.version \in Versions
          /\ \A v \in Versions : v \in Nat /\ staleFor[v] \in Nat
          /\ elapsed[c] \in 0 .. MaxFetch /\ got[c] \in Versions
          /\ version \in Versions
          /\ pc \in [Callers -> {"idle", "fetching", "storing", "use"}]
          /\ got \in [Callers -> Versions]
      BY <1>3, CacheAssumption DEF StaleInv, TypeOK, StaleCap, Versions
    <2>b. \A v \in Versions : v <= version /\ staleFor[v] < StaleCap => v = version
      BY <2>a DEF Settled
    <2>1. Hit(c) \/ Store(c)
      BY <1>3, <2>a DEF Next, Step, Hit, Miss, Serve, Store, Fail, Finish, Return,
                        Rotate, Restart, Tick
    <2>2. CASE Hit(c)
      <3>1. staleFor[entry.version] < StaleCap /\ entry.version <= version
        BY <1>3, <2>2, <2>a DEF Hit, Valid, StaleInv, EntryInv, ServedInv
      <3> QED BY <2>2, <2>a, <2>b, <3>1 DEF Hit, Return
    <2>3. CASE Store(c)
      <3>1. staleFor[got[c]] < StaleCap /\ got[c] <= version
        BY <1>3, <2>3, <2>a DEF Store, StaleInv, FetchInv, ServedInv
      <3> QED BY <2>3, <2>a, <2>b, <3>1 DEF Store, Return
    <2> QED BY <2>1, <2>2, <2>3
  <1>4. Inv /\ [Next]_vars => [ReturnsCurrent]_vars
    BY <1>3
  <1> HIDE DEF Inv
  <1> QED BY <1>1, <1>2, <1>4, PTL DEF Spec
=============================================================================

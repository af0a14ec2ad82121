---------------------------- MODULE ScimListProofs ----------------------------
(* Theorems about ScimList, for every filter and whatever it selects, every *)
(* finite set of users, all keys, counts and limits of a page, and any     *)
(* number of writes between two pages.                                     *)
EXTENDS ScimList, FiniteSetTheorems, WellFoundedInduction, TLAPS

\* A finite set of users with distinct keys t.
Listing(t, m) ==
  /\ IsFiniteSet(m)
  /\ \A u \in m : t[u] \in Int
  /\ \A u, v \in m : t[u] = t[v] => u = v

LEMMA AddOne ==
  ASSUME NEW S, NEW T, IsFiniteSet(T), \A x, y \in S \ T : x = y
  PROVE  IsFiniteSet(S) /\ Cardinality(S) <= Cardinality(T) + 1
  <1>0. Cardinality(T) \in Nat
    BY FS_CardinalityType
  <1>1. CASE S \subseteq T
    <2>1. S \in SUBSET T
      BY <1>1
    <2>2. IsFiniteSet(S) /\ Cardinality(S) <= Cardinality(T)
      BY <2>1, FS_Subset
    <2>3. Cardinality(S) \in Nat
      BY <2>2, FS_CardinalityType
    <2> QED BY <1>0, <2>2, <2>3
  <1>2. CASE ~(S \subseteq T)
    <2>1. PICK x : x \in S \ T
      BY <1>2
    <2>2. S \in SUBSET (T \union {x})
      BY <2>1
    <2>3. IsFiniteSet(T \union {x}) /\ Cardinality(T \union {x}) = Cardinality(T) + 1
      BY <2>1, FS_AddElement
    <2> QED BY <2>2, <2>3, FS_Subset
  <1> QED BY <1>1, <1>2

LEMMA IndexType ==
  ASSUME NEW t, NEW m, Listing(t, m), NEW u \in m
  PROVE  /\ Index(t, m, u) \in Nat /\ Index(t, m, u) < Cardinality(m)
         /\ IsFiniteSet({v \in m : t[v] < t[u]})
  <1> DEFINE B == {v \in m : t[v] < t[u]}
  <1>1. B \in SUBSET m /\ B # m
    BY DEF Listing
  <1>2. IsFiniteSet(B) /\ Cardinality(B) <= Cardinality(m) /\ Cardinality(B) # Cardinality(m)
    BY <1>1, FS_Subset DEF Listing
  <1>3. Cardinality(B) \in Nat /\ Cardinality(m) \in Nat
    BY <1>2, FS_CardinalityType DEF Listing
  <1> QED BY <1>2, <1>3 DEF Index

(* Indexes are in the order of the keys.                                   *)
LEMMA IndexLess ==
  ASSUME NEW t, NEW m, Listing(t, m), NEW u \in m, NEW v \in m, t[u] < t[v]
  PROVE  Index(t, m, u) < Index(t, m, v)
  <1> DEFINE B(x) == {w \in m : t[w] < t[x]}
  <1>1. B(u) \in SUBSET B(v) /\ u \in B(v) /\ u \notin B(u)
    BY DEF Listing
  <1>2. IsFiniteSet(B(v)) /\ Cardinality(B(u)) \in Nat /\ Cardinality(B(v)) \in Nat
    BY IndexType DEF Index
  <1> HIDE DEF B
  <1>3. Cardinality(B(u)) <= Cardinality(B(v)) /\ Cardinality(B(u)) # Cardinality(B(v))
    BY <1>1, <1>2, FS_Subset
  <1> QED BY <1>2, <1>3 DEF Index, B

LEMMA IndexInjective ==
  ASSUME NEW t, NEW m, Listing(t, m), NEW u \in m, NEW v \in m, Index(t, m, u) = Index(t, m, v)
  PROVE  u = v
  <1>1. t[u] \in Int /\ t[v] \in Int /\ (t[u] = t[v] => u = v)
    BY DEF Listing
  <1>2. Index(t, m, u) \in Nat /\ Index(t, m, v) \in Nat
    BY IndexType
  <1> QED BY <1>1, <1>2, IndexLess

(* No more users than indexes between a and b.                             *)
LEMMA Window ==
  ASSUME NEW t, NEW m, Listing(t, m), NEW a \in Nat, NEW b \in Nat, a <= b
  PROVE  LET W == {u \in m : a <= Index(t, m, u) /\ Index(t, m, u) < b}
         IN  IsFiniteSet(W) /\ Cardinality(W) \in Nat /\ Cardinality(W) <= b - a
  <1> DEFINE W == {u \in m : a <= Index(t, m, u) /\ Index(t, m, u) < b}
             f == [u \in W |-> Index(t, m, u)]
  <1>1. f \in Injection(W, a .. b - 1)
    <2>1. ASSUME NEW u \in W PROVE Index(t, m, u) \in a .. b - 1
      <3>1. u \in m /\ Index(t, m, u) \in Nat
        BY IndexType
      <3> QED BY <3>1
    <2>2. \A u, v \in W : Index(t, m, u) = Index(t, m, v) => u = v
      BY IndexInjective
    <2> HIDE DEF W
    <2>3. f \in [W -> a .. b - 1]
      BY <2>1
    <2>4. \A u, v \in W : f[u] = f[v] => u = v
      BY <2>2
    <2> HIDE DEF f
    <2> QED BY <2>3, <2>4 DEF Injection, IsInjective
  <1>2. IsFiniteSet(a .. b - 1) /\ Cardinality(a .. b - 1) = b - a
    <2>1. b - 1 \in Int /\ a \in Int
      OBVIOUS
    <2>2. IsFiniteSet(a .. (b - 1))
          /\ Cardinality(a .. (b - 1)) = IF a > b - 1 THEN 0 ELSE (b - 1) - a + 1
      BY <2>1, FS_Interval
    <2> QED BY <2>2
  <1>3. IsFiniteSet(W) /\ Cardinality(W) <= b - a
    BY <1>1, <1>2, FS_Injection
  <1> QED BY <1>3, FS_CardinalityType

(* The users of a page have the indexes that follow lo without a gap.      *)
LEMMA PageEnd ==
  ASSUME NEW m, Listing(table, m), NEW lo \in Nat, NEW n \in Nat, NEW u \in Page(m, lo, n)
  PROVE  Index(table, m, u) < lo + Cardinality(Page(m, lo, n))
  <1> DEFINE P    == Page(m, lo, n)
             L    == {v \in m : 0 <= Index(table, m, v) /\ Index(table, m, v) < lo}
             B    == {v \in m : table[v] < table[u]}
  <1>1. u \in m /\ lo <= Index(table, m, u) /\ Index(table, m, u) < lo + n
    BY DEF Page
  <1>2. IsFiniteSet(L) /\ Cardinality(L) \in Nat /\ Cardinality(L) <= lo
    BY Window
  <1>3. IsFiniteSet(P) /\ Cardinality(P) \in Nat
    BY Window DEF Page
  <1>4. B \subseteq L \union (P \ {u})
    <2>1. SUFFICES ASSUME NEW v \in m, table[v] < table[u], v \notin L PROVE v \in P \ {u}
      OBVIOUS
    <2>2. Index(table, m, v) < Index(table, m, u) /\ Index(table, m, v) \in Nat
          /\ Index(table, m, u) \in Nat
      BY <1>1, <2>1, IndexLess, IndexType
    <2> QED BY <1>1, <2>1, <2>2 DEF Page
  <1>5. IsFiniteSet(P \ {u}) /\ Cardinality(P \ {u}) = Cardinality(P) - 1
    BY <1>3, FS_RemoveElement
  <1> HIDE DEF P, L
  <1>6. IsFiniteSet(L \union (P \ {u}))
        /\ Cardinality(L \union (P \ {u})) <= Cardinality(L) + Cardinality(P \ {u})
    <2>1. Cardinality(L \intersect (P \ {u})) \in Nat
      BY <1>2, <1>5, FS_Intersection, FS_CardinalityType
    <2>2. IsFiniteSet(L \union (P \ {u}))
          /\ Cardinality(L \union (P \ {u})) =
               Cardinality(L) + Cardinality(P \ {u}) - Cardinality(L \intersect (P \ {u}))
      BY <1>2, <1>5, FS_Union
    <2> QED BY <1>2, <1>3, <1>5, <2>1, <2>2
  <1>7. B \in SUBSET (L \union (P \ {u}))
    BY <1>4
  <1>8. IsFiniteSet(B) /\ Cardinality(B) <= Cardinality(L \union (P \ {u}))
    BY <1>6, <1>7, FS_Subset
  <1>9. Cardinality(B) \in Nat /\ Cardinality(L \union (P \ {u})) \in Nat
    BY <1>6, <1>8, FS_CardinalityType
  <1> QED BY <1>2, <1>3, <1>5, <1>6, <1>8, <1>9 DEF Index, P

(* A user w leaves the list: the users behind it move up by one.           *)
LEMMA WithoutOne ==
  ASSUME NEW t, NEW m, Listing(t, m), NEW w \in m, NEW s, \A v \in m \ {w} : s[v] = t[v],
         NEW u \in m \ {w}
  PROVE  /\ t[w] < t[u] => Index(s, m \ {w}, u) = Index(t, m, u) - 1
         /\ ~(t[w] < t[u]) => Index(s, m \ {w}, u) = Index(t, m, u)
  <1> DEFINE B == {v \in m : t[v] < t[u]}
  <1>1. {v \in m \ {w} : s[v] < s[u]} = B \ {w}
    OBVIOUS
  <1>2. IsFiniteSet(B)
    BY IndexType
  <1>3. w \in B <=> t[w] < t[u]
    OBVIOUS
  <1> HIDE DEF B
  <1>4. Cardinality(B \ {w}) = IF w \in B THEN Cardinality(B) - 1 ELSE Cardinality(B)
    BY <1>2, FS_RemoveElement
  <1> QED BY <1>1, <1>3, <1>4 DEF Index, B

\* The users of A before index lo, and those at lo or behind.
Before(t, m, A, lo) == {u \in A : Index(t, m, u) < lo}
Behind(t, m, A, lo) == {u \in m \intersect A : Index(t, m, u) >= lo}

(* When w leaves, at most one more user comes to be before position lo.    *)
LEMMA LeaveCrosses ==
  ASSUME NEW t, NEW m, Listing(t, m), NEW w \in m, NEW s, \A v \in m \ {w} : s[v] = t[v],
         NEW A \in SUBSET (m \ {w}), NEW lo \in Int
  PROVE  Cardinality(Before(s, m \ {w}, A, lo)) <= Cardinality(Before(t, m, A, lo)) + 1
  <1> DEFINE T == Before(t, m, A, lo)
             S == Before(s, m \ {w}, A, lo)
  <1>1. T \in SUBSET m /\ IsFiniteSet(m)
    BY DEF Listing, Before
  <1>2. IsFiniteSet(T)
    BY <1>1, FS_Subset
  <1>3. ASSUME NEW u \in S \ T PROVE u \in m /\ Index(t, m, u) = lo
    <2>1. u \in m \ {w} /\ Index(t, m, u) \in Nat
      BY IndexType DEF Before
    <2>2. Index(s, m \ {w}, u) = Index(t, m, u) - 1 \/ Index(s, m \ {w}, u) = Index(t, m, u)
      BY <2>1, WithoutOne
    <2> QED BY <2>1, <2>2 DEF Before
  <1>4. \A x, y \in S \ T : x = y
    BY <1>3, IndexInjective
  <1> HIDE DEF S, T
  <1>5. Cardinality(S) <= Cardinality(T) + 1
    BY <1>2, <1>4, AddOne
  <1> QED BY <1>5 DEF S, T

(* When w enters, at most one more user of A comes to be at lo or behind.  *)
LEMMA EnterCrosses ==
  ASSUME NEW t, NEW m, Listing(t, m), NEW w \in m, NEW s, \A v \in m \ {w} : s[v] = t[v],
         NEW A, NEW lo \in Int
  PROVE  Cardinality(Behind(t, m, A, lo)) <= Cardinality(Behind(s, m \ {w}, A, lo)) + 1
  <1> DEFINE T == Behind(s, m \ {w}, A, lo)
             S == Behind(t, m, A, lo)
  <1>1. T \in SUBSET m /\ IsFiniteSet(m)
    BY DEF Listing, Behind
  <1>2. IsFiniteSet(T)
    BY <1>1, FS_Subset
  <1>3. ASSUME NEW u \in S \ T, u # w PROVE u \in m /\ Index(t, m, u) = lo /\ t[w] < t[u]
    <2>1. u \in m \ {w} /\ Index(t, m, u) \in Nat /\ Index(t, m, u) >= lo
      BY <1>3, IndexType DEF Behind
    <2>2. /\ t[w] < t[u] => Index(s, m \ {w}, u) = Index(t, m, u) - 1
          /\ ~(t[w] < t[u]) => Index(s, m \ {w}, u) = Index(t, m, u)
      BY <2>1, WithoutOne
    <2>3. ~(Index(s, m \ {w}, u) >= lo)
      BY <1>3, <2>1 DEF Behind
    <2> QED BY <2>1, <2>2, <2>3
  <1>4. ASSUME NEW u \in S \ T, u # w PROVE ~(Index(t, m, w) >= lo)
    <2>1. Index(t, m, w) < Index(t, m, u) /\ Index(t, m, u) = lo /\ Index(t, m, w) \in Nat
      BY <1>3, <1>4, IndexLess, IndexType
    <2> QED BY <2>1
  <1>5. \A x, y \in S \ T : x = y
    <2>1. SUFFICES ASSUME NEW x \in S \ T, NEW y \in S \ T, x # y PROVE FALSE
      OBVIOUS
    <2>2. CASE x # w /\ y # w
      <3>1. x \in m /\ y \in m /\ Index(t, m, x) = Index(t, m, y)
        BY <1>3, <2>2
      <3> QED BY <2>1, <3>1, IndexInjective
    <2>3. CASE x = w \/ y = w
      <3>1. Index(t, m, w) >= lo
        BY <2>3 DEF Behind
      <3> QED BY <1>4, <2>1, <2>3, <3>1
    <2> QED BY <2>2, <2>3
  <1> HIDE DEF S, T
  <1>6. Cardinality(S) <= Cardinality(T) + 1
    BY <1>2, <1>5, AddOne
  <1> QED BY <1>6 DEF S, T

-----------------------------------------------------------------------------
\* The users the filter selects now, and the index at which the next page begins.
Matched == IF parsed.ok THEN Matches(parsed.node, table, row) ELSE {}
Lo      == StartIndex(next) - 1

\* The table has one row per key.
TableInv ==
  /\ DOMAIN table \subseteq DOMAIN Rows
  /\ \A u \in DOMAIN table : table[u] \in Keys
  /\ \A u, v \in DOMAIN table : table[u] = table[v] => u = v
  /\ DOMAIN row = DOMAIN Rows

(* Types; and who has always matched matches now.                          *)
TypeInv ==
  /\ TableInv
  /\ next \in Nat /\ total \in Nat \union {-1}
  /\ repeats \in Nat /\ entered \in Nat /\ left \in Nat
  /\ steady \subseteq Matched

\* The users the client has passed without seeing them, and those it has
\* seen and will see again.
Passed == Before(table, Matched, steady \ seen, Lo)
Ahead  == Behind(table, Matched, seen, Lo)

(* Each departure lets the client pass one user, each arrival pushes one   *)
(* it has seen in front of it.  Once it has read up to totalResults, it    *)
(* has passed every user it has not seen, wherever they move afterwards.   *)
PageInv ==
  /\ TypeInv
  /\ Cardinality(Passed) <= left
  /\ repeats + Cardinality(Ahead) <= entered
  /\ total # -1 /\ next > total => Cardinality(steady \ seen) <= left
  /\ state = "done" => total # -1 /\ next > total

LEMMA MatchedListing == TypeInv => Listing(table, Matched)
  <1> SUFFICES ASSUME TypeInv PROVE Listing(table, Matched)
    OBVIOUS
  <1>1. Matched \in SUBSET DOMAIN Rows /\ Matched \subseteq DOMAIN table
    BY DEF TypeInv, TableInv, Matched, Matches
  <1>2. IsFiniteSet(Matched)
    BY <1>1, ListAssumption, FS_Subset
  <1>3. \A u \in DOMAIN table : table[u] \in Int
    BY ListAssumption DEF TypeInv, TableInv
  <1> QED BY <1>1, <1>2, <1>3 DEF TypeInv, TableInv, Listing

Finite(S) == IsFiniteSet(S) /\ Cardinality(S) \in Nat

LEMMA InvFinite == TypeInv => Finite(Passed) /\ Finite(Ahead) /\ Finite(steady \ seen)
  <1> SUFFICES ASSUME TypeInv PROVE Finite(Passed) /\ Finite(Ahead) /\ Finite(steady \ seen)
    OBVIOUS
  <1>1. IsFiniteSet(Matched)
    BY MatchedListing DEF Listing
  <1>2. Passed \in SUBSET Matched /\ Ahead \in SUBSET Matched /\ steady \ seen \in SUBSET Matched
    BY DEF TypeInv, TableInv, Passed, Ahead, Before, Behind
  <1>3. IsFiniteSet(Passed) /\ IsFiniteSet(Ahead) /\ IsFiniteSet(steady \ seen)
    BY <1>1, <1>2, FS_Subset
  <1> QED BY <1>3, FS_CardinalityType DEF Finite

(* What a write does to the match: nothing, or one user comes or goes.     *)
Same      == Matched' = Matched /\ entered' = entered /\ left' = left
Enters(w) == /\ w \notin Matched /\ Matched' = Matched \union {w}
             /\ entered' = entered + 1 /\ left' = left
Leaves(w) == /\ w \in Matched /\ Matched' = Matched \ {w}
             /\ entered' = entered /\ left' = left + 1

Change(w) ==
  /\ Same \/ Enters(w) \/ Leaves(w)
  /\ \A u \in Matched \intersect Matched' : table'[u] = table[u]
  /\ steady' = steady \intersect Matched'

LEMMA OneWrite ==
  ASSUME TypeInv, parsed.ok, NEW t, NEW r, Observe(t, r), UNCHANGED client, NEW w,
         \A v : v # w => (v \in DOMAIN t <=> v \in DOMAIN table),
         \A v \in DOMAIN t \ {w} : t[v] = table[v] /\ r[v] = row[v],
         w \in DOMAIN t /\ w \in DOMAIN table => t[w] = table[w]
  PROVE  Change(w)
  <1> DEFINE is == Matches(parsed.node, t, r)
  <1>1. parsed' = parsed
    BY DEF client
  <1>2. Matched' = is /\ table' = t /\ row' = r
    BY <1>1 DEF Matched, Observe
  <1>3. /\ steady' = steady \intersect is
        /\ entered' = entered + Cardinality(is \ Matched)
        /\ left' = left + Cardinality(Matched \ is)
    BY DEF Matched, Observe
  <1>4. \A v : v # w => (v \in is <=> v \in Matched)
    BY DEF Matched, Matches
  <1>5. \A u \in Matched \intersect is : t[u] = table[u]
    BY DEF Matched, Matches
  <1>6. entered \in Nat /\ left \in Nat
    BY DEF TypeInv, TableInv
  <1>7. Cardinality({}) = 0 /\ Cardinality({w}) = 1
    BY FS_EmptySet, FS_Singleton
  <1> HIDE DEF is
  <1>8. CASE w \in is <=> w \in Matched
    <2>1. is = Matched /\ is \ Matched = {} /\ Matched \ is = {}
      BY <1>4, <1>8
    <2> QED BY <1>2, <1>3, <1>5, <1>6, <1>7, <2>1 DEF Same, Change
  <1>9. CASE w \in is /\ w \notin Matched
    <2>1. is = Matched \union {w} /\ is \ Matched = {w} /\ Matched \ is = {}
      BY <1>4, <1>9
    <2> QED BY <1>2, <1>3, <1>5, <1>6, <1>7, <1>9, <2>1 DEF Enters, Change
  <1>10. CASE w \notin is /\ w \in Matched
    <2>1. is = Matched \ {w} /\ is \ Matched = {} /\ Matched \ is = {w}
      BY <1>4, <1>10
    <2> QED BY <1>2, <1>3, <1>5, <1>6, <1>7, <1>10, <2>1 DEF Leaves, Change
  <1> QED BY <1>8, <1>9, <1>10

LEMMA Written ==
  ASSUME TypeInv, CreateUser \/ DeleteUser \/ UpdateUser
  PROVE  (\E w : Change(w)) /\ UNCHANGED <<client, seen, repeats>> /\ TableInv'
  <1>0. parsed.ok /\ UNCHANGED <<client, seen, repeats>>
    BY DEF CreateUser, DeleteUser, UpdateUser, Writing
  <1>1. ASSUME NEW u \in DOMAIN Rows \ DOMAIN table, NEW k \in Keys, ~Used(k),
               Observe([v \in DOMAIN table \union {u} |-> IF v = u THEN k ELSE table[v]], row)
        PROVE  Change(u) /\ TableInv'
    <2> DEFINE t == [v \in DOMAIN table \union {u} |-> IF v = u THEN k ELSE table[v]]
    <2>1. table' = t /\ row' = row
      BY <1>1 DEF Observe
    <2>2. /\ \A v : v # u => (v \in DOMAIN t <=> v \in DOMAIN table)
          /\ \A v \in DOMAIN t \ {u} : t[v] = table[v]
          /\ DOMAIN t = DOMAIN table \union {u} /\ t[u] = k
      OBVIOUS
    <2>3. Observe(t, row)
      BY <1>1
    <2> HIDE DEF t
    <2>4. Change(u)
      BY <1>0, <2>2, <2>3, OneWrite
    <2>5. /\ DOMAIN t \subseteq DOMAIN Rows
          /\ \A v \in DOMAIN t : t[v] \in Keys
          /\ \A v, x \in DOMAIN t : t[v] = t[x] => v = x
      BY <1>1, <2>2 DEF TypeInv, TableInv, Used
    <2> QED BY <2>1, <2>4, <2>5 DEF TypeInv, TableInv
  <1>2. ASSUME NEW u \in DOMAIN table, Observe([v \in DOMAIN table \ {u} |-> table[v]], row)
        PROVE  Change(u) /\ TableInv'
    <2> DEFINE t == [v \in DOMAIN table \ {u} |-> table[v]]
    <2>1. table' = t /\ row' = row
      BY <1>2 DEF Observe
    <2>2. DOMAIN t = DOMAIN table \ {u} /\ \A v \in DOMAIN t : t[v] = table[v]
      OBVIOUS
    <2>3. Observe(t, row)
      BY <1>2
    <2> HIDE DEF t
    <2>4. Change(u)
      BY <1>0, <2>2, <2>3, OneWrite
    <2> QED BY <2>1, <2>2, <2>4 DEF TypeInv, TableInv
  <1>3. ASSUME NEW u \in DOMAIN table, Observe(table, [row EXCEPT ![u].active = ~@])
        PROVE  Change(u) /\ TableInv'
    <2> DEFINE r == [row EXCEPT ![u].active = ~@]
    <2>1. table' = table /\ row' = r
      BY <1>3 DEF Observe
    <2>2. DOMAIN r = DOMAIN row /\ \A v \in DOMAIN row \ {u} : r[v] = row[v]
      OBVIOUS
    <2>3. Observe(table, r)
      BY <1>3
    <2>4. DOMAIN table \subseteq DOMAIN row /\ DOMAIN row = DOMAIN Rows
      BY DEF TypeInv, TableInv
    <2> HIDE DEF r
    <2>5. Change(u)
      BY <1>0, <2>2, <2>3, <2>4, OneWrite
    <2> QED BY <2>1, <2>2, <2>4, <2>5 DEF TypeInv, TableInv
  <1>4. CASE CreateUser
    BY <1>0, <1>1, <1>4 DEF CreateUser
  <1>5. CASE DeleteUser
    BY <1>0, <1>2, <1>5 DEF DeleteUser
  <1>6. CASE UpdateUser
    BY <1>0, <1>3, <1>6 DEF UpdateUser, TypeInv, TableInv
  <1> QED BY <1>4, <1>5, <1>6

-----------------------------------------------------------------------------
LEMMA WriteKeeps ==
  ASSUME PageInv, CreateUser \/ DeleteUser \/ UpdateUser
  PROVE  PageInv'
  <1>1. PICK w : Change(w)
    BY Written DEF PageInv
  <1>2. UNCHANGED <<client, seen, repeats>> /\ TableInv'
    BY Written DEF PageInv
  <1>3. TypeInv /\ Lo \in Nat /\ Lo' = Lo /\ seen' = seen
    BY <1>2 DEF PageInv, TypeInv, client, Lo, StartIndex
  <1>4. TypeInv'
    BY <1>1, <1>2, <1>3 DEF TypeInv, Change, Same, Enters, Leaves, client
  <1>5. Listing(table, Matched) /\ Listing(table', Matched')
    <2>1. Listing(table, Matched)'
      BY <1>4, MatchedListing, PTL
    <2> QED BY <1>3, <2>1, MatchedListing
  <1>6. /\ steady' \subseteq steady /\ steady' \subseteq Matched'
        /\ \A u \in Matched \intersect Matched' : table'[u] = table[u]
    BY <1>1 DEF Change
  <1>7. /\ IsFiniteSet(Passed) /\ Cardinality(Passed) \in Nat
        /\ IsFiniteSet(Ahead) /\ Cardinality(Ahead) \in Nat
        /\ IsFiniteSet(steady \ seen) /\ Cardinality(steady \ seen) \in Nat
    BY <1>3, InvFinite DEF Finite
  <1>8. /\ IsFiniteSet(Passed') /\ Cardinality(Passed') \in Nat
        /\ IsFiniteSet(Ahead') /\ Cardinality(Ahead') \in Nat
        /\ IsFiniteSet(steady' \ seen) /\ Cardinality(steady' \ seen) \in Nat
    <2>1. (Finite(Passed) /\ Finite(Ahead) /\ Finite(steady \ seen))'
      BY <1>4, InvFinite, PTL
    <2> QED BY <1>3, <2>1 DEF Finite
  <1>9. Cardinality(steady' \ seen) <= Cardinality(steady \ seen)
    <2>1. steady' \ seen \in SUBSET (steady \ seen)
      BY <1>6
    <2> QED BY <1>7, <2>1, FS_Subset
  <1>10. ASSUME Cardinality(Passed') <= left', repeats + Cardinality(Ahead') <= entered',
                left <= left'
         PROVE  PageInv'
    BY <1>2, <1>3, <1>4, <1>7, <1>8, <1>9, <1>10 DEF PageInv, TypeInv, client
  <1>11. /\ Cardinality(Passed) <= left /\ repeats + Cardinality(Ahead) <= entered
         /\ left \in Nat /\ entered \in Nat /\ repeats \in Nat
    BY DEF PageInv, TypeInv
  <1>12. CASE Same
    <2>1. \A u \in Matched : Index(table', Matched', u) = Index(table, Matched, u)
      BY <1>6, <1>12 DEF Same, Index
    <2>2. Passed' \in SUBSET Passed /\ Ahead' \in SUBSET Ahead
      BY <1>3, <1>6, <1>12, <2>1 DEF Same, Passed, Ahead, Before, Behind, TypeInv
    <2>3. Cardinality(Passed') <= Cardinality(Passed) /\ Cardinality(Ahead') <= Cardinality(Ahead)
      BY <1>7, <2>2, FS_Subset
    <2> QED BY <1>7, <1>8, <1>10, <1>11, <1>12, <2>3 DEF Same
  <1>13. CASE Enters(w)
    <2>1. w \in Matched' /\ Matched = Matched' \ {w}
          /\ \A v \in Matched' \ {w} : table[v] = table'[v]
      BY <1>6, <1>13 DEF Enters
    <2>2. Passed' \in SUBSET Passed
      <3>1. SUFFICES ASSUME NEW u \in Passed' PROVE u \in Passed
        OBVIOUS
      <3>2. u \in steady /\ u \in Matched' \ {w} /\ u \notin seen
            /\ Index(table', Matched', u) < Lo
        BY <1>3, <1>6, <2>1, <3>1 DEF Passed, Before, TypeInv
      <3>3. Index(table', Matched', u) \in Nat
        BY <1>5, <3>2, IndexType
      <3>4. \/ Index(table, Matched, u) = Index(table', Matched', u) - 1
            \/ Index(table, Matched, u) = Index(table', Matched', u)
        BY <1>5, <2>1, <3>2, WithoutOne
      <3>5. Index(table, Matched, u) < Lo
        BY <1>3, <3>2, <3>3, <3>4
      <3> QED BY <3>2, <3>5 DEF Passed, Before
    <2>3. Cardinality(Passed') <= Cardinality(Passed)
      BY <1>7, <2>2, FS_Subset
    <2>4. Cardinality(Ahead') <= Cardinality(Ahead) + 1
      <3>1. Cardinality(Behind(table', Matched', seen, Lo))
              <= Cardinality(Behind(table, Matched' \ {w}, seen, Lo)) + 1
        BY <1>3, <1>5, <2>1, EnterCrosses
      <3> QED BY <1>3, <2>1, <3>1 DEF Ahead
    <2> QED BY <1>7, <1>8, <1>10, <1>11, <1>13, <2>3, <2>4 DEF Enters
  <1>14. CASE Leaves(w)
    <2>1. w \in Matched /\ Matched' = Matched \ {w}
          /\ \A v \in Matched \ {w} : table'[v] = table[v]
      BY <1>6, <1>14 DEF Leaves
    <2>2. Ahead' \in SUBSET Ahead
      <3>1. SUFFICES ASSUME NEW u \in Ahead' PROVE u \in Ahead
        OBVIOUS
      <3>2. u \in Matched \ {w} /\ u \in seen /\ Index(table', Matched', u) >= Lo
        BY <1>3, <2>1, <3>1 DEF Ahead, Behind
      <3>3. Index(table, Matched, u) \in Nat
        BY <1>5, <3>2, IndexType
      <3>4. \/ Index(table', Matched', u) = Index(table, Matched, u) - 1
            \/ Index(table', Matched', u) = Index(table, Matched, u)
        BY <1>5, <2>1, <3>2, WithoutOne
      <3>5. Index(table, Matched, u) >= Lo
        BY <1>3, <3>2, <3>3, <3>4
      <3> QED BY <3>2, <3>5 DEF Ahead, Behind
    <2>3. Cardinality(Ahead') <= Cardinality(Ahead)
      BY <1>7, <2>2, FS_Subset
    <2>4. Cardinality(Passed') <= Cardinality(Passed) + 1
      <3> DEFINE A == steady' \ seen
                 T == Before(table, Matched, A, Lo)
      <3>1. A \in SUBSET (Matched \ {w})
        BY <1>6, <2>1
      <3>2. Cardinality(Before(table', Matched \ {w}, A, Lo)) <= Cardinality(T) + 1
        <4> HIDE DEF A
        <4> QED BY <1>3, <1>5, <2>1, <3>1, LeaveCrosses
      <3>3. T \in SUBSET Passed
        BY <1>6 DEF Passed, Before
      <3>4. IsFiniteSet(T) /\ Cardinality(T) <= Cardinality(Passed)
        BY <1>7, <3>3, FS_Subset
      <3>5. Cardinality(T) \in Nat
        BY <3>4, FS_CardinalityType
      <3>6. Passed' = Before(table', Matched \ {w}, A, Lo)
        BY <1>3, <2>1 DEF Passed
      <3> QED BY <1>7, <1>8, <3>2, <3>4, <3>5, <3>6
    <2> QED BY <1>7, <1>8, <1>10, <1>11, <1>14, <2>3, <2>4 DEF Leaves
  <1> QED BY <1>1, <1>12, <1>13, <1>14 DEF Change

(* A page: the users on it are seen, and the next page begins behind them. *)
LEMMA PageKeeps ==
  ASSUME PageInv, NEW raw \in Counts, ListUsers(raw)
  PROVE  PageInv'
  <1> DEFINE n == Count(raw)
             page == Page(Matched, Lo, n)
             c == Cardinality(page)
  <1>1. n \in Nat
    BY ListAssumption DEF Count
  <1>2. TypeInv /\ next \in Nat /\ Lo \in Nat /\ StartIndex(next) = Lo + 1
    BY DEF PageInv, TypeInv, Lo, StartIndex
  <1>3. /\ Matched = Matches(parsed.node, table, row) /\ Matched' = Matched
        /\ UNCHANGED <<table, row, steady, entered, left, state>>
    BY DEF ListUsers, Matched
  <1>4. /\ total' = Cardinality(Matched) /\ next' = Lo + 1 + c
        /\ seen' = seen \union page
        /\ repeats' = repeats + Cardinality(page \intersect seen)
    BY <1>2, <1>3 DEF ListUsers
  <1>5. Listing(table, Matched) /\ Cardinality(Matched) \in Nat
    BY <1>2, MatchedListing, FS_CardinalityType DEF Listing
  <1>6. IsFiniteSet(page) /\ c \in Nat /\ c <= n
    <2>1. Lo + n \in Nat /\ Lo <= Lo + n
      BY <1>1, <1>2
    <2> DEFINE b == Lo + n
    <2>2. page = {u \in Matched : Lo <= Index(table, Matched, u) /\ Index(table, Matched, u) < b}
      BY DEF Page
    <2>3. b \in Nat /\ Lo <= b
      BY <2>1
    <2> HIDE DEF b, page
    <2>4. IsFiniteSet(page) /\ Cardinality(page) \in Nat /\ Cardinality(page) <= b - Lo
      BY <1>2, <1>5, <2>2, <2>3, Window
    <2> QED BY <1>1, <1>2, <2>4 DEF b
  <1>7. Lo' = Lo + c
    BY <1>2, <1>4, <1>6 DEF Lo, StartIndex
  <1>8. IsFiniteSet(page \intersect seen) /\ Cardinality(page \intersect seen) \in Nat
    BY <1>6, FS_Intersection, FS_CardinalityType
  <1>9. \A u \in page : u \in Matched /\ Index(table, Matched, u) \in Nat
                        /\ Lo <= Index(table, Matched, u) /\ Index(table, Matched, u) < Lo + c
    <2>1. SUFFICES ASSUME NEW u \in page
                   PROVE  u \in Matched /\ Index(table, Matched, u) \in Nat
                          /\ Lo <= Index(table, Matched, u) /\ Index(table, Matched, u) < Lo + c
      OBVIOUS
    <2>2. u \in Matched /\ Lo <= Index(table, Matched, u)
      BY <2>1 DEF Page
    <2> HIDE DEF n
    <2>3. Index(table, Matched, u) < Lo + Cardinality(Page(Matched, Lo, n))
      BY <1>1, <1>2, <1>5, <2>1, PageEnd
    <2> QED BY <1>5, <2>2, <2>3, IndexType
  <1>10. \A u \in Matched : Index(table, Matched, u) \in Nat
    BY <1>5, IndexType
  <1>11. \A u \in Matched : Lo <= Index(table, Matched, u) /\ Index(table, Matched, u) < Lo + c
           => u \in page
    BY <1>1, <1>2, <1>6, <1>10 DEF Page
  <1> HIDE DEF page, c, n
  <1>12. TypeInv'
    BY <1>2, <1>3, <1>4, <1>5, <1>6, <1>8 DEF TypeInv, TableInv
  <1>13. Finite(Passed) /\ Finite(Ahead)
    BY <1>2, InvFinite
  <1>14. Finite(Passed') /\ Finite(Ahead')
    <2>1. (Finite(Passed) /\ Finite(Ahead) /\ Finite(steady \ seen))'
      BY <1>12, InvFinite, PTL
    <2> QED BY <2>1 DEF Finite
  <1>15. Cardinality(Passed') <= Cardinality(Passed)
    <2>1. Passed' \in SUBSET Passed
      <3>1. SUFFICES ASSUME NEW u \in Passed' PROVE u \in Passed
        OBVIOUS
      <3>2. u \in steady /\ u \notin seen /\ u \notin page /\ u \in Matched
            /\ Index(table, Matched, u) < Lo + c
        BY <1>2, <1>3, <1>4, <1>7, <3>1 DEF Passed, Before, TypeInv
      <3>3. Index(table, Matched, u) < Lo
        BY <1>2, <1>10, <1>11, <3>2
      <3> QED BY <3>2, <3>3 DEF Passed, Before
    <2> QED BY <1>13, <2>1, FS_Subset DEF Finite
  <1>16. Cardinality(Ahead') + Cardinality(page \intersect seen) <= Cardinality(Ahead)
    <2> DEFINE X == page \intersect seen
    <2>1. \A u \in Ahead' : u \in Ahead /\ u \notin page
      <3>1. SUFFICES ASSUME NEW u \in Ahead' PROVE u \in Ahead /\ u \notin page
        OBVIOUS
      <3>2. u \in Matched /\ u \in seen \union page /\ Index(table, Matched, u) >= Lo + c
        BY <1>3, <1>4, <1>7, <3>1 DEF Ahead, Behind
      <3>3. u \notin page
        BY <1>2, <1>6, <1>9, <3>2 DEF c
      <3>4. Index(table, Matched, u) >= Lo
        BY <1>2, <1>6, <1>10, <3>2
      <3> QED BY <3>2, <3>3, <3>4 DEF Ahead, Behind
    <2>2. X \subseteq Ahead
      BY <1>2, <1>9 DEF Ahead, Behind
    <2>3. Ahead' \union X \in SUBSET Ahead /\ Ahead' \intersect X = {}
      BY <2>1, <2>2
    <2>4. IsFiniteSet(X) /\ IsFiniteSet(Ahead') /\ Cardinality({}) = 0
          /\ Cardinality(X) \in Nat /\ Cardinality(Ahead') \in Nat
      BY <1>8, <1>14, FS_EmptySet DEF Finite
    <2> HIDE DEF X
    <2>5. Cardinality(Ahead' \union X) = Cardinality(Ahead') + Cardinality(X) - Cardinality({})
      BY <2>3, <2>4, FS_Union
    <2>6. Cardinality(Ahead' \union X) <= Cardinality(Ahead)
      BY <1>13, <2>3, FS_Subset DEF Finite
    <2> QED BY <2>4, <2>5, <2>6 DEF X
  <1>17. next' > total' => Cardinality((steady \ seen)') <= left
    <2>1. SUFFICES ASSUME next' > total' PROVE Cardinality((steady \ seen)') <= left
      OBVIOUS
    <2>2. Lo' >= Cardinality(Matched)
      BY <1>2, <1>4, <1>5, <1>6, <1>7, <2>1
    <2>3. \A u \in Matched : Index(table, Matched, u) < Lo + c
      <3>1. \A u \in Matched : Index(table, Matched, u) < Cardinality(Matched)
        BY <1>5, IndexType
      <3> QED BY <1>2, <1>5, <1>6, <1>7, <1>10, <2>2, <3>1
    <2>4. (steady \ seen)' = Passed'
      BY <1>2, <1>3, <1>4, <1>7, <2>3 DEF Passed, Before, TypeInv
    <2> QED BY <1>13, <1>14, <1>15, <2>4 DEF PageInv, TypeInv, Finite
  <1> QED
    BY <1>2, <1>3, <1>4, <1>8, <1>12, <1>13, <1>14, <1>15, <1>16, <1>17
       DEF PageInv, TypeInv, Finite, ListUsers

-----------------------------------------------------------------------------
LEMMA PageInvInit == Init => PageInv
  <1> SUFFICES ASSUME Init PROVE PageInv
    OBVIOUS
  <1>1. TypeInv
    BY ListAssumption DEF Init, TypeInv, TableInv, Matched
  <1>2. Lo = 0
    BY DEF Init, Lo, StartIndex
  <1>3. Listing(table, Matched)
    BY <1>1, MatchedListing
  <1>4. Passed = {}
    <2>1. \A u \in Matched : Index(table, Matched, u) \in Nat
      BY <1>3, IndexType
    <2> QED BY <1>1, <1>2, <2>1 DEF Passed, Before, TypeInv
  <1>5. Ahead = {}
    BY DEF Init, Ahead, Behind
  <1> QED BY <1>1, <1>4, <1>5, FS_EmptySet DEF Init, PageInv

LEMMA PageInvStep == PageInv /\ [Next]_vars => PageInv'
  <1> SUFFICES ASSUME PageInv, [Next]_vars PROVE PageInv'
    OBVIOUS
  <1> USE DEF PageInv, TypeInv, TableInv, Matched, Lo, Passed, Ahead, history
  <1>1. CASE RefuseFilter
    BY <1>1 DEF RefuseFilter
  <1>2. ASSUME NEW raw \in Counts, ListUsers(raw) PROVE PageInv'
    <2> HIDE DEF PageInv
    <2> QED BY <1>2, PageKeeps
  <1>3. CASE EndOfList
    BY <1>3 DEF EndOfList
  <1>4. CASE CreateUser \/ DeleteUser \/ UpdateUser
    <2> HIDE DEF PageInv
    <2> QED BY <1>4, WriteKeeps
  <1>5. CASE UNCHANGED vars
    BY <1>5 DEF vars, client
  <1> QED BY <1>1, <1>2, <1>3, <1>4, <1>5 DEF Next, Finished

LEMMA PageInvAlways == Spec => []PageInv
  BY PageInvInit, PageInvStep, PTL DEF Spec

(* MissedOnlyByRemovals, for every instance: of the users that matched all *)
(* along, a list read to its end misses at most one for each departure     *)
(* from the match, however listUsers' pages and the writes interleave.     *)
THEOREM MissedTheorem == Spec => []MissedOnlyByRemovals
  <1>1. PageInv => MissedOnlyByRemovals
    BY DEF PageInv, MissedOnlyByRemovals
  <1> QED BY <1>1, PageInvAlways, PTL

(* RepeatedOnlyByArrivals, for every instance: the pages of listUsers      *)
(* repeat at most one user for each arrival in the match.                  *)
THEOREM RepeatedTheorem == Spec => []RepeatedOnlyByArrivals
  <1>1. PageInv => RepeatedOnlyByArrivals
    <2> SUFFICES ASSUME PageInv PROVE RepeatedOnlyByArrivals
      OBVIOUS
    <2>1. Cardinality(Ahead) \in Nat /\ repeats \in Nat /\ entered \in Nat
          /\ repeats + Cardinality(Ahead) <= entered
      BY InvFinite DEF PageInv, TypeInv, Finite
    <2> QED BY <2>1 DEF RepeatedOnlyByArrivals
  <1> QED BY <1>1, PageInvAlways, PTL
-----------------------------------------------------------------------------
(* A non-empty set of natural numbers has a least element.                 *)
LEMMA LeastNatural ==
  ASSUME NEW T \in SUBSET Nat, T # {}
  PROVE  \E n \in T : \A m \in T : n <= m
  <1> DEFINE R == {ss \in Nat \X Nat : ss[1] < ss[2]}
  <1>1. R = OpToRel(<, Nat)
    BY Zenon DEF OpToRel
  <1>2. IsWellFoundedOn(R, Nat)
    BY <1>1, NatLessThanWellFounded, Zenon
  <1>3. T \subseteq Nat /\ T # {}
    OBVIOUS
  <1>4. PICK n \in T : \A m \in T : ~(<<m, n>> \in R)
    <2> HIDE DEF R
    <2> QED BY <1>2, <1>3, WFMin, Zenon
  <1>5. \A m \in T : n \in Nat /\ m \in Nat /\ ~(m < n)
    BY <1>4
  <1> QED BY <1>4, <1>5

(* A page has at most the users that were asked for.                       *)
LEMMA PageBounded ==
  ASSUME NEW m, Listing(table, m), NEW lo \in Nat, NEW n \in Nat
  PROVE  Cardinality(Page(m, lo, n)) \in Nat /\ Cardinality(Page(m, lo, n)) <= n
  <1>1. PICK b \in Nat : b = lo + n
    OBVIOUS
  <1> DEFINE W == {u \in m : lo <= Index(table, m, u) /\ Index(table, m, u) < b}
  <1>2. Page(m, lo, n) = W
    BY <1>1 DEF Page
  <1>3. lo <= b
    BY <1>1
  <1>4. IsFiniteSet(W) /\ Cardinality(W) \in Nat /\ Cardinality(W) <= b - lo
    BY <1>3, Window
  <1> HIDE DEF W
  <1> QED BY <1>1, <1>2, <1>4

(* The indexes have no gap: a page with fewer users than were asked for    *)
(* has all that are left.                                                  *)
LEMMA ShortPage ==
  ASSUME NEW m, Listing(table, m), NEW lo \in Nat, NEW n \in Nat,
         Cardinality(Page(m, lo, n)) < n
  PROVE  Cardinality(m) <= lo + Cardinality(Page(m, lo, n))
  <1> DEFINE P == Page(m, lo, n)
             L == {v \in m : 0 <= Index(table, m, v) /\ Index(table, m, v) < lo}
             I == {i \in Nat : lo + n <= i /\ \E u \in m : i = Index(table, m, u)}
  <1>1. IsFiniteSet(L) /\ Cardinality(L) \in Nat /\ Cardinality(L) <= lo
    BY Window
  <1>2. IsFiniteSet(P) /\ Cardinality(P) \in Nat /\ Cardinality(P) < n
    BY Window DEF Page
  <1>3. IsFiniteSet(L \union P) /\ Cardinality(L \union P) \in Nat
        /\ Cardinality(L \union P) <= lo + Cardinality(P)
    <2> HIDE DEF L, P
    <2>1. Cardinality(L \intersect P) \in Nat
      BY <1>1, <1>2, FS_Intersection, FS_CardinalityType
    <2>2. IsFiniteSet(L \union P)
          /\ Cardinality(L \union P) = Cardinality(L) + Cardinality(P) - Cardinality(L \intersect P)
      BY <1>1, <1>2, FS_Union
    <2>3. Cardinality(L \union P) \in Nat
      BY <2>2, FS_CardinalityType
    <2> QED BY <1>1, <1>2, <2>1, <2>2, <2>3
  <1>4. \A u \in m : Index(table, m, u) \in Nat
    BY IndexType
  <1>5. I = {}
    <2> SUFFICES ASSUME I # {} PROVE FALSE
      OBVIOUS
    <2>1. I \in SUBSET Nat
      OBVIOUS
    <2>2. PICK i \in I : \A j \in I : i <= j
      <3> HIDE DEF I
      <3> QED BY <2>1, LeastNatural
    <2>3. PICK u \in m : i = Index(table, m, u)
      BY <2>2
    <2> DEFINE B == {v \in m : table[v] < table[u]}
    <2>4. B \in SUBSET (L \union P)
      <3>1. SUFFICES ASSUME NEW v \in m, table[v] < table[u] PROVE v \in L \union P
        OBVIOUS
      <3>2. Index(table, m, v) < i /\ Index(table, m, v) \in Nat
        BY <1>4, <2>3, <3>1, IndexLess
      <3>3. Index(table, m, v) \notin I
        BY <2>2, <3>2
      <3>4. Index(table, m, v) < lo + n
        BY <3>2, <3>3
      <3> QED BY <3>2, <3>4 DEF Page
    <2> HIDE DEF B, L, P
    <2>5. IsFiniteSet(B) /\ Cardinality(B) <= Cardinality(L \union P)
      BY <1>3, <2>4, FS_Subset
    <2>6. i = Cardinality(B) /\ i \in Nat /\ lo + n <= i
      BY <2>2, <2>3 DEF Index, B
    <2> QED BY <1>2, <1>3, <2>5, <2>6
  <1>6. m \in SUBSET (L \union P)
    <2>1. SUFFICES ASSUME NEW u \in m PROVE u \in L \union P
      OBVIOUS
    <2>2. Index(table, m, u) \in Nat /\ Index(table, m, u) < lo + n
      BY <1>4, <1>5
    <2> QED BY <2>2 DEF Page
  <1> HIDE DEF L, P
  <1>7. Cardinality(m) <= Cardinality(L \union P)
    BY <1>3, <1>6, FS_Subset
  <1>8. Cardinality(m) \in Nat
    BY FS_CardinalityType DEF Listing
  <1> QED BY <1>2, <1>3, <1>7, <1>8 DEF P

\* A page has as many users as were asked for, or the list is at its end; and
\* the end is never further than the number of users there can be.
Advances ==
  \A raw \in Counts : ListUsers(raw) =>
    /\ next' > total' \/ next' = StartIndex(next) + Count(raw)
    /\ total' <= Cardinality(DOMAIN Rows)

(* The slicing of listUsers skips nothing and stops short of nothing: a    *)
(* page that is not full is the last one, whatever other calls did before  *)
(* it.  So a client that asks for at least one user at a time advances     *)
(* with every page until it is past totalResults, the safety half of       *)
(* ListEnds.                                                               *)
THEOREM AdvanceTheorem == Spec => [][Advances]_vars
  <1>1. ASSUME TypeInv, NEW raw \in Counts, ListUsers(raw)
        PROVE  /\ next' > total' \/ next' = StartIndex(next) + Count(raw)
               /\ total' <= Cardinality(DOMAIN Rows)
    <2> DEFINE lo == StartIndex(next) - 1
               n == Count(raw)
               page == Page(Matched, lo, n)
    <2>1. n \in Nat /\ lo \in Nat /\ StartIndex(next) = lo + 1
      BY <1>1, ListAssumption DEF Count, TypeInv, StartIndex
    <2>2. Listing(table, Matched)
      BY <1>1, MatchedListing
    <2>3. total' = Cardinality(Matched) /\ next' = StartIndex(next) + Cardinality(page)
      BY <1>1 DEF ListUsers, Matched
    <2>4. Cardinality(Matched) \in Nat
      BY <2>2, FS_CardinalityType DEF Listing
    <2>5. Cardinality(Matched) <= Cardinality(DOMAIN Rows)
      <3>1. Matched \in SUBSET DOMAIN Rows
        BY <1>1 DEF TypeInv, TableInv, Matched, Matches
      <3> QED BY <3>1, ListAssumption, FS_Subset
    <2> HIDE DEF lo, n
    <2>6. Cardinality(page) \in Nat /\ Cardinality(page) <= n
      BY <2>1, <2>2, PageBounded
    <2>7. CASE Cardinality(page) < n
      <3>1. Cardinality(Matched) <= lo + Cardinality(page)
        BY <2>1, <2>2, <2>7, ShortPage
      <3> QED BY <2>1, <2>3, <2>4, <2>5, <2>6, <3>1
    <2>8. CASE Cardinality(page) = n
      BY <2>1, <2>3, <2>5, <2>8 DEF n
    <2> QED BY <2>1, <2>6, <2>7, <2>8
  <1>2. PageInv /\ [Next]_vars => [Advances]_vars
    BY <1>1 DEF PageInv, Advances
  <1> QED BY <1>2, PageInvAlways, PTL DEF Spec
=============================================================================

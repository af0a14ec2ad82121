------------------------------- MODULE ScimList -------------------------------
(***************************************************************************)
(* GET /Users of internal/scim: a client reads the users a filter selects, *)
(* page by page, while other calls create, delete and change users.  Each  *)
(* page is one listUsers: parse, one SELECT, filter, slice.                *)
(***************************************************************************)
EXTENDS Integers, FiniteSets

CONSTANTS
  Parse(_),      \* ParseFilter: [ok, node], see ScimFilter
  Selects(_, _), \* Eval of a node on a record, see ScimFilter
  Filters,       \* the filters a client may send, as token sequences
  Counts,        \* the values of count a client may send, 0 and below too
  DefaultCount,  \* 100 in parsePaging
  MaxCount,      \* 500 in parsePaging
  Keys,          \* the pairs (created_at, id) in their order as text
  Seed,          \* the users in the table at first: their keys
  Rows,          \* Rows[u]: the record of user u, of the seed or not
  MaxWrites      \* bound on the writes of other calls, for TLC

ASSUME ListAssumption ==
  /\ IsFiniteSet(DOMAIN Rows)
  /\ Counts \subseteq Int /\ DefaultCount \in Nat /\ MaxCount \in Nat
  /\ Keys \subseteq Int
  /\ DOMAIN Seed \subseteq DOMAIN Rows
  /\ \A u \in DOMAIN Seed : Seed[u] \in Keys
  /\ \A u, v \in DOMAIN Seed : Seed[u] = Seed[v] => u = v

VARIABLES
  table,     \* table users: the key of each user in it
  row,       \* row[u]: the record of u
  filter,    \* the filter of the client's list
  parsed,    \* what ParseFilter makes of it, the same on every page
  next,      \* the startIndex the client sends next, 0 at first
  total,     \* totalResults of the last page, -1 before it
  state,     \* "listing", "done", or "invalidFilter" after a 400
  seen,      \* history: the users that pages have contained
  repeats,   \* history: how often a page contained a user already seen
  steady,    \* history: the users matched at every moment of the list
  entered, left, \* history: how often a user came into, and went out of, the match
  writes

client  == <<filter, parsed, next, total, state>>
history == <<seen, repeats, steady, entered, left>>
vars    == <<table, row, client, history, writes>>

\* Mutant: the zero-based conversion is made twice.
StartIndexTwiceConverted(raw) == IF raw >= 2 THEN raw - 1 ELSE 1

\* parsePaging: what is not a number in range counts as absent.
StartIndex(raw) == IF raw >= 1 THEN raw ELSE 1
Count(raw) ==
  LET count == IF raw >= 0 THEN raw ELSE DefaultCount
  IN IF count > MaxCount THEN MaxCount ELSE count

\* The users listUsers keeps.
Matches(n, t, r) == {u \in DOMAIN t : Selects(n, r[u])}

\* The client knows nothing yet; every user that matches has always matched.
Init ==
  /\ table = Seed /\ row = Rows
  /\ filter \in Filters /\ parsed = Parse(filter)
  /\ next = 0 /\ total = -1 /\ state = "listing"
  /\ seen = {} /\ repeats = 0
  /\ steady = IF parsed.ok THEN Matches(parsed.node, Seed, Rows) ELSE {}
  /\ entered = 0 /\ left = 0 /\ writes = 0

(* 400 invalidFilter.                                                      *)
RefuseFilter ==
  /\ state = "listing" /\ ~parsed.ok
  /\ state' = "invalidFilter"
  /\ UNCHANGED <<table, row, filter, parsed, next, total, history, writes>>

\* The index of u in matched, which ListUsers has ordered by the keys t.
Index(t, matched, u) == Cardinality({v \in matched : t[v] < t[u]})

\* Mutant: startIndex taken as zero-based, matched[startIndex:hi].
PageZeroBased(matched, lo, count) ==
  {u \in matched : lo < Index(table, matched, u) /\ Index(table, matched, u) <= lo + count}

\* matched[lo:hi], hi being lo + count or the end; nothing if lo is past it.
Page(matched, lo, count) ==
  {u \in matched : lo <= Index(table, matched, u) /\ Index(table, matched, u) < lo + count}

(* 200: one page.  The client goes on after the last user of the page.     *)
ListUsers(raw) ==
  LET matched == Matches(parsed.node, table, row)
      start   == StartIndex(next)
      page    == Page(matched, start - 1, Count(raw))
  IN /\ state = "listing" /\ parsed.ok
     /\ next <= total \/ total = -1
     /\ total' = Cardinality(matched)
     /\ next' = start + Cardinality(page)
     /\ seen' = seen \union page
     /\ repeats' = repeats + Cardinality(page \intersect seen)
     /\ UNCHANGED <<table, row, filter, parsed, state, steady, entered, left, writes>>

\* The client has asked for everything up to totalResults.
EndOfList ==
  /\ state = "listing" /\ total # -1 /\ next > total
  /\ state' = "done"
  /\ UNCHANGED <<table, row, filter, parsed, next, total, history, writes>>

-----------------------------------------------------------------------------
\* The effect of a write on the match.
Observe(t, r) ==
  LET was == Matches(parsed.node, table, row)
      is  == Matches(parsed.node, t, r)
  IN /\ table' = t /\ row' = r
     /\ steady' = steady \intersect is
     /\ entered' = entered + Cardinality(is \ was)
     /\ left' = left + Cardinality(was \ is)

Writing ==
  /\ state = "listing" /\ parsed.ok /\ writes < MaxWrites
  /\ writes' = writes + 1
  /\ UNCHANGED <<client, seen, repeats>>

\* The key k is another user's.
Used(k) == \E v \in DOMAIN table : table[v] = k

(* A user is created.  Its place in the listing is not always the last:    *)
(* created_at is taken before the INSERT and is ordered as text without    *)
(* trailing zeros, where 05.55Z comes before 05.5Z.                        *)
CreateUser ==
  /\ Writing
  /\ \E u \in DOMAIN Rows \ DOMAIN table, k \in Keys :
       /\ ~Used(k)
       /\ Observe([v \in DOMAIN table \union {u} |-> IF v = u THEN k ELSE table[v]], row)

DeleteUser ==
  /\ Writing
  /\ \E u \in DOMAIN table : Observe([v \in DOMAIN table \ {u} |-> table[v]], row)

\* Mutant: an update gives the user another place in the listing (updated_at).
UpdateUserMoves ==
  /\ Writing
  /\ \E u \in DOMAIN table, k \in Keys :
       /\ ~Used(k)
       /\ Observe([table EXCEPT ![u] = k], [row EXCEPT ![u].active = ~@])

(* A user is changed; created_at and id, and so its place, are not.        *)
UpdateUser ==
  /\ Writing
  /\ \E u \in DOMAIN table : Observe(table, [row EXCEPT ![u].active = ~@])

Finished == state # "listing" /\ UNCHANGED vars

Next ==
  \/ RefuseFilter \/ (\E c \in Counts : ListUsers(c)) \/ EndOfList
  \/ CreateUser \/ DeleteUser \/ UpdateUser \/ Finished

Spec == Init /\ [][Next]_vars

\* The client goes on asking, for at least one user at a time.
FairSpec ==
  /\ Spec
  /\ WF_vars(RefuseFilter \/ EndOfList \/ \E c \in Counts \ {0} : ListUsers(c))

-----------------------------------------------------------------------------
(* A list that is read to its end misses no more of the users that matched *)
(* all along than users went out of the match meanwhile.  With creations   *)
(* only, wherever they come in the order, it misses none.                  *)
MissedOnlyByRemovals ==
  state = "done" => Cardinality(steady \ seen) <= left

(* It repeats users no more often than users came into the match.          *)
RepeatedOnlyByArrivals == repeats <= entered

(* A client that goes on from the last user of each page comes to an end,  *)
(* whatever counts it asks for and however the table changes meanwhile.    *)
ListEnds == <>(state # "listing")
=============================================================================

------------------------------ MODULE MCScimList ------------------------------
(* ScimList with the parser and the evaluation of ScimFilter: three users  *)
(* and a fourth to be created.                                             *)
EXTENDS ScimList, ScimFilter

CONSTANTS u1, u2, u3, u4

Text(s)   == [type |-> "string", v |-> s]
Path(n)   == [kind |-> "attr", path |-> [urn |-> "none", name |-> n]]
Op(o)     == [kind |-> "op", op |-> o]
Lit(v)    == [kind |-> "literal", value |-> v]

Ops == {"eq", "ne", "co", "sw", "ew", "gt", "ge", "lt", "le"}
Keywords == {"(", ")", "and", "or", "not", "pr"}

MCToken ==
  [k \in Keywords |-> [kind |-> k]] @@ [o \in Ops |-> Op(o)] @@
  ("[" :> [kind |-> "bad"]) @@
  ("userName" :> Path("username")) @@ ("active" :> Path("active")) @@
  ("emails" :> Path("emails")) @@ ("level" :> Path("level")) @@
  ("urn:User:userName" :> [kind |-> "attr", path |-> [urn |-> "standard", name |-> "username"]]) @@
  ("'b'" :> Lit(Text(<<12>>))) @@ ("true" :> Lit([type |-> "bool", v |-> TRUE])) @@
  ("7" :> Lit([type |-> "number", v |-> 7])) @@ ("1.2.3" :> Lit([type |-> "NaN"])) @@
  ("null" :> Lit([type |-> "null"]))

User(name, active, email, bag) ==
  [userName |-> name, active |-> active, email |-> email, bag |-> bag]

Level(n) == "level" :> [type |-> "number", v |-> n]

MCRows ==
  (u1 :> User(<<2, 11>>, TRUE, <<12>>, Level(7))) @@  \* Ba
  (u2 :> User(<<11>>, FALSE, <<>>, Level(8))) @@      \* a
  (u3 :> User(<<12, 12>>, TRUE, <<11>>, <<>>)) @@     \* bb
  (u4 :> User(<<12>>, TRUE, <<>>, <<>>))              \* b

\* A key for each user, and one before, between and after them.
MCKeys == 1 .. 7
MCSeed == (u1 :> 2) @@ (u2 :> 4) @@ (u3 :> 6)

\* Every sequence of up to four of these tokens ...
Core  == Keywords \union {"eq", "userName", "active", "true", "["}
Short == UNION {[1 .. n -> Core] : n \in 0 .. 4}

\* ... every comparison ...
Comparisons ==
  {<<a, o, v>> : a \in {"userName", "active", "emails", "level", "urn:User:userName"}, o \in Ops,
                 v \in {"'b'", "true", "7", "1.2.3", "null"}}

\* ... and longer filters with each token of them removed or exchanged.
P == <<"userName", "sw", "'b'">>
Q == <<"active", "eq", "true">>
R == <<"level", "gt", "7">>
Paren(f) == <<"(">> \o f \o <<")">>
Not(f)   == <<"not">> \o Paren(f)
And(f, g) == f \o <<"and">> \o g
Or(f, g)  == f \o <<"or">> \o g

Long ==
  { Or(P, And(Q, R)), And(P, Or(Q, R)), Or(And(P, Q), R), And(P, Paren(Or(Q, R))),
    And(Not(Or(P, Q)), R), Or(Not(P), And(Q, Not(R))), Or(Or(P, Q), And(R, P)),
    Paren(Or(Paren(And(P, Q)), R)), Not(Not(P)), Paren(Not(Paren(P))), Not(Paren(Paren(P))) }

Edits(f) ==
  {RemoveAt(f, i) : i \in DOMAIN f}
  \union {[f EXCEPT ![i] = t] : i \in DOMAIN f, t \in {"(", "or", "not"}}

MCFilters == Short \union Comparisons \union Long \union UNION {Edits(f) : f \in Long}

MCCounts == {-1, 0, 1, 9}

(* The parser accepts exactly the filters that the grammar of              *)
(* filter.go:14-18 derives within the depth limit, and the users a         *)
(* filter selects are those its one reading in that grammar selects:       *)
(* precedence, parentheses, not and errors are those of the grammar.       *)
FilterMeansGrammar ==
  state = "listing" /\ total = -1 /\ writes = 0 /\ filter # <<>> =>
    FilterSets(filter, row, 0) =
      IF parsed.ok THEN {{u \in DOMAIN row : Eval(parsed.node, row[u])}} ELSE {}
=============================================================================

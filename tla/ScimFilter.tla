------------------------------ MODULE ScimFilter ------------------------------
(***************************************************************************)
(* internal/scim/filter.go: the recursive-descent parser of SCIM filters   *)
(* and their evaluation on a stored user.                                  *)
(*                                                                         *)
(* A filter is a sequence of tokens, without the final EOF; Token gives    *)
(* for each its kind and, for an attribute, operator or literal, what it   *)
(* stands for.  A token of kind "bad" is text on which tokenize fails.     *)
(* A text is a sequence of letters, 1, 2... for capitals and 11, 12... for *)
(* the small letters; a value is a record with its Go type.                *)
(***************************************************************************)
EXTENDS Integers, Sequences, FiniteSets, SequencesExt

CONSTANTS
  Token,          \* a function: token -> [kind, ...]
  MaxFilterDepth  \* maxFilterDepth, 128 in the code

EOF == [kind |-> "EOF"]

\* p.peek() at position pos: tokenize has appended an EOF.
Peek(f, pos) == IF pos = Len(f) + 1 THEN EOF ELSE Token[f[pos]]

\* What a parse function returns: the node and the position after it.
Parsed(node, pos) == [ok |-> TRUE, node |-> node, pos |-> pos]
Error == [ok |-> FALSE]

RECURSIVE ParseOr(_, _, _), OrLoop(_, _, _, _), ParseAnd(_, _, _), AndLoop(_, _, _, _),
          ParseTerm(_, _, _)

\* One child is returned as it is.
Combine(type, children) ==
  IF Len(children) = 1 THEN children[1] ELSE [type |-> type, children |-> children]

OrLoop(f, pos, depth, children) ==
  IF Peek(f, pos).kind # "or"
    THEN Parsed(Combine("or", children), pos)
    ELSE LET right == ParseAnd(f, pos + 1, depth)
         IN IF right.ok THEN OrLoop(f, right.pos, depth, Append(children, right.node)) ELSE Error

ParseOr(f, pos, depth) ==
  LET left == ParseAnd(f, pos, depth)
  IN IF left.ok THEN OrLoop(f, left.pos, depth, <<left.node>>) ELSE Error

\* Mutant: one loop for both connectives, from left to right.
AndLoopFlat(f, pos, depth, children) ==
  IF Peek(f, pos).kind \notin {"and", "or"}
    THEN Parsed(Combine("and", children), pos)
    ELSE LET right == ParseTerm(f, pos + 1, depth)
         IN IF right.ok
              THEN AndLoop(f, right.pos, depth,
                           <<[type |-> Peek(f, pos).kind,
                              children |-> <<Combine("and", children), right.node>>]>>)
              ELSE Error

AndLoop(f, pos, depth, children) ==
  IF Peek(f, pos).kind # "and"
    THEN Parsed(Combine("and", children), pos)
    ELSE LET right == ParseTerm(f, pos + 1, depth)
         IN IF right.ok THEN AndLoop(f, right.pos, depth, Append(children, right.node)) ELSE Error

ParseAnd(f, pos, depth) ==
  LET left == ParseTerm(f, pos, depth)
  IN IF left.ok THEN AndLoop(f, left.pos, depth, <<left.node>>) ELSE Error

\* The parenthesis at pos and what it encloses, one level deeper.
ParseGroup(f, pos, depth) ==
  IF Peek(f, pos).kind # "(" \/ depth + 1 > MaxFilterDepth
    THEN Error
    ELSE LET inner == ParseOr(f, pos + 1, depth + 1)
         IN IF inner.ok /\ Peek(f, inner.pos).kind = ")"
              THEN Parsed(inner.node, inner.pos + 1)
              ELSE Error

\* parseCompValue: a number may be one that ParseFloat refuses.
ParseCompValue(f, pos) ==
  LET t == Peek(f, pos)
  IN IF t.kind = "literal" /\ t.value.type # "NaN" THEN Parsed(t.value, pos + 1) ELSE Error

ParseAttrExpr(f, pos) ==
  LET path == Peek(f, pos).path
      t    == Peek(f, pos + 1)
      val  == ParseCompValue(f, pos + 2)
  IN CASE t.kind = "pr" -> Parsed([type |-> "present", path |-> path], pos + 2)
       [] t.kind = "op" -> IF val.ok THEN Parsed([type |-> "compare", path |-> path, op |-> t.op,
                                                  val |-> val.node], val.pos)
                                     ELSE Error
       [] OTHER -> Error

ParseTerm(f, pos, depth) ==
  CASE Peek(f, pos).kind = "not" ->
         LET inner == ParseGroup(f, pos + 1, depth)
         IN IF inner.ok THEN Parsed([type |-> "not", child |-> inner.node], inner.pos) ELSE Error
    [] Peek(f, pos).kind = "("    -> ParseGroup(f, pos, depth)
    [] Peek(f, pos).kind = "attr" -> ParseAttrExpr(f, pos)
    [] OTHER -> Error

\* Mutant: what follows the first complete expression is not looked at.
ParseFilterPrefix(f) ==
  IF f = <<>> THEN Parsed([type |-> "nil"], 1)
  ELSE IF \E i \in DOMAIN f : Token[f[i]].kind = "bad" THEN Error
  ELSE ParseOr(f, 1, 0)

\* A blank filter is the nil node, which matches every user.
ParseFilter(f) ==
  IF f = <<>> THEN Parsed([type |-> "nil"], 1)
  ELSE IF \E i \in DOMAIN f : Token[f[i]].kind = "bad" THEN Error
  ELSE LET n == ParseOr(f, 1, 0)
       IN IF n.ok /\ Peek(f, n.pos).kind = "EOF" THEN n ELSE Error

-----------------------------------------------------------------------------
(***************************************************************************)
(* Evaluation.  A user is the fields attrValue knows by name, userName,    *)
(* active and email standing for their kinds, and the raw attribute bag.   *)
(***************************************************************************)

ToLower(s) == [i \in DOMAIN s |-> IF s[i] < 10 THEN s[i] + 10 ELSE s[i]]
IsSubstring(s, t) == \E i \in 0 .. Len(t) : IsPrefix(s, SubSeq(t, i + 1, Len(t)))

\* Go's < on strings, which goes by byte: capitals come first.
TextLess(s, t) ==
  \/ IsStrictPrefix(s, t)
  \/ \E i \in DOMAIN s \intersect DOMAIN t :
       s[i] < t[i] /\ SubSeq(s, 1, i - 1) = SubSeq(t, 1, i - 1)

CompareText(a, op, w) ==
  CASE op = "eq" -> ToLower(a) = ToLower(w)
    [] op = "ne" -> ToLower(a) # ToLower(w)
    [] op = "co" -> IsSubstring(ToLower(w), ToLower(a))
    [] op = "sw" -> IsPrefix(ToLower(w), ToLower(a))
    [] op = "ew" -> IsSuffix(ToLower(w), ToLower(a))
    [] op = "gt" -> TextLess(w, a)
    [] op = "ge" -> ~TextLess(a, w)
    [] op = "lt" -> TextLess(a, w)
    [] op = "le" -> ~TextLess(w, a)

CompareNumber(a, op, w) ==
  CASE op = "eq" -> a = w  [] op = "ne" -> a # w
    [] op = "gt" -> a > w  [] op = "ge" -> a >= w
    [] op = "lt" -> a < w  [] op = "le" -> a <= w
    [] OTHER -> FALSE

\* compare: values of different types never match, whatever the operator.
Compare(actual, op, want) ==
  CASE actual.type = "list" ->
         want.type = "string" /\ \E v \in actual.elems : CompareText(v, op, want.v)
    [] actual.type = "string" -> want.type = "string" /\ CompareText(actual.v, op, want.v)
    [] actual.type = "bool" ->
         want.type = "bool" /\ op \in {"eq", "ne"} /\ ((op = "eq") = (actual.v = want.v))
    [] actual.type = "number" -> want.type = "number" /\ CompareNumber(actual.v, op, want.v)
    [] OTHER -> FALSE

(* attrValue: a set with the value, or empty.  A path is its name in small *)
(* letters and how its schema URN is spelt: TrimPrefix knows the URN in    *)
(* small letters only, so with the standard spelling ("...:2.0:User:") the *)
(* name is looked for, and not found, in the bag.                          *)
AttrValue(u, path) ==
  CASE path.urn = "standard"   -> {}
    [] path.name = "username"  -> {[type |-> "string", v |-> u.userName]}
    [] path.name = "active"    -> {[type |-> "bool", v |-> u.active]}
    [] path.name = "emails"    -> {[type |-> "list", elems |-> {u.email} \ {<<>>}]}
    [] OTHER -> IF path.name \in DOMAIN u.bag THEN {u.bag[path.name]} ELSE {}

\* presentNode: null and an empty string are absent, an empty list is not.
Present(u, path) ==
  \E v \in AttrValue(u, path) : v.type # "null" /\ (v.type = "string" => v.v # <<>>)

RECURSIVE Eval(_, _)

Eval(n, u) ==
  CASE n.type = "nil"     -> TRUE
    [] n.type = "and"     -> \A i \in DOMAIN n.children : Eval(n.children[i], u)
    [] n.type = "or"      -> \E i \in DOMAIN n.children : Eval(n.children[i], u)
    [] n.type = "not"     -> ~Eval(n.child, u)
    [] n.type = "present" -> Present(u, n.path)
    [] n.type = "compare" -> \E v \in AttrValue(u, n.path) : Compare(v, n.op, n.val)

-----------------------------------------------------------------------------
(***************************************************************************)
(* The grammar of filter.go:14-18 read as a grammar: FilterSets(f, U, d)   *)
(* has the subsets of the users U that f, derived as a filter at depth d,  *)
(* can select; it is empty if the grammar does not derive f.               *)
(***************************************************************************)
RECURSIVE FilterSets(_, _, _), AndSets(_, _, _)

AttrExprSets(f, U) ==
  IF Len(f) = 2 /\ Token[f[1]].kind = "attr" /\ Token[f[2]].kind = "pr"
    THEN {{u \in DOMAIN U : Present(U[u], Token[f[1]].path)}}
  ELSE IF /\ Len(f) = 3 /\ Token[f[1]].kind = "attr" /\ Token[f[2]].kind = "op"
          /\ Token[f[3]].kind = "literal" /\ Token[f[3]].value.type # "NaN"
    THEN {{u \in DOMAIN U : \E v \in AttrValue(U[u], Token[f[1]].path) :
                              Compare(v, Token[f[2]].op, Token[f[3]].value)}}
  ELSE {}

\* The sets of the filter in parentheses that f is, if it is one.
InnerSets(f, U, d) ==
  IF Len(f) > 2 /\ d < MaxFilterDepth /\ Token[f[1]].kind = "(" /\ Token[f[Len(f)]].kind = ")"
    THEN FilterSets(SubSeq(f, 2, Len(f) - 1), U, d + 1)
    ELSE {}

TermSets(f, U, d) ==
  AttrExprSets(f, U) \union InnerSets(f, U, d)
  \union (IF f # <<>> /\ Token[f[1]].kind = "not"
            THEN {DOMAIN U \ s : s \in InnerSets(Tail(f), U, d)} ELSE {})

AndSets(f, U, d) ==
  TermSets(f, U, d) \union
  UNION {{x \intersect y : x \in AndSets(SubSeq(f, 1, i - 1), U, d),
                           y \in TermSets(SubSeq(f, i + 1, Len(f)), U, d)} :
           i \in {j \in DOMAIN f : Token[f[j]].kind = "and"}}

FilterSets(f, U, d) ==
  AndSets(f, U, d) \union
  UNION {{x \union y : x \in FilterSets(SubSeq(f, 1, i - 1), U, d),
                       y \in AndSets(SubSeq(f, i + 1, Len(f)), U, d)} :
           i \in {j \in DOMAIN f : Token[f[j]].kind = "or"}}
=============================================================================

------------------------------- MODULE XmlCanon -------------------------------
(***************************************************************************)
(* internal/saml/canon.go and xmldoc.go: exclusive canonicalisation of an  *)
(* element inside a document, and the searches the verifier makes.         *)
(*                                                                         *)
(* A document is a tree.  An element has the prefix and local name of its  *)
(* tag as written (qname), its namespace declarations and its other        *)
(* attributes (XmlNames), which of the two come first in the tag, and its  *)
(* children: elements, texts (sequences of letters) and comments.  A       *)
(* canonical form is such a tree again, as it is written out: declarations *)
(* and attributes as rendered, texts joined, no comments.  Escaping, which *)
(* is one to one, is left out.                                             *)
(***************************************************************************)
EXTENDS XmlNames, FiniteSets, SequencesExt

CONSTANTS
  UriRank,       \* the order of the namespace URIs as strings
  LocalRank,     \* the order of the local names of attributes as strings
  MaxCanonDepth  \* maxCanonDepth, 256 in the code

Text(v) == [kind |-> "text", v |-> v]

Element(prefix, local, decls, attrs, children) ==
  [kind |-> "elem", prefix |-> prefix, local |-> local, decls |-> decls, attrs |-> attrs,
   declsFirst |-> TRUE, children |-> children]

\* The attributes by namespace URI and then local name.
SortAttrs(attrs, scope) ==
  SortSeq(attrs, LAMBDA a, b :
    LET ua == UriRank[AttrUri(a, scope)]
        ub == UriRank[AttrUri(b, scope)]
    IN IF ua # ub THEN ua < ub ELSE LocalRank[a.local] < LocalRank[b.local])

\* Writing one more text after what has been written.
JoinText(children, v) ==
  IF children # <<>> /\ Last(children).kind = "text"
    THEN Append(Front(children), Text(Last(children).v \o v))
    ELSE Append(children, Text(v))

RECURSIVE Render(_, _, _), RenderChildren(_, _, _)

\* The children in order; an element below maxCanonDepth is not written.
RenderChildren(children, in, depth) ==
  FoldLeft(LAMBDA out, c :
             CASE c.kind = "text"    -> JoinText(out, c.v)
               [] c.kind = "comment" -> out
               [] c.kind = "elem"    ->
                    IF depth > MaxCanonDepth THEN out ELSE Append(out, Render(c, in, depth)),
           <<>>, children)

Render(e, in, depth) ==
  LET inside == Enter(e, in)
  IN Element(e.prefix, e.local, Emitted(e, in), SortAttrs(e.attrs, inside.scope),
             RenderChildren(e.children, inside, depth + 1))

RECURSIVE Height(_)

\* The levels of elements below e.
Height(e) ==
  Max({0} \union {1 + Height(e.children[i]) : i \in {j \in DOMAIN e.children : e.children[j].kind = "elem"}})

\* canonicalize: an error if render went below maxCanonDepth.
Canonicalize(e, scope) ==
  IF Height(e) > MaxCanonDepth THEN [ok |-> FALSE]
                               ELSE [ok |-> TRUE, form |-> Render(e, [scope |-> scope, rendered |-> NoDecls], 0)]

-----------------------------------------------------------------------------
\* encoding/xml resolves the name of a tag.
Named(e, scope, uri, local) ==
  e.local = local /\ Lookup(Effective(e, scope), e.prefix) = uri

\* findDirectChild: the index of the first such child, or 0.
FindDirectChild(e, scope, uri, local) ==
  LET found == {i \in DOMAIN e.children : e.children[i].kind = "elem"
                  /\ Named(e.children[i], Effective(e, scope), uri, local)}
  IN IF found = {} THEN 0 ELSE Min(found)

RECURSIVE FindAllDescendants(_, _, _, _)

\* findAllDescendants: each with the scope around it; below one that matches
\* it does not look.
FindAllDescendants(e, scope, uri, local) ==
  LET inner == Effective(e, scope)
  IN FlattenSeq([i \in DOMAIN e.children |->
       LET c == e.children[i] IN
       CASE c.kind # "elem" -> <<>>
         [] c.kind = "elem" /\ Named(c, inner, uri, local) -> <<[elem |-> c, scope |-> inner]>>
         [] OTHER -> FindAllDescendants(c, inner, uri, local)])

\* attrValue: the first entry of the tag with that local name, in any
\* namespace.  xmlns:n="u" is an entry too, with the local name n and the
\* value u.  {} if there is none.
AttrValue(e, local) ==
  LET declared == {e.decls[p] : p \in DOMAIN e.decls \intersect {local}}
      given    == {i \in DOMAIN e.attrs : e.attrs[i].local = local}
  IN IF given = {} \/ (declared # {} /\ e.declsFirst)
       THEN declared
       ELSE {e.attrs[Min(given)].value}

-----------------------------------------------------------------------------
(***************************************************************************)
(* What an element says, whatever its prefixes: names resolved, attributes *)
(* as a set, texts joined as elementText reads them.                       *)
(***************************************************************************)
RECURSIVE Meaning(_, _)

Meaning(e, scope) ==
  LET effective == Effective(e, scope)
  IN [kind |-> "elem", uri |-> Lookup(effective, e.prefix), local |-> e.local,
      attrs |-> {[uri |-> AttrUri(e.attrs[i], effective), local |-> e.attrs[i].local,
                  value |-> e.attrs[i].value] : i \in DOMAIN e.attrs},
      children |-> FoldLeft(LAMBDA out, c :
                     CASE c.kind = "text"    -> JoinText(out, c.v)
                       [] c.kind = "comment" -> out
                       [] c.kind = "elem"    -> Append(out, Meaning(c, effective)),
                   <<>>, e.children)]

RECURSIVE AsRead(_, _, _)

(* What response.go finds of it: elements by their resolved names, their   *)
(* text, and of the attributes what attrValue answers for each of names.   *)
AsRead(e, scope, names) ==
  LET effective == Effective(e, scope)
  IN [kind |-> "elem", uri |-> Lookup(effective, e.prefix), local |-> e.local,
      attrs |-> [n \in names |-> AttrValue(e, n)],
      children |-> FoldLeft(LAMBDA out, c :
                     CASE c.kind = "text"    -> JoinText(out, c.v)
                       [] c.kind = "comment" -> out
                       [] c.kind = "elem"    -> Append(out, AsRead(c, effective, names)),
                   <<>>, e.children)]

RECURSIVE OneEntryPerName(_, _)

(* No tag of it has two attributes of one local name, or a declaration     *)
(* named like one of names.                                                *)
OneEntryPerName(e, names) ==
  /\ DOMAIN e.decls \intersect names = {}
  /\ \A i, j \in DOMAIN e.attrs : e.attrs[i].local = e.attrs[j].local => i = j
  /\ \A i \in DOMAIN e.children :
       e.children[i].kind = "elem" => OneEntryPerName(e.children[i], names)
=============================================================================

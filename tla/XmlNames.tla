------------------------------- MODULE XmlNames -------------------------------
(***************************************************************************)
(* internal/saml/canon.go and xmldoc.go: the namespaces of one element of  *)
(* a document.  Which URI a prefix stands for inside it, and which         *)
(* declarations exclusive canonicalisation writes on its start tag.        *)
(*                                                                         *)
(* A scope is a function from prefixes ("" is xmlns itself) to URIs.  Of   *)
(* an element only its prefix, its declarations and its attributes, in     *)
(* document order, matter here.                                            *)
(***************************************************************************)
EXTENDS Integers, Sequences

NoDecls == [p \in {} |-> ""]

\* The bindings of inner, and those of outer that inner does not replace.
Over(inner, outer) ==
  [p \in DOMAIN inner \union DOMAIN outer |-> IF p \in DOMAIN inner THEN inner[p] ELSE outer[p]]

\* xmldoc.index: the scope inside e, given the one around it.
Effective(e, scope) == Over(e.decls, scope)

\* scope[prefix] of a Go map: "" if there is none.
Lookup(scope, prefix) == IF prefix \in DOMAIN scope THEN scope[prefix] ELSE ""

\* An unprefixed attribute is in no namespace.
AttrUri(a, scope) == IF a.prefix = "" THEN "" ELSE Lookup(scope, a.prefix)

\* The prefixes the tag and the attributes of e use visibly.
Utilized(e) ==
  {e.prefix} \union {e.attrs[i].prefix : i \in {j \in DOMAIN e.attrs : e.attrs[j].prefix # ""}}

\* Mutant: every declaration in scope is rendered, as inclusive c14n does.
NeededInclusive(e, effective, rendered) ==
  {p \in DOMAIN effective \union Utilized(e) :
     ~(p \in DOMAIN rendered /\ rendered[p] = Lookup(effective, p))}

\* Mutant: a prefix that was rendered at all is not rendered again.
NeededOnce(e, effective, rendered) == Utilized(e) \ DOMAIN rendered

\* addIfNeeded: those not already rendered with the same URI.
Needed(e, effective, rendered) ==
  {p \in Utilized(e) : ~(p \in DOMAIN rendered /\ rendered[p] = Lookup(effective, p))}

\* The declarations written on the start tag of e.  A call of render has in
\* the scope around e and the bindings rendered on the way to it.
Emitted(e, in) ==
  LET effective == Effective(e, in.scope)
  IN [p \in Needed(e, effective, in.rendered) |-> Lookup(effective, p)]

\* The same two for the calls that render makes for the children of e.
Enter(e, in) ==
  [scope |-> Effective(e, in.scope), rendered |-> Over(Emitted(e, in), in.rendered)]
=============================================================================

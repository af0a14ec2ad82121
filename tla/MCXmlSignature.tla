---------------------------- MODULE MCXmlSignature ----------------------------
(***************************************************************************)
(* Assertions of up to four levels in which the default namespace and a    *)
(* prefix p are bound, rebound and unbound at every level.                 *)
(***************************************************************************)
EXTENDS XmlSignature

MCUriRank == ("" :> 0) @@ ("B" :> 1) @@ ("ds" :> 2) @@ ("saml" :> 3) @@ ("samlp" :> 4)

MCLocalRank == ("ID" :> 0) @@ ("Name" :> 1) @@ ("Recipient" :> 2)

Attr(prefix, local) == [prefix |-> prefix, local |-> local, value |-> "v"]
IdAttr == [prefix |-> "", local |-> "ID", value |-> "a"]

NamePrefixes   == {"", "p"}
RootDecls  == {"p" :> "saml", "" :> "saml", ("p" :> "saml") @@ ("" :> "B"), ("" :> "saml") @@ ("p" :> "B")}
ChildDecls == {NoDecls, "p" :> "B", "" :> "B", "" :> ""}
LeafDecls  == {NoDecls, "p" :> "saml", "" :> ""}
InnerAttrs == {<<>>, <<Attr("p", "Name"), Attr("", "Recipient")>>}

\* The elements with these children that bind p before they use it: encoding/xml
\* reads an unbound prefix as a URI of its own.
Bound(e, scope) == \A p \in Utilized(e) \ {""} : p \in DOMAIN Effective(e, scope)

Leaves == {Element(p, "L", d, <<>>, <<Text(<<"x", "y">>)>>) : p \in NamePrefixes, d \in LeafDecls}

\* p is used in the tag or, if at all, in an attribute.
Children(leaf) ==
  {Element("p", "C", d, <<>>, <<leaf>>) : d \in ChildDecls} \union
  {Element("", "C", d, a, <<leaf>>) : d \in ChildDecls, a \in InnerAttrs}

Chains ==
  {Element(p, "Assertion", d, <<IdAttr>>, <<c>>) :
     p \in NamePrefixes, d \in RootDecls, c \in UNION {Children(leaf) : leaf \in Leaves}}

WellFormed(e) ==
  LET c   == e.children[1]
      in1 == Effective(e, NoDecls)
  IN /\ Named(e, NoDecls, SamlNS, "Assertion")
     /\ Bound(c, in1)
     /\ Bound(c.children[1], Effective(c, in1))

Plain(local, children) == Element("p", local, NoDecls, <<>>, children)
Root(attrs, children)  == Element("p", "Assertion", "p" :> "saml", attrs, children)

\* No ID, another entry of the local name ID, siblings that bind p differently,
\* and chains one level below and at the limit.
Others ==
  {Root(<<>>, <<Plain("C", <<Text(<<"x">>)>>)>>),
   Root(<<Attr("p", "ID"), IdAttr>>, <<Plain("C", <<Text(<<"x">>)>>)>>),
   Element("p", "Assertion", ("p" :> "saml") @@ ("ID" :> "B"), <<IdAttr>>, <<Text(<<"x">>)>>),
   Root(<<Attr("p", "Recipient"), IdAttr, Attr("p", "Name")>>,
        <<Element("p", "C", "p" :> "B", <<>>, <<Text(<<"x">>)>>), Text(<<"y", "x">>),
          Plain("D", <<Text(<<"x">>)>>)>>),
   Root(<<IdAttr>>, <<Plain("C", <<Plain("D", <<Plain("E", <<Text(<<"x">>)>>)>>)>>)>>),
   Root(<<IdAttr>>, <<Plain("C", <<Plain("D", <<Plain("E", <<Plain("F", <<Text(<<"x">>)>>)>>)>>)>>)>>)}

MCAssertions == {e \in Chains : WellFormed(e)} \union Others

MCReadNames == {"ID", "Recipient"}
MCNewDecls ==
  {[decl |-> "ID" :> "B", declsFirst |-> TRUE], [decl |-> "ID" :> "B", declsFirst |-> FALSE],
   [decl |-> "Recipient" :> "B", declsFirst |-> TRUE], [decl |-> "" :> "B", declsFirst |-> TRUE]}
MCNewAttrs    == {[prefix |-> "", local |-> "Recipient", value |-> "w"]}
MCNewElements == {Element("n", "Extensions", "n" :> "B", <<>>, <<>>)}

MCResponseDecls == {NoDecls, "" :> "samlp", ("p" :> "B") @@ ("" :> "saml")}
=============================================================================

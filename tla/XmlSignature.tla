----------------------------- MODULE XmlSignature -----------------------------
(***************************************************************************)
(* internal/saml/sign.go and xmldsig.go: an IdP signs an assertion, or the *)
(* response around it, or both, each as a document of its own; the         *)
(* response is sent and the gateway verifies what it finds in it.          *)
(*                                                                         *)
(* A digest is the canonical form it is taken of, and a signature the key  *)
(* with the canonical SignedInfo: hash collisions and broken RSA are out.  *)
(***************************************************************************)
EXTENDS XmlCanon

CONSTANTS
  Assertions,    \* the Assertion elements an IdP may build
  ResponseDecls, \* the declarations it may write on the Response, besides samlp
  MaxAssertions, \* bound: the copies of it in one Response
  ReadNames,     \* the attributes response.go reads, by local name
  NewDecls,      \* what may be added on the way: declarations (one each), with their
                 \* place in the tag: [decl, declsFirst]
  NewAttrs,      \* attributes
  NewElements    \* and elements

SamlNS == "saml"
SampNS == "samlp"
DsNS   == "ds"
Certs  == {"idp", "other"}

VARIABLES
  assertion, \* the Assertion as built
  parts,     \* which elements the IdP signs: "assertion", "response" or "both"
  stage,     \* "sign", "wrap", "send", "verify", "done", or "refused" by the signer
  message,   \* the element signed so far, then the Response sent
  said,      \* history: the assertion as it was signed, and the Response as it was sent
  accepting  \* the certificates under which the gateway accepted it

vars == <<assertion, parts, stage, message, said, accepting>>

-----------------------------------------------------------------------------
\* The id that sign.go is called with: the one written as ID="..." in openTag.
IdOf(e) ==
  LET ids == {i \in DOMAIN e.attrs : e.attrs[i].prefix = "" /\ e.attrs[i].local = "ID"}
  IN IF ids = {} THEN "" ELSE e.attrs[Min(ids)].value

\* sign.go declares ds on both.
DsDecl == "ds" :> DsNS
SignedInfo(id, form) ==
  Element("ds", "SignedInfo", DsDecl, <<>>, <<Text(<<[uri |-> id, digest |-> form]>>)>>)
Signature(si, value) ==
  Element("ds", "Signature", DsDecl, <<>>,
          <<si, Element("ds", "SignatureValue", NoDecls, <<>>, <<Text(<<value>>)>>)>>)

\* BuildSignedElementXML: the element is parsed and canonicalised on its own,
\* and the Signature becomes its first child.
BuildSignedElementXML(e) ==
  LET target == Canonicalize(e, NoDecls)
      si     == SignedInfo(IdOf(e), target.form)
      over   == Canonicalize(si, NoDecls)
  IN IF ~target.ok \/ ~over.ok
       THEN [ok |-> FALSE]
       ELSE [ok |-> TRUE,
             elem |-> [e EXCEPT !.children = <<Signature(si, [key |-> "idp", over |-> over.form])>> \o @]]

-----------------------------------------------------------------------------
\* The one text of the first child of e with that name.
ChildText(e, scope, local) ==
  LET i == FindDirectChild(e, scope, DsNS, local)
  IN IF i = 0 THEN {} ELSE {e.children[i].children[1].v[1]}

\* The enveloped-signature transform: the element without this signature.
Enveloped(e, sig) == [e EXCEPT !.children = RemoveAt(@, sig)]

(* verifyEnvelopedSignature: the signature at child sig of e is over e, by *)
(* the ID that attrValue reads, and was made with the key of cert.         *)
VerifyEnvelopedSignature(e, scope, sig, cert) ==
  LET s      == e.children[sig]
      inner  == Effective(e, scope)
      si     == FindDirectChild(s, inner, DsNS, "SignedInfo")
      target == Canonicalize(Enveloped(e, sig), scope)
      form   == Canonicalize(s.children[si], Effective(s, inner))
  IN /\ si # 0
     /\ \E id \in AttrValue(e, "ID"), ref \in ChildText(s, inner, "SignedInfo") :
          id # "" /\ ref.uri = id /\ target.ok /\ target.form = ref.digest
     /\ \E v \in ChildText(s, inner, "SignatureValue") :
          v.key = cert /\ form.ok /\ v.over = form.form

(* VerifySAMLResponseSignature: one Assertion, at least one of the two     *)
(* signed, and every signature found valid.                                *)
VerifySAMLResponseSignature(r, cert) ==
  LET found  == FindAllDescendants(r, NoDecls, SamlNS, "Assertion")
      a      == found[1]
      ofR    == FindDirectChild(r, NoDecls, DsNS, "Signature")
      ofA    == FindDirectChild(a.elem, a.scope, DsNS, "Signature")
  IN /\ Named(r, NoDecls, SampNS, "Response")
     /\ Len(found) = 1
     /\ ofR # 0 \/ ofA # 0
     /\ ofR # 0 => VerifyEnvelopedSignature(r, NoDecls, ofR, cert)
     /\ ofA # 0 => VerifyEnvelopedSignature(a.elem, a.scope, ofA, cert)

-----------------------------------------------------------------------------
Init ==
  /\ assertion \in Assertions
  /\ parts \in {"assertion", "response", "both"}
  /\ stage = "sign" /\ message = assertion /\ accepting = {}
  /\ said = [assertion |-> assertion]

Refuse == stage' = "refused" /\ UNCHANGED <<assertion, parts, message, said, accepting>>

\* The assertion is signed on its own.
SignAssertion ==
  LET built == BuildSignedElementXML(assertion) IN
  /\ stage = "sign"
  /\ IF parts = "response"
       THEN stage' = "wrap" /\ UNCHANGED <<assertion, parts, message, said, accepting>>
       ELSE IF ~built.ok THEN Refuse
       ELSE /\ message' = built.elem /\ stage' = "wrap"
            /\ said' = [assertion |-> built.elem]
            /\ UNCHANGED <<assertion, parts, accepting>>

\* runMint: it is put into a Response, which may be signed in its turn.  A
\* Response with no assertion, or with two, is not what mint writes but is
\* what the verifier counts.
Wrap ==
  /\ stage = "wrap"
  /\ \E d \in ResponseDecls, n \in 0..MaxAssertions :
       LET r     == Element("samlp", "Response", ("samlp" :> SampNS) @@ d,
                            <<[prefix |-> "", local |-> "ID", value |-> "r"]>>,
                            [i \in 1..n |-> message])
           built == IF parts = "assertion" THEN [ok |-> TRUE, elem |-> r]
                                           ELSE BuildSignedElementXML(r)
       IN IF ~built.ok
            THEN Refuse
            ELSE /\ message' = built.elem
                 /\ said' = ("response" :> built.elem) @@ said
                 /\ stage' = "send"
                 /\ UNCHANGED <<assertion, parts, accepting>>

RECURSIVE Reserialize(_)

\* The same document written differently: each tag in the opposite order, a
\* comment after the first letter of each longer text.
Reserialize(e) ==
  [e EXCEPT !.attrs = Reverse(@), !.declsFirst = ~@,
            !.children = FlattenSeq([i \in DOMAIN @ |->
               CASE @[i].kind = "elem" -> <<Reserialize(@[i])>>
                 [] @[i].kind = "text" /\ Len(@[i].v) > 1 ->
                      <<Text(<<Head(@[i].v)>>), [kind |-> "comment"], Text(Tail(@[i].v))>>
                 [] OTHER -> <<@[i]>>])]

IsSignature(c) == c.kind = "elem" /\ c.local = "Signature"

\* The positions of the children of e that are elements other than Signatures.
Elements(e) == {i \in DOMAIN e.children : e.children[i].kind = "elem" /\ ~IsSignature(e.children[i])}

\* One thing changed in e itself: a text shortened; a declaration, an attribute
\* or an element added; an element put into a new one; the signature of a child
\* moved or copied out to e.
Edits(e) ==
  {[e EXCEPT !.children[i].v = Tail(@)] : i \in {j \in DOMAIN e.children : e.children[j].kind = "text"}}
  \union {[e EXCEPT !.decls = @ @@ d.decl, !.declsFirst = d.declsFirst] :
            d \in {x \in NewDecls : DOMAIN x.decl \intersect DOMAIN e.decls = {}}}
  \union {[e EXCEPT !.attrs = Append(@, a)] : a \in NewAttrs}
  \union {[e EXCEPT !.children = InsertAt(@, i, x)] : i \in {1, Len(e.children) + 1}, x \in NewElements}
  \union {[e EXCEPT !.children[i] = [x EXCEPT !.children = <<e.children[i]>>]] :
            i \in Elements(e), x \in NewElements}
  \union UNION {LET c == e.children[i]
                    s == Head(c.children)
                IN {[e EXCEPT !.children = <<s>> \o [@ EXCEPT ![i] = d]] : d \in {c, Enveloped(c, 1)}} :
                  i \in {j \in Elements(e) : IsSignature(Head(e.children[j].children))}}

RECURSIVE Edited(_)

\* One such change in one element of it, Signatures left alone.
Edited(e) ==
  Edits(e) \union
  UNION {{[e EXCEPT !.children[i] = c] : c \in Edited(e.children[i])} : i \in Elements(e)}

\* On its way the Response is left alone, written differently, or changed.
Send ==
  /\ stage = "send"
  /\ message' \in {message, Reserialize(message)} \union Edited(message)
  /\ stage' = "verify"
  /\ UNCHANGED <<assertion, parts, said, accepting>>

\* acs, with each certificate the tenant's IdP metadata may hold.
Verify ==
  /\ stage = "verify"
  /\ accepting' = {cert \in Certs : VerifySAMLResponseSignature(message, cert)}
  /\ stage' = "done"
  /\ UNCHANGED <<assertion, parts, message, said>>

Finished == stage \in {"done", "refused"} /\ UNCHANGED vars

Next == SignAssertion \/ Wrap \/ Send \/ Verify \/ Finished

Spec == Init /\ [][Next]_vars

-----------------------------------------------------------------------------
\* A canonical form, read on its own, says what the element says where it
\* stands: render emits every binding a name in it needs, at the place where
\* the binding changes, whatever the document declares around it.
MeaningPreserved ==
  LET found == FindAllDescendants(message, NoDecls, SamlNS, "Assertion")
  IN stage = "verify" =>
       \A i \in DOMAIN found :
         LET c == Canonicalize(found[i].elem, found[i].scope)
         IN c.ok => Meaning(c.form, NoDecls) = Meaning(found[i].elem, found[i].scope)

\* The Assertion elements the gateway finds, with the scopes around them.
Received == FindAllDescendants(message, NoDecls, SamlNS, "Assertion")

\* The verifier finds the signatures the IdP made where it made them, and what
\* they are over says what it said, by the ID it was signed by.
Unchanged ==
  /\ Len(Received) = 1
  /\ parts = "assertion" => FindDirectChild(message, NoDecls, DsNS, "Signature") = 0
  /\ parts # "response" =>
       LET a == Received[1]
       IN /\ Meaning(a.elem, a.scope) = Meaning(said.assertion, NoDecls)
          /\ AttrValue(a.elem, "ID") = {IdOf(assertion)} /\ IdOf(assertion) # ""
  /\ parts # "assertion" =>
       /\ Meaning(message, NoDecls) = Meaning(said.response, NoDecls)
       /\ AttrValue(message, "ID") = {"r"}

\* What response.go reads of the assertion is what it would have read of the
\* one that was signed.
ReadAsSaid ==
  LET a == Received[1]
  IN IF parts = "response"
       THEN AsRead(message, NoDecls, ReadNames) = AsRead(said.response, NoDecls, ReadNames)
       ELSE AsRead(a.elem, a.scope, ReadNames) = AsRead(said.assertion, NoDecls, ReadNames)

\* The gateway accepts a response exactly when it finds one assertion in it,
\* wherever that stands, and every element that was signed still says what it
\* said and has, as attrValue reads it, the ID it was signed by; then only
\* under the certificate of the key that signed it.  Another way of writing
\* the same document is accepted; another text, attribute or element in what
\* was signed, a name that moves into another namespace, a signature that has
\* moved to another element, and a second local name ID in front of the signed
\* one, are not.  What it reads of an accepted response is then what was
\* signed, if no tag in it has two attributes of one local name or a
\* declaration named like an attribute that is read: the digest covers neither
\* their order nor declarations that no name uses, and attrValue reads by both
\* (VerifySAMLResponseSignature, canonicalize, attrValue).
AcceptedIffUnchanged ==
  stage = "done" =>
    /\ accepting = IF Unchanged THEN {"idp"} ELSE {}
    /\ accepting # {} /\ OneEntryPerName(message, ReadNames) => ReadAsSaid
=============================================================================

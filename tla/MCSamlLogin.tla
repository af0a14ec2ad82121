----------------------------- MODULE MCSamlLogin -----------------------------
(* Small instances of SamlLogin.                                           *)
EXTENDS SamlLogin, TLC

CONSTANTS t1, t2, p1, p2, p3, s1, bob, eve, r1, c1, c2, a1, a2, a3

\* Both tenants trust c1: two SPs behind one IdP (response.go:117).
MCCerts == [t \in Tenants |-> IF t = t1 THEN {c1} ELSE {c1, c2}]

\* An unsolicited response for t1, valid until tick 3.
Unsolicited ==
  [id |-> a1, signer |-> c1, destination |-> {t1}, recipient |-> {t1},
   audience |-> {t1}, inResponseTo |-> NoRequest, nameID |-> bob, complete |-> TRUE,
   scdNotOnOrAfter |-> {}, notBefore |-> {}, notOnOrAfter |-> 3]

\* Two answers of the IdP to one request; the second names no ACS URL, and
\* another user.
Answer1 == [Unsolicited EXCEPT !.id = a2, !.inResponseTo = r1, !.scdNotOnOrAfter = {1}]
Answer2 == [Unsolicited EXCEPT !.id = a3, !.inResponseTo = r1, !.audience = {t1, t2},
                               !.destination = {}, !.recipient = {}, !.notBefore = {2},
                               !.nameID = eve]

\* Signed by a key that only t2's metadata holds; signed without an ID.
Foreign == [Unsolicited EXCEPT !.signer = c2]
Unnamed == [Unsolicited EXCEPT !.id = NoId]

AllDocs    == {Unsolicited, Answer1, Answer2, Foreign, Unnamed}
AnswerDocs == {Answer1, Answer2}

\* Handlers run the same code.
PostSymmetry == Permutations(Posts)
=============================================================================

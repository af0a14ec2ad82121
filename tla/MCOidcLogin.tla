----------------------------- MODULE MCOidcLogin -----------------------------
(* Small instances of OidcLogin.                                           *)
EXTENDS OidcLogin, TLC

CONSTANTS t1, t2, c1, c2, bob, eve, op, app, s1, r1, r2, k1, k2

\* Two tenants behind one provider and one client registration.
MCIssuer == [t \in Tenants |-> op]
MCClient == [t \in Tenants |-> app]

\* An account whose email is not its sub, and one without sub.
Moved == [sub |-> eve, email |-> bob]
NoSub == [sub |-> NoClaim, email |-> bob]
TwoAccounts == {Moved, NoSub}

\* Handlers run the same code; logins and codes are random draws;
\* the tenants are configured alike.
DrawSymmetry ==
  Permutations(Callbacks) \union Permutations(Logins) \union Permutations(Codes)
  \union Permutations(Tenants)
=============================================================================

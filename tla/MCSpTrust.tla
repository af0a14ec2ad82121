------------------------------- MODULE MCSpTrust -------------------------------
(* A small instance of SpTrust.                                            *)
EXTENDS SpTrust

CONSTANTS h1, h2

\* The second of the IdP's documents offers HTTP-POST only.
MCPostOnly == {2}
=============================================================================

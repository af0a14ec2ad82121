------------------------------ MODULE MCGateway ------------------------------
(* Small instances of Gateway.                                             *)
EXTENDS Gateway, TLC

CONSTANTS t1, t2, t3, t4, c1, c2, l1, l2, eng, fake, lan, internet

\* Two tenants with a backend of their own, one without and one whose
\* backend_url does not parse.
MCBackend == t1 :> "b1" @@ t2 :> "b2" @@ t3 :> NoBackend @@ t4 :> "http://%"

\* /api/db and /api/dbprod: both prefix a path of the second.
Db     == <<"/api/", "db">>
DbProd == <<"/api/", "db", "prod">>
MCRoutes == Db :> "Database" @@ DbProd :> "Production_DB"
MCPaths  == {Append(DbProd, "/q"), <<"/api/", "x">>}

\* Production is for eng, and for anybody on the LAN; a Deny wins.
Policy(effect, resource, departments, sources) ==
  [effect |-> effect, resource |-> resource, departments |-> departments, sources |-> sources]
MCPolicies ==
  {Policy("Allow", "Database", {eng, NoDepartment}, {lan, internet}),
   Policy("Allow", "Production_DB", {eng, NoDepartment}, {lan, internet}),
   Policy("Deny", "Production_DB", {NoDepartment}, {internet})}

\* A client that sends identity headers and an address of its own and names
\* a header of Enforce's in its Connection header, and one that does not.
Forged == "ForwardedFor" :> lan @@ [n \in {"Tenant", "Department", "Groups"} |-> fake]
MCClients == {[headers |-> <<>>, connection |-> {}],
              [headers |-> Forged, connection |-> {"Department", "ForwardedFor"}]}

CallSymmetry == Permutations(Calls) \union Permutations(Logins)
=============================================================================

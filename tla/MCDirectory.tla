----------------------------- MODULE MCDirectory -----------------------------
(* Small instances of Directory: two tenants with a user each, t1 with two *)
(* users and a group of both.                                              *)
EXTENDS Directory

CONSTANTS t1, t2, c1, c2, c3, u1, u2, u3, g1

User(t, name) ==
  [tenant |-> t, userName |-> name, department |-> "eng", active |-> FALSE, extra |-> "", version |-> 1]

MCUsers   == (u1 :> User(t1, "ann")) @@ (u2 :> User(t1, "bob")) @@ (u3 :> User(t2, "ann"))
MCGroups  == g1 :> [tenant |-> t1, displayName |-> "staff", version |-> 1]
MCMembers == {<<g1, u1>>, <<g1, u2>>}

Op(kind, t, id, body) == [kind |-> kind, tenant |-> t, id |-> id, body |-> body]

\* Bodies of POST and PUT /Users, and of PATCH /Users.
Resource(name, active, dept) == [userName |-> name, active |-> active, department |-> dept]

Set(path, v)   == [verb |-> "replace", path |-> path, value |-> v]
Drop(path)   == [verb |-> "remove", path |-> path, value |-> Str("")]
Whole(f)       == [verb |-> "replace", path |-> "", value |-> Obj(f)]

UserOps ==
  { Op("createUser", t1, "new", Resource("cas", {}, {"ops"})),
    Op("createUser", t2, "new", Resource("", {TRUE}, {})),
    Op("replaceUser", t1, u1, Resource("cas", {FALSE}, {})),
    Op("replaceUser", t2, u1, Resource("bob", {TRUE}, {})),
    Op("patchUser", t1, u1, <<Set("username", Str("bob")), Drop("department")>>),
    Op("patchUser", t1, u1, <<Whole("active" :> Bool(TRUE) @@ "department" :> Str("ops"))>>),
    Op("patchUser", t1, u2, <<Set("title", Str("x")), Set("active", Str("yes"))>>),
    Op("patchUser", t1, u2, <<Drop("")>>),
    Op("deleteUser", t1, u1, {}),
    Op("deleteUser", t2, u1, {}) }

\* PATCH /Groups operations.
Members(verb, ids)   == [verb |-> verb, path |-> [attr |-> "members", selector |-> {}], ids |-> ids, name |-> ""]
RemoveSelected(u)    == [verb |-> "remove", path |-> [attr |-> "members", selector |-> {u}], ids |-> {}, name |-> ""]
Rename(n)            == [verb |-> "replace", path |-> [attr |-> "displayname", selector |-> {}], ids |-> {}, name |-> n]
Roster(name, ids)    == [displayName |-> name, members |-> ids]

GroupOps ==
  { Op("createGroup", t1, "new", Roster("staff", {u1})),
    Op("createGroup", t1, "new", Roster("crew", {u2})),
    Op("createGroup", t2, "new", Roster("", {})),
    Op("replaceGroup", t1, g1, Roster("crew", {u1})),
    Op("patchGroup", t1, g1, <<Members("remove", {u1}), Rename("crew")>>),
    Op("patchGroup", t1, g1, <<Members("add", {u3}), Members("sort", {})>>),
    Op("patchGroup", t1, g1, <<RemoveSelected(u1)>>),
    Op("deleteGroup", t1, g1, {}),
    Op("deleteGroup", t2, g1, {}),
    Op("deleteUser", t1, u2, {}) }

AllOps == UserOps \union GroupOps

ForeignOps == { Op("deleteUser", t2, u1, {}) }

CallSymmetry == Permutations(Calls)
=============================================================================

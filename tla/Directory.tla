------------------------------- MODULE Directory -------------------------------
(***************************************************************************)
(* The SCIM directory: the user and group handlers of internal/scim over   *)
(* the users, groups and group_members tables of internal/store.           *)
(*                                                                         *)
(* A member of Calls is one authenticated SCIM request; op[c] says which,  *)
(* for which tenant and resource ID, and with what body.  Each SQL         *)
(* statement, and each transaction, is one step (store.go:102); PUT and    *)
(* PATCH read a record in one statement and write it back in another.      *)
(***************************************************************************)
EXTENDS Integers, FiniteSets, Sequences, ScimPatch

CONSTANTS
  Tenants,
  Calls,       \* SCIM requests; also the uuid of what a create call inserts
  Ops,         \* the operations calls may carry
  SeedUsers,   \* rows in the tables before the calls, as functions
  SeedGroups,
  SeedMembers

UserKinds  == {"createUser", "replaceUser", "patchUser", "deleteUser"}
GroupKinds == {"createGroup", "replaceGroup", "patchGroup", "deleteGroup"}

ASSUME OpsAssumption == \A o \in Ops : o.kind \in UserKinds \union GroupKinds

\* uuids are unique, and the tables satisfy their unique indexes.
ASSUME SeedAssumption ==
  /\ Calls \intersect (DOMAIN SeedUsers \union DOMAIN SeedGroups) = {}
  /\ DOMAIN SeedUsers \intersect DOMAIN SeedGroups = {}
  /\ \A i \in DOMAIN SeedUsers : SeedUsers[i].version \in Nat
  /\ \A m \in SeedMembers : m[1] \in DOMAIN SeedGroups
  /\ \A i, j \in DOMAIN SeedUsers :
       SeedUsers[i].tenant = SeedUsers[j].tenant /\ SeedUsers[i].userName = SeedUsers[j].userName
         => i = j
  /\ \A i, j \in DOMAIN SeedGroups :
       SeedGroups[i].tenant = SeedGroups[j].tenant
       /\ SeedGroups[i].displayName = SeedGroups[j].displayName => i = j

VARIABLES
  users,    \* table users: a function from the IDs in it
  groups,   \* table groups
  members,  \* table group_members: pairs <<group, user>>
  op,       \* op[c]: the request c carries
  pc,       \* pc[c]: the next statement of c's handler
  copy,     \* copy[c]: the record c's handler has read
  resp,     \* resp[c]: the HTTP answer of c
  deleted,  \* history: the IDs deleted
  serial,   \* history: each user as if every update were applied atomically
  raced     \* history: the users written over a version other than the one read

tables  == <<users, groups, members>>
history == <<deleted, serial, raced>>
vars    == <<tables, op, pc, copy, resp, history>>

FirstStep(kind) ==
  CASE kind = "createUser"                    -> "findUser"
    [] kind \in {"replaceUser", "patchUser"}  -> "readUser"
    [] kind = "deleteUser"                    -> "deleteUser"
    [] kind = "createGroup"                   -> "insertGroup"
    [] kind \in {"replaceGroup", "patchGroup"} -> "readGroup"
    [] kind = "deleteGroup"                   -> "deleteGroup"

Nothing == [present |-> FALSE]

Init ==
  /\ users = SeedUsers /\ groups = SeedGroups /\ members = SeedMembers
  /\ op \in [Calls -> Ops]
  /\ pc = [c \in Calls |-> FirstStep(op[c].kind)]
  /\ copy = [c \in Calls |-> Nothing]
  /\ resp = [c \in Calls |-> "none"]
  /\ deleted = {} /\ serial = SeedUsers /\ raced = {}

Goto(c, step) == pc' = [pc EXCEPT ![c] = step] /\ UNCHANGED resp
Answer(c, r)  == pc' = [pc EXCEPT ![c] = "done"] /\ resp' = [resp EXCEPT ![c] = r]

\* Mutant: WHERE id = ?
HasRowAnyTenant(table, c) == op[c].id \in DOMAIN table

\* WHERE tenant_id = ? AND id = ?
HasRow(table, c) == op[c].id \in DOMAIN table /\ table[op[c].id].tenant = op[c].tenant

\* The unique index (tenant_id, user_name), for a row other than id.
NameTaken(t, name, id) ==
  \E i \in DOMAIN users \ {id} : users[i].tenant = t /\ users[i].userName = name

\* The unique index (tenant_id, display_name), for a row other than id.
GroupNameTaken(t, name, id) ==
  \E i \in DOMAIN groups \ {id} : groups[i].tenant = t /\ groups[i].displayName = name

\* The columns of a users row, from a store.User.
Row(t, u, v) ==
  [tenant |-> t, userName |-> u.userName, department |-> u.department, active |-> u.active,
   extra |-> u.extra, version |-> v]

\* INSERT of a row under a new ID.
Insert(table, id, row) == [i \in DOMAIN table \union {id} |-> IF i = id THEN row ELSE table[i]]

-----------------------------------------------------------------------------
(* POST /Users: userName is required; FindUserByUserName answers 409 early. *)
(* A lookup that fails is taken for one that finds nobody.                 *)
FindUser(c) ==
  /\ pc[c] = "findUser"
  /\ IF op[c].body.userName = ""
       THEN Answer(c, "invalid")
       ELSE \/ NameTaken(op[c].tenant, op[c].body.userName, c) /\ Answer(c, "conflict")
            \/ Goto(c, "insertUser")
  /\ UNCHANGED <<tables, op, copy, history>>

\* A fresh record, before applyUserResource.
NewUser(t) ==
  [tenant |-> t, userName |-> "", department |-> "", active |-> FALSE, extra |-> ""]

\* The row CreateUser inserts for call c.
NewRow(c) == Row(op[c].tenant, ApplyUserResource(NewUser(op[c].tenant), op[c].body), 1)

\* Mutant: the table has no unique index, only the lookup before the INSERT.
InsertUserNoIndex(c) ==
  /\ pc[c] = "insertUser"
  /\ users' = Insert(users, c, NewRow(c))
  /\ serial' = Insert(serial, c, NewRow(c))
  /\ Answer(c, "ok")
  /\ UNCHANGED <<groups, members, op, copy, deleted, raced>>

(* POST /Users: CreateUser.                                                *)
InsertUser(c) ==
  /\ pc[c] = "insertUser"
  /\ IF NameTaken(op[c].tenant, NewRow(c).userName, c)
       THEN Answer(c, "conflict") /\ UNCHANGED <<users, serial>>
       ELSE /\ users' = Insert(users, c, NewRow(c))
            /\ serial' = Insert(serial, c, NewRow(c))
            /\ Answer(c, "ok")
  /\ UNCHANGED <<groups, members, op, copy, deleted, raced>>

\* The body of a PUT or PATCH applied to user u.
UpdateUser(c, u) ==
  IF op[c].kind = "replaceUser" THEN Done(ApplyUserResource(u, op[c].body))
                                ELSE ApplyUserPatch(u, op[c].body)

(* PUT and PATCH /Users/{id}: GetUser, and a 400 if the patch fails.       *)
ReadUser(c) ==
  /\ pc[c] = "readUser"
  /\ IF ~HasRow(users, c)
       THEN Answer(c, "notFound") /\ UNCHANGED copy
       ELSE IF ~UpdateUser(c, users[op[c].id]).ok
         THEN Answer(c, "invalid") /\ UNCHANGED copy
         ELSE Goto(c, "writeUser") /\ copy' = [copy EXCEPT ![c] = users[op[c].id]]
  /\ UNCHANGED <<tables, op, history>>

\* Mutant: an upsert, which brings a deleted user back.
WriteUserUpsert(c) ==
  LET id  == op[c].id
      row == Row(op[c].tenant, UpdateUser(c, copy[c]).user, copy[c].version + 1)
  IN /\ pc[c] = "writeUser"
     /\ users' = Insert(users, id, row)
     /\ serial' = Insert(serial, id, row)
     /\ Answer(c, "ok")
     /\ UNCHANGED <<groups, members, op, copy, deleted, raced>>

\* The history of a successful ReplaceUser.
Replaced(c, id) ==
  /\ serial' = [serial EXCEPT ![id] =
                  Row(serial[id].tenant, UpdateUser(c, serial[id]).user, serial[id].version + 1)]
  /\ raced' = IF users[id].version = copy[c].version THEN raced ELSE raced \union {id}

\* Mutant: the version is written back as it was read.
WriteUserKeepsVersion(c) ==
  LET id  == op[c].id
      new == UpdateUser(c, copy[c]).user
  IN /\ pc[c] = "writeUser"
     /\ HasRow(users, c) /\ ~NameTaken(op[c].tenant, new.userName, id)
     /\ users' = [users EXCEPT ![id] = Row(users[id].tenant, new, copy[c].version)]
     /\ Replaced(c, id)
     /\ Answer(c, "ok")
     /\ UNCHANGED <<groups, members, op, copy, deleted>>

(* PUT and PATCH /Users/{id}: ReplaceUser writes every column of the copy  *)
(* but the tenant, and its version plus one; its errors, ErrConflict too,  *)
(* are a 500.                                                              *)
WriteUser(c) ==
  LET id  == op[c].id
      new == UpdateUser(c, copy[c]).user
  IN /\ pc[c] = "writeUser"
     /\ IF ~HasRow(users, c) \/ NameTaken(op[c].tenant, new.userName, id)
          THEN Answer(c, "error") /\ UNCHANGED <<users, serial, raced>>
          ELSE /\ users' = [users EXCEPT ![id] = Row(users[id].tenant, new, copy[c].version + 1)]
               /\ Replaced(c, id)
               /\ Answer(c, "ok")
     /\ UNCHANGED <<groups, members, op, copy, deleted>>

(* DELETE /Users/{id}: the row, if the tenant has it.                      *)
DeleteUser(c) ==
  /\ pc[c] = "deleteUser"
  /\ copy' = [copy EXCEPT ![c] = [present |-> HasRow(users, c)]]
  /\ IF HasRow(users, c)
       THEN /\ users' = Restrict(users, DOMAIN users \ {op[c].id})
            /\ serial' = Restrict(serial, DOMAIN serial \ {op[c].id})
            /\ deleted' = deleted \union {op[c].id}
       ELSE UNCHANGED <<users, deleted, serial>>
  /\ Goto(c, "cascadeUser")
  /\ UNCHANGED <<groups, members, op, raced>>

(* DELETE /Users/{id}: its memberships, of any tenant, even when no row    *)
(* was deleted; then 404 if there was none.                                *)
CascadeUser(c) ==
  /\ pc[c] = "cascadeUser"
  /\ members' = {m \in members : m[2] # op[c].id}
  /\ Answer(c, IF copy[c].present THEN "ok" ELSE "notFound")
  /\ UNCHANGED <<users, groups, op, copy, history>>

-----------------------------------------------------------------------------
\* replaceMembersTx: DELETE, then INSERT OR IGNORE of each ID.
ReplaceMembers(g, ids) == {m \in members : m[1] # g} \union ({g} \X ids)

(* POST /Groups: CreateGroup is one transaction.                           *)
InsertGroup(c) ==
  /\ pc[c] = "insertGroup"
  /\ IF op[c].body.displayName = ""
       THEN Answer(c, "invalid") /\ UNCHANGED <<groups, members>>
       ELSE IF GroupNameTaken(op[c].tenant, op[c].body.displayName, c)
         THEN Answer(c, "conflict") /\ UNCHANGED <<groups, members>>
         ELSE /\ groups' = Insert(groups, c, [tenant |-> op[c].tenant,
                                     displayName |-> op[c].body.displayName, version |-> 1])
              /\ members' = ReplaceMembers(c, op[c].body.members)
              /\ Answer(c, "ok")
  /\ UNCHANGED <<users, op, copy, deleted, serial, raced>>

(* PUT and PATCH /Groups/{id}: GetGroup's row ...                          *)
ReadGroup(c) ==
  /\ pc[c] = "readGroup"
  /\ IF ~HasRow(groups, c)
       THEN Answer(c, "notFound") /\ UNCHANGED copy
       ELSE Goto(c, "readMembers") /\ copy' = [copy EXCEPT ![c] = groups[op[c].id]]
  /\ UNCHANGED <<tables, op, history>>

\* ... and, in a second statement, its roster (loadMembers).
ReadMembers(c) ==
  LET roster == {m[2] : m \in {x \in members : x[1] = op[c].id}} IN
  /\ pc[c] = "readMembers"
  /\ IF op[c].kind = "patchGroup" /\ ~GroupPatchOK(op[c].body)
       THEN Answer(c, "invalid") /\ UNCHANGED copy
       ELSE Goto(c, "writeGroup") /\ copy' = [copy EXCEPT ![c] =
              [tenant |-> copy[c].tenant, displayName |-> copy[c].displayName,
               version |-> copy[c].version, members |-> roster]]
  /\ UNCHANGED <<tables, op, history>>

\* The body of a PUT or PATCH applied to group g: applyGroupResource takes
\* its name and its whole roster from the body.
UpdateGroup(c, g) ==
  IF op[c].kind = "replaceGroup"
    THEN [g EXCEPT !.displayName = op[c].body.displayName, !.members = op[c].body.members]
    ELSE ApplyGroupPatch(g, op[c].body)

\* Mutant: ReplaceGroup does not look at RowsAffected, so it commits the
\* roster of a group that has been deleted meanwhile.
WriteGroupNoRowCheck(c) ==
  LET id  == op[c].id
      new == UpdateGroup(c, copy[c])
  IN /\ pc[c] = "writeGroup"
     /\ members' = ReplaceMembers(id, new.members)
     /\ groups' = IF id \in DOMAIN groups
                    THEN [groups EXCEPT ![id].displayName = new.displayName,
                                        ![id].version = copy[c].version + 1]
                    ELSE groups
     /\ Answer(c, "ok")
     /\ UNCHANGED <<users, op, copy, deleted, serial, raced>>

(* PUT and PATCH /Groups/{id}: ReplaceGroup is one transaction, rolled     *)
(* back when the row is gone or the name taken.                            *)
WriteGroup(c) ==
  LET id  == op[c].id
      new == UpdateGroup(c, copy[c])
  IN /\ pc[c] = "writeGroup"
     /\ IF ~HasRow(groups, c) \/ GroupNameTaken(op[c].tenant, new.displayName, id)
          THEN Answer(c, "error") /\ UNCHANGED <<groups, members>>
          ELSE /\ groups' = [groups EXCEPT ![id] =
                              [tenant |-> groups[id].tenant, displayName |-> new.displayName,
                               version |-> copy[c].version + 1]]
               /\ members' = ReplaceMembers(id, new.members)
               /\ Answer(c, "ok")
     /\ UNCHANGED <<users, op, copy, deleted, serial, raced>>

(* DELETE /Groups/{id}: the row, if the tenant has it ...                  *)
DeleteGroup(c) ==
  /\ pc[c] = "deleteGroup"
  /\ copy' = [copy EXCEPT ![c] = [present |-> HasRow(groups, c)]]
  /\ IF HasRow(groups, c)
       THEN /\ groups' = Restrict(groups, DOMAIN groups \ {op[c].id})
            /\ deleted' = deleted \union {op[c].id}
       ELSE UNCHANGED <<groups, deleted>>
  /\ Goto(c, "cascadeGroup")
  /\ UNCHANGED <<users, members, op, serial, raced>>

(* ... then its roster, by group ID alone, and a 404 if there was no row.  *)
CascadeGroup(c) ==
  /\ pc[c] = "cascadeGroup"
  /\ members' = {m \in members : m[1] # op[c].id}
  /\ Answer(c, IF copy[c].present THEN "ok" ELSE "notFound")
  /\ UNCHANGED <<users, groups, op, copy, history>>

\* A statement fails, or the process stops before it.  (The failure of the
\* lookup in FindUser is there.)
Abort(c) ==
  /\ pc[c] # "done"
  /\ Answer(c, "error")
  /\ UNCHANGED <<tables, op, copy, history>>

\* Every call has been answered.
Finished == (\A c \in Calls : pc[c] = "done") /\ UNCHANGED vars

UserStep(c) ==
  FindUser(c) \/ InsertUser(c) \/ ReadUser(c) \/ WriteUser(c) \/ DeleteUser(c) \/ CascadeUser(c)

GroupStep(c) ==
  InsertGroup(c) \/ ReadGroup(c) \/ ReadMembers(c) \/ WriteGroup(c) \/ DeleteGroup(c)
  \/ CascadeGroup(c)

Next == (\E c \in Calls : UserStep(c) \/ GroupStep(c) \/ Abort(c)) \/ Finished

Spec == Init /\ [][Next]_vars

-----------------------------------------------------------------------------
(* No two users of a tenant share a userName and no two groups a name,     *)
(* however creates, renames by PUT or PATCH and deletes interleave.        *)
UniqueNames ==
  /\ \A i, j \in DOMAIN users :
       users[i].tenant = users[j].tenant /\ users[i].userName = users[j].userName => i = j
  /\ \A i, j \in DOMAIN groups :
       groups[i].tenant = groups[j].tenant /\ groups[i].displayName = groups[j].displayName
         => i = j

(* A deleted user or group stays deleted: a PUT or PATCH that read it      *)
(* before the DELETE cannot write it back.                                 *)
DeletedStaysDeleted ==
  deleted \intersect (DOMAIN users \union DOMAIN groups) = {}

(* Roster rows of a group that is not in the table exist only while the    *)
(* DELETE of that group is between its two statements, or if it failed     *)
(* there: no overlapping PUT or PATCH leaves any behind.                   *)
NoOrphanRoster ==
  \A m \in members :
    \/ m[1] \in DOMAIN groups
    \/ \E c \in Calls : /\ op[c].kind = "deleteGroup"
                         /\ op[c].id = m[1]
                         /\ (pc[c] = "cascadeGroup" \/ resp[c] = "error")

(* ReplaceUser writes a whole copy back without comparing versions, so an  *)
(* update can be lost; but only to a call that overlapped it, and never    *)
(* unseen: every user that is not what its successful updates give, one    *)
(* after the other, was written over a version other than the one read.    *)
LostOnlyUnderStaleVersion ==
  \A i \in DOMAIN users \ raced :
    /\ users[i].userName = serial[i].userName
    /\ users[i].department = serial[i].department
    /\ users[i].active = serial[i].active
    /\ users[i].extra = serial[i].extra

\* The rows of users and groups changed are of the tenant of the call that moves.
OwnRows ==
  \A c \in Calls : pc'[c] # pc[c] =>
    /\ \A i \in DOMAIN users :
         (i \in DOMAIN users' /\ users'[i] = users[i]) \/ users[i].tenant = op[c].tenant
    /\ \A i \in DOMAIN groups :
         (i \in DOMAIN groups' /\ groups'[i] = groups[i]) \/ groups[i].tenant = op[c].tenant
    /\ \A i \in DOMAIN users' :
         (i \in DOMAIN users /\ users'[i] = users[i]) \/ users'[i].tenant = op[c].tenant
    /\ \A i \in DOMAIN groups' :
         (i \in DOMAIN groups /\ groups'[i] = groups[i]) \/ groups'[i].tenant = op[c].tenant

(* A step of a call changes only rows of users and groups of the call's    *)
(* own tenant, and never moves a row to another tenant.                    *)
OwnTenantOnly == [][OwnRows]_vars

-----------------------------------------------------------------------------
(* What a test of the repository says and the code does not do.            *)

(* sessions_test.go:51: every per-tenant table of the store is scoped by   *)
(* tenant; so a call leaves the rosters of other tenants' groups alone.    *)
OwnTenantRosters ==
  [][\A c \in Calls : pc'[c] # pc[c] =>
       \A m \in members \ members' :
         m[1] \in DOMAIN groups => groups[m[1]].tenant = op[c].tenant]_vars
=============================================================================

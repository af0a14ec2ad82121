---------------------------- MODULE DirectoryProofs ----------------------------
(* Theorems about Directory, for every set of tenants, calls and requests  *)
(* and all initial tables.  What a PATCH does to a record (the folds of    *)
(* ScimPatch) is never looked into: the theorems hold whatever it computes. *)
EXTENDS Directory, TLAPS

(* The control state: each call has one step, one copy and one answer, and *)
(* keeps the request it came with.                                         *)
Control ==
  /\ op \in [Calls -> Ops]
  /\ DOMAIN pc = Calls /\ DOMAIN copy = Calls /\ DOMAIN resp = Calls
  /\ \A c \in Calls :
       /\ pc[c] \in {"deleteGroup", "cascadeGroup"} => op[c].kind = "deleteGroup"
       /\ resp[c] = "error" => pc[c] = "done"

(* An ID names one row, once: a user or a group, in its table or deleted;  *)
(* the ID of a create call that has not inserted its row names none.       *)
Ids ==
  /\ DOMAIN users \intersect DOMAIN groups = {}
  /\ deleted \intersect (DOMAIN users \union DOMAIN groups) = {}
  /\ \A c \in Calls : pc[c] \in {"findUser", "insertUser", "insertGroup"} =>
       c \notin DOMAIN users \union DOMAIN groups \union deleted

IdInv == Control /\ Ids

(* While no write of user i has raced, its version counts its writes: a    *)
(* copy some call still holds is older than the row, or is the row.        *)
Versions ==
  /\ DOMAIN serial = DOMAIN users
  /\ \A i \in DOMAIN users : users[i].version \in Nat
  /\ \A i \in DOMAIN users \ raced : users[i] = serial[i]
  /\ \A c \in Calls : pc[c] = "writeUser" =>
       /\ copy[c].version \in Nat
       /\ op[c].id \in DOMAIN users \union deleted
       /\ op[c].id \in DOMAIN users \ raced =>
            /\ copy[c].version <= users[op[c].id].version
            /\ copy[c].version = users[op[c].id].version => copy[c] = users[op[c].id]

VersionInv == IdInv /\ Versions

-----------------------------------------------------------------------------
(* A POST of a group inserts one row under the ID of its call, or nothing. *)
LEMMA GroupInserted ==
  ASSUME NEW c \in Calls, InsertGroup(c)
  PROVE  /\ pc[c] = "insertGroup" /\ \E r : Answer(c, r)
         /\ UNCHANGED <<users, op, copy, history>>
         /\ \/ UNCHANGED <<groups, members>>
            \/ /\ DOMAIN groups' = DOMAIN groups \union {c}
               /\ \A i \in DOMAIN groups \ {c} : groups'[i] = groups[i]
               /\ groups'[c].tenant = op[c].tenant
               /\ ~GroupNameTaken(op[c].tenant, groups'[c].displayName, c)
               /\ members' = ReplaceMembers(c, op[c].body.members)
  <1> DEFINE row == [tenant |-> op[c].tenant, displayName |-> op[c].body.displayName,
                     version |-> 1]
  <1>1. row.tenant = op[c].tenant /\ row.displayName = op[c].body.displayName
    OBVIOUS
  <1>2. CASE UNCHANGED <<groups, members>>
    BY <1>2 DEF InsertGroup, history
  <1>3. CASE /\ groups' = Insert(groups, c, row)
             /\ members' = ReplaceMembers(c, op[c].body.members)
             /\ ~GroupNameTaken(op[c].tenant, op[c].body.displayName, c)
    <2>1. pc[c] = "insertGroup" /\ (\E r : Answer(c, r)) /\ UNCHANGED <<users, op, copy, history>>
      BY DEF InsertGroup, history
    <2> HIDE DEF row
    <2>2. groups'[c] = row /\ DOMAIN groups' = DOMAIN groups \union {c}
          /\ \A i \in DOMAIN groups \ {c} : groups'[i] = groups[i]
      <3>1. groups' = Insert(groups, c, row)
        BY <1>3
      <3> QED BY <3>1 DEF Insert
    <2>3. ~GroupNameTaken(op[c].tenant, groups'[c].displayName, c)
      BY <1>1, <1>3, <2>2
    <2> QED BY <1>1, <1>3, <2>1, <2>2, <2>3
  <1> QED BY <1>2, <1>3 DEF InsertGroup

LEMMA IdInvInit == Init => IdInv
  BY SeedAssumption, OpsAssumption
     DEF Init, IdInv, Control, Ids, FirstStep, UserKinds, GroupKinds

(* One step per statement of the handlers.                                 *)
LEMMA IdInvStep == IdInv /\ [Next]_vars => IdInv'
  <1> SUFFICES ASSUME IdInv, [Next]_vars PROVE IdInv'
    OBVIOUS
  <1> USE DEF IdInv, Control, Ids, Goto, Answer, tables, history
  <1>1. ASSUME NEW c \in Calls, FindUser(c) PROVE IdInv'
    BY <1>1 DEF FindUser
  <1>2. ASSUME NEW c \in Calls, InsertUser(c) PROVE IdInv'
    BY <1>2 DEF InsertUser, Insert
  <1>3. ASSUME NEW c \in Calls, ReadUser(c) PROVE IdInv'
    BY <1>3 DEF ReadUser
  <1>4. ASSUME NEW c \in Calls, WriteUser(c) PROVE IdInv'
    BY <1>4 DEF WriteUser, HasRow, Replaced
  <1>5. ASSUME NEW c \in Calls, DeleteUser(c) PROVE IdInv'
    BY <1>5 DEF DeleteUser, HasRow, Restrict
  <1>6. ASSUME NEW c \in Calls, CascadeUser(c) PROVE IdInv'
    BY <1>6 DEF CascadeUser
  <1>7. ASSUME NEW c \in Calls, InsertGroup(c) PROVE IdInv'
    <2>1. /\ pc[c] = "insertGroup" /\ \E r : Answer(c, r)
          /\ UNCHANGED <<users, op, copy, history>>
      BY <1>7, GroupInserted
    <2>2. DOMAIN groups' = DOMAIN groups \/ DOMAIN groups' = DOMAIN groups \union {c}
      BY <1>7, GroupInserted
    <2> QED BY <2>1, <2>2
  <1>8. ASSUME NEW c \in Calls, ReadGroup(c) PROVE IdInv'
    BY <1>8 DEF ReadGroup
  <1>9. ASSUME NEW c \in Calls, ReadMembers(c) PROVE IdInv'
    BY <1>9 DEF ReadMembers
  <1>10. ASSUME NEW c \in Calls, WriteGroup(c) PROVE IdInv'
    BY <1>10 DEF WriteGroup, HasRow
  <1>11. ASSUME NEW c \in Calls, DeleteGroup(c) PROVE IdInv'
    BY <1>11 DEF DeleteGroup, HasRow, Restrict
  <1>12. ASSUME NEW c \in Calls, CascadeGroup(c) PROVE IdInv'
    BY <1>12 DEF CascadeGroup
  <1>13. ASSUME NEW c \in Calls, Abort(c) PROVE IdInv'
    BY <1>13 DEF Abort
  <1>14. CASE UNCHANGED vars
    BY <1>14 DEF vars
  <1> QED BY <1>1, <1>2, <1>3, <1>4, <1>5, <1>6, <1>7, <1>8, <1>9, <1>10, <1>11, <1>12, <1>13, <1>14 DEF Next, UserStep, GroupStep, Finished

LEMMA IdInvAlways == Spec => []IdInv
  BY IdInvInit, IdInvStep, PTL DEF Spec

(* DeletedStaysDeleted, for every instance: an ID that a DELETE of a user  *)
(* or group removed is in neither table again, since PUT and PATCH update  *)
(* an existing row only and a POST takes a new ID.                         *)
THEOREM DeletedTheorem == Spec => []DeletedStaysDeleted
  <1>1. IdInv => DeletedStaysDeleted
    BY DEF IdInv, Ids, DeletedStaysDeleted
  <1> QED BY <1>1, IdInvAlways, PTL

-----------------------------------------------------------------------------
(* UniqueNames is inductive as it stands: each INSERT and UPDATE is guarded *)
(* by the unique index, over the rows at that moment.                      *)
LEMMA NamesStep == UniqueNames /\ [Next]_vars => UniqueNames'
  <1> SUFFICES ASSUME UniqueNames, [Next]_vars PROVE UniqueNames'
    OBVIOUS
  <1> USE DEF UniqueNames, tables, history
  <1>1. ASSUME NEW c \in Calls, FindUser(c) PROVE UniqueNames'
    BY <1>1 DEF FindUser
  <1>2. ASSUME NEW c \in Calls, InsertUser(c) PROVE UniqueNames'
    BY <1>2 DEF InsertUser, NameTaken, Insert, NewRow, Row
  <1>3. ASSUME NEW c \in Calls, ReadUser(c) PROVE UniqueNames'
    BY <1>3 DEF ReadUser
  <1>4. ASSUME NEW c \in Calls, WriteUser(c) PROVE UniqueNames'
    BY <1>4 DEF WriteUser, HasRow, NameTaken, Row
  <1>5. ASSUME NEW c \in Calls, DeleteUser(c) PROVE UniqueNames'
    BY <1>5 DEF DeleteUser, HasRow, Restrict
  <1>6. ASSUME NEW c \in Calls, CascadeUser(c) PROVE UniqueNames'
    BY <1>6 DEF CascadeUser
  <1>7. ASSUME NEW c \in Calls, InsertGroup(c) PROVE UniqueNames'
    <2>1. UNCHANGED users
      BY <1>7, GroupInserted
    <2>2. CASE UNCHANGED groups
      BY <2>1, <2>2
    <2>3. CASE /\ DOMAIN groups' = DOMAIN groups \union {c}
               /\ \A i \in DOMAIN groups \ {c} : groups'[i] = groups[i]
               /\ groups'[c].tenant = op[c].tenant
               /\ ~GroupNameTaken(op[c].tenant, groups'[c].displayName, c)
      BY <2>1, <2>3 DEF GroupNameTaken
    <2> QED BY <1>7, <2>2, <2>3, GroupInserted
  <1>8. ASSUME NEW c \in Calls, ReadGroup(c) PROVE UniqueNames'
    BY <1>8 DEF ReadGroup
  <1>9. ASSUME NEW c \in Calls, ReadMembers(c) PROVE UniqueNames'
    BY <1>9 DEF ReadMembers
  <1>10. ASSUME NEW c \in Calls, WriteGroup(c) PROVE UniqueNames'
    BY <1>10 DEF WriteGroup, HasRow, GroupNameTaken
  <1>11. ASSUME NEW c \in Calls, DeleteGroup(c) PROVE UniqueNames'
    BY <1>11 DEF DeleteGroup, HasRow, Restrict
  <1>12. ASSUME NEW c \in Calls, CascadeGroup(c) PROVE UniqueNames'
    BY <1>12 DEF CascadeGroup
  <1>13. ASSUME NEW c \in Calls, Abort(c) PROVE UniqueNames'
    BY <1>13 DEF Abort
  <1>14. CASE UNCHANGED vars
    BY <1>14 DEF vars
  <1> QED BY <1>1, <1>2, <1>3, <1>4, <1>5, <1>6, <1>7, <1>8, <1>9, <1>10, <1>11, <1>12, <1>13, <1>14 DEF Next, UserStep, GroupStep, Finished

(* UniqueNames, for every instance: however many creates, renames and      *)
(* deletes interleave, no two users or groups of a tenant share a name.    *)
THEOREM NamesTheorem == Spec => []UniqueNames
  <1>1. Init => UniqueNames
    BY SeedAssumption DEF Init, UniqueNames
  <1> QED BY <1>1, NamesStep, PTL DEF Spec

-----------------------------------------------------------------------------
RosterInv == IdInv /\ NoOrphanRoster

LEMMA RowsReplaced ==
  ASSUME NEW g, NEW ids, NEW m \in ReplaceMembers(g, ids)
  PROVE  m \in members \/ m[1] = g
  BY DEF ReplaceMembers

LEMMA RosterStep == RosterInv /\ [Next]_vars => RosterInv'
  <1> SUFFICES ASSUME RosterInv, [Next]_vars PROVE NoOrphanRoster'
    BY IdInvStep DEF RosterInv
  <1> USE DEF RosterInv, IdInv, Control, NoOrphanRoster, Goto, Answer, tables, history
  <1>1. ASSUME NEW c \in Calls, FindUser(c) PROVE NoOrphanRoster'
    <2>1. UNCHANGED <<groups, members, op>> /\ pc[c] = "findUser"
      BY <1>1 DEF FindUser
    <2>2. Goto(c, "insertUser") \/ \E r : Answer(c, r)
      BY <1>1 DEF FindUser
    <2> QED BY <2>1, <2>2
  <1>2. ASSUME NEW c \in Calls, InsertUser(c) PROVE NoOrphanRoster'
    BY <1>2 DEF InsertUser
  <1>3. ASSUME NEW c \in Calls, ReadUser(c) PROVE NoOrphanRoster'
    BY <1>3 DEF ReadUser
  <1>4. ASSUME NEW c \in Calls, WriteUser(c) PROVE NoOrphanRoster'
    BY <1>4 DEF WriteUser
  <1>5. ASSUME NEW c \in Calls, DeleteUser(c) PROVE NoOrphanRoster'
    BY <1>5 DEF DeleteUser
  <1>6. ASSUME NEW c \in Calls, CascadeUser(c) PROVE NoOrphanRoster'
    BY <1>6 DEF CascadeUser
  <1>7. ASSUME NEW c \in Calls, InsertGroup(c) PROVE NoOrphanRoster'
    <2>1. op' = op /\ pc[c] = "insertGroup" /\ \E r : Answer(c, r)
      BY <1>7, GroupInserted
    <2>2. DOMAIN groups \subseteq DOMAIN groups'
      BY <1>7, GroupInserted
    <2>3. members' = members \/ (members' = ReplaceMembers(c, op[c].body.members)
                                 /\ DOMAIN groups' = DOMAIN groups \union {c})
      BY <1>7, GroupInserted, Zenon
    <2>4. \A m \in members' : m \in members \/ m[1] \in DOMAIN groups'
      BY <2>3, RowsReplaced
    <2> QED BY <2>1, <2>2, <2>4
  <1>8. ASSUME NEW c \in Calls, ReadGroup(c) PROVE NoOrphanRoster'
    BY <1>8 DEF ReadGroup
  <1>9. ASSUME NEW c \in Calls, ReadMembers(c) PROVE NoOrphanRoster'
    BY <1>9 DEF ReadMembers
  <1>10. ASSUME NEW c \in Calls, WriteGroup(c) PROVE NoOrphanRoster'
    BY <1>10 DEF WriteGroup, HasRow, ReplaceMembers
  <1>11. ASSUME NEW c \in Calls, DeleteGroup(c) PROVE NoOrphanRoster'
    BY <1>11 DEF DeleteGroup, HasRow, Restrict
  <1>12. ASSUME NEW c \in Calls, CascadeGroup(c) PROVE NoOrphanRoster'
    BY <1>12 DEF CascadeGroup
  <1>13. ASSUME NEW c \in Calls, Abort(c) PROVE NoOrphanRoster'
    BY <1>13 DEF Abort
  <1>14. CASE UNCHANGED vars
    BY <1>14 DEF vars
  <1> QED BY <1>1, <1>2, <1>3, <1>4, <1>5, <1>6, <1>7, <1>8, <1>9, <1>10, <1>11, <1>12, <1>13, <1>14 DEF Next, UserStep, GroupStep, Finished

(* NoOrphanRoster, for every instance: rows of group_members whose group   *)
(* is gone belong to a DELETE of that group between its two statements, or *)
(* failed there; a PUT or PATCH that overlaps it leaves none.              *)
THEOREM RosterTheorem == Spec => []NoOrphanRoster
  <1>1. Init => RosterInv
    BY IdInvInit, SeedAssumption DEF Init, RosterInv, NoOrphanRoster
  <1>2. RosterInv => NoOrphanRoster
    BY DEF RosterInv
  <1> QED BY <1>1, <1>2, RosterStep, PTL DEF Spec

-----------------------------------------------------------------------------
LEMMA VersionStep == VersionInv /\ [Next]_vars => VersionInv'
  <1> SUFFICES ASSUME VersionInv, [Next]_vars PROVE Versions'
    BY IdInvStep DEF VersionInv
  <1> USE DEF VersionInv, IdInv, Control, Ids, Versions, Goto, Answer, tables, history
  <1>1. ASSUME NEW c \in Calls, FindUser(c) PROVE Versions'
    BY <1>1 DEF FindUser
  <1>2. ASSUME NEW c \in Calls, InsertUser(c) PROVE Versions'
    BY <1>2 DEF InsertUser, Insert, NewRow, Row
  <1>3. ASSUME NEW c \in Calls, ReadUser(c) PROVE Versions'
    BY <1>3 DEF ReadUser, HasRow
  <1>4. ASSUME NEW c \in Calls, WriteUser(c) PROVE Versions'
    BY <1>4 DEF WriteUser, HasRow, Replaced, Row
  <1>5. ASSUME NEW c \in Calls, DeleteUser(c) PROVE Versions'
    BY <1>5 DEF DeleteUser, HasRow, Restrict
  <1>6. ASSUME NEW c \in Calls, CascadeUser(c) PROVE Versions'
    BY <1>6 DEF CascadeUser
  <1>7. ASSUME NEW c \in Calls, InsertGroup(c) PROVE Versions'
    BY <1>7 DEF InsertGroup
  <1>8. ASSUME NEW c \in Calls, ReadGroup(c) PROVE Versions'
    BY <1>8 DEF ReadGroup
  <1>9. ASSUME NEW c \in Calls, ReadMembers(c) PROVE Versions'
    BY <1>9 DEF ReadMembers
  <1>10. ASSUME NEW c \in Calls, WriteGroup(c) PROVE Versions'
    BY <1>10 DEF WriteGroup
  <1>11. ASSUME NEW c \in Calls, DeleteGroup(c) PROVE Versions'
    BY <1>11 DEF DeleteGroup
  <1>12. ASSUME NEW c \in Calls, CascadeGroup(c) PROVE Versions'
    BY <1>12 DEF CascadeGroup
  <1>13. ASSUME NEW c \in Calls, Abort(c) PROVE Versions'
    BY <1>13 DEF Abort
  <1>14. CASE UNCHANGED vars
    BY <1>14 DEF vars
  <1> QED BY <1>1, <1>2, <1>3, <1>4, <1>5, <1>6, <1>7, <1>8, <1>9, <1>10, <1>11, <1>12, <1>13, <1>14 DEF Next, UserStep, GroupStep, Finished

(* LostOnlyUnderStaleVersion, for every instance: a user that no write has *)
(* raced on is what its updates give one after the other, so that whoever  *)
(* compared versions would see every lost update of PUT and PATCH.         *)
THEOREM LostUpdateTheorem == Spec => []LostOnlyUnderStaleVersion
  <1>1. Init => VersionInv
    BY IdInvInit, SeedAssumption, OpsAssumption
       DEF Init, VersionInv, Versions, FirstStep, UserKinds, GroupKinds
  <1>2. VersionInv => LostOnlyUnderStaleVersion
    BY DEF VersionInv, Versions, LostOnlyUnderStaleVersion
  <1> QED BY <1>1, <1>2, VersionStep, PTL DEF Spec

-----------------------------------------------------------------------------
LEMMA OwnRowsStep == IdInv /\ [Next]_vars => [OwnRows]_vars
  <1> SUFFICES ASSUME IdInv, [Next]_vars PROVE OwnRows
    OBVIOUS
  <1> USE DEF IdInv, Control, Ids, OwnRows, Goto, Answer, tables, history
  <1>1. ASSUME NEW c \in Calls, FindUser(c) PROVE OwnRows
    BY <1>1 DEF FindUser
  <1>2. ASSUME NEW c \in Calls, InsertUser(c) PROVE OwnRows
    BY <1>2 DEF InsertUser, Insert, NewRow, Row
  <1>3. ASSUME NEW c \in Calls, ReadUser(c) PROVE OwnRows
    BY <1>3 DEF ReadUser, HasRow
  <1>4. ASSUME NEW c \in Calls, WriteUser(c) PROVE OwnRows
    BY <1>4 DEF WriteUser, HasRow, Row
  <1>5. ASSUME NEW c \in Calls, DeleteUser(c) PROVE OwnRows
    BY <1>5 DEF DeleteUser, HasRow, Restrict
  <1>6. ASSUME NEW c \in Calls, CascadeUser(c) PROVE OwnRows
    BY <1>6 DEF CascadeUser
  <1>7. ASSUME NEW c \in Calls, InsertGroup(c) PROVE OwnRows
    <2>1. UNCHANGED <<users, op>> /\ \E r : Answer(c, r)
      BY <1>7, GroupInserted
    <2>2. \/ UNCHANGED groups
          \/ /\ DOMAIN groups' = DOMAIN groups \union {c}
             /\ \A i \in DOMAIN groups \ {c} : groups'[i] = groups[i]
             /\ groups'[c].tenant = op[c].tenant
      BY <1>7, GroupInserted, Zenon
    <2>3. c \notin DOMAIN groups
      BY <1>7, GroupInserted
    <2> QED BY <2>1, <2>2, <2>3
  <1>8. ASSUME NEW c \in Calls, ReadGroup(c) PROVE OwnRows
    BY <1>8 DEF ReadGroup
  <1>9. ASSUME NEW c \in Calls, ReadMembers(c) PROVE OwnRows
    BY <1>9 DEF ReadMembers
  <1>10. ASSUME NEW c \in Calls, WriteGroup(c) PROVE OwnRows
    BY <1>10 DEF WriteGroup, HasRow
  <1>11. ASSUME NEW c \in Calls, DeleteGroup(c) PROVE OwnRows
    BY <1>11 DEF DeleteGroup, HasRow, Restrict
  <1>12. ASSUME NEW c \in Calls, CascadeGroup(c) PROVE OwnRows
    BY <1>12 DEF CascadeGroup
  <1>13. ASSUME NEW c \in Calls, Abort(c) PROVE OwnRows
    BY <1>13 DEF Abort
  <1>14. CASE UNCHANGED vars
    BY <1>14 DEF vars
  <1> QED BY <1>1, <1>2, <1>3, <1>4, <1>5, <1>6, <1>7, <1>8, <1>9, <1>10, <1>11, <1>12, <1>13, <1>14 DEF Next, UserStep, GroupStep, Finished

(* OwnTenantOnly, for every instance: no statement of a SCIM request       *)
(* changes, removes or adds a user or group of another tenant.             *)
THEOREM OwnTenantTheorem == Spec => OwnTenantOnly
  BY IdInvAlways, OwnRowsStep, PTL DEF Spec, OwnTenantOnly
=============================================================================

------------------------------- MODULE ScimPatch -------------------------------
(***************************************************************************)
(* internal/scim/patch.go and convert.go: what a SCIM PATCH or PUT body    *)
(* does to the record a handler has read.  A user is its userName, its     *)
(* department (one of the plain string fields), active, and extra (the     *)
(* Attributes map, one key of it).  A JSON value is a record with a kind.  *)
(***************************************************************************)
EXTENDS Sequences, FiniteSets, SequencesExt

Str(s)  == [kind |-> "string", str |-> s]
Bool(b) == [kind |-> "bool", bool |-> b]
\* An object: a function from normalised paths to values.
Obj(f)  == [kind |-> "object", fields |-> f]

\* value.(string) with the error ignored: "" for any other type.
AsString(v) == IF v.kind = "string" THEN v.str ELSE ""

Failed(u) == [ok |-> FALSE, user |-> u]
Done(u)   == [ok |-> TRUE, user |-> u]

SetUserField(u, path, v) ==
  CASE path = "active"     -> IF v.kind = "bool" THEN Done([u EXCEPT !.active = v.bool])
                                                 ELSE Failed(u)
    [] path = "username"   -> Done([u EXCEPT !.userName = AsString(v)])
    [] path = "department" -> Done([u EXCEPT !.department = AsString(v)])
    [] OTHER               -> Done([u EXCEPT !.extra = AsString(v)])

\* userName is not among the fields remove can clear: it falls to Attributes.
ClearUserField(u, path) ==
  CASE path = "active"     -> [u EXCEPT !.active = FALSE]
    [] path = "department" -> [u EXCEPT !.department = ""]
    [] path = "username"   -> u
    [] OTHER               -> [u EXCEPT !.extra = ""]

\* The loop over an object's fields, in random map order: the keys of a body are
\* taken as distinct after normalising, so only the first error matters, and it
\* ends the whole request.
SetUserFields(u, fields) ==
  FoldSet(LAMBDA k, acc : IF acc.ok THEN SetUserField(acc.user, k, fields[k]) ELSE acc,
          Done(u), DOMAIN fields)

ApplyUserOp(u, op) ==
  CASE op.verb \in {"replace", "add"} /\ op.path = "" ->
         IF op.value.kind = "object" THEN SetUserFields(u, op.value.fields) ELSE Failed(u)
    [] op.verb \in {"replace", "add"} /\ op.path # "" -> SetUserField(u, op.path, op.value)
    [] op.verb = "remove" /\ op.path = ""  -> Failed(u)
    [] op.verb = "remove" /\ op.path # ""  -> Done(ClearUserField(u, op.path))
    [] OTHER -> Failed(u)

\* applyUserPatch: the operations in order, up to the first error.
ApplyUserPatch(u, ops) ==
  FoldLeft(LAMBDA acc, op : IF acc.ok THEN ApplyUserOp(acc.user, op) ELSE acc, Done(u), ops)

\* applyUserResource: a missing department is left, a missing active is TRUE.
\* Optional members of the body are sets of at most one element.
ApplyUserResource(u, in) ==
  [u EXCEPT !.userName   = in.userName,
            !.active     = \A b \in in.active : b,
            !.department = IF in.department = {} THEN @ ELSE CHOOSE d \in in.department : TRUE]

-----------------------------------------------------------------------------
(***************************************************************************)
(* A group PATCH operation: its verb, the attribute its path names, the ID *)
(* in the path's [value eq "..."] selector if it has one, the member IDs   *)
(* extractMemberIDs finds in its value, and its value as a name.           *)
(***************************************************************************)

\* normalizePatchPath drops the bracketed selector.
NormalizePatchPath(path) == path.attr

ApplyGroupOp(g, op) ==
  LET path == NormalizePatchPath(op.path) IN
  CASE op.verb = "add" -> [g EXCEPT !.members = @ \union op.ids]
    [] op.verb = "remove" /\ path \in {"members", ""} ->
         [g EXCEPT !.members = IF op.ids = {} THEN {} ELSE @ \ op.ids]
    [] op.verb = "remove" /\ path \notin {"members", ""} ->
         [g EXCEPT !.members = @ \ op.path.selector]
    [] op.verb = "replace" /\ path = "displayname" -> [g EXCEPT !.displayName = op.name]
    [] op.verb = "replace" /\ path # "displayname" -> [g EXCEPT !.members = op.ids]

KnownGroupVerb(op) == op.verb \in {"add", "remove", "replace"}

\* applyGroupPatch: an unknown verb anywhere fails the request.
GroupPatchOK(ops) == \A i \in DOMAIN ops : KnownGroupVerb(ops[i])

ApplyGroupPatch(g, ops) == FoldLeft(ApplyGroupOp, g, ops)
=============================================================================

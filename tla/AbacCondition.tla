----------------------------- MODULE AbacCondition -----------------------------
(***************************************************************************)
(* A policy's condition: validateCondition (internal/abac/policy.go), run  *)
(* once when the gateway loads the policy file, and evalCondition          *)
(* (internal/abac/evaluator.go), run on the context of every request.      *)
(*                                                                         *)
(* A JSON value is a record of its kind and value.  The text matchers are  *)
(* given by what they match: Regex[p] and Cidr[c] are the strings and      *)
(* addresses pattern p and literal range c hold; text that does not parse  *)
(* is in neither domain.                                                   *)
(***************************************************************************)
EXTENDS Integers, Sequences, TLC

CONSTANTS
  Conditions, \* the conditions policy files can hold, with all they consist of
  Depth,      \* condition -> how deep its groups nest
  MaxDepth,   \* how deep they nest in any file
  NoContext,
  Contexts,   \* the contexts requests are decided in
  Regex,      \* pattern -> strings it matches
  Cidr,       \* literal range -> addresses in it
  Named,      \* environment.json: name -> literal range
  Slashed,    \* the ranges and names that contain a slash
  Contained   \* pairs <<s, t>> of different non-empty strings, s within t

\* The conditions a group consists of.
Parts(k) == UNION {{g[i] : i \in DOMAIN g} : g \in {k.all, k.any, k.not}}

\* A condition is a piece of JSON, a finite tree.
ASSUME TreeAssumption ==
  /\ MaxDepth \in Nat
  /\ Depth \in [Conditions -> 0 .. MaxDepth]
  /\ \A k \in Conditions : {k.all, k.any, k.not} \subseteq Seq(Conditions)
  /\ \A k \in Conditions : \A n \in Parts(k) : Depth[n] < Depth[k]

\* ParseCIDR takes no range without a slash.
ASSUME SlashAssumption == DOMAIN Cidr \subseteq Slashed

\* Minutes.
Hour == 60
Day  == 1440
Week == 10080

\* The first n minutes.
FirstMinutes(n) == 0 .. n - 1

\* A time is a minute of the UTC week, Sunday midnight being 0.  An offset is
\* the zone's at that time, in minutes, and goes forward around the week.
\* The days and hours of environment.json are read without a check.
ASSUME HoursAssumption ==
  \A c \in Contexts :
    /\ c.time \in FirstMinutes(Week)
    /\ c.hours.zone.valid => c.hours.zone.offset \in FirstMinutes(Week)
    /\ c.hours.start \in Int /\ c.hours.end \in Int

VARIABLES
  cond,   \* the condition of the policy file's policy
  loaded, \* "no", "refused" or "yes": ParsePolicySet's verdict
  ctx,    \* the context of the last request, NoContext before the first
  match   \* what evalCondition returned for it

condVars == <<cond, loaded, ctx, match>>

-----------------------------------------------------------------------------
Str(s)  == [kind |-> "str", val |-> s]
Num(n)  == [kind |-> "num", val |-> n]
Bool(b) == [kind |-> "bool", val |-> b]
List(l) == [kind |-> "list", val |-> l]
Nil     == [kind |-> "nil", val |-> 0] \* JSON null, or no value at all

\* fmt.Sprintf("%v", v) of a value that is not a list, as text.
Text(v) ==
  CASE v.kind = "str"  -> v.val
    [] v.kind = "num"  -> ToString(v.val)
    [] v.kind = "bool" -> IF v.val THEN "true" ELSE "false"
    [] v.kind = "nil"  -> "<nil>"

\* fmt.Sprintf("%v", v): a list prints its elements between brackets.
Sprint(v) ==
  LET upTo[i \in Nat] ==
        IF i = 0 THEN "[" ELSE upTo[i - 1] \o (IF i = 1 THEN "" ELSE " ") \o Text(v.val[i])
  IN  IF v.kind = "list" THEN upTo[Len(v.val)] \o "]" ELSE Text(v)

\* valuesEqual.  Values of two kinds, and lists, are equal if they print alike.
ValuesEqual(a, b) ==
  IF a.kind = b.kind /\ a.kind # "list" THEN a.val = b.val ELSE Sprint(a) = Sprint(b)

\* v.(string), the zero value otherwise.
AsStr(v) == IF v.kind = "str" THEN v.val ELSE ""

\* resolveAttr: the values found, at most one.  An attribute is its
\* namespace and name; without a dot, or in another namespace, none.
ResolveAttr(c, a) ==
  LET In(m) == IF a.name \in DOMAIN m THEN {m[a.name]} ELSE {}
  IN  CASE a.ns = "user"    -> In(c.user)
        [] a.ns = "request" -> In(c.request)
        [] a.ns = "time"    -> IF a.name \in {"Now", "Now()", "now"} THEN {Str("2026-01-01")} ELSE {}
        [] OTHER            -> {}

\* ipInNamedOrLiteralCIDR: a name is looked up only if it has no slash.
IpIn(ip, r) ==
  LET lit == IF r \notin Slashed /\ r \in DOMAIN Named THEN Named[r] ELSE r
  IN  lit \in DOMAIN Cidr /\ ip \in Cidr[lit]

\* time.LoadLocation: an unknown zone, or none, is UTC; a zone its offset.
Offset(zone) == IF zone.valid THEN zone.offset ELSE 0

\* local.Hour() and the comparison with the configured hours.
HourOpen(local, bh) ==
  LET hour == (local % Day) \div Hour IN hour >= bh.start /\ hour < bh.end

\* Mutant: the weekday of t itself, the hour of t in the zone.
InBusinessHoursUtcDay(t, bh) ==
  /\ bh.days = {} \/ (t \div Day) \in bh.days
  /\ HourOpen((t + Offset(bh.zone)) % Week, bh)

\* inBusinessHours: the weekday and the hour of t in the zone.
InBusinessHours(t, bh) ==
  LET local == (t + Offset(bh.zone)) % Week
  IN  /\ bh.days = {} \/ (local \div Day) \in bh.days
      /\ HourOpen(local, bh)

\* strings.Contains(a, s).
Contains(a, s) == s = "" \/ s = a \/ <<s, a>> \in Contained

\* numericCompare: numbers only; a numeric string is not one.
NumericCompare(a, op, b) ==
  /\ a.kind = "num" /\ b.kind = "num"
  /\ CASE op = "gt" -> a.val > b.val
       [] op = "ge" -> a.val >= b.val
       [] op = "lt" -> a.val < b.val
       [] op = "le" -> a.val <= b.val

\* An operator of evalLeaf on a resolved value v, before ok is looked at.
Holds(op, v, want) ==
  CASE op \in {"pr", "exists"}        -> v # Str("") /\ v # Nil
    [] op = "matches"                 -> v.kind = "str" /\ IpIn(v.val, AsStr(want))
    [] op = "regex"                   -> /\ v.kind = "str" /\ want.kind = "str"
                                         /\ want.val \in DOMAIN Regex /\ v.val \in Regex[want.val]
    [] op = "in"                      -> /\ want.kind = "list"
                                         /\ \E i \in DOMAIN want.val : ValuesEqual(v, want.val[i])
    [] op = "contains"                -> CASE v.kind = "str"  -> Contains(v.val, AsStr(want))
                                           [] v.kind = "list" -> \E i \in DOMAIN v.val : ValuesEqual(v.val[i], want)
                                           [] OTHER           -> FALSE
    [] op \in {"eq", "=="}            -> ValuesEqual(v, want)
    [] op \in {"gt", "ge", "lt", "le"} -> NumericCompare(v, op, want)
    [] OTHER                          -> FALSE

\* Mutant: a missing attribute is taken as the empty string.
EvalLeafZero(l, c) ==
  LET found == ResolveAttr(c, l.attr)
      v     == IF found = {} THEN Str("") ELSE CHOOSE x \in found : TRUE
  IN  CASE l.op = "is"           -> /\ l.value = Str("Business_Hours")
                                    /\ InBusinessHours(c.time, c.hours)
        [] l.op \in {"ne", "!="} -> ~ValuesEqual(v, l.value)
        [] OTHER                 -> Holds(l.op, v, l.value)

\* evalLeaf: only ne holds of an attribute that is missing.
EvalLeaf(l, c) ==
  LET found == ResolveAttr(c, l.attr)
  IN  CASE l.op = "is"           -> /\ l.value = Str("Business_Hours")
                                    /\ InBusinessHours(c.time, c.hours)
        [] l.op \in {"ne", "!="} -> \A v \in found : ~ValuesEqual(v, l.value)
        [] OTHER                 -> \E v \in found : Holds(l.op, v, l.value)

\* What evalCondition does at k, eval being what it returns for the parts:
\* the first form that is set decides, all before any before not.
EvalForm(eval, k, c) ==
  IF k.all # <<>> THEN \A i \in DOMAIN k.all : eval[k.all[i]]
  ELSE IF k.any # <<>> THEN \E i \in DOMAIN k.any : eval[k.any[i]]
  ELSE IF k.not # <<>> THEN ~eval[k.not[1]]
  ELSE EvalLeaf(k, c)

\* evalCondition.
EvalCondition(k, c) ==
  LET eval[n \in Conditions] == EvalForm(eval, n, c) IN eval[k]

\* The group forms that are set; an empty array is not.
Groups(k) == {g \in {k.all, k.any, k.not} : g # <<>>}

\* NoAttr and "": the Go zero values of a condition without attr or op.
NoAttr == [ns |-> "", name |-> ""]

IsLeaf(k) == k.attr # NoAttr \/ k.op # ""

\* A condition and all its sub-conditions.
Nodes[k \in Conditions] == {k} \union UNION {Nodes[n] : n \in Parts(k)}

\* validateCondition, which visits every node.
ValidateCondition(k) ==
  \A n \in Nodes[k] :
    /\ Groups(n) # {} <=> ~IsLeaf(n)
    /\ IsLeaf(n) => n.attr # NoAttr /\ n.op # ""

-----------------------------------------------------------------------------
CondInit ==
  /\ cond \in Conditions
  /\ loaded = "no"
  /\ ctx = NoContext
  /\ match = FALSE

(* ParsePolicySet at startup: a policy file with a bad condition is        *)
(* refused, and log.Fatalf ends the gateway.                               *)
Load ==
  /\ loaded = "no"
  /\ loaded' = IF ValidateCondition(cond) THEN "yes" ELSE "refused"
  /\ UNCHANGED <<cond, ctx, match>>

(* A request is decided in its context.                                    *)
Request(c) ==
  /\ loaded = "yes"
  /\ ctx' = c
  /\ match' = EvalCondition(cond, c)
  /\ UNCHANGED <<cond, loaded>>

\* The gateway did not start.
Refused == loaded = "refused" /\ UNCHANGED condVars

CondNext == Load \/ (\E c \in Contexts : Request(c)) \/ Refused

CondSpec == CondInit /\ [][CondNext]_condVars

-----------------------------------------------------------------------------
\* A condition that says nothing negative.
Positive(k) == \A n \in Nodes[k] : n.not = <<>> /\ n.op \notin {"ne", "!="}

\* A condition that reads time.Now as an attribute, which is always there.
ReadsClock(k) == \E n \in Nodes[k] : n.attr.ns = "time" /\ n.op # "is"

\* Context d has the attributes of c and perhaps more.
Extends(d, c) ==
  /\ \A a \in DOMAIN c.user : a \in DOMAIN d.user /\ d.user[a] = c.user[a]
  /\ \A a \in DOMAIN c.request : a \in DOMAIN d.request /\ d.request[a] = c.request[a]
  /\ d.time = c.time /\ d.hours = c.hours

(* A loaded condition without negation never matches for want of an        *)
(* attribute: if it matches a request, it matches every request that       *)
(* brings more attributes, at the same time.                               *)
MissingNeverGrants ==
  [][match /\ Extends(ctx', ctx) /\ Positive(cond) => match']_condVars

(* A loaded condition without negation that does not ask for the clock     *)
(* does not match a request without attributes outside business hours:     *)
(* no group or half-written leaf at any depth holds vacuously.             *)
NothingFromNothing ==
  match /\ Positive(cond) /\ ~ReadsClock(cond) =>
    \/ DOMAIN ctx.user # {} \/ DOMAIN ctx.request # {}
    \/ InBusinessHours(ctx.time, ctx.hours)

\* The minutes of the UTC week in which an office at an offset from UTC is
\* open: its local days and opening times, moved around the end of the week.
OpenMinutes(bh, offset) ==
  LET days    == {d \in 0 .. 6 : bh.days = {} \/ d \in bh.days}
      minutes == {m \in FirstMinutes(Day) : Hour * bh.start <= m /\ m < Hour * bh.end}
  IN  {(Day * d + m + Week - offset) % Week : d \in days, m \in minutes}

(* A policy on business hours alone matches, where the configured zone     *)
(* resolves, exactly while the office is open by the offset of             *)
(* its zone, half-hour zones, a Monday that begins on a Sunday in UTC and  *)
(* a week that ends in the next one included; where it does not resolve,   *)
(* exactly in those hours of the UTC week (inBusinessHours).               *)
HoursAreLocal ==
  loaded = "yes" /\ ctx # NoContext /\ cond.op = "is" /\ cond.value = Str("Business_Hours") =>
    /\ ctx.hours.zone.valid =>
         (match <=> ctx.time \in OpenMinutes(ctx.hours, ctx.hours.zone.offset))
    /\ ~ctx.hours.zone.valid =>
         (match <=> ctx.time \in OpenMinutes(ctx.hours, 0))
=============================================================================

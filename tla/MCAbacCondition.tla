---------------------------- MODULE MCAbacCondition ----------------------------
(* Conditions of up to three levels over one leaf of every operator.       *)
EXTENDS AbacCondition, FiniteSetsExt

MCRegex == "E.*" :> {"Eng"}
MCCidr  == "10.0.0.0/8" :> {"10.0.0.1"}
MCNamed == "Vpc_Range" :> "10.0.0.0/8" @@ "Vpc/2" :> "10.0.0.0/8"
MCSlashed == {"10.0.0.0/8", "Vpc/2"}
MCContained == {<<"En", "Eng">>}

Empty == [all |-> <<>>, any |-> <<>>, not |-> <<>>, attr |-> NoAttr, op |-> "", value |-> Nil]

Dept  == [ns |-> "user", name |-> "Department"]
Level == [ns |-> "user", name |-> "Level"]
Ip    == [ns |-> "request", name |-> "Source_IP"]
Now   == [ns |-> "time", name |-> "Now"]

Leaf(a, o, v) == [Empty EXCEPT !.attr = a, !.op = o, !.value = v]

Leaves ==
  {Leaf(Dept, "eq", Str("Eng")), Leaf(Dept, "eq", Nil), Leaf(Dept, "ne", Str("Eng")),
   Leaf(Dept, "pr", Nil), Leaf(Dept, "regex", Str("E.*")), Leaf(Dept, "regex", Str("[")),
   Leaf(Dept, "contains", Str("En")), Leaf(Dept, "contains", Num(1)),
   Leaf(Dept, "in", List(<<Str("Eng"), Num(1)>>)), Leaf(Dept, "in", Str("Eng")),
   Leaf(Level, "ge", Num(2)), Leaf(Level, "gt", Num(2)), Leaf(Level, "lt", Num(3)),
   Leaf(Level, "le", Num(2)), Leaf(Level, "eq", Str("2")), Leaf(Dept, "equals", Str("Eng")),
   Leaf(Ip, "matches", Str("Vpc_Range")), Leaf(Ip, "matches", Str("10.0.0.0/8")),
   Leaf(Ip, "matches", Str("Office")), Leaf(Ip, "matches", Str("Vpc/2")),
   Leaf(Dept, "eq", Str("[En]")), Leaf(Now, "is", Str("Business_Hours")),
   Leaf(Now, "pr", Nil), Leaf(Dept, "", Nil), Leaf(NoAttr, "eq", Bool(TRUE)),
   Leaf([ns |-> "group", name |-> "x"], "pr", Nil)}

\* Some leaves, and groups of them, to nest.
Few  == {Leaf(Dept, "eq", Str("Eng")), Leaf(Ip, "matches", Str("Vpc_Range")),
         Leaf(Now, "is", Str("Business_Hours")), Leaf(Dept, "ne", Str("Eng")), Empty}
Deep == Few \union {[Empty EXCEPT !.all = <<a, b>>] : a, b \in Few}
            \union {[Empty EXCEPT !.not = <<a>>] : a \in Few}

Trees ==
  Leaves \union {Empty}
    \union {[Empty EXCEPT !.all = <<a, b>>] : a \in Leaves, b \in Few}
    \union {[Empty EXCEPT !.all = <<a, b>>] : a \in Few, b \in Deep}
    \union {[Empty EXCEPT !.any = <<a, b>>] : a \in Few, b \in Deep}
    \union {[Empty EXCEPT !.not = <<a>>] : a \in Leaves \union Deep}
    \union {[Empty EXCEPT !.all = <<a>>, !.any = <<b>>] : a, b \in Few}
    \union {[a EXCEPT !.any = <<b>>] : a, b \in Few}

MCConditions == Trees

MCDepth[k \in MCConditions] ==
  IF Parts(k) = {} THEN 0 ELSE 1 + Max({MCDepth[n] : n \in Parts(k)})

\* Monday to Friday, 9 to 18, in New York (UTC-5, around the week), and the
\* same with a zone name that does not resolve.
Office == [zone |-> [valid |-> TRUE, offset |-> 9780], days |-> 1 .. 5, start |-> 9, end |-> 18]
Misspelt == [Office EXCEPT !.zone.valid = FALSE]

NoneOf == [x \in {} |-> Nil]
Users ==
  {NoneOf, "Department" :> Str("Eng"), "Department" :> Str(""), "Department" :> List(<<Str("En")>>),
   "Level" :> Num(2), "Department" :> Str("Eng") @@ "Level" :> Num(2)}

Requests == {NoneOf, "Source_IP" :> Str("10.0.0.1"), "Source_IP" :> Str("bad")}

\* The same in Auckland (UTC+13), which opens on Sunday 20:00 UTC, and in
\* Kolkata (UTC+5:30); and until midnight on Saturdays in New York, which is
\* Sunday 5:00 UTC.
Auckland == [Office EXCEPT !.zone.offset = 780]
Kolkata  == [Office EXCEPT !.zone.offset = 330]
Saturday == [Office EXCEPT !.days = {6}, !.end = 24]
EveryDay == [Auckland EXCEPT !.days = {}]

\* Monday 15:00 UTC (10 in New York) and Sunday midnight UTC; and, for
\* requests without attributes, the minutes around openings and closings.
MCContexts ==
  [user : Users, request : Requests, time : {2340, 0}, hours : {Office, Misspelt}]
    \union [user : {NoneOf}, request : {NoneOf},
            time : {299, 300, 1199, 1200, 1649, 1650, 1739, 1740, 2189, 2190, 10079},
            hours : {Auckland, Kolkata, Saturday, EveryDay, Misspelt}]
=============================================================================

------------------------------ MODULE SamlProofs ------------------------------
(* Theorems about SamlLogin, for every set of tenants, posts, requests and *)
(* responses and every clock bound, and about XmlNames, for documents of   *)
(* every depth.                                                            *)
EXTENDS SamlLogin, XmlNames, WellFoundedInduction, TLAPS

(* The clock in whole seconds never runs backwards: what lets a purge at   *)
(* an earlier reading of the clock be compared with a later one.           *)
LEMMA SecondMonotone ==
  ASSUME NEW a \in Nat, NEW b \in Nat, a <= b
  PROVE  /\ Second(a) \in Nat /\ Second(b) \in Nat
         /\ Second(a) <= Second(b)
  <1>1. CASE TicksPerSecond = 1  BY <1>1 DEF Second
  <1>2. CASE TicksPerSecond = 2  BY <1>2 DEF Second
  <1>3. CASE TicksPerSecond = 5  BY <1>3 DEF Second
  <1>4. CASE TicksPerSecond = 10 BY <1>4 DEF Second
  <1> QED BY <1>1, <1>2, <1>3, <1>4, TimeAssumption

(* Purging with a cutoff that is not in the future keeps every row that    *)
(* expires in a later second than the current one.                         *)
LEMMA PurgeKeeps ==
  ASSUME NEW e \in Nat, NEW c \in Nat, NEW n \in Nat, c <= n,
         Second(n) < Second(e)
  PROVE  ~TextLess(e, c)
  <1>1. Second(c) \in Nat /\ Second(n) \in Nat /\ Second(c) <= Second(n)
    BY SecondMonotone
  <1>2. Second(e) \in Nat
    BY SecondMonotone
  <1> QED BY <1>1, <1>2 DEF TextLess

-----------------------------------------------------------------------------
(* A handler that has passed verification holds a response with an ID.     *)
Named ==
  \A p \in Posts : pc[p] \in {"purge", "insert"} => doc[p].id # NoId

TypeInv == TypeOK /\ Named

(* The tables and handler variables keep their types, one step per action  *)
(* of login, acs and the directory sync.                                   *)
LEMMA TypeInvInit == Init => TypeInv
  BY TimeAssumption DEF Init, TypeInv, Named, TypeOK, UserIds, Responses

LEMMA TypeInvStep == TypeInv /\ [Next]_vars => TypeInv'
  <1> SUFFICES ASSUME TypeInv, [Next]_vars PROVE TypeInv'
    OBVIOUS
  <1> USE DEF TypeInv, Named, TypeOK, UserIds, Steps, Responses, Goto, Answer,
          tables, input, local, history
  <1>1. ASSUME NEW t \in Tenants, NEW r \in Requests, Login(t, r) PROVE TypeInv'
    <2>1. now + RequestTTL \in Nat
      BY TimeAssumption
    <2> QED BY <1>1, <2>1 DEF Login
  <1>2. ASSUME NEW p \in Posts, Arrive(p) PROVE TypeInv'
    BY <1>2 DEF Arrive
  <1>3. ASSUME NEW p \in Posts, AcsVerify(p) PROVE TypeInv'
    BY <1>3 DEF AcsVerify
  <1>4. ASSUME NEW p \in Posts, MarkPurge(p) PROVE TypeInv'
    BY <1>4 DEF MarkPurge
  <1>5. ASSUME NEW p \in Posts, MarkInsert(p) PROVE TypeInv'
    <2>1. doc[p] \in Docs /\ doc[p].notOnOrAfter \in Nat
      BY DocsAssumption DEF IsDoc
    <2>2. doc[p].id # NoId
      BY <1>5 DEF MarkInsert
    <2>3. [key |-> Key(p), exp |-> doc[p].notOnOrAfter]
            \in [key : Tenants \X ({d.id : d \in Docs} \ {NoId}), exp : Nat]
      BY <2>1, <2>2 DEF Key
    <2> QED BY <1>5, <2>3 DEF MarkInsert
  <1>6. ASSUME NEW p \in Posts, TakeSelect(p) PROVE TypeInv'
    BY <1>6 DEF TakeSelect, Pending
  <1>7. ASSUME NEW p \in Posts, TakeDelete(p) PROVE TypeInv'
    BY <1>7 DEF TakeDelete
  <1>8. ASSUME NEW p \in Posts, TakeExpiry(p) PROVE TypeInv'
    BY <1>8 DEF TakeExpiry
  <1>9. ASSUME NEW p \in Posts, JitFind(p) PROVE TypeInv'
    BY <1>9 DEF JitFind, UsersNamed
  <1>10. ASSUME NEW p \in Posts, JitCreate(p) PROVE TypeInv'
    <2>1. doc[p].nameID \in Names
      BY DocsAssumption DEF IsDoc
    <2> QED BY <1>10, <2>1 DEF JitCreate
  <1>11. ASSUME NEW p \in Posts, CreateSession(p) PROVE TypeInv'
    <2>1. doc[p].nameID \in Names
      BY DocsAssumption DEF IsDoc
    <2> QED BY <1>11, <2>1 DEF CreateSession
  <1>12. ASSUME NEW p \in Posts, Abort(p) PROVE TypeInv'
    BY <1>12 DEF Abort
  <1>13. ASSUME NEW s \in Syncs, NEW t \in Tenants, NEW n \in Names, ScimCreate(s, t, n)
         PROVE TypeInv'
    BY <1>13 DEF ScimCreate
  <1>14. ASSUME NEW u \in users, ScimDelete(u) PROVE TypeInv'
    BY <1>14 DEF ScimDelete
  <1>15. ASSUME NEW s \in Syncs, NEW u \in users, NEW n \in Names, ScimRename(s, u, n)
         PROVE  TypeInv'
    BY <1>15 DEF ScimRename
  <1>16. CASE Tick
    BY <1>16 DEF Tick
  <1>17. CASE UNCHANGED vars
    BY <1>17 DEF vars
  <1> QED BY <1>1, <1>2, <1>3, <1>4, <1>5, <1>6, <1>7, <1>8, <1>9, <1>10, <1>11,
             <1>12, <1>13, <1>14, <1>15, <1>16, <1>17 DEF Next, Step, Finished

(* The tables, handler variables and histories always have their types.    *)
THEOREM TypeCorrect == Spec => []TypeOK
  <1>1. TypeInv => TypeOK
    BY DEF TypeInv
  <1> QED BY TypeInvInit, TypeInvStep, <1>1, PTL DEF Spec
-----------------------------------------------------------------------------
(* SingleUseBeforeExpiry is not inductive: it says nothing of the table.   *)
(* What carries it from step to step is that an accepted assertion keeps   *)
(* its row until the second in which it expires.                           *)
BeforeMark == {"new", "verify", "purge", "insert"}

MarkOrder ==
  /\ \A p \in Posts : pc[p] \in BeforeMark => p \notin accepted
  /\ \A p \in Posts : at[p] <= now
  /\ \A p \in accepted : doc[p].id # NoId

RowKept ==
  \A p \in accepted :
    Second(now) < Second(doc[p].notOnOrAfter) =>
      [key |-> Key(p), exp |-> doc[p].notOnOrAfter] \in used

SingleUseInv == TypeInv /\ MarkOrder /\ RowKept /\ SingleUseBeforeExpiry

LEMMA SingleUseInit == Init => SingleUseInv
  <1> SUFFICES ASSUME Init PROVE SingleUseInv
    OBVIOUS
  <1>1. TypeInv
    BY TypeInvInit
  <1>2. MarkOrder
    BY DEF Init, MarkOrder, BeforeMark
  <1>3. RowKept /\ SingleUseBeforeExpiry
    BY DEF Init, RowKept, SingleUseBeforeExpiry
  <1> QED BY <1>1, <1>2, <1>3 DEF SingleUseInv

(* A step that leaves the clock, the marks and the accepted posts alone    *)
(* and moves no handler back preserves the invariant.                      *)
LEMMA SingleUseFrame ==
  ASSUME SingleUseInv, TypeInv',
         UNCHANGED <<now, used, at, accepted, tenant, doc>>,
         \A p \in Posts : pc'[p] \in BeforeMark => pc[p] \in BeforeMark
  PROVE  SingleUseInv'
  <1>1. MarkOrder'
    BY DEF SingleUseInv, MarkOrder, TypeInv, TypeOK
  <1>2. RowKept'
    BY DEF SingleUseInv, RowKept, Key
  <1>3. SingleUseBeforeExpiry'
    BY DEF SingleUseInv, SingleUseBeforeExpiry, Key
  <1> QED BY <1>1, <1>2, <1>3 DEF SingleUseInv

LEMMA SingleUseStep == SingleUseInv /\ [Next]_vars => SingleUseInv'
  <1> SUFFICES ASSUME SingleUseInv, [Next]_vars PROVE SingleUseInv'
    OBVIOUS
  <1>a. TypeInv'
    BY TypeInvStep DEF SingleUseInv
  <1>b. /\ now \in Nat /\ at \in [Posts -> Nat] /\ accepted \subseteq Posts
        /\ pc \in [Posts -> Steps \union {"new", "done"}]
        /\ doc \in [Posts -> Docs] /\ tenant \in [Posts -> Tenants]
    BY DEF SingleUseInv, TypeInv, TypeOK
  <1>c. \A p \in Posts : doc[p].notOnOrAfter \in Nat
    BY <1>b, DocsAssumption DEF IsDoc
  <1> USE DEF tables, input, local, history, Goto, Answer
  <1>1. ASSUME NEW p \in Posts, AcsVerify(p) PROVE SingleUseInv'
    <2>1. /\ UNCHANGED <<now, used, accepted, tenant, doc>>
          /\ p \notin accepted
          /\ \A q \in Posts : q # p => at'[q] = at[q] /\ pc'[q] = pc[q]
          /\ at'[p] \in {at[p], now}
      BY <1>1, <1>b DEF AcsVerify, SingleUseInv, MarkOrder, BeforeMark
    <2>2. MarkOrder'
      BY <2>1, <1>b DEF SingleUseInv, MarkOrder
    <2>3. RowKept'
      BY <2>1 DEF SingleUseInv, RowKept, Key
    <2>4. SingleUseBeforeExpiry'
      BY <2>1, <1>b DEF SingleUseInv, SingleUseBeforeExpiry, Key
    <2> QED BY <1>a, <2>2, <2>3, <2>4 DEF SingleUseInv
  <1>2. ASSUME NEW p \in Posts, MarkPurge(p) PROVE SingleUseInv'
    <2>1. PICK c \in at[p] .. now : used' = {row \in used : ~TextLess(row.exp, c)}
      BY <1>2 DEF MarkPurge
    <2>2. c \in Nat /\ c <= now
      BY <2>1, <1>b
    <2>3. /\ UNCHANGED <<now, at, accepted, tenant, doc>>
          /\ \A q \in Posts : pc'[q] \in BeforeMark => pc[q] \in BeforeMark
      BY <1>2, <1>b DEF MarkPurge, BeforeMark
    <2>4. MarkOrder'
      BY <2>3 DEF SingleUseInv, MarkOrder
    <2>5. RowKept'
      <3> SUFFICES ASSUME NEW q \in accepted, Second(now) < Second(doc[q].notOnOrAfter)
                   PROVE  [key |-> Key(q), exp |-> doc[q].notOnOrAfter] \in used'
        BY <2>3 DEF RowKept, Key
      <3>1. [key |-> Key(q), exp |-> doc[q].notOnOrAfter] \in used
        BY DEF SingleUseInv, RowKept
      <3>2. ~TextLess(doc[q].notOnOrAfter, c)
        BY <1>b, <1>c, <2>2, PurgeKeeps
      <3> QED BY <3>1, <3>2, <2>1
    <2>6. SingleUseBeforeExpiry'
      BY <2>3 DEF SingleUseInv, SingleUseBeforeExpiry, Key
    <2> QED BY <1>a, <2>4, <2>5, <2>6 DEF SingleUseInv
  <1>3. ASSUME NEW p \in Posts, MarkInsert(p) PROVE SingleUseInv'
    <2>1. CASE \E row \in used : row.key = Key(p)
      <3>1. /\ UNCHANGED <<now, used, at, accepted, tenant, doc>>
            /\ \A q \in Posts : pc'[q] \in BeforeMark => pc[q] \in BeforeMark
        BY <1>3, <2>1, <1>b DEF MarkInsert, BeforeMark
      <3> QED BY <3>1, <1>a, SingleUseFrame
    <2>2. CASE ~\E row \in used : row.key = Key(p)
      <3>1. /\ UNCHANGED <<now, tenant, doc>>
            /\ used' = used \union {[key |-> Key(p), exp |-> doc[p].notOnOrAfter]}
            /\ accepted' = accepted \union {p}
            /\ at'[p] = now /\ pc'[p] = "select"
            /\ \A q \in Posts : q # p => at'[q] = at[q] /\ pc'[q] = pc[q]
            /\ pc[p] = "insert"
        BY <1>3, <2>2, <1>b DEF MarkInsert
      <3>2. p \notin accepted /\ doc[p].id # NoId
        BY <3>1 DEF SingleUseInv, MarkOrder, BeforeMark, TypeInv, Named
      <3>3. MarkOrder'
        BY <3>1, <3>2, <1>b DEF SingleUseInv, MarkOrder, BeforeMark
      <3>4. RowKept'
        BY <3>1 DEF SingleUseInv, RowKept, Key
      <3>5. ASSUME NEW q \in accepted, Key(q) = Key(p)
            PROVE  /\ doc[q].notOnOrAfter = doc[p].notOnOrAfter
                   /\ Second(now) >= Second(doc[p].notOnOrAfter)
        <4>1. doc[q].id = doc[p].id
          BY <3>5 DEF Key
        <4>2. doc[q].notOnOrAfter = doc[p].notOnOrAfter
          BY <4>1, <3>2, <1>b, IdAssumption
        <4>3. [key |-> Key(q), exp |-> doc[q].notOnOrAfter] \notin used
          BY <2>2, <3>5
        <4>4. ~(Second(now) < Second(doc[q].notOnOrAfter))
          BY <4>3 DEF SingleUseInv, RowKept
        <4>5. Second(now) \in Nat /\ Second(doc[p].notOnOrAfter) \in Nat
          BY <1>b, <1>c, SecondMonotone
        <4> QED BY <4>2, <4>4, <4>5
      <3>6. SingleUseBeforeExpiry'
        <4> SUFFICES ASSUME NEW x \in accepted', NEW y \in accepted', x # y,
                            Key(x) = Key(y)
                     PROVE  \/ Second(at'[x]) >= Second(doc[x].notOnOrAfter)
                            \/ Second(at'[y]) >= Second(doc[x].notOnOrAfter)
          BY <3>1 DEF SingleUseBeforeExpiry, Key
        <4>1. CASE x # p /\ y # p
          BY <4>1, <3>1, <1>b DEF SingleUseInv, SingleUseBeforeExpiry
        <4>2. CASE x = p
          BY <4>2, <3>1, <3>5
        <4>3. CASE y = p
          BY <4>3, <3>1, <3>5
        <4> QED BY <4>1, <4>2, <4>3
      <3> QED BY <1>a, <3>3, <3>4, <3>6 DEF SingleUseInv
    <2> QED BY <2>1, <2>2
  <1>4. CASE Tick
    <2>1. now' = now + 1 /\ UNCHANGED <<used, at, accepted, tenant, doc, pc>>
      BY <1>4 DEF Tick
    <2>2. Second(now) \in Nat /\ Second(now') \in Nat /\ Second(now) <= Second(now')
      BY <2>1, <1>b, SecondMonotone
    <2>3. MarkOrder'
      BY <2>1, <1>b DEF SingleUseInv, MarkOrder
    <2>4. RowKept'
      <3> SUFFICES ASSUME NEW q \in accepted, Second(now') < Second(doc[q].notOnOrAfter)
                   PROVE  [key |-> Key(q), exp |-> doc[q].notOnOrAfter] \in used
        BY <2>1 DEF RowKept, Key
      <3>1. Second(doc[q].notOnOrAfter) \in Nat
        BY <1>b, <1>c, SecondMonotone
      <3> QED BY <3>1, <2>2 DEF SingleUseInv, RowKept
    <2>5. SingleUseBeforeExpiry'
      BY <2>1 DEF SingleUseInv, SingleUseBeforeExpiry, Key
    <2> QED BY <1>a, <2>3, <2>4, <2>5 DEF SingleUseInv
  <1>5. ASSUME NEW p \in Posts,
               Arrive(p) \/ TakeSelect(p) \/ TakeDelete(p) \/ TakeExpiry(p) \/ JitFind(p)
               \/ JitCreate(p) \/ CreateSession(p) \/ Abort(p)
        PROVE  SingleUseInv'
    <2>1. /\ UNCHANGED <<now, used, at, accepted, tenant, doc>>
          /\ \A q \in Posts : pc'[q] \in BeforeMark => pc[q] \in BeforeMark
      BY <1>5, <1>b DEF Arrive, TakeSelect, TakeDelete, TakeExpiry, JitFind, JitCreate,
                        CreateSession, Abort, BeforeMark
    <2> QED BY <2>1, <1>a, SingleUseFrame
  <1>6. CASE \/ \E t \in Tenants, r \in Requests : Login(t, r)
             \/ \E s \in Syncs, t \in Tenants, n \in Names : ScimCreate(s, t, n)
             \/ \E u \in users : ScimDelete(u)
             \/ \E s \in Syncs, u \in users, n \in Names : ScimRename(s, u, n)
             \/ UNCHANGED vars
    <2>1. UNCHANGED <<now, used, at, accepted, tenant, doc, pc>>
      BY <1>6 DEF Login, ScimCreate, ScimDelete, ScimRename, vars
    <2> QED BY <2>1, <1>a, SingleUseFrame
  <1> QED BY <1>1, <1>2, <1>3, <1>4, <1>5, <1>6 DEF Next, Step, Finished

(* MarkAssertionUsed: no assertion passes twice for a tenant before the    *)
(* second in which it expires, for any number of concurrent handlers.      *)
THEOREM SingleUseTheorem == Spec => []SingleUseBeforeExpiry
  <1>1. SingleUseInv => SingleUseBeforeExpiry
    BY DEF SingleUseInv
  <1> QED BY SingleUseInit, SingleUseStep, <1>1, PTL DEF Spec

-----------------------------------------------------------------------------
\* Nothing changes the path and the body of a request.
LEMMA InputFixed == [Next]_vars => UNCHANGED <<tenant, doc>>
  BY DEF Next, Step, vars, tables, input, local, history, Goto, Answer, Login, Arrive, AcsVerify,
     MarkPurge, MarkInsert, TakeSelect, TakeDelete, TakeExpiry, JitFind, JitCreate,
     CreateSession, Abort, ScimCreate, ScimDelete, ScimRename, Tick, Finished

(* The life of an AuthnRequest.  A pending one was sent for its tenant, a  *)
(* handler that reads it is that tenant's, and once a DELETE has run no    *)
(* row can come back: login draws a fresh ID.                              *)
Answers(p) == [id |-> doc[p].inResponseTo, tenant |-> tenant[p]] \in issued

Settled(p) == doc[p].inResponseTo = NoRequest \/ p \in consumed

RequestLife ==
  /\ \A row \in samlRequests : [id |-> row.id, tenant |-> row.tenant] \in issued
  /\ \A i, j \in issued : i.id = j.id => i.tenant = j.tenant
  /\ \A p \in Posts : pc[p] = "consume" => Answers(p)
  /\ \A p \in Posts : pc[p] = "expiry" => p \in consumed
  /\ \A p \in consumed : Answers(p)
  /\ \A p \in consumed : \A row \in samlRequests : row.id # doc[p].inResponseTo
  /\ \A p \in Posts : pc[p] \in {"find", "create", "session"} => Settled(p)
  /\ \A s \in sessions : Settled(s.id)

RequestInv == TypeInv /\ RequestLife

LEMMA RequestInit == Init => RequestInv
  BY TypeInvInit DEF Init, RequestInv, RequestLife

(* A step that neither sends nor consumes a request nor opens a session.   *)
LEMMA RequestFrame ==
  ASSUME RequestLife,
         UNCHANGED <<samlRequests, issued, consumed, sessions, tenant, doc>>,
         \A p \in Posts : pc'[p] \in {"consume", "expiry", "find", "create", "session"} =>
           \/ pc[p] = pc'[p]
           \/ pc'[p] \in {"find", "create", "session"} /\ Settled(p)
  PROVE  RequestLife'
  BY DEF RequestLife, Answers, Settled

LEMMA RequestStep == RequestInv /\ [Next]_vars => RequestInv'
  <1> SUFFICES ASSUME RequestInv, [Next]_vars PROVE RequestLife'
    BY TypeInvStep DEF RequestInv
  <1>a. /\ pc \in [Posts -> Steps \union {"new", "done"}] /\ consumed \subseteq Posts
        /\ issued \subseteq [id : Requests, tenant : Tenants]
        /\ samlRequests \subseteq [id : Requests, tenant : Tenants, exp : Nat]
        /\ RequestLife
    BY DEF RequestInv, TypeInv, TypeOK
  <1>b. UNCHANGED <<tenant, doc>>
    BY InputFixed
  <1> USE <1>a, <1>b DEF tables, input, local, history, Goto, Answer
  <1>1. ASSUME NEW t \in Tenants, NEW r \in Requests, Login(t, r) PROVE RequestLife'
    <2> DEFINE i == [id |-> r, tenant |-> t]
               row == [id |-> r, tenant |-> t, exp |-> now + RequestTTL]
    <2>1. /\ issued' = issued \union {i} /\ samlRequests' = samlRequests \union {row}
          /\ UNCHANGED <<pc, consumed, sessions>>
          /\ \A j \in issued : j.id # r
      BY <1>1 DEF Login
    <2>2. i.id = r /\ i.tenant = t /\ row.id = r /\ row.tenant = t
          /\ i = [id |-> row.id, tenant |-> row.tenant]
      OBVIOUS
    <2>3. \A p \in Posts : Answers(p) => doc[p].inResponseTo # r /\ Answers(p)'
      BY <2>1 DEF Answers
    <2> HIDE DEF i, row
    <2>4. \A x \in samlRequests' : [id |-> x.id, tenant |-> x.tenant] \in issued'
      BY <2>1, <2>2 DEF RequestLife
    <2>5. \A x, y \in issued' : x.id = y.id => x.tenant = y.tenant
      BY <2>1, <2>2 DEF RequestLife
    <2>6. \A p \in consumed : Answers(p)' /\ \A x \in samlRequests' : x.id # doc[p].inResponseTo
      BY <2>1, <2>2, <2>3 DEF RequestLife
    <2> QED BY <2>1, <2>3, <2>4, <2>5, <2>6 DEF RequestLife, Settled
  <1>2. ASSUME NEW p \in Posts, TakeSelect(p) PROVE RequestLife'
    <2>1. /\ UNCHANGED <<samlRequests, issued, consumed, sessions>>
          /\ \A q \in Posts : q # p => pc'[q] = pc[q]
          /\ \/ pc'[p] = "done"
             \/ pc'[p] = "find" /\ doc[p].inResponseTo = NoRequest
             \/ pc'[p] = "consume" /\ \E row \in samlRequests :
                  row.id = doc[p].inResponseTo /\ row.tenant = tenant[p]
      BY <1>2 DEF TakeSelect, Pending
    <2>2. pc'[p] = "consume" => Answers(p)
      BY <2>1 DEF RequestLife, Answers
    <2> QED BY <2>1, <2>2 DEF RequestLife, Answers, Settled
  <1>3. ASSUME NEW p \in Posts, TakeDelete(p) PROVE RequestLife'
    <2>1. /\ samlRequests' = {row \in samlRequests : row.id # doc[p].inResponseTo}
          /\ consumed' = consumed \union {p} /\ UNCHANGED <<issued, sessions>>
          /\ pc[p] = "consume" /\ pc'[p] = "expiry"
          /\ \A q \in Posts : q # p => pc'[q] = pc[q]
      BY <1>3 DEF TakeDelete
    <2> QED BY <2>1 DEF RequestLife, Answers, Settled
  <1>4. ASSUME NEW p \in Posts, TakeExpiry(p) PROVE RequestLife'
    <2>1. /\ UNCHANGED <<samlRequests, issued, consumed, sessions>>
          /\ \A q \in Posts : q # p => pc'[q] = pc[q]
          /\ pc[p] = "expiry" /\ pc'[p] \in {"find", "done"}
      BY <1>4 DEF TakeExpiry
    <2>2. Settled(p)
      BY <2>1 DEF RequestLife, Settled
    <2> QED BY <2>1, <2>2, RequestFrame
  <1>5. ASSUME NEW p \in Posts, JitFind(p) \/ JitCreate(p) PROVE RequestLife'
    <2>1. /\ UNCHANGED <<samlRequests, issued, consumed, sessions>>
          /\ \A q \in Posts : q # p => pc'[q] = pc[q]
          /\ pc[p] \in {"find", "create"} /\ pc'[p] \in {"create", "session", "done"}
      BY <1>5 DEF JitFind, JitCreate
    <2>2. Settled(p)
      BY <2>1 DEF RequestLife
    <2> QED BY <2>1, <2>2, RequestFrame
  <1>6. ASSUME NEW p \in Posts, CreateSession(p) PROVE RequestLife'
    <2> DEFINE s == [id |-> p, tenant |-> tenant[p], user |-> user[p], subject |-> doc[p].nameID]
    <2>1. /\ sessions' = sessions \union {s} /\ UNCHANGED <<samlRequests, issued, consumed>>
          /\ \A q \in Posts : q # p => pc'[q] = pc[q]
          /\ pc[p] = "session" /\ pc'[p] = "done"
      BY <1>6 DEF CreateSession
    <2>2. s.id = p /\ Settled(p)
      BY <2>1 DEF RequestLife
    <2> HIDE DEF s
    <2> QED BY <2>1, <2>2 DEF RequestLife, Answers, Settled
  <1>7. ASSUME NEW p \in Posts,
               Arrive(p) \/ AcsVerify(p) \/ MarkPurge(p) \/ MarkInsert(p) \/ Abort(p)
        PROVE  RequestLife'
    <2>1. /\ UNCHANGED <<samlRequests, issued, consumed, sessions>>
          /\ \A q \in Posts : q # p => pc'[q] = pc[q]
          /\ pc'[p] \in {"verify", "purge", "insert", "select", "done"}
      BY <1>7 DEF Arrive, AcsVerify, MarkPurge, MarkInsert, Abort
    <2> QED BY <2>1, RequestFrame
  <1>8. CASE \/ \E s \in Syncs, t \in Tenants, n \in Names : ScimCreate(s, t, n)
             \/ \E u \in users : ScimDelete(u)
             \/ \E s \in Syncs, u \in users, n \in Names : ScimRename(s, u, n)
             \/ Tick \/ UNCHANGED vars
    <2>1. UNCHANGED <<samlRequests, issued, consumed, sessions, pc>>
      BY <1>8 DEF ScimCreate, ScimDelete, ScimRename, Tick, vars
    <2> QED BY <2>1, RequestFrame
  <1> QED BY <1>1, <1>2, <1>3, <1>4, <1>5, <1>6, <1>7, <1>8 DEF Next, Step, Finished

(* TakeSAMLRequest: a handler that selects after another's DELETE of the   *)
(* same request has run is refused.                                        *)
THEOREM LateConsumerTheorem == Spec => LateConsumerRefused
  <1> DEFINE Refused == \A p \in Posts, q \in consumed :
        pc[p] = "select" /\ doc[p].inResponseTo = doc[q].inResponseTo
          => pc'[p] \in {"select", "done"}
  <1>1. RequestInv /\ [Next]_vars => [Refused]_vars
    <2> SUFFICES ASSUME RequestInv, [Next]_vars, NEW p \in Posts, NEW q \in consumed,
                        pc[p] = "select", doc[p].inResponseTo = doc[q].inResponseTo
                 PROVE  pc'[p] \in {"select", "done"}
      OBVIOUS
    <2>1. /\ pc \in [Posts -> Steps \union {"new", "done"}] /\ RequestLife
          /\ issued \subseteq [id : Requests, tenant : Tenants]
      BY DEF RequestInv, TypeInv, TypeOK
    <2>2. doc[p].inResponseTo # NoRequest /\ Pending(p) = {}
      BY <2>1, NameAssumption DEF RequestLife, Answers, Pending
    <2> USE <2>1 DEF tables, input, local, history, Goto, Answer
    <2>3. ASSUME NEW r \in Posts, Arrive(r) \/ Step(r) \/ Abort(r)
          PROVE  pc'[p] \in {"select", "done"}
      <3>1. CASE r # p
        BY <2>3, <3>1 DEF Step, Arrive, AcsVerify, MarkPurge, MarkInsert, TakeSelect, TakeDelete,
           TakeExpiry, JitFind, JitCreate, CreateSession, Abort
      <3>2. CASE r = p
        <4>1. TakeSelect(p) \/ Abort(p)
          BY <2>3, <3>2 DEF Step, Arrive, AcsVerify, MarkPurge, MarkInsert, TakeDelete,
             TakeExpiry, JitFind, JitCreate, CreateSession
        <4> QED BY <4>1, <2>2 DEF TakeSelect, Abort
      <3> QED BY <3>1, <3>2
    <2>4. CASE \/ \E t \in Tenants, r \in Requests : Login(t, r)
               \/ \E s \in Syncs, t \in Tenants, n \in Names : ScimCreate(s, t, n)
               \/ \E u \in users : ScimDelete(u)
               \/ \E s \in Syncs, u \in users, n \in Names : ScimRename(s, u, n)
               \/ Tick \/ UNCHANGED vars
      BY <2>4 DEF Login, ScimCreate, ScimDelete, ScimRename, Tick, vars
    <2> QED BY <2>3, <2>4 DEF Next, Finished
  <1> QED BY RequestInit, RequestStep, <1>1, PTL DEF Spec, LateConsumerRefused

(* TakeSAMLRequest's DELETE names no tenant, and still only a handler of   *)
(* the tenant a request was sent for can remove it.                        *)
THEOREM BurntTheorem == Spec => BurntByOwnTenant
  <1> DEFINE Burnt == \A row \in samlRequests \ samlRequests' :
        \E p \in consumed' \ consumed :
          tenant[p] = row.tenant /\ doc[p].inResponseTo = row.id
  <1>1. RequestInv /\ [Next]_vars => [Burnt]_vars
    <2> SUFFICES ASSUME RequestInv, [Next]_vars,
                        NEW row \in samlRequests, row \notin samlRequests'
                 PROVE  \E p \in consumed' \ consumed :
                          tenant[p] = row.tenant /\ doc[p].inResponseTo = row.id
      OBVIOUS
    <2> USE DEF tables, input, local, history, Goto, Answer
    <2>1. PICK p \in Posts : TakeDelete(p)
      BY DEF Next, Step, vars, Login, Arrive, AcsVerify, MarkPurge, MarkInsert, TakeSelect,
         TakeExpiry, JitFind, JitCreate, CreateSession, Abort, ScimCreate, ScimDelete, ScimRename, Tick,
         Finished
    <2>2. row.id = doc[p].inResponseTo /\ pc[p] = "consume" /\ consumed' = consumed \union {p}
      BY <2>1 DEF TakeDelete
    <2>3. Answers(p) /\ [id |-> row.id, tenant |-> row.tenant] \in issued
      BY <2>2 DEF RequestInv, RequestLife
    <2>4. tenant[p] = row.tenant
      BY <2>2, <2>3 DEF RequestInv, RequestLife, Answers
    <2>5. p \notin consumed
      BY <2>2 DEF RequestInv, RequestLife
    <2> QED BY <2>2, <2>4, <2>5
  <1> QED BY RequestInit, RequestStep, <1>1, PTL DEF Spec, BurntByOwnTenant

-----------------------------------------------------------------------------
(* What acs has established of a post by the step it is at, and what its   *)
(* session keeps of it.                                                    *)
Trusted(p) == tenant[p] \in doc[p].audience /\ doc[p].signer \in IdPCerts[tenant[p]]

AcceptOrder ==
  /\ \A p \in Posts : pc[p] \in Steps \ {"verify"} => Trusted(p)
  /\ \A p \in Posts : pc[p] \in Steps \ {"verify", "purge", "insert"} => p \in accepted
  /\ \A s \in sessions : s.tenant = tenant[s.id] /\ Trusted(s.id) /\ s.id \in accepted

AcceptInv == TypeInv /\ AcceptOrder

LEMMA AcceptInit == Init => AcceptInv
  BY TypeInvInit DEF Init, AcceptInv, AcceptOrder, Steps

LEMMA AcceptStep == AcceptInv /\ [Next]_vars => AcceptInv'
  <1> SUFFICES ASSUME AcceptInv, [Next]_vars PROVE AcceptOrder'
    BY TypeInvStep DEF AcceptInv
  <1>a. pc \in [Posts -> Steps \union {"new", "done"}] /\ AcceptOrder
    BY DEF AcceptInv, TypeInv, TypeOK
  <1>b. UNCHANGED <<tenant, doc>>
    BY InputFixed
  <1> USE <1>a, <1>b DEF tables, input, local, history, Goto, Answer, Steps
  <1>1. ASSUME NEW p \in Posts, AcsVerify(p) PROVE AcceptOrder'
    BY <1>1 DEF AcsVerify, ParseAndVerifyResponse, AcceptOrder, Trusted
  <1>2. ASSUME NEW p \in Posts, MarkInsert(p) PROVE AcceptOrder'
    BY <1>2 DEF MarkInsert, AcceptOrder, Trusted
  <1>3. ASSUME NEW p \in Posts, CreateSession(p) PROVE AcceptOrder'
    <2> DEFINE s == [id |-> p, tenant |-> tenant[p], user |-> user[p], subject |-> doc[p].nameID]
    <2>1. /\ sessions' = sessions \union {s} /\ UNCHANGED accepted
          /\ \A q \in Posts : q # p => pc'[q] = pc[q]
          /\ pc[p] = "session" /\ pc'[p] = "done"
      BY <1>3 DEF CreateSession
    <2>2. s.id = p /\ s.tenant = tenant[p]
      OBVIOUS
    <2> HIDE DEF s
    <2> QED BY <2>1, <2>2 DEF AcceptOrder, Trusted
  <1>4. ASSUME NEW p \in Posts,
               Arrive(p) \/ MarkPurge(p) \/ TakeSelect(p) \/ TakeDelete(p) \/ TakeExpiry(p)
               \/ JitFind(p) \/ JitCreate(p) \/ Abort(p)
        PROVE  AcceptOrder'
    <2>1. /\ UNCHANGED <<sessions, accepted>>
          /\ \A q \in Posts : q # p => pc'[q] = pc[q]
          /\ \/ pc[p] = "new" /\ pc'[p] = "verify"
             \/ pc[p] = "purge" /\ pc'[p] = "insert"
             \/ pc'[p] = "done"
             \/ pc[p] \in Steps \ {"verify", "purge", "insert"}
      BY <1>4 DEF Arrive, MarkPurge, TakeSelect, TakeDelete, TakeExpiry, JitFind, JitCreate, Abort
    <2> QED BY <2>1 DEF AcceptOrder, Trusted
  <1>5. CASE \/ \E t \in Tenants, r \in Requests : Login(t, r)
             \/ \E s \in Syncs, t \in Tenants, n \in Names : ScimCreate(s, t, n)
             \/ \E u \in users : ScimDelete(u)
             \/ \E s \in Syncs, u \in users, n \in Names : ScimRename(s, u, n)
             \/ Tick \/ UNCHANGED vars
    <2>1. UNCHANGED <<sessions, accepted, pc>>
      BY <1>5 DEF Login, ScimCreate, ScimDelete, ScimRename, Tick, vars
    <2> QED BY <2>1 DEF AcceptOrder, Trusted
  <1> QED BY <1>1, <1>2, <1>3, <1>4, <1>5 DEF Next, Step, Finished

-----------------------------------------------------------------------------
(* i is the ID of a user of tenant t or, if the directory has deleted the  *)
(* user since, can never be another's: a post and a sync each create at    *)
(* most one user, and a rename keeps the ID and the tenant.                *)
Owner(i, t) ==
  /\ i \in Posts => tenant[i] = t /\ pc[i] \in {"session", "done"}
  /\ i \in Syncs => i \in synced
  /\ \A u \in users : u.id = i => u.tenant = t

(* The user of post p is its tenant's and of the name in its response,     *)
(* unless it has been renamed since p looked it up.                        *)
Known(p) ==
  /\ Owner(user[p], tenant[p])
  /\ \A u \in users : u.id = user[p] => u.userName = doc[p].nameID \/ p \in renamed

UserOwners ==
  /\ \A u \in users : Owner(u.id, u.tenant)
  /\ \A u, v \in users : u.id = v.id => u = v
  /\ \A p \in Posts : pc[p] = "session" => Known(p)
  /\ \A s \in sessions :
       /\ s.tenant = tenant[s.id] /\ s.user = user[s.id] /\ s.subject = doc[s.id].nameID
       /\ pc[s.id] = "done" /\ Known(s.id)

UserInv == TypeInv /\ UserOwners

LEMMA UserInit == Init => UserInv
  BY TypeInvInit DEF Init, UserInv, UserOwners

\* A user row that is new has an ID no post or session refers to yet.
LEMMA OwnerKept ==
  ASSUME UNCHANGED <<tenant, doc>>, synced \subseteq synced', renamed \subseteq renamed',
         \A q \in Posts : pc[q] \in {"session", "done"} => pc'[q] \in {"session", "done"},
         \A u \in users' \ users :
           \/ u.id \in Posts /\ pc[u.id] \notin {"session", "done"}
           \/ u.id \in Syncs \ synced
  PROVE  /\ \A i, t : Owner(i, t) => Owner(i, t)'
         /\ \A q \in Posts : Known(q) /\ user'[q] = user[q] => Known(q)'
  <1>1. ASSUME NEW i, NEW t, Owner(i, t)
        PROVE  Owner(i, t)' /\ \A u \in users' : u.id = i => u \in users
    BY <1>1 DEF Owner
  <1>2. ASSUME NEW q \in Posts, Known(q), user'[q] = user[q] PROVE Known(q)'
    <2>1. /\ Owner(user[q], tenant[q])'
          /\ \A u \in users' : u.id = user[q] => u \in users
      BY <1>1, <1>2 DEF Known
    <2>2. user'[q] = user[q] /\ tenant'[q] = tenant[q] /\ doc'[q] = doc[q]
      BY <1>2
    <2> QED BY <1>2, <2>1, <2>2 DEF Known, Owner
  <1> QED BY <1>1, <1>2

LEMMA UserStep == UserInv /\ [Next]_vars => UserInv'
  <1> SUFFICES ASSUME UserInv, [Next]_vars PROVE UserOwners'
    BY TypeInvStep DEF UserInv
  <1>a. /\ pc \in [Posts -> Steps \union {"new", "done"}] /\ user \in [Posts -> UserIds]
        /\ users \subseteq [id : UserIds, tenant : Tenants, userName : Names]
        /\ sessions \subseteq [id : Posts, tenant : Tenants, user : UserIds, subject : Names]
        /\ UserOwners
    BY DEF UserInv, TypeInv, TypeOK
  <1>b. UNCHANGED <<tenant, doc>>
    BY InputFixed
  <1> USE <1>a, <1>b DEF tables, input, local, history, Goto, Answer
  <1>c. ASSUME UNCHANGED <<user, sessions>>, users' \subseteq users, synced \subseteq synced',
               renamed \subseteq renamed',
               \A q \in Posts : pc'[q] = "session" => pc[q] = "session",
               \A q \in Posts : pc[q] = "session" => pc'[q] \in {"session", "done"},
               \A q \in Posts : pc[q] = "done" => pc'[q] = "done"
        PROVE  UserOwners'
    <2>1. /\ \A i, t : Owner(i, t) => Owner(i, t)'
          /\ \A q \in Posts : Known(q) /\ user'[q] = user[q] => Known(q)'
      BY <1>c, OwnerKept
    <2> QED BY <1>c, <2>1 DEF UserOwners
  <1>1. ASSUME NEW p \in Posts, JitFind(p) PROVE UserOwners'
    <2>1. CASE pc'[p] # "session"
      <3>1. /\ UNCHANGED <<users, user, sessions, synced, renamed>>
            /\ \A q \in Posts : pc'[q] = "session" => pc[q] = "session"
            /\ \A q \in Posts : pc[q] = "session" => pc'[q] \in {"session", "done"}
            /\ \A q \in Posts : pc[q] = "done" => pc'[q] = "done"
        BY <1>1, <2>1 DEF JitFind
      <3> QED BY <3>1, <1>c
    <2>2. CASE pc'[p] = "session"
      <3>1. PICK u \in UsersNamed(tenant[p], doc[p].nameID) : user' = [user EXCEPT ![p] = u.id]
        BY <1>1, <2>2 DEF JitFind
      <3>2. /\ UNCHANGED <<users, sessions, synced, renamed>> /\ pc[p] = "find"
            /\ \A q \in Posts : q # p => pc'[q] = pc[q] /\ user'[q] = user[q]
        BY <1>1, <3>1 DEF JitFind
      <3>3. /\ \A i, t : Owner(i, t) => Owner(i, t)'
            /\ \A q \in Posts : Known(q) /\ user'[q] = user[q] => Known(q)'
        <4>1. \A q \in Posts : pc[q] \in {"session", "done"} => pc'[q] \in {"session", "done"}
          BY <2>2, <3>2
        <4> QED BY <3>2, <4>1, OwnerKept
      <3>4. Owner(u.id, tenant[p])' /\ user'[p] = u.id
        BY <3>1, <3>3 DEF UserOwners, UsersNamed
      <3>5. Known(p)'
        BY <3>1, <3>2, <3>4 DEF Known, UserOwners, UsersNamed
      <3>6. \A s \in sessions : s.id # p
        BY <3>2 DEF UserOwners
      <3> QED BY <3>2, <3>3, <3>5, <3>6 DEF UserOwners
    <2> QED BY <2>1, <2>2
  <1>2. ASSUME NEW p \in Posts, JitCreate(p) PROVE UserOwners'
    <2>1. CASE UsersNamed(tenant[p], doc[p].nameID) # {}
      <3>1. /\ UNCHANGED <<users, user, sessions, synced, renamed>>
            /\ \A q \in Posts : pc'[q] = "session" => pc[q] = "session"
            /\ \A q \in Posts : pc[q] = "session" => pc'[q] \in {"session", "done"}
            /\ \A q \in Posts : pc[q] = "done" => pc'[q] = "done"
        BY <1>2, <2>1 DEF JitCreate
      <3> QED BY <3>1, <1>c
    <2>2. CASE UsersNamed(tenant[p], doc[p].nameID) = {}
      <3> DEFINE row == [id |-> p, tenant |-> tenant[p], userName |-> doc[p].nameID]
      <3>1. /\ users' = users \union {row} /\ UNCHANGED <<sessions, synced, renamed>>
            /\ \A q \in Posts : q # p => pc'[q] = pc[q] /\ user'[q] = user[q]
            /\ user'[p] = p /\ pc[p] = "create" /\ pc'[p] = "session"
        BY <1>2, <2>2 DEF JitCreate
      <3>2. row.id = p /\ row.tenant = tenant[p] /\ row.userName = doc[p].nameID
        OBVIOUS
      <3> HIDE DEF row
      <3>3. \A u \in users : u.id # p
        BY <3>1 DEF UserOwners, Owner
      <3>4. Owner(p, tenant[p])' /\ Known(p)'
        BY <3>1, <3>2, <3>3, NameAssumption DEF Owner, Known
      <3>5. /\ \A i, t : Owner(i, t) => Owner(i, t)'
            /\ \A q \in Posts : Known(q) /\ user'[q] = user[q] => Known(q)'
        <4>1. \A q \in Posts : pc[q] \in {"session", "done"} => pc'[q] \in {"session", "done"}
          BY <3>1
        <4> QED BY <3>1, <3>2, <4>1, OwnerKept
      <3>6. /\ \A u \in users' : Owner(u.id, u.tenant)'
            /\ \A u, v \in users' : u.id = v.id => u = v
        BY <3>1, <3>2, <3>3, <3>4, <3>5 DEF UserOwners
      <3>7. \A s \in sessions : s.id # p
        BY <3>1 DEF UserOwners
      <3> QED BY <3>1, <3>4, <3>5, <3>6, <3>7 DEF UserOwners
    <2> QED BY <2>1, <2>2
  <1>3. ASSUME NEW p \in Posts, CreateSession(p) PROVE UserOwners'
    <2> DEFINE s == [id |-> p, tenant |-> tenant[p], user |-> user[p], subject |-> doc[p].nameID]
    <2>1. /\ sessions' = sessions \union {s} /\ UNCHANGED <<users, user, synced, renamed>>
          /\ \A q \in Posts : q # p => pc'[q] = pc[q]
          /\ pc[p] = "session" /\ pc'[p] = "done"
      BY <1>3 DEF CreateSession
    <2>2. /\ s.id = p /\ s.user = user[p] /\ s.tenant = tenant[p]
          /\ s.subject = doc[p].nameID
      OBVIOUS
    <2> HIDE DEF s
    <2>3. /\ \A i, t : Owner(i, t) => Owner(i, t)'
          /\ \A q \in Posts : Known(q) /\ user'[q] = user[q] => Known(q)'
      <3>1. \A q \in Posts : pc[q] \in {"session", "done"} => pc'[q] \in {"session", "done"}
        BY <2>1
      <3> QED BY <2>1, <3>1, OwnerKept
    <2> QED BY <2>1, <2>2, <2>3 DEF UserOwners
  <1>4. ASSUME NEW s \in Syncs, NEW t \in Tenants, NEW n \in Names, ScimCreate(s, t, n)
        PROVE  UserOwners'
    <2> DEFINE row == [id |-> s, tenant |-> t, userName |-> n]
    <2>1. /\ users' = users \union {row} /\ synced' = synced \union {s} /\ s \notin synced
          /\ UNCHANGED <<pc, user, sessions, renamed>>
      BY <1>4 DEF ScimCreate
    <2>2. row.id = s /\ row.tenant = t /\ row.userName = n
      OBVIOUS
    <2> HIDE DEF row
    <2>3. \A u \in users : u.id # s
      BY <2>1 DEF UserOwners, Owner
    <2>4. Owner(s, t)'
      BY <2>1, <2>2, <2>3, NameAssumption DEF Owner
    <2>5. /\ \A i, m : Owner(i, m) => Owner(i, m)'
          /\ \A q \in Posts : Known(q) /\ user'[q] = user[q] => Known(q)'
      BY <2>1, <2>2, OwnerKept
    <2>6. /\ \A u \in users' : Owner(u.id, u.tenant)'
          /\ \A u, v \in users' : u.id = v.id => u = v
      BY <2>1, <2>2, <2>3, <2>4, <2>5 DEF UserOwners
    <2> QED BY <2>1, <2>5, <2>6 DEF UserOwners
  <1>5. ASSUME NEW s \in Syncs, NEW u \in users, NEW n \in Names, ScimRename(s, u, n)
        PROVE  UserOwners'
    <2> DEFINE row == [u EXCEPT !.userName = n]
    <2>1. /\ users' = (users \ {u}) \union {row} /\ synced' = synced \union {s}
          /\ renamed' = renamed \union
               {p \in Posts : pc[p] \in {"session", "done"} /\ user[p] = u.id}
          /\ UNCHANGED <<pc, user, sessions>>
      BY <1>5 DEF ScimRename
    <2>2. row.id = u.id /\ row.tenant = u.tenant
      OBVIOUS
    <2> HIDE DEF row
    <2>3. \A i, t : Owner(i, t) => Owner(i, t)'
      BY <2>1, <2>2 DEF Owner
    <2>4. ASSUME NEW q \in Posts, Known(q), pc[q] \in {"session", "done"}
          PROVE  Known(q)'
      <3>1. Owner(user[q], tenant[q])'
        BY <2>1, <2>3, <2>4 DEF Known
      <3>2. CASE user[q] = u.id
        BY <2>1, <2>4, <3>1, <3>2 DEF Known, Owner
      <3>3. CASE user[q] # u.id
        BY <2>1, <2>2, <2>4, <3>1, <3>3 DEF Known, Owner
      <3> QED BY <3>2, <3>3
    <2>5. /\ \A v \in users' : Owner(v.id, v.tenant)'
          /\ \A v, w \in users' : v.id = w.id => v = w
      BY <2>1, <2>2, <2>3 DEF UserOwners
    <2> QED BY <2>1, <2>4, <2>5 DEF UserOwners
  <1>6. ASSUME NEW p \in Posts,
               Arrive(p) \/ AcsVerify(p) \/ MarkPurge(p) \/ MarkInsert(p) \/ TakeSelect(p)
               \/ TakeDelete(p) \/ TakeExpiry(p) \/ Abort(p)
        PROVE  UserOwners'
    <2>1. /\ UNCHANGED <<users, user, sessions, synced, renamed>>
          /\ \A q \in Posts : pc'[q] = "session" => pc[q] = "session"
          /\ \A q \in Posts : pc[q] = "session" => pc'[q] \in {"session", "done"}
          /\ \A q \in Posts : pc[q] = "done" => pc'[q] = "done"
      BY <1>6 DEF Arrive, AcsVerify, MarkPurge, MarkInsert, TakeSelect, TakeDelete, TakeExpiry,
                  Abort, Steps
    <2> QED BY <2>1, <1>c
  <1>7. CASE \/ \E t \in Tenants, r \in Requests : Login(t, r)
             \/ \E u \in users : ScimDelete(u)
             \/ Tick \/ UNCHANGED vars
    <2>1. UNCHANGED <<user, sessions, synced, renamed, pc>> /\ users' \subseteq users
      BY <1>7 DEF Login, ScimDelete, Tick, vars
    <2> QED BY <2>1, <1>c
  <1> QED BY <1>1, <1>2, <1>3, <1>4, <1>5, <1>6, <1>7 DEF Next, Step, Finished

(* acs: a session is of an accepted assertion of the tenant's IdP, made    *)
(* for the tenant and answering only a request sent for it, and its user   *)
(* is the tenant's and of that name unless renamed since its lookup,       *)
(* however logins and the directory sync interleave.                       *)
THEOREM ProvenanceTheorem == Spec => []SessionProvenance
  <1>1. RequestInv /\ AcceptInv /\ UserInv => SessionProvenance
    <2> SUFFICES ASSUME RequestInv, AcceptInv, UserInv, NEW s \in sessions
                 PROVE  /\ s.id \in accepted
                        /\ s.tenant \in doc[s.id].audience
                        /\ doc[s.id].signer \in IdPCerts[s.tenant]
                        /\ doc[s.id].inResponseTo # NoRequest =>
                             /\ [id |-> doc[s.id].inResponseTo, tenant |-> s.tenant] \in issued
                             /\ \A row \in samlRequests : row.id # doc[s.id].inResponseTo
                        /\ \A u \in users : u.id = s.user =>
                             u.tenant = s.tenant /\ (u.userName = s.subject \/ s.id \in renamed)
      BY DEF SessionProvenance
    <2>1. s.tenant = tenant[s.id] /\ Trusted(s.id) /\ s.id \in accepted
      BY DEF AcceptInv, AcceptOrder
    <2>2. Settled(s.id)
      BY DEF RequestInv, RequestLife
    <2>3. doc[s.id].inResponseTo # NoRequest =>
            Answers(s.id) /\ \A row \in samlRequests : row.id # doc[s.id].inResponseTo
      BY <2>2 DEF Settled, RequestInv, RequestLife
    <2>4. Known(s.id) /\ s.user = user[s.id] /\ s.subject = doc[s.id].nameID
      BY DEF UserInv, UserOwners
    <2> QED BY <2>1, <2>3, <2>4 DEF Trusted, Answers, Known, Owner
  <1> QED BY RequestInit, RequestStep, AcceptInit, AcceptStep, UserInit, UserStep, <1>1, PTL
          DEF Spec

-----------------------------------------------------------------------------
(***************************************************************************)
(* Exclusive canonicalisation.  A path leads from the element that is      *)
(* signed, path[1], inwards, one element into the next; outer is the scope *)
(* around path[1] in the document.  On the way down render is called once  *)
(* for each element: w[i] is what it passes on from path[i], w[0] what     *)
(* canonicalize calls it with.                                             *)
(***************************************************************************)
Walk(w, path, outer) ==
  /\ w[0] = [scope |-> outer, rendered |-> NoDecls]
  /\ \A i \in 1 .. Len(path) : w[i] = Enter(path[i], w[i - 1])

\* path[i] as it is written out.
StartTag(path, w, i) == [prefix |-> path[i].prefix, attrs |-> path[i].attrs,
                         decls |-> Emitted(path[i], w[i - 1])]

\* The scopes a parser finds in what was written, read as a document of its own.
Reading(r, path, w) ==
  /\ r[0] = NoDecls
  /\ \A i \in 1 .. Len(path) : r[i] = Effective(StartTag(path, w, i), r[i - 1])

(* Induction, in the form the proofs below use it: a set that holds 0 and  *)
(* with i also i + 1 holds every natural number.                           *)
LEMMA PathInduction ==
  ASSUME NEW S, 0 \in S, \A i \in Nat : i \in S => i + 1 \in S
  PROVE  \A i \in Nat : i \in S
<1> DEFINE T == {i \in Nat : i \notin S}
           R == {ss \in Nat \X Nat : ss[1] < ss[2]}
<1> SUFFICES ASSUME T # {}
             PROVE  FALSE
  OBVIOUS
<1>1. R = OpToRel(<, Nat)
  BY Zenon DEF OpToRel
<1>2. IsWellFoundedOn(R, Nat)
  BY <1>1, NatLessThanWellFounded, Zenon
<1>3. T \subseteq Nat
  OBVIOUS
<1>4. PICK i \in T : \A j \in T : ~(<<j, i>> \in R)
  <2> HIDE DEF R, T
  <2> QED
    BY <1>2, <1>3, WFMin, Zenon
<1>5. i \in Nat \ {0} /\ i - 1 \in Nat
  OBVIOUS
<1>6. <<i - 1, i>> \in R
  BY <1>5
<1>7. i - 1 \in S
  BY <1>4, <1>5, <1>6
<1> QED
  BY <1>5, <1>7

(* Inside an element a prefix stands for what its own declarations say, or *)
(* else for what it stands for around it.                                  *)
LEMMA LookupOver ==
  ASSUME NEW inner, NEW scope, NEW p
  PROVE  Lookup(Over(inner, scope), p) = IF p \in DOMAIN inner THEN inner[p] ELSE Lookup(scope, p)
BY DEF Lookup, Over

(* What a call passes on.                                                 *)
LEMMA EnterParts ==
  ASSUME NEW e, NEW in
  PROVE  /\ Enter(e, in).scope = Effective(e, in.scope)
         /\ Enter(e, in).rendered = Over(Emitted(e, in), in.rendered)
BY DEF Enter

(* One call of render: after what it writes, every prefix that the element *)
(* uses visibly is rendered with the URI it has in the document.           *)
LEMMA RenderedAsUsed ==
  ASSUME NEW e, NEW in, NEW p \in Utilized(e)
  PROVE  /\ p \in DOMAIN Enter(e, in).rendered
         /\ Enter(e, in).rendered[p] = Lookup(Enter(e, in).scope, p)
BY DEF Enter, Over, Emitted, Needed

(* The calls on the way down a path exist, whatever its length: the        *)
(* theorems below are about something.                                     *)
LEMMA WalkExists ==
  ASSUME NEW Elems, NEW path \in Seq(Elems), NEW outer
  PROVE  \E w : Walk(w, path, outer)
<1> DEFINE Upto(w, n) ==
             /\ w[0] = [scope |-> outer, rendered |-> NoDecls]
             /\ \A i \in 1 .. n : i <= Len(path) => w[i] = Enter(path[i], w[i - 1])
           S == {n \in Nat : \E w : Upto(w, n)}
<1>1. 0 \in S
  <2> DEFINE w == [i \in {0} |-> [scope |-> outer, rendered |-> NoDecls]]
  <2>1. Upto(w, 0)
    OBVIOUS
  <2> HIDE DEF w, Upto
  <2> QED
    BY <2>1
<1>2. ASSUME NEW n \in Nat, n \in S
      PROVE  n + 1 \in S
  <2>1. PICK v : Upto(v, n)
    BY <1>2
  <2> DEFINE w == [i \in 0 .. n + 1 |-> IF i <= n THEN v[i] ELSE Enter(path[i], v[n])]
  <2>2. w[0] = v[0] /\ w[n + 1] = Enter(path[n + 1], v[n]) /\ w[n] = v[n]
    OBVIOUS
  <2>3. ASSUME NEW i \in 1 .. n + 1, i <= Len(path)
        PROVE  w[i] = Enter(path[i], w[i - 1])
    <3>1. CASE i <= n
      BY <2>1, <2>3, <3>1
    <3>2. CASE i = n + 1
      BY <2>2, <3>2
    <3> QED
      BY <3>1, <3>2
  <2>4. Upto(w, n + 1)
    BY <2>1, <2>2, <2>3
  <2> HIDE DEF w, Upto
  <2> QED
    BY <2>4
<1>3. Len(path) \in S
  <2> HIDE DEF S
  <2> QED
    BY <1>1, <1>2, PathInduction
<1>4. PICK w : Upto(w, Len(path))
  BY <1>3
<1>5. Walk(w, path, outer)
  BY <1>4 DEF Walk
<1> QED
  BY <1>5

(* A reader of the canonical form knows exactly the bindings that render   *)
(* has rendered, the invariant of the walk down a path.                    *)
LEMMA ReaderKnowsRendered ==
  ASSUME NEW Elems, NEW path \in Seq(Elems), NEW outer, NEW w, Walk(w, path, outer),
         NEW r, Reading(r, path, w)
  PROVE  \A i \in 0 .. Len(path) : r[i] = w[i].rendered
<1> DEFINE S == {i \in Nat : i <= Len(path) => r[i] = w[i].rendered}
<1>1. 0 \in S
  BY DEF Walk, Reading
<1>2. ASSUME NEW i \in Nat, i \in S
      PROVE  i + 1 \in S
  <2> SUFFICES ASSUME i + 1 <= Len(path)
               PROVE  r[i + 1] = w[i + 1].rendered
    OBVIOUS
  <2>1. i + 1 \in 1 .. Len(path) /\ (i + 1) - 1 = i /\ r[i] = w[i].rendered
    BY <1>2
  <2>2. w[i + 1] = Enter(path[i + 1], w[i])
    BY <2>1 DEF Walk
  <2>3. r[i + 1] = Over(Emitted(path[i + 1], w[i]), r[i])
    BY <2>1 DEF Reading, StartTag, Effective
  <2> QED
    BY <2>1, <2>2, <2>3 DEF Enter
<1>3. \A i \in Nat : i \in S
  <2> HIDE DEF S
  <2> QED
    BY <1>1, <1>2, PathInduction
<1> QED
  BY <1>3

(* And so does its reader.                                                 *)
LEMMA ReadingExists ==
  ASSUME NEW Elems, NEW path \in Seq(Elems), NEW outer, NEW w, Walk(w, path, outer)
  PROVE  \E r : Reading(r, path, w)
<1> DEFINE r == [i \in 0 .. Len(path) |-> w[i].rendered]
<1>1. r[0] = NoDecls
  BY DEF Walk
<1>2. ASSUME NEW i \in 1 .. Len(path)
      PROVE  r[i] = Effective(StartTag(path, w, i), r[i - 1])
  <2>1. i \in 0 .. Len(path) /\ i - 1 \in 0 .. Len(path) /\ w[i] = Enter(path[i], w[i - 1])
    BY DEF Walk
  <2>2. r[i] = w[i].rendered /\ r[i - 1] = w[i - 1].rendered
    BY <2>1
  <2> QED
    BY <2>1, <2>2, EnterParts DEF Effective, StartTag
<1>3. Reading(r, path, w)
  BY <1>1, <1>2 DEF Reading
<1> HIDE DEF r
<1> QED
  BY <1>3

(* Every name in a canonical form means what it means in the document: at  *)
(* any depth, for any nesting of declarations that bind, rebind or unbind  *)
(* a prefix, the tag and the attributes of an element have in the form,    *)
(* read on its own, the namespaces that they have where the element stands *)
(* (render, addIfNeeded).  It is what MeaningPreserved says of names.      *)
THEOREM NamesPreserved ==
  ASSUME NEW Elems, NEW path \in Seq(Elems), NEW outer, NEW w, Walk(w, path, outer),
         NEW r, Reading(r, path, w), NEW i \in 1 .. Len(path)
  PROVE  /\ Lookup(r[i], path[i].prefix) = Lookup(w[i].scope, path[i].prefix)
         /\ \A j \in DOMAIN path[i].attrs :
              AttrUri(path[i].attrs[j], r[i]) = AttrUri(path[i].attrs[j], w[i].scope)
<1>1. r[i] = w[i].rendered
  BY ReaderKnowsRendered
<1>2. w[i] = Enter(path[i], w[i - 1])
  BY DEF Walk
<1>3. \A p \in Utilized(path[i]) : Lookup(r[i], p) = Lookup(w[i].scope, p)
  <2> SUFFICES ASSUME NEW p \in Utilized(path[i])
               PROVE  Lookup(r[i], p) = Lookup(w[i].scope, p)
    OBVIOUS
  <2>1. p \in DOMAIN w[i].rendered /\ w[i].rendered[p] = Lookup(w[i].scope, p)
    BY <1>2, RenderedAsUsed
  <2> QED
    BY <1>1, <2>1 DEF Lookup
<1>4. ASSUME NEW j \in DOMAIN path[i].attrs
      PROVE  AttrUri(path[i].attrs[j], r[i]) = AttrUri(path[i].attrs[j], w[i].scope)
  <2>1. path[i].attrs[j].prefix = "" \/ path[i].attrs[j].prefix \in Utilized(path[i])
    BY DEF Utilized
  <2> QED
    BY <1>3, <2>1 DEF AttrUri
<1> QED
  BY <1>3, <1>4 DEF Utilized

\* Two ways of writing the declarations of one path, or one path in two places.
SameUse(path, other) ==
  Len(path) = Len(other) /\ \A i \in 1 .. Len(path) : Utilized(path[i]) = Utilized(other[i])

SameForm(path, w, other, v) ==
  \A i \in 1 .. Len(path) : Emitted(path[i], w[i - 1]) = Emitted(other[i], v[i - 1])

SameNames(path, w, v) ==
  \A i \in 1 .. Len(path) : \A p \in Utilized(path[i]) : Lookup(w[i].scope, p) = Lookup(v[i].scope, p)

(* What one call writes is fixed by the bindings rendered before it and by *)
(* what the prefixes the element uses stand for.                           *)
LEMMA EmittedFixed ==
  ASSUME NEW e, NEW f, NEW in, NEW call, Utilized(e) = Utilized(f), in.rendered = call.rendered,
         \A p \in Utilized(e) : Lookup(Enter(e, in).scope, p) = Lookup(Enter(f, call).scope, p)
  PROVE  Emitted(e, in) = Emitted(f, call)
<1>1. \A p \in Utilized(e) :
        Lookup(Effective(e, in.scope), p) = Lookup(Effective(f, call.scope), p)
  BY DEF Enter
<1>2. Needed(e, Effective(e, in.scope), in.rendered) = Needed(f, Effective(f, call.scope), call.rendered)
  BY <1>1 DEF Needed
<1>3. Needed(e, Effective(e, in.scope), in.rendered) \subseteq Utilized(e)
  BY DEF Needed
<1> QED
  BY <1>1, <1>2, <1>3 DEF Emitted

(* A digest depends on the namespaces of the names and on nothing else in  *)
(* the declarations: two paths that use the same prefixes have the same    *)
(* declarations in the canonical form exactly when each of those prefixes  *)
(* stands for the same URI at each of their elements.  So a verifier that  *)
(* compares digests accepts every other way of declaring the same names,   *)
(* and refuses an element that was moved to where one of its names means   *)
(* something else: what AcceptedIffUnchanged says of names.                *)
THEOREM SameFormIffSameNames ==
  ASSUME NEW Elems, NEW path \in Seq(Elems), NEW outer, NEW w, Walk(w, path, outer),
         NEW other \in Seq(Elems), NEW around, NEW v, Walk(v, other, around),
         SameUse(path, other)
  PROVE  SameForm(path, w, other, v) <=> SameNames(path, w, v)
<1> DEFINE n == Len(path)
<1>1. n \in Nat /\ n = Len(other)
  BY DEF SameUse
<1>2. /\ w[0].rendered = NoDecls /\ v[0].rendered = NoDecls
      /\ \A i \in 1 .. n : w[i] = Enter(path[i], w[i - 1]) /\ v[i] = Enter(other[i], v[i - 1])
  BY <1>1 DEF Walk
<1>3. \A i \in 1 .. n : /\ w[i].rendered = Over(Emitted(path[i], w[i - 1]), w[i - 1].rendered)
                        /\ v[i].rendered = Over(Emitted(other[i], v[i - 1]), v[i - 1].rendered)
  BY <1>2, EnterParts
<1> HIDE DEF n
<1>4. ASSUME SameForm(path, w, other, v)
      PROVE  SameNames(path, w, v)
  <2> DEFINE S == {i \in Nat : i <= n => w[i].rendered = v[i].rendered}
  <2>1. 0 \in S
    BY <1>2
  <2>2. ASSUME NEW i \in Nat, i \in S
        PROVE  i + 1 \in S
    <3> SUFFICES ASSUME i + 1 <= n
                 PROVE  w[i + 1].rendered = v[i + 1].rendered
      OBVIOUS
    <3>1. i + 1 \in 1 .. n /\ (i + 1) - 1 = i /\ w[i].rendered = v[i].rendered
      BY <1>1, <2>2
    <3>2. Emitted(path[i + 1], w[i]) = Emitted(other[i + 1], v[i])
      BY <1>4, <3>1 DEF SameForm, n
    <3> QED
      BY <1>3, <3>1, <3>2
  <2>3. \A i \in Nat : i \in S
    <3> HIDE DEF S
    <3> QED
      BY <2>1, <2>2, PathInduction
  <2>4. ASSUME NEW i \in 1 .. n, NEW p \in Utilized(path[i])
        PROVE  Lookup(w[i].scope, p) = Lookup(v[i].scope, p)
    <3>1. p \in Utilized(other[i])
      BY DEF SameUse, n
    <3>2. w[i].rendered[p] = Lookup(w[i].scope, p) /\ v[i].rendered[p] = Lookup(v[i].scope, p)
      BY <1>2, <3>1, RenderedAsUsed
    <3>3. w[i].rendered = v[i].rendered
      BY <1>1, <2>3
    <3> QED
      BY <3>2, <3>3
  <2> QED
    BY <2>4 DEF SameNames, n
<1>5. ASSUME SameNames(path, w, v)
      PROVE  SameForm(path, w, other, v)
  <2>1. ASSUME NEW i \in 1 .. n, w[i - 1].rendered = v[i - 1].rendered
        PROVE  Emitted(path[i], w[i - 1]) = Emitted(other[i], v[i - 1])
    <3>1. Utilized(path[i]) = Utilized(other[i])
      BY DEF SameUse, n
    <3>2. \A p \in Utilized(path[i]) :
            Lookup(Enter(path[i], w[i - 1]).scope, p) = Lookup(Enter(other[i], v[i - 1]).scope, p)
      BY <1>2, <1>5 DEF SameNames, n
    <3> QED
      BY <2>1, <3>1, <3>2, EmittedFixed
  <2> DEFINE S == {i \in Nat : i <= n => w[i].rendered = v[i].rendered}
  <2>2. 0 \in S
    BY <1>2
  <2>3. ASSUME NEW i \in Nat, i \in S
        PROVE  i + 1 \in S
    <3> SUFFICES ASSUME i + 1 <= n
                 PROVE  w[i + 1].rendered = v[i + 1].rendered
      OBVIOUS
    <3>1. i + 1 \in 1 .. n /\ (i + 1) - 1 = i /\ w[i].rendered = v[i].rendered
      BY <1>1, <2>3
    <3>2. Emitted(path[i + 1], w[i]) = Emitted(other[i + 1], v[i])
      BY <2>1, <3>1
    <3> QED
      BY <1>3, <3>1, <3>2
  <2>4. \A i \in Nat : i \in S
    <3> HIDE DEF S
    <3> QED
      BY <2>2, <2>3, PathInduction
  <2>5. \A i \in 1 .. n : w[i - 1].rendered = v[i - 1].rendered
    BY <1>1, <2>4
  <2> QED
    BY <2>1, <2>5 DEF SameForm, n
<1> QED
  BY <1>4, <1>5

(* Canonicalisation is exclusive: what the document around the signed      *)
(* element declares matters only for the prefixes that the element or one  *)
(* inside it uses.  An assertion signed on its own keeps its digest in     *)
(* every Response that agrees on those (BuildSignedElementXML signs it     *)
(* before runMint wraps it).                                               *)
THEOREM ContextExcluded ==
  ASSUME NEW Elems, NEW path \in Seq(Elems), NEW outer, NEW w, Walk(w, path, outer),
         NEW around, NEW v, Walk(v, path, around),
         \A i \in 1 .. Len(path) : \A p \in Utilized(path[i]) : Lookup(outer, p) = Lookup(around, p)
  PROVE  SameForm(path, w, path, v)
<1> DEFINE Agree == {p \in UNION {Utilized(path[i]) : i \in 1 .. Len(path)} :
                       Lookup(outer, p) = Lookup(around, p)}
           S == {i \in Nat : i <= Len(path) =>
                   \A p \in Agree : Lookup(w[i].scope, p) = Lookup(v[i].scope, p)}
<1>1. 0 \in S
  BY DEF Walk
<1>2. ASSUME NEW i \in Nat, i \in S
      PROVE  i + 1 \in S
  <2> SUFFICES ASSUME i + 1 <= Len(path), NEW p \in Agree
               PROVE  Lookup(w[i + 1].scope, p) = Lookup(v[i + 1].scope, p)
    OBVIOUS
  <2>1. i + 1 \in 1 .. Len(path) /\ (i + 1) - 1 = i
    OBVIOUS
  <2>2. Lookup(w[i].scope, p) = Lookup(v[i].scope, p)
    BY <1>2, <2>1
  <2>3. /\ w[i + 1].scope = Over(path[i + 1].decls, w[i].scope)
        /\ v[i + 1].scope = Over(path[i + 1].decls, v[i].scope)
    <3>1. w[i + 1] = Enter(path[i + 1], w[i]) /\ v[i + 1] = Enter(path[i + 1], v[i])
      BY <2>1 DEF Walk
    <3> QED
      BY <3>1, EnterParts DEF Effective
  <2> QED
    BY <2>2, <2>3, LookupOver
<1>3. \A i \in Nat : i \in S
  <2> HIDE DEF S
  <2> QED
    BY <1>1, <1>2, PathInduction
<1>4. \A i \in 1 .. Len(path) : Utilized(path[i]) \subseteq Agree
  OBVIOUS
<1>5. SameNames(path, w, v)
  <2> HIDE DEF Agree
  <2> QED
    BY <1>3, <1>4 DEF SameNames
<1>6. SameUse(path, path)
  BY DEF SameUse
<1> QED
  BY <1>5, <1>6, SameFormIffSameNames
=============================================================================

---------------------------- MODULE BillingProofs ----------------------------
(***************************************************************************)
(* Theorems about Billing, for any handlers, reports and bounds.           *)
(***************************************************************************)
EXTENDS Billing, FiniteSetTheorems, TLAPS

\* The handler will write the row it holds.
Writing(h) == pc[h] = "write" /\ slot[h] # 0 /\ req[h].kind \notin Raising

\* What a handler's label says about its request and the row it holds.
LocalsOK(h) ==
  /\ pc[h] # "idle" => req[h] \in sent /\ req[h] \in Request
  /\ pc[h] = "create" => req[h].kind = "pay"
  /\ pc[h] \in {"load", "write"} => req[h].kind \notin {"pay"} \union Nested
  /\ pc[h] # "write" => slot[h] = 0 /\ was[h] = None
  /\ was[h] # None => /\ slot[h] \in Used
                      /\ req[h].kind # "login"
                      /\ req[h].kind \in ByExt => was[h].ext = req[h].id
  /\ Writing(h) /\ was[h] = None => req[h].kind \in Creating

TypeInv == TypeOK /\ \A h \in Handler : LocalsOK(h)

LEMMA Requests ==
  ASSUME NEW r \in Request
  PROVE  /\ r.to \in Status
         /\ r.id \in StripeSub \union Charge \union {None}
         /\ r.kind = "pay" => r.id \in Charge
         /\ r.kind = "login" => r.id = None
         /\ r.kind \in Creating => r.id \in StripeSub \union {None}
         /\ r.kind \in {"pay", "login", "checkout", "succeeded", "canceled"} \union Nested \union ByExt
BY DEF Request, Call, Event, Req, Status, Creating, Nested, ByExt

\* What is written of a row is a row.
LEMMA AskedRow ==
  ASSUME NEW r \in Request, NEW old \in Row \union {None}, old = None => r.kind \in Creating
  PROVE  Asked(r, old) \in Row
BY Requests DEF Asked, Spared, New, Row

LEMMA WrittenRow ==
  ASSUME NEW cur, NEW old \in Row \union {None}, NEW new \in Row, old # None => cur \in Row
  PROVE  Write(cur, old, new) \in Row
BY DEF Write, Row

LEMMA InitTypeInv == Init => TypeInv
<1> SUFFICES ASSUME Init PROVE TypeInv
  OBVIOUS
<1>1. TypeOK
  <2>1. 0 \in 0..MaxFaults
    BY BillingAssumption
  <2>2. rows \in [Slot -> Row \union {None}]
    BY DEF Init
  <2>3. QED
    BY <2>1, <2>2 DEF Init, TypeOK
<1>2. \A h \in Handler : LocalsOK(h)
  BY DEF Init, LocalsOK, Writing
<1>3. QED
  BY <1>1, <1>2 DEF TypeInv

\* A commit leaves a row where the handler put it, and keeps the rows there were.
LEMMA CommitTypes ==
  ASSUME TypeInv, NEW h \in Handler, Commit(h)
  PROVE  rows' \in [Slot -> Row \union {None}] /\ Used \subseteq Used' /\ slot[h] \in Used'
<1> DEFINE new == Write(rows[slot[h]], was[h], Asked(req[h], was[h]))
<1>1. /\ req[h] \in Request /\ was[h] \in Row \union {None} /\ slot[h] \in Slot
      /\ was[h] = None => req[h].kind \in Creating
      /\ was[h] # None => rows[slot[h]] \in Row
  BY DEF Commit, Writing, TypeInv, TypeOK, LocalsOK, Used
<1>2. new \in Row
  BY <1>1, AskedRow, WrittenRow
<1> HIDE DEF new
<1>3. rows' = [rows EXCEPT ![slot[h]] = new]
  BY DEF Commit, new
<1>4. QED
  BY <1>1, <1>2, <1>3, NoneAssumption DEF TypeInv, TypeOK, Used

\* A handler that leaves is idle, and no other handler notices.
LEMMA LeaveTypes ==
  ASSUME TypeInv, NEW h \in Handler, Leave(h), Used \subseteq Used', UNCHANGED <<sent, rowSecurity>>
  PROVE  /\ pc' \in [Handler -> {"idle", "begin", "create", "load", "write"}]
         /\ req' \in [Handler -> Request \union {None}]
         /\ slot' \in [Handler -> Slot \union {0}]
         /\ was' \in [Handler -> Row \union {None}]
         /\ \A g \in Handler : LocalsOK(g)'
<1>1. \A g \in Handler \ {h} : LocalsOK(g)'
  BY DEF TypeInv, TypeOK, LocalsOK, Writing, Hidden, Leave
<1>2. LocalsOK(h)'
  BY DEF TypeInv, TypeOK, LocalsOK, Writing, Leave
<1>3. QED
  BY <1>1, <1>2 DEF TypeInv, TypeOK, Leave

LEMMA DropTypes ==
  ASSUME TypeInv, NEW h \in Handler, pc[h] # "idle", Drop(h), Answer(h) \/ UNCHANGED answered,
         created' \subseteq Charge, faults' \in 0..MaxFaults
  PROVE  TypeInv'
<1>1. Used' = Used
  BY DEF Drop, Used
<1>2. answered' \subseteq Event
  BY DEF Answer, TypeInv, TypeOK
<1>3. QED
  BY <1>1, <1>2, LeaveTypes DEF Drop, TypeInv, TypeOK

\* Whatever is found for a request is a row in use, of Stripe's subscription when that is asked.
LEMMA FoundRows ==
  ASSUME TypeInv, NEW r \in Request, NEW i \in Found(r)
  PROVE  /\ i \in Slot /\ i # 0 /\ i \in Used /\ rows[i] \in Row /\ rows[i] # None
         /\ r.kind \in ByExt => rows[i].ext = r.id
BY NoneAssumption DEF Found, Newest, Used, Slot, TypeInv, TypeOK

\* A look into the database leaves the handler with a row, with none, or with the place of a new one.
LEMMA LoadTypes ==
  ASSUME TypeInv, NEW h \in Handler, Load(h), ~Idle(req[h])
  PROVE  \E i \in Slot \union {0}, w \in Row \union {None} :
           /\ slot' = [slot EXCEPT ![h] = i] /\ was' = [was EXCEPT ![h] = w]
           /\ w # None => /\ i \in Found(req[h]) /\ w = rows[i]
                          /\ req[h].kind # "login"
           /\ w = None => Found(req[h]) = {}
           /\ w = None /\ i # 0 => req[h].kind \in Creating /\ ~Hidden(req[h])
<1>0. req[h] \in Request /\ slot[h] = 0 /\ was[h] = None /\ req[h].kind \notin {"pay"} \union Nested
  BY DEF Load, TypeInv, LocalsOK
<1>1. CASE \E i \in Found(req[h]) : slot' = [slot EXCEPT ![h] = i] /\ was' = [was EXCEPT ![h] = rows[i]]
  <2>1. PICK i \in Found(req[h]) : slot' = [slot EXCEPT ![h] = i] /\ was' = [was EXCEPT ![h] = rows[i]]
    BY <1>1
  <2>2. i \in Slot /\ i # 0 /\ rows[i] \in Row /\ rows[i] # None
    BY <1>0, <2>1, FoundRows
  <2>3. req[h].kind # "login"
    BY <2>1 DEF Idle
  <2> USE <2>2
  <2>4. WITNESS i \in Slot \union {0}, rows[i] \in Row \union {None}
  <2>5. QED
    BY <2>1, <2>2, <2>3
<1>2. CASE Found(req[h]) = {} /\ Adds(req[h]) /\ UNCHANGED was /\ \E i \in Slot : slot' = [slot EXCEPT ![h] = i]
  <2>1. was' = [was EXCEPT ![h] = None]
    BY <1>0, <1>2 DEF TypeInv, TypeOK
  <2>2. PICK i \in Slot : slot' = [slot EXCEPT ![h] = i]
    BY <1>2
  <2>3. WITNESS i \in Slot \union {0}, None \in Row \union {None}
  <2>4. QED
    BY <1>2, <2>1, <2>2 DEF Adds
<1>3. CASE Found(req[h]) = {} /\ ~Adds(req[h]) /\ UNCHANGED <<slot, was>>
  <2>1. slot' = [slot EXCEPT ![h] = 0] /\ was' = [was EXCEPT ![h] = None]
    BY <1>0, <1>3 DEF TypeInv, TypeOK
  <2>2. QED
    BY <1>3, <2>1
<1>4. QED
  BY <1>1, <1>2, <1>3 DEF Load

LEMMA NextTypeInv == TypeInv /\ [Next]_vars => TypeInv'
<1> SUFFICES ASSUME TypeInv, [Next]_vars PROVE TypeInv'
  OBVIOUS
<1> USE BillingAssumption
<1>1. ASSUME NEW r \in Request, Issue(r) PROVE TypeInv'
  BY <1>1 DEF Issue, local, TypeInv, TypeOK, LocalsOK, Writing, Hidden, Used
<1>2. ASSUME NEW h \in Handler, NEW r \in sent, Receive(h, r) PROVE TypeInv'
  <2>1. r \in Request
    BY DEF TypeInv, TypeOK
  <2>2. TypeOK'
    BY <1>2, <2>1 DEF Receive, TypeInv, TypeOK
  <2>3. LocalsOK(h)'
    BY <1>2, <2>1 DEF Receive, TypeInv, TypeOK, LocalsOK, Writing
  <2>4. \A g \in Handler \ {h} : LocalsOK(g)'
    BY <1>2 DEF Receive, TypeInv, TypeOK, LocalsOK, Writing, Hidden, Used
  <2>5. QED
    BY <2>2, <2>3, <2>4 DEF TypeInv
<1>3. ASSUME NEW h \in Handler, Begin(h) \/ RecordFails(h) \/ InsertRefused(h) PROVE TypeInv'
  BY <1>3, DropTypes DEF Begin, RecordFails, InsertRefused, TypeInv, TypeOK
<1>4. ASSUME NEW h \in Handler, Create(h) PROVE TypeInv'
  <2>1. req[h].id \in Charge
    BY <1>4, Requests DEF Create, TypeInv, LocalsOK
  <2>2. QED
    BY <1>4, <2>1, DropTypes DEF Create, TypeInv, TypeOK
<1>5. ASSUME NEW h \in Handler, Load(h) PROVE TypeInv'
  <2>1. CASE Idle(req[h]) /\ Drop(h) /\ Answer(h)
    BY <1>5, <2>1, DropTypes DEF Load, TypeInv, TypeOK
  <2>2. CASE ~Idle(req[h])
    <3>1. /\ pc' = [pc EXCEPT ![h] = "write"]
          /\ UNCHANGED <<rowSecurity, rows, created, sent, answered, req, stale, raced, faults>>
          /\ req[h] \in Request /\ pc[h] = "load"
      BY <1>5, <2>2 DEF Load, TypeInv, LocalsOK
    <3>2. PICK i \in Slot \union {0}, w \in Row \union {None} :
            /\ slot' = [slot EXCEPT ![h] = i] /\ was' = [was EXCEPT ![h] = w]
            /\ w # None => /\ i \in Found(req[h]) /\ w = rows[i]
                           /\ req[h].kind # "login"
            /\ w = None => Found(req[h]) = {}
            /\ w = None /\ i # 0 => req[h].kind \in Creating /\ ~Hidden(req[h])
      BY <1>5, <2>2, LoadTypes
    <3>3. TypeOK'
      BY <3>1, <3>2 DEF TypeInv, TypeOK
    <3>4. Used' = Used
      BY <3>1 DEF Used
    <3>5. \A g \in Handler \ {h} : LocalsOK(g)'
      BY <3>1, <3>2, <3>4 DEF TypeInv, TypeOK, LocalsOK, Writing, Hidden
    <3>6. LocalsOK(h)'
      <4>1. w # None => i \in Used /\ (req[h].kind \in ByExt => w.ext = req[h].id)
        BY <3>1, <3>2, FoundRows
      <4>2. /\ pc'[h] = "write" /\ req'[h] = req[h] /\ slot'[h] = i /\ was'[h] = w
            /\ req[h] \in sent' /\ req[h].kind \notin {"pay"} \union Nested
        BY <3>1, <3>2 DEF TypeInv, TypeOK, LocalsOK
      <4>3. QED
        BY <3>1, <3>2, <3>4, <4>1, <4>2 DEF LocalsOK, Writing, Hidden
    <3>7. QED
      BY <3>3, <3>5, <3>6 DEF TypeInv
  <2>3. QED
    BY <1>5, <2>1, <2>2 DEF Load
<1>6. ASSUME NEW h \in Handler, Commit(h) PROVE TypeInv'
  <2>1. rows' \in [Slot -> Row \union {None}] /\ Used \subseteq Used'
    BY <1>6, CommitTypes
  <2>2. answered' \subseteq Event
    BY <1>6 DEF Commit, Answer, TypeInv, TypeOK
  <2>3. QED
    BY <1>6, <2>1, <2>2, LeaveTypes DEF Commit, TypeInv, TypeOK
<1>7. ASSUME NEW h \in Handler, Abort(h) PROVE TypeInv'
  <2>1. faults' \in 0..MaxFaults
    BY <1>7 DEF Abort, TypeInv, TypeOK
  <2>2. QED
    BY <1>7, <2>1, DropTypes DEF Abort, TypeInv, TypeOK
<1>8. CASE UNCHANGED vars
  BY <1>8 DEF vars, local, TypeInv, TypeOK, LocalsOK, Writing, Hidden, Used
<1>9. QED
  BY <1>1, <1>2, <1>3, <1>4, <1>5, <1>6, <1>7, <1>8 DEF Next, Step

\* The variables keep their types.
THEOREM TypeCorrect == Spec => []TypeOK
<1>1. Spec => []TypeInv
  BY InitTypeInv, NextTypeInv, PTL DEF Spec
<1>2. TypeInv => TypeOK
  BY DEF TypeInv
<1>3. QED
  BY <1>1, <1>2, PTL

-----------------------------------------------------------------------------
(* Checkouts that were answered *)

\* Only a commit answers a checkout, and it leaves a row.
LEMMA NextStands == TypeInv /\ AnsweredCheckoutStands /\ [Next]_vars => AnsweredCheckoutStands'
<1> SUFFICES ASSUME TypeInv, AnsweredCheckoutStands, [Next]_vars PROVE AnsweredCheckoutStands'
  OBVIOUS
<1>0. Used # {} => Used' # {}
  <2>1. ASSUME NEW h \in Handler, Commit(h) PROVE Used \subseteq Used'
    BY <2>1, CommitTypes
  <2>2. (\A h \in Handler : ~Commit(h)) => UNCHANGED rows
    BY DEF Next, Step, Issue, Receive, Begin, Create, Load, RecordFails, InsertRefused, Abort, Drop, vars
  <2>3. QED
    BY <2>1, <2>2 DEF Used
<1>1. ASSUME NEW h \in Handler, Commit(h) PROVE AnsweredCheckoutStands'
  BY <1>1, CommitTypes DEF AnsweredCheckoutStands
<1>2. ASSUME NEW h \in Handler, Answer(h), req[h].kind # "checkout" PROVE AnsweredCheckoutStands'
  BY <1>0, <1>2 DEF AnsweredCheckoutStands, Answer
<1>3. CASE UNCHANGED answered
  BY <1>0, <1>3 DEF AnsweredCheckoutStands
<1>4. ASSUME NEW h \in Handler, Load(h) PROVE AnsweredCheckoutStands'
  <2>1. Idle(req[h]) => req[h].kind # "checkout"
    BY DEF Idle, ByExt
  <2>2. QED
    BY <1>2, <1>3, <1>4, <2>1 DEF Load
<1>5. ASSUME NEW h \in Handler, RecordFails(h) PROVE AnsweredCheckoutStands'
  BY <1>2, <1>3, <1>5 DEF RecordFails
<1>6. QED
  BY <1>1, <1>3, <1>4, <1>5 DEF Next, Step, Issue, Receive, Begin, Create, InsertRefused, Abort, vars

\* Once a checkout was answered, and Stripe sends it no more, the tenant has a subscription:
\* whatever fails, repeats or overlaps, for a database with row level security and without.
THEOREM CheckoutStands == Spec => []AnsweredCheckoutStands
<1>1. Init => AnsweredCheckoutStands
  BY DEF Init, AnsweredCheckoutStands
<1>2. QED
  BY InitTypeInv, NextTypeInv, NextStands, <1>1, PTL DEF Spec

-----------------------------------------------------------------------------
(* Requests that do not overlap *)

\* What a handler has read still holds as long as nothing was written meanwhile.
Fresh(h) == ~stale[h] /\ Writing(h) => IF was[h] = None THEN Used = {} ELSE rows[slot[h]] = was[h]

\* The database and the handlers' reads before two requests have overlapped.
Alone ==
  /\ \A i, j \in Used : i = j
  /\ \A h \in Handler : Fresh(h)

IInv == TypeInv /\ (~raced => Alone)

\* With one row at most, the newest row is the row.
LEMMA OneRow ==
  ASSUME TypeInv, \A i, j \in Used : i = j, NEW k \in Used
  PROVE  Newest = {k} /\ Current = rows[k]
<1>1. Newest = {k}
  BY BillingAssumption DEF Newest, Used, Slot
<1>2. QED
  BY <1>1 DEF Current

LEMMA FoundAll ==
  ASSUME TypeInv, \A i, j \in Used : i = j, NEW r \in Request, r.kind \notin ByExt, ~Hidden(r), Found(r) = {}
  PROVE  Used = {}
BY OneRow DEF Found

\* What a handler writes whose reads still hold.
LEMMA FreshCommit ==
  ASSUME TypeInv, Alone, NEW h \in Handler, ~stale[h], Commit(h)
  PROVE  /\ \A i, j \in Used' : i = j
         /\ slot[h] \in Used' /\ rows'[slot[h]] = Asked(req[h], was[h])
         /\ IF was[h] = None THEN Used = {} ELSE slot[h] \in Used /\ rows[slot[h]] = was[h]
<1>1. /\ Writing(h) /\ slot[h] \in Slot /\ was[h] \in Row \union {None} /\ req[h] \in Request
      /\ was[h] = None => req[h].kind \in Creating
      /\ was[h] # None => slot[h] \in Used
  BY DEF Commit, Writing, TypeInv, TypeOK, LocalsOK
<1>2. IF was[h] = None THEN Used = {} ELSE rows[slot[h]] = was[h]
  BY <1>1 DEF Alone, Fresh
<1>3. Asked(req[h], was[h]) \in Row
  BY <1>1, AskedRow
<1> DEFINE new == Asked(req[h], was[h])
<1> HIDE DEF new
<1>4. Write(rows[slot[h]], was[h], new) = new
  BY <1>1, <1>2, <1>3 DEF Write, Row, new
<1>5. rows' = [rows EXCEPT ![slot[h]] = new]
  BY <1>4 DEF Commit, new
<1>6. slot[h] \in Used' /\ rows'[slot[h]] = new
  BY <1>1, <1>3, <1>5, NoneAssumption DEF Used, new, TypeInv, TypeOK
<1>7. \A i \in Used' : i = slot[h]
  BY <1>1, <1>2, <1>5 DEF Alone, Used, TypeInv, TypeOK
<1>8. QED
  BY <1>1, <1>2, <1>6, <1>7 DEF new

LEMMA InitIInv == Init => IInv
<1> SUFFICES ASSUME Init PROVE Alone
  BY InitTypeInv DEF IInv
<1>1. Used = {}
  BY DEF Init, Used
<1>2. QED
  BY <1>1 DEF Init, Alone, Fresh, Writing

LEMMA NextIInv == IInv /\ [Next]_vars => IInv'
<1> SUFFICES ASSUME IInv, [Next]_vars, ~raced' PROVE Alone'
  BY NextTypeInv DEF IInv
<1>0. TypeInv /\ TypeInv'
  BY NextTypeInv DEF IInv
<1> USE <1>0
\* Nothing else than a commit changes the rows or ends what a handler has read.
<1>d. ASSUME NEW h \in Handler, Drop(h) PROVE Alone'
  <2>1. Used' = Used /\ Alone
    BY <1>d DEF Drop, Used, IInv
  <2>2. Fresh(h)'
    BY <1>d DEF Drop, Leave, Fresh, Writing, TypeInv, TypeOK
  <2>3. \A g \in Handler \ {h} : Fresh(g)'
    BY <1>d, <2>1 DEF Drop, Leave, Alone, Fresh, Writing, Hidden, TypeInv, TypeOK
  <2>4. QED
    BY <2>1, <2>2, <2>3 DEF Alone
<1>1. ASSUME NEW r \in Request, Issue(r) PROVE Alone'
  BY <1>1 DEF Issue, local, IInv, Alone, Fresh, Writing, Hidden, Used
<1>2. ASSUME NEW h \in Handler, NEW r \in sent, Receive(h, r) PROVE Alone'
  <2>1. Used' = Used /\ Alone
    BY <1>2 DEF Receive, Used, IInv
  <2>2. Fresh(h)'
    BY <1>2 DEF Receive, Fresh, Writing, TypeInv, TypeOK
  <2>3. \A g \in Handler \ {h} : Fresh(g)'
    BY <1>2, <2>1 DEF Receive, Alone, Fresh, Writing, Hidden, TypeInv, TypeOK
  <2>4. QED
    BY <2>1, <2>2, <2>3 DEF Alone
<1>3. ASSUME NEW h \in Handler, Load(h) PROVE Alone'
  <2>1. CASE Idle(req[h]) /\ Drop(h)
    BY <2>1, <1>d
  <2>2. CASE ~Idle(req[h])
    <3>1. /\ pc' = [pc EXCEPT ![h] = "write"] /\ req[h] \in Request /\ Alone
          /\ UNCHANGED <<rowSecurity, rows, req, stale, raced>>
      BY <1>3, <2>2 DEF Load, IInv, TypeInv, LocalsOK
    <3>2. PICK i \in Slot \union {0}, w \in Row \union {None} :
            /\ slot' = [slot EXCEPT ![h] = i] /\ was' = [was EXCEPT ![h] = w]
            /\ w # None => i \in Found(req[h]) /\ w = rows[i]
            /\ w = None => Found(req[h]) = {}
            /\ w = None /\ i # 0 => req[h].kind \in Creating /\ ~Hidden(req[h])
      BY <1>3, <2>2, LoadTypes
    <3>3. Used' = Used
      BY <3>1 DEF Used
    <3>4. \A g \in Handler \ {h} : Fresh(g)'
      BY <3>1, <3>2, <3>3 DEF Alone, Fresh, Writing, Hidden, TypeInv, TypeOK
    <3>5. Fresh(h)'
      <4>1. pc'[h] = "write" /\ req'[h] = req[h] /\ slot'[h] = i /\ was'[h] = w
        BY <3>1, <3>2 DEF TypeInv, TypeOK
      <4>2. w = None /\ i # 0 => Used = {}
        BY <3>1, <3>2, FoundAll DEF Creating, ByExt, Alone
      <4>3. QED
        BY <3>1, <3>2, <3>3, <4>1, <4>2 DEF Fresh, Writing, Hidden
    <3>6. QED
      BY <3>1, <3>3, <3>4, <3>5 DEF Alone
  <2>3. QED
    BY <1>3, <2>1, <2>2 DEF Load
\* Whoever has read what a commit changes is stale after it.
<1>4. ASSUME NEW h \in Handler, Commit(h) PROVE Alone'
  <2>1. ~raced /\ ~stale[h] /\ Alone
    BY <1>4 DEF Commit, IInv
  <2>2. \A i, j \in Used' : i = j
    BY <1>4, <2>1, FreshCommit
  <2>3. ASSUME NEW g \in Handler, g # h, ~stale'[g], Writing(g)' PROVE Fresh(g)'
    <3>1. /\ pc'[g] = pc[g] /\ req'[g] = req[g] /\ slot'[g] = slot[g] /\ was'[g] = was[g]
          /\ rowSecurity' = rowSecurity
      BY <1>4, <2>3 DEF Commit, Leave, TypeInv, TypeOK
    <3>2. Writing(g)
      BY <2>3, <3>1 DEF Writing, Hidden
    <3>3. ~stale[g] /\ rows' = rows
      <4>1. stale'[g] = (g # h /\ (stale[g] \/ (pc[g] = "write" /\ rows' # rows)))
        BY <1>4 DEF Commit
      <4>2. QED
        BY <2>3, <3>2, <4>1 DEF Writing
    <3>4. Used' = Used
      BY <3>3 DEF Used
    <3>5. QED
      BY <2>1, <3>1, <3>2, <3>3, <3>4 DEF Alone, Fresh
  <2>4. Fresh(h)'
    BY <1>4 DEF Commit, Leave, Fresh, Writing, TypeInv, TypeOK
  <2>5. QED
    BY <2>2, <2>3, <2>4 DEF Alone, Fresh
<1>5. CASE UNCHANGED vars
  BY <1>5 DEF vars, local, IInv, Alone, Fresh, Writing, Hidden, Used
<1>6. QED
  BY <1>d, <1>1, <1>2, <1>3, <1>4, <1>5
  DEF Next, Step, Begin, Create, RecordFails, InsertRefused, Abort

\* The tenant has one subscription at most until two requests have overlapped.
THEOREM OneSubscription == Spec => []OneSubscriptionUnlessRaced
<1>1. IInv => OneSubscriptionUnlessRaced
  <2> SUFFICES ASSUME IInv, ~raced PROVE Cardinality(Used) <= 1
    BY DEF OneSubscriptionUnlessRaced
  <2>1. CASE Used = {}
    BY <2>1, FS_EmptySet
  <2>2. CASE \E k \in Used : Used = {k}
    BY <2>2, FS_Singleton
  <2>3. QED
    BY <2>1, <2>2 DEF IInv, Alone
<1>2. QED
  BY <1>1, InitIInv, NextIInv, PTL DEF Spec

-----------------------------------------------------------------------------
(* Requests that do not overlap implement Subscription *)

LEMMA InitIdeal == Init => Ideal!Init
<1> SUFFICES ASSUME Init PROVE Ideal!Init
  OBVIOUS
<1>1. Used = {}
  BY DEF Init, Used
<1>2. QED
  BY <1>1 DEF Init, Ideal!Init

\* A commit whose reads still hold is a trial, a checkout or a report followed.
LEMMA CommitIdeal ==
  ASSUME IInv, IInv', NEW h \in Handler, Commit(h), ~raced'
  PROVE  Ideal!Next
<1> DEFINE r == req[h]
           status == IF Used = {} THEN "none" ELSE Current.status
           ext == IF Used = {} THEN None ELSE Current.ext
<1>1. /\ ~raced /\ ~stale[h] /\ TypeInv /\ TypeInv' /\ Alone /\ Alone' /\ UNCHANGED <<sent, raced>>
      /\ r \in sent /\ r \in Request /\ Writing(h)
  <2>1. ~raced /\ ~stale[h] /\ raced' = raced
    BY DEF Commit, IInv, TypeInv, TypeOK
  <2>2. r \in sent /\ r \in Request /\ Writing(h) /\ sent' = sent
    BY DEF Commit, Writing, IInv, TypeInv, LocalsOK
  <2>3. QED
    BY <2>1, <2>2 DEF IInv
<1>2. /\ slot[h] \in Used' /\ rows'[slot[h]] = Asked(r, was[h])
      /\ IF was[h] = None THEN Used = {} ELSE slot[h] \in Used /\ rows[slot[h]] = was[h]
  BY <1>1, FreshCommit
<1>3. /\ r.kind \in Creating \union {"failed", "deleted", "updated", "canceled"}
      /\ was[h] = None => r.kind \in Creating
      /\ was[h] # None => r.kind # "login" /\ (r.kind \in ByExt => was[h].ext = r.id)
      /\ was[h] \in Row \union {None}
  BY <1>1, Requests DEF Writing, TypeInv, TypeOK, LocalsOK, Creating, Raising, ByExt, Nested
<1>4. /\ was[h] = None => status = "none" /\ ext = None
      /\ was[h] # None => status = was[h].status /\ ext = was[h].ext
  BY <1>1, <1>2, OneRow DEF Alone
<1>5. status' = Asked(r, was[h]).status /\ ext' = Asked(r, was[h]).ext
  <2>1. Used' # {} /\ Current' = Asked(r, was[h])
    <3>1. Newest' = {slot[h]}
      BY <1>1, <1>2, BillingAssumption DEF Alone, Newest, Used, Slot
    <3>2. Current' = rows'[slot[h]]
      BY <3>1 DEF Current
    <3>3. QED
      BY <1>2, <3>2
  <2>2. QED
    BY <2>1
<1>6. CASE r.kind \in Creating
  <2>1. status' = r.to /\ ext' = r.id
    BY <1>5, <1>6 DEF Asked, New
  <2>2. CASE r.kind = "login"
    <3>1. status = "none" /\ ext' = ext
      BY <1>1, <1>3, <1>4, <2>1, <2>2, Requests
    <3>2. Ideal!Trial(r)
      BY <2>1, <2>2, <3>1 DEF Ideal!Trial
    <3>3. QED
      BY <1>1, <3>2 DEF Ideal!Next
  <2>3. CASE r.kind = "checkout"
    <3>1. Ideal!Activate(r)
      BY <2>1, <2>3 DEF Ideal!Activate
    <3>2. QED
      BY <1>1, <3>1 DEF Ideal!Next
  <2>4. QED
    BY <1>6, <2>2, <2>3 DEF Creating
<1>7. CASE r.kind \in {"failed", "deleted", "updated"}
  <2>1. was[h] # None /\ was[h] \in Row /\ r.kind \notin Creating /\ r.kind \in ByExt
    BY <1>3, <1>7 DEF Creating, ByExt
  <2>2. Asked(r, was[h]) = [was[h] EXCEPT !.status = r.to]
    BY <1>7, <2>1 DEF Asked, Spared
  <2>3. status' = r.to /\ ext' = was[h].ext
    BY <1>5, <2>1, <2>2 DEF Row
  <2>4. status # "none" /\ ext = r.id /\ ext' = ext
    BY <1>3, <1>4, <2>1, <2>3 DEF Row, Status
  <2>5. Ideal!Follow(r)
    BY <1>7, <2>3, <2>4 DEF Ideal!Follow
  <2>6. QED
    BY <1>1, <2>5 DEF Ideal!Next
<1>8. CASE r.kind = "canceled"
  <2>1. was[h] # None /\ was[h] \in Row /\ r.kind \notin Creating
    BY <1>3, <1>8 DEF Creating
  <2>2. CASE Spared(r, was[h])
    <3>1. UNCHANGED <<status, ext>>
      BY <1>4, <1>5, <2>1, <2>2 DEF Asked
    <3>2. sent' = sent \union {r}
      BY <1>1
    <3>3. QED
      BY <1>1, <3>1, <3>2 DEF Ideal!Next
  <2>3. CASE ~Spared(r, was[h])
    <3>1. Asked(r, was[h]) = [was[h] EXCEPT !.status = r.to]
      BY <2>1, <2>3 DEF Asked
    <3>2. status' = r.to /\ ext' = ext /\ status \notin {"none", "active"}
      BY <1>4, <1>5, <1>8, <2>1, <2>3, <3>1 DEF Row, Status, Spared
    <3>3. Ideal!Lapse(r)
      BY <1>8, <3>2 DEF Ideal!Lapse
    <3>4. QED
      BY <1>1, <3>3 DEF Ideal!Next
  <2>4. QED
    BY <2>2, <2>3
<1>9. QED
  BY <1>3, <1>6, <1>7, <1>8

\* Every step is a step of Subscription or leaves its variables alone.
LEMMA NextIdeal == IInv /\ IInv' /\ [Next]_vars => [Ideal!Next]_(Ideal!vars)
<1> SUFFICES ASSUME IInv, IInv', [Next]_vars PROVE [Ideal!Next]_(Ideal!vars)
  OBVIOUS
<1>u. UNCHANGED rows => UNCHANGED <<Used, Newest, Current>>
  BY DEF Current, Newest, Used
<1>s. UNCHANGED <<sent, rows, raced>> => [Ideal!Next]_(Ideal!vars)
  BY <1>u DEF Ideal!vars
<1>1. ASSUME NEW r \in Request, Issue(r) PROVE [Ideal!Next]_(Ideal!vars)
  BY <1>1, <1>u DEF Issue, Ideal!Next
<1>2. ASSUME NEW h \in Handler, Commit(h) PROVE [Ideal!Next]_(Ideal!vars)
  <2>1. CASE raced'
    BY <2>1 DEF Ideal!Next
  <2>2. CASE ~raced'
    BY <1>2, <2>2, CommitIdeal
  <2>3. QED
    BY <2>1, <2>2
<1>3. (\A r \in Request : ~Issue(r)) /\ (\A h \in Handler : ~Commit(h)) => UNCHANGED <<sent, rows, raced>>
  BY DEF Next, Step, Receive, Begin, Create, Load, RecordFails, InsertRefused, Abort, Drop, vars
<1>4. QED
  BY <1>s, <1>1, <1>2, <1>3

\* As long as requests do not overlap, the service implements Subscription: late, repeated and
\* failed requests change the tenant's subscription only as a trial, a checkout, a report about that
\* same Stripe subscription or, unless it is active, a payment that fell through does.
THEOREM Implements == Spec => ImplementsSubscription
<1>1. IInv /\ IInv' /\ [Next]_vars => [Ideal!Next]_(Ideal!vars)
  BY NextIdeal
<1>2. Spec => []IInv
  BY InitIInv, NextIInv, PTL DEF Spec
<1>3. QED
  BY <1>1, <1>2, InitIdeal, PTL DEF Spec, ImplementsSubscription, Ideal!Spec
=============================================================================

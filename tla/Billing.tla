------------------------------- MODULE Billing -------------------------------
(***************************************************************************)
(* core/billing_service.py, its endpoints in ops_api.py and the trial that *)
(* core/web_auth.py gives when a profile is completed: the subscription    *)
(* rows of one tenant, its requests and the webhooks of Stripe and         *)
(* YooKassa.                                                               *)
(*                                                                         *)
(* A request runs in one transaction, under Postgres's READ COMMITTED.  An *)
(* action is its look into the database, or its writes with their commit:  *)
(* the ORM writes only the columns whose value differs from the one it has *)
(* loaded.  A webhook may arrive late, out of order and, until it is       *)
(* answered or by mistake afterwards, again.                               *)
(*                                                                         *)
(* The table payments stays empty: record_payment() (RecordFails) is the   *)
(* only one that writes it.  So the look for a payment already recorded    *)
(* (_payment_event_exists) finds none, and is left out, as are plans,      *)
(* periods, e-mails, the audit table and the notice of a refund.           *)
(***************************************************************************)
EXTENDS Naturals, FiniteSets

CONSTANTS
  Handler,   \* requests the server works on at the same time
  StripeSub, \* Stripe's ids of subscriptions
  Charge,    \* YooKassa's ids of payments
  None,
  Updates,   \* bound: the statuses Stripe reports in customer.subscription.updated
  MaxRows,   \* bound: rows of the tenant, no fewer than the handlers
  MaxSent,   \* bound: different requests made
  MaxFaults  \* bound: transactions that fail

ASSUME BillingAssumption ==
  /\ StripeSub \intersect Charge = {}
  /\ MaxRows \in Nat /\ MaxSent \in Nat /\ MaxFaults \in Nat

Status == {"trialing", "active", "past_due", "cancelled"}
Req(kinds, ids, to) == [kind : kinds, id : ids, to : to]

\* What a tenant calls, and what the providers report; each is meant to lead to a status.  One
\* "direct" call stands for the three endpoints that start a trial, subscribe and cancel.
Call  == Req({"login"}, {None}, {"trialing"}) \union Req({"pay"}, Charge, {"active"})
         \union Req({"direct"}, {None}, {"active"})
Event == Req({"checkout", "paid"}, StripeSub, {"active"}) \union Req({"failed"}, StripeSub, {"past_due"})
         \union Req({"deleted"}, StripeSub, {"cancelled"}) \union Req({"updated"}, StripeSub, Updates \intersect Status)
         \union Req({"succeeded"}, Charge, {"active"}) \union Req({"canceled"}, Charge, {"past_due"})
Request == Call \union Event

Row  == [status : Status, ext : StripeSub \union {None}]
Slot == 1..MaxRows

ASSUME NoneAssumption == None \notin Row \union Request \union StripeSub \union Charge

VARIABLES
  rowSecurity, \* the database's role is subject to row level security, as docker/postgres/init makes
               \* it; not on a volume from before that (README.md:293)
  rows,     \* the tenant's rows of subscriptions, in the order of created_at
  created,  \* charges YooKassa knows
  sent,     \* calls made and events reported
  answered, \* events received that the webhook has answered with success
  pc, req,  \* where a handler is, and with which request
  slot,     \* the row it has found or will add; 0: none
  was,      \* that row as it was read
  stale,    \* the rows have changed since the handler read
  raced,    \* a transaction has committed although it was stale
  faults

local == <<pc, req, slot, was>>
vars  == <<rowSecurity, rows, created, sent, answered, local, stale, raced, faults>>

Init ==
  /\ rowSecurity \in BOOLEAN
  /\ rows = [i \in Slot |-> None]
  /\ created = {} /\ sent = {} /\ answered = {}
  /\ pc = [h \in Handler |-> "idle"] /\ req = [h \in Handler |-> None]
  /\ slot = [h \in Handler |-> 0] /\ was = [h \in Handler |-> None]
  /\ stale = [h \in Handler |-> FALSE] /\ raced = FALSE
  /\ faults = 0

-----------------------------------------------------------------------------
(* Requests *)

Creating == {"login", "checkout"}
ByExt    == {"paid", "failed", "deleted", "updated"}
Nested   == {"direct"}                              \* a session.begin() within another
Recorded == {"paid", "succeeded", "canceled"}       \* these call record_payment()
Raising  == {"paid", "succeeded"}                   \* and hand its exception on

\* The tenant asks, or a provider reports what has happened there.
Issue(r) ==
  /\ r \notin sent /\ Cardinality(sent) < MaxSent
  /\ r.kind \in ByExt => \E c \in sent : c.kind = "checkout" /\ c.id = r.id
  /\ r.kind \in {"succeeded", "canceled"} =>
       r.id \in created /\ \A o \in sent : o.id = r.id => o.kind = "pay"
  /\ sent' = sent \union {r}
  /\ UNCHANGED <<rowSecurity, rows, created, answered, local, stale, raced, faults>>

\* Anything may come again, but every create_yookassa_payment() makes a new charge.
Receive(h, r) ==
  /\ pc[h] = "idle"
  /\ r \in sent
  /\ r.kind = "pay" => r.id \notin created /\ \A g \in Handler : req[g] # r
  /\ req' = [req EXCEPT ![h] = r]
  /\ pc' = [pc EXCEPT ![h] = CASE r.kind = "pay" -> "create" [] r.kind \in Nested -> "begin"
                               [] OTHER -> "load"]
  /\ UNCHANGED <<rowSecurity, rows, created, sent, answered, slot, was, stale, raced, faults>>

\* The handler is done with its request and has changed nothing.
Leave(h) ==
  /\ pc' = [pc EXCEPT ![h] = "idle"]
  /\ req' = [req EXCEPT ![h] = None]
  /\ slot' = [slot EXCEPT ![h] = 0]
  /\ was' = [was EXCEPT ![h] = None]

Drop(h) ==
  /\ Leave(h)
  /\ stale' = [stale EXCEPT ![h] = FALSE]
  /\ UNCHANGED <<rowSecurity, rows, sent, raced>>

Answer(h) == answered' = answered \union ({req[h]} \intersect Event)

\* The endpoints of the tenant begin a transaction in the one tenant_session() has begun:
\* InvalidRequestError, and nothing is done.
Begin(h) ==
  /\ pc[h] = "begin"
  /\ Drop(h)
  /\ UNCHANGED <<created, answered, faults>>

\* create_yookassa_payment(): YooKassa has the payment; record_payment() raises, which is
\* swallowed, and the payment page is returned.
Create(h) ==
  /\ pc[h] = "create"
  /\ created' = created \union {req[h].id}
  /\ Drop(h)
  /\ UNCHANGED <<answered, faults>>

-----------------------------------------------------------------------------
(* Reads *)

Used   == {i \in Slot : rows[i] # None}
Newest == {i \in Used : \A j \in Used : j <= i}

\* Webhooks do not set app.tenant_id: with row level security they see no row and may add none.
Hidden(r) == rowSecurity /\ r \in Event

\* Mutant: a subscription that was cancelled is not looked at.
FoundLive(r) == {i \in Newest : ~Hidden(r) /\ rows[i].status # "cancelled"}

\* get_subscription(), or the webhook's own query by external_subscription_id.
Found(r) ==
  CASE Hidden(r)                           -> {}
    [] ~Hidden(r) /\ r.kind \in ByExt      -> {i \in Used : rows[i].ext = r.id}
    [] ~Hidden(r) /\ r.kind \notin ByExt   -> Newest

Taken == Used \union {slot[g] : g \in Handler}

\* Without a subscription there is nothing to do for these, with one nothing for a login.
Idle(r) == IF Found(r) = {} THEN r.kind \in ByExt ELSE r.kind = "login"

\* A row is added for these; the database will refuse it when it is hidden from them.
Adds(r) == r.kind \in Creating /\ ~Hidden(r)

Load(h) ==
  /\ pc[h] = "load"
  /\ \/ Idle(req[h]) /\ Drop(h) /\ Answer(h)
     \/ /\ ~Idle(req[h])
        /\ \/ \E i \in Found(req[h]) : slot' = [slot EXCEPT ![h] = i] /\ was' = [was EXCEPT ![h] = rows[i]]
           \/ /\ Found(req[h]) = {} /\ Adds(req[h])
              /\ \E i \in Slot : /\ \A j \in Taken : j < i
                                 /\ \A k \in 1..i-1 : \E j \in Taken : k <= j
                                 /\ slot' = [slot EXCEPT ![h] = i]
              /\ UNCHANGED was
           \/ Found(req[h]) = {} /\ ~Adds(req[h]) /\ UNCHANGED <<slot, was>>
        /\ pc' = [pc EXCEPT ![h] = "write"]
        /\ UNCHANGED <<rowSecurity, rows, sent, answered, req, stale, raced>>
  /\ UNCHANGED <<created, faults>>

-----------------------------------------------------------------------------
(* Writes *)

New(r) == [status |-> r.to, ext |-> r.id]

\* A cancelled payment leaves an active subscription alone.
Spared(r, old) == r.kind = "canceled" /\ old.status = "active"

\* Mutant: Stripe's word for the status is stored as it comes.
AskedVerbatim(r, old) ==
  IF r.kind \in Creating THEN New(r)
  ELSE IF Spared(r, old) THEN old
  ELSE [old EXCEPT !.status = IF r.kind = "updated" /\ r.to = "cancelled" THEN "canceled" ELSE r.to]

\* Mutant: a payment that fell through takes the access away that another has paid for.
AskedAlways(r, old) == IF r.kind \in Creating THEN New(r) ELSE [old EXCEPT !.status = r.to]

\* The row the handler has made of the one it read.
Asked(r, old) ==
  IF r.kind \in Creating THEN New(r)
  ELSE IF Spared(r, old) THEN old
  ELSE [old EXCEPT !.status = r.to]

\* Only the columns that differ from the row read are written.
Write(cur, old, new) ==
  IF old = None THEN new
  ELSE [status |-> IF new.status = old.status THEN cur.status ELSE new.status,
        ext    |-> IF new.ext = old.ext THEN cur.ext ELSE new.ext]

Commit(h) ==
  /\ pc[h] = "write" /\ slot[h] # 0 /\ req[h].kind \notin Raising
  /\ rows' = [rows EXCEPT ![slot[h]] = Write(@, was[h], Asked(req[h], was[h]))]
  /\ Leave(h)
  /\ Answer(h)
  /\ stale' = [g \in Handler |-> g # h /\ (stale[g] \/ (pc[g] = "write" /\ rows' # rows))]
  /\ raced' = (raced \/ stale[h])
  /\ UNCHANGED <<rowSecurity, created, sent, faults>>

\* record_payment() raises: the cast in its INSERT keeps a parameter from being bound.  The report of
\* a cancelled payment is answered all the same, as its handler swallows the exception; the new
\* status is lost here if Postgres has rejected the INSERT, which ends the transaction, and is
\* committed (Commit) if SQLAlchemy has, which leaves it alone.
RecordFails(h) ==
  /\ pc[h] = "write" /\ req[h].kind \in Recorded
  /\ Drop(h)
  /\ IF req[h].kind = "canceled" THEN Answer(h) ELSE UNCHANGED answered
  /\ UNCHANGED <<created, faults>>

\* The INSERT of a checkout violates the policy of row level security.
InsertRefused(h) ==
  /\ pc[h] = "write" /\ req[h].kind \notin Recorded /\ Hidden(req[h])
  /\ Drop(h)
  /\ UNCHANGED <<created, answered, faults>>

\* Mutant: success is answered whatever happens.
AbortAnswered(h) ==
  /\ pc[h] # "idle"
  /\ faults < MaxFaults /\ faults' = faults + 1
  /\ Drop(h) /\ Answer(h)
  /\ UNCHANGED created

\* An exception or the end of the process: rolled back, no answer.
Abort(h) ==
  /\ pc[h] # "idle"
  /\ faults < MaxFaults /\ faults' = faults + 1
  /\ Drop(h)
  /\ UNCHANGED <<created, answered>>

-----------------------------------------------------------------------------

Step(h) == Begin(h) \/ Create(h) \/ Load(h) \/ Commit(h) \/ RecordFails(h) \/ InsertRefused(h)

Next ==
  \/ \E r \in Request : Issue(r)
  \/ \E h \in Handler : \/ \E r \in sent : Receive(h, r)
                        \/ Step(h) \/ Abort(h)

\* A provider repeats an event until it is answered.
Retry(r) == r \notin answered /\ \E h \in Handler : Receive(h, r)

Spec == Init /\ [][Next]_vars

Checkout == {r \in Event : r.kind = "checkout"}
FairSpec == /\ Spec
            /\ \A h \in Handler : WF_vars(Step(h))
            /\ \A r \in Checkout : SF_vars(Retry(r))

-----------------------------------------------------------------------------
(* Properties *)

\* The types of the variables.
TypeOK ==
  /\ rowSecurity \in BOOLEAN
  /\ rows \in [Slot -> Row \union {None}]
  /\ created \subseteq Charge /\ sent \subseteq Request /\ answered \subseteq Event
  /\ pc \in [Handler -> {"idle", "begin", "create", "load", "write"}]
  /\ req \in [Handler -> Request \union {None}]
  /\ slot \in [Handler -> Slot \union {0}]
  /\ was \in [Handler -> Row \union {None}]
  /\ stale \in [Handler -> BOOLEAN] /\ raced \in BOOLEAN
  /\ faults \in 0..MaxFaults

\* create_subscription() and the trial of a completed profile look for a subscription before they
\* add one (billing_service.py:165, 251, web_auth.py:303): a tenant has two only after two requests
\* have overlapped.
OneSubscriptionUnlessRaced == Cardinality(Used) <= 1 \/ raced

\* A checkout that was answered, and is not repeated therefore, has left the tenant a subscription
\* (billing_service.py:890), whatever failed, overlapped or came late.
AnsweredCheckoutStands == (\E r \in answered : r.kind = "checkout") => Used # {}

\* As long as requests do not overlap, the subscription changes as Subscription says: a Stripe event
\* about another subscription than the tenant's, a payment that came through and a call of a dead
\* endpoint leave it alone, and one that fell through does when it is active
\* (billing_service.py:1039), through failures and late or repeated reports.
Current == rows[CHOOSE i \in Newest : TRUE]
Ideal == INSTANCE Subscription WITH
           status <- IF Used = {} THEN "none" ELSE Current.status,
           ext    <- IF Used = {} THEN None ELSE Current.ext
ImplementsSubscription == Ideal!Spec

\* A checkout that Stripe reports leads to a subscription in the end, through failed transactions
\* and lost answers.  With row level security it never does (InsertRefused), against the tenant who
\* paid; nor does Stripe get the answer that ops_api.py:9623 promises.
CheckoutLands == \A r \in Checkout : r \in sent /\ ~rowSecurity ~> Used # {}
=============================================================================

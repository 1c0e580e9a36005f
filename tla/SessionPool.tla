----------------------------- MODULE SessionPool -----------------------------
(***************************************************************************)
(* The pool of Telegram clients of core/session_pool.py and its callers in *)
(* one event loop: core/warmup_engine.py (get_client, release_client) and  *)
(* core/farm_thread.py (try_get_cached, try_release_cached).               *)
(*                                                                         *)
(* A task that runs goes on, action by action, until it waits for the      *)
(* network, the database or a lock that is taken (Suspended).  _pool_lock  *)
(* is held over an await in one place only (the rejection in get_client),  *)
(* so it appears as a guard and is taken there.  A lock or a client is a   *)
(* pair of its account and a number, used again when nothing refers to it  *)
(* any more.                                                               *)
(***************************************************************************)
EXTENDS Naturals, FiniteSets

CONSTANTS
  Account,
  Task,             \* the coroutines that call the pool
  Nobody,
  MaxConcurrent,    \* max_concurrent
  MaxAccountLocks,  \* _MAX_ACCOUNT_LOCKS
  MaxClients,       \* bound: clients of one account that exist at once
  MaxMishaps        \* bound: an error leaves a client behind only after fewer left behind or
                    \* locks replaced

Client == Account \X (1..MaxClients)
Lock   == Account \X (1..Cardinality(Task))

ASSUME PoolAssumption ==
  /\ Nobody \notin Task /\ Nobody \notin Client /\ Nobody \notin Lock
  /\ MaxConcurrent \in Nat /\ MaxAccountLocks \in Nat /\ MaxClients \in Nat /\ MaxMishaps \in Nat
  /\ IsFiniteSet(Account) /\ IsFiniteSet(Task)

VARIABLES
  pool,        \* _pool: the client of each account's entry, or Nobody
  inUse,       \* the clients whose entry is IN_USE
  lockOf,      \* _account_locks: the lock of each account, or Nobody
  holder,      \* who holds each account lock
  poolLock,    \* who holds _pool_lock over an await
  up,          \* the connected clients
  running,     \* the task the event loop is running, or Nobody
  pc, op,      \* where each task is, and in which call
  arg,         \* the account it is about
  lock,        \* the account lock it holds or waits for
  client,      \* the client it works with
  todo,        \* the accounts its sweep has still to disconnect
  replaced,    \* the accounts that got a new lock while a task still had the old one
  leaked       \* the connected clients an error left behind: a connect() or an authorization check
               \* that raised, a disconnect() that failed

locks == <<lockOf, holder, poolLock>>
tasks == <<pc, op, arg, lock, client, todo>>
vars  == <<pool, inUse, locks, up, running, tasks, replaced, leaked>>

Init ==
  /\ pool = [a \in Account |-> Nobody]
  /\ inUse = {}
  /\ lockOf = [a \in Account |-> Nobody]
  /\ holder = [l \in Lock |-> Nobody]
  /\ poolLock = Nobody
  /\ up = {}
  /\ running = Nobody
  /\ pc = [t \in Task |-> "idle"]
  /\ op = [t \in Task |-> "none"]
  /\ arg = [t \in Task |-> Nobody]
  /\ lock = [t \in Task |-> Nobody]
  /\ client = [t \in Task |-> Nobody]
  /\ todo = [t \in Task |-> {}]
  /\ replaced = {} /\ leaked = {}

Pooled == {a \in Account : pool[a] # Nobody}
Goto(t, l) == pc' = [pc EXCEPT ![t] = l]
Handle(t, c) == client' = [client EXCEPT ![t] = c]

\* The task leaves "async with account_lock".
Unlock(t) ==
  /\ holder' = [holder EXCEPT ![lock[t]] = Nobody]
  /\ lock' = [lock EXCEPT ![t] = Nobody]

\* The task's call, or its use of a client, is over.
Finish(t) ==
  /\ Goto(t, "idle")
  /\ op' = [op EXCEPT ![t] = "none"]
  /\ arg' = [arg EXCEPT ![t] = Nobody]
  /\ Handle(t, Nobody)

\* A call of get_client() raises.
Raise(t) == Unlock(t) /\ Finish(t)

MishapsLeft == Cardinality(leaked) + Cardinality(replaced) < MaxMishaps

\* The task's client stays connected and nobody refers to it any more.
Abandon(t) ==
  /\ MishapsLeft
  /\ leaked' = leaked \union ({client[t]} \intersect up)

\* client.disconnect(): its errors are swallowed, whether it has closed the connection or not.
Hangup(t) ==
  \/ up' = up \ {client[t]} /\ UNCHANGED leaked
  \/ Abandon(t) /\ UNCHANGED up

\* The task is between two calls, or in an await that has to wait.  It waits for a free lock,
\* too, if others wait already; which of them is woken first is left open.
Suspended(t) ==
  LET Others(labels) == {u \in Task \ {t} : pc[u] \in labels} IN
    \/ pc[t] \in {"idle", "reconnect", "verify", "close", "connect", "authorize", "reject", "using",
                 "cached"}
    \/ /\ pc[t] \in {"lookup", "evict", "insert"}
       /\ poolLock # Nobody \/ Others({"lookup", "evict", "insert"}) # {}
    \/ /\ pc[t] = "wait"
       /\ holder[lock[t]] # Nobody \/ \E u \in Others({"wait"}) : lock[u] = lock[t]

\* The event loop runs one task at a time, as far as it gets.
Scheduled(t) ==
  /\ running \in {Nobody, t}
  /\ running' = IF Suspended(t)' THEN Nobody ELSE t

-----------------------------------------------------------------------------
(* The calls *)

GetClient(t, a) ==
  /\ pc[t] = "idle"
  /\ Goto(t, "lookup")
  /\ op' = [op EXCEPT ![t] = "get"]
  /\ arg' = [arg EXCEPT ![t] = a]
  /\ UNCHANGED <<pool, inUse, locks, up, lock, client, todo, replaced, leaked>>
  /\ Scheduled(t)

\* disconnect_client() of one account, evict_idle_clients() of those idle too long, or
\* disconnect_all(): which accounts is decided here, before the first of them is locked.
Disconnect(t, S) ==
  /\ pc[t] = "idle"
  /\ poolLock = Nobody
  /\ Goto(t, "sweep")
  /\ op' = [op EXCEPT ![t] = "disconnect"]
  /\ todo' = [todo EXCEPT ![t] = S]
  /\ UNCHANGED <<pool, inUse, locks, up, arg, lock, client, replaced, leaked>>
  /\ Scheduled(t)

IdleEntries == {a \in Pooled : pool[a] \notin inUse}

SweepNext(t) ==
  /\ pc[t] = "sweep"
  /\ \/ todo[t] = {} /\ Finish(t) /\ UNCHANGED todo
     \/ \E a \in todo[t] :
          /\ Goto(t, "lookup")
          /\ arg' = [arg EXCEPT ![t] = a]
          /\ todo' = [todo EXCEPT ![t] = @ \ {a}]
          /\ UNCHANGED <<op, client>>
  /\ UNCHANGED <<pool, inUse, locks, up, lock, replaced, leaked>>
  /\ Scheduled(t)

\* Mutant: no entry is not told from an idle one.
TryGetCachedAnyway(t, a) ==
  /\ pc[t] = "idle"
  /\ Goto(t, "cached")
  /\ arg' = [arg EXCEPT ![t] = a]
  /\ Handle(t, pool[a])
  /\ inUse' = inUse \union {pool[a]}
  /\ UNCHANGED <<pool, locks, up, op, lock, todo, replaced, leaked>>
  /\ Scheduled(t)

\* try_get_cached(), in one go: an idle client, or none and the caller goes on without the pool.
TryGetCached(t, a) ==
  /\ pc[t] = "idle"
  /\ Goto(t, "cached")
  /\ arg' = [arg EXCEPT ![t] = a]
  /\ IF a \in IdleEntries
     THEN Handle(t, pool[a]) /\ inUse' = inUse \union {pool[a]}
     ELSE UNCHANGED <<client, inUse>>
  /\ UNCHANGED <<pool, locks, up, op, lock, todo, replaced, leaked>>
  /\ Scheduled(t)

\* release_client() and try_release_cached(): whatever entry the account has by now.
Release(t) ==
  /\ \/ pc[t] = "using" /\ poolLock = Nobody
     \/ pc[t] = "cached"
  /\ inUse' = inUse \ {pool[arg[t]]}
  /\ Finish(t)
  /\ UNCHANGED <<pool, locks, up, lock, todo, replaced, leaked>>
  /\ Scheduled(t)

-----------------------------------------------------------------------------
(* get_client() and disconnect_client() under the account lock *)

Locked == {a \in Account : lockOf[a] # Nobody}

\* The accounts _get_account_lock() forgets when there are too many locks.
Stale ==
  IF Cardinality(Locked) < MaxAccountLocks THEN {}
  ELSE {a \in Locked \ Pooled : holder[lockOf[a]] = Nobody}

\* The asyncio.Lock objects made for an account, told apart by numbers.
LocksOf(a) == {a} \X (1..Cardinality(Task))

\* _get_account_lock()
LookUp(t) ==
  /\ pc[t] = "lookup"
  /\ poolLock = Nobody
  /\ \/ /\ arg[t] \in Locked
        /\ lock' = [lock EXCEPT ![t] = lockOf[arg[t]]]
        /\ UNCHANGED <<lockOf, replaced>>
     \/ /\ arg[t] \notin Locked
        /\ LET new == CHOOSE l \in LocksOf(arg[t]) : \A u \in Task : lock[u] # l IN
             /\ lock' = [lock EXCEPT ![t] = new]
             /\ lockOf' = [a \in Account |-> IF a = arg[t] THEN new
                                             ELSE IF a \in Stale THEN Nobody ELSE lockOf[a]]
        /\ replaced' = replaced \union {a \in {arg[t]} : \E u \in Task : lock[u] \in LocksOf(a)}
  /\ Goto(t, "wait")
  /\ UNCHANGED <<pool, inUse, holder, poolLock, up, op, arg, client, todo, leaked>>
  /\ Scheduled(t)

\* Mutant: the account lock is not waited for.
AcquireAnyway(t) ==
  /\ pc[t] = "wait"
  /\ holder' = [holder EXCEPT ![lock[t]] = t]
  /\ Goto(t, IF op[t] = "disconnect" THEN "evict"
             ELSE IF arg[t] \in Pooled THEN "verify" ELSE "connect")
  /\ Handle(t, IF op[t] = "get" THEN pool[arg[t]] ELSE Nobody)
  /\ UNCHANGED <<pool, inUse, lockOf, poolLock, up, op, arg, lock, todo, replaced, leaked>>
  /\ Scheduled(t)

\* The account lock is taken; get_client() goes on to the entry it finds, or to the first
\* look at the capacity.
Acquire(t) ==
  /\ pc[t] = "wait"
  /\ holder[lock[t]] = Nobody
  /\ \/ /\ op[t] = "get" /\ arg[t] \notin Pooled /\ Cardinality(Pooled) >= MaxConcurrent
        /\ Raise(t)
     \/ /\ holder' = [holder EXCEPT ![lock[t]] = t]
        /\ \/ op[t] = "disconnect" /\ Goto(t, "evict") /\ UNCHANGED client
           \/ /\ op[t] = "get" /\ arg[t] \in Pooled
              /\ Goto(t, IF pool[arg[t]] \in up THEN "verify" ELSE "reconnect")
              /\ Handle(t, pool[arg[t]])
           \/ /\ op[t] = "get" /\ arg[t] \notin Pooled /\ Cardinality(Pooled) < MaxConcurrent
              /\ Goto(t, "connect")
              /\ UNCHANGED client
        /\ UNCHANGED <<op, arg, lock>>
  /\ UNCHANGED <<pool, inUse, lockOf, poolLock, up, todo, replaced, leaked>>
  /\ Scheduled(t)

\* _ensure_alive(), a client that is down: connect() works, or it fails, before or after the
\* connection is there.
Reconnect(t) ==
  /\ pc[t] = "reconnect"
  /\ \/ up' = up \union {client[t]} /\ Goto(t, "verify") /\ UNCHANGED client
     \/ up' \in {up, up \union {client[t]}} /\ Goto(t, "evict") /\ Handle(t, Nobody)
  /\ UNCHANGED <<pool, inUse, locks, op, arg, lock, todo, replaced, leaked>>
  /\ Scheduled(t)

\* is_user_authorized(): an authorized client is the caller's; any other is evicted.
Verify(t) ==
  /\ pc[t] = "verify"
  /\ \/ /\ inUse' = inUse \union {client[t]}
        /\ Unlock(t)
        /\ Goto(t, "using")
        /\ UNCHANGED client
     \/ /\ Goto(t, "evict")
        /\ Handle(t, Nobody)
        /\ UNCHANGED <<inUse, holder, lock>>
  /\ UNCHANGED <<pool, lockOf, poolLock, up, op, arg, todo, replaced, leaked>>
  /\ Scheduled(t)

\* After _evict_unlocked(): the end of disconnect_client(), or the capacity in get_client(),
\* with n entries in the pool.
Evicted(t, n) ==
  \/ /\ op[t] = "disconnect"
     /\ Unlock(t)
     /\ Goto(t, "sweep")
     /\ Handle(t, Nobody)
     /\ arg' = [arg EXCEPT ![t] = Nobody]
     /\ UNCHANGED op
  \/ /\ op[t] = "get" /\ n < MaxConcurrent
     /\ Goto(t, "connect")
     /\ Handle(t, Nobody)
     /\ UNCHANGED <<holder, lock, op, arg>>
  \/ op[t] = "get" /\ n >= MaxConcurrent /\ Raise(t)

\* _evict_unlocked(): the entry and the lock leave their dicts, the lock while the task
\* holds it.
Evict(t) ==
  /\ pc[t] = "evict"
  /\ poolLock = Nobody
  /\ pool' = [pool EXCEPT ![arg[t]] = Nobody]
  /\ lockOf' = [lockOf EXCEPT ![arg[t]] = Nobody]
  /\ inUse' = inUse \ {pool[arg[t]]}
  /\ \/ /\ pool[arg[t]] \in up
        /\ Goto(t, "close")
        /\ Handle(t, pool[arg[t]])
        /\ UNCHANGED <<holder, lock, op, arg>>
     \/ /\ pool[arg[t]] \notin up
        /\ Evicted(t, Cardinality(Pooled \ {arg[t]}))
  /\ UNCHANGED <<poolLock, up, todo, replaced, leaked>>
  /\ Scheduled(t)

\* Mutant: an evicted client stays connected.
CloseForgets(t) ==
  /\ pc[t] = "close"
  /\ Evicted(t, Cardinality(Pooled))
  /\ UNCHANGED <<pool, inUse, lockOf, poolLock, up, todo, replaced, leaked>>
  /\ Scheduled(t)

\* Its client.disconnect().
Close(t) ==
  /\ pc[t] = "close"
  /\ Hangup(t)
  /\ Evicted(t, Cardinality(Pooled))
  /\ UNCHANGED <<pool, inUse, lockOf, poolLock, todo, replaced>>
  /\ Scheduled(t)

-----------------------------------------------------------------------------
(* The rest of get_client(): a pool miss *)

FreeClients(a) ==
  {c \in {a} \X (1..MaxClients) : c \notin up /\ pool[a] # c /\ \A t \in Task : client[t] # c}

NewClient(a) == CHOOSE c \in FreeClients(a) : TRUE

\* _build_and_connect() up to client.connect(): no account, no session file, no connection; a
\* connection, but an error of the first request on it (a revoked or duplicated key), and nobody
\* disconnects the client; or a connected client.
Connect(t) ==
  /\ pc[t] = "connect"
  /\ \/ /\ Raise(t)
        /\ UNCHANGED <<up, leaked>>
     \/ /\ FreeClients(arg[t]) # {}
        /\ up' = up \union {NewClient(arg[t])}
        /\ \/ /\ MishapsLeft
              /\ Raise(t)
              /\ leaked' = leaked \union {NewClient(arg[t])}
           \/ /\ Handle(t, NewClient(arg[t]))
              /\ Goto(t, "authorize")
              /\ UNCHANGED <<holder, lock, op, arg, leaked>>
  /\ UNCHANGED <<pool, inUse, lockOf, poolLock, todo, replaced>>
  /\ Scheduled(t)

\* is_user_authorized(): yes; no, or a dead session; or an error that nobody expects, which
\* leaves the client connected.
Authorize(t) ==
  /\ pc[t] = "authorize"
  /\ \/ /\ Goto(t, "insert")
        /\ UNCHANGED <<up, holder, lock, op, arg, client, leaked>>
     \/ Raise(t) /\ Hangup(t)
     \/ Raise(t) /\ Abandon(t) /\ UNCHANGED up
  /\ UNCHANGED <<pool, inUse, lockOf, poolLock, todo, replaced>>
  /\ Scheduled(t)

\* Mutant: the capacity is not looked at again.
InsertUnchecked(t) ==
  /\ pc[t] = "insert"
  /\ poolLock = Nobody
  /\ pool' = [pool EXCEPT ![arg[t]] = client[t]]
  /\ inUse' = inUse \union {client[t]}
  /\ Unlock(t)
  /\ Goto(t, "using")
  /\ UNCHANGED <<lockOf, poolLock, up, op, arg, client, todo, replaced, leaked>>
  /\ Scheduled(t)

\* The second look at the capacity, under _pool_lock.
Insert(t) ==
  /\ pc[t] = "insert"
  /\ poolLock = Nobody
  /\ \/ /\ Cardinality(Pooled) >= MaxConcurrent /\ arg[t] \notin Pooled
        /\ poolLock' = t
        /\ Goto(t, "reject")
        /\ UNCHANGED <<pool, inUse, holder, lock>>
     \/ /\ Cardinality(Pooled) < MaxConcurrent \/ arg[t] \in Pooled
        /\ pool' = [pool EXCEPT ![arg[t]] = client[t]]
        /\ inUse' = (inUse \ {pool[arg[t]]}) \union {client[t]}
        /\ Unlock(t)
        /\ Goto(t, "using")
        /\ UNCHANGED poolLock
  /\ UNCHANGED <<lockOf, up, op, arg, client, todo, replaced, leaked>>
  /\ Scheduled(t)

\* Mutant: evicts through _evict_unlocked(), which takes _pool_lock itself.
RejectEvicts(t) ==
  /\ pc[t] = "reject"
  /\ Goto(t, "evict")
  /\ UNCHANGED <<pool, inUse, locks, up, op, arg, lock, client, todo, replaced, leaked>>
  /\ Scheduled(t)

\* Mutant: the client that found no place stays connected.
RejectForgets(t) ==
  /\ pc[t] = "reject"
  /\ poolLock' = Nobody
  /\ Raise(t)
  /\ UNCHANGED <<pool, inUse, lockOf, up, todo, replaced, leaked>>
  /\ Scheduled(t)

\* Mutant: an error leaves _pool_lock taken.
RejectKeepsLock(t) ==
  /\ pc[t] = "reject"
  /\ up' = up \ {client[t]}
  /\ Raise(t)
  /\ UNCHANGED <<pool, inUse, lockOf, poolLock, todo, replaced, leaked>>
  /\ Scheduled(t)

\* client.disconnect() under _pool_lock, and PoolCapacityError.
Reject(t) ==
  /\ pc[t] = "reject"
  /\ Hangup(t)
  /\ poolLock' = Nobody
  /\ Raise(t)
  /\ UNCHANGED <<pool, inUse, lockOf, todo, replaced>>
  /\ Scheduled(t)

\* Telegram or the proxy drops a connection for good.
LinkLost(c) ==
  /\ running = Nobody
  /\ c \in up
  /\ up' = up \ {c}
  /\ leaked' = leaked \ {c}
  /\ UNCHANGED <<pool, inUse, locks, running, tasks, replaced>>

Step(t) ==
  \/ SweepNext(t) \/ LookUp(t) \/ Acquire(t) \/ Reconnect(t) \/ Verify(t) \/ Evict(t)
  \/ Close(t) \/ Connect(t) \/ Authorize(t) \/ Insert(t) \/ Reject(t)

Next ==
  \/ \E t \in Task : Step(t) \/ Release(t) \/ Disconnect(t, Pooled)
  \/ \E t \in Task, a \in Account : GetClient(t, a) \/ TryGetCached(t, a) \/ Disconnect(t, {a})
  \/ \E t \in Task, S \in SUBSET IdleEntries : Disconnect(t, S)
  \/ \E c \in Client : LinkLost(c)

Spec == Init /\ [][Next]_vars

\* The event loop runs every coroutine that can run; a network call returns or times out.  An
\* asyncio.Lock is handed on first come, first served: no waiter is passed by for ever.
Fairness == \A t \in Task : SF_vars(Step(t))
FairSpec == Spec /\ Fairness
-----------------------------------------------------------------------------
(* Properties *)

Labels == {"idle", "lookup", "wait", "reconnect", "verify", "evict", "close", "connect", "authorize",
           "insert", "reject", "using", "sweep", "cached"}

TypeOK ==
  /\ pool \in [Account -> Client \union {Nobody}]
  /\ inUse \subseteq Client
  /\ lockOf \in [Account -> Lock \union {Nobody}]
  /\ holder \in [Lock -> Task \union {Nobody}]
  /\ poolLock \in Task \union {Nobody}
  /\ up \subseteq Client
  /\ running \in Task \union {Nobody}
  /\ pc \in [Task -> Labels]
  /\ op \in [Task -> {"none", "get", "disconnect"}]
  /\ arg \in [Task -> Account \union {Nobody}]
  /\ lock \in [Task -> Lock \union {Nobody}]
  /\ client \in [Task -> Client \union {Nobody}]
  /\ todo \in [Task -> SUBSET Account]
  /\ replaced \subseteq Account /\ leaked \subseteq Client

ClientsOf(a) == {c \in up : c[1] = a}

\* Several tasks may pass the first look at the capacity (session_pool.py:202) together; the second
\* one, under _pool_lock (226-237), still keeps the entries of the pool within max_concurrent.
PoolWithinCeiling == Cardinality(Pooled) <= MaxConcurrent

\* The calls under way that have a connected client of their own in hand, or may have.
Handling == {t \in Task : pc[t] \in {"close", "authorize", "insert", "reject"}}

\* The ceiling is one on entries, and connections may exceed it: a miss connects before its second
\* look, an eviction disconnects after the entry has gone (session_pool.py:414-424).  But there is
\* one connection beyond it at most for each call at such a point; clients left behind by an error
\* and accounts that got a second lock while a task had the first are beyond the ceiling's reach.
ConnectedWithinReach ==
  Cardinality({c \in up \ leaked : c[1] \notin replaced}) <= MaxConcurrent + Cardinality(Handling)

\* The account lock keeps concurrent misses from connecting an account twice
\* (session_pool.py:190), unless an account got a new lock while a task still had the old one
\* (an eviction takes the lock out of the dict, and so does a full dict); the clients an error
\* left behind are beyond the pool's reach and not counted.
OneClientUnlessReplaced ==
  \A a \in Account \ replaced : Cardinality(ClientsOf(a) \ leaked) <= 1

\* Whatever way a call ends (an error in a connect, the capacity, a dead session, a sweep), no
\* lock stays taken: when no call is under way, every lock is free.
QuietIsUnlocked ==
  (\A t \in Task : pc[t] \in {"idle", "using", "cached"})
    => poolLock = Nobody /\ \A l \in Lock : holder[l] = Nobody

\* The tasks whose release of a lock t waits for.
HeldUpBy(t) ==
  {u \in Task : \/ pc[t] = "wait" /\ holder[lock[t]] = u
                \/ pc[t] \in {"lookup", "evict", "insert"} /\ poolLock = u}

\* A call that holds an account lock may wait for _pool_lock (session_pool.py:413), and who
\* holds _pool_lock (226) waits for neither: no task waits, over whatever others, for itself.
NoCircularWait == \A t \in Task : \A u \in HeldUpBy(t) : \A v \in HeldUpBy(u) : HeldUpBy(v) = {}

\* When no call is under way, every connected client is the entry of its account, where a release,
\* a sweep or disconnect_all() finds it (session_pool.py:261-275): neither an eviction nor a reject
\* nor a failed reconnect leaves one outside.  What does, and is excepted: a connect() that raises
\* after the connection is there (555-567), an authorization check that raises an error the code
\* does not expect (583), a disconnect() that fails (231, 425, 578, 588), and an account that got
\* a new lock while a task still had the old one.
NoClientForgotten ==
  (\A t \in Task : pc[t] \in {"idle", "using", "cached"})
    => \A c \in up \ leaked : c[1] \in replaced \/ pool[c[1]] = c

\* Account locks and _pool_lock are taken in one order (session_pool.py:190, 226, 413): every
\* call comes to its end.
CallsReturn ==
  \A t \in Task : pc[t] \notin {"idle", "using", "cached"} ~> pc[t] \in {"idle", "using", "cached"}

\* "One TelegramClient per account_id, never more" (session_pool.py:9).
OneClientPerAccount == \A a \in Account : Cardinality(ClientsOf(a)) <= 1
=============================================================================

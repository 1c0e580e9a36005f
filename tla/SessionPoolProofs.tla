-------------------------- MODULE SessionPoolProofs --------------------------
(***************************************************************************)
(* Theorems about SessionPool, for any accounts, tasks and limits.         *)
(***************************************************************************)
EXTENDS SessionPool, FiniteSetTheorems, TLAPS

\* A task at one of these labels is inside "async with account_lock".
Inside == {"reconnect", "verify", "evict", "close", "connect", "authorize", "insert", "reject"}

\* What a task's label says about its locals.
LocalsOK(t) ==
  /\ lock[t] # Nobody <=> pc[t] \in Inside \union {"wait"}
  /\ pc[t] \notin {"idle", "sweep"} => arg[t] \in Account
  /\ pc[t] \in {"reconnect", "verify", "close", "authorize", "insert", "reject"} => client[t] \in Client
  /\ pc[t] \notin {"idle", "cached"} => op[t] # "none"

TypeInv == TypeOK /\ \A t \in Task : LocalsOK(t)

\* An account has more lock numbers than other tasks can have in hand.
LEMMA NewLock ==
  ASSUME TypeOK, NEW t \in Task, lock[t] = Nobody, NEW a \in Account
  PROVE  \E l \in LocksOf(a) : \A u \in Task : lock[u] # l
<1> DEFINE N == Cardinality(Task)
           f == [n \in 1..N |-> CHOOSE u \in Task : lock[u] = <<a, n>>]
<1> SUFFICES ASSUME \A n \in 1..N : \E u \in Task : lock[u] = <<a, n>> PROVE FALSE
  BY DEF LocksOf
<1>1. IsFiniteSet(Task) /\ N \in Nat
  BY PoolAssumption, FS_CardinalityType
<1>2. \A n \in 1..N : f[n] \in Task /\ lock[f[n]] = <<a, n>>
  OBVIOUS
<1>3. \A n \in 1..N : <<a, n>> # Nobody
  BY PoolAssumption DEF Lock
<1>4. f \in [1..N -> Task \ {t}]
  BY <1>2, <1>3
<1>5. IsFiniteSet(Task \ {t}) /\ Cardinality(Task \ {t}) = N - 1
  BY <1>1, FS_RemoveElement
<1>6. IsFiniteSet(1..N) /\ Cardinality(1..N) = N
  <2>1. N > 0
    BY <1>1, FS_EmptySet
  <2>2. QED
    BY <1>1, <2>1, FS_Interval
<1> HIDE DEF f
<1>7. \E x, y \in 1..N : x # y /\ f[x] = f[y]
  <2>1. Cardinality(Task \ {t}) < Cardinality(1..N)
    BY <1>1, <1>5, <1>6
  <2> DEFINE S == 1..N
             T == Task \ {t}
  <2>2. IsFiniteSet(S) /\ IsFiniteSet(T) /\ Cardinality(T) < Cardinality(S) /\ f \in [S -> T]
    BY <1>4, <1>5, <1>6, <2>1
  <2> HIDE DEF S, T
  <2>3. \E x, y \in S : x # y /\ f[x] = f[y]
    BY <2>2, FS_PigeonHole
  <2>4. QED
    BY <2>3 DEF S
<1>8. PICK x \in 1..N, y \in 1..N : x # y /\ f[x] = f[y]
  BY <1>7
<1>9. <<a, x>> = <<a, y>>
  BY <1>2, <1>8
<1>10. QED
  BY <1>8, <1>9

LEMMA InitTypeInv == Init => TypeInv
BY DEF Init, TypeInv, TypeOK, LocalsOK, Labels, Inside

\* What Connect makes of its three outcomes.
LEMMA ConnectClient ==
  ASSUME TypeInv, NEW t \in Task, Connect(t)
  PROVE  \/ Raise(t) /\ UNCHANGED <<up, leaked>>
         \/ \E c \in Client :
              /\ c[1] = arg[t]
              /\ up' = up \union {c}
              /\ \/ Raise(t) /\ leaked' = leaked \union {c}
                 \/ /\ ~Raise(t)
                    /\ client' = [client EXCEPT ![t] = c]
                    /\ pc' = [pc EXCEPT ![t] = "authorize"]
                    /\ UNCHANGED <<holder, lock, op, arg, leaked>>
<1> DEFINE c == NewClient(arg[t])
<1>1. CASE Raise(t) /\ UNCHANGED <<up, leaked>>
  BY <1>1
<1>2. CASE FreeClients(arg[t]) # {}
  <2>1. arg[t] \in Account
    BY DEF Connect, TypeInv, LocalsOK
  <2>2. c \in FreeClients(arg[t])
    BY <1>2 DEF NewClient
  <2>3. c \in Client /\ c[1] = arg[t]
    BY <2>1, <2>2 DEF FreeClients, Client
  <2>4. \/ Raise(t) /\ UNCHANGED <<up, leaked>>
        \/ /\ up' = up \union {c}
           /\ \/ Raise(t) /\ leaked' = leaked \union {c}
              \/ /\ client' = [client EXCEPT ![t] = c]
                 /\ pc' = [pc EXCEPT ![t] = "authorize"]
                 /\ UNCHANGED <<holder, lock, op, arg, leaked>>
    BY DEF Connect, Handle, Goto
  <2>5. pc' = [pc EXCEPT ![t] = "authorize"] => ~Raise(t)
    BY DEF Raise, Finish, Goto, TypeInv, TypeOK
  <2> HIDE DEF c
  <2>6. QED
    BY <2>3, <2>4, <2>5
<1>3. QED
  BY <1>1, <1>2 DEF Connect

LEMMA NextTypeInv == TypeInv /\ [Next]_vars => TypeInv'
<1> SUFFICES ASSUME TypeOK, \A t \in Task : LocalsOK(t), [Next]_vars PROVE TypeInv'
  BY DEF TypeInv
<1> USE PoolAssumption DEF Goto, Handle, Unlock, Finish, Raise, Hangup, Abandon, locks, tasks
<1>r. ASSUME NEW t \in Task, Scheduled(t) PROVE running' \in Task \union {Nobody}
  BY <1>r DEF Scheduled
\* A step that is t's alone.
<1>a. ASSUME NEW t \in Task, TypeOK', LocalsOK(t)',
             \A u \in Task \ {t} : /\ pc'[u] = pc[u] /\ op'[u] = op[u] /\ arg'[u] = arg[u]
                                   /\ lock'[u] = lock[u] /\ client'[u] = client[u]
      PROVE  TypeInv'
  <2>1. \A u \in Task \ {t} : LocalsOK(u)'
    BY <1>a DEF LocalsOK
  <2>2. QED
    BY <1>a, <2>1 DEF TypeInv
<1>1. ASSUME NEW t \in Task, NEW a \in Account, GetClient(t, a) PROVE TypeInv'
  BY <1>1, <1>a, <1>r DEF GetClient, TypeOK, LocalsOK, Labels, Inside
<1>2. ASSUME NEW t \in Task, NEW S \in SUBSET Account, Disconnect(t, S) PROVE TypeInv'
  BY <1>2, <1>a, <1>r DEF Disconnect, TypeOK, LocalsOK, Labels, Inside
<1>3. ASSUME NEW t \in Task, NEW a \in Account, TryGetCached(t, a) PROVE TypeInv'
  BY <1>3, <1>a, <1>r DEF TryGetCached, TypeOK, LocalsOK, Labels, Inside, IdleEntries, Pooled
<1>4. ASSUME NEW t \in Task, Release(t) PROVE TypeInv'
  BY <1>4, <1>a, <1>r DEF Release, TypeOK, LocalsOK, Labels, Inside
<1>5. ASSUME NEW t \in Task, SweepNext(t) PROVE TypeInv'
  BY <1>5, <1>a, <1>r DEF SweepNext, TypeOK, LocalsOK, Labels, Inside
<1>6. ASSUME NEW t \in Task, LookUp(t) PROVE TypeInv'
  <2>1. arg[t] \in Account /\ lock[t] = Nobody
    BY <1>6 DEF LookUp, LocalsOK, Inside
  <2>2. PICK l \in Lock : /\ lock' = [lock EXCEPT ![t] = l]
                          /\ lockOf' \in [Account -> Lock \union {Nobody}]
                          /\ replaced' \subseteq Account
    <3>1. CASE arg[t] \in Locked /\ lock' = [lock EXCEPT ![t] = lockOf[arg[t]]]
               /\ UNCHANGED <<lockOf, replaced>>
      BY <2>1, <3>1 DEF Locked, TypeOK
    <3>2. CASE arg[t] \notin Locked
      <4> DEFINE new == CHOOSE l \in LocksOf(arg[t]) : \A u \in Task : lock[u] # l
      <4>1. new \in Lock
        BY <2>1, NewLock DEF Lock, LocksOf
      <4>2. /\ lock' = [lock EXCEPT ![t] = new]
            /\ lockOf' = [a \in Account |-> IF a = arg[t] THEN new
                                            ELSE IF a \in Stale THEN Nobody ELSE lockOf[a]]
            /\ replaced' \subseteq replaced \union {arg[t]}
        BY <1>6, <3>2 DEF LookUp
      <4> HIDE DEF new
      <4>3. QED
        BY <2>1, <4>1, <4>2 DEF TypeOK
    <3>3. QED
      BY <1>6, <3>1, <3>2 DEF LookUp
  <2>3. op[t] # "none"
    BY <1>6 DEF LookUp, LocalsOK
  <2>4. QED
    BY <1>6, <2>1, <2>2, <2>3, <1>a, <1>r DEF LookUp, TypeOK, LocalsOK, Labels, Inside
<1>7. ASSUME NEW t \in Task, Acquire(t) PROVE TypeInv'
  <2>1. TypeOK'
    BY <1>7, <1>r DEF Acquire, TypeOK, LocalsOK, Labels, Inside, Pooled
  <2>2. LocalsOK(t)'
    BY <1>7 DEF Acquire, TypeOK, LocalsOK, Inside, Pooled
  <2>3. QED
    BY <1>7, <1>a, <2>1, <2>2 DEF Acquire, TypeOK
<1>8. ASSUME NEW t \in Task, Reconnect(t) \/ Verify(t) PROVE TypeInv'
  BY <1>8, <1>a, <1>r DEF Reconnect, Verify, TypeOK, LocalsOK, Labels, Inside
<1>9. ASSUME NEW t \in Task, Evict(t) PROVE TypeInv'
  <2>1. arg[t] \in Account
    BY <1>9 DEF Evict, LocalsOK
  <2>2. TypeOK'
    BY <1>9, <1>r, <2>1 DEF Evict, Evicted, TypeOK, Labels
  <2>3. LocalsOK(t)'
    BY <1>9, <2>1 DEF Evict, Evicted, TypeOK, LocalsOK, Inside
  <2>4. QED
    BY <1>9, <1>a, <2>2, <2>3 DEF Evict, Evicted, TypeOK
<1>10. ASSUME NEW t \in Task, Close(t) PROVE TypeInv'
  <2>1. TypeOK'
    BY <1>10, <1>r DEF Close, Evicted, TypeOK, Labels
  <2>2. LocalsOK(t)'
    BY <1>10 DEF Close, Evicted, TypeOK, LocalsOK, Inside
  <2>3. QED
    BY <1>10, <1>a, <1>r, <2>1, <2>2 DEF Close, Evicted, TypeOK
<1>11. ASSUME NEW t \in Task, Connect(t) PROVE TypeInv'
  <2>1. pc[t] = "connect" /\ Scheduled(t)
        /\ UNCHANGED <<pool, inUse, lockOf, poolLock, todo, replaced>>
    BY <1>11 DEF Connect
  <2>2. CASE Raise(t) /\ up' \subseteq Client /\ leaked' \subseteq Client
    BY <1>a, <1>r, <2>1, <2>2 DEF TypeOK, LocalsOK, Labels, Inside
  <2>3. CASE ~Raise(t)
    <3>1. PICK c \in Client : /\ up' = up \union {c}
                              /\ client' = [client EXCEPT ![t] = c]
                              /\ pc' = [pc EXCEPT ![t] = "authorize"]
                              /\ UNCHANGED <<holder, lock, op, arg, leaked>>
      BY <1>11, <2>3, ConnectClient DEF TypeInv
    <3>2. TypeOK'
      BY <2>1, <3>1, <1>r DEF TypeOK, Labels
    <3>3. LocalsOK(t)'
      BY <2>1, <3>1 DEF TypeOK, LocalsOK, Inside
    <3>4. QED
      BY <1>a, <3>1, <3>2, <3>3 DEF TypeOK
  <2>4. ASSUME Raise(t) PROVE up' \subseteq Client /\ leaked' \subseteq Client
    <3> HIDE DEF Raise
    <3>1. up \subseteq Client /\ leaked \subseteq Client
      BY DEF TypeOK
    <3>2. QED
      BY <1>11, <2>4, <3>1, ConnectClient DEF TypeInv
  <2>5. QED
    BY <2>2, <2>3, <2>4
<1>12. ASSUME NEW t \in Task, Authorize(t) PROVE TypeInv'
  <2>1. client[t] \in Client
    BY <1>12 DEF Authorize, LocalsOK
  <2>2. TypeOK'
    BY <1>12, <1>r, <2>1 DEF Authorize, TypeOK, Labels
  <2>3. LocalsOK(t)'
    BY <1>12 DEF Authorize, TypeOK, LocalsOK, Inside
  <2>4. QED
    BY <1>12, <1>a, <1>r, <2>2, <2>3 DEF Authorize, TypeOK
<1>13. ASSUME NEW t \in Task, Insert(t) PROVE TypeInv'
  BY <1>13, <1>a, <1>r DEF Insert, TypeOK, LocalsOK, Labels, Inside
<1>14. ASSUME NEW t \in Task, Reject(t) PROVE TypeInv'
  BY <1>14, <1>a, <1>r DEF Reject, TypeOK, LocalsOK, Labels, Inside
<1>15. ASSUME NEW c \in Client, LinkLost(c) PROVE TypeInv'
  BY <1>15 DEF LinkLost, TypeInv, TypeOK, LocalsOK
<1>16. CASE UNCHANGED vars
  BY <1>16 DEF vars, TypeInv, TypeOK, LocalsOK
<1>17. QED
  <2>1. Pooled \in SUBSET Account /\ SUBSET IdleEntries \subseteq SUBSET Account
    BY DEF Pooled, IdleEntries
  <2>2. QED
    BY <1>1, <1>2, <1>3, <1>4, <1>5, <1>6, <1>7, <1>8, <1>9, <1>10, <1>11, <1>12, <1>13, <1>14,
       <1>15, <1>16, <2>1 DEF Next, Step

\* The pool's dicts, its locks and every caller's locals hold values of their types, and a caller
\* inside the account lock knows which lock that is.
THEOREM PoolTypes == Spec => []TypeOK
<1>1. TypeInv => TypeOK
  BY DEF TypeInv
<1>2. QED
  BY InitTypeInv, NextTypeInv, <1>1, PTL DEF Spec

-----------------------------------------------------------------------------
(* The ceiling *)

\* Only Insert adds an entry, and only below the ceiling.
LEMMA NextCeiling == TypeInv /\ PoolWithinCeiling /\ [Next]_vars => PoolWithinCeiling'
<1> SUFFICES ASSUME TypeInv, PoolWithinCeiling, [Next]_vars PROVE PoolWithinCeiling'
  OBVIOUS
<1>1. IsFiniteSet(Pooled) /\ Cardinality(Pooled) \in Nat
  BY PoolAssumption, FS_Subset, FS_CardinalityType DEF Pooled
<1>2. MaxConcurrent \in Nat
  BY PoolAssumption
<1>a. ASSUME Pooled' \subseteq Pooled PROVE PoolWithinCeiling'
  <2>1. Cardinality(Pooled') <= Cardinality(Pooled) /\ Cardinality(Pooled') \in Nat
    BY <1>1, <1>a, FS_Subset, FS_CardinalityType
  <2>2. QED
    BY <1>1, <1>2, <2>1 DEF PoolWithinCeiling
<1>3. CASE UNCHANGED pool
  BY <1>3, <1>a DEF Pooled
<1>4. ASSUME NEW t \in Task, Evict(t) PROVE PoolWithinCeiling'
  <2>1. Pooled' \subseteq Pooled
    BY <1>4 DEF Evict, Pooled, TypeInv, TypeOK
  <2>2. QED
    BY <1>a, <2>1
<1>5. ASSUME NEW t \in Task, Insert(t) PROVE PoolWithinCeiling'
  <2>1. CASE UNCHANGED pool
    BY <1>3, <2>1
  <2>2. CASE pool' = [pool EXCEPT ![arg[t]] = client[t]]
    <3>1. Pooled' \subseteq Pooled \union {arg[t]}
      BY <2>2 DEF Pooled, TypeInv, TypeOK
    <3>2. CASE arg[t] \in Pooled
      BY <1>a, <3>1, <3>2
    <3>3. CASE arg[t] \notin Pooled
      <4>1. Cardinality(Pooled) < MaxConcurrent \/ UNCHANGED pool
        BY <1>5, <3>3 DEF Insert
      <4>2. /\ IsFiniteSet(Pooled \union {arg[t]})
            /\ Cardinality(Pooled \union {arg[t]}) = Cardinality(Pooled) + 1
        BY <1>1, <3>3, FS_AddElement
      <4>3. Cardinality(Pooled') <= Cardinality(Pooled \union {arg[t]}) /\ Cardinality(Pooled') \in Nat
        BY <3>1, <4>2, FS_Subset, FS_CardinalityType
      <4>4. CASE Cardinality(Pooled) < MaxConcurrent
        BY <1>1, <1>2, <4>2, <4>3, <4>4 DEF PoolWithinCeiling
      <4>5. QED
        BY <1>3, <4>1, <4>4
    <3>4. QED
      BY <3>2, <3>3
  <2>3. QED
    BY <1>5, <2>1, <2>2 DEF Insert
<1>6. ASSUME NEW t \in Task, Step(t), ~Evict(t), ~Insert(t) PROVE UNCHANGED pool
  BY <1>6 DEF Step, SweepNext, LookUp, Acquire, Reconnect, Verify, Close, Connect, Authorize, Reject
<1>7. ASSUME Next, \A t \in Task : ~Step(t) PROVE UNCHANGED pool
  BY <1>7 DEF Next, Release, GetClient, TryGetCached, Disconnect, LinkLost
<1>8. QED
  BY <1>3, <1>4, <1>5, <1>6, <1>7 DEF vars

\* The pool never holds more clients than its ceiling, however many misses pass the first look
\* at the capacity together (session_pool.py:226-237).
THEOREM CeilingHolds == Spec => []PoolWithinCeiling
<1>1. Init => PoolWithinCeiling
  <2>1. ASSUME Init PROVE Pooled = {}
    BY <2>1 DEF Init, Pooled
  <2>2. QED
    BY <2>1, FS_EmptySet, PoolAssumption DEF PoolWithinCeiling
<1>2. QED
  BY InitTypeInv, NextTypeInv, NextCeiling, <1>1, PTL DEF Spec

-----------------------------------------------------------------------------
(* The locks *)

\* Who holds a lock has it in hand, at a label inside the block that takes it.
LocksInv ==
  /\ \A l \in Lock : holder[l] # Nobody => pc[holder[l]] \in Inside /\ lock[holder[l]] = l
  /\ poolLock # Nobody => pc[poolLock] = "reject"

LEMMA NextLocksInv == TypeInv /\ LocksInv /\ [Next]_vars => LocksInv'
<1> SUFFICES ASSUME TypeOK, \A t \in Task : LocalsOK(t), LocksInv, [Next]_vars PROVE LocksInv'
  BY DEF TypeInv
<1> USE PoolAssumption DEF Goto, Handle, Unlock, Finish, Raise, Hangup, Abandon, locks, tasks, Inside
<1>1. ASSUME NEW t \in Task, NEW a \in Account, GetClient(t, a) PROVE LocksInv'
  BY <1>1 DEF GetClient, TypeOK, LocksInv
<1>2. ASSUME NEW t \in Task, NEW S \in SUBSET Account, Disconnect(t, S) PROVE LocksInv'
  BY <1>2 DEF Disconnect, TypeOK, LocksInv
<1>3. ASSUME NEW t \in Task, NEW a \in Account, TryGetCached(t, a) PROVE LocksInv'
  BY <1>3 DEF TryGetCached, TypeOK, LocksInv
<1>4. ASSUME NEW t \in Task, Release(t) PROVE LocksInv'
  BY <1>4 DEF Release, TypeOK, LocksInv
<1>5. ASSUME NEW t \in Task, SweepNext(t) PROVE LocksInv'
  BY <1>5 DEF SweepNext, TypeOK, LocksInv
<1>6. ASSUME NEW t \in Task, LookUp(t) PROVE LocksInv'
  BY <1>6 DEF LookUp, TypeOK, LocksInv
<1>7. ASSUME NEW t \in Task, Acquire(t) PROVE LocksInv'
  BY <1>7 DEF Acquire, TypeOK, LocalsOK, LocksInv
<1>8. ASSUME NEW t \in Task, Reconnect(t) \/ Verify(t) PROVE LocksInv'
  BY <1>8 DEF Reconnect, Verify, TypeOK, LocalsOK, LocksInv
<1>9. ASSUME NEW t \in Task, Evict(t) PROVE LocksInv'
  BY <1>9 DEF Evict, Evicted, TypeOK, LocalsOK, LocksInv
<1>10. ASSUME NEW t \in Task, Close(t) PROVE LocksInv'
  BY <1>10 DEF Close, Evicted, TypeOK, LocalsOK, LocksInv
<1>11. ASSUME NEW t \in Task, Connect(t) PROVE LocksInv'
  BY <1>11 DEF Connect, TypeOK, LocalsOK, LocksInv
<1>12. ASSUME NEW t \in Task, Authorize(t) PROVE LocksInv'
  BY <1>12 DEF Authorize, TypeOK, LocalsOK, LocksInv
<1>13. ASSUME NEW t \in Task, Insert(t) PROVE LocksInv'
  BY <1>13 DEF Insert, TypeOK, LocalsOK, LocksInv
<1>14. ASSUME NEW t \in Task, Reject(t) PROVE LocksInv'
  BY <1>14 DEF Reject, TypeOK, LocalsOK, LocksInv
<1>15. ASSUME NEW c \in Client, LinkLost(c) PROVE LocksInv'
  BY <1>15 DEF LinkLost, LocksInv
<1>16. CASE UNCHANGED vars
  BY <1>16 DEF vars, LocksInv
<1>17. QED
  <2>1. Pooled \in SUBSET Account /\ SUBSET IdleEntries \subseteq SUBSET Account
    BY DEF Pooled, IdleEntries
  <2>2. QED
    BY <1>1, <1>2, <1>3, <1>4, <1>5, <1>6, <1>7, <1>8, <1>9, <1>10, <1>11, <1>12, <1>13, <1>14,
       <1>15, <1>16, <2>1 DEF Next, Step

\* Whatever way the calls end, when none is under way every account lock and _pool_lock is free.
THEOREM LocksAreReturned == Spec => []QuietIsUnlocked
<1>1. Init => LocksInv
  BY DEF Init, LocksInv
<1>2. TypeInv /\ LocksInv => QuietIsUnlocked
  BY PoolAssumption DEF TypeInv, TypeOK, LocksInv, QuietIsUnlocked, Inside
<1>3. QED
  BY InitTypeInv, NextTypeInv, NextLocksInv, <1>1, <1>2, PTL DEF Spec

\* No task waits for itself, over whatever others: a chain of waits ends, after an account lock
\* and _pool_lock at most, at a task that waits for no lock (session_pool.py:190, 226, 413).
THEOREM WaitsEnd == Spec => []NoCircularWait
<1>1. Init => LocksInv
  BY DEF Init, LocksInv
<1>2. TypeInv /\ LocksInv => NoCircularWait
  <2> SUFFICES ASSUME TypeInv, LocksInv, NEW t \in Task, NEW u \in HeldUpBy(t),
                      NEW v \in HeldUpBy(u)
               PROVE  HeldUpBy(v) = {}
    BY DEF NoCircularWait
  <2>1. \A x \in Task : \A y \in HeldUpBy(x) : pc[y] \in Inside /\ y \in Task
    <3> SUFFICES ASSUME NEW x \in Task, NEW y \in HeldUpBy(x) PROVE pc[y] \in Inside /\ y \in Task
      OBVIOUS
    <3>1. pc[x] = "wait" => lock[x] \in Lock
      BY DEF TypeInv, TypeOK, LocalsOK
    <3>2. QED
      BY <3>1, PoolAssumption DEF HeldUpBy, LocksInv, Inside
  <2>2. pc[u] # "wait"
    BY <2>1 DEF Inside
  <2>3. poolLock = v
    BY <2>2 DEF HeldUpBy
  <2>4. pc[v] = "reject"
    BY <2>1, <2>3, PoolAssumption DEF LocksInv
  <2>5. QED
    BY <2>4 DEF HeldUpBy
<1>3. QED
  BY InitTypeInv, NextTypeInv, NextLocksInv, <1>1, <1>2, PTL DEF Spec

-----------------------------------------------------------------------------
(* One client of an account *)

\* A task at one of these labels works with the client in its local.
WithClient == {"reconnect", "verify", "close", "authorize", "insert", "reject"}

\* Every client and every lock is where its own account is concerned.
TagInv ==
  /\ \A a \in Account : pool[a] # Nobody => pool[a][1] = a
  /\ \A a \in Account : lockOf[a] # Nobody => lockOf[a][1] = a
  /\ \A t \in Task : lock[t] # Nobody => lock[t][1] = arg[t]
  /\ \A t \in Task : pc[t] \in WithClient => client[t][1] = arg[t]

\* What LookUp makes of the locks: t gets the lock in the dict, which may be a new one.
LEMMA LookUpLock ==
  ASSUME TypeInv, NEW t \in Task, LookUp(t)
  PROVE  \E l \in LocksOf(arg[t]) \union {lockOf[arg[t]]} :
           /\ l \in Lock
           /\ lock' = [lock EXCEPT ![t] = l]
           /\ lockOf'[arg[t]] = l
           /\ \A a \in Account \ {arg[t]} : lockOf'[a] \in {lockOf[a], Nobody}
           /\ \/ l = lockOf[arg[t]] /\ UNCHANGED replaced
              \/ /\ l \in LocksOf(arg[t])
                 /\ \A u \in Task : lock[u] # l
                 /\ replaced' = replaced \union
                      {a \in {arg[t]} : \E u \in Task : lock[u] \in LocksOf(a)}
<1> USE PoolAssumption
<1>1. arg[t] \in Account /\ lock[t] = Nobody
  BY DEF LookUp, TypeInv, LocalsOK, Inside
<1>2. CASE arg[t] \in Locked
  BY <1>1, <1>2 DEF LookUp, Locked, TypeInv, TypeOK
<1>3. CASE arg[t] \notin Locked
  <2> DEFINE new == CHOOSE l \in LocksOf(arg[t]) : \A u \in Task : lock[u] # l
  <2>1. new \in LocksOf(arg[t]) /\ \A u \in Task : lock[u] # new
    BY <1>1, NewLock DEF TypeInv
  <2>2. /\ lock' = [lock EXCEPT ![t] = new]
        /\ lockOf' = [a \in Account |-> IF a = arg[t] THEN new
                                        ELSE IF a \in Stale THEN Nobody ELSE lockOf[a]]
        /\ replaced' = replaced \union {a \in {arg[t]} : \E u \in Task : lock[u] \in LocksOf(a)}
    BY <1>3 DEF LookUp
  <2> HIDE DEF new
  <2>3. new \in Lock
    BY <1>1, <2>1 DEF LocksOf, Lock
  <2>4. QED
    BY <1>1, <2>1, <2>2, <2>3
<1>4. QED
  BY <1>2, <1>3

LEMMA NextTagInv == TypeInv /\ TagInv /\ [Next]_vars => TagInv'
<1> SUFFICES ASSUME TypeInv, TagInv, [Next]_vars PROVE TagInv'
  OBVIOUS
<1>t. TypeOK /\ \A t \in Task : LocalsOK(t)
  BY DEF TypeInv
<1> USE PoolAssumption DEF Goto, Handle, Unlock, Finish, Raise, Hangup, Abandon, locks, tasks, Inside, WithClient
<1>1. ASSUME NEW t \in Task, NEW a \in Account, GetClient(t, a) PROVE TagInv'
  BY <1>1, <1>t DEF GetClient, TypeOK, LocalsOK, TagInv
<1>2. ASSUME NEW t \in Task, NEW S \in SUBSET Account, Disconnect(t, S) PROVE TagInv'
  BY <1>2, <1>t DEF Disconnect, TypeOK, TagInv
<1>3. ASSUME NEW t \in Task, NEW a \in Account, TryGetCached(t, a) PROVE TagInv'
  BY <1>3, <1>t DEF TryGetCached, TypeOK, LocalsOK, TagInv
<1>4. ASSUME NEW t \in Task, Release(t) PROVE TagInv'
  BY <1>4, <1>t DEF Release, TypeOK, LocalsOK, TagInv
<1>5. ASSUME NEW t \in Task, SweepNext(t) PROVE TagInv'
  BY <1>5, <1>t DEF SweepNext, TypeOK, LocalsOK, TagInv
<1>6. ASSUME NEW t \in Task, LookUp(t) PROVE TagInv'
  <2>1. arg[t] \in Account
    BY <1>6, <1>t DEF LookUp, LocalsOK
  <2>2. PICK l \in LocksOf(arg[t]) \union {lockOf[arg[t]]} :
           /\ l \in Lock
           /\ lock' = [lock EXCEPT ![t] = l]
           /\ lockOf'[arg[t]] = l
           /\ \A a \in Account \ {arg[t]} : lockOf'[a] \in {lockOf[a], Nobody}
    BY <1>6, LookUpLock
  <2>3. l[1] = arg[t]
    BY <2>1, <2>2 DEF LocksOf, TagInv
  <2>4. QED
    BY <1>6, <1>t, <2>1, <2>2, <2>3 DEF LookUp, TypeOK, TagInv
<1>7. ASSUME NEW t \in Task, Acquire(t) PROVE TagInv'
  BY <1>7, <1>t DEF Acquire, TypeOK, LocalsOK, TagInv, Pooled
<1>8. ASSUME NEW t \in Task, Reconnect(t) \/ Verify(t) PROVE TagInv'
  BY <1>8, <1>t DEF Reconnect, Verify, TypeOK, LocalsOK, TagInv
<1>9. ASSUME NEW t \in Task, Evict(t) PROVE TagInv'
  BY <1>9, <1>t DEF Evict, Evicted, TypeOK, LocalsOK, TagInv
<1>10. ASSUME NEW t \in Task, Close(t) PROVE TagInv'
  BY <1>10, <1>t DEF Close, Evicted, TypeOK, LocalsOK, TagInv
<1>11. ASSUME NEW t \in Task, Connect(t) PROVE TagInv'
  <2>1. CASE Raise(t)
    BY <1>11, <1>t, <2>1 DEF Connect, TypeOK, LocalsOK, TagInv
  <2>2. CASE ~Raise(t)
    <3>1. PICK c \in Client : /\ c[1] = arg[t]
                              /\ client' = [client EXCEPT ![t] = c]
                              /\ pc' = [pc EXCEPT ![t] = "authorize"]
                              /\ UNCHANGED <<lock, arg>>
      BY <1>11, <2>2, ConnectClient
    <3>2. UNCHANGED <<pool, lockOf>>
      BY <1>11 DEF Connect
    <3>3. QED
      BY <1>t, <3>1, <3>2 DEF TypeOK, TagInv
  <2>3. QED
    BY <2>1, <2>2
<1>12. ASSUME NEW t \in Task, Authorize(t) PROVE TagInv'
  BY <1>12, <1>t DEF Authorize, TypeOK, LocalsOK, TagInv
<1>13. ASSUME NEW t \in Task, Insert(t) PROVE TagInv'
  BY <1>13, <1>t DEF Insert, TypeOK, LocalsOK, TagInv
<1>14. ASSUME NEW t \in Task, Reject(t) PROVE TagInv'
  BY <1>14, <1>t DEF Reject, TypeOK, LocalsOK, TagInv
<1>15. ASSUME NEW c \in Client, LinkLost(c) PROVE TagInv'
  BY <1>15 DEF LinkLost, TagInv
<1>16. CASE UNCHANGED vars
  BY <1>16 DEF vars, TagInv
<1>17. QED
  <2>1. Pooled \in SUBSET Account /\ SUBSET IdleEntries \subseteq SUBSET Account
    BY DEF Pooled, IdleEntries
  <2>2. QED
    BY <1>1, <1>2, <1>3, <1>4, <1>5, <1>6, <1>7, <1>8, <1>9, <1>10, <1>11, <1>12, <1>13, <1>14,
       <1>15, <1>16, <2>1 DEF Next, Step

\* A task inside the block of an account lock holds that lock.
HoldInv == \A t \in Task : pc[t] \in Inside => holder[lock[t]] = t

LEMMA NextHoldInv == TypeInv /\ LocksInv /\ HoldInv /\ [Next]_vars => HoldInv'
<1> SUFFICES ASSUME TypeOK, \A t \in Task : LocalsOK(t), LocksInv, HoldInv, [Next]_vars PROVE HoldInv'
  BY DEF TypeInv
<1> USE PoolAssumption DEF Goto, Handle, Unlock, Finish, Raise, Hangup, Abandon, locks, tasks, Inside
<1>1. ASSUME NEW t \in Task, NEW a \in Account, GetClient(t, a) PROVE HoldInv'
  BY <1>1 DEF GetClient, TypeOK, HoldInv
<1>2. ASSUME NEW t \in Task, NEW S \in SUBSET Account, Disconnect(t, S) PROVE HoldInv'
  BY <1>2 DEF Disconnect, TypeOK, HoldInv
<1>3. ASSUME NEW t \in Task, NEW a \in Account, TryGetCached(t, a) PROVE HoldInv'
  BY <1>3 DEF TryGetCached, TypeOK, HoldInv
<1>4. ASSUME NEW t \in Task, Release(t) PROVE HoldInv'
  BY <1>4 DEF Release, TypeOK, HoldInv
<1>5. ASSUME NEW t \in Task, SweepNext(t) PROVE HoldInv'
  BY <1>5 DEF SweepNext, TypeOK, HoldInv
<1>6. ASSUME NEW t \in Task, LookUp(t) PROVE HoldInv'
  BY <1>6 DEF LookUp, TypeOK, HoldInv
<1>7. ASSUME NEW t \in Task, Acquire(t) PROVE HoldInv'
  BY <1>7 DEF Acquire, TypeOK, LocalsOK, HoldInv
<1>8. ASSUME NEW t \in Task, Reconnect(t) \/ Verify(t) PROVE HoldInv'
  BY <1>8 DEF Reconnect, Verify, TypeOK, LocalsOK, HoldInv
<1>9. ASSUME NEW t \in Task, Evict(t) PROVE HoldInv'
  BY <1>9 DEF Evict, Evicted, TypeOK, LocalsOK, HoldInv
<1>10. ASSUME NEW t \in Task, Close(t) PROVE HoldInv'
  BY <1>10 DEF Close, Evicted, TypeOK, LocalsOK, HoldInv
<1>11. ASSUME NEW t \in Task, Connect(t) PROVE HoldInv'
  BY <1>11 DEF Connect, TypeOK, LocalsOK, HoldInv
<1>12. ASSUME NEW t \in Task, Authorize(t) PROVE HoldInv'
  BY <1>12 DEF Authorize, TypeOK, LocalsOK, HoldInv
<1>13. ASSUME NEW t \in Task, Insert(t) PROVE HoldInv'
  BY <1>13 DEF Insert, TypeOK, LocalsOK, HoldInv
<1>14. ASSUME NEW t \in Task, Reject(t) PROVE HoldInv'
  BY <1>14 DEF Reject, TypeOK, LocalsOK, HoldInv
<1>15. ASSUME NEW c \in Client, LinkLost(c) PROVE HoldInv'
  BY <1>15 DEF LinkLost, HoldInv
<1>16. CASE UNCHANGED vars
  BY <1>16 DEF vars, HoldInv
<1>17. QED
  <2>1. Pooled \in SUBSET Account /\ SUBSET IdleEntries \subseteq SUBSET Account
    BY DEF Pooled, IdleEntries
  <2>2. QED
    BY <1>1, <1>2, <1>3, <1>4, <1>5, <1>6, <1>7, <1>8, <1>9, <1>10, <1>11, <1>12, <1>13, <1>14,
       <1>15, <1>16, <2>1 DEF Next, Step

\* As long as an account's lock was not replaced, the tasks that have a lock of the account have
\* the same one, and the dict holds no other.
OneLockInv ==
  \A t \in Task :
    lock[t] # Nobody /\ arg[t] \notin replaced =>
      /\ lockOf[arg[t]] \in {lock[t], Nobody}
      /\ \A u \in Task : lock[u] # Nobody /\ arg[u] = arg[t] => lock[u] = lock[t]

LEMMA NextOneLockInv == TypeInv /\ TagInv /\ OneLockInv /\ [Next]_vars => OneLockInv'
<1> SUFFICES ASSUME TypeInv, TagInv, OneLockInv, [Next]_vars PROVE OneLockInv'
  OBVIOUS
<1>t. TypeOK /\ \A t \in Task : LocalsOK(t)
  BY DEF TypeInv
<1> USE PoolAssumption DEF Goto, Handle, Unlock, Finish, Raise, Hangup, Abandon, locks, tasks, Inside
<1>1. ASSUME NEW t \in Task, NEW a \in Account, GetClient(t, a) PROVE OneLockInv'
  BY <1>1, <1>t DEF GetClient, TypeOK, LocalsOK, OneLockInv
<1>2. ASSUME NEW t \in Task, NEW S \in SUBSET Account, Disconnect(t, S) PROVE OneLockInv'
  BY <1>2, <1>t DEF Disconnect, TypeOK, LocalsOK, OneLockInv
<1>3. ASSUME NEW t \in Task, NEW a \in Account, TryGetCached(t, a) PROVE OneLockInv'
  BY <1>3, <1>t DEF TryGetCached, TypeOK, LocalsOK, OneLockInv
<1>4. ASSUME NEW t \in Task, Release(t) PROVE OneLockInv'
  BY <1>4, <1>t DEF Release, TypeOK, LocalsOK, OneLockInv
<1>5. ASSUME NEW t \in Task, SweepNext(t) PROVE OneLockInv'
  BY <1>5, <1>t DEF SweepNext, TypeOK, LocalsOK, OneLockInv
<1>6. ASSUME NEW t \in Task, LookUp(t) PROVE OneLockInv'
  <2>1. arg[t] \in Account /\ lock[t] = Nobody
    BY <1>6, <1>t DEF LookUp, LocalsOK
  <2>2. PICK l \in LocksOf(arg[t]) \union {lockOf[arg[t]]} :
           /\ l \in Lock
           /\ lock' = [lock EXCEPT ![t] = l]
           /\ lockOf'[arg[t]] = l
           /\ \A a \in Account \ {arg[t]} : lockOf'[a] \in {lockOf[a], Nobody}
           /\ \/ l = lockOf[arg[t]] /\ UNCHANGED replaced
              \/ /\ l \in LocksOf(arg[t])
                 /\ replaced' = replaced \union
                      {a \in {arg[t]} : \E u \in Task : lock[u] \in LocksOf(a)}
    BY <1>6, LookUpLock
  <2>3. UNCHANGED arg /\ replaced \subseteq replaced'
    BY <1>6, <2>2 DEF LookUp
  \* The others that have a lock of this account have the one in the dict, or it counts as replaced.
  <2>4. ASSUME NEW u \in Task \ {t}, lock[u] # Nobody, arg[u] = arg[t], arg[t] \notin replaced'
        PROVE  lock[u] = l
    <3>1. CASE l = lockOf[arg[t]]
      BY <2>2, <2>3, <2>4, <3>1 DEF OneLockInv
    <3>2. CASE \A v \in Task : lock[v] \notin LocksOf(arg[t])
      <4>1. lock[u] \in LocksOf(arg[u])
        BY <1>t, <2>4 DEF TypeOK, TagInv, Lock, LocksOf
      <4>2. QED
        BY <2>4, <3>2, <4>1
    <3>3. QED
      BY <2>1, <2>2, <2>4, <3>1, <3>2
  <2>5. QED
    BY <1>t, <2>1, <2>2, <2>3, <2>4 DEF TypeOK, LocalsOK, OneLockInv
<1>7. ASSUME NEW t \in Task, Acquire(t) PROVE OneLockInv'
  BY <1>7, <1>t DEF Acquire, Pooled, TypeOK, LocalsOK, OneLockInv
<1>8. ASSUME NEW t \in Task, Reconnect(t) \/ Verify(t) PROVE OneLockInv'
  BY <1>8, <1>t DEF Reconnect, Verify, TypeOK, LocalsOK, OneLockInv
<1>9. ASSUME NEW t \in Task, Evict(t) PROVE OneLockInv'
  BY <1>9, <1>t DEF Evict, Evicted, TypeOK, LocalsOK, OneLockInv
<1>10. ASSUME NEW t \in Task, Close(t) PROVE OneLockInv'
  BY <1>10, <1>t DEF Close, Evicted, TypeOK, LocalsOK, OneLockInv
<1>11. ASSUME NEW t \in Task, Connect(t) PROVE OneLockInv'
  BY <1>11, <1>t DEF Connect, TypeOK, LocalsOK, OneLockInv
<1>12. ASSUME NEW t \in Task, Authorize(t) PROVE OneLockInv'
  BY <1>12, <1>t DEF Authorize, TypeOK, LocalsOK, OneLockInv
<1>13. ASSUME NEW t \in Task, Insert(t) PROVE OneLockInv'
  BY <1>13, <1>t DEF Insert, TypeOK, LocalsOK, OneLockInv
<1>14. ASSUME NEW t \in Task, Reject(t) PROVE OneLockInv'
  BY <1>14, <1>t DEF Reject, TypeOK, LocalsOK, OneLockInv
<1>15. ASSUME NEW c \in Client, LinkLost(c) PROVE OneLockInv'
  BY <1>15, <1>t DEF LinkLost, TypeOK, LocalsOK, OneLockInv
<1>16. CASE UNCHANGED vars
  BY <1>16 DEF vars, OneLockInv
<1>17. QED
  <2>1. Pooled \in SUBSET Account /\ SUBSET IdleEntries \subseteq SUBSET Account
    BY DEF Pooled, IdleEntries
  <2>2. QED
    BY <1>1, <1>2, <1>3, <1>4, <1>5, <1>6, <1>7, <1>8, <1>9, <1>10, <1>11, <1>12, <1>13, <1>14,
       <1>15, <1>16, <2>1 DEF Next, Step

\* So only one task is inside the block of an account lock that was not replaced.
LEMMA OneInside ==
  ASSUME TypeInv, HoldInv, OneLockInv,
         NEW t \in Task, NEW u \in Task, pc[t] \in Inside, pc[u] \in Inside,
         arg[t] = arg[u], arg[t] \notin replaced
  PROVE  t = u
<1>1. lock[t] # Nobody /\ lock[u] # Nobody
  BY DEF TypeInv, LocalsOK
<1>2. lock[t] = lock[u]
  BY <1>1 DEF OneLockInv
<1>3. QED
  BY <1>2 DEF HoldInv

\* The entry of the account while a task is inside: the client it verifies, or none.
EntryInv ==
  \A t \in Task :
    arg[t] \notin replaced =>
      /\ pc[t] \in {"reconnect", "verify"} => client[t] = pool[arg[t]]
      /\ pc[t] \in {"close", "connect", "authorize", "insert", "reject"} => pool[arg[t]] = Nobody

LEMMA NextEntryInv ==
  TypeInv /\ HoldInv /\ OneLockInv /\ EntryInv /\ [Next]_vars => EntryInv'
<1> SUFFICES ASSUME TypeInv, HoldInv, OneLockInv, EntryInv, [Next]_vars PROVE EntryInv'
  OBVIOUS
<1>t. TypeOK /\ \A t \in Task : LocalsOK(t)
  BY DEF TypeInv
<1> USE PoolAssumption DEF Goto, Handle, Unlock, Finish, Raise, Hangup, Abandon, locks, tasks, Inside
<1>1. ASSUME NEW t \in Task, NEW a \in Account, GetClient(t, a) PROVE EntryInv'
  BY <1>1, <1>t DEF GetClient, TypeOK, LocalsOK, EntryInv
<1>2. ASSUME NEW t \in Task, NEW S \in SUBSET Account, Disconnect(t, S) PROVE EntryInv'
  BY <1>2, <1>t DEF Disconnect, TypeOK, LocalsOK, EntryInv
<1>3. ASSUME NEW t \in Task, NEW a \in Account, TryGetCached(t, a) PROVE EntryInv'
  BY <1>3, <1>t DEF TryGetCached, TypeOK, LocalsOK, EntryInv
<1>4. ASSUME NEW t \in Task, Release(t) PROVE EntryInv'
  BY <1>4, <1>t DEF Release, TypeOK, LocalsOK, EntryInv
<1>5. ASSUME NEW t \in Task, SweepNext(t) PROVE EntryInv'
  BY <1>5, <1>t DEF SweepNext, TypeOK, LocalsOK, EntryInv
<1>6. ASSUME NEW t \in Task, LookUp(t) PROVE EntryInv'
  <2>1. replaced \subseteq replaced'
    BY <1>6, LookUpLock
  <2>2. QED
    BY <1>6, <1>t, <2>1 DEF LookUp, TypeOK, EntryInv
<1>7. ASSUME NEW t \in Task, Acquire(t) PROVE EntryInv'
  BY <1>7, <1>t DEF Acquire, Pooled, TypeOK, LocalsOK, EntryInv
<1>8. ASSUME NEW t \in Task, Reconnect(t) \/ Verify(t) PROVE EntryInv'
  BY <1>8, <1>t DEF Reconnect, Verify, TypeOK, LocalsOK, EntryInv
<1>9. ASSUME NEW t \in Task, Evict(t) PROVE EntryInv'
  <2>1. \A u \in Task \ {t} : pc[u] \in Inside /\ arg[u] \notin replaced => arg[u] # arg[t]
    BY <1>9, OneInside DEF Evict
  <2>2. QED
    BY <1>9, <1>t, <2>1 DEF Evict, Evicted, TypeOK, LocalsOK, EntryInv
<1>10. ASSUME NEW t \in Task, Close(t) PROVE EntryInv'
  BY <1>10, <1>t DEF Close, Evicted, TypeOK, LocalsOK, EntryInv
<1>11. ASSUME NEW t \in Task, Connect(t) PROVE EntryInv'
  <2>1. CASE Raise(t)
    BY <1>11, <1>t, <2>1 DEF Connect, TypeOK, EntryInv
  <2>2. CASE ~Raise(t)
    <3>1. PICK c \in Client : /\ client' = [client EXCEPT ![t] = c]
                              /\ pc' = [pc EXCEPT ![t] = "authorize"]
                              /\ UNCHANGED arg
      BY <1>11, <2>2, ConnectClient
    <3>2. UNCHANGED <<pool, replaced>> /\ pc[t] = "connect"
      BY <1>11 DEF Connect
    <3>3. QED
      BY <1>t, <3>1, <3>2 DEF TypeOK, EntryInv
  <2>3. QED
    BY <2>1, <2>2
<1>12. ASSUME NEW t \in Task, Authorize(t) PROVE EntryInv'
  BY <1>12, <1>t DEF Authorize, TypeOK, LocalsOK, EntryInv
<1>13. ASSUME NEW t \in Task, Insert(t) PROVE EntryInv'
  <2>1. \A u \in Task \ {t} : pc[u] \in Inside /\ arg[u] \notin replaced => arg[u] # arg[t]
    BY <1>13, OneInside DEF Insert
  <2>2. QED
    BY <1>13, <1>t, <2>1 DEF Insert, TypeOK, LocalsOK, EntryInv
<1>14. ASSUME NEW t \in Task, Reject(t) PROVE EntryInv'
  BY <1>14, <1>t DEF Reject, TypeOK, LocalsOK, EntryInv
<1>15. ASSUME NEW c \in Client, LinkLost(c) PROVE EntryInv'
  BY <1>15, <1>t DEF LinkLost, TypeOK, LocalsOK, EntryInv
<1>16. CASE UNCHANGED vars
  BY <1>16 DEF vars, EntryInv
<1>17. QED
  <2>1. Pooled \in SUBSET Account /\ SUBSET IdleEntries \subseteq SUBSET Account
    BY DEF Pooled, IdleEntries
  <2>2. QED
    BY <1>1, <1>2, <1>3, <1>4, <1>5, <1>6, <1>7, <1>8, <1>9, <1>10, <1>11, <1>12, <1>13, <1>14,
       <1>15, <1>16, <2>1 DEF Next, Step

\* A connected client, not counting those an error left behind, is the account's entry or in the
\* hand of a task that is about to put it there or to disconnect it.
OnlyInv ==
  \A c \in up \ leaked :
    c[1] \notin replaced =>
      \/ pool[c[1]] = c
      \/ \E t \in Task : /\ pc[t] \in {"close", "authorize", "insert", "reject"}
                         /\ arg[t] = c[1] /\ client[t] = c

LEMMA NextOnlyInv ==
  TypeInv /\ TagInv /\ EntryInv /\ OnlyInv /\ [Next]_vars => OnlyInv'
<1> SUFFICES ASSUME TypeInv, TagInv, EntryInv, OnlyInv, [Next]_vars PROVE OnlyInv'
  OBVIOUS
<1>t. TypeOK /\ \A t \in Task : LocalsOK(t)
  BY DEF TypeInv
<1> USE PoolAssumption DEF Goto, Handle, Unlock, Finish, Raise, Hangup, Abandon, locks, tasks, Inside
<1>1. ASSUME NEW t \in Task, NEW a \in Account, GetClient(t, a) PROVE OnlyInv'
  BY <1>1, <1>t DEF GetClient, TypeOK, LocalsOK, OnlyInv
<1>2. ASSUME NEW t \in Task, NEW S \in SUBSET Account, Disconnect(t, S) PROVE OnlyInv'
  BY <1>2, <1>t DEF Disconnect, TypeOK, LocalsOK, OnlyInv
<1>3. ASSUME NEW t \in Task, NEW a \in Account, TryGetCached(t, a) PROVE OnlyInv'
  BY <1>3, <1>t DEF TryGetCached, TypeOK, LocalsOK, OnlyInv
<1>4. ASSUME NEW t \in Task, Release(t) PROVE OnlyInv'
  BY <1>4, <1>t DEF Release, TypeOK, LocalsOK, OnlyInv
<1>5. ASSUME NEW t \in Task, SweepNext(t) PROVE OnlyInv'
  BY <1>5, <1>t DEF SweepNext, TypeOK, LocalsOK, OnlyInv
<1>6. ASSUME NEW t \in Task, LookUp(t) PROVE OnlyInv'
  <2>1. replaced \subseteq replaced'
    BY <1>6, LookUpLock
  <2>2. QED
    BY <1>6, <1>t, <2>1 DEF LookUp, TypeOK, OnlyInv
<1>7. ASSUME NEW t \in Task, Acquire(t) PROVE OnlyInv'
  BY <1>7, <1>t DEF Acquire, Pooled, TypeOK, LocalsOK, OnlyInv
<1>8. ASSUME NEW t \in Task, Reconnect(t) \/ Verify(t) PROVE OnlyInv'
  BY <1>8, <1>t DEF Reconnect, Verify, TypeOK, LocalsOK, TagInv, EntryInv, OnlyInv, WithClient
<1>9. ASSUME NEW t \in Task, Evict(t) PROVE OnlyInv'
  BY <1>9, <1>t DEF Evict, Evicted, TypeOK, LocalsOK, OnlyInv
<1>10. ASSUME NEW t \in Task, Close(t) PROVE OnlyInv'
  BY <1>10, <1>t DEF Close, Evicted, TypeOK, LocalsOK, OnlyInv
<1>11. ASSUME NEW t \in Task, Connect(t) PROVE OnlyInv'
  <2>1. CASE Raise(t)
    <3>1. UNCHANGED <<pool, replaced>> /\ pc[t] = "connect"
      BY <1>11 DEF Connect
    <3>2. (up \ leaked)' \subseteq up \ leaked
      <4> HIDE DEF Raise
      <4>1. QED
        BY <1>11, ConnectClient, <2>1
    <3>3. QED
      BY <1>t, <2>1, <3>1, <3>2 DEF TypeOK, OnlyInv
  <2>2. CASE ~Raise(t)
    <3>1. PICK c \in Client : /\ c[1] = arg[t]
                              /\ client' = [client EXCEPT ![t] = c]
                              /\ up' = up \union {c}
                              /\ pc' = [pc EXCEPT ![t] = "authorize"]
                              /\ UNCHANGED <<arg, leaked>>
      BY <1>11, <2>2, ConnectClient
    <3>2. UNCHANGED <<pool, replaced>> /\ pc[t] = "connect"
      BY <1>11 DEF Connect
    <3>3. QED
      BY <1>t, <3>1, <3>2 DEF TypeOK, OnlyInv
  <2>3. QED
    BY <2>1, <2>2
<1>12. ASSUME NEW t \in Task, Authorize(t) PROVE OnlyInv'
  BY <1>12, <1>t DEF Authorize, TypeOK, LocalsOK, OnlyInv
<1>13. ASSUME NEW t \in Task, Insert(t) PROVE OnlyInv'
  <2>1. /\ UNCHANGED <<up, arg, client, replaced, leaked>> /\ pc[t] = "insert"
        /\ arg[t] \in Account /\ client[t] \in Client /\ client[t][1] = arg[t]
    BY <1>13, <1>t DEF Insert, LocalsOK, TagInv, WithClient
  <2>2. CASE UNCHANGED pool /\ pc' = [pc EXCEPT ![t] = "reject"]
    BY <1>t, <2>1, <2>2 DEF TypeOK, OnlyInv
  <2>3. CASE pool' = [pool EXCEPT ![arg[t]] = client[t]] /\ pc' = [pc EXCEPT ![t] = "using"]
    <3> SUFFICES ASSUME NEW c \in up \ leaked, c[1] \notin replaced
                 PROVE  \/ pool'[c[1]] = c
                        \/ \E u \in Task : /\ pc'[u] \in {"close", "authorize", "insert", "reject"}
                                           /\ arg'[u] = c[1] /\ client'[u] = c
      BY <2>1 DEF OnlyInv
    <3>1. c \in Client /\ c # Nobody /\ c[1] \in Account
      BY <1>t DEF TypeOK, Client
    <3>2. CASE pool[c[1]] = c
      <4>1. arg[t] # c[1]
        BY <2>1, <3>1, <3>2 DEF EntryInv
      <4>2. QED
        BY <1>t, <2>3, <3>1, <3>2, <4>1 DEF TypeOK
    <3>3. CASE \E u \in Task : /\ pc[u] \in {"close", "authorize", "insert", "reject"}
                               /\ arg[u] = c[1] /\ client[u] = c
      BY <1>t, <2>1, <2>3, <3>1, <3>3 DEF TypeOK
    <3>4. QED
      BY <3>2, <3>3 DEF OnlyInv
  <2>4. QED
    BY <1>13, <2>2, <2>3 DEF Insert
<1>14. ASSUME NEW t \in Task, Reject(t) PROVE OnlyInv'
  BY <1>14, <1>t DEF Reject, TypeOK, LocalsOK, OnlyInv
<1>15. ASSUME NEW c \in Client, LinkLost(c) PROVE OnlyInv'
  BY <1>15, <1>t DEF LinkLost, TypeOK, LocalsOK, OnlyInv
<1>16. CASE UNCHANGED vars
  BY <1>16 DEF vars, OnlyInv
<1>17. QED
  <2>1. Pooled \in SUBSET Account /\ SUBSET IdleEntries \subseteq SUBSET Account
    BY DEF Pooled, IdleEntries
  <2>2. QED
    BY <1>1, <1>2, <1>3, <1>4, <1>5, <1>6, <1>7, <1>8, <1>9, <1>10, <1>11, <1>12, <1>13, <1>14,
       <1>15, <1>16, <2>1 DEF Next, Step

OwnInv == TagInv /\ LocksInv /\ HoldInv /\ OneLockInv /\ EntryInv /\ OnlyInv

LEMMA OwnAlways == Spec => [](TypeInv /\ OwnInv)
<1>1. Init => OwnInv
  BY DEF Init, OwnInv, TagInv, LocksInv, HoldInv, OneLockInv, EntryInv, OnlyInv, WithClient, Inside
<1>2. TypeInv /\ OwnInv /\ [Next]_vars => OwnInv'
  BY NextTagInv, NextLocksInv, NextHoldInv, NextOneLockInv, NextEntryInv, NextOnlyInv DEF OwnInv
<1>3. QED
  BY InitTypeInv, NextTypeInv, <1>1, <1>2, PTL DEF Spec

\* The account lock keeps concurrent misses, evictions and sweeps from connecting an account
\* twice (session_pool.py:190), for any number of tasks and accounts: an account has at most one
\* connected client, those an error left behind not counted, unless it got a new lock while a task
\* still had the old one.
THEOREM OneClient == Spec => []OneClientUnlessReplaced
<1>1. TypeInv /\ OwnInv => OneClientUnlessReplaced
  <2> SUFFICES ASSUME TypeInv, OwnInv, NEW a \in Account \ replaced
               PROVE  Cardinality(ClientsOf(a) \ leaked) <= 1
    BY DEF OneClientUnlessReplaced
  <2> DEFINE S == ClientsOf(a) \ leaked
  <2>1. ASSUME NEW c \in S, NEW d \in S PROVE c = d
    <3>1. /\ c \in Client /\ c \in up \ leaked /\ c[1] = a
          /\ d \in Client /\ d \in up \ leaked /\ d[1] = a
      BY DEF ClientsOf, TypeInv, TypeOK
    <3>2. \A t \in Task : pc[t] \in {"close", "authorize", "insert", "reject"} /\ arg[t] = a
            => pool[a] = Nobody
      BY DEF OwnInv, EntryInv
    <3>3. \A t, u \in Task : /\ pc[t] \in {"close", "authorize", "insert", "reject"} /\ arg[t] = a
                             /\ pc[u] \in {"close", "authorize", "insert", "reject"} /\ arg[u] = a
                             => t = u
      BY OneInside DEF OwnInv, Inside
    <3>4. QED
      BY <3>1, <3>2, <3>3, PoolAssumption DEF OwnInv, OnlyInv
  <2>2. CASE S = {}
    BY <2>2, FS_EmptySet
  <2>3. CASE S # {}
    <3>1. PICK c \in S : S = {c}
      BY <2>1, <2>3
    <3>2. QED
      BY <3>1, FS_Singleton
  <2>4. QED
    BY <2>2, <2>3
<1>2. QED
  BY <1>1, OwnAlways, PTL

\* An eviction, a reject or a failed reconnect leaves no client connected that the pool has lost:
\* when no call is under way, a release or a sweep finds every connected client in its account's
\* entry (session_pool.py:247-275).  The exceptions are the property's: a connect() or an
\* authorization check that raises, a disconnect() that fails, a replaced lock.
THEOREM NoneForgotten == Spec => []NoClientForgotten
<1>1. TypeInv /\ OwnInv => NoClientForgotten
  BY DEF OwnInv, OnlyInv, NoClientForgotten
<1>2. QED
  BY <1>1, OwnAlways, PTL

\* The values of a function on a finite set are no more than the set has elements.
LEMMA ImageBounded ==
  ASSUME NEW f, NEW D, IsFiniteSet(D)
  PROVE  /\ IsFiniteSet({f[x] : x \in D})
         /\ Cardinality({f[x] : x \in D}) <= Cardinality(D)
<1> DEFINE T == {f[x] : x \in D}
           g == [x \in D |-> f[x]]
<1>1. g \in Surjection(D, T)
  BY DEF Surjection
<1>2. QED
  BY <1>1, FS_Surjection

\* Connections may exceed the ceiling of the pool (session_pool.py:202, 414-424), but by one at
\* most for each call that has a client of its own in hand, for any number of tasks, accounts and
\* places: the others are entries.
THEOREM ConnectionsBounded == Spec => []ConnectedWithinReach
<1>1. ASSUME TypeInv, OwnInv, PoolWithinCeiling PROVE ConnectedWithinReach
  <2> DEFINE S == {c \in up \ leaked : c[1] \notin replaced}
             Entries == {pool[a] : a \in Pooled}
             Hands == {client[t] : t \in Handling}
  <2>1. S \subseteq Entries \union Hands
    <3> SUFFICES ASSUME NEW c \in S PROVE c \in Entries \union Hands
      OBVIOUS
    <3>1. c \in Client /\ c # Nobody /\ c[1] \in Account
      BY <1>1, PoolAssumption DEF TypeInv, TypeOK, Client
    <3>2. CASE pool[c[1]] = c
      BY <3>1, <3>2 DEF Pooled
    <3>3. CASE \E t \in Task : pc[t] \in {"close", "authorize", "insert", "reject"} /\ client[t] = c
      BY <3>3 DEF Handling
    <3>4. QED
      BY <1>1, <3>2, <3>3 DEF OwnInv, OnlyInv
  <2>2. IsFiniteSet(Pooled) /\ IsFiniteSet(Handling)
    BY PoolAssumption, FS_Subset DEF Pooled, Handling
  <2>3. IsFiniteSet(Entries) /\ Cardinality(Entries) <= Cardinality(Pooled)
    BY <2>2, ImageBounded
  <2>4. IsFiniteSet(Hands) /\ Cardinality(Hands) <= Cardinality(Handling)
    BY <2>2, ImageBounded
  <2>5. /\ IsFiniteSet(Entries \union Hands)
        /\ Cardinality(Entries \union Hands)
             = Cardinality(Entries) + Cardinality(Hands) - Cardinality(Entries \intersect Hands)
    BY <2>3, <2>4, FS_Union
  <2>6. IsFiniteSet(Entries \intersect Hands)
    BY <2>3, FS_Subset
  <2>7. IsFiniteSet(S) /\ Cardinality(S) <= Cardinality(Entries \union Hands)
    BY <2>1, <2>5, FS_Subset
  <2> HIDE DEF S, Entries, Hands
  <2>8. /\ Cardinality(S) \in Nat /\ Cardinality(Entries) \in Nat /\ Cardinality(Hands) \in Nat
        /\ Cardinality(Entries \intersect Hands) \in Nat /\ Cardinality(Pooled) \in Nat
        /\ Cardinality(Handling) \in Nat
    BY <2>2, <2>3, <2>4, <2>6, <2>7, FS_CardinalityType
  <2>9. Cardinality(S) <= MaxConcurrent + Cardinality(Handling)
    BY <1>1, <2>3, <2>4, <2>5, <2>7, <2>8, PoolAssumption DEF PoolWithinCeiling
  <2>10. QED
    BY <2>9 DEF ConnectedWithinReach, S
<1>2. QED
  BY <1>1, OwnAlways, CeilingHolds, PTL
=============================================================================

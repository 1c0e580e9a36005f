-------------------------- MODULE RetryWorkerProofs --------------------------
(***************************************************************************)
(* Theorems about RetryWorker, for any tasks, workers and bounds.          *)
(***************************************************************************)
EXTENDS RetryWorker, TLAPS

\* What a client's label says about its locals, and what the lease hash is keyed by.
LocalsOK ==
  /\ \A t \in Task : leases[t] # NoLease =>
       leases[t].raw.id = t /\ (leases[t].expired => leases[t].raw.att < MaxAtt)
  /\ \A c \in Consumer :
       /\ \A r \in snap[c] : r.att < MaxAtt
       /\ pc[c] \in {"lease", "work", "settle", "remove", "unlease", "push"} => task[c] \in Payload
       /\ pc[c] \in {"hdel_removed", "hdel_missing", "repush", "remove", "unlease"} =>
            target[c] \in Payload
       /\ pc[c] \in {"hdel_removed", "hdel_missing", "repush"} => target[c].att < MaxAtt
       /\ pc[c] \in {"remove", "unlease"} => target[c].id = task[c].id
       /\ pc[c] \in {"settle", "remove", "unlease", "push"} => op[c] # "none"
       /\ op[c] = "requeue" => pc[c] \in {"settle", "remove", "unlease", "push"}
                               /\ task[c].att < MaxAttempts

TypeInv == TypeOK /\ LocalsOK

LEMMA PolicyType ==
  ASSUME NEW o \in Outcomes \union {"error"}, NEW n \in Nat
  PROVE  /\ Policy(o, n) \in {"ack", "requeue", "dead_letter"}
         /\ Policy(o, n) = "requeue" => n <= MaxAttempts
BY DEF Policy

LEMMA LremType ==
  ASSUME NEW bag \in [Payload -> Nat], NEW r \in Payload
  PROVE  /\ Lrem(bag, r) \in [Payload -> Nat]
         /\ \A s \in Payload : s # r => Lrem(bag, r)[s] = bag[s]
         /\ \A s \in Payload : Lrem(bag, r)[s] > 0 => bag[s] > 0
         /\ bag[r] = 0 => Lrem(bag, r) = bag
BY DEF Lrem

LEMMA AddType ==
  ASSUME NEW bag \in [Payload -> Nat], NEW r \in Payload
  PROVE  /\ Add(bag, r) \in [Payload -> Nat]
         /\ Add(bag, r)[r] > 0
         /\ \A s \in Payload : s # r => Add(bag, r)[s] = bag[s]
         /\ \A s \in Payload : bag[s] > 0 => Add(bag, r)[s] > 0
         /\ \A s \in Payload : Add(bag, r)[s] > 0 => bag[s] > 0 \/ s = r
BY DEF Add

\* The texts written back are payloads again.
LEMMA WriteBackType ==
  ASSUME NEW r \in Payload, r.att < MaxAtt
  PROVE  Recovered(r) \in Payload /\ Recovered(r).id = r.id /\ Recovered(r).att = r.att + 1
         /\ Retried(r) \in Payload /\ Retried(r).id = r.id /\ Retried(r).att = r.att + 1
BY QueueAssumption DEF Recovered, Retried, Payload

LEMMA InitTypeInv == Init => TypeInv
<1> SUFFICES ASSUME Init PROVE TypeInv
  OBVIOUS
<1> USE DEF Init, QueueInit
<1>1. TypeOK
  BY WorkerAssumption DEF TypeOK, Labels
<1>2. LocalsOK
  BY DEF LocalsOK
<1>3. QED
  BY <1>1, <1>2 DEF TypeInv
LEMMA NextTypeInv == TypeInv /\ [Next]_vars => TypeInv'
<1> SUFFICES ASSUME TypeOK, LocalsOK, [Next]_vars PROVE TypeOK' /\ LocalsOK'
  BY DEF TypeInv
<1> USE DEF Goto, Leave, Return, redis, locals, queueVars, ghosts, vars, Fault
<1>1. ASSUME NEW t \in Task, Submit(t) PROVE TypeOK' /\ LocalsOK'
  <2>1. [id |-> t, att |-> 0, via |-> "enqueue"] \in Payload
    BY QueueAssumption DEF Payload
  <2>2. TypeOK'
    BY <1>1, <2>1 DEF Submit, Enqueue, Lpush, TypeOK
  <2>3. LocalsOK'
    BY <1>1 DEF Submit, Enqueue, LocalsOK
  <2>4. QED
    BY <2>2, <2>3
<1>2. ASSUME NEW t \in Task, LeaseExpires(t) PROVE TypeOK' /\ LocalsOK'
  <2>1. leases[t] \in Lease /\ leases' \in [Task -> Lease \union {NoLease}]
    BY <1>2 DEF LeaseExpires, Expire, TypeOK, Lease
  <2>2. TypeOK'
    BY <1>2, <2>1 DEF LeaseExpires, Expire, TypeOK
  <2>3. LocalsOK'
    BY <1>2, <2>1 DEF LeaseExpires, Expire, TypeOK, LocalsOK, Lease
  <2>4. QED
    BY <2>2, <2>3
<1>3. ASSUME NEW c \in Consumer, Work(c) PROVE TypeOK' /\ LocalsOK'
  <2>1. CASE ReadLeases(c) /\ UNCHANGED <<ghosts, faults>>
    <3>1. \A t \in Task : leases[t] # NoLease => leases[t] \in Lease /\ leases[t].raw \in Payload
      BY DEF TypeOK, Lease
    <3>2. TypeOK'
      BY <2>1, <3>1 DEF ReadLeases, TypeOK, Labels
    <3>3. LocalsOK'
      BY <2>1 DEF ReadLeases, TypeOK, LocalsOK
    <3>4. QED
      BY <3>2, <3>3
  <2>2. CASE RecoverRemove(c) /\ UNCHANGED <<ghosts, faults>>
    <3>1. PICK r \in snap[c] : /\ processing' = Lrem(processing, r)
                               /\ target' = [target EXCEPT ![c] = r]
                               /\ snap' = [snap EXCEPT ![c] = @ \ {r}]
                               /\ pc' = [pc EXCEPT ![c] = IF processing[r] > 0
                                            THEN "hdel_removed" ELSE "hdel_missing"]
      BY <2>2 DEF RecoverRemove
    <3>2. r \in Payload /\ r.att < MaxAtt
      BY DEF TypeOK, LocalsOK
    <3>3. processing' \in [Payload -> Nat]
      BY <3>1, <3>2, LremType DEF TypeOK
    <3>4. TypeOK'
      BY <2>2, <3>1, <3>2, <3>3 DEF RecoverRemove, TypeOK, Labels
    <3>5. LocalsOK'
      BY <2>2, <3>1, <3>2 DEF RecoverRemove, TypeOK, LocalsOK
    <3>6. QED
      BY <3>4, <3>5
  <2>3. CASE RecoverDrop(c) /\ UNCHANGED <<ghosts, faults>>
    <3>1. TypeOK'
      BY <2>3 DEF RecoverDrop, TypeOK, Labels
    <3>2. LocalsOK'
      BY <2>3 DEF RecoverDrop, TypeOK, LocalsOK
    <3>3. QED
      BY <3>1, <3>2
  <2>4. CASE RecoverPush(c) /\ UNCHANGED <<ghosts, faults>>
    <3>1. Recovered(target[c]) \in Payload
      BY <2>4, WriteBackType DEF RecoverPush, LocalsOK
    <3>2. TypeOK'
      BY <2>4, <3>1 DEF RecoverPush, Lpush, TypeOK, Labels
    <3>3. LocalsOK'
      BY <2>4 DEF RecoverPush, TypeOK, LocalsOK
    <3>4. QED
      BY <3>2, <3>3
  <2>5. CASE RecoverEnd(c) /\ UNCHANGED <<ghosts, faults>>
    <3>1. TypeOK'
      BY <2>5 DEF RecoverEnd, TypeOK, Labels
    <3>2. LocalsOK'
      BY <2>5 DEF RecoverEnd, TypeOK, LocalsOK
    <3>3. QED
      BY <3>1, <3>2
  <2>6. CASE Pop(c) /\ UNCHANGED <<ghosts, faults>>
    <3>1. Head(pending) \in Payload /\ Tail(pending) \in Seq(Payload)
      BY <2>6 DEF Pop, TypeOK
    <3>2. processing' \in [Payload -> Nat]
      BY <2>6, <3>1, AddType DEF Pop, TypeOK
    <3>3. TypeOK'
      BY <2>6, <3>1, <3>2 DEF Pop, TypeOK, Labels
    <3>4. LocalsOK'
      BY <2>6, <3>1 DEF Pop, TypeOK, LocalsOK
    <3>5. QED
      BY <3>3, <3>4
  <2>7. CASE PopTimeout(c) /\ UNCHANGED <<ghosts, faults>>
    <3>1. TypeOK'
      BY <2>7 DEF PopTimeout, TypeOK, Labels
    <3>2. LocalsOK'
      BY <2>7 DEF PopTimeout, TypeOK, LocalsOK
    <3>3. QED
      BY <3>1, <3>2
  <2>8. CASE Reserve(c)
    <3>1. task[c] \in Payload /\ task[c].id \in Task
      BY <2>8 DEF Reserve, PutLease, LocalsOK, Payload
    <3>2. [raw |-> task[c], owner |-> c, expired |-> FALSE] \in Lease
      BY <3>1 DEF Lease
    <3>3. TypeOK'
      BY <2>8, <3>1, <3>2 DEF Reserve, PutLease, TypeOK, Labels
    <3>4. LocalsOK'
      BY <2>8, <3>1, <3>2 DEF Reserve, PutLease, TypeOK, LocalsOK
    <3>5. QED
      BY <3>3, <3>4
  <2>9. CASE Finish(c) /\ UNCHANGED <<ghosts, faults>>
    <3>1. PICK o \in Outcomes : op' = [op EXCEPT ![c] = Policy(o, task[c].att + 1)]
      BY <2>9 DEF Finish
    <3>2. task[c] \in Payload /\ task[c].att \in Nat
      BY <2>9, QueueAssumption DEF Finish, LocalsOK, Payload
    <3>3. /\ Policy(o, task[c].att + 1) \in {"ack", "requeue", "dead_letter"}
          /\ Policy(o, task[c].att + 1) = "requeue" => task[c].att + 1 <= MaxAttempts
      BY <3>2, PolicyType
    <3>4. TypeOK'
      BY <2>9, <3>1, <3>3 DEF Finish, TypeOK, Labels
    <3>5. LocalsOK'
      BY <2>9, <3>1, <3>2, <3>3, WorkerAssumption DEF Finish, TypeOK, LocalsOK
    <3>6. QED
      BY <3>4, <3>5
  <2>10. CASE ReadLease(c) /\ UNCHANGED <<ghosts, faults>>
    <3>1. task[c] \in Payload /\ task[c].id \in Task
      BY <2>10 DEF ReadLease, LocalsOK, Payload
    <3>2. leases[task[c].id] # NoLease => leases[task[c].id] \in Lease
                                        /\ leases[task[c].id].raw \in Payload
      BY <3>1 DEF TypeOK, Lease
    <3>3. TypeOK'
      BY <2>10, <3>1, <3>2 DEF ReadLease, TypeOK, Labels
    <3>4. CASE leases[task[c].id] = NoLease
      <4>1. /\ leases' = leases
            /\ pc' = [pc EXCEPT ![c] = "recover"]
            /\ task' = [task EXCEPT ![c] = NoTask]
            /\ target' = [target EXCEPT ![c] = NoTask]
            /\ snap' = [snap EXCEPT ![c] = {}]
            /\ op' = [op EXCEPT ![c] = "none"]
        BY <2>10, <3>4 DEF ReadLease
      <4>2. LocalsOK'
        BY <4>1 DEF TypeOK, LocalsOK
      <4>3. QED
        BY <3>3, <4>2
    <3>5. CASE leases[task[c].id] # NoLease
      <4>1. leases[task[c].id].raw.id = task[c].id
        BY <3>1, <3>5 DEF LocalsOK
      <4>2. /\ leases' = leases
            /\ pc' = [pc EXCEPT ![c] = "remove"]
            /\ target' = [target EXCEPT ![c] = leases[task[c].id].raw]
            /\ UNCHANGED <<task, snap, op>>
        BY <2>10, <3>5 DEF ReadLease
      <4>3. pc[c] = "settle"
        BY <2>10 DEF ReadLease
      <4>4. LocalsOK'
        BY <3>1, <3>2, <3>5, <4>1, <4>2, <4>3 DEF TypeOK, LocalsOK
      <4>5. QED
        BY <3>3, <4>4
    <3>6. QED
      BY <3>4, <3>5
  <2>11. CASE RemoveInflight(c) /\ UNCHANGED <<submitted, lost, delivered, overrun, reopened, faults>>
                               /\ settled' \in {settled, settled \union {task[c].id}}
    <3>1. task[c].id \in Task /\ target[c] \in Payload
      BY <2>11 DEF RemoveInflight, LocalsOK, Payload
    <3>2. processing' \in [Payload -> Nat]
      BY <2>11, <3>1, LremType DEF RemoveInflight, TypeOK
    <3>3. TypeOK'
      BY <2>11, <3>1, <3>2 DEF RemoveInflight, TypeOK, Labels
    <3>4. LocalsOK'
      BY <2>11, <3>1 DEF RemoveInflight, TypeOK, LocalsOK
    <3>5. QED
      BY <3>3, <3>4
  <2>12. CASE DropLease(c) /\ UNCHANGED <<ghosts, faults>>
    <3>1. TypeOK'
      BY <2>12 DEF DropLease, TypeOK, Labels
    <3>2. LocalsOK'
      BY <2>12 DEF DropLease, TypeOK, LocalsOK
    <3>3. QED
      BY <3>1, <3>2
  <2>13. CASE Push(c) /\ UNCHANGED <<submitted, lost, delivered, overrun, reopened, faults>>
                     /\ settled' \in {settled, settled \union {task[c].id}}
    <3>1. task[c] \in Payload /\ task[c].id \in Task
      BY <2>13 DEF Push, LocalsOK, Payload
    <3>2. op[c] = "requeue" => Retried(task[c]) \in Payload
      BY <3>1, WriteBackType, WorkerAssumption, QueueAssumption DEF LocalsOK, Payload
    <3>3. TypeOK'
      <4>1. pending' \in Seq(Payload) /\ dlq' \subseteq Payload
        <5>1. CASE op[c] = "requeue" /\ Lpush(Retried(task[c])) /\ UNCHANGED dlq
          BY <3>2, <5>1 DEF Lpush, TypeOK
        <5>2. CASE dlq' = dlq \union {task[c]} /\ UNCHANGED pending
          BY <3>1, <5>2 DEF TypeOK
        <5>3. QED
          BY <2>13, <5>1, <5>2 DEF Push
      <4>2. settled' \subseteq Task
        BY <2>13, <3>1 DEF TypeOK
      <4>3. QED
        BY <2>13, <4>1, <4>2 DEF Push, TypeOK, Labels
    <3>4. LocalsOK'
      BY <2>13, <3>1 DEF Push, TypeOK, LocalsOK
    <3>5. QED
      BY <3>3, <3>4
  <2>14. QED
    BY <1>3, <2>1, <2>2, <2>3, <2>4, <2>5, <2>6, <2>7, <2>8, <2>9, <2>10, <2>11, <2>12, <2>13
    DEF Work, Recover, Settle
<1>4. ASSUME NEW c \in Consumer, Crash(c) \/ ReserveFails(c) PROVE TypeOK' /\ LocalsOK'
  <2>1. InHand(c) \subseteq Task
    BY DEF InHand, LocalsOK, Payload
  <2>2. TypeOK'
    <3>1. lost' \subseteq Task /\ faults' \in 0..MaxFaults
      BY <1>4, <2>1, WorkerAssumption DEF Crash, ReserveFails, TypeOK
    <3>2. CASE Crash(c)
      BY <3>1, <3>2 DEF Crash, TypeOK, Labels
    <3>3. CASE ReserveFails(c)
      BY <3>1, <3>3 DEF ReserveFails, TypeOK, Labels
    <3>4. QED
      BY <1>4, <3>2, <3>3
  <2>3. LocalsOK'
    <3>1. /\ UNCHANGED leases
          /\ \A d \in Consumer :
               IF d = c THEN pc'[d] \in {"down", "recover"} /\ snap'[d] = {} /\ op'[d] = "none"
               ELSE pc'[d] = pc[d] /\ snap'[d] = snap[d] /\ op'[d] = op[d]
                    /\ task'[d] = task[d] /\ target'[d] = target[d]
      BY <1>4 DEF Crash, ReserveFails, TypeOK
    <3>2. QED
      BY <3>1 DEF LocalsOK
  <2>4. QED
    BY <2>2, <2>3
<1>5. ASSUME NEW c \in Consumer, Restart(c) PROVE TypeOK' /\ LocalsOK'
  <2>1. TypeOK'
    BY <1>5 DEF Restart, TypeOK, Labels
  <2>2. LocalsOK'
    BY <1>5 DEF Restart, TypeOK, LocalsOK
  <2>3. QED
    BY <2>1, <2>2
<1>6. ASSUME NEW c \in Consumer, AckFails(c) PROVE TypeOK' /\ LocalsOK'
  <2>1. task[c] \in Payload /\ task[c].att \in Nat
    BY <1>6, QueueAssumption DEF AckFails, LocalsOK, Payload
  <2>2. /\ Policy("error", task[c].att + 1) \in {"ack", "requeue", "dead_letter"}
        /\ Policy("error", task[c].att + 1) = "requeue" => task[c].att + 1 <= MaxAttempts
    <3>1. "error" \in Outcomes \union {"error"} /\ task[c].att + 1 \in Nat
      BY <2>1
    <3>2. QED
      BY <3>1, PolicyType
  <2>3. TypeOK'
    <3>1. task[c].id \in Task
      BY <2>1 DEF Payload
    <3>2. reopened' \subseteq Task /\ faults' \in 0..MaxFaults
      BY <1>6, <3>1, WorkerAssumption DEF AckFails, TypeOK
    <3>3. QED
      BY <1>6, <2>2, <3>2 DEF AckFails, TypeOK, Labels
  <2>4. LocalsOK'
    BY <1>6, <2>1, <2>2, WorkerAssumption DEF AckFails, TypeOK, LocalsOK
  <2>5. QED
    BY <2>3, <2>4
<1>7. ASSUME Reset PROVE TypeOK' /\ LocalsOK'
  <2>1. TypeOK'
    BY <1>7, WorkerAssumption DEF Reset, Purge, TypeOK
  <2>2. LocalsOK'
    BY <1>7 DEF Reset, Purge, LocalsOK
  <2>3. QED
    BY <2>1, <2>2
<1>8. ASSUME UNCHANGED vars PROVE TypeOK' /\ LocalsOK'
  BY <1>8 DEF TypeOK, LocalsOK
<1>9. QED
  BY <1>1, <1>2, <1>3, <1>4, <1>5, <1>6, <1>7, <1>8 DEF Next

\* The type invariant: every Redis key and every worker's locals are well formed, whatever the
\* interleaving, the leases and the faults.
THEOREM TypeCorrect == Spec => []TypeOK
<1>1. TypeInv => TypeOK
  BY DEF TypeInv
<1>2. QED
  BY InitTypeInv, NextTypeInv, <1>1, PTL DEF Spec
-----------------------------------------------------------------------------
(* "_attempts" never exceeds the number of deliveries *)

\* Every payload that may still be written back, wherever it is.
AttemptsInv ==
  /\ AttemptsAreDeliveries
  /\ \A t \in Task : leases[t] # NoLease => leases[t].raw.att < delivered[t]
  /\ \A c \in Consumer :
       /\ \A r \in snap[c] : r.att < delivered[r.id]
       /\ pc[c] = "lease" => task[c].att <= delivered[task[c].id]
       /\ pc[c] \in {"work", "settle", "remove", "unlease", "push"} =>
            task[c].att < delivered[task[c].id]
       /\ pc[c] \in {"hdel_removed", "hdel_missing", "repush"} =>
            target[c].att < delivered[target[c].id]

LEMMA PayloadFields ==
  ASSUME NEW r \in Payload
  PROVE  r.id \in Task /\ r.att \in Nat
BY QueueAssumption DEF Payload

LEMMA AppendElements ==
  ASSUME NEW q \in Seq(Payload), NEW r \in Payload
  PROVE  /\ Append(q, r) \in Seq(Payload)
         /\ Len(Append(q, r)) = Len(q) + 1
         /\ \A i \in 1..Len(q) : Append(q, r)[i] = q[i]
         /\ Append(q, r)[Len(q) + 1] = r
OBVIOUS

LEMMA TailElements ==
  ASSUME NEW q \in Seq(Payload), q # <<>>
  PROVE  /\ Head(q) = q[1] /\ 1 \in 1..Len(q)
         /\ Len(Tail(q)) = Len(q) - 1
         /\ \A i \in 1..Len(Tail(q)) : Tail(q)[i] = q[i + 1] /\ i + 1 \in 1..Len(q)
         /\ \A i \in 1..Len(q) : i # 1 => i - 1 \in 1..Len(Tail(q)) /\ Tail(q)[i - 1] = q[i]
OBVIOUS

LEMMA InitAttempts == Init => AttemptsInv
BY DEF Init, QueueInit, AttemptsInv, AttemptsAreDeliveries

LEMMA NextAttempts == TypeInv /\ AttemptsInv /\ [Next]_vars => AttemptsInv'
<1> SUFFICES ASSUME TypeOK, LocalsOK, AttemptsInv, [Next]_vars PROVE AttemptsInv'
  BY DEF TypeInv
<1> USE DEF Goto, Leave, Return, redis, locals, queueVars, ghosts, vars, Fault
<1>0. /\ \A i \in 1..Len(pending) : pending[i] \in Payload /\ pending[i].id \in Task
                                     /\ pending[i].att \in Nat
      /\ \A t \in Task : delivered[t] \in Nat
  BY PayloadFields DEF TypeOK
<1>1. ASSUME NEW t \in Task, Submit(t) PROVE AttemptsInv'
  <2> DEFINE r == [id |-> t, att |-> 0, via |-> "enqueue"]
  <2>1. r \in Payload
    BY QueueAssumption DEF Payload
  <2>2. pending' = Append(pending, r)
    BY <1>1 DEF Submit, Enqueue, Lpush
  <2>3. \A i \in 1..Len(pending') : pending'[i].att <= delivered[pending'[i].id]
    BY <1>0, <2>1, <2>2, AppendElements DEF TypeOK, AttemptsInv, AttemptsAreDeliveries
  <2>4. QED
    BY <1>1, <2>3 DEF Submit, Enqueue, AttemptsInv, AttemptsAreDeliveries
<1>2. ASSUME NEW t \in Task, LeaseExpires(t) PROVE AttemptsInv'
  <2>1. leases' = [leases EXCEPT ![t].expired = TRUE] /\ leases[t] \in Lease
    BY <1>2 DEF LeaseExpires, Expire, TypeOK
  <2>2. \A u \in Task : leases'[u] # NoLease => leases[u] # NoLease /\ leases'[u].raw = leases[u].raw
    BY <1>2, <2>1 DEF LeaseExpires, Expire, TypeOK, Lease
  <2>3. QED
    BY <1>2, <2>2 DEF LeaseExpires, Expire, AttemptsInv, AttemptsAreDeliveries
<1>3. ASSUME NEW c \in Consumer, Work(c) PROVE AttemptsInv'
  <2>1. CASE ReadLeases(c) /\ UNCHANGED <<ghosts, faults>>
    <3>1. \A t \in Task : leases[t] # NoLease => leases[t].raw.id = t
      BY DEF LocalsOK
    <3>2. QED
      BY <2>1, <3>1 DEF ReadLeases, TypeOK, AttemptsInv, AttemptsAreDeliveries
  <2>2. CASE RecoverRemove(c) /\ UNCHANGED <<ghosts, faults>>
    <3>1. PICK r \in snap[c] : /\ processing' = Lrem(processing, r)
                               /\ target' = [target EXCEPT ![c] = r]
                               /\ snap' = [snap EXCEPT ![c] = @ \ {r}]
      BY <2>2 DEF RecoverRemove
    <3>2. r \in Payload /\ r.att < delivered[r.id]
      BY DEF TypeOK, AttemptsInv
    <3>3. \A p \in Payload : processing'[p] > 0 => processing[p] > 0
      <4>1. processing \in [Payload -> Nat]
        BY DEF TypeOK
      <4>2. QED
        BY <3>1, <3>2, <4>1, LremType
    <3>4. AttemptsAreDeliveries'
      BY <2>2, <3>3 DEF RecoverRemove, AttemptsInv, AttemptsAreDeliveries
    <3>5. QED
      BY <2>2, <3>1, <3>2, <3>4 DEF RecoverRemove, TypeOK, AttemptsInv
  <2>3. CASE RecoverDrop(c) /\ UNCHANGED <<ghosts, faults>>
    BY <2>3 DEF RecoverDrop, TypeOK, AttemptsInv, AttemptsAreDeliveries
  <2>4. CASE RecoverPush(c) /\ UNCHANGED <<ghosts, faults>>
    <3>1. /\ target[c] \in Payload /\ Recovered(target[c]) \in Payload
          /\ Recovered(target[c]).id = target[c].id
          /\ Recovered(target[c]).att = target[c].att + 1
      BY <2>4, WriteBackType DEF RecoverPush, LocalsOK
    <3>2. target[c].att + 1 <= delivered[target[c].id]
      BY <1>0, <2>4, <3>1, PayloadFields DEF RecoverPush, AttemptsInv
    <3>3. pending' = Append(pending, Recovered(target[c]))
      BY <2>4 DEF RecoverPush, Lpush
    <3>4. \A i \in 1..Len(pending') : pending'[i].att <= delivered[pending'[i].id]
      BY <1>0, <3>1, <3>2, <3>3, AppendElements DEF TypeOK, AttemptsInv, AttemptsAreDeliveries
    <3>5. AttemptsAreDeliveries'
      BY <2>4, <3>4 DEF RecoverPush, AttemptsInv, AttemptsAreDeliveries
    <3>6. QED
      BY <2>4, <3>5 DEF RecoverPush, TypeOK, AttemptsInv
  <2>5. CASE RecoverEnd(c) /\ UNCHANGED <<ghosts, faults>>
    BY <2>5 DEF RecoverEnd, TypeOK, AttemptsInv, AttemptsAreDeliveries
  <2>6. CASE Pop(c) /\ UNCHANGED <<ghosts, faults>>
    <3>1. /\ pending # <<>> /\ pending' = Tail(pending)
          /\ processing' = Add(processing, Head(pending))
          /\ task' = [task EXCEPT ![c] = Head(pending)]
          /\ pc' = [pc EXCEPT ![c] = "lease"]
          /\ UNCHANGED <<leases, dlq, target, snap, delivered>>
      BY <2>6 DEF Pop
    <3>2. /\ Head(pending) \in Payload
          /\ Head(pending).att <= delivered[Head(pending).id]
      BY <1>0, <3>1, TailElements DEF TypeOK, AttemptsInv, AttemptsAreDeliveries
    <3>3. \A i \in 1..Len(pending') : pending'[i].att <= delivered'[pending'[i].id]
      BY <1>0, <3>1, TailElements DEF TypeOK, AttemptsInv, AttemptsAreDeliveries
    <3>4. \A p \in Payload : processing'[p] > 0 => p.att <= delivered'[p.id]
      <4>1. \A p \in Payload : processing'[p] > 0 => processing[p] > 0 \/ p = Head(pending)
        BY <3>1, <3>2, AddType DEF TypeOK
      <4>2. QED
        BY <3>1, <3>2, <4>1 DEF AttemptsInv, AttemptsAreDeliveries
    <3>5. AttemptsAreDeliveries'
      BY <3>1, <3>3, <3>4 DEF AttemptsInv, AttemptsAreDeliveries
    <3>6. QED
      BY <3>1, <3>2, <3>5 DEF TypeOK, AttemptsInv
  <2>7. CASE PopTimeout(c) /\ UNCHANGED <<ghosts, faults>>
    BY <2>7 DEF PopTimeout, TypeOK, AttemptsInv, AttemptsAreDeliveries
  <2>8. CASE Reserve(c)
    <3>1. task[c] \in Payload /\ task[c].att \in Nat /\ task[c].id \in Task
          /\ task[c].att <= delivered[task[c].id]
      BY <2>8, PayloadFields DEF Reserve, PutLease, LocalsOK, AttemptsInv
    <3>2. /\ delivered' = [delivered EXCEPT ![task[c].id] = @ + 1]
          /\ leases' = [leases EXCEPT ![task[c].id] =
                          [raw |-> task[c], owner |-> c, expired |-> FALSE]]
          /\ pc' = [pc EXCEPT ![c] = "work"]
          /\ UNCHANGED <<pending, processing, dlq, task, target, snap>>
      BY <2>8 DEF Reserve, PutLease
    <3>3. \A t \in Task : delivered[t] <= delivered'[t]
      BY <1>0, <3>1, <3>2 DEF TypeOK
    <3>4. task[c].att < delivered'[task[c].id] /\ \A t \in Task : delivered'[t] \in Nat
      BY <1>0, <3>1, <3>2 DEF TypeOK
    <3>5. \A r \in Payload : /\ r.att < delivered[r.id] => r.att < delivered'[r.id]
                             /\ r.att <= delivered[r.id] => r.att <= delivered'[r.id]
      BY <1>0, <3>3, <3>4, PayloadFields
    <3>6. AttemptsAreDeliveries'
      BY <1>0, <3>2, <3>5 DEF TypeOK, AttemptsInv, AttemptsAreDeliveries
    <3>7. \A t \in Task : leases'[t] # NoLease => leases'[t].raw.att < delivered'[t]
      <4>1. \A t \in Task : leases[t] # NoLease => leases[t].raw \in Payload /\ leases[t].raw.id = t
        BY DEF TypeOK, LocalsOK, Lease
      <4>2. QED
        BY <3>1, <3>2, <3>4, <3>5, <4>1 DEF TypeOK, AttemptsInv
    <3>8. ASSUME NEW d \in Consumer
          PROVE  /\ \A r \in snap'[d] : r.att < delivered'[r.id]
                 /\ pc'[d] = "lease" => task'[d].att <= delivered'[task'[d].id]
                 /\ pc'[d] \in {"work", "settle", "remove", "unlease", "push"} =>
                      task'[d].att < delivered'[task'[d].id]
                 /\ pc'[d] \in {"hdel_removed", "hdel_missing", "repush"} =>
                      target'[d].att < delivered'[target'[d].id]
      BY <3>2, <3>4, <3>5 DEF TypeOK, LocalsOK, AttemptsInv
    <3>9. QED
      BY <3>6, <3>7, <3>8 DEF AttemptsInv
  <2>9. CASE Finish(c) /\ UNCHANGED <<ghosts, faults>>
    BY <2>9 DEF Finish, TypeOK, AttemptsInv, AttemptsAreDeliveries
  <2>10. CASE ReadLease(c) /\ UNCHANGED <<ghosts, faults>>
    <3>1. pc[c] = "settle" /\ UNCHANGED <<pending, processing, leases, dlq, delivered>>
      BY <2>10 DEF ReadLease
    <3>2. CASE Return(c)
      BY <3>1, <3>2 DEF TypeOK, AttemptsInv, AttemptsAreDeliveries
    <3>3. CASE pc' = [pc EXCEPT ![c] = "remove"] /\ UNCHANGED <<task, snap>>
               /\ target' = [target EXCEPT ![c] = leases[task[c].id].raw]
      BY <3>1, <3>3 DEF TypeOK, AttemptsInv, AttemptsAreDeliveries
    <3>4. QED
      BY <2>10, <3>2, <3>3 DEF ReadLease
  <2>11. CASE RemoveInflight(c) /\ UNCHANGED <<delivered, overrun>>
    <3>1. \A p \in Payload : processing'[p] > 0 => processing[p] > 0
      BY <2>11, LremType DEF RemoveInflight, TypeOK, LocalsOK
    <3>2. AttemptsAreDeliveries'
      BY <2>11, <3>1 DEF RemoveInflight, AttemptsInv, AttemptsAreDeliveries
    <3>3. QED
      BY <2>11, <3>2 DEF RemoveInflight, TypeOK, AttemptsInv
  <2>12. CASE DropLease(c) /\ UNCHANGED <<ghosts, faults>>
    BY <2>12 DEF DropLease, TypeOK, AttemptsInv, AttemptsAreDeliveries
  <2>13. CASE Push(c) /\ UNCHANGED <<delivered, overrun>>
    <3>1. task[c] \in Payload /\ task[c].att < delivered[task[c].id]
      BY <2>13 DEF Push, LocalsOK, AttemptsInv
    <3>2. /\ pc[c] = "push" /\ UNCHANGED <<processing, leases, delivered>>
          /\ Return(c)
      BY <2>13 DEF Push
    <3>3. CASE op[c] = "requeue" /\ Lpush(Retried(task[c])) /\ UNCHANGED dlq
      <4>1. /\ Retried(task[c]) \in Payload /\ Retried(task[c]).id = task[c].id
            /\ Retried(task[c]).att = task[c].att + 1
        BY <3>1, <3>3, WriteBackType, WorkerAssumption, QueueAssumption, PayloadFields DEF LocalsOK
      <4>2. \A i \in 1..Len(pending') : pending'[i].att <= delivered[pending'[i].id]
        BY <1>0, <3>1, <3>3, <4>1, PayloadFields, AppendElements
        DEF Lpush, TypeOK, AttemptsInv, AttemptsAreDeliveries
      <4>3. AttemptsAreDeliveries'
        BY <3>2, <3>3, <4>2 DEF AttemptsInv, AttemptsAreDeliveries
      <4>4. QED
        BY <3>2, <4>3 DEF TypeOK, AttemptsInv
    <3>4. CASE dlq' = dlq \union {task[c]} /\ UNCHANGED pending
      <4>1. AttemptsAreDeliveries'
        BY <3>1, <3>2, <3>4 DEF AttemptsInv, AttemptsAreDeliveries
      <4>2. QED
        BY <3>2, <4>1 DEF TypeOK, AttemptsInv
    <3>5. QED
      BY <2>13, <3>3, <3>4 DEF Push
  <2>14. QED
    BY <1>3, <2>1, <2>2, <2>3, <2>4, <2>5, <2>6, <2>7, <2>8, <2>9, <2>10, <2>11, <2>12, <2>13
    DEF Work, Recover, Settle
<1>4. ASSUME NEW c \in Consumer, Crash(c) \/ ReserveFails(c) \/ Restart(c) \/ AckFails(c)
      PROVE AttemptsInv'
  <2>1. AttemptsAreDeliveries'
    BY <1>4 DEF Crash, ReserveFails, Restart, AckFails, AttemptsInv, AttemptsAreDeliveries
  <2>2. CASE Crash(c)
    BY <2>1, <2>2 DEF Crash, TypeOK, AttemptsInv
  <2>3. CASE ReserveFails(c)
    BY <2>1, <2>3 DEF ReserveFails, TypeOK, AttemptsInv
  <2>4. CASE Restart(c)
    BY <2>1, <2>4 DEF Restart, TypeOK, AttemptsInv
  <2>5. CASE AckFails(c)
    BY <2>1, <2>5 DEF AckFails, TypeOK, AttemptsInv
  <2>6. QED
    BY <1>4, <2>2, <2>3, <2>4, <2>5
<1>5. ASSUME Reset PROVE AttemptsInv'
  BY <1>5 DEF Reset, Purge, AttemptsInv, AttemptsAreDeliveries
<1>6. ASSUME UNCHANGED vars PROVE AttemptsInv'
  BY <1>6 DEF AttemptsInv, AttemptsAreDeliveries
<1>7. QED
  BY <1>1, <1>2, <1>3, <1>4, <1>5, <1>6 DEF Next

\* The counter a worker gives up on never runs ahead of the deliveries: no recovery, requeue,
\* duplicate or fault makes a task look tried more often than it was.
THEOREM AttemptsCorrect == Spec => []AttemptsAreDeliveries
<1>1. AttemptsInv => AttemptsAreDeliveries
  BY DEF AttemptsInv
<1>2. QED
  BY InitTypeInv, NextTypeInv, InitAttempts, NextAttempts, <1>1, PTL DEF Spec
-----------------------------------------------------------------------------
(* The queue implements AtLeastOnce *)

\* Only submitted tasks are anywhere in the queue.
KnownInv ==
  /\ \A i \in 1..Len(pending) : pending[i].id \in submitted
  /\ \A r \in Payload : processing[r] > 0 => r.id \in submitted
  /\ \A t \in Task : leases[t] # NoLease => t \in submitted
  /\ \A c \in Consumer :
       /\ \A r \in snap[c] : r.id \in submitted
       /\ pc[c] \in {"lease", "work", "settle", "remove", "unlease", "push"} =>
            task[c].id \in submitted
       /\ pc[c] \in {"hdel_removed", "hdel_missing", "repush"} => target[c].id \in submitted

LEMMA InitKnown == Init => KnownInv
BY DEF Init, QueueInit, KnownInv

LEMMA NextKnown == TypeInv /\ KnownInv /\ [Next]_vars => KnownInv'
<1> SUFFICES ASSUME TypeOK, LocalsOK, KnownInv, [Next]_vars PROVE KnownInv'
  BY DEF TypeInv
<1> USE DEF Goto, Leave, Return, redis, locals, queueVars, ghosts, vars, Fault
<1>1. ASSUME NEW t \in Task, Submit(t) PROVE KnownInv'
  <2> DEFINE r == [id |-> t, att |-> 0, via |-> "enqueue"]
  <2>1. r \in Payload
    BY QueueAssumption DEF Payload
  <2>2. pending' = Append(pending, r) /\ submitted' = submitted \union {t}
    BY <1>1 DEF Submit, Enqueue, Lpush
  <2>3. \A i \in 1..Len(pending') : pending'[i].id \in submitted'
    BY <2>1, <2>2, AppendElements DEF TypeOK, KnownInv
  <2>4. QED
    BY <1>1, <2>3 DEF Submit, Enqueue, KnownInv
<1>2. ASSUME NEW t \in Task, LeaseExpires(t) PROVE KnownInv'
  BY <1>2 DEF LeaseExpires, Expire, TypeOK, KnownInv
<1>3. ASSUME NEW c \in Consumer, Work(c) PROVE KnownInv'
  <2>1. CASE ReadLeases(c) /\ UNCHANGED <<ghosts, faults>>
    BY <2>1 DEF ReadLeases, TypeOK, LocalsOK, KnownInv
  <2>2. CASE RecoverRemove(c) /\ UNCHANGED <<ghosts, faults>>
    <3>1. PICK r \in snap[c] : /\ processing' = Lrem(processing, r)
                               /\ target' = [target EXCEPT ![c] = r]
                               /\ snap' = [snap EXCEPT ![c] = @ \ {r}]
      BY <2>2 DEF RecoverRemove
    <3>2. r \in Payload /\ processing \in [Payload -> Nat]
      BY DEF TypeOK
    <3>3. \A p \in Payload : processing'[p] > 0 => processing[p] > 0
      BY <3>1, <3>2, LremType
    <3>4. QED
      BY <2>2, <3>1, <3>2, <3>3 DEF RecoverRemove, TypeOK, KnownInv
  <2>3. CASE RecoverDrop(c) /\ UNCHANGED <<ghosts, faults>>
    BY <2>3 DEF RecoverDrop, TypeOK, KnownInv
  <2>4. CASE RecoverPush(c) /\ UNCHANGED <<ghosts, faults>>
    <3>1. /\ Recovered(target[c]) \in Payload /\ Recovered(target[c]).id = target[c].id
          /\ target[c].id \in submitted
      BY <2>4, WriteBackType DEF RecoverPush, LocalsOK, KnownInv
    <3>2. \A i \in 1..Len(pending') : pending'[i].id \in submitted
      BY <2>4, <3>1, AppendElements DEF RecoverPush, Lpush, TypeOK, KnownInv
    <3>3. QED
      BY <2>4, <3>2 DEF RecoverPush, TypeOK, KnownInv
  <2>5. CASE RecoverEnd(c) /\ UNCHANGED <<ghosts, faults>>
    BY <2>5 DEF RecoverEnd, TypeOK, KnownInv
  <2>6. CASE Pop(c) /\ UNCHANGED <<ghosts, faults>>
    <3>1. /\ pending # <<>> /\ pending' = Tail(pending)
          /\ processing' = Add(processing, Head(pending))
          /\ task' = [task EXCEPT ![c] = Head(pending)]
          /\ pc' = [pc EXCEPT ![c] = "lease"]
          /\ UNCHANGED <<leases, dlq, target, snap, submitted>>
      BY <2>6 DEF Pop
    <3>2. Head(pending) \in Payload /\ Head(pending).id \in submitted
      BY <3>1, TailElements DEF TypeOK, KnownInv
    <3>3. \A i \in 1..Len(pending') : pending'[i].id \in submitted'
      BY <3>1, TailElements DEF TypeOK, KnownInv
    <3>4. \A p \in Payload : processing'[p] > 0 => processing[p] > 0 \/ p = Head(pending)
      BY <3>1, <3>2, AddType DEF TypeOK
    <3>5. QED
      BY <3>1, <3>2, <3>3, <3>4 DEF TypeOK, KnownInv
  <2>7. CASE PopTimeout(c) /\ UNCHANGED <<ghosts, faults>>
    BY <2>7 DEF PopTimeout, TypeOK, KnownInv
  <2>8. CASE Reserve(c)
    BY <2>8 DEF Reserve, PutLease, TypeOK, KnownInv
  <2>9. CASE Finish(c) /\ UNCHANGED <<ghosts, faults>>
    BY <2>9 DEF Finish, TypeOK, KnownInv
  <2>10. CASE ReadLease(c) /\ UNCHANGED <<ghosts, faults>>
    <3>1. pc[c] = "settle" /\ UNCHANGED <<pending, processing, leases, submitted>>
      BY <2>10 DEF ReadLease
    <3>2. CASE Return(c)
      BY <3>1, <3>2 DEF TypeOK, KnownInv
    <3>3. CASE pc' = [pc EXCEPT ![c] = "remove"] /\ UNCHANGED <<task, snap>>
               /\ target' = [target EXCEPT ![c] = leases[task[c].id].raw]
      BY <3>1, <3>3 DEF TypeOK, KnownInv
    <3>4. QED
      BY <2>10, <3>2, <3>3 DEF ReadLease
  <2>11. CASE RemoveInflight(c) /\ UNCHANGED submitted
    <3>1. target[c] \in Payload /\ processing \in [Payload -> Nat]
      BY <2>11 DEF RemoveInflight, TypeOK, LocalsOK
    <3>2. \A p \in Payload : processing'[p] > 0 => processing[p] > 0
      BY <2>11, <3>1, LremType DEF RemoveInflight
    <3>3. QED
      BY <2>11, <3>2 DEF RemoveInflight, TypeOK, KnownInv
  <2>12. CASE DropLease(c) /\ UNCHANGED <<ghosts, faults>>
    BY <2>12 DEF DropLease, TypeOK, KnownInv
  <2>13. CASE Push(c) /\ UNCHANGED submitted
    <3>1. task[c] \in Payload /\ task[c].id \in submitted
      BY <2>13 DEF Push, LocalsOK, KnownInv
    <3>2. \A i \in 1..Len(pending') : pending'[i].id \in submitted
      <4>1. CASE op[c] = "requeue" /\ Lpush(Retried(task[c]))
        <5>1. Retried(task[c]) \in Payload /\ Retried(task[c]).id = task[c].id
          BY <3>1, <4>1, WriteBackType, WorkerAssumption, QueueAssumption, PayloadFields
          DEF LocalsOK
        <5>2. QED
          BY <3>1, <4>1, <5>1, AppendElements DEF Lpush, TypeOK, KnownInv
      <4>2. CASE UNCHANGED pending
        BY <4>2 DEF KnownInv
      <4>3. QED
        BY <2>13, <4>1, <4>2 DEF Push
    <3>3. pc[c] = "push" /\ UNCHANGED <<processing, leases, submitted>> /\ Return(c)
      BY <2>13 DEF Push
    <3>4. QED
      BY <3>2, <3>3 DEF TypeOK, KnownInv
  <2>14. QED
    BY <1>3, <2>1, <2>2, <2>3, <2>4, <2>5, <2>6, <2>7, <2>8, <2>9, <2>10, <2>11, <2>12, <2>13
    DEF Work, Recover, Settle
<1>4. ASSUME NEW c \in Consumer, Crash(c) \/ ReserveFails(c) \/ Restart(c) \/ AckFails(c)
      PROVE KnownInv'
  <2>1. CASE Crash(c)
    BY <2>1 DEF Crash, TypeOK, KnownInv
  <2>2. CASE ReserveFails(c)
    BY <2>2 DEF ReserveFails, TypeOK, KnownInv
  <2>3. CASE Restart(c)
    BY <2>3 DEF Restart, TypeOK, KnownInv
  <2>4. CASE AckFails(c)
    BY <2>4 DEF AckFails, TypeOK, KnownInv
  <2>5. QED
    BY <1>4, <2>1, <2>2, <2>3, <2>4
<1>5. ASSUME Reset PROVE KnownInv'
  BY <1>5 DEF Reset, Purge, KnownInv
<1>6. ASSUME UNCHANGED vars PROVE KnownInv'
  BY <1>6 DEF KnownInv
<1>7. QED
  BY <1>1, <1>2, <1>3, <1>4, <1>5, <1>6 DEF Next
\* How each command moves the copies of a task between the lists.
LEMMA QueuedAppend ==
  ASSUME pending \in Seq(Payload), NEW r \in Payload, pending' = Append(pending, r)
  PROVE  \A u \in Task : Queued(u)' <=> Queued(u) \/ u = r.id
<1>1. /\ Len(pending') = Len(pending) + 1 /\ Len(pending) \in Nat
      /\ \A i \in 1..Len(pending) : pending'[i] = pending[i]
      /\ pending'[Len(pending) + 1] = r
  BY AppendElements
<1>2. ASSUME NEW u \in Task, Queued(u)' PROVE Queued(u) \/ u = r.id
  BY <1>1, <1>2 DEF Queued
<1>3. ASSUME NEW u \in Task, Queued(u) \/ u = r.id PROVE Queued(u)'
  <2>1. CASE Queued(u)
    <3>1. PICK i \in 1..Len(pending) : pending[i].id = u
      BY <2>1 DEF Queued
    <3>2. i \in 1..Len(pending') /\ pending'[i].id = u
      BY <1>1, <3>1
    <3>3. QED
      BY <3>2 DEF Queued
  <2>2. CASE u = r.id
    <3>1. Len(pending) + 1 \in 1..Len(pending') /\ pending'[Len(pending) + 1].id = u
      BY <1>1, <2>2
    <3>2. QED
      BY <3>1 DEF Queued
  <2>3. QED
    BY <1>3, <2>1, <2>2
<1>4. QED
  BY <1>2, <1>3

LEMMA QueuedTail ==
  ASSUME pending \in Seq(Payload), pending # <<>>, pending' = Tail(pending)
  PROVE  /\ Queued(Head(pending).id)
         /\ \A u \in Task : Queued(u)' => Queued(u)
         /\ \A u \in Task : Queued(u) => Queued(u)' \/ u = Head(pending).id
<1>1. /\ Head(pending) = pending[1] /\ 1 \in 1..Len(pending)
      /\ \A i \in 1..Len(pending') : pending'[i] = pending[i + 1] /\ i + 1 \in 1..Len(pending)
      /\ \A i \in 1..Len(pending) : i # 1 => i - 1 \in 1..Len(pending') /\ pending'[i - 1] = pending[i]
  BY TailElements
<1>2. Queued(Head(pending).id)
  BY <1>1 DEF Queued
<1>3. ASSUME NEW u \in Task, Queued(u)' PROVE Queued(u)
  BY <1>1, <1>3 DEF Queued
<1>4. ASSUME NEW u \in Task, Queued(u) PROVE Queued(u)' \/ u = Head(pending).id
  <2>1. PICK i \in 1..Len(pending) : pending[i].id = u
    BY <1>4 DEF Queued
  <2>2. CASE i = 1
    BY <1>1, <2>1, <2>2
  <2>3. CASE i # 1
    BY <1>1, <2>1, <2>3 DEF Queued
  <2>4. QED
    BY <2>2, <2>3
<1>5. QED
  BY <1>2, <1>3, <1>4

LEMMA ProcessingLrem ==
  ASSUME processing \in [Payload -> Nat], NEW r \in Payload, processing' = Lrem(processing, r)
  PROVE  /\ \A u \in Task : Processing(u)' => Processing(u)
         /\ \A u \in Task : Processing(u) => Processing(u)' \/ u = r.id
         /\ processing[r] > 0 => Processing(r.id)
         /\ ~(processing[r] > 0) => \A u \in Task : Processing(u)' <=> Processing(u)
<1>1. /\ \A p \in Payload : p # r => processing'[p] = processing[p]
      /\ \A p \in Payload : processing'[p] > 0 => processing[p] > 0
      /\ processing[r] = 0 => processing' = processing
      /\ processing[r] \in Nat
  BY LremType
<1>2. QED
  BY <1>1 DEF Processing

LEMMA ProcessingAdd ==
  ASSUME processing \in [Payload -> Nat], NEW r \in Payload, processing' = Add(processing, r)
  PROVE  \A u \in Task : Processing(u)' <=> Processing(u) \/ u = r.id
<1>1. /\ processing'[r] > 0
      /\ \A p \in Payload : processing[p] > 0 => processing'[p] > 0
      /\ \A p \in Payload : processing'[p] > 0 => processing[p] > 0 \/ p = r
  BY AddType
<1>2. QED
  BY <1>1 DEF Processing

\* Every step of the queue is a step of AtLeastOnce or leaves its variables alone.
LEMMA NextPromise == TypeInv /\ KnownInv /\ [Next]_vars => [Promise!Next]_(Promise!vars)
<1> SUFFICES ASSUME TypeOK, LocalsOK, KnownInv, [Next]_vars
             PROVE  Promise!Next \/ UNCHANGED <<submitted, Live, settled, lost>>
  BY DEF TypeInv, Promise!vars
<1> USE DEF Goto, Leave, Return, redis, locals, queueVars, ghosts, vars, Fault
<1> DEFINE Held(u) == \E c \in Consumer : u \in InHand(c)
<1>0. /\ pending \in Seq(Payload) /\ processing \in [Payload -> Nat]
      /\ UNCHANGED pending => \A u \in Task : Queued(u)' <=> Queued(u)
      /\ UNCHANGED processing => \A u \in Task : Processing(u)' <=> Processing(u)
  BY DEF TypeOK, Queued, Processing
\* It is enough to say what a step does to the set of live tasks.
<1>a. ASSUME \A u \in Task : (Queued(u) \/ Processing(u) \/ Held(u))'
                          <=> (Queued(u) \/ Processing(u) \/ Held(u))
      PROVE  Live' = Live
  BY <1>a DEF Live
<1>1. ASSUME NEW t \in Task, Submit(t) PROVE Promise!Submit(t)
  <2>1. [id |-> t, att |-> 0, via |-> "enqueue"] \in Payload
    BY QueueAssumption DEF Payload
  <2>2. \A u \in Task : Queued(u)' <=> Queued(u) \/ u = t
    BY <1>0, <1>1, <2>1, QueuedAppend DEF Submit, Enqueue, Lpush
  <2>3. UNCHANGED <<processing, pc, task, target, op>>
    BY <1>1 DEF Submit, Enqueue
  <2>4. \A u \in Task : Held(u)' <=> Held(u)
    BY <2>3 DEF InHand
  <2>5. Live' = Live \union {t}
    BY <1>0, <2>2, <2>3, <2>4 DEF Live
  <2>6. QED
    BY <1>1, <2>5 DEF Submit, Promise!Submit
<1>2. ASSUME NEW t \in Task, LeaseExpires(t) PROVE UNCHANGED <<submitted, Live, settled, lost>>
  <2>1. UNCHANGED <<pending, processing, pc, task, target, op, submitted, settled, lost>>
    BY <1>2 DEF LeaseExpires, Expire
  <2>2. QED
    BY <2>1 DEF Live, Queued, Processing, InHand
<1>3. ASSUME NEW c \in Consumer, Work(c)
      PROVE  Promise!Next \/ UNCHANGED <<submitted, Live, settled, lost>>
  <2>1. CASE (ReadLeases(c) \/ RecoverDrop(c) \/ RecoverEnd(c) \/ PopTimeout(c) \/ Finish(c)
              \/ ReadLease(c) \/ DropLease(c)) /\ UNCHANGED <<ghosts, faults>>
    <3>1. UNCHANGED <<pending, processing>>
      BY <2>1 DEF ReadLeases, RecoverDrop, RecoverEnd, PopTimeout, Finish, ReadLease, DropLease
    <3>2. \A d \in Consumer : InHand(d)' = InHand(d)
      BY <2>1 DEF ReadLeases, RecoverDrop, RecoverEnd, PopTimeout, Finish, ReadLease, DropLease,
                  InHand, TypeOK
    <3>3. QED
      BY <1>0, <1>a, <2>1, <3>1, <3>2
  <2>2. CASE RecoverRemove(c) /\ UNCHANGED <<ghosts, faults>>
    <3>1. PICK r \in snap[c] : /\ processing' = Lrem(processing, r)
                               /\ target' = [target EXCEPT ![c] = r]
                               /\ pc' = [pc EXCEPT ![c] = IF processing[r] > 0
                                            THEN "hdel_removed" ELSE "hdel_missing"]
      BY <2>2 DEF RecoverRemove
    <3>2. pc[c] = "scan" /\ UNCHANGED <<pending, task, op>> /\ r \in Payload /\ r.id \in Task
      BY <2>2, PayloadFields DEF RecoverRemove, TypeOK
    <3>3. \A d \in Consumer : d # c => InHand(d)' = InHand(d)
      BY <3>1, <3>2 DEF InHand, TypeOK
    <3>4. InHand(c) = {} /\ InHand(c)' = IF processing[r] > 0 THEN {r.id} ELSE {}
      BY <3>1, <3>2 DEF InHand, TypeOK
    <3>5. \A u \in Task : Held(u)' <=> Held(u) \/ (processing[r] > 0 /\ u = r.id)
      BY <3>3, <3>4
    <3>6. /\ \A u \in Task : Processing(u)' => Processing(u)
          /\ \A u \in Task : Processing(u) => Processing(u)' \/ u = r.id
          /\ processing[r] > 0 => Processing(r.id)
          /\ ~(processing[r] > 0) => \A u \in Task : Processing(u)' <=> Processing(u)
      BY <1>0, <3>1, <3>2, ProcessingLrem
    <3>7. Live' = Live
      BY <1>0, <1>a, <3>2, <3>5, <3>6
    <3>8. QED
      BY <2>2, <3>7
  <2>3. CASE RecoverPush(c) /\ UNCHANGED <<ghosts, faults>>
    <3>1. /\ pc[c] = "repush" /\ pending' = Append(pending, Recovered(target[c]))
          /\ pc' = [pc EXCEPT ![c] = "scan"] /\ UNCHANGED <<processing, task, target, op>>
      BY <2>3 DEF RecoverPush, Lpush
    <3>2. Recovered(target[c]) \in Payload /\ Recovered(target[c]).id = target[c].id
      BY <3>1, WriteBackType DEF LocalsOK
    <3>3. \A u \in Task : Queued(u)' <=> Queued(u) \/ u = target[c].id
      BY <1>0, <3>1, <3>2, QueuedAppend
    <3>4. \A d \in Consumer : d # c => InHand(d)' = InHand(d)
      BY <3>1 DEF InHand, TypeOK
    <3>5. InHand(c) = {target[c].id} /\ InHand(c)' = {}
      BY <3>1 DEF InHand, TypeOK
    <3>6. Live' = Live
      BY <1>0, <1>a, <3>1, <3>3, <3>4, <3>5
    <3>7. QED
      BY <2>3, <3>6
  <2>4. CASE Pop(c) /\ UNCHANGED <<ghosts, faults>>
    <3>1. /\ pc[c] = "pop" /\ pending # <<>> /\ pending' = Tail(pending)
          /\ processing' = Add(processing, Head(pending))
          /\ task' = [task EXCEPT ![c] = Head(pending)]
          /\ pc' = [pc EXCEPT ![c] = "lease"] /\ UNCHANGED <<target, op>>
      BY <2>4 DEF Pop
    <3>2. Head(pending) \in Payload /\ Head(pending).id \in Task
      BY <1>0, <3>1, PayloadFields
    <3>3. \A d \in Consumer : InHand(d)' = InHand(d)
      BY <3>1 DEF InHand, TypeOK
    <3>4. /\ Queued(Head(pending).id)
          /\ \A u \in Task : Queued(u)' => Queued(u)
          /\ \A u \in Task : Queued(u) => Queued(u)' \/ u = Head(pending).id
      BY <1>0, <3>1, QueuedTail
    <3>5. \A u \in Task : Processing(u)' <=> Processing(u) \/ u = Head(pending).id
      BY <1>0, <3>1, <3>2, ProcessingAdd
    <3>6. Live' = Live
      BY <1>a, <3>2, <3>3, <3>4, <3>5
    <3>7. QED
      BY <2>4, <3>6
  <2>5. CASE Reserve(c)
    <3>1. /\ pc[c] = "lease" /\ pc' = [pc EXCEPT ![c] = "work"]
          /\ UNCHANGED <<pending, processing, task, target, op, submitted, settled, lost>>
      BY <2>5 DEF Reserve, PutLease
    <3>2. \A d \in Consumer : InHand(d)' = InHand(d)
      BY <3>1 DEF InHand, TypeOK
    <3>3. QED
      BY <1>0, <1>a, <3>1, <3>2
  <2>6. CASE RemoveInflight(c) /\ UNCHANGED <<submitted, lost>>
             /\ settled' = IF op[c] = "ack" THEN settled \union {task[c].id} ELSE settled
    <3>1. /\ pc[c] = "remove" /\ processing' = Lrem(processing, target[c])
          /\ pc' = [pc EXCEPT ![c] = "unlease"] /\ UNCHANGED <<pending, task, target, op>>
      BY <2>6 DEF RemoveInflight
    <3>2. /\ target[c] \in Payload /\ target[c].id = task[c].id
          /\ task[c].id \in submitted /\ task[c].id \in Task
      BY <3>1, PayloadFields DEF LocalsOK, KnownInv
    <3>3. \A d \in Consumer : d # c => InHand(d)' = InHand(d)
      BY <3>1 DEF InHand, TypeOK
    <3>4. InHand(c) = {} /\ InHand(c)' = IF op[c] = "ack" THEN {} ELSE {task[c].id}
      BY <3>1 DEF InHand, TypeOK
    <3>5. /\ \A u \in Task : Processing(u)' => Processing(u)
          /\ \A u \in Task : Processing(u) => Processing(u)' \/ u = task[c].id
      BY <1>0, <3>1, <3>2, ProcessingLrem
    <3>6. CASE op[c] = "ack"
      <4>1. \A u \in Task : Held(u)' <=> Held(u)
        BY <3>3, <3>4, <3>6
      <4>2. Live' \in {Live, Live \ {task[c].id}}
        BY <1>0, <3>1, <3>2, <3>5, <4>1 DEF Live
      <4>3. Promise!Settle(task[c].id)
        BY <2>6, <3>2, <3>6, <4>2 DEF Promise!Settle
      <4>4. QED
        BY <3>2, <4>3 DEF Promise!Next
    <3>7. CASE op[c] # "ack"
      <4>1. \A u \in Task : Held(u)' <=> Held(u) \/ u = task[c].id
        BY <3>3, <3>4, <3>7
      <4>2. Live' = Live \union {task[c].id}
        BY <1>0, <3>1, <3>2, <3>5, <4>1 DEF Live
      <4>3. Promise!Redeliver(task[c].id)
        BY <2>6, <3>2, <3>7, <4>2 DEF Promise!Redeliver
      <4>4. QED
        BY <3>2, <4>3 DEF Promise!Next
    <3>8. QED
      BY <3>6, <3>7
  <2>7. CASE Push(c) /\ UNCHANGED <<submitted, lost>>
             /\ settled' = IF op[c] = "dead_letter" THEN settled \union {task[c].id} ELSE settled
    <3>1. /\ pc[c] = "push" /\ pc' = [pc EXCEPT ![c] = "recover"]
          /\ op' = [op EXCEPT ![c] = "none"] /\ task' = [task EXCEPT ![c] = NoTask]
          /\ target' = [target EXCEPT ![c] = NoTask] /\ UNCHANGED processing
      BY <2>7 DEF Push
    <3>2. task[c] \in Payload /\ task[c].id \in submitted /\ task[c].id \in Task
      BY <3>1, PayloadFields DEF LocalsOK, KnownInv
    <3>3. \A d \in Consumer : d # c => InHand(d)' = InHand(d)
      BY <3>1 DEF InHand, TypeOK
    <3>4. CASE op[c] = "requeue" /\ Lpush(Retried(task[c]))
      <4>1. InHand(c) = {task[c].id} /\ InHand(c)' = {}
        BY <3>1, <3>4 DEF InHand, TypeOK
      <4>2. Retried(task[c]) \in Payload /\ Retried(task[c]).id = task[c].id
        BY <3>2, <3>4, WriteBackType, WorkerAssumption, QueueAssumption, PayloadFields
        DEF LocalsOK
      <4>3. \A u \in Task : Queued(u)' <=> Queued(u) \/ u = task[c].id
        BY <1>0, <3>4, <4>2, QueuedAppend DEF Lpush
      <4>4. Live' = Live
        BY <1>0, <1>a, <3>1, <3>3, <4>1, <4>3
      <4>5. QED
        BY <2>7, <3>4, <4>4
    <3>5. CASE op[c] = "dead_letter" /\ UNCHANGED pending
      <4>1. InHand(c) = {task[c].id} /\ InHand(c)' = {}
        BY <3>1, <3>5 DEF InHand, TypeOK
      <4>2. /\ \A u \in Task : Held(u)' => Held(u)
            /\ \A u \in Task : Held(u) => Held(u)' \/ u = task[c].id
        <5>1. \A u \in Task, d \in Consumer : u \in InHand(d)' => u \in InHand(d)
          BY <3>3, <4>1
        <5>2. \A u \in Task, d \in Consumer :
                u \in InHand(d) => u \in InHand(d)' \/ u = task[c].id
          BY <3>3, <4>1
        <5>3. QED
          BY <5>1, <5>2
      <4>a. Live' \in {Live, Live \ {task[c].id}}
        BY <1>0, <3>1, <3>5, <4>2 DEF Live
      <4>3. Promise!Settle(task[c].id)
        BY <2>7, <3>2, <3>5, <4>a DEF Promise!Settle
      <4>4. QED
        BY <3>2, <4>3 DEF Promise!Next
    <3>6. QED
      BY <2>7, <3>4, <3>5 DEF Push
  <2>8. CASE Settle(c)
    <3>1. CASE op[c] = "ack" /\ RemoveInflight(c)
      BY <2>6, <2>8, <3>1 DEF Settle
    <3>2. CASE op[c] = "dead_letter" /\ Push(c)
      BY <2>7, <2>8, <3>2 DEF Settle
    <3>3. QED
      BY <2>8, <3>1, <3>2 DEF Settle
  <2>9. CASE op[c] # "ack" /\ RemoveInflight(c) /\ UNCHANGED <<ghosts, faults>>
    BY <2>6, <2>9
  <2>10. CASE op[c] # "dead_letter" /\ Push(c) /\ UNCHANGED <<ghosts, faults>>
    BY <2>7, <2>10
  <2>11. CASE Recover(c) /\ UNCHANGED <<ghosts, faults>>
    BY <2>1, <2>2, <2>3, <2>11 DEF Recover
  <2>12. QED
    BY <1>3, <2>1, <2>2, <2>3, <2>4, <2>5, <2>8, <2>9, <2>10, <2>11 DEF Work
<1>4. ASSUME NEW c \in Consumer, Crash(c) \/ ReserveFails(c) PROVE Promise!Lose
  <2>1. /\ UNCHANGED <<pending, processing, submitted, settled>>
        /\ pc' = [pc EXCEPT ![c] = "down"] \/ pc' = [pc EXCEPT ![c] = "recover"]
        /\ task' = [task EXCEPT ![c] = NoTask] /\ target' = [target EXCEPT ![c] = NoTask]
        /\ op' = [op EXCEPT ![c] = "none"]
        /\ lost' = lost \union InHand(c)
    BY <1>4 DEF Crash, ReserveFails
  <2>2. InHand(c) \in SUBSET submitted
    BY DEF InHand, KnownInv
  <2>3. InHand(c)' = {} /\ \A d \in Consumer : d # c => InHand(d)' = InHand(d)
    BY <2>1 DEF InHand, TypeOK
  <2>4. Live \ InHand(c) \subseteq Live' /\ Live' \subseteq Live
    BY <1>0, <2>1, <2>3 DEF Live
  <2>5. QED
    BY <2>1, <2>2, <2>4 DEF Promise!Lose
<1>5. ASSUME NEW c \in Consumer, Restart(c) \/ AckFails(c)
      PROVE  UNCHANGED <<submitted, Live, settled, lost>>
  <2>1. UNCHANGED <<pending, processing, submitted, settled, lost>>
    BY <1>5 DEF Restart, AckFails
  <2>2. \A d \in Consumer : InHand(d)' = InHand(d)
    BY <1>5 DEF Restart, AckFails, InHand, TypeOK
  <2>3. QED
    BY <1>0, <1>a, <2>1, <2>2
<1>6. ASSUME Reset PROVE Promise!Lose
  <2> DEFINE S == {t \in Task : Queued(t) \/ Processing(t)}
  <2>1. /\ pending' = <<>> /\ processing' = [r \in Payload |-> 0]
        /\ UNCHANGED <<pc, task, target, op, submitted, settled>> /\ lost' = lost \union S
    BY <1>6 DEF Reset, Purge
  <2>2. S \in SUBSET submitted
    BY DEF Queued, Processing, KnownInv
  <2>3. \A u \in Task : ~Queued(u)' /\ ~Processing(u)' /\ (Held(u)' <=> Held(u))
    BY <2>1 DEF Queued, Processing, InHand
  <2>4. Live \ S \subseteq Live' /\ Live' \subseteq Live
    BY <2>3 DEF Live
  <2>5. QED
    BY <2>1, <2>2, <2>4 DEF Promise!Lose
<1>7. ASSUME UNCHANGED vars PROVE UNCHANGED <<submitted, Live, settled, lost>>
  BY <1>7 DEF Live, Queued, Processing, InHand
<1>8. QED
  BY <1>1, <1>2, <1>3, <1>4, <1>5, <1>6, <1>7 DEF Next, Promise!Next

(* The detailed queue implements the abstract one, and a consequence of it. *)

\* Safety part of at-least-once delivery (core/task_queue.py with its workers): whatever
\* leases, recoveries, retries and faults do, each step of the queue is a step AtLeastOnce
\* allows its live tasks, or changes nothing it can see.
THEOREM Implements == Spec => PromiseKept
<1>1. Init => Promise!Init
  <2> SUFFICES ASSUME Init PROVE Live = {}
    BY DEF Init, Promise!Init
  <2>1. \A t \in Task : ~Queued(t) /\ ~Processing(t)
    <3>1. pending = <<>> /\ processing = [r \in Payload |-> 0]
      BY DEF Init, QueueInit
    <3>2. Len(pending) = 0
      BY <3>1
    <3>3. \A r \in Payload : ~(processing[r] > 0)
      BY <3>1
    <3>4. QED
      BY <3>2, <3>3 DEF Queued, Processing
  <2>2. \A c \in Consumer : InHand(c) = {}
    BY DEF Init, QueueInit, InHand
  <2>3. \A t \in Task : t \notin Live
    BY <2>1, <2>2 DEF Live
  <2>4. QED
    BY <2>3 DEF Live
<1>2. QED
  BY <1>1, InitTypeInv, NextTypeInv, InitKnown, NextKnown, NextPromise, PTL
  DEF Spec, PromiseKept, Promise!Spec

\* No step of the abstract queue lets go of a task that is neither settled nor lost.
LEMMA PromiseVanishes ==
  NothingVanishes /\ [Promise!Next]_(Promise!vars) => NothingVanishes'
<1> SUFFICES ASSUME NothingVanishes, Promise!Next \/ UNCHANGED Promise!vars
             PROVE  NothingVanishes'
  OBVIOUS
<1> USE DEF NothingVanishes
<1>1. CASE Promise!Lose
  BY <1>1 DEF Promise!Lose
<1>2. ASSUME NEW t \in Task, Promise!Submit(t) PROVE NothingVanishes'
  BY <1>2 DEF Promise!Submit
<1>3. ASSUME NEW t \in Task, Promise!Settle(t) PROVE NothingVanishes'
  BY <1>3 DEF Promise!Settle
<1>4. ASSUME NEW t \in Task, Promise!Redeliver(t) PROVE NothingVanishes'
  BY <1>4 DEF Promise!Redeliver
<1>5. CASE UNCHANGED Promise!vars
  BY <1>5 DEF Promise!vars
<1>6. QED
  BY <1>1, <1>2, <1>3, <1>4, <1>5 DEF Promise!Next

\* The queue forgets no task (core/task_queue.py): one that is neither settled nor hit by
\* a fault has a copy in a list, or in the hand of a client that is about to push it.
THEOREM NoTaskVanishes == Spec => []NothingVanishes
<1>1. Init => NothingVanishes
  BY DEF Init, NothingVanishes
<1>2. QED
  BY <1>1, InitTypeInv, NextTypeInv, InitKnown, NextKnown, NextPromise, PromiseVanishes, PTL
  DEF Spec
=============================================================================

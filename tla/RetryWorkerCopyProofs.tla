------------------------ MODULE RetryWorkerCopyProofs ------------------------
(***************************************************************************)
(* As long as no lease of a task has expired under its owner, the task is  *)
(* at one place, and who settles it settles its own delivery: for any      *)
(* tasks, workers, bounds and faults.                                      *)
(***************************************************************************)
EXTENDS RetryWorkerProofs, FiniteSetTheorems

\* The client has popped the task, and has not settled it.
Serving(c, t) ==
  /\ pc[c] \in {"lease", "work", "settle", "remove", "unlease", "push"}
  /\ task[c].id = t

\* The client has removed the task from :processing to push it back.
Returning(c, t) ==
  /\ pc[c] \in {"hdel_removed", "repush"}
  /\ target[c].id = t

Busy(c, t) == Serving(c, t) \/ Returning(c, t)

\* The task is pending, or in :processing, or in the hand of a client; in :processing and with
\* a client only from the pop to the LREM.
OnePlace(t) ==
  /\ \A i, j \in 1..Len(pending) : pending[i].id = t /\ pending[j].id = t => i = j
  /\ \A r \in Payload : r.id = t => processing[r] <= 1
  /\ \A r, s \in Payload : r.id = t /\ s.id = t /\ processing[r] > 0 /\ processing[s] > 0 => r = s
  /\ Queued(t) => ~Processing(t) /\ \A c \in Consumer : ~Busy(c, t)
  /\ \A c, d \in Consumer : Busy(c, t) /\ Busy(d, t) => c = d
  /\ \A c \in Consumer : Serving(c, t) =>
       \A r \in Payload : r.id = t /\ processing[r] > 0 =>
         r = task[c] /\ pc[c] \in {"lease", "work", "settle", "remove"}
  /\ \A c \in Consumer : Returning(c, t) => ~Processing(t)

\* No copy of r's task has fewer attempts than r; only one in :processing, or on its way back
\* from there, may have as many.
Older(r) ==
  /\ \A i \in 1..Len(pending) : pending[i].id = r.id => r.att < pending[i].att
  /\ \A c \in Consumer : Serving(c, r.id) => r.att < task[c].att
  /\ \A c \in Consumer : Returning(c, r.id) => r.att <= target[c].att
  /\ \A s \in Payload : s.id = r.id /\ processing[s] > 0 => r.att <= s.att

PlaceInv == \A t \in Task \ overrun : OnePlace(t)

\* The client is between its HSET of a lease and its HDEL.
Leased(c) == pc[c] \in {"work", "settle", "remove", "unlease"}

\* A client at work has its own lease or none, and removes its own payload.
OwnLease ==
  \A c \in Consumer :
    Leased(c) /\ task[c].id \notin overrun =>
      leases[task[c].id] \in {NoLease, [raw |-> task[c], owner |-> c, expired |-> FALSE]}

\* A lease that no client at work has, and a payload in a snapshot, are of a delivery of the past.
OldLease ==
  \A t \in Task \ overrun :
    leases[t] # NoLease /\ (\A c \in Consumer : Leased(c) => task[c].id # t)
      => Older(leases[t].raw)

OldSnap == \A c \in Consumer : \A r \in snap[c] : r.id \notin overrun => Older(r)

-----------------------------------------------------------------------------
(* What a step leaves alone *)

\* Every pending payload of t was pending before, at the same place or one further.
Shifted(t) ==
  \E k \in {0, 1} : \A i \in 1..Len(pending') :
    pending'[i].id = t => i + k \in 1..Len(pending) /\ pending[i + k] = pending'[i]

\* The step gives no list and no client a copy of t.
Calm(t) ==
  /\ Shifted(t)
  /\ \A r \in Payload : r.id = t => processing'[r] <= processing[r]
  /\ \A c \in Consumer :
       /\ Serving(c, t)' => /\ Serving(c, t) /\ task'[c] = task[c]
                            /\ pc'[c] \in {"unlease", "push"} =>
                                 pc[c] \in {"unlease", "push"} \/ ~Processing(t)'
       /\ Returning(c, t)' => Returning(c, t) /\ target'[c] = target[c]

LEMMA ShiftedSame == ASSUME TypeOK, NEW t \in Task, UNCHANGED pending PROVE Shifted(t)
<1>1. Len(pending) \in Nat
  BY DEF TypeOK
<1>2. \A i \in 1..Len(pending) : i + 0 = i
  BY <1>1
<1>3. QED
  BY <1>2 DEF Shifted

LEMMA ShiftedAppend ==
  ASSUME TypeOK, NEW t \in Task, NEW r \in Payload, r.id # t, pending' = Append(pending, r)
  PROVE  Shifted(t)
<1>1. pending \in Seq(Payload) /\ Len(pending) \in Nat
  BY DEF TypeOK
<1>2. \A i \in 1..Len(pending') : pending'[i].id = t => i + 0 \in 1..Len(pending) /\ pending[i + 0] = pending'[i]
  BY <1>1, AppendElements
<1>3. QED
  BY <1>2 DEF Shifted

LEMMA ShiftedTail ==
  ASSUME TypeOK, NEW t \in Task, pending # <<>>, pending' = Tail(pending)
  PROVE  Shifted(t)
<1>1. pending \in Seq(Payload)
  BY DEF TypeOK
<1>2. \A i \in 1..Len(pending') : i + 1 \in 1..Len(pending) /\ pending[i + 1] = pending'[i]
  BY <1>1, TailElements
<1>3. QED
  BY <1>2 DEF Shifted

LEMMA CalmPlace ==
  ASSUME TypeOK, TypeOK', NEW t \in Task, OnePlace(t), Calm(t)
  PROVE  OnePlace(t)'
<1>1. /\ \A r \in Payload : processing[r] \in Nat /\ processing'[r] \in Nat
      /\ Len(pending) \in Nat /\ Len(pending') \in Nat
  BY DEF TypeOK
<1>2. PICK k \in {0, 1} : \A i \in 1..Len(pending') :
        pending'[i].id = t => i + k \in 1..Len(pending) /\ pending[i + k] = pending'[i]
  BY DEF Calm, Shifted
<1>3. Queued(t)' => Queued(t)
  BY <1>2 DEF Queued
<1>4. \A r \in Payload : r.id = t /\ processing'[r] > 0 => processing[r] > 0
  BY <1>1 DEF Calm
<1>5. Processing(t)' => Processing(t)
  BY <1>4 DEF Processing
<1>6. \A c \in Consumer : Busy(c, t)' => Busy(c, t)
  BY DEF Calm, Busy
<1>7. \A i, j \in 1..Len(pending') : pending'[i].id = t /\ pending'[j].id = t => i = j
  <2> SUFFICES ASSUME NEW i \in 1..Len(pending'), NEW j \in 1..Len(pending'),
                      pending'[i].id = t, pending'[j].id = t
               PROVE  i = j
    OBVIOUS
  <2>1. i + k = j + k
    BY <1>2 DEF OnePlace
  <2>2. QED
    BY <1>1, <2>1
<1>8. \A r \in Payload : r.id = t => processing'[r] <= 1
  BY <1>1 DEF Calm, OnePlace
<1>9. \A r, s \in Payload : r.id = t /\ s.id = t /\ processing'[r] > 0 /\ processing'[s] > 0 => r = s
  BY <1>4 DEF OnePlace
<1>10. Queued(t)' => ~Processing(t)' /\ \A c \in Consumer : ~Busy(c, t)'
  BY <1>3, <1>5, <1>6 DEF OnePlace
<1>11. \A c, d \in Consumer : Busy(c, t)' /\ Busy(d, t)' => c = d
  BY <1>6 DEF OnePlace
<1>12. ASSUME NEW c \in Consumer, Serving(c, t)', NEW r \in Payload, r.id = t, processing'[r] > 0
       PROVE  r = task'[c] /\ pc'[c] \in {"lease", "work", "settle", "remove"}
  <2>1. Processing(t)'
    BY <1>12 DEF Processing
  <2>2. Serving(c, t) /\ task'[c] = task[c]
        /\ (pc'[c] \in {"unlease", "push"} => pc[c] \in {"unlease", "push"})
    BY <1>12, <2>1 DEF Calm
  <2>3. r = task[c] /\ pc[c] \in {"lease", "work", "settle", "remove"}
    BY <1>4, <1>12, <2>2 DEF OnePlace
  <2>4. QED
    BY <1>12, <2>2, <2>3 DEF Serving
<1>13. \A c \in Consumer : Returning(c, t)' => ~Processing(t)'
  BY <1>5 DEF Calm, OnePlace
<1>14. QED
  BY <1>7, <1>8, <1>9, <1>10, <1>11, <1>12, <1>13 DEF OnePlace

LEMMA CalmOlder ==
  ASSUME TypeOK, TypeOK', NEW r \in Payload, Older(r), Calm(r.id)
  PROVE  Older(r)'
<1>1. \A s \in Payload : processing[s] \in Nat /\ processing'[s] \in Nat
  BY DEF TypeOK
<1>2. \A i \in 1..Len(pending') : pending'[i].id = r.id =>
        \E j \in 1..Len(pending) : pending[j] = pending'[i]
  BY DEF Calm, Shifted
<1>3. \A s \in Payload : s.id = r.id /\ processing'[s] > 0 => processing[s] > 0
  BY <1>1 DEF Calm
<1>4. QED
  BY <1>2, <1>3 DEF Calm, Older

-----------------------------------------------------------------------------
(* The four commands that move a copy *)

\* LPUSH of a payload whose task is nowhere else.
LEMMA PushedPlace ==
  ASSUME TypeOK, TypeOK', NEW q \in Payload, pending' = Append(pending, q), UNCHANGED processing,
         ~Queued(q.id), ~Processing(q.id), \A c \in Consumer : ~Busy(c, q.id)'
  PROVE  /\ OnePlace(q.id)'
         /\ \A r \in Payload : r.id = q.id /\ r.att < q.att => Older(r)'
<1>1. /\ pending \in Seq(Payload) /\ Len(pending) \in Nat
      /\ \A r \in Payload : processing[r] \in Nat
  BY DEF TypeOK
<1>2. \A r \in Payload : r.id = q.id => processing'[r] = 0
  BY <1>1 DEF Processing
<1>3. \A i \in 1..Len(pending') : pending'[i].id = q.id => i = Len(pending) + 1 /\ pending'[i] = q
  BY <1>1, AppendElements DEF Queued
<1>4. ~Processing(q.id)'
  BY <1>2 DEF Processing
<1>5. OnePlace(q.id)'
  BY <1>2, <1>3, <1>4 DEF OnePlace, Busy
<1>6. ASSUME NEW r \in Payload, r.id = q.id, r.att < q.att PROVE Older(r)'
  BY <1>2, <1>3, <1>6 DEF Older, Busy
<1>7. QED
  BY <1>5, <1>6

\* BRPOPLPUSH of the only copy of a task.
LEMMA PoppedPlace ==
  ASSUME TypeOK, TypeOK', NEW c \in Consumer, Pop(c), NEW q, q = Head(pending), OnePlace(q.id)
  PROVE  OnePlace(q.id)' /\ \A r \in Payload : r.id = q.id /\ Older(r) => Older(r)'
<1> DEFINE t == q.id
<1>1. /\ pending # <<>> /\ pending \in Seq(Payload) /\ pending' = Tail(pending)
      /\ processing' = Add(processing, q) /\ processing \in [Payload -> Nat]
      /\ task' = [task EXCEPT ![c] = q]
      /\ pc' = [pc EXCEPT ![c] = "lease"]
      /\ pc \in [Consumer -> Labels] /\ task \in [Consumer -> Payload \union {NoTask}]
      /\ UNCHANGED target
  BY DEF Pop, TypeOK, Goto
<1>2. q \in Payload /\ q = pending[1] /\ 1 \in 1..Len(pending)
  BY <1>1, TailElements
<1>3. Queued(t)
  BY <1>2 DEF Queued
<1>4. ~Processing(t) /\ \A d \in Consumer : ~Busy(d, t)
  BY <1>3 DEF OnePlace
<1>5. \A r \in Payload : r.id = t => processing'[r] = IF r = q THEN 1 ELSE 0
  <2>1. \A r \in Payload : r.id = t => processing[r] = 0
    BY <1>1, <1>4 DEF Processing
  <2>2. QED
    BY <1>1, <1>2, <2>1 DEF Add
<1>6. \A i \in 1..Len(pending') : pending'[i].id # t
  <2> SUFFICES ASSUME NEW i \in 1..Len(pending'), pending'[i].id = t PROVE FALSE
    OBVIOUS
  <2>1. pending'[i] = pending[i + 1] /\ i + 1 \in 1..Len(pending)
    BY <1>1, TailElements
  <2>2. i + 1 = 1
    BY <1>2, <2>1 DEF OnePlace
  <2>3. QED
    BY <2>2
<1>7. /\ \A d \in Consumer : ~Returning(d, t)' /\ (Serving(d, t)' => d = c)
      /\ Serving(c, t)' /\ task'[c] = q /\ pc'[c] = "lease"
  BY <1>1, <1>4 DEF Busy, Serving, Returning
<1> HIDE DEF t
<1>8. OnePlace(t)'
  BY <1>5, <1>6, <1>7 DEF OnePlace, Queued, Busy
<1>9. ASSUME NEW r \in Payload, r.id = t, Older(r) PROVE Older(r)'
  <2>1. r.att < q.att
    BY <1>2, <1>9 DEF Older, t
  <2>2. r.att \in Nat /\ q.att \in Nat
    BY <1>2, PayloadFields
  <2>3. QED
    BY <1>5, <1>6, <1>7, <1>9, <2>1, <2>2 DEF Older
<1>10. QED
  BY <1>8, <1>9 DEF t

\* LREM of an expired lease's payload, if it is there.
LEMMA RemovedPlace ==
  ASSUME TypeOK, TypeOK', NEW c \in Consumer, NEW q \in snap[c], pc[c] = "scan",
         processing' = Lrem(processing, q), processing[q] > 0,
         target' = [target EXCEPT ![c] = q], pc' = [pc EXCEPT ![c] = "hdel_removed"],
         UNCHANGED <<pending, task>>,
         OnePlace(q.id), Older(q)
  PROVE  OnePlace(q.id)' /\ \A r \in Payload : r.id = q.id /\ Older(r) => Older(r)'
<1> DEFINE t == q.id
<1>1. /\ q \in Payload /\ processing \in [Payload -> Nat]
      /\ pc \in [Consumer -> Labels] /\ target \in [Consumer -> Payload \union {NoTask}]
  BY DEF TypeOK
<1>2. Processing(t)
  BY <1>1 DEF Processing
<1>3. ~Queued(t) /\ \A d \in Consumer : ~Returning(d, t)
  BY <1>2 DEF OnePlace
<1>4. \A d \in Consumer : ~Serving(d, t)
  <2> SUFFICES ASSUME NEW d \in Consumer, Serving(d, t) PROVE FALSE
    OBVIOUS
  <2>1. q = task[d]
    BY <1>1 DEF OnePlace
  <2>2. q.att < q.att /\ q.att \in Nat
    BY <1>1, <2>1, PayloadFields DEF Older
  <2>3. QED
    BY <2>2
<1>5. \A r \in Payload : r.id = t => processing'[r] = 0
  <2>1. processing[q] = 1
    BY <1>1 DEF OnePlace
  <2>2. \A r \in Payload : r.id = t /\ r # q => processing[r] = 0
    BY <1>1 DEF OnePlace
  <2>3. QED
    BY <1>1, <2>1, <2>2 DEF Lrem
<1>6. ~Queued(t)' /\ ~Processing(t)'
  BY <1>3, <1>5 DEF Queued, Processing
<1>7. \A d \in Consumer : /\ ~Serving(d, t)'
                          /\ Returning(d, t)' => d = c /\ target'[d] = q
  BY <1>1, <1>3, <1>4 DEF Serving, Returning
<1>8. OnePlace(t)'
  BY <1>5, <1>6, <1>7 DEF OnePlace, Queued, Busy
<1>9. ASSUME NEW r \in Payload, r.id = t, Older(r) PROVE Older(r)'
  <2>1. r.att <= q.att
    BY <1>1, <1>9 DEF Older
  <2>2. QED
    BY <1>5, <1>6, <1>7, <1>9, <2>1 DEF Older, Queued
<1>10. QED
  BY <1>8, <1>9

-----------------------------------------------------------------------------
(* Every step *)

\* What a step has to keep for one task: its one place, and what is older than every copy of it.
Kept(t) == OnePlace(t)' /\ \A r \in Payload : r.id = t /\ t \in submitted /\ Older(r) => Older(r)'

LEMMA NextPlaces ==
  ASSUME TypeInv, TypeInv', KnownInv, PlaceInv, OwnLease, OldSnap, SettlesOwnDelivery, [Next]_vars
  PROVE  \A t \in Task \ overrun' : Kept(t)
<1> USE DEF Goto, Leave, Return, redis, locals, queueVars, ghosts, vars, Fault
<1>t. TypeOK /\ TypeOK' /\ LocalsOK
  BY DEF TypeInv
<1>a. ASSUME NEW t \in Task \ overrun', Calm(t), overrun \subseteq overrun' PROVE Kept(t)
  BY <1>t, <1>a, CalmPlace, CalmOlder DEF Kept, PlaceInv
\* A step that touches neither list and gives no client a task.
<1>b. ASSUME UNCHANGED <<pending, processing>>, overrun \subseteq overrun',
             \A d \in Consumer :
               /\ pc'[d] \in {"lease", "work", "settle", "remove", "unlease", "push"} =>
                    /\ pc[d] \in {"lease", "work", "settle", "remove", "unlease", "push"}
                    /\ task'[d] = task[d]
                    /\ pc'[d] \in {"unlease", "push"} => pc[d] \in {"unlease", "push"}
               /\ pc'[d] \in {"hdel_removed", "repush"} =>
                    pc[d] \in {"hdel_removed", "repush"} /\ target'[d] = target[d]
      PROVE  \A t \in Task \ overrun' : Kept(t)
  <2> SUFFICES ASSUME NEW t \in Task \ overrun' PROVE Calm(t)
    BY <1>a, <1>b
  <2>1. Shifted(t)
    BY <1>t, <1>b, ShiftedSame
  <2>2. \A r \in Payload : processing'[r] <= processing[r]
    BY <1>t, <1>b DEF TypeOK
  <2>3. ASSUME NEW d \in Consumer, Serving(d, t)'
        PROVE  Serving(d, t) /\ task'[d] = task[d] /\ (pc'[d] \in {"unlease", "push"} =>
                                                         pc[d] \in {"unlease", "push"})
    BY <1>b, <2>3 DEF Serving
  <2>4. ASSUME NEW d \in Consumer, Returning(d, t)'
        PROVE  Returning(d, t) /\ target'[d] = target[d]
    BY <1>b, <2>4 DEF Returning
  <2>5. QED
    BY <2>1, <2>2, <2>3, <2>4 DEF Calm
\* A step that appends a payload, of a task in nobody's hand then, and empties no hand of others.
<1>c. ASSUME NEW q \in Payload, pending' = Append(pending, q), UNCHANGED <<processing, overrun>>,
             q.id \notin overrun => ~Queued(q.id) /\ ~Processing(q.id),
             q.id \notin overrun => \A d \in Consumer : ~Busy(d, q.id)',
             q.id \in submitted => \A r \in Payload : r.id = q.id /\ Older(r) => r.att < q.att,
             \A t \in Task, d \in Consumer :
               /\ Serving(d, t)' => /\ Serving(d, t) /\ task'[d] = task[d]
                                    /\ pc'[d] \in {"unlease", "push"} => pc[d] \in {"unlease", "push"}
               /\ Returning(d, t)' => Returning(d, t) /\ target'[d] = target[d]
      PROVE  \A t \in Task \ overrun' : Kept(t)
  <2> SUFFICES ASSUME NEW t \in Task \ overrun' PROVE Kept(t)
    OBVIOUS
  <2>1. CASE t = q.id
    BY <1>t, <1>c, <2>1, PushedPlace DEF Kept
  <2>2. CASE t # q.id
    <3>1. Shifted(t)
      BY <1>t, <1>c, <2>2, ShiftedAppend
    <3>2. \A r \in Payload : processing'[r] <= processing[r]
      BY <1>t, <1>c DEF TypeOK
    <3>3. Calm(t)
      BY <1>c, <3>1, <3>2 DEF Calm
    <3>4. QED
      BY <1>a, <1>c, <3>3
  <2>3. QED
    BY <2>1, <2>2
<1>1. ASSUME NEW u \in Task, Submit(u) PROVE \A t \in Task \ overrun' : Kept(t)
  <2> DEFINE q == [id |-> u, att |-> 0, via |-> "enqueue"]
  <2>1. q \in Payload /\ q.id = u
    BY QueueAssumption DEF Payload
  <2>2. /\ pending' = Append(pending, q) /\ u \notin submitted
        /\ UNCHANGED <<processing, overrun, pc, task, target>>
    BY <1>1 DEF Submit, Enqueue, Lpush
  <2>3. ~Queued(u) /\ ~Processing(u)
    BY <1>t, <2>2 DEF Queued, Processing, KnownInv, TypeOK
  <2>4. \A d \in Consumer : ~Busy(d, u)
    BY <2>2 DEF Busy, Serving, Returning, KnownInv
  <2>5. \A d \in Consumer : ~Busy(d, u)'
    BY <2>2, <2>4 DEF Busy, Serving, Returning
  <2>6. \A t \in Task, d \in Consumer :
          /\ Serving(d, t)' => /\ Serving(d, t) /\ task'[d] = task[d]
                               /\ pc'[d] \in {"unlease", "push"} => pc[d] \in {"unlease", "push"}
          /\ Returning(d, t)' => Returning(d, t) /\ target'[d] = target[d]
    BY <2>2 DEF Serving, Returning
  <2> HIDE DEF q
  <2>7. QED
    BY <1>c, <2>1, <2>2, <2>3, <2>5, <2>6
<1>2. ASSUME NEW u \in Task, LeaseExpires(u) PROVE \A t \in Task \ overrun' : Kept(t)
  BY <1>2, <1>b DEF LeaseExpires, Expire
<1>3. ASSUME NEW c \in Consumer, Work(c) PROVE \A t \in Task \ overrun' : Kept(t)
  <2>1. CASE ReadLeases(c) /\ UNCHANGED <<ghosts, faults>>
    BY <2>1, <1>b, <1>t DEF ReadLeases, TypeOK
  <2>2. CASE RecoverRemove(c) /\ UNCHANGED <<ghosts, faults>>
    <3>1. PICK q \in snap[c] :
            /\ processing' = Lrem(processing, q)
            /\ target' = [target EXCEPT ![c] = q]
            /\ pc' = [pc EXCEPT ![c] = IF processing[q] > 0 THEN "hdel_removed" ELSE "hdel_missing"]
      BY <2>2 DEF RecoverRemove
    <3>2. pc[c] = "scan" /\ UNCHANGED <<pending, task, overrun, submitted>>
      BY <2>2 DEF RecoverRemove
    <3>3. q \in Payload /\ processing \in [Payload -> Nat]
      BY <1>t DEF TypeOK
    <3>4. CASE processing[q] > 0
      <4> SUFFICES ASSUME NEW t \in Task \ overrun' PROVE Kept(t)
        OBVIOUS
      <4>1. CASE t = q.id
        <5>1. OnePlace(q.id) /\ Older(q)
          BY <3>2, <4>1 DEF PlaceInv, OldSnap
        <5>2. QED
          BY <1>t, <3>1, <3>2, <3>4, <4>1, <5>1, RemovedPlace DEF Kept
      <4>2. CASE t # q.id
        <5>1. Shifted(t)
          BY <1>t, <3>2, ShiftedSame
        <5>2. \A r \in Payload : r.id = t => processing'[r] <= processing[r]
          BY <3>1, <3>3 DEF Lrem
        <5>3. \A d \in Consumer :
                /\ Serving(d, t)' => /\ Serving(d, t) /\ task'[d] = task[d]
                                     /\ pc'[d] \in {"unlease", "push"} => pc[d] \in {"unlease", "push"}
                /\ Returning(d, t)' => Returning(d, t) /\ target'[d] = target[d]
          BY <1>t, <3>1, <3>2, <3>3, <3>4, <4>2 DEF Serving, Returning, TypeOK
        <5>4. Calm(t)
          BY <5>1, <5>2, <5>3 DEF Calm
        <5>5. QED
          BY <1>a, <3>2, <5>4
      <4>3. QED
        BY <4>1, <4>2
    <3>5. CASE ~(processing[q] > 0)
      <4>1. UNCHANGED processing
        BY <3>1, <3>3, <3>5, LremType
      <4>2. QED
        BY <1>t, <1>b, <3>1, <3>2, <3>5, <4>1 DEF TypeOK
    <3>6. QED
      BY <3>4, <3>5
  <2>3. CASE RecoverDrop(c) /\ UNCHANGED <<ghosts, faults>>
    BY <2>3, <1>b, <1>t DEF RecoverDrop, TypeOK
  <2>4. CASE RecoverPush(c) /\ UNCHANGED <<ghosts, faults>>
    <3>1. PICK q \in Payload : q = Recovered(target[c]) /\ q.id = target[c].id /\ q.att = target[c].att + 1
      BY <2>4, <1>t, WriteBackType DEF RecoverPush, LocalsOK
    <3>2. /\ pending' = Append(pending, q) /\ pc[c] = "repush" /\ pc' = [pc EXCEPT ![c] = "scan"]
          /\ UNCHANGED <<processing, task, target, overrun>>
      BY <2>4, <3>1 DEF RecoverPush, Lpush
    <3>3. target[c] \in Payload /\ Returning(c, q.id) /\ q.id \in Task
      BY <1>t, <3>1, <3>2, PayloadFields DEF LocalsOK, Returning
    <3>4. q.id \notin overrun => ~Queued(q.id) /\ ~Processing(q.id)
      BY <3>3 DEF PlaceInv, OnePlace, Busy
    <3>5. q.id \notin overrun => \A d \in Consumer : ~Busy(d, q.id)'
      BY <1>t, <3>2, <3>3 DEF PlaceInv, OnePlace, Busy, Serving, Returning, TypeOK
    <3>6. \A r \in Payload : r.id = q.id /\ Older(r) => r.att < q.att
      BY <3>1, <3>3, PayloadFields DEF Older
    <3>7. \A t \in Task, d \in Consumer :
            /\ Serving(d, t)' => /\ Serving(d, t) /\ task'[d] = task[d]
                                 /\ pc'[d] \in {"unlease", "push"} => pc[d] \in {"unlease", "push"}
            /\ Returning(d, t)' => Returning(d, t) /\ target'[d] = target[d]
      BY <1>t, <3>2 DEF Serving, Returning, TypeOK
    <3>8. QED
      BY <1>c, <3>2, <3>4, <3>5, <3>6, <3>7
  <2>5. CASE RecoverEnd(c) /\ UNCHANGED <<ghosts, faults>>
    BY <2>5, <1>b, <1>t DEF RecoverEnd, TypeOK
  <2>6. CASE Pop(c) /\ UNCHANGED <<ghosts, faults>>
    <3> SUFFICES ASSUME NEW t \in Task \ overrun' PROVE Kept(t)
      OBVIOUS
    <3>1. PICK q : q = Head(pending)
      OBVIOUS
    <3>2. /\ pending # <<>> /\ pending' = Tail(pending)
          /\ processing' = Add(processing, q) /\ processing \in [Payload -> Nat]
          /\ task' = [task EXCEPT ![c] = q]
          /\ pc' = [pc EXCEPT ![c] = "lease"]
          /\ UNCHANGED <<target, overrun>>
      BY <2>6, <1>t, <3>1 DEF Pop, TypeOK
    <3>3. q \in Payload
      BY <1>t, <3>1, <3>2, TailElements DEF TypeOK
    <3>4. CASE t = q.id
      BY <2>6, <1>t, <3>1, <3>2, <3>4, PoppedPlace DEF Kept, PlaceInv
    <3>5. CASE t # q.id
      <4>1. Shifted(t)
        BY <1>t, <3>2, ShiftedTail
      <4>2. \A r \in Payload : r.id = t => processing'[r] <= processing[r]
        BY <3>2, <3>3, <3>5 DEF Add
      <4>3. \A d \in Consumer :
              /\ Serving(d, t)' => /\ Serving(d, t) /\ task'[d] = task[d]
                                   /\ pc'[d] \in {"unlease", "push"} => pc[d] \in {"unlease", "push"}
              /\ Returning(d, t)' => Returning(d, t) /\ target'[d] = target[d]
        BY <1>t, <3>2, <3>5 DEF Serving, Returning, TypeOK
      <4>4. Calm(t)
        BY <4>1, <4>2, <4>3 DEF Calm
      <4>5. QED
        BY <1>a, <3>2, <4>4
    <3>6. QED
      BY <3>4, <3>5
  <2>7. CASE PopTimeout(c) /\ UNCHANGED <<ghosts, faults>>
    BY <2>7, <1>b, <1>t DEF PopTimeout, TypeOK
  <2>8. CASE Reserve(c)
    BY <2>8, <1>b, <1>t DEF Reserve, PutLease, TypeOK
  <2>9. CASE Finish(c) /\ UNCHANGED <<ghosts, faults>>
    BY <2>9, <1>b, <1>t DEF Finish, TypeOK
  <2>10. CASE ReadLease(c) /\ UNCHANGED <<ghosts, faults>>
    BY <2>10, <1>b, <1>t DEF ReadLease, TypeOK
  <2>11. CASE RemoveInflight(c) /\ UNCHANGED overrun
    <3> SUFFICES ASSUME NEW t \in Task \ overrun' PROVE Kept(t)
      OBVIOUS
    <3>1. /\ pc[c] = "remove" /\ pc' = [pc EXCEPT ![c] = "unlease"]
          /\ processing' = Lrem(processing, target[c]) /\ processing \in [Payload -> Nat]
          /\ UNCHANGED <<pending, task, target, overrun>>
      BY <2>11, <1>t DEF RemoveInflight, TypeOK
    <3>2. target[c] \in Payload
      BY <1>t, <3>1 DEF LocalsOK
    <3>3. \A r \in Payload : processing'[r] <= processing[r]
      BY <3>1, <3>2 DEF Lrem
    <3>4. Serving(c, t) => ~Processing(t)'
      <4> SUFFICES ASSUME Serving(c, t) PROVE \A r \in Payload : r.id = t => processing'[r] = 0
        BY DEF Processing
      <4>1. target[c] = task[c]
        BY <3>1 DEF SettlesOwnDelivery, Serving
      <4>2. \A r \in Payload : r.id = t /\ r # task[c] => processing[r] = 0
        BY <3>1 DEF PlaceInv, OnePlace
      <4>3. task[c] \in Payload /\ task[c].id = t
        BY <3>2, <4>1 DEF Serving
      <4>4. processing[task[c]] <= 1
        BY <3>1, <4>3 DEF PlaceInv, OnePlace
      <4>5. QED
        BY <3>1, <4>1, <4>2, <4>3, <4>4 DEF Lrem
    <3>5. \A d \in Consumer :
            /\ Serving(d, t)' => /\ Serving(d, t) /\ task'[d] = task[d]
                                 /\ pc'[d] \in {"unlease", "push"} => pc[d] \in {"unlease", "push"} \/ d = c
            /\ Returning(d, t)' => Returning(d, t) /\ target'[d] = target[d]
      BY <1>t, <3>1 DEF Serving, Returning, TypeOK
    <3>6. Shifted(t)
      BY <1>t, <3>1, ShiftedSame
    <3>7. Calm(t)
      BY <3>3, <3>4, <3>5, <3>6 DEF Calm
    <3>8. QED
      BY <1>a, <3>1, <3>7
  <2>12. CASE DropLease(c) /\ UNCHANGED <<ghosts, faults>>
    BY <2>12, <1>b, <1>t DEF DropLease, TypeOK
  <2>13. CASE Push(c) /\ UNCHANGED overrun
    <3>1. pc[c] = "push" /\ UNCHANGED <<processing, overrun>> /\ Return(c)
      BY <2>13 DEF Push
    <3>2. CASE UNCHANGED pending
      BY <1>t, <1>b, <3>1, <3>2 DEF TypeOK
    <3>3. CASE op[c] = "requeue" /\ Lpush(Retried(task[c]))
      <4>1. task[c] \in Payload /\ task[c].att < MaxAtt
        BY <1>t, <3>1, <3>3, WorkerAssumption, QueueAssumption, PayloadFields DEF LocalsOK
      <4>2. PICK q \in Payload : q = Retried(task[c]) /\ q.id = task[c].id /\ q.att = task[c].att + 1
        BY <4>1, WriteBackType
      <4>3. pending' = Append(pending, q)
        BY <3>3, <4>2 DEF Lpush
      <4>4. Serving(c, q.id) /\ q.id \in Task
        BY <3>1, <4>1, <4>2, PayloadFields DEF Serving
      <4>5. q.id \notin overrun => ~Queued(q.id)
        BY <4>4 DEF PlaceInv, OnePlace, Busy
      <4>6. q.id \notin overrun => ~Processing(q.id)
        BY <3>1, <4>4 DEF PlaceInv, OnePlace, Processing
      <4>7. \A t \in Task, d \in Consumer :
              /\ Serving(d, t)' => /\ Serving(d, t) /\ task'[d] = task[d] /\ d # c
                                   /\ pc'[d] \in {"unlease", "push"} => pc[d] \in {"unlease", "push"}
              /\ Returning(d, t)' => Returning(d, t) /\ target'[d] = target[d] /\ d # c
        BY <1>t, <3>1 DEF Serving, Returning, TypeOK
      <4>8. q.id \notin overrun => \A d \in Consumer : ~Busy(d, q.id)'
        BY <4>4, <4>7 DEF PlaceInv, OnePlace, Busy
      <4>9. \A r \in Payload : r.id = q.id /\ Older(r) => r.att < q.att
        BY <4>1, <4>2, <4>4, PayloadFields DEF Older
      <4>10. QED
        BY <1>c, <3>1, <4>3, <4>5, <4>6, <4>7, <4>8, <4>9
    <3>4. QED
      BY <2>13, <3>2, <3>3 DEF Push
  <2>14. QED
    BY <1>3, <2>1, <2>2, <2>3, <2>4, <2>5, <2>6, <2>7, <2>8, <2>9, <2>10, <2>11, <2>12, <2>13
    DEF Work, Recover, Settle
<1>4. ASSUME NEW c \in Consumer, Crash(c) \/ ReserveFails(c) \/ Restart(c) \/ AckFails(c)
      PROVE  \A t \in Task \ overrun' : Kept(t)
  <2>1. CASE Crash(c)
    BY <2>1, <1>b, <1>t DEF Crash, TypeOK
  <2>2. CASE ReserveFails(c)
    BY <2>2, <1>b, <1>t DEF ReserveFails, TypeOK
  <2>3. CASE Restart(c)
    BY <2>3, <1>b, <1>t DEF Restart, TypeOK
  <2>4. CASE AckFails(c)
    BY <2>4, <1>b, <1>t DEF AckFails, TypeOK
  <2>5. QED
    BY <1>4, <2>1, <2>2, <2>3, <2>4
<1>5. ASSUME Reset PROVE \A t \in Task \ overrun' : Kept(t)
  <2> SUFFICES ASSUME NEW t \in Task \ overrun' PROVE Kept(t)
    OBVIOUS
  <2>1. /\ pending' = <<>> /\ processing' = [r \in Payload |-> 0]
        /\ UNCHANGED <<pc, task, target, overrun>>
    BY <1>5 DEF Reset, Purge
  <2>2. \A r \in Payload : processing'[r] <= processing[r]
    BY <1>t, <2>1 DEF TypeOK
  <2>3. Shifted(t)
    BY <2>1 DEF Shifted
  <2>4. \A d \in Consumer :
          /\ Serving(d, t)' => Serving(d, t) /\ task'[d] = task[d] /\ pc'[d] = pc[d]
          /\ Returning(d, t)' => Returning(d, t) /\ target'[d] = target[d]
    BY <2>1 DEF Serving, Returning
  <2>5. Calm(t)
    BY <2>2, <2>3, <2>4 DEF Calm
  <2>6. QED
    BY <1>a, <2>1, <2>5
<1>6. CASE UNCHANGED vars
  BY <1>6, <1>b
<1>7. QED
  BY <1>1, <1>2, <1>3, <1>4, <1>5, <1>6 DEF Next

LEMMA NextLeases ==
  ASSUME TypeInv, TypeInv', KnownInv, PlaceInv, OwnLease, OldLease, OldSnap, SettlesOwnDelivery,
         [Next]_vars, \A t \in Task \ overrun' : Kept(t)
  PROVE  OwnLease' /\ OldLease'
<1> USE DEF Goto, Leave, Return, redis, locals, queueVars, ghosts, vars, Fault
<1>t. TypeOK /\ TypeOK' /\ LocalsOK
  BY DEF TypeInv
<1>l. \A t \in Task : leases[t] # NoLease =>
        leases[t] \in Lease /\ leases[t].raw \in Payload /\ leases[t].raw.id = t /\ t \in submitted
  BY <1>t DEF TypeOK, LocalsOK, KnownInv, Lease
<1>w. \A c \in Consumer : Leased(c) => task[c] \in Payload /\ task[c].id \in Task
  BY <1>t, PayloadFields DEF Leased, LocalsOK
\* A lease that was of the past stays so.
<1>o. ASSUME NEW t \in Task \ overrun', overrun \subseteq overrun', leases[t] # NoLease,
             leases'[t].raw = leases[t].raw, \A c \in Consumer : Leased(c) => task[c].id # t
      PROVE  Older(leases[t].raw)'
  <2>1. PICK r \in Payload : r = leases[t].raw /\ r.id = t
    BY <1>l, <1>o
  <2>2. Older(r)
    BY <1>o, <2>1 DEF OldLease
  <2>3. Older(r)'
    BY <1>l, <1>o, <2>1, <2>2 DEF Kept
  <2>4. QED
    BY <1>o, <2>1, <2>3 DEF Older
\* A step that at most drops leases, and after which no other client is at work.
<1>k. ASSUME \A t \in Task : leases'[t] \in {NoLease, leases[t]}, overrun \subseteq overrun',
             \A d \in Consumer : Leased(d)' => Leased(d) /\ task'[d] = task[d],
             \A d \in Consumer : Leased(d) => Leased(d)' \/ leases'[task[d].id] = NoLease
      PROVE  OwnLease' /\ OldLease'
  <2>1. OwnLease'
    BY <1>w, <1>k DEF OwnLease
  <2>2. ASSUME NEW t \in Task \ overrun', leases'[t] # NoLease,
               \A c \in Consumer : Leased(c)' => task'[c].id # t
        PROVE  Older(leases[t].raw)'
    <3>1. leases'[t] = leases[t] /\ leases[t] # NoLease
      BY <1>k, <2>2
    <3>2. \A c \in Consumer : Leased(c) => task[c].id # t
      BY <1>k, <2>2
    <3>3. QED
      BY <1>k, <1>o, <3>1, <3>2
  <2>3. QED
    BY <2>1, <2>2 DEF OldLease
<1>1. ASSUME NEW u \in Task, Submit(u) PROVE OwnLease' /\ OldLease'
  BY <1>1, <1>k DEF Submit, Enqueue, Leased
<1>2. ASSUME NEW u \in Task, LeaseExpires(u) PROVE OwnLease' /\ OldLease'
  <2>1. /\ leases' = [leases EXCEPT ![u].expired = TRUE] /\ leases[u] \in Lease
        /\ overrun' = IF AtWork(leases[u].owner, u) THEN overrun \union {u} ELSE overrun
        /\ UNCHANGED <<pc, task>>
    BY <1>2, <1>l DEF LeaseExpires, Expire
  <2>2. \A t \in Task : (t = u \/ leases'[t] = leases[t]) /\ leases'[t].raw = leases[t].raw
                        /\ (leases'[t] # NoLease => leases[t] # NoLease)
    BY <1>2, <1>t, <1>l, <2>1 DEF TypeOK, Lease, LeaseExpires, Expire
  \* The owner of the lease is not at work, or the task is overrun.
  <2>3. ASSUME NEW c \in Consumer, Leased(c), task[c].id \notin overrun' PROVE task[c].id # u
    <3> SUFFICES ASSUME task[c].id = u PROVE FALSE
      OBVIOUS
    <3>1. leases[u] = [raw |-> task[c], owner |-> c, expired |-> FALSE]
      BY <1>2, <2>1, <2>3 DEF OwnLease, LeaseExpires, Expire
    <3>2. AtWork(leases[u].owner, u)
      BY <2>3, <3>1 DEF AtWork, Leased
    <3>3. QED
      BY <2>1, <2>3, <3>2
  <2>4. OwnLease'
    BY <1>w, <2>1, <2>2, <2>3 DEF OwnLease, Leased
  <2>5. \A c \in Consumer : Leased(c)' => Leased(c) /\ task'[c] = task[c]
    BY <2>1 DEF Leased
  <2>6. ASSUME NEW t \in Task \ overrun', leases'[t] # NoLease,
               \A c \in Consumer : Leased(c)' => task'[c].id # t
        PROVE  Older(leases[t].raw)'
    <3>1. \A c \in Consumer : Leased(c) => task[c].id # t
      BY <2>1, <2>6 DEF Leased
    <3>2. QED
      BY <1>o, <2>1, <2>2, <2>6, <3>1
  <2>7. QED
    BY <2>4, <2>6 DEF OldLease
<1>3. ASSUME NEW c \in Consumer, Work(c) PROVE OwnLease' /\ OldLease'
  <2>1. CASE Recover(c) /\ UNCHANGED <<ghosts, faults>>
    BY <2>1, <1>k, <1>t, <1>w
    DEF Recover, ReadLeases, RecoverRemove, RecoverDrop, RecoverPush, RecoverEnd, TypeOK, Leased
  <2>2. CASE (Pop(c) \/ PopTimeout(c) \/ Finish(c)) /\ UNCHANGED <<ghosts, faults>>
    BY <2>2, <1>k, <1>t, <1>w DEF Pop, PopTimeout, Finish, TypeOK, Leased
  <2>3. CASE Reserve(c)
    <3>1. /\ pc[c] = "lease" /\ pc' = [pc EXCEPT ![c] = "work"]
          /\ leases' = [leases EXCEPT ![task[c].id] =
                          [raw |-> task[c], owner |-> c, expired |-> FALSE]]
          /\ UNCHANGED <<task, overrun>> /\ task[c].id \in Task
      BY <2>3, <1>t, PayloadFields DEF Reserve, PutLease, LocalsOK
    <3>2. \A d \in Consumer : Leased(d)' <=> Leased(d) \/ d = c
      BY <1>t, <3>1 DEF TypeOK, Leased
    <3>3. \A d \in Consumer : Leased(d) /\ task[d].id \notin overrun => task[d].id # task[c].id
      <4> SUFFICES ASSUME NEW d \in Consumer, Leased(d), task[d].id \notin overrun,
                          task[d].id = task[c].id
                   PROVE  FALSE
        OBVIOUS
      <4>1. Serving(d, task[c].id) /\ Serving(c, task[c].id)
        BY <3>1 DEF Serving, Leased
      <4>2. d = c
        BY <3>1, <4>1 DEF PlaceInv, OnePlace, Busy
      <4>3. QED
        BY <3>1, <4>2 DEF Leased
    <3>4. OwnLease'
      <4> SUFFICES ASSUME NEW d \in Consumer, Leased(d)', task[d].id \notin overrun
                   PROVE  leases'[task[d].id] \in
                            {NoLease, [raw |-> task[d], owner |-> d, expired |-> FALSE]}
        BY <3>1 DEF OwnLease
      <4>1. CASE d = c
        BY <1>t, <3>1, <4>1 DEF TypeOK
      <4>2. CASE d # c
        <5>1. Leased(d) /\ task[d].id # task[c].id
          BY <3>2, <3>3, <4>2
        <5>2. leases'[task[d].id] = leases[task[d].id]
          BY <1>t, <1>w, <3>1, <5>1 DEF TypeOK
        <5>3. QED
          BY <5>1, <5>2 DEF OwnLease
      <4>3. QED
        BY <4>1, <4>2
    <3>5. ASSUME NEW t \in Task \ overrun', leases'[t] # NoLease,
                 \A d \in Consumer : Leased(d)' => task'[d].id # t
          PROVE  Older(leases[t].raw)'
      <4>1. t # task[c].id /\ leases'[t] = leases[t]
        BY <1>t, <3>1, <3>2, <3>5 DEF TypeOK
      <4>2. \A d \in Consumer : Leased(d) => task[d].id # t
        BY <3>1, <3>2, <3>5
      <4>3. QED
        BY <1>o, <3>1, <3>5, <4>1, <4>2
    <3>6. QED
      BY <3>4, <3>5 DEF OldLease
  <2>4. CASE ReadLease(c) /\ UNCHANGED <<ghosts, faults>>
    BY <2>4, <1>k, <1>t, <1>w DEF ReadLease, TypeOK, Leased
  <2>5. CASE RemoveInflight(c) /\ UNCHANGED overrun
    BY <2>5, <1>k, <1>t, <1>w DEF RemoveInflight, TypeOK, Leased
  <2>6. CASE DropLease(c) /\ UNCHANGED <<ghosts, faults>>
    BY <2>6, <1>k, <1>t, <1>w DEF DropLease, TypeOK, Leased
  <2>7. CASE Push(c) /\ UNCHANGED overrun
    BY <2>7, <1>k, <1>t, <1>w DEF Push, TypeOK, Leased
  <2>8. QED
    BY <1>3, <2>1, <2>2, <2>3, <2>4, <2>5, <2>6, <2>7 DEF Work, Settle
<1>4. ASSUME NEW c \in Consumer, Crash(c) PROVE OwnLease' /\ OldLease'
  <2>1. /\ pc' = [pc EXCEPT ![c] = "down"] /\ task' = [task EXCEPT ![c] = NoTask]
        /\ target' = [target EXCEPT ![c] = NoTask]
        /\ UNCHANGED <<pending, processing, leases, overrun>>
    BY <1>4 DEF Crash
  <2>2. \A d \in Consumer : Leased(d)' <=> Leased(d) /\ d # c
    BY <1>t, <2>1 DEF TypeOK, Leased
  <2>3. \A d \in Consumer : d # c => task'[d] = task[d]
    BY <1>t, <2>1 DEF TypeOK
  <2>4. OwnLease'
    BY <2>1, <2>2, <2>3 DEF OwnLease
  <2>5. ASSUME NEW t \in Task \ overrun', leases'[t] # NoLease,
               \A d \in Consumer : Leased(d)' => task'[d].id # t
        PROVE  Older(leases[t].raw)'
    <3>1. CASE Leased(c) /\ task[c].id = t
      <4>a. leases[t] = [raw |-> task[c], owner |-> c, expired |-> FALSE]
        BY <2>1, <2>5, <3>1 DEF OwnLease
      <4>1. PICK r \in Payload : r = task[c] /\ r.id = t /\ leases[t].raw = r
        BY <1>w, <3>1, <4>a
      <4>2. OnePlace(t) /\ Serving(c, t)
        BY <2>1, <2>5, <3>1 DEF PlaceInv, Serving, Leased
      <4>3. ~Queued(t) /\ \A d \in Consumer : Busy(d, t) => d = c
        BY <4>2 DEF OnePlace, Busy
      <4>4. \A d \in Consumer : ~Serving(d, t)' /\ ~Returning(d, t)'
        BY <1>t, <2>1, <4>3 DEF Serving, Returning, Busy, TypeOK
      <4>5. \A s \in Payload : s.id = t /\ processing'[s] > 0 => s = r
        BY <2>1, <4>1, <4>2 DEF OnePlace
      <4>6. r.att \in Nat
        BY PayloadFields
      <4>7. Older(r)'
        BY <2>1, <4>1, <4>3, <4>4, <4>5, <4>6 DEF Older, Queued
      <4>8. QED
        BY <2>1, <4>1, <4>7 DEF Older
    <3>2. CASE ~(Leased(c) /\ task[c].id = t)
      <4>1. \A d \in Consumer : Leased(d) => task[d].id # t
        BY <2>2, <2>3, <2>5, <3>2
      <4>2. QED
        BY <1>o, <2>1, <2>5, <4>1
    <3>3. QED
      BY <3>1, <3>2
  <2>6. QED
    BY <2>4, <2>5 DEF OldLease
<1>5. ASSUME NEW c \in Consumer, ReserveFails(c) \/ Restart(c) \/ AckFails(c)
      PROVE  OwnLease' /\ OldLease'
  BY <1>5, <1>k, <1>t, <1>w DEF ReserveFails, Restart, AckFails, TypeOK, Leased
<1>6. ASSUME Reset PROVE OwnLease' /\ OldLease'
  BY <1>6, <1>k DEF Reset, Purge, Leased
<1>7. CASE UNCHANGED vars
  BY <1>7, <1>k DEF Leased
<1>8. QED
  BY <1>1, <1>2, <1>3, <1>4, <1>5, <1>6, <1>7 DEF Next

\* The snapshots of expired leases are of past deliveries only: who is at work has its own lease,
\* and that has not expired.
LEMMA NextSnap ==
  ASSUME TypeInv, KnownInv, OwnLease, OldLease, OldSnap, [Next]_vars,
         \A t \in Task \ overrun' : Kept(t), overrun \subseteq overrun'
  PROVE  OldSnap'
<1> USE DEF Goto, Leave, Return, redis, locals, queueVars, ghosts, vars, Fault
<1>t. TypeOK /\ LocalsOK
  BY DEF TypeInv
<1>1. ASSUME NEW c \in Consumer, ReadLeases(c), NEW d \in Consumer, NEW r \in snap'[d],
             r.id \notin overrun
      PROVE  r \in Payload /\ r.id \in submitted /\ Older(r)
  <2>1. CASE d # c
    BY <1>t, <1>1, <2>1 DEF ReadLeases, OldSnap, TypeOK, KnownInv
  <2>2. CASE d = c
    <3>a. snap'[c] = {leases[t].raw : t \in {u \in Task : leases[u] # NoLease /\ leases[u].expired}}
      BY <1>t, <1>1 DEF ReadLeases, TypeOK
    <3>1. PICK t \in Task : leases[t] # NoLease /\ leases[t].expired /\ r = leases[t].raw
      BY <1>1, <2>2, <3>a
    <3>2. r \in Payload /\ r.id = t /\ t \in submitted
      BY <1>t, <3>1 DEF TypeOK, Lease, LocalsOK, KnownInv
    <3>3. ASSUME NEW e \in Consumer, Leased(e), task[e].id = t PROVE FALSE
      <4>1. leases[t] \in {NoLease, [raw |-> task[e], owner |-> e, expired |-> FALSE]}
        BY <1>1, <3>2, <3>3 DEF OwnLease
      <4>2. leases[t].expired = FALSE
        BY <3>1, <4>1
      <4>3. QED
        BY <3>1, <4>2
    <3>4. QED
      BY <1>1, <3>1, <3>2, <3>3 DEF OldLease
  <2>3. QED
    BY <2>1, <2>2
<1>2. ASSUME \A c \in Consumer : ~ReadLeases(c)
      PROVE  \A d \in Consumer : snap'[d] \subseteq snap[d]
  <2>1. ASSUME NEW c \in Consumer, Work(c) PROVE \A d \in Consumer : snap'[d] \subseteq snap[d]
    BY <1>t, <1>2, <2>1
    DEF Work, Reserve, Settle, Recover, RecoverRemove, RecoverDrop, RecoverPush, RecoverEnd, Pop,
        PopTimeout, PutLease, Finish, ReadLease, RemoveInflight, DropLease, Push, TypeOK
  <2>2. ASSUME NEW c \in Consumer, Crash(c) \/ Restart(c) \/ ReserveFails(c) \/ AckFails(c)
        PROVE  \A d \in Consumer : snap'[d] \subseteq snap[d]
    BY <1>t, <2>2 DEF Crash, Restart, ReserveFails, AckFails, TypeOK
  <2>3. QED
    BY <2>1, <2>2 DEF Next, Submit, Enqueue, LeaseExpires, Expire, Reset, Purge
<1>3. ASSUME NEW d \in Consumer, NEW r \in snap'[d], r.id \notin overrun'
      PROVE  r \in Payload /\ r.id \in submitted /\ Older(r)
  <2>1. CASE \E c \in Consumer : ReadLeases(c)
    BY <1>1, <1>3, <2>1
  <2>2. CASE \A c \in Consumer : ~ReadLeases(c)
    BY <1>t, <1>2, <1>3, <2>2 DEF OldSnap, TypeOK, KnownInv
  <2>3. QED
    BY <2>1, <2>2
<1>4. ASSUME NEW d \in Consumer, NEW r \in snap'[d], r.id \notin overrun' PROVE Older(r)'
  <2>1. r \in Payload /\ r.id \in submitted /\ Older(r)
    BY <1>3, <1>4
  <2>2. Kept(r.id)
    BY <1>4, <2>1, PayloadFields
  <2>3. QED
    BY <2>1, <2>2 DEF Kept
<1>5. QED
  BY <1>4 DEF OldSnap

LEMMA NextOwn ==
  ASSUME TypeInv, OwnLease, SettlesOwnDelivery, [Next]_vars, overrun \subseteq overrun'
  PROVE  SettlesOwnDelivery'
<1> USE DEF Goto, Leave, Return, redis, locals, queueVars, ghosts, vars, Fault
<1>t. TypeOK
  BY DEF TypeInv
<1>1. ASSUME NEW c \in Consumer, ReadLease(c) PROVE SettlesOwnDelivery'
  <2>1. CASE Return(c)
    BY <1>1, <1>t, <2>1 DEF ReadLease, SettlesOwnDelivery, TypeOK
  <2>2. CASE ~Return(c)
    <3>1. /\ pc[c] = "settle" /\ leases[task[c].id] # NoLease
          /\ target' = [target EXCEPT ![c] = leases[task[c].id].raw]
          /\ pc' = [pc EXCEPT ![c] = "remove"] /\ task' = task
      BY <1>1, <2>2 DEF ReadLease
    <3>2. ASSUME task[c].id \notin overrun' PROVE target'[c] = task[c]
      <4>1. leases[task[c].id] \in {NoLease, [raw |-> task[c], owner |-> c, expired |-> FALSE]}
        BY <3>1, <3>2 DEF OwnLease, Leased
      <4>2. leases[task[c].id].raw = task[c]
        BY <3>1, <4>1
      <4>3. QED
        BY <1>t, <3>1, <4>2 DEF TypeOK
    <3>3. \A d \in Consumer : d # c => pc'[d] = pc[d] /\ target'[d] = target[d]
      BY <1>t, <3>1 DEF TypeOK
    <3>4. QED
      BY <3>1, <3>2, <3>3 DEF SettlesOwnDelivery
  <2>3. QED
    BY <2>1, <2>2
<1>2. ASSUME NEW c \in Consumer, Work(c), ~ReadLease(c) PROVE SettlesOwnDelivery'
  BY <1>t, <1>2
  DEF Work, Reserve, Settle, Recover, ReadLeases, RecoverRemove, RecoverDrop, RecoverPush,
      RecoverEnd, Pop, PopTimeout, PutLease, Finish, RemoveInflight, DropLease, Push, TypeOK,
      SettlesOwnDelivery
<1>3. ASSUME NEW c \in Consumer, Crash(c) \/ Restart(c) \/ ReserveFails(c) \/ AckFails(c)
      PROVE  SettlesOwnDelivery'
  BY <1>t, <1>3 DEF Crash, Restart, ReserveFails, AckFails, TypeOK, SettlesOwnDelivery
<1>4. CASE UNCHANGED <<pc, task, target>>
  BY <1>4 DEF SettlesOwnDelivery
<1>5. QED
  BY <1>1, <1>2, <1>3, <1>4 DEF Next, Submit, Enqueue, LeaseExpires, Expire, Reset, Purge

-----------------------------------------------------------------------------
(* The theorems *)

CopiesInv == PlaceInv /\ OwnLease /\ OldLease /\ OldSnap /\ SettlesOwnDelivery

LEMMA InitCopies == Init => CopiesInv
<1> SUFFICES ASSUME Init PROVE CopiesInv
  OBVIOUS
<1>1. /\ pending = <<>> /\ Len(pending) = 0
      /\ \A r \in Payload : processing[r] = 0
      /\ \A t \in Task : leases[t] = NoLease
      /\ \A c \in Consumer : pc[c] = "recover" /\ snap[c] = {}
  BY DEF Init, QueueInit
<1>2. \A t \in Task : OnePlace(t)
  <2> SUFFICES ASSUME NEW t \in Task PROVE OnePlace(t)
    OBVIOUS
  <2>1. ~Queued(t) /\ ~Processing(t) /\ \A i \in 1..Len(pending) : FALSE
    BY <1>1 DEF Queued, Processing
  <2>2. \A c \in Consumer : ~Serving(c, t) /\ ~Returning(c, t)
    BY <1>1 DEF Serving, Returning
  <2>3. \A r \in Payload : processing[r] <= 1 /\ ~(processing[r] > 0)
    BY <1>1
  <2>4. QED
    BY <2>1, <2>2, <2>3 DEF OnePlace, Busy
<1>3. QED
  BY <1>1, <1>2 DEF CopiesInv, PlaceInv, OwnLease, OldLease, OldSnap, SettlesOwnDelivery, Leased

\* An overrun task stays one.
LEMMA OverrunGrows == [Next]_vars => overrun \subseteq overrun'
BY DEF Next, Submit, LeaseExpires, Work, Reserve, Settle, Crash, Restart, ReserveFails, AckFails,
       Reset, vars, ghosts

LEMMA NextCopies ==
  TypeInv /\ TypeInv' /\ KnownInv /\ CopiesInv /\ [Next]_vars => CopiesInv'
<1> SUFFICES ASSUME TypeInv, TypeInv', KnownInv, CopiesInv, [Next]_vars PROVE CopiesInv'
  OBVIOUS
<1>i. PlaceInv /\ OwnLease /\ OldLease /\ OldSnap /\ SettlesOwnDelivery
  BY DEF CopiesInv
<1>1. \A t \in Task \ overrun' : Kept(t)
  BY <1>i, NextPlaces
<1>2. overrun \subseteq overrun'
  BY OverrunGrows
<1>3. PlaceInv'
  BY <1>1 DEF Kept, PlaceInv
<1>4. OwnLease' /\ OldLease'
  BY <1>i, <1>1, NextLeases
<1>5. OldSnap'
  BY <1>i, <1>1, <1>2, NextSnap
<1>6. SettlesOwnDelivery'
  BY <1>i, <1>2, NextOwn
<1>7. QED
  BY <1>3, <1>4, <1>5, <1>6 DEF CopiesInv

\* ack(), requeue() and dead_letter() take the lease they find by task id, whoever holds it
\* (task_queue.py:146, 166, 193); unless a lease of the task has expired under its owner, the
\* payload they remove is the one reserve() returned to the caller.
THEOREM SettlesOwn == Spec => []SettlesOwnDelivery
<1>1. CopiesInv => SettlesOwnDelivery
  BY DEF CopiesInv
<1>2. QED
  BY InitTypeInv, NextTypeInv, InitKnown, NextKnown, InitCopies, NextCopies, <1>1, PTL DEF Spec

LEMMA AtMostOne ==
  ASSUME NEW S, \A x, y \in S : x = y
  PROVE  Cardinality(S) \in {0, 1} /\ (S = {} => Cardinality(S) = 0)
<1>1. CASE S = {}
  BY <1>1, FS_EmptySet
<1>2. CASE S # {}
  <2>1. PICK x \in S : S = {x}
    BY <1>2
  <2>2. QED
    BY <2>1, FS_Singleton
<1>3. QED
  BY <1>1, <1>2

\* A task at one place has at most one copy.
LEMMA OnePlaceOneCopy ==
  ASSUME TypeInv, NEW t \in Task, OnePlace(t)
  PROVE  CopiesOf(t) <= 1
<1> DEFINE P == {i \in 1..Len(pending) : pending[i].id = t}
           Q == UNION {{<<r, k>> : k \in 1..processing[r]} : r \in {s \in Payload : s.id = t}}
           H == {c \in Consumer : t \in InHand(c)}
<1>t. TypeOK /\ LocalsOK
  BY DEF TypeInv
<1>1. \A c \in H : Busy(c, t) /\ ~Processing(t)
  <2> SUFFICES ASSUME NEW c \in H PROVE Busy(c, t) /\ ~Processing(t)
    OBVIOUS
  <2>1. CASE pc[c] \in {"hdel_removed", "repush"}
    <3>1. Returning(c, t)
      BY <2>1 DEF InHand, Returning
    <3>2. QED
      BY <3>1 DEF OnePlace, Busy
  <2>2. CASE pc[c] \notin {"hdel_removed", "repush"}
    <3>1. pc[c] \in {"unlease", "push"} /\ Serving(c, t)
      BY <2>2 DEF InHand, Serving
    <3>2. QED
      BY <3>1 DEF OnePlace, Busy, Processing
  <2>3. QED
    BY <2>1, <2>2
<1>2. \A p \in Q : \E r \in Payload : r.id = t /\ processing[r] > 0 /\ p = <<r, 1>>
  <2> SUFFICES ASSUME NEW p \in Q
               PROVE  \E r \in Payload : r.id = t /\ processing[r] > 0 /\ p = <<r, 1>>
    OBVIOUS
  <2>1. PICK r \in Payload : r.id = t /\ \E k \in 1..processing[r] : p = <<r, k>>
    OBVIOUS
  <2>2. processing[r] \in Nat /\ processing[r] <= 1
    BY <1>t, <2>1 DEF TypeOK, OnePlace
  <2>3. QED
    BY <2>1, <2>2
<1>3. Q # {} => Processing(t)
  BY <1>2 DEF Processing
<1>4. P # {} => Queued(t)
  BY DEF Queued
<1>5. Cardinality(P) \in {0, 1} /\ (P = {} => Cardinality(P) = 0)
  <2>1. \A i, j \in P : i = j
    BY DEF OnePlace
  <2>2. QED
    BY <2>1, AtMostOne
<1>6. Cardinality(Q) \in {0, 1} /\ (Q = {} => Cardinality(Q) = 0)
  <2>1. \A p, q \in Q : p = q
    BY <1>2 DEF OnePlace
  <2>2. QED
    BY <2>1, AtMostOne
<1>7. Cardinality(H) \in {0, 1} /\ (H = {} => Cardinality(H) = 0)
  <2>1. \A c, d \in H : c = d
    BY <1>1 DEF OnePlace
  <2>2. QED
    BY <2>1, AtMostOne
<1>8. /\ P # {} => Q = {} /\ H = {}
      /\ Q # {} => H = {}
  BY <1>1, <1>3, <1>4 DEF OnePlace
<1>9. CopiesOf(t) = Cardinality(P) + Cardinality(Q) + Cardinality(H)
  BY DEF CopiesOf
<1> HIDE DEF P, Q, H
<1>10. QED
  BY <1>5, <1>6, <1>7, <1>8, <1>9

\* Whatever recoveries, late settlements and crashes do, a task has at most one copy in the queue
\* and the clients' hands (task_queue.py:227-229: the LREM count decides who pushes back), unless
\* a consumer was still at work when the lease it held ran out.
THEOREM OneCopy == Spec => []OneCopyUnlessOverrun
<1>1. TypeInv /\ CopiesInv => OneCopyUnlessOverrun
  BY OnePlaceOneCopy DEF CopiesInv, PlaceInv, OneCopyUnlessOverrun
<1>2. QED
  BY InitTypeInv, NextTypeInv, InitKnown, NextKnown, InitCopies, NextCopies, <1>1, PTL DEF Spec

-----------------------------------------------------------------------------
(* What reserve() keeps as long as nothing fails *)

\* The payload in :processing is of a client that has its lease, or is about to write it or has
\* just done so; no lease has expired, and no recovery is concerned with the task.
Undisturbed(t) ==
  /\ Processing(t) =>
       \E c \in Consumer : pc[c] \in {"lease", "work", "settle", "remove"} /\ task[c].id = t
  /\ leases[t] # NoLease =>
       \E c \in Consumer : /\ Leased(c) /\ task[c].id = t
                           /\ leases[t] = [raw |-> task[c], owner |-> c, expired |-> FALSE]
  /\ \A c \in Consumer :
       /\ Leased(c) /\ task[c].id = t => leases[t] # NoLease
       /\ \A r \in snap[c] : r.id # t
       /\ pc[c] \in {"hdel_removed", "hdel_missing", "repush"} => target[c].id # t

UndisturbedInv == faults = 0 => \A t \in Task \ overrun : Undisturbed(t)

LEMMA UndisturbedLeased ==
  ASSUME UndisturbedInv
  PROVE  StrandedOnlyByFault
<1> SUFFICES ASSUME faults = 0, NEW t \in Task \ overrun, Stranded(t) PROVE FALSE
  BY DEF StrandedOnlyByFault
<1>1. Undisturbed(t) /\ Processing(t) /\ leases[t] = NoLease
  BY DEF UndisturbedInv, Stranded
<1>2. PICK c \in Consumer : pc[c] \in {"lease", "work", "settle", "remove"} /\ task[c].id = t
  BY <1>1 DEF Undisturbed
<1>3. pc[c] # "lease"
  BY <1>2 DEF Stranded, Moving
<1>4. QED
  BY <1>1, <1>2, <1>3 DEF Undisturbed, Leased

LEMMA InitUndisturbed == Init => UndisturbedInv
<1> SUFFICES ASSUME Init PROVE \A t \in Task : Undisturbed(t)
  BY DEF UndisturbedInv
<1>1. /\ \A r \in Payload : ~(processing[r] > 0)
      /\ \A t \in Task : leases[t] = NoLease
      /\ \A c \in Consumer : pc[c] = "recover" /\ snap[c] = {}
  BY DEF Init, QueueInit
<1>2. QED
  BY <1>1 DEF Undisturbed, Processing, Leased

LEMMA NextUndisturbed ==
  TypeInv /\ TypeInv' /\ PlaceInv /\ PlaceInv' /\ UndisturbedInv /\ [Next]_vars => UndisturbedInv'
<1> SUFFICES ASSUME TypeInv, PlaceInv, PlaceInv', UndisturbedInv, [Next]_vars, faults' = 0,
                    NEW t \in Task \ overrun'
             PROVE  Undisturbed(t)'
  BY DEF UndisturbedInv
<1> USE DEF Goto, Leave, Return, redis, locals, queueVars, ghosts, vars
<1>t. TypeOK /\ LocalsOK
  BY DEF TypeInv
<1>o. t \in Task \ overrun
  BY OverrunGrows
<1>f. faults = 0 /\ ~Fault
  BY <1>t DEF TypeOK, Fault, Next, Submit, LeaseExpires, Work, Reserve, Settle, Crash, Restart,
              ReserveFails, AckFails, Reset
<1>u. Undisturbed(t) /\ OnePlace(t) /\ OnePlace(t)'
  BY <1>f, <1>o DEF UndisturbedInv, PlaceInv
\* A client's own step that is none of a recovery, and about another task or of no command on it.
<1>1. ASSUME NEW u \in Task, Submit(u) PROVE Undisturbed(t)'
  BY <1>1, <1>u DEF Submit, Enqueue, Lpush, Undisturbed, Processing, Leased
<1>2. ASSUME NEW u \in Task, LeaseExpires(u) PROVE Undisturbed(t)'
  <2>1. ASSUME u = t PROVE FALSE
    <3>1. leases[t] # NoLease
      BY <1>2, <2>1 DEF LeaseExpires, Expire
    <3>2. PICK c \in Consumer : Leased(c) /\ leases[t] = [raw |-> task[c], owner |-> c, expired |-> FALSE]
      BY <1>u, <3>1 DEF Undisturbed
    <3>3. leases[t].owner = c /\ leases[t].raw = task[c]
      BY <3>2
    <3>4. AtWork(leases[t].owner, t)
      BY <3>2, <3>3 DEF AtWork, Leased
    <3>5. QED
      BY <1>2, <2>1, <3>4 DEF LeaseExpires
  <2>2. QED
    BY <1>2, <1>u, <1>t, <2>1 DEF LeaseExpires, Expire, Undisturbed, Processing, Leased, TypeOK
<1>3. ASSUME NEW c \in Consumer, ReadLeases(c) PROVE Undisturbed(t)'
  <2>1. \A r \in snap'[c] : r.id # t
    BY <1>3, <1>t, <1>u DEF ReadLeases, TypeOK, LocalsOK, Undisturbed
  <2>2. QED
    BY <1>3, <1>t, <1>u, <2>1 DEF ReadLeases, TypeOK, Undisturbed, Processing, Leased
<1>4. ASSUME NEW c \in Consumer, RecoverRemove(c) PROVE Undisturbed(t)'
  <2>1. PICK r \in snap[c] : /\ processing' = Lrem(processing, r)
                             /\ target' = [target EXCEPT ![c] = r]
                             /\ snap' = [snap EXCEPT ![c] = @ \ {r}]
    BY <1>4 DEF RecoverRemove
  <2>2. r \in Payload /\ r.id # t
    BY <1>t, <1>u DEF TypeOK, Undisturbed
  <2>3. Processing(t)' => Processing(t)
    BY <1>t, <2>1, <2>2, LremType DEF TypeOK, Processing
  <2>4. QED
    BY <1>4, <1>t, <1>u, <2>1, <2>2, <2>3 DEF RecoverRemove, TypeOK, Undisturbed, Leased
<1>5. ASSUME NEW c \in Consumer, RecoverDrop(c) PROVE Undisturbed(t)'
  BY <1>5, <1>t, <1>u DEF RecoverDrop, TypeOK, Undisturbed, Processing, Leased
<1>6. ASSUME NEW c \in Consumer, RecoverPush(c) \/ RecoverEnd(c) \/ PopTimeout(c)
      PROVE  Undisturbed(t)'
  <2>1. /\ \A d \in Consumer \ {c} : /\ pc'[d] = pc[d] /\ task'[d] = task[d]
                                     /\ target'[d] = target[d] /\ snap'[d] = snap[d]
        /\ pc[c] \in {"repush", "scan", "pop"} /\ pc'[c] \in {"scan", "pop", "recover"}
        /\ snap'[c] \subseteq snap[c]
        /\ leases' = leases /\ processing' = processing
    BY <1>6, <1>t DEF RecoverPush, RecoverEnd, PopTimeout, Lpush, TypeOK
  <2>2. QED
    BY <1>u, <2>1 DEF Undisturbed, Processing, Leased
<1>7. ASSUME NEW c \in Consumer, Pop(c) PROVE Undisturbed(t)'
  <2>1. PICK r \in Payload : r = Head(pending)
    BY <1>7, <1>t DEF Pop, TypeOK
  <2>2. /\ processing' = Add(processing, r) /\ task' = [task EXCEPT ![c] = r]
        /\ pc[c] = "pop" /\ pc' = [pc EXCEPT ![c] = "lease"]
        /\ UNCHANGED <<leases, target, snap>>
    BY <1>7, <2>1 DEF Pop
  <2>3. Processing(t)' => Processing(t) \/ r.id = t
    BY <1>t, <2>1, <2>2, AddType DEF TypeOK, Processing
  <2>4. /\ pc'[c] = "lease" /\ task'[c] = r
        /\ \A d \in Consumer \ {c} : pc'[d] = pc[d] /\ task'[d] = task[d]
    BY <1>t, <2>2 DEF TypeOK
  <2>5. Processing(t)' =>
          \E d \in Consumer : pc'[d] \in {"lease", "work", "settle", "remove"} /\ task'[d].id = t
    BY <1>u, <2>2, <2>3, <2>4 DEF Undisturbed
  <2>6. \A d \in Consumer : Leased(d) \/ Leased(d)' => d # c /\ Leased(d) /\ Leased(d)'
    BY <2>2, <2>4 DEF Leased
  <2>7. QED
    BY <1>u, <2>2, <2>4, <2>5, <2>6 DEF Undisturbed
<1>8. ASSUME NEW c \in Consumer, PutLease(c) PROVE Undisturbed(t)'
  <2>1. task[c] \in Payload /\ task[c].id \in Task
    BY <1>8, <1>t, PayloadFields DEF PutLease, LocalsOK
  <2>2. [raw |-> task[c], owner |-> c, expired |-> FALSE] # NoLease
    <3>1. [raw |-> task[c], owner |-> c, expired |-> FALSE] \in Lease
      BY <2>1 DEF Lease
    <3>2. QED
      BY <3>1, QueueAssumption
  <2>3. QED
    BY <1>8, <1>t, <1>u, <2>1, <2>2 DEF PutLease, TypeOK, Undisturbed, Processing, Leased
<1>9. ASSUME NEW c \in Consumer, Finish(c) PROVE Undisturbed(t)'
  BY <1>9, <1>t, <1>u DEF Finish, TypeOK, Undisturbed, Processing, Leased
<1>10. ASSUME NEW c \in Consumer, ReadLease(c) PROVE Undisturbed(t)'
  <2>1. CASE leases[task[c].id] = NoLease
    <3>1. task[c].id # t
      BY <1>10, <1>u, <2>1 DEF ReadLease, Undisturbed, Leased
    <3>2. /\ pc' = [pc EXCEPT ![c] = "recover"] /\ task' = [task EXCEPT ![c] = NoTask]
          /\ snap' = [snap EXCEPT ![c] = {}] /\ target' = [target EXCEPT ![c] = NoTask]
          /\ UNCHANGED redis
      BY <1>10, <2>1 DEF ReadLease
    <3>3. /\ \A d \in Consumer \ {c} : /\ pc'[d] = pc[d] /\ task'[d] = task[d]
                                       /\ target'[d] = target[d] /\ snap'[d] = snap[d]
          /\ pc'[c] = "recover" /\ snap'[c] = {}
          /\ leases' = leases /\ processing' = processing
      BY <1>t, <3>2 DEF TypeOK
    <3>4. QED
      BY <1>u, <3>1, <3>3 DEF Undisturbed, Processing, Leased
  <2>2. CASE leases[task[c].id] # NoLease
    <3>1. /\ pc[c] = "settle" /\ pc' = [pc EXCEPT ![c] = "remove"]
          /\ target' = [target EXCEPT ![c] = leases[task[c].id].raw]
          /\ UNCHANGED <<task, snap, redis>>
      BY <1>10, <2>2 DEF ReadLease
    <3>2. /\ \A d \in Consumer \ {c} : pc'[d] = pc[d] /\ target'[d] = target[d]
          /\ pc'[c] = "remove" /\ task' = task /\ snap' = snap
          /\ leases' = leases /\ processing' = processing
      BY <1>t, <3>1 DEF TypeOK
    <3>3. QED
      BY <1>u, <3>1, <3>2 DEF Undisturbed, Processing, Leased
  <2>3. QED
    BY <2>1, <2>2
<1>11. ASSUME NEW c \in Consumer, RemoveInflight(c) PROVE Undisturbed(t)'
  <2>1. Processing(t)' => Processing(t) /\ task[c].id # t
    <3>1. target[c] \in Payload
      BY <1>11, <1>t DEF RemoveInflight, LocalsOK
    <3>2. Processing(t)' => Processing(t)
      BY <1>11, <1>t, <3>1, LremType DEF RemoveInflight, TypeOK, Processing
    <3>3. task[c].id = t => Serving(c, t)' /\ pc'[c] = "unlease"
      BY <1>11, <1>t DEF RemoveInflight, Serving, TypeOK
    <3>4. QED
      BY <1>u, <3>2, <3>3 DEF OnePlace, Processing
  <2>2. QED
    BY <1>11, <1>t, <1>u, <2>1 DEF RemoveInflight, TypeOK, Undisturbed, Leased
<1>12. ASSUME NEW c \in Consumer, DropLease(c) PROVE Undisturbed(t)'
  <2>1. pc[c] = "unlease" /\ task[c].id \in Task
    BY <1>12, <1>t, PayloadFields DEF DropLease, LocalsOK
  <2>2. CASE task[c].id = t
    <3>1. Serving(c, t) /\ ~Processing(t)
      BY <1>u, <2>1, <2>2 DEF Serving, OnePlace, Processing
    <3>2. \A d \in Consumer : Leased(d) /\ task[d].id = t => d = c
      BY <1>u, <3>1 DEF OnePlace, Busy, Serving, Leased
    <3>3. QED
      BY <1>12, <1>t, <1>u, <2>1, <2>2, <3>1, <3>2
      DEF DropLease, TypeOK, Undisturbed, Processing, Leased
  <2>3. CASE task[c].id # t
    <3>1. leases'[t] = leases[t] /\ processing' = processing
      BY <1>12, <1>t, <2>3 DEF DropLease, TypeOK
    <3>2. /\ \A d \in Consumer \ {c} : /\ pc'[d] = pc[d] /\ task'[d] = task[d]
                                       /\ target'[d] = target[d] /\ snap'[d] = snap[d]
          /\ pc'[c] \in {"recover", "push"} /\ snap'[c] \subseteq snap[c]
      BY <1>12, <1>t DEF DropLease, TypeOK
    <3>3. QED
      BY <1>u, <2>1, <2>3, <3>1, <3>2 DEF Undisturbed, Processing, Leased
  <2>4. QED
    BY <2>2, <2>3
<1>13. ASSUME NEW c \in Consumer, Push(c) PROVE Undisturbed(t)'
  BY <1>13, <1>t, <1>u DEF Push, Lpush, TypeOK, Undisturbed, Processing, Leased
<1>14. ASSUME NEW c \in Consumer, Restart(c) PROVE Undisturbed(t)'
  BY <1>14, <1>t, <1>u DEF Restart, TypeOK, Undisturbed, Processing, Leased
<1>15. CASE UNCHANGED vars
  BY <1>15, <1>u DEF Undisturbed, Processing, Leased
<1>16. QED
  BY <1>f, <1>1, <1>2, <1>3, <1>4, <1>5, <1>6, <1>7, <1>8, <1>9, <1>10, <1>11, <1>12, <1>13, <1>14,
     <1>15
  DEF Next, Work, Reserve, Settle, Recover, Crash, ReserveFails, AckFails, Reset

\* Only a fault, or a worker that outlives its lease, can leave a payload in :processing where no
\* recovery finds it (task_queue.py:113-134, 228).
THEOREM ReservedUnlessFault == Spec => []StrandedOnlyByFault
<1>1. TypeInv /\ CopiesInv => PlaceInv
  BY DEF CopiesInv
<1>2. UndisturbedInv => StrandedOnlyByFault
  BY UndisturbedLeased
<1>3. QED
  BY InitTypeInv, NextTypeInv, InitKnown, NextKnown, InitCopies, NextCopies, InitUndisturbed,
     NextUndisturbed, <1>1, <1>2, PTL DEF Spec
-----------------------------------------------------------------------------
(* What a settled task stays *)

\* No list and no client has a payload of the task, but the client that is about to finish its ack.
AtRest(t) ==
  /\ t \in submitted
  /\ ~Queued(t) /\ ~Processing(t)
  /\ \A c \in Consumer : ~Returning(c, t) /\ (Serving(c, t) => pc[c] = "unlease" /\ op[c] = "ack")

SettledInv == \A t \in settled \ (overrun \union reopened) : AtRest(t)

LEMMA NextSettled ==
  TypeInv /\ TypeInv' /\ KnownInv /\ PlaceInv /\ PlaceInv' /\ SettledInv /\ [Next]_vars
    => SettledInv'
<1> SUFFICES ASSUME TypeInv, TypeInv', KnownInv, PlaceInv, PlaceInv', SettledInv, [Next]_vars,
                    NEW t \in settled', t \notin overrun', t \notin reopened'
             PROVE  AtRest(t)'
  BY DEF SettledInv
<1> USE DEF Goto, Leave, Return, redis, locals, queueVars, ghosts, vars
<1>t. TypeOK /\ LocalsOK
  BY DEF TypeInv
<1>o. t \in Task /\ t \notin overrun /\ (t \in settled => AtRest(t))
  BY OverrunGrows DEF SettledInv, TypeInv, TypeOK, Next, Submit, LeaseExpires, Work, Reserve,
     Settle, Crash, Restart, ReserveFails, AckFails, Reset
<1>p. OnePlace(t)'
  BY <1>o DEF PlaceInv
\* A step that gives the task no copy, and takes no client to work on it.
<1>c. ASSUME submitted \subseteq submitted', t \in settled,
             Queued(t)' => Queued(t), Processing(t)' => Processing(t),
             \A c \in Consumer :
               /\ Returning(c, t)' => Returning(c, t)
               /\ Serving(c, t)' => Serving(c, t) /\ pc'[c] = pc[c] /\ op'[c] = op[c]
      PROVE  AtRest(t)'
  BY <1>c, <1>o DEF AtRest
<1>1. ASSUME NEW u \in Task, Submit(u) PROVE AtRest(t)'
  <2>1. [id |-> u, att |-> 0, via |-> "enqueue"] \in Payload
    BY QueueAssumption DEF Payload
  <2>2. t \in settled /\ u # t
    BY <1>1, <1>o DEF Submit, AtRest
  <2>3. Queued(t)' => Queued(t)
    BY <1>1, <1>t, <1>o, <2>1, <2>2, QueuedAppend DEF Submit, Enqueue, Lpush, TypeOK
  <2>4. QED
    BY <1>1, <1>c, <2>2, <2>3 DEF Submit, Enqueue, Processing, Returning, Serving
<1>2. ASSUME NEW u \in Task, LeaseExpires(u) PROVE AtRest(t)'
  BY <1>2, <1>c DEF LeaseExpires, Expire, Queued, Processing, Returning, Serving
<1>3. ASSUME NEW c \in Consumer, Work(c) PROVE AtRest(t)'
  <2>1. CASE (ReadLeases(c) \/ RecoverEnd(c) \/ PopTimeout(c)) /\ UNCHANGED <<ghosts, faults>>
    <3>1. /\ pc[c] \in {"recover", "scan", "pop"} /\ pc'[c] \in {"scan", "pop", "recover"}
          /\ \A d \in Consumer \ {c} : /\ pc'[d] = pc[d] /\ task'[d] = task[d]
                                       /\ target'[d] = target[d] /\ op'[d] = op[d]
          /\ UNCHANGED <<pending, processing, submitted, settled>>
      BY <2>1, <1>t DEF ReadLeases, RecoverEnd, PopTimeout, TypeOK
    <3>2. QED
      BY <1>c, <3>1 DEF Queued, Processing, Returning, Serving
  <2>2. CASE RecoverRemove(c) /\ UNCHANGED <<ghosts, faults>>
    <3>1. PICK r \in snap[c] : /\ processing' = Lrem(processing, r)
                               /\ target' = [target EXCEPT ![c] = r]
                               /\ pc' = [pc EXCEPT ![c] = IF processing[r] > 0
                                            THEN "hdel_removed" ELSE "hdel_missing"]
      BY <2>2 DEF RecoverRemove
    <3>2. r \in Payload /\ t \in settled /\ pc[c] = "scan" /\ UNCHANGED <<pending, task, op, submitted>>
      BY <1>t, <2>2 DEF TypeOK, RecoverRemove
    <3>3. (Processing(t)' => Processing(t)) /\ (processing[r] > 0 => Processing(r.id))
      BY <1>t, <1>o, <3>1, <3>2, ProcessingLrem DEF TypeOK
    <3>4. ~Returning(c, t)' /\ ~Serving(c, t)'
      BY <1>t, <1>o, <3>1, <3>2, <3>3 DEF TypeOK, AtRest, Returning, Serving
    <3>5. \A d \in Consumer \ {c} : pc'[d] = pc[d] /\ target'[d] = target[d]
      BY <1>t, <3>1 DEF TypeOK
    <3>6. QED
      BY <1>c, <3>2, <3>3, <3>4, <3>5 DEF Queued, Returning, Serving
  <2>3. CASE RecoverDrop(c) /\ UNCHANGED <<ghosts, faults>>
    <3>1. /\ pc[c] \in {"hdel_removed", "hdel_missing"}
          /\ pc' = [pc EXCEPT ![c] = IF pc[c] = "hdel_removed" THEN "repush" ELSE "scan"]
          /\ UNCHANGED <<pending, processing, task, target, op, submitted, settled>>
      BY <2>3 DEF RecoverDrop
    <3>2. /\ pc'[c] = "repush" => pc[c] = "hdel_removed"
          /\ pc'[c] \in {"repush", "scan"}
          /\ \A d \in Consumer \ {c} : pc'[d] = pc[d]
      BY <1>t, <3>1 DEF TypeOK
    <3>3. QED
      BY <1>c, <3>1, <3>2 DEF Queued, Processing, Returning, Serving
  <2>4. CASE RecoverPush(c) /\ UNCHANGED <<ghosts, faults>>
    <3>1. /\ Recovered(target[c]) \in Payload /\ Recovered(target[c]).id = target[c].id
          /\ pc[c] = "repush" /\ pending' = Append(pending, Recovered(target[c]))
          /\ pc' = [pc EXCEPT ![c] = "scan"]
          /\ UNCHANGED <<processing, task, target, op, submitted, settled>>
      BY <1>t, <2>4, WriteBackType DEF RecoverPush, Lpush, LocalsOK
    <3>2. target[c].id # t
      BY <1>o, <3>1 DEF AtRest, Returning
    <3>3. Queued(t)' => Queued(t)
      BY <1>t, <1>o, <3>1, <3>2, QueuedAppend DEF TypeOK
    <3>4. pc'[c] = "scan" /\ \A d \in Consumer \ {c} : pc'[d] = pc[d]
      BY <1>t, <3>1 DEF TypeOK
    <3>5. QED
      BY <1>c, <3>1, <3>3, <3>4 DEF Processing, Returning, Serving
  <2>5. CASE Pop(c) /\ UNCHANGED <<ghosts, faults>>
    <3>1. PICK r \in Payload : r = Head(pending)
      BY <2>5, <1>t DEF Pop, TypeOK
    <3>2. /\ pending # <<>> /\ pending' = Tail(pending) /\ processing' = Add(processing, r)
          /\ task' = [task EXCEPT ![c] = r] /\ pc' = [pc EXCEPT ![c] = "lease"]
          /\ UNCHANGED <<target, op, submitted, settled>>
      BY <2>5, <3>1 DEF Pop
    <3>3. (Queued(t)' => Queued(t)) /\ Queued(r.id)
      BY <1>t, <1>o, <3>1, <3>2, QueuedTail DEF TypeOK
    <3>4. r.id # t
      BY <1>o, <3>2, <3>3 DEF AtRest
    <3>5. Processing(t)' => Processing(t)
      BY <1>t, <1>o, <3>2, <3>4, ProcessingAdd DEF TypeOK
    <3>6. /\ pc'[c] = "lease" /\ task'[c] = r
          /\ \A d \in Consumer \ {c} : pc'[d] = pc[d] /\ task'[d] = task[d]
      BY <1>t, <3>2 DEF TypeOK
    <3>7. QED
      BY <1>c, <3>2, <3>3, <3>4, <3>5, <3>6 DEF Returning, Serving
  <2>6. CASE Reserve(c) \/ ((Finish(c) \/ ReadLease(c)) /\ UNCHANGED <<ghosts, faults>>)
    <3>1. /\ pc[c] \in {"lease", "work", "settle"} /\ pc'[c] \in {"work", "settle", "recover", "remove"}
          /\ pc'[c] # "recover" => task'[c] = task[c]
          /\ \A d \in Consumer \ {c} : /\ pc'[d] = pc[d] /\ task'[d] = task[d]
                                       /\ target'[d] = target[d] /\ op'[d] = op[d]
          /\ UNCHANGED <<pending, processing, submitted, settled>>
      BY <2>6, <1>t DEF Reserve, PutLease, Finish, ReadLease, TypeOK
    <3>2. t \in settled /\ task[c].id # t
      BY <1>o, <3>1 DEF AtRest, Serving
    <3>3. QED
      BY <1>c, <3>1, <3>2 DEF Queued, Processing, Returning, Serving
  <2>7. CASE RemoveInflight(c) /\ UNCHANGED <<submitted, lost, delivered, overrun, reopened, faults>>
             /\ \/ op[c] = "ack" /\ settled' = settled \union {task[c].id}
                \/ op[c] # "ack" /\ UNCHANGED settled
    <3>1. /\ pc[c] = "remove" /\ processing' = Lrem(processing, target[c])
          /\ target[c] \in Payload /\ pc' = [pc EXCEPT ![c] = "unlease"]
          /\ UNCHANGED <<pending, task, target, op>>
      BY <2>7, <1>t DEF RemoveInflight, LocalsOK
    <3>2. pc'[c] = "unlease" /\ \A d \in Consumer \ {c} : pc'[d] = pc[d]
      BY <1>t, <3>1 DEF TypeOK
    <3>3. CASE task[c].id # t
      <4>1. t \in settled
        BY <2>7, <3>3
      <4>2. Processing(t)' => Processing(t)
        BY <1>t, <1>o, <3>1, ProcessingLrem DEF TypeOK
      <4>3. QED
        BY <1>c, <2>7, <3>1, <3>2, <3>3, <4>1, <4>2 DEF Queued, Returning, Serving
    \* The client's own ack: the task was at this place only, and is at no place now.
    <3>4. CASE task[c].id = t
      <4>1. Serving(c, t) /\ op[c] = "ack"
        BY <1>o, <2>7, <3>1, <3>4 DEF Serving, AtRest
      <4>2. t \in submitted'
        BY <2>7, <3>1, <3>4 DEF KnownInv
      <4>3. Serving(c, t)' /\ Busy(c, t)'
        BY <3>1, <3>2, <3>4 DEF Serving, Busy
      <4>4. ~Queued(t)' /\ \A d \in Consumer \ {c} : ~Returning(d, t)' /\ ~Serving(d, t)'
        BY <1>p, <4>3 DEF OnePlace, Busy
      <4>5. ~Processing(t)' /\ ~Returning(c, t)'
        BY <1>p, <3>2, <4>3 DEF OnePlace, Processing, Returning
      <4>6. QED
        BY <3>1, <3>2, <4>1, <4>2, <4>4, <4>5 DEF AtRest
    <3>5. QED
      BY <3>3, <3>4
  <2>8. CASE DropLease(c) /\ UNCHANGED <<ghosts, faults>>
    <3>1. /\ pc[c] = "unlease" /\ pc'[c] \in {"recover", "push"}
          /\ pc'[c] = "push" => op[c] # "ack" /\ task'[c] = task[c]
          /\ \A d \in Consumer \ {c} : /\ pc'[d] = pc[d] /\ task'[d] = task[d]
                                       /\ target'[d] = target[d] /\ op'[d] = op[d]
          /\ UNCHANGED <<pending, processing, submitted, settled>>
      BY <2>8, <1>t DEF DropLease, TypeOK
    <3>2. ~Serving(c, t)'
      BY <1>o, <3>1 DEF AtRest, Serving
    <3>3. QED
      BY <1>c, <3>1, <3>2 DEF Queued, Processing, Returning, Serving
  <2>9. CASE Push(c) /\ UNCHANGED <<submitted, lost, delivered, overrun, reopened, faults>>
             /\ \/ op[c] = "dead_letter" /\ settled' = settled \union {task[c].id}
                \/ op[c] # "dead_letter" /\ UNCHANGED settled
    <3>1. /\ pc[c] = "push" /\ task[c] \in Payload
          /\ pc'[c] = "recover"
          /\ \A d \in Consumer \ {c} : /\ pc'[d] = pc[d] /\ task'[d] = task[d]
                                       /\ target'[d] = target[d] /\ op'[d] = op[d]
          /\ UNCHANGED processing
      BY <2>9, <1>t DEF Push, LocalsOK, TypeOK
    <3>2. CASE task[c].id # t
      <4>1. t \in settled
        BY <2>9, <3>2
      <4>2. Queued(t)' => Queued(t)
        <5>1. CASE op[c] = "requeue" /\ Lpush(Retried(task[c]))
          <6>1. Retried(task[c]) \in Payload /\ Retried(task[c]).id = task[c].id
            BY <1>t, <3>1, <5>1, WriteBackType, WorkerAssumption, QueueAssumption, PayloadFields
            DEF LocalsOK
          <6>2. QED
            BY <1>t, <1>o, <3>2, <5>1, <6>1, QueuedAppend DEF Lpush, TypeOK
        <5>2. CASE UNCHANGED pending
          BY <5>2 DEF Queued
        <5>3. QED
          BY <2>9, <5>1, <5>2 DEF Push
      <4>3. QED
        BY <1>c, <2>9, <3>1, <4>1, <4>2 DEF Processing, Returning, Serving
    \* The client's own dead_letter: the payload was in its hand only.
    <3>3. CASE task[c].id = t
      <4>1. Serving(c, t) /\ Busy(c, t) /\ t \in submitted
        BY <3>1, <3>3 DEF Serving, Busy, KnownInv
      <4>2. op[c] = "dead_letter" /\ UNCHANGED pending
        <5>1. op[c] = "dead_letter"
          BY <1>o, <2>9, <3>1, <4>1 DEF AtRest
        <5>2. QED
          BY <2>9, <5>1 DEF Push
      <4>3. OnePlace(t)
        BY <1>o DEF PlaceInv
      <4>4. /\ ~Queued(t) /\ ~Processing(t)
            /\ \A d \in Consumer \ {c} : ~Returning(d, t) /\ ~Serving(d, t)
        BY <3>1, <4>1, <4>3 DEF OnePlace, Busy, Processing
      <4>5. /\ ~Queued(t)' /\ ~Processing(t)'
            /\ \A d \in Consumer : ~Returning(d, t)' /\ ~Serving(d, t)'
        BY <3>1, <4>2, <4>4 DEF Queued, Processing, Returning, Serving
      <4>6. QED
        BY <2>9, <4>1, <4>5 DEF AtRest
    <3>4. QED
      BY <3>2, <3>3
  <2>10. QED
    BY <1>3, <2>1, <2>2, <2>3, <2>4, <2>5, <2>6, <2>7, <2>8, <2>9 DEF Work, Recover, Settle
<1>4. ASSUME NEW c \in Consumer, Crash(c) \/ ReserveFails(c) \/ Restart(c) PROVE AtRest(t)'
  <2>1. /\ pc'[c] \in {"down", "recover"}
        /\ \A d \in Consumer \ {c} : /\ pc'[d] = pc[d] /\ task'[d] = task[d]
                                     /\ target'[d] = target[d] /\ op'[d] = op[d]
        /\ UNCHANGED <<pending, processing, submitted, settled>>
    BY <1>4, <1>t DEF Crash, ReserveFails, Restart, TypeOK
  <2>2. QED
    BY <1>c, <2>1 DEF Queued, Processing, Returning, Serving
<1>5. ASSUME NEW c \in Consumer, AckFails(c) PROVE AtRest(t)'
  <2>1. /\ pc[c] \in {"settle", "remove", "unlease"} /\ pc'[c] = "settle"
        /\ \A d \in Consumer \ {c} : /\ pc'[d] = pc[d] /\ op'[d] = op[d] /\ target'[d] = target[d]
        /\ UNCHANGED <<pending, processing, task, submitted, settled>>
    BY <1>5, <1>t DEF AckFails, TypeOK
  <2>2. task[c].id # t
    BY <1>5, <1>o, <2>1 DEF AckFails, AtRest, Serving
  <2>3. QED
    BY <1>c, <2>1, <2>2 DEF Queued, Processing, Returning, Serving
<1>6. ASSUME Reset PROVE AtRest(t)'
  <2>1. /\ pending' = <<>> /\ \A r \in Payload : processing'[r] = 0
        /\ UNCHANGED <<pc, task, target, op, submitted, settled>>
    BY <1>6 DEF Reset, Purge
  <2>2. ~Queued(t)' /\ ~Processing(t)'
    BY <2>1 DEF Queued, Processing
  <2>3. QED
    BY <1>c, <2>1, <2>2 DEF Returning, Serving
<1>7. CASE UNCHANGED vars
  BY <1>7, <1>c DEF Queued, Processing, Returning, Serving
<1>8. QED
  BY <1>1, <1>2, <1>3, <1>4, <1>5, <1>6, <1>7 DEF Next

\* A task that was acked or dead-lettered is not run again, whatever crashes and recoveries follow:
\* the LREM count keeps a stale lease from bringing it back (task_queue.py:227-229).  The
\* exceptions are a consumer that outlives its lease and an ack() that fails after its LREM
\* (recovery_worker.py:76).
THEOREM SettledOnce == Spec => []SettledIsFinal
<1>1. Init => SettledInv
  BY DEF Init, SettledInv
<1>2. CopiesInv => PlaceInv
  BY DEF CopiesInv
<1>3. SettledInv => SettledIsFinal
  BY DEF SettledInv, AtRest, SettledIsFinal, Live, InHand, Returning, Serving
<1>4. TypeInv /\ KnownInv /\ CopiesInv /\ SettledInv /\ [Next]_vars => SettledInv'
  BY NextTypeInv, NextCopies, NextSettled, <1>2 DEF CopiesInv
<1>5. QED
  BY InitTypeInv, NextTypeInv, InitKnown, NextKnown, InitCopies, NextCopies, <1>1, <1>3, <1>4,
     PTL DEF Spec
=============================================================================

------------------------------ MODULE TaskQueue ------------------------------
(***************************************************************************)
(* The leased Redis queue of core/task_queue.py.  A queue is four Redis    *)
(* keys: a LIST of pending payloads, a LIST of payloads being processed, a *)
(* HASH task id -> lease and a LIST of dead letters.  Redis runs one       *)
(* command at a time, so an action below is ONE command of one client: the *)
(* awaits between the commands of a method are the points where other      *)
(* clients, lease deadlines and crashes get in.                            *)
(*                                                                         *)
(* A payload is its task id, its "_attempts" counter and the call that     *)
(* wrote its JSON text ("via"): LREM compares whole texts, and a requeued  *)
(* text differs from a recovered one even when the counters agree.  Not    *)
(* modelled: payloads that are no JSON (nothing in the code writes one).   *)
(***************************************************************************)
EXTENDS Naturals, Sequences

CONSTANTS
  Task,        \* task ids; each is enqueued once
  Consumer,    \* clients of the queue
  NoLease,     \* no field for this task in the lease hash
  NoTask,      \* a local of a client that holds no payload
  MaxAtt       \* bound: a lease on a payload with this counter never expires

Payload == [id: Task, att: 0..MaxAtt, via: {"enqueue", "expiry", "requeue"}]
Lease   == [raw: Payload, owner: Consumer, expired: BOOLEAN]

ASSUME QueueAssumption ==
  /\ MaxAtt \in Nat
  /\ NoLease \notin Lease
  /\ NoTask \notin Payload

VARIABLES
  pending,     \* queue:<name>, head first: the next payload BRPOPLPUSH takes
  processing,  \* queue:<name>:processing, the number of copies of each payload
  leases,      \* queue:<name>:leases
  dlq,         \* queue:<name>:dlq, each as its consumer got it (an error adds one attempt)
  pc,          \* the command each client sends next
  task,        \* the payload reserve() returned to the client
  target,      \* the payload the client removes: "raw" of the lease it has read
  snap,        \* the expired leases' payloads recover_expired_leases() still has to visit
  op           \* the method a client has called to settle its task

redis  == <<pending, processing, leases, dlq>>
locals == <<task, target, snap, op>>
queueVars == <<pending, processing, leases, dlq, pc, task, target, snap, op>>

Goto(c, l) == pc' = [pc EXCEPT ![c] = l]
\* A client's locals go out of scope, and it continues at l.
Leave(c, l) ==
  /\ Goto(c, l)
  /\ task' = [task EXCEPT ![c] = NoTask]
  /\ target' = [target EXCEPT ![c] = NoTask]
  /\ snap' = [snap EXCEPT ![c] = {}]
  /\ op' = [op EXCEPT ![c] = "none"]
Return(c) == Leave(c, "recover")

\* Mutant: takes the copy for granted.
LremUnchecked(bag, r) == [bag EXCEPT ![r] = @ - 1]
\* LREM key 1 raw: one copy goes, if there is one.
Lrem(bag, r) == [bag EXCEPT ![r] = IF @ > 0 THEN @ - 1 ELSE 0]
Add(bag, r)  == [bag EXCEPT ![r] = @ + 1]

\* The text recover_expired_leases() pushes back.
Recovered(r) == [id |-> r.id, att |-> r.att + 1, via |-> "expiry"]
\* Mutant: requeue() counts an attempt as well as its caller.
RetriedTwice(r) == [id |-> r.id, att |-> r.att + 2, via |-> "requeue"]
\* The text a consumer gives back after an error: its own payload, one attempt more.
Retried(r)   == [id |-> r.id, att |-> r.att + 1, via |-> "requeue"]

QueueInit ==
  /\ pending = <<>>
  /\ processing = [r \in Payload |-> 0]
  /\ leases = [t \in Task |-> NoLease]
  /\ dlq = {}
  /\ pc = [c \in Consumer |-> "recover"]
  /\ task = [c \in Consumer |-> NoTask]
  /\ target = [c \in Consumer |-> NoTask]
  /\ snap = [c \in Consumer |-> {}]
  /\ op = [c \in Consumer |-> "none"]

\* enqueue(): LPUSH.
Lpush(r) == pending' = Append(pending, r)
Enqueue(t) ==
  /\ Lpush([id |-> t, att |-> 0, via |-> "enqueue"])
  /\ UNCHANGED <<processing, leases, dlq, pc, locals>>

-----------------------------------------------------------------------------
(* recover_expired_leases(), which every reserve() runs first *)

\* Mutant: the deadline is not looked at.
ReadAllLeases(c) ==
  /\ pc[c] = "recover"
  /\ snap' = [snap EXCEPT ![c] = {leases[t].raw : t \in {u \in Task :
                 leases[u] # NoLease /\ leases[u].raw.att < MaxAtt}}]
  /\ Goto(c, "scan")
  /\ UNCHANGED <<redis, task, target, op>>

\* Mutant: reserve() no longer recovers.
ReadNoLeases(c) ==
  /\ pc[c] = "recover"
  /\ Goto(c, "scan")
  /\ UNCHANGED <<redis, locals>>

\* HGETALL; the deadlines are compared with the clock read just before it.
ReadLeases(c) ==
  /\ pc[c] = "recover"
  /\ snap' = [snap EXCEPT ![c] = {leases[t].raw :
                 t \in {u \in Task : leases[u] # NoLease /\ leases[u].expired}}]
  /\ Goto(c, "scan")
  /\ UNCHANGED <<redis, task, target, op>>

\* LREM of the next expired lease's payload; "removed" is in the client's next label.
RecoverRemove(c) ==
  /\ pc[c] = "scan"
  /\ \E r \in snap[c] :
       /\ processing' = Lrem(processing, r)
       /\ target' = [target EXCEPT ![c] = r]
       /\ snap' = [snap EXCEPT ![c] = @ \ {r}]
       /\ Goto(c, IF processing[r] > 0 THEN "hdel_removed" ELSE "hdel_missing")
  /\ UNCHANGED <<pending, leases, dlq, task, op>>

\* Mutant: pushes the payload back whether or not LREM removed it.
RecoverDropUnguarded(c) ==
  /\ pc[c] \in {"hdel_removed", "hdel_missing"}
  /\ leases' = [leases EXCEPT ![target[c].id] = NoLease]
  /\ Goto(c, "repush")
  /\ UNCHANGED <<pending, processing, dlq, locals>>

\* HDEL by task id, whoever holds the lease by now.
RecoverDrop(c) ==
  /\ pc[c] \in {"hdel_removed", "hdel_missing"}
  /\ leases' = [leases EXCEPT ![target[c].id] = NoLease]
  /\ Goto(c, IF pc[c] = "hdel_removed" THEN "repush" ELSE "scan")
  /\ UNCHANGED <<pending, processing, dlq, locals>>

RecoverPush(c) ==
  /\ pc[c] = "repush"
  /\ Lpush(Recovered(target[c]))
  /\ Goto(c, "scan")
  /\ UNCHANGED <<processing, leases, dlq, locals>>

RecoverEnd(c) ==
  /\ pc[c] = "scan"
  /\ snap[c] = {}
  /\ Leave(c, "pop")
  /\ UNCHANGED redis

-----------------------------------------------------------------------------
(* reserve(), after the recovery *)

\* Mutant: BRPOP, as dequeue() does.
PopOnly(c) ==
  /\ pc[c] = "pop"
  /\ pending # <<>>
  /\ task' = [task EXCEPT ![c] = Head(pending)]
  /\ pending' = Tail(pending)
  /\ Goto(c, "lease")
  /\ UNCHANGED <<processing, leases, dlq, target, snap, op>>

\* BRPOPLPUSH source inflight.
Pop(c) ==
  /\ pc[c] = "pop"
  /\ pending # <<>>
  /\ processing' = Add(processing, Head(pending))
  /\ task' = [task EXCEPT ![c] = Head(pending)]
  /\ pending' = Tail(pending)
  /\ Goto(c, "lease")
  /\ UNCHANGED <<leases, dlq, target, snap, op>>

\* The pop's timeout on an empty list: reserve() returns None and the loop starts over.
PopTimeout(c) ==
  /\ pc[c] = "pop"
  /\ pending = <<>>
  /\ Return(c)
  /\ UNCHANGED redis

\* HSET of the lease; reserve() returns the payload.
PutLease(c) ==
  /\ pc[c] = "lease"
  /\ leases' = [leases EXCEPT ![task[c].id] =
                  [raw |-> task[c], owner |-> c, expired |-> FALSE]]
  /\ Goto(c, "work")
  /\ UNCHANGED <<pending, processing, dlq, locals>>

-----------------------------------------------------------------------------
(* ack(), requeue() and dead_letter(): the same HGET, LREM and HDEL, then   *)
(* nothing, an LPUSH on the queue or an LPUSH on the dead letters.          *)

\* HGET by task id alone: nothing compares the lease's consumer_id with the caller.
ReadLease(c) ==
  /\ pc[c] = "settle"
  /\ LET l == leases[task[c].id] IN
       \/ /\ l = NoLease            \* returns False
          /\ Return(c)
       \/ /\ l # NoLease
          /\ target' = [target EXCEPT ![c] = l.raw]
          /\ Goto(c, "remove")
          /\ UNCHANGED <<task, snap, op>>
  /\ UNCHANGED redis

RemoveInflight(c) ==
  /\ pc[c] = "remove"
  /\ processing' = Lrem(processing, target[c])
  /\ Goto(c, "unlease")
  /\ UNCHANGED <<pending, leases, dlq, locals>>

DropLease(c) ==
  /\ pc[c] = "unlease"
  /\ leases' = [leases EXCEPT ![task[c].id] = NoLease]
  /\ \/ op[c] = "ack" /\ Return(c)
     \/ op[c] # "ack" /\ Goto(c, "push") /\ UNCHANGED locals
  /\ UNCHANGED <<pending, processing, dlq>>

Push(c) ==
  /\ pc[c] = "push"
  /\ \/ /\ op[c] = "requeue"
        /\ Lpush(Retried(task[c]))
        /\ UNCHANGED dlq
     \/ /\ op[c] = "dead_letter"
        /\ dlq' = dlq \union {task[c]}
        /\ UNCHANGED pending
  /\ Return(c)
  /\ UNCHANGED <<processing, leases>>

-----------------------------------------------------------------------------
\* A deadline passes.
Expire(t) ==
  /\ leases[t] # NoLease
  /\ ~leases[t].expired
  /\ leases[t].raw.att < MaxAtt
  /\ leases' = [leases EXCEPT ![t].expired = TRUE]
  /\ UNCHANGED <<pending, processing, dlq, pc, locals>>

\* purge_queue(): one DEL of the four keys.
Purge ==
  /\ pending' = <<>>
  /\ processing' = [r \in Payload |-> 0]
  /\ leases' = [t \in Task |-> NoLease]
  /\ dlq' = {}
  /\ UNCHANGED <<pc, locals>>
=============================================================================

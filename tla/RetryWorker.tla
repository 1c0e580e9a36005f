----------------------------- MODULE RetryWorker -----------------------------
(***************************************************************************)
(* The worker processes that consume a TaskQueue with the retry policy:    *)
(* recovery_worker.py and parser_service.py (Outcomes "ok" and "error"),   *)
(* packager_worker.py ("fatal" as well: an unusable task or a fatal error, *)
(* which no attempt is spent on) and core/assistant_jobs.py                *)
(* (MaxAttempts = 0: an error is dead-lettered at once).  Each loops over  *)
(* reserve(), the job, and ack(), requeue() or dead_letter().              *)
(*                                                                         *)
(* Faults: the connection to Redis fails between two commands; a process   *)
(* is killed at any command and restarted by its supervisor; an operator   *)
(* purges the queue (core/reset_service.py).                               *)
(***************************************************************************)
EXTENDS TaskQueue, FiniteSets

CONSTANTS
  Outcomes,      \* how a job may end, a subset of {"ok", "error", "fatal"}
  MaxAttempts,   \* RECOVERY_MAX_ATTEMPTS, PARSER_MAX_ATTEMPTS, PACKAGING_MAX_ATTEMPTS
  MaxFaults      \* bound: the number of faults

ASSUME WorkerAssumption ==
  /\ Outcomes \subseteq {"ok", "error", "fatal"}
  /\ MaxAttempts \in Nat /\ MaxAttempts <= MaxAtt
  /\ MaxFaults \in Nat

VARIABLES
  submitted,   \* the tasks enqueued so far
  settled,     \* the tasks whose payload an ack removed or a dead_letter pushed
  lost,        \* the tasks a fault took a payload of
  delivered,   \* how often reserve() has returned each task
  overrun,     \* the tasks a lease of which has expired while its owner was at work
  reopened,    \* the tasks an ack has removed the payload of and then failed
  faults

ghosts == <<submitted, settled, lost, delivered, overrun, reopened>>
vars == <<queueVars, ghosts, faults>>

Init ==
  /\ QueueInit
  /\ submitted = {} /\ settled = {} /\ lost = {} /\ overrun = {} /\ reopened = {}
  /\ delivered = [t \in Task |-> 0]
  /\ faults = 0

Submit(t) ==
  /\ t \notin submitted
  /\ Enqueue(t)
  /\ submitted' = submitted \union {t}
  /\ UNCHANGED <<settled, lost, delivered, overrun, reopened, faults>>

\* The call the worker settles a task with.
Policy(outcome, attempts) ==
  IF outcome = "ok" THEN "ack"
  ELSE IF outcome = "error" /\ attempts <= MaxAttempts THEN "requeue" ELSE "dead_letter"

\* The job ends.
Finish(c) ==
  /\ pc[c] = "work"
  /\ \E o \in Outcomes : op' = [op EXCEPT ![c] = Policy(o, task[c].att + 1)]
  /\ Goto(c, "settle")
  /\ UNCHANGED <<redis, task, target, snap>>

Recover(c) ==
  \/ ReadLeases(c) \/ RecoverRemove(c) \/ RecoverDrop(c) \/ RecoverPush(c) \/ RecoverEnd(c)

Reserve(c) ==
  /\ PutLease(c)
  /\ delivered' = [delivered EXCEPT ![task[c].id] = @ + 1]
  /\ UNCHANGED <<submitted, settled, lost, overrun, reopened, faults>>

\* The two commands after which a task counts as settled.
Settle(c) ==
  /\ \/ op[c] = "ack" /\ RemoveInflight(c)
     \/ op[c] = "dead_letter" /\ Push(c)
  /\ settled' = settled \union {task[c].id}
  /\ UNCHANGED <<submitted, lost, delivered, overrun, reopened, faults>>

Work(c) ==
  \/ Reserve(c)
  \/ Settle(c)
  \/ /\ \/ Recover(c) \/ Pop(c) \/ PopTimeout(c) \/ Finish(c) \/ ReadLease(c) \/ DropLease(c)
        \/ op[c] # "ack" /\ RemoveInflight(c)
        \/ op[c] # "dead_letter" /\ Push(c)
     /\ UNCHANGED <<ghosts, faults>>

-----------------------------------------------------------------------------
Queued(t)     == \E i \in 1..Len(pending) : pending[i].id = t
Processing(t) == \E r \in Payload : r.id = t /\ processing[r] > 0
\* The task a payload of which only client c's locals hold: removed, not pushed yet.
InHand(c) ==
  IF pc[c] \in {"hdel_removed", "repush"} THEN {target[c].id}
  ELSE IF pc[c] \in {"unlease", "push"} /\ op[c] # "ack" THEN {task[c].id}
  ELSE {}

Fault == faults < MaxFaults /\ faults' = faults + 1

\* The worker process dies.
Crash(c) ==
  /\ pc[c] # "down"
  /\ Fault
  /\ Leave(c, "down")
  /\ lost' = lost \union InHand(c)
  /\ UNCHANGED <<redis, submitted, settled, delivered, overrun, reopened>>

\* Its supervisor starts it again.
Restart(c) ==
  /\ pc[c] = "down"
  /\ Goto(c, "recover")
  /\ UNCHANGED <<redis, locals, ghosts, faults>>

\* A command raises in reserve(): logged, and the loop starts over.
ReserveFails(c) ==
  /\ pc[c] \in {"scan", "hdel_removed", "hdel_missing", "repush", "pop", "lease"}
  /\ Fault
  /\ Return(c)
  /\ lost' = lost \union InHand(c)
  /\ UNCHANGED <<redis, submitted, settled, delivered, overrun, reopened>>

\* A command raises in ack(): the handler's except clause takes it for an error of the job.
\* (Raised in the except clause itself, in requeue() or dead_letter(), it ends the
\* process: that is Crash.)
AckFails(c) ==
  /\ pc[c] \in {"settle", "remove", "unlease"}
  /\ op[c] = "ack"
  /\ Fault
  /\ op' = [op EXCEPT ![c] = Policy("error", task[c].att + 1)]
  /\ target' = [target EXCEPT ![c] = NoTask]
  /\ Goto(c, "settle")
  /\ reopened' = IF pc[c] = "unlease" THEN reopened \union {task[c].id} ELSE reopened
  /\ UNCHANGED <<redis, task, snap, submitted, settled, lost, delivered, overrun>>

Reset ==
  /\ Fault
  /\ Purge
  /\ lost' = lost \union {t \in Task : Queued(t) \/ Processing(t)}
  /\ UNCHANGED <<submitted, settled, delivered, overrun, reopened>>

\* Client c is between reserve() and the HDEL of the lease it took then.
AtWork(c, t) ==
  /\ pc[c] \in {"work", "settle", "remove", "unlease"}
  /\ leases[t].owner = c /\ leases[t].raw = task[c]

\* A lease runs out, and whether its owner was still at work.
LeaseExpires(t) ==
  /\ Expire(t)
  /\ overrun' = IF AtWork(leases[t].owner, t) THEN overrun \union {t} ELSE overrun
  /\ UNCHANGED <<submitted, settled, lost, delivered, reopened, faults>>

Next ==
  \/ \E t \in Task : Submit(t) \/ LeaseExpires(t)
  \/ \E c \in Consumer : Work(c) \/ Crash(c) \/ Restart(c) \/ ReserveFails(c) \/ AckFails(c)
  \/ Reset

Spec == Init /\ [][Next]_vars

\* The event loop keeps running every live worker, the supervisor restarts a dead one,
\* and time passes.
Fairness ==
  /\ \A c \in Consumer : WF_vars(Work(c)) /\ WF_vars(Restart(c))
  /\ \A t \in Task : WF_vars(LeaseExpires(t))

FairSpec == Spec /\ Fairness
-----------------------------------------------------------------------------
(* Properties *)

Labels == {"recover", "scan", "hdel_removed", "hdel_missing", "repush", "pop", "lease",
           "work", "settle", "remove", "unlease", "push", "down"}

\* Every key and every local holds a value of its type, and a client that needs a local has it.
TypeOK ==
  /\ pending \in Seq(Payload)
  /\ processing \in [Payload -> Nat]
  /\ leases \in [Task -> Lease \union {NoLease}]
  /\ dlq \subseteq Payload
  /\ pc \in [Consumer -> Labels]
  /\ task \in [Consumer -> Payload \union {NoTask}]
  /\ target \in [Consumer -> Payload \union {NoTask}]
  /\ snap \in [Consumer -> SUBSET Payload]
  /\ op \in [Consumer -> {"none", "ack", "requeue", "dead_letter"}]
  /\ submitted \subseteq Task /\ settled \subseteq Task /\ lost \subseteq Task
  /\ overrun \subseteq Task /\ reopened \subseteq Task
  /\ delivered \in [Task -> Nat]
  /\ faults \in 0..MaxFaults

\* The tasks some copy of which is in the queue or in the hand of a client.
Live == {t \in Task : Queued(t) \/ Processing(t) \/ \E c \in Consumer : t \in InHand(c)}

\* The queue forgets no task (task_queue.py: a payload leaves a list only in an ack, or on its
\* way to another list).  However recoveries, late acks and requeues interleave, a task that
\* was neither settled nor hit by a fault still has a copy.
NothingVanishes == submitted \subseteq settled \union lost \union Live

\* A task that was acked or dead-lettered is not run again: whoever crashes between the LREM and
\* the HDEL of an ack, a recovery that meets the lease left behind finds no payload to push back
\* (task_queue.py:227-229).  The exceptions are a consumer that outlives its lease and an ack()
\* that fails after its LREM, which its caller takes for an error of the job (recovery_worker.py:76).
SettledIsFinal == \A t \in settled \ (overrun \union reopened) : t \notin Live

CopiesOf(t) ==
  Cardinality({i \in 1..Len(pending) : pending[i].id = t})
    + Cardinality(UNION {{<<r, k>> : k \in 1..processing[r]} : r \in {s \in Payload : s.id = t}})
    + Cardinality({c \in Consumer : t \in InHand(c)})

\* Concurrent recoveries of one expired lease and crashes never duplicate a task: the LREM
\* count decides who pushes (task_queue.py:227-229).  Only a consumer that outlives its own
\* lease can make a second copy.
OneCopyUnlessOverrun == \A t \in Task \ overrun : CopiesOf(t) <= 1

\* ack(), requeue() and dead_letter() look the lease up by task id and never compare its
\* consumer_id (task_queue.py:146, 166, 193).  As long as no lease of the task has expired
\* under its owner, what they remove is nevertheless the caller's own delivery.
SettlesOwnDelivery ==
  \A c \in Consumer :
    pc[c] \in {"remove", "unlease"} /\ task[c].id \notin overrun => target[c] = task[c]

\* "_attempts" is what a worker gives a task up on (recovery_worker.py:80, 95).  It counts
\* nothing twice: no payload anywhere carries more attempts than reserve() has returned its
\* task, so a task dead-lettered after an "error" was tried more than MaxAttempts times.
AttemptsAreDeliveries ==
  /\ \A i \in 1..Len(pending) : pending[i].att <= delivered[pending[i].id]
  /\ \A r \in Payload : processing[r] > 0 => r.att <= delivered[r.id]
  /\ \A r \in dlq : r.att < delivered[r.id]

\* A client between two commands that concern the task's place in :processing.
Moving(c, t) ==
  \/ pc[c] \in {"lease", "remove", "unlease"} /\ task[c].id = t
  \/ pc[c] \in {"hdel_removed", "hdel_missing", "repush"} /\ target[c].id = t

\* In :processing without a lease: out of the reach of recover_expired_leases() for good.
Stranded(t) ==
  /\ Processing(t)
  /\ leases[t] = NoLease
  /\ \A c \in Consumer : ~Moving(c, t)

\* Every enqueued task is settled in the end, unless a fault takes it, a lease of it expires
\* under its owner, or it is stranded: at-least-once delivery, with its exceptions named.
EventuallySettled ==
  \A t \in Task : t \in submitted ~> t \in settled \union lost \union overrun \/ Stranded(t)

\* reserve() is documented as "Atomically reserve a task with lease semantics"
\* (task_queue.py:107): a payload in :processing has a lease, or the client that is
\* about to write it, or to remove the payload, is alive.
ReservedIsLeased == \A t \in Task : ~Stranded(t)

\* As long as nothing fails and no worker outlives its lease, reserve() keeps that promise:
\* whatever recoveries run between its two commands (task_queue.py:113, 134), no HDEL of theirs
\* meets the lease of a later delivery (228).
StrandedOnlyByFault == faults = 0 => \A t \in Task \ overrun : ~Stranded(t)

\* The queue keeps the promise of AtLeastOnce: a submitted task stays live until it is
\* settled, and only a fault takes it away.
Promise == INSTANCE AtLeastOnce WITH live <- Live
PromiseKept == Promise!Spec
=============================================================================

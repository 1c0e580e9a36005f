----------------------------- MODULE AtLeastOnce -----------------------------
(***************************************************************************)
(* What a leased queue promises its producers, whatever it does with       *)
(* leases, lists and retries: at-least-once delivery.                      *)
(***************************************************************************)
CONSTANT Task
VARIABLES
  submitted,   \* the tasks handed to the queue
  live,        \* the tasks that will be, or are being, delivered
  settled,     \* the tasks acknowledged or given up as dead letters at least once
  lost         \* the tasks a fault has taken

vars == <<submitted, live, settled, lost>>

Init == submitted = {} /\ live = {} /\ settled = {} /\ lost = {}

Submit(t) ==
  /\ t \notin submitted
  /\ submitted' = submitted \union {t}
  /\ live' = live \union {t}
  /\ UNCHANGED <<settled, lost>>

\* Another copy of the task may still be live.
Settle(t) ==
  /\ t \in submitted
  /\ settled' = settled \union {t}
  /\ live' \in {live, live \ {t}}
  /\ UNCHANGED <<submitted, lost>>

\* A consumer that is late gives back a task others have settled meanwhile.
Redeliver(t) ==
  /\ t \in submitted
  /\ live' = live \union {t}
  /\ UNCHANGED <<submitted, settled, lost>>

\* A fault takes copies of some tasks.
Lose ==
  \E S \in SUBSET submitted :
    /\ lost' = lost \union S
    /\ live \ S \subseteq live' /\ live' \subseteq live
    /\ UNCHANGED <<submitted, settled>>

Next == Lose \/ \E t \in Task : Submit(t) \/ Settle(t) \/ Redeliver(t)

Spec == Init /\ [][Next]_vars
=============================================================================

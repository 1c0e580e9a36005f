----------------------------- MODULE WorkerClaims -----------------------------
(***************************************************************************)
(* Which worker process acts with which Telegram account: the claims of    *)
(* core/redis_state.py (a Redis key worker_claim:<phone> with a TTL) and   *)
(* the worker.py processes that take, renew and release them and keep a    *)
(* connected Telegram client for each (core/session_manager.py).           *)
(*                                                                         *)
(* An action is one Redis command or one await of one process.  In a       *)
(* process two coroutines run: start(), whose loops renew the claims, and  *)
(* stop(), which the SIGTERM handler creates.  asyncio.run() cancels every *)
(* other task when start() returns.                                        *)
(*                                                                         *)
(* Time passes in periods of the renewal loop's sleep, CLAIM_TTL // 2.     *)
(* Which accounts the database calls eligible is left open: a worker may   *)
(* find any of the unclaimed ones.                                         *)
(***************************************************************************)
EXTENDS Naturals, FiniteSets

CONSTANTS
  Worker,       \* WORKER_ID of the processes; a restarted one keeps its own
  Phone,
  Nobody,       \* no key worker_claim:<phone>, or no phone
  MaxAccounts,  \* MAX_ACCOUNTS_PER_WORKER
  Ttl,          \* CLAIM_TTL, in periods
  MaxIncidents  \* bound: crashes, shutdowns, late passes, Redis errors and resets

ASSUME ClaimsAssumption ==
  /\ Nobody \notin Worker \union Phone
  /\ MaxAccounts \in Nat \ {0}
  /\ Ttl \in Nat /\ Ttl >= 2
  /\ MaxIncidents \in Nat

VARIABLES
  owner,    \* worker_claim:<phone>
  ttl,      \* the periods the key has left
  doomed,   \* the keys clear_all_claims() has scanned and not deleted yet
  pc,       \* where start() is
  claimed,  \* claimed_phones
  todo,     \* the phones the loop start() is in has still to visit
  renewing, \* the phone renew_claim() has read as the worker's own
  fresh,    \* the renewal loop has begun a pass in this period
  stop,     \* where stop() is
  visited,  \* the phones the loop stop() is in has visited
  doing,    \* the phone release_claim() has read as the worker's own
  conn,     \* the phones with a connected client in the process
  lapsed,   \* the phones whose claim has ended under the worker that held it
  slipped,  \* those whose claim has ended between the GET and the DEL of a release
  incidents

keys  == <<owner, ttl, lapsed, slipped>>
main  == <<pc, claimed, todo, renewing, fresh>>
stopping == <<stop, visited, doing>>
vars  == <<keys, doomed, main, stopping, conn, incidents>>

Goto(w, l) == pc' = [pc EXCEPT ![w] = l]
Incident == incidents < MaxIncidents /\ incidents' = incidents + 1

Init ==
  /\ owner = [p \in Phone |-> Nobody]
  /\ ttl = [p \in Phone |-> 0]
  /\ doomed = {}
  /\ pc = [w \in Worker |-> "down"]
  /\ claimed = [w \in Worker |-> {}]
  /\ todo = [w \in Worker |-> {}]
  /\ renewing = [w \in Worker |-> Nobody]
  /\ fresh = [w \in Worker |-> FALSE]
  /\ stop = [w \in Worker |-> "no"]
  /\ visited = [w \in Worker |-> {}]
  /\ doing = [w \in Worker |-> Nobody]
  /\ conn = [w \in Worker |-> {}]
  /\ lapsed = {} /\ slipped = {}
  /\ incidents = 0

-----------------------------------------------------------------------------
(* Redis: the claim keys *)

Unclaimed == {p \in Phone : owner[p] = Nobody}

\* The keys of S go; their holders do not hear of it.
Vanish(S) ==
  /\ owner' = [p \in Phone |-> IF p \in S THEN Nobody ELSE owner[p]]
  /\ lapsed' = lapsed \union {p \in S : \E w \in Worker : owner[p] = w /\ p \in claimed[w]}
  /\ slipped' = slipped \union {p \in S : \E w \in Worker : doing[w] = p}

\* Mutant: SET without NX.
SetAlways(w, p) ==
  /\ owner' = [owner EXCEPT ![p] = w]
  /\ ttl' = [ttl EXCEPT ![p] = Ttl]
  /\ claimed' = [claimed EXCEPT ![w] = @ \union {p}]

\* claim_account(): SET NX EX.
SetClaim(w, p) ==
  IF owner[p] = Nobody
  THEN /\ owner' = [owner EXCEPT ![p] = w]
       /\ ttl' = [ttl EXCEPT ![p] = Ttl]
       /\ claimed' = [claimed EXCEPT ![w] = @ \union {p}]
  ELSE UNCHANGED <<owner, ttl, claimed>>

-----------------------------------------------------------------------------
(* start(): claim, connect, run the loops *)

Start(w) ==
  /\ pc[w] = "down"
  /\ Goto(w, "claim")
  /\ UNCHANGED <<keys, doomed, claimed, todo, renewing, fresh, stopping, conn, incidents>>

\* A closed connection makes every Redis call of the process raise.
Redis(w) == stop[w] # "closed"

\* _claim_accounts(): EXISTS for every eligible account, shuffle, slice to the capacity.
FindUnclaimed(w) ==
  /\ pc[w] = "claim"
  /\ Redis(w)
  /\ \E S \in SUBSET Unclaimed :
       /\ Cardinality(S) <= MaxAccounts
       /\ todo' = [todo EXCEPT ![w] = S]
  /\ Goto(w, "claiming")
  /\ UNCHANGED <<keys, doomed, claimed, renewing, fresh, stopping, conn, incidents>>

Claim(w) ==
  /\ pc[w] = "claiming"
  /\ Redis(w)
  /\ \E p \in todo[w] :
       /\ SetClaim(w, p)
       /\ todo' = [todo EXCEPT ![w] = @ \ {p}]
  /\ UNCHANGED <<doomed, pc, renewing, fresh, stopping, conn, lapsed, slipped, incidents>>

\* Nothing claimed: try again later.
ClaimEnd(w) ==
  /\ pc[w] = "claiming"
  /\ todo[w] = {}
  /\ todo' = [todo EXCEPT ![w] = claimed[w]]
  /\ Goto(w, IF claimed[w] = {} THEN "claim" ELSE "connect")
  /\ UNCHANGED <<keys, doomed, claimed, renewing, fresh, stopping, conn, incidents>>

\* Mutant: connects every account found unclaimed, before the claims are taken.
ConnectUnclaimed(w) ==
  /\ pc[w] \in {"claiming", "connect"}
  /\ \E p \in todo[w] :
       /\ todo' = [todo EXCEPT ![w] = @ \ {p}]
       /\ conn' = [conn EXCEPT ![w] = @ \union {p}]
  /\ UNCHANGED <<keys, doomed, pc, claimed, renewing, fresh, stopping, incidents>>

\* _connect_accounts(), one account: no client, a client, or one for which the session
\* manager has evicted another.  No claim is renewed meanwhile.
Connect(w) ==
  /\ pc[w] = "connect"
  /\ \E p \in todo[w] :
       /\ todo' = [todo EXCEPT ![w] = @ \ {p}]
       /\ \/ UNCHANGED conn
          \/ \E E \in SUBSET conn[w] :
               /\ Cardinality(E) <= 1
               /\ conn' = [conn EXCEPT ![w] = (@ \ E) \union {p}]
  /\ UNCHANGED <<keys, doomed, pc, claimed, renewing, fresh, stopping, incidents>>

ConnectEnd(w) ==
  /\ pc[w] = "connect"
  /\ todo[w] = {}
  /\ Goto(w, "run")
  /\ fresh' = [fresh EXCEPT ![w] = FALSE]
  /\ UNCHANGED <<keys, doomed, claimed, todo, renewing, stopping, conn, incidents>>

\* _claim_renewal_loop(): a pass over a copy of claimed_phones.
RenewBegin(w) ==
  /\ pc[w] = "run"
  /\ todo[w] = {}
  /\ ~fresh[w]
  /\ todo' = [todo EXCEPT ![w] = claimed[w]]
  /\ fresh' = [fresh EXCEPT ![w] = TRUE]
  /\ UNCHANGED <<keys, doomed, pc, claimed, renewing, stopping, conn, incidents>>

\* Mutant: a claim that is gone is taken for the worker's own.
RenewBlindly(w) ==
  /\ pc[w] = "run"
  /\ Redis(w)
  /\ \E p \in todo[w] :
       /\ todo' = [todo EXCEPT ![w] = @ \ {p}]
       /\ renewing' = [renewing EXCEPT ![w] = p]
       /\ Goto(w, "renew")
  /\ UNCHANGED <<keys, doomed, claimed, fresh, stopping, conn, incidents>>

\* GET: a lost claim leaves claimed_phones, but its client stays connected.
Renew(w) ==
  /\ pc[w] = "run"
  /\ Redis(w)
  /\ \E p \in todo[w] :
       /\ todo' = [todo EXCEPT ![w] = @ \ {p}]
       /\ \/ /\ owner[p] = w
             /\ renewing' = [renewing EXCEPT ![w] = p]
             /\ Goto(w, "renew")
             /\ UNCHANGED claimed
          \/ /\ owner[p] # w
             /\ claimed' = [claimed EXCEPT ![w] = @ \ {p}]
             /\ UNCHANGED <<pc, renewing>>
  /\ UNCHANGED <<keys, doomed, fresh, stopping, conn, incidents>>

\* Mutant: the new deadline is the length of the sleep.
ProlongShort(w) ==
  /\ pc[w] = "renew"
  /\ Redis(w)
  /\ ttl' = [ttl EXCEPT ![renewing[w]] = IF owner[renewing[w]] = Nobody THEN @ ELSE Ttl - 1]
  /\ renewing' = [renewing EXCEPT ![w] = Nobody]
  /\ Goto(w, "run")
  /\ UNCHANGED <<owner, lapsed, slipped, doomed, claimed, todo, fresh, stopping, conn, incidents>>

\* EXPIRE, of whatever key is there by now.
Prolong(w) ==
  /\ pc[w] = "renew"
  /\ Redis(w)
  /\ ttl' = [ttl EXCEPT ![renewing[w]] = IF owner[renewing[w]] = Nobody THEN @ ELSE Ttl]
  /\ renewing' = [renewing EXCEPT ![w] = Nobody]
  /\ Goto(w, "run")
  /\ UNCHANGED <<owner, lapsed, slipped, doomed, claimed, todo, fresh, stopping, conn, incidents>>

\* A command of a renewal raises: logged, and the loop goes on with the next phone.
RenewFails(w) ==
  /\ \/ ~Redis(w) /\ UNCHANGED incidents
     \/ Redis(w) /\ Incident
  /\ \/ pc[w] = "renew" /\ UNCHANGED todo
     \/ pc[w] = "run" /\ \E p \in todo[w] : todo' = [todo EXCEPT ![w] = @ \ {p}]
  /\ renewing' = [renewing EXCEPT ![w] = Nobody]
  /\ Goto(w, "run")
  /\ UNCHANGED <<keys, doomed, claimed, fresh, stopping, conn>>

-----------------------------------------------------------------------------
(* stop(), and the end of the process *)

\* SIGTERM: the tasks of start() are cancelled, if it has created them.
Stop(w) ==
  /\ pc[w] # "down"
  /\ stop[w] = "no"
  /\ Incident
  /\ stop' = [stop EXCEPT ![w] = "release"]
  /\ Goto(w, IF pc[w] \in {"run", "renew"} THEN "cancelled" ELSE pc[w])
  /\ UNCHANGED <<keys, doomed, claimed, todo, renewing, fresh, visited, doing, conn>>

\* Mutant: release_claim() does not look whose claim it is.
ReleaseAny(w) ==
  /\ stop[w] = "release"
  /\ \E p \in claimed[w] \ visited[w] :
       /\ visited' = [visited EXCEPT ![w] = @ \union {p}]
       /\ stop' = [stop EXCEPT ![w] = "del"]
       /\ doing' = [doing EXCEPT ![w] = p]
  /\ UNCHANGED <<keys, doomed, main, conn, incidents>>

\* release_claim(): GET ...
Release(w) ==
  /\ stop[w] = "release"
  /\ \E p \in claimed[w] \ visited[w] :
       /\ visited' = [visited EXCEPT ![w] = @ \union {p}]
       /\ \/ owner[p] = w /\ stop' = [stop EXCEPT ![w] = "del"] /\ doing' = [doing EXCEPT ![w] = p]
          \/ owner[p] # w /\ UNCHANGED <<stop, doing>>
  /\ UNCHANGED <<keys, doomed, main, conn, incidents>>

\* ... and DEL, of whatever key is there by now.
Delete(w) ==
  /\ stop[w] = "del"
  /\ owner' = [owner EXCEPT ![doing[w]] = Nobody]
  /\ ttl' = [ttl EXCEPT ![doing[w]] = 0]
  /\ stop' = [stop EXCEPT ![w] = "release"]
  /\ doing' = [doing EXCEPT ![w] = Nobody]
  /\ UNCHANGED <<lapsed, slipped, doomed, main, visited, conn, incidents>>

ReleaseEnd(w) ==
  /\ stop[w] = "release"
  /\ claimed[w] \subseteq visited[w]
  /\ stop' = [stop EXCEPT ![w] = "disconnect"]
  /\ visited' = [visited EXCEPT ![w] = {}]
  /\ UNCHANGED <<keys, doomed, main, doing, conn, incidents>>

Disconnect(w) ==
  /\ stop[w] = "disconnect"
  /\ \E p \in claimed[w] \ visited[w] :
       /\ visited' = [visited EXCEPT ![w] = @ \union {p}]
       /\ conn' = [conn EXCEPT ![w] = @ \ {p}]
  /\ UNCHANGED <<keys, doomed, main, stop, doing, incidents>>

\* redis_state.close(): the last thing stop() does.
StopEnd(w) ==
  /\ stop[w] = "disconnect"
  /\ claimed[w] \subseteq visited[w]
  /\ stop' = [stop EXCEPT ![w] = "closed"]
  /\ visited' = [visited EXCEPT ![w] = {}]
  /\ UNCHANGED <<keys, doomed, main, doing, conn, incidents>>

\* The process and all it holds is gone; its claims are not.
Gone(w) ==
  /\ Goto(w, "down")
  /\ claimed' = [claimed EXCEPT ![w] = {}]
  /\ todo' = [todo EXCEPT ![w] = {}]
  /\ renewing' = [renewing EXCEPT ![w] = Nobody]
  /\ fresh' = [fresh EXCEPT ![w] = FALSE]
  /\ stop' = [stop EXCEPT ![w] = "no"]
  /\ visited' = [visited EXCEPT ![w] = {}]
  /\ doing' = [doing EXCEPT ![w] = Nobody]
  /\ conn' = [conn EXCEPT ![w] = {}]
  /\ UNCHANGED <<keys, doomed>>

\* start() returns after its tasks were cancelled, or raises on the closed connection;
\* asyncio.run() cancels stop() where it stands.
Exit(w) ==
  /\ \/ pc[w] = "cancelled"
     \/ pc[w] \in {"claim", "claiming"} /\ ~Redis(w)
  /\ Gone(w)
  /\ UNCHANGED incidents

Crash(w) ==
  /\ pc[w] # "down"
  /\ Incident
  /\ Gone(w)

-----------------------------------------------------------------------------
(* clear_all_claims(): SCAN, and DEL of the keys found *)

ClearScan ==
  /\ doomed = {}
  /\ Incident
  /\ doomed' = Phone \ Unclaimed
  /\ UNCHANGED <<keys, main, stopping, conn>>

ClearDelete ==
  /\ doomed # {}
  /\ Vanish(doomed)
  /\ ttl' = [p \in Phone |-> IF p \in doomed THEN 0 ELSE ttl[p]]
  /\ doomed' = {}
  /\ UNCHANGED <<main, stopping, conn, incidents>>

\* The renewal loop of w has done its pass of this period.
OnTime(w) == pc[w] \in {"run", "renew"} /\ Redis(w) => pc[w] = "run" /\ fresh[w] /\ todo[w] = {}

\* Mutant: SET without EX.
TickNoExpiry ==
  /\ \/ (\A w \in Worker : OnTime(w)) /\ UNCHANGED incidents
     \/ (\E w \in Worker : ~OnTime(w)) /\ Incident
  /\ fresh' = [w \in Worker |-> FALSE]
  /\ UNCHANGED <<keys, doomed, pc, claimed, todo, renewing, stopping, conn>>

\* Mutant: counts on below zero.
TickNoFloor ==
  /\ \/ (\A w \in Worker : OnTime(w)) /\ UNCHANGED incidents
     \/ (\E w \in Worker : ~OnTime(w)) /\ Incident
  /\ Vanish({p \in Phone : ttl[p] = 1})
  /\ ttl' = [p \in Phone |-> ttl[p] - 1]
  /\ fresh' = [w \in Worker |-> FALSE]
  /\ UNCHANGED <<doomed, pc, claimed, todo, renewing, stopping, conn>>

\* A period ends.  A pass that is late by a whole period is an incident.
Tick ==
  /\ \/ (\A w \in Worker : OnTime(w)) /\ UNCHANGED incidents
     \/ (\E w \in Worker : ~OnTime(w)) /\ Incident
  /\ Vanish({p \in Phone : ttl[p] = 1})
  /\ ttl' = [p \in Phone |-> IF ttl[p] = 0 THEN 0 ELSE ttl[p] - 1]
  /\ fresh' = [w \in Worker |-> FALSE]
  /\ UNCHANGED <<doomed, pc, claimed, todo, renewing, stopping, conn>>

Live(w) ==
  \/ Start(w) \/ FindUnclaimed(w) \/ Claim(w) \/ ClaimEnd(w) \/ Connect(w) \/ ConnectEnd(w)
  \/ RenewBegin(w) \/ Renew(w) \/ Prolong(w)
Shutdown(w) ==
  \/ Release(w) \/ Delete(w) \/ ReleaseEnd(w) \/ Disconnect(w) \/ StopEnd(w) \/ Exit(w)

Next ==
  \/ \E w \in Worker : Live(w) \/ Shutdown(w) \/ RenewFails(w) \/ Stop(w) \/ Crash(w)
  \/ ClearScan \/ ClearDelete \/ Tick

Spec == Init /\ [][Next]_vars

\* The event loops run, the supervisor restarts a process that is gone, time passes.
Fairness ==
  /\ \A w \in Worker : WF_vars(Live(w)) /\ WF_vars(Shutdown(w))
  /\ WF_vars(Tick) /\ WF_vars(ClearDelete)

FairSpec == Spec /\ Fairness
-----------------------------------------------------------------------------
(* Properties *)

TypeOK ==
  /\ owner \in [Phone -> Worker \union {Nobody}]
  /\ ttl \in [Phone -> 0..Ttl]
  /\ doomed \subseteq Phone
  /\ pc \in [Worker -> {"down", "claim", "claiming", "connect", "run", "renew", "cancelled"}]
  /\ claimed \in [Worker -> SUBSET Phone]
  /\ todo \in [Worker -> SUBSET Phone]
  /\ renewing \in [Worker -> Phone \union {Nobody}]
  /\ fresh \in [Worker -> BOOLEAN]
  /\ stop \in [Worker -> {"no", "release", "del", "disconnect", "closed"}]
  /\ visited \in [Worker -> SUBSET Phone]
  /\ doing \in [Worker -> Phone \union {Nobody}]
  /\ conn \in [Worker -> SUBSET Phone]
  /\ lapsed \subseteq Phone /\ slipped \subseteq Phone
  /\ incidents \in 0..MaxIncidents
  /\ \A w \in Worker : /\ pc[w] = "renew" => renewing[w] # Nobody
                       /\ stop[w] = "del" => doing[w] # Nobody

\* Two workers work with one account only after its claim has lapsed under one of them: it
\* expired before a renewal (worker.py:385-402) or an operator cleared it.  Neither the claim
\* race of two workers (268-281) nor the GET/DEL gap of release_claim (redis_state.py:88-90)
\* nor a restart under the same worker id is enough.
ExclusiveClaims ==
  \A w, v \in Worker : w # v /\ stop[w] = "no" /\ stop[v] = "no"
    => claimed[w] \intersect claimed[v] \subseteq lapsed

\* An account has two connected Telegram clients only after its claim has lapsed, or while
\* one of the two workers is shutting down (it releases the claims first, worker.py:220-229).
OneClientPerAccount ==
  \A w, v \in Worker : w # v /\ stop[w] = "no" /\ stop[v] = "no"
    => conn[w] \intersect conn[v] \subseteq lapsed

\* release_claim() and renew_claim() are a GET and a second command (redis_state.py:79-81,
\* 88-90), yet a claim only ends at its deadline, by a reset, or by its own owner, except where
\* one has ended in that very gap of a release.
ClaimEndsByOwner ==
  [][\A p \in Phone : owner[p] # Nobody /\ owner'[p] = Nobody =>
       \/ ttl[p] = 1
       \/ p \in doomed
       \/ doing[owner[p]] = p
       \/ p \in slipped]_vars

\* CLAIM_TTL is twice the sleep of the renewal loop (worker.py:391, 402).  As long as every pass
\* ends in its period and nothing else goes wrong, a worker whose loops run keeps the claims it
\* has, however late in one period and early in the next its passes are.
RunningKeepsClaims ==
  [][\A w \in Worker, p \in Phone :
       /\ pc[w] \in {"run", "renew"} /\ p \in claimed[w] /\ owner[p] = w
       /\ incidents' = 0
       => owner'[p] = w]_vars

\* A worker that has lost a claim stops commenting with the account (worker.py:395-397),
\* unless it is a process that was told to stop while it was connecting.
LossNoticed ==
  \A w \in Worker, p \in Phone :
    p \in claimed[w] /\ owner[p] # w ~> p \notin claimed[w] \/ owner[p] = w \/ stop[w] # "no"

\* A claim whose owner does not work with the account (it crashed, or was stopped before it
\* could release) does not stay: the account becomes claimable again.
OrphanExpires ==
  \A w \in Worker, p \in Phone :
    owner[p] = w /\ p \notin claimed[w] ~> owner[p] # w \/ p \in claimed[w]

\* stop() is the "Graceful shutdown" that releases the claims (worker.py:212, 220): a process
\* that was stopped while its loops ran leaves no claim behind.
ShutdownReleases ==
  [][\A w \in Worker : pc[w] = "cancelled" /\ pc'[w] = "down" /\ incidents' = incidents
       => \A p \in Phone : owner[p] # w]_vars
=============================================================================

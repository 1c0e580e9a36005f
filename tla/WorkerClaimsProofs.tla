-------------------------- MODULE WorkerClaimsProofs --------------------------
(***************************************************************************)
(* Theorems about WorkerClaims, for any workers, accounts and bounds.      *)
(***************************************************************************)
EXTENDS WorkerClaims, TLAPS

LEMMA InitType == Init => TypeOK
BY ClaimsAssumption DEF Init, TypeOK

LEMMA NextType == TypeOK /\ [Next]_vars => TypeOK'
<1> SUFFICES ASSUME TypeOK, [Next]_vars PROVE TypeOK'
  OBVIOUS
<1> USE ClaimsAssumption DEF TypeOK, Goto, Incident, keys, main, stopping
<1>1. ASSUME NEW w \in Worker, Live(w) PROVE TypeOK'
  <2>1. CASE Start(w)
    BY <2>1 DEF Start
  <2>2. CASE FindUnclaimed(w)
    BY <2>2 DEF FindUnclaimed, Unclaimed
  <2>3. CASE Claim(w)
    BY <2>3 DEF Claim, SetClaim
  <2>4. CASE ClaimEnd(w)
    BY <2>4 DEF ClaimEnd
  <2>5. CASE Connect(w)
    BY <2>5 DEF Connect
  <2>6. CASE ConnectEnd(w)
    BY <2>6 DEF ConnectEnd
  <2>7. CASE RenewBegin(w)
    BY <2>7 DEF RenewBegin
  <2>8. CASE Renew(w)
    BY <2>8 DEF Renew
  <2>9. CASE Prolong(w)
    BY <2>9 DEF Prolong
  <2>10. QED
    BY <1>1, <2>1, <2>2, <2>3, <2>4, <2>5, <2>6, <2>7, <2>8, <2>9 DEF Live
<1>2. ASSUME NEW w \in Worker, Shutdown(w) PROVE TypeOK'
  <2>1. CASE Release(w)
    BY <2>1 DEF Release
  <2>2. CASE Delete(w)
    BY <2>2 DEF Delete
  <2>3. CASE ReleaseEnd(w)
    BY <2>3 DEF ReleaseEnd
  <2>4. CASE Disconnect(w)
    BY <2>4 DEF Disconnect
  <2>5. CASE StopEnd(w)
    BY <2>5 DEF StopEnd
  <2>6. CASE Exit(w)
    BY <2>6 DEF Exit, Gone
  <2>7. QED
    BY <1>2, <2>1, <2>2, <2>3, <2>4, <2>5, <2>6 DEF Shutdown
<1>3. ASSUME NEW w \in Worker, RenewFails(w) PROVE TypeOK'
  BY <1>3 DEF RenewFails
<1>4. ASSUME NEW w \in Worker, Stop(w) PROVE TypeOK'
  BY <1>4 DEF Stop
<1>5. ASSUME NEW w \in Worker, Crash(w) PROVE TypeOK'
  BY <1>5 DEF Crash, Gone
<1>6. CASE ClearScan
  BY <1>6 DEF ClearScan
<1>7. CASE ClearDelete
  BY <1>7 DEF ClearDelete, Vanish
<1>8. CASE Tick
  <2>1. ttl' \in [Phone -> 0..Ttl]
    <3>1. \A p \in Phone : ttl[p] \in 0..Ttl /\ (ttl[p] # 0 => ttl[p] - 1 \in 0..Ttl)
      OBVIOUS
    <3>2. ttl' = [p \in Phone |-> IF ttl[p] = 0 THEN 0 ELSE ttl[p] - 1]
      BY <1>8 DEF Tick
    <3>3. QED
      BY <3>1, <3>2
  <2>2. QED
    BY <1>8, <2>1 DEF Tick, Vanish
<1>9. CASE UNCHANGED vars
  BY <1>9 DEF vars
<1>10. QED
  BY <1>1, <1>2, <1>3, <1>4, <1>5, <1>6, <1>7, <1>8, <1>9 DEF Next

\* Every key and every local of a worker holds a value of its type, and a GET that found the
\* worker's own claim is followed by a command on that very phone.
THEOREM ClaimTypes == Spec => []TypeOK
BY InitType, NextType, PTL DEF Spec

-----------------------------------------------------------------------------
\* What a running worker holds is its own, or the claim has lapsed; what a stopping one is about
\* to delete is its own, or the claim has ended since it looked.
Held(w) ==
  /\ stop[w] = "no" => \A p \in claimed[w] : owner[p] = w \/ p \in lapsed
  /\ stop[w] = "del" =>
       \/ doing[w] \in slipped \intersect lapsed
       \/ doing[w] \in claimed[w] /\ owner[doing[w]] = w
\* A running worker has clients, and is about to connect, only for what it has claimed.
Connected(w) ==
  stop[w] = "no" =>
    /\ conn[w] \subseteq claimed[w] \union lapsed
    /\ pc[w] = "connect" => todo[w] \subseteq claimed[w] \union lapsed

HeldInv == \A w \in Worker : Held(w)
ConnectedInv == \A w \in Worker : Connected(w)

\* A lapsed claim is lapsed for ever.
LEMMA LapsedGrows == [Next]_vars => lapsed \subseteq lapsed'
BY DEF Next, Live, Shutdown, vars, keys, main, stopping, Start, FindUnclaimed, Claim, ClaimEnd,
       Connect, ConnectEnd, RenewBegin, Renew, Prolong, Release, Delete, ReleaseEnd, Disconnect,
       StopEnd, Exit, Gone, RenewFails, Stop, Crash, ClearScan, ClearDelete, Tick, Vanish

LEMMA InitHeld == Init => HeldInv /\ ConnectedInv
BY DEF Init, HeldInv, ConnectedInv, Held, Connected

\* The keys of S go, by deadline or reset.
LEMMA VanishHeld ==
  ASSUME TypeOK, HeldInv, NEW S \in SUBSET Phone, Vanish(S),
         UNCHANGED <<claimed, stop, doing>>
  PROVE  HeldInv'
<1> SUFFICES ASSUME NEW w \in Worker PROVE Held(w)'
  BY DEF HeldInv
<1>1. Held(w)
  BY DEF HeldInv
<1>2. \A p \in claimed[w] : p \in Phone
  BY DEF TypeOK
<1>3. \A p \in claimed[w] : owner[p] = w => owner'[p] = w \/ p \in lapsed'
  BY <1>2 DEF Vanish
<1>4. lapsed \subseteq lapsed' /\ slipped \subseteq slipped'
  BY DEF Vanish
<1>5. claimed'[w] = claimed[w] /\ stop'[w] = stop[w] /\ doing'[w] = doing[w]
  OBVIOUS
<1>6. stop[w] = "no" => \A p \in claimed[w] : owner'[p] = w \/ p \in lapsed'
  BY <1>1, <1>3, <1>4 DEF Held
<1>7. stop[w] = "del" => \/ doing[w] \in slipped' \intersect lapsed'
                         \/ doing[w] \in claimed[w] /\ owner'[doing[w]] = w
  <2>1. doing[w] \in S => doing[w] \in slipped'
    BY DEF Vanish
  <2>2. doing[w] \in claimed[w] \ S => owner'[doing[w]] = owner[doing[w]]
    BY <1>2 DEF Vanish
  <2>3. QED
    BY <1>1, <1>3, <1>4, <2>1, <2>2 DEF Held
<1>8. QED
  BY <1>5, <1>6, <1>7 DEF Held

LEMMA NextHeld == TypeOK /\ HeldInv /\ [Next]_vars => HeldInv'
<1> SUFFICES ASSUME TypeOK, HeldInv, [Next]_vars PROVE HeldInv'
  OBVIOUS
<1> USE ClaimsAssumption DEF Goto, Incident, keys, main, stopping
<1>a. \A w \in Worker : Held(w)
  BY DEF HeldInv
<1>b. ASSUME UNCHANGED <<owner, lapsed, slipped, claimed, stop, doing>> PROVE HeldInv'
  BY <1>b DEF HeldInv, Held
<1>1. ASSUME NEW w \in Worker, Live(w) PROVE HeldInv'
  <2>1. CASE Claim(w)
    <3>1. PICK p \in todo[w] : SetClaim(w, p)
      BY <2>1 DEF Claim
    <3>2. CASE owner[p] # Nobody
      BY <2>1, <3>1, <3>2, <1>b DEF Claim, SetClaim
    <3>3. CASE owner[p] = Nobody
      <4>1. /\ owner' = [owner EXCEPT ![p] = w]
            /\ claimed' = [claimed EXCEPT ![w] = @ \union {p}]
            /\ UNCHANGED <<stop, doing, lapsed, slipped>>
        BY <2>1, <3>1, <3>3 DEF Claim, SetClaim
      <4>2. p \in Phone
        BY DEF TypeOK
      <4>3. ASSUME NEW v \in Worker PROVE Held(v)'
        <5>1. \A q \in Phone : owner[q] = v => owner'[q] = v
          BY <4>1, <4>2, <3>3 DEF TypeOK
        <5>7. claimed[v] \subseteq Phone /\ (stop[v] = "del" => doing[v] \in Phone)
          BY DEF TypeOK
        <5>2. claimed[v] \subseteq claimed'[v] /\ claimed'[v] \subseteq claimed[v] \union {p}
              /\ (v # w => claimed'[v] = claimed[v]) /\ owner'[p] = w
          BY <4>1, <4>2 DEF TypeOK
        <5>3. Held(v)
          BY <1>a
        <5>4. stop[v] = "no" => \A q \in claimed'[v] : owner'[q] = v \/ q \in lapsed
          BY <3>3, <5>1, <5>2, <5>3, <5>7 DEF Held
        <5>5. stop[v] = "del" => \/ doing[v] \in slipped \intersect lapsed
                                 \/ doing[v] \in claimed'[v] /\ owner'[doing[v]] = v
          BY <5>1, <5>2, <5>3, <5>7 DEF Held
        <5>6. QED
          BY <4>1, <5>4, <5>5 DEF Held
      <4>4. QED
        BY <4>3 DEF HeldInv
    <3>4. QED
      BY <3>2, <3>3
  <2>2. CASE Renew(w)
    <3>1. PICK p \in todo[w] : \/ UNCHANGED claimed
                               \/ /\ owner[p] # w
                                  /\ claimed' = [claimed EXCEPT ![w] = @ \ {p}]
      BY <2>2 DEF Renew
    <3>2. UNCHANGED <<owner, lapsed, slipped, stop, doing>>
      BY <2>2 DEF Renew
    <3>3. CASE UNCHANGED claimed
      BY <3>2, <3>3, <1>b
    <3>4. CASE owner[p] # w /\ claimed' = [claimed EXCEPT ![w] = @ \ {p}]
      <4>1. ASSUME NEW v \in Worker PROVE Held(v)'
        <5>1. claimed'[v] \subseteq claimed[v]
              /\ \A q \in claimed[v] : owner[q] = v => q \in claimed'[v]
          BY <3>4 DEF TypeOK
        <5>2. QED
          BY <1>a, <3>2, <5>1 DEF Held
      <4>2. QED
        BY <4>1 DEF HeldInv
    <3>5. QED
      BY <3>1, <3>3, <3>4
  <2>3. CASE Start(w) \/ FindUnclaimed(w) \/ ClaimEnd(w) \/ Connect(w) \/ ConnectEnd(w)
             \/ RenewBegin(w) \/ Prolong(w)
    BY <2>3, <1>b DEF Start, FindUnclaimed, ClaimEnd, Connect, ConnectEnd, RenewBegin, Prolong
  <2>4. QED
    BY <1>1, <2>1, <2>2, <2>3 DEF Live
<1>2. ASSUME NEW w \in Worker, Gone(w), UNCHANGED <<>> PROVE HeldInv'
  <2>1. ASSUME NEW v \in Worker PROVE Held(v)'
    BY <1>2, <1>a DEF Gone, Held, TypeOK
  <2>2. QED
    BY <2>1 DEF HeldInv
<1>3. ASSUME NEW w \in Worker, Shutdown(w) PROVE HeldInv'
  <2>1. CASE Release(w)
    <3>1. ASSUME NEW v \in Worker PROVE Held(v)'
      BY <2>1, <1>a DEF Release, Held, TypeOK
    <3>2. QED
      BY <3>1 DEF HeldInv
  <2>2. CASE Delete(w)
    <3>1. /\ doing[w] \in Phone /\ stop[w] = "del"
          /\ owner' = [owner EXCEPT ![doing[w]] = Nobody]
          /\ stop' = [stop EXCEPT ![w] = "release"]
          /\ doing' = [doing EXCEPT ![w] = Nobody]
          /\ UNCHANGED <<lapsed, slipped, claimed>>
      BY <2>2 DEF Delete, TypeOK
    <3>2. ASSUME NEW v \in Worker PROVE Held(v)'
      <4>1. CASE v = w
        BY <3>1, <4>1 DEF Held, TypeOK
      <4>2. CASE v # w
        <5>1. Held(v) /\ Held(w)
          BY <1>a
        <5>2. stop'[v] = stop[v] /\ doing'[v] = doing[v] /\ claimed'[v] = claimed[v]
              /\ lapsed' = lapsed /\ slipped' = slipped
          BY <3>1, <4>2 DEF TypeOK
        <5>3. \A q \in Phone \ {doing[w]} : owner'[q] = owner[q]
          BY <3>1 DEF TypeOK
        <5>4. \A q \in claimed[v] : owner[q] = v => owner'[q] = v \/ q \in slipped \intersect lapsed
          BY <3>1, <4>2, <5>1, <5>3 DEF Held, TypeOK
        <5>6. QED
          BY <5>1, <5>2, <5>4 DEF Held
      <4>3. QED
        BY <4>1, <4>2
    <3>3. QED
      BY <3>2 DEF HeldInv
  <2>3. CASE ReleaseEnd(w) \/ StopEnd(w)
    <3>1. ASSUME NEW v \in Worker PROVE Held(v)'
      BY <2>3, <1>a DEF ReleaseEnd, StopEnd, Held, TypeOK
    <3>2. QED
      BY <3>1 DEF HeldInv
  <2>4. CASE Disconnect(w)
    BY <2>4, <1>b DEF Disconnect
  <2>5. CASE Exit(w)
    BY <2>5, <1>2 DEF Exit
  <2>6. QED
    BY <1>3, <2>1, <2>2, <2>3, <2>4, <2>5 DEF Shutdown
<1>4. ASSUME NEW w \in Worker, RenewFails(w) PROVE HeldInv'
  BY <1>4, <1>b DEF RenewFails
<1>5. ASSUME NEW w \in Worker, Stop(w) PROVE HeldInv'
  <2>1. ASSUME NEW v \in Worker PROVE Held(v)'
    BY <1>5, <1>a DEF Stop, Held, TypeOK
  <2>2. QED
    BY <2>1 DEF HeldInv
<1>6. ASSUME NEW w \in Worker, Crash(w) PROVE HeldInv'
  BY <1>6, <1>2 DEF Crash
<1>7. CASE ClearScan
  BY <1>7, <1>b DEF ClearScan
<1>8. CASE ClearDelete
  BY <1>8, VanishHeld DEF ClearDelete, TypeOK
<1>9. CASE Tick
  BY <1>9, VanishHeld DEF Tick
<1>10. CASE UNCHANGED vars
  BY <1>10, <1>b DEF vars
<1>11. QED
  BY <1>1, <1>3, <1>4, <1>5, <1>6, <1>7, <1>8, <1>9, <1>10 DEF Next

LEMMA HeldAlways == Spec => [](TypeOK /\ HeldInv)
<1>1. Init => TypeOK /\ HeldInv
  BY InitType, InitHeld
<1>2. TypeOK /\ HeldInv /\ [Next]_vars => (TypeOK /\ HeldInv)'
  BY NextType, NextHeld
<1>3. QED
  BY <1>1, <1>2, PTL DEF Spec

\* Two running workers hold one account only after its claim has lapsed (worker.py:268-281,
\* 385-402; redis_state.py:70-90), however their claims, renewals, releases and restarts
\* interleave.
THEOREM ClaimsAreExclusive == Spec => []ExclusiveClaims
<1>1. HeldInv => ExclusiveClaims
  BY DEF HeldInv, Held, ExclusiveClaims
<1>2. QED
  BY <1>1, HeldAlways, PTL

\* A claim ends at its deadline, by a reset, or by its owner.  Only where a claim has ended
\* between the GET and the DEL of a release_claim() (redis_state.py:88-90) may the DEL take the
\* next worker's.
THEOREM ClaimsEndProperly == Spec => ClaimEndsByOwner
<1> DEFINE Ends == \A p \in Phone : owner[p] # Nobody /\ owner'[p] = Nobody =>
                     \/ ttl[p] = 1
                     \/ p \in doomed
                     \/ doing[owner[p]] = p
                     \/ p \in slipped
<1>1. TypeOK /\ HeldInv /\ [Next]_vars => [Ends]_vars
  <2> SUFFICES ASSUME TypeOK, HeldInv, Next, NEW p \in Phone,
                      owner[p] # Nobody, owner'[p] = Nobody
               PROVE  ttl[p] = 1 \/ p \in doomed \/ doing[owner[p]] = p \/ p \in slipped
    OBVIOUS
  <2> USE DEF keys, main, stopping
  <2>1. ASSUME NEW w \in Worker, Delete(w) PROVE doing[owner[p]] = p \/ p \in slipped
    <3>1. doing[w] = p /\ stop[w] = "del"
      BY <2>1 DEF Delete, TypeOK
    <3>2. QED
      BY <3>1 DEF HeldInv, Held
  <2>2. ASSUME NEW w \in Worker, Claim(w) PROVE FALSE
    BY <2>2, ClaimsAssumption DEF Claim, SetClaim, TypeOK
  <2>3. CASE ClearDelete
    BY <2>3 DEF ClearDelete, Vanish
  <2>4. CASE Tick
    BY <2>4 DEF Tick, Vanish
  <2>5. CASE owner' = owner
    BY <2>5
  <2>6. (\A w \in Worker : ~Delete(w) /\ ~Claim(w)) /\ ~ClearDelete /\ ~Tick => owner' = owner
    BY DEF Next, Live, Shutdown, Start, FindUnclaimed, ClaimEnd, Connect, ConnectEnd, RenewBegin,
           Renew, Prolong, Release, ReleaseEnd, Disconnect, StopEnd, Exit, Gone, RenewFails, Stop,
           Crash, ClearScan
  <2>7. QED
    BY <2>1, <2>2, <2>3, <2>4, <2>5, <2>6
<1>2. QED
  BY <1>1, HeldAlways, PTL DEF Spec, ClaimEndsByOwner
-----------------------------------------------------------------------------
LEMMA NextConnected ==
  TypeOK /\ HeldInv /\ ConnectedInv /\ [Next]_vars => ConnectedInv'
<1> SUFFICES ASSUME TypeOK, HeldInv, ConnectedInv, [Next]_vars, NEW v \in Worker
             PROVE  Connected(v)'
  BY DEF ConnectedInv
<1> USE ClaimsAssumption DEF Goto, Incident, keys, main, stopping
<1>a. Connected(v) /\ Held(v)
  BY DEF ConnectedInv, HeldInv
<1>b. ASSUME /\ stop'[v] = "no" => stop[v] = "no"
             /\ conn'[v] \subseteq conn[v]
             /\ claimed[v] \subseteq claimed'[v]
             /\ lapsed \subseteq lapsed'
             /\ pc'[v] = "connect" => pc[v] = "connect" /\ todo'[v] \subseteq todo[v]
      PROVE  Connected(v)'
  BY <1>a, <1>b DEF Connected
<1>c. lapsed \subseteq lapsed'
  BY LapsedGrows
<1>1. ASSUME NEW w \in Worker, Live(w) PROVE Connected(v)'
  <2>1. CASE ClaimEnd(w)
    <3>1. /\ UNCHANGED <<stop, conn, claimed>>
          /\ v = w => todo'[v] = claimed[v]
          /\ v # w => todo'[v] = todo[v] /\ pc'[v] = pc[v]
      BY <2>1 DEF ClaimEnd, TypeOK
    <3>2. QED
      BY <3>1, <1>a, <1>c DEF Connected
  <2>2. CASE Connect(w)
    <3>1. /\ UNCHANGED <<stop, claimed, pc>> /\ pc[w] = "connect"
          /\ todo'[v] \subseteq todo[v]
          /\ v # w => conn'[v] = conn[v]
          /\ v = w => conn'[v] \subseteq conn[v] \union todo[v]
      BY <2>2 DEF Connect, TypeOK
    <3>2. QED
      BY <3>1, <1>a, <1>c DEF Connected
  <2>3. CASE Renew(w)
    <3>1. /\ UNCHANGED <<stop, conn, owner>>
          /\ pc'[v] = "connect" => pc[v] = "connect" /\ v # w
          /\ v # w => claimed'[v] = claimed[v] /\ todo'[v] = todo[v]
          /\ \A p \in claimed[v] : owner[p] = v => p \in claimed'[v]
      BY <2>3 DEF Renew, TypeOK
    <3>2. stop[v] = "no" => claimed[v] \subseteq claimed'[v] \union lapsed
      BY <3>1, <1>a DEF Held
    <3>3. QED
      BY <3>1, <3>2, <1>a, <1>c DEF Connected
  <2>4. CASE Claim(w)
    <3>1. /\ UNCHANGED <<stop, conn, pc>>
          /\ claimed[v] \subseteq claimed'[v] /\ todo'[v] \subseteq todo[v]
      BY <2>4 DEF Claim, SetClaim, TypeOK
    <3>2. QED
      BY <3>1, <1>b, <1>c
  <2>5. CASE Start(w) \/ FindUnclaimed(w) \/ ConnectEnd(w) \/ RenewBegin(w) \/ Prolong(w)
    <3>1. /\ UNCHANGED <<stop, conn, claimed>>
          /\ pc'[v] = "connect" => pc[v] = "connect" /\ todo'[v] = todo[v]
      BY <2>5 DEF Start, FindUnclaimed, ConnectEnd, RenewBegin, Prolong, TypeOK
    <3>2. QED
      BY <3>1, <1>b, <1>c
  <2>6. QED
    BY <1>1, <2>1, <2>2, <2>3, <2>4, <2>5 DEF Live
<1>2. ASSUME NEW w \in Worker, Gone(w) PROVE Connected(v)'
  <2>1. CASE v = w
    BY <1>2, <2>1 DEF Gone, TypeOK, Connected
  <2>2. CASE v # w
    BY <1>2, <2>2, <1>b, <1>c DEF Gone, TypeOK
  <2>3. QED
    BY <2>1, <2>2
<1>3. ASSUME NEW w \in Worker, Shutdown(w) PROVE Connected(v)'
  <2>1. CASE Exit(w)
    BY <2>1, <1>2 DEF Exit
  <2>2. CASE Release(w) \/ Delete(w) \/ ReleaseEnd(w) \/ Disconnect(w) \/ StopEnd(w)
    <3>1. /\ UNCHANGED <<claimed, pc, todo>>
          /\ conn'[v] \subseteq conn[v]
          /\ stop'[v] = "no" => stop[v] = "no"
      BY <2>2 DEF Release, Delete, ReleaseEnd, Disconnect, StopEnd, TypeOK
    <3>2. QED
      BY <3>1, <1>b, <1>c
  <2>3. QED
    BY <1>3, <2>1, <2>2 DEF Shutdown
<1>4. ASSUME NEW w \in Worker, RenewFails(w) \/ Stop(w) PROVE Connected(v)'
  <2>1. /\ UNCHANGED <<conn, claimed>>
        /\ stop'[v] = "no" => stop[v] = "no"
        /\ pc'[v] = "connect" => pc[v] = "connect" /\ todo'[v] \subseteq todo[v]
    BY <1>4 DEF RenewFails, Stop, TypeOK
  <2>2. QED
    BY <2>1, <1>b, <1>c
<1>5. ASSUME NEW w \in Worker, Crash(w) PROVE Connected(v)'
  BY <1>5, <1>2 DEF Crash
<1>6. CASE ClearScan \/ ClearDelete \/ Tick \/ UNCHANGED vars
  <2>1. UNCHANGED <<stop, conn, claimed, pc, todo>>
    BY <1>6 DEF ClearScan, ClearDelete, Tick, vars
  <2>2. QED
    BY <2>1, <1>b, <1>c
<1>7. QED
  BY <1>1, <1>3, <1>4, <1>5, <1>6 DEF Next

\* An account has two connected clients only after its claim has lapsed, or while one of the two
\* workers is shutting down (worker.py:220-229, 288-343, 395-397).
THEOREM ClientsAreExclusive == Spec => []OneClientPerAccount
<1>1. Init => TypeOK /\ HeldInv /\ ConnectedInv
  BY InitType, InitHeld
<1>2. TypeOK /\ HeldInv /\ ConnectedInv /\ [Next]_vars => (TypeOK /\ HeldInv /\ ConnectedInv)'
  BY NextType, NextHeld, NextConnected
<1>3. HeldInv /\ ConnectedInv => OneClientPerAccount
  <2> SUFFICES ASSUME HeldInv, ConnectedInv, NEW w \in Worker, NEW v \in Worker, w # v,
                      stop[w] = "no", stop[v] = "no", NEW p \in conn[w] \intersect conn[v],
                      p \notin lapsed
               PROVE  FALSE
    BY DEF OneClientPerAccount
  <2>1. p \in claimed[w] /\ p \in claimed[v]
    BY DEF ConnectedInv, Connected
  <2>2. owner[p] = w /\ owner[p] = v
    BY <2>1 DEF HeldInv, Held
  <2>3. QED
    BY <2>2
<1>4. QED
  BY <1>1, <1>2, <1>3, PTL DEF Spec
-----------------------------------------------------------------------------
(* The claims of a worker whose passes are on time *)

\* A worker whose loops run.
Running(w) == pc[w] \in {"run", "renew"}

\* Without an incident nothing stops or resets, and the claims the present pass has renewed have
\* their full time.
Renewed(w) ==
  /\ stop[w] = "no"
  /\ renewing[w] # Nobody => pc[w] = "renew"
  /\ Running(w) /\ fresh[w] =>
       \A p \in claimed[w] \ todo[w] : owner[p] = w /\ p # renewing[w] => ttl[p] = Ttl

RenewedInv == incidents = 0 => doomed = {} /\ \A w \in Worker : Renewed(w)

LEMMA NextRenewed == TypeOK /\ RenewedInv /\ [Next]_vars => RenewedInv'
<1> SUFFICES ASSUME TypeOK, RenewedInv, [Next]_vars, incidents' = 0
             PROVE  doomed' = {} /\ \A w \in Worker : Renewed(w)'
  BY DEF RenewedInv
<1> USE ClaimsAssumption DEF TypeOK, Goto, keys, main, stopping, Redis
<1>f. incidents = 0 /\ ~Incident
  BY DEF Incident, Next, Live, Shutdown, vars, Start, FindUnclaimed, Claim, ClaimEnd, Connect,
         ConnectEnd, RenewBegin, Renew, Prolong, Release, Delete, ReleaseEnd, Disconnect, StopEnd,
         Exit, RenewFails, Stop, Crash, ClearScan, ClearDelete, Tick
<1>i. doomed = {} /\ \A w \in Worker : Renewed(w)
  BY <1>f DEF RenewedInv
\* A step that is w's alone.
<1>a. ASSUME NEW w \in Worker, Renewed(w)', doomed' = {},
             \A v \in Worker \ {w} : /\ stop'[v] = stop[v] /\ renewing'[v] = renewing[v]
                                     /\ pc'[v] = pc[v] /\ fresh'[v] = fresh[v]
                                     /\ claimed'[v] = claimed[v] /\ todo'[v] = todo[v],
             \A p \in Phone : \A v \in Worker \ {w} :
               owner'[p] = v => owner[p] = v /\ ttl'[p] \in {ttl[p], Ttl}
      PROVE  doomed' = {} /\ \A v \in Worker : Renewed(v)'
  <2>1. \A v \in Worker \ {w} : Renewed(v)'
    BY <1>a, <1>i DEF Renewed, Running
  <2>2. QED
    BY <1>a, <2>1
<1>1. ASSUME NEW w \in Worker, Start(w) \/ FindUnclaimed(w) \/ ClaimEnd(w) \/ ConnectEnd(w)
      PROVE  doomed' = {} /\ \A v \in Worker : Renewed(v)'
  BY <1>1, <1>a, <1>i DEF Start, FindUnclaimed, ClaimEnd, ConnectEnd, Renewed, Running
<1>2. ASSUME NEW w \in Worker, Claim(w)
      PROVE  doomed' = {} /\ \A v \in Worker : Renewed(v)'
  BY <1>2, <1>a, <1>i DEF Claim, SetClaim, Renewed, Running
<1>3. ASSUME NEW w \in Worker, Connect(w) \/ RenewBegin(w)
      PROVE  doomed' = {} /\ \A v \in Worker : Renewed(v)'
  BY <1>3, <1>a, <1>i DEF Connect, RenewBegin, Renewed, Running
<1>4. ASSUME NEW w \in Worker, Renew(w)
      PROVE  doomed' = {} /\ \A v \in Worker : Renewed(v)'
  BY <1>4, <1>a, <1>i DEF Renew, Renewed, Running
<1>5. ASSUME NEW w \in Worker, Prolong(w)
      PROVE  doomed' = {} /\ \A v \in Worker : Renewed(v)'
  BY <1>5, <1>a, <1>i DEF Prolong, Renewed, Running
<1>6. ASSUME NEW w \in Worker,
             Release(w) \/ Delete(w) \/ ReleaseEnd(w) \/ Disconnect(w) \/ StopEnd(w) \/ RenewFails(w)
      PROVE  FALSE
  BY <1>6, <1>f, <1>i
  DEF Release, Delete, ReleaseEnd, Disconnect, StopEnd, RenewFails, Renewed
<1>7. ASSUME NEW w \in Worker, Exit(w)
      PROVE  doomed' = {} /\ \A v \in Worker : Renewed(v)'
  BY <1>7, <1>a, <1>i DEF Exit, Gone, Renewed, Running
<1>8. CASE ClearDelete
  BY <1>8, <1>i DEF ClearDelete
<1>9. CASE Tick
  BY <1>9, <1>i DEF Tick, Renewed
<1>10. CASE UNCHANGED vars
  BY <1>10, <1>i DEF vars, Renewed, Running
<1>11. QED
  BY <1>f, <1>1, <1>2, <1>3, <1>4, <1>5, <1>6, <1>7, <1>8, <1>9, <1>10
  DEF Next, Live, Shutdown, Stop, Crash, ClearScan

\* The lifetime of a claim is two sleeps of the renewal loop (worker.py:391, 402): as long as
\* every pass ends in its period and nothing fails, stops or resets, a worker whose loops run
\* loses none of the claims it has.
THEOREM OnTimeKeepsClaims == Spec => RunningKeepsClaims
<1> DEFINE Keeps == \A w \in Worker, p \in Phone :
                      /\ pc[w] \in {"run", "renew"} /\ p \in claimed[w] /\ owner[p] = w
                      /\ incidents' = 0
                      => owner'[p] = w
<1>1. Init => TypeOK /\ RenewedInv
  BY InitType DEF Init, RenewedInv, Renewed, Running
<1>2. TypeOK /\ RenewedInv /\ [Next]_vars => (TypeOK /\ RenewedInv)'
  BY NextType, NextRenewed
<1>3. TypeOK /\ RenewedInv /\ [Next]_vars => [Keeps]_vars
  <2> SUFFICES ASSUME TypeOK, RenewedInv, Next, NEW w \in Worker, NEW p \in Phone,
                      Running(w), p \in claimed[w], owner[p] = w, incidents' = 0
               PROVE  owner'[p] = w
    BY DEF Running
  <2> USE ClaimsAssumption DEF TypeOK, keys, main, stopping
  <2>1. incidents = 0
    BY DEF Incident, Next, Live, Shutdown, Start, FindUnclaimed, Claim, ClaimEnd, Connect,
           ConnectEnd, RenewBegin, Renew, Prolong, Release, Delete, ReleaseEnd, Disconnect, StopEnd,
           Exit, RenewFails, Stop, Crash, ClearScan, ClearDelete, Tick
  <2>2. doomed = {} /\ \A v \in Worker : Renewed(v)
    BY <2>1 DEF RenewedInv
  <2>3. ASSUME NEW v \in Worker, Claim(v) PROVE owner'[p] = w
    BY <2>3 DEF Claim, SetClaim
  <2>4. CASE Tick
    <3>1. OnTime(w) /\ stop[w] = "no"
      BY <2>1, <2>2, <2>4 DEF Tick, Incident, Renewed
    <3>2. pc[w] = "run" /\ fresh[w] /\ todo[w] = {}
      BY <3>1 DEF OnTime, Redis, Running
    <3>3. ttl[p] = Ttl
      BY <2>2, <3>2 DEF Renewed, Running
    <3>4. QED
      BY <2>4, <3>3 DEF Tick, Vanish
  <2>5. CASE ClearDelete \/ \E v \in Worker : Delete(v)
    BY <2>2, <2>5 DEF ClearDelete, Delete, Renewed
  <2>6. CASE owner' = owner
    BY <2>6
  <2>7. (\A v \in Worker : ~Delete(v) /\ ~Claim(v)) /\ ~ClearDelete /\ ~Tick => owner' = owner
    BY DEF Next, Live, Shutdown, Start, FindUnclaimed, ClaimEnd, Connect, ConnectEnd, RenewBegin,
           Renew, Prolong, Release, ReleaseEnd, Disconnect, StopEnd, Exit, Gone, RenewFails, Stop,
           Crash, ClearScan
  <2>8. QED
    BY <2>3, <2>4, <2>5, <2>6, <2>7
<1>4. QED
  BY <1>1, <1>2, <1>3, PTL DEF Spec, RunningKeepsClaims
=============================================================================

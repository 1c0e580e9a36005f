------------------------------ MODULE FarmProofs ------------------------------
(***************************************************************************)
(* Theorems about Farm, for any callers, orchestrators, rows and bounds.   *)
(***************************************************************************)
EXTENDS Farm, TLAPS

\* What a call's label says about its locals.
CallOK(c) ==
  /\ at[c] = "idle" <=> op[c] = None
  /\ Active(c) => orch[c] \in Orch
  /\ at[c] \in {"idle", "find"} => mine[c] = None
  /\ at[c] = "find" => op[c] # "start"
  /\ at[c] = "spawn" => op[c] = "start"
  /\ at[c] \in {"wait", "forget"} => op[c] = "stop"
  /\ op[c] = "start" => at[c] \in {"mark", "spawn"}
  /\ at[c] \in {"wait", "forget"} \/ op[c] = "start" => mine[c] # None

TypeInv == TypeOK /\ \A c \in Caller : CallOK(c)

LEMMA InitTypeInv == Init => TypeInv
<1> SUFFICES ASSUME Init PROVE TypeInv
  OBVIOUS
<1>1. TypeOK
  <2>1. 0 \in 0..MaxStarts /\ 0 \in 0..MaxCalls
    BY FarmAssumption
  <2>2. /\ registry \in [Orch -> (SUBSET Runner) \union {None}] /\ farm \in {"stopped", "running", "paused"}
        /\ starts \in 0..MaxStarts /\ calls \in 0..MaxCalls
        /\ halted \in 0..MaxStarts
    <3>1. registry \in [Orch -> (SUBSET Runner) \union {None}]
      BY ONLY Init DEF Init
    <3>2. QED
      BY <2>1, <3>1 DEF Init
  <2>3. /\ at \in [Caller -> {"idle", "find", "wait", "mark", "spawn", "forget"}]
        /\ op \in [Caller -> Op \union {None}]
        /\ orch \in [Caller -> Orch \union {None}]
        /\ mine \in [Caller -> (SUBSET Runner) \union {None}]
    BY ONLY Init DEF Init
  <2>4. /\ pc \in [Runner -> {"none", "join", "top", "post", "compose", "send", "edit", "ended"}]
        /\ stopped \in [Runner -> BOOLEAN] /\ paused \in [Runner -> BOOLEAN]
        /\ cancelled \in [Runner -> BOOLEAN] /\ mode \in [Runner -> {"work", "rest"}]
        /\ rest \in [Runner -> {"none", "ordered", "swallowed"}] /\ extra \in [Runner -> Nat]
    BY ONLY Init DEF Init
  <2>5. QED
    BY <2>2, <2>3, <2>4 DEF TypeOK
<1>2. \A c \in Caller : CallOK(c)
  BY NoneAssumption DEF Init, CallOK, Active, Op
<1>3. QED
  BY <1>1, <1>2 DEF TypeInv

\* A runner's step leaves the calls alone.
LEMMA RunnerTypes ==
  ASSUME TypeInv, NEW r \in Runner, Work(r) \/ Interrupt(r) \/ RestOver(r) \/ Fail(r)
  PROVE  TypeInv'
<1>o. UNCHANGED Others
  BY DEF Work, Join, Top, Post, Compose, Send, Edit, Flooded, OrderRest, RestOver, Fail, Interrupt, Finish
<1>1. \A c \in Caller : CallOK(c)'
  BY <1>o DEF TypeInv, CallOK, Active, Others, call
<1>2. TypeOK'
  <2>1. ASSUME Finish(r) PROVE TypeOK'
    BY <2>1, <1>o DEF Finish, Move, Others, call, TypeInv, TypeOK
  <2>2. CASE Join(r) \/ Top(r)
    BY <2>1, <2>2, <1>o DEF Join, Top, Move, Others, call, TypeInv, TypeOK
  <2>3. CASE Post(r) \/ Compose(r) \/ Send(r) \/ Edit(r)
    BY <2>3, <1>o DEF Post, Compose, Send, Edit, Swallow, Published, Move, Others, call, TypeInv, TypeOK
  <2>4. CASE Flooded(r) \/ RestOver(r)
    BY <2>4, <1>o DEF Flooded, OrderRest, Published, RestOver, Move, Others, call, TypeInv, TypeOK
  <2>5. CASE Interrupt(r) \/ Fail(r)
    BY <2>1, <2>5 DEF Interrupt, Fail
  <2>6. QED
    BY <2>2, <2>3, <2>4, <2>5 DEF Work
<1>3. QED
  BY <1>1, <1>2 DEF TypeInv

LEMMA NextTypeInv == TypeInv /\ [Next]_vars => TypeInv'
<1> SUFFICES ASSUME TypeInv, [Next]_vars PROVE TypeInv'
  OBVIOUS
<1> USE FarmAssumption
<1>n. None \notin Op
  BY NoneAssumption
\* A call changes its own locals only.
<1>a. ASSUME NEW c \in Caller, TypeOK', CallOK(c)',
             \A d \in Caller \ {c} : /\ at'[d] = at[d] /\ op'[d] = op[d]
                                     /\ orch'[d] = orch[d] /\ mine'[d] = mine[d]
      PROVE  TypeInv'
  BY <1>a DEF TypeInv, CallOK, Active
<1>b. ASSUME NEW c \in Caller, Return(c)
      PROVE  /\ at' \in [Caller -> {"idle", "find", "wait", "mark", "spawn", "forget"}]
             /\ op' \in [Caller -> Op \union {None}]
             /\ orch' \in [Caller -> Orch \union {None}]
             /\ mine' \in [Caller -> (SUBSET Runner) \union {None}]
             /\ CallOK(c)'
             /\ \A d \in Caller \ {c} : /\ at'[d] = at[d] /\ op'[d] = op[d]
                                        /\ orch'[d] = orch[d] /\ mine'[d] = mine[d]
  <2>1. at'[c] = "idle" /\ op'[c] = None /\ orch'[c] = None /\ mine'[c] = None
    BY <1>b DEF Return, Goto, TypeInv, TypeOK
  <2>2. CallOK(c)'
    <3>1. None # "start"
      BY <1>n DEF Op
    <3>2. QED
      BY ONLY <2>1, <3>1 DEF CallOK, Active
  <2>3. /\ at' \in [Caller -> {"idle", "find", "wait", "mark", "spawn", "forget"}]
        /\ op' \in [Caller -> Op \union {None}]
        /\ orch' \in [Caller -> Orch \union {None}]
        /\ mine' \in [Caller -> (SUBSET Runner) \union {None}]
    BY ONLY <1>b, TypeInv DEF Return, Goto, TypeInv, TypeOK
  <2>4. \A d \in Caller \ {c} : /\ at'[d] = at[d] /\ op'[d] = op[d]
                                 /\ orch'[d] = orch[d] /\ mine'[d] = mine[d]
    BY ONLY <1>b, TypeInv DEF Return, Goto, TypeInv, TypeOK
  <2>5. QED
    BY <2>2, <2>3, <2>4
<1>1. ASSUME NEW c \in Caller, NEW o \in Orch, NEW p \in Op, Call(c, o, p) PROVE TypeInv'
  <2>1. CASE UNCHANGED <<call, starts>>
    BY <1>1, <2>1 DEF Call, call, runner, TypeInv, TypeOK, CallOK, Active
  <2>2. CASE p = "start" /\ Load(c) /\ op' = [op EXCEPT ![c] = p] /\ orch' = [orch EXCEPT ![c] = o]
    <3>1. /\ starts' \in 1..MaxStarts /\ {starts'} \X Row \in SUBSET Runner
          /\ {starts'} \X Row # None
      <4>1. starts' \in 1..MaxStarts
        BY <2>2 DEF Load, TypeInv, TypeOK
      <4>2. {starts'} \X Row \in SUBSET Runner
        BY <4>1 DEF Runner
      <4>3. QED
        BY <4>1, <4>2, NoneAssumption
    <3>2. mine' = [mine EXCEPT ![c] = {starts'} \X Row] /\ Goto(c, "mark")
      BY <2>2 DEF Load
    <3>3. TypeOK'
      BY <1>1, <2>2, <3>1, <3>2 DEF Call, Goto, runner, TypeInv, TypeOK
    <3>4. CallOK(c)'
      BY <1>n, <2>2, <3>1, <3>2 DEF Goto, TypeInv, TypeOK, CallOK, Active, Op
    <3>5. QED
      BY <2>2, <3>2, <3>3, <3>4, <1>a DEF Goto, TypeInv, TypeOK
  <2>3. CASE /\ p # "start" /\ Goto(c, "find") /\ UNCHANGED <<starts, mine>>
             /\ op' = [op EXCEPT ![c] = p] /\ orch' = [orch EXCEPT ![c] = o]
    <3>1. TypeOK'
      BY <1>1, <2>3 DEF Call, Goto, runner, TypeInv, TypeOK
    <3>2. CallOK(c)'
      BY <1>n, <1>1, <2>3 DEF Call, Goto, TypeInv, TypeOK, CallOK, Active, Op
    <3>3. QED
      BY <2>3, <3>1, <3>2, <1>a DEF Goto, TypeInv, TypeOK
  <2>4. QED
    BY <1>1, <2>1, <2>2, <2>3 DEF Call
<1>2. ASSUME NEW c \in Caller, Find(c) PROVE TypeInv'
  <2>1. CASE registry[orch[c]] = None /\ op[c] = "stop"
    <3>1. TypeOK'
      BY <1>2, <2>1 DEF Find, Goto, runner, TypeInv, TypeOK
    <3>2. CallOK(c)'
      BY <1>n, <1>2, <2>1 DEF Find, Goto, TypeInv, TypeOK, CallOK, Active, Op
    <3>3. QED
      BY <1>2, <2>1, <3>1, <3>2, <1>a DEF Find, Goto, TypeInv, TypeOK
  <2>2. CASE registry[orch[c]] = None /\ op[c] # "stop"
    <3>1. TypeOK'
      BY <1>2, <2>2, <1>b DEF Find, runner, TypeInv, TypeOK
    <3>2. QED
      BY <1>2, <2>2, <3>1, <1>a, <1>b DEF Find
  <2>3. CASE registry[orch[c]] # None
    <3>1. registry[orch[c]] \in SUBSET Runner /\ registry[orch[c]] # None
      BY <1>2, <2>3 DEF Find, TypeInv, TypeOK, CallOK, Active
    <3>2. TypeOK'
      <4>1. /\ stopped' \in [Runner -> BOOLEAN] /\ paused' \in [Runner -> BOOLEAN]
            /\ extra' \in [Runner -> Nat]
        <5>1. Signal(op[c], {r \in registry[orch[c]] : ~Ended(r)})
          BY <1>2, <2>3 DEF Find
        <5>2. QED
          BY <5>1 DEF Signal, TypeInv, TypeOK
      <4>2. /\ at' \in [Caller -> {"idle", "find", "wait", "mark", "spawn", "forget"}]
            /\ mine' \in [Caller -> (SUBSET Runner) \union {None}]
        BY <1>2, <2>3, <3>1 DEF Find, Goto, TypeInv, TypeOK
      <4>3. /\ UNCHANGED <<op, orch, pc, cancelled, mode, rest, registry, farm, starts, calls>>
            /\ halted' \in {starts, halted}
        BY <1>2, <2>3 DEF Find
      <4>4. QED
        BY <4>1, <4>2, <4>3 DEF TypeInv, TypeOK
    <3>3. CallOK(c)'
      BY <1>2, <3>1 DEF Find, Goto, TypeInv, TypeOK, CallOK, Active, Op
    <3>4. QED
      BY <1>2, <2>3, <3>2, <3>3, <1>a DEF Find, Goto, TypeInv, TypeOK
  <2>4. QED
    BY <2>1, <2>2, <2>3
<1>3. ASSUME NEW c \in Caller, Wait(c) PROVE TypeInv'
  <2>1. TypeOK'
    BY <1>3 DEF Wait, Goto, TypeInv, TypeOK
  <2>2. CallOK(c)'
    BY <1>3 DEF Wait, Goto, TypeInv, TypeOK, CallOK, Active
  <2>3. QED
    BY <1>3, <2>1, <2>2, <1>a DEF Wait, Goto, TypeInv, TypeOK
<1>4. ASSUME NEW c \in Caller, Mark(c) PROVE TypeInv'
  <2>1. farm' \in {"stopped", "running", "paused"}
    BY <1>4 DEF Mark, StatusAfter
  <2>2. CASE Return(c)
    <3>1. TypeOK'
      BY <1>4, <2>1, <2>2, <1>b DEF Mark, runner, TypeInv, TypeOK
    <3>2. QED
      BY <2>2, <3>1, <1>a, <1>b
  <2>3. CASE op[c] = "start" /\ Goto(c, "spawn") /\ UNCHANGED <<op, orch, mine>>
    <3>1. TypeOK'
      BY <1>4, <2>1, <2>3 DEF Mark, Goto, runner, TypeInv, TypeOK
    <3>2. CallOK(c)'
      BY <1>4, <2>3 DEF Mark, Goto, TypeInv, TypeOK, CallOK, Active, Op
    <3>3. QED
      BY <2>3, <3>1, <3>2, <1>a DEF Goto, TypeInv, TypeOK
  <2>4. CASE op[c] = "stop" /\ mine[c] # None /\ Goto(c, "forget") /\ UNCHANGED <<op, orch, mine>>
    <3>1. TypeOK'
      BY <1>4, <2>1, <2>4 DEF Mark, Goto, runner, TypeInv, TypeOK
    <3>2. CallOK(c)'
      BY <1>4, <2>4 DEF Mark, Goto, TypeInv, TypeOK, CallOK, Active, Op
    <3>3. QED
      BY <2>4, <3>1, <3>2, <1>a DEF Goto, TypeInv, TypeOK
  <2>5. QED
    BY <1>4, <2>2, <2>3, <2>4 DEF Mark
<1>5. ASSUME NEW c \in Caller, Spawn(c) PROVE TypeInv'
  <2>1. mine[c] \in SUBSET Runner /\ orch[c] \in Orch
    BY <1>5 DEF Spawn, TypeInv, TypeOK, CallOK, Active
  <2>2. TypeOK'
    <3>1. registry' \in [Orch -> (SUBSET Runner) \union {None}]
      BY <1>5, <2>1 DEF Spawn, TypeInv, TypeOK
    <3>2. pc' \in [Runner -> {"none", "join", "top", "post", "compose", "send", "edit", "ended"}]
      BY <1>5 DEF Spawn, TypeInv, TypeOK
    <3>3. Return(c) /\ UNCHANGED <<farm, starts, calls, stopped, paused, cancelled, mode, rest, extra, halted>>
      BY <1>5 DEF Spawn
    <3>4. QED
      BY <3>1, <3>2, <3>3, <1>b DEF TypeInv, TypeOK
  <2>3. QED
    BY <1>5, <2>2, <1>a, <1>b DEF Spawn
<1>6. ASSUME NEW c \in Caller, Forget(c) \/ Raise(c) PROVE TypeInv'
  <2>1. TypeOK'
    <3>1. registry' \in [Orch -> (SUBSET Runner) \union {None}]
      BY <1>6 DEF Forget, Raise, TypeInv, TypeOK
    <3>2. Return(c) /\ UNCHANGED <<farm, starts, calls, runner>> /\ halted' \in {0, halted}
      BY <1>6 DEF Forget, Raise
    <3>3. QED
      BY <3>1, <3>2, <1>b DEF runner, TypeInv, TypeOK
  <2>2. QED
    BY <1>6, <2>1, <1>a, <1>b DEF Forget, Raise
<1>7. CASE UNCHANGED vars
  BY <1>7 DEF vars, call, runner, TypeInv, TypeOK, CallOK, Active
<1>8. CASE Job
  BY <1>8 DEF Job, call, runner, TypeInv, TypeOK, CallOK, Active
<1>9. QED
  BY <1>1, <1>2, <1>3, <1>4, <1>5, <1>6, <1>7, <1>8, RunnerTypes DEF Next, Proceed

\* The variables keep their types.
THEOREM TypeCorrect == Spec => []TypeOK
<1>1. Spec => []TypeInv
  BY InitTypeInv, NextTypeInv, PTL DEF Spec
<1>2. TypeInv => TypeOK
  BY DEF TypeInv
<1>3. QED
  BY <1>1, <1>2, PTL

-----------------------------------------------------------------------------
(* What a runner may have sent *)

\* Runners are made once: those of a start are not running, those found in an entry have been.
NumberInv ==
  /\ \A c \in Caller : op[c] = "start" => \A r \in mine[c] : pc[r] = "none" /\ r[1] <= starts
  /\ \A c, d \in Caller : op[c] = "start" /\ op[d] = "start" /\ c # d => \A r \in mine[c] : r \notin mine[d]
  /\ \A r \in Runner : r[1] > starts => pc[r] = "none"
  /\ \A c \in Caller : op[c] # "start" /\ mine[c] # None => \A r \in mine[c] : pc[r] # "none"
  /\ \A o \in Orch : registry[o] # None => \A r \in registry[o] : pc[r] # "none"

\* A runner that was told to be quiet and has sent its last comment is past the text, or will
\* find its stop event set.
RunnerOK(r) ==
  /\ pc[r] \in {"none", "ended"} => /\ ~stopped[r] /\ ~paused[r] /\ ~cancelled[r]
                                    /\ mode[r] = "work" /\ rest[r] = "none" /\ extra[r] = 0
  /\ extra[r] \in {0, 1}
  /\ extra[r] = 1 => Quiet(r) /\ pc[r] \notin {"send", "edit"} /\ (pc[r] = "compose" => stopped[r])
  /\ rest[r] = "ordered" => mode[r] = "rest" /\ pc[r] = "top"

SafeInv == TypeInv /\ NumberInv /\ (\A r \in Runner : RunnerOK(r)) /\ StopHoldsOn

LEMMA InitSafeInv == Init => SafeInv
<1> SUFFICES ASSUME Init PROVE SafeInv
  OBVIOUS
<1>1. NumberInv
  BY NoneAssumption DEF Init, NumberInv, Op
<1>2. \A r \in Runner : RunnerOK(r)
  BY DEF Init, RunnerOK, Quiet
<1>3. StopHoldsOn
  BY DEF Init, StopHoldsOn
<1>4. QED
  BY <1>1, <1>2, <1>3, InitTypeInv DEF SafeInv

\* A runner's step: it was running, it changes nothing of another, and it is not revived.
LEMMA RunnerStep ==
  ASSUME TypeInv, NEW r \in Runner, RunnerOK(r), Work(r) \/ Interrupt(r) \/ RestOver(r) \/ Fail(r)
  PROVE  /\ UNCHANGED Others
         /\ RunnerOK(r)'
         /\ pc[r] \notin {"none", "ended"} /\ pc'[r] # "none"
         /\ Working(r)' => Working(r)
         /\ stopped'[r] => stopped[r]
         /\ \A s \in Runner \ {r} : /\ pc'[s] = pc[s] /\ stopped'[s] = stopped[s] /\ paused'[s] = paused[s]
                                    /\ cancelled'[s] = cancelled[s] /\ mode'[s] = mode[s]
                                    /\ rest'[s] = rest[s] /\ extra'[s] = extra[s]
<1>t. TypeOK
  BY DEF TypeInv
<1>o. UNCHANGED Others
  BY DEF Work, Join, Top, Post, Compose, Send, Edit, Flooded, OrderRest, RestOver, Fail, Interrupt, Finish
<1>p. pc[r] \notin {"none", "ended"}
  BY DEF Work, Join, Top, Post, Compose, Send, Edit, Flooded, RestOver, Fail, Interrupt, At, RunnerOK
<1> DEFINE Same(s) == /\ pc'[s] = pc[s] /\ stopped'[s] = stopped[s] /\ paused'[s] = paused[s]
                      /\ cancelled'[s] = cancelled[s] /\ mode'[s] = mode[s]
                      /\ rest'[s] = rest[s] /\ extra'[s] = extra[s]
           Result == /\ RunnerOK(r)' /\ pc'[r] # "none"
                     /\ (Working(r)' => Working(r)) /\ (stopped'[r] => stopped[r])
                     /\ \A s \in Runner \ {r} : Same(s)
<1>1. ASSUME Finish(r) PROVE Result
  BY <1>1, <1>t DEF Finish, Move, RunnerOK, Quiet, Working, TypeOK
<1>2. ASSUME (Join(r) \/ Top(r)) /\ ~Finish(r) PROVE Result
  BY <1>2, <1>t DEF Join, Top, At, Move, RunnerOK, Quiet, Working, TypeOK
<1>3. ASSUME Post(r) \/ Compose(r) PROVE Result
  BY <1>3, <1>t DEF Post, Compose, Swallow, At, Move, RunnerOK, Quiet, Working, TypeOK
<1>4. ASSUME Send(r) \/ Edit(r) PROVE Result
  BY <1>4, <1>t DEF Send, Edit, Swallow, Published, At, Move, RunnerOK, Quiet, Working, TypeOK
<1>5. ASSUME Flooded(r) \/ RestOver(r) PROVE Result
  BY <1>5, <1>t DEF Flooded, OrderRest, Published, RestOver, At, Move, RunnerOK, Quiet, Working, TypeOK
<1> HIDE DEF Result
<1>6. ASSUME Interrupt(r) \/ Fail(r) PROVE Result
  BY <1>1, <1>6 DEF Interrupt, Fail
<1>7. Result
  BY <1>1, <1>2, <1>3, <1>4, <1>5, <1>6 DEF Work
<1>8. QED
  BY <1>7, <1>o, <1>p DEF Result

\* Its effect on the invariant.
LEMMA RunnerSafe ==
  ASSUME SafeInv, NEW r \in Runner, Work(r) \/ Interrupt(r) \/ RestOver(r) \/ Fail(r)
  PROVE  SafeInv'
<1>1. TypeInv'
  BY RunnerTypes DEF SafeInv
<1>2. /\ UNCHANGED Others
      /\ RunnerOK(r)'
      /\ pc[r] \notin {"none", "ended"} /\ pc'[r] # "none"
      /\ Working(r)' => Working(r)
      /\ stopped'[r] => stopped[r]
      /\ \A s \in Runner \ {r} : /\ pc'[s] = pc[s] /\ stopped'[s] = stopped[s] /\ paused'[s] = paused[s]
                                 /\ cancelled'[s] = cancelled[s] /\ mode'[s] = mode[s]
                                 /\ rest'[s] = rest[s] /\ extra'[s] = extra[s]
  BY RunnerStep DEF SafeInv
<1>3. \A s \in Runner : pc'[s] = "none" <=> pc[s] = "none"
  BY <1>2
<1>4. /\ \A c \in Caller : mine[c] # None => mine[c] \in SUBSET Runner
      /\ \A o \in Orch : registry[o] # None => registry[o] \in SUBSET Runner
      /\ \A c \in Caller : op[c] = "start" => mine[c] # None
  BY DEF SafeInv, TypeInv, TypeOK, CallOK
<1>5. NumberInv'
  BY <1>2, <1>3, <1>4 DEF Others, call, SafeInv, NumberInv
<1>6. \A s \in Runner : RunnerOK(s)'
  BY <1>2 DEF SafeInv, RunnerOK, Quiet
<1>7. StopHoldsOn'
  BY <1>2 DEF Others, call, SafeInv, StopHoldsOn, Working
<1>8. QED
  BY <1>1, <1>5, <1>6, <1>7 DEF SafeInv

\* What the types say of the runners a call and an entry name.
LEMMA Named ==
  ASSUME TypeInv
  PROVE  /\ \A c \in Caller : mine[c] # None => mine[c] \in SUBSET Runner
         /\ \A o \in Orch : registry[o] # None => registry[o] \in SUBSET Runner
         /\ \A c \in Caller : op[c] = "start" \/ at[c] \in {"wait", "forget"} => mine[c] \in SUBSET Runner
         /\ \A c \in Caller : Active(c) => orch[c] \in Orch
BY DEF TypeInv, TypeOK, CallOK

\* A return clears the call's locals.
LEMMA Returned ==
  ASSUME TypeInv, NEW c \in Caller, Return(c)
  PROVE  /\ at'[c] = "idle" /\ op'[c] = None /\ orch'[c] = None /\ mine'[c] = None
         /\ None # "start" /\ None # "stop"
         /\ \A d \in Caller \ {c} : /\ at'[d] = at[d] /\ op'[d] = op[d]
                                    /\ orch'[d] = orch[d] /\ mine'[d] = mine[d]
<1>1. None # "start" /\ None # "stop"
  BY NoneAssumption DEF Op
<1>2. QED
  BY <1>1 DEF Return, Goto, TypeInv, TypeOK

\* A step of a call that neither signals nor creates runners, and keeps those it has found.
LEMMA QuietCallSafe ==
  ASSUME SafeInv, TypeInv', NEW c \in Caller, UNCHANGED <<runner, starts>>,
         at[c] # "wait",
         \A o \in Orch : registry'[o] = registry[o] \/ registry'[o] = None,
         op'[c] = "start" => op[c] = "start" /\ mine'[c] = mine[c],
         op'[c] # "start" => (mine'[c] = mine[c] /\ op[c] # "start") \/ mine'[c] = None,
         \A d \in Caller \ {c} : at'[d] = at[d] /\ op'[d] = op[d] /\ mine'[d] = mine[d]
  PROVE  SafeInv'
<1>1. NumberInv'
  <2>1. UNCHANGED <<pc, starts>>
    BY DEF runner
  <2>2. QED
    BY <2>1 DEF SafeInv, NumberInv
<1>2. \A r \in Runner : RunnerOK(r)'
  BY DEF runner, SafeInv, RunnerOK, Quiet
<1>3. StopHoldsOn'
  BY DEF runner, SafeInv, StopHoldsOn, Working
<1>4. QED
  BY <1>1, <1>2, <1>3 DEF SafeInv

LEMMA CallSafe ==
  ASSUME SafeInv, TypeInv', NEW c \in Caller, NEW o \in Orch, NEW p \in Op, Call(c, o, p)
  PROVE  SafeInv'
<1>t. TypeInv /\ TypeOK /\ mine[c] = None /\ op[c] = None /\ at[c] = "idle"
  BY DEF Call, SafeInv, TypeInv, CallOK, Active
<1>n. None # "start"
  BY NoneAssumption DEF Op
<1>1. CASE UNCHANGED <<call, starts>>
  <2>1. UNCHANGED <<at, op, mine, registry, runner, starts>>
    BY <1>1 DEF Call, call
  <2>2. QED
    BY <1>t, <1>n, <2>1, QuietCallSafe
<1>2. CASE p # "start" /\ Goto(c, "find") /\ UNCHANGED <<starts, mine>> /\ op' = [op EXCEPT ![c] = p]
  <2>1. UNCHANGED <<registry, runner, starts>> /\ mine'[c] = None /\ op'[c] # "start"
    BY <1>2, <1>t DEF Call, TypeOK
  <2>2. \A d \in Caller \ {c} : at'[d] = at[d] /\ op'[d] = op[d] /\ mine'[d] = mine[d]
    BY <1>2, <1>t DEF Goto, TypeOK
  <2>3. QED
    BY <1>t, <2>1, <2>2, QuietCallSafe
<1>3. CASE p = "start" /\ Load(c) /\ op' = [op EXCEPT ![c] = p]
  <2>1. /\ starts' = starts + 1 /\ starts \in Nat /\ op'[c] = "start"
        /\ mine'[c] = {starts'} \X Row /\ mine'[c] \in SUBSET Runner
        /\ \A d \in Caller \ {c} : at'[d] = at[d] /\ op'[d] = op[d] /\ mine'[d] = mine[d]
    <3>1. starts' = starts + 1 /\ starts \in Nat /\ starts' \in 1..MaxStarts
      BY <1>3, <1>t, FarmAssumption DEF Load, TypeOK
    <3>2. {starts'} \X Row \in SUBSET Runner
      BY <3>1 DEF Runner
    <3>3. QED
      BY <1>3, <1>t, <3>1, <3>2 DEF Load, Goto, TypeOK
  <2>2. UNCHANGED <<registry, pc, stopped, paused, cancelled, mode, rest, extra>>
    BY DEF Call, runner
  <2>3. \A r \in Runner : r[1] \in Nat
    BY DEF Runner
  <2>4. \A r \in mine'[c] : r \in Runner /\ r[1] = starts + 1
    BY <2>1
  <2>5. NumberInv'
    <3>1. \A d \in Caller : op'[d] = "start" => \A r \in mine'[d] : pc'[r] = "none" /\ r[1] <= starts'
      <4>1. \A r \in mine'[c] : pc'[r] = "none" /\ r[1] <= starts'
        BY <2>1, <2>2, <2>3, <2>4 DEF SafeInv, NumberInv
      <4>2. ASSUME NEW d \in Caller \ {c}, op'[d] = "start", NEW r \in mine'[d]
            PROVE  pc'[r] = "none" /\ r[1] <= starts'
        <5>1. r \in Runner /\ pc[r] = "none" /\ r[1] <= starts
          BY <4>2, <2>1, <1>t, Named DEF SafeInv, NumberInv
        <5>2. QED
          BY <5>1, <2>1, <2>2, <2>3
      <4>3. QED
        BY <4>1, <4>2
    <3>2. ASSUME NEW d \in Caller \ {c}, op'[d] = "start", NEW r \in mine'[d] PROVE r \notin mine'[c]
      <4>1. r \in Runner /\ r[1] <= starts
        BY <3>2, <2>1, <1>t, Named DEF SafeInv, NumberInv
      <4>2. QED
        BY <4>1, <2>1, <2>3, <2>4
    <3>3. ASSUME NEW d \in Caller, NEW e \in Caller, op'[d] = "start", op'[e] = "start", d # e, NEW r \in mine'[d]
          PROVE  r \notin mine'[e]
      <4>1. CASE d # c /\ e # c
        BY <3>3, <4>1, <2>1 DEF SafeInv, NumberInv
      <4>2. CASE e = c
        BY <3>3, <4>2, <3>2
      <4>3. CASE d = c
        BY <3>3, <4>3, <3>2
      <4>4. QED
        BY <4>1, <4>2, <4>3
    <3>4. \A r \in Runner : r[1] > starts' => pc'[r] = "none"
      BY <2>1, <2>2, <2>3 DEF SafeInv, NumberInv
    <3>5. \A d \in Caller : op'[d] # "start" /\ mine'[d] # None => \A r \in mine'[d] : pc'[r] # "none"
      BY <2>1, <2>2 DEF SafeInv, NumberInv
    <3>6. \A x \in Orch : registry'[x] # None => \A r \in registry'[x] : pc'[r] # "none"
      BY <2>2 DEF SafeInv, NumberInv
    <3>7. QED
      BY <3>1, <3>3, <3>4, <3>5, <3>6 DEF NumberInv
  <2>6. \A r \in Runner : RunnerOK(r)'
    BY <2>2 DEF SafeInv, RunnerOK, Quiet
  <2>7. StopHoldsOn'
    BY <1>t, <2>1, <2>2 DEF SafeInv, StopHoldsOn, Working
  <2>8. QED
    BY <2>5, <2>6, <2>7 DEF SafeInv
<1>4. QED
  BY <1>1, <1>2, <1>3 DEF Call

LEMMA FindSafe ==
  ASSUME SafeInv, TypeInv', NEW c \in Caller, Find(c)
  PROVE  SafeInv'
<1>t. TypeInv /\ TypeOK /\ mine[c] = None /\ op[c] # "start" /\ at[c] = "find" /\ orch[c] \in Orch
  BY DEF Find, SafeInv, TypeInv, CallOK, Active
<1>1. CASE registry[orch[c]] = None
  <2>1. UNCHANGED <<runner, starts, registry>>
    BY <1>1 DEF Find
  <2>2. op'[c] # "start" /\ mine'[c] = None
    BY <1>1, <1>t, Returned DEF Find
  <2>3. \A d \in Caller \ {c} : at'[d] = at[d] /\ op'[d] = op[d] /\ mine'[d] = mine[d]
    BY <1>1, <1>t, Returned DEF Find, Goto, TypeOK
  <2>4. QED
    BY <1>t, <2>1, <2>2, <2>3, QuietCallSafe
<1>2. CASE registry[orch[c]] # None
  <2> DEFINE entry == registry[orch[c]]
  <2>1. /\ Signal(op[c], {r \in entry : ~Ended(r)})
        /\ UNCHANGED <<registry, op, pc, cancelled, mode, rest, starts>>
        /\ mine'[c] = entry /\ (op[c] = "stop" => at'[c] = "wait")
        /\ \A d \in Caller \ {c} : at'[d] = at[d] /\ mine'[d] = mine[d]
    BY <1>2, <1>t DEF Find, Goto, TypeOK
  <2>2. entry \in SUBSET Runner /\ \A r \in entry : pc[r] # "none"
    BY <1>2, <1>t, Named DEF SafeInv, NumberInv
  <2>3. NumberInv'
    BY <1>t, <2>1, <2>2 DEF SafeInv, NumberInv
  <2>4. ASSUME NEW r \in Runner PROVE RunnerOK(r)'
    <3>1. CASE r \notin entry \/ Ended(r)
      <4>1. stopped'[r] = stopped[r] /\ paused'[r] = paused[r] /\ extra'[r] = extra[r]
        BY <2>1, <3>1, <1>t DEF Signal, TypeOK
      <4>2. QED
        BY <2>1, <4>1 DEF SafeInv, RunnerOK, Quiet
    <3>2. CASE r \in entry /\ ~Ended(r)
      <4>1. /\ stopped'[r] = (stopped[r] \/ op[c] = "stop") /\ paused'[r] = (op[c] = "pause")
            /\ extra'[r] = IF ~Quiet(r) \/ (op[c] = "resume" /\ ~stopped[r]) THEN 0 ELSE extra[r]
        BY <2>1, <3>2 DEF Signal
      <4>2. op[c] \in {"stop", "pause", "resume"}
        BY <1>t DEF TypeInv, TypeOK, CallOK, Op
      <4>3. pc[r] \notin {"none", "ended"} /\ UNCHANGED <<pc, mode, rest>>
        BY <2>1, <2>2, <3>2 DEF Ended
      <4>4. /\ extra'[r] \in {0, 1}
            /\ extra'[r] = 1 => extra[r] = 1 /\ Quiet(r)' /\ (stopped[r] => stopped'[r])
        <5>1. extra[r] \in {0, 1} /\ stopped[r] \in BOOLEAN /\ paused[r] \in BOOLEAN
          BY <1>t DEF SafeInv, RunnerOK, TypeOK
        <5>2. QED
          BY <4>1, <4>2, <5>1 DEF Quiet
      <4>5. QED
        BY <4>3, <4>4 DEF SafeInv, RunnerOK
    <3>3. QED
      BY <3>1, <3>2
  <2>5. StopHoldsOn'
    <3>1. ASSUME NEW r \in Runner, stopped'[r], Working(r)'
          PROVE  \E d \in Caller : at'[d] = "wait" /\ r \in mine'[d]
      <4>1. Working(r)
        BY <2>1, <3>1 DEF Working
      <4>2. CASE stopped[r]
        <5>1. PICK d \in Caller : at[d] = "wait" /\ r \in mine[d]
          BY <4>1, <4>2 DEF SafeInv, StopHoldsOn
        <5>2. QED
          BY <1>t, <2>1, <5>1
      <4>3. CASE ~stopped[r]
        <5>1. op[c] = "stop" /\ r \in entry
          BY <2>1, <3>1, <4>3 DEF Signal
        <5>2. QED
          BY <2>1, <5>1
      <4>4. QED
        BY <4>2, <4>3
    <3>2. QED
      BY <3>1 DEF StopHoldsOn
  <2>6. QED
    BY <2>3, <2>4, <2>5 DEF SafeInv
<1>3. QED
  BY <1>1, <1>2

LEMMA WaitSafe ==
  ASSUME SafeInv, TypeInv', NEW c \in Caller, Wait(c)
  PROVE  SafeInv'
<1>t. TypeInv /\ TypeOK /\ op[c] = "stop" /\ at[c] = "wait" /\ mine[c] \in SUBSET Runner /\ mine[c] # None
  BY Named DEF Wait, SafeInv, TypeInv, CallOK
<1>1. /\ cancelled' = [r \in Runner |-> cancelled[r] \/ (r \in mine[c] /\ ~Ended(r))]
      /\ UNCHANGED <<registry, op, mine, starts, pc, stopped, paused, mode, rest, extra>>
      /\ \A d \in Caller \ {c} : at'[d] = at[d]
  BY <1>t DEF Wait, Goto, TypeOK
<1>2. NumberInv'
  BY <1>1 DEF SafeInv, NumberInv
<1>3. ASSUME NEW r \in Runner PROVE RunnerOK(r)'
  <2>1. r \in mine[c] => pc[r] # "none"
    BY <1>t DEF SafeInv, NumberInv
  <2>2. QED
    BY <1>1, <2>1 DEF SafeInv, RunnerOK, Quiet, Ended
<1>4. ASSUME NEW r \in Runner, stopped'[r], Working(r)'
      PROVE  \E d \in Caller : at'[d] = "wait" /\ r \in mine'[d]
  <2>1. stopped[r] /\ Working(r) /\ r \notin mine[c]
    BY <1>1, <1>4 DEF Working, Ended
  <2>2. PICK d \in Caller : at[d] = "wait" /\ r \in mine[d]
    BY <2>1 DEF SafeInv, StopHoldsOn
  <2>3. QED
    BY <1>1, <2>1, <2>2
<1>5. QED
  BY <1>2, <1>3, <1>4 DEF SafeInv, StopHoldsOn

LEMMA MarkSafe ==
  ASSUME SafeInv, TypeInv', NEW c \in Caller, Mark(c) \/ Forget(c) \/ Raise(c)
  PROVE  SafeInv'
<1>t. TypeInv /\ TypeOK
  BY DEF SafeInv, TypeInv
<1>1. UNCHANGED <<runner, starts>> /\ at[c] # "wait"
  BY DEF Mark, Forget, Raise
<1>2. \A o \in Orch : registry'[o] = registry[o] \/ registry'[o] = None
  BY <1>t DEF Mark, Forget, Raise, TypeOK
<1>3. \/ Return(c)
      \/ /\ Goto(c, "spawn") \/ Goto(c, "forget")
         /\ UNCHANGED <<op, orch, mine>>
  BY DEF Mark, Forget, Raise
<1>4. CASE Return(c)
  BY <1>t, <1>1, <1>2, <1>4, Returned, QuietCallSafe
<1>5. CASE (Goto(c, "spawn") \/ Goto(c, "forget")) /\ UNCHANGED <<op, orch, mine>>
  <2>1. \A d \in Caller \ {c} : at'[d] = at[d] /\ op'[d] = op[d] /\ mine'[d] = mine[d]
    BY <1>t, <1>5 DEF Goto, TypeOK
  <2>2. QED
    BY <1>1, <1>2, <1>5, <2>1, QuietCallSafe
<1>6. QED
  BY <1>3, <1>4, <1>5

\* The runners created are new, and no other call has them.
LEMMA SpawnSafe ==
  ASSUME SafeInv, TypeInv', NEW c \in Caller, Spawn(c)
  PROVE  SafeInv'
<1>t. TypeInv /\ TypeOK /\ op[c] = "start" /\ mine[c] \in SUBSET Runner /\ orch[c] \in Orch
  BY Named DEF Spawn, SafeInv, TypeInv, CallOK, Active
<1>1. PICK S \in SUBSET mine[c] : /\ registry' = [registry EXCEPT ![orch[c]] = S]
                                  /\ pc' = [r \in Runner |-> IF r \in S THEN "join" ELSE pc[r]]
  BY DEF Spawn
<1>2. UNCHANGED <<starts, stopped, paused, cancelled, mode, rest, extra>> /\ Return(c)
  BY DEF Spawn
<1>3. \A r \in S : r \in Runner /\ pc[r] = "none" /\ r[1] <= starts
  BY <1>t DEF SafeInv, NumberInv
<1>4. NumberInv'
  <2>1. \A d \in Caller : op'[d] = "start" =>
          d # c /\ op[d] = "start" /\ mine'[d] = mine[d] /\ \A r \in mine[d] : r \in Runner /\ r \notin S
    BY <1>t, <1>2, Returned, Named DEF SafeInv, NumberInv
  <2>2. \A d \in Caller : op'[d] = "start" => \A r \in mine'[d] : pc'[r] = "none" /\ r[1] <= starts'
    BY <1>1, <1>2, <2>1 DEF SafeInv, NumberInv
  <2>3. \A d, e \in Caller : op'[d] = "start" /\ op'[e] = "start" /\ d # e => \A r \in mine'[d] : r \notin mine'[e]
    BY <2>1 DEF SafeInv, NumberInv
  <2>4. \A r \in Runner : r[1] > starts' => pc'[r] = "none"
    <3>1. \A r \in Runner : r[1] \in Nat
      BY DEF Runner
    <3>2. starts \in Nat
      BY <1>t, FarmAssumption DEF TypeOK
    <3>3. QED
      BY <1>1, <1>2, <1>3, <3>1, <3>2 DEF SafeInv, NumberInv
  <2>5. \A r \in Runner : pc[r] # "none" => pc'[r] # "none"
    BY <1>1
  <2>6. ASSUME NEW d \in Caller, op'[d] # "start", mine'[d] # None, NEW r \in mine'[d] PROVE pc'[r] # "none"
    <3>1. d # c /\ op[d] # "start" /\ mine[d] = mine'[d]
      BY <1>t, <1>2, <2>6, Returned
    <3>2. r \in Runner /\ pc[r] # "none"
      BY <1>t, <2>6, <3>1, Named DEF SafeInv, NumberInv
    <3>3. QED
      BY <2>5, <3>2
  <2>7. ASSUME NEW o \in Orch, registry'[o] # None, NEW r \in registry'[o] PROVE pc'[r] # "none"
    <3>1. CASE o = orch[c]
      BY <1>t, <1>1, <1>3, <2>7, <3>1 DEF TypeOK
    <3>2. CASE o # orch[c]
      <4>1. r \in Runner /\ pc[r] # "none"
        BY <1>t, <1>1, <2>7, <3>2, Named DEF SafeInv, NumberInv, TypeOK
      <4>2. QED
        BY <2>5, <4>1
    <3>3. QED
      BY <3>1, <3>2
  <2>8. QED
    BY <2>2, <2>3, <2>4, <2>6, <2>7 DEF NumberInv
<1>5. ASSUME NEW r \in Runner PROVE RunnerOK(r)'
  <2>1. CASE r \in S
    <3>1. pc'[r] = "join"
      BY <1>1, <2>1
    <3>2. QED
      BY <1>2, <1>3, <2>1, <3>1 DEF SafeInv, RunnerOK, Quiet
  <2>2. CASE r \notin S
    BY <1>1, <1>2, <2>2 DEF SafeInv, RunnerOK, Quiet
  <2>3. QED
    BY <2>1, <2>2
<1>6. ASSUME NEW r \in Runner, stopped'[r], Working(r)'
      PROVE  \E d \in Caller : at'[d] = "wait" /\ r \in mine'[d]
  <2>1. r \notin S /\ stopped[r] /\ Working(r)
    BY <1>1, <1>2, <1>3, <1>6 DEF SafeInv, RunnerOK, Working
  <2>2. PICK d \in Caller : at[d] = "wait" /\ r \in mine[d]
    BY <2>1 DEF SafeInv, StopHoldsOn
  <2>3. d # c
    BY <2>2 DEF Spawn
  <2>4. QED
    BY <1>t, <1>2, <2>2, <2>3, Returned
<1>7. QED
  BY <1>4, <1>5, <1>6 DEF SafeInv, StopHoldsOn

LEMMA NextSafeInv == SafeInv /\ [Next]_vars => SafeInv'
<1> SUFFICES ASSUME SafeInv, [Next]_vars PROVE SafeInv'
  OBVIOUS
<1>t. TypeInv'
  BY NextTypeInv DEF SafeInv
<1>1. CASE UNCHANGED vars
  BY <1>t, <1>1 DEF vars, call, runner, SafeInv, NumberInv, RunnerOK, Quiet, StopHoldsOn, Working
<1>j. CASE Job
  BY <1>t, <1>j DEF Job, call, runner, SafeInv, NumberInv, RunnerOK, Quiet, StopHoldsOn, Working
<1>2. CASE Next
  BY <1>t, <1>j, <1>2, CallSafe, FindSafe, WaitSafe, MarkSafe, SpawnSafe, RunnerSafe DEF Next, Proceed
<1>3. QED
  BY <1>1, <1>2

LEMMA AlwaysSafe == Spec => []SafeInv
BY InitSafeInv, NextSafeInv, PTL DEF Spec

\* A runner told to be quiet publishes one comment more at most (stop_farm(), pause_farm()).
THEOREM AtMostOneMore == Spec => []LastComment
<1>1. SafeInv => LastComment
  BY DEF SafeInv, RunnerOK, LastComment
<1>2. QED
  BY <1>1, AlwaysSafe, PTL

\* No comment is prepared or sent before the rest is over that handle_flood_wait() or handle_mute()
\* has ordered.  Nothing is claimed of a mute or flood wait that is swallowed.
THEOREM RestIsRespected == Spec => []RestRespected
<1>1. SafeInv => RestRespected
  BY DEF SafeInv, RunnerOK, RestRespected
<1>2. QED
  BY <1>1, AlwaysSafe, PTL

\* stop_farm() holds on to each runner it has stopped until it has ended or is cancelled.
THEOREM StopIsHeldOn == Spec => []StopHoldsOn
<1>1. SafeInv => StopHoldsOn
  BY DEF SafeInv
<1>2. QED
  BY <1>1, AlwaysSafe, PTL

===============================================================================

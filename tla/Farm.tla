--------------------------------- MODULE Farm ---------------------------------
(***************************************************************************)
(* One farm: core/farm_orchestrator.py starts, stops, pauses and resumes   *)
(* it, core/farm_thread.py comments with one account.  Both run as         *)
(* coroutines of one event loop: an action goes from one await to the      *)
(* next.  The calls are those of the orchestrator's public interface.  Its *)
(* one caller, core/farm_jobs.py, raises before it has an orchestrator     *)
(* (Job); it would make a new one, with a registry of its own, for every   *)
(* job, so a call may go to any of several.                                *)
(*                                                                         *)
(* A runner is one FarmThread with its task.  Channels and posts, the text *)
(* of a comment and the delays are left out, and so are the events         *)
(* published, the statistics and the status of the rows of farm_threads:   *)
(* they are shown, no code here reads them.                                *)
(***************************************************************************)
EXTENDS Naturals, FiniteSets

CONSTANTS
  Caller,    \* calls that may be under way at the same time
  Orch,      \* orchestrators
  Row,       \* rows of farm_threads, each with its account
  None,
  MaxStarts, \* bound: starts that are not refused
  MaxCalls   \* bound: calls

ASSUME FarmAssumption == MaxStarts \in Nat /\ MaxCalls \in Nat

Op     == {"start", "stop", "pause", "resume"}
Runner == (1..MaxStarts) \X Row

ASSUME NoneAssumption == None \notin Orch \union Op /\ \A S \in SUBSET Runner : S # None

VARIABLES
  registry,  \* of an orchestrator: the runners of the farm's entry, None without an entry
  farm,      \* the status of the farm's row
  at, op,    \* where a call is, and which
  orch,      \* the orchestrator it is made on
  mine,      \* the runners of the entry it has found, or those it will start
  starts, calls,
  pc,        \* where a runner is
  stopped, paused, cancelled, \* its stop event, its cleared pause event, its task's cancellation
  mode,      \* its _state, as far as it decides what comes next
  rest,      \* a flood wait or mute it met when it commented is not over: it has "ordered" a rest,
             \* or the error was "swallowed"
  extra,     \* comments of a runner since it was told to be quiet
  halted     \* the starts made before stop_farm() last looked the farm up; 0 after one has raised

call   == <<at, op, orch, mine>>
runner == <<pc, stopped, paused, cancelled, mode, rest, extra>>
vars   == <<registry, farm, call, starts, calls, runner, halted>>

Init ==
  /\ registry = [o \in Orch |-> None] /\ farm = "stopped"
  /\ at = [c \in Caller |-> "idle"] /\ op = [c \in Caller |-> None]
  /\ orch = [c \in Caller |-> None] /\ mine = [c \in Caller |-> None]
  /\ starts = 0 /\ calls = 0
  /\ pc = [r \in Runner |-> "none"]
  /\ stopped = [r \in Runner |-> FALSE] /\ paused = [r \in Runner |-> FALSE]
  /\ cancelled = [r \in Runner |-> FALSE]
  /\ mode = [r \in Runner |-> "work"] /\ rest = [r \in Runner |-> "none"]
  /\ extra = [r \in Runner |-> 0]
  /\ halted = 0

-----------------------------------------------------------------------------
(* The orchestrator's calls *)

Goto(c, l) == at' = [at EXCEPT ![c] = l]

Return(c) ==
  /\ Goto(c, "idle")
  /\ op' = [op EXCEPT ![c] = None]
  /\ orch' = [orch EXCEPT ![c] = None]
  /\ mine' = [mine EXCEPT ![c] = None]

Active(c) == at[c] # "idle"

\* start_farm() returns the status of a farm that is in the registry.
Refused(o) == registry[o] # None

\* start_farm() loads the rows and makes a runner for each, not yet running.
Load(c) ==
  /\ starts < MaxStarts
  /\ starts' = starts + 1
  /\ mine' = [mine EXCEPT ![c] = {starts'} \X Row]
  /\ Goto(c, "mark")

\* A call comes in.
Call(c, o, p) ==
  /\ ~Active(c) /\ calls < MaxCalls
  /\ calls' = calls + 1
  /\ IF p = "start" /\ Refused(o) THEN UNCHANGED <<call, starts>>
     ELSE /\ op' = [op EXCEPT ![c] = p]
          /\ orch' = [orch EXCEPT ![c] = o]
          /\ \/ p = "start" /\ Load(c)
             \/ p # "start" /\ Goto(c, "find") /\ UNCHANGED <<starts, mine>>
  /\ UNCHANGED <<registry, farm, runner, halted>>

\* A job of farm_jobs.py: SessionManager() takes no argument but is given one; the job fails.
Job ==
  /\ calls < MaxCalls
  /\ calls' = calls + 1
  /\ UNCHANGED <<registry, farm, call, starts, runner, halted>>

Ended(r) == pc[r] = "ended"
Quiet(r) == stopped[r] \/ paused[r]

\* Thread.stop(), pause() and resume() of some runners.
Signal(p, S) ==
  /\ stopped' = [r \in Runner |-> stopped[r] \/ (p = "stop" /\ r \in S)]
  /\ paused' = [r \in Runner |-> IF r \in S THEN p = "pause" ELSE paused[r]]
  /\ extra' = [r \in Runner |-> IF r \in S /\ (~Quiet(r) \/ (p = "resume" /\ ~stopped[r])) THEN 0 ELSE extra[r]]

\* The farm's row is loaded, the entry looked up and its runners are signalled.
Find(c) ==
  /\ at[c] = "find"
  /\ LET entry == registry[orch[c]] IN
     IF entry = None
     THEN IF op[c] = "stop" THEN Goto(c, "mark") /\ UNCHANGED <<op, orch, mine, runner>>
          ELSE Return(c) /\ UNCHANGED runner
     ELSE /\ Signal(op[c], {r \in entry : ~Ended(r)})
          /\ mine' = [mine EXCEPT ![c] = entry]
          /\ Goto(c, IF op[c] = "stop" THEN "wait" ELSE "mark")
          /\ UNCHANGED <<op, orch, pc, cancelled, mode, rest>>
  /\ halted' = IF op[c] = "stop" THEN starts ELSE halted
  /\ UNCHANGED <<registry, farm, starts, calls>>

\* Mutant: the runners that have not ended in time are left alone.
WaitOnly(c) ==
  /\ at[c] = "wait"
  /\ Goto(c, "mark")
  /\ UNCHANGED <<cancelled, registry, farm, op, orch, mine, starts, calls, pc, stopped, paused, mode,
                 rest, extra, halted>>

\* stop_farm() waits until its tasks have ended or for 30 seconds, and cancels the others.
Wait(c) ==
  /\ at[c] = "wait"
  /\ Goto(c, "mark")
  /\ cancelled' = [r \in Runner |-> cancelled[r] \/ (r \in mine[c] /\ ~Ended(r))]
  /\ UNCHANGED <<registry, farm, op, orch, mine, starts, calls, pc, stopped, paused, mode, rest,
                 extra, halted>>

\* Mutant: the operation is stored in place of the status.
StatusVerbatim(p) == p

StatusAfter(p) == CASE p = "stop" -> "stopped" [] p = "pause" -> "paused" [] OTHER -> "running"

\* The farm's row is written and committed.
Mark(c) ==
  /\ at[c] = "mark"
  /\ farm' = StatusAfter(op[c])
  /\ CASE op[c] = "start" -> Goto(c, "spawn") /\ UNCHANGED <<op, orch, mine>>
       [] op[c] = "stop" /\ mine[c] # None -> Goto(c, "forget") /\ UNCHANGED <<op, orch, mine>>
       [] OTHER -> Return(c)
  /\ UNCHANGED <<registry, starts, calls, runner, halted>>

\* The entry is registered, over any that is there, and the tasks are created.
\* A row whose account or channels are missing gets no runner.
Spawn(c) ==
  /\ at[c] = "spawn"
  /\ \E S \in SUBSET mine[c] :
       /\ registry' = [registry EXCEPT ![orch[c]] = S]
       /\ pc' = [r \in Runner |-> IF r \in S THEN "join" ELSE pc[r]]
  /\ Return(c)
  /\ UNCHANGED <<farm, starts, calls, stopped, paused, cancelled, mode, rest, extra, halted>>

\* stop_farm() deletes the entry that is there now; without one it raises.
Forget(c) ==
  /\ at[c] = "forget"
  /\ registry' = [registry EXCEPT ![orch[c]] = None]
  /\ Return(c)
  /\ UNCHANGED <<farm, starts, calls, runner, halted>>

\* An exception while the database is read or written: nothing is committed.
Raise(c) ==
  /\ at[c] \in {"find", "mark"}
  /\ Return(c)
  /\ halted' = IF op[c] = "stop" THEN 0 ELSE halted
  /\ UNCHANGED <<registry, farm, starts, calls, runner>>

-----------------------------------------------------------------------------
(* FarmThread.run() *)

Others == <<registry, farm, call, starts, calls, halted>>
Move(r, l) == pc' = [pc EXCEPT ![r] = l]
At(r, l) == pc[r] = l /\ ~cancelled[r]

\* The task has ended: nothing looks at the runner's flags any more.
Finish(r) ==
  /\ Move(r, "ended")
  /\ stopped' = [stopped EXCEPT ![r] = FALSE] /\ paused' = [paused EXCEPT ![r] = FALSE]
  /\ cancelled' = [cancelled EXCEPT ![r] = FALSE]
  /\ mode' = [mode EXCEPT ![r] = "work"] /\ rest' = [rest EXCEPT ![r] = "none"]
  /\ extra' = [extra EXCEPT ![r] = 0]
  /\ UNCHANGED Others

\* subscribe_to_channels(): a flood wait it meets is forgotten by the transition to
\* monitoring that follows.
Join(r) ==
  /\ At(r, "join")
  /\ IF stopped[r] THEN Finish(r)
     ELSE Move(r, "top") /\ UNCHANGED <<Others, stopped, paused, cancelled, mode, rest, extra>>

\* The head of the loop: the waits for the pause event and for a rest ordered, and the poll.
Top(r) ==
  /\ At(r, "top")
  /\ \/ stopped[r] /\ Finish(r)
     \/ /\ ~stopped[r] /\ ~paused[r]
        /\ mode[r] = "work" \/ rest[r] # "ordered"
        /\ Move(r, "post")
        /\ mode' = [mode EXCEPT ![r] = "work"]
        /\ UNCHANGED <<Others, stopped, paused, cancelled, rest, extra>>

\* The next post, or none.  The stop event is looked at before the wait for the pause event,
\* not after it: a runner may go on although it is stopped.
Post(r) ==
  /\ At(r, "post")
  /\ Move(r, "top") \/ (~paused[r] /\ Move(r, "compose"))
  /\ UNCHANGED <<Others, stopped, paused, cancelled, mode, rest, extra>>

\* A flood wait or a mute may be met that nobody handles.
Swallow(r) == rest' \in {rest, [rest EXCEPT ![r] = "swallowed"]}

\* The comment is out, be it by its emoji.
Published(r) == extra' = IF Quiet(r) THEN [extra EXCEPT ![r] = @ + 1] ELSE extra

\* Mutant: the stop event is not looked at after the delay.
ComposeOn(r) ==
  /\ At(r, "compose")
  /\ \/ Move(r, "post") /\ UNCHANGED rest
     \/ Move(r, "send") /\ Swallow(r)
  /\ UNCHANGED <<Others, stopped, paused, cancelled, mode, extra>>

\* The rules of the channel, the text, the delay, and the typing, whose errors are ignored.
Compose(r) ==
  /\ At(r, "compose")
  /\ \/ Move(r, "post") /\ UNCHANGED rest
     \/ ~stopped[r] /\ Move(r, "send") /\ Swallow(r)
  /\ UNCHANGED <<Others, stopped, paused, cancelled, mode, extra>>

\* The text is sent, or an emoji that it will replace; or either is refused: apply_emoji_trick()
\* hands on a flood wait only (Flooded), and not a mute or a dead session.
Send(r) ==
  /\ At(r, "send")
  /\ \/ Move(r, "post") /\ Published(r) /\ UNCHANGED rest
     \/ Move(r, "edit") /\ UNCHANGED <<extra, rest>>
     \/ Move(r, "post") /\ Swallow(r) /\ UNCHANGED extra
  /\ UNCHANGED <<Others, stopped, paused, cancelled, mode>>

\* After a delay the emoji is replaced; the stop event or an error leaves it as it is.
Edit(r) ==
  /\ At(r, "edit")
  /\ Move(r, "post") /\ Published(r) /\ Swallow(r)
  /\ UNCHANGED <<Others, stopped, paused, cancelled, mode>>

\* handle_flood_wait(), handle_mute(): a rest is ordered.
OrderRest(r) ==
  /\ mode' = [mode EXCEPT ![r] = "rest"]
  /\ rest' = [rest EXCEPT ![r] = "ordered"]
  /\ IF pc[r] = "edit" THEN Published(r) ELSE UNCHANGED extra
  /\ UNCHANGED <<Others, stopped, paused, cancelled>>

\* Mutant: the loop over the posts goes on after a flood wait.
FloodedOn(r) == (At(r, "send") \/ At(r, "edit")) /\ Move(r, "post") /\ OrderRest(r)

\* A flood wait, or a mute without the emoji: the posts that are left are dropped.
Flooded(r) == (At(r, "send") \/ At(r, "edit")) /\ Move(r, "top") /\ OrderRest(r)

\* Time passes.
RestOver(r) ==
  /\ rest[r] # "none"
  /\ rest' = [rest EXCEPT ![r] = "none"]
  /\ UNCHANGED <<Others, pc, stopped, paused, cancelled, mode, extra>>

\* The session is dead, or an exception nobody handles.
Fail(r) == pc[r] \notin {"none", "ended"} /\ ~cancelled[r] /\ Finish(r)

\* The CancelledError arrives.
Interrupt(r) == cancelled[r] /\ Finish(r)

-----------------------------------------------------------------------------

Proceed(c) == Find(c) \/ Wait(c) \/ Mark(c) \/ Spawn(c) \/ Forget(c)
Work(r)    == Join(r) \/ Top(r) \/ Post(r) \/ Compose(r) \/ Send(r) \/ Edit(r) \/ Flooded(r)

Next ==
  \/ Job
  \/ \E c \in Caller : Proceed(c) \/ Raise(c) \/ \E o \in Orch, p \in Op : Call(c, o, p)
  \/ \E r \in Runner : Work(r) \/ Interrupt(r) \/ RestOver(r) \/ Fail(r)

Spec == Init /\ [][Next]_vars

FairSpec == /\ Spec
            /\ \A c \in Caller : WF_vars(Proceed(c))
            /\ \A r \in Runner : WF_vars(Interrupt(r))

-----------------------------------------------------------------------------
(* Properties *)

\* The types of the variables.
TypeOK ==
  /\ registry \in [Orch -> (SUBSET Runner) \union {None}]
  /\ farm \in {"stopped", "running", "paused"}
  /\ at \in [Caller -> {"idle", "find", "wait", "mark", "spawn", "forget"}]
  /\ op \in [Caller -> Op \union {None}]
  /\ orch \in [Caller -> Orch \union {None}]
  /\ mine \in [Caller -> (SUBSET Runner) \union {None}]
  /\ starts \in 0..MaxStarts /\ calls \in 0..MaxCalls
  /\ pc \in [Runner -> {"none", "join", "top", "post", "compose", "send", "edit", "ended"}]
  /\ stopped \in [Runner -> BOOLEAN] /\ paused \in [Runner -> BOOLEAN] /\ cancelled \in [Runner -> BOOLEAN]
  /\ mode \in [Runner -> {"work", "rest"}]
  /\ rest \in [Runner -> {"none", "ordered", "swallowed"}]
  /\ extra \in [Runner -> Nat]
  /\ halted \in 0..MaxStarts

\* pause_farm(), stop_farm(): from when it is told to be quiet until it is resumed a runner
\* publishes one comment at most, the one it was typing or whose emoji it had sent, even if it is
\* stopped while it is paused.
LastComment == \A r \in Runner : extra[r] <= 1

\* A runner neither prepares nor sends a comment before the rest is over that a flood wait or mute
\* has ordered, however it is paused, resumed or stopped meanwhile.  It goes on at once after one
\* that was swallowed: a mute met by the emoji trick, the default (smart_commenter.py:1069), and a
\* flood wait of the typing (anti_detection.py:100), against farm_thread.py:13 and 962.
RestRespected == \A r \in Runner : rest[r] = "ordered" => pc[r] \notin {"compose", "send", "edit"}

Working(r) == pc[r] \notin {"none", "ended"} /\ ~cancelled[r]

\* stop_farm() does not return before each runner it has stopped has ended or is cancelled.
StopHoldsOn ==
  \A r \in Runner : stopped[r] /\ Working(r) => \E c \in Caller : at[c] = "wait" /\ r \in mine[c]

\* start_farm() registers its runners "before spawning tasks so stop() can always find it"
\* (farm_orchestrator.py:147): when all calls have returned, no runner works of a start_farm() that
\* was called before the last stop_farm() looked the farm up.
StopIsFinal == (\A c \in Caller : ~Active(c)) => \A r \in Runner : Working(r) => r[1] > halted

\* A runner that is stopped ends, even if it waits for Telegram or is paused again.
StopEnds == \A r \in Runner : stopped[r] ~> Ended(r)
===============================================================================

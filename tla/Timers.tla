------------------------------- MODULE Timers -------------------------------
(***************************************************************************)
(* Timers of nev::EventLoop: runAt, runAfter, runEvery and cancel, called   *)
(* from any thread, on top of libev's ev_timer.                             *)
(*                                                                          *)
(* The functor queue is the one of module EventLoop, of which only what it  *)
(* guarantees is used: batches, in order, each functor once.  The loop      *)
(* thread's position `at' is idle (before loop()), poll, dispatch,          *)
(* callback (inside a timer's callback), batch, functor (inside a user      *)
(* functor) or gone (the EventLoop is destroyed).                           *)
(***************************************************************************)
EXTENDS Integers, Sequences

CONSTANTS Threads,    \* the threads other than the loop's own
          Delays,     \* the delays and periods asked for, in ticks
          Moments,    \* the times runAt is asked for
          MinAfter,   \* runAt's shortest delay (100 ms), in ticks
          MaxTimers,  \* bound: Timers ever created
          MaxQueue,   \* bound: functors waiting
          MaxTime     \* bound: the clock

ASSUME DelaysAssumption == Delays \subseteq Nat /\ Moments \subseteq Nat
                           /\ MinAfter \in Nat \ {0} /\ MaxTime \in Nat

VARIABLES at, clock, mn_now,
          timers_,            \* Impl::timers_: the sequences in the map
          timer,              \* the Timer objects ever made, by sequence
          active,             \* in libev's heap
          pendings,           \* fed by timers_reify, callback still to come
          running,            \* whose callback is being made, 0 for none
          freed,              \* Timer objects deleted
          pending_functors_, functors,
          pc,                 \* the Timer whose sequence() a thread will read
          \* history
          fired,              \* calls made so far (2 stands for more)
          since               \* iterations since cancel(), -1 before it

loopVars    == <<at, mn_now, running>>
libevVars   == <<active, pendings>>
ownerVars   == <<timers_, freed>>
queueVars   == <<pending_functors_, functors>>
historyVars == <<fired, since>>
vars == <<loopVars, libevVars, ownerVars, queueVars, historyVars,
          clock, timer, pc>>

s_num_created_ == Len(timer)
Ids == 1..s_num_created_

Init ==
  /\ at = "idle" /\ clock = 0 /\ mn_now = 0 /\ running = 0
  /\ timers_ = {} /\ freed = {} /\ active = {} /\ pendings = {}
  /\ timer = <<>> /\ fired = <<>> /\ since = <<>>
  /\ pending_functors_ = <<>> /\ functors = <<>>
  /\ pc = [t \in Threads |-> 0]

Tick ==
  /\ clock < MaxTime /\ at # "gone"
  /\ clock' = clock + 1
  /\ UNCHANGED <<loopVars, libevVars, ownerVars, queueVars, historyVars,
                 timer, pc>>

queueInLoop(op, id) ==
  /\ Len(pending_functors_) < MaxQueue
  /\ pending_functors_' = Append(pending_functors_, <<op, id>>)

-----------------------------------------------------------------------------
(* Timer's constructor.  `expires' is ev_at: the delay `after' counted from *)
(* `base', which is 0 for a Timer that is not started yet.                  *)
newTimer(base, after, repeat) ==
  /\ s_num_created_ < MaxTimers
  /\ timer' = Append(timer, [expires |-> base + after, repeat |-> repeat])
  /\ fired' = Append(fired, 0)
  /\ since' = Append(since, -1)

(* Mutant: a moment in the past is not noticed. *)
MutantNegativeDelay(tm) == tm - clock

runAtDelay(tm) ==
  IF tm > clock /\ tm - clock > MinAfter THEN tm - clock ELSE MinAfter

(* The <<after, repeat>> pairs of runAt, runAfter and runEvery. *)
Requests == {<<runAtDelay(tm), 0>> : tm \in Moments}
            \cup {<<d, 0>> : d \in Delays} \cup {<<d, d>> : d \in Delays}

(* Called from another thread: the Timer is handed to the loop ... *)
runFromThread(t, after, repeat) ==
  /\ at # "gone" /\ pc[t] = 0
  /\ newTimer(0, after, repeat)
  /\ queueInLoop("add", s_num_created_ + 1)
  /\ pc' = [pc EXCEPT ![t] = s_num_created_ + 1]
  /\ UNCHANGED <<loopVars, libevVars, ownerVars, functors, clock>>

(* ... and only then asked for its sequence(). *)
returnSequence(t) ==
  /\ pc[t] # 0
  /\ pc' = [pc EXCEPT ![t] = 0]
  /\ UNCHANGED <<loopVars, libevVars, ownerVars, queueVars, historyVars,
                 clock, timer>>

(* Only a TimerId that was returned can be cancelled. *)
Returned(id) == id \in Ids /\ \A t \in Threads : pc[t] # id

(* Mutant: cancel erases at once when called on the loop thread. *)
MutantCancelNow(id) ==
  /\ Returned(id)
  /\ since' = [since EXCEPT ![id] = 0]
  /\ timers_' = timers_ \ {id} /\ freed' = freed \cup {id}
  /\ active' = active \ {id} /\ pendings' = pendings \ {id}
  /\ UNCHANGED <<loopVars, queueVars, fired, clock, timer, pc>>

(* cancel always goes through the queue, on the loop thread too. *)
cancel(id) ==
  /\ Returned(id)
  /\ queueInLoop("cancel", id)
  /\ since' = IF since[id] = -1 THEN [since EXCEPT ![id] = 0] ELSE since
  /\ UNCHANGED <<loopVars, libevVars, ownerVars, functors, fired,
                 clock, timer, pc>>

cancelFromThread(t, id) == at # "gone" /\ pc[t] = 0 /\ cancel(id)

(* Another thread queues a functor of the user's. *)
queueUserFunctor(t) ==
  /\ at # "gone" /\ pc[t] = 0
  /\ queueInLoop("user", 0)
  /\ UNCHANGED <<loopVars, libevVars, ownerVars, functors, historyVars,
                 clock, timer, pc>>

-----------------------------------------------------------------------------
(* The loop thread.                                                         *)

InUserCode == at \in {"idle", "callback", "functor"}

(* runAt, runAfter, runEvery on the loop thread: addTimerInLoop at once.    *)
(* ev_timer_start counts from libev's cached time, not from the clock.      *)
runFromLoop(after, repeat) ==
  /\ InUserCode
  /\ newTimer(mn_now, after, repeat)
  /\ timers_' = timers_ \cup {s_num_created_ + 1}
  /\ active' = active \cup {s_num_created_ + 1}
  /\ UNCHANGED <<loopVars, pendings, freed, queueVars, clock, pc>>

cancelFromLoop(id) == InUserCode /\ cancel(id)

(* loop(), which starts in poll. *)
loop ==
  /\ at = "idle" /\ at' = "poll"
  /\ UNCHANGED <<mn_now, running, libevVars, ownerVars, queueVars,
                 historyVars, clock, timer, pc>>

(* timers_reify: every timer that expired before the new mn_now is fed; a   *)
(* repeating one is rescheduled, at once if it is late, a one-shot one      *)
(* stops.                                                                   *)
Expired == {id \in active : timer[id].expires < clock}

rescheduled(tm) ==
  LET next == tm.expires + tm.repeat
  IN  [tm EXCEPT !.expires = IF next < clock THEN clock ELSE next]

pollReturns ==
  /\ at = "poll" /\ at' = "dispatch"
  /\ mn_now' = clock
  /\ pendings' = Expired
  /\ active' = {id \in active : id \in Expired => timer[id].repeat > 0}
  /\ timer' = [id \in Ids |-> IF id \in Expired /\ timer[id].repeat > 0
                              THEN rescheduled(timer[id]) ELSE timer[id]]
  /\ since' = [id \in Ids |-> IF since[id] \in {0, 1} THEN since[id] + 1
                                                      ELSE since[id]]
  /\ UNCHANGED <<running, ownerVars, queueVars, fired, clock, pc>>

(* handleTimerCb: the callback ... *)
handleTimerCb(id) ==
  /\ at = "dispatch" /\ id \in pendings
  /\ at' = "callback" /\ running' = id
  /\ pendings' = pendings \ {id}
  /\ fired' = [fired EXCEPT ![id] = IF @ < 2 THEN @ + 1 ELSE @]
  /\ UNCHANGED <<mn_now, active, ownerVars, queueVars, since,
                 clock, timer, pc>>

(* Erasing from timers_ deletes the Timer, whose destructor calls           *)
(* ev_timer_stop, which also takes it off the pending list.                 *)
erase(ids) ==
  /\ timers_' = timers_ \ ids
  /\ freed' = freed \cup (timers_ \cap ids)
  /\ active' = active \ ids
  /\ pendings' = pendings \ ids

(* Mutant: a one-shot timer is not destroyed after its callback. *)
MutantKeepOneShot ==
  /\ at = "callback"
  /\ at' = "dispatch" /\ running' = 0
  /\ UNCHANGED <<mn_now, libevVars, ownerVars, queueVars, historyVars, clock,
                 timer, pc>>

destroyTimer(id) == erase({id})

(* ... then destroyTimer, unless it repeats. *)
callbackReturns ==
  /\ at = "callback"
  /\ at' = "dispatch" /\ running' = 0
  /\ \/ timer[running].repeat = 0 /\ destroyTimer(running)
     \/ timer[running].repeat > 0 /\ UNCHANGED <<libevVars, ownerVars>>
  /\ UNCHANGED <<mn_now, queueVars, historyVars, clock, timer, pc>>

(* check_watcher_ comes last: the queue is swapped when nothing is pending. *)
doPendingFunctors ==
  /\ at = "dispatch" /\ pendings = {}
  /\ at' = "batch"
  /\ functors' = pending_functors_ /\ pending_functors_' = <<>>
  /\ UNCHANGED <<mn_now, running, libevVars, ownerVars, historyVars, clock,
                 timer, pc>>

(* Mutant: the Timer is stored and not started. *)
MutantNoStart(id) ==
  /\ timers_' = timers_ \cup {id}
  /\ UNCHANGED <<freed, active, pendings, timer, at>>

(* Timer::start: libev counts from its own time. *)
startTimer(id) ==
  /\ active' = active \cup {id}
  /\ timer' = [timer EXCEPT ![id].expires = @ + mn_now]

addTimerInLoop(id) ==
  /\ timers_' = timers_ \cup {id}
  /\ startTimer(id)
  /\ UNCHANGED <<freed, pendings, at>>

(* Mutant: only one-shot timers are found. *)
MutantCancelOneShot(id) ==
  /\ erase({id} \cap {i \in Ids : timer[i].repeat = 0})
  /\ UNCHANGED <<timer, at>>

cancelTimerInLoop(id) == erase({id}) /\ UNCHANGED <<timer, at>>

runFunctor ==
  /\ at = "batch" /\ functors # <<>>
  /\ functors' = Tail(functors)
  /\ LET op == Head(functors)[1]
         id == Head(functors)[2]
     IN  \/ op = "add" /\ addTimerInLoop(id)
         \/ op = "cancel" /\ cancelTimerInLoop(id)
         \/ op = "user" /\ at' = "functor"
              /\ UNCHANGED <<libevVars, ownerVars, timer>>
  /\ UNCHANGED <<mn_now, running, pending_functors_, historyVars, clock, pc>>

functorReturns ==
  /\ at = "functor" /\ at' = "batch"
  /\ UNCHANGED <<mn_now, running, libevVars, ownerVars, queueVars,
                 historyVars, clock, timer, pc>>

(* The batch is over: back to the poll, or out of loop() after a quit(). *)
iterationEnds ==
  /\ at = "batch" /\ functors = <<>>
  /\ at' \in {"poll", "idle"}
  /\ UNCHANGED <<mn_now, running, libevVars, ownerVars, queueVars,
                 historyVars, clock, timer, pc>>

(* ~EventLoop: timers_.clear().  No thread may still be inside the loop. *)
destroyLoop ==
  /\ at = "idle" /\ \A t \in Threads : pc[t] = 0
  /\ at' = "gone"
  /\ erase(timers_)
  /\ UNCHANGED <<mn_now, running, queueVars, historyVars, clock, timer, pc>>

-----------------------------------------------------------------------------
ThreadNext ==
  \E t \in Threads :
    \/ \E r \in Requests : runFromThread(t, r[1], r[2])
    \/ returnSequence(t) \/ queueUserFunctor(t)
    \/ \E id \in Ids : cancelFromThread(t, id)

UserNext ==
  \/ \E r \in Requests : runFromLoop(r[1], r[2])
  \/ \E id \in Ids : cancelFromLoop(id)

LoopStep ==
  \/ pollReturns \/ callbackReturns \/ doPendingFunctors \/ runFunctor
  \/ functorReturns
  \/ \E id \in Ids : handleTimerCb(id)

Next == Tick \/ ThreadNext \/ UserNext \/ LoopStep
        \/ loop \/ iterationEnds \/ destroyLoop

Spec == Init /\ [][Next]_vars

(* The loop thread runs, a poll ends (with a wakeup, a timer or after        *)
(* MAX_BLOCKTIME) and time passes.  Whether loop() is called or left again   *)
(* is the program's choice.                                                  *)
BackToPoll == iterationEnds /\ at' = "poll"
FairSpec == Spec /\ WF_vars(LoopStep) /\ WF_vars(Tick) /\ WF_vars(BackToPoll)

-----------------------------------------------------------------------------
(* The variables have their types.  A Timer's delay is a natural number:     *)
(* runAt never hands libev a negative one, however late it is called.        *)
TypeOK ==
  /\ at \in {"idle", "poll", "dispatch", "callback", "batch", "functor",
             "gone"}
  /\ clock \in 0..MaxTime /\ mn_now \in 0..clock
  /\ timer \in Seq([expires : Nat, repeat : Nat])
  /\ timers_ \subseteq Ids /\ freed \subseteq Ids
  /\ active \subseteq Ids /\ pendings \subseteq Ids
  /\ running \in 0..s_num_created_
  /\ pc \in [Threads -> 0..s_num_created_]
  /\ Len(fired) = Len(timer)
  /\ Len(since) = Len(timer)

(* libev never holds a watcher whose Timer was deleted, and the Timer whose *)
(* callback is being made is still in timers_ when handleTimerCb and        *)
(* destroyTimer's DCHECK(n == 1) look at it, whatever the callback cancels. *)
TimersOwned ==
  /\ active \cup pendings \subseteq timers_
  /\ timers_ \cap freed = {}
  /\ running # 0 => running \in timers_

(* cancel() takes effect: a cancelled timer may still be called in the       *)
(* iteration of the call and in the one after it, never later.               *)
CancelSticks == running # 0 => since[running] <= 1

(* A one-shot timer is called at most once and then destroyed.               *)
OneShotOnce ==
  \A id \in Ids : timer[id].repeat = 0 =>
    /\ fired[id] <= 1
    /\ fired[id] = 1 /\ running # id => id \in freed

(* A timer that a running loop was given is called, unless it is cancelled   *)
(* or loop() is left for good.  (Deadlines at the clock's bound do not       *)
(* count.)                                                                   *)
TimerFires ==
  \A id \in 1..MaxTimers :
    (id \in timers_ /\ timer[id].expires < MaxTime)
      ~> \/ id \in Ids /\ (fired[id] > 0 \/ since[id] >= 0)
         \/ [](at \in {"idle", "gone"})

(* event_loop.h calls runAt, runAfter and runEvery thread safe: what they    *)
(* read of the Timer they return the sequence of is not deleted.             *)
RunIsThreadSafe == \A t \in Threads : pc[t] # 0 => pc[t] \notin freed
=============================================================================

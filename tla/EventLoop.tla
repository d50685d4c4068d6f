------------------------------ MODULE EventLoop ------------------------------
(***************************************************************************)
(* nev::EventLoop: one thread runs ev_run(), every other thread hands it    *)
(* work through queueInLoop() and ends it through quit().                   *)
(*                                                                          *)
(* The loop thread is modelled by its position `at':                        *)
(*   idle      outside loop() (before it, or after it returned)             *)
(*   poll      in backend_poll(); it blocks until something happens         *)
(*   dispatch  in ev_invoke_pending(), above the priority of check_watcher_ *)
(*   batch     in doPendingFunctors(), between two functors                 *)
(*   functor   in doPendingFunctors(), inside a functor                     *)
(*   drop      the vector `functors' of doPendingFunctors() is destroyed    *)
(*             (the bound arguments' destructors are user code)             *)
(*                                                                          *)
(* A functor is the number of its push_back, so queue order is number       *)
(* order.  ev_async_send() is one step that sets `sent'.                    *)
(***************************************************************************)
EXTENDS Naturals, Sequences

CONSTANTS Threads,      \* the threads other than the loop's own
          MaxFunctors,  \* bound: how many functors are ever queued
          MaxLoops      \* bound: how often loop() is called

ASSUME BoundsAssumption == MaxFunctors \in Nat /\ MaxLoops \in Nat

VARIABLES at,                         \* position of the loop thread
          quit_,
          calling_pending_functors_,
          pending_functors_,          \* guarded by pending_functors_lock_
          functors,                   \* local vector of doPendingFunctors
          ran,                        \* how many of `functors' have been run
          sent,                       \* async_watcher_.sent
          pipeReady,                  \* pipe_w is pending in this iteration
          asyncReady,                 \* async_watcher_ is pending
          ioReady,                    \* some I/O or timer watcher was pending
          loop_done,                  \* libev's flag set by ev_break
          pc,                         \* what each other thread is inside of
          loops,                      \* bound: calls of loop() so far
          \* history
          origin,                     \* where each functor was queued from
          done,                       \* the last functor that was run
          quitMark,                   \* functors queued before a thread's quit
          cause                       \* who called ev_break first

loopVars  == <<at, loop_done, loops>>
queueVars == <<pending_functors_, origin>>
batchVars == <<functors, ran, calling_pending_functors_, done>>
wakeVars  == <<sent, pipeReady, asyncReady, ioReady>>
quitVars  == <<quit_, quitMark, cause>>
vars      == <<loopVars, queueVars, batchVars, wakeVars, quitVars, pc>>

Places  == {"idle", "poll", "dispatch", "batch", "functor", "drop"}
Origins == {"thread", "idle", "dispatch", "functor", "drop"}
Causes  == {"none", "wakeup", "self"}

(* DCHECK(!looping_) of loop() and ~EventLoop() reads this. *)
looping_ == at # "idle"

(* The loop's Impl starts async_watcher_ and check_watcher_; both count in  *)
(* libev's activecnt for as long as the loop exists.                        *)
activecnt == 2

Init ==
  /\ at = "idle" /\ loop_done = FALSE /\ loops = 0
  /\ quit_ = FALSE /\ quitMark = 0 /\ cause = "none"
  /\ calling_pending_functors_ = FALSE
  /\ pending_functors_ = <<>> /\ origin = <<>>
  /\ functors = <<>> /\ ran = 0 /\ done = 0
  /\ sent = FALSE /\ pipeReady = FALSE /\ asyncReady = FALSE /\ ioReady = FALSE
  /\ pc = [t \in Threads |-> "out"]

-----------------------------------------------------------------------------
(* The queue, as every caller uses it.                                      *)

(* push_back under pending_functors_lock_ *)
push_back(from) ==
  /\ Len(origin) < MaxFunctors
  /\ origin' = Append(origin, from)
  /\ pending_functors_' = Append(pending_functors_, Len(origin) + 1)

(* ev_async_send: libev coalesces sends until pipecb has seen them. *)
wakeup == sent' = TRUE

(* ev_break(EVBREAK_ALL): takes effect when the iteration ends. *)
break(who) ==
  /\ loop_done' = TRUE
  /\ cause' = IF loop_done THEN cause ELSE who

-----------------------------------------------------------------------------
(* Threads other than the loop's.  isInLoopThread() is false for them.      *)

(* queueInLoop (and runInLoop, which falls back to it): first the push ... *)
queueInLoop(t) ==
  /\ pc[t] = "out"
  /\ push_back("thread")
  /\ pc' = [pc EXCEPT ![t] = "wakeup"]
  /\ UNCHANGED <<loopVars, batchVars, wakeVars, quitVars>>

(* ... or quit: first the flag, seen from now on by handleWakeup ... *)
quit(t) ==
  /\ pc[t] = "out"
  /\ quit_' = TRUE
  /\ quitMark' = IF quit_ THEN quitMark ELSE Len(origin)
  /\ pc' = [pc EXCEPT ![t] = "wakeup"]
  /\ UNCHANGED <<loopVars, queueVars, batchVars, wakeVars, cause>>

(* ... then, with no lock held, the wakeup. *)
threadWakeup(t) ==
  /\ pc[t] = "wakeup"
  /\ wakeup
  /\ pc' = [pc EXCEPT ![t] = "out"]
  /\ UNCHANGED <<loopVars, queueVars, batchVars, quitVars,
                 pipeReady, asyncReady, ioReady>>

-----------------------------------------------------------------------------
(* User code on the loop thread: around loop(), in a channel or timer       *)
(* callback, in a functor, in a destructor of something a functor held.     *)
InUserCode ==
  \/ at \in {"idle", "functor"}
  \/ at = "dispatch" /\ ioReady
  \/ at = "drop" /\ functors # <<>>

(* Mutant: the batch is not treated as a nested call. *)
MutantNoNestedWakeup ==
  /\ InUserCode
  /\ push_back(at)
  /\ UNCHANGED <<loopVars, batchVars, wakeVars, quitVars, pc>>

(* queueInLoop on the loop thread wakes the loop only from a functor. *)
queueInOwnLoop ==
  /\ InUserCode
  /\ push_back(at)
  /\ \/ calling_pending_functors_ /\ wakeup
     \/ ~calling_pending_functors_ /\ UNCHANGED sent
  /\ UNCHANGED <<loopVars, batchVars, quitVars, pc,
                 pipeReady, asyncReady, ioReady>>

(* quit on the loop thread breaks ev_run without a wakeup. *)
quitOwnLoop ==
  /\ InUserCode
  /\ quit_' = TRUE
  /\ break("self")
  /\ UNCHANGED <<at, loops, queueVars, batchVars, wakeVars, pc, quitMark>>

-----------------------------------------------------------------------------
(* loop() and ev_run().                                                     *)

(* loop(): forgets any earlier quit(); ev_run clears loop_done. *)
loop ==
  /\ ~looping_ /\ loops < MaxLoops
  /\ loops' = loops + 1
  /\ quit_' = FALSE /\ loop_done' = FALSE
  /\ cause' = "none" /\ quitMark' = 0
  /\ at' = "poll"
  /\ UNCHANGED <<queueVars, batchVars, wakeVars, pc>>

(* backend_poll returns: with a wakeup, with other events, or because its    *)
(* longest blocking time (MAX_BLOCKTIME) is over.                            *)
pollReturns(io) ==
  /\ at = "poll"
  /\ at' = "dispatch"
  /\ pipeReady' = sent /\ asyncReady' = FALSE /\ ioReady' = io
  /\ UNCHANGED <<loop_done, loops, queueVars, batchVars, quitVars, pc, sent>>

PollWake    == sent /\ pollReturns(FALSE)
PollIO      == pollReturns(TRUE)
PollTimeout == ~sent /\ pollReturns(FALSE)

(* Mutant: pipecb forgets to feed the async watcher. *)
MutantNoFeed ==
  /\ at = "dispatch" /\ pipeReady
  /\ pipeReady' = FALSE
  /\ asyncReady' = FALSE /\ sent' = FALSE
  /\ UNCHANGED <<loopVars, queueVars, batchVars, quitVars, pc, ioReady>>

(* pipe_w has the highest priority: it clears `sent' and feeds the async     *)
(* watcher.  A send between the poll and this step is absorbed by it.        *)
pipecb ==
  /\ at = "dispatch" /\ pipeReady
  /\ pipeReady' = FALSE
  /\ sent' = FALSE /\ asyncReady' = TRUE
  /\ UNCHANGED <<loopVars, queueVars, batchVars, quitVars, pc, ioReady>>

handleWakeup ==
  /\ at = "dispatch" /\ asyncReady
  /\ asyncReady' = FALSE
  /\ \/ quit_ /\ break("wakeup")
     \/ ~quit_ /\ UNCHANGED <<loop_done, cause>>
  /\ UNCHANGED <<at, loops, queueVars, batchVars, pc,
                 sent, pipeReady, ioReady, quit_, quitMark>>

(* Mutant: the queue is copied, not swapped. *)
MutantCopyQueue ==
  /\ at = "dispatch" /\ ~pipeReady /\ ~asyncReady
  /\ calling_pending_functors_' = TRUE
  /\ functors' = pending_functors_
  /\ at' = "batch" /\ ioReady' = FALSE
  /\ UNCHANGED <<loop_done, loops, queueVars, ran, done, quitVars, pc,
                 sent, pipeReady, asyncReady>>

(* check_watcher_ has the lowest priority: doPendingFunctors starts when     *)
(* every other callback of the iteration has been made.                      *)
doPendingFunctors ==
  /\ at = "dispatch" /\ ~pipeReady /\ ~asyncReady
  /\ calling_pending_functors_' = TRUE
  /\ functors' = pending_functors_ /\ pending_functors_' = <<>>
  /\ at' = "batch" /\ ioReady' = FALSE
  /\ UNCHANGED <<loop_done, loops, origin, ran, done, quitVars, pc,
                 sent, pipeReady, asyncReady>>

runFunctor ==
  /\ at = "batch" /\ ran < Len(functors)
  /\ done' = functors[ran + 1]
  /\ ran' = ran + 1
  /\ at' = "functor"
  /\ UNCHANGED <<loop_done, loops, queueVars, functors,
                 calling_pending_functors_, wakeVars, quitVars, pc>>

functorReturns ==
  /\ at = "functor"
  /\ at' = "batch"
  /\ UNCHANGED <<loop_done, loops, queueVars, batchVars, wakeVars, quitVars, pc>>

functorsDone ==
  /\ at = "batch" /\ ran = Len(functors)
  /\ calling_pending_functors_' = FALSE
  /\ at' = "drop"
  /\ UNCHANGED <<loop_done, loops, queueVars, functors, ran, done,
                 wakeVars, quitVars, pc>>

(* Mutant: the loop looks at quit_ itself. *)
MutantExitOnFlag == activecnt > 0 /\ ~loop_done /\ ~quit_

(* The vector is gone; ev_run goes on while (activecnt && !loop_done). *)
StaysInEvRun == activecnt > 0 /\ ~loop_done

(* Mutant: the count of functors run survives the vector. *)
MutantStaleCount ==
  /\ at = "drop"
  /\ functors' = <<>> /\ UNCHANGED ran
  /\ at' = IF StaysInEvRun THEN "poll" ELSE "idle"
  /\ UNCHANGED <<loop_done, loops, queueVars, calling_pending_functors_, done,
                 wakeVars, quitVars, pc>>

iterationEnds ==
  /\ at = "drop"
  /\ functors' = <<>> /\ ran' = 0
  /\ at' = IF StaysInEvRun THEN "poll" ELSE "idle"
  /\ UNCHANGED <<loop_done, loops, queueVars, calling_pending_functors_, done,
                 wakeVars, quitVars, pc>>

-----------------------------------------------------------------------------
ThreadNext == \E t \in Threads : queueInLoop(t) \/ quit(t) \/ threadWakeup(t)

UserNext == queueInOwnLoop \/ quitOwnLoop \/ loop

(* What the loop thread does by itself once it can. *)
LoopStep ==
  \/ PollWake \/ pipecb \/ handleWakeup \/ doPendingFunctors
  \/ runFunctor \/ functorReturns \/ functorsDone \/ iterationEnds

Next == ThreadNext \/ UserNext \/ LoopStep \/ PollIO \/ PollTimeout

Spec == Init /\ [][Next]_vars

(* The operating system runs every thread that can run; nothing is assumed  *)
(* about I/O arriving or about the poll timing out.                         *)
Fairness ==
  /\ WF_vars(LoopStep)
  /\ \A t \in Threads : WF_vars(threadWakeup(t))

FairSpec == Spec /\ Fairness

-----------------------------------------------------------------------------
(* Properties.                                                              *)

FlagsOK ==
  /\ loop_done \in BOOLEAN /\ quit_ \in BOOLEAN
  /\ calling_pending_functors_ \in BOOLEAN
  /\ sent \in BOOLEAN /\ pipeReady \in BOOLEAN
  /\ asyncReady \in BOOLEAN /\ ioReady \in BOOLEAN

(* The variables have their types, and doPendingFunctors never counts more  *)
(* functors run than its vector holds.                                      *)
TypeOK ==
  /\ FlagsOK
  /\ at \in Places /\ cause \in Causes
  /\ loops \in Nat /\ quitMark \in Nat /\ done \in Nat
  /\ pending_functors_ \in Seq(Nat) /\ functors \in Seq(Nat)
  /\ origin \in Seq(Origins)
  /\ ran \in 0..Len(functors)
  /\ pc \in [Threads -> {"out", "wakeup"}]

(* Every functor ever queued is run once, in the order of the push_backs:   *)
(* what is left of doPendingFunctors' local vector followed by the queue is *)
(* exactly the functors after the last one run, whatever the threads, the   *)
(* functors themselves and quit() do meanwhile.                             *)
ExactlyOnceInOrder ==
  /\ Len(origin) = done + (Len(functors) - ran) + Len(pending_functors_)
  /\ \A i \in 1..Len(functors) : functors[i] = done - ran + i
  /\ \A i \in 1..Len(pending_functors_) :
       pending_functors_[i] = done - ran + Len(functors) + i

(* The loop thread sleeps in poll and nobody is about to wake it. *)
Asleep == at = "poll" /\ ~sent /\ \A t \in Threads : pc[t] = "out"

Signalled == {"thread", "dispatch", "functor"}

(* No lost wakeup: the loop never goes to sleep on a functor that another   *)
(* thread, a callback or a functor queued, although libev coalesces the     *)
(* wakeups and the loop thread itself mostly sends none.                    *)
NoLostWakeup ==
  Asleep => \A i \in 1..Len(pending_functors_) :
              origin[pending_functors_[i]] \notin Signalled

(* quit() from another thread lets everything queued before it run: when    *)
(* ev_run is left and it was not the loop thread itself that broke it, no   *)
(* functor queued before that quit is left behind.                          *)
QuitDrains ==
  at = "drop" /\ ~StaysInEvRun /\ cause # "self" => done >= quitMark

(* A functor queued by another thread, a callback or a functor is run       *)
(* eventually, unless the loop is left for good.                            *)
FunctorsRun ==
  \A i \in 1..MaxFunctors :
    (i <= Len(origin) /\ origin[i] \in Signalled)
      ~> (done >= i \/ [](~looping_))

(* quit() called while the loop runs ends it, from whichever thread.        *)
QuitStops == (quit_ /\ looping_) ~> ~looping_

(* The event loop is a first-in first-out queue of functors: the swap, the  *)
(* batch and the calls nested in it are invisible from outside.             *)
FQ == INSTANCE FunctorQueue WITH queued <- Len(origin), ran <- done

IsFunctorQueue == FQ!Spec
=============================================================================

--------------------------- MODULE EventLoopProofs ---------------------------
(***************************************************************************)
(* EventLoop's safety properties for any set of threads and any bounds.    *)
(***************************************************************************)
EXTENDS EventLoop, TLAPS

(* What `at' says about doPendingFunctors' state and libev's pending list. *)
PlaceInv ==
  /\ calling_pending_functors_ <=> at \in {"batch", "functor"}
  /\ at \notin {"batch", "functor", "drop"} => functors = <<>> /\ ran = 0
  /\ at = "drop" => ran = Len(functors)

(* Whoever queued a functor that is still waiting either has sent a wakeup  *)
(* nobody has consumed, is about to, or is in an iteration that still has   *)
(* doPendingFunctors ahead.                                                 *)
WakeInv ==
  (\E i \in 1..Len(pending_functors_) :
     origin[pending_functors_[i]] \in Signalled)
    => sent \/ at = "dispatch" \/ \E t \in Threads : pc[t] = "wakeup"

(* A break asked for by handleWakeup comes before that iteration's swap, so *)
(* the batch reaches at least to the functors queued before the quit().     *)
QuitInv ==
  /\ loop_done => cause # "none"
  /\ cause = "wakeup" => quit_
  /\ quitMark <= Len(origin)
  /\ cause = "wakeup" /\ at \in {"batch", "functor", "drop"}
       => quitMark <= done + (Len(functors) - ran)

IInv == TypeOK /\ PlaceInv /\ ExactlyOnceInOrder /\ WakeInv /\ QuitInv

(* The initial state satisfies the inductive invariant. *)
LEMMA InitIInv == Init => IInv
<1> SUFFICES ASSUME Init PROVE IInv
  OBVIOUS
<1> USE DEF Init
<1>1. TypeOK
  <2>1. FlagsOK
    BY DEF FlagsOK
  <2>. QED
    BY <2>1 DEF TypeOK, Places, Causes
<1>2. PlaceInv
  BY DEF PlaceInv
<1>3. ExactlyOnceInOrder
  BY DEF ExactlyOnceInOrder
<1>4. WakeInv
  BY DEF WakeInv
<1>5. QuitInv
  BY DEF QuitInv
<1>. QED
  BY <1>1, <1>2, <1>3, <1>4, <1>5 DEF IInv

(* Every step keeps the flags Boolean. *)
LEMMA NextFlagsOK == FlagsOK /\ [Next]_vars => FlagsOK'
<1> SUFFICES ASSUME FlagsOK, [Next]_vars PROVE FlagsOK'
  OBVIOUS
<1> USE DEF FlagsOK, loopVars, queueVars, batchVars, wakeVars, quitVars
<1>1. CASE ThreadNext
  BY <1>1 DEF ThreadNext, queueInLoop, quit, threadWakeup, wakeup
<1>2. CASE UserNext
  BY <1>2 DEF UserNext, queueInOwnLoop, quitOwnLoop, loop, wakeup, break
<1>3. CASE PollWake \/ PollIO \/ PollTimeout
  BY <1>3 DEF PollWake, PollIO, PollTimeout, pollReturns
<1>4. CASE pipecb \/ handleWakeup
  BY <1>4 DEF pipecb, handleWakeup, break
<1>5. CASE doPendingFunctors \/ runFunctor \/ functorReturns
             \/ functorsDone \/ iterationEnds
  BY <1>5 DEF doPendingFunctors, runFunctor, functorReturns, functorsDone,
              iterationEnds
<1>6. CASE UNCHANGED vars
  BY <1>6 DEF vars
<1>. QED
  BY <1>1, <1>2, <1>3, <1>4, <1>5, <1>6 DEF Next, LoopStep

(* Every step keeps the variables in their types. *)
LEMMA NextTypeOK == TypeOK /\ PlaceInv /\ [Next]_vars => TypeOK'
<1> SUFFICES ASSUME TypeOK, PlaceInv, [Next]_vars PROVE TypeOK'
  OBVIOUS
<1>0. FlagsOK'
  BY NextFlagsOK DEF TypeOK
<1> USE <1>0 DEF TypeOK, loopVars, queueVars, batchVars, wakeVars, quitVars
<1>1. ASSUME NEW t \in Threads, queueInLoop(t) PROVE TypeOK'
  BY <1>1 DEF queueInLoop, push_back, Origins
<1>2. ASSUME NEW t \in Threads, quit(t) PROVE TypeOK'
  BY <1>2 DEF quit
<1>3. ASSUME NEW t \in Threads, threadWakeup(t) PROVE TypeOK'
  BY <1>3 DEF threadWakeup
<1>4. CASE queueInOwnLoop
  <2>1. at \in Origins
    BY <1>4 DEF queueInOwnLoop, InUserCode, Origins
  <2>. QED
    BY <1>4, <2>1 DEF queueInOwnLoop, push_back
<1>5. CASE quitOwnLoop
  BY <1>5 DEF quitOwnLoop, break, Causes
<1>6. CASE loop
  BY <1>6 DEF loop, Places, Causes
<1>7. CASE PollWake \/ PollIO \/ PollTimeout
  BY <1>7 DEF PollWake, PollIO, PollTimeout, pollReturns, Places
<1>8. CASE pipecb
  BY <1>8 DEF pipecb
<1>9. CASE handleWakeup
  BY <1>9 DEF handleWakeup, break, Causes
<1>10. CASE doPendingFunctors
  BY <1>10 DEF doPendingFunctors, PlaceInv, Places
<1>11. CASE runFunctor
  BY <1>11 DEF runFunctor, Places
<1>12. CASE functorReturns
  BY <1>12 DEF functorReturns, Places
<1>13. CASE functorsDone
  BY <1>13 DEF functorsDone, Places
<1>14. CASE iterationEnds
  BY <1>14 DEF iterationEnds, Places
<1>15. CASE UNCHANGED vars
  BY <1>15 DEF vars
<1>. QED
  BY <1>1, <1>2, <1>3, <1>4, <1>5, <1>6, <1>7, <1>8, <1>9, <1>10, <1>11,
     <1>12, <1>13, <1>14, <1>15 DEF Next, ThreadNext, UserNext, LoopStep

(* Every step keeps the loop thread's position in line with its state. *)
LEMMA NextPlaceInv == TypeOK /\ PlaceInv /\ [Next]_vars => PlaceInv'
<1> SUFFICES ASSUME TypeOK, PlaceInv, [Next]_vars PROVE PlaceInv'
  OBVIOUS
<1> USE DEF PlaceInv, loopVars, queueVars, batchVars, wakeVars, quitVars
<1>1. CASE ThreadNext
  BY <1>1 DEF ThreadNext, queueInLoop, quit, threadWakeup
<1>2. CASE UserNext
  BY <1>2 DEF UserNext, queueInOwnLoop, quitOwnLoop, loop, looping_
<1>3. CASE PollWake \/ PollIO \/ PollTimeout
  BY <1>3 DEF PollWake, PollIO, PollTimeout, pollReturns
<1>4. CASE pipecb \/ handleWakeup
  BY <1>4 DEF pipecb, handleWakeup
<1>5. CASE doPendingFunctors \/ runFunctor \/ functorReturns
  BY <1>5 DEF doPendingFunctors, runFunctor, functorReturns
<1>6. CASE functorsDone \/ iterationEnds
  BY <1>6 DEF functorsDone, iterationEnds
<1>7. CASE UNCHANGED vars
  BY <1>7 DEF vars
<1>. QED
  BY <1>1, <1>2, <1>3, <1>4, <1>5, <1>6, <1>7 DEF Next, LoopStep

(* push_back puts the next number behind everything not yet run. *)
LEMMA PushKeepsOrder ==
  ASSUME TypeOK, ExactlyOnceInOrder, NEW from, push_back(from),
         UNCHANGED <<functors, ran, done>>
  PROVE  ExactlyOnceInOrder'
BY DEF TypeOK, ExactlyOnceInOrder, push_back

(* Every step keeps the queue the exact rest of what was queued. *)
LEMMA NextExactlyOnce ==
  TypeOK /\ PlaceInv /\ ExactlyOnceInOrder /\ [Next]_vars
    => ExactlyOnceInOrder'
<1> SUFFICES ASSUME TypeOK, PlaceInv, ExactlyOnceInOrder, [Next]_vars
             PROVE  ExactlyOnceInOrder'
  OBVIOUS
<1> USE DEF TypeOK, loopVars, queueVars, batchVars, wakeVars, quitVars
<1>1. ASSUME NEW t \in Threads, queueInLoop(t) PROVE ExactlyOnceInOrder'
  BY <1>1, PushKeepsOrder DEF queueInLoop
<1>2. CASE queueInOwnLoop
  BY <1>2, PushKeepsOrder DEF queueInOwnLoop
<1>3. CASE doPendingFunctors
  <2>1. functors = <<>> /\ ran = 0
    BY <1>3 DEF doPendingFunctors, PlaceInv
  <2>2. functors' = pending_functors_ /\ pending_functors_' = <<>>
    BY <1>3 DEF doPendingFunctors
  <2>3. UNCHANGED <<origin, ran, done>>
    BY <1>3 DEF doPendingFunctors
  <2>4. \A i \in 1..Len(functors') : functors'[i] = done' - ran' + i
    BY <2>1, <2>2, <2>3 DEF ExactlyOnceInOrder
  <2>. QED
    BY <2>1, <2>2, <2>3, <2>4 DEF ExactlyOnceInOrder
<1>4. CASE runFunctor
  <2>1. ran < Len(functors) /\ ran' = ran + 1 /\ done' = functors[ran + 1]
    BY <1>4 DEF runFunctor
  <2>2. UNCHANGED <<origin, pending_functors_, functors>>
    BY <1>4 DEF runFunctor
  <2>3. /\ ran \in Nat /\ done \in Nat /\ Len(functors) \in Nat
        /\ Len(pending_functors_) \in Nat
    OBVIOUS
  <2>4. done' = done + 1
    BY <2>1, <2>3 DEF ExactlyOnceInOrder
  <2>5. done' - ran' = done - ran
    BY <2>1, <2>3, <2>4
  <2>6. /\ \A i \in 1..Len(functors') : functors'[i] = done' - ran' + i
        /\ \A i \in 1..Len(pending_functors_') :
             pending_functors_'[i] = done' - ran' + Len(functors') + i
    BY <2>2, <2>5 DEF ExactlyOnceInOrder
  <2>7. Len(origin') = done' + (Len(functors') - ran')
                             + Len(pending_functors_')
    <3>1. Len(origin) = done + (Len(functors) - ran) + Len(pending_functors_)
      BY DEF ExactlyOnceInOrder
    <3>2. Len(origin') = Len(origin) /\ Len(functors') = Len(functors)
          /\ Len(pending_functors_') = Len(pending_functors_)
      BY <2>2
    <3>. QED
      BY <3>1, <3>2, <2>1, <2>3, <2>4
  <2>. QED
    BY <2>6, <2>7 DEF ExactlyOnceInOrder
<1>5. CASE iterationEnds
  <2>1. ran = Len(functors) /\ functors' = <<>> /\ ran' = 0
    BY <1>5 DEF iterationEnds, PlaceInv
  <2>2. UNCHANGED <<origin, pending_functors_, done>>
    BY <1>5 DEF iterationEnds
  <2>. QED
    BY <2>1, <2>2 DEF ExactlyOnceInOrder
<1>6. CASE UNCHANGED <<queueVars, functors, ran, done>>
  BY <1>6 DEF ExactlyOnceInOrder
<1>7. ASSUME NEW t \in Threads, quit(t) \/ threadWakeup(t)
      PROVE  UNCHANGED <<queueVars, functors, ran, done>>
  BY <1>7 DEF quit, threadWakeup
<1>8. ASSUME quitOwnLoop \/ loop \/ PollWake \/ PollIO \/ PollTimeout
             \/ pipecb \/ handleWakeup \/ functorReturns \/ functorsDone
      PROVE  UNCHANGED <<queueVars, functors, ran, done>>
  BY <1>8 DEF quitOwnLoop, loop, PollWake, PollIO, PollTimeout, pollReturns,
              pipecb, handleWakeup, functorReturns, functorsDone
<1>9. CASE UNCHANGED vars
  BY <1>9, <1>6 DEF vars
<1>. QED
  BY <1>1, <1>2, <1>3, <1>4, <1>5, <1>6, <1>7, <1>8, <1>9
  DEF Next, ThreadNext, UserNext, LoopStep

(* A push adds one origin and leaves those of the waiting functors alone. *)
LEMMA PushOrigins ==
  ASSUME TypeOK, ExactlyOnceInOrder, NEW from, push_back(from)
  PROVE  /\ Len(pending_functors_') = Len(pending_functors_) + 1
         /\ origin'[pending_functors_'[Len(pending_functors_) + 1]] = from
         /\ \A i \in 1..Len(pending_functors_) :
              origin'[pending_functors_'[i]] = origin[pending_functors_[i]]
<1> DEFINE n == Len(pending_functors_)
<1>1. /\ n \in Nat /\ Len(origin) \in Nat
      /\ origin' = Append(origin, from)
      /\ pending_functors_' = Append(pending_functors_, Len(origin) + 1)
  BY DEF TypeOK, push_back
<1>2. /\ Len(pending_functors_') = n + 1
      /\ pending_functors_'[n + 1] = Len(origin) + 1
      /\ \A i \in 1..n : pending_functors_'[i] = pending_functors_[i]
  BY <1>1 DEF TypeOK
<1>3. /\ origin'[Len(origin) + 1] = from
      /\ \A i \in 1..Len(origin) : origin'[i] = origin[i]
  BY <1>1 DEF TypeOK
<1>4. \A i \in 1..n : pending_functors_[i] \in 1..Len(origin)
  BY DEF TypeOK, ExactlyOnceInOrder
<1>. QED
  BY <1>2, <1>3, <1>4

(* Every step keeps a wakeup owed to each waiting functor that needs one. *)
LEMMA NextWakeInv ==
  TypeOK /\ PlaceInv /\ ExactlyOnceInOrder /\ WakeInv /\ [Next]_vars
    => WakeInv'
<1> SUFFICES ASSUME TypeOK, PlaceInv, ExactlyOnceInOrder, WakeInv,
                    [Next]_vars
             PROVE  WakeInv'
  OBVIOUS
<1> USE DEF loopVars, queueVars, batchVars, wakeVars, quitVars
<1>1. ASSUME NEW t \in Threads, queueInLoop(t) PROVE WakeInv'
  <2>1. pc'[t] = "wakeup"
    BY <1>1 DEF queueInLoop, TypeOK
  <2>. QED
    BY <2>1 DEF WakeInv
<1>2. ASSUME NEW t \in Threads, quit(t) PROVE WakeInv'
  <2>1. pc'[t] = "wakeup"
    BY <1>2 DEF quit, TypeOK
  <2>. QED
    BY <2>1 DEF WakeInv
<1>3. ASSUME NEW t \in Threads, threadWakeup(t) PROVE WakeInv'
  BY <1>3 DEF threadWakeup, wakeup, WakeInv
<1>4. CASE queueInOwnLoop
  <2>1. CASE calling_pending_functors_
    BY <1>4, <2>1 DEF queueInOwnLoop, wakeup, WakeInv
  <2>2. CASE at = "dispatch"
    BY <1>4, <2>2 DEF queueInOwnLoop, WakeInv
  <2>3. CASE at \in {"idle", "drop"}
    <3>1. at \notin Signalled
      BY <2>3 DEF Signalled
    <3>2. push_back(at) /\ sent' = sent /\ at' = at /\ pc' = pc
      BY <1>4, <2>3 DEF queueInOwnLoop, PlaceInv
    <3>3. Len(pending_functors_) \in Nat
      BY DEF TypeOK
    <3>. QED
      BY <3>1, <3>2, <3>3, PushOrigins DEF WakeInv
  <2>. QED
    BY <1>4, <2>1, <2>2, <2>3 DEF queueInOwnLoop, InUserCode, PlaceInv
<1>5. CASE PollWake \/ PollIO \/ PollTimeout
  BY <1>5 DEF PollWake, PollIO, PollTimeout, pollReturns, WakeInv
<1>6. CASE pipecb
  BY <1>6 DEF pipecb, WakeInv
<1>7. CASE doPendingFunctors
  BY <1>7 DEF doPendingFunctors, WakeInv
<1>8. CASE handleWakeup
  BY <1>8 DEF handleWakeup, WakeInv
<1>9. CASE UNCHANGED <<queueVars, sent, pc>> /\ at # "dispatch"
  BY <1>9 DEF WakeInv
<1>10. CASE UNCHANGED <<queueVars, sent, pc, at>>
  BY <1>10 DEF WakeInv
<1>11. ASSUME loop \/ runFunctor \/ functorReturns \/ functorsDone
              \/ iterationEnds
       PROVE  UNCHANGED <<queueVars, sent, pc>> /\ at # "dispatch"
  BY <1>11 DEF loop, looping_, runFunctor, functorReturns, functorsDone,
               iterationEnds
<1>12. ASSUME quitOwnLoop \/ UNCHANGED vars
       PROVE  UNCHANGED <<queueVars, sent, pc, at>>
  BY <1>12 DEF quitOwnLoop, vars
<1>. QED
  BY <1>1, <1>2, <1>3, <1>4, <1>5, <1>6, <1>7, <1>8, <1>9, <1>10, <1>11,
     <1>12 DEF Next, ThreadNext, UserNext, LoopStep

(* Every step keeps a quit() ordered before the batch that ends the loop. *)
LEMMA NextQuitInv ==
  TypeOK /\ PlaceInv /\ ExactlyOnceInOrder /\ QuitInv /\ [Next]_vars
    => QuitInv'
<1> SUFFICES ASSUME TypeOK, PlaceInv, ExactlyOnceInOrder, QuitInv,
                    [Next]_vars
             PROVE  QuitInv'
  OBVIOUS
<1>0. FlagsOK /\ FlagsOK'
  BY NextFlagsOK DEF TypeOK
<1> USE DEF loopVars, queueVars, batchVars, wakeVars, quitVars
<1>1. ASSUME NEW from, push_back(from),
             UNCHANGED <<at, loop_done, quitVars, functors, ran, done>>
      PROVE  QuitInv'
  <2>1. Len(origin) \in Nat /\ quitMark \in Nat
        /\ Len(origin') = Len(origin) + 1
    BY <1>1 DEF push_back, TypeOK
  <2>. QED
    BY <1>1, <2>1 DEF QuitInv
<1>2. ASSUME NEW t \in Threads, queueInLoop(t) PROVE QuitInv'
  BY <1>1, <1>2 DEF queueInLoop
<1>3. CASE queueInOwnLoop
  BY <1>1, <1>3 DEF queueInOwnLoop
<1>4. ASSUME NEW t \in Threads, quit(t) PROVE QuitInv'
  <2>1. UNCHANGED <<at, loop_done, cause, origin, functors, ran, done>>
    BY <1>4 DEF quit
  <2>2. quit_'
    BY <1>4 DEF quit
  <2>3. CASE quit_
    <3>1. quitMark' = quitMark
      BY <1>4, <2>3 DEF quit
    <3>. QED
      BY <2>1, <2>2, <3>1 DEF QuitInv
  <2>4. CASE ~quit_
    <3>1. quitMark' = Len(origin) /\ cause # "wakeup"
      BY <1>4, <2>4 DEF quit, QuitInv
    <3>2. Len(origin) \in Nat
      BY DEF TypeOK
    <3>. QED
      BY <2>1, <2>2, <3>1, <3>2 DEF QuitInv
  <2>. QED
    BY <2>3, <2>4
<1>5. CASE quitOwnLoop
  <2>1. UNCHANGED <<at, origin, functors, ran, done, quitMark>>
    BY <1>5 DEF quitOwnLoop
  <2>2. quit_' /\ loop_done' /\ cause' \in {cause, "self"} /\ cause' # "none"
    BY <1>5 DEF quitOwnLoop, break, QuitInv
  <2>. QED
    BY <2>1, <2>2 DEF QuitInv
<1>6. CASE loop
  <2>1. ~loop_done' /\ cause' = "none" /\ quitMark' = 0 /\ origin' = origin
    BY <1>6 DEF loop
  <2>2. Len(origin) \in Nat
    BY DEF TypeOK
  <2>. QED
    BY <2>1, <2>2 DEF QuitInv
<1>7. CASE PollWake \/ PollIO \/ PollTimeout
  BY <1>7 DEF PollWake, PollIO, PollTimeout, pollReturns, QuitInv
<1>8. CASE handleWakeup
  <2>1. /\ at = "dispatch"
        /\ UNCHANGED <<at, origin, functors, ran, done, quit_, quitMark>>
    BY <1>8 DEF handleWakeup
  <2>2. /\ loop_done' => cause' # "none"
        /\ cause' = "wakeup" => quit_'
    BY <1>8 DEF handleWakeup, break, QuitInv
  <2>. QED
    BY <2>1, <2>2 DEF QuitInv
<1>9. CASE doPendingFunctors
  <2>1. functors = <<>> /\ ran = 0
    BY <1>9 DEF doPendingFunctors, PlaceInv
  <2>2. /\ functors' = pending_functors_
        /\ UNCHANGED <<loop_done, cause, quit_, quitMark, origin, ran, done>>
    BY <1>9 DEF doPendingFunctors
  <2>3. Len(origin) = done' + (Len(functors') - ran')
    BY <2>1, <2>2 DEF ExactlyOnceInOrder, TypeOK
  <2>. QED
    BY <2>2, <2>3 DEF QuitInv
<1>10. CASE runFunctor
  <2>1. /\ at = "batch"
        /\ UNCHANGED <<loop_done, cause, quit_, quitMark, origin, functors>>
    BY <1>10 DEF runFunctor
  <2>2. ran \in Nat /\ done \in Nat /\ Len(functors) \in Nat
    BY DEF TypeOK
  <2>3. ran' = ran + 1 /\ done' = done + 1
    BY <1>10, <2>2 DEF runFunctor, ExactlyOnceInOrder
  <2>4. done' + (Len(functors') - ran') = done + (Len(functors) - ran)
    BY <2>1, <2>2, <2>3
  <2>. QED
    BY <2>1, <2>4 DEF QuitInv
<1>11. CASE functorReturns \/ functorsDone
  BY <1>11 DEF functorReturns, functorsDone, QuitInv
<1>12. CASE iterationEnds
  BY <1>12 DEF iterationEnds, QuitInv
<1>13. CASE UNCHANGED <<at, loop_done, quitVars, origin, functors, ran, done>>
  BY <1>13 DEF QuitInv
<1>14. ASSUME pipecb \/ UNCHANGED vars \/ \E t \in Threads : threadWakeup(t)
       PROVE  UNCHANGED <<at, loop_done, quitVars, origin, functors, ran, done>>
  BY <1>14 DEF pipecb, threadWakeup, vars
<1>. QED
  BY <1>2, <1>3, <1>4, <1>5, <1>6, <1>7, <1>8, <1>9, <1>10, <1>11, <1>12,
     <1>13, <1>14 DEF Next, ThreadNext, UserNext, LoopStep

-----------------------------------------------------------------------------
(* The inductive invariant holds throughout. *)
THEOREM Inductive == Spec => []IInv
<1>1. IInv /\ [Next]_vars => IInv'
  BY NextTypeOK, NextPlaceInv, NextExactlyOnce, NextWakeInv, NextQuitInv
  DEF IInv
<1>. QED
  BY InitIInv, <1>1, PTL DEF Spec

(* For any number of threads: EventLoop's variables keep their types, and   *)
(* doPendingFunctors never counts past its vector.                          *)
THEOREM TypeCorrect == Spec => []TypeOK
<1>1. IInv => TypeOK
  BY DEF IInv
<1>. QED
  BY Inductive, <1>1, PTL

(* For any number of threads and functors: swap-and-run under               *)
(* pending_functors_lock_ runs each functor queued once and in queue order. *)
THEOREM RunsExactlyOnceInOrder == Spec => []ExactlyOnceInOrder
<1>1. IInv => ExactlyOnceInOrder
  BY DEF IInv
<1>. QED
  BY Inductive, <1>1, PTL

(* For any number of threads: queueInLoop's condition for calling wakeup()  *)
(* is enough; the loop never sleeps on a functor queued by another thread,  *)
(* by a callback or by a functor.                                           *)
THEOREM NeverLosesWakeup == Spec => []NoLostWakeup
<1>1. IInv => NoLostWakeup
  BY DEF IInv, WakeInv, NoLostWakeup, Asleep
<1>. QED
  BY Inductive, <1>1, PTL

(* For any number of threads: a quit() from another thread ends the loop    *)
(* only after every functor queued before it has run.                       *)
THEOREM QuitRunsQueued == Spec => []QuitDrains
<1>1. IInv => QuitDrains
  <2>1. SUFFICES ASSUME IInv, at = "drop", ~StaysInEvRun, cause # "self"
                 PROVE  done >= quitMark
    BY DEF QuitDrains
  <2>2. loop_done
    BY <2>1 DEF StaysInEvRun, activecnt
  <2>3. cause = "wakeup"
    BY <2>1, <2>2 DEF IInv, QuitInv, TypeOK, Causes
  <2>4. quitMark <= done + (Len(functors) - ran) /\ ran = Len(functors)
    BY <2>1, <2>3 DEF IInv, QuitInv, PlaceInv
  <2>. QED
    BY <2>1, <2>4 DEF IInv, TypeOK
<1>. QED
  BY Inductive, <1>1, PTL

(* EventLoop implements FunctorQueue: a push_back is Queue, a functor() call *)
(* of doPendingFunctors is Run, and every other step changes nothing there.  *)
THEOREM ImplementsFunctorQueue == Spec => IsFunctorQueue
<1>1. Init => FQ!Init
  BY DEF Init, FQ!Init
<1>2. IInv /\ [Next]_vars => [FQ!Next]_<<Len(origin), done>>
  <2> SUFFICES ASSUME IInv, [Next]_vars
               PROVE  [FQ!Next]_<<Len(origin), done>>
    OBVIOUS
  <2> USE DEF loopVars, queueVars, batchVars, wakeVars, quitVars
  <2>1. ASSUME NEW from, push_back(from), UNCHANGED done PROVE FQ!Queue
    BY <2>1 DEF push_back, FQ!Queue, IInv, TypeOK
  <2>2. ASSUME runFunctor PROVE FQ!Run
    <3>1. /\ ran < Len(functors) /\ done' = functors[ran + 1]
          /\ origin' = origin
      BY <2>2 DEF runFunctor
    <3>2. /\ ran \in Nat /\ done \in Nat /\ Len(functors) \in Nat
          /\ Len(pending_functors_) \in Nat
      BY DEF IInv, TypeOK
    <3>3. done' = done + 1
      BY <3>1, <3>2 DEF IInv, ExactlyOnceInOrder
    <3>4. done < Len(origin)
      BY <3>1, <3>2 DEF IInv, ExactlyOnceInOrder
    <3>. QED
      BY <3>1, <3>3, <3>4 DEF FQ!Run
  <2>3. ASSUME NEW t \in Threads, queueInLoop(t) PROVE FQ!Queue
    BY <2>1, <2>3 DEF queueInLoop
  <2>4. ASSUME queueInOwnLoop PROVE FQ!Queue
    BY <2>1, <2>4 DEF queueInOwnLoop
  <2>5. ASSUME NEW t \in Threads, quit(t) \/ threadWakeup(t)
        PROVE  UNCHANGED <<origin, done>>
    BY <2>5 DEF quit, threadWakeup
  <2>6. ASSUME quitOwnLoop \/ loop \/ PollWake \/ PollIO \/ PollTimeout
               \/ pipecb \/ handleWakeup \/ doPendingFunctors
               \/ functorReturns \/ functorsDone \/ iterationEnds
               \/ UNCHANGED vars
        PROVE  UNCHANGED <<origin, done>>
    BY <2>6 DEF quitOwnLoop, loop, PollWake, PollIO, PollTimeout, pollReturns,
                pipecb, handleWakeup, doPendingFunctors, functorReturns,
                functorsDone, iterationEnds, vars
  <2>. QED
    BY <2>2, <2>3, <2>4, <2>5, <2>6
    DEF Next, ThreadNext, UserNext, LoopStep, FQ!Next
<1>. QED
  BY <1>1, <1>2, Inductive, PTL DEF Spec, IsFunctorQueue, FQ!Spec
=============================================================================

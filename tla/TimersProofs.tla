---------------------------- MODULE TimersProofs ----------------------------
(***************************************************************************)
(* The timers' safety properties for any set of threads, any delays and    *)
(* any bounds.                                                             *)
(***************************************************************************)
EXTENDS Timers, SequenceTheorems, TLAPS

Functors == {"add", "cancel", "user"} \X Nat

(* The functors waiting in a queue. *)
Elems(q) == {q[i] : i \in 1..Len(q)}
Queued == Elems(functors) \cup Elems(pending_functors_)

(* Nothing that is ahead of the start of a Timer is about that Timer. *)
InOrder(q) ==
  \A i, j \in 1..Len(q) : i < j /\ q[j][1] = "add" => q[i][2] # q[j][2]

(* What TypeOK leaves open: the histories and the queues. *)
DataOK ==
  /\ fired \in Seq(0..2) /\ since \in Seq(-1..2)
  /\ functors \in Seq(Functors) /\ pending_functors_ \in Seq(Functors)
  /\ \A e \in Queued : e[2] <= Len(timer)

(* What `at' says about the callback, libev's pending list and the batch. *)
PlaceInv ==
  /\ running # 0 <=> at = "callback"
  /\ pendings # {} => at \in {"dispatch", "callback"}
  /\ functors # <<>> => at \in {"batch", "functor"}

(* A Timer whose start is still queued is queued once, ahead of its          *)
(* cancellations, and nobody has met it yet.                                 *)
QueueInv ==
  /\ InOrder(functors) /\ InOrder(pending_functors_)
  /\ \A e \in Elems(functors), f \in Elems(pending_functors_) :
       f[1] = "add" => e[2] # f[2]
  /\ \A e \in Queued : e[1] = "add" =>
       e[2] \in Ids \ (timers_ \cup freed) /\ fired[e[2]] = 0

(* A one-shot Timer leaves libev's heap before its callback. *)
OneShotInv ==
  \A id \in Ids : timer[id].repeat = 0 =>
    /\ fired[id] > 0 => id \notin active \cup pendings
    /\ id \in pendings => id \notin active

(* The Timer is not in timers_ and will not come there. *)
Gone(id) == id \notin timers_ /\ <<"add", id>> \notin Queued

(* A cancellation is waiting until the Timer is gone; one that was asked for *)
(* before the last poll is in this iteration's batch, and carried out when   *)
(* the next poll begins.                                                     *)
CancelInv ==
  \A id \in Ids :
    /\ since[id] >= 0 => Gone(id) \/ <<"cancel", id>> \in Queued
    /\ since[id] = 1 /\ at \notin {"dispatch", "callback"}
         => Gone(id) \/ <<"cancel", id>> \in Elems(functors)
    /\ since[id] = 2 => Gone(id)

IInv == /\ TypeOK /\ DataOK /\ PlaceInv /\ TimersOwned /\ QueueInv
        /\ OneShotInv /\ OneShotOnce /\ CancelInv

-----------------------------------------------------------------------------
(* The helpers on queues and sequences. *)

(* A function on 1..n is a sequence of length n. *)
LEMMA FunctionIsSeq ==
  ASSUME NEW S, NEW n \in Nat, NEW f \in [1..n -> S]
  PROVE  f \in Seq(S) /\ Len(f) = n
BY SMT

(* push_back adds the one functor. *)
LEMMA ElemsAppend ==
  ASSUME NEW q \in Seq(Functors), NEW e \in Functors
  PROVE  /\ Append(q, e) \in Seq(Functors)
         /\ Elems(Append(q, e)) = Elems(q) \cup {e}
<1> DEFINE n == Len(q)
           r == Append(q, e)
<1>1. /\ n \in Nat /\ r \in Seq(Functors) /\ Len(r) = n + 1
      /\ r[n + 1] = e /\ \A i \in 1..n : r[i] = q[i]
  OBVIOUS
<1>2. 1..Len(r) = 1..n \cup {n + 1}
  BY <1>1
<1> HIDE DEF n, r
<1>3. Elems(r) = Elems(q) \cup {e}
  BY <1>1, <1>2 DEF Elems, n
<1>. QED
  BY <1>1, <1>3 DEF r

(* Taking the first functor off leaves the others. *)
LEMMA ElemsTail ==
  ASSUME NEW q \in Seq(Functors), q # <<>>
  PROVE  /\ Tail(q) \in Seq(Functors) /\ Head(q) \in Functors
         /\ Elems(q) = Elems(Tail(q)) \cup {Head(q)}
<1> DEFINE n == Len(q)
           r == Tail(q)
<1>1. /\ n \in Nat \ {0} /\ r \in Seq(Functors) /\ Len(r) = n - 1
      /\ Head(q) = q[1] /\ \A i \in 1..(n - 1) : r[i] = q[i + 1]
      /\ Head(q) \in Functors
  OBVIOUS
<1> HIDE DEF n, r
<1>2. Elems(r) \cup {Head(q)} \subseteq Elems(q)
  BY <1>1 DEF Elems, n
<1>3. ASSUME NEW i \in 1..n PROVE q[i] \in Elems(r) \cup {Head(q)}
  <2>1. CASE i = 1
    BY <1>1, <2>1
  <2>2. CASE i # 1
    <3>1. i - 1 \in 1..Len(r) /\ r[i - 1] = q[i]
      BY <1>1, <2>2
    <3>. QED
      BY <3>1 DEF Elems
  <2>. QED
    BY <2>1, <2>2
<1>4. Elems(q) \subseteq Elems(r) \cup {Head(q)}
  BY <1>3 DEF Elems, n
<1>. QED
  BY <1>1, <1>2, <1>4 DEF r

(* A queue stays in order when a functor about a Timer not in it is added. *)
LEMMA InOrderAppend ==
  ASSUME NEW q \in Seq(Functors), NEW e \in Functors, InOrder(q),
         e[1] = "add" => \A f \in Elems(q) : f[2] # e[2]
  PROVE  InOrder(Append(q, e))
<1> DEFINE n == Len(q)
           r == Append(q, e)
<1>1. /\ n \in Nat /\ Len(r) = n + 1
      /\ r[n + 1] = e /\ \A i \in 1..n : r[i] = q[i]
  OBVIOUS
<1>2. \A i \in 1..n : q[i] \in Elems(q)
  BY DEF Elems
<1> HIDE DEF r
<1> SUFFICES ASSUME NEW i \in 1..Len(r), NEW j \in 1..Len(r),
                    i < j, r[j][1] = "add"
             PROVE  r[i][2] # r[j][2]
  BY DEF InOrder, r
<1>3. CASE j = n + 1
  BY <1>1, <1>2, <1>3
<1>4. CASE j # n + 1
  <2>1. i \in 1..n /\ j \in 1..n
    BY <1>1, <1>4
  <2>. QED
    BY <1>1, <2>1 DEF InOrder
<1>. QED
  BY <1>3, <1>4

(* A queue without its first functor is in order, and does not start that    *)
(* functor's Timer.                                                          *)
LEMMA InOrderTail ==
  ASSUME NEW q \in Seq(Functors), q # <<>>, InOrder(q)
  PROVE  /\ InOrder(Tail(q))
         /\ \A f \in Elems(Tail(q)) : f[1] = "add" => f[2] # Head(q)[2]
<1> DEFINE n == Len(q)
           r == Tail(q)
<1>1. /\ n \in Nat \ {0} /\ Len(r) = n - 1
      /\ Head(q) = q[1] /\ \A i \in 1..(n - 1) : r[i] = q[i + 1]
  OBVIOUS
<1> HIDE DEF r
<1>2. InOrder(r)
  <2> SUFFICES ASSUME NEW i \in 1..Len(r), NEW j \in 1..Len(r),
                      i < j, r[j][1] = "add"
               PROVE  r[i][2] # r[j][2]
    BY DEF InOrder
  <2>1. i + 1 \in 1..n /\ j + 1 \in 1..n /\ i + 1 < j + 1
    BY <1>1
  <2>2. r[i] = q[i + 1] /\ r[j] = q[j + 1]
    BY <1>1
  <2>3. \A x, y \in 1..n : x < y /\ q[y][1] = "add" => q[x][2] # q[y][2]
    BY Zenon DEF InOrder
  <2>. QED
    BY <2>1, <2>2, <2>3
<1>3. ASSUME NEW i \in 1..Len(r), r[i][1] = "add" PROVE r[i][2] # Head(q)[2]
  <2>1. i + 1 \in 1..n /\ 1 \in 1..n /\ 1 < i + 1
    BY <1>1
  <2>. QED
    BY <1>1, <1>3, <2>1 DEF InOrder
<1>. QED
  BY <1>2, <1>3 DEF Elems, r

-----------------------------------------------------------------------------
(* What the operations do to the Timer objects. *)

(* The times and counts are numbers.                                         *)
LEMMA Numbers ==
  ASSUME TypeOK
  PROVE  /\ clock \in Nat /\ mn_now \in Nat /\ running \in Nat
         /\ Len(timer) \in Nat /\ Ids = 1..Len(timer)
         /\ timer \in [1..Len(timer) -> [expires : Nat, repeat : Nat]]
<1>1. clock \in 0..MaxTime /\ mn_now \in 0..clock
  BY DEF TypeOK
<1>2. MaxTime \in Nat
  BY DelaysAssumption
<1>5. clock \in Nat
  BY <1>1, <1>2
<1>6. mn_now \in Nat
  BY <1>1, <1>5
<1>3. /\ Len(timer) \in Nat /\ Ids = 1..Len(timer)
      /\ timer \in [1..Len(timer) -> [expires : Nat, repeat : Nat]]
  <2>1. timer \in Seq([expires : Nat, repeat : Nat])
    BY DEF TypeOK
  <2>. QED
    BY <2>1, LenProperties DEF Ids, s_num_created_
<1>4. running \in Nat
  BY <1>3 DEF TypeOK, s_num_created_
<1>. QED
  BY <1>3, <1>4, <1>5, <1>6

(* The delays and periods asked for are natural numbers, also when runAt is  *)
(* asked for a moment that is over.                                          *)
LEMMA RequestsOK ==
  ASSUME TypeOK, NEW r \in Requests
  PROVE  r[1] \in Nat /\ r[2] \in Nat
<1>1. clock \in Nat /\ MinAfter \in Nat
  BY DelaysAssumption, Numbers
<1>2. ASSUME NEW tm \in Moments PROVE runAtDelay(tm) \in Nat
  BY <1>1, DelaysAssumption DEF runAtDelay
<1>. QED
  BY <1>2, DelaysAssumption DEF Requests

(* Timer's constructor adds one Timer, which has not fired and is not        *)
(* cancelled, and leaves the others alone.                                   *)
LEMMA NewTimer ==
  ASSUME TypeOK, DataOK, NEW base \in Nat, NEW after \in Nat,
         NEW repeat \in Nat, newTimer(base, after, repeat)
  PROVE  /\ Len(timer) \in Nat /\ Len(timer') = Len(timer) + 1
         /\ Len(fired') = Len(timer') /\ Len(since') = Len(timer')
         /\ timer' \in Seq([expires : Nat, repeat : Nat])
         /\ fired' \in Seq(0..2) /\ since' \in Seq(-1..2)
         /\ fired'[Len(timer) + 1] = 0 /\ since'[Len(timer) + 1] = -1
         /\ \A id \in Ids : /\ timer'[id] = timer[id]
                            /\ fired'[id] = fired[id]
                            /\ since'[id] = since[id]
<1> USE DEF TypeOK, DataOK, newTimer, Ids, s_num_created_
<1>1. [expires |-> base + after, repeat |-> repeat]
        \in [expires : Nat, repeat : Nat]
  OBVIOUS
<1>2. 0 \in 0..2 /\ -1 \in -1..2
  OBVIOUS
<1>3. /\ Len(timer) \in Nat /\ Len(timer') = Len(timer) + 1
      /\ timer' \in Seq([expires : Nat, repeat : Nat])
      /\ \A id \in Ids : timer'[id] = timer[id]
  BY <1>1
<1>4. /\ Len(fired) = Len(timer) /\ Len(fired') = Len(timer) + 1
      /\ fired' \in Seq(0..2) /\ fired'[Len(timer) + 1] = 0
      /\ \A id \in Ids : fired'[id] = fired[id]
  BY <1>2
<1>5. /\ Len(since) = Len(timer) /\ Len(since') = Len(timer) + 1
      /\ since' \in Seq(-1..2) /\ since'[Len(timer) + 1] = -1
      /\ \A id \in Ids : since'[id] = since[id]
  BY <1>2
<1>. QED
  BY <1>3, <1>4, <1>5

(* The poll reschedules and counts iterations; no Timer comes or goes.       *)
LEMMA PollTimers ==
  ASSUME TypeOK, DataOK, pollReturns
  PROVE  /\ Len(timer') = Len(timer) /\ Len(since') = Len(since)
         /\ timer' \in Seq([expires : Nat, repeat : Nat])
         /\ since' \in Seq(-1..2)
         /\ \A id \in Ids :
              /\ timer'[id].repeat = timer[id].repeat
              /\ since'[id] = IF since[id] \in {0, 1} THEN since[id] + 1
                                                      ELSE since[id]
<1> DEFINE n == Len(timer)
           T == [expires : Nat, repeat : Nat]
<1>1. /\ n \in Nat /\ Ids = 1..n /\ clock \in Nat
      /\ \A id \in 1..n : timer[id] \in T
  BY Numbers
<1>5. Len(since) = n /\ \A id \in 1..n : since[id] \in -1..2
  BY <1>1 DEF TypeOK, DataOK
<1>2. ASSUME NEW id \in 1..n
      PROVE  /\ rescheduled(timer[id]) \in T
             /\ rescheduled(timer[id]).repeat = timer[id].repeat
  BY <1>1, <1>2 DEF rescheduled
<1>3. /\ timer' \in [1..n -> T]
      /\ \A id \in 1..n : timer'[id].repeat = timer[id].repeat
  BY <1>1, <1>2 DEF pollReturns
<1>4. /\ since' \in [1..n -> -1..2]
      /\ \A id \in 1..n :
           since'[id] = IF since[id] \in {0, 1} THEN since[id] + 1
                                                ELSE since[id]
  BY <1>1, <1>5 DEF pollReturns
<1>. QED
  BY <1>1, <1>3, <1>4, <1>5, FunctionIsSeq

(* Starting a Timer does not change how it repeats.                          *)
LEMMA StartTimer ==
  ASSUME TypeOK, NEW id \in Ids, startTimer(id)
  PROVE  /\ Len(timer') = Len(timer)
         /\ timer' \in Seq([expires : Nat, repeat : Nat])
         /\ \A i \in Ids : timer'[i].repeat = timer[i].repeat
<1> DEFINE n == Len(timer)
           T == [expires : Nat, repeat : Nat]
<1>1. /\ n \in Nat /\ Ids = 1..n /\ mn_now \in Nat
      /\ timer \in [1..n -> T]
  BY Numbers
<1>2. /\ timer' \in [1..n -> T]
      /\ \A i \in 1..n : timer'[i].repeat = timer[i].repeat
  BY <1>1 DEF startTimer
<1>. QED
  BY <1>1, <1>2, FunctionIsSeq

(* A callback is counted.                                                    *)
LEMMA CountCallback ==
  ASSUME TypeOK, DataOK, NEW id \in Ids, handleTimerCb(id)
  PROVE  /\ Len(fired') = Len(fired) /\ fired' \in Seq(0..2)
         /\ \A i \in Ids \ {id} : fired'[i] = fired[i]
         /\ fired[id] = 0 => fired'[id] = 1
         /\ fired'[id] > 0
<1> DEFINE n == Len(timer)
<1>1. n \in Nat /\ Ids = 1..n /\ fired \in [1..n -> 0..2] /\ Len(fired) = n
  BY DEF TypeOK, DataOK, Ids, s_num_created_
<1>2. /\ fired' \in [1..n -> 0..2]
      /\ \A i \in 1..n \ {id} : fired'[i] = fired[i]
      /\ fired[id] = 0 => fired'[id] = 1
      /\ fired'[id] > 0
  BY <1>1 DEF handleTimerCb
<1>. QED
  BY <1>1, <1>2, FunctionIsSeq

(* cancel() starts the count of iterations, once.                            *)
LEMMA CancelCounts ==
  ASSUME TypeOK, DataOK, NEW id \in Ids, cancel(id)
  PROVE  /\ Len(since') = Len(since) /\ since' \in Seq(-1..2)
         /\ \A i \in Ids \ {id} : since'[i] = since[i]
         /\ since'[id] = IF since[id] = -1 THEN 0 ELSE since[id]
<1> DEFINE n == Len(timer)
<1>1. n \in Nat /\ Ids = 1..n /\ since \in [1..n -> -1..2] /\ Len(since) = n
  BY DEF TypeOK, DataOK, Ids, s_num_created_
<1>2. /\ since' \in [1..n -> -1..2]
      /\ \A i \in 1..n \ {id} : since'[i] = since[i]
      /\ since'[id] = IF since[id] = -1 THEN 0 ELSE since[id]
  BY <1>1 DEF cancel
<1>. QED
  BY <1>1, <1>2, FunctionIsSeq

-----------------------------------------------------------------------------
(* The inductive invariant. *)

(* The initial state satisfies the inductive invariant. *)
LEMMA InitIInv == Init => IInv
<1> SUFFICES ASSUME Init PROVE IInv
  OBVIOUS
<1>1. timer = <<>> /\ Len(timer) = 0 /\ Ids = {} /\ Queued = {}
  BY DEF Init, Ids, s_num_created_, Queued, Elems
<1>2. TypeOK
  <2>1. clock \in 0..MaxTime /\ mn_now \in 0..clock
    BY DelaysAssumption DEF Init
  <2>2. running \in 0..Len(timer) /\ pc \in [Threads -> 0..Len(timer)]
    BY <1>1 DEF Init
  <2>. QED
    BY <1>1, <2>1, <2>2 DEF Init, TypeOK, s_num_created_
<1>3. DataOK
  BY <1>1 DEF Init, DataOK
<1>4. PlaceInv /\ TimersOwned
  BY DEF Init, PlaceInv, TimersOwned
<1>5. QueueInv
  BY <1>1 DEF Init, QueueInv, InOrder, Elems
<1>6. OneShotInv /\ OneShotOnce /\ CancelInv
  BY <1>1 DEF OneShotInv, OneShotOnce, CancelInv
<1>. QED
  BY <1>2, <1>3, <1>4, <1>5, <1>6 DEF IInv

(* Every step keeps the variables in their types. *)
LEMMA NextTypeOK == TypeOK /\ DataOK /\ QueueInv /\ [Next]_vars => TypeOK'
<1> SUFFICES ASSUME TypeOK, DataOK, QueueInv, [Next]_vars PROVE TypeOK'
  OBVIOUS
<1>0. /\ clock \in Nat /\ mn_now \in Nat /\ running \in Nat
      /\ Len(timer) \in Nat /\ Ids = 1..Len(timer)
  BY Numbers
<1> USE DEF loopVars, libevVars, ownerVars, queueVars, historyVars
<1>1. CASE Tick
  <2>1. clock' \in 0..MaxTime /\ mn_now' \in 0..clock'
    BY <1>0, <1>1, DelaysAssumption DEF Tick, TypeOK
  <2>. QED
    BY <1>1, <2>1 DEF Tick, TypeOK, Ids, s_num_created_
<1>2. ASSUME NEW t \in Threads, NEW r \in Requests,
             runFromThread(t, r[1], r[2])
      PROVE  TypeOK'
  <2>1. newTimer(0, r[1], r[2]) /\ r[1] \in Nat /\ r[2] \in Nat
    BY <1>2, RequestsOK DEF runFromThread
  <2>2. /\ Len(timer') = Len(timer) + 1
        /\ timer' \in Seq([expires : Nat, repeat : Nat])
        /\ Len(fired') = Len(timer') /\ Len(since') = Len(timer')
    BY <2>1, NewTimer
  <2>3. Ids \subseteq Ids' /\ Ids' = 1..(Len(timer) + 1)
    BY <1>0, <2>2 DEF Ids, s_num_created_
  <2>4. pc' \in [Threads -> 0..Len(timer')] /\ running' \in 0..Len(timer')
    BY <1>0, <1>2, <2>2 DEF runFromThread, TypeOK, s_num_created_
  <2>5. UNCHANGED <<at, clock, mn_now, timers_, freed, active, pendings>>
    BY <1>2 DEF runFromThread
  <2>. QED
    BY <2>2, <2>3, <2>4, <2>5 DEF TypeOK, s_num_created_
<1>3. ASSUME NEW r \in Requests, runFromLoop(r[1], r[2]) PROVE TypeOK'
  <2>1. newTimer(mn_now, r[1], r[2]) /\ r[1] \in Nat /\ r[2] \in Nat
    BY <1>3, RequestsOK DEF runFromLoop
  <2>2. /\ Len(timer') = Len(timer) + 1
        /\ timer' \in Seq([expires : Nat, repeat : Nat])
        /\ Len(fired') = Len(timer') /\ Len(since') = Len(timer')
    BY <1>0, <2>1, NewTimer
  <2>3. /\ Ids \subseteq Ids' /\ Ids' = 1..(Len(timer) + 1)
        /\ Len(timer) + 1 \in Ids'
    BY <1>0, <2>2 DEF Ids, s_num_created_
  <2>4. pc' \in [Threads -> 0..Len(timer')] /\ running' \in 0..Len(timer')
    BY <1>0, <1>3, <2>2 DEF runFromLoop, TypeOK, s_num_created_
  <2>5. /\ UNCHANGED <<at, clock, mn_now, freed, pendings>>
        /\ timers_' = timers_ \cup {Len(timer) + 1}
        /\ active' = active \cup {Len(timer) + 1}
    BY <1>3 DEF runFromLoop, s_num_created_
  <2>. QED
    BY <2>2, <2>3, <2>4, <2>5 DEF TypeOK, s_num_created_
<1>4. ASSUME NEW t \in Threads, returnSequence(t) PROVE TypeOK'
  <2>1. pc' \in [Threads -> 0..Len(timer)]
    BY <1>0, <1>4 DEF returnSequence, TypeOK, s_num_created_
  <2>. QED
    BY <1>4, <2>1 DEF returnSequence, TypeOK, Ids, s_num_created_
<1>5. ASSUME NEW id \in Ids, cancel(id) PROVE TypeOK'
  BY <1>5, CancelCounts DEF cancel, TypeOK, Ids, s_num_created_
<1>6. ASSUME NEW t \in Threads, queueUserFunctor(t) PROVE TypeOK'
  BY <1>6 DEF queueUserFunctor, TypeOK, Ids, s_num_created_
<1>7. CASE loop \/ functorReturns \/ iterationEnds
  BY <1>7 DEF loop, functorReturns, iterationEnds, TypeOK, Ids,
              s_num_created_
<1>8. CASE pollReturns
  <2>1. mn_now' \in 0..clock'
    BY <1>0, <1>8 DEF pollReturns
  <2>2. active' \subseteq active /\ pendings' \subseteq active
    BY <1>8 DEF pollReturns, Expired
  <2>. QED
    BY <1>8, <2>1, <2>2, PollTimers
    DEF pollReturns, TypeOK, Ids, s_num_created_
<1>9. ASSUME NEW id \in Ids, handleTimerCb(id) PROVE TypeOK'
  <2>1. running' \in 0..Len(timer)
    BY <1>0, <1>9 DEF handleTimerCb
  <2>. QED
    BY <1>9, <2>1, CountCallback
    DEF handleTimerCb, TypeOK, Ids, s_num_created_
<1>10. CASE callbackReturns
  <2>1. running' \in 0..Len(timer)
    BY <1>0, <1>10 DEF callbackReturns
  <2>. QED
    BY <1>10, <2>1 DEF callbackReturns, destroyTimer, erase, TypeOK, Ids,
                       s_num_created_
<1>11. CASE doPendingFunctors
  BY <1>11 DEF doPendingFunctors, TypeOK, Ids, s_num_created_
<1>12. CASE runFunctor
  <2> DEFINE op == Head(functors)[1]
             id == Head(functors)[2]
  <2>1. CASE op = "add" /\ addTimerInLoop(id)
    <3>1. Head(functors) \in Queued
      BY <1>12, ElemsTail DEF runFunctor, DataOK, Queued
    <3>2. id \in Ids
      BY <2>1, <3>1 DEF QueueInv
    <3>3. /\ Len(timer') = Len(timer)
          /\ timer' \in Seq([expires : Nat, repeat : Nat])
      BY <2>1, <3>2, StartTimer DEF addTimerInLoop
    <3>. QED
      BY <1>12, <2>1, <3>2, <3>3
      DEF runFunctor, addTimerInLoop, startTimer, TypeOK, Ids, s_num_created_
  <2>2. CASE op = "cancel" /\ cancelTimerInLoop(id)
    BY <1>12, <2>2 DEF runFunctor, cancelTimerInLoop, erase, TypeOK, Ids,
                       s_num_created_
  <2>3. CASE op = "user" /\ at' = "functor"
             /\ UNCHANGED <<libevVars, ownerVars, timer>>
    BY <1>12, <2>3 DEF runFunctor, TypeOK, Ids, s_num_created_
  <2>. QED
    BY <1>12, <2>1, <2>2, <2>3 DEF runFunctor
<1>13. CASE destroyLoop
  BY <1>13 DEF destroyLoop, erase, TypeOK, Ids, s_num_created_
<1>14. CASE UNCHANGED vars
  BY <1>14 DEF vars, TypeOK, Ids, s_num_created_
<1>. QED
  BY <1>1, <1>2, <1>3, <1>4, <1>5, <1>6, <1>7, <1>8, <1>9, <1>10, <1>11,
     <1>12, <1>13, <1>14
  DEF Next, ThreadNext, UserNext, LoopStep, cancelFromThread, cancelFromLoop

(* queueInLoop adds one functor to the ones waiting. *)
LEMMA PushQueued ==
  ASSUME DataOK, NEW op \in {"add", "cancel", "user"}, NEW id \in Nat,
         queueInLoop(op, id), UNCHANGED functors
  PROVE  /\ pending_functors_' \in Seq(Functors)
         /\ Elems(pending_functors_') = Elems(pending_functors_) \cup {<<op, id>>}
         /\ Queued' = Queued \cup {<<op, id>>}
<1>1. <<op, id>> \in Functors
  BY DEF Functors
<1>. QED
  BY <1>1, ElemsAppend DEF DataOK, queueInLoop, Queued, Elems

(* The swap at the start of doPendingFunctors changes only their place. *)
LEMMA SwapQueued ==
  ASSUME PlaceInv, doPendingFunctors
  PROVE  functors = <<>> /\ Elems(functors) = {} /\ Queued' = Queued
<1>1. functors = <<>> /\ functors' = pending_functors_
      /\ pending_functors_' = <<>>
  BY DEF PlaceInv, doPendingFunctors
<1>2. Elems(<<>>) = {}
  BY DEF Elems
<1>. QED
  BY <1>1, <1>2 DEF Queued, Elems

(* Running a functor takes it off the batch. *)
LEMMA PopQueued ==
  ASSUME DataOK, runFunctor
  PROVE  /\ functors' \in Seq(Functors) /\ Head(functors) \in Functors
         /\ Elems(functors) = Elems(functors') \cup {Head(functors)}
         /\ Queued = Queued' \cup {Head(functors)}
         /\ UNCHANGED pending_functors_
<1>1. functors # <<>> /\ functors' = Tail(functors)
      /\ pending_functors_' = pending_functors_
  BY DEF runFunctor
<1>2. /\ functors' \in Seq(Functors) /\ Head(functors) \in Functors
      /\ Elems(functors) = Elems(functors') \cup {Head(functors)}
  BY <1>1, ElemsTail DEF DataOK
<1>. QED
  BY <1>1, <1>2 DEF Queued, Elems

(* Every step keeps the histories and the queues in their types. *)
LEMMA NextDataOK ==
  TypeOK /\ DataOK /\ PlaceInv /\ QueueInv /\ [Next]_vars => DataOK'
<1> SUFFICES ASSUME TypeOK, DataOK, PlaceInv, QueueInv, [Next]_vars
             PROVE  DataOK'
  OBVIOUS
<1>0. /\ clock \in Nat /\ mn_now \in Nat /\ Len(timer) \in Nat
      /\ Ids = 1..Len(timer)
      /\ \A e \in Functors : e[1] \in {"add", "cancel", "user"} /\ e[2] \in Nat
      /\ Queued \subseteq Functors
  <2>1. \A e \in Functors : e[1] \in {"add", "cancel", "user"} /\ e[2] \in Nat
    BY DEF Functors
  <2>2. Queued \subseteq Functors
    BY DEF DataOK, Queued, Elems
  <2>. QED
    BY <2>1, <2>2, Numbers
<1> USE DEF loopVars, libevVars, ownerVars, queueVars, historyVars
<1>1. ASSUME NEW base \in Nat, NEW r \in Requests,
             newTimer(base, r[1], r[2]),
             \/ queueInLoop("add", Len(timer) + 1) /\ UNCHANGED functors
             \/ UNCHANGED queueVars
      PROVE  DataOK'
  <2>1. /\ fired' \in Seq(0..2) /\ since' \in Seq(-1..2)
        /\ Len(timer') = Len(timer) + 1
    BY <1>1, RequestsOK, NewTimer
  <2>2. CASE queueInLoop("add", Len(timer) + 1) /\ UNCHANGED functors
    <3>1. /\ pending_functors_' \in Seq(Functors)
          /\ Queued' = Queued \cup {<<"add", Len(timer) + 1>>}
      BY <1>0, <2>2, PushQueued
    <3>2. \A e \in Queued' : e[2] <= Len(timer')
      BY <1>0, <2>1, <3>1 DEF DataOK
    <3>. QED
      BY <2>1, <2>2, <3>1, <3>2 DEF DataOK
  <2>3. CASE UNCHANGED queueVars
    <3>1. Queued' = Queued
      BY <2>3 DEF Queued, Elems
    <3>2. \A e \in Queued' : e[2] <= Len(timer')
      BY <1>0, <2>1, <3>1 DEF DataOK
    <3>. QED
      BY <2>1, <2>3, <3>2 DEF DataOK
  <2>. QED
    BY <1>1, <2>2, <2>3
<1>2. ASSUME NEW t \in Threads, NEW r \in Requests,
             runFromThread(t, r[1], r[2])
      PROVE  DataOK'
  BY <1>1, <1>2 DEF runFromThread, s_num_created_
<1>3. ASSUME NEW r \in Requests, runFromLoop(r[1], r[2]) PROVE DataOK'
  BY <1>0, <1>1, <1>3 DEF runFromLoop
<1>4. ASSUME NEW id \in Ids, cancel(id) PROVE DataOK'
  <2>1. /\ pending_functors_' \in Seq(Functors)
        /\ Queued' = Queued \cup {<<"cancel", id>>}
    BY <1>0, <1>4, PushQueued DEF cancel
  <2>2. \A e \in Queued' : e[2] <= Len(timer)
    BY <1>0, <2>1 DEF DataOK
  <2>. QED
    BY <1>4, <2>1, <2>2, CancelCounts DEF cancel, DataOK
<1>5. ASSUME NEW t \in Threads, queueUserFunctor(t) PROVE DataOK'
  <2>1. /\ pending_functors_' \in Seq(Functors)
        /\ Queued' = Queued \cup {<<"user", 0>>}
    BY <1>5, PushQueued DEF queueUserFunctor
  <2>2. \A e \in Queued' : e[2] <= Len(timer)
    BY <1>0, <2>1 DEF DataOK
  <2>. QED
    BY <1>5, <2>1, <2>2 DEF queueUserFunctor, DataOK
<1>6. CASE doPendingFunctors
  BY <1>6, SwapQueued DEF doPendingFunctors, DataOK
<1>7. CASE runFunctor
  <2>1. Len(timer') = Len(timer)
    <3>1. CASE Head(functors)[1] = "add" /\ addTimerInLoop(Head(functors)[2])
      <4>1. Head(functors)[2] \in Ids
        BY <1>7, <3>1, PopQueued DEF QueueInv
      <4>. QED
        BY <3>1, <4>1, StartTimer DEF addTimerInLoop
    <3>. QED
      BY <1>7, <3>1 DEF runFunctor, cancelTimerInLoop
  <2>. QED
    BY <1>7, <2>1, PopQueued DEF runFunctor, DataOK
<1>8. CASE pollReturns
  BY <1>8, PollTimers DEF pollReturns, DataOK, Queued, Elems
<1>9. ASSUME NEW id \in Ids, handleTimerCb(id) PROVE DataOK'
  <2>1. fired' \in Seq(0..2)
    BY <1>9, CountCallback
  <2>2. UNCHANGED <<functors, pending_functors_, since, timer>>
    BY <1>9 DEF handleTimerCb
  <2>3. Queued' = Queued
    BY <2>2 DEF Queued, Elems
  <2>. QED
    BY <2>1, <2>2, <2>3 DEF DataOK
<1>10. CASE UNCHANGED <<queueVars, historyVars, timer>>
  BY <1>10 DEF DataOK, Queued, Elems
<1>11. ASSUME NEW t \in Threads, returnSequence(t)
       PROVE  UNCHANGED <<queueVars, historyVars, timer>>
  BY <1>11 DEF returnSequence
<1>12. ASSUME Tick \/ loop \/ callbackReturns \/ functorReturns
              \/ iterationEnds \/ destroyLoop \/ UNCHANGED vars
       PROVE  UNCHANGED <<queueVars, historyVars, timer>>
  BY <1>12 DEF Tick, loop, callbackReturns, functorReturns, iterationEnds,
               destroyLoop, vars
<1>. QED
  BY <1>2, <1>3, <1>4, <1>5, <1>6, <1>7, <1>8, <1>9, <1>10, <1>11, <1>12
  DEF Next, ThreadNext, UserNext, LoopStep, cancelFromThread, cancelFromLoop

(* Every step keeps the loop thread's position in line with its state. *)
LEMMA NextPlaceInv ==
  TypeOK /\ DataOK /\ PlaceInv /\ [Next]_vars => PlaceInv'
<1> SUFFICES ASSUME TypeOK, DataOK, PlaceInv, [Next]_vars PROVE PlaceInv'
  OBVIOUS
<1> USE DEF PlaceInv, loopVars, libevVars, ownerVars, queueVars, historyVars
<1>1. CASE Tick
  BY <1>1 DEF Tick
<1>2. CASE ThreadNext
  BY <1>2 DEF ThreadNext, runFromThread, returnSequence, queueUserFunctor,
              cancelFromThread, cancel
<1>3. CASE UserNext
  BY <1>3 DEF UserNext, runFromLoop, cancelFromLoop, cancel
<1>4. CASE pollReturns
  BY <1>4 DEF pollReturns
<1>5. ASSUME NEW id \in Ids, handleTimerCb(id) PROVE PlaceInv'
  <2>1. id # 0
    BY Numbers
  <2>. QED
    BY <1>5, <2>1 DEF handleTimerCb
<1>6. CASE callbackReturns
  BY <1>6 DEF callbackReturns
<1>7. CASE doPendingFunctors
  BY <1>7 DEF doPendingFunctors
<1>8. CASE runFunctor
  BY <1>8 DEF runFunctor, addTimerInLoop, cancelTimerInLoop, erase
<1>9. CASE functorReturns \/ iterationEnds \/ loop
  BY <1>9 DEF functorReturns, iterationEnds, loop
<1>10. CASE destroyLoop
  BY <1>10 DEF destroyLoop, erase
<1>11. CASE UNCHANGED vars
  BY <1>11 DEF vars
<1>. QED
  BY <1>1, <1>2, <1>3, <1>4, <1>5, <1>6, <1>7, <1>8, <1>9, <1>10, <1>11
  DEF Next, LoopStep

(* Every step keeps the Timers of libev and of the running callback owned. *)
LEMMA NextTimersOwned ==
  TypeOK /\ DataOK /\ PlaceInv /\ QueueInv /\ TimersOwned /\ [Next]_vars
    => TimersOwned'
<1> SUFFICES ASSUME TypeOK, DataOK, PlaceInv, QueueInv, TimersOwned,
                    [Next]_vars
             PROVE  TimersOwned'
  OBVIOUS
<1>0. Len(timer) \in Nat /\ Ids = 1..Len(timer)
  BY Numbers
<1> USE DEF loopVars, libevVars, ownerVars, queueVars, historyVars
<1>1. ASSUME NEW r \in Requests, runFromLoop(r[1], r[2]) PROVE TimersOwned'
  <2>1. Len(timer) + 1 \notin freed
    BY <1>0 DEF TypeOK
  <2>. QED
    BY <1>1, <2>1 DEF runFromLoop, TimersOwned, s_num_created_
<1>2. CASE pollReturns
  BY <1>2 DEF pollReturns, Expired, TimersOwned
<1>3. ASSUME NEW id \in Ids, handleTimerCb(id) PROVE TimersOwned'
  BY <1>3 DEF handleTimerCb, TimersOwned
<1>4. CASE callbackReturns
  BY <1>4 DEF callbackReturns, destroyTimer, erase, TimersOwned
<1>5. CASE runFunctor
  <2>0. running = 0 /\ running' = 0
    BY <1>5 DEF runFunctor, PlaceInv
  <2> DEFINE op == Head(functors)[1]
             id == Head(functors)[2]
  <2>1. CASE op = "add" /\ addTimerInLoop(id)
    <3>1. id \notin freed
      BY <1>5, <2>1, PopQueued DEF QueueInv
    <3>. QED
      BY <2>0, <2>1, <3>1 DEF addTimerInLoop, startTimer, TimersOwned
  <2>2. CASE op = "cancel" /\ cancelTimerInLoop(id)
    BY <2>0, <2>2 DEF cancelTimerInLoop, erase, TimersOwned
  <2>3. CASE UNCHANGED <<libevVars, ownerVars>>
    BY <2>0, <2>3 DEF TimersOwned
  <2>. QED
    BY <1>5, <2>1, <2>2, <2>3 DEF runFunctor
<1>6. CASE destroyLoop
  BY <1>6 DEF destroyLoop, erase, TimersOwned, PlaceInv
<1>7. CASE UNCHANGED <<libevVars, ownerVars, running>>
  BY <1>7 DEF TimersOwned
<1>8. ASSUME ThreadNext PROVE UNCHANGED <<libevVars, ownerVars, running>>
  BY <1>8 DEF ThreadNext, runFromThread, returnSequence, queueUserFunctor,
              cancelFromThread, cancel
<1>9. ASSUME NEW id \in Ids, cancelFromLoop(id)
      PROVE  UNCHANGED <<libevVars, ownerVars, running>>
  BY <1>9 DEF cancelFromLoop, cancel
<1>10. ASSUME Tick \/ loop \/ doPendingFunctors \/ functorReturns
              \/ iterationEnds \/ UNCHANGED vars
       PROVE  UNCHANGED <<libevVars, ownerVars, running>>
  BY <1>10 DEF Tick, loop, doPendingFunctors, functorReturns, iterationEnds,
               vars
<1>. QED
  BY <1>1, <1>2, <1>3, <1>4, <1>5, <1>6, <1>7, <1>8, <1>9, <1>10
  DEF Next, UserNext, LoopStep

(* Every step keeps a queued start single, ahead of its cancellations and    *)
(* its Timer untouched.                                                      *)
LEMMA NextQueueInv ==
  TypeOK /\ DataOK /\ PlaceInv /\ QueueInv /\ TimersOwned /\ [Next]_vars
    => QueueInv'
<1> SUFFICES ASSUME TypeOK, DataOK, PlaceInv, QueueInv, TimersOwned,
                    [Next]_vars
             PROVE  QueueInv'
  OBVIOUS
<1>0. /\ mn_now \in Nat /\ Len(timer) \in Nat /\ Ids = 1..Len(timer)
      /\ Queued \subseteq Functors
      /\ \A e \in Functors : e[1] \in {"add", "cancel", "user"} /\ e[2] \in Nat
      /\ \A e \in Queued : e[2] <= Len(timer)
  <2>1. Queued \subseteq Functors
    BY DEF DataOK, Queued, Elems
  <2>2. \A e \in Functors : e[1] \in {"add", "cancel", "user"} /\ e[2] \in Nat
    BY DEF Functors
  <2>3. \A e \in Queued : e[2] <= Len(timer)
    BY DEF DataOK
  <2>. QED
    BY <2>1, <2>2, <2>3, Numbers
<1> USE DEF loopVars, libevVars, ownerVars, queueVars, historyVars
<1>1. ASSUME UNCHANGED queueVars,
             \A e \in Queued : e[1] = "add" =>
               e[2] \in Ids' \ (timers_' \cup freed') /\ fired'[e[2]] = 0
      PROVE  QueueInv'
  BY <1>1 DEF QueueInv, InOrder, Queued, Elems
<1>2. ASSUME NEW op \in {"cancel", "user"}, NEW id \in Nat,
             queueInLoop(op, id),
             UNCHANGED <<functors, timers_, freed, fired, timer>>
      PROVE  QueueInv'
  <2>1. /\ Elems(pending_functors_') =
             Elems(pending_functors_) \cup {<<op, id>>}
        /\ Queued' = Queued \cup {<<op, id>>}
    BY <1>2, PushQueued
  <2>2. InOrder(pending_functors_')
    BY <1>2, InOrderAppend DEF queueInLoop, QueueInv, DataOK, Functors
  <2>3. Elems(functors') = Elems(functors) /\ InOrder(functors')
    BY <1>2 DEF QueueInv, Elems
  <2>4. Ids' = Ids
    BY <1>2 DEF Ids, s_num_created_
  <2>. QED
    BY <1>2, <2>1, <2>2, <2>3, <2>4 DEF QueueInv
<1>3. ASSUME NEW t \in Threads, NEW r \in Requests,
             runFromThread(t, r[1], r[2])
      PROVE  QueueInv'
  <2> DEFINE e == <<"add", Len(timer) + 1>>
  <2>1. newTimer(0, r[1], r[2]) /\ queueInLoop("add", Len(timer) + 1)
        /\ UNCHANGED <<functors, timers_, freed>>
    BY <1>3 DEF runFromThread, s_num_created_
  <2>2. /\ Len(timer') = Len(timer) + 1 /\ fired'[Len(timer) + 1] = 0
        /\ \A id \in Ids : fired'[id] = fired[id]
    BY <2>1, RequestsOK, NewTimer
  <2>3. Ids' = Ids \cup {Len(timer) + 1} /\ Len(timer) + 1 \notin Ids
    BY <1>0, <2>2 DEF Ids, s_num_created_
  <2>4. /\ Elems(pending_functors_') = Elems(pending_functors_) \cup {e}
        /\ Queued' = Queued \cup {e}
    BY <1>0, <2>1, PushQueued
  <2>5. e \in Functors /\ \A f \in Queued : f[2] # e[2]
    BY <1>0 DEF Functors
  <2>6. InOrder(pending_functors_')
    BY <2>1, <2>5, InOrderAppend DEF queueInLoop, QueueInv, DataOK, Queued
  <2>7. Elems(functors') = Elems(functors) /\ InOrder(functors')
    BY <2>1 DEF QueueInv, Elems
  <2>8. Len(timer) + 1 \notin timers_ \cup freed
    BY <2>3 DEF TypeOK
  <2>. QED
    BY <2>1, <2>2, <2>3, <2>4, <2>5, <2>6, <2>7, <2>8 DEF QueueInv, Queued
<1>4. ASSUME NEW r \in Requests, runFromLoop(r[1], r[2]) PROVE QueueInv'
  <2>1. newTimer(mn_now, r[1], r[2])
        /\ timers_' = timers_ \cup {Len(timer) + 1} /\ freed' = freed
        /\ UNCHANGED queueVars
    BY <1>4 DEF runFromLoop, s_num_created_
  <2>2. /\ Len(timer') = Len(timer) + 1
        /\ \A id \in Ids : fired'[id] = fired[id]
    BY <1>0, <2>1, RequestsOK, NewTimer
  <2>3. Ids' = Ids \cup {Len(timer) + 1} /\ Len(timer) + 1 \notin Ids
    BY <1>0, <2>2 DEF Ids, s_num_created_
  <2>. QED
    BY <1>1, <2>1, <2>2, <2>3 DEF QueueInv
<1>5. ASSUME NEW id \in Ids, cancel(id) PROVE QueueInv'
  BY <1>0, <1>2, <1>5 DEF cancel
<1>6. ASSUME NEW t \in Threads, queueUserFunctor(t) PROVE QueueInv'
  BY <1>2, <1>6 DEF queueUserFunctor
<1>7. CASE doPendingFunctors
  <2>1. functors = <<>> /\ functors' = pending_functors_
        /\ pending_functors_' = <<>> /\ Queued' = Queued
        /\ UNCHANGED <<timers_, freed, fired, timer>>
    BY <1>7, SwapQueued DEF doPendingFunctors
  <2>2. Elems(pending_functors_') = {} /\ InOrder(pending_functors_')
    BY <2>1 DEF Elems, InOrder
  <2>3. Ids' = Ids
    BY <2>1 DEF Ids, s_num_created_
  <2>. QED
    BY <2>1, <2>2, <2>3 DEF QueueInv
<1>8. CASE runFunctor
  <2> DEFINE op == Head(functors)[1]
             id == Head(functors)[2]
  <2>1. /\ Elems(functors) = Elems(functors') \cup {Head(functors)}
        /\ Queued = Queued' \cup {Head(functors)}
        /\ Elems(pending_functors_') = Elems(pending_functors_)
        /\ InOrder(pending_functors_')
    BY <1>8, PopQueued DEF Elems, QueueInv
  <2>2. /\ InOrder(functors')
        /\ \A f \in Elems(functors') : f[1] = "add" => f[2] # id
    BY <1>8, InOrderTail DEF runFunctor, QueueInv, DataOK
  <2>3. \A f \in Queued' : f[1] = "add" => f[2] # id
    BY <2>1, <2>2 DEF QueueInv, Queued
  <2>4. Ids' = Ids
    <3>1. CASE op = "add" /\ addTimerInLoop(id)
      <4>1. id \in Ids
        BY <2>1, <3>1 DEF QueueInv
      <4>. QED
        BY <3>1, <4>1, StartTimer DEF addTimerInLoop, Ids, s_num_created_
    <3>. QED
      BY <1>8, <3>1 DEF runFunctor, cancelTimerInLoop, Ids, s_num_created_
  <2>5. fired' = fired /\ timers_' \cup freed' \subseteq timers_ \cup freed \cup {id}
    BY <1>8 DEF runFunctor, addTimerInLoop, cancelTimerInLoop, erase
  <2>. QED
    BY <2>1, <2>2, <2>3, <2>4, <2>5 DEF QueueInv
<1>9. CASE pollReturns
  <2>1. Ids' = Ids
    BY <1>9, PollTimers DEF Ids, s_num_created_
  <2>. QED
    BY <1>1, <1>9, <2>1 DEF pollReturns, QueueInv
<1>10. ASSUME NEW id \in Ids, handleTimerCb(id) PROVE QueueInv'
  <2>1. id \in timers_
    BY <1>10 DEF handleTimerCb, TimersOwned
  <2>2. \A i \in Ids \ {id} : fired'[i] = fired[i]
    BY <1>10, CountCallback
  <2>3. UNCHANGED <<queueVars, timers_, freed, timer>>
    BY <1>10 DEF handleTimerCb
  <2>4. Ids' = Ids
    BY <2>3 DEF Ids, s_num_created_
  <2>. QED
    BY <1>1, <2>1, <2>2, <2>3, <2>4 DEF QueueInv
<1>11. CASE /\ UNCHANGED <<queueVars, fired, timer>>
            /\ timers_' \cup freed' \subseteq timers_ \cup freed
  <2>1. Ids' = Ids
    BY <1>11 DEF Ids, s_num_created_
  <2>. QED
    BY <1>1, <1>11, <2>1 DEF QueueInv
<1>12. ASSUME NEW t \in Threads, returnSequence(t) PROVE QueueInv'
  BY <1>11, <1>12 DEF returnSequence
<1>13. CASE callbackReturns \/ destroyLoop
  BY <1>11, <1>13 DEF callbackReturns, destroyLoop, destroyTimer, erase
<1>14. CASE Tick \/ loop \/ functorReturns \/ iterationEnds \/ UNCHANGED vars
  BY <1>11, <1>14 DEF Tick, loop, functorReturns, iterationEnds, vars
<1>. QED
  BY <1>3, <1>4, <1>5, <1>6, <1>7, <1>8, <1>9, <1>10, <1>12, <1>13, <1>14
  DEF Next, ThreadNext, UserNext, LoopStep, cancelFromThread, cancelFromLoop

(* No step changes how a Timer repeats; a Timer that a step makes has not    *)
(* fired and is not cancelled.                                               *)
LEMMA TimersGrow ==
  ASSUME TypeOK, DataOK, QueueInv, [Next]_vars
  PROVE  /\ Ids \subseteq Ids'
         /\ \A id \in Ids : timer'[id].repeat = timer[id].repeat
         /\ \A id \in Ids' \ Ids : fired'[id] = 0 /\ since'[id] = -1
<1>0. mn_now \in Nat /\ Len(timer) \in Nat /\ Ids = 1..Len(timer)
  BY Numbers
<1> DEFINE Goal == /\ Ids \subseteq Ids'
                   /\ \A id \in Ids : timer'[id].repeat = timer[id].repeat
                   /\ \A id \in Ids' \ Ids : fired'[id] = 0 /\ since'[id] = -1
<1> USE DEF loopVars, libevVars, ownerVars, queueVars, historyVars
<1>1. ASSUME NEW base \in Nat, NEW r \in Requests, newTimer(base, r[1], r[2])
      PROVE  Goal
  <2>1. /\ Len(timer') = Len(timer) + 1
        /\ fired'[Len(timer) + 1] = 0 /\ since'[Len(timer) + 1] = -1
        /\ \A id \in Ids : timer'[id] = timer[id]
    BY <1>1, RequestsOK, NewTimer
  <2>2. Ids' = Ids \cup {Len(timer) + 1}
    BY <1>0, <2>1 DEF Ids, s_num_created_
  <2>. QED
    BY <2>1, <2>2
<1>2. ASSUME NEW t \in Threads, NEW r \in Requests,
             runFromThread(t, r[1], r[2])
      PROVE  Goal
  BY <1>1, <1>2 DEF runFromThread
<1>3. ASSUME NEW r \in Requests, runFromLoop(r[1], r[2]) PROVE Goal
  BY <1>0, <1>1, <1>3 DEF runFromLoop
<1>4. ASSUME pollReturns PROVE Goal
  BY <1>4, PollTimers DEF Ids, s_num_created_
<1>5. ASSUME runFunctor PROVE Goal
  <2>1. CASE Head(functors)[1] = "add" /\ addTimerInLoop(Head(functors)[2])
    <3>1. Head(functors)[2] \in Ids
      BY <1>5, <2>1, PopQueued DEF QueueInv
    <3>. QED
      BY <2>1, <3>1, StartTimer DEF addTimerInLoop, Ids, s_num_created_
  <2>. QED
    BY <1>5, <2>1 DEF runFunctor, cancelTimerInLoop, Ids, s_num_created_
<1>6. ASSUME UNCHANGED timer PROVE Goal
  BY <1>6 DEF Ids, s_num_created_
<1>7. ASSUME NEW t \in Threads, returnSequence(t) \/ queueUserFunctor(t)
      PROVE  UNCHANGED timer
  BY <1>7 DEF returnSequence, queueUserFunctor
<1>8. ASSUME NEW id, cancel(id) \/ handleTimerCb(id) PROVE UNCHANGED timer
  BY <1>8 DEF cancel, handleTimerCb
<1>9. ASSUME Tick \/ loop \/ callbackReturns \/ doPendingFunctors
             \/ functorReturns \/ iterationEnds \/ destroyLoop
             \/ UNCHANGED vars
      PROVE  UNCHANGED timer
  BY <1>9 DEF Tick, loop, callbackReturns, doPendingFunctors, functorReturns,
              iterationEnds, destroyLoop, vars
<1> HIDE DEF Goal
<1>10. Goal
  BY <1>2, <1>3, <1>4, <1>5, <1>6, <1>7, <1>8, <1>9
  DEF Next, ThreadNext, UserNext, LoopStep, cancelFromThread, cancelFromLoop
<1>. QED
  BY <1>10 DEF Goal

OneShots == OneShotInv /\ OneShotOnce

(* Every step keeps a one-shot Timer's callback its last one. *)
LEMMA NextOneShots ==
  TypeOK /\ DataOK /\ PlaceInv /\ QueueInv /\ TimersOwned /\ OneShots
    /\ [Next]_vars => OneShots'
<1> SUFFICES ASSUME TypeOK, DataOK, PlaceInv, QueueInv, TimersOwned, OneShots,
                    [Next]_vars
             PROVE  OneShots'
  OBVIOUS
<1>0. /\ Len(timer) \in Nat /\ Ids = 1..Len(timer)
      /\ \A id \in Ids : fired[id] \in 0..2 /\ timer[id].repeat \in Nat
  BY Numbers DEF TypeOK, DataOK
<1>1. /\ Ids \subseteq Ids'
      /\ \A id \in Ids : timer'[id].repeat = timer[id].repeat
      /\ \A id \in Ids' \ Ids : fired'[id] = 0
  BY TimersGrow
<1> USE DEF loopVars, libevVars, ownerVars, queueVars, historyVars
(* A step that starts no Timer but unfired ones, and makes no callback. *)
<1>2. ASSUME \A id \in Ids : fired'[id] = fired[id],
             \A id \in Ids' : id \in pendings' => id \in pendings,
             \A id \in active' \ active : fired'[id] = 0 /\ id \notin pendings,
             freed \subseteq freed',
             running' = running
      PROVE  OneShots'
  <2> SUFFICES ASSUME NEW id \in Ids', timer'[id].repeat = 0
               PROVE  /\ fired'[id] > 0 => id \notin active' \cup pendings'
                      /\ id \in pendings' => id \notin active'
                      /\ fired'[id] <= 1
                      /\ fired'[id] = 1 /\ running' # id => id \in freed'
    BY DEF OneShots, OneShotInv, OneShotOnce
  <2>1. CASE id \in Ids
    BY <1>0, <1>1, <1>2, <2>1 DEF OneShots, OneShotInv, OneShotOnce
  <2>2. CASE id \notin Ids
    <3>1. fired'[id] = 0 /\ id \notin pendings
      BY <1>1, <2>2 DEF TypeOK
    <3>. QED
      BY <1>2, <3>1
  <2>. QED
    BY <2>1, <2>2
<1>3. ASSUME NEW base \in Nat, NEW r \in Requests, newTimer(base, r[1], r[2])
      PROVE  \A id \in Ids : fired'[id] = fired[id]
  BY <1>3, RequestsOK, NewTimer
<1>4. ASSUME NEW t \in Threads, NEW r \in Requests,
             runFromThread(t, r[1], r[2])
      PROVE  OneShots'
  BY <1>2, <1>3, <1>4 DEF runFromThread
<1>5. ASSUME NEW r \in Requests, runFromLoop(r[1], r[2]) PROVE OneShots'
  <2>1. newTimer(mn_now, r[1], r[2]) /\ mn_now \in Nat
    BY <1>5, Numbers DEF runFromLoop
  <2>2. Len(timer') = Len(timer) + 1 /\ fired'[Len(timer) + 1] = 0
    BY <2>1, RequestsOK, NewTimer
  <2>3. Len(timer) + 1 \notin pendings
    BY <1>0 DEF TypeOK
  <2>. QED
    BY <1>2, <1>3, <1>5, <2>1, <2>2, <2>3 DEF runFromLoop, s_num_created_
<1>6. CASE pollReturns
  <2>1. /\ pendings = {} /\ running = 0 /\ running' = 0
        /\ fired' = fired /\ freed' = freed /\ Ids' = Ids
        /\ pendings' \subseteq active /\ active' \subseteq active
        /\ \A id \in active' \cap pendings' : timer[id].repeat > 0
    BY <1>6, PollTimers
    DEF pollReturns, PlaceInv, Expired, Ids, s_num_created_
  <2>. QED
    BY <1>0, <1>1, <2>1 DEF OneShots, OneShotInv, OneShotOnce
<1>7. ASSUME NEW id \in Ids, handleTimerCb(id) PROVE OneShots'
  <2>1. /\ id \in pendings /\ pendings' = pendings \ {id}
        /\ running = 0 /\ running' = id
        /\ UNCHANGED <<active, freed, timer>>
    BY <1>7 DEF handleTimerCb, PlaceInv
  <2>2. /\ \A i \in Ids \ {id} : fired'[i] = fired[i]
        /\ fired[id] = 0 => fired'[id] = 1
    BY <1>7, CountCallback
  <2>3. timer[id].repeat = 0 => fired[id] = 0 /\ id \notin active
    BY <1>0, <2>1 DEF OneShots, OneShotInv
  <2>4. Ids' = Ids /\ 0 \notin Ids
    BY <1>0, <2>1 DEF Ids, s_num_created_
  <2> SUFFICES ASSUME NEW i \in Ids, timer[i].repeat = 0
               PROVE  /\ fired'[i] > 0 => i \notin active' \cup pendings'
                      /\ i \in pendings' => i \notin active'
                      /\ fired'[i] <= 1
                      /\ fired'[i] = 1 /\ running' # i => i \in freed'
    BY <2>1, <2>4 DEF OneShots, OneShotInv, OneShotOnce
  <2>5. CASE i = id
    BY <2>1, <2>2, <2>3, <2>5
  <2>6. CASE i # id
    BY <2>1, <2>2, <2>4, <2>6 DEF OneShots, OneShotInv, OneShotOnce
  <2>. QED
    BY <2>5, <2>6
<1>8. CASE callbackReturns
  <2>1. /\ running \in timers_ /\ running \in Ids /\ running' = 0
        /\ UNCHANGED <<fired, timer>>
    BY <1>8 DEF callbackReturns, PlaceInv, TimersOwned, TypeOK
  <2>2. Ids' = Ids
    BY <2>1 DEF Ids, s_num_created_
  <2>3. /\ active' \subseteq active /\ pendings' \subseteq pendings
        /\ freed \subseteq freed'
        /\ timer[running].repeat = 0 => running \in freed'
    BY <1>0, <1>8, <2>1 DEF callbackReturns, destroyTimer, erase
  <2>. QED
    BY <2>1, <2>2, <2>3 DEF OneShots, OneShotInv, OneShotOnce
<1>9. CASE runFunctor
  <2> DEFINE op == Head(functors)[1]
             id == Head(functors)[2]
  <2>1. CASE op = "add" /\ addTimerInLoop(id)
    <3>1. fired[id] = 0 /\ id \notin timers_
      BY <1>9, <2>1, PopQueued DEF QueueInv
    <3>2. id \notin pendings
      BY <3>1 DEF TimersOwned
    <3>3. active' = active \cup {id} /\ UNCHANGED <<fired, pendings, freed, running>>
      BY <1>9, <2>1 DEF runFunctor, addTimerInLoop, startTimer
    <3>. QED
      BY <1>2, <3>1, <3>2, <3>3
  <2>2. CASE op = "cancel" /\ cancelTimerInLoop(id)
    BY <1>2, <1>9, <2>2 DEF runFunctor, cancelTimerInLoop, erase
  <2>3. CASE UNCHANGED <<libevVars, ownerVars>>
    BY <1>2, <1>9, <2>3 DEF runFunctor
  <2>. QED
    BY <1>9, <2>1, <2>2, <2>3 DEF runFunctor
<1>10. CASE destroyLoop
  BY <1>2, <1>10 DEF destroyLoop, erase
<1>11. CASE UNCHANGED <<libevVars, ownerVars, running, fired>>
  BY <1>2, <1>11
<1>12. ASSUME NEW t \in Threads, returnSequence(t) \/ queueUserFunctor(t)
       PROVE  UNCHANGED <<libevVars, ownerVars, running, fired>>
  BY <1>12 DEF returnSequence, queueUserFunctor
<1>13. ASSUME NEW id, cancel(id)
       PROVE  UNCHANGED <<libevVars, ownerVars, running, fired>>
  BY <1>13 DEF cancel
<1>14. ASSUME Tick \/ loop \/ doPendingFunctors \/ functorReturns
              \/ iterationEnds \/ UNCHANGED vars
       PROVE  UNCHANGED <<libevVars, ownerVars, running, fired>>
  BY <1>14 DEF Tick, loop, doPendingFunctors, functorReturns, iterationEnds,
               vars
<1>. QED
  BY <1>4, <1>5, <1>6, <1>7, <1>8, <1>9, <1>10, <1>11, <1>12, <1>13, <1>14
  DEF Next, ThreadNext, UserNext, LoopStep, cancelFromThread, cancelFromLoop

(* A Timer that is gone stays gone: nothing stores it again. *)
LEMMA GoneStays ==
  ASSUME TypeOK, DataOK, PlaceInv, [Next]_vars, NEW id \in Ids, Gone(id)
  PROVE  Gone(id)'
<1>0. mn_now \in Nat /\ Len(timer) \in Nat /\ Ids = 1..Len(timer)
  BY Numbers
<1> USE DEF loopVars, libevVars, ownerVars, queueVars, historyVars
<1>1. ASSUME timers_' \subseteq timers_, Queued' \subseteq Queued
      PROVE  Gone(id)'
  BY <1>1 DEF Gone
<1>2. ASSUME NEW op \in {"cancel", "user"}, NEW i \in Nat, queueInLoop(op, i),
             UNCHANGED <<functors, timers_>>
      PROVE  Gone(id)'
  <2>1. Queued' = Queued \cup {<<op, i>>}
    BY <1>2, PushQueued
  <2>. QED
    BY <1>2, <2>1 DEF Gone
<1>3. ASSUME NEW t \in Threads, NEW r \in Requests,
             runFromThread(t, r[1], r[2])
      PROVE  Gone(id)'
  <2>1. queueInLoop("add", Len(timer) + 1) /\ UNCHANGED <<functors, timers_>>
    BY <1>3 DEF runFromThread, s_num_created_
  <2>2. Queued' = Queued \cup {<<"add", Len(timer) + 1>>}
    BY <1>0, <2>1, PushQueued
  <2>3. id # Len(timer) + 1
    BY <1>0
  <2>. QED
    BY <2>1, <2>2, <2>3 DEF Gone
<1>4. ASSUME NEW r \in Requests, runFromLoop(r[1], r[2]) PROVE Gone(id)'
  <2>1. timers_' = timers_ \cup {Len(timer) + 1} /\ UNCHANGED queueVars
    BY <1>4 DEF runFromLoop, s_num_created_
  <2>2. id # Len(timer) + 1 /\ Queued' = Queued
    BY <1>0, <2>1 DEF Queued, Elems
  <2>. QED
    BY <2>1, <2>2 DEF Gone
<1>5. ASSUME NEW i \in Ids, cancel(i) PROVE Gone(id)'
  BY <1>0, <1>2, <1>5 DEF cancel
<1>6. ASSUME NEW t \in Threads, queueUserFunctor(t) PROVE Gone(id)'
  BY <1>2, <1>6 DEF queueUserFunctor
<1>7. CASE doPendingFunctors
  BY <1>1, <1>7, SwapQueued DEF doPendingFunctors
<1>8. CASE runFunctor
  <2>1. Queued = Queued' \cup {Head(functors)} /\ Head(functors) \in Functors
    BY <1>8, PopQueued
  <2>2. CASE Head(functors)[1] = "add" /\ addTimerInLoop(Head(functors)[2])
    <3>1. Head(functors) = <<"add", Head(functors)[2]>>
      BY <2>1, <2>2 DEF Functors
    <3>2. Head(functors)[2] # id
      BY <2>1, <3>1 DEF Gone
    <3>. QED
      BY <2>1, <2>2, <3>2 DEF addTimerInLoop, Gone
  <2>3. CASE timers_' \subseteq timers_
    BY <1>1, <2>1, <2>3
  <2>. QED
    BY <1>8, <2>2, <2>3 DEF runFunctor, cancelTimerInLoop, erase
<1>9. CASE timers_' \subseteq timers_ /\ UNCHANGED queueVars
  BY <1>1, <1>9 DEF Queued, Elems
<1>10. ASSUME NEW t \in Threads, returnSequence(t)
       PROVE  timers_' \subseteq timers_ /\ UNCHANGED queueVars
  BY <1>10 DEF returnSequence
<1>11. ASSUME NEW i, handleTimerCb(i)
       PROVE  timers_' \subseteq timers_ /\ UNCHANGED queueVars
  BY <1>11 DEF handleTimerCb
<1>12. ASSUME Tick \/ loop \/ pollReturns \/ callbackReturns \/ functorReturns
              \/ iterationEnds \/ destroyLoop \/ UNCHANGED vars
       PROVE  timers_' \subseteq timers_ /\ UNCHANGED queueVars
  BY <1>12 DEF Tick, loop, pollReturns, callbackReturns, functorReturns,
               iterationEnds, destroyLoop, destroyTimer, erase, vars
<1>. QED
  BY <1>3, <1>4, <1>5, <1>6, <1>7, <1>8, <1>9, <1>10, <1>11, <1>12
  DEF Next, ThreadNext, UserNext, LoopStep, cancelFromThread, cancelFromLoop

(* Every step keeps a cancellation on its way until it is carried out. *)
LEMMA NextCancelInv ==
  TypeOK /\ DataOK /\ PlaceInv /\ QueueInv /\ CancelInv /\ [Next]_vars
    => CancelInv'
<1> SUFFICES ASSUME TypeOK, DataOK, PlaceInv, QueueInv, CancelInv,
                    [Next]_vars
             PROVE  CancelInv'
  OBVIOUS
<1>0. /\ mn_now \in Nat /\ Len(timer) \in Nat /\ Ids = 1..Len(timer)
      /\ \A id \in Ids : since[id] \in -1..2
  BY Numbers DEF TypeOK, DataOK
<1>1. /\ \A id \in Ids' \ Ids : since'[id] = -1
      /\ \A id \in Ids : Gone(id) => Gone(id)'
  BY TimersGrow, GoneStays
<1> DEFINE P(id) ==
      /\ since[id] >= 0 => Gone(id) \/ <<"cancel", id>> \in Queued
      /\ since[id] = 1 /\ at \notin {"dispatch", "callback"}
           => Gone(id) \/ <<"cancel", id>> \in Elems(functors)
      /\ since[id] = 2 => Gone(id)
<1>2. ASSUME \A id \in Ids : P(id)' PROVE CancelInv'
  <2>1. ASSUME NEW id \in Ids' PROVE P(id)'
    <3>1. CASE id \in Ids
      BY <1>2, <3>1
    <3>2. CASE id \notin Ids
      <4>1. since'[id] = -1
        BY <1>1, <3>2
      <4>. QED
        BY <4>1
    <3>. QED
      BY <3>1, <3>2
  <2>. QED
    BY <2>1 DEF CancelInv
<1>3. ASSUME NEW id \in Ids, since'[id] = since[id],
             Queued \subseteq Queued', Elems(functors) \subseteq Elems(functors'),
             at \in {"dispatch", "callback"} => at' \in {"dispatch", "callback"}
      PROVE  P(id)'
  BY <1>1, <1>3 DEF CancelInv
<1> USE DEF loopVars, libevVars, ownerVars, queueVars, historyVars
<1>4. ASSUME NEW t \in Threads, NEW r \in Requests,
             runFromThread(t, r[1], r[2])
      PROVE  CancelInv'
  <2>1. \A id \in Ids : since'[id] = since[id]
    BY <1>4, RequestsOK, NewTimer DEF runFromThread
  <2>2. Queued \subseteq Queued' /\ Elems(functors) \subseteq Elems(functors')
    <3>1. queueInLoop("add", Len(timer) + 1) /\ UNCHANGED functors
      BY <1>4 DEF runFromThread, s_num_created_
    <3>. QED
      BY <1>0, <3>1, PushQueued DEF Elems
  <2>. QED
    BY <1>2, <1>3, <1>4, <2>1, <2>2 DEF runFromThread
<1>5. ASSUME NEW r \in Requests, runFromLoop(r[1], r[2]) PROVE CancelInv'
  <2>1. \A id \in Ids : since'[id] = since[id]
    BY <1>0, <1>5, RequestsOK, NewTimer DEF runFromLoop
  <2>2. Queued \subseteq Queued' /\ Elems(functors) \subseteq Elems(functors')
    BY <1>5 DEF runFromLoop, Queued, Elems
  <2>. QED
    BY <1>2, <1>3, <1>5, <2>1, <2>2 DEF runFromLoop
<1>6. ASSUME NEW id \in Ids, cancel(id) PROVE CancelInv'
  <2>1. /\ \A i \in Ids \ {id} : since'[i] = since[i]
        /\ since'[id] = IF since[id] = -1 THEN 0 ELSE since[id]
    BY <1>6, CancelCounts
  <2>2. Queued' = Queued \cup {<<"cancel", id>>}
        /\ Elems(functors) \subseteq Elems(functors')
    BY <1>0, <1>6, PushQueued DEF cancel, Elems
  <2>3. at' = at
    BY <1>6 DEF cancel
  <2>4. CASE since[id] = -1
    <3>1. P(id)'
      BY <2>1, <2>2, <2>4
    <3>2. \A i \in Ids \ {id} : P(i)'
      BY <1>3, <2>1, <2>2, <2>3
    <3>. QED
      BY <1>2, <3>1, <3>2
  <2>5. CASE since[id] # -1
    BY <1>2, <1>3, <2>1, <2>2, <2>3, <2>5
  <2>. QED
    BY <2>4, <2>5
<1>7. ASSUME NEW t \in Threads, queueUserFunctor(t) PROVE CancelInv'
  <2>1. Queued \subseteq Queued' /\ Elems(functors) \subseteq Elems(functors')
    BY <1>7, PushQueued DEF queueUserFunctor, Elems
  <2>. QED
    BY <1>2, <1>3, <1>7, <2>1 DEF queueUserFunctor
<1>8. CASE pollReturns
  <2>1. functors = <<>> /\ functors' = <<>> /\ at = "poll" /\ at' = "dispatch"
    BY <1>8 DEF pollReturns, PlaceInv
  <2>2. Elems(functors) = {} /\ Queued' = Queued
    BY <1>8, <2>1 DEF pollReturns, Queued, Elems
  <2>3. \A id \in Ids : since'[id] = IF since[id] \in {0, 1} THEN since[id] + 1
                                                             ELSE since[id]
    BY <1>8, PollTimers
  <2>4. ASSUME NEW id \in Ids PROVE P(id)'
    <3>1. since[id] >= 1 => Gone(id)
      <4>1. since[id] \in {1, 2} => Gone(id)
        BY <2>1, <2>2 DEF CancelInv
      <4>. QED
        BY <1>0, <4>1
    <3>2. since[id] >= 0 => Gone(id) \/ <<"cancel", id>> \in Queued
      BY DEF CancelInv
    <3>3. /\ since'[id] >= 0 => since[id] >= 0
          /\ since'[id] = 2 => since[id] >= 1
      BY <1>0, <2>3
    <3>. QED
      BY <1>1, <2>1, <2>2, <3>1, <3>2, <3>3
  <2>. QED
    BY <1>2, <2>4
<1>9. CASE doPendingFunctors
  <2>1. Queued' = Queued /\ functors = <<>> /\ since' = since
        /\ functors' = pending_functors_
    BY <1>9, SwapQueued DEF doPendingFunctors
  <2>2. Elems(functors') = Queued
    BY <2>1 DEF Queued, Elems
  <2>3. ASSUME NEW id \in Ids PROVE P(id)'
    <3>1. since[id] >= 0 => Gone(id)' \/ <<"cancel", id>> \in Queued
      BY <1>1 DEF CancelInv
    <3>2. since[id] = 2 => Gone(id)'
      BY <1>1 DEF CancelInv
    <3>. QED
      BY <1>0, <2>1, <2>2, <3>1, <3>2
  <2>. QED
    BY <1>2, <2>3
<1>10. CASE runFunctor
  <2> DEFINE e == Head(functors)
  <2>1. /\ Elems(functors) = Elems(functors') \cup {e}
        /\ Queued = Queued' \cup {e}
        /\ Elems(pending_functors_') = Elems(pending_functors_)
    BY <1>10, PopQueued DEF Elems
  <2>2. \A f \in Elems(functors') : f[1] = "add" => f[2] # e[2]
    BY <1>10, InOrderTail DEF runFunctor, QueueInv, DataOK
  <2>3. \A f \in Queued' : f[1] = "add" => f[2] # e[2]
    BY <2>1, <2>2 DEF QueueInv, Queued
  <2>4. since' = since /\ at \notin {"dispatch", "callback"}
    BY <1>10 DEF runFunctor
  <2>5. ASSUME NEW id \in Ids, e = <<"cancel", id>> PROVE Gone(id)'
    <3>1. id \notin timers_'
      BY <1>10, <2>5 DEF runFunctor, cancelTimerInLoop, erase
    <3>. QED
      BY <2>3, <2>5, <3>1 DEF Gone
  <2>6. ASSUME NEW id \in Ids PROVE P(id)'
    BY <1>1, <2>1, <2>4, <2>5 DEF CancelInv
  <2>. QED
    BY <1>2, <2>6
<1>11. CASE /\ UNCHANGED <<queueVars, since>>
            /\ at \in {"dispatch", "callback"}
                 => at' \in {"dispatch", "callback"}
  <2>1. Queued' = Queued /\ Elems(functors') = Elems(functors)
    BY <1>11 DEF Queued, Elems
  <2>. QED
    BY <1>2, <1>3, <1>11, <2>1
<1>12. ASSUME NEW t \in Threads, returnSequence(t) PROVE CancelInv'
  BY <1>11, <1>12 DEF returnSequence
<1>13. ASSUME NEW id, handleTimerCb(id) PROVE CancelInv'
  BY <1>11, <1>13 DEF handleTimerCb
<1>14. CASE Tick \/ loop \/ callbackReturns \/ functorReturns \/ iterationEnds
            \/ destroyLoop \/ UNCHANGED vars
  BY <1>11, <1>14 DEF Tick, loop, callbackReturns, functorReturns,
                      iterationEnds, destroyLoop, vars
<1>. QED
  BY <1>4, <1>5, <1>6, <1>7, <1>8, <1>9, <1>10, <1>12, <1>13, <1>14
  DEF Next, ThreadNext, UserNext, LoopStep, cancelFromThread, cancelFromLoop

-----------------------------------------------------------------------------
(* The inductive invariant holds in every reachable state. *)
THEOREM Inductive == Spec => []IInv
<1>1. IInv /\ [Next]_vars => IInv'
  BY NextTypeOK, NextDataOK, NextPlaceInv, NextTimersOwned, NextQueueInv,
     NextOneShots, NextCancelInv DEF IInv, OneShots
<1>. QED
  BY InitIInv, <1>1, PTL DEF Spec

(* The variables keep their types, whatever the program asks of the loop: in *)
(* particular no Timer ever gets a negative deadline.                        *)
THEOREM TypesHold == Spec => []TypeOK
BY Inductive, PTL DEF IInv

(* libev never holds a watcher whose Timer was deleted, and destroyTimer's   *)
(* DCHECK(n == 1) holds, whatever is cancelled while a callback runs.        *)
THEOREM TimersStayOwned == Spec => []TimersOwned
BY Inductive, PTL DEF IInv

(* A one-shot timer is called at most once and then deleted.                 *)
THEOREM OneShotsFireOnce == Spec => []OneShotOnce
BY Inductive, PTL DEF IInv

(* After cancel() a timer may be called in this iteration and in the next    *)
(* one, and never again.                                                     *)
THEOREM CancelledTimersStop == Spec => []CancelSticks
<1>1. IInv => CancelSticks
  <2> SUFFICES ASSUME IInv, running # 0 PROVE since[running] <= 1
    BY DEF CancelSticks
  <2>1. running \in timers_ /\ running \in Ids
    BY DEF IInv, TimersOwned, TypeOK
  <2>2. since[running] \in -1..2
    BY <2>1, Numbers DEF IInv, TypeOK, DataOK
  <2>3. since[running] # 2
    BY <2>1 DEF IInv, CancelInv, Gone
  <2>. QED
    BY <2>2, <2>3
<1>. QED
  BY Inductive, <1>1, PTL

(* A Timer that was erased, or cancelled before its start was run, is never  *)
(* stored or queued again: its sequence is not used twice.                   *)
THEOREM GoneForGood == Spec => [][\A id \in Ids : Gone(id) => Gone(id)']_vars
<1>1. IInv /\ [Next]_vars => [\A id \in Ids : Gone(id) => Gone(id)']_vars
  BY GoneStays DEF IInv
<1>. QED
  BY Inductive, <1>1, PTL DEF Spec

=============================================================================

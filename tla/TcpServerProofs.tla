--------------------------- MODULE TcpServerProofs ---------------------------
(***************************************************************************)
(* TcpServer's safety properties for any number of I/O threads and clients. *)
(***************************************************************************)
EXTENDS TcpServer, SequenceTheorems, FiniteSetTheorems, TLAPS

States == {"kConnecting", "kConnected", "kDisconnecting", "kDisconnected"}
Places == {"none", "created", "initialised", "published", "loop"}
Ops == {"connectEstablished", "removeConnectionInLoop", "connectDestroyed"}
Functors == [op : Ops, conn : Conns]

PoolTypes ==
  /\ started_ \in BOOLEAN /\ listening_ \in BOOLEAN
  /\ num_threads_ \in 0..MaxThreads /\ waits \in 0..MaxThreads
  /\ loops_ \in Seq(Nat)
  /\ main \in [Threads -> Places]
  /\ loop_ \in [Threads -> Nat] /\ event_ \in [Threads -> BOOLEAN]
  /\ clients \in Nat /\ backlog \in Nat
  /\ next_ \in Nat /\ next_conn_id_ \in Nat \ {0}

ConnTypes ==
  /\ server \in BOOLEAN /\ connections_ \subseteq Accepted
  /\ state_ \in [Conns -> States] /\ loopOf \in [Conns -> Loops]
  /\ ups \in [Conns -> Nat] /\ downs \in [Conns -> Nat]
  /\ gone \in [Conns -> BOOLEAN]
  /\ queue \in [Loops -> Seq(Functors)]

(* Every connection was a client that came. *)
ClientInv == clients <= MaxClients /\ next_conn_id_ - 1 + backlog <= clients

(* The start of the threads, one after the other: the signal comes after the *)
(* loop is published, and the Acceptor listens when all loops are there.     *)
PoolInv ==
  /\ \A t \in Threads :
       /\ main[t] \in {"published", "loop"} => loop_[t] = t
       /\ event_[t] = TRUE => main[t] = "loop"
       /\ main[t] = "none" \/ t <= Len(loops_) \/ t = waits
  /\ Len(loops_) <= MaxThreads
  /\ \A i \in 1..Len(loops_) : loops_[i] = i /\ main[i] = "loop"
  /\ waits # 0 => /\ started_ = TRUE /\ waits <= num_threads_
                  /\ Len(loops_) = waits - 1 /\ next_conn_id_ = 1
                  /\ listening_ = FALSE
  /\ started_ = FALSE => loops_ = <<>> /\ next_conn_id_ = 1 /\ listening_ = FALSE
  /\ started_ = TRUE /\ waits = 0 => Len(loops_) = num_threads_

(* The next loop, and the loops given so far. *)
NextInv ==
  /\ next_conn_id_ = 1 => next_ = 0
  /\ loops_ = <<>> => next_ = 0
  /\ loops_ # <<>> => next_ < Len(loops_)
  /\ \A c \in Accepted : loopOf[c] \in (IF loops_ = <<>> THEN {Base}
                                        ELSE 1..Len(loops_))

(* A functor is in a queue, or waits on a loop. *)
Has(q, f) == \E i \in 1..Len(q) : q[i] = f
In(l, op, c) == Has(queue[l], functor(op, c))

(* Of two functors for the same connection on one loop the first is          *)
(* connectEstablished and the second connectDestroyed.                       *)
InTurn(q) ==
  \A i, j \in 1..Len(q) :
    i < j /\ q[i].conn = q[j].conn =>
      q[i].op = "connectEstablished" /\ q[j].op = "connectDestroyed"

(* The loop a functor belongs on. *)
Home(op, c) == IF op = "removeConnectionInLoop" THEN Base ELSE loopOf[c]

QueueInv ==
  /\ \A l \in Loops : InTurn(queue[l])
  /\ \A l \in Loops, op \in Ops, c \in Conns :
       In(l, op, c) => c \in Accepted /\ l = Home(op, c)

(* How far an accepted connection is: what waits for it, who holds it and     *)
(* what was reported.                                                         *)
ConnInv(c) ==
  LET e == In(loopOf[c], "connectEstablished", c)
      r == In(Base, "removeConnectionInLoop", c)
      d == In(loopOf[c], "connectDestroyed", c)
  IN  /\ state_[c] = "kConnecting" <=> e
      /\ state_[c] = "kConnecting" =>
           loopOf[c] # Base /\ gone[c] = FALSE /\ ups[c] = 0 /\ downs[c] = 0
      /\ state_[c] \in {"kConnected", "kDisconnecting"} => ups[c] = 1 /\ downs[c] = 0
      /\ state_[c] = "kDisconnected" => ups[c] = 1 /\ downs[c] = 1
      /\ r => /\ state_[c] = "kDisconnected" /\ loopOf[c] # Base
              /\ server = TRUE => c \in connections_
      /\ c \in connections_ =>
           /\ server = TRUE /\ gone[c] = FALSE /\ ~d
           /\ state_[c] = "kDisconnected" => r
      /\ c \notin connections_ =>
           /\ gone[c] = FALSE <=> d
           /\ server = TRUE => state_[c] = "kDisconnected"
           /\ gone[c] = TRUE => state_[c] \in {"kDisconnecting", "kDisconnected"}

ConnsInv ==
  /\ \A c \in Accepted : ConnInv(c)
  /\ \A c \in Conns \ Accepted :
       /\ state_[c] = "kConnecting" /\ gone[c] = FALSE
       /\ ups[c] = 0 /\ downs[c] = 0

(* Without its server the Acceptor is gone, and no thread is being started. *)
ServerInv == server = FALSE => listening_ = FALSE /\ waits = 0

PoolIInv == PoolTypes /\ ClientInv /\ PoolInv /\ NextInv

ConnIInv == ConnTypes /\ QueueInv /\ ConnsInv

IInv == PoolIInv /\ ServerInv /\ ConnIInv

-----------------------------------------------------------------------------
(* Queues of functors. *)

(* A functor is its operation and its connection. *)
LEMMA FunctorOK ==
  /\ \A op \in Ops, c \in Conns :
       /\ functor(op, c) \in Functors
       /\ functor(op, c).op = op /\ functor(op, c).conn = c
  /\ \A f \in Functors : f.op \in Ops /\ f.conn \in Conns
                         /\ f = functor(f.op, f.conn)
  /\ \A op, c, p, d : functor(op, c) = functor(p, d) => op = p /\ c = d
BY DEF functor, Functors

(* A functor queued behind the others. *)
LEMMA AppendQueue ==
  ASSUME NEW q \in Seq(Functors), NEW f \in Functors
  PROVE  /\ Append(q, f) \in Seq(Functors)
         /\ \A g : Has(Append(q, f), g) <=> Has(q, g) \/ g = f
         /\ /\ InTurn(q)
            /\ \A g \in Functors : Has(q, g) /\ g.conn = f.conn =>
                 g.op = "connectEstablished" /\ f.op = "connectDestroyed"
            => InTurn(Append(q, f))
<1> DEFINE r == Append(q, f)
<1>1. /\ Len(q) \in Nat /\ r \in Seq(Functors) /\ Len(r) = Len(q) + 1
      /\ \A i \in 1..Len(q) : r[i] = q[i] /\ q[i] \in Functors
      /\ r[Len(q) + 1] = f
  BY AppendProperties
<1> HIDE DEF r
<1>2. ASSUME NEW g PROVE Has(r, g) <=> Has(q, g) \/ g = f
  BY <1>1 DEF Has
<1>3. ASSUME InTurn(q),
             \A g \in Functors : Has(q, g) /\ g.conn = f.conn =>
               g.op = "connectEstablished" /\ f.op = "connectDestroyed"
      PROVE  InTurn(r)
  BY <1>1, <1>3 DEF InTurn, Has
<1>. QED
  BY <1>1, <1>2, <1>3 DEF r

(* The first functor taken off: what is left is the others, and of its        *)
(* connection at most connectDestroyed behind connectEstablished.             *)
LEMMA TailQueue ==
  ASSUME NEW q \in Seq(Functors), q # <<>>, InTurn(q)
  PROVE  /\ Tail(q) \in Seq(Functors) /\ InTurn(Tail(q))
         /\ Head(q) \in Functors /\ Has(q, Head(q))
         /\ \A g : Has(Tail(q), g) <=> Has(q, g) /\ g # Head(q)
         /\ \A g : Has(Tail(q), g) /\ g.conn = Head(q).conn =>
              Head(q).op = "connectEstablished" /\ g.op = "connectDestroyed"
<1> DEFINE r == Tail(q)
           h == Head(q)
<1>1. /\ Len(q) \in Nat \ {0} /\ r \in Seq(Functors) /\ Len(r) = Len(q) - 1
      /\ \A i \in 1..Len(q) - 1 : r[i] = q[i + 1]
      /\ h = q[1] /\ h \in Functors
  BY HeadTailProperties
<1> HIDE DEF r, h
<1>2. InTurn(r)
  BY <1>1 DEF InTurn
<1>3. ASSUME NEW g
      PROVE  /\ Has(r, g) => \E i \in 2..Len(q) : q[i] = g
             /\ Has(q, g) => g = h \/ Has(r, g)
  <2>1. ASSUME NEW i \in 1..Len(r), r[i] = g
        PROVE  i + 1 \in 2..Len(q) /\ q[i + 1] = g
    BY <1>1, <2>1
  <2>2. ASSUME NEW i \in 1..Len(q), q[i] = g, i # 1
        PROVE  i - 1 \in 1..Len(r) /\ r[i - 1] = g
    BY <1>1, <2>2
  <2>. QED
    BY <1>1, <2>1, <2>2 DEF Has
<1>4. ASSUME NEW i \in 2..Len(q), q[i].conn = h.conn
      PROVE  h.op = "connectEstablished" /\ q[i].op = "connectDestroyed"
  BY <1>1, <1>4 DEF InTurn
<1>5. ASSUME NEW g, Has(r, g) PROVE Has(q, g) /\ g # h
  <2>1. PICK i \in 2..Len(q) : q[i] = g
    BY <1>3, <1>5
  <2>2. i \in 1..Len(q)
    BY <1>1
  <2>. QED
    BY <1>4, <2>1, <2>2 DEF Has
<1>6. Has(q, h)
  BY <1>1 DEF Has
<1>. QED
  BY <1>1, <1>2, <1>3, <1>4, <1>5, <1>6 DEF r, h

(* Two queues put together. *)
LEMMA ConcatQueue ==
  ASSUME NEW q \in Seq(Functors), NEW r \in Seq(Functors)
  PROVE  /\ q \o r \in Seq(Functors)
         /\ \A g : Has(q \o r, g) <=> Has(q, g) \/ Has(r, g)
         /\ /\ InTurn(q) /\ InTurn(r)
            /\ \A f, g : Has(q, f) /\ Has(r, g) /\ f.conn = g.conn =>
                 f.op = "connectEstablished" /\ g.op = "connectDestroyed"
            => InTurn(q \o r)
<1> DEFINE s == q \o r
<1>1. /\ s \in Seq(Functors)
      /\ Len(q) \in Nat /\ Len(r) \in Nat /\ Len(s) = Len(q) + Len(r)
      /\ \A i \in 1..Len(q) + Len(r) :
           s[i] = IF i <= Len(q) THEN q[i] ELSE r[i - Len(q)]
  BY ConcatProperties
<1> HIDE DEF s
<1>2. /\ \A i \in 1..Len(q) : i \in 1..Len(s) /\ s[i] = q[i]
      /\ \A i \in 1..Len(r) : Len(q) + i \in 1..Len(s) /\ s[Len(q) + i] = r[i]
      /\ \A i \in 1..Len(s) : \/ i \in 1..Len(q) /\ s[i] = q[i]
                              \/ /\ i > Len(q) /\ i - Len(q) \in 1..Len(r)
                                 /\ s[i] = r[i - Len(q)]
  <2>1. ASSUME NEW i \in 1..Len(r)
        PROVE  Len(q) + i \in 1..Len(s) /\ s[Len(q) + i] = r[i]
    <3>1. /\ Len(q) + i \in 1..Len(q) + Len(r)
          /\ ~(Len(q) + i <= Len(q)) /\ Len(q) + i - Len(q) = i
      BY <1>1
    <3>. QED
      BY <1>1, <3>1
  <2>. QED
    BY <1>1, <2>1
<1>3. \A g : Has(s, g) <=> Has(q, g) \/ Has(r, g)
  BY <1>2 DEF Has
<1>4. ASSUME InTurn(q), InTurn(r),
             \A f, g : Has(q, f) /\ Has(r, g) /\ f.conn = g.conn =>
               f.op = "connectEstablished" /\ g.op = "connectDestroyed"
      PROVE  InTurn(s)
  <2> SUFFICES ASSUME NEW i \in 1..Len(s), NEW j \in 1..Len(s), i < j,
                      s[i].conn = s[j].conn
               PROVE  /\ s[i].op = "connectEstablished"
                      /\ s[j].op = "connectDestroyed"
    BY DEF InTurn
  <2>1. CASE i \in 1..Len(q) /\ s[i] = q[i]
    <3>1. CASE j \in 1..Len(q) /\ s[j] = q[j]
      BY <1>4, <2>1, <3>1 DEF InTurn
    <3>2. CASE j - Len(q) \in 1..Len(r) /\ s[j] = r[j - Len(q)]
      BY <1>4, <2>1, <3>2 DEF Has
    <3>. QED
      BY <1>2, <3>1, <3>2
  <2>2. CASE i > Len(q) /\ i - Len(q) \in 1..Len(r) /\ s[i] = r[i - Len(q)]
    <3>1. /\ j - Len(q) \in 1..Len(r) /\ s[j] = r[j - Len(q)]
          /\ i - Len(q) < j - Len(q)
      BY <1>1, <1>2, <2>2
    <3>. QED
      BY <1>4, <2>2, <3>1 DEF InTurn
  <2>. QED
    BY <1>2, <2>1, <2>2
<1>. QED
  BY <1>1, <1>3, <1>4 DEF s

-----------------------------------------------------------------------------
(* The start of the pool and the Acceptor. *)

(* The invariant of the pool and the Acceptor holds initially. *)
LEMMA InitPool == Init => PoolIInv
<1> SUFFICES ASSUME Init PROVE PoolIInv
  OBVIOUS
<1>1. /\ loops_ = <<>> /\ Len(loops_) = 0 /\ next_conn_id_ = 1 /\ next_ = 0
      /\ started_ = FALSE /\ waits = 0 /\ listening_ = FALSE /\ num_threads_ = 0
      /\ clients = 0 /\ backlog = 0
      /\ main = [t \in Threads |-> "none"] /\ loop_ = [t \in Threads |-> 0]
      /\ event_ = [t \in Threads |-> FALSE]
  BY DEF Init, EventLoopThreadPool, EventLoopThread, Acceptor
<1>2. PoolTypes
  <2>1. event_ \in [Threads -> BOOLEAN] /\ main \in [Threads -> Places]
    BY <1>1, Zenon DEF Places
  <2>2. loop_ \in [Threads -> Nat]
    BY <1>1
  <2>3. started_ \in BOOLEAN /\ listening_ \in BOOLEAN
    BY <1>1, Zenon
  <2>4. /\ num_threads_ \in 0..MaxThreads /\ waits \in 0..MaxThreads
        /\ loops_ \in Seq(Nat) /\ clients \in Nat /\ backlog \in Nat
        /\ next_ \in Nat /\ next_conn_id_ \in Nat \ {0}
    BY <1>1, BoundsAssumption
  <2>. QED
    BY <2>1, <2>2, <2>3, <2>4, Zenon DEF PoolTypes
<1>3. ClientInv
  BY <1>1, BoundsAssumption DEF ClientInv
<1>4. PoolInv
  BY <1>1, BoundsAssumption DEF PoolInv
<1>5. NextInv
  BY <1>1 DEF NextInv, Accepted
<1>. QED
  BY <1>2, <1>3, <1>4, <1>5 DEF PoolIInv

(* Listening comes behind the last thread's start. *)
LEMMA ListensReady ==
  PoolIInv /\ listening_ => started_ = TRUE /\ waits = 0
                            /\ Len(loops_) = num_threads_
BY DEF PoolIInv, PoolTypes, PoolInv

(* A step of another part. *)
LEMMA PoolStays ==
  ASSUME PoolIInv, UNCHANGED <<poolVars, threadVars, clients, backlog, next_,
                               next_conn_id_, loopOf>>,
         listening_' = listening_ \/ listening_' = FALSE
  PROVE  PoolIInv'
<1> USE DEF poolVars, threadVars
<1>1. PoolTypes' /\ ClientInv' /\ NextInv'
  BY DEF PoolIInv, PoolTypes, ClientInv, NextInv, Accepted
<1>2. PoolInv'
  BY DEF PoolIInv, PoolInv
<1>. QED
  BY <1>1, <1>2 DEF PoolIInv

(* setThreadNum and start. *)
LEMMA StartKeepsPool ==
  ASSUME PoolIInv, (\E n \in 0..MaxThreads : setThreadNum(n)) \/ start
  PROVE  PoolIInv'
<1> USE DEF threadVars, acceptVars, connVars, PoolIInv
<1>1. loops_ = <<>> /\ Len(loops_) = 0 /\ next_conn_id_ = 1 /\ waits = 0
      /\ listening_ = FALSE
  BY DEF setThreadNum, start, PoolInv, PoolTypes
<1>2. ASSUME NEW n \in 0..MaxThreads, setThreadNum(n) PROVE PoolIInv'
  <2>1. started_ = FALSE
    BY <1>2 DEF setThreadNum, PoolTypes
  <2>. QED
    BY <1>1, <1>2, <2>1
    DEF setThreadNum, PoolTypes, ClientInv, PoolInv, NextInv, Accepted
<1>3. ASSUME start, num_threads_ = 0 PROVE PoolIInv'
  BY <1>1, <1>3
  DEF start, listen, PoolTypes, ClientInv, PoolInv, NextInv, Accepted
<1>4. ASSUME start, num_threads_ > 0 PROVE PoolIInv'
  <2>1. /\ 1 \in Threads /\ waits' = 1 /\ started_' = TRUE
        /\ main' = [main EXCEPT ![1] = "created"]
        /\ UNCHANGED <<listening_, loop_, event_, num_threads_, loops_, clients,
                       backlog, next_, next_conn_id_, loopOf>>
    BY <1>4, BoundsAssumption DEF start, startLoop, PoolTypes, Threads
  <2>2. main' \in [Threads -> Places]
        /\ \A t \in Threads : main'[t] = IF t = 1 THEN "created" ELSE main[t]
    BY <2>1 DEF PoolTypes, Places
  <2>3. PoolTypes' /\ ClientInv' /\ NextInv'
    BY <2>1, <2>2, BoundsAssumption
    DEF PoolTypes, ClientInv, NextInv, Accepted, Threads
  <2>4. \A t \in Threads : main[t] = "none" /\ event_[t] = FALSE
    BY <1>1, BoundsAssumption DEF PoolInv, PoolTypes, Threads
  <2>5. PoolInv'
    BY <1>1, <1>4, <2>1, <2>2, <2>4, BoundsAssumption DEF PoolInv, PoolTypes
  <2>. QED
    BY <2>3, <2>5
<1>. QED
  BY <1>2, <1>3, <1>4 DEF PoolTypes, start

(* The next thread is started, or the Acceptor listens. *)
LEMMA StartLoopKeepsPool == PoolIInv /\ startLoopReturns => PoolIInv'
<1> SUFFICES ASSUME PoolIInv, startLoopReturns PROVE PoolIInv'
  OBVIOUS
<1> USE DEF threadVars, acceptVars, connVars, PoolIInv
<1> DEFINE w == waits
<1>1. /\ w \in Threads /\ w \in Nat \ {0} /\ w <= num_threads_
      /\ num_threads_ \in Nat /\ num_threads_ <= MaxThreads
      /\ Len(loops_) = w - 1 /\ started_ = TRUE /\ next_conn_id_ = 1
      /\ loops_ \in Seq(Nat)
  BY BoundsAssumption DEF startLoopReturns, PoolInv, PoolTypes, Threads
<1>2. event_[w] = TRUE /\ main[w] = "loop" /\ loop_[w] = w
  BY <1>1 DEF startLoopReturns, PoolInv, PoolTypes
<1>3. /\ loops_' \in Seq(Nat) /\ Len(loops_') = w
      /\ \A i \in 1..w - 1 : loops_'[i] = loops_[i]
      /\ loops_'[w] = w
  <2>1. loops_' = Append(loops_, w)
    BY <1>2 DEF startLoopReturns
  <2>. QED
    BY <1>1, <2>1, AppendProperties
<1>4. event_' = [event_ EXCEPT ![w] = FALSE]
      /\ UNCHANGED <<started_, num_threads_, loop_, clients, backlog, next_,
                     next_conn_id_, loopOf>>
  BY DEF startLoopReturns
<1>5. event_' \in [Threads -> BOOLEAN]
      /\ \A t \in Threads : event_'[t] = TRUE => event_[t] = TRUE
  BY <1>1, <1>4, Zenon DEF PoolTypes
<1> HIDE DEF w
<1>6. next_' = 0 /\ loops_' # <<>>
  <2>1. next_ = 0
    BY <1>1 DEF NextInv
  <2>2. loops_' # <<>>
    BY <1>1, <1>3
  <2>. QED
    BY <1>4, <2>1, <2>2
<1>7. ClientInv' /\ NextInv'
  BY <1>1, <1>3, <1>4, <1>6 DEF ClientInv, NextInv, Accepted
<1>8. CASE w < num_threads_
  <2>1. /\ w + 1 \in Threads /\ waits' = w + 1 /\ UNCHANGED listening_
        /\ main' = [main EXCEPT ![w + 1] = "created"]
    BY <1>1, <1>8, BoundsAssumption DEF startLoopReturns, startLoop, w, Threads
  <2>2. main' \in [Threads -> Places]
        /\ \A t \in Threads : main'[t] = IF t = w + 1 THEN "created"
                                          ELSE main[t]
    BY <2>1 DEF PoolTypes, Places
  <2>3. PoolTypes'
    BY <1>1, <1>3, <1>4, <1>5, <2>1, <2>2 DEF PoolTypes, Threads
  <2>4. main[w + 1] = "none" /\ listening_ = FALSE
    BY <1>1, <2>1 DEF PoolInv, w
  <2>5. \A i \in 1..w : loops_'[i] = i /\ main'[i] = "loop"
    BY <1>1, <1>2, <1>3, <2>2, BoundsAssumption DEF PoolInv, Threads
  <2>6. \A t \in Threads :
          /\ main'[t] \in {"published", "loop"} => loop_'[t] = t
          /\ event_'[t] = TRUE => main'[t] = "loop"
          /\ main'[t] = "none" \/ t <= Len(loops_') \/ t = waits'
    BY <1>1, <1>3, <1>4, <1>5, <2>1, <2>2, <2>4, BoundsAssumption
    DEF PoolInv, Threads, w
  <2>7. PoolInv'
    BY <1>1, <1>3, <1>4, <1>8, <2>1, <2>4, <2>5, <2>6, BoundsAssumption
    DEF PoolInv, Threads
  <2>. QED
    BY <1>7, <2>3, <2>7
<1>9. CASE w = num_threads_
  <2>1. waits' = 0 /\ main' = main /\ listening_' = TRUE
    BY <1>1, <1>9 DEF startLoopReturns, startLoop, listen, w
  <2>2. PoolTypes'
    BY <1>1, <1>3, <1>4, <1>5, <2>1, BoundsAssumption DEF PoolTypes
  <2>3. \A i \in 1..w : loops_'[i] = i /\ main'[i] = "loop"
    BY <1>1, <1>2, <1>3, <2>1, BoundsAssumption DEF PoolInv
  <2>4. \A t \in Threads :
          /\ main'[t] \in {"published", "loop"} => loop_'[t] = t
          /\ event_'[t] = TRUE => main'[t] = "loop"
          /\ main'[t] = "none" \/ t <= Len(loops_') \/ t = waits'
    BY <1>1, <1>3, <1>4, <1>5, <2>1, BoundsAssumption
    DEF PoolInv, Threads, w
  <2>5. PoolInv'
    BY <1>1, <1>3, <1>4, <1>9, <2>1, <2>3, <2>4, BoundsAssumption DEF PoolInv
  <2>. QED
    BY <1>7, <2>2, <2>5
<1>. QED
  BY <1>1, <1>8, <1>9

(* ThreadMain of a thread: an EventLoop is published before the signal. *)
LEMMA ThreadMainKeepsPool ==
  ASSUME PoolIInv, NEW t \in Threads, ThreadMain(t)
  PROVE  PoolIInv'
<1> USE DEF poolVars, acceptVars, connVars, PoolIInv
<1>1. UNCHANGED <<started_, num_threads_, loops_, waits, listening_, clients,
                  backlog, next_, next_conn_id_, loopOf>>
  BY DEF ThreadMain
<1>2. ASSUME NEW p \in Places \ {"none"}, main' = [main EXCEPT ![t] = p],
             main[t] \notin {"none", "loop"}, loop_' \in [Threads -> Nat],
             \A u \in Threads \ {t} : loop_'[u] = loop_[u],
             p \in {"published", "loop"} => loop_'[t] = t,
             event_' \in [Threads -> BOOLEAN],
             \A u \in Threads : event_'[u] = TRUE =>
               event_[u] = TRUE \/ (u = t /\ p = "loop")
      PROVE  PoolIInv'
  <2>1. /\ main' \in [Threads -> Places]
        /\ \A u \in Threads : main'[u] = IF u = t THEN p ELSE main[u]
    BY <1>2 DEF PoolTypes
  <2>2. PoolTypes' /\ ClientInv' /\ NextInv'
    BY <1>1, <1>2, <2>1 DEF PoolTypes, ClientInv, NextInv, Accepted
  <2>3. ASSUME NEW u \in Threads
        PROVE  /\ main'[u] \in {"published", "loop"} => loop_'[u] = u
               /\ event_'[u] = TRUE => main'[u] = "loop"
               /\ main'[u] = "none" \/ u <= Len(loops_') \/ u = waits'
    <3>1. CASE u = t
      BY <1>1, <1>2, <2>1, <3>1 DEF PoolInv
    <3>2. CASE u # t
      BY <1>1, <1>2, <2>1, <3>2 DEF PoolInv
    <3>. QED
      BY <3>1, <3>2
  <2>4. ASSUME NEW i \in 1..Len(loops_')
        PROVE  loops_'[i] = i /\ main'[i] = "loop"
    <3>1. i \in Threads /\ loops_[i] = i /\ main[i] = "loop"
      BY <1>1, BoundsAssumption DEF PoolInv, PoolTypes, Threads
    <3>. QED
      BY <1>1, <1>2, <2>1, <3>1
  <2>5. PoolInv'
    BY <1>1, <2>3, <2>4 DEF PoolInv
  <2>. QED
    BY <2>2, <2>5
<1>3. ASSUME callback_(t) PROVE PoolIInv'
  <2>1. event_' = event_ /\ event_ \in [Threads -> BOOLEAN]
        /\ loop_' = loop_ /\ loop_ \in [Threads -> Nat]
    BY <1>3 DEF callback_, PoolTypes
  <2>. QED
    BY <1>2, <1>3, <2>1 DEF callback_, Places
<1>4. ASSUME publish(t) PROVE PoolIInv'
  <2>1. event_' = event_ /\ event_ \in [Threads -> BOOLEAN]
    BY <1>4 DEF publish, PoolTypes
  <2>2. /\ loop_' \in [Threads -> Nat] /\ loop_'[t] = t
        /\ \A u \in Threads \ {t} : loop_'[u] = loop_[u]
    BY <1>4, BoundsAssumption DEF publish, PoolTypes, Threads
  <2>. QED
    BY <1>2, <1>4, <2>1, <2>2 DEF publish, Places
<1>5. ASSUME signal(t) PROVE PoolIInv'
  <2>1. /\ event_' \in [Threads -> BOOLEAN]
        /\ \A u \in Threads : event_'[u] = TRUE => event_[u] = TRUE \/ u = t
    <3>1. event_ \in [Threads -> BOOLEAN] /\ event_' = [event_ EXCEPT ![t] = TRUE]
      BY <1>5 DEF signal, PoolTypes
    <3>. QED
      BY <3>1, Zenon
  <2>2. loop_' = loop_ /\ loop_ \in [Threads -> Nat] /\ loop_[t] = t
    BY <1>5 DEF signal, PoolTypes, PoolInv
  <2>. QED
    BY <1>2, <1>5, <2>1, <2>2 DEF signal, Places
<1>. QED
  BY <1>3, <1>4, <1>5 DEF ThreadMain

(* The loop given to the next connection, and the one after it. *)
LEMMA NextLoop ==
  ASSUME PoolIInv, listening_, backlog > 0
  PROVE  /\ next_conn_id_ \in Conns /\ next_conn_id_ \notin Accepted
         /\ getNextLoop \in (IF loops_ = <<>> THEN {Base} ELSE 1..Len(loops_))
         /\ getNextLoop \in Loops
         /\ loops_ # <<>> => getNextLoop = next_ + 1
         /\ loops_ # <<>> => wrapped(next_) = IF next_ + 1 = Len(loops_) THEN 0
                                              ELSE next_ + 1
<1> USE DEF PoolIInv
<1>1. /\ Len(loops_) \in Nat /\ next_ \in Nat /\ Len(loops_) <= MaxThreads
      /\ next_conn_id_ \in Nat \ {0} /\ MaxThreads \in Nat /\ MaxClients \in Nat
      /\ clients \in Nat /\ backlog \in Nat
  BY BoundsAssumption DEF PoolTypes, PoolInv
<1>2. next_conn_id_ \in Conns /\ next_conn_id_ \notin Accepted
  BY <1>1 DEF ClientInv, Conns, Accepted
<1>3. CASE loops_ = <<>>
  BY <1>2, <1>3 DEF getNextLoop, Loops
<1>4. CASE loops_ # <<>>
  <2>1. next_ < Len(loops_)
    BY <1>4 DEF NextInv
  <2>2. next_ + 1 \in 1..Len(loops_)
    BY <1>1, <2>1
  <2>3. loops_[next_ + 1] = next_ + 1
    BY <2>2 DEF PoolInv
  <2>. QED
    BY <1>1, <1>2, <1>4, <2>1, <2>2, <2>3
    DEF getNextLoop, wrapped, Loops, Threads
<1>. QED
  BY <1>3, <1>4

(* The Acceptor's steps. *)
LEMMA AcceptorKeepsPool ==
  ASSUME PoolIInv, loopOf \in [Conns -> Loops], clientComes \/ handleRead
  PROVE  PoolIInv'
<1> USE DEF poolVars, threadVars, acceptVars, connVars, PoolIInv
<1>0. /\ clients \in Nat /\ backlog \in Nat /\ next_conn_id_ \in Nat \ {0}
      /\ MaxClients \in Nat /\ next_ \in Nat
  BY BoundsAssumption DEF PoolTypes
<1>1. UNCHANGED <<started_, num_threads_, loops_, waits, main, loop_, event_,
                  listening_>>
  BY DEF clientComes, handleRead
<1>2. started_ = TRUE /\ waits = 0
  BY ListensReady DEF clientComes, handleRead
<1>3. ASSUME next_conn_id_' \in Nat \ {0} PROVE PoolInv'
  BY <1>1, <1>2, <1>3 DEF PoolInv
<1>4. ASSUME next_conn_id_' \in Nat \ {0}, next_' \in Nat, clients' \in Nat,
             backlog' \in Nat
      PROVE  PoolTypes'
  BY <1>1, <1>4 DEF PoolTypes
<1>5. CASE clientComes
  <2>1. /\ clients' = clients + 1 /\ backlog' = backlog + 1
        /\ clients < MaxClients /\ UNCHANGED <<next_, next_conn_id_, loopOf>>
    BY <1>5 DEF clientComes
  <2>2. ClientInv' /\ NextInv'
    BY <1>0, <1>1, <2>1 DEF ClientInv, NextInv, Accepted
  <2>. QED
    BY <1>0, <1>3, <1>4, <2>1, <2>2
<1>6. CASE handleRead /\ UNCHANGED <<next_, next_conn_id_, loopOf>>
  <2>1. backlog' = backlog - 1 /\ backlog > 0 /\ clients' = clients
    BY <1>6 DEF handleRead, Accept
  <2>2. ClientInv' /\ NextInv'
    BY <1>0, <1>1, <1>6, <2>1 DEF ClientInv, NextInv, Accepted
  <2>. QED
    BY <1>0, <1>3, <1>4, <1>6, <2>1, <2>2
<1>7. CASE handleRead /\ newConnection
  <2> DEFINE c == next_conn_id_
             l == getNextLoop
  <2>1. /\ backlog' = backlog - 1 /\ backlog > 0 /\ clients' = clients
        /\ listening_ /\ next_conn_id_' = c + 1
        /\ loopOf' = [loopOf EXCEPT ![c] = l]
        /\ next_' = IF loops_ = <<>> THEN next_ ELSE wrapped(next_)
    BY <1>7 DEF handleRead, Accept, newConnection
  <2>2. /\ c \in Conns
        /\ l \in (IF loops_ = <<>> THEN {Base} ELSE 1..Len(loops_))
        /\ loops_ # <<>> => wrapped(next_) = IF next_ + 1 = Len(loops_) THEN 0
                                             ELSE next_ + 1
    BY <2>1, NextLoop
  <2>3. \A d \in Conns : loopOf'[d] = IF d = c THEN l ELSE loopOf[d]
    BY <2>1, <2>2
  <2>4. /\ next_' \in Nat /\ (loops_ = <<>> => next_' = 0)
        /\ loops_ # <<>> => next_' < Len(loops_)
    <3>1. CASE loops_ = <<>>
      BY <1>0, <2>1, <3>1 DEF NextInv
    <3>2. CASE loops_ # <<>>
      <4>1. Len(loops_) \in Nat /\ next_ < Len(loops_)
        BY <3>2 DEF PoolTypes, NextInv
      <4>. QED
        BY <1>0, <2>1, <2>2, <3>2, <4>1
    <3>. QED
      BY <3>1, <3>2
  <2>5. ASSUME NEW d \in Accepted'
        PROVE  loopOf'[d] \in (IF loops_ = <<>> THEN {Base} ELSE 1..Len(loops_))
    <3>1. d \in Conns /\ (d \in Accepted \/ d = c)
      BY <1>0, <2>1, <2>2 DEF Accepted, Conns
    <3>. QED
      BY <2>2, <2>3, <3>1 DEF NextInv
  <2>6. NextInv' /\ ClientInv'
    BY <1>0, <1>1, <2>1, <2>4, <2>5 DEF NextInv, ClientInv
  <2>. QED
    BY <1>0, <1>3, <1>4, <2>1, <2>4, <2>6
<1>. QED
  BY <1>5, <1>6, <1>7 DEF handleRead

(* Every step keeps the invariant of the pool and the Acceptor. *)
LEMMA NextPoolInv ==
  PoolIInv /\ loopOf \in [Conns -> Loops] /\ [Next]_vars => PoolIInv'
<1> SUFFICES ASSUME PoolIInv, loopOf \in [Conns -> Loops], [Next]_vars
             PROVE  PoolIInv'
  OBVIOUS
<1> USE DEF poolVars, threadVars, acceptVars, connVars
<1>1. ASSUME NEW l \in Loops, runFunctor(l) PROVE PoolIInv'
  BY <1>1, PoolStays DEF runFunctor, Established, Destroyed
<1>2. ASSUME NEW c, shutdown(c) \/ handleClose(c) PROVE PoolIInv'
  BY <1>2, PoolStays DEF shutdown, handleClose
<1>3. ASSUME removeConnectionInLoop \/ UNCHANGED vars PROVE PoolIInv'
  BY <1>3, PoolStays DEF removeConnectionInLoop, vars
<1>4. ASSUME destroyServer PROVE PoolIInv'
  BY <1>4, PoolStays DEF destroyServer, Destroyed, acceptorGone
<1>. QED
  BY <1>1, <1>2, <1>3, <1>4, StartKeepsPool, StartLoopKeepsPool,
     ThreadMainKeepsPool, AcceptorKeepsPool
  DEF Next

-----------------------------------------------------------------------------
(* The connections and the functors on their way. *)

(* What is said of a connection stays true while nothing about it changes. *)
LEMMA ConnFrame ==
  ASSUME NEW c, ConnInv(c), server' = server,
         state_'[c] = state_[c], loopOf'[c] = loopOf[c], ups'[c] = ups[c],
         downs'[c] = downs[c], gone'[c] = gone[c],
         c \in connections_' <=> c \in connections_,
         \A op \in Ops : /\ In(loopOf[c], op, c)' <=> In(loopOf[c], op, c)
                         /\ In(Base, op, c)' <=> In(Base, op, c)
  PROVE  ConnInv(c)'
<1>1. /\ In(loopOf[c], "connectEstablished", c)'
           <=> In(loopOf[c], "connectEstablished", c)
      /\ In(Base, "removeConnectionInLoop", c)'
           <=> In(Base, "removeConnectionInLoop", c)
      /\ In(loopOf[c], "connectDestroyed", c)'
           <=> In(loopOf[c], "connectDestroyed", c)
  BY DEF Ops
<1>. QED
  BY <1>1 DEF ConnInv, In

(* An accepted connection is one of the numbered ones, on one of the loops. *)
LEMMA AcceptedOK ==
  PoolIInv /\ ConnTypes => /\ Accepted \subseteq Conns /\ Base \in Loops
                           /\ \A c \in Accepted : loopOf[c] \in Loops
<1> SUFFICES ASSUME PoolIInv, ConnTypes
             PROVE  Accepted \subseteq Conns
  BY DEF ConnTypes, Loops
<1>. QED
  BY BoundsAssumption
  DEF PoolIInv, PoolTypes, ClientInv, Accepted, Conns

(* A step of another part. *)
LEMMA ConnsStay ==
  ASSUME ConnIInv, UNCHANGED <<connVars, connections_, server, queue,
                               next_conn_id_>>
  PROVE  ConnIInv'
<1> USE DEF connVars
<1>1. Accepted' = Accepted
  BY DEF Accepted
<1>2. ConnTypes'
  BY <1>1 DEF ConnIInv, ConnTypes
<1>3. QueueInv'
  BY <1>1 DEF ConnIInv, QueueInv, In, Home
<1>4. ConnsInv'
  BY <1>1 DEF ConnIInv, ConnsInv, ConnInv, In
<1>. QED
  BY <1>2, <1>3, <1>4 DEF ConnIInv

(* The functor at the head of a queue: where it is and for whom, and what is  *)
(* left when it is taken off.                                                 *)
LEMMA HeadFunctor ==
  ASSUME PoolIInv, ConnIInv, NEW l \in Loops, queue[l] # <<>>
  PROVE  LET f == Head(queue[l])
             q == Tail(queue[l])
         IN  /\ f.op \in Ops /\ f.conn \in Accepted /\ f.conn \in Conns
             /\ f = functor(f.op, f.conn) /\ In(l, f.op, f.conn)
             /\ l = Home(f.op, f.conn)
             /\ q \in Seq(Functors) /\ InTurn(q)
             /\ \A op \in Ops, c \in Conns : Has(q, functor(op, c))
                  <=> In(l, op, c) /\ ~(op = f.op /\ c = f.conn)
             /\ \A op \in Ops : Has(q, functor(op, f.conn)) =>
                  f.op = "connectEstablished" /\ op = "connectDestroyed"
<1> DEFINE f == Head(queue[l])
           q == Tail(queue[l])
<1>1. /\ q \in Seq(Functors) /\ InTurn(q) /\ f \in Functors
      /\ Has(queue[l], f)
      /\ \A g : Has(q, g) <=> Has(queue[l], g) /\ g # f
      /\ \A g : Has(q, g) /\ g.conn = f.conn =>
           f.op = "connectEstablished" /\ g.op = "connectDestroyed"
  <2>1. queue[l] \in Seq(Functors) /\ InTurn(queue[l])
    BY DEF ConnIInv, ConnTypes, QueueInv
  <2>. QED
    BY <2>1, TailQueue
<1> HIDE DEF f, q
<1>2. f.op \in Ops /\ f.conn \in Conns /\ f = functor(f.op, f.conn)
  BY <1>1, FunctorOK
<1>3. In(l, f.op, f.conn)
  BY <1>1, <1>2 DEF In
<1>4. f.conn \in Accepted /\ l = Home(f.op, f.conn)
  BY <1>2, <1>3 DEF ConnIInv, QueueInv
<1>5. ASSUME NEW op \in Ops, NEW c \in Conns
      PROVE  Has(q, functor(op, c))
               <=> In(l, op, c) /\ ~(op = f.op /\ c = f.conn)
  <2>1. functor(op, c) = f <=> op = f.op /\ c = f.conn
    BY <1>2, FunctorOK
  <2>. QED
    BY <1>1, <2>1 DEF In
<1>6. ASSUME NEW op \in Ops, Has(q, functor(op, f.conn))
      PROVE  f.op = "connectEstablished" /\ op = "connectDestroyed"
  <2>1. functor(op, f.conn).op = op /\ functor(op, f.conn).conn = f.conn
    BY <1>2, FunctorOK
  <2>. QED
    BY <1>1, <1>6, <2>1
<1>. QED
  BY <1>1, <1>2, <1>3, <1>4, <1>5, <1>6 DEF f, q

(* The queue of one loop is replaced by one that holds no more than before. *)
LEMMA ShorterQueue ==
  ASSUME ConnIInv, NEW l \in Loops, NEW q \in Seq(Functors), InTurn(q),
         queue' = [queue EXCEPT ![l] = q],
         \A op \in Ops, c \in Conns : Has(q, functor(op, c)) => In(l, op, c),
         UNCHANGED <<loopOf, next_conn_id_>>
  PROVE  /\ queue' \in [Loops -> Seq(Functors)] /\ QueueInv'
         /\ \A k \in Loops : \A op, c :
              In(k, op, c)' <=> IF k = l THEN Has(q, functor(op, c))
                                ELSE In(k, op, c)
<1>1. /\ queue' \in [Loops -> Seq(Functors)]
      /\ \A k \in Loops : queue'[k] = IF k = l THEN q ELSE queue[k]
  BY DEF ConnIInv, ConnTypes
<1>2. \A k \in Loops : \A op, c :
        In(k, op, c)' <=> IF k = l THEN Has(q, functor(op, c))
                          ELSE In(k, op, c)
  BY <1>1 DEF In
<1>3. \A k \in Loops : InTurn(queue'[k])
  BY <1>1 DEF ConnIInv, QueueInv
<1>4. ASSUME NEW k \in Loops, NEW op \in Ops, NEW c \in Conns, In(k, op, c)'
      PROVE  c \in Accepted' /\ k = Home(op, c)'
  <2>1. In(k, op, c)
    BY <1>2, <1>4
  <2>. QED
    BY <2>1 DEF ConnIInv, QueueInv, Home, Accepted
<1>. QED
  BY <1>1, <1>2, <1>3, <1>4 DEF QueueInv

(* Loop l has one functor more, which is op for connection c. *)
Longer(l, op, c) ==
  /\ queue' \in [Loops -> Seq(Functors)] /\ QueueInv'
  /\ \A k \in Loops : \A p, d :
       In(k, p, d)' <=> In(k, p, d) \/ (k = l /\ p = op /\ d = c)

(* A functor is queued on the loop it belongs on. *)
LEMMA LongerQueue ==
  ASSUME ConnIInv, NEW l \in Loops, NEW op \in Ops, NEW c \in Conns,
         queue' = [queue EXCEPT ![l] = Append(@, functor(op, c))],
         \A p \in Ops : In(l, p, c) =>
           p = "connectEstablished" /\ op = "connectDestroyed",
         c \in Accepted', l = Home(op, c)',
         \A d \in Accepted : d \in Accepted' /\ loopOf'[d] = loopOf[d]
  PROVE  Longer(l, op, c)
<1> DEFINE f == functor(op, c)
<1>1. queue[l] \in Seq(Functors) /\ InTurn(queue[l]) /\ f \in Functors
      /\ f.op = op /\ f.conn = c
  BY FunctorOK DEF ConnIInv, ConnTypes, QueueInv
<1>2. ASSUME NEW g \in Functors, Has(queue[l], g), g.conn = f.conn
      PROVE  g.op = "connectEstablished" /\ f.op = "connectDestroyed"
  <2>1. g.op \in Ops /\ g = functor(g.op, c)
    BY <1>1, <1>2, FunctorOK
  <2>. QED
    BY <1>1, <1>2, <2>1 DEF In
<1>3. /\ Append(queue[l], f) \in Seq(Functors)
      /\ \A g : Has(Append(queue[l], f), g) <=> Has(queue[l], g) \/ g = f
      /\ InTurn(Append(queue[l], f))
  BY <1>1, <1>2, AppendQueue
<1>4. /\ queue' \in [Loops -> Seq(Functors)]
      /\ \A k \in Loops : queue'[k] = IF k = l THEN Append(queue[l], f)
                                      ELSE queue[k]
  BY <1>3 DEF ConnIInv, ConnTypes
<1> HIDE DEF f
<1>5. \A p, d : functor(p, d) = f <=> p = op /\ d = c
  BY FunctorOK DEF f
<1>6. \A k \in Loops : \A p, d :
        In(k, p, d)' <=> In(k, p, d) \/ (k = l /\ p = op /\ d = c)
  BY <1>3, <1>4, <1>5 DEF In
<1>7. \A k \in Loops : InTurn(queue'[k])
  BY <1>3, <1>4 DEF ConnIInv, QueueInv
<1>8. ASSUME NEW k \in Loops, NEW p \in Ops, NEW d \in Conns, In(k, p, d)'
      PROVE  d \in Accepted' /\ k = Home(p, d)'
  <2>1. CASE In(k, p, d)
    BY <2>1 DEF ConnIInv, QueueInv, Home
  <2>2. CASE k = l /\ p = op /\ d = c
    BY <2>2
  <2>. QED
    BY <1>6, <1>8, <2>1, <2>2
<1>9. QueueInv'
  BY <1>7, <1>8 DEF QueueInv
<1>. QED
  BY <1>4, <1>6, <1>9 DEF Longer

(* connectEstablished as a functor. *)
LEMMA EstablishedStep ==
  ASSUME PoolIInv, ConnIInv, NEW l \in Loops, runFunctor(l),
         Head(queue[l]).op = "connectEstablished"
  PROVE  ConnIInv'
<1> USE DEF poolVars, threadVars, acceptVars, connVars
<1> DEFINE f == Head(queue[l])
           q == Tail(queue[l])
<1>0. queue[l] # <<>> /\ f.conn \in Accepted
  BY HeadFunctor DEF runFunctor
<1>p. PICK c \in Accepted : c = f.conn
  BY <1>0
<1>1. /\ f.op \in Ops /\ c \in Accepted /\ c \in Conns /\ In(l, f.op, c)
      /\ l = Home(f.op, c) /\ q \in Seq(Functors) /\ InTurn(q)
      /\ \A op \in Ops, d \in Conns : Has(q, functor(op, d))
           <=> In(l, op, d) /\ ~(op = f.op /\ d = c)
  BY <1>0, <1>p, HeadFunctor
<1>2. /\ queue' = [queue EXCEPT ![l] = q]
      /\ state_' = [state_ EXCEPT ![c] = "kConnected"]
      /\ ups' = [ups EXCEPT ![c] = @ + 1]
      /\ UNCHANGED <<loopOf, downs, gone, connections_, server, next_conn_id_>>
  BY <1>p DEF runFunctor, Established
<1>3. f.op = "connectEstablished"
  OBVIOUS
<1> HIDE DEF f, q
<1>4. Accepted' = Accepted /\ Accepted \subseteq Conns /\ Base \in Loops
      /\ \A d \in Accepted : loopOf[d] \in Loops
  BY <1>2, AcceptedOK DEF Accepted, ConnIInv
<1>5. /\ queue' \in [Loops -> Seq(Functors)] /\ QueueInv'
      /\ \A k \in Loops : \A op, d :
           In(k, op, d)' <=> IF k = l THEN Has(q, functor(op, d))
                             ELSE In(k, op, d)
  BY <1>1, <1>2, ShorterQueue
<1>6. \A k \in Loops, op \in Ops, d \in Conns :
        In(k, op, d)' <=> In(k, op, d) /\ ~(k = l /\ op = f.op /\ d = c)
  BY <1>1, <1>5
<1>7. l = loopOf[c] /\ ConnInv(c)
  BY <1>1, <1>3 DEF Home, ConnIInv, ConnsInv
<1>8. /\ \A d \in Conns : state_'[d] = IF d = c THEN "kConnected" ELSE state_[d]
      /\ \A d \in Conns : ups'[d] = IF d = c THEN ups[c] + 1 ELSE ups[d]
      /\ state_' \in [Conns -> States] /\ ups' \in [Conns -> Nat]
  BY <1>1, <1>2 DEF ConnIInv, ConnTypes, States
<1>9. ConnTypes'
  BY <1>2, <1>4, <1>5, <1>8 DEF ConnIInv, ConnTypes
<1>10. ConnInv(c)'
  <2>1. /\ state_[c] = "kConnecting" /\ loopOf[c] # Base /\ ups[c] = 0
        /\ downs[c] = 0 /\ gone[c] = FALSE
    BY <1>1, <1>3, <1>7 DEF ConnInv
  <2>2. /\ ~In(loopOf[c], "connectEstablished", c)'
        /\ In(Base, "removeConnectionInLoop", c)'
             <=> In(Base, "removeConnectionInLoop", c)
        /\ In(loopOf[c], "connectDestroyed", c)'
             <=> In(loopOf[c], "connectDestroyed", c)
    BY <1>1, <1>2, <1>3, <1>4, <1>6, <1>7, <2>1 DEF Ops, In
  <2>. QED
    BY <1>1, <1>2, <1>7, <1>8, <2>1, <2>2 DEF ConnInv, In
<1>11. ASSUME NEW d \in Accepted, d # c PROVE ConnInv(d)'
  <2>1. \A op \in Ops : /\ In(loopOf[d], op, d)' <=> In(loopOf[d], op, d)
                        /\ In(Base, op, d)' <=> In(Base, op, d)
    BY <1>2, <1>4, <1>6, <1>11 DEF In
  <2>2. ConnInv(d) /\ d \in Conns
    BY <1>4 DEF ConnIInv, ConnsInv
  <2>. QED
    BY <1>2, <1>8, <1>11, <2>1, <2>2, ConnFrame
<1>12. ConnsInv'
  BY <1>1, <1>2, <1>4, <1>8, <1>10, <1>11 DEF ConnIInv, ConnsInv
<1>. QED
  BY <1>5, <1>9, <1>12 DEF ConnIInv

(* connectDestroyed of a set of connections. *)
LEMMA DestroyedOK ==
  ASSUME ConnTypes, NEW cs, Destroyed(cs)
  PROVE  /\ state_' \in [Conns -> States] /\ downs' \in [Conns -> Nat]
         /\ gone' \in [Conns -> BOOLEAN] /\ UNCHANGED <<loopOf, ups>>
         /\ \A d \in Conns :
              /\ d \in cs => gone'[d] = TRUE
              /\ d \notin cs => gone'[d] = gone[d]
              /\ d \in cs /\ state_[d] = "kConnected" =>
                   state_'[d] = "kDisconnected" /\ downs'[d] = downs[d] + 1
              /\ d \notin cs \/ state_[d] # "kConnected" =>
                   state_'[d] = state_[d] /\ downs'[d] = downs[d]
<1>1. /\ state_' \in [Conns -> States] /\ downs' \in [Conns -> Nat]
      /\ UNCHANGED <<loopOf, ups>>
  BY DEF ConnTypes, Destroyed, States
<1>2. \A d \in Conns :
        /\ d \in cs /\ state_[d] = "kConnected" =>
             state_'[d] = "kDisconnected" /\ downs'[d] = downs[d] + 1
        /\ d \notin cs \/ state_[d] # "kConnected" =>
             state_'[d] = state_[d] /\ downs'[d] = downs[d]
  BY DEF ConnTypes, Destroyed
<1>3. gone' = [d \in Conns |-> gone[d] \/ d \in cs]
      /\ gone \in [Conns -> BOOLEAN]
  BY DEF ConnTypes, Destroyed
<1>4. gone' \in [Conns -> BOOLEAN]
  BY <1>3, Zenon
<1>5. ASSUME NEW d \in Conns
      PROVE  /\ d \in cs => gone'[d] = TRUE
             /\ d \notin cs => gone'[d] = gone[d]
  <2>1. gone'[d] = (gone[d] \/ d \in cs) /\ gone[d] \in BOOLEAN
    BY <1>3, Zenon
  <2>. QED
    BY <2>1, Zenon
<1>. QED
  BY <1>1, <1>2, <1>4, <1>5

(* connectDestroyed as a functor. *)
LEMMA DestroyedStep ==
  ASSUME PoolIInv, ConnIInv, NEW l \in Loops, runFunctor(l),
         Head(queue[l]).op = "connectDestroyed"
  PROVE  ConnIInv'
<1> USE DEF poolVars, threadVars, acceptVars, connVars
<1> DEFINE f == Head(queue[l])
           q == Tail(queue[l])
<1>0. queue[l] # <<>> /\ f.conn \in Accepted
  BY HeadFunctor DEF runFunctor
<1>p. PICK c \in Accepted : c = f.conn
  BY <1>0
<1>1. /\ f.op \in Ops /\ c \in Accepted /\ c \in Conns /\ In(l, f.op, c)
      /\ l = Home(f.op, c) /\ q \in Seq(Functors) /\ InTurn(q)
      /\ \A op \in Ops, d \in Conns : Has(q, functor(op, d))
           <=> In(l, op, d) /\ ~(op = f.op /\ d = c)
      /\ \A op \in Ops : Has(q, functor(op, c)) => f.op = "connectEstablished"
  BY <1>0, <1>p, HeadFunctor
<1>2. /\ queue' = [queue EXCEPT ![l] = q] /\ Destroyed({c})
      /\ UNCHANGED <<connections_, server, next_conn_id_>>
  BY <1>p DEF runFunctor
<1>3. f.op = "connectDestroyed"
  OBVIOUS
<1> HIDE DEF f, q
<1>4. Accepted' = Accepted /\ Accepted \subseteq Conns /\ Base \in Loops
      /\ \A d \in Accepted : loopOf[d] \in Loops
  BY <1>2, AcceptedOK DEF Accepted, ConnIInv
<1>5. /\ state_' \in [Conns -> States] /\ downs' \in [Conns -> Nat]
      /\ gone' \in [Conns -> BOOLEAN] /\ UNCHANGED <<loopOf, ups>>
      /\ gone'[c] = TRUE
      /\ state_[c] = "kConnected" =>
           state_'[c] = "kDisconnected" /\ downs'[c] = downs[c] + 1
      /\ state_[c] # "kConnected" =>
           state_'[c] = state_[c] /\ downs'[c] = downs[c]
      /\ \A d \in Conns \ {c} : /\ gone'[d] = gone[d] /\ state_'[d] = state_[d]
                                /\ downs'[d] = downs[d]
  BY <1>1, <1>2, DestroyedOK DEF ConnIInv
<1>6. /\ queue' \in [Loops -> Seq(Functors)] /\ QueueInv'
      /\ \A k \in Loops : \A op, d :
           In(k, op, d)' <=> IF k = l THEN Has(q, functor(op, d))
                             ELSE In(k, op, d)
  BY <1>1, <1>2, <1>5, ShorterQueue
<1>7. \A k \in Loops, op \in Ops, d \in Conns :
        In(k, op, d)' <=> In(k, op, d) /\ ~(k = l /\ op = f.op /\ d = c)
  BY <1>1, <1>6
<1>8. l = loopOf[c] /\ ConnInv(c)
  BY <1>1, <1>3 DEF Home, ConnIInv, ConnsInv
<1>9. ConnTypes'
  BY <1>2, <1>4, <1>5, <1>6 DEF ConnIInv, ConnTypes
<1>10. ConnInv(c)'
  <2>1. ~In(loopOf[c], "connectEstablished", c)
    BY <1>1, <1>3, <1>8 DEF Ops
  <2>2. state_[c] # "kConnecting" /\ c \notin connections_
    BY <1>1, <1>3, <1>8, <2>1 DEF ConnInv
  <2>3. /\ ~In(loopOf[c], "connectEstablished", c)'
        /\ In(Base, "removeConnectionInLoop", c)'
             <=> In(Base, "removeConnectionInLoop", c)
        /\ ~In(loopOf[c], "connectDestroyed", c)'
    BY <1>1, <1>3, <1>4, <1>5, <1>7, <1>8, <2>1 DEF Ops, In
  <2>4. state_[c] \in States
    BY <1>1 DEF ConnIInv, ConnTypes
  <2>. QED
    BY <1>1, <1>2, <1>5, <1>8, <2>2, <2>3, <2>4 DEF ConnInv, In, States
<1>11. ASSUME NEW d \in Accepted, d # c PROVE ConnInv(d)'
  <2>1. \A op \in Ops : /\ In(loopOf[d], op, d)' <=> In(loopOf[d], op, d)
                        /\ In(Base, op, d)' <=> In(Base, op, d)
    BY <1>4, <1>5, <1>7, <1>11 DEF In
  <2>2. ConnInv(d) /\ d \in Conns
    BY <1>4 DEF ConnIInv, ConnsInv
  <2>. QED
    BY <1>2, <1>5, <1>11, <2>1, <2>2, ConnFrame
<1>12. ConnsInv'
  <2>1. \A d \in Conns \ Accepted :
          /\ state_[d] = "kConnecting" /\ gone[d] = FALSE
          /\ ups[d] = 0 /\ downs[d] = 0
          /\ d \in Conns \ {c}
    BY <1>1 DEF ConnIInv, ConnsInv
  <2>2. \A d \in Conns \ Accepted :
          /\ state_'[d] = "kConnecting" /\ gone'[d] = FALSE
          /\ ups'[d] = 0 /\ downs'[d] = 0
    BY <1>5, <2>1
  <2>3. \A d \in Accepted' : ConnInv(d)'
    BY <1>4, <1>10, <1>11
  <2>. QED
    BY <1>2, <1>4, <2>2, <2>3 DEF ConnIInv, ConnsInv
<1>. QED
  BY <1>6, <1>9, <1>12 DEF ConnIInv

(* shutdown. *)
LEMMA ShutdownStep ==
  ASSUME PoolIInv, ConnIInv, NEW c \in Accepted, shutdown(c)
  PROVE  ConnIInv'
<1> USE DEF poolVars, threadVars, acceptVars, connVars
<1>1. /\ state_[c] = "kConnected"
      /\ state_' = [state_ EXCEPT ![c] = "kDisconnecting"]
      /\ UNCHANGED <<loopOf, ups, downs, gone, connections_, server, queue,
                     next_conn_id_>>
  BY DEF shutdown
<1>2. Accepted' = Accepted /\ Accepted \subseteq Conns
  BY <1>1, AcceptedOK DEF Accepted, ConnIInv
<1>3. /\ state_' \in [Conns -> States]
      /\ \A d \in Conns : state_'[d] = IF d = c THEN "kDisconnecting"
                                       ELSE state_[d]
  BY <1>1, <1>2 DEF ConnIInv, ConnTypes, States
<1>4. ConnTypes' /\ QueueInv'
  BY <1>1, <1>2, <1>3 DEF ConnIInv, ConnTypes, QueueInv, In, Home
<1>5. ASSUME NEW d \in Accepted PROVE ConnInv(d)'
  <2>1. ConnInv(d) /\ d \in Conns
    BY <1>2 DEF ConnIInv, ConnsInv
  <2>2. CASE d # c
    BY <1>1, <1>3, <2>1, <2>2, ConnFrame DEF In
  <2>3. CASE d = c
    BY <1>1, <1>3, <2>1, <2>3 DEF ConnInv, In
  <2>. QED
    BY <2>2, <2>3
<1>6. ConnsInv'
  BY <1>1, <1>2, <1>3, <1>5 DEF ConnIInv, ConnsInv
<1>. QED
  BY <1>4, <1>6 DEF ConnIInv

(* handleClose, with removeConnection of the server. *)
LEMMA CloseStep ==
  ASSUME PoolIInv, ConnIInv, NEW c \in Accepted, handleClose(c)
  PROVE  ConnIInv'
<1> USE DEF poolVars, threadVars, acceptVars, connVars
<1>1. /\ server /\ state_[c] \in {"kConnected", "kDisconnecting"}
      /\ state_' = [state_ EXCEPT ![c] = "kDisconnected"]
      /\ downs' = [downs EXCEPT ![c] = @ + 1]
      /\ removeConnection(c)
      /\ UNCHANGED <<loopOf, ups, gone, server, next_conn_id_>>
  BY DEF handleClose
<1>2. Accepted' = Accepted /\ Accepted \subseteq Conns /\ c \in Conns
      /\ Base \in Loops /\ \A d \in Accepted : loopOf[d] \in Loops
  BY <1>1, AcceptedOK DEF Accepted, ConnIInv
<1>3. server = TRUE /\ ConnInv(c)
  BY <1>1 DEF ConnIInv, ConnTypes, ConnsInv
<1>4. /\ c \in connections_ /\ ups[c] = 1 /\ downs[c] = 0 /\ gone[c] = FALSE
      /\ ~In(loopOf[c], "connectEstablished", c)
      /\ ~In(Base, "removeConnectionInLoop", c)
      /\ ~In(loopOf[c], "connectDestroyed", c)
  BY <1>1, <1>3 DEF ConnInv
<1>5. \A l \in Loops, op \in Ops : ~In(l, op, c)
  BY <1>2, <1>4 DEF ConnIInv, QueueInv, Home, Ops
<1>6. /\ state_' \in [Conns -> States] /\ downs' \in [Conns -> Nat]
      /\ \A d \in Conns : state_'[d] = IF d = c THEN "kDisconnected"
                                       ELSE state_[d]
      /\ \A d \in Conns : downs'[d] = IF d = c THEN downs[c] + 1 ELSE downs[d]
  BY <1>1, <1>2 DEF ConnIInv, ConnTypes, States
<1>8. PICK op \in {"connectDestroyed", "removeConnectionInLoop"} :
        /\ queue' = [queue EXCEPT ![Base] = Append(@, functor(op, c))]
        /\ op = "connectDestroyed" =>
             loopOf[c] = Base /\ connections_' = connections_ \ {c}
        /\ op = "removeConnectionInLoop" =>
             loopOf[c] # Base /\ connections_' = connections_
  BY <1>1 DEF removeConnection
<1>9. /\ queue' \in [Loops -> Seq(Functors)] /\ QueueInv'
      /\ \A k \in Loops : \A p, d :
           In(k, p, d)' <=> In(k, p, d) \/ (k = Base /\ p = op /\ d = c)
  <2>1. op \in Ops /\ Base = Home(op, c)' /\ Base \in Loops /\ c \in Conns
    BY <1>1, <1>2, <1>8 DEF Ops, Home
  <2>2. \A p \in Ops : In(Base, p, c) =>
          p = "connectEstablished" /\ op = "connectDestroyed"
    BY <1>2, <1>5
  <2>3. c \in Accepted'
        /\ \A d \in Accepted : d \in Accepted' /\ loopOf'[d] = loopOf[d]
    BY <1>1, <1>2
  <2>4. queue' = [queue EXCEPT ![Base] = Append(@, functor(op, c))]
    BY <1>8
  <2>5. Longer(Base, op, c)
    BY <2>1, <2>2, <2>3, <2>4, LongerQueue
  <2>. QED
    BY <2>5 DEF Longer
<1>10. ConnTypes'
  BY <1>1, <1>2, <1>6, <1>8, <1>9 DEF ConnIInv, ConnTypes
<1>11. ConnInv(c)'
  <2>1. /\ ~In(loopOf[c], "connectEstablished", c)'
        /\ In(Base, "removeConnectionInLoop", c)'
             <=> op = "removeConnectionInLoop"
        /\ In(loopOf[c], "connectDestroyed", c)' <=> op = "connectDestroyed"
    BY <1>1, <1>2, <1>4, <1>8, <1>9 DEF In
  <2>. QED
    BY <1>1, <1>2, <1>3, <1>4, <1>6, <1>8, <2>1 DEF ConnInv, In
<1>12. ASSUME NEW d \in Accepted, d # c PROVE ConnInv(d)'
  <2>1. \A p \in Ops : /\ In(loopOf[d], p, d)' <=> In(loopOf[d], p, d)
                       /\ In(Base, p, d)' <=> In(Base, p, d)
    BY <1>1, <1>2, <1>9, <1>12 DEF In
  <2>2. ConnInv(d) /\ d \in Conns
    BY <1>2 DEF ConnIInv, ConnsInv
  <2>. QED
    BY <1>1, <1>6, <1>8, <1>12, <2>1, <2>2, ConnFrame
<1>13. ConnsInv'
  BY <1>1, <1>2, <1>6, <1>11, <1>12 DEF ConnIInv, ConnsInv
<1>. QED
  BY <1>9, <1>10, <1>13 DEF ConnIInv

(* removeConnectionInLoop: connectDestroyed goes to the connection's loop. *)
LEMMA RemoveStep ==
  ASSUME PoolIInv, ConnIInv, removeConnectionInLoop
  PROVE  ConnIInv'
<1> USE DEF poolVars, threadVars, acceptVars, connVars
<1> DEFINE f == Head(queue[Base])
           q == Tail(queue[Base])
<1>0. Base \in Loops /\ queue[Base] # <<>> /\ f.conn \in Accepted
  BY HeadFunctor DEF removeConnectionInLoop, Loops
<1>p. PICK c \in Accepted : c = f.conn
  BY <1>0
<1>1. /\ f.op \in Ops /\ c \in Conns /\ In(Base, f.op, c)
      /\ q \in Seq(Functors) /\ InTurn(q)
      /\ \A op \in Ops, d \in Conns : Has(q, functor(op, d))
           <=> In(Base, op, d) /\ ~(op = f.op /\ d = c)
  BY <1>0, <1>p, HeadFunctor
<1>2. /\ f.op = "removeConnectionInLoop" /\ server
      /\ connections_' = connections_ \ {c}
      /\ queue' = [queue EXCEPT ![Base] = q,
                                ![loopOf[c]] =
                                  Append(@, functor("connectDestroyed", c))]
      /\ UNCHANGED <<state_, loopOf, ups, downs, gone, server, next_conn_id_>>
  BY <1>p DEF removeConnectionInLoop
<1> HIDE DEF f, q
<1>3. Accepted' = Accepted /\ Accepted \subseteq Conns
      /\ \A d \in Accepted : loopOf[d] \in Loops
  BY <1>2, AcceptedOK DEF Accepted, ConnIInv
<1>4. server = TRUE /\ ConnInv(c)
  BY <1>2 DEF ConnIInv, ConnTypes, ConnsInv
<1>5. /\ state_[c] = "kDisconnected" /\ loopOf[c] # Base
      /\ c \in connections_ /\ gone[c] = FALSE
      /\ ups[c] = 1 /\ downs[c] = 1
      /\ ~In(loopOf[c], "connectEstablished", c)
      /\ ~In(loopOf[c], "connectDestroyed", c)
  BY <1>1, <1>2, <1>4 DEF ConnInv
<1>6. \A op \in Ops : ~In(loopOf[c], op, c)
  BY <1>1, <1>3, <1>5 DEF ConnIInv, QueueInv, Home, Ops
<1> DEFINE g == functor("connectDestroyed", c)
           r == Append(queue[loopOf[c]], g)
<1>7. queue[loopOf[c]] \in Seq(Functors) /\ InTurn(queue[loopOf[c]])
      /\ g \in Functors /\ g.conn = c /\ g.op = "connectDestroyed"
  BY <1>1, <1>3, FunctorOK DEF ConnIInv, ConnTypes, QueueInv, Ops
<1>8. \A h \in Functors : Has(queue[loopOf[c]], h) => h.conn # c
  BY <1>6, FunctorOK DEF In
<1>9. /\ r \in Seq(Functors) /\ InTurn(r)
      /\ \A h : Has(r, h) <=> Has(queue[loopOf[c]], h) \/ h = g
  BY <1>7, <1>8, AppendQueue
<1>10. /\ queue' \in [Loops -> Seq(Functors)]
       /\ queue'[Base] = q /\ queue'[loopOf[c]] = r
       /\ \A k \in Loops \ {Base, loopOf[c]} : queue'[k] = queue[k]
  <2>1. queue \in [Loops -> Seq(Functors)] /\ loopOf[c] \in Loops
    BY <1>3 DEF ConnIInv, ConnTypes
  <2> HIDE DEF r
  <2>2. queue' = [queue EXCEPT ![Base] = q, ![loopOf[c]] = r]
    BY <1>0, <1>2, <1>5, <2>1 DEF r, g
  <2>. QED
    BY <1>0, <1>1, <1>5, <1>9, <2>1, <2>2
<1>11. \A p, d : functor(p, d) = g <=> p = "connectDestroyed" /\ d = c
  BY FunctorOK
<1> HIDE DEF g, r
<1>12. \A k \in Loops, p \in Ops, d \in Conns :
         In(k, p, d)' <=>
           \/ In(k, p, d) /\ ~(k = Base /\ p = "removeConnectionInLoop" /\ d = c)
           \/ k = loopOf[c] /\ p = "connectDestroyed" /\ d = c
  <2> SUFFICES ASSUME NEW k \in Loops, NEW p \in Ops, NEW d \in Conns
               PROVE  In(k, p, d)' <=>
                        \/ /\ In(k, p, d)
                           /\ ~(k = Base /\ p = "removeConnectionInLoop" /\ d = c)
                        \/ k = loopOf[c] /\ p = "connectDestroyed" /\ d = c
    OBVIOUS
  <2>0. In(k, p, d)' <=> Has(queue'[k], functor(p, d))
    BY DEF In
  <2>1. CASE k = Base
    <3>1. Has(q, functor(p, d)) <=> In(Base, p, d) /\ ~(p = f.op /\ d = c)
      BY <1>1
    <3>. QED
      BY <1>2, <1>5, <1>10, <2>0, <2>1, <3>1
  <2>2. CASE k = loopOf[c]
    <3>1. Has(r, functor(p, d))
            <=> In(k, p, d) \/ (p = "connectDestroyed" /\ d = c)
      BY <1>9, <1>11, <2>2 DEF In
    <3>. QED
      BY <1>5, <1>10, <2>0, <2>2, <3>1
  <2>3. CASE k \notin {Base, loopOf[c]}
    BY <1>10, <2>0, <2>3 DEF In
  <2>. QED
    BY <2>1, <2>2, <2>3
<1>13. QueueInv'
  <2>1. \A k \in Loops : InTurn(queue'[k])
    BY <1>1, <1>9, <1>10 DEF ConnIInv, QueueInv
  <2>2. ASSUME NEW k \in Loops, NEW p \in Ops, NEW d \in Conns, In(k, p, d)'
        PROVE  d \in Accepted' /\ k = Home(p, d)'
    <3>1. CASE In(k, p, d)
      BY <1>2, <1>3, <3>1 DEF ConnIInv, QueueInv, Home
    <3>2. CASE k = loopOf[c] /\ p = "connectDestroyed" /\ d = c
      BY <1>2, <1>3, <3>2 DEF Home
    <3>. QED
      BY <1>12, <2>2, <3>1, <3>2
  <2>. QED
    BY <2>1, <2>2 DEF QueueInv
<1>14. ConnTypes'
  BY <1>2, <1>3, <1>10 DEF ConnIInv, ConnTypes
<1>15. ConnInv(c)'
  <2>1. /\ ~In(loopOf[c], "connectEstablished", c)'
        /\ ~In(Base, "removeConnectionInLoop", c)'
        /\ In(loopOf[c], "connectDestroyed", c)'
    BY <1>0, <1>1, <1>2, <1>3, <1>5, <1>12 DEF In, Ops
  <2>. QED
    BY <1>2, <1>4, <1>5, <2>1 DEF ConnInv, In
<1>16. ASSUME NEW d \in Accepted, d # c PROVE ConnInv(d)'
  <2>1. \A p \in Ops : /\ In(loopOf[d], p, d)' <=> In(loopOf[d], p, d)
                       /\ In(Base, p, d)' <=> In(Base, p, d)
    BY <1>0, <1>2, <1>3, <1>12, <1>16 DEF In
  <2>2. ConnInv(d) /\ d \in Conns
    BY <1>3 DEF ConnIInv, ConnsInv
  <2>. QED
    BY <1>2, <1>16, <2>1, <2>2, ConnFrame
<1>17. ConnsInv'
  BY <1>2, <1>3, <1>15, <1>16 DEF ConnIInv, ConnsInv
<1>. QED
  BY <1>13, <1>14, <1>17 DEF ConnIInv

(* The Acceptor and the server go together. *)
LEMMA NextServerInv ==
  PoolIInv /\ ServerInv /\ server \in BOOLEAN /\ [Next]_vars => ServerInv'
<1> SUFFICES ASSUME PoolIInv, ServerInv, server \in BOOLEAN, [Next]_vars
             PROVE  ServerInv'
  OBVIOUS
<1> USE DEF poolVars, threadVars, acceptVars, connVars, ServerInv
<1>1. ASSUME start PROVE ServerInv'
  BY <1>1 DEF start
<1>2. ASSUME startLoopReturns PROVE ServerInv'
  BY <1>2 DEF startLoopReturns
<1>3. ASSUME destroyServer PROVE ServerInv'
  BY <1>3 DEF destroyServer, acceptorGone, running
<1>4. ASSUME NEW n \in 0..MaxThreads, setThreadNum(n) PROVE ServerInv'
  BY <1>4 DEF setThreadNum
<1>5. ASSUME NEW t \in Threads, ThreadMain(t) PROVE ServerInv'
  BY <1>5 DEF ThreadMain
<1>6. ASSUME clientComes \/ handleRead \/ UNCHANGED vars PROVE ServerInv'
  BY <1>6 DEF clientComes, handleRead, vars
<1>7. ASSUME NEW l \in Loops, runFunctor(l) PROVE ServerInv'
  BY <1>7 DEF runFunctor
<1>8. ASSUME NEW c, shutdown(c) \/ handleClose(c) PROVE ServerInv'
  BY <1>8 DEF shutdown, handleClose
<1>9. ASSUME removeConnectionInLoop PROVE ServerInv'
  BY <1>9 DEF removeConnectionInLoop
<1>. QED
  BY <1>1, <1>2, <1>3, <1>4, <1>5, <1>6, <1>7, <1>8, <1>9 DEF Next

(* handleRead: a new connection is in the map, and up on the base loop or to  *)
(* be established on its own.                                                 *)
LEMMA AcceptStep ==
  ASSUME PoolIInv, ServerInv, ConnIInv, handleRead
  PROVE  ConnIInv'
<1> USE DEF poolVars, threadVars, acceptVars, connVars
<1>1. CASE UNCHANGED <<next_, next_conn_id_, connections_, queue, connVars>>
  BY <1>1, ConnsStay DEF handleRead
<1>2. CASE newConnection
  <2>0. next_conn_id_ \in Conns /\ getNextLoop \in Loops
        /\ next_conn_id_ \notin Accepted /\ listening_
    BY NextLoop DEF handleRead
  <2>p. PICK c \in Conns, l \in Loops : c = next_conn_id_ /\ l = getNextLoop
    BY <2>0
  <2>1. /\ next_conn_id_' = c + 1 /\ connections_' = connections_ \cup {c}
        /\ loopOf' = [loopOf EXCEPT ![c] = l]
        /\ submitted(l, c) /\ UNCHANGED <<downs, gone, server>>
    BY <1>2, <2>p DEF newConnection, handleRead
  <2>2. /\ c \notin Accepted /\ Accepted' = Accepted \cup {c}
        /\ Accepted \subseteq Conns /\ Base \in Loops
        /\ \A d \in Accepted : loopOf[d] \in Loops
    <3>1. c \in Nat \ {0} /\ Accepted = 1..(c - 1)
      BY <2>p DEF PoolIInv, PoolTypes, Accepted
    <3>2. Accepted' = 1..c
      BY <2>1, <3>1 DEF Accepted
    <3>3. 1..c = 1..(c - 1) \cup {c} /\ c \notin 1..(c - 1)
      BY <3>1
    <3>. QED
      BY <3>1, <3>2, <3>3, AcceptedOK DEF ConnIInv
  <2>3. server = TRUE
    BY <2>0 DEF ServerInv, ConnIInv, ConnTypes
  <2>4. /\ state_[c] = "kConnecting" /\ gone[c] = FALSE
        /\ ups[c] = 0 /\ downs[c] = 0 /\ c \notin connections_
        /\ \A k \in Loops, op \in Ops : ~In(k, op, c)
    BY <2>2 DEF ConnIInv, ConnsInv, ConnTypes, QueueInv
  <2>5. /\ loopOf' \in [Conns -> Loops] /\ loopOf'[c] = l
        /\ \A d \in Conns \ {c} : loopOf'[d] = loopOf[d]
    BY <2>1 DEF ConnIInv, ConnTypes
  <2>6. /\ state_' \in [Conns -> States] /\ ups' \in [Conns -> Nat]
        /\ \A d \in Conns \ {c} : state_'[d] = state_[d] /\ ups'[d] = ups[d]
        /\ l = Base => state_'[c] = "kConnected" /\ ups'[c] = 1
        /\ l # Base => state_'[c] = "kConnecting" /\ ups'[c] = 0
    <3>1. state_ \in [Conns -> States] /\ ups \in [Conns -> Nat]
      BY DEF ConnIInv, ConnTypes
    <3>2. CASE l = Base
      <4>1. /\ state_' = [state_ EXCEPT ![c] = "kConnected"]
            /\ ups' = [ups EXCEPT ![c] = @ + 1]
        BY <2>1, <3>2 DEF submitted
      <4>. QED
        BY <2>4, <3>1, <3>2, <4>1 DEF States
    <3>3. CASE l # Base
      <4>1. state_' = state_ /\ ups' = ups
        BY <2>1, <3>3 DEF submitted
      <4>. QED
        BY <2>4, <3>1, <3>3, <4>1
    <3>. QED
      BY <3>2, <3>3
  <2>7. /\ queue' \in [Loops -> Seq(Functors)] /\ QueueInv'
        /\ \A k \in Loops, p \in Ops, d \in Conns :
             In(k, p, d)' <=>
               \/ In(k, p, d)
               \/ l # Base /\ k = l /\ p = "connectEstablished" /\ d = c
    <3>0. \A d \in Accepted : d \in Accepted' /\ loopOf'[d] = loopOf[d]
      BY <2>2, <2>5
    <3>1. CASE l = Base
      <4>1. queue' = queue
        BY <2>1, <3>1 DEF submitted
      <4>2. \A k, p, d : In(k, p, d)' <=> In(k, p, d)
        BY <4>1 DEF In
      <4>3. ASSUME NEW k \in Loops, NEW p \in Ops, NEW d \in Conns, In(k, p, d)
            PROVE  d \in Accepted' /\ k = Home(p, d)'
        BY <3>0, <4>3 DEF ConnIInv, QueueInv, Home
      <4>. QED
        BY <3>1, <4>1, <4>2, <4>3 DEF ConnIInv, ConnTypes, QueueInv
    <3>2. CASE l # Base
      <4> DEFINE op == "connectEstablished"
      <4>1. queue' = [queue EXCEPT ![l] = Append(@, functor(op, c))]
        BY <2>1, <3>2 DEF submitted
      <4>2. op \in Ops /\ l = Home(op, c)' /\ c \in Accepted'
        BY <2>2, <2>5 DEF Ops, Home
      <4>3. \A p \in Ops : In(l, p, c) =>
              p = "connectEstablished" /\ op = "connectDestroyed"
        BY <2>4
      <4> HIDE DEF op
      <4>4. /\ queue' \in [Loops -> Seq(Functors)] /\ QueueInv'
            /\ \A k \in Loops : \A p, d :
                 In(k, p, d)' <=> In(k, p, d) \/ (k = l /\ p = op /\ d = c)
        <5>1. Longer(l, op, c)
          BY <3>0, <4>1, <4>2, <4>3, LongerQueue
        <5>. QED
          BY <5>1 DEF Longer
      <4>. QED
        BY <3>2, <4>4 DEF op
    <3>. QED
      BY <3>1, <3>2
  <2>8. ConnTypes'
    BY <2>1, <2>2, <2>5, <2>6, <2>7 DEF ConnIInv, ConnTypes
  <2>9. ConnInv(c)'
    <3>1. /\ In(l, "connectEstablished", c)' <=> l # Base
          /\ ~In(Base, "removeConnectionInLoop", c)'
          /\ ~In(l, "connectDestroyed", c)'
      BY <2>2, <2>4, <2>7 DEF Ops
    <3>. QED
      BY <2>1, <2>3, <2>4, <2>5, <2>6, <3>1 DEF ConnInv, In
  <2>10. ASSUME NEW d \in Accepted PROVE ConnInv(d)'
    <3>1. d # c /\ d \in Conns /\ ConnInv(d)
      BY <2>2 DEF ConnIInv, ConnsInv
    <3>2. \A p \in Ops : /\ In(loopOf[d], p, d)' <=> In(loopOf[d], p, d)
                         /\ In(Base, p, d)' <=> In(Base, p, d)
      BY <2>2, <2>5, <2>7, <3>1 DEF In
    <3>. QED
      BY <2>1, <2>5, <2>6, <3>1, <3>2, ConnFrame
  <2>11. ConnsInv'
    BY <2>1, <2>2, <2>6, <2>9, <2>10 DEF ConnIInv, ConnsInv
  <2>. QED
    BY <2>7, <2>8, <2>11 DEF ConnIInv
<1>. QED
  BY <1>1, <1>2 DEF handleRead

(* What ~TcpServer queues: connectDestroyed once for each connection. *)
LEMMA QueueDestroyedOK ==
  ASSUME NEW cs \in SUBSET Conns, NEW q \in queueDestroyed(cs)
  PROVE  /\ q \in Seq(Functors) /\ InTurn(q)
         /\ \A op, c : Has(q, functor(op, c))
                         <=> op = "connectDestroyed" /\ c \in cs
<1>1. IsFiniteSet(cs) /\ Cardinality(cs) \in Nat
  <2>1. IsFiniteSet(Conns)
    BY FS_Interval, BoundsAssumption DEF Conns
  <2>. QED
    BY <2>1, FS_Subset, FS_CardinalityType
<1> DEFINE n == Cardinality(cs)
           D == 1..n
<1>2. PICK s \in SetToSeqs(cs) :
        q = [i \in DOMAIN s |-> functor("connectDestroyed", s[i])]
  BY DEF queueDestroyed
<1>3. s \in [D -> cs] /\ \A i, j \in D : i # j => s[i] # s[j]
  BY <1>2 DEF SetToSeqs
<1>4. \A c \in cs : \E i \in D : s[i] = c
  <2>1. s \in Injection(D, cs)
    BY <1>3 DEF Injection, IsInjective
  <2>2. IsFiniteSet(D) /\ Cardinality(D) = n
    BY <1>1, FS_Interval
  <2>3. s \in Surjection(D, cs)
    BY <1>1, <2>1, <2>2, FS_Injection
  <2>. QED
    BY <2>3 DEF Surjection
<1> HIDE DEF D
<1>5. /\ DOMAIN q = D
      /\ \A i \in D : q[i] = functor("connectDestroyed", s[i]) /\ s[i] \in cs
  BY <1>2, <1>3
<1>6. q \in Seq(Functors) /\ Len(q) = n
  <2>1. \A i \in D : q[i] \in Functors
    BY <1>5, FunctorOK DEF Ops
  <2>2. q \in [D -> Functors]
    <3>1. q = [i \in D |-> q[i]]
      BY <1>2, <1>5
    <3>. QED
      BY <2>1, <3>1
  <2>. QED
    BY <1>1, <2>2 DEF D
<1>7. 1..Len(q) = D
  BY <1>6 DEF D
<1>8. InTurn(q)
  <2> SUFFICES ASSUME NEW i \in D, NEW j \in D, i < j, q[i].conn = q[j].conn
               PROVE  FALSE
    BY <1>7 DEF InTurn
  <2>1. q[i].conn = s[i] /\ q[j].conn = s[j]
    BY <1>5 DEF functor
  <2>2. i # j
    BY <1>1 DEF D
  <2>. QED
    BY <1>3, <2>1, <2>2
<1>9. ASSUME NEW op, NEW c
      PROVE  Has(q, functor(op, c)) <=> op = "connectDestroyed" /\ c \in cs
  BY <1>4, <1>5, <1>7, FunctorOK DEF Has
<1>. QED
  BY <1>6, <1>8, <1>9

(* The queues when ~TcpServer has gone through its connections. *)
LEMMA DestroyServerQueues ==
  ASSUME PoolIInv, ConnIInv, destroyServer
  PROVE  /\ queue' \in [Loops -> Seq(Functors)] /\ QueueInv'
         /\ \A l \in Loops, op \in Ops, c \in Conns :
              In(l, op, c)' <=>
                \/ In(l, op, c)
                \/ /\ op = "connectDestroyed" /\ c \in connections_
                   /\ loopOf[c] = l /\ l # Base
<1> DEFINE on(l) == {c \in connections_ : loopOf[c] = l}
<1>1. PICK added : /\ \A t \in Threads : added[t] \in queueDestroyed(on(t))
                   /\ queue' = [l \in Loops |-> IF l = Base THEN queue[l]
                                                ELSE queue[l] \o added[l]]
  BY DEF destroyServer
<1>2. UNCHANGED <<loopOf, next_conn_id_>> /\ Accepted' = Accepted
      /\ Base \in Loops /\ \A t \in Threads : t \in Loops /\ t # Base
  BY BoundsAssumption DEF destroyServer, Destroyed, Accepted, Loops, Threads, Base
<1>3. connections_ \subseteq Accepted /\ Accepted \subseteq Conns
  BY AcceptedOK DEF ConnIInv, ConnTypes
<1>4. \A l \in Loops : queue[l] \in Seq(Functors) /\ InTurn(queue[l])
  BY DEF ConnIInv, ConnTypes, QueueInv
<1> HIDE DEF on
<1>5. ASSUME NEW t \in Threads
      PROVE  /\ added[t] \in Seq(Functors) /\ InTurn(added[t])
             /\ \A op, c : Has(added[t], functor(op, c))
                  <=> op = "connectDestroyed" /\ c \in on(t)
  <2>1. on(t) \in SUBSET Conns /\ added[t] \in queueDestroyed(on(t))
    BY <1>1, <1>3 DEF on
  <2>. QED
    BY <2>1, QueueDestroyedOK
<1>6. ASSUME NEW t \in Threads, NEW f, NEW g, Has(queue[t], f),
             Has(added[t], g), f.conn = g.conn
      PROVE  f.op = "connectEstablished" /\ g.op = "connectDestroyed"
  <2>1. f \in Functors /\ g \in Functors
    BY <1>2, <1>4, <1>5, <1>6 DEF Has
  <2>2. /\ f = functor(f.op, g.conn) /\ f.op \in Ops /\ g.conn \in Conns
        /\ g = functor(g.op, g.conn)
    BY <1>6, <2>1, FunctorOK
  <2>3. g.op = "connectDestroyed" /\ g.conn \in on(t)
    BY <1>5, <1>6, <2>2
  <2>4. PICK c \in Accepted : c = g.conn
    BY <1>3, <2>3 DEF on
  <2>5. c \in connections_ /\ loopOf[c] = t /\ ConnInv(c) /\ In(t, f.op, c)
    BY <1>6, <2>2, <2>3, <2>4 DEF on, In, ConnIInv, ConnsInv
  <2>6. ~In(t, "connectDestroyed", c)
    BY <2>5 DEF ConnInv
  <2>7. t = Home(f.op, c)
    BY <1>2, <1>3, <2>2, <2>5 DEF ConnIInv, QueueInv
  <2>. QED
    BY <1>2, <2>2, <2>3, <2>5, <2>6, <2>7 DEF Home, Ops
<1>7. ASSUME NEW t \in Threads
      PROVE  /\ queue'[t] \in Seq(Functors) /\ InTurn(queue'[t])
             /\ \A g : Has(queue'[t], g) <=> Has(queue[t], g) \/ Has(added[t], g)
  <2>1. queue'[t] = queue[t] \o added[t]
    BY <1>1, <1>2
  <2>2. /\ queue[t] \in Seq(Functors) /\ InTurn(queue[t])
        /\ added[t] \in Seq(Functors) /\ InTurn(added[t])
    BY <1>2, <1>4, <1>5
  <2>3. \A f, g : Has(queue[t], f) /\ Has(added[t], g) /\ f.conn = g.conn =>
          f.op = "connectEstablished" /\ g.op = "connectDestroyed"
    BY <1>6
  <2>. QED
    BY <2>1, <2>2, <2>3, ConcatQueue
<1>8. queue'[Base] = queue[Base]
  BY <1>1, <1>2
<1>9. \A l \in Loops : l = Base \/ l \in Threads
  BY DEF Loops
<1>10. \A l \in Loops : queue'[l] \in Seq(Functors) /\ InTurn(queue'[l])
  BY <1>4, <1>7, <1>8, <1>9
<1>11. queue' \in [Loops -> Seq(Functors)]
  <2>1. queue' = [l \in Loops |-> queue'[l]]
    BY <1>1
  <2>. QED
    BY <1>10, <2>1
<1>12. ASSUME NEW l \in Loops, NEW op \in Ops, NEW c \in Conns
       PROVE  In(l, op, c)' <=>
                \/ In(l, op, c)
                \/ /\ op = "connectDestroyed" /\ c \in connections_
                   /\ loopOf[c] = l /\ l # Base
  <2>1. CASE l = Base
    BY <1>8, <2>1 DEF In
  <2>2. CASE l \in Threads
    <3>1. Has(added[l], functor(op, c))
            <=> op = "connectDestroyed" /\ c \in connections_ /\ loopOf[c] = l
      BY <1>5, <2>2 DEF on
    <3>. QED
      BY <1>2, <1>7, <2>2, <3>1 DEF In
  <2>. QED
    BY <1>9, <2>1, <2>2
<1>13. ASSUME NEW l \in Loops, NEW op \in Ops, NEW c \in Conns, In(l, op, c)'
       PROVE  c \in Accepted' /\ l = Home(op, c)'
  <2>1. CASE In(l, op, c)
    BY <1>2, <2>1 DEF ConnIInv, QueueInv, Home
  <2>2. CASE op = "connectDestroyed" /\ c \in connections_ /\ loopOf[c] = l
    BY <1>2, <1>3, <2>2 DEF Home
  <2>. QED
    BY <1>12, <1>13, <2>1, <2>2
<1>. QED
  BY <1>10, <1>11, <1>12, <1>13 DEF QueueInv

(* ~TcpServer. *)
LEMMA DestroyServerStep ==
  ASSUME PoolIInv, ConnIInv, destroyServer
  PROVE  ConnIInv'
<1> DEFINE cs == {d \in connections_ : loopOf[d] = Base}
<1>1. /\ server' = FALSE /\ connections_' = {} /\ Destroyed(cs)
      /\ UNCHANGED next_conn_id_
  BY DEF destroyServer
<1>2. Accepted' = Accepted /\ Accepted \subseteq Conns /\ Base \in Loops
      /\ connections_ \subseteq Accepted
      /\ \A d \in Accepted : loopOf[d] \in Loops
  BY <1>1, AcceptedOK DEF Accepted, ConnIInv, ConnTypes
<1>3. /\ state_' \in [Conns -> States] /\ downs' \in [Conns -> Nat]
      /\ gone' \in [Conns -> BOOLEAN] /\ UNCHANGED <<loopOf, ups>>
      /\ \A d \in Conns :
           /\ d \in cs => gone'[d] = TRUE
           /\ d \notin cs => gone'[d] = gone[d]
           /\ d \in cs /\ state_[d] = "kConnected" =>
                state_'[d] = "kDisconnected" /\ downs'[d] = downs[d] + 1
           /\ d \notin cs \/ state_[d] # "kConnected" =>
                state_'[d] = state_[d] /\ downs'[d] = downs[d]
  <2>1. ConnTypes
    BY DEF ConnIInv
  <2> HIDE DEF cs
  <2>. QED
    BY <1>1, <2>1, DestroyedOK
<1>4. /\ queue' \in [Loops -> Seq(Functors)] /\ QueueInv'
      /\ \A l \in Loops, op \in Ops, c \in Conns :
           In(l, op, c)' <=>
             \/ In(l, op, c)
             \/ /\ op = "connectDestroyed" /\ c \in connections_
                /\ loopOf[c] = l /\ l # Base
  BY DestroyServerQueues
<1>5. ConnTypes'
  BY <1>1, <1>2, <1>3, <1>4 DEF ConnIInv, ConnTypes
<1>6. ASSUME NEW c \in Accepted PROVE ConnInv(c)'
  <2>1. c \in Conns /\ ConnInv(c) /\ state_[c] \in States
        /\ (c \in cs <=> c \in connections_ /\ loopOf[c] = Base)
    BY <1>2 DEF ConnIInv, ConnsInv, ConnTypes
  <2> HIDE DEF cs
  <2>2. /\ In(loopOf[c], "connectEstablished", c)'
             <=> In(loopOf[c], "connectEstablished", c)
        /\ In(Base, "removeConnectionInLoop", c)'
             <=> In(Base, "removeConnectionInLoop", c)
        /\ In(loopOf[c], "connectDestroyed", c)'
             <=> \/ In(loopOf[c], "connectDestroyed", c)
                 \/ c \in connections_ /\ loopOf[c] # Base
    BY <1>2, <1>3, <1>4, <2>1 DEF Ops, In
  <2>3. CASE c \notin connections_
    BY <1>1, <1>3, <2>1, <2>2, <2>3 DEF ConnInv, In
  <2>4. CASE c \in connections_ /\ loopOf[c] = Base
    <3>1. /\ state_[c] \in {"kConnected", "kDisconnecting"}
          /\ ups[c] = 1 /\ downs[c] = 0
          /\ ~In(loopOf[c], "connectEstablished", c)
          /\ ~In(Base, "removeConnectionInLoop", c)
          /\ ~In(loopOf[c], "connectDestroyed", c)
      BY <2>1, <2>4 DEF ConnInv, States
    <3>2. /\ gone'[c] = TRUE /\ ups'[c] = 1
          /\ \/ state_'[c] = "kDisconnected" /\ downs'[c] = 1
             \/ state_'[c] = "kDisconnecting" /\ downs'[c] = 0
      BY <1>3, <2>1, <2>4, <3>1
    <3>. QED
      BY <1>1, <1>3, <2>2, <2>4, <3>1, <3>2 DEF ConnInv, In
  <2>5. CASE c \in connections_ /\ loopOf[c] # Base
    BY <1>1, <1>3, <2>1, <2>2, <2>5 DEF ConnInv, In
  <2>. QED
    BY <2>3, <2>4, <2>5
<1>7. ASSUME NEW c \in Conns \ Accepted
      PROVE  /\ state_'[c] = "kConnecting" /\ gone'[c] = FALSE
             /\ ups'[c] = 0 /\ downs'[c] = 0
  <2>1. c \notin cs
    BY <1>2
  <2>. QED
    BY <1>3, <2>1 DEF ConnIInv, ConnsInv
<1>8. ConnsInv'
  BY <1>2, <1>6, <1>7 DEF ConnsInv
<1>. QED
  BY <1>4, <1>5, <1>8 DEF ConnIInv

(* The connections' invariant holds initially. *)
LEMMA InitConn == Init => ConnIInv /\ ServerInv
<1> SUFFICES ASSUME Init PROVE ConnIInv /\ ServerInv
  OBVIOUS
<1>1. /\ next_conn_id_ = 1 /\ connections_ = {} /\ server = TRUE
      /\ state_ = [c \in Conns |-> "kConnecting"]
      /\ loopOf = [c \in Conns |-> Base] /\ queue = [l \in Loops |-> <<>>]
      /\ ups = [c \in Conns |-> 0] /\ downs = [c \in Conns |-> 0]
      /\ gone = [c \in Conns |-> FALSE]
  BY DEF Init
<1>2. Accepted = {}
  BY <1>1 DEF Accepted
<1>3. \A l \in Loops : queue[l] = <<>> /\ Len(queue[l]) = 0
  BY <1>1
<1>4. ConnTypes
  <2>1. gone \in [Conns -> BOOLEAN] /\ server \in BOOLEAN
    BY <1>1, Zenon
  <2>2. state_ \in [Conns -> States] /\ loopOf \in [Conns -> Loops]
        /\ ups \in [Conns -> Nat] /\ downs \in [Conns -> Nat]
        /\ queue \in [Loops -> Seq(Functors)]
    BY <1>1 DEF States, Loops
  <2>. QED
    BY <1>1, <2>1, <2>2 DEF ConnTypes
<1>5. QueueInv
  BY <1>3 DEF QueueInv, InTurn, In, Has
<1>6. ConnsInv
  BY <1>1, <1>2 DEF ConnsInv
<1>. QED
  BY <1>1, <1>4, <1>5, <1>6 DEF ConnIInv, ServerInv

(* Every step keeps the invariant of the connections. *)
LEMMA NextConnInv ==
  PoolIInv /\ ServerInv /\ ConnIInv /\ [Next]_vars => ConnIInv'
<1> SUFFICES ASSUME PoolIInv, ServerInv, ConnIInv, [Next]_vars
             PROVE  ConnIInv'
  OBVIOUS
<1> USE DEF poolVars, threadVars, acceptVars
<1>1. ASSUME NEW n \in 0..MaxThreads, setThreadNum(n) PROVE ConnIInv'
  BY <1>1, ConnsStay DEF setThreadNum
<1>2. ASSUME start \/ startLoopReturns PROVE ConnIInv'
  BY <1>2, ConnsStay DEF start, startLoopReturns
<1>3. ASSUME NEW t \in Threads, ThreadMain(t) PROVE ConnIInv'
  BY <1>3, ConnsStay DEF ThreadMain
<1>4. ASSUME clientComes \/ UNCHANGED vars PROVE ConnIInv'
  BY <1>4, ConnsStay DEF clientComes, vars
<1>5. ASSUME NEW l \in Loops, runFunctor(l) PROVE ConnIInv'
  BY <1>5, EstablishedStep, DestroyedStep DEF runFunctor
<1>. QED
  BY <1>1, <1>2, <1>3, <1>4, <1>5, AcceptStep, ShutdownStep, CloseStep,
     RemoveStep, DestroyServerStep
  DEF Next

-----------------------------------------------------------------------------
(* The theorems. *)

(* The invariant behind the theorems below is inductive. *)
THEOREM Inductive == Spec => []IInv
<1>1. Init => IInv
  BY InitPool, InitConn DEF IInv
<1>2. IInv /\ [Next]_vars => IInv'
  <2> SUFFICES ASSUME IInv, [Next]_vars PROVE IInv'
    OBVIOUS
  <2>1. loopOf \in [Conns -> Loops] /\ server \in BOOLEAN
    BY DEF IInv, ConnIInv, ConnTypes
  <2>. QED
    BY <2>1, NextPoolInv, NextServerInv, NextConnInv DEF IInv
<1>. QED
  BY <1>1, <1>2, PTL DEF Spec

(* A connection goes only to a loop whose thread has published it: LoopsReady *)
(* for any number of threads.                                                 *)
THEOREM LoopsStayReady == Spec => []LoopsReady
<1>1. IInv => LoopsReady
  <2> SUFFICES ASSUME IInv PROVE LoopsReady
    OBVIOUS
  <2>1. DOMAIN loops_ = 1..Len(loops_)
    BY DEF IInv, PoolIInv, PoolTypes
  <2>2. \A i \in 1..Len(loops_) : loops_[i] = i /\ main[i] = "loop"
    BY DEF IInv, PoolIInv, PoolInv
  <2>3. \A c \in Accepted : loopOf[c] # Base => loopOf[c] \in 1..Len(loops_)
    BY DEF IInv, PoolIInv, NextInv
  <2>. QED
    BY <2>1, <2>2, <2>3 DEF LoopsReady
<1>. QED
  BY <1>1, Inductive, PTL

(* The server's map and the bound functors hold every connection until        *)
(* connectDestroyed has run: HeldUntilDestroyed for any number of clients.    *)
THEOREM ConnectionsHeld == Spec => []HeldUntilDestroyed
<1>1. IInv => HeldUntilDestroyed
  <2> SUFFICES ASSUME IInv, NEW c \in Accepted
               PROVE  LET bound == \E l \in Loops : \E i \in DOMAIN queue[l] :
                                     queue[l][i].conn = c
                      IN  /\ ~gone[c] => c \in connections_ \/ bound
                          /\ (gone[c] /\ server) => ~bound /\ c \notin connections_
    BY DEF HeldUntilDestroyed
  <2>1. c \in Conns /\ loopOf[c] \in Loops /\ Base \in Loops /\ ConnInv(c)
        /\ gone[c] \in BOOLEAN /\ server \in BOOLEAN
    BY AcceptedOK DEF IInv, ConnIInv, ConnTypes, ConnsInv
  <2>2. \A l \in Loops : /\ DOMAIN queue[l] = 1..Len(queue[l])
                         /\ queue[l] \in Seq(Functors)
    BY DEF IInv, ConnIInv, ConnTypes
  <2> DEFINE bound == \E l \in Loops : \E i \in DOMAIN queue[l] :
                        queue[l][i].conn = c
  <2>3. ASSUME NEW l \in Loops, NEW op \in Ops, In(l, op, c) PROVE bound
    <3>1. PICK i \in 1..Len(queue[l]) : queue[l][i] = functor(op, c)
      BY <2>3 DEF In, Has
    <3>2. functor(op, c).conn = c
      BY <2>1, FunctorOK
    <3>. QED
      BY <2>2, <3>1, <3>2
  <2>4. ASSUME bound PROVE \E l \in Loops, op \in Ops : In(l, op, c)
    <3>0. PICK l \in Loops : \E i \in DOMAIN queue[l] : queue[l][i].conn = c
      BY <2>4
    <3>1. PICK i \in 1..Len(queue[l]) : queue[l][i].conn = c
      BY <2>2, <3>0
    <3>2. /\ queue[l][i] \in Functors /\ queue[l][i].op \in Ops
          /\ queue[l][i] = functor(queue[l][i].op, c)
      BY <2>2, <3>1, FunctorOK
    <3>. QED
      BY <3>1, <3>2 DEF In, Has
  <2> HIDE DEF bound
  <2>5. ASSUME gone[c] = FALSE, c \notin connections_ PROVE bound
    <3>1. In(loopOf[c], "connectDestroyed", c)
      BY <2>1, <2>5 DEF ConnInv
    <3>. QED
      BY <2>1, <2>3, <3>1 DEF Ops
  <2>6. ASSUME gone[c] = TRUE, server = TRUE PROVE ~bound /\ c \notin connections_
    <3>1. /\ c \notin connections_ /\ ~In(loopOf[c], "connectEstablished", c)
          /\ ~In(loopOf[c], "connectDestroyed", c)
          /\ ~In(Base, "removeConnectionInLoop", c)
      BY <2>1, <2>6 DEF ConnInv
    <3>2. \A l \in Loops, op \in Ops : In(l, op, c) => l = Home(op, c)
      BY <2>1 DEF IInv, ConnIInv, QueueInv
    <3>. QED
      BY <2>4, <3>1, <3>2 DEF Home, Ops
  <2>7. /\ ~gone[c] => c \in connections_ \/ bound
        /\ (gone[c] /\ server) => ~bound /\ c \notin connections_
    BY <2>1, <2>5, <2>6
  <2>. QED
    BY <2>7 DEF bound
<1>. QED
  BY <1>1, Inductive, PTL

(* The DCHECKs of the hand-over hold in every order of the loops' steps:      *)
(* FunctorsInTurn for any number of threads and clients.                      *)
THEOREM FunctorsStayInTurn == Spec => []FunctorsInTurn
<1>1. IInv => FunctorsInTurn
  <2> SUFFICES ASSUME IInv, NEW l \in Loops, NEW i \in DOMAIN queue[l]
               PROVE  LET f == queue[l][i]
                          later == {j \in DOMAIN queue[l] :
                                      j > i /\ queue[l][j].conn = f.conn}
                      IN  CASE f.op = "connectEstablished" ->
                                 /\ l = loopOf[f.conn]
                                 /\ state_[f.conn] = "kConnecting"
                            [] f.op = "removeConnectionInLoop" ->
                                 /\ l = Base
                                 /\ server => /\ f.conn \in connections_
                                              /\ later = {}
                            [] f.op = "connectDestroyed" ->
                                 /\ l = loopOf[f.conn] /\ ~gone[f.conn]
                                 /\ later = {}
    BY DEF FunctorsInTurn
  <2>1. /\ queue[l] \in Seq(Functors) /\ DOMAIN queue[l] = 1..Len(queue[l])
        /\ Len(queue[l]) \in Nat /\ InTurn(queue[l])
    BY DEF IInv, ConnIInv, ConnTypes, QueueInv
  <2> DEFINE f == queue[l][i]
             later == {j \in DOMAIN queue[l] : j > i /\ queue[l][j].conn = f.conn}
  <2>2. /\ f \in Functors /\ f.op \in Ops /\ f.conn \in Conns
        /\ f = functor(f.op, f.conn)
    BY <2>1, FunctorOK
  <2>3. In(l, f.op, f.conn)
    BY <2>1, <2>2 DEF In, Has
  <2>4. f.conn \in Accepted /\ l = Home(f.op, f.conn) /\ ConnInv(f.conn)
        /\ server \in BOOLEAN
    BY <2>2, <2>3 DEF IInv, ConnIInv, QueueInv, ConnsInv, ConnTypes
  <2>5. f.op # "connectEstablished" => later = {}
    BY <2>1 DEF InTurn
  <2> HIDE DEF f, later
  <2>6. CASE f.op = "connectEstablished"
    <3>1. l = loopOf[f.conn] /\ state_[f.conn] = "kConnecting"
      BY <2>3, <2>4, <2>6 DEF Home, ConnInv
    <3>. QED
      BY <2>6, <3>1 DEF f, later
  <2>7. CASE f.op = "removeConnectionInLoop"
    <3>1. l = Base /\ (server => f.conn \in connections_) /\ later = {}
      BY <2>3, <2>4, <2>5, <2>7 DEF Home, ConnInv
    <3>. QED
      BY <2>7, <3>1 DEF f, later
  <2>8. CASE f.op = "connectDestroyed"
    <3>1. l = loopOf[f.conn] /\ gone[f.conn] = FALSE /\ later = {}
      BY <2>3, <2>4, <2>5, <2>8 DEF Home, ConnInv
    <3>. QED
      BY <2>8, <3>1 DEF f, later
  <2>. QED
    BY <2>2, <2>6, <2>7, <2>8 DEF Ops
<1>. QED
  BY <1>1, Inductive, PTL

(* A connection that is done with was reported up once and down once:         *)
(* UpAndDownOnce for any number of threads and clients.                       *)
THEOREM ReportedOnce == Spec => []UpAndDownOnce
<1>1. IInv => UpAndDownOnce
  <2> SUFFICES ASSUME IInv, NEW c \in Accepted
               PROVE  /\ downs[c] <= ups[c] /\ ups[c] <= 1
                      /\ gone[c] => /\ ups[c] = 1
                                    /\ \/ downs[c] = 1
                                       \/ state_[c] = "kDisconnecting" /\ ~server
    BY DEF UpAndDownOnce
  <2>1. c \in Conns /\ ConnInv(c) /\ gone[c] \in BOOLEAN /\ server \in BOOLEAN
        /\ state_[c] \in States
    BY AcceptedOK DEF IInv, ConnIInv, ConnTypes, ConnsInv
  <2>2. downs[c] <= ups[c] /\ ups[c] <= 1
    BY <2>1 DEF ConnInv, States
  <2>3. ASSUME gone[c] = TRUE
        PROVE  /\ ups[c] = 1
               /\ downs[c] = 1 \/ (state_[c] = "kDisconnecting" /\ server = FALSE)
    <3>1. c \notin connections_ /\ state_[c] \in {"kDisconnecting", "kDisconnected"}
      BY <2>1, <2>3 DEF ConnInv
    <3>. QED
      BY <2>1, <3>1 DEF ConnInv
  <2>. QED
    BY <2>1, <2>2, <2>3
<1>. QED
  BY <1>1, Inductive, PTL

-----------------------------------------------------------------------------
(* The spreading of the connections. *)

(* The connections a loop was given. *)
Given(l) == {c \in Accepted : loopOf[c] = l}

(* The loops up to next_ were given one connection more than the others. *)
SpreadInv ==
  loops_ # <<>> =>
    \E q \in Nat : \A l \in 1..Len(loops_) :
      Cardinality(Given(l)) = IF l <= next_ THEN q + 1 ELSE q

(* A step that accepts no connection and starts no loop. *)
LEMMA SpreadStays ==
  ASSUME SpreadInv, UNCHANGED <<loops_, next_, next_conn_id_, loopOf>>
  PROVE  SpreadInv'
BY DEF SpreadInv, Given, Accepted

(* Nothing was given before the first connection. *)
LEMMA SpreadStart == PoolIInv /\ next_conn_id_ = 1 => SpreadInv
<1> SUFFICES ASSUME PoolIInv, next_conn_id_ = 1 PROVE SpreadInv
  OBVIOUS
<1>1. next_ = 0 /\ Accepted = {} /\ \A l \in 1..Len(loops_) : l \in Nat \ {0}
  BY DEF PoolIInv, PoolTypes, NextInv, Accepted
<1>2. \A l \in 1..Len(loops_) : Given(l) = {} /\ ~(l <= next_)
  BY <1>1 DEF Given
<1>3. \A l \in 1..Len(loops_) : Cardinality(Given(l)) =
        IF l <= next_ THEN 0 + 1 ELSE 0
  BY <1>2, FS_EmptySet
<1>. QED
  BY <1>3 DEF SpreadInv

(* A new connection goes to the first of the loops with fewer connections. *)
LEMMA SpreadAccept ==
  ASSUME IInv, SpreadInv, handleRead, newConnection
  PROVE  SpreadInv'
<1> SUFFICES ASSUME loops_' # <<>>
             PROVE  \E q \in Nat : \A l \in 1..Len(loops_') :
                      Cardinality(Given(l)') = IF l <= next_' THEN q + 1 ELSE q
  BY DEF SpreadInv
<1>1. /\ loops_' = loops_ /\ listening_ /\ backlog > 0
      /\ Len(loops_) \in Nat /\ next_ \in Nat /\ next_ < Len(loops_)
  BY DEF handleRead, poolVars, IInv, PoolIInv, PoolTypes, NextInv
<1>2. /\ next_conn_id_ \in Conns /\ next_conn_id_ \notin Accepted
      /\ getNextLoop = next_ + 1
      /\ wrapped(next_) = IF next_ + 1 = Len(loops_) THEN 0 ELSE next_ + 1
  BY <1>1, NextLoop DEF IInv
<1>p. PICK c \in Conns, m \in 1..Len(loops_) :
        c = next_conn_id_ /\ m = next_ + 1 /\ m = getNextLoop
  BY <1>1, <1>2
<1>3. /\ next_conn_id_' = c + 1 /\ loopOf' = [loopOf EXCEPT ![c] = m]
      /\ next_' = IF m = Len(loops_) THEN 0 ELSE m
  BY <1>1, <1>2, <1>p DEF newConnection
<1>4. /\ c \notin Accepted /\ Accepted' = Accepted \cup {c}
      /\ Accepted \subseteq Conns /\ IsFiniteSet(Accepted)
  <2>1. c \in Nat \ {0} /\ Accepted = 1..(c - 1)
    BY <1>p DEF IInv, PoolIInv, PoolTypes, Accepted
  <2>2. Accepted' = 1..c
    BY <1>3, <2>1 DEF Accepted
  <2>3. 1..c = 1..(c - 1) \cup {c} /\ c \notin 1..(c - 1)
    BY <2>1
  <2>4. IsFiniteSet(1..(c - 1))
    BY <2>1, FS_Interval
  <2>. QED
    BY <2>1, <2>2, <2>3, <2>4, AcceptedOK DEF IInv, ConnIInv
<1>5. \A d \in Conns : loopOf'[d] = IF d = c THEN m ELSE loopOf[d]
  BY <1>3 DEF IInv, ConnIInv, ConnTypes
<1>6. Given(m)' = Given(m) \cup {c} /\ c \notin Given(m)
  BY <1>4, <1>5 DEF Given
<1>7. ASSUME NEW l \in 1..Len(loops_), l # m PROVE Given(l)' = Given(l)
  BY <1>4, <1>5, <1>7 DEF Given
<1>8. Cardinality(Given(m)') = Cardinality(Given(m)) + 1
  <2>1. IsFiniteSet(Given(m))
    BY <1>4, FS_Subset DEF Given
  <2>. QED
    BY <1>6, <2>1, FS_AddElement
<1>9. PICK q \in Nat : \A l \in 1..Len(loops_) :
        Cardinality(Given(l)) = IF l <= next_ THEN q + 1 ELSE q
  BY <1>1 DEF SpreadInv
<1>10. \A l \in 1..Len(loops_) :
         Cardinality(Given(l)') = IF l <= m THEN q + 1 ELSE q
  <2> TAKE l \in 1..Len(loops_)
  <2>1. CASE l = m
    BY <1>1, <1>p, <1>8, <1>9, <2>1
  <2>2. CASE l # m
    <3>1. l <= m <=> l <= next_
      BY <1>1, <1>p, <2>2
    <3>. QED
      BY <1>7, <1>9, <2>2, <3>1
  <2>. QED
    BY <2>1, <2>2
<1>11. CASE m # Len(loops_)
  BY <1>1, <1>3, <1>9, <1>10, <1>11
<1>12. CASE m = Len(loops_)
  <2>1. /\ q + 1 \in Nat
        /\ \A l \in 1..Len(loops_) :
             Cardinality(Given(l)') = IF l <= next_' THEN (q + 1) + 1 ELSE q + 1
    BY <1>1, <1>3, <1>10, <1>12
  <2>. QED
    BY <1>1, <2>1
<1>. QED
  BY <1>11, <1>12

(* Every step keeps the connections spread. *)
LEMMA NextSpread == IInv /\ IInv' /\ SpreadInv /\ [Next]_vars => SpreadInv'
<1> SUFFICES ASSUME IInv, IInv', SpreadInv, [Next]_vars PROVE SpreadInv'
  OBVIOUS
<1> USE DEF poolVars, threadVars, acceptVars, connVars
<1>1. ASSUME (\E n \in 0..MaxThreads : setThreadNum(n)) \/ start PROVE SpreadInv'
  BY <1>1, SpreadStays DEF setThreadNum, start
<1>2. ASSUME startLoopReturns PROVE SpreadInv'
  <2>1. (PoolIInv /\ next_conn_id_ = 1)'
    BY <1>2 DEF startLoopReturns, IInv, PoolIInv, PoolInv
  <2>. QED
    BY <2>1, SpreadStart, PTL
<1>3. ASSUME (\E t \in Threads : ThreadMain(t)) \/ clientComes \/ UNCHANGED vars
      PROVE  SpreadInv'
  BY <1>3, SpreadStays DEF ThreadMain, clientComes, vars
<1>4. ASSUME handleRead PROVE SpreadInv'
  BY <1>4, SpreadStays, SpreadAccept DEF handleRead
<1>5. ASSUME NEW l \in Loops, runFunctor(l) PROVE SpreadInv'
  BY <1>5, SpreadStays DEF runFunctor, Established, Destroyed
<1>6. ASSUME NEW c, shutdown(c) \/ handleClose(c) PROVE SpreadInv'
  BY <1>6, SpreadStays DEF shutdown, handleClose
<1>7. ASSUME removeConnectionInLoop \/ destroyServer PROVE SpreadInv'
  BY <1>7, SpreadStays DEF removeConnectionInLoop, destroyServer, Destroyed
<1>. QED
  BY <1>1, <1>2, <1>3, <1>4, <1>5, <1>6, <1>7 DEF Next

(* getNextLoop spreads the connections evenly: Balanced for any number of     *)
(* threads and clients.                                                       *)
THEOREM LoopsStayBalanced == Spec => []Balanced
<1>1. Init => SpreadInv
  BY DEF Init, EventLoopThreadPool, SpreadInv
<1>2. IInv /\ SpreadInv => Balanced
  <2> SUFFICES ASSUME IInv, SpreadInv, loops_ # <<>>
               PROVE  /\ Cardinality(Given(Base)) = 0
                      /\ \A k, l \in 1..Len(loops_) :
                           Cardinality(Given(k)) - Cardinality(Given(l))
                             \in {-1, 0, 1}
    BY DEF Balanced, Given
  <2>1. Cardinality(Given(Base)) = 0
    <3>1. Given(Base) = {}
      BY DEF Given, Base, IInv, PoolIInv, PoolTypes, NextInv
    <3>. QED
      BY <3>1, FS_EmptySet
  <2>2. PICK q \in Nat : \A l \in 1..Len(loops_) :
          Cardinality(Given(l)) = IF l <= next_ THEN q + 1 ELSE q
    BY DEF SpreadInv
  <2>3. ASSUME NEW k \in 1..Len(loops_), NEW l \in 1..Len(loops_)
        PROVE  Cardinality(Given(k)) - Cardinality(Given(l)) \in {-1, 0, 1}
    <3>1. Cardinality(Given(k)) \in {q, q + 1} /\ Cardinality(Given(l)) \in {q, q + 1}
      BY <2>2
    <3>. QED
      BY <3>1
  <2>. QED
    BY <2>1, <2>3
<1>. QED
  BY <1>1, <1>2, Inductive, NextSpread, PTL DEF Spec

==============================================================================

--------------------------- MODULE TcpClientProofs ---------------------------
(***************************************************************************)
(* TcpClient's DCHECKs and the ownership of its sockets, for any number of  *)
(* threads and attempts.  The client is the one the code supports: connect() *)
(* is not called again once an attempt came as far as its channel.          *)
(***************************************************************************)
EXTENDS TcpClient, SequenceTheorems, TLAPS

Ops == {"startInLoop", "resetChannel", "connectDestroyed"}
SocketsOrNone == {0} \cup Sockets
Functors == {f \in [op : Ops, sock : SocketsOrNone] :
               f.op = "connectDestroyed" => f.sock \in Sockets}
Up == {"kConnected", "kDisconnecting"}

(* The functors of a queue. *)
Elems(q) == {q[i] : i \in 1..Len(q)}
Distinct(q) == \A i, j \in 1..Len(q) : q[i] = q[j] => i = j

Pending == Elems(queue)
Waiting(op) == \E f \in Pending : f.op = op
Destroys(s) == functor("connectDestroyed", s) \in Pending

Types ==
  /\ client \in BOOLEAN /\ connect_ \in BOOLEAN /\ watching \in BOOLEAN
  /\ early \in BOOLEAN
  /\ state_ \in {"kDisconnected", "kConnecting", "kConnected"}
  /\ made \in 0..MaxSockets
  /\ channel_ \in SocketsOrNone /\ connection_ \in SocketsOrNone
  /\ conn \in [Sockets -> Up \cup {"none", "kDisconnected"}]
  /\ close_cb_ \in [Sockets -> {"none", "client", "loop"}]
  /\ held \subseteq Sockets
  /\ queue \in Seq(Functors) /\ Distinct(queue)

(* One start is under way at a time, and before any attempt has got on. *)
StartInv ==
  /\ \A t, u \in pc : t = u
  /\ pc # {} => ~Waiting("startInLoop")
  /\ pc # {} \/ Waiting("startInLoop") =>
       state_ = "kDisconnected" /\ made < MaxSockets
  /\ \A f \in Pending : f.op = "startInLoop" => f.sock = 0

(* The channel is there from connecting() until the functor that resets it,  *)
(* and no connection is made before it is off the loop.                      *)
ChannelInv ==
  /\ state_ = "kDisconnected" => channel_ = 0 /\ ~Waiting("resetChannel")
  /\ watching = TRUE => /\ state_ = "kConnecting" /\ channel_ # 0
                        /\ ~Waiting("resetChannel")
  /\ state_ # "kConnected" => \A s \in Sockets : conn[s] = "none"

(* A connection that is up has the client's callback while the client has it, *)
(* and then the loop's and a user; connectDestroyed is queued when it is down.*)
ConnInv(s) ==
  /\ conn[s] = "none" => s \notin held /\ connection_ # s /\ ~Destroys(s)
  /\ conn[s] \in Up =>
       /\ ~Destroys(s)
       /\ \/ close_cb_[s] = "client" /\ client = TRUE /\ connection_ = s
          \/ close_cb_[s] = "loop" /\ connection_ # s /\ s \in held
  /\ conn[s] = "kDisconnected" => connection_ # s

(* SocketsOwned of one socket. *)
Owned(s) ==
  LET trying == channel_ = s /\ watching = TRUE
      connected == conn[s] # "none" /\ (connection_ = s \/ s \in held \/ Destroys(s))
  IN  s \in open <=> (trying \/ connected)

(* Once the client is gone no socket is waited for, and unless it went too    *)
(* early nothing comes to its Connector any more.                            *)
GoneInv ==
  client = FALSE =>
    /\ watching = FALSE
    /\ early = FALSE => pc = {} /\ ~Waiting("startInLoop")
                                /\ ~Waiting("resetChannel")

(* The process goes on ... *)
Going ==
  /\ Types /\ StartInv /\ ChannelInv /\ GoneInv
  /\ \A s \in Sockets : ConnInv(s) /\ Owned(s)
  /\ failed = "none"

(* ... or it has ended, because something was given up too early. *)
Ended ==
  early = TRUE /\ failed \in {"~Channel", "~TcpConnection", "freed Connector"}

IInv == Going \/ Ended

-----------------------------------------------------------------------------
(* Queues without repetitions. *)

(* A functor queued behind the others. *)
LEMMA AppendElems ==
  ASSUME NEW q \in Seq(Functors), Distinct(q), NEW f \in Functors, f \notin Elems(q)
  PROVE  /\ Append(q, f) \in Seq(Functors) /\ Distinct(Append(q, f))
         /\ Elems(Append(q, f)) = Elems(q) \cup {f}
<1> DEFINE r == Append(q, f)
<1>1. /\ Len(q) \in Nat /\ r \in Seq(Functors) /\ Len(r) = Len(q) + 1
      /\ \A i \in 1..Len(q) : r[i] = q[i]
      /\ r[Len(q) + 1] = f
  BY AppendProperties
<1> HIDE DEF r
<1>2. Distinct(r)
  BY <1>1 DEF Distinct, Elems
<1>3. Elems(r) = Elems(q) \cup {f}
  <2>1. \A i \in 1..Len(r) : i \in 1..Len(q) \/ i = Len(q) + 1
    BY <1>1
  <2>2. \A i \in 1..Len(q) : i \in 1..Len(r)
    BY <1>1
  <2>3. Len(q) + 1 \in 1..Len(r)
    BY <1>1
  <2>. QED
    BY <1>1, <2>1, <2>2, <2>3 DEF Elems
<1>. QED
  BY <1>1, <1>2, <1>3 DEF r

(* The first functor taken off. *)
LEMMA TailElems ==
  ASSUME NEW q \in Seq(Functors), Distinct(q), q # <<>>
  PROVE  /\ Tail(q) \in Seq(Functors) /\ Distinct(Tail(q))
         /\ Head(q) \in Elems(q) /\ Head(q) \in Functors
         /\ Elems(Tail(q)) = Elems(q) \ {Head(q)}
<1> DEFINE r == Tail(q)
           h == Head(q)
<1>1. /\ Len(q) \in Nat \ {0} /\ r \in Seq(Functors) /\ Len(r) = Len(q) - 1
      /\ \A i \in 1..Len(q) - 1 : r[i] = q[i + 1]
      /\ h = q[1] /\ h \in Functors
  BY HeadTailProperties
<1> HIDE DEF r, h
<1>2. Distinct(r)
  BY <1>1 DEF Distinct
<1>3. h \in Elems(q)
  BY <1>1 DEF Elems
<1>4. ASSUME NEW f \in Elems(r) PROVE f \in Elems(q) /\ f # h
  <2>1. PICK i \in 1..Len(r) : r[i] = f
    BY DEF Elems
  <2>2. i + 1 \in 1..Len(q) /\ q[i + 1] = f /\ i + 1 # 1 /\ 1 \in 1..Len(q)
    BY <1>1, <2>1
  <2>. QED
    BY <1>1, <2>2 DEF Elems, Distinct
<1>5. ASSUME NEW f \in Elems(q), f # h PROVE f \in Elems(r)
  <2>1. PICK i \in 1..Len(q) : q[i] = f
    BY DEF Elems
  <2>2. i - 1 \in 1..Len(r) /\ r[i - 1] = f
    BY <1>1, <1>5, <2>1
  <2>. QED
    BY <2>2 DEF Elems
<1>. QED
  BY <1>1, <1>2, <1>3, <1>4, <1>5 DEF r, h

(* Functors are told apart by operation and socket. *)
LEMMA FunctorOK ==
  /\ \A op \in Ops, s \in Sockets : functor(op, s) \in Functors
  /\ functor("startInLoop", 0) \in Functors
  /\ \A op, s : functor(op, s).op = op /\ functor(op, s).sock = s
  /\ \A f \in Functors : /\ f.op \in Ops /\ f = functor(f.op, f.sock)
                         /\ f.op = "connectDestroyed" => f.sock \in Sockets
  /\ \A op, s, p, u : functor(op, s) = functor(p, u) <=> op = p /\ s = u
BY DEF functor, Functors, Ops, SocketsOrNone

(* The model's tests of the queue are about what is pending. *)
LEMMA PendingOK ==
  ASSUME queue \in Seq(Functors)
  PROVE  /\ \A op : Waits(op) <=> Waiting(op)
         /\ \A s : Destroys(s) <=> \E i \in DOMAIN queue :
                     queue[i] = functor("connectDestroyed", s)
         /\ \A s : s \in InQueue <=> Destroys(s)
         /\ Pending \subseteq Functors
<1>1. DOMAIN queue = 1..Len(queue) /\ \A i \in DOMAIN queue : queue[i] \in Functors
  OBVIOUS
<1>2. \A s : Destroys(s) <=> \E i \in DOMAIN queue :
                 queue[i] = functor("connectDestroyed", s)
  BY <1>1 DEF Destroys, Pending, Elems
<1>3. \A f \in Functors : \A s :
        f = functor("connectDestroyed", s) <=>
          f.op = "connectDestroyed" /\ s = f.sock
  <2> SUFFICES ASSUME NEW f \in Functors, NEW s
               PROVE  f = functor("connectDestroyed", s) <=>
                        f.op = "connectDestroyed" /\ s = f.sock
    OBVIOUS
  <2>1. f = functor(f.op, f.sock)
    BY FunctorOK
  <2>2. functor("connectDestroyed", s).op = "connectDestroyed"
        /\ functor("connectDestroyed", s).sock = s
    BY FunctorOK
  <2>. QED
    BY <2>1, <2>2
<1>4. \A s : s \in InQueue <=> Destroys(s)
  BY <1>1, <1>2, <1>3 DEF InQueue
<1>. QED
  BY <1>1, <1>2, <1>4 DEF Waits, Waiting, Pending, Elems

-----------------------------------------------------------------------------
(* The Connector's steps. *)

(* Initially nothing is under way. *)
LEMMA InitOK == Init => Going
<1> SUFFICES ASSUME Init PROVE Going
  OBVIOUS
<1> USE DEF Init, Connector
<1>1. queue = <<>> /\ Pending = {}
  BY DEF Pending, Elems
<1>2. Types
  <2>1. /\ client \in BOOLEAN /\ connect_ \in BOOLEAN /\ watching \in BOOLEAN
        /\ early \in BOOLEAN
    OBVIOUS
  <2>2. queue \in Seq(Functors) /\ Distinct(queue)
    BY <1>1 DEF Distinct
  <2>. QED
    BY <2>1, <2>2, ConstantsAssumption DEF Types, SocketsOrNone
<1>3. StartInv /\ ChannelInv /\ GoneInv
  BY <1>1 DEF StartInv, ChannelInv, GoneInv, Waiting
<1>4. ASSUME NEW s \in Sockets PROVE ConnInv(s) /\ Owned(s)
  <2>1. s # 0
    BY DEF Sockets
  <2>2. conn[s] = "none"
    OBVIOUS
  <2>. QED
    BY <1>1, <2>1, <2>2 DEF ConnInv, Owned, Destroys, Up
<1>. QED
  BY <1>2, <1>3, <1>4 DEF Going

(* connect() is called when nothing of the Connector is on its way. *)
LEMMA MayConnectOK ==
  ASSUME Going, MayConnect, Reconnects = FALSE
  PROVE  /\ state_ = "kDisconnected" /\ channel_ = 0 /\ made < MaxSockets
         /\ pc = {} /\ ~Waiting("startInLoop") /\ client = TRUE
<1>1. queue \in Seq(Functors) /\ client \in BOOLEAN
  BY DEF Going, Types
<1>. QED
  BY <1>1, PendingOK DEF MayConnect, Idle

(* startInLoop, when its DCHECK holds and there is a socket left. *)
LEMMA StartKeeps ==
  ASSUME Going, NEW wanted \in BOOLEAN, startInLoop(wanted),
         state_ = "kDisconnected", made < MaxSockets,
         pc = {}, client = TRUE,
         UNCHANGED <<client, connection_, conn, close_cb_, held, pc, early>>,
         connect_' \in BOOLEAN, queue' \in Seq(Functors), Distinct(queue'),
         Pending' \subseteq Pending,
         \A f \in Pending' : f.op # "startInLoop",
         \A f \in Pending : f.op # "startInLoop" => f \in Pending'
  PROVE  Going'
<1> USE DEF Going
<1>1. channel_ = 0 /\ watching = FALSE /\ ~Waiting("resetChannel")
      /\ \A s \in Sockets : conn[s] = "none" /\ s \notin open
  <2>1. channel_ = 0 /\ watching = FALSE /\ ~Waiting("resetChannel")
        /\ \A s \in Sockets : conn[s] = "none"
    BY DEF ChannelInv, Types
  <2>. QED
    BY <2>1 DEF Owned
<1>2. made \in Nat /\ made + 1 \in Sockets /\ made + 1 \in 0..MaxSockets
      /\ made + 1 # 0
  BY ConstantsAssumption DEF Types, Sockets
<1>3. \A s \in Sockets : Destroys(s)' <=> Destroys(s)
  BY FunctorOK DEF Destroys
<1>4. ~Waiting("startInLoop")' /\ ~Waiting("resetChannel")'
  BY <1>1 DEF Waiting
<1>5. \A s \in Sockets : ConnInv(s)'
  BY <1>1, <1>3 DEF ConnInv, Up
<1>6. StartInv' /\ GoneInv'
  BY <1>4 DEF StartInv, GoneInv, Waiting
<1>7. CASE UNCHANGED <<state_, channel_, watching, open, failed>>
          /\ (made' = made \/ made' = made + 1)
  <2>1. Types'
    BY <1>2, <1>7 DEF Types
  <2>2. ChannelInv'
    BY <1>1, <1>4, <1>7 DEF ChannelInv
  <2>3. \A s \in Sockets : Owned(s)'
    BY <1>1, <1>3, <1>7 DEF Owned
  <2>. QED
    BY <1>5, <1>6, <1>7, <2>1, <2>2, <2>3
<1>8. CASE /\ made' = made + 1 /\ open' = open \cup {made + 1}
           /\ connecting(made + 1)
  <2>1. /\ state_' = "kConnecting" /\ channel_' = made + 1 /\ watching' = TRUE
        /\ failed' = "none"
    BY <1>1, <1>8 DEF connecting
  <2>2. Types'
    BY <1>2, <1>8, <2>1 DEF Types, SocketsOrNone
  <2>3. ChannelInv'
    BY <1>1, <1>2, <1>4, <2>1 DEF ChannelInv
  <2>4. \A s \in Sockets : Owned(s)'
    BY <1>1, <1>3, <1>8, <2>1 DEF Owned
  <2>. QED
    BY <1>5, <1>6, <2>1, <2>2, <2>3, <2>4
<1>. QED
  BY <1>7, <1>8 DEF startInLoop, attempt, Created

(* connect() on the loop. *)
LEMMA ConnectKeeps ==
  ASSUME Going, Reconnects = FALSE, connect
  PROVE  Going'
<1>1. /\ state_ = "kDisconnected" /\ made < MaxSockets /\ pc = {}
      /\ ~Waiting("startInLoop") /\ client = TRUE
  BY MayConnectOK DEF connect
<1>2. Pending' = Pending /\ queue' = queue /\ queue \in Seq(Functors)
      /\ Distinct(queue)
  BY DEF connect, Pending, Going, Types
<1>3. TRUE \in BOOLEAN /\ connect_' \in BOOLEAN /\ startInLoop(TRUE)
  BY DEF connect
<1>4. UNCHANGED <<client, connection_, conn, close_cb_, held, pc, early>>
  BY DEF connect, connVars
<1>5. \A f \in Pending : f.op # "startInLoop"
  BY <1>1 DEF Waiting
<1>. QED
  BY <1>1, <1>2, <1>3, <1>4, <1>5, StartKeeps

(* A step that leaves the connections, the channel and the queue alone. *)
LEMMA StartsStay ==
  ASSUME Going, connect_' \in BOOLEAN, StartInv', client = TRUE,
         UNCHANGED <<client, state_, channel_, watching, connection_, made, open,
                     conn, close_cb_, held, early, failed>>,
         queue' \in Seq(Functors), Distinct(queue'),
         Waiting("resetChannel")' <=> Waiting("resetChannel"),
         \A s \in Sockets : Destroys(s)' <=> Destroys(s)
  PROVE  Going'
<1> USE DEF Going
<1>1. Types' /\ ChannelInv' /\ GoneInv'
  BY DEF Types, ChannelInv, GoneInv
<1>2. \A s \in Sockets : ConnInv(s)' /\ Owned(s)'
  BY DEF ConnInv, Owned
<1>. QED
  BY <1>1, <1>2

(* connect() on another thread, and stop(). *)
LEMMA ConnectFromKeeps ==
  ASSUME Going, Reconnects = FALSE, stop \/ (\E t \in Threads : connectFrom(t))
  PROVE  Going'
<1> USE DEF connVars
<1>1. /\ UNCHANGED <<client, state_, channel_, watching, connection_, made, open,
                     conn, close_cb_, held, early, failed, queue>>
      /\ connect_' \in BOOLEAN /\ client = TRUE
  <2>1. CASE stop
    BY <2>1 DEF stop, Stopped, Going, Types
  <2>2. ASSUME NEW t \in Threads, connectFrom(t)
        PROVE  connect_' = TRUE /\ client = TRUE
    BY <2>2, MayConnectOK DEF connectFrom
  <2>. QED
    BY <2>1, <2>2 DEF connectFrom
<1>2. /\ Pending' = Pending /\ queue' \in Seq(Functors) /\ Distinct(queue')
      /\ Waiting("startInLoop")' <=> Waiting("startInLoop")
      /\ Waiting("resetChannel")' <=> Waiting("resetChannel")
      /\ \A s \in Sockets : Destroys(s)' <=> Destroys(s)
  BY <1>1 DEF Going, Types, Pending, Waiting, Destroys
<1>3. StartInv'
  <2>1. CASE stop
    BY <1>1, <1>2, <2>1 DEF stop, Going, StartInv
  <2>2. ASSUME NEW t \in Threads, connectFrom(t) PROVE StartInv'
    <3>1. /\ state_ = "kDisconnected" /\ made < MaxSockets /\ pc = {}
          /\ ~Waiting("startInLoop") /\ pc' = {t}
      BY <2>2, MayConnectOK DEF connectFrom
    <3>. QED
      BY <1>1, <1>2, <3>1 DEF Going, StartInv
  <2>. QED
    BY <2>1, <2>2
<1>. QED
  BY <1>1, <1>2, <1>3, StartsStay

(* The functor is queued. *)
LEMMA QueueStartKeeps ==
  ASSUME Going, NEW t \in Threads, queueStart(t)
  PROVE  IInv'
<1> USE DEF connVars
<1>u. CASE client = FALSE
  <2>1. early = TRUE
    BY <1>u DEF queueStart, Going, GoneInv, Types
  <2>. QED
    BY <1>u, <2>1 DEF queueStart, useAfterFree, IInv, Ended
<1>c. SUFFICES ASSUME client = TRUE PROVE Going'
  BY <1>u DEF Going, Types, IInv
<1> DEFINE f == functor("startInLoop", 0)
<1>1. /\ UNCHANGED <<client, state_, channel_, watching, connection_, made, open,
                     conn, close_cb_, held, early, failed, connect_>>
      /\ t \in pc /\ pc' = pc \ {t} /\ queue' = Append(queue, f)
  BY <1>c DEF queueStart
<1>2. /\ f \in Functors /\ f.op = "startInLoop" /\ f.sock = 0
      /\ \A s : f # functor("connectDestroyed", s)
  BY FunctorOK DEF Ops, SocketsOrNone
<1> HIDE DEF f
<1>3. /\ state_ = "kDisconnected" /\ made < MaxSockets /\ pc = {t}
      /\ ~Waiting("startInLoop")
  BY <1>1 DEF Going, StartInv
<1>4. queue' \in Seq(Functors) /\ Distinct(queue') /\ Pending' = Pending \cup {f}
  <2>1. f \notin Elems(queue) /\ queue \in Seq(Functors) /\ Distinct(queue)
    BY <1>2, <1>3 DEF Waiting, Pending, Going, Types
  <2>. QED
    BY <1>1, <1>2, <2>1, AppendElems DEF Pending
<1>5. /\ Waiting("resetChannel")' <=> Waiting("resetChannel")
      /\ \A s \in Sockets : Destroys(s)' <=> Destroys(s)
  BY <1>2, <1>4 DEF Waiting, Destroys
<1>6. StartInv'
  BY <1>1, <1>2, <1>3, <1>4 DEF Going, StartInv
<1>7. connect_' \in BOOLEAN
  BY <1>1 DEF Going, Types
<1>. QED
  BY <1>c, <1>1, <1>4, <1>5, <1>6, <1>7, StartsStay

(* The functor a loop is about to run, and what is left. *)
LEMMA RunsOK ==
  ASSUME Going, NEW op, runs(op)
  PROVE  /\ Head(queue) \in Pending /\ Head(queue) \in Functors
         /\ Head(queue).op = op
         /\ queue' \in Seq(Functors) /\ Distinct(queue')
         /\ Pending' = Pending \ {Head(queue)}
<1>1. queue \in Seq(Functors) /\ Distinct(queue) /\ queue # <<>>
      /\ queue' = Tail(queue) /\ Head(queue).op = op
  BY DEF Going, Types, runs
<1>. QED
  BY <1>1, TailElems DEF Pending

(* startInLoop as a functor. *)
LEMMA RunStartKeeps == Going /\ runStartInLoop => IInv'
<1> SUFFICES ASSUME Going, runStartInLoop PROVE IInv'
  OBVIOUS
<1>1. /\ Head(queue) \in Pending /\ Head(queue) \in Functors
      /\ Head(queue).op = "startInLoop"
      /\ queue' \in Seq(Functors) /\ Distinct(queue')
      /\ Pending' = Pending \ {Head(queue)}
  BY RunsOK DEF runStartInLoop
<1>2. /\ state_ = "kDisconnected" /\ made < MaxSockets /\ pc = {}
  BY <1>1 DEF Going, StartInv, Waiting
<1>3. \A f \in Pending : f.op = "startInLoop" => f = Head(queue)
  BY <1>1, PendingOK, FunctorOK DEF Going, Types, StartInv
<1>4. Pending' \subseteq Pending /\ (\A f \in Pending' : f.op # "startInLoop")
      /\ \A f \in Pending : f.op # "startInLoop" => f \in Pending'
  BY <1>1, <1>3
<1>5. connect_ \in BOOLEAN /\ connect_' \in BOOLEAN
      /\ UNCHANGED <<client, connection_, conn, close_cb_, held, pc, early>>
  BY DEF runStartInLoop, connVars, Going, Types
<1>6. CASE client = TRUE
  <2>1. startInLoop(connect_)
    BY <1>6 DEF runStartInLoop
  <2>2. Going'
    BY <1>1, <1>2, <1>4, <1>5, <1>6, <2>1, StartKeeps
  <2>. QED
    BY <2>2 DEF IInv
<1>7. CASE client = FALSE
  <2>1. early = TRUE
    BY <1>1, <1>7 DEF Going, GoneInv, Types, Waiting
  <2>. QED
    BY <1>5, <1>7, <2>1 DEF runStartInLoop, useAfterFree, IInv, Ended
<1>. QED
  BY <1>6, <1>7 DEF Going, Types

(* resetChannel finds its watcher stopped. *)
LEMMA ResetKeeps == Going /\ resetChannel => IInv'
<1> SUFFICES ASSUME Going, resetChannel PROVE IInv'
  OBVIOUS
<1> USE DEF connVars, Going
<1> DEFINE f == Head(queue)
<1>1. /\ f \in Pending /\ f \in Functors /\ f.op = "resetChannel"
      /\ queue' \in Seq(Functors) /\ Distinct(queue') /\ Pending' = Pending \ {f}
  BY RunsOK DEF resetChannel
<1> HIDE DEF f
<1>2. watching = FALSE /\ state_ # "kDisconnected"
  BY <1>1 DEF ChannelInv, Waiting, Types
<1>u. CASE client = FALSE
  <2>1. early = TRUE
    BY <1>1, <1>u DEF GoneInv, Types, Waiting
  <2>2. early' = TRUE /\ failed' = "freed Connector"
    BY <1>u, <2>1 DEF resetChannel, useAfterFree
  <2>. QED
    BY <2>2 DEF IInv, Ended
<1>c. SUFFICES ASSUME client = TRUE PROVE Going'
  BY <1>u DEF Types, IInv
<1>3. /\ channel_' = 0 /\ failed' = "none" /\ watching' = FALSE
      /\ UNCHANGED <<client, connect_, state_, connection_, made, open, conn,
                     close_cb_, held, pc, early>>
  BY <1>c, <1>2 DEF resetChannel
<1>4. \A s : Destroys(s)' <=> Destroys(s)
  BY <1>1, FunctorOK DEF Destroys
<1>5. Types'
  BY <1>1, <1>3 DEF Types, SocketsOrNone
<1>6. StartInv'
  <2>1. Waiting("startInLoop")' <=> Waiting("startInLoop")
    BY <1>1 DEF Waiting
  <2>. QED
    BY <1>1, <1>3, <2>1 DEF StartInv
<1>7. ChannelInv' /\ GoneInv'
  BY <1>c, <1>2, <1>3 DEF ChannelInv, GoneInv
<1>8. \A s \in Sockets : ConnInv(s)' /\ Owned(s)'
  BY <1>2, <1>3, <1>4 DEF ConnInv, Owned
<1>. QED
  BY <1>3, <1>5, <1>6, <1>7, <1>8

-----------------------------------------------------------------------------
(* The connections' steps. *)

(* handleWrite: the socket is closed, or becomes a TcpConnection. *)
LEMMA HandleWriteKeeps == Going /\ handleWrite => Going'
<1> SUFFICES ASSUME Going, handleWrite PROVE Going'
  OBVIOUS
<1> USE DEF connVars, Going
<1>1. /\ watching = TRUE /\ state_ = "kConnecting" /\ client = TRUE
      /\ channel_ \in Sockets /\ ~Waiting("resetChannel")
      /\ \A s \in Sockets : conn[s] = "none"
  BY DEF handleWrite, ChannelInv, Types, SocketsOrNone
<1>p. PICK c \in Sockets : c = channel_
  BY <1>1
<1> DEFINE f == functor("resetChannel", c)
<1>2. /\ queue' = Append(queue, f) /\ watching' = FALSE /\ failed' = "none"
      /\ UNCHANGED <<client, connect_, made, held, pc, early, channel_>>
  BY <1>p DEF handleWrite, removeAndResetChannel
<1>3. PICK err \in BOOLEAN : settle(c, err)
  BY <1>p DEF handleWrite, GetSocketError, settle, Close, newConnection
<1>4. /\ f \in Functors /\ f.op = "resetChannel"
      /\ \A s : f # functor("connectDestroyed", s)
  BY DEF Ops, SocketsOrNone, functor, Functors
<1> HIDE DEF f
<1>5. queue' \in Seq(Functors) /\ Distinct(queue') /\ Pending' = Pending \cup {f}
  <2>1. f \notin Elems(queue) /\ queue \in Seq(Functors) /\ Distinct(queue)
    BY <1>1, <1>4 DEF Waiting, Pending, Types
  <2>. QED
    BY <1>2, <1>4, <2>1, AppendElems DEF Pending
<1>6. \A s : Destroys(s)' <=> Destroys(s)
  BY <1>4, <1>5 DEF Destroys
<1>7. StartInv' /\ GoneInv'
  <2>1. pc = {} /\ ~Waiting("startInLoop")
    BY <1>1 DEF StartInv
  <2>2. pc' = {} /\ ~Waiting("startInLoop")'
    BY <1>2, <1>4, <1>5, <2>1 DEF Waiting
  <2>. QED
    BY <1>1, <1>2, <2>2 DEF StartInv, GoneInv, Waiting
<1>8. /\ connection_ \notin Sockets
      /\ \A s \in Sockets : /\ s \notin held /\ connection_ # s /\ ~Destroys(s)
                            /\ s \in open <=> s = c
  BY <1>1, <1>p DEF ConnInv, Owned
<1>9. CASE /\ open' = open \ {c} /\ UNCHANGED <<connection_, conn, close_cb_>>
           /\ state_' \in {"kConnecting", "kConnected"}
  <2>1. Types'
    BY <1>2, <1>5, <1>9 DEF Types
  <2>2. ChannelInv'
    BY <1>1, <1>2, <1>9 DEF ChannelInv
  <2>3. \A s \in Sockets : ConnInv(s)'
    BY <1>1, <1>2, <1>6, <1>8, <1>9 DEF ConnInv, Up
  <2>4. \A s \in Sockets : Owned(s)'
    BY <1>1, <1>2, <1>8, <1>9 DEF Owned
  <2>. QED
    BY <1>2, <1>7, <2>1, <2>2, <2>3, <2>4
<1>10. CASE newConnection(c) /\ open' = open /\ state_' = "kConnected"
  <2>1. /\ connection_' = c
        /\ conn' = [conn EXCEPT ![c] = "kConnected"]
        /\ close_cb_' = [close_cb_ EXCEPT ![c] = "client"]
    BY <1>10 DEF newConnection
  <2>2. /\ conn' \in [Sockets -> Up \cup {"none", "kDisconnected"}]
        /\ close_cb_' \in [Sockets -> {"none", "client", "loop"}]
        /\ conn'[c] = "kConnected" /\ close_cb_'[c] = "client"
        /\ \A s \in Sockets \ {c} : conn'[s] = "none"
    BY <1>1, <2>1 DEF Types, Up
  <2>3. Types'
    BY <1>2, <1>5, <1>10, <2>1, <2>2 DEF Types, SocketsOrNone
  <2>4. ChannelInv'
    BY <1>2, <1>10 DEF ChannelInv
  <2>5. \A s \in Sockets : ConnInv(s)'
    BY <1>1, <1>2, <1>6, <1>8, <2>1, <2>2 DEF ConnInv, Up
  <2>6. \A s \in Sockets : Owned(s)'
    BY <1>1, <1>2, <1>6, <1>8, <1>10, <2>1, <2>2 DEF Owned
  <2>. QED
    BY <1>2, <1>7, <2>3, <2>4, <2>5, <2>6
<1>11. state_' \in {"kConnecting", "kConnected"}
  BY <1>1, <1>3 DEF settle
<1>. QED
  BY <1>3, <1>9, <1>10, <1>11 DEF settle, Close

(* A step of the connections or their users that leaves the Connector alone. *)
LEMMA ConnectorStays ==
  ASSUME Going,
         UNCHANGED <<connect_, state_, channel_, watching, made, pc>>,
         client' = client, early' \in BOOLEAN, early' = FALSE => early = FALSE,
         connection_' \in SocketsOrNone, failed' = "none",
         conn' \in [Sockets -> Up \cup {"none", "kDisconnected"}],
         close_cb_' \in [Sockets -> {"none", "client", "loop"}],
         held' \subseteq Sockets, queue' \in Seq(Functors), Distinct(queue'),
         \A s \in Sockets : conn[s] = "none" => conn'[s] = "none",
         \A f : f.op # "connectDestroyed" =>
           (f \in Pending' <=> f \in Pending),
         \A s \in Sockets : ConnInv(s)' /\ Owned(s)'
  PROVE  Going'
<1> USE DEF Going
<1>1. Types'
  BY DEF Types
<1>2. /\ Waiting("startInLoop")' <=> Waiting("startInLoop")
      /\ Waiting("resetChannel")' <=> Waiting("resetChannel")
  BY DEF Waiting
<1>3. StartInv'
  BY <1>2 DEF StartInv
<1>4. ChannelInv' /\ GoneInv'
  BY <1>2 DEF ChannelInv, GoneInv
<1>. QED
  BY <1>1, <1>3, <1>4

(* disconnect(). *)
LEMMA DisconnectKeeps == Going /\ disconnect => Going'
<1> SUFFICES ASSUME Going, disconnect PROVE Going'
  OBVIOUS
<1> USE DEF connVars, Going
<1>0. connection_ \in Sockets
  BY DEF disconnect, Types, SocketsOrNone
<1>p. PICK c \in Sockets : c = connection_
  BY <1>0
<1>1. /\ conn[c] = "kConnected" /\ conn' = [conn EXCEPT ![c] = "kDisconnecting"]
      /\ UNCHANGED <<client, connect_, state_, channel_, watching, connection_,
                     made, open, close_cb_, held, queue, pc, early, failed>>
  BY <1>p DEF disconnect
<1>2. /\ conn' \in [Sockets -> Up \cup {"none", "kDisconnected"}]
      /\ \A s \in Sockets : conn'[s] = IF s = c THEN "kDisconnecting" ELSE conn[s]
  BY <1>1 DEF Types, Up
<1>3. Pending' = Pending /\ \A s : Destroys(s)' <=> Destroys(s)
  BY <1>1 DEF Pending, Destroys
<1>4. \A s \in Sockets : ConnInv(s)' /\ Owned(s)'
  BY <1>1, <1>2, <1>3 DEF ConnInv, Owned, Up
<1>5. /\ client' = client /\ early' = early /\ early \in BOOLEAN
      /\ connection_' \in SocketsOrNone
      /\ close_cb_' \in [Sockets -> {"none", "client", "loop"}]
      /\ held' \subseteq Sockets /\ queue' \in Seq(Functors) /\ Distinct(queue')
      /\ failed' = "none"
  BY <1>1 DEF Types
<1>. QED
  BY <1>1, <1>2, <1>3, <1>4, <1>5, ConnectorStays

(* handleClose, with the close callback of the client or of the loop. *)
LEMMA HandleCloseKeeps ==
  ASSUME Going, NEW c \in Sockets, handleClose(c)
  PROVE  Going'
<1> USE DEF connVars, Going
<1> DEFINE f == functor("connectDestroyed", c)
<1>1. /\ conn[c] \in Up /\ conn' = [conn EXCEPT ![c] = "kDisconnected"]
      /\ queue' = Append(queue, f)
      /\ UNCHANGED <<client, connect_, state_, channel_, watching, made, open,
                     close_cb_, held, pc, early>>
  BY DEF handleClose, removeConnection, removeConnectionInLoop, queueDestroyed,
         Up
<1>2. /\ conn' \in [Sockets -> Up \cup {"none", "kDisconnected"}]
      /\ \A s \in Sockets : conn'[s] = IF s = c THEN "kDisconnected" ELSE conn[s]
  BY <1>1 DEF Types
<1>3. f \in Functors /\ f.op = "connectDestroyed"
      /\ \A s : functor("connectDestroyed", s) = f <=> s = c
  BY DEF Ops, SocketsOrNone, functor, Functors
<1>4. ~Destroys(c)
  BY <1>1 DEF ConnInv
<1>5. queue' \in Seq(Functors) /\ Distinct(queue') /\ Pending' = Pending \cup {f}
  <2>1. f \notin Elems(queue) /\ queue \in Seq(Functors) /\ Distinct(queue)
    BY <1>4 DEF Destroys, Pending, Types
  <2> HIDE DEF f
  <2>. QED
    BY <1>1, <1>3, <2>1, AppendElems DEF Pending
<1> HIDE DEF f
<1>6. \A s : Destroys(s)' <=> Destroys(s) \/ s = c
  BY <1>3, <1>5 DEF Destroys
<1>7. /\ failed' = "none" /\ connection_' # c /\ connection_' \in SocketsOrNone
      /\ \A s \in Sockets \ {c} : connection_' = s <=> connection_ = s
  <2>0. c # 0
    BY DEF Sockets
  <2>1. CASE close_cb_[c] = "client"
    <3>1. client = TRUE /\ connection_ = c
      BY <1>1, <2>1 DEF ConnInv
    <3>2. connection_' = 0 /\ failed' = "none"
      BY <2>1, <3>1 DEF handleClose, removeConnection
    <3>. QED
      BY <2>0, <3>1, <3>2 DEF SocketsOrNone, Sockets
  <2>2. CASE close_cb_[c] = "loop"
    <3>1. connection_ # c
      BY <1>1, <2>2 DEF ConnInv
    <3>2. connection_' = connection_ /\ failed' = "none"
      BY <2>2 DEF handleClose, removeConnectionInLoop
    <3>. QED
      BY <3>1, <3>2 DEF Types
  <2>. QED
    BY <2>1, <2>2 DEF handleClose
<1>8. \A s \in Sockets : ConnInv(s)'
  BY <1>1, <1>2, <1>6, <1>7 DEF ConnInv, Up
<1>9. ASSUME NEW s \in Sockets PROVE Owned(s)'
  <2>1. CASE s = c
    <3>1. s \in open
      BY <1>1, <2>1 DEF ConnInv, Owned, Up
    <3>. QED
      BY <1>1, <1>2, <1>6, <2>1, <3>1 DEF Owned
  <2>2. CASE s # c
    BY <1>1, <1>2, <1>6, <1>7, <2>2 DEF Owned
  <2>. QED
    BY <2>1, <2>2
<1>10. /\ client' = client /\ early' = early /\ early \in BOOLEAN
       /\ held' \subseteq Sockets
       /\ close_cb_' \in [Sockets -> {"none", "client", "loop"}]
  BY <1>1 DEF Types
<1>11. /\ \A s \in Sockets : conn[s] = "none" => conn'[s] = "none"
       /\ \A g : g.op # "connectDestroyed" => (g \in Pending' <=> g \in Pending)
  BY <1>1, <1>2, <1>3, <1>5 DEF Up
<1>. QED
  BY <1>1, <1>2, <1>5, <1>7, <1>8, <1>9, <1>10, <1>11, ConnectorStays

(* Somebody lets go of a connection that is down or has another reference. *)
LEMMA ReleasedOK ==
  ASSUME Going, NEW c \in Sockets, NEW elsewhere, released(c, elsewhere),
         conn[c] = "kDisconnected" \/ c \in elsewhere
  PROVE  /\ failed' = "none"
         /\ \A s \in Sockets : s \in open' <=>
              s \in open /\ ~(s = c /\ c \notin elsewhere)
<1> USE DEF Going
<1>1. CASE c \notin elsewhere
  BY <1>1 DEF released, Close
<1>2. CASE c \in elsewhere
  BY <1>2 DEF released
<1>. QED
  BY <1>1, <1>2

(* connectDestroyed as a functor. *)
LEMMA ConnectDestroyedKeeps == Going /\ connectDestroyed => Going'
<1> SUFFICES ASSUME Going, connectDestroyed PROVE Going'
  OBVIOUS
<1> USE DEF connVars, Going
<1> DEFINE f == Head(queue)
<1>1. /\ f \in Pending /\ f \in Functors /\ f.op = "connectDestroyed"
      /\ queue' \in Seq(Functors) /\ Distinct(queue') /\ Pending' = Pending \ {f}
  BY RunsOK DEF connectDestroyed
<1>2. /\ UNCHANGED <<client, connect_, state_, channel_, watching, connection_,
                     made, conn, close_cb_, held, pc, early>>
      /\ released(f.sock, held \cup {connection_})
  BY DEF connectDestroyed
<1> HIDE DEF f
<1>3. f.sock \in Sockets /\ f = functor("connectDestroyed", f.sock)
  BY <1>1, FunctorOK
<1>p. PICK c \in Sockets : c = f.sock
  BY <1>3
<1>4. Destroys(c) /\ (\A s : Destroys(s)' <=> Destroys(s) /\ s # c)
  BY <1>1, <1>3, <1>p, FunctorOK DEF Destroys
<1>5. conn[c] = "kDisconnected" /\ connection_ # c
  BY <1>4 DEF ConnInv, Types
<1>6. released(c, held \cup {connection_})
  BY <1>2, <1>p DEF released, Close
<1>7. /\ failed' = "none"
      /\ \A s \in Sockets : s \in open' <=>
           s \in open /\ ~(s = c /\ c \notin held /\ connection_ # c)
  <2>1. /\ failed' = "none"
        /\ \A s \in Sockets : s \in open' <=>
             s \in open /\ ~(s = c /\ c \notin held \cup {connection_})
    BY <1>5, <1>6, ReleasedOK
  <2>. QED
    BY <2>1
<1>8. \A s \in Sockets : ConnInv(s)'
  BY <1>2, <1>4, <1>5 DEF ConnInv, Up
<1>9. ASSUME NEW s \in Sockets PROVE Owned(s)'
  <2>1. CASE s = c
    <3>1. watching = TRUE => channel_ # c
      BY <1>5 DEF ChannelInv
    <3>. QED
      BY <1>2, <1>4, <1>5, <1>7, <2>1, <3>1 DEF Owned
  <2>2. CASE s # c
    BY <1>2, <1>4, <1>7, <2>2 DEF Owned
  <2>. QED
    BY <2>1, <2>2
<1>10. /\ client' = client /\ early' = early /\ early \in BOOLEAN
       /\ connection_' \in SocketsOrNone
       /\ conn' \in [Sockets -> Up \cup {"none", "kDisconnected"}]
       /\ close_cb_' \in [Sockets -> {"none", "client", "loop"}]
       /\ held' \subseteq Sockets
  BY <1>2 DEF Types
<1>11. /\ \A s \in Sockets : conn[s] = "none" => conn'[s] = "none"
       /\ \A g : g.op # "connectDestroyed" => (g \in Pending' <=> g \in Pending)
  BY <1>1, <1>2
<1>. QED
  BY <1>1, <1>2, <1>7, <1>8, <1>9, <1>10, <1>11, ConnectorStays

(* connection(), and a reference given up. *)
LEMMA UserKeeps ==
  ASSUME Going, hold \/ (\E s \in Sockets : drop(s))
  PROVE  IInv'
<1> USE DEF connVars, Going
<1>1. /\ UNCHANGED <<client, connect_, state_, channel_, watching, connection_,
                     made, conn, close_cb_, queue, pc>>
  BY DEF hold, drop
<1>2. Pending' = Pending /\ \A s : Destroys(s)' <=> Destroys(s)
  BY <1>1 DEF Pending, Destroys
<1>e. early' \in BOOLEAN /\ (early' = FALSE => early = FALSE)
  <2>1. early \in BOOLEAN
    BY DEF Types
  <2>2. CASE hold
    BY <2>1, <2>2 DEF hold
  <2>3. ASSUME NEW s \in Sockets, drop(s)
        PROVE  early' \in BOOLEAN /\ (early' = FALSE => early = FALSE)
    <3>1. early' = (early \/ DroppedEarly(s))
      BY <2>3 DEF drop
    <3>2. CASE early \/ DroppedEarly(s)
      BY <3>1, <3>2, Zenon
    <3>3. CASE ~(early \/ DroppedEarly(s))
      <4>1. early' = FALSE /\ early = FALSE
        BY <2>1, <3>1, <3>3, Zenon
      <4>. QED
        BY <4>1
    <3>. QED
      BY <3>2, <3>3
  <2>. QED
    BY <2>2, <2>3
<1>3. /\ client' = client /\ early' \in BOOLEAN
      /\ early' = FALSE => early = FALSE
      /\ connection_' \in SocketsOrNone
      /\ conn' \in [Sockets -> Up \cup {"none", "kDisconnected"}]
      /\ close_cb_' \in [Sockets -> {"none", "client", "loop"}]
      /\ queue' \in Seq(Functors) /\ Distinct(queue')
      /\ \A s \in Sockets : conn[s] = "none" => conn'[s] = "none"
      /\ \A g : g.op # "connectDestroyed" => (g \in Pending' <=> g \in Pending)
  BY <1>1, <1>2, <1>e DEF Types
<1>4. ASSUME failed' = "none", held' \subseteq Sockets,
             \A s \in Sockets : ConnInv(s)' /\ Owned(s)'
      PROVE  IInv'
  <2>1. Going'
    BY <1>1, <1>3, <1>4, ConnectorStays
  <2>. QED
    BY <2>1 DEF IInv
<1>5. CASE hold
  <2>1. connection_ \in Sockets /\ held' = held \cup {connection_}
        /\ open' = open /\ failed' = "none"
    BY <1>5 DEF hold, Types, SocketsOrNone
  <2>2. conn[connection_] # "none"
    BY <2>1 DEF ConnInv
  <2>3. \A s \in Sockets : ConnInv(s)'
    BY <1>1, <1>2, <2>1, <2>2 DEF ConnInv
  <2>4. \A s \in Sockets : Owned(s)'
    BY <1>1, <1>2, <2>1, <2>2 DEF Owned
  <2>5. held' \subseteq Sockets
    BY <2>1 DEF Types
  <2>. QED
    BY <1>4, <2>1, <2>3, <2>4, <2>5
<1>6. ASSUME NEW c \in Sockets, drop(c) PROVE IInv'
  <2>0. /\ c \in held /\ held' = held \ {c} /\ held' \subseteq Sockets
        /\ released(c, InQueue \cup {connection_})
        /\ DroppedEarly(c) => early' = TRUE
    BY <1>6 DEF drop, Types
  <2>q. \A s : s \in InQueue <=> Destroys(s)
    BY PendingOK DEF Types
  <2>e. CASE conn[c] # "kDisconnected" /\ connection_ # c
    <3>1. c \notin InQueue \cup {connection_} /\ early' = TRUE
      BY <2>0, <2>q, <2>e DEF DroppedEarly, ConnInv, Types
    <3>2. failed' = "~TcpConnection"
      BY <2>0, <2>e, <3>1 DEF released
    <3>. QED
      BY <3>1, <3>2 DEF IInv, Ended
  <2>c. SUFFICES ASSUME conn[c] = "kDisconnected" \/ connection_ = c PROVE IInv'
    BY <2>e
  <2>1. c \in held /\ held' = held \ {c} /\ held' \subseteq Sockets
        /\ (conn[c] = "kDisconnected" \/ connection_ = c)
    BY <2>0, <2>c
  <2>2. /\ failed' = "none"
        /\ \A s \in Sockets : s \in open' <=>
             s \in open /\ ~(s = c /\ ~Destroys(c) /\ connection_ # c)
    <3>1. /\ failed' = "none"
          /\ \A s \in Sockets : s \in open' <=>
               s \in open /\ ~(s = c /\ c \notin InQueue \cup {connection_})
      BY <2>0, <2>1, ReleasedOK
    <3>. QED
      BY <2>q, <3>1
  <2>3. \A s \in Sockets : ConnInv(s)'
    BY <1>1, <1>2, <2>1 DEF ConnInv, Up
  <2>4. ASSUME NEW s \in Sockets PROVE Owned(s)'
    <3>1. CASE s = c
      <4>1. conn[c] # "none"
        BY <2>1 DEF ConnInv
      <4>2. watching = TRUE => channel_ # c
        BY <4>1 DEF ChannelInv
      <4>. QED
        BY <1>1, <1>2, <2>1, <2>2, <3>1, <4>1, <4>2 DEF Owned
    <3>2. CASE s # c
      BY <1>1, <1>2, <2>1, <2>2, <3>2 DEF Owned
    <3>. QED
      BY <3>1, <3>2
  <2>. QED
    BY <1>4, <2>1, <2>2, <2>3, <2>4
<1>. QED
  BY <1>5, <1>6

(* ~TcpClient. *)
LEMMA DestroyClientKeeps == Going /\ destroyClient => IInv'
<1> SUFFICES ASSUME Going, destroyClient PROVE IInv'
  OBVIOUS
<1> USE DEF connVars, Going
<1>g. GivenUpEarly => early' = TRUE
  BY DEF destroyClient
<1>u. CASE watching = TRUE
  <2>1. \A s \in Sockets : conn[s] = "none"
    BY <1>u DEF ChannelInv
  <2>2. connection_ = 0 /\ channel_ # 0
    BY <1>u, <2>1 DEF ChannelInv, ConnInv, Types, SocketsOrNone
  <2>3. failed' = "~Channel" /\ early' = TRUE
    BY <1>g, <1>u, <2>2 DEF destroyClient, membersGo, GivenUpEarly, Idle
  <2>. QED
    BY <2>3 DEF IInv, Ended
<1>v. CASE connection_ \notin held \cup {0}
  <2>1. connection_ \in Sockets /\ conn[connection_] # "kDisconnected"
    BY <1>v DEF ConnInv, Types, SocketsOrNone
  <2>2. failed' = "~TcpConnection" /\ early' = TRUE
    BY <1>g, <1>v, <2>1 DEF destroyClient, membersGo, released, GivenUpEarly
  <2>. QED
    BY <2>2 DEF IInv, Ended
<1>c. SUFFICES ASSUME watching = FALSE, connection_ # 0 => connection_ \in held
               PROVE  Going'
  BY <1>u, <1>v DEF Types, IInv
<1>1. /\ client' = FALSE /\ connection_' = 0 /\ failed' = "none"
      /\ UNCHANGED <<state_, channel_, watching, made, open, conn, held, queue,
                     pc>>
      /\ connection_ # 0 => connection_ \in held
  BY <1>c DEF destroyClient, letGo, membersGo, released
<1>w. /\ early' \in BOOLEAN
      /\ early' = FALSE => pc = {} /\ ~Waiting("startInLoop")
                                   /\ ~Waiting("resetChannel")
  <2>1. early' \in BOOLEAN
    BY DEF destroyClient, Types
  <2>2. early' = FALSE => Idle
    BY <1>g DEF GivenUpEarly
  <2>. QED
    BY <2>1, <2>2, PendingOK DEF Types, Idle
<1>2. /\ Pending' = Pending
      /\ \A s : Destroys(s)' <=> Destroys(s)
      /\ Waiting("startInLoop")' <=> Waiting("startInLoop")
      /\ Waiting("resetChannel")' <=> Waiting("resetChannel")
  BY <1>1 DEF Pending, Destroys, Waiting
<1>3. /\ connect_' \in BOOLEAN
      /\ close_cb_' \in [Sockets -> {"none", "client", "loop"}]
      /\ \A s \in Sockets : close_cb_'[s] = IF s = connection_ THEN "loop"
                                             ELSE close_cb_[s]
  <2>0. 0 \notin Sockets /\ connect_ \in BOOLEAN
        /\ close_cb_ \in [Sockets -> {"none", "client", "loop"}]
    BY DEF Sockets, Types
  <2>1. CASE connection_ # 0
    <3>1. connection_ \in Sockets /\ connect_' = connect_
          /\ close_cb_' = [close_cb_ EXCEPT ![connection_] = "loop"]
      BY <2>1 DEF destroyClient, letGo, Types, SocketsOrNone
    <3>. QED
      BY <2>0, <3>1
  <2>2. CASE connection_ = 0
    <3>1. connect_' = FALSE /\ close_cb_' = close_cb_
      BY <2>2 DEF destroyClient, letGo, Stopped
    <3>. QED
      BY <2>0, <2>2, <3>1
  <2>. QED
    BY <2>1, <2>2
<1>4. Types'
  BY <1>1, <1>3, <1>w DEF Types, SocketsOrNone
<1>5. StartInv' /\ ChannelInv' /\ GoneInv'
  BY <1>c, <1>1, <1>2, <1>w DEF StartInv, ChannelInv, GoneInv
<1>6. ASSUME NEW s \in Sockets PROVE ConnInv(s)' /\ Owned(s)'
  <2>1. s # 0
    BY DEF Sockets
  <2>2. connection_ = s => s \in held
    BY <1>1, <2>1
  <2>. QED
    BY <1>1, <1>2, <1>3, <2>1, <2>2 DEF ConnInv, Owned, Up
<1>. QED
  BY <1>1, <1>4, <1>5, <1>6

-----------------------------------------------------------------------------
(* The theorems. *)

(* The invariant behind the theorems below is inductive. *)
THEOREM Inductive ==
  ASSUME Reconnects = FALSE
  PROVE  Spec => []IInv
<1>1. Init => IInv
  BY InitOK DEF IInv
<1>2. IInv /\ [Next]_vars => IInv'
  <2> SUFFICES ASSUME IInv, [Next]_vars PROVE IInv'
    OBVIOUS
  <2>1. CASE UNCHANGED vars
    <3>1. /\ UNCHANGED <<client, connect_, state_, channel_, watching,
                         connection_, made, open, conn, close_cb_, held, queue,
                         pc, early, failed>>
      BY <2>1 DEF vars, connVars
    <3>2. Ended => Ended'
      BY <3>1 DEF Ended
    <3>3. Going => Going'
      BY <3>1 DEF Going, Types, StartInv, ChannelInv, GoneInv, ConnInv, Owned,
                  Pending, Waiting, Destroys
    <3>. QED
      BY <3>2, <3>3 DEF IInv
  <2>2. CASE Ended /\ Next
    BY <2>2 DEF Ended, Next, connect, connectFrom, MayConnect, queueStart, stop,
       handleWrite, disconnect, handleClose, runs, runStartInLoop, resetChannel,
       connectDestroyed, hold, drop, destroyClient
  <2>3. ASSUME Going, Going' PROVE IInv'
    BY <2>3 DEF IInv
  <2>4. CASE Going /\ Next
    BY <2>3, <2>4, ConnectKeeps, ConnectFromKeeps, QueueStartKeeps, RunStartKeeps,
       ResetKeeps, HandleWriteKeeps, DisconnectKeeps, HandleCloseKeeps,
       ConnectDestroyedKeeps, UserKeeps, DestroyClientKeeps
    DEF Next
  <2>. QED
    BY <2>1, <2>2, <2>4 DEF IInv
<1>. QED
  BY <1>1, <1>2, PTL DEF Spec

(* DchecksHold for any number of threads and attempts, as long as connect()   *)
(* is not called again behind an attempt that got to its channel: the DCHECKs *)
(* of the Connector and of removeConnection never fail, and those of the      *)
(* destructors only behind a client that went in the middle of an attempt or  *)
(* an open connection that lost its last reference.                           *)
THEOREM DchecksNeverFail ==
  ASSUME Reconnects = FALSE
  PROVE  Spec => []DchecksHold
<1>1. IInv => DchecksHold
  BY DEF IInv, Going, Ended, DchecksHold
<1>. QED
  BY <1>1, Inductive, PTL

(* SocketsOwned for any number of threads and attempts, under the same        *)
(* condition: until the process ends every open socket has exactly one owner. *)
(* Of an attempt in whose middle ~TcpClient runs this says nothing.           *)
THEOREM SocketsStayOwned ==
  ASSUME Reconnects = FALSE
  PROVE  Spec => []SocketsOwned
<1>1. IInv => SocketsOwned
  <2> SUFFICES ASSUME Going, NEW s \in Sockets
               PROVE  LET trying == channel_ = s /\ watching
                          connected == conn[s] # "none" /\
                            \/ connection_ = s \/ s \in held
                            \/ \E i \in DOMAIN queue :
                                 queue[i] = functor("connectDestroyed", s)
                      IN  /\ s \in open <=> (trying \/ connected)
                          /\ ~(trying /\ connected)
    BY DEF SocketsOwned, IInv, Ended
  <2>1. /\ Destroys(s) <=> \E i \in DOMAIN queue :
                              queue[i] = functor("connectDestroyed", s)
        /\ watching <=> watching = TRUE
    BY PendingOK DEF Going, Types
  <2>2. s \in open <=>
          \/ channel_ = s /\ watching = TRUE
          \/ conn[s] # "none" /\ (connection_ = s \/ s \in held \/ Destroys(s))
    BY DEF Going, Owned
  <2>3. watching = TRUE => conn[s] = "none"
    BY DEF Going, ChannelInv
  <2>. QED
    BY <2>1, <2>2, <2>3
<1>. QED
  BY <1>1, Inductive, PTL

==============================================================================

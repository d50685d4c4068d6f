----------------------------- MODULE TcpServer -----------------------------
(***************************************************************************)
(* A TcpServer with its Acceptor and its EventLoopThreadPool: the start of  *)
(* the I/O threads, the hand-over of accepted connections to their loops,   *)
(* the way back when they close, and the server's destructor.               *)
(*                                                                          *)
(* Loop 0 is base_loop_, loop i the one of the i-th EventLoopThread.  A     *)
(* loop's functors run one after the other in the order of queueing, which  *)
(* is what module FunctorQueue promises.  Of a connection only its state    *)
(* and its way through the loops are kept; module TcpConnection has the     *)
(* rest.  Connections are numbered by next_conn_id_, which makes their name.*)
(***************************************************************************)
EXTENDS Integers, Sequences, FiniteSets, SequencesExt

CONSTANTS MaxThreads,   \* bound: setThreadNum
          MaxClients    \* bound: clients that come

ASSUME BoundsAssumption == MaxThreads \in Nat /\ MaxClients \in Nat

VARIABLES
  started_,       \* TcpServer::start was called
  num_threads_, loops_, next_,            \* EventLoopThreadPool
  waits,          \* the thread whose startLoop the base thread is in, or 0
  main,           \* where each thread's ThreadMain is
  loop_, event_,  \* EventLoopThread: the published loop (0: null), the signal
  listening_,     \* Acceptor
  clients, backlog,   \* clients that came, and those not yet accepted
  next_conn_id_, connections_,            \* TcpServer
  server,         \* the TcpServer exists
  state_, loopOf, \* of each TcpConnection
  queue,          \* the functors waiting on each loop
  ups, downs,     \* history: connection_cb_ calls, by connected()
  gone            \* history: connectDestroyed was done

poolVars == <<started_, num_threads_, loops_, waits>>
threadVars == <<main, loop_, event_>>
acceptVars == <<listening_, clients, backlog, next_, next_conn_id_>>
connVars == <<state_, loopOf, ups, downs, gone>>
vars == <<poolVars, threadVars, acceptVars, connVars, connections_, server,
          queue>>

Base == 0
Threads == 1..MaxThreads
Loops == {Base} \cup Threads
Conns == 1..MaxClients
Accepted == 1..(next_conn_id_ - 1)

functor(op, c) == [op |-> op, conn |-> c]

(* The thread of a loop is free to run its functors and callbacks. *)
running(l) == IF l = Base THEN waits = 0 ELSE main[l] = "loop"

EventLoopThreadPool ==
  /\ started_ = FALSE /\ num_threads_ = 0
  /\ loops_ = <<>> /\ next_ = 0 /\ waits = 0

EventLoopThread ==
  /\ main = [t \in Threads |-> "none"]
  /\ loop_ = [t \in Threads |-> 0]
  /\ event_ = [t \in Threads |-> FALSE]

(* Bound and not yet listening. *)
Acceptor == listening_ = FALSE /\ clients = 0 /\ backlog = 0

Init ==
  /\ EventLoopThreadPool /\ EventLoopThread /\ Acceptor
  /\ next_conn_id_ = 1 /\ connections_ = {} /\ server = TRUE
  /\ state_ = [c \in Conns |-> "kConnecting"]
  /\ loopOf = [c \in Conns |-> Base]
  /\ queue = [l \in Loops |-> <<>>]
  /\ ups = [c \in Conns |-> 0] /\ downs = [c \in Conns |-> 0]
  /\ gone = [c \in Conns |-> FALSE]

-----------------------------------------------------------------------------
(* The pool's start, on the base thread.                                    *)

(* The user sets the number of threads before start(). *)
setThreadNum(n) ==
  /\ server /\ ~started_
  /\ num_threads_' = n
  /\ UNCHANGED <<started_, loops_, waits, threadVars, acceptVars, connVars,
                 connections_, server, queue>>

(* Acceptor::listen. *)
listen == listening_' = TRUE

(* new EventLoopThread, and startLoop up to its Wait. *)
startLoop(t) == waits' = t /\ main' = [main EXCEPT ![t] = "created"]

(* TcpServer::start; without threads the Acceptor listens at once. *)
start ==
  /\ server /\ ~started_
  /\ started_' = TRUE
  /\ \/ /\ num_threads_ = 0
        /\ listen
        /\ UNCHANGED <<waits, threadVars>>
     \/ /\ num_threads_ > 0
        /\ startLoop(1)
        /\ UNCHANGED <<listening_, loop_, event_>>
  /\ UNCHANGED <<num_threads_, loops_, clients, backlog, next_, next_conn_id_,
                 connVars, connections_, server, queue>>

(* The event resets itself; behind the last thread comes Acceptor::listen. *)
startLoopReturns ==
  /\ waits # 0 /\ event_[waits]
  /\ loops_' = Append(loops_, loop_[waits])
  /\ event_' = [event_ EXCEPT ![waits] = FALSE]
  /\ \/ /\ waits < num_threads_
        /\ startLoop(waits + 1)
        /\ UNCHANGED listening_
     \/ /\ waits = num_threads_
        /\ waits' = 0
        /\ listen
        /\ UNCHANGED main
  /\ UNCHANGED <<started_, num_threads_, loop_, clients, backlog, next_,
                 next_conn_id_, connVars, connections_, server, queue>>

-----------------------------------------------------------------------------
(* EventLoopThread::ThreadMain.                                             *)

(* The EventLoop is made, and callback_ called with it. *)
callback_(t) ==
  /\ main[t] = "created"
  /\ main' = [main EXCEPT ![t] = "initialised"]
  /\ UNCHANGED <<loop_, event_>>

publish(t) ==
  /\ main[t] = "initialised"
  /\ loop_' = [loop_ EXCEPT ![t] = t]
  /\ main' = [main EXCEPT ![t] = "published"]
  /\ UNCHANGED event_

(* Mutant: the signal does not wait for the loop to be published. *)
MutantSignalFirst(t) ==
  /\ main[t] \in {"initialised", "published"}
  /\ event_' = [event_ EXCEPT ![t] = TRUE]
  /\ main' = [main EXCEPT ![t] = "loop"]
  /\ UNCHANGED loop_

(* Signal, and on into loop(). *)
signal(t) ==
  /\ main[t] = "published"
  /\ event_' = [event_ EXCEPT ![t] = TRUE]
  /\ main' = [main EXCEPT ![t] = "loop"]
  /\ UNCHANGED loop_

ThreadMain(t) ==
  /\ callback_(t) \/ publish(t) \/ signal(t)
  /\ UNCHANGED <<poolVars, acceptVars, connVars, connections_, server, queue>>

-----------------------------------------------------------------------------
(* The Acceptor, on the base loop.                                          *)

(* The kernel takes a client's connection in. *)
clientComes ==
  /\ listening_ /\ clients < MaxClients
  /\ clients' = clients + 1
  /\ backlog' = backlog + 1
  /\ UNCHANGED <<poolVars, threadVars, listening_, next_, next_conn_id_, connVars,
                 connections_, server, queue>>

(* ++next_ of getNextLoop. *)
wrapped(n) == IF n + 1 >= Len(loops_) THEN 0 ELSE n + 1

(* Mutant: the loop is chosen by the number of live connections. *)
MutantByLoad ==
  IF loops_ = <<>> THEN Base
  ELSE loops_[(Cardinality(connections_) % Len(loops_)) + 1]

getNextLoop == IF loops_ = <<>> THEN Base ELSE loops_[next_ + 1]

(* Mutant: the connection is not handed to its loop. *)
MutantNotSubmitted(l, c) == UNCHANGED <<state_, ups, queue>>

(* runInLoop of connectEstablished, which the base loop does at once. *)
submitted(l, c) ==
  \/ /\ l = Base
     /\ state_' = [state_ EXCEPT ![c] = "kConnected"]
     /\ ups' = [ups EXCEPT ![c] = @ + 1]
     /\ UNCHANGED queue
  \/ /\ l # Base
     /\ queue' = [queue EXCEPT ![l] =
                    Append(@, functor("connectEstablished", c))]
     /\ UNCHANGED <<state_, ups>>

newConnection ==
  LET c == next_conn_id_
      l == getNextLoop
  IN  /\ next_' = IF loops_ = <<>> THEN next_ ELSE wrapped(next_)
      /\ next_conn_id_' = next_conn_id_ + 1
      /\ connections_' = connections_ \cup {c}
      /\ loopOf' = [loopOf EXCEPT ![c] = l]
      /\ submitted(l, c)
      /\ UNCHANGED <<downs, gone>>

(* sockets::Accept takes a client; any error but WOULDBLOCK ends the process. *)
Accept == backlog' = backlog - 1

(* One accept per event; a client that has given up makes it WOULDBLOCK. *)
handleRead ==
  /\ listening_ /\ running(Base) /\ backlog > 0
  /\ Accept
  /\ \/ newConnection
     \/ UNCHANGED <<next_, next_conn_id_, connections_, queue, connVars>>
  /\ UNCHANGED <<poolVars, threadVars, listening_, clients, server>>

-----------------------------------------------------------------------------
(* The connections, each on its own loop.                                   *)

Established(c) ==
  /\ state_' = [state_ EXCEPT ![c] = "kConnected"]
  /\ ups' = [ups EXCEPT ![c] = @ + 1]
  /\ UNCHANGED <<loopOf, downs, gone>>

(* connectDestroyed of a set of connections. *)
Destroyed(cs) ==
  /\ state_' = [c \in Conns |-> IF c \in cs /\ state_[c] = "kConnected"
                                THEN "kDisconnected" ELSE state_[c]]
  /\ downs' = [c \in Conns |-> IF c \in cs /\ state_[c] = "kConnected"
                               THEN downs[c] + 1 ELSE downs[c]]
  /\ gone' = [c \in Conns |-> gone[c] \/ c \in cs]
  /\ UNCHANGED <<loopOf, ups>>

(* connectEstablished and connectDestroyed as functors. *)
runFunctor(l) ==
  /\ running(l) /\ queue[l] # <<>>
  /\ queue' = [queue EXCEPT ![l] = Tail(@)]
  /\ LET f == Head(queue[l])
     IN  \/ f.op = "connectEstablished" /\ Established(f.conn)
         \/ f.op = "connectDestroyed" /\ Destroyed({f.conn})
  /\ UNCHANGED <<poolVars, threadVars, acceptVars, connections_, server>>

(* The user calls shutdown() on the connection's loop. *)
shutdown(c) ==
  /\ running(loopOf[c]) /\ state_[c] = "kConnected"
  /\ state_' = [state_ EXCEPT ![c] = "kDisconnecting"]
  /\ UNCHANGED <<poolVars, threadVars, acceptVars, loopOf, ups, downs, gone,
                 connections_, server, queue>>

(* TcpServer::removeConnection: on the base loop removeConnectionInLoop runs *)
(* at once, else it is queued there.                                         *)
removeConnection(c) ==
  \/ /\ loopOf[c] = Base
     /\ connections_' = connections_ \ {c}
     /\ queue' = [queue EXCEPT ![Base] =
                    Append(@, functor("connectDestroyed", c))]
  \/ /\ loopOf[c] # Base
     /\ queue' = [queue EXCEPT ![Base] =
                    Append(@, functor("removeConnectionInLoop", c))]
     /\ UNCHANGED connections_

(* Mutant: a connection that is closed is closed again. *)
MutantCloseAgain(c) ==
  /\ server /\ running(loopOf[c]) /\ ups[c] = 1 /\ downs[c] < 2 /\ ~gone[c]
  /\ state_' = [state_ EXCEPT ![c] = "kDisconnected"]
  /\ downs' = [downs EXCEPT ![c] = @ + 1]
  /\ removeConnection(c)
  /\ UNCHANGED <<poolVars, threadVars, acceptVars, loopOf, ups, gone, server>>

(* TcpConnection::handleClose, whatever led to it.  The callbacks are bound  *)
(* to the raw TcpServer; what they do when it is gone is undefined, and no   *)
(* step is given for it, here and in removeConnectionInLoop.                 *)
handleClose(c) ==
  /\ server /\ running(loopOf[c])
  /\ state_[c] \in {"kConnected", "kDisconnecting"} /\ ~gone[c]
  /\ state_' = [state_ EXCEPT ![c] = "kDisconnected"]
  /\ downs' = [downs EXCEPT ![c] = @ + 1]
  /\ removeConnection(c)
  /\ UNCHANGED <<poolVars, threadVars, acceptVars, loopOf, ups, gone, server>>

(* Mutant: the connection is taken off the map and nothing is queued. *)
MutantEraseOnly ==
  /\ server /\ running(Base) /\ queue[Base] # <<>>
  /\ Head(queue[Base]).op = "removeConnectionInLoop"
  /\ connections_' = connections_ \ {Head(queue[Base]).conn}
  /\ queue' = [queue EXCEPT ![Base] = Tail(@)]
  /\ UNCHANGED <<poolVars, threadVars, acceptVars, connVars, server>>

removeConnectionInLoop ==
  /\ server /\ running(Base) /\ queue[Base] # <<>>
  /\ LET f == Head(queue[Base])
         c == f.conn
     IN  /\ f.op = "removeConnectionInLoop"
         /\ connections_' = connections_ \ {c}
         /\ queue' = [queue EXCEPT ![Base] = Tail(@),
                                   ![loopOf[c]] =
                                     Append(@, functor("connectDestroyed", c))]
  /\ UNCHANGED <<poolVars, threadVars, acceptVars, connVars, server>>

(* ~Acceptor takes its channel off the loop. *)
acceptorGone == listening_' = FALSE

(* Mutant: the destructor destroys the connections from its own thread. *)
MutantDestroyAtOnce ==
  /\ server /\ running(Base)
  /\ server' = FALSE /\ acceptorGone /\ connections_' = {}
  /\ Destroyed(connections_)
  /\ UNCHANGED <<poolVars, threadVars, clients, backlog, next_, next_conn_id_,
                 queue>>

(* connectDestroyed queued for each of the connections.  Their order is that *)
(* of connections_, the names compared as strings, and is left open.         *)
queueDestroyed(cs) ==
  {[i \in DOMAIN s |-> functor("connectDestroyed", s[i])] : s \in SetToSeqs(cs)}

(* ~TcpServer: connectDestroyed for every connection on its own loop, and    *)
(* with the members the Acceptor goes.                                       *)
destroyServer ==
  /\ server /\ running(Base)
  /\ server' = FALSE /\ acceptorGone /\ connections_' = {}
  /\ LET on(l) == {c \in connections_ : loopOf[c] = l}
     IN  /\ Destroyed(on(Base))
         /\ \E added \in [Threads -> UNION {queueDestroyed(on(t)) : t \in Threads}] :
              /\ \A t \in Threads : added[t] \in queueDestroyed(on(t))
              /\ queue' = [l \in Loops |-> IF l = Base THEN queue[l]
                                            ELSE queue[l] \o added[l]]
  /\ UNCHANGED <<poolVars, threadVars, clients, backlog, next_, next_conn_id_>>

Next ==
  \/ (\E n \in 0..MaxThreads : setThreadNum(n))
  \/ start \/ startLoopReturns
  \/ \E t \in Threads : ThreadMain(t)
  \/ clientComes \/ handleRead
  \/ \E l \in Loops : runFunctor(l)
  \/ \E c \in Accepted : shutdown(c) \/ handleClose(c)
  \/ removeConnectionInLoop \/ destroyServer

(* Started threads run, and every loop gets on with its functors. *)
Fairness ==
  /\ WF_vars(startLoopReturns)
  /\ \A t \in Threads : WF_vars(ThreadMain(t))
  /\ \A l \in Loops : WF_vars(runFunctor(l))
  /\ WF_vars(removeConnectionInLoop)

Spec == Init /\ [][Next]_vars
FairSpec == Spec /\ Fairness

-----------------------------------------------------------------------------
(* Properties.                                                              *)

(* startLoop gives the loop of its own thread, never null, and a connection  *)
(* goes only to a loop whose thread has called callback_ and published it.   *)
LoopsReady ==
  /\ \A i \in DOMAIN loops_ : loops_[i] = i
  /\ \A c \in Accepted : loopOf[c] # Base =>
       main[loopOf[c]] \in {"published", "loop"}

(* The connections are spread evenly over the I/O loops, in whatever order   *)
(* they were accepted and closed: no loop was given two more than another,   *)
(* and none is left to the base loop (getNextLoop).                          *)
Balanced ==
  LET given(l) == Cardinality({c \in Accepted : loopOf[c] = l})
  IN  loops_ # <<>> =>
        /\ given(Base) = 0
        /\ \A k, l \in 1..Len(loops_) : given(k) - given(l) \in {-1, 0, 1}

(* The shared_ptr's: from newConnection until connectDestroyed has run, a    *)
(* connection is in connections_ or bound to a functor that waits, across    *)
(* both hops between the loops, and no functor for it waits afterwards.      *)
HeldUntilDestroyed ==
  \A c \in Accepted :
    LET bound == \E l \in Loops : \E i \in DOMAIN queue[l] :
                   queue[l][i].conn = c
    IN  /\ ~gone[c] => c \in connections_ \/ bound
        /\ (gone[c] /\ server) => ~bound /\ c \notin connections_

(* The DCHECKs of the hand-over: every functor waits on the loop it must run *)
(* on (assertInLoopThread), connectEstablished finds kConnecting,            *)
(* removeConnectionInLoop finds its connection in the map, and               *)
(* connectDestroyed comes last and once, even when ~TcpServer queues it for  *)
(* a connection that its loop has not established yet.                       *)
FunctorsInTurn ==
  \A l \in Loops : \A i \in DOMAIN queue[l] :
    LET f == queue[l][i]
        later == {j \in DOMAIN queue[l] : j > i /\ queue[l][j].conn = f.conn}
    IN  CASE f.op = "connectEstablished" ->
               l = loopOf[f.conn] /\ state_[f.conn] = "kConnecting"
          [] f.op = "removeConnectionInLoop" ->
               l = Base /\ (server => f.conn \in connections_ /\ later = {})
          [] f.op = "connectDestroyed" ->
               l = loopOf[f.conn] /\ ~gone[f.conn] /\ later = {}

(* A connection that is done with was reported up once and down once.  The   *)
(* exception is the code's: ~TcpServer finds one that was shutting down,     *)
(* which connectDestroyed leaves as it is.                                   *)
UpAndDownOnce ==
  \A c \in Accepted :
    /\ downs[c] <= ups[c] /\ ups[c] <= 1
    /\ gone[c] => /\ ups[c] = 1
                  /\ downs[c] = 1 \/ (state_[c] = "kDisconnecting" /\ ~server)

(* What was accepted is reported up, even if the server is destroyed first. *)
AcceptedComesUp == \A c \in Conns : (c \in Accepted) ~> (ups[c] = 1)

=============================================================================

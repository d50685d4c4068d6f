----------------------------- MODULE TcpClient -----------------------------
(***************************************************************************)
(* A TcpClient with its Connector: an attempt to connect, the hand-over of  *)
(* the socket to a TcpConnection, its end, and the client's destructor.     *)
(*                                                                          *)
(* Everything happens on the client's loop except connect() and stop(),     *)
(* which other threads call as well.  Every attempt makes a socket, and a   *)
(* TcpConnection goes by the number of its socket.  Functors run one after  *)
(* the other in the order of queueing (module FunctorQueue).  Of the        *)
(* connection only its states and its references are kept; module           *)
(* TcpConnection has the rest.                                              *)
(*                                                                          *)
(* ~TcpClient may run at any time, in the middle of an attempt too, and the  *)
(* user may drop any reference.  What the code cannot stand of that is said  *)
(* by GivenUpEarly and DroppedEarly, early remembers it, and failed tells    *)
(* what came of it.  When connect() may be called is left to its callers, as *)
(* MayConnect says.                                                         *)
(***************************************************************************)
EXTENDS Integers, Sequences, FiniteSets

CONSTANTS Threads,      \* threads other than the loop's
          Reconnects,   \* whether connect() may follow an attempt that ended
          MaxSockets    \* bound: attempts

ASSUME ConstantsAssumption == Reconnects \in BOOLEAN /\ MaxSockets \in Nat

VARIABLES
  client,        \* the TcpClient, and with it its Connector, exists
  connect_,      \* Connector::connect_
  state_,        \* Connector::state_
  channel_,      \* the socket of Connector::channel_, 0 when there is none
  watching,      \* channel_ waits for its socket to become writable
  connection_,   \* TcpClient::connection_, 0 when there is none
  made,          \* sockets made so far
  open,          \* of them, those not yet closed
  conn,          \* the state of each TcpConnection, "none" before
  close_cb_,     \* of each one: bound to the "client", or to the "loop"
  held,          \* connections the user holds a shared_ptr to
  queue,         \* functors waiting on the loop
  pc,            \* the threads inside connect(), behind connect_ = true
  early,         \* the client or a connection was given up too early
  failed         \* the DCHECK or the freed object that ended the process, or
                 \* "none"

connVars == <<conn, close_cb_>>
vars == <<client, connect_, state_, channel_, watching, connection_, made, open,
          connVars, held, queue, pc, early, failed>>

Sockets == 1..MaxSockets

functor(op, s) == [op |-> op, sock |-> s]
Waits(op) == \E i \in DOMAIN queue : queue[i].op = op

(* The constructor leaves connect_ uninitialised. *)
Connector ==
  /\ connect_ \in BOOLEAN
  /\ state_ = "kDisconnected" /\ channel_ = 0 /\ watching = FALSE

Init ==
  /\ client = TRUE /\ Connector
  /\ connection_ = 0 /\ made = 0 /\ open = {}
  /\ conn = [s \in Sockets |-> "none"]
  /\ close_cb_ = [s \in Sockets |-> "none"]
  /\ held = {} /\ queue = <<>> /\ pc = {}
  /\ early = FALSE /\ failed = "none"

-----------------------------------------------------------------------------
(* The Connector.                                                           *)

(* Nothing of the Connector is on its way: no thread in connect(), no        *)
(* functor bound to it, no channel.                                          *)
Idle ==
  /\ pc = {} /\ channel_ = 0
  /\ ~Waits("startInLoop") /\ ~Waits("resetChannel")

(* When connect() may be called: in the beginning and after attempts that    *)
(* ended in connect() itself; Reconnects adds the ones that came further.    *)
MayConnect ==
  /\ client /\ failed = "none" /\ made < MaxSockets /\ Idle
  /\ state_ = "kDisconnected" \/ (Reconnects /\ connection_ = 0)

(* A socket's life: CreateNonblockingOrDie and Close. *)
Created == made' = made + 1
Close(s) == open' = open \ {s}

(* A functor or a thread comes to a Connector that is gone. *)
useAfterFree ==
  /\ failed' = "freed Connector"
  /\ UNCHANGED <<state_, channel_, watching, made, open>>

(* Connector::connecting: the channel waits for the socket. *)
connecting(s) ==
  /\ state_' = "kConnecting"
  /\ channel_' = s /\ watching' = TRUE
  /\ failed' = IF channel_ = 0 THEN failed ELSE "connecting"

(* Connector::connect: the socket is made, and kept when connect() on it     *)
(* succeeds or is under way, else closed at once.                            *)
attempt ==
  /\ Created
  /\ \/ /\ open' = open \cup {made + 1}
        /\ connecting(made + 1)
     \/ UNCHANGED <<state_, channel_, watching, open, failed>>

startInLoop(wanted) ==
  IF state_ = "kDisconnected" /\ wanted
  THEN attempt
  ELSE /\ failed' = IF state_ = "kDisconnected" THEN failed ELSE "startInLoop"
       /\ UNCHANGED <<state_, channel_, watching, made, open>>

(* TcpClient::connect on the loop ... *)
connect ==
  /\ MayConnect
  /\ connect_' = TRUE
  /\ startInLoop(TRUE)
  /\ UNCHANGED <<client, connection_, connVars, held, queue, pc, early>>

(* ... and on another thread, where connect_ is set first ... *)
connectFrom(t) ==
  /\ MayConnect
  /\ connect_' = TRUE
  /\ pc' = pc \cup {t}
  /\ UNCHANGED <<client, state_, channel_, watching, connection_, made, open,
                 connVars, held, queue, early, failed>>

(* ... and startInLoop queued then. *)
queueStart(t) ==
  /\ failed = "none" /\ t \in pc
  /\ pc' = pc \ {t}
  /\ \/ /\ client
        /\ queue' = Append(queue, functor("startInLoop", 0))
        /\ UNCHANGED <<state_, channel_, watching, made, open, failed>>
     \/ ~client /\ useAfterFree /\ UNCHANGED queue
  /\ UNCHANGED <<client, connect_, connection_, connVars, held, early>>

(* Connector::stop. *)
Stopped == connect_' = FALSE

(* TcpClient::stop, on any thread. *)
stop ==
  /\ client /\ failed = "none" /\ connect_
  /\ Stopped
  /\ UNCHANGED <<client, state_, channel_, watching, connection_, made, open,
                 connVars, held, queue, pc, early, failed>>

-----------------------------------------------------------------------------
(* TcpClient's side of a connection.                                        *)

(* newConnection, with connectEstablished at its end. *)
newConnection(s) ==
  /\ connection_' = s
  /\ conn' = [conn EXCEPT ![s] = "kConnected"]
  /\ close_cb_' = [close_cb_ EXCEPT ![s] = "client"]

(* Mutant: a socket that came too late is left open. *)
MutantKeepUnwanted(s, err) ==
  \/ /\ err
     /\ Close(s)
     /\ UNCHANGED <<state_, connection_, connVars>>
  \/ /\ ~err /\ state_' = "kConnected"
     /\ \/ connect_ /\ newConnection(s)
        \/ ~connect_ /\ UNCHANGED <<connection_, connVars>>
     /\ UNCHANGED open

(* What handleWrite does once the channel is off the loop: it closes the     *)
(* socket on an error, with state_ left as it is, or when stop() was called. *)
settle(s, err) ==
  \/ /\ err
     /\ Close(s)
     /\ UNCHANGED <<state_, connection_, connVars>>
  \/ /\ ~err /\ state_' = "kConnected"
     /\ \/ /\ connect_
           /\ newConnection(s)
           /\ UNCHANGED open
        \/ /\ ~connect_
           /\ Close(s)
           /\ UNCHANGED <<connection_, connVars>>

removeAndResetChannel ==
  /\ watching' = FALSE
  /\ queue' = Append(queue, functor("resetChannel", channel_))
  /\ UNCHANGED channel_

(* What SO_ERROR may say. *)
GetSocketError == BOOLEAN

(* Connector::handleWrite, called by the channel; it is in kConnecting. *)
handleWrite ==
  /\ failed = "none" /\ client /\ watching /\ state_ = "kConnecting"
  /\ removeAndResetChannel
  /\ \E err \in GetSocketError : settle(channel_, err)
  /\ UNCHANGED <<client, connect_, made, held, pc, early, failed>>

(* disconnect, on the loop: shutdown() of a connection that is up. *)
disconnect ==
  /\ failed = "none" /\ client /\ connection_ # 0
  /\ conn[connection_] = "kConnected"
  /\ conn' = [conn EXCEPT ![connection_] = "kDisconnecting"]
  /\ UNCHANGED <<client, connect_, state_, channel_, watching, connection_, made,
                 open, close_cb_, held, queue, pc, early, failed>>

(* Both close callbacks queue connectDestroyed. *)
queueDestroyed(s) == queue' = Append(queue, functor("connectDestroyed", s))

(* Mutant: connection_ is not reset. *)
MutantForgetReset(s) == queueDestroyed(s) /\ UNCHANGED <<connection_, failed>>

(* TcpClient::removeConnection ... *)
removeConnection(s) ==
  /\ connection_' = 0
  /\ failed' = IF client /\ connection_ = s THEN failed ELSE "removeConnection"
  /\ queueDestroyed(s)

(* ... and what takes its place after ~TcpClient. *)
removeConnectionInLoop(s) ==
  queueDestroyed(s) /\ UNCHANGED <<connection_, failed>>

(* TcpConnection::handleClose, whatever led to it. *)
handleClose(s) ==
  /\ failed = "none" /\ conn[s] \in {"kConnected", "kDisconnecting"}
  /\ conn' = [conn EXCEPT ![s] = "kDisconnected"]
  /\ \/ close_cb_[s] = "client" /\ removeConnection(s)
     \/ close_cb_[s] = "loop" /\ removeConnectionInLoop(s)
  /\ UNCHANGED <<client, connect_, state_, channel_, watching, made, open,
                 close_cb_, held, pc, early>>

-----------------------------------------------------------------------------
(* The loop's functors.                                                     *)

runs(op) ==
  /\ failed = "none" /\ queue # <<>> /\ Head(queue).op = op
  /\ queue' = Tail(queue)

runStartInLoop ==
  /\ runs("startInLoop")
  /\ \/ client /\ startInLoop(connect_)
     \/ ~client /\ useAfterFree
  /\ UNCHANGED <<client, connect_, connection_, connVars, held, pc, early>>

(* ~Channel asserts that its watcher is not active. *)
resetChannel ==
  /\ runs("resetChannel")
  /\ \/ /\ client
        /\ channel_' = 0
        /\ failed' = IF watching THEN "~Channel" ELSE failed
        /\ UNCHANGED <<state_, watching, made, open>>
     \/ ~client /\ useAfterFree
  /\ UNCHANGED <<client, connect_, connection_, connVars, held, pc, early>>

(* A reference to a connection is gone: unless it is one of those that are   *)
(* referred to elsewhere, ~TcpConnection closes its socket and asserts that  *)
(* it is disconnected.                                                       *)
released(s, elsewhere) ==
  IF s \notin elsewhere
  THEN /\ Close(s)
       /\ failed' = IF conn[s] = "kDisconnected" THEN failed
                    ELSE "~TcpConnection"
  ELSE UNCHANGED <<open, failed>>

connectDestroyed ==
  /\ runs("connectDestroyed")
  /\ released(Head(queue).sock, held \cup {connection_})
  /\ UNCHANGED <<client, connect_, state_, channel_, watching, connection_, made,
                 connVars, held, pc, early>>

-----------------------------------------------------------------------------
(* The user.                                                                *)

(* connection() gives a reference ... *)
hold ==
  /\ failed = "none" /\ client /\ connection_ # 0 /\ connection_ \notin held
  /\ held' = held \cup {connection_}
  /\ UNCHANGED <<client, connect_, state_, channel_, watching, connection_, made,
                 open, connVars, queue, pc, early, failed>>

(* ... which the user gives up too early when the connection is open and the *)
(* client no longer has it.                                                  *)
DroppedEarly(s) == connection_ # s /\ conn[s] # "kDisconnected"

(* A connectDestroyed that is still queued refers to its connection, too. *)
InQueue == {queue[i].sock : i \in {j \in DOMAIN queue :
                                    queue[j].op = "connectDestroyed"}}

drop(s) ==
  /\ failed = "none" /\ s \in held
  /\ held' = held \ {s}
  /\ released(s, InQueue \cup {connection_})
  /\ early' = (early \/ DroppedEarly(s))
  /\ UNCHANGED <<client, connect_, state_, channel_, watching, connection_, made,
                 connVars, queue, pc>>

(* Mutant: the connection keeps its callback. *)
MutantKeepCallback ==
  /\ connection_' = 0
  /\ UNCHANGED <<close_cb_, connect_>>

(* ~TcpClient: the connection gets a callback that does without the client,  *)
(* or the Connector is stopped; then the members go.                         *)
letGo ==
  /\ connection_' = 0
  /\ \/ /\ connection_ # 0
        /\ close_cb_' = [close_cb_ EXCEPT ![connection_] = "loop"]
        /\ UNCHANGED connect_
     \/ /\ connection_ = 0
        /\ Stopped
        /\ UNCHANGED close_cb_

(* ~Connector does not close the attempt's socket, and ~Channel asserts that  *)
(* nothing waits for it.                                                     *)
membersGo ==
  \/ connection_ # 0 /\ released(connection_, held)
  \/ /\ connection_ = 0
     /\ failed' = IF watching THEN "~Channel" ELSE failed
     /\ UNCHANGED open

(* The client goes too early while something of the Connector is on its way,  *)
(* or with the last reference to an open connection.                         *)
GivenUpEarly == ~Idle \/ connection_ \notin held \cup {0}

destroyClient ==
  /\ failed = "none" /\ client
  /\ client' = FALSE
  /\ letGo
  /\ membersGo
  /\ early' = (early \/ GivenUpEarly)
  /\ UNCHANGED <<state_, channel_, watching, made, conn, held, queue, pc>>

Next ==
  \/ connect \/ stop \/ disconnect \/ destroyClient
  \/ \E t \in Threads : connectFrom(t) \/ queueStart(t)
  \/ handleWrite
  \/ runStartInLoop \/ resetChannel \/ connectDestroyed
  \/ hold
  \/ \E s \in Sockets : handleClose(s) \/ drop(s)

(* Threads get out of connect(), the loop runs its functors, and the kernel  *)
(* lets every attempt succeed or fail.                                       *)
Fairness ==
  /\ \A t \in Threads : WF_vars(queueStart(t))
  /\ WF_vars(runStartInLoop) /\ WF_vars(resetChannel)
  /\ WF_vars(connectDestroyed) /\ WF_vars(handleWrite)

Spec == Init /\ [][Next]_vars
FairSpec == Spec /\ Fairness

-----------------------------------------------------------------------------
(* Properties.                                                              *)

(* The DCHECKs of the Connector and of removeConnection hold whatever the     *)
(* callers of ~TcpClient and the owners of references do; those of the       *)
(* destructors of Channel and TcpConnection fail, and functors and threads    *)
(* come to a Connector that is gone, only when the client went in the middle  *)
(* of an attempt or an open connection lost its last reference.              *)
DchecksHold ==
  /\ failed \notin {"startInLoop", "connecting", "removeConnection"}
  /\ failed # "none" => early

(* As long as the process goes on, every open socket is with exactly one of   *)
(* the Connector's channel and a TcpConnection that somebody refers to: none  *)
(* leaks when an attempt fails or is stopped, or when a connection outlives   *)
(* the client.  The one that does leak, that of an attempt in whose middle    *)
(* the client goes, is left behind where ~Channel's DCHECK fails.            *)
SocketsOwned == failed = "none" =>
  \A s \in Sockets :
    LET trying == channel_ = s /\ watching
        connected == conn[s] # "none" /\
          \/ connection_ = s \/ s \in held
          \/ \E i \in DOMAIN queue : queue[i] = functor("connectDestroyed", s)
    IN  /\ s \in open <=> (trying \/ connected)
        /\ ~(trying /\ connected)

(* Every socket that was made comes to a TcpConnection or is closed, unless  *)
(* the process ends: ~TcpClient in the middle of the attempt ends it.        *)
AttemptsEnd ==
  \A s \in Sockets :
    (s \in open /\ conn[s] = "none")
      ~> (s \notin open \/ conn[s] # "none" \/ failed # "none")

(* The socket of a closed connection is closed, unless the user holds on or  *)
(* the process ends.                                                         *)
ClosedIsReleased ==
  \A s \in Sockets :
    (conn[s] = "kDisconnected" /\ s \notin held)
      ~> (s \notin open \/ failed # "none")

(* Connector::startInLoop: DCHECK(state_ == kDisconnected). *)
StartsDisconnected == failed # "startInLoop"
=============================================================================

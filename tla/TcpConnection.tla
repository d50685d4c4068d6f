---------------------------- MODULE TcpConnection ----------------------------
(***************************************************************************)
(* One nev::TcpConnection with its Channel, on its own EventLoop, and what  *)
(* a TcpServer does with it: the state machine, the data path from send()   *)
(* to the socket, shutdown, forced close and the object's lifetime.         *)
(*                                                                          *)
(* The connection's loop thread is at                                       *)
(*   accept    in TcpServer::newConnection (the server has the same loop)   *)
(*   poll      in backend_poll()                                            *)
(*   dispatch  in ev_invoke_pending(): between two callbacks, or in one     *)
(*             that is not this connection's                                *)
(*   handle    in Channel::handleEventWithGuard(), revents_ still to do     *)
(*   message   in message_cb_                                               *)
(*   batch     in doPendingFunctors(), between two functors                 *)
(*   functor   in doPendingFunctors(), in a callback of the user's          *)
(* The functor queue is that of module EventLoop.                           *)
(***************************************************************************)
EXTENDS Integers, Sequences

CONSTANTS Threads,          \* threads other than the connection's loop
          ThreadOps,        \* the operations those threads call
          ServerMayDie,     \* whether the TcpServer may be destroyed
          HighWaterMark,    \* high_water_mark_
          MaxBytes,         \* bound: bytes ever passed to send()
          MaxMessage,       \* bound: bytes of one send()
          MaxCloses,        \* bound: closes after which threads force none
          MaxQueue          \* bound: functors waiting when one is added from
                            \* outside: by user code, a timer or a thread

ASSUME ConstantsAssumption ==
  /\ ThreadOps \subseteq {"send", "forceClose"}
  /\ ServerMayDie \in BOOLEAN
  /\ HighWaterMark \in Nat \ {0}
  /\ MaxBytes \in Nat /\ MaxMessage \in Nat /\ MaxCloses \in Nat
  /\ MaxQueue \in Nat

VARIABLES state_,
          events_,            \* of channel_: subset of {"read", "write"}
          watched,            \* what libev's io watcher is started for
          fed,                \* what libev has pending for it
          revents_,           \* what the running handleEvent has still to do
          output_buffer_,     \* bytes, each one a number
          at, pending_functors_, functors,
          ran,                \* how many of `functors' have been run
          delayed,            \* a timer of forceCloseWithDelay is running
          sameLoop,           \* the TcpServer runs on the connection's loop
          server,             \* the TcpServer exists
          listed,             \* the connection is in connections_
          removals,           \* removeConnectionInLoop functors not yet run
          pc,                 \* what a thread is about to queue
          holds,              \* threads holding a shared_ptr
          wire,               \* bytes the socket took
          fin,                \* how many of them before shutdownWrite, or -1
          \* history
          passed,             \* bytes passed to send() so far
          accepted,           \* bytes sendInLoop did not refuse, in order
          ups, downs,         \* connection_cb_ calls, by connected()
          missed,             \* some connections_.erase() erased nothing
          told                \* the last of write_complete_cb_ and
                              \* high_water_mark_cb_ that was called

chanVars  == <<events_, watched, fed>>
dataVars  == <<output_buffer_, wire, accepted>>
queueVars == <<pending_functors_, functors, ran>>
ownVars   == <<sameLoop, server, listed, removals, missed>>
userVars  == <<delayed, pc, holds, passed>>
cbVars    == <<ups, downs, told>>
vars == <<state_, chanVars, dataVars, at, revents_, queueVars, ownVars,
          userVars, cbVars, fin>>

functor(op) == [op |-> op, data |-> <<>>]
Out == functor("none")

push_back(fs) == pending_functors_' = pending_functors_ \o fs

(* Functors bound to the raw `this' do not keep the connection alive. *)
Raw == {"send"}
Bound(fs) == \E i \in 1..Len(fs) : fs[i].op \notin Raw

(* What the user is told about output_buffer_. *)
Tidings == {"writeComplete", "highWaterMark"}

(* Some shared_ptr to the connection is left.  A batch's functors are       *)
(* destroyed together, at its end.                                          *)
Alive ==
  \/ listed \/ removals > 0 \/ holds # {}
  \/ Bound(pending_functors_) \/ Bound(functors)
  \/ at \in {"accept", "handle", "message"}

isOpen == state_ \in {"kConnected", "kDisconnecting"}
isWriting == "write" \in events_

(* The constructors of Channel ... *)
Channel == events_ = {} /\ watched = {} /\ fed = {} /\ revents_ = {}

(* ... and TcpConnection. *)
TcpConnection ==
  /\ state_ = "kConnecting" /\ Channel
  /\ output_buffer_ = <<>> /\ wire = <<>> /\ accepted = <<>> /\ fin = -1

(* TcpServer::newConnection made the connection and listed it; the next     *)
(* thing is connectEstablished, at once or through the connection's loop.   *)
Init ==
  /\ TcpConnection
  /\ sameLoop \in BOOLEAN
  /\ \/ sameLoop /\ at = "accept" /\ pending_functors_ = <<>>
     \/ ~sameLoop /\ at \in {"poll", "dispatch"}
          /\ pending_functors_ = <<functor("connectEstablished")>>
  /\ functors = <<>> /\ ran = 0 /\ delayed = FALSE
  /\ server = TRUE /\ listed = TRUE /\ removals = 0
  /\ pc = [t \in Threads |-> Out] /\ holds = {}
  /\ passed = 0 /\ ups = 0 /\ downs = 0
  /\ missed = FALSE /\ told = "writeComplete"

-----------------------------------------------------------------------------
(* Channel and EventLoop::updateChannel, removeChannel.                     *)

(* ev_io_stop also takes the watcher off libev's pending list. *)
update(events) ==
  /\ events_' = events /\ watched' = events
  /\ fed' = {}

enableReading == update(events_ \cup {"read"})
enableWriting == update(events_ \cup {"write"})
disableWriting == update(events_ \ {"write"})
disableAll == update({})

remove ==
  /\ watched' = {} /\ fed' = {}
  /\ UNCHANGED events_

-----------------------------------------------------------------------------
(* TcpConnection's private operations, all on the loop thread.              *)

connectEstablished ==
  /\ state_' = "kConnected"
  /\ enableReading
  /\ ups' = ups + 1
  /\ UNCHANGED <<downs, told>>

(* Mutant: the connection a dying server closes stays watched. *)
MutantStaysWatched ==
  /\ state_' = IF state_ = "kConnected" THEN "kDisconnected" ELSE state_
  /\ downs' = IF state_ = "kConnected" THEN downs + 1 ELSE downs
  /\ UNCHANGED <<chanVars, ups, told>>

(* Only a server that is destroyed finds it still kConnected here. *)
connectDestroyed ==
  \/ /\ state_ = "kConnected"
     /\ state_' = "kDisconnected"
     /\ disableAll
     /\ downs' = downs + 1
     /\ UNCHANGED <<ups, told>>
  \/ /\ state_ # "kConnected"
     /\ remove
     /\ UNCHANGED <<state_, cbVars>>

(* Mutant: the connection stays in connections_. *)
MutantNoErase ==
  /\ push_back(<<functor("connectDestroyed")>>)
  /\ UNCHANGED <<listed, removals, missed>>

(* connections_.erase() and the DCHECK of what it returned. *)
erase ==
  /\ listed' = FALSE
  /\ missed' = (missed \/ ~listed)

(* close_cb_, which is TcpServer::removeConnection: on the server's own     *)
(* loop removeConnectionInLoop runs at once, else it is queued there.       *)
removeConnection ==
  \/ /\ sameLoop
     /\ erase
     /\ push_back(<<functor("connectDestroyed")>>)
     /\ UNCHANGED removals
  \/ /\ ~sameLoop
     /\ removals' = removals + 1
     /\ UNCHANGED <<listed, missed, pending_functors_>>

(* Mutant: the channel is left watching. *)
MutantKeepWatching ==
  /\ server
  /\ state_' = "kDisconnected"
  /\ downs' = downs + 1
  /\ removeConnection
  /\ UNCHANGED <<chanVars, ups, told, sameLoop, server>>

(* close_cb_ is bound to the raw TcpServer: what happens when that is gone  *)
(* is undefined, so no step is given for it.                                *)
handleClose ==
  /\ server
  /\ state_' = "kDisconnected"
  /\ disableAll
  /\ downs' = downs + 1
  /\ removeConnection
  /\ UNCHANGED <<ups, told, sameLoop, server>>

(* Mutant: the write side is closed without looking at the buffer. *)
MutantShutdownNow == fin' = IF fin = -1 THEN Len(wire) ELSE fin

shutdownInLoop ==
  fin' = IF isWriting \/ fin # -1 THEN fin ELSE Len(wire)

(* sockets::Write: an error, or some of the bytes; after shutdownWrite only *)
(* errors.                                                                  *)
Write(data) == {-1} \cup (IF fin = -1 THEN 0..Len(data) ELSE {})

(* high_water_mark_cb_ is queued when the buffer grows over the mark. *)
crossing(old_len, remaining) ==
  IF old_len + remaining >= HighWaterMark /\ old_len < HighWaterMark
  THEN <<functor("highWaterMark")>> ELSE <<>>

(* write_complete_cb_ is queued when the socket took the whole message. *)
completed(result, data) ==
  IF result = Len(data) THEN <<functor("writeComplete")>> ELSE <<>>

(* Mutant: the socket is always tried first. *)
MutantOvertake == TRUE

(* Bytes may go to the socket directly only if none are waiting. *)
writesDirectly == ~isWriting /\ output_buffer_ = <<>>

sendInLoop(data) ==
  \/ /\ state_ = "kDisconnected"
     /\ UNCHANGED <<chanVars, dataVars, pending_functors_>>
  \/ /\ state_ # "kDisconnected"
     /\ accepted' = accepted \o data
     /\ \E result \in (IF writesDirectly THEN Write(data) ELSE {-1}) :
          LET nwrote == IF result = -1 THEN 0 ELSE result
              rest   == SubSeq(data, nwrote + 1, Len(data))
          IN  /\ wire' = wire \o SubSeq(data, 1, nwrote)
              /\ output_buffer_' = output_buffer_ \o rest
              /\ push_back(completed(result, data) \o
                   (IF rest = <<>> THEN <<>>
                    ELSE crossing(Len(output_buffer_), Len(rest))))
              /\ IF rest = <<>> \/ isWriting
                 THEN UNCHANGED chanVars
                 ELSE enableWriting

(* Mutant: the state is not looked at. *)
MutantCloseAgain == handleClose

forceCloseInLoop ==
  \/ isOpen /\ handleClose
  \/ ~isOpen /\ UNCHANGED <<state_, chanVars, pending_functors_, ownVars,
                            cbVars>>

-----------------------------------------------------------------------------
(* User code on the loop thread: another callback, message_cb_, or a        *)
(* callback made by a functor.  After the close every one of these returns  *)
(* early, so connection_cb_'s last call is not a place of its own.          *)
InUserCode == at \in {"dispatch", "message", "functor"} /\ Alive

HasRoom == Len(pending_functors_) < MaxQueue

(* The next bytes a caller sends, numbered in the order of the calls. *)
Messages == {[i \in 1..n |-> passed + i] : n \in 0..MaxMessage}

send(data) ==
  /\ InUserCode /\ HasRoom /\ state_ = "kConnected"
  /\ passed + Len(data) <= MaxBytes
  /\ passed' = passed + Len(data)
  /\ sendInLoop(data)
  /\ UNCHANGED <<state_, at, revents_, functors, ran, ownVars, delayed, pc,
                 holds, cbVars, fin>>

shutdown ==
  /\ InUserCode /\ state_ = "kConnected"
  /\ state_' = "kDisconnecting"
  /\ shutdownInLoop
  /\ UNCHANGED <<chanVars, dataVars, at, revents_, queueVars, ownVars,
                 userVars, cbVars>>

queueForceClose ==
  /\ state_' = "kDisconnecting"
  /\ push_back(<<functor("forceCloseInLoop")>>)
  /\ UNCHANGED <<chanVars, dataVars, at, revents_, functors, ran, ownVars,
                 passed, holds, cbVars, fin>>

forceClose ==
  /\ InUserCode /\ HasRoom /\ isOpen
  /\ queueForceClose
  /\ UNCHANGED <<delayed, pc>>

forceCloseWithDelay ==
  /\ InUserCode /\ isOpen /\ ~delayed
  /\ state_' = "kDisconnecting"
  /\ delayed' = TRUE
  /\ UNCHANGED <<chanVars, dataVars, at, revents_, queueVars, ownVars, pc,
                 holds, passed, cbVars, fin>>

(* The timer's callback: weak_ptr::lock, then forceClose. *)
handleForceCloseWithDelay ==
  /\ at = "dispatch" /\ delayed /\ HasRoom
  /\ delayed' = FALSE
  /\ \/ Alive /\ isOpen /\ queueForceClose /\ UNCHANGED pc
     \/ /\ ~(Alive /\ isOpen)
        /\ UNCHANGED <<state_, chanVars, dataVars, at, revents_, queueVars,
                       ownVars, pc, holds, passed, cbVars, fin>>

-----------------------------------------------------------------------------
(* Other threads.  A thread gets the shared_ptr while the connection is up  *)
(* and drops it when it likes.                                              *)
acquire(t) ==
  /\ t \notin holds /\ state_ = "kConnected" /\ Alive
  /\ holds' = holds \cup {t}
  /\ UNCHANGED <<state_, chanVars, dataVars, at, revents_, queueVars, ownVars,
                 delayed, pc, passed, cbVars, fin>>

release(t) ==
  /\ t \in holds /\ pc[t] = Out
  /\ holds' = holds \ {t}
  /\ UNCHANGED <<state_, chanVars, dataVars, at, revents_, queueVars, ownVars,
                 delayed, pc, passed, cbVars, fin>>

(* send: state_ is read first ... *)
sendFrom(t, data) ==
  /\ "send" \in ThreadOps /\ t \in holds /\ pc[t] = Out
  /\ state_ = "kConnected"
  /\ passed + Len(data) <= MaxBytes /\ passed' = passed + Len(data)
  /\ pc' = [pc EXCEPT ![t] = [op |-> "send", data |-> data]]
  /\ UNCHANGED <<state_, chanVars, dataVars, at, revents_, queueVars, ownVars,
                 delayed, holds, cbVars, fin>>

(* ... then sendInLoop is queued, bound to `this'. *)
queueSend(t) ==
  /\ pc[t].op = "send" /\ HasRoom
  /\ push_back(<<pc[t]>>)
  /\ pc' = [pc EXCEPT ![t] = Out]
  /\ UNCHANGED <<state_, chanVars, dataVars, at, revents_, functors, ran,
                 ownVars, delayed, holds, passed, cbVars, fin>>

(* forceClose: state_ is read first ... *)
forceCloseFrom(t) ==
  /\ "forceClose" \in ThreadOps /\ t \in holds /\ pc[t] = Out
  /\ isOpen /\ downs < MaxCloses
  /\ pc' = [pc EXCEPT ![t] = functor("forceClose")]
  /\ UNCHANGED <<state_, chanVars, dataVars, at, revents_, queueVars, ownVars,
                 delayed, holds, passed, cbVars, fin>>

(* ... then written, and forceCloseInLoop queued with a shared_ptr. *)
setDisconnecting(t) ==
  /\ pc[t].op = "forceClose" /\ HasRoom
  /\ pc' = [pc EXCEPT ![t] = Out]
  /\ queueForceClose
  /\ UNCHANGED delayed

(* The server's thread: removeConnectionInLoop as a functor of its loop ... *)
removeConnectionInLoop ==
  /\ removals > 0 /\ server
  /\ removals' = removals - 1
  /\ erase
  /\ push_back(<<functor("connectDestroyed")>>)
  /\ UNCHANGED <<state_, chanVars, dataVars, at, revents_, functors, ran,
                 sameLoop, server, userVars, cbVars, fin>>

(* ... and ~TcpServer: connectDestroyed for what is still listed. *)
destroyServer ==
  /\ ServerMayDie /\ server /\ server' = FALSE
  /\ sameLoop => at \in {"dispatch", "functor"}
  /\ \/ /\ ~listed /\ UNCHANGED <<state_, chanVars, cbVars, pending_functors_>>
     \/ /\ listed /\ sameLoop
        /\ connectDestroyed
        /\ UNCHANGED pending_functors_
     \/ /\ listed /\ ~sameLoop
        /\ push_back(<<functor("connectDestroyed")>>)
        /\ UNCHANGED <<state_, chanVars, cbVars>>
  /\ listed' = FALSE
  /\ UNCHANGED <<dataVars, at, revents_, functors, ran, sameLoop, removals,
                 missed, userVars, fin>>

-----------------------------------------------------------------------------
(* The loop thread.                                                         *)

(* newConnection on the connection's own loop: runInLoop calls at once. *)
establishAtOnce ==
  /\ at = "accept" /\ at' = "dispatch"
  /\ connectEstablished
  /\ UNCHANGED <<dataVars, revents_, queueVars, ownVars, userVars, fin>>

pollReturns(events) ==
  /\ at = "poll" /\ at' = "dispatch"
  /\ events \subseteq watched /\ fed' = events
  /\ UNCHANGED <<state_, events_, watched, dataVars, revents_, queueVars,
                 ownVars, userVars, cbVars, fin>>

(* libev calls for what is pending. *)
ioWatcherCb == fed # {} /\ revents_' = fed /\ fed' = {}

(* The tie is locked for the whole of handleEvent. *)
handleEvent ==
  /\ at = "dispatch" /\ ioWatcherCb /\ Alive
  /\ at' = "handle"
  /\ UNCHANGED <<state_, events_, watched, dataVars, queueVars, ownVars,
                 userVars, cbVars, fin>>

readsNow == at = "handle" /\ "read" \in revents_

(* handleRead, n > 0: message_cb_ is called ... *)
handleReadMessage ==
  /\ readsNow
  /\ revents_' = revents_ \ {"read"} /\ at' = "message"
  /\ UNCHANGED <<state_, chanVars, dataVars, queueVars, ownVars, userVars,
                 cbVars, fin>>

messageReturns ==
  /\ at = "message" /\ at' = "handle"
  /\ UNCHANGED <<state_, chanVars, dataVars, revents_, queueVars, ownVars,
                 userVars, cbVars, fin>>

(* ... n = 0, or WSAECONNRESET ... *)
handleReadClose ==
  /\ readsNow
  /\ revents_' = revents_ \ {"read"}
  /\ handleClose
  /\ UNCHANGED <<dataVars, at, functors, ran, userVars, fin>>

(* ... any other error is logged only. *)
handleReadError ==
  /\ readsNow
  /\ revents_' = revents_ \ {"read"}
  /\ UNCHANGED <<state_, chanVars, dataVars, at, queueVars, ownVars,
                 userVars, cbVars, fin>>

(* The write event comes after the read event of the same handleEvent. *)
writesNow == at = "handle" /\ revents_ = {"write"}

(* Mutant: writing goes on with nothing to write. *)
MutantKeepWriting == UNCHANGED chanVars

(* The buffer is empty: no more write events ... *)
stopWriting == disableWriting

(* Mutant: only a message the socket took at once is reported written. *)
MutantUntold == UNCHANGED pending_functors_

(* ... write_complete_cb_ is queued ... *)
drained == push_back(<<functor("writeComplete")>>)

(* Mutant: a shutdown that had to wait is forgotten. *)
MutantForgetShutdown == UNCHANGED fin

(* ... and the shutdown that waited for it. *)
shutdownAfterWrite ==
  fin' = IF state_ = "kDisconnecting" /\ fin = -1 THEN Len(wire') ELSE fin

(* The socket takes n > 0 bytes. *)
handleWrite(n) ==
  /\ writesNow /\ isWriting /\ n \in Write(output_buffer_) /\ n > 0
  /\ revents_' = {}
  /\ wire' = wire \o SubSeq(output_buffer_, 1, n)
  /\ output_buffer_' = SubSeq(output_buffer_, n + 1, Len(output_buffer_))
  /\ \/ /\ n < Len(output_buffer_)
        /\ UNCHANGED <<chanVars, pending_functors_, fin>>
     \/ /\ n = Len(output_buffer_)
        /\ stopWriting
        /\ drained
        /\ shutdownAfterWrite
  /\ UNCHANGED <<state_, accepted, at, functors, ran, ownVars, userVars,
                 cbVars>>

(* An error, or nothing to write any more: logged only. *)
handleWriteNothing ==
  /\ writesNow
  /\ revents_' = {}
  /\ UNCHANGED <<state_, chanVars, dataVars, at, queueVars, ownVars, userVars,
                 cbVars, fin>>

handleEventReturns ==
  /\ at = "handle" /\ revents_ = {}
  /\ at' = "dispatch"
  /\ UNCHANGED <<state_, chanVars, dataVars, revents_, queueVars, ownVars,
                 userVars, cbVars, fin>>

doPendingFunctors ==
  /\ at = "dispatch" /\ fed = {} /\ at' = "batch"
  /\ functors' = pending_functors_ /\ pending_functors_' = <<>>
  /\ UNCHANGED <<state_, chanVars, dataVars, revents_, ran, ownVars, userVars,
                 cbVars, fin>>

next == functors[ran + 1]

(* What the next functor of the batch is, and whether it calls the user. *)
runs(op, place) ==
  /\ at = "batch" /\ ran < Len(functors) /\ next.op = op
  /\ ran' = ran + 1 /\ at' = place
  /\ UNCHANGED <<revents_, functors, userVars>>

runEstablished ==
  /\ runs("connectEstablished", "functor") /\ connectEstablished
  /\ UNCHANGED <<dataVars, pending_functors_, ownVars, fin>>

runDestroyed ==
  /\ runs("connectDestroyed", "batch") /\ connectDestroyed
  /\ UNCHANGED <<dataVars, pending_functors_, ownVars, fin>>

runSend ==
  /\ runs("send", "batch") /\ Alive /\ sendInLoop(next.data)
  /\ UNCHANGED <<state_, ownVars, cbVars, fin>>

runForceClose ==
  /\ runs("forceCloseInLoop", "batch") /\ forceCloseInLoop
  /\ UNCHANGED <<dataVars, fin>>

runUserCallback ==
  /\ \E op \in Tidings : runs(op, "functor") /\ told' = op
  /\ UNCHANGED <<state_, chanVars, dataVars, pending_functors_, ownVars, ups,
                 downs, fin>>

functorReturns ==
  /\ at = "functor" /\ at' = "batch"
  /\ UNCHANGED <<state_, chanVars, dataVars, revents_, queueVars, ownVars,
                 userVars, cbVars, fin>>

(* The batch is destroyed with everything its functors held. *)
batchEnds ==
  /\ at = "batch" /\ ran = Len(functors)
  /\ at' = "poll" /\ functors' = <<>> /\ ran' = 0
  /\ UNCHANGED <<state_, chanVars, dataVars, revents_, pending_functors_,
                 ownVars, userVars, cbVars, fin>>

-----------------------------------------------------------------------------
UserNext ==
  \/ \E data \in Messages : send(data)
  \/ shutdown \/ forceClose \/ forceCloseWithDelay

ThreadNext ==
  \E t \in Threads :
    \/ acquire(t) \/ release(t) \/ queueSend(t)
    \/ forceCloseFrom(t) \/ setDisconnecting(t)
    \/ \E data \in Messages : sendFrom(t, data)

(* What the loop thread does by itself, whatever the socket reports. *)
LoopStep ==
  \/ establishAtOnce \/ handleEvent \/ messageReturns
  \/ handleReadMessage \/ handleReadClose \/ handleReadError
  \/ (\E n \in 1..MaxBytes : handleWrite(n)) \/ handleWriteNothing
  \/ handleEventReturns \/ doPendingFunctors
  \/ runEstablished \/ runDestroyed \/ runSend \/ runForceClose
  \/ runUserCallback \/ functorReturns \/ batchEnds
  \/ \E events \in SUBSET {"read", "write"} : pollReturns(events)

Next ==
  \/ UserNext \/ ThreadNext \/ LoopStep
  \/ handleForceCloseWithDelay \/ removeConnectionInLoop \/ destroyServer

Spec == Init /\ [][Next]_vars

(* The loop thread runs; a socket with a peer that keeps reading becomes     *)
(* writable and takes bytes again and again; timers fire; the server's loop  *)
(* and the threads holding a shared_ptr get on with their work.              *)
Writable == \E events \in {{"write"}, {"read", "write"}} : pollReturns(events)
Progress == \E n \in 1..MaxBytes : handleWrite(n)

FairSpec ==
  /\ Spec
  /\ WF_vars(LoopStep) /\ WF_vars(removeConnectionInLoop)
  /\ SF_vars(Writable) /\ SF_vars(Progress)
  /\ SF_vars(handleForceCloseWithDelay)
  /\ \A t \in Threads : WF_vars(release(t)) /\ SF_vars(queueSend(t))

-----------------------------------------------------------------------------
(* Properties.                                                              *)

(* Nothing is lost, repeated or reordered between sendInLoop and the        *)
(* socket, however the writes are cut: what was written and what waits in   *)
(* output_buffer_ is what sendInLoop took.                                  *)
StreamInOrder == wire \o output_buffer_ = accepted

(* Write events are watched exactly while bytes wait: an open connection    *)
(* with waiting bytes is never forgotten, an idle one never spins.          *)
WritingIffWaiting == isOpen => (isWriting <=> output_buffer_ # <<>>)

(* tcp_connection.h says shutdown() closes the write side when everything   *)
(* is written: nothing sendInLoop took is left for after the FIN.           *)
ShutdownAfterData == fin # -1 => Len(accepted) = fin

(* A queue of functors after the first n: it tells the user nothing, or last *)
(* of all this.                                                              *)
Silent(fs, n) == \A i \in n + 1..Len(fs) : fs[i].op \notin Tidings

LastIs(fs, n, op) ==
  \E i \in n + 1..Len(fs) : fs[i].op = op /\ Silent(fs, i)

(* What the user knows when the batch is done, and when the functors now     *)
(* waiting are.                                                              *)
Hears(op) ==
  \/ LastIs(functors, ran, op)
  \/ Silent(functors, ran) /\ told = op

WillHear(op) ==
  \/ LastIs(pending_functors_, 0, op)
  \/ Silent(pending_functors_, 0) /\ Hears(op)

(* Flow control works for a producer that stops at high_water_mark_cb_ and   *)
(* goes on at write_complete_cb_: once the functors waiting are run, the     *)
(* last it was told is `write complete' when output_buffer_ is empty, so it  *)
(* never waits for good, and `high water' when the buffer is at the mark or  *)
(* above, however sends, partial writes and the calls of the two are mixed.  *)
FlowControl ==
  /\ output_buffer_ = <<>> => WillHear("writeComplete")
  /\ Len(output_buffer_) >= HighWaterMark => WillHear("highWaterMark")

(* connection_cb_ is called at most once up and at most once down, the down  *)
(* after the up, and message_cb_ only in between, whatever events are        *)
(* pending when the connection closes.                                       *)
CallbacksInOrder ==
  /\ ups <= 1 /\ downs <= ups
  /\ at = "message" => (ups = 1 /\ downs = 0)

(* The DCHECK of removeConnectionInLoop (n == 1): whatever closes the        *)
(* connection, and whether the server runs on the same loop or another, no   *)
(* erase finds it already gone from connections_.                            *)
RemovedOnce == ~missed

(* The DCHECKs of ~TcpConnection and ~Channel: when the last shared_ptr is   *)
(* gone it is kDisconnected with its watcher neither active nor pending; but *)
(* connectDestroyed, called for a server that is destroyed, closes only what *)
(* is kConnected, and leaves a connection that is on its way down there.     *)
DestroyedDisconnected ==
  ~Alive => \/ state_ = "kDisconnected" /\ watched = {} /\ fed = {}
            \/ ~server /\ state_ = "kDisconnecting"

(* tcp_connection.h calls send() thread safe: a functor bound to the raw     *)
(* `this' never waits for a connection that is gone.                         *)
SendIsThreadSafe ==
  ~Alive => \A i \in 1..Len(pending_functors_) :
              pending_functors_[i].op \notin Raw

(* A shutdown is carried out: the write side is closed, unless the           *)
(* connection closes altogether.                                             *)
ShutdownCompletes ==
  (state_ = "kDisconnecting") ~> (fin # -1 \/ state_ = "kDisconnected")

(* A closed connection is destroyed.                                         *)
ClosedIsDestroyed == (downs = 1) ~> ~Alive
=============================================================================

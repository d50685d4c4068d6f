------------------------- MODULE TcpConnectionProofs -------------------------
(***************************************************************************)
(* TcpConnection's safety properties for any number of threads and bytes   *)
(* and any bounds.                                                         *)
(*                                                                         *)
(* Some of them the code keeps only while no other thread calls            *)
(* forceClose(), which reads state_ and writes it later, or send(); those  *)
(* theorems name that as a hypothesis on ThreadOps, and nothing else about *)
(* the environment.                                                        *)
(***************************************************************************)
EXTENDS TcpConnection, SequenceTheorems, TLAPS

Ops == {"none", "connectEstablished", "connectDestroyed", "send",
        "forceClose", "forceCloseInLoop", "writeComplete", "highWaterMark"}
Functors == [op : Ops, data : Seq(Nat)]
States == {"kConnecting", "kConnected", "kDisconnecting", "kDisconnected"}

(* The bytes, the queues and the threads. *)
DataOK ==
  /\ output_buffer_ \in Seq(Nat) /\ wire \in Seq(Nat) /\ accepted \in Seq(Nat)
  /\ pending_functors_ \in Seq(Functors) /\ functors \in Seq(Functors)
  /\ ran \in Nat /\ ran <= Len(functors)
  /\ pc \in [Threads -> Functors]
  /\ passed \in Nat

(* A functor with that operation is in the queue, or somewhere. *)
Has(fs, op) == \E i \in 1..Len(fs) : fs[i].op = op
Held(op) == Has(pending_functors_, op) \/ Has(functors, op)

(* What `at' says about what libev and the Channel have still to do. *)
PlaceInv ==
  /\ fed # {} => at = "dispatch"
  /\ revents_ # {} => at \in {"handle", "message"}
  /\ at \notin {"batch", "functor"} => functors = <<>> /\ ran = 0

(* connectEstablished is the first functor of all, and it is run once. *)
Waiting(op) ==
  \/ \E i \in 1..Len(pending_functors_) : pending_functors_[i].op = op
  \/ \E i \in ran + 1..Len(functors) : functors[i].op = op

EstablishInv ==
  /\ \A i \in 1..Len(pending_functors_) :
       pending_functors_[i].op = "connectEstablished" => i = 1 /\ functors = <<>>
  /\ \A i \in 1..Len(functors) :
       functors[i].op = "connectEstablished" => i = 1
  /\ Waiting("connectEstablished") => state_ = "kConnecting" /\ at # "accept"
  /\ at = "accept" => state_ = "kConnecting"

(* Up to the first close: nothing is read before connectEstablished, and     *)
(* write events are asked for exactly while bytes wait.                      *)
OpeningInv ==
  /\ state_ \in States
  /\ state_ = "kConnecting" =>
       /\ "read" \notin events_ \cup watched \cup fed \cup revents_
       /\ \A t \in Threads : pc[t].op # "forceClose"
  /\ state_ \in {"kConnecting", "kConnected"}
       => (isWriting <=> output_buffer_ # <<>>)

(* Without threads that force a close: how far the connection is, as the     *)
(* callbacks made so far tell it, and nothing is watched or left to read     *)
(* after the close.                                                          *)
PhaseInv ==
  /\ \A t \in Threads : pc[t].op # "forceClose"
  /\ state_ = "kConnecting" => ups = 0 /\ downs = 0
  /\ isOpen => ups = 1 /\ downs = 0 /\ (isWriting <=> output_buffer_ # <<>>)
  /\ state_ = "kDisconnected" =>
       /\ ups = 1 /\ downs = 1
       /\ events_ = {} /\ watched = {} /\ fed = {} /\ "read" \notin revents_
  /\ at = "message" => isOpen

(* ... and while the server lives: its list and its functors ... *)
ListInv ==
  /\ listed \in BOOLEAN /\ missed = FALSE
  /\ state_ # "kDisconnected" => listed = TRUE /\ removals = 0
  /\ state_ = "kDisconnected" =>
       \/ listed = TRUE /\ removals = 1
       \/ listed = FALSE /\ removals = 0
  /\ Held("connectDestroyed") => state_ = "kDisconnected"

(* ... and when it does not: what it left open is still to be destroyed, and *)
(* established before.                                                       *)
ServerInv ==
  /\ server \in BOOLEAN /\ sameLoop \in BOOLEAN /\ missed = FALSE
  /\ server = TRUE => ListInv
  /\ at = "accept" => sameLoop = TRUE /\ server = TRUE
  /\ state_ = "kConnecting"
       => at = "accept" \/ (sameLoop = FALSE /\ Waiting("connectEstablished"))
  /\ server = FALSE /\ state_ \in {"kConnecting", "kConnected"}
       => Waiting("connectDestroyed")

(* Without threads that send: no send is on its way, and once the write side *)
(* is closed the connection is no longer kConnected.                         *)
ShutInv ==
  /\ \A t \in Threads : pc[t].op # "send"
  /\ ~Held("send")
  /\ fin # -1 => state_ \notin {"kConnecting", "kConnected"}

-----------------------------------------------------------------------------
(* The helpers on queues of functors and on the stream. *)

(* A function on 1..n is a sequence of length n. *)
LEMMA FunctionIsSeq ==
  ASSUME NEW S, NEW n \in Nat, NEW f \in [1..n -> S]
  PROVE  f \in Seq(S) /\ Len(f) = n
BY SMT

(* A queue of one functor. *)
LEMMA OneFunctor ==
  ASSUME NEW f \in Functors
  PROVE  /\ <<f>> \in Seq(Functors) /\ Len(<<f>>) = 1
         /\ \A op : Has(<<f>>, op) <=> f.op = op
         /\ f.op \notin Tidings => Silent(<<f>>, 0)
         /\ LastIs(<<f>>, 0, f.op)
<1>1. /\ <<f>> \in Seq(Functors) /\ Len(<<f>>) = 1
      /\ \A op : Has(<<f>>, op) <=> f.op = op
  BY DEF Has
<1>2. f.op \notin Tidings => Silent(<<f>>, 0)
  BY <1>1 DEF Silent
<1>3. LastIs(<<f>>, 0, f.op)
  <2>1. 1 \in 0 + 1..Len(<<f>>) /\ <<f>>[1] = f
    BY <1>1
  <2>2. Silent(<<f>>, 1)
    BY <1>1 DEF Silent
  <2>. QED
    BY <2>1, <2>2 DEF LastIs
<1>. QED
  BY <1>1, <1>2, <1>3

(* No functor. *)
LEMMA NoFunctor ==
  /\ <<>> \in Seq(Functors)
  /\ \A op : ~Has(<<>>, op)
  /\ Silent(<<>>, 0)
  /\ \A op : ~LastIs(<<>>, 0, op)
BY DEF Has, Silent, LastIs

(* functor(op) is a functor of that operation. *)
LEMMA FunctorOK ==
  ASSUME NEW op \in Ops
  PROVE  functor(op) \in Functors /\ functor(op).op = op
BY DEF functor, Functors

(* A concatenation holds what its parts hold. *)
LEMMA HasConcat ==
  ASSUME NEW fs \in Seq(Functors), NEW gs \in Seq(Functors)
  PROVE  /\ fs \o gs \in Seq(Functors) /\ Len(fs \o gs) = Len(fs) + Len(gs)
         /\ \A op : Has(fs \o gs, op) <=> Has(fs, op) \/ Has(gs, op)
         /\ \A i \in 1..Len(fs) : (fs \o gs)[i] = fs[i]
         /\ \A i \in 1..Len(gs) : (fs \o gs)[Len(fs) + i] = gs[i]
<1> DEFINE hs == fs \o gs
<1>1. /\ hs \in Seq(Functors)
      /\ Len(fs) \in Nat /\ Len(gs) \in Nat /\ Len(hs) = Len(fs) + Len(gs)
      /\ \A i \in 1..Len(fs) + Len(gs) :
           hs[i] = IF i <= Len(fs) THEN fs[i] ELSE gs[i - Len(fs)]
  BY ConcatProperties
<1> HIDE DEF hs
<1>2. /\ \A i \in 1..Len(fs) : i \in 1..Len(hs) /\ hs[i] = fs[i]
      /\ \A i \in 1..Len(gs) : /\ Len(fs) + i \in 1..Len(hs)
                               /\ hs[Len(fs) + i] = gs[i]
  <2>1. ASSUME NEW i \in 1..Len(fs) PROVE i \in 1..Len(hs) /\ hs[i] = fs[i]
    BY <1>1
  <2>2. ASSUME NEW i \in 1..Len(gs)
        PROVE  Len(fs) + i \in 1..Len(hs) /\ hs[Len(fs) + i] = gs[i]
    <3>1. /\ Len(fs) + i \in 1..Len(fs) + Len(gs)
          /\ ~(Len(fs) + i <= Len(fs)) /\ Len(fs) + i - Len(fs) = i
      BY <1>1
    <3>. QED
      BY <1>1, <3>1
  <2>. QED
    BY <2>1, <2>2
<1>3. ASSUME NEW op PROVE Has(hs, op) <=> Has(fs, op) \/ Has(gs, op)
  <2>1. ASSUME Has(fs, op) \/ Has(gs, op) PROVE Has(hs, op)
    BY <1>2, <2>1 DEF Has
  <2>2. ASSUME NEW i \in 1..Len(hs), hs[i].op = op
        PROVE  Has(fs, op) \/ Has(gs, op)
    <3>1. CASE i <= Len(fs)
      <4>1. i \in 1..Len(fs) /\ hs[i] = fs[i]
        BY <1>1, <2>2, <3>1
      <4>. QED
        BY <2>2, <4>1 DEF Has
    <3>2. CASE ~(i <= Len(fs))
      <4>1. i - Len(fs) \in 1..Len(gs) /\ hs[i] = gs[i - Len(fs)]
        BY <1>1, <2>2, <3>2
      <4>. QED
        BY <2>2, <4>1 DEF Has
    <3>. QED
      BY <3>1, <3>2
  <2>. QED
    BY <2>1, <2>2 DEF Has
<1>. QED
  BY <1>1, <1>2, <1>3 DEF hs

(* A stream cut in two. *)
LEMMA Cut ==
  ASSUME NEW s \in Seq(Nat), NEW n \in 0..Len(s)
  PROVE  LET first == SubSeq(s, 1, n)
             rest  == SubSeq(s, n + 1, Len(s))
         IN  /\ first \in Seq(Nat) /\ rest \in Seq(Nat)
             /\ Len(first) = n /\ Len(rest) = Len(s) - n
             /\ first \o rest = s
             /\ n = 0 => first = <<>>
<1> DEFINE first == SubSeq(s, 1, n)
           rest  == SubSeq(s, n + 1, Len(s))
<1>1. Len(s) \in Nat /\ n \in Nat /\ n <= Len(s)
  OBVIOUS
<1>2. /\ \A i \in 1..n : s[i] \in Nat
      /\ \A i \in n + 1..Len(s) : s[i] \in Nat
  BY <1>1
<1>3. first \in Seq(Nat) /\ Len(first) = IF 1 <= n THEN n - 1 + 1 ELSE 0
  BY <1>1, <1>2, SubSeqProperties
<1>4. /\ rest \in Seq(Nat)
      /\ Len(rest) = IF n + 1 <= Len(s) THEN Len(s) - (n + 1) + 1 ELSE 0
  BY <1>1, <1>2, SubSeqProperties
<1> HIDE DEF first, rest
<1>5. Len(first) = n /\ Len(rest) = Len(s) - n
  BY <1>1, <1>3, <1>4
<1>6. first \o rest = s
  <2>1. 1 \in 1..(Len(s) + 1) /\ n \in (1 - 1)..Len(s) /\ Len(s) \in n..Len(s)
    BY <1>1
  <2>2. SubSeq(s, 1, n) \o SubSeq(s, n + 1, Len(s)) = SubSeq(s, 1, Len(s))
    BY <2>1, ConcatAdjacentSubSeq
  <2>. QED
    BY <2>2, SubSeqFull DEF first, rest
<1>7. n = 0 => first = <<>>
  BY <1>3, <1>5, EmptySeq
<1>. QED
  BY <1>3, <1>4, <1>5, <1>6, <1>7 DEF first, rest

(* Concatenation of streams. *)
LEMMA Streams ==
  ASSUME NEW s \in Seq(Nat), NEW t \in Seq(Nat)
  PROVE  /\ s \o t \in Seq(Nat) /\ Len(s \o t) = Len(s) + Len(t)
         /\ s \o <<>> = s /\ <<>> \o s = s
<1>1. s \o t \in Seq(Nat) /\ Len(s \o t) = Len(s) + Len(t)
  BY ConcatProperties
<1>2. s \o <<>> = s /\ <<>> \o s = s
  BY ConcatEmptySeq
<1>. QED
  BY <1>1, <1>2

(* Concatenation of streams is associative. *)
LEMMA StreamsAssociative ==
  ASSUME NEW s \in Seq(Nat), NEW t \in Seq(Nat), NEW u \in Seq(Nat)
  PROVE  (s \o t) \o u = s \o (t \o u)
BY ConcatAssociative, SMTT(30)

(* A caller's bytes are a sequence of numbers. *)
LEMMA MessagesOK ==
  ASSUME passed \in Nat, NEW data \in Messages
  PROVE  data \in Seq(Nat)
<1>1. PICK n \in 0..MaxMessage : data = [i \in 1..n |-> passed + i]
  BY DEF Messages
<1>2. n \in Nat /\ data \in [1..n -> Nat]
  BY <1>1, ConstantsAssumption
<1>. QED
  BY <1>2, FunctionIsSeq

(* What functors that are queued tell of output_buffer_: that it is drained, *)
(* that it is at the mark, or nothing because neither is new.                *)
Announces(fs) ==
  \/ /\ Silent(fs, 0)
     /\ output_buffer_' = <<>> => output_buffer_ = <<>>
     /\ Len(output_buffer_') >= HighWaterMark
          => Len(output_buffer_) >= HighWaterMark
  \/ /\ LastIs(fs, 0, "writeComplete")
     /\ output_buffer_' = <<>>
  \/ /\ LastIs(fs, 0, "highWaterMark")
     /\ Len(output_buffer_') >= HighWaterMark

(* What sendInLoop does with bytes it does not refuse: a first part goes to  *)
(* the socket, if no bytes were waiting, and the rest to output_buffer_, and *)
(* what becomes of the buffer is announced.                                  *)
Took(data, n, fs) ==
  LET rest == SubSeq(data, n + 1, Len(data)) IN
  /\ n > 0 => writesDirectly
  /\ accepted' = accepted \o data
  /\ wire' = wire \o SubSeq(data, 1, n)
  /\ output_buffer_' = output_buffer_ \o rest
  /\ pending_functors_' = pending_functors_ \o fs
  /\ ~Has(fs, "connectEstablished") /\ ~Has(fs, "send")
  /\ ~Has(fs, "connectDestroyed")
  /\ Announces(fs)
  /\ IF rest = <<>> \/ isWriting THEN UNCHANGED chanVars ELSE enableWriting

(* sendInLoop takes the bytes that way. *)
LEMMA SendInLoop ==
  ASSUME DataOK, NEW data \in Seq(Nat), sendInLoop(data),
         state_ # "kDisconnected"
  PROVE  \E n \in 0..Len(data), fs \in Seq(Functors) : Took(data, n, fs)
<1>0. /\ Len(data) \in Nat /\ Len(output_buffer_) \in Nat
      /\ output_buffer_ \in Seq(Nat)
      /\ HighWaterMark \in Nat \ {0}
  BY ConstantsAssumption DEF DataOK
<1>1. PICK result \in (IF writesDirectly THEN Write(data) ELSE {-1}) :
        LET nwrote == IF result = -1 THEN 0 ELSE result
            rest   == SubSeq(data, nwrote + 1, Len(data))
        IN  /\ wire' = wire \o SubSeq(data, 1, nwrote)
            /\ output_buffer_' = output_buffer_ \o rest
            /\ push_back(completed(result, data) \o
                 (IF rest = <<>> THEN <<>>
                  ELSE crossing(Len(output_buffer_), Len(rest))))
            /\ IF rest = <<>> \/ isWriting
               THEN UNCHANGED chanVars
               ELSE enableWriting
  BY DEF sendInLoop
<1>2. accepted' = accepted \o data
  BY DEF sendInLoop
<1> DEFINE n    == IF result = -1 THEN 0 ELSE result
           rest == SubSeq(data, n + 1, Len(data))
           done == completed(result, data)
           high == IF rest = <<>> THEN <<>>
                   ELSE crossing(Len(output_buffer_), Len(rest))
<1>3. n \in 0..Len(data) /\ (n > 0 => writesDirectly)
  BY <1>0, <1>1 DEF Write
<1>4. /\ rest \in Seq(Nat) /\ Len(rest) \in Nat
      /\ Len(rest) = Len(data) - n /\ (rest = <<>> <=> Len(rest) = 0)
  <2>1. rest \in Seq(Nat) /\ Len(rest) = Len(data) - n
    BY <1>3, Cut
  <2> HIDE DEF rest
  <2>. QED
    BY <2>1
<1>5. wire' = wire \o SubSeq(data, 1, n) /\ output_buffer_' = output_buffer_ \o rest
      /\ pending_functors_' = pending_functors_ \o (done \o high)
      /\ IF rest = <<>> \/ isWriting THEN UNCHANGED chanVars
                                     ELSE enableWriting
  BY <1>1 DEF push_back
<1> DEFINE wc == functor("writeComplete")
           hw == functor("highWaterMark")
<1>6. /\ wc \in Functors /\ wc.op = "writeComplete"
      /\ hw \in Functors /\ hw.op = "highWaterMark"
  BY FunctorOK DEF Ops
<1>7. \/ done = <<>>
      \/ done = <<wc>> /\ rest = <<>> /\ output_buffer_ = <<>>
  <2>1. CASE result = Len(data)
    <3>1. result # -1 /\ n = Len(data)
      BY <1>0, <2>1
    <3>2. Len(rest) = 0
      BY <1>0, <1>4, <3>1
    <3>3. writesDirectly
      BY <1>1, <3>1
    <3>. QED
      BY <1>4, <2>1, <3>2, <3>3 DEF completed, writesDirectly
  <2>2. CASE result # Len(data)
    BY <2>2 DEF completed
  <2>. QED
    BY <2>1, <2>2
<1> HIDE DEF n, rest, wc, hw
<1>8. \/ /\ high = <<>>
         /\ Len(output_buffer_) + Len(rest) >= HighWaterMark
              => Len(output_buffer_) >= HighWaterMark
      \/ /\ high = <<hw>> /\ rest # <<>>
         /\ Len(output_buffer_) + Len(rest) >= HighWaterMark
  <2>1. CASE rest = <<>>
    BY <1>0, <1>4, <2>1
  <2>2. CASE rest # <<>>
    BY <1>0, <1>4, <2>2 DEF crossing, hw
  <2>. QED
    BY <2>1, <2>2
<1> HIDE DEF done, high
<1>9. /\ output_buffer_' \in Seq(Nat)
      /\ Len(output_buffer_') = Len(output_buffer_) + Len(rest)
      /\ output_buffer_' = <<>> => output_buffer_ = <<>>
      /\ output_buffer_ = <<>> /\ rest = <<>> => output_buffer_' = <<>>
  <2>1. /\ output_buffer_' \in Seq(Nat)
        /\ Len(output_buffer_') = Len(output_buffer_) + Len(rest)
    BY <1>0, <1>4, <1>5, Streams
  <2>. QED
    BY <1>0, <1>4, <2>1
<1>10. /\ done \o high \in Seq(Functors)
      /\ ~Has(done \o high, "connectEstablished")
      /\ ~Has(done \o high, "send") /\ ~Has(done \o high, "connectDestroyed")
      /\ Announces(done \o high)
  <2>1. CASE done = <<wc>> /\ rest = <<>> /\ output_buffer_ = <<>>
    <3>1. high = <<>>
      BY <1>8, <2>1
    <3>2. done \o high = <<wc>>
      BY <1>6, <2>1, <3>1, OneFunctor, ConcatEmptySeq
    <3>. QED
      BY <1>6, <1>9, <2>1, <3>2, OneFunctor DEF Announces
  <2>2. CASE done = <<>> /\ high = <<>>
    <3>1. done \o high = <<>>
      BY <2>2
    <3>2. Len(output_buffer_') >= HighWaterMark
            => Len(output_buffer_) >= HighWaterMark
      BY <1>8, <1>9, <2>2
    <3>. QED
      BY <1>9, <3>1, <3>2, NoFunctor DEF Announces
  <2>3. CASE done = <<>> /\ high = <<hw>> /\ rest # <<>>
    <3>1. done \o high = <<hw>>
      BY <1>6, <2>3, OneFunctor, ConcatEmptySeq
    <3>2. Len(output_buffer_') >= HighWaterMark
      BY <1>8, <1>9, <2>3
    <3>. QED
      BY <1>6, <3>1, <3>2, OneFunctor DEF Announces
  <2>. QED
    BY <1>7, <1>8, <2>1, <2>2, <2>3
<1>11. Took(data, n, done \o high)
  BY <1>2, <1>3, <1>10, <1>5 DEF Took, rest
<1>. QED
  BY <1>3, <1>10, <1>11

-----------------------------------------------------------------------------
(* What a step does to the queue: apart from the swap and the end of a batch *)
(* it only adds functors, never connectEstablished, a send only for a thread *)
(* that is in send(), connectDestroyed only when the server takes the        *)
(* connection off its list, and what it tells of output_buffer_ is so.       *)

Removes == server' = FALSE \/ removals > 0 \/ state_' = "kDisconnected"

Pushes(fs) ==
  /\ pending_functors_' = pending_functors_ \o fs
  /\ ~Has(fs, "connectEstablished")
  /\ Announces(fs)
  /\ Has(fs, "send") => \E t \in Threads : pc[t].op = "send"
  /\ Has(fs, "connectDestroyed") => Removes

Pushing == \E fs \in Seq(Functors) : Pushes(fs)

(* A step that runs the next functor of the batch. *)
RunsOne ==
  /\ at = "batch" /\ ran < Len(functors) /\ ran' = ran + 1
  /\ \/ next.op \in Tidings /\ told' = next.op
     \/ next.op \notin Tidings /\ told' = told

(* A step that leaves the batch as it is, or runs its next functor. *)
InBatch ==
  /\ functors' = functors
  /\ \/ ran' = ran /\ told' = told
     \/ RunsOne

(* A step that queues nothing and adds no bytes. *)
LEMMA PushNothing ==
  ASSUME DataOK, UNCHANGED <<pending_functors_, output_buffer_>>
  PROVE  Pushing
<1>1. pending_functors_' = pending_functors_ \o <<>>
  BY ConcatEmptySeq DEF DataOK
<1>2. Announces(<<>>)
  BY NoFunctor DEF Announces
<1>. QED
  BY <1>1, <1>2, NoFunctor DEF Pushing, Pushes

(* A step that queues one functor of another kind and adds no bytes. *)
LEMMA PushOne ==
  ASSUME DataOK, NEW f \in Functors, push_back(<<f>>),
         f.op \notin {"connectEstablished"} \cup Tidings,
         f.op = "send" => \E t \in Threads : pc[t].op = "send",
         f.op = "connectDestroyed" => Removes,
         UNCHANGED output_buffer_
  PROVE  Pushing
<1>1. /\ <<f>> \in Seq(Functors) /\ ~Has(<<f>>, "connectEstablished")
      /\ Silent(<<f>>, 0)
      /\ Has(<<f>>, "send") <=> f.op = "send"
      /\ Has(<<f>>, "connectDestroyed") <=> f.op = "connectDestroyed"
  BY OneFunctor
<1>2. Announces(<<f>>)
  BY <1>1 DEF Announces
<1>. QED
  BY <1>1, <1>2 DEF Pushing, Pushes, push_back

(* sendInLoop. *)
LEMMA PushSend ==
  ASSUME DataOK, NEW data \in Seq(Nat), sendInLoop(data)
  PROVE  /\ Pushing
         /\ output_buffer_' \in Seq(Nat) /\ wire' \in Seq(Nat)
         /\ accepted' \in Seq(Nat)
         /\ wire \o output_buffer_ = accepted
              => wire' \o output_buffer_' = accepted'
<1>1. CASE state_ = "kDisconnected"
  <2>1. UNCHANGED <<chanVars, dataVars, pending_functors_>>
    BY <1>1 DEF sendInLoop
  <2>. QED
    BY <2>1, PushNothing DEF dataVars, DataOK
<1>2. CASE state_ # "kDisconnected"
  <2>1. PICK n \in 0..Len(data), fs \in Seq(Functors) : Took(data, n, fs)
    BY <1>2, SendInLoop
  <2> DEFINE first == SubSeq(data, 1, n)
             rest  == SubSeq(data, n + 1, Len(data))
  <2>2. /\ Len(data) \in Nat /\ n \in Nat /\ n <= Len(data)
        /\ output_buffer_ \in Seq(Nat) /\ wire \in Seq(Nat)
        /\ accepted \in Seq(Nat)
    BY DEF DataOK
  <2>3. /\ first \in Seq(Nat) /\ rest \in Seq(Nat)
        /\ first \o rest = data
        /\ n = 0 => first = <<>>
    BY Cut
  <2> HIDE DEF first, rest
  <2>6. /\ (n > 0 => output_buffer_ = <<>>)
        /\ accepted' = accepted \o data
        /\ wire' = wire \o first /\ output_buffer_' = output_buffer_ \o rest
        /\ pending_functors_' = pending_functors_ \o fs
        /\ ~Has(fs, "connectEstablished") /\ ~Has(fs, "send")
        /\ ~Has(fs, "connectDestroyed") /\ Announces(fs)
    BY <2>1 DEF Took, first, rest, writesDirectly
  <2>7. /\ output_buffer_' \in Seq(Nat) /\ wire' \in Seq(Nat)
        /\ accepted' \in Seq(Nat)
    BY <2>2, <2>3, <2>6, Streams
  <2>8. ASSUME wire \o output_buffer_ = accepted
        PROVE  wire' \o output_buffer_' = accepted'
    <3>1. CASE n = 0
      <4>1. wire' = wire
        BY <2>2, <2>3, <2>6, <3>1, Streams
      <4>2. rest = data
        BY <2>3, <3>1, Streams
      <4>3. wire' \o output_buffer_' = wire \o (output_buffer_ \o data)
        BY <2>6, <4>1, <4>2
      <4>4. wire \o (output_buffer_ \o data) = (wire \o output_buffer_) \o data
        BY <2>2, StreamsAssociative, Zenon
      <4>. QED
        BY <2>6, <2>8, <4>3, <4>4
    <3>2. CASE n > 0
      <4>1. output_buffer_ = <<>> /\ output_buffer_' = rest
        BY <2>3, <2>6, <3>2, Streams
      <4>2. accepted = wire
        BY <2>2, <2>8, <4>1, Streams
      <4>3. wire' \o output_buffer_' = (wire \o first) \o rest
        BY <2>6, <4>1
      <4>4. (wire \o first) \o rest = wire \o (first \o rest)
        <5>1. wire \in Seq(Nat) /\ first \in Seq(Nat) /\ rest \in Seq(Nat)
          BY <2>2, <2>3
        <5>. QED
          BY <5>1, StreamsAssociative, Zenon
      <4>. QED
        BY <2>3, <2>6, <4>2, <4>3, <4>4
    <3>. QED
      BY <2>2, <3>1, <3>2
  <2>9. Pushing
    BY <2>6 DEF Pushing, Pushes
  <2>. QED
    BY <2>7, <2>8, <2>9
<1>. QED
  BY <1>1, <1>2

(* handleWrite moves bytes from output_buffer_ to the socket. *)
LEMMA WriteMoves ==
  ASSUME DataOK, NEW n \in 1..MaxBytes, handleWrite(n)
  PROVE  /\ n <= Len(output_buffer_)
         /\ output_buffer_' \in Seq(Nat) /\ wire' \in Seq(Nat)
         /\ Len(output_buffer_') = Len(output_buffer_) - n
         /\ wire' \o output_buffer_' = wire \o output_buffer_
<1> DEFINE first == SubSeq(output_buffer_, 1, n)
           rest  == SubSeq(output_buffer_, n + 1, Len(output_buffer_))
<1>1. /\ output_buffer_ \in Seq(Nat) /\ wire \in Seq(Nat)
      /\ Len(output_buffer_) \in Nat /\ n \in Nat \ {0}
  BY ConstantsAssumption DEF DataOK
<1>2. n <= Len(output_buffer_)
  BY <1>1 DEF handleWrite, Write
<1>3. wire' = wire \o first /\ output_buffer_' = rest
  BY DEF handleWrite
<1>4. /\ first \in Seq(Nat) /\ rest \in Seq(Nat)
      /\ Len(rest) = Len(output_buffer_) - n
      /\ first \o rest = output_buffer_
  <2>1. n \in 0..Len(output_buffer_)
    BY <1>1, <1>2
  <2>. QED
    BY <1>1, <2>1, Cut
<1> HIDE DEF first, rest
<1>5. wire' \in Seq(Nat)
  BY <1>1, <1>3, <1>4, Streams
<1>6. (wire \o first) \o rest = wire \o (first \o rest)
  BY <1>1, <1>4, StreamsAssociative
<1>. QED
  BY <1>2, <1>3, <1>4, <1>5, <1>6

(* What a step does to the queue and to the stream. *)
LEMMA QueueStep ==
  ASSUME DataOK, [Next]_vars
  PROVE  /\ \/ Pushing /\ InBatch
            \/ doPendingFunctors \/ batchEnds
         /\ output_buffer_' \in Seq(Nat) /\ wire' \in Seq(Nat)
         /\ accepted' \in Seq(Nat)
         /\ wire \o output_buffer_ = accepted
              => wire' \o output_buffer_' = accepted'
<1> DEFINE Stream == /\ output_buffer_' \in Seq(Nat) /\ wire' \in Seq(Nat)
                     /\ accepted' \in Seq(Nat)
                     /\ wire \o output_buffer_ = accepted
                          => wire' \o output_buffer_' = accepted'
           Goal == /\ \/ Pushing /\ InBatch
                      \/ doPendingFunctors \/ batchEnds
                   /\ Stream
<1> USE DEF chanVars, dataVars, queueVars, ownVars, userVars, cbVars, InBatch
<1>0. ASSUME NEW op, NEW place, runs(op, place),
             IF op \in Tidings THEN told' = op ELSE told' = told
      PROVE  InBatch
  BY <1>0 DEF runs, InBatch, RunsOne
<1>1. ASSUME UNCHANGED dataVars PROVE Stream
  BY <1>1 DEF DataOK
<1>2. ASSUME UNCHANGED <<dataVars, pending_functors_>>, InBatch PROVE Goal
  BY <1>1, <1>2, PushNothing
<1>3. ASSUME NEW f \in Functors, push_back(<<f>>), UNCHANGED dataVars,
             f.op \notin {"connectEstablished"} \cup Tidings,
             f.op = "send" => \E t \in Threads : pc[t].op = "send",
             f.op = "connectDestroyed" => Removes, InBatch
      PROVE  Goal
  BY <1>1, <1>3, PushOne
<1>4. ASSUME NEW op \in Ops, push_back(<<functor(op)>>), UNCHANGED dataVars,
             op \notin {"connectEstablished", "send"} \cup Tidings,
             op = "connectDestroyed" => Removes, InBatch
      PROVE  Goal
  BY <1>3, <1>4, FunctorOK
<1>5. ASSUME NEW data \in Messages, send(data) PROVE Goal
  <2>1. data \in Seq(Nat)
    BY MessagesOK DEF DataOK
  <2>. QED
    BY <1>5, <2>1, PushSend DEF send
<1>6. ASSUME shutdown \/ forceCloseWithDelay PROVE Goal
  BY <1>2, <1>6 DEF shutdown, forceCloseWithDelay
<1>7. ASSUME queueForceClose PROVE Goal
  BY <1>4, <1>7 DEF queueForceClose, Ops, Tidings
<1>8. ASSUME handleForceCloseWithDelay PROVE Goal
  BY <1>2, <1>7, <1>8 DEF handleForceCloseWithDelay
<1>9. ASSUME NEW t \in Threads, acquire(t) \/ release(t) \/ forceCloseFrom(t)
      PROVE  Goal
  BY <1>2, <1>9 DEF acquire, release, forceCloseFrom
<1>10. ASSUME NEW t \in Threads, NEW data, sendFrom(t, data) PROVE Goal
  BY <1>2, <1>10 DEF sendFrom
<1>11. ASSUME NEW t \in Threads, queueSend(t) PROVE Goal
  <2>1. pc[t] \in Functors
    BY DEF DataOK
  <2>. QED
    BY <1>3, <1>11, <2>1 DEF queueSend, Tidings
<1>12. ASSUME removeConnectionInLoop PROVE Goal
  BY <1>4, <1>12 DEF removeConnectionInLoop, Ops, Removes, Tidings
<1>13. ASSUME destroyServer PROVE Goal
  BY <1>2, <1>4, <1>13 DEF destroyServer, connectDestroyed, Ops, Removes,
     Tidings
<1>14. ASSUME handleClose, UNCHANGED dataVars, InBatch PROVE Goal
  BY <1>2, <1>4, <1>14 DEF handleClose, removeConnection, Ops, Removes,
     Tidings
<1>15. ASSUME handleReadClose PROVE Goal
  <2>1. InBatch
    BY <1>15 DEF handleReadClose, handleClose
  <2>. QED
    BY <1>14, <1>15, <2>1 DEF handleReadClose
<1>16. ASSUME NEW n \in 1..MaxBytes, handleWrite(n) PROVE Goal
  <2>1. /\ n \in Nat /\ Len(output_buffer_) \in Nat
        /\ n <= Len(output_buffer_) /\ accepted \in Seq(Nat)
    BY WriteMoves, <1>16, ConstantsAssumption DEF DataOK
  <2>2. /\ output_buffer_' \in Seq(Nat) /\ wire' \in Seq(Nat)
        /\ Len(output_buffer_') = Len(output_buffer_) - n
        /\ wire' \o output_buffer_' = wire \o output_buffer_
    BY WriteMoves, <1>16
  <2>3. Stream /\ InBatch
    BY <1>16, <2>1, <2>2 DEF handleWrite
  <2>4. CASE n < Len(output_buffer_) /\ UNCHANGED pending_functors_
    <3>1. pending_functors_' = pending_functors_ \o <<>>
      BY <2>4, ConcatEmptySeq DEF DataOK
    <3>2. output_buffer_' # <<>>
      BY <2>1, <2>2, <2>4
    <3>3. Len(output_buffer_') >= HighWaterMark
            => Len(output_buffer_) >= HighWaterMark
      BY <2>1, <2>2, ConstantsAssumption
    <3>4. Announces(<<>>)
      BY <3>2, <3>3, NoFunctor DEF Announces
    <3>. QED
      BY <2>3, <3>1, <3>4, NoFunctor DEF Pushing, Pushes
  <2>5. CASE n = Len(output_buffer_) /\ push_back(<<functor("writeComplete")>>)
    <3> DEFINE wc == functor("writeComplete")
    <3>1. wc \in Functors /\ wc.op = "writeComplete"
      BY FunctorOK DEF Ops
    <3>2. output_buffer_' = <<>>
      BY <2>1, <2>2, <2>5
    <3> HIDE DEF wc
    <3>3. Announces(<<wc>>)
      BY <3>1, <3>2, OneFunctor DEF Announces
    <3>4. /\ <<wc>> \in Seq(Functors) /\ ~Has(<<wc>>, "connectEstablished")
          /\ ~Has(<<wc>>, "send") /\ ~Has(<<wc>>, "connectDestroyed")
      BY <3>1, OneFunctor
    <3>. QED
      BY <2>3, <2>5, <3>3, <3>4 DEF Pushing, Pushes, push_back, wc
  <2>. QED
    BY <1>16, <2>4, <2>5 DEF handleWrite, drained
<1>17. ASSUME establishAtOnce \/ handleEvent \/ messageReturns
              \/ handleReadMessage \/ handleReadError \/ handleWriteNothing
              \/ handleEventReturns \/ functorReturns
       PROVE  Goal
  BY <1>2, <1>17 DEF establishAtOnce, connectEstablished, handleEvent, messageReturns,
     handleReadMessage, handleReadError, handleWriteNothing,
     handleEventReturns, functorReturns
<1>18. ASSUME doPendingFunctors \/ batchEnds PROVE Goal
  BY <1>1, <1>18 DEF doPendingFunctors, batchEnds
<1>19. ASSUME runEstablished \/ runDestroyed \/ runUserCallback PROVE Goal
  <2>1. InBatch
    BY <1>0, <1>19 DEF runEstablished, runDestroyed, runUserCallback, Tidings,
       connectEstablished, connectDestroyed
  <2>. QED
    BY <1>2, <1>19, <2>1 DEF runEstablished, runDestroyed, runUserCallback
<1>20. ASSUME runSend PROVE Goal
  <2>1. ran \in Nat /\ ran < Len(functors) /\ Len(functors) \in Nat
        /\ functors \in Seq(Functors)
    BY <1>20 DEF runSend, runs, DataOK
  <2>2. next \in Functors
    BY <2>1 DEF next
  <2>3. next.data \in Seq(Nat)
    BY <2>2 DEF Functors
  <2>4. InBatch
    BY <1>0, <1>20 DEF runSend, Tidings
  <2>. QED
    BY <1>20, <2>3, <2>4, PushSend DEF runSend
<1>21. ASSUME runForceClose PROVE Goal
  <2>1. InBatch
    BY <1>0, <1>21 DEF runForceClose, forceCloseInLoop, handleClose, Tidings
  <2>. QED
    BY <1>2, <1>14, <1>21, <2>1 DEF runForceClose, forceCloseInLoop
<1>22. ASSUME NEW events, pollReturns(events) PROVE Goal
  BY <1>2, <1>22 DEF pollReturns
<1>23. ASSUME UNCHANGED vars PROVE Goal
  BY <1>2, <1>23 DEF vars
<1>24. ASSUME forceClose PROVE Goal
  BY <1>7, <1>24 DEF forceClose
<1>25. ASSUME NEW t \in Threads, setDisconnecting(t) PROVE Goal
  BY <1>7, <1>25 DEF setDisconnecting
<1> HIDE DEF Goal
<1>26. Goal
  BY <1>5, <1>6, <1>8, <1>9, <1>10, <1>11, <1>12, <1>13, <1>15, <1>16, <1>17,
     <1>18, <1>19, <1>20, <1>21, <1>22, <1>23, <1>24, <1>25
  DEF Next, UserNext, ThreadNext, LoopStep
<1>. QED
  BY <1>26 DEF Goal

(* Every step keeps the loop thread's position in line with its state. *)
LEMMA NextPlaceInv == DataOK /\ PlaceInv /\ [Next]_vars => PlaceInv'
<1> SUFFICES ASSUME DataOK, PlaceInv, [Next]_vars PROVE PlaceInv'
  OBVIOUS
<1> USE DEF PlaceInv, chanVars, dataVars, queueVars, ownVars, userVars, cbVars
<1>1. ASSUME NEW data, sendInLoop(data)
      PROVE  UNCHANGED fed \/ fed' = {}
  BY <1>1 DEF sendInLoop, enableWriting, update
<1>2. ASSUME UNCHANGED fed \/ fed' = {}, UNCHANGED <<at, revents_, functors, ran>>
      PROVE  PlaceInv'
  BY <1>2
<1>3. ASSUME NEW data, send(data) PROVE PlaceInv'
  BY <1>1, <1>2, <1>3 DEF send
<1>4. ASSUME shutdown \/ forceClose \/ forceCloseWithDelay
             \/ handleForceCloseWithDelay \/ removeConnectionInLoop
      PROVE  PlaceInv'
  BY <1>2, <1>4 DEF shutdown, forceClose, forceCloseWithDelay,
     handleForceCloseWithDelay, queueForceClose, removeConnectionInLoop
<1>5. ASSUME ThreadNext PROVE PlaceInv'
  BY <1>2, <1>5 DEF ThreadNext, acquire, release, sendFrom, queueSend,
     forceCloseFrom, setDisconnecting, queueForceClose
<1>6. ASSUME destroyServer PROVE PlaceInv'
  BY <1>2, <1>6 DEF destroyServer, connectDestroyed, disableAll, update, remove
<1>7. ASSUME establishAtOnce PROVE PlaceInv'
  BY <1>7 DEF establishAtOnce, connectEstablished, enableReading, update
<1>8. ASSUME NEW events, pollReturns(events) PROVE PlaceInv'
  BY <1>8 DEF pollReturns
<1>9. ASSUME handleEvent PROVE PlaceInv'
  BY <1>9 DEF handleEvent, ioWatcherCb
<1>10. ASSUME handleReadMessage \/ messageReturns \/ handleReadError
              \/ handleWriteNothing \/ handleEventReturns
       PROVE  PlaceInv'
  BY <1>10 DEF handleReadMessage, messageReturns, handleReadError,
     handleWriteNothing, handleEventReturns, readsNow, writesNow
<1>11. ASSUME handleReadClose PROVE PlaceInv'
  BY <1>11 DEF handleReadClose, handleClose, disableAll, update, readsNow
<1>12. ASSUME NEW n, handleWrite(n) PROVE PlaceInv'
  BY <1>12 DEF handleWrite, stopWriting, disableWriting, update, writesNow
<1>13. ASSUME doPendingFunctors \/ functorReturns \/ batchEnds PROVE PlaceInv'
  BY <1>13 DEF doPendingFunctors, functorReturns, batchEnds
<1>14. ASSUME UNCHANGED fed \/ fed' = {}, at = "batch", UNCHANGED revents_,
              at' \in {"batch", "functor"}
       PROVE  PlaceInv'
  BY <1>14
<1>15. ASSUME runEstablished \/ runDestroyed \/ runUserCallback PROVE PlaceInv'
  BY <1>14, <1>15 DEF runEstablished, runDestroyed, runUserCallback, runs,
     connectEstablished, enableReading, connectDestroyed, disableAll, remove,
     update
<1>16. ASSUME runSend PROVE PlaceInv'
  BY <1>1, <1>14, <1>16 DEF runSend, runs
<1>17. ASSUME runForceClose PROVE PlaceInv'
  BY <1>14, <1>17 DEF runForceClose, runs, forceCloseInLoop, handleClose,
     disableAll, update
<1>18. ASSUME UNCHANGED vars PROVE PlaceInv'
  BY <1>2, <1>18 DEF vars
<1>. QED
  BY <1>3, <1>4, <1>5, <1>6, <1>7, <1>8, <1>9, <1>10, <1>11, <1>12, <1>13,
     <1>15, <1>16, <1>17, <1>18 DEF Next, UserNext, LoopStep

(* Every step keeps the bytes, the queues and the threads in their types. *)
LEMMA NextDataOK == DataOK /\ PlaceInv /\ [Next]_vars => DataOK'
<1> SUFFICES ASSUME DataOK, PlaceInv, [Next]_vars PROVE DataOK'
  OBVIOUS
<1>1. output_buffer_' \in Seq(Nat) /\ wire' \in Seq(Nat)
      /\ accepted' \in Seq(Nat)
  BY QueueStep
<1>2. /\ pending_functors_' \in Seq(Functors) /\ functors' \in Seq(Functors)
      /\ ran' \in Nat /\ ran' <= Len(functors')
  <2>0. /\ pending_functors_ \in Seq(Functors) /\ functors \in Seq(Functors)
        /\ Len(functors) \in Nat /\ Len(pending_functors_) \in Nat
        /\ ran \in Nat /\ ran <= Len(functors)
    BY DEF DataOK
  <2>1. CASE Pushing /\ InBatch
    <3>1. PICK fs \in Seq(Functors) : pending_functors_' = pending_functors_ \o fs
      BY <2>1 DEF Pushing, Pushes
    <3>2. pending_functors_' \in Seq(Functors)
      BY <2>0, <3>1, HasConcat
    <3>3. ran' \in Nat /\ ran' <= Len(functors)
      BY <2>0, <2>1 DEF InBatch, RunsOne
    <3>. QED
      BY <2>0, <2>1, <3>2, <3>3 DEF InBatch
  <2>2. CASE doPendingFunctors
    <3>1. functors' = pending_functors_ /\ pending_functors_' = <<>>
          /\ ran' = 0
      BY <2>2 DEF doPendingFunctors, PlaceInv
    <3>. QED
      BY <2>0, <3>1
  <2>3. CASE batchEnds
    BY <2>0, <2>3 DEF batchEnds
  <2>. QED
    BY <2>1, <2>2, <2>3, QueueStep
<1>3. pc' \in [Threads -> Functors] /\ passed' \in Nat
  <2>0. pc \in [Threads -> Functors] /\ passed \in Nat
    BY DEF DataOK
  <2> USE DEF userVars
  <2>1. CASE UNCHANGED <<pc, passed>>
    BY <2>0, <2>1
  <2>2. ASSUME NEW data \in Messages, send(data)
        PROVE  pc' \in [Threads -> Functors] /\ passed' \in Nat
    BY <2>0, <2>2, MessagesOK DEF send
  <2>3. ASSUME NEW t \in Threads, NEW f \in Functors,
               pc' = [pc EXCEPT ![t] = f], passed' = passed
        PROVE  pc' \in [Threads -> Functors] /\ passed' \in Nat
    BY <2>0, <2>3
  <2>4. ASSUME NEW t \in Threads, NEW data \in Messages, sendFrom(t, data)
        PROVE  pc' \in [Threads -> Functors] /\ passed' \in Nat
    <3>1. data \in Seq(Nat) /\ [op |-> "send", data |-> data] \in Functors
      BY <2>0, MessagesOK DEF Functors, Ops
    <3>2. pc' = [pc EXCEPT ![t] = [op |-> "send", data |-> data]]
          /\ passed' = passed + Len(data)
      BY <2>4 DEF sendFrom
    <3>. QED
      BY <2>0, <3>1, <3>2
  <2>5. Out \in Functors /\ functor("forceClose") \in Functors
    BY FunctorOK DEF Out, Ops
  <2>6. ASSUME NEW t \in Threads,
               queueSend(t) \/ forceCloseFrom(t) \/ setDisconnecting(t)
        PROVE  pc' \in [Threads -> Functors] /\ passed' \in Nat
    BY <2>3, <2>5, <2>6 DEF queueSend, forceCloseFrom, setDisconnecting,
       queueForceClose
  <2>7. ASSUME NEW t \in Threads, acquire(t) \/ release(t)
        PROVE  UNCHANGED <<pc, passed>>
    BY <2>7 DEF acquire, release
  <2>8. ASSUME shutdown \/ forceClose \/ forceCloseWithDelay
               \/ handleForceCloseWithDelay \/ removeConnectionInLoop
               \/ destroyServer \/ UNCHANGED vars
        PROVE  UNCHANGED <<pc, passed>>
    BY <2>8 DEF shutdown, forceClose, forceCloseWithDelay, queueForceClose,
       handleForceCloseWithDelay, removeConnectionInLoop, destroyServer, vars
  <2>9. ASSUME LoopStep PROVE UNCHANGED <<pc, passed>>
    BY <2>9 DEF LoopStep, establishAtOnce, handleEvent, messageReturns,
       handleReadMessage, handleReadClose, handleReadError, handleWrite,
       handleWriteNothing, handleEventReturns, doPendingFunctors, runs,
       runEstablished, runDestroyed, runSend, runForceClose, runUserCallback,
       functorReturns, batchEnds, pollReturns
  <2>. QED
    BY <2>1, <2>2, <2>4, <2>6, <2>7, <2>8, <2>9 DEF Next, UserNext, ThreadNext
<1>. QED
  BY <1>1, <1>2, <1>3 DEF DataOK

(* The initial states satisfy the types and the positions. *)
LEMMA InitData == Init => DataOK /\ PlaceInv /\ StreamInOrder
<1> SUFFICES ASSUME Init PROVE DataOK /\ PlaceInv /\ StreamInOrder
  OBVIOUS
<1>1. Out \in Functors /\ functor("connectEstablished") \in Functors
  BY FunctorOK DEF Out, Ops
<1>2. pending_functors_ \in Seq(Functors)
  <2>1. /\ <<functor("connectEstablished")>> \in Seq(Functors)
        /\ <<>> \in Seq(Functors)
    BY <1>1, OneFunctor
  <2>2. \/ pending_functors_ = <<>>
        \/ pending_functors_ = <<functor("connectEstablished")>>
    BY DEF Init
  <2>. QED
    BY <2>1, <2>2
<1>3. output_buffer_ = <<>> /\ wire = <<>> /\ accepted = <<>>
  BY DEF Init, TcpConnection
<1>4. StreamInOrder
  BY <1>3, Streams DEF StreamInOrder
<1>5. PlaceInv
  BY DEF Init, TcpConnection, Channel, PlaceInv
<1>. QED
  BY <1>1, <1>2, <1>3, <1>4, <1>5 DEF Init, DataOK

(* The types and the positions hold in every reachable state. *)
LEMMA DataHolds == Spec => [](DataOK /\ PlaceInv)
<1>1. (DataOK /\ PlaceInv) /\ [Next]_vars => (DataOK /\ PlaceInv)'
  BY NextDataOK, NextPlaceInv
<1>. QED
  BY InitData, <1>1, PTL DEF Spec

-----------------------------------------------------------------------------
(* The stream. *)

(* Nothing is lost, repeated or reordered between sendInLoop and the socket, *)
(* whatever other threads send or close and however the writes are cut.      *)
THEOREM StreamKept == Spec => []StreamInOrder
<1>1. (DataOK /\ PlaceInv) /\ StreamInOrder /\ [Next]_vars => StreamInOrder'
  BY QueueStep DEF StreamInOrder
<1>. QED
  BY InitData, DataHolds, <1>1, PTL DEF Spec

(* Queueing functors that tell nothing leaves the last one that does, and    *)
(* queueing one that does makes it the last.                                 *)
LEMMA TellingConcat ==
  ASSUME NEW fs \in Seq(Functors), NEW gs \in Seq(Functors), NEW op
  PROVE  /\ Silent(gs, 0) =>
              /\ Silent(fs, 0) => Silent(fs \o gs, 0)
              /\ LastIs(fs, 0, op) => LastIs(fs \o gs, 0, op)
         /\ LastIs(gs, 0, op) => LastIs(fs \o gs, 0, op)
<1> DEFINE hs == fs \o gs
           m  == Len(fs)
<1>1. /\ Len(gs) \in Nat /\ m \in Nat /\ Len(hs) = m + Len(gs)
      /\ \A i \in 1..m : hs[i] = fs[i]
      /\ \A i \in 1..Len(gs) : hs[m + i] = gs[i]
  BY HasConcat
<1> HIDE DEF hs, m
<1>2. ASSUME NEW i \in 1..Len(hs)
      PROVE  \/ i \in 1..m /\ hs[i] = fs[i]
             \/ i - m \in 1..Len(gs) /\ hs[i] = gs[i - m]
  <2>1. CASE i <= m
    BY <1>1, <2>1
  <2>2. CASE ~(i <= m)
    <3>1. i - m \in 1..Len(gs) /\ m + (i - m) = i
      BY <1>1, <2>2
    <3>. QED
      BY <1>1, <3>1
  <2>. QED
    BY <2>1, <2>2
<1>3. ASSUME Silent(gs, 0), NEW k \in 0..m, Silent(fs, k) PROVE Silent(hs, k)
  <2>1. ASSUME NEW i \in k + 1..Len(hs) PROVE hs[i].op \notin Tidings
    <3>1. i \in 1..Len(hs)
      BY <1>1
    <3>2. CASE i \in 1..m /\ hs[i] = fs[i]
      BY <1>1, <1>3, <3>2 DEF Silent, m
    <3>3. CASE i - m \in 1..Len(gs) /\ hs[i] = gs[i - m]
      <4>1. i - m \in 0 + 1..Len(gs)
        BY <3>3
      <4>. QED
        BY <1>3, <3>3, <4>1 DEF Silent
    <3>. QED
      BY <1>2, <3>1, <3>2, <3>3
  <2>. QED
    BY <2>1 DEF Silent
<1>4. ASSUME Silent(gs, 0), LastIs(fs, 0, op) PROVE LastIs(hs, 0, op)
  <2>1. PICK i \in 0 + 1..m : fs[i].op = op /\ Silent(fs, i)
    BY <1>4 DEF LastIs, m
  <2>2. i \in 0..m /\ i \in 0 + 1..Len(hs) /\ hs[i] = fs[i]
    BY <1>1
  <2>3. Silent(hs, i)
    BY <1>3, <1>4, <2>1, <2>2
  <2>. QED
    BY <2>1, <2>2, <2>3 DEF LastIs
<1>5. ASSUME LastIs(gs, 0, op) PROVE LastIs(hs, 0, op)
  <2>1. PICK i \in 0 + 1..Len(gs) : gs[i].op = op /\ Silent(gs, i)
    BY <1>5 DEF LastIs
  <2>2. m + i \in 0 + 1..Len(hs) /\ hs[m + i] = gs[i]
    BY <1>1
  <2>3. ASSUME NEW j \in m + i + 1..Len(hs) PROVE hs[j].op \notin Tidings
    <3>1. j - m \in i + 1..Len(gs) /\ j \in 1..Len(hs) /\ ~(j \in 1..m)
      BY <1>1
    <3>2. hs[j] = gs[j - m]
      BY <1>2, <3>1
    <3>. QED
      BY <2>1, <3>1, <3>2 DEF Silent
  <2>4. Silent(hs, m + i)
    BY <2>3 DEF Silent
  <2>. QED
    BY <2>1, <2>2, <2>4 DEF LastIs
<1>6. Silent(gs, 0) /\ Silent(fs, 0) => Silent(hs, 0)
  <2>1. 0 \in 0..m
    BY <1>1
  <2>. QED
    BY <1>3, <2>1
<1>. QED
  BY <1>4, <1>5, <1>6 DEF hs

(* Running a functor takes nothing from what the user hears of the batch. *)
LEMMA HearsOn ==
  ASSUME DataOK, InBatch, NEW op \in Tidings, Hears(op)
  PROVE  Hears(op)'
<1>0. ran \in Nat /\ Len(functors) \in Nat
  BY DEF DataOK
<1>1. CASE ran' = ran /\ told' = told
  BY <1>1 DEF InBatch, Hears, LastIs, Silent
<1>2. CASE RunsOne
  <2>1. /\ functors' = functors /\ ran' = ran + 1
        /\ ran + 1 \in ran + 1..Len(functors)
        /\ \/ next.op \in Tidings /\ told' = next.op
           \/ next.op \notin Tidings /\ told' = told
    BY <1>0, <1>2 DEF InBatch, RunsOne
  <2>2. CASE LastIs(functors, ran, op)
    <3>1. PICK i \in ran + 1..Len(functors) :
            functors[i].op = op /\ Silent(functors, i)
      BY <2>2 DEF LastIs
    <3>2. CASE i = ran + 1
      <4>1. told' = op /\ Silent(functors', ran')
        BY <2>1, <3>1, <3>2 DEF next
      <4>. QED
        BY <4>1 DEF Hears, Silent
    <3>3. CASE i # ran + 1
      <4>1. i \in ran' + 1..Len(functors')
        BY <1>0, <2>1, <3>3
      <4>2. LastIs(functors', ran', op)
        BY <2>1, <3>1, <4>1 DEF LastIs
      <4>. QED
        BY <4>2 DEF Hears, LastIs, Silent
    <3>. QED
      BY <3>2, <3>3
  <2>3. CASE Silent(functors, ran) /\ told = op
    <3>1. told' = op
      BY <2>1, <2>3 DEF Silent, next
    <3>2. Silent(functors', ran')
      <4>1. \A i \in ran' + 1..Len(functors') : i \in ran + 1..Len(functors)
        BY <1>0, <2>1
      <4>. QED
        BY <2>1, <2>3, <4>1 DEF Silent
    <3>. QED
      BY <3>1, <3>2 DEF Hears, Silent
  <2>. QED
    BY <2>2, <2>3 DEF Hears
<1>. QED
  BY <1>1, <1>2 DEF InBatch

(* Whoever sends or closes, and however the writes are cut, the last that    *)
(* the user is told when the waiting functors are run is `write complete'    *)
(* when output_buffer_ is empty and `high water' when it is at the mark.     *)
THEOREM FlowControlled == Spec => []FlowControl
<1>0. "writeComplete" \in Tidings /\ "highWaterMark" \in Tidings
  BY DEF Tidings
<1>1. Init => FlowControl
  <2> SUFFICES ASSUME Init PROVE FlowControl
    OBVIOUS
  <2>1. /\ output_buffer_ = <<>> /\ functors = <<>> /\ ran = 0
        /\ told = "writeComplete"
        /\ \/ pending_functors_ = <<>>
           \/ pending_functors_ = <<functor("connectEstablished")>>
    BY DEF Init, TcpConnection
  <2>2. Silent(pending_functors_, 0)
    <3>1. "connectEstablished" \notin Tidings
      BY DEF Tidings
    <3>2. Silent(<<functor("connectEstablished")>>, 0)
      BY <3>1, FunctorOK, OneFunctor DEF Ops
    <3>. QED
      BY <2>1, <3>2, NoFunctor
  <2>3. WillHear("writeComplete")
    BY <2>1, <2>2, NoFunctor DEF WillHear, Hears
  <2>4. ~(Len(output_buffer_) >= HighWaterMark)
    BY <2>1, ConstantsAssumption
  <2>. QED
    BY <2>3, <2>4 DEF FlowControl
<1>2. DataOK /\ PlaceInv /\ FlowControl /\ [Next]_vars => FlowControl'
  <2> SUFFICES ASSUME DataOK, PlaceInv, FlowControl, [Next]_vars
               PROVE  FlowControl'
    OBVIOUS
  <2>0. /\ pending_functors_ \in Seq(Functors) /\ Len(functors) \in Nat
        /\ HighWaterMark \in Nat \ {0}
    BY ConstantsAssumption DEF DataOK
  <2>1. CASE Pushing /\ InBatch
    <3>1. PICK fs \in Seq(Functors) : Pushes(fs)
      BY <2>1 DEF Pushing
    <3>2. pending_functors_' = pending_functors_ \o fs /\ Announces(fs)
      BY <3>1 DEF Pushes
    <3>3. ASSUME NEW op, LastIs(fs, 0, op) PROVE WillHear(op)'
      <4>1. LastIs(pending_functors_', 0, op)
        BY <2>0, <3>2, <3>3, TellingConcat
      <4>. QED
        BY <4>1 DEF WillHear, LastIs, Silent
    <3>4. ASSUME NEW op \in Tidings, Silent(fs, 0), WillHear(op)
          PROVE  WillHear(op)'
      <4>1. CASE LastIs(pending_functors_, 0, op)
        <5>1. LastIs(pending_functors_', 0, op)
          BY <2>0, <3>2, <3>4, <4>1, TellingConcat
        <5>. QED
          BY <5>1 DEF WillHear, LastIs, Silent
      <4>2. CASE Silent(pending_functors_, 0) /\ Hears(op)
        <5>1. Silent(pending_functors_', 0)
          BY <2>0, <3>2, <3>4, <4>2, TellingConcat
        <5>2. Hears(op)'
          BY <2>1, <4>2, HearsOn
        <5>. QED
          BY <5>1, <5>2 DEF WillHear, Silent
      <4>. QED
        BY <3>4, <4>1, <4>2 DEF WillHear
    <3>5. CASE LastIs(fs, 0, "writeComplete") /\ output_buffer_' = <<>>
      <4>1. ~(Len(output_buffer_') >= HighWaterMark)
        BY <2>0, <3>5
      <4>. QED
        BY <3>3, <3>5, <4>1 DEF FlowControl
    <3>6. CASE /\ LastIs(fs, 0, "highWaterMark")
               /\ Len(output_buffer_') >= HighWaterMark
      <4>1. output_buffer_' # <<>>
        BY <2>0, <3>6
      <4>. QED
        BY <3>3, <3>6, <4>1 DEF FlowControl
    <3>7. CASE /\ Silent(fs, 0)
               /\ output_buffer_' = <<>> => output_buffer_ = <<>>
               /\ Len(output_buffer_') >= HighWaterMark
                    => Len(output_buffer_) >= HighWaterMark
      BY <1>0, <3>4, <3>7 DEF FlowControl
    <3>. QED
      BY <3>2, <3>5, <3>6, <3>7 DEF Announces
  <2>2. CASE doPendingFunctors
    <3>1. /\ functors = <<>> /\ ran = 0 /\ functors' = pending_functors_
          /\ pending_functors_' = <<>> /\ ran' = 0 /\ told' = told
          /\ output_buffer_' = output_buffer_
      BY <2>2 DEF doPendingFunctors, PlaceInv, cbVars, dataVars
    <3>2. ASSUME NEW op, WillHear(op) PROVE WillHear(op)'
      <4>1. \/ LastIs(functors', ran', op)
            \/ Silent(functors', ran') /\ told' = op
        BY <3>1, <3>2, NoFunctor DEF WillHear, Hears
      <4>2. Silent(pending_functors_', 0)
        BY <3>1, NoFunctor
      <4>. QED
        BY <4>1, <4>2 DEF WillHear, Hears, LastIs, Silent
    <3>. QED
      BY <3>1, <3>2 DEF FlowControl
  <2>3. CASE batchEnds
    <3>1. /\ ran = Len(functors) /\ functors' = <<>> /\ ran' = 0
          /\ pending_functors_' = pending_functors_ /\ told' = told
          /\ output_buffer_' = output_buffer_
      BY <2>3 DEF batchEnds, cbVars, dataVars
    <3>2. ASSUME NEW op, WillHear(op) PROVE WillHear(op)'
      <4>1. ~LastIs(functors, ran, op)
        BY <2>0, <3>1 DEF LastIs
      <4>2. \/ LastIs(pending_functors_', 0, op)
            \/ Silent(pending_functors_', 0) /\ told' = op
        BY <3>1, <3>2, <4>1 DEF WillHear, Hears
      <4>3. Silent(functors', ran')
        BY <3>1, NoFunctor
      <4>. QED
        BY <4>2, <4>3 DEF WillHear, Hears, LastIs, Silent
    <3>. QED
      BY <3>1, <3>2 DEF FlowControl
  <2>. QED
    BY <2>1, <2>2, <2>3, QueueStep
<1>. QED
  BY <1>1, <1>2, DataHolds, PTL DEF Spec

-----------------------------------------------------------------------------
(* What a step does to the channel. *)

(* sendInLoop asks for write events when it leaves bytes waiting. *)
LEMMA SendWatches ==
  ASSUME DataOK, NEW data \in Seq(Nat), sendInLoop(data),
         state_ # "kDisconnected"
  PROVE  /\ (isWriting <=> output_buffer_ # <<>>)
              => (isWriting' <=> output_buffer_' # <<>>)
         /\ UNCHANGED chanVars \/ update(events_ \cup {"write"})
<1>1. PICK n \in 0..Len(data), fs \in Seq(Functors) : Took(data, n, fs)
  BY SendInLoop
<1> DEFINE rest == SubSeq(data, n + 1, Len(data))
<1>2. /\ output_buffer_' = output_buffer_ \o rest
      /\ IF rest = <<>> \/ isWriting THEN UNCHANGED chanVars ELSE enableWriting
  BY <1>1 DEF Took
<1>3. rest \in Seq(Nat) /\ output_buffer_ \in Seq(Nat)
  BY Cut DEF DataOK
<1> HIDE DEF rest
<1>4. /\ Len(output_buffer_') = Len(output_buffer_) + Len(rest)
      /\ output_buffer_' \in Seq(Nat)
      /\ rest = <<>> => output_buffer_' = output_buffer_
  BY <1>2, <1>3, Streams
<1>5. /\ Len(rest) \in Nat /\ (rest = <<>> <=> Len(rest) = 0)
      /\ Len(output_buffer_) \in Nat
      /\ (output_buffer_ = <<>> <=> Len(output_buffer_) = 0)
      /\ (output_buffer_' = <<>> <=> Len(output_buffer_') = 0)
  BY <1>3, <1>4
<1>6. CASE rest = <<>>
  BY <1>2, <1>4, <1>6 DEF chanVars, isWriting
<1>7. CASE rest # <<>> /\ isWriting
  BY <1>2, <1>4, <1>5, <1>7 DEF chanVars, isWriting
<1>8. CASE rest # <<>> /\ ~isWriting
  BY <1>2, <1>4, <1>5, <1>8 DEF enableWriting, update, isWriting
<1>. QED
  BY <1>6, <1>7, <1>8

(* handleWrite stops asking for write events with the last byte. *)
LEMMA WriteWatches ==
  ASSUME DataOK, NEW n \in 1..MaxBytes, handleWrite(n)
  PROVE  /\ isWriting /\ (isWriting' <=> output_buffer_' # <<>>)
         /\ UNCHANGED chanVars \/ update(events_ \ {"write"})
         /\ revents_' = {} /\ UNCHANGED <<state_, at>>
<1>1. /\ n \in Nat /\ n <= Len(output_buffer_) /\ Len(output_buffer_) \in Nat
      /\ output_buffer_' \in Seq(Nat)
      /\ Len(output_buffer_') = Len(output_buffer_) - n
  BY WriteMoves, ConstantsAssumption DEF DataOK
<1>2. output_buffer_' = <<>> <=> Len(output_buffer_') = 0
  BY <1>1
<1>3. CASE n < Len(output_buffer_)
  BY <1>1, <1>2, <1>3 DEF handleWrite, chanVars, isWriting
<1>4. CASE n = Len(output_buffer_)
  BY <1>1, <1>2, <1>4
  DEF handleWrite, stopWriting, disableWriting, update, isWriting
<1>. QED
  BY <1>1, <1>3, <1>4 DEF handleWrite

(* Every step keeps the first part of a connection's life in order. *)
LEMMA NextOpeningInv ==
  DataOK /\ PlaceInv /\ EstablishInv /\ OpeningInv /\ [Next]_vars
    => OpeningInv'
<1> SUFFICES ASSUME DataOK, PlaceInv, EstablishInv, OpeningInv, [Next]_vars
             PROVE  OpeningInv'
  OBVIOUS
<1> USE DEF chanVars, dataVars, queueVars, ownVars, userVars, cbVars
<1>0. pc \in [Threads -> Functors] /\ Out.op = "none"
  BY DEF DataOK, Out, functor
<1>1. ASSUME state_' \in {"kDisconnecting", "kDisconnected"} PROVE OpeningInv'
  BY <1>1 DEF OpeningInv, States
<1>2. ASSUME UNCHANGED <<state_, events_, pc, output_buffer_>>,
             watched' \cup fed' \cup revents_'
               \subseteq events_ \cup watched \cup fed \cup revents_
      PROVE  OpeningInv'
  BY <1>2 DEF OpeningInv, isWriting
<1>3. ASSUME UNCHANGED <<state_, revents_, pc>> ,
             UNCHANGED chanVars \/ update(events_ \cup {"write"})
               \/ update(events_ \ {"write"}),
             (isWriting <=> output_buffer_ # <<>>)
               => (isWriting' <=> output_buffer_' # <<>>)
      PROVE  OpeningInv'
  BY <1>3 DEF OpeningInv, update
<1>4. ASSUME NEW data \in Seq(Nat), sendInLoop(data), UNCHANGED <<state_, revents_, pc>>
      PROVE  OpeningInv'
  <2>1. CASE state_ = "kDisconnected"
    BY <1>1, <1>4, <2>1
  <2>2. CASE state_ # "kDisconnected"
    BY <1>3, <1>4, <2>2, SendWatches
  <2>. QED
    BY <2>1, <2>2
<1>5. ASSUME NEW data \in Messages, send(data) PROVE OpeningInv'
  <2>1. data \in Seq(Nat)
    BY MessagesOK DEF DataOK
  <2>. QED
    BY <1>4, <1>5, <2>1 DEF send
<1>6. ASSUME shutdown \/ forceClose \/ forceCloseWithDelay PROVE OpeningInv'
  BY <1>1, <1>6 DEF shutdown, forceClose, forceCloseWithDelay,
     queueForceClose
<1>7. ASSUME handleForceCloseWithDelay PROVE OpeningInv'
  BY <1>1, <1>2, <1>7 DEF handleForceCloseWithDelay, queueForceClose
<1>8. ASSUME NEW t \in Threads, acquire(t) \/ release(t) PROVE OpeningInv'
  BY <1>2, <1>8 DEF acquire, release
<1>9. ASSUME NEW t \in Threads, NEW f, pc' = [pc EXCEPT ![t] = f],
             f.op # "forceClose" \/ state_ # "kConnecting",
             UNCHANGED <<state_, chanVars, revents_, output_buffer_>>
      PROVE  OpeningInv'
  <2>1. \A u \in Threads : pc'[u] = IF u = t THEN f ELSE pc[u]
    BY <1>0, <1>9
  <2>. QED
    BY <1>9, <2>1 DEF OpeningInv, isWriting
<1>10. ASSUME NEW t \in Threads, NEW data, sendFrom(t, data) PROVE OpeningInv'
  BY <1>9, <1>10 DEF sendFrom
<1>11. ASSUME NEW t \in Threads, queueSend(t) PROVE OpeningInv'
  BY <1>0, <1>9, <1>11 DEF queueSend
<1>12. ASSUME NEW t \in Threads, forceCloseFrom(t) PROVE OpeningInv'
  BY <1>9, <1>12 DEF forceCloseFrom, isOpen
<1>13. ASSUME NEW t \in Threads, setDisconnecting(t) PROVE OpeningInv'
  BY <1>1, <1>13 DEF setDisconnecting, queueForceClose
<1>14. ASSUME removeConnectionInLoop PROVE OpeningInv'
  BY <1>2, <1>14 DEF removeConnectionInLoop
<1>15. ASSUME connectDestroyed, UNCHANGED <<revents_, pc, output_buffer_>>
       PROVE  OpeningInv'
  BY <1>1, <1>2, <1>15 DEF connectDestroyed, remove
<1>16. ASSUME destroyServer PROVE OpeningInv'
  BY <1>2, <1>15, <1>16 DEF destroyServer
<1>17. ASSUME connectEstablished, state_ = "kConnecting",
              UNCHANGED output_buffer_
       PROVE  OpeningInv'
  BY <1>17 DEF connectEstablished, enableReading, update, OpeningInv,
     isWriting, States
<1>18. ASSUME establishAtOnce PROVE OpeningInv'
  BY <1>17, <1>18 DEF establishAtOnce, EstablishInv
<1>19. ASSUME runEstablished PROVE OpeningInv'
  <2>1. ran + 1 \in 1..Len(functors) /\ ran + 1 \in ran + 1..Len(functors)
    BY <1>19 DEF runEstablished, runs, DataOK
  <2>2. state_ = "kConnecting"
    BY <1>19, <2>1 DEF runEstablished, runs, next, EstablishInv, Waiting
  <2>. QED
    BY <1>17, <1>19, <2>2 DEF runEstablished
<1>20. ASSUME NEW events, pollReturns(events) PROVE OpeningInv'
  BY <1>2, <1>20 DEF pollReturns
<1>21. ASSUME handleEvent PROVE OpeningInv'
  BY <1>2, <1>21 DEF handleEvent, ioWatcherCb
<1>22. ASSUME handleReadMessage \/ messageReturns \/ handleReadError
              \/ handleWriteNothing \/ handleEventReturns
       PROVE  OpeningInv'
  BY <1>2, <1>22 DEF handleReadMessage, messageReturns, handleReadError,
     handleWriteNothing, handleEventReturns
<1>23. ASSUME handleReadClose PROVE OpeningInv'
  BY <1>1, <1>23 DEF handleReadClose, handleClose
<1>24. ASSUME NEW n \in 1..MaxBytes, handleWrite(n) PROVE OpeningInv'
  <2>1. UNCHANGED <<state_, pc>> /\ revents_' = {}
    BY <1>24 DEF handleWrite
  <2>. QED
    BY <1>24, <2>1, WriteWatches DEF OpeningInv, update
<1>25. ASSUME doPendingFunctors \/ functorReturns \/ batchEnds
              \/ runUserCallback
       PROVE  OpeningInv'
  BY <1>2, <1>25 DEF doPendingFunctors, functorReturns, batchEnds,
     runUserCallback, runs
<1>26. ASSUME runDestroyed PROVE OpeningInv'
  BY <1>15, <1>26 DEF runDestroyed, runs
<1>27. ASSUME runSend PROVE OpeningInv'
  <2>1. next \in Functors
    BY <1>27 DEF runSend, runs, DataOK, next
  <2>2. next.data \in Seq(Nat)
    BY <2>1 DEF Functors
  <2>. QED
    BY <1>4, <1>27, <2>2 DEF runSend, runs
<1>28. ASSUME runForceClose PROVE OpeningInv'
  BY <1>1, <1>2, <1>28 DEF runForceClose, runs, forceCloseInLoop, handleClose
<1>29. ASSUME UNCHANGED vars PROVE OpeningInv'
  BY <1>2, <1>29 DEF vars
<1>. QED
  BY <1>5, <1>6, <1>7, <1>8, <1>10, <1>11, <1>12, <1>13, <1>14, <1>16, <1>18,
     <1>19, <1>20, <1>21, <1>22, <1>23, <1>24, <1>25, <1>26, <1>27, <1>28, <1>29
  DEF Next, UserNext, ThreadNext, LoopStep

(* Only connectEstablished ends kConnecting, and newConnection is not        *)
(* entered again.                                                            *)
LEMMA ConnectingStep ==
  ASSUME EstablishInv, OpeningInv, [Next]_vars
  PROVE  /\ state_ = "kConnecting"
              => state_' = state_ \/ establishAtOnce \/ runEstablished
         /\ at' = "accept" => at = "accept" /\ state_' = state_
<1> DEFINE Goal == /\ state_ = "kConnecting"
                        => state_' = state_ \/ establishAtOnce \/ runEstablished
                   /\ at' = "accept" => at = "accept" /\ state_' = state_
<1> USE DEF chanVars, dataVars, queueVars, ownVars, userVars, cbVars
<1>1. ASSUME state_' = state_, at' = at \/ at' # "accept" PROVE Goal
  BY <1>1
<1>2. ASSUME state_ # "kConnecting", at' # "accept" PROVE Goal
  BY <1>2
<1>3. ASSUME NEW data, send(data) PROVE Goal
  BY <1>1, <1>3 DEF send
<1>4. ASSUME shutdown \/ forceClose \/ forceCloseWithDelay PROVE Goal
  BY <1>2, <1>4 DEF shutdown, forceClose, forceCloseWithDelay,
     queueForceClose, InUserCode, isOpen
<1>5. ASSUME handleForceCloseWithDelay PROVE Goal
  BY <1>1, <1>2, <1>5 DEF handleForceCloseWithDelay, queueForceClose, isOpen
<1>6. ASSUME NEW t \in Threads, acquire(t) \/ release(t) \/ queueSend(t)
                                \/ forceCloseFrom(t)
      PROVE  Goal
  BY <1>1, <1>6 DEF acquire, release, queueSend, forceCloseFrom
<1>7. ASSUME NEW t \in Threads, NEW data, sendFrom(t, data) PROVE Goal
  BY <1>1, <1>7 DEF sendFrom
<1>8. ASSUME NEW t \in Threads, setDisconnecting(t) PROVE Goal
  <2>1. state_ # "kConnecting" /\ at # "accept"
    BY <1>8 DEF setDisconnecting, OpeningInv, EstablishInv
  <2>. QED
    BY <1>2, <1>8, <2>1 DEF setDisconnecting, queueForceClose
<1>9. ASSUME removeConnectionInLoop PROVE Goal
  BY <1>1, <1>9 DEF removeConnectionInLoop
<1>10. ASSUME destroyServer PROVE Goal
  BY <1>1, <1>2, <1>10 DEF destroyServer, connectDestroyed
<1>11. ASSUME establishAtOnce \/ runEstablished PROVE Goal
  BY <1>11 DEF establishAtOnce, runEstablished, runs
<1>12. ASSUME NEW events, pollReturns(events) PROVE Goal
  BY <1>1, <1>12 DEF pollReturns
<1>13. ASSUME handleEvent \/ handleReadMessage \/ messageReturns
              \/ handleReadError \/ handleWriteNothing \/ handleEventReturns
       PROVE  Goal
  BY <1>1, <1>13 DEF handleEvent, handleReadMessage, messageReturns,
     handleReadError, handleWriteNothing, handleEventReturns
<1>14. ASSUME handleReadClose PROVE Goal
  BY <1>2, <1>14 DEF handleReadClose, readsNow, OpeningInv
<1>15. ASSUME NEW n, handleWrite(n) PROVE Goal
  BY <1>1, <1>15 DEF handleWrite
<1>16. ASSUME doPendingFunctors \/ functorReturns \/ batchEnds
              \/ runUserCallback \/ runSend
       PROVE  Goal
  BY <1>1, <1>16 DEF doPendingFunctors, functorReturns, batchEnds,
     runUserCallback, runSend, runs
<1>17. ASSUME runDestroyed PROVE Goal
  BY <1>1, <1>2, <1>17 DEF runDestroyed, runs, connectDestroyed
<1>18. ASSUME runForceClose PROVE Goal
  BY <1>1, <1>2, <1>18 DEF runForceClose, runs, forceCloseInLoop, isOpen
<1>19. ASSUME UNCHANGED vars PROVE Goal
  BY <1>1, <1>19 DEF vars
<1> HIDE DEF Goal
<1>20. Goal
  BY <1>3, <1>4, <1>5, <1>6, <1>7, <1>8, <1>9, <1>10, <1>11, <1>12, <1>13,
     <1>14, <1>15, <1>16, <1>17, <1>18, <1>19
  DEF Next, UserNext, ThreadNext, LoopStep
<1>. QED
  BY <1>20 DEF Goal

(* Every step keeps connectEstablished the first functor, run once. *)
LEMMA NextEstablishInv ==
  DataOK /\ PlaceInv /\ EstablishInv /\ OpeningInv /\ [Next]_vars
    => EstablishInv'
<1> SUFFICES ASSUME DataOK, PlaceInv, EstablishInv, OpeningInv, [Next]_vars
             PROVE  EstablishInv'
  OBVIOUS
<1> DEFINE Est(f) == f.op = "connectEstablished"
           p == pending_functors_
<1>0. /\ p \in Seq(Functors) /\ Len(p) \in Nat
      /\ Len(functors) \in Nat /\ ran \in Nat /\ ran <= Len(functors)
  BY DEF DataOK
(* The queue keeps its shape and no second connectEstablished appears. *)
<1>1. /\ \A i \in 1..Len(p') : Est(p'[i]) => i = 1 /\ functors' = <<>>
      /\ \A i \in 1..Len(functors') : Est(functors'[i]) => i = 1
      /\ Waiting("connectEstablished")' => Waiting("connectEstablished")
  <2>1. CASE Pushing /\ InBatch
    <3>1. PICK fs \in Seq(Functors) : Pushes(fs)
      BY <2>1 DEF Pushing
    <3>2. /\ Len(fs) \in Nat /\ Len(p') = Len(p) + Len(fs)
          /\ \A i \in 1..Len(p) : p'[i] = p[i]
          /\ \A i \in 1..Len(fs) : p'[Len(p) + i] = fs[i]
      BY <1>0, <3>1, HasConcat DEF Pushes
    <3>3. \A i \in 1..Len(fs) : ~Est(fs[i])
      BY <3>1 DEF Pushes, Has
    <3>4. ASSUME NEW i \in 1..Len(p'), Est(p'[i])
          PROVE  i \in 1..Len(p) /\ Est(p[i])
      <4>1. CASE i <= Len(p)
        BY <1>0, <3>2, <3>4, <4>1
      <4>2. CASE ~(i <= Len(p))
        <5>1. i - Len(p) \in 1..Len(fs) /\ Len(p) + (i - Len(p)) = i
          BY <1>0, <3>2, <4>2
        <5>2. p'[i] = fs[i - Len(p)]
          BY <3>2, <5>1
        <5>. QED
          BY <3>3, <3>4, <5>1, <5>2
      <4>. QED
        BY <4>1, <4>2
    <3>5. \A i \in 1..Len(p') : Est(p'[i]) => i = 1 /\ functors' = <<>>
      BY <2>1, <3>4 DEF EstablishInv, InBatch
    <3>6. ran' + 1..Len(functors') \subseteq ran + 1..Len(functors)
      BY <1>0, <2>1 DEF InBatch, RunsOne
    <3>7. Waiting("connectEstablished")' => Waiting("connectEstablished")
      BY <2>1, <3>4, <3>6 DEF Waiting, InBatch
    <3>. QED
      BY <2>1, <3>5, <3>7 DEF EstablishInv, InBatch
  <2>2. CASE doPendingFunctors
    <3>1. functors = <<>> /\ ran = 0 /\ functors' = p /\ p' = <<>> /\ ran' = 0
      BY <2>2 DEF doPendingFunctors, PlaceInv
    <3>. QED
      BY <1>0, <3>1 DEF EstablishInv, Waiting
  <2>3. CASE batchEnds
    <3>1. functors' = <<>> /\ ran' = 0 /\ p' = p
      BY <2>3 DEF batchEnds
    <3>. QED
      BY <1>0, <3>1 DEF EstablishInv, Waiting
  <2>. QED
    BY <2>1, <2>2, <2>3, QueueStep
(* Running it leaves none. *)
<1>2. ASSUME runEstablished PROVE ~Waiting("connectEstablished")'
  <2>1. /\ ran < Len(functors) /\ Est(functors[ran + 1]) /\ ran' = ran + 1
        /\ functors' = functors /\ p' = p
    BY <1>2 DEF runEstablished, runs, next
  <2>2. ran = 0 /\ functors # <<>>
    BY <1>0, <2>1 DEF EstablishInv
  <2>3. \A i \in 1..Len(p') : ~Est(p'[i])
    BY <2>1, <2>2 DEF EstablishInv
  <2>4. \A i \in ran' + 1..Len(functors') : ~Est(functors'[i])
    BY <1>0, <2>1, <2>2 DEF EstablishInv
  <2>. QED
    BY <2>3, <2>4 DEF Waiting
<1>3. Waiting("connectEstablished")' => state_' = "kConnecting" /\ at' # "accept"
  <2> SUFFICES ASSUME Waiting("connectEstablished")'
               PROVE  state_' = "kConnecting" /\ at' # "accept"
    OBVIOUS
  <2>1. state_ = "kConnecting" /\ at # "accept"
    BY <1>1 DEF EstablishInv
  <2>2. ~establishAtOnce /\ ~runEstablished
    BY <1>2, <2>1 DEF establishAtOnce
  <2>. QED
    BY <2>1, <2>2, ConnectingStep
<1>4. at' = "accept" => state_' = "kConnecting"
  BY ConnectingStep DEF EstablishInv
<1>. QED
  BY <1>1, <1>3, <1>4 DEF EstablishInv

OpenedInv == DataOK /\ PlaceInv /\ EstablishInv /\ OpeningInv

(* The inductive invariant that needs no hypothesis on the environment. *)
LEMMA OpenedHolds == Spec => []OpenedInv
<1>1. Init => OpenedInv
  <2> SUFFICES ASSUME Init PROVE OpenedInv
    OBVIOUS
  <2>1. DataOK /\ PlaceInv
    BY InitData
  <2>2. OpeningInv
    BY DEF Init, TcpConnection, Channel, OpeningInv, States, isWriting, Out,
       functor
  <2>3. EstablishInv
    <3>1. state_ = "kConnecting" /\ functors = <<>> /\ ran = 0
      BY DEF Init, TcpConnection
    <3>2. CASE pending_functors_ = <<>>
      BY <3>1, <3>2 DEF EstablishInv, Waiting
    <3>3. CASE at # "accept"
               /\ pending_functors_ = <<functor("connectEstablished")>>
      BY <3>1, <3>3 DEF EstablishInv, Waiting
    <3>. QED
      BY <3>2, <3>3 DEF Init
  <2>. QED
    BY <2>1, <2>2, <2>3 DEF OpenedInv
<1>2. OpenedInv /\ [Next]_vars => OpenedInv'
  BY NextDataOK, NextPlaceInv, NextEstablishInv, NextOpeningInv DEF OpenedInv
<1>. QED
  BY <1>1, <1>2, PTL DEF Spec

-----------------------------------------------------------------------------
(* The connection's phases, while no other thread calls forceClose().       *)

(* Every step keeps the phases in order. *)
LEMMA NextPhaseInv ==
  ASSUME "forceClose" \notin ThreadOps
  PROVE  OpenedInv /\ PhaseInv /\ [Next]_vars => PhaseInv'
<1> SUFFICES ASSUME OpenedInv, PhaseInv, [Next]_vars
             PROVE  PhaseInv'
  OBVIOUS
<1> USE DEF chanVars, dataVars, queueVars, ownVars, userVars, cbVars
<1>0. /\ DataOK /\ PlaceInv /\ EstablishInv /\ OpeningInv
      /\ pc \in [Threads -> Functors] /\ Out.op = "none" /\ state_ \in States
      /\ isOpen <=> state_ \notin {"kConnecting", "kDisconnected"}
  BY DEF OpenedInv, DataOK, OpeningInv, Out, functor, isOpen, States
<1>1. ASSUME UNCHANGED <<state_, events_, pc, output_buffer_, ups, downs>>,
             watched' \cup fed' \subseteq watched \cup fed,
             "read" \in revents_' => "read" \in revents_ \cup fed,
             at' = "message" => at = "message" \/ isOpen
      PROVE  PhaseInv'
  BY <1>1 DEF PhaseInv, isOpen, isWriting
<1>2. ASSUME isOpen, state_' = "kDisconnecting",
             UNCHANGED <<events_, pc, output_buffer_, ups, downs>>
      PROVE  PhaseInv'
  BY <1>2 DEF PhaseInv, isOpen, isWriting
<1>3. ASSUME isOpen, state_' = "kDisconnected", disableAll,
             ups' = ups, downs' = downs + 1, pc' = pc,
             "read" \notin revents_', at' # "message"
      PROVE  PhaseInv'
  BY <1>3 DEF PhaseInv, isOpen, disableAll, update
<1>4. ASSUME state_ # "kDisconnected", UNCHANGED <<state_, pc, at, ups, downs>>,
             (isWriting <=> output_buffer_ # <<>>)
               => (isWriting' <=> output_buffer_' # <<>>)
      PROVE  PhaseInv'
  BY <1>4 DEF PhaseInv, isOpen
<1>5. ASSUME NEW data \in Seq(Nat), sendInLoop(data),
             UNCHANGED <<state_, at, revents_, pc, ups, downs>>
      PROVE  PhaseInv'
  <2>1. CASE state_ = "kDisconnected"
    BY <1>1, <1>5, <2>1 DEF sendInLoop
  <2>2. CASE state_ # "kDisconnected"
    BY <1>0, <1>4, <1>5, <2>2, SendWatches
  <2>. QED
    BY <2>1, <2>2
<1>6. ASSUME NEW data \in Messages, send(data) PROVE PhaseInv'
  <2>1. data \in Seq(Nat)
    BY <1>0, MessagesOK DEF DataOK
  <2>. QED
    BY <1>5, <1>6, <2>1 DEF send
<1>7. ASSUME shutdown \/ forceClose \/ forceCloseWithDelay PROVE PhaseInv'
  BY <1>2, <1>7 DEF shutdown, forceClose, forceCloseWithDelay,
     queueForceClose, isOpen
<1>8. ASSUME handleForceCloseWithDelay PROVE PhaseInv'
  BY <1>1, <1>2, <1>8 DEF handleForceCloseWithDelay, queueForceClose
<1>9. ASSUME NEW t \in Threads, acquire(t) \/ release(t) PROVE PhaseInv'
  BY <1>1, <1>9 DEF acquire, release
<1>10. ASSUME NEW t \in Threads, NEW f, pc' = [pc EXCEPT ![t] = f],
              f.op # "forceClose",
              UNCHANGED <<state_, chanVars, revents_, at, output_buffer_, ups,
                          downs>>
       PROVE  PhaseInv'
  <2>1. \A u \in Threads : pc'[u] = IF u = t THEN f ELSE pc[u]
    BY <1>0, <1>10
  <2>. QED
    BY <1>10, <2>1 DEF PhaseInv, isOpen, isWriting
<1>11. ASSUME NEW t \in Threads, NEW data, sendFrom(t, data) PROVE PhaseInv'
  <2> DEFINE f == [op |-> "send", data |-> data]
  <2>1. f.op # "forceClose" /\ pc' = [pc EXCEPT ![t] = f]
    BY <1>11 DEF sendFrom
  <2> HIDE DEF f
  <2>. QED
    BY <1>10, <1>11, <2>1 DEF sendFrom
<1>12. ASSUME NEW t \in Threads, queueSend(t) PROVE PhaseInv'
  BY <1>0, <1>10, <1>12 DEF queueSend
<1>13. ASSUME NEW t \in Threads, forceCloseFrom(t) \/ setDisconnecting(t)
       PROVE  PhaseInv'
  BY <1>13 DEF forceCloseFrom, setDisconnecting, PhaseInv
<1>14. ASSUME removeConnectionInLoop PROVE PhaseInv'
  BY <1>1, <1>14 DEF removeConnectionInLoop
<1>15. ASSUME connectDestroyed, at \notin {"handle", "message"},
              at' # "message", UNCHANGED <<revents_, pc, output_buffer_>>
       PROVE  PhaseInv'
  <2>1. revents_' = {}
    BY <1>0, <1>15 DEF PlaceInv
  <2>. QED
    BY <1>1, <1>3, <1>15, <2>1 DEF connectDestroyed, remove, isOpen
<1>16. ASSUME destroyServer PROVE PhaseInv'
  BY <1>1, <1>15, <1>16 DEF destroyServer
<1>17. ASSUME connectEstablished, state_ = "kConnecting", at' # "message",
              UNCHANGED <<output_buffer_, pc>>
       PROVE  PhaseInv'
  <2>1. isWriting <=> output_buffer_ # <<>>
    BY <1>0, <1>17 DEF OpeningInv
  <2>. QED
    BY <1>17, <2>1 DEF connectEstablished, enableReading, update, PhaseInv,
       isOpen, isWriting
<1>18. ASSUME establishAtOnce PROVE PhaseInv'
  BY <1>0, <1>17, <1>18 DEF establishAtOnce, EstablishInv
<1>19. ASSUME runEstablished PROVE PhaseInv'
  <2>1. ran + 1 \in ran + 1..Len(functors)
    BY <1>0, <1>19 DEF runEstablished, runs, DataOK
  <2>2. state_ = "kConnecting"
    BY <1>0, <1>19, <2>1 DEF runEstablished, runs, next, EstablishInv, Waiting
  <2>. QED
    BY <1>17, <1>19, <2>2 DEF runEstablished, runs
<1>20. ASSUME NEW events, pollReturns(events) PROVE PhaseInv'
  BY <1>1, <1>20 DEF pollReturns
<1>21. ASSUME handleEvent PROVE PhaseInv'
  BY <1>1, <1>21 DEF handleEvent, ioWatcherCb
<1>22. ASSUME readsNow PROVE isOpen
  BY <1>0, <1>22 DEF readsNow, OpeningInv, PhaseInv
<1>23. ASSUME handleReadMessage \/ messageReturns \/ handleReadError
              \/ handleWriteNothing \/ handleEventReturns
       PROVE  PhaseInv'
  BY <1>1, <1>22, <1>23 DEF handleReadMessage, messageReturns,
     handleReadError, handleWriteNothing, handleEventReturns
<1>24. ASSUME handleReadClose PROVE PhaseInv'
  <2>1. isOpen /\ at' = "handle" /\ "read" \notin revents_'
    BY <1>22, <1>24 DEF handleReadClose, readsNow
  <2>. QED
    BY <1>3, <1>24, <2>1 DEF handleReadClose, handleClose
<1>25. ASSUME NEW n \in 1..MaxBytes, handleWrite(n) PROVE PhaseInv'
  <2>1. state_ # "kDisconnected"
    BY <1>25 DEF handleWrite, isWriting, PhaseInv
  <2>2. UNCHANGED <<state_, pc, at, ups, downs>>
    BY <1>25 DEF handleWrite
  <2>. QED
    BY <1>0, <1>4, <1>25, <2>1, <2>2, WriteWatches
<1>26. ASSUME doPendingFunctors \/ functorReturns \/ batchEnds
              \/ runUserCallback
       PROVE  PhaseInv'
  BY <1>1, <1>26 DEF doPendingFunctors, functorReturns, batchEnds,
     runUserCallback, runs
<1>27. ASSUME runDestroyed PROVE PhaseInv'
  BY <1>15, <1>27 DEF runDestroyed, runs
<1>28. ASSUME runSend PROVE PhaseInv'
  <2>1. next \in Functors
    BY <1>0, <1>28 DEF runSend, runs, DataOK, next
  <2>2. next.data \in Seq(Nat)
    BY <2>1 DEF Functors
  <2>. QED
    BY <1>5, <1>28, <2>2 DEF runSend, runs
<1>29. ASSUME runForceClose PROVE PhaseInv'
  <2>1. at' = "batch" /\ revents_' = {}
    BY <1>0, <1>29 DEF runForceClose, runs, PlaceInv
  <2>. QED
    BY <1>1, <1>3, <1>29, <2>1 DEF runForceClose, runs, forceCloseInLoop,
       handleClose
<1>30. ASSUME UNCHANGED vars PROVE PhaseInv'
  BY <1>1, <1>30 DEF vars
<1>. QED
  BY <1>6, <1>7, <1>8, <1>9, <1>11, <1>12, <1>13, <1>14, <1>16, <1>18, <1>19,
     <1>20, <1>21, <1>23, <1>24, <1>25, <1>26, <1>27, <1>28, <1>29, <1>30
  DEF Next, UserNext, ThreadNext, LoopStep

(* The phases hold in every reachable state. *)
LEMMA PhasesHold ==
  ASSUME "forceClose" \notin ThreadOps
  PROVE  Spec => []PhaseInv
<1>1. Init => PhaseInv
  BY DEF Init, TcpConnection, Channel, PhaseInv, isOpen, Out, functor
<1>2. OpenedInv /\ PhaseInv /\ [Next]_vars => PhaseInv'
  BY NextPhaseInv
<1>. QED
  BY <1>1, <1>2, OpenedHolds, PTL DEF Spec

(* While no other thread calls forceClose(), connection_cb_ is called once   *)
(* up, then at most once down, and message_cb_ only in between, whatever     *)
(* events are pending when the connection closes and whether the server      *)
(* lives.                                                                    *)
THEOREM CallbacksKeepOrder ==
  ASSUME "forceClose" \notin ThreadOps
  PROVE  Spec => []CallbacksInOrder
<1>1. OpenedInv /\ PhaseInv => CallbacksInOrder
  BY DEF OpenedInv, OpeningInv, PhaseInv, CallbacksInOrder, isOpen, States
<1>. QED
  BY <1>1, OpenedHolds, PhasesHold, PTL

(* While no other thread calls forceClose(), an open connection asks for     *)
(* write events exactly while bytes wait in output_buffer_.                  *)
THEOREM WatchesWhatWaits ==
  ASSUME "forceClose" \notin ThreadOps
  PROVE  Spec => []WritingIffWaiting
<1>1. PhaseInv => WritingIffWaiting
  BY DEF PhaseInv, WritingIffWaiting
<1>. QED
  BY <1>1, PhasesHold, PTL

-----------------------------------------------------------------------------
(* The server's list, while no other thread calls forceClose(): as long as   *)
(* the server lives, and what it leaves behind when it is destroyed.         *)

(* A functor that is held after a step was held before it or queued by it. *)
LEMMA HeldStep ==
  ASSUME DataOK, [Next]_vars, NEW op, Held(op)'
  PROVE  Held(op) \/ \E fs \in Seq(Functors) : Pushes(fs) /\ Has(fs, op)
<1>0. Has(pending_functors_', op) \/ Has(functors', op)
  BY DEF Held, Has
<1>1. CASE Pushing /\ InBatch
  <2>1. PICK fs \in Seq(Functors) : Pushes(fs)
    BY <1>1 DEF Pushing
  <2>2. Has(pending_functors_', op) => Has(pending_functors_, op) \/ Has(fs, op)
    BY <2>1, HasConcat DEF Pushes, DataOK
  <2>. QED
    BY <1>0, <1>1, <2>1, <2>2 DEF Held, InBatch
<1>2. CASE doPendingFunctors \/ batchEnds
  <2>1. ~Has(<<>>, op)
    BY DEF Has
  <2>. QED
    BY <1>0, <1>2, <2>1 DEF doPendingFunctors, batchEnds, Held
<1>. QED
  BY <1>1, <1>2, QueueStep

(* What a step does to the list: nothing, or it closes the open connection,  *)
(* or it is the server's functor for a connection that is closed.            *)
ListStays ==
  /\ listed' = listed /\ removals' = removals /\ missed' = missed
  /\ (state_' = "kDisconnected") <=> (state_ = "kDisconnected")

Closes ==
  /\ isOpen /\ state_' = "kDisconnected"
  /\ \/ erase /\ removals' = removals
     \/ UNCHANGED <<listed, missed>> /\ removals' = removals + 1

Erases ==
  /\ removals > 0 /\ removals' = removals - 1
  /\ erase /\ state_' = state_

(* Every step, of the loop, of a thread or of the server, is one of these    *)
(* three.                                                                    *)
LEMMA ListStep ==
  ASSUME "forceClose" \notin ThreadOps,
         OpenedInv, PhaseInv, ListInv, [Next]_vars, server' = TRUE
  PROVE  ListStays \/ Closes \/ Erases
<1> DEFINE Goal == ListStays \/ Closes \/ Erases
<1> USE DEF chanVars, dataVars, queueVars, ownVars, userVars, cbVars
<1>0. /\ DataOK /\ OpeningInv /\ EstablishInv /\ state_ \in States
      /\ isOpen <=> state_ \notin {"kConnecting", "kDisconnected"}
  BY DEF OpenedInv, OpeningInv, isOpen, States
<1>1. ASSUME UNCHANGED <<state_, listed, removals, missed>> PROVE Goal
  BY <1>1 DEF ListStays
<1>2. ASSUME state_ # "kDisconnected", state_' # "kDisconnected",
             UNCHANGED <<listed, removals, missed>>
      PROVE  Goal
  BY <1>2 DEF ListStays
<1>3. ASSUME isOpen, handleClose PROVE Goal
  BY <1>3 DEF handleClose, removeConnection, Closes
<1>4. ASSUME NEW data, send(data) PROVE Goal
  BY <1>1, <1>4 DEF send
<1>5. ASSUME shutdown \/ forceClose \/ forceCloseWithDelay PROVE Goal
  BY <1>2, <1>5 DEF shutdown, forceClose, forceCloseWithDelay,
     queueForceClose, isOpen
<1>6. ASSUME handleForceCloseWithDelay PROVE Goal
  BY <1>1, <1>2, <1>6 DEF handleForceCloseWithDelay, queueForceClose, isOpen
<1>7. ASSUME NEW t \in Threads, acquire(t) \/ release(t) \/ queueSend(t)
      PROVE  Goal
  BY <1>1, <1>7 DEF acquire, release, queueSend
<1>8. ASSUME NEW t \in Threads, NEW data, sendFrom(t, data) PROVE Goal
  BY <1>1, <1>8 DEF sendFrom
<1>9. ASSUME NEW t \in Threads, forceCloseFrom(t) \/ setDisconnecting(t)
      PROVE  Goal
  BY <1>9 DEF forceCloseFrom, setDisconnecting, PhaseInv
<1>10. ASSUME removeConnectionInLoop PROVE Goal
  BY <1>10 DEF removeConnectionInLoop, Erases
<1>11. ASSUME destroyServer PROVE Goal
  BY <1>11 DEF destroyServer
<1>12. ASSUME establishAtOnce PROVE Goal
  BY <1>0, <1>2, <1>12 DEF establishAtOnce, connectEstablished, EstablishInv
<1>13. ASSUME runEstablished PROVE Goal
  <2>1. ran + 1 \in ran + 1..Len(functors)
    BY <1>0, <1>13 DEF runEstablished, runs, DataOK
  <2>2. state_ = "kConnecting"
    BY <1>0, <1>13, <2>1 DEF runEstablished, runs, next, EstablishInv, Waiting
  <2>. QED
    BY <1>2, <1>13, <2>2 DEF runEstablished, connectEstablished
<1>14. ASSUME NEW events, pollReturns(events) PROVE Goal
  BY <1>1, <1>14 DEF pollReturns
<1>15. ASSUME handleEvent \/ handleReadMessage \/ messageReturns
              \/ handleReadError \/ handleWriteNothing \/ handleEventReturns
       PROVE  Goal
  BY <1>1, <1>15 DEF handleEvent, handleReadMessage, messageReturns,
     handleReadError, handleWriteNothing, handleEventReturns
<1>16. ASSUME handleReadClose PROVE Goal
  <2>1. isOpen
    BY <1>0, <1>16 DEF handleReadClose, readsNow, OpeningInv, PhaseInv
  <2>. QED
    BY <1>3, <1>16, <2>1 DEF handleReadClose
<1>17. ASSUME NEW n, handleWrite(n) PROVE Goal
  BY <1>1, <1>17 DEF handleWrite
<1>18. ASSUME doPendingFunctors \/ functorReturns \/ batchEnds
              \/ runUserCallback \/ runSend
       PROVE  Goal
  BY <1>1, <1>18 DEF doPendingFunctors, functorReturns, batchEnds,
     runUserCallback, runSend, runs
<1>19. ASSUME runDestroyed PROVE Goal
  <2>1. ran + 1 \in 1..Len(functors)
    BY <1>0, <1>19 DEF runDestroyed, runs, DataOK
  <2>2. state_ = "kDisconnected"
    BY <1>19, <2>1 DEF runDestroyed, runs, next, Held, Has, ListInv
  <2>. QED
    BY <1>1, <1>19, <2>2 DEF runDestroyed, connectDestroyed
<1>20. ASSUME runForceClose PROVE Goal
  BY <1>1, <1>3, <1>20 DEF runForceClose, forceCloseInLoop
<1>21. ASSUME UNCHANGED vars PROVE Goal
  BY <1>1, <1>21 DEF vars
<1> HIDE DEF Goal
<1>22. Goal
  BY <1>4, <1>5, <1>6, <1>7, <1>8, <1>9, <1>10, <1>11, <1>12, <1>13, <1>14,
     <1>15, <1>16, <1>17, <1>18, <1>19, <1>20, <1>21
  DEF Next, UserNext, ThreadNext, LoopStep
<1>. QED
  BY <1>22 DEF Goal

(* Every step keeps the list and the connection's state in line. *)
LEMMA NextListInv ==
  ASSUME "forceClose" \notin ThreadOps,
         OpenedInv, PhaseInv, ListInv, [Next]_vars, server' = TRUE
  PROVE  ListInv'
<1>1. ListStays \/ Closes \/ Erases
  BY ListStep
<1>2. /\ listed' \in BOOLEAN /\ missed' = FALSE
      /\ state_' # "kDisconnected" => listed' = TRUE /\ removals' = 0
      /\ state_' = "kDisconnected" =>
           \/ listed' = TRUE /\ removals' = 1
           \/ listed' = FALSE /\ removals' = 0
  <2>1. CASE ListStays
    BY <2>1, Zenon DEF ListStays, ListInv
  <2>2. CASE Closes
    <3>1. /\ listed = TRUE /\ removals = 0 /\ state_' = "kDisconnected"
          /\ \/ listed' = FALSE /\ removals' = removals
             \/ listed' = listed /\ removals' = removals + 1
          /\ missed' = FALSE
      BY <2>2, Zenon DEF Closes, ListInv, isOpen, erase
    <3>2. 0 + 1 = 1
      OBVIOUS
    <3>. QED
      BY <3>1, <3>2, Zenon
  <2>3. CASE Erases
    <3>1. removals > 0 /\ removals' = removals - 1
      BY <2>3 DEF Erases
    <3>2. /\ ~(0 > 0) /\ 1 - 1 = 0
      OBVIOUS
    <3>3. removals = 1 /\ listed = TRUE /\ state_ = "kDisconnected"
      BY <3>1, <3>2, Zenon DEF ListInv
    <3>4. /\ listed' = FALSE /\ missed' = FALSE
          /\ state_' = "kDisconnected" /\ removals' = 0
      BY <2>3, <3>1, <3>2, <3>3, Zenon DEF Erases, erase, ListInv
    <3>. QED
      BY <3>4, Zenon
  <2>. QED
    BY <1>1, <2>1, <2>2, <2>3
<1>3. state_ = "kDisconnected" \/ removals > 0 => state_' = "kDisconnected"
  BY <1>1 DEF ListStays, Closes, Erases, ListInv
<1>4. ASSUME Held("connectDestroyed")' PROVE state_' = "kDisconnected"
  <2>1. Held("connectDestroyed") \/ Removes
    BY <1>4, HeldStep DEF OpenedInv, Pushes
  <2>. QED
    BY <1>3, <2>1 DEF ListInv, Removes
<1>. QED
  BY <1>2, <1>4 DEF ListInv

(* What is still to be run is run, and nothing else takes it away. *)
LEMMA WaitsOn ==
  ASSUME DataOK, PlaceInv, [Next]_vars, NEW op, Waiting(op),
         ~(RunsOne /\ next.op = op)
  PROVE  Waiting(op)'
<1> DEFINE p == pending_functors_
<1>0. /\ p \in Seq(Functors) /\ Len(p) \in Nat
      /\ Len(functors) \in Nat /\ ran \in Nat /\ ran <= Len(functors)
  BY DEF DataOK
<1>1. CASE Pushing /\ InBatch
  <2>1. PICK fs \in Seq(Functors) : Pushes(fs)
    BY <1>1 DEF Pushing
  <2>2. /\ Len(fs) \in Nat /\ Len(p') = Len(p) + Len(fs)
        /\ \A i \in 1..Len(p) : p'[i] = p[i]
    BY <1>0, <2>1, HasConcat DEF Pushes
  <2>3. \A i \in 1..Len(p) : i \in 1..Len(p') /\ p'[i] = p[i]
    BY <1>0, <2>2
  <2>4. ASSUME NEW i \in ran + 1..Len(functors), functors[i].op = op
        PROVE  i \in ran' + 1..Len(functors') /\ functors'[i].op = op
    <3>1. CASE ran' = ran
      BY <1>1, <2>4, <3>1 DEF InBatch
    <3>2. CASE RunsOne
      <4>1. i # ran + 1 /\ ran' = ran + 1
        BY <2>4, <3>2 DEF RunsOne, next
      <4>. QED
        BY <1>0, <1>1, <2>4, <4>1 DEF InBatch
    <3>. QED
      BY <1>1, <3>1, <3>2 DEF InBatch
  <2>. QED
    BY <2>3, <2>4 DEF Waiting
<1>2. CASE doPendingFunctors
  <2>1. functors = <<>> /\ ran = 0 /\ functors' = p /\ ran' = 0
    BY <1>2 DEF doPendingFunctors, PlaceInv
  <2>. QED
    BY <1>0, <2>1 DEF Waiting
<1>3. CASE batchEnds
  <2>1. ran = Len(functors) /\ p' = p
    BY <1>3 DEF batchEnds
  <2>. QED
    BY <1>0, <2>1 DEF Waiting
<1>. QED
  BY <1>1, <1>2, <1>3, QueueStep

(* A connection that is on its way down, or is down, does not come up again, *)
(* newConnection on the same loop establishes it before anything else, and   *)
(* only a living server is asked to erase it.                                *)
LEMMA ServerStep ==
  ASSUME OpenedInv, PhaseInv, [Next]_vars
  PROVE  /\ state_' \in {"kConnecting", "kConnected"}
              => state_ \in {"kConnecting", "kConnected"}
         /\ state_' = "kConnecting" => state_ = "kConnecting"
         /\ at = "accept" => at' = "accept" \/ state_' # "kConnecting"
         /\ sameLoop' = sameLoop
         /\ server' = server \/ destroyServer
         /\ server = FALSE => missed' = missed
<1> DEFINE Goal == /\ state_' \in {"kConnecting", "kConnected"}
                        => state_ \in {"kConnecting", "kConnected"}
                   /\ state_' = "kConnecting" => state_ = "kConnecting"
                   /\ at = "accept" => at' = "accept" \/ state_' # "kConnecting"
                   /\ sameLoop' = sameLoop
                   /\ server' = server \/ destroyServer
                   /\ server = FALSE => missed' = missed
<1> USE DEF chanVars, dataVars, queueVars, ownVars, userVars, cbVars
<1>0. DataOK /\ OpeningInv /\ EstablishInv
  BY DEF OpenedInv
<1>1. ASSUME UNCHANGED ownVars,
             state_' \in {state_, "kDisconnecting", "kDisconnected"}
               \/ (state_' = "kConnected" /\ state_ = "kConnecting"),
             at = "accept" => at' = "accept" \/ state_' # "kConnecting"
      PROVE  Goal
  BY <1>1
<1>2. ASSUME handleClose PROVE Goal
  BY <1>2 DEF handleClose
<1>3. ASSUME NEW data, send(data) PROVE Goal
  BY <1>1, <1>3 DEF send
<1>4. ASSUME shutdown \/ forceClose \/ forceCloseWithDelay PROVE Goal
  BY <1>1, <1>4 DEF shutdown, forceClose, forceCloseWithDelay, queueForceClose
<1>5. ASSUME handleForceCloseWithDelay PROVE Goal
  BY <1>1, <1>5 DEF handleForceCloseWithDelay, queueForceClose
<1>6. ASSUME NEW t \in Threads, acquire(t) \/ release(t) \/ queueSend(t)
                                \/ forceCloseFrom(t)
      PROVE  Goal
  BY <1>1, <1>6 DEF acquire, release, queueSend, forceCloseFrom
<1>7. ASSUME NEW t \in Threads, NEW data, sendFrom(t, data) PROVE Goal
  BY <1>1, <1>7 DEF sendFrom
<1>8. ASSUME NEW t \in Threads, setDisconnecting(t) PROVE Goal
  BY <1>8 DEF setDisconnecting, PhaseInv
<1>9. ASSUME removeConnectionInLoop PROVE Goal
  BY <1>9 DEF removeConnectionInLoop
<1>10. ASSUME destroyServer PROVE Goal
  BY <1>10 DEF destroyServer, connectDestroyed
<1>11. ASSUME establishAtOnce PROVE Goal
  BY <1>0, <1>1, <1>11 DEF establishAtOnce, connectEstablished,
     EstablishInv
<1>12. ASSUME runEstablished PROVE Goal
  <2>1. ran + 1 \in ran + 1..Len(functors)
    BY <1>0, <1>12 DEF runEstablished, runs, DataOK
  <2>2. state_ = "kConnecting"
    BY <1>0, <1>12, <2>1 DEF runEstablished, runs, next, EstablishInv, Waiting
  <2>. QED
    BY <1>1, <1>12, <2>2 DEF runEstablished, connectEstablished
<1>13. ASSUME NEW events, pollReturns(events) PROVE Goal
  BY <1>1, <1>13 DEF pollReturns
<1>14. ASSUME handleEvent \/ handleReadMessage \/ messageReturns
              \/ handleReadError \/ handleWriteNothing \/ handleEventReturns
       PROVE  Goal
  BY <1>1, <1>14 DEF handleEvent, handleReadMessage, messageReturns,
     handleReadError, handleWriteNothing, handleEventReturns, readsNow
<1>15. ASSUME handleReadClose PROVE Goal
  BY <1>2, <1>15 DEF handleReadClose
<1>16. ASSUME NEW n, handleWrite(n) PROVE Goal
  BY <1>1, <1>16 DEF handleWrite
<1>17. ASSUME doPendingFunctors \/ functorReturns \/ batchEnds
              \/ runUserCallback \/ runSend
       PROVE  Goal
  BY <1>1, <1>17 DEF doPendingFunctors, functorReturns, batchEnds,
     runUserCallback, runSend, runs
<1>18. ASSUME runDestroyed PROVE Goal
  BY <1>1, <1>18 DEF runDestroyed, runs, connectDestroyed
<1>19. ASSUME runForceClose PROVE Goal
  BY <1>1, <1>2, <1>19 DEF runForceClose, runs, forceCloseInLoop
<1>20. ASSUME UNCHANGED vars PROVE Goal
  BY <1>1, <1>20 DEF vars
<1> HIDE DEF Goal
<1>21. Goal
  BY <1>3, <1>4, <1>5, <1>6, <1>7, <1>8, <1>9, <1>10, <1>11, <1>12, <1>13,
     <1>14, <1>15, <1>16, <1>17, <1>18, <1>19, <1>20
  DEF Next, UserNext, ThreadNext, LoopStep
<1>. QED
  BY <1>21 DEF Goal

(* connectEstablished is run by no step but runEstablished, and              *)
(* connectDestroyed by none but runDestroyed.                                *)
LEMMA OnlyRuns ==
  ASSUME DataOK, [Next]_vars, RunsOne
  PROVE  /\ next.op = "connectEstablished" => runEstablished
         /\ next.op = "connectDestroyed" => runDestroyed
<1> DEFINE Goal == /\ next.op = "connectEstablished" => runEstablished
                   /\ next.op = "connectDestroyed" => runDestroyed
<1> USE DEF chanVars, dataVars, queueVars, ownVars, userVars, cbVars
<1>0. ran' # ran /\ at = "batch" /\ ran # Len(functors)
  BY DEF RunsOne, DataOK
<1>1. ASSUME UNCHANGED ran PROVE Goal
  BY <1>0, <1>1
<1>2. ASSUME NEW data \in Messages, send(data) PROVE Goal
  BY <1>1, <1>2 DEF send
<1>3. ASSUME shutdown \/ forceClose \/ forceCloseWithDelay
             \/ handleForceCloseWithDelay
      PROVE  Goal
  BY <1>1, <1>3 DEF shutdown, forceClose, forceCloseWithDelay,
     queueForceClose, handleForceCloseWithDelay
<1>4. ASSUME NEW t \in Threads, ThreadNext PROVE Goal
  BY <1>1, <1>4 DEF ThreadNext, acquire, release, queueSend, forceCloseFrom,
     setDisconnecting, queueForceClose, sendFrom
<1>5. ASSUME removeConnectionInLoop \/ destroyServer PROVE Goal
  BY <1>1, <1>5 DEF removeConnectionInLoop, destroyServer
<1>6. ASSUME NEW n, establishAtOnce \/ handleEvent \/ messageReturns
             \/ handleReadMessage \/ handleReadClose \/ handleReadError
             \/ handleWrite(n) \/ handleWriteNothing
             \/ handleEventReturns \/ doPendingFunctors
             \/ functorReturns
      PROVE  Goal
  BY <1>0, <1>1, <1>6 DEF establishAtOnce, handleEvent, messageReturns,
     handleReadMessage, handleReadClose, readsNow, handleReadError, handleWrite,
     handleWriteNothing, handleEventReturns, doPendingFunctors, functorReturns
<1>7. ASSUME batchEnds PROVE Goal
  BY <1>0, <1>7 DEF batchEnds
<1>8. ASSUME NEW events, pollReturns(events) PROVE Goal
  BY <1>1, <1>8 DEF pollReturns
<1>9. ASSUME runEstablished \/ runDestroyed \/ runSend \/ runForceClose
             \/ runUserCallback
      PROVE  Goal
  BY <1>9 DEF runEstablished, runDestroyed, runSend, runForceClose,
     runUserCallback, runs, Tidings
<1>10. ASSUME UNCHANGED vars PROVE Goal
  BY <1>1, <1>10 DEF vars
<1> HIDE DEF Goal
<1>11. Goal
  BY <1>2, <1>3, <1>4, <1>5, <1>6, <1>7, <1>8, <1>9, <1>10
  DEF Next, UserNext, ThreadNext, LoopStep
<1>. QED
  BY <1>11 DEF Goal

(* Every step keeps what ServerInv says. *)
LEMMA NextServerInv ==
  ASSUME "forceClose" \notin ThreadOps,
         OpenedInv, PhaseInv, ServerInv, [Next]_vars
  PROVE  ServerInv'
<1>0. /\ DataOK /\ PlaceInv /\ EstablishInv /\ OpeningInv
      /\ server \in BOOLEAN /\ sameLoop \in BOOLEAN /\ missed = FALSE
      /\ ran \in Nat /\ Len(functors) \in Nat
      /\ pending_functors_ \in Seq(Functors)
  BY DEF OpenedInv, ServerInv, DataOK
<1>1. /\ sameLoop' = sameLoop
      /\ state_' = "kConnecting" => state_ = "kConnecting"
      /\ server' = server \/ destroyServer
      /\ server' = TRUE => server = TRUE
  BY <1>0, ServerStep DEF destroyServer
<1>2. server' = TRUE => ListInv'
  BY <1>1, NextListInv DEF ServerInv
<1>3. server' \in BOOLEAN /\ sameLoop' \in BOOLEAN /\ missed' = FALSE
  <2>1. CASE destroyServer
    BY <1>0, <1>1, <2>1 DEF destroyServer
  <2>2. CASE server' = server
    <3>1. server = FALSE => missed' = FALSE
      BY <1>0, ServerStep
    <3>2. server = TRUE => missed' = FALSE
      BY <1>2, <2>2 DEF ListInv
    <3>. QED
      BY <1>0, <1>1, <2>2, <3>1, <3>2
  <2>. QED
    BY <1>1, <2>1, <2>2
<1>4. at' = "accept" => sameLoop' = TRUE /\ server' = TRUE
  <2> SUFFICES ASSUME at' = "accept" PROVE sameLoop' = TRUE /\ server' = TRUE
    OBVIOUS
  <2>1. at = "accept" /\ sameLoop = TRUE /\ server = TRUE
    BY <1>0, ConnectingStep DEF ServerInv
  <2>. QED
    BY <1>1, <2>1 DEF destroyServer
<1>5. state_' = "kConnecting"
        => at' = "accept" \/ (sameLoop' = FALSE /\ Waiting("connectEstablished")')
  <2> SUFFICES ASSUME state_' = "kConnecting", at' # "accept"
               PROVE  sameLoop' = FALSE /\ Waiting("connectEstablished")'
    OBVIOUS
  <2>1. at # "accept"
    BY ServerStep
  <2>2. sameLoop = FALSE /\ Waiting("connectEstablished")
    BY <1>1, <2>1 DEF ServerInv
  <2>3. ~runEstablished
    BY DEF runEstablished, connectEstablished
  <2>. QED
    BY <1>0, <1>1, <2>2, <2>3, WaitsOn, OnlyRuns
<1>6. ASSUME server' = FALSE, state_' \in {"kConnecting", "kConnected"}
      PROVE  Waiting("connectDestroyed")'
  <2>1. state_ \in {"kConnecting", "kConnected"}
    BY <1>6, ServerStep
  <2>2. CASE destroyServer
    <3>1. listed = TRUE
      BY <1>0, <2>1, <2>2 DEF destroyServer, ServerInv, ListInv
    <3>2. ~sameLoop
      <4> SUFFICES ASSUME sameLoop PROVE FALSE
        OBVIOUS
      <4>1. at # "accept" /\ connectDestroyed
        BY <2>2, <3>1 DEF destroyServer
      <4>2. state_ # "kConnecting"
        BY <4>1 DEF ServerInv
      <4>. QED
        BY <1>6, <2>1, <4>1, <4>2 DEF connectDestroyed
    <3>3. push_back(<<functor("connectDestroyed")>>)
      BY <2>2, <3>1, <3>2 DEF destroyServer
    <3>4. /\ functor("connectDestroyed") \in Functors
          /\ functor("connectDestroyed").op = "connectDestroyed"
      BY FunctorOK DEF Ops
    <3>5. Has(pending_functors_', "connectDestroyed")
      BY <1>0, <3>3, <3>4, OneFunctor, HasConcat DEF push_back
    <3>. QED
      BY <3>5 DEF Has, Waiting
  <2>3. CASE server = FALSE
    <3>1. Waiting("connectDestroyed")
      BY <2>1, <2>3 DEF ServerInv
    <3>2. ~(RunsOne /\ next.op = "connectDestroyed")
      <4> SUFFICES ASSUME RunsOne, next.op = "connectDestroyed" PROVE FALSE
        OBVIOUS
      <4>1. runDestroyed
        BY <1>0, OnlyRuns
      <4>2. state_ = "kConnecting"
        BY <1>6, <2>1, <4>1 DEF runDestroyed, connectDestroyed
      <4>3. Waiting("connectEstablished")
        BY <2>3, <4>2 DEF ServerInv
      <4>4. ran < Len(functors) /\ functors[ran + 1].op = "connectDestroyed"
        BY DEF RunsOne, next
      <4>5. functors # <<>>
        BY <1>0, <4>4
      <4>6. PICK i \in ran + 1..Len(functors) :
              functors[i].op = "connectEstablished"
        BY <4>3, <4>5 DEF Waiting, EstablishInv, OpenedInv
      <4>7. i = 1
        BY <1>0, <4>6 DEF EstablishInv
      <4>8. i = ran + 1
        BY <1>0, <4>6, <4>7
      <4>. QED
        BY <4>4, <4>6, <4>8
    <3>. QED
      BY <1>0, <3>1, <3>2, WaitsOn
  <2>. QED
    BY <1>1, <1>6, <2>2, <2>3
<1>. QED
  BY <1>2, <1>3, <1>4, <1>5, <1>6 DEF ServerInv

(* ServerInv holds in every reachable state. *)
LEMMA ServerHolds ==
  ASSUME "forceClose" \notin ThreadOps
  PROVE  Spec => []ServerInv
<1>1. Init => ServerInv
  <2> SUFFICES ASSUME Init PROVE ServerInv
    OBVIOUS
  <2>1. /\ state_ = "kConnecting" /\ functors = <<>> /\ ran = 0
        /\ server = TRUE /\ listed = TRUE /\ removals = 0 /\ missed = FALSE
        /\ \/ pending_functors_ = <<>> /\ at = "accept" /\ sameLoop = TRUE
           \/ /\ pending_functors_ = <<functor("connectEstablished")>>
              /\ at # "accept" /\ sameLoop = FALSE
    BY DEF Init, TcpConnection
  <2>2. ~Held("connectDestroyed")
    <3>1. ~Has(<<functor("connectEstablished")>>, "connectDestroyed")
      BY FunctorOK, OneFunctor DEF Ops
    <3>. QED
      BY <2>1, <3>1, NoFunctor DEF Held
  <2>3. ListInv
    BY <2>1, <2>2 DEF ListInv
  <2>4. at = "accept" \/ (sameLoop = FALSE /\ Waiting("connectEstablished"))
    <3>1. Has(<<functor("connectEstablished")>>, "connectEstablished")
      BY FunctorOK, OneFunctor DEF Ops
    <3>. QED
      BY <2>1, <3>1 DEF Has, Waiting
  <2>. QED
    BY <2>1, <2>3, <2>4 DEF ServerInv
<1>2. OpenedInv /\ PhaseInv /\ ServerInv /\ [Next]_vars => ServerInv'
  BY NextServerInv
<1>. QED
  BY <1>1, <1>2, OpenedHolds, PhasesHold, PTL DEF Spec

(* The DCHECK of removeConnectionInLoop, n == 1, on the connection's own     *)
(* loop and on another: while no other thread forces a close, the connection *)
(* is in connections_ whenever the server erases it.                         *)
THEOREM ErasedOnce ==
  ASSUME "forceClose" \notin ThreadOps
  PROVE  Spec => []RemovedOnce
<1>1. ServerInv => RemovedOnce
  BY DEF ServerInv, RemovedOnce
<1>. QED
  BY <1>1, ServerHolds, PTL

(* The DCHECKs of ~TcpConnection and ~Channel, in the same environment and   *)
(* with the same exception as in DestroyedDisconnected: ~TcpServer, at any   *)
(* time and on another loop than the connection's, has it established before *)
(* it is destroyed, and closed when it was open.                             *)
THEOREM DestroyedWhenClosed ==
  ASSUME "forceClose" \notin ThreadOps
  PROVE  Spec => []DestroyedDisconnected
<1>1. OpenedInv /\ PhaseInv /\ ServerInv => DestroyedDisconnected
  <2> SUFFICES ASSUME OpenedInv, PhaseInv, ServerInv, ~Alive
               PROVE  DestroyedDisconnected
    BY DEF DestroyedDisconnected
  <2>1. state_ = "kDisconnected" => watched = {} /\ fed = {}
    BY DEF PhaseInv
  <2>2. server = TRUE => state_ = "kDisconnected"
    BY DEF ServerInv, ListInv, Alive
  <2>3. ~Waiting("connectDestroyed")
    <3> SUFFICES ASSUME Waiting("connectDestroyed") PROVE FALSE
      OBVIOUS
    <3>1. ran \in Nat /\ Len(functors) \in Nat
      BY DEF OpenedInv, DataOK
    <3>2. Bound(pending_functors_) \/ Bound(functors)
      BY <3>1 DEF Waiting, Bound, Raw
    <3>. QED
      BY <3>2 DEF Alive
  <2>4. server = FALSE => state_ \in {"kDisconnected", "kDisconnecting"}
    BY <2>3 DEF ServerInv, OpenedInv, OpeningInv, States
  <2>. QED
    BY <2>1, <2>2, <2>4 DEF DestroyedDisconnected, ServerInv
<1>. QED
  BY <1>1, OpenedHolds, PhasesHold, ServerHolds, PTL

-----------------------------------------------------------------------------
(* Shutdown, while no other thread calls send(). *)

(* What a step does to the write side: it is closed with everything written, *)
(* or left as it is, and then bytes are taken only while it is open; and a   *)
(* connection that is on its way down does not come up again.                *)
Shuts ==
  /\ fin' = Len(accepted')
  /\ state_ \in {"kConnected", "kDisconnecting"} /\ state_' = "kDisconnecting"

ShutStays ==
  /\ fin' = fin
  /\ accepted' = accepted \/ fin = -1
  /\ state_' \in {"kConnecting", "kConnected"}
       => state_ \in {"kConnecting", "kConnected"}

NoSender == \A t \in Threads : pc[t].op # "send"

(* Every step closes the write side in this way or leaves it alone: the      *)
(* sends are the loop's own, so state_ stands for the FIN that was sent.     *)
LEMMA ShutStep ==
  ASSUME "send" \notin ThreadOps,
         OpenedInv, StreamInOrder, ShutInv, [Next]_vars
  PROVE  (Shuts \/ ShutStays) /\ NoSender'
<1> DEFINE Goal == (Shuts \/ ShutStays) /\ NoSender'
<1> USE DEF chanVars, dataVars, queueVars, ownVars, userVars, cbVars
<1>0. /\ DataOK /\ OpeningInv /\ EstablishInv /\ NoSender
      /\ pc \in [Threads -> Functors] /\ Out.op = "none"
      /\ wire \o output_buffer_ = accepted
      /\ output_buffer_ \in Seq(Nat) /\ wire \in Seq(Nat)
  BY DEF OpenedInv, DataOK, ShutInv, NoSender, Out, functor, StreamInOrder
<1>1. ASSUME UNCHANGED <<fin, accepted, pc>>,
             state_' \in {"kConnecting", "kConnected"}
               => state_ \in {"kConnecting", "kConnected"}
      PROVE  Goal
  BY <1>0, <1>1 DEF ShutStays, NoSender
<1>2. ASSUME NEW t \in Threads, NEW f, pc' = [pc EXCEPT ![t] = f],
             f.op # "send"
      PROVE  NoSender'
  <2>1. \A u \in Threads : pc'[u] = IF u = t THEN f ELSE pc[u]
    BY <1>0, <1>2
  <2>. QED
    BY <1>0, <1>2, <2>1 DEF NoSender
<1>3. ASSUME NEW data, send(data) PROVE Goal
  <2>1. fin = -1
    BY <1>3 DEF send, ShutInv
  <2>. QED
    BY <1>0, <1>3, <2>1 DEF send, ShutStays, NoSender
<1>4. ASSUME shutdown PROVE Goal
  <2>1. CASE isWriting \/ fin # -1
    BY <1>1, <1>4, <2>1 DEF shutdown, shutdownInLoop
  <2>2. CASE ~(isWriting \/ fin # -1)
    <3>1. output_buffer_ = <<>>
      BY <1>0, <1>4, <2>2 DEF shutdown, OpeningInv
    <3>2. accepted' = wire
      BY <1>0, <1>4, <3>1, Streams DEF shutdown
    <3>. QED
      BY <1>0, <1>4, <2>2, <3>2 DEF shutdown, shutdownInLoop, Shuts, NoSender
  <2>. QED
    BY <2>1, <2>2
<1>5. ASSUME forceClose \/ forceCloseWithDelay PROVE Goal
  BY <1>1, <1>5 DEF forceClose, forceCloseWithDelay, queueForceClose
<1>6. ASSUME handleForceCloseWithDelay PROVE Goal
  BY <1>1, <1>6 DEF handleForceCloseWithDelay, queueForceClose
<1>7. ASSUME NEW t \in Threads, acquire(t) \/ release(t) PROVE Goal
  BY <1>1, <1>7 DEF acquire, release
<1>8. ASSUME NEW t \in Threads, NEW data, queueSend(t) \/ sendFrom(t, data)
      PROVE  Goal
  BY <1>0, <1>8 DEF queueSend, sendFrom, NoSender
<1>9. ASSUME NEW t \in Threads, forceCloseFrom(t) PROVE Goal
  <2>1. functor("forceClose").op # "send"
    BY DEF functor
  <2>2. NoSender'
    BY <1>2, <1>9, <2>1 DEF forceCloseFrom
  <2>. QED
    BY <1>9, <2>2 DEF forceCloseFrom, ShutStays
<1>10. ASSUME NEW t \in Threads, setDisconnecting(t) PROVE Goal
  <2>1. NoSender'
    BY <1>0, <1>2, <1>10 DEF setDisconnecting
  <2>. QED
    BY <1>10, <2>1 DEF setDisconnecting, queueForceClose, ShutStays
<1>11. ASSUME removeConnectionInLoop PROVE Goal
  BY <1>1, <1>11 DEF removeConnectionInLoop
<1>12. ASSUME destroyServer PROVE Goal
  BY <1>1, <1>12 DEF destroyServer, connectDestroyed
<1>13. ASSUME establishAtOnce PROVE Goal
  BY <1>0, <1>1, <1>13 DEF establishAtOnce, connectEstablished, EstablishInv
<1>14. ASSUME runEstablished PROVE Goal
  <2>1. ran + 1 \in ran + 1..Len(functors)
    BY <1>0, <1>14 DEF runEstablished, runs, DataOK
  <2>2. state_ = "kConnecting"
    BY <1>0, <1>14, <2>1 DEF runEstablished, runs, next, EstablishInv, Waiting
  <2>. QED
    BY <1>1, <1>14, <2>2 DEF runEstablished, runs
<1>15. ASSUME NEW events, pollReturns(events) PROVE Goal
  BY <1>1, <1>15 DEF pollReturns
<1>16. ASSUME handleEvent \/ handleReadMessage \/ messageReturns
              \/ handleReadError \/ handleWriteNothing \/ handleEventReturns
       PROVE  Goal
  BY <1>1, <1>16 DEF handleEvent, handleReadMessage, messageReturns,
     handleReadError, handleWriteNothing, handleEventReturns
<1>17. ASSUME handleReadClose PROVE Goal
  BY <1>1, <1>17 DEF handleReadClose, handleClose
<1>18. ASSUME NEW n \in 1..MaxBytes, handleWrite(n) PROVE Goal
  <2>1. /\ UNCHANGED <<state_, accepted, pc>>
        /\ fin' = fin \/ /\ n = Len(output_buffer_) /\ fin' = Len(wire')
                         /\ state_ = "kDisconnecting"
    BY <1>18 DEF handleWrite, shutdownAfterWrite
  <2>2. CASE fin' = fin
    BY <1>1, <2>1, <2>2
  <2>3. CASE /\ n = Len(output_buffer_) /\ fin' = Len(wire')
             /\ state_ = "kDisconnecting"
    <3>1. /\ output_buffer_' \in Seq(Nat) /\ wire' \in Seq(Nat)
          /\ Len(output_buffer_') = Len(output_buffer_) - n
          /\ wire' \o output_buffer_' = wire \o output_buffer_
      BY <1>0, <1>18, WriteMoves
    <3>2. Len(output_buffer_) \in Nat
      BY <1>0
    <3>3. output_buffer_' = <<>>
      BY <2>3, <3>1, <3>2
    <3>4. wire' = accepted'
      BY <1>0, <2>1, <3>1, <3>3, Streams
    <3>. QED
      BY <1>0, <2>1, <2>3, <3>4 DEF Shuts, NoSender
  <2>. QED
    BY <2>1, <2>2, <2>3
<1>19. ASSUME doPendingFunctors \/ functorReturns \/ batchEnds
              \/ runUserCallback
       PROVE  Goal
  BY <1>1, <1>19 DEF doPendingFunctors, functorReturns, batchEnds,
     runUserCallback, runs
<1>20. ASSUME runDestroyed PROVE Goal
  BY <1>1, <1>20 DEF runDestroyed, runs, connectDestroyed
<1>21. ASSUME runSend PROVE Goal
  <2>1. ran + 1 \in 1..Len(functors)
    BY <1>0, <1>21 DEF runSend, runs, DataOK
  <2>. QED
    BY <1>21, <2>1 DEF runSend, runs, next, Held, Has, ShutInv
<1>22. ASSUME runForceClose PROVE Goal
  BY <1>1, <1>22 DEF runForceClose, runs, forceCloseInLoop, handleClose
<1>23. ASSUME UNCHANGED vars PROVE Goal
  BY <1>1, <1>23 DEF vars
<1> HIDE DEF Goal
<1>24. Goal
  BY <1>3, <1>4, <1>5, <1>6, <1>7, <1>8, <1>9, <1>10, <1>11, <1>12, <1>13,
     <1>14, <1>15, <1>16, <1>17, <1>18, <1>19, <1>20, <1>21, <1>22, <1>23
  DEF Next, UserNext, ThreadNext, LoopStep
<1>. QED
  BY <1>24 DEF Goal

(* While no other thread calls send(), shutdown() closes the write side when *)
(* everything sendInLoop took is written, at once or after the last write,   *)
(* and nothing is taken after that.                                          *)
THEOREM ShutdownLast ==
  ASSUME "send" \notin ThreadOps
  PROVE  Spec => []ShutdownAfterData
<1> DEFINE Inv == ShutInv /\ ShutdownAfterData
<1>1. Init => Inv
  <2> SUFFICES ASSUME Init PROVE Inv
    OBVIOUS
  <2>1. /\ fin = -1 /\ functors = <<>> /\ pc = [t \in Threads |-> Out]
        /\ \/ pending_functors_ = <<>>
           \/ pending_functors_ = <<functor("connectEstablished")>>
    BY DEF Init, TcpConnection
  <2>2. ~Held("send")
    <3>1. ~Has(<<>>, "send")
      BY DEF Has
    <3>2. ~Has(<<functor("connectEstablished")>>, "send")
      BY FunctorOK, OneFunctor DEF Ops
    <3>. QED
      BY <2>1, <3>1, <3>2 DEF Held
  <2>. QED
    BY <2>1, <2>2 DEF ShutInv, ShutdownAfterData, Out, functor
<1>2. OpenedInv /\ StreamInOrder /\ Inv /\ [Next]_vars => Inv'
  <2> SUFFICES ASSUME OpenedInv, StreamInOrder, Inv, [Next]_vars PROVE Inv'
    OBVIOUS
  <2>1. (Shuts \/ ShutStays) /\ NoSender'
    BY ShutStep
  <2>2. ~Held("send")'
    BY HeldStep DEF OpenedInv, Pushes, ShutInv
  <2>3. /\ fin' # -1 => state_' \notin {"kConnecting", "kConnected"}
        /\ fin' # -1 => Len(accepted') = fin'
    BY <2>1 DEF Shuts, ShutStays, ShutInv, ShutdownAfterData
  <2>. QED
    BY <2>1, <2>2, <2>3 DEF NoSender, ShutInv, ShutdownAfterData
<1>. QED
  BY <1>1, <1>2, OpenedHolds, StreamKept, PTL DEF Spec

==============================================================================

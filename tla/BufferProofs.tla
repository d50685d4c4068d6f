---------------------------- MODULE BufferProofs ----------------------------
(* Proofs about nev::Buffer: for every size of byte, of prepend room, of     *)
(* initial room and of readFd's stack buffer, its indices stay in order and  *)
(* its content is a queue of bytes.                                          *)
EXTENDS Buffer, SequenceTheorems, TLAPS

-----------------------------------------------------------------------------
(* The helpers on vectors. *)

(* The constants are natural numbers.                                        *)
LEMMA Sizes ==
  kCheapPrepend \in Nat /\ kInitialSize \in Nat /\ ExtraBuf \in Nat
BY BufferAssumption

(* A function on 1..n is a sequence of length n.                             *)
LEMMA FunctionIsSeq ==
  ASSUME NEW S, NEW n \in Nat, NEW f \in [1..n -> S]
  PROVE  f \in Seq(S) /\ Len(f) = n
BY SMT

(* The bytes between two positions of the vector.                            *)
LEMMA BytesAtIs ==
  ASSUME NEW c, BufferOK(c), NEW lo \in Nat, NEW hi \in Nat,
         lo <= hi, hi <= Len(c.buffer_)
  PROVE  /\ bytesAt(c, lo, hi) \in Seq(Byte)
         /\ Len(bytesAt(c, lo, hi)) = hi - lo
         /\ \A i \in 1..(hi - lo) : bytesAt(c, lo, hi)[i] = c.buffer_[lo + i]
<1> DEFINE n == hi - lo
           f == [i \in 1..n |-> c.buffer_[lo + i]]
<1>1. n \in Nat /\ c.buffer_ \in Seq(Byte)
  BY DEF BufferOK
<1>2. f \in [1..n -> Byte]
  BY <1>1
<1>3. f \in Seq(Byte) /\ Len(f) = n
  BY <1>1, <1>2, FunctionIsSeq
<1> QED BY <1>3 DEF bytesAt

BytesHeld(c, lo, hi) ==
  /\ bytesAt(c, lo, hi) \in Seq(Byte) /\ Len(bytesAt(c, lo, hi)) = hi - lo
  /\ \A i \in 1..(hi - lo) : bytesAt(c, lo, hi)[i] = c.buffer_[lo + i]

(* ... as one predicate.                                                     *)
LEMMA BytesAreHeld ==
  ASSUME NEW c, BufferOK(c), NEW lo \in Nat, NEW hi \in Nat,
         lo <= hi, hi <= Len(c.buffer_)
  PROVE  BytesHeld(c, lo, hi)
BY BytesAtIs DEF BytesHeld

(* The content of a Buffer.                                                  *)
LEMMA ContentIs ==
  ASSUME NEW c, BufferOK(c)
  PROVE  /\ Content(c) \in Seq(Byte)
         /\ Len(Content(c)) = readableBytes(c)
         /\ \A i \in 1..readableBytes(c) :
              Content(c)[i] = c.buffer_[c.readerIndex_ + i]
BY BytesAtIs DEF BufferOK, Content, readableBytes

(* std::copy changes the copied range only.                                  *)
LEMMA CopiedIs ==
  ASSUME NEW buf \in Seq(Byte), NEW at \in Nat, NEW data \in Seq(Byte),
         at + Len(data) <= Len(buf)
  PROVE  /\ copied(buf, at, data) \in Seq(Byte)
         /\ Len(copied(buf, at, data)) = Len(buf)
         /\ \A i \in 1..Len(buf) : copied(buf, at, data)[i] =
              IF i \in (at + 1)..(at + Len(data)) THEN data[i - at] ELSE buf[i]
<1> DEFINE n == Len(buf)
           f == [i \in 1..n |->
                   IF i \in (at + 1)..(at + Len(data)) THEN data[i - at] ELSE buf[i]]
<1>1. n \in Nat /\ f \in [1..n -> Byte]
  OBVIOUS
<1>2. f \in Seq(Byte) /\ Len(f) = n
  BY <1>1, FunctionIsSeq
<1> QED BY <1>2 DEF copied

(* vector::resize keeps the elements that were there.                        *)
LEMMA ResizedIs ==
  ASSUME NEW buf \in Seq(Byte), NEW n \in Nat
  PROVE  /\ resized(buf, n) \in Seq(Byte)
         /\ Len(resized(buf, n)) = n
         /\ \A i \in 1..n : i <= Len(buf) => resized(buf, n)[i] = buf[i]
<1> DEFINE f == [i \in 1..n |-> IF i <= Len(buf) THEN buf[i] ELSE Zero]
<1>1. f \in [1..n -> Byte]
  BY BufferAssumption
<1>2. f \in Seq(Byte) /\ Len(f) = n
  BY <1>1, FunctionIsSeq
<1> QED BY <1>2 DEF resized

(* A sequence is its two parts.                                              *)
LEMMA SplitIs ==
  ASSUME NEW s \in Seq(Byte), NEW n \in 0..Len(s)
  PROVE  SubSeq(s, 1, n) \o SubSeq(s, n + 1, Len(s)) = s
<1>1. 1 \in 1..(Len(s) + 1) /\ n \in (1 - 1)..Len(s) /\ Len(s) \in n..Len(s)
  OBVIOUS
<1>2. SubSeq(s, 1, n) \o SubSeq(s, n + 1, Len(s)) = SubSeq(s, 1, Len(s))
  BY <1>1, ConcatAdjacentSubSeq
<1> QED BY <1>2, SubSeqFull

(* Concatenation of byte sequences is associative.                           *)
LEMMA ConcatIsAssociative ==
  ASSUME NEW s \in Seq(Byte), NEW t \in Seq(Byte), NEW u \in Seq(Byte)
  PROVE  (s \o t) \o u = s \o (t \o u)
BY ConcatAssociative

-----------------------------------------------------------------------------
(* Making room. *)

(* A new Buffer is empty and has the room it was asked for.                  *)
LEMMA NewBufferIs ==
  /\ BufferOK(NewBuffer)
  /\ Content(NewBuffer) = <<>>
  /\ NewBuffer.readerIndex_ = kCheapPrepend
  /\ NewBuffer.writerIndex_ = kCheapPrepend
<1> DEFINE n == kCheapPrepend + kInitialSize
           f == [i \in 1..n |-> Zero]
<1>1. n \in Nat /\ f \in [1..n -> Byte]
  BY BufferAssumption
<1>2. f \in Seq(Byte) /\ Len(f) = n
  BY <1>1, FunctionIsSeq
<1>3. BufferOK(NewBuffer)
  BY <1>2, BufferAssumption DEF BufferOK, NewBuffer
<1>4. readableBytes(NewBuffer) = 0
  BY BufferAssumption DEF NewBuffer, readableBytes
<1>5. Content(NewBuffer) = <<>>
  BY <1>3, <1>4, ContentIs
<1> QED BY <1>3, <1>5 DEF NewBuffer

(* Growing keeps indices and content.                                        *)
LEMMA GrownIs ==
  ASSUME NEW c, BufferOK(c), NEW len \in Nat, writableBytes(c) < len
  PROVE  /\ BufferOK(grown(c, len))
         /\ Content(grown(c, len)) = Content(c)
         /\ grown(c, len).readerIndex_ = c.readerIndex_
         /\ grown(c, len).writerIndex_ = c.writerIndex_
         /\ Len(grown(c, len).buffer_) = c.writerIndex_ + len
<1> DEFINE g == grown(c, len)
<1>1. /\ c.buffer_ \in Seq(Byte)
      /\ c.writerIndex_ + len \in Nat
      /\ Len(c.buffer_) < c.writerIndex_ + len
  BY DEF BufferOK, writableBytes
<1>2. /\ g.buffer_ = resized(c.buffer_, c.writerIndex_ + len)
      /\ g.readerIndex_ = c.readerIndex_
      /\ g.writerIndex_ = c.writerIndex_
      /\ g = [buffer_ |-> g.buffer_, readerIndex_ |-> c.readerIndex_,
              writerIndex_ |-> c.writerIndex_]
  BY DEF grown, BufferOK
<1>3. /\ g.buffer_ \in Seq(Byte)
      /\ Len(g.buffer_) = c.writerIndex_ + len
      /\ \A i \in 1..(c.writerIndex_ + len) :
           i <= Len(c.buffer_) => g.buffer_[i] = c.buffer_[i]
  BY <1>1, <1>2, ResizedIs
<1>4. BufferOK(g)
  BY <1>1, <1>2, <1>3, Sizes DEF BufferOK
<1>5. readableBytes(g) = readableBytes(c)
  BY <1>2 DEF readableBytes
<1>6. \A i \in 1..readableBytes(c) : Content(g)[i] = Content(c)[i]
  <2> SUFFICES ASSUME NEW i \in 1..readableBytes(c)
               PROVE  Content(g)[i] = Content(c)[i]
    OBVIOUS
  <2>1. Content(g)[i] = g.buffer_[c.readerIndex_ + i]
    BY <1>2, <1>4, <1>5, ContentIs
  <2>2. Content(c)[i] = c.buffer_[c.readerIndex_ + i]
    BY ContentIs
  <2>3. /\ c.readerIndex_ + i \in 1..(c.writerIndex_ + len)
        /\ c.readerIndex_ + i <= Len(c.buffer_)
    BY DEF BufferOK, readableBytes
  <2> QED BY <1>3, <2>1, <2>2, <2>3
<1>7. Content(g) = Content(c)
  BY <1>4, <1>5, <1>6, ContentIs, SeqEqual
<1> HIDE DEF g
<1> QED BY <1>2, <1>3, <1>4, <1>7 DEF g

(* Moving the content to the front keeps it.                                 *)
LEMMA MovedIs ==
  ASSUME NEW c, BufferOK(c), kCheapPrepend + readableBytes(c) <= Len(c.buffer_)
  PROVE  /\ BufferOK(movedToFront(c))
         /\ Content(movedToFront(c)) = Content(c)
         /\ movedToFront(c).readerIndex_ = kCheapPrepend
         /\ movedToFront(c).writerIndex_ = kCheapPrepend + readableBytes(c)
         /\ Len(movedToFront(c).buffer_) = Len(c.buffer_)
<1> DEFINE g == movedToFront(c)
<1>1. /\ c.buffer_ \in Seq(Byte)
      /\ Content(c) \in Seq(Byte)
      /\ Len(Content(c)) = readableBytes(c)
      /\ readableBytes(c) \in Nat
      /\ kCheapPrepend \in Nat
  <2>1. Content(c) \in Seq(Byte) /\ Len(Content(c)) = readableBytes(c)
    BY ContentIs
  <2> QED BY <2>1, Sizes DEF BufferOK, readableBytes
<1>2. /\ g.buffer_ = copied(c.buffer_, kCheapPrepend, Content(c))
      /\ g.readerIndex_ = kCheapPrepend
      /\ g.writerIndex_ = kCheapPrepend + readableBytes(c)
  BY DEF movedToFront
<1>3. /\ g.buffer_ \in Seq(Byte)
      /\ Len(g.buffer_) = Len(c.buffer_)
      /\ \A i \in 1..Len(c.buffer_) : g.buffer_[i] =
           IF i \in (kCheapPrepend + 1)..(kCheapPrepend + readableBytes(c))
           THEN Content(c)[i - kCheapPrepend] ELSE c.buffer_[i]
  BY <1>1, <1>2, CopiedIs
<1>4. BufferOK(g)
  BY <1>1, <1>2, <1>3 DEF BufferOK, movedToFront
<1>5. readableBytes(g) = readableBytes(c)
  BY <1>1, <1>2 DEF readableBytes
<1>6. \A i \in 1..readableBytes(c) : Content(g)[i] = Content(c)[i]
  <2> SUFFICES ASSUME NEW i \in 1..readableBytes(c)
               PROVE  Content(g)[i] = Content(c)[i]
    OBVIOUS
  <2>1. Content(g)[i] = g.buffer_[kCheapPrepend + i]
    BY <1>2, <1>4, <1>5, ContentIs
  <2>2. g.buffer_[kCheapPrepend + i] = Content(c)[i]
    <3>1. /\ kCheapPrepend + i \in 1..Len(c.buffer_)
          /\ kCheapPrepend + i \in (kCheapPrepend + 1)..(kCheapPrepend + readableBytes(c))
          /\ (kCheapPrepend + i) - kCheapPrepend = i
      BY <1>1
    <3> QED BY <1>3, <3>1
  <2> QED BY <2>1, <2>2
<1>7. Content(g) = Content(c)
  BY <1>4, <1>5, <1>6, ContentIs, SeqEqual
<1> HIDE DEF g
<1> QED BY <1>2, <1>3, <1>4, <1>7 DEF g

(* ensureWritableBytes keeps the content and finds the room: the DCHECK at   *)
(* its end holds.  It never shrinks the vector and grows it only when the    *)
(* bytes already read would not be room enough.                              *)
LEMMA EnsureIs ==
  ASSUME NEW c, BufferOK(c), NEW len \in Nat
  PROVE  /\ BufferOK(ensureWritableBytes(c, len))
         /\ Content(ensureWritableBytes(c, len)) = Content(c)
         /\ len <= writableBytes(ensureWritableBytes(c, len))
         /\ ensureWritableBytes(c, len).readerIndex_ \in {c.readerIndex_, kCheapPrepend}
         /\ \/ Len(ensureWritableBytes(c, len).buffer_) = Len(c.buffer_)
            \/ /\ Len(ensureWritableBytes(c, len).buffer_) = c.writerIndex_ + len
               /\ ensureWritableBytes(c, len).readerIndex_ = c.readerIndex_
               /\ ensureWritableBytes(c, len).writerIndex_ = c.writerIndex_
               /\ mustGrow(c, len)
<1> DEFINE e == ensureWritableBytes(c, len)
<1>1. CASE len <= writableBytes(c)
  <2>1. e = c
    BY <1>1 DEF ensureWritableBytes, writableBytes, BufferOK
  <2> HIDE DEF e
  <2> QED BY <1>1, <2>1 DEF e
<1>2. CASE writableBytes(c) < len /\ mustGrow(c, len)
  <2>1. e = grown(c, len)
    BY <1>2 DEF ensureWritableBytes, makeSpace
  <2> HIDE DEF e
  <2>2. /\ BufferOK(e) /\ Content(e) = Content(c)
        /\ e.readerIndex_ = c.readerIndex_ /\ e.writerIndex_ = c.writerIndex_
        /\ Len(e.buffer_) = c.writerIndex_ + len
    BY <1>2, <2>1, GrownIs
  <2>3. len <= writableBytes(e)
    BY <2>2 DEF writableBytes, BufferOK
  <2> QED BY <1>2, <2>2, <2>3 DEF e
<1>3. CASE writableBytes(c) < len /\ ~mustGrow(c, len)
  <2>1. e = movedToFront(c)
    BY <1>3 DEF ensureWritableBytes, makeSpace
  <2> HIDE DEF e
  <2>2. /\ kCheapPrepend + readableBytes(c) + len <= Len(c.buffer_)
        /\ readableBytes(c) \in Nat /\ Len(c.buffer_) \in Nat
    BY <1>3, Sizes
    DEF mustGrow, writableBytes, prependableBytes, readableBytes, BufferOK
  <2>3. kCheapPrepend + readableBytes(c) <= Len(c.buffer_)
    BY <2>2, Sizes
  <2>4. /\ BufferOK(e) /\ Content(e) = Content(c)
        /\ e.readerIndex_ = kCheapPrepend
        /\ e.writerIndex_ = kCheapPrepend + readableBytes(c)
        /\ Len(e.buffer_) = Len(c.buffer_)
    BY <2>1, <2>3, MovedIs
  <2>5. len <= writableBytes(e)
    BY <2>2, <2>4, Sizes DEF writableBytes
  <2> QED BY <2>4, <2>5 DEF e
<1>4. writableBytes(c) \in Int
  BY DEF writableBytes, BufferOK
<1> QED BY <1>1, <1>2, <1>3, <1>4

(* makeSpace moves the content only when bytes before it were already read:  *)
(* its DCHECK holds.                                                         *)
LEMMA MoveIsToTheFront ==
  ASSUME NEW c, BufferOK(c), NEW len \in Nat,
         writableBytes(c) < len, ~mustGrow(c, len)
  PROVE  kCheapPrepend < c.readerIndex_
BY Sizes DEF mustGrow, writableBytes, prependableBytes, BufferOK

-----------------------------------------------------------------------------
(* Putting bytes in. *)

(* Bytes written at beginWrite() follow the content.                         *)
LEMMA WrittenIs ==
  ASSUME NEW c, BufferOK(c), NEW data \in Seq(Byte), Len(data) <= writableBytes(c)
  PROVE  /\ BufferOK(written(c, data))
         /\ Content(written(c, data)) = Content(c) \o data
         /\ written(c, data).readerIndex_ = c.readerIndex_
         /\ written(c, data).writerIndex_ = c.writerIndex_ + Len(data)
         /\ Len(written(c, data).buffer_) = Len(c.buffer_)
<1> DEFINE g == written(c, data)
<1>1. /\ c.buffer_ \in Seq(Byte) /\ Len(data) \in Nat
      /\ c.writerIndex_ \in Nat /\ c.readerIndex_ \in Nat
      /\ Len(c.buffer_) \in Nat
      /\ c.readerIndex_ <= c.writerIndex_
      /\ c.writerIndex_ + Len(data) <= Len(c.buffer_)
  BY DEF BufferOK, writableBytes
<1>2. /\ g.buffer_ = copied(c.buffer_, c.writerIndex_, data)
      /\ g.readerIndex_ = c.readerIndex_
      /\ g.writerIndex_ = c.writerIndex_ + Len(data)
      /\ g = [buffer_ |-> g.buffer_, readerIndex_ |-> g.readerIndex_,
              writerIndex_ |-> g.writerIndex_]
  <2>1. c \in [buffer_ : Seq(Byte), readerIndex_ : Nat, writerIndex_ : Nat]
    BY DEF BufferOK
  <2> DEFINE buf == copied(c.buffer_, c.writerIndex_, data)
             wi == c.writerIndex_ + Len(data)
  <2>2. g = [c EXCEPT !.buffer_ = buf, !.writerIndex_ = wi]
    BY DEF written
  <2> HIDE DEF g, buf, wi
  <2>3. g = [buffer_ |-> buf, readerIndex_ |-> c.readerIndex_, writerIndex_ |-> wi]
    BY <2>1, <2>2
  <2>4. g.buffer_ = buf /\ g.readerIndex_ = c.readerIndex_ /\ g.writerIndex_ = wi
    BY <2>3
  <2> QED BY <2>3, <2>4 DEF buf, wi
<1> HIDE DEF g
<1>3. /\ g.buffer_ \in Seq(Byte)
      /\ Len(g.buffer_) = Len(c.buffer_)
      /\ \A i \in 1..Len(c.buffer_) : g.buffer_[i] =
           IF i \in (c.writerIndex_ + 1)..(c.writerIndex_ + Len(data))
           THEN data[i - c.writerIndex_] ELSE c.buffer_[i]
  BY <1>1, <1>2, CopiedIs
<1>4. BufferOK(g)
  BY <1>1, <1>2, <1>3, Sizes DEF BufferOK
<1>5. /\ readableBytes(g) = readableBytes(c) + Len(data)
      /\ readableBytes(c) \in Nat
      /\ c.writerIndex_ = c.readerIndex_ + readableBytes(c)
  BY <1>1, <1>2 DEF readableBytes
<1>6. /\ Content(c) \in Seq(Byte) /\ Len(Content(c)) = readableBytes(c)
      /\ Content(g) \in Seq(Byte) /\ Len(Content(g)) = readableBytes(g)
  BY <1>4, ContentIs
<1> DEFINE s == Content(c) \o data
<1>7. /\ s \in Seq(Byte)
      /\ Len(s) = readableBytes(c) + Len(data)
      /\ \A i \in 1..(readableBytes(c) + Len(data)) : s[i] =
           IF i <= readableBytes(c) THEN Content(c)[i] ELSE data[i - readableBytes(c)]
  <2>1. /\ s \in Seq(Byte)
        /\ Len(s) = Len(Content(c)) + Len(data)
        /\ \A i \in 1..(Len(Content(c)) + Len(data)) : s[i] =
             IF i <= Len(Content(c)) THEN Content(c)[i] ELSE data[i - Len(Content(c))]
    BY <1>6, ConcatProperties
  <2> HIDE DEF s
  <2> QED BY <1>6, <2>1
<1> HIDE DEF s
<1>8. ASSUME NEW i \in 1..(readableBytes(c) + Len(data))
      PROVE  Content(g)[i] = s[i]
  <2>1. Content(g)[i] = g.buffer_[c.readerIndex_ + i]
    BY <1>2, <1>4, <1>5, ContentIs
  <2>2. c.readerIndex_ + i \in 1..Len(c.buffer_)
    <3>1. PICK r \in Nat, n \in Nat, d \in Nat, l \in Nat :
            /\ r = c.readerIndex_ /\ n = readableBytes(c)
            /\ d = Len(data) /\ l = Len(c.buffer_)
      BY <1>1, <1>5
    <3>2. (r + n) + d <= l /\ i \in 1..(n + d)
      BY <1>1, <1>5, <3>1
    <3>3. r + i \in 1..l
      BY <3>2
    <3> QED BY <3>1, <3>3
  <2>3. CASE i <= readableBytes(c)
    <3>1. Content(c)[i] = c.buffer_[c.readerIndex_ + i]
      BY <1>5, <2>3, ContentIs
    <3>2. c.readerIndex_ + i <= c.writerIndex_
      BY <1>1, <1>5, <2>3
    <3> QED BY <1>1, <1>3, <1>7, <2>1, <2>2, <2>3, <3>1, <3>2
  <2>4. CASE readableBytes(c) < i
    <3>1. /\ c.readerIndex_ + i \in (c.writerIndex_ + 1)..(c.writerIndex_ + Len(data))
          /\ (c.readerIndex_ + i) - c.writerIndex_ = i - readableBytes(c)
      <4>1. PICK r \in Nat, w \in Nat, n \in Nat, l \in Nat :
              /\ r = c.readerIndex_ /\ w = c.writerIndex_
              /\ n = readableBytes(c) /\ l = Len(data)
        BY <1>1, <1>5
      <4>2. w = r + n /\ n < i /\ i <= n + l /\ i \in Nat
        BY <1>5, <2>4, <4>1
      <4>3. r + i \in (w + 1)..(w + l) /\ (r + i) - w = i - n
        BY <4>2
      <4> QED BY <4>1, <4>3
    <3>2. g.buffer_[c.readerIndex_ + i] = data[i - readableBytes(c)]
      BY <1>3, <2>2, <3>1
    <3>3. s[i] = data[i - readableBytes(c)]
      BY <1>5, <1>7, <2>4
    <3> QED BY <2>1, <3>2, <3>3
  <2> QED BY <1>5, <2>3, <2>4
<1>9. Content(g) = s
  BY <1>5, <1>6, <1>7, <1>8, SeqEqual
<1> QED BY <1>2, <1>3, <1>4, <1>9 DEF g, s

(* append puts its data after the content, and grows the vector only when it *)
(* must.                                                                     *)
LEMMA AppendIs ==
  ASSUME NEW c, BufferOK(c), NEW data \in Seq(Byte)
  PROVE  /\ BufferOK(append(c, data))
         /\ Content(append(c, data)) = Content(c) \o data
         /\ append(c, data).readerIndex_ \in {c.readerIndex_, kCheapPrepend}
         /\ \/ Len(append(c, data).buffer_) = Len(c.buffer_)
            \/ /\ Len(append(c, data).buffer_) = c.writerIndex_ + Len(data)
               /\ append(c, data).readerIndex_ = c.readerIndex_
               /\ append(c, data).writerIndex_ = c.writerIndex_ + Len(data)
               /\ mustGrow(c, Len(data))
<1> DEFINE e == ensureWritableBytes(c, Len(data))
<1>1. Len(data) \in Nat
  OBVIOUS
<1>2. /\ BufferOK(e) /\ Content(e) = Content(c) /\ Len(data) <= writableBytes(e)
      /\ e.readerIndex_ \in {c.readerIndex_, kCheapPrepend}
      /\ \/ Len(e.buffer_) = Len(c.buffer_)
         \/ /\ Len(e.buffer_) = c.writerIndex_ + Len(data)
            /\ e.readerIndex_ = c.readerIndex_ /\ e.writerIndex_ = c.writerIndex_
            /\ mustGrow(c, Len(data))
  BY <1>1, EnsureIs
<1> HIDE DEF e
<1>3. append(c, data) = written(e, data)
  BY DEF append, e
<1>4. /\ BufferOK(written(e, data))
      /\ Content(written(e, data)) = Content(e) \o data
      /\ written(e, data).readerIndex_ = e.readerIndex_
      /\ written(e, data).writerIndex_ = e.writerIndex_ + Len(data)
      /\ Len(written(e, data).buffer_) = Len(e.buffer_)
  BY <1>2, WrittenIs
<1> QED BY <1>2, <1>3, <1>4
(* Data read beyond the writable bytes goes through extrabuf, and still      *)
(* follows the content.                                                      *)
LEMMA ReadFdIs ==
  ASSUME NEW c, BufferOK(c), NEW data \in Seq(Byte)
  PROVE  /\ BufferOK(readFd(c, data))
         /\ Content(readFd(c, data)) = Content(c) \o data
         /\ readFd(c, data).readerIndex_ \in {c.readerIndex_, kCheapPrepend}
         /\ \/ Len(readFd(c, data).buffer_) = Len(c.buffer_)
            \/ \E full, len \in Nat :
                 /\ full = Len(c.buffer_)
                 /\ Len(readFd(c, data).buffer_) = full + len
                 /\ readFd(c, data).readerIndex_ = c.readerIndex_
                 /\ c.readerIndex_ < len + kCheapPrepend
<1> DEFINE room == writableBytes(c)
<1>1. room \in Nat /\ Len(data) \in Nat
  BY DEF BufferOK, writableBytes
<1>2. CASE Len(data) <= room
  <2>1. readFd(c, data) = written(c, data)
    BY <1>2 DEF readFd
  <2> QED BY <1>2, <2>1, WrittenIs
<1>3. CASE room < Len(data)
  <2> DEFINE d1 == SubSeq(data, 1, room)
             d2 == SubSeq(data, room + 1, Len(data))
             c1 == written(c, d1)
  <2>1. readFd(c, data) = append(c1, d2)
    BY <1>1, <1>3 DEF readFd
  <2> HIDE DEF room
  <2>2. /\ d1 \in Seq(Byte) /\ Len(d1) = room
        /\ d2 \in Seq(Byte) /\ Len(d2) = Len(data) - room
        /\ d1 \o d2 = data
    <3>1. d1 \in Seq(Byte) /\ Len(d1) = room
      BY <1>1, <1>3
    <3>2. d2 \in Seq(Byte) /\ Len(d2) = Len(data) - room
      BY <1>1, <1>3
    <3>3. room \in 0..Len(data)
      BY <1>1, <1>3
    <3> QED BY <3>1, <3>2, <3>3, SplitIs
  <2> HIDE DEF d1, d2
  <2>3. Len(d1) <= writableBytes(c)
    BY <1>1, <2>2 DEF room
  <2>4. /\ BufferOK(c1) /\ Content(c1) = Content(c) \o d1
        /\ c1.readerIndex_ = c.readerIndex_
        /\ c1.writerIndex_ = c.writerIndex_ + Len(d1)
        /\ Len(c1.buffer_) = Len(c.buffer_)
    BY <2>2, <2>3, WrittenIs
  <2>5. c1.writerIndex_ = Len(c.buffer_)
    BY <2>2, <2>4 DEF room, writableBytes, BufferOK
  <2> HIDE DEF c1
  <2>6. /\ BufferOK(append(c1, d2))
        /\ Content(append(c1, d2)) = Content(c1) \o d2
        /\ append(c1, d2).readerIndex_ \in {c1.readerIndex_, kCheapPrepend}
        /\ \/ Len(append(c1, d2).buffer_) = Len(c1.buffer_)
           \/ /\ Len(append(c1, d2).buffer_) = c1.writerIndex_ + Len(d2)
              /\ append(c1, d2).readerIndex_ = c1.readerIndex_
              /\ mustGrow(c1, Len(d2))
    BY <2>2, <2>4, AppendIs
  <2>7. Content(c1) \o d2 = Content(c) \o data
    <3>1. Content(c) \in Seq(Byte)
      BY ContentIs
    <3>2. (Content(c) \o d1) \o d2 = Content(c) \o (d1 \o d2)
      BY <2>2, <3>1, ConcatIsAssociative
    <3> QED BY <2>2, <2>4, <3>2
  <2>8. ASSUME mustGrow(c1, Len(d2))
        PROVE  c.readerIndex_ < Len(d2) + kCheapPrepend
    <3>1. writableBytes(c1) = 0
      BY <2>4, <2>5 DEF writableBytes, BufferOK
    <3> QED BY <2>4, <2>8, <3>1 DEF mustGrow, prependableBytes, BufferOK
  <2>9. Len(d2) \in Nat /\ Len(c.buffer_) \in Nat
    BY <2>2 DEF BufferOK
  <2> QED BY <2>1, <2>4, <2>5, <2>6, <2>7, <2>8, <2>9
<1> QED BY <1>1, <1>2, <1>3

(* Prepended bytes precede the content.                                      *)
LEMMA PrependIs ==
  ASSUME NEW c, BufferOK(c), NEW data \in Seq(Byte), Len(data) <= prependableBytes(c)
  PROVE  /\ BufferOK(prepend(c, data))
         /\ Content(prepend(c, data)) = data \o Content(c)
         /\ Len(prepend(c, data).buffer_) = Len(c.buffer_)
<1> DEFINE g == prepend(c, data)
           at == c.readerIndex_ - Len(data)
<1>1. /\ c.buffer_ \in Seq(Byte) /\ Len(data) \in Nat
      /\ c.writerIndex_ \in Nat /\ c.readerIndex_ \in Nat
      /\ Len(c.buffer_) \in Nat
      /\ c.readerIndex_ <= c.writerIndex_ /\ c.writerIndex_ <= Len(c.buffer_)
      /\ at \in Nat /\ c.readerIndex_ = at + Len(data)
  BY DEF BufferOK, prependableBytes
<1>2. /\ g.buffer_ = copied(c.buffer_, at, data)
      /\ g.readerIndex_ = at /\ g.writerIndex_ = c.writerIndex_
      /\ g = [buffer_ |-> g.buffer_, readerIndex_ |-> g.readerIndex_,
              writerIndex_ |-> g.writerIndex_]
  <2>1. c \in [buffer_ : Seq(Byte), readerIndex_ : Nat, writerIndex_ : Nat]
    BY DEF BufferOK
  <2> DEFINE buf == copied(c.buffer_, at, data)
  <2>2. g = [c EXCEPT !.readerIndex_ = at, !.buffer_ = buf]
    BY DEF prepend
  <2> HIDE DEF g, buf, at
  <2>3. g = [buffer_ |-> buf, readerIndex_ |-> at, writerIndex_ |-> c.writerIndex_]
    BY <2>1, <2>2
  <2>4. g.buffer_ = buf /\ g.readerIndex_ = at /\ g.writerIndex_ = c.writerIndex_
    BY <2>3
  <2> QED BY <2>3, <2>4 DEF buf
<1> HIDE DEF g, at
<1>3. /\ g.buffer_ \in Seq(Byte)
      /\ Len(g.buffer_) = Len(c.buffer_)
      /\ \A i \in 1..Len(c.buffer_) : g.buffer_[i] =
           IF i \in (at + 1)..(at + Len(data)) THEN data[i - at] ELSE c.buffer_[i]
  <2>1. at + Len(data) <= Len(c.buffer_)
    BY <1>1
  <2> QED BY <1>1, <1>2, <2>1, CopiedIs
<1>4. BufferOK(g)
  BY <1>1, <1>2, <1>3, Sizes DEF BufferOK
<1>5. /\ readableBytes(c) \in Nat
      /\ c.writerIndex_ = c.readerIndex_ + readableBytes(c)
      /\ readableBytes(g) = Len(data) + readableBytes(c)
  <2>1. \A r, w, l, a \in Nat : r <= w /\ r = a + l =>
          w - r \in Nat /\ w = r + (w - r) /\ w - a = l + (w - r)
    OBVIOUS
  <2> QED BY <1>1, <1>2, <2>1 DEF readableBytes
<1>6. /\ Content(c) \in Seq(Byte) /\ Len(Content(c)) = readableBytes(c)
      /\ Content(g) \in Seq(Byte) /\ Len(Content(g)) = readableBytes(g)
  BY <1>4, ContentIs
<1> DEFINE s == data \o Content(c)
<1>7. /\ s \in Seq(Byte)
      /\ Len(s) = Len(data) + Len(Content(c))
      /\ \A i \in 1..(Len(data) + Len(Content(c))) : s[i] =
           IF i <= Len(data) THEN data[i] ELSE Content(c)[i - Len(data)]
  BY <1>6, ConcatProperties
<1> HIDE DEF s
<1>8. ASSUME NEW i \in 1..(Len(data) + readableBytes(c))
      PROVE  Content(g)[i] = s[i]
  <2>1. Content(g)[i] = g.buffer_[at + i]
    BY <1>2, <1>4, <1>5, ContentIs
  <2>2. i \in Nat /\ at + i \in 1..Len(c.buffer_)
    BY <1>1, <1>5
  <2>3. CASE i <= Len(data)
    <3>1. at + i \in (at + 1)..(at + Len(data)) /\ (at + i) - at = i
      BY <1>1, <2>2, <2>3
    <3>2. g.buffer_[at + i] = data[i]
      BY <1>3, <2>2, <3>1
    <3> QED BY <1>5, <1>6, <1>7, <2>1, <2>3, <3>2
  <2>4. CASE Len(data) < i
    <3>1. /\ ~ (at + i <= at + Len(data))
          /\ i - Len(data) \in 1..readableBytes(c)
      BY <1>1, <1>5, <2>2, <2>4
    <3>2. at + i = c.readerIndex_ + (i - Len(data))
      BY <1>1, <2>2, <2>4
    <3>3. g.buffer_[at + i] = c.buffer_[at + i]
      BY <1>1, <1>3, <2>2, <3>1
    <3>4. Content(c)[i - Len(data)] = c.buffer_[at + i]
      BY <3>1, <3>2, ContentIs
    <3>5. s[i] = Content(c)[i - Len(data)]
      BY <1>1, <1>5, <1>6, <1>7, <2>2, <2>4
    <3> QED BY <2>1, <3>3, <3>4, <3>5
  <2> QED BY <1>1, <2>2, <2>3, <2>4
<1>9. Content(g) = s
  <2>1. Len(Content(g)) = Len(data) + readableBytes(c) /\ Len(s) = Len(Content(g))
    BY <1>5, <1>6, <1>7
  <2> QED BY <1>6, <1>7, <1>8, <2>1, SeqEqual
<1> QED BY <1>3, <1>4, <1>9 DEF g, s
-----------------------------------------------------------------------------
(* Taking bytes out. *)

(* A part of the content is a part of the vector.                            *)
LEMMA PartIs ==
  ASSUME NEW c, BufferOK(c), NEW m \in Nat, NEW n \in Nat,
         m <= n, n <= readableBytes(c),
         NEW lo \in Nat, NEW hi \in Nat,
         lo = c.readerIndex_ + m, hi = c.readerIndex_ + n
  PROVE  SubSeq(Content(c), m + 1, n) = bytesAt(c, lo, hi)
<1> DEFINE s == Content(c)
           t == SubSeq(s, m + 1, n)
<1>1. /\ readableBytes(c) \in Nat /\ c.readerIndex_ \in Nat
      /\ c.readerIndex_ + readableBytes(c) <= Len(c.buffer_)
      /\ Len(c.buffer_) \in Nat
  BY DEF BufferOK, readableBytes
<1>2. /\ s \in Seq(Byte) /\ Len(s) = readableBytes(c)
      /\ \A i \in 1..readableBytes(c) : s[i] = c.buffer_[c.readerIndex_ + i]
  BY ContentIs
<1> HIDE DEF s
<1>3. /\ t \in Seq(Byte) /\ Len(t) = n - m
      /\ \A i \in 1..(n - m) : t[i] = s[m + i]
  BY <1>1, <1>2
<1>4. lo \in Nat /\ hi \in Nat /\ lo <= hi /\ hi <= Len(c.buffer_) /\ hi - lo = n - m
  <2>1. PICK r \in Nat, q \in Nat, l \in Nat :
          r = readableBytes(c) /\ q = c.readerIndex_ /\ l = Len(c.buffer_)
    BY <1>1
  <2>2. lo = q + m /\ hi = q + n /\ n <= r /\ q + r <= l
    BY <1>1, <2>1
  <2>3. lo <= hi /\ hi <= l /\ hi - lo = n - m
    BY <2>2
  <2> QED BY <2>1, <2>3
<1>5. /\ bytesAt(c, lo, hi) \in Seq(Byte) /\ Len(bytesAt(c, lo, hi)) = n - m
      /\ \A i \in 1..(n - m) : bytesAt(c, lo, hi)[i] = c.buffer_[lo + i]
  <2>1. /\ bytesAt(c, lo, hi) \in Seq(Byte) /\ Len(bytesAt(c, lo, hi)) = hi - lo
        /\ \A i \in 1..(hi - lo) : bytesAt(c, lo, hi)[i] = c.buffer_[lo + i]
    <3>1. lo <= hi /\ hi <= Len(c.buffer_)
      BY <1>4
    <3>2. BytesHeld(c, lo, hi)
      BY <3>1, BytesAreHeld
    <3> QED BY <3>2, Zenon DEF BytesHeld
  <2> QED BY <1>4, <2>1
<1>6. ASSUME NEW i \in 1..(n - m) PROVE t[i] = bytesAt(c, lo, hi)[i]
  <2>1. m + i \in 1..readableBytes(c) /\ c.readerIndex_ + (m + i) = lo + i
    BY <1>1
  <2> QED BY <1>2, <1>3, <1>5, <2>1
<1> HIDE DEF t
<1>7. t = bytesAt(c, lo, hi)
  BY <1>3, <1>5, <1>6, SeqEqual
<1> QED BY <1>7 DEF s, t

(* retrieve takes bytes off the front of the content.                        *)
LEMMA RetrieveIs ==
  ASSUME NEW c, BufferOK(c), NEW len \in Nat, len <= readableBytes(c)
  PROVE  /\ BufferOK(retrieve(c, len))
         /\ Content(retrieve(c, len)) = SubSeq(Content(c), len + 1, Len(Content(c)))
         /\ retrieve(c, len).buffer_ = c.buffer_
         /\ retrieve(c, len).readerIndex_ \in {c.readerIndex_ + len, kCheapPrepend}
<1> DEFINE g == retrieve(c, len)
<1>0. Len(Content(c)) = readableBytes(c)
  BY ContentIs
<1>1. /\ c \in [buffer_ : Seq(Byte), readerIndex_ : Nat, writerIndex_ : Nat]
      /\ readableBytes(c) \in Nat
      /\ c.writerIndex_ = c.readerIndex_ + readableBytes(c)
  BY DEF BufferOK, readableBytes
<1>2. SubSeq(Content(c), len + 1, readableBytes(c)) =
        bytesAt(c, c.readerIndex_ + len, c.writerIndex_)
  <2>1. c.readerIndex_ + len \in Nat /\ c.writerIndex_ \in Nat
    BY <1>1
  <2>2. ASSUME NEW n \in Nat, n = readableBytes(c),
               NEW lo \in Nat, lo = c.readerIndex_ + len,
               NEW hi \in Nat, hi = c.writerIndex_
        PROVE  SubSeq(Content(c), len + 1, n) = bytesAt(c, lo, hi)
    <3>1. hi = c.readerIndex_ + n
      BY <1>1, <2>2
    <3> QED BY <2>2, <3>1, PartIs
  <2> QED BY <1>1, <2>1, <2>2
<1>3. CASE len < readableBytes(c)
  <2>1. g = [c EXCEPT !.readerIndex_ = c.readerIndex_ + len]
    BY <1>3 DEF retrieve
  <2> HIDE DEF g
  <2>2. /\ g.buffer_ = c.buffer_ /\ g.readerIndex_ = c.readerIndex_ + len
        /\ g.writerIndex_ = c.writerIndex_
        /\ g \in [buffer_ : Seq(Byte), readerIndex_ : Nat, writerIndex_ : Nat]
    BY <1>1, <2>1
  <2>3. BufferOK(g)
    BY <1>1, <1>3, <2>2 DEF BufferOK
  <2>4. Content(g) = bytesAt(c, c.readerIndex_ + len, c.writerIndex_)
    BY <2>2 DEF Content, bytesAt
  <2> QED BY <1>0, <1>2, <2>2, <2>3, <2>4 DEF g
<1>4. CASE len = readableBytes(c)
  <2>1. g = [c EXCEPT !.readerIndex_ = kCheapPrepend, !.writerIndex_ = kCheapPrepend]
    BY <1>1, <1>4 DEF retrieve, retrieveAll
  <2> HIDE DEF g
  <2>2. /\ g.buffer_ = c.buffer_ /\ g.readerIndex_ = kCheapPrepend
        /\ g.writerIndex_ = kCheapPrepend
        /\ g \in [buffer_ : Seq(Byte), readerIndex_ : Nat, writerIndex_ : Nat]
    BY <1>1, <2>1, Sizes
  <2>3. BufferOK(g)
    BY <2>2, Sizes DEF BufferOK
  <2>4. Content(g) = <<>>
    <3>1. readableBytes(g) = 0
      BY <2>2, Sizes DEF readableBytes
    <3> QED BY <2>3, <3>1, ContentIs
  <2>5. SubSeq(Content(c), len + 1, readableBytes(c)) = <<>>
    BY <1>1, <1>4, SubSeqEmpty
  <2> QED BY <1>0, <2>2, <2>3, <2>4, <2>5 DEF g
<1> QED BY <1>1, <1>3, <1>4

(* unwrite takes bytes off the back of the content.                          *)
LEMMA UnwriteIs ==
  ASSUME NEW c, BufferOK(c), NEW len \in Nat, len <= readableBytes(c)
  PROVE  /\ BufferOK(unwrite(c, len))
         /\ Content(unwrite(c, len)) = SubSeq(Content(c), 1, Len(Content(c)) - len)
         /\ unwrite(c, len).buffer_ = c.buffer_
         /\ unwrite(c, len).readerIndex_ = c.readerIndex_
<1> DEFINE g == unwrite(c, len)
           n == readableBytes(c) - len
<1>0. Len(Content(c)) = readableBytes(c)
  BY ContentIs
<1>1. /\ c \in [buffer_ : Seq(Byte), readerIndex_ : Nat, writerIndex_ : Nat]
      /\ n \in Nat /\ n <= readableBytes(c)
      /\ c.readerIndex_ + n = c.writerIndex_ - len
      /\ c.readerIndex_ = c.readerIndex_ + 0
      /\ 0 \in Nat /\ 0 <= n /\ 0 + 1 = 1
      /\ c.readerIndex_ \in Nat /\ c.readerIndex_ + n \in Nat
  BY DEF BufferOK, readableBytes
<1>2. SubSeq(Content(c), 1, n) = bytesAt(c, c.readerIndex_, c.readerIndex_ + n)
  <2> HIDE DEF n
  <2>1. SubSeq(Content(c), 0 + 1, n) = bytesAt(c, c.readerIndex_, c.readerIndex_ + n)
    BY <1>1, PartIs
  <2> QED BY <2>1
<1>3. /\ g.buffer_ = c.buffer_ /\ g.readerIndex_ = c.readerIndex_
      /\ g.writerIndex_ = c.writerIndex_ - len
      /\ g = [buffer_ |-> c.buffer_, readerIndex_ |-> c.readerIndex_,
              writerIndex_ |-> c.writerIndex_ - len]
  BY <1>1 DEF unwrite
<1> HIDE DEF g, n
<1>4. c.writerIndex_ - len \in Nat /\ c.readerIndex_ <= c.writerIndex_ - len
  BY <1>1
<1>5. BufferOK(g)
  BY <1>1, <1>3, <1>4 DEF BufferOK
<1>6. Content(g) = bytesAt(c, c.readerIndex_, c.readerIndex_ + n)
  BY <1>1, <1>3 DEF Content, bytesAt
<1> QED BY <1>0, <1>1, <1>2, <1>3, <1>5, <1>6 DEF g, n

(* shrink moves the content to a new Buffer.                                 *)
LEMMA ShrinkIs ==
  ASSUME NEW c, BufferOK(c), NEW reserve \in Nat
  PROVE  /\ BufferOK(shrink(c, reserve))
         /\ Content(shrink(c, reserve)) = Content(c)
         /\ shrink(c, reserve).readerIndex_ = kCheapPrepend
<1> DEFINE room == readableBytes(c) + reserve
           e == ensureWritableBytes(NewBuffer, room)
<1>1. room \in Nat
  BY DEF readableBytes, BufferOK
<1>2. BufferOK(e) /\ Content(e) = <<>> /\ e.readerIndex_ = kCheapPrepend
  BY <1>1, NewBufferIs, EnsureIs
<1>3. Content(c) \in Seq(Byte)
  BY ContentIs
<1> HIDE DEF e
<1>4. /\ BufferOK(append(e, Content(c)))
      /\ Content(append(e, Content(c))) = <<>> \o Content(c)
      /\ append(e, Content(c)).readerIndex_ = kCheapPrepend
  BY <1>2, <1>3, AppendIs
<1>5. <<>> \o Content(c) = Content(c)
  BY <1>3, ConcatEmptySeq
<1> QED BY <1>4, <1>5 DEF shrink, e
-----------------------------------------------------------------------------
(* The steps. *)

(* A vector that grew because makeSpace had to grow it was full.             *)
LEMMA GrownWhenFull ==
  ASSUME NEW c, BufferOK(c), NEW d, BufferOK(d), NEW len \in Nat, NEW w \in Nat,
         c.readerIndex_ <= w, w <= Len(c.buffer_),
         Len(c.buffer_) - w + c.readerIndex_ < len + kCheapPrepend,
         Len(d.buffer_) = w + len, d.readerIndex_ = c.readerIndex_
  PROVE  GrowthNeeded(c, d)
<1>1. readableBytes(d) + writableBytes(d) = Len(d.buffer_) - d.readerIndex_
  BY DEF readableBytes, writableBytes, BufferOK
<1>2. /\ c.readerIndex_ \in Nat /\ Len(c.buffer_) \in Nat
      /\ Len(d.buffer_) \in Nat /\ d.readerIndex_ \in Nat
  BY DEF BufferOK
<1>3. \A k, r, n, l, x \in Nat :
        r <= x /\ x <= n /\ n - x + r < l + k =>
          k + (x + l - r) > n /\ x + l <= k + 2 * (x + l - r)
  OBVIOUS
<1>4. /\ kCheapPrepend + (w + len - c.readerIndex_) > Len(c.buffer_)
      /\ w + len <= kCheapPrepend + 2 * (w + len - c.readerIndex_)
  BY <1>2, <1>3, Sizes
<1>5. readableBytes(d) + writableBytes(d) = w + len - c.readerIndex_
  BY <1>1, <1>2
<1> QED BY <1>4, <1>5 DEF GrowthNeeded

(* A vector that did not grow satisfies the same.                            *)
LEMMA SameSize ==
  ASSUME NEW c, BufferOK(c), NEW d, BufferOK(d), Len(d.buffer_) <= Len(c.buffer_)
  PROVE  GrowthNeeded(c, d)
BY DEF GrowthNeeded, BufferOK

(* A user's data is a sequence of bytes.                                     *)
LEMMA DataIsSeq ==
  ASSUME NEW data \in Data
  PROVE  data \in Seq(Byte) /\ Len(data) \in Nat
<1> PICK n \in 0..MaxLen : data \in [1..n -> Byte]
  BY DEF Data
<1>1. n \in Nat
  BY BufferAssumption
<1> QED BY <1>1, FunctionIsSeq

StepOK ==
  /\ TypeOK'
  /\ GrowthNeeded(b, b')
  /\ io'[1] # "put front" => PrependRoomKept(b, b')

(* Each operation on a Buffer whose indices are in order keeps them so,      *)
(* grows it only when full and keeps the prependable bytes.                  *)
LEMMA NextStepOK == TypeOK /\ Next => StepOK
<1> SUFFICES ASSUME TypeOK, Next PROVE StepOK
  OBVIOUS
<1> USE DEF TypeOK
<1>1. ASSUME NEW data \in Data, AppendData(data) PROVE StepOK
  <2>1. data \in Seq(Byte) /\ Len(data) \in Nat
    BY DataIsSeq
  <2>2. b' = append(b, data)
    BY <1>1 DEF AppendData, becomes
  <2>3. /\ BufferOK(b') /\ b'.readerIndex_ \in {b.readerIndex_, kCheapPrepend}
        /\ \/ Len(b'.buffer_) = Len(b.buffer_)
           \/ /\ Len(b'.buffer_) = b.writerIndex_ + Len(data)
              /\ b'.readerIndex_ = b.readerIndex_
              /\ mustGrow(b, Len(data))
    BY <2>1, <2>2, AppendIs
  <2>4. GrowthNeeded(b, b')
    <3>1. CASE Len(b'.buffer_) = Len(b.buffer_)
      BY <2>3, <3>1, SameSize DEF BufferOK
    <3>2. CASE /\ Len(b'.buffer_) = b.writerIndex_ + Len(data)
               /\ b'.readerIndex_ = b.readerIndex_
               /\ mustGrow(b, Len(data))
      <4>1. /\ b.writerIndex_ \in Nat /\ b.readerIndex_ <= b.writerIndex_
            /\ b.writerIndex_ <= Len(b.buffer_)
            /\ Len(b.buffer_) - b.writerIndex_ + b.readerIndex_ < Len(data) + kCheapPrepend
        BY <3>2 DEF mustGrow, writableBytes, prependableBytes, BufferOK
      <4> QED BY <2>1, <2>3, <3>2, <4>1, GrownWhenFull
    <3> QED BY <2>3, <3>1, <3>2
  <2>5. PrependRoomKept(b, b')
    BY <2>3, Sizes DEF PrependRoomKept, prependableBytes
  <2> QED BY <2>3, <2>4, <2>5 DEF StepOK
<1>2. ASSUME NEW data \in Data, HasWritten(data) PROVE StepOK
  <2>1. /\ data \in Seq(Byte) /\ Len(data) <= writableBytes(b)
        /\ b' = written(b, data)
    BY <1>2, DataIsSeq DEF HasWritten, becomes
  <2>2. /\ BufferOK(b') /\ b'.readerIndex_ = b.readerIndex_
        /\ Len(b'.buffer_) = Len(b.buffer_)
    BY <2>1, WrittenIs
  <2>3. GrowthNeeded(b, b')
    BY <2>2, SameSize DEF BufferOK
  <2> QED BY <2>2, <2>3 DEF StepOK, PrependRoomKept, prependableBytes
<1>3. ASSUME NEW data \in Data, Prepend(data) PROVE StepOK
  <2>1. /\ data \in Seq(Byte) /\ Len(data) <= prependableBytes(b)
        /\ b' = prepend(b, data) /\ io'[1] = "put front"
    BY <1>3, DataIsSeq DEF Prepend, becomes
  <2>2. BufferOK(b') /\ Len(b'.buffer_) = Len(b.buffer_)
    BY <2>1, PrependIs
  <2>3. GrowthNeeded(b, b')
    BY <2>2, SameSize DEF BufferOK
  <2> QED BY <2>1, <2>2, <2>3 DEF StepOK
<1>4. ASSUME NEW data \in Data, ReadFd(data) PROVE StepOK
  <2>1. data \in Seq(Byte) /\ b' = readFd(b, data)
    BY <1>4, DataIsSeq DEF ReadFd, becomes
  <2>2. /\ BufferOK(b') /\ b'.readerIndex_ \in {b.readerIndex_, kCheapPrepend}
        /\ \/ Len(b'.buffer_) = Len(b.buffer_)
           \/ \E full, len \in Nat :
                /\ full = Len(b.buffer_)
                /\ Len(b'.buffer_) = full + len
                /\ b'.readerIndex_ = b.readerIndex_
                /\ b.readerIndex_ < len + kCheapPrepend
    BY <2>1, ReadFdIs
  <2>3. GrowthNeeded(b, b')
    <3>1. CASE Len(b'.buffer_) = Len(b.buffer_)
      BY <2>2, <3>1, SameSize DEF BufferOK
    <3>2. ASSUME NEW full \in Nat, NEW len \in Nat, full = Len(b.buffer_),
                 Len(b'.buffer_) = full + len, b'.readerIndex_ = b.readerIndex_,
                 b.readerIndex_ < len + kCheapPrepend
          PROVE  GrowthNeeded(b, b')
      <4>1. /\ b.readerIndex_ <= full /\ full <= Len(b.buffer_)
            /\ Len(b.buffer_) - full + b.readerIndex_ < len + kCheapPrepend
        BY <3>2 DEF BufferOK
      <4> QED BY <2>2, <3>2, <4>1, GrownWhenFull
    <3> QED BY <2>2, <3>1, <3>2
  <2>4. PrependRoomKept(b, b')
    BY <2>2, Sizes DEF PrependRoomKept, prependableBytes
  <2> QED BY <2>2, <2>3, <2>4 DEF StepOK
<1>5. ASSUME NEW len \in 0..MaxLen, EnsureWritable(len) PROVE StepOK
  <2>1. len \in Nat /\ b' = ensureWritableBytes(b, len)
    BY <1>5, BufferAssumption DEF EnsureWritable, becomes
  <2>2. /\ BufferOK(b') /\ b'.readerIndex_ \in {b.readerIndex_, kCheapPrepend}
        /\ \/ Len(b'.buffer_) = Len(b.buffer_)
           \/ /\ Len(b'.buffer_) = b.writerIndex_ + len
              /\ b'.readerIndex_ = b.readerIndex_
              /\ mustGrow(b, len)
    BY <2>1, EnsureIs
  <2>3. GrowthNeeded(b, b')
    <3>1. CASE Len(b'.buffer_) = Len(b.buffer_)
      BY <2>2, <3>1, SameSize DEF BufferOK
    <3>2. CASE /\ Len(b'.buffer_) = b.writerIndex_ + len
               /\ b'.readerIndex_ = b.readerIndex_
               /\ mustGrow(b, len)
      <4>1. /\ b.writerIndex_ \in Nat /\ b.readerIndex_ <= b.writerIndex_
            /\ b.writerIndex_ <= Len(b.buffer_)
            /\ Len(b.buffer_) - b.writerIndex_ + b.readerIndex_ < len + kCheapPrepend
        BY <3>2 DEF mustGrow, writableBytes, prependableBytes, BufferOK
      <4> QED BY <2>1, <2>2, <3>2, <4>1, GrownWhenFull
    <3> QED BY <2>2, <3>1, <3>2
  <2>4. PrependRoomKept(b, b')
    BY <2>2, Sizes DEF PrependRoomKept, prependableBytes
  <2> QED BY <2>2, <2>3, <2>4 DEF StepOK
<1>6. ASSUME NEW len \in 0..MaxLen, Unwrite(len) PROVE StepOK
  <2>1. len \in Nat /\ len <= readableBytes(b) /\ b' = unwrite(b, len)
    <3>1. len \in Nat
      BY BufferAssumption
    <3> QED BY <1>6, <3>1 DEF Unwrite, becomes
  <2>2. /\ BufferOK(b') /\ b'.buffer_ = b.buffer_
        /\ b'.readerIndex_ = b.readerIndex_
    BY <2>1, UnwriteIs
  <2>3. GrowthNeeded(b, b')
    BY <2>2, SameSize DEF BufferOK
  <2> QED BY <2>2, <2>3 DEF StepOK, PrependRoomKept, prependableBytes
<1>7. ASSUME NEW len \in Nat, len <= readableBytes(b), b' = retrieve(b, len)
      PROVE  StepOK
  <2>1. /\ BufferOK(b') /\ b'.buffer_ = b.buffer_
        /\ b'.readerIndex_ \in {b.readerIndex_ + len, kCheapPrepend}
    BY <1>7, RetrieveIs
  <2>2. GrowthNeeded(b, b')
    BY <2>1, SameSize DEF BufferOK
  <2>3. PrependRoomKept(b, b')
    BY <2>1, Sizes DEF PrependRoomKept, prependableBytes, BufferOK
  <2> QED BY <2>1, <2>2, <2>3 DEF StepOK
<1>8. ASSUME NEW len \in 0..MaxLen, Retrieve(len) PROVE StepOK
  BY <1>7, <1>8, BufferAssumption DEF Retrieve, becomes
<1>9. ASSUME RetrieveAll PROVE StepOK
  <2>1. readableBytes(b) \in Nat /\ b' = retrieve(b, readableBytes(b))
    BY <1>9 DEF RetrieveAll, becomes, retrieve, readableBytes, BufferOK
  <2> QED BY <1>7, <2>1
<1>10. ASSUME NEW len \in 0..MaxLen, Shrink(len) PROVE StepOK
  <2>1. len \in Nat /\ b' = shrink(b, len)
    BY <1>10, BufferAssumption DEF Shrink, becomes
  <2>2. BufferOK(b') /\ b'.readerIndex_ = kCheapPrepend
    BY <2>1, ShrinkIs
  <2>3. GrowthNeeded(b, b')
    <3>1. readableBytes(b') + writableBytes(b') = Len(b'.buffer_) - kCheapPrepend
      BY <2>2, Sizes DEF readableBytes, writableBytes, BufferOK
    <3>2. /\ Len(b.buffer_) \in Nat /\ Len(b'.buffer_) \in Nat
          /\ kCheapPrepend <= Len(b'.buffer_)
      BY <2>2 DEF BufferOK
    <3> QED BY <3>1, <3>2, Sizes DEF GrowthNeeded
  <2>4. PrependRoomKept(b, b')
    BY <2>2, Sizes DEF PrependRoomKept, prependableBytes
  <2> QED BY <2>2, <2>3, <2>4 DEF StepOK
<1>11. ASSUME NEW data \in Data, ReadFdWin(data) PROVE StepOK
  BY <1>1, <1>11 DEF ReadFdWin, AppendData
<1> QED BY <1>1, <1>2, <1>3, <1>4, <1>5, <1>6, <1>8, <1>9, <1>10, <1>11 DEF Next
(* Each operation is one on the queue of bytes.                              *)
LEMMA NextIsQueueStep == TypeOK /\ Next => BQ!Next
<1> SUFFICES ASSUME TypeOK, Next PROVE BQ!Next
  OBVIOUS
<1> USE DEF TypeOK
<1>0. /\ Content(b) \in Seq(Byte) /\ Len(Content(b)) = readableBytes(b)
      /\ readableBytes(b) \in Nat
  <2>1. Content(b) \in Seq(Byte) /\ Len(Content(b)) = readableBytes(b)
    BY ContentIs
  <2> QED BY <2>1 DEF readableBytes, BufferOK
<1>1. Content(b)' = Content(b')
  BY DEF Content, bytesAt
<1>2. ASSUME NEW data \in Seq(Byte), NEW c, Content(c) = Content(b) \o data,
             becomes(c, "put", data)
      PROVE  BQ!Next
  <2>1. BQ!Put
    BY <1>1, <1>2 DEF BQ!Put, becomes
  <2> QED BY <2>1 DEF BQ!Next
<1>3. ASSUME NEW c, Content(c) = Content(b), becomes(c, "room", <<>>)
      PROVE  BQ!Next
  <2>1. BQ!MakeRoom
    BY <1>1, <1>3 DEF BQ!MakeRoom, becomes
  <2> QED BY <2>1 DEF BQ!Next
<1>4. ASSUME NEW data \in Data, AppendData(data) PROVE BQ!Next
  <2>1. data \in Seq(Byte)
    BY DataIsSeq
  <2>2. Content(append(b, data)) = Content(b) \o data
    BY <2>1, AppendIs
  <2> QED BY <1>2, <1>4, <2>1, <2>2 DEF AppendData
<1>5. ASSUME NEW data \in Data, HasWritten(data) PROVE BQ!Next
  <2>1. data \in Seq(Byte)
    BY DataIsSeq
  <2>2. Content(written(b, data)) = Content(b) \o data
    BY <1>5, <2>1, WrittenIs DEF HasWritten
  <2> QED BY <1>2, <1>5, <2>1, <2>2 DEF HasWritten
<1>6. ASSUME NEW data \in Data, ReadFd(data) PROVE BQ!Next
  <2>1. data \in Seq(Byte)
    BY DataIsSeq
  <2>2. Content(readFd(b, data)) = Content(b) \o data
    BY <2>1, ReadFdIs
  <2> QED BY <1>2, <1>6, <2>1, <2>2 DEF ReadFd
<1>7. ASSUME NEW data \in Data, Prepend(data) PROVE BQ!Next
  <2>1. data \in Seq(Byte)
    BY DataIsSeq
  <2>2. Content(prepend(b, data)) = data \o Content(b)
    BY <1>7, <2>1, PrependIs DEF Prepend
  <2>3. BQ!PutFront
    BY <1>1, <1>7, <2>1, <2>2 DEF BQ!PutFront, Prepend, becomes
  <2> QED BY <2>3 DEF BQ!Next
<1>8. ASSUME NEW len \in 0..MaxLen, EnsureWritable(len) PROVE BQ!Next
  <2>1. len \in Nat
    BY BufferAssumption
  <2>2. Content(ensureWritableBytes(b, len)) = Content(b)
    BY <2>1, EnsureIs
  <2> QED BY <1>3, <1>8, <2>2 DEF EnsureWritable
<1>9. ASSUME NEW len \in 0..MaxLen, Shrink(len) PROVE BQ!Next
  <2>1. len \in Nat
    BY BufferAssumption
  <2>2. Content(shrink(b, len)) = Content(b)
    BY <2>1, ShrinkIs
  <2> QED BY <1>3, <1>9, <2>2 DEF Shrink
<1>10. ASSUME NEW len \in 0..MaxLen, Unwrite(len) PROVE BQ!Next
  <2>1. len \in Nat /\ len <= readableBytes(b)
    <3>1. len \in Nat
      BY BufferAssumption
    <3> QED BY <1>10, <3>1 DEF Unwrite
  <2>2. Content(unwrite(b, len)) = SubSeq(Content(b), 1, Len(Content(b)) - len)
    BY <2>1, UnwriteIs
  <2>3. bytesAt(b, b.writerIndex_ - len, b.writerIndex_) =
          SubSeq(Content(b), Len(Content(b)) - len + 1, Len(Content(b)))
    <3> DEFINE m == readableBytes(b) - len
               n == readableBytes(b)
               lo == b.writerIndex_ - len
               hi == b.writerIndex_
    <3>1. /\ m \in Nat /\ n \in Nat /\ m <= n /\ n <= readableBytes(b)
          /\ lo \in Nat /\ hi \in Nat
          /\ lo = b.readerIndex_ + m /\ hi = b.readerIndex_ + n
      BY <2>1 DEF readableBytes, BufferOK
    <3> HIDE DEF m, n, lo, hi
    <3>2. SubSeq(Content(b), m + 1, n) = bytesAt(b, lo, hi)
      BY <3>1, PartIs
    <3> QED BY <1>0, <3>2 DEF m, n, lo, hi
  <2>4. b' = unwrite(b, len)
    BY <1>10, Zenon DEF Unwrite, becomes
  <2>5. io' = <<"take back", bytesAt(b, b.writerIndex_ - len, b.writerIndex_)>>
    BY <1>10, Zenon DEF Unwrite, becomes
  <2>6. BQ!TakeBack(len)
    BY <1>1, <2>2, <2>3, <2>4, <2>5, Zenon DEF BQ!TakeBack
  <2>7. len \in 0..Len(Content(b))
    BY <1>0, <2>1
  <2> QED BY <2>6, <2>7 DEF BQ!Next
<1>11. ASSUME NEW len \in Nat, len <= readableBytes(b), NEW data,
              data = bytesAt(b, b.readerIndex_, b.readerIndex_ + len),
              becomes(retrieve(b, len), "take", data)
       PROVE  BQ!Next
  <2>1. Content(retrieve(b, len)) = SubSeq(Content(b), len + 1, Len(Content(b)))
    BY <1>11, RetrieveIs
  <2>2. data = SubSeq(Content(b), 1, len)
    <3>1. ASSUME NEW lo \in Nat, NEW hi \in Nat, NEW m \in Nat, m = 0,
                 lo = b.readerIndex_ + m, hi = b.readerIndex_ + len
          PROVE  SubSeq(Content(b), m + 1, len) = bytesAt(b, lo, hi)
      BY <1>11, <3>1, PartIs
    <3>2. /\ b.readerIndex_ \in Nat /\ b.readerIndex_ + len \in Nat
          /\ b.readerIndex_ = b.readerIndex_ + 0 /\ 0 + 1 = 1
      BY DEF BufferOK
    <3> QED BY <1>11, <3>1, <3>2
  <2>3. BQ!Take(len) /\ len \in 0..Len(Content(b))
    BY <1>0, <1>1, <1>11, <2>1, <2>2 DEF BQ!Take, becomes
  <2> QED BY <2>3 DEF BQ!Next
<1>12. ASSUME NEW len \in 0..MaxLen, Retrieve(len) PROVE BQ!Next
  <2>1. len \in Nat
    BY BufferAssumption
  <2> QED BY <1>11, <1>12, <2>1 DEF Retrieve
<1>13. ASSUME RetrieveAll PROVE BQ!Next
  <2>1. retrieveAll(b) = retrieve(b, readableBytes(b))
    BY <1>0 DEF retrieve
  <2>2. Content(b) = bytesAt(b, b.readerIndex_, b.readerIndex_ + readableBytes(b))
    <3>1. b.readerIndex_ + readableBytes(b) = b.writerIndex_
      BY DEF readableBytes, BufferOK
    <3> QED BY <3>1 DEF Content
  <2> QED BY <1>0, <1>11, <1>13, <2>1, <2>2 DEF RetrieveAll
<1>14. ASSUME NEW data \in Data, ReadFdWin(data) PROVE BQ!Next
  BY <1>4, <1>14 DEF ReadFdWin, AppendData
<1> QED BY <1>4, <1>5, <1>6, <1>7, <1>8, <1>9, <1>10, <1>12, <1>13, <1>14 DEF Next

-----------------------------------------------------------------------------
(* The theorems. *)

(* The indices of every Buffer stay in order: readerIndex_ <= writerIndex_   *)
(* <= size, so readableBytes() and writableBytes() never wrap.               *)
THEOREM IndicesInOrder == Spec => []TypeOK
<1>1. Init => TypeOK
  BY NewBufferIs DEF Init, TypeOK
<1>2. TypeOK /\ [Next]_vars => TypeOK'
  BY NextStepOK DEF StepOK, TypeOK, vars, BufferOK
<1> QED BY <1>1, <1>2, PTL DEF Spec

(* Every Buffer is a queue of bytes: what its operations do to the vector    *)
(* and the indices implements ByteQueue.                                     *)
THEOREM ImplementsByteQueue == Spec => IsByteQueue
<1>1. Init => BQ!Init
  BY NewBufferIs DEF Init, BQ!Init
<1>2. TypeOK /\ [Next]_vars => [BQ!Next]_(BQ!vars)
  <2>1. UNCHANGED vars => UNCHANGED BQ!vars
    BY DEF vars, BQ!vars, Content, bytesAt
  <2> QED BY <2>1, NextIsQueueStep
<1> QED BY <1>1, <1>2, IndicesInOrder, PTL DEF Spec, IsByteQueue, BQ!Spec

(* No Buffer's vector grows while the bytes already read would do, nor to    *)
(* more than twice what is needed.                                           *)
THEOREM ReusesReadBytes == Spec => GrowsOnlyWhenFull
<1>1. TypeOK /\ [Next]_vars => [GrowthNeeded(b, b')]_vars
  BY NextStepOK DEF StepOK
<1> QED BY <1>1, IndicesInOrder, PTL DEF Spec, GrowsOnlyWhenFull

(* Only prepend() uses up the prependable bytes.                             *)
THEOREM KeepsHeaderRoom == Spec => HeaderRoomKept
<1>1. TypeOK /\ [Next]_vars =>
        [io'[1] # "put front" => PrependRoomKept(b, b')]_vars
  BY NextStepOK DEF StepOK
<1> QED BY <1>1, IndicesInOrder, PTL DEF Spec, HeaderRoomKept
=============================================================================

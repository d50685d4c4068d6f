------------------------------- MODULE Buffer -------------------------------
(* nev::Buffer: a vector with a reader and a writer index, the room before   *)
(* the reader kept for prepending.  Each operation is an operator from       *)
(* Buffers to Buffers, as shrink() applies them to a second Buffer, and an   *)
(* action that applies it to the one Buffer of the model.  The DCHECKed      *)
(* preconditions of the operations guard the actions.  The xxxInt8..64       *)
(* members are append, prepend and retrieve of one, two, four or eight bytes *)
(* (the byte order is base/sys_byteorder.h's), so they are not told apart.   *)
EXTENDS Integers, Sequences

CONSTANTS
  Byte,            \* what a char of the vector holds
  Zero,            \* the value vector::resize gives to new elements
  kCheapPrepend,   \* room kept in front of the content (8)
  kInitialSize,    \* writable bytes of a new Buffer (1024)
  ExtraBuf,        \* size of readFd's stack buffer (65536)
  MaxLen,          \* bound: longest piece of data or request for room
  MaxSize          \* bound: longest vector

ASSUME BufferAssumption ==
  /\ Zero \in Byte
  /\ {kCheapPrepend, kInitialSize, ExtraBuf, MaxLen, MaxSize} \subseteq Nat

VARIABLES
  b,   \* the Buffer: buffer_ (begin()[i] is buffer_[i + 1]) and its indices
  io   \* history: the last bytes handed to or by the Buffer

vars == <<b, io>>

Data == UNION {[1..n -> Byte] : n \in 0..MaxLen}

readableBytes(c) == c.writerIndex_ - c.readerIndex_

writableBytes(c) == Len(c.buffer_) - c.writerIndex_

prependableBytes(c) == c.readerIndex_

\* The bytes from begin() + lo up to begin() + hi, not included.
bytesAt(c, lo, hi) == [i \in 1..(hi - lo) |-> c.buffer_[lo + i]]

Content(c) == bytesAt(c, c.readerIndex_, c.writerIndex_)

NewBuffer ==
  [buffer_ |-> [i \in 1..(kCheapPrepend + kInitialSize) |-> Zero],
   readerIndex_ |-> kCheapPrepend, writerIndex_ |-> kCheapPrepend]

Init == b = NewBuffer /\ io = <<"none", <<>>>>

\* std::copy of data to begin() + at.
copied(buf, at, data) ==
  [i \in 1..Len(buf) |->
     IF i \in (at + 1)..(at + Len(data)) THEN data[i - at] ELSE buf[i]]

\* vector::resize to a length that is not smaller.
resized(buf, n) == [i \in 1..n |-> IF i <= Len(buf) THEN buf[i] ELSE Zero]

\* Bug: only the vector's tail is counted as room.
MutantAlwaysGrow(c, len) == writableBytes(c) < len

\* Bug: the room kept for prepending is counted as room for content.
MutantUseCheapPrepend(c, len) ==
  writableBytes(c) + prependableBytes(c) < len

mustGrow(c, len) ==
  writableBytes(c) + prependableBytes(c) < len + kCheapPrepend

grown(c, len) ==
  [c EXCEPT !.buffer_ = resized(c.buffer_, c.writerIndex_ + len)]

movedToFront(c) ==
  [buffer_ |-> copied(c.buffer_, kCheapPrepend, Content(c)),
   readerIndex_ |-> kCheapPrepend,
   writerIndex_ |-> kCheapPrepend + readableBytes(c)]

makeSpace(c, len) == IF mustGrow(c, len) THEN grown(c, len) ELSE movedToFront(c)

ensureWritableBytes(c, len) ==
  IF writableBytes(c) < len THEN makeSpace(c, len) ELSE c

\* std::copy to beginWrite(), then hasWritten().
written(c, data) ==
  [c EXCEPT !.buffer_ = copied(c.buffer_, c.writerIndex_, data),
            !.writerIndex_ = c.writerIndex_ + Len(data)]

append(c, data) == written(ensureWritableBytes(c, Len(data)), data)

\* Bug: the indices go back to the start of the vector.
MutantRewind(c) == [c EXCEPT !.readerIndex_ = 0, !.writerIndex_ = 0]

retrieveAll(c) ==
  [c EXCEPT !.readerIndex_ = kCheapPrepend, !.writerIndex_ = kCheapPrepend]

retrieve(c, len) ==
  IF len < readableBytes(c)
  THEN [c EXCEPT !.readerIndex_ = c.readerIndex_ + len]
  ELSE retrieveAll(c)

unwrite(c, len) == [c EXCEPT !.writerIndex_ = c.writerIndex_ - len]

prepend(c, data) ==
  LET at == c.readerIndex_ - Len(data)
  IN [c EXCEPT !.readerIndex_ = at, !.buffer_ = copied(c.buffer_, at, data)]

\* The content moves to a new Buffer with `reserve' more bytes of room.
shrink(c, reserve) ==
  append(ensureWritableBytes(NewBuffer, readableBytes(c) + reserve), Content(c))

\* Bug: everything read is appended after the vector was filled.
MutantAppendAll(c, data) ==
  LET room == writableBytes(c)
  IN IF Len(data) <= room
     THEN written(c, data)
     ELSE append(written(c, SubSeq(data, 1, room)), data)

\* Bytes beyond the writable ones were read into extrabuf and are appended.
readFd(c, data) ==
  LET room == writableBytes(c)
  IN IF Len(data) <= room
     THEN written(c, data)
     ELSE append(written(c, SubSeq(data, 1, room)),
                 SubSeq(data, room + 1, Len(data)))

becomes(c, what, data) ==
  /\ Len(c.buffer_) <= MaxSize
  /\ b' = c
  /\ io' = <<what, data>>

AppendData(data) == becomes(append(b, data), "put", data)

EnsureWritable(len) == becomes(ensureWritableBytes(b, len), "room", <<>>)

\* A user fills the room at beginWrite() itself and calls hasWritten().
HasWritten(data) ==
  /\ Len(data) <= writableBytes(b)
  /\ becomes(written(b, data), "put", data)

Unwrite(len) ==
  /\ len <= readableBytes(b)
  /\ becomes(unwrite(b, len), "take back",
             bytesAt(b, b.writerIndex_ - len, b.writerIndex_))

Retrieve(len) ==
  /\ len <= readableBytes(b)
  /\ becomes(retrieve(b, len), "take",
             bytesAt(b, b.readerIndex_, b.readerIndex_ + len))

RetrieveAll == becomes(retrieveAll(b), "take", Content(b))

Prepend(data) ==
  /\ Len(data) <= prependableBytes(b)
  /\ becomes(prepend(b, data), "put front", data)

Shrink(reserve) == becomes(shrink(b, reserve), "room", <<>>)

\* The Windows build: recv into extra_buf, then append.  End of stream and
\* errors change nothing.
ReadFdWin(data) ==
  /\ Len(data) \in 1..ExtraBuf
  /\ becomes(append(b, data), "put", data)

\* The POSIX build: readv into the writable bytes, and into extrabuf when they
\* are few.  A failed read changes nothing.
ReadFd(data) ==
  /\ Len(data) <= writableBytes(b) + (IF writableBytes(b) < ExtraBuf THEN ExtraBuf ELSE 0)
  /\ becomes(readFd(b, data), "put", data)

Next ==
  \/ \E data \in Data :
       \/ AppendData(data) \/ HasWritten(data) \/ Prepend(data)
       \/ ReadFd(data) \/ ReadFdWin(data)
  \/ \E len \in 0..MaxLen :
       EnsureWritable(len) \/ Unwrite(len) \/ Retrieve(len) \/ Shrink(len)
  \/ RetrieveAll

Spec == Init /\ [][Next]_vars

-----------------------------------------------------------------------------
(* Properties *)

BufferOK(c) ==
  /\ c \in [buffer_ : Seq(Byte), readerIndex_ : Nat, writerIndex_ : Nat]
  /\ c.readerIndex_ <= c.writerIndex_
  /\ c.writerIndex_ <= Len(c.buffer_)
  /\ kCheapPrepend <= Len(c.buffer_)

GrowthNeeded(c, d) ==
  LET held == readableBytes(d) + writableBytes(d)
  IN Len(d.buffer_) > Len(c.buffer_) =>
       /\ kCheapPrepend + held > Len(c.buffer_)
       /\ Len(d.buffer_) <= kCheapPrepend + 2 * held

PrependRoomKept(c, d) ==
  prependableBytes(c) >= kCheapPrepend => prependableBytes(d) >= kCheapPrepend

(* The picture above class Buffer: 0 <= readerIndex <= writerIndex <= size,  *)
(* so none of the size_t subtractions of readableBytes() and                 *)
(* writableBytes() wraps; and the vector always has room for the indices     *)
(* retrieveAll() jumps back to.                                              *)
TypeOK == BufferOK(b)

(* Whatever the moves, growths, prepends and overflows of readFd into its    *)
(* stack buffer, the bytes between the indices are a queue: what a user puts *)
(* in at an end comes out unchanged, and making room loses nothing.          *)
BQ == INSTANCE ByteQueue WITH bytes <- Content(b)
IsByteQueue == BQ!Spec

(* makeSpace reuses the bytes already read before it asks for memory: the    *)
(* vector grows only when content, request and the prependable bytes exceed  *)
(* it, and then to less than twice what they need, although the growth       *)
(* leaves the bytes already read in place (buffer.h, "FIXME: move readable   *)
(* data").                                                                   *)
GrowsOnlyWhenFull == [][GrowthNeeded(b, b')]_vars

(* Nothing but prepending uses up the prependable bytes: no move, growth,    *)
(* shrink or read brings the content closer to the front than kCheapPrepend, *)
(* so a user that appends a message finds room for its length header.        *)
HeaderRoomKept == [][io'[1] # "put front" => PrependRoomKept(b, b')]_vars
=============================================================================

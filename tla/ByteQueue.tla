----------------------------- MODULE ByteQueue -----------------------------
(* What a Buffer promises its users: a queue of bytes that also takes bytes  *)
(* back at either end, and whose requests for room change no byte.  `io' is  *)
(* the last exchange with the user: the bytes handed over in either          *)
(* direction, which the implementation must hand over unchanged.             *)
EXTENDS Sequences, Naturals

CONSTANT Byte

VARIABLES bytes, io

vars == <<bytes, io>>

Init == bytes = <<>> /\ io = <<"none", <<>>>>

Put ==
  /\ io'[1] = "put" /\ io'[2] \in Seq(Byte)
  /\ bytes' = bytes \o io'[2]

PutFront ==
  /\ io'[1] = "put front" /\ io'[2] \in Seq(Byte)
  /\ bytes' = io'[2] \o bytes

Take(n) ==
  /\ bytes' = SubSeq(bytes, n + 1, Len(bytes))
  /\ io' = <<"take", SubSeq(bytes, 1, n)>>

TakeBack(n) ==
  /\ bytes' = SubSeq(bytes, 1, Len(bytes) - n)
  /\ io' = <<"take back", SubSeq(bytes, Len(bytes) - n + 1, Len(bytes))>>

MakeRoom == bytes' = bytes /\ io' = <<"room", <<>>>>

Next ==
  \/ Put \/ PutFront \/ MakeRoom
  \/ \E n \in 0..Len(bytes) : Take(n) \/ TakeBack(n)

Spec == Init /\ [][Next]_vars
=============================================================================

----------------------------- MODULE FunctorQueue -----------------------------
(***************************************************************************)
(* What nev::EventLoop promises the code that hands it functors: it is a    *)
(* first-in first-out queue that runs each functor once.  Functors are       *)
(* numbered in the order in which they were queued.                          *)
(***************************************************************************)
EXTENDS Naturals

VARIABLES queued,   \* how many functors have been queued
          ran       \* how many of them have been run: 1, 2, ..., ran

Init == queued = 0 /\ ran = 0

Queue == queued' = queued + 1 /\ UNCHANGED ran

Run == ran < queued /\ ran' = ran + 1 /\ UNCHANGED queued

Next == Queue \/ Run

Spec == Init /\ [][Next]_<<queued, ran>>
=============================================================================

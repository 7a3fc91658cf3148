---------------------------- MODULE MCReadingRoom ----------------------------
(***************************************************************************)
(* ReadingRoom, with its inductive invariant, and values for TLC.  With    *)
(* MaxConcurrent seats, students[] is followed by one slot of heap         *)
(* bookkeeping and then by the semaphores, one slot each, so every overrun *)
(* of a small instance falls on one.  A stray store leaves the semaphore   *)
(* down or up: nothing tests more of it.                                   *)
(***************************************************************************)
EXTENDS ReadingRoom_proofs

MCSemSlot == [j \in Students |-> MaxConcurrent + 1 + j]
MCClobber == {0, 1}
================================================================================

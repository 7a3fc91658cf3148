----------------------------- MODULE MCCompletion -----------------------------
(***************************************************************************)
(* Completion with values for TLC: a plain wait, an interruptible one, and *)
(* one that is both interruptible and has a timeout.                       *)
(***************************************************************************)
EXTENDS Completion

MCWaits == [interruptible : BOOLEAN, timed : BOOLEAN] \ {[interruptible |-> FALSE, timed |-> TRUE]}
================================================================================

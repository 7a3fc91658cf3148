----------------------------- MODULE MCRtBandwidth ----------------------------
(***************************************************************************)
(* RtBandwidth for TLC.  Root domains are interchangeable; nothing is      *)
(* claimed of a mixed state, and nothing explored beyond it, nor beyond    *)
(* the bound on what a domain won or lost.                                 *)
(***************************************************************************)
EXTENDS RtBandwidth, TLC

CONSTANT MaxDrift

Bounded  == ~mixed /\ \A d \in Domains : drift[d] \in -MaxDrift .. MaxDrift
Symmetry == Permutations(Domains)
================================================================================

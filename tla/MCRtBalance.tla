------------------------------ MODULE MCRtBalance ------------------------------
(* Constants of RtBalance for TLC: three tasks, of which two start with the same
   priority, the third one below; one of the two is moved below that and back, the
   other is bound to the first CPU and freed again. *)
EXTENDS RtBalance

CONSTANTS t1, t2, t3

MCStart == [p \in {t1, t2, t3} |-> IF p = t2 THEN 2 ELSE 1]
MCPrios == [p \in {t1, t2, t3} |-> IF p = t1 THEN {1, 3} ELSE {}]
MCMasks == [p \in {t1, t2, t3} |-> IF p = t3 THEN {Cpus, {1}} ELSE {}]
================================================================================

------------------------------ MODULE StagedFlow ------------------------------
(***************************************************************************)
(* What a pipeline of the shell in ask1 promises, without descriptors:     *)
(* stages start one behind the other, each passes what it makes to the     *)
(* next through a bounded queue, is told that its input has ended when the *)
(* stage before it has and the queue is empty, and that its output is      *)
(* useless only when the stage behind it has ended.  Pipeline implements   *)
(* this specification.                                                     *)
(*                                                                         *)
(* It promises nothing once descriptors run out, and does NOT promise that *)
(* a stage is always told of the end of the one behind it.                 *)
(***************************************************************************)
EXTENDS Integers

CONSTANTS Lengths, MaxStages, Programs, Capacity

Stages == 1 .. MaxStages

VARIABLES
    length,  \* the stages of the pipeline, 0 if there is none
    phase,   \* where each is
    prog,    \* the program it runs
    inHand,  \* it has taken what it has not passed on yet
    flow     \* how much there is behind each

flows == <<length, phase, prog, inHand, flow>>

Idle == /\ length = 0
        /\ phase  = [i \in Stages |-> "unborn"]
        /\ prog   = [i \in Stages |-> "none"]
        /\ inHand = [i \in Stages |-> FALSE]
        /\ flow   = [i \in Stages |-> 0]
Init == Idle

Taking(i) == phase[i] = "running" /\ prog[i] \in {"filter", "head"} /\ ~inHand[i]
Making(i) == phase[i] = "running" /\ (prog[i] \in {"yes", "seq"} \/ inHand[i])

End(i) == /\ phase' = [phase EXCEPT ![i] = "ended"]
          /\ prog' = [prog EXCEPT ![i] = "none"]
          /\ inHand' = [inHand EXCEPT ![i] = FALSE]
          /\ UNCHANGED length

Begin == /\ length = 0
         /\ length' \in Lengths
         /\ UNCHANGED <<phase, prog, inHand, flow>>

Start(i) == \E program \in Programs :
    /\ i <= length /\ phase[i] = "unborn"
    /\ \A k \in 1 .. i - 1 : phase[k] # "unborn"
    /\ phase' = [phase EXCEPT ![i] = "running"]
    /\ prog' = [prog EXCEPT ![i] = program]
    /\ UNCHANGED <<length, inHand, flow>>

\* The first stage reads the terminal, whose input may end at any time.
Take(i) == /\ Taking(i)
           /\ IF i = 1 THEN UNCHANGED flow
              ELSE flow[i - 1] > 0 /\ flow' = [flow EXCEPT ![i - 1] = @ - 1]
           /\ inHand' = [inHand EXCEPT ![i] = TRUE]
           /\ UNCHANGED <<length, phase, prog>>

EndOfInput(i) == /\ Taking(i)
                 /\ i > 1 => flow[i - 1] = 0 /\ phase[i - 1] = "ended"
                 /\ End(i) /\ UNCHANGED flow

\* The last stage writes to the terminal.
Pass(i) == /\ Making(i)
           /\ IF i = length THEN UNCHANGED flow
              ELSE flow[i] < Capacity /\ flow' = [flow EXCEPT ![i] = @ + 1]
           /\ \/ prog[i] \in {"head", "seq"} /\ End(i)
              \/ /\ prog[i] # "head" /\ inHand' = [inHand EXCEPT ![i] = FALSE]
                 /\ UNCHANGED <<length, phase, prog>>

EndOfOutput(i) == /\ Making(i)
                  /\ i < length /\ phase[i + 1] = "ended"
                  /\ End(i) /\ UNCHANGED flow

NoProgram(i) == phase[i] = "running" /\ prog[i] = "missing" /\ End(i) /\ UNCHANGED flow

\* No more stages will start: the shell is gone.
Cut == /\ \E i \in 1 .. length : phase[i] = "unborn"
       /\ phase' = [i \in Stages |-> IF i <= length /\ phase[i] = "unborn" THEN "ended" ELSE phase[i]]
       /\ UNCHANGED <<length, prog, inHand, flow>>

Return  == length # 0 /\ (\A i \in 1 .. length : phase[i] = "ended") /\ Idle'

\* Out of descriptors, with stages still to be started.
Abandon == (\E i \in 1 .. length : phase[i] = "unborn") /\ Idle'

Next == \/ Begin \/ Cut \/ Return \/ Abandon
        \/ \E i \in Stages : \/ Start(i) \/ Take(i) \/ EndOfInput(i) \/ Pass(i)
                             \/ EndOfOutput(i) \/ NoProgram(i)

Spec == Init /\ [][Next]_flows
================================================================================

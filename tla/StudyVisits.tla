------------------------------ MODULE StudyVisits ------------------------------
(***************************************************************************)
(* What the study room of ask2 promises whatever the interleaving: the     *)
(* students show up one by one, in the order of their numbers; each finds  *)
(* on arrival, in one indivisible decision, either a free seat or a full   *)
(* room; one that found it full is seated later; nobody reads twice; and   *)
(* the room is taken down only when everybody has left.  ReadingRoom       *)
(* implements this specification.                                          *)
(*                                                                         *)
(* It does NOT promise a seat limit for the students seated later: see the *)
(* findings.                                                               *)
(***************************************************************************)
EXTENDS Integers, FiniteSets

CONSTANTS TotalStudents, MaxConcurrent

Students == 0 .. TotalStudents - 1

VARIABLES
    arrived,  \* how many students have shown up
    phase,    \* what each of them is doing
    status    \* of the room: "open", "closed" or "aborted"

visits == <<arrived, phase, status>>

Init == /\ arrived = 0
        /\ phase = [s \in Students |-> "away"]
        /\ status = "open"

Reading == {s \in Students : phase[s] = "reading"}
Move(s, from, to) == phase[s] = from /\ phase' = [phase EXCEPT ![s] = to]

ArriveSeated(s) ==
    /\ s = arrived
    /\ Cardinality(Reading) < MaxConcurrent
    /\ Move(s, "away", "reading")
    /\ arrived' = arrived + 1
    /\ UNCHANGED status

ArriveRefused(s) ==
    /\ s = arrived
    /\ Cardinality(Reading) >= MaxConcurrent
    /\ Move(s, "away", "queued")
    /\ arrived' = arrived + 1
    /\ UNCHANGED status

BeSeated(s) == Move(s, "queued", "reading") /\ UNCHANGED <<arrived, status>>
Leave(s)    == Move(s, "reading", "gone") /\ UNCHANGED <<arrived, status>>

Close == /\ \A s \in Students : phase[s] = "gone"
         /\ status' = "closed"
         /\ UNCHANGED <<arrived, phase>>
Abort == /\ \E s \in Students : phase[s] = "away"
         /\ status' = "aborted"
         /\ UNCHANGED <<arrived, phase>>

Next == /\ status = "open"
        /\ \/ \E s \in Students :
                 ArriveSeated(s) \/ ArriveRefused(s) \/ BeSeated(s) \/ Leave(s)
           \/ Close \/ Abort

Spec == Init /\ [][Next]_visits
================================================================================

------------------------------ MODULE ReadingRoom ------------------------------
(***************************************************************************)
(* The study room of ask2/threads.c: TotalStudents threads run             *)
(* thread_function, main runs workflow_manager, and all of them share one  *)
(* heap-allocated room.  Every student first waits for its turn on the     *)
(* semaphore of the student before it, then takes the mutex, and is either *)
(* seated at once or refused; a refused student polls is_full and          *)
(* waiting_line WITHOUT the mutex until it may sit down.                   *)
(*                                                                         *)
(* Grain of atomicity.  Fields that only change under the mutex and are    *)
(* only read under it (students, curr_students, state) are updated in the  *)
(* step that takes or releases the mutex.  thread_counter, waiting_line,   *)
(* is_full and the semaphores are touched without the mutex by some        *)
(* thread, so each access of one of them is a step of its own.             *)
(*                                                                         *)
(* sleep() is a step that takes any time: pthreads promise nothing about   *)
(* how long the thread between two statements stays off the processor.     *)
(***************************************************************************)
EXTENDS Integers, FiniteSets

CONSTANTS
    TotalStudents,  \* total_students, what the user typed (20..40 in main)
    MaxConcurrent,  \* MAX_CONCURRENT_THREADS and max_students, 8 in the code
    SemSlot,        \* SemSlot[j]: the index of students[] that lies on sem_enter[j]
    Clobber         \* the semaphore values a stray pointer store may leave

Students == 0 .. TotalStudents - 1

(***************************************************************************)
(* students[] has room for max_students pointers and receives one per      *)
(* student ever born, so later stores run past its end, into the block     *)
(* malloc handed out next: sem_enter.  SemSlot is where each semaphore's   *)
(* value lies, counted in slots of students[]; LayoutAssumption is what    *)
(* the proofs need of it (LayoutOfTheBuild, in ReadingRoom_proofs, shows   *)
(* that the allocator's layout for 8 seats and up to 40 students has it).  *)
(***************************************************************************)
ASSUME SizeAssumption == /\ TotalStudents \in Nat \ {0}
                         /\ MaxConcurrent \in Nat \ {0}
                         /\ Clobber \subseteq Nat
                         /\ Clobber # {}
ASSUME LayoutAssumption ==
    /\ SemSlot \in [Students -> Nat]
    /\ \A j \in Students : /\ SemSlot[j] > j + 1
                           /\ j >= MaxConcurrent => SemSlot[j] >= TotalStudents

Nobody == -1   \* the mutex is free
Wild   == -1   \* a slot of students[] that holds no valid pointer

VARIABLES
    mainPc,         \* where workflow_manager is
    mainI,          \* its loop variable i
    pc,             \* where each student's thread is
    mutex,          \* room->mutex: its owner or Nobody
    sem,            \* room->sem_enter
    students,       \* room->students
    currStudents,   \* room->curr_students
    threadCounter,  \* thread_counter
    waitingLine,    \* room->waiting_line
    isFull,         \* room->is_full
    state,          \* student.state
    refused         \* history: the students told that the room is full

room == <<sem, students, currStudents, threadCounter, waitingLine, isFull>>
vars == <<mainPc, mainI, pc, mutex, room, state, refused>>

(***************************************************************************)
(* Locations of a thread, each named for the statement it runs next.       *)
(***************************************************************************)
Arriving == {"unborn", "turn", "register"}
Seating  == {"admit", "advance", "post", "sit"}             \* mutex held
Polling  == {"testFull", "testLine", "nap", "remark"}
Waiting  == {"pass", "mark", "relock"} \cup Polling
Entering == {"reseat", "repost"}                            \* mutex held
Leaving  == {"testEmpty", "clear", "done"}
Location == Arriving \cup Seating \cup Waiting \cup Entering \cup {"study"} \cup Leaving

Init == /\ mainPc = "create" /\ mainI = 0
        /\ pc = [s \in Students |-> "unborn"]
        /\ mutex = Nobody
        /\ sem = [s \in Students |-> 0]
        /\ students = [k \in Students |-> Wild]
        /\ currStudents = 0
        /\ threadCounter = 0
        /\ waitingLine = 0
        /\ isFull = 0
        /\ state = [s \in Students |-> "WAITING"]
        /\ refused = {}

Goto(s, from, to) == pc[s] = from /\ pc' = [pc EXCEPT ![s] = to]

Acquire(s) == mutex = Nobody /\ mutex' = s
Release    == mutex' = Nobody

\* A store through sem_enter[j], and a store through students[k]: each also
\* changes what overlaps it.
SemStore(j, v) ==
    /\ sem' = [sem EXCEPT ![j] = v]
    /\ students' = [k \in Students |-> IF k = SemSlot[j] THEN Wild ELSE students[k]]
SlotStore(k, s) ==
    /\ students' = [students EXCEPT ![k] = s]
    /\ \E v \in Clobber :
          sem' = [j \in Students |-> IF SemSlot[j] = k THEN v ELSE sem[j]]

SemWait(j) == sem[j] > 0 /\ SemStore(j, sem[j] - 1)
SemPost(j) == SemStore(j, sem[j] + 1)
--------------------------------------------------------------------------------
(***************************************************************************)
(* workflow_manager: the thread that creates, joins and frees.             *)
(***************************************************************************)
CreateStudent ==
    /\ mainPc = "create"
    /\ pc' = [pc EXCEPT ![mainI] = "turn"]
    /\ IF mainI + 1 < TotalStudents
       THEN mainI' = mainI + 1 /\ UNCHANGED mainPc
       ELSE mainI' = 0 /\ mainPc' = "join"
    /\ UNCHANGED <<mutex, room, state, refused>>

\* pthread_create returned an error: main returns, and the process with it.
CreateFails ==
    /\ mainPc = "create"
    /\ mainPc' = "failed"
    /\ UNCHANGED <<mainI, pc, mutex, room, state, refused>>

MutJoinSkipsLast ==
    /\ mainPc = "join"
    /\ pc[mainI] = "done"
    /\ IF mainI + 2 < TotalStudents
       THEN mainI' = mainI + 1 /\ UNCHANGED mainPc
       ELSE mainI' = mainI /\ mainPc' = "free"
    /\ UNCHANGED <<pc, mutex, room, state, refused>>

JoinStudent ==
    /\ mainPc = "join"
    /\ pc[mainI] = "done"
    /\ IF mainI + 1 < TotalStudents
       THEN mainI' = mainI + 1 /\ UNCHANGED mainPc
       ELSE mainI' = mainI /\ mainPc' = "free"
    /\ UNCHANGED <<pc, mutex, room, state, refused>>

FreeRoom ==
    /\ mainPc = "free"
    /\ mainPc' = "done"
    /\ UNCHANGED <<mainI, pc, mutex, room, state, refused>>

Main == CreateStudent \/ JoinStudent \/ FreeRoom
--------------------------------------------------------------------------------
MutTakeTurnUnasked(s) ==
    /\ Goto(s, "turn", "register")
    /\ IF s > 1 THEN SemWait(s - 1) ELSE UNCHANGED <<sem, students>>
    /\ UNCHANGED <<mainPc, mainI, mutex, currStudents, threadCounter, waitingLine, isFull, state, refused>>

(***************************************************************************)
(* thread_function, up to the mutex: the turn is handed from each student  *)
(* to the next.                                                            *)
(***************************************************************************)
TakeTurn(s) ==
    /\ Goto(s, "turn", "register")
    /\ IF s # 0 THEN SemWait(s - 1) ELSE UNCHANGED <<sem, students>>
    /\ UNCHANGED <<mainPc, mainI, mutex, currStudents, threadCounter, waitingLine, isFull, state, refused>>

(***************************************************************************)
(* Under the mutex the student enters itself in students[] and finds a     *)
(* seat free, keeping the mutex, or is refused, releasing it.              *)
(***************************************************************************)
RegisterIf(s, full) ==
    /\ pc[s] = "register"
    /\ mutex = Nobody
    /\ SlotStore(currStudents, s)
    /\ currStudents' = currStudents + 1
    /\ IF full
       THEN /\ pc' = [pc EXCEPT ![s] = "pass"]
            /\ refused' = refused \cup {s}
            /\ UNCHANGED mutex
       ELSE /\ pc' = [pc EXCEPT ![s] = "admit"]
            /\ mutex' = s
            /\ UNCHANGED refused
    /\ UNCHANGED <<mainPc, mainI, threadCounter, waitingLine, isFull, state>>

MutRegisterOneTooMany(s) == RegisterIf(s, threadCounter > MaxConcurrent)

Register(s) == RegisterIf(s, threadCounter >= MaxConcurrent)

\* Seated at once: thread_counter++, waiting_line++, hand the turn on, sit.
Admit(s) ==
    /\ Goto(s, "admit", "advance")
    /\ threadCounter' = threadCounter + 1
    /\ UNCHANGED <<mainPc, mainI, mutex, sem, students, currStudents, waitingLine, isFull, state, refused>>

MutAdvanceUncounted(s) ==
    /\ Goto(s, "advance", "post")
    /\ UNCHANGED <<mainPc, mainI, mutex, room, state, refused>>

Advance(s) ==
    /\ Goto(s, "advance", "post")
    /\ waitingLine' = waitingLine + 1
    /\ UNCHANGED <<mainPc, mainI, mutex, sem, students, currStudents, threadCounter, isFull, state, refused>>

MutPostTurnSkipped(s) ==
    /\ Goto(s, "post", "sit")
    /\ UNCHANGED <<mainPc, mainI, mutex, room, state, refused>>

PostTurn(s) ==
    /\ Goto(s, "post", "sit")
    /\ SemPost(s)
    /\ UNCHANGED <<mainPc, mainI, mutex, currStudents, threadCounter, waitingLine, isFull, state, refused>>

SitDown(s) ==
    /\ Goto(s, "sit", "study")
    /\ state' = [state EXCEPT ![s] = "STUDYING"]
    /\ Release
    /\ UNCHANGED <<mainPc, mainI, room, refused>>

MutPassTurnKept(s) ==
    /\ Goto(s, "pass", "mark")
    /\ UNCHANGED <<mainPc, mainI, mutex, room, state, refused>>

\* Refused: hand the turn on, then mark the room full; the mutex is free.
PassTurn(s) ==
    /\ Goto(s, "pass", "mark")
    /\ SemPost(s)
    /\ UNCHANGED <<mainPc, mainI, mutex, currStudents, threadCounter, waitingLine, isFull, state, refused>>

MarkFull(s) ==
    /\ Goto(s, "mark", "testFull")
    /\ isFull' = 1
    /\ UNCHANGED <<mainPc, mainI, mutex, sem, students, currStudents, threadCounter, waitingLine, state, refused>>

\* The polling loop: its condition is two reads, left to right.
TestFull(s) ==
    /\ Goto(s, "testFull", IF isFull = 1 THEN "nap" ELSE "testLine")
    /\ UNCHANGED <<mainPc, mainI, mutex, room, state, refused>>

MutTestLineReached(s) ==
    /\ Goto(s, "testLine", IF waitingLine < s THEN "nap" ELSE "relock")
    /\ UNCHANGED <<mainPc, mainI, mutex, room, state, refused>>

MutTestLineIgnored(s) ==
    /\ Goto(s, "testLine", "relock")
    /\ UNCHANGED <<mainPc, mainI, mutex, room, state, refused>>

TestLine(s) ==
    /\ Goto(s, "testLine", IF waitingLine # s THEN "nap" ELSE "relock")
    /\ UNCHANGED <<mainPc, mainI, mutex, room, state, refused>>

\* sleep(1), then one more look at thread_counter, acted on a step later.
Nap(s) ==
    /\ Goto(s, "nap", IF threadCounter = MaxConcurrent THEN "remark" ELSE "testFull")
    /\ UNCHANGED <<mainPc, mainI, mutex, room, state, refused>>

RemarkFull(s) ==
    /\ Goto(s, "remark", "testFull")
    /\ isFull' = 1
    /\ UNCHANGED <<mainPc, mainI, mutex, sem, students, currStudents, threadCounter, waitingLine, state, refused>>

MutTakePlaceUnlocked(s) ==
    /\ Goto(s, "relock", "reseat")
    /\ waitingLine' = waitingLine + 1
    /\ UNCHANGED <<mainPc, mainI, mutex, sem, students, currStudents, threadCounter, isFull, state, refused>>

\* A refused student sits down, under the mutex, without testing anything again.
TakePlace(s) ==
    /\ Goto(s, "relock", "reseat")
    /\ Acquire(s)
    /\ waitingLine' = waitingLine + 1
    /\ UNCHANGED <<mainPc, mainI, sem, students, currStudents, threadCounter, isFull, state, refused>>

MutTakeSeatUncounted(s) ==
    /\ Goto(s, "reseat", "repost")
    /\ state' = [state EXCEPT ![s] = "STUDYING"]
    /\ UNCHANGED <<mainPc, mainI, mutex, sem, students, currStudents, threadCounter, waitingLine, isFull, refused>>

TakeSeat(s) ==
    /\ Goto(s, "reseat", "repost")
    /\ threadCounter' = threadCounter + 1
    /\ state' = [state EXCEPT ![s] = "STUDYING"]
    /\ UNCHANGED <<mainPc, mainI, mutex, sem, students, currStudents, waitingLine, isFull, refused>>

RepostTurn(s) ==
    /\ Goto(s, "repost", "study")
    /\ SemPost(s)
    /\ Release
    /\ UNCHANGED <<mainPc, mainI, currStudents, threadCounter, waitingLine, isFull, state, refused>>

MutStopStudyingLocked(s) ==
    /\ Goto(s, "study", "testEmpty")
    /\ Acquire(s)
    /\ state' = [state EXCEPT ![s] = "FINISHED"]
    /\ threadCounter' = threadCounter - 1
    /\ UNCHANGED <<mainPc, mainI, sem, students, currStudents, waitingLine, isFull, refused>>

\* Leaving: counted out under the mutex, the reset of is_full outside it.
StopStudying(s) ==
    /\ Goto(s, "study", "testEmpty")
    /\ mutex = Nobody
    /\ state' = [state EXCEPT ![s] = "FINISHED"]
    /\ threadCounter' = threadCounter - 1
    /\ UNCHANGED <<mainPc, mainI, mutex, sem, students, currStudents, waitingLine, isFull, refused>>

MutTestEmptyAny(s) ==
    /\ Goto(s, "testEmpty", "clear")
    /\ UNCHANGED <<mainPc, mainI, mutex, room, state, refused>>

TestEmpty(s) ==
    /\ Goto(s, "testEmpty", IF threadCounter = 0 THEN "clear" ELSE "done")
    /\ UNCHANGED <<mainPc, mainI, mutex, room, state, refused>>

ClearFull(s) ==
    /\ Goto(s, "clear", "done")
    /\ isFull' = 0
    /\ UNCHANGED <<mainPc, mainI, mutex, sem, students, currStudents, threadCounter, waitingLine, state, refused>>

Thread(s) ==
    \/ TakeTurn(s) \/ Register(s)
    \/ Admit(s) \/ Advance(s) \/ PostTurn(s) \/ SitDown(s)
    \/ PassTurn(s) \/ MarkFull(s) \/ TestFull(s) \/ TestLine(s) \/ Nap(s) \/ RemarkFull(s)
    \/ TakePlace(s) \/ TakeSeat(s) \/ RepostTurn(s)
    \/ StopStudying(s) \/ TestEmpty(s) \/ ClearFull(s)
--------------------------------------------------------------------------------
\* When main returns, normally or because of an error, every thread is gone.
Running == mainPc \notin {"failed", "done"}
Exited  == ~Running /\ UNCHANGED vars

Next == \/ Running /\ (Main \/ CreateFails \/ \E s \in Students : Thread(s))
        \/ Exited

Spec == Init /\ [][Next]_vars

(***************************************************************************)
(* The scheduler runs every runnable thread again and again and every      *)
(* sleep ends; thread creation need not fail.  Weak fairness is enough for *)
(* the mutex: a thread takes it at most three times, so it cannot be       *)
(* contended for ever.                                                     *)
(***************************************************************************)
FairSpec == /\ Spec
            /\ WF_vars(Running /\ Main)
            /\ \A s \in Students : WF_vars(Running /\ Thread(s))
--------------------------------------------------------------------------------
(***************************************************************************)
(* The timing the program is run under: creating and registering at most   *)
(* 40 threads takes milliseconds, MIN_STUDY_TIME is five seconds, so no    *)
(* study ends before everybody is seated or polls.  PunctualSpec assumes   *)
(* this and nothing else about time; the properties that need it say so.   *)
(***************************************************************************)
AllArrived == \A s \in Students :
                 pc[s] \notin Arriving \cup Seating \cup {"pass", "mark"}
Punctual == (\E s \in Students : pc[s] = "study" /\ pc'[s] # "study") => AllArrived

PunctualSpec == Init /\ [][Next /\ Punctual]_vars
FairPunctualSpec == /\ PunctualSpec
                    /\ WF_vars(Running /\ Main)
                    /\ \A s \in Students : WF_vars(Running /\ Thread(s) /\ Punctual)
--------------------------------------------------------------------------------
TypeOK ==
    /\ mainPc \in {"create", "join", "free", "done", "failed"}
    /\ mainI \in Students
    /\ pc \in [Students -> Location]
    /\ mutex \in Students \cup {Nobody}
    /\ sem \in [Students -> Nat]
    /\ students \in [Students -> Students \cup {Wild}]
    /\ currStudents \in 0 .. TotalStudents
    /\ threadCounter \in Nat
    /\ waitingLine \in Nat
    /\ isFull \in {0, 1}
    /\ state \in [Students -> {"STUDYING", "WAITING", "FINISHED"}]
    /\ refused \in SUBSET Students

Registered(s) == pc[s] \notin Arriving
OnSeat  == {"advance", "post", "sit", "repost", "study"}
Counted == {"post", "sit", "reseat", "repost", "study"} \cup Leaving
At(L)   == {s \in Students : pc[s] \in L}

\* Students register in the order of their numbers, and students[k] still
\* holds student k when print_room and free_room follow it: neither the
\* semaphore a refused student posts twice nor the stores past the end of
\* students[], which fall on semaphores, break the hand-over of the turn.
TurnOrder == /\ \A s \in Students : Registered(s) <=> s < currStudents
             /\ \A k \in Students : k < currStudents => students[k] = k

\* thread_counter, though read and acted upon without the mutex, always is
\* the number of students that hold a seat.
SeatAccounting == threadCounter = Cardinality(At(OnSeat))

\* waiting_line always is the number of students that went past the line,
\* by whichever of the two ways into the room.
LineAccounting == waitingLine = Cardinality(At(Counted))

\* A student seated at once finds the seat it was shown: between the test of
\* thread_counter and its increment nobody, polling students included, can
\* take the last one.
AdmissionSafe == \A s \in Students : pc[s] = "admit" => threadCounter < MaxConcurrent

\* free_room runs when no thread can touch the room any more, including the
\* accesses a leaving thread makes after it released the mutex.
RoomOutlivesThreads ==
    mainPc \in {"free", "done"} => \A s \in Students : pc[s] = "done"

Overtaken(s) == pc[s] \in Waiting \ {"relock"} /\ waitingLine > s

\* A polling student whose number waiting_line has passed never gets in: the
\* test in the loop is an equality.
OvertakenForever == [][\A s \in Students : Overtaken(s) => Overtaken(s)']_vars

\* There are only two ways the room can hang.  When every thread has left or
\* polls, some polling student has its turn now, so that only is_full stuck
\* at 1 keeps it out, or was overtaken.
HangIsKnown ==
    /\ \A s \in Students : pc[s] \in {"testFull", "testLine", "nap", "done"}
    /\ \E s \in Students : pc[s] # "done"
    => \E s \in Students : pc[s] \in Polling /\ s <= waitingLine

\* Under the program's timing refused students enter in the order they came:
\* waiting_line never runs past one that waits.
QueueOrder == \A s \in Students : pc[s] \in Waiting => waitingLine <= s

\* Under the program's timing a refused student enters only when the first batch,
\* all those that were never refused, has left.  Of refused students nothing is said:
\* they sit down beside each other, against README.md:8, as SeatLimit shows.
WaitsForBatch ==
    \A r \in refused : pc[r] \notin Waiting =>
        \A s \in Students \ refused : pc[s] \in Leaving

\* No more students study than the room has seats (README.md:6).
SeatLimit == threadCounter <= MaxConcurrent

\* What the program keeps of it: when the first batch has left, everybody refused may
\* sit down at once, so the seats taken are bounded by those or by the students behind
\* the first MaxConcurrent, whichever is more.
SeatsTaken == threadCounter <= MaxConcurrent \/ threadCounter + MaxConcurrent <= TotalStudents

\* All students get their turns to register, though none of those before them
\* need ever leave: the refused hand the turn on before they wait.
EveryoneArrives == <>((\A s \in Students : Registered(s)) \/ mainPc = "failed")

\* The room always empties again: no seat is held for ever, whatever becomes
\* of the students that poll.
RoomEmpties == []<>(threadCounter = 0 \/ mainPc = "failed")

\* If nobody is ever refused everybody studies, leaves and is joined, and the
\* room is freed.
ClosesUnlessRefused == <>(refused # {} \/ mainPc \in {"done", "failed"})

\* A refused student waits until those studying leave, and then studies
\* (README.md:8), unless main fails to create a thread and takes all with it.
RefusedGetIn == \A s \in Students : s \in refused ~> pc[s] = "study" \/ mainPc = "failed"
--------------------------------------------------------------------------------
(***************************************************************************)
(* The room implements StudyVisits.  A student seated at once arrives when *)
(* it counts itself, one step after it registered under the same mutex.    *)
(***************************************************************************)
PhaseOf(l) == IF l \in Arriving \cup {"admit"} THEN "away"
              ELSE IF l \in Waiting \cup {"reseat"} THEN "queued"
              ELSE IF l \in Leaving THEN "gone" ELSE "reading"

Arrived == IF \E s \in Students : pc[s] = "admit" THEN currStudents - 1 ELSE currStudents
Phase   == [s \in Students |-> PhaseOf(pc[s])]
Status  == IF mainPc = "failed" THEN "aborted" ELSE IF mainPc = "done" THEN "closed" ELSE "open"

Visits == INSTANCE StudyVisits WITH arrived <- Arrived, phase <- Phase, status <- Status

\* Every step of the room is a step of StudyVisits or none at all.
ImplementsVisits == Visits!Spec
================================================================================

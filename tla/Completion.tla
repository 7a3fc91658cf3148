------------------------------ MODULE Completion ------------------------------
(***************************************************************************)
(* Completions, as sched.c of Linux 2.6.38 has them: a counter of events   *)
(* and a queue of exclusive waiters behind one spinlock.  A waiter goes to *)
(* sleep in several steps, between which it can be woken by an event, a    *)
(* signal or its timer; an event wakes the first waiter that is really     *)
(* asleep.                                                                 *)
(*                                                                         *)
(* External: the timer of schedule_timeout and the delivery of signals.    *)
(***************************************************************************)
EXTENDS Integers, Sequences, FiniteSets, SequencesExt

CONSTANTS
    Tasks,         \* who waits
    Waits,         \* the waits they do
    MaxCompletes,  \* how often complete is called
    MaxAlls,       \* and complete_all
    UintMax        \* the largest value of the counter

ASSUME TasksAssumption == IsFiniteSet(Tasks)

\* Interruptible stands for killable too, which a fatal signal interrupts.
ASSUME WaitsAssumption == Waits \subseteq [interruptible : BOOLEAN, timed : BOOLEAN]
ASSUME UintAssumption == UintMax \in Nat /\ UintMax >= 3
ASSUME BoundsAssumption == MaxCompletes \in Nat /\ MaxAlls \in Nat

All == UintMax \div 2
Wrap(n) == n % (UintMax + 1)

VARIABLES
    done,      \* x->done
    queue,     \* x->wait, first waiter first
    pc,        \* where a waiter is in do_wait_for_common
    wait,      \* the wait it is in
    sleeping,  \* its task state is not TASK_RUNNING
    left,      \* its timeout has not run out
    pending,   \* a signal is pending that its wait heeds
    completes, \* history: calls of complete
    alls,      \* history: calls of complete_all
    granted    \* history: waits that returned success

waiter == <<pc, wait, sleeping, left, pending>>
counts == <<completes, alls, granted>>
vars   == <<done, queue, waiter, counts>>

NoWait == [interruptible |-> FALSE, timed |-> FALSE]

Init == /\ done = 0 /\ queue = <<>>
        /\ pc = [w \in Tasks |-> "idle"]
        /\ wait = [w \in Tasks |-> NoWait]
        /\ sleeping = [w \in Tasks |-> FALSE]
        /\ left = [w \in Tasks |-> TRUE]
        /\ pending = [w \in Tasks |-> FALSE]
        /\ completes = 0 /\ alls = 0 /\ granted = 0

\* The spinlock: a waiter keeps it until it has set its state.
Unlocked == \A w \in Tasks : pc[w] # "set"

Asleep(w) == pc[w] = "asleep" /\ sleeping[w]
Up(w) == pc[w] = "asleep" /\ ~sleeping[w] /\ Unlocked

\* __remove_wait_queue.
Without(w) == RemoveAt(queue, CHOOSE i \in 1 .. Len(queue) : queue[i] = w)

Goto(w, to) == pc' = [pc EXCEPT ![w] = to]

\* Back to the caller, who handles the signal.
Leave(w) == /\ Goto(w, "idle")
            /\ wait' = [wait EXCEPT ![w] = NoWait]
            /\ left' = [left EXCEPT ![w] = TRUE]
            /\ pending' = [pending EXCEPT ![w] = FALSE]
            /\ UNCHANGED sleeping
--------------------------------------------------------------------------------
(***************************************************************************)
(* do_wait_for_common.                                                     *)
(***************************************************************************)
WaitAtOnce(w) ==
    /\ pc[w] = "idle" /\ Unlocked /\ done > 0
    /\ done' = done - 1 /\ granted' = granted + 1
    /\ Leave(w)
    /\ UNCHANGED <<queue, completes, alls>>

\* A wait that finds a signal pending already leaves within the same hold of the
\* spinlock, and everything as it was.
Wait(w) == \E k \in Waits :
    /\ pc[w] = "idle" /\ Unlocked /\ done = 0
    /\ queue' = Append(queue, w)
    /\ wait' = [wait EXCEPT ![w] = k]
    /\ Goto(w, "set")
    /\ UNCHANGED <<done, sleeping, left, pending, counts>>

SetState(w) ==
    /\ pc[w] = "set"
    /\ sleeping' = [sleeping EXCEPT ![w] = TRUE]
    /\ Goto(w, "schedule")
    /\ UNCHANGED <<done, queue, wait, left, pending, counts>>

MutSchedule(w) ==
    /\ pc[w] = "schedule" /\ Goto(w, "asleep")
    /\ UNCHANGED <<done, queue, wait, sleeping, left, pending, counts>>

\* schedule() takes the task off the run queue, unless it has been woken meanwhile or
\* has a signal.
Schedule(w) ==
    /\ pc[w] = "schedule" /\ Goto(w, "asleep")
    /\ sleeping' = [sleeping EXCEPT ![w] = @ /\ ~pending[w]]
    /\ UNCHANGED <<done, queue, wait, left, pending, counts>>

\* signal_pending_state is asked before the state is set, with the spinlock held.
Again(w) ==
    /\ Up(w) /\ done = 0 /\ left[w] /\ ~pending[w]
    /\ Goto(w, "set")
    /\ UNCHANGED <<done, queue, wait, sleeping, left, pending, counts>>

MutGiveUp(w) ==
    /\ Up(w) /\ done = 0 /\ (pending[w] \/ ~left[w])
    /\ Leave(w)
    /\ UNCHANGED <<done, queue, counts>>

GiveUp(w) ==
    /\ Up(w) /\ done = 0 /\ (pending[w] \/ ~left[w])
    /\ queue' = Without(w)
    /\ Leave(w)
    /\ UNCHANGED <<done, counts>>

MutTake(w) ==
    /\ Up(w) /\ done > 0
    /\ done' = done - 1 /\ granted' = IF left[w] THEN granted + 1 ELSE granted
    /\ queue' = Without(w)
    /\ Leave(w)
    /\ UNCHANGED <<completes, alls>>

\* Whatever woke it: timeout ?: 1 makes a success even of one that came too late.
Take(w) ==
    /\ Up(w) /\ done > 0
    /\ done' = done - 1 /\ granted' = granted + 1
    /\ queue' = Without(w)
    /\ Leave(w)
    /\ UNCHANGED <<completes, alls>>

Waiting(w) == SetState(w) \/ Schedule(w) \/ Again(w) \/ GiveUp(w) \/ Take(w)
--------------------------------------------------------------------------------
(***************************************************************************)
(* complete and its relatives.                                             *)
(***************************************************************************)
\* try_to_wake_up makes the task runnable, and says so only if it was off the run
\* queue: one that had not got round to schedule() counts as not woken.
Wake(woken) == sleeping' = [w \in Tasks |-> sleeping[w] /\ w \notin woken]

MutWakeUpCommon(nr) == Wake({queue[i] : i \in {k \in 1 .. Len(queue) : nr = 0 \/ k = 1}})

\* __wake_up_common walks down the queue, with nr = 1 until it has woken one.
WakeUpCommon(nr) ==
    Wake({queue[i] : i \in {k \in 1 .. Len(queue) :
              nr = 0 \/ \A j \in 1 .. k - 1 : ~Asleep(queue[j])}})

complete ==
    /\ completes < MaxCompletes /\ Unlocked
    /\ completes' = completes + 1
    /\ done' = Wrap(done + 1)
    /\ WakeUpCommon(1)
    /\ UNCHANGED <<queue, pc, wait, left, pending, alls, granted>>

complete_all ==
    /\ alls < MaxAlls /\ Unlocked
    /\ alls' = alls + 1
    /\ done' = Wrap(done + All)
    /\ WakeUpCommon(0)
    /\ UNCHANGED <<queue, pc, wait, left, pending, completes, granted>>

try_wait_for_completion ==
    /\ Unlocked /\ done > 0
    /\ done' = done - 1 /\ granted' = granted + 1
    /\ UNCHANGED <<queue, waiter, completes, alls>>

\* The timer, and a signal, wake a task that is on its way to sleep as well.
Timer(w) == /\ pc[w] \in {"schedule", "asleep"} /\ wait[w].timed /\ left[w]
            /\ left' = [left EXCEPT ![w] = FALSE]
            /\ sleeping' = [sleeping EXCEPT ![w] = FALSE]
            /\ UNCHANGED <<done, queue, pc, wait, pending, counts>>

Signal(w) ==
    /\ pc[w] # "idle" /\ wait[w].interruptible
    /\ pending' = [pending EXCEPT ![w] = TRUE]
    /\ sleeping' = [sleeping EXCEPT ![w] = FALSE]
    /\ UNCHANGED <<done, queue, pc, wait, left, counts>>

Next == \/ complete \/ complete_all \/ try_wait_for_completion
        \/ \E w \in Tasks : WaitAtOnce(w) \/ Wait(w) \/ Waiting(w) \/ Timer(w) \/ Signal(w)

Spec == Init /\ [][Next]_vars

\* A waiter runs when it can, its spinlock is a fair one, and its timer runs out.
FairSpec == Spec /\ \A w \in Tasks :
                /\ WF_vars(Waiting(w)) /\ WF_vars(Timer(w))
                /\ SF_vars(Again(w) \/ GiveUp(w) \/ Take(w))
--------------------------------------------------------------------------------
TypeOK ==
    /\ done \in 0 .. UintMax
    /\ queue \in Seq(Tasks)
    /\ pc \in [Tasks -> {"idle", "set", "schedule", "asleep"}]
    /\ wait \in [Tasks -> Waits \cup {NoWait}]
    /\ sleeping \in [Tasks -> BOOLEAN] /\ left \in [Tasks -> BOOLEAN]
    /\ pending \in [Tasks -> BOOLEAN]
    /\ completes \in 0 .. MaxCompletes /\ alls \in 0 .. MaxAlls /\ granted \in Nat

\* The counter is what was signalled and not yet granted, in the arithmetic of an
\* unsigned int: a wait that returned success took one event, and one that timed out
\* or was interrupted took none, whatever raced with it.
Conserved == done = Wrap(completes + All * alls - granted)

\* No event waits for a task that sleeps through it: as many queued tasks are up as
\* there are events, or all of them.
NotAsleep == {w \in Range(queue) : ~sleeping[w]}
NoneStranded == Cardinality(NotAsleep) >= done \/ NotAsleep = Range(queue)

\* Everyone that waits is in the queue once, wherever a timeout or signal caught it.
QueuedOnce == /\ \A i, k \in 1 .. Len(queue) : queue[i] = queue[k] => i = k
              /\ Range(queue) = {w \in Tasks : pc[w] # "idle"}

\* No wakeup is lost: an event and a waiter for it do not stay side by side for ever.
Delivered == done > 0 /\ queue # <<>> ~> done = 0 \/ queue = <<>>

\* A signal, or the end of its time, gets a waiter out, at whatever step of going to
\* sleep it came.
Ends == \A w \in Tasks : pending[w] \/ wait[w].timed ~> pc[w] = "idle"
================================================================================

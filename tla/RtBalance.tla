------------------------------ MODULE RtBalance -------------------------------
(***************************************************************************)
(* How Linux 2.6.38 spreads real-time tasks over its CPUs (sched_rt.c, and *)
(* the callers of its hooks in sched.c): a run queue with more real-time   *)
(* tasks than it can run pushes them to CPUs of lower priority, and a CPU  *)
(* whose priority falls pulls them.  Nobody sees all run queues at once: a *)
(* push or a pull drops the lock of its own queue to take two in order     *)
(* (double_lock_balance), and decides what to look at from fields it reads *)
(* without a lock.                                                         *)
(*                                                                         *)
(* A step is what is done under locks that are not released in between.  A *)
(* push or pull that keeps the lock of its queue from one step to the next *)
(* has op[e].pc in {"push", "retry", "pull"}.  Smaller numbers are higher  *)
(* priorities, as in the kernel.  All CPUs stay online, nothing is         *)
(* throttled, and tasks stay in the real-time class.                       *)
(***************************************************************************)
EXTENDS Naturals, FiniteSets, SequencesExt

CONSTANTS
    NCpus,     \* CPUs are 1 .. NCpus, in the order of the masks
    Tasks,     \* the real-time tasks
    MaxRtPrio, \* MAX_RT_PRIO; real-time priorities are 1 .. MaxRtPrio - 1
    Start,     \* priority of each task at first
    Prios,     \* what their priorities are changed to
    Masks,     \* what cpus_allowed is set to
    Callers,   \* threads that set it
    None, Idle, Stop

ASSUME CpusAssumption == NCpus \in Nat \ {0}
\* Tasks differ from what else may stand in their place: what runs when none does, and what
\* a CPU goes on with.  A request to a stopper is never None.
ASSUME TasksAssumption ==
    /\ IsFiniteSet(Tasks)
    /\ {None, Idle, Stop, "switch", "post", "woken"} \cap Tasks = {} /\ Idle # Stop
    /\ None \notin [task : Tasks, cpu : 1 .. NCpus, to : 1 .. NCpus]
ASSUME PriosAssumption == /\ MaxRtPrio \in Nat \ {0} /\ Start \in [Tasks -> 1 .. MaxRtPrio - 1]
                          /\ Prios \in [Tasks -> SUBSET (1 .. MaxRtPrio - 1)]
ASSUME MasksAssumption == Masks \in [Tasks -> SUBSET ((SUBSET (1 .. NCpus)) \ {{}})]

Cpus == 1 .. NCpus
RT_MAX_TRIES == 3

VARIABLES
    k,        \* the kernel's tasks and run queues, a record
    op,       \* what each CPU is executing, with interrupts off
    asked,    \* what each caller has found a stopper must move, and not yet told it; or None
    stopper,  \* the work of each CPU's stopper thread: a task to move, or None
    lost      \* history: CPUs that prio_changed_rt gave a task and did not tell

work == <<asked, stopper>>
vars == <<k, op, work, lost>>

NoOp == [pc |-> "none"]

\* Of tasks: cpu, asleep or waking, on_rq, prio, cpus_allowed.  Of run queues: curr, its
\* TIF_NEED_RESCHED, the array of lists as one sequence, pushable_tasks, highest_prio,
\* rt_nr_migratory, overloaded (with its bit in rto_mask), post_schedule.
Init == /\ \E at \in [Tasks -> Cpus] :
              k = [ cpu |-> at,
                    state |-> [p \in Tasks |-> "asleep"],
                    on_rq |-> [p \in Tasks |-> FALSE],
                    prio |-> Start,
                    allowed |-> [p \in Tasks |-> Cpus],
                    curr |-> [c \in Cpus |-> Idle],
                    resched |-> [c \in Cpus |-> FALSE],
                    queue |-> [c \in Cpus |-> <<>>],
                    pushable |-> [c \in Cpus |-> <<>>],
                    highest |-> [c \in Cpus |-> MaxRtPrio],
                    next |-> [c \in Cpus |-> MaxRtPrio],
                    migratory |-> [c \in Cpus |-> 0],
                    overloaded |-> [c \in Cpus |-> FALSE],
                    post |-> [c \in Cpus |-> FALSE] ]
        /\ op = [e \in Cpus |-> NoOp]
        /\ asked = [a \in Callers |-> None]
        /\ stopper = [c \in Cpus |-> None]
        /\ lost = {}
--------------------------------------------------------------------------------
(***************************************************************************)
(* The fields of a run queue.                                              *)
(***************************************************************************)
weight(s, p) == Cardinality(s.allowed[p])

\* Idle stands for the idle task and for tasks of other classes.  The stopper poses as a
\* SCHED_FIFO task of the highest priority, bound to its CPU.
PrioOf(s, x) == CASE x = Stop -> 0 [] x = Idle -> MaxRtPrio + 1 [] OTHER -> s.prio[x]
Pinned(s, x) == x = Stop \/ (x \in Tasks /\ weight(s, x) = 1)
rt_task(x) == x # Idle

\* p before the i-th task of a list, or at its end for 0: in front of the first task of a
\* lower priority, or in front of those of its own.
Before(list, i, p) == InsertAt(list, IF i = 0 THEN Len(list) + 1 ELSE i, p)
AddTail(s, list, p) == Before(list, SelectInSeq(list, LAMBDA x : s.prio[x] > s.prio[p]), p)
AddHead(s, list, p) == Before(list, SelectInSeq(list, LAMBDA x : s.prio[x] >= s.prio[p]), p)

enqueue_pushable_task(s, c, p) ==
    [s EXCEPT !.pushable[c] = AddTail(s, RemoveFirst(@, p), p)]
dequeue_pushable_task(s, c, p) == [s EXCEPT !.pushable[c] = RemoveFirst(@, p)]

\* The highest task of c that could run on CPU d instead.
pick_next_highest_task_rt(s, c, d) ==
    LET i == SelectInSeq(s.queue[c], LAMBDA p : s.curr[c] # p /\ d \in s.allowed[p] /\ weight(s, p) > 1)
    IN  IF i = 0 THEN None ELSE s.queue[c][i]

next_prio(s, c) == LET p == pick_next_highest_task_rt(s, c, c)
                   IN  IF p = None THEN MaxRtPrio ELSE s.prio[p]

inc_rt_prio(s, c, prio) ==
    LET prev == s.highest[c]
    IN  CASE prio < prev -> [s EXCEPT !.highest[c] = prio, !.next[c] = prev]
          [] prio = prev -> [s EXCEPT !.next[c] = prio]
          [] prio > prev -> [s EXCEPT !.next[c] = IF prio < @ THEN next_prio(s, c) ELSE @]

dec_rt_prio(s, c, prio) ==
    LET queue == s.queue[c]
    IN  IF queue = <<>> THEN [s EXCEPT !.highest[c] = MaxRtPrio]
        ELSE [s EXCEPT !.highest[c] = IF prio = @ THEN s.prio[Head(queue)] ELSE @,
                       !.next[c] = IF prio <= @ THEN next_prio(s, c) ELSE @]

update_rt_migration(s, c) ==
    [s EXCEPT !.overloaded[c] = s.migratory[c] > 0 /\ Len(s.queue[c]) > 1]

inc_rt_tasks(s, c, p) ==
    LET s1 == inc_rt_prio(s, c, s.prio[p])
    IN  update_rt_migration([s1 EXCEPT !.migratory[c] = IF weight(s, p) > 1 THEN @ + 1 ELSE @], c)

dec_rt_tasks(s, c, p) ==
    LET s1 == dec_rt_prio(s, c, s.prio[p])
    IN  update_rt_migration([s1 EXCEPT !.migratory[c] = IF weight(s, p) > 1 THEN @ - 1 ELSE @], c)

activate_task(s, p, head) ==
    LET c == s.cpu[p]
        list == IF head THEN AddHead(s, s.queue[c], p) ELSE AddTail(s, s.queue[c], p)
        s1 == inc_rt_tasks([s EXCEPT !.queue[c] = list, !.on_rq[p] = TRUE], c, p)
    IN  IF s.curr[c] # p /\ weight(s, p) > 1 THEN enqueue_pushable_task(s1, c, p) ELSE s1

\* Leaves the task on offer.
MutDeactivate(s, p) ==
    dec_rt_tasks([s EXCEPT !.queue[s.cpu[p]] = RemoveFirst(@, p), !.on_rq[p] = FALSE], s.cpu[p], p)

deactivate_task(s, p) ==
    LET c == s.cpu[p]
        s1 == dec_rt_tasks([s EXCEPT !.queue[c] = RemoveFirst(@, p), !.on_rq[p] = FALSE], c, p)
    IN  dequeue_pushable_task(s1, c, p)

\* What a push, a pull and the stopper do under both locks.
Move(s, p, d) == activate_task([deactivate_task(s, p) EXCEPT !.cpu[p] = d], p, FALSE)

resched_task(s, c) == [s EXCEPT !.resched[c] = TRUE]

requeue_task_rt(s, p, head) ==
    LET c == s.cpu[p]
        list == RemoveFirst(s.queue[c], p)
    IN  [s EXCEPT !.queue[c] = IF head THEN AddHead(s, list, p) ELSE AddTail(s, list, p)]
--------------------------------------------------------------------------------
(***************************************************************************)
(* Where to.                                                               *)
(***************************************************************************)
\* The CPUs of the lowest priority below that of p, of those it may run on.
cpupri_find(s, p) ==
    LET lower == {d \in s.allowed[p] : s.highest[d] > s.prio[p]}
    IN  {d \in lower : \A f \in lower : s.highest[f] <= s.highest[d]}

\* The CPUs find_lowest_rq may return, which depends on the topology; none for -1.
find_lowest_rq(s, p) ==
    CASE Pinned(s, p) -> {}
      [] s.cpu[p] \in cpupri_find(s, p) -> {s.cpu[p]}
      [] OTHER -> cpupri_find(s, p)

\* Where p may be woken up: where a search for it ends, or on the CPU it slept on.
select_task_rq(s, p) ==
    LET curr == s.curr[s.cpu[p]]
        search == /\ rt_task(curr)
                  /\ Pinned(s, curr) \/ PrioOf(s, curr) < s.prio[p]
                  /\ weight(s, p) > 1
                  /\ find_lowest_rq(s, p) # {}
        found == IF search THEN find_lowest_rq(s, p) ELSE {s.cpu[p]}
    IN  IF found \subseteq s.allowed[p] THEN found ELSE s.allowed[p]

\* need_resched() asks for the task of the CPU e that executes this, not for curr.
check_preempt_curr(s, e, c, p) ==
    LET curr == s.curr[c]
        leave == s.curr[e] # None /\ s.resched[e]
    IN  CASE curr = Stop -> s
          [] PrioOf(s, curr) > s.prio[p] -> resched_task(s, c)
          [] /\ PrioOf(s, curr) = s.prio[p] /\ ~leave
             /\ ~Pinned(s, curr)
             /\ Pinned(s, p) \/ cpupri_find(s, p) = {}
             /\ cpupri_find(s, curr) # {} -> resched_task(requeue_task_rt(s, p, TRUE), c)
          [] OTHER -> s
--------------------------------------------------------------------------------
(***************************************************************************)
(* Locks.  then is what the CPU goes on with after its push or pull.       *)
(***************************************************************************)
Locked(c) == \E e \in Cpus : op[e].pc \in {"push", "retry", "pull"} /\ op[e].rq = c
Both(c, d) == ~Locked(c) /\ ~Locked(d)
Executes(e, o) == op' = [op EXCEPT ![e] = o]
Goto(e, pc) == Executes(e, [op[e] EXCEPT !.pc = pc])

\* schedule() from put_prev_task on.
context_switch(s, c) ==
    LET prev == s.curr[c]
        s1 == IF prev \in Tasks /\ s.on_rq[prev] /\ weight(s, prev) > 1
              THEN enqueue_pushable_task(s, c, prev) ELSE s
        stop == stopper[c] # None
        queue == s.queue[c]
        next == CASE stop -> Stop [] ~stop /\ queue # <<>> -> Head(queue) [] OTHER -> Idle
        s2 == dequeue_pushable_task(s1, c, next)
    IN  [s2 EXCEPT !.curr[c] = next, !.resched[c] = FALSE,
                   !.post[c] = IF stop THEN @ ELSE s2.pushable[c] # <<>>]

\* Has the test of the current task the wrong way round.
MutPrioChanged(s, c, p) ==
    IF s.prio[p] > s.highest[c] /\ s.curr[c] # p THEN resched_task(s, c) ELSE s

\* The end of prio_changed_rt for a running task.
prio_changed(s, c, p) ==
    IF s.prio[p] > s.highest[c] /\ s.curr[c] = p THEN resched_task(s, c) ELSE s

\* The push or pull of the CPU e for run queue c is over: the rest, until the lock is free.
Return(e, s, c, then) ==
    CASE then = "switch" ->
           LET s1 == context_switch(s, c)
           IN  /\ k' = s1
               /\ Executes(e, IF s1.post[c] THEN [pc |-> "post"] ELSE NoOp)
      [] then = "post" -> k' = [s EXCEPT !.post[c] = FALSE] /\ Executes(e, NoOp)
      [] then = "woken" -> k' = s /\ Executes(e, NoOp)
      [] OTHER -> k' = prio_changed(s, c, then) /\ Executes(e, NoOp)
--------------------------------------------------------------------------------
(***************************************************************************)
(* Push.                                                                   *)
(***************************************************************************)
\* find_lock_lowest_rq found nothing for p: forget p, unless something has shifted.
NoLowest(e, s, c, then, p) ==
    LET pushable == s.pushable[c]
        top == [pc |-> "push", rq |-> c, then |-> then]
    IN  IF pushable # <<>> /\ Head(pushable) = p /\ s.cpu[p] = c
        THEN k' = dequeue_pushable_task(s, c, p) /\ Executes(e, top)
        ELSE /\ k' = s
             /\ Executes(e, IF pushable = <<>> THEN top
                            ELSE [pc |-> "retry", rq |-> c, then |-> then, task |-> Head(pushable)])

\* Another try of find_lock_lowest_rq: choose a run queue, and drop c's lock to take both.
FindLowest(e, s, c, then, p, tries) ==
    IF tries = RT_MAX_TRIES \/ find_lowest_rq(s, p) \subseteq {c}
    THEN NoLowest(e, s, c, then, p)
    ELSE \E d \in find_lowest_rq(s, p) :
            /\ k' = s
            /\ Executes(e, [pc |-> "push_both", rq |-> c, then |-> then, task |-> p,
                            to |-> d, tries |-> tries])

\* push_rt_task from retry on.
TryPush(e, c, then, p) ==
    CASE p = k.curr[c] -> Return(e, k, c, then)
      [] p # k.curr[c] /\ k.prio[p] < PrioOf(k, k.curr[c]) -> Return(e, resched_task(k, c), c, then)
      [] OTHER -> FindLowest(e, k, c, then, p, 0)

Push(e) ==
    /\ op[e].pc = "push"
    /\ LET c == op[e].rq
       IN  IF ~k.overloaded[c] \/ k.pushable[c] = <<>>
           THEN Return(e, k, c, op[e].then)
           ELSE TryPush(e, c, op[e].then, Head(k.pushable[c]))
    /\ UNCHANGED work

PushRetry(e) ==
    /\ op[e].pc = "retry"
    /\ TryPush(e, op[e].rq, op[e].then, op[e].task)
    /\ UNCHANGED work

\* Trusts an affinity that was changed meanwhile.
MutShifted(c, d, p) == k.cpu[p] # c \/ k.curr[c] = p \/ ~k.on_rq[p]

\* What may have happened while no lock was held.
Shifted(c, d, p) == k.cpu[p] # c \/ d \notin k.allowed[p] \/ k.curr[c] = p \/ ~k.on_rq[p]

PushBoth(e) ==
    /\ op[e].pc = "push_both"
    /\ LET c == op[e].rq
           d == op[e].to
           p == op[e].task
       IN  /\ Both(c, d)
           /\ IF Shifted(c, d, p)
              THEN NoLowest(e, k, c, op[e].then, p)
              ELSE IF k.highest[d] > k.prio[p]
              THEN /\ k' = resched_task(Move(k, p, d), d)
                   /\ Executes(e, [pc |-> "push", rq |-> c, then |-> op[e].then])
              ELSE FindLowest(e, k, c, op[e].then, p, op[e].tries + 1)
    /\ UNCHANGED work
--------------------------------------------------------------------------------
(***************************************************************************)
(* Pull.                                                                   *)
(***************************************************************************)
StartPull(e, s, c, then) ==
    IF \E d \in Cpus : s.overloaded[d]
    THEN k' = s /\ Executes(e, [pc |-> "pull", rq |-> c, then |-> then, at |-> 1])
    ELSE Return(e, s, c, then)

\* The next CPU of rto_mask, looked at without its lock.
Pull(e) ==
    /\ op[e].pc = "pull"
    /\ LET c == op[e].rq
           d == op[e].at
       IN  IF d > NCpus THEN Return(e, k, c, op[e].then)
           ELSE /\ UNCHANGED k
                /\ IF d = c \/ ~k.overloaded[d] \/ k.next[d] >= k.highest[c]
                   THEN Executes(e, [op[e] EXCEPT !.at = d + 1])
                   ELSE Goto(e, "pull_both")
    /\ UNCHANGED work

PullBoth(e) ==
    /\ op[e].pc = "pull_both"
    /\ LET c == op[e].rq
           d == op[e].at
           p == pick_next_highest_task_rt(k, d, c)
       IN  /\ Both(c, d)
           /\ k' = IF /\ Len(k.queue[d]) > 1
                      /\ p # None /\ k.prio[p] < k.highest[c]
                      /\ k.prio[p] >= PrioOf(k, k.curr[d])
                   THEN Move(k, p, c) ELSE k
    /\ Executes(e, [op[e] EXCEPT !.pc = "pull", !.at = @ + 1])
    /\ UNCHANGED work
--------------------------------------------------------------------------------
(***************************************************************************)
(* Switching, waking up, and changing priority and affinity.               *)
(***************************************************************************)
Free(e) == op[e] = NoOp

\* schedule(): the task gives up the CPU, or was told to.
Schedule(e, sleeps) ==
    /\ Free(e) /\ ~Locked(e)
    /\ LET prev == k.curr[e]
           s == IF sleeps THEN [deactivate_task(k, prev) EXCEPT !.state[prev] = "asleep"] ELSE k
       IN  /\ IF sleeps THEN prev \in Tasks ELSE k.resched[e]
           /\ IF prev \in Tasks /\ s.highest[e] > s.prio[prev]
              THEN StartPull(e, s, e, "switch")
              ELSE Return(e, s, e, "switch")
    /\ UNCHANGED work

\* post_schedule(), if pick_next_task_rt left tasks that may be pushed.
PostSchedule(e) ==
    /\ op[e].pc = "post" /\ ~Locked(e)
    /\ IF k.curr[e] \in Tasks
       THEN k' = k /\ Executes(e, [pc |-> "push", rq |-> e, then |-> "post"])
       ELSE Return(e, k, e, "post")
    /\ UNCHANGED work

\* sched_yield(), or the end of a time slice of SCHED_RR.
Rotate(e) ==
    /\ Free(e) /\ ~Locked(e)
    /\ k.curr[e] \in Tasks
    /\ \E p \in Tasks : p # k.curr[e] /\ k.on_rq[p] /\ k.cpu[p] = e /\ k.prio[p] = k.prio[k.curr[e]]
    /\ k' = resched_task(requeue_task_rt(k, k.curr[e], FALSE), e)
    /\ UNCHANGED <<op, work>>

\* The end of try_to_wake_up, with the lock of the queue of p held.
Activate(e, p) ==
    LET c == k.cpu[p]
        s == [check_preempt_curr(activate_task(k, p, FALSE), e, c, p) EXCEPT !.state[p] = "running"]
        curr == s.curr[c]
    IN  IF /\ curr # p /\ ~s.resched[c] /\ s.pushable[c] # <<>>
           /\ weight(s, p) > 1 /\ rt_task(curr)
           /\ Pinned(s, curr) \/ PrioOf(s, curr) < s.prio[p]
        THEN k' = s /\ Executes(e, [pc |-> "push", rq |-> c, then |-> "woken"])
        ELSE k' = s /\ Executes(e, NoOp)

\* try_to_wake_up(p): choose a CPU.  A task that is still on its way out just goes on.
WakeUp(e, p) ==
    /\ Free(e) /\ ~Locked(k.cpu[p])
    /\ k.state[p] = "asleep"
    /\ IF k.curr[k.cpu[p]] = p
       THEN Activate(e, p)
       ELSE \E d \in select_task_rq(k, p) :
               /\ k' = [k EXCEPT !.state[p] = "waking", !.cpu[p] = d]
               /\ Executes(e, [pc |-> "wake", task |-> p])
    /\ UNCHANGED work

WakeUpThere(e) ==
    /\ op[e].pc = "wake"
    /\ ~Locked(k.cpu[op[e].task])
    /\ Activate(e, op[e].task)
    /\ UNCHANGED work

\* __sched_setscheduler, or rt_mutex_setprio, which puts a task it lowers at the head.
\* Both are called with the pi_lock of p.
SetPrio(e, p, prio) ==
    /\ Free(e) /\ ~Locked(k.cpu[p])
    /\ \A f \in Cpus : op[f].pc \in {"pull", "pull_both"} => op[f].then # p
    /\ prio # k.prio[p]
    /\ LET c == k.cpu[p]
           old == k.prio[p]
       IN  IF ~k.on_rq[p] THEN k' = [k EXCEPT !.prio[p] = prio] /\ UNCHANGED op
           ELSE \E head \in {FALSE, old < prio} :
                  LET s == activate_task([deactivate_task(k, p) EXCEPT !.prio[p] = prio], p, head)
                  IN  IF s.curr[c] = p
                      THEN IF old < prio THEN StartPull(e, s, c, p) ELSE Return(e, s, c, p)
                      ELSE /\ k' = IF prio < PrioOf(s, s.curr[c]) THEN resched_task(s, c) ELSE s
                           /\ UNCHANGED op
    /\ UNCHANGED work

set_cpus_allowed_rt(s, p, mask) ==
    LET c == s.cpu[p]
        was == weight(s, p)
        now == Cardinality(mask)
        s1 == IF s.curr[c] = p THEN s
              ELSE IF now > 1 THEN enqueue_pushable_task(s, c, p) ELSE dequeue_pushable_task(s, c, p)
        s2 == [s1 EXCEPT !.migratory[c] = IF was <= 1 /\ now > 1 THEN @ + 1
                                          ELSE IF was > 1 /\ now <= 1 THEN @ - 1 ELSE @]
        s3 == IF s.on_rq[p] /\ was # now THEN update_rt_migration(s2, c) ELSE s
    IN  [s3 EXCEPT !.allowed[p] = mask]

\* set_cpus_allowed_ptr, until it drops the lock of the run queue: if p may not stay, it has
\* yet to tell the stopper, and p runs on, sleeps, wakes up, moves or is changed meanwhile.
SetAffinity(e, a, p, mask) ==
    /\ Free(e) /\ ~Locked(k.cpu[p])
    /\ asked[a] = None
    /\ k.state[p] # "waking" /\ mask # k.allowed[p]
    /\ LET c == k.cpu[p]
       IN  /\ k' = set_cpus_allowed_rt(k, p, mask)
           /\ IF c \in mask \/ (~k.on_rq[p] /\ k.curr[c] # p) THEN UNCHANGED asked
              ELSE \E d \in mask : asked' = [asked EXCEPT ![a] = [task |-> p, cpu |-> c, to |-> d]]
    /\ UNCHANGED <<op, stopper>>

\* Its stop_one_cpu(), which wakes the stopper up.  Of several requests the stopper has one at
\* a time, in any order; a caller that waits for it counts as free for another call.
StopOneCpu(e, a) ==
    /\ Free(e) /\ asked[a] # None
    /\ LET c == asked[a].cpu
       IN  /\ ~Locked(c) /\ stopper[c] = None
           /\ k' = resched_task(k, c)
           /\ stopper' = [stopper EXCEPT ![c] = asked[a]]
    /\ asked' = [asked EXCEPT ![a] = None]
    /\ UNCHANGED op

\* migration_cpu_stop; then the stopper sleeps.
MigrationStop(c) ==
    /\ k.curr[c] = Stop /\ Free(c) /\ stopper[c] # None
    /\ LET p == stopper[c].task
           d == stopper[c].to
       IN  /\ Both(c, d)
           /\ k' = resched_task(IF k.cpu[p] = c /\ d \in k.allowed[p] /\ k.on_rq[p]
                                THEN check_preempt_curr(Move(k, p, d), c, d, p) ELSE k, c)
    /\ stopper' = [stopper EXCEPT ![c] = None]
    /\ UNCHANGED <<op, asked>>

\* Not of the kernel: prio_changed_rt found p gone when its pull, which may have brought
\* a task, was over.
Missed(e) == /\ op[e].pc = "pull" /\ op[e].then \in Tasks /\ op'[e] = NoOp
             /\ k.curr[op[e].rq] # op[e].then
History(e) == LET given == IF Missed(e) THEN {op[e].rq} ELSE {}
              IN  lost' = {c \in lost \cup given : k'.curr[c] = k.curr[c] /\ ~k'.resched[c]}

Next ==
    \E e \in Cpus :
        /\ \/ Schedule(e, FALSE) \/ Schedule(e, TRUE) \/ PostSchedule(e)
           \/ Push(e) \/ PushRetry(e) \/ PushBoth(e) \/ Pull(e) \/ PullBoth(e)
           \/ Rotate(e) \/ WakeUpThere(e) \/ MigrationStop(e)
           \/ \E p \in Tasks : WakeUp(e, p) \/ \E prio \in Prios[p] : SetPrio(e, p, prio)
           \/ \E a \in Callers : \/ StopOneCpu(e, a)
                                 \/ \E p \in Tasks : \E mask \in Masks[p] : SetAffinity(e, a, p, mask)
        /\ History(e)

Spec == Init /\ [][Next]_vars
--------------------------------------------------------------------------------
OnQueue(c) == {p \in Tasks : k.on_rq[p] /\ k.cpu[p] = c}
InOrder(list) == \A i, j \in 1 .. Len(list) : i < j => k.prio[list[i]] <= k.prio[list[j]]

\* The queue of c is the tasks that are on it, each once, by priority; and the fields that
\* other CPUs and the push read instead of it say what is in it.
QueueRight(c) ==
    /\ IsInjective(k.queue[c]) /\ ToSet(k.queue[c]) = OnQueue(c) /\ InOrder(k.queue[c])
    /\ k.highest[c] = IF k.queue[c] = <<>> THEN MaxRtPrio ELSE k.prio[Head(k.queue[c])]
    /\ k.migratory[c] = Cardinality({p \in OnQueue(c) : weight(k, p) > 1})
    /\ k.overloaded[c] = (k.migratory[c] > 0 /\ Cardinality(OnQueue(c)) > 1)

\* What the BUG_ONs of pick_next_pushable_task say of the task a push begins with holds of
\* every task on offer at all times: it is queued here, does not run, and may move.
OffersRight(c) ==
    /\ IsInjective(k.pushable[c]) /\ InOrder(k.pushable[c])
    /\ \A p \in ToSet(k.pushable[c]) : p \in OnQueue(c) /\ k.curr[c] # p /\ weight(k, p) > 1

\* The books of every run queue are right, whoever moved tasks between them and whatever
\* became of the priority and affinity of a task while it was queued, running, or chosen
\* by a push or pull under way: so no BUG_ON of a push is hit.
Books == \A c \in Cpus : QueueRight(c) /\ OffersRight(c)

\* No move takes a task from under the CPU that runs it, so it never runs on two; and as long
\* as a task is queued where it may not run, whoever excluded that CPU has told its stopper, or
\* has still to tell it, of a CPU where it may.
Requests == Range(asked) \cup Range(stopper)
InItsPlace ==
    /\ \A c \in Cpus : k.curr[c] \in Tasks => k.cpu[k.curr[c]] = c
    /\ \A p \in Tasks : k.on_rq[p] /\ k.cpu[p] \notin k.allowed[p] =>
           \E to \in k.allowed[p] : [task |-> p, cpu |-> k.cpu[p], to |-> to] \in Requests

\* When everything has settled, a CPU runs a task of the highest priority in its queue:
\* whatever put a better one there has told it.  But for prio_changed_rt: its pull drops
\* the lock, the task is switched out, and nobody is told of what the pull then brings.
Settled == \A e \in Cpus : Free(e) /\ ~k.resched[e] /\ stopper[e] = None
HeadRuns ==
    Settled => \A c \in Cpus \ lost : k.queue[c] # <<>> => PrioOf(k, k.curr[c]) <= k.highest[c]
================================================================================

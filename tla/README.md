# A verification of the CSD-345 assignments

The repository holds the four assignments of an operating-systems course
(HY-345): a shell, a study room of threads, two Linux system calls and a
modified Linux scheduler.  This directory models the programs of the first three
and three protocols of the scheduler sources in TLA+, checks the models with TLC on
small instances and proves theorems about them, for every size, with TLAPS.

## Inventory

| component | source | state it keeps | operations | modelled in |
|---|---|---|---|---|
| study room | `ask2/threads.c`, `threads.h` | the `room` (mutex, a semaphore per student, `students[]`, `curr_students`, `waiting_line`, `is_full`), the global `thread_counter`, a `student` per thread | `thread_function`, `workflow_manager`, `create_room`, `free_room` | `ReadingRoom` |
| room input and output | `ask2/threads.c` | the names read from `student_data.csv` | `main`, `init_students`, `print_room`, `random_number` | not modelled |
| shell: command line | `ask1/shell.c`, `execute.c`, `commands.c`, `extras.c` | the input buffer, `commands[]`, the `command` records, `current_dir` | `main`, `execute_commands`, `split_command`, `create_pipeline`, `contains_redirects`, `update_args`, built-ins, simple and redirected commands | `CommandLine` |
| shell: pipelines | `ask1/execute.c` `execute_pipeline` | descriptor tables, `prev_pipe`, `pipefds`, the children | make a pipe, fork, connect, close, wait | `Pipeline` |
| task parameters | `ask3/.../set_task_params.c`, `get_task_params.c` | `group_name`, `member_id` of each task, the user memory they are copied to | `sys_set_task_params`, `sys_get_task_params` | `TaskParams` |
| completions | `ask4/files/sched.c` | `done` and the wait queue of a completion, the states of the waiting tasks | `complete`, `complete_all`, `wait_for_completion` and its variants, `try_wait_for_completion` | `Completion` |
| real-time bandwidth | `ask4/files/sched_rt.c`, `sched.c` | runtime, time used and throttling of each run queue, root domains, the setting | accounting, borrowing, the period timer, CPU hotplug (`set_rq_online`, `set_rq_offline` and the notifier `update_runtime`), `rq_attach_root`, `sched_rt_handler` | `RtBandwidth` |
| real-time push and pull | `ask4/files/sched_rt.c`, `sched.c` | the run queue of each CPU with what it tells the others (`highest_prio`, `rt_nr_migratory`, `overloaded`, `pushable_tasks`), the CPU, priority and affinity of each task | waking, switching, push, pull, changes of priority and affinity, the stopper | `RtBalance` |
| group scheduler | `schedule()` in `ask3/.../sched.c` and `ask4/files/sched.c` | the run queue | `schedule` | not modelled: it does not compile |
| rest of Linux 2.6.38 | the rest of `sched*.c`, `sched.h` | | | not modelled: third-party |

How they interact.  In the study room all threads share the room; `main`
creates the threads one after another, joins them all and frees the room.
Students hand each other the turn through the semaphores, take seats under the
mutex, and poll `is_full` and `waiting_line` without it.  The shell cuts a line into
commands and runs them one by one: a pipeline by `execute_pipeline`, everything else
by a child of its own or by itself.  A
pipeline is a set of processes that share nothing but pipes; who gets
end-of-file, who gets `SIGPIPE`, and whether the shell's `wait` ever returns,
depends on which process still holds which end of which pipe.  The system calls
touch the calling task and the memory of its process, which its threads share; the
scheduler was meant to use the fields they set.  In the scheduler sources a
completion ties `complete`, running anywhere, to waiters on their way to sleep in
`schedule`, the run queues of the CPUs lend each other runtime while the
timer, CPU hotplug and the system administrator interfere, and they hand each other
tasks, each CPU deciding from fields of the others that it reads without their locks.

What is hard about each, and what makes it correct:

* **Study room.** Threads interleave at every access; `thread_counter`,
  `is_full` and `waiting_line` are read without the mutex and acted upon later;
  `students[]` is too short and its overrun lands on the semaphores that order
  the threads; a refused student posts its semaphore twice.  Correct means: the
  two counters are what they count, students register in order, nobody loses
  the seat it was shown, the room is freed after its last use, everybody gets in.
* **Command line.** `commands[k] = NULL` (execute.c:48), meant for the argument
  vector, lands in the table of commands still to run; `strtok` keeps its cuts in
  the one buffer that the next `fgets` may leave as it is; `create_pipeline` ends
  the last stage at the wrong index; errors of the line call `exit`.  Correct means: what
  runs is what was typed, and it is known what is lost and what ends the shell.
* **Pipelines.** Descriptors are inherited, duplicated and reused; the
  shell forgets some; `pipe()` may fail unnoticed.  Correct means: every stage is
  connected to its neighbours, end-of-file and `SIGPIPE` get through, the shell
  comes back to the prompt, and it does not run out of descriptors.
* **System calls.** The failure of `copy_to_user` is ignored, the two copies may sleep
  and let other threads in, and `group_name` is cut to a `char` before its range is
  tested.  Correct means: parameters are in range and belong together, in the task
  and in the memory they are copied to.
* **Completions.** Going to sleep takes several steps, and an event, a signal or the
  timer may come between any two; an event wakes only one waiter and must pick one
  that needs waking.  Correct means: no event is lost or granted twice, none sits
  beside a waiter that sleeps through it, every way out takes the waiter's entry
  (which lies on its stack) off the queue.
* **Real-time bandwidth.** Runtime moves between run queues under locks that are
  dropped and taken again, in three places whose arithmetic must agree, and a
  `BUG_ON` depends on their sum; two notifiers enable and disable the same run queue for
  one hotplug event.  Correct means: runtime is lent and never made or lost, and who made
  an exception to that is known.
* **Push and pull.** Two run queues are locked in a fixed order, so a push or pull lets
  go of its own first, and the task it chose may then run, sleep, move, or change
  priority and affinity.  Correct means: every queue and what it publishes of itself agree,
  a task is on one queue and one CPU at a time and where it may be, and a CPU settles on
  the best task of its queue.

## The modules

| module | what it is |
|---|---|
| `StudyVisits` | abstract specification of the study room: students arrive in order, find on arrival a seat or a full room in one indivisible decision, read once, leave; the room closes when all have left |
| `ReadingRoom`, `MCReadingRoom` | the study room as the code has it, with its properties and the refinement mapping to `StudyVisits`; constants for TLC |
| `ReadingRoom_proofs` | theorems about `ReadingRoom`: under `Spec`, that it implements `StudyVisits`, and under `PunctualSpec` |
| `CommandLine` | the shell from `fgets` to the call that runs a command |
| `CommandLine_proofs` | theorems about `CommandLine` |
| `StagedFlow` | abstract specification of a pipeline: stages started in order and joined by bounded queues, told of the end of their input or output only when the neighbour has ended |
| `Pipeline` | `execute_pipeline`, the kernel's part of it and the programs it runs, with the refinement mapping to `StagedFlow` |
| `Pipeline_proofs` | theorems about `Pipeline`, and that it implements `StagedFlow` |
| `TaskParams`, `MCTaskParams` | the two system calls, with fork, threads and user memory; constants for TLC |
| `TaskParams_proofs` | theorems about `TaskParams` |
| `Completion`, `MCCompletion` | completions; constants for TLC |
| `Completion_proofs` | theorems about `Completion` |
| `RtBandwidth`, `MCRtBandwidth` | real-time bandwidth control; symmetry and state constraint for TLC |
| `RtBandwidth_proofs` | theorems about `RtBandwidth` |
| `RtBalance`, `MCRtBalance` | push and pull of real-time tasks; three tasks for TLC |
| `RtBalance_proofs` | theorems about `RtBalance` |
| `FoldLemmas` | what a fold computes: lemmas for `CommandLine_proofs` and `RtBandwidth_proofs` |

Definitions whose names begin with `Mut` are deliberate bugs (a dropped guard, a
forgotten close).  No specification uses them; substituting one for the
definition of the same name must break the property it is listed with in
`PROJECT.json`, which shows that the property depends on the code.

### ReadingRoom

Each thread has a program counter whose values are named for the statement it
runs next (`"register"` is threads.c:26, `"testLine"` the second half of the
condition at line 38, `"remark"` the store at line 41).  One action models each
access of a variable that some thread touches without the mutex.  Statements on
fields that are only ever touched under the mutex (`students`, `curr_students`,
`state`) are part of the neighbouring step that takes or releases it.  `Register`
covers lines 26-34: in the refused branch nothing else can interleave before
the unlock; in the other branch the thread keeps the mutex and goes on to `Admit`.

* *The heap.* `create_room` allocates `students[]` for `max_students` (8)
  pointers; the code stores one per student (20 to 40).  glibc places
  `sem_enter` right behind it: with 8 pointers, semaphore *j* begins at slot
  10 + 4*j*.  The overrun is undefined behaviour in C; the model gives it the
  outcomes this layout produces: a store through `students[k]` leaves any value
  of `Clobber` in the semaphore at slot *k*, and a store through a semaphore
  destroys the pointer that lies there.  `SemSlot` says where the semaphores
  lie.  The proofs need only `LayoutAssumption`: semaphore *j* lies beyond slot
  *j* + 1, and those of students behind the first `MaxConcurrent` lie beyond all
  slots in use.  Lemma `LayoutOfTheBuild` shows that the allocator's layout, for
  20 to 40 students, satisfies it.
* *Time.* `sleep` may take any time.  `PunctualSpec` adds the one fact about time
  the program is run under: nobody stops studying (5 seconds at least) before
  every student has registered or been seated (milliseconds).  Properties that
  need it are checked under it and say so.
* *Memory.* Steps are sequentially consistent.  The program is built without
  optimisation on x86 and every loop iteration calls `sleep`, so no read of the
  polled variables is cached.
* *Failure.* `pthread_create` may fail, which makes `main` return and takes every
  thread with it (`CreateFails`).

### CommandLine

A word is an atom and a line a sequence of words, `";"` and blanks, with perhaps a newline at the
end; words that stand beside each other are separated anyway, so a `Blank` matters where it stands
alone: `x ; ; y` and ` ; x` have a command of blanks only, which `strtok` keeps, and which
counts in `commands[]` like any other (`x;;y` has none).  `ReadLine` is a `fgets` that
returns a line, `ReadNothing` one that does not, which nobody notices; `Split` is `split_command`,
and `Remains` what `strtok` leaves of the buffer.  Then one action runs per step of the loop of
`execute_commands`: `SkipCommand` for a command without words, `ParseCommand` for lines 36-55 (the
words, the `NULL` of line 48 as `Kill`, `create_pipeline`, `contains_redirects`), `WrongFormat`
for the `exit` in `update_args`, and one `Run...` action for each branch of lines 58-74
(`RunNothing` is `is_built_in_cmd(NULL)`).

Undefined behaviour is a choice.

* `j` of `create_pipeline` is never set before line 85 or 94, and holds what the stack held.  `Strays` is what
  then becomes of the first stage: its words from some word on, down to none, when `j` is
  below zero or lands so that only the tail is in the vector; its words behind whatever `malloc` left (`Wild`), or
  only that, when `j` is above zero; or the death of the shell (`Astray`).  It may
  leave a redirection dangling, which `WrongFormat` and `KilledBy` take into account.
* The argument vector is never ended, and that of the last stage at the wrong index.  Fresh memory is zero, which ends it
  where it should; memory used before is not, and then the shell runs into memory that is not its own and
  dies (`Astray`), or the last stage's vector runs on (`Wild`).
* `input` before the first `fgets` is any short string.

`strtok` and everything else that leaves words out is `Without`, a fold like `CutAt`, so that one
lemma says what each computes (the `SelectSeq` of the standard module is defined by recursion,
about which nothing can be proved).

What a child does is not part of this module: `Pipeline` models it for
pipelines, and a simple or redirected command is one child whose descriptors are its
own; its parent only waits.

### Pipeline

The state is the descriptor table of each process, numbered, with the lowest free
number handed out first as the kernel does; a copy per process of the local variables
`prev_pipe` and `pipefds` as of its fork; and how much each pipe holds.  The
shell's steps are the statements of `execute_pipeline`: `MakePipe` or `PipeFails`
(line 148), `Fork` or `ForkFails` (150-155), `Parent` (174-182), `CloseLast`
(185), `Reap` and `WaitedForAll` (188).  A child's are `ConnectStdin` (158-162)
and `ConnectStdout` (164-172, with the exec).  Pipe `<<j, i>>` is the one behind
stage *i* of the *j*-th pipeline.

The programs are external: `filter` copies until end of input, `head` copies once,
`yes` writes for ever, `seq` writes as much as it likes, more than a pipe holds or less, and
then ends, `missing` fails to exec.  The last kind also stands for a stage whose argument vector
`create_pipeline` left unterminated.  A program at the terminal reads what the user types, as much as he
likes, and end-of-file at any time.  `pipe()` fails only for
want of descriptors of the process: a full system-wide table is not modelled.

`ImplementsFlow` maps a stage that has been forked and has not come to its end to `"running"`, one
that a failing `fork()` left out to `"ended"`, and a pipeline whose `pipe()` failed to no
pipeline at all: nothing is promised of it.  `StagedFlow` does not promise that a stage *is* told when
the one behind it has gone, since the leaked read end keeps `SIGPIPE` away; that is
`HangIsLeak`.

### TaskParams

`Reject` and `Accept` are the two ways through `sys_set_task_params`, each one step: the
fields are the caller's own and nothing in between sleeps.  `RefuseGet`, or `Get`,
`CopyGroup` and `CopyMember`, is `sys_get_task_params`: a `copy_to_user` may fault and
sleep, so each is a step.  `CharOf` is the conversion of the caller's `int`.  The
rest of the kernel is external: `Fork` copies the task structure and the address space,
`Clone` shares the latter, `Exit` returns both, `Remap` unmaps a page or maps a fresh
one.  A buffer lies on one page, across two (`"edge"`), nowhere (`"low"`: the `'A'` that
demo.c passes) or in the kernel.  Histories: what the last get copied (`stored`),
whether anybody else touched that memory (`clean`), which pairs a set accepted
(`accepted`), which address spaces had two tasks or a fault (`mixing`).

### Completion

A waiter is at `"idle"`, `"set"` (queued, about to set its state, spinlock held),
`"schedule"` (state set, spinlock released) or `"asleep"` (schedule() has run);
`sleeping` is its task state.  `Wait` is `do_wait_for_common` up to line 4348, `SetState`
4349-4350, `Schedule` the part of `schedule()` that takes it off the run queue unless
it has a signal, and `Again`, `GiveUp` and `Take` the three ways out of the
loop's condition.  `complete` and `complete_all` add to the counter in unsigned
arithmetic and walk the queue: `try_to_wake_up` makes a waiter runnable, and says so
only if it was off the run queue (`Asleep`), which is where the walk stops.
A wait that finds a signal pending (4345-4347 on the first pass) goes on and off the queue in one
hold of the spinlock and leaves everything as it was; it is no step of the model.
`wait_for_completion`, `_timeout`, `_interruptible`, `_killable` and both
combinations are the members of `Waits`.  `Timer` and `Signal` are external.

### RtBandwidth

Without group scheduling there is one `rt_rq` per CPU.  A step that drops the lock of the run queue
in the middle is two: `Tick` and `Timer` end where `balance_runtime` lets go of
`rt_rq->rt_runtime_lock`, `Balance` is `do_balance_runtime` under
`rt_b->rt_runtime_lock`, and `Exceeded` and `Refilled` are what follows.  The outer
`rq->lock` is `pc[c] # "free"`.  `Processor` is `smp_processor_id()`: the tick runs on
the CPU of its run queue, the period timer on any.  `Disable` is `__disable_runtime`
with its greedy reclaim, whose `BUG_ON` sets `bug`; `Join` is `__enable_runtime`.
`sched_rt_handler` is in two steps, as in the code: the run queues under the lock, then
`def_rt_bandwidth.rt_runtime` without it.  A setting may lie above the period: without group scheduling
`sched_rt_global_constraints` (sched.c:8773-8799) compares the two nowhere.

Three callers enable and disable, and `phase` says which of them have run: `"up"`; `"going"`, disabled by
`update_runtime` at `CPU_DOWN_PREPARE` (`disable_runtime`) but still online; `"down"`, after
`set_rq_offline`; `"coming"`, after `set_rq_online`, until `update_runtime` at `CPU_ONLINE` enables the run
queue a second time (`enable_runtime`, which is also `CPU_DOWN_FAILED`).  `rq_attach_root` and
`Attached` take a run queue from one domain to another, in any phase.  Histories: `drift`, per domain, what it got from CPUs
of other domains through the timer's borrowing and from second enables, which forget what was lent or borrowed
since the first; `mixed`, a CPU was disabled, came or went while a new setting was half stored.

### RtBalance

The kernel's tasks and run queues are one record `k`, so that the helpers
(`inc_rt_prio`, `activate_task`, `requeue_task_rt`, ...) are operators on it, as the
functions of the source are on `rq`; an action composes the helpers its code calls.
The priority array is one sequence in order of priority, oldest first.  Smaller is
higher, `Idle` is any task of another class, and `Stop` the stopper thread of a CPU, which
outranks all.

What a CPU is in the middle of is `op[e]`, with interrupts off.  `"push"`, `"retry"` and `"pull"`
are points of `push_rt_task` and `pull_rt_task` at which the lock of the run queue is held
(`Locked`); at `"push_both"` and `"pull_both"` it has been dropped by
`double_lock_balance` and nobody holds anything (the variant of `CONFIG_PREEMPT`, which always drops
the lock; the other one may keep it, which is the case that nobody steps in between).
`"wake"` is `try_to_wake_up` between the two queues, `"post"` the gap before `post_schedule`.
`then` says who called: `"switch"` (`pre_schedule`), `"post"`, `"woken"` (`task_woken_rt`) or the
task of `prio_changed_rt`, and `Return` is the rest of that caller.

| action | code |
|---|---|
| `Schedule`, `PostSchedule` | `schedule()` with `pre_schedule_rt`, `put_prev_task_rt`, `pick_next_task_rt` (and the stopper's class), `post_schedule_rt`.  Both copies of `schedule()` were edited until they no longer compile; the kernel's own statements are all still there (sched.c:3973-4043) and are what is modelled |
| `Push`, `PushRetry`, `PushBoth` | `push_rt_tasks`, `push_rt_task`, `find_lock_lowest_rq` |
| `Pull`, `PullBoth` | `pull_rt_task`, one CPU of `rto_mask` per round |
| `Rotate` | `yield_task_rt`, and the time slice of `task_tick_rt` |
| `WakeUp`, `WakeUpThere` | `try_to_wake_up`, `select_task_rq_rt`, `check_preempt_curr_rt`, `task_woken_rt` |
| `SetPrio` | `__sched_setscheduler` and `rt_mutex_setprio`, with `prio_changed_rt` |
| `SetAffinity`, `StopOneCpu`, `MigrationStop` | `set_cpus_allowed_ptr` with `set_cpus_allowed_rt` until it drops the lock (sched.c:5736), its `stop_one_cpu` (5737), `migration_cpu_stop` |

`cpupri_find` is in a file the repository does not have; it is modelled from its use: the CPUs
of lowest priority, below that of the task, that the task may run on.  The topology, which
only picks one among them, is a choice.  `asked` is what each of `Callers` has found a stopper
must move and has not told it yet; between the two steps the task runs on, sleeps, moves or changes affinity again.
A stopper holds one request at a time, and takes those of several callers in any order.  `lost` is a history of the departure described below.
Left out: a task that set its state to sleep and is woken before it calls `schedule()`; an interrupt in the gap before `post_schedule`; changes of scheduling class;
CPUs that go offline; throttling; `exec` and `fork` balancing.

## The runs

| run | specification, bounds | what it shows |
|---|---|---|
| `room_safety` | `FairSpec`, 5 students, 2 seats | the books are right in every interleaving; only the two known ways to hang; implements `StudyVisits`; whatever the timing, everybody gets to register, the room empties again and again, and it is freed if nobody was refused |
| `room_queue` | `PunctualSpec`, 7 students, 3 seats | refused students enter in order, and only after the first batch, all those never refused, has left (other refused students may still study); the room is never fuller than its seats or, after the first batch, than the students behind that batch |
| `command_line` | `Spec`, any number of lines of up to 5 words, blanks and `;` over 5 words, any content of uninitialised memory | a command is lost exactly if an earlier one has as many words as its own number; what runs is what was typed, but for what memory does to a pipeline's first and last stage; four things beside memory end the shell, among them a fork that fails in a pipeline but in no other command; after the end of the input it repeats the first word of the first command of the last line for ever, unless that command is blank; the prompt is true |
| `pipelines` | `Spec`, 2 pipelines of 2 or 3 stages, 5 kinds of program, 6 descriptors | as long as descriptors last, pipelines implement `StagedFlow`; stages are connected to their neighbours, write ends do not linger, what a pipeline leaks, that the leak stops before the first `pipe()` of a pipeline can fail, that the only hang is the leaked read end |
| `pipelines_live` | `FairSpec`, 1 pipeline of 2 or 3 stages, 5 kinds of program | the last writer stops once its reader is gone; the shell returns to the prompt (or a failed `fork()` ends it) unless a program writes for ever, or a stage before the last but one has more to write than the pipe holds for a reader that is gone: it waits on the read end the shell leaked, as `seq 1000000 \| head -1 \| wc` does |
| `task_params` | 2 tasks, 5 pairs of arguments, 3 kinds of address | parameters are in range and passed together; a get returns the caller's own; memory is torn only by shared memory or a fault |
| `completion` | `FairSpec`, 2 waiters, 3 `complete`, 2 `complete_all`, a counter up to 7 | the counter is, modulo its width, the events not granted; none waits for a sleeping task; the queue is the waiters; an event reaches a waiter; a signal or timeout ends a wait |
| `rt_bandwidth` | 2 CPUs, 2 root domains, period 3, runtimes 2, 3 and 5 | runtime is lent, and made or lost only by the timer across domains or a second enable, to the unit, and never below zero; a CPU is left wanting only where that happened, or where a setting was half stored |
| `rt_balance` | 2 CPUs, 3 tasks | queues and what they publish are right and no `BUG_ON` of a push is hit; no task is moved while it runs, and for one queued where it may not be a request to move it is out; CPUs settle on the head of their queue |

Three runs show where the code departs from what it says of itself:

| run | departure |
|---|---|
| `room_seat_limit` | 5 students, 2 seats: once the first batch left `is_full` is 0, and lines 40-42 set it again only when they find the room exactly full: students that pass line 38 before that all sit down, three on two seats and beside refused ones that still study (README.md:6 of ask2) |
| `room_refused_hang` | 4 students, 2 seats: a student that read `thread_counter` at line 40 before the room emptied sets `is_full` after it; the refused poll for ever (README.md:8) |
| `rt_wanting` | 2 CPUs: `do_balance_runtime` takes the root domain of the CPU it runs on (sched_rt.c:350), so the timer borrows across domains, and a CPU that leaves hits the `BUG_ON` of which sched_rt.c:463 says it cannot |

Departures without a run of their own: `update_runtime` (sched.c:7765) enables a run queue that `set_rq_online` has
enabled already and that has lent or borrowed since; `__enable_runtime` forgets it (sched_rt.c:503), and the same
`BUG_ON` is hit without any timer: `WantingKnown` names this way, and TLC finds `NeverWanting`
violated by it when `rt_wanting` is run with one domain; `students[]` (threads.c:223) is too short for the
students stored in it, which `TurnOrder` takes into account; `curr_students` is not the
"current number of students in the room" (threads.h:23), it never falls; "wait for
previous student to enter" (threads.c:24) is over when the previous one was refused;
demo.c:35 expects an error for an address that is no `struct d_params`, but
`sys_get_task_params` ignores the fault and returns 0; demo.c passes `'A'` and any int
whose low byte is a letter passes for one.  src/ask3/README.MD:7-8 has `get_task_params` return, and
`set_task_params` set, "the group_name and the member_id of the task_struct that is given as an argument":
neither call has such an argument, both act on `current`, the caller; `ReturnsOwn` says what the code does.
src/ask2/README.md:8 has a student wait "until all student that are studying leave": refused
students wait only for the first batch (`WaitsForBatch`) and then sit down beside each other, as the trace of
`room_seat_limit` shows.  Of push and pull:

* `prio_changed_rt` (sched_rt.c:1668-1677) pulls, which drops the lock, and asks afterwards
  whether the task it was called for is still current.  If that was switched out meanwhile
  nobody is told of what the pull brought, though it may outrank what runs.  `HeadRuns` excepts
  the CPUs in `lost` until they next switch.
* Where a task waits is best effort.  A push gives a task up because "the other cpus will
  pull from us when they are ready" (sched_rt.c:1380-1386), but they do only as long as the queue is
  overloaded and its `highest_prio.next` is up to date, which a running task that is preempted after a
  change of its priority does not make it; and a puller passes over a task that outranks what
  its CPU runs, because it "hasn't had a chance to schedule".  So a task may wait while a CPU it may run on runs
  a lower one, and no property says otherwise.

Why the bounds are enough.

* *Room.* Five students and two seats give two seated at once,
  two that are refused and can overfill the room, and one more that arrives
  while they wait; three students are stored behind `students[]`, two of them on the
  semaphores of earlier students.  The seat limit depends on the ratio
  of students to seats: with up to twice as many students as seats, those behind the first
  batch are no more than the seats, and `SeatsTaken` is the limit itself; the runs have one student
  more, as the program has (20 to 40 students on 8 seats), so that the limit is broken
  (`room_seat_limit`) and `SeatsTaken` is what remains of it (`room_queue`).  In the MC module a semaphore
  takes one slot instead of four, which makes overruns of small instances land
  on them at all; a stray store leaves it up or down, since nothing tests more of it.
* *Command line.* The words are one per branch of the code: both built-ins, another
  program, `|` and `>` (`>>` and `<` take the same branches as `>` in the shell itself, `chdir` as `cd`).  Five tokens
  make three commands, one with enough words to drop a later one; a blank one between two others (`x ; ; y`, written
  with a `Blank`) or before the first; or two stages one of
  which has a redirection.  The number of lines is not bounded: at the prompt the
  history of the line is cut to the first word of its first command, which is all that the end of input
  needs.
* *Pipelines.* Three stages are the shortest that leak; six descriptors are the
  fewest with which a pipeline of three stages still leaks and the next one fails.
  A pipe holds one item, so a writer blocks on its second, and `seq` may write any number.  Liveness is checked
  for one pipeline: what earlier ones leaked is read ends of pipes that nobody writes to any more, as the
  invariants of `pipelines` show.
* *Task parameters.* Two tasks are a parent and child, or two threads, at a time, with
  exits any number of either; two accepted pairs can be mixed; the pairs that are refused are one
  below and one above the letters and one member id of zero.
* *Completion.* Two waiters are one that is asleep and one that is not yet; three events and
  two `complete_all` make the counter of 0 to 7 wrap (3 + 3 + 2).
* *Bandwidth.* Two CPUs in two domains are the timer's borrowing across domains, a last CPU of a domain, and both
  orders of hotplug and `rq_attach_root`; that a CPU reclaims from several others takes a third, with which the states are too many
  for TLC, and is left to the theorems, which are about any number.  With a
  period of three and ticks of one or two, shares and remainders of the division both occur, and a setting of 5 is above
  the period, which no borrowing reaches.
  `MaxTime` stops a tick that would account too much and is stated in its
  guard.  Root domains are interchangeable (`SYMMETRY`; no temporal property is
  checked there).  The `CONSTRAINT` stops at states in which a CPU was disabled, came or went while
  a setting was half stored, since both properties claim nothing of them and the flag stays up
  until the next setting, and at a `drift` beyond `MaxDrift`, which a second enable or the timer could
  add to without end.
* *Push and pull.* Three tasks are one that runs and two on offer, of one queue, or an overloaded queue and
  a busy target.  One task moves between priorities 1 and 3, past another at 2, the third stays at
  1 and is bound to CPU 1 and freed again: ties, both directions of `prio_changed_rt`, both
  directions of the migratory count and the stopper all occur.  One caller is one request on its way
  while an earlier one is with the stopper; two callers, which also pass, have 1.2 million states and take
  twice the time.  With two CPUs there is never
  a choice of target and a pull has one queue to look at; three CPUs have too many states to
  finish.

Nothing else is bounded: counters and program counters are finite by themselves.

Fairness.  `FairSpec` of the room: every thread that can move eventually does
(pthreads under a preemptive scheduler; `sleep` returns) and `main` goes on
creating and joining.  Weak fairness is enough for the mutex because each thread takes
it at most three times.  Failures of `pthread_create` are never forced.  In
`Pipeline` the shell and every stage are weakly fair; typing a pipeline, quitting
and failing forks are not.  Beside that `LastItem` is strongly fair: what `seq` writes is finite, and so is what the user types to
a program at the terminal.  The latter is not the code's but the user's: he types
his end-of-file, or `WriterStops` and `PipelineReturns` do not hold of a pipeline that reads the terminal.  In `Completion` a runnable waiter runs and a timer expires
(weak fairness), and a waiter that asks for the spinlock gets it in spite of others that
ask again and again (strong fairness: x86 spinlocks of 2.6.38 are ticket locks);
nobody is obliged to complete, to signal or to wait.  The runs of `Pipeline`, `Completion`
and `RtBandwidth` turn deadlock checking off: the hang `HangIsLeak`
describes is a real one, a wait that nobody completes lasts, and a `BUG_ON` ends the
system.

## What is proved

In `ReadingRoom_proofs`, from `SizeAssumption` (at least one student and one
seat) and `LayoutAssumption`, for every number of students and seats:

| theorem | statement |
|---|---|
| `Invariance` | `Spec => []IInv` |
| `Typing` | `TypeOK` |
| `TurnsInOrder`, `SeatsCounted`, `LineCounted`, `AdmittedToASeat`, `FreedAfterUse` | the safety properties of `room_safety`, one theorem each |
| `NoSecondChance` | the action property `OvertakenForever` |
| `WaysToHang` | `HangIsKnown` |

The inductive invariant.  `TurnOrder` by itself is not inductive: it needs to know
that a semaphore is still down while its student holds the turn and that nobody
behind has passed (`TurnInv`), that a stray store cannot raise such a semaphore
(`TurnHeld` with `LayoutAssumption`), and that the second post of a refused student
falls beyond the slots in use because only students behind the first `MaxConcurrent`
are refused (`RefusedInv`, which follows from `SeatAccounting` and `TurnOrder`:
a full room means that many students registered before).  `AdmissionSafe` needs
`MutexInv`, and `RoomOutlivesThreads` needs `MainInv`.  The counters are handled once,
by `CountMove`: how the number of threads at a set of locations changes when one
moves; `AccountsMove` turns that into one obligation per action.  `ThreadStep` has
one case per action of a thread and one step per conjunct, `MainStep` does the same
for `main`.  `WaysToHang` is a counting argument: with every student polling or
gone, `waiting_line` is the number gone, so it cannot be that all the students up to
that number are gone.

The second part of the module shows `ImplementsStudyVisits` (`ImplementsVisits`) step by step: the test
and the store of `thread_counter` in `Register` and `Admit` lie under one hold of the
mutex, so the decision takes effect in `Register`; that `Admit` seats only the
last to have registered (`LastAdmitted`) comes from `TurnOrder`, that the seats taken
agree (`ReadingIsSeated`) from `SeatAccounting`, that the room closes when all have left from `MainInv`.

The third part is about `PunctualSpec`: `PunctualInvariance`, `NobodyOvertaken`
(`QueueOrder`), `RefusedWaitForBatch` (`WaitsForBatch`, which is about the first batch) and `SeatsBounded` (`SeatsTaken`), again for every
number of students and seats.  `PInv` is relative to `IInv`.  Nobody leaves before all
have arrived (`LeaveInv`), so the seats fill up and whoever is refused finds them full
(`FirstInv`, `NoSeatInv`); a refused student stays out as long as one of the batch is inside
(`HeldInv`), and once inside it is the one `waiting_line` stood at (`RelockInv`).  `FillInv` is the
seat limit before the batch is gone, `SecondBatch` counts who may sit after it.

In `Pipeline_proofs`, from `SizeAssumption`, for every number of
pipelines, stages and descriptors, programs of these kinds and any capacity of a pipe:

| theorem | statement |
|---|---|
| `Invariance` | `Spec => []IInv` |
| `StagesConnected`, `WriteEndsKnown`, `PipefdsAlwaysSet`, `Leaks`, `OnlyLeaksHang` | `Connected`, `WritersKnown`, `PipefdsSet`, `LeaksAllButLast`, `HangIsLeak` of the run `pipelines` |

The invariant says what every descriptor of the shell is at every statement: its terminal, a read
end, or the write end that is in `pipefds[1]` until the parent closes it (`KindsInv`); which
read ends have leaked and which one `pipefds` still names (`LeakInv`, `FrameInv`); which pipes exist
(`MadeInv`); and what ends a stage may hold and has on its standard descriptors as it goes
through `ConnectStdin` and `ConnectStdout` (`StageInv`).  `RoomInv` is what makes `PipefdsSet`
true for ever, although every long pipeline leaks: a `pipe()` takes two descriptors and the parent
gives one back, so a pipeline that ends without a failure leaves two free, and after a failure
nothing is made any more.  `OnlyLeaksHang` takes the last stage that blocks:
it reads, so its neighbour behind the pipe is alive, or it writes, and then somebody else holds
a read end; `StageInv` leaves only the shell.

The second part of the module shows `ImplementsStagedFlow` (`ImplementsFlow`), a lemma per action.  `FlowInv`
adds that descriptors name only pipes that were made, that pipes not yet made are empty and that
only a program that runs has something in hand.

In `TaskParams_proofs`, from `ArgsAssumption`, for every set of tasks and all integers they pass:
`Invariance`, `Typing`, `ParamsInRange` (`InRange`), `GetIsExact` (`ReturnsOwn`) and
`WholeUnlessShared` (`Whole`).  `IInv` adds to typing and `InRange` that accepted pairs are in
range (`AcceptedInv`), that a task inside a get has parameters (`CopyInv`), and that each
field a get has copied to memory of its own is the task's (`OwnInv`, which `ReturnsOwn` is
the end of).  `Whole` needs two more: an address space that is not in `mixing` has one
task (`AloneInv`), and between its two copies the group in its buffer is the task's or
unset (`HalfInv`).

In `Completion_proofs`, for every finite set of waiters and every width of the counter of at least
two bits: `Invariance`, `EventsConserved` (`Conserved`), `NoLostWakeup` (`NoneStranded`) and `QueueIsWaiters`
(`QueuedOnce`).  `IInv` is their conjunction with typing, `Placed` (only a task that has set its state
and not left may be other than running) and `Locked` (at most one waiter is between its test
and the store of its state, and there is no event then).  `DivMod`, `Residue`, `ModNext` and
`ModPrev` are the arithmetic modulo 2^w, `Appended` and `Removed` what the queue operations
do to a queue without repetitions.  The core is `WakesOne`: the walk down the queue
either finds a waiter off the run queue, and then one more is up, or finds none, and then all are.

In `RtBalance_proofs`, for any number of CPUs, any finite set of tasks and any priorities and (nonempty) affinities
they are given, from the assumptions of the module:

| theorem | statement |
|---|---|
| `Invariance` | `Spec => []IInv` |
| `BooksRight`, `TasksInPlace`, `HeadOfQueueRuns` | `Books`, `InItsPlace`, `HeadRuns` of the run `rt_balance` |

`IInv` has three parts beside typing.  `Sound` is about each run queue alone: its list and its offers are without
repetition and by priority, its counts and `highest_prio` are those of the tasks on it, and no task on offer runs.
`Books` is the same with the head of the list for `highest_prio`; a task comes and goes by single
fields, and what `dec_rt_prio` does to the field (nothing, unless the priority that left was the highest) follows
from the set of tasks (`Highest`) more directly than from the list.
`Placed` is about tasks and CPUs: a task that is not queued is asleep or waking, and then just one CPU is waking it
(`WakeRight`), or else two could put it on two queues; what runs is where it runs and is queued, unless its CPU has
dropped the lock in the pull of `schedule()` (`RunRight`); and a task queued where it may not run has a request, with the
stopper or on its way to it, that names a place where it may (`StopRight`): every later change of its affinity makes a new request, without which the
stopper would leave the task where it is and forget it.
`HeadRight` is `HeadRuns` for unsettled states: each CPU runs the head of its queue, or is asked
to reschedule, or is pulled for by somebody who looks again at the end, or is in `lost`.  This is where
`prio_changed_rt` shows: its look at the end is the one that may come to nothing.

The proof goes from the fields of a run queue (`IncTasks`, `DecTasks`) to lists (`AddLists`, `RemoveLists`: by position, from the
definitions of `InsertAt` and `RemoveAt`), to one lemma for each operator that makes a kernel state from another
(`Activated`, `Deactivated`, `Moved`, `Requeued`, `Preempted`, `Switched`, `Affine`), to the kinds of steps
(`MovePlaced`, `WakePlaced`, `SleepPlaced`, `AffinePlaced`, `HeadsKept`), and last to one lemma for each action.  That `next` of
`highest_prio` is right is not claimed, since it need not be (see above); the proof uses only its type.

In `RtBandwidth_proofs`, for any number of CPUs, any period, any root domains and settings (nonempty sets of runtimes of at
least one, also above the period) and whatever `MaxTime`: `Invariance`, `RuntimeConserved` (`Conserved`) and
`WantingExplained` (`WantingKnown`).  `IInv` is `WantingKnown` with `TypeOK`, `Borrows` (nobody borrows
for a run queue that is disabled) and `Books`: as long as no setting was half stored while a CPU was
disabled, came or went, the enabled run queues of each domain have together what they
were set to and what the domain drifted by (`Setting`, `Accounts`).  Both are about sums over CPUs
and about loops over CPUs (`do_balance_runtime`, `__disable_runtime`).  What a loop computes is in
`BalanceLoop` and `DisableLoop`, what a sum is in `ExcessIs`; from there `Balanced` and `Disabled` say of
the two loops that what one queue gets is what the others gave, or how much the queue that leaves is
still owed, and `Accounts...` and `Step...` take it to the actions.  The heart of `WantingKnown` is
in `Disabled` and `AccountsDisabled`: the greedy reclaim comes to zero exactly if the others hold
what is missing, and they do if the sum over the domain is right.

In `CommandLine_proofs`, for any set of words (without `;`, the blank, the newline and the two marks of the model), lines of any
length and any directories:

| theorem | statement |
|---|---|
| `Invariance` | `Spec => []IInv` |
| `OnlyCountDrops`, `RunAsTyped`, `EndsKnown`, `FirstWordRepeated`, `PromptIsTrue` | `DroppedByCount`, `AsTyped`, `KilledBy`, `RepeatsFirstWord`, `PromptTrue` of the run `command_line` |

The proof has two halves.  The first is about text and has no steps in it.  `LineIsRead`: the shell
cuts a line at every `;` and drops what is empty but not what is blank, the user counts the `;` that end a command, blank or not (`PlaceOf`), and
word by word (`ReadNext`, with `ReadTo` as its induction hypothesis) both come to the same commands at the same places.  `CutIsRight`: the
pieces of a cut, joined again, are what was cut, none of them has a bar in it and the first ends at the
first bar (`FirstStageIs`).  `ParsedHead` and `ParsedText`: hence what `create_pipeline` and `contains_redirects` make of a
command has the text that was typed, its first stage up to `Strays`.  The second half is the invariant.  `DroppedByCount` is not inductive, for it says
nothing of the commands to come: `Left` says which entries of `commands[]` are `NULL` (`Lost`), namely those whose number is
the word count of a command that was run, or is running, and that all others are still what the line was cut into.
`Told` and `Running` say that what was run, and what is about to be, was parsed from what was typed at its place, `Buffered` what
`strtok` and `EndLine` leave for a `fgets` that fails.  There is one lemma per action; the four ways to die share `DiesOf`,
the branches that go on `DoneInv`.

Both modules need induction over data, which the library's theorems, having an operator as a parameter, cannot give.
`FoldLemmas` replaces it: `UpTo` is induction over the *set* of numbers for which a claim is true, shown by a least
counterexample, and `LoopExists` shows that the function by which the community modules define a fold exists, for a fold of any length.
`SeqInduction` carries it to sequences, built word by word.

Only model-checked: liveness under fairness, which is outside the prover's reach (`EveryoneArrives`, `RoomEmpties`,
`ClosesUnlessRefused`, `WriterStops`, `PipelineReturns`, `Delivered`, `Ends`).  Every other property of every
passing run, the two refinements among them, is a theorem as well.

## Not modelled

* What the programs print; the reading of `student_data.csv` and of the number of
  students: sequential input before the first thread starts; study times, beyond being any length.
* The files that redirected children open, and what a child does on its own: the shell
  only waits for it.
* The modified `schedule()`, which tests `strcmp` on `group_name` fields that
  are `char`, declares `rq` twice, returns a value from a `void` function and uses
  helpers that do not exist, so that there is no behaviour to be faithful to.
* `completion_done`, which only reads.  Of the bandwidth control: a runtime of -1 (no limit), a change
  of the period, a timer that missed a period, and which tasks are queued (throttling is a flag).
* The rest of the Linux sources, 36 thousand lines in two copies and by far the most of the
  repository: the fair class, load balancing, groups and their files, system calls.  They are third-party code that the
  assignments carry along; the three protocols above were taken because the files under
  `ask4` are built from them and because their interleavings are what tests miss.
* The notes in `final/`.

## Plan

1. *Done.* `StudyVisits`, `ReadingRoom`, its proofs; `Pipeline`.
2. *Done.* `CommandLine`, `TaskParams` and its proofs, `Completion` and its proofs,
   `RtBandwidth`, `RtBalance`; `StagedFlow`, which `Pipeline` implements.
3. *Done.* Theorems: the two refinements and every safety and action property of every passing run.
4. Left: three CPUs in `rt_balance` and in `rt_bandwidth`, which TLC does not finish; a runtime of -1 and a change of the period in
   `RtBandwidth`; classes other than the real-time one.

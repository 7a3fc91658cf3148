----------------------------- MODULE RtBandwidth ------------------------------
(***************************************************************************)
(* The bandwidth control of real-time tasks in sched_rt.c of Linux 2.6.38, *)
(* without group scheduling.  Every CPU has a run queue that may run       *)
(* real-time tasks for rt_runtime out of every period; one that needs more *)
(* borrows from the others of its root domain, and takes back what it lent *)
(* when it leaves the domain or its CPU goes down.                         *)
(*                                                                         *)
(* A run queue's rq->lock is held from an action that leaves pc[c] other   *)
(* than "free".  What runs under rt_bandwidth.rt_runtime_lock is one step. *)
(***************************************************************************)
EXTENDS Integers, FiniteSets, FiniteSetsExt, SequencesExt

CONSTANTS
    NCpus,     \* CPUs are 1 .. NCpus, in the order of the masks
    Domains,   \* root domains
    Period,    \* rt_period
    Runtimes,  \* what is written to sched_rt_runtime_us
    MaxDelta,  \* the most a tick accounts
    MaxTime    \* bound on rt_time

ASSUME SizeAssumption == NCpus \in Nat \ {0} /\ Period \in Nat \ {0}
ASSUME RuntimesAssumption == Runtimes # {} /\ Runtimes \subseteq Nat \ {0}
ASSUME TimeAssumption == MaxDelta \in Nat \ {0} /\ MaxTime \in Nat

Cpus == 1 .. NCpus
RUNTIME_INF == -1   \* of a run queue that is disabled: more than any time
Least(a, b) == IF a < b THEN a ELSE b

VARIABLES
    rt_runtime,    \* of each run queue
    rt_time,
    rt_throttled,
    rd,            \* the root domain of its CPU
    phase,         \* how far the CPU has come in going down or up
    pc,            \* where whoever holds rq->lock is
    timer,         \* the CPU of the period timer, if it holds rq->lock; else 0
    b_runtime,     \* def_rt_bandwidth.rt_runtime
    sysctl,        \* the value sched_rt_handler has still to store there, or 0
    bug,           \* BUG_ON(want) was hit
    drift,         \* history: what a domain got from CPUs of others and from second enables
    mixed          \* history: a new setting met a CPU that was disabled, or came or went

queues  == <<rt_runtime, rt_time, rt_throttled>>
history == <<bug, drift, mixed>>
vars == <<queues, rd, phase, pc, timer, b_runtime, sysctl, history>>

Init == /\ b_runtime \in Runtimes
        /\ rt_runtime = [c \in Cpus |-> b_runtime]
        /\ rt_time = [c \in Cpus |-> 0]
        /\ rt_throttled = [c \in Cpus |-> FALSE]
        /\ \E d \in Domains : rd = [c \in Cpus |-> d]
        /\ phase = [c \in Cpus |-> "up"]
        /\ pc = [c \in Cpus |-> "free"]
        /\ timer = [c \in Cpus |-> 0]
        /\ sysctl = 0 /\ bug = FALSE /\ drift = [d \in Domains |-> 0] /\ mixed = FALSE

span(d) == {c \in Cpus : rd[c] = d}
for_each_cpu(Op(_, _), s) == FoldLeft(Op, s, [i \in Cpus |-> i])

Free(c) == pc[c] = "free" /\ ~bug
Goto(c, to) == pc' = [pc EXCEPT ![c] = to]
--------------------------------------------------------------------------------
(***************************************************************************)
(* Borrowing.                                                              *)
(***************************************************************************)
MutBalance(c, d) ==
    LET Borrow(r, i) ==
            LET part == (r[i] - rt_time[i]) \div Cardinality(span(d))
                diff == Least(part, Period - r[c])
            IN  IF i = c \/ i \notin span(d) \/ r[i] = RUNTIME_INF \/ part <= 0 \/ r[c] = Period
                THEN r
                ELSE [r EXCEPT ![i] = @ - part, ![c] = @ + diff]
    IN  for_each_cpu(Borrow, rt_runtime)

\* What do_balance_runtime(c) makes of the runtimes when its processor is in domain d:
\* a share of what each of the others has to spare, up to a whole period.
do_balance_runtime(c, d) ==
    LET Borrow(r, i) ==
            LET spare == r[i] - rt_time[i]
                diff  == Least(spare \div Cardinality(span(d)), Period - r[c])
            IN  IF i = c \/ i \notin span(d) \/ r[i] = RUNTIME_INF \/ spare <= 0 \/ r[c] = Period
                THEN r
                ELSE [r EXCEPT ![i] = @ - diff, ![c] = @ + diff]
    IN  for_each_cpu(Borrow, rt_runtime)

\* smp_processor_id(): the CPU of the tick is its run queue's, that of the timer is any.
Processor(c) == IF timer[c] = 0 THEN c ELSE timer[c]

Balance(c) ==
    LET lender == rd[Processor(c)]
        got    == rt_runtime'[c] - rt_runtime[c]
    IN  /\ pc[c] = "balance" /\ ~bug
        /\ rt_runtime' = do_balance_runtime(c, lender)
        /\ drift' = [d \in Domains |-> drift[d] + (IF d = rd[c] THEN got ELSE 0)
                                              - (IF d = lender THEN got ELSE 0)]
        /\ Goto(c, "settle")
        /\ UNCHANGED <<rt_time, rt_throttled, rd, phase, timer, b_runtime, sysctl, bug, mixed>>

Within(time, runtime) == runtime = RUNTIME_INF \/ time <= runtime

\* update_curr_rt and sched_rt_runtime_exceeded, which lets the lock of the run queue go
\* while it balances.
Tick(c) == \E delta \in 1 .. MaxDelta :
    /\ Free(c) /\ rt_runtime[c] # RUNTIME_INF
    /\ rt_time[c] + delta <= MaxTime
    /\ rt_time' = [rt_time EXCEPT ![c] = @ + delta]
    /\ IF ~rt_throttled[c] /\ rt_runtime[c] < Period /\ ~Within(rt_time'[c], rt_runtime[c])
       THEN Goto(c, "balance") ELSE UNCHANGED pc
    /\ UNCHANGED <<rt_runtime, rt_throttled, rd, phase, timer, b_runtime, sysctl, history>>

Exceeded(c) ==
    /\ pc[c] = "settle" /\ timer[c] = 0 /\ ~bug
    /\ rt_throttled' = [rt_throttled EXCEPT ![c] = ~Within(rt_time[c], rt_runtime[c])]
    /\ Goto(c, "free")
    /\ UNCHANGED <<rt_runtime, rt_time, rd, phase, timer, b_runtime, sysctl, history>>

\* do_sched_rt_period_timer at one CPU: a new period pays for runtime used up.
Refill(c) ==
    LET used == IF Within(rt_time[c], rt_runtime[c]) THEN 0 ELSE rt_time[c] - rt_runtime[c]
        over == rt_runtime[c] # RUNTIME_INF /\ used >= rt_runtime[c]
    IN  /\ rt_time' = [rt_time EXCEPT ![c] = used]
        /\ rt_throttled' = [rt_throttled EXCEPT ![c] = @ /\ over]
        /\ UNCHANGED <<rt_runtime, rd, phase, b_runtime, sysctl, history>>

Timer(c) == \E at \in Cpus :
    /\ Free(c) /\ \A i \in Cpus : timer[i] = 0
    /\ rt_time[c] > 0
    /\ IF rt_throttled[c] /\ ~Within(rt_time[c], rt_runtime[c])
       THEN /\ Goto(c, "balance") /\ timer' = [timer EXCEPT ![c] = at]
            /\ UNCHANGED <<queues, rd, phase, b_runtime, sysctl, history>>
       ELSE Refill(c) /\ UNCHANGED <<pc, timer>>

Refilled(c) ==
    /\ pc[c] = "settle" /\ timer[c] # 0 /\ ~bug
    /\ Refill(c)
    /\ Goto(c, "free") /\ timer' = [timer EXCEPT ![c] = 0]
--------------------------------------------------------------------------------
(***************************************************************************)
(* CPUs that leave a root domain and join one, go down and come up.  Three *)
(* callers enable and disable: set_rq_online and set_rq_offline for the    *)
(* run queue's rq->online, and the notifier update_runtime, which does not *)
(* look at it.                                                             *)
(*   up      active, online and enabled                                    *)
(*   going   disabled by update_runtime, still online                      *)
(*   down    no longer online                                              *)
(*   coming  online and enabled again, but update_runtime is still to run  *)
(***************************************************************************)
MutKeepBorrowed(c) ==
    LET Reclaim(s, i) ==
            LET diff == IF s.want > 0 THEN Least(s.r[i], s.want) ELSE 0
            IN  IF i = c \/ i \notin span(rd[c]) \/ s.r[i] = RUNTIME_INF THEN s
                ELSE [r |-> [s.r EXCEPT ![i] = @ - diff], want |-> s.want - diff]
        all == for_each_cpu(Reclaim, [r |-> rt_runtime, want |-> b_runtime - rt_runtime[c]])
        end == IF rt_runtime[c] = RUNTIME_INF THEN [r |-> rt_runtime, want |-> 0] ELSE all
    IN  [end EXCEPT !.r[c] = RUNTIME_INF]

\* __disable_runtime: c takes back from the others of its domain what it lent, or gives
\* the first of them what it borrowed, and stops borrowing.
Disable(c) ==
    LET Reclaim(s, i) ==
            LET diff == IF s.want > 0 THEN Least(s.r[i], s.want) ELSE s.want
            IN  IF i = c \/ i \notin span(rd[c]) \/ s.r[i] = RUNTIME_INF THEN s
                ELSE [r |-> [s.r EXCEPT ![i] = @ - diff], want |-> s.want - diff]
        all == for_each_cpu(Reclaim, [r |-> rt_runtime, want |-> b_runtime - rt_runtime[c]])
        end == IF rt_runtime[c] = RUNTIME_INF THEN [r |-> rt_runtime, want |-> 0] ELSE all
    IN  [end EXCEPT !.r[c] = RUNTIME_INF]

Leave(c) ==
    LET out == Disable(c)
    IN  /\ rt_runtime' = out.r /\ bug' = (out.want # 0)
        /\ mixed' = (mixed \/ sysctl # 0)
        /\ UNCHANGED <<rt_time, rt_throttled, timer, b_runtime, sysctl, drift>>

\* __enable_runtime: what c has lent or borrowed is forgotten.
Join(c) ==
    LET made == IF rt_runtime[c] = RUNTIME_INF THEN 0 ELSE b_runtime - rt_runtime[c]
    IN  /\ rt_runtime' = [rt_runtime EXCEPT ![c] = b_runtime]
        /\ rt_time' = [rt_time EXCEPT ![c] = 0]
        /\ rt_throttled' = [rt_throttled EXCEPT ![c] = FALSE]
        /\ drift' = [drift EXCEPT ![rd[c]] = @ + made]
        /\ mixed' = (mixed \/ sysctl # 0)
        /\ UNCHANGED <<rd, timer, b_runtime, sysctl, bug>>

Become(c, to) == phase' = [phase EXCEPT ![c] = to]

\* The hotplug lock: one CPU at a time goes down or comes up, and never the last goes.
Plugs(c) == \A i \in Cpus \ {c} : phase[i] \in {"up", "down"}

\* update_runtime at CPU_DOWN_PREPARE.
disable_runtime(c) ==
    /\ Free(c) /\ phase[c] = "up" /\ Plugs(c) /\ \E i \in Cpus \ {c} : phase[i] = "up"
    /\ Leave(c) /\ Become(c, "going")
    /\ UNCHANGED <<rd, pc>>

\* migration_call at CPU_DYING.
set_rq_offline(c) ==
    /\ Free(c) /\ phase[c] = "going"
    /\ Leave(c) /\ Become(c, "down")
    /\ UNCHANGED <<rd, pc>>

\* migration_call at CPU_ONLINE.
set_rq_online(c) ==
    /\ Free(c) /\ phase[c] = "down" /\ Plugs(c)
    /\ Join(c) /\ Become(c, "coming")
    /\ UNCHANGED pc

\* update_runtime at CPU_ONLINE, and at CPU_DOWN_FAILED, where the run queue may be
\* enabled or not.
enable_runtime(c) ==
    /\ Free(c) /\ phase[c] \in {"going", "coming"}
    /\ Join(c) /\ Become(c, "up")
    /\ UNCHANGED pc

\* rq_attach_root: set_rq_offline for the old domain and, if the CPU is active,
\* set_rq_online for the new one.  One that goes is active until, and one that comes from,
\* sched_cpu_inactive and sched_cpu_active.
rq_attach_root(c) == \E d \in Domains : \E active \in BOOLEAN :
    /\ Free(c)
    /\ phase[c] \in {"up", "coming"} => active
    /\ phase[c] = "down" /\ active => Plugs(c)
    /\ Leave(c)
    /\ rd' = [rd EXCEPT ![c] = d]
    /\ IF active THEN Goto(c, "attach") ELSE UNCHANGED pc
    /\ Become(c, IF ~active THEN "down" ELSE IF phase[c] = "up" THEN "up" ELSE "coming")

Attached(c) ==
    /\ pc[c] = "attach" /\ ~bug
    /\ Join(c) /\ Goto(c, "free")
    /\ UNCHANGED phase
--------------------------------------------------------------------------------
(***************************************************************************)
(* sched_rt_handler: first the run queues, under the lock, then the value  *)
(* they are compared with, without it.                                     *)
(***************************************************************************)
sched_rt_global_constraints == \E v \in Runtimes :
    /\ ~bug /\ sysctl = 0
    /\ rt_runtime' = [c \in Cpus |-> v]
    /\ sysctl' = v
    /\ drift' = [d \in Domains |-> 0]
    /\ mixed' = (\E c \in Cpus : rt_runtime[c] = RUNTIME_INF)
    /\ UNCHANGED <<rt_time, rt_throttled, rd, phase, pc, timer, b_runtime, bug>>

sched_rt_handler ==
    /\ ~bug /\ sysctl # 0
    /\ b_runtime' = sysctl /\ sysctl' = 0
    /\ UNCHANGED <<queues, rd, phase, pc, timer, history>>

Next == \/ sched_rt_global_constraints \/ sched_rt_handler
        \/ \E c \in Cpus : \/ Tick(c) \/ Balance(c) \/ Exceeded(c) \/ Timer(c) \/ Refilled(c)
                           \/ disable_runtime(c) \/ set_rq_offline(c) \/ set_rq_online(c)
                           \/ enable_runtime(c) \/ rq_attach_root(c) \/ Attached(c)

Spec == Init /\ [][Next]_vars
--------------------------------------------------------------------------------
Surplus(S) == MapThenSumSet(LAMBDA c : rt_runtime[c] - b_runtime,
                            {c \in S : rt_runtime[c] # RUNTIME_INF})

\* Runtime is made or lost in two ways only: what the timer borrows on a CPU of another
\* domain comes from there, to the last unit, and what a run queue had lent or borrowed when
\* update_runtime enables it again is made up.  Beside that each root domain has what its
\* enabled CPUs were given, whoever borrows, reclaims, leaves, joins or goes down; and no
\* runtime, which is an unsigned number, is taken below zero.
Conserved ==
    /\ \A c \in Cpus : rt_runtime[c] = RUNTIME_INF \/ rt_runtime[c] >= 0
    /\ sysctl = 0 /\ ~mixed /\ ~bug => \A d \in Domains : Surplus(span(d)) = drift[d]

\* A CPU is left wanting only in a domain that lost or won runtime in one of these two
\* ways, or after a CPU came, went or was disabled while sched_rt_handler changed the setting.
WantingKnown == bug => mixed \/ \E d \in Domains : drift[d] # 0

\* "We cannot be left wanting - that would mean some runtime leaked out of the system."
\* (sched_rt.c:463), said of a system whose settings nobody changes under way.
NeverWanting == bug => mixed
================================================================================

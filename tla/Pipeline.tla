-------------------------------- MODULE Pipeline --------------------------------
(***************************************************************************)
(* execute_pipeline of the shell in ask1: one process per stage, joined by *)
(* pipes, every process with its own table of file descriptors.  The shell *)
(* makes a pipe, forks a stage and closes its copy of the write end, stage *)
(* after stage, while the stages already forked run; then it waits for all *)
(* of them.                                                                *)
(*                                                                         *)
(* Descriptors are numbered, and handed out lowest first, because what the *)
(* shell forgets to close decides who gets end-of-file, who gets SIGPIPE   *)
(* and when pipe() fails.  What a stage execs is one of a few kinds of     *)
(* program; what flows through a pipe is counted, not named.               *)
(***************************************************************************)
EXTENDS Integers, FiniteSets, FiniteSetsExt

CONSTANTS
    Jobs,       \* how many pipelines the user types
    Lengths,    \* the numbers of stages they may have
    Programs,   \* the kinds of programs they are made of
    MaxFd,      \* descriptors a process may have (RLIMIT_NOFILE)
    Capacity    \* what a pipe holds

ASSUME SizeAssumption ==
       /\ Jobs \in Nat \ {0} /\ Capacity \in Nat \ {0}
       /\ Lengths \subseteq Nat \ {0, 1} /\ Lengths # {} /\ IsFiniteSet(Lengths)
       /\ MaxFd \in Nat /\ MaxFd >= 5
       /\ Programs \subseteq {"filter", "head", "yes", "seq", "missing"}

MaxStages == CHOOSE n \in Lengths : \A l \in Lengths : l <= n
Shell == 0
Stages == 1 .. MaxStages
Procs == {Shell} \cup Stages
Fds   == 0 .. MaxFd - 1
Pipes == (1 .. Jobs) \X (1 .. MaxStages - 1)   \* <<j, i>>: behind stage i of pipeline j

NoFd  == -1   \* what prev_pipe starts with, and every number that is no descriptor
Unset == -2   \* pipefds before the first pipe()

Closed == <<"closed", 0>>
Tty    == <<"tty", 0>>
ReadEnd(p)  == <<"read", p>>
WriteEnd(p) == <<"write", p>>
Files == {Closed, Tty} \cup {ReadEnd(p) : p \in Pipes} \cup {WriteEnd(p) : p \in Pipes}

VARIABLES
    pc,      \* where the shell is
    job,     \* pipelines typed so far
    length,  \* the number of stages of this one
    cmd,     \* the stage execute_pipeline is at
    table,   \* the descriptor table of each process
    frame,   \* prev_pipe and pipefds, as the shell has them and as each stage inherited them
    stage,   \* where each stage is
    prog,    \* the program it execs
    inHand,  \* it has read what it has not written yet
    made,    \* the pipes ever made
    level,   \* how much each holds
    failed   \* history: a pipe() of this pipeline failed

shellVars == <<pc, job, length, cmd>>
kernel    == <<table, made, level>>
stageVars == <<stage, prog, inHand>>
vars == <<shellVars, kernel, frame, stageVars, failed>>

NoFrame == [prev |-> NoFd, rd |-> Unset, wr |-> Unset]
NoTable == [fd \in Fds |-> Closed]

Init == /\ pc = "prompt" /\ job = 0 /\ length = 0 /\ cmd = 0
        /\ table = [q \in Procs |-> [fd \in Fds |-> IF q = Shell /\ fd <= 2 THEN Tty ELSE Closed]]
        /\ frame = [q \in Procs |-> NoFrame]
        /\ stage = [i \in Stages |-> "none"]
        /\ prog = [i \in Stages |-> "none"]
        /\ inHand = [i \in Stages |-> FALSE]
        /\ made = {}
        /\ level = [p \in Pipes |-> 0]
        /\ failed = FALSE

\* close and dup2 on a descriptor table; both leave it alone on a bad descriptor.
Close(t, fd)     == [x \in Fds |-> IF x = fd THEN Closed ELSE t[x]]
Dup2(t, old, new) == IF old \in Fds /\ t[old] # Closed THEN [t EXCEPT ![new] = t[old]] ELSE t

Piped(i) == i < length
Holders(f) == {q \in Procs : \E fd \in Fds : table[q][fd] = f}
--------------------------------------------------------------------------------
(***************************************************************************)
(* The shell.                                                              *)
(***************************************************************************)
Enter == \E n \in Lengths :
    /\ pc = "prompt" /\ job < Jobs
    /\ pc' = "pipe" /\ job' = job + 1 /\ length' = n /\ cmd' = 1
    /\ frame' = [frame EXCEPT ![Shell] = NoFrame]
    /\ failed' = FALSE
    /\ UNCHANGED <<kernel, stageVars>>

Quit == /\ pc = "prompt"
        /\ pc' = "exited"
        /\ table' = [table EXCEPT ![Shell] = NoTable]
        /\ UNCHANGED <<job, length, cmd, made, level, frame, stageVars, failed>>

\* pipe() takes the two lowest free descriptors.
MakePipe ==
    LET free == {fd \in Fds : table[Shell][fd] = Closed}
        rd == Min(free)
        wr == Min(free \ {rd})
    IN  /\ pc = "pipe" /\ Piped(cmd)
        /\ Cardinality(free) >= 2
        /\ pc' = "fork"
        /\ made' = made \cup {<<job, cmd>>}
        /\ table' = [table EXCEPT ![Shell][rd] = ReadEnd(<<job, cmd>>),
                                   ![Shell][wr] = WriteEnd(<<job, cmd>>)]
        /\ frame' = [frame EXCEPT ![Shell].rd = rd, ![Shell].wr = wr]
        /\ UNCHANGED <<job, length, cmd, level, stageVars, failed>>

\* Its failure goes unnoticed: pipefds keeps what the last pipe() put there.
PipeFails ==
    /\ pc = "pipe" /\ Piped(cmd)
    /\ Cardinality({fd \in Fds : table[Shell][fd] = Closed}) < 2
    /\ pc' = "fork"
    /\ failed' = TRUE
    /\ UNCHANGED <<job, length, cmd, kernel, frame, stageVars>>

LastStage == /\ pc = "pipe" /\ ~Piped(cmd)
             /\ pc' = "fork"
             /\ UNCHANGED <<job, length, cmd, kernel, frame, stageVars, failed>>

\* The stage starts with a copy of the table and of the stack.
Fork == \E program \in Programs :
    /\ pc = "fork"
    /\ pc' = "parent"
    /\ table' = [table EXCEPT ![cmd] = table[Shell]]
    /\ frame' = [frame EXCEPT ![cmd] = frame[Shell]]
    /\ stage' = [stage EXCEPT ![cmd] = "stdin"]
    /\ prog'  = [prog EXCEPT ![cmd] = program]
    /\ UNCHANGED <<job, length, cmd, made, level, inHand, failed>>

\* fork() fails: the shell exits; the stages it started go on without it.
ForkFails == /\ pc = "fork"
             /\ pc' = "exited"
             /\ table' = [table EXCEPT ![Shell] = NoTable]
             /\ UNCHANGED <<job, length, cmd, made, level, frame, stageVars, failed>>

MutParent ==
    /\ pc = "parent"
    /\ IF Piped(cmd)
       THEN /\ frame' = [frame EXCEPT ![Shell].prev = frame[Shell].rd]
            /\ pc' = "pipe"
       ELSE pc' = "last" /\ UNCHANGED frame
    /\ cmd' = cmd + 1
    /\ UNCHANGED <<job, length, kernel, stageVars, failed>>

\* The write end is closed; the read end is remembered in prev_pipe, over
\* whatever prev_pipe was.
Parent ==
    /\ pc = "parent"
    /\ IF Piped(cmd)
       THEN /\ table' = [table EXCEPT ![Shell] = Close(@, frame[Shell].wr)]
            /\ frame' = [frame EXCEPT ![Shell].prev = frame[Shell].rd]
            /\ pc' = "pipe"
       ELSE /\ pc' = "last"
            /\ UNCHANGED <<table, frame>>
    /\ cmd' = cmd + 1
    /\ UNCHANGED <<job, length, made, level, stageVars, failed>>

MutCloseLast ==
    /\ pc = "last"
    /\ pc' = "wait"
    /\ UNCHANGED <<job, length, cmd, kernel, frame, stageVars, failed>>

CloseLast ==
    /\ pc = "last"
    /\ pc' = "wait"
    /\ table' = [table EXCEPT ![Shell] = Close(@, frame[Shell].prev)]
    /\ UNCHANGED <<job, length, cmd, made, level, frame, stageVars, failed>>

Reap == \E i \in Stages :
    /\ pc = "wait" /\ stage[i] = "zombie"
    /\ stage' = [stage EXCEPT ![i] = "none"]
    /\ prog' = [prog EXCEPT ![i] = "none"]
    /\ UNCHANGED <<shellVars, kernel, frame, inHand, failed>>

WaitedForAll ==
    /\ pc = "wait" /\ \A i \in Stages : stage[i] = "none"
    /\ pc' = "prompt"
    /\ UNCHANGED <<job, length, cmd, kernel, frame, stageVars, failed>>

ShellStep == MakePipe \/ PipeFails \/ LastStage \/ Fork \/ Parent \/ CloseLast \/ Reap \/ WaitedForAll
--------------------------------------------------------------------------------
(***************************************************************************)
(* A stage, between fork and exec.                                         *)
(***************************************************************************)
MutConnectStdin(i) ==
    /\ stage[i] = "stdin"
    /\ stage' = [stage EXCEPT ![i] = "stdout"]
    /\ table' = [table EXCEPT ![i] = Dup2(Close(@, frame[i].prev), frame[i].prev, 0)]
    /\ UNCHANGED <<shellVars, made, level, frame, prog, inHand, failed>>

ConnectStdin(i) ==
    /\ stage[i] = "stdin"
    /\ stage' = [stage EXCEPT ![i] = "stdout"]
    /\ table' = [table EXCEPT ![i] = Close(Dup2(@, frame[i].prev, 0), frame[i].prev)]
    /\ UNCHANGED <<shellVars, made, level, frame, prog, inHand, failed>>

MutConnectStdout(i) ==
    /\ stage[i] = "stdout"
    /\ stage' = [stage EXCEPT ![i] = IF prog[i] = "missing" THEN "end" ELSE "run"]
    /\ table' = IF Piped(i) THEN [table EXCEPT ![i] = Dup2(@, frame[i].wr, 1)] ELSE table
    /\ frame' = [frame EXCEPT ![i] = NoFrame]
    /\ UNCHANGED <<shellVars, made, level, prog, inHand, failed>>

ConnectStdout(i) ==
    /\ stage[i] = "stdout"
    /\ stage' = [stage EXCEPT ![i] = IF prog[i] = "missing" THEN "end" ELSE "run"]
    /\ table' = IF Piped(i)
                THEN [table EXCEPT ![i] = Close(Dup2(@, frame[i].wr, 1), frame[i].rd)]
                ELSE table
    /\ frame' = [frame EXCEPT ![i] = NoFrame]
    /\ UNCHANGED <<shellVars, made, level, prog, inHand, failed>>

(***************************************************************************)
(* The program it execs: a filter copies its input to its output, head     *)
(* copies once, yes writes for ever, seq as much as it likes and then      *)
(* ends.  A missing one has failed to exec.  All of them die of SIGPIPE    *)
(* and stop at end-of-file.  On the terminal the user types as much as he  *)
(* likes, and then the end of his input.                                   *)
(***************************************************************************)
Reading(i) == stage[i] = "run" /\ prog[i] \in {"filter", "head"} /\ ~inHand[i]
Writing(i) == stage[i] = "run" /\ (prog[i] \in {"yes", "seq"} \/ inHand[i])
Stdin(i)  == table[i][0]
Stdout(i) == table[i][1]
Goto(i, to) == stage' = [stage EXCEPT ![i] = to]

Read(i) ==
    /\ Reading(i)
    /\ \/ \E p \in Pipes : /\ Stdin(i) = ReadEnd(p) /\ level[p] > 0
                           /\ level' = [level EXCEPT ![p] = @ - 1]
       \/ Stdin(i) = Tty /\ UNCHANGED level
    /\ inHand' = [inHand EXCEPT ![i] = TRUE]
    /\ UNCHANGED <<shellVars, table, made, frame, stage, prog, failed>>

EndOfFile(i) ==
    /\ Reading(i)
    /\ \A p \in Pipes : Stdin(i) = ReadEnd(p) => level[p] = 0 /\ Holders(WriteEnd(p)) = {}
    /\ Goto(i, "end")
    /\ UNCHANGED <<shellVars, kernel, frame, prog, inHand, failed>>

\* Room in the pipe, or no pipe at all.
Write(i) ==
    /\ Writing(i)
    /\ \/ \E p \in Pipes : /\ Stdout(i) = WriteEnd(p)
                           /\ Holders(ReadEnd(p)) # {} /\ level[p] < Capacity
                           /\ level' = [level EXCEPT ![p] = @ + 1]
       \/ Stdout(i) = Tty /\ UNCHANGED level
    /\ inHand' = [inHand EXCEPT ![i] = FALSE]
    /\ \/ prog[i] \in {"head", "seq"} /\ Goto(i, "end")
       \/ prog[i] # "head" /\ Goto(i, "run")
    /\ UNCHANGED <<shellVars, table, made, frame, prog, failed>>

BrokenPipe(i) ==
    /\ Writing(i)
    /\ Stdout(i) # Tty
    /\ \A p \in Pipes : Stdout(i) = WriteEnd(p) => Holders(ReadEnd(p)) = {}
    /\ Goto(i, "end")
    /\ UNCHANGED <<shellVars, kernel, frame, prog, inHand, failed>>

Finish(i) ==
    /\ stage[i] = "end"
    /\ Goto(i, "zombie")
    /\ table' = [table EXCEPT ![i] = NoTable]
    /\ inHand' = [inHand EXCEPT ![i] = FALSE]
    /\ UNCHANGED <<shellVars, made, level, frame, prog, failed>>

Stage(i) == \/ ConnectStdin(i) \/ ConnectStdout(i)
            \/ Read(i) \/ EndOfFile(i) \/ Write(i) \/ BrokenPipe(i) \/ Finish(i)
--------------------------------------------------------------------------------
Exited == pc = "exited" /\ UNCHANGED vars

Next == \/ Enter \/ Quit \/ ForkFails \/ ShellStep
        \/ \E i \in Stages : Stage(i)
        \/ Exited

Spec == Init /\ [][Next]_vars

\* What seq writes is finite, and so is what the user types.
LastItem(i) == (Write(i) \/ (EndOfFile(i) /\ Stdin(i) = Tty)) /\ stage'[i] = "end"
FairSpec == Spec /\ WF_vars(ShellStep)
                 /\ \A i \in Stages : WF_vars(Stage(i)) /\ SF_vars(LastItem(i))
--------------------------------------------------------------------------------
TypeOK ==
    /\ pc \in {"prompt", "pipe", "fork", "parent", "last", "wait", "exited"}
    /\ job \in 0 .. Jobs /\ length \in 0 .. MaxStages /\ cmd \in 0 .. MaxStages + 1
    /\ table \in [Procs -> [Fds -> Files]]
    /\ frame \in [Procs -> [prev : Fds \cup {NoFd}, rd : Fds \cup {NoFd, Unset}, wr : Fds \cup {NoFd, Unset}]]
    /\ stage \in [Stages -> {"none", "stdin", "stdout", "run", "end", "zombie"}]
    /\ prog \in [Stages -> Programs \cup {"none"}]
    /\ inHand \in [Stages -> BOOLEAN]
    /\ made \subseteq Pipes
    /\ level \in [Pipes -> 0 .. Capacity]
    /\ failed \in BOOLEAN

\* As long as descriptors last, every stage execs with its standard input and
\* output on the pipes to its neighbours, the ends of the line on the terminal,
\* whatever the shell closed and reused in the meantime.
Connected ==
    ~failed => \A i \in Stages : stage[i] = "run" =>
        /\ Stdin(i)  = IF i = 1 THEN Tty ELSE ReadEnd(<<job, i - 1>>)
        /\ Stdout(i) = IF Piped(i) THEN WriteEnd(<<job, i>>) ELSE Tty

\* End-of-file gets through: only a stage itself, and the shell until it has
\* forked that stage, ever holds the write end behind it.
WritersKnown ==
    ~failed => \A p \in made : \A q \in Holders(WriteEnd(p)) :
        p[1] = job /\ (q = p[2] \/ (q = Shell /\ cmd = p[2]))

\* What a pipeline costs the shell: back at the prompt it has its terminal and,
\* beyond that, exactly the read ends of all pipes but the last of each
\* pipeline, whether or not pipe() failed on the way.
LeaksAllButLast ==
    pc = "prompt" =>
        /\ \A fd \in 0 .. 2 : table[Shell][fd] = Tty
        /\ {table[Shell][fd] : fd \in 3 .. MaxFd - 1} \ {Closed}
              = {ReadEnd(p) : p \in {q \in made : <<q[1], q[2] + 1>> \in made}}

\* The leak stops short of the worst: two descriptors are always left for the
\* first pipe() of a pipeline, so nobody ever acts on pipefds as the stack had it.
PipefdsSet == pc \in {"fork", "parent"} /\ Piped(cmd) => frame[Shell].rd # Unset

Blocked(i) == \E p \in Pipes :
    \/ Reading(i) /\ Stdin(i) = ReadEnd(p) /\ level[p] = 0 /\ Holders(WriteEnd(p)) # {}
    \/ Writing(i) /\ Stdout(i) = WriteEnd(p) /\ level[p] = Capacity /\ Holders(ReadEnd(p)) # {}
Stuck == /\ pc = "wait" /\ \E i \in Stages : stage[i] # "none"
         /\ \A i \in Stages : stage[i] = "none" \/ Blocked(i)

\* The shell waits for ever only for a stage that writes to one that is gone,
\* kept from SIGPIPE by the read end the shell itself forgot to close; so never
\* for a pipeline of two stages.
HangIsLeak ==
    Stuck /\ ~failed => \E i \in Stages :
        /\ i + 1 < length
        /\ Writing(i) /\ stage[i + 1] = "none"
        /\ Shell \in Holders(ReadEnd(<<job, i>>))

\* As long as descriptors last, the stage before the last stops once the last, its
\* reader, is gone: no copy of the read end survives anywhere, and SIGPIPE tells it.
WriterStops ==
    \A i \in Stages : (i + 1 = length /\ stage[i] # "none" /\ stage[i + 1] = "zombie")
                      ~> (failed \/ stage[i] \in {"none", "zombie"})

HeldUp(i) == pc = "wait" /\ i + 1 < length /\ Blocked(i) /\ Writing(i) /\ stage[i + 1] \in {"zombie", "none"}

\* Unless some program writes for ever or descriptors run out, every pipeline comes
\* back to the prompt: each stage is told when its input has ended.  The one thing
\* that can keep the shell from it is a stage before the last but one whose reader
\* has gone with more to come than the pipe holds: it waits for room for ever.
PipelineReturns ==
    pc = "pipe" ~> \/ pc \in {"prompt", "exited"} \/ failed
                   \/ \E i \in Stages : prog[i] = "yes" \/ HeldUp(i)
--------------------------------------------------------------------------------
(***************************************************************************)
(* Pipelines implement StagedFlow.  Between two of them, and after a       *)
(* pipe() that failed, there is no pipeline; the stages that a failing     *)
(* fork() left unborn have ended.                                          *)
(***************************************************************************)
NoPipeline == failed \/ pc = "prompt" \/ (pc = "exited" /\ ~(cmd \in 1 .. length))
Live(i) == ~NoPipeline /\ stage[i] \in {"stdin", "stdout", "run"}
Forked(i) == i < cmd \/ (i = cmd /\ pc = "parent")

FlowLength == IF NoPipeline THEN 0 ELSE length
FlowPhase  == [i \in Stages |-> IF Live(i) THEN "running"
                                ELSE IF ~NoPipeline /\ i <= length /\ (Forked(i) \/ pc = "exited")
                                     THEN "ended" ELSE "unborn"]
FlowProg   == [i \in Stages |-> IF Live(i) THEN prog[i] ELSE "none"]
FlowInHand == [i \in Stages |-> Live(i) /\ inHand[i]]
FlowLevel  == [i \in Stages |-> IF NoPipeline \/ i >= length THEN 0 ELSE level[<<job, i>>]]

Flow == INSTANCE StagedFlow WITH
    length <- FlowLength, phase <- FlowPhase, prog <- FlowProg, inHand <- FlowInHand, flow <- FlowLevel

\* As long as descriptors last, the stages are joined as if by queues: end-of-file
\* and SIGPIPE come only when the neighbour has ended, and nothing is read that the
\* neighbour did not write.
ImplementsFlow == Flow!Spec
================================================================================

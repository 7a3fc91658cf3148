------------------------------- MODULE TaskParams -------------------------------
(***************************************************************************)
(* The two system calls of ask3.  set_task_params tests and stores the     *)
(* group name and member id of the calling task; get_task_params copies    *)
(* them to user memory, one after the other, and ignores whether it could. *)
(* A copy may fault and sleep, so other tasks run between the two, and     *)
(* threads of the same address space may unmap or reuse the buffer.        *)
(*                                                                         *)
(* External: fork and clone, which copy the task structure, and an address *)
(* space of two pages that may be mapped or not.                           *)
(***************************************************************************)
EXTENDS Integers, FiniteSets

CONSTANTS
    Tasks,       \* the tasks there may be at once
    FirstTask,   \* the one there is at first
    SetArgs,     \* what they pass as group_name, an int by demo.c's macro, and member_id
    Addrs        \* the addresses they pass as d_arguments

ASSUME ArgsAssumption == /\ FirstTask \in Tasks /\ IsFiniteSet(Tasks)
                         /\ SetArgs \subseteq Int \X Int
                          /\ Addrs \subseteq {"buf", "edge", "low", "kernel"} /\ Addrs # {}

\* A parameter of type char is the low byte of what the caller pushed, signed.
CharOf(i) == ((i + 128) % 256) - 128
Letters == 65 .. 90     \* 'A' .. 'Z'
EINVAL  == 22
None    == -1           \* no call has returned yet

Spaces == Tasks         \* an address space is named for the task it was made for
Pages  == {1, 2}
Fields == {"group", "member"}

\* Where a struct d_params at each address lies: on one page, across the end of one,
\* where nothing is ever mapped (the 'A' that demo.c passes), or in the kernel.
PageOf(addr, field) ==
    CASE addr = "buf"  -> 1
      [] addr = "edge" -> IF field = "group" THEN 1 ELSE 2
      [] OTHER         -> 0
access_ok(addr) == addr # "kernel"

VARIABLES
    alive,     \* the tasks there are
    params,    \* group_name and member_id in each task structure
    space,     \* the address space each runs in
    mapped,    \* the pages of each space that can be written
    memory,    \* what user memory holds at each address
    pc,        \* where a task is in get_task_params
    arg,       \* d_arguments
    ret,       \* what its last call returned
    stored,    \* history: the fields its last get has copied
    clean,     \* history: nobody else touched that memory meanwhile
    accepted,  \* history: the pairs a set has accepted
    mixing     \* history: spaces that had two tasks, or a copy that faulted

tasks == <<alive, space>>
users == <<mapped, memory>>
calls == <<pc, arg, ret, stored>>
vars  == <<tasks, params, users, calls, clean, accepted, mixing>>

Unset   == [group |-> 0, member |-> 0]
AnyAddr == CHOOSE a \in Addrs : TRUE
Buffers == [a \in Addrs |-> Unset]

Init == /\ alive = {FirstTask}
        /\ params = [t \in Tasks |-> Unset]
        /\ space = [t \in Tasks |-> t]
        /\ mapped = [s \in Spaces |-> Pages]
        /\ memory = [s \in Spaces |-> Buffers]
        /\ pc = [t \in Tasks |-> "user"]
        /\ arg = [t \in Tasks |-> AnyAddr]
        /\ ret = [t \in Tasks |-> None]
        /\ stored = [t \in Tasks |-> {}]
        /\ clean = [t \in Tasks |-> FALSE]
        /\ accepted = {} /\ mixing = {}

InUser(t) == t \in alive /\ pc[t] = "user"
--------------------------------------------------------------------------------
MutWrong(a) == a[2] < 0 \/ CharOf(a[1]) \notin Letters
Wrong(a) == a[2] <= 0 \/ CharOf(a[1]) \notin Letters
Pair(a)  == [group |-> CharOf(a[1]), member |-> a[2]]
Return(t, r) == ret' = [ret EXCEPT ![t] = r]

MutReject(t) == \E a \in SetArgs :
    /\ InUser(t) /\ Wrong(a)
    /\ params' = IF CharOf(a[1]) \in Letters THEN [params EXCEPT ![t].group = CharOf(a[1])] ELSE params
    /\ Return(t, EINVAL)
    /\ stored' = [stored EXCEPT ![t] = {}]
    /\ clean' = [clean EXCEPT ![t] = FALSE]
    /\ UNCHANGED <<tasks, users, pc, arg, accepted, mixing>>

Reject(t) ==
    /\ InUser(t) /\ \E a \in SetArgs : Wrong(a)
    /\ Return(t, EINVAL)
    /\ stored' = [stored EXCEPT ![t] = {}]
    /\ clean' = [clean EXCEPT ![t] = FALSE]
    /\ UNCHANGED <<tasks, params, users, pc, arg, accepted, mixing>>

MutAccept(t) == \E a \in SetArgs, task \in alive :
    /\ InUser(t) /\ ~Wrong(a)
    /\ params' = [params EXCEPT ![task] = Pair(a)]
    /\ accepted' = accepted \cup {Pair(a)}
    /\ Return(t, 0)
    /\ stored' = [stored EXCEPT ![t] = {}]
    /\ clean' = [clean EXCEPT ![t] = FALSE]
    /\ UNCHANGED <<tasks, users, pc, arg, mixing>>

\* The task is the caller, whatever README.MD says of an argument.
Accept(t) == \E a \in SetArgs :
    /\ InUser(t) /\ ~Wrong(a)
    /\ params' = [params EXCEPT ![t] = Pair(a)]
    /\ accepted' = accepted \cup {Pair(a)}
    /\ Return(t, 0)
    /\ stored' = [stored EXCEPT ![t] = {}]
    /\ clean' = [clean EXCEPT ![t] = FALSE]
    /\ UNCHANGED <<tasks, users, pc, arg, mixing>>

IsUnset(t) == params[t].group = 0 \/ params[t].member = 0

RefuseGet(t) == \E addr \in Addrs :
    /\ InUser(t)
    /\ ~access_ok(addr) \/ IsUnset(t)
    /\ Return(t, EINVAL)
    /\ stored' = [stored EXCEPT ![t] = {}]
    /\ clean' = [clean EXCEPT ![t] = FALSE]
    /\ UNCHANGED <<tasks, params, users, pc, arg, accepted, mixing>>

Get(t) == \E addr \in Addrs :
    /\ InUser(t)
    /\ access_ok(addr) /\ ~IsUnset(t)
    /\ pc' = [pc EXCEPT ![t] = "group"]
    /\ arg' = [arg EXCEPT ![t] = addr]
    /\ stored' = [stored EXCEPT ![t] = {}]
    /\ clean' = [clean EXCEPT ![t] = TRUE]
    /\ UNCHANGED <<tasks, params, users, ret, accepted, mixing>>

\* copy_to_user stores the field, or returns what it could not store: nobody looks.
Copy(t, field) ==
    LET s == space[t]
        a == arg[t]
    IN  IF PageOf(a, field) \in mapped[s]
        THEN /\ memory' = [memory EXCEPT ![s][a][field] = params[t][field]]
             /\ stored' = [stored EXCEPT ![t] = @ \cup {field}]
             /\ clean' = [u \in Tasks |-> clean[u] /\ (u = t \/ space[u] # s \/ arg[u] # a)]
             /\ UNCHANGED mixing
        ELSE /\ mixing' = mixing \cup {s}
             /\ UNCHANGED <<memory, stored, clean>>

CopyGroup(t) ==
    /\ pc[t] = "group"
    /\ Copy(t, "group")
    /\ pc' = [pc EXCEPT ![t] = "member"]
    /\ UNCHANGED <<tasks, params, mapped, arg, ret, accepted>>

CopyMember(t) ==
    /\ pc[t] = "member"
    /\ Copy(t, "member")
    /\ pc' = [pc EXCEPT ![t] = "user"]
    /\ Return(t, 0)
    /\ UNCHANGED <<tasks, params, mapped, arg, accepted>>
--------------------------------------------------------------------------------
(***************************************************************************)
(* The rest of the kernel.                                                 *)
(***************************************************************************)
\* A new task starts with a copy of the task structure, and with a copy of the address
\* space, or in the same one.
NewTask(t, u) ==
    /\ InUser(t) /\ u \in Tasks \ alive
    /\ alive' = alive \cup {u}
    /\ params' = [params EXCEPT ![u] = params[t]]
    /\ ret' = [ret EXCEPT ![u] = None]
    /\ stored' = [stored EXCEPT ![u] = {}]
    /\ clean' = [clean EXCEPT ![u] = FALSE]
    /\ UNCHANGED <<pc, arg, accepted>>

Fork(t) == \E u \in Tasks :
    /\ NewTask(t, u)
    /\ \A v \in alive : space[v] # u
    /\ space' = [space EXCEPT ![u] = u]
    /\ mapped' = [mapped EXCEPT ![u] = mapped[space[t]]]
    /\ memory' = [memory EXCEPT ![u] = memory[space[t]]]
    /\ mixing' = IF space[t] \in mixing THEN mixing \cup {u} ELSE mixing \ {u}

Clone(t) == \E u \in Tasks :
    /\ NewTask(t, u)
    /\ space' = [space EXCEPT ![u] = space[t]]
    /\ mixing' = mixing \cup {space[t]}
    /\ UNCHANGED users

\* With its last task an address space goes too.
Exit(t) ==
    LET mine == {space[t]} \ {space[u] : u \in alive \ {t}}
    IN  /\ InUser(t) /\ alive # {t}
        /\ alive' = alive \ {t}
        /\ params' = [params EXCEPT ![t] = Unset]
        /\ space' = [space EXCEPT ![t] = t]
        /\ mapped' = [s \in Spaces |-> IF s \in mine THEN Pages ELSE mapped[s]]
        /\ memory' = [s \in Spaces |-> IF s \in mine THEN Buffers ELSE memory[s]]
        /\ arg' = [arg EXCEPT ![t] = AnyAddr]
        /\ ret' = [ret EXCEPT ![t] = None]
        /\ stored' = [stored EXCEPT ![t] = {}]
        /\ clean' = [clean EXCEPT ![t] = FALSE]
        /\ mixing' = mixing \ mine
        /\ UNCHANGED <<pc, accepted>>

\* What was on a page is gone when it is mapped again.
Remap(t) == \E p \in Pages :
    LET s == space[t]
    IN  /\ InUser(t)
        /\ mapped' = [mapped EXCEPT ![s] = IF p \in @ THEN @ \ {p} ELSE @ \cup {p}]
        /\ memory' = [memory EXCEPT ![s] = [a \in Addrs |->
                          [group  |-> IF PageOf(a, "group") = p THEN 0 ELSE @[a].group,
                           member |-> IF PageOf(a, "member") = p THEN 0 ELSE @[a].member]]]
        /\ clean' = [u \in Tasks |-> clean[u] /\ space[u] # s]
        /\ UNCHANGED <<tasks, params, calls, accepted, mixing>>

Call(t) == Reject(t) \/ Accept(t) \/ RefuseGet(t) \/ Get(t) \/ CopyGroup(t) \/ CopyMember(t)
Next == \E t \in Tasks : Call(t) \/ Fork(t) \/ Clone(t) \/ Exit(t) \/ Remap(t)
Spec == Init /\ [][Next]_vars
--------------------------------------------------------------------------------
Chars == -128 .. 127
Pairs == [group : Chars, member : Int]

TypeOK ==
    /\ alive \subseteq Tasks
    /\ params \in [Tasks -> Pairs]
    /\ space \in [Tasks -> Spaces]
    /\ mapped \in [Spaces -> SUBSET Pages]
    /\ memory \in [Spaces -> [Addrs -> Pairs]]
    /\ pc \in [Tasks -> {"user", "group", "member"}]
    /\ arg \in [Tasks -> Addrs]
    /\ ret \in [Tasks -> {None, 0, EINVAL}]
    /\ stored \in [Tasks -> SUBSET Fields]
    /\ clean \in [Tasks -> BOOLEAN]
    /\ accepted \subseteq Pairs
    /\ mixing \subseteq Spaces

\* A task has no parameters, or a letter and a positive number that were passed in one
\* call, its own or that of a task it descends from; never the halves of two.
InRange == \A t \in Tasks :
    params[t] # Unset => /\ params[t] \in accepted
                         /\ params[t].group \in Letters /\ params[t].member > 0

\* A get that copied both fields to memory nobody else touched has left there the
\* parameters the task has.
ReturnsOwn == \A t \in alive :
    InUser(t) /\ stored[t] = Fields /\ clean[t] => memory[space[t]][arg[t]] = params[t]

\* User memory never holds the group of one call and the member id of another, unless
\* threads shared it or a copy has faulted: then get_task_params mixes them, and
\* says nothing.
Whole == \A s \in Spaces \ mixing : \A a \in Addrs :
    /\ \A t \in alive : ~(space[t] = s /\ arg[t] = a /\ pc[t] = "member")
    /\ memory[s][a].group # 0 /\ memory[s][a].member # 0
    => memory[s][a] \in accepted
================================================================================

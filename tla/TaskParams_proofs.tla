--------------------------- MODULE TaskParams_proofs ---------------------------
(***************************************************************************)
(* Proofs about the task parameters, for any number of tasks, any values   *)
(* passed to set_task_params and any of the addresses.                     *)
(***************************************************************************)
EXTENDS TaskParams, TLAPS

\* What is accepted is in range, and a get under way has parameters to copy.
AcceptedInv == \A p \in accepted : p.group \in Letters /\ p.member > 0
CopyInv == \A t \in Tasks :
    /\ t \notin alive => pc[t] = "user"
    /\ pc[t] # "user" => params[t] \in accepted

\* The fields a get has copied to memory of its own are those of its task.
OwnInv == \A t \in alive : clean[t] => \A f \in stored[t] :
    memory[space[t]][arg[t]][f] = params[t][f]

IInv == TypeOK /\ InRange /\ AcceptedInv /\ CopyInv /\ OwnInv
--------------------------------------------------------------------------------
LEMMA CharType == \A i \in Int : CharOf(i) \in Chars
BY DEF CharOf, Chars

LEMMA PairType == \A a \in SetArgs : Pair(a) \in Pairs
BY CharType, ArgsAssumption DEF Pair, Pairs

LEMMA AnAddr == AnyAddr \in Addrs
BY ArgsAssumption DEF AnyAddr

LEMMA UnsetType == Unset \in Pairs /\ Buffers \in [Addrs -> Pairs]
BY DEF Unset, Buffers, Pairs, Chars

LEMMA InitIInv == Init => IInv
<1> SUFFICES ASSUME Init PROVE IInv
  OBVIOUS
<1>1. TypeOK
  BY UnsetType, AnAddr, ArgsAssumption DEF Init, TypeOK, Spaces, Pages
<1>2. InRange /\ AcceptedInv /\ CopyInv /\ OwnInv
  BY ArgsAssumption DEF Init, InRange, AcceptedInv, CopyInv, OwnInv
<1> QED  BY <1>1, <1>2 DEF IInv

LEMMA AcceptStep == ASSUME IInv, NEW t \in Tasks, Accept(t) PROVE IInv'
<1> PICK a \in SetArgs : /\ InUser(t) /\ ~Wrong(a)
                         /\ params' = [params EXCEPT ![t] = Pair(a)]
                         /\ accepted' = accepted \cup {Pair(a)}
                         /\ Return(t, 0)
                         /\ stored' = [stored EXCEPT ![t] = {}]
                         /\ clean' = [clean EXCEPT ![t] = FALSE]
                         /\ UNCHANGED <<tasks, users, pc, arg, mixing>>
  BY DEF Accept
<1> USE DEF IInv, TypeOK, tasks, users
<1>1. Pair(a) \in Pairs /\ Pair(a).group \in Letters /\ Pair(a).member > 0
  BY PairType, ArgsAssumption DEF Wrong, Pair
<1>2. TypeOK'
  BY <1>1 DEF Return
<1>3. InRange'
  BY <1>1 DEF InRange
<1>4. AcceptedInv'
  BY <1>1 DEF AcceptedInv
<1>5. CopyInv'
  BY <1>1 DEF CopyInv, InUser
<1>6. OwnInv'
  BY DEF OwnInv
<1> QED  BY <1>2, <1>3, <1>4, <1>5, <1>6

\* The calls that are refused, and the start of a get, touch nothing but the caller.
LEMMA RefuseStep == ASSUME IInv, NEW t \in Tasks, Reject(t) \/ RefuseGet(t) PROVE IInv'
<1> USE DEF IInv, TypeOK, tasks, users, Reject, RefuseGet
<1>1. TypeOK'
  BY DEF Return
<1>2. InRange' /\ AcceptedInv' /\ CopyInv'
  BY DEF InRange, AcceptedInv, CopyInv
<1>3. OwnInv'
  BY DEF OwnInv
<1> QED  BY <1>1, <1>2, <1>3

LEMMA GetStep == ASSUME IInv, NEW t \in Tasks, Get(t) PROVE IInv'
<1> USE DEF IInv, TypeOK, tasks, users, Get
<1>1. TypeOK'
  OBVIOUS
<1>2. InRange' /\ AcceptedInv'
  BY DEF InRange, AcceptedInv
<1>3. params[t] \in accepted
  BY DEF IsUnset, InRange, Unset
<1>4. CopyInv'
  BY <1>3 DEF CopyInv, InUser
<1>5. OwnInv'
  BY DEF OwnInv
<1> QED  BY <1>1, <1>2, <1>4, <1>5

\* One field, in every case.
LEMMA CopyStep ==
    ASSUME IInv, NEW t \in Tasks, NEW field \in Fields, t \in alive,
           Copy(t, field), UNCHANGED <<tasks, params, mapped, arg, accepted>>
    PROVE  /\ memory' \in [Spaces -> [Addrs -> Pairs]] /\ stored' \in [Tasks -> SUBSET Fields]
           /\ clean' \in [Tasks -> BOOLEAN] /\ mixing' \subseteq Spaces
           /\ OwnInv'
<1> DEFINE s == space[t]
           a == arg[t]
<1> USE DEF IInv, TypeOK, tasks
<1>1. s \in Spaces /\ a \in Addrs /\ params[t] \in Pairs
  OBVIOUS
<1>2. CASE PageOf(a, field) \notin mapped[s]
  BY <1>1, <1>2 DEF Copy, OwnInv
<1>3. CASE PageOf(a, field) \in mapped[s]
  <2>1. /\ memory' = [memory EXCEPT ![s][a][field] = params[t][field]]
        /\ stored' = [stored EXCEPT ![t] = @ \cup {field}]
        /\ clean' = [u \in Tasks |-> clean[u] /\ (u = t \/ space[u] # s \/ arg[u] # a)]
        /\ mixing' = mixing
    BY <1>3 DEF Copy
  <2>2. memory' \in [Spaces -> [Addrs -> Pairs]]
    <3> DEFINE buffer == [memory[s][a] EXCEPT ![field] = params[t][field]]
    <3>1. memory[s][a] \in Pairs
      BY <1>1
    <3>2. buffer \in Pairs
      <4>1. CASE field = "group"
        BY <4>1, <3>1, <1>1 DEF Pairs
      <4>2. CASE field = "member"
        BY <4>2, <3>1, <1>1 DEF Pairs
      <4> QED  BY <4>1, <4>2 DEF Fields
    <3>3. memory' = [memory EXCEPT ![s] = [memory[s] EXCEPT ![a] = buffer]]
      BY <2>1, <1>1
    <3> HIDE DEF buffer
    <3> QED  BY <3>2, <3>3, <1>1
  <2>3. clean' \in [Tasks -> BOOLEAN]
    BY <2>1
  <2>4. stored' \in [Tasks -> SUBSET Fields]
    BY <2>1
  <2>5. ASSUME NEW u \in alive', clean'[u], NEW f \in stored'[u]
        PROVE  memory'[space'[u]][arg'[u]][f] = params'[u][f]
    <3>1. u \in Tasks /\ u \in alive /\ space'[u] = space[u] /\ arg'[u] = arg[u] /\ params'[u] = params[u]
      BY <2>5
    <3>2. clean[u] /\ (u = t \/ space[u] # s \/ arg[u] # a)
      BY <2>5, <2>1, <3>1
    <3>3. CASE u = t /\ f = field
      BY <3>3, <2>1, <1>1, <3>1 DEF Fields, Pairs
    <3>4. CASE u = t /\ f # field
      <4>1. f \in stored[t] /\ f \in Fields
        BY <3>4, <2>1, <2>5
      <4>2. memory'[s][a][f] = memory[s][a][f]
        BY <4>1, <3>4, <2>1, <1>1 DEF Fields, Pairs
      <4> QED  BY <3>1, <3>2, <3>4, <4>1, <4>2 DEF OwnInv
    <3>5. CASE u # t
      <4>1. f \in stored[u]
        BY <3>5, <2>1, <2>5, <3>1
      <4>2. memory'[space[u]][arg[u]] = memory[space[u]][arg[u]]
        BY <3>2, <3>5, <2>1, <1>1, <3>1
      <4> QED  BY <3>1, <3>2, <4>1, <4>2 DEF OwnInv
    <3> QED  BY <3>3, <3>4, <3>5
  <2>6. OwnInv'
    BY <2>5 DEF OwnInv
  <2> QED  BY <2>1, <2>2, <2>3, <2>4, <2>6
<1> QED  BY <1>2, <1>3

LEMMA CopyStepInv == ASSUME IInv, NEW t \in Tasks, CopyGroup(t) \/ CopyMember(t) PROVE IInv'
<1>1. t \in alive
  BY DEF IInv, CopyInv, CopyGroup, CopyMember
<1>2. PICK field \in Fields : Copy(t, field)
  BY DEF CopyGroup, CopyMember, Fields
<1>3. UNCHANGED <<tasks, params, mapped, arg, accepted>>
  BY DEF CopyGroup, CopyMember
<1>4. /\ memory' \in [Spaces -> [Addrs -> Pairs]] /\ stored' \in [Tasks -> SUBSET Fields]
      /\ clean' \in [Tasks -> BOOLEAN] /\ mixing' \subseteq Spaces
      /\ OwnInv'
  BY <1>1, <1>2, <1>3, CopyStep
<1>5. pc' \in [Tasks -> {"user", "group", "member"}] /\ ret' \in [Tasks -> {None, 0, EINVAL}]
  BY DEF IInv, TypeOK, CopyGroup, CopyMember, Return
<1>6. TypeOK'
  BY <1>3, <1>4, <1>5 DEF IInv, TypeOK, tasks
<1>7. InRange' /\ AcceptedInv'
  BY <1>3 DEF IInv, InRange, AcceptedInv
<1>8. CopyInv'
  BY <1>1, <1>3 DEF IInv, TypeOK, CopyInv, CopyGroup, CopyMember, tasks
<1> QED  BY <1>4, <1>6, <1>7, <1>8 DEF IInv

LEMMA ForkStep == ASSUME IInv, NEW t \in Tasks, Fork(t) PROVE IInv'
<1> PICK u \in Tasks :
       /\ NewTask(t, u)
       /\ \A v \in alive : space[v] # u
       /\ space' = [space EXCEPT ![u] = u]
       /\ mapped' = [mapped EXCEPT ![u] = mapped[space[t]]]
       /\ memory' = [memory EXCEPT ![u] = memory[space[t]]]
       /\ mixing' = IF space[t] \in mixing THEN mixing \cup {u} ELSE mixing \ {u}
  BY DEF Fork
<1> USE DEF IInv, TypeOK, NewTask, InUser
<1>1. TypeOK'
  BY DEF Spaces
<1>2. InRange' /\ AcceptedInv' /\ CopyInv'
  BY DEF InRange, AcceptedInv, CopyInv
<1>3. OwnInv'
  BY DEF OwnInv, Spaces
<1> QED  BY <1>1, <1>2, <1>3

LEMMA CloneStep == ASSUME IInv, NEW t \in Tasks, Clone(t) PROVE IInv'
<1> PICK u \in Tasks : /\ NewTask(t, u)
                       /\ space' = [space EXCEPT ![u] = space[t]]
                       /\ mixing' = mixing \cup {space[t]}
                       /\ UNCHANGED users
  BY DEF Clone
<1> USE DEF IInv, TypeOK, NewTask, InUser, users
<1>1. TypeOK'
  OBVIOUS
<1>2. InRange' /\ AcceptedInv' /\ CopyInv'
  BY DEF InRange, AcceptedInv, CopyInv
<1>3. OwnInv'
  BY DEF OwnInv
<1> QED  BY <1>1, <1>2, <1>3

LEMMA ExitStep == ASSUME IInv, NEW t \in Tasks, Exit(t) PROVE IInv'
<1> DEFINE mine == {space[t]} \ {space[u] : u \in alive \ {t}}
<1> USE DEF IInv, TypeOK, InUser
<1>1. /\ memory' = [s \in Spaces |-> IF s \in mine THEN Buffers ELSE memory[s]]
      /\ mapped' = [s \in Spaces |-> IF s \in mine THEN Pages ELSE mapped[s]]
      /\ mixing' = mixing \ mine
  BY DEF Exit
<1>2. memory' \in [Spaces -> [Addrs -> Pairs]] /\ mapped' \in [Spaces -> SUBSET Pages]
  BY <1>1, UnsetType
<1>3. TypeOK'
  BY <1>1, <1>2, UnsetType, AnAddr DEF Exit, Spaces
<1>4. InRange' /\ AcceptedInv' /\ CopyInv'
  BY DEF InRange, AcceptedInv, CopyInv, Exit
<1>5. ASSUME NEW u \in alive', clean'[u], NEW f \in stored'[u]
      PROVE  memory'[space'[u]][arg'[u]][f] = params'[u][f]
  <2>1. u \in alive \ {t} /\ u \in Tasks
    BY <1>5 DEF Exit
  <2>2. space[u] \notin mine /\ memory'[space[u]] = memory[space[u]]
    BY <2>1, <1>1
  <2>3. /\ space'[u] = space[u] /\ arg'[u] = arg[u] /\ params'[u] = params[u]
        /\ clean[u] /\ f \in stored[u]
    BY <2>1, <1>5 DEF Exit
  <2> QED  BY <2>1, <2>2, <2>3 DEF OwnInv
<1>6. OwnInv'
  BY <1>5 DEF OwnInv
<1> QED  BY <1>3, <1>4, <1>6

LEMMA RemapStep == ASSUME IInv, NEW t \in Tasks, Remap(t) PROVE IInv'
<1> DEFINE s == space[t]
<1> USE DEF IInv, TypeOK, tasks, calls
<1> PICK p \in Pages :
       /\ mapped' = [mapped EXCEPT ![s] = IF p \in @ THEN @ \ {p} ELSE @ \cup {p}]
       /\ memory' = [memory EXCEPT ![s] = [a \in Addrs |->
                         [group  |-> IF PageOf(a, "group") = p THEN 0 ELSE @[a].group,
                          member |-> IF PageOf(a, "member") = p THEN 0 ELSE @[a].member]]]
       /\ clean' = [u \in Tasks |-> clean[u] /\ space[u] # s]
       /\ UNCHANGED <<tasks, params, calls, accepted, mixing>>
  BY DEF Remap
<1>1. memory' \in [Spaces -> [Addrs -> Pairs]]
  <2> DEFINE row == [a \in Addrs |->
                       [group  |-> IF PageOf(a, "group") = p THEN 0 ELSE memory[s][a].group,
                        member |-> IF PageOf(a, "member") = p THEN 0 ELSE memory[s][a].member]]
  <2>1. row \in [Addrs -> Pairs]
    <3>1. \A a \in Addrs : memory[s][a] \in Pairs
      BY DEF Spaces
    <3>2. \A a \in Addrs : memory[s][a].group \in Chars /\ memory[s][a].member \in Int
      BY <3>1 DEF Pairs
    <3>3. 0 \in Chars
      BY DEF Chars
    <3> QED  BY <3>2, <3>3 DEF Pairs
  <2>2. memory' = [memory EXCEPT ![s] = row]
    OBVIOUS
  <2> HIDE DEF row
  <2> QED  BY <2>1, <2>2
<1>2. mapped' \in [Spaces -> SUBSET Pages]
  OBVIOUS
<1>3. clean' \in [Tasks -> BOOLEAN]
  OBVIOUS
<1>4. TypeOK'
  BY <1>1, <1>2, <1>3
<1>5. InRange' /\ AcceptedInv' /\ CopyInv'
  BY DEF InRange, AcceptedInv, CopyInv
<1>6. ASSUME NEW u \in alive', clean'[u], NEW f \in stored'[u]
      PROVE  memory'[space'[u]][arg'[u]][f] = params'[u][f]
  <2>1. u \in alive /\ u \in Tasks /\ clean[u] /\ space[u] # s
    BY <1>6
  <2>2. memory'[space[u]] = memory[space[u]]
    BY <2>1
  <2> QED  BY <2>1, <2>2, <1>6 DEF OwnInv
<1>7. OwnInv'
  BY <1>6 DEF OwnInv
<1> QED  BY <1>4, <1>5, <1>7
--------------------------------------------------------------------------------
\* The invariant holds in every reachable state.
THEOREM Invariance == Spec => []IInv
<1>1. IInv /\ [Next]_vars => IInv'
  <2> SUFFICES ASSUME IInv, [Next]_vars PROVE IInv'
    OBVIOUS
  <2>1. CASE UNCHANGED vars
    BY <2>1 DEF IInv, TypeOK, InRange, AcceptedInv, CopyInv, OwnInv, vars, tasks, users, calls
  <2>2. ASSUME NEW t \in Tasks, Call(t) \/ Fork(t) \/ Clone(t) \/ Exit(t) \/ Remap(t) PROVE IInv'
    BY <2>2, AcceptStep, RefuseStep, GetStep, CopyStepInv, ForkStep, CloneStep, ExitStep, RemapStep DEF Call
  <2> QED  BY <2>1, <2>2 DEF Next
<1> QED  BY InitIInv, <1>1, PTL DEF Spec

\* Every variable keeps its range; the cut of group_name is a char (set_task_params.c:9).
THEOREM Typing == Spec => []TypeOK
BY Invariance, PTL DEF IInv

\* No task ever has parameters that were not accepted together (set_task_params.c:13-20).
THEOREM ParamsInRange == Spec => []InRange
BY Invariance, PTL DEF IInv

\* What a get leaves in memory of its own is what the task has (get_task_params.c:17-23).
THEOREM GetIsExact == Spec => []ReturnsOwn
<1>1. IInv => ReturnsOwn
  <2> SUFFICES ASSUME IInv, NEW t \in alive, InUser(t), stored[t] = Fields, clean[t]
               PROVE  memory[space[t]][arg[t]] = params[t]
    BY DEF ReturnsOwn
  <2>1. memory[space[t]][arg[t]] \in Pairs /\ params[t] \in Pairs
    BY DEF IInv, TypeOK
  <2>2. \A f \in Fields : memory[space[t]][arg[t]][f] = params[t][f]
    BY DEF IInv, OwnInv
  <2> QED  BY <2>1, <2>2 DEF Fields, Pairs
<1> QED  BY Invariance, <1>1, PTL
--------------------------------------------------------------------------------
(***************************************************************************)
(* When memory is whole: an address space that is nobody else's has one    *)
(* task, and half-way through a get its buffer holds that task's group.    *)
(***************************************************************************)
AloneInv == \A s \in Spaces \ mixing : \A t, u \in alive :
    space[t] = s /\ space[u] = s => t = u
HalfInv == \A t \in alive : pc[t] = "member" /\ space[t] \notin mixing =>
    memory[space[t]][arg[t]].group \in {0, params[t].group}

WInv == IInv /\ AloneInv /\ HalfInv /\ Whole

LEMMA CopyWhole == ASSUME WInv, NEW t \in Tasks, CopyGroup(t) \/ CopyMember(t)
                   PROVE  AloneInv' /\ HalfInv' /\ Whole'
<1> DEFINE s == space[t]
           a == arg[t]
<1> USE DEF WInv, tasks
<1>1. t \in alive /\ s \in Spaces /\ a \in Addrs /\ params[t] \in Pairs /\ params[t] \in accepted
  BY DEF IInv, TypeOK, CopyInv, CopyGroup, CopyMember
<1>2. /\ alive' = alive /\ space' = space /\ params' = params /\ arg' = arg /\ accepted' = accepted
      /\ mixing \subseteq mixing' /\ mixing' \subseteq mixing \cup {s}
  BY DEF CopyGroup, CopyMember, Copy
<1>3. AloneInv'
  BY <1>2 DEF AloneInv
<1>4. \A r \in Spaces : r # s => memory'[r] = memory[r]
  BY <1>1 DEF CopyGroup, CopyMember, Copy, IInv, TypeOK
<1>5. \A u \in Tasks : u # t => pc'[u] = pc[u]
  BY DEF CopyGroup, CopyMember, IInv, TypeOK
<1> DEFINE Late(r, b) ==
      /\ \A u \in alive' : ~(space'[u] = r /\ arg'[u] = b /\ pc'[u] = "member")
      /\ memory'[r][b].group # 0 /\ memory'[r][b].member # 0
<1>6. ASSUME NEW r \in Spaces, r \notin mixing', NEW b \in Addrs, r # s \/ (b # a /\ s \notin mixing'),
             memory'[r][b] = memory[r][b], Late(r, b)
      PROVE  memory'[r][b] \in accepted'
  <2>1. r \notin mixing
    BY <1>2, <1>6
  <2>2. ASSUME NEW u \in alive, space[u] = r, arg[u] = b, pc[u] = "member" PROVE FALSE
    BY <1>2, <1>5, <1>6, <2>2 DEF IInv, TypeOK
  <2> QED  BY <1>2, <1>6, <2>1, <2>2 DEF Whole
<1>7. CASE s \in mixing'
  <2>1. HalfInv'
    BY <1>1, <1>2, <1>4, <1>5, <1>7 DEF HalfInv, IInv, TypeOK
  <2>2. Whole'
    <3> SUFFICES ASSUME NEW r \in Spaces, r \notin mixing', NEW b \in Addrs, Late(r, b)
                 PROVE  memory'[r][b] \in accepted'
      BY DEF Whole
    <3> QED  BY <1>4, <1>7, <1>6
  <2> QED  BY <1>3, <2>1, <2>2
<1>8. CASE s \notin mixing'
  <2>1. s \notin mixing /\ \A u \in alive : u # t => space[u] # s
    BY <1>1, <1>2, <1>8 DEF AloneInv
  <2>2. CASE CopyGroup(t)
    <3>1. pc'[t] = "member" /\ memory' = [memory EXCEPT ![s][a]["group"] = params[t]["group"]]
      BY <2>2, <1>8, <1>1 DEF CopyGroup, Copy, IInv, TypeOK
    <3>2. memory'[s][a].group = params[t].group
      BY <3>1, <1>1 DEF IInv, TypeOK, Pairs
    <3>3. \A b \in Addrs : b # a => memory'[s][b] = memory[s][b]
      BY <3>1, <1>1 DEF IInv, TypeOK
    <3>4. HalfInv'
      <4> SUFFICES ASSUME NEW u \in alive, pc'[u] = "member", space[u] \notin mixing'
                   PROVE  memory'[space[u]][arg[u]].group \in {0, params[u].group}
        BY <1>2 DEF HalfInv
      <4>1. CASE u = t
        BY <4>1, <3>2
      <4>2. CASE u # t
        <5>1. u \in Tasks /\ pc[u] = "member" /\ space[u] # s
          BY <4>2, <2>1, <1>5 DEF IInv, TypeOK
        <5>2. memory'[space[u]] = memory[space[u]] /\ space[u] \notin mixing
          BY <5>1, <1>2, <1>4 DEF IInv, TypeOK
        <5> QED  BY <5>1, <5>2 DEF HalfInv
      <4> QED  BY <4>1, <4>2
    <3>5. Whole'
      <4> SUFFICES ASSUME NEW r \in Spaces, r \notin mixing', NEW b \in Addrs, Late(r, b)
                   PROVE  memory'[r][b] \in accepted'
        BY DEF Whole
      <4>1. r # s \/ b # a
        BY <3>1, <1>1, <1>2
      <4> QED  BY <4>1, <3>3, <1>4, <1>8, <1>6
    <3> QED  BY <1>3, <3>4, <3>5
  <2>3. CASE CopyMember(t)
    <3>1. /\ pc[t] = "member" /\ pc'[t] = "user"
          /\ memory' = [memory EXCEPT ![s][a]["member"] = params[t]["member"]]
      BY <2>3, <1>8, <1>1 DEF CopyMember, Copy, IInv, TypeOK
    <3>2. memory[s][a] \in Pairs /\ memory[s][a].group \in {0, params[t].group}
      BY <3>1, <2>1, <1>1 DEF HalfInv, IInv, TypeOK
    <3>3. memory'[s][a] \in Pairs /\ memory'[s][a].member = params[t].member
                                 /\ memory'[s][a].group = memory[s][a].group
      BY <3>1, <3>2, <1>1 DEF IInv, TypeOK, Pairs
    <3>4. memory'[s][a].group = 0 \/ memory'[s][a] \in accepted
      BY <3>2, <3>3, <1>1 DEF Pairs
    <3>5. \A b \in Addrs : b # a => memory'[s][b] = memory[s][b]
      BY <3>1, <1>1 DEF IInv, TypeOK
    <3>6. HalfInv'
      <4> SUFFICES ASSUME NEW u \in alive, pc'[u] = "member", space[u] \notin mixing'
                   PROVE  memory'[space[u]][arg[u]].group \in {0, params[u].group}
        BY <1>2 DEF HalfInv
      <4>1. u \in Tasks /\ u # t /\ pc[u] = "member" /\ space[u] # s
        BY <3>1, <2>1, <1>5 DEF IInv, TypeOK
      <4>2. memory'[space[u]] = memory[space[u]] /\ space[u] \notin mixing
        BY <4>1, <1>2, <1>4 DEF IInv, TypeOK
      <4> QED  BY <4>1, <4>2 DEF HalfInv
    <3>7. Whole'
      <4> SUFFICES ASSUME NEW r \in Spaces, r \notin mixing', NEW b \in Addrs, Late(r, b)
                   PROVE  memory'[r][b] \in accepted'
        BY DEF Whole
      <4>1. CASE r = s /\ b = a
        BY <4>1, <3>4, <1>2
      <4>2. CASE r # s \/ b # a
        BY <4>2, <3>5, <1>4, <1>8, <1>6
      <4> QED  BY <4>1, <4>2
    <3> QED  BY <1>3, <3>6, <3>7
  <2> QED  BY <2>2, <2>3
<1> QED  BY <1>7, <1>8

\* The other calls leave memory and address spaces alone.
LEMMA CallWhole == ASSUME WInv, NEW t \in Tasks, Reject(t) \/ RefuseGet(t) \/ Get(t) \/ Accept(t)
                   PROVE  AloneInv' /\ HalfInv' /\ Whole'
<1> USE DEF WInv, tasks, users
<1>1. /\ alive' = alive /\ space' = space /\ mixing' = mixing /\ memory' = memory
      /\ accepted \subseteq accepted' /\ InUser(t)
  BY DEF Reject, RefuseGet, Get, Accept
<1>2. AloneInv'
  BY <1>1 DEF AloneInv
<1>3. \A u \in Tasks : pc'[u] = "member" =>
         u # t /\ pc[u] = "member" /\ arg'[u] = arg[u] /\ params'[u] = params[u]
  BY <1>1 DEF Reject, RefuseGet, Get, Accept, InUser, IInv, TypeOK
<1>4. HalfInv'
  BY <1>1, <1>3 DEF HalfInv, IInv, TypeOK
<1>5. \A u \in Tasks : pc[u] = "member" => pc'[u] = "member" /\ arg'[u] = arg[u]
  BY <1>1 DEF Reject, RefuseGet, Get, Accept, InUser, IInv, TypeOK
<1>6. Whole'
  BY <1>1, <1>5 DEF Whole, IInv, TypeOK
<1> QED  BY <1>2, <1>4, <1>6

LEMMA NewTaskWhole == ASSUME WInv, NEW t \in Tasks, Fork(t) \/ Clone(t)
                      PROVE  AloneInv' /\ HalfInv' /\ Whole'
<1> USE DEF WInv, IInv, TypeOK, Spaces
<1>1. CASE Fork(t)
  <2> PICK u \in Tasks :
         /\ NewTask(t, u)
         /\ \A v \in alive : space[v] # u
         /\ space' = [space EXCEPT ![u] = u]
         /\ mapped' = [mapped EXCEPT ![u] = mapped[space[t]]]
         /\ memory' = [memory EXCEPT ![u] = memory[space[t]]]
         /\ mixing' = IF space[t] \in mixing THEN mixing \cup {u} ELSE mixing \ {u}
    BY <1>1 DEF Fork
  <2>1. /\ u \notin alive /\ alive' = alive \cup {u} /\ pc' = pc /\ pc[u] = "user" /\ pc[t] = "user"
        /\ arg' = arg /\ accepted' = accepted /\ t \in alive
        /\ \A v \in alive : space'[v] = space[v] /\ params'[v] = params[v]
    BY DEF NewTask, InUser, CopyInv
  <2>2. AloneInv'
    BY <2>1 DEF AloneInv
  <2>3. HalfInv'
    BY <2>1 DEF HalfInv
  <2>4. ASSUME NEW r \in Spaces, r \notin mixing', NEW a \in Addrs,
               \A v \in alive' : ~(space'[v] = r /\ arg'[v] = a /\ pc'[v] = "member"),
               memory'[r][a].group # 0, memory'[r][a].member # 0
        PROVE  memory'[r][a] \in accepted'
    <3>1. CASE r = u
      <4>1. space[t] \notin mixing /\ memory'[r][a] = memory[space[t]][a]
        BY <2>4, <3>1
      <4>2. \A v \in alive : space[v] = space[t] => v = t
        BY <4>1, <2>1 DEF AloneInv
      <4> QED  BY <4>1, <4>2, <2>1, <2>4 DEF Whole
    <3>2. CASE r # u
      BY <3>2, <2>1, <2>4 DEF Whole
    <3> QED  BY <3>1, <3>2
  <2>5. Whole'
    BY <2>4 DEF Whole
  <2> QED  BY <2>2, <2>3, <2>5
<1>2. CASE Clone(t)
  <2> PICK u \in Tasks : /\ NewTask(t, u)
                         /\ space' = [space EXCEPT ![u] = space[t]]
                         /\ mixing' = mixing \cup {space[t]}
                         /\ UNCHANGED users
    BY <1>2 DEF Clone
  <2>1. /\ u \notin alive /\ alive' = alive \cup {u} /\ pc' = pc /\ pc[u] = "user"
        /\ arg' = arg /\ accepted' = accepted /\ memory' = memory
        /\ \A v \in alive : space'[v] = space[v] /\ params'[v] = params[v]
    BY DEF NewTask, InUser, CopyInv, users
  <2>2. AloneInv'
    BY <2>1 DEF AloneInv
  <2>3. HalfInv'
    BY <2>1 DEF HalfInv
  <2>4. Whole'
    BY <2>1 DEF Whole
  <2> QED  BY <2>2, <2>3, <2>4
<1> QED  BY <1>1, <1>2

LEMMA ExitWhole == ASSUME WInv, NEW t \in Tasks, Exit(t) PROVE AloneInv' /\ HalfInv' /\ Whole'
<1> DEFINE mine == {space[t]} \ {space[u] : u \in alive \ {t}}
<1> USE DEF WInv, IInv, TypeOK
<1>1. /\ memory' = [s \in Spaces |-> IF s \in mine THEN Buffers ELSE memory[s]]
      /\ mixing' = mixing \ mine /\ alive' = alive \ {t} /\ pc' = pc /\ accepted' = accepted
      /\ t \in alive /\ pc[t] = "user"
      /\ \A u \in alive : u # t => space'[u] = space[u] /\ arg'[u] = arg[u] /\ params'[u] = params[u]
  BY DEF Exit, InUser
<1>2. \A u \in alive' : space[u] \notin mine
  BY <1>1
<1>3. AloneInv'
  BY <1>1, <1>2 DEF AloneInv
<1>4. HalfInv'
  BY <1>1, <1>2 DEF HalfInv
<1>5. Whole'
  <2> SUFFICES ASSUME NEW s \in Spaces, s \notin mixing', NEW a \in Addrs,
                      \A u \in alive' : ~(space'[u] = s /\ arg'[u] = a /\ pc'[u] = "member"),
                      memory'[s][a].group # 0, memory'[s][a].member # 0
               PROVE  memory'[s][a] \in accepted'
    BY DEF Whole
  <2>1. CASE s \in mine
    <3>1. memory'[s][a].group = 0
      BY <2>1, <1>1 DEF Buffers, Unset
    <3> QED  BY <3>1
  <2>2. CASE s \notin mine
    <3>1. s \notin mixing /\ memory'[s][a] = memory[s][a]
      BY <2>2, <1>1
    <3>2. \A u \in alive : ~(space[u] = s /\ arg[u] = a /\ pc[u] = "member")
      BY <1>1
    <3> QED  BY <3>1, <3>2, <1>1 DEF Whole
  <2> QED  BY <2>1, <2>2
<1> QED  BY <1>3, <1>4, <1>5

LEMMA RemapWhole == ASSUME WInv, NEW t \in Tasks, Remap(t) PROVE AloneInv' /\ HalfInv' /\ Whole'
<1> USE DEF WInv, IInv, TypeOK
<1>1. /\ alive' = alive /\ space' = space /\ params' = params /\ pc' = pc /\ arg' = arg
      /\ accepted' = accepted /\ mixing' = mixing
  BY DEF Remap, tasks, calls
<1>2. ASSUME NEW s \in Spaces, NEW a \in Addrs
      PROVE  \/ memory'[s][a] = memory[s][a]
             \/ memory'[s][a].group = 0 /\ memory'[s][a].member \in {0, memory[s][a].member}
             \/ memory'[s][a].group = memory[s][a].group /\ memory'[s][a].member = 0
  <2>1. memory[s][a] \in Pairs
    OBVIOUS
  <2>2. PICK p \in Pages : memory' = [memory EXCEPT ![space[t]] = [b \in Addrs |->
                         [group  |-> IF PageOf(b, "group") = p THEN 0 ELSE @[b].group,
                          member |-> IF PageOf(b, "member") = p THEN 0 ELSE @[b].member]]]
    BY DEF Remap
  <2>3. CASE s # space[t]
    BY <2>2, <2>3
  <2>4. CASE s = space[t]
    <3>1. memory'[s][a] = [group  |-> IF PageOf(a, "group") = p THEN 0 ELSE memory[s][a].group,
                           member |-> IF PageOf(a, "member") = p THEN 0 ELSE memory[s][a].member]
      BY <2>2, <2>4
    <3> QED  BY <3>1, <2>1 DEF Pairs
  <2> QED  BY <2>3, <2>4
<1>3. AloneInv'
  BY <1>1 DEF AloneInv
<1>4. HalfInv'
  BY <1>1, <1>2 DEF HalfInv
<1>5. Whole'
  BY <1>1, <1>2 DEF Whole
<1> QED  BY <1>3, <1>4, <1>5

\* The two copies of get_task_params are torn only by threads or faults
\* (get_task_params.c:22-23).
THEOREM WholeUnlessShared == Spec => []Whole
<1>1. Init => WInv
  <2> SUFFICES ASSUME Init PROVE WInv
    OBVIOUS
  <2>1. AloneInv /\ HalfInv
    BY ArgsAssumption DEF Init, AloneInv, HalfInv
  <2>2. Whole
    BY DEF Init, Whole, Buffers, Unset
  <2> QED  BY <2>1, <2>2, InitIInv DEF WInv
<1>2. WInv /\ [Next]_vars /\ IInv' => WInv'
  <2> SUFFICES ASSUME WInv, [Next]_vars, IInv' PROVE AloneInv' /\ HalfInv' /\ Whole'
    BY DEF WInv
  <2>1. CASE UNCHANGED vars
    BY <2>1 DEF WInv, AloneInv, HalfInv, Whole, vars, tasks, users, calls
  <2>2. ASSUME NEW t \in Tasks, Call(t) \/ Fork(t) \/ Clone(t) \/ Exit(t) \/ Remap(t)
        PROVE  AloneInv' /\ HalfInv' /\ Whole'
    BY <2>2, CopyWhole, CallWhole, NewTaskWhole, ExitWhole, RemapWhole DEF Call
  <2> QED  BY <2>1, <2>2 DEF Next
<1>3. WInv => Whole
  BY DEF WInv
<1> QED  BY <1>1, <1>2, <1>3, Invariance, PTL DEF Spec
================================================================================

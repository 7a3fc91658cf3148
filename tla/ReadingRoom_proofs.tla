-------------------------- MODULE ReadingRoom_proofs --------------------------
(***************************************************************************)
(* Proofs about the study room, for any number of students and of seats.   *)
(* IInv is inductive; the safety properties of ReadingRoom that need no    *)
(* assumption about time follow from it.                                   *)
(***************************************************************************)
EXTENDS ReadingRoom, FiniteSetTheorems, TLAPS

\* A student that has not taken its turn / has not handed it on.
Unasked == {"unborn", "turn"}
Holding == Arriving \cup {"admit", "advance", "post", "pass"}

\* main has only started the threads below mainI, and joined those below it.
MainInv == /\ mainPc = "create" => \A s \in Students : s >= mainI => pc[s] = "unborn"
           /\ mainPc = "join" => \A s \in Students : s < mainI => pc[s] = "done"
           /\ mainPc \in {"free", "done"} => \A s \in Students : pc[s] = "done"

MutexInv == \A s \in Students : mutex = s <=> pc[s] \in Seating \cup Entering

\* The turn: as long as a student has not handed it on, its semaphore is down
\* and the student behind it has not passed.
TurnInv ==
    \A s \in Students : pc[s] \in Holding =>
        /\ sem[s] = 0
        /\ s + 1 \in Students => pc[s + 1] \in Unasked

\* Only students behind the first MaxConcurrent are ever refused; the second
\* post of a refused student therefore hits no slot in use.
RefusedInv == \A s \in Students : /\ s \in refused => s >= MaxConcurrent
                                  /\ pc[s] \in Waiting \cup Entering => s \in refused

IInv == /\ TypeOK /\ MainInv /\ MutexInv /\ TurnInv /\ TurnOrder
        /\ RefusedInv /\ SeatAccounting /\ LineAccounting /\ AdmissionSafe
--------------------------------------------------------------------------------
Where(f, L) == {t \in Students : f[t] \in L}
Gain(to, L) == IF to \in L THEN 1 ELSE 0

\* How the number of threads at a set L of locations changes when one moves.
LEMMA CountMove ==
    ASSUME NEW L, NEW f \in [Students -> Location], NEW s \in Students, NEW to \in Location,
           NEW g, g = [f EXCEPT ![s] = to]
    PROVE  /\ Cardinality(Where(f, L)) \in Nat
           /\ f[s] \in L => Cardinality(Where(f, L)) > 0
           /\ Cardinality(Where(g, L)) = Cardinality(Where(f, L)) + Gain(to, L) - Gain(f[s], L)
<1> DEFINE before == Where(f, L)
           after  == Where(g, L)
<1>1. IsFiniteSet(Students)
  BY FS_Interval, SizeAssumption DEF Students
<1>2. IsFiniteSet(before) /\ IsFiniteSet(after)
  BY <1>1, FS_Subset DEF Where
<1>3. Cardinality(before) \in Nat /\ Cardinality(after) \in Nat
  BY <1>2, FS_CardinalityType
<1>4. \A t \in Students : g[t] = IF t = s THEN to ELSE f[t]
  OBVIOUS
<1>5. f[s] \in L => Cardinality(before) > 0
  BY <1>2, <1>3, FS_EmptySet DEF Where
<1>6. CASE f[s] \in L /\ to \in L
  <2>1. after = before
    BY <1>4, <1>6 DEF Where
  <2> QED  BY <1>3, <1>5, <1>6, <2>1 DEF Gain
<1>7. CASE f[s] \in L /\ to \notin L
  <2>1. after = before \ {s} /\ s \in before
    BY <1>4, <1>7 DEF Where
  <2>2. Cardinality(after) = Cardinality(before) - 1
    BY <1>2, <2>1, FS_RemoveElement
  <2> QED  BY <1>3, <1>5, <1>7, <2>2 DEF Gain
<1>8. CASE f[s] \notin L /\ to \in L
  <2>1. after = before \cup {s} /\ s \notin before
    BY <1>4, <1>8 DEF Where
  <2>2. Cardinality(after) = Cardinality(before) + 1
    BY <1>2, <2>1, FS_AddElement
  <2> QED  BY <1>3, <1>8, <2>2 DEF Gain
<1>9. CASE f[s] \notin L /\ to \notin L
  <2>1. after = before
    BY <1>4, <1>9 DEF Where
  <2> QED  BY <1>3, <1>9, <2>1 DEF Gain
<1> QED  BY <1>6, <1>7, <1>8, <1>9

\* The same for the threads of the room: what a step s takes from one
\* location to another does to the two counts.
LEMMA CountStep ==
    ASSUME TypeOK, NEW s \in Students, NEW to \in Location, pc' = [pc EXCEPT ![s] = to],
           NEW L
    PROVE  /\ Cardinality(At(L)) \in Nat
           /\ pc[s] \in L => Cardinality(At(L)) > 0
           /\ Cardinality(At(L)') = Cardinality(At(L)) + Gain(to, L) - Gain(pc[s], L)
<1>1. At(L) = Where(pc, L) /\ At(L)' = Where(pc', L)
  BY DEF At, Where
<1>2. pc \in [Students -> Location]
  BY DEF TypeOK
<1>3. /\ Cardinality(Where(pc, L)) \in Nat
      /\ pc[s] \in L => Cardinality(Where(pc, L)) > 0
      /\ Cardinality(Where(pc', L)) = Cardinality(Where(pc, L)) + Gain(to, L) - Gain(pc[s], L)
  BY ONLY <1>2, CountMove, s \in Students, to \in Location, pc' = [pc EXCEPT ![s] = to]
<1> QED  BY ONLY <1>1, <1>3

\* No more students sit than have registered.
LEMMA SeatedAreRegistered ==
    ASSUME TypeOK, TurnOrder
    PROVE  Cardinality(At(OnSeat)) <= currStudents
<1> USE DEF TypeOK
<1>1. ASSUME NEW s \in At(OnSeat) PROVE s \in 0 .. currStudents - 1
  <2>1. s \in Students /\ Registered(s)
    BY <1>1 DEF At, OnSeat, Registered, Arriving
  <2> QED  BY <2>1, SizeAssumption DEF TurnOrder, Students
<1>2. IsFiniteSet(0 .. currStudents - 1) /\ Cardinality(0 .. currStudents - 1) = currStudents
  <2>1. currStudents \in Nat /\ 0 \in Int /\ currStudents - 1 \in Int
    BY SizeAssumption
  <2>2. /\ IsFiniteSet(0 .. currStudents - 1)
        /\ Cardinality(0 .. currStudents - 1)
              = IF 0 > currStudents - 1 THEN 0 ELSE (currStudents - 1) - 0 + 1
    BY ONLY <2>1, FS_Interval
  <2> QED  BY ONLY <2>1, <2>2
<1> QED  BY <1>1, <1>2, FS_Subset

\* LayoutAssumption is no more than the allocator gives: glibc on x86-64 puts
\* sem_enter ten pointers after an array of eight, and a sem_t is four pointers
\* long, its value first (threads.c:223-226; main admits 20..40 students, 146).
LEMMA LayoutOfTheBuild ==
    ASSUME MaxConcurrent = 8, TotalStudents \in 20 .. 40, SemSlot = [j \in Students |-> 10 + 4 * j]
    PROVE  LayoutAssumption
BY DEF LayoutAssumption, Students

LEMMA InitIInv == Init => IInv
<1> SUFFICES ASSUME Init PROVE IInv
  OBVIOUS
<1>1. TypeOK
  BY SizeAssumption DEF Init, TypeOK, Location, Arriving, Nobody, Students
<1>2. MainInv /\ MutexInv /\ TurnInv /\ TurnOrder /\ RefusedInv /\ AdmissionSafe
  BY SizeAssumption DEF Init, MainInv, MutexInv, TurnInv, TurnOrder, RefusedInv, AdmissionSafe, Unasked,
     Registered, Arriving, Seating, Entering, Waiting, Polling, Nobody, Students
<1>3. At(OnSeat) = {} /\ At(Counted) = {}
  BY DEF Init, At, OnSeat, Counted, Leaving
<1>4. SeatAccounting /\ LineAccounting
  BY <1>3, FS_EmptySet DEF Init, SeatAccounting, LineAccounting
<1> QED  BY <1>1, <1>2, <1>4 DEF IInv

\* A move that changes each count by what it gains and loses keeps the books.
LEMMA AccountsMove ==
    ASSUME TypeOK, SeatAccounting, LineAccounting,
           NEW s \in Students, NEW from, NEW to \in Location, Goto(s, from, to),
           threadCounter' = threadCounter + Gain(to, OnSeat) - Gain(from, OnSeat),
           waitingLine' = waitingLine + Gain(to, Counted) - Gain(from, Counted)
    PROVE  /\ SeatAccounting' /\ LineAccounting'
           /\ threadCounter' \in Nat /\ waitingLine' \in Nat
<1>1. pc[s] = from /\ pc' = [pc EXCEPT ![s] = to]
  BY DEF Goto
<1>2. /\ Cardinality(At(OnSeat)) \in Nat
      /\ pc[s] \in OnSeat => Cardinality(At(OnSeat)) > 0
      /\ Cardinality(At(OnSeat)') = Cardinality(At(OnSeat)) + Gain(to, OnSeat) - Gain(from, OnSeat)
  BY <1>1, CountStep
<1>3. /\ Cardinality(At(Counted)) \in Nat
      /\ pc[s] \in Counted => Cardinality(At(Counted)) > 0
      /\ Cardinality(At(Counted)') = Cardinality(At(Counted)) + Gain(to, Counted) - Gain(from, Counted)
  BY <1>1, CountStep
<1>4. SeatAccounting' /\ LineAccounting'
  BY <1>2, <1>3 DEF SeatAccounting, LineAccounting
<1>5. threadCounter' \in Nat /\ waitingLine' \in Nat
  BY <1>1, <1>2, <1>3 DEF SeatAccounting, LineAccounting, Gain
<1> QED  BY <1>4, <1>5

\* The students not yet behind s + 1 when s has still to hand the turn on.
LEMMA TurnHeld ==
    ASSUME TypeOK, TurnInv, TurnOrder, NEW s \in Students, pc[s] \in Holding
    PROVE  currStudents <= s + 1
<1>1. CASE s + 1 \in Students
  <2>1. pc[s + 1] \in Unasked
    BY <1>1 DEF TurnInv
  <2>2. ~Registered(s + 1)
    BY <2>1 DEF Unasked, Registered, Arriving
  <2> QED  BY <1>1, <2>2 DEF TurnOrder, TypeOK, Students
<1>2. CASE s + 1 \notin Students
  BY <1>2, SizeAssumption DEF TypeOK, Students
<1> QED  BY <1>1, <1>2

\* The student that registers is the next in order.
LEMMA RegistersNext ==
    ASSUME TypeOK, TurnInv, TurnOrder, NEW s \in Students, pc[s] = "register"
    PROVE  s = currStudents
<1>1. s > 0 => s - 1 \in Students /\ (s - 1) + 1 = s
  BY SizeAssumption DEF Students
<1>2. s > 0 => Registered(s - 1)
  <2>1. pc[s] \notin Unasked
    BY DEF Unasked
  <2>2. s > 0 => pc[s - 1] \notin Holding
    BY <1>1, <2>1 DEF TurnInv, Unasked, Holding, Arriving
  <2> QED  BY <2>2 DEF Holding, Registered
<1>3. ~Registered(s)
  BY DEF Registered, Arriving
<1> QED  BY <1>1, <1>2, <1>3, SizeAssumption DEF TurnOrder, TypeOK, Students

\* A store through a semaphore that lies behind the slots in use harms none.
LEMMA HarmlessStore ==
    ASSUME TypeOK, TurnOrder, NEW j \in Students, NEW v, SemStore(j, v),
           SemSlot[j] >= currStudents, currStudents' = currStudents
    PROVE  \A k \in Students : k < currStudents' => students'[k] = k
BY LayoutAssumption DEF TypeOK, TurnOrder, SemStore, Students

--------------------------------------------------------------------------------
(***************************************************************************)
(* Every step of a thread preserves IInv: one step per action.             *)
(***************************************************************************)
LEMMA ThreadStep ==
    ASSUME IInv, NEW s \in Students, Thread(s)
    PROVE  IInv'
<1> USE DEF IInv
<1>1. CASE TakeTurn(s)
  <2>1. SeatAccounting' /\ LineAccounting' /\ threadCounter' \in Nat /\ waitingLine' \in Nat
    <3>1. Goto(s, "turn", "register")
      BY <1>1 DEF TakeTurn
    <3>2. "register" \in Location
      BY DEF Location, Arriving, Seating, Waiting, Polling, Entering, Leaving
    <3>3. threadCounter' = threadCounter + Gain("register", OnSeat) - Gain("turn", OnSeat)
      BY <1>1 DEF TakeTurn, TypeOK, Gain, OnSeat
    <3>4. waitingLine' = waitingLine + Gain("register", Counted) - Gain("turn", Counted)
      BY <1>1 DEF TakeTurn, TypeOK, Gain, Counted, Leaving
    <3> QED  BY <3>1, <3>2, <3>3, <3>4, AccountsMove
  <2>2. TypeOK'
    BY <1>1, <2>1 DEF TakeTurn, TypeOK, Goto, SemStore, SemWait, Location, Arriving, Seating, Waiting, Polling, Entering, Leaving, Nobody, Wild
  <2>3. MainInv'
    BY <1>1 DEF TakeTurn, MainInv, TypeOK, Goto
  <2>4. MutexInv'
    BY <1>1 DEF TakeTurn, MutexInv, TypeOK, Goto, Seating, Entering, Nobody, Students
  <2>5. TurnInv'
    <3>1. /\ \A t \in Students : t # s => (pc'[t] \in Unasked <=> pc[t] \in Unasked)
          /\ \A t \in Students : pc'[t] \in Holding <=> pc[t] \in Holding
      BY <1>1 DEF TakeTurn, Goto, TypeOK, Unasked, Holding, Arriving
    <3>2. CASE s = 0
      <4>1. sem' = sem /\ \A t \in Students : t + 1 # s
        BY <1>1, <3>2, SizeAssumption DEF TakeTurn, Students
      <4> QED  BY <3>1, <4>1 DEF TurnInv, Unasked, Holding, Arriving
    <3>3. CASE s # 0
      <4>1. s - 1 \in Students /\ \A t \in Students : t + 1 = s => t = s - 1
        BY <3>3, SizeAssumption DEF Students
      <4>2. sem[s - 1] > 0 /\ sem' = [sem EXCEPT ![s - 1] = sem[s - 1] - 1]
        BY <1>1, <3>3 DEF TakeTurn, SemWait, SemStore
      <4>3. pc[s - 1] \notin Holding
        BY <4>1, <4>2 DEF TurnInv
      <4>4. \A t \in Students : t # s - 1 => sem'[t] = sem[t]
        BY <4>2 DEF TypeOK
      <4> QED  BY <3>1, <4>1, <4>3, <4>4 DEF TurnInv, Unasked, Holding, Arriving
    <3> QED  BY <3>2, <3>3
  <2>6. TurnOrder'
    <3>1. \A t \in Students : Registered(t)' <=> Registered(t)
      BY <1>1 DEF TakeTurn, Goto, TypeOK, Registered, Arriving
    <3>2. CASE s = 0
      BY <1>1, <3>1, <3>2 DEF TakeTurn, TurnOrder
    <3>3. CASE s # 0
      <4>1. s - 1 \in Students /\ SemStore(s - 1, sem[s - 1] - 1)
        BY <1>1, <3>3, SizeAssumption DEF TakeTurn, SemWait, Students
      <4>2. currStudents <= s
        BY <1>1, SizeAssumption DEF TakeTurn, Goto, TurnOrder, Registered, Arriving, TypeOK, Students
      <4>3. SemSlot[s - 1] >= currStudents
        BY <4>1, <4>2, LayoutAssumption, SizeAssumption DEF TypeOK, Students
      <4>4. \A k \in Students : k < currStudents' => students'[k] = k
        BY <1>1, <4>1, <4>3, HarmlessStore DEF TakeTurn
      <4> QED  BY <1>1, <3>1, <4>4 DEF TakeTurn, TurnOrder
    <3> QED  BY <3>2, <3>3
  <2>7. RefusedInv'
    BY <1>1 DEF TakeTurn, RefusedInv, TypeOK, Goto, Waiting, Polling, Entering
  <2>8. AdmissionSafe'
    BY <1>1 DEF TakeTurn, AdmissionSafe, MutexInv, Seating, Entering, TypeOK, Goto
  <2> QED  BY <2>1, <2>2, <2>3, <2>4, <2>5, <2>6, <2>7, <2>8
<1>2. CASE Register(s)
  <2>1. /\ pc[s] = "register" /\ mutex = Nobody
        /\ SlotStore(currStudents, s) /\ currStudents' = currStudents + 1
    BY <1>2 DEF Register, RegisterIf
  <2>2. s = currStudents /\ s + 1 <= TotalStudents
    BY <2>1, RegistersNext, SizeAssumption DEF Students
  <2>3. \/ threadCounter >= MaxConcurrent /\ Goto(s, "register", "pass") /\ refused' = refused \cup {s} /\ mutex' = mutex
        \/ threadCounter < MaxConcurrent /\ Goto(s, "register", "admit") /\ refused' = refused /\ mutex' = s
    BY <1>2, SizeAssumption DEF Register, RegisterIf, Goto, TypeOK
  <2>4. SeatAccounting' /\ LineAccounting'
    <3>1. threadCounter' = threadCounter /\ waitingLine' = waitingLine
      BY <1>2 DEF Register, RegisterIf
    <3>2. CASE Goto(s, "register", "pass")
      BY <3>1, <3>2, AccountsMove DEF TypeOK, Location, Arriving, Waiting, OnSeat, Counted, Leaving, Gain
    <3>3. CASE Goto(s, "register", "admit")
      BY <3>1, <3>3, AccountsMove DEF TypeOK, Location, Arriving, Seating, OnSeat, Counted, Leaving, Gain
    <3> QED  BY <2>3, <3>2, <3>3
  <2>5. TypeOK'
    <3>1. sem' \in [Students -> Nat]
      BY <2>1, SizeAssumption DEF SlotStore, TypeOK
    <3>2. students' \in [Students -> Students \cup {Wild}]
      BY <2>1 DEF SlotStore, TypeOK
    <3>3. pc' \in [Students -> Location] /\ refused' \in SUBSET Students /\ mutex' \in Students \cup {Nobody}
      BY <2>3 DEF Goto, TypeOK, Location, Waiting, Seating
    <3>4. currStudents' \in 0 .. TotalStudents
      BY <2>1, <2>2, SizeAssumption DEF TypeOK
    <3> QED  BY <1>2, <3>1, <3>2, <3>3, <3>4 DEF Register, RegisterIf, TypeOK
  <2>6. MainInv'
    BY <1>2, <2>3 DEF Register, RegisterIf, MainInv, TypeOK, Goto
  <2>7. MutexInv'
    BY <2>1, <2>3, SizeAssumption DEF MutexInv, TypeOK, Goto, Seating, Entering, Nobody, Students
  <2>8. TurnInv'
    <3>1. /\ \A t \in Students : pc'[t] \in Unasked <=> pc[t] \in Unasked
          /\ \A t \in Students : pc'[t] \in Holding <=> pc[t] \in Holding
      BY <2>3 DEF Goto, TypeOK, Unasked, Holding, Arriving
    <3>2. ASSUME NEW t \in Students, pc[t] \in Holding PROVE sem'[t] = 0
      <4>1. currStudents <= t + 1
        BY <3>2, TurnHeld
      <4>2. SemSlot[t] # currStudents
        BY <4>1, LayoutAssumption, SizeAssumption DEF TypeOK, Students
      <4>3. sem'[t] = sem[t]
        BY <2>1, <4>2 DEF SlotStore
      <4> QED  BY <3>2, <4>3 DEF TurnInv
    <3> QED  BY <3>1, <3>2 DEF TurnInv, Unasked, Holding, Arriving
  <2>9. TurnOrder'
    <3>1. \A t \in Students : Registered(t)' <=> t < currStudents'
      BY <2>1, <2>2, <2>3, SizeAssumption DEF Goto, TypeOK, TurnOrder, Registered, Arriving, Students
    <3>2. \A k \in Students : k < currStudents' => students'[k] = k
      BY <2>1, <2>2, SizeAssumption DEF SlotStore, TypeOK, TurnOrder, Students
    <3> QED  BY <3>1, <3>2 DEF TurnOrder
  <2>10. RefusedInv'
    <3>1. threadCounter >= MaxConcurrent => s >= MaxConcurrent
      BY <2>2, SeatedAreRegistered, SizeAssumption DEF SeatAccounting, TypeOK, Students
    <3> QED  BY <2>3, <3>1 DEF Goto, TypeOK, RefusedInv, Waiting, Polling, Entering
  <2>11. AdmissionSafe'
    <3>1. \A t \in Students : pc[t] # "admit"
      BY <2>1 DEF MutexInv, Seating, Entering, Nobody, Students
    <3>2. threadCounter' = threadCounter
      BY <1>2 DEF Register, RegisterIf
    <3> QED  BY <2>3, <3>1, <3>2 DEF Goto, TypeOK, AdmissionSafe
  <2> QED  BY <2>4, <2>5, <2>6, <2>7, <2>8, <2>9, <2>10, <2>11
<1>3. CASE Admit(s)
  <2>1. SeatAccounting' /\ LineAccounting' /\ threadCounter' \in Nat /\ waitingLine' \in Nat
    <3>1. Goto(s, "admit", "advance")
      BY <1>3 DEF Admit
    <3>2. "advance" \in Location
      BY DEF Location, Arriving, Seating, Waiting, Polling, Entering, Leaving
    <3>3. threadCounter' = threadCounter + Gain("advance", OnSeat) - Gain("admit", OnSeat)
      BY <1>3 DEF Admit, TypeOK, Gain, OnSeat
    <3>4. waitingLine' = waitingLine + Gain("advance", Counted) - Gain("admit", Counted)
      BY <1>3 DEF Admit, TypeOK, Gain, Counted, Leaving
    <3> QED  BY <3>1, <3>2, <3>3, <3>4, AccountsMove
  <2>2. TypeOK'
    BY <1>3, <2>1 DEF Admit, TypeOK, Goto, Location, Arriving, Seating, Waiting, Polling, Entering, Leaving, Nobody, Wild
  <2>3. MainInv'
    BY <1>3 DEF Admit, MainInv, TypeOK, Goto
  <2>4. MutexInv'
    BY <1>3 DEF Admit, MutexInv, TypeOK, Goto, Seating, Entering, Nobody, Students
  <2>5. TurnInv'
    <3>1. /\ \A t \in Students : pc'[t] \in Unasked <=> pc[t] \in Unasked
          /\ \A t \in Students : pc'[t] \in Holding <=> pc[t] \in Holding
      BY <1>3 DEF Admit, Goto, TypeOK, Unasked, Holding, Arriving
    <3>2. sem' = sem
      BY <1>3 DEF Admit
    <3> QED  BY <3>1, <3>2 DEF TurnInv, Unasked, Holding, Arriving
  <2>6. TurnOrder'
    BY <1>3 DEF Admit, TurnOrder, TypeOK, Goto, Registered, Arriving
  <2>7. RefusedInv'
    BY <1>3 DEF Admit, RefusedInv, TypeOK, Goto, Waiting, Polling, Entering
  <2>8. AdmissionSafe'
    BY <1>3 DEF Admit, AdmissionSafe, MutexInv, Seating, Entering, TypeOK, Goto
  <2> QED  BY <2>1, <2>2, <2>3, <2>4, <2>5, <2>6, <2>7, <2>8
<1>4. CASE Advance(s)
  <2>1. SeatAccounting' /\ LineAccounting' /\ threadCounter' \in Nat /\ waitingLine' \in Nat
    <3>1. Goto(s, "advance", "post")
      BY <1>4 DEF Advance
    <3>2. "post" \in Location
      BY DEF Location, Arriving, Seating, Waiting, Polling, Entering, Leaving
    <3>3. threadCounter' = threadCounter + Gain("post", OnSeat) - Gain("advance", OnSeat)
      BY <1>4 DEF Advance, TypeOK, Gain, OnSeat
    <3>4. waitingLine' = waitingLine + Gain("post", Counted) - Gain("advance", Counted)
      BY <1>4 DEF Advance, TypeOK, Gain, Counted, Leaving
    <3> QED  BY <3>1, <3>2, <3>3, <3>4, AccountsMove
  <2>2. TypeOK'
    BY <1>4, <2>1 DEF Advance, TypeOK, Goto, Location, Arriving, Seating, Waiting, Polling, Entering, Leaving, Nobody, Wild
  <2>3. MainInv'
    BY <1>4 DEF Advance, MainInv, TypeOK, Goto
  <2>4. MutexInv'
    BY <1>4 DEF Advance, MutexInv, TypeOK, Goto, Seating, Entering, Nobody, Students
  <2>5. TurnInv'
    <3>1. /\ \A t \in Students : pc'[t] \in Unasked <=> pc[t] \in Unasked
          /\ \A t \in Students : pc'[t] \in Holding <=> pc[t] \in Holding
      BY <1>4 DEF Advance, Goto, TypeOK, Unasked, Holding, Arriving
    <3>2. sem' = sem
      BY <1>4 DEF Advance
    <3> QED  BY <3>1, <3>2 DEF TurnInv, Unasked, Holding, Arriving
  <2>6. TurnOrder'
    BY <1>4 DEF Advance, TurnOrder, TypeOK, Goto, Registered, Arriving
  <2>7. RefusedInv'
    BY <1>4 DEF Advance, RefusedInv, TypeOK, Goto, Waiting, Polling, Entering
  <2>8. AdmissionSafe'
    BY <1>4 DEF Advance, AdmissionSafe, MutexInv, Seating, Entering, TypeOK, Goto
  <2> QED  BY <2>1, <2>2, <2>3, <2>4, <2>5, <2>6, <2>7, <2>8
<1>5. CASE PostTurn(s)
  <2>1. SeatAccounting' /\ LineAccounting' /\ threadCounter' \in Nat /\ waitingLine' \in Nat
    <3>1. Goto(s, "post", "sit")
      BY <1>5 DEF PostTurn
    <3>2. "sit" \in Location
      BY DEF Location, Arriving, Seating, Waiting, Polling, Entering, Leaving
    <3>3. threadCounter' = threadCounter + Gain("sit", OnSeat) - Gain("post", OnSeat)
      BY <1>5 DEF PostTurn, TypeOK, Gain, OnSeat
    <3>4. waitingLine' = waitingLine + Gain("sit", Counted) - Gain("post", Counted)
      BY <1>5 DEF PostTurn, TypeOK, Gain, Counted, Leaving
    <3> QED  BY <3>1, <3>2, <3>3, <3>4, AccountsMove
  <2>2. TypeOK'
    BY <1>5, <2>1 DEF PostTurn, TypeOK, Goto, SemStore, SemPost, Location, Arriving, Seating, Waiting, Polling, Entering, Leaving, Nobody, Wild
  <2>3. MainInv'
    BY <1>5 DEF PostTurn, MainInv, TypeOK, Goto
  <2>4. MutexInv'
    BY <1>5 DEF PostTurn, MutexInv, TypeOK, Goto, Seating, Entering, Nobody, Students
  <2>5. TurnInv'
    <3>1. /\ \A t \in Students : pc'[t] \in Unasked <=> pc[t] \in Unasked
          /\ \A t \in Students : pc'[t] \in Holding => pc[t] \in Holding
      BY <1>5 DEF PostTurn, Goto, TypeOK, Unasked, Holding, Arriving
    <3>2. pc'[s] \notin Holding /\ \A t \in Students : t # s => sem'[t] = sem[t]
      BY <1>5 DEF PostTurn, Goto, SemPost, SemStore, TypeOK, Holding, Arriving
    <3> QED  BY <3>1, <3>2 DEF TurnInv, Unasked, Holding, Arriving
  <2>6. TurnOrder'
    <3>1. \A t \in Students : Registered(t)' <=> Registered(t)
      BY <1>5 DEF PostTurn, Goto, TypeOK, Registered, Arriving
    <3>2. SemSlot[s] >= currStudents
      <4>1. pc[s] \in Holding
        BY <1>5 DEF PostTurn, Goto, Holding
      <4>2. currStudents <= s + 1
        BY <4>1, TurnHeld
      <4> QED  BY <4>2, LayoutAssumption, SizeAssumption DEF TypeOK, Students
    <3>3. \A k \in Students : k < currStudents' => students'[k] = k
      BY <1>5, <3>2, HarmlessStore DEF PostTurn, SemPost
    <3> QED  BY <1>5, <3>1, <3>3 DEF PostTurn, TurnOrder
  <2>7. RefusedInv'
    BY <1>5 DEF PostTurn, RefusedInv, TypeOK, Goto, Waiting, Polling, Entering
  <2>8. AdmissionSafe'
    BY <1>5 DEF PostTurn, AdmissionSafe, MutexInv, Seating, Entering, TypeOK, Goto
  <2> QED  BY <2>1, <2>2, <2>3, <2>4, <2>5, <2>6, <2>7, <2>8
<1>6. CASE SitDown(s)
  <2>1. SeatAccounting' /\ LineAccounting' /\ threadCounter' \in Nat /\ waitingLine' \in Nat
    <3>1. Goto(s, "sit", "study")
      BY <1>6 DEF SitDown
    <3>2. "study" \in Location
      BY DEF Location, Arriving, Seating, Waiting, Polling, Entering, Leaving
    <3>3. threadCounter' = threadCounter + Gain("study", OnSeat) - Gain("sit", OnSeat)
      BY <1>6 DEF SitDown, room, TypeOK, Gain, OnSeat
    <3>4. waitingLine' = waitingLine + Gain("study", Counted) - Gain("sit", Counted)
      BY <1>6 DEF SitDown, room, TypeOK, Gain, Counted, Leaving
    <3> QED  BY <3>1, <3>2, <3>3, <3>4, AccountsMove
  <2>2. TypeOK'
    BY <1>6, <2>1 DEF SitDown, TypeOK, Goto, Release, room, Location, Arriving, Seating, Waiting, Polling, Entering, Leaving, Nobody, Wild
  <2>3. MainInv'
    BY <1>6 DEF SitDown, MainInv, TypeOK, Goto
  <2>4. MutexInv'
    BY <1>6 DEF SitDown, MutexInv, TypeOK, Goto, Release, Seating, Entering, Nobody, Students
  <2>5. TurnInv'
    <3>1. /\ \A t \in Students : pc'[t] \in Unasked <=> pc[t] \in Unasked
          /\ \A t \in Students : pc'[t] \in Holding <=> pc[t] \in Holding
      BY <1>6 DEF SitDown, Goto, TypeOK, Unasked, Holding, Arriving
    <3>2. sem' = sem
      BY <1>6 DEF SitDown, room
    <3> QED  BY <3>1, <3>2 DEF TurnInv, Unasked, Holding, Arriving
  <2>6. TurnOrder'
    BY <1>6 DEF SitDown, TurnOrder, TypeOK, Goto, Registered, Arriving, room
  <2>7. RefusedInv'
    BY <1>6 DEF SitDown, RefusedInv, TypeOK, Goto, room, Waiting, Polling, Entering
  <2>8. AdmissionSafe'
    BY <1>6 DEF SitDown, AdmissionSafe, MutexInv, Seating, Entering, TypeOK, Goto, room
  <2> QED  BY <2>1, <2>2, <2>3, <2>4, <2>5, <2>6, <2>7, <2>8
<1>7. CASE PassTurn(s)
  <2>1. SeatAccounting' /\ LineAccounting' /\ threadCounter' \in Nat /\ waitingLine' \in Nat
    <3>1. Goto(s, "pass", "mark")
      BY <1>7 DEF PassTurn
    <3>2. "mark" \in Location
      BY DEF Location, Arriving, Seating, Waiting, Polling, Entering, Leaving
    <3>3. threadCounter' = threadCounter + Gain("mark", OnSeat) - Gain("pass", OnSeat)
      BY <1>7 DEF PassTurn, TypeOK, Gain, OnSeat
    <3>4. waitingLine' = waitingLine + Gain("mark", Counted) - Gain("pass", Counted)
      BY <1>7 DEF PassTurn, TypeOK, Gain, Counted, Leaving
    <3> QED  BY <3>1, <3>2, <3>3, <3>4, AccountsMove
  <2>2. TypeOK'
    BY <1>7, <2>1 DEF PassTurn, TypeOK, Goto, SemStore, SemPost, Location, Arriving, Seating, Waiting, Polling, Entering, Leaving, Nobody, Wild
  <2>3. MainInv'
    BY <1>7 DEF PassTurn, MainInv, TypeOK, Goto
  <2>4. MutexInv'
    BY <1>7 DEF PassTurn, MutexInv, TypeOK, Goto, Seating, Entering, Nobody, Students
  <2>5. TurnInv'
    <3>1. /\ \A t \in Students : pc'[t] \in Unasked <=> pc[t] \in Unasked
          /\ \A t \in Students : pc'[t] \in Holding => pc[t] \in Holding
      BY <1>7 DEF PassTurn, Goto, TypeOK, Unasked, Holding, Arriving
    <3>2. pc'[s] \notin Holding /\ \A t \in Students : t # s => sem'[t] = sem[t]
      BY <1>7 DEF PassTurn, Goto, SemPost, SemStore, TypeOK, Holding, Arriving
    <3> QED  BY <3>1, <3>2 DEF TurnInv, Unasked, Holding, Arriving
  <2>6. TurnOrder'
    <3>1. \A t \in Students : Registered(t)' <=> Registered(t)
      BY <1>7 DEF PassTurn, Goto, TypeOK, Registered, Arriving
    <3>2. SemSlot[s] >= currStudents
      <4>1. pc[s] \in Holding
        BY <1>7 DEF PassTurn, Goto, Holding
      <4>2. currStudents <= s + 1
        BY <4>1, TurnHeld
      <4> QED  BY <4>2, LayoutAssumption, SizeAssumption DEF TypeOK, Students
    <3>3. \A k \in Students : k < currStudents' => students'[k] = k
      BY <1>7, <3>2, HarmlessStore DEF PassTurn, SemPost
    <3> QED  BY <1>7, <3>1, <3>3 DEF PassTurn, TurnOrder
  <2>7. RefusedInv'
    BY <1>7 DEF PassTurn, RefusedInv, TypeOK, Goto, Waiting, Polling, Entering
  <2>8. AdmissionSafe'
    BY <1>7 DEF PassTurn, AdmissionSafe, MutexInv, Seating, Entering, TypeOK, Goto
  <2> QED  BY <2>1, <2>2, <2>3, <2>4, <2>5, <2>6, <2>7, <2>8
<1>8. CASE MarkFull(s)
  <2>1. SeatAccounting' /\ LineAccounting' /\ threadCounter' \in Nat /\ waitingLine' \in Nat
    <3>1. Goto(s, "mark", "testFull")
      BY <1>8 DEF MarkFull
    <3>2. "testFull" \in Location
      BY DEF Location, Arriving, Seating, Waiting, Polling, Entering, Leaving
    <3>3. threadCounter' = threadCounter + Gain("testFull", OnSeat) - Gain("mark", OnSeat)
      BY <1>8 DEF MarkFull, TypeOK, Gain, OnSeat
    <3>4. waitingLine' = waitingLine + Gain("testFull", Counted) - Gain("mark", Counted)
      BY <1>8 DEF MarkFull, TypeOK, Gain, Counted, Leaving
    <3> QED  BY <3>1, <3>2, <3>3, <3>4, AccountsMove
  <2>2. TypeOK'
    BY <1>8, <2>1 DEF MarkFull, TypeOK, Goto, Location, Arriving, Seating, Waiting, Polling, Entering, Leaving, Nobody, Wild
  <2>3. MainInv'
    BY <1>8 DEF MarkFull, MainInv, TypeOK, Goto
  <2>4. MutexInv'
    BY <1>8 DEF MarkFull, MutexInv, TypeOK, Goto, Seating, Entering, Nobody, Students
  <2>5. TurnInv'
    <3>1. /\ \A t \in Students : pc'[t] \in Unasked <=> pc[t] \in Unasked
          /\ \A t \in Students : pc'[t] \in Holding <=> pc[t] \in Holding
      BY <1>8 DEF MarkFull, Goto, TypeOK, Unasked, Holding, Arriving
    <3>2. sem' = sem
      BY <1>8 DEF MarkFull
    <3> QED  BY <3>1, <3>2 DEF TurnInv, Unasked, Holding, Arriving
  <2>6. TurnOrder'
    BY <1>8 DEF MarkFull, TurnOrder, TypeOK, Goto, Registered, Arriving
  <2>7. RefusedInv'
    BY <1>8 DEF MarkFull, RefusedInv, TypeOK, Goto, Waiting, Polling, Entering
  <2>8. AdmissionSafe'
    BY <1>8 DEF MarkFull, AdmissionSafe, MutexInv, Seating, Entering, TypeOK, Goto
  <2> QED  BY <2>1, <2>2, <2>3, <2>4, <2>5, <2>6, <2>7, <2>8
<1>9. CASE TestFull(s)
  <2>1. SeatAccounting' /\ LineAccounting' /\ threadCounter' \in Nat /\ waitingLine' \in Nat
    <3> DEFINE to == IF isFull = 1 THEN "nap" ELSE "testLine"
    <3>1. Goto(s, "testFull", to)
      BY <1>9 DEF TestFull
    <3>2. to \in Location
      BY DEF Location, Waiting, Polling, Leaving
    <3>3. threadCounter' = threadCounter + Gain(to, OnSeat) - Gain("testFull", OnSeat)
      BY <1>9 DEF TestFull, room, TypeOK, Gain, OnSeat
    <3>4. waitingLine' = waitingLine + Gain(to, Counted) - Gain("testFull", Counted)
      BY <1>9 DEF TestFull, room, TypeOK, Gain, Counted, Leaving
    <3> HIDE DEF to
    <3> QED  BY <3>1, <3>2, <3>3, <3>4, AccountsMove
  <2>2. TypeOK'
    BY <1>9, <2>1 DEF TestFull, TypeOK, Goto, room, Location, Arriving, Seating, Waiting, Polling, Entering, Leaving, Nobody, Wild
  <2>3. MainInv'
    BY <1>9 DEF TestFull, MainInv, TypeOK, Goto
  <2>4. MutexInv'
    BY <1>9 DEF TestFull, MutexInv, TypeOK, Goto, Seating, Entering, Nobody, Students
  <2>5. TurnInv'
    <3>1. /\ \A t \in Students : pc'[t] \in Unasked <=> pc[t] \in Unasked
          /\ \A t \in Students : pc'[t] \in Holding <=> pc[t] \in Holding
      BY <1>9 DEF TestFull, Goto, TypeOK, Unasked, Holding, Arriving
    <3>2. sem' = sem
      BY <1>9 DEF TestFull, room
    <3> QED  BY <3>1, <3>2 DEF TurnInv, Unasked, Holding, Arriving
  <2>6. TurnOrder'
    BY <1>9 DEF TestFull, TurnOrder, TypeOK, Goto, Registered, Arriving, room
  <2>7. RefusedInv'
    BY <1>9 DEF TestFull, RefusedInv, TypeOK, Goto, room, Waiting, Polling, Entering
  <2>8. AdmissionSafe'
    BY <1>9 DEF TestFull, AdmissionSafe, MutexInv, Seating, Entering, TypeOK, Goto, room
  <2> QED  BY <2>1, <2>2, <2>3, <2>4, <2>5, <2>6, <2>7, <2>8
<1>10. CASE TestLine(s)
  <2>1. SeatAccounting' /\ LineAccounting' /\ threadCounter' \in Nat /\ waitingLine' \in Nat
    <3> DEFINE to == IF waitingLine # s THEN "nap" ELSE "relock"
    <3>1. Goto(s, "testLine", to)
      BY <1>10 DEF TestLine
    <3>2. to \in Location
      BY DEF Location, Waiting, Polling, Leaving
    <3>3. threadCounter' = threadCounter + Gain(to, OnSeat) - Gain("testLine", OnSeat)
      BY <1>10 DEF TestLine, room, TypeOK, Gain, OnSeat
    <3>4. waitingLine' = waitingLine + Gain(to, Counted) - Gain("testLine", Counted)
      BY <1>10 DEF TestLine, room, TypeOK, Gain, Counted, Leaving
    <3> HIDE DEF to
    <3> QED  BY <3>1, <3>2, <3>3, <3>4, AccountsMove
  <2>2. TypeOK'
    BY <1>10, <2>1 DEF TestLine, TypeOK, Goto, room, Location, Arriving, Seating, Waiting, Polling, Entering, Leaving, Nobody, Wild
  <2>3. MainInv'
    BY <1>10 DEF TestLine, MainInv, TypeOK, Goto
  <2>4. MutexInv'
    BY <1>10 DEF TestLine, MutexInv, TypeOK, Goto, Seating, Entering, Nobody, Students
  <2>5. TurnInv'
    <3>1. /\ \A t \in Students : pc'[t] \in Unasked <=> pc[t] \in Unasked
          /\ \A t \in Students : pc'[t] \in Holding <=> pc[t] \in Holding
      BY <1>10 DEF TestLine, Goto, TypeOK, Unasked, Holding, Arriving
    <3>2. sem' = sem
      BY <1>10 DEF TestLine, room
    <3> QED  BY <3>1, <3>2 DEF TurnInv, Unasked, Holding, Arriving
  <2>6. TurnOrder'
    BY <1>10 DEF TestLine, TurnOrder, TypeOK, Goto, Registered, Arriving, room
  <2>7. RefusedInv'
    BY <1>10 DEF TestLine, RefusedInv, TypeOK, Goto, room, Waiting, Polling, Entering
  <2>8. AdmissionSafe'
    BY <1>10 DEF TestLine, AdmissionSafe, MutexInv, Seating, Entering, TypeOK, Goto, room
  <2> QED  BY <2>1, <2>2, <2>3, <2>4, <2>5, <2>6, <2>7, <2>8
<1>11. CASE Nap(s)
  <2>1. SeatAccounting' /\ LineAccounting' /\ threadCounter' \in Nat /\ waitingLine' \in Nat
    <3> DEFINE to == IF threadCounter = MaxConcurrent THEN "remark" ELSE "testFull"
    <3>1. Goto(s, "nap", to)
      BY <1>11 DEF Nap
    <3>2. to \in Location
      BY DEF Location, Waiting, Polling, Leaving
    <3>3. threadCounter' = threadCounter + Gain(to, OnSeat) - Gain("nap", OnSeat)
      BY <1>11 DEF Nap, room, TypeOK, Gain, OnSeat
    <3>4. waitingLine' = waitingLine + Gain(to, Counted) - Gain("nap", Counted)
      BY <1>11 DEF Nap, room, TypeOK, Gain, Counted, Leaving
    <3> HIDE DEF to
    <3> QED  BY <3>1, <3>2, <3>3, <3>4, AccountsMove
  <2>2. TypeOK'
    BY <1>11, <2>1 DEF Nap, TypeOK, Goto, room, Location, Arriving, Seating, Waiting, Polling, Entering, Leaving, Nobody, Wild
  <2>3. MainInv'
    BY <1>11 DEF Nap, MainInv, TypeOK, Goto
  <2>4. MutexInv'
    BY <1>11 DEF Nap, MutexInv, TypeOK, Goto, Seating, Entering, Nobody, Students
  <2>5. TurnInv'
    <3>1. /\ \A t \in Students : pc'[t] \in Unasked <=> pc[t] \in Unasked
          /\ \A t \in Students : pc'[t] \in Holding <=> pc[t] \in Holding
      BY <1>11 DEF Nap, Goto, TypeOK, Unasked, Holding, Arriving
    <3>2. sem' = sem
      BY <1>11 DEF Nap, room
    <3> QED  BY <3>1, <3>2 DEF TurnInv, Unasked, Holding, Arriving
  <2>6. TurnOrder'
    BY <1>11 DEF Nap, TurnOrder, TypeOK, Goto, Registered, Arriving, room
  <2>7. RefusedInv'
    BY <1>11 DEF Nap, RefusedInv, TypeOK, Goto, room, Waiting, Polling, Entering
  <2>8. AdmissionSafe'
    BY <1>11 DEF Nap, AdmissionSafe, MutexInv, Seating, Entering, TypeOK, Goto, room
  <2> QED  BY <2>1, <2>2, <2>3, <2>4, <2>5, <2>6, <2>7, <2>8
<1>12. CASE RemarkFull(s)
  <2>1. SeatAccounting' /\ LineAccounting' /\ threadCounter' \in Nat /\ waitingLine' \in Nat
    <3>1. Goto(s, "remark", "testFull")
      BY <1>12 DEF RemarkFull
    <3>2. "testFull" \in Location
      BY DEF Location, Arriving, Seating, Waiting, Polling, Entering, Leaving
    <3>3. threadCounter' = threadCounter + Gain("testFull", OnSeat) - Gain("remark", OnSeat)
      BY <1>12 DEF RemarkFull, TypeOK, Gain, OnSeat
    <3>4. waitingLine' = waitingLine + Gain("testFull", Counted) - Gain("remark", Counted)
      BY <1>12 DEF RemarkFull, TypeOK, Gain, Counted, Leaving
    <3> QED  BY <3>1, <3>2, <3>3, <3>4, AccountsMove
  <2>2. TypeOK'
    BY <1>12, <2>1 DEF RemarkFull, TypeOK, Goto, Location, Arriving, Seating, Waiting, Polling, Entering, Leaving, Nobody, Wild
  <2>3. MainInv'
    BY <1>12 DEF RemarkFull, MainInv, TypeOK, Goto
  <2>4. MutexInv'
    BY <1>12 DEF RemarkFull, MutexInv, TypeOK, Goto, Seating, Entering, Nobody, Students
  <2>5. TurnInv'
    <3>1. /\ \A t \in Students : pc'[t] \in Unasked <=> pc[t] \in Unasked
          /\ \A t \in Students : pc'[t] \in Holding <=> pc[t] \in Holding
      BY <1>12 DEF RemarkFull, Goto, TypeOK, Unasked, Holding, Arriving
    <3>2. sem' = sem
      BY <1>12 DEF RemarkFull
    <3> QED  BY <3>1, <3>2 DEF TurnInv, Unasked, Holding, Arriving
  <2>6. TurnOrder'
    BY <1>12 DEF RemarkFull, TurnOrder, TypeOK, Goto, Registered, Arriving
  <2>7. RefusedInv'
    BY <1>12 DEF RemarkFull, RefusedInv, TypeOK, Goto, Waiting, Polling, Entering
  <2>8. AdmissionSafe'
    BY <1>12 DEF RemarkFull, AdmissionSafe, MutexInv, Seating, Entering, TypeOK, Goto
  <2> QED  BY <2>1, <2>2, <2>3, <2>4, <2>5, <2>6, <2>7, <2>8
<1>13. CASE TakePlace(s)
  <2>1. SeatAccounting' /\ LineAccounting' /\ threadCounter' \in Nat /\ waitingLine' \in Nat
    <3>1. Goto(s, "relock", "reseat")
      BY <1>13 DEF TakePlace
    <3>2. "reseat" \in Location
      BY DEF Location, Arriving, Seating, Waiting, Polling, Entering, Leaving
    <3>3. threadCounter' = threadCounter + Gain("reseat", OnSeat) - Gain("relock", OnSeat)
      BY <1>13 DEF TakePlace, TypeOK, Gain, OnSeat
    <3>4. waitingLine' = waitingLine + Gain("reseat", Counted) - Gain("relock", Counted)
      BY <1>13 DEF TakePlace, TypeOK, Gain, Counted, Leaving
    <3> QED  BY <3>1, <3>2, <3>3, <3>4, AccountsMove
  <2>2. TypeOK'
    BY <1>13, <2>1 DEF TakePlace, TypeOK, Goto, Acquire, Location, Arriving, Seating, Waiting, Polling, Entering, Leaving, Nobody, Wild
  <2>3. MainInv'
    BY <1>13 DEF TakePlace, MainInv, TypeOK, Goto
  <2>4. MutexInv'
    BY <1>13 DEF TakePlace, MutexInv, TypeOK, Goto, Acquire, Seating, Entering, Nobody, Students
  <2>5. TurnInv'
    <3>1. /\ \A t \in Students : pc'[t] \in Unasked <=> pc[t] \in Unasked
          /\ \A t \in Students : pc'[t] \in Holding <=> pc[t] \in Holding
      BY <1>13 DEF TakePlace, Goto, TypeOK, Unasked, Holding, Arriving
    <3>2. sem' = sem
      BY <1>13 DEF TakePlace
    <3> QED  BY <3>1, <3>2 DEF TurnInv, Unasked, Holding, Arriving
  <2>6. TurnOrder'
    BY <1>13 DEF TakePlace, TurnOrder, TypeOK, Goto, Registered, Arriving
  <2>7. RefusedInv'
    BY <1>13 DEF TakePlace, RefusedInv, TypeOK, Goto, Waiting, Polling, Entering
  <2>8. AdmissionSafe'
    BY <1>13 DEF TakePlace, AdmissionSafe, MutexInv, Seating, Entering, TypeOK, Goto
  <2> QED  BY <2>1, <2>2, <2>3, <2>4, <2>5, <2>6, <2>7, <2>8
<1>14. CASE TakeSeat(s)
  <2>1. SeatAccounting' /\ LineAccounting' /\ threadCounter' \in Nat /\ waitingLine' \in Nat
    <3>1. Goto(s, "reseat", "repost")
      BY <1>14 DEF TakeSeat
    <3>2. "repost" \in Location
      BY DEF Location, Arriving, Seating, Waiting, Polling, Entering, Leaving
    <3>3. threadCounter' = threadCounter + Gain("repost", OnSeat) - Gain("reseat", OnSeat)
      BY <1>14 DEF TakeSeat, TypeOK, Gain, OnSeat
    <3>4. waitingLine' = waitingLine + Gain("repost", Counted) - Gain("reseat", Counted)
      BY <1>14 DEF TakeSeat, TypeOK, Gain, Counted, Leaving
    <3> QED  BY <3>1, <3>2, <3>3, <3>4, AccountsMove
  <2>2. TypeOK'
    BY <1>14, <2>1 DEF TakeSeat, TypeOK, Goto, Location, Arriving, Seating, Waiting, Polling, Entering, Leaving, Nobody, Wild
  <2>3. MainInv'
    BY <1>14 DEF TakeSeat, MainInv, TypeOK, Goto
  <2>4. MutexInv'
    BY <1>14 DEF TakeSeat, MutexInv, TypeOK, Goto, Seating, Entering, Nobody, Students
  <2>5. TurnInv'
    <3>1. /\ \A t \in Students : pc'[t] \in Unasked <=> pc[t] \in Unasked
          /\ \A t \in Students : pc'[t] \in Holding <=> pc[t] \in Holding
      BY <1>14 DEF TakeSeat, Goto, TypeOK, Unasked, Holding, Arriving
    <3>2. sem' = sem
      BY <1>14 DEF TakeSeat
    <3> QED  BY <3>1, <3>2 DEF TurnInv, Unasked, Holding, Arriving
  <2>6. TurnOrder'
    BY <1>14 DEF TakeSeat, TurnOrder, TypeOK, Goto, Registered, Arriving
  <2>7. RefusedInv'
    BY <1>14 DEF TakeSeat, RefusedInv, TypeOK, Goto, Waiting, Polling, Entering
  <2>8. AdmissionSafe'
    BY <1>14 DEF TakeSeat, AdmissionSafe, MutexInv, Seating, Entering, TypeOK, Goto
  <2> QED  BY <2>1, <2>2, <2>3, <2>4, <2>5, <2>6, <2>7, <2>8
<1>15. CASE RepostTurn(s)
  <2>1. SeatAccounting' /\ LineAccounting' /\ threadCounter' \in Nat /\ waitingLine' \in Nat
    <3>1. Goto(s, "repost", "study")
      BY <1>15 DEF RepostTurn
    <3>2. "study" \in Location
      BY DEF Location, Arriving, Seating, Waiting, Polling, Entering, Leaving
    <3>3. threadCounter' = threadCounter + Gain("study", OnSeat) - Gain("repost", OnSeat)
      BY <1>15 DEF RepostTurn, TypeOK, Gain, OnSeat
    <3>4. waitingLine' = waitingLine + Gain("study", Counted) - Gain("repost", Counted)
      BY <1>15 DEF RepostTurn, TypeOK, Gain, Counted, Leaving
    <3> QED  BY <3>1, <3>2, <3>3, <3>4, AccountsMove
  <2>2. TypeOK'
    BY <1>15, <2>1 DEF RepostTurn, TypeOK, Goto, SemStore, SemPost, Release, Location, Arriving, Seating, Waiting, Polling, Entering, Leaving, Nobody, Wild
  <2>3. MainInv'
    BY <1>15 DEF RepostTurn, MainInv, TypeOK, Goto
  <2>4. MutexInv'
    BY <1>15 DEF RepostTurn, MutexInv, TypeOK, Goto, Release, Seating, Entering, Nobody, Students
  <2>5. TurnInv'
    <3>1. /\ \A t \in Students : pc'[t] \in Unasked <=> pc[t] \in Unasked
          /\ \A t \in Students : pc'[t] \in Holding => pc[t] \in Holding
      BY <1>15 DEF RepostTurn, Goto, TypeOK, Unasked, Holding, Arriving
    <3>2. pc'[s] \notin Holding /\ \A t \in Students : t # s => sem'[t] = sem[t]
      BY <1>15 DEF RepostTurn, Goto, SemPost, SemStore, TypeOK, Holding, Arriving
    <3> QED  BY <3>1, <3>2 DEF TurnInv, Unasked, Holding, Arriving
  <2>6. TurnOrder'
    <3>1. \A t \in Students : Registered(t)' <=> Registered(t)
      BY <1>15 DEF RepostTurn, Goto, TypeOK, Registered, Arriving
    <3>2. SemSlot[s] >= currStudents
      <4>1. s >= MaxConcurrent
        BY <1>15 DEF RepostTurn, Goto, RefusedInv, Entering
      <4> QED  BY <4>1, LayoutAssumption, SizeAssumption DEF TypeOK
    <3>3. \A k \in Students : k < currStudents' => students'[k] = k
      BY <1>15, <3>2, HarmlessStore DEF RepostTurn, SemPost
    <3> QED  BY <1>15, <3>1, <3>3 DEF RepostTurn, TurnOrder
  <2>7. RefusedInv'
    BY <1>15 DEF RepostTurn, RefusedInv, TypeOK, Goto, Waiting, Polling, Entering
  <2>8. AdmissionSafe'
    BY <1>15 DEF RepostTurn, AdmissionSafe, MutexInv, Seating, Entering, TypeOK, Goto
  <2> QED  BY <2>1, <2>2, <2>3, <2>4, <2>5, <2>6, <2>7, <2>8
<1>16. CASE StopStudying(s)
  <2>1. SeatAccounting' /\ LineAccounting' /\ threadCounter' \in Nat /\ waitingLine' \in Nat
    <3>1. Goto(s, "study", "testEmpty")
      BY <1>16 DEF StopStudying
    <3>2. "testEmpty" \in Location
      BY DEF Location, Arriving, Seating, Waiting, Polling, Entering, Leaving
    <3>3. threadCounter' = threadCounter + Gain("testEmpty", OnSeat) - Gain("study", OnSeat)
      BY <1>16 DEF StopStudying, TypeOK, Gain, OnSeat
    <3>4. waitingLine' = waitingLine + Gain("testEmpty", Counted) - Gain("study", Counted)
      BY <1>16 DEF StopStudying, TypeOK, Gain, Counted, Leaving
    <3> QED  BY <3>1, <3>2, <3>3, <3>4, AccountsMove
  <2>2. TypeOK'
    BY <1>16, <2>1 DEF StopStudying, TypeOK, Goto, Location, Arriving, Seating, Waiting, Polling, Entering, Leaving, Nobody, Wild
  <2>3. MainInv'
    BY <1>16 DEF StopStudying, MainInv, TypeOK, Goto
  <2>4. MutexInv'
    BY <1>16 DEF StopStudying, MutexInv, TypeOK, Goto, Seating, Entering, Nobody, Students
  <2>5. TurnInv'
    <3>1. /\ \A t \in Students : pc'[t] \in Unasked <=> pc[t] \in Unasked
          /\ \A t \in Students : pc'[t] \in Holding <=> pc[t] \in Holding
      BY <1>16 DEF StopStudying, Goto, TypeOK, Unasked, Holding, Arriving
    <3>2. sem' = sem
      BY <1>16 DEF StopStudying
    <3> QED  BY <3>1, <3>2 DEF TurnInv, Unasked, Holding, Arriving
  <2>6. TurnOrder'
    BY <1>16 DEF StopStudying, TurnOrder, TypeOK, Goto, Registered, Arriving
  <2>7. RefusedInv'
    BY <1>16 DEF StopStudying, RefusedInv, TypeOK, Goto, Waiting, Polling, Entering
  <2>8. AdmissionSafe'
    <3>1. \A t \in Students : pc'[t] # "admit"
      BY <1>16 DEF StopStudying, Goto, TypeOK, MutexInv, Seating, Entering, Nobody, Students
    <3> QED  BY <3>1 DEF AdmissionSafe
  <2> QED  BY <2>1, <2>2, <2>3, <2>4, <2>5, <2>6, <2>7, <2>8
<1>17. CASE TestEmpty(s)
  <2>1. SeatAccounting' /\ LineAccounting' /\ threadCounter' \in Nat /\ waitingLine' \in Nat
    <3> DEFINE to == IF threadCounter = 0 THEN "clear" ELSE "done"
    <3>1. Goto(s, "testEmpty", to)
      BY <1>17 DEF TestEmpty
    <3>2. to \in Location
      BY DEF Location, Waiting, Polling, Leaving
    <3>3. threadCounter' = threadCounter + Gain(to, OnSeat) - Gain("testEmpty", OnSeat)
      BY <1>17 DEF TestEmpty, room, TypeOK, Gain, OnSeat
    <3>4. waitingLine' = waitingLine + Gain(to, Counted) - Gain("testEmpty", Counted)
      BY <1>17 DEF TestEmpty, room, TypeOK, Gain, Counted, Leaving
    <3> HIDE DEF to
    <3> QED  BY <3>1, <3>2, <3>3, <3>4, AccountsMove
  <2>2. TypeOK'
    BY <1>17, <2>1 DEF TestEmpty, TypeOK, Goto, room, Location, Arriving, Seating, Waiting, Polling, Entering, Leaving, Nobody, Wild
  <2>3. MainInv'
    BY <1>17 DEF TestEmpty, MainInv, TypeOK, Goto
  <2>4. MutexInv'
    BY <1>17 DEF TestEmpty, MutexInv, TypeOK, Goto, Seating, Entering, Nobody, Students
  <2>5. TurnInv'
    <3>1. /\ \A t \in Students : pc'[t] \in Unasked <=> pc[t] \in Unasked
          /\ \A t \in Students : pc'[t] \in Holding <=> pc[t] \in Holding
      BY <1>17 DEF TestEmpty, Goto, TypeOK, Unasked, Holding, Arriving
    <3>2. sem' = sem
      BY <1>17 DEF TestEmpty, room
    <3> QED  BY <3>1, <3>2 DEF TurnInv, Unasked, Holding, Arriving
  <2>6. TurnOrder'
    BY <1>17 DEF TestEmpty, TurnOrder, TypeOK, Goto, Registered, Arriving, room
  <2>7. RefusedInv'
    BY <1>17 DEF TestEmpty, RefusedInv, TypeOK, Goto, room, Waiting, Polling, Entering
  <2>8. AdmissionSafe'
    BY <1>17 DEF TestEmpty, AdmissionSafe, MutexInv, Seating, Entering, TypeOK, Goto, room
  <2> QED  BY <2>1, <2>2, <2>3, <2>4, <2>5, <2>6, <2>7, <2>8
<1>18. CASE ClearFull(s)
  <2>1. SeatAccounting' /\ LineAccounting' /\ threadCounter' \in Nat /\ waitingLine' \in Nat
    <3>1. Goto(s, "clear", "done")
      BY <1>18 DEF ClearFull
    <3>2. "done" \in Location
      BY DEF Location, Arriving, Seating, Waiting, Polling, Entering, Leaving
    <3>3. threadCounter' = threadCounter + Gain("done", OnSeat) - Gain("clear", OnSeat)
      BY <1>18 DEF ClearFull, TypeOK, Gain, OnSeat
    <3>4. waitingLine' = waitingLine + Gain("done", Counted) - Gain("clear", Counted)
      BY <1>18 DEF ClearFull, TypeOK, Gain, Counted, Leaving
    <3> QED  BY <3>1, <3>2, <3>3, <3>4, AccountsMove
  <2>2. TypeOK'
    BY <1>18, <2>1 DEF ClearFull, TypeOK, Goto, Location, Arriving, Seating, Waiting, Polling, Entering, Leaving, Nobody, Wild
  <2>3. MainInv'
    BY <1>18 DEF ClearFull, MainInv, TypeOK, Goto
  <2>4. MutexInv'
    BY <1>18 DEF ClearFull, MutexInv, TypeOK, Goto, Seating, Entering, Nobody, Students
  <2>5. TurnInv'
    <3>1. /\ \A t \in Students : pc'[t] \in Unasked <=> pc[t] \in Unasked
          /\ \A t \in Students : pc'[t] \in Holding <=> pc[t] \in Holding
      BY <1>18 DEF ClearFull, Goto, TypeOK, Unasked, Holding, Arriving
    <3>2. sem' = sem
      BY <1>18 DEF ClearFull
    <3> QED  BY <3>1, <3>2 DEF TurnInv, Unasked, Holding, Arriving
  <2>6. TurnOrder'
    BY <1>18 DEF ClearFull, TurnOrder, TypeOK, Goto, Registered, Arriving
  <2>7. RefusedInv'
    BY <1>18 DEF ClearFull, RefusedInv, TypeOK, Goto, Waiting, Polling, Entering
  <2>8. AdmissionSafe'
    BY <1>18 DEF ClearFull, AdmissionSafe, MutexInv, Seating, Entering, TypeOK, Goto
  <2> QED  BY <2>1, <2>2, <2>3, <2>4, <2>5, <2>6, <2>7, <2>8
<1> QED  BY <1>1, <1>2, <1>3, <1>4, <1>5, <1>6, <1>7, <1>8, <1>9, <1>10, <1>11, <1>12, <1>13, <1>14, <1>15, <1>16, <1>17, <1>18 DEF Thread

(***************************************************************************)
(* The steps of main, and those after the process has ended.               *)
(***************************************************************************)
LEMMA MainStep ==
    ASSUME IInv, Main \/ CreateFails \/ UNCHANGED vars
    PROVE  IInv'
<1> USE DEF IInv
<1>1. CASE CreateStudent
  <2>1. pc[mainI] = "unborn" /\ mainI \in Students
    BY <1>1 DEF CreateStudent, MainInv, TypeOK, Students
  <2>2. Goto(mainI, "unborn", "turn")
    BY <1>1, <2>1 DEF CreateStudent, Goto
  <2>3. SeatAccounting' /\ LineAccounting'
    <3>1. "turn" \in Location
      BY DEF Location, Arriving
    <3>2. threadCounter' = threadCounter + Gain("turn", OnSeat) - Gain("unborn", OnSeat)
      BY <1>1 DEF CreateStudent, room, TypeOK, Gain, OnSeat
    <3>3. waitingLine' = waitingLine + Gain("turn", Counted) - Gain("unborn", Counted)
      BY <1>1 DEF CreateStudent, room, TypeOK, Gain, Counted, Leaving
    <3> QED  BY <2>1, <2>2, <3>1, <3>2, <3>3, AccountsMove
  <2>4. TypeOK'
    BY <1>1, <2>1, SizeAssumption DEF CreateStudent, room, TypeOK, Location, Arriving, Students
  <2>5. MainInv'
    BY <1>1, <2>1, SizeAssumption DEF CreateStudent, MainInv, TypeOK, Students
  <2>6. MutexInv'
    BY <1>1, <2>1, <2>2 DEF CreateStudent, Goto, MutexInv, TypeOK, Seating, Entering
  <2>7. TurnInv'
    <3>1. /\ \A t \in Students : pc'[t] \in Unasked <=> pc[t] \in Unasked
          /\ \A t \in Students : pc'[t] \in Holding <=> pc[t] \in Holding
      BY <2>1, <2>2 DEF Goto, TypeOK, Unasked, Holding, Arriving
    <3>2. sem' = sem
      BY <1>1 DEF CreateStudent, room
    <3> QED  BY <3>1, <3>2 DEF TurnInv, Unasked, Holding, Arriving
  <2>8. TurnOrder' /\ RefusedInv' /\ AdmissionSafe'
    BY <1>1, <2>1, <2>2 DEF CreateStudent, room, Goto, TurnOrder, RefusedInv, AdmissionSafe, TypeOK,
       Registered, Arriving, Waiting, Polling, Entering
  <2> QED  BY <2>3, <2>4, <2>5, <2>6, <2>7, <2>8
<1>2. ASSUME UNCHANGED <<pc, mutex, room, state, refused>>, mainPc' # "create",
             mainI' \in Students, mainPc' \in {"join", "free", "done", "failed"}, MainInv'
      PROVE  IInv'
  <2>1. /\ TypeOK' /\ MutexInv' /\ TurnInv' /\ TurnOrder' /\ RefusedInv' /\ AdmissionSafe'
    BY <1>2 DEF room, TypeOK, MutexInv, TurnInv, TurnOrder, RefusedInv, AdmissionSafe, Registered
  <2>2. SeatAccounting' /\ LineAccounting'
    BY <1>2 DEF room, SeatAccounting, LineAccounting, At
  <2> QED  BY <1>2, <2>1, <2>2
<1>3. CASE JoinStudent
  <2>1. mainI' \in Students /\ mainPc' \in {"join", "free"}
    BY <1>3, SizeAssumption DEF JoinStudent, TypeOK, Students
  <2>2. MainInv'
    BY <1>3, SizeAssumption DEF JoinStudent, MainInv, TypeOK, Students
  <2> QED  BY <1>2, <1>3, <2>1, <2>2 DEF JoinStudent
<1>4. CASE FreeRoom
  BY <1>2, <1>4 DEF FreeRoom, MainInv, TypeOK
<1>5. CASE CreateFails
  BY <1>2, <1>5 DEF CreateFails, MainInv, TypeOK
<1>6. CASE UNCHANGED vars
  <2>1. TypeOK' /\ MainInv' /\ MutexInv' /\ TurnInv' /\ TurnOrder' /\ RefusedInv' /\ AdmissionSafe'
    BY <1>6 DEF vars, room, TypeOK, MainInv, MutexInv, TurnInv, TurnOrder, RefusedInv, AdmissionSafe, Registered
  <2>2. SeatAccounting' /\ LineAccounting'
    BY <1>6 DEF vars, room, SeatAccounting, LineAccounting, At
  <2> QED  BY <2>1, <2>2
<1> QED  BY <1>1, <1>3, <1>4, <1>5, <1>6 DEF Main
--------------------------------------------------------------------------------
(***************************************************************************)
(* The theorems.  Each holds for every number of students and of seats,    *)
(* every interleaving, every duration of the sleeps, every value a stray   *)
(* store may leave in a semaphore, and every heap layout LayoutAssumption  *)
(* admits.                                                                 *)
(***************************************************************************)

\* The books of the room are right in every reachable state (thread_function
\* and workflow_manager, every interleaving).
THEOREM Invariance == Spec => []IInv
<1>1. IInv /\ [Next]_vars => IInv'
  <2> SUFFICES ASSUME IInv, [Next]_vars PROVE IInv'
    OBVIOUS
  <2>1. CASE \E s \in Students : Thread(s)
    BY <2>1, ThreadStep
  <2>2. CASE Main \/ CreateFails \/ UNCHANGED vars
    BY <2>2, MainStep
  <2> QED  BY <2>1, <2>2 DEF Next, Exited
<1> QED  BY InitIInv, <1>1, PTL DEF Spec

\* Every variable keeps its range; the counters never go below zero.
THEOREM Typing == Spec => []TypeOK
BY Invariance, PTL DEF IInv

\* Registration follows thread_id, and students[k] holds student k, although
\* the array is overrun into the semaphores that order it (threads.c:24-29).
THEOREM TurnsInOrder == Spec => []TurnOrder
BY Invariance, PTL DEF IInv

\* thread_counter is the number of seats taken (threads.c:46, 54, 72).
THEOREM SeatsCounted == Spec => []SeatAccounting
BY Invariance, PTL DEF IInv

\* waiting_line is the number of students that went past it (threads.c:45, 55).
THEOREM LineCounted == Spec => []LineAccounting
BY Invariance, PTL DEF IInv

\* The seat a student is shown at threads.c:31 is still there at line 54.
THEOREM AdmittedToASeat == Spec => []AdmissionSafe
BY Invariance, PTL DEF IInv

\* free_room is called when every thread has made its last access
\* (threads.c:77-78 against 124).
THEOREM FreedAfterUse == Spec => []RoomOutlivesThreads
<1>1. IInv => RoomOutlivesThreads
  BY DEF IInv, MainInv, RoomOutlivesThreads
<1> QED  BY Invariance, <1>1, PTL

\* The line never moves back, so the equality at threads.c:38 stays false for
\* a student the line has passed.
THEOREM NoSecondChance == Spec => OvertakenForever
<1>1. ASSUME IInv, [Next]_vars, NEW s \in Students, Overtaken(s) PROVE Overtaken(s)'
  <2>1. /\ waitingLine \in Nat /\ s \in Int
        /\ pc \in [Students -> Location] /\ pc[s] \in Waiting \ {"relock"} /\ waitingLine > s
    BY <1>1 DEF IInv, TypeOK, Overtaken, Students
  <2>2. CASE UNCHANGED vars
    BY <2>1, <2>2 DEF vars, room, Overtaken
  <2>3. CASE Main \/ CreateFails
    <3>1. waitingLine' = waitingLine
      BY <2>3 DEF Main, CreateStudent, JoinStudent, FreeRoom, CreateFails, room
    <3>2. \/ pc' = pc
          \/ mainPc = "create" /\ pc' = [pc EXCEPT ![mainI] = "turn"]
      BY <2>3 DEF Main, CreateStudent, JoinStudent, FreeRoom, CreateFails
    <3>3. mainPc = "create" => pc[mainI] = "unborn"
      BY <1>1 DEF IInv, MainInv, TypeOK, Students
    <3>4. pc'[s] = pc[s]
      BY <2>1, <3>2, <3>3 DEF Waiting, Polling
    <3> QED  BY <2>1, <3>1, <3>4 DEF Overtaken
  <2>4. CASE \E t \in Students : Thread(t)
    <3>1. PICK t \in Students : Thread(t)
      BY <2>4
    <3>2. waitingLine' >= waitingLine
      BY <2>1, <3>1 DEF Thread, TakeTurn, Register, RegisterIf, Admit, Advance, PostTurn, SitDown, PassTurn,
         MarkFull, TestFull, TestLine, Nap, RemarkFull, TakePlace, TakeSeat, RepostTurn, StopStudying,
         TestEmpty, ClearFull, room
    <3>3. pc'[s] \in Waiting \ {"relock"}
      <4>1. CASE t = s
        BY <2>1, <3>1, <4>1 DEF Thread, TakeTurn, Register, RegisterIf, Admit, Advance, PostTurn, SitDown,
           PassTurn, MarkFull, TestFull, TestLine, Nap, RemarkFull, TakePlace, TakeSeat, RepostTurn,
           StopStudying, TestEmpty, ClearFull, Goto, Waiting, Polling
      <4>2. CASE t # s
        <5>1. \E l \in Location : pc' = [pc EXCEPT ![t] = l]
          BY <3>1 DEF Thread, TakeTurn, Register, RegisterIf, Admit, Advance, PostTurn, SitDown,
             PassTurn, MarkFull, TestFull, TestLine, Nap, RemarkFull, TakePlace, TakeSeat, RepostTurn,
             StopStudying, TestEmpty, ClearFull, Goto, Location, Arriving, Seating, Waiting, Polling,
             Entering, Leaving
        <5> QED  BY <2>1, <4>2, <5>1
      <4> QED  BY <4>1, <4>2
    <3>4. waitingLine' \in Nat
      BY <1>1, <3>1, ThreadStep DEF IInv, TypeOK
    <3> QED  BY <2>1, <3>2, <3>3, <3>4 DEF Overtaken
  <2> QED  BY <1>1, <2>2, <2>3, <2>4 DEF Next, Exited
<1>2. IInv /\ [Next]_vars => [\A s \in Students : Overtaken(s) => Overtaken(s)']_vars
  BY <1>1
<1> QED  BY Invariance, <1>2, PTL DEF Spec, OvertakenForever

\* A room that hangs either lost the reset of is_full or overtook a student
\* (threads.c:36-43, 77-79): a counting argument on waiting_line.
THEOREM WaysToHang == Spec => []HangIsKnown
<1>1. ASSUME IInv,
             \A s \in Students : pc[s] \in {"testFull", "testLine", "nap", "done"},
             NEW p \in Students, pc[p] # "done"
      PROVE  \E s \in Students : pc[s] \in Polling /\ s <= waitingLine
  <2> SUFFICES ASSUME \A s \in Students : pc[s] \in Polling => s > waitingLine PROVE FALSE
    BY <1>1 DEF IInv, TypeOK, Students
  <2>1. waitingLine \in Nat /\ p > waitingLine /\ p \in 0 .. TotalStudents - 1 /\ TotalStudents \in Nat
    BY <1>1, SizeAssumption DEF IInv, TypeOK, Polling, Students
  <2>2. 0 .. waitingLine \subseteq At(Counted)
    BY <1>1, <2>1 DEF At, Counted, Leaving, Polling, Students
  <2>3. IsFiniteSet(At(Counted))
    <3>1. IsFiniteSet(Students)
      BY FS_Interval, SizeAssumption DEF Students
    <3> QED  BY <3>1, FS_Subset DEF At
  <2>4. Cardinality(0 .. waitingLine) = waitingLine + 1
    <3>1. 0 \in Int /\ waitingLine \in Int
      BY <2>1
    <3>2. Cardinality(0 .. waitingLine) = IF 0 > waitingLine THEN 0 ELSE waitingLine - 0 + 1
      BY ONLY <3>1, FS_Interval
    <3> QED  BY ONLY <2>1, <3>2
  <2>5. Cardinality(0 .. waitingLine) <= Cardinality(At(Counted))
    BY <2>2, <2>3, FS_Subset
  <2> QED  BY <1>1, <2>1, <2>4, <2>5 DEF IInv, LineAccounting
<1>2. IInv => HangIsKnown
  BY <1>1 DEF HangIsKnown
<1> QED  BY Invariance, <1>2, PTL
--------------------------------------------------------------------------------
(***************************************************************************)
(* ReadingRoom implements StudyVisits, for any number of students and of   *)
(* seats: the initial state maps to the initial state, and each step, from *)
(* a state that satisfies the inductive invariant, to one step or none.    *)
(***************************************************************************)
\* The student that reads in StudyVisits holds a seat in the room.
LEMMA ReadingIsSeated ==
    ASSUME TypeOK, SeatAccounting
    PROVE  Visits!Cardinality(Visits!Reading) = threadCounter
<1>1. \A s \in Students : PhaseOf(pc[s]) = "reading" <=> pc[s] \in OnSeat
  BY DEF TypeOK, PhaseOf, OnSeat, Location, Arriving, Seating, Waiting, Polling, Entering, Leaving
<1>2. Visits!Reading = At(OnSeat)
  BY <1>1 DEF Visits!Reading, Visits!Students, Students, Phase, At
<1>3. Visits!Cardinality(Visits!Reading) = Cardinality(Visits!Reading)
  BY DEF Visits!Cardinality, Visits!IsFiniteSet, Cardinality, IsFiniteSet
<1> QED  BY <1>2, <1>3 DEF SeatAccounting

\* While a student that was shown a seat has yet to take it, it is the last to have
\* registered, and the only one.
LEMMA LastAdmitted ==
    ASSUME IInv, NEW s \in Students, pc[s] = "admit"
    PROVE  currStudents = s + 1 /\ \A t \in Students : pc[t] = "admit" => t = s
<1>1. s < currStudents
  BY DEF IInv, TurnOrder, Registered, Arriving
<1>2. currStudents <= s + 1
  BY TurnHeld DEF IInv, Holding
<1>3. \A t \in Students : pc[t] = "admit" => t = s
  BY DEF IInv, MutexInv, Seating
<1> QED  BY <1>1, <1>2, <1>3 DEF IInv, TypeOK, Students

\* A thread that moves between two locations of the same phase, not from or to "admit",
\* makes no visible step.
LEMMA Unseen ==
    ASSUME TypeOK, NEW s \in Students, NEW from, NEW to, Goto(s, from, to),
           PhaseOf(from) = PhaseOf(to), from # "admit", to # "admit",
           currStudents' = currStudents, mainPc' = mainPc
    PROVE  UNCHANGED <<Arrived, Phase, Status>>
<1>1. \A t \in Students : pc'[t] = IF t = s THEN to ELSE pc[t]
  BY DEF Goto, TypeOK
<1>2. pc[s] = from
  BY DEF Goto
<1>3. Arrived' = Arrived
  BY <1>1, <1>2 DEF Arrived
<1>4. Phase' = Phase
  BY <1>1, <1>2 DEF Phase
<1> QED  BY <1>3, <1>4 DEF Status

\* A thread that moves from one phase to another.
LEMMA Seen ==
    ASSUME TypeOK, NEW s \in Students, NEW from, NEW to, Goto(s, from, to), mainPc' = mainPc
    PROVE  /\ Phase[s] = PhaseOf(from) /\ Phase' = [Phase EXCEPT ![s] = PhaseOf(to)]
           /\ Status' = Status
<1>1. \A t \in Students : pc'[t] = IF t = s THEN to ELSE pc[t]
  BY DEF Goto, TypeOK
<1>2. pc[s] = from
  BY DEF Goto
<1> QED  BY <1>1, <1>2 DEF Phase, Status

LEMMA InitVisits == Init => Visits!Init
BY DEF Init, Visits!Init, Visits!Students, Students, Arrived, Phase, Status, PhaseOf, Arriving

LEMMA ThreadVisits ==
    ASSUME IInv, Running, NEW s \in Students, Thread(s)
    PROVE  Visits!Next \/ UNCHANGED <<Arrived, Phase, Status>>
<1> USE DEF IInv
<1>0. Status = "open" /\ s \in Visits!Students
  BY DEF Running, Status, Visits!Students, Students
<1>1. CASE Register(s)
  <2>1. /\ pc[s] = "register" /\ mutex = Nobody /\ mainPc' = mainPc
        /\ currStudents' = currStudents + 1
    BY <1>1 DEF Register, RegisterIf
  <2>2. \A t \in Students : pc[t] # "admit"
    BY <2>1 DEF MutexInv, Seating, Entering, Nobody, Students
  <2>3. Arrived = currStudents
    BY <2>2 DEF Arrived
  <2>4. CASE threadCounter >= MaxConcurrent
    <3>1. Goto(s, "register", "pass")
      BY <1>1, <2>4 DEF Register, RegisterIf, Goto
    <3>2. s = Arrived
      BY <2>1, <2>3, RegistersNext
    <3>3. Arrived' = Arrived + 1
      <4>1. \A t \in Students : pc'[t] # "admit"
        BY <2>2, <3>1 DEF Goto, TypeOK
      <4> QED  BY <2>1, <2>3, <4>1 DEF Arrived
    <3>4. Visits!Move(s, "away", "queued") /\ Status' = Status
      BY <2>1, <3>1, Seen DEF Visits!Move, PhaseOf, Arriving, Waiting
    <3>5. Visits!Cardinality(Visits!Reading) >= MaxConcurrent
      BY <2>4, ReadingIsSeated
    <3>6. Visits!ArriveRefused(s)
      BY <3>2, <3>3, <3>4, <3>5 DEF Visits!ArriveRefused
    <3> QED  BY <1>0, <3>6 DEF Visits!Next
  <2>5. CASE ~(threadCounter >= MaxConcurrent)
    <3>1. Goto(s, "register", "admit")
      BY <1>1, <2>5 DEF Register, RegisterIf, Goto
    <3>2. Arrived' = Arrived
      <4>1. pc'[s] = "admit"
        BY <3>1 DEF Goto, TypeOK
      <4>2. Arrived' = currStudents' - 1
        BY <4>1 DEF Arrived
      <4> QED  BY <2>1, <2>3, <4>2 DEF TypeOK
    <3>3. Phase' = Phase /\ Status' = Status
      <4>1. /\ Phase[s] = PhaseOf("register") /\ Phase' = [Phase EXCEPT ![s] = PhaseOf("admit")]
            /\ Status' = Status
        BY <2>1, <3>1, Seen
      <4>2. PhaseOf("register") = PhaseOf("admit")
        BY DEF PhaseOf, Arriving
      <4>3. Phase' = [Phase EXCEPT ![s] = Phase[s]]
        BY <4>1, <4>2
      <4> QED  BY <4>1, <4>3 DEF Phase
    <3> QED  BY <3>2, <3>3
  <2> QED  BY <2>4, <2>5
<1>2. CASE Admit(s)
  <2>1. Goto(s, "admit", "advance") /\ currStudents' = currStudents /\ mainPc' = mainPc
    BY <1>2 DEF Admit
  <2>2. pc[s] = "admit"
    BY <2>1 DEF Goto
  <2>3. currStudents = s + 1 /\ \A t \in Students : pc[t] = "admit" => t = s
    BY <2>2, LastAdmitted
  <2>4. s = Arrived
    BY <2>2, <2>3 DEF Arrived, Students
  <2>5. Arrived' = Arrived + 1
    <3>1. \A t \in Students : pc'[t] # "admit"
      BY <2>1, <2>3 DEF Goto, TypeOK
    <3> QED  BY <2>1, <2>3, <2>4, <3>1 DEF Arrived, Students
  <2>6. Visits!Move(s, "away", "reading") /\ Status' = Status
    BY <2>1, Seen DEF Visits!Move, PhaseOf, Arriving, Waiting, Polling, Leaving
  <2>7. Visits!Cardinality(Visits!Reading) < MaxConcurrent
    BY <2>2, ReadingIsSeated DEF AdmissionSafe
  <2>8. Visits!ArriveSeated(s)
    BY <2>4, <2>5, <2>6, <2>7 DEF Visits!ArriveSeated
  <2> QED  BY <1>0, <2>8 DEF Visits!Next
<1>3. CASE TakeSeat(s) \/ StopStudying(s)
  <2>1. \E from, to : /\ Goto(s, from, to) /\ from # "admit" /\ to # "admit"
                      /\ \/ PhaseOf(from) = "queued" /\ PhaseOf(to) = "reading"
                         \/ PhaseOf(from) = "reading" /\ PhaseOf(to) = "gone"
    BY <1>3 DEF TakeSeat, StopStudying, PhaseOf, Arriving, Waiting, Polling, Leaving
  <2>2. PICK from, to : /\ Goto(s, from, to) /\ from # "admit" /\ to # "admit"
                        /\ \/ PhaseOf(from) = "queued" /\ PhaseOf(to) = "reading"
                           \/ PhaseOf(from) = "reading" /\ PhaseOf(to) = "gone"
    BY <2>1
  <2>3. currStudents' = currStudents /\ mainPc' = mainPc
    BY <1>3 DEF TakeSeat, StopStudying
  <2>4. Arrived' = Arrived
    <3>1. \A t \in Students : pc'[t] = IF t = s THEN to ELSE pc[t]
      BY <2>2 DEF Goto, TypeOK
    <3>2. pc[s] = from
      BY <2>2 DEF Goto
    <3> QED  BY <2>2, <2>3, <3>1, <3>2 DEF Arrived
  <2>5. /\ Phase[s] = PhaseOf(from) /\ Phase' = [Phase EXCEPT ![s] = PhaseOf(to)]
        /\ Status' = Status
    BY <2>2, <2>3, Seen
  <2>6. Visits!BeSeated(s) \/ Visits!Leave(s)
    BY <2>2, <2>4, <2>5 DEF Visits!BeSeated, Visits!Leave, Visits!Move
  <2> QED  BY <1>0, <2>6 DEF Visits!Next
<1>4. CASE \/ TakeTurn(s) \/ Advance(s) \/ PostTurn(s) \/ SitDown(s) \/ PassTurn(s) \/ MarkFull(s)
           \/ TestFull(s) \/ TestLine(s) \/ Nap(s) \/ RemarkFull(s) \/ TakePlace(s)
           \/ RepostTurn(s) \/ TestEmpty(s) \/ ClearFull(s)
  <2>1. \E from, to : /\ Goto(s, from, to) /\ from # "admit" /\ to # "admit"
                      /\ PhaseOf(from) = PhaseOf(to)
    BY <1>4 DEF TakeTurn, Advance, PostTurn, SitDown, PassTurn, MarkFull, TestFull, TestLine, Nap,
       RemarkFull, TakePlace, RepostTurn, TestEmpty, ClearFull, PhaseOf, Arriving, Waiting, Polling, Leaving
  <2>2. currStudents' = currStudents /\ mainPc' = mainPc
    BY <1>4 DEF TakeTurn, Advance, PostTurn, SitDown, PassTurn, MarkFull, TestFull, TestLine, Nap,
       RemarkFull, TakePlace, RepostTurn, TestEmpty, ClearFull, room
  <2> QED  BY <2>1, <2>2, Unseen
<1> QED  BY <1>1, <1>2, <1>3, <1>4 DEF Thread

LEMMA MainVisits ==
    ASSUME IInv, Running, Main \/ CreateFails
    PROVE  Visits!Next \/ UNCHANGED <<Arrived, Phase, Status>>
<1> USE DEF IInv
<1>0. Status = "open"
  BY DEF Running, Status
<1>1. CASE CreateStudent
  <2>1. mainI \in Students /\ Goto(mainI, "unborn", "turn")
    BY <1>1 DEF CreateStudent, MainInv, TypeOK, Goto, Students
  <2>2. mainPc' \in {"create", "join"} /\ mainPc = "create" /\ currStudents' = currStudents
    BY <1>1 DEF CreateStudent, room
  <2>3. \A t \in Students : pc'[t] = IF t = mainI THEN "turn" ELSE pc[t]
    BY <2>1 DEF Goto, TypeOK
  <2>4. pc[mainI] = "unborn"
    BY <2>1 DEF Goto
  <2>5. Arrived' = Arrived /\ Phase' = Phase
    BY <2>1, <2>2, <2>3, <2>4 DEF Arrived, Phase, PhaseOf, Arriving
  <2> QED  BY <2>2, <2>5 DEF Status
<1>2. CASE CreateFails
  <2>1. /\ mainPc = "create" /\ mainPc' = "failed" /\ pc' = pc /\ currStudents' = currStudents
    BY <1>2 DEF CreateFails, room
  <2>2. mainI \in Visits!Students /\ Phase[mainI] = "away"
    BY <2>1 DEF MainInv, TypeOK, Phase, PhaseOf, Arriving, Visits!Students, Students
  <2>3. Visits!Abort
    BY <2>1, <2>2 DEF Visits!Abort, Arrived, Phase, Status
  <2> QED  BY <1>0, <2>3 DEF Visits!Next
<1>3. CASE JoinStudent
  BY <1>3 DEF JoinStudent, room, Arrived, Phase, Status
<1>4. CASE FreeRoom
  <2>1. /\ mainPc = "free" /\ mainPc' = "done" /\ pc' = pc /\ currStudents' = currStudents
    BY <1>4 DEF FreeRoom, room
  <2>2. \A s \in Visits!Students : Phase[s] = "gone"
    BY <2>1 DEF MainInv, Phase, PhaseOf, Arriving, Waiting, Polling, Leaving, Visits!Students, Students
  <2>3. Visits!Close
    BY <2>1, <2>2 DEF Visits!Close, Arrived, Phase, Status
  <2> QED  BY <1>0, <2>3 DEF Visits!Next
<1> QED  BY <1>1, <1>2, <1>3, <1>4 DEF Main

\* Whatever the interleaving, the room does what StudyVisits says: the students arrive in
\* order, each decision on arrival is as if it were made at once, nobody is seated twice,
\* and the room closes when all have left (threads.c:22-80, 96-125).
THEOREM ImplementsStudyVisits == Spec => ImplementsVisits
<1>1. ASSUME IInv, [Next]_vars PROVE [Visits!Next]_(Visits!visits)
  <2>1. CASE UNCHANGED vars
    BY <2>1 DEF vars, room, Visits!visits, Arrived, Phase, Status
  <2>2. CASE Running /\ (Main \/ CreateFails)
    BY <1>1, <2>2, MainVisits DEF Visits!visits
  <2>3. CASE Running /\ \E s \in Students : Thread(s)
    BY <1>1, <2>3, ThreadVisits DEF Visits!visits
  <2> QED  BY <1>1, <2>1, <2>2, <2>3 DEF Next, Exited
<1> QED  BY InitVisits, Invariance, <1>1, PTL DEF Spec, ImplementsVisits, Visits!Spec
--------------------------------------------------------------------------------
(***************************************************************************)
(* What the room guarantees under the program's timing, for any number of  *)
(* students and of seats: PInv is inductive under PunctualSpec.            *)
(*                                                                         *)
(* The visits fall into two parts.  Until everybody has registered and is  *)
(* seated or polls, nobody leaves: the room fills up, is_full goes up with *)
(* the first refusal and stays up.  It comes down when the first batch has *)
(* left, and from then on only the refused, one by one, get past the line. *)
(***************************************************************************)
\* Those who were seated on arrival have all come and gone.
BatchGone == AllArrived /\ \A s \in Students \ refused : pc[s] \in Leaving

\* Refused students that the polling loop has not yet let through.
Held == Waiting \ {"testLine", "relock"}

LeaveInv  == (\E s \in Students : pc[s] \in Leaving) => AllArrived
FullInv   == /\ (\E s \in Students : pc[s] \in Polling) /\ isFull = 0 => BatchGone
             /\ (\E s \in Students : pc[s] = "clear") => BatchGone
HeldInv   == \A r \in refused : pc[r] \in Held \/ BatchGone
NoSeatInv == refused # {} => AllArrived \/ threadCounter >= MaxConcurrent
FirstInv  == (\E s \in Students : pc[s] \in {"admit", "advance"}) => refused = {}
RelockInv == \A s \in Students : pc[s] = "relock" => waitingLine = s
FillInv   == BatchGone \/ threadCounter <= MaxConcurrent

PInv == /\ LeaveInv /\ FullInv /\ HeldInv /\ NoSeatInv /\ FirstInv
        /\ RelockInv /\ QueueOrder /\ FillInv
--------------------------------------------------------------------------------
LEMMA ThreadMoves ==
    ASSUME IInv, NEW s \in Students, Thread(s)
    PROVE  \A t \in Students : t # s => pc'[t] = pc[t]
<1>1. \E to \in Location : pc' = [pc EXCEPT ![s] = to]
  BY DEF Thread, TakeTurn, Register, RegisterIf, Admit, Advance, PostTurn, SitDown,
     PassTurn, MarkFull, TestFull, TestLine, Nap, RemarkFull, TakePlace, TakeSeat, RepostTurn,
     StopStudying, TestEmpty, ClearFull, Goto, Location, Arriving, Seating, Waiting, Polling,
     Entering, Leaving
<1> QED  BY <1>1 DEF IInv, TypeOK

\* Nobody comes back: once all have arrived, and once the first batch has gone, it stays so.
LEMMA PartsLast ==
    ASSUME IInv, NEW s \in Students, Thread(s)
    PROVE  (AllArrived => AllArrived') /\ (BatchGone => BatchGone')
<1>1. \A t \in Students : t # s => pc'[t] = pc[t]
  BY ThreadMoves
<1>2. pc'[s] \in Arriving \cup Seating \cup {"pass", "mark"} =>
         pc[s] \in Arriving \cup Seating \cup {"pass", "mark"}
  BY DEF IInv, TypeOK, Thread, TakeTurn, Register, RegisterIf, Admit, Advance, PostTurn, SitDown,
     PassTurn, MarkFull, TestFull, TestLine, Nap, RemarkFull, TakePlace, TakeSeat, RepostTurn,
     StopStudying, TestEmpty, ClearFull, Goto, Arriving, Seating, Leaving
<1>3. pc[s] \in Leaving => pc'[s] \in Leaving
  BY DEF IInv, TypeOK, Thread, TakeTurn, Register, RegisterIf, Admit, Advance, PostTurn, SitDown,
     PassTurn, MarkFull, TestFull, TestLine, Nap, RemarkFull, TakePlace, TakeSeat, RepostTurn,
     StopStudying, TestEmpty, ClearFull, Goto, Leaving
<1>4. refused \subseteq refused'
  BY DEF Thread, TakeTurn, Register, RegisterIf, Admit, Advance, PostTurn, SitDown,
     PassTurn, MarkFull, TestFull, TestLine, Nap, RemarkFull, TakePlace, TakeSeat, RepostTurn,
     StopStudying, TestEmpty, ClearFull
<1>5. AllArrived => AllArrived'
  BY <1>1, <1>2 DEF AllArrived
<1> QED  BY <1>1, <1>3, <1>4, <1>5 DEF BatchGone

\* A move that touches none of the shared variables, and enters none of the places PInv
\* speaks of, preserves it.
LEMMA QuietMove ==
    ASSUME IInv, PInv, NEW s \in Students, Thread(s),
           UNCHANGED <<isFull, threadCounter, waitingLine, refused>>,
           pc'[s] \in Leaving => pc[s] \in Leaving,
           pc'[s] \in Polling => pc[s] \in Polling,
           pc'[s] = "clear" => pc[s] = "clear",
           pc[s] \in Held => pc'[s] \in Held,
           pc'[s] \in {"admit", "advance"} => pc[s] \in {"admit", "advance"},
           pc'[s] = "relock" => pc[s] = "relock",
           pc'[s] \in Waiting => pc[s] \in Waiting
    PROVE  PInv'
<1> USE DEF PInv
<1>1. \A t \in Students : t # s => pc'[t] = pc[t]
  BY ThreadMoves
<1>2. (AllArrived => AllArrived') /\ (BatchGone => BatchGone')
  BY PartsLast
<1>3. LeaveInv'  BY <1>1, <1>2 DEF LeaveInv
<1>4. FullInv'   BY <1>1, <1>2 DEF FullInv
<1>5. HeldInv'
  <2>1. refused \subseteq Students
    BY DEF IInv, TypeOK
  <2> QED  BY <1>1, <1>2, <2>1 DEF HeldInv
<1>6. NoSeatInv' BY <1>2 DEF NoSeatInv
<1>7. FirstInv'  BY <1>1 DEF FirstInv
<1>8. RelockInv' BY <1>1 DEF RelockInv
<1>9. QueueOrder' BY <1>1 DEF QueueOrder
<1>10. FillInv'  BY <1>2 DEF FillInv
<1> QED  BY <1>3, <1>4, <1>5, <1>6, <1>7, <1>8, <1>9, <1>10

\* The line is not ahead of the student that registers.
LEMMA LineBehind ==
    ASSUME IInv, NEW s \in Students, pc[s] = "register"
    PROVE  waitingLine <= s
<1> USE DEF IInv
<1>1. s = currStudents
  BY RegistersNext
<1>2. At(Counted) \subseteq 0 .. s - 1
  BY <1>1, SizeAssumption DEF At, Counted, Leaving, TurnOrder, Registered, Arriving, Students
<1>3. IsFiniteSet(0 .. s - 1) /\ Cardinality(0 .. s - 1) = s
  <2>1. s \in Nat /\ 0 \in Int /\ s - 1 \in Int
    BY SizeAssumption DEF Students
  <2>2. /\ IsFiniteSet(0 .. s - 1)
        /\ Cardinality(0 .. s - 1) = IF 0 > s - 1 THEN 0 ELSE (s - 1) - 0 + 1
    BY ONLY <2>1, FS_Interval
  <2> QED  BY ONLY <2>1, <2>2
<1>4. Cardinality(At(Counted)) <= s
  BY <1>2, <1>3, FS_Subset
<1> QED  BY <1>4 DEF LineAccounting

\* When nobody holds a seat and nobody is still to come, the first batch has gone.
LEMMA EmptyMeansGone ==
    ASSUME IInv, AllArrived, threadCounter = 0
    PROVE  BatchGone
<1> USE DEF IInv
<1>1. At(OnSeat) = {}
  <2>1. IsFiniteSet(Students)
    BY FS_Interval, SizeAssumption DEF Students
  <2>2. IsFiniteSet(At(OnSeat))
    BY <2>1, FS_Subset DEF At
  <2> QED  BY <2>2, FS_EmptySet DEF SeatAccounting
<1>2. ASSUME NEW t \in Students \ refused PROVE pc[t] \in Leaving
  <2>1. pc[t] \notin Arriving \cup Seating \cup Waiting \cup Entering
    BY DEF AllArrived, RefusedInv
  <2>2. pc[t] # "study"
    BY <1>1 DEF At, OnSeat
  <2> QED  BY <2>1, <2>2 DEF TypeOK, Location
<1> QED  BY <1>2 DEF BatchGone
--------------------------------------------------------------------------------
LEMMA InitPInv == Init => PInv
<1> SUFFICES ASSUME Init PROVE PInv
  OBVIOUS
<1>1. /\ \A s \in Students : pc[s] = "unborn"
      /\ threadCounter = 0 /\ refused = {} /\ 0 <= MaxConcurrent
  BY SizeAssumption DEF Init
<1>2. LeaveInv /\ FullInv /\ FirstInv /\ RelockInv
  BY <1>1 DEF LeaveInv, FullInv, FirstInv, RelockInv, Leaving, Polling
<1>3. HeldInv /\ NoSeatInv
  BY <1>1 DEF HeldInv, NoSeatInv
<1>4. QueueOrder
  BY <1>1 DEF QueueOrder, Waiting, Polling
<1>5. FillInv
  BY <1>1 DEF FillInv
<1> QED  BY <1>2, <1>3, <1>4, <1>5 DEF PInv

LEMMA PunctualThread ==
    ASSUME IInv, PInv, NEW s \in Students, Thread(s), Punctual
    PROVE  PInv'
<1> USE DEF PInv
<1>a. \A t \in Students : t # s => pc'[t] = pc[t]
  BY ThreadMoves
<1>b. (AllArrived => AllArrived') /\ (BatchGone => BatchGone')
  BY PartsLast
<1>c. /\ pc \in [Students -> Location] /\ refused \subseteq Students
      /\ waitingLine \in Nat /\ threadCounter \in Nat /\ isFull \in {0, 1}
      /\ MaxConcurrent \in Nat /\ \A t \in Students : t \in Nat
  BY SizeAssumption DEF IInv, TypeOK, Students
<1>1. CASE Register(s)
  <2>1. /\ pc[s] = "register" /\ mutex = Nobody
        /\ UNCHANGED <<threadCounter, waitingLine, isFull>>
        /\ \/ threadCounter >= MaxConcurrent /\ pc'[s] = "pass" /\ refused' = refused \cup {s}
           \/ threadCounter < MaxConcurrent /\ pc'[s] = "admit" /\ refused' = refused
    BY <1>1, <1>c DEF Register, RegisterIf
  <2>2. ~AllArrived
    BY <2>1 DEF AllArrived, Arriving
  <2>3. LeaveInv'
    BY <1>a, <1>b, <2>1 DEF LeaveInv, Leaving
  <2>4. FullInv'
    BY <1>a, <1>b, <2>1 DEF FullInv, Polling
  <2>5. HeldInv'
    <3> SUFFICES ASSUME NEW r \in refused' PROVE pc'[r] \in Held \/ BatchGone'
      BY DEF HeldInv
    <3>1. CASE r \in refused /\ r # s
      BY <1>a, <1>b, <1>c, <3>1 DEF HeldInv
    <3>2. CASE r \in refused /\ r = s
      BY <1>b, <2>1, <3>2 DEF HeldInv, Held, Waiting, Polling
    <3>3. CASE r \notin refused
      BY <2>1, <3>3 DEF Held, Waiting
    <3> QED  BY <3>1, <3>2, <3>3
  <2>6. NoSeatInv'
    BY <1>b, <2>1 DEF NoSeatInv
  <2>7. FirstInv'
    <3>1. \A t \in Students : pc[t] \notin Seating
      BY <2>1 DEF IInv, MutexInv, Nobody, Students
    <3>2. \A t \in Students : t # s => pc'[t] \notin {"admit", "advance"}
      BY <1>a, <3>1 DEF Seating
    <3>3. threadCounter < MaxConcurrent => refused = {}
      BY <1>c, <2>2 DEF NoSeatInv
    <3> QED  BY <2>1, <3>2, <3>3 DEF FirstInv
  <2>8. RelockInv'
    BY <1>a, <2>1 DEF RelockInv
  <2>9. QueueOrder'
    BY <1>a, <2>1, LineBehind DEF QueueOrder, Waiting, Polling
  <2>10. FillInv'
    BY <1>b, <2>1 DEF FillInv
  <2> QED  BY <2>3, <2>4, <2>5, <2>6, <2>7, <2>8, <2>9, <2>10
<1>2. CASE Admit(s)
  <2>1. /\ pc[s] = "admit" /\ pc'[s] = "advance" /\ threadCounter' = threadCounter + 1
        /\ UNCHANGED <<waitingLine, isFull, refused>>
    BY <1>2, <1>c DEF Admit, Goto
  <2>2. refused = {}
    BY <2>1 DEF FirstInv
  <2>3. LeaveInv'
    BY <1>a, <1>b, <2>1 DEF LeaveInv, Leaving
  <2>4. FullInv'
    BY <1>a, <1>b, <2>1 DEF FullInv, Polling
  <2>5. HeldInv' /\ NoSeatInv' /\ FirstInv'
    BY <2>1, <2>2 DEF HeldInv, NoSeatInv, FirstInv
  <2>6. RelockInv'
    BY <1>a, <2>1 DEF RelockInv
  <2>7. QueueOrder'
    BY <1>a, <2>1 DEF QueueOrder, Waiting, Polling
  <2>8. FillInv'
    BY <1>c, <2>1 DEF FillInv, IInv, AdmissionSafe
  <2> QED  BY <2>3, <2>4, <2>5, <2>6, <2>7, <2>8
<1>3. CASE Advance(s)
  <2>1. /\ pc[s] = "advance" /\ pc'[s] = "post" /\ UNCHANGED <<threadCounter, isFull, refused>>
    BY <1>3, <1>c DEF Advance, Goto
  <2>2. refused = {} /\ \A t \in Students : pc[t] \notin Waiting
    BY <2>1 DEF FirstInv, IInv, RefusedInv
  <2>3. LeaveInv'
    BY <1>a, <1>b, <2>1 DEF LeaveInv, Leaving
  <2>4. FullInv'
    BY <1>a, <1>b, <2>1 DEF FullInv, Polling
  <2>5. HeldInv' /\ NoSeatInv' /\ FirstInv'
    BY <2>1, <2>2 DEF HeldInv, NoSeatInv, FirstInv
  <2>6. RelockInv' /\ QueueOrder'
    BY <1>a, <2>1, <2>2 DEF RelockInv, QueueOrder, Waiting, Polling
  <2>7. FillInv'
    BY <1>b, <2>1 DEF FillInv
  <2> QED  BY <2>3, <2>4, <2>5, <2>6, <2>7
<1>4. CASE MarkFull(s) \/ RemarkFull(s)
  <2>1. /\ pc[s] \in {"mark", "remark"} /\ pc'[s] = "testFull" /\ isFull' = 1
        /\ UNCHANGED <<threadCounter, waitingLine, refused>>
    BY <1>4, <1>c DEF MarkFull, RemarkFull, Goto
  <2>2. LeaveInv'
    BY <1>a, <1>b, <2>1 DEF LeaveInv, Leaving
  <2>3. FullInv'
    BY <1>a, <1>b, <2>1 DEF FullInv
  <2>4. HeldInv'
    BY <1>a, <1>b, <1>c, <2>1 DEF HeldInv, Held, Waiting, Polling
  <2>5. NoSeatInv' /\ FillInv'
    BY <1>b, <2>1 DEF NoSeatInv, FillInv
  <2>6. FirstInv' /\ RelockInv'
    BY <1>a, <2>1 DEF FirstInv, RelockInv
  <2>7. QueueOrder'
    BY <1>a, <2>1 DEF QueueOrder, Waiting, Polling
  <2> QED  BY <2>2, <2>3, <2>4, <2>5, <2>6, <2>7
<1>5. CASE TestFull(s) \/ TestLine(s)
  <2>1. /\ UNCHANGED <<isFull, threadCounter, waitingLine, refused>>
        /\ \/ pc[s] = "testFull" /\ isFull = 1 /\ pc'[s] = "nap"
           \/ pc[s] = "testFull" /\ isFull = 0 /\ pc'[s] = "testLine"
           \/ pc[s] = "testLine" /\ pc'[s] = "nap"
           \/ pc[s] = "testLine" /\ waitingLine = s /\ pc'[s] = "relock"
    BY <1>5, <1>c DEF TestFull, TestLine, Goto, room
  <2>2. pc[s] = "testLine" => BatchGone
    BY DEF HeldInv, Held, IInv, RefusedInv, Waiting, Polling
  <2>3. pc[s] = "testFull" /\ isFull = 0 => BatchGone
    BY DEF FullInv, Polling
  <2>4. LeaveInv'
    BY <1>a, <1>b, <2>1 DEF LeaveInv, Leaving
  <2>5. FullInv'
    BY <1>a, <1>b, <2>1, <2>2, <2>3 DEF FullInv, Polling
  <2>6. HeldInv'
    BY <1>a, <1>b, <1>c, <2>1, <2>2, <2>3 DEF HeldInv, Held, Waiting, Polling
  <2>7. NoSeatInv' /\ FillInv'
    BY <1>b, <2>1 DEF NoSeatInv, FillInv
  <2>8. FirstInv' /\ RelockInv'
    BY <1>a, <2>1 DEF FirstInv, RelockInv
  <2>9. QueueOrder'
    BY <1>a, <2>1 DEF QueueOrder, Waiting, Polling
  <2> QED  BY <2>4, <2>5, <2>6, <2>7, <2>8, <2>9
<1>6. CASE TakePlace(s)
  <2>1. /\ pc[s] = "relock" /\ pc'[s] = "reseat" /\ waitingLine' = waitingLine + 1
        /\ UNCHANGED <<isFull, threadCounter, refused>>
    BY <1>6, <1>c DEF TakePlace, Goto
  <2>2. BatchGone /\ waitingLine = s
    BY <2>1 DEF HeldInv, Held, IInv, RefusedInv, Waiting, RelockInv
  <2>3. LeaveInv' /\ NoSeatInv' /\ FillInv'
    BY <1>b, <2>2 DEF LeaveInv, NoSeatInv, FillInv, BatchGone
  <2>4. FullInv' /\ HeldInv'
    BY <1>b, <2>2 DEF FullInv, HeldInv
  <2>5. FirstInv'
    BY <1>a, <2>1 DEF FirstInv
  <2>6. RelockInv' /\ QueueOrder'
    BY <1>a, <1>c, <2>1, <2>2 DEF RelockInv, QueueOrder, Waiting, Polling
  <2> QED  BY <2>3, <2>4, <2>5, <2>6
<1>7. CASE TakeSeat(s)
  <2>1. /\ pc[s] = "reseat" /\ pc'[s] = "repost" /\ UNCHANGED <<isFull, waitingLine, refused>>
    BY <1>7, <1>c DEF TakeSeat, Goto
  <2>2. BatchGone
    BY <2>1 DEF HeldInv, Held, IInv, RefusedInv, Waiting, Polling, Entering
  <2>3. LeaveInv' /\ NoSeatInv' /\ FillInv'
    BY <1>b, <2>2 DEF LeaveInv, NoSeatInv, FillInv, BatchGone
  <2>4. FullInv' /\ HeldInv'
    BY <1>b, <2>2 DEF FullInv, HeldInv
  <2>5. FirstInv' /\ RelockInv'
    BY <1>a, <2>1 DEF FirstInv, RelockInv
  <2>6. QueueOrder'
    BY <1>a, <2>1 DEF QueueOrder, Waiting, Polling
  <2> QED  BY <2>3, <2>4, <2>5, <2>6
<1>8. CASE StopStudying(s)
  <2>1. /\ pc[s] = "study" /\ pc'[s] = "testEmpty" /\ threadCounter' = threadCounter - 1
        /\ UNCHANGED <<isFull, waitingLine, refused>>
    BY <1>8, <1>c DEF StopStudying, Goto
  <2>2. AllArrived
    BY <2>1 DEF Punctual
  <2>3. LeaveInv' /\ NoSeatInv'
    BY <1>b, <2>2 DEF LeaveInv, NoSeatInv
  <2>4. FillInv'
    BY <1>b, <1>c, <2>1 DEF FillInv
  <2>5. FullInv'
    BY <1>a, <1>b, <2>1 DEF FullInv, Polling
  <2>6. HeldInv'
    BY <1>a, <1>b, <1>c, <2>1 DEF HeldInv, Held, Waiting, Polling
  <2>7. FirstInv' /\ RelockInv'
    BY <1>a, <2>1 DEF FirstInv, RelockInv
  <2>8. QueueOrder'
    BY <1>a, <2>1 DEF QueueOrder, Waiting, Polling
  <2> QED  BY <2>3, <2>4, <2>5, <2>6, <2>7, <2>8
<1>9. CASE TestEmpty(s) \/ ClearFull(s)
  <2>1. /\ UNCHANGED <<threadCounter, waitingLine, refused>>
        /\ \/ pc[s] = "testEmpty" /\ threadCounter = 0 /\ pc'[s] = "clear" /\ isFull' = isFull
           \/ pc[s] = "testEmpty" /\ pc'[s] = "done" /\ isFull' = isFull
           \/ pc[s] = "clear" /\ pc'[s] = "done" /\ isFull' = 0
    BY <1>9, <1>c DEF TestEmpty, ClearFull, Goto, room
  <2>2. AllArrived
    BY <2>1 DEF LeaveInv, Leaving
  <2>3. pc'[s] = "clear" => BatchGone
    BY <2>1, <2>2, EmptyMeansGone
  <2>4. pc[s] = "clear" => BatchGone
    BY DEF FullInv
  <2>5. LeaveInv' /\ NoSeatInv'
    BY <1>b, <2>2 DEF LeaveInv, NoSeatInv
  <2>6. FillInv'
    BY <1>b, <2>1 DEF FillInv
  <2>7. FullInv'
    BY <1>a, <1>b, <2>1, <2>3, <2>4 DEF FullInv, Polling
  <2>8. HeldInv'
    BY <1>a, <1>b, <1>c, <2>1 DEF HeldInv, Held, Waiting, Polling
  <2>9. FirstInv' /\ RelockInv'
    BY <1>a, <2>1 DEF FirstInv, RelockInv
  <2>10. QueueOrder'
    BY <1>a, <2>1 DEF QueueOrder, Waiting, Polling
  <2> QED  BY <2>5, <2>6, <2>7, <2>8, <2>9, <2>10
<1>10. CASE TakeTurn(s) \/ PostTurn(s) \/ SitDown(s) \/ PassTurn(s) \/ Nap(s) \/ RepostTurn(s)
  <2>1. /\ UNCHANGED <<isFull, threadCounter, waitingLine, refused>>
        /\ \/ pc[s] = "turn" /\ pc'[s] = "register"
           \/ pc[s] = "post" /\ pc'[s] = "sit"
           \/ pc[s] = "sit" /\ pc'[s] = "study"
           \/ pc[s] = "pass" /\ pc'[s] = "mark"
           \/ pc[s] = "nap" /\ pc'[s] \in {"testFull", "remark"}
           \/ pc[s] = "repost" /\ pc'[s] = "study"
    BY <1>10, <1>c DEF TakeTurn, PostTurn, SitDown, PassTurn, Nap, RepostTurn, Goto, room
  <2> QED  BY <2>1, QuietMove DEF Held, Waiting, Polling, Leaving
<1> QED  BY <1>1, <1>2, <1>3, <1>4, <1>5, <1>6, <1>7, <1>8, <1>9, <1>10 DEF Thread

LEMMA PunctualMain ==
    ASSUME IInv, PInv, Main \/ CreateFails \/ UNCHANGED vars
    PROVE  PInv'
<1>1. /\ UNCHANGED <<isFull, threadCounter, waitingLine, refused>>
      /\ \/ pc' = pc
         \/ mainI \in Students /\ pc[mainI] = "unborn" /\ pc' = [pc EXCEPT ![mainI] = "turn"]
  BY DEF Main, CreateStudent, JoinStudent, FreeRoom, CreateFails, vars, room, IInv, MainInv, TypeOK, Students
<1>2. \A t \in Students : pc'[t] = pc[t] \/ (pc[t] = "unborn" /\ pc'[t] = "turn")
  BY <1>1 DEF IInv, TypeOK
<1>3. (AllArrived <=> AllArrived') /\ (BatchGone <=> BatchGone')
  <2>1. AllArrived <=> AllArrived'
    BY <1>2 DEF AllArrived, Arriving
  <2>2. \A t \in Students : pc'[t] \in Leaving <=> pc[t] \in Leaving
    BY <1>2 DEF Leaving
  <2> QED  BY <1>1, <2>1, <2>2 DEF BatchGone
<1>4. \A t \in Students : pc[t] = "unborn" => t \notin refused \/ BatchGone
  BY DEF PInv, HeldInv, Held, Waiting, Polling
<1>5. refused \subseteq Students
  BY DEF IInv, TypeOK
<1>6. LeaveInv' /\ FullInv'
  BY <1>1, <1>2, <1>3 DEF PInv, LeaveInv, FullInv, Leaving, Polling
<1>7. HeldInv'
  BY <1>1, <1>2, <1>3, <1>4, <1>5 DEF PInv, HeldInv
<1>8. NoSeatInv' /\ FillInv'
  BY <1>1, <1>3 DEF PInv, NoSeatInv, FillInv
<1>9. FirstInv' /\ RelockInv' /\ QueueOrder'
  BY <1>1, <1>2 DEF PInv, FirstInv, RelockInv, QueueOrder, Waiting, Polling
<1> QED  BY <1>6, <1>7, <1>8, <1>9 DEF PInv

\* What the two parts of the visits look like, at every moment.
THEOREM PunctualInvariance == PunctualSpec => [](IInv /\ PInv)
<1>1. ASSUME IInv, PInv, [Next /\ Punctual]_vars PROVE IInv' /\ PInv'
  <2>1. CASE \E s \in Students : Thread(s) /\ Punctual
    BY <1>1, <2>1, ThreadStep, PunctualThread
  <2>2. CASE Main \/ CreateFails \/ UNCHANGED vars
    BY <1>1, <2>2, MainStep, PunctualMain
  <2> QED  BY <1>1, <2>1, <2>2 DEF Next, Exited
<1> QED  BY InitIInv, InitPInv, <1>1, PTL DEF PunctualSpec

\* waiting_line never runs past a student that waits (threads.c:38, 45, 55): as long as
\* nobody leaves early, nobody is overtaken.
THEOREM NobodyOvertaken == PunctualSpec => []QueueOrder
BY PunctualInvariance, PTL DEF PInv

\* A refused student enters only when every student of the first batch, those that
\* were never refused, has left (threads.c:36-46).
THEOREM RefusedWaitForBatch == PunctualSpec => []WaitsForBatch
<1>1. IInv /\ PInv => WaitsForBatch
  BY DEF PInv, HeldInv, Held, BatchGone, WaitsForBatch
<1> QED  BY PunctualInvariance, <1>1, PTL
--------------------------------------------------------------------------------
\* After the first batch only the refused sit, and those behind the first MaxConcurrent
\* are all that can be refused.
LEMMA SecondBatch ==
    ASSUME IInv, BatchGone
    PROVE  threadCounter = 0 \/ threadCounter + MaxConcurrent <= TotalStudents
<1> USE DEF IInv
<1> DEFINE behind == MaxConcurrent .. TotalStudents - 1
<1>1. At(OnSeat) \subseteq behind
  <2>1. ASSUME NEW s \in At(OnSeat) PROVE s \in behind
    <3>1. s \in Students /\ pc[s] \notin Leaving
      BY <2>1 DEF At, OnSeat, Leaving
    <3>2. s \in refused
      BY <3>1 DEF BatchGone
    <3> QED  BY <3>1, <3>2, SizeAssumption DEF RefusedInv, Students
  <2> QED  BY <2>1
<1>2. /\ IsFiniteSet(behind)
      /\ Cardinality(behind) = IF MaxConcurrent > TotalStudents - 1 THEN 0
                               ELSE (TotalStudents - 1) - MaxConcurrent + 1
  <2>1. MaxConcurrent \in Int /\ TotalStudents - 1 \in Int
    BY SizeAssumption
  <2> QED  BY ONLY <2>1, FS_Interval
<1>3. Cardinality(At(OnSeat)) <= Cardinality(behind)
  BY <1>1, <1>2, FS_Subset
<1> HIDE DEF behind
<1> QED  BY <1>2, <1>3, SizeAssumption DEF SeatAccounting, TypeOK

\* How far the seat limit may be exceeded (threads.c:46): by no more than the students
\* behind the first MaxConcurrent; with at most twice as many students as seats, not at all.
THEOREM SeatsBounded == PunctualSpec => []SeatsTaken
<1>1. IInv /\ PInv => SeatsTaken
  <2>1. CASE BatchGone
    BY <2>1, SecondBatch, SizeAssumption DEF SeatsTaken
  <2>2. CASE ~BatchGone
    BY <2>2 DEF PInv, FillInv, SeatsTaken
  <2> QED  BY <2>1, <2>2
<1> QED  BY PunctualInvariance, <1>1, PTL
================================================================================

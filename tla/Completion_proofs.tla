--------------------------- MODULE Completion_proofs ---------------------------
(***************************************************************************)
(* The safety of Completion, for every set of tasks and every width of the *)
(* counter: arithmetic of the counter, what the queue operations do, the   *)
(* inductive invariant, and one lemma per group of actions.                *)
(***************************************************************************)
EXTENDS Completion, FiniteSetTheorems, SequenceTheorems, WellFoundedInduction, TLAPS

LEMMA DivMod == ASSUME NEW M \in Nat \ {0}, NEW a \in Int
                PROVE  /\ a \div M \in Int
                       /\ a % M \in 0 .. M - 1
                       /\ a = M * (a \div M) + (a % M)
  <1>1. a \div M \in Int /\ a % M \in 0 .. M - 1 
    OBVIOUS
  <1>2. a = M * (a \div M) + (a % M)
    OBVIOUS
  <1> QED BY <1>1, <1>2

LEMMA Small == ASSUME NEW M \in Nat \ {0}, NEW d \in Int, NEW e \in Int, e = M * d, e < M, -M < e
               PROVE  e = 0
  <1>1. CASE d = 0 BY <1>1
  <1>2. CASE d >= 1 
     <2>1. M * d = M + M * (d - 1) OBVIOUS
     <2>2. M * (d - 1) >= 0 BY <1>2
     <2> QED BY <2>1, <2>2
  <1>3. CASE d <= -1
     <2>1. M * d = M * (d + 1) - M OBVIOUS
     <2>2. M * (d + 1) <= 0 BY <1>3
     <2> QED BY <2>1, <2>2
  <1> QED BY <1>1, <1>2, <1>3

LEMMA Residue == ASSUME NEW M \in Nat \ {0}, NEW r \in 0 .. M - 1, NEW q \in Int
                 PROVE  (M * q + r) % M = r
  <1> DEFINE a == M * q + r
             e == r - (a % M)
             d == (a \div M) - q
  <1>0. a \in Int OBVIOUS
  <1>1. /\ a \div M \in Int /\ a % M \in 0 .. M - 1
        /\ a = M * (a \div M) + (a % M)
    BY <1>0, DivMod
  <1>2. e = M * d BY <1>1
  <1>3. e < M /\ -M < e /\ e \in Int /\ d \in Int BY <1>1
  <1>4. e = 0 BY <1>2, <1>3, Small
  <1> QED BY <1>4, <1>1

LEMMA ModNext == ASSUME NEW M \in Nat \ {0}, NEW n \in Int, NEW a \in Nat
                 PROVE  ((n % M) + a) % M = (n + a) % M
<1> DEFINE r == (n + a) % M
           q == ((n + a) \div M) - (n \div M)
<1>1. /\ n \div M \in Int /\ n % M \in 0 .. M - 1 /\ n = M * (n \div M) + (n % M)
  BY DivMod
<1>2. /\ (n + a) \div M \in Int /\ r \in 0 .. M - 1 /\ n + a = M * ((n + a) \div M) + r
  <2>1. n + a \in Int  OBVIOUS
  <2> QED  BY <2>1, DivMod
<1>3. q \in Int  BY <1>1, <1>2
<1>4. (n % M) + a = M * q + r
  <2>1. \A x, y \in Int : M * (x - y) = M * x - M * y  OBVIOUS
  <2>2. M * q = M * ((n + a) \div M) - M * (n \div M)  BY <1>1, <1>2, <2>1
  <2> HIDE DEF q, r
  <2> QED  BY <1>1, <1>2, <2>2 DEF r
<1> HIDE DEF q, r
<1>5. (M * q + r) % M = r  BY <1>2, <1>3, Residue
<1> QED  BY <1>4, <1>5 DEF r

LEMMA ModPrev == ASSUME NEW M \in Nat \ {0}, NEW n \in Int, n % M > 0
                 PROVE  (n % M) - 1 = (n - 1) % M
<1> DEFINE q == n \div M
           r == (n % M) - 1
<1>1. /\ q \in Int /\ n % M \in 0 .. M - 1 /\ n = M * q + (n % M)
  BY DivMod
<1>2. r \in 0 .. M - 1  BY <1>1
<1>3. n - 1 = M * q + r  BY <1>1
<1> HIDE DEF q, r
<1>4. (M * q + r) % M = r  BY <1>1, <1>2, Residue
<1> QED  BY <1>3, <1>4 DEF r

LEMMA WrapType == ASSUME NEW n \in Int PROVE Wrap(n) \in 0 .. UintMax
  BY UintAssumption DEF Wrap

LEMMA WrapNext == ASSUME NEW n \in Int, NEW a \in Nat
                  PROVE  Wrap(Wrap(n) + a) = Wrap(n + a)
  BY UintAssumption, ModNext, UintMax + 1 \in Nat \ {0} DEF Wrap

LEMMA WrapPrev == ASSUME NEW n \in Int, Wrap(n) > 0
                  PROVE  Wrap(n) - 1 = Wrap(n - 1)
  BY UintAssumption, ModPrev, UintMax + 1 \in Nat \ {0} DEF Wrap
--------------------------------------------------------------------------------
(***************************************************************************)
(* The queue: what appending and removing a waiter do to it.               *)
(***************************************************************************)
Distinct(q) == \A i, k \in 1 .. Len(q) : q[i] = q[k] => i = k

LEMMA RangeIs == ASSUME NEW q \in Seq(Tasks)
                 PROVE  /\ Range(q) = {q[i] : i \in 1 .. Len(q)}
                        /\ Range(q) \subseteq Tasks
                        /\ IsFiniteSet(Range(q))
<1>1. Range(q) = {q[i] : i \in 1 .. Len(q)} /\ Range(q) \subseteq Tasks
  BY RangeEquality, RangeOfSeq
<1> QED  BY <1>1, TasksAssumption, FS_Subset

LEMMA Appended == ASSUME NEW q \in Seq(Tasks), Distinct(q), NEW w \in Tasks, w \notin Range(q)
                  PROVE  /\ Append(q, w) \in Seq(Tasks) /\ Distinct(Append(q, w))
                         /\ Range(Append(q, w)) = Range(q) \cup {w}
<1> DEFINE r == Append(q, w)
<1>1. /\ r \in Seq(Tasks) /\ Len(r) = Len(q) + 1 /\ r[Len(q) + 1] = w
      /\ \A i \in 1 .. Len(q) : r[i] = q[i]
  BY AppendProperties
<1>2. Range(q) = {q[i] : i \in 1 .. Len(q)} /\ Range(r) = {r[i] : i \in 1 .. Len(r)}
  BY <1>1, RangeIs
<1>3. Len(q) \in Nat  OBVIOUS
<1> HIDE DEF r
<1>4. Distinct(r)  BY <1>1, <1>2, <1>3 DEF Distinct
<1>5. Range(r) = Range(q) \cup {w}  BY <1>1, <1>2, <1>3
<1> QED  BY <1>1, <1>4, <1>5 DEF r

LEMMA Removed == ASSUME NEW q \in Seq(Tasks), Distinct(q), NEW i \in 1 .. Len(q)
                 PROVE  /\ RemoveAt(q, i) \in Seq(Tasks) /\ Distinct(RemoveAt(q, i))
                        /\ Range(RemoveAt(q, i)) = Range(q) \ {q[i]}
<1> DEFINE n == Len(q)
           s == SubSeq(q, 1, i - 1)
           t == SubSeq(q, i + 1, n)
           r == RemoveAt(q, i)
<1>1. n \in Nat /\ i \in 1 .. n /\ q \in [1 .. n -> Tasks]  OBVIOUS
<1>2. s \in Seq(Tasks) /\ Len(s) = i - 1 /\ \A k \in 1 .. i - 1 : s[k] = q[k]
  <2>1. 1 \in Int /\ i - 1 \in Int /\ \A k \in 1 .. i - 1 : q[k] \in Tasks  BY <1>1
  <2> QED  BY <1>1, <2>1, SubSeqProperties
<1>3. t \in Seq(Tasks) /\ Len(t) = n - i /\ \A k \in 1 .. n - i : t[k] = q[i + k]
  <2>1. i + 1 \in Int /\ n \in Int /\ \A k \in i + 1 .. n : q[k] \in Tasks  BY <1>1
  <2>2. /\ t \in Seq(Tasks) /\ Len(t) = IF i + 1 <= n THEN n - (i + 1) + 1 ELSE 0
        /\ \A k \in 1 .. n - (i + 1) + 1 : t[k] = q[i + 1 + k - 1]
    BY <2>1, SubSeqProperties
  <2> HIDE DEF t
  <2>3. \A k \in 1 .. n - i : k \in 1 .. n - (i + 1) + 1 /\ i + 1 + k - 1 = i + k
    BY <1>1
  <2>4. (IF i + 1 <= n THEN n - (i + 1) + 1 ELSE 0) = n - i
    <3> HIDE DEF n, s
    <3>1. CASE i + 1 <= n  BY <1>1, <3>1
    <3>2. CASE ~(i + 1 <= n)  BY <1>1, <3>2
    <3> QED  BY <3>1, <3>2
  <2> QED  BY <2>2, <2>3, <2>4
<1>4. r = s \o t  BY DEF RemoveAt
<1> HIDE DEF s, t, r
<1>5. r \in Seq(Tasks) /\ Len(r) = n - 1
  <2>1. r \in Seq(Tasks) /\ Len(r) = Len(s) + Len(t)
    BY <1>2, <1>3, <1>4, ConcatProperties
  <2> QED  BY <1>1, <1>2, <1>3, <2>1
<1>6. \A k \in 1 .. n - 1 : r[k] = IF k < i THEN q[k] ELSE q[k + 1]
  <2>1. \A k \in 1 .. n - 1 : r[k] = IF k <= i - 1 THEN s[k] ELSE t[k - (i - 1)]
    BY <1>1, <1>2, <1>3, <1>4, ConcatProperties
  <2> QED  BY <1>1, <1>2, <1>3, <2>1
<1>7. Range(q) = {q[k] : k \in 1 .. n} /\ Range(r) = {r[k] : k \in 1 .. n - 1}
  BY <1>5, RangeIs
<1> HIDE DEF n
<1>8. Distinct(r)
  <2>1. \A j, k \in 1 .. n : q[j] = q[k] => j = k  BY DEF Distinct, n
  <2>2. SUFFICES ASSUME NEW j \in 1 .. n - 1, NEW k \in 1 .. n - 1, r[j] = r[k]
                 PROVE  j = k
    BY <1>5 DEF Distinct
  <2> QED  BY <1>1, <1>6, <2>1, <2>2
<1>9. Range(r) = Range(q) \ {q[i]}
  <2>1. \A j, k \in 1 .. n : q[j] = q[k] => j = k  BY DEF Distinct, n
  <2>2. ASSUME NEW k \in 1 .. n - 1  PROVE r[k] \in Range(q) /\ r[k] # q[i]
    BY <1>1, <1>6, <1>7, <2>1
  <2>3. ASSUME NEW k \in 1 .. n, k # i  PROVE q[k] \in Range(r)
    <3>1. CASE k < i
      <4>1. k \in 1 .. n - 1 /\ r[k] = q[k]  BY <1>1, <1>6, <3>1
      <4> QED  BY <1>7, <4>1
    <3>2. CASE k > i
      <4>1. k - 1 \in 1 .. n - 1 /\ r[k - 1] = q[k]  BY <1>1, <1>6, <3>2
      <4> QED  BY <1>7, <4>1
    <3> QED  BY <1>1, <2>3, <3>1, <3>2
  <2> QED  BY <1>7, <2>2, <2>3
<1> QED  BY <1>5, <1>8, <1>9 DEF r
--------------------------------------------------------------------------------
(***************************************************************************)
(* The inductive invariant.  Beside the checked invariants it says where a *)
(* task may have a sleeping state, and what the spinlock excludes while a  *)
(* waiter sets its state: that there is an event, and another such waiter. *)
(***************************************************************************)
Placed == \A w \in Tasks : sleeping[w] => pc[w] \in {"schedule", "asleep"}
Locked == \A v, w \in Tasks : pc[v] = "set" => done = 0 /\ (pc[w] = "set" => v = w)

IInv == TypeOK /\ Conserved /\ QueuedOnce /\ NoneStranded /\ Placed /\ Locked

LEMMA AllType == All \in Nat
<1>1. 2 \in Nat \ {0} /\ UintMax \in Int  BY UintAssumption
<1>2. /\ UintMax \div 2 \in Int /\ UintMax % 2 \in 0 .. 1
      /\ UintMax = 2 * (UintMax \div 2) + (UintMax % 2)
  BY <1>1, DivMod
<1> QED  BY <1>2, UintAssumption DEF All

LEMMA Queued == ASSUME TypeOK, QueuedOnce, NEW w \in Tasks
                PROVE  /\ pc[w] = "idle" =>
                            /\ Append(queue, w) \in Seq(Tasks) /\ Distinct(Append(queue, w))
                            /\ Range(Append(queue, w)) = Range(queue) \cup {w}
                       /\ pc[w] # "idle" =>
                            /\ Without(w) \in Seq(Tasks) /\ Distinct(Without(w))
                            /\ Range(Without(w)) = Range(queue) \ {w}
<1>1. queue \in Seq(Tasks) /\ Distinct(queue)  BY DEF TypeOK, QueuedOnce, Distinct
<1>2. CASE pc[w] = "idle"
  BY <1>1, <1>2, Appended DEF QueuedOnce
<1>3. CASE pc[w] # "idle"
  <2> DEFINE i == CHOOSE i \in 1 .. Len(queue) : queue[i] = w
  <2>1. w \in Range(queue)  BY <1>3 DEF QueuedOnce
  <2>2. i \in 1 .. Len(queue) /\ queue[i] = w  BY <1>1, <2>1, RangeIs
  <2> QED  BY <1>1, <1>3, <2>2, Removed DEF Without
<1> QED  BY <1>2, <1>3

\* What a step does to Conserved depends only on what it adds to the counts.
LEMMA Counting == ASSUME TypeOK, Conserved, NEW a \in Nat,
                         \/ /\ done' = Wrap(done + a)
                            /\ completes' + All * alls' - granted' = (completes + All * alls - granted) + a
                         \/ /\ done > 0 /\ done' = done - 1
                            /\ completes' + All * alls' - granted' = (completes + All * alls - granted) - 1
                  PROVE  Conserved' /\ done' \in 0 .. UintMax
<1> DEFINE n == completes + All * alls - granted
<1>1. n \in Int  BY AllType, BoundsAssumption DEF TypeOK
<1>2. done = Wrap(n) /\ done \in 0 .. UintMax  BY DEF Conserved, TypeOK
<1>5. \/ done' = Wrap(done + a) /\ completes' + All * alls' - granted' = n + a
      \/ done > 0 /\ done' = done - 1 /\ completes' + All * alls' - granted' = n - 1
  OBVIOUS
<1> HIDE DEF n
<1>3. CASE done' = Wrap(done + a) /\ completes' + All * alls' - granted' = n + a
  BY <1>1, <1>2, <1>3, WrapNext, WrapType DEF Conserved
<1>4. CASE done > 0 /\ done' = done - 1 /\ completes' + All * alls' - granted' = n - 1
  BY <1>1, <1>2, <1>4, WrapPrev, UintAssumption DEF Conserved
<1> QED  BY <1>3, <1>4, <1>5

\* What a wakeup does to the number of waiters that are up.
LEMMA UpType == ASSUME TypeOK
                PROVE  /\ IsFiniteSet(Range(queue)) /\ IsFiniteSet(NotAsleep)
                       /\ Cardinality(NotAsleep) \in Nat
  BY RangeIs, FS_Subset, FS_CardinalityType DEF TypeOK, NotAsleep

LEMMA UpGrows == ASSUME TypeOK, TypeOK', queue' = queue, NotAsleep \subseteq NotAsleep'
                 PROVE  Cardinality(NotAsleep) <= Cardinality(NotAsleep')
<1>1. IsFiniteSet(Range(queue')) /\ NotAsleep' \subseteq Range(queue')
  BY RangeIs DEF TypeOK, NotAsleep
<1> QED  BY <1>1, FS_Subset

LEMMA WakesOne == ASSUME TypeOK, TypeOK', NoneStranded, queue' = queue, WakeUpCommon(1),
                         done' <= done + 1
                  PROVE  NoneStranded'
<1> DEFINE A == {i \in 1 .. Len(queue) : Asleep(queue[i])}
<1>0. queue \in Seq(Tasks) /\ \A i \in 1 .. Len(queue) : queue[i] \in Tasks  BY DEF TypeOK
<1>1. Range(queue) = {queue[i] : i \in 1 .. Len(queue)} /\ Range(queue) \subseteq Tasks
  BY <1>0, RangeIs
<1>2. \A w \in Tasks : sleeping'[w] = (sleeping[w] /\ ~\E k \in 1 .. Len(queue) :
          queue[k] = w /\ \A j \in 1 .. k - 1 : ~Asleep(queue[j]))
  BY DEF WakeUpCommon, Wake
<1>3. NotAsleep \subseteq NotAsleep'
  BY <1>1, <1>2 DEF NotAsleep
<1>4. CASE A = {}
  <2>1. \A k \in 1 .. Len(queue) : \A j \in 1 .. k - 1 : ~Asleep(queue[j])
    BY <1>0, <1>4
  <2>2. NotAsleep' = Range(queue)'
    BY <1>1, <1>2, <2>1 DEF NotAsleep
  <2> QED  BY <2>2 DEF NoneStranded
<1>5. CASE A # {}
  <2>1. PICK k \in A : \A j \in A : ~(j < k)
    <3>1. A \subseteq Nat  BY <1>0
    <3>2. \E k \in A : \A j \in A : <<j, k>> \notin OpToRel(<, Nat)
      BY <1>5, <3>1, NatLessThanWellFounded, WFMin
    <3> QED  BY <3>1, <3>2 DEF OpToRel
  <2> DEFINE v == queue[k]
  <2>2. v \in Tasks /\ v \in Range(queue) /\ sleeping[v]
    BY <1>0, <1>1, <2>1 DEF Asleep
  <2>3. ~sleeping'[v]
    <3>1. k \in 1 .. Len(queue) /\ Len(queue) \in Nat  BY <1>0, <2>1
    <3>2. \A j \in 1 .. k - 1 : ~Asleep(queue[j])
      <4>1. \A j \in 1 .. k - 1 : j \in 1 .. Len(queue) /\ j < k  BY <3>1
      <4> QED  BY <2>1, <4>1
    <3> QED  BY <1>2, <2>2, <3>1, <3>2
  <2>4. v \notin NotAsleep /\ v \in NotAsleep'  BY <2>2, <2>3 DEF NotAsleep
  <2>5. Cardinality(NotAsleep) >= done  BY <2>2, <2>4 DEF NoneStranded
  <2>6. Cardinality(NotAsleep \cup {v}) = Cardinality(NotAsleep) + 1
    BY <2>4, UpType, FS_AddElement
  <2>7. Cardinality(NotAsleep \cup {v}) <= Cardinality(NotAsleep')
    <3>1. IsFiniteSet(NotAsleep')
      BY <1>0, RangeIs, FS_Subset DEF NotAsleep
    <3> QED  BY <1>3, <2>4, <3>1, FS_Subset
  <2>8. Cardinality(NotAsleep') \in Nat /\ Cardinality(NotAsleep) \in Nat
    BY <1>0, UpType, RangeIs, FS_Subset, FS_CardinalityType DEF NotAsleep
  <2>9. done \in Nat /\ done' \in Nat  BY DEF TypeOK
  <2> QED  BY <2>5, <2>6, <2>7, <2>8, <2>9 DEF NoneStranded
<1> QED  BY <1>4, <1>5
--------------------------------------------------------------------------------
LEMMA InitHolds == Init => IInv
<1> SUFFICES ASSUME Init PROVE IInv  OBVIOUS
<1>1. TypeOK  BY UintAssumption, BoundsAssumption DEF Init, TypeOK
<1>2. Conserved
  <2>1. 0 + All * 0 - 0 = 0 /\ 0 \in 0 .. UintMax  BY AllType, UintAssumption
  <2>2. Wrap(0) = 0
    <3>1. UintMax + 1 \in Nat \ {0} /\ (UintMax + 1) * 0 + 0 = 0 /\ 0 \in 0 .. (UintMax + 1) - 1
      BY UintAssumption
    <3> QED  BY <3>1, Residue DEF Wrap
  <2> QED  BY <2>1, <2>2 DEF Init, Conserved
<1>3. Range(queue) = {}
  <2>1. queue \in Seq(Tasks) /\ Len(queue) = 0  BY DEF Init
  <2>2. Range(queue) = {queue[i] : i \in 1 .. Len(queue)}  BY <2>1, RangeIs
  <2> QED  BY <2>1, <2>2
<1>4. QueuedOnce  BY <1>3 DEF Init, QueuedOnce
<1>5. NoneStranded  BY <1>3 DEF NoneStranded, NotAsleep
<1>6. Placed /\ Locked  BY DEF Init, Placed, Locked
<1> QED  BY <1>1, <1>2, <1>4, <1>5, <1>6 DEF IInv

LEMMA Signalled == ASSUME IInv, complete \/ complete_all PROVE IInv'
<1>1. TypeOK /\ Conserved /\ QueuedOnce /\ NoneStranded /\ Placed /\ Locked  BY DEF IInv
<1>2. \A w \in Tasks : sleeping'[w] => sleeping[w]
  BY DEF complete, complete_all, WakeUpCommon, Wake
<1>3. sleeping' \in [Tasks -> BOOLEAN]
  <2>1. \A w \in Tasks : sleeping[w] \in BOOLEAN  BY <1>1 DEF TypeOK
  <2>2. PICK W : sleeping' = [w \in Tasks |-> sleeping[w] /\ w \notin W]
    BY DEF complete, complete_all, WakeUpCommon, Wake
  <2> QED  BY <2>1, <2>2
<1>4. Conserved' /\ done' \in 0 .. UintMax
  <2>1. All \in Nat /\ 1 \in Nat /\ completes \in Nat /\ alls \in Nat /\ granted \in Nat
    BY <1>1, AllType, BoundsAssumption DEF TypeOK
  <2>2. CASE complete
    <3>1. completes' + All * alls' - granted' = (completes + All * alls - granted) + 1
      BY <2>1, <2>2 DEF complete
    <3> QED  BY <1>1, <2>1, <2>2, <3>1, Counting DEF complete
  <2>3. CASE complete_all
    <3>1. completes' + All * alls' - granted' = (completes + All * alls - granted) + All
      <4>1. All * (alls + 1) = All * alls + All  BY <2>1
      <4> QED  BY <2>1, <2>3, <4>1 DEF complete_all
    <3> QED  BY <1>1, <2>1, <2>3, <3>1, Counting DEF complete_all
  <2> QED  BY <2>2, <2>3
<1>5. TypeOK'
  BY <1>1, <1>3, <1>4, BoundsAssumption DEF TypeOK, complete, complete_all
<1>6. QueuedOnce' /\ Placed' /\ Locked'
  BY <1>1, <1>2 DEF QueuedOnce, Placed, Locked, complete, complete_all, Unlocked
<1>7. NoneStranded'
  <2>1. CASE complete
    <3>1. done' <= done + 1
      <4>1. done + 1 \in Nat /\ Wrap(done + 1) <= done + 1
        <5>1. done \in Nat /\ UintMax + 1 \in Nat \ {0}  BY <1>1, UintAssumption DEF TypeOK
        <5>2. (done + 1) % (UintMax + 1) <= done + 1
          <6>1. CASE done < UintMax
            <7>1. done + 1 \in 0 .. (UintMax + 1) - 1 /\ (UintMax + 1) * 0 + (done + 1) = done + 1
              BY <5>1, <6>1, UintAssumption
            <7> QED  BY <5>1, <7>1, Residue
          <6>2. CASE done = UintMax
            <7>1. (UintMax + 1) * 1 + 0 = done + 1 /\ 0 \in 0 .. (UintMax + 1) - 1
              BY <5>1, <6>2, UintAssumption
            <7> QED  BY <5>1, <7>1, Residue
          <6> QED  BY <1>1, <6>1, <6>2, UintAssumption DEF TypeOK
        <5> QED  BY <5>1, <5>2 DEF Wrap
      <4> QED  BY <2>1, <4>1 DEF complete
    <3> QED  BY <1>1, <1>5, <2>1, <3>1, WakesOne DEF complete
  <2>2. CASE complete_all
    <3>1. queue' = queue /\ Range(queue) = {queue[i] : i \in 1 .. Len(queue)}
      BY <1>1, <2>2, RangeIs DEF complete_all, TypeOK
    <3>2. \A w \in Range(queue) : w \in Tasks /\ ~sleeping'[w]
      <4>1. \A w \in Range(queue) : w \in Tasks  BY <1>1, RangeIs DEF TypeOK
      <4> QED  BY <2>2, <3>1, <4>1 DEF complete_all, WakeUpCommon, Wake
    <3> QED  BY <3>1, <3>2 DEF NoneStranded, NotAsleep
  <2> QED  BY <2>1, <2>2
<1> QED  BY <1>4, <1>5, <1>6, <1>7 DEF IInv

\* An event taken, by a waiter that was up or without waiting at all.
LEMMA Taken == ASSUME IInv, \/ try_wait_for_completion
                            \/ \E w \in Tasks : WaitAtOnce(w) \/ Take(w)
               PROVE  IInv'
<1>1. TypeOK /\ Conserved /\ QueuedOnce /\ NoneStranded /\ Placed /\ Locked  BY DEF IInv
<1>2. done > 0 /\ done' = done - 1 /\ granted' = granted + 1 /\ completes' = completes
      /\ alls' = alls /\ sleeping' = sleeping
  BY DEF try_wait_for_completion, WaitAtOnce, Take, Leave, waiter
<1>3. Conserved' /\ done' \in 0 .. UintMax
  <2>1. All \in Nat /\ completes \in Nat /\ alls \in Nat /\ granted \in Nat /\ 1 \in Nat
    BY <1>1, AllType, BoundsAssumption DEF TypeOK
  <2>2. completes' + All * alls' - granted' = (completes + All * alls - granted) - 1
    BY <1>2, <2>1
  <2> QED  BY <1>1, <1>2, <2>1, <2>2, Counting
<1>4. CASE queue' = queue /\ pc' = pc /\ UNCHANGED <<wait, left, pending>>
  <2>1. TypeOK' /\ QueuedOnce' /\ Placed' /\ Locked'
    <3>1. TypeOK'  BY <1>1, <1>2, <1>3, <1>4 DEF TypeOK
    <3>2. QueuedOnce' /\ Placed'  BY <1>1, <1>2, <1>4 DEF QueuedOnce, Placed
    <3>3. Locked'  BY <1>1, <1>2, <1>4 DEF Locked
    <3> QED  BY <3>1, <3>2, <3>3
  <2>2. NoneStranded'
    <3>1. NotAsleep' = NotAsleep /\ Range(queue)' = Range(queue)  BY <1>2, <1>4 DEF NotAsleep
    <3>2. done \in Nat /\ Cardinality(NotAsleep) \in Nat  BY <1>1, UpType DEF TypeOK
    <3> QED  BY <1>1, <1>2, <3>1, <3>2 DEF NoneStranded
  <2> QED  BY <1>3, <2>1, <2>2 DEF IInv
<1>5. ASSUME NEW w \in Tasks, Take(w)  PROVE IInv'
  <2>1. /\ pc[w] = "asleep" /\ ~sleeping[w] /\ queue' = Without(w)
        /\ pc' = [pc EXCEPT ![w] = "idle"] /\ wait' = [wait EXCEPT ![w] = NoWait]
        /\ left' = [left EXCEPT ![w] = TRUE] /\ pending' = [pending EXCEPT ![w] = FALSE]
    BY <1>5 DEF Take, Up, Leave, Goto
  <2>2. queue' \in Seq(Tasks) /\ Distinct(queue') /\ Range(queue') = Range(queue) \ {w}
    BY <1>1, <2>1, Queued
  <2>3. TypeOK'  BY <1>1, <1>2, <1>3, <2>1, <2>2 DEF TypeOK
  <2>4. \A v \in Tasks : pc'[v] = IF v = w THEN "idle" ELSE pc[v]
    BY <1>1, <2>1 DEF TypeOK
  <2>5. QueuedOnce'  BY <1>1, <2>2, <2>4 DEF QueuedOnce, Distinct
  <2>6. Placed'  BY <1>1, <1>2, <2>1, <2>4 DEF Placed
  <2>7. Locked'  BY <1>1, <1>2, <2>4 DEF Locked
  <2>8. NoneStranded'
    <3>1. w \in Range(queue)  BY <1>1, <2>1 DEF QueuedOnce
    <3>2. w \in NotAsleep /\ NotAsleep' = NotAsleep \ {w}
      BY <1>2, <2>1, <2>2, <3>1 DEF NotAsleep
    <3>3. /\ Cardinality(NotAsleep') = Cardinality(NotAsleep) - 1
          /\ Cardinality(NotAsleep) \in Nat /\ done \in Nat
      <4>1. IsFiniteSet(NotAsleep) /\ Cardinality(NotAsleep) \in Nat  BY <1>1, UpType
      <4>2. Cardinality(NotAsleep \ {w}) = Cardinality(NotAsleep) - 1
        BY <3>2, <4>1, FS_RemoveElement
      <4>3. done \in Nat  BY <1>1 DEF TypeOK
      <4> QED  BY <3>2, <4>1, <4>2, <4>3
    <3> QED  BY <1>1, <1>2, <2>2, <3>2, <3>3 DEF NoneStranded
  <2> QED  BY <1>3, <2>3, <2>5, <2>6, <2>7, <2>8 DEF IInv
<1>6. ASSUME NEW w \in Tasks, WaitAtOnce(w)  PROVE IInv'
  <2>1. pc[w] = "idle" /\ queue' = queue /\ pc' = [pc EXCEPT ![w] = "idle"]
        /\ wait' = [wait EXCEPT ![w] = NoWait]
        /\ left' = [left EXCEPT ![w] = TRUE] /\ pending' = [pending EXCEPT ![w] = FALSE]
    BY <1>6 DEF WaitAtOnce, Leave, Goto
  <2>2. pc' = pc  BY <1>1, <2>1 DEF TypeOK
  <2>3. TypeOK'  BY <1>1, <1>2, <1>3, <2>1 DEF TypeOK
  <2>4. QueuedOnce' /\ Placed'  BY <1>1, <1>2, <2>1, <2>2 DEF QueuedOnce, Placed
  <2>5. Locked'  BY <1>1, <1>2, <2>2 DEF Locked
  <2>6. NoneStranded'
    <3>1. NotAsleep' = NotAsleep /\ Range(queue)' = Range(queue)  BY <1>2, <2>1 DEF NotAsleep
    <3>2. done \in Nat /\ Cardinality(NotAsleep) \in Nat  BY <1>1, UpType DEF TypeOK
    <3> QED  BY <1>1, <1>2, <3>1, <3>2 DEF NoneStranded
  <2> QED  BY <1>3, <2>3, <2>4, <2>5, <2>6 DEF IInv
<1> QED  BY <1>4, <1>5, <1>6 DEF try_wait_for_completion, waiter

\* The steps that leave the counter alone.
LEMMA Uncounted == ASSUME IInv, done' = done, UNCHANGED counts
                   PROVE  Conserved'
  BY DEF IInv, Conserved, counts

LEMMA StartsWait == ASSUME IInv, NEW w \in Tasks, Wait(w)  PROVE IInv'
<1>1. TypeOK /\ QueuedOnce /\ NoneStranded /\ Placed /\ Locked  BY DEF IInv
<1>2. PICK k \in Waits :
        /\ pc[w] = "idle" /\ Unlocked /\ done = 0 /\ queue' = Append(queue, w)
        /\ wait' = [wait EXCEPT ![w] = k] /\ pc' = [pc EXCEPT ![w] = "set"]
        /\ UNCHANGED <<done, sleeping, left, pending, counts>>
  BY DEF Wait, Goto
<1>3. queue' \in Seq(Tasks) /\ Distinct(queue') /\ Range(queue') = Range(queue) \cup {w}
  BY <1>1, <1>2, Queued
<1>4. TypeOK'  BY <1>1, <1>2, <1>3 DEF TypeOK, counts
<1>5. \A v \in Tasks : pc'[v] = IF v = w THEN "set" ELSE pc[v]
  BY <1>1, <1>2 DEF TypeOK
<1>6. QueuedOnce'  BY <1>1, <1>3, <1>5 DEF QueuedOnce, Distinct
<1>7. Placed'  BY <1>1, <1>2, <1>5 DEF Placed
<1>8. Locked'  BY <1>2, <1>5 DEF Locked, Unlocked
<1>9. NoneStranded'
  <2>1. Cardinality(NotAsleep') \in Nat  BY <1>4, RangeIs, FS_Subset, FS_CardinalityType DEF TypeOK, NotAsleep
  <2> QED  BY <1>2, <2>1 DEF NoneStranded
<1> QED  BY <1>2, <1>4, <1>6, <1>7, <1>8, <1>9, Uncounted DEF IInv

LEMMA SetsState == ASSUME IInv, NEW w \in Tasks, SetState(w)  PROVE IInv'
<1>1. TypeOK /\ QueuedOnce /\ NoneStranded /\ Placed /\ Locked  BY DEF IInv
<1>2. /\ pc[w] = "set" /\ sleeping' = [sleeping EXCEPT ![w] = TRUE]
      /\ pc' = [pc EXCEPT ![w] = "schedule"]
      /\ UNCHANGED <<done, queue, wait, left, pending, counts>>
  BY DEF SetState, Goto
<1>3. TypeOK'  BY <1>1, <1>2 DEF TypeOK, counts
<1>4. \A v \in Tasks : pc'[v] = IF v = w THEN "schedule" ELSE pc[v]
  BY <1>1, <1>2 DEF TypeOK
<1>5. QueuedOnce'  BY <1>1, <1>2, <1>4 DEF QueuedOnce
<1>6. Placed'  BY <1>1, <1>2, <1>4 DEF Placed, TypeOK
<1>7. Locked'  BY <1>1, <1>2, <1>4 DEF Locked
<1>8. NoneStranded'
  <2>1. Cardinality(NotAsleep') \in Nat  BY <1>3, RangeIs, FS_Subset, FS_CardinalityType DEF TypeOK, NotAsleep
  <2>2. done' = 0  BY <1>1, <1>2 DEF Locked
  <2> QED  BY <2>1, <2>2 DEF NoneStranded
<1> QED  BY <1>2, <1>3, <1>5, <1>6, <1>7, <1>8, Uncounted DEF IInv

\* Schedule, Again, Timer and Signal change who is up, never who is queued.
LEMMA Stirred == ASSUME IInv, NEW w \in Tasks, Schedule(w) \/ Again(w) \/ Timer(w) \/ Signal(w)
                 PROVE  IInv'
<1>1. TypeOK /\ QueuedOnce /\ NoneStranded /\ Placed /\ Locked  BY DEF IInv
<1>2. /\ queue' = queue /\ done' = done /\ wait' = wait /\ UNCHANGED counts
      /\ sleeping' \in [Tasks -> BOOLEAN] /\ pc' \in [Tasks -> {"idle", "set", "schedule", "asleep"}]
      /\ left' \in [Tasks -> BOOLEAN] /\ pending' \in [Tasks -> BOOLEAN]
  <2>1. pc \in [Tasks -> {"idle", "set", "schedule", "asleep"}] /\ sleeping \in [Tasks -> BOOLEAN]
        /\ left \in [Tasks -> BOOLEAN] /\ pending \in [Tasks -> BOOLEAN]
    BY <1>1 DEF TypeOK
  <2>2. CASE Schedule(w)
    <3>1. sleeping' \in [Tasks -> BOOLEAN]
      <4>1. (sleeping[w] /\ ~pending[w]) \in BOOLEAN  OBVIOUS
      <4> QED  BY <2>1, <2>2, <4>1 DEF Schedule
    <3> QED  BY <2>1, <2>2, <3>1 DEF Schedule, Goto
  <2>3. CASE Again(w)  BY <2>1, <2>3 DEF Again, Goto
  <2>4. CASE Timer(w)  BY <2>1, <2>4 DEF Timer
  <2>5. CASE Signal(w)  BY <2>1, <2>5 DEF Signal
  <2> QED  BY <2>2, <2>3, <2>4, <2>5
<1>3. TypeOK'  BY <1>1, <1>2 DEF TypeOK, counts
<1>4. \A v \in Tasks : sleeping'[v] => sleeping[v]
  <2>1. CASE Schedule(w)  BY <1>1, <2>1 DEF Schedule, TypeOK
  <2>2. CASE Again(w)  BY <2>2 DEF Again
  <2>3. CASE Timer(w)  BY <1>1, <2>3 DEF Timer, TypeOK
  <2>4. CASE Signal(w)  BY <1>1, <2>4 DEF Signal, TypeOK
  <2> QED  BY <2>1, <2>2, <2>3, <2>4
<1>5. \A v \in Tasks : /\ pc'[v] = "idle" <=> pc[v] = "idle"
                       /\ sleeping'[v] => pc'[v] \in {"schedule", "asleep"}
  <2>1. CASE Schedule(w)  BY <1>1, <1>4, <2>1 DEF Schedule, Goto, Placed, TypeOK
  <2>2. CASE Again(w)  BY <1>1, <2>2 DEF Again, Up, Goto, Placed, TypeOK
  <2>3. CASE Timer(w)  BY <1>1, <1>4, <2>3 DEF Timer, Placed
  <2>4. CASE Signal(w)  BY <1>1, <1>4, <2>4 DEF Signal, Placed
  <2> QED  BY <2>1, <2>2, <2>3, <2>4
<1>6. QueuedOnce'  BY <1>1, <1>2, <1>5 DEF QueuedOnce
<1>7. Placed'  BY <1>5 DEF Placed
<1>8. Locked'
  <2>1. CASE Schedule(w)  BY <1>1, <1>2, <2>1 DEF Schedule, Goto, Locked, TypeOK
  <2>2. CASE Again(w)  BY <1>1, <1>2, <2>2 DEF Again, Up, Goto, Locked, Unlocked, TypeOK
  <2>3. CASE Timer(w)  BY <1>1, <1>2, <2>3 DEF Timer, Locked
  <2>4. CASE Signal(w)  BY <1>1, <1>2, <2>4 DEF Signal, Locked
  <2> QED  BY <2>1, <2>2, <2>3, <2>4
<1>9. NoneStranded'
  <2>1. NotAsleep \subseteq NotAsleep' /\ NotAsleep' \subseteq Range(queue) /\ Range(queue') = Range(queue)
    <3>1. Range(queue) \subseteq Tasks  BY <1>1 DEF QueuedOnce
    <3> QED  BY <1>2, <1>4, <3>1 DEF NotAsleep
  <2>2. Cardinality(NotAsleep) <= Cardinality(NotAsleep')  BY <1>1, <1>2, <1>3, <2>1, UpGrows
  <2>3. /\ Cardinality(NotAsleep) \in Nat /\ Cardinality(NotAsleep') \in Nat /\ done \in Nat
    BY <1>1, <1>3, UpType, RangeIs, FS_Subset, FS_CardinalityType DEF TypeOK, NotAsleep
  <2>4. CASE Cardinality(NotAsleep) >= done
    <3>1. Cardinality(NotAsleep') >= done'  BY <1>2, <2>2, <2>3, <2>4
    <3> QED  BY <3>1 DEF NoneStranded
  <2>5. CASE NotAsleep = Range(queue)
    <3>1. NotAsleep' = Range(queue')  BY <2>1, <2>5
    <3> QED  BY <3>1 DEF NoneStranded
  <2> QED  BY <1>1, <2>4, <2>5 DEF NoneStranded
<1> QED  BY <1>2, <1>3, <1>6, <1>7, <1>8, <1>9, Uncounted DEF IInv

LEMMA GivesUp == ASSUME IInv, NEW w \in Tasks, GiveUp(w)  PROVE IInv'
<1>1. TypeOK /\ QueuedOnce /\ NoneStranded /\ Placed /\ Locked  BY DEF IInv
<1>2. /\ pc[w] = "asleep" /\ ~sleeping[w] /\ done = 0 /\ queue' = Without(w)
      /\ pc' = [pc EXCEPT ![w] = "idle"] /\ wait' = [wait EXCEPT ![w] = NoWait]
      /\ left' = [left EXCEPT ![w] = TRUE] /\ pending' = [pending EXCEPT ![w] = FALSE]
      /\ UNCHANGED <<done, sleeping, counts>>
  BY DEF GiveUp, Up, Leave, Goto
<1>3. queue' \in Seq(Tasks) /\ Distinct(queue') /\ Range(queue') = Range(queue) \ {w}
  BY <1>1, <1>2, Queued
<1>4. TypeOK'  BY <1>1, <1>2, <1>3 DEF TypeOK, counts
<1>5. \A v \in Tasks : pc'[v] = IF v = w THEN "idle" ELSE pc[v]
  BY <1>1, <1>2 DEF TypeOK
<1>6. QueuedOnce'  BY <1>1, <1>3, <1>5 DEF QueuedOnce, Distinct
<1>7. Placed'  BY <1>1, <1>2, <1>5 DEF Placed
<1>8. Locked'  BY <1>1, <1>2, <1>5 DEF Locked
<1>9. NoneStranded'
  <2>1. Cardinality(NotAsleep') \in Nat  BY <1>4, RangeIs, FS_Subset, FS_CardinalityType DEF TypeOK, NotAsleep
  <2> QED  BY <1>2, <2>1 DEF NoneStranded
<1> QED  BY <1>2, <1>4, <1>6, <1>7, <1>8, <1>9, Uncounted DEF IInv

LEMMA StepHolds == IInv /\ [Next]_vars => IInv'
<1> SUFFICES ASSUME IInv, [Next]_vars PROVE IInv'  OBVIOUS
<1>1. CASE complete \/ complete_all  BY <1>1, Signalled
<1>2. CASE try_wait_for_completion  BY <1>2, Taken
<1>3. ASSUME NEW w \in Tasks, WaitAtOnce(w) \/ Take(w)  PROVE IInv'  BY <1>3, Taken
<1>4. ASSUME NEW w \in Tasks, Wait(w)  PROVE IInv'  BY <1>4, StartsWait
<1>5. ASSUME NEW w \in Tasks, SetState(w)  PROVE IInv'  BY <1>5, SetsState
<1>6. ASSUME NEW w \in Tasks, Schedule(w) \/ Again(w) \/ Timer(w) \/ Signal(w)  PROVE IInv'
  BY <1>6, Stirred
<1>7. ASSUME NEW w \in Tasks, GiveUp(w)  PROVE IInv'  BY <1>7, GivesUp
<1>8. CASE UNCHANGED vars
  BY <1>8 DEF IInv, TypeOK, Conserved, QueuedOnce, NoneStranded, NotAsleep, Placed, Locked,
              vars, waiter, counts
<1> QED  BY <1>1, <1>2, <1>3, <1>4, <1>5, <1>6, <1>7, <1>8 DEF Next, Waiting
--------------------------------------------------------------------------------
\* Every reachable state satisfies the invariant, whatever the number of tasks, the
\* waits they do and the width of the counter.
THEOREM Invariance == Spec => []IInv
<1> QED  BY InitHolds, StepHolds, PTL DEF Spec

\* do_wait_for_common and complete keep account of the events: no event is lost to a
\* wait that timed out or was interrupted, and none is granted twice.
THEOREM EventsConserved == Spec => []Conserved
<1>1. IInv => Conserved  BY DEF IInv
<1> QED  BY <1>1, Invariance, PTL

\* __wake_up_common leaves nobody asleep that an event is for, although it does not
\* count the waiters that are up already.
THEOREM NoLostWakeup == Spec => []NoneStranded
<1>1. IInv => NoneStranded  BY DEF IInv
<1> QED  BY <1>1, Invariance, PTL

\* The queue holds exactly the waiters, each once, so that no entry on the stack of a
\* task outlives its wait.
THEOREM QueueIsWaiters == Spec => []QueuedOnce
<1>1. IInv => QueuedOnce  BY DEF IInv
<1> QED  BY <1>1, Invariance, PTL
================================================================================

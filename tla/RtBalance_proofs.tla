--------------------------- MODULE RtBalance_proofs ----------------------------
(***************************************************************************)
(* Theorems about RtBalance: the books of every run queue are right, tasks *)
(* are in their place, and a CPU that has settled runs the head of its     *)
(* queue, for any number of CPUs and any finite set of tasks.              *)
(*                                                                         *)
(* The operators of RtBalance make kernel states out of kernel states, so  *)
(* their lemmas are about such states, and one about an action says how    *)
(* k' is made from k.  What a run queue keeps of itself (its list, what is *)
(* on offer, its counts) is a matter of Right; everything else depends on  *)
(* where the tasks are and what runs, and on no list.                      *)
(***************************************************************************)
EXTENDS RtBalance, FiniteSetTheorems, WellFoundedInduction, SequenceTheorems, TLAPS

Priorities == 1 .. MaxRtPrio - 1
Kernels == [ cpu : [Tasks -> Cpus], state : [Tasks -> {"asleep", "waking", "running"}],
             on_rq : [Tasks -> BOOLEAN], prio : [Tasks -> Priorities],
             allowed : [Tasks -> (SUBSET Cpus) \ {{}}],
             curr : [Cpus -> Tasks \cup {Idle, Stop}], resched : [Cpus -> BOOLEAN],
             queue : [Cpus -> Seq(Tasks)], pushable : [Cpus -> Seq(Tasks)],
             highest : [Cpus -> 1 .. MaxRtPrio], next : [Cpus -> 1 .. MaxRtPrio],
             migratory : [Cpus -> Int], overloaded : [Cpus -> BOOLEAN], post : [Cpus -> BOOLEAN] ]

Work  == [task : Tasks, cpu : Cpus, to : Cpus]
WorkRight == /\ asked \in [Callers -> Work \cup {None}] /\ stopper \in [Cpus -> Work \cup {None}]
             /\ \A c \in Cpus : stopper[c] # None => stopper[c].cpu = c
OpsOf(e) ==
    {NoOp, [pc |-> "post"]}
    \cup [pc : {"push"}, rq : Cpus, then : {"post", "woken"}]
    \cup [pc : {"retry"}, rq : Cpus, then : {"post", "woken"}, task : Tasks]
    \cup [pc : {"push_both"}, rq : Cpus, then : {"post", "woken"}, task : Tasks, to : Cpus,
           tries : 0 .. RT_MAX_TRIES - 1]
    \cup [pc : {"pull"}, rq : {e}, then : {"switch"}, at : 1 .. NCpus + 1]
    \cup [pc : {"pull_both"}, rq : {e}, then : {"switch"}, at : Cpus]
    \cup [pc : {"pull"}, rq : Cpus, then : Tasks, at : 1 .. NCpus + 1]
    \cup [pc : {"pull_both"}, rq : Cpus, then : Tasks, at : Cpus]
    \cup [pc : {"wake"}, task : Tasks]

OpsRight(o) == o = [e \in Cpus |-> o[e]] /\ \A e \in Cpus : o[e] \in OpsOf(e)

TypeOK == /\ k \in Kernels
          /\ OpsRight(op)
          /\ WorkRight
          /\ lost \subseteq Cpus
--------------------------------------------------------------------------------
(***************************************************************************)
(* The books of a run queue.                                               *)
(***************************************************************************)
Queued(s, c)  == {p \in Tasks : s.on_rq[p] /\ s.cpu[p] = c}
Movable(s, c) == {p \in Queued(s, c) : weight(s, p) > 1}
Ordered(s, list) == \A i, j \in 1 .. Len(list) : i < j => s.prio[list[i]] <= s.prio[list[j]]

\* The tasks of R, each once, by priority.
Lists(s, list, R) == list \in Seq(Tasks) /\ IsInjective(list) /\ ToSet(list) = R /\ Ordered(s, list)

\* m is the highest priority in R.
Highest(s, m, R) == /\ R = {} => m = MaxRtPrio
                    /\ R # {} => \E p \in R : s.prio[p] = m
                    /\ \A p \in R : m <= s.prio[p]

ListRight(s, c)  == Lists(s, s.queue[c], Queued(s, c))
CountRight(s, c) == /\ s.migratory[c] = Cardinality(Movable(s, c))
                    /\ s.overloaded[c] = (s.migratory[c] > 0 /\ Cardinality(Queued(s, c)) > 1)
OfferRight(s, c) == /\ Lists(s, s.pushable[c], ToSet(s.pushable[c]))
                    /\ ToSet(s.pushable[c]) \subseteq Movable(s, c)
RightAt(s, c) == /\ ListRight(s, c) /\ Highest(s, s.highest[c], Queued(s, c))
                 /\ CountRight(s, c) /\ OfferRight(s, c)
Right(s) == \A c \in Cpus : RightAt(s, c)

\* No task on offer runs.
OffersWait(s) == \A c \in Cpus : s.curr[c] \notin ToSet(s.pushable[c])
--------------------------------------------------------------------------------
(***************************************************************************)
(* Where tasks are and what runs.                                          *)
(***************************************************************************)
\* A task that is not queued is asleep, or waking and then only one CPU wakes it.
Waking(x, p) == x.pc = "wake" /\ x.task = p
WakeRight(s, o) ==
    /\ \A p \in Tasks : /\ s.on_rq[p] <=> s.state[p] = "running"
                        /\ s.state[p] = "waking" => s.cpu[p] \in s.allowed[p] /\ s.curr[s.cpu[p]] # p
    /\ \A e \in Cpus, p \in Tasks : Waking(o[e], p) =>
           s.state[p] = "waking" /\ \A f \in Cpus : Waking(o[f], p) => f = e

\* What runs is where it runs; and it is queued, unless it is about to be switched out.
Switching(x) == x.pc \in {"pull", "pull_both"} /\ x.then = "switch"
RunRight(s, o) ==
    \A c \in Cpus, p \in Tasks : s.curr[c] = p => s.cpu[p] = c /\ (s.on_rq[p] \/ Switching(o[c]))

\* Of a task that may not stay there is a request to move it from there to where it may be.
Request(p, c, to) == [task |-> p, cpu |-> c, to |-> to]
Knows(st, s, p) == \E to \in s.allowed[p] : Request(p, s.cpu[p], to) \in st
StopRight(s, st) ==
    \A p \in Tasks : (s.on_rq[p] \/ s.curr[s.cpu[p]] = p) /\ s.cpu[p] \notin s.allowed[p] =>
        Knows(st, s, p)

Placed(s, o, st) == WakeRight(s, o) /\ RunRight(s, o) /\ StopRight(s, st)

\* A CPU runs the highest of its queue, or has been told to look, or a pull for it is under
\* way that looks when it is over.
PullsFor(x, c) == x.pc \in {"pull", "pull_both"} /\ x.rq = c
Pulled(o, c)   == \E e \in Cpus : PullsFor(o[e], c)
RunsHead(s, c) == s.resched[c] \/ \A p \in Queued(s, c) : PrioOf(s, s.curr[c]) <= s.prio[p]
HeadRight(s, o, l) == \A c \in Cpus : c \in l \/ Pulled(o, c) \/ RunsHead(s, c)

Sound(s) == s \in Kernels /\ Right(s) /\ OffersWait(s)
IInv == TypeOK /\ Sound(k) /\ Placed(k, op, Requests) /\ HeadRight(k, op, lost)
--------------------------------------------------------------------------------
(***************************************************************************)
(* Lists.                                                                  *)
(***************************************************************************)
LEMMA LeastElement ==
    ASSUME NEW S \in SUBSET Nat, S # {}
    PROVE  Min(S) \in S /\ \A y \in S : Min(S) <= y
<1>1. \E x \in S : \A y \in S : <<y, x>> \notin OpToRel(<, Nat)
  BY NatLessThanWellFounded, WFMin
<1>2. \E x \in S : \A y \in S : ~(y < x)
  BY <1>1 DEF OpToRel
<1>3. \E x \in S : \A y \in S : x <= y
  BY <1>2
<1> QED  BY <1>3 DEF Min

\* What InsertAt and RemoveAt do, place by place.
LEMMA Inserted ==
    ASSUME NEW list \in Seq(Tasks), NEW n \in 1 .. Len(list) + 1, NEW p \in Tasks
    PROVE  LET r == InsertAt(list, n, p)
           IN  /\ r \in Seq(Tasks) /\ Len(r) = Len(list) + 1 /\ r[n] = p
               /\ \A i \in 1 .. Len(list) : i < n => r[i] = list[i]
               /\ \A i \in 1 .. Len(list) : i >= n => r[i + 1] = list[i]
<1> DEFINE m == Len(list)
           a == SubSeq(list, 1, n - 1)
           b == SubSeq(list, n, m)
           u == a \o <<p>>
           r == InsertAt(list, n, p)
<1>1. m \in Nat /\ n \in 1 .. m + 1 /\ list \in [1 .. m -> Tasks]
  OBVIOUS
<1>2. a \in Seq(Tasks) /\ Len(a) = n - 1 /\ \A i \in 1 .. n - 1 : a[i] = list[i]
  <2>1. 1 \in Int /\ n - 1 \in Int /\ \A i \in 1 .. n - 1 : list[i] \in Tasks
    BY <1>1
  <2> QED  BY <1>1, <2>1, SubSeqProperties
<1>3. b \in Seq(Tasks) /\ Len(b) = m - n + 1 /\ \A i \in 1 .. m - n + 1 : b[i] = list[n + i - 1]
  <2>1. n \in Int /\ m \in Int /\ \A i \in n .. m : list[i] \in Tasks
    BY <1>1
  <2>2. b \in Seq(Tasks) /\ Len(b) = (IF n <= m THEN m - n + 1 ELSE 0)
        /\ \A i \in 1 .. m - n + 1 : b[i] = list[n + i - 1]
    BY <2>1, SubSeqProperties
  <2> HIDE DEF b, m
  <2>3. (IF n <= m THEN m - n + 1 ELSE 0) = m - n + 1
    BY <1>1
  <2> QED  BY <2>2, <2>3
<1> HIDE DEF a, b
<1>4. u \in Seq(Tasks) /\ Len(u) = n /\ u[n] = p /\ \A i \in 1 .. n - 1 : u[i] = list[i]
  <2>1. <<p>> \in Seq(Tasks) /\ Len(<<p>>) = 1 /\ <<p>>[1] = p
    OBVIOUS
  <2>2. u \in Seq(Tasks) /\ Len(u) = (n - 1) + 1
        /\ \A i \in 1 .. (n - 1) + 1 : u[i] = IF i <= n - 1 THEN a[i] ELSE <<p>>[i - (n - 1)]
    BY <1>2, <2>1, ConcatProperties
  <2> HIDE DEF u
  <2> QED  BY <1>1, <1>2, <2>1, <2>2
<1>5. r = u \o b
  BY DEF InsertAt, a, b
<1> HIDE DEF u, r
<1>6. r \in Seq(Tasks) /\ Len(r) = n + (m - n + 1)
      /\ \A i \in 1 .. n + (m - n + 1) : r[i] = IF i <= n THEN u[i] ELSE b[i - n]
  BY <1>3, <1>4, <1>5, ConcatProperties
<1> HIDE DEF m
<1>7. n + (m - n + 1) = m + 1 /\ r[n] = p /\ \A i \in 1 .. m : i < n => r[i] = list[i]
  BY <1>1, <1>4, <1>6
<1>8. ASSUME NEW i \in 1 .. m, i >= n PROVE r[i + 1] = list[i]
  <2>1. r[i + 1] = b[i + 1 - n] /\ i + 1 - n \in 1 .. m - n + 1 /\ n + (i + 1 - n) - 1 = i
    BY <1>1, <1>6, <1>8
  <2> QED  BY <1>3, <2>1
<1> QED  BY <1>6, <1>7, <1>8 DEF m, r

LEMMA Removed ==
    ASSUME NEW list \in Seq(Tasks), NEW n \in 1 .. Len(list)
    PROVE  LET r == RemoveAt(list, n)
           IN  /\ r \in Seq(Tasks) /\ Len(r) = Len(list) - 1
               /\ \A i \in 1 .. Len(list) - 1 : r[i] = IF i < n THEN list[i] ELSE list[i + 1]
<1> DEFINE m == Len(list)
           a == SubSeq(list, 1, n - 1)
           b == SubSeq(list, n + 1, m)
           r == RemoveAt(list, n)
<1>1. m \in Nat /\ n \in 1 .. m /\ list \in [1 .. m -> Tasks]
  OBVIOUS
<1>2. a \in Seq(Tasks) /\ Len(a) = n - 1 /\ \A i \in 1 .. n - 1 : a[i] = list[i]
  <2>1. 1 \in Int /\ n - 1 \in Int /\ \A i \in 1 .. n - 1 : list[i] \in Tasks
    BY <1>1
  <2> QED  BY <1>1, <2>1, SubSeqProperties
<1>3. b \in Seq(Tasks) /\ Len(b) = m - n /\ \A i \in 1 .. m - n : b[i] = list[n + i]
  <2>1. n + 1 \in Int /\ m \in Int /\ \A i \in n + 1 .. m : list[i] \in Tasks
    BY <1>1
  <2>2. b \in Seq(Tasks) /\ Len(b) = (IF n + 1 <= m THEN m - (n + 1) + 1 ELSE 0)
        /\ \A i \in 1 .. m - (n + 1) + 1 : b[i] = list[n + 1 + i - 1]
    BY <2>1, SubSeqProperties
  <2> HIDE DEF b, m
  <2>3. /\ (IF n + 1 <= m THEN m - (n + 1) + 1 ELSE 0) = m - n
        /\ \A i \in 1 .. m - n : i \in 1 .. m - (n + 1) + 1 /\ n + 1 + i - 1 = n + i
    BY <1>1
  <2> QED  BY <2>2, <2>3
<1>4. r = a \o b
  BY DEF RemoveAt
<1> HIDE DEF a, b, r
<1>5. r \in Seq(Tasks) /\ Len(r) = Len(a) + Len(b)
      /\ \A i \in 1 .. Len(a) + Len(b) : r[i] = IF i <= Len(a) THEN a[i] ELSE b[i - Len(a)]
  BY <1>2, <1>3, <1>4, ConcatProperties
<1> HIDE DEF m
<1>6. Len(r) = m - 1 /\ \A i \in 1 .. m - 1 : r[i] = IF i <= n - 1 THEN a[i] ELSE b[i - (n - 1)]
  BY <1>1, <1>2, <1>3, <1>5
<1>7. ASSUME NEW i \in 1 .. m - 1 PROVE r[i] = IF i < n THEN list[i] ELSE list[i + 1]
  <2>1. CASE i < n
    BY <1>1, <1>2, <1>6, <2>1
  <2>2. CASE i >= n
    <3>1. r[i] = b[i - (n - 1)] /\ i - (n - 1) \in 1 .. m - n /\ n + (i - (n - 1)) = i + 1
      BY <1>1, <1>6, <2>2
    <3> QED  BY <1>1, <1>3, <2>2, <3>1
  <2> QED  BY <1>1, <2>1, <2>2
<1> QED  BY <1>5, <1>6, <1>7 DEF m, r

LEMMA ListIs ==
    ASSUME NEW s, NEW list, NEW R, Lists(s, list, R)
    PROVE  /\ list \in Seq(Tasks) /\ Len(list) \in Nat
           /\ R = {list[i] : i \in 1 .. Len(list)} /\ R \subseteq Tasks
           /\ \A i \in 1 .. Len(list) : list[i] \in R
           /\ \A i, j \in 1 .. Len(list) : list[i] = list[j] => i = j
<1>1. list \in Seq(Tasks)
  BY DEF Lists
<1>2. DOMAIN list = 1 .. Len(list) /\ Len(list) \in Nat /\ \A i \in 1 .. Len(list) : list[i] \in Tasks
  BY <1>1, LenProperties
<1> QED  BY <1>1, <1>2 DEF Lists, ToSet, IsInjective

\* Lists made of their places.
LEMMA ListFrom ==
    ASSUME NEW s, NEW list \in Seq(Tasks), NEW R,
           R = {list[i] : i \in 1 .. Len(list)},
           \A i, j \in 1 .. Len(list) : list[i] = list[j] => i = j,
           Ordered(s, list)
    PROVE  Lists(s, list, R)
<1>1. DOMAIN list = 1 .. Len(list)
  BY LenProperties
<1> QED  BY <1>1 DEF Lists, ToSet, IsInjective

LEMMA RemoveLists ==
    ASSUME NEW s, NEW list, NEW R, Lists(s, list, R), NEW p
    PROVE  Lists(s, RemoveFirst(list, p), R \ {p})
<1> DEFINE m == Len(list)
           I == {i \in 1 .. m : list[i] = p}
           n == Min(I)
           r == RemoveFirst(list, p)
<1>1. /\ list \in Seq(Tasks) /\ m \in Nat /\ R = {list[i] : i \in 1 .. m}
      /\ \A i, j \in 1 .. m : list[i] = list[j] => i = j
      /\ \A i, j \in 1 .. m : i < j => s.prio[list[i]] <= s.prio[list[j]]
  BY ListIs DEF Lists, Ordered
<1>2. CASE I = {}
  <2>1. r = list /\ R \ {p} = R
    BY <1>1, <1>2 DEF RemoveFirst
  <2> QED  BY <2>1
<1>3. CASE I # {}
  <2>1. n \in 1 .. m /\ list[n] = p
    <3>1. I \in SUBSET Nat
      BY <1>1
    <3>2. n \in I
      BY <1>3, <3>1, LeastElement
    <3> QED  BY <3>2
  <2>2. r = RemoveAt(list, n)
    BY <1>3 DEF RemoveFirst, SelectInSeq
  <2> HIDE DEF n, r
  <2>3. /\ r \in Seq(Tasks) /\ Len(r) = m - 1
        /\ \A i \in 1 .. m - 1 : r[i] = IF i < n THEN list[i] ELSE list[i + 1]
    BY <1>1, <2>1, <2>2, Removed
  <2> HIDE DEF m, I
  <2>4. R \ {p} = {r[i] : i \in 1 .. m - 1}
    <3>1. ASSUME NEW i \in 1 .. m - 1 PROVE r[i] \in R \ {p}
      <4>1. CASE i < n
        <5>1. i \in 1 .. m /\ i # n /\ r[i] = list[i]
          BY <1>1, <2>1, <2>3, <4>1
        <5> QED  BY <1>1, <2>1, <5>1
      <4>2. CASE ~(i < n)
        <5>1. i + 1 \in 1 .. m /\ i + 1 # n /\ r[i] = list[i + 1]
          BY <1>1, <2>1, <2>3, <4>2
        <5> QED  BY <1>1, <2>1, <5>1
      <4> QED  BY <4>1, <4>2
    <3>2. ASSUME NEW i \in 1 .. m, list[i] # p PROVE \E j \in 1 .. m - 1 : r[j] = list[i]
      <4>1. CASE i < n
        BY <1>1, <2>1, <2>3, <4>1
      <4>2. CASE i > n
        <5>1. i - 1 \in 1 .. m - 1 /\ ~(i - 1 < n) /\ (i - 1) + 1 = i
          BY <1>1, <2>1, <4>2
        <5> QED  BY <2>3, <5>1
      <4> QED  BY <1>1, <2>1, <3>2, <4>1, <4>2
    <3> QED  BY <1>1, <3>1, <3>2
  <2>5. \A i, j \in 1 .. m - 1 : r[i] = r[j] => i = j
    BY <1>1, <2>1, <2>3
  <2>6. ASSUME NEW i \in 1 .. m - 1, NEW j \in 1 .. m - 1, i < j PROVE s.prio[r[i]] <= s.prio[r[j]]
    <3> DEFINE a == IF i < n THEN i ELSE i + 1
               b == IF j < n THEN j ELSE j + 1
    <3>1. a \in 1 .. m /\ b \in 1 .. m /\ a < b
      BY <1>1, <2>1, <2>6
    <3>2. r[i] = list[a] /\ r[j] = list[b]
      BY <2>3
    <3> HIDE DEF a, b
    <3> QED  BY <1>1, <3>1, <3>2
  <2> QED  BY <2>3, <2>4, <2>5, <2>6, ListFrom DEF Ordered, r
<1> QED  BY <1>2, <1>3

LEMMA InsertLists ==
    ASSUME NEW s, NEW list, NEW R, Lists(s, list, R), NEW p \in Tasks, p \notin R,
           NEW n \in 1 .. Len(list) + 1,
           \A i \in 1 .. Len(list) : /\ i < n => s.prio[list[i]] <= s.prio[p]
                                     /\ i >= n => s.prio[p] <= s.prio[list[i]]
    PROVE  Lists(s, InsertAt(list, n, p), R \cup {p})
<1> DEFINE m == Len(list)
           r == InsertAt(list, n, p)
<1>0. /\ list \in Seq(Tasks) /\ m \in Nat /\ R = {list[i] : i \in 1 .. m} /\ \A i \in 1 .. m : list[i] \in R
      /\ \A i, j \in 1 .. m : list[i] = list[j] => i = j
      /\ \A i, j \in 1 .. m : i < j => s.prio[list[i]] <= s.prio[list[j]]
  BY ListIs DEF Lists, Ordered
<1>1. /\ list \in Seq(Tasks) /\ m \in Nat /\ R = {list[i] : i \in 1 .. m} /\ \A i \in 1 .. m : list[i] # p
      /\ \A i, j \in 1 .. m : list[i] = list[j] => i = j
      /\ \A i, j \in 1 .. m : i < j => s.prio[list[i]] <= s.prio[list[j]]
  BY <1>0
<1>2. /\ r \in Seq(Tasks) /\ Len(r) = m + 1 /\ r[n] = p
      /\ \A i \in 1 .. m : i < n => r[i] = list[i]
      /\ \A i \in 1 .. m : i >= n => r[i + 1] = list[i]
  BY <1>1, Inserted
<1> HIDE DEF m, r
<1>3. n \in 1 .. m + 1
  BY DEF m
<1>4. ASSUME NEW i \in 1 .. m + 1, i # n
      PROVE  LET j == IF i < n THEN i ELSE i - 1 IN j \in 1 .. m /\ r[i] = list[j]
  <2>1. CASE i < n
    BY <1>1, <1>2, <1>3, <2>1
  <2>2. CASE i > n
    <3>1. i - 1 \in 1 .. m /\ i - 1 >= n /\ (i - 1) + 1 = i /\ ~(i < n)
      BY <1>1, <1>3, <2>2
    <3> QED  BY <1>2, <3>1
  <2> QED  BY <1>1, <1>3, <1>4, <2>1, <2>2
<1>5. R \cup {p} = {r[i] : i \in 1 .. m + 1}
  <2>1. \A i \in 1 .. m + 1 : r[i] \in R \cup {p}
    BY <1>1, <1>2, <1>4
  <2>2. ASSUME NEW i \in 1 .. m PROVE \E j \in 1 .. m + 1 : r[j] = list[i]
    <3>1. CASE i < n
      BY <1>1, <1>2, <3>1
    <3>2. CASE i >= n
      BY <1>1, <1>2, <3>2
    <3> QED  BY <1>1, <1>3, <3>1, <3>2
  <2> QED  BY <1>1, <1>2, <1>3, <2>1, <2>2
<1>6. ASSUME NEW i \in 1 .. m + 1, NEW j \in 1 .. m + 1, r[i] = r[j] PROVE i = j
  <2>1. CASE i = n
    BY <1>1, <1>2, <1>4, <1>6, <2>1
  <2>2. CASE j = n
    BY <1>1, <1>2, <1>4, <1>6, <2>2
  <2>3. CASE i # n /\ j # n
    BY <1>1, <1>3, <1>4, <1>6, <2>3
  <2> QED  BY <2>1, <2>2, <2>3
<1>7. ASSUME NEW i \in 1 .. m + 1, NEW j \in 1 .. m + 1, i < j PROVE s.prio[r[i]] <= s.prio[r[j]]
  <2>0. \A l \in 1 .. m : /\ l < n => s.prio[list[l]] <= s.prio[p]
                          /\ l >= n => s.prio[p] <= s.prio[list[l]]
    BY DEF m
  <2>1. CASE i = n
    <3>1. j # n /\ ~(j < n) /\ j - 1 \in 1 .. m /\ j - 1 >= n /\ r[j] = list[j - 1]
      BY <1>1, <1>3, <1>4, <1>7, <2>1
    <3> QED  BY <1>2, <2>0, <2>1, <3>1
  <2>2. CASE j = n
    <3>1. i # n /\ i < n /\ i \in 1 .. m /\ r[i] = list[i]
      BY <1>1, <1>3, <1>4, <1>7, <2>2
    <3> QED  BY <1>2, <2>0, <2>2, <3>1
  <2>3. CASE i # n /\ j # n
    <3> DEFINE a == IF i < n THEN i ELSE i - 1
               b == IF j < n THEN j ELSE j - 1
    <3>1. a \in 1 .. m /\ b \in 1 .. m /\ r[i] = list[a] /\ r[j] = list[b]
      BY <1>4, <2>3
    <3>2. a < b
      BY <1>1, <1>3, <1>7, <2>3
    <3> HIDE DEF a, b
    <3> QED  BY <1>1, <3>1, <3>2
  <2> QED  BY <2>1, <2>2, <2>3
<1> QED  BY <1>2, <1>5, <1>6, <1>7, ListFrom DEF Ordered, r

LEMMA AddLists ==
    ASSUME NEW s \in Kernels, NEW list, NEW R, Lists(s, list, R), NEW p \in Tasks, p \notin R
    PROVE  /\ Lists(s, AddTail(s, list, p), R \cup {p})
           /\ Lists(s, AddHead(s, list, p), R \cup {p})
<1> DEFINE m == Len(list)
           x == s.prio
<1>1. /\ list \in Seq(Tasks) /\ m \in Nat /\ \A i \in 1 .. m : list[i] \in Tasks
      /\ \A i, j \in 1 .. m : i < j => x[list[i]] <= x[list[j]]
  BY ListIs DEF Lists, Ordered
<1>2. x \in [Tasks -> Nat] /\ \A q \in Tasks : x[q] \in Nat
  <2>1. Priorities \subseteq Nat
    BY PriosAssumption DEF Priorities
  <2> QED  BY <2>1 DEF Kernels
<1> DEFINE T == {i \in 1 .. m : x[list[i]] > x[p]}
           H == {i \in 1 .. m : x[list[i]] >= x[p]}
           a == IF T = {} THEN m + 1 ELSE Min(T)
           b == IF H = {} THEN m + 1 ELSE Min(H)
<1>3. T # {} => a \in T /\ \A i \in T : a <= i
  BY <1>1, LeastElement, T \in SUBSET Nat
<1>4. H # {} => b \in H /\ \A i \in H : b <= i
  BY <1>1, LeastElement, H \in SUBSET Nat
<1>5. AddTail(s, list, p) = InsertAt(list, a, p)
  <2>1. T = {} \/ Min(T) # 0
    BY <1>1, <1>3
  <2> QED  BY <2>1 DEF AddTail, Before, SelectInSeq
<1>6. AddHead(s, list, p) = InsertAt(list, b, p)
  <2>1. H = {} \/ Min(H) # 0
    BY <1>1, <1>4
  <2> QED  BY <2>1 DEF AddHead, Before, SelectInSeq
<1>7. a \in 1 .. m + 1 /\ b \in 1 .. m + 1
  BY <1>1, <1>3, <1>4
<1>8. /\ \A i \in 1 .. m : i < a => i \notin T
      /\ a # m + 1 => a \in T
  <2>1. CASE T = {}
    BY <1>1, <2>1
  <2>2. CASE T # {}
    <3> HIDE DEF T
    <3> QED  BY <1>1, <1>3, <1>7, <2>2
  <2> QED  BY <2>1, <2>2
<1>9. /\ \A i \in 1 .. m : i < b => i \notin H
      /\ b # m + 1 => b \in H
  <2>1. CASE H = {}
    BY <1>1, <2>1
  <2>2. CASE H # {}
    <3> HIDE DEF H
    <3> QED  BY <1>1, <1>4, <1>7, <2>2
  <2> QED  BY <2>1, <2>2
<1>10. /\ \A i \in 1 .. m : i < a => ~(x[list[i]] > x[p])
       /\ a # m + 1 => a \in 1 .. m /\ x[list[a]] > x[p]
       /\ \A i \in 1 .. m : i < b => ~(x[list[i]] >= x[p])
       /\ b # m + 1 => b \in 1 .. m /\ x[list[b]] >= x[p]
  <2> HIDE DEF a, b, m, x
  <2> QED  BY <1>8, <1>9
<1> HIDE DEF a, b, x, m, T, H
<1>11. ASSUME NEW i \in 1 .. m
      PROVE  /\ i < a => x[list[i]] <= x[p]
             /\ i >= a => x[p] <= x[list[i]]
             /\ i < b => x[list[i]] <= x[p]
             /\ i >= b => x[p] <= x[list[i]]
  <2>0. x[list[i]] \in Nat /\ x[p] \in Nat
    BY <1>1, <1>2
  <2>1. ASSUME i < a PROVE x[list[i]] <= x[p]
    BY <1>10, <2>0, <2>1
  <2>2. ASSUME i >= a PROVE x[p] <= x[list[i]]
    <3>1. a \in 1 .. m /\ x[list[a]] > x[p] /\ x[list[a]] \in Nat
      <4>1. a # m + 1
        BY <1>1, <1>7, <2>2
      <4> QED  BY <1>1, <1>2, <1>10, <4>1
    <3>2. x[list[a]] <= x[list[i]]
      BY <1>1, <2>0, <2>2, <3>1
    <3> QED  BY <2>0, <3>1, <3>2
  <2>3. ASSUME i < b PROVE x[list[i]] <= x[p]
    BY <1>10, <2>0, <2>3
  <2>4. ASSUME i >= b PROVE x[p] <= x[list[i]]
    <3>1. b \in 1 .. m /\ x[list[b]] >= x[p] /\ x[list[b]] \in Nat
      <4>1. b # m + 1
        BY <1>1, <1>7, <2>4
      <4> QED  BY <1>1, <1>2, <1>10, <4>1
    <3>2. x[list[b]] <= x[list[i]]
      BY <1>1, <2>0, <2>4, <3>1
    <3> QED  BY <2>0, <3>1, <3>2
  <2> QED  BY <2>1, <2>2, <2>3, <2>4
<1>12. Lists(s, InsertAt(list, a, p), R \cup {p})
  BY <1>7, <1>11, InsertLists DEF m, x
<1>13. Lists(s, InsertAt(list, b, p), R \cup {p})
  BY <1>7, <1>11, InsertLists DEF m, x
<1> QED  BY <1>5, <1>6, <1>12, <1>13

\* A list depends on the priorities of its own tasks only.
LEMMA SameLists ==
    ASSUME NEW s, NEW t, NEW list, NEW R, Lists(s, list, R), \A q \in R : t.prio[q] = s.prio[q]
    PROVE  Lists(t, list, R)
<1>1. \A i \in 1 .. Len(list) : list[i] \in R
  BY ListIs
<1>2. \A i, j \in 1 .. Len(list) : i < j => s.prio[list[i]] <= s.prio[list[j]]
  BY DEF Lists, Ordered
<1>3. \A i, j \in 1 .. Len(list) : i < j => t.prio[list[i]] <= t.prio[list[j]]
  BY <1>1, <1>2
<1> QED  BY <1>3 DEF Lists, Ordered

\* Its length, and its head.
LEMMA ListSize ==
    ASSUME NEW s, NEW list, NEW R, Lists(s, list, R)
    PROVE  /\ IsFiniteSet(R) /\ Len(list) = Cardinality(R)
           /\ list = <<>> <=> R = {}
           /\ R # {} => Head(list) \in R /\ \A q \in R : q # Head(list) => s.prio[Head(list)] <= s.prio[q]
<1> DEFINE m == Len(list)
<1>1. /\ list \in Seq(Tasks) /\ m \in Nat /\ R = {list[i] : i \in 1 .. m}
      /\ \A i \in 1 .. m : list[i] \in R
      /\ \A i, j \in 1 .. m : list[i] = list[j] => i = j
      /\ \A i, j \in 1 .. m : i < j => s.prio[list[i]] <= s.prio[list[j]]
  BY ListIs DEF Lists, Ordered
<1>2. IsFiniteSet(1 .. m) /\ Cardinality(1 .. m) = m
  BY <1>1, FS_Interval
<1>3. ExistsBijection(1 .. m, R)
  <2>1. list \in [1 .. m -> R] /\ \A q \in R : \E i \in 1 .. m : list[i] = q
    BY <1>1
  <2>2. list \in Bijection(1 .. m, R)
    BY <1>1, <2>1 DEF Bijection, Injection, Surjection, IsInjective
  <2> QED  BY <2>2 DEF ExistsBijection
<1>4. IsFiniteSet(R) /\ m = Cardinality(R)
  BY <1>2, <1>3, FS_Bijection
<1>5. list = <<>> <=> R = {}
  <2>1. list = <<>> => m = 0
    BY EmptySeq
  <2>2. list # <<>> => m \in Nat \ {0}
    BY <1>1, EmptySeq
  <2>3. R = {} <=> m = 0
    <3>1. m # 0 => 1 \in 1 .. m
      BY <1>1
    <3>2. m # 0 => R # {}
      BY <1>1, <3>1
    <3>3. m = 0 => 1 .. m = {}
      OBVIOUS
    <3> QED  BY <1>1, <3>2, <3>3
  <2> QED  BY <2>1, <2>2, <2>3
<1>6. ASSUME R # {} PROVE Head(list) \in R /\ \A q \in R : q # Head(list) => s.prio[Head(list)] <= s.prio[q]
  <2>1. list # <<>> /\ Head(list) = list[1] /\ 1 \in 1 .. m
    BY <1>1, <1>5, <1>6
  <2>2. ASSUME NEW i \in 1 .. m, i # 1 PROVE s.prio[list[1]] <= s.prio[list[i]]
    <3>1. 1 < i
      BY <1>1, <2>2
    <3> QED  BY <1>1, <2>1, <3>1
  <2> QED  BY <1>1, <2>1, <2>2
<1> QED  BY <1>4, <1>5, <1>6
--------------------------------------------------------------------------------
(***************************************************************************)
(* The operators, field by field.  What no list is about:                  *)
(***************************************************************************)
Outer(s, t) == /\ t.cpu = s.cpu /\ t.state = s.state /\ t.prio = s.prio /\ t.allowed = s.allowed
               /\ t.curr = s.curr /\ t.resched = s.resched /\ t.post = s.post
Lists3(s, t) == t.on_rq = s.on_rq /\ t.queue = s.queue /\ t.pushable = s.pushable

LEMMA Constants == /\ NCpus \in Nat \ {0} /\ MaxRtPrio \in Nat \ {0}
                   /\ Priorities \subseteq 1 .. MaxRtPrio
                   /\ None \notin Tasks /\ Idle \notin Tasks /\ Stop \notin Tasks /\ Idle # Stop
                   /\ "switch" \notin Tasks /\ "post" \notin Tasks /\ "woken" \notin Tasks
                   /\ None \notin Work
                   /\ IsFiniteSet(Tasks) /\ IsFiniteSet(Cpus)
<1>1. IsFiniteSet(Cpus)
  BY CpusAssumption, FS_Interval DEF Cpus
<1>2. None \notin Work
  BY TasksAssumption DEF Work, Cpus
<1> QED  BY <1>1, <1>2, CpusAssumption, PriosAssumption, TasksAssumption DEF Priorities

LEMMA Weights == ASSUME NEW s \in Kernels, NEW p \in Tasks
                 PROVE  weight(s, p) \in Nat \ {0}
<1>1. s.allowed[p] \subseteq Cpus /\ s.allowed[p] # {}
  BY DEF Kernels
<1>2. IsFiniteSet(s.allowed[p])
  BY <1>1, Constants, FS_Subset
<1> QED  BY <1>1, <1>2, FS_CardinalityType, FS_EmptySet DEF weight

LEMMA Picked ==
    ASSUME NEW s \in Kernels, NEW c \in Cpus, NEW d \in Cpus
    PROVE  LET p == pick_next_highest_task_rt(s, c, d)
           IN  p # None => /\ p \in Tasks /\ p \in ToSet(s.queue[c])
                           /\ s.curr[c] # p /\ d \in s.allowed[p] /\ weight(s, p) > 1
<1> DEFINE list == s.queue[c]
           I == {i \in 1 .. Len(list) : s.curr[c] # list[i] /\ d \in s.allowed[list[i]] /\ weight(s, list[i]) > 1}
           n == IF I # {} THEN Min(I) ELSE 0
           p == pick_next_highest_task_rt(s, c, d)
<1>1. p = IF n = 0 THEN None ELSE list[n]
  BY DEF pick_next_highest_task_rt, SelectInSeq
<1>2. list \in Seq(Tasks) /\ DOMAIN list = 1 .. Len(list) /\ \A i \in 1 .. Len(list) : list[i] \in Tasks
  BY LenProperties DEF Kernels
<1>3. I \in SUBSET Nat
  OBVIOUS
<1>4. n # 0 => n \in I
  BY <1>3, LeastElement
<1> HIDE DEF n, p
<1>5. p # None => /\ n \in 1 .. Len(list) /\ p = list[n]
                  /\ s.curr[c] # list[n] /\ d \in s.allowed[list[n]] /\ weight(s, list[n]) > 1
  BY <1>1, <1>4
<1>6. p # None => p \in Tasks /\ p \in ToSet(list)
  BY <1>2, <1>5 DEF ToSet
<1> QED  BY <1>5, <1>6 DEF p

LEMMA NextPrio == ASSUME NEW s \in Kernels, NEW c \in Cpus
                  PROVE  next_prio(s, c) \in 1 .. MaxRtPrio
<1>1. pick_next_highest_task_rt(s, c, c) # None => pick_next_highest_task_rt(s, c, c) \in Tasks
  BY Picked
<1>2. \A p \in Tasks : s.prio[p] \in Priorities
  BY DEF Kernels
<1>3. MaxRtPrio \in 1 .. MaxRtPrio /\ Priorities \subseteq 1 .. MaxRtPrio
  BY Constants
<1> DEFINE p == pick_next_highest_task_rt(s, c, c)
<1>4. next_prio(s, c) = IF p = None THEN MaxRtPrio ELSE s.prio[p]
  BY DEF next_prio
<1> HIDE DEF p
<1>5. p # None => p \in Tasks
  BY <1>1 DEF p
<1> QED  BY <1>2, <1>3, <1>4, <1>5

LEMMA HighestSet ==
    ASSUME NEW s \in Kernels, NEW c \in Cpus, NEW x \in 1 .. MaxRtPrio, NEW y \in 1 .. MaxRtPrio
    PROVE  [s EXCEPT !.highest[c] = x, !.next[c] = y] \in Kernels
BY DEF Kernels

LEMMA IncPrio ==
    ASSUME NEW s \in Kernels, NEW c \in Cpus, NEW x \in Priorities, NEW t, t = inc_rt_prio(s, c, x)
    PROVE  /\ t \in Kernels /\ Outer(s, t) /\ Lists3(s, t)
           /\ t.migratory = s.migratory /\ t.overloaded = s.overloaded
           /\ t.highest = [s.highest EXCEPT ![c] = IF x < s.highest[c] THEN x ELSE s.highest[c]]
<1> DEFINE h == s.highest[c]
           u == IF x < h THEN x ELSE h
           y == IF x < h THEN h ELSE IF x = h THEN x ELSE IF x < s.next[c] THEN next_prio(s, c) ELSE s.next[c]
<1>1. x \in 1 .. MaxRtPrio /\ h \in 1 .. MaxRtPrio /\ s.next[c] \in 1 .. MaxRtPrio
      /\ next_prio(s, c) \in 1 .. MaxRtPrio
  BY NextPrio, Constants DEF Kernels
<1>2. u \in 1 .. MaxRtPrio /\ y \in 1 .. MaxRtPrio
  BY <1>1
<1>3. t = [s EXCEPT !.highest[c] = u, !.next[c] = y]
  <2>1. CASE x < h
    BY <1>1, <2>1 DEF inc_rt_prio
  <2>2. CASE ~(x < h)
    <3>1. t = [s EXCEPT !.next[c] = y]
      BY <1>1, <2>2 DEF inc_rt_prio
    <3>2. u = s.highest[c]
      BY <2>2
    <3> HIDE DEF u, y
    <3> QED  BY <3>1, <3>2 DEF Kernels
  <2> QED  BY <2>1, <2>2
<1> HIDE DEF u, y
<1>4. t \in Kernels
  <2>1. [s EXCEPT !.highest[c] = u, !.next[c] = y] \in Kernels
    BY <1>2, HighestSet
  <2> QED  BY <1>3, <2>1
<1>5. Outer(s, t) /\ Lists3(s, t)
  BY <1>2, <1>3 DEF Kernels, Outer, Lists3
<1>6. /\ t.migratory = s.migratory /\ t.overloaded = s.overloaded
      /\ t.highest = [s.highest EXCEPT ![c] = u]
  BY <1>2, <1>3 DEF Kernels
<1> QED  BY <1>4, <1>5, <1>6 DEF u

LEMMA DecPrio ==
    ASSUME NEW s \in Kernels, NEW c \in Cpus, NEW x \in Priorities, NEW t, t = dec_rt_prio(s, c, x)
    PROVE  /\ t \in Kernels /\ Outer(s, t) /\ Lists3(s, t)
           /\ t.migratory = s.migratory /\ t.overloaded = s.overloaded
           /\ t.highest = [s.highest EXCEPT ![c] =
                 IF s.queue[c] = <<>> THEN MaxRtPrio
                 ELSE IF x = s.highest[c] THEN s.prio[Head(s.queue[c])] ELSE s.highest[c]]
<1> DEFINE h == s.highest[c]
           empty == s.queue[c] = <<>>
           u == IF empty THEN MaxRtPrio ELSE IF x = h THEN s.prio[Head(s.queue[c])] ELSE h
           y == IF empty \/ ~(x <= s.next[c]) THEN s.next[c] ELSE next_prio(s, c)
<1>1. h \in 1 .. MaxRtPrio /\ s.next[c] \in 1 .. MaxRtPrio /\ next_prio(s, c) \in 1 .. MaxRtPrio
  BY NextPrio DEF Kernels
<1>2. ~empty => s.prio[Head(s.queue[c])] \in 1 .. MaxRtPrio
  <2>1. ~empty => Head(s.queue[c]) \in Tasks
    BY HeadTailProperties DEF Kernels
  <2>2. \A p \in Tasks : s.prio[p] \in 1 .. MaxRtPrio
    BY Constants DEF Kernels
  <2> QED  BY <2>1, <2>2
<1>3. u \in 1 .. MaxRtPrio /\ y \in 1 .. MaxRtPrio
  BY <1>1, <1>2, Constants
<1>4. t = [s EXCEPT !.highest[c] = u, !.next[c] = y]
  <2>1. CASE empty
    <3>1. t = [s EXCEPT !.highest[c] = u] /\ y = s.next[c]
      BY <2>1 DEF dec_rt_prio
    <3> HIDE DEF u, y
    <3> QED  BY <3>1 DEF Kernels
  <2>2. CASE ~empty
    BY <2>2 DEF dec_rt_prio
  <2> QED  BY <2>1, <2>2
<1> HIDE DEF u, y
<1>5. t \in Kernels
  <2>1. [s EXCEPT !.highest[c] = u, !.next[c] = y] \in Kernels
    BY <1>3, HighestSet
  <2> QED  BY <1>4, <2>1
<1>6. Outer(s, t) /\ Lists3(s, t)
  BY <1>3, <1>4 DEF Kernels, Outer, Lists3
<1>7. /\ t.migratory = s.migratory /\ t.overloaded = s.overloaded
      /\ t.highest = [s.highest EXCEPT ![c] = u]
  BY <1>3, <1>4 DEF Kernels
<1> QED  BY <1>5, <1>6, <1>7 DEF u

\* What writing to the counts changes.
LEMMA CountSet ==
    ASSUME NEW s \in Kernels, NEW c \in Cpus, NEW m \in Int,
           NEW t, t = update_rt_migration([s EXCEPT !.migratory[c] = m], c)
    PROVE  /\ t \in Kernels /\ Outer(s, t) /\ Lists3(s, t) /\ t.highest = s.highest
           /\ t.migratory = [s.migratory EXCEPT ![c] = m]
           /\ t.overloaded = [s.overloaded EXCEPT ![c] = (m > 0 /\ Len(s.queue[c]) > 1)]
<1> DEFINE b == (m > 0 /\ Len(s.queue[c]) > 1)
<1>1. t = [s EXCEPT !.migratory[c] = m, !.overloaded[c] = b]
  BY DEF update_rt_migration, Kernels
<1>2. b \in BOOLEAN
  OBVIOUS
<1> HIDE DEF b
<1>3. [s EXCEPT !.migratory[c] = m, !.overloaded[c] = b] \in Kernels
  BY <1>2 DEF Kernels
<1>4. t \in Kernels
  BY <1>1, <1>3
<1>5. Outer(s, t) /\ Lists3(s, t) /\ t.highest = s.highest
  BY <1>1 DEF Kernels, Outer, Lists3
<1>6. /\ t.migratory = [s.migratory EXCEPT ![c] = m]
      /\ t.overloaded = [s.overloaded EXCEPT ![c] = b]
  BY <1>1 DEF Kernels
<1> QED  BY <1>4, <1>5, <1>6 DEF b

--------------------------------------------------------------------------------
(***************************************************************************)
(* What keeps the books right: a task that comes, one that goes, one that  *)
(* is offered or no longer is, and changes that concern none on a queue.   *)
(***************************************************************************)
LEMMA KernelFields ==
    ASSUME NEW s \in Kernels
    PROVE  /\ s.cpu \in [Tasks -> Cpus] /\ s.state \in [Tasks -> {"asleep", "waking", "running"}]
           /\ s.on_rq \in [Tasks -> BOOLEAN] /\ s.prio \in [Tasks -> Priorities]
           /\ s.allowed \in [Tasks -> (SUBSET Cpus) \ {{}}]
           /\ s.curr \in [Cpus -> Tasks \cup {Idle, Stop}] /\ s.resched \in [Cpus -> BOOLEAN]
           /\ s.queue \in [Cpus -> Seq(Tasks)] /\ s.pushable \in [Cpus -> Seq(Tasks)]
           /\ s.highest \in [Cpus -> 1 .. MaxRtPrio] /\ s.migratory \in [Cpus -> Int]
           /\ s.overloaded \in [Cpus -> BOOLEAN] /\ s.post \in [Cpus -> BOOLEAN]
BY DEF Kernels

LEMMA KernelTypes ==
    ASSUME NEW s \in Kernels
    PROVE  /\ \A p \in Tasks : /\ s.cpu[p] \in Cpus /\ s.prio[p] \in Nat /\ s.prio[p] < MaxRtPrio
                               /\ s.prio[p] > 0 /\ s.on_rq[p] \in BOOLEAN
                               /\ s.allowed[p] \subseteq Cpus /\ s.allowed[p] # {}
                               /\ s.state[p] \in {"asleep", "waking", "running"}
           /\ \A c \in Cpus : /\ s.highest[c] \in Nat /\ s.migratory[c] \in Int
                              /\ s.queue[c] \in Seq(Tasks) /\ s.pushable[c] \in Seq(Tasks)
                              /\ s.curr[c] \in Tasks \cup {Idle, Stop} /\ s.resched[c] \in BOOLEAN
<1>1. \A x \in Priorities : x \in Nat /\ x < MaxRtPrio /\ x > 0
  BY Constants DEF Priorities
<1>2. 1 .. MaxRtPrio \subseteq Nat
  BY Constants
<1> QED  BY <1>1, <1>2, KernelFields

LEMMA ExceptAt ==
    ASSUME NEW S, NEW T, NEW f \in [S -> T], NEW c, NEW v, NEW g, g = [f EXCEPT ![c] = v]
    PROVE  \A d \in S : g[d] = IF d = c THEN v ELSE f[d]
OBVIOUS

\* What the queue of c tells when p has come, or has gone and left this queue.
Raised(s, c, p) == IF s.prio[p] < s.highest[c] THEN s.prio[p] ELSE s.highest[c]
Lowered(s, c, p, queue) == IF queue = <<>> THEN MaxRtPrio
                           ELSE IF s.prio[p] = s.highest[c] THEN s.prio[Head(queue)] ELSE s.highest[c]
More(s, c, p)  == IF weight(s, p) > 1 THEN s.migratory[c] + 1 ELSE s.migratory[c]
Fewer(s, c, p) == IF weight(s, p) > 1 THEN s.migratory[c] - 1 ELSE s.migratory[c]
Tells(t, c, h, m, queue) ==
    t.highest[c] = h /\ t.migratory[c] = m /\ t.overloaded[c] = (m > 0 /\ Len(queue) > 1)
OthersTell(s, t, c) ==
    \A d \in Cpus : d # c => /\ t.highest[d] = s.highest[d] /\ t.migratory[d] = s.migratory[d]
                             /\ t.overloaded[d] = s.overloaded[d]

LEMMA IncTasks ==
    ASSUME NEW s \in Kernels, NEW c \in Cpus, NEW p \in Tasks, NEW t, t = inc_rt_tasks(s, c, p)
    PROVE  /\ t \in Kernels /\ Outer(s, t) /\ Lists3(s, t)
           /\ Tells(t, c, Raised(s, c, p), More(s, c, p), s.queue[c]) /\ OthersTell(s, t, c)
<1> DEFINE m == IF weight(s, p) > 1 THEN s.migratory[c] + 1 ELSE s.migratory[c]
           u == inc_rt_prio(s, c, s.prio[p])
<1>1. s.prio[p] \in Priorities /\ m \in Int
  BY DEF Kernels
<1>2. /\ u \in Kernels /\ Outer(s, u) /\ Lists3(s, u)
      /\ u.migratory = s.migratory /\ u.overloaded = s.overloaded
      /\ u.highest = [s.highest EXCEPT ![c] = IF s.prio[p] < s.highest[c] THEN s.prio[p] ELSE s.highest[c]]
  BY <1>1, IncPrio
<1>3. t = update_rt_migration([u EXCEPT !.migratory[c] = m], c)
  BY <1>2 DEF inc_rt_tasks
<1> HIDE DEF u, m
<1>4. /\ t \in Kernels /\ Outer(u, t) /\ Lists3(u, t) /\ t.highest = u.highest
      /\ t.migratory = [u.migratory EXCEPT ![c] = m]
      /\ t.overloaded = [u.overloaded EXCEPT ![c] = (m > 0 /\ Len(u.queue[c]) > 1)]
  BY <1>1, <1>2, <1>3, CountSet
<1>5. Outer(s, t) /\ Lists3(s, t) /\ t.queue = s.queue /\ u.queue = s.queue
  BY <1>2, <1>4 DEF Outer, Lists3
<1>6. \A d \in Cpus : t.highest[d] = IF d = c THEN u.highest[c] ELSE s.highest[d]
  <2>1. s.highest \in [Cpus -> 1 .. MaxRtPrio]
    BY KernelFields
  <2>2. \A d \in Cpus : u.highest[d] = s.highest[d] \/ d = c
    BY <1>2, <2>1, ExceptAt
  <2> QED  BY <1>4, <2>2
<1>7. u.highest[c] = IF s.prio[p] < s.highest[c] THEN s.prio[p] ELSE s.highest[c]
  <2>1. s.highest \in [Cpus -> 1 .. MaxRtPrio]
    BY KernelFields
  <2> QED  BY <1>2, <2>1, ExceptAt
<1>8. \A d \in Cpus : t.migratory[d] = IF d = c THEN m ELSE s.migratory[d]
  <2>1. s.migratory \in [Cpus -> Int]
    BY KernelFields
  <2> QED  BY <1>2, <1>4, <2>1, ExceptAt
<1>9. \A d \in Cpus : t.overloaded[d] = IF d = c THEN (m > 0 /\ Len(s.queue[c]) > 1) ELSE s.overloaded[d]
  <2>1. s.overloaded \in [Cpus -> BOOLEAN]
    BY KernelFields
  <2> QED  BY <1>2, <1>4, <1>5, <2>1, ExceptAt
<1> QED  BY <1>4, <1>5, <1>6, <1>7, <1>8, <1>9 DEF m, Tells, OthersTell, Raised, More

LEMMA DecTasks ==
    ASSUME NEW s \in Kernels, NEW c \in Cpus, NEW p \in Tasks, NEW t, t = dec_rt_tasks(s, c, p)
    PROVE  /\ t \in Kernels /\ Outer(s, t) /\ Lists3(s, t)
           /\ Tells(t, c, Lowered(s, c, p, s.queue[c]), Fewer(s, c, p), s.queue[c]) /\ OthersTell(s, t, c)
<1> DEFINE m == IF weight(s, p) > 1 THEN s.migratory[c] - 1 ELSE s.migratory[c]
           u == dec_rt_prio(s, c, s.prio[p])
<1>1. s.prio[p] \in Priorities /\ m \in Int
  BY DEF Kernels
<1>2. /\ u \in Kernels /\ Outer(s, u) /\ Lists3(s, u)
      /\ u.migratory = s.migratory /\ u.overloaded = s.overloaded
      /\ u.highest = [s.highest EXCEPT ![c] =
             IF s.queue[c] = <<>> THEN MaxRtPrio
             ELSE IF s.prio[p] = s.highest[c] THEN s.prio[Head(s.queue[c])] ELSE s.highest[c]]
  BY <1>1, DecPrio
<1>3. t = update_rt_migration([u EXCEPT !.migratory[c] = m], c)
  BY <1>2 DEF dec_rt_tasks
<1> HIDE DEF u, m
<1>4. /\ t \in Kernels /\ Outer(u, t) /\ Lists3(u, t) /\ t.highest = u.highest
      /\ t.migratory = [u.migratory EXCEPT ![c] = m]
      /\ t.overloaded = [u.overloaded EXCEPT ![c] = (m > 0 /\ Len(u.queue[c]) > 1)]
  BY <1>1, <1>2, <1>3, CountSet
<1>5. Outer(s, t) /\ Lists3(s, t) /\ t.queue = s.queue /\ u.queue = s.queue
  BY <1>2, <1>4 DEF Outer, Lists3
<1>6. \A d \in Cpus : t.highest[d] = IF d = c THEN u.highest[c] ELSE s.highest[d]
  <2>1. s.highest \in [Cpus -> 1 .. MaxRtPrio]
    BY KernelFields
  <2>2. \A d \in Cpus : u.highest[d] = s.highest[d] \/ d = c
    BY <1>2, <2>1, ExceptAt
  <2> QED  BY <1>4, <2>2
<1>7. u.highest[c] = IF s.queue[c] = <<>> THEN MaxRtPrio
                    ELSE IF s.prio[p] = s.highest[c] THEN s.prio[Head(s.queue[c])] ELSE s.highest[c]
  <2>1. s.highest \in [Cpus -> 1 .. MaxRtPrio]
    BY KernelFields
  <2> QED  BY <1>2, <2>1, ExceptAt
<1>8. \A d \in Cpus : t.migratory[d] = IF d = c THEN m ELSE s.migratory[d]
  <2>1. s.migratory \in [Cpus -> Int]
    BY KernelFields
  <2> QED  BY <1>2, <1>4, <2>1, ExceptAt
<1>9. \A d \in Cpus : t.overloaded[d] = IF d = c THEN (m > 0 /\ Len(s.queue[c]) > 1) ELSE s.overloaded[d]
  <2>1. s.overloaded \in [Cpus -> BOOLEAN]
    BY KernelFields
  <2> QED  BY <1>2, <1>4, <1>5, <2>1, ExceptAt
<1> QED  BY <1>4, <1>5, <1>6, <1>7, <1>8, <1>9 DEF m, Tells, OthersTell, Lowered, Fewer

LEMMA QueuedFinite ==
    ASSUME NEW s, NEW c
    PROVE  /\ IsFiniteSet(Queued(s, c)) /\ Cardinality(Queued(s, c)) \in Nat
           /\ IsFiniteSet(Movable(s, c)) /\ Cardinality(Movable(s, c)) \in Nat
<1>1. Queued(s, c) \in SUBSET Tasks /\ Movable(s, c) \in SUBSET Tasks
  BY DEF Queued, Movable
<1> QED  BY <1>1, Constants, FS_Subset, FS_CardinalityType

\* All tasks have the priority and the affinity they had.
Alike(s, t) == \A q \in Tasks : t.prio[q] = s.prio[q] /\ t.allowed[q] = s.allowed[q]

LEMMA SameAt ==
    ASSUME NEW s, NEW t, NEW c, RightAt(s, c), Queued(t, c) = Queued(s, c),
           \A q \in Queued(s, c) : t.prio[q] = s.prio[q] /\ weight(t, q) = weight(s, q),
           t.queue[c] = s.queue[c], t.highest[c] = s.highest[c], t.migratory[c] = s.migratory[c],
           t.overloaded[c] = s.overloaded[c], t.pushable[c] = s.pushable[c]
    PROVE  RightAt(t, c)
<1>1. Movable(t, c) = Movable(s, c) /\ Movable(s, c) \subseteq Queued(s, c)
  BY DEF Movable
<1>2. ListRight(t, c)
  BY SameLists DEF RightAt, ListRight
<1>3. Highest(t, t.highest[c], Queued(t, c))
  BY DEF RightAt, Highest
<1>4. CountRight(t, c)
  BY <1>1 DEF RightAt, CountRight
<1>5. OfferRight(t, c)
  <2>1. Lists(s, s.pushable[c], ToSet(s.pushable[c])) /\ ToSet(s.pushable[c]) \subseteq Movable(s, c)
    BY DEF RightAt, OfferRight
  <2>2. Lists(t, s.pushable[c], ToSet(s.pushable[c]))
    BY <1>1, <2>1, SameLists
  <2> QED  BY <1>1, <2>1, <2>2 DEF OfferRight
<1> QED  BY <1>2, <1>3, <1>4, <1>5 DEF RightAt

LEMMA OfferAt ==
    ASSUME NEW s, NEW t, NEW c, OfferRight(s, c), Movable(s, c) \subseteq Movable(t, c),
           \A q \in Tasks : t.prio[q] = s.prio[q], t.pushable[c] = s.pushable[c]
    PROVE  OfferRight(t, c)
<1>1. Lists(s, s.pushable[c], ToSet(s.pushable[c])) /\ ToSet(s.pushable[c]) \subseteq Movable(s, c)
  BY DEF OfferRight
<1>2. Movable(s, c) \subseteq Tasks
  BY DEF Movable, Queued
<1>3. Lists(t, s.pushable[c], ToSet(s.pushable[c]))
  BY <1>1, <1>2, SameLists
<1> QED  BY <1>1, <1>3 DEF OfferRight

LEMMA GainAt ==
    ASSUME NEW s \in Kernels, NEW t, NEW c \in Cpus, RightAt(s, c), Alike(s, t),
           NEW p \in Tasks, p \notin Queued(s, c), Queued(t, c) = Queued(s, c) \cup {p},
           Lists(s, t.queue[c], Queued(t, c)), t.pushable[c] = s.pushable[c],
           Tells(t, c, Raised(s, c, p), More(s, c, p), t.queue[c])
    PROVE  RightAt(t, c)
<1>0. /\ t.highest[c] = IF s.prio[p] < s.highest[c] THEN s.prio[p] ELSE s.highest[c]
      /\ t.migratory[c] = IF weight(s, p) > 1 THEN s.migratory[c] + 1 ELSE s.migratory[c]
      /\ t.overloaded[c] = (t.migratory[c] > 0 /\ Len(t.queue[c]) > 1)
  BY DEF Tells, Raised, More
<1>1. Queued(s, c) \subseteq Tasks /\ Queued(t, c) \subseteq Tasks
  BY DEF Queued
<1>2. \A q \in Tasks : t.prio[q] = s.prio[q] /\ weight(t, q) = weight(s, q)
  BY DEF Alike, weight
<1>3. Movable(t, c) = IF weight(s, p) > 1 THEN Movable(s, c) \cup {p} ELSE Movable(s, c)
  BY <1>1, <1>2 DEF Movable
<1>4. ListRight(t, c)
  BY <1>1, <1>2, SameLists DEF ListRight
<1>5. Highest(t, t.highest[c], Queued(t, c))
  <2>1. Highest(s, s.highest[c], Queued(s, c))
    BY DEF RightAt
  <2>2. /\ s.highest[c] \in Nat /\ s.prio[p] \in Nat /\ s.prio[p] < MaxRtPrio /\ MaxRtPrio \in Nat
        /\ t.prio[p] = s.prio[p] /\ \A q \in Queued(s, c) : t.prio[q] = s.prio[q] /\ s.prio[q] \in Nat
    BY <1>1, <1>2, KernelTypes, Constants
  <2>3. \A q \in Queued(t, c) : t.highest[c] <= t.prio[q]
    BY <1>0, <2>1, <2>2 DEF Highest
  <2>4. \E q \in Queued(t, c) : t.prio[q] = t.highest[c]
    <3>1. CASE s.prio[p] < s.highest[c]
      BY <1>0, <2>2, <3>1
    <3>2. CASE ~(s.prio[p] < s.highest[c])
      <4>1. Queued(s, c) # {}
        BY <2>1, <2>2, <3>2 DEF Highest
      <4> QED  BY <1>0, <2>1, <2>2, <3>2, <4>1 DEF Highest
    <3> QED  BY <3>1, <3>2
  <2> QED  BY <2>3, <2>4 DEF Highest
<1>6. CountRight(t, c)
  <2>1. CountRight(s, c)
    BY DEF RightAt
  <2>2. Len(t.queue[c]) = Cardinality(Queued(t, c))
    BY ListSize
  <2>3. t.migratory[c] = Cardinality(Movable(t, c))
    <3>1. p \notin Movable(s, c)
      BY DEF Movable
    <3>2. weight(s, p) > 1 => Cardinality(Movable(s, c) \cup {p}) = Cardinality(Movable(s, c)) + 1
      BY <3>1, QueuedFinite, FS_AddElement
    <3> QED  BY <1>0, <1>3, <2>1, <3>2 DEF CountRight
  <2> QED  BY <1>0, <2>2, <2>3 DEF CountRight
<1>7. OfferRight(t, c)
  BY <1>2, <1>3, OfferAt DEF RightAt
<1> QED  BY <1>4, <1>5, <1>6, <1>7 DEF RightAt

LEMMA LossAt ==
    ASSUME NEW s \in Kernels, NEW t, NEW c \in Cpus, RightAt(s, c), Alike(s, t),
           NEW p \in Queued(s, c), Queued(t, c) = Queued(s, c) \ {p},
           Lists(s, t.queue[c], Queued(t, c)), Lists(s, t.pushable[c], ToSet(s.pushable[c]) \ {p}),
           Tells(t, c, Lowered(s, c, p, t.queue[c]), Fewer(s, c, p), t.queue[c])
    PROVE  RightAt(t, c)
<1>0. /\ t.highest[c] = IF t.queue[c] = <<>> THEN MaxRtPrio
                         ELSE IF s.prio[p] = s.highest[c] THEN s.prio[Head(t.queue[c])] ELSE s.highest[c]
      /\ t.migratory[c] = IF weight(s, p) > 1 THEN s.migratory[c] - 1 ELSE s.migratory[c]
      /\ t.overloaded[c] = (t.migratory[c] > 0 /\ Len(t.queue[c]) > 1)
  BY DEF Tells, Lowered, Fewer
<1>1. Queued(s, c) \subseteq Tasks /\ Queued(t, c) \subseteq Tasks
  BY DEF Queued
<1>2. \A q \in Tasks : t.prio[q] = s.prio[q] /\ weight(t, q) = weight(s, q)
  BY DEF Alike, weight
<1>3. Movable(t, c) = Movable(s, c) \ {p} /\ Movable(s, c) \subseteq Tasks
  BY <1>1, <1>2 DEF Movable
<1>4. ListRight(t, c)
  BY <1>1, <1>2, SameLists DEF ListRight
<1>5. Highest(t, t.highest[c], Queued(t, c))
  <2> DEFINE list == t.queue[c]
             h == s.prio[Head(list)]
  <2>1. Highest(s, s.highest[c], Queued(s, c))
    BY DEF RightAt
  <2>2. /\ list = <<>> <=> Queued(t, c) = {}
        /\ list # <<>> => Head(list) \in Queued(t, c) /\ \A q \in Queued(t, c) : q # Head(list) => h <= s.prio[q]
    BY ListSize
  <2>3. \A q \in Queued(t, c) : t.prio[q] = s.prio[q] /\ s.prio[q] \in Nat /\ s.highest[c] <= s.prio[q]
    BY <1>1, <1>2, <2>1, KernelTypes DEF Highest
  <2>4. t.highest[c] = IF list = <<>> THEN MaxRtPrio ELSE IF s.prio[p] = s.highest[c] THEN h ELSE s.highest[c]
    BY <1>0
  <2>5. CASE list = <<>>
    BY <2>2, <2>4, <2>5 DEF Highest
  <2>6. CASE list # <<>> /\ s.prio[p] = s.highest[c]
    <3>1. Head(list) \in Queued(t, c) /\ h \in Nat /\ t.prio[Head(list)] = h /\ t.highest[c] = h
      BY <2>2, <2>3, <2>4, <2>6
    <3> HIDE DEF h
    <3>2. \A q \in Queued(t, c) : h <= t.prio[q]
      BY <2>2, <2>3, <2>6, <3>1
    <3> QED  BY <2>2, <2>6, <3>1, <3>2 DEF Highest
  <2>7. CASE list # <<>> /\ s.prio[p] # s.highest[c]
    <3>1. PICK q \in Queued(s, c) : s.prio[q] = s.highest[c]
      BY <2>1 DEF Highest
    <3>2. q \in Queued(t, c) /\ t.highest[c] = s.highest[c]
      BY <2>4, <2>7, <3>1
    <3> QED  BY <2>3, <3>1, <3>2 DEF Highest
  <2> QED  BY <2>5, <2>6, <2>7
<1>6. CountRight(t, c)
  <2>1. CountRight(s, c)
    BY DEF RightAt
  <2>2. Len(t.queue[c]) = Cardinality(Queued(t, c))
    BY ListSize
  <2>3. t.migratory[c] = Cardinality(Movable(t, c))
    <3>1. p \in Movable(s, c) <=> weight(s, p) > 1
      BY DEF Movable
    <3>2. Cardinality(Movable(s, c) \ {p}) = IF p \in Movable(s, c) THEN Cardinality(Movable(s, c)) - 1
                                             ELSE Cardinality(Movable(s, c))
      BY QueuedFinite, FS_RemoveElement
    <3> QED  BY <1>0, <1>3, <2>1, <3>1, <3>2 DEF CountRight
  <2> QED  BY <1>0, <2>2, <2>3 DEF CountRight
<1>7. OfferRight(t, c)
  <2>1. ToSet(s.pushable[c]) \subseteq Movable(s, c)
    BY DEF RightAt, OfferRight
  <2>2. Lists(t, t.pushable[c], ToSet(s.pushable[c]) \ {p})
    BY <1>2, <1>3, <2>1, SameLists
  <2>3. ToSet(t.pushable[c]) = ToSet(s.pushable[c]) \ {p}
    BY <2>2 DEF Lists
  <2> QED  BY <1>3, <2>1, <2>2, <2>3 DEF OfferRight
<1> QED  BY <1>4, <1>5, <1>6, <1>7 DEF RightAt

\* Another list of tasks on offer, or in the queue, of the same priorities.
LEMMA OffersAt ==
    ASSUME NEW s, NEW t, NEW c, RightAt(s, c), Queued(t, c) = Queued(s, c),
           \A q \in Queued(s, c) : t.prio[q] = s.prio[q] /\ weight(t, q) = weight(s, q),
           Lists(s, t.queue[c], Queued(s, c)), t.highest[c] = s.highest[c], t.migratory[c] = s.migratory[c],
           t.overloaded[c] = s.overloaded[c],
           Lists(s, t.pushable[c], ToSet(t.pushable[c])), ToSet(t.pushable[c]) \subseteq Movable(s, c)
    PROVE  RightAt(t, c)
<1>1. Movable(t, c) = Movable(s, c) /\ Movable(s, c) \subseteq Queued(s, c)
  BY DEF Movable
<1>2. ListRight(t, c)
  BY SameLists DEF ListRight
<1>3. Highest(t, t.highest[c], Queued(t, c))
  BY DEF RightAt, Highest
<1>4. CountRight(t, c)
  BY <1>1 DEF RightAt, CountRight
<1>5. OfferRight(t, c)
  <2>1. Lists(t, t.pushable[c], ToSet(t.pushable[c]))
    BY <1>1, SameLists
  <2> QED  BY <1>1, <2>1 DEF OfferRight
<1> QED  BY <1>2, <1>3, <1>4, <1>5 DEF RightAt
--------------------------------------------------------------------------------
(***************************************************************************)
(* The operators of RtBalance, one by one.                                 *)
(***************************************************************************)
WithOffer(s, c, list) == [s EXCEPT !.pushable[c] = list]
OtherOffers(s, t, c) == \A d \in Cpus : d # c => t.pushable[d] = s.pushable[d]
SameQueues(s, t) == /\ t.on_rq = s.on_rq /\ t.queue = s.queue
                    /\ t.highest = s.highest /\ t.migratory = s.migratory /\ t.overloaded = s.overloaded

LEMMA PushableSet ==
    ASSUME NEW s \in Kernels, NEW c \in Cpus, NEW list \in Seq(Tasks), NEW t, t = WithOffer(s, c, list)
    PROVE  /\ t \in Kernels /\ Outer(s, t) /\ SameQueues(s, t)
           /\ t.pushable[c] = list /\ OtherOffers(s, t, c)
<1>1. t \in Kernels
  BY DEF Kernels, WithOffer
<1>2. Outer(s, t)
  BY DEF Kernels, Outer, WithOffer
<1>3. SameQueues(s, t)
  BY DEF Kernels, WithOffer, SameQueues
<1>4. t.pushable = [s.pushable EXCEPT ![c] = list]
  BY DEF Kernels, WithOffer
<1>5. \A d \in Cpus : t.pushable[d] = IF d = c THEN list ELSE s.pushable[d]
  <2>1. s.pushable \in [Cpus -> Seq(Tasks)]
    BY KernelFields
  <2> QED  BY <1>4, <2>1, ExceptAt
<1> QED  BY <1>1, <1>2, <1>3, <1>5 DEF OtherOffers

LEMMA Offered ==
    ASSUME NEW s, Right(s), NEW c \in Cpus, NEW list, NEW R, Lists(s, list, R), R \subseteq Movable(s, c),
           NEW t, Outer(s, t), SameQueues(s, t), t.pushable[c] = list, OtherOffers(s, t, c)
    PROVE  Right(t)
<1>1. ToSet(list) = R
  BY DEF Lists
<1>2. \A d \in Cpus : Queued(t, d) = Queued(s, d) /\ Queued(s, d) \subseteq Tasks
  BY DEF Queued, Outer, SameQueues
<1>3. \A q \in Tasks : t.prio[q] = s.prio[q] /\ weight(t, q) = weight(s, q)
  BY DEF Outer, weight
<1>4. ASSUME NEW d \in Cpus PROVE RightAt(t, d)
  <2>1. RightAt(s, d)
    BY DEF Right
  <2>2. CASE d = c
    <3>1. Lists(s, t.queue[c], Queued(s, c))
      BY <2>1, <2>2 DEF RightAt, ListRight, SameQueues
    <3> QED  BY <1>1, <1>2, <1>3, <2>1, <2>2, <3>1, OffersAt DEF SameQueues
  <2>3. CASE d # c
    <3>1. t.pushable[d] = s.pushable[d]
      BY <2>3 DEF OtherOffers
    <3> QED  BY <1>2, <1>3, <2>1, <3>1, SameAt DEF SameQueues
  <2> QED  BY <2>2, <2>3
<1> QED  BY <1>4 DEF Right

LEMMA Offer ==
    ASSUME NEW s \in Kernels, Right(s), NEW c \in Cpus, NEW list, NEW R, Lists(s, list, R),
           R \subseteq Movable(s, c), NEW t, t = WithOffer(s, c, list)
    PROVE  /\ t \in Kernels /\ Right(t) /\ Outer(s, t) /\ t.on_rq = s.on_rq
           /\ ToSet(t.pushable[c]) = R /\ OtherOffers(s, t, c)
<1>1. list \in Seq(Tasks) /\ ToSet(list) = R
  BY DEF Lists
<1>2. /\ t \in Kernels /\ Outer(s, t) /\ SameQueues(s, t)
      /\ t.pushable[c] = list /\ OtherOffers(s, t, c)
  BY <1>1, PushableSet
<1>3. Right(t)
  BY <1>2, Offered
<1> QED  BY <1>1, <1>2, <1>3 DEF SameQueues

LEMMA EnqueuePushable ==
    ASSUME NEW s \in Kernels, Right(s), NEW c \in Cpus, NEW p \in Movable(s, c),
           NEW t, t = enqueue_pushable_task(s, c, p)
    PROVE  /\ t \in Kernels /\ Right(t) /\ Outer(s, t) /\ t.on_rq = s.on_rq
           /\ ToSet(t.pushable[c]) = ToSet(s.pushable[c]) \cup {p}
           /\ OtherOffers(s, t, c)
<1> DEFINE R == ToSet(s.pushable[c])
           rest == RemoveFirst(s.pushable[c], p)
           list == AddTail(s, rest, p)
<1>1. Lists(s, s.pushable[c], R) /\ R \subseteq Movable(s, c) /\ p \in Tasks
  BY DEF Right, RightAt, OfferRight, Movable, Queued
<1>2. Lists(s, rest, R \ {p})
  BY <1>1, RemoveLists
<1>3. t = WithOffer(s, c, list)
  BY DEF enqueue_pushable_task, WithOffer
<1> HIDE DEF R, rest
<1>4. Lists(s, list, (R \ {p}) \cup {p})
  BY <1>1, <1>2, AddLists
<1>5. (R \ {p}) \cup {p} = R \cup {p}
  OBVIOUS
<1> HIDE DEF list
<1>6. R \cup {p} \subseteq Movable(s, c)
  BY <1>1
<1>7. Lists(s, list, R \cup {p})
  BY <1>4, <1>5
<1>8. /\ t \in Kernels /\ Right(t) /\ Outer(s, t) /\ t.on_rq = s.on_rq
      /\ ToSet(t.pushable[c]) = R \cup {p} /\ OtherOffers(s, t, c)
  BY <1>3, <1>6, <1>7, Offer
<1> QED  BY <1>8 DEF R

LEMMA DequeuePushable ==
    ASSUME NEW s \in Kernels, Right(s), NEW c \in Cpus, NEW p, NEW t, t = dequeue_pushable_task(s, c, p)
    PROVE  /\ t \in Kernels /\ Right(t) /\ Outer(s, t) /\ t.on_rq = s.on_rq
           /\ ToSet(t.pushable[c]) = ToSet(s.pushable[c]) \ {p}
           /\ OtherOffers(s, t, c)
<1> DEFINE R == ToSet(s.pushable[c])
           list == RemoveFirst(s.pushable[c], p)
<1>1. Lists(s, s.pushable[c], R) /\ R \subseteq Movable(s, c)
  BY DEF Right, RightAt, OfferRight
<1>2. Lists(s, list, R \ {p})
  BY <1>1, RemoveLists
<1>3. t = WithOffer(s, c, list)
  BY DEF dequeue_pushable_task, WithOffer
<1> HIDE DEF R, list
<1>4. R \ {p} \subseteq Movable(s, c)
  BY <1>1
<1>5. /\ t \in Kernels /\ Right(t) /\ Outer(s, t) /\ t.on_rq = s.on_rq
      /\ ToSet(t.pushable[c]) = R \ {p} /\ OtherOffers(s, t, c)
  BY <1>2, <1>3, <1>4, Offer
<1> QED  BY <1>5 DEF R

WithQueue(s, c, list, p, on) == [s EXCEPT !.queue[c] = list, !.on_rq[p] = on]

OthersStay(s, t, p)  == \A q \in Tasks : q # p => t.on_rq[q] = s.on_rq[q]
OtherQueues(s, t, c) == \A d \in Cpus : d # c => t.queue[d] = s.queue[d]
SameRest(s, t) == /\ t.highest = s.highest /\ t.migratory = s.migratory /\ t.overloaded = s.overloaded
                  /\ t.pushable = s.pushable

LEMMA QueueSet ==
    ASSUME NEW s \in Kernels, NEW c \in Cpus, NEW list \in Seq(Tasks), NEW p \in Tasks, NEW on \in BOOLEAN,
           NEW t, t = WithQueue(s, c, list, p, on)
    PROVE  /\ t \in Kernels /\ Outer(s, t) /\ SameRest(s, t)
           /\ t.queue[c] = list /\ OtherQueues(s, t, c)
           /\ (t.on_rq[p] <=> on) /\ OthersStay(s, t, p)
<1>1. t \in Kernels
  BY DEF Kernels, WithQueue
<1>2. Outer(s, t)
  BY DEF Kernels, Outer, WithQueue
<1>3. SameRest(s, t)
  BY DEF Kernels, WithQueue, SameRest
<1>4. t.queue = [s.queue EXCEPT ![c] = list]
  BY DEF Kernels, WithQueue
<1>5. t.on_rq = [s.on_rq EXCEPT ![p] = on]
  BY DEF Kernels, WithQueue
<1>6. \A d \in Cpus : t.queue[d] = IF d = c THEN list ELSE s.queue[d]
  BY <1>4, KernelFields, ExceptAt
<1>7. \A q \in Tasks : t.on_rq[q] = IF q = p THEN on ELSE s.on_rq[q]
  BY <1>5, KernelFields, ExceptAt
<1> QED  BY <1>1, <1>2, <1>3, <1>6, <1>7 DEF OthersStay, OtherQueues

\* Who is queued where, when a task comes or goes.
LEMMA Comes ==
    ASSUME NEW s, NEW t, Outer(s, t), NEW p \in Tasks, ~s.on_rq[p], t.on_rq[p],
           OthersStay(s, t, p)
    PROVE  /\ p \notin Queued(s, s.cpu[p]) /\ Queued(t, s.cpu[p]) = Queued(s, s.cpu[p]) \cup {p}
           /\ \A d \in Cpus : d # s.cpu[p] => Queued(t, d) = Queued(s, d)
BY DEF Queued, Outer, OthersStay

LEMMA Goes ==
    ASSUME NEW s, NEW t, Outer(s, t), NEW p \in Tasks, s.on_rq[p], ~t.on_rq[p],
           OthersStay(s, t, p)
    PROVE  /\ p \in Queued(s, s.cpu[p]) /\ Queued(t, s.cpu[p]) = Queued(s, s.cpu[p]) \ {p}
           /\ \A d \in Cpus : d # s.cpu[p] => Queued(t, d) = Queued(s, d)
BY DEF Queued, Outer, OthersStay

\* Queues, offers and fields of the other CPUs stay.
Elsewhere(s, t, c) ==
    \A d \in Cpus : d # c => /\ t.queue[d] = s.queue[d] /\ t.highest[d] = s.highest[d]
                             /\ t.migratory[d] = s.migratory[d] /\ t.overloaded[d] = s.overloaded[d]
                             /\ t.pushable[d] = s.pushable[d]

LEMMA RightElsewhere ==
    ASSUME NEW s, NEW t, NEW c \in Cpus, Right(s), Outer(s, t), Elsewhere(s, t, c), RightAt(t, c),
           \A d \in Cpus : d # c => Queued(t, d) = Queued(s, d)
    PROVE  Right(t)
<1>1. ASSUME NEW d \in Cpus, d # c PROVE RightAt(t, d)
  <2>1. RightAt(s, d) /\ Queued(s, d) \subseteq Tasks
    BY DEF Right, Queued
  <2>2. \A q \in Queued(s, d) : t.prio[q] = s.prio[q] /\ weight(t, q) = weight(s, q)
    BY DEF Outer, weight
  <2> QED  BY <1>1, <2>1, <2>2, SameAt DEF Elsewhere
<1> QED  BY <1>1 DEF Right

Arrive(s, c, list, p) == WithQueue(s, c, list, p, TRUE)
Depart(s, c, list, p) == WithQueue(s, c, list, p, FALSE)

LEMMA Arrived ==
    ASSUME NEW s \in Kernels, NEW c \in Cpus, NEW list \in Seq(Tasks), NEW p \in Tasks,
           NEW t, t = Arrive(s, c, list, p)
    PROVE  /\ t \in Kernels /\ Outer(s, t) /\ SameRest(s, t)
           /\ t.queue[c] = list /\ OtherQueues(s, t, c)
           /\ t.on_rq[p] /\ OthersStay(s, t, p)
<1> DEFINE on == TRUE
<1>1. on \in BOOLEAN /\ t = WithQueue(s, c, list, p, on)
  BY DEF Arrive
<1>2. on
  OBVIOUS
<1> HIDE DEF on
<1>3. /\ t \in Kernels /\ Outer(s, t) /\ SameRest(s, t)
      /\ t.queue[c] = list /\ OtherQueues(s, t, c)
      /\ (t.on_rq[p] <=> on) /\ OthersStay(s, t, p)
  BY <1>1, QueueSet
<1> QED  BY <1>2, <1>3, Zenon

LEMMA Departed ==
    ASSUME NEW s \in Kernels, NEW c \in Cpus, NEW list \in Seq(Tasks), NEW p \in Tasks,
           NEW t, t = Depart(s, c, list, p)
    PROVE  /\ t \in Kernels /\ Outer(s, t) /\ SameRest(s, t)
           /\ t.queue[c] = list /\ OtherQueues(s, t, c)
           /\ ~t.on_rq[p] /\ OthersStay(s, t, p)
<1> DEFINE on == FALSE
<1>1. on \in BOOLEAN /\ t = WithQueue(s, c, list, p, on)
  BY DEF Depart
<1>2. ~on
  OBVIOUS
<1> HIDE DEF on
<1>3. /\ t \in Kernels /\ Outer(s, t) /\ SameRest(s, t)
      /\ t.queue[c] = list /\ OtherQueues(s, t, c)
      /\ (t.on_rq[p] <=> on) /\ OthersStay(s, t, p)
  BY <1>1, QueueSet
<1> QED  BY <1>2, <1>3, Zenon

LEMMA ActivateQueue ==
    ASSUME NEW s \in Kernels, Right(s), NEW p \in Tasks, ~s.on_rq[p], NEW c, c = s.cpu[p],
           NEW list, Lists(s, list, Queued(s, c) \cup {p}),
           NEW u, u = Arrive(s, c, list, p), NEW t, t = inc_rt_tasks(u, c, p)
    PROVE  /\ t \in Kernels /\ Right(t) /\ Outer(s, t) /\ t.pushable = s.pushable
           /\ t.on_rq[p] /\ OthersStay(s, t, p)
<1>1. c \in Cpus
  BY KernelTypes
<1>2. list \in Seq(Tasks)
  BY DEF Lists
<1>3. /\ u \in Kernels /\ Outer(s, u) /\ SameRest(s, u)
      /\ u.queue[c] = list /\ OtherQueues(s, u, c)
      /\ u.on_rq[p] /\ OthersStay(s, u, p)
  BY <1>1, <1>2, Arrived
<1>4. /\ t \in Kernels /\ Outer(u, t) /\ Lists3(u, t)
      /\ Tells(t, c, Raised(u, c, p), More(u, c, p), u.queue[c]) /\ OthersTell(u, t, c)
  BY <1>1, <1>3, IncTasks
<1>5. Outer(s, t) /\ t.pushable = s.pushable /\ t.queue = u.queue /\ t.on_rq = u.on_rq
  BY <1>3, <1>4 DEF Outer, Lists3, SameRest
<1>6. Alike(s, t) /\ weight(u, p) = weight(s, p) /\ u.prio[p] = s.prio[p]
  BY <1>3, <1>5 DEF Alike, weight, Outer
<1>7. OthersStay(s, t, p) /\ t.on_rq[p]
  BY <1>3, <1>5 DEF OthersStay
<1>8. /\ p \notin Queued(s, c) /\ Queued(t, c) = Queued(s, c) \cup {p}
      /\ \A d \in Cpus : d # c => Queued(t, d) = Queued(s, d)
  BY <1>5, <1>7, Comes
<1>9. RightAt(t, c)
  <2>1. RightAt(s, c)
    BY <1>1 DEF Right
  <2>2. Lists(s, t.queue[c], Queued(t, c)) /\ t.pushable[c] = s.pushable[c]
    BY <1>3, <1>5, <1>8
  <2>3. Raised(u, c, p) = Raised(s, c, p) /\ More(u, c, p) = More(s, c, p) /\ u.queue[c] = t.queue[c]
    BY <1>3, <1>5, <1>6 DEF Raised, More, SameRest
  <2>4. Tells(t, c, Raised(s, c, p), More(s, c, p), t.queue[c])
    BY <1>4, <2>3
  <2> QED  BY <1>1, <1>6, <1>8, <2>1, <2>2, <2>4, GainAt
<1>10. Elsewhere(s, t, c)
  BY <1>3, <1>4, <1>5 DEF Elsewhere, OthersTell, OtherQueues, SameRest
<1>11. Right(t)
  BY <1>1, <1>5, <1>8, <1>9, <1>10, RightElsewhere
<1> QED  BY <1>4, <1>5, <1>7, <1>11

LEMMA DeactivateQueue ==
    ASSUME NEW s \in Kernels, Right(s), NEW p \in Tasks, s.on_rq[p], NEW c, c = s.cpu[p],
           NEW list, Lists(s, list, Queued(s, c) \ {p}), NEW offer, Lists(s, offer, ToSet(s.pushable[c]) \ {p}),
           NEW u, u = Depart(s, c, list, p), NEW v, v = dec_rt_tasks(u, c, p),
           NEW t, t = WithOffer(v, c, offer)
    PROVE  /\ t \in Kernels /\ Right(t) /\ Outer(s, t) /\ ~t.on_rq[p] /\ OthersStay(s, t, p)
           /\ t.pushable[c] = offer /\ OtherOffers(s, t, c)
<1>1. c \in Cpus
  BY KernelTypes
<1>2. list \in Seq(Tasks) /\ offer \in Seq(Tasks) /\ ToSet(offer) = ToSet(s.pushable[c]) \ {p}
  BY DEF Lists
<1>3. /\ u \in Kernels /\ Outer(s, u) /\ SameRest(s, u)
      /\ u.queue[c] = list /\ OtherQueues(s, u, c)
      /\ ~u.on_rq[p] /\ OthersStay(s, u, p)
  BY <1>1, <1>2, Departed
<1>4. /\ v \in Kernels /\ Outer(u, v) /\ Lists3(u, v)
      /\ Tells(v, c, Lowered(u, c, p, u.queue[c]), Fewer(u, c, p), u.queue[c]) /\ OthersTell(u, v, c)
  BY <1>1, <1>3, DecTasks
<1>5. /\ t \in Kernels /\ Outer(v, t) /\ SameQueues(v, t)
      /\ t.pushable[c] = offer /\ OtherOffers(v, t, c)
  BY <1>1, <1>2, <1>4, PushableSet
<1>6. t.pushable[c] = offer /\ OtherOffers(s, t, c)
  BY <1>3, <1>4, <1>5 DEF Lists3, SameRest, OtherOffers
<1>7. Outer(s, t) /\ t.queue = u.queue /\ t.on_rq = u.on_rq
  BY <1>3, <1>4, <1>5 DEF Outer, Lists3, SameQueues
<1>8. Alike(s, t) /\ weight(u, p) = weight(s, p) /\ \A q \in Tasks : u.prio[q] = s.prio[q]
  BY <1>3, <1>7 DEF Alike, weight, Outer
<1>9. OthersStay(s, t, p) /\ ~t.on_rq[p]
  BY <1>3, <1>7 DEF OthersStay
<1>10. /\ p \in Queued(s, c) /\ Queued(t, c) = Queued(s, c) \ {p}
       /\ \A d \in Cpus : d # c => Queued(t, d) = Queued(s, d)
  BY <1>7, <1>9, Goes
<1>11. RightAt(t, c)
  <2>1. RightAt(s, c)
    BY <1>1 DEF Right
  <2>2. Lists(s, t.queue[c], Queued(t, c)) /\ Lists(s, t.pushable[c], ToSet(s.pushable[c]) \ {p})
    BY <1>3, <1>6, <1>7, <1>10
  <2>3. Lowered(u, c, p, u.queue[c]) = Lowered(s, c, p, t.queue[c])
    <3>1. u.queue[c] = t.queue[c] /\ u.highest = s.highest
      BY <1>3, <1>7 DEF SameRest
    <3>2. u.prio = s.prio
      BY <1>3 DEF Outer
    <3> QED  BY <3>1, <3>2 DEF Lowered
  <2>4. Fewer(u, c, p) = Fewer(s, c, p) /\ u.queue[c] = t.queue[c]
    BY <1>3, <1>7, <1>8 DEF Fewer, SameRest
  <2>5. Tells(v, c, Lowered(s, c, p, t.queue[c]), Fewer(s, c, p), t.queue[c])
    BY <1>4, <2>3, <2>4
  <2>6. Tells(t, c, Lowered(s, c, p, t.queue[c]), Fewer(s, c, p), t.queue[c])
    BY <1>5, <2>5 DEF Tells, SameQueues
  <2> QED  BY <1>1, <1>8, <1>10, <2>1, <2>2, <2>6, LossAt
<1>12. Elsewhere(s, t, c)
  <2>1. \A d \in Cpus : d # c => t.queue[d] = s.queue[d]
    BY <1>3, <1>7 DEF OtherQueues
  <2>2. OthersTell(s, v, c)
    BY <1>3, <1>4 DEF OthersTell, SameRest
  <2>3. OthersTell(s, t, c)
    BY <1>5, <2>2 DEF OthersTell, SameQueues
  <2> QED  BY <1>6, <2>1, <2>3 DEF Elsewhere, OthersTell, OtherOffers
<1>13. Right(t)
  BY <1>1, <1>7, <1>10, <1>11, <1>12, RightElsewhere
<1> QED  BY <1>2, <1>5, <1>6, <1>7, <1>9, <1>13

\* What changes of a kernel while nothing but p comes or goes.
LEMMA Activated ==
    ASSUME NEW s \in Kernels, Right(s), OffersWait(s), NEW p \in Tasks, ~s.on_rq[p], NEW head \in BOOLEAN,
           NEW t, t = activate_task(s, p, head)
    PROVE  /\ t \in Kernels /\ Right(t) /\ OffersWait(t) /\ Outer(s, t)
           /\ t.on_rq[p] /\ OthersStay(s, t, p)
<1> DEFINE c == s.cpu[p]
           list == IF head THEN AddHead(s, s.queue[c], p) ELSE AddTail(s, s.queue[c], p)
           u == Arrive(s, c, list, p)
           v == inc_rt_tasks(u, c, p)
<1>1. c \in Cpus
  BY KernelTypes
<1>2. Lists(s, list, Queued(s, c) \cup {p})
  <2>1. p \notin Queued(s, c) /\ Lists(s, s.queue[c], Queued(s, c))
    BY <1>1 DEF Queued, Right, RightAt, ListRight
  <2>2. /\ Lists(s, AddTail(s, s.queue[c], p), Queued(s, c) \cup {p})
        /\ Lists(s, AddHead(s, s.queue[c], p), Queued(s, c) \cup {p})
    BY <2>1, AddLists
  <2> QED  BY <2>2
<1>3. t = IF s.curr[c] # p /\ weight(s, p) > 1 THEN enqueue_pushable_task(v, c, p) ELSE v
  BY DEF activate_task, Arrive, WithQueue
<1>4. c = s.cpu[p] /\ u = Arrive(s, c, list, p) /\ v = inc_rt_tasks(u, c, p)
  OBVIOUS
<1> HIDE DEF c, list, u, v
<1>5. /\ v \in Kernels /\ Right(v) /\ Outer(s, v) /\ v.pushable = s.pushable
      /\ v.on_rq[p] /\ OthersStay(s, v, p)
  BY <1>2, <1>4, ActivateQueue
<1>6. OffersWait(v)
  BY <1>5 DEF OffersWait, Outer
<1>7. CASE ~(s.curr[c] # p /\ weight(s, p) > 1)
  BY <1>3, <1>5, <1>6, <1>7
<1>8. CASE s.curr[c] # p /\ weight(s, p) > 1
  <2>1. t = enqueue_pushable_task(v, c, p)
    BY <1>3, <1>8
  <2>2. p \in Movable(v, c)
    BY <1>4, <1>5, <1>8 DEF Movable, Queued, Outer, weight
  <2>3. /\ t \in Kernels /\ Right(t) /\ Outer(v, t) /\ t.on_rq = v.on_rq
        /\ ToSet(t.pushable[c]) = ToSet(v.pushable[c]) \cup {p}
        /\ OtherOffers(v, t, c)
    BY <1>1, <1>5, <2>1, <2>2, EnqueuePushable
  <2>4. Outer(s, t) /\ t.on_rq[p] /\ OthersStay(s, t, p)
    BY <1>5, <2>3 DEF Outer, OthersStay
  <2>5. OffersWait(t)
    <3>1. t.curr = v.curr /\ t.curr[c] # p
      BY <1>5, <1>8, <2>3 DEF Outer
    <3> QED  BY <1>6, <2>3, <3>1 DEF OffersWait, OtherOffers
  <2> QED  BY <2>3, <2>4, <2>5
<1> QED  BY <1>7, <1>8

LEMMA Deactivated ==
    ASSUME NEW s \in Kernels, Right(s), OffersWait(s), NEW p \in Tasks, s.on_rq[p],
           NEW t, t = deactivate_task(s, p)
    PROVE  /\ t \in Kernels /\ Right(t) /\ OffersWait(t) /\ Outer(s, t)
           /\ ~t.on_rq[p] /\ OthersStay(s, t, p)
<1> DEFINE c == s.cpu[p]
           list == RemoveFirst(s.queue[c], p)
           u == Depart(s, c, list, p)
           v == dec_rt_tasks(u, c, p)
           offer == RemoveFirst(s.pushable[c], p)
<1>1. c \in Cpus
  BY KernelTypes
<1>2. t = WithOffer(v, c, RemoveFirst(v.pushable[c], p))
  BY DEF deactivate_task, dequeue_pushable_task, Depart, WithQueue, WithOffer
<1>3. list = RemoveFirst(s.queue[c], p) /\ offer = RemoveFirst(s.pushable[c], p)
  OBVIOUS
<1>4. c = s.cpu[p] /\ u = Depart(s, c, list, p) /\ v = dec_rt_tasks(u, c, p)
  OBVIOUS
<1> HIDE DEF c, u, v, list, offer
<1>5. v.pushable = s.pushable
  <2>1. list \in Seq(Tasks)
    <3>1. Lists(s, s.queue[c], Queued(s, c))
      BY <1>1 DEF Right, RightAt, ListRight
    <3>2. Lists(s, list, Queued(s, c) \ {p})
      BY <1>3, <3>1, RemoveLists
    <3> QED  BY <3>2 DEF Lists
  <2>2. u \in Kernels /\ SameRest(s, u)
    BY <1>1, <1>4, <2>1, Departed
  <2>3. Lists3(u, v)
    BY <1>1, <1>4, <2>2, DecTasks
  <2> QED  BY <2>2, <2>3 DEF SameRest, Lists3
<1>6. t = WithOffer(v, c, offer)
  BY <1>2, <1>3, <1>5
<1>7. Lists(s, list, Queued(s, c) \ {p}) /\ Lists(s, offer, ToSet(s.pushable[c]) \ {p})
  <2>1. Lists(s, s.queue[c], Queued(s, c)) /\ Lists(s, s.pushable[c], ToSet(s.pushable[c]))
    BY <1>1 DEF Right, RightAt, ListRight, OfferRight
  <2> QED  BY <1>3, <2>1, RemoveLists
<1>8. /\ t \in Kernels /\ Right(t) /\ Outer(s, t) /\ ~t.on_rq[p] /\ OthersStay(s, t, p)
      /\ t.pushable[c] = offer /\ OtherOffers(s, t, c)
  BY <1>4, <1>6, <1>7, DeactivateQueue
<1>9. OffersWait(t)
  <2>1. t.curr = s.curr
    BY <1>8 DEF Outer
  <2>2. ToSet(t.pushable[c]) \subseteq ToSet(s.pushable[c])
    BY <1>8, <1>7 DEF Lists
  <2> QED  BY <1>1, <1>8, <2>1, <2>2 DEF OffersWait, OtherOffers
<1> QED  BY <1>8, <1>9
--------------------------------------------------------------------------------
(***************************************************************************)
(* Changes that leave the queues and offers alone.                         *)
(***************************************************************************)
SameBooks(s, t) == /\ t.queue = s.queue /\ t.pushable = s.pushable
                   /\ t.highest = s.highest /\ t.migratory = s.migratory /\ t.overloaded = s.overloaded

\* Nothing about a task changed but p, and no CPU has switched.
Alone(s, t, p) == \A q \in Tasks : q # p =>
    /\ t.cpu[q] = s.cpu[q] /\ t.state[q] = s.state[q] /\ t.on_rq[q] = s.on_rq[q]
    /\ t.prio[q] = s.prio[q] /\ t.allowed[q] = s.allowed[q]
SameRuns(s, t) == t.curr = s.curr /\ t.resched = s.resched

WithCpu(s, p, d) == [s EXCEPT !.cpu[p] = d]
WithState(s, p, x) == [s EXCEPT !.state[p] = x]
WithPrio(s, p, x) == [s EXCEPT !.prio[p] = x]
WithAllowed(s, p, mask) == [s EXCEPT !.allowed[p] = mask]

LEMMA CpuSet ==
    ASSUME NEW s \in Kernels, NEW p \in Tasks, NEW d \in Cpus, NEW t, t = WithCpu(s, p, d)
    PROVE  /\ t \in Kernels /\ SameBooks(s, t) /\ SameRuns(s, t) /\ t.cpu[p] = d
           /\ \A q \in Tasks : q # p => t.cpu[q] = s.cpu[q]
           /\ t.state = s.state /\ t.on_rq = s.on_rq /\ t.prio = s.prio /\ t.allowed = s.allowed
<1>1. t \in Kernels
  BY DEF Kernels, WithCpu
<1>2. SameBooks(s, t) /\ SameRuns(s, t)
  BY DEF Kernels, WithCpu, SameBooks, SameRuns
<1>3. t.state = s.state /\ t.on_rq = s.on_rq /\ t.prio = s.prio /\ t.allowed = s.allowed
  BY DEF Kernels, WithCpu
<1>4. t.cpu = [s.cpu EXCEPT ![p] = d]
  BY DEF Kernels, WithCpu
<1>5. \A q \in Tasks : t.cpu[q] = IF q = p THEN d ELSE s.cpu[q]
  BY <1>4, KernelFields, ExceptAt
<1> QED  BY <1>1, <1>2, <1>3, <1>5

States == {"asleep", "waking", "running"}

LEMMA StateSet ==
    ASSUME NEW s \in Kernels, NEW p \in Tasks, NEW x \in States,
           NEW t, t = WithState(s, p, x)
    PROVE  /\ t \in Kernels /\ SameBooks(s, t) /\ SameRuns(s, t) /\ t.state[p] = x
           /\ \A q \in Tasks : q # p => t.state[q] = s.state[q]
           /\ t.cpu = s.cpu /\ t.on_rq = s.on_rq /\ t.prio = s.prio /\ t.allowed = s.allowed
<1>1. t \in Kernels
  BY DEF Kernels, WithState, States
<1>2. SameBooks(s, t) /\ SameRuns(s, t)
  BY DEF Kernels, WithState, SameBooks, SameRuns
<1>3. t.cpu = s.cpu /\ t.on_rq = s.on_rq /\ t.prio = s.prio /\ t.allowed = s.allowed
  BY DEF Kernels, WithState
<1>4. t.state = [s.state EXCEPT ![p] = x]
  BY DEF Kernels, WithState
<1>5. \A q \in Tasks : t.state[q] = IF q = p THEN x ELSE s.state[q]
  <2>1. s.state \in [Tasks -> States]
    BY KernelFields DEF States
  <2> QED  BY <1>4, <2>1, ExceptAt
<1> QED  BY <1>1, <1>2, <1>3, <1>5

LEMMA PrioSet ==
    ASSUME NEW s \in Kernels, NEW p \in Tasks, NEW x \in Priorities, NEW t, t = WithPrio(s, p, x)
    PROVE  /\ t \in Kernels /\ SameBooks(s, t) /\ SameRuns(s, t) /\ t.prio[p] = x
           /\ \A q \in Tasks : q # p => t.prio[q] = s.prio[q]
           /\ t.cpu = s.cpu /\ t.on_rq = s.on_rq /\ t.state = s.state /\ t.allowed = s.allowed
<1>1. t \in Kernels
  BY DEF Kernels, WithPrio
<1>2. SameBooks(s, t) /\ SameRuns(s, t)
  BY DEF Kernels, WithPrio, SameBooks, SameRuns
<1>3. t.cpu = s.cpu /\ t.on_rq = s.on_rq /\ t.state = s.state /\ t.allowed = s.allowed
  BY DEF Kernels, WithPrio
<1>4. t.prio = [s.prio EXCEPT ![p] = x]
  BY DEF Kernels, WithPrio
<1>5. \A q \in Tasks : t.prio[q] = IF q = p THEN x ELSE s.prio[q]
  BY <1>4, KernelFields, ExceptAt
<1> QED  BY <1>1, <1>2, <1>3, <1>5

LEMMA AllowedSet ==
    ASSUME NEW s \in Kernels, NEW p \in Tasks, NEW mask \in (SUBSET Cpus) \ {{}}, NEW t, t = WithAllowed(s, p, mask)
    PROVE  /\ t \in Kernels /\ SameBooks(s, t) /\ SameRuns(s, t) /\ t.allowed[p] = mask
           /\ \A q \in Tasks : q # p => t.allowed[q] = s.allowed[q]
           /\ t.cpu = s.cpu /\ t.on_rq = s.on_rq /\ t.state = s.state /\ t.prio = s.prio
<1>1. t \in Kernels
  BY DEF Kernels, WithAllowed
<1>2. SameBooks(s, t) /\ SameRuns(s, t)
  BY DEF Kernels, WithAllowed, SameBooks, SameRuns
<1>3. t.cpu = s.cpu /\ t.on_rq = s.on_rq /\ t.state = s.state /\ t.prio = s.prio
  BY DEF Kernels, WithAllowed
<1>4. t.allowed = [s.allowed EXCEPT ![p] = mask]
  BY DEF Kernels, WithAllowed
<1>5. \A q \in Tasks : t.allowed[q] = IF q = p THEN mask ELSE s.allowed[q]
  BY <1>4, KernelFields, ExceptAt
<1> QED  BY <1>1, <1>2, <1>3, <1>5

\* The books stay right if priority, affinity and place of what is queued do.
LEMMA RightStays ==
    ASSUME NEW s, NEW t, Right(s), SameBooks(s, t),
           \A q \in Tasks : /\ t.on_rq[q] = s.on_rq[q]
                            /\ s.on_rq[q] => /\ t.cpu[q] = s.cpu[q] /\ t.prio[q] = s.prio[q]
                                             /\ weight(t, q) = weight(s, q)
    PROVE  Right(t)
<1>1. ASSUME NEW d \in Cpus PROVE RightAt(t, d)
  <2>1. RightAt(s, d)
    BY DEF Right
  <2>2. Queued(t, d) = Queued(s, d)
    BY DEF Queued
  <2>3. \A q \in Queued(s, d) : t.prio[q] = s.prio[q] /\ weight(t, q) = weight(s, q)
    BY DEF Queued
  <2>4. /\ t.queue[d] = s.queue[d] /\ t.highest[d] = s.highest[d] /\ t.migratory[d] = s.migratory[d]
        /\ t.overloaded[d] = s.overloaded[d] /\ t.pushable[d] = s.pushable[d]
    BY DEF SameBooks
  <2> QED  BY <2>1, <2>2, <2>3, <2>4, SameAt
<1> QED  BY <1>1 DEF Right

LEMMA WaitsStay ==
    ASSUME NEW s, NEW t, OffersWait(s), t.curr = s.curr, SameBooks(s, t)
    PROVE  OffersWait(t)
BY DEF OffersWait, SameBooks

SameTasks(s, t) == /\ t.cpu = s.cpu /\ t.state = s.state /\ t.on_rq = s.on_rq
                   /\ t.prio = s.prio /\ t.allowed = s.allowed

LEMMA TasksSameRight ==
    ASSUME NEW s, NEW t, Right(s), SameBooks(s, t), SameTasks(s, t)
    PROVE  Right(t)
BY RightStays DEF SameTasks, weight

LEMMA Resched ==
    ASSUME NEW s \in Kernels, NEW c \in Cpus, NEW t, t = resched_task(s, c)
    PROVE  /\ t \in Kernels /\ SameBooks(s, t) /\ SameTasks(s, t) /\ t.curr = s.curr
           /\ t.resched[c] /\ \A d \in Cpus : d # c => t.resched[d] = s.resched[d]
<1>1. t \in Kernels
  BY DEF Kernels, resched_task
<1>2. SameBooks(s, t)
  BY DEF Kernels, resched_task, SameBooks
<1>3. SameTasks(s, t) /\ t.curr = s.curr
  BY DEF Kernels, resched_task, SameTasks
<1>4. t.resched = [s.resched EXCEPT ![c] = TRUE]
  BY DEF Kernels, resched_task
<1>5. s.resched \in [Cpus -> BOOLEAN]
  BY KernelFields
<1>6. t.resched[c] /\ \A d \in Cpus : d # c => t.resched[d] = s.resched[d]
  BY <1>4, <1>5
<1> QED  BY <1>1, <1>2, <1>3, <1>6

LEMMA PostSet ==
    ASSUME NEW s \in Kernels, NEW c \in Cpus, NEW t, t = [s EXCEPT !.post[c] = FALSE]
    PROVE  t \in Kernels /\ SameBooks(s, t) /\ SameTasks(s, t) /\ SameRuns(s, t)
<1>1. t \in Kernels
  BY DEF Kernels
<1>2. SameBooks(s, t)
  BY DEF Kernels, SameBooks
<1>3. SameTasks(s, t) /\ SameRuns(s, t)
  BY DEF Kernels, SameTasks, SameRuns
<1> QED  BY <1>1, <1>2, <1>3

\* Asked to reschedule or not, the books are what they were, and nothing else differs.
Still(s, t) == SameTasks(s, t) /\ t.curr = s.curr
Asks(s, t)  == \A c \in Cpus : s.resched[c] => t.resched[c]

LEMMA ReschedSound ==
    ASSUME NEW s, Sound(s), NEW c \in Cpus, NEW t, t = resched_task(s, c)
    PROVE  Sound(t) /\ Still(s, t) /\ Asks(s, t) /\ t.resched[c]
<1>1. /\ t \in Kernels /\ SameBooks(s, t) /\ SameTasks(s, t) /\ t.curr = s.curr
      /\ t.resched[c] /\ \A d \in Cpus : d # c => t.resched[d] = s.resched[d]
  BY Resched DEF Sound
<1>2. Right(t) /\ OffersWait(t)
  BY <1>1, TasksSameRight, WaitsStay DEF Sound
<1>3. Asks(s, t)
  BY <1>1 DEF Asks
<1> QED  BY <1>1, <1>2, <1>3 DEF Sound, Still

\* A task taken from one CPU to another.
LEMMA Moved ==
    ASSUME NEW s, Sound(s), NEW p \in Tasks, s.on_rq[p], NEW d \in Cpus, NEW t, t = Move(s, p, d)
    PROVE  /\ Sound(t) /\ Alone(s, t, p) /\ SameRuns(s, t)
           /\ t.cpu[p] = d /\ t.on_rq[p]
           /\ t.state[p] = s.state[p] /\ t.prio[p] = s.prio[p] /\ t.allowed[p] = s.allowed[p]
<1> DEFINE u == deactivate_task(s, p)
           v == WithCpu(u, p, d)
           no == FALSE
<1>1. u = deactivate_task(s, p) /\ v = WithCpu(u, p, d) /\ t = activate_task(v, p, no)
  BY DEF Move, WithCpu
<1>2. no \in BOOLEAN
  OBVIOUS
<1> HIDE DEF u, v, no
<1>3. /\ u \in Kernels /\ Right(u) /\ OffersWait(u) /\ Outer(s, u)
      /\ ~u.on_rq[p] /\ OthersStay(s, u, p)
  BY <1>1, Deactivated DEF Sound
<1>4. /\ v \in Kernels /\ SameBooks(u, v) /\ SameRuns(u, v) /\ v.cpu[p] = d
      /\ \A q \in Tasks : q # p => v.cpu[q] = u.cpu[q]
      /\ v.state = u.state /\ v.on_rq = u.on_rq /\ v.prio = u.prio /\ v.allowed = u.allowed
  BY <1>1, <1>3, CpuSet
<1>5. ~v.on_rq[p]
  BY <1>3, <1>4
<1>6. Right(v) /\ OffersWait(v)
  <2>1. \A q \in Tasks : /\ v.on_rq[q] = u.on_rq[q]
                         /\ u.on_rq[q] => /\ v.cpu[q] = u.cpu[q] /\ v.prio[q] = u.prio[q]
                                          /\ weight(v, q) = weight(u, q)
    BY <1>3, <1>4 DEF weight
  <2>2. Right(v)
    BY <1>3, <1>4, <2>1, RightStays
  <2> QED  BY <1>3, <1>4, <2>2, WaitsStay DEF SameRuns
<1>7. /\ t \in Kernels /\ Right(t) /\ OffersWait(t) /\ Outer(v, t)
      /\ t.on_rq[p] /\ OthersStay(v, t, p)
  BY <1>1, <1>2, <1>4, <1>5, <1>6, Activated
<1>8. SameRuns(s, t) /\ t.cpu[p] = d /\ t.state[p] = s.state[p] /\ t.prio[p] = s.prio[p]
      /\ t.allowed[p] = s.allowed[p]
  BY <1>3, <1>4, <1>7 DEF Outer, SameRuns
<1>9. \A q \in Tasks : q # p => t.on_rq[q] = s.on_rq[q]
  BY <1>3, <1>4, <1>7 DEF OthersStay
<1>10. Alone(s, t, p)
  BY <1>3, <1>4, <1>7, <1>9 DEF Alone, Outer
<1> QED  BY <1>7, <1>8, <1>10 DEF Sound

\* A queued task that gets another priority.
LEMMA Reprioritised ==
    ASSUME NEW s, Sound(s), NEW p \in Tasks, s.on_rq[p], NEW x \in Priorities, NEW head \in BOOLEAN,
           NEW t, t = activate_task(WithPrio(deactivate_task(s, p), p, x), p, head)
    PROVE  /\ Sound(t) /\ Alone(s, t, p) /\ SameRuns(s, t)
           /\ t.prio[p] = x /\ t.on_rq[p]
           /\ t.state[p] = s.state[p] /\ t.cpu[p] = s.cpu[p] /\ t.allowed[p] = s.allowed[p]
<1> DEFINE u == deactivate_task(s, p)
           v == WithPrio(u, p, x)
<1>1. u = deactivate_task(s, p) /\ v = WithPrio(u, p, x) /\ t = activate_task(v, p, head)
  OBVIOUS
<1> HIDE DEF u, v
<1>2. /\ u \in Kernels /\ Right(u) /\ OffersWait(u) /\ Outer(s, u)
      /\ ~u.on_rq[p] /\ OthersStay(s, u, p)
  BY <1>1, Deactivated DEF Sound
<1>3. /\ v \in Kernels /\ SameBooks(u, v) /\ SameRuns(u, v) /\ v.prio[p] = x
      /\ \A q \in Tasks : q # p => v.prio[q] = u.prio[q]
      /\ v.cpu = u.cpu /\ v.on_rq = u.on_rq /\ v.state = u.state /\ v.allowed = u.allowed
  BY <1>1, <1>2, PrioSet
<1>4. ~v.on_rq[p]
  BY <1>2, <1>3
<1>5. Right(v) /\ OffersWait(v)
  <2>1. \A q \in Tasks : /\ v.on_rq[q] = u.on_rq[q]
                         /\ u.on_rq[q] => /\ v.cpu[q] = u.cpu[q] /\ v.prio[q] = u.prio[q]
                                          /\ weight(v, q) = weight(u, q)
    BY <1>2, <1>3 DEF weight
  <2>2. Right(v)
    BY <1>2, <1>3, <2>1, RightStays
  <2> QED  BY <1>2, <1>3, <2>2, WaitsStay DEF SameRuns
<1>6. /\ t \in Kernels /\ Right(t) /\ OffersWait(t) /\ Outer(v, t)
      /\ t.on_rq[p] /\ OthersStay(v, t, p)
  BY <1>1, <1>3, <1>4, <1>5, Activated
<1>7. SameRuns(s, t) /\ t.cpu[p] = s.cpu[p] /\ t.state[p] = s.state[p] /\ t.prio[p] = x
      /\ t.allowed[p] = s.allowed[p]
  BY <1>2, <1>3, <1>6 DEF Outer, SameRuns
<1>8. \A q \in Tasks : q # p => t.on_rq[q] = s.on_rq[q]
  BY <1>2, <1>3, <1>6 DEF OthersStay
<1>9. Alone(s, t, p)
  BY <1>2, <1>3, <1>6, <1>8 DEF Alone, Outer
<1> QED  BY <1>6, <1>7, <1>9 DEF Sound

WithList(s, c, list) == [s EXCEPT !.queue[c] = list]

LEMMA ListSet ==
    ASSUME NEW s \in Kernels, NEW c \in Cpus, NEW list \in Seq(Tasks), NEW t, t = WithList(s, c, list)
    PROVE  /\ t \in Kernels /\ SameRest(s, t) /\ SameTasks(s, t) /\ SameRuns(s, t)
           /\ t.queue[c] = list /\ OtherQueues(s, t, c)
<1>1. t \in Kernels
  BY DEF Kernels, WithList
<1>2. SameRest(s, t)
  BY DEF Kernels, WithList, SameRest
<1>3. SameTasks(s, t) /\ SameRuns(s, t)
  BY DEF Kernels, WithList, SameTasks, SameRuns
<1>4. t.queue = [s.queue EXCEPT ![c] = list]
  BY DEF Kernels, WithList
<1>5. \A d \in Cpus : t.queue[d] = IF d = c THEN list ELSE s.queue[d]
  BY <1>4, KernelFields, ExceptAt
<1> QED  BY <1>1, <1>2, <1>3, <1>5 DEF OtherQueues

\* A queued task put before, or behind, those of its priority.
LEMMA Requeued ==
    ASSUME NEW s, Sound(s), NEW p \in Tasks, s.on_rq[p], NEW head \in BOOLEAN,
           NEW t, t = requeue_task_rt(s, p, head)
    PROVE  Sound(t) /\ Still(s, t) /\ t.resched = s.resched
<1> DEFINE c == s.cpu[p]
           rest == RemoveFirst(s.queue[c], p)
           list == IF head THEN AddHead(s, rest, p) ELSE AddTail(s, rest, p)
<1>1. c \in Cpus /\ s \in Kernels /\ Right(s) /\ OffersWait(s) /\ p \in Queued(s, c)
  BY KernelTypes DEF Sound, Queued
<1>2. t = WithList(s, c, list)
  BY DEF requeue_task_rt, WithList
<1>3. Lists(s, list, Queued(s, c))
  <2>1. Lists(s, s.queue[c], Queued(s, c))
    BY <1>1 DEF Right, RightAt, ListRight
  <2>2. Lists(s, rest, Queued(s, c) \ {p})
    BY <2>1, RemoveLists
  <2> HIDE DEF rest, c
  <2>3. /\ Lists(s, AddTail(s, rest, p), (Queued(s, c) \ {p}) \cup {p})
        /\ Lists(s, AddHead(s, rest, p), (Queued(s, c) \ {p}) \cup {p})
    BY <1>1, <2>2, AddLists
  <2>4. (Queued(s, c) \ {p}) \cup {p} = Queued(s, c)
    BY <1>1
  <2> QED  BY <2>3, <2>4
<1> HIDE DEF c, rest, list
<1>4. /\ t \in Kernels /\ SameRest(s, t) /\ SameTasks(s, t) /\ SameRuns(s, t)
      /\ t.queue[c] = list /\ OtherQueues(s, t, c)
  <2>1. list \in Seq(Tasks)
    BY <1>3 DEF Lists
  <2> QED  BY <1>1, <1>2, <2>1, ListSet
<1>5. ASSUME NEW d \in Cpus PROVE RightAt(t, d)
  <2>1. RightAt(s, d) /\ Queued(s, d) \subseteq Tasks /\ Queued(t, d) = Queued(s, d)
    BY <1>1, <1>4 DEF Right, Queued, SameTasks
  <2>2. \A q \in Queued(s, d) : t.prio[q] = s.prio[q] /\ weight(t, q) = weight(s, q)
    BY <1>4 DEF SameTasks, weight
  <2>3. t.highest[d] = s.highest[d] /\ t.migratory[d] = s.migratory[d]
        /\ t.overloaded[d] = s.overloaded[d] /\ t.pushable[d] = s.pushable[d]
    BY <1>4 DEF SameRest
  <2>4. CASE d # c
    BY <1>4, <2>1, <2>2, <2>3, <2>4, SameAt DEF OtherQueues
  <2>5. CASE d = c
    <3>1. Lists(s, t.queue[d], Queued(s, d))
      BY <1>3, <1>4, <2>5
    <3>2. Lists(s, t.pushable[d], ToSet(t.pushable[d])) /\ ToSet(t.pushable[d]) \subseteq Movable(s, d)
      BY <2>1, <2>3 DEF RightAt, OfferRight
    <3> QED  BY <2>1, <2>2, <2>3, <3>1, <3>2, OffersAt
  <2> QED  BY <2>4, <2>5
<1>6. OffersWait(t)
  BY <1>1, <1>4 DEF OffersWait, SameRest, SameRuns
<1> QED  BY <1>4, <1>5, <1>6 DEF Sound, Right, Still, SameRuns

\* The CPU of a task that has come is asked to reschedule, if it runs a lower one.
LEMMA Preempted ==
    ASSUME NEW s, Sound(s), NEW e, NEW c \in Cpus, NEW p \in Tasks, s.on_rq[p],
           NEW t, t = check_preempt_curr(s, e, c, p)
    PROVE  /\ Sound(t) /\ Still(s, t) /\ Asks(s, t)
           /\ t.resched[c] \/ PrioOf(s, s.curr[c]) <= s.prio[p]
<1> DEFINE curr == s.curr[c]
           yes == TRUE
           u == requeue_task_rt(s, p, yes)
           low == PrioOf(s, curr) > s.prio[p]
           tie == /\ PrioOf(s, curr) = s.prio[p] /\ ~(s.curr[e] # None /\ s.resched[e])
                  /\ ~Pinned(s, curr)
                  /\ Pinned(s, p) \/ cpupri_find(s, p) = {}
                  /\ cpupri_find(s, curr) # {}
           raised == resched_task(u, c)
<1>1. PrioOf(s, curr) \in Nat /\ s.prio[p] \in Nat /\ (curr = Stop => PrioOf(s, curr) = 0)
  BY KernelTypes, Constants DEF PrioOf, Sound
<1>2. \/ t = s /\ (curr = Stop \/ ~low)
      \/ t = resched_task(s, c)
      \/ t = raised
  <2>1. t = CASE curr = Stop -> s [] low -> resched_task(s, c) [] tie -> raised [] OTHER -> s
    BY DEF check_preempt_curr
  <2> HIDE DEF curr, low, tie, raised
  <2> QED  BY <2>1
<1>3. yes \in BOOLEAN /\ u = requeue_task_rt(s, p, yes) /\ raised = resched_task(u, c)
  OBVIOUS
<1> HIDE DEF yes, u, raised
<1>4. CASE t = s /\ (curr = Stop \/ ~low)
  BY <1>1, <1>4 DEF Still, SameTasks, Asks
<1>5. CASE t = resched_task(s, c)
  BY <1>5, ReschedSound
<1>6. CASE t = raised
  <2>1. Sound(u) /\ Still(s, u) /\ u.resched = s.resched
    BY <1>3, Requeued
  <2>2. Sound(t) /\ Still(u, t) /\ Asks(u, t) /\ t.resched[c]
    BY <1>3, <1>6, <2>1, ReschedSound
  <2> QED  BY <2>1, <2>2 DEF Still, SameTasks, Asks
<1> QED  BY <1>2, <1>4, <1>5, <1>6

WithCurr(s, c, x, b) == [s EXCEPT !.curr[c] = x, !.resched[c] = FALSE, !.post[c] = b]

LEMMA CurrSet ==
    ASSUME NEW s \in Kernels, NEW c \in Cpus, NEW x \in Tasks \cup {Idle, Stop}, NEW b \in BOOLEAN,
           NEW t, t = WithCurr(s, c, x, b)
    PROVE  /\ t \in Kernels /\ SameBooks(s, t) /\ SameTasks(s, t) /\ t.curr[c] = x
           /\ \A d \in Cpus : d # c => t.curr[d] = s.curr[d] /\ t.resched[d] = s.resched[d]
<1>1. t \in Kernels
  BY DEF Kernels, WithCurr
<1>2. SameBooks(s, t) /\ SameTasks(s, t)
  BY DEF Kernels, WithCurr, SameBooks, SameTasks
<1>3. t.curr = [s.curr EXCEPT ![c] = x] /\ t.resched = [s.resched EXCEPT ![c] = FALSE]
  BY DEF Kernels, WithCurr
<1>4. \A d \in Cpus : t.curr[d] = IF d = c THEN x ELSE s.curr[d]
  <2>1. s.curr \in [Cpus -> Tasks \cup {Idle, Stop}]
    BY KernelFields
  <2> QED  BY <1>3, <2>1, ExceptAt
<1>5. \A d \in Cpus : d # c => t.resched[d] = s.resched[d]
  <2>1. s.resched \in [Cpus -> BOOLEAN]
    BY KernelFields
  <2> QED  BY <1>3, <2>1
<1> QED  BY <1>1, <1>2, <1>4, <1>5

PutPrev(s, c) == IF s.curr[c] \in Tasks /\ s.on_rq[s.curr[c]] /\ weight(s, s.curr[c]) > 1
                 THEN enqueue_pushable_task(s, c, s.curr[c]) ELSE s

\* Before it is switched out, a task that stays queued is offered; the one switched in is not.
LEMMA SwitchOffers ==
    ASSUME NEW s, Sound(s), NEW c \in Cpus, s.curr[c] \in Tasks => s.cpu[s.curr[c]] = c,
           NEW u, u = PutPrev(s, c), NEW next, NEW v, v = dequeue_pushable_task(u, c, next)
    PROVE  /\ v \in Kernels /\ Right(v) /\ Outer(s, v) /\ v.on_rq = s.on_rq
           /\ next \notin ToSet(v.pushable[c]) /\ OtherOffers(s, v, c)
<1> DEFINE prev == s.curr[c]
<1>1. /\ u \in Kernels /\ Right(u) /\ Outer(s, u) /\ u.on_rq = s.on_rq /\ OtherOffers(s, u, c)
  <2>1. CASE prev \in Tasks /\ s.on_rq[prev] /\ weight(s, prev) > 1
    <3>1. prev \in Movable(s, c)
      BY <2>1 DEF Movable, Queued
    <3>2. u = enqueue_pushable_task(s, c, prev)
      BY <2>1 DEF PutPrev
    <3>3. s \in Kernels /\ Right(s)
      BY DEF Sound
    <3> QED  BY <3>1, <3>2, <3>3, EnqueuePushable
  <2>2. CASE ~(prev \in Tasks /\ s.on_rq[prev] /\ weight(s, prev) > 1)
    <3>1. u = s
      BY <2>2 DEF PutPrev
    <3> QED  BY <3>1 DEF Sound, Outer, OtherOffers
  <2> QED  BY <2>1, <2>2
<1>2. /\ v \in Kernels /\ Right(v) /\ Outer(u, v) /\ v.on_rq = u.on_rq
      /\ ToSet(v.pushable[c]) = ToSet(u.pushable[c]) \ {next} /\ OtherOffers(u, v, c)
  BY <1>1, DequeuePushable
<1>3. Outer(s, v)
  BY <1>1, <1>2 DEF Outer
<1>4. OtherOffers(s, v, c)
  BY <1>1, <1>2 DEF OtherOffers
<1> QED  BY <1>1, <1>2, <1>3, <1>4

\* schedule(): the head of the queue runs, or the stopper, or nobody.
LEMMA Switched ==
    ASSUME NEW s, Sound(s), NEW c \in Cpus, s.curr[c] \in Tasks => s.cpu[s.curr[c]] = c,
           NEW t, t = context_switch(s, c)
    PROVE  /\ Sound(t) /\ SameTasks(s, t)
           /\ \A d \in Cpus : d # c => t.curr[d] = s.curr[d] /\ t.resched[d] = s.resched[d]
           /\ t.curr[c] \in Queued(s, c) \cup {Idle, Stop}
           /\ \A q \in Queued(s, c) : PrioOf(s, t.curr[c]) <= s.prio[q]
<1> DEFINE u == PutPrev(s, c)
           stop == stopper[c] # None
           queue == s.queue[c]
           next == CASE stop -> Stop [] ~stop /\ queue # <<>> -> Head(queue) [] OTHER -> Idle
           v == dequeue_pushable_task(u, c, next)
           b == IF stop THEN v.post[c] ELSE v.pushable[c] # <<>>
<1>1. t = WithCurr(v, c, next, b)
  BY DEF context_switch, WithCurr, PutPrev
<1>2. u = PutPrev(s, c) /\ v = dequeue_pushable_task(u, c, next)
  OBVIOUS
<1>3. /\ next \in Queued(s, c) \cup {Idle, Stop}
      /\ \A q \in Queued(s, c) : PrioOf(s, next) <= s.prio[q]
  <2>1. Lists(s, queue, Queued(s, c))
    BY DEF Sound, Right, RightAt, ListRight
  <2>2. /\ queue = <<>> <=> Queued(s, c) = {}
        /\ Queued(s, c) # {} => /\ Head(queue) \in Queued(s, c)
                                /\ \A q \in Queued(s, c) : q # Head(queue) => s.prio[Head(queue)] <= s.prio[q]
    BY <2>1, ListSize
  <2>3. \A q \in Queued(s, c) : q \in Tasks /\ s.prio[q] \in Nat /\ PrioOf(s, q) = s.prio[q]
    BY KernelTypes, Constants DEF Queued, Sound, PrioOf
  <2>4. PrioOf(s, Stop) = 0
    BY Constants DEF PrioOf
  <2>5. next = Stop \/ (queue # <<>> /\ next = Head(queue)) \/ (queue = <<>> /\ next = Idle)
    OBVIOUS
  <2> HIDE DEF next, queue
  <2>6. CASE next = Stop
    BY <2>3, <2>4, <2>6
  <2>7. CASE queue # <<>> /\ next = Head(queue)
    <3>1. next \in Queued(s, c) /\ PrioOf(s, next) = s.prio[next] /\ s.prio[next] <= s.prio[next]
      BY <2>2, <2>3, <2>7
    <3> QED  BY <2>2, <2>7, <3>1
  <2>8. CASE queue = <<>> /\ next = Idle
    BY <2>2, <2>8
  <2> QED  BY <2>5, <2>6, <2>7, <2>8
<1>4. s \in Kernels
  BY DEF Sound
<1> HIDE DEF u, next, v, queue
<1>5. /\ v \in Kernels /\ Right(v) /\ Outer(s, v) /\ v.on_rq = s.on_rq
      /\ next \notin ToSet(v.pushable[c]) /\ OtherOffers(s, v, c)
  BY <1>2, SwitchOffers
<1>6. b \in BOOLEAN
  <2>1. v.post \in [Cpus -> BOOLEAN]
    BY <1>5, KernelFields
  <2>2. v.post[c] \in BOOLEAN /\ (v.pushable[c] # <<>>) \in BOOLEAN
    BY <2>1
  <2> QED  BY <2>2
<1> HIDE DEF b, stop
<1>7. next \in Tasks \cup {Idle, Stop}
  BY <1>3 DEF Queued
<1>8. /\ t \in Kernels /\ SameBooks(v, t) /\ SameTasks(v, t) /\ t.curr[c] = next
      /\ \A d \in Cpus : d # c => t.curr[d] = v.curr[d] /\ t.resched[d] = v.resched[d]
  BY <1>1, <1>5, <1>6, <1>7, CurrSet
<1>9. SameTasks(s, t)
  BY <1>5, <1>8 DEF SameTasks, Outer
<1>10. \A d \in Cpus : d # c => t.curr[d] = s.curr[d] /\ t.resched[d] = s.resched[d]
  BY <1>5, <1>8 DEF Outer
<1>11. Right(t)
  BY <1>5, <1>8, TasksSameRight
<1>12. OffersWait(t)
  <2>1. ASSUME NEW d \in Cpus PROVE t.curr[d] \notin ToSet(t.pushable[d])
    <3>1. t.pushable[d] = v.pushable[d]
      BY <1>8 DEF SameBooks
    <3>2. CASE d = c
      BY <1>5, <1>8, <3>1, <3>2
    <3>3. CASE d # c
      BY <1>5, <1>10, <3>1, <3>3 DEF OtherOffers, Sound, OffersWait
    <3> QED  BY <3>2, <3>3
  <2> QED  BY <2>1 DEF OffersWait
<1> QED  BY <1>3, <1>8, <1>9, <1>10, <1>11, <1>12 DEF Sound

Recounted(s, c, was, now) == IF was <= 1 /\ now > 1 THEN s.migratory[c] + 1
                             ELSE IF was > 1 /\ now <= 1 THEN s.migratory[c] - 1 ELSE s.migratory[c]

LEMMA Reweighed ==
    ASSUME NEW s \in Kernels, NEW t \in Kernels, NEW c \in Cpus, RightAt(s, c), NEW p \in Queued(s, c),
           Queued(t, c) = Queued(s, c),
           \A q \in Queued(s, c) : t.prio[q] = s.prio[q] /\ (q # p => weight(t, q) = weight(s, q)),
           t.queue[c] = s.queue[c], t.highest[c] = s.highest[c],
           Tells(t, c, t.highest[c], Recounted(s, c, weight(s, p), weight(t, p)), s.queue[c]),
           Lists(s, t.pushable[c], ToSet(t.pushable[c])), ToSet(t.pushable[c]) \subseteq Movable(t, c)
    PROVE  RightAt(t, c)
<1>1. p \in Tasks /\ weight(s, p) \in Nat /\ weight(t, p) \in Nat
  BY Weights DEF Queued
<1>2. Movable(t, c) = IF weight(t, p) > 1 THEN Movable(s, c) \cup {p} ELSE Movable(s, c) \ {p}
  BY DEF Movable
<1>3. p \in Movable(s, c) <=> weight(s, p) > 1
  BY DEF Movable
<1>4. ListRight(t, c)
  BY SameLists DEF RightAt, ListRight
<1>5. Highest(t, t.highest[c], Queued(t, c))
  BY DEF RightAt, Highest
<1>6. CountRight(t, c)
  <2>1. CountRight(s, c)
    BY DEF RightAt
  <2>2. Len(s.queue[c]) = Cardinality(Queued(t, c))
    BY ListSize DEF RightAt, ListRight
  <2>3. Recounted(s, c, weight(s, p), weight(t, p)) = Cardinality(Movable(t, c))
    <3>1. /\ IsFiniteSet(Movable(s, c)) /\ Cardinality(Movable(s, c)) \in Nat
          /\ s.migratory[c] = Cardinality(Movable(s, c))
      BY <2>1, QueuedFinite DEF CountRight
    <3>2. Cardinality(Movable(s, c) \cup {p}) = IF p \in Movable(s, c) THEN Cardinality(Movable(s, c))
                                                ELSE Cardinality(Movable(s, c)) + 1
      BY <3>1, FS_AddElement
    <3>3. Cardinality(Movable(s, c) \ {p}) = IF p \in Movable(s, c) THEN Cardinality(Movable(s, c)) - 1
                                             ELSE Cardinality(Movable(s, c))
      BY <3>1, FS_RemoveElement
    <3>4. CASE weight(t, p) > 1
      <4>1. CASE weight(s, p) > 1
        BY <1>1, <1>2, <1>3, <3>1, <3>2, <3>4, <4>1 DEF Recounted
      <4>2. CASE ~(weight(s, p) > 1)
        BY <1>1, <1>2, <1>3, <3>1, <3>2, <3>4, <4>2 DEF Recounted
      <4> QED  BY <4>1, <4>2
    <3>5. CASE ~(weight(t, p) > 1)
      <4>1. CASE weight(s, p) > 1
        BY <1>1, <1>2, <1>3, <3>1, <3>3, <3>5, <4>1 DEF Recounted
      <4>2. CASE ~(weight(s, p) > 1)
        BY <1>1, <1>2, <1>3, <3>1, <3>3, <3>5, <4>2 DEF Recounted
      <4> QED  BY <4>1, <4>2
    <3> QED  BY <3>4, <3>5
  <2> QED  BY <2>2, <2>3 DEF CountRight, Tells
<1>7. OfferRight(t, c)
  <2>1. Movable(t, c) \subseteq Queued(s, c)
    BY DEF Movable
  <2>2. Lists(t, t.pushable[c], ToSet(t.pushable[c]))
    BY <2>1, SameLists
  <2> QED  BY <2>2 DEF OfferRight
<1> QED  BY <1>4, <1>5, <1>6, <1>7 DEF RightAt

WithMigratory(s, c, m) == update_rt_migration([s EXCEPT !.migratory[c] = m], c)

LEMMA CountTells ==
    ASSUME NEW s \in Kernels, NEW c \in Cpus, NEW m \in Int, NEW t, t = WithMigratory(s, c, m)
    PROVE  /\ t \in Kernels /\ Outer(s, t) /\ Lists3(s, t)
           /\ Tells(t, c, s.highest[c], m, s.queue[c]) /\ OthersTell(s, t, c)
<1>1. /\ t \in Kernels /\ Outer(s, t) /\ Lists3(s, t) /\ t.highest = s.highest
      /\ t.migratory = [s.migratory EXCEPT ![c] = m]
      /\ t.overloaded = [s.overloaded EXCEPT ![c] = (m > 0 /\ Len(s.queue[c]) > 1)]
  BY CountSet DEF WithMigratory
<1>2. \A d \in Cpus : t.migratory[d] = IF d = c THEN m ELSE s.migratory[d]
  <2>1. s.migratory \in [Cpus -> Int]
    BY KernelFields
  <2> QED  BY <1>1, <2>1, ExceptAt
<1>3. \A d \in Cpus : t.overloaded[d] = IF d = c THEN (m > 0 /\ Len(s.queue[c]) > 1) ELSE s.overloaded[d]
  <2>1. s.overloaded \in [Cpus -> BOOLEAN]
    BY KernelFields
  <2> QED  BY <1>1, <2>1, ExceptAt
<1> QED  BY <1>1, <1>2, <1>3 DEF Tells, OthersTell

Reoffer(s, c, p, now) == IF s.curr[c] = p THEN s
                         ELSE IF now > 1 THEN enqueue_pushable_task(s, c, p) ELSE dequeue_pushable_task(s, c, p)

MayOffer(s, c, p, now) == {q \in Movable(s, c) \cup {p} : q = p => now > 1}

LEMMA Reoffered ==
    ASSUME NEW s, Sound(s), NEW p \in Tasks, s.on_rq[p], NEW c, c = s.cpu[p], NEW now,
           NEW t, t = Reoffer(s, c, p, now)
    PROVE  /\ t \in Kernels /\ Outer(s, t) /\ SameQueues(s, t) /\ OtherOffers(s, t, c)
           /\ Lists(s, t.pushable[c], ToSet(t.pushable[c])) /\ s.curr[c] \notin ToSet(t.pushable[c])
           /\ ToSet(t.pushable[c]) \subseteq MayOffer(s, c, p, now)
<1> DEFINE offer == s.pushable[c]
           R == ToSet(offer)
           rest == RemoveFirst(offer, p)
           more == AddTail(s, rest, p)
<1>1. c \in Cpus /\ s \in Kernels
  BY KernelTypes DEF Sound
<1>2. Lists(s, offer, R) /\ R \subseteq Movable(s, c) /\ s.curr[c] \notin R
  BY <1>1 DEF Sound, Right, RightAt, OfferRight, OffersWait
<1>3. Lists(s, rest, R \ {p})
  BY <1>2, RemoveLists
<1>4. Lists(s, more, (R \ {p}) \cup {p})
  <2> HIDE DEF rest, R
  <2> QED  BY <1>1, <1>3, AddLists
<1>5. CASE s.curr[c] = p
  <2>1. t = s
    BY <1>5 DEF Reoffer
  <2> QED  BY <1>1, <1>2, <1>5, <2>1 DEF Outer, SameQueues, OtherOffers, MayOffer
<1>6. CASE s.curr[c] # p /\ now > 1
  <2>1. t = WithOffer(s, c, more)
    BY <1>6 DEF Reoffer, enqueue_pushable_task, WithOffer
  <2> HIDE DEF more, rest, R, offer
  <2>2. more \in Seq(Tasks) /\ ToSet(more) = (R \ {p}) \cup {p}
    BY <1>4 DEF Lists
  <2>3. /\ t \in Kernels /\ Outer(s, t) /\ SameQueues(s, t)
        /\ t.pushable[c] = more /\ OtherOffers(s, t, c)
    BY <1>1, <2>1, <2>2, PushableSet
  <2>4. Lists(s, t.pushable[c], ToSet(t.pushable[c])) /\ ToSet(t.pushable[c]) = (R \ {p}) \cup {p}
    BY <1>4, <2>2, <2>3
  <2> QED  BY <1>2, <1>6, <2>3, <2>4 DEF MayOffer
<1>7. CASE s.curr[c] # p /\ ~(now > 1)
  <2>1. t = WithOffer(s, c, rest)
    BY <1>7 DEF Reoffer, dequeue_pushable_task, WithOffer
  <2> HIDE DEF more, rest, R, offer
  <2>2. rest \in Seq(Tasks) /\ ToSet(rest) = R \ {p}
    BY <1>3 DEF Lists
  <2>3. /\ t \in Kernels /\ Outer(s, t) /\ SameQueues(s, t)
        /\ t.pushable[c] = rest /\ OtherOffers(s, t, c)
    BY <1>1, <2>1, <2>2, PushableSet
  <2>4. Lists(s, t.pushable[c], ToSet(t.pushable[c])) /\ ToSet(t.pushable[c]) = R \ {p}
    BY <1>3, <2>2, <2>3
  <2> QED  BY <1>2, <1>7, <2>3, <2>4 DEF MayOffer
<1> QED  BY <1>5, <1>6, <1>7

LEMMA MaskWeight ==
    ASSUME NEW mask \in (SUBSET Cpus) \ {{}}
    PROVE  Cardinality(mask) \in Nat
BY Constants, FS_Subset, FS_CardinalityType

Reaffine(s, c, p, mask, u, m, v, t) ==
    /\ c = s.cpu[p] /\ u = Reoffer(s, c, p, Cardinality(mask))
    /\ m = Recounted(u, c, weight(s, p), Cardinality(mask))
    /\ v = WithMigratory(u, c, m) /\ t = WithAllowed(v, p, mask)

LEMMA AffineQueued ==
    ASSUME NEW s, Sound(s), NEW p \in Tasks, s.on_rq[p], NEW mask \in (SUBSET Cpus) \ {{}},
           NEW c, NEW u, NEW m, NEW v, NEW t, Reaffine(s, c, p, mask, u, m, v, t)
    PROVE  /\ Sound(t) /\ Alone(s, t, p) /\ SameRuns(s, t) /\ t.allowed[p] = mask
           /\ t.cpu = s.cpu /\ t.state = s.state /\ t.on_rq = s.on_rq /\ t.prio = s.prio
<1> DEFINE now == Cardinality(mask)
<1>1. c \in Cpus /\ s \in Kernels /\ weight(s, p) \in Nat /\ p \in Queued(s, c)
  BY KernelTypes, Weights DEF Sound, Queued, Reaffine
<1>2. now \in Nat
  BY MaskWeight
<1>3. /\ c = s.cpu[p] /\ u = Reoffer(s, c, p, now) /\ m = Recounted(u, c, weight(s, p), now)
      /\ v = WithMigratory(u, c, m) /\ t = WithAllowed(v, p, mask)
  BY DEF Reaffine
<1> HIDE DEF now
<1>4. /\ u \in Kernels /\ Outer(s, u) /\ SameQueues(s, u) /\ OtherOffers(s, u, c)
      /\ Lists(s, u.pushable[c], ToSet(u.pushable[c])) /\ s.curr[c] \notin ToSet(u.pushable[c])
      /\ ToSet(u.pushable[c]) \subseteq MayOffer(s, c, p, now)
  BY <1>3, Reoffered
<1>5. m \in Int
  <2>1. u.migratory[c] \in Int
    BY <1>1, <1>4, KernelTypes
  <2>2. m = Recounted(u, c, weight(s, p), now)
    BY <1>3
  <2> QED  BY <2>1, <2>2 DEF Recounted
<1>6. m = Recounted(s, c, weight(s, p), now)
  BY <1>3, <1>4 DEF Recounted, SameQueues
<1>7. /\ v \in Kernels /\ Outer(u, v) /\ Lists3(u, v)
      /\ Tells(v, c, u.highest[c], m, u.queue[c]) /\ OthersTell(u, v, c)
  BY <1>1, <1>3, <1>4, <1>5, CountTells
<1>8. /\ t \in Kernels /\ SameBooks(v, t) /\ SameRuns(v, t) /\ t.allowed[p] = mask
      /\ \A q \in Tasks : q # p => t.allowed[q] = v.allowed[q]
      /\ t.cpu = v.cpu /\ t.on_rq = v.on_rq /\ t.state = v.state /\ t.prio = v.prio
  <2>1. v \in Kernels /\ t = WithAllowed(v, p, mask)
    BY <1>3, <1>7
  <2> QED  BY <2>1, AllowedSet
<1>9. Outer(s, v)
  <2>1. Outer(s, u) /\ Outer(u, v)
    BY <1>4, <1>7
  <2> QED  BY <2>1 DEF Outer
<1>10. t.cpu = s.cpu /\ t.state = s.state /\ t.prio = s.prio
  <2>1. t.cpu = v.cpu /\ t.state = v.state /\ t.prio = v.prio
    BY <1>8
  <2> QED  BY <1>9, <2>1 DEF Outer
<1>11. t.on_rq = s.on_rq
  <2>1. t.on_rq = v.on_rq
    BY <1>8
  <2>2. SameQueues(s, u) /\ Lists3(u, v)
    BY <1>4, <1>7
  <2> QED  BY <2>1, <2>2 DEF SameQueues, Lists3
<1>12. \A q \in Tasks : q # p => t.allowed[q] = s.allowed[q]
  <2>1. v.allowed = s.allowed
    BY <1>9 DEF Outer
  <2>2. \A q \in Tasks : q # p => t.allowed[q] = v.allowed[q]
    BY <1>8
  <2> QED  BY <2>1, <2>2
<1>13. SameRuns(s, t)
  <2>1. SameRuns(v, t)
    BY <1>8
  <2> QED  BY <1>9, <2>1 DEF Outer, SameRuns
<1>14. t.queue = s.queue /\ t.pushable = u.pushable
  <2>1. SameQueues(s, u) /\ Lists3(u, v) /\ SameBooks(v, t)
    BY <1>4, <1>7, <1>8
  <2>2. t.queue = v.queue /\ t.pushable = v.pushable
    BY <2>1 DEF SameBooks
  <2>3. v.queue = u.queue /\ v.pushable = u.pushable
    BY <2>1 DEF Lists3
  <2>4. u.queue = s.queue
    BY <2>1 DEF SameQueues
  <2> QED  BY <2>2, <2>3, <2>4
<1>15. t.highest = v.highest /\ t.migratory = v.migratory /\ t.overloaded = v.overloaded
  <2>1. SameBooks(v, t)
    BY <1>8
  <2> QED  BY <2>1 DEF SameBooks
<1>16. u.highest = s.highest /\ u.migratory = s.migratory /\ u.overloaded = s.overloaded /\ u.queue = s.queue
  <2>1. SameQueues(s, u)
    BY <1>4
  <2> QED  BY <2>1 DEF SameQueues
<1>17. t.highest[c] = s.highest[c] /\ Tells(t, c, t.highest[c], m, s.queue[c])
  <2>1. Tells(v, c, s.highest[c], m, s.queue[c])
    BY <1>7, <1>16
  <2> QED  BY <1>15, <2>1 DEF Tells
<1>18. OthersTell(s, t, c)
  <2>1. OthersTell(u, v, c)
    BY <1>7
  <2> QED  BY <1>15, <1>16, <2>1 DEF OthersTell
<1>19. \A d \in Cpus : Queued(t, d) = Queued(s, d) /\ Queued(s, d) \subseteq Tasks
  BY <1>10, <1>11 DEF Queued
<1>20. \A q \in Tasks : t.prio[q] = s.prio[q] /\ (q # p => weight(t, q) = weight(s, q))
  BY <1>10, <1>12 DEF weight
<1>21. weight(t, p) = now
  <2>1. t.allowed[p] = mask
    BY <1>8
  <2> QED  BY <2>1 DEF weight, now
<1>22. RightAt(t, c)
  <2>1. RightAt(s, c)
    BY <1>1 DEF Sound, Right
  <2>2. \A q \in Queued(s, c) : t.prio[q] = s.prio[q] /\ (q # p => weight(t, q) = weight(s, q))
    BY <1>1, <1>19, <1>20
  <2>3. ToSet(t.pushable[c]) \subseteq Movable(t, c)
    <3>1. MayOffer(s, c, p, now) \subseteq Movable(t, c)
      BY <1>1, <1>19, <1>21, <2>2 DEF Movable, MayOffer
    <3>2. ToSet(u.pushable[c]) \subseteq MayOffer(s, c, p, now)
      BY <1>4
    <3> QED  BY <1>14, <3>1, <3>2
  <2>4. Tells(t, c, t.highest[c], Recounted(s, c, weight(s, p), weight(t, p)), s.queue[c])
    BY <1>6, <1>17, <1>21
  <2>5. Lists(s, t.pushable[c], ToSet(t.pushable[c]))
    <3>1. Lists(s, u.pushable[c], ToSet(u.pushable[c]))
      BY <1>4
    <3> QED  BY <1>14, <3>1
  <2>6. t.queue[c] = s.queue[c] /\ Queued(t, c) = Queued(s, c) /\ t.highest[c] = s.highest[c]
    BY <1>1, <1>14, <1>17, <1>19
  <2>7. t \in Kernels
    BY <1>8
  <2>8. c \in Cpus /\ s \in Kernels /\ p \in Queued(s, c)
    BY <1>1
  <2> QED  BY <2>1, <2>2, <2>3, <2>4, <2>5, <2>6, <2>7, <2>8, Reweighed
<1>23. OtherOffers(s, u, c) /\ s.curr[c] \notin ToSet(u.pushable[c])
  BY <1>4
<1>24. ASSUME NEW d \in Cpus, d # c PROVE RightAt(t, d)
  <2>1. RightAt(s, d)
    BY DEF Sound, Right
  <2>2. \A q \in Queued(s, d) : t.prio[q] = s.prio[q] /\ weight(t, q) = weight(s, q)
    <3>1. c = s.cpu[p]
      BY <1>3
    <3> QED  BY <1>20, <1>24, <3>1 DEF Queued
  <2>3. t.queue[d] = s.queue[d] /\ t.pushable[d] = s.pushable[d] /\ Queued(t, d) = Queued(s, d)
    BY <1>14, <1>19, <1>23, <1>24 DEF OtherOffers
  <2>4. t.highest[d] = s.highest[d] /\ t.migratory[d] = s.migratory[d] /\ t.overloaded[d] = s.overloaded[d]
    BY <1>18, <1>24 DEF OthersTell
  <2> QED  BY <2>1, <2>2, <2>3, <2>4, SameAt
<1>25. OffersWait(t)
  <2>1. t.curr = s.curr
    BY <1>13 DEF SameRuns
  <2>2. \A d \in Cpus : s.curr[d] \notin ToSet(s.pushable[d])
    BY DEF Sound, OffersWait
  <2> QED  BY <1>14, <1>23, <2>1, <2>2 DEF OffersWait, OtherOffers
<1>26. Sound(t) /\ t.allowed[p] = mask
  BY <1>8, <1>22, <1>24, <1>25 DEF Sound, Right
<1>27. Alone(s, t, p)
  BY <1>10, <1>11, <1>12 DEF Alone
<1> QED  BY <1>10, <1>11, <1>13, <1>26, <1>27

\* A task that gets another affinity.
LEMMA Affine ==
    ASSUME NEW s, Sound(s), NEW p \in Tasks, NEW mask \in (SUBSET Cpus) \ {{}},
           NEW t, t = set_cpus_allowed_rt(s, p, mask)
    PROVE  /\ Sound(t) /\ Alone(s, t, p) /\ SameRuns(s, t) /\ t.allowed[p] = mask
           /\ t.cpu = s.cpu /\ t.state = s.state /\ t.on_rq = s.on_rq /\ t.prio = s.prio
<1> DEFINE c == s.cpu[p]
           u == Reoffer(s, c, p, Cardinality(mask))
           m == Recounted(u, c, weight(s, p), Cardinality(mask))
           v == WithMigratory(u, c, m)
<1>1. CASE s.on_rq[p] /\ weight(s, p) # Cardinality(mask)
  <2>1. t = WithAllowed(v, p, mask)
    BY <1>1 DEF set_cpus_allowed_rt, Reoffer, WithMigratory, Recounted, WithAllowed
  <2>2. Reaffine(s, c, p, mask, u, m, v, t)
    BY <2>1 DEF Reaffine
  <2>3. s.on_rq[p]
    BY <1>1
  <2> HIDE DEF c, u, m, v
  <2> QED  BY <2>2, <2>3, AffineQueued
<1>2. CASE ~(s.on_rq[p] /\ weight(s, p) # Cardinality(mask))
  <2>1. t = WithAllowed(s, p, mask)
    BY <1>2 DEF set_cpus_allowed_rt, WithAllowed
  <2>2. /\ t \in Kernels /\ SameBooks(s, t) /\ SameRuns(s, t) /\ t.allowed[p] = mask
        /\ \A q \in Tasks : q # p => t.allowed[q] = s.allowed[q]
        /\ t.cpu = s.cpu /\ t.on_rq = s.on_rq /\ t.state = s.state /\ t.prio = s.prio
    BY <2>1, AllowedSet DEF Sound
  <2>3. \A q \in Tasks : s.on_rq[q] => weight(t, q) = weight(s, q)
    BY <1>2, <2>2 DEF weight
  <2>4. Right(t)
    BY <2>2, <2>3, RightStays DEF Sound
  <2>5. OffersWait(t)
    BY <2>2, WaitsStay DEF Sound, SameRuns
  <2> QED  BY <2>2, <2>4, <2>5 DEF Sound, Alone
<1> QED  BY <1>1, <1>2
--------------------------------------------------------------------------------
(***************************************************************************)
(* Where tasks are and what runs: the kinds of steps.                      *)
(***************************************************************************)
Sets(o, o2, e, x)   == o2[e] = x /\ \A f \in Cpus : f # e => o2[f] = o[f]
NotWake(x)          == \A p \in Tasks : ~Waking(x, p)
SamePlaces(s, t)    == /\ t.curr = s.curr
                       /\ \A p \in Tasks : /\ t.cpu[p] = s.cpu[p] /\ t.state[p] = s.state[p]
                                           /\ t.allowed[p] = s.allowed[p] /\ (t.on_rq[p] <=> s.on_rq[p])

LEMMA Executed ==
    ASSUME NEW o, NEW o2, OpsRight(o), NEW e \in Cpus, NEW x \in OpsOf(e), o2 = [o EXCEPT ![e] = x]
    PROVE  OpsRight(o2) /\ Sets(o, o2, e, x)
<1> DEFINE S == {o[f] : f \in Cpus} \cup {x}
<1>1. o \in [Cpus -> S]
  <2>1. \A f \in Cpus : o[f] \in S
    OBVIOUS
  <2> HIDE DEF S
  <2>2. [f \in Cpus |-> o[f]] \in [Cpus -> S]
    BY <2>1
  <2> QED  BY <2>2 DEF OpsRight
<1> HIDE DEF S
<1>2. \A f \in Cpus : o2[f] = IF f = e THEN x ELSE o[f]
  BY <1>1, ExceptAt
<1>3. o2 = [f \in Cpus |-> o2[f]]
  BY <1>1
<1> QED  BY <1>2, <1>3 DEF OpsRight, Sets

\* Nothing about where tasks are changed.
LEMMA QuietPlaced ==
    ASSUME NEW s, NEW t, NEW o, NEW o2, NEW st, Placed(s, o, st), SamePlaces(s, t),
           NEW e \in Cpus, NEW x, Sets(o, o2, e, x), NotWake(x), Switching(o[e]) => Switching(x)
    PROVE  Placed(t, o2, st)
<1>1. WakeRight(t, o2)
  <2>1. \A p \in Tasks : /\ t.on_rq[p] <=> t.state[p] = "running"
                         /\ t.state[p] = "waking" => t.cpu[p] \in t.allowed[p] /\ t.curr[t.cpu[p]] # p
    BY DEF Placed, WakeRight, SamePlaces
  <2>2. ASSUME NEW f \in Cpus, NEW p \in Tasks, Waking(o2[f], p)
        PROVE  t.state[p] = "waking" /\ \A g \in Cpus : Waking(o2[g], p) => g = f
    BY <2>2 DEF Placed, WakeRight, SamePlaces, Sets, NotWake
  <2> QED  BY <2>1, <2>2 DEF WakeRight
<1>2. RunRight(t, o2)
  BY DEF Placed, RunRight, SamePlaces, Sets
<1>3. StopRight(t, st)
  BY DEF Placed, StopRight, SamePlaces, Knows
<1> QED  BY <1>1, <1>2, <1>3 DEF Placed

\* The CPU e switches.
Switches(s, t, e) == /\ SameTasks(s, t) /\ \A d \in Cpus : d # e => t.curr[d] = s.curr[d]
                     /\ t.curr[e] \in Queued(s, e) \cup {Idle, Stop}

LEMMA SwitchPlaced ==
    ASSUME NEW s \in Kernels, NEW t, NEW o, NEW o2, NEW st, Placed(s, o, st), NEW e \in Cpus, Switches(s, t, e),
           NEW x, Sets(o, o2, e, x), NotWake(x)
    PROVE  Placed(t, o2, st)
<1>1. \A p \in Tasks : /\ t.cpu[p] = s.cpu[p] /\ t.state[p] = s.state[p] /\ (t.on_rq[p] <=> s.on_rq[p])
                       /\ t.allowed[p] = s.allowed[p] /\ s.cpu[p] \in Cpus
  BY KernelTypes DEF Switches, SameTasks
<1>2. ASSUME NEW c \in Cpus, NEW p \in Tasks, t.curr[c] = p
      PROVE  \/ s.curr[c] = p /\ c # e
             \/ s.on_rq[p] /\ s.cpu[p] = c
  BY <1>2, Constants DEF Switches, Queued
<1>3. WakeRight(t, o2)
  <2>1. ASSUME NEW p \in Tasks
        PROVE  /\ t.on_rq[p] <=> t.state[p] = "running"
               /\ t.state[p] = "waking" => t.cpu[p] \in t.allowed[p] /\ t.curr[t.cpu[p]] # p
    BY <1>1, <1>2 DEF Placed, WakeRight
  <2>2. ASSUME NEW f \in Cpus, NEW p \in Tasks, Waking(o2[f], p)
        PROVE  t.state[p] = "waking" /\ \A g \in Cpus : Waking(o2[g], p) => g = f
    BY <1>1, <2>2 DEF Placed, WakeRight, Sets, NotWake
  <2> QED  BY <2>1, <2>2 DEF WakeRight
<1>4. RunRight(t, o2)
  BY <1>1, <1>2 DEF Placed, RunRight, Sets
<1>5. StopRight(t, st)
  BY <1>1, <1>2 DEF Placed, StopRight, Knows
<1> QED  BY <1>3, <1>4, <1>5 DEF Placed

\* Of a step that concerns the task p alone, what p keeps.
Concerns(s, t, p) == /\ Alone(s, t, p) /\ t.curr = s.curr /\ t.cpu[p] \in Cpus
Quiet(o, o2, e, x) == Sets(o, o2, e, x) /\ NotWake(x) /\ (Switching(o[e]) => Switching(x))

LEMMA OthersKeep ==
    ASSUME NEW s, NEW t, NEW p \in Tasks, Alone(s, t, p)
    PROVE  \A q \in Tasks : q # p =>
               /\ t.cpu[q] = s.cpu[q] /\ t.state[q] = s.state[q] /\ (t.on_rq[q] <=> s.on_rq[q])
               /\ t.allowed[q] = s.allowed[q]
BY DEF Alone

\* p is moved to d.
LEMMA MovePlaced ==
    ASSUME NEW s \in Kernels, NEW t, NEW o, NEW o2, NEW st, Placed(s, o, st), NEW e \in Cpus, NEW x, Quiet(o, o2, e, x),
           NEW p \in Tasks, Concerns(s, t, p), s.on_rq[p], s.curr[s.cpu[p]] # p,
           t.cpu[p] \in s.allowed[p], t.on_rq[p], t.state[p] = s.state[p], t.allowed[p] = s.allowed[p]
    PROVE  Placed(t, o2, st)
<1>1. \A q \in Tasks : q # p =>
               /\ t.cpu[q] = s.cpu[q] /\ t.state[q] = s.state[q] /\ (t.on_rq[q] <=> s.on_rq[q])
               /\ t.allowed[q] = s.allowed[q]
  BY OthersKeep DEF Concerns
<1>2. t.curr = s.curr /\ \A q \in Tasks : s.cpu[q] \in Cpus
  BY KernelTypes DEF Concerns
<1>3. s.state[p] = "running" /\ \A c \in Cpus : s.curr[c] # p
  BY DEF Placed, RunRight, WakeRight
<1>4. WakeRight(t, o2)
  <2>1. ASSUME NEW q \in Tasks
        PROVE  /\ t.on_rq[q] <=> t.state[q] = "running"
               /\ t.state[q] = "waking" => t.cpu[q] \in t.allowed[q] /\ t.curr[t.cpu[q]] # q
    BY <1>1, <1>2, <1>3 DEF Placed, WakeRight
  <2>2. ASSUME NEW f \in Cpus, NEW q \in Tasks, Waking(o2[f], q)
        PROVE  t.state[q] = "waking" /\ \A g \in Cpus : Waking(o2[g], q) => g = f
    BY <1>1, <1>3, <2>2 DEF Placed, WakeRight, Quiet, Sets, NotWake
  <2> QED  BY <2>1, <2>2 DEF WakeRight
<1>5. RunRight(t, o2)
  BY <1>1, <1>2, <1>3 DEF Placed, RunRight, Quiet, Sets
<1>6. StopRight(t, st)
  BY <1>1, <1>2, <1>3 DEF Placed, StopRight, Knows
<1> QED  BY <1>4, <1>5, <1>6 DEF Placed

\* p is woken up, by the CPU that chose where, or where it still runs.
LEMMA WakePlaced ==
    ASSUME NEW s \in Kernels, NEW t, NEW o, NEW o2, NEW st, Placed(s, o, st), NEW e \in Cpus, NEW x,
           Sets(o, o2, e, x), NotWake(x), ~Switching(o[e]),
           NEW p \in Tasks, Concerns(s, t, p), t.cpu[p] = s.cpu[p], t.on_rq[p], t.state[p] = "running",
           t.allowed[p] = s.allowed[p],
           Waking(o[e], p) \/ (s.state[p] = "asleep" /\ s.curr[s.cpu[p]] = p)
    PROVE  Placed(t, o2, st)
<1>1. \A q \in Tasks : q # p =>
               /\ t.cpu[q] = s.cpu[q] /\ t.state[q] = s.state[q] /\ (t.on_rq[q] <=> s.on_rq[q])
               /\ t.allowed[q] = s.allowed[q]
  BY OthersKeep DEF Concerns
<1>2. t.curr = s.curr /\ \A q \in Tasks : s.cpu[q] \in Cpus
  BY KernelTypes DEF Concerns
<1>3. \A f \in Cpus : f # e => ~Waking(o[f], p)
  BY DEF Placed, WakeRight
<1>4. WakeRight(t, o2)
  <2>1. ASSUME NEW q \in Tasks
        PROVE  /\ t.on_rq[q] <=> t.state[q] = "running"
               /\ t.state[q] = "waking" => t.cpu[q] \in t.allowed[q] /\ t.curr[t.cpu[q]] # q
    BY <1>1, <1>2 DEF Placed, WakeRight
  <2>2. ASSUME NEW f \in Cpus, NEW q \in Tasks, Waking(o2[f], q)
        PROVE  t.state[q] = "waking" /\ \A g \in Cpus : Waking(o2[g], q) => g = f
    BY <1>1, <1>3, <2>2 DEF Placed, WakeRight, Sets, NotWake
  <2> QED  BY <2>1, <2>2 DEF WakeRight
<1>5. RunRight(t, o2)
  BY <1>1, <1>2 DEF Placed, RunRight, Sets
<1>6. StopRight(t, st)
  <2>1. ASSUME NEW q \in Tasks, q # p, (t.on_rq[q] \/ t.curr[t.cpu[q]] = q) /\ t.cpu[q] \notin t.allowed[q]
        PROVE  Knows(st, t, q)
    BY <1>1, <1>2, <2>1 DEF Placed, StopRight, Knows
  <2>2. ASSUME t.cpu[p] \notin t.allowed[p]
        PROVE  Knows(st, t, p)
    BY <2>2 DEF Placed, WakeRight, StopRight, Knows
  <2> QED  BY <2>1, <2>2 DEF StopRight
<1> QED  BY <1>4, <1>5, <1>6 DEF Placed

\* A CPU is chosen for p to wake up on.
LEMMA ToWakePlaced ==
    ASSUME NEW s \in Kernels, NEW t, NEW o, NEW o2, NEW st, Placed(s, o, st), NEW e \in Cpus, NEW x,
           NEW p \in Tasks, Sets(o, o2, e, x), \A q \in Tasks : Waking(x, q) => q = p, ~Switching(o[e]),
           Concerns(s, t, p), ~t.on_rq[p], s.state[p] = "asleep", t.state[p] = "waking",
           t.allowed[p] = s.allowed[p], t.cpu[p] \in s.allowed[p], s.curr[s.cpu[p]] # p
    PROVE  Placed(t, o2, st)
<1>1. \A q \in Tasks : q # p =>
               /\ t.cpu[q] = s.cpu[q] /\ t.state[q] = s.state[q] /\ (t.on_rq[q] <=> s.on_rq[q])
               /\ t.allowed[q] = s.allowed[q]
  BY OthersKeep DEF Concerns
<1>2. t.curr = s.curr /\ t.cpu[p] \in Cpus /\ \A q \in Tasks : s.cpu[q] \in Cpus
  BY KernelTypes DEF Concerns
<1>3. (\A f \in Cpus : ~Waking(o[f], p)) /\ \A c \in Cpus : s.curr[c] # p
  BY DEF Placed, WakeRight, RunRight
<1>4. WakeRight(t, o2)
  <2>1. ASSUME NEW q \in Tasks
        PROVE  /\ t.on_rq[q] <=> t.state[q] = "running"
               /\ t.state[q] = "waking" => t.cpu[q] \in t.allowed[q] /\ t.curr[t.cpu[q]] # q
    BY <1>1, <1>2, <1>3 DEF Placed, WakeRight
  <2>2. ASSUME NEW f \in Cpus, NEW q \in Tasks, Waking(o2[f], q)
        PROVE  t.state[q] = "waking" /\ \A g \in Cpus : Waking(o2[g], q) => g = f
    BY <1>1, <1>3, <2>2 DEF Placed, WakeRight, Sets
  <2> QED  BY <2>1, <2>2 DEF WakeRight
<1>5. RunRight(t, o2)
  BY <1>1, <1>2, <1>3 DEF Placed, RunRight, Sets
<1>6. StopRight(t, st)
  BY <1>1, <1>2, <1>3 DEF Placed, StopRight, Knows
<1> QED  BY <1>4, <1>5, <1>6 DEF Placed

\* What runs on e goes to sleep, and e is to be switched.
LEMMA SleepPlaced ==
    ASSUME NEW s \in Kernels, NEW t, NEW o, NEW o2, NEW st, Placed(s, o, st), NEW e \in Cpus, NEW x,
           Sets(o, o2, e, x), NotWake(x), ~Switching(o[e]), Switching(x),
           NEW p \in Tasks, Concerns(s, t, p), s.curr[e] = p, t.cpu[p] = s.cpu[p],
           ~t.on_rq[p], t.state[p] = "asleep", t.allowed[p] = s.allowed[p]
    PROVE  Placed(t, o2, st)
<1>1. \A q \in Tasks : q # p =>
               /\ t.cpu[q] = s.cpu[q] /\ t.state[q] = s.state[q] /\ (t.on_rq[q] <=> s.on_rq[q])
               /\ t.allowed[q] = s.allowed[q]
  BY OthersKeep DEF Concerns
<1>2. t.curr = s.curr /\ \A q \in Tasks : s.cpu[q] \in Cpus
  BY KernelTypes DEF Concerns
<1>3. s.cpu[p] = e /\ s.on_rq[p] /\ s.state[p] = "running"
  BY DEF Placed, WakeRight, RunRight
<1>4. WakeRight(t, o2)
  <2>1. ASSUME NEW q \in Tasks
        PROVE  /\ t.on_rq[q] <=> t.state[q] = "running"
               /\ t.state[q] = "waking" => t.cpu[q] \in t.allowed[q] /\ t.curr[t.cpu[q]] # q
    BY <1>1, <1>2, <1>3 DEF Placed, WakeRight
  <2>2. ASSUME NEW f \in Cpus, NEW q \in Tasks, Waking(o2[f], q)
        PROVE  t.state[q] = "waking" /\ \A g \in Cpus : Waking(o2[g], q) => g = f
    BY <1>1, <1>3, <2>2 DEF Placed, WakeRight, Sets, NotWake
  <2> QED  BY <2>1, <2>2 DEF WakeRight
<1>5. RunRight(t, o2)
  <2>1. ASSUME NEW c \in Cpus, NEW q \in Tasks, t.curr[c] = q
        PROVE  t.cpu[q] = c /\ (t.on_rq[q] \/ Switching(o2[c]))
    <3>1. s.curr[c] = q /\ s.cpu[q] = c /\ (s.on_rq[q] \/ Switching(o[c]))
      BY <1>2, <2>1 DEF Placed, RunRight
    <3>2. CASE q = p
      BY <1>3, <3>1, <3>2 DEF Sets
    <3>3. CASE q # p
      BY <1>1, <3>1, <3>3 DEF Sets
    <3> QED  BY <3>2, <3>3
  <2> QED  BY <2>1 DEF RunRight
<1>6. StopRight(t, st)
  BY <1>1, <1>2, <1>3 DEF Placed, StopRight, Knows
<1> QED  BY <1>4, <1>5, <1>6 DEF Placed

\* p gets another affinity, and if it may not stay, there is a request to move it.
LEMMA AffinePlaced ==
    ASSUME NEW s \in Kernels, NEW t, NEW o, NEW st, NEW st2, Placed(s, o, st), NEW p \in Tasks,
           Concerns(s, t, p), t.cpu[p] = s.cpu[p], t.state[p] = s.state[p], t.on_rq[p] <=> s.on_rq[p],
           s.state[p] # "waking", st \subseteq st2,
           \/ s.cpu[p] \in t.allowed[p] \/ (~s.on_rq[p] /\ s.curr[s.cpu[p]] # p)
           \/ Knows(st2, t, p)
    PROVE  Placed(t, o, st2)
<1>1. \A q \in Tasks : q # p =>
               /\ t.cpu[q] = s.cpu[q] /\ t.state[q] = s.state[q] /\ (t.on_rq[q] <=> s.on_rq[q])
               /\ t.allowed[q] = s.allowed[q]
  BY OthersKeep DEF Concerns
<1>2. t.curr = s.curr /\ \A q \in Tasks : s.cpu[q] \in Cpus
  BY KernelTypes DEF Concerns
<1>3. WakeRight(t, o)
  <2>1. ASSUME NEW q \in Tasks
        PROVE  /\ t.on_rq[q] <=> t.state[q] = "running"
               /\ t.state[q] = "waking" => t.cpu[q] \in t.allowed[q] /\ t.curr[t.cpu[q]] # q
    BY <1>1, <1>2 DEF Placed, WakeRight
  <2>2. ASSUME NEW f \in Cpus, NEW q \in Tasks, Waking(o[f], q)
        PROVE  t.state[q] = "waking" /\ \A g \in Cpus : Waking(o[g], q) => g = f
    BY <1>1, <2>2 DEF Placed, WakeRight
  <2> QED  BY <2>1, <2>2 DEF WakeRight
<1>4. RunRight(t, o)
  BY <1>1, <1>2 DEF Placed, RunRight
<1>5. StopRight(t, st2)
  <2>1. ASSUME NEW q \in Tasks, q # p, (t.on_rq[q] \/ t.curr[t.cpu[q]] = q) /\ t.cpu[q] \notin t.allowed[q]
        PROVE  Knows(st2, t, q)
    <3>1. Knows(st, s, q)
      BY <1>1, <1>2, <2>1 DEF Placed, StopRight
    <3> QED  BY <1>1, <2>1, <3>1 DEF Knows
  <2>2. ASSUME (t.on_rq[p] \/ t.curr[t.cpu[p]] = p) /\ t.cpu[p] \notin t.allowed[p]
        PROVE  Knows(st2, t, p)
    BY <1>2, <2>2
  <2> QED  BY <2>1, <2>2 DEF StopRight
<1> QED  BY <1>3, <1>4, <1>5 DEF Placed

\* The stopper of c is done with a request for p, which it has moved, or found where it may
\* be, or found that the request is not of its last affinity.
LEMMA StopPlaced ==
    ASSUME NEW t \in Kernels, NEW o, NEW st, NEW st2, Placed(t, o, st), NEW c \in Cpus,
           NEW p \in Tasks, NEW d \in Cpus, st \subseteq st2 \cup {Request(p, c, d)},
           t.cpu[p] = c => t.curr[c] # p /\ (t.on_rq[p] => c \in t.allowed[p] \/ d \notin t.allowed[p])
    PROVE  Placed(t, o, st2)
<1>1. \A q \in Tasks : t.cpu[q] \in Cpus
  BY KernelTypes
<1>2. StopRight(t, st2)
  <2>1. ASSUME NEW q \in Tasks, (t.on_rq[q] \/ t.curr[t.cpu[q]] = q) /\ t.cpu[q] \notin t.allowed[q]
        PROVE  Knows(st2, t, q)
    <3>1. PICK to \in t.allowed[q] : Request(q, t.cpu[q], to) \in st
      BY <2>1 DEF Placed, StopRight, Knows
    <3>2. Request(q, t.cpu[q], to) # Request(p, c, d)
      <4>1. SUFFICES ASSUME Request(q, t.cpu[q], to) = Request(p, c, d) PROVE FALSE
        OBVIOUS
      <4>2. q = p /\ t.cpu[q] = c /\ to = d
        BY <4>1 DEF Request
      <4> QED  BY <2>1, <3>1, <4>2
    <3> QED  BY <3>1, <3>2 DEF Knows
  <2> QED  BY <2>1 DEF StopRight
<1> QED  BY <1>2 DEF Placed
--------------------------------------------------------------------------------
(***************************************************************************)
(* What runs is the head of the queue: what a step has to see to.          *)
(***************************************************************************)
Kept(s, t, c) == t.curr[c] = s.curr[c] /\ (RunsHead(s, c) => RunsHead(t, c))

\* Where the step of a CPU that goes from y to x leaves what runs; g is as in History.
Heads(s, t, o2, y, x, g) ==
    \A c \in Cpus : \/ Kept(s, t, c) /\ (PullsFor(y, c) => PullsFor(x, c))
                    \/ RunsHead(t, c)
                    \/ Pulled(o2, c)
                    \/ c \in g /\ t.curr[c] = s.curr[c]
Lose(s, t, l, g) == {c \in l \cup g : t.curr[c] = s.curr[c] /\ ~t.resched[c]}

LEMMA HeadsKept ==
    ASSUME NEW s, NEW t, NEW o, NEW o2, NEW l, NEW g, HeadRight(s, o, l), NEW e \in Cpus, NEW x,
           Sets(o, o2, e, x), Heads(s, t, o2, o[e], x, g)
    PROVE  HeadRight(t, o2, Lose(s, t, l, g))
<1>1. ASSUME NEW c \in Cpus PROVE c \in Lose(s, t, l, g) \/ Pulled(o2, c) \/ RunsHead(t, c)
  <2>1. CASE Kept(s, t, c) /\ (PullsFor(o[e], c) => PullsFor(x, c))
    <3>1. CASE c \in l
      BY <2>1, <3>1 DEF Lose, Kept, RunsHead
    <3>2. CASE Pulled(o, c)
      BY <2>1, <3>2 DEF Pulled, Sets
    <3>3. CASE RunsHead(s, c)
      BY <2>1, <3>3 DEF Kept
    <3> QED  BY <3>1, <3>2, <3>3 DEF HeadRight
  <2>2. CASE c \in g /\ t.curr[c] = s.curr[c]
    BY <2>2 DEF Lose, RunsHead
  <2> QED  BY <2>1, <2>2 DEF Heads
<1> QED  BY <1>1 DEF HeadRight

LEMMA StillKept ==
    ASSUME NEW s, NEW t, Still(s, t), Asks(s, t)
    PROVE  \A c \in Cpus : Kept(s, t, c)
<1>1. \A x : PrioOf(t, x) = PrioOf(s, x)
  BY DEF Still, SameTasks, PrioOf
<1>2. \A c \in Cpus : Queued(t, c) = Queued(s, c)
  BY DEF Still, SameTasks, Queued
<1> QED  BY <1>1, <1>2 DEF Kept, RunsHead, Still, SameTasks, Asks

\* A step that concerns p alone, and asks nobody less, where p is not.
LEMMA AloneKept ==
    ASSUME NEW s \in Kernels, NEW t, NEW p \in Tasks, Alone(s, t, p), t.curr = s.curr, Asks(s, t),
           NEW c \in Cpus, t.prio[p] = s.prio[p] \/ s.curr[c] # p,
           p \in Queued(t, c) => \/ p \in Queued(s, c) /\ t.prio[p] = s.prio[p]
                                 \/ t.resched[c]
                                 \/ PrioOf(t, t.curr[c]) <= t.prio[p]
    PROVE  Kept(s, t, c)
<1>1. PrioOf(t, t.curr[c]) = PrioOf(s, s.curr[c])
  <2>1. s.curr[c] \in Tasks => t.prio[s.curr[c]] = s.prio[s.curr[c]]
    BY DEF Alone
  <2>2. CASE s.curr[c] \in Tasks
    BY <2>1, <2>2 DEF PrioOf
  <2>3. CASE s.curr[c] \notin Tasks
    BY <2>3, KernelTypes DEF PrioOf
  <2> QED  BY <2>2, <2>3
<1>2. \A q \in Queued(t, c) : q # p => q \in Queued(s, c) /\ t.prio[q] = s.prio[q]
  BY DEF Alone, Queued
<1> QED  BY <1>1, <1>2 DEF Kept, RunsHead, Asks
--------------------------------------------------------------------------------
(***************************************************************************)
(* Steps.                                                                  *)
(***************************************************************************)
Given(e) == IF Missed(e) THEN {op[e].rq} ELSE {}

LEMMA OpFields ==
    ASSUME NEW e \in Cpus, NEW y \in OpsOf(e)
    PROVE  /\ y.pc \in {"push", "retry", "push_both"} => y.rq \in Cpus /\ y.then \in {"post", "woken"}
           /\ y.pc \in {"retry", "push_both", "wake"} => y.task \in Tasks
           /\ y.pc = "push_both" => y.to \in Cpus /\ y.tries \in 0 .. RT_MAX_TRIES - 1
           /\ y.pc \in {"pull", "pull_both"} => /\ y.rq \in Cpus /\ y.at \in 1 .. NCpus + 1
                                                /\ (y.then = "switch" /\ y.rq = e) \/ y.then \in Tasks
           /\ y.pc = "pull_both" => y.at \in Cpus
<1> DEFINE Facts ==
           /\ y.pc \in {"push", "retry", "push_both"} => y.rq \in Cpus /\ y.then \in {"post", "woken"}
           /\ y.pc \in {"retry", "push_both", "wake"} => y.task \in Tasks
           /\ y.pc = "push_both" => y.to \in Cpus /\ y.tries \in 0 .. RT_MAX_TRIES - 1
           /\ y.pc \in {"pull", "pull_both"} => /\ y.rq \in Cpus /\ y.at \in 1 .. NCpus + 1
                                                /\ (y.then = "switch" /\ y.rq = e) \/ y.then \in Tasks
           /\ y.pc = "pull_both" => y.at \in Cpus
<1>1. Cpus \subseteq 1 .. NCpus + 1
  BY Constants DEF Cpus
<1>2. ASSUME y = NoOp \/ y = [pc |-> "post"] PROVE Facts
  BY <1>2 DEF NoOp
<1>3. ASSUME y \in [pc : {"push"}, rq : Cpus, then : {"post", "woken"}] PROVE Facts
  BY <1>3
<1>4. ASSUME y \in [pc : {"retry"}, rq : Cpus, then : {"post", "woken"}, task : Tasks] PROVE Facts
  BY <1>4
<1>5. ASSUME y \in [pc : {"push_both"}, rq : Cpus, then : {"post", "woken"}, task : Tasks, to : Cpus,
                    tries : 0 .. RT_MAX_TRIES - 1] PROVE Facts
  BY <1>5
<1>6. ASSUME y \in [pc : {"pull"}, rq : {e}, then : {"switch"}, at : 1 .. NCpus + 1] PROVE Facts
  BY <1>6
<1>7. ASSUME y \in [pc : {"pull_both"}, rq : {e}, then : {"switch"}, at : Cpus] PROVE Facts
  BY <1>1, <1>7
<1>8. ASSUME y \in [pc : {"pull"}, rq : Cpus, then : Tasks, at : 1 .. NCpus + 1] PROVE Facts
  BY <1>8
<1>9. ASSUME y \in [pc : {"pull_both"}, rq : Cpus, then : Tasks, at : Cpus] PROVE Facts
  BY <1>1, <1>9
<1>10. ASSUME y \in [pc : {"wake"}, task : Tasks] PROVE Facts
  BY <1>10
<1> HIDE DEF Facts
<1>11. Facts
  BY <1>2, <1>3, <1>4, <1>5, <1>6, <1>7, <1>8, <1>9, <1>10 DEF OpsOf
<1> QED  BY <1>11 DEF Facts

LEMMA OpKinds ==
    ASSUME NEW x
    PROVE  /\ x.pc # "wake" => NotWake(x)
           /\ x.pc \notin {"pull", "pull_both"} => ~Switching(x) /\ \A c : ~PullsFor(x, c)
BY DEF NotWake, Waking, Switching, PullsFor

LEMMA NoOpKind ==
    ASSUME NEW e \in Cpus
    PROVE  NoOp \in OpsOf(e) /\ NotWake(NoOp) /\ ~Switching(NoOp) /\ \A c : ~PullsFor(NoOp, c)
<1>1. NoOp.pc = "none" /\ NoOp \in OpsOf(e)
  BY DEF NoOp, OpsOf
<1> QED  BY <1>1, OpKinds

LEMMA GivenCpu ==
    ASSUME TypeOK, NEW e \in Cpus
    PROVE  Given(e) \subseteq Cpus
<1>1. op[e] \in OpsOf(e)
  BY DEF TypeOK, OpsRight
<1>2. Missed(e) => op[e].rq \in Cpus
  BY <1>1, OpFields DEF Missed
<1> QED  BY <1>2 DEF Given

LEMMA StoppersSame ==
    ASSUME IInv, work' = work
    PROVE  WorkRight' /\ Requests' = Requests
BY DEF IInv, TypeOK, WorkRight, work, Requests

LEMMA StepEnds ==
    ASSUME IInv, NEW e \in Cpus, NEW x \in OpsOf(e), op' = [op EXCEPT ![e] = x], History(e),
           Sound(k'), WorkRight', Placed(k', op', Requests'),
           Heads(k, k', op', op[e], x, Given(e))
    PROVE  IInv'
<1>1. OpsRight(op') /\ Sets(op, op', e, x)
  BY Executed DEF IInv, TypeOK
<1>2. lost' = Lose(k, k', lost, Given(e))
  BY DEF History, Lose, Given
<1>3. HeadRight(k', op', lost')
  BY <1>1, <1>2, HeadsKept DEF IInv
<1>4. lost' \subseteq Cpus
  BY <1>2, GivenCpu DEF IInv, TypeOK, Lose
<1>5. k' \in Kernels
  BY DEF Sound
<1>6. TypeOK'
  BY <1>1, <1>4, <1>5 DEF TypeOK
<1> QED  BY <1>3, <1>6 DEF IInv

\* Nothing changes but what e is about, and who is asked to reschedule.
LEMMA QuietStep ==
    ASSUME IInv, NEW e \in Cpus, NEW x \in OpsOf(e), op' = [op EXCEPT ![e] = x], History(e), work' = work,
           Sound(k'), Still(k, k'), Asks(k, k'), NotWake(x), Switching(op[e]) => Switching(x),
           \A c \in Cpus : PullsFor(op[e], c) => PullsFor(x, c) \/ RunsHead(k', c) \/ c \in Given(e)
    PROVE  IInv'
<1>1. OpsRight(op') /\ Sets(op, op', e, x)
  BY Executed DEF IInv, TypeOK
<1>2. SamePlaces(k, k')
  BY DEF Still, SameTasks, SamePlaces
<1>3. Placed(k', op', Requests')
  <2>1. Placed(k, op, Requests)
    BY DEF IInv
  <2>2. Placed(k', op', Requests)
    BY <1>1, <1>2, <2>1, QuietPlaced
  <2> QED  BY <2>2, StoppersSame
<1>4. Heads(k, k', op', op[e], x, Given(e))
  <2>1. \A c \in Cpus : Kept(k, k', c)
    BY StillKept
  <2>2. k'.curr = k.curr
    BY DEF Still
  <2> QED  BY <2>1, <2>2 DEF Heads
<1>5. WorkRight'
  BY StoppersSame
<1> QED  BY <1>3, <1>4, <1>5, StepEnds

LEMMA PrioChanged ==
    ASSUME NEW s, Sound(s), NEW c \in Cpus, NEW p \in Tasks, NEW t, t = prio_changed(s, c, p)
    PROVE  Sound(t) /\ Still(s, t) /\ Asks(s, t) /\ (s.curr[c] = p => RunsHead(t, c))
<1>1. CASE s.prio[p] > s.highest[c] /\ s.curr[c] = p
  <2>1. t = resched_task(s, c)
    BY <1>1 DEF prio_changed
  <2> QED  BY <2>1, ReschedSound DEF RunsHead
<1>2. CASE ~(s.prio[p] > s.highest[c] /\ s.curr[c] = p)
  <2>1. t = s
    BY <1>2 DEF prio_changed
  <2>2. Highest(s, s.highest[c], Queued(s, c)) /\ s \in Kernels
    BY DEF Sound, Right, RightAt
  <2>3. s.prio[p] \in Nat /\ s.highest[c] \in Nat /\ \A q \in Queued(s, c) : s.prio[q] \in Nat
    BY <2>2, KernelTypes DEF Queued
  <2>4. s.curr[c] = p => \A q \in Queued(s, c) : PrioOf(s, p) <= s.prio[q]
    BY <1>2, <2>2, <2>3, Constants DEF Highest, PrioOf
  <2>5. Still(s, t) /\ Asks(s, t)
    BY <2>1 DEF Still, SameTasks, Asks
  <2> QED  BY <2>1, <2>4, <2>5 DEF RunsHead
<1> QED  BY <1>1, <1>2

LEMMA SwitchStep ==
    ASSUME IInv, NEW e \in Cpus, History(e), work' = work, \A c \in Cpus : PullsFor(op[e], c) => c = e,
           NEW s, Sound(s), NEW o, NEW y, Sets(op, o, e, y), Placed(s, o, Requests),
           \A c \in Cpus : c # e => Kept(k, s, c),
           Return(e, s, e, "switch")
    PROVE  IInv'
<1> DEFINE x == IF k'.post[e] THEN [pc |-> "post"] ELSE NoOp
<1>1. k' = context_switch(s, e) /\ op' = [op EXCEPT ![e] = x]
  BY DEF Return, Executes
<1>2. x \in OpsOf(e) /\ NotWake(x)
  <2>1. [pc |-> "post"] \in OpsOf(e) /\ NotWake([pc |-> "post"])
    BY DEF OpsOf, NotWake, Waking
  <2> QED  BY <2>1, NoOpKind
<1> HIDE DEF x
<1>3. OpsRight(op') /\ Sets(op, op', e, x)
  BY <1>1, <1>2, Executed DEF IInv, TypeOK
<1>4. s.curr[e] \in Tasks => s.cpu[s.curr[e]] = e
  BY DEF Placed, RunRight
<1>5. /\ Sound(k') /\ SameTasks(s, k')
      /\ \A d \in Cpus : d # e => k'.curr[d] = s.curr[d] /\ k'.resched[d] = s.resched[d]
      /\ k'.curr[e] \in Queued(s, e) \cup {Idle, Stop}
      /\ \A q \in Queued(s, e) : PrioOf(s, k'.curr[e]) <= s.prio[q]
  BY <1>1, <1>4, Switched
<1>6. Placed(k', op', Requests')
  <2>1. Switches(s, k', e)
    BY <1>5 DEF Switches
  <2>2. Sets(o, op', e, x)
    BY <1>3 DEF Sets
  <2>3. s \in Kernels
    BY DEF Sound
  <2>4. Placed(k', op', Requests)
    BY <1>2, <2>1, <2>2, <2>3, SwitchPlaced
  <2> QED  BY <2>4, StoppersSame
<1>7. (\A z : PrioOf(k', z) = PrioOf(s, z)) /\ \A c \in Cpus : Queued(k', c) = Queued(s, c)
  BY <1>5 DEF SameTasks, PrioOf, Queued
<1>8. k'.prio = s.prio
  BY <1>5 DEF SameTasks
<1>9. RunsHead(k', e)
  BY <1>5, <1>7, <1>8 DEF RunsHead
<1>10. ASSUME NEW c \in Cpus, c # e PROVE Kept(k, k', c)
  <2>1. k'.curr[c] = s.curr[c] /\ k'.resched[c] = s.resched[c]
    BY <1>5, <1>10
  <2>2. RunsHead(s, c) => RunsHead(k', c)
    BY <1>7, <1>8, <2>1 DEF RunsHead
  <2>3. Kept(k, s, c)
    BY <1>10
  <2> QED  BY <2>1, <2>2, <2>3 DEF Kept
<1>11. Heads(k, k', op', op[e], x, Given(e))
  BY <1>9, <1>10 DEF Heads
<1>12. WorkRight' /\ Sound(k')
  BY <1>5, StoppersSame
<1> QED  BY <1>1, <1>2, <1>6, <1>11, <1>12, StepEnds

LEMMA QuietReturn ==
    ASSUME IInv, NEW e \in Cpus, History(e), work' = work, ~Switching(op[e]), \A c : ~PullsFor(op[e], c),
           NEW s, Sound(s), Still(k, s), Asks(k, s), NEW c \in Cpus, NEW then \in {"post", "woken"},
           Return(e, s, c, then)
    PROVE  IInv'
<1>1. op' = [op EXCEPT ![e] = NoOp] /\ (k' = s \/ k' = [s EXCEPT !.post[c] = FALSE])
  BY DEF Return, Executes
<1>2. Sound(k') /\ Still(k, k') /\ Asks(k, k')
  <2>1. CASE k' = [s EXCEPT !.post[c] = FALSE]
    <3>1. k' \in Kernels /\ SameBooks(s, k') /\ SameTasks(s, k') /\ SameRuns(s, k')
      BY <2>1, PostSet DEF Sound
    <3>2. Right(k') /\ OffersWait(k')
      BY <3>1, TasksSameRight, WaitsStay DEF Sound, SameRuns
    <3> QED  BY <3>1, <3>2 DEF Sound, Still, SameTasks, SameRuns, Asks
  <2> QED  BY <1>1, <2>1
<1> QED  BY <1>1, <1>2, NoOpKind, QuietStep

\* A pull for the priority change of p is over.
LEMMA TaskReturn ==
    ASSUME IInv, NEW e \in Cpus, History(e), work' = work, op[e].pc = "pull", op[e].then \in Tasks,
           Return(e, k, op[e].rq, op[e].then)
    PROVE  IInv'
<1> DEFINE p == op[e].then
           c == op[e].rq
<1>1. op[e] \in OpsOf(e)
  BY DEF IInv, TypeOK, OpsRight
<1>2. c \in Cpus /\ ~Switching(op[e])
  BY <1>1, OpFields, Constants DEF Switching
<1>3. k' = prio_changed(k, c, p) /\ op' = [op EXCEPT ![e] = NoOp]
  BY Constants DEF Return, Executes
<1>4. Sound(k') /\ Still(k, k') /\ Asks(k, k') /\ (k.curr[c] = p => RunsHead(k', c))
  BY <1>2, <1>3, PrioChanged DEF IInv
<1>5. op'[e] = NoOp
  <2>1. OpsRight(op) /\ NoOp \in OpsOf(e)
    BY NoOpKind DEF IInv, TypeOK
  <2>2. Sets(op, op', e, NoOp)
    BY <1>3, <2>1, Executed
  <2> QED  BY <2>2 DEF Sets
<1>6. ASSUME NEW d \in Cpus, PullsFor(op[e], d) PROVE RunsHead(k', d) \/ d \in Given(e)
  BY <1>4, <1>5, <1>6 DEF PullsFor, Given, Missed
<1> QED  BY <1>2, <1>3, <1>4, <1>6, NoOpKind, QuietStep
--------------------------------------------------------------------------------
(***************************************************************************)
(* Push.                                                                   *)
(***************************************************************************)
Pushing(e) == ~Switching(op[e]) /\ \A c : ~PullsFor(op[e], c)

LEMMA PushOps ==
    ASSUME NEW e \in Cpus, NEW c \in Cpus, NEW then \in {"post", "woken"}
    PROVE  /\ [pc |-> "push", rq |-> c, then |-> then] \in OpsOf(e)
           /\ NotWake([pc |-> "push", rq |-> c, then |-> then])
           /\ \A p \in Tasks : /\ [pc |-> "retry", rq |-> c, then |-> then, task |-> p] \in OpsOf(e)
                               /\ NotWake([pc |-> "retry", rq |-> c, then |-> then, task |-> p])
           /\ \A p \in Tasks, d \in Cpus, tries \in 0 .. RT_MAX_TRIES - 1 :
                 LET x == [pc |-> "push_both", rq |-> c, then |-> then, task |-> p, to |-> d, tries |-> tries]
                 IN  x \in OpsOf(e) /\ NotWake(x)
BY DEF OpsOf, NotWake, Waking

LEMMA PushStep ==
    ASSUME IInv, NEW e \in Cpus, Pushing(e), History(e), work' = work, NEW x \in OpsOf(e), NotWake(x),
           op' = [op EXCEPT ![e] = x], Sound(k'), Still(k, k'), Asks(k, k')
    PROVE  IInv'
BY QuietStep DEF Pushing

LEMMA SameStep ==
    ASSUME IInv, NEW e \in Cpus, Pushing(e), History(e), work' = work, NEW x \in OpsOf(e), NotWake(x),
           op' = [op EXCEPT ![e] = x], k' = k
    PROVE  IInv'
<1>1. Sound(k') /\ Still(k, k') /\ Asks(k, k')
  BY DEF IInv, Still, SameTasks, Asks
<1> QED  BY <1>1, PushStep

LEMMA NoLowestStep ==
    ASSUME IInv, NEW e \in Cpus, Pushing(e), History(e), work' = work,
           NEW c \in Cpus, NEW then \in {"post", "woken"}, NEW p, NoLowest(e, k, c, then, p)
    PROVE  IInv'
<1> DEFINE top == [pc |-> "push", rq |-> c, then |-> then]
           again == [pc |-> "retry", rq |-> c, then |-> then, task |-> Head(k.pushable[c])]
<1>1. top \in OpsOf(e) /\ NotWake(top)
  BY PushOps
<1>2. k.pushable[c] # <<>> => again \in OpsOf(e) /\ NotWake(again)
  <2>1. k.pushable[c] \in Seq(Tasks)
    BY KernelTypes DEF IInv, Sound
  <2>2. k.pushable[c] # <<>> => Head(k.pushable[c]) \in Tasks
    BY <2>1
  <2> QED  BY <2>2, PushOps
<1>3. CASE k' = dequeue_pushable_task(k, c, p) /\ op' = [op EXCEPT ![e] = top]
  <2>1. k \in Kernels /\ Right(k) /\ OffersWait(k)
    BY DEF IInv, Sound
  <2>2. /\ k' \in Kernels /\ Right(k') /\ Outer(k, k') /\ k'.on_rq = k.on_rq
        /\ ToSet(k'.pushable[c]) = ToSet(k.pushable[c]) \ {p}
        /\ OtherOffers(k, k', c)
    BY <1>3, <2>1, DequeuePushable
  <2>3. Still(k, k') /\ Asks(k, k')
    BY <2>2 DEF Still, SameTasks, Outer, Asks
  <2>4. OffersWait(k')
    <3>1. ASSUME NEW d \in Cpus PROVE ToSet(k'.pushable[d]) \subseteq ToSet(k.pushable[d])
      BY <2>2 DEF OtherOffers
    <3>2. k'.curr = k.curr
      BY <2>2 DEF Outer
    <3> QED  BY <2>1, <3>1, <3>2 DEF OffersWait
  <2>5. Sound(k')
    BY <2>2, <2>4 DEF Sound
  <2> QED  BY <1>1, <1>3, <2>3, <2>5, PushStep
<1>4. CASE k' = k /\ op' = [op EXCEPT ![e] = top]
  BY <1>1, <1>4, SameStep
<1>5. CASE k.pushable[c] # <<>> /\ k' = k /\ op' = [op EXCEPT ![e] = again]
  BY <1>2, <1>5, SameStep
<1> QED  BY <1>3, <1>4, <1>5 DEF NoLowest, Executes

LEMMA LowestCpus ==
    ASSUME NEW s \in Kernels, NEW p \in Tasks
    PROVE  find_lowest_rq(s, p) \subseteq Cpus
<1>1. cpupri_find(s, p) \subseteq Cpus /\ s.cpu[p] \in Cpus
  BY KernelTypes DEF cpupri_find
<1> QED  BY <1>1 DEF find_lowest_rq

LEMMA FindLowestStep ==
    ASSUME IInv, NEW e \in Cpus, Pushing(e), History(e), work' = work,
           NEW c \in Cpus, NEW then \in {"post", "woken"}, NEW p \in Tasks, NEW tries \in 0 .. RT_MAX_TRIES,
           FindLowest(e, k, c, then, p, tries)
    PROVE  IInv'
<1>1. CASE tries = RT_MAX_TRIES \/ find_lowest_rq(k, p) \subseteq {c}
  BY <1>1, NoLowestStep DEF FindLowest
<1>2. CASE ~(tries = RT_MAX_TRIES \/ find_lowest_rq(k, p) \subseteq {c})
  <2>1. PICK d \in find_lowest_rq(k, p) :
           /\ k' = k
           /\ op' = [op EXCEPT ![e] = [pc |-> "push_both", rq |-> c, then |-> then, task |-> p,
                                       to |-> d, tries |-> tries]]
    BY <1>2 DEF FindLowest, Executes
  <2>2. d \in Cpus /\ tries \in 0 .. RT_MAX_TRIES - 1
    BY <1>2, LowestCpus DEF IInv, Sound, RT_MAX_TRIES
  <2> DEFINE x == [pc |-> "push_both", rq |-> c, then |-> then, task |-> p, to |-> d, tries |-> tries]
  <2>3. x \in OpsOf(e) /\ NotWake(x)
    BY <2>2, PushOps
  <2> HIDE DEF x
  <2>4. k' = k /\ op' = [op EXCEPT ![e] = x]
    BY <2>1 DEF x
  <2> QED  BY <2>3, <2>4, SameStep
<1> QED  BY <1>1, <1>2

LEMMA TryPushStep ==
    ASSUME IInv, NEW e \in Cpus, Pushing(e), History(e), work' = work,
           NEW c \in Cpus, NEW then \in {"post", "woken"}, NEW p \in Tasks, TryPush(e, c, then, p)
    PROVE  IInv'
<1>1. Sound(k) /\ Still(k, k) /\ Asks(k, k)
  BY DEF IInv, Still, SameTasks, Asks
<1>2. CASE p = k.curr[c]
  <2>1. Return(e, k, c, then)
    BY <1>2 DEF TryPush
  <2> QED  BY <1>1, <2>1, QuietReturn DEF Pushing
<1>3. CASE p # k.curr[c] /\ k.prio[p] < PrioOf(k, k.curr[c])
  <2> DEFINE s == resched_task(k, c)
  <2>1. Return(e, s, c, then)
    BY <1>3 DEF TryPush
  <2>2. Sound(s) /\ Still(k, s) /\ Asks(k, s)
    BY <1>1, ReschedSound
  <2> HIDE DEF s
  <2> QED  BY <2>1, <2>2, QuietReturn DEF Pushing
<1>4. CASE ~(p = k.curr[c]) /\ ~(p # k.curr[c] /\ k.prio[p] < PrioOf(k, k.curr[c]))
  <2>1. FindLowest(e, k, c, then, p, 0)
    BY <1>4 DEF TryPush
  <2> DEFINE tries == 0
  <2>2. tries \in 0 .. RT_MAX_TRIES /\ FindLowest(e, k, c, then, p, tries)
    BY <2>1 DEF RT_MAX_TRIES
  <2> HIDE DEF tries
  <2> QED  BY <2>2, FindLowestStep
<1> QED  BY <1>2, <1>3, <1>4

\* p goes from its CPU to d; k' differs from that at most in who is asked to reschedule.
LEMMA MoveMade ==
    ASSUME IInv, NEW e \in Cpus, NEW x, Sets(op, op', e, x), NotWake(x), Switching(op[e]) => Switching(x),
           \A c \in Cpus : PullsFor(op[e], c) => PullsFor(x, c),
           NEW p \in Tasks, k.on_rq[p], k.curr[k.cpu[p]] # p, NEW d \in Cpus, d \in k.allowed[p],
           NEW s, s = Move(k, p, d), Still(s, k'), Asks(s, k'),
           k'.resched[d] \/ PullsFor(x, d) \/ PrioOf(s, s.curr[d]) <= s.prio[p]
    PROVE  Placed(k', op', Requests) /\ Heads(k, k', op', op[e], x, Given(e))
<1>1. Sound(k) /\ Placed(k, op, Requests) /\ k \in Kernels
  BY DEF IInv, Sound
<1>2. /\ Sound(s) /\ Alone(k, s, p) /\ SameRuns(k, s)
      /\ s.cpu[p] = d /\ s.on_rq[p]
      /\ s.state[p] = k.state[p] /\ s.prio[p] = k.prio[p] /\ s.allowed[p] = k.allowed[p]
  BY <1>1, Moved
<1>3. SameTasks(s, k') /\ k'.curr = s.curr
  BY DEF Still
<1>4. Alone(k, k', p)
  BY <1>2, <1>3 DEF Alone, SameTasks
<1>5. /\ k'.curr = k.curr /\ k'.cpu[p] = d /\ k'.on_rq[p] /\ k'.state[p] = k.state[p]
      /\ k'.prio[p] = k.prio[p] /\ k'.allowed[p] = k.allowed[p]
  BY <1>2, <1>3 DEF SameRuns, SameTasks
<1>6. Placed(k', op', Requests)
  <2>1. Quiet(op, op', e, x)
    BY DEF Quiet
  <2>2. Concerns(k, k', p)
    BY <1>4, <1>5 DEF Concerns
  <2> QED  BY <1>1, <1>5, <2>1, <2>2, MovePlaced
<1>7. Asks(k, k')
  BY <1>2 DEF Asks, SameRuns
<1>8. PrioOf(k', k'.curr[d]) = PrioOf(s, s.curr[d]) /\ k'.prio[p] = s.prio[p]
  BY <1>3 DEF SameTasks, PrioOf
<1>9. ASSUME NEW c \in Cpus, ~PullsFor(x, c) PROVE Kept(k, k', c)
  <2>1. p \in Queued(k', c) => c = d
    BY <1>5 DEF Queued
  <2> QED  BY <1>1, <1>4, <1>5, <1>7, <1>8, <1>9, <2>1, AloneKept
<1>10. \A c \in Cpus : PullsFor(x, c) => Pulled(op', c)
  BY DEF Pulled, Sets
<1> QED  BY <1>6, <1>9, <1>10 DEF Heads

LEMMA PushSteps ==
    ASSUME IInv, NEW e \in Cpus, History(e), Push(e) \/ PushRetry(e) \/ PostSchedule(e)
    PROVE  IInv'
<1>1. op[e] \in OpsOf(e) /\ k \in Kernels
  BY DEF IInv, TypeOK, OpsRight
<1>2. Sound(k) /\ Still(k, k) /\ Asks(k, k)
  BY DEF IInv, Still, SameTasks, Asks
<1>3. CASE Push(e)
  <2>1. op[e].pc = "push" /\ work' = work
    BY <1>3 DEF Push
  <2>2. Pushing(e) /\ op[e].rq \in Cpus /\ op[e].then \in {"post", "woken"}
    BY <1>1, <2>1, OpKinds, OpFields DEF Pushing
  <2>3. CASE ~k.overloaded[op[e].rq] \/ k.pushable[op[e].rq] = <<>>
    <3>1. Return(e, k, op[e].rq, op[e].then)
      BY <1>3, <2>3 DEF Push
    <3> QED  BY <1>2, <2>1, <2>2, <3>1, QuietReturn DEF Pushing
  <2>4. CASE ~(~k.overloaded[op[e].rq] \/ k.pushable[op[e].rq] = <<>>)
    <3>1. TryPush(e, op[e].rq, op[e].then, Head(k.pushable[op[e].rq]))
      BY <1>3, <2>4 DEF Push
    <3>2. k.pushable[op[e].rq] \in Seq(Tasks)
      BY <1>1, <2>2, KernelTypes
    <3>3. Head(k.pushable[op[e].rq]) \in Tasks
      BY <2>4, <3>2
    <3> QED  BY <2>1, <2>2, <3>1, <3>3, TryPushStep
  <2> QED  BY <2>3, <2>4
<1>4. CASE PushRetry(e)
  <2>1. op[e].pc = "retry" /\ work' = work /\ TryPush(e, op[e].rq, op[e].then, op[e].task)
    BY <1>4 DEF PushRetry
  <2>2. Pushing(e) /\ op[e].rq \in Cpus /\ op[e].then \in {"post", "woken"} /\ op[e].task \in Tasks
    BY <1>1, <2>1, OpKinds, OpFields DEF Pushing
  <2> QED  BY <2>1, <2>2, TryPushStep
<1>5. CASE PostSchedule(e)
  <2> DEFINE then == "post"
             x == [pc |-> "push", rq |-> e, then |-> then]
  <2>1. op[e].pc = "post" /\ work' = work
    BY <1>5 DEF PostSchedule
  <2>2. Pushing(e)
    BY <2>1, OpKinds DEF Pushing
  <2>3. \/ k' = k /\ op' = [op EXCEPT ![e] = x]
        \/ Return(e, k, e, then)
    BY <1>5 DEF PostSchedule, Executes
  <2>4. then \in {"post", "woken"}
    OBVIOUS
  <2> HIDE DEF then
  <2>5. x \in OpsOf(e) /\ NotWake(x)
    BY <2>4, PushOps
  <2> HIDE DEF x
  <2>6. CASE Return(e, k, e, then)
    BY <1>2, <2>1, <2>2, <2>4, <2>6, QuietReturn DEF Pushing
  <2>7. CASE k' = k /\ op' = [op EXCEPT ![e] = x]
    BY <2>1, <2>2, <2>5, <2>7, SameStep
  <2> QED  BY <2>3, <2>6, <2>7
<1> QED  BY <1>3, <1>4, <1>5

LEMMA PushBothStep ==
    ASSUME IInv, NEW e \in Cpus, History(e), PushBoth(e)
    PROVE  IInv'
<1> DEFINE c == op[e].rq
           d == op[e].to
           p == op[e].task
           then == op[e].then
           x == [pc |-> "push", rq |-> c, then |-> then]
<1>1. op[e] \in OpsOf(e) /\ k \in Kernels /\ Sound(k)
  BY DEF IInv, TypeOK, OpsRight
<1>2. op[e].pc = "push_both" /\ work' = work
  BY DEF PushBoth
<1>3. /\ Pushing(e) /\ c \in Cpus /\ then \in {"post", "woken"} /\ p \in Tasks /\ d \in Cpus
      /\ op[e].tries \in 0 .. RT_MAX_TRIES - 1
  BY <1>1, <1>2, OpKinds, OpFields DEF Pushing
<1>4. \/ NoLowest(e, k, c, then, p)
      \/ ~Shifted(c, d, p) /\ k' = resched_task(Move(k, p, d), d) /\ op' = [op EXCEPT ![e] = x]
      \/ FindLowest(e, k, c, then, p, op[e].tries + 1)
  BY DEF PushBoth, Executes
<1>5. op[e].tries + 1 \in 0 .. RT_MAX_TRIES
  BY <1>3 DEF RT_MAX_TRIES
<1>6. x \in OpsOf(e) /\ NotWake(x)
  BY <1>3, PushOps
<1> HIDE DEF c, d, p, then, x
<1>7. CASE NoLowest(e, k, c, then, p)
  BY <1>2, <1>3, <1>7, NoLowestStep
<1>8. CASE FindLowest(e, k, c, then, p, op[e].tries + 1)
  BY <1>2, <1>3, <1>5, <1>8, FindLowestStep
<1>9. CASE ~Shifted(c, d, p) /\ k' = resched_task(Move(k, p, d), d) /\ op' = [op EXCEPT ![e] = x]
  <2> DEFINE s == Move(k, p, d)
  <2>1. k.cpu[p] = c /\ d \in k.allowed[p] /\ k.curr[c] # p /\ k.on_rq[p]
    BY <1>9 DEF Shifted
  <2>2. Sound(s)
    BY <1>1, <1>3, <2>1, Moved
  <2>3. s = Move(k, p, d) /\ k' = resched_task(s, d)
    BY <1>9
  <2> HIDE DEF s
  <2>4. Sound(k') /\ Still(s, k') /\ Asks(s, k') /\ k'.resched[d]
    BY <1>3, <2>2, <2>3, ReschedSound
  <2>5. Sets(op, op', e, x)
    BY <1>6, <1>9, Executed DEF IInv, TypeOK
  <2>6. ~Switching(op[e]) /\ \A b \in Cpus : ~PullsFor(op[e], b)
    BY <1>3 DEF Pushing
  <2>7. Placed(k', op', Requests) /\ Heads(k, k', op', op[e], x, Given(e))
    BY <1>3, <1>6, <2>1, <2>3, <2>4, <2>5, <2>6, MoveMade
  <2>8. WorkRight' /\ Placed(k', op', Requests')
    BY <1>2, <2>7, StoppersSame
  <2>9. op' = [op EXCEPT ![e] = x] /\ Heads(k, k', op', op[e], x, Given(e))
    BY <1>9, <2>7
  <2> QED  BY <1>6, <2>4, <2>8, <2>9, StepEnds
<1> QED  BY <1>4, <1>7, <1>8, <1>9
--------------------------------------------------------------------------------
(***************************************************************************)
(* Pull.                                                                   *)
(***************************************************************************)
\* A pull goes on.
GoesOn(y, x) == /\ NotWake(x) /\ (Switching(y) => Switching(x))
                /\ \A c \in Cpus : PullsFor(y, c) => PullsFor(x, c)

LEMMA PullOps ==
    ASSUME NEW e \in Cpus, NEW y \in OpsOf(e), y.pc \in {"pull", "pull_both"}, y.at \in Cpus
    PROVE  /\ [y EXCEPT !.pc = "pull", !.at = y.at + 1] \in OpsOf(e)
           /\ GoesOn(y, [y EXCEPT !.pc = "pull", !.at = y.at + 1])
           /\ [y EXCEPT !.pc = "pull_both"] \in OpsOf(e)
           /\ GoesOn(y, [y EXCEPT !.pc = "pull_both"])
           /\ y.pc = "pull" => [y EXCEPT !.at = y.at + 1] = [y EXCEPT !.pc = "pull", !.at = y.at + 1]
<1> DEFINE x == [y EXCEPT !.pc = "pull", !.at = y.at + 1]
           z == [y EXCEPT !.pc = "pull_both"]
           mine(pc, ats) == [pc : {pc}, rq : {e}, then : {"switch"}, at : ats]
           some(pc, ats) == [pc : {pc}, rq : Cpus, then : Tasks, at : ats]
           all == 1 .. NCpus + 1
<1>1. y.at + 1 \in all /\ Cpus \subseteq all
  BY Constants DEF Cpus
<1>2. \/ y \in mine("pull", all) \/ y \in mine("pull_both", Cpus)
      \/ y \in some("pull", all) \/ y \in some("pull_both", Cpus)
  BY DEF OpsOf, NoOp
<1> HIDE DEF all
<1>3. /\ x \in mine("pull", all) \/ x \in some("pull", all)
      /\ z \in mine("pull_both", Cpus) \/ z \in some("pull_both", Cpus)
      /\ x.pc = "pull" /\ z.pc = "pull_both"
      /\ x.rq = y.rq /\ z.rq = y.rq /\ x.then = y.then /\ z.then = y.then
      /\ y.pc = "pull" => [y EXCEPT !.at = y.at + 1] = x
  <2>1. CASE y \in mine("pull", all)
    BY <1>1, <2>1
  <2>2. CASE y \in mine("pull_both", Cpus)
    BY <1>1, <2>2
  <2>3. CASE y \in some("pull", all)
    BY <1>1, <2>3
  <2>4. CASE y \in some("pull_both", Cpus)
    BY <1>1, <2>4
  <2> QED  BY <1>2, <2>1, <2>2, <2>3, <2>4
<1>4. x \in OpsOf(e) /\ z \in OpsOf(e)
  BY <1>3 DEF OpsOf, all
<1> HIDE DEF x, z
<1>5. GoesOn(y, x) /\ GoesOn(y, z)
  BY <1>3, OpKinds DEF GoesOn, Switching, PullsFor
<1> QED  BY <1>3, <1>4, <1>5 DEF x, z

LEMMA PullStep ==
    ASSUME IInv, NEW e \in Cpus, History(e), Pull(e)
    PROVE  IInv'
<1> DEFINE c == op[e].rq
           d == op[e].at
           then == op[e].then
           x == [op[e] EXCEPT !.pc = "pull", !.at = op[e].at + 1]
           z == [op[e] EXCEPT !.pc = "pull_both"]
<1>1. op[e] \in OpsOf(e) /\ k \in Kernels /\ Sound(k)
  BY DEF IInv, TypeOK, OpsRight
<1>2. op[e].pc = "pull" /\ work' = work
  BY DEF Pull
<1>3. c \in Cpus /\ d \in 1 .. NCpus + 1 /\ ((then = "switch" /\ c = e) \/ then \in Tasks)
  BY <1>1, <1>2, OpFields
<1>4. CASE d > NCpus
  <2>1. Return(e, k, c, then)
    BY <1>4 DEF Pull
  <2>2. CASE then \in Tasks
    BY <1>2, <2>1, <2>2, TaskReturn
  <2>3. CASE then = "switch" /\ c = e
    <3>1. \A b \in Cpus : PullsFor(op[e], b) => b = e
      BY <2>3 DEF PullsFor
    <3>2. Sets(op, op, e, op[e]) /\ Placed(k, op, Requests) /\ \A b \in Cpus : b # e => Kept(k, k, b)
      BY DEF Sets, IInv, Kept
    <3>3. Return(e, k, e, "switch")
      BY <2>1, <2>3
    <3> QED  BY <1>1, <1>2, <3>1, <3>2, <3>3, SwitchStep
  <2> QED  BY <1>3, <2>2, <2>3
<1>5. CASE ~(d > NCpus)
  <2>1. d \in Cpus
    BY <1>3, <1>5, Constants DEF Cpus
  <2>2. x \in OpsOf(e) /\ GoesOn(op[e], x) /\ z \in OpsOf(e) /\ GoesOn(op[e], z)
        /\ [op[e] EXCEPT !.at = d + 1] = x
    BY <1>1, <1>2, <2>1, PullOps
  <2>3. k' = k /\ (op' = [op EXCEPT ![e] = [op[e] EXCEPT !.at = d + 1]] \/ op' = [op EXCEPT ![e] = z])
    BY <1>5 DEF Pull, Executes, Goto
  <2> HIDE DEF x, z, c, d, then
  <2>4. Sound(k') /\ Still(k, k') /\ Asks(k, k')
    BY <1>1, <2>3 DEF Still, SameTasks, Asks
  <2>5. op' = [op EXCEPT ![e] = x] \/ op' = [op EXCEPT ![e] = z]
    BY <2>2, <2>3
  <2>6. CASE op' = [op EXCEPT ![e] = x]
    BY <1>2, <2>2, <2>4, <2>6, QuietStep DEF GoesOn
  <2>7. CASE op' = [op EXCEPT ![e] = z]
    BY <1>2, <2>2, <2>4, <2>7, QuietStep DEF GoesOn
  <2> QED  BY <2>5, <2>6, <2>7
<1> QED  BY <1>4, <1>5

LEMMA PullBothStep ==
    ASSUME IInv, NEW e \in Cpus, History(e), PullBoth(e)
    PROVE  IInv'
<1> DEFINE c == op[e].rq
           d == op[e].at
           p == pick_next_highest_task_rt(k, d, c)
           x == [op[e] EXCEPT !.pc = "pull", !.at = op[e].at + 1]
           s == Move(k, p, c)
<1>1. op[e] \in OpsOf(e) /\ k \in Kernels /\ Sound(k)
  BY DEF IInv, TypeOK, OpsRight
<1>2. op[e].pc = "pull_both" /\ work' = work
  BY DEF PullBoth
<1>3. c \in Cpus /\ d \in Cpus
  BY <1>1, <1>2, OpFields
<1>4. op' = [op EXCEPT ![e] = x]
  BY DEF PullBoth, Executes
<1>5. k' = k \/ (p # None /\ k' = s)
  BY DEF PullBoth
<1>6. x \in OpsOf(e) /\ GoesOn(op[e], x)
  BY <1>1, <1>2, <1>3, PullOps
<1>7. PullsFor(x, c)
  <2>1. PullsFor(op[e], c)
    BY <1>2 DEF PullsFor
  <2> QED  BY <1>3, <1>6, <2>1 DEF GoesOn
<1>8. p # None => /\ p \in Tasks /\ p \in ToSet(k.queue[d])
                  /\ k.curr[d] # p /\ c \in k.allowed[p]
  BY <1>1, <1>3, Picked
<1>9. s = Move(k, p, c)
  OBVIOUS
<1> HIDE DEF c, d, p, x, s
<1>10. CASE k' = k
  <2>1. Sound(k') /\ Still(k, k') /\ Asks(k, k')
    BY <1>1, <1>10 DEF Still, SameTasks, Asks
  <2> QED  BY <1>2, <1>4, <1>6, <2>1, QuietStep DEF GoesOn
<1>11. CASE p # None /\ k' = s
  <2>1. p \in Tasks /\ c \in k.allowed[p] /\ k.on_rq[p] /\ k.curr[k.cpu[p]] # p
    <3>1. Lists(k, k.queue[d], Queued(k, d))
      BY <1>1, <1>3 DEF Sound, Right, RightAt, ListRight
    <3>2. p \in Queued(k, d)
      BY <1>8, <1>11, <3>1 DEF Lists
    <3> QED  BY <1>8, <1>11, <3>2 DEF Queued
  <2>2. Sound(s)
    BY <1>1, <1>3, <1>9, <2>1, Moved
  <2>3. Sound(k') /\ Still(s, k') /\ Asks(s, k')
    BY <1>11, <2>2 DEF Still, SameTasks, Asks
  <2>4. Sets(op, op', e, x)
    BY <1>4, <1>6, Executed DEF IInv, TypeOK
  <2>5. NotWake(x) /\ (Switching(op[e]) => Switching(x)) /\ \A b \in Cpus : PullsFor(op[e], b) => PullsFor(x, b)
    BY <1>6 DEF GoesOn
  <2>6. Placed(k', op', Requests) /\ Heads(k, k', op', op[e], x, Given(e))
    BY <1>3, <1>7, <1>9, <2>1, <2>3, <2>4, <2>5, MoveMade
  <2>7. WorkRight' /\ Placed(k', op', Requests')
    BY <1>2, <2>6, StoppersSame
  <2> QED  BY <1>4, <1>6, <2>3, <2>6, <2>7, StepEnds
<1> QED  BY <1>5, <1>10, <1>11
--------------------------------------------------------------------------------
(***************************************************************************)
(* Switching.                                                              *)
(***************************************************************************)
LEMMA StartOps ==
    ASSUME NEW e \in Cpus, NEW c \in Cpus, NEW then, (c = e /\ then = "switch") \/ then \in Tasks
    PROVE  LET x == [pc |-> "pull", rq |-> c, then |-> then, at |-> 1]
           IN  /\ x \in OpsOf(e) /\ NotWake(x) /\ PullsFor(x, c)
               /\ then = "switch" => Switching(x)
<1>1. 1 \in 1 .. NCpus + 1
  BY Constants
<1> QED  BY <1>1 DEF OpsOf, NotWake, Waking, PullsFor, Switching

LEMMA FreeOp ==
    ASSUME NEW e, Free(e)
    PROVE  op[e].pc = "none" /\ NotWake(op[e]) /\ ~Switching(op[e]) /\ \A c : ~PullsFor(op[e], c)
<1>1. op[e].pc = "none"
  BY DEF Free, NoOp
<1> QED  BY <1>1, OpKinds

\* The CPU e is about to switch, at once or after a pull.
Leaving(e) == [pc |-> "pull", rq |-> e, then |-> "switch", at |-> 1]

LEMMA LeaveStep ==
    ASSUME IInv, NEW e \in Cpus, History(e), work' = work, Free(e),
           NEW s, Sound(s), NEW o, o = [op EXCEPT ![e] = Leaving(e)], Placed(s, o, Requests),
           \A c \in Cpus : Kept(k, s, c),
           StartPull(e, s, e, "switch") \/ Return(e, s, e, "switch")
    PROVE  IInv'
<1> DEFINE x == Leaving(e)
<1>1. x \in OpsOf(e) /\ NotWake(x) /\ PullsFor(x, e)
  BY StartOps DEF Leaving
<1>2. op[e].pc = "none" /\ NotWake(op[e]) /\ ~Switching(op[e]) /\ \A c : ~PullsFor(op[e], c)
  BY FreeOp
<1>3. (k' = s /\ op' = [op EXCEPT ![e] = x]) \/ Return(e, s, e, "switch")
  BY DEF StartPull, Executes, Leaving
<1> HIDE DEF x
<1>4. CASE k' = s /\ op' = [op EXCEPT ![e] = x]
  <2>1. Sets(op, op', e, x)
    BY <1>1, <1>4, Executed DEF IInv, TypeOK
  <2>2. Pulled(op', e)
    BY <1>1, <2>1 DEF Pulled, Sets
  <2>3. Heads(k, k', op', op[e], x, Given(e))
    BY <1>2, <1>4, <2>2 DEF Heads
  <2>4. Placed(k', op', Requests') /\ Sound(k')
    BY <1>4, StoppersSame DEF x
  <2> QED  BY <1>1, <1>4, <2>3, <2>4, StoppersSame, StepEnds
<1>5. CASE Return(e, s, e, "switch")
  <2>1. Sets(op, o, e, x)
    BY <1>1, Executed DEF IInv, TypeOK, x
  <2> QED  BY <1>2, <1>5, <2>1, SwitchStep
<1> QED  BY <1>3, <1>4, <1>5

LEMMA Slept ==
    ASSUME NEW s, Sound(s), NEW p \in Tasks, s.on_rq[p], NEW t, t = WithState(deactivate_task(s, p), p, "asleep")
    PROVE  /\ Sound(t) /\ Alone(s, t, p) /\ SameRuns(s, t)
           /\ ~t.on_rq[p] /\ t.state[p] = "asleep"
           /\ t.cpu[p] = s.cpu[p] /\ t.prio[p] = s.prio[p] /\ t.allowed[p] = s.allowed[p]
<1> DEFINE u == deactivate_task(s, p)
           x == "asleep"
<1>1. u = deactivate_task(s, p) /\ t = WithState(u, p, x) /\ x \in States
  BY DEF States
<1> HIDE DEF u, x
<1>2. /\ u \in Kernels /\ Right(u) /\ OffersWait(u) /\ Outer(s, u)
      /\ ~u.on_rq[p] /\ OthersStay(s, u, p)
  BY <1>1, Deactivated DEF Sound
<1>3. /\ t \in Kernels /\ SameBooks(u, t) /\ SameRuns(u, t) /\ t.state[p] = x
      /\ \A q \in Tasks : q # p => t.state[q] = u.state[q]
      /\ t.cpu = u.cpu /\ t.on_rq = u.on_rq /\ t.prio = u.prio /\ t.allowed = u.allowed
  <2>1. u \in Kernels /\ x \in States /\ t = WithState(u, p, x)
    BY <1>1, <1>2
  <2> QED  BY <2>1, StateSet
<1>4. Right(t) /\ OffersWait(t)
  <2>1. Right(t)
    BY <1>2, <1>3, RightStays DEF weight
  <2> QED  BY <1>2, <1>3, <2>1, WaitsStay DEF SameRuns
<1>5. SameRuns(s, t) /\ t.cpu[p] = s.cpu[p] /\ t.prio[p] = s.prio[p] /\ t.allowed[p] = s.allowed[p]
  BY <1>2, <1>3 DEF Outer, SameRuns
<1>6. Alone(s, t, p)
  <2>1. \A q \in Tasks : q # p => t.on_rq[q] = s.on_rq[q]
    BY <1>2, <1>3 DEF OthersStay
  <2> QED  BY <1>2, <1>3, <2>1 DEF Alone, Outer
<1>7. ~t.on_rq[p]
  BY <1>2, <1>3
<1> QED  BY <1>3, <1>4, <1>5, <1>6, <1>7 DEF Sound, x

LEMMA ScheduleSteps ==
    ASSUME IInv, NEW e \in Cpus, History(e), Schedule(e, FALSE) \/ Schedule(e, TRUE)
    PROVE  IInv'
<1> DEFINE prev == k.curr[e]
           o == [op EXCEPT ![e] = Leaving(e)]
<1>1. Free(e) /\ work' = work
  BY DEF Schedule
<1>2. Sound(k) /\ Placed(k, op, Requests) /\ k \in Kernels
  BY DEF IInv, Sound
<1>3. op[e].pc = "none" /\ NotWake(op[e]) /\ ~Switching(op[e]) /\ \A c : ~PullsFor(op[e], c)
  BY <1>1, FreeOp
<1>4. Leaving(e) \in OpsOf(e) /\ NotWake(Leaving(e)) /\ Switching(Leaving(e))
  BY StartOps DEF Leaving
<1>5. Sets(op, o, e, Leaving(e))
  BY <1>4, Executed DEF IInv, TypeOK
<1> HIDE DEF o
<1>6. CASE Schedule(e, FALSE)
  <2>1. StartPull(e, k, e, "switch") \/ Return(e, k, e, "switch")
    BY <1>6 DEF Schedule
  <2>2. Placed(k, o, Requests)
    <3>1. SamePlaces(k, k)
      BY DEF SamePlaces
    <3> QED  BY <1>2, <1>3, <1>4, <1>5, <3>1, QuietPlaced
  <2>3. \A c \in Cpus : Kept(k, k, c)
    BY DEF Kept
  <2> QED  BY <1>1, <1>2, <2>1, <2>2, <2>3, LeaveStep DEF o
<1>7. CASE Schedule(e, TRUE)
  <2> DEFINE s == WithState(deactivate_task(k, prev), prev, "asleep")
  <2>1. prev \in Tasks /\ (StartPull(e, s, e, "switch") \/ Return(e, s, e, "switch"))
    BY <1>7 DEF Schedule, WithState
  <2>2. k.on_rq[prev] /\ k.cpu[prev] = e
    BY <1>2, <1>3, <2>1 DEF Placed, RunRight
  <2>3. s = WithState(deactivate_task(k, prev), prev, "asleep") /\ prev = k.curr[e]
    OBVIOUS
  <2> HIDE DEF s, prev
  <2>4. /\ Sound(s) /\ Alone(k, s, prev) /\ SameRuns(k, s)
        /\ ~s.on_rq[prev] /\ s.state[prev] = "asleep"
        /\ s.cpu[prev] = k.cpu[prev] /\ s.prio[prev] = k.prio[prev] /\ s.allowed[prev] = k.allowed[prev]
    BY <1>2, <2>1, <2>2, <2>3, Slept
  <2>5. Concerns(k, s, prev)
    BY <2>2, <2>4 DEF Concerns, SameRuns
  <2>6. Placed(s, o, Requests)
    BY <1>2, <1>3, <1>4, <1>5, <2>1, <2>3, <2>4, <2>5, SleepPlaced
  <2>7. ASSUME NEW c \in Cpus PROVE Kept(k, s, c)
    <3>1. s.curr = k.curr /\ Asks(k, s) /\ prev \notin Queued(s, c)
      BY <2>4 DEF SameRuns, Asks, Queued
    <3> QED  BY <1>2, <2>1, <2>4, <3>1, AloneKept
  <2> QED  BY <1>1, <2>1, <2>4, <2>6, <2>7, LeaveStep DEF o
<1> QED  BY <1>6, <1>7

LEMMA RotateStep ==
    ASSUME IInv, NEW e \in Cpus, History(e), Rotate(e)
    PROVE  IInv'
<1> DEFINE p == k.curr[e]
           no == FALSE
           s == requeue_task_rt(k, p, no)
<1>1. Free(e) /\ op' = op /\ work' = work /\ p \in Tasks /\ k' = resched_task(s, e)
  BY DEF Rotate
<1>2. Sound(k) /\ op[e] \in OpsOf(e) /\ op = [f \in Cpus |-> op[f]]
  BY DEF IInv, TypeOK, OpsRight
<1>3. op[e].pc = "none" /\ NotWake(op[e]) /\ ~Switching(op[e]) /\ \A c : ~PullsFor(op[e], c)
  BY <1>1, FreeOp
<1>4. k.on_rq[p]
  BY <1>1, <1>3 DEF IInv, Placed, RunRight
<1>5. s = requeue_task_rt(k, p, no) /\ no \in BOOLEAN
  OBVIOUS
<1> HIDE DEF p, no, s
<1>6. Sound(s) /\ Still(k, s) /\ s.resched = k.resched
  BY <1>1, <1>2, <1>4, <1>5, Requeued
<1>7. Sound(k') /\ Still(s, k') /\ Asks(s, k')
  BY <1>1, <1>6, ReschedSound
<1>8. Still(k, k') /\ Asks(k, k')
  BY <1>6, <1>7 DEF Still, SameTasks, Asks
<1>9. op' = [op EXCEPT ![e] = op[e]]
  BY <1>1, <1>2
<1> QED  BY <1>1, <1>2, <1>3, <1>7, <1>8, <1>9, QuietStep
--------------------------------------------------------------------------------
(***************************************************************************)
(* Waking up.                                                              *)
(***************************************************************************)
WokenAs(s, e, c, p) == WithState(check_preempt_curr(activate_task(s, p, FALSE), e, c, p), p, "running")

LEMMA Woken ==
    ASSUME NEW s, Sound(s), NEW p \in Tasks, ~s.on_rq[p], NEW e, NEW c, c = s.cpu[p],
           NEW t, t = WokenAs(s, e, c, p)
    PROVE  /\ Sound(t) /\ Alone(s, t, p) /\ t.curr = s.curr /\ Asks(s, t)
           /\ t.on_rq[p] /\ t.state[p] = "running"
           /\ t.cpu[p] = s.cpu[p] /\ t.prio[p] = s.prio[p] /\ t.allowed[p] = s.allowed[p]
           /\ t.resched[c] \/ PrioOf(t, t.curr[c]) <= t.prio[p]
<1> DEFINE no == FALSE
           u == activate_task(s, p, no)
           v == check_preempt_curr(u, e, c, p)
           x == "running"
<1>1. /\ u = activate_task(s, p, no) /\ v = check_preempt_curr(u, e, c, p) /\ t = WithState(v, p, x)
      /\ x \in States /\ no \in BOOLEAN
  BY DEF States, WokenAs
<1> HIDE DEF u, v, x, no
<1>2. c \in Cpus
  BY KernelTypes DEF Sound
<1>3. /\ u \in Kernels /\ Right(u) /\ OffersWait(u) /\ Outer(s, u)
      /\ u.on_rq[p] /\ OthersStay(s, u, p)
  <2>1. u = activate_task(s, p, no) /\ no \in BOOLEAN
    BY <1>1
  <2> QED  BY <2>1, Activated DEF Sound
<1>4. /\ Sound(v) /\ Still(u, v) /\ Asks(u, v)
      /\ v.resched[c] \/ PrioOf(u, u.curr[c]) <= u.prio[p]
  <2>1. v = check_preempt_curr(u, e, c, p) /\ Sound(u)
    BY <1>1, <1>3 DEF Sound
  <2> QED  BY <1>2, <1>3, <2>1, Preempted
<1>5. /\ t \in Kernels /\ SameBooks(v, t) /\ SameRuns(v, t) /\ t.state[p] = x
      /\ \A q \in Tasks : q # p => t.state[q] = v.state[q]
      /\ t.cpu = v.cpu /\ t.on_rq = v.on_rq /\ t.prio = v.prio /\ t.allowed = v.allowed
  <2>1. v \in Kernels /\ x \in States /\ t = WithState(v, p, x)
    BY <1>1, <1>4 DEF Sound
  <2> QED  BY <2>1, StateSet
<1>6. Sound(t)
  <2>1. Right(t)
    BY <1>4, <1>5, RightStays DEF weight, Sound
  <2> QED  BY <1>4, <1>5, <2>1, WaitsStay DEF SameRuns, Sound
<1>7. SameTasks(u, v) /\ v.curr = u.curr
  BY <1>4 DEF Still
<1>8. t.cpu = s.cpu /\ t.prio = s.prio /\ t.allowed = s.allowed /\ t.curr = s.curr
  BY <1>3, <1>5, <1>7 DEF SameTasks, Outer, SameRuns
<1>9. \A q \in Tasks : q # p => t.state[q] = s.state[q]
  BY <1>3, <1>5, <1>7 DEF SameTasks, Outer
<1>10. t.on_rq = u.on_rq
  BY <1>5, <1>7 DEF SameTasks
<1>11. Alone(s, t, p) /\ t.on_rq[p]
  BY <1>3, <1>8, <1>9, <1>10 DEF Alone, OthersStay
<1>12. Asks(s, t)
  <2>1. u.resched = s.resched /\ t.resched = v.resched
    BY <1>3, <1>5 DEF Outer, SameRuns
  <2> QED  BY <1>4, <2>1 DEF Asks
<1>13. t.resched[c] \/ PrioOf(t, t.curr[c]) <= t.prio[p]
  <2>1. t.resched = v.resched
    BY <1>5 DEF SameRuns
  <2>2. t.prio = u.prio /\ t.curr = u.curr
    BY <1>3, <1>8 DEF Outer
  <2>3. PrioOf(t, t.curr[c]) = PrioOf(u, u.curr[c])
    BY <2>2 DEF PrioOf
  <2> QED  BY <1>4, <2>1, <2>2, <2>3
<1> QED  BY <1>5, <1>6, <1>8, <1>11, <1>12, <1>13 DEF x

LEMMA ActivateStep ==
    ASSUME IInv, NEW e \in Cpus, History(e), work' = work, ~Switching(op[e]), \A c : ~PullsFor(op[e], c),
           NEW p \in Tasks, Activate(e, p),
           Waking(op[e], p) \/ (k.state[p] = "asleep" /\ k.curr[k.cpu[p]] = p)
    PROVE  IInv'
<1> DEFINE c == k.cpu[p]
           s == WokenAs(k, e, c, p)
           woken == "woken"
           push == [pc |-> "push", rq |-> c, then |-> woken]
<1>1. Sound(k) /\ k \in Kernels /\ c \in Cpus
  BY KernelTypes DEF IInv, Sound
<1>2. ~k.on_rq[p]
  BY DEF IInv, Placed, WakeRight
<1>3. k' = s /\ (op' = [op EXCEPT ![e] = push] \/ op' = [op EXCEPT ![e] = NoOp])
  BY DEF Activate, Executes, WithState, WokenAs
<1>4. push \in OpsOf(e) /\ NotWake(push)
  <2>1. woken \in {"post", "woken"}
    OBVIOUS
  <2> HIDE DEF woken
  <2> QED  BY <1>1, <2>1, PushOps
<1>5. PICK x \in {push, NoOp} : op' = [op EXCEPT ![e] = x]
  BY <1>3
<1>6. x \in OpsOf(e) /\ NotWake(x)
  BY <1>4, NoOpKind
<1>7. c = k.cpu[p] /\ k' = WokenAs(k, e, c, p)
  BY <1>3
<1> HIDE DEF s, push, c
<1>8. /\ Sound(k') /\ Alone(k, k', p) /\ k'.curr = k.curr /\ Asks(k, k')
      /\ k'.on_rq[p] /\ k'.state[p] = "running"
      /\ k'.cpu[p] = k.cpu[p] /\ k'.prio[p] = k.prio[p] /\ k'.allowed[p] = k.allowed[p]
      /\ k'.resched[c] \/ PrioOf(k', k'.curr[c]) <= k'.prio[p]
  BY <1>1, <1>2, <1>7, Woken
<1>9. Sets(op, op', e, x)
  BY <1>5, <1>6, Executed DEF IInv, TypeOK
<1>10. Placed(k', op', Requests')
  <2>1. Placed(k, op, Requests) /\ Concerns(k, k', p)
    BY <1>1, <1>7, <1>8 DEF IInv, Concerns
  <2>2. Placed(k', op', Requests)
    BY <1>1, <1>6, <1>8, <1>9, <2>1, WakePlaced
  <2> QED  BY <2>2, StoppersSame
<1>11. Heads(k, k', op', op[e], x, Given(e))
  <2>1. ASSUME NEW d \in Cpus PROVE Kept(k, k', d)
    <3>1. p \in Queued(k', d) => d = c
      BY <1>7, <1>8 DEF Queued
    <3> QED  BY <1>1, <1>8, <3>1, AloneKept
  <2> QED  BY <2>1 DEF Heads
<1> QED  BY <1>5, <1>6, <1>8, <1>10, <1>11, StoppersSame, StepEnds

LEMMA WakeSteps ==
    ASSUME IInv, NEW e \in Cpus, History(e), WakeUpThere(e) \/ \E p \in Tasks : WakeUp(e, p)
    PROVE  IInv'
<1>1. op[e] \in OpsOf(e) /\ k \in Kernels /\ Sound(k) /\ Placed(k, op, Requests)
  BY DEF IInv, TypeOK, OpsRight
<1>2. CASE WakeUpThere(e)
  <2>1. op[e].pc = "wake" /\ work' = work /\ Activate(e, op[e].task)
    BY <1>2 DEF WakeUpThere
  <2>2. op[e].task \in Tasks /\ Waking(op[e], op[e].task)
    BY <1>1, <2>1, OpFields DEF Waking
  <2>3. ~Switching(op[e]) /\ \A c : ~PullsFor(op[e], c)
    BY <2>1, OpKinds
  <2> QED  BY <2>1, <2>2, <2>3, ActivateStep
<1>3. ASSUME NEW p \in Tasks, WakeUp(e, p) PROVE IInv'
  <2>1. Free(e) /\ work' = work /\ k.state[p] = "asleep"
    BY <1>3 DEF WakeUp
  <2>2. op[e].pc = "none" /\ NotWake(op[e]) /\ ~Switching(op[e]) /\ \A c : ~PullsFor(op[e], c)
    BY <2>1, FreeOp
  <2>3. CASE k.curr[k.cpu[p]] = p
    <3>1. Activate(e, p)
      BY <1>3, <2>3 DEF WakeUp
    <3> QED  BY <2>1, <2>2, <2>3, <3>1, ActivateStep
  <2>4. CASE k.curr[k.cpu[p]] # p
    <3> DEFINE x == [pc |-> "wake", task |-> p]
               waking == "waking"
               u == WithState(k, p, waking)
    <3>1. PICK d \in select_task_rq(k, p) :
             k' = [k EXCEPT !.state[p] = "waking", !.cpu[p] = d] /\ op' = [op EXCEPT ![e] = x]
      BY <1>3, <2>4 DEF WakeUp, Executes
    <3>2. d \in k.allowed[p] /\ d \in Cpus
      <4>1. select_task_rq(k, p) \subseteq k.allowed[p]
        BY DEF select_task_rq
      <4> QED  BY <1>1, <4>1, KernelTypes
    <3>3. k' = WithCpu(u, p, d) /\ u = WithState(k, p, waking) /\ waking \in States
      BY <3>1 DEF WithState, WithCpu, States
    <3>4. x \in OpsOf(e) /\ \A q \in Tasks : Waking(x, q) => q = p
      BY DEF OpsOf, Waking
    <3>5. op' = [op EXCEPT ![e] = x]
      BY <3>1
    <3> HIDE DEF x, u, waking
    <3>6. /\ u \in Kernels /\ SameBooks(k, u) /\ SameRuns(k, u) /\ u.state[p] = waking
          /\ \A q \in Tasks : q # p => u.state[q] = k.state[q]
          /\ u.cpu = k.cpu /\ u.on_rq = k.on_rq /\ u.prio = k.prio /\ u.allowed = k.allowed
      <4>1. u = WithState(k, p, waking) /\ waking \in States
        BY <3>3
      <4> QED  BY <1>1, <4>1, StateSet
    <3>7. /\ k' \in Kernels /\ SameBooks(u, k') /\ SameRuns(u, k') /\ k'.cpu[p] = d
          /\ \A q \in Tasks : q # p => k'.cpu[q] = u.cpu[q]
          /\ k'.state = u.state /\ k'.on_rq = u.on_rq /\ k'.prio = u.prio /\ k'.allowed = u.allowed
      <4>1. u \in Kernels /\ k' = WithCpu(u, p, d)
        BY <3>3, <3>6
      <4> QED  BY <3>2, <4>1, CpuSet
    <3>8. SameRuns(k, k') /\ SameBooks(k, k')
      BY <3>6, <3>7 DEF SameRuns, SameBooks
    <3>9. k'.on_rq = k.on_rq /\ k'.prio = k.prio /\ k'.allowed = k.allowed /\ k'.state[p] = waking
          /\ \A q \in Tasks : q # p => k'.cpu[q] = k.cpu[q] /\ k'.state[q] = k.state[q]
      BY <3>6, <3>7
    <3>10. ~k.on_rq[p]
      BY <1>1, <2>1 DEF Placed, WakeRight
    <3>11. Sound(k')
      <4>1. \A q \in Tasks : /\ k'.on_rq[q] = k.on_rq[q]
                             /\ k.on_rq[q] => /\ k'.cpu[q] = k.cpu[q] /\ k'.prio[q] = k.prio[q]
                                              /\ weight(k', q) = weight(k, q)
        BY <3>9, <3>10 DEF weight
      <4>2. Right(k')
        BY <1>1, <3>8, <4>1, RightStays DEF Sound
      <4>3. OffersWait(k')
        BY <1>1, <3>8, WaitsStay DEF Sound, SameRuns
      <4> QED  BY <3>7, <4>2, <4>3 DEF Sound
    <3>12. Alone(k, k', p)
      BY <3>9 DEF Alone
    <3>13. Concerns(k, k', p)
      BY <3>2, <3>7, <3>8, <3>12 DEF Concerns, SameRuns
    <3>14. Sets(op, op', e, x)
      BY <3>4, <3>5, Executed DEF IInv, TypeOK
    <3>15. Placed(k', op', Requests')
      <4>1. /\ ~k'.on_rq[p] /\ k'.state[p] = "waking" /\ k'.allowed[p] = k.allowed[p]
            /\ k'.cpu[p] \in k.allowed[p]
        BY <3>2, <3>7, <3>9, <3>10 DEF waking
      <4>2. Placed(k', op', Requests)
        BY <1>1, <2>1, <2>2, <2>4, <3>4, <3>13, <3>14, <4>1, ToWakePlaced
      <4> QED  BY <2>1, <4>2, StoppersSame
    <3>16. Heads(k, k', op', op[e], x, Given(e))
      <4>1. ASSUME NEW c \in Cpus PROVE Kept(k, k', c)
        <5>1. k'.curr = k.curr /\ Asks(k, k') /\ p \notin Queued(k', c) /\ k'.prio[p] = k.prio[p]
          BY <3>8, <3>9, <3>10 DEF SameRuns, Asks, Queued
        <5> QED  BY <1>1, <3>12, <5>1, AloneKept
      <4> QED  BY <2>2, <4>1 DEF Heads
    <3> QED  BY <2>1, <3>4, <3>5, <3>11, <3>15, <3>16, StoppersSame, StepEnds
  <2> QED  BY <2>3, <2>4
<1> QED  BY <1>2, <1>3
--------------------------------------------------------------------------------
(***************************************************************************)
(* Changes of priority and affinity, and the stopper.                      *)
(***************************************************************************)
OnlyPrio(s, t, p) == /\ Alone(s, t, p) /\ SameRuns(s, t) /\ t.cpu[p] = s.cpu[p] /\ t.state[p] = s.state[p]
                     /\ (t.on_rq[p] <=> s.on_rq[p]) /\ t.allowed[p] = s.allowed[p]

LEMMA PrioPlaces ==
    ASSUME NEW s, NEW t, NEW u, NEW p \in Tasks, OnlyPrio(s, t, p), Still(t, u), Asks(t, u)
    PROVE  SamePlaces(s, u) /\ Alone(s, u, p) /\ Asks(s, u)
<1>1. SameTasks(t, u) /\ u.curr = t.curr /\ t.curr = s.curr /\ t.resched = s.resched
  BY DEF OnlyPrio, Still, SameRuns
<1>2. Alone(s, u, p)
  BY <1>1 DEF OnlyPrio, Alone, SameTasks
<1>3. \A q \in Tasks : q # p =>
               /\ u.cpu[q] = s.cpu[q] /\ u.state[q] = s.state[q] /\ (u.on_rq[q] <=> s.on_rq[q])
               /\ u.allowed[q] = s.allowed[q]
  BY <1>2, OthersKeep
<1>4. u.cpu[p] = s.cpu[p] /\ u.state[p] = s.state[p] /\ (u.on_rq[p] <=> s.on_rq[p]) /\ u.allowed[p] = s.allowed[p]
  BY <1>1 DEF OnlyPrio, SameTasks
<1>5. SamePlaces(s, u)
  BY <1>1, <1>3, <1>4 DEF SamePlaces
<1>6. Asks(s, u)
  BY <1>1 DEF Asks
<1> QED  BY <1>2, <1>5, <1>6

LEMMA PrioMade ==
    ASSUME IInv, NEW e \in Cpus, Free(e), NEW x, Sets(op, op', e, x), NotWake(x), NEW p \in Tasks,
           NEW s, OnlyPrio(k, s, p), Still(s, k'), Asks(s, k'),
           k.curr[k.cpu[p]] = p => RunsHead(k', k.cpu[p]) \/ Pulled(op', k.cpu[p]),
           k.on_rq[p] /\ k.curr[k.cpu[p]] # p =>
               k'.resched[k.cpu[p]] \/ PrioOf(s, s.curr[k.cpu[p]]) <= s.prio[p]
    PROVE  Placed(k', op', Requests) /\ Heads(k, k', op', op[e], x, Given(e))
<1>1. k \in Kernels /\ Placed(k, op, Requests)
  BY DEF IInv, Sound
<1>2. SamePlaces(k, k') /\ Alone(k, k', p) /\ Asks(k, k')
  BY PrioPlaces
<1>3. NotWake(op[e]) /\ ~Switching(op[e]) /\ \A c : ~PullsFor(op[e], c)
  BY FreeOp
<1>4. Placed(k', op', Requests)
  BY <1>1, <1>2, <1>3, QuietPlaced
<1>5. k'.curr = k.curr
  BY <1>2 DEF SamePlaces
<1>6. ASSUME NEW c \in Cpus, k.curr[c] # p PROVE Kept(k, k', c)
  <2>1. p \in Queued(k', c) => k.on_rq[p] /\ c = k.cpu[p]
    BY <1>2 DEF SamePlaces, Queued
  <2>2. PrioOf(k', k'.curr[c]) = PrioOf(s, s.curr[c]) /\ k'.prio[p] = s.prio[p]
    BY DEF Still, SameTasks, PrioOf
  <2>3. p \in Queued(k', c) => k'.resched[c] \/ PrioOf(k', k'.curr[c]) <= k'.prio[p]
    BY <1>6, <2>1, <2>2
  <2> QED  BY <1>1, <1>2, <1>5, <1>6, <2>3, AloneKept
<1>7. ASSUME NEW c \in Cpus, k.curr[c] = p PROVE RunsHead(k', c) \/ Pulled(op', c)
  BY <1>1, <1>7 DEF Placed, RunRight
<1> QED  BY <1>3, <1>4, <1>6, <1>7 DEF Heads

LEMMA SetPrioStep ==
    ASSUME IInv, NEW e \in Cpus, History(e), NEW p \in Tasks, NEW prio \in Prios[p], SetPrio(e, p, prio)
    PROVE  IInv'
<1> DEFINE c == k.cpu[p]
<1>1. Free(e) /\ work' = work
  BY DEF SetPrio
<1>2. k \in Kernels /\ Sound(k) /\ Placed(k, op, Requests) /\ op[e] \in OpsOf(e) /\ OpsRight(op) /\ c \in Cpus
  BY KernelTypes DEF IInv, Sound, TypeOK, OpsRight
<1>3. NotWake(op[e]) /\ ~Switching(op[e]) /\ \A b : ~PullsFor(op[e], b)
  BY <1>1, FreeOp
<1>4. prio \in Priorities
  BY PriosAssumption DEF Priorities
<1>5. op' = op => Sets(op, op', e, op[e]) /\ op' = [op EXCEPT ![e] = op[e]]
  BY <1>2 DEF Sets, OpsRight
<1>6. CASE ~k.on_rq[p]
  <2>1. k' = WithPrio(k, p, prio) /\ op' = op
    BY <1>6 DEF SetPrio, WithPrio
  <2>2. /\ k' \in Kernels /\ SameBooks(k, k') /\ SameRuns(k, k') /\ k'.prio[p] = prio
        /\ \A q \in Tasks : q # p => k'.prio[q] = k.prio[q]
        /\ k'.cpu = k.cpu /\ k'.on_rq = k.on_rq /\ k'.state = k.state /\ k'.allowed = k.allowed
    BY <1>2, <1>4, <2>1, PrioSet
  <2>3. Sound(k')
    <3>1. Right(k')
      BY <1>2, <1>6, <2>2, RightStays DEF weight, Sound
    <3> QED  BY <1>2, <2>2, <3>1, WaitsStay DEF SameRuns, Sound
  <2>4. OnlyPrio(k, k', p)
    BY <2>2 DEF OnlyPrio, Alone
  <2>5. Still(k', k') /\ Asks(k', k')
    BY DEF Still, SameTasks, Asks
  <2>6. k.curr[c] = p => Pulled(op', c)
    <3>1. k.curr[c] = p => Switching(op[c])
      BY <1>2, <1>6 DEF Placed, RunRight
    <3>2. op[c] \in OpsOf(c)
      BY <1>2 DEF OpsRight
    <3>3. Switching(op[c]) => PullsFor(op[c], c)
      BY <1>2, <3>2, OpFields, Constants DEF Switching, PullsFor
    <3> QED  BY <1>2, <2>1, <3>1, <3>3 DEF Pulled
  <2>7. Placed(k', op', Requests) /\ Heads(k, k', op', op[e], op[e], Given(e))
    BY <1>1, <1>3, <1>5, <1>6, <2>1, <2>4, <2>5, <2>6, PrioMade
  <2> QED  BY <1>1, <1>2, <1>5, <2>1, <2>3, <2>7, StoppersSame, StepEnds
<1>7. CASE k.on_rq[p]
  <2>1. PICK head \in {FALSE, k.prio[p] < prio} :
          LET s == activate_task([deactivate_task(k, p) EXCEPT !.prio[p] = prio], p, head)
          IN  IF s.curr[c] = p
              THEN IF k.prio[p] < prio THEN StartPull(e, s, c, p) ELSE Return(e, s, c, p)
              ELSE /\ k' = IF prio < PrioOf(s, s.curr[c]) THEN resched_task(s, c) ELSE s
                   /\ UNCHANGED op
    BY <1>7 DEF SetPrio
  <2> DEFINE s == activate_task(WithPrio(deactivate_task(k, p), p, prio), p, head)
             x == [pc |-> "pull", rq |-> c, then |-> p, at |-> 1]
  <2>2. head \in BOOLEAN
    <3> DEFINE lowered == k.prio[p] < prio
    <3>1. lowered \in BOOLEAN /\ FALSE \in BOOLEAN
      OBVIOUS
    <3>2. head \in {FALSE, lowered}
      OBVIOUS
    <3> HIDE DEF lowered
    <3> QED  BY <3>1, <3>2, Zenon
  <2>3. \/ s.curr[c] = p /\ k' = s /\ op' = [op EXCEPT ![e] = x]
        \/ s.curr[c] = p /\ k' = prio_changed(s, c, p) /\ op' = [op EXCEPT ![e] = NoOp]
        \/ /\ s.curr[c] # p /\ op' = op
           /\ k' = IF prio < PrioOf(s, s.curr[c]) THEN resched_task(s, c) ELSE s
    BY <2>1, Constants DEF WithPrio, StartPull, Return, Executes
  <2>4. x \in OpsOf(e) /\ NotWake(x) /\ PullsFor(x, c)
    BY <1>2, StartOps
  <2>5. c = k.cpu[p] /\ s = activate_task(WithPrio(deactivate_task(k, p), p, prio), p, head)
    OBVIOUS
  <2> HIDE DEF c, s, x
  <2>6. /\ Sound(s) /\ Alone(k, s, p) /\ SameRuns(k, s)
        /\ s.prio[p] = prio /\ s.on_rq[p]
        /\ s.state[p] = k.state[p] /\ s.cpu[p] = k.cpu[p] /\ s.allowed[p] = k.allowed[p]
    BY <1>2, <1>4, <1>7, <2>2, <2>5, Reprioritised
  <2>7. OnlyPrio(k, s, p) /\ s.curr = k.curr
    BY <1>7, <2>6 DEF OnlyPrio, SameRuns
  <2>8. CASE s.curr[c] = p /\ k' = s /\ op' = [op EXCEPT ![e] = x]
    <3>1. Sets(op, op', e, x)
      BY <1>2, <2>4, <2>8, Executed
    <3>2. Pulled(op', c)
      BY <2>4, <3>1 DEF Pulled, Sets
    <3>3. Still(s, k') /\ Asks(s, k')
      BY <2>8 DEF Still, SameTasks, Asks
    <3>4. k.curr[k.cpu[p]] = p /\ Pulled(op', k.cpu[p])
      BY <2>5, <2>7, <2>8, <3>2
    <3>5. Placed(k', op', Requests) /\ Heads(k, k', op', op[e], x, Given(e))
      BY <1>1, <2>4, <2>7, <3>1, <3>3, <3>4, PrioMade
    <3>6. op' = [op EXCEPT ![e] = x] /\ Sound(k') /\ Placed(k', op', Requests')
      BY <1>1, <2>6, <2>8, <3>5, StoppersSame
    <3> QED  BY <1>1, <2>4, <3>5, <3>6, StoppersSame, StepEnds
  <2>9. CASE s.curr[c] = p /\ k' = prio_changed(s, c, p) /\ op' = [op EXCEPT ![e] = NoOp]
    <3>1. Sets(op, op', e, NoOp)
      BY <1>2, <2>9, NoOpKind, Executed
    <3>2. Sound(k') /\ Still(s, k') /\ Asks(s, k') /\ RunsHead(k', c)
      BY <1>2, <2>5, <2>6, <2>9, PrioChanged
    <3>3. k.curr[k.cpu[p]] = p /\ RunsHead(k', k.cpu[p])
      BY <2>5, <2>7, <2>9, <3>2
    <3>4. Placed(k', op', Requests) /\ Heads(k, k', op', op[e], NoOp, Given(e))
      BY <1>1, <2>7, <3>1, <3>2, <3>3, NoOpKind, PrioMade
    <3>5. op' = [op EXCEPT ![e] = NoOp] /\ Placed(k', op', Requests')
      BY <1>1, <2>9, <3>4, StoppersSame
    <3> QED  BY <1>1, <3>2, <3>4, <3>5, NoOpKind, StoppersSame, StepEnds
  <2>10. CASE /\ s.curr[c] # p /\ op' = op
              /\ k' = IF prio < PrioOf(s, s.curr[c]) THEN resched_task(s, c) ELSE s
    <3>1. /\ Sound(k') /\ Still(s, k') /\ Asks(s, k')
          /\ k'.resched[c] \/ PrioOf(s, s.curr[c]) <= s.prio[p]
      <4>1. CASE prio < PrioOf(s, s.curr[c])
        <5>1. k' = resched_task(s, c) /\ c \in Cpus
          BY <1>2, <2>5, <2>10, <4>1
        <5> QED  BY <2>6, <5>1, ReschedSound
      <4>2. CASE ~(prio < PrioOf(s, s.curr[c]))
        <5>1. k' = s
          BY <2>10, <4>2
        <5>2. prio \in Nat /\ PrioOf(s, s.curr[c]) \in Nat
          <6>1. s \in Kernels /\ c \in Cpus /\ prio \in Nat
            BY <1>2, <1>4, <2>5, <2>6, Constants DEF Sound, Priorities
          <6> QED  BY <6>1, KernelTypes, Constants DEF PrioOf
        <5>3. PrioOf(s, s.curr[c]) <= s.prio[p]
          BY <2>6, <4>2, <5>2
        <5> QED  BY <2>6, <5>1, <5>3 DEF Still, SameTasks, Asks
      <4> QED  BY <4>1, <4>2
    <3>2. k.curr[k.cpu[p]] # p /\ (k'.resched[k.cpu[p]] \/ PrioOf(s, s.curr[k.cpu[p]]) <= s.prio[p])
      BY <2>5, <2>7, <2>10, <3>1
    <3>3. Placed(k', op', Requests) /\ Heads(k, k', op', op[e], op[e], Given(e))
      BY <1>1, <1>3, <1>5, <2>7, <2>10, <3>1, <3>2, PrioMade
    <3>4. op' = [op EXCEPT ![e] = op[e]] /\ Placed(k', op', Requests')
      BY <1>1, <1>5, <2>10, <3>3, StoppersSame
    <3> QED  BY <1>1, <1>2, <3>1, <3>3, <3>4, StoppersSame, StepEnds
  <2> QED  BY <2>3, <2>8, <2>9, <2>10
<1> QED  BY <1>6, <1>7

\* A task whose affinity alone has changed.
OnlyAffinity(s, t, p, mask) ==
    /\ Alone(s, t, p) /\ t.curr = s.curr /\ Asks(s, t) /\ t.allowed[p] = mask
    /\ t.cpu[p] = s.cpu[p] /\ t.state[p] = s.state[p] /\ (t.on_rq[p] <=> s.on_rq[p]) /\ t.prio[p] = s.prio[p]

LEMMA AffinityMade ==
    ASSUME NEW s, Sound(s), NEW p \in Tasks, NEW mask \in (SUBSET Cpus) \ {{}}, NEW c \in Cpus,
           NEW u, u = set_cpus_allowed_rt(s, p, mask), NEW t, t = u \/ t = resched_task(u, c)
    PROVE  Sound(t) /\ OnlyAffinity(s, t, p, mask)
<1>1. /\ Sound(u) /\ Alone(s, u, p) /\ SameRuns(s, u) /\ u.allowed[p] = mask
      /\ u.cpu = s.cpu /\ u.state = s.state /\ u.on_rq = s.on_rq /\ u.prio = s.prio
  BY Affine
<1>2. Sound(t) /\ Still(u, t) /\ Asks(u, t)
  <2>1. CASE t = u
    BY <1>1, <2>1 DEF Still, SameTasks, Asks
  <2>2. CASE t = resched_task(u, c)
    BY <1>1, <2>2, ReschedSound
  <2> QED  BY <2>1, <2>2
<1>3. SameTasks(u, t) /\ t.curr = u.curr
  BY <1>2 DEF Still
<1>4. Alone(s, t, p)
  BY <1>1, <1>3 DEF Alone, SameTasks
<1>5. t.curr = s.curr /\ t.allowed[p] = mask /\ t.cpu[p] = s.cpu[p] /\ t.state[p] = s.state[p]
      /\ t.on_rq = s.on_rq /\ t.prio[p] = s.prio[p]
  BY <1>1, <1>3 DEF SameTasks, SameRuns
<1>6. Asks(s, t)
  BY <1>1, <1>2 DEF Asks, SameRuns
<1> QED  BY <1>2, <1>4, <1>5, <1>6 DEF OnlyAffinity

LEMMA RequestsAre ==
    ASSUME WorkRight
    PROVE  \A r : r \in Requests <=> \/ \E a \in Callers : asked[a] = r
                                  \/ \E c \in Cpus : stopper[c] = r
<1>1. DOMAIN asked = Callers /\ DOMAIN stopper = Cpus
  BY DEF WorkRight
<1> QED  BY <1>1 DEF Requests, Range

LEMMA RequestsAreNext ==
    ASSUME WorkRight'
    PROVE  \A r : r \in Requests' <=> \/ \E a \in Callers : asked'[a] = r
                                   \/ \E c \in Cpus : stopper'[c] = r
<1>1. DOMAIN asked' = Callers /\ DOMAIN stopper' = Cpus
  BY DEF WorkRight
<1> QED  BY <1>1 DEF Requests, Range

LEMMA AskedMore ==
    ASSUME WorkRight, NEW a \in Callers, asked[a] = None, NEW r \in Work,
           asked' = [asked EXCEPT ![a] = r], stopper' = stopper
    PROVE  WorkRight' /\ Requests \ {None} \subseteq Requests' /\ r \in Requests'
<1>1. asked' \in [Callers -> Work \cup {None}] /\ asked'[a] = r /\ \A b \in Callers : b # a => asked'[b] = asked[b]
  BY DEF WorkRight
<1>2. WorkRight'
  BY <1>1 DEF WorkRight
<1>3. \A x : x \in Requests' <=> \/ \E b \in Callers : asked'[b] = x
                              \/ \E c \in Cpus : stopper'[c] = x
  BY <1>2, RequestsAreNext
<1> QED  BY <1>1, <1>2, <1>3, RequestsAre

LEMMA Handed ==
    ASSUME WorkRight, NEW a \in Callers, asked[a] # None, stopper[asked[a].cpu] = None,
           stopper' = [stopper EXCEPT ![asked[a].cpu] = asked[a]], asked' = [asked EXCEPT ![a] = None]
    PROVE  WorkRight' /\ Requests \ {None} \subseteq Requests'
<1> DEFINE r == asked[a]
           c == r.cpu
<1>1. r \in Work /\ c \in Cpus
  BY DEF WorkRight, Work
<1>2. r.cpu = c /\ stopper[c] = None /\ stopper' = [stopper EXCEPT ![c] = r] /\ asked[a] = r
  OBVIOUS
<1> HIDE DEF r, c
<1>3. /\ asked' \in [Callers -> Work \cup {None}] /\ \A b \in Callers : b # a => asked'[b] = asked[b]
      /\ stopper' \in [Cpus -> Work \cup {None}] /\ stopper'[c] = r
      /\ \A b \in Cpus : b # c => stopper'[b] = stopper[b]
  BY <1>1, <1>2 DEF WorkRight
<1>4. WorkRight'
  BY <1>2, <1>3 DEF WorkRight
<1>5. \A x : x \in Requests' <=> \/ \E b \in Callers : asked'[b] = x
                              \/ \E b \in Cpus : stopper'[b] = x
  BY <1>4, RequestsAreNext
<1> QED  BY <1>1, <1>2, <1>3, <1>4, <1>5, RequestsAre

\* The stopper of c has done its work.
LEMMA Worked ==
    ASSUME WorkRight, NEW c \in Cpus, stopper' = [stopper EXCEPT ![c] = None], asked' = asked
    PROVE  WorkRight' /\ Requests \subseteq Requests' \cup {stopper[c]}
<1>1. /\ stopper' \in [Cpus -> Work \cup {None}] /\ stopper'[c] = None
      /\ \A b \in Cpus : b # c => stopper'[b] = stopper[b]
  BY DEF WorkRight
<1>2. WorkRight'
  BY <1>1 DEF WorkRight
<1>3. \A x : x \in Requests' <=> \/ \E b \in Callers : asked'[b] = x
                              \/ \E b \in Cpus : stopper'[b] = x
  BY <1>2, RequestsAreNext
<1> QED  BY <1>1, <1>2, <1>3, RequestsAre

LEMMA MoreRequests ==
    ASSUME NEW s, NEW o, NEW st, NEW st2, Placed(s, o, st), st \subseteq st2
    PROVE  Placed(s, o, st2)
  BY DEF Placed, StopRight, Knows

LEMMA NoneAsksNothing ==
    ASSUME k \in Kernels, Placed(k, op, Requests)
    PROVE  Placed(k, op, Requests \ {None})
<1>1. \A p \in Tasks, c, to \in Cpus : Request(p, c, to) # None
  BY TasksAssumption DEF Request, Cpus
<1>2. \A p \in Tasks : k.cpu[p] \in Cpus /\ k.allowed[p] \subseteq Cpus
  BY KernelTypes
<1>3. StopRight(k, Requests \ {None})
  BY <1>1, <1>2 DEF Placed, StopRight, Knows
<1> QED  BY <1>3 DEF Placed

LEMMA SetAffinityStep ==
    ASSUME IInv, NEW e \in Cpus, History(e), NEW a \in Callers, NEW p \in Tasks, NEW mask \in Masks[p],
           SetAffinity(e, a, p, mask)
    PROVE  IInv'
<1> DEFINE c == k.cpu[p]
<1>1. /\ Free(e) /\ op' = op /\ stopper' = stopper /\ k.state[p] # "waking" /\ asked[a] = None
      /\ k' = set_cpus_allowed_rt(k, p, mask)
      /\ \/ (c \in mask \/ (~k.on_rq[p] /\ k.curr[c] # p)) /\ asked' = asked
         \/ \E d \in mask : asked' = [asked EXCEPT ![a] = Request(p, c, d)]
  BY DEF SetAffinity, Request
<1>2. /\ k \in Kernels /\ Sound(k) /\ Placed(k, op, Requests) /\ op[e] \in OpsOf(e) /\ OpsRight(op) /\ c \in Cpus
      /\ WorkRight
  BY KernelTypes DEF IInv, Sound, TypeOK, OpsRight
<1>3. mask \in (SUBSET Cpus) \ {{}}
  BY MasksAssumption DEF Cpus
<1>4. op' = [op EXCEPT ![e] = op[e]]
  BY <1>1, <1>2 DEF OpsRight
<1>5. c = k.cpu[p]
  OBVIOUS
<1> HIDE DEF c
<1>7. Sound(k') /\ OnlyAffinity(k, k', p, mask)
  BY <1>1, <1>2, <1>3, <1>5, AffinityMade
<1>8. /\ Alone(k, k', p) /\ k'.curr = k.curr /\ Asks(k, k') /\ k'.allowed[p] = mask
      /\ k'.cpu[p] = k.cpu[p] /\ k'.state[p] = k.state[p] /\ (k'.on_rq[p] <=> k.on_rq[p]) /\ k'.prio[p] = k.prio[p]
  BY <1>7 DEF OnlyAffinity
<1>9. Concerns(k, k', p)
  BY <1>2, <1>5, <1>8 DEF Concerns
<1>10. /\ WorkRight' /\ Requests \ {None} \subseteq Requests'
       /\ c \in mask \/ (~k.on_rq[p] /\ k.curr[c] # p) \/ Knows(Requests', k', p)
  <2>1. CASE (c \in mask \/ (~k.on_rq[p] /\ k.curr[c] # p)) /\ asked' = asked
    BY <1>1, <1>2, <2>1 DEF WorkRight, Requests
  <2>2. CASE \E d \in mask : asked' = [asked EXCEPT ![a] = Request(p, c, d)]
    <3>1. PICK d \in mask : asked' = [asked EXCEPT ![a] = Request(p, c, d)]
      BY <2>2
    <3>2. d \in Cpus /\ Request(p, c, d) \in Work
      BY <1>2, <1>3 DEF Work, Request
    <3>3. WorkRight' /\ Requests \ {None} \subseteq Requests' /\ Request(p, c, d) \in Requests'
      BY <1>1, <1>2, <3>1, <3>2, AskedMore
    <3> QED  BY <1>5, <1>8, <3>1, <3>3 DEF Knows
  <2> QED  BY <1>1, <2>1, <2>2
<1>11. Placed(k', op', Requests')
  <2>1. Placed(k, op, Requests \ {None})
    BY <1>2, NoneAsksNothing
  <2>2. k.cpu[p] \in k'.allowed[p] \/ (~k.on_rq[p] /\ k.curr[k.cpu[p]] # p) \/ Knows(Requests', k', p)
    BY <1>5, <1>8, <1>10
  <2>3. Placed(k', op, Requests')
    BY <1>1, <1>2, <1>8, <1>9, <1>10, <2>1, <2>2, AffinePlaced
  <2> QED  BY <1>1, <2>3
<1>12. Heads(k, k', op', op[e], op[e], Given(e))
  <2>1. ASSUME NEW b \in Cpus PROVE Kept(k, k', b)
    <3>1. p \in Queued(k', b) => p \in Queued(k, b) /\ k'.prio[p] = k.prio[p]
      BY <1>8 DEF Queued
    <3> QED  BY <1>2, <1>8, <3>1, AloneKept
  <2> QED  BY <2>1 DEF Heads
<1> QED  BY <1>2, <1>4, <1>7, <1>10, <1>11, <1>12, StepEnds

\* A request goes from who found that it is needed to the stopper.
LEMMA StopOneCpuStep ==
    ASSUME IInv, NEW e \in Cpus, History(e), NEW a \in Callers, StopOneCpu(e, a)
    PROVE  IInv'
<1> DEFINE c == asked[a].cpu
<1>1. /\ Free(e) /\ op' = op /\ asked[a] # None /\ stopper[c] = None /\ k' = resched_task(k, c)
      /\ stopper' = [stopper EXCEPT ![c] = asked[a]] /\ asked' = [asked EXCEPT ![a] = None]
  BY DEF StopOneCpu
<1>2. /\ k \in Kernels /\ Sound(k) /\ Placed(k, op, Requests) /\ op[e] \in OpsOf(e) /\ OpsRight(op)
      /\ WorkRight
  BY DEF IInv, Sound, TypeOK, OpsRight
<1>3. op' = [op EXCEPT ![e] = op[e]] /\ Sets(op, op', e, op[e])
  BY <1>1, <1>2 DEF OpsRight, Sets
<1>4. NotWake(op[e]) /\ ~Switching(op[e]) /\ \A b : ~PullsFor(op[e], b)
  BY <1>1, FreeOp
<1>5. asked[a] \in Work /\ c \in Cpus
  BY <1>1, <1>2 DEF WorkRight, Work
<1>6. WorkRight' /\ Requests \ {None} \subseteq Requests'
  BY <1>1, <1>2, <1>5, Handed
<1> HIDE DEF c
<1>7. Sound(k') /\ Still(k, k') /\ Asks(k, k')
  BY <1>1, <1>2, <1>5, ReschedSound
<1>8. SamePlaces(k, k')
  BY <1>7 DEF Still, SameTasks, SamePlaces
<1>9. Placed(k', op', Requests')
  <2>1. Placed(k, op, Requests')
    BY <1>2, <1>6, NoneAsksNothing, MoreRequests
  <2> QED  BY <1>3, <1>4, <1>8, <2>1, QuietPlaced
<1>10. Heads(k, k', op', op[e], op[e], Given(e))
  <2>1. \A b \in Cpus : Kept(k, k', b)
    BY <1>7, StillKept
  <2> QED  BY <2>1 DEF Heads
<1> QED  BY <1>2, <1>3, <1>6, <1>7, <1>9, <1>10, StepEnds

LEMMA MigrationStopStep ==
    ASSUME IInv, NEW c \in Cpus, History(c), MigrationStop(c)
    PROVE  IInv'
<1> DEFINE p == stopper[c].task
           d == stopper[c].to
           s == Move(k, p, d)
           u == check_preempt_curr(s, c, d, p)
<1>1. /\ k.curr[c] = Stop /\ Free(c) /\ stopper[c] # None /\ op' = op
      /\ stopper' = [stopper EXCEPT ![c] = None] /\ asked' = asked
  BY DEF MigrationStop
<1>2. /\ k \in Kernels /\ Sound(k) /\ Placed(k, op, Requests) /\ op[c] \in OpsOf(c) /\ OpsRight(op)
      /\ WorkRight
  BY DEF IInv, Sound, TypeOK, OpsRight
<1>3. p \in Tasks /\ d \in Cpus
  <2>1. stopper[c] \in Work
    BY <1>1, <1>2 DEF WorkRight
  <2> QED  BY <2>1 DEF Work
<1>4. \/ /\ k.cpu[p] = c /\ d \in k.allowed[p] /\ k.on_rq[p]
         /\ k' = resched_task(u, c)
      \/ /\ ~(k.cpu[p] = c /\ d \in k.allowed[p] /\ k.on_rq[p])
         /\ k' = resched_task(k, c)
  BY DEF MigrationStop
<1>5. op' = [op EXCEPT ![c] = op[c]] /\ Sets(op, op', c, op[c])
  BY <1>1, <1>2 DEF OpsRight, Sets
<1>6. NotWake(op[c]) /\ ~Switching(op[c]) /\ \A b : ~PullsFor(op[c], b)
  BY <1>1, FreeOp
<1>7. WorkRight' /\ Requests \subseteq Requests' \cup {Request(p, c, d)}
  <2>1. stopper[c] \in Work /\ stopper[c].cpu = c
    BY <1>1, <1>2 DEF WorkRight
  <2>2. stopper[c] = Request(p, c, d)
    BY <2>1 DEF Work, Request
  <2> QED  BY <1>1, <1>2, <2>2, Worked
<1>8. k.curr[c] # p
  BY <1>1, <1>3, Constants
<1>9. p = stopper[c].task /\ d = stopper[c].to /\ s = Move(k, p, d) /\ u = check_preempt_curr(s, c, d, p)
  OBVIOUS
<1> HIDE DEF p, d, s, u
<1>10. CASE /\ k.cpu[p] = c /\ d \in k.allowed[p] /\ k.on_rq[p]
            /\ k' = resched_task(u, c)
  <2>1. /\ Sound(s) /\ Alone(k, s, p) /\ SameRuns(k, s)
        /\ s.cpu[p] = d /\ s.on_rq[p]
        /\ s.state[p] = k.state[p] /\ s.prio[p] = k.prio[p] /\ s.allowed[p] = k.allowed[p]
    BY <1>2, <1>3, <1>9, <1>10, Moved
  <2>2. /\ Sound(u) /\ Still(s, u) /\ Asks(s, u)
        /\ u.resched[d] \/ PrioOf(s, s.curr[d]) <= s.prio[p]
    BY <1>3, <1>9, <2>1, Preempted
  <2>3. Sound(k') /\ Still(u, k') /\ Asks(u, k')
    BY <1>10, <2>2, ReschedSound
  <2>4. Still(s, k') /\ Asks(s, k')
    BY <2>2, <2>3 DEF Still, SameTasks, Asks
  <2>5. k'.resched[d] \/ PrioOf(s, s.curr[d]) <= s.prio[p]
    BY <1>3, <2>2, <2>3 DEF Asks
  <2>6. k.on_rq[p] /\ k.curr[k.cpu[p]] # p /\ d \in k.allowed[p]
    BY <1>8, <1>10
  <2>7. Placed(k', op', Requests) /\ Heads(k, k', op', op[c], op[c], Given(c))
    BY <1>3, <1>5, <1>6, <1>9, <2>4, <2>5, <2>6, MoveMade
  <2>8. k'.curr[c] # p
    BY <1>8, <2>1, <2>4 DEF Still, SameRuns
  <2>9. k'.cpu[p] = c => c \in k'.allowed[p]
    <3>1. k'.cpu[p] = d /\ k'.allowed[p] = k.allowed[p]
      BY <2>1, <2>4 DEF Still, SameTasks
    <3> QED  BY <1>10, <3>1
  <2>10. Placed(k', op', Requests')
    <3>1. k' \in Kernels
      BY <2>3 DEF Sound
    <3>2. k'.cpu[p] = c => k'.curr[c] # p /\ (k'.on_rq[p] => c \in k'.allowed[p] \/ d \notin k'.allowed[p])
      BY <2>8, <2>9
    <3>3. Placed(k', op', Requests)
      BY <2>7
    <3> QED  BY <1>3, <1>7, <3>1, <3>2, <3>3, StopPlaced
  <2> QED  BY <1>2, <1>5, <1>7, <2>3, <2>7, <2>10, StepEnds
<1>11. CASE /\ ~(k.cpu[p] = c /\ d \in k.allowed[p] /\ k.on_rq[p])
            /\ k' = resched_task(k, c)
  <2>1. Sound(k') /\ Still(k, k') /\ Asks(k, k')
    BY <1>2, <1>11, ReschedSound
  <2>2. SamePlaces(k, k')
    BY <2>1 DEF Still, SameTasks, SamePlaces
  <2>3. Placed(k', op', Requests)
    BY <1>2, <1>5, <1>6, <2>2, QuietPlaced
  <2>4. k'.curr[c] # p /\ k'.cpu = k.cpu /\ k'.on_rq = k.on_rq /\ k'.allowed = k.allowed
    BY <1>8, <2>1 DEF Still, SameTasks
  <2>5. k'.cpu[p] = c => (k'.on_rq[p] => c \in k'.allowed[p] \/ d \notin k'.allowed[p])
    BY <1>11, <2>4
  <2>6. Placed(k', op', Requests')
    <3>1. k' \in Kernels
      BY <2>1 DEF Sound
    <3> QED  BY <1>3, <1>7, <2>3, <2>4, <2>5, <3>1, StopPlaced
  <2>7. Heads(k, k', op', op[c], op[c], Given(c))
    <3>1. \A b \in Cpus : Kept(k, k', b)
      BY <2>1, StillKept
    <3> QED  BY <3>1 DEF Heads
  <2> QED  BY <1>2, <1>5, <1>7, <2>1, <2>6, <2>7, StepEnds
<1> QED  BY <1>4, <1>10, <1>11
--------------------------------------------------------------------------------
(***************************************************************************)
(* The theorems.                                                           *)
(***************************************************************************)
LEMMA InitStep ==
    ASSUME Init
    PROVE  IInv
<1> DEFINE no == FALSE
           asleep == "asleep"
           first(at) == [ cpu |-> at,
                 state |-> [p \in Tasks |-> asleep],
                 on_rq |-> [p \in Tasks |-> no],
                 prio |-> Start,
                 allowed |-> [p \in Tasks |-> Cpus],
                 curr |-> [c \in Cpus |-> Idle],
                 resched |-> [c \in Cpus |-> no],
                 queue |-> [c \in Cpus |-> <<>>],
                 pushable |-> [c \in Cpus |-> <<>>],
                 highest |-> [c \in Cpus |-> MaxRtPrio],
                 next |-> [c \in Cpus |-> MaxRtPrio],
                 migratory |-> [c \in Cpus |-> 0],
                 overloaded |-> [c \in Cpus |-> no],
                 post |-> [c \in Cpus |-> no] ]
<1>1. PICK at \in [Tasks -> Cpus] : k = first(at)
  BY DEF Init
<1>2. /\ op = [e \in Cpus |-> NoOp] /\ lost = {}
      /\ asked = [a \in Callers |-> None] /\ stopper = [c \in Cpus |-> None]
  BY DEF Init
<1>3. no \in BOOLEAN /\ ~no /\ asleep \in {"asleep", "waking", "running"} /\ asleep # "waking" /\ asleep # "running"
  OBVIOUS
<1>4. MaxRtPrio \in 1 .. MaxRtPrio /\ Cpus \in (SUBSET Cpus) \ {{}} /\ Start \in [Tasks -> Priorities]
      /\ <<>> \in Seq(Tasks)
  <2>1. 1 \in Cpus
    BY Constants DEF Cpus
  <2> QED  BY <2>1, Constants, PriosAssumption DEF Priorities
<1> HIDE DEF no, asleep
<1>5. k \in Kernels
  BY <1>1, <1>3, <1>4 DEF Kernels
<1>6. \A p \in Tasks : /\ k.on_rq[p] = no /\ k.state[p] = asleep /\ k.allowed[p] = Cpus /\ k.cpu[p] \in Cpus
  BY <1>1
<1>7. \A c \in Cpus : /\ k.curr[c] = Idle /\ k.queue[c] = <<>> /\ k.pushable[c] = <<>>
                      /\ k.highest[c] = MaxRtPrio /\ k.migratory[c] = 0 /\ k.overloaded[c] = no
  BY <1>1
<1> HIDE DEF first
<1>8. \A c \in Cpus : Queued(k, c) = {} /\ Movable(k, c) = {}
  BY <1>3, <1>6 DEF Queued, Movable
<1>9. Lists(k, <<>>, {}) /\ ToSet(<<>>) = {}
  BY DEF Lists, ToSet, IsInjective, Ordered
<1>10. \A c \in Cpus : RightAt(k, c)
  <2>1. ASSUME NEW c \in Cpus PROVE CountRight(k, c)
    <3>1. Cardinality({}) = 0
      BY FS_EmptySet
    <3>2. k.migratory[c] = Cardinality(Movable(k, c))
      BY <1>7, <1>8, <3>1
    <3>3. k.overloaded[c] = FALSE /\ ~(k.migratory[c] > 0)
      BY <1>7 DEF no
    <3>4. k.overloaded[c] = (k.migratory[c] > 0 /\ Cardinality(Queued(k, c)) > 1)
      BY <3>3
    <3> QED  BY <3>2, <3>4 DEF CountRight
  <2>2. ASSUME NEW c \in Cpus PROVE Highest(k, k.highest[c], Queued(k, c))
    BY <1>7, <1>8 DEF Highest
  <2>3. ASSUME NEW c \in Cpus PROVE ListRight(k, c) /\ OfferRight(k, c)
    BY <1>7, <1>8, <1>9 DEF ListRight, OfferRight
  <2> QED  BY <2>1, <2>2, <2>3 DEF RightAt
<1>11. OffersWait(k)
  BY <1>7, <1>9 DEF OffersWait
<1>12. \A e \in Cpus : op[e] = NoOp /\ NotWake(op[e]) /\ ~Switching(op[e])
  BY <1>2, NoOpKind
<1>13. WakeRight(k, op)
  BY <1>3, <1>6, <1>12 DEF WakeRight, NotWake
<1>14. RunRight(k, op) /\ StopRight(k, Requests)
  BY <1>6, <1>7, Constants DEF RunRight, StopRight
<1>15. HeadRight(k, op, lost)
  BY <1>8 DEF HeadRight, RunsHead
<1>16. TypeOK
  BY <1>2, <1>5, NoOpKind DEF TypeOK, OpsRight, WorkRight
<1> QED  BY <1>5, <1>10, <1>11, <1>13, <1>14, <1>15, <1>16 DEF IInv, Sound, Right, Placed

LEMMA NextStep ==
    ASSUME IInv, Next
    PROVE  IInv'
<1>1. PICK e \in Cpus :
        /\ \/ Schedule(e, FALSE) \/ Schedule(e, TRUE) \/ PostSchedule(e)
           \/ Push(e) \/ PushRetry(e) \/ PushBoth(e) \/ Pull(e) \/ PullBoth(e)
           \/ Rotate(e) \/ WakeUpThere(e) \/ MigrationStop(e)
           \/ \E p \in Tasks : WakeUp(e, p) \/ \E prio \in Prios[p] : SetPrio(e, p, prio)
           \/ \E a \in Callers : \/ StopOneCpu(e, a)
                                 \/ \E p \in Tasks : \E mask \in Masks[p] : SetAffinity(e, a, p, mask)
        /\ History(e)
  BY DEF Next
<1>2. CASE Schedule(e, FALSE) \/ Schedule(e, TRUE)
  BY <1>1, <1>2, ScheduleSteps
<1>3. CASE Push(e) \/ PushRetry(e) \/ PostSchedule(e)
  BY <1>1, <1>3, PushSteps
<1>4. CASE PushBoth(e)
  BY <1>1, <1>4, PushBothStep
<1>5. CASE Pull(e)
  BY <1>1, <1>5, PullStep
<1>6. CASE PullBoth(e)
  BY <1>1, <1>6, PullBothStep
<1>7. CASE Rotate(e)
  BY <1>1, <1>7, RotateStep
<1>8. CASE MigrationStop(e)
  BY <1>1, <1>8, MigrationStopStep
<1>9. CASE WakeUpThere(e) \/ \E p \in Tasks : WakeUp(e, p)
  BY <1>1, <1>9, WakeSteps
<1>10. ASSUME NEW p \in Tasks, NEW prio \in Prios[p], SetPrio(e, p, prio) PROVE IInv'
  BY <1>1, <1>10, SetPrioStep
<1>11. ASSUME NEW a \in Callers, NEW p \in Tasks, NEW mask \in Masks[p], SetAffinity(e, a, p, mask) PROVE IInv'
  BY <1>1, <1>11, SetAffinityStep
<1>12. ASSUME NEW a \in Callers, StopOneCpu(e, a) PROVE IInv'
  BY <1>1, <1>12, StopOneCpuStep
<1> QED  BY <1>1, <1>2, <1>3, <1>4, <1>5, <1>6, <1>7, <1>8, <1>9, <1>10, <1>11, <1>12

\* The inductive invariant: it holds at first, and no step ends it.
THEOREM Invariance == Spec => []IInv
<1>1. Init => IInv
  BY InitStep
<1>2. IInv /\ [Next]_vars => IInv'
  <2>1. ASSUME IInv, UNCHANGED vars PROVE IInv'
    <3>1. k' = k /\ op' = op /\ work' = work /\ lost' = lost
      BY <2>1 DEF vars
    <3> QED  BY <2>1, <3>1, StoppersSame DEF IInv, TypeOK
  <2> QED  BY <2>1, NextStep
<1> QED  BY <1>1, <1>2, PTL DEF Spec

LEMMA QueueBooks ==
    ASSUME IInv, NEW c \in Cpus
    PROVE  QueueRight(c) /\ OffersRight(c)
<1>1. /\ k \in Kernels /\ Lists(k, k.queue[c], Queued(k, c)) /\ Highest(k, k.highest[c], Queued(k, c))
      /\ CountRight(k, c) /\ OfferRight(k, c) /\ k.curr[c] \notin ToSet(k.pushable[c])
  BY DEF IInv, Sound, Right, RightAt, ListRight, OffersWait
<1>2. Queued(k, c) = OnQueue(c)
  BY DEF Queued, OnQueue
<1>3. IsInjective(k.queue[c]) /\ ToSet(k.queue[c]) = OnQueue(c) /\ InOrder(k.queue[c])
  BY <1>1, <1>2 DEF Lists, Ordered, InOrder
<1>4. k.highest[c] = IF k.queue[c] = <<>> THEN MaxRtPrio ELSE k.prio[Head(k.queue[c])]
  <2>1. k.queue[c] = <<>> <=> Queued(k, c) = {}
    BY <1>1, ListSize
  <2>2. CASE Queued(k, c) = {}
    BY <1>1, <2>1, <2>2 DEF Highest
  <2>3. CASE Queued(k, c) # {}
    <3> DEFINE h == Head(k.queue[c])
    <3>1. h \in Queued(k, c) /\ \A q \in Queued(k, c) : q # h => k.prio[h] <= k.prio[q]
      BY <1>1, <2>3, ListSize
    <3> HIDE DEF h
    <3>2. PICK p \in Queued(k, c) : k.prio[p] = k.highest[c]
      BY <1>1, <2>3 DEF Highest
    <3>3. k.highest[c] <= k.prio[h]
      BY <1>1, <3>1 DEF Highest
    <3>4. k.prio[h] \in Nat /\ k.highest[c] \in Nat
      BY <1>1, <3>1, KernelTypes DEF Queued
    <3>5. k.highest[c] = k.prio[h]
      BY <3>1, <3>2, <3>3, <3>4
    <3> QED  BY <2>1, <2>3, <3>5 DEF h
  <2> QED  BY <2>2, <2>3
<1>5. k.migratory[c] = Cardinality({p \in OnQueue(c) : weight(k, p) > 1})
  BY <1>1, <1>2 DEF CountRight, Movable
<1>6. k.overloaded[c] = (k.migratory[c] > 0 /\ Cardinality(OnQueue(c)) > 1)
  BY <1>1, <1>2 DEF CountRight
<1>7. IsInjective(k.pushable[c]) /\ InOrder(k.pushable[c])
  BY <1>1 DEF OfferRight, Lists, Ordered, InOrder
<1>8. \A p \in ToSet(k.pushable[c]) : p \in OnQueue(c) /\ k.curr[c] # p /\ weight(k, p) > 1
  BY <1>1, <1>2 DEF OfferRight, Movable
<1> QED  BY <1>3, <1>4, <1>5, <1>6, <1>7, <1>8 DEF QueueRight, OffersRight

\* The books of every run queue are right: its list is the tasks that are on it by
\* priority, the fields other CPUs read without its lock say what is in it, and what is
\* on offer is queued here, waits, and may move.
THEOREM BooksRight == Spec => []Books
<1>1. IInv => Books
  BY QueueBooks DEF Books
<1> QED  BY <1>1, Invariance, PTL

\* What runs is where it runs, so nothing runs on two CPUs; and a task that is queued where it
\* may not run has a request out, with the stopper of that CPU or on its way to it, to move it
\* to where it may, whatever was done to it between the affinity change and the request.
THEOREM TasksInPlace == Spec => []InItsPlace
<1>1. IInv => InItsPlace
  <2>1. ASSUME IInv PROVE RunRight(k, op) /\ StopRight(k, Requests)
    BY <2>1 DEF IInv, Placed
  <2> QED  BY <2>1 DEF InItsPlace, RunRight, StopRight, Knows, Request
<1> QED  BY <1>1, Invariance, PTL

\* When everything has settled, every CPU runs a task as urgent as the first of its queue,
\* but those that prio_changed_rt forgot.
THEOREM HeadOfQueueRuns == Spec => []HeadRuns
<1>1. ASSUME IInv, Settled, NEW c \in Cpus \ lost, k.queue[c] # <<>>
      PROVE  PrioOf(k, k.curr[c]) <= k.highest[c]
  <2>1. ~Pulled(op, c) /\ ~k.resched[c]
    <3>1. \A e \in Cpus : ~PullsFor(op[e], c)
      BY <1>1, FreeOp DEF Settled
    <3> QED  BY <1>1, <3>1 DEF Pulled, Settled
  <2>2. \A p \in Queued(k, c) : PrioOf(k, k.curr[c]) <= k.prio[p]
    BY <1>1, <2>1 DEF IInv, HeadRight, RunsHead
  <2>3. Lists(k, k.queue[c], Queued(k, c)) /\ Highest(k, k.highest[c], Queued(k, c))
    BY <1>1 DEF IInv, Sound, Right, RightAt, ListRight
  <2>4. \E p \in Queued(k, c) : k.prio[p] = k.highest[c]
    BY <1>1, <2>3, ListSize DEF Highest
  <2> QED  BY <2>2, <2>4
<1>2. IInv => HeadRuns
  BY <1>1 DEF HeadRuns
<1> QED  BY <1>2, Invariance, PTL
================================================================================

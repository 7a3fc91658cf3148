-------------------------- MODULE RtBandwidth_proofs --------------------------
(***************************************************************************)
(* Proofs about RtBandwidth.  The loops over the CPUs and the sums over    *)
(* them are folds; what each of them computes is proved here from the      *)
(* definition of a fold, by induction over the numbers of the CPUs.        *)
(***************************************************************************)
EXTENDS RtBandwidth, FoldLemmas, FiniteSetTheorems

(***************************************************************************)
(* Numbers.                                                                *)
(***************************************************************************)
LEMMA CpusAreSome == NCpus \in Nat /\ NCpus >= 1 /\ Period \in Nat /\ Period >= 1
  BY SizeAssumption

(***************************************************************************)
(* Loops over the CPUs.                                                    *)
(***************************************************************************)
LEMMA LastCpu ==
    ASSUME NEW S \in SUBSET Cpus, S # {}
    PROVE  Max(S) \in S /\ S \ {Max(S)} \in SUBSET Cpus
  BY LastIn, CpusAreSome DEF Cpus

\* What a loop that starts with s has made when it has been at the CPUs of a set.
LoopsTo(after, T, s, Step) ==
    /\ after \in [SUBSET Cpus -> T]
    /\ \A S \in SUBSET Cpus :
           after[S] = IF S = {} THEN s ELSE Step[Max(S)][after[S \ {Max(S)}]]

\* A loop whose step takes a T to a T makes a T of every set of CPUs.
LEMMA CpuLoop ==
    ASSUME NEW T, NEW s \in T, NEW Step \in [Cpus -> [T -> T]]
    PROVE  \E after : LoopsTo(after, T, s, Step)
<1>1. PICK after : Makes(after, NCpus, T, s, Step)
  BY LoopExists, CpusAreSome DEF Cpus
<1> QED  BY <1>1 DEF Makes, LoopsTo, Cpus

LEMMA CpusUpTo ==
    ASSUME NEW i \in Cpus
    PROVE  /\ i - 1 \in 0 .. NCpus /\ 1 .. i \in SUBSET Cpus /\ 1 .. i # {}
           /\ Max(1 .. i) = i /\ (1 .. i) \ {i} = 1 .. i - 1
<1>1. i \in Nat /\ i >= 1 /\ i <= NCpus
  BY CpusAreSome DEF Cpus
<1>2. Max(1 .. i) = i
  <2>1. i - 1 \in Nat /\ (i - 1) + 1 = i
    BY <1>1
  <2>2. \A n \in Nat : Max(1 .. n + 1) = n + 1
    BY LastOf
  <2> QED  BY <2>1, <2>2
<1>3. i - 1 \in 0 .. NCpus
  BY <1>1, CpusAreSome
<1>4. i \in 1 .. i
  BY <1>1
<1>5. 1 .. i \in SUBSET Cpus
  BY <1>1, CpusAreSome DEF Cpus
<1>6. (1 .. i) \ {i} = 1 .. i - 1
  BY <1>1
<1> QED  BY <1>2, <1>3, <1>4, <1>5, <1>6

(***************************************************************************)
(* What one CPU lends in do_balance_runtime(c, d), and what __disable_     *)
(* runtime(c) takes from one.                                              *)
(***************************************************************************)
Lend(r, i, c, d) ==
    LET spare == r[i] - rt_time[i]
        diff  == Least(spare \div Cardinality(span(d)), Period - r[c])
    IN  IF i = c \/ i \notin span(d) \/ r[i] = RUNTIME_INF \/ spare <= 0 \/ r[c] = Period
        THEN r
        ELSE [r EXCEPT ![i] = @ - diff, ![c] = @ + diff]

Take(s, i, c) ==
    LET diff == IF s.want > 0 THEN Least(s.r[i], s.want) ELSE s.want
    IN  IF i = c \/ i \notin span(rd[c]) \/ s.r[i] = RUNTIME_INF THEN s
        ELSE [r |-> [s.r EXCEPT ![i] = @ - diff], want |-> s.want - diff]

LEMMA SpanCounts ==
    ASSUME NEW d
    PROVE  /\ span(d) \in SUBSET Cpus /\ Cardinality(span(d)) \in Nat
           /\ \A i \in span(d) : Cardinality(span(d)) >= 1
<1>1. IsFiniteSet(Cpus)
  BY FS_Interval, CpusAreSome DEF Cpus
<1>2. span(d) \in SUBSET Cpus
  BY DEF span
<1>3. IsFiniteSet(span(d)) /\ Cardinality(span(d)) \in Nat
  BY <1>1, <1>2, FS_Subset, FS_CardinalityType
<1>4. span(d) # {} => Cardinality(span(d)) # 0
  BY <1>3, FS_EmptySet
<1> QED  BY <1>2, <1>3, <1>4

LEMMA LendType ==
    ASSUME NEW r \in [Cpus -> Int], rt_time \in [Cpus -> Int],
           NEW i \in Cpus, NEW c \in Cpus, NEW d
    PROVE  Lend(r, i, c, d) \in [Cpus -> Int]
<1> DEFINE spare == r[i] - rt_time[i]
           part  == spare \div Cardinality(span(d))
           diff  == Least(part, Period - r[c])
<1>1. CASE i \in span(d)
  <2>1. Cardinality(span(d)) \in Nat /\ Cardinality(span(d)) >= 1
    BY <1>1, SpanCounts
  <2>2. part \in Int
    BY <2>1
  <2> HIDE DEF part
  <2>3. diff \in Int
    BY <2>2, CpusAreSome DEF Least
  <2>4. Lend(r, i, c, d) = r \/ Lend(r, i, c, d) = [r EXCEPT ![i] = @ - diff, ![c] = @ + diff]
    BY DEF Lend, part
  <2> HIDE DEF diff
  <2> QED  BY <2>3, <2>4
<1>2. CASE i \notin span(d)
  BY <1>2 DEF Lend
<1> QED  BY <1>1, <1>2

Taken == [r : [Cpus -> Int], want : Int]

LEMMA TakeType ==
    ASSUME NEW s \in Taken, NEW i \in Cpus, NEW c \in Cpus
    PROVE  Take(s, i, c) \in Taken
<1> DEFINE diff == IF s.want > 0 THEN Least(s.r[i], s.want) ELSE s.want
<1>1. s.r \in [Cpus -> Int] /\ s.want \in Int
  BY DEF Taken
<1>2. diff \in Int
  BY <1>1 DEF Least
<1>3. Take(s, i, c) = s
      \/ Take(s, i, c) = [r |-> [s.r EXCEPT ![i] = @ - diff], want |-> s.want - diff]
  BY DEF Take
<1> HIDE DEF diff
<1> QED  BY <1>1, <1>2, <1>3 DEF Taken

\* The loop of do_balance_runtime, CPU by CPU.
LEMMA BalanceLoop ==
    ASSUME NEW c \in Cpus, NEW d, rt_runtime \in [Cpus -> Int], rt_time \in [Cpus -> Int]
    PROVE  \E g \in [0 .. NCpus -> [Cpus -> Int]] :
               /\ g[0] = rt_runtime /\ g[NCpus] = do_balance_runtime(c, d)
               /\ \A i \in Cpus : g[i] = Lend(g[i - 1], i, c, d)
<1> DEFINE T == [Cpus -> Int]
           Step == [i \in Cpus |-> [r \in T |-> Lend(r, i, c, d)]]
           cpus == [i \in Cpus |-> i]
           It == CHOOSE iter : iter =
                    [S \in SUBSET Cpus |->
                        IF S = {} THEN rt_runtime
                        ELSE Lend(iter[S \ {Max(S)}], cpus[Max(S)], c, d)]
           g == [i \in 0 .. NCpus |-> It[1 .. i]]
<1>1. do_balance_runtime(c, d) = It[Cpus]
  BY DEF do_balance_runtime, for_each_cpu, FoldLeft, MapThenFoldSet, Lend
<1>2. \A i \in Cpus, r \in T : Lend(r, i, c, d) \in T
  BY LendType
<1>3. PICK after : LoopsTo(after, T, rt_runtime, Step)
  <2>1. Step \in [Cpus -> [T -> T]]
    BY <1>2
  <2>2. rt_runtime \in T
    OBVIOUS
  <2> HIDE DEF T, Step
  <2> QED  BY <2>1, <2>2, CpuLoop
<1>4. \A S \in SUBSET Cpus :
          after[S] = IF S = {} THEN rt_runtime
                     ELSE Lend(after[S \ {Max(S)}], cpus[Max(S)], c, d)
  <2>1. TAKE S \in SUBSET Cpus
  <2>2. CASE S # {}
    <3>1. Max(S) \in Cpus /\ S \ {Max(S)} \in SUBSET Cpus /\ cpus[Max(S)] = Max(S)
      BY <2>2, LastCpu
    <3>2. after[S \ {Max(S)}] \in T
      BY <1>3, <3>1 DEF LoopsTo
    <3>3. Step[Max(S)][after[S \ {Max(S)}]] = Lend(after[S \ {Max(S)}], Max(S), c, d)
      BY <3>1, <3>2
    <3>4. after[S] = Step[Max(S)][after[S \ {Max(S)}]]
      BY <1>3, <2>2 DEF LoopsTo
    <3> HIDE DEF Step, cpus
    <3> QED  BY <2>2, <3>1, <3>3, <3>4
  <2>3. CASE S = {}
    BY <1>3, <2>3 DEF LoopsTo
  <2> QED  BY <2>2, <2>3
<1>5. after = [S \in SUBSET Cpus |->
                  IF S = {} THEN rt_runtime
                  ELSE Lend(after[S \ {Max(S)}], cpus[Max(S)], c, d)]
  BY <1>3, <1>4 DEF LoopsTo
<1>6. It = [S \in SUBSET Cpus |->
                IF S = {} THEN rt_runtime
                ELSE Lend(It[S \ {Max(S)}], cpus[Max(S)], c, d)]
  BY <1>5
<1> HIDE DEF It
<1>7. It[{}] = rt_runtime
  BY <1>6
<1>8. \A i \in Cpus : It[1 .. i] = Lend(It[1 .. i - 1], i, c, d)
  <2>1. TAKE i \in Cpus
  <2>2. /\ 1 .. i \in SUBSET Cpus /\ 1 .. i # {} /\ Max(1 .. i) = i
        /\ (1 .. i) \ {i} = 1 .. i - 1 /\ cpus[i] = i
    BY CpusUpTo
  <2> HIDE DEF cpus
  <2>3. It[1 .. i] = Lend(It[(1 .. i) \ {Max(1 .. i)}], cpus[Max(1 .. i)], c, d)
    BY <1>6, <2>2
  <2> QED  BY <2>2, <2>3
<1>9. \A i \in 0 .. NCpus : It[1 .. i] \in T
  <2>1. TAKE m \in 0 .. NCpus
  <2> DEFINE A == {n \in Nat : It[1 .. n] \in T}
  <2>2. 0 \in A
    <3>1. 1 .. 0 = {}
      OBVIOUS
    <3> QED  BY <1>7, <3>1
  <2>3. ASSUME NEW n \in Nat, n < m, n \in A PROVE n + 1 \in A
    <3>1. n + 1 \in Cpus /\ (n + 1) - 1 = n
      BY <2>3, CpusAreSome DEF Cpus
    <3>2. It[1 .. n + 1] = Lend(It[1 .. n], n + 1, c, d)
      BY <1>8, <3>1
    <3>3. It[1 .. n] \in T
      BY <2>3
    <3>4. Lend(It[1 .. n], n + 1, c, d) \in T
      BY <1>2, <3>1, <3>3
    <3> QED  BY <3>2, <3>4
  <2> HIDE DEF A
  <2>4. m \in A
    BY <2>2, <2>3, UpTo, CpusAreSome
  <2> QED  BY <2>4 DEF A
<1> HIDE DEF T
<1>10. g \in [0 .. NCpus -> T]
  BY <1>9
<1>11. g[0] = rt_runtime /\ g[NCpus] = It[Cpus]
  <2>1. 1 .. 0 = {} /\ 0 \in 0 .. NCpus /\ NCpus \in 0 .. NCpus
    BY CpusAreSome
  <2> QED  BY <1>7, <2>1 DEF Cpus
<1>12. \A i \in Cpus : g[i] = Lend(g[i - 1], i, c, d)
  <2>1. \A i \in Cpus : i \in 0 .. NCpus /\ i - 1 \in 0 .. NCpus
    BY CpusAreSome DEF Cpus
  <2> QED  BY <1>8, <2>1
<1> QED  BY <1>1, <1>10, <1>11, <1>12 DEF T

\* The loop of __disable_runtime, CPU by CPU.
LEMMA DisableLoop ==
    ASSUME NEW c \in Cpus, rt_runtime \in [Cpus -> Int], b_runtime \in Int,
           rt_runtime[c] # RUNTIME_INF
    PROVE  \E g \in [0 .. NCpus -> Taken] :
               /\ g[0] = [r |-> rt_runtime, want |-> b_runtime - rt_runtime[c]]
               /\ Disable(c) = [g[NCpus] EXCEPT !.r[c] = RUNTIME_INF]
               /\ \A i \in Cpus : g[i] = Take(g[i - 1], i, c)
<1> DEFINE T == Taken
           first == [r |-> rt_runtime, want |-> b_runtime - rt_runtime[c]]
           Step == [i \in Cpus |-> [s \in T |-> Take(s, i, c)]]
           cpus == [i \in Cpus |-> i]
           It == CHOOSE iter : iter =
                    [S \in SUBSET Cpus |->
                        IF S = {} THEN first
                        ELSE Take(iter[S \ {Max(S)}], cpus[Max(S)], c)]
           g == [i \in 0 .. NCpus |-> It[1 .. i]]
<1>1. Disable(c) = [It[Cpus] EXCEPT !.r[c] = RUNTIME_INF]
  BY DEF Disable, for_each_cpu, FoldLeft, MapThenFoldSet, Take
<1>2. \A i \in Cpus, s \in T : Take(s, i, c) \in T
  BY TakeType
<1>3. PICK after : LoopsTo(after, T, first, Step)
  <2>1. Step \in [Cpus -> [T -> T]]
    BY <1>2
  <2>2. first \in T
    BY DEF Taken
  <2> HIDE DEF T, Step, first
  <2> QED  BY <2>1, <2>2, CpuLoop
<1>4. \A S \in SUBSET Cpus :
          after[S] = IF S = {} THEN first
                     ELSE Take(after[S \ {Max(S)}], cpus[Max(S)], c)
  <2>1. TAKE S \in SUBSET Cpus
  <2>2. CASE S # {}
    <3>1. Max(S) \in Cpus /\ S \ {Max(S)} \in SUBSET Cpus /\ cpus[Max(S)] = Max(S)
      BY <2>2, LastCpu
    <3>2. after[S \ {Max(S)}] \in T
      BY <1>3, <3>1 DEF LoopsTo
    <3>3. Step[Max(S)][after[S \ {Max(S)}]] = Take(after[S \ {Max(S)}], Max(S), c)
      BY <3>1, <3>2
    <3>4. after[S] = Step[Max(S)][after[S \ {Max(S)}]]
      BY <1>3, <2>2 DEF LoopsTo
    <3> HIDE DEF Step, cpus
    <3> QED  BY <2>2, <3>1, <3>3, <3>4
  <2>3. CASE S = {}
    BY <1>3, <2>3 DEF LoopsTo
  <2> QED  BY <2>2, <2>3
<1>5. after = [S \in SUBSET Cpus |->
                  IF S = {} THEN first
                  ELSE Take(after[S \ {Max(S)}], cpus[Max(S)], c)]
  BY <1>3, <1>4 DEF LoopsTo
<1>6. It = [S \in SUBSET Cpus |->
                IF S = {} THEN first
                ELSE Take(It[S \ {Max(S)}], cpus[Max(S)], c)]
  BY <1>5
<1> HIDE DEF It
<1>7. It[{}] = first
  BY <1>6
<1> HIDE DEF first
<1>8. \A i \in Cpus : It[1 .. i] = Take(It[1 .. i - 1], i, c)
  <2>1. TAKE i \in Cpus
  <2>2. /\ 1 .. i \in SUBSET Cpus /\ 1 .. i # {} /\ Max(1 .. i) = i
        /\ (1 .. i) \ {i} = 1 .. i - 1 /\ cpus[i] = i
    BY CpusUpTo
  <2> HIDE DEF cpus
  <2>3. It[1 .. i] = Take(It[(1 .. i) \ {Max(1 .. i)}], cpus[Max(1 .. i)], c)
    BY <1>6, <2>2
  <2> QED  BY <2>2, <2>3
<1>9. \A i \in 0 .. NCpus : It[1 .. i] \in T
  <2>1. TAKE m \in 0 .. NCpus
  <2> DEFINE A == {n \in Nat : It[1 .. n] \in T}
  <2>2. 0 \in A
    <3>1. 1 .. 0 = {}
      OBVIOUS
    <3>2. first \in T
      BY DEF Taken, first
    <3> QED  BY <1>7, <3>1, <3>2
  <2>3. ASSUME NEW n \in Nat, n < m, n \in A PROVE n + 1 \in A
    <3>1. n + 1 \in Cpus /\ (n + 1) - 1 = n
      BY <2>3, CpusAreSome DEF Cpus
    <3>2. It[1 .. n + 1] = Take(It[1 .. n], n + 1, c)
      BY <1>8, <3>1
    <3>3. It[1 .. n] \in T
      BY <2>3
    <3>4. Take(It[1 .. n], n + 1, c) \in T
      BY <1>2, <3>1, <3>3
    <3> QED  BY <3>2, <3>4
  <2> HIDE DEF A
  <2>4. m \in A
    BY <2>2, <2>3, UpTo, CpusAreSome
  <2> QED  BY <2>4 DEF A
<1> HIDE DEF T
<1>10. g \in [0 .. NCpus -> T]
  BY <1>9
<1>11. g[0] = first /\ g[NCpus] = It[Cpus]
  <2>1. 1 .. 0 = {} /\ 0 \in 0 .. NCpus /\ NCpus \in 0 .. NCpus
    BY CpusAreSome
  <2> QED  BY <1>7, <2>1 DEF Cpus
<1>12. \A i \in Cpus : g[i] = Take(g[i - 1], i, c)
  <2>1. \A i \in Cpus : i \in 0 .. NCpus /\ i - 1 \in 0 .. NCpus
    BY CpusAreSome DEF Cpus
  <2> QED  BY <1>8, <2>1
<1> QED  BY <1>1, <1>10, <1>11, <1>12 DEF T, first

(***************************************************************************)
(* Sums.                                                                   *)
(***************************************************************************)
\* What the CPUs of S have beyond b each, all together.
Excess(r, b, S) == MapThenSumSet(LAMBDA c : r[c] - b, S)

Sums(W, f) ==
    /\ W \in [SUBSET Cpus -> Int] /\ W[{}] = 0
    /\ \A S \in SUBSET Cpus : \A x \in S : W[S] = f[x] + W[S \ {x}]

LEMMA SumsExist ==
    ASSUME NEW f \in [Cpus -> Int]
    PROVE  \E W : Sums(W, f)
<1> DEFINE Summed(n, W) ==
               /\ W \in [SUBSET (1 .. n) -> Int] /\ W[{}] = 0
               /\ \A S \in SUBSET (1 .. n) : \A x \in S : W[S] = f[x] + W[S \ {x}]
           A == {n \in Nat : \E W : Summed(n, W)}
<1>1. 0 \in A
  <2> DEFINE W == [S \in SUBSET (1 .. 0) |-> 0]
  <2>1. 1 .. 0 = {}
    OBVIOUS
  <2>2. Summed(0, W)
    BY <2>1
  <2> QED  BY <2>2
<1>2. ASSUME NEW n \in Nat, n < NCpus, n \in A PROVE n + 1 \in A
  <2>1. PICK W : Summed(n, W)
    BY <1>2
  <2> DEFINE k == n + 1
             V == [S \in SUBSET (1 .. k) |->
                      IF k \in S THEN f[k] + W[S \ {k}] ELSE W[S]]
  <2>2. k \in Cpus
    BY <1>2, CpusAreSome DEF Cpus
  <2>3. \A S \in SUBSET (1 .. k) : S \ {k} \in SUBSET (1 .. n)
    OBVIOUS
  <2>4. \A S \in SUBSET (1 .. k) : k \notin S => S \in SUBSET (1 .. n)
    <3>1. \A S \in SUBSET (1 .. k) : k \notin S => S \ {k} = S
      OBVIOUS
    <3> QED  BY <2>3, <3>1
  <2>5. \A S \in SUBSET (1 .. k) : \A x \in S : x \in Cpus /\ f[x] \in Int
    BY <1>2, CpusAreSome DEF Cpus
  <2> HIDE DEF k
  <2>6. V \in [SUBSET (1 .. k) -> Int] /\ V[{}] = 0
    <3>1. \A S \in SUBSET (1 .. k) : k \in S => f[k] + W[S \ {k}] \in Int
      BY <2>1, <2>2, <2>3
    <3>2. \A S \in SUBSET (1 .. k) : k \notin S => W[S] \in Int
      BY <2>1, <2>4
    <3> QED  BY <2>1, <3>1, <3>2
  <2>7. ASSUME NEW S \in SUBSET (1 .. k), NEW x \in S PROVE V[S] = f[x] + V[S \ {x}]
    <3>0. S \ {x} \in SUBSET (1 .. k)
      OBVIOUS
    <3>1. CASE x = k
      <4>1. k \in S /\ k \notin S \ {k}
        BY <3>1
      <4>2. V[S] = f[k] + W[S \ {k}] /\ V[S \ {k}] = W[S \ {k}]
        BY <3>0, <3>1, <4>1
      <4> HIDE DEF V
      <4> QED  BY <3>1, <4>2
    <3>2. CASE x # k /\ k \in S
      <4> DEFINE P == S \ {k}
                 Q == S \ {x}
      <4>1. V[S] = f[k] + W[P] /\ V[Q] = f[k] + W[Q \ {k}]
        BY <3>0, <3>2
      <4>2. P \in SUBSET (1 .. n) /\ x \in P /\ Q \ {k} = P \ {x}
        BY <2>3, <3>2
      <4>3. W[P] = f[x] + W[P \ {x}]
        BY <2>1, <4>2
      <4>4. f[k] \in Int /\ f[x] \in Int /\ W[P \ {x}] \in Int
        BY <2>1, <2>2, <2>5, <4>2
      <4> HIDE DEF V, P, Q
      <4>5. V[S] = f[k] + (f[x] + W[P \ {x}]) /\ V[Q] = f[k] + W[P \ {x}]
        BY <4>1, <4>2, <4>3
      <4>6. V[S] = f[x] + V[Q]
        BY <4>4, <4>5
      <4> QED  BY <4>6 DEF Q
    <3>3. CASE k \notin S
      <4>1. S \in SUBSET (1 .. n) /\ S \ {x} \in SUBSET (1 .. n) /\ k \notin S \ {x}
        BY <2>4, <3>3
      <4>2. V[S] = W[S] /\ V[S \ {x}] = W[S \ {x}]
        BY <3>0, <3>3
      <4>3. W[S] = f[x] + W[S \ {x}]
        BY <2>1, <4>1
      <4> HIDE DEF V
      <4> QED  BY <4>2, <4>3
    <3> QED  BY <3>1, <3>2, <3>3
  <2> HIDE DEF V
  <2>8. Summed(k, V)
    BY <2>6, <2>7
  <2> HIDE DEF Summed
  <2>9. k \in A
    BY <2>8 DEF k
  <2> QED  BY <2>9 DEF k
<1> HIDE DEF A
<1>3. NCpus \in A
  BY <1>1, <1>2, UpTo, CpusAreSome
<1>4. PICK W : Summed(NCpus, W)
  BY <1>3 DEF A
<1>5. Sums(W, f)
  BY <1>4 DEF Sums, Cpus
<1> QED  BY <1>5

LEMMA ExcessIs ==
    ASSUME NEW r \in [Cpus -> Int], NEW b \in Int,
           NEW W, Sums(W, [c \in Cpus |-> r[c] - b]), NEW S \in SUBSET Cpus
    PROVE  Excess(r, b, S) = W[S]
<1> DEFINE pick(s) == CHOOSE x \in s : TRUE
           U == [s \in SUBSET S |-> W[s]]
           It == CHOOSE iter : iter =
                    [s \in SUBSET S |->
                        IF s = {} THEN 0 ELSE (r[pick(s)] - b) + iter[s \ {pick(s)}]]
<1>1. Excess(r, b, S) = It[S]
  BY DEF Excess, MapThenSumSet, MapThenFoldSet
<1>2. \A s \in SUBSET S : s # {} => pick(s) \in s /\ s \ {pick(s)} \in SUBSET S
  OBVIOUS
<1> HIDE DEF pick
<1>3. \A s \in SUBSET S : s # {} => W[s] = (r[pick(s)] - b) + W[s \ {pick(s)}]
  <2>1. TAKE s \in SUBSET S
  <2>2. HAVE s # {}
  <2>3. pick(s) \in s /\ pick(s) \in Cpus /\ s \in SUBSET Cpus
    BY <1>2, <2>2
  <2>4. W[s] = [c \in Cpus |-> r[c] - b][pick(s)] + W[s \ {pick(s)}]
    BY <2>3 DEF Sums
  <2> QED  BY <2>3, <2>4
<1>4. U = [s \in SUBSET S |->
              IF s = {} THEN 0 ELSE (r[pick(s)] - b) + U[s \ {pick(s)}]]
  <2>1. \A s \in SUBSET S :
            U[s] = IF s = {} THEN 0 ELSE (r[pick(s)] - b) + U[s \ {pick(s)}]
    <3>1. W[{}] = 0
      BY DEF Sums
    <3> QED  BY <1>2, <1>3, <3>1
  <2> QED  BY <2>1
<1>5. It = [s \in SUBSET S |->
               IF s = {} THEN 0 ELSE (r[pick(s)] - b) + It[s \ {pick(s)}]]
  BY <1>4
<1> HIDE DEF It, U
<1> DEFINE A == {n \in Nat : \A s \in SUBSET S : Cardinality(s) = n => It[s] = W[s]}
<1>6. IsFiniteSet(S) /\ \A s \in SUBSET S : IsFiniteSet(s)
  <2>1. IsFiniteSet(Cpus)
    BY FS_Interval, CpusAreSome DEF Cpus
  <2>2. IsFiniteSet(S)
    BY <2>1, FS_Subset
  <2> QED  BY <2>2, FS_Subset
<1>7. 0 \in A
  <2>1. \A s \in SUBSET S : Cardinality(s) = 0 => s = {}
    BY <1>6, FS_EmptySet
  <2>2. It[{}] = 0 /\ W[{}] = 0
    BY <1>5 DEF Sums
  <2> QED  BY <2>1, <2>2
<1>8. ASSUME NEW n \in Nat, n < Cardinality(S), n \in A PROVE n + 1 \in A
  <2>1. ASSUME NEW s \in SUBSET S, Cardinality(s) = n + 1 PROVE It[s] = W[s]
    <3>1. IsFiniteSet(s) /\ s # {}
      BY <1>6, <2>1, FS_EmptySet
    <3>2. pick(s) \in s /\ s \ {pick(s)} \in SUBSET S
      BY <1>2, <3>1
    <3>3. Cardinality(s \ {pick(s)}) = n
      <4>1. Cardinality(s \ {pick(s)}) = Cardinality(s) - 1
        BY <3>1, <3>2, FS_RemoveElement
      <4> QED  BY <2>1, <4>1
    <3>4. It[s \ {pick(s)}] = W[s \ {pick(s)}]
      BY <1>8, <3>2, <3>3
    <3>5. It[s] = (r[pick(s)] - b) + It[s \ {pick(s)}]
      BY <1>5, <3>1
    <3> QED  BY <1>3, <3>1, <3>4, <3>5
  <2> QED  BY <2>1
<1>9. Cardinality(S) \in Nat
  BY <1>6, FS_CardinalityType
<1> HIDE DEF A
<1>10. Cardinality(S) \in A
  BY <1>7, <1>8, <1>9, UpTo
<1>11. It[S] = W[S]
  BY <1>10 DEF A
<1> QED  BY <1>1, <1>11

\* What the proofs need of a sum: it is a number, and any CPU can be counted first.
LEMMA ExcessOfNone ==
    ASSUME NEW r \in [Cpus -> Int], NEW b \in Int
    PROVE  Excess(r, b, {}) = 0
<1>1. [c \in Cpus |-> r[c] - b] \in [Cpus -> Int]
  OBVIOUS
<1>2. PICK W : Sums(W, [c \in Cpus |-> r[c] - b])
  BY <1>1, SumsExist
<1>3. Excess(r, b, {}) = W[{}]
  BY <1>2, ExcessIs
<1> QED  BY <1>2, <1>3 DEF Sums

LEMMA ExcessInt ==
    ASSUME NEW r \in [Cpus -> Int], NEW b \in Int, NEW S \in SUBSET Cpus
    PROVE  Excess(r, b, S) \in Int
<1>1. [c \in Cpus |-> r[c] - b] \in [Cpus -> Int]
  OBVIOUS
<1>2. PICK W : Sums(W, [c \in Cpus |-> r[c] - b])
  BY <1>1, SumsExist
<1>3. Excess(r, b, S) = W[S]
  BY <1>2, ExcessIs
<1>4. W \in [SUBSET Cpus -> Int]
  BY <1>2 DEF Sums
<1> QED  BY <1>3, <1>4

\* x counted first.
First(x, r, b, S) == Excess(r, b, S) = (r[x] - b) + Excess(r, b, S \ {x})

LEMMA ExcessPart ==
    ASSUME NEW r \in [Cpus -> Int], NEW b \in Int, NEW S \in SUBSET Cpus, NEW x \in S
    PROVE  First(x, r, b, S)
<1> DEFINE f == [c \in Cpus |-> r[c] - b]
<1>1. f \in [Cpus -> Int] /\ f[x] = r[x] - b
  OBVIOUS
<1>2. PICK W : Sums(W, f)
  BY <1>1, SumsExist
<1>3. Excess(r, b, S) = W[S] /\ Excess(r, b, S \ {x}) = W[S \ {x}]
  BY <1>2, ExcessIs, S \ {x} \in SUBSET Cpus
<1> HIDE DEF f
<1>4. W[S] = f[x] + W[S \ {x}]
  BY <1>2 DEF Sums
<1> QED  BY <1>1, <1>3, <1>4 DEF First

\* The CPUs of a set, one more at a time.
LEMMA OneMore ==
    ASSUME NEW S \in SUBSET Cpus, NEW n \in Nat, NEW r \in [Cpus -> Int], NEW b \in Int
    PROVE  /\ S \cap (1 .. n) \in SUBSET Cpus /\ Excess(r, b, S \cap (1 .. n)) \in Int
           /\ n + 1 \in S => Excess(r, b, S \cap (1 .. n + 1))
                              = (r[n + 1] - b) + Excess(r, b, S \cap (1 .. n))
           /\ n + 1 \notin S => S \cap (1 .. n + 1) = S \cap (1 .. n)
<1> DEFINE P == S \cap (1 .. n)
           Q == S \cap (1 .. n + 1)
<1>1. P \in SUBSET Cpus /\ Q \in SUBSET Cpus
  OBVIOUS
<1>2. n + 1 \in S => n + 1 \in Q /\ Q \ {n + 1} = P
  OBVIOUS
<1>3. n + 1 \notin S => Q = P
  OBVIOUS
<1> HIDE DEF P, Q
<1>4. Excess(r, b, P) \in Int
  BY <1>1, ExcessInt
<1>5. n + 1 \in S => First(n + 1, r, b, Q)
  BY <1>1, <1>2, ExcessPart
<1>6. n + 1 \in S => Excess(r, b, Q) = (r[n + 1] - b) + Excess(r, b, P)
  BY <1>2, <1>5 DEF First
<1> QED  BY <1>1, <1>3, <1>4, <1>6 DEF P, Q

LEMMA AllOf ==
    ASSUME NEW S \in SUBSET Cpus
    PROVE  S \cap (1 .. NCpus) = S /\ S \cap (1 .. 0) = {}
<1>1. \A x \in S : x \in 1 .. NCpus
  BY DEF Cpus
<1>2. 1 .. 0 = {}
  OBVIOUS
<1> QED  BY <1>1, <1>2

\* CPUs that have at least lo beyond b each.
LEMMA ExcessAtLeast ==
    ASSUME NEW r \in [Cpus -> Int], NEW b \in Int, NEW S \in SUBSET Cpus,
           NEW lo \in Int, lo <= 0,
           \A x \in S : lo <= r[x] - b
    PROVE  NCpus * lo <= Excess(r, b, S)
<1> DEFINE sum(n) == Excess(r, b, S \cap (1 .. n))
           A == {n \in Nat : n * lo <= sum(n)}
<1>1. sum(0) = 0
  BY AllOf, ExcessOfNone
<1>2. ASSUME NEW n \in Nat, n < NCpus, n \in A PROVE n + 1 \in A
  <2>1. sum(n) \in Int /\ n * lo <= sum(n)
    BY <1>2, OneMore
  <2>2. (n + 1) * lo = n * lo + lo
    OBVIOUS
  <2>3. n * lo \in Int
    OBVIOUS
  <2> DEFINE nlo == n * lo
             klo == (n + 1) * lo
  <2>4. nlo <= sum(n) /\ klo = nlo + lo
        /\ nlo \in Int
    BY <2>1, <2>2, <2>3
  <2> HIDE DEF nlo, klo
  <2>5. CASE n + 1 \in S
    <3>1. sum(n + 1) = (r[n + 1] - b) + sum(n)
      BY <2>5, OneMore
    <3>2. lo <= r[n + 1] - b /\ r[n + 1] - b \in Int
      BY <2>5
    <3> HIDE DEF sum
    <3>3. klo <= sum(n + 1)
      BY <2>1, <2>4, <3>1, <3>2
    <3> QED  BY <3>3 DEF klo
  <2>6. CASE n + 1 \notin S
    <3>1. sum(n + 1) = sum(n)
      BY <2>6, OneMore
    <3> HIDE DEF sum
    <3>2. klo <= sum(n + 1)
      BY <2>1, <2>4, <3>1
    <3> QED  BY <3>2 DEF klo
  <2> QED  BY <2>5, <2>6
<1>3. 0 \in A
  <2>1. 0 * lo = 0
    OBVIOUS
  <2> QED  BY <1>1, <2>1
<1> HIDE DEF A
<1>4. NCpus \in A
  BY <1>2, <1>3, UpTo, CpusAreSome
<1>5. sum(NCpus) = Excess(r, b, S)
  BY AllOf
<1> QED  BY <1>4, <1>5 DEF A

\* CPUs that have no more than b each.
LEMMA ExcessAtMost ==
    ASSUME NEW r \in [Cpus -> Int], NEW b \in Int, NEW S \in SUBSET Cpus,
           \A x \in S : r[x] <= b
    PROVE  Excess(r, b, S) <= 0
<1> DEFINE sum(n) == Excess(r, b, S \cap (1 .. n))
           A == {n \in Nat : sum(n) <= 0}
<1>1. 0 \in A
  BY AllOf, ExcessOfNone
<1>2. ASSUME NEW n \in Nat, n < NCpus, n \in A PROVE n + 1 \in A
  <2>1. sum(n) \in Int /\ sum(n) <= 0
    BY <1>2, OneMore
  <2>2. CASE n + 1 \in S
    <3>1. sum(n + 1) = (r[n + 1] - b) + sum(n)
      BY <2>2, OneMore
    <3>2. r[n + 1] <= b /\ r[n + 1] \in Int
      BY <2>2
    <3> HIDE DEF sum
    <3> QED  BY <2>1, <3>1, <3>2
  <2>3. CASE n + 1 \notin S
    BY <1>2, <2>3, OneMore
  <2> QED  BY <2>2, <2>3
<1> HIDE DEF A
<1>3. NCpus \in A
  BY <1>1, <1>2, UpTo, CpusAreSome
<1>4. sum(NCpus) = Excess(r, b, S)
  BY AllOf
<1> QED  BY <1>3, <1>4 DEF A

LEMMA ExcessZero ==
    ASSUME NEW r \in [Cpus -> Int], NEW b \in Int, NEW S \in SUBSET Cpus,
           \A x \in S : r[x] = b
    PROVE  Excess(r, b, S) = 0
<1>1. \A x \in S : r[x] <= b /\ 0 <= r[x] - b
  OBVIOUS
<1>2. Excess(r, b, S) <= 0
  BY <1>1, ExcessAtMost
<1>3. NCpus * 0 <= Excess(r, b, S)
  BY <1>1, ExcessAtLeast
<1>4. NCpus * 0 = 0
  BY CpusAreSome
<1> QED  BY <1>2, <1>3, <1>4, ExcessInt

\* A sum depends on what the CPUs of its set have and on nothing else.
LEMMA ExcessSame ==
    ASSUME NEW r \in [Cpus -> Int], NEW q \in [Cpus -> Int], NEW b \in Int,
           NEW S \in SUBSET Cpus, \A x \in S : r[x] = q[x]
    PROVE  Excess(r, b, S) = Excess(q, b, S)
<1> DEFINE sum(n) == Excess(r, b, S \cap (1 .. n))
           tot(n) == Excess(q, b, S \cap (1 .. n))
           A == {n \in Nat : sum(n) = tot(n)}
<1>1. 0 \in A
  BY AllOf, ExcessOfNone
<1>2. ASSUME NEW n \in Nat, n < NCpus, n \in A PROVE n + 1 \in A
  <2>1. CASE n + 1 \in S
    <3>1. sum(n + 1) = (r[n + 1] - b) + sum(n) /\ tot(n + 1) = (q[n + 1] - b) + tot(n)
      BY <2>1, OneMore
    <3> QED  BY <1>2, <2>1, <3>1
  <2>2. CASE n + 1 \notin S
    BY <1>2, <2>2, OneMore
  <2> QED  BY <2>1, <2>2
<1> HIDE DEF A
<1>3. NCpus \in A
  BY <1>1, <1>2, UpTo, CpusAreSome
<1>4. sum(NCpus) = Excess(r, b, S) /\ tot(NCpus) = Excess(q, b, S)
  BY AllOf
<1> QED  BY <1>3, <1>4 DEF A

\* One CPU of the set has another runtime.
LEMMA ExcessChange ==
    ASSUME NEW r \in [Cpus -> Int], NEW q \in [Cpus -> Int], NEW b \in Int,
           NEW S \in SUBSET Cpus, NEW y \in S, \A x \in S : x # y => q[x] = r[x]
    PROVE  Excess(q, b, S) = Excess(r, b, S) + (q[y] - r[y])
<1>1. First(y, r, b, S) /\ First(y, q, b, S)
  BY ExcessPart
<1>2. /\ Excess(r, b, S) = (r[y] - b) + Excess(r, b, S \ {y})
      /\ Excess(q, b, S) = (q[y] - b) + Excess(q, b, S \ {y})
  BY <1>1 DEF First
<1>3. S \ {y} \in SUBSET Cpus /\ \A x \in S \ {y} : q[x] = r[x]
  OBVIOUS
<1>4. Excess(q, b, S \ {y}) = Excess(r, b, S \ {y}) /\ Excess(r, b, S \ {y}) \in Int
  BY <1>3, ExcessSame, ExcessInt
<1>5. r[y] \in Int /\ q[y] \in Int
  OBVIOUS
<1> QED  BY <1>2, <1>4, <1>5

\* What goes from one CPU of the set to another leaves the sum as it is.
LEMMA ExcessMoved ==
    ASSUME NEW r \in [Cpus -> Int], NEW q \in [Cpus -> Int], NEW b \in Int,
           NEW S \in SUBSET Cpus, NEW y \in S, NEW z \in S, y # z,
           \A x \in S : x # y /\ x # z => q[x] = r[x], q[y] + q[z] = r[y] + r[z]
    PROVE  Excess(q, b, S) = Excess(r, b, S)
<1> DEFINE m == [r EXCEPT ![y] = q[y]]
<1>1. m \in [Cpus -> Int] /\ m[y] = q[y] /\ m[z] = r[z] /\ \A x \in S : x # y => m[x] = r[x]
  OBVIOUS
<1>2. \A x \in S : x # z => q[x] = m[x]
  BY <1>1
<1> HIDE DEF m
<1>3. Excess(m, b, S) = Excess(r, b, S) + (m[y] - r[y])
  BY <1>1, ExcessChange
<1>4. Excess(q, b, S) = Excess(m, b, S) + (q[z] - m[z])
  BY <1>1, <1>2, ExcessChange
<1>5. Excess(r, b, S) \in Int /\ r[y] \in Int /\ r[z] \in Int /\ q[y] \in Int /\ q[z] \in Int
  BY ExcessInt
<1> QED  BY <1>1, <1>3, <1>4, <1>5

(***************************************************************************)
(* do_balance_runtime.                                                     *)
(***************************************************************************)
Runtime == Nat \cup {RUNTIME_INF}

LEMMA InfIsInt ==
    /\ RUNTIME_INF \in Int /\ RUNTIME_INF \notin Nat /\ Runtime \subseteq Int
    /\ \A r \in [Cpus -> Runtime] : r \in [Cpus -> Int]
<1>1. RUNTIME_INF \in Int /\ RUNTIME_INF \notin Nat
  BY DEF RUNTIME_INF
<1>2. Runtime \subseteq Int
  BY <1>1 DEF Runtime
<1>3. ASSUME NEW r \in [Cpus -> Runtime] PROVE r \in [Cpus -> Int]
  BY <1>2
<1> QED  BY <1>1, <1>2, <1>3

\* The same run queues are enabled.
SameInf(q, r) == \A x \in Cpus : q[x] = RUNTIME_INF <=> r[x] = RUNTIME_INF

LEMMA Share ==
    ASSUME NEW a \in Nat, NEW k \in Nat, k >= 1
    PROVE  a \div k \in Nat /\ a \div k <= a
<1> DEFINE s == a \div k
<1>1. s \in Int /\ a >= k * s /\ a < k * s + k
  OBVIOUS
<1> HIDE DEF s
<1>2. s >= 0
  <2>1. SUFFICES ASSUME s <= 0 - 1 PROVE FALSE
    BY <1>1
  <2>2. k * s <= 0 - k
    BY <1>1, <2>1
  <2> QED  BY <1>1, <2>2
<1>3. k * s >= s
  BY <1>1, <1>2
<1>4. k * s \in Int
  BY <1>1
<1> QED  BY <1>1, <1>2, <1>3, <1>4 DEF s

\* What one CPU lends, c gets (or gives, if it has more than a period); none of the two is
\* below zero after that.
Lent(q, r, i, c, d) ==
    \/ q = r
    \/ /\ i # c /\ i \in span(d) /\ r[i] # RUNTIME_INF
       /\ q \in [Cpus -> Runtime] /\ q[i] \in Nat /\ q[c] \in Nat /\ q[i] + q[c] = r[i] + r[c]
       /\ \A x \in Cpus : x # i /\ x # c => q[x] = r[x]

LEMMA LendStep ==
    ASSUME NEW r \in [Cpus -> Runtime], rt_time \in [Cpus -> Nat],
           NEW i \in Cpus, NEW c \in Cpus, NEW d, r[c] # RUNTIME_INF
    PROVE  Lent(Lend(r, i, c, d), r, i, c, d)
<1> DEFINE spare == r[i] - rt_time[i]
           part  == spare \div Cardinality(span(d))
           diff  == Least(part, Period - r[c])
           q     == [r EXCEPT ![i] = @ - diff, ![c] = @ + diff]
<1>1. CASE i = c \/ i \notin span(d) \/ r[i] = RUNTIME_INF \/ spare <= 0 \/ r[c] = Period
  BY <1>1 DEF Lend, Lent
<1>2. CASE ~(i = c \/ i \notin span(d) \/ r[i] = RUNTIME_INF \/ spare <= 0 \/ r[c] = Period)
  <2>1. Lend(r, i, c, d) = q
    BY <1>2 DEF Lend
  <2>2. /\ i # c /\ i \in span(d) /\ r[i] # RUNTIME_INF
        /\ r[i] \in Nat /\ r[c] \in Nat /\ rt_time[i] \in Nat /\ Period \in Nat
    BY <1>2, CpusAreSome DEF Runtime
  <2>3. spare \in Nat /\ spare <= r[i]
    BY <1>2, <2>2
  <2>4. part \in Nat /\ part <= spare
    BY <2>2, <2>3, SpanCounts, Share
  <2> HIDE DEF part
  <2> HIDE DEF spare
  <2>5. diff \in Int /\ r[i] - diff \in Nat /\ r[c] + diff \in Nat
    BY <2>2, <2>3, <2>4 DEF Least
  <2> HIDE DEF diff
  <2>6. /\ q[i] = r[i] - diff /\ q[c] = r[c] + diff
        /\ \A x \in Cpus : x # i /\ x # c => q[x] = r[x]
    BY <2>2
  <2>7. q \in [Cpus -> Runtime]
    BY <2>5 DEF Runtime
  <2> HIDE DEF q
  <2>8. q[i] + q[c] = r[i] + r[c]
    BY <2>2, <2>5, <2>6
  <2> QED  BY <2>1, <2>2, <2>5, <2>6, <2>7, <2>8 DEF Lent
<1> QED  BY <1>1, <1>2

\* Runtimes q, after some of the CPUs up to n have lent to c: nobody else's are other
\* than they were, and sums over sets that hold all who may have lent, and c, are the same.
LentUpTo(q, n, c, d) ==
    /\ q \in [Cpus -> Runtime] /\ SameInf(q, rt_runtime)
    /\ \A x \in Cpus : x # c /\ (x > n \/ x \notin span(d) \/ rt_runtime[x] = RUNTIME_INF)
                         => q[x] = rt_runtime[x]
    /\ \A H \in SUBSET Cpus : \A b \in Int :
           c \in H /\ {x \in span(d) : rt_runtime[x] # RUNTIME_INF} \subseteq H
               => Excess(q, b, H) = Excess(rt_runtime, b, H)

LEMMA LentUpToStep ==
    ASSUME rt_runtime \in [Cpus -> Runtime], NEW c \in Cpus, NEW d,
           rt_runtime[c] # RUNTIME_INF,
           NEW i \in Cpus, NEW r, NEW q, LentUpTo(r, i - 1, c, d), Lent(q, r, i, c, d)
    PROVE  LentUpTo(q, i, c, d)
<1>1. /\ r \in [Cpus -> Runtime] /\ i \in Int /\ SameInf(r, rt_runtime)
      /\ \A x \in Cpus : x # c /\ (x > i - 1 \/ x \notin span(d) \/ rt_runtime[x] = RUNTIME_INF)
                           => r[x] = rt_runtime[x]
  BY CpusAreSome DEF LentUpTo, Cpus
<1>2. \A x \in Cpus : x \in Int
  BY CpusAreSome DEF Cpus
<1>3. CASE q = r
  <2>1. \A x \in Cpus : x > i => x > i - 1
    BY <1>1, <1>2
  <2> QED  BY <1>3, <2>1 DEF LentUpTo
<1>4. CASE q # r
  <2>1. /\ i # c /\ i \in span(d) /\ r[i] # RUNTIME_INF
        /\ q \in [Cpus -> Runtime] /\ q[i] \in Nat /\ q[c] \in Nat /\ q[i] + q[c] = r[i] + r[c]
        /\ \A x \in Cpus : x # i /\ x # c => q[x] = r[x]
    BY <1>4 DEF Lent
  <2>2. i > i - 1 /\ r[i] = rt_runtime[i] /\ rt_runtime[i] # RUNTIME_INF
    BY <1>1, <2>1
  <2>3. ASSUME NEW x \in Cpus, x # c,
               x > i \/ x \notin span(d) \/ rt_runtime[x] = RUNTIME_INF
        PROVE  q[x] = rt_runtime[x]
    <3>1. x # i
      BY <1>1, <1>2, <2>1, <2>2, <2>3
    <3>2. x > i => x > i - 1
      BY <1>1, <1>2
    <3> QED  BY <1>1, <2>1, <2>3, <3>1, <3>2
  <2>4. ASSUME NEW H \in SUBSET Cpus, NEW b \in Int, c \in H,
               {x \in span(d) : rt_runtime[x] # RUNTIME_INF} \subseteq H
        PROVE  Excess(q, b, H) = Excess(rt_runtime, b, H)
    <3>1. i \in H /\ c \in H /\ i # c
      BY <2>1, <2>2, <2>4
    <3>2. q \in [Cpus -> Int] /\ r \in [Cpus -> Int]
      BY <1>1, <2>1, InfIsInt
    <3>3. \A x \in H : x # i /\ x # c => q[x] = r[x]
      BY <2>1
    <3>4. Excess(q, b, H) = Excess(r, b, H)
      BY <2>1, <3>1, <3>2, <3>3, ExcessMoved
    <3>5. Excess(r, b, H) = Excess(rt_runtime, b, H)
      BY <2>4 DEF LentUpTo
    <3> QED  BY <3>4, <3>5
  <2>5. SameInf(q, rt_runtime)
    <3>1. q[i] # RUNTIME_INF /\ q[c] # RUNTIME_INF
      BY <2>1, InfIsInt
    <3> QED  BY <1>1, <2>1, <2>2, <3>1 DEF SameInf
  <2> QED  BY <2>1, <2>3, <2>4, <2>5 DEF LentUpTo
<1> QED  BY <1>3, <1>4

LEMMA Balanced ==
    ASSUME rt_runtime \in [Cpus -> Runtime], rt_time \in [Cpus -> Nat],
           NEW c \in Cpus, NEW d, rt_runtime[c] # RUNTIME_INF
    PROVE  LentUpTo(do_balance_runtime(c, d), NCpus, c, d)
<1>1. rt_runtime \in [Cpus -> Int] /\ rt_time \in [Cpus -> Int]
  BY InfIsInt
<1>2. PICK g \in [0 .. NCpus -> [Cpus -> Int]] :
          /\ g[0] = rt_runtime /\ g[NCpus] = do_balance_runtime(c, d)
          /\ \A i \in Cpus : g[i] = Lend(g[i - 1], i, c, d)
  BY <1>1, BalanceLoop
<1> DEFINE A == {n \in Nat : LentUpTo(g[n], n, c, d)}
<1>3. 0 \in A
  BY <1>2 DEF LentUpTo, SameInf
<1>4. ASSUME NEW n \in Nat, n < NCpus, n \in A PROVE n + 1 \in A
  <2> DEFINE i == n + 1
  <2>1. i \in Cpus /\ i - 1 = n
    BY <1>4, CpusAreSome DEF Cpus
  <2>2. LentUpTo(g[n], n, c, d)
    BY <1>4
  <2>3. g[n] \in [Cpus -> Runtime] /\ g[n][c] # RUNTIME_INF
    BY <2>2 DEF LentUpTo, SameInf
  <2> HIDE DEF i
  <2>4. g[i] = Lend(g[n], i, c, d)
    BY <1>2, <2>1
  <2>5. Lent(g[i], g[n], i, c, d)
    BY <2>1, <2>3, <2>4, LendStep
  <2>6. LentUpTo(g[n], i - 1, c, d)
    BY <2>1, <2>2
  <2>7. LentUpTo(g[i], i, c, d)
    BY <2>1, <2>5, <2>6, LentUpToStep
  <2> QED  BY <2>7 DEF i
<1> HIDE DEF A
<1>5. NCpus \in A
  BY <1>3, <1>4, UpTo, CpusAreSome
<1> QED  BY <1>2, <1>5 DEF A

(***************************************************************************)
(* __disable_runtime.                                                      *)
(***************************************************************************)
\* The CPUs that c takes back from or gives to.
Others(c) == {x \in span(rd[c]) : x # c /\ rt_runtime[x] # RUNTIME_INF}

\* What c takes from one, it wants no more; it takes no more than there is, and what it
\* has too much the first one gets.
Took(t, s, i, c) ==
    \/ t = s /\ (i = c \/ i \notin span(rd[c]) \/ s.r[i] = RUNTIME_INF)
    \/ /\ i # c /\ i \in span(rd[c]) /\ s.r[i] # RUNTIME_INF
       /\ t.r \in [Cpus -> Runtime] /\ t.r[i] \in Nat /\ t.want \in Int
       /\ t.r[i] - s.r[i] = t.want - s.want
       /\ \A x \in Cpus : x # i => t.r[x] = s.r[x]
       /\ s.want <= 0 => t.want = 0
       /\ t.want >= 0
       /\ t.want > 0 => t.r[i] = 0

LEMMA TakeStep ==
    ASSUME NEW s \in [r : [Cpus -> Runtime], want : Int], NEW i \in Cpus, NEW c \in Cpus
    PROVE  Took(Take(s, i, c), s, i, c)
<1> DEFINE diff == IF s.want > 0 THEN Least(s.r[i], s.want) ELSE s.want
           q == [s.r EXCEPT ![i] = @ - diff]
           t == [r |-> q, want |-> s.want - diff]
<1>1. CASE i = c \/ i \notin span(rd[c]) \/ s.r[i] = RUNTIME_INF
  BY <1>1 DEF Take, Took
<1>2. CASE ~(i = c \/ i \notin span(rd[c]) \/ s.r[i] = RUNTIME_INF)
  <2>1. Take(s, i, c) = t
    BY <1>2 DEF Take
  <2>2. s.r \in [Cpus -> Runtime] /\ s.want \in Int /\ s.r[i] \in Nat
    BY <1>2 DEF Runtime
  <2>3. /\ diff \in Int /\ s.r[i] - diff \in Nat
        /\ s.want <= 0 => s.want - diff = 0
        /\ s.want - diff >= 0
        /\ s.want - diff > 0 => s.r[i] - diff = 0
    BY <2>2 DEF Least
  <2> HIDE DEF diff
  <2>4. /\ q \in [Cpus -> Runtime] /\ q[i] = s.r[i] - diff
        /\ \A x \in Cpus : x # i => q[x] = s.r[x]
    BY <2>2, <2>3 DEF Runtime
  <2>5. t.r = q /\ t.want = s.want - diff
    OBVIOUS
  <2> HIDE DEF q, t
  <2>6. t.r[i] - s.r[i] = t.want - s.want
    BY <2>2, <2>3, <2>4, <2>5
  <2>7. Took(t, s, i, c)
    BY <1>2, <2>2, <2>3, <2>4, <2>5, <2>6 DEF Took
  <2> QED  BY <2>1, <2>7
<1> QED  BY <1>1, <1>2

\* The CPUs up to n have been asked.  If something is still wanted they have nothing
\* left; if there is still something to give, none of them could take it.
TookUpTo(s, n, c) ==
    /\ s.r \in [Cpus -> Runtime] /\ s.want \in Int /\ SameInf(s.r, rt_runtime)
    /\ \A x \in Cpus : (x > n \/ x \notin Others(c)) => s.r[x] = rt_runtime[x]
    /\ \A H \in SUBSET Cpus : \A b \in Int :
           Others(c) \subseteq H
               => Excess(s.r, b, H) - s.want
                   = Excess(rt_runtime, b, H) - (b_runtime - rt_runtime[c])
    /\ s.want > 0 => \A x \in Others(c) : x <= n => s.r[x] = 0
    /\ s.want < 0 => \A x \in Others(c) : x > n

LEMMA TookUpToStep ==
    ASSUME rt_runtime \in [Cpus -> Runtime], b_runtime \in Nat, NEW c \in Cpus,
           NEW i \in Cpus, NEW s, NEW t, TookUpTo(s, i - 1, c), Took(t, s, i, c)
    PROVE  TookUpTo(t, i, c)
<1>1. /\ s.r \in [Cpus -> Runtime] /\ s.want \in Int /\ i \in Int /\ SameInf(s.r, rt_runtime)
      /\ \A x \in Cpus : (x > i - 1 \/ x \notin Others(c)) => s.r[x] = rt_runtime[x]
  BY CpusAreSome DEF TookUpTo, Cpus
<1>2. Others(c) \in SUBSET Cpus /\ \A x \in Cpus : x \in Int
  BY CpusAreSome DEF Cpus, Others, span
<1>3. i > i - 1 /\ s.r[i] = rt_runtime[i]
  BY <1>1
<1>4. /\ \A x \in Cpus : x > i => x > i - 1
      /\ \A x \in Cpus : x # i /\ x <= i => x <= i - 1
      /\ \A x \in Cpus : x # i /\ x > i - 1 => x > i
  BY <1>1, <1>2
<1>5. CASE t = s /\ (i = c \/ i \notin span(rd[c]) \/ s.r[i] = RUNTIME_INF)
  <2>1. i \notin Others(c)
    BY <1>3, <1>5 DEF Others
  <2>2. s.want > 0 => \A x \in Others(c) : x <= i => s.r[x] = 0
    <3>1. s.want > 0 => \A x \in Others(c) : x <= i - 1 => s.r[x] = 0
      BY DEF TookUpTo
    <3> QED  BY <1>2, <1>4, <2>1, <3>1
  <2>3. s.want < 0 => \A x \in Others(c) : x > i
    <3>1. s.want < 0 => \A x \in Others(c) : x > i - 1
      BY DEF TookUpTo
    <3> QED  BY <1>2, <1>4, <2>1, <3>1
  <2>4. \A x \in Cpus : (x > i \/ x \notin Others(c)) => s.r[x] = rt_runtime[x]
    BY <1>1, <1>4
  <2>5. t = s
    BY <1>5
  <2> QED  BY <1>1, <2>2, <2>3, <2>4, <2>5 DEF TookUpTo
<1>6. CASE ~(t = s /\ (i = c \/ i \notin span(rd[c]) \/ s.r[i] = RUNTIME_INF))
  <2>1. /\ i # c /\ i \in span(rd[c]) /\ s.r[i] # RUNTIME_INF
        /\ t.r \in [Cpus -> Runtime] /\ t.r[i] \in Nat /\ t.want \in Int
        /\ t.r[i] - s.r[i] = t.want - s.want
        /\ \A x \in Cpus : x # i => t.r[x] = s.r[x]
        /\ s.want <= 0 => t.want = 0
        /\ t.want >= 0
        /\ t.want > 0 => t.r[i] = 0
    BY <1>6 DEF Took
  <2>2. i \in Others(c)
    BY <1>3, <2>1 DEF Others
  <2>3. ASSUME NEW x \in Cpus, x > i \/ x \notin Others(c) PROVE t.r[x] = rt_runtime[x]
    <3>1. x # i
      BY <1>1, <1>2, <2>2, <2>3
    <3> QED  BY <1>1, <1>4, <2>1, <2>3, <3>1
  <2>4. ASSUME NEW H \in SUBSET Cpus, NEW b \in Int, Others(c) \subseteq H
        PROVE  Excess(t.r, b, H) - t.want
                = Excess(rt_runtime, b, H) - (b_runtime - rt_runtime[c])
    <3> DEFINE q == t.r
               p == s.r
               new == Excess(q, b, H)
               old == Excess(p, b, H)
    <3>1. i \in H /\ q \in [Cpus -> Int] /\ p \in [Cpus -> Int]
      BY <1>1, <2>1, <2>2, <2>4, InfIsInt
    <3>2. \A x \in H : x # i => q[x] = p[x]
      BY <2>1
    <3> HIDE DEF q, p
    <3>3. new = old + (q[i] - p[i]) /\ old \in Int
      BY <3>1, <3>2, ExcessChange, ExcessInt
    <3>4. q[i] - p[i] = t.want - s.want /\ q[i] \in Int /\ p[i] \in Int
      BY <2>1, <3>1 DEF q, p
    <3>5. old - s.want = Excess(rt_runtime, b, H) - (b_runtime - rt_runtime[c])
      BY <2>4 DEF TookUpTo, p
    <3> HIDE DEF new, old
    <3>6. new - t.want = old - s.want
      BY <1>1, <2>1, <3>3, <3>4
    <3> QED  BY <3>5, <3>6 DEF new, q
  <2>5. t.want > 0 => \A x \in Others(c) : x <= i => t.r[x] = 0
    <3>1. SUFFICES ASSUME t.want > 0, NEW x \in Others(c), x <= i PROVE t.r[x] = 0
      OBVIOUS
    <3>2. CASE x = i
      BY <2>1, <3>1, <3>2
    <3>3. CASE x # i
      <4>1. x \in Cpus /\ x <= i - 1 /\ t.r[x] = s.r[x]
        BY <1>2, <1>4, <2>1, <3>1, <3>3
      <4>2. s.want > 0
        BY <1>1, <2>1, <3>1
      <4> QED  BY <3>1, <4>1, <4>2 DEF TookUpTo
    <3> QED  BY <3>2, <3>3
  <2>6. ~(t.want < 0)
    BY <2>1
  <2>7. SameInf(t.r, rt_runtime)
    <3>1. t.r[i] # RUNTIME_INF
      BY <2>1, InfIsInt
    <3> QED  BY <1>1, <1>3, <2>1, <3>1 DEF SameInf
  <2> QED  BY <2>1, <2>3, <2>4, <2>5, <2>6, <2>7 DEF TookUpTo
<1> QED  BY <1>5, <1>6

\* Everybody has been asked, and c is left with RUNTIME_INF: what the others have beyond
\* b each is what c and they had, but for what is still wanted.
Reclaimed(out, c) ==
    /\ out.r \in [Cpus -> Runtime] /\ out.want \in Int /\ out.r[c] = RUNTIME_INF
    /\ \A x \in Cpus : x # c => (out.r[x] = RUNTIME_INF <=> rt_runtime[x] = RUNTIME_INF)
    /\ \A x \in Cpus : x # c /\ x \notin Others(c) => out.r[x] = rt_runtime[x]
    /\ \A H \in SUBSET Cpus : \A b \in Int :
           Others(c) \subseteq H /\ c \notin H
               => Excess(out.r, b, H) - out.want
                   = Excess(rt_runtime, b, H) - (b_runtime - rt_runtime[c])
    /\ out.want > 0 => \A x \in Others(c) : out.r[x] = 0
    /\ out.want < 0 => Others(c) = {}

LEMMA Disabled ==
    ASSUME rt_runtime \in [Cpus -> Runtime], b_runtime \in Nat, NEW c \in Cpus,
           rt_runtime[c] # RUNTIME_INF
    PROVE  Reclaimed(Disable(c), c)
<1>1. rt_runtime \in [Cpus -> Int] /\ b_runtime \in Int
  BY InfIsInt
<1>2. PICK g \in [0 .. NCpus -> Taken] :
          /\ g[0] = [r |-> rt_runtime, want |-> b_runtime - rt_runtime[c]]
          /\ Disable(c) = [g[NCpus] EXCEPT !.r[c] = RUNTIME_INF]
          /\ \A i \in Cpus : g[i] = Take(g[i - 1], i, c)
  BY <1>1, DisableLoop
<1>3. Others(c) \in SUBSET Cpus /\ c \notin Others(c) /\ \A x \in Cpus : x \in 1 .. NCpus
  BY DEF Cpus, Others, span
<1> DEFINE A == {n \in Nat : TookUpTo(g[n], n, c)}
<1>4. 0 \in A
  <2>1. g[0].r = rt_runtime /\ g[0].want = b_runtime - rt_runtime[c]
    BY <1>2
  <2>2. \A x \in Others(c) : x > 0 /\ ~(x <= 0)
    BY <1>3
  <2>3. TookUpTo(g[0], 0, c)
    BY <1>1, <2>1, <2>2 DEF TookUpTo, SameInf
  <2> QED  BY <2>3
<1>5. ASSUME NEW n \in Nat, n < NCpus, n \in A PROVE n + 1 \in A
  <2> DEFINE i == n + 1
  <2>1. i \in Cpus /\ i - 1 = n /\ n \in 0 .. NCpus
    BY <1>5, CpusAreSome DEF Cpus
  <2>2. TookUpTo(g[n], n, c)
    BY <1>5
  <2>3. g[n] \in [r : [Cpus -> Runtime], want : Int]
    <3>1. g[n] \in Taken
      BY <1>2, <2>1
    <3> QED  BY <2>2, <3>1 DEF Taken, TookUpTo
  <2> HIDE DEF i
  <2>4. g[i] = Take(g[n], i, c)
    BY <1>2, <2>1
  <2>5. Took(g[i], g[n], i, c)
    BY <2>1, <2>3, <2>4, TakeStep
  <2>6. TookUpTo(g[n], i - 1, c)
    BY <2>1, <2>2
  <2>7. TookUpTo(g[i], i, c)
    BY <2>1, <2>5, <2>6, TookUpToStep
  <2> QED  BY <2>7 DEF i
<1> HIDE DEF A
<1>6. NCpus \in A
  BY <1>4, <1>5, UpTo, CpusAreSome
<1> DEFINE s == g[NCpus]
           out == Disable(c)
<1>7. TookUpTo(s, NCpus, c)
  BY <1>6 DEF A
<1>8. s \in Taken
  BY <1>2, CpusAreSome
<1>9. s.r \in [Cpus -> Runtime] /\ SameInf(s.r, rt_runtime)
  BY <1>7 DEF TookUpTo
<1>10. out = [s EXCEPT !.r[c] = RUNTIME_INF]
  BY <1>2
<1> HIDE DEF s, out
<1>11. /\ out.want = s.want /\ out.r = [s.r EXCEPT ![c] = RUNTIME_INF]
  BY <1>8, <1>10 DEF Taken
<1>12. /\ out.r \in [Cpus -> Runtime] /\ out.r[c] = RUNTIME_INF
       /\ \A x \in Cpus : x # c => out.r[x] = s.r[x]
       /\ \A x \in Cpus : x # c => (out.r[x] = RUNTIME_INF <=> rt_runtime[x] = RUNTIME_INF)
  BY <1>9, <1>11 DEF Runtime, SameInf
<1>13. ASSUME NEW x \in Cpus, x # c, x \notin Others(c) PROVE out.r[x] = rt_runtime[x]
  BY <1>7, <1>12, <1>13 DEF TookUpTo
<1>14. ASSUME NEW H \in SUBSET Cpus, NEW b \in Int, Others(c) \subseteq H, c \notin H
       PROVE  Excess(out.r, b, H) - out.want
               = Excess(rt_runtime, b, H) - (b_runtime - rt_runtime[c])
  <2>1. \A x \in H : out.r[x] = s.r[x]
    BY <1>12, <1>14
  <2>2. out.r \in [Cpus -> Int] /\ s.r \in [Cpus -> Int]
    BY <1>9, <1>12, InfIsInt
  <2>3. Excess(out.r, b, H) = Excess(s.r, b, H)
    BY <2>1, <2>2, ExcessSame
  <2>4. Excess(s.r, b, H) - s.want = Excess(rt_runtime, b, H) - (b_runtime - rt_runtime[c])
    BY <1>7, <1>14 DEF TookUpTo
  <2> QED  BY <1>11, <2>3, <2>4
<1>15. out.want > 0 => \A x \in Others(c) : out.r[x] = 0
  <2>1. s.want > 0 => \A x \in Others(c) : x <= NCpus => s.r[x] = 0
    BY <1>7 DEF TookUpTo
  <2>2. \A x \in Others(c) : x <= NCpus /\ x # c /\ x \in Cpus
    BY <1>3
  <2> QED  BY <1>11, <1>12, <2>1, <2>2
<1>16. out.want < 0 => Others(c) = {}
  <2>1. s.want < 0 => \A x \in Others(c) : x > NCpus
    BY <1>7 DEF TookUpTo
  <2>2. \A x \in Others(c) : ~(x > NCpus)
    BY <1>3, CpusAreSome
  <2> QED  BY <1>11, <2>1, <2>2
<1>17. out.want \in Int
  BY <1>7, <1>11 DEF TookUpTo
<1> QED  BY <1>12, <1>13, <1>14, <1>15, <1>16, <1>17 DEF Reclaimed, out

(***************************************************************************)
(* Accounts.                                                               *)
(***************************************************************************)
Held(r, S)   == {c \in S : r[c] # RUNTIME_INF}
In(home, d)  == {c \in Cpus : home[c] = d}
Has(r, b, S) == Excess(r, b, Held(r, S))

\* Every root domain for itself has what it was given, and what it drifted from that.
Accounts(r, b, home, off) == \A d \in Domains : Has(r, b, In(home, d)) = off[d]

LEMMA InSpan == \A d : In(rd, d) = span(d)
  BY DEF In, span

LEMMA HeldSame ==
    ASSUME NEW q, NEW r, SameInf(q, r)
    PROVE  \A S \in SUBSET Cpus : Held(q, S) = Held(r, S)
  BY DEF Held, SameInf

\* The drifts when domain `to` gets something from domain `from`.
Shifted(off, from, to, got) ==
    [d \in Domains |-> off[d] + (IF d = to THEN got ELSE 0) - (IF d = from THEN got ELSE 0)]

LEMMA ShiftedValues ==
    ASSUME NEW off \in [Domains -> Int], NEW from \in Domains, NEW to \in Domains, NEW got \in Int
    PROVE  /\ Shifted(off, from, to, got) \in [Domains -> Int]
           /\ from = to => Shifted(off, from, to, got)[from] = off[from]
           /\ from # to => /\ Shifted(off, from, to, got)[from] = off[from] - got
                           /\ Shifted(off, from, to, got)[to] = off[to] + got
           /\ \A e \in Domains :
                  e # from /\ e # to => Shifted(off, from, to, got)[e] = off[e]
<1> DEFINE new == Shifted(off, from, to, got)
<1>1. \A e \in Domains : off[e] \in Int
  OBVIOUS
<1>2. \A e \in Domains : new[e] = off[e] + (IF e = to THEN got ELSE 0)
                                       - (IF e = from THEN got ELSE 0)
  BY DEF Shifted
<1>3. \A e \in Domains : new[e] \in Int
  BY <1>1, <1>2
<1>4. new = [e \in Domains |-> new[e]]
  BY DEF Shifted
<1> HIDE DEF new
<1>5. new \in [Domains -> Int]
  BY <1>3, <1>4
<1>6. /\ from = to => new[from] = off[from]
      /\ from # to => new[from] = off[from] - got /\ new[to] = off[to] + got
      /\ \A e \in Domains : e # from /\ e # to => new[e] = off[e]
  BY <1>1, <1>2
<1> QED  BY <1>5, <1>6 DEF new

\* What is borrowed within a domain stays in it; what is borrowed from another one is won by
\* the one and lost by the other.
LEMMA AccountsBalanced ==
    ASSUME rt_runtime \in [Cpus -> Runtime], rt_time \in [Cpus -> Nat], NEW c \in Cpus,
           NEW d \in Domains, rd \in [Cpus -> Domains], NEW b \in Nat,
           rt_runtime[c] # RUNTIME_INF, NEW off \in [Domains -> Int],
           Accounts(rt_runtime, b, rd, off),
           NEW q, q = do_balance_runtime(c, d),
           NEW got, got = q[c] - rt_runtime[c]
    PROVE  Accounts(q, b, rd, Shifted(off, d, rd[c], got))
<1>1. LentUpTo(q, NCpus, c, d)
  BY Balanced
<1>2. /\ q \in [Cpus -> Int] /\ rt_runtime \in [Cpus -> Int] /\ SameInf(q, rt_runtime)
      /\ \A x \in Cpus : x # c /\ (x \notin span(d) \/ rt_runtime[x] = RUNTIME_INF)
                           => q[x] = rt_runtime[x]
      /\ \A H \in SUBSET Cpus :
             c \in H /\ Held(rt_runtime, span(d)) \subseteq H
                 => Excess(q, b, H) = Excess(rt_runtime, b, H)
  BY <1>1, InfIsInt DEF LentUpTo, Held
<1>3. q[c] \in Int /\ rt_runtime[c] \in Int /\ got \in Int
  BY <1>2
<1> DEFINE new == Shifted(off, d, rd[c], got)
<1>4. /\ d = rd[c] => new[d] = off[d]
      /\ d # rd[c] => new[d] = off[d] - got /\ new[rd[c]] = off[rd[c]] + got
      /\ \A e \in Domains : e # d /\ e # rd[c] => new[e] = off[e]
  <2>1. rd[c] \in Domains
    OBVIOUS
  <2>2. ASSUME NEW g \in Int, NEW to \in Domains
        PROVE  /\ d = to => Shifted(off, d, to, g)[d] = off[d]
               /\ d # to => /\ Shifted(off, d, to, g)[d] = off[d] - g
                           /\ Shifted(off, d, to, g)[to] = off[to] + g
               /\ \A e \in Domains : e # d /\ e # to => Shifted(off, d, to, g)[e] = off[e]
    BY ONLY off \in [Domains -> Int], d \in Domains, <2>2, ShiftedValues
  <2> QED  BY ONLY <1>3, <2>1, <2>2
<1> HIDE DEF new
<1>5. ASSUME NEW e \in Domains PROVE Has(q, b, In(rd, e)) = new[e]
  <2> DEFINE H == Held(rt_runtime, In(rd, e))
  <2>1. Excess(rt_runtime, b, H) = off[e] /\ H \in SUBSET Cpus
    BY DEF Accounts, Has, Held, In
  <2>2. Has(q, b, In(rd, e)) = Excess(q, b, H)
    <3>1. In(rd, e) \in SUBSET Cpus
      BY DEF In
    <3> QED  BY <1>2, <3>1, HeldSame DEF Has
  <2>3. e = d => Held(rt_runtime, span(d)) \subseteq H
    BY InSpan
  <2>4. \A x \in H : e # d => x \notin span(d)
    BY DEF Held, In, span
  <2>5. c \in H <=> e = rd[c]
    BY DEF Held, In
  <2> HIDE DEF H
  <2>6. CASE e = rd[c] /\ e = d
    BY <1>2, <1>4, <2>1, <2>2, <2>3, <2>5, <2>6
  <2>7. CASE e = rd[c] /\ e # d
    <3>1. \A x \in H : x # c => q[x] = rt_runtime[x]
      BY <1>2, <2>1, <2>4, <2>7
    <3>2. Excess(q, b, H) = Excess(rt_runtime, b, H) + (q[c] - rt_runtime[c])
      BY <1>2, <2>1, <2>5, <2>7, <3>1, ExcessChange
    <3> QED  BY <1>4, <2>1, <2>2, <2>7, <3>2
  <2>8. CASE e # rd[c] /\ e = d
    <3> DEFINE K == H \cup {c}
    <3>1. K \in SUBSET Cpus /\ c \in K /\ K \ {c} = H /\ Held(rt_runtime, span(d)) \subseteq K
      BY <2>1, <2>3, <2>5, <2>8
    <3> HIDE DEF K
    <3>2. Excess(q, b, K) = Excess(rt_runtime, b, K)
      BY <1>2, <3>1
    <3>3. First(c, q, b, K) /\ First(c, rt_runtime, b, K)
      BY <1>2, <3>1, ExcessPart
    <3>4. /\ Excess(q, b, K) = (q[c] - b) + Excess(q, b, H)
          /\ Excess(rt_runtime, b, K) = (rt_runtime[c] - b) + Excess(rt_runtime, b, H)
      BY <3>1, <3>3 DEF First
    <3>5. Excess(q, b, H) \in Int /\ Excess(rt_runtime, b, H) \in Int
      BY <1>2, <2>1, ExcessInt
    <3> DEFINE kept == Excess(q, b, H)
               had == Excess(rt_runtime, b, H)
    <3>6. (q[c] - b) + kept = (rt_runtime[c] - b) + had /\ kept \in Int /\ had \in Int
      BY <3>2, <3>4, <3>5
    <3> HIDE DEF kept, had
    <3>7. kept = had - got
      BY <1>3, <3>6
    <3> QED  BY <1>4, <2>1, <2>2, <2>8, <3>7 DEF kept, had
  <2>9. CASE e # rd[c] /\ e # d
    <3>1. \A x \in H : q[x] = rt_runtime[x]
      BY <1>2, <2>1, <2>4, <2>5, <2>9
    <3>2. Excess(q, b, H) = Excess(rt_runtime, b, H)
      BY <1>2, <2>1, <3>1, ExcessSame
    <3> QED  BY <1>4, <2>1, <2>2, <2>9, <3>2
  <2> QED  BY <2>6, <2>7, <2>8, <2>9
<1> QED  BY <1>5 DEF Accounts, new

\* A CPU that is disabled takes its excess along, and finds all it has to, unless its domain
\* had drifted.
LEMMA AccountsDisabled ==
    ASSUME rt_runtime \in [Cpus -> Runtime], b_runtime \in Nat, NEW c \in Cpus,
           rd \in [Cpus -> Domains], NEW off \in [Domains -> Int],
           Accounts(rt_runtime, b_runtime, rd, off)
    PROVE  /\ Disable(c).want # 0 => off[rd[c]] # 0
           /\ Disable(c).want = 0 => Accounts(Disable(c).r, b_runtime, rd, off)
<1> DEFINE out == Disable(c)
           q == out.r
           b == b_runtime
           O == Others(c)
           own == rt_runtime[c] - b
<1>0. b \in Int /\ b \in Nat /\ rt_runtime \in [Cpus -> Int]
  BY InfIsInt
<1>1. CASE rt_runtime[c] = RUNTIME_INF
  <2>1. out = [[r |-> rt_runtime, want |-> 0] EXCEPT !.r[c] = RUNTIME_INF]
    BY <1>1 DEF Disable
  <2>2. out.want = 0 /\ out.r = rt_runtime
    BY <1>1, <2>1
  <2> QED  BY <2>2
<1>2. CASE rt_runtime[c] # RUNTIME_INF
  <2>1. Reclaimed(out, c)
    BY <1>0, <1>2, Disabled
  <2>2. /\ q \in [Cpus -> Runtime] /\ out.want \in Int /\ q[c] = RUNTIME_INF
        /\ \A x \in Cpus : x # c => (q[x] = RUNTIME_INF <=> rt_runtime[x] = RUNTIME_INF)
        /\ \A x \in Cpus : x # c /\ x \notin O => q[x] = rt_runtime[x]
    BY <2>1 DEF Reclaimed
  <2>3. q \in [Cpus -> Int]
    BY <2>2, InfIsInt
  <2>4. ASSUME NEW H \in SUBSET Cpus, O \subseteq H, c \notin H
        PROVE  Excess(q, b, H) - out.want = Excess(rt_runtime, b, H) + own
    <3>1. Excess(q, b, H) - out.want = Excess(rt_runtime, b, H) - (b - rt_runtime[c])
      BY <1>0, <2>1, <2>4 DEF Reclaimed
    <3>2. Excess(rt_runtime, b, H) \in Int
      BY <1>0, ExcessInt
    <3>3. rt_runtime[c] \in Int
      BY <1>0
    <3> HIDE DEF out
    <3> QED  BY <1>0, <3>1, <3>2, <3>3
  <2> DEFINE H == Held(rt_runtime, In(rd, rd[c]))
             k == off[rd[c]]
  <2>5. /\ H \in SUBSET Cpus /\ O = H \ {c} /\ c \in H /\ rd[c] \in Domains /\ k \in Int
        /\ Excess(rt_runtime, b, H) = k
    BY <1>2 DEF Others, Held, In, span, Accounts, Has
  <2>6. Excess(q, b, O) = k + out.want
    <3>1. O \in SUBSET Cpus /\ c \notin O
      BY <2>5
    <3>2. First(c, rt_runtime, b, H)
      BY <1>0, <2>5, ExcessPart
    <3>3. k = own + Excess(rt_runtime, b, O)
      BY <2>5, <3>2 DEF First
    <3>4. Excess(q, b, O) - out.want = Excess(rt_runtime, b, O) + own
      BY <2>4, <3>1
    <3>5. Excess(q, b, O) \in Int /\ Excess(rt_runtime, b, O) \in Int /\ own \in Int
      BY <1>0, <2>3, <3>1, ExcessInt
    <3> HIDE DEF O, own, q, out, k, H
    <3> QED  BY <2>2, <2>5, <3>3, <3>4, <3>5
  <2>7. ASSUME out.want # 0, k = 0 PROVE FALSE
    <3>1. CASE out.want > 0
      <4>1. \A x \in O : q[x] <= b
        BY <1>0, <2>1, <3>1 DEF Reclaimed
      <4>2. Excess(q, b, O) <= 0
        BY <1>0, <2>3, <2>5, <4>1, ExcessAtMost
      <4> QED  BY <2>2, <2>6, <2>7, <3>1, <4>2
    <3>2. CASE out.want < 0
      <4>1. O = {}
        BY <2>1, <3>2 DEF Reclaimed
      <4>2. Excess(q, b, O) = 0
        BY <1>0, <2>3, <4>1, ExcessOfNone
      <4> QED  BY <2>2, <2>6, <2>7, <3>2, <4>2
    <3> QED  BY <2>2, <2>7, <3>1, <3>2
  <2>8. ASSUME out.want = 0, NEW e \in Domains PROVE Has(q, b, In(rd, e)) = off[e]
    <3> DEFINE G == Held(rt_runtime, In(rd, e))
    <3>1. G \in SUBSET Cpus /\ Excess(rt_runtime, b, G) = off[e]
      BY DEF Accounts, Has, Held, In
    <3>2. Held(q, In(rd, e)) = G \ {c}
      BY <2>2 DEF Held, In
    <3>3. CASE e = rd[c]
      BY <2>5, <2>6, <2>8, <3>2, <3>3 DEF Has
    <3>4. CASE e # rd[c]
      <4>1. G \ {c} = G /\ \A x \in G : q[x] = rt_runtime[x]
        BY <2>2, <3>4 DEF Held, In, Others, span
      <4> HIDE DEF G, q
      <4>2. Excess(q, b, G) = Excess(rt_runtime, b, G)
        BY <1>0, <2>3, <3>1, <4>1, ExcessSame
      <4> QED  BY <3>1, <3>2, <4>1, <4>2 DEF Has
    <3> QED  BY <3>3, <3>4
  <2> QED  BY <2>7, <2>8 DEF Accounts
<1> QED  BY <1>1, <1>2

\* A CPU that is disabled belongs to no account, whatever its domain.
LEMMA AccountsMoved ==
    ASSUME NEW r \in [Cpus -> Runtime], NEW b, NEW c \in Cpus, r[c] = RUNTIME_INF,
           NEW home, NEW to, \A x \in Cpus : x # c => to[x] = home[x],
           NEW off, Accounts(r, b, home, off)
    PROVE  Accounts(r, b, to, off)
<1>1. \A d : Held(r, In(to, d)) = Held(r, In(home, d))
  BY DEF Held, In
<1> QED  BY <1>1 DEF Accounts, Has

\* What the domain wins when c is enabled: nothing, if it was disabled.
Made(r, b, c) == IF r[c] = RUNTIME_INF THEN 0 ELSE b - r[c]

\* A CPU that is enabled has b and so nothing beyond b; what it had before is forgotten.
LEMMA AccountsJoined ==
    ASSUME NEW r \in [Cpus -> Runtime], NEW b \in Nat, NEW c \in Cpus,
           NEW home \in [Cpus -> Domains], NEW off \in [Domains -> Int],
           Accounts(r, b, home, off)
    PROVE  Accounts([r EXCEPT ![c] = b], b, home,
                    [off EXCEPT ![home[c]] = @ + Made(r, b, c)])
<1> DEFINE q == [r EXCEPT ![c] = b]
           made == Made(r, b, c)
           new == [off EXCEPT ![home[c]] = @ + made]
<1>1. /\ q \in [Cpus -> Int] /\ r \in [Cpus -> Int] /\ q[c] = b /\ b # RUNTIME_INF
      /\ \A x \in Cpus : x # c => q[x] = r[x]
  BY InfIsInt
<1>2. made \in Int
  BY <1>1 DEF Made
<1>3. new[home[c]] = off[home[c]] + made /\ \A e \in Domains : e # home[c] => new[e] = off[e]
  BY <1>2
<1> HIDE DEF q, new
<1>4. ASSUME NEW e \in Domains PROVE Has(q, b, In(home, e)) = new[e]
  <2> DEFINE H == Held(q, In(home, e))
             G == Held(r, In(home, e))
  <2>1. H \in SUBSET Cpus /\ G \in SUBSET Cpus /\ Excess(r, b, G) = off[e]
    BY DEF Accounts, Has, Held, In
  <2>2. H \ {c} = G \ {c} /\ (c \in H <=> e = home[c])
        /\ (c \in G <=> e = home[c] /\ r[c] # RUNTIME_INF)
    BY <1>1 DEF Held, In
  <2> HIDE DEF H, G
  <2> DEFINE K == G \ {c}
  <2>3. K \in SUBSET Cpus /\ \A x \in K : q[x] = r[x]
    BY <1>1, <2>1
  <2>4. Excess(q, b, K) = Excess(r, b, K) /\ Excess(r, b, K) \in Int
    BY <1>1, <2>3, ExcessSame, ExcessInt
  <2>5. CASE e # home[c]
    <3>1. H = K /\ G = K
      BY <2>2, <2>5
    <3> QED  BY <1>3, <2>1, <2>4, <2>5, <3>1 DEF Has, H
  <2>6. CASE e = home[c]
    <3>1. First(c, q, b, H) /\ H \ {c} = K
      BY <1>1, <2>1, <2>2, <2>6, ExcessPart
    <3>2. Excess(q, b, H) = (q[c] - b) + Excess(q, b, K)
      BY <3>1 DEF First
    <3>3. Excess(q, b, H) = Excess(r, b, K)
      <4> HIDE DEF K
      <4> QED  BY <1>1, <2>4, <3>2
    <3>4. CASE r[c] = RUNTIME_INF
      <4>1. G = K /\ made = 0
        BY <2>2, <3>4 DEF Made
      <4> QED  BY <1>3, <2>1, <2>4, <2>6, <3>3, <4>1 DEF Has, H
    <3>5. CASE r[c] # RUNTIME_INF
      <4>1. First(c, r, b, G) /\ made = b - r[c]
        BY <1>1, <2>1, <2>2, <2>6, <3>5, ExcessPart DEF Made
      <4>2. Excess(r, b, G) = (r[c] - b) + Excess(r, b, K)
        BY <4>1 DEF First
      <4>3. r[c] \in Int
        BY <1>1
      <4> HIDE DEF K, made
      <4>4. Excess(q, b, H) = off[e] + made
        BY <2>1, <2>4, <3>3, <4>1, <4>2, <4>3
      <4> QED  BY <1>3, <2>6, <4>4 DEF Has, H
    <3> QED  BY <3>4, <3>5
  <2> QED  BY <2>5, <2>6
<1> QED  BY <1>4 DEF Accounts, q, new

\* All have the same.
LEMMA AccountsEqual ==
    ASSUME NEW r \in [Cpus -> Int], NEW b \in Nat, \A c \in Cpus : r[c] = b, NEW home
    PROVE  Accounts(r, b, home, [d \in Domains |-> 0])
<1>1. ASSUME NEW d \in Domains PROVE Has(r, b, In(home, d)) = 0
  <2>1. Held(r, In(home, d)) \in SUBSET Cpus /\ \A x \in Held(r, In(home, d)) : r[x] = b
    BY DEF Held, In
  <2> QED  BY <2>1, ExcessZero DEF Has
<1> QED  BY <1>1 DEF Accounts

(***************************************************************************)
(* The inductive invariant.                                                *)
(***************************************************************************)
TypeOK ==
    /\ rt_runtime \in [Cpus -> Runtime] /\ rt_time \in [Cpus -> 0 .. MaxTime]
    /\ rt_throttled \in [Cpus -> BOOLEAN]
    /\ rd \in [Cpus -> Domains] /\ phase \in [Cpus -> {"up", "going", "down", "coming"}]
    /\ pc \in [Cpus -> {"free", "balance", "settle", "attach"}]
    /\ timer \in [Cpus -> 0 .. NCpus]
    /\ b_runtime \in Runtimes /\ sysctl \in Runtimes \cup {0}
    /\ bug \in BOOLEAN /\ drift \in [Domains -> Int] /\ mixed \in BOOLEAN

\* Nobody borrows for a run queue that is disabled.
Borrows == \A c \in Cpus : pc[c] \in {"balance", "settle"} => rt_runtime[c] # RUNTIME_INF

\* What the runtimes were set to, which b_runtime may not say yet.
Setting == IF sysctl = 0 THEN b_runtime ELSE sysctl

Books == ~mixed /\ ~bug => Accounts(rt_runtime, Setting, rd, drift)

IInv == TypeOK /\ Borrows /\ Books /\ WantingKnown

LEMMA RuntimesArePositive == \A v \in Runtimes : v \in Nat /\ v # 0 /\ v \in Runtime
  BY RuntimesAssumption DEF Runtime

LEMMA TypedNats ==
    ASSUME TypeOK
    PROVE  /\ rt_time \in [Cpus -> Nat] /\ b_runtime \in Nat /\ b_runtime \in Runtime
           /\ Setting \in Nat
  BY RuntimesArePositive, TimeAssumption DEF TypeOK, Setting

\* Disable(c) changes who is enabled for c alone, whatever the accounts say.
LEMMA DisableType ==
    ASSUME TypeOK, NEW c \in Cpus
    PROVE  /\ Disable(c).r \in [Cpus -> Runtime] /\ Disable(c).r[c] = RUNTIME_INF
           /\ \A x \in Cpus : x # c => (Disable(c).r[x] = RUNTIME_INF
                                          <=> rt_runtime[x] = RUNTIME_INF)
<1>1. CASE rt_runtime[c] # RUNTIME_INF
  <2>1. Reclaimed(Disable(c), c)
    BY <1>1, TypedNats, Disabled DEF TypeOK
  <2> QED  BY <2>1 DEF Reclaimed
<1>2. CASE rt_runtime[c] = RUNTIME_INF
  <2>1. Disable(c) = [[r |-> rt_runtime, want |-> 0] EXCEPT !.r[c] = RUNTIME_INF]
    BY <1>2 DEF Disable
  <2>2. Disable(c).r = rt_runtime
    BY <1>2, <2>1 DEF TypeOK
  <2> QED  BY <1>2, <2>2 DEF TypeOK
<1> QED  BY <1>1, <1>2

LEMMA InitInv == Init => IInv
<1> SUFFICES ASSUME Init PROVE IInv
  OBVIOUS
<1>1. b_runtime \in Nat /\ b_runtime \in Runtime /\ rt_runtime \in [Cpus -> Runtime]
  BY RuntimesArePositive DEF Init
<1>2. TypeOK
  <2>1. 0 \in 0 .. MaxTime /\ 0 \in 0 .. NCpus
    BY CpusAreSome, TimeAssumption
  <2>2. rd \in [Cpus -> Domains]
    BY DEF Init
  <2>3. rt_time \in [Cpus -> 0 .. MaxTime] /\ timer \in [Cpus -> 0 .. NCpus]
    BY <2>1 DEF Init
  <2>4. /\ rt_throttled \in [Cpus -> BOOLEAN]
        /\ phase \in [Cpus -> {"up", "going", "down", "coming"}]
        /\ pc \in [Cpus -> {"free", "balance", "settle", "attach"}]
    BY DEF Init
  <2>5. /\ b_runtime \in Runtimes /\ sysctl \in Runtimes \cup {0}
        /\ bug \in BOOLEAN /\ mixed \in BOOLEAN
    BY DEF Init
  <2>6. 0 \in Int
    OBVIOUS
  <2>7. drift \in [Domains -> Int]
    BY <2>6 DEF Init
  <2> QED  BY <1>1, <2>2, <2>3, <2>4, <2>5, <2>7 DEF TypeOK
<1>3. rt_runtime \in [Cpus -> Int] /\ \A c \in Cpus : rt_runtime[c] = b_runtime
  BY <1>1, InfIsInt DEF Init
<1>4. Accounts(rt_runtime, b_runtime, rd, [d \in Domains |-> 0])
  BY <1>1, <1>3, AccountsEqual
<1>5. Borrows
  BY DEF Init, Borrows
<1>6. Setting = b_runtime /\ drift = [d \in Domains |-> 0]
  BY DEF Init, Setting
<1>7. WantingKnown
  BY DEF Init, WantingKnown
<1> QED  BY <1>2, <1>4, <1>5, <1>6, <1>7 DEF IInv, Books

--------------------------------------------------------------------------------
(***************************************************************************)
(* Types.                                                                  *)
(***************************************************************************)
LEMMA GotoType ==
    ASSUME TypeOK, NEW c \in Cpus, NEW to \in {"free", "balance", "settle", "attach"}, Goto(c, to)
    PROVE  /\ pc' \in [Cpus -> {"free", "balance", "settle", "attach"}] /\ pc'[c] = to
           /\ \A x \in Cpus : x # c => pc'[x] = pc[x]
  BY DEF Goto, TypeOK

LEMMA BecomeType ==
    ASSUME TypeOK, NEW c \in Cpus, NEW to \in {"up", "going", "down", "coming"}, Become(c, to)
    PROVE  phase' \in [Cpus -> {"up", "going", "down", "coming"}]
  BY DEF Become, TypeOK

LEMMA RefillType ==
    ASSUME TypeOK, NEW c \in Cpus, Refill(c)
    PROVE  rt_time' \in [Cpus -> 0 .. MaxTime] /\ rt_throttled' \in [Cpus -> BOOLEAN]
<1> DEFINE used == IF Within(rt_time[c], rt_runtime[c]) THEN 0 ELSE rt_time[c] - rt_runtime[c]
           over == rt_runtime[c] # RUNTIME_INF /\ used >= rt_runtime[c]
<1>1. rt_time[c] \in 0 .. MaxTime /\ rt_runtime[c] \in Runtime
  BY DEF TypeOK
<1>2. used \in 0 .. MaxTime
  BY <1>1, TimeAssumption DEF Within, Runtime
<1>3. rt_time' = [rt_time EXCEPT ![c] = used]
  BY DEF Refill
<1>4. rt_throttled' = [rt_throttled EXCEPT ![c] = rt_throttled[c] /\ over]
  BY DEF Refill
<1>5. (rt_throttled[c] /\ over) \in BOOLEAN
  OBVIOUS
<1> HIDE DEF used, over
<1>6. rt_time' \in [Cpus -> 0 .. MaxTime]
  BY <1>2, <1>3 DEF TypeOK
<1>7. rt_throttled' \in [Cpus -> BOOLEAN]
  BY <1>4, <1>5 DEF TypeOK
<1> QED  BY <1>6, <1>7

\* What Leave(c) and Join(c) do to the types.
Kept == /\ rt_runtime' \in [Cpus -> Runtime] /\ rt_time' \in [Cpus -> 0 .. MaxTime]
        /\ rt_throttled' \in [Cpus -> BOOLEAN] /\ timer' \in [Cpus -> 0 .. NCpus]
        /\ b_runtime' \in Runtimes /\ sysctl' \in Runtimes \cup {0}
        /\ bug' \in BOOLEAN /\ drift' \in [Domains -> Int] /\ mixed' \in BOOLEAN

LEMMA LeaveType ==
    ASSUME TypeOK, NEW c \in Cpus, Leave(c)
    PROVE  Kept /\ \A x \in Cpus : x # c => (rt_runtime'[x] = RUNTIME_INF
                                               <=> rt_runtime[x] = RUNTIME_INF)
<1>1. /\ rt_runtime' = Disable(c).r /\ bug' \in BOOLEAN /\ mixed' \in BOOLEAN
      /\ UNCHANGED <<rt_time, rt_throttled, timer, b_runtime, sysctl, drift>>
  BY DEF Leave, TypeOK
<1> QED  BY <1>1, DisableType DEF TypeOK, Kept

LEMMA JoinType ==
    ASSUME TypeOK, NEW c \in Cpus, Join(c)
    PROVE  /\ Kept /\ rd' = rd /\ rt_runtime' = [rt_runtime EXCEPT ![c] = b_runtime]
           /\ drift' = [drift EXCEPT ![rd[c]] = @ + Made(rt_runtime, b_runtime, c)]
           /\ \A x \in Cpus : rt_runtime[x] # RUNTIME_INF => rt_runtime'[x] # RUNTIME_INF
<1> DEFINE made == Made(rt_runtime, b_runtime, c)
<1>1. /\ rt_runtime' = [rt_runtime EXCEPT ![c] = b_runtime]
      /\ rt_time' = [rt_time EXCEPT ![c] = 0]
      /\ rt_throttled' = [rt_throttled EXCEPT ![c] = FALSE]
      /\ mixed' \in BOOLEAN
      /\ UNCHANGED <<rd, timer, b_runtime, sysctl, bug>>
  BY DEF Join, TypeOK
<1>2. drift' = [drift EXCEPT ![rd[c]] = @ + made]
  BY DEF Join, Made
<1>3. b_runtime \in Nat /\ b_runtime \in Runtime /\ b_runtime # RUNTIME_INF
  BY TypedNats, InfIsInt
<1>4. made \in Int
  BY <1>3 DEF Made, TypeOK, Runtime
<1> HIDE DEF made
<1>5. drift' \in [Domains -> Int]
  BY <1>2, <1>4 DEF TypeOK
<1>6. rt_runtime' \in [Cpus -> Runtime]
      /\ \A x \in Cpus : rt_runtime[x] # RUNTIME_INF => rt_runtime'[x] # RUNTIME_INF
  BY <1>1, <1>3 DEF TypeOK
<1>7. rt_time' \in [Cpus -> 0 .. MaxTime] /\ rt_throttled' \in [Cpus -> BOOLEAN]
  BY <1>1, TimeAssumption DEF TypeOK
<1> QED  BY <1>1, <1>2, <1>5, <1>6, <1>7 DEF TypeOK, Kept, made

\* Where Balance(c) finds the CPUs that lend.
LEMMA LenderType ==
    ASSUME TypeOK, NEW c \in Cpus
    PROVE  rd[Processor(c)] \in Domains
  BY CpusAreSome DEF TypeOK, Processor, Cpus

LEMMA BalanceType ==
    ASSUME TypeOK, Borrows, NEW c \in Cpus, Balance(c)
    PROVE  /\ rt_runtime' \in [Cpus -> Runtime] /\ SameInf(rt_runtime', rt_runtime)
           /\ drift' \in [Domains -> Int]
<1>1. /\ pc[c] = "balance" /\ rt_runtime' = do_balance_runtime(c, rd[Processor(c)])
      /\ drift' = Shifted(drift, rd[Processor(c)], rd[c], rt_runtime'[c] - rt_runtime[c])
  BY DEF Balance, Shifted
<1>2. rt_runtime[c] # RUNTIME_INF
  BY <1>1 DEF Borrows
<1>3. LentUpTo(rt_runtime', NCpus, c, rd[Processor(c)])
  BY <1>1, <1>2, TypedNats, Balanced DEF TypeOK
<1>4. rt_runtime' \in [Cpus -> Runtime] /\ SameInf(rt_runtime', rt_runtime)
  BY <1>3 DEF LentUpTo
<1>5. rt_runtime'[c] - rt_runtime[c] \in Int
  BY <1>4, InfIsInt DEF TypeOK
<1>6. rd[c] \in Domains /\ rd[Processor(c)] \in Domains /\ drift \in [Domains -> Int]
  BY LenderType DEF TypeOK
<1> QED  BY <1>1, <1>4, <1>5, <1>6, ShiftedValues

LEMMA TypeStep == TypeOK /\ Borrows /\ [Next]_vars => TypeOK' /\ Borrows'
<1> SUFFICES ASSUME TypeOK, Borrows, [Next]_vars PROVE TypeOK' /\ Borrows'
  OBVIOUS
<1>1. CASE sched_rt_global_constraints
  <2>1. PICK v \in Runtimes :
            /\ rt_runtime' = [c \in Cpus |-> v] /\ sysctl' = v
            /\ drift' = [d \in Domains |-> 0] /\ mixed' \in BOOLEAN
            /\ UNCHANGED <<rt_time, rt_throttled, rd, phase, pc, timer, b_runtime, bug>>
    BY <1>1 DEF sched_rt_global_constraints
  <2>2. rt_runtime' \in [Cpus -> Runtime] /\ drift' \in [Domains -> Int]
    BY <2>1, RuntimesArePositive
  <2>3. \A c \in Cpus : rt_runtime'[c] # RUNTIME_INF
    BY <2>1, RuntimesArePositive, InfIsInt
  <2> QED  BY <2>1, <2>2, <2>3 DEF TypeOK, Borrows
<1>2. CASE sched_rt_handler
  BY <1>2 DEF sched_rt_handler, TypeOK, Borrows, queues, history
<1>3. ASSUME NEW c \in Cpus, Tick(c) PROVE TypeOK' /\ Borrows'
  <2>1. PICK delta \in 1 .. MaxDelta :
            /\ rt_time[c] + delta <= MaxTime /\ rt_time' = [rt_time EXCEPT ![c] = @ + delta]
    BY <1>3 DEF Tick
  <2>2. rt_time[c] + delta \in 0 .. MaxTime
    BY <2>1, TimeAssumption DEF TypeOK
  <2>3. rt_time' \in [Cpus -> 0 .. MaxTime]
    BY <2>1, <2>2 DEF TypeOK
  <2>4. /\ Goto(c, "balance") \/ pc' = pc
        /\ rt_runtime[c] # RUNTIME_INF
        /\ UNCHANGED <<rt_runtime, rt_throttled, rd, phase, timer, b_runtime, sysctl, history>>
    BY <1>3 DEF Tick
  <2>5. /\ pc' \in [Cpus -> {"free", "balance", "settle", "attach"}]
        /\ \A x \in Cpus : x # c => pc'[x] = pc[x]
    BY <2>4, GotoType DEF TypeOK
  <2> QED  BY <2>3, <2>4, <2>5 DEF TypeOK, Borrows, history
<1>4. ASSUME NEW c \in Cpus, Balance(c) PROVE TypeOK' /\ Borrows'
  <2>1. /\ Goto(c, "settle") /\ pc[c] = "balance"
        /\ UNCHANGED <<rt_time, rt_throttled, rd, phase, timer, b_runtime, sysctl, bug, mixed>>
    BY <1>4 DEF Balance
  <2>2. /\ pc' \in [Cpus -> {"free", "balance", "settle", "attach"}]
        /\ \A x \in Cpus : x # c => pc'[x] = pc[x]
    BY <2>1, GotoType
  <2>3. /\ rt_runtime' \in [Cpus -> Runtime] /\ SameInf(rt_runtime', rt_runtime)
        /\ drift' \in [Domains -> Int]
    BY <1>4, BalanceType
  <2> QED  BY <2>1, <2>2, <2>3 DEF TypeOK, Borrows, SameInf
<1>5. ASSUME NEW c \in Cpus, Exceeded(c) PROVE TypeOK' /\ Borrows'
  <2>1. rt_throttled' \in [Cpus -> BOOLEAN]
    <3>1. rt_throttled' = [rt_throttled EXCEPT ![c] = ~Within(rt_time[c], rt_runtime[c])]
      BY <1>5 DEF Exceeded
    <3> QED  BY <3>1 DEF TypeOK
  <2>2. /\ Goto(c, "free")
        /\ UNCHANGED <<rt_runtime, rt_time, rd, phase, timer, b_runtime, sysctl, history>>
    BY <1>5 DEF Exceeded
  <2>3. /\ pc' \in [Cpus -> {"free", "balance", "settle", "attach"}] /\ pc'[c] = "free"
        /\ \A x \in Cpus : x # c => pc'[x] = pc[x]
    BY <2>2, GotoType
  <2> QED  BY <2>1, <2>2, <2>3 DEF TypeOK, Borrows, history
<1>6. ASSUME NEW c \in Cpus, Timer(c) PROVE TypeOK' /\ Borrows'
  <2>1. PICK at \in Cpus :
            \/ /\ ~Within(rt_time[c], rt_runtime[c])
               /\ Goto(c, "balance") /\ timer' = [timer EXCEPT ![c] = at]
               /\ UNCHANGED <<queues, rd, phase, b_runtime, sysctl, history>>
            \/ Refill(c) /\ UNCHANGED <<pc, timer>>
    BY <1>6 DEF Timer
  <2>2. CASE /\ ~Within(rt_time[c], rt_runtime[c])
             /\ Goto(c, "balance") /\ timer' = [timer EXCEPT ![c] = at]
             /\ UNCHANGED <<queues, rd, phase, b_runtime, sysctl, history>>
    <3>1. /\ pc' \in [Cpus -> {"free", "balance", "settle", "attach"}]
          /\ \A x \in Cpus : x # c => pc'[x] = pc[x]
      BY <2>2, GotoType
    <3>2. timer' \in [Cpus -> 0 .. NCpus]
      BY <2>2, CpusAreSome DEF TypeOK, Cpus
    <3>3. rt_runtime[c] # RUNTIME_INF
      BY <2>2 DEF Within
    <3> QED  BY <2>2, <3>1, <3>2, <3>3 DEF TypeOK, Borrows, queues, history
  <2>3. CASE Refill(c) /\ UNCHANGED <<pc, timer>>
    <3>1. rt_time' \in [Cpus -> 0 .. MaxTime] /\ rt_throttled' \in [Cpus -> BOOLEAN]
      BY <2>3, RefillType
    <3>2. UNCHANGED <<rt_runtime, rd, phase, b_runtime, sysctl, history>>
      BY <2>3 DEF Refill
    <3> QED  BY <2>3, <3>1, <3>2 DEF TypeOK, Borrows, history
  <2> QED  BY <2>1, <2>2, <2>3
<1>7. ASSUME NEW c \in Cpus, Refilled(c) PROVE TypeOK' /\ Borrows'
  <2>1. rt_time' \in [Cpus -> 0 .. MaxTime] /\ rt_throttled' \in [Cpus -> BOOLEAN]
    BY <1>7, RefillType DEF Refilled
  <2>2. Goto(c, "free") /\ timer' = [timer EXCEPT ![c] = 0]
        /\ UNCHANGED <<rt_runtime, rd, phase, b_runtime, sysctl, history>>
    BY <1>7 DEF Refilled, Refill
  <2>3. timer' \in [Cpus -> 0 .. NCpus]
    BY <2>2, CpusAreSome DEF TypeOK
  <2>4. /\ pc' \in [Cpus -> {"free", "balance", "settle", "attach"}] /\ pc'[c] = "free"
        /\ \A x \in Cpus : x # c => pc'[x] = pc[x]
    BY <2>2, GotoType
  <2> QED  BY <2>1, <2>2, <2>3, <2>4 DEF TypeOK, Borrows, history
<1>8. ASSUME NEW c \in Cpus,
             \/ disable_runtime(c) /\ Become(c, "going")
             \/ set_rq_offline(c) /\ Become(c, "down")
      PROVE  TypeOK' /\ Borrows'
  <2>1. Leave(c) /\ pc[c] = "free" /\ rd' = rd /\ pc' = pc
    BY <1>8 DEF disable_runtime, set_rq_offline, Free
  <2>2. phase' \in [Cpus -> {"up", "going", "down", "coming"}]
    BY <1>8, BecomeType
  <2>3. Kept /\ \A x \in Cpus : x # c => (rt_runtime'[x] = RUNTIME_INF
                                            <=> rt_runtime[x] = RUNTIME_INF)
    BY <2>1, LeaveType
  <2> QED  BY <2>1, <2>2, <2>3 DEF TypeOK, Borrows, Kept
<1>9. ASSUME NEW c \in Cpus,
             \/ set_rq_online(c) /\ Become(c, "coming")
             \/ enable_runtime(c) /\ Become(c, "up")
      PROVE  TypeOK' /\ Borrows'
  <2>1. Join(c) /\ pc' = pc
    BY <1>9 DEF set_rq_online, enable_runtime
  <2>2. phase' \in [Cpus -> {"up", "going", "down", "coming"}]
    BY <1>9, BecomeType
  <2>3. Kept /\ rd' = rd
        /\ \A x \in Cpus : rt_runtime[x] # RUNTIME_INF => rt_runtime'[x] # RUNTIME_INF
    BY <2>1, JoinType
  <2> QED  BY <2>1, <2>2, <2>3 DEF TypeOK, Borrows, Kept
<1>10. ASSUME NEW c \in Cpus, rq_attach_root(c) PROVE TypeOK' /\ Borrows'
  <2>1. PICK d \in Domains, active \in BOOLEAN :
            /\ Leave(c) /\ pc[c] = "free" /\ rd' = [rd EXCEPT ![c] = d]
            /\ IF active THEN Goto(c, "attach") ELSE UNCHANGED pc
            /\ Become(c, IF ~active THEN "down" ELSE IF phase[c] = "up" THEN "up" ELSE "coming")
    BY <1>10 DEF rq_attach_root, Free
  <2>2. phase' \in [Cpus -> {"up", "going", "down", "coming"}]
    BY <2>1, BecomeType
  <2>3. Kept /\ \A x \in Cpus : x # c => (rt_runtime'[x] = RUNTIME_INF
                                            <=> rt_runtime[x] = RUNTIME_INF)
    BY <2>1, LeaveType
  <2>4. /\ pc' \in [Cpus -> {"free", "balance", "settle", "attach"}]
        /\ pc'[c] \notin {"balance", "settle"} /\ \A x \in Cpus : x # c => pc'[x] = pc[x]
    <3>1. CASE active
      BY <2>1, <3>1, GotoType
    <3>2. CASE ~active
      BY <2>1, <3>2 DEF TypeOK
    <3> QED  BY <3>1, <3>2
  <2>5. rd' \in [Cpus -> Domains]
    BY <2>1 DEF TypeOK
  <2> QED  BY <2>2, <2>3, <2>4, <2>5 DEF TypeOK, Borrows, Kept
<1>11. ASSUME NEW c \in Cpus, Attached(c) PROVE TypeOK' /\ Borrows'
  <2>1. Join(c) /\ Goto(c, "free") /\ phase' = phase
    BY <1>11 DEF Attached
  <2>2. /\ pc' \in [Cpus -> {"free", "balance", "settle", "attach"}] /\ pc'[c] = "free"
        /\ \A x \in Cpus : x # c => pc'[x] = pc[x]
    BY <2>1, GotoType
  <2>3. Kept /\ rd' = rd
        /\ \A x \in Cpus : rt_runtime[x] # RUNTIME_INF => rt_runtime'[x] # RUNTIME_INF
    BY <2>1, JoinType
  <2> QED  BY <2>1, <2>2, <2>3 DEF TypeOK, Borrows, Kept
<1>12. CASE UNCHANGED vars
  BY <1>12 DEF vars, queues, history, TypeOK, Borrows
<1>13. \A c \in Cpus : /\ disable_runtime(c) => Become(c, "going")
                       /\ set_rq_offline(c) => Become(c, "down")
                       /\ set_rq_online(c) => Become(c, "coming")
                       /\ enable_runtime(c) => Become(c, "up")
  BY DEF disable_runtime, set_rq_offline, set_rq_online, enable_runtime
<1> QED
  BY <1>1, <1>2, <1>3, <1>4, <1>5, <1>6, <1>7, <1>8, <1>9, <1>10, <1>11, <1>12, <1>13 DEF Next

--------------------------------------------------------------------------------
(***************************************************************************)
(* Accounts, step by step.                                                 *)
(***************************************************************************)
\* Steps that touch no runtime and no domain.
LEMMA BooksKept ==
    ASSUME Books, WantingKnown, UNCHANGED <<rt_runtime, rd, b_runtime, sysctl, history>>
    PROVE  Books' /\ WantingKnown'
<1>1. /\ rt_runtime' = rt_runtime /\ rd' = rd /\ b_runtime' = b_runtime
      /\ sysctl' = sysctl /\ bug' = bug /\ drift' = drift /\ mixed' = mixed
  BY DEF history
<1>2. Setting' = Setting
  BY <1>1 DEF Setting
<1> QED  BY <1>1, <1>2 DEF Books, WantingKnown

LEMMA StepTime ==
    ASSUME IInv, NEW c \in Cpus, Tick(c) \/ Timer(c) \/ Exceeded(c) \/ Refilled(c)
    PROVE  Books' /\ WantingKnown'
<1>1. UNCHANGED <<rt_runtime, rd, b_runtime, sysctl, history>>
  BY DEF Tick, Timer, Exceeded, Refilled, Refill, queues
<1> QED  BY <1>1, BooksKept DEF IInv

\* A tick borrows in its own domain; only the timer can borrow from another one.
LEMMA StepBalance ==
    ASSUME IInv, NEW c \in Cpus, Balance(c)
    PROVE  Books' /\ WantingKnown'
<1> DEFINE d == rd[Processor(c)]
           q == rt_runtime'
           got == q[c] - rt_runtime[c]
<1>1. /\ pc[c] = "balance" /\ q = do_balance_runtime(c, d)
      /\ drift' = Shifted(drift, d, rd[c], got)
      /\ rd' = rd /\ b_runtime' = b_runtime /\ sysctl' = sysctl
      /\ bug' = bug /\ mixed' = mixed /\ ~bug
  BY DEF Balance, Shifted
<1>2. rt_runtime[c] # RUNTIME_INF
  BY <1>1 DEF IInv, Borrows
<1>3. /\ rt_runtime \in [Cpus -> Runtime] /\ rt_time \in [Cpus -> Nat] /\ d \in Domains
      /\ rd \in [Cpus -> Domains] /\ Setting \in Nat /\ drift \in [Domains -> Int]
  BY TypedNats, LenderType DEF IInv, TypeOK
<1> HIDE DEF d, q, got
<1>4. ASSUME ~mixed PROVE Accounts(q, Setting, rd, drift')
  <2>1. Accounts(rt_runtime, Setting, rd, drift)
    BY <1>1, <1>4 DEF IInv, Books
  <2>2. got = q[c] - rt_runtime[c]
    BY DEF got
  <2>3. Accounts(q, Setting, rd, Shifted(drift, d, rd[c], got))
    BY <1>1, <1>2, <1>3, <2>1, <2>2, AccountsBalanced
  <2> QED  BY <1>1, <2>3
<1>5. Setting' = Setting
  BY <1>1 DEF Setting
<1>6. Books'
  BY <1>1, <1>4, <1>5 DEF Books, q
<1>7. WantingKnown'
  BY <1>1 DEF WantingKnown
<1> QED  BY <1>6, <1>7

\* Who is disabled takes back what it lent to the last unit, unless its domain had drifted;
\* then it may change its domain.
LEMMA StepLeave ==
    ASSUME IInv, NEW c \in Cpus, ~bug, Leave(c), \A x \in Cpus : x # c => rd'[x] = rd[x]
    PROVE  Books' /\ WantingKnown'
<1> DEFINE out == Disable(c)
<1>1. /\ rt_runtime' = out.r /\ bug' = (out.want # 0) /\ mixed' = (mixed \/ sysctl # 0)
      /\ b_runtime' = b_runtime /\ sysctl' = sysctl /\ drift' = drift
  BY DEF Leave
<1>2. /\ rt_runtime \in [Cpus -> Runtime] /\ b_runtime \in Nat
      /\ rd \in [Cpus -> Domains] /\ drift \in [Domains -> Int]
  BY TypedNats DEF IInv, TypeOK
<1>3. out.r \in [Cpus -> Runtime] /\ out.r[c] = RUNTIME_INF
  BY DisableType DEF IInv
<1> HIDE DEF out
<1>4. ASSUME ~mixed'
      PROVE  /\ bug' => drift'[rd[c]] # 0
             /\ ~bug' => Accounts(rt_runtime', Setting', rd', drift')
  <2>1. ~mixed /\ sysctl = 0 /\ Setting = b_runtime /\ Setting' = b_runtime
    BY <1>1, <1>4 DEF Setting
  <2>2. Accounts(rt_runtime, b_runtime, rd, drift)
    BY <2>1 DEF IInv, Books
  <2>3. /\ out.want # 0 => drift[rd[c]] # 0
        /\ out.want = 0 => Accounts(out.r, b_runtime, rd, drift)
    BY <1>2, <2>2, AccountsDisabled DEF out
  <2>4. out.want = 0 => Accounts(out.r, b_runtime, rd', drift)
    BY <1>3, <2>3, AccountsMoved
  <2> QED  BY <1>1, <2>1, <2>3, <2>4
<1>5. Books'
  BY <1>4 DEF Books
<1>6. WantingKnown'
  BY <1>2, <1>4 DEF WantingKnown
<1> QED  BY <1>5, <1>6

\* Who is enabled starts with the setting, and its domain drifts by what it had beside that.
LEMMA StepJoin ==
    ASSUME IInv, NEW c \in Cpus, ~bug, Join(c)
    PROVE  Books' /\ WantingKnown'
<1>1. /\ bug' = bug /\ mixed' = (mixed \/ sysctl # 0)
      /\ b_runtime' = b_runtime /\ sysctl' = sysctl
  BY DEF Join
<1>2. /\ rd' = rd /\ rt_runtime' = [rt_runtime EXCEPT ![c] = b_runtime]
      /\ drift' = [drift EXCEPT ![rd[c]] = @ + Made(rt_runtime, b_runtime, c)]
  BY JoinType DEF IInv
<1>3. /\ rt_runtime \in [Cpus -> Runtime] /\ b_runtime \in Nat
      /\ rd \in [Cpus -> Domains] /\ drift \in [Domains -> Int]
  BY TypedNats DEF IInv, TypeOK
<1>4. ASSUME ~mixed' PROVE Accounts(rt_runtime', Setting', rd', drift')
  <2>1. ~mixed /\ sysctl = 0 /\ Setting = b_runtime /\ Setting' = b_runtime
    BY <1>1, <1>4 DEF Setting
  <2>2. Accounts(rt_runtime, b_runtime, rd, drift)
    BY <2>1 DEF IInv, Books
  <2>3. Accounts([rt_runtime EXCEPT ![c] = b_runtime], b_runtime, rd,
                 [drift EXCEPT ![rd[c]] = @ + Made(rt_runtime, b_runtime, c)])
    BY <1>3, <2>2, AccountsJoined
  <2> QED  BY <1>2, <2>1, <2>3
<1>5. Books'
  BY <1>4 DEF Books
<1>6. WantingKnown'
  BY <1>1 DEF WantingKnown
<1> QED  BY <1>5, <1>6

\* A new setting gives all the same.
LEMMA StepConstraints ==
    ASSUME IInv, sched_rt_global_constraints
    PROVE  Books' /\ WantingKnown'
<1>1. PICK v \in Runtimes :
          /\ ~bug /\ rt_runtime' = [c \in Cpus |-> v] /\ sysctl' = v
          /\ drift' = [d \in Domains |-> 0] /\ bug' = bug
  BY DEF sched_rt_global_constraints
<1>2. v \in Nat /\ v # 0 /\ v \in Int
  BY RuntimesArePositive
<1>3. rt_runtime' \in [Cpus -> Int] /\ \A c \in Cpus : rt_runtime'[c] = v
  BY <1>1, <1>2
<1>4. Setting' = v
  BY <1>1, <1>2 DEF Setting
<1>5. Accounts(rt_runtime', v, rd', [d \in Domains |-> 0])
  BY <1>2, <1>3, AccountsEqual
<1>6. Books'
  BY <1>1, <1>4, <1>5 DEF Books
<1>7. WantingKnown'
  BY <1>1 DEF WantingKnown
<1> QED  BY <1>6, <1>7

LEMMA StepHandler ==
    ASSUME IInv, sched_rt_handler
    PROVE  Books' /\ WantingKnown'
<1>1. /\ ~bug /\ sysctl # 0 /\ b_runtime' = sysctl /\ sysctl' = 0
      /\ rt_runtime' = rt_runtime /\ rd' = rd
      /\ bug' = bug /\ drift' = drift /\ mixed' = mixed
  BY DEF sched_rt_handler, queues, history
<1>2. Setting' = Setting
  BY <1>1 DEF Setting
<1> QED  BY <1>1, <1>2 DEF Books, WantingKnown, IInv

LEMMA InvStep == IInv /\ [Next]_vars => IInv'
<1> SUFFICES ASSUME IInv, [Next]_vars PROVE IInv'
  OBVIOUS
<1>1. TypeOK' /\ Borrows'
  BY TypeStep DEF IInv
<1>2. Books' /\ WantingKnown'
  <2>1. CASE UNCHANGED vars
    <3>1. UNCHANGED <<rt_runtime, rd, b_runtime, sysctl, history>>
      BY <2>1 DEF vars, queues
    <3> QED  BY <3>1, BooksKept DEF IInv
  <2>2. CASE sched_rt_global_constraints \/ sched_rt_handler
    BY <2>2, StepConstraints, StepHandler
  <2>3. ASSUME NEW c \in Cpus, Tick(c) \/ Timer(c) \/ Exceeded(c) \/ Refilled(c) \/ Balance(c)
        PROVE  Books' /\ WantingKnown'
    BY <2>3, StepTime, StepBalance
  <2>4. ASSUME NEW c \in Cpus, disable_runtime(c) \/ set_rq_offline(c) \/ rq_attach_root(c)
        PROVE  Books' /\ WantingKnown'
    <3>1. ~bug /\ Leave(c) /\ \A x \in Cpus : x # c => rd'[x] = rd[x]
      BY <2>4 DEF disable_runtime, set_rq_offline, rq_attach_root, Free, IInv, TypeOK
    <3> QED  BY <3>1, StepLeave
  <2>5. ASSUME NEW c \in Cpus, set_rq_online(c) \/ enable_runtime(c) \/ Attached(c)
        PROVE  Books' /\ WantingKnown'
    <3>1. Join(c) /\ ~bug
      BY <2>5 DEF set_rq_online, enable_runtime, Attached, Free
    <3> QED  BY <3>1, StepJoin
  <2> QED  BY <2>1, <2>2, <2>3, <2>4, <2>5 DEF Next
<1> QED  BY <1>1, <1>2 DEF IInv

\* Through every step of sched_rt.c, of the hotplug notifiers and of the sysctl handler the
\* variables keep their types, the runtime of every root domain adds up to the settings of
\* its enabled CPUs and what it drifted from them, and a CPU is left wanting only where a
\* domain drifted or a setting was half applied.
THEOREM Invariance == Spec => []IInv
<1>1. Init => IInv
  BY InitInv
<1>2. IInv /\ [Next]_vars => IInv'
  BY InvStep
<1> QED  BY <1>1, <1>2, PTL DEF Spec

--------------------------------------------------------------------------------
LEMMA SurplusIsExcess == \A S : Surplus(S) = Excess(rt_runtime, b_runtime, Held(rt_runtime, S))
  BY DEF Surplus, Excess, Held

LEMMA InvConserved == IInv => Conserved
<1> SUFFICES ASSUME IInv PROVE Conserved
  OBVIOUS
<1>1. \A c \in Cpus : rt_runtime[c] = RUNTIME_INF \/ rt_runtime[c] >= 0
  BY DEF IInv, TypeOK, Runtime
<1>2. ASSUME sysctl = 0, ~mixed, ~bug, NEW d \in Domains
      PROVE  Surplus(span(d)) = drift[d]
  <2>1. Accounts(rt_runtime, b_runtime, rd, drift)
    BY <1>2 DEF IInv, Books, Setting
  <2> QED  BY <2>1, SurplusIsExcess, InSpan DEF Accounts, Has
<1> QED  BY <1>1, <1>2 DEF Conserved

(***************************************************************************)
(* Runtime is lent and never made but in two ways, whatever the number of  *)
(* CPUs and of domains, the period and the settings: after every step of   *)
(* ticks, timer, hotplug, domains and sysctl that left no setting half     *)
(* applied, what the enabled run queues of a root domain have is what they *)
(* were given, what the timer borrowed for them on CPUs of other domains   *)
(* (less what it lent to those), and what update_runtime made up when it   *)
(* enabled one of them a second time.                                      *)
(***************************************************************************)
THEOREM RuntimeConserved == Spec => []Conserved
<1>1. IInv => Conserved
  BY InvConserved
<1> QED  BY <1>1, Invariance, PTL

(***************************************************************************)
(* BUG_ON(want) in __disable_runtime is out of reach where no domain has   *)
(* drifted from its settings in one of these ways and no CPU came, went or *)
(* was disabled during a change of the setting.                            *)
(***************************************************************************)
THEOREM WantingExplained == Spec => []WantingKnown
<1>1. IInv => WantingKnown
  BY DEF IInv
<1> QED  BY <1>1, Invariance, PTL
================================================================================

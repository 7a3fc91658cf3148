------------------------------ MODULE FoldLemmas ------------------------------
(***************************************************************************)
(* What a fold over a sequence computes.  The community modules define it  *)
(* by a function on the sets of positions, from which the last one is      *)
(* taken away, and choose that function by its equation: here is shown     *)
(* that there is one, by induction over the length.                        *)
(***************************************************************************)
EXTENDS Integers, Sequences, FiniteSetsExt, NaturalsInduction, WellFoundedInduction, TLAPS

\* Induction up to a number, over the set of the numbers for which the claim is true.
LEMMA UpTo ==
    ASSUME NEW m \in Nat, NEW A, 0 \in A,
           \A n \in Nat : n < m /\ n \in A => n + 1 \in A
    PROVE  m \in A
<1> DEFINE Bad == {n \in Nat : n <= m /\ n \notin A}
<1>1. SUFFICES ASSUME m \notin A PROVE FALSE
  OBVIOUS
<1>2. Bad \in SUBSET Nat /\ Bad # {}
  BY <1>1
<1>3. PICK x \in Bad : \A y \in Bad : <<y, x>> \notin OpToRel(<, Nat)
  BY <1>2, NatLessThanWellFounded, WFMin
<1>4. x \in Nat /\ x <= m /\ x \notin A /\ x # 0
  BY <1>3
<1>5. x - 1 \in Nat /\ x - 1 < x /\ x - 1 < m
  BY <1>4
<1>6. x - 1 \notin Bad
  BY <1>3, <1>4, <1>5 DEF OpToRel
<1>7. x - 1 \in A
  BY <1>4, <1>5, <1>6
<1> QED  BY <1>4, <1>5, <1>7

\* The number a loop comes to last.
LEMMA LastOf ==
    ASSUME NEW n \in Nat, NEW S \in SUBSET (1 .. n + 1), n + 1 \in S
    PROVE  Max(S) = n + 1
<1>1. n + 1 \in S /\ \A y \in S : n + 1 >= y
  OBVIOUS
<1>2. \A x \in S : (\A y \in S : x >= y) => x = n + 1
  BY <1>1
<1> QED  BY <1>1, <1>2 DEF Max

LEMMA LastIn ==
    ASSUME NEW n \in Nat, NEW S \in SUBSET (1 .. n), S # {}
    PROVE  Max(S) \in S /\ S \ {Max(S)} \in SUBSET (1 .. n)
<1> DEFINE Left == {k \in Nat : \E x \in S : k = n - x}
<1>1. \A x \in S : x \in Int /\ n - x \in Nat
  OBVIOUS
<1>2. Left \in SUBSET Nat /\ Left # {}
  BY <1>1
<1>3. PICK k \in Left : \A y \in Left : <<y, k>> \notin OpToRel(<, Nat)
  BY <1>2, NatLessThanWellFounded, WFMin
<1>4. PICK m \in S : k = n - m
  BY <1>3
<1>5. \A x \in S : m >= x
  <2>1. TAKE x \in S
  <2>2. n - x \in Left /\ k \in Nat
    BY <1>1, <1>3
  <2>3. ~(n - x < k)
    BY <1>3, <2>2 DEF OpToRel
  <2> QED  BY <1>1, <1>4, <2>3
<1> QED  BY <1>5 DEF Max

LEMMA LastUpTo ==
    ASSUME NEW n \in Nat, NEW i \in 1 .. n
    PROVE  /\ i - 1 \in 0 .. n /\ 1 .. i \in SUBSET (1 .. n) /\ 1 .. i # {}
           /\ Max(1 .. i) = i /\ (1 .. i) \ {i} = 1 .. i - 1
<1>1. Max(1 .. i) = i
  <2>1. i - 1 \in Nat /\ (i - 1) + 1 = i
    OBVIOUS
  <2>2. \A m \in Nat : Max(1 .. m + 1) = m + 1
    BY LastOf
  <2> QED  BY <2>1, <2>2
<1>2. i - 1 \in 0 .. n
  OBVIOUS
<1>3. i \in 1 .. i
  OBVIOUS
<1>4. 1 .. i \in SUBSET (1 .. n)
  OBVIOUS
<1>5. (1 .. i) \ {i} = 1 .. i - 1
  OBVIOUS
<1> QED  BY <1>1, <1>2, <1>3, <1>4, <1>5

\* What a loop over n positions that starts with s has made when it has been at those
\* of a set.
Makes(after, n, T, s, Step) ==
    /\ after \in [SUBSET (1 .. n) -> T]
    /\ \A S \in SUBSET (1 .. n) :
           after[S] = IF S = {} THEN s ELSE Step[Max(S)][after[S \ {Max(S)}]]

\* A loop whose step takes a T to a T makes a T of every set of positions.
LEMMA LoopExists ==
    ASSUME NEW m \in Nat, NEW T, NEW s \in T, NEW Step \in [1 .. m -> [T -> T]]
    PROVE  \E after : Makes(after, m, T, s, Step)
<1> DEFINE Looped(n, f) ==
               /\ f \in [SUBSET (1 .. n) -> T]
               /\ \A S \in SUBSET (1 .. n) :
                      f[S] = IF S = {} THEN s ELSE Step[Max(S)][f[S \ {Max(S)}]]
           A == {n \in Nat : \E f : Looped(n, f)}
<1>1. 0 \in A
  <2> DEFINE f == [S \in SUBSET (1 .. 0) |-> s]
  <2>1. 1 .. 0 = {}
    OBVIOUS
  <2>2. Looped(0, f)
    BY <2>1
  <2> QED  BY <2>2
<1>2. ASSUME NEW n \in Nat, n < m, n \in A PROVE n + 1 \in A
  <2>1. PICK f : Looped(n, f)
    BY <1>2
  <2> DEFINE g == [S \in SUBSET (1 .. n + 1) |->
                      IF n + 1 \in S THEN Step[n + 1][f[S \ {n + 1}]] ELSE f[S]]
  <2>2. n + 1 \in 1 .. m
    BY <1>2
  <2>3. \A S \in SUBSET (1 .. n + 1) : S \ {n + 1} \in SUBSET (1 .. n)
    OBVIOUS
  <2>4. g \in [SUBSET (1 .. n + 1) -> T]
    <3>1. ASSUME NEW S \in SUBSET (1 .. n + 1), n + 1 \in S
          PROVE  Step[n + 1][f[S \ {n + 1}]] \in T
      <4>1. f[S \ {n + 1}] \in T
        BY <2>1, <2>3
      <4> QED  BY <4>1, <2>2
    <3>2. ASSUME NEW S \in SUBSET (1 .. n + 1), n + 1 \notin S PROVE f[S] \in T
      BY <2>1, <2>3, <3>2, S \in SUBSET (1 .. n)
    <3> QED  BY <3>1, <3>2
  <2>5. ASSUME NEW S \in SUBSET (1 .. n + 1)
        PROVE  g[S] = IF S = {} THEN s ELSE Step[Max(S)][g[S \ {Max(S)}]]
    <3>1. CASE n + 1 \in S
      <4>1. Max(S) = n + 1
        BY <3>1, LastOf
      <4>2. g[S \ {n + 1}] = f[S \ {n + 1}]
        BY <2>3
      <4>3. g[S] = Step[n + 1][f[S \ {n + 1}]]
        BY <3>1
      <4> HIDE DEF g
      <4> QED  BY <3>1, <4>1, <4>2, <4>3
    <3>2. CASE n + 1 \notin S
      <4>1. S \in SUBSET (1 .. n) /\ S \ {Max(S)} \in SUBSET (1 .. n)
        <5>1. S \ {n + 1} = S
          BY <3>2
        <5> QED  BY <2>3, <5>1
      <4>2. g[S] = f[S] /\ g[S \ {Max(S)}] = f[S \ {Max(S)}]
        BY <3>2, <4>1
      <4>3. f[S] = IF S = {} THEN s ELSE Step[Max(S)][f[S \ {Max(S)}]]
        BY <2>1, <4>1
      <4> HIDE DEF g
      <4> QED  BY <4>2, <4>3
    <3> QED  BY <3>1, <3>2
  <2> HIDE DEF g
  <2>6. Looped(n + 1, g)
    BY <2>4, <2>5
  <2> HIDE DEF Looped
  <2>7. n + 1 \in Nat
    OBVIOUS
  <2> QED  BY <2>6, <2>7
<1> HIDE DEF A
<1>3. m \in A
  BY <1>1, <1>2, UpTo
<1>4. PICK f : Looped(m, f)
  BY <1>3 DEF A
<1>5. Makes(f, m, T, s, Step)
  BY <1>4 DEF Makes
<1> QED  BY <1>5
================================================================================

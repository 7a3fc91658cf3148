-------------------------- MODULE CommandLine_proofs --------------------------
(***************************************************************************)
(* Proofs about CommandLine, for any words and lines of any length.        *)
(***************************************************************************)
EXTENDS CommandLine, FoldLemmas, SequenceTheorems, FiniteSetTheorems, TLAPS

(***************************************************************************)
(* Leaving out, and cutting, word by word.                                 *)
(***************************************************************************)
Sift(kept, w, S)   == IF w \in S THEN kept ELSE Append(kept, w)
Cut(pieces, w, t) == IF w = t THEN Append(pieces, <<>>)
                     ELSE [pieces EXCEPT ![Len(pieces)] = Append(@, w)]

\* g goes from s0 word by word to what Without(s, S) and CutAt(s, t) are.
Sifting(g, X, s, S) ==
    /\ g \in [0 .. Len(s) -> Seq(X)] /\ g[0] = <<>> /\ g[Len(s)] = Without(s, S)
    /\ \A i \in 1 .. Len(s) : g[i] = Sift(g[i - 1], s[i], S)
Pieces(X) == {q \in Seq(Seq(X)) : q # <<>>}
Cutting(g, X, s, t) ==
    /\ g \in [0 .. Len(s) -> Pieces(X)] /\ g[0] = << <<>> >> /\ g[Len(s)] = CutAt(s, t)
    /\ \A i \in 1 .. Len(s) : g[i] = Cut(g[i - 1], s[i], t)

LEMMA SiftType ==
    ASSUME NEW X, NEW kept \in Seq(X), NEW w \in X, NEW S
    PROVE  Sift(kept, w, S) \in Seq(X)
  BY DEF Sift

LEMMA CutType ==
    ASSUME NEW X, NEW pieces \in Pieces(X), NEW w \in X, NEW t
    PROVE  Cut(pieces, w, t) \in Pieces(X)
<1>1. pieces \in Seq(Seq(X)) /\ Len(pieces) \in 1 .. Len(pieces)
  BY DEF Pieces
<1>2. CASE w = t
  <2>1. <<>> \in Seq(X)
    OBVIOUS
  <2> QED  BY <1>1, <1>2, <2>1 DEF Cut, Pieces
<1>3. CASE w # t
  <2>1. Append(pieces[Len(pieces)], w) \in Seq(X)
    BY <1>1
  <2> DEFINE p == Append(pieces[Len(pieces)], w)
  <2>2. Cut(pieces, w, t) = [pieces EXCEPT ![Len(pieces)] = p]
    BY <1>3 DEF Cut
  <2> HIDE DEF p
  <2>3. [pieces EXCEPT ![Len(pieces)] = p] \in Seq(Seq(X))
    BY <1>1, <2>1, ExceptSeq DEF p
  <2>4. Len([pieces EXCEPT ![Len(pieces)] = p]) = Len(pieces)
    BY <1>1
  <2> QED  BY <1>1, <2>2, <2>3, <2>4 DEF Pieces
<1> QED  BY <1>2, <1>3

LEMMA SiftingExists ==
    ASSUME NEW X, NEW s \in Seq(X), NEW S
    PROVE  \E g : Sifting(g, X, s, S)
<1> DEFINE n == Len(s)
           T == Seq(X)
           Step == [i \in 1 .. n |-> [k \in T |-> Sift(k, s[i], S)]]
           It == CHOOSE iter : iter =
                    [P \in SUBSET DOMAIN s |->
                        IF P = {} THEN <<>> ELSE Sift(iter[P \ {Max(P)}], s[Max(P)], S)]
           g == [i \in 0 .. n |-> It[1 .. i]]
<1>1. Without(s, S) = It[DOMAIN s]
  BY DEF Without, FoldLeft, MapThenFoldSet, Sift
<1>2. n \in Nat /\ DOMAIN s = 1 .. n /\ \A i \in 1 .. n : s[i] \in X
  OBVIOUS
<1>3. \A i \in 1 .. n : \A k \in T : Sift(k, s[i], S) \in T
  BY <1>2, SiftType
<1> HIDE DEF n
<1>4. PICK after : Makes(after, n, T, <<>>, Step)
  <2>1. Step \in [1 .. n -> [T -> T]]
    BY <1>3
  <2>2. <<>> \in T
    OBVIOUS
  <2> HIDE DEF T, Step
  <2> QED  BY <1>2, <2>1, <2>2, LoopExists
<1>5. \A P \in SUBSET (1 .. n) :
          after[P] = IF P = {} THEN <<>> ELSE Sift(after[P \ {Max(P)}], s[Max(P)], S)
  <2>1. TAKE P \in SUBSET (1 .. n)
  <2>2. CASE P # {}
    <3>1. Max(P) \in 1 .. n /\ P \ {Max(P)} \in SUBSET (1 .. n)
      BY <1>2, <2>2, LastIn
    <3>2. after[P \ {Max(P)}] \in T
      BY <1>4, <3>1 DEF Makes
    <3>3. Step[Max(P)][after[P \ {Max(P)}]] = Sift(after[P \ {Max(P)}], s[Max(P)], S)
      BY <3>1, <3>2
    <3>4. after[P] = Step[Max(P)][after[P \ {Max(P)}]]
      BY <1>4, <2>2 DEF Makes
    <3> HIDE DEF Step
    <3> QED  BY <2>2, <3>3, <3>4
  <2>3. CASE P = {}
    BY <1>4, <2>3 DEF Makes
  <2> QED  BY <2>2, <2>3
<1>6. after = [P \in SUBSET DOMAIN s |->
                  IF P = {} THEN <<>> ELSE Sift(after[P \ {Max(P)}], s[Max(P)], S)]
  BY <1>2, <1>4, <1>5 DEF Makes
<1>7. It = [P \in SUBSET DOMAIN s |->
               IF P = {} THEN <<>> ELSE Sift(It[P \ {Max(P)}], s[Max(P)], S)]
  BY <1>6
<1> HIDE DEF It
<1>8. It[1 .. 0] = <<>>
  <2>1. 1 .. 0 = {}
    OBVIOUS
  <2> QED  BY <1>7, <2>1
<1>9. \A i \in 1 .. n : It[1 .. i] = Sift(It[1 .. i - 1], s[i], S)
  <2>1. TAKE i \in 1 .. n
  <2>2. /\ 1 .. i \in SUBSET DOMAIN s /\ 1 .. i # {} /\ Max(1 .. i) = i
        /\ (1 .. i) \ {i} = 1 .. i - 1
    BY <1>2, LastUpTo
  <2>3. It[1 .. i] = Sift(It[(1 .. i) \ {Max(1 .. i)}], s[Max(1 .. i)], S)
    BY <1>7, <2>2
  <2> QED  BY <2>2, <2>3
<1>10. \A i \in 0 .. n : It[1 .. i] \in T
  <2>1. TAKE m \in 0 .. n
  <2> DEFINE A == {k \in Nat : It[1 .. k] \in T}
  <2>2. 0 \in A
    <3>1. It[1 .. 0] \in T
      BY <1>8
    <3> HIDE DEF T
    <3> QED  BY <3>1
  <2>3. ASSUME NEW k \in Nat, k < m, k \in A PROVE k + 1 \in A
    <3>1. k + 1 \in 1 .. n /\ (k + 1) - 1 = k
      BY <1>2, <2>3
    <3>2. It[1 .. k + 1] = Sift(It[1 .. k], s[k + 1], S)
      BY <1>9, <3>1
    <3>3. It[1 .. k] \in T
      BY <2>3
    <3> HIDE DEF T
    <3>4. It[1 .. k + 1] \in T
      BY <1>3, <3>1, <3>2, <3>3
    <3> QED  BY <3>4
  <2>4. m \in Nat
    BY <1>2
  <2> HIDE DEF A
  <2>5. m \in A
    BY <2>2, <2>3, <2>4, UpTo
  <2> QED  BY <2>5 DEF A
<1>11. g \in [0 .. n -> T]
  BY <1>10
<1>12. g[0] = <<>> /\ g[n] = Without(s, S)
  BY <1>1, <1>2, <1>8
<1>13. \A i \in 1 .. n : g[i] = Sift(g[i - 1], s[i], S)
  <2>1. \A i \in 1 .. n : i \in 0 .. n /\ i - 1 \in 0 .. n
    BY <1>2
  <2> QED  BY <1>9, <2>1
<1> HIDE DEF g
<1> QED  BY <1>11, <1>12, <1>13 DEF Sifting, n

LEMMA CuttingExists ==
    ASSUME NEW X, NEW s \in Seq(X), NEW t
    PROVE  \E g : Cutting(g, X, s, t)
<1> DEFINE n == Len(s)
           T == Pieces(X)
           Step == [i \in 1 .. n |-> [k \in T |-> Cut(k, s[i], t)]]
           It == CHOOSE iter : iter =
                    [P \in SUBSET DOMAIN s |->
                        IF P = {} THEN << <<>> >> ELSE Cut(iter[P \ {Max(P)}], s[Max(P)], t)]
           g == [i \in 0 .. n |-> It[1 .. i]]
<1>1. CutAt(s, t) = It[DOMAIN s]
  BY DEF CutAt, FoldLeft, MapThenFoldSet, Cut
<1>2. n \in Nat /\ DOMAIN s = 1 .. n /\ \A i \in 1 .. n : s[i] \in X
  OBVIOUS
<1>3. \A i \in 1 .. n : \A k \in T : Cut(k, s[i], t) \in T
  BY <1>2, CutType
<1> HIDE DEF n
<1>4. PICK after : Makes(after, n, T, << <<>> >>, Step)
  <2>1. Step \in [1 .. n -> [T -> T]]
    BY <1>3
  <2>2. << <<>> >> \in T
    BY DEF Pieces
  <2> HIDE DEF T, Step
  <2> QED  BY <1>2, <2>1, <2>2, LoopExists
<1>5. \A P \in SUBSET (1 .. n) :
          after[P] = IF P = {} THEN << <<>> >> ELSE Cut(after[P \ {Max(P)}], s[Max(P)], t)
  <2>1. TAKE P \in SUBSET (1 .. n)
  <2>2. CASE P # {}
    <3>1. Max(P) \in 1 .. n /\ P \ {Max(P)} \in SUBSET (1 .. n)
      BY <1>2, <2>2, LastIn
    <3>2. after[P \ {Max(P)}] \in T
      BY <1>4, <3>1 DEF Makes
    <3>3. Step[Max(P)][after[P \ {Max(P)}]] = Cut(after[P \ {Max(P)}], s[Max(P)], t)
      BY <3>1, <3>2
    <3>4. after[P] = Step[Max(P)][after[P \ {Max(P)}]]
      BY <1>4, <2>2 DEF Makes
    <3> HIDE DEF Step
    <3> QED  BY <2>2, <3>3, <3>4
  <2>3. CASE P = {}
    BY <1>4, <2>3 DEF Makes
  <2> QED  BY <2>2, <2>3
<1>6. after = [P \in SUBSET DOMAIN s |->
                  IF P = {} THEN << <<>> >> ELSE Cut(after[P \ {Max(P)}], s[Max(P)], t)]
  BY <1>2, <1>4, <1>5 DEF Makes
<1>7. It = [P \in SUBSET DOMAIN s |->
               IF P = {} THEN << <<>> >> ELSE Cut(It[P \ {Max(P)}], s[Max(P)], t)]
  BY <1>6
<1> HIDE DEF It
<1>8. It[1 .. 0] = << <<>> >>
  <2>1. 1 .. 0 = {}
    OBVIOUS
  <2> QED  BY <1>7, <2>1
<1>9. \A i \in 1 .. n : It[1 .. i] = Cut(It[1 .. i - 1], s[i], t)
  <2>1. TAKE i \in 1 .. n
  <2>2. /\ 1 .. i \in SUBSET DOMAIN s /\ 1 .. i # {} /\ Max(1 .. i) = i
        /\ (1 .. i) \ {i} = 1 .. i - 1
    BY <1>2, LastUpTo
  <2>3. It[1 .. i] = Cut(It[(1 .. i) \ {Max(1 .. i)}], s[Max(1 .. i)], t)
    BY <1>7, <2>2
  <2> QED  BY <2>2, <2>3
<1>10. \A i \in 0 .. n : It[1 .. i] \in T
  <2>1. TAKE m \in 0 .. n
  <2> DEFINE A == {k \in Nat : It[1 .. k] \in T}
  <2>2. 0 \in A
    <3>1. It[1 .. 0] \in T
      BY <1>8 DEF Pieces
    <3> HIDE DEF T
    <3> QED  BY <3>1
  <2>3. ASSUME NEW k \in Nat, k < m, k \in A PROVE k + 1 \in A
    <3>1. k + 1 \in 1 .. n /\ (k + 1) - 1 = k
      BY <1>2, <2>3
    <3>2. It[1 .. k + 1] = Cut(It[1 .. k], s[k + 1], t)
      BY <1>9, <3>1
    <3>3. It[1 .. k] \in T
      BY <2>3
    <3> HIDE DEF T
    <3>4. It[1 .. k + 1] \in T
      BY <1>3, <3>1, <3>2, <3>3
    <3> QED  BY <3>4
  <2>4. m \in Nat
    BY <1>2
  <2> HIDE DEF A
  <2>5. m \in A
    BY <2>2, <2>3, <2>4, UpTo
  <2> QED  BY <2>5 DEF A
<1>11. g \in [0 .. n -> T]
  BY <1>10
<1>12. g[0] = << <<>> >> /\ g[n] = CutAt(s, t)
  BY <1>1, <1>2, <1>8
<1>13. \A i \in 1 .. n : g[i] = Cut(g[i - 1], s[i], t)
  <2>1. \A i \in 1 .. n : i \in 0 .. n /\ i - 1 \in 0 .. n
    BY <1>2
  <2> QED  BY <1>9, <2>1
<1> HIDE DEF g
<1> QED  BY <1>11, <1>12, <1>13 DEF Cutting, n

(***************************************************************************)
(* The same as equations, and induction over sequences.                    *)
(***************************************************************************)
LEMMA SeqInduction ==
    ASSUME NEW X, NEW A, <<>> \in A,
           \A s \in Seq(X) : \A x \in X : s \in A => Append(s, x) \in A
    PROVE  \A s \in Seq(X) : s \in A
<1>1. TAKE s \in Seq(X)
<1> DEFINE N == {n \in Nat : \A q \in Seq(X) : Len(q) = n => q \in A}
<1>2. 0 \in N
  <2>1. \A q \in Seq(X) : Len(q) = 0 => q = <<>>
    OBVIOUS
  <2> QED  BY <2>1
<1>3. ASSUME NEW n \in Nat, n < Len(s), n \in N PROVE n + 1 \in N
  <2>1. SUFFICES ASSUME NEW q \in Seq(X), Len(q) = n + 1 PROVE q \in A
    OBVIOUS
  <2>2. q # <<>>
    BY <2>1
  <2>3. PICK r \in Seq(X), x \in X : q = Append(r, x)
    BY <2>2, SequenceEmptyOrAppend
  <2>4. Len(r) = n
    BY <2>1, <2>3
  <2> QED  BY <1>3, <2>3, <2>4
<1>4. Len(s) \in Nat
  OBVIOUS
<1> HIDE DEF N
<1>5. Len(s) \in N
  BY <1>2, <1>3, <1>4, UpTo
<1> QED  BY <1>5 DEF N

LEMMA WithoutNone ==
    ASSUME NEW S PROVE Without(<<>>, S) = <<>>
<1>1. <<>> \in Seq({}) /\ Len(<<>>) = 0
  OBVIOUS
<1>2. PICK g : Sifting(g, {}, <<>>, S)
  BY <1>1, SiftingExists
<1> QED  BY <1>1, <1>2 DEF Sifting

LEMMA WithoutAppend ==
    ASSUME NEW X, NEW s \in Seq(X), NEW x \in X, NEW S
    PROVE  /\ Without(s, S) \in Seq(X)
           /\ Without(Append(s, x), S) = Sift(Without(s, S), x, S)
<1> DEFINE l == Append(s, x)
<1>1. /\ l \in Seq(X) /\ Len(l) = Len(s) + 1 /\ Len(s) \in Nat
      /\ l[Len(s) + 1] = x /\ \A i \in 1 .. Len(s) : l[i] = s[i]
  OBVIOUS
<1> HIDE DEF l
<1>2. PICK g : Sifting(g, X, s, S)
  BY SiftingExists
<1>3. PICK h : Sifting(h, X, l, S)
  BY <1>1, SiftingExists
<1> DEFINE A == {n \in Nat : h[n] = g[n]}
<1>4. 0 \in A
  BY <1>2, <1>3 DEF Sifting
<1>5. ASSUME NEW n \in Nat, n < Len(s), n \in A PROVE n + 1 \in A
  <2>1. n + 1 \in 1 .. Len(s) /\ n + 1 \in 1 .. Len(l) /\ (n + 1) - 1 = n
    BY <1>1, <1>5
  <2>2. g[n + 1] = Sift(g[n], s[n + 1], S)
    BY <1>2, <2>1 DEF Sifting
  <2>3. h[n + 1] = Sift(h[n], l[n + 1], S)
    BY <1>3, <2>1 DEF Sifting
  <2> QED  BY <1>1, <1>5, <2>1, <2>2, <2>3
<1> HIDE DEF A
<1>6. Len(s) \in A
  BY <1>1, <1>4, <1>5, UpTo
<1>7. h[Len(s)] = g[Len(s)]
  BY <1>6 DEF A
<1>8. g[Len(s)] = Without(s, S) /\ Without(s, S) \in Seq(X)
  BY <1>1, <1>2 DEF Sifting
<1>9. h[Len(s) + 1] = Sift(h[Len(s)], x, S)
  <2>1. Len(s) + 1 \in 1 .. Len(l) /\ (Len(s) + 1) - 1 = Len(s)
    BY <1>1
  <2> QED  BY <1>1, <1>3, <2>1 DEF Sifting
<1>10. h[Len(s) + 1] = Without(l, S)
  BY <1>1, <1>3 DEF Sifting
<1> QED  BY <1>7, <1>8, <1>9, <1>10 DEF l

LEMMA CutNone ==
    ASSUME NEW t PROVE CutAt(<<>>, t) = << <<>> >>
<1>1. <<>> \in Seq({}) /\ Len(<<>>) = 0
  OBVIOUS
<1>2. PICK g : Cutting(g, {}, <<>>, t)
  BY <1>1, CuttingExists
<1> QED  BY <1>1, <1>2 DEF Cutting

LEMMA CutAppend ==
    ASSUME NEW X, NEW s \in Seq(X), NEW x \in X, NEW t
    PROVE  /\ CutAt(s, t) \in Pieces(X)
           /\ CutAt(Append(s, x), t) = Cut(CutAt(s, t), x, t)
<1> DEFINE l == Append(s, x)
<1>1. /\ l \in Seq(X) /\ Len(l) = Len(s) + 1 /\ Len(s) \in Nat
      /\ l[Len(s) + 1] = x /\ \A i \in 1 .. Len(s) : l[i] = s[i]
  OBVIOUS
<1> HIDE DEF l
<1>2. PICK g : Cutting(g, X, s, t)
  BY CuttingExists
<1>3. PICK h : Cutting(h, X, l, t)
  BY <1>1, CuttingExists
<1> DEFINE A == {n \in Nat : h[n] = g[n]}
<1>4. 0 \in A
  BY <1>2, <1>3 DEF Cutting
<1>5. ASSUME NEW n \in Nat, n < Len(s), n \in A PROVE n + 1 \in A
  <2>1. n + 1 \in 1 .. Len(s) /\ n + 1 \in 1 .. Len(l) /\ (n + 1) - 1 = n
    BY <1>1, <1>5
  <2>2. g[n + 1] = Cut(g[n], s[n + 1], t)
    BY <1>2, <2>1 DEF Cutting
  <2>3. h[n + 1] = Cut(h[n], l[n + 1], t)
    BY <1>3, <2>1 DEF Cutting
  <2> QED  BY <1>1, <1>5, <2>1, <2>2, <2>3
<1> HIDE DEF A
<1>6. Len(s) \in A
  BY <1>1, <1>4, <1>5, UpTo
<1>7. h[Len(s)] = g[Len(s)]
  BY <1>6 DEF A
<1>8. g[Len(s)] = CutAt(s, t) /\ CutAt(s, t) \in Pieces(X)
  BY <1>1, <1>2 DEF Cutting
<1>9. h[Len(s) + 1] = Cut(h[Len(s)], x, t)
  <2>1. Len(s) + 1 \in 1 .. Len(l) /\ (Len(s) + 1) - 1 = Len(s)
    BY <1>1
  <2> QED  BY <1>1, <1>3, <2>1 DEF Cutting
<1>10. h[Len(s) + 1] = CutAt(l, t)
  BY <1>1, <1>3 DEF Cutting
<1> QED  BY <1>7, <1>8, <1>9, <1>10 DEF l

LEMMA WithoutKeeps ==
    ASSUME NEW X, NEW s \in Seq(X), NEW S, S \cap X = {}
    PROVE  Without(s, S) = s
<1> DEFINE A == {q \in Seq(X) : Without(q, S) = q}
<1>1. <<>> \in A
  BY WithoutNone
<1>2. ASSUME NEW q \in Seq(X), NEW x \in X, q \in A PROVE Append(q, x) \in A
  <2>1. Without(Append(q, x), S) = Sift(Without(q, S), x, S)
    BY WithoutAppend
  <2>2. Without(q, S) = q /\ x \notin S
    BY <1>2
  <2>3. Append(q, x) \in Seq(X)
    OBVIOUS
  <2> QED  BY <2>1, <2>2, <2>3 DEF Sift
<1> HIDE DEF A
<1>3. s \in A
  BY <1>1, <1>2, SeqInduction
<1> QED  BY <1>3 DEF A

LEMMA WithoutType ==
    ASSUME NEW X, NEW s \in Seq(X), NEW S
    PROVE  Without(s, S) \in Seq(X \ S)
<1> DEFINE A == {q \in Seq(X) : Without(q, S) \in Seq(X \ S)}
<1>1. <<>> \in A
  <2>1. <<>> \in Seq(X) /\ <<>> \in Seq(X \ S)
    OBVIOUS
  <2> QED  BY <2>1, WithoutNone
<1>2. ASSUME NEW q \in Seq(X), NEW x \in X, q \in A PROVE Append(q, x) \in A
  <2>1. Without(Append(q, x), S) = Sift(Without(q, S), x, S)
    BY WithoutAppend
  <2>2. Without(q, S) \in Seq(X \ S) /\ Append(q, x) \in Seq(X)
    BY <1>2
  <2>3. x \notin S => Append(Without(q, S), x) \in Seq(X \ S)
    BY <2>2
  <2> QED  BY <2>1, <2>2, <2>3 DEF Sift
<1> HIDE DEF A
<1>3. s \in A
  BY <1>1, <1>2, SeqInduction
<1> QED  BY <1>3 DEF A

CutOff(Q, last, w, t) == IF w = t THEN Append(Append(Q, last), <<>>)
                         ELSE Append(Q, Append(last, w))

LEMMA CutLast ==
    ASSUME NEW X, NEW Q \in Seq(Seq(X)), NEW last \in Seq(X), NEW w \in X, NEW t
    PROVE  Cut(Append(Q, last), w, t) = CutOff(Q, last, w, t)
<1>1. Len(Append(Q, last)) = Len(Q) + 1 /\ Append(Q, last)[Len(Q) + 1] = last
  OBVIOUS
<1> DEFINE p == Append(last, w)
           q == Append(Q, last)
<1>2. [q EXCEPT ![Len(Q) + 1] = p] = Append(Q, p)
  <2>1. q \in Seq(Seq(X)) /\ p \in Seq(X) /\ Len(Q) + 1 \in 1 .. Len(q)
    BY <1>1
  <2>2. \A i \in 1 .. Len(Q) : q[i] = Q[i]
    OBVIOUS
  <2> HIDE DEF p
  <2>3. Append(Q, p) \in Seq(Seq(X)) /\ Len(Append(Q, p)) = Len(q)
    BY <1>1, <2>1
  <2>4. Append(Q, p)[Len(Q) + 1] = p /\ \A i \in 1 .. Len(Q) : Append(Q, p)[i] = Q[i]
    BY <2>1
  <2> HIDE DEF q
  <2>5. /\ [q EXCEPT ![Len(Q) + 1] = p] \in Seq(Seq(X))
        /\ Len([q EXCEPT ![Len(Q) + 1] = p]) = Len(q)
        /\ \A i \in 1 .. Len(q) : [q EXCEPT ![Len(Q) + 1] = p][i] = IF i = Len(Q) + 1 THEN p ELSE q[i]
    BY <2>1, ExceptSeq
  <2>6. Len(q) = Len(Q) + 1
    BY <1>1 DEF q
  <2>7. \A i \in 1 .. Len(q) : [q EXCEPT ![Len(Q) + 1] = p][i] = Append(Q, p)[i]
    BY <2>2, <2>4, <2>5, <2>6
  <2> QED  BY <2>3, <2>5, <2>7, SeqEqual
<1> QED  BY <1>1, <1>2 DEF Cut, CutOff

(***************************************************************************)
(* The line, word by word.                                                 *)
(***************************************************************************)
Filled     == Words \cup {Blank}
Token      == Filled \cup {Semicolon, Newline}
TypedLines == LET texts == Seq(Filled \cup {Semicolon})
              IN  texts \cup {Append(l, Newline) : l \in texts}

Prefix(n) == SubSeq(line, 1, n)
Indices(n) == [i \in 1 .. n |-> i]
Other(p) == {n \in 1 .. Len(line) : PlaceOf(n) # p \/ line[n] \notin Words}

\* What of the p-th command is among the first n words.
Mine(p, n) == Without(Indices(n), Other(p))
TypedUpTo(p, n) == [i \in 1 .. Len(Mine(p, n)) |-> line[Mine(p, n)[i]]]

LEMMA PlaceFirst == PlaceOf(0) = 0
<1>1. {i \in 1 .. 0 : Ends(i)} = {}
  OBVIOUS
<1> QED  BY <1>1, FS_EmptySet DEF PlaceOf

LEMMA PlaceNext ==
    ASSUME NEW n \in Nat
    PROVE  PlaceOf(n) \in Nat /\ PlaceOf(n + 1) = IF Ends(n + 1) THEN PlaceOf(n) + 1 ELSE PlaceOf(n)
<1> DEFINE E(m) == {i \in 1 .. m : Ends(i)}
<1>1. IsFiniteSet(E(n))
  <2>1. IsFiniteSet(1 .. n)
    BY FS_Interval
  <2> QED  BY <2>1, FS_Subset
<1>2. Cardinality(E(n)) \in Nat
  BY <1>1, FS_CardinalityType
<1>3. CASE Ends(n + 1)
  <2>1. E(n + 1) = E(n) \cup {n + 1} /\ n + 1 \notin E(n)
    BY <1>3
  <2> HIDE DEF E
  <2>2. Cardinality(E(n + 1)) = Cardinality(E(n)) + 1
    BY <1>1, <2>1, FS_AddElement
  <2> QED  BY <1>2, <1>3, <2>2 DEF PlaceOf, E
<1>4. CASE ~Ends(n + 1)
  <2>1. E(n + 1) = E(n)
    BY <1>4
  <2> QED  BY <1>2, <1>4, <2>1 DEF PlaceOf
<1> QED  BY <1>3, <1>4

LEMMA TypedNone ==
    ASSUME NEW p PROVE TypedUpTo(p, 0) = <<>>
<1>1. Indices(0) = <<>>
  BY DEF Indices
<1>2. Mine(p, 0) = <<>>
  BY <1>1, WithoutNone DEF Mine
<1> QED  BY <1>2 DEF TypedUpTo

LEMMA TypedNext ==
    ASSUME line \in Seq(Token), NEW p, NEW n \in Nat, n + 1 <= Len(line)
    PROVE  TypedUpTo(p, n + 1) = IF PlaceOf(n + 1) = p /\ line[n + 1] \in Words
                                 THEN Append(TypedUpTo(p, n), line[n + 1])
                                 ELSE TypedUpTo(p, n)
<1>1. Indices(n) \in Seq(1 .. Len(line)) /\ Len(line) \in Nat /\ n + 1 \in 1 .. Len(line)
  BY DEF Indices
<1>2. Indices(n + 1) = Append(Indices(n), n + 1)
  BY DEF Indices
<1>3. /\ Mine(p, n) \in Seq(1 .. Len(line))
      /\ Mine(p, n + 1) = Sift(Mine(p, n), n + 1, Other(p))
  <2> DEFINE X == 1 .. Len(line)
             s == Indices(n)
             x == n + 1
             S == Other(p)
  <2>1. s \in Seq(X) /\ x \in X /\ Mine(p, n) = Without(s, S)
        /\ Mine(p, n + 1) = Without(Append(s, x), S)
    BY <1>1, <1>2 DEF Mine
  <2> HIDE DEF X, s, x, S
  <2>2. Without(s, S) \in Seq(X) /\ Without(Append(s, x), S) = Sift(Without(s, S), x, S)
    BY <2>1, WithoutAppend
  <2>3. Mine(p, n) \in Seq(X) /\ Mine(p, n + 1) = Sift(Mine(p, n), x, S)
    BY <2>1, <2>2
  <2> QED  BY <2>3 DEF X, x, S
<1>4. CASE PlaceOf(n + 1) = p /\ line[n + 1] \in Words
  <2>1. n + 1 \notin Other(p)
    BY <1>4 DEF Other
  <2>2. Mine(p, n + 1) = Append(Mine(p, n), n + 1)
    BY <1>3, <2>1 DEF Sift
  <2> DEFINE m == Mine(p, n)
             f == [i \in 1 .. Len(m) |-> line[m[i]]]
             h == [i \in 1 .. Len(m) + 1 |-> line[Append(m, n + 1)[i]]]
  <2>3. m \in Seq(1 .. Len(line))
    BY <1>3
  <2> HIDE DEF m
  <2>4. \A i \in 1 .. Len(m) : line[m[i]] \in Token
    BY <2>3
  <2>5. f \in Seq(Token) /\ Len(f) = Len(m)
    BY <2>3, <2>4
  <2>6. h = Append(f, line[n + 1])
    <3>1. line[n + 1] \in Token
      BY <1>1
    <3>2. h \in Seq(Token) /\ Len(h) = Len(m) + 1
      BY <2>3, <2>4, <3>1
    <3>3. \A i \in 1 .. Len(m) + 1 : h[i] = Append(f, line[n + 1])[i]
      BY <2>3, <2>5
    <3> QED  BY <2>5, <3>1, <3>2, <3>3
  <2>7. TypedUpTo(p, n) = f
    BY DEF TypedUpTo, m
  <2>8. TypedUpTo(p, n + 1) = h
    BY <2>2, <2>3 DEF TypedUpTo, m
  <2> QED  BY <1>4, <2>6, <2>7, <2>8
<1>5. CASE ~(PlaceOf(n + 1) = p /\ line[n + 1] \in Words)
  <2>1. n + 1 \in Other(p)
    BY <1>1, <1>5 DEF Other
  <2>2. Mine(p, n + 1) = Mine(p, n)
    BY <1>3, <2>1 DEF Sift
  <2> QED  BY <1>5, <2>2 DEF TypedUpTo
<1> QED  BY <1>4, <1>5

LEMMA TypedWhole ==
    ASSUME NEW p PROVE Typed(p) = TypedUpTo(p, Len(line))
  BY DEF Typed, TypedUpTo, Mine, Indices, Other

LEMMA NotTyped ==
    /\ Semicolon \notin Words /\ Newline \notin Words /\ Wild \notin Words /\ Blank \notin Words
    /\ Newline # Semicolon /\ Newline # "NULL" /\ "NULL" \notin Words
    /\ Blank # Semicolon /\ Blank # Newline /\ Blank # "NULL"
<1>1. Newline # Semicolon
  BY Zenon DEF Newline, Semicolon
<1>2. Newline # "NULL"
  BY Zenon DEF Newline
<1>3. Blank # Semicolon
  BY Zenon DEF Blank, Semicolon
<1>4. Blank # Newline
  BY Zenon DEF Blank, Newline
<1>5. Blank # "NULL"
  BY Zenon DEF Blank
<1> QED  BY <1>1, <1>2, <1>3, <1>4, <1>5, WordsAssumption

\* The words of a piece, one more word or blank of it read.
LEMMA WordsNext ==
    ASSUME NEW s \in Seq(Filled \cup {Newline}), NEW x \in Filled \cup {Newline}
    PROVE  /\ WordsOf(s) \in Seq(Words)
           /\ WordsOf(Append(s, x)) = IF x \in Words THEN Append(WordsOf(s), x) ELSE WordsOf(s)
<1> DEFINE X == Filled \cup {Newline}
           S == {Blank, Newline}
<1>1. X \ S = Words /\ (x \in S <=> x \notin Words)
  BY NotTyped DEF Filled
<1> HIDE DEF X, S
<1>2. s \in Seq(X) /\ x \in X
  BY DEF X
<1>3. Without(s, S) \in Seq(X \ S)
  BY <1>2, WithoutType
<1>4. Without(Append(s, x), S) = Sift(Without(s, S), x, S)
  BY <1>2, WithoutAppend
<1>5. WordsOf(s) = Without(s, S) /\ WordsOf(Append(s, x)) = Without(Append(s, x), S)
  BY DEF WordsOf, S
<1> QED  BY <1>1, <1>3, <1>4, <1>5 DEF Sift

Kept(Q)  == Without(Q, {<<>>})

\* The first n words, none of them the newline, have been cut: Q are the commands that are
\* complete, the empty ones among them, last is the one that is not.
ReadTo(n, Q, last) ==
    /\ Q \in Seq(Seq(Filled)) /\ last \in Seq(Filled)
    /\ CutAt(Prefix(n), Semicolon) = Append(Q, last)
    /\ last = <<>> <=> n = 0 \/ line[n] = Semicolon
    /\ Kept(Q) \in Seq(Seq(Filled)) /\ Len(Kept(Q)) = PlaceOf(n)
    /\ \A i \in 1 .. PlaceOf(n) : Kept(Q)[i] # <<>>
    /\ \A p \in Nat : TypedUpTo(p, n) = IF p < PlaceOf(n) THEN WordsOf(Kept(Q)[p + 1])
                                        ELSE IF p = PlaceOf(n) THEN WordsOf(last) ELSE <<>>

LEMMA PrefixNext ==
    ASSUME NEW X, line \in Seq(X), NEW n \in Nat, n + 1 <= Len(line)
    PROVE  /\ Prefix(n) \in Seq(X) /\ line[n + 1] \in X
           /\ Prefix(n + 1) = Append(Prefix(n), line[n + 1])
  BY DEF Prefix

LEMMA ReadFirst == ReadTo(0, <<>>, <<>>)
<1> DEFINE e == <<>>
<1>1. Prefix(0) = <<>>
  BY DEF Prefix
<1>2. CutAt(Prefix(0), Semicolon) = Append(e, e) /\ Kept(e) = e /\ WordsOf(e) = e
  <2>1. << <<>> >> = Append(<<>>, <<>>)
    OBVIOUS
  <2> QED  BY <1>1, <2>1, CutNone, WithoutNone DEF Kept, WordsOf
<1>3. e \in Seq(Seq(Filled)) /\ e \in Seq(Filled) /\ Len(e) = 0 /\ e = <<>>
  OBVIOUS
<1>4. \A p \in Nat : TypedUpTo(p, 0) = e
  BY TypedNone
<1> HIDE DEF e
<1>5. ReadTo(0, e, e)
  <2>1. \A p \in Nat : ~(p < 0)
    OBVIOUS
  <2>2. 1 .. 0 = {}
    OBVIOUS
  <2> QED  BY ONLY <1>2, <1>3, <1>4, <2>1, <2>2, PlaceFirst DEF ReadTo
<1> QED  BY <1>3, <1>5

\* What is the same in all cases of the next word.
LEMMA ReadNext ==
    ASSUME line \in Seq(Token), NEW n \in Nat, n + 1 <= Len(line),
           NEW Q, NEW last, ReadTo(n, Q, last), line[n + 1] \in Filled \cup {Semicolon},
           \A i \in 1 .. n : line[i] \in Filled \cup {Semicolon}
    PROVE  CutAt(Prefix(n + 1), Semicolon) =
               IF line[n + 1] = Semicolon THEN Append(Append(Q, last), <<>>)
               ELSE Append(Q, Append(last, line[n + 1]))
<1> DEFINE X == Filled \cup {Semicolon}
           x == line[n + 1]
           s == Prefix(n)
<1>1. s \in Seq(X) /\ x \in X
  <2>1. s = [i \in 1 .. n |-> line[i]]
    BY DEF Prefix
  <2> QED  BY <2>1
<1>2. Prefix(n + 1) = Append(s, x)
  BY PrefixNext
<1>4. Q \in Seq(Seq(X)) /\ last \in Seq(X) /\ CutAt(s, Semicolon) = Append(Q, last)
  BY DEF ReadTo
<1> HIDE DEF X, x, s
<1>5. CutAt(Append(s, x), Semicolon) = Cut(CutAt(s, Semicolon), x, Semicolon)
  BY <1>1, CutAppend
<1>6. Cut(Append(Q, last), x, Semicolon) = CutOff(Q, last, x, Semicolon)
  BY <1>1, <1>4, CutLast
<1> QED  BY <1>2, <1>4, <1>5, <1>6 DEF CutOff, x

LEMMA ReadWord ==
    ASSUME line \in Seq(Token), NEW n \in Nat, n + 1 <= Len(line),
           NEW Q, NEW last, ReadTo(n, Q, last), line[n + 1] \in Filled,
           \A i \in 1 .. n : line[i] \in Filled \cup {Semicolon}
    PROVE  ReadTo(n + 1, Q, Append(last, line[n + 1]))
<1> DEFINE x == line[n + 1]
<1>1. x # Semicolon /\ x \in Filled
  BY NotTyped DEF Filled
<1>2. CutAt(Prefix(n + 1), Semicolon) = Append(Q, Append(last, x))
  BY <1>1, ReadNext
<1>3. PlaceOf(n + 1) = PlaceOf(n) /\ PlaceOf(n) \in Nat
  BY <1>1, PlaceNext DEF Ends
<1>4. \A p \in Nat : TypedUpTo(p, n + 1) = IF PlaceOf(n) = p /\ x \in Words THEN Append(TypedUpTo(p, n), x)
                                           ELSE TypedUpTo(p, n)
  BY <1>3, TypedNext
<1> HIDE DEF x
<1>5. Append(last, x) \in Seq(Filled) /\ Append(last, x) # <<>>
  <2>1. last \in Seq(Filled)
    BY DEF ReadTo
  <2> QED  BY <1>1, <2>1
<1>6. WordsOf(Append(last, x)) = IF x \in Words THEN Append(WordsOf(last), x) ELSE WordsOf(last)
  <2>1. last \in Seq(Filled \cup {Newline})
    <3>1. last \in Seq(Filled)
      BY DEF ReadTo
    <3> QED  BY <3>1
  <2> QED  BY <1>1, <2>1, WordsNext
<1>7. \A p \in Nat : TypedUpTo(p, n + 1) = IF p < PlaceOf(n) THEN WordsOf(Kept(Q)[p + 1])
                                           ELSE IF p = PlaceOf(n) THEN WordsOf(Append(last, x)) ELSE <<>>
  <2>1. TAKE p \in Nat
  <2>2. TypedUpTo(p, n) = IF p < PlaceOf(n) THEN WordsOf(Kept(Q)[p + 1])
                          ELSE IF p = PlaceOf(n) THEN WordsOf(last) ELSE <<>>
    BY DEF ReadTo
  <2> QED  BY <1>3, <1>4, <1>6, <2>2
<1>8. ~(n + 1 = 0 \/ line[n + 1] = Semicolon)
  BY <1>1 DEF x
<1>9. ReadTo(n + 1, Q, Append(last, x))
  BY <1>2, <1>3, <1>5, <1>7, <1>8 DEF ReadTo
<1> QED  BY <1>9 DEF x

LEMMA ReadCut ==
    ASSUME line \in Seq(Token), NEW n \in Nat, n + 1 <= Len(line),
           NEW Q, NEW last, ReadTo(n, Q, last), line[n + 1] = Semicolon,
           \A i \in 1 .. n : line[i] \in Filled \cup {Semicolon}
    PROVE  ReadTo(n + 1, Append(Q, last), <<>>)
<1>1. CutAt(Prefix(n + 1), Semicolon) = Append(Append(Q, last), <<>>)
  BY ReadNext
<1>2. Semicolon \notin Words
  BY WordsAssumption
<1>3. \A p \in Nat : TypedUpTo(p, n + 1) = TypedUpTo(p, n)
  BY <1>2, TypedNext
<1>4. /\ Q \in Seq(Seq(Filled)) /\ last \in Seq(Filled) /\ PlaceOf(n) \in Nat
      /\ last = <<>> <=> n = 0 \/ line[n] = Semicolon
      /\ Kept(Q) \in Seq(Seq(Filled)) /\ Len(Kept(Q)) = PlaceOf(n)
  BY PlaceNext DEF ReadTo
<1>5. Ends(n + 1) <=> last # <<>>
  BY <1>4 DEF Ends
<1>6. Kept(Append(Q, last)) = IF last = <<>> THEN Kept(Q) ELSE Append(Kept(Q), last)
  <2>1. Without(Append(Q, last), {<<>>}) = Sift(Without(Q, {<<>>}), last, {<<>>})
    BY <1>4, WithoutAppend
  <2> QED  BY <2>1 DEF Kept, Sift
<1>7. Append(Q, last) \in Seq(Seq(Filled)) /\ <<>> \in Seq(Filled)
  BY <1>4
<1>0. WordsOf(<<>>) = <<>>
  BY WithoutNone DEF WordsOf
<1>8. CASE last = <<>>
  <2>1. PlaceOf(n + 1) = PlaceOf(n) /\ Kept(Append(Q, last)) = Kept(Q)
    BY <1>5, <1>6, <1>8, PlaceNext
  <2> QED  BY <1>1, <1>3, <1>7, <1>8, <2>1 DEF ReadTo
<1>9. CASE last # <<>>
  <2> DEFINE K == Append(Kept(Q), last)
  <2>1. PlaceOf(n + 1) = PlaceOf(n) + 1 /\ Kept(Append(Q, last)) = K
    BY <1>5, <1>6, <1>9, PlaceNext
  <2>2. K \in Seq(Seq(Filled)) /\ Len(K) = PlaceOf(n + 1) /\ K[PlaceOf(n + 1)] = last
    BY <1>4, <2>1
  <2>3. \A i \in 1 .. PlaceOf(n) : K[i] = Kept(Q)[i]
    BY <1>4
  <2>4. \A i \in 1 .. PlaceOf(n) : Kept(Q)[i] # <<>>
    BY DEF ReadTo
  <2>5. \A i \in 1 .. PlaceOf(n + 1) : K[i] # <<>>
    <3>1. TAKE i \in 1 .. PlaceOf(n + 1)
    <3>2. i \in 1 .. PlaceOf(n) \/ i = PlaceOf(n + 1)
      BY <1>4, <2>1
    <3> HIDE DEF K
    <3> QED  BY <1>9, <2>2, <2>3, <2>4, <3>2
  <2>6. \A p \in Nat : TypedUpTo(p, n + 1) = IF p < PlaceOf(n + 1) THEN WordsOf(K[p + 1]) ELSE <<>>
    <3>1. TAKE p \in Nat
    <3>2. TypedUpTo(p, n) = IF p < PlaceOf(n) THEN WordsOf(Kept(Q)[p + 1])
                            ELSE IF p = PlaceOf(n) THEN WordsOf(last) ELSE <<>>
      BY DEF ReadTo
    <3> HIDE DEF K
    <3>3. CASE p < PlaceOf(n)
      <4>1. p + 1 \in 1 .. PlaceOf(n) /\ p < PlaceOf(n + 1)
        BY <1>4, <2>1, <3>3
      <4> QED  BY <1>3, <2>3, <3>2, <3>3, <4>1
    <3>4. CASE p = PlaceOf(n)
      <4>1. p + 1 = PlaceOf(n + 1) /\ p < PlaceOf(n + 1) /\ ~(p < PlaceOf(n))
        BY <1>4, <2>1, <3>4
      <4> QED  BY <1>3, <2>2, <3>2, <3>4, <4>1
    <3>5. CASE p > PlaceOf(n)
      <4>1. ~(p < PlaceOf(n + 1)) /\ ~(p < PlaceOf(n)) /\ p # PlaceOf(n)
        BY <1>4, <2>1, <3>5
      <4> QED  BY <1>3, <3>2, <4>1
    <3> QED  BY <1>4, <3>3, <3>4, <3>5
  <2> HIDE DEF K
  <2>8. <<>> = <<>> <=> n + 1 = 0 \/ line[n + 1] = Semicolon
    OBVIOUS
  <2> DEFINE Qs == Append(Q, last)
  <2> HIDE DEF Qs
  <2>9. /\ Qs \in Seq(Seq(Filled)) /\ <<>> \in Seq(Filled)
        /\ CutAt(Prefix(n + 1), Semicolon) = Append(Qs, <<>>)
        /\ Kept(Qs) = K
    BY <1>1, <1>7, <2>1 DEF Qs
  <2>10. \A p \in Nat : TypedUpTo(p, n + 1) = IF p < PlaceOf(n + 1) THEN WordsOf(Kept(Qs)[p + 1])
                                               ELSE IF p = PlaceOf(n + 1) THEN WordsOf(<<>>) ELSE <<>>
    BY ONLY <1>0, <2>6, <2>9
  <2>11. ReadTo(n + 1, Qs, <<>>)
    BY ONLY <2>2, <2>5, <2>8, <2>9, <2>10 DEF ReadTo
  <2> QED  BY <2>11 DEF Qs
<1> QED  BY <1>8, <1>9

LEMMA ReadAll ==
    ASSUME line \in Seq(Token), NEW m \in Nat, m <= Len(line),
           \A i \in 1 .. m : line[i] \in Filled \cup {Semicolon}
    PROVE  \E Q, last : ReadTo(m, Q, last)
<1> DEFINE A == {n \in Nat : \E Q, last : ReadTo(n, Q, last)}
<1>1. 0 \in A
  BY ReadFirst
<1>2. ASSUME NEW n \in Nat, n < m, n \in A PROVE n + 1 \in A
  <2>1. PICK Q, last : ReadTo(n, Q, last)
    BY <1>2
  <2>2. n + 1 \in 1 .. m /\ n + 1 <= Len(line) /\ \A i \in 1 .. n : line[i] \in Filled \cup {Semicolon}
    BY <1>2
  <2>3. CASE line[n + 1] \in Filled
    BY <2>1, <2>2, <2>3, ReadWord
  <2>4. CASE line[n + 1] = Semicolon
    BY <2>1, <2>2, <2>4, ReadCut
  <2> QED  BY <2>2, <2>3, <2>4
<1> HIDE DEF A
<1>3. m \in A
  BY <1>1, <1>2, UpTo
<1> QED  BY <1>3 DEF A

\* The line as the shell has cut it, and as the user meant it.
LineRead ==
    LET C == split_command(line)
    IN  /\ C \in Seq(Seq(Filled \cup {Newline}))
        /\ \A i \in 1 .. Len(C) : C[i] # <<>> /\ C[i] # NULL
        /\ \A p \in Nat : Typed(p) = IF p < Len(C) THEN WordsOf(C[p + 1]) ELSE <<>>
        /\ \A p \in Nat : Typed(p) \in Seq(Words)
        /\ Typed(0) # <<>> => Remains(line) = <<Head(Typed(0))>>

LEMMA NotNull ==
    ASSUME NEW s \in Seq(Filled \cup {Newline}) PROVE s # NULL
<1>1. SUFFICES ASSUME s = NULL PROVE FALSE
  OBVIOUS
<1>2. Len(NULL) = 1 /\ NULL[1] = "NULL"
  BY DEF NULL
<1>3. s[1] \in Filled \cup {Newline}
  BY <1>1, <1>2
<1> QED  BY <1>1, <1>2, <1>3, NotTyped DEF Filled

\* The end of the line: what the last command is, and that it is left out if it is empty.
LEMMA ReadEnd ==
    ASSUME NEW m \in Nat, NEW Q, NEW last, NEW tail \in Seq(Filled \cup {Newline}), ReadTo(m, Q, last),
           \A p \in Nat : Typed(p) = TypedUpTo(p, m),
           WordsOf(tail) = WordsOf(last),
           split_command(line) = IF tail = <<>> THEN Kept(Q) ELSE Append(Kept(Q), tail)
    PROVE  LineRead
<1> DEFINE C == split_command(line)
           T == Filled \cup {Newline}
           K == Kept(Q)
           P == PlaceOf(m)
<1>1. P \in Nat
  BY PlaceNext
<1>2. /\ K \in Seq(Seq(Filled)) /\ Len(K) = P
      /\ \A i \in 1 .. P : K[i] # <<>>
  BY DEF ReadTo
<1>3. \A p \in Nat : Typed(p) = IF p < P THEN WordsOf(K[p + 1]) ELSE IF p = P THEN WordsOf(tail) ELSE <<>>
  BY DEF ReadTo
<1>4. K \in Seq(Seq(T)) /\ tail \in Seq(T)
  BY <1>2
<1>5. C = IF tail = <<>> THEN K ELSE Append(K, tail)
  OBVIOUS
<1>6. \A s \in Seq(T) : WordsOf(s) \in Seq(Words)
  <2>1. Newline \in T
    OBVIOUS
  <2> QED  BY <2>1, WordsNext
<1>7. tail = <<>> => WordsOf(tail) = <<>>
  BY WithoutNone DEF WordsOf
<1> HIDE DEF K, P, C
<1>8. \A s \in Seq(T) : s # NULL
  BY NotNull
<1> HIDE DEF T
<1>9. C \in Seq(Seq(T)) /\ Len(C) = (IF tail = <<>> THEN P ELSE P + 1)
  BY <1>1, <1>2, <1>4, <1>5
<1>10. (\A i \in 1 .. P : C[i] = K[i]) /\ (tail # <<>> => C[P + 1] = tail)
  BY <1>1, <1>2, <1>4, <1>5
<1>11. \A i \in 1 .. Len(C) : C[i] # <<>> /\ C[i] # NULL
  <2>1. TAKE i \in 1 .. Len(C)
  <2>2. C[i] \in Seq(T)
    BY <1>9
  <2>3. i \in 1 .. P \/ (tail # <<>> /\ i = P + 1)
    BY <1>1, <1>9
  <2> QED  BY <1>2, <1>8, <1>10, <2>2, <2>3
<1>12. \A p \in Nat : Typed(p) = IF p < Len(C) THEN WordsOf(C[p + 1]) ELSE <<>>
  <2>1. TAKE p \in Nat
  <2>2. CASE p < P
    <3>1. p + 1 \in 1 .. P /\ p < Len(C)
      BY <1>1, <1>9, <2>2
    <3> QED  BY <1>3, <1>10, <2>2, <3>1
  <2>3. CASE p = P
    <3>1. CASE tail = <<>>
      BY <1>1, <1>3, <1>7, <1>9, <2>3, <3>1
    <3>2. CASE tail # <<>>
      BY <1>1, <1>3, <1>9, <1>10, <2>3, <3>2
    <3> QED  BY <3>1, <3>2
  <2>4. CASE p > P
    BY <1>1, <1>3, <1>9, <2>4
  <2> QED  BY <1>1, <2>2, <2>3, <2>4
<1>13. \A p \in Nat : Typed(p) \in Seq(Words)
  <2>1. TAKE p \in Nat
  <2>2. Len(C) \in Nat
    BY <1>9
  <2>3. CASE p < Len(C)
    <3>1. p + 1 \in 1 .. Len(C)
      BY <2>2, <2>3
    <3>2. C[p + 1] \in Seq(T)
      BY <1>9, <3>1
    <3> QED  BY <1>6, <1>12, <2>3, <3>2
  <2>4. CASE ~(p < Len(C))
    <3>1. <<>> \in Seq(Words)
      OBVIOUS
    <3> QED  BY <1>12, <2>4, <3>1
  <2> QED  BY <2>3, <2>4
<1>14. ASSUME Typed(0) # <<>> PROVE Remains(line) = <<Head(Typed(0))>>
  <2>1. 0 < Len(C) /\ Typed(0) = WordsOf(C[0 + 1])
    BY <1>12, <1>14
  <2>2. C # <<>> /\ C[0 + 1] = C[1]
    BY <2>1
  <2> QED  BY <1>14, <2>1, <2>2 DEF Remains, C
<1> QED  BY <1>9, <1>11, <1>12, <1>13, <1>14 DEF LineRead, C, T

LEMMA LineIsRead ==
    ASSUME line \in TypedLines
    PROVE  LineRead
<1> DEFINE X == Filled \cup {Semicolon}
<1>1. CASE line \in Seq(X)
  <2> DEFINE m == Len(line)
  <2>1. m \in Nat /\ m <= Len(line) /\ Prefix(m) = line /\ \A i \in 1 .. m : line[i] \in X
    BY <1>1 DEF Prefix
  <2>2. line \in Seq(Token)
    BY <1>1 DEF Token
  <2>3. PICK Q, last : ReadTo(m, Q, last)
    BY <2>1, <2>2, ReadAll
  <2>4. Q \in Seq(Seq(Filled)) /\ last \in Seq(Filled) /\ CutAt(line, Semicolon) = Append(Q, last)
    BY <2>1, <2>3 DEF ReadTo
  <2>5. split_command(line) = Sift(Kept(Q), last, {<<>>})
    BY <2>4, WithoutAppend DEF split_command, Kept
  <2>6. split_command(line) = IF last = <<>> THEN Kept(Q) ELSE Append(Kept(Q), last)
    BY <2>5 DEF Sift
  <2>7. last \in Seq(Filled \cup {Newline})
    BY <2>4
  <2>8. \A p \in Nat : Typed(p) = TypedUpTo(p, m)
    BY TypedWhole
  <2> HIDE DEF m
  <2> QED  BY <2>1, <2>3, <2>6, <2>7, <2>8, ReadEnd
<1>2. ASSUME NEW l \in Seq(X), line = Append(l, Newline) PROVE LineRead
  <2> DEFINE m == Len(l)
  <2>1. /\ m \in Nat /\ Len(line) = m + 1 /\ Prefix(m) = l /\ line[m + 1] = Newline
        /\ \A i \in 1 .. m : line[i] \in X
    <3>1. line \in Seq(X \cup {Newline}) /\ Len(line) = m + 1 /\ \A i \in 1 .. m : line[i] = l[i]
      BY <1>2
    <3>2. Prefix(m) = [i \in 1 .. m |-> line[i]]
      BY <3>1 DEF Prefix
    <3>3. l = [i \in 1 .. m |-> l[i]]
      OBVIOUS
    <3> QED  BY <1>2, <3>1, <3>2, <3>3
  <2>2. line \in Seq(Token)
    BY <1>2 DEF Token
  <2>3. PICK Q, last : ReadTo(m, Q, last)
    BY <2>1, <2>2, ReadAll
  <2>4. Q \in Seq(Seq(Filled)) /\ last \in Seq(Filled) /\ CutAt(l, Semicolon) = Append(Q, last)
    BY <2>1, <2>3 DEF ReadTo
  <2> DEFINE tail == Append(last, Newline)
             Y == Filled \cup {Semicolon, Newline}
  <2>5. /\ l \in Seq(Y) /\ Q \in Seq(Seq(Y)) /\ last \in Seq(Y) /\ tail \in Seq(Y)
        /\ Newline \in Y /\ tail # <<>>
    BY <1>2, <2>4
  <2> HIDE DEF tail, Y
  <2>6. CutAt(line, Semicolon) = Append(Q, tail)
    <3>1. CutAt(Append(l, Newline), Semicolon) = Cut(CutAt(l, Semicolon), Newline, Semicolon)
      BY ONLY <2>5, CutAppend
    <3>2. Cut(Append(Q, last), Newline, Semicolon) = CutOff(Q, last, Newline, Semicolon)
      BY ONLY <2>5, CutLast
    <3> QED  BY <1>2, <2>4, <3>1, <3>2, NotTyped DEF tail, CutOff
  <2>7. split_command(line) = Append(Kept(Q), tail)
    <3>1. Without(Append(Q, tail), {<<>>}) = Sift(Without(Q, {<<>>}), tail, {<<>>})
      BY <2>5, WithoutAppend
    <3> QED  BY <2>5, <2>6, <3>1 DEF split_command, Kept, Sift
  <2>8. WordsOf(tail) = WordsOf(last)
    <3>1. last \in Seq(Filled \cup {Newline}) /\ Newline \in Filled \cup {Newline}
      BY <2>4
    <3> QED  BY <3>1, WordsNext, NotTyped DEF tail
  <2>9. \A p \in Nat : Typed(p) = TypedUpTo(p, m)
    <3>1. \A p \in Nat : TypedUpTo(p, m + 1) = TypedUpTo(p, m)
      BY <2>1, <2>2, TypedNext, NotTyped
    <3> QED  BY <2>1, <3>1, TypedWhole
  <2>10. tail \in Seq(Filled \cup {Newline})
    BY <2>4 DEF tail
  <2> HIDE DEF m
  <2> QED  BY <2>1, <2>3, <2>5, <2>7, <2>8, <2>9, <2>10, ReadEnd
<1> QED  BY <1>1, <1>2 DEF TypedLines

(***************************************************************************)
(* A sequence of sequences, one behind the other.                          *)
(***************************************************************************)
\* f goes from sequence to sequence to what FlattenSeq(q) is.
Flattening(f, q, X) ==
    /\ f \in [1 .. Len(q) -> Seq(X)]
    /\ \A i \in 1 .. Len(q) : f[i] = IF i = 1 THEN q[i] ELSE f[i - 1] \o q[i]
    /\ Len(q) > 0 => f[Len(q)] = FlattenSeq(q)

LEMMA FlatteningExists ==
    ASSUME NEW X, NEW q \in Seq(Seq(X))
    PROVE  \E f : Flattening(f, q, X)
<1> DEFINE Made(n, f) ==
               /\ f \in [1 .. n -> Seq(X)]
               /\ \A i \in 1 .. n : f[i] = IF i = 1 THEN q[i] ELSE f[i - 1] \o q[i]
           A == {n \in Nat : \E f : Made(n, f)}
           It == CHOOSE f : f = [i \in 1 .. Len(q) |-> IF i = 1 THEN q[i] ELSE f[i - 1] \o q[i]]
<1>1. 0 \in A
  <2>1. 1 .. 0 = {}
    OBVIOUS
  <2>2. Made(0, [i \in 1 .. 0 |-> <<>>])
    BY <2>1
  <2> QED  BY <2>2
<1>2. ASSUME NEW n \in Nat, n < Len(q), n \in A PROVE n + 1 \in A
  <2>1. PICK f : Made(n, f)
    BY <1>2
  <2> DEFINE v == IF n + 1 = 1 THEN q[n + 1] ELSE f[n] \o q[n + 1]
             g == [i \in 1 .. n + 1 |-> IF i = n + 1 THEN v ELSE f[i]]
  <2>2. v \in Seq(X)
    <3>1. q[n + 1] \in Seq(X)
      BY <1>2
    <3>2. n + 1 # 1 => f[n] \in Seq(X)
      BY <2>1
    <3> QED  BY <3>1, <3>2
  <2>3. g \in [1 .. n + 1 -> Seq(X)]
    <3> HIDE DEF v
    <3>1. \A i \in 1 .. n : f[i] \in Seq(X)
      BY <2>1
    <3> QED  BY <2>2, <3>1
  <2>4. ASSUME NEW i \in 1 .. n + 1
        PROVE  g[i] = IF i = 1 THEN q[i] ELSE g[i - 1] \o q[i]
    <3>1. CASE i = n + 1
      <4>1. i # 1 => g[i - 1] = f[n]
        BY <3>1
      <4>2. g[i] = v
        BY <3>1
      <4> HIDE DEF g
      <4> QED  BY <3>1, <4>1, <4>2
    <3>2. CASE i # n + 1
      <4>1. i \in 1 .. n /\ g[i] = f[i] /\ (i # 1 => g[i - 1] = f[i - 1])
        BY <3>2
      <4> HIDE DEF g
      <4> QED  BY <2>1, <4>1
    <3> QED  BY <3>1, <3>2
  <2> HIDE DEF g
  <2>5. Made(n + 1, g)
    BY <2>3, <2>4
  <2>6. n + 1 \in Nat
    OBVIOUS
  <2> HIDE DEF Made
  <2> QED  BY <2>5, <2>6
<1>3. Len(q) \in Nat
  OBVIOUS
<1> HIDE DEF A
<1>4. Len(q) \in A
  BY <1>1, <1>2, <1>3, UpTo
<1>5. PICK f : Made(Len(q), f)
  BY <1>4 DEF A
<1>6. f = [i \in 1 .. Len(q) |-> IF i = 1 THEN q[i] ELSE f[i - 1] \o q[i]]
  BY <1>5
<1>7. It = [i \in 1 .. Len(q) |-> IF i = 1 THEN q[i] ELSE It[i - 1] \o q[i]]
  BY <1>6
<1>8. Len(q) > 0 => FlattenSeq(q) = It[Len(q)]
  BY <1>3 DEF FlattenSeq
<1> HIDE DEF It
<1> DEFINE B == {n \in Nat : \A i \in 1 .. n : It[i] = f[i]}
<1>9. 0 \in B
  <2>1. 1 .. 0 = {}
    OBVIOUS
  <2> QED  BY <2>1
<1>10. ASSUME NEW n \in Nat, n < Len(q), n \in B PROVE n + 1 \in B
  <2>1. n + 1 \in 1 .. Len(q) /\ (n + 1 # 1 => n \in 1 .. n) /\ (n + 1) - 1 = n
    BY <1>3, <1>10
  <2>2. It[n + 1] = IF n + 1 = 1 THEN q[n + 1] ELSE It[n] \o q[n + 1]
    BY <1>7, <2>1
  <2>3. f[n + 1] = IF n + 1 = 1 THEN q[n + 1] ELSE f[n] \o q[n + 1]
    BY <1>5, <2>1
  <2>4. It[n + 1] = f[n + 1]
    BY <1>10, <2>1, <2>2, <2>3
  <2>5. \A i \in 1 .. n + 1 : i \in 1 .. n \/ i = n + 1
    OBVIOUS
  <2> QED  BY <1>10, <2>4, <2>5
<1> HIDE DEF B
<1>11. Len(q) \in B
  BY <1>3, <1>9, <1>10, UpTo
<1>12. Len(q) > 0 => It[Len(q)] = f[Len(q)]
  BY <1>3, <1>11 DEF B
<1> QED  BY <1>5, <1>8, <1>12 DEF Flattening

LEMMA FlatNone == FlattenSeq(<<>>) = <<>>
  BY DEF FlattenSeq

LEMMA FlatAppend ==
    ASSUME NEW X, NEW q \in Seq(Seq(X)), NEW x \in Seq(X)
    PROVE  /\ FlattenSeq(q) \in Seq(X)
           /\ FlattenSeq(Append(q, x)) = FlattenSeq(q) \o x
<1> DEFINE l == Append(q, x)
<1>1. /\ l \in Seq(Seq(X)) /\ Len(l) = Len(q) + 1 /\ Len(q) \in Nat
      /\ l[Len(q) + 1] = x /\ \A i \in 1 .. Len(q) : l[i] = q[i]
  OBVIOUS
<1> HIDE DEF l
<1>2. PICK g : Flattening(g, q, X)
  BY FlatteningExists
<1>3. PICK h : Flattening(h, l, X)
  BY <1>1, FlatteningExists
<1>4. CASE Len(q) = 0
  <2>1. q = <<>> /\ FlattenSeq(q) = <<>>
    BY <1>4, FlatNone
  <2>2. h[1] = x /\ h[1] = FlattenSeq(l)
    BY <1>1, <1>3, <1>4 DEF Flattening
  <2>3. <<>> \o x = x /\ <<>> \in Seq(X)
    BY ConcatEmptySeq
  <2>4. FlattenSeq(l) = FlattenSeq(q) \o x /\ FlattenSeq(q) \in Seq(X)
    BY ONLY <2>1, <2>2, <2>3
  <2> QED  BY <2>4 DEF l
<1>5. CASE Len(q) > 0
  <2> DEFINE A == {n \in Nat : \A i \in 1 .. n : h[i] = g[i]}
  <2>1. 0 \in A
    <3>1. 1 .. 0 = {}
      OBVIOUS
    <3> QED  BY <3>1
  <2>2. ASSUME NEW n \in Nat, n < Len(q), n \in A PROVE n + 1 \in A
    <3>1. /\ n + 1 \in 1 .. Len(q) /\ n + 1 \in 1 .. Len(l)
          /\ (n + 1 # 1 => n \in 1 .. n) /\ (n + 1) - 1 = n
      BY <1>1, <2>2
    <3>2. g[n + 1] = IF n + 1 = 1 THEN q[n + 1] ELSE g[n] \o q[n + 1]
      BY <1>2, <3>1 DEF Flattening
    <3>3. h[n + 1] = IF n + 1 = 1 THEN l[n + 1] ELSE h[n] \o l[n + 1]
      BY <1>3, <3>1 DEF Flattening
    <3>4. h[n + 1] = g[n + 1]
      BY <1>1, <2>2, <3>1, <3>2, <3>3
    <3>5. \A i \in 1 .. n + 1 : i \in 1 .. n \/ i = n + 1
      OBVIOUS
    <3> QED  BY <2>2, <3>4, <3>5
  <2> HIDE DEF A
  <2>3. Len(q) \in A
    BY <1>1, <2>1, <2>2, UpTo
  <2>4. h[Len(q)] = g[Len(q)]
    BY <1>1, <1>5, <2>3 DEF A
  <2>5. g[Len(q)] = FlattenSeq(q) /\ FlattenSeq(q) \in Seq(X)
    <3>1. Len(q) \in 1 .. Len(q)
      BY <1>1, <1>5
    <3>2. g \in [1 .. Len(q) -> Seq(X)] /\ g[Len(q)] = FlattenSeq(q)
      BY <1>2, <1>5 DEF Flattening
    <3> QED  BY ONLY <3>1, <3>2
  <2>6. h[Len(q) + 1] = h[Len(q)] \o x
    <3>1. Len(q) + 1 \in 1 .. Len(l) /\ (Len(q) + 1) - 1 = Len(q) /\ Len(q) + 1 # 1
      BY <1>1, <1>5
    <3> QED  BY <1>1, <1>3, <3>1 DEF Flattening
  <2>7. h[Len(q) + 1] = FlattenSeq(l)
    BY <1>1, <1>3 DEF Flattening
  <2> QED  BY <2>4, <2>5, <2>6, <2>7 DEF l
<1> QED  BY <1>1, <1>4, <1>5

(***************************************************************************)
(* A sequence that was cut, piece by piece.                                *)
(***************************************************************************)
\* All pieces but the first, each behind the t it was cut at.
Rest(C, t) == [i \in 1 .. Len(C) - 1 |-> <<t>> \o C[i + 1]]

\* The first piece is what is before the first t, or all.
FirstIs(s, t, C, n) ==
    /\ C[1] = SubSeq(s, 1, n) /\ \A k \in 1 .. n : s[k] # t
    /\ Len(C) = 1 => n = Len(s)
    /\ Len(C) > 1 => n < Len(s) /\ s[n + 1] = t

CutRight(X, s, t, C) ==
    /\ C \in Seq(Seq(X)) /\ Len(C) >= 1
    /\ \A i \in 1 .. Len(C) : \A k \in 1 .. Len(C[i]) : C[i][k] # t
    /\ \E n \in 0 .. Len(s) : FirstIs(s, t, C, n)
    /\ s = C[1] \o FlattenSeq(Rest(C, t))

LEMMA SizeCases ==
    ASSUME NEW n \in Nat, n >= 1 PROVE n = 1 \/ n > 1
  OBVIOUS

LEMMA FunctionIsSeq ==
    ASSUME NEW S, NEW m \in Nat, NEW f \in [1 .. m -> S]
    PROVE  f \in Seq(S) /\ Len(f) = m
  OBVIOUS

LEMMA RestAppend ==
    ASSUME NEW X, NEW t \in X, NEW C \in Seq(Seq(X)), C # <<>>, NEW piece \in Seq(X)
    PROVE  /\ Rest(C, t) \in Seq(Seq(X))
           /\ Rest(Append(C, piece), t) = Append(Rest(C, t), <<t>> \o piece)
<1>1. Len(C) \in Nat /\ Len(C) >= 1 /\ Len(Append(C, piece)) = Len(C) + 1
  OBVIOUS
<1>2. \A i \in 1 .. Len(C) - 1 : <<t>> \o C[i + 1] \in Seq(X)
  <2>1. TAKE i \in 1 .. Len(C) - 1
  <2>2. C[i + 1] \in Seq(X)
    BY <1>1
  <2>3. <<t>> \in Seq(X)
    OBVIOUS
  <2> QED  BY <2>2, <2>3, ConcatProperties
<1> DEFINE n == Len(C) - 1
           R == [i \in 1 .. n |-> <<t>> \o C[i + 1]]
           p == <<t>> \o piece
           R1 == [i \in 1 .. n + 1 |-> <<t>> \o Append(C, piece)[i + 1]]
<1>3. n \in Nat
  BY <1>1
<1>4. R \in Seq(Seq(X))
  BY <1>2, <1>3, IsASeq
<1>5. p \in Seq(X)
  <2>1. <<t>> \in Seq(X)
    OBVIOUS
  <2> QED  BY <2>1, ConcatProperties
<1>6. \A i \in 1 .. n + 1 : R1[i] = IF i = n + 1 THEN p ELSE R[i]
  <2>1. TAKE i \in 1 .. n + 1
  <2>2. CASE i = n + 1
    <3>1. i + 1 = Len(C) + 1
      BY <1>1, <2>2
    <3>2. Append(C, piece)[i + 1] = piece
      BY <3>1
    <3> QED  BY <2>2, <3>2
  <2>3. CASE i # n + 1
    <3>1. i \in 1 .. n /\ i + 1 \in 1 .. Len(C)
      BY <1>1, <2>3
    <3>2. Append(C, piece)[i + 1] = C[i + 1]
      BY <3>1
    <3> QED  BY <2>3, <3>1, <3>2
  <2> QED  BY <2>2, <2>3
<1>7. Len(R) = n
  BY <1>3
<1>8. DOMAIN R1 = 1 .. n + 1 /\ R1 = [i \in 1 .. n + 1 |-> R1[i]]
  OBVIOUS
<1> HIDE DEF R, R1, p, n
<1>9. R1 = Append(R, p)
  <2>1. R1 = [i \in 1 .. n + 1 |-> IF i = n + 1 THEN p ELSE R[i]]
    BY <1>6, <1>8
  <2>2. \A i \in 1 .. n + 1 : R1[i] \in Seq(X)
    <3>1. \A i \in 1 .. n : R[i] \in Seq(X)
      BY <1>4, <1>7
    <3> QED  BY <1>3, <1>5, <1>6, <3>1
  <2>3. R1 \in Seq(Seq(X)) /\ Len(R1) = n + 1
    <3>1. R1 \in [1 .. n + 1 -> Seq(X)] /\ n + 1 \in Nat
      BY <1>3, <1>8, <2>2
    <3> QED  BY <3>1, FunctionIsSeq
  <2>4. Append(R, p) \in Seq(Seq(X)) /\ Len(Append(R, p)) = n + 1
    BY <1>4, <1>5, <1>7, AppendProperties
  <2>5. \A i \in 1 .. n + 1 : Append(R, p)[i] = IF i = n + 1 THEN p ELSE R[i]
    BY <1>3, <1>4, <1>5, <1>7
  <2>6. \A i \in 1 .. Len(R1) : R1[i] = Append(R, p)[i]
    BY <1>6, <2>3, <2>5
  <2> QED  BY <2>3, <2>4, <2>6, SeqEqual
<1>10. Rest(C, t) = R /\ Rest(Append(C, piece), t) = R1
  BY <1>1 DEF Rest, R, R1, n
<1> QED  BY <1>4, <1>9, <1>10 DEF p

LEMMA FirstNext ==
    ASSUME NEW X, NEW s \in Seq(X), NEW x \in X, NEW n \in 0 .. Len(s)
    PROVE  /\ SubSeq(Append(s, x), 1, n) = SubSeq(s, 1, n)
           /\ SubSeq(Append(s, x), 1, Len(s) + 1) = Append(s, x)
           /\ SubSeq(s, 1, Len(s)) = s
           /\ \A k \in 1 .. Len(s) : Append(s, x)[k] = s[k]
           /\ Append(s, x)[Len(s) + 1] = x /\ Len(Append(s, x)) = Len(s) + 1
<1>1. \A k \in 1 .. n : Append(s, x)[k] = s[k]
  OBVIOUS
<1>2. SubSeq(Append(s, x), 1, n) = SubSeq(s, 1, n)
  <2>1. SubSeq(s, 1, n) = [k \in 1 .. n |-> s[k]]
    OBVIOUS
  <2>2. SubSeq(Append(s, x), 1, n) = [k \in 1 .. n |-> Append(s, x)[k]]
    <3>1. Append(s, x) \in Seq(X) /\ n \in 0 .. Len(Append(s, x))
      OBVIOUS
    <3> DEFINE l == Append(s, x)
    <3> HIDE DEF l
    <3>2. l \in Seq(X) /\ n \in 0 .. Len(l) => SubSeq(l, 1, n) = [k \in 1 .. n |-> l[k]]
      OBVIOUS
    <3> QED  BY <3>1, <3>2 DEF l
  <2> QED  BY <1>1, <2>1, <2>2
<1>3. SubSeq(Append(s, x), 1, Len(s) + 1) = Append(s, x)
  <2>1. Append(s, x) \in Seq(X) /\ Len(Append(s, x)) = Len(s) + 1
    OBVIOUS
  <2> QED  BY <2>1, SubSeqFull
<1>4. SubSeq(s, 1, Len(s)) = s
  BY SubSeqFull
<1> QED  BY <1>2, <1>3, <1>4

\* One more t.
Joins(a, b, c) == (a \o b) \o c = a \o (b \o c)

LEMMA Assoc ==
    ASSUME NEW X, NEW a \in Seq(X), NEW b \in Seq(X), NEW c \in Seq(X)
    PROVE  Joins(a, b, c)
  BY ConcatAssociative DEF Joins

LEMMA CutRightCut ==
    ASSUME NEW X, NEW t \in X, NEW s \in Seq(X), NEW C, CutRight(X, s, t, C)
    PROVE  CutRight(X, Append(s, t), t, Append(C, <<>>))
<1> DEFINE D == Append(C, <<>>)
           l == Append(s, t)
           F == FlattenSeq(Rest(C, t))
<1>1. C \in Seq(Seq(X)) /\ Len(C) >= 1 /\ C # <<>> /\ <<>> \in Seq(X)
  BY DEF CutRight
<1>2. /\ D \in Seq(Seq(X)) /\ Len(D) = Len(C) + 1 /\ Len(C) \in Nat /\ D[Len(C) + 1] = <<>>
      /\ \A i \in 1 .. Len(C) : D[i] = C[i]
  BY <1>1
<1>3. \A i \in 1 .. Len(D) : \A k \in 1 .. Len(D[i]) : D[i][k] # t
  <2>1. TAKE i \in 1 .. Len(D)
  <2>2. CASE i = Len(C) + 1
    <3>1. D[i] = <<>> /\ Len(<<>>) = 0 /\ 1 .. 0 = {}
      BY <1>2, <2>2
    <3> HIDE DEF D
    <3> QED  BY <3>1
  <2>3. CASE i # Len(C) + 1
    <3>1. i \in 1 .. Len(C) /\ D[i] = C[i]
      BY <1>2, <2>3
    <3> HIDE DEF D
    <3> QED  BY <3>1 DEF CutRight
  <2> QED  BY <2>2, <2>3
<1>4. \E n \in 0 .. Len(l) : FirstIs(l, t, D, n)
  <2>1. PICK n \in 0 .. Len(s) : FirstIs(s, t, C, n)
    BY DEF CutRight
  <2>2. /\ SubSeq(l, 1, n) = SubSeq(s, 1, n) /\ Len(l) = Len(s) + 1 /\ l[Len(s) + 1] = t
        /\ \A k \in 1 .. Len(s) : l[k] = s[k]
    BY FirstNext
  <2>3. D[1] = C[1] /\ ~(Len(D) = 1) /\ n \in 0 .. Len(l) /\ Len(s) \in Nat
    BY <1>1, <1>2, <2>2
  <2> HIDE DEF D, l
  <2>4. D[1] = SubSeq(l, 1, n)
    BY <2>1, <2>2, <2>3 DEF FirstIs
  <2>5. \A k \in 1 .. n : l[k] # t
    BY <2>1, <2>2, <2>3 DEF FirstIs
  <2>6. n < Len(l) /\ l[n + 1] = t
    <3>1. CASE Len(C) = 1
      BY <2>1, <2>2, <2>3, <3>1 DEF FirstIs
    <3>2. CASE Len(C) > 1
      <4>1. n < Len(s) /\ s[n + 1] = t
        BY <2>1, <3>2 DEF FirstIs
      <4>2. n + 1 \in 1 .. Len(s) /\ n < Len(l)
        BY <2>2, <2>3, <4>1
      <4> QED  BY <2>2, <4>1, <4>2
    <3>3. Len(C) = 1 \/ Len(C) > 1
      BY <1>1, <1>2, SizeCases
    <3> QED  BY ONLY <3>1, <3>2, <3>3
  <2> QED  BY <2>3, <2>4, <2>5, <2>6 DEF FirstIs
<1>5. l = D[1] \o FlattenSeq(Rest(D, t))
  <2>1. Rest(C, t) \in Seq(Seq(X)) /\ Rest(D, t) = Append(Rest(C, t), <<t>> \o <<>>)
    BY <1>1, RestAppend
  <2>2. <<t>> \o <<>> = <<t>> /\ <<t>> \in Seq(X)
    BY ConcatEmptySeq
  <2>3. Rest(D, t) = Append(Rest(C, t), <<t>>)
    BY <2>1, <2>2
  <2>4. F \in Seq(X) /\ FlattenSeq(Rest(D, t)) = F \o <<t>>
    BY <2>1, <2>2, <2>3, FlatAppend
  <2>5. C[1] \in Seq(X) /\ D[1] = C[1]
    BY <1>1, <1>2
  <2>6. s = C[1] \o F
    BY DEF CutRight
  <2>7. l = s \o <<t>>
    BY AppendIsConcat
  <2> HIDE DEF F, l, D
  <2>8. (C[1] \o F) \o <<t>> = C[1] \o (F \o <<t>>)
    <3> DEFINE a == C[1]
               c == <<t>>
    <3>1. a \in Seq(X) /\ F \in Seq(X) /\ c \in Seq(X)
      BY <2>2, <2>4, <2>5
    <3> HIDE DEF a, c
    <3>2. Joins(a, F, c)
      BY ONLY <3>1, Assoc
    <3> QED  BY <3>2 DEF Joins, a, c
  <2> QED  BY ONLY <2>4, <2>5, <2>6, <2>7, <2>8
<1> HIDE DEF D, l
<1>6. Len(D) >= 1
  BY <1>1, <1>2
<1>7. CutRight(X, l, t, D)
  BY ONLY <1>2, <1>3, <1>4, <1>5, <1>6 DEF CutRight
<1> QED  BY <1>7 DEF D, l

LEMMA RestNone ==
    ASSUME NEW t, NEW C, Len(C) = 1 PROVE Rest(C, t) = <<>>
<1>1. 1 .. 1 - 1 = {}
  OBVIOUS
<1> QED  BY <1>1 DEF Rest

\* One more word that is not t, behind the first t.
LEMMA CutRightLater ==
    ASSUME NEW X, NEW t \in X, NEW s \in Seq(X), NEW x \in X, x # t, NEW Q \in Seq(Seq(X)), Q # <<>>,
           NEW last \in Seq(X), CutRight(X, s, t, Append(Q, last))
    PROVE  CutRight(X, Append(s, x), t, Append(Q, Append(last, x)))
<1> DEFINE p == Append(last, x)
           C == Append(Q, last)
           D == Append(Q, p)
           l == Append(s, x)
           F == FlattenSeq(Rest(Q, t))
           m == Len(Q)
<1>1. m \in Nat /\ m >= 1 /\ p \in Seq(X)
  OBVIOUS
<1>2. /\ Len(C) = m + 1 /\ C[m + 1] = last /\ \A i \in 1 .. m : C[i] = Q[i]
  OBVIOUS
<1>3. /\ D \in Seq(Seq(X)) /\ Len(D) = m + 1 /\ D[m + 1] = p /\ \A i \in 1 .. m : D[i] = Q[i]
  <2> HIDE DEF p
  <2> QED  BY <1>1, AppendProperties
<1>4. /\ Len(p) = Len(last) + 1 /\ p[Len(last) + 1] = x /\ \A k \in 1 .. Len(last) : p[k] = last[k]
      /\ Len(last) \in Nat
  OBVIOUS
<1>5. p = last \o <<x>> /\ <<x>> \in Seq(X)
  BY AppendIsConcat
<1>6. l = s \o <<x>>
  BY AppendIsConcat
<1>7. Q[1] \in Seq(X) /\ 1 \in 1 .. m
  BY <1>1
<1>8. /\ Rest(Q, t) \in Seq(Seq(X)) /\ Rest(C, t) = Append(Rest(Q, t), <<t>> \o last)
  BY RestAppend
<1>9. Rest(D, t) = Append(Rest(Q, t), <<t>> \o p)
  <2> HIDE DEF p
  <2> QED  BY <1>1, RestAppend
<1>10. <<t>> \in Seq(X) /\ <<t>> \o last \in Seq(X) /\ <<t>> \o p \in Seq(X)
  <2>1. <<t>> \in Seq(X)
    OBVIOUS
  <2> HIDE DEF p
  <2> QED  BY <1>1, <2>1, ConcatProperties
<1>11. PICK n \in 0 .. Len(s) : FirstIs(s, t, C, n)
  BY DEF CutRight
<1>12. /\ SubSeq(l, 1, n) = SubSeq(s, 1, n) /\ Len(l) = Len(s) + 1 /\ Len(s) \in Nat
       /\ \A k \in 1 .. Len(s) : l[k] = s[k]
  BY FirstNext
<1>13. /\ \A i \in 1 .. Len(C) : \A k \in 1 .. Len(C[i]) : C[i][k] # t
       /\ s = C[1] \o FlattenSeq(Rest(C, t))
  BY DEF CutRight
<1> HIDE DEF p, C, D, l, F, m
<1>14. C[1] = Q[1] /\ D[1] = Q[1] /\ m + 1 > 1 /\ m + 1 # 1
  BY <1>1, <1>2, <1>3, <1>7
<1>15. \A i \in 1 .. Len(D) : \A k \in 1 .. Len(D[i]) : D[i][k] # t
  <2>1. TAKE i \in 1 .. Len(D)
  <2>2. CASE i = m + 1
    <3>1. D[i] = p /\ m + 1 \in 1 .. Len(C) /\ C[m + 1] = last
      BY <1>1, <1>2, <1>3, <2>2
    <3>2. \A k \in 1 .. Len(last) : last[k] # t
      BY <1>13, <3>1
    <3>3. \A k \in 1 .. Len(p) : k \in 1 .. Len(last) \/ k = Len(last) + 1
      BY <1>4
    <3> QED  BY <1>4, <3>1, <3>2, <3>3
  <2>3. CASE i # m + 1
    <3>1. i \in 1 .. m /\ i \in 1 .. Len(C)
      BY <1>1, <1>2, <1>3, <2>3
    <3>2. D[i] = C[i]
      BY <1>2, <1>3, <3>1
    <3> QED  BY <1>13, <3>1, <3>2
  <2> QED  BY <2>2, <2>3
<1>16. \E k \in 0 .. Len(l) : FirstIs(l, t, D, k)
  <2>1. C[1] = SubSeq(s, 1, n) /\ (\A k \in 1 .. n : s[k] # t) /\ n < Len(s) /\ s[n + 1] = t
    BY <1>2, <1>11, <1>14 DEF FirstIs
  <2>2. n + 1 \in 1 .. Len(s) /\ n < Len(l) /\ n \in 0 .. Len(l)
    BY <1>12, <2>1
  <2>3. l[n + 1] = t /\ \A k \in 1 .. n : l[k] # t
    <3>1. \A k \in 1 .. n : k \in 1 .. Len(s)
      BY <1>12
    <3> QED  BY <1>12, <2>1, <2>2, <3>1
  <2>4. D[1] = SubSeq(l, 1, n)
    BY <1>12, <1>14, <2>1
  <2>5. FirstIs(l, t, D, n)
    BY ONLY <1>3, <1>14, <2>2, <2>3, <2>4 DEF FirstIs
  <2> QED  BY <2>2, <2>5
<1>17. l = D[1] \o FlattenSeq(Rest(D, t))
  <2> DEFINE a == Q[1]
             c == <<t>>
             d == <<x>>
             G == c \o last
  <2>1. F \in Seq(X) /\ FlattenSeq(Rest(C, t)) = F \o G
    BY <1>8, <1>10, FlatAppend DEF F
  <2>2. FlattenSeq(Rest(D, t)) = F \o (c \o p)
    BY <1>8, <1>9, <1>10, FlatAppend DEF F
  <2>3. l = s \o d /\ s = a \o (F \o G) /\ p = last \o d
    BY <1>5, <1>6, <1>13, <1>14, <2>1
  <2>4. a \in Seq(X) /\ c \in Seq(X) /\ d \in Seq(X) /\ G \in Seq(X)
    BY <1>5, <1>7, <1>10
  <2>5. D[1] = a
    BY <1>14
  <2>6. c \o p = G \o d
    <3>1. p = last \o d
      BY <2>3
    <3> HIDE DEF c, d
    <3>2. Joins(c, last, d)
      BY <2>4, Assoc
    <3> QED  BY ONLY <3>1, <3>2 DEF Joins, G
  <2> HIDE DEF a, c, d, G
  <2>7. F \o G \in Seq(X)
    BY <2>1, <2>4, ConcatProperties
  <2>8. Joins(a, F \o G, d)
    BY ONLY <2>4, <2>7, Assoc
  <2>9. Joins(F, G, d)
    BY ONLY <2>1, <2>4, Assoc
  <2> QED  BY ONLY <2>2, <2>3, <2>5, <2>6, <2>8, <2>9 DEF Joins
<1>18. Len(D) >= 1
  BY <1>1, <1>3
<1>19. CutRight(X, l, t, D)
  BY ONLY <1>3, <1>15, <1>16, <1>17, <1>18 DEF CutRight
<1> QED  BY <1>19 DEF D, p, l

\* One more word that is not t, with no t before it.
LEMMA CutRightFirst ==
    ASSUME NEW X, NEW t \in X, NEW s \in Seq(X), NEW x \in X, x # t,
           NEW last \in Seq(X), CutRight(X, s, t, Append(<<>>, last))
    PROVE  CutRight(X, Append(s, x), t, Append(<<>>, Append(last, x)))
<1> DEFINE p == Append(last, x)
           C == Append(<<>>, last)
           D == Append(<<>>, p)
           l == Append(s, x)
<1>1. Len(C) = 1 /\ C[1] = last
  OBVIOUS
<1>2. p \in Seq(X)
  OBVIOUS
<1>3. D \in Seq(Seq(X)) /\ Len(D) = 1 /\ D[1] = p
  <2> HIDE DEF p
  <2>1. <<>> \in Seq(Seq(X)) /\ Len(<<>>) = 0
    OBVIOUS
  <2> QED  BY <1>2, <2>1, AppendProperties
<1>4. PICK n \in 0 .. Len(s) : FirstIs(s, t, C, n)
  BY DEF CutRight
<1>5. s = C[1] \o FlattenSeq(Rest(C, t))
  BY DEF CutRight
<1>6. s = last
  <2>1. FlattenSeq(Rest(C, t)) = <<>>
    BY <1>1, RestNone, FlatNone
  <2>2. last \o <<>> = last
    BY ConcatEmptySeq
  <2> HIDE DEF C
  <2> QED  BY <1>1, <1>5, <2>1, <2>2
<1>7. \A k \in 1 .. Len(s) : s[k] # t
  <2> HIDE DEF C
  <2> QED  BY <1>1, <1>4 DEF FirstIs
<1>8. /\ SubSeq(l, 1, Len(l)) = l /\ Len(l) = Len(s) + 1 /\ Len(s) \in Nat
      /\ l[Len(s) + 1] = x /\ \A k \in 1 .. Len(s) : l[k] = s[k]
  BY FirstNext
<1>9. l = p
  BY <1>6
<1> HIDE DEF p, C, D, l
<1>10. \A k \in 1 .. Len(l) : l[k] # t
  <2>1. \A k \in 1 .. Len(l) : k \in 1 .. Len(s) \/ k = Len(s) + 1
    BY <1>8
  <2> QED  BY <1>7, <1>8, <2>1
<1>11. \A i \in 1 .. Len(D) : \A k \in 1 .. Len(D[i]) : D[i][k] # t
  <2>1. \A i \in 1 .. Len(D) : i = 1
    BY <1>3
  <2> QED  BY <1>3, <1>9, <1>10, <2>1
<1>12. \E k \in 0 .. Len(l) : FirstIs(l, t, D, k)
  <2>1. Len(l) \in 0 .. Len(l) /\ ~(1 > 1)
    BY <1>8
  <2>2. FirstIs(l, t, D, Len(l))
    BY ONLY <1>3, <1>8, <1>9, <1>10, <2>1 DEF FirstIs
  <2> QED  BY <2>1, <2>2
<1>13. l = D[1] \o FlattenSeq(Rest(D, t))
  <2>1. FlattenSeq(Rest(D, t)) = <<>>
    BY <1>3, RestNone, FlatNone
  <2>2. p \o <<>> = p
    BY <1>2, ConcatEmptySeq
  <2> QED  BY <1>3, <1>9, <2>1, <2>2
<1>14. Len(D) >= 1
  BY <1>3
<1>15. CutRight(X, l, t, D)
  BY ONLY <1>3, <1>11, <1>12, <1>13, <1>14 DEF CutRight
<1> QED  BY <1>15 DEF D, p, l

LEMMA CutIsRight ==
    ASSUME NEW X, NEW t \in X, NEW s \in Seq(X)
    PROVE  CutRight(X, s, t, CutAt(s, t))
<1> DEFINE A == {q \in Seq(X) : CutRight(X, q, t, CutAt(q, t))}
<1>1. <<>> \in A
  <2> DEFINE e == <<>>
             D == << e >>
  <2>1. CutAt(e, t) = D /\ e \in Seq(X) /\ Len(e) = 0
    BY CutNone
  <2>2. D \in Seq(Seq(X)) /\ Len(D) = 1 /\ D[1] = e
    OBVIOUS
  <2>3. SubSeq(e, 1, 0) = e /\ 1 .. 0 = {} /\ e \o e = e /\ 0 \in 0 .. 0 /\ ~(1 > 1) /\ 1 >= 1
    OBVIOUS
  <2> HIDE DEF e, D
  <2>4. Rest(D, t) = e /\ FlattenSeq(e) = e
    BY <2>2, RestNone, FlatNone DEF e
  <2>5. \A i \in 1 .. Len(D) : i = 1
    BY <2>2
  <2>6. FirstIs(e, t, D, 0)
    BY ONLY <2>1, <2>2, <2>3 DEF FirstIs
  <2>7. \A i \in 1 .. Len(D) : \A k \in 1 .. Len(D[i]) : D[i][k] # t
    BY <2>1, <2>2, <2>3, <2>5
  <2>8. CutRight(X, e, t, D)
    BY ONLY <2>1, <2>2, <2>3, <2>4, <2>6, <2>7 DEF CutRight
  <2> QED  BY <2>1, <2>8 DEF e
<1>2. ASSUME NEW q \in Seq(X), NEW x \in X, q \in A PROVE Append(q, x) \in A
  <2> DEFINE C == CutAt(q, t)
  <2>1. C \in Pieces(X) /\ CutAt(Append(q, x), t) = Cut(C, x, t)
    BY CutAppend
  <2>2. CutRight(X, q, t, C) /\ Append(q, x) \in Seq(X)
    BY <1>2
  <2>3. PICK Q \in Seq(Seq(X)), last \in Seq(X) : C = Append(Q, last)
    BY <2>1, SequenceEmptyOrAppend DEF Pieces
  <2> HIDE DEF C
  <2>4. Cut(C, x, t) = CutOff(Q, last, x, t)
    BY <2>3, CutLast
  <2>5. CASE x = t
    <3>1. Cut(C, x, t) = Append(C, <<>>)
      BY <2>5 DEF Cut
    <3>2. CutRight(X, Append(q, x), t, Append(C, <<>>))
      BY <2>2, <2>5, CutRightCut
    <3> QED  BY <2>1, <2>2, <3>1, <3>2
  <2>6. CASE x # t
    <3>1. Cut(C, x, t) = Append(Q, Append(last, x))
      BY <2>4, <2>6 DEF CutOff
    <3>2. CutRight(X, Append(q, x), t, Append(Q, Append(last, x)))
      <4>1. CASE Q # <<>>
        BY <2>2, <2>3, <2>6, <4>1, CutRightLater
      <4>2. CASE Q = <<>>
        <5>1. CutRight(X, q, t, Append(<<>>, last))
          BY <2>2, <2>3, <4>2
        <5>2. CutRight(X, Append(q, x), t, Append(<<>>, Append(last, x)))
          BY <2>6, <5>1, CutRightFirst
        <5> QED  BY <4>2, <5>2
      <4> QED  BY <4>1, <4>2
    <3> QED  BY <2>1, <2>2, <3>1, <3>2
  <2> QED  BY <2>5, <2>6
<1> HIDE DEF A
<1>3. s \in A
  BY <1>1, <1>2, SeqInduction
<1> QED  BY <1>3 DEF A

(***************************************************************************)
(* The first stage, and the first redirection.                             *)
(***************************************************************************)
LEMMA LeastIn ==
    ASSUME NEW S \in SUBSET Nat, S # {}
    PROVE  Min(S) \in S /\ \A y \in S : Min(S) <= y
<1>1. PICK m \in S : \A y \in S : <<y, m>> \notin OpToRel(<, Nat)
  BY NatLessThanWellFounded, WFMin
<1>2. \A y \in S : m <= y
  <2>1. TAKE y \in S
  <2>2. m \in Nat /\ y \in Nat /\ ~(y < m)
    BY <1>1 DEF OpToRel
  <2> QED  BY <2>2
<1> QED  BY <1>1, <1>2 DEF Min

FirstOf(w, C) ==
    /\ FirstStage(w) = C[1] /\ (is_pipeline(w) <=> Len(C) > 1)
    /\ (FirstStage(w) = w) <=> ~is_pipeline(w)

LEMMA FirstStageIs ==
    ASSUME NEW X, Bar \in X, NEW w \in Seq(X), NEW C, CutRight(X, w, Bar, C)
    PROVE  FirstOf(w, C)
<1> DEFINE l == Append(w, Bar)
           I == {i \in 1 .. Len(l) : l[i] = Bar}
           m == Len(w)
           c == Len(C)
<1>1. c >= 1 /\ c \in Nat
  BY DEF CutRight
<1>2. PICK n \in 0 .. Len(w) : FirstIs(w, Bar, C, n)
  BY DEF CutRight
<1>3. /\ Len(l) = m + 1 /\ m \in Nat /\ l[m + 1] = Bar
      /\ \A k \in 1 .. m : l[k] = w[k]
      /\ SubSeq(w, 1, m) = w
  BY FirstNext
<1>4. C[1] = SubSeq(w, 1, n) /\ \A k \in 1 .. n : w[k] # Bar
  BY <1>2 DEF FirstIs
<1>5. n \in 0 .. m /\ (c = 1 => n = m) /\ (c > 1 => n < m /\ w[n + 1] = Bar)
  BY <1>2 DEF FirstIs
<1>6. is_pipeline(w) <=> \E i \in 1 .. m : w[i] = Bar
  BY DEF is_pipeline
<1>7. Len(SubSeq(w, 1, n)) = n
  BY <1>2
<1> HIDE DEF l, m, c
<1>8. n \in Nat /\ ((c = 1 /\ n = m) \/ (c > 1 /\ n < m /\ w[n + 1] = Bar))
  BY <1>1, <1>3, <1>5, SizeCases
<1>9. n + 1 \in I /\ \A i \in I : n + 1 <= i
  <2>1. n + 1 \in 1 .. Len(l) /\ l[n + 1] = Bar
    BY <1>3, <1>8
  <2>2. ASSUME NEW i \in 1 .. Len(l), l[i] = Bar PROVE n + 1 <= i
    <3>1. CASE i <= n
      <4>1. i \in 1 .. n /\ i \in 1 .. m
        BY <1>3, <1>8, <3>1
      <4> QED  BY <1>3, <1>4, <2>2, <4>1
    <3> QED  BY <1>3, <1>8, <3>1
  <2> QED  BY <2>1, <2>2
<1>10. I \in SUBSET Nat
  BY <1>3
<1> HIDE DEF I
<1>11. Min(I) = n + 1
  <2>1. I # {}
    BY <1>9
  <2>2. Min(I) \in I /\ \A y \in I : Min(I) <= y
    BY <1>10, <2>1, LeastIn
  <2>3. Min(I) \in Nat /\ Min(I) <= n + 1 /\ n + 1 <= Min(I)
    BY <1>9, <1>10, <2>2
  <2> QED  BY <1>8, <2>3
<1>12. FirstStage(w) = SubSeq(w, 1, n)
  <2>1. FirstStage(w) = SubSeq(w, 1, (IF I # {} THEN Min(I) ELSE 0) - 1)
    BY DEF FirstStage, SelectInSeq, l, I
  <2>2. (n + 1) - 1 = n
    BY <1>8
  <2> QED  BY <1>9, <1>11, <2>1, <2>2
<1>13. is_pipeline(w) <=> n < m
  <2>1. n < m => n + 1 \in 1 .. m /\ w[n + 1] = Bar
    BY <1>3, <1>8
  <2>2. n = m => \A k \in 1 .. m : w[k] # Bar
    BY <1>4
  <2> QED  BY <1>6, <1>8, <2>1, <2>2
<1>14. n < m <=> c > 1
  BY <1>3, <1>8
<1>15. SubSeq(w, 1, n) = w <=> n = m
  BY <1>3, <1>7 DEF m
<1>16. n < m <=> ~(n = m)
  BY <1>3, <1>5
<1>17. (FirstStage(w) = w) <=> ~is_pipeline(w)
  BY <1>12, <1>13, <1>15, <1>16
<1>18. is_pipeline(w) <=> Len(C) > 1
  BY <1>13, <1>14 DEF c
<1> QED  BY <1>4, <1>12, <1>17, <1>18 DEF FirstOf

SymbolAt(args, i) ==
    /\ i \in 0 .. Len(args)
    /\ i = 0 => \A k \in 1 .. Len(args) : args[k] \notin Symbols
    /\ i # 0 => args[i] \in Symbols /\ \A k \in 1 .. i - 1 : args[k] \notin Symbols

LEMMA SymbolFound ==
    ASSUME NEW X, NEW args \in Seq(X)
    PROVE  SymbolAt(args, FirstSymbol(args))
<1> DEFINE I == {i \in 1 .. Len(args) : args[i] \in Symbols}
<1>1. FirstSymbol(args) = IF I # {} THEN Min(I) ELSE 0
  BY DEF FirstSymbol, SelectInSeq
<1>2. Len(args) \in Nat /\ I \in SUBSET Nat
  OBVIOUS
<1>3. CASE I = {}
  <2>1. \A k \in 1 .. Len(args) : args[k] \notin Symbols
    BY <1>3
  <2> HIDE DEF I
  <2> QED  BY <1>1, <1>2, <1>3, <2>1 DEF SymbolAt
<1>4. CASE I # {}
  <2>1. Min(I) \in I /\ \A y \in I : Min(I) <= y
    BY <1>2, <1>4, LeastIn
  <2>2. \A k \in 1 .. Min(I) - 1 : args[k] \notin Symbols
    BY <1>2, <2>1
  <2>3. Min(I) \in 0 .. Len(args) /\ Min(I) # 0 /\ args[Min(I)] \in Symbols
    BY <2>1
  <2> HIDE DEF I
  <2> QED  BY <1>1, <1>4, <2>2, <2>3 DEF SymbolAt
<1> QED  BY <1>3, <1>4

(***************************************************************************)
(* A command, parsed.                                                      *)
(***************************************************************************)
Written == Words \cup {Bar}
Stages(w, first, behind) == IF is_pipeline(w) THEN create_pipeline(w, first, behind) ELSE <<first>>

\* C is w cut at its bars, and S what create_pipeline makes of it when it leaves first of
\* the first stage.
Staged(S, C, first, w, behind) ==
    /\ C \in Seq(Seq(Written)) /\ Len(C) >= 1
    /\ S \in Seq(Seq(Written \cup {Wild})) /\ Len(S) = Len(C)
    /\ S[1] = first /\ first \in Seq(Written \cup {Wild})
    /\ \A k \in 1 .. Len(first) : first[k] # Bar
    /\ FirstStage(w) # w <=> Len(C) > 1
    /\ Len(C) = 1 => first = w
    /\ Len(C) > 1 => first \in Strays(FirstStage(w))
    /\ \A i \in 2 .. Len(C) : S[i] = IF i = Len(C) THEN C[i] \o behind ELSE C[i]

LEMMA NotSymbols == "None" \notin Symbols /\ Wild \notin Written /\ Wild # Bar
<1>1. "None" \notin Symbols
  BY Zenon DEF Symbols
<1>2. Wild # Bar
  BY Zenon DEF Wild, Bar
<1> QED  BY <1>1, <1>2, WordsAssumption DEF Written

\* A first stage that is put elsewhere gains no bar.
LEMMA StraysAre ==
    ASSUME NEW a \in Seq(Written), \A k \in 1 .. Len(a) : a[k] # Bar, NEW f \in Strays(a)
    PROVE  f \in Seq(Written \cup {Wild}) /\ \A k \in 1 .. Len(f) : f[k] # Bar
<1> DEFINE Y == Written \cup {Wild}
<1>1. Wild \in Y /\ a \in Seq(Y)
  OBVIOUS
<1>2. \/ \E n \in 1 .. Len(a) + 1 : f = SubSeq(a, n, Len(a))
      \/ f = <<Wild>>
      \/ f = <<Wild>> \o a
  BY DEF Strays
<1>3. ASSUME NEW n \in 1 .. Len(a) + 1, f = SubSeq(a, n, Len(a))
      PROVE  f \in Seq(Y) /\ \A k \in 1 .. Len(f) : f[k] # Bar
  <2>1. f \in Seq(Y) /\ \A k \in 1 .. Len(f) : k + n - 1 \in 1 .. Len(a) /\ f[k] = a[k + n - 1]
    BY <1>1, <1>3
  <2> QED  BY <2>1
<1>4. CASE f = <<Wild>>
  <2>1. f \in Seq(Y) /\ Len(f) = 1 /\ f[1] = Wild
    BY <1>1, <1>4
  <2> QED  BY <2>1, NotSymbols
<1>5. CASE f = <<Wild>> \o a
  <2> DEFINE o == <<Wild>>
  <2>1. o \in Seq(Y) /\ Len(o) = 1 /\ o[1] = Wild
    BY <1>1
  <2> HIDE DEF o, Y
  <2>2. /\ f \in Seq(Y) /\ Len(f) = Len(o) + Len(a)
        /\ \A k \in 1 .. Len(o) + Len(a) : f[k] = IF k <= Len(o) THEN o[k] ELSE a[k - Len(o)]
    BY <1>1, <1>5, <2>1, ConcatProperties DEF o
  <2>3. ASSUME NEW k \in 1 .. Len(f) PROVE f[k] # Bar
    <3>1. CASE k = 1
      BY <2>1, <2>2, <3>1, NotSymbols
    <3>2. CASE k # 1
      <4>1. k - 1 \in 1 .. Len(a) /\ f[k] = a[k - 1]
        BY <2>1, <2>2, <3>2
      <4> QED  BY <4>1
    <3> QED  BY <3>1, <3>2
  <2> QED  BY <2>2, <2>3 DEF Y
<1> QED  BY <1>2, <1>3, <1>4, <1>5 DEF Y

LEMMA StagesAre ==
    ASSUME NEW w \in Seq(Words), NEW first \in Firsts(w),
           NEW behind \in {<<>>, <<Wild>>}, is_pipeline(w) \/ behind = <<>>
    PROVE  Staged(Stages(w, first, behind), CutAt(w, Bar), first, w, behind)
<1> DEFINE C == CutAt(w, Bar)
           S == Stages(w, first, behind)
           c == Len(C)
           X == Written
           Y == Written \cup {Wild}
<1>1. Bar \in X /\ w \in Seq(X) /\ X \subseteq Y
  BY DEF Written
<1>0. first \in IF is_pipeline(w) THEN Strays(C[1]) ELSE {w}
  BY DEF Firsts
<1> HIDE DEF C, S, X, Y
<1>2. CutRight(X, w, Bar, C)
  BY <1>1, CutIsRight DEF C
<1>3. C \in Seq(Seq(X)) /\ c >= 1 /\ c \in Nat /\ c \in 1 .. c /\ 1 \in 1 .. c
  BY <1>2 DEF CutRight
<1>4. FirstStage(w) = C[1] /\ (is_pipeline(w) <=> c > 1) /\ ((FirstStage(w) = w) <=> ~is_pipeline(w))
  <2>1. FirstOf(w, C)
    BY <1>1, <1>2, FirstStageIs
  <2> QED  BY <2>1 DEF FirstOf
<1>5. \A i \in 1 .. c : C[i] \in Seq(X) /\ C[i] \in Seq(Y) /\ \A k \in 1 .. Len(C[i]) : C[i][k] # Bar
  <2>1. TAKE i \in 1 .. c
  <2>2. C[i] \in Seq(X)
    BY <1>3
  <2>3. \A k \in 1 .. Len(C[i]) : C[i][k] # Bar
    BY <1>2 DEF CutRight
  <2> QED  BY <1>1, <2>2, <2>3
<1>6. behind \in Seq(Y)
  <2>1. Wild \in Y
    BY DEF Y
  <2>2. <<Wild>> \in Seq(Y) /\ <<>> \in Seq(Y)
    BY <2>1
  <2> QED  BY <2>2
<1>7. C \in Seq(Seq(Y))
  <2>1. Seq(X) \subseteq Seq(Y)
    BY <1>1
  <2> QED  BY <1>3, <2>1
<1>8. CASE is_pipeline(w)
  <2>1. first \in Seq(Y) /\ \A k \in 1 .. Len(first) : first[k] # Bar
    BY <1>0, <1>3, <1>5, <1>8, StraysAre DEF X, Y
  <2> DEFINE D == [C EXCEPT ![1] = first]
             p == C[c] \o behind
  <2>2. 1 \in 1 .. c /\ 1 # c /\ c > 1
    <3>1. c > 1
      BY <1>4, <1>8
    <3> HIDE DEF c
    <3> QED  BY <1>3, <3>1
  <2>3. /\ D \in Seq(Seq(Y)) /\ Len(D) = c
        /\ \A i \in 1 .. c : D[i] = IF i = 1 THEN first ELSE C[i]
    BY <1>3, <1>7, <2>1, ExceptSeq
  <2> HIDE DEF D
  <2>4. S = [D EXCEPT ![c] = p]
    <3>1. S = [D EXCEPT ![Len(D)] = D[Len(D)] \o behind]
      BY <1>8 DEF S, Stages, create_pipeline, C, D
    <3>2. D[c] = C[c]
      BY <1>3, <2>2, <2>3
    <3> HIDE DEF c
    <3> QED  BY <2>3, <3>1, <3>2
  <2>5. p \in Seq(Y)
    BY <1>3, <1>5, <1>6, ConcatProperties
  <2> HIDE DEF p
  <2>6. /\ S \in Seq(Seq(Y)) /\ Len(S) = c
        /\ \A i \in 1 .. c : S[i] = IF i = c THEN p ELSE D[i]
    BY <1>3, <2>3, <2>4, <2>5, ExceptSeq
  <2>7. S[1] = first
    BY <2>2, <2>3, <2>6
  <2>8. \A i \in 2 .. c : S[i] = IF i = c THEN C[i] \o behind ELSE C[i]
    <3>1. TAKE i \in 2 .. c
    <3>2. i \in 1 .. c /\ i # 1
      OBVIOUS
    <3>3. D[i] = C[i]
      BY <2>3, <3>2
    <3> QED  BY <2>6, <3>2, <3>3 DEF p
  <2> QED  BY <1>0, <1>3, <1>4, <1>8, <2>1, <2>2, <2>6, <2>7, <2>8 DEF Staged, S, C, X, Y
<1>9. CASE ~is_pipeline(w)
  <2>1. S = <<w>> /\ first = w /\ c = 1 /\ C[1] = w
    BY <1>0, <1>3, <1>4, <1>9, SizeCases DEF S, Stages
  <2>2. S \in Seq(Seq(Y)) /\ Len(S) = 1 /\ S[1] = w /\ w \in Seq(Y)
    BY <1>1, <2>1
  <2>3. \A k \in 1 .. Len(w) : w[k] # Bar
    BY <1>3, <1>5, <2>1
  <2>4. 2 .. 1 = {} /\ ~(1 > 1)
    OBVIOUS
  <2> QED  BY <1>3, <1>4, <2>1, <2>2, <2>3, <2>4 DEF Staged, S, C, X, Y
<1> QED  BY <1>8, <1>9

\* c is S with its first stage ended at its first redirection, if there is one.
Redirected(c, S, first) ==
    \/ /\ c = [NoCommand EXCEPT !.stages = S]
       /\ \A k \in 1 .. Len(first) : first[k] \notin Symbols
    \/ \E n \in 1 .. Len(first) - 1 :
          /\ c = [stages |-> [S EXCEPT ![1] = SubSeq(first, 1, n - 1)],
                  symbol |-> first[n], file |-> first[n + 1]]
          /\ first[n] \in Symbols
          /\ \A k \in 1 .. n - 1 : first[k] \notin Symbols

LEMMA RedirectsAre ==
    ASSUME NEW X, NEW S, S[1] \in Seq(X), ~Dangling(S[1])
    PROVE  Redirected(contains_redirects(S), S, S[1])
<1> DEFINE args == S[1]
           i == FirstSymbol(args)
           c == contains_redirects(S)
<1>1. SymbolAt(args, i)
  BY SymbolFound
<1>2. i = 0 \/ i # Len(args)
  BY DEF Dangling
<1>3. c = IF i = 0 THEN [NoCommand EXCEPT !.stages = S]
          ELSE [stages |-> [S EXCEPT ![1] = SubSeq(args, 1, i - 1)],
                symbol |-> args[i], file |-> args[i + 1]]
  BY DEF contains_redirects
<1>4. Len(args) \in Nat
  OBVIOUS
<1> HIDE DEF args, i, c
<1>5. CASE i = 0
  BY <1>1, <1>3, <1>5 DEF Redirected, SymbolAt, args, c
<1>6. CASE i # 0
  <2>1. i \in 1 .. Len(args) - 1 /\ args[i] \in Symbols /\ \A k \in 1 .. i - 1 : args[k] \notin Symbols
    BY <1>1, <1>2, <1>4, <1>6 DEF SymbolAt
  <2>2. Redirected(c, S, args)
    BY <1>3, <1>6, <2>1 DEF Redirected
  <2> QED  BY <2>2 DEF args, c
<1> QED  BY <1>5, <1>6

\* What ParseCommand can make of the words w.
Parsed(c, w) ==
    \E behind \in {<<>>, <<Wild>>}, first \in Firsts(w) :
        /\ w \in Seq(Words) /\ w # <<>> /\ ~Dangling(first)
        /\ is_pipeline(w) \/ behind = <<>>
        /\ c = contains_redirects(Stages(w, first, behind))

Commands == [stages : Seq(Seq(Written \cup {Wild})), symbol : Symbols \cup {"None"},
             file : Written \cup {Wild, "none"}]

\* The stages without what malloc left, and what the user reads in c.
Cleaned(c) == [i \in 1 .. Len(c.stages) |->
                  IF i = 1 \/ i < Len(c.stages) THEN c.stages[i] ELSE Without(c.stages[i], {Wild})]
Others(stages) == FlattenSeq([i \in 1 .. Len(stages) - 1 |-> <<Bar>> \o stages[i + 1]])
First(c, stages) == IF c.symbol = "None" THEN stages[1] ELSE stages[1] \o <<c.symbol, c.file>>
TextOf(c, w) ==
    LET stages == Cleaned(c)
    IN  /\ \E v \in IF Len(stages) > 1 THEN Strays(FirstStage(w)) ELSE {w} :
               IsPrefix(First(c, stages), v) /\ (c.symbol = "None" => First(c, stages) = v)
        /\ w = FirstStage(w) \o Others(stages)
        /\ Range(stages[1]) \cap Symbols = {}
        /\ \A i \in 1 .. Len(stages) : Bar \notin Range(stages[i])

\* What the first stage tells of the words.
HeadOf(c, w) ==
    /\ c.stages # <<>> /\ (Len(c.stages) > 1 <=> FirstStage(w) # w)
    /\ (c.stages = << <<>> >> => w[1] \in Symbols)
    /\ (Len(c.stages) = 1 /\ c.stages[1] # <<>> => Head(c.stages[1]) = w[1])
    /\ (\A x \in Words : w = <<x>> /\ x # Bar => c = [NoCommand EXCEPT !.stages = <<w>>])

\* A vector up to its n-th word, and the redirection that was behind it.
LEMMA TwoMore ==
    ASSUME NEW X, NEW a \in Seq(X), NEW n \in 1 .. Len(a) - 1
    PROVE  /\ SubSeq(a, 1, n - 1) \in Seq(X) /\ Len(SubSeq(a, 1, n - 1)) = n - 1
           /\ SubSeq(a, 1, n - 1) = [k \in 1 .. n - 1 |-> a[k]]
           /\ IsPrefix(SubSeq(a, 1, n - 1) \o <<a[n], a[n + 1]>>, a)
<1>1. Len(a) \in Nat /\ n \in Nat /\ n >= 1 /\ n + 1 <= Len(a)
  OBVIOUS
<1> DEFINE m == n - 1
           b == [k \in 1 .. m |-> a[k]]
           r == <<a[n], a[n + 1]>>
           q == b \o r
           d == [k \in 1 .. m + 2 |-> a[k]]
<1>2. m \in Nat /\ m + 1 = n /\ m + 2 = n + 1 /\ m + 2 <= Len(a) /\ m <= Len(a)
  BY <1>1
<1>3. b = SubSeq(a, 1, m)
  BY <1>2
<1>4. d = SubSeq(a, 1, m + 2)
  BY <1>2
<1>5. b \in Seq(X) /\ Len(b) = m
  <2>1. \A k \in 1 .. m : a[k] \in X
    BY <1>2
  <2>2. b \in [1 .. m -> X]
    BY <2>1
  <2> QED  BY <1>2, <2>2, FunctionIsSeq
<1>6. d \in Seq(X) /\ Len(d) = m + 2
  <2>1. \A k \in 1 .. m + 2 : a[k] \in X
    BY <1>2
  <2>2. d \in [1 .. m + 2 -> X] /\ m + 2 \in Nat
    BY <1>2, <2>1
  <2> QED  BY <2>2, FunctionIsSeq
<1>7. r \in Seq(X) /\ Len(r) = 2 /\ r[1] = a[m + 1] /\ r[2] = a[m + 2]
  <2>1. a[n] \in X /\ a[n + 1] \in X
    BY <1>1
  <2> QED  BY <1>2, <2>1
<1>8. (\A k \in 1 .. m : b[k] = a[k]) /\ \A k \in 1 .. m + 2 : d[k] = a[k]
  OBVIOUS
<1> HIDE DEF b, d, r, m
<1>9. /\ q \in Seq(X) /\ Len(q) = m + 2
      /\ \A k \in 1 .. m + 2 : q[k] = IF k <= m THEN b[k] ELSE r[k - m]
  <2>1. /\ q \in Seq(X) /\ Len(q) = Len(b) + Len(r)
        /\ \A k \in 1 .. Len(b) + Len(r) : q[k] = IF k <= Len(b) THEN b[k] ELSE r[k - Len(b)]
    BY <1>5, <1>7, ConcatProperties
  <2> QED  BY ONLY <1>5, <1>7, <2>1
<1>10. \A k \in 1 .. m + 2 : q[k] = d[k]
  <2>1. TAKE k \in 1 .. m + 2
  <2>2. CASE k <= m
    BY <1>2, <1>8, <1>9, <2>2
  <2>3. CASE k = m + 1
    <3>1. k - m = 1 /\ ~(k <= m)
      BY <1>2, <2>3
    <3> QED  BY <1>7, <1>8, <1>9, <2>3, <3>1
  <2>4. CASE k = m + 2
    <3>1. k - m = 2 /\ ~(k <= m)
      BY <1>2, <2>4
    <3> QED  BY <1>7, <1>8, <1>9, <2>4, <3>1
  <2>5. m \in Nat /\ k \in 1 .. m + 2
    BY <1>2
  <2>6. k <= m \/ k = m + 1 \/ k = m + 2
    BY ONLY <2>5
  <2> QED  BY <2>2, <2>3, <2>4, <2>6
<1> HIDE DEF q
<1>11. q = d
  BY <1>6, <1>9, <1>10, SeqEqual
<1>12. SubSeq(q, 1, m + 2) = q
  BY <1>9, SubSeqFull
<1>13. IsPrefix(q, a)
  BY <1>2, <1>4, <1>9, <1>11, <1>12 DEF IsPrefix
<1> QED  BY <1>3, <1>5, <1>13 DEF q, r, b, m

\* What a parsed command is made of: the stages of its words, up to where they end.
PartsOf(c, w, first, behind) ==
    LET C == CutAt(w, Bar)
        S == Stages(w, first, behind)
    IN  /\ w \in Seq(Words) /\ w # <<>> /\ first \in Firsts(w)
        /\ Staged(S, C, first, w, behind) /\ CutRight(Written, w, Bar, C)
        /\ Redirected(c, S, first)

LEMMA ParsedParts ==
    ASSUME NEW c, NEW w, Parsed(c, w)
    PROVE  \E behind \in {<<>>, <<Wild>>}, first \in Firsts(w) : PartsOf(c, w, first, behind)
<1>1. PICK behind \in {<<>>, <<Wild>>}, first \in Firsts(w) :
          /\ w \in Seq(Words) /\ w # <<>> /\ ~Dangling(first)
          /\ is_pipeline(w) \/ behind = <<>>
          /\ c = contains_redirects(Stages(w, first, behind))
  BY DEF Parsed
<1> DEFINE C == CutAt(w, Bar)
           S == Stages(w, first, behind)
<1>2. Staged(S, C, first, w, behind)
  BY <1>1, StagesAre
<1>3. CutRight(Written, w, Bar, C)
  <2>1. Bar \in Written /\ w \in Seq(Written)
    BY <1>1 DEF Written
  <2> QED  BY <2>1, CutIsRight
<1> HIDE DEF C, S
<1>4. S[1] = first /\ first \in Seq(Written \cup {Wild})
  BY <1>2 DEF Staged
<1>5. Redirected(contains_redirects(S), S, S[1])
  BY <1>1, <1>4, RedirectsAre DEF S
<1>6. PartsOf(c, w, first, behind)
  BY <1>1, <1>2, <1>3, <1>4, <1>5 DEF PartsOf, C, S
<1> QED  BY <1>6

\* What the redirection leaves of the stages.
Headed(c, S, first) ==
    /\ c \in Commands /\ Len(c.stages) = Len(S)
    /\ \A i \in 2 .. Len(S) : c.stages[i] = S[i]
    /\ c.stages[1] \in Seq(Written \cup {Wild})
    /\ \A k \in 1 .. Len(c.stages[1]) : c.stages[1][k] = first[k] /\ first[k] \notin Symbols
    /\ Len(c.stages[1]) <= Len(first)
    /\ c.symbol = "None" => c.stages[1] = first /\ c = [NoCommand EXCEPT !.stages = S]
    /\ c.symbol # "None" => /\ IsPrefix(c.stages[1] \o <<c.symbol, c.file>>, first)
                            /\ Len(first) > 1
                            /\ c.stages[1] = <<>> => first[1] \in Symbols

LEMMA HeadedBy ==
    ASSUME NEW S \in Seq(Seq(Written \cup {Wild})), Len(S) >= 1, NEW c,
           NEW first \in Seq(Written \cup {Wild}), S[1] = first, Redirected(c, S, first)
    PROVE  Headed(c, S, first)
<1> DEFINE Y == Written \cup {Wild}
<1>1. 1 \in 1 .. Len(S) /\ Len(S) \in Nat
  OBVIOUS
<1>2. CASE /\ c = [NoCommand EXCEPT !.stages = S]
           /\ \A k \in 1 .. Len(first) : first[k] \notin Symbols
  <2>1. c = [stages |-> S, symbol |-> "None", file |-> "none"]
    BY <1>2 DEF NoCommand
  <2>2. c.stages = S /\ c.symbol = "None"
    BY <2>1
  <2>3. c \in Commands
    BY <2>1 DEF Commands
  <2>4. Len(first) <= Len(first)
    OBVIOUS
  <2> QED  BY <1>2, <2>2, <2>3, <2>4 DEF Headed
<1>3. ASSUME NEW n \in 1 .. Len(first) - 1,
             c = [stages |-> [S EXCEPT ![1] = SubSeq(first, 1, n - 1)],
                  symbol |-> first[n], file |-> first[n + 1]],
             first[n] \in Symbols,
             \A k \in 1 .. n - 1 : first[k] \notin Symbols
      PROVE  Headed(c, S, first)
  <2> DEFINE p == SubSeq(first, 1, n - 1)
             Q == [S EXCEPT ![1] = p]
             m == Len(first)
  <2>1. /\ p \in Seq(Y) /\ Len(p) = n - 1 /\ \A k \in 1 .. n - 1 : p[k] = first[k]
        /\ IsPrefix(p \o <<first[n], first[n + 1]>>, first)
    BY TwoMore
  <2>2. m \in Nat /\ n \in 1 .. m - 1
    OBVIOUS
  <2>3. c.stages = Q /\ c.symbol = first[n] /\ c.file = first[n + 1]
    BY <1>3
  <2>4. first[n + 1] \in Y
    <3>1. n + 1 \in 1 .. Len(first)
      BY <2>2
    <3> QED  BY <3>1
  <2> HIDE DEF p, m
  <2>6. /\ Q \in Seq(Seq(Y)) /\ Len(Q) = Len(S)
        /\ \A i \in 1 .. Len(S) : Q[i] = IF i = 1 THEN p ELSE S[i]
    BY <1>1, <2>1, ExceptSeq
  <2> HIDE DEF Q
  <2>7. Q[1] = p /\ \A i \in 2 .. Len(S) : Q[i] = S[i]
    BY <1>1, <2>6
  <2>8. c \in Commands
    BY <1>3, <2>4, <2>6 DEF Commands, p, Q
  <2>9. n \in Nat /\ Len(p) <= m /\ m > 1 /\ (Len(p) = 0 => n = 1)
    BY <2>1, <2>2
  <2>10. p = <<>> => first[1] \in Symbols
    <3>1. p = <<>> => Len(p) = 0
      OBVIOUS
    <3> QED  BY <1>3, <2>9, <3>1
  <2>11. c.symbol # "None"
    BY <1>3, <2>3, NotSymbols
  <2>12. \A k \in 1 .. Len(p) : p[k] = first[k] /\ first[k] \notin Symbols
    BY <1>3, <2>1
  <2> QED  BY <2>1, <2>3, <2>6, <2>7, <2>8, <2>9, <2>10, <2>11, <2>12 DEF Headed, m
<1> QED  BY <1>2, <1>3 DEF Redirected

LEMMA ParsedHead ==
    ASSUME NEW c, NEW w, Parsed(c, w)
    PROVE  c \in Commands /\ w \in Seq(Words) /\ w # <<>> /\ HeadOf(c, w)
<1>1. PICK behind \in {<<>>, <<Wild>>}, first \in Firsts(w) : PartsOf(c, w, first, behind)
  BY ParsedParts
<1> DEFINE C == CutAt(w, Bar)
           S == Stages(w, first, behind)
           head == c.stages[1]
<1>2. /\ w \in Seq(Words) /\ w # <<>> /\ Staged(S, C, first, w, behind)
      /\ Redirected(c, S, first)
  BY <1>1 DEF PartsOf
<1> HIDE DEF C, S
<1>3. /\ Len(C) \in Nat /\ Len(C) >= 1 /\ S \in Seq(Seq(Written \cup {Wild})) /\ Len(S) = Len(C)
      /\ S[1] = first /\ first \in Seq(Written \cup {Wild})
      /\ (FirstStage(w) # w <=> Len(C) > 1) /\ (Len(C) = 1 => first = w)
  BY <1>2 DEF Staged
<1>4. Headed(c, S, first)
  BY <1>2, <1>3, HeadedBy
<1>5. /\ c \in Commands /\ Len(c.stages) = Len(C) /\ c.stages \in Seq(Seq(Written \cup {Wild}))
      /\ head \in Seq(Written \cup {Wild}) /\ Len(head) <= Len(first) /\ Len(head) \in Nat
      /\ \A k \in 1 .. Len(head) : head[k] = first[k] /\ first[k] \notin Symbols
      /\ (c.symbol = "None" => head = first /\ c = [NoCommand EXCEPT !.stages = S])
      /\ (c.symbol # "None" => Len(first) > 1 /\ (head = <<>> => first[1] \in Symbols))
  BY <1>3, <1>4 DEF Headed, Commands
<1>6. c.stages # <<>>
  BY <1>3, <1>5
<1>7. Len(c.stages) > 1 <=> FirstStage(w) # w
  BY <1>3, <1>5
<1>8. ASSUME c.stages = << <<>> >> PROVE w[1] \in Symbols
  <2>1. Len(c.stages) = 1 /\ head = <<>>
    BY <1>8
  <2>2. first = w
    BY <1>3, <1>5, <2>1
  <2> HIDE DEF head
  <2>3. head # first
    BY <1>2, <2>1, <2>2
  <2> QED  BY <1>5, <2>1, <2>2, <2>3
<1>9. ASSUME Len(c.stages) = 1, head # <<>> PROVE Head(head) = w[1]
  <2>1. 1 \in 1 .. Len(head) /\ Head(head) = head[1]
    BY <1>5, <1>9
  <2>2. first = w
    BY <1>3, <1>5, <1>9
  <2> QED  BY <1>5, <2>1, <2>2
<1>10. ASSUME NEW x \in Words, w = <<x>>, x # Bar PROVE c = [NoCommand EXCEPT !.stages = <<w>>]
  <2>1. Len(w) = 1 /\ \A i \in 1 .. Len(w) : w[i] = x
    BY <1>10
  <2>2. ~is_pipeline(w)
    BY <1>10, <2>1 DEF is_pipeline
  <2>3. S = <<first>> /\ first = w
    BY <1>1, <2>2 DEF S, Stages, Firsts
  <2>4. c.symbol = "None"
    <3>1. Len(first) = 1 /\ ~(1 > 1)
      BY <2>1, <2>3
    <3> QED  BY <1>5, <3>1
  <2> QED  BY <1>5, <2>3, <2>4
<1> QED  BY <1>2, <1>5, <1>6, <1>7, <1>8, <1>9, <1>10 DEF HeadOf

LEMMA ParsedText ==
    ASSUME NEW c, NEW w, Parsed(c, w)
    PROVE  TextOf(c, w)
<1>1. PICK behind \in {<<>>, <<Wild>>}, first \in Firsts(w) : PartsOf(c, w, first, behind)
  BY ParsedParts
<1> DEFINE C == CutAt(w, Bar)
           S == Stages(w, first, behind)
           Y == Written \cup {Wild}
           head == c.stages[1]
           Z == Cleaned(c)
<1>2. /\ w \in Seq(Words) /\ Staged(S, C, first, w, behind) /\ CutRight(Written, w, Bar, C)
      /\ Redirected(c, S, first)
  BY <1>1 DEF PartsOf
<1> HIDE DEF C, S
<1>3. /\ C \in Seq(Seq(Written)) /\ Len(C) >= 1 /\ S \in Seq(Seq(Y)) /\ Len(S) = Len(C)
      /\ S[1] = first /\ first \in Seq(Y)
      /\ \A k \in 1 .. Len(first) : first[k] # Bar
      /\ \A i \in 2 .. Len(C) : S[i] = IF i = Len(C) THEN C[i] \o behind ELSE C[i]
  BY <1>2 DEF Staged
<1>0. FirstStage(w) = C[1] /\ first \in (IF Len(C) > 1 THEN Strays(FirstStage(w)) ELSE {w})
  <2>1. Bar \in Written /\ w \in Seq(Written)
    BY <1>2 DEF Written
  <2>2. FirstOf(w, C)
    BY <1>2, <2>1, FirstStageIs
  <2>3. Len(C) = 1 \/ Len(C) > 1
    BY <1>3
  <2> QED  BY <1>2, <2>2, <2>3 DEF FirstOf, Staged
<1>4. Headed(c, S, first)
  BY <1>2, <1>3, HeadedBy
<1>5. /\ \A i \in 1 .. Len(C) : \A k \in 1 .. Len(C[i]) : C[i][k] # Bar
      /\ w = C[1] \o FlattenSeq(Rest(C, Bar))
  BY <1>2 DEF CutRight
<1>6. ASSUME NEW i \in 2 .. Len(C) PROVE Z[i] = C[i]
  <2>0. i \in 1 .. Len(C) /\ i # 1 /\ (i < Len(C) \/ i = Len(C))
    BY <1>3
  <2>1. c.stages[i] = S[i] /\ Len(c.stages) = Len(C)
    BY <1>3, <1>4 DEF Headed
  <2>2. Z[i] = IF i < Len(C) THEN S[i] ELSE Without(S[i], {Wild})
    BY <2>0, <2>1 DEF Cleaned
  <2>3. C[i] \in Seq(Written)
    BY <1>3, <2>0
  <2>4. CASE i < Len(C)
    <3>1. i # Len(C)
      BY <1>3, <2>4
    <3> QED  BY <1>3, <2>0, <2>2, <2>4, <3>1
  <2>5. CASE i = Len(C)
    <3> DEFINE p == C[i]
    <3>0. ~(i < Len(C))
      BY <1>3, <2>5
    <3>1. S[i] = p \o behind /\ Z[i] = Without(S[i], {Wild})
      <4>1. S[i] = p \o behind
        BY <1>3, <2>0, <2>5
      <4>2. Z[i] = Without(S[i], {Wild})
        BY <2>2, <3>0
      <4> QED  BY <4>1, <4>2
    <3>2. p \in Seq(Written) /\ {Wild} \cap Written = {} /\ p \in Seq(Y) /\ Wild \in Y
      BY <2>3, NotSymbols
    <3> HIDE DEF p, Y
    <3>3. Without(p, {Wild}) = p
      BY <3>2, WithoutKeeps
    <3>4. CASE behind = <<>>
      BY <3>1, <3>2, <3>3, <3>4, ConcatEmptySeq DEF p
    <3>5. CASE behind = <<Wild>>
      <4>1. p \o <<Wild>> = Append(p, Wild)
        BY <3>2
      <4>2. Without(Append(p, Wild), {Wild}) = Sift(Without(p, {Wild}), Wild, {Wild})
        BY <3>2, WithoutAppend
      <4> QED  BY <3>1, <3>3, <3>5, <4>1, <4>2 DEF Sift, p
    <3> QED  BY <3>4, <3>5
  <2> QED  BY <2>0, <2>4, <2>5
<1>7. Z[1] = head /\ Len(Z) = Len(C)
  <2>1. Len(c.stages) = Len(C) /\ 1 \in 1 .. Len(C)
    BY <1>3, <1>4 DEF Headed
  <2>2. Z[1] = head
    BY <2>1 DEF Cleaned
  <2>3. Len(Z) = Len(C)
    <3>1. Len(C) \in Nat
      BY <1>3
    <3> QED  BY <2>1, <3>1 DEF Cleaned
  <2> QED  BY <2>2, <2>3
<1>8. /\ c \in Commands
      /\ head \in Seq(Y) /\ Len(head) <= Len(first) /\ Len(head) \in Nat
      /\ \A k \in 1 .. Len(head) : head[k] = first[k] /\ first[k] \notin Symbols
      /\ (c.symbol = "None" => head = first)
      /\ (c.symbol # "None" => IsPrefix(head \o <<c.symbol, c.file>>, first))
  BY <1>3, <1>4 DEF Headed
<1> HIDE DEF Z, head
<1>9. Others(Z) = FlattenSeq(Rest(C, Bar))
  <2>1. \A i \in 1 .. Len(C) - 1 : i + 1 \in 2 .. Len(C)
    BY <1>3
  <2>2. \A i \in 1 .. Len(C) - 1 : <<Bar>> \o Z[i + 1] = <<Bar>> \o C[i + 1]
    BY <1>6, <2>1
  <2> QED  BY <1>7, <2>2 DEF Others, Rest
<1>10. First(c, Z) = (IF c.symbol = "None" THEN first ELSE head \o <<c.symbol, c.file>>)
  BY <1>7, <1>8 DEF First
<1>11. IsPrefix(first, first)
  BY <1>3, SubSeqFull DEF IsPrefix
<1>12. Range(Z[1]) \cap Symbols = {}
  BY <1>7, <1>8 DEF Range
<1>13. \A i \in 1 .. Len(Z) : Bar \notin Range(Z[i])
  <2>1. TAKE i \in 1 .. Len(Z)
  <2>2. CASE i = 1
    <3>1. \A k \in 1 .. Len(first) : first[k] # Bar
      BY <1>3
    <3>2. \A k \in 1 .. Len(head) : k \in 1 .. Len(first)
      BY <1>3, <1>8
    <3>3. \A k \in 1 .. Len(head) : head[k] # Bar
      BY <1>8, <3>1, <3>2
    <3> QED  BY <1>7, <1>8, <2>2, <3>3 DEF Range
  <2>3. CASE i # 1
    <3>1. i \in 2 .. Len(C) /\ i \in 1 .. Len(C)
      BY <1>3, <1>7, <2>3
    <3>2. Z[i] = C[i] /\ C[i] \in Seq(Written)
      BY <1>3, <1>6, <3>1
    <3> QED  BY <1>5, <3>1, <3>2 DEF Range
  <2> QED  BY <2>2, <2>3
<1>14. IsPrefix(First(c, Z), first) /\ (c.symbol = "None" => First(c, Z) = first)
  BY <1>8, <1>10, <1>11
<1>15. first \in (IF Len(Z) > 1 THEN Strays(FirstStage(w)) ELSE {w})
  BY <1>0, <1>7
<1>16. w = FirstStage(w) \o Others(Z)
  BY <1>0, <1>5, <1>9
<1> QED  BY <1>12, <1>13, <1>14, <1>15, <1>16 DEF TextOf, Z

(***************************************************************************)
(* The inductive invariant.                                                *)
(***************************************************************************)
Cmds == split_command(line)

\* A command before the k-th, with as many words as that, has been run.
Lost(k) == \E q \in 0 .. j - 1 : Ran(q) /\ Len(Typed(q)) = k

Entries == [place : Nat, cmd : Commands]

DirsOK == cwd \in Near \cup Deep /\ current_dir = Shown(cwd)

Resting == /\ pc \in {"prompt", "split", "command", "run", "dead"}
           /\ pc \in {"prompt", "split"} => j = 0 /\ ran = <<>>

\* What is in the buffer.
Buffered == /\ line \in TypedLines
            /\ pc = "split" => input = line
            /\ pc = "prompt" => input = line
            /\ pc = "prompt" \/ eof => \E w \in Words : line = <<w>>
            /\ pc \notin {"prompt", "split"} /\ Typed(0) # <<>> => input = <<Head(Typed(0))>>

\* What the history says has been run.
Told == /\ j \in Nat
        /\ pc \notin {"prompt", "split"} => j <= Len(Cmds)
        /\ ran \in Seq(Entries) /\ Len(ran) <= j
        /\ \A e \in Range(ran) : e.place \in 0 .. j - 1 /\ Parsed(e.cmd, Typed(e.place))

\* What is left of the commands behind the one the loop is at.
LeftOver(k) == commands[k + 1] = IF Lost(k) \/ (pc = "run" /\ Len(Typed(j)) = k) THEN NULL ELSE Cmds[k + 1]
Left == pc \in {"command", "run"} =>
            /\ commands \in Seq(Seq(Filled \cup {Newline}) \cup {NULL}) /\ Len(commands) = Len(Cmds)
            /\ \A k \in j .. Len(commands) - 1 : pc = "command" \/ k > j => LeftOver(k)

Running == pc = "run" => j < Len(commands) /\ ~Lost(j) /\ Parsed(cmd, Typed(j))

Reading == line # <<>> => Buffered /\ Told /\ Left /\ Running

IInv == DirsOK /\ Resting /\ Reading /\ DroppedByCount /\ KilledBy
--------------------------------------------------------------------------------
\* What stays as it is if the line does.
SameLine ==
    /\ Cmds' = Cmds /\ line' = line
    /\ \A p : Typed(p)' = Typed(p)

LEMMA LineKept ==
    ASSUME line' = line PROVE SameLine
<1>1. \A p : Typed(p)' = Typed(p)
  BY DEF Typed, PlaceOf, Ends
<1> QED  BY <1>1 DEF SameLine, Cmds

LEMMA RanNext ==
    ASSUME NEW E, ran \in Seq(E), NEW e \in E, ran' = Append(ran, e)
    PROVE  /\ ran' \in Seq(E) /\ Len(ran') = Len(ran) + 1 /\ Range(ran') = Range(ran) \cup {e}
           /\ \A p : Ran(p)' <=> (Ran(p) \/ p = e.place)
<1>1. ran' \in Seq(E) /\ Len(ran') = Len(ran) + 1 /\ Len(ran) \in Nat
  OBVIOUS
<1>2. ran'[Len(ran) + 1] = e /\ \A i \in 1 .. Len(ran) : ran'[i] = ran[i]
  OBVIOUS
<1>3. DOMAIN ran' = 1 .. Len(ran) + 1 /\ DOMAIN ran = 1 .. Len(ran)
  BY <1>1
<1>4. 1 .. Len(ran) + 1 = (1 .. Len(ran)) \cup {Len(ran) + 1}
  BY <1>1
<1>5. Range(ran') = Range(ran) \cup {e}
  BY <1>2, <1>3, <1>4 DEF Range
<1>6. \A p : Ran(p)' <=> (Ran(p) \/ p = e.place)
  BY <1>5 DEF Ran
<1> QED  BY <1>1, <1>5, <1>6

\* The words at a place are what was typed there, or nothing if a command before it
\* took them away.
LEMMA CommandRead ==
    ASSUME IInv, line # <<>>, pc = "command", j < Len(commands)
    PROVE  /\ j \in Nat /\ j < Len(Cmds) /\ Len(Cmds) \in Nat
           /\ Typed(j) \in Seq(Words)
           /\ Lost(j) => Args = <<>>
           /\ ~Lost(j) => Args = Typed(j)
<1>1. Buffered /\ Told /\ Left
  BY DEF IInv, Reading
<1>2. LineRead
  BY <1>1, LineIsRead DEF Buffered
<1>3. /\ Cmds \in Seq(Seq(Filled \cup {Newline}))
      /\ \A i \in 1 .. Len(Cmds) : Cmds[i] # NULL
      /\ \A p \in Nat : Typed(p) = IF p < Len(Cmds) THEN WordsOf(Cmds[p + 1]) ELSE <<>>
      /\ \A p \in Nat : Typed(p) \in Seq(Words)
  BY <1>2 DEF LineRead, Cmds
<1>4. j \in Nat /\ Len(commands) = Len(Cmds) /\ Len(Cmds) \in Nat
  BY <1>1, <1>3 DEF Told, Left
<1>5. j < Len(Cmds) /\ j \in j .. Len(commands) - 1 /\ j + 1 \in 1 .. Len(Cmds)
  BY <1>4
<1>6. LeftOver(j)
  BY <1>1, <1>5 DEF Left
<1>7. Place = IF Lost(j) THEN NULL ELSE Cmds[j + 1]
  BY <1>6 DEF LeftOver, Place
<1>8. Lost(j) => Args = <<>>
  BY <1>7 DEF Args
<1>9. ~Lost(j) => Args = Typed(j)
  BY <1>3, <1>4, <1>5, <1>7 DEF Args
<1> QED  BY <1>3, <1>4, <1>5, <1>8, <1>9

LEMMA InitInv == Init => IInv
<1> SUFFICES ASSUME Init PROVE IInv
  OBVIOUS
<1>1. DirsOK
  BY DEF Init, DirsOK
<1>2. Resting
  BY DEF Init, Resting
<1>3. line = <<>> /\ pc # "dead"
  BY DEF Init
<1> QED  BY <1>1, <1>2, <1>3 DEF IInv, Reading, DroppedByCount, KilledBy

\* The directories change in one action only.
LEMMA DirsKept ==
    ASSUME DirsOK, UNCHANGED dirs
    PROVE  DirsOK'
  BY DEF DirsOK, dirs, Shown

\* What is not about the words is kept by every step that ends the shell.
LEMMA DyingInv ==
    ASSUME IInv, pc \in {"command", "run"}, NEW k, Die(k), KilledBy'
    PROVE  IInv'
<1>1. pc' = "dead" /\ UNCHANGED <<eof, line, input, commands, j, cmd, ran, dirs>>
  BY DEF Die
<1>2. SameLine
  BY <1>1, LineKept
<1>3. DirsOK'
  BY <1>1, DirsKept DEF IInv
<1>4. Resting'
  BY <1>1 DEF Resting
<1>5. ASSUME line' # <<>> PROVE Reading'
  <2>1. Buffered /\ Told
    BY <1>1, <1>5 DEF IInv, Reading
  <2>2. pc \notin {"prompt", "split"}
    OBVIOUS
  <2>3. Buffered'
    BY <1>1, <1>2, <2>1, <2>2 DEF Buffered, TypedLines, SameLine
  <2>4. Told'
    BY <1>1, <1>2, <2>1, <2>2 DEF Told, SameLine
  <2> QED  BY <1>1, <2>3, <2>4 DEF Reading, Left, Running
<1>6. DroppedByCount'
  <2>1. DroppedByCount
    BY DEF IInv
  <2>2. \A p : Ran(p)' <=> Ran(p)
    BY <1>1 DEF Ran
  <2> QED  BY <1>1, <1>2, <2>1, <2>2 DEF DroppedByCount, SameLine
<1>7. Reading'
  BY <1>5 DEF Reading
<1> QED  BY <1>3, <1>4, <1>6, <1>7 DEF IInv

\* And by every step of one that goes on.
LEMMA GoingOn ==
    ASSUME pc' # "dead"
    PROVE  KilledBy'
  BY DEF KilledBy

LEMMA LinesTyped == Lines \subseteq TypedLines
<1> DEFINE X == Filled \cup {Semicolon}
<1>1. X = Words \cup {Semicolon, Blank}
  BY DEF Filled
<1>2. ASSUME NEW least \in {0, 1}, NEW l \in Texts(least) PROVE l \in Seq(X)
  <2>1. PICK n \in least .. MaxWords : l \in [1 .. n -> X]
    BY <1>1, <1>2 DEF Texts
  <2>2. n \in Nat
    BY <1>2, WordsAssumption
  <2> QED  BY <2>1, <2>2, FunctionIsSeq
<1> SUFFICES ASSUME NEW l \in Lines PROVE l \in TypedLines
  OBVIOUS
<1>3. l \in Texts(1) \/ l \in {Append(k, Newline) : k \in Texts(0)}
  BY Zenon DEF Lines
<1>4. l \in Seq(X) \/ \E k \in Seq(X) : l = Append(k, Newline)
  <2>1. CASE l \in Texts(1)
    BY <1>2, <2>1
  <2>2. CASE l \in {Append(k, Newline) : k \in Texts(0)}
    <3>1. PICK k \in Texts(0) : l = Append(k, Newline)
      BY Zenon, <2>2
    <3> QED  BY <1>2, <3>1
  <2> QED  BY <1>3, <2>1, <2>2
<1> QED  BY <1>4 DEF TypedLines

\* At the prompt nothing has been run.
LEMMA NothingRun ==
    ASSUME ran' = <<>>, j' = 0
    PROVE  DroppedByCount' /\ (j \in Nat)' /\ (ran \in Seq(Entries))' /\ Len(ran') = 0 /\ Range(ran') = {}
<1>1. 0 .. 0 - 1 = {}
  OBVIOUS
<1>2. DroppedByCount'
  BY <1>1 DEF DroppedByCount
<1>3. <<>> \in Seq(Entries) /\ Len(<<>>) = 0 /\ DOMAIN <<>> = {}
  OBVIOUS
<1> QED  BY <1>2, <1>3 DEF Range

LEMMA ReadLineInv ==
    ASSUME IInv, ReadLine
    PROVE  IInv'
<1>1. PICK l \in Lines : pc' = "split" /\ line' = l /\ input' = l
  BY DEF ReadLine
<1>2. pc = "prompt" /\ ~eof /\ UNCHANGED <<eof, commands, j, cmd, ran, killer, dirs>>
  BY DEF ReadLine
<1>3. j = 0 /\ ran = <<>>
  BY <1>2 DEF IInv, Resting
<1>4. DirsOK' /\ KilledBy'
  BY <1>1, <1>2, DirsKept, GoingOn DEF IInv
<1>5. Resting'
  BY <1>1, <1>2, <1>3 DEF Resting
<1>6. line' \in TypedLines
  BY <1>1, LinesTyped
<1>7. Buffered'
  BY <1>1, <1>2, <1>6 DEF Buffered, TypedLines
<1>8. Told' /\ DroppedByCount'
  <2>1. ran' = <<>> /\ j' = 0 /\ pc' = "split"
    BY <1>1, <1>2, <1>3
  <2> QED  BY <2>1, NothingRun DEF Told
<1>9. Reading'
  BY <1>1, <1>7, <1>8 DEF Reading, Left, Running
<1> QED  BY <1>4, <1>5, <1>8, <1>9 DEF IInv

LEMMA ReadNothingInv ==
    ASSUME IInv, ReadNothing
    PROVE  IInv'
<1>1. /\ pc = "prompt" /\ pc' = "split" /\ eof' = TRUE
      /\ UNCHANGED <<line, input, commands, j, cmd, ran, killer, dirs>>
  BY DEF ReadNothing
<1>2. j = 0 /\ ran = <<>>
  BY <1>1 DEF IInv, Resting
<1>3. DirsOK' /\ KilledBy'
  BY <1>1, DirsKept, GoingOn DEF IInv
<1>4. Resting'
  BY <1>1, <1>2 DEF Resting
<1>5. Told' /\ DroppedByCount'
  <2>1. ran' = <<>> /\ j' = 0 /\ pc' = "split"
    BY <1>1, <1>2
  <2> QED  BY <2>1, NothingRun DEF Told
<1>6. ASSUME line' # <<>> PROVE Buffered'
  <2>1. Buffered
    BY <1>1, <1>6 DEF IInv, Reading
  <2> QED  BY <1>1, <2>1 DEF Buffered, TypedLines
<1>7. Reading'
  BY <1>1, <1>5, <1>6 DEF Reading, Left, Running
<1> QED  BY <1>3, <1>4, <1>5, <1>7 DEF IInv

LEMMA SplitInv ==
    ASSUME IInv, Split
    PROVE  IInv'
<1>1. /\ pc = "split" /\ pc' = "command" /\ commands' = split_command(input) /\ input' = Remains(input)
      /\ UNCHANGED <<eof, line, j, cmd, ran, killer, dirs>>
  BY DEF Split
<1>2. j = 0 /\ ran = <<>>
  BY <1>1 DEF IInv, Resting
<1>3. DirsOK' /\ KilledBy'
  BY <1>1, DirsKept, GoingOn DEF IInv
<1>4. Resting'
  BY <1>1 DEF Resting
<1>5. ran' = <<>> /\ j' = 0
  BY <1>1, <1>2
<1>6. DroppedByCount'
  BY <1>5, NothingRun
<1>7. ASSUME line' # <<>> PROVE Buffered' /\ Told' /\ Left' /\ Running'
  <2>1. Buffered /\ input = line
    BY <1>1, <1>7 DEF IInv, Reading, Buffered
  <2>2. LineRead
    BY <2>1, LineIsRead DEF Buffered
  <2>3. SameLine
    BY <1>1, LineKept
  <2>4. commands' = Cmds /\ Cmds \in Seq(Seq(Filled \cup {Newline})) /\ Len(Cmds) \in Nat
    BY <1>1, <2>1, <2>2 DEF LineRead, Cmds
  <2>5. Buffered'
    <3>1. Typed(0) # <<>> => Remains(line) = <<Head(Typed(0))>>
      BY <2>2 DEF LineRead
    <3>2. line' = line /\ Typed(0)' = Typed(0)
      BY <2>3 DEF SameLine
    <3> QED  BY <1>1, <2>1, <3>1, <3>2 DEF Buffered, TypedLines
  <2>6. Told'
    <3>1. Cmds' = Cmds /\ 0 <= Len(Cmds)
      BY <2>3, <2>4 DEF SameLine
    <3> QED  BY <1>5, <2>4, <3>1, NothingRun DEF Told
  <2>7. Left'
    <3>1. \A k : ~Lost(k)'
      <4>1. 0 .. 0 - 1 = {}
        OBVIOUS
      <4> QED  BY <1>5, <4>1 DEF Lost
    <3>2. Cmds' = Cmds
      BY <2>3 DEF SameLine
    <3>3. \A k : LeftOver(k)'
      BY <1>1, <2>4, <3>1, <3>2 DEF LeftOver
    <3>4. Seq(Seq(Filled \cup {Newline})) \subseteq Seq(Seq(Filled \cup {Newline}) \cup {NULL})
      OBVIOUS
    <3> QED  BY <2>4, <3>2, <3>3, <3>4 DEF Left
  <2> QED  BY <1>1, <2>5, <2>6, <2>7 DEF Running
<1>8. Reading'
  BY <1>7 DEF Reading
<1> QED  BY <1>3, <1>4, <1>6, <1>8 DEF IInv

LEMMA EndLineInv ==
    ASSUME IInv, EndLine
    PROVE  IInv'
<1>1. /\ pc = "command" /\ pc' = "prompt"
      /\ line' = (IF Typed(0) = <<>> THEN <<>> ELSE <<Head(Typed(0))>>)
      /\ j' = 0 /\ ran' = <<>> /\ UNCHANGED <<eof, input, killer, dirs>>
  BY DEF EndLine
<1>2. DirsOK' /\ KilledBy'
  BY <1>1, DirsKept, GoingOn DEF IInv
<1>3. Resting'
  BY <1>1 DEF Resting
<1>4. Told' /\ DroppedByCount'
  BY <1>1, NothingRun DEF Told
<1>5. ASSUME line' # <<>> PROVE Buffered'
  <2>1. Typed(0) # <<>>
    BY <1>1, <1>5
  <2>2. line # <<>>
    <3>1. line = <<>> => Typed(0) = <<>>
      BY TypedWhole, TypedNone
    <3> QED  BY <2>1, <3>1
  <2>3. Buffered
    BY <2>2 DEF IInv, Reading
  <2>4. LineRead
    BY <2>3, LineIsRead DEF Buffered
  <2>5. Typed(0) \in Seq(Words)
    BY <2>4 DEF LineRead
  <2> DEFINE w == Head(Typed(0))
  <2>6. w \in Words
    BY <2>1, <2>5
  <2>7. line' = <<w>> /\ input' = <<w>>
    BY <1>1, <2>1, <2>3 DEF Buffered
  <2> HIDE DEF w
  <2>8. <<w>> \in Seq(Filled \cup {Semicolon})
    BY <2>6 DEF Filled
  <2>9. line' \in TypedLines
    BY <2>7, <2>8 DEF TypedLines
  <2> QED  BY <1>1, <2>6, <2>7, <2>9 DEF Buffered, TypedLines
<1>6. Reading'
  BY <1>1, <1>4, <1>5 DEF Reading, Left, Running
<1> QED  BY <1>2, <1>3, <1>4, <1>6 DEF IInv

LEMMA KillType ==
    ASSUME NEW E, NULL \in E, NEW c \in Seq(E), NEW k \in Nat
    PROVE  /\ Kill(c, k) \in Seq(E) /\ Len(Kill(c, k)) = Len(c)
           /\ \A i \in 1 .. Len(c) : Kill(c, k)[i] = IF i = k + 1 THEN NULL ELSE c[i]
<1>1. Len(c) \in Nat /\ \A i \in 1 .. Len(c) : c[i] \in E
  OBVIOUS
<1>2. Kill(c, k) \in [1 .. Len(c) -> E]
  BY <1>1 DEF Kill
<1>3. \A i \in 1 .. Len(c) : Kill(c, k)[i] = IF i = k + 1 THEN NULL ELSE c[i]
  BY DEF Kill
<1> QED  BY <1>1, <1>2, <1>3, FunctionIsSeq

LEMMA ParseInv ==
    ASSUME IInv, ParseCommand
    PROVE  IInv'
<1>1. PICK behind \in {<<>>, <<Wild>>}, first \in Firsts(Args) :
          /\ pc = "command" /\ j < Len(commands)
          /\ Args # <<>> /\ ~Dangling(first)
          /\ is_pipeline(Args) \/ behind = <<>>
          /\ commands' = Kill(commands, Len(Args))
          /\ cmd' = contains_redirects(Stages(Args, first, behind))
          /\ pc' = "run"
          /\ UNCHANGED <<eof, line, input, j, ran, killer, dirs>>
  BY DEF ParseCommand, Stages
<1>2. DirsOK' /\ KilledBy'
  BY <1>1, DirsKept, GoingOn DEF IInv
<1>3. Resting'
  BY <1>1 DEF Resting
<1>4. SameLine
  BY <1>1, LineKept
<1>5. \A p : Ran(p)' <=> Ran(p)
  BY <1>1 DEF Ran
<1>6. DroppedByCount'
  BY <1>1, <1>4, <1>5 DEF IInv, DroppedByCount, SameLine
<1>7. ASSUME line' # <<>> PROVE Buffered' /\ Told' /\ Left' /\ Running'
  <2>1. Buffered /\ Told /\ Left /\ line # <<>>
    BY <1>1, <1>7 DEF IInv, Reading
  <2>2. /\ j \in Nat /\ j < Len(Cmds) /\ Len(Cmds) \in Nat /\ Typed(j) \in Seq(Words)
        /\ ~Lost(j) /\ Args = Typed(j)
    BY <1>1, <2>1, CommandRead
  <2>3. Buffered'
    BY <1>1, <1>4, <2>1 DEF Buffered, TypedLines, SameLine
  <2>4. Told'
    BY <1>1, <1>4, <2>1 DEF Told, SameLine
  <2>5. \A k : Lost(k)' <=> Lost(k)
    BY <1>1, <1>4, <1>5 DEF Lost, SameLine
  <2> DEFINE E == Seq(Filled \cup {Newline}) \cup {NULL}
             n == Len(Typed(j))
  <2>6. commands \in Seq(E) /\ Len(commands) = Len(Cmds) /\ NULL \in E /\ n \in Nat
    BY <1>1, <2>1, <2>2 DEF Left
  <2>7. commands' = Kill(commands, n) /\ n = Len(Typed(j))' /\ Cmds' = Cmds /\ pc' = "run" /\ j' = j
    BY <1>1, <1>4, <2>2 DEF SameLine
  <2> HIDE DEF E, n
  <2>8. /\ commands' \in Seq(E) /\ Len(commands') = Len(Cmds)
        /\ \A i \in 1 .. Len(commands) : commands'[i] = IF i = n + 1 THEN NULL ELSE commands[i]
    BY <2>6, <2>7, KillType
  <2>9. ASSUME NEW k \in j .. Len(commands') - 1, k > j PROVE LeftOver(k)'
    <3>1. k \in j .. Len(commands) - 1 /\ k + 1 \in 1 .. Len(commands) /\ k \in Nat
      BY <2>2, <2>6, <2>8, <2>9
    <3>2. LeftOver(k)
      BY <1>1, <2>1, <3>1 DEF Left
    <3>3. commands'[k + 1] = IF k = n THEN NULL ELSE commands[k + 1]
      BY <2>6, <2>8, <3>1
    <3>4. commands[k + 1] = IF Lost(k) THEN NULL ELSE Cmds[k + 1]
      BY <1>1, <3>2 DEF LeftOver
    <3>5. commands'[k + 1] = IF Lost(k) \/ k = n THEN NULL ELSE Cmds[k + 1]
      BY <3>3, <3>4
    <3> QED  BY <2>5, <2>7, <3>5 DEF LeftOver
  <2>10. Left'
    BY <2>6, <2>7, <2>8, <2>9 DEF Left, E
  <2>11. Running'
    <3>1. Parsed(cmd', Typed(j))
      BY <1>1, <2>2 DEF Parsed
    <3>2. Typed(j)' = Typed(j)
      BY <1>1, <1>4 DEF SameLine
    <3>3. j' < Len(commands') /\ ~Lost(j)'
      BY <2>2, <2>5, <2>7, <2>8
    <3>4. Parsed(cmd, Typed(j))'
      BY <3>1, <3>2
    <3> QED  BY <3>3, <3>4 DEF Running
  <2> QED  BY <2>3, <2>4, <2>10, <2>11
<1>8. Reading'
  BY <1>7 DEF Reading
<1> QED  BY <1>2, <1>3, <1>6, <1>8 DEF IInv

LEMMA SkipInv ==
    ASSUME IInv, SkipCommand
    PROVE  IInv'
<1>1. /\ pc = "command" /\ pc' = "command" /\ j < Len(commands) /\ Args = <<>>
      /\ commands' = Kill(commands, 0) /\ j' = j + 1
      /\ UNCHANGED <<eof, line, input, cmd, ran, killer, dirs>>
  BY DEF SkipCommand
<1>2. DirsOK' /\ KilledBy'
  BY <1>1, DirsKept, GoingOn DEF IInv
<1>3. Resting'
  BY <1>1 DEF Resting
<1>4. SameLine
  BY <1>1, LineKept
<1>5. \A p : Ran(p)' <=> Ran(p)
  BY <1>1 DEF Ran
<1>6. ASSUME line' # <<>> PROVE Buffered' /\ Told' /\ Left' /\ Running' /\ DroppedByCount'
  <2>1. Buffered /\ Told /\ Left /\ line # <<>> /\ DroppedByCount
    BY <1>1, <1>6 DEF IInv, Reading
  <2>2. /\ j \in Nat /\ j < Len(Cmds) /\ Len(Cmds) \in Nat
        /\ ~Lost(j) => Typed(j) = <<>>
    BY <1>1, <2>1, CommandRead
  <2>3. Buffered'
    BY <1>1, <1>4, <2>1 DEF Buffered, TypedLines, SameLine
  <2>4. j' \in Nat /\ j' <= Len(Cmds) /\ \A q : q \in 0 .. j' - 1 <=> (q \in 0 .. j - 1 \/ q = j)
    BY <1>1, <2>2
  <2>5. ~Ran(j)
    <3>1. \A e \in Range(ran) : e.place \in 0 .. j - 1
      BY <2>1 DEF Told
    <3> QED  BY <2>2, <3>1 DEF Ran
  <2>6. Told'
    <3>1. \A e \in Range(ran) : e.place \in 0 .. j' - 1 /\ Parsed(e.cmd, Typed(e.place))
      BY <2>1, <2>4 DEF Told
    <3>2. ran \in Seq(Entries) /\ Len(ran) <= j'
      <4>1. ran \in Seq(Entries) /\ Len(ran) <= j
        BY <2>1 DEF Told
      <4> QED  BY <1>1, <2>2, <4>1
    <3>3. Cmds' = Cmds /\ ran' = ran /\ \A p : Typed(p)' = Typed(p)
      BY <1>1, <1>4 DEF SameLine
    <3> QED  BY <2>4, <3>1, <3>2, <3>3 DEF Told
  <2>7. \A k : Lost(k)' <=> Lost(k)
    <3>1. \A k : Lost(k)' <=> \E q \in 0 .. j' - 1 : Ran(q) /\ Len(Typed(q)) = k
      BY <1>4, <1>5 DEF Lost, SameLine
    <3> QED  BY <2>4, <2>5, <3>1 DEF Lost
  <2> DEFINE E == Seq(Filled \cup {Newline}) \cup {NULL}
  <2>8. commands \in Seq(E) /\ Len(commands) = Len(Cmds) /\ NULL \in E /\ 0 \in Nat
    BY <1>1, <2>1 DEF Left
  <2> HIDE DEF E
  <2>9. /\ commands' \in Seq(E) /\ Len(commands') = Len(Cmds)
        /\ \A i \in 1 .. Len(commands) : commands'[i] = IF i = 0 + 1 THEN NULL ELSE commands[i]
    BY <1>1, <2>8, KillType
  <2>10. ASSUME NEW k \in j' .. Len(commands') - 1 PROVE LeftOver(k)'
    <3>1. k \in j .. Len(commands) - 1 /\ k + 1 \in 1 .. Len(commands) /\ k + 1 # 0 + 1
      BY <1>1, <2>2, <2>8, <2>9, <2>10
    <3>2. LeftOver(k)
      BY <1>1, <2>1, <3>1 DEF Left
    <3>3. commands'[k + 1] = commands[k + 1]
      BY <2>9, <3>1
    <3>4. Cmds' = Cmds
      BY <1>4 DEF SameLine
    <3> QED  BY <1>1, <2>7, <3>2, <3>3, <3>4 DEF LeftOver
  <2>11. Left'
    <3>1. Cmds' = Cmds
      BY <1>4 DEF SameLine
    <3> QED  BY <2>9, <2>10, <3>1 DEF Left, E
  <2>12. DroppedByCount'
    <3>1. ASSUME NEW p \in 0 .. j' - 1, Typed(p) # <<>>
          PROVE  Ran(p) <=> \A q \in 0 .. p - 1 : Ran(q) => Len(Typed(q)) # p
      <4>1. CASE p \in 0 .. j - 1
        BY <2>1, <3>1, <4>1 DEF DroppedByCount
      <4>2. CASE p = j
        <5>1. Lost(j)
          BY <2>2, <3>1, <4>2
        <5> QED  BY <2>5, <4>2, <5>1 DEF Lost
      <4> QED  BY <2>4, <4>1, <4>2
    <3> QED  BY <1>4, <1>5, <3>1 DEF DroppedByCount, SameLine
  <2> QED  BY <1>1, <2>3, <2>6, <2>11, <2>12 DEF Running
<1>7. Reading' /\ DroppedByCount'
  BY <1>6 DEF Reading, DroppedByCount
<1> QED  BY <1>2, <1>3, <1>7 DEF IInv

\* A command that was run, or left to a child, and the loop goes on.
LEMMA DoneInv ==
    ASSUME IInv, pc = "run", Done, DirsOK'
    PROVE  IInv'
<1>1. /\ pc' = "command" /\ j' = j + 1 /\ ran' = Append(ran, [place |-> j, cmd |-> cmd])
      /\ UNCHANGED <<eof, line, input, commands, cmd, killer>>
  BY DEF Done
<1>2. KilledBy' /\ Resting'
  BY <1>1, GoingOn DEF Resting
<1>3. SameLine
  BY <1>1, LineKept
<1>4. ASSUME line' # <<>> PROVE Buffered' /\ Told' /\ Left' /\ Running' /\ DroppedByCount'
  <2>1. Buffered /\ Told /\ Left /\ Running /\ line # <<>> /\ DroppedByCount
    BY <1>1, <1>4 DEF IInv, Reading
  <2>2. LineRead
    BY <2>1, LineIsRead DEF Buffered
  <2>3. Cmds \in Seq(Seq(Filled \cup {Newline})) /\ Len(Cmds) \in Nat
    BY <2>2 DEF LineRead, Cmds
  <2>4. /\ j \in Nat /\ j < Len(Cmds) /\ Len(commands) = Len(Cmds) /\ ~Lost(j) /\ Parsed(cmd, Typed(j))
        /\ ran \in Seq(Entries) /\ Len(ran) <= j /\ Len(ran) \in Nat
    BY <2>1 DEF Told, Left, Running
  <2>5. Buffered'
    BY <1>1, <1>3, <2>1 DEF Buffered, TypedLines, SameLine
  <2>6. j' \in Nat /\ j' <= Len(Cmds) /\ \A q : q \in 0 .. j' - 1 <=> (q \in 0 .. j - 1 \/ q = j)
    BY <1>1, <2>3, <2>4
  <2> DEFINE e0 == [place |-> j, cmd |-> cmd]
  <2>7. e0 \in Entries /\ e0.place = j /\ e0.cmd = cmd
    <3>1. cmd \in Commands
      BY <2>4, ParsedHead
    <3> QED  BY <2>4, <3>1 DEF Entries
  <2>8. ran' = Append(ran, e0)
    BY <1>1
  <2> HIDE DEF e0
  <2>9. /\ ran' \in Seq(Entries) /\ Len(ran') = Len(ran) + 1 /\ Range(ran') = Range(ran) \cup {e0}
        /\ \A p : Ran(p)' <=> (Ran(p) \/ p = j)
    BY <2>4, <2>7, <2>8, RanNext
  <2>10. Told'
    <3>1. \A e \in Range(ran') : e.place \in 0 .. j' - 1 /\ Parsed(e.cmd, Typed(e.place))
      BY <2>1, <2>4, <2>6, <2>7, <2>9 DEF Told
    <3>2. Len(ran') <= j'
      BY <1>1, <2>4, <2>9
    <3>3. Cmds' = Cmds /\ \A p : Typed(p)' = Typed(p)
      BY <1>3 DEF SameLine
    <3> QED  BY <2>6, <2>9, <3>1, <3>2, <3>3 DEF Told
  <2>11. ~Ran(j)
    <3>1. \A e \in Range(ran) : e.place \in 0 .. j - 1
      BY <2>1 DEF Told
    <3> QED  BY <2>4, <3>1 DEF Ran
  <2>12. \A k : Lost(k)' <=> (Lost(k) \/ Len(Typed(j)) = k)
    <3>1. \A k : Lost(k)' <=> \E q \in 0 .. j' - 1 : (Ran(q) \/ q = j) /\ Len(Typed(q)) = k
      BY <1>3, <2>9 DEF Lost, SameLine
    <3>2. \A q \in 0 .. j - 1 : q # j
      BY <2>4
    <3> QED  BY <2>6, <3>1, <3>2 DEF Lost
  <2>13. Left'
    <3>1. ASSUME NEW k \in j' .. Len(commands') - 1 PROVE LeftOver(k)'
      <4>1. k \in j .. Len(commands) - 1 /\ k > j
        BY <1>1, <2>3, <2>4, <3>1
      <4>2. LeftOver(k)
        BY <2>1, <4>1 DEF Left
      <4>3. Cmds' = Cmds
        BY <1>3 DEF SameLine
      <4> QED  BY <1>1, <2>12, <4>2, <4>3 DEF LeftOver
    <3>2. Cmds' = Cmds
      BY <1>3 DEF SameLine
    <3> QED  BY <1>1, <2>1, <3>1, <3>2 DEF Left
  <2>14. DroppedByCount'
    <3>1. ASSUME NEW p \in 0 .. j' - 1, Typed(p) # <<>>
          PROVE  (Ran(p) \/ p = j) <=> \A q \in 0 .. p - 1 : (Ran(q) \/ q = j) => Len(Typed(q)) # p
      <4>1. CASE p \in 0 .. j - 1
        <5>1. p # j /\ \A q \in 0 .. p - 1 : q # j
          BY <2>4, <4>1
        <5> QED  BY <2>1, <3>1, <4>1, <5>1 DEF DroppedByCount
      <4>2. CASE p = j
        <5>1. \A q \in 0 .. p - 1 : q # j
          BY <2>4, <4>2
        <5> QED  BY <2>4, <4>2, <5>1 DEF Lost
      <4> QED  BY <2>6, <4>1, <4>2
    <3> QED  BY <1>3, <2>9, <3>1 DEF DroppedByCount, SameLine
  <2> QED  BY <1>1, <2>5, <2>10, <2>13, <2>14 DEF Running
<1>5. Reading' /\ DroppedByCount'
  BY <1>4 DEF Reading, DroppedByCount
<1> QED  BY <1>2, <1>5 DEF IInv

\* What KilledBy says of the words at the place the loop is at.
KilledAt(k, w) ==
    \/ k = "quit" /\ FirstStage(w) = w /\ w[1] = "quit"
    \/ k = "format" /\ FirstStage(w) = w /\ Dangling(w)
    \/ k = "format" /\ FirstStage(w) # w /\ \E v \in Strays(FirstStage(w)) : Dangling(v)
    \/ k = "null" /\ FirstStage(w) = w /\ w[1] \in Symbols
    \/ k = "fork" /\ FirstStage(w) # w
    \/ k = "wild"

LEMMA DiesOf ==
    ASSUME IInv, pc \in {"command", "run"}, NEW k, Die(k), line # <<>> => KilledAt(k, Typed(j))
    PROVE  IInv'
<1>1. pc' = "dead" /\ killer' = k /\ line' = line /\ j' = j
  BY DEF Die
<1>2. SameLine
  BY <1>1, LineKept
<1>3. Typed(j)' = Typed(j)
  BY <1>1, <1>2 DEF SameLine
<1>4. KilledBy'
  BY <1>1, <1>3 DEF KilledBy, KilledAt
<1> QED  BY <1>4, DyingInv

LEMMA WrongFormatInv ==
    ASSUME IInv, WrongFormat
    PROVE  IInv'
<1>1. PICK first \in Firsts(Args) :
          pc = "command" /\ j < Len(commands) /\ Args # <<>> /\ Dangling(first) /\ Die("format")
  BY DEF WrongFormat
<1>2. ASSUME line # <<>> PROVE KilledAt("format", Typed(j))
  <2>1. Args = Typed(j) /\ Typed(j) \in Seq(Words)
    BY <1>1, <1>2, CommandRead
  <2> DEFINE w == Typed(j)
             C == CutAt(w, Bar)
  <2>2. w \in Seq(Written) /\ Bar \in Written
    BY <2>1 DEF Written
  <2>3. first \in IF is_pipeline(w) THEN Strays(C[1]) ELSE {w}
    BY <1>1, <2>1 DEF Firsts
  <2> HIDE DEF w
  <2>4. CutRight(Written, w, Bar, C)
    BY <2>2, CutIsRight
  <2> HIDE DEF C
  <2>5. FirstStage(w) = C[1] /\ ((FirstStage(w) = w) <=> ~is_pipeline(w))
    <3>1. FirstOf(w, C)
      BY <2>2, <2>4, FirstStageIs
    <3> QED  BY <3>1 DEF FirstOf
  <2> QED  BY <1>1, <2>3, <2>5 DEF KilledAt, w
<1> QED  BY <1>1, <1>2, DiesOf

\* What the loop has parsed, when it runs it.
LEMMA RunRead ==
    ASSUME IInv, pc = "run", line # <<>>
    PROVE  Parsed(cmd, Typed(j)) /\ cmd \in Commands /\ HeadOf(cmd, Typed(j))
<1>1. Parsed(cmd, Typed(j))
  BY DEF IInv, Reading, Running
<1> QED  BY <1>1, ParsedHead

LEMMA RunInv ==
    ASSUME IInv, RunPipeline \/ RunNothing \/ RunQuit \/ RunChdir \/ RunSimple \/ RunRedirected
    PROVE  IInv'
<1>1. ASSUME RunPipeline PROVE IInv'
  <2>1. pc = "run" /\ Len(cmd.stages) > 1
    BY <1>1 DEF RunPipeline, IsPiped
  <2>2. CASE Done /\ UNCHANGED dirs
    BY <2>1, <2>2, DirsKept, DoneInv DEF IInv
  <2>3. CASE Die("fork")
    <3>1. ASSUME line # <<>> PROVE KilledAt("fork", Typed(j))
      BY <2>1, <3>1, RunRead DEF HeadOf, KilledAt
    <3> QED  BY <2>1, <2>3, <3>1, DiesOf
  <2> QED  BY <1>1, <2>2, <2>3 DEF RunPipeline
<1>2. ASSUME RunNothing PROVE IInv'
  <2>1. pc = "run" /\ cmd.stages = << <<>> >> /\ Die("null")
    BY <1>2 DEF RunNothing, IsNothing
  <2>2. ASSUME line # <<>> PROVE KilledAt("null", Typed(j))
    <3>1. HeadOf(cmd, Typed(j))
      BY <2>1, <2>2, RunRead
    <3>2. Len(cmd.stages) = 1
      BY <2>1
    <3> QED  BY <2>1, <3>1, <3>2 DEF HeadOf, KilledAt
  <2> QED  BY <2>1, <2>2, DiesOf
<1>3. ASSUME RunQuit PROVE IInv'
  <2>1. /\ pc = "run" /\ Len(cmd.stages) = 1 /\ cmd.stages[1] # <<>> /\ Head(cmd.stages[1]) = "quit"
        /\ Die("quit")
    BY <1>3 DEF RunQuit, Is
  <2>2. ASSUME line # <<>> PROVE KilledAt("quit", Typed(j))
    <3>1. HeadOf(cmd, Typed(j))
      BY <2>1, <2>2, RunRead
    <3> QED  BY <2>1, <3>1 DEF HeadOf, KilledAt
  <2> QED  BY <2>1, <2>2, DiesOf
<1>4. ASSUME RunChdir PROVE IInv'
  <2>1. pc = "run" /\ Done
    BY <1>4 DEF RunChdir, Is
  <2>2. DirsOK'
    <3>1. CASE UNCHANGED dirs
      BY <3>1, DirsKept DEF IInv
    <3>2. CASE cwd' \in Near \cup Deep /\ current_dir' = Shown(cwd')
      BY <3>2 DEF DirsOK, Shown
    <3> QED  BY <1>4, <3>1, <3>2 DEF RunChdir
  <2> QED  BY <2>1, <2>2, DoneInv
<1>5. ASSUME RunSimple \/ RunRedirected PROVE IInv'
  <2>1. pc = "run" /\ Done /\ UNCHANGED dirs
    BY <1>5 DEF RunSimple, RunRedirected, Is
  <2> QED  BY <2>1, DirsKept, DoneInv DEF IInv
<1> QED  BY <1>1, <1>2, <1>3, <1>4, <1>5

LEMMA AstrayInv ==
    ASSUME IInv, Astray
    PROVE  IInv'
<1>1. pc = "command" /\ Die("wild")
  BY DEF Astray
<1>2. KilledAt("wild", Typed(j))
  BY DEF KilledAt
<1> QED  BY <1>1, <1>2, DiesOf

LEMMA StutterInv ==
    ASSUME IInv, UNCHANGED vars
    PROVE  IInv'
<1>1. UNCHANGED <<pc, eof, line, input, commands, j, cmd, ran, killer, cwd, current_dir>>
  BY DEF vars
<1>2. SameLine
  BY <1>1, LineKept
<1>3. \A p : Ran(p)' <=> Ran(p)
  BY <1>1 DEF Ran
<1>4. DirsOK' /\ Resting'
  BY <1>1 DEF IInv, DirsOK, Resting, Shown
<1>5. DroppedByCount'
  BY <1>1, <1>2, <1>3 DEF IInv, DroppedByCount, SameLine
<1>6. KilledBy'
  <2>1. Typed(j)' = Typed(j)
    BY <1>1, <1>2 DEF SameLine
  <2>2. line # <<>> /\ pc = "dead" => KilledAt(killer, Typed(j))
    BY DEF IInv, KilledBy, KilledAt
  <2> QED  BY <1>1, <2>1, <2>2 DEF KilledBy, KilledAt
<1>7. ASSUME line' # <<>> PROVE Buffered' /\ Told' /\ Left' /\ Running'
  <2>1. Buffered /\ Told /\ Left /\ Running
    BY <1>1, <1>7 DEF IInv, Reading
  <2>2. \A k : Lost(k)' <=> Lost(k)
    BY <1>1, <1>2, <1>3 DEF Lost, SameLine
  <2>3. Buffered'
    BY <1>1, <1>2, <2>1 DEF Buffered, TypedLines, SameLine
  <2>4. Told'
    BY <1>1, <1>2, <2>1 DEF Told, SameLine
  <2>5. Left'
    BY <1>1, <1>2, <2>1, <2>2 DEF Left, LeftOver, SameLine
  <2>6. Running'
    BY <1>1, <1>2, <2>1, <2>2 DEF Running, SameLine
  <2> QED  BY <2>3, <2>4, <2>5, <2>6
<1>8. Reading'
  BY <1>7 DEF Reading
<1> QED  BY <1>4, <1>5, <1>6, <1>8 DEF IInv

LEMMA NextInv ==
    ASSUME IInv, [Next]_vars
    PROVE  IInv'
<1>1. CASE ReadLine
  BY <1>1, ReadLineInv
<1>2. CASE ReadNothing
  BY <1>2, ReadNothingInv
<1>3. CASE Split
  BY <1>3, SplitInv
<1>4. CASE SkipCommand
  BY <1>4, SkipInv
<1>5. CASE ParseCommand
  BY <1>5, ParseInv
<1>6. CASE WrongFormat
  BY <1>6, WrongFormatInv
<1>7. CASE Astray
  BY <1>7, AstrayInv
<1>8. CASE EndLine
  BY <1>8, EndLineInv
<1>9. CASE RunPipeline \/ RunNothing \/ RunQuit \/ RunChdir \/ RunSimple \/ RunRedirected
  BY <1>9, RunInv
<1>10. CASE Dead \/ UNCHANGED vars
  BY <1>10, StutterInv DEF Dead
<1> QED  BY <1>1, <1>2, <1>3, <1>4, <1>5, <1>6, <1>7, <1>8, <1>9, <1>10 DEF Next, Execute
--------------------------------------------------------------------------------
\* Whatever is typed, the buffer, what is left of commands[] and the history agree with
\* the line as the user meant it.
THEOREM Invariance == Spec => []IInv
<1>1. IInv /\ [Next]_vars => IInv'
  BY NextInv
<1> QED  BY InitInv, <1>1, PTL DEF Spec

\* The prompt names the directory the shell is in, unless its path was too long.
THEOREM PromptIsTrue == Spec => []PromptTrue
<1>1. IInv => PromptTrue
  BY DEF IInv, DirsOK, Shown, PromptTrue
<1> QED  BY <1>1, Invariance, PTL

\* A command is passed over exactly if one before it that was run has as many words as
\* its own number: the only commands the NULL of the loop takes away.
THEOREM OnlyCountDrops == Spec => []DroppedByCount
<1>1. IInv => DroppedByCount
  BY DEF IInv
<1> QED  BY <1>1, Invariance, PTL

\* Four things end the shell, whatever memory holds aside.
THEOREM EndsKnown == Spec => []KilledBy
<1>1. IInv => KilledBy
  BY DEF IInv
<1> QED  BY <1>1, Invariance, PTL

LEMMA AllAsTyped == IInv => AsTyped
<1> SUFFICES ASSUME IInv, line # <<>>, NEW e \in Range(ran) PROVE TextOf(e.cmd, Typed(e.place))
  BY DEF AsTyped, TextOf, Cleaned, First, Others
<1>1. Parsed(e.cmd, Typed(e.place))
  BY DEF IInv, Reading, Told
<1> QED  BY <1>1, ParsedText

\* Every command that was run is the text that was typed at its place, cut at its bars
\* and ended at its first redirection.
THEOREM RunAsTyped == Spec => []AsTyped
  BY AllAsTyped, Invariance, PTL

\* A line of one word is one command.
LEMMA OneWord ==
    ASSUME NEW w \in Words, line = <<w>>, line \in TypedLines
    PROVE  Len(Cmds) = 1 /\ Typed(0) = <<w>>
<1> DEFINE X == Words
           e == <<>>
           s == <<w>>
<1>1. e \in Seq(X) /\ e \in Seq(Seq(X)) /\ s \in Seq(X) /\ s = Append(e, w) /\ s # e /\ Append(e, s) = <<s>>
      /\ Append(e, e) = << e >> /\ Len(<<s>>) = 1 /\ <<s>>[1] = s /\ << <<>> >> = << e >>
  OBVIOUS
<1>2. CutAt(e, Semicolon) = << e >> /\ Without(e, {e}) = e
  BY CutNone, WithoutNone
<1>3. w # Semicolon /\ {Blank, Newline} \cap Words = {}
  BY NotTyped
<1> HIDE DEF e, s
<1>4. CutAt(Append(e, w), Semicolon) = Cut(CutAt(e, Semicolon), w, Semicolon)
  <2>1. w \in X
    OBVIOUS
  <2> HIDE DEF X
  <2> QED  BY ONLY <1>1, <2>1, CutAppend
<1>5. Cut(Append(e, e), w, Semicolon) = CutOff(e, e, w, Semicolon)
  BY <1>1, CutLast
<1>6. CutAt(s, Semicolon) = Append(e, s)
  BY <1>1, <1>2, <1>3, <1>4, <1>5 DEF CutOff
<1>7. Without(Append(e, s), {e}) = Sift(Without(e, {e}), s, {e})
  <2> DEFINE Y == Seq(X)
             D == {e}
  <2>1. e \in Seq(Y) /\ s \in Y
    BY <1>1
  <2> HIDE DEF Y, D
  <2>2. Without(Append(e, s), D) = Sift(Without(e, D), s, D)
    BY ONLY <2>1, WithoutAppend
  <2> QED  BY <2>2 DEF D
<1>8. Without(Append(e, s), {e}) = <<s>>
  BY <1>1, <1>2, <1>7 DEF Sift
<1>9. Cmds = <<s>>
  BY <1>6, <1>8 DEF Cmds, split_command, e, s
<1>10. Typed(0) = WordsOf(s)
  <2>1. LineRead
    BY LineIsRead
  <2>2. Typed(0) = IF 0 < Len(Cmds) THEN WordsOf(Cmds[0 + 1]) ELSE <<>>
    BY <2>1 DEF LineRead, Cmds
  <2>3. 0 < Len(Cmds) /\ Cmds[0 + 1] = s
    BY <1>1, <1>9
  <2> QED  BY <2>2, <2>3
<1>11. WordsOf(s) = s
  BY <1>1, <1>3, WithoutKeeps DEF WordsOf
<1> QED  BY <1>1, <1>9, <1>10, <1>11 DEF s

LEMMA Repeats == IInv => RepeatsFirstWord
<1> SUFFICES ASSUME IInv, eof, line # <<>>
             PROVE  /\ Len(line) = 1
                    /\ line # <<Bar>> =>
                           \A e \in Range(ran) : e.cmd = [NoCommand EXCEPT !.stages = <<line>>]
                    /\ pc = "command" /\ j = Len(commands) => Len(ran) = 1
  BY DEF RepeatsFirstWord
<1>1. Buffered /\ Told /\ Left /\ DroppedByCount /\ Resting
  BY DEF IInv, Reading
<1>2. PICK w \in Words : line = <<w>>
  BY <1>1 DEF Buffered
<1>3. Len(Cmds) = 1 /\ Typed(0) = <<w>>
  BY <1>1, <1>2, OneWord DEF Buffered
<1>4. Len(line) = 1
  BY <1>2
<1>5. ASSUME line # <<Bar>>, NEW e \in Range(ran) PROVE e.cmd = [NoCommand EXCEPT !.stages = <<line>>]
  <2>1. e.place \in 0 .. j - 1 /\ Parsed(e.cmd, Typed(e.place)) /\ j \in Nat
    BY <1>1, <1>5 DEF Told
  <2>2. j <= 1
    <3>1. CASE pc \in {"prompt", "split"}
      BY <1>1, <3>1 DEF Resting
    <3>2. CASE pc \notin {"prompt", "split"}
      BY <1>1, <1>3, <3>2 DEF Told
    <3> QED  BY <3>1, <3>2
  <2>3. e.place = 0
    BY <2>1, <2>2
  <2>4. HeadOf(e.cmd, <<w>>)
    BY <1>3, <2>1, <2>3, ParsedHead
  <2>5. w # Bar
    BY <1>2, <1>5
  <2> QED  BY <1>2, <2>4, <2>5 DEF HeadOf
<1>6. ASSUME pc = "command", j = Len(commands) PROVE Len(ran) = 1
  <2>1. j = 1
    BY <1>1, <1>3, <1>6 DEF Left
  <2>2. ran \in Seq(Entries) /\ Len(ran) <= 1 /\ Len(ran) \in Nat
    BY <1>1, <2>1 DEF Told
  <2>3. Ran(0)
    <3>1. 0 \in 0 .. j - 1 /\ 0 .. 0 - 1 = {} /\ Typed(0) # <<>>
      BY <1>3, <2>1
    <3> QED  BY <1>1, <3>1 DEF DroppedByCount
  <2>4. Len(ran) # 0
    BY <2>2, <2>3 DEF Ran, Range
  <2> DEFINE n == Len(ran)
  <2>5. n <= 1 /\ n \in Nat /\ n # 0
    BY <2>2, <2>4
  <2> HIDE DEF n
  <2>6. n = 1
    BY <2>5
  <2> QED  BY <2>6 DEF n
<1> QED  BY <1>4, <1>5, <1>6

\* From the end of the input on, every round runs the first word of the last line.
THEOREM FirstWordRepeated == Spec => []RepeatsFirstWord
  BY Repeats, Invariance, PTL
================================================================================

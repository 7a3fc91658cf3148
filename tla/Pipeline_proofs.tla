---------------------------- MODULE Pipeline_proofs ----------------------------
(***************************************************************************)
(* The safety of Pipeline, for any pipelines, any number of descriptors    *)
(* and any capacity of a pipe.                                             *)
(*                                                                         *)
(* The shell's own table is known at every moment, whether or not a pipe() *)
(* failed (ShellInv): the terminal, the read ends that leaked, and of the  *)
(* newest pipe the read end, in pipefds[0], and until the parent has       *)
(* closed it the write end, in pipefds[1].  A stage's table is known as    *)
(* long as no pipe() has failed (StageInv): it is forked with a copy, and  *)
(* from then on only itself changes it.                                    *)
(***************************************************************************)
EXTENDS Pipeline, FiniteSetTheorems, WellFoundedInduction, TLAPS

Behind(p) == <<p[1], p[2] + 1>>
Upper == 3 .. MaxFd - 1   \* the descriptors that are not the terminal's
Here  == <<job, cmd>>     \* the pipe behind the stage execute_pipeline is at

Busy    == pc \in {"pipe", "fork", "parent", "last"}
Forking == pc \in {"fork", "parent"}
BothEnds == Forking /\ Here \in made
TwoFree == \E x, y \in Fds : x # y /\ table[Shell][x] = Closed /\ table[Shell][y] = Closed

\* execute_pipeline goes from stage to stage.
CmdInv ==
    /\ pc \in {"pipe", "fork", "parent"} => cmd \in 1 .. length
    /\ pc \in {"last", "wait"} => cmd = length + 1
    /\ pc \in {"pipe", "fork", "parent", "last", "wait"} => length \in Lengths /\ job # 0

\* The pipes of a pipeline are made one behind the other, without gaps; all of them if no
\* pipe() fails, and the first in any case.
MadeInv ==
    /\ \A p \in made :
         /\ p[1] <= job
         /\ p[2] > 1 => <<p[1], p[2] - 1>> \in made
         /\ p[1] = job => /\ p[2] < length
                          /\ p[2] < cmd \/ (p[2] = cmd /\ pc \in {"fork", "parent", "exited"})
    /\ Busy /\ (cmd > 1 \/ Forking) => <<job, 1>> \in made
    /\ ~failed => \A i \in Stages : Piped(i) /\ (i < cmd \/ (i = cmd /\ Forking)) => <<job, i>> \in made

\* What each descriptor of the shell is.
KindsInv ==
    /\ \A fd \in 0 .. 2 : table[Shell][fd] = Tty
    /\ \A fd \in Upper : \/ table[Shell][fd] = Closed
                         \/ \E p \in made : table[Shell][fd] = ReadEnd(p)
                         \/ table[Shell][fd] = WriteEnd(Here) /\ BothEnds /\ fd = frame[Shell].wr

\* The read end of every pipe but the newest has leaked; that of the newest is in pipefds
\* while execute_pipeline runs, and nowhere afterwards.
LeakInv ==
    \A p \in made :
        /\ Behind(p) \in made => \E fd \in Upper : table[Shell][fd] = ReadEnd(p)
        /\ Behind(p) \notin made =>
             /\ \A fd \in Fds : table[Shell][fd] = ReadEnd(p) => Busy /\ fd = frame[Shell].rd
             /\ Busy /\ p[1] = job => table[Shell][frame[Shell].rd] = ReadEnd(p)

\* pipefds and prev_pipe.
FrameInv ==
    /\ Busy /\ <<job, 1>> \in made =>
         /\ frame[Shell].rd \in Upper /\ frame[Shell].wr \in Upper
         /\ frame[Shell].rd # frame[Shell].wr
         /\ table[Shell][frame[Shell].wr] = IF BothEnds THEN WriteEnd(Here) ELSE Closed
    /\ Busy /\ cmd = 1 => frame[Shell].prev = NoFd /\ (pc = "pipe" => frame[Shell].rd = Unset)
    /\ Busy /\ cmd > 1 => IF BothEnds THEN /\ frame[Shell].prev \in Upper
                                           /\ table[Shell][frame[Shell].prev] = ReadEnd(<<job, cmd - 1>>)
                          ELSE frame[Shell].prev = frame[Shell].rd

\* A pipeline starts with two free descriptors; after a pipe() has failed there are fewer,
\* and none is made any more.
RoomInv ==
    /\ pc \in {"wait", "prompt"} \/ (pc = "pipe" /\ cmd = 1) => TwoFree
    /\ failed /\ Busy => ~TwoFree /\ ~BothEnds

ShellInv == pc # "exited" => KindsInv /\ LeakInv /\ FrameInv /\ RoomInv
GoneInv ==
    /\ pc = "exited" => table[Shell] = NoTable
    /\ \A i \in Stages :
         /\ stage[i] \in {"none", "zombie"} => table[i] = NoTable
         /\ stage[i] # "none" => i <= length /\ (i < cmd \/ (i = cmd /\ pc = "parent"))
         /\ pc = "prompt" => stage[i] = "none"

\* The ends a stage may hold: of the write ends only its own, of this pipeline's read ends
\* those in front of it, and its own until it has closed pipefds[0].
EndsOf(i) ==
    \A fd \in Fds :
        /\ \A p \in Pipes : table[i][fd] = WriteEnd(p) => p = <<job, i>>
        /\ \A k \in Stages : table[i][fd] = ReadEnd(<<job, k>>) =>
             k < i \/ (k = i /\ Piped(i) /\ stage[i] \in {"stdin", "stdout"} /\ fd = frame[i].rd)
OwnPipe(i) ==
    Piped(i) => /\ frame[i].rd \in Upper /\ frame[i].wr \in Upper
                /\ table[i][frame[i].wr] = WriteEnd(<<job, i>>)
Front(i) == IF i = 1 THEN Tty ELSE ReadEnd(<<job, i - 1>>)
Rear(i)  == IF Piped(i) THEN WriteEnd(<<job, i>>) ELSE Tty

StageInv ==
    ~failed => \A i \in Stages :
        /\ stage[i] \notin {"none", "zombie"} => EndsOf(i)
        /\ stage[i] = "stdin" => /\ OwnPipe(i)
                                 /\ Stdin(i) = Tty /\ Stdout(i) = Tty
                                 /\ IF i = 1 THEN frame[i].prev = NoFd
                                    ELSE frame[i].prev \in Upper /\ table[i][frame[i].prev] = Front(i)
        /\ stage[i] = "stdout" => OwnPipe(i) /\ Stdin(i) = Front(i) /\ Stdout(i) = Tty
        /\ stage[i] \in {"run", "end"} => Stdin(i) = Front(i) /\ Stdout(i) = Rear(i)

IInv == TypeOK /\ CmdInv /\ MadeInv /\ ShellInv /\ GoneInv /\ StageInv
--------------------------------------------------------------------------------
(***************************************************************************)
(* What the definitions give.                                              *)
(***************************************************************************)
LEMMA LeastElement ==
    ASSUME NEW S \in SUBSET Nat, S # {}
    PROVE  \E x \in S : \A y \in S : x <= y
<1>1. \E x \in S : \A y \in S : <<y, x>> \notin OpToRel(<, Nat)
  BY NatLessThanWellFounded, WFMin
<1>2. \E x \in S : \A y \in S : ~(y < x)
  BY <1>1 DEF OpToRel
<1> QED  BY <1>2

LEMMA MinIsIn ==
    ASSUME NEW S \in SUBSET Nat, S # {}
    PROVE  Min(S) \in S
BY LeastElement DEF Min

LEMMA GreatestElement ==
    ASSUME NEW S \in SUBSET Nat, S # {}, IsFiniteSet(S)
    PROVE  \E x \in S : \A y \in S : y <= x
<1> DEFINE above(x) == {y \in S : y > x}
           rank(x) == Cardinality(above(x))
<1>1. \A x \in S : IsFiniteSet(above(x)) /\ rank(x) \in Nat
  BY FS_Subset, FS_CardinalityType
<1>2. PICK x \in S : \A y \in S : rank(x) <= rank(y)
  <2> DEFINE ranks == {rank(x) : x \in S}
  <2>1. ranks \in SUBSET Nat /\ ranks # {}
    BY <1>1
  <2> HIDE DEF ranks
  <2>2. \E r \in ranks : \A q \in ranks : r <= q
    BY <2>1, LeastElement
  <2> USE DEF ranks
  <2> HIDE DEF rank
  <2> QED  BY <2>2
<1>3. ASSUME NEW y \in S, y > x PROVE FALSE
  <2>0. x \in Nat /\ y \in Nat /\ S \subseteq Nat
    OBVIOUS
  <2>1. above(y) \subseteq above(x) /\ y \in above(x) /\ y \notin above(y)
    <3>1. y \in above(x)
      BY <1>3
    <3>2. y \notin above(y)
      BY <2>0
    <3>3. ASSUME NEW z \in S, z > y PROVE z > x
      BY <1>3, <2>0, <3>3
    <3> QED  BY <3>1, <3>2, <3>3
  <2>2. rank(y) <= rank(x) /\ (rank(x) = rank(y) => above(x) = above(y))
    BY <1>1, <2>1, FS_Subset
  <2> HIDE DEF rank, above
  <2> QED  BY <1>1, <1>2, <2>1, <2>2
<1> QED  BY <1>3

LEMMA MaxStagesType == /\ MaxStages \in Lengths /\ MaxStages \in Nat /\ MaxStages > 1
                       /\ \A l \in Lengths : l \in 2 .. MaxStages
<1>1. \E n \in Lengths : \A l \in Lengths : l <= n
  BY GreatestElement, SizeAssumption
<1>2. MaxStages \in Lengths /\ \A l \in Lengths : l <= MaxStages
  BY <1>1 DEF MaxStages
<1> QED  BY <1>2, SizeAssumption

LEMMA Constant ==
    /\ Jobs \in Nat /\ Capacity \in Nat /\ Capacity > 0 /\ MaxFd \in Nat /\ MaxFd > 4
    /\ Upper \subseteq Fds /\ Fds \subseteq Nat /\ Upper \subseteq Nat
    /\ 0 \in Fds /\ 1 \in Fds /\ 2 \in Fds /\ \A fd \in Fds : fd \in 0 .. 2 \/ fd \in Upper
    /\ NoFd \notin Fds /\ Unset \notin Fds /\ 0 \notin Upper /\ 1 \notin Upper /\ 2 \notin Upper
    /\ Shell \in Procs /\ Shell \notin Stages /\ Stages \subseteq Procs
    /\ \A q \in Procs : q = Shell \/ q \in Stages
    /\ Stages \subseteq Nat /\ 1 \in Stages
BY SizeAssumption, MaxStagesType DEF Upper, Fds, NoFd, Unset, Shell, Procs, Stages

\* The files are told apart by their kind and their pipe.
LEMMA Kinds ==
    /\ \A p, q : (ReadEnd(p) = ReadEnd(q) => p = q) /\ (WriteEnd(p) = WriteEnd(q) => p = q)
    /\ \A p, q : ReadEnd(p) # WriteEnd(q)
    /\ \A p : /\ ReadEnd(p) # Closed /\ ReadEnd(p) # Tty
              /\ WriteEnd(p) # Closed /\ WriteEnd(p) # Tty
    /\ Closed # Tty
BY DEF ReadEnd, WriteEnd, Closed, Tty

LEMMA PipePairs ==
    /\ \A p \in Pipes : p = <<p[1], p[2]>> /\ p[1] \in 1 .. Jobs /\ p[2] \in Stages /\ p[2] < MaxStages
    /\ \A j \in 1 .. Jobs, i \in Stages : i < MaxStages => <<j, i>> \in Pipes
BY MaxStagesType DEF Pipes, Stages

LEMMA FreeFds ==
    ASSUME TypeOK
    PROVE  LET free == {fd \in Fds : table[Shell][fd] = Closed}
           IN  /\ Cardinality(free) \in Nat
               /\ Cardinality(free) >= 2 <=> TwoFree
               /\ TwoFree => /\ Min(free) \in free
                             /\ Min(free \ {Min(free)}) \in free \ {Min(free)}
<1> DEFINE free == {fd \in Fds : table[Shell][fd] = Closed}
<1>1. IsFiniteSet(free) /\ Cardinality(free) \in Nat /\ free \subseteq Nat
  <2>1. IsFiniteSet(Fds)
    BY Constant, FS_Interval DEF Fds
  <2> QED  BY <2>1, Constant, FS_Subset, FS_CardinalityType
<1>2. ASSUME Cardinality(free) >= 2 PROVE TwoFree
  <2>1. PICK x \in free : TRUE
    BY <1>1, <1>2, FS_EmptySet
  <2>2. Cardinality(free) # 1
    BY <1>2
  <2>3. free # {x}
    BY <1>1, <2>2, FS_Singleton
  <2>4. PICK y \in free : y # x
    BY <2>1, <2>3
  <2> QED  BY <2>1, <2>4 DEF TwoFree
<1>3. ASSUME TwoFree PROVE Cardinality(free) >= 2
  <2>1. PICK x, y \in free : x # y
    BY <1>3 DEF TwoFree
  <2>2. Cardinality({x} \cup {y}) = 2 /\ IsFiniteSet({x} \cup {y})
    <3>1. IsFiniteSet({x}) /\ Cardinality({x}) = 1 /\ y \notin {x}
      BY <2>1, FS_Singleton
    <3> QED  BY <3>1, FS_AddElement
  <2>3. {x} \cup {y} \subseteq free
    OBVIOUS
  <2> QED  BY <1>1, <2>2, <2>3, FS_Subset
<1>4. ASSUME TwoFree PROVE Min(free) \in free /\ Min(free \ {Min(free)}) \in free \ {Min(free)}
  <2>1. free # {} /\ \A x : free \ {x} # {}
    BY <1>4 DEF TwoFree
  <2>2. Min(free) \in free
    BY <1>1, <2>1, MinIsIn
  <2>3. free \ {Min(free)} \in SUBSET Nat /\ free \ {Min(free)} # {}
    BY <1>1, <2>1
  <2> QED  BY <2>2, <2>3, MinIsIn
<1> QED  BY <1>1, <1>2, <1>3, <1>4
--------------------------------------------------------------------------------
(***************************************************************************)
(* The steps of the stages.                                                *)
(***************************************************************************)
LEMMA ShellUndisturbed ==
    ASSUME IInv, UNCHANGED <<shellVars, made, failed>>,
           table'[Shell] = table[Shell], frame'[Shell] = frame[Shell]
    PROVE  CmdInv' /\ MadeInv' /\ ShellInv'
<1> USE DEF shellVars, IInv
<1>1. CmdInv'   BY DEF CmdInv
<1>2. MadeInv'  BY DEF MadeInv, Busy, Forking, Piped
<1>3. KindsInv' = KindsInv /\ LeakInv' = LeakInv
  BY DEF KindsInv, LeakInv, BothEnds, Forking, Here, Busy
<1>4. FrameInv' = FrameInv
  BY DEF FrameInv, BothEnds, Forking, Here, Busy
<1>5. RoomInv' = RoomInv
  BY DEF RoomInv, TwoFree, Busy, BothEnds, Forking, Here
<1> QED  BY <1>1, <1>2, <1>3, <1>4, <1>5 DEF ShellInv

\* A stage whose own table, frame and place stay the same is as it was.
LEMMA StageUndisturbed ==
    ASSUME NEW i \in Stages, UNCHANGED <<job, length, failed>>,
           table'[i] = table[i], frame'[i] = frame[i],
           stage'[i] = stage[i] \/ (stage[i] = "run" /\ stage'[i] = "end")
    PROVE  /\ EndsOf(i) => EndsOf(i)'
           /\ OwnPipe(i)' = OwnPipe(i) /\ Stdin(i)' = Stdin(i) /\ Stdout(i)' = Stdout(i)
           /\ Front(i)' = Front(i) /\ Rear(i)' = Rear(i)
<1>1. EndsOf(i) => EndsOf(i)'
  BY DEF EndsOf, Piped
<1>2. OwnPipe(i)' = OwnPipe(i) /\ Rear(i)' = Rear(i) /\ Front(i)' = Front(i)
  BY DEF OwnPipe, Piped, Rear, Front
<1> QED  BY <1>1, <1>2 DEF Stdin, Stdout

\* What one stage does to the invariant, if its own part of it is seen to.
LEMMA OneStageMoves ==
    ASSUME IInv, NEW i \in Stages, TypeOK', UNCHANGED <<shellVars, made, failed>>,
           \A q \in Procs : q # i => table'[q] = table[q] /\ frame'[q] = frame[q],
           \A k \in Stages : k # i => stage'[k] = stage[k],
           stage[i] # "none", stage'[i] = "zombie" => table'[i] = NoTable, stage'[i] # "none",
           ~failed =>
             /\ stage'[i] # "zombie" => EndsOf(i)'
             /\ stage'[i] # "stdin"
             /\ stage'[i] = "stdout" => OwnPipe(i)' /\ Stdin(i)' = Front(i) /\ Stdout(i)' = Tty
             /\ stage'[i] \in {"run", "end"} => Stdin(i)' = Front(i) /\ Stdout(i)' = Rear(i)
    PROVE  IInv'
<1>1. table'[Shell] = table[Shell] /\ frame'[Shell] = frame[Shell]
  BY Constant
<1>2. CmdInv' /\ MadeInv' /\ ShellInv'
  BY <1>1, ShellUndisturbed
<1>3. GoneInv'
  BY <1>1, Constant DEF IInv, GoneInv, shellVars, NoTable
<1>4. StageInv'
  <2> SUFFICES ASSUME ~failed, NEW k \in Stages
      PROVE  /\ stage'[k] \notin {"none", "zombie"} => EndsOf(k)'
             /\ stage'[k] = "stdin" => /\ OwnPipe(k)'
                                       /\ Stdin(k)' = Tty /\ Stdout(k)' = Tty
                                       /\ IF k = 1 THEN frame'[k].prev = NoFd
                                          ELSE frame'[k].prev \in Upper /\ table'[k][frame'[k].prev] = Front(k)
             /\ stage'[k] = "stdout" => OwnPipe(k)' /\ Stdin(k)' = Front(k) /\ Stdout(k)' = Tty
             /\ stage'[k] \in {"run", "end"} => Stdin(k)' = Front(k) /\ Stdout(k)' = Rear(k)
    <3>1. \A k \in Stages : Front(k)' = Front(k) /\ Rear(k)' = Rear(k)
      BY DEF Front, Rear, Piped, shellVars
    <3>2. failed' = failed
      OBVIOUS
    <3> QED  BY <3>1, <3>2 DEF StageInv
  <2>1. CASE k = i
    BY <2>1
  <2>2. CASE k # i
    <3>1. table'[k] = table[k] /\ frame'[k] = frame[k] /\ stage'[k] = stage[k]
      BY <2>2, Constant
    <3>2. /\ EndsOf(k) => EndsOf(k)'
          /\ OwnPipe(k)' = OwnPipe(k) /\ Stdin(k)' = Stdin(k) /\ Stdout(k)' = Stdout(k)
      BY <3>1, StageUndisturbed DEF shellVars
    <3> QED  BY <3>1, <3>2 DEF IInv, StageInv
  <2> QED  BY <2>1, <2>2
<1> QED  BY <1>2, <1>3, <1>4 DEF IInv

LEMMA TypeOfTables ==
    ASSUME NEW t \in [Fds -> Files], NEW old, NEW new \in Fds
    PROVE  Close(t, old) \in [Fds -> Files] /\ Dup2(t, old, new) \in [Fds -> Files]
BY DEF Close, Dup2, Files

LEMMA ConnectStdinStep ==
    ASSUME IInv, NEW i \in Stages, ConnectStdin(i)
    PROVE  IInv'
<1> DEFINE t == table[i]
           prev == frame[i].prev
<1>1. /\ stage[i] = "stdin" /\ stage'[i] = "stdout" /\ \A k \in Stages : k # i => stage'[k] = stage[k]
      /\ \A q \in Procs : q # i => table'[q] = table[q]
      /\ table'[i] = Close(Dup2(t, prev, 0), prev)
      /\ UNCHANGED <<shellVars, made, level, frame, prog, inHand, failed>>
      /\ table' = [table EXCEPT ![i] = Close(Dup2(t, prev, 0), prev)]
      /\ stage' = [stage EXCEPT ![i] = "stdout"]
  BY Constant DEF ConnectStdin, IInv, TypeOK
<1>2. t \in [Fds -> Files] /\ 0 \in Fds
  BY Constant DEF IInv, TypeOK
<1>3. TypeOK'
  <2>1. table'[i] \in [Fds -> Files]
    BY <1>1, <1>2, TypeOfTables
  <2> QED  BY <1>1, <2>1, Constant DEF IInv, TypeOK, shellVars
<1>4. ASSUME ~failed
      PROVE  EndsOf(i)' /\ OwnPipe(i)' /\ Stdin(i)' = Front(i) /\ Stdout(i)' = Tty
  <2>1. /\ EndsOf(i) /\ OwnPipe(i) /\ t[0] = Tty /\ t[1] = Tty
        /\ IF i = 1 THEN prev = NoFd ELSE prev \in Upper /\ t[prev] = Front(i)
    BY <1>1, <1>4 DEF IInv, StageInv, Stdin, Stdout
  <2>2. \A fd \in Fds : table'[i][fd] = IF i = 1 THEN t[fd]
                                       ELSE IF fd = prev THEN Closed
                                       ELSE IF fd = 0 THEN Front(i) ELSE t[fd]
    <3>1. CASE i = 1
      <4>1. Dup2(t, prev, 0) = t /\ prev \notin Fds
        BY <2>1, <3>1, Constant DEF Dup2
      <4>2. \A fd \in Fds : Close(t, prev)[fd] = t[fd]
        BY <4>1 DEF Close
      <4> QED  BY <1>1, <3>1, <4>1, <4>2
    <3>2. CASE i # 1
      <4>1. Dup2(t, prev, 0) = [t EXCEPT ![0] = Front(i)]
        BY <2>1, <3>2, Constant, Kinds DEF Dup2, Front
      <4>2. \A fd \in Fds : Close(Dup2(t, prev, 0), prev)[fd] =
                              IF fd = prev THEN Closed ELSE IF fd = 0 THEN Front(i) ELSE t[fd]
        BY <1>2, <4>1 DEF Close
      <4> QED  BY <1>1, <3>2, <4>2
    <3> QED  BY <3>1, <3>2
  <2>3. Stdin(i)' = Front(i) /\ Stdout(i)' = Tty
    BY <2>1, <2>2, Constant DEF Stdin, Stdout, Front
  <2>4. OwnPipe(i)'
    <3>1. ASSUME NEW fd \in Upper, t[fd] = WriteEnd(<<job, i>>) PROVE table'[i][fd] = t[fd]
      <4>1. fd \in Fds /\ fd # 0
        BY Constant
      <4>2. i # 1 => fd # prev
        BY <2>1, <3>1, Kinds DEF Front
      <4> QED  BY <2>2, <4>1, <4>2
    <3> QED  BY <1>1, <2>1, <3>1 DEF OwnPipe, Piped, shellVars
  <2>5. EndsOf(i)'
    <3> SUFFICES ASSUME NEW fd \in Fds
        PROVE  /\ \A p \in Pipes : table'[i][fd] = WriteEnd(p) => p = <<job, i>>
               /\ \A k \in Stages : table'[i][fd] = ReadEnd(<<job, k>>) =>
                    k < i \/ (k = i /\ Piped(i) /\ fd = frame[i].rd)
      BY <1>1 DEF EndsOf, Piped, shellVars
    <3>1. table'[i][fd] \in {t[fd], Closed} \/ (table'[i][fd] = ReadEnd(<<job, i - 1>>) /\ i # 1)
      BY <2>2 DEF Front
    <3>2. CASE table'[i][fd] = t[fd]
      BY <2>1, <3>2 DEF EndsOf
    <3>3. CASE table'[i][fd] = Closed
      BY <3>3, Kinds
    <3>4. CASE table'[i][fd] = ReadEnd(<<job, i - 1>>) /\ i # 1
      <4>1. \A k \in Stages : ReadEnd(<<job, k>>) = ReadEnd(<<job, i - 1>>) => k = i - 1
        BY Kinds
      <4>2. \A k \in Stages : k = i - 1 => k < i
        BY Constant
      <4> QED  BY <3>4, <4>1, <4>2, Kinds
    <3> QED  BY <3>1, <3>2, <3>3, <3>4
  <2> QED  BY <2>3, <2>4, <2>5
<1> QED  BY <1>1, <1>3, <1>4, OneStageMoves

LEMMA ConnectStdoutStep ==
    ASSUME IInv, NEW i \in Stages, ConnectStdout(i)
    PROVE  IInv'
<1> DEFINE t == table[i]
           rd == frame[i].rd
           wr == frame[i].wr
<1>1. /\ stage[i] = "stdout" /\ stage'[i] \in {"run", "end"}
      /\ \A k \in Stages : k # i => stage'[k] = stage[k]
      /\ \A q \in Procs : q # i => table'[q] = table[q] /\ frame'[q] = frame[q]
      /\ table'[i] = IF Piped(i) THEN Close(Dup2(t, wr, 1), rd) ELSE t
      /\ UNCHANGED <<shellVars, made, level, prog, inHand, failed>>
      /\ table' = [table EXCEPT ![i] = table'[i]]
      /\ frame' = [frame EXCEPT ![i] = NoFrame]
      /\ stage' \in [Stages -> {"none", "stdin", "stdout", "run", "end", "zombie"}]
  BY Constant DEF ConnectStdout, IInv, TypeOK
<1>2. t \in [Fds -> Files] /\ 1 \in Fds
  BY Constant DEF IInv, TypeOK
<1>3. TypeOK'
  <2>1. table'[i] \in [Fds -> Files]
    <3>1. Dup2(t, wr, 1) \in [Fds -> Files]
      BY <1>2, TypeOfTables
    <3>2. Close(Dup2(t, wr, 1), rd) \in [Fds -> Files]
      BY <1>2, <3>1, TypeOfTables
    <3> QED  BY <1>1, <1>2, <3>2
  <2>2. NoFrame \in [prev : Fds \cup {NoFd}, rd : Fds \cup {NoFd, Unset}, wr : Fds \cup {NoFd, Unset}]
    BY DEF NoFrame
  <2>3. frame' \in [Procs -> [prev : Fds \cup {NoFd}, rd : Fds \cup {NoFd, Unset}, wr : Fds \cup {NoFd, Unset}]]
    BY <1>1, <2>2, Constant DEF IInv, TypeOK
  <2> QED  BY <1>1, <2>1, <2>3, Constant DEF IInv, TypeOK, shellVars
<1>4. ASSUME ~failed
      PROVE  EndsOf(i)' /\ Stdin(i)' = Front(i) /\ Stdout(i)' = Rear(i)
  <2>1. EndsOf(i) /\ OwnPipe(i) /\ t[0] = Front(i) /\ t[1] = Tty
    BY <1>1, <1>4 DEF IInv, StageInv, Stdin, Stdout
  <2>2. CASE ~Piped(i)
    <3>1. \A k \in Stages : \A fd \in Fds : t[fd] = ReadEnd(<<job, k>>) => k < i
      BY <2>1, <2>2 DEF EndsOf
    <3> QED  BY <1>1, <2>1, <2>2, <3>1 DEF EndsOf, Piped, Rear, Stdin, Stdout, shellVars
  <2>3. CASE Piped(i)
    <3>1. rd \in Upper /\ wr \in Upper /\ t[wr] = WriteEnd(<<job, i>>)
      BY <2>1, <2>3 DEF OwnPipe
    <3>2. \A fd \in Fds : table'[i][fd] = IF fd = rd THEN Closed
                                          ELSE IF fd = 1 THEN WriteEnd(<<job, i>>) ELSE t[fd]
      <4>1. Dup2(t, wr, 1) = [t EXCEPT ![1] = WriteEnd(<<job, i>>)]
        BY <3>1, Constant, Kinds DEF Dup2
      <4> QED  BY <1>1, <1>2, <2>3, <4>1 DEF Close
    <3>3. Stdin(i)' = Front(i) /\ Stdout(i)' = Rear(i)
      BY <2>1, <2>3, <3>1, <3>2, Constant DEF Stdin, Stdout, Rear
    <3>4. ASSUME NEW fd \in Fds
          PROVE  /\ \A p \in Pipes : table'[i][fd] = WriteEnd(p) => p = <<job, i>>
                 /\ \A k \in Stages : table'[i][fd] = ReadEnd(<<job, k>>) => k < i
      <4>1. CASE fd = rd
        BY <3>2, <4>1, Kinds
      <4>2. CASE fd # rd /\ fd = 1
        BY <3>2, <4>2, Kinds
      <4>3. CASE fd # rd /\ fd # 1
        BY <2>1, <3>2, <4>3 DEF EndsOf
      <4> QED  BY <4>1, <4>2, <4>3
    <3> QED  BY <1>1, <3>3, <3>4 DEF EndsOf, shellVars
  <2> QED  BY <2>2, <2>3
<1> QED  BY <1>1, <1>3, <1>4, OneStageMoves

\* While a program runs, and when it ends, the tables stay as they are.
LEMMA ProgramStep ==
    ASSUME IInv, NEW i \in Stages, Read(i) \/ EndOfFile(i) \/ Write(i) \/ BrokenPipe(i)
    PROVE  IInv'
<1>1. /\ stage[i] = "run" /\ stage'[i] \in {"run", "end"}
      /\ \A k \in Stages : k # i => stage'[k] = stage[k]
      /\ UNCHANGED <<shellVars, made, table, frame, prog, failed>>
      /\ stage' \in [Stages -> {"none", "stdin", "stdout", "run", "end", "zombie"}]
      /\ inHand' \in [Stages -> BOOLEAN]
  BY DEF Read, EndOfFile, Write, BrokenPipe, Reading, Writing, Goto, IInv, TypeOK, kernel
<1>2. level' \in [Pipes -> 0 .. Capacity]
  <2>1. level \in [Pipes -> 0 .. Capacity]
    BY DEF IInv, TypeOK
  <2>2. CASE Read(i)
    <3>1. CASE UNCHANGED level
      BY <2>1, <3>1
    <3>2. CASE level' # level
      <4>1. PICK p \in Pipes : level[p] > 0 /\ level' = [level EXCEPT ![p] = @ - 1]
        BY <2>2, <3>2 DEF Read
      <4>2. level[p] - 1 \in 0 .. Capacity
        BY <2>1, <4>1, Constant
      <4> QED  BY <2>1, <4>1, <4>2
    <3> QED  BY <3>1, <3>2
  <2>3. CASE Write(i)
    <3>1. CASE UNCHANGED level
      BY <2>1, <3>1
    <3>2. CASE level' # level
      <4>1. PICK p \in Pipes : level[p] < Capacity /\ level' = [level EXCEPT ![p] = @ + 1]
        BY <2>3, <3>2 DEF Write
      <4>2. level[p] + 1 \in 0 .. Capacity
        BY <2>1, <4>1, Constant
      <4> QED  BY <2>1, <4>1, <4>2
    <3> QED  BY <3>1, <3>2
  <2>4. CASE EndOfFile(i) \/ BrokenPipe(i)
    BY <2>1, <2>4 DEF EndOfFile, BrokenPipe, kernel
  <2> QED  BY <2>2, <2>3, <2>4
<1>3. TypeOK'
  BY <1>1, <1>2 DEF IInv, TypeOK, shellVars
<1>4. ASSUME ~failed
      PROVE  EndsOf(i)' /\ Stdin(i)' = Front(i) /\ Stdout(i)' = Rear(i)
  <2>1. EndsOf(i) /\ Stdin(i) = Front(i) /\ Stdout(i) = Rear(i)
    BY <1>1, <1>4 DEF IInv, StageInv
  <2>2. stage'[i] = stage[i] \/ (stage[i] = "run" /\ stage'[i] = "end")
    BY <1>1
  <2> QED  BY <1>1, <2>1, <2>2, StageUndisturbed DEF shellVars
<1> QED  BY <1>1, <1>3, <1>4, OneStageMoves

LEMMA FinishStep ==
    ASSUME IInv, NEW i \in Stages, Finish(i)
    PROVE  IInv'
<1>1. /\ stage[i] = "end" /\ stage'[i] = "zombie" /\ \A k \in Stages : k # i => stage'[k] = stage[k]
      /\ \A q \in Procs : q # i => table'[q] = table[q]
      /\ table'[i] = NoTable /\ table' \in [Procs -> [Fds -> Files]]
      /\ UNCHANGED <<shellVars, made, level, frame, prog, failed>>
      /\ stage' \in [Stages -> {"none", "stdin", "stdout", "run", "end", "zombie"}]
      /\ inHand' \in [Stages -> BOOLEAN]
  BY Constant DEF Finish, Goto, IInv, TypeOK, NoTable, Files
<1>2. TypeOK'
  BY <1>1 DEF IInv, TypeOK, shellVars
<1> QED  BY <1>1, <1>2, OneStageMoves

LEMMA StageStep == ASSUME IInv, NEW i \in Stages, Stage(i) PROVE IInv'
BY ConnectStdinStep, ConnectStdoutStep, ProgramStep, FinishStep DEF Stage
--------------------------------------------------------------------------------
(***************************************************************************)
(* The steps of the shell.                                                 *)
(***************************************************************************)
\* What the shell does to its own table leaves the stages as they are.
LEMMA StagesUndisturbed ==
    ASSUME IInv, NEW S \in SUBSET Stages, UNCHANGED <<job, length>>, (failed' = failed) \/ failed',
           \A i \in S : table'[i] = table[i] /\ frame'[i] = frame[i] /\ stage'[i] = stage[i]
    PROVE  ~failed' => \A i \in S :
             /\ stage'[i] \notin {"none", "zombie"} => EndsOf(i)'
             /\ stage'[i] = "stdin" => /\ OwnPipe(i)'
                                       /\ Stdin(i)' = Tty /\ Stdout(i)' = Tty
                                       /\ IF i = 1 THEN frame'[i].prev = NoFd
                                          ELSE frame'[i].prev \in Upper /\ table'[i][frame'[i].prev] = Front(i)'
             /\ stage'[i] = "stdout" => OwnPipe(i)' /\ Stdin(i)' = Front(i)' /\ Stdout(i)' = Tty
             /\ stage'[i] \in {"run", "end"} => Stdin(i)' = Front(i)' /\ Stdout(i)' = Rear(i)'
<1> SUFFICES ASSUME ~failed', NEW i \in S
    PROVE  /\ stage'[i] \notin {"none", "zombie"} => EndsOf(i)'
           /\ stage'[i] = "stdin" => /\ OwnPipe(i)'
                                     /\ Stdin(i)' = Tty /\ Stdout(i)' = Tty
                                     /\ IF i = 1 THEN frame'[i].prev = NoFd
                                        ELSE frame'[i].prev \in Upper /\ table'[i][frame'[i].prev] = Front(i)'
           /\ stage'[i] = "stdout" => OwnPipe(i)' /\ Stdin(i)' = Front(i)' /\ Stdout(i)' = Tty
           /\ stage'[i] \in {"run", "end"} => Stdin(i)' = Front(i)' /\ Stdout(i)' = Rear(i)'
  OBVIOUS
<1>1. UNCHANGED <<job, length, failed>>
  OBVIOUS
<1>2. /\ EndsOf(i) => EndsOf(i)'
      /\ OwnPipe(i)' = OwnPipe(i) /\ Stdin(i)' = Stdin(i) /\ Stdout(i)' = Stdout(i)
      /\ Front(i)' = Front(i) /\ Rear(i)' = Rear(i)
  BY <1>1, StageUndisturbed
<1> QED  BY <1>1, <1>2 DEF IInv, StageInv

LEMMA MadePipes ==
    ASSUME IInv, NEW p \in made
    PROVE  p \in Pipes /\ p = <<p[1], p[2]>> /\ p[1] \in Nat /\ p[1] <= job /\ p[2] \in Stages
<1>1. p \in Pipes
  BY DEF IInv, TypeOK
<1>2. p[1] <= job
  BY DEF IInv, MadeInv
<1> QED  BY <1>1, <1>2, PipePairs

LEMMA EnterStep == ASSUME IInv, Enter PROVE IInv'
<1>1. PICK n \in Lengths :
         /\ pc = "prompt" /\ job < Jobs
         /\ pc' = "pipe" /\ job' = job + 1 /\ length' = n /\ cmd' = 1
         /\ frame' = [frame EXCEPT ![Shell] = NoFrame]
         /\ failed' = FALSE
         /\ UNCHANGED <<kernel, stageVars>>
  BY DEF Enter
<1> USE DEF IInv, kernel, stageVars
<1>2. job \in Nat /\ n \in 2 .. MaxStages /\ frame'[Shell] = NoFrame /\ \A i \in Stages : stage[i] = "none"
  BY <1>1, Constant, MaxStagesType DEF TypeOK, GoneInv
<1>3. TypeOK'
  <2>1. frame' \in [Procs -> [prev : Fds \cup {NoFd}, rd : Fds \cup {NoFd, Unset}, wr : Fds \cup {NoFd, Unset}]]
    BY <1>1 DEF TypeOK, NoFrame
  <2>2. job' \in 0 .. Jobs /\ length' \in 0 .. MaxStages /\ cmd' \in 0 .. MaxStages + 1
    BY <1>1, <1>2, Constant, MaxStagesType
  <2> QED  BY <1>1, <2>1, <2>2 DEF TypeOK
<1>4. CmdInv'
  BY <1>1, <1>2 DEF CmdInv
<1>5. \A p \in made : p[1] <= job /\ p[1] # job'
  BY <1>1, <1>2, MadePipes
<1>6. MadeInv'
  <2>1. \A p \in made : p[1] \in Nat
    BY MadePipes
  <2>2. \A i \in Stages : ~(i < 1)
    BY DEF Stages
  <2>3. \A p \in made : p[1] <= job'
    BY <1>1, <1>2, <1>5, <2>1
  <2> QED  BY <1>1, <1>2, <1>5, <2>2, <2>3 DEF MadeInv, Forking, Busy
<1>7. KindsInv' /\ LeakInv'
  <2>1. KindsInv /\ LeakInv /\ ~BothEnds /\ ~BothEnds' /\ ~Busy /\ Busy'
    BY <1>1 DEF ShellInv, BothEnds, Forking, Busy
  <2> QED  BY <1>1, <1>5, <2>1 DEF KindsInv, LeakInv
<1>8. FrameInv'
  <2>1. <<job, 1>>' \notin made'
    BY <1>1, <1>5
  <2> QED  BY <1>1, <1>2, <2>1 DEF FrameInv, NoFrame
<1>9. RoomInv'
  BY <1>1 DEF ShellInv, RoomInv, TwoFree
<1>10. GoneInv' /\ StageInv'
  BY <1>1, <1>2 DEF GoneInv, StageInv
<1> QED  BY <1>3, <1>4, <1>6, <1>7, <1>8, <1>9, <1>10 DEF ShellInv

LEMMA ShellExits ==
    ASSUME IInv, Quit \/ ForkFails
    PROVE  IInv'
<1>1. /\ pc \in {"prompt", "fork"} /\ pc' = "exited"
      /\ table' = [table EXCEPT ![Shell] = NoTable]
      /\ UNCHANGED <<job, length, cmd, made, level, frame, stageVars, failed>>
  BY DEF Quit, ForkFails
<1> USE DEF IInv, stageVars
<1>2. table'[Shell] = NoTable /\ \A i \in Stages : table'[i] = table[i]
  BY <1>1, Constant DEF TypeOK
<1>3. TypeOK'
  BY <1>1 DEF TypeOK, NoTable, Files
<1>4. CmdInv'
  BY <1>1 DEF CmdInv
<1>5. MadeInv'
  BY <1>1 DEF MadeInv, Busy, Forking, Piped
<1>6. ShellInv'
  BY <1>1 DEF ShellInv
<1>7. GoneInv'
  BY <1>1, <1>2 DEF GoneInv, NoTable
<1>8. StageInv'
  BY <1>1, <1>2, StagesUndisturbed DEF StageInv
<1> QED  BY <1>3, <1>4, <1>5, <1>6, <1>7, <1>8

LEMMA MakePipeStep == ASSUME IInv, MakePipe PROVE IInv'
<1> DEFINE free == {fd \in Fds : table[Shell][fd] = Closed}
           rd == Min(free)
           wr == Min(free \ {rd})
<1> USE DEF IInv, stageVars
<1>1. /\ pc = "pipe" /\ Piped(cmd)
      /\ Cardinality(free) >= 2
      /\ pc' = "fork"
      /\ made' = made \cup {Here}
      /\ table' = [table EXCEPT ![Shell][rd] = ReadEnd(Here), ![Shell][wr] = WriteEnd(Here)]
      /\ frame' = [frame EXCEPT ![Shell].rd = rd, ![Shell].wr = wr]
      /\ UNCHANGED <<job, length, cmd, level, stageVars, failed>>
  BY DEF MakePipe, Here
<1>2. TwoFree /\ rd \in free /\ wr \in free /\ rd # wr
  BY <1>1, FreeFds
<1> HIDE DEF rd, wr
<1>3. /\ KindsInv /\ LeakInv /\ FrameInv /\ RoomInv /\ CmdInv
      /\ ~failed /\ Busy /\ ~BothEnds /\ ~Forking
  BY <1>1, <1>2 DEF ShellInv, Busy, BothEnds, Forking, RoomInv
<1>4. rd \in Upper /\ wr \in Upper /\ rd \in Fds /\ wr \in Fds
  BY <1>2, <1>3, Constant, Kinds DEF KindsInv
<1>5. /\ \A i \in Stages : table'[i] = table[i] /\ frame'[i] = frame[i]
      /\ \A fd \in Fds : table'[Shell][fd] = IF fd = wr THEN WriteEnd(Here)
                                             ELSE IF fd = rd THEN ReadEnd(Here) ELSE table[Shell][fd]
      /\ frame'[Shell].rd = rd /\ frame'[Shell].wr = wr /\ frame'[Shell].prev = frame[Shell].prev
  BY <1>1, <1>2, <1>4, Constant DEF TypeOK
<1>6. /\ cmd \in 1 .. length /\ cmd \in Stages /\ length \in 2 .. MaxStages /\ job \in 1 .. Jobs
      /\ cmd < length /\ Here \in Pipes /\ cmd < MaxStages
  <2>1. cmd \in 1 .. length /\ length \in 2 .. MaxStages /\ job \in 0 .. Jobs /\ job # 0 /\ cmd < length
    BY <1>1, <1>3, MaxStagesType DEF CmdInv, TypeOK, Piped
  <2> QED  BY <2>1, Constant, MaxStagesType, PipePairs DEF Here, Stages
<1>7. Here \notin made /\ Behind(Here) \notin made /\ Here # Behind(Here) /\ Here[1] = job /\ Here[2] = cmd
  <2>1. ASSUME NEW p \in made, p[1] = job PROVE p[2] < cmd
    BY <1>1, <2>1 DEF MadeInv
  <2>2. Here[1] = job /\ Here[2] = cmd /\ Behind(Here)[1] = job /\ Behind(Here)[2] = cmd + 1
    BY DEF Here, Behind
  <2>3. ~(cmd < cmd) /\ ~(cmd + 1 < cmd) /\ cmd # cmd + 1
    BY <1>6
  <2> QED  BY <2>1, <2>2, <2>3
<1>8. cmd > 1 => <<job, cmd - 1>> \in made /\ <<job, 1>> \in made
  <2>1. cmd > 1 => cmd - 1 \in Stages /\ cmd - 1 < length /\ cmd - 1 < cmd
    BY <1>6, MaxStagesType DEF Stages
  <2> QED  BY <1>3, <2>1 DEF MadeInv, Piped
<1>9. TypeOK'
  <2>1. table' \in [Procs -> [Fds -> Files]]
    BY <1>1, <1>4, <1>6, Constant DEF TypeOK, Files
  <2>2. frame' \in [Procs -> [prev : Fds \cup {NoFd}, rd : Fds \cup {NoFd, Unset}, wr : Fds \cup {NoFd, Unset}]]
    <3> DEFINE F == [prev : Fds \cup {NoFd}, rd : Fds \cup {NoFd, Unset}, wr : Fds \cup {NoFd, Unset}]
    <3>1. frame \in [Procs -> F] /\ Shell \in Procs
      BY Constant DEF TypeOK
    <3>2. [frame[Shell] EXCEPT !.rd = rd, !.wr = wr] \in F
      BY <1>4, <3>1
    <3>3. frame' = [frame EXCEPT ![Shell] = [frame[Shell] EXCEPT !.rd = rd, !.wr = wr]]
      BY <1>1, <3>1
    <3> QED  BY <3>1, <3>2, <3>3
  <2> QED  BY <1>1, <1>6, <2>1, <2>2 DEF TypeOK
<1>10. CmdInv'
  BY <1>1 DEF CmdInv
<1>11. MadeInv'
  <2>1. \A p \in made' :
           /\ p[1] <= job
           /\ p[2] > 1 => <<p[1], p[2] - 1>> \in made'
           /\ p[1] = job => p[2] < length /\ (p[2] < cmd \/ p[2] = cmd)
    <3>1. \A p \in made : /\ p[1] <= job /\ (p[2] > 1 => <<p[1], p[2] - 1>> \in made)
                          /\ p[1] = job => p[2] < length /\ p[2] < cmd
      BY <1>1 DEF MadeInv
    <3>2. Here[2] > 1 => <<Here[1], Here[2] - 1>> \in made
      BY <1>7, <1>8
    <3>3. Here[1] <= job /\ Here[2] < length
      BY <1>6, <1>7
    <3> QED  BY <1>1, <1>7, <3>1, <3>2, <3>3
  <2>2. <<job, 1>> \in made'
    BY <1>1, <1>6, <1>8 DEF Here
  <2>3. \A i \in Stages : Piped(i) /\ (i < cmd \/ i = cmd) => <<job, i>> \in made'
    BY <1>1, <1>3 DEF MadeInv, Here
  <2> QED  BY <1>1, <2>1, <2>2, <2>3 DEF MadeInv, Busy, Forking, Piped
<1>12. BothEnds' /\ Busy' /\ Here' = Here
  BY <1>1 DEF BothEnds, Forking, Busy, Here
<1>13. KindsInv'
  <2>1. \A fd \in 0 .. 2 : table'[Shell][fd] = Tty
    BY <1>3, <1>4, <1>5, Constant DEF KindsInv, Upper, Fds
  <2>2. ASSUME NEW fd \in Upper
        PROVE  \/ table'[Shell][fd] = Closed
               \/ \E p \in made' : table'[Shell][fd] = ReadEnd(p)
               \/ table'[Shell][fd] = WriteEnd(Here) /\ fd = wr
    <3>1. CASE fd = wr
      BY <1>5, <3>1, Constant
    <3>2. CASE fd = rd
      <4>1. table'[Shell][fd] = ReadEnd(Here) /\ Here \in made'
        BY <1>1, <1>2, <1>5, <3>2, Constant
      <4> QED  BY ONLY <4>1
    <3>3. CASE fd # rd /\ fd # wr
      <4>1. table'[Shell][fd] = table[Shell][fd]
        BY <1>5, <3>3, Constant
      <4> QED  BY <1>1, <1>3, <4>1 DEF KindsInv
    <3> QED  BY <3>1, <3>2, <3>3
  <2> QED  BY <1>5, <1>12, <2>1, <2>2 DEF KindsInv
<1>14. ASSUME NEW p \in made, Behind(p) \notin made
       PROVE  \/ p = <<job, cmd - 1>> /\ cmd > 1
              \/ \A fd \in Fds : table[Shell][fd] # ReadEnd(p)
  <2>1. \A fd \in Fds : table[Shell][fd] = ReadEnd(p) => fd = frame[Shell].rd
    BY <1>3, <1>14 DEF LeakInv
  <2>2. CASE cmd = 1
    BY <1>1, <1>3, <2>1, <2>2, Constant DEF FrameInv
  <2>3. CASE cmd # 1
    <3>1. Behind(<<job, cmd - 1>>) = Here
      BY <1>6 DEF Behind, Here
    <3>2. table[Shell][frame[Shell].rd] = ReadEnd(<<job, cmd - 1>>)
      BY <1>3, <1>6, <1>7, <1>8, <2>3, <3>1 DEF LeakInv
    <3> QED  BY <1>6, <2>1, <2>3, <3>2, Kinds
  <2> QED  BY <2>2, <2>3
<1>15. LeakInv'
  <2> SUFFICES ASSUME NEW p \in made'
      PROVE  /\ Behind(p) \in made' => \E fd \in Upper : table'[Shell][fd] = ReadEnd(p)
             /\ Behind(p) \notin made' =>
                  /\ \A fd \in Fds : table'[Shell][fd] = ReadEnd(p) => fd = rd
                  /\ p[1] = job => table'[Shell][rd] = ReadEnd(p)
    BY <1>1, <1>5, <1>12 DEF LeakInv
  <2>1. CASE p = Here
    <3>1. Behind(p) \notin made'
      BY <1>1, <1>7, <2>1
    <3>2. \A fd \in Fds : table[Shell][fd] # ReadEnd(p)
      BY <1>3, <1>7, <2>1, Constant, Kinds DEF KindsInv
    <3> QED  BY <1>2, <1>4, <1>5, <2>1, <3>1, <3>2, Kinds
  <2>2. CASE p \in made /\ Behind(p) \in made
    <3>1. PICK fd \in Upper : table[Shell][fd] = ReadEnd(p)
      BY <1>3, <2>2 DEF LeakInv
    <3>2. fd # rd /\ fd # wr
      BY <1>2, <3>1, Kinds
    <3> QED  BY <1>1, <1>5, <2>2, <3>1, <3>2, Constant
  <2>3. CASE p \in made /\ Behind(p) \notin made /\ Behind(p) # Here
    <3>1. p # <<job, cmd - 1>>
      BY <1>6, <2>3 DEF Behind, Here
    <3>2. \A fd \in Fds : table'[Shell][fd] # ReadEnd(p)
      BY <1>5, <1>7, <1>14, <2>3, <3>1, Kinds
    <3>3. p[1] # job
      <4>1. ASSUME p[1] = job PROVE FALSE
        <5>1. Busy /\ table[Shell][frame[Shell].rd] = ReadEnd(p)
          BY <1>3, <2>3, <4>1 DEF LeakInv
        <5>2. cmd > 1
          <6>1. p[2] < cmd
            BY <1>1, <2>3, <4>1 DEF MadeInv
          <6>2. p[2] \in Stages
            BY <2>3, MadePipes
          <6> QED  BY <1>6, <6>1, <6>2 DEF Stages
        <5>3. frame[Shell].rd \in Upper
          BY <1>3, <1>8, <5>2 DEF FrameInv
        <5> QED  BY <1>14, <2>3, <3>1, <5>1, <5>3, Constant
      <4> QED  BY <4>1
    <3> QED  BY <1>1, <2>3, <3>2, <3>3
  <2>4. CASE p \in made /\ Behind(p) = Here
    <3>1. p = <<job, cmd - 1>> /\ cmd > 1
      BY <1>6, <2>4, MadePipes DEF Behind, Here, Stages
    <3>2. table[Shell][frame[Shell].rd] = ReadEnd(p) /\ frame[Shell].rd \in Upper
      <4>1. p[1] = job
        BY <3>1
      <4> QED  BY <1>3, <1>7, <1>8, <2>4, <3>1, <4>1 DEF LeakInv, FrameInv
    <3>3. frame[Shell].rd # rd /\ frame[Shell].rd # wr
      BY <1>2, <3>2, Kinds
    <3> QED  BY <1>1, <1>5, <2>4, <3>2, <3>3, Constant
  <2> QED  BY <1>1, <2>1, <2>2, <2>3, <2>4
<1>16. FrameInv'
  <2>1. cmd = 1 => frame[Shell].prev = NoFd
    BY <1>3 DEF FrameInv
  <2>2. ASSUME cmd > 1
        PROVE  frame[Shell].prev \in Upper /\ table'[Shell][frame[Shell].prev] = ReadEnd(<<job, cmd - 1>>)
    <3>1. frame[Shell].prev = frame[Shell].rd /\ frame[Shell].rd \in Upper
      BY <1>3, <1>8, <2>2 DEF FrameInv
    <3>2. Behind(<<job, cmd - 1>>) = Here /\ <<job, cmd - 1>>[1] = job
      BY <1>6 DEF Behind, Here
    <3>3. table[Shell][frame[Shell].rd] = ReadEnd(<<job, cmd - 1>>)
      BY <1>3, <1>7, <1>8, <2>2, <3>2 DEF LeakInv
    <3>4. frame[Shell].rd # rd /\ frame[Shell].rd # wr
      BY <1>2, <3>3, Kinds
    <3> QED  BY <1>5, <3>1, <3>3, <3>4, Constant
  <2> QED  BY <1>1, <1>2, <1>4, <1>5, <1>12, <2>1, <2>2 DEF FrameInv
<1>17. RoomInv'
  BY <1>1, <1>3 DEF RoomInv
<1>18. GoneInv'
  BY <1>1, <1>5 DEF GoneInv
<1>19. StageInv'
  BY <1>1, <1>5, StagesUndisturbed DEF StageInv
<1> QED  BY <1>9, <1>10, <1>11, <1>13, <1>15, <1>16, <1>17, <1>18, <1>19 DEF ShellInv

\* A pipe() that fails, and a last stage, change nothing but where the shell is.
LEMMA NoPipeStep == ASSUME IInv, PipeFails \/ LastStage PROVE IInv'
<1> USE DEF IInv, kernel, stageVars
<1>1. /\ pc = "pipe" /\ pc' = "fork"
      /\ UNCHANGED <<job, length, cmd, table, made, level, frame, stage, prog, inHand>>
      /\ \/ Piped(cmd) /\ ~TwoFree /\ failed' = TRUE
         \/ ~Piped(cmd) /\ failed' = failed
  <2>1. CASE PipeFails
    <3>1. ~TwoFree
      BY <2>1, FreeFds DEF PipeFails
    <3> QED  BY <2>1, <3>1 DEF PipeFails
  <2>2. CASE LastStage
    BY <2>2 DEF LastStage
  <2> QED  BY <2>1, <2>2
<1>2. /\ KindsInv /\ LeakInv /\ FrameInv /\ RoomInv /\ CmdInv
      /\ cmd \in 1 .. length /\ length \in 2 .. MaxStages /\ Busy /\ Busy' /\ ~BothEnds
  BY <1>1, MaxStagesType DEF ShellInv, CmdInv, Busy, BothEnds, Forking
<1>3. cmd > 1 /\ <<job, 1>> \in made
  <2>1. cmd # 1
    BY <1>1, <1>2 DEF RoomInv, Piped
  <2> QED  BY <1>2, <2>1 DEF MadeInv
<1>4. Here \notin made /\ ~BothEnds'
  <2>1. Here[1] = job /\ Here[2] = cmd /\ ~(cmd < cmd)
    BY <1>2 DEF Here
  <2>2. Here \notin made
    BY <1>1, <2>1 DEF MadeInv
  <2> QED  BY <1>1, <2>2 DEF BothEnds, Here
<1>5. TypeOK' /\ CmdInv'
  BY <1>1 DEF TypeOK, CmdInv
<1>6. MadeInv'
  BY <1>1, <1>2, <1>3 DEF MadeInv, Busy, Forking, Piped
<1>7. KindsInv' /\ LeakInv'
  BY <1>1, <1>2, <1>4 DEF KindsInv, LeakInv
<1>8. FrameInv'
  BY <1>1, <1>2, <1>3, <1>4 DEF FrameInv
<1>9. RoomInv'
  BY <1>1, <1>2, <1>3, <1>4 DEF RoomInv, TwoFree
<1>10. GoneInv'
  BY <1>1 DEF GoneInv
<1>11. StageInv'
  BY <1>1, StagesUndisturbed DEF StageInv
<1> QED  BY <1>5, <1>6, <1>7, <1>8, <1>9, <1>10, <1>11 DEF ShellInv

LEMMA ForkStep == ASSUME IInv, Fork PROVE IInv'
<1> USE DEF IInv
<1>1. PICK program \in Programs :
         /\ pc = "fork" /\ pc' = "parent"
         /\ table' = [table EXCEPT ![cmd] = table[Shell]]
         /\ frame' = [frame EXCEPT ![cmd] = frame[Shell]]
         /\ stage' = [stage EXCEPT ![cmd] = "stdin"]
         /\ prog'  = [prog EXCEPT ![cmd] = program]
         /\ UNCHANGED <<job, length, cmd, made, level, inHand, failed>>
  BY DEF Fork
<1>2. /\ KindsInv /\ LeakInv /\ FrameInv /\ RoomInv /\ CmdInv
      /\ cmd \in 1 .. length /\ length \in 2 .. MaxStages /\ cmd \in Stages
      /\ Busy /\ Busy' /\ Forking /\ Forking' /\ BothEnds' = BothEnds /\ Here' = Here
  BY <1>1, MaxStagesType DEF ShellInv, CmdInv, Busy, BothEnds, Forking, Here, Stages
<1>3. /\ table'[Shell] = table[Shell] /\ frame'[Shell] = frame[Shell]
      /\ table'[cmd] = table[Shell] /\ frame'[cmd] = frame[Shell] /\ stage'[cmd] = "stdin"
      /\ \A i \in Stages \ {cmd} : table'[i] = table[i] /\ frame'[i] = frame[i] /\ stage'[i] = stage[i]
  BY <1>1, <1>2, Constant DEF TypeOK
<1>4. TypeOK' /\ CmdInv'
  <2>1. /\ table' \in [Procs -> [Fds -> Files]]
        /\ frame' \in [Procs -> [prev : Fds \cup {NoFd}, rd : Fds \cup {NoFd, Unset}, wr : Fds \cup {NoFd, Unset}]]
    BY <1>1, <1>2, Constant DEF TypeOK
  <2> QED  BY <1>1, <2>1 DEF TypeOK, CmdInv
<1>5. MadeInv'
  BY <1>1, <1>2 DEF MadeInv, Busy, Forking, Piped
<1>6. KindsInv' /\ LeakInv'
  BY <1>1, <1>2, <1>3 DEF KindsInv, LeakInv
<1>7. FrameInv'
  BY <1>1, <1>2, <1>3 DEF FrameInv
<1>8. RoomInv'
  BY <1>1, <1>2, <1>3 DEF RoomInv, TwoFree
<1>9. GoneInv'
  BY <1>1, <1>2, <1>3 DEF GoneInv
<1>10. ASSUME ~failed, NEW i \in Stages, i = cmd
       PROVE  /\ EndsOf(i)' /\ OwnPipe(i)' /\ Stdin(i)' = Tty /\ Stdout(i)' = Tty
              /\ IF i = 1 THEN frame'[i].prev = NoFd
                 ELSE frame'[i].prev \in Upper /\ table'[i][frame'[i].prev] = Front(i)'
  <2>0. table'[i] = table[Shell] /\ frame'[i] = frame[Shell] /\ stage'[i] = "stdin"
    BY <1>3, <1>10
  <2> DEFINE t == table[Shell]
  <2>1. Piped(cmd) => BothEnds
    BY <1>2, <1>10 DEF MadeInv, BothEnds, Here
  <2>2. <<job, 1>> \in made
    BY <1>2 DEF MadeInv
  <2>3. Stdin(i)' = Tty /\ Stdout(i)' = Tty
    BY <1>2, <2>0, Constant DEF Stdin, Stdout, KindsInv
  <2>4. Here \in made => Behind(Here) \notin made /\ Here[1] = job
    <3>1. Behind(Here)[1] = job /\ Behind(Here)[2] = cmd + 1 /\ Here[1] = job
      BY DEF Behind, Here
    <3>2. ~(cmd + 1 < cmd) /\ cmd + 1 # cmd
      BY <1>2
    <3>3. Behind(Here) \notin made
      BY <1>1, <3>1, <3>2 DEF MadeInv
    <3> QED  BY <3>1, <3>3
  <2>5. OwnPipe(i)'
    <3>1. ASSUME Piped(cmd)
          PROVE  frame[Shell].rd \in Upper /\ frame[Shell].wr \in Upper /\ t[frame[Shell].wr] = WriteEnd(Here)
      BY <1>2, <2>1, <2>2, <3>1 DEF FrameInv
    <3> QED  BY <1>1, <1>10, <2>0, <3>1 DEF OwnPipe, Piped, Here
  <2>6. cmd = 1 => frame[Shell].prev = NoFd
    BY <1>2 DEF FrameInv
  <2>7. cmd # 1 => frame[Shell].prev \in Upper /\ t[frame[Shell].prev] = ReadEnd(<<job, cmd - 1>>)
    <3>1. CASE cmd # 1 /\ BothEnds
      BY <1>2, <3>1 DEF FrameInv
    <3>2. CASE cmd # 1 /\ ~BothEnds
      <4>1. frame[Shell].prev = frame[Shell].rd /\ frame[Shell].rd \in Upper
        BY <1>2, <2>2, <3>2 DEF FrameInv
      <4>2. ~Piped(cmd) /\ Here \notin made /\ cmd - 1 \in Stages /\ cmd - 1 < cmd /\ Piped(cmd - 1)
        BY <1>2, <2>1, <3>2, MaxStagesType DEF BothEnds, Piped, Stages
      <4>3. <<job, cmd - 1>> \in made
        BY <1>10, <4>2 DEF MadeInv
      <4>4. Behind(<<job, cmd - 1>>) = Here /\ <<job, cmd - 1>>[1] = job
        BY <1>2 DEF Behind, Here
      <4> QED  BY <1>2, <4>1, <4>2, <4>3, <4>4 DEF LeakInv
    <3> QED  BY <3>1, <3>2
  <2>8. EndsOf(i)'
    <3> SUFFICES ASSUME NEW fd \in Fds
        PROVE  /\ \A p \in Pipes : t[fd] = WriteEnd(p) => p = <<job, cmd>>
               /\ \A k \in Stages : t[fd] = ReadEnd(<<job, k>>) =>
                    k < cmd \/ (k = cmd /\ Piped(cmd) /\ fd = frame[Shell].rd)
      BY <1>1, <1>10, <2>0 DEF EndsOf, Piped
    <3>1. t[fd] \in {Tty, Closed} \/ (\E p \in made : t[fd] = ReadEnd(p)) \/ t[fd] = WriteEnd(Here)
      BY <1>2, Constant DEF KindsInv
    <3>2. ASSUME NEW p \in Pipes, t[fd] = WriteEnd(p) PROVE p = <<job, cmd>>
      BY <3>1, <3>2, Kinds DEF Here
    <3>3. ASSUME NEW k \in Stages, t[fd] = ReadEnd(<<job, k>>)
          PROVE  k < cmd \/ (k = cmd /\ Piped(cmd) /\ fd = frame[Shell].rd)
      <4>1. <<job, k>> \in made
        BY <3>1, <3>3, Kinds
      <4>2. k < length /\ (k < cmd \/ k = cmd)
        BY <1>1, <4>1 DEF MadeInv
      <4>3. k = cmd => fd = frame[Shell].rd
        BY <1>2, <2>4, <3>3, <4>1 DEF LeakInv, Here
      <4> QED  BY <4>2, <4>3 DEF Piped
    <3> QED  BY <3>2, <3>3
  <2> QED  BY <1>1, <1>10, <2>0, <2>3, <2>5, <2>6, <2>7, <2>8 DEF Front
<1>11. StageInv'
  <2>1. ~failed' => \A i \in Stages \ {cmd} :
             /\ stage'[i] \notin {"none", "zombie"} => EndsOf(i)'
             /\ stage'[i] = "stdin" => /\ OwnPipe(i)'
                                       /\ Stdin(i)' = Tty /\ Stdout(i)' = Tty
                                       /\ IF i = 1 THEN frame'[i].prev = NoFd
                                          ELSE frame'[i].prev \in Upper /\ table'[i][frame'[i].prev] = Front(i)'
             /\ stage'[i] = "stdout" => OwnPipe(i)' /\ Stdin(i)' = Front(i)' /\ Stdout(i)' = Tty
             /\ stage'[i] \in {"run", "end"} => Stdin(i)' = Front(i)' /\ Stdout(i)' = Rear(i)'
    BY <1>1, <1>3, StagesUndisturbed
  <2> QED  BY <1>1, <1>3, <1>10, <2>1 DEF StageInv
<1> QED  BY <1>4, <1>5, <1>6, <1>7, <1>8, <1>9, <1>11 DEF ShellInv

\* The parent moves on: the write end of the newest pipe is closed, if there is one.
LEMMA ParentStep == ASSUME IInv, Parent PROVE IInv'
<1> DEFINE F == [prev : Fds \cup {NoFd}, rd : Fds \cup {NoFd, Unset}, wr : Fds \cup {NoFd, Unset}]
           wr == frame[Shell].wr
           rd == frame[Shell].rd
<1> USE DEF IInv, kernel, stageVars
<1>1. /\ pc = "parent" /\ cmd' = cmd + 1
      /\ IF Piped(cmd) THEN /\ table' = [table EXCEPT ![Shell] = Close(@, wr)]
                            /\ frame' = [frame EXCEPT ![Shell].prev = rd]
                            /\ pc' = "pipe"
         ELSE pc' = "last" /\ UNCHANGED <<table, frame>>
      /\ UNCHANGED <<job, length, made, level, stage, prog, inHand, failed>>
  BY DEF Parent
<1>2. /\ KindsInv /\ LeakInv /\ FrameInv /\ RoomInv /\ CmdInv
      /\ cmd \in 1 .. length /\ length \in 2 .. MaxStages
      /\ Busy /\ Busy' /\ Forking /\ ~Forking' /\ ~BothEnds'
      /\ job # 0 /\ length \in Lengths
  BY <1>1, MaxStagesType DEF ShellInv, CmdInv, Busy, BothEnds, Forking
<1>3. <<job, 1>> \in made /\ rd \in Upper /\ wr \in Upper /\ rd # wr /\ rd \in Fds /\ wr \in Fds
  BY <1>2, Constant DEF MadeInv, FrameInv
<1>4. Piped(cmd) => cmd < length
  BY DEF Piped
<1>5. ~Piped(cmd) => cmd = length /\ Here \notin made /\ ~BothEnds
  <2>1. ~Piped(cmd) => cmd = length
    BY <1>2 DEF Piped
  <2>2. Here[1] = job /\ Here[2] = cmd
    BY DEF Here
  <2>3. Here \in made => cmd < length
    BY <2>2 DEF MadeInv
  <2> QED  BY <1>2, <2>1, <2>3 DEF BothEnds
<1>6. /\ \A i \in Stages : table'[i] = table[i] /\ frame'[i] = frame[i]
      /\ \A fd \in Fds : table'[Shell][fd] = IF fd = wr THEN Closed ELSE table[Shell][fd]
      /\ frame'[Shell].rd = rd /\ frame'[Shell].wr = wr
      /\ Piped(cmd) => frame'[Shell].prev = rd
      /\ ~Piped(cmd) => frame'[Shell].prev = frame[Shell].prev
  <2>1. CASE Piped(cmd)
    <3>1. \A fd \in Fds : Close(table[Shell], wr)[fd] = IF fd = wr THEN Closed ELSE table[Shell][fd]
      BY DEF Close
    <3> QED  BY <1>1, <2>1, <3>1, Constant DEF TypeOK
  <2>2. CASE ~Piped(cmd)
    <3>1. table[Shell][wr] = Closed
      BY <1>2, <1>3, <1>5, <2>2 DEF FrameInv
    <3> QED  BY <1>1, <2>2, <3>1
  <2> QED  BY <2>1, <2>2
<1>7. TypeOK'
  <2>1. table' \in [Procs -> [Fds -> Files]]
    <3>1. table[Shell] \in [Fds -> Files]
      BY Constant DEF TypeOK
    <3>2. Close(table[Shell], wr) \in [Fds -> Files]
      BY <1>3, <3>1, TypeOfTables
    <3> QED  BY <1>1, <3>2 DEF TypeOK
  <2>2. frame' \in [Procs -> F]
    <3>1. frame \in [Procs -> F] /\ [frame[Shell] EXCEPT !.prev = rd] \in F
      BY <1>3, Constant DEF TypeOK
    <3>2. Piped(cmd) => frame' = [frame EXCEPT ![Shell] = [frame[Shell] EXCEPT !.prev = rd]]
      BY <1>1
    <3> QED  BY <1>1, <3>1, <3>2
  <2>3. cmd' \in 0 .. MaxStages + 1
    BY <1>1, <1>2, MaxStagesType
  <2> QED  BY <1>1, <2>1, <2>2, <2>3 DEF TypeOK
<1>8. CmdInv'
  BY <1>1, <1>2, <1>4, <1>5 DEF CmdInv
<1>9. MadeInv'
  <2>1. \A p \in made : p[1] = job => p[2] < cmd + 1
    <3>1. ASSUME NEW p \in made, p[1] = job PROVE p[2] < cmd \/ p[2] = cmd
      BY <3>1 DEF MadeInv
    <3>2. ASSUME NEW p \in made PROVE p[2] \in Nat
      BY MadePipes, Constant
    <3> QED  BY <1>2, <3>1, <3>2
  <2>2. ~failed => \A i \in Stages : Piped(i) /\ i < cmd + 1 => <<job, i>> \in made
    <3>1. \A i \in Stages : i < cmd + 1 => i < cmd \/ i = cmd
      BY <1>2, Constant
    <3> QED  BY <1>2, <3>1 DEF MadeInv
  <2>3. \A p \in made : /\ p[1] <= job /\ (p[2] > 1 => <<p[1], p[2] - 1>> \in made)
                        /\ p[1] = job => p[2] < length
    BY DEF MadeInv
  <2> QED  BY <1>1, <1>2, <1>3, <2>1, <2>2, <2>3 DEF MadeInv, Piped
<1>10. KindsInv'
  <2>1. \A fd \in 0 .. 2 : table'[Shell][fd] = Tty
    BY <1>2, <1>3, <1>6, Constant DEF KindsInv, Upper, Fds
  <2>2. ASSUME NEW fd \in Upper
        PROVE  table'[Shell][fd] = Closed \/ \E p \in made : table'[Shell][fd] = ReadEnd(p)
    BY <1>2, <1>6, Constant DEF KindsInv
  <2> QED  BY <1>1, <2>1, <2>2 DEF KindsInv
<1>11. \A p : \A fd \in Fds : table[Shell][fd] = ReadEnd(p) <=> table'[Shell][fd] = ReadEnd(p)
  <2>1. \A p : table[Shell][wr] # ReadEnd(p)
    BY <1>2, <1>3, Kinds DEF FrameInv
  <2> QED  BY <1>6, <2>1, Kinds
<1>12. LeakInv'
  <2> SUFFICES ASSUME NEW p \in made
      PROVE  /\ Behind(p) \in made => \E fd \in Upper : table'[Shell][fd] = ReadEnd(p)
             /\ Behind(p) \notin made =>
                  /\ \A fd \in Fds : table'[Shell][fd] = ReadEnd(p) => fd = rd
                  /\ p[1] = job => table'[Shell][rd] = ReadEnd(p)
    BY <1>1, <1>2, <1>6 DEF LeakInv
  <2>1. Behind(p) \in made => \E fd \in Upper : table'[Shell][fd] = ReadEnd(p)
    BY <1>2, <1>11, Constant DEF LeakInv
  <2>2. Behind(p) \notin made => \A fd \in Fds : table'[Shell][fd] = ReadEnd(p) => fd = rd
    BY <1>2, <1>11 DEF LeakInv
  <2>3. Behind(p) \notin made /\ p[1] = job => table'[Shell][rd] = ReadEnd(p)
    BY <1>2, <1>3, <1>11 DEF LeakInv
  <2> QED  BY <2>1, <2>2, <2>3
<1>13. FrameInv'
  <2>1. table'[Shell][wr] = Closed
    BY <1>3, <1>6
  <2>2. cmd' > 1 /\ cmd' # 1
    BY <1>1, <1>2
  <2>3. frame'[Shell].prev = rd
    <3>1. ~Piped(cmd) => cmd > 1
      BY <1>2, <1>5
    <3> QED  BY <1>2, <1>5, <1>6, <3>1 DEF FrameInv
  <2> QED  BY <1>1, <1>2, <1>3, <1>6, <2>1, <2>2, <2>3 DEF FrameInv
<1>14. RoomInv'
  <2>1. cmd' # 1
    BY <1>1, <1>2
  <2>2. ASSUME failed PROVE ~TwoFree'
    <3>1. table[Shell][wr] = Closed
      <4>1. ~BothEnds
        BY <1>2, <2>2 DEF RoomInv
      <4> QED  BY <1>2, <1>3, <1>6, <2>2, <4>1 DEF FrameInv
    <3>2. \A fd \in Fds : table'[Shell][fd] = table[Shell][fd]
      BY <1>6, <3>1
    <3> QED  BY <1>2, <2>2, <3>2 DEF RoomInv, TwoFree
  <2> QED  BY <1>1, <1>2, <2>1, <2>2 DEF RoomInv
<1>15. GoneInv'
  <2>1. \A i \in Stages : i < cmd \/ i = cmd => i < cmd + 1
    BY <1>2, Constant
  <2> QED  BY <1>1, <1>6, <2>1 DEF GoneInv
<1>16. StageInv'
  BY <1>1, <1>6, StagesUndisturbed DEF StageInv
<1> QED  BY <1>7, <1>8, <1>9, <1>10, <1>12, <1>13, <1>14, <1>15, <1>16 DEF ShellInv

LEMMA CloseLastStep == ASSUME IInv, CloseLast PROVE IInv'
<1> DEFINE rd == frame[Shell].rd
           wr == frame[Shell].wr
<1> USE DEF IInv, stageVars
<1>1. /\ pc = "last" /\ pc' = "wait"
      /\ table' = [table EXCEPT ![Shell] = Close(@, frame[Shell].prev)]
      /\ UNCHANGED <<job, length, cmd, made, level, frame, stage, prog, inHand, failed>>
  BY DEF CloseLast
<1>2. /\ KindsInv /\ LeakInv /\ FrameInv /\ RoomInv /\ CmdInv
      /\ cmd = length + 1 /\ length \in 2 .. MaxStages /\ Busy /\ ~Busy' /\ ~Forking /\ ~BothEnds
      /\ ~BothEnds' /\ ~Forking'
  BY <1>1, MaxStagesType DEF ShellInv, CmdInv, Busy, BothEnds, Forking
<1>3. cmd > 1 /\ cmd # 1
  BY <1>2
<1>4. <<job, 1>> \in made /\ rd \in Upper /\ wr \in Upper /\ rd # wr /\ table[Shell][wr] = Closed
      /\ frame[Shell].prev = rd /\ rd \in Fds /\ wr \in Fds
  BY <1>2, <1>3, Constant DEF MadeInv, FrameInv
<1>5. /\ \A i \in Stages : table'[i] = table[i]
      /\ \A fd \in Fds : table'[Shell][fd] = IF fd = rd THEN Closed ELSE table[Shell][fd]
  <2>1. \A fd \in Fds : Close(table[Shell], rd)[fd] = IF fd = rd THEN Closed ELSE table[Shell][fd]
    BY DEF Close
  <2> QED  BY <1>1, <1>4, <2>1, Constant DEF TypeOK
<1>6. TypeOK'
  <2>1. table[Shell] \in [Fds -> Files]
    BY Constant DEF TypeOK
  <2>2. Close(table[Shell], rd) \in [Fds -> Files]
    BY <1>4, <2>1, TypeOfTables
  <2>3. table' \in [Procs -> [Fds -> Files]]
    BY <1>1, <1>4, <2>2 DEF TypeOK
  <2> QED  BY <1>1, <2>3 DEF TypeOK
<1>7. CmdInv' /\ MadeInv'
  BY <1>1, <1>2 DEF CmdInv, MadeInv, Piped
<1>8. KindsInv'
  <2>1. \A fd \in 0 .. 2 : table'[Shell][fd] = Tty
    BY <1>2, <1>4, <1>5, Constant DEF KindsInv, Upper, Fds
  <2>2. ASSUME NEW fd \in Upper
        PROVE  table'[Shell][fd] = Closed \/ \E p \in made : table'[Shell][fd] = ReadEnd(p)
    BY <1>2, <1>5, Constant DEF KindsInv
  <2> QED  BY <1>1, <2>1, <2>2 DEF KindsInv
<1>9. LeakInv'
  <2> SUFFICES ASSUME NEW p \in made
      PROVE  /\ Behind(p) \in made => \E fd \in Upper : table'[Shell][fd] = ReadEnd(p)
             /\ Behind(p) \notin made => \A fd \in Fds : table'[Shell][fd] # ReadEnd(p)
    BY <1>1, <1>2 DEF LeakInv
  <2>1. ASSUME Behind(p) \notin made, NEW fd \in Fds PROVE table'[Shell][fd] # ReadEnd(p)
    <3>1. table[Shell][fd] = ReadEnd(p) => fd = rd
      BY <1>2, <2>1 DEF LeakInv
    <3> QED  BY <1>5, <3>1, Kinds
  <2>2. ASSUME Behind(p) \in made PROVE \E fd \in Upper : table'[Shell][fd] = ReadEnd(p)
    <3>1. PICK fd \in Upper : table[Shell][fd] = ReadEnd(p)
      BY <1>2, <2>2 DEF LeakInv
    <3>2. \E q \in made : table[Shell][rd] = ReadEnd(q) /\ Behind(q) \notin made
      <4>1. PICK k \in Stages : <<job, k>> \in made /\ <<job, k + 1>> \notin made
        <5> DEFINE S == {k \in Stages : <<job, k>> \in made}
        <5>1. S \in SUBSET Nat /\ S # {} /\ IsFiniteSet(S)
          <6>1. IsFiniteSet(Stages)
            BY MaxStagesType, FS_Interval DEF Stages
          <6> QED  BY <1>4, <6>1, Constant, FS_Subset
        <5> HIDE DEF S
        <5>2. PICK k \in S : \A l \in S : l <= k
          BY <5>1, GreatestElement
        <5>3. <<job, k + 1>> \notin made
          <6>1. SUFFICES ASSUME <<job, k + 1>> \in made PROVE FALSE
            OBVIOUS
          <6>2. k + 1 \in Stages
            BY <6>1, MadePipes
          <6>3. k + 1 \in S
            BY <6>1, <6>2 DEF S
          <6> QED  BY <5>1, <5>2, <6>3
        <5> QED  BY <5>2, <5>3 DEF S
      <4>2. Behind(<<job, k>>) \notin made /\ <<job, k>>[1] = job
        BY <4>1 DEF Behind
      <4> QED  BY <1>2, <4>1, <4>2 DEF LeakInv
    <3>3. fd # rd
      BY <2>2, <3>1, <3>2, Kinds
    <3> QED  BY <1>5, <3>1, <3>3, Constant
  <2> QED  BY <2>1, <2>2
<1>10. FrameInv'
  BY <1>2 DEF FrameInv
<1>11. RoomInv'
  <2>1. table'[Shell][rd] = Closed /\ table'[Shell][wr] = Closed
    BY <1>4, <1>5
  <2> QED  BY <1>2, <1>4, <2>1 DEF RoomInv, TwoFree
<1>12. GoneInv'
  BY <1>1, <1>5 DEF GoneInv
<1>13. StageInv'
  BY <1>1, <1>5, StagesUndisturbed DEF StageInv
<1> QED  BY <1>6, <1>7, <1>8, <1>9, <1>10, <1>11, <1>12, <1>13 DEF ShellInv

LEMMA ReapStep == ASSUME IInv, Reap PROVE IInv'
<1> USE DEF IInv, kernel, shellVars
<1>1. PICK i \in Stages :
         /\ pc = "wait" /\ stage[i] = "zombie"
         /\ stage' = [stage EXCEPT ![i] = "none"]
         /\ prog' = [prog EXCEPT ![i] = "none"]
         /\ UNCHANGED <<shellVars, table, made, level, frame, inHand, failed>>
  BY DEF Reap
<1>2. stage'[i] = "none" /\ \A k \in Stages \ {i} : stage'[k] = stage[k]
  BY <1>1 DEF TypeOK
<1>3. CmdInv' /\ MadeInv' /\ ShellInv'
  BY <1>1, ShellUndisturbed
<1>4. TypeOK'
  BY <1>1 DEF TypeOK
<1>5. GoneInv'
  BY <1>1, <1>2 DEF GoneInv, NoTable
<1>6. StageInv'
  <2>1. Stages \ {i} \in SUBSET Stages
    OBVIOUS
  <2>2. ~failed' => \A k \in Stages \ {i} :
             /\ stage'[k] \notin {"none", "zombie"} => EndsOf(k)'
             /\ stage'[k] = "stdin" => /\ OwnPipe(k)'
                                       /\ Stdin(k)' = Tty /\ Stdout(k)' = Tty
                                       /\ IF k = 1 THEN frame'[k].prev = NoFd
                                          ELSE frame'[k].prev \in Upper /\ table'[k][frame'[k].prev] = Front(k)'
             /\ stage'[k] = "stdout" => OwnPipe(k)' /\ Stdin(k)' = Front(k)' /\ Stdout(k)' = Tty
             /\ stage'[k] \in {"run", "end"} => Stdin(k)' = Front(k)' /\ Stdout(k)' = Rear(k)'
    BY <1>1, <1>2, <2>1, StagesUndisturbed
  <2> QED  BY <1>2, <2>2 DEF StageInv
<1> QED  BY <1>3, <1>4, <1>5, <1>6

LEMMA WaitedForAllStep == ASSUME IInv, WaitedForAll PROVE IInv'
<1> USE DEF IInv, kernel, stageVars
<1>1. /\ pc = "wait" /\ pc' = "prompt" /\ \A i \in Stages : stage[i] = "none"
      /\ UNCHANGED <<job, length, cmd, table, made, level, frame, stage, prog, inHand, failed>>
  BY DEF WaitedForAll
<1>2. ~Busy /\ ~Busy' /\ ~BothEnds /\ ~BothEnds' /\ ~Forking /\ ~Forking'
  BY <1>1 DEF Busy, BothEnds, Forking
<1>3. TypeOK' /\ CmdInv' /\ MadeInv'
  BY <1>1, <1>2 DEF TypeOK, CmdInv, MadeInv, Piped
<1>4. ShellInv'
  BY <1>1, <1>2 DEF ShellInv, KindsInv, LeakInv, FrameInv, RoomInv, TwoFree
<1>5. GoneInv' /\ StageInv'
  BY <1>1 DEF GoneInv, StageInv
<1> QED  BY <1>3, <1>4, <1>5
--------------------------------------------------------------------------------
LEMMA InitIInv == Init => IInv
<1> SUFFICES ASSUME Init PROVE IInv
  OBVIOUS
<1>1. /\ pc = "prompt" /\ job = 0 /\ length = 0 /\ cmd = 0 /\ made = {} /\ failed = FALSE
      /\ \A fd \in Fds : table[Shell][fd] = IF fd <= 2 THEN Tty ELSE Closed
      /\ \A i \in Stages : table[i] = NoTable /\ stage[i] = "none"
  BY Constant DEF Init, NoTable
<1>2. TypeOK
  <2>1. NoFrame \in [prev : Fds \cup {NoFd}, rd : Fds \cup {NoFd, Unset}, wr : Fds \cup {NoFd, Unset}]
    BY DEF NoFrame
  <2>2. table \in [Procs -> [Fds -> Files]]
    BY DEF Init, Files
  <2>3. frame \in [Procs -> [prev : Fds \cup {NoFd}, rd : Fds \cup {NoFd, Unset}, wr : Fds \cup {NoFd, Unset}]]
    BY <2>1 DEF Init
  <2>4. 0 \in 0 .. Jobs /\ 0 \in 0 .. MaxStages /\ 0 \in 0 .. MaxStages + 1 /\ 0 \in 0 .. Capacity
    BY Constant, MaxStagesType
  <2>5. level \in [Pipes -> 0 .. Capacity]
    BY <2>4 DEF Init
  <2>6. /\ stage \in [Stages -> {"none", "stdin", "stdout", "run", "end", "zombie"}]
        /\ prog \in [Stages -> Programs \cup {"none"}]
        /\ inHand \in [Stages -> BOOLEAN]
    BY DEF Init
  <2> QED  BY <1>1, <2>2, <2>3, <2>4, <2>5, <2>6 DEF TypeOK
<1>3. CmdInv /\ MadeInv
  <2>1. \A i \in Stages : ~(i < 0)
    BY DEF Stages
  <2> QED  BY <1>1, <2>1 DEF CmdInv, MadeInv, Busy, Forking, Piped
<1>4. KindsInv /\ LeakInv
  BY <1>1, Constant DEF KindsInv, LeakInv, Upper, Fds
<1>5. FrameInv /\ RoomInv
  <2>1. 3 \in Fds /\ 4 \in Fds /\ 3 # 4 /\ ~(3 <= 2) /\ ~(4 <= 2)
    BY SizeAssumption DEF Fds
  <2>2. TwoFree
    BY <1>1, <2>1 DEF TwoFree
  <2> QED  BY <1>1, <2>2 DEF FrameInv, RoomInv, Busy
<1>6. GoneInv /\ StageInv
  BY <1>1 DEF GoneInv, StageInv
<1> QED  BY <1>2, <1>3, <1>4, <1>5, <1>6 DEF IInv, ShellInv

\* Whatever the shell, the stages and the descriptors do, the tables are as IInv says.
THEOREM Invariance == Spec => []IInv
<1>1. IInv /\ [Next]_vars => IInv'
  <2> SUFFICES ASSUME IInv, [Next]_vars PROVE IInv'
    OBVIOUS
  <2>1. CASE Enter \/ Quit \/ ForkFails
    BY <2>1, EnterStep, ShellExits
  <2>2. CASE ShellStep
    BY <2>2, MakePipeStep, NoPipeStep, ForkStep, ParentStep, CloseLastStep, ReapStep, WaitedForAllStep
       DEF ShellStep
  <2>3. CASE \E i \in Stages : Stage(i)
    BY <2>3, StageStep
  <2>4. CASE UNCHANGED vars
    <3>1. UNCHANGED <<shellVars, kernel, frame, stageVars, failed>>
      BY <2>4 DEF vars
    <3>2. CmdInv' /\ MadeInv' /\ ShellInv'
      BY <3>1, ShellUndisturbed DEF kernel
    <3>3. TypeOK' /\ GoneInv'
      BY <3>1 DEF IInv, TypeOK, GoneInv, kernel, shellVars, stageVars
    <3>4. StageInv'
      BY <3>1, StagesUndisturbed DEF StageInv, kernel, shellVars, stageVars
    <3> QED  BY <3>2, <3>3, <3>4 DEF IInv
  <2> QED  BY <2>1, <2>2, <2>3, <2>4 DEF Next, Exited
<1> QED  BY InitIInv, <1>1, PTL DEF Spec

\* Every stage execs with its standard input and output on the pipes to its neighbours
\* (execute.c:158-172), as long as descriptors last.
THEOREM StagesConnected == Spec => []Connected
<1>1. IInv => Connected
  BY DEF IInv, StageInv, Connected, Front, Rear
<1> QED  BY Invariance, <1>1, PTL

\* Only a stage, and the shell until it has forked it, holds the write end behind it
\* (execute.c:178).
THEOREM WriteEndsKnown == Spec => []WritersKnown
<1>1. IInv => WritersKnown
  <2> SUFFICES ASSUME IInv, ~failed, NEW p \in made, NEW q \in Holders(WriteEnd(p))
      PROVE  p[1] = job /\ (q = p[2] \/ (q = Shell /\ cmd = p[2]))
    BY DEF WritersKnown
  <2>1. PICK fd \in Fds : table[q][fd] = WriteEnd(p) /\ q \in Procs
    BY DEF Holders
  <2>2. p \in Pipes
    BY MadePipes
  <2>3. CASE q = Shell
    <3>1. pc # "exited"
      BY <2>1, <2>3, Kinds DEF IInv, GoneInv, NoTable
    <3>2. WriteEnd(p) = WriteEnd(Here)
      BY <2>1, <2>3, <3>1, Constant, Kinds DEF IInv, ShellInv, KindsInv
    <3>3. p = Here
      BY <3>2, Kinds
    <3> QED  BY <2>3, <3>3 DEF Here
  <2>4. CASE q \in Stages
    <3>1. stage[q] \notin {"none", "zombie"}
      BY <2>1, <2>4, Kinds DEF IInv, GoneInv, NoTable
    <3>2. p = <<job, q>>
      BY <2>1, <2>2, <2>4, <3>1 DEF IInv, StageInv, EndsOf
    <3> QED  BY <3>2
  <2> QED  BY <2>1, <2>3, <2>4, Constant
<1> QED  BY Invariance, <1>1, PTL

\* Nobody acts on pipefds as the stack had it: the first pipe() of a pipeline finds its two
\* descriptors, however many pipelines leaked before it.
THEOREM PipefdsAlwaysSet == Spec => []PipefdsSet
<1>1. IInv => PipefdsSet
  <2> SUFFICES ASSUME IInv, pc \in {"fork", "parent"} PROVE frame[Shell].rd # Unset
    BY DEF PipefdsSet
  <2>1. <<job, 1>> \in made
    BY DEF IInv, MadeInv, Busy, Forking
  <2>2. FrameInv /\ Busy
    BY DEF IInv, ShellInv, Busy
  <2> QED  BY <2>1, <2>2, Constant DEF FrameInv
<1> QED  BY Invariance, <1>1, PTL

\* Back at the prompt the shell holds the read ends of all pipes but the last of each
\* pipeline, and nothing else beyond its terminal (execute.c:179, where prev_pipe is overwritten).
THEOREM Leaks == Spec => []LeaksAllButLast
<1>1. IInv => LeaksAllButLast
  <2> SUFFICES ASSUME IInv, pc = "prompt"
      PROVE  /\ \A fd \in 0 .. 2 : table[Shell][fd] = Tty
             /\ {table[Shell][fd] : fd \in Upper} \ {Closed} = {ReadEnd(p) : p \in {q \in made : Behind(q) \in made}}
    BY DEF LeaksAllButLast, Upper, Behind
  <2>1. KindsInv /\ LeakInv /\ ~Busy /\ ~BothEnds
    BY DEF IInv, ShellInv, Busy, BothEnds, Forking
  <2>2. ASSUME NEW fd \in Upper, table[Shell][fd] # Closed
        PROVE  \E p \in made : Behind(p) \in made /\ table[Shell][fd] = ReadEnd(p)
    <3>1. PICK p \in made : table[Shell][fd] = ReadEnd(p)
      BY <2>1, <2>2 DEF KindsInv
    <3> QED  BY <2>1, <3>1, Constant DEF LeakInv
  <2>3. ASSUME NEW p \in made, Behind(p) \in made
        PROVE  \E fd \in Upper : table[Shell][fd] = ReadEnd(p) /\ ReadEnd(p) # Closed
    BY <2>1, <2>3, Kinds DEF LeakInv
  <2>4. \A fd \in 0 .. 2 : table[Shell][fd] = Tty
    BY <2>1 DEF KindsInv
  <2> QED  BY <2>2, <2>3, <2>4
<1> QED  BY Invariance, <1>1, PTL
--------------------------------------------------------------------------------
(***************************************************************************)
(* The ways to hang.  A blocked writer that is the last one to be blocked  *)
(* waits for a stage that is gone; if there is no blocked writer, the      *)
(* first blocked reader would read the terminal.                           *)
(***************************************************************************)
\* While the shell waits, nobody but the stage behind it and those behind that keeps a
\* stage that runs from SIGPIPE; and, but for the last pipe, the shell.
LEMMA ReadersWhileWaiting ==
    ASSUME IInv, ~failed, pc = "wait", \A k \in Stages : stage[k] \in {"none", "run"},
           NEW i \in Stages, Piped(i)
    PROVE  /\ <<job, i>> \in made /\ <<job, i>> \in Pipes
           /\ i + 1 < length => Shell \in Holders(ReadEnd(<<job, i>>))
           /\ i + 1 = length /\ stage[i + 1] = "none" => Holders(ReadEnd(<<job, i>>)) = {}
<1> USE DEF IInv
<1>1. cmd = length + 1 /\ length \in 2 .. MaxStages /\ i < length /\ i \in Nat /\ KindsInv /\ LeakInv /\ ~Busy
  BY MaxStagesType, Constant DEF CmdInv, Piped, ShellInv, Busy
<1>2. <<job, i>> \in made /\ <<job, i>> \in Pipes
  <2>1. i < cmd
    BY <1>1
  <2> QED  BY <2>1 DEF MadeInv, TypeOK
<1>3. ASSUME i + 1 < length PROVE Shell \in Holders(ReadEnd(<<job, i>>))
  <2>1. i + 1 \in Stages /\ Piped(i + 1) /\ i + 1 < cmd
    BY <1>1, <1>3, MaxStagesType DEF Stages, Piped
  <2>2. Behind(<<job, i>>) \in made
    BY <2>1 DEF MadeInv, Behind
  <2> QED  BY <1>1, <1>2, <2>2, Constant DEF LeakInv, Holders
<1>4. ASSUME i + 1 = length, stage[i + 1] = "none", NEW q \in Holders(ReadEnd(<<job, i>>)) PROVE FALSE
  <2>1. PICK fd \in Fds : table[q][fd] = ReadEnd(<<job, i>>) /\ q \in Procs
    BY DEF Holders
  <2>2. CASE q = Shell
    <3>1. Behind(<<job, i>>) = <<job, length>>
      BY <1>4 DEF Behind
    <3>2. Behind(<<job, i>>) \notin made
      <4>1. ~(length < length) /\ <<job, length>>[1] = job /\ <<job, length>>[2] = length
        BY <1>1
      <4> QED  BY <3>1, <4>1 DEF MadeInv
    <3> QED  BY <1>1, <1>2, <2>1, <2>2, <3>2 DEF LeakInv
  <2>3. CASE q \in Stages
    <3>1. stage[q] = "run"
      BY <2>1, <2>3, Kinds DEF GoneInv, NoTable
    <3>2. i < q
      BY <2>1, <2>3, <3>1 DEF StageInv, EndsOf
    <3>3. q <= length
      BY <2>3, <3>1 DEF GoneInv
    <3>4. q = i + 1
      BY <1>1, <1>4, <2>3, <3>2, <3>3, Constant
    <3> QED  BY <1>4, <3>1, <3>4
  <2> QED  BY <2>1, <2>2, <2>3, Constant
<1> QED  BY <1>2, <1>3, <1>4

\* The shell waits for ever only for a stage kept from SIGPIPE by the read end that the
\* shell itself did not close.
THEOREM OnlyLeaksHang == Spec => []HangIsLeak
<1>1. IInv => HangIsLeak
  <2> SUFFICES ASSUME IInv, Stuck, ~failed
      PROVE  \E i \in Stages : /\ i + 1 < length
                               /\ Writing(i) /\ stage[i + 1] = "none"
                               /\ Shell \in Holders(ReadEnd(<<job, i>>))
    BY DEF HangIsLeak
  <2> USE DEF IInv
  <2>1. /\ pc = "wait" /\ \A i \in Stages : stage[i] = "none" \/ Blocked(i)
        /\ cmd = length + 1 /\ length \in 2 .. MaxStages
    BY MaxStagesType DEF Stuck, CmdInv
  <2>2. \A i \in Stages : Blocked(i) => stage[i] = "run" /\ (Reading(i) \/ Writing(i))
    BY DEF Blocked, Reading, Writing
  <2>3. \A i \in Stages : stage[i] \in {"none", "run"}
    BY <2>1, <2>2
  <2>4. \A i \in Stages : stage[i] = "run" => Stdin(i) = Front(i) /\ Stdout(i) = Rear(i) /\ Blocked(i)
    BY <2>1 DEF StageInv
  <2>5. ASSUME NEW i \in Stages, Writing(i), Blocked(i)
        PROVE  Piped(i) /\ level[<<job, i>>] = Capacity /\ Holders(ReadEnd(<<job, i>>)) # {}
    <3>1. ~Reading(i)
      BY <2>5, SizeAssumption DEF Reading, Writing
    <3>2. PICK p \in Pipes : Stdout(i) = WriteEnd(p) /\ level[p] = Capacity /\ Holders(ReadEnd(p)) # {}
      BY <2>5, <3>1 DEF Blocked
    <3>3. Rear(i) = WriteEnd(p)
      BY <2>2, <2>4, <2>5, <3>2
    <3> QED  BY <3>2, <3>3, Kinds DEF Rear
  <2>6. ASSUME NEW i \in Stages, ~Writing(i), Blocked(i)
        PROVE  i # 1 /\ level[<<job, i - 1>>] = 0 /\ Holders(WriteEnd(<<job, i - 1>>)) # {}
               /\ <<job, i - 1>> \in Pipes
    <3>1. PICK p \in Pipes : Stdin(i) = ReadEnd(p) /\ level[p] = 0 /\ Holders(WriteEnd(p)) # {}
      BY <2>6 DEF Blocked
    <3>2. Front(i) = ReadEnd(p)
      BY <2>2, <2>4, <2>6, <3>1
    <3> QED  BY <3>1, <3>2, Kinds DEF Front
  <2>7. CASE \E i \in Stages : Blocked(i) /\ Writing(i)
    <3> DEFINE S == {i \in Stages : Blocked(i) /\ Writing(i)}
    <3>1. S \in SUBSET Nat /\ S # {} /\ IsFiniteSet(S)
      <4>1. IsFiniteSet(Stages)
        BY MaxStagesType, FS_Interval DEF Stages
      <4> QED  BY <2>7, <4>1, Constant, FS_Subset
    <3> HIDE DEF S
    <3>2. PICK i \in S : \A l \in S : l <= i
      BY <3>1, GreatestElement
    <3>3. i \in Stages /\ Blocked(i) /\ Writing(i)
      BY DEF S
    <3>4. Piped(i) /\ level[<<job, i>>] = Capacity /\ Holders(ReadEnd(<<job, i>>)) # {}
      BY <2>5, <3>3
    <3>5. i + 1 \in Stages /\ i + 1 <= length
      BY <2>1, <3>3, <3>4, MaxStagesType DEF Stages, Piped
    <3>6. stage[i + 1] = "none"
      <4>1. SUFFICES ASSUME stage[i + 1] # "none" PROVE FALSE
        OBVIOUS
      <4>2. Blocked(i + 1)
        BY <2>1, <3>5, <4>1
      <4>3. ~Writing(i + 1)
        <5>1. i \in Nat /\ ~(i + 1 <= i)
          BY <3>3, Constant
        <5> QED  BY <3>2, <3>5, <4>2, <5>1 DEF S
      <4>4. level[<<job, (i + 1) - 1>>] = 0 /\ (i + 1) - 1 = i
        BY <2>6, <3>3, <3>5, <4>2, <4>3, Constant
      <4> QED  BY <3>4, <4>4, Constant
    <3>7. i + 1 < length /\ Shell \in Holders(ReadEnd(<<job, i>>))
      <4>1. i + 1 # length
        BY <2>1, <2>3, <3>3, <3>4, <3>6, ReadersWhileWaiting
      <4>2. i + 1 < length
        BY <2>1, <3>3, <3>5, <4>1, Constant
      <4> QED  BY <2>1, <2>3, <3>3, <3>4, <4>2, ReadersWhileWaiting
    <3> QED  BY <3>3, <3>6, <3>7
  <2>8. CASE \A i \in Stages : Blocked(i) => ~Writing(i)
    <3> DEFINE S == {i \in Stages : stage[i] = "run"}
    <3>1. S \in SUBSET Nat /\ S # {}
      BY <2>3, Constant DEF Stuck
    <3> HIDE DEF S
    <3>2. PICK i \in S : \A l \in S : i <= l
      BY <3>1, LeastElement
    <3>3. i \in Stages /\ Blocked(i) /\ ~Writing(i)
      BY <2>4, <2>8 DEF S
    <3>4. i # 1 /\ Holders(WriteEnd(<<job, i - 1>>)) # {} /\ <<job, i - 1>> \in Pipes
      BY <2>6, <3>3
    <3>5. i - 1 \in Stages /\ i - 1 < i
      BY <3>3, <3>4, MaxStagesType DEF Stages
    <3>6. PICK q \in Procs, fd \in Fds : table[q][fd] = WriteEnd(<<job, i - 1>>)
      BY <3>4 DEF Holders
    <3>7. q # Shell
      <4>1. KindsInv /\ ~BothEnds
        BY <2>1 DEF ShellInv, BothEnds, Forking
      <4> QED  BY <3>6, <4>1, Constant, Kinds DEF KindsInv
    <3>8. q \in Stages /\ stage[q] = "run"
      BY <2>3, <3>6, <3>7, Constant, Kinds DEF GoneInv, NoTable
    <3>9. <<job, i - 1>> = <<job, q>>
      BY <3>4, <3>6, <3>8 DEF StageInv, EndsOf
    <3>10. q = i - 1 /\ q \in S
      BY <3>8, <3>9 DEF S
    <3> QED  BY <3>2, <3>3, <3>5, <3>10, Constant
  <2> QED  BY <2>7, <2>8
<1> QED  BY Invariance, <1>1, PTL
--------------------------------------------------------------------------------
(***************************************************************************)
(* Pipeline implements StagedFlow, for any pipelines, descriptors and      *)
(* capacity: the initial state maps to the initial state, and each step,   *)
(* from a state that satisfies the inductive invariants, to one step or    *)
(* none.  Beyond IInv the mapping needs that a pipe which was never made   *)
(* is held by nobody and empty, and that a stage has nothing in hand       *)
(* before it runs (FlowInv).                                               *)
(***************************************************************************)
HeldMade == \A q \in Procs, fd \in Fds : \A p \in Pipes :
                table[q][fd] \in {ReadEnd(p), WriteEnd(p)} => p \in made
EmptyInv == \A p \in Pipes \ made : level[p] = 0
HandInv  == \A i \in Stages : inHand[i] => stage[i] \in {"run", "end"}
PromptInv == pc = "prompt" => cmd \notin 1 .. length

FlowInv == HeldMade /\ EmptyInv /\ HandInv /\ PromptInv
--------------------------------------------------------------------------------
LEMMA StageKeepsHeld ==
    ASSUME IInv, HeldMade, NEW i \in Stages, Stage(i)
    PROVE  HeldMade'
<1> SUFFICES ASSUME NEW q \in Procs, NEW fd \in Fds, NEW p \in Pipes,
                    table'[q][fd] \in {ReadEnd(p), WriteEnd(p)}
    PROVE  p \in made'
  BY DEF HeldMade
<1>1. made' = made
  BY DEF Stage, ConnectStdin, ConnectStdout, Read, EndOfFile, Write, BrokenPipe, Finish, kernel
<1>2. \E x \in Fds : table'[q][fd] \in {Closed, table[q][x]}
  <2>1. table \in [Procs -> [Fds -> Files]] /\ 0 \in Fds /\ 1 \in Fds /\ i \in Procs
    BY Constant DEF IInv, TypeOK
  <2>2. CASE ConnectStdin(i)
    BY <2>1, <2>2 DEF ConnectStdin, Close, Dup2
  <2>3. CASE ConnectStdout(i)
    BY <2>1, <2>3 DEF ConnectStdout, Close, Dup2
  <2>4. CASE Finish(i)
    BY <2>1, <2>4 DEF Finish, NoTable
  <2>5. CASE Read(i) \/ EndOfFile(i) \/ Write(i) \/ BrokenPipe(i)
    BY <2>5 DEF Read, EndOfFile, Write, BrokenPipe, kernel
  <2> QED  BY <2>2, <2>3, <2>4, <2>5 DEF Stage
<1>3. \E x \in Fds : table[q][x] \in {ReadEnd(p), WriteEnd(p)}
  BY <1>2, Kinds
<1> QED  BY <1>1, <1>3 DEF HeldMade

LEMMA ShellKeepsHeld ==
    ASSUME IInv, HeldMade, Enter \/ Quit \/ ForkFails \/ ShellStep
    PROVE  HeldMade'
<1> SUFFICES ASSUME NEW q \in Procs, NEW fd \in Fds, NEW p \in Pipes,
                    table'[q][fd] \in {ReadEnd(p), WriteEnd(p)}
    PROVE  p \in made'
  BY DEF HeldMade
<1>0. table \in [Procs -> [Fds -> Files]] /\ Shell \in Procs
  BY Constant DEF IInv, TypeOK
<1>1. CASE MakePipe
  <2> DEFINE rd == Min({x \in Fds : table[Shell][x] = Closed})
             wr == Min({x \in Fds : table[Shell][x] = Closed} \ {rd})
  <2>1. /\ made' = made \cup {<<job, cmd>>}
        /\ table' = [table EXCEPT ![Shell][rd] = ReadEnd(<<job, cmd>>), ![Shell][wr] = WriteEnd(<<job, cmd>>)]
    BY <1>1 DEF MakePipe
  <2> HIDE DEF rd, wr
  <2>2. table'[q][fd] \in {table[q][fd], ReadEnd(<<job, cmd>>), WriteEnd(<<job, cmd>>)}
    BY <1>0, <2>1
  <2> QED  BY <2>1, <2>2, Kinds DEF HeldMade
<1>2. CASE ~MakePipe
  <2>1. made' = made
    BY <1>2 DEF Enter, Quit, ForkFails, ShellStep, PipeFails, LastStage, Fork, Parent, CloseLast,
       Reap, WaitedForAll, kernel
  <2>2. table'[q][fd] \in {Closed, table[q][fd], table[Shell][fd]}
    BY <1>0, <1>2 DEF Enter, Quit, ForkFails, ShellStep, PipeFails, LastStage, Fork, Parent, CloseLast,
       Reap, WaitedForAll, kernel, Close, NoTable
  <2>3. table[q][fd] \in {ReadEnd(p), WriteEnd(p)} \/ table[Shell][fd] \in {ReadEnd(p), WriteEnd(p)}
    BY <2>2, Kinds
  <2> QED  BY <1>0, <2>1, <2>3 DEF HeldMade
<1> QED  BY <1>1, <1>2

LEMMA FlowStep == ASSUME IInv, FlowInv, [Next]_vars PROVE FlowInv'
<1> USE DEF IInv, FlowInv
<1>1. HeldMade'
  <2>1. CASE UNCHANGED vars
    BY <2>1 DEF HeldMade, vars, kernel
  <2> QED  BY <2>1, StageKeepsHeld, ShellKeepsHeld DEF Next, Exited
<1>2. EmptyInv'
  <2>1. ASSUME NEW i \in Stages, Read(i) \/ Write(i) PROVE EmptyInv'
    <3>1. made' = made /\ level \in [Pipes -> 0 .. Capacity]
      BY <2>1 DEF Read, Write, TypeOK
    <3>2. level' = level \/ \E p \in made, n \in Int : level' = [level EXCEPT ![p] = n]
      <4>1. 0 \in Fds /\ 1 \in Fds /\ i \in Procs
        BY Constant
      <4>2. \A p \in Pipes : table[i][0] = ReadEnd(p) \/ table[i][1] = WriteEnd(p) => p \in made
        BY <4>1 DEF HeldMade
      <4>3. \A p \in Pipes : level[p] - 1 \in Int /\ level[p] + 1 \in Int
        BY <3>1, Constant
      <4>4. CASE Read(i) /\ level' # level
        <5>1. PICK p \in Pipes : Stdin(i) = ReadEnd(p) /\ level' = [level EXCEPT ![p] = @ - 1]
          BY <4>4 DEF Read
        <5>2. p \in made /\ level' = [level EXCEPT ![p] = level[p] - 1]
          BY <3>1, <4>2, <5>1 DEF Stdin
        <5> QED  BY <4>3, <5>1, <5>2
      <4>5. CASE Write(i) /\ level' # level
        <5>1. PICK p \in Pipes : Stdout(i) = WriteEnd(p) /\ level' = [level EXCEPT ![p] = @ + 1]
          BY <4>5 DEF Write
        <5>2. p \in made /\ level' = [level EXCEPT ![p] = level[p] + 1]
          BY <3>1, <4>2, <5>1 DEF Stdout
        <5> QED  BY <4>3, <5>1, <5>2
      <4> QED  BY <2>1, <4>4, <4>5
    <3> QED  BY <3>1, <3>2 DEF EmptyInv
  <2>2. CASE level' = level /\ made \subseteq made'
    BY <2>2 DEF EmptyInv
  <2>3. \/ \E i \in Stages : Read(i) \/ Write(i)
        \/ level' = level /\ made \subseteq made'
    BY DEF Next, Exited, vars, kernel, Enter, Quit, ForkFails, ShellStep, MakePipe, PipeFails, LastStage,
       Fork, Parent, CloseLast, Reap, WaitedForAll, Stage, ConnectStdin, ConnectStdout, EndOfFile,
       BrokenPipe, Finish
  <2> QED  BY <2>1, <2>2, <2>3
<1>3. HandInv'
  <2>1. ASSUME NEW i \in Stages, Stage(i) PROVE HandInv'
    <3>1. /\ stage \in [Stages -> {"none", "stdin", "stdout", "run", "end", "zombie"}]
          /\ inHand \in [Stages -> BOOLEAN]
      BY DEF TypeOK
    <3>2. CASE ConnectStdin(i) \/ ConnectStdout(i)
      BY <3>1, <3>2 DEF ConnectStdin, ConnectStdout, HandInv
    <3>3. CASE Read(i) \/ EndOfFile(i) \/ Write(i) \/ BrokenPipe(i)
      BY <3>1, <3>3 DEF Read, EndOfFile, Write, BrokenPipe, Goto, Reading, Writing, HandInv
    <3>4. CASE Finish(i)
      BY <3>1, <3>4 DEF Finish, Goto, HandInv
    <3> QED  BY <2>1, <3>2, <3>3, <3>4 DEF Stage
  <2>2. CASE Fork
    <3>1. cmd \in Stages /\ stage[cmd] = "none"
      <4>1. cmd \in 1 .. length /\ length \in 2 .. MaxStages /\ pc = "fork"
        BY <2>2, MaxStagesType DEF Fork, CmdInv
      <4>2. cmd \in Stages
        BY <4>1, MaxStagesType DEF Stages
      <4> QED  BY <4>1, <4>2 DEF GoneInv
    <3>2. ~inHand[cmd]
      BY <3>1 DEF HandInv
    <3> QED  BY <2>2, <3>1, <3>2 DEF Fork, HandInv, TypeOK
  <2>3. CASE Reap
    BY <2>3 DEF Reap, HandInv, TypeOK
  <2>4. CASE UNCHANGED <<stage, inHand>>
    BY <2>4 DEF HandInv
  <2>5. (\E i \in Stages : Stage(i)) \/ Fork \/ Reap \/ UNCHANGED <<stage, inHand>>
    BY DEF Next, Exited, vars, stageVars, Enter, Quit, ForkFails, ShellStep, MakePipe, PipeFails, LastStage,
       Parent, CloseLast, WaitedForAll
  <2> QED  BY <2>1, <2>2, <2>3, <2>4, <2>5
<1>4. PromptInv'
  <2>1. pc' = "prompt" => (WaitedForAll \/ UNCHANGED <<pc, cmd, length>>)
    BY DEF Next, Exited, vars, shellVars, Enter, Quit, ForkFails, ShellStep, MakePipe, PipeFails, LastStage,
       Fork, Parent, CloseLast, Reap, Stage, ConnectStdin, ConnectStdout, Read, EndOfFile, Write,
       BrokenPipe, Finish
  <2>2. CASE WaitedForAll
    <3>1. cmd = length + 1 /\ length \in 2 .. MaxStages /\ UNCHANGED <<cmd, length>>
      BY <2>2, MaxStagesType DEF WaitedForAll, CmdInv
    <3> QED  BY <3>1 DEF PromptInv
  <2> QED  BY <2>1, <2>2 DEF PromptInv
<1> QED  BY <1>1, <1>2, <1>3, <1>4

LEMMA FlowInvariance == Spec => [](IInv /\ FlowInv)
<1>1. Init => FlowInv
  <2> SUFFICES ASSUME Init PROVE FlowInv
    OBVIOUS
  <2>1. \A q \in Procs, fd \in Fds : table[q][fd] \in {Tty, Closed}
    BY DEF Init
  <2>2. HeldMade
    BY <2>1, Kinds DEF HeldMade
  <2> QED  BY <2>2 DEF Init, FlowInv, EmptyInv, HandInv, PromptInv
<1> QED  BY InitIInv, Invariance, <1>1, FlowStep, PTL DEF Spec
--------------------------------------------------------------------------------
(***************************************************************************)
(* Who holds the ends of a pipe while there is a pipeline.                 *)
(***************************************************************************)
\* A stage that lives holds the write end behind it,
LEMMA LiveHoldsRear ==
    ASSUME IInv, NEW i \in Stages, Live(i), Piped(i)
    PROVE  i \in Holders(WriteEnd(<<job, i>>))
<1>1. ~failed /\ stage[i] \in {"stdin", "stdout", "run"}
  BY DEF Live, NoPipeline
<1>2. \E fd \in Fds : table[i][fd] = WriteEnd(<<job, i>>)
  <2>1. CASE stage[i] \in {"stdin", "stdout"}
    BY <1>1, <2>1, Constant DEF IInv, StageInv, OwnPipe
  <2>2. CASE stage[i] = "run"
    BY <1>1, <2>2, Constant DEF IInv, StageInv, Rear, Stdout
  <2> QED  BY <1>1, <2>1, <2>2
<1> QED  BY <1>2, Constant DEF Holders

\* and the read end in front of it,
LEMMA LiveHoldsFront ==
    ASSUME IInv, NEW i \in Stages, Live(i), i # 1
    PROVE  i \in Holders(ReadEnd(<<job, i - 1>>))
<1>1. ~failed /\ stage[i] \in {"stdin", "stdout", "run"}
  BY DEF Live, NoPipeline
<1>2. \E fd \in Fds : table[i][fd] = ReadEnd(<<job, i - 1>>)
  <2>1. CASE stage[i] = "stdin"
    BY <1>1, <2>1, Constant DEF IInv, StageInv, Front
  <2>2. CASE stage[i] \in {"stdout", "run"}
    BY <1>1, <2>2, Constant DEF IInv, StageInv, Front, Stdin
  <2> QED  BY <1>1, <2>1, <2>2
<1> QED  BY <1>2, Constant DEF Holders

\* and the read end in front of a stage that is yet to be forked is the shell's.
LEMMA ShellHoldsUnborn ==
    ASSUME IInv, ~NoPipeline, pc # "exited", NEW i \in Stages, i < length,
           stage[i] # "none", ~Forked(i + 1)
    PROVE  Shell \in Holders(ReadEnd(<<job, i>>))
<1> USE DEF IInv
<1>1. i < cmd \/ (i = cmd /\ pc = "parent")
  BY DEF GoneInv
<1>2. length \in 2 .. MaxStages /\ cmd \in Nat /\ i \in Nat /\ ~failed /\ pc # "prompt"
  BY Constant, MaxStagesType DEF NoPipeline, TypeOK, CmdInv
<1>3. ~(i + 1 < cmd) /\ ~(i + 1 = cmd /\ pc = "parent")
  BY DEF Forked
<1>4. pc \in {"pipe", "fork", "parent"} /\ Busy
  BY <1>1, <1>2, <1>3 DEF TypeOK, CmdInv, Busy
<1>5. <<job, i>> \in made
  BY <1>1, <1>2, <1>4 DEF MadeInv, Piped, Forking
<1>6. LeakInv /\ FrameInv
  BY <1>4 DEF ShellInv
<1>7. CASE Behind(<<job, i>>) \in made
  BY <1>5, <1>6, <1>7, Constant DEF LeakInv, Holders
<1>8. CASE Behind(<<job, i>>) \notin made
  <2>1. table[Shell][frame[Shell].rd] = ReadEnd(<<job, i>>)
    BY <1>4, <1>5, <1>6, <1>8 DEF LeakInv
  <2>2. cmd > 1 \/ Forking
    BY <1>1, <1>2, Constant DEF Forking, Stages
  <2>3. frame[Shell].rd \in Fds
    BY <1>4, <1>6, <2>2, Constant DEF FrameInv, MadeInv
  <2> QED  BY <2>1, <2>3, Constant DEF Holders
<1> QED  BY <1>7, <1>8
--------------------------------------------------------------------------------
(***************************************************************************)
(* The steps.                                                              *)
(***************************************************************************)
flowVars == <<FlowLength, FlowPhase, FlowProg, FlowInHand, FlowLevel>>

\* Without a pipeline, nothing can be seen.
LEMMA NothingThere ==
    ASSUME NoPipeline
    PROVE  /\ FlowLength = 0
           /\ FlowPhase  = [i \in Stages |-> "unborn"]
           /\ FlowProg   = [i \in Stages |-> "none"]
           /\ FlowInHand = [i \in Stages |-> FALSE]
           /\ FlowLevel  = [i \in Stages |-> 0]
BY DEF FlowLength, FlowPhase, FlowProg, FlowInHand, FlowLevel, Live

LEMMA NothingThereNext ==
    ASSUME NoPipeline'
    PROVE  /\ FlowLength' = 0
           /\ FlowPhase'  = [i \in Stages |-> "unborn"]
           /\ FlowProg'   = [i \in Stages |-> "none"]
           /\ FlowInHand' = [i \in Stages |-> FALSE]
           /\ FlowLevel'  = [i \in Stages |-> 0]
BY DEF FlowLength, FlowPhase, FlowProg, FlowInHand, FlowLevel, Live

\* A step that takes no stage in or out of those that live, or of those forked, and that
\* nothing flows in, cannot be seen either.
LEMMA Unseen ==
    ASSUME UNCHANGED <<job, length, level, failed>>, NoPipeline' <=> NoPipeline,
           pc' = "exited" <=> pc = "exited",
           \A i \in Stages : /\ Live(i)' <=> Live(i)
                             /\ Live(i) => prog'[i] = prog[i] /\ inHand'[i] = inHand[i]
                             /\ Forked(i)' <=> Forked(i)
    PROVE  UNCHANGED flowVars
<1>1. FlowLength' = FlowLength /\ FlowLevel' = FlowLevel
  BY DEF FlowLength, FlowLevel
<1>2. FlowPhase' = FlowPhase
  BY DEF FlowPhase
<1>3. FlowProg' = FlowProg /\ FlowInHand' = FlowInHand
  BY DEF FlowProg, FlowInHand
<1> QED  BY <1>1, <1>2, <1>3 DEF flowVars

LEMMA InitFlow == Init => Flow!Init
BY NothingThere DEF Init, NoPipeline, Flow!Init, Flow!Idle, Flow!Stages, Stages

LEMMA ShellFlows ==
    ASSUME IInv, FlowInv, Enter \/ Quit \/ ForkFails \/ ShellStep
    PROVE  Flow!Next \/ UNCHANGED flowVars
<1> USE DEF IInv, FlowInv, kernel, stageVars, shellVars
<1>0. Flow!Stages = Stages
  BY DEF Flow!Stages, Stages
<1>1. CASE Enter
  <2>1. PICK n \in Lengths :
         /\ pc = "prompt" /\ pc' = "pipe" /\ job' = job + 1 /\ length' = n /\ cmd' = 1 /\ failed' = FALSE
         /\ UNCHANGED <<made, level, stage, prog, inHand>>
    BY <1>1 DEF Enter
  <2>2. NoPipeline /\ ~NoPipeline' /\ \A i \in Stages : stage[i] = "none"
    BY <2>1 DEF NoPipeline, GoneInv
  <2>3. \A i \in Stages : ~Live(i)' /\ ~Forked(i)' /\ pc' # "exited"
    <3>1. \A i \in Stages : ~(i < 1)
      BY DEF Stages
    <3> QED  BY <2>1, <2>2, <3>1 DEF Live, Forked
  <2>4. FlowPhase' = FlowPhase /\ FlowProg' = FlowProg /\ FlowInHand' = FlowInHand
    BY <2>2, <2>3, NothingThere DEF FlowPhase, FlowProg, FlowInHand
  <2>5. FlowLevel' = FlowLevel
    <3>1. ASSUME NEW i \in Stages, ~(i >= length') PROVE level'[<<job', i>>] = 0
      <4>1. n \in 2 .. MaxStages /\ job + 1 \in 1 .. Jobs
        BY <1>1, <2>1, MaxStagesType, Constant DEF Enter, TypeOK
      <4>2. <<job + 1, i>> \in Pipes
        BY <2>1, <3>1, <4>1, PipePairs, Constant, MaxStagesType DEF Stages
      <4>3. <<job + 1, i>> \notin made
        <5>1. \A p \in made : p[1] <= job
          BY DEF MadeInv
        <5>2. ~(job + 1 <= job)
          BY DEF TypeOK
        <5> QED  BY <5>1, <5>2
      <4> QED  BY <2>1, <4>2, <4>3 DEF EmptyInv
    <3> QED  BY <2>2, <3>1, NothingThere DEF FlowLevel
  <2>6. FlowLength = 0 /\ FlowLength' \in Lengths
    BY <2>1, <2>2 DEF FlowLength
  <2> QED  BY <2>4, <2>5, <2>6 DEF Flow!Begin, Flow!Next
<1>2. CASE Quit
  <2>1. NoPipeline /\ NoPipeline'
    BY <1>2 DEF Quit, NoPipeline, PromptInv
  <2> QED  BY <2>1, NothingThere, NothingThereNext DEF flowVars
<1>3. CASE failed /\ ~Enter
  <2>1. failed'
    BY <1>3 DEF Quit, ForkFails, ShellStep, MakePipe, PipeFails, LastStage, Fork, Parent, CloseLast,
       Reap, WaitedForAll
  <2>2. NoPipeline /\ NoPipeline'
    BY <1>3, <2>1 DEF NoPipeline
  <2> QED  BY <2>2, NothingThere, NothingThereNext DEF flowVars
<1>4. CASE ForkFails /\ ~failed
  <2>1. /\ pc = "fork" /\ pc' = "exited" /\ UNCHANGED <<job, length, cmd, level, stage, prog, inHand, failed>>
        /\ cmd \in 1 .. length /\ length \in 2 .. MaxStages
    BY <1>4, MaxStagesType DEF ForkFails, CmdInv
  <2>2. ~NoPipeline /\ ~NoPipeline'
    BY <1>4, <2>1 DEF NoPipeline
  <2>3. \A i \in Stages : (Live(i)' <=> Live(i))
    BY <2>1, <2>2 DEF Live
  <2>4. FlowLength' = FlowLength /\ FlowLength = length /\ FlowProg' = FlowProg
        /\ FlowInHand' = FlowInHand /\ FlowLevel' = FlowLevel
    BY <2>1, <2>2, <2>3 DEF FlowLength, FlowProg, FlowInHand, FlowLevel
  <2>5. cmd \in Stages /\ FlowPhase[cmd] = "unborn"
    <3>1. cmd \in Stages
      BY <2>1, MaxStagesType DEF Stages
    <3>2. ~Live(cmd) /\ ~Forked(cmd)
      BY <2>1, <3>1 DEF Live, Forked, GoneInv
    <3> QED  BY <2>1, <3>1, <3>2 DEF FlowPhase
  <2>6. FlowPhase' = [i \in Stages |-> IF i <= FlowLength /\ FlowPhase[i] = "unborn" THEN "ended" ELSE FlowPhase[i]]
    BY <2>1, <2>2, <2>3, <2>4 DEF FlowPhase
  <2>7. cmd \in 1 .. FlowLength
    BY <2>1, <2>4
  <2>8. Flow!Cut
    BY <1>0, <2>4, <2>5, <2>6, <2>7 DEF Flow!Cut
  <2> QED  BY <2>8 DEF Flow!Next
<1>5. CASE PipeFails /\ ~failed
  <2>1. /\ pc = "pipe" /\ failed' = TRUE /\ cmd \in 1 .. length /\ length \in 2 .. MaxStages
    BY <1>5, MaxStagesType DEF PipeFails, CmdInv
  <2>2. ~NoPipeline /\ NoPipeline'
    BY <1>5, <2>1 DEF NoPipeline
  <2>3. cmd \in Stages /\ FlowPhase[cmd] = "unborn"
    <3>1. cmd \in Stages
      BY <2>1, MaxStagesType DEF Stages
    <3>2. ~Live(cmd) /\ ~Forked(cmd)
      BY <2>1, <3>1 DEF Live, Forked, GoneInv
    <3> QED  BY <2>1, <3>1, <3>2 DEF FlowPhase
  <2>4. cmd \in 1 .. FlowLength
    BY <2>1, <2>2 DEF FlowLength
  <2>5. Flow!Abandon
    BY <1>0, <2>2, <2>3, <2>4, NothingThereNext DEF Flow!Abandon, Flow!Idle
  <2> QED  BY <2>5 DEF Flow!Next
<1>6. CASE WaitedForAll /\ ~failed
  <2>1. /\ pc = "wait" /\ pc' = "prompt" /\ cmd = length + 1 /\ length \in 2 .. MaxStages
        /\ \A i \in Stages : stage[i] = "none"
    BY <1>6, MaxStagesType DEF WaitedForAll, CmdInv
  <2>2. ~NoPipeline /\ NoPipeline'
    BY <1>6, <2>1 DEF NoPipeline
  <2>3. FlowLength = length
    BY <2>2 DEF FlowLength
  <2>4. ASSUME NEW i \in 1 .. FlowLength PROVE FlowPhase[i] = "ended"
    <3>1. i \in Stages /\ i <= length /\ i < cmd
      BY <2>1, <2>3, MaxStagesType DEF Stages
    <3> QED  BY <2>1, <2>2, <3>1 DEF FlowPhase, Live, Forked
  <2>5. Flow!Return
    BY <1>0, <2>1, <2>2, <2>3, <2>4, NothingThereNext DEF Flow!Return, Flow!Idle
  <2> QED  BY <2>5 DEF Flow!Next
<1>7. CASE Fork /\ ~failed
  <2>1. PICK program \in Programs :
           /\ pc = "fork" /\ pc' = "parent"
           /\ stage' = [stage EXCEPT ![cmd] = "stdin"]
           /\ prog'  = [prog EXCEPT ![cmd] = program]
           /\ UNCHANGED <<job, length, cmd, level, inHand, failed>>
    BY <1>7 DEF Fork
  <2>2. cmd \in 1 .. length /\ length \in 2 .. MaxStages /\ cmd \in Stages
    <3>1. cmd \in 1 .. length /\ length \in 2 .. MaxStages
      BY <2>1, MaxStagesType DEF CmdInv
    <3> QED  BY <3>1, MaxStagesType DEF Stages
  <2>3. ~NoPipeline /\ ~NoPipeline'
    BY <1>7, <2>1 DEF NoPipeline
  <2>4. stage[cmd] = "none" /\ ~inHand[cmd] /\ ~Live(cmd) /\ ~Forked(cmd)
    BY <2>1, <2>2 DEF GoneInv, HandInv, Live, Forked
  <2>5. \A i \in Stages : /\ Live(i)' <=> (i = cmd \/ Live(i))
                          /\ prog'[i] = IF i = cmd THEN program ELSE prog[i]
                          /\ Forked(i)' <=> (i = cmd \/ Forked(i))
    BY <2>1, <2>2, <2>3 DEF Live, Forked, TypeOK
  <2>6. FlowLength' = FlowLength /\ FlowLength = length /\ FlowLevel' = FlowLevel
    BY <2>1, <2>3 DEF FlowLength, FlowLevel
  <2>7. FlowInHand' = FlowInHand
    BY <2>1, <2>4, <2>5 DEF FlowInHand
  <2>8. FlowProg' = [FlowProg EXCEPT ![cmd] = program]
    BY <2>2, <2>5 DEF FlowProg
  <2>9. FlowPhase[cmd] = "unborn" /\ FlowPhase' = [FlowPhase EXCEPT ![cmd] = "running"]
    BY <2>1, <2>2, <2>3, <2>4, <2>5 DEF FlowPhase
  <2>10. \A k \in 1 .. cmd - 1 : FlowPhase[k] # "unborn"
    <3>1. \A k \in 1 .. cmd - 1 : k \in Stages /\ k <= length /\ k < cmd
      BY <2>2, MaxStagesType DEF Stages
    <3> QED  BY <2>3, <3>1 DEF FlowPhase, Forked
  <2>11. Flow!Start(cmd)
    <3>1. cmd <= FlowLength
      BY <2>2, <2>6
    <3>2. UNCHANGED <<FlowLength, FlowInHand, FlowLevel>>
      BY <2>6, <2>7
    <3> QED  BY ONLY <2>8, <2>9, <2>10, <3>1, <3>2, program \in Programs, Zenon DEF Flow!Start
  <2> QED  BY <1>0, <2>2, <2>11 DEF Flow!Next
<1>8. CASE ~failed /\ (MakePipe \/ LastStage \/ Parent \/ CloseLast \/ Reap)
  <2>1. UNCHANGED <<job, length, level, failed, inHand>> /\ pc # "prompt" /\ pc # "exited"
        /\ pc' # "prompt" /\ pc' # "exited"
    BY <1>8 DEF MakePipe, LastStage, Parent, CloseLast, Reap
  <2>2. ~NoPipeline /\ ~NoPipeline'
    BY <1>8, <2>1 DEF NoPipeline
  <2>3. \A i \in Stages : (Live(i)' <=> Live(i)) /\ (Live(i) => prog'[i] = prog[i])
    <3>1. CASE Reap
      BY <2>2, <3>1 DEF Reap, Live, TypeOK
    <3>2. CASE ~Reap
      BY <1>8, <2>2, <3>2 DEF MakePipe, LastStage, Parent, CloseLast, Live
    <3> QED  BY <3>1, <3>2
  <2>4. \A i \in Stages : (Forked(i)' <=> Forked(i))
    <3>1. CASE Parent
      <4>1. cmd \in Nat /\ pc = "parent" /\ cmd' = cmd + 1 /\ pc' # "parent"
        BY <3>1 DEF Parent, TypeOK
      <4>2. \A i \in Stages : i < cmd + 1 <=> (i < cmd \/ i = cmd)
        BY <4>1, Constant
      <4> QED  BY <4>1, <4>2 DEF Forked
    <3>2. CASE ~Parent
      BY <1>8, <3>2 DEF MakePipe, LastStage, CloseLast, Reap, Forked
    <3> QED  BY <3>1, <3>2
  <2> QED  BY <2>1, <2>2, <2>3, <2>4, Unseen
<1> QED  BY <1>1, <1>2, <1>3, <1>4, <1>5, <1>6, <1>7, <1>8 DEF ShellStep

\* A stage that ends: StagedFlow's End, given what flows.
LEMMA StageEnds ==
    ASSUME NEW i \in Stages, Live(i), ~NoPipeline, i <= length, i < cmd \/ (i = cmd /\ pc = "parent"),
           UNCHANGED <<shellVars, prog, failed>>,
           stage' = [stage EXCEPT ![i] = "end"], DOMAIN stage = Stages,
           \A k \in Stages \ {i} : inHand'[k] = inHand[k]
    PROVE  Flow!End(i)
<1>1. ~NoPipeline' /\ \A k \in Stages : Forked(k)' <=> Forked(k)
  BY DEF NoPipeline, Forked, shellVars
<1>2. \A k \in Stages : /\ Live(k)' <=> (k # i /\ Live(k))
                        /\ k # i => inHand'[k] = inHand[k]
  BY <1>1 DEF Live
<1>3. Forked(i)
  BY DEF Forked
<1>4. FlowPhase' = [FlowPhase EXCEPT ![i] = "ended"]
  BY <1>1, <1>2, <1>3 DEF FlowPhase, shellVars
<1>5. FlowProg' = [FlowProg EXCEPT ![i] = "none"]
  BY <1>2 DEF FlowProg
<1>6. FlowInHand' = [FlowInHand EXCEPT ![i] = FALSE]
  BY <1>2 DEF FlowInHand
<1>7. FlowLength' = FlowLength
  BY <1>1 DEF FlowLength, shellVars
<1> QED  BY <1>4, <1>5, <1>6, <1>7 DEF Flow!End

LEMMA StageFlows ==
    ASSUME IInv, FlowInv, NEW i \in Stages, Stage(i)
    PROVE  Flow!Next \/ UNCHANGED flowVars
<1> USE DEF IInv, FlowInv, kernel
<1>0. /\ Flow!Stages = Stages /\ DOMAIN stage = Stages
      /\ UNCHANGED <<shellVars, failed, made>> /\ UNCHANGED <<pc, job, length, cmd>>
      /\ \A k \in Stages : k # i => stage'[k] = stage[k] /\ inHand'[k] = inHand[k]
      /\ prog' = prog
  BY DEF Flow!Stages, Stages, TypeOK, Stage, ConnectStdin, ConnectStdout, Read, EndOfFile, Write,
     BrokenPipe, Finish, Goto, shellVars
<1>1. CASE NoPipeline
  <2>1. NoPipeline'
    BY <1>0, <1>1 DEF NoPipeline
  <2> QED  BY <1>1, <2>1, NothingThere, NothingThereNext DEF flowVars
<1>2. CASE ~NoPipeline /\ (Live(i)' <=> Live(i)) /\ inHand'[i] = inHand[i] /\ level' = level
  <2>1. NoPipeline' <=> NoPipeline
    BY <1>0 DEF NoPipeline
  <2>2. \A k \in Stages : (Live(k)' <=> Live(k)) /\ (Forked(k)' <=> Forked(k)) /\ inHand'[k] = inHand[k]
    BY <1>0, <1>2, <2>1 DEF Live, Forked
  <2> QED  BY <1>0, <1>2, <2>1, <2>2, Unseen
<1>3. CASE ~NoPipeline /\ (ConnectStdin(i) \/ Finish(i))
  <2>1. (Live(i)' <=> Live(i)) /\ (Live(i) => inHand'[i] = inHand[i]) /\ level' = level
    BY <1>0, <1>3 DEF ConnectStdin, Finish, Goto, Live, NoPipeline
  <2>2. NoPipeline' <=> NoPipeline
    BY <1>0 DEF NoPipeline
  <2>3. \A k \in Stages : /\ (Live(k)' <=> Live(k)) /\ (Forked(k)' <=> Forked(k))
                          /\ Live(k) => inHand'[k] = inHand[k]
    BY <1>0, <2>1, <2>2 DEF Live, Forked
  <2> QED  BY <1>0, <2>1, <2>2, <2>3, Unseen
<1>4. ASSUME ~NoPipeline, stage[i] \in {"stdin", "stdout", "run"}
      PROVE  /\ Live(i) /\ FlowPhase[i] = "running" /\ FlowProg[i] = prog[i] /\ FlowLength = length
             /\ i <= length /\ (i < cmd \/ (i = cmd /\ pc = "parent")) /\ ~failed
             /\ FlowInHand[i] <=> inHand[i]
  BY <1>4 DEF Live, FlowPhase, FlowProg, FlowInHand, FlowLength, GoneInv, NoPipeline
<1>5. CASE ~NoPipeline /\ ConnectStdout(i)
  <2>1. /\ stage[i] = "stdout" /\ UNCHANGED <<level, inHand>>
        /\ stage' = [stage EXCEPT ![i] = IF prog[i] = "missing" THEN "end" ELSE "run"]
    BY <1>5 DEF ConnectStdout
  <2>2. CASE prog[i] = "missing"
    <3>1. Flow!End(i)
      BY <1>0, <1>4, <1>5, <2>1, <2>2, StageEnds
    <3>2. FlowLevel' = FlowLevel
      BY <1>0, <2>1 DEF FlowLevel, NoPipeline
    <3>3. Flow!NoProgram(i)
      BY <1>4, <1>5, <2>1, <2>2, <3>1, <3>2 DEF Flow!NoProgram
    <3> QED  BY <1>0, <3>3 DEF Flow!Next
  <2>3. CASE prog[i] # "missing"
    <3>1. ~NoPipeline'
      BY <1>0, <1>5 DEF NoPipeline
    <3>2. Live(i)' /\ Live(i)
      BY <1>0, <1>4, <1>5, <2>1, <2>3, <3>1 DEF Live
    <3> QED  BY <1>2, <1>5, <2>1, <3>2
  <2> QED  BY <2>2, <2>3
<1>6. ASSUME ~NoPipeline, Reading(i) \/ Writing(i)
      PROVE  /\ stage[i] = "run" /\ Stdin(i) = Front(i) /\ Stdout(i) = Rear(i)
             /\ Reading(i) => Flow!Taking(i)
             /\ Writing(i) => Flow!Making(i)
  <2>1. stage[i] = "run"
    BY <1>6 DEF Reading, Writing
  <2>2. Stdin(i) = Front(i) /\ Stdout(i) = Rear(i)
    BY <1>4, <1>6, <2>1 DEF StageInv
  <2>3. (Reading(i) => Flow!Taking(i)) /\ (Writing(i) => Flow!Making(i))
    BY <1>4, <1>6, <2>1 DEF Flow!Taking, Flow!Making, Reading, Writing
  <2> QED  BY <2>1, <2>2, <2>3
<1>7. ASSUME ~NoPipeline, i # 1, i <= length
      PROVE  /\ i - 1 \in Stages /\ i - 1 < length /\ Piped(i - 1) /\ i > 1
             /\ FlowLevel[i - 1] = level[<<job, i - 1>>]
  <2>1. i - 1 \in Stages /\ i - 1 < length /\ i > 1
    <3>1. length \in Nat /\ i \in Nat
      BY MaxStagesType, Constant DEF TypeOK
    <3> QED  BY <1>7, <3>1, MaxStagesType DEF Stages
  <2>2. ~(i - 1 >= length)
    BY <2>1, MaxStagesType, Constant DEF TypeOK
  <2> QED  BY <1>7, <2>1, <2>2 DEF FlowLevel, Piped
<1>8. ASSUME ~NoPipeline, Piped(i)
      PROVE  FlowLevel[i] = level[<<job, i>>] /\ i # length /\ i < length
  <2>1. i < length /\ ~(i >= length) /\ i # length
    BY <1>8, MaxStagesType, Constant DEF TypeOK, Piped
  <2> QED  BY <1>8, <2>1 DEF FlowLevel
<1>9. level \in [Pipes -> 0 .. Capacity]
  BY DEF TypeOK
<1>10. ASSUME ~NoPipeline, NEW k \in Stages, k < length, <<job, k>> \in Pipes, NEW n,
              level' = [level EXCEPT ![<<job, k>>] = n]
       PROVE  FlowLevel' = [FlowLevel EXCEPT ![k] = n]
  <2>1. ~NoPipeline'
    BY <1>0, <1>10 DEF NoPipeline
  <2>2. ~(k >= length)
    BY <1>10, MaxStagesType, Constant DEF TypeOK
  <2>3. \A l \in Stages : l < length => <<job, l>> \in Pipes
    BY <1>10, PipePairs, MaxStagesType, Constant DEF TypeOK
  <2>4. \A l \in Stages : ~(l >= length) =>
            level'[<<job, l>>] = IF l = k THEN n ELSE level[<<job, l>>]
    <3>1. \A l \in Stages : ~(l >= length) => l < length
      BY MaxStagesType, Constant DEF TypeOK
    <3> QED  BY <1>9, <1>10, <2>3, <3>1
  <2> QED  BY <1>0, <1>10, <2>1, <2>2, <2>4 DEF FlowLevel
<1>11. CASE ~NoPipeline /\ Read(i)
  <2>1. Reading(i) /\ inHand' = [inHand EXCEPT ![i] = TRUE] /\ stage' = stage
    BY <1>11 DEF Read
  <2>2. Flow!Taking(i) /\ stage[i] = "run" /\ Stdin(i) = Front(i) /\ i <= length /\ Live(i)
    BY <1>4, <1>6, <1>11, <2>1
  <2>3. IF i = 1 THEN FlowLevel' = FlowLevel
        ELSE FlowLevel[i - 1] > 0 /\ FlowLevel' = [FlowLevel EXCEPT ![i - 1] = FlowLevel[i - 1] - 1]
    <3>1. CASE i = 1
      <4>1. level' = level
        BY <1>11, <2>2, <3>1, Kinds DEF Read, Front
      <4> QED  BY <1>0, <3>1, <4>1 DEF FlowLevel, NoPipeline
    <3>2. CASE i # 1
      <4>1. PICK p \in Pipes : /\ Stdin(i) = ReadEnd(p) /\ level[p] > 0
                               /\ level' = [level EXCEPT ![p] = level[p] - 1]
        BY <1>9, <1>11, <2>2, <3>2, Kinds DEF Read, Front
      <4>2. p = <<job, i - 1>>
        BY <2>2, <3>2, <4>1, Kinds DEF Front
      <4> QED  BY <1>7, <1>10, <1>11, <2>2, <3>2, <4>1, <4>2
    <3> QED  BY <3>1, <3>2
  <2>4. ~NoPipeline' /\ \A k \in Stages : (Live(k)' <=> Live(k)) /\ (Forked(k)' <=> Forked(k))
    BY <1>0, <1>11, <2>1 DEF NoPipeline, Live, Forked
  <2>5. /\ FlowLength' = FlowLength /\ FlowPhase' = FlowPhase /\ FlowProg' = FlowProg
        /\ FlowInHand' = [FlowInHand EXCEPT ![i] = TRUE]
    <3>1. inHand \in [Stages -> BOOLEAN]
      BY DEF TypeOK
    <3>2. FlowInHand' = [FlowInHand EXCEPT ![i] = TRUE]
      BY <2>1, <2>2, <2>4, <3>1 DEF FlowInHand
    <3> QED  BY <1>0, <1>11, <2>4, <3>2 DEF FlowLength, FlowPhase, FlowProg
  <2>6. Flow!Take(i)
    BY <2>2, <2>3, <2>5 DEF Flow!Take
  <2> QED  BY <1>0, <2>6 DEF Flow!Next
<1>12. CASE ~NoPipeline /\ EndOfFile(i)
  <2>1. /\ Reading(i) /\ stage' = [stage EXCEPT ![i] = "end"] /\ UNCHANGED <<level, inHand>>
        /\ \A p \in Pipes : Stdin(i) = ReadEnd(p) => level[p] = 0 /\ Holders(WriteEnd(p)) = {}
    BY <1>12 DEF EndOfFile, Goto
  <2>2. Flow!Taking(i) /\ stage[i] = "run" /\ Stdin(i) = Front(i)
    BY <1>6, <1>12, <2>1
  <2>3. Flow!End(i)
    BY <1>0, <1>4, <1>12, <2>1, <2>2, StageEnds
  <2>4. FlowLevel' = FlowLevel
    BY <1>0, <2>1 DEF FlowLevel, NoPipeline
  <2>5. ASSUME i > 1 PROVE FlowLevel[i - 1] = 0 /\ FlowPhase[i - 1] = "ended"
    <3>1. i # 1 /\ i <= length
      BY <1>4, <1>12, <2>2, <2>5
    <3>2. i - 1 \in Stages /\ i - 1 < length /\ Piped(i - 1) /\ FlowLevel[i - 1] = level[<<job, i - 1>>]
      BY <1>7, <1>12, <3>1
    <3>3. <<job, i - 1>> \in Pipes
      BY <1>4, <1>12, <2>2, <3>2, Constant DEF MadeInv, TypeOK
    <3>4. level[<<job, i - 1>>] = 0 /\ Holders(WriteEnd(<<job, i - 1>>)) = {}
      BY <2>1, <2>2, <3>1, <3>3 DEF Front
    <3>5. ~Live(i - 1)
      BY <3>2, <3>4, LiveHoldsRear
    <3>6. i - 1 < cmd /\ i - 1 <= length
      BY <1>4, <1>12, <2>2, <3>2, Constant DEF TypeOK
    <3> QED  BY <1>12, <3>2, <3>4, <3>5, <3>6 DEF FlowPhase, Forked
  <2>6. Flow!EndOfInput(i)
    BY <2>2, <2>3, <2>4, <2>5 DEF Flow!EndOfInput
  <2> QED  BY <1>0, <2>6 DEF Flow!Next
<1>13. CASE ~NoPipeline /\ BrokenPipe(i)
  <2>1. /\ Writing(i) /\ stage' = [stage EXCEPT ![i] = "end"] /\ UNCHANGED <<level, inHand>>
        /\ Stdout(i) # Tty
        /\ \A p \in Pipes : Stdout(i) = WriteEnd(p) => Holders(ReadEnd(p)) = {}
    BY <1>13 DEF BrokenPipe, Goto
  <2>2. Flow!Making(i) /\ stage[i] = "run" /\ Stdout(i) = Rear(i)
    BY <1>6, <1>13, <2>1
  <2>3. Flow!End(i)
    BY <1>0, <1>4, <1>13, <2>1, <2>2, StageEnds
  <2>4. FlowLevel' = FlowLevel
    BY <1>0, <2>1 DEF FlowLevel, NoPipeline
  <2>5. Piped(i) /\ Stdout(i) = WriteEnd(<<job, i>>)
    BY <2>1, <2>2 DEF Rear
  <2>6. i < length /\ i + 1 \in Stages /\ i + 1 <= length /\ (i + 1) - 1 = i /\ i + 1 # 1
    <3>1. i \in Nat /\ i > 0 /\ length \in 0 .. MaxStages /\ i < length
      BY <2>5, Constant DEF TypeOK, Piped, Stages
    <3> QED  BY <3>1, MaxStagesType DEF Stages
  <2>7. <<job, i>> \in Pipes
    <3>1. <<job, i>> \in made
      BY <1>4, <1>13, <2>2, <2>5 DEF MadeInv, Forking
    <3> QED  BY <3>1 DEF TypeOK
  <2>8. Holders(ReadEnd(<<job, i>>)) = {}
    BY <2>1, <2>5, <2>7
  <2>9. ~Live(i + 1)
    BY <2>6, <2>8, LiveHoldsFront
  <2>10. Forked(i + 1) \/ pc = "exited"
    BY <1>13, <2>2, <2>6, <2>8, ShellHoldsUnborn
  <2>11. FlowPhase[i + 1] = "ended" /\ FlowLength = length
    BY <1>13, <2>6, <2>9, <2>10 DEF FlowPhase, FlowLength
  <2>12. Flow!EndOfOutput(i)
    BY <2>2, <2>3, <2>4, <2>6, <2>11 DEF Flow!EndOfOutput
  <2> QED  BY <1>0, <2>12 DEF Flow!Next
<1>14. CASE ~NoPipeline /\ Write(i)
  <2>1. /\ Writing(i)
        /\ inHand' = [inHand EXCEPT ![i] = FALSE]
        /\ \/ prog[i] \in {"head", "seq"} /\ stage' = [stage EXCEPT ![i] = "end"]
           \/ prog[i] # "head" /\ stage' = [stage EXCEPT ![i] = "run"]
    BY <1>14 DEF Write, Goto
  <2>2. Flow!Making(i) /\ stage[i] = "run" /\ Stdout(i) = Rear(i) /\ FlowLength = length
        /\ FlowProg[i] = prog[i] /\ Live(i) /\ i <= length
    BY <1>4, <1>6, <1>14, <2>1
  <2>3. IF i = FlowLength THEN FlowLevel' = FlowLevel
        ELSE FlowLevel[i] < Capacity /\ FlowLevel' = [FlowLevel EXCEPT ![i] = FlowLevel[i] + 1]
    <3>1. CASE Piped(i)
      <4>1. PICK p \in Pipes : /\ Stdout(i) = WriteEnd(p) /\ level[p] < Capacity
                               /\ level' = [level EXCEPT ![p] = level[p] + 1]
        BY <1>9, <1>14, <2>2, <3>1, Kinds DEF Write, Rear
      <4>2. p = <<job, i>>
        BY <2>2, <3>1, <4>1, Kinds DEF Rear
      <4> QED  BY <1>8, <1>10, <1>14, <2>2, <3>1, <4>1, <4>2
    <3>2. CASE ~Piped(i)
      <4>1. i = FlowLength
        BY <2>2, <3>2, Constant, MaxStagesType DEF Piped, TypeOK
      <4>2. level' = level
        BY <1>14, <2>2, <3>2, Kinds DEF Write, Rear
      <4> QED  BY <1>0, <4>1, <4>2 DEF FlowLevel, NoPipeline
    <3> QED  BY <3>1, <3>2
  <2>4. \/ FlowProg[i] \in {"head", "seq"} /\ Flow!End(i)
        \/ /\ FlowProg[i] # "head" /\ FlowInHand' = [FlowInHand EXCEPT ![i] = FALSE]
           /\ UNCHANGED <<FlowLength, FlowPhase, FlowProg>>
    <3>1. CASE prog[i] \in {"head", "seq"} /\ stage' = [stage EXCEPT ![i] = "end"]
      <4>1. Flow!End(i)
        BY <1>0, <1>4, <1>14, <2>1, <2>2, <3>1, StageEnds
      <4> QED  BY <2>2, <3>1, <4>1
    <3>2. CASE prog[i] # "head" /\ stage' = [stage EXCEPT ![i] = "run"]
      <4>1. ~NoPipeline' /\ \A k \in Stages : (Live(k)' <=> Live(k)) /\ (Forked(k)' <=> Forked(k))
        BY <1>0, <1>14, <2>2, <3>2 DEF NoPipeline, Live, Forked
      <4>2. FlowInHand' = [FlowInHand EXCEPT ![i] = FALSE]
        BY <1>0, <2>1, <4>1 DEF FlowInHand, TypeOK
      <4>3. UNCHANGED <<FlowLength, FlowPhase, FlowProg>>
        BY <1>0, <1>14, <4>1 DEF FlowLength, FlowPhase, FlowProg
      <4> QED  BY <2>2, <3>2, <4>2, <4>3
    <3> QED  BY <2>1, <3>1, <3>2
  <2>5. Flow!Pass(i)
    BY <2>2, <2>3, <2>4 DEF Flow!Pass
  <2> QED  BY <1>0, <2>5 DEF Flow!Next
<1> QED  BY <1>1, <1>3, <1>5, <1>11, <1>12, <1>13, <1>14 DEF Stage

\* As long as descriptors last, the stages behave as if joined by bounded queues: every
\* step of the shell and of a stage is one of StagedFlow, or none (execute.c:140-190).
THEOREM ImplementsStagedFlow == Spec => ImplementsFlow
<1>1. ASSUME IInv, FlowInv, [Next]_vars PROVE [Flow!Next]_(Flow!flows)
  <2>1. Flow!flows = flowVars /\ (Flow!flows)' = flowVars'
    BY DEF Flow!flows, flowVars
  <2>2. CASE UNCHANGED vars
    BY <2>2 DEF vars, shellVars, kernel, stageVars, Flow!flows, FlowLength, FlowPhase, FlowProg, FlowInHand,
       FlowLevel, NoPipeline, Live, Forked
  <2>3. CASE Enter \/ Quit \/ ForkFails \/ ShellStep
    BY <1>1, <2>1, <2>3, ShellFlows
  <2>4. CASE \E i \in Stages : Stage(i)
    BY <1>1, <2>1, <2>4, StageFlows
  <2> QED  BY <1>1, <2>2, <2>3, <2>4 DEF Next, Exited
<1> QED  BY InitFlow, FlowInvariance, <1>1, PTL DEF Spec, ImplementsFlow, Flow!Spec
================================================================================

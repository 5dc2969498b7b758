--------------------------- MODULE IRPassesProofs ----------------------------
(***************************************************************************)
(* Proofs about IRPasses, for any code that IRGen may emit: the graph is   *)
(* what the passes after it take it to be, what is erased was unreachable, *)
(* and the code handed on does what the code generated did.                *)
(***************************************************************************)
EXTENDS IRPasses, FlattenLemmas, FiniteSetTheorems

-----------------------------------------------------------------------------
(* Erasing instructions *)

(* A loop has a state after any number of iterations: f[n] after n of      *)
(* them, the n-th of which is step[n].                                     *)
Iterates(f, base, step, N) == f = [n \in 0..N |-> IF n = 0 THEN base ELSE step[n][f[n - 1]]]

(* So there is such an f, whatever the steps are.                          *)
LEMMA IterationExists ==
  ASSUME NEW S, NEW base \in S, NEW N \in Nat, NEW step \in [1..N -> [S -> S]]
  PROVE  \E f \in [0..N -> S] : Iterates(f, base, step, N)
<1> DEFINE Bad == {n \in 0..N : ~\E f \in [0..n -> S] : Iterates(f, base, step, n)}
<1> SUFFICES ASSUME Bad # {} PROVE FALSE
  OBVIOUS
<1>0. Bad \subseteq Nat
  OBVIOUS
<1>1. PICK n \in Bad : \A m \in Bad : n <= m
  BY <1>0, Least
<1>2. n # 0
  <2>1. [x \in 0..0 |-> base] \in [0..0 -> S]
    OBVIOUS
  <2>2. Iterates([x \in 0..0 |-> base], base, step, 0)
    BY DEF Iterates
  <2> QED BY <2>1, <2>2
<1>3. n - 1 \in 0..N /\ n - 1 \notin Bad
  BY <1>1, <1>2
<1>4. PICK g \in [0..(n - 1) -> S] : Iterates(g, base, step, n - 1)
  BY <1>3
<1>5. g[n - 1] \in S /\ step[n][g[n - 1]] \in S
  BY <1>2, <1>3
<1> DEFINE h == [x \in 0..n |-> IF x < n THEN g[x] ELSE step[n][g[n - 1]]]
<1>6. ASSUME NEW x \in 0..n PROVE h[x] = IF x = 0 THEN base ELSE step[x][h[x - 1]]
  <2>1. CASE x < n
    <3>1. x \in 0..(n - 1) /\ h[x] = g[x]
      BY <2>1, <1>3
    <3>2. g[x] = IF x = 0 THEN base ELSE step[x][g[x - 1]]
      BY <3>1, <1>4 DEF Iterates
    <3>3. x # 0 => h[x - 1] = g[x - 1]
      BY <3>1, <2>1, <1>3
    <3> HIDE DEF h
    <3> QED BY <3>1, <3>2, <3>3
  <2>2. CASE x = n
    <3>1. h[x] = step[n][g[n - 1]]
      BY <2>2
    <3>2. h[x - 1] = g[n - 1]
      BY <2>2, <1>2, <1>3
    <3> HIDE DEF h
    <3> QED BY <3>1, <3>2, <2>2, <1>2
  <2> QED BY <2>1, <2>2, <1>3
<1>7. h = [x \in 0..n |-> IF x = 0 THEN base ELSE step[x][h[x - 1]]]
  <2>1. h = [x \in 0..n |-> h[x]]
    OBVIOUS
  <2> HIDE DEF h
  <2> QED BY <2>1, <1>6
<1>8. h \in [0..n -> S]
  BY <1>5
<1> HIDE DEF h
<1>9. \E f \in [0..n -> S] : Iterates(f, base, step, n)
  BY <1>7, <1>8 DEF Iterates
<1> QED BY <1>1, <1>9

(* s lists the members of P up to N, the smallest first.                   *)
Ascends(s, P, N) ==
  /\ s \in Seq(Nat)
  /\ \A i \in 1..Len(s) : s[i] \in P /\ s[i] \in 1..N
  /\ \A i, j \in 1..Len(s) : i < j => s[i] < s[j]
  /\ \A p \in 1..N : p \in P => \E i \in 1..Len(s) : s[i] = p

(* A number above all others joins at the end.                             *)
LEMMA AscendsOn ==
  ASSUME NEW P, NEW n \in Nat, n # 0, NEW s, Ascends(s, P, n - 1)
  PROVE  Ascends(IF n \in P THEN Append(s, n) ELSE s, P, n)
<1>0. s \in Seq(Nat) /\ Len(s) \in Nat
  BY DEF Ascends
<1>1. /\ \A i \in 1..Len(s) : s[i] \in P /\ s[i] \in 1..(n - 1)
      /\ \A i, j \in 1..Len(s) : i < j => s[i] < s[j]
      /\ \A p \in 1..(n - 1) : p \in P => \E i \in 1..Len(s) : s[i] = p
  BY DEF Ascends
<1>2. CASE n \notin P
  <2>1. \A p \in 1..n : p \in P => p \in 1..(n - 1)
    BY <1>2
  <2> QED BY <1>0, <1>1, <1>2, <2>1 DEF Ascends
<1>3. CASE n \in P
  <2> DEFINE t == Append(s, n)
  <2>1. /\ t \in Seq(Nat)
        /\ Len(t) = Len(s) + 1
        /\ \A i \in 1..Len(s) : t[i] = s[i]
        /\ t[Len(s) + 1] = n
    BY <1>0
  <2> HIDE DEF t
  <2>2. \A i \in 1..Len(t) : i \in 1..Len(s) \/ i = Len(s) + 1
    BY <1>0, <2>1
  <2>3. \A i \in 1..Len(t) : t[i] \in P /\ t[i] \in 1..n
    BY <1>1, <1>3, <2>1, <2>2
  <2>4. \A i, j \in 1..Len(t) : i < j => t[i] < t[j]
    <3> SUFFICES ASSUME NEW i \in 1..Len(t), NEW j \in 1..Len(t), i < j PROVE t[i] < t[j]
      OBVIOUS
    <3>1. i \in 1..Len(s)
      BY <2>1, <1>0
    <3>2. CASE j \in 1..Len(s)
      BY <3>1, <3>2, <1>1, <2>1
    <3>3. CASE j = Len(s) + 1
      <4>1. s[i] \in 1..(n - 1)
        BY <3>1, <1>1
      <4> QED BY <3>1, <3>3, <4>1, <2>1
    <3> QED BY <2>2, <3>2, <3>3
  <2>5. \A p \in 1..n : p \in P => \E i \in 1..Len(t) : t[i] = p
    <3> SUFFICES ASSUME NEW p \in 1..n, p \in P PROVE \E i \in 1..Len(t) : t[i] = p
      OBVIOUS
    <3>1. CASE p = n
      <4>1. Len(s) + 1 \in 1..Len(t)
        BY <1>0, <2>1
      <4> QED BY <3>1, <4>1, <2>1
    <3>2. CASE p # n
      <4>1. p \in 1..(n - 1)
        BY <3>2
      <4>2. PICK i \in 1..Len(s) : s[i] = p
        BY <4>1, <1>1
      <4>3. i \in 1..Len(t) /\ t[i] = p
        BY <4>2, <2>1, <1>0
      <4> QED BY <4>3
    <3> QED BY <3>1, <3>2
  <2>6. Ascends(t, P, n)
    BY <2>1, <2>3, <2>4, <2>5 DEF Ascends
  <2> QED BY <2>6, <1>3 DEF t
<1> QED BY <1>2, <1>3

(* InOrder lists the members of P in order.                                *)
LEMMA InOrderAscends ==
  ASSUME NEW P, NEW N \in Nat
  PROVE  Ascends(InOrder(P, N), P, N)
<1>0. \E f : f = [n \in 0..N |->
               IF n = 0 THEN <<>> ELSE IF n \in P THEN Append(f[n - 1], n) ELSE f[n - 1]]
  <2> DEFINE Step(s, n) == IF n \in P THEN Append(s, n) ELSE s
             step == [n \in 1..N |-> [s \in Seq(Nat) |-> Step(s, n)]]
  <2>1. \A n \in 1..N : \A s \in Seq(Nat) : Step(s, n) \in Seq(Nat)
    OBVIOUS
  <2>2. <<>> \in Seq(Nat) /\ step \in [1..N -> [Seq(Nat) -> Seq(Nat)]]
    BY <2>1
  <2>3. PICK f \in [0..N -> Seq(Nat)] : Iterates(f, <<>>, step, N)
    BY <2>2, IterationExists
  <2>4. \A n \in 1..N : f[n - 1] \in Seq(Nat) /\ step[n][f[n - 1]] = Step(f[n - 1], n)
    OBVIOUS
  <2>5. f = [n \in 0..N |-> IF n = 0 THEN <<>> ELSE step[n][f[n - 1]]]
    BY <2>3 DEF Iterates
  <2> HIDE DEF step
  <2>6. \A n \in 0..N : f[n] = IF n = 0 THEN <<>> ELSE Step(f[n - 1], n)
    <3>1. \A n \in 0..N : n # 0 => n \in 1..N
      OBVIOUS
    <3>2. \A n \in 0..N : f[n] = IF n = 0 THEN <<>> ELSE step[n][f[n - 1]]
      BY <2>5
    <3> QED BY <2>4, <3>1, <3>2
  <2>7. f = [n \in 0..N |-> IF n = 0 THEN <<>> ELSE Step(f[n - 1], n)]
    <3>1. f = [n \in 0..N |-> f[n]]
      OBVIOUS
    <3> HIDE DEF Step
    <3> QED BY <2>6, <3>1
  <2> QED BY <2>7
<1> DEFINE list == CHOOSE f : f = [n \in 0..N |->
               IF n = 0 THEN <<>> ELSE IF n \in P THEN Append(f[n - 1], n) ELSE f[n - 1]]
<1>1. list = [n \in 0..N |->
               IF n = 0 THEN <<>> ELSE IF n \in P THEN Append(list[n - 1], n) ELSE list[n - 1]]
  BY <1>0
<1>2. InOrder(P, N) = list[N]
  BY DEF InOrder
<1> HIDE DEF list
<1>3. \A n \in 0..N : list[n] =
        IF n = 0 THEN <<>> ELSE IF n \in P THEN Append(list[n - 1], n) ELSE list[n - 1]
  BY <1>1
<1> DEFINE Bad == {n \in 0..N : ~Ascends(list[n], P, n)}
<1>4. ASSUME Bad # {} PROVE FALSE
  <2>0. Bad \subseteq Nat
    OBVIOUS
  <2>1. PICK n \in Bad : \A m \in Bad : n <= m
    BY <1>4, <2>0, Least
  <2>2. n # 0
    <3>1. list[0] = <<>>
      BY <1>3
    <3>2. Ascends(<<>>, P, 0)
      BY DEF Ascends
    <3> QED BY <2>1, <3>1, <3>2
  <2>3. n - 1 \in 0..N /\ n - 1 \notin Bad
    BY <2>1, <2>2
  <2>4. Ascends(list[n - 1], P, n - 1)
    BY <2>3
  <2>5. list[n] = IF n \in P THEN Append(list[n - 1], n) ELSE list[n - 1]
    BY <1>3, <2>1, <2>2
  <2>6. Ascends(list[n], P, n)
    BY <2>4, <2>5, <2>2, AscendsOn
  <2> QED BY <2>6, <2>1
<1> QED BY <1>2, <1>4

(* t consists of the instructions of insts at the positions in P; the n-th *)
(* of them stands at at[n].                                                *)
Embeds(at, t, insts, P) ==
  /\ at \in [1..Len(t) -> 1..Len(insts)]
  /\ \A n \in 1..Len(t) : at[n] \in P /\ t[n] = insts[at[n]]
  /\ \A m, n \in 1..Len(t) : m < n => at[m] < at[n]
  /\ \A p \in 1..Len(insts) : p \in P => \E n \in 1..Len(t) : at[n] = p

(* Only embeds what it keeps.                                              *)
LEMMA OnlyEmbeds ==
  ASSUME NEW insts, insts \in Seq(Instruction), NEW P
  PROVE  /\ Only(insts, P) \in Seq(Instruction)
         /\ \E at : Embeds(at, Only(insts, P), insts, P)
<1> DEFINE at == InOrder(P, Len(insts))
           t == [n \in DOMAIN at |-> insts[at[n]]]
<1>0. Len(insts) \in Nat
  OBVIOUS
<1>1. Ascends(at, P, Len(insts))
  BY <1>0, InOrderAscends
<1>2. Only(insts, P) = t
  BY DEF Only
<1> HIDE DEF at
<1>3. at \in Seq(Nat) /\ DOMAIN at = 1..Len(at) /\ Len(at) \in Nat
  BY <1>1 DEF Ascends
<1>4. \A n \in 1..Len(at) : at[n] \in P /\ at[n] \in 1..Len(insts)
  BY <1>1 DEF Ascends
<1>5. \A n \in 1..Len(at) : insts[at[n]] \in Instruction
  BY <1>4
<1>6. t \in Seq(Instruction) /\ Len(t) = Len(at)
  BY <1>3, <1>5
<1>7. at \in [1..Len(t) -> 1..Len(insts)]
  BY <1>3, <1>4, <1>6
<1>8. Embeds(at, t, insts, P)
  <2>1. \A n \in 1..Len(t) : at[n] \in P /\ t[n] = insts[at[n]]
    BY <1>3, <1>4, <1>6
  <2>2. \A m, n \in 1..Len(t) : m < n => at[m] < at[n]
    BY <1>1, <1>6 DEF Ascends
  <2>3. \A p \in 1..Len(insts) : p \in P => \E n \in 1..Len(t) : at[n] = p
    BY <1>1, <1>6 DEF Ascends
  <2> HIDE DEF t
  <2> QED BY <1>7, <2>1, <2>2, <2>3 DEF Embeds
<1> QED BY <1>2, <1>6, <1>8

(* Whatever is kept, labels stay unique and no jump appears.               *)
LEMMA EmbedsLabelsOnce ==
  ASSUME NEW insts, LabelsOnce(insts), insts \in Seq(Instruction), NEW P, NEW at,
         NEW t, t \in Seq(Instruction), Embeds(at, t, insts, P)
  PROVE  LabelsOnce(t)
<1> SUFFICES ASSUME NEW m \in 1..Len(t), NEW n \in 1..Len(t), IsLabel(t[m]), t[m] = t[n]
             PROVE  m = n
  BY DEF LabelsOnce
<1>1. at[m] \in 1..Len(insts) /\ at[n] \in 1..Len(insts) /\ insts[at[m]] = t[m] /\ insts[at[n]] = t[n]
  BY DEF Embeds
<1>2. at[m] = at[n]
  BY <1>1 DEF LabelsOnce
<1>3. ~(m < n) /\ ~(n < m)
  <2>1. at[m] \in Nat /\ at[n] \in Nat
    BY <1>1
  <2> QED BY <1>2, <2>1 DEF Embeds
<1> QED BY <1>3

(* Where instructions are left out, the next one kept is a label.          *)
KeepsBlocks(insts, P) ==
  \A n \in 1..Len(insts) : n \in P /\ n > 1 /\ n - 1 \notin P => IsLabel(insts[n])

(* Then neighbours were neighbours, or the second one is a label.          *)
LEMMA Neighbours ==
  ASSUME NEW insts, insts \in Seq(Instruction), NEW P, NEW at,
         NEW t, t \in Seq(Instruction), Embeds(at, t, insts, P), KeepsBlocks(insts, P),
         NEW n \in 1..Len(t), n + 1 \in 1..Len(t)
  PROVE  at[n + 1] = at[n] + 1 \/ IsLabel(t[n + 1])
<1>1. /\ at[n] \in 1..Len(insts) /\ at[n + 1] \in 1..Len(insts)
      /\ at[n + 1] \in P /\ at[n] < at[n + 1] /\ t[n + 1] = insts[at[n + 1]]
  BY DEF Embeds
<1> SUFFICES ASSUME at[n + 1] # at[n] + 1 PROVE IsLabel(insts[at[n + 1]])
  BY <1>1
<1>2. at[n + 1] - 1 \in 1..Len(insts) /\ at[n] < at[n + 1] - 1
  BY <1>1
<1>3. at[n + 1] - 1 \notin P
  <2> SUFFICES ASSUME at[n + 1] - 1 \in P PROVE FALSE
    OBVIOUS
  <2>1. PICK m \in 1..Len(t) : at[m] = at[n + 1] - 1
    BY <1>2 DEF Embeds
  <2>2. m < n \/ m = n \/ m = n + 1 \/ n + 1 < m
    OBVIOUS
  <2>3. at[m] \in Nat /\ at[n] \in Nat /\ at[n + 1] \in Nat
    BY <1>1, <2>1
  <2>4. m < n => at[m] < at[n]
    BY DEF Embeds
  <2>5. n + 1 < m => at[n + 1] < at[m]
    BY DEF Embeds
  <2> QED BY <2>1, <2>2, <2>3, <2>4, <2>5, <1>2
<1> QED BY <1>1, <1>2, <1>3 DEF KeepsBlocks

(* The labels a kept instruction leads to are kept.                        *)
KeepsTargets(insts, P) ==
  \A n \in 1..Len(insts) :
    n \in P => \A l \in ToSet(Targets(insts[n])) : \A m \in Below(insts, n, l) : m \in P

(* Below in what is kept is below in the whole.                            *)
LEMMA EmbedsBelow ==
  ASSUME NEW insts, insts \in Seq(Instruction), NEW P, NEW at,
         NEW t, t \in Seq(Instruction), Embeds(at, t, insts, P),
         NEW n \in 1..Len(t), NEW l
  PROVE  /\ \A m \in Below(t, n, l) : at[m] \in Below(insts, at[n], l)
         /\ \A p \in Below(insts, at[n], l) : p \in P => \E m \in Below(t, n, l) : at[m] = p
<1>1. ASSUME NEW m \in Below(t, n, l) PROVE at[m] \in Below(insts, at[n], l)
  <2>1. m \in 1..Len(t) /\ n < m /\ t[m] = Label(l)
    BY DEF Below
  <2>2. at[m] \in 1..Len(insts) /\ at[n] < at[m] /\ insts[at[m]] = Label(l)
    BY <2>1 DEF Embeds
  <2>3. at[n] \in 1..Len(insts)
    BY DEF Embeds
  <2> QED BY <2>2, <2>3 DEF Below
<1>2. ASSUME NEW p \in Below(insts, at[n], l), p \in P
      PROVE  \E m \in Below(t, n, l) : at[m] = p
  <2>1. p \in 1..Len(insts) /\ p > at[n] /\ insts[p] = Label(l)
    BY DEF Below
  <2>2. PICK m \in 1..Len(t) : at[m] = p
    BY <1>2, <2>1 DEF Embeds
  <2>3. t[m] = Label(l)
    BY <2>1, <2>2 DEF Embeds
  <2>4. n < m
    <3>1. at[n] \in 1..Len(insts) /\ (m < n => at[m] < at[n])
      BY DEF Embeds
    <3> QED BY <3>1, <2>1, <2>2
  <2>5. m \in Below(t, n, l)
    BY <2>3, <2>4 DEF Below
  <2> QED BY <2>2, <2>5
<1> QED BY <1>1, <1>2

(* Jumps still lead down.                                                  *)
LEMMA EmbedsJumpsLeadDown ==
  ASSUME NEW insts, insts \in Seq(Instruction), NEW P, NEW at,
         NEW t, t \in Seq(Instruction), Embeds(at, t, insts, P), KeepsTargets(insts, P),
         JumpsLeadDown(insts)
  PROVE  JumpsLeadDown(t)
<1> SUFFICES ASSUME NEW n \in 1..Len(t), NEW l \in ToSet(Targets(t[n]))
             PROVE  Below(t, n, l) # {}
  BY DEF JumpsLeadDown
<1>1. at[n] \in 1..Len(insts) /\ at[n] \in P /\ t[n] = insts[at[n]]
  BY DEF Embeds
<1>2. PICK p : p \in Below(insts, at[n], l)
  BY <1>1 DEF JumpsLeadDown
<1>3. p \in P
  BY <1>1, <1>2 DEF KeepsTargets
<1> QED BY <1>2, <1>3, EmbedsBelow

(* A branch has a label to go to.                                          *)
LEMMA BranchTargets ==
  ASSUME NEW inst \in Instruction, IsBranch(inst)
  PROVE  inst.true_target \in ToSet(Targets(inst))
<1>1. Targets(inst)[1] = inst.true_target /\ 1 \in DOMAIN Targets(inst)
  BY DEF IsBranch, Targets
<1> QED BY <1>1 DEF ToSet

(* Branches still stand above labels.                                      *)
LEMMA EmbedsLabelsAfterBranches ==
  ASSUME NEW insts, insts \in Seq(Instruction), NEW P, NEW at,
         NEW t, t \in Seq(Instruction), Embeds(at, t, insts, P), KeepsBlocks(insts, P),
         LabelsAfterBranches(insts), JumpsLeadDown(t)
  PROVE  LabelsAfterBranches(t)
<1> SUFFICES ASSUME NEW n \in 1..Len(t), IsBranch(t[n]) PROVE LabelAfter(t, n)
  BY DEF LabelsAfterBranches
<1>1. t[n] \in Instruction
  OBVIOUS
<1>2. PICK m : m \in Below(t, n, t[n].true_target)
  BY <1>1, BranchTargets DEF JumpsLeadDown
<1>3. n + 1 \in 1..Len(t)
  BY <1>2 DEF Below
<1>4. CASE at[n + 1] = at[n] + 1
  <2>1. at[n] \in 1..Len(insts) /\ IsBranch(insts[at[n]]) /\ t[n + 1] = insts[at[n + 1]]
    BY <1>3 DEF Embeds
  <2>2. LabelAfter(insts, at[n])
    BY <2>1 DEF LabelsAfterBranches
  <2>3. IsLabel(t[n + 1])
    BY <2>1, <2>2, <1>4 DEF LabelAfter
  <2> QED BY <1>3, <2>3 DEF LabelAfter
<1>5. CASE IsLabel(t[n + 1])
  BY <1>3, <1>5 DEF LabelAfter
<1> QED BY <1>3, <1>4, <1>5, Neighbours

-----------------------------------------------------------------------------
(* EliminateDeadCode, the first loop *)

DropState == [kept : SUBSET Nat, prev : Nat]

(* s[n] is the state of the first loop after n iterations.                 *)
Drops(s, insts) ==
  /\ s \in [0..Len(insts) -> DropState]
  /\ s[0] = [kept |-> {}, prev |-> 0]
  /\ \A n \in 1..Len(insts) : s[n] = Keep(insts, s[n - 1], n)
  /\ DropDead(insts) = Only(insts, s[Len(insts)].kept)

(* The states of EliminateDeadCode's first loop exist.                     *)
LEMMA DropsExists ==
  ASSUME NEW insts, insts \in Seq(Instruction)
  PROVE  \E s : Drops(s, insts)
<1> DEFINE N == Len(insts)
           Zero == [kept |-> {}, prev |-> 0]
           step == [n \in 1..N |-> [s \in DropState |-> Keep(insts, s, n)]]
<1>0. N \in Nat
  OBVIOUS
<1> HIDE DEF N
<1>1. \A n \in 1..N : \A s \in DropState : Keep(insts, s, n) \in DropState
  BY <1>0 DEF DropState, Keep
<1>2. Zero \in DropState /\ step \in [1..N -> [DropState -> DropState]]
  BY <1>1 DEF DropState
<1>3. PICK f \in [0..N -> DropState] : Iterates(f, Zero, step, N)
  BY <1>0, <1>2, IterationExists
<1>4. \A n \in 1..N : f[n - 1] \in DropState /\ step[n][f[n - 1]] = Keep(insts, f[n - 1], n)
  BY <1>0
<1>5. \A n \in 0..N : f[n] = IF n = 0 THEN Zero ELSE step[n][f[n - 1]]
  BY <1>3 DEF Iterates
<1>6. \A n \in 0..N : n # 0 => n \in 1..N
  BY <1>0
<1> HIDE DEF step, Zero
<1>7. \A n \in 0..N : f[n] = IF n = 0 THEN Zero ELSE Keep(insts, f[n - 1], n)
  BY <1>4, <1>5, <1>6
<1>8. f = [n \in 0..N |-> IF n = 0 THEN Zero ELSE Keep(insts, f[n - 1], n)]
  <2>1. f = [n \in 0..N |-> f[n]]
    OBVIOUS
  <2> QED BY <1>7, <2>1
<1> DEFINE s == CHOOSE g : g = [n \in 0..N |-> IF n = 0 THEN Zero ELSE Keep(insts, g[n - 1], n)]
<1>9. s = [n \in 0..N |-> IF n = 0 THEN Zero ELSE Keep(insts, s[n - 1], n)]
  BY <1>8
<1>10. DropDead(insts) = Only(insts, s[N].kept)
  BY DEF DropDead, N, Zero
<1> HIDE DEF s
<1>11. \A n \in 0..N : s[n] = IF n = 0 THEN Zero ELSE Keep(insts, s[n - 1], n)
  BY <1>9
<1>12. \A n \in 0..N : s[n] \in DropState
  <2> DEFINE Bad == {n \in 0..N : s[n] \notin DropState}
  <2> SUFFICES ASSUME Bad # {} PROVE FALSE
    OBVIOUS
  <2>0. Bad \subseteq Nat
    BY <1>0
  <2>1. PICK n \in Bad : \A m \in Bad : n <= m
    BY <2>0, Least
  <2>2. n # 0
    BY <1>2, <1>11
  <2>3. n - 1 \in 0..N /\ n - 1 \notin Bad /\ n \in 1..N
    BY <2>1, <2>2, <1>0
  <2> QED BY <2>1, <2>2, <2>3, <1>1, <1>11
<1>13. s \in [0..N -> DropState] /\ s[0] = Zero
  BY <1>9, <1>11, <1>12, <1>0
<1>14. \A n \in 1..N : s[n] = Keep(insts, s[n - 1], n)
  BY <1>11, <1>0
<1> QED BY <1>10, <1>13, <1>14 DEF Drops, N, Zero

(* The n-th iteration erases.                                              *)
DeadAt(s, insts, n) == s[n - 1].prev # 0 /\ Dead(insts[s[n - 1].prev], insts[n])

(* What is kept is what was not erased, and prev is the last of it.        *)
LEMMA DropsKeeps ==
  ASSUME NEW insts, insts \in Seq(Instruction), NEW s, Drops(s, insts)
  PROVE  \A n \in 0..Len(insts) :
           /\ s[n].kept = {m \in 1..n : ~DeadAt(s, insts, m)}
           /\ n # 0 => s[n].prev \in s[n].kept
           /\ s[n].prev \in 0..n
           /\ \A m \in s[n].kept : m <= s[n].prev
<1> DEFINE Holds(n) == /\ s[n].kept = {m \in 1..n : ~DeadAt(s, insts, m)}
                       /\ n # 0 => s[n].prev \in s[n].kept
                       /\ s[n].prev \in 0..n
                       /\ \A m \in s[n].kept : m <= s[n].prev
           Bad == {n \in 0..Len(insts) : ~Holds(n)}
<1>0. Len(insts) \in Nat /\ Bad \subseteq Nat
  OBVIOUS
<1> SUFFICES ASSUME Bad # {} PROVE FALSE
  OBVIOUS
<1>1. PICK n \in Bad : \A m \in Bad : n <= m
  BY <1>0, Least
<1>2. n # 0
  <2>1. Holds(0)
    BY DEF Drops
  <2> HIDE DEF Holds
  <2> QED BY <2>1, <1>1
<1>3. n - 1 \in 0..Len(insts) /\ n - 1 \notin Bad /\ n \in 1..Len(insts)
  BY <1>1, <1>2, <1>0
<1>4. Holds(n - 1)
  BY <1>3
<1>5. s[n] = Keep(insts, s[n - 1], n) /\ s[n - 1] \in DropState
  BY <1>3 DEF Drops
<1>6. 1..n = (1..(n - 1)) \cup {n}
  BY <1>3
<1>7. CASE DeadAt(s, insts, n)
  <2>1. s[n] = s[n - 1]
    BY <1>5, <1>7 DEF Keep, DeadAt
  <2>2. n - 1 # 0
    BY <1>4, <1>7 DEF DeadAt
  <2>3. {m \in 1..n : ~DeadAt(s, insts, m)} = {m \in 1..(n - 1) : ~DeadAt(s, insts, m)}
    BY <1>6, <1>7
  <2>4. Holds(n)
    BY <2>1, <2>2, <2>3, <1>4, <1>3
  <2> HIDE DEF Holds
  <2> QED BY <2>4, <1>1
<1>8. CASE ~DeadAt(s, insts, n)
  <2>1. s[n].kept = s[n - 1].kept \cup {n} /\ s[n].prev = n
    BY <1>5, <1>8 DEF Keep, DeadAt
  <2>2. {m \in 1..n : ~DeadAt(s, insts, m)} = {m \in 1..(n - 1) : ~DeadAt(s, insts, m)} \cup {n}
    BY <1>6, <1>8
  <2>3. Holds(n)
    BY <2>1, <2>2, <1>4, <1>3
  <2> HIDE DEF Holds
  <2> QED BY <2>3, <1>1
<1> QED BY <1>7, <1>8

(* Returns stand above labels, too, and no jump is left.                   *)
LabelsAfterReturns(insts) ==
  \A n \in DOMAIN insts : IsReturn(insts[n]) /\ n + 1 \in DOMAIN insts => IsLabel(insts[n + 1])
NoJumps(insts) == \A n \in DOMAIN insts : ~IsDirectJMP(insts[n])

(* Code as the first loop leaves it.                                       *)
Dropped(insts) ==
  /\ insts \in Seq(Instruction)
  /\ LabelsOnce(insts)
  /\ JumpsLeadDown(insts)
  /\ LabelsAfterBranches(insts)
  /\ LabelsAfterReturns(insts)
  /\ NoJumps(insts)

(* What the first loop of EliminateDeadCode leaves is labels once, and no  *)
(* jump.                                                                   *)
LEMMA DropDeadDrops ==
  ASSUME NEW insts, Generated(insts)
  PROVE  Dropped(DropDead(insts))
<1> DEFINE N == Len(insts)
           t == DropDead(insts)
<1>0. insts \in Seq(Instruction) /\ N \in Nat
  BY DEF Generated
<1>1. PICK s : Drops(s, insts)
  BY <1>0, DropsExists
<1> DEFINE P == s[N].kept
<1>2. \A n \in 0..N :
        /\ s[n].kept = {m \in 1..n : ~DeadAt(s, insts, m)}
        /\ n # 0 => s[n].prev \in s[n].kept
        /\ s[n].prev \in 0..n
        /\ \A m \in s[n].kept : m <= s[n].prev
  BY <1>0, <1>1, DropsKeeps
<1>3. t = Only(insts, P)
  BY <1>1 DEF Drops
<1>4. t \in Seq(Instruction) /\ \E at : Embeds(at, t, insts, P)
  BY <1>0, <1>3, OnlyEmbeds
<1>5. PICK at : Embeds(at, t, insts, P)
  BY <1>4
<1>6. \A n \in 1..N : n \in P <=> ~DeadAt(s, insts, n)
  BY <1>0, <1>2
<1> HIDE DEF t, P
<1>7. \A n \in 1..N : IsLabel(insts[n]) => n \in P
  BY <1>6 DEF DeadAt, Dead
<1>8. KeepsTargets(insts, P)
  BY <1>7 DEF KeepsTargets, Below, IsLabel, Label
<1>9. NoJumps(t)
  <2>1. \A n \in 1..N : n \in P => ~IsDirectJMP(insts[n])
    <3> SUFFICES ASSUME NEW n \in 1..N, IsDirectJMP(insts[n]) PROVE DeadAt(s, insts, n)
      BY <1>6
    <3>1. n # 1
      BY DEF Generated
    <3>2. n - 1 \in 0..N /\ n - 1 # 0
      BY <3>1, <1>0
    <3>3. s[n - 1].prev # 0
      BY <3>2, <1>2
    <3> QED BY <3>3 DEF DeadAt, Dead, IsDirectJMP, IsLabel
  <2> QED BY <2>1, <1>4, <1>5 DEF NoJumps, Embeds
<1>10. KeepsBlocks(insts, P)
  <2> SUFFICES ASSUME NEW n \in 1..N, n \in P, n > 1, n - 1 \notin P PROVE IsLabel(insts[n])
    BY DEF KeepsBlocks
  <2>1. n - 1 \in 1..N /\ n - 1 \in 0..N /\ n - 2 \in 0..N /\ (n - 1) - 1 = n - 2
    BY <1>0
  <2>2. DeadAt(s, insts, n - 1) /\ ~DeadAt(s, insts, n)
    BY <2>1, <1>6
  <2>3. s[n - 1] = s[n - 2]
    BY <2>1, <2>2, <1>1 DEF Drops, Keep, DeadAt
  <2>4. s[n - 1].prev # 0 /\ Dead(insts[s[n - 1].prev], insts[n - 1])
    BY <2>1, <2>2, <2>3 DEF DeadAt
  <2>5. CASE IsReturn(insts[s[n - 1].prev])
    BY <2>2, <2>4, <2>5 DEF DeadAt, Dead
  <2>6. CASE IsDirectJMP(insts[n - 1])
    <3>1. LabelAfter(insts, n - 1)
      BY <2>1, <2>6 DEF Generated, LabelsAfterBranches, IsBranch, IsDirectJMP
    <3> QED BY <3>1 DEF LabelAfter
  <2> QED BY <2>4, <2>5, <2>6 DEF Dead
<1>11. LabelsAfterReturns(t)
  <2> SUFFICES ASSUME NEW n \in 1..Len(t), n + 1 \in 1..Len(t), IsReturn(t[n]) PROVE IsLabel(t[n + 1])
    BY <1>4 DEF LabelsAfterReturns
  <2> DEFINE p == at[n + 1]
  <2>1. /\ at[n] \in 1..N /\ p \in 1..N /\ at[n] \in P /\ p \in P /\ at[n] < p
        /\ t[n] = insts[at[n]] /\ t[n + 1] = insts[p]
    BY <1>5 DEF Embeds
  <2>2. p - 1 \in 0..N /\ p - 1 # 0 /\ p - 1 \in Nat
    BY <2>1, <1>0
  <2>3. s[p - 1].prev = at[n]
    <3>1. s[p - 1].prev \in s[p - 1].kept /\ \A m \in s[p - 1].kept : m <= s[p - 1].prev
      BY <2>2, <1>2
    <3>2. s[p - 1].kept = {m \in 1..(p - 1) : ~DeadAt(s, insts, m)}
      BY <2>2, <1>2
    <3>3. at[n] \in s[p - 1].kept
      BY <2>1, <2>2, <3>2, <1>6
    <3>4. s[p - 1].prev \in 1..N /\ s[p - 1].prev \in P /\ s[p - 1].prev < p
      BY <3>1, <3>2, <2>2, <2>1, <1>6
    <3>5. PICK m \in 1..Len(t) : at[m] = s[p - 1].prev
      BY <3>4, <1>5 DEF Embeds
    <3>6. ~(n + 1 < m) /\ ~(m = n + 1)
      <4>1. n + 1 < m => at[n + 1] < at[m]
        BY <1>5 DEF Embeds
      <4> QED BY <4>1, <3>4, <3>5, <2>1
    <3>7. m < n => at[m] < at[n]
      BY <1>5 DEF Embeds
    <3>8. m = n
      BY <3>1, <3>3, <3>4, <3>5, <3>6, <3>7, <2>1
    <3> QED BY <3>5, <3>8
  <2>4. ~DeadAt(s, insts, p) /\ at[n] # 0
    BY <2>1, <1>6
  <2> HIDE DEF p
  <2>5. IsReturn(insts[s[p - 1].prev]) /\ s[p - 1].prev # 0
    BY <2>1, <2>3, <2>4
  <2>6. ~Dead(insts[s[p - 1].prev], insts[p])
    BY <2>4, <2>5 DEF DeadAt
  <2> QED BY <2>1, <2>5, <2>6 DEF Dead
<1>12. JumpsLeadDown(t)
  BY <1>0, <1>4, <1>5, <1>8, EmbedsJumpsLeadDown DEF Generated
<1>13. LabelsOnce(t)
  BY <1>0, <1>4, <1>5, EmbedsLabelsOnce DEF Generated
<1>14. LabelsAfterBranches(t)
  BY <1>0, <1>4, <1>5, <1>10, <1>12, EmbedsLabelsAfterBranches DEF Generated
<1> QED BY <1>4, <1>9, <1>11, <1>12, <1>13, <1>14 DEF Dropped, t

-----------------------------------------------------------------------------
(* EliminateDeadCodeImpl *)

PurgeState == [kept : SUBSET Nat, purging : BOOLEAN, reachable : SUBSET Nat]

(* s[n] is the state of the sweep after n iterations.                      *)
Sweeps(s, insts) ==
  /\ s \in [0..Len(insts) -> PurgeState]
  /\ s[0] = [kept |-> {}, purging |-> FALSE, reachable |-> {}]
  /\ \A n \in 1..Len(insts) : s[n] = Purge(insts, s[n - 1], n)
  /\ EliminateDeadCodeImpl(insts) = Only(insts, s[Len(insts)].kept)

(* Branches lead to labels, which are numbers.                             *)
LEMMA TargetsAreLabels ==
  ASSUME NEW inst \in Instruction
  PROVE  ToSet(Targets(inst)) \subseteq Nat
<1>1. CASE inst.i = "branch"
  <2>1. Targets(inst) = <<inst.true_target, inst.false_target>>
    BY <1>1 DEF Targets
  <2>2. inst.true_target \in Nat /\ inst.false_target \in Nat
    BY <1>1 DEF Instruction
  <2> QED BY <2>1, <2>2 DEF ToSet
<1>2. CASE inst.i = "jmp"
  <2>1. Targets(inst) = <<inst.true_target>>
    BY <1>2 DEF Targets
  <2>2. inst.true_target \in Nat
    BY <1>2 DEF Instruction
  <2> QED BY <2>1, <2>2 DEF ToSet
<1>3. CASE inst.i # "branch" /\ inst.i # "jmp"
  <2>1. Targets(inst) = <<>>
    BY <1>3 DEF Targets
  <2> QED BY <2>1 DEF ToSet
<1> QED BY <1>1, <1>2, <1>3

(* The states of one sweep of EliminateDeadCodeImpl exist.                 *)
LEMMA SweepsExists ==
  ASSUME NEW insts, insts \in Seq(Instruction)
  PROVE  \E s : Sweeps(s, insts)
<1> DEFINE N == Len(insts)
           Zero == [kept |-> {}, purging |-> FALSE, reachable |-> {}]
           step == [n \in 1..N |-> [s \in PurgeState |-> Purge(insts, s, n)]]
<1>0. N \in Nat /\ \A n \in 1..N : insts[n] \in Instruction
  OBVIOUS
<1> HIDE DEF N
<1>1. \A n \in 1..N : \A s \in PurgeState : Purge(insts, s, n) \in PurgeState
  <2> SUFFICES ASSUME NEW n \in 1..N, NEW s \in PurgeState PROVE Purge(insts, s, n) \in PurgeState
    OBVIOUS
  <2>1. ToSet(Targets(insts[n])) \subseteq Nat
    BY <1>0, TargetsAreLabels
  <2>2. n \in Nat
    BY <1>0
  <2>3. [s EXCEPT !.purging = TRUE] \in PurgeState
    BY DEF PurgeState
  <2>4. [kept |-> s.kept \cup {n}, purging |-> FALSE,
         reachable |-> s.reachable \cup ToSet(Targets(insts[n]))] \in PurgeState
    BY <2>1, <2>2 DEF PurgeState
  <2> QED BY <2>3, <2>4 DEF Purge
<1>2. Zero \in PurgeState /\ step \in [1..N -> [PurgeState -> PurgeState]]
  BY <1>1 DEF PurgeState
<1>3. PICK f \in [0..N -> PurgeState] : Iterates(f, Zero, step, N)
  BY <1>0, <1>2, IterationExists
<1>4. \A n \in 1..N : f[n - 1] \in PurgeState /\ step[n][f[n - 1]] = Purge(insts, f[n - 1], n)
  BY <1>0
<1>5. \A n \in 0..N : f[n] = IF n = 0 THEN Zero ELSE step[n][f[n - 1]]
  BY <1>3 DEF Iterates
<1>6. \A n \in 0..N : n # 0 => n \in 1..N
  BY <1>0
<1> HIDE DEF step, Zero
<1>7. \A n \in 0..N : f[n] = IF n = 0 THEN Zero ELSE Purge(insts, f[n - 1], n)
  BY <1>4, <1>5, <1>6
<1>8. f = [n \in 0..N |-> IF n = 0 THEN Zero ELSE Purge(insts, f[n - 1], n)]
  <2>1. f = [n \in 0..N |-> f[n]]
    OBVIOUS
  <2> QED BY <1>7, <2>1
<1> DEFINE s == CHOOSE g : g = [n \in 0..N |-> IF n = 0 THEN Zero ELSE Purge(insts, g[n - 1], n)]
<1>9. s = [n \in 0..N |-> IF n = 0 THEN Zero ELSE Purge(insts, s[n - 1], n)]
  BY <1>8
<1>10. EliminateDeadCodeImpl(insts) = Only(insts, s[N].kept)
  BY DEF EliminateDeadCodeImpl, N, Zero
<1> HIDE DEF s
<1>11. \A n \in 0..N : s[n] = IF n = 0 THEN Zero ELSE Purge(insts, s[n - 1], n)
  BY <1>9
<1>12. \A n \in 0..N : s[n] \in PurgeState
  <2> DEFINE Bad == {n \in 0..N : s[n] \notin PurgeState}
  <2> SUFFICES ASSUME Bad # {} PROVE FALSE
    OBVIOUS
  <2>0. Bad \subseteq Nat
    BY <1>0
  <2>1. PICK n \in Bad : \A m \in Bad : n <= m
    BY <2>0, Least
  <2>2. n # 0
    BY <1>2, <1>11
  <2>3. n - 1 \in 0..N /\ n - 1 \notin Bad /\ n \in 1..N
    BY <2>1, <2>2, <1>0
  <2> QED BY <2>1, <2>2, <2>3, <1>1, <1>11
<1>13. s \in [0..N -> PurgeState] /\ s[0] = Zero
  BY <1>9, <1>11, <1>12, <1>0
<1>14. \A n \in 1..N : s[n] = Purge(insts, s[n - 1], n)
  BY <1>11, <1>0
<1> QED BY <1>10, <1>13, <1>14 DEF Sweeps, N, Zero

(* The positions of the instructions that are kept, without the sweep: a   *)
(* label is erased if nothing runs into it and no instruction kept above   *)
(* leads to it, and anything else if what is above it is.                  *)
Swept(P, insts) ==
  /\ P \subseteq 1..Len(insts)
  /\ \A n \in 1..Len(insts) :
       n \notin P <=>
         /\ n > 1
         /\ IF IsLabel(insts[n])
            THEN /\ EndsBlock(insts[n - 1])
                 /\ \A m \in 1..(n - 1) : m \in P => insts[n].label \notin ToSet(Targets(insts[m]))
            ELSE n - 1 \notin P

(* What a sweep erases: from a label nothing leads to on to the next one.  *)
LEMMA SweepKeeps ==
  ASSUME NEW insts, insts \in Seq(Instruction)
  PROVE  \E P : Swept(P, insts) /\ EliminateDeadCodeImpl(insts) = Only(insts, P)
<1> DEFINE N == Len(insts)
<1>0. N \in Nat
  OBVIOUS
<1>1. PICK s : Sweeps(s, insts)
  BY SweepsExists
<1> DEFINE P == {m \in 1..N : ~Purging(insts, s[m - 1], m)}
           Reached(n) == UNION {ToSet(Targets(insts[m])) : m \in {k \in 1..n : k \in P}}
           Holds(n) == /\ s[n].kept = {m \in 1..n : m \in P}
                       /\ s[n].purging = (n # 0 /\ n \notin P)
                       /\ s[n].reachable = Reached(n)
           Bad == {n \in 0..N : ~Holds(n)}
<1>2. ASSUME Bad # {} PROVE FALSE
  <2>0. Bad \subseteq Nat
    BY <1>0
  <2>1. PICK n \in Bad : \A m \in Bad : n <= m
    BY <1>2, <2>0, Least
  <2>2. n # 0
    <3>1. Holds(0)
      <4>1. s[0] = [kept |-> {}, purging |-> FALSE, reachable |-> {}]
        BY <1>1 DEF Sweeps
      <4> HIDE DEF P
      <4>2. {m \in 1..0 : m \in P} = {}
        OBVIOUS
      <4>3. Reached(0) = {}
        BY <4>2
      <4> HIDE DEF Reached
      <4>4. s[0].kept = {} /\ s[0].purging = FALSE /\ s[0].reachable = {}
        BY <4>1
      <4> QED BY <4>2, <4>3, <4>4
    <3> HIDE DEF Holds
    <3> QED BY <3>1, <2>1
  <2>3. n - 1 \in 0..N /\ n - 1 \notin Bad /\ n \in 1..N
    BY <2>1, <2>2, <1>0
  <2>4. Holds(n - 1)
    BY <2>3
  <2>5. s[n] = Purge(insts, s[n - 1], n) /\ s[n - 1] \in PurgeState
    BY <1>1, <2>3 DEF Sweeps
  <2>6. 1..n = (1..(n - 1)) \cup {n}
    BY <2>3
  <2>7. n \in P <=> ~Purging(insts, s[n - 1], n)
    BY <2>3
  <2> HIDE DEF P
  <2>8. CASE n \notin P
    <3>1. s[n] = [s[n - 1] EXCEPT !.purging = TRUE]
      BY <2>5, <2>7, <2>8 DEF Purge
    <3>2. {m \in 1..n : m \in P} = {m \in 1..(n - 1) : m \in P}
      BY <2>6, <2>8
    <3>3. Reached(n) = Reached(n - 1)
      BY <3>2
    <3>4. s[n].kept = s[n - 1].kept /\ s[n].purging = TRUE /\ s[n].reachable = s[n - 1].reachable
      BY <3>1, <2>5 DEF PurgeState
    <3> HIDE DEF Reached
    <3>5. Holds(n)
      BY <3>2, <3>3, <3>4, <2>2, <2>4, <2>8
    <3> HIDE DEF Holds
    <3> QED BY <3>5, <2>1
  <2>9. CASE n \in P
    <3>1. /\ s[n].kept = s[n - 1].kept \cup {n}
          /\ s[n].purging = FALSE
          /\ s[n].reachable = s[n - 1].reachable \cup ToSet(Targets(insts[n]))
      BY <2>5, <2>7, <2>9 DEF Purge
    <3>2. {m \in 1..n : m \in P} = {m \in 1..(n - 1) : m \in P} \cup {n}
      BY <2>6, <2>9
    <3>3. Reached(n) = Reached(n - 1) \cup ToSet(Targets(insts[n]))
      BY <3>2
    <3> HIDE DEF Reached
    <3>5. Holds(n)
      BY <3>1, <3>2, <3>3, <2>4, <2>9
    <3> HIDE DEF Holds
    <3> QED BY <3>5, <2>1
  <2> QED BY <2>8, <2>9
<1>3. \A n \in 0..N : Holds(n)
  BY <1>2
<1>4. EliminateDeadCodeImpl(insts) = Only(insts, P)
  <2>1. s[N].kept = {m \in 1..N : m \in P}
    BY <1>3, <1>0
  <2>2. s[N].kept = P
    BY <2>1
  <2> HIDE DEF P
  <2> QED BY <2>2, <1>1 DEF Sweeps
<1>5. ASSUME NEW n \in 1..N
      PROVE  n \notin P <=>
               /\ n > 1
               /\ IF IsLabel(insts[n])
                  THEN /\ EndsBlock(insts[n - 1])
                       /\ \A m \in 1..(n - 1) : m \in P => insts[n].label \notin ToSet(Targets(insts[m]))
                  ELSE n - 1 \notin P
  <2>1. n \notin P <=> Purging(insts, s[n - 1], n)
    OBVIOUS
  <2>2. n - 1 \in 0..N
    BY <1>0
  <2>3. s[n - 1].purging = (n - 1 # 0 /\ n - 1 \notin P)
    BY <1>3, <2>2
  <2>4. s[n - 1].reachable = Reached(n - 1)
    BY <1>3, <2>2
  <2>5. \A l : l \notin Reached(n - 1)
                 <=> \A m \in 1..(n - 1) : m \in P => l \notin ToSet(Targets(insts[m]))
    <3> HIDE DEF P
    <3> QED OBVIOUS
  <2> HIDE DEF P, Reached
  <2>6. CASE IsLabel(insts[n])
    BY <2>1, <2>4, <2>5, <2>6 DEF Purging, Unreachable
  <2>7. CASE ~IsLabel(insts[n])
    <3>1. Purging(insts, s[n - 1], n) = s[n - 1].purging
      BY <2>7 DEF Purging
    <3>2. n > 1 <=> n - 1 # 0
      BY <1>0
    <3> QED BY <2>1, <2>3, <2>7, <3>1, <3>2
  <2> QED BY <2>6, <2>7
<1>6. P \subseteq 1..N
  OBVIOUS
<1> HIDE DEF P
<1>7. Swept(P, insts)
  BY <1>5, <1>6 DEF Swept
<1> QED BY <1>4, <1>7

(* If nothing is missing, nothing was erased.                              *)
LEMMA EmbedsAll ==
  ASSUME NEW insts, insts \in Seq(Instruction), NEW P, NEW at, Embeds(at, insts, insts, P)
  PROVE  \A p \in 1..Len(insts) : p \in P
<1> DEFINE N == Len(insts)
<1>0. N \in Nat
  OBVIOUS
<1> HIDE DEF N
<1>1. /\ \A n \in 1..N : at[n] \in 1..N
      /\ \A m, n \in 1..N : m < n => at[m] < at[n]
      /\ \A n \in 1..N : at[n] \in P
  BY DEF Embeds, N
<1>2. \A n \in 1..N : n <= at[n]
  <2> DEFINE Bad == {n \in 1..N : ~(n <= at[n])}
  <2> SUFFICES ASSUME Bad # {} PROVE FALSE
    OBVIOUS
  <2>0. Bad \subseteq Nat
    OBVIOUS
  <2>1. PICK n \in Bad : \A m \in Bad : n <= m
    BY <2>0, Least
  <2>2. n # 1
    BY <1>1, <2>1
  <2>3. n - 1 \in 1..N /\ n - 1 <= at[n - 1]
    BY <2>1, <2>2, <1>0
  <2>4. at[n - 1] < at[n] /\ at[n - 1] \in 1..N /\ at[n] \in 1..N
    BY <2>1, <2>3, <1>1
  <2> QED BY <2>1, <2>3, <2>4
<1>3. \A k \in 0..(N - 1) : at[N - k] <= N - k
  <2> DEFINE Bad == {k \in 0..(N - 1) : ~(at[N - k] <= N - k)}
  <2> SUFFICES ASSUME Bad # {} PROVE FALSE
    OBVIOUS
  <2>0. Bad \subseteq Nat
    OBVIOUS
  <2>1. PICK k \in Bad : \A m \in Bad : k <= m
    BY <2>0, Least
  <2>2. N - k \in 1..N
    BY <2>1, <1>0
  <2>3. k # 0
    BY <1>1, <2>1, <2>2, <1>0
  <2>4. k - 1 \in 0..(N - 1) /\ N - (k - 1) \in 1..N /\ N - k < N - (k - 1)
    BY <2>1, <2>3, <1>0
  <2>5. at[N - (k - 1)] <= N - (k - 1)
    <3>1. ~(k <= k - 1)
      BY <2>1, <1>0
    <3>2. k - 1 \notin Bad
      <4> HIDE DEF Bad
      <4> QED BY <2>1, <3>1
    <3> QED BY <2>4, <3>2
  <2>6. at[N - k] < at[N - (k - 1)] /\ at[N - k] \in 1..N /\ at[N - (k - 1)] \in 1..N
    BY <2>2, <2>4, <1>1
  <2> QED BY <2>1, <2>2, <2>5, <2>6, <1>0
<1>4. ASSUME NEW p \in 1..N PROVE p \in P
  <2>1. N - p \in 0..(N - 1) /\ N - (N - p) = p
    BY <1>0
  <2>2. at[p] <= p
    BY <2>1, <1>3
  <2>3. at[p] = p
    BY <1>1, <1>2, <2>2
  <2> QED BY <1>1, <2>3
<1> QED BY <1>4 DEF N

(* Every block is entered: control runs into its label or a jump leads to  *)
(* it.                                                                     *)
Entered(insts) ==
  \A n \in DOMAIN insts :
    IsLabel(insts[n]) /\ n > 1 /\ EndsBlock(insts[n - 1])
      => \E m \in 1..(n - 1) : insts[n].label \in ToSet(Targets(insts[m]))

(* What a sweep keeps.                                                     *)
LEMMA SweptKeeps ==
  ASSUME NEW insts, insts \in Seq(Instruction), NEW P, Swept(P, insts)
  PROVE  KeepsBlocks(insts, P) /\ KeepsTargets(insts, P)
<1>1. KeepsBlocks(insts, P)
  BY DEF Swept, KeepsBlocks
<1>2. KeepsTargets(insts, P)
  <2> SUFFICES ASSUME NEW n \in 1..Len(insts), n \in P, NEW l \in ToSet(Targets(insts[n])),
                      NEW m \in Below(insts, n, l)
               PROVE  m \in P
    BY DEF KeepsTargets
  <2>1. m \in 1..Len(insts) /\ n < m /\ insts[m] = Label(l)
    BY DEF Below
  <2>2. IsLabel(insts[m]) /\ insts[m].label = l /\ n \in 1..(m - 1)
    BY <2>1 DEF Label, IsLabel
  <2> QED BY <2>1, <2>2 DEF Swept
<1> QED BY <1>1, <1>2

(* A sweep leaves the code as the first loop does, and when it changes     *)
(* nothing every block is entered.                                         *)
LEMMA PurgeDrops ==
  ASSUME NEW insts, Dropped(insts)
  PROVE  /\ Dropped(EliminateDeadCodeImpl(insts))
         /\ EliminateDeadCodeImpl(insts) = insts => Entered(insts)
<1> DEFINE t == EliminateDeadCodeImpl(insts)
<1>0. insts \in Seq(Instruction)
  BY DEF Dropped
<1>1. PICK P : Swept(P, insts) /\ t = Only(insts, P)
  BY <1>0, SweepKeeps
<1> HIDE DEF t
<1>2. t \in Seq(Instruction) /\ \E at : Embeds(at, t, insts, P)
  BY <1>0, <1>1, OnlyEmbeds
<1>3. PICK at : Embeds(at, t, insts, P)
  BY <1>2
<1>4. KeepsBlocks(insts, P) /\ KeepsTargets(insts, P)
  BY <1>0, <1>1, SweptKeeps
<1>5. JumpsLeadDown(t)
  BY <1>0, <1>2, <1>3, <1>4, EmbedsJumpsLeadDown DEF Dropped
<1>6. LabelsOnce(t)
  BY <1>0, <1>2, <1>3, EmbedsLabelsOnce DEF Dropped
<1>7. LabelsAfterBranches(t)
  BY <1>0, <1>2, <1>3, <1>4, <1>5, EmbedsLabelsAfterBranches DEF Dropped
<1>8. LabelsAfterReturns(t)
  <2> SUFFICES ASSUME NEW n \in 1..Len(t), n + 1 \in 1..Len(t), IsReturn(t[n]),
                      ~IsLabel(t[n + 1])
               PROVE  FALSE
    BY <1>2 DEF LabelsAfterReturns
  <2>1. at[n + 1] = at[n] + 1
    BY <1>0, <1>2, <1>3, <1>4, Neighbours
  <2>2. /\ at[n] \in 1..Len(insts) /\ at[n + 1] \in 1..Len(insts)
        /\ t[n] = insts[at[n]] /\ t[n + 1] = insts[at[n + 1]]
    BY <1>3 DEF Embeds
  <2> QED BY <2>1, <2>2 DEF Dropped, LabelsAfterReturns
<1>9. NoJumps(t)
  BY <1>2, <1>3 DEF NoJumps, Embeds, Dropped
<1>10. ASSUME t = insts PROVE Entered(insts)
  <2>1. \A p \in 1..Len(insts) : p \in P
    BY <1>0, <1>3, <1>10, EmbedsAll
  <2>2. ASSUME NEW n \in 1..Len(insts), IsLabel(insts[n]), n > 1, EndsBlock(insts[n - 1])
        PROVE  \E m \in 1..(n - 1) : insts[n].label \in ToSet(Targets(insts[m]))
    BY <1>1, <2>1, <2>2 DEF Swept
  <2> QED BY <2>2, <1>0 DEF Entered
<1> QED BY <1>2, <1>5, <1>6, <1>7, <1>8, <1>9, <1>10 DEF Dropped, t

-----------------------------------------------------------------------------
(* MergeLabels *)

(* A label belongs to a run of labels with one first label.                *)
LEMMA RunOfLabels ==
  ASSUME NEW insts, insts \in Seq(Instruction), NEW m \in 1..Len(insts), IsLabel(insts[m])
  PROVE  \E f \in 1..m : ~Erased(insts, f) /\ \A k \in f..m : IsLabel(insts[k])
<1> DEFINE T == {f \in 1..m : \A k \in f..m : IsLabel(insts[k])}
<1>1. T \subseteq Nat /\ m \in T
  <2>1. \A k \in m..m : k = m
    OBVIOUS
  <2> QED BY <2>1
<1>2. PICK f \in T : \A g \in T : f <= g
  BY <1>1, Least
<1>3. ~Erased(insts, f)
  <2> SUFFICES ASSUME f > 1, IsLabel(insts[f - 1]) PROVE FALSE
    BY DEF Erased
  <2>1. f - 1 \in 1..m /\ \A k \in (f - 1)..m : k = f - 1 \/ k \in f..m
    BY <1>2
  <2>2. \A k \in (f - 1)..m : IsLabel(insts[k])
    BY <1>2, <2>1
  <2>3. f - 1 \in T
    BY <2>1, <2>2
  <2> HIDE DEF T
  <2>4. f <= f - 1
    BY <2>3, <1>2
  <2>5. f \in Nat
    BY <1>1
  <2> QED BY <2>4, <2>5
<1> QED BY <1>2, <1>3

(* A label instruction is made by Label.                                   *)
LEMMA LabelIs ==
  ASSUME NEW inst \in Instruction, IsLabel(inst)
  PROVE  inst = Label(inst.label) /\ inst.label \in Nat
BY DEF IsLabel, Instruction, Label

(* The new label of l stands at the start of the run l is in.              *)
LEMMA NewLabelIs ==
  ASSUME NEW insts, insts \in Seq(Instruction), LabelsOnce(insts), NEW l,
         NEW m \in 1..Len(insts), insts[m] = Label(l)
  PROVE  \E f \in 1..m : /\ ~Erased(insts, f)
                        /\ \A k \in f..m : IsLabel(insts[k])
                        /\ insts[f] = Label(NewLabel(insts, l))
                        /\ NewLabel(insts, l) \in Nat
<1>0. IsLabel(insts[m])
  BY DEF IsLabel, Label
<1>1. PICK f \in 1..m : ~Erased(insts, f) /\ \A k \in f..m : IsLabel(insts[k])
  BY <1>0, RunOfLabels
<1> DEFINE at == CHOOSE n \in DOMAIN insts : insts[n] = Label(l)
           firsts == {n \in 1..at : IsLabel(insts[n]) /\ ~Erased(insts, n)}
           first == CHOOSE n \in firsts : \A k \in firsts : k <= n
<1>2. at = m
  <2>1. at \in DOMAIN insts /\ insts[at] = Label(l)
    OBVIOUS
  <2> HIDE DEF at
  <2> QED BY <2>1, <1>0 DEF LabelsOnce
<1> HIDE DEF at
<1>3. IsLabel(insts[f]) /\ f \in f..m
  BY <1>1
<1>4. f \in firsts
  BY <1>1, <1>2, <1>3
<1>5. \A g \in firsts : g <= f
  <2> SUFFICES ASSUME NEW g \in firsts, f < g PROVE FALSE
    BY <1>2
  <2>1. g \in 1..m /\ g - 1 \in f..m /\ g > 1
    BY <1>2
  <2>2. IsLabel(insts[g - 1]) /\ IsLabel(insts[g]) /\ ~Erased(insts, g)
    BY <2>1, <1>1
  <2> QED BY <2>1, <2>2 DEF Erased
<1>6. first = f
  <2>1. firsts \subseteq Nat
    BY <1>2
  <2> HIDE DEF firsts
  <2>2. first \in firsts /\ \A k \in firsts : k <= first
    BY <1>4, <1>5
  <2>3. first <= f /\ f <= first
    BY <2>2, <1>4, <1>5
  <2> HIDE DEF first
  <2>4. first \in Nat /\ f \in Nat
    BY <2>1, <2>2
  <2> QED BY <2>3, <2>4
<1>7. NewLabel(insts, l) = insts[f].label
  BY <1>6 DEF NewLabel, first, firsts, at
<1>8. insts[f] \in Instruction
  BY <1>1
<1> QED BY <1>1, <1>3, <1>7, <1>8, LabelIs

(* t is what MergeLabels makes of insts; the n-th instruction stood at     *)
(* at[n].                                                                  *)
Merges(at, t, insts) ==
  /\ t \in Seq(Instruction)
  /\ at \in [1..Len(t) -> 1..Len(insts)]
  /\ \A n \in 1..Len(t) : ~Erased(insts, at[n]) /\ t[n] = Retarget(insts, insts[at[n]])
  /\ \A m, n \in 1..Len(t) : m < n => at[m] < at[n]
  /\ \A p \in 1..Len(insts) : ~Erased(insts, p) => \E n \in 1..Len(t) : at[n] = p

(* A retargeted instruction is of the same kind.                           *)
LEMMA RetargetIs ==
  ASSUME NEW insts, insts \in Seq(Instruction), LabelsOnce(insts), JumpsLeadDown(insts),
         NEW n \in 1..Len(insts)
  PROVE  LET r == Retarget(insts, insts[n])
         IN  /\ r \in Instruction
             /\ r.i = insts[n].i
             /\ ~IsBranch(insts[n]) => r = insts[n]
             /\ IsBranch(insts[n]) => r.true_target = NewLabel(insts, insts[n].true_target)
             /\ insts[n].i = "branch" => /\ r.false_target = NewLabel(insts, insts[n].false_target)
                                         /\ r.atom = insts[n].atom
<1> DEFINE r == Retarget(insts, insts[n])
<1>0. insts[n] \in Instruction
  OBVIOUS
<1>1. \A l \in ToSet(Targets(insts[n])) : NewLabel(insts, l) \in Nat
  <2> SUFFICES ASSUME NEW l \in ToSet(Targets(insts[n])) PROVE NewLabel(insts, l) \in Nat
    OBVIOUS
  <2>1. PICK m : m \in Below(insts, n, l)
    BY DEF JumpsLeadDown
  <2>2. m \in 1..Len(insts) /\ insts[m] = Label(l)
    BY <2>1 DEF Below
  <2> QED BY <2>2, NewLabelIs
<1>2. CASE insts[n].i = "branch"
  <2>1. Targets(insts[n]) = <<insts[n].true_target, insts[n].false_target>>
    BY <1>2 DEF Targets
  <2>2. NewLabel(insts, insts[n].true_target) \in Nat /\ NewLabel(insts, insts[n].false_target) \in Nat
    BY <1>1, <2>1 DEF ToSet
  <2>3. insts[n].atom \in Atoms
    BY <1>0, <1>2 DEF Instruction
  <2>4. r = Branch(insts[n].atom, NewLabel(insts, insts[n].true_target),
                   NewLabel(insts, insts[n].false_target))
    BY <1>2 DEF Retarget
  <2>5. r \in Instruction
    BY <2>2, <2>3, <2>4 DEF Instruction, Branch
  <2> QED BY <1>2, <2>4, <2>5 DEF Branch, IsBranch
<1>3. CASE insts[n].i = "jmp"
  <2>1. Targets(insts[n]) = <<insts[n].true_target>>
    BY <1>3 DEF Targets
  <2>2. NewLabel(insts, insts[n].true_target) \in Nat
    BY <1>1, <2>1 DEF ToSet
  <2>4. r = Jmp(NewLabel(insts, insts[n].true_target))
    BY <1>3 DEF Retarget
  <2>5. r \in Instruction
    BY <2>2, <2>4 DEF Instruction, Jmp
  <2> QED BY <1>3, <2>4, <2>5 DEF Jmp, IsBranch
<1>4. CASE insts[n].i # "branch" /\ insts[n].i # "jmp"
  <2>1. r = insts[n]
    BY <1>4 DEF Retarget
  <2> QED BY <1>0, <1>4, <2>1 DEF IsBranch
<1> QED BY <1>2, <1>3, <1>4

(* MergeLabels keeps the labels that start runs and retargets the branches.*)
LEMMA MergesExists ==
  ASSUME NEW insts, insts \in Seq(Instruction), LabelsOnce(insts), JumpsLeadDown(insts)
  PROVE  \E at : Merges(at, MergeLabels(insts), insts)
<1> DEFINE P == {n \in DOMAIN insts : ~Erased(insts, n)}
           kept == Only(insts, P)
           t == [n \in DOMAIN kept |-> Retarget(insts, kept[n])]
<1>1. kept \in Seq(Instruction) /\ \E at : Embeds(at, kept, insts, P)
  BY OnlyEmbeds
<1>2. MergeLabels(insts) = t
  BY DEF MergeLabels
<1> HIDE DEF kept
<1>3. PICK at : Embeds(at, kept, insts, P)
  BY <1>1
<1>4. /\ at \in [1..Len(kept) -> 1..Len(insts)]
      /\ \A n \in 1..Len(kept) : at[n] \in P /\ kept[n] = insts[at[n]]
      /\ \A m, n \in 1..Len(kept) : m < n => at[m] < at[n]
      /\ \A p \in 1..Len(insts) : p \in P => \E n \in 1..Len(kept) : at[n] = p
  BY <1>3 DEF Embeds
<1>5. \A n \in 1..Len(kept) : Retarget(insts, kept[n]) \in Instruction
  <2> SUFFICES ASSUME NEW n \in 1..Len(kept) PROVE Retarget(insts, kept[n]) \in Instruction
    OBVIOUS
  <2>1. at[n] \in 1..Len(insts) /\ kept[n] = insts[at[n]]
    BY <1>4
  <2> QED BY <2>1, RetargetIs
<1>6. t \in Seq(Instruction) /\ Len(t) = Len(kept) /\ \A n \in 1..Len(kept) : t[n] = Retarget(insts, kept[n])
  BY <1>1, <1>5
<1> HIDE DEF t
<1>7. \A p \in 1..Len(insts) : p \in P <=> ~Erased(insts, p)
  OBVIOUS
<1> HIDE DEF P
<1>8. Merges(at, t, insts)
  BY <1>4, <1>6, <1>7 DEF Merges
<1> QED BY <1>2, <1>8

(* Merged labels are as good as the labels the code came with.             *)
LEMMA MergeLabelsGenerated ==
  ASSUME NEW insts, Generated(insts)
  PROVE  Generated(MergeLabels(insts))
<1> DEFINE t == MergeLabels(insts)
           N == Len(insts)
<1>0. /\ insts \in Seq(Instruction) /\ LabelsOnce(insts) /\ JumpsLeadDown(insts)
      /\ LabelsAfterBranches(insts) /\ N \in Nat
  BY DEF Generated
<1>1. PICK at : Merges(at, t, insts)
  BY <1>0, MergesExists
<1> HIDE DEF t
<1>2. /\ t \in Seq(Instruction)
      /\ \A n \in 1..Len(t) : /\ at[n] \in 1..N /\ ~Erased(insts, at[n])
                              /\ t[n] = Retarget(insts, insts[at[n]])
      /\ \A m, n \in 1..Len(t) : m < n => at[m] < at[n]
      /\ \A p \in 1..N : ~Erased(insts, p) => \E n \in 1..Len(t) : at[n] = p
  BY <1>1 DEF Merges
<1>3. ASSUME NEW n \in 1..Len(t)
      PROVE  /\ t[n].i = insts[at[n]].i
             /\ ~IsBranch(insts[at[n]]) => t[n] = insts[at[n]]
             /\ \A l \in ToSet(Targets(t[n])) :
                  \E k \in ToSet(Targets(insts[at[n]])) : l = NewLabel(insts, k)
  <2> DEFINE inst == insts[at[n]]
  <2>1. at[n] \in 1..N /\ t[n] = Retarget(insts, inst)
    BY <1>2
  <2>2. t[n].i = inst.i /\ (~IsBranch(inst) => t[n] = inst)
    BY <1>0, <2>1, RetargetIs
  <2>3. ASSUME NEW l \in ToSet(Targets(t[n]))
        PROVE  \E k \in ToSet(Targets(inst)) : l = NewLabel(insts, k)
    <3>1. CASE inst.i = "branch"
      <4>1. t[n] = Branch(inst.atom, NewLabel(insts, inst.true_target), NewLabel(insts, inst.false_target))
        BY <2>1, <3>1 DEF Retarget
      <4>2. Targets(t[n]) = <<NewLabel(insts, inst.true_target), NewLabel(insts, inst.false_target)>>
        BY <4>1 DEF Targets, Branch
      <4>3. Targets(inst) = <<inst.true_target, inst.false_target>>
        BY <3>1 DEF Targets
      <4>4. l = NewLabel(insts, inst.true_target) \/ l = NewLabel(insts, inst.false_target)
        BY <2>3, <4>2 DEF ToSet
      <4>5. inst.true_target \in ToSet(Targets(inst)) /\ inst.false_target \in ToSet(Targets(inst))
        BY <4>3 DEF ToSet
      <4> QED BY <4>4, <4>5
    <3>2. CASE inst.i = "jmp"
      <4>1. t[n] = Jmp(NewLabel(insts, inst.true_target))
        BY <2>1, <3>2 DEF Retarget
      <4>2. Targets(t[n]) = <<NewLabel(insts, inst.true_target)>>
        BY <4>1 DEF Targets, Jmp
      <4>3. Targets(inst) = <<inst.true_target>>
        BY <3>2 DEF Targets
      <4>4. l = NewLabel(insts, inst.true_target)
        BY <2>3, <4>2 DEF ToSet
      <4>5. inst.true_target \in ToSet(Targets(inst))
        BY <4>3 DEF ToSet
      <4> QED BY <4>4, <4>5
    <3>3. CASE inst.i # "branch" /\ inst.i # "jmp"
      <4>1. Targets(t[n]) = <<>>
        BY <2>2, <3>3 DEF Targets
      <4> QED BY <4>1, <2>3 DEF ToSet
    <3> QED BY <3>1, <3>2, <3>3
  <2> QED BY <2>2, <2>3
<1>4. LabelsOnce(t)
  <2> SUFFICES ASSUME NEW m \in 1..Len(t), NEW n \in 1..Len(t), IsLabel(t[m]), t[m] = t[n]
               PROVE  m = n
    BY <1>2 DEF LabelsOnce
  <2>1. insts[at[m]] = t[m] /\ insts[at[n]] = t[n] /\ at[m] \in 1..N /\ at[n] \in 1..N
    BY <1>2, <1>3 DEF IsLabel, IsBranch
  <2>2. at[m] = at[n]
    BY <1>0, <2>1 DEF LabelsOnce
  <2>3. (m < n => at[m] < at[n]) /\ (n < m => at[n] < at[m])
    BY <1>2
  <2> QED BY <2>1, <2>2, <2>3
<1>5. JumpsLeadDown(t)
  <2> SUFFICES ASSUME NEW n \in 1..Len(t), NEW l \in ToSet(Targets(t[n]))
               PROVE  Below(t, n, l) # {}
    BY <1>2 DEF JumpsLeadDown
  <2>1. PICK k \in ToSet(Targets(insts[at[n]])) : l = NewLabel(insts, k)
    BY <1>3
  <2>2. at[n] \in 1..N
    BY <1>2
  <2>3. PICK m : m \in Below(insts, at[n], k)
    BY <1>0, <2>1, <2>2 DEF JumpsLeadDown
  <2>4. m \in 1..N /\ at[n] < m /\ insts[m] = Label(k)
    BY <2>3 DEF Below
  <2>5. PICK f \in 1..m : /\ ~Erased(insts, f)
                          /\ \A x \in f..m : IsLabel(insts[x])
                          /\ insts[f] = Label(l)
    BY <1>0, <2>1, <2>4, NewLabelIs
  <2>6. ~IsLabel(insts[at[n]])
    <3>1. Targets(insts[at[n]]) # <<>>
      BY <2>1 DEF ToSet
    <3> QED BY <3>1 DEF Targets, IsLabel
  <2>7. at[n] < f
    BY <2>2, <2>4, <2>5, <2>6
  <2>8. f \in 1..N
    BY <2>4, <2>5
  <2>9. PICK j \in 1..Len(t) : at[j] = f
    BY <1>2, <2>5, <2>8
  <2>10. t[j] = Label(l)
    BY <1>3, <2>5, <2>9 DEF IsBranch, Label
  <2>11. n < j
    <3>1. j < n => at[j] < at[n]
      BY <1>2
    <3>2. at[j] \in Nat /\ at[n] \in Nat
      BY <2>2, <2>9
    <3> QED BY <3>1, <3>2, <2>7, <2>9
  <2> QED BY <1>2, <2>10, <2>11 DEF Below
<1>6. LabelsAfterBranches(t)
  <2> SUFFICES ASSUME NEW n \in 1..Len(t), IsBranch(t[n]) PROVE LabelAfter(t, n)
    BY <1>2 DEF LabelsAfterBranches
  <2>1. at[n] \in 1..N /\ IsBranch(insts[at[n]])
    BY <1>2, <1>3 DEF IsBranch
  <2>2. at[n] + 1 \in 1..N /\ IsLabel(insts[at[n] + 1])
    BY <1>0, <2>1 DEF LabelsAfterBranches, LabelAfter
  <2>3. ~Erased(insts, at[n] + 1)
    <3>1. (at[n] + 1) - 1 = at[n] /\ ~IsLabel(insts[at[n]])
      BY <2>1 DEF IsBranch, IsLabel
    <3> QED BY <3>1 DEF Erased
  <2>4. PICK j \in 1..Len(t) : at[j] = at[n] + 1
    BY <1>2, <2>2, <2>3
  <2>5. j = n + 1
    <3>1. j < n => at[j] < at[n]
      BY <1>2
    <3>2. n + 1 < j => n + 1 \in 1..Len(t) /\ at[n] < at[n + 1] /\ at[n + 1] < at[j] /\ at[n + 1] \in 1..N
      BY <1>2
    <3>3. j # n
      BY <2>1, <2>4
    <3> QED BY <3>1, <3>2, <3>3, <2>1, <2>4
  <2>6. IsLabel(t[j])
    BY <1>3, <2>2, <2>4 DEF IsLabel
  <2> QED BY <1>2, <2>5, <2>6 DEF LabelAfter
<1>7. t # <<>> => ~IsDirectJMP(t[1])
  <2> SUFFICES ASSUME t # <<>> PROVE ~IsDirectJMP(t[1])
    OBVIOUS
  <2>1. 1 \in 1..Len(t) /\ N # 0
    BY <1>2
  <2>2. 1 \in 1..N /\ ~Erased(insts, 1)
    BY <2>1, <1>0 DEF Erased
  <2>3. PICK j \in 1..Len(t) : at[j] = 1
    BY <1>2, <2>2
  <2>4. j = 1
    <3>1. 1 < j => at[1] < at[j] /\ at[1] \in 1..N
      BY <1>2, <2>1
    <3> QED BY <3>1, <2>3
  <2>5. t[1].i = insts[1].i
    BY <1>3, <2>3, <2>4
  <2>6. insts # <<>>
    BY <2>1, <1>0
  <2> QED BY <2>5, <2>6 DEF Generated, IsDirectJMP
<1> QED BY <1>2, <1>4, <1>5, <1>6, <1>7 DEF Generated, t

-----------------------------------------------------------------------------
(* What code does *)

(* A run looks only at what is below it.                                   *)
LEMMA RunFromBelow ==
  ASSUME NEW insts, insts \in Seq(Instruction), NEW value, NEW n \in 1..(Len(insts) + 1), NEW R, NEW S,
         \A m \in (n + 1)..(Len(insts) + 1) : R[m] = S[m]
  PROVE  RunFrom(insts, value, n, R) = RunFrom(insts, value, n, S)
<1>0. Len(insts) \in Nat
  OBVIOUS
<1>1. CASE n > Len(insts)
  BY <1>1 DEF RunFrom
<1>2. CASE n <= Len(insts)
  <2>1. n + 1 \in (n + 1)..(Len(insts) + 1)
    BY <1>0, <1>2
  <2>2. R[n + 1] = S[n + 1]
    BY <2>1
  <2>3. CASE IsReturn(insts[n])
    <3>1. ~IsBranch(insts[n]) /\ ~IsLabel(insts[n]) /\ ~(n > Len(insts))
      BY <1>0, <1>2, <2>3 DEF IsReturn, IsBranch, IsLabel
    <3> QED BY <1>2, <2>3, <3>1 DEF RunFrom
  <2>4. CASE IsBranch(insts[n])
    <3> DEFINE places == Below(insts, n, Taken(insts[n], value))
               place == CHOOSE m \in places : TRUE
    <3>1. ~IsReturn(insts[n]) /\ ~IsLabel(insts[n]) /\ ~(n > Len(insts))
      BY <1>0, <1>2, <2>4 DEF IsReturn, IsBranch, IsLabel
    <3>2. CASE places = {}
      BY <1>2, <2>4, <3>1, <3>2, <1>0 DEF RunFrom
    <3>3. CASE places # {}
      <4>1. place \in places
        BY <3>3
      <4>2. place \in (n + 1)..(Len(insts) + 1)
        BY <4>1, <1>0 DEF Below
      <4>3. R[place] = S[place]
        BY <4>2
      <4>4. RunFrom(insts, value, n, R) = R[place]
        BY <1>2, <2>4, <3>1, <3>3, <1>0 DEF RunFrom
      <4>5. RunFrom(insts, value, n, S) = S[place]
        BY <1>2, <2>4, <3>1, <3>3, <1>0 DEF RunFrom
      <4> QED BY <4>3, <4>4, <4>5
    <3> QED BY <3>2, <3>3
  <2>5. CASE ~IsReturn(insts[n]) /\ ~IsBranch(insts[n])
    BY <1>2, <2>2, <2>5, <1>0 DEF RunFrom
  <2> QED BY <2>3, <2>4, <2>5
<1> QED BY <1>0, <1>1, <1>2

(* R[n] is what insts do from n on.                                        *)
Runs(R, insts, value) ==
  /\ \A n \in 1..(Len(insts) + 1) : R[n] = RunFrom(insts, value, n, R)
  /\ Outcome(insts, value) = R[1]

(* The run of a piece of code exists: it goes down only.                   *)
LEMMA RunsExists ==
  ASSUME NEW insts, insts \in Seq(Instruction), NEW value
  PROVE  \E R : Runs(R, insts, value)
<1> DEFINE N == Len(insts)
           Good(g, k) == /\ g = [n \in 1..(N + 1) |-> g[n]]
                         /\ \A n \in (N + 1 - k)..(N + 1) : g[n] = RunFrom(insts, value, n, g)
           Bad == {k \in 0..N : ~\E g : Good(g, k)}
<1>0. N \in Nat
  OBVIOUS
<1> HIDE DEF N
<1>1. ASSUME Bad # {} PROVE FALSE
  <2>0. Bad \subseteq Nat
    OBVIOUS
  <2>1. PICK k \in Bad : \A m \in Bad : k <= m
    BY <1>1, <2>0, Least
  <2>2. k # 0
    <3> DEFINE g == [n \in 1..(N + 1) |-> Started]
    <3>1. \A n \in (N + 1 - 0)..(N + 1) : n = N + 1
      BY <1>0
    <3>2. RunFrom(insts, value, N + 1, g) = Started
      BY <1>0 DEF RunFrom, N
    <3>3. g[N + 1] = Started /\ g = [n \in 1..(N + 1) |-> g[n]]
      BY <1>0
    <3> HIDE DEF g
    <3>4. Good(g, 0)
      BY <3>1, <3>2, <3>3
    <3> HIDE DEF Good
    <3> QED BY <3>4, <2>1
  <2>3. k - 1 \in 0..N /\ ~(k <= k - 1) /\ k \in 0..N
    BY <2>1, <2>2, <1>0
  <2>4. k - 1 \notin Bad
    <3> HIDE DEF Bad
    <3> QED BY <2>1, <2>3
  <2>5. PICK g : Good(g, k - 1)
    BY <2>3, <2>4
  <2> DEFINE p == N + 1 - k
             h == [n \in 1..(N + 1) |-> IF n = p THEN RunFrom(insts, value, p, g) ELSE g[n]]
  <2>6. p \in 1..(N + 1) /\ \A n \in p..(N + 1) : n \in 1..(N + 1) /\ (n = p \/ n \in (N + 1 - (k - 1))..(N + 1))
    BY <2>3, <1>0
  <2>7. h = [n \in 1..(N + 1) |-> h[n]]
    OBVIOUS
  <2>8. \A n \in 1..(N + 1) : h[n] = IF n = p THEN RunFrom(insts, value, p, g) ELSE g[n]
    OBVIOUS
  <2> HIDE DEF p, h
  <2>9. ASSUME NEW n \in p..(N + 1) PROVE h[n] = RunFrom(insts, value, n, h)
    <3>1. n \in 1..(N + 1)
      BY <2>6
    <3>2. \A m \in (n + 1)..(N + 1) : m \in 1..(N + 1) /\ m # p
      BY <2>6, <1>0
    <3>3. \A m \in (n + 1)..(N + 1) : h[m] = g[m]
      BY <2>8, <3>2
    <3>4. RunFrom(insts, value, n, h) = RunFrom(insts, value, n, g)
      BY <3>1, <3>3, RunFromBelow DEF N
    <3>5. n # p => g[n] = RunFrom(insts, value, n, g)
      BY <2>5, <2>6
    <3> QED BY <2>8, <3>1, <3>4, <3>5
  <2>10. Good(h, k)
    BY <2>7, <2>9 DEF p
  <2> HIDE DEF Good
  <2> QED BY <2>1, <2>10
<1>2. N \in 0..N /\ N \notin Bad
  BY <1>0, <1>1
<1>3. PICK g : Good(g, N)
  BY <1>2
<1>4. \A n \in 1..(N + 1) : g[n] = RunFrom(insts, value, n, g)
  BY <1>3, <1>0
<1>5. g = [n \in 1..(N + 1) |-> RunFrom(insts, value, n, g)]
  <2>1. g = [n \in 1..(N + 1) |-> g[n]]
    BY <1>3
  <2> HIDE DEF Good
  <2> QED BY <1>4, <2>1
<1> DEFINE R == CHOOSE f : f = [n \in 1..(N + 1) |-> RunFrom(insts, value, n, f)]
<1>6. R = [n \in 1..(N + 1) |-> RunFrom(insts, value, n, R)]
  BY <1>5
<1>7. Outcome(insts, value) = R[1]
  BY DEF Outcome, N
<1> HIDE DEF R
<1>8. \A n \in 1..(N + 1) : R[n] = RunFrom(insts, value, n, R)
  BY <1>6
<1> QED BY <1>7, <1>8 DEF Runs, N

(* One step of a run.                                                      *)
StepOf(R, insts, value, n) ==
  /\ IsReturn(insts[n]) => R[n] = [Started EXCEPT !.verdict = insts[n].value]
  /\ IsBranch(insts[n]) =>
       LET places == Below(insts, n, Taken(insts[n], value))
       IN  /\ places = {} => R[n] = [Started EXCEPT !.verdict = "stuck"]
           /\ \A m : places = {m} => R[n] = R[m]
  /\ IsLabel(insts[n]) => R[n] = R[n + 1]
  /\ ~EndsBlock(insts[n]) /\ ~IsLabel(insts[n])
       => R[n] = [R[n + 1] EXCEPT !.effects = <<insts[n]>> \o @]

(* What each instruction does in a run, by its kind.                       *)
LEMMA RunStep ==
  ASSUME NEW insts, insts \in Seq(Instruction), NEW value, NEW R, Runs(R, insts, value)
  PROVE  /\ R[Len(insts) + 1] = Started
         /\ \A n \in 1..Len(insts) : StepOf(R, insts, value, n)
<1>0. Len(insts) \in Nat
  OBVIOUS
<1>1. R[Len(insts) + 1] = Started
  <2> DEFINE n == Len(insts) + 1
  <2>1. R[n] = RunFrom(insts, value, n, R) /\ n > Len(insts) /\ ~(n <= Len(insts))
    BY <1>0 DEF Runs
  <2> HIDE DEF n
  <2>2. R[n] = Started
    BY <2>1 DEF RunFrom
  <2> QED BY <2>2 DEF n
<1>2. ASSUME NEW n \in 1..Len(insts) PROVE StepOf(R, insts, value, n)
  <2>1. R[n] = RunFrom(insts, value, n, R) /\ n <= Len(insts) /\ ~(n > Len(insts))
    BY <1>0 DEF Runs
  <2>2. IsReturn(insts[n]) => R[n] = [Started EXCEPT !.verdict = insts[n].value]
    <3>1. IsReturn(insts[n]) => ~IsBranch(insts[n]) /\ ~IsLabel(insts[n])
      BY DEF IsReturn, IsBranch, IsLabel
    <3> QED BY <2>1, <3>1 DEF RunFrom
  <2>3. CASE IsBranch(insts[n])
    <3>1. ~IsReturn(insts[n]) /\ ~IsLabel(insts[n])
      BY <2>3 DEF IsBranch, IsReturn, IsLabel
    <3>2. R[n] = LET places == Below(insts, n, Taken(insts[n], value))
                 IN  IF places = {} THEN [Started EXCEPT !.verdict = "stuck"]
                     ELSE R[CHOOSE m \in places : TRUE]
      BY <2>1, <2>3, <3>1 DEF RunFrom
    <3> QED BY <3>1, <3>2, <2>3 DEF EndsBlock, StepOf
  <2>4. CASE ~IsBranch(insts[n])
    <3>1. IsLabel(insts[n]) => ~IsReturn(insts[n])
      BY DEF IsLabel, IsReturn
    <3>2. IsLabel(insts[n]) => R[n] = R[n + 1]
      BY <2>1, <2>4, <3>1 DEF RunFrom
    <3>3. ~EndsBlock(insts[n]) /\ ~IsLabel(insts[n])
             => R[n] = [R[n + 1] EXCEPT !.effects = <<insts[n]>> \o @]
      BY <2>1, <2>4 DEF RunFrom, EndsBlock
    <3> QED BY <2>2, <2>4, <3>2, <3>3 DEF StepOf
  <2> QED BY <2>3, <2>4
<1> QED BY <1>1, <1>2

(* A branch takes one of its targets.                                      *)
LEMMA TakenIsTarget ==
  ASSUME NEW inst \in Instruction, IsBranch(inst), NEW value
  PROVE  Taken(inst, value) \in ToSet(Targets(inst))
<1>1. CASE inst.i = "branch"
  <2>1. Targets(inst) = <<inst.true_target, inst.false_target>>
    BY <1>1 DEF Targets
  <2> QED BY <2>1 DEF Taken, ToSet
<1>2. CASE inst.i = "jmp"
  <2>1. Targets(inst) = <<inst.true_target>>
    BY <1>2 DEF Targets
  <2> QED BY <1>2, <2>1 DEF Taken, ToSet
<1> QED BY <1>1, <1>2 DEF IsBranch

(* A label is in one place at most.                                        *)
LEMMA BelowIsOne ==
  ASSUME NEW insts, insts \in Seq(Instruction), LabelsOnce(insts), NEW n, NEW l,
         NEW m \in Below(insts, n, l)
  PROVE  Below(insts, n, l) = {m}
<1>1. ASSUME NEW k \in Below(insts, n, l) PROVE k = m
  BY DEF Below, LabelsOnce, IsLabel, Label
<1> QED BY <1>1

(* A sweep changes nothing in what the code does.                          *)
LEMMA PurgeKeepsOutcome ==
  ASSUME NEW insts, insts \in Seq(Instruction), LabelsOnce(insts), NEW value
  PROVE  Outcome(EliminateDeadCodeImpl(insts), value) = Outcome(insts, value)
<1> DEFINE t == EliminateDeadCodeImpl(insts)
           N == Len(insts)
           M == Len(t)
<1>1. PICK P : Swept(P, insts) /\ t = Only(insts, P)
  BY SweepKeeps
<1>2. t \in Seq(Instruction) /\ \E at : Embeds(at, t, insts, P)
  BY <1>1, OnlyEmbeds
<1> HIDE DEF t
<1>3. PICK at : Embeds(at, t, insts, P)
  BY <1>2
<1>4. /\ \A n \in 1..M : at[n] \in 1..N /\ at[n] \in P /\ t[n] = insts[at[n]]
      /\ \A m, n \in 1..M : m < n => at[m] < at[n]
      /\ \A p \in 1..N : p \in P => \E n \in 1..M : at[n] = p
  BY <1>3 DEF Embeds
<1>5. N \in Nat /\ M \in Nat
  BY <1>2
<1>6. LabelsOnce(t)
  BY <1>2, <1>3, EmbedsLabelsOnce
<1>7. KeepsTargets(insts, P)
  BY <1>1, SweptKeeps
<1>8. PICK R : Runs(R, insts, value)
  BY RunsExists
<1>9. PICK S : Runs(S, t, value)
  BY <1>2, RunsExists
<1> DEFINE pos(n) == IF n <= M THEN at[n] ELSE N + 1
<1>10. ASSUME NEW n \in 1..M, ~EndsBlock(insts[at[n]])
       PROVE  pos(n + 1) = at[n] + 1
  <2>1. CASE at[n] = N
    <3>1. ~(n + 1 <= M)
      <4> SUFFICES ASSUME n + 1 <= M PROVE FALSE
        OBVIOUS
      <4>1. n + 1 \in 1..M
        BY <1>5
      <4>2. at[n] < at[n + 1] /\ at[n + 1] \in 1..N
        BY <1>4, <4>1
      <4> QED BY <4>2, <2>1, <1>5
    <3> QED BY <3>1, <2>1
  <2>2. CASE at[n] # N
    <3>1. at[n] + 1 \in 1..N /\ at[n] \in P /\ (at[n] + 1) - 1 = at[n]
      BY <1>4, <1>5, <2>2
    <3>2. at[n] + 1 \in P
      BY <1>1, <1>10, <3>1 DEF Swept
    <3>3. PICK j \in 1..M : at[j] = at[n] + 1
      BY <1>4, <3>1, <3>2
    <3>4. at[n] \in Nat
      BY <1>4
    <3>5. (j < n => at[j] < at[n]) /\ j # n
      BY <1>4, <3>3, <3>4
    <3>6. n + 1 < j => n + 1 \in 1..M /\ at[n] < at[n + 1] /\ at[n + 1] < at[j] /\ at[n + 1] \in 1..N
      BY <1>4, <1>5
    <3>7. j = n + 1
      BY <3>3, <3>4, <3>5, <3>6
    <3> QED BY <3>3, <3>7
  <2> QED BY <2>1, <2>2
<1> HIDE DEF N, M
<1>11. ASSUME NEW n \in 1..M, \A m \in (n + 1)..(M + 1) : S[m] = R[pos(m)]
       PROVE  S[n] = R[at[n]]
  <2> DEFINE inst == insts[at[n]]
  <2>1. at[n] \in 1..N /\ t[n] = inst /\ at[n] \in P /\ inst \in Instruction
    BY <1>4 DEF N
  <2>2. StepOf(R, insts, value, at[n]) /\ StepOf(S, t, value, n)
    BY <2>1, <1>2, <1>8, <1>9, RunStep DEF N, M
  <2>3. n + 1 \in (n + 1)..(M + 1)
    BY <1>5
  <2>4. S[n + 1] = R[pos(n + 1)]
    BY <1>11, <2>3
  <2>5. CASE IsReturn(inst)
    BY <2>1, <2>5, <2>2 DEF StepOf
  <2>6. CASE ~EndsBlock(inst)
    <3>1. pos(n + 1) = at[n] + 1
      BY <1>10, <2>6
    <3>2. S[n + 1] = R[at[n] + 1]
      BY <2>4, <3>1
    <3>3. CASE IsLabel(inst)
      <4>1. R[at[n]] = R[at[n] + 1]
        BY <2>1, <3>3, <2>2 DEF StepOf
      <4>2. S[n] = S[n + 1]
        BY <2>1, <3>3, <2>2 DEF StepOf
      <4> QED BY <3>2, <4>1, <4>2
    <3>4. CASE ~IsLabel(inst)
      <4>1. R[at[n]] = [R[at[n] + 1] EXCEPT !.effects = <<inst>> \o @]
        BY <2>1, <2>6, <3>4, <2>2 DEF StepOf
      <4>2. S[n] = [S[n + 1] EXCEPT !.effects = <<inst>> \o @]
        BY <2>1, <2>6, <3>4, <2>2 DEF StepOf
      <4> QED BY <3>2, <4>1, <4>2
    <3> QED BY <3>3, <3>4
  <2>7. CASE IsBranch(inst)
    <3> DEFINE l == Taken(inst, value)
    <3>1. l \in ToSet(Targets(inst))
      BY <2>1, <2>7, TakenIsTarget
    <3> HIDE DEF l
    <3>2. /\ \A m \in Below(t, n, l) : at[m] \in Below(insts, at[n], l)
          /\ \A p \in Below(insts, at[n], l) : p \in P => \E m \in Below(t, n, l) : at[m] = p
      BY <1>2, <1>3, EmbedsBelow DEF M
    <3>3. CASE Below(insts, at[n], l) = {}
      <4>1. Below(t, n, l) = {}
        BY <3>2, <3>3
      <4>2. R[at[n]] = [Started EXCEPT !.verdict = "stuck"]
        BY <2>1, <2>7, <3>3, <2>2 DEF StepOf, l
      <4>3. S[n] = [Started EXCEPT !.verdict = "stuck"]
        BY <2>1, <2>7, <4>1, <2>2 DEF StepOf, l
      <4> QED BY <4>2, <4>3
    <3>4. CASE Below(insts, at[n], l) # {}
      <4>1. PICK p : p \in Below(insts, at[n], l)
        BY <3>4
      <4>2. p \in P
        BY <1>7, <2>1, <3>1, <4>1 DEF KeepsTargets, N
      <4>3. PICK m \in Below(t, n, l) : at[m] = p
        BY <3>2, <4>1, <4>2
      <4>4. Below(insts, at[n], l) = {p} /\ Below(t, n, l) = {m}
        BY <1>2, <1>6, <4>1, BelowIsOne
      <4>5. R[at[n]] = R[p]
        BY <2>1, <2>7, <4>4, <2>2 DEF StepOf, l
      <4>6. S[n] = S[m]
        BY <2>1, <2>7, <4>4, <2>2 DEF StepOf, l
      <4>7. m \in (n + 1)..(M + 1) /\ m <= M
        BY <1>2, <1>5 DEF Below, M
      <4>8. S[m] = R[at[m]]
        BY <1>11, <4>7
      <4> QED BY <4>3, <4>5, <4>6, <4>8
    <3> QED BY <3>3, <3>4
  <2> QED BY <2>5, <2>6, <2>7 DEF EndsBlock
<1>12. \A k \in 0..M : S[M + 1 - k] = R[pos(M + 1 - k)]
  <2> DEFINE Same(n) == S[n] = R[pos(n)]
             Bad == {k \in 0..M : ~Same(M + 1 - k)}
  <2> SUFFICES ASSUME Bad # {} PROVE FALSE
    OBVIOUS
  <2>0. Bad \subseteq Nat
    OBVIOUS
  <2>1. PICK k \in Bad : \A m \in Bad : k <= m
    BY <2>0, Least
  <2>2. k # 0
    <3>1. M + 1 - 0 = M + 1 /\ ~(M + 1 <= M)
      BY <1>5
    <3>2. S[M + 1] = Started /\ R[N + 1] = Started
      BY <1>2, <1>8, <1>9, RunStep DEF M, N
    <3>3. Same(M + 1 - 0)
      BY <3>1, <3>2
    <3> HIDE DEF Same
    <3> QED BY <2>1, <3>3
  <2> DEFINE n == M + 1 - k
  <2>3. n \in 1..M
    BY <1>5, <2>1, <2>2
  <2>4. \A m \in (n + 1)..(M + 1) : M + 1 - m \in 0..M /\ M + 1 - m < k /\ M + 1 - (M + 1 - m) = m
    BY <1>5, <2>3
  <2>5. \A m \in (n + 1)..(M + 1) : M + 1 - m \notin Bad
    <3> SUFFICES ASSUME NEW m \in (n + 1)..(M + 1), M + 1 - m \in Bad PROVE FALSE
      OBVIOUS
    <3>1. k <= M + 1 - m
      BY <2>1
    <3> QED BY <2>0, <2>1, <2>4, <3>1
  <2>6. \A m \in (n + 1)..(M + 1) : Same(m)
    <3> HIDE DEF Same
    <3> QED BY <2>4, <2>5
  <2>7. S[n] = R[at[n]]
    BY <1>11, <2>3, <2>6
  <2>8. Same(n)
    BY <2>3, <2>7
  <2> HIDE DEF Same
  <2> QED BY <2>1, <2>8
<1>13. S[1] = R[pos(1)]
  <2>1. M \in 0..M /\ M + 1 - M = 1
    BY <1>5
  <2> QED BY <1>12, <2>1
<1>14. pos(1) = 1
  <2>1. CASE N = 0
    <3>1. M = 0
      <4> SUFFICES ASSUME M # 0 PROVE FALSE
        OBVIOUS
      <4>1. 1 \in 1..M
        BY <1>5
      <4> QED BY <1>4, <2>1, <4>1
    <3> QED BY <2>1, <3>1
  <2>2. CASE N # 0
    <3>1. 1 \in 1..N /\ 1 \in P
      BY <1>1, <1>5, <2>2 DEF Swept, N
    <3>2. PICK j \in 1..M : at[j] = 1
      BY <1>4, <3>1
    <3>3. 1 \in 1..M /\ (1 < j => at[1] < at[j]) /\ at[1] \in 1..N
      BY <1>4, <1>5
    <3>4. j = 1
      BY <3>2, <3>3
    <3> QED BY <3>2, <3>3, <3>4
  <2> QED BY <2>1, <2>2
<1> QED BY <1>8, <1>9, <1>13, <1>14 DEF Runs, t

(* The blocks EliminateDeadCodeImpl erases are not reached.                *)
LEMMA PurgeKeepsBehavior ==
  ASSUME NEW insts, insts \in Seq(Instruction), LabelsOnce(insts)
  PROVE  Behavior(EliminateDeadCodeImpl(insts)) = Behavior(insts)
<1>1. \A value \in Values : Outcome(EliminateDeadCodeImpl(insts), value) = Outcome(insts, value)
  BY PurgeKeepsOutcome
<1> QED BY <1>1 DEF Behavior

(* A run goes through labels.                                              *)
LEMMA RunThroughLabels ==
  ASSUME NEW insts, insts \in Seq(Instruction), NEW value, NEW R, Runs(R, insts, value),
         NEW a \in 1..(Len(insts) + 1), NEW b \in a..(Len(insts) + 1),
         \A n \in a..(b - 1) : IsLabel(insts[n])
  PROVE  R[a] = R[b]
<1> DEFINE N == Len(insts)
           Bad == {n \in a..b : R[n] # R[a]}
<1>0. N \in Nat
  OBVIOUS
<1>1. \A n \in 1..N : StepOf(R, insts, value, n)
  BY RunStep
<1> HIDE DEF N
<1>2. ASSUME Bad # {} PROVE FALSE
  <2>0. Bad \subseteq Nat
    OBVIOUS
  <2>1. PICK n \in Bad : \A m \in Bad : n <= m
    BY <1>2, <2>0, Least
  <2>2. n # a
    BY <2>1
  <2>3. n - 1 \in a..(b - 1) /\ n - 1 \in a..b /\ n - 1 \in 1..N /\ (n - 1) + 1 = n /\ ~(n <= n - 1)
    BY <2>1, <2>2, <1>0 DEF N
  <2>4. n - 1 \notin Bad
    <3> HIDE DEF Bad
    <3> QED BY <2>1, <2>3
  <2>5. R[n - 1] = R[a]
    BY <2>3, <2>4
  <2>6. R[n - 1] = R[n]
    BY <2>3, <1>1 DEF StepOf
  <2> QED BY <2>1, <2>5, <2>6
<1>3. b \in a..b
  OBVIOUS
<1> QED BY <1>2, <1>3

(* Merging labels changes nothing in what the code does.                   *)
LEMMA MergeKeepsOutcome ==
  ASSUME NEW insts, Generated(insts), NEW value
  PROVE  Outcome(MergeLabels(insts), value) = Outcome(insts, value)
<1> DEFINE t == MergeLabels(insts)
           N == Len(insts)
           M == Len(t)
<1>1. insts \in Seq(Instruction) /\ LabelsOnce(insts) /\ JumpsLeadDown(insts)
  BY DEF Generated
<1>2. LabelsOnce(t)
  BY MergeLabelsGenerated DEF Generated
<1>3. PICK at : Merges(at, t, insts)
  BY <1>1, MergesExists
<1> HIDE DEF t
<1>4. /\ t \in Seq(Instruction)
      /\ \A n \in 1..M : at[n] \in 1..N /\ t[n] = Retarget(insts, insts[at[n]])
      /\ \A m, n \in 1..M : m < n => at[m] < at[n]
      /\ \A p \in 1..N : ~Erased(insts, p) => \E n \in 1..M : at[n] = p
  BY <1>3 DEF Merges
<1>5. N \in Nat /\ M \in Nat
  BY <1>1, <1>4
<1>6. PICK R : Runs(R, insts, value)
  BY <1>1, RunsExists
<1>7. PICK S : Runs(S, t, value)
  BY <1>4, RunsExists
<1> DEFINE pos(n) == IF n <= M THEN at[n] ELSE N + 1
<1>8. ASSUME NEW n \in 1..M PROVE R[at[n] + 1] = R[pos(n + 1)]
  <2>1. at[n] \in 1..N /\ at[n] + 1 \in 1..(N + 1)
    BY <1>4, <1>5
  <2>2. pos(n + 1) \in (at[n] + 1)..(N + 1)
    <3>1. CASE n + 1 <= M
      <4>1. n + 1 \in 1..M
        BY <1>5, <3>1
      <4>2. at[n] < at[n + 1] /\ at[n + 1] \in 1..N
        BY <1>4, <4>1
      <4> QED BY <3>1, <4>2, <2>1, <1>5
    <3>2. CASE ~(n + 1 <= M)
      BY <3>2, <2>1, <1>5
    <3> QED BY <3>1, <3>2
  <2>3. ASSUME NEW q \in (at[n] + 1)..(pos(n + 1) - 1) PROVE IsLabel(insts[q])
    <3>1. q \in 1..N /\ at[n] < q /\ q < pos(n + 1)
      BY <2>1, <2>2, <1>5
    <3>2. ASSUME NEW j \in 1..M, at[j] = q PROVE FALSE
      <4>1. (j < n => at[j] < at[n]) /\ j # n
        BY <1>4, <3>1, <3>2, <2>1
      <4>2. n < j
        BY <4>1, <3>1, <3>2, <2>1
      <4>3. n + 1 <= M /\ n + 1 \in 1..M
        BY <4>2, <1>5
      <4>4. pos(n + 1) = at[n + 1] /\ at[n + 1] \in 1..N
        BY <4>3, <1>4
      <4>5. n + 1 < j => at[n + 1] < at[j]
        BY <1>4, <4>3
      <4>6. j = n + 1 \/ n + 1 < j
        BY <4>2
      <4> HIDE DEF pos
      <4> QED BY <4>4, <4>5, <4>6, <3>1, <3>2
    <3>3. Erased(insts, q)
      BY <1>4, <3>1, <3>2
    <3> QED BY <3>3 DEF Erased
  <2> DEFINE a == at[n] + 1
             b == pos(n + 1)
  <2>4. /\ a \in 1..(Len(insts) + 1)
        /\ b \in a..(Len(insts) + 1)
        /\ \A q \in a..(b - 1) : IsLabel(insts[q])
    <3> HIDE DEF pos
    <3> QED BY <2>1, <2>2, <2>3
  <2> HIDE DEF a, b
  <2>5. R[a] = R[b]
    BY <1>1, <1>6, <2>4, RunThroughLabels
  <2> QED BY <2>5 DEF a, b
<1> HIDE DEF N, M
<1>9. ASSUME NEW n \in 1..M, \A m \in (n + 1)..(M + 1) : S[m] = R[pos(m)]
      PROVE  S[n] = R[at[n]]
  <2> DEFINE inst == insts[at[n]]
  <2>1. at[n] \in 1..N /\ inst \in Instruction /\ t[n] = Retarget(insts, inst)
    BY <1>1, <1>4 DEF N
  <2>2. /\ t[n].i = inst.i
        /\ ~IsBranch(inst) => t[n] = inst
        /\ IsBranch(inst) => t[n].true_target = NewLabel(insts, inst.true_target)
        /\ inst.i = "branch" => /\ t[n].false_target = NewLabel(insts, inst.false_target)
                                /\ t[n].atom = inst.atom
    BY <2>1, <1>1, RetargetIs DEF N
  <2>3. StepOf(R, insts, value, at[n]) /\ StepOf(S, t, value, n)
    BY <2>1, <1>1, <1>4, <1>6, <1>7, RunStep DEF N, M
  <2>4. S[n + 1] = R[at[n] + 1]
    <3>1. n + 1 \in (n + 1)..(M + 1)
      BY <1>5
    <3>2. S[n + 1] = R[pos(n + 1)]
      BY <1>9, <3>1
    <3> QED BY <1>8, <3>2
  <2>5. CASE IsReturn(inst)
    <3>1. t[n] = inst
      BY <2>2, <2>5 DEF IsReturn, IsBranch
    <3> QED BY <2>3, <2>5, <3>1 DEF StepOf
  <2>6. CASE ~EndsBlock(inst)
    <3>1. t[n] = inst
      BY <2>2, <2>6 DEF EndsBlock
    <3>2. CASE IsLabel(inst)
      BY <2>3, <2>4, <3>1, <3>2 DEF StepOf
    <3>3. CASE ~IsLabel(inst)
      BY <2>3, <2>4, <2>6, <3>1, <3>3 DEF StepOf
    <3> QED BY <3>2, <3>3
  <2>7. CASE IsBranch(inst)
    <3> DEFINE l == Taken(inst, value)
    <3>0. IsBranch(t[n])
      BY <2>2, <2>7 DEF IsBranch
    <3>1. l \in ToSet(Targets(inst)) /\ Taken(t[n], value) = NewLabel(insts, l)
      BY <2>1, <2>2, <2>7, TakenIsTarget DEF Taken, IsBranch
    <3> HIDE DEF l
    <3>2. PICK m : m \in Below(insts, at[n], l)
      BY <1>1, <2>1, <3>1 DEF JumpsLeadDown, N
    <3>3. m \in 1..N /\ at[n] < m /\ insts[m] = Label(l)
      BY <1>1, <3>2 DEF Below, N
    <3>4. PICK f \in 1..m : /\ ~Erased(insts, f)
                            /\ \A k \in f..m : IsLabel(insts[k])
                            /\ insts[f] = Label(NewLabel(insts, l))
      BY <1>1, <3>3, NewLabelIs DEF N
    <3>5. at[n] < f /\ f \in 1..N
      <4>1. ~IsLabel(inst)
        BY <2>7 DEF IsLabel, IsBranch
      <4>2. at[n] \notin f..m
        BY <3>4, <4>1
      <4> QED BY <4>2, <3>3, <3>4, <2>1, <1>5
    <3>6. PICK j \in 1..M : at[j] = f
      BY <1>4, <3>4, <3>5
    <3>7. t[j] = Label(NewLabel(insts, l))
      <4>1. insts[f] \in Instruction /\ ~IsBranch(insts[f])
        BY <1>1, <3>4, <3>5 DEF IsBranch, Label, N
      <4> QED BY <1>1, <1>4, <3>4, <3>5, <3>6, <4>1, RetargetIs DEF N
    <3>8. n < j
      <4>1. (j < n => at[j] < at[n]) /\ j # n
        BY <1>4, <3>5, <3>6, <2>1
      <4> QED BY <4>1, <3>5, <3>6, <2>1
    <3>9. j \in Below(t, n, NewLabel(insts, l))
      BY <1>4, <3>7, <3>8 DEF Below, M
    <3>10. Below(t, n, NewLabel(insts, l)) = {j} /\ Below(insts, at[n], l) = {m}
      BY <1>1, <1>2, <1>4, <3>2, <3>9, BelowIsOne
    <3>11. R[at[n]] = R[m]
      BY <2>3, <2>7, <3>10 DEF StepOf, l
    <3>12. S[n] = S[j]
      BY <2>3, <3>0, <3>1, <3>10 DEF StepOf
    <3>13. S[j] = R[at[j]]
      <4>1. j \in (n + 1)..(M + 1) /\ j <= M
        BY <3>8, <1>5
      <4> QED BY <1>9, <4>1
    <3>14. R[f] = R[m]
      <4>1. f \in 1..(N + 1) /\ m \in f..(N + 1) /\ \A k \in f..(m - 1) : k \in f..m
        BY <3>3, <3>4, <3>5, <1>5
      <4> QED BY <1>1, <1>6, <3>4, <4>1, RunThroughLabels DEF N
    <3> QED BY <3>6, <3>11, <3>12, <3>13, <3>14
  <2> QED BY <2>5, <2>6, <2>7 DEF EndsBlock
<1>10. \A k \in 0..M : S[M + 1 - k] = R[pos(M + 1 - k)]
  <2> DEFINE Same(n) == S[n] = R[pos(n)]
             Bad == {k \in 0..M : ~Same(M + 1 - k)}
  <2> SUFFICES ASSUME Bad # {} PROVE FALSE
    OBVIOUS
  <2>0. Bad \subseteq Nat
    OBVIOUS
  <2>1. PICK k \in Bad : \A m \in Bad : k <= m
    BY <2>0, Least
  <2>2. k # 0
    <3>1. M + 1 - 0 = M + 1 /\ ~(M + 1 <= M)
      BY <1>5
    <3>2. S[M + 1] = Started /\ R[N + 1] = Started
      BY <1>1, <1>4, <1>6, <1>7, RunStep DEF M, N
    <3>3. Same(M + 1 - 0)
      BY <3>1, <3>2
    <3> HIDE DEF Same
    <3> QED BY <2>1, <3>3
  <2> DEFINE n == M + 1 - k
  <2>3. n \in 1..M
    BY <1>5, <2>1, <2>2
  <2>4. \A m \in (n + 1)..(M + 1) : M + 1 - m \in 0..M /\ M + 1 - m < k /\ M + 1 - (M + 1 - m) = m
    BY <1>5, <2>3
  <2>5. \A m \in (n + 1)..(M + 1) : M + 1 - m \notin Bad
    <3> SUFFICES ASSUME NEW m \in (n + 1)..(M + 1), M + 1 - m \in Bad PROVE FALSE
      OBVIOUS
    <3>1. k <= M + 1 - m
      BY <2>1
    <3> QED BY <2>0, <2>1, <2>4, <3>1
  <2>6. \A m \in (n + 1)..(M + 1) : Same(m)
    <3> HIDE DEF Same
    <3> QED BY <2>4, <2>5
  <2>7. S[n] = R[at[n]]
    BY <1>9, <2>3, <2>6
  <2>8. Same(n)
    BY <2>3, <2>7
  <2> HIDE DEF Same
  <2> QED BY <2>1, <2>8
<1>11. S[1] = R[pos(1)]
  <2>1. M \in 0..M /\ M + 1 - M = 1
    BY <1>5
  <2> QED BY <1>10, <2>1
<1>12. pos(1) = 1
  <2>1. CASE N = 0
    <3>1. M = 0
      <4> SUFFICES ASSUME M # 0 PROVE FALSE
        OBVIOUS
      <4>1. 1 \in 1..M
        BY <1>5
      <4> QED BY <1>4, <2>1, <4>1
    <3> QED BY <2>1, <3>1
  <2>2. CASE N # 0
    <3>1. 1 \in 1..N /\ ~Erased(insts, 1)
      BY <1>5, <2>2 DEF Erased
    <3>2. PICK j \in 1..M : at[j] = 1
      BY <1>4, <3>1
    <3>3. 1 \in 1..M /\ (1 < j => at[1] < at[j]) /\ at[1] \in 1..N
      BY <1>4, <1>5
    <3>4. j = 1
      BY <3>2, <3>3
    <3> QED BY <3>2, <3>3, <3>4
  <2> QED BY <2>1, <2>2
<1> QED BY <1>6, <1>7, <1>11, <1>12 DEF Runs, t

(* Code does the same after MergeLabels, whatever it does.                 *)
LEMMA MergeKeepsBehavior ==
  ASSUME NEW insts, Generated(insts)
  PROVE  Behavior(MergeLabels(insts)) = Behavior(insts)
<1>1. \A value \in Values : Outcome(MergeLabels(insts), value) = Outcome(insts, value)
  BY MergeKeepsOutcome
<1> QED BY <1>1 DEF Behavior

-----------------------------------------------------------------------------
(* Jumps that do nothing *)

(* Control, if it starts at the first instruction, stays in V.             *)
StaysIn(insts, V) ==
  /\ 1 \in V
  /\ \A n \in V \cap DOMAIN insts :
       /\ ~EndsBlock(insts[n]) => n + 1 \in V
       /\ \A l \in ToSet(Targets(insts[n])) : Below(insts, n, l) \subseteq V

(* Every jump control can reach leads to the label right below it.         *)
JumpsAreIdle(insts) ==
  \E V \in SUBSET Nat :
    /\ StaysIn(insts, V)
    /\ \A n \in V \cap DOMAIN insts :
         IsDirectJMP(insts[n]) =>
           n + 1 \in DOMAIN insts /\ insts[n + 1] = Label(insts[n].true_target)

(* Of the jumps, only those that do something matter to what code does.    *)
LEMMA DropKeepsOutcome ==
  ASSUME NEW insts, Generated(insts), JumpsAreIdle(insts), NEW value
  PROVE  Outcome(DropDead(insts), value) = Outcome(insts, value)
<1> DEFINE t == DropDead(insts)
           N == Len(insts)
           M == Len(t)
<1>1. insts \in Seq(Instruction) /\ LabelsOnce(insts) /\ N \in Nat /\ DOMAIN insts = 1..N
  BY DEF Generated
<1>2. PICK s : Drops(s, insts)
  BY <1>1, DropsExists
<1> DEFINE P == s[N].kept
<1>3. \A n \in 0..N :
        /\ s[n].kept = {m \in 1..n : ~DeadAt(s, insts, m)}
        /\ n # 0 => s[n].prev \in s[n].kept
        /\ s[n].prev \in 0..n
        /\ \A m \in s[n].kept : m <= s[n].prev
  BY <1>1, <1>2, DropsKeeps
<1>4. t = Only(insts, P)
  BY <1>2 DEF Drops
<1>5. t \in Seq(Instruction) /\ \E at : Embeds(at, t, insts, P)
  BY <1>1, <1>4, OnlyEmbeds
<1>6. \A n \in 1..N : n \in P <=> ~DeadAt(s, insts, n)
  BY <1>1, <1>3
<1>7. NoJumps(t)
  BY DropDeadDrops DEF Dropped
<1> HIDE DEF t, P
<1>8. PICK at : Embeds(at, t, insts, P)
  BY <1>5
<1>9. /\ \A n \in 1..M : at[n] \in 1..N /\ at[n] \in P /\ t[n] = insts[at[n]]
      /\ \A m, n \in 1..M : m < n => at[m] < at[n]
      /\ \A p \in 1..N : p \in P => \E n \in 1..M : at[n] = p
      /\ M \in Nat
  BY <1>5, <1>8 DEF Embeds
<1>10. LabelsOnce(t)
  BY <1>1, <1>5, <1>8, EmbedsLabelsOnce
<1>11. \A n \in 1..N : IsLabel(insts[n]) => n \in P
  BY <1>6 DEF DeadAt, Dead
<1>12. PICK R : Runs(R, insts, value)
  BY <1>1, RunsExists
<1>13. PICK S : Runs(S, t, value)
  BY <1>5, RunsExists
<1>14. PICK V \in SUBSET Nat :
         /\ StaysIn(insts, V)
         /\ \A n \in V \cap DOMAIN insts :
              IsDirectJMP(insts[n]) =>
                n + 1 \in DOMAIN insts /\ insts[n + 1] = Label(insts[n].true_target)
  BY DEF JumpsAreIdle
<1>15. /\ R[N + 1] = Started /\ S[M + 1] = Started
       /\ \A n \in 1..N : StepOf(R, insts, value, n)
       /\ \A n \in 1..M : StepOf(S, t, value, n)
  BY <1>1, <1>5, <1>12, <1>13, RunStep
<1> HIDE DEF N, M
(* The position kept after the n-th one, if there is one at q.             *)
<1>16. ASSUME NEW n \in 1..M, NEW q \in 1..N, q \in P, at[n] < q,
              \A p \in 1..N : at[n] < p /\ p < q => p \notin P
       PROVE  n + 1 \in 1..M /\ at[n + 1] = q
  <2>1. PICK j \in 1..M : at[j] = q
    BY <1>9, <1>16
  <2>2. at[n] \in 1..N /\ j # n /\ (j < n => at[j] < at[n])
    BY <1>9, <1>16, <2>1
  <2>3. n < j /\ n + 1 \in 1..M
    BY <1>9, <1>16, <2>1, <2>2, <1>1
  <2>4. at[n + 1] \in 1..N /\ at[n + 1] \in P /\ at[n] < at[n + 1] /\ (n + 1 < j => at[n + 1] < at[j])
    BY <1>9, <2>3
  <2>5. ~(n + 1 < j)
    BY <1>16, <2>1, <2>4
  <2>6. n + 1 = j
    BY <2>3, <2>5
  <2> QED BY <2>1, <2>3, <2>6
(* What is erased right below an instruction control runs on from.         *)
<1>17. ASSUME NEW n \in 1..M, at[n] + 1 \in 1..N, at[n] + 1 \notin P, ~IsReturn(insts[at[n]])
       PROVE  IsDirectJMP(insts[at[n] + 1])
  <2> DEFINE a == at[n]
  <2>1. a \in 0..N /\ a \in 1..N /\ a \in P /\ (a + 1) - 1 = a /\ a # 0
    BY <1>1, <1>9
  <2>2. DeadAt(s, insts, a + 1)
    BY <1>6, <1>17
  <2> HIDE DEF a
  <2>3. s[a].prev = a
    <3>1. a \in s[a].kept
      BY <1>3, <1>6, <2>1
    <3> QED BY <1>3, <2>1, <3>1
  <2>4. Dead(insts[a], insts[a + 1])
    BY <2>1, <2>2, <2>3 DEF DeadAt
  <2> QED BY <2>4, <1>17 DEF Dead, a
<1> DEFINE Same(n) == n <= M => (at[n] \in V => S[n] = R[at[n]])
<1>18. ASSUME NEW n \in 1..M, ~EndsBlock(insts[at[n]]), at[n] \in V,
              n + 1 <= M => Same(n + 1)
       PROVE  S[n + 1] = R[at[n] + 1]
  <2> DEFINE a == at[n]
  <2>1. a \in 1..N /\ a \in Nat
    BY <1>9
  <2>2. a + 1 \in V
    BY <1>1, <1>14, <1>18, <2>1 DEF StaysIn
  <2>3. CASE a = N
    <3>1. ~(n + 1 <= M)
      <4> SUFFICES ASSUME n + 1 <= M PROVE FALSE
        OBVIOUS
      <4>1. n + 1 \in 1..M
        BY <1>9
      <4>2. at[n] < at[n + 1] /\ at[n + 1] \in 1..N
        BY <1>9, <4>1
      <4> QED BY <4>2, <2>3, <1>1
    <3>2. n = M
      BY <3>1, <1>9
    <3> QED BY <3>2, <2>3, <1>15
  <2>4. CASE a # N /\ a + 1 \in P
    <3>1. a + 1 \in 1..N /\ a < a + 1 /\ \A p \in 1..N : ~(a < p /\ p < a + 1)
      BY <2>1, <2>4, <1>1
    <3>2. n + 1 \in 1..M /\ at[n + 1] = a + 1
      BY <3>1, <2>4, <1>16
    <3>3. n + 1 <= M
      BY <3>2
    <3> QED BY <3>2, <3>3, <2>2, <1>18
  <2>5. CASE a # N /\ a + 1 \notin P
    <3> DEFINE q == a + 1
    <3>1. q \in 1..N /\ ~IsReturn(insts[a])
      BY <2>1, <2>5, <1>1, <1>18 DEF EndsBlock
    <3>2. IsDirectJMP(insts[q])
      BY <3>1, <2>5, <1>17
    <3>3. q + 1 \in 1..N /\ insts[q + 1] = Label(insts[q].true_target)
      BY <3>1, <3>2, <2>2, <1>1, <1>14
    <3>4. q + 1 \in P
      BY <3>3, <1>11 DEF IsLabel, Label
    <3>5. a < q + 1 /\ \A p \in 1..N : a < p /\ p < q + 1 => p = q
      BY <2>1
    <3>6. n + 1 \in 1..M /\ at[n + 1] = q + 1
      BY <3>3, <3>4, <3>5, <2>5, <1>16
    <3> HIDE DEF a, q
    <3>7. insts[q].true_target \in ToSet(Targets(insts[q])) /\ IsBranch(insts[q])
      <4>1. insts[q] \in Instruction /\ IsBranch(insts[q])
        BY <3>1, <3>2, <1>1 DEF IsDirectJMP, IsBranch, N
      <4> QED BY <4>1, BranchTargets
    <3>8. q + 1 \in Below(insts, q, insts[q].true_target)
      BY <3>1, <3>3, <1>1 DEF Below
    <3>9. q + 1 \in V
      <4>1. q \in V \cap DOMAIN insts
        BY <3>1, <2>2, <1>1 DEF q
      <4> QED BY <4>1, <3>7, <3>8, <1>14 DEF StaysIn
    <3>10. R[q] = R[q + 1]
      <4>1. Taken(insts[q], value) = insts[q].true_target
        BY <3>2 DEF Taken, IsDirectJMP
      <4>2. Below(insts, q, insts[q].true_target) = {q + 1}
        BY <3>8, <1>1, BelowIsOne
      <4>3. StepOf(R, insts, value, q) /\ Below(insts, q, Taken(insts[q], value)) = {q + 1}
        BY <4>1, <4>2, <3>1, <1>15
      <4> QED BY <4>3, <3>7 DEF StepOf
    <3>11. S[n + 1] = R[q + 1]
      BY <3>6, <3>9, <1>18
    <3> QED BY <3>10, <3>11 DEF q, a
  <2> QED BY <2>3, <2>4, <2>5
<1>19. ASSUME NEW n \in 1..M, \A m \in (n + 1)..M : Same(m)
       PROVE  Same(n)
  <2> SUFFICES ASSUME at[n] \in V PROVE S[n] = R[at[n]]
    OBVIOUS
  <2> DEFINE inst == insts[at[n]]
  <2>1. at[n] \in 1..N /\ t[n] = inst /\ inst \in Instruction
    BY <1>1, <1>9 DEF N
  <2>2. StepOf(R, insts, value, at[n]) /\ StepOf(S, t, value, n)
    BY <2>1, <1>15
  <2>3. n + 1 <= M => n + 1 \in (n + 1)..M
    BY <1>9
  <2>4. CASE IsReturn(inst)
    BY <2>1, <2>4, <2>2 DEF StepOf
  <2>5. CASE ~EndsBlock(inst)
    <3>1. S[n + 1] = R[at[n] + 1]
      BY <2>3, <2>5, <1>18, <1>19
    <3>2. CASE IsLabel(inst)
      BY <2>1, <2>2, <3>1, <3>2 DEF StepOf
    <3>3. CASE ~IsLabel(inst)
      <4>1. R[at[n]] = [R[at[n] + 1] EXCEPT !.effects = <<inst>> \o @]
        BY <2>1, <2>5, <3>3, <2>2 DEF StepOf
      <4>2. S[n] = [S[n + 1] EXCEPT !.effects = <<inst>> \o @]
        BY <2>1, <2>5, <3>3, <2>2 DEF StepOf
      <4> QED BY <3>1, <4>1, <4>2
    <3> QED BY <3>2, <3>3
  <2>6. CASE IsBranch(inst)
    <3> DEFINE l == Taken(inst, value)
    <3>1. l \in ToSet(Targets(inst))
      BY <2>1, <2>6, TakenIsTarget
    <3> HIDE DEF l
    <3>2. /\ \A m \in Below(t, n, l) : at[m] \in Below(insts, at[n], l)
          /\ \A p \in Below(insts, at[n], l) : p \in P => \E m \in Below(t, n, l) : at[m] = p
      BY <1>1, <1>5, <1>8, EmbedsBelow DEF M
    <3>3. PICK p : p \in Below(insts, at[n], l)
      BY <2>1, <3>1, <1>1 DEF Generated, JumpsLeadDown
    <3>4. p \in 1..N /\ IsLabel(insts[p])
      BY <3>3, <1>1 DEF Below, IsLabel, Label
    <3>5. p \in P /\ p \in V
      <4>1. at[n] \in V \cap DOMAIN insts
        BY <2>1, <1>1
      <4> QED BY <4>1, <3>1, <3>3, <3>4, <1>11, <1>14 DEF StaysIn
    <3>6. PICK m \in Below(t, n, l) : at[m] = p
      BY <3>2, <3>3, <3>5
    <3>7. Below(insts, at[n], l) = {p} /\ Below(t, n, l) = {m}
      BY <1>1, <1>5, <1>10, <3>3, BelowIsOne
    <3>8. R[at[n]] = R[p]
      BY <2>1, <2>6, <3>7, <2>2 DEF StepOf, l
    <3>9. S[n] = S[m]
      BY <2>1, <2>6, <3>7, <2>2 DEF StepOf, l
    <3>10. m \in (n + 1)..M /\ m <= M
      BY <1>5, <1>9 DEF Below, M
    <3>11. S[m] = R[at[m]]
      BY <1>19, <3>10, <3>5, <3>6
    <3> QED BY <3>6, <3>8, <3>9, <3>11
  <2> QED BY <2>4, <2>5, <2>6 DEF EndsBlock
<1>20. \A n \in 1..M : Same(n)
  <2> DEFINE Bad == {k \in 0..(M - 1) : ~Same(M - k)}
  <2> HIDE DEF Same
  <2>1. ASSUME Bad # {} PROVE FALSE
    <3>0. Bad \subseteq Nat
      OBVIOUS
    <3>1. PICK k \in Bad : \A j \in Bad : k <= j
      BY <2>1, <3>0, Least
    <3>2. M - k \in 1..M
      BY <1>9, <3>1
    <3>3. ASSUME NEW m \in ((M - k) + 1)..M PROVE Same(m)
      <4>1. M - m \in 0..(M - 1) /\ ~(k <= M - m) /\ M - (M - m) = m
        BY <1>9, <3>2, <3>1
      <4>2. M - m \notin Bad
        <5> HIDE DEF Bad
        <5> QED BY <3>1, <4>1
      <4> QED BY <4>1, <4>2
    <3>4. Same(M - k)
      BY <3>2, <3>3, <1>19
    <3> QED BY <3>1, <3>4
  <2>2. ASSUME NEW n \in 1..M PROVE Same(n)
    <3>1. M - n \in 0..(M - 1) /\ M - (M - n) = n
      BY <1>9
    <3> QED BY <2>1, <3>1
  <2> QED BY <2>2
<1>21. S[1] = R[1]
  <2>1. CASE N = 0
    <3>1. M = 0
      <4> SUFFICES ASSUME M # 0 PROVE FALSE
        OBVIOUS
      <4>1. 1 \in 1..M
        BY <1>9
      <4> QED BY <1>9, <2>1, <4>1
    <3> QED BY <2>1, <3>1, <1>15
  <2>2. CASE N # 0
    <3>1. 1 \in 1..N /\ 0 \in 0..N /\ 1 - 1 = 0
      BY <1>1, <2>2
    <3>2. 1 \in P
      <4>1. s[1 - 1].prev = 0
        BY <3>1, <1>2 DEF Drops
      <4> QED BY <3>1, <4>1, <1>6 DEF DeadAt
    <3>3. PICK j \in 1..M : at[j] = 1
      BY <1>9, <3>1, <3>2
    <3>4. 1 \in 1..M /\ (1 < j => at[1] < at[j]) /\ at[1] \in 1..N
      BY <1>9
    <3>5. j = 1
      BY <3>3, <3>4
    <3>6. 1 \in V
      BY <1>14 DEF StaysIn
    <3>7. 1 <= M /\ Same(1)
      BY <3>4, <1>20
    <3> QED BY <3>3, <3>5, <3>6, <3>7
  <2> QED BY <2>1, <2>2
<1> QED BY <1>12, <1>13, <1>21 DEF Runs, t

(* Dropping dead code keeps what code does if its jumps are idle.          *)
LEMMA DropKeepsBehavior ==
  ASSUME NEW insts, Generated(insts), JumpsAreIdle(insts)
  PROVE  Behavior(DropDead(insts)) = Behavior(insts)
<1>1. \A value \in Values : Outcome(DropDead(insts), value) = Outcome(insts, value)
  BY DropKeepsOutcome
<1> QED BY <1>1 DEF Behavior

-----------------------------------------------------------------------------
(* Counting *)

(* The places of x in s.                                                   *)
PlacesOf(s, x) == {n \in DOMAIN s : s[n] = x}

(* Counts are numbers, and 0 of what is not there.                         *)
LEMMA CountIsNat ==
  ASSUME NEW S, NEW s \in Seq(S), NEW x
  PROVE  /\ Count(s, x) \in Nat
         /\ IsFiniteSet(PlacesOf(s, x))
         /\ Count(s, x) = Cardinality(PlacesOf(s, x))
         /\ Count(s, x) = 0 <=> \A n \in 1..Len(s) : s[n] # x
<1>1. IsFiniteSet(1..Len(s))
  BY FS_Interval
<1>2. PlacesOf(s, x) \in SUBSET (1..Len(s))
  BY DEF PlacesOf
<1>3. IsFiniteSet(PlacesOf(s, x))
  BY <1>1, <1>2, FS_Subset
<1>4. Cardinality(PlacesOf(s, x)) \in Nat
      /\ (Cardinality(PlacesOf(s, x)) = 0 <=> PlacesOf(s, x) = {})
  BY <1>3, FS_CardinalityType, FS_EmptySet
<1>5. PlacesOf(s, x) = {} <=> \A n \in 1..Len(s) : s[n] # x
  BY DEF PlacesOf
<1>6. Count(s, x) = Cardinality(PlacesOf(s, x))
  BY DEF Count, PlacesOf
<1> QED BY <1>3, <1>4, <1>5, <1>6

(* A sequence of one has its element once.                                 *)
LEMMA CountOne ==
  ASSUME NEW y, NEW x
  PROVE  Count(<<y>>, x) = IF x = y THEN 1 ELSE 0
<1>1. {n \in DOMAIN <<y>> : <<y>>[n] = x} = IF x = y THEN {1} ELSE {}
  OBVIOUS
<1> QED BY <1>1, FS_Singleton, FS_EmptySet DEF Count

(* Nothing is in the empty sequence.                                       *)
LEMMA CountNone ==
  ASSUME NEW x
  PROVE  Count(<<>>, x) = 0
<1>1. {n \in DOMAIN <<>> : <<>>[n] = x} = {}
  OBVIOUS
<1> QED BY <1>1, FS_EmptySet DEF Count

(* Times repeats one element.                                              *)
LEMMA CountTimes ==
  ASSUME NEW n \in Nat, NEW y, NEW x
  PROVE  Count(Times(n, y), x) = IF x = y THEN n ELSE 0
<1>1. {k \in DOMAIN Times(n, y) : Times(n, y)[k] = x} = IF x = y THEN 1..n ELSE {}
  BY DEF Times
<1>2. Cardinality(1..n) = n
  BY FS_Interval
<1> QED BY <1>1, <1>2, FS_EmptySet DEF Count

(* What Times yields is a sequence.                                        *)
LEMMA TimesIsSeq ==
  ASSUME NEW S, NEW n \in Nat, NEW y \in S
  PROVE  Times(n, y) \in Seq(S)
<1>1. Times(n, y) \in [1..n -> S]
  BY DEF Times
<1> QED BY <1>1

(* What is in a sequence made of two is in one of them.                    *)
LEMMA CountConcat ==
  ASSUME NEW S, NEW s \in Seq(S), NEW t \in Seq(S), NEW x
  PROVE  Count(s \o t, x) = Count(s, x) + Count(t, x)
<1> DEFINE m == Len(s)
           w == s \o t
           A == PlacesOf(s, x)
           B == PlacesOf(t, x)
           C == PlacesOf(w, x)
           D == C \ A
<1>1. w \in Seq(S) /\ Len(w) = Len(s) + Len(t) /\ Behind(w, s, t)
  BY JoinOne
<1>2. /\ IsFiniteSet(A) /\ Count(s, x) = Cardinality(A)
      /\ IsFiniteSet(B) /\ Count(t, x) = Cardinality(B)
      /\ IsFiniteSet(C) /\ Count(w, x) = Cardinality(C)
  BY <1>1, CountIsNat
<1>3. m \in Nat /\ Len(t) \in Nat
  OBVIOUS
<1>4. A \subseteq C
  BY <1>1 DEF Behind, PlacesOf
<1>5. D = {n \in (m + 1)..(m + Len(t)) : w[n] = x}
  <2>1. \A n \in 1..(m + Len(t)) : n \in A <=> n <= m /\ w[n] = x
    BY <1>1, <1>3 DEF Behind, PlacesOf
  <2>2. \A n : n \in C <=> n \in 1..(m + Len(t)) /\ w[n] = x
    BY <1>1, <1>3 DEF PlacesOf
  <2> HIDE DEF A, C, w, m
  <2> QED BY <2>1, <2>2, <1>3
<1>6. Cardinality(D) = Cardinality(B)
  <2> DEFINE f == [k \in B |-> m + k]
  <2>1. \A k \in B : k \in 1..Len(t) /\ t[k] = x
    BY DEF PlacesOf
  <2>2. \A k \in B : m + k \in D
    <3> SUFFICES ASSUME NEW k \in B PROVE m + k \in D
      OBVIOUS
    <3>1. k \in 1..Len(t) /\ m + k \in (m + 1)..(m + Len(t))
      BY <2>1, <1>3
    <3>2. w[m + k] = x
      BY <2>1, <3>1, <1>1 DEF Behind
    <3> HIDE DEF w, D
    <3> QED BY <3>1, <3>2, <1>5
  <2>3. \A n \in D : n - m \in B /\ m + (n - m) = n
    <3> SUFFICES ASSUME NEW n \in D PROVE n - m \in B /\ m + (n - m) = n
      OBVIOUS
    <3>1. n - m \in 1..Len(t) /\ m + (n - m) = n /\ w[n] = x
      BY <1>3, <1>5
    <3>2. t[n - m] = x
      BY <3>1, <1>1 DEF Behind
    <3> QED BY <3>1, <3>2 DEF PlacesOf
  <2>4. B \subseteq Nat
    BY DEF PlacesOf
  <2> HIDE DEF B, D, m
  <2>5. f \in Bijection(B, D)
    <3>1. f \in [B -> D]
      BY <2>2
    <3>2. \A j, k \in B : f[j] = f[k] => j = k
      BY <2>4, <1>3
    <3>3. \A n \in D : \E k \in B : f[k] = n
      BY <2>3
    <3> QED BY <3>1, <3>2, <3>3 DEF Bijection, Injection, Surjection, IsInjective
  <2>6. ExistsBijection(B, D)
    BY <2>5 DEF ExistsBijection
  <2> QED BY <2>6, <1>2, FS_Bijection
<1>7. A \cap D = {} /\ A \cup D = C /\ IsFiniteSet(D)
  <2>1. D \in SUBSET C
    OBVIOUS
  <2>2. IsFiniteSet(D)
    BY <2>1, <1>2, FS_Subset
  <2> QED BY <2>2, <1>4
<1>8. Cardinality(C) = Cardinality(A) + Cardinality(D)
  <2>1. Cardinality(A \cup D) = Cardinality(A) + Cardinality(D) - Cardinality(A \cap D)
    BY <1>2, <1>7, FS_Union
  <2>2. Cardinality(A) \in Nat /\ Cardinality(D) \in Nat
    BY <1>2, <1>7, FS_CardinalityType
  <2>3. Cardinality(A \cap D) = 0
    BY <1>7, FS_EmptySet
  <2>4. Cardinality(A \cup D) = Cardinality(C)
    BY <1>7
  <2> HIDE DEF A, C, D
  <2> QED BY <2>1, <2>2, <2>3, <2>4
<1> HIDE DEF A, B, C, D
<1> QED BY <1>2, <1>6, <1>8

-----------------------------------------------------------------------------
(* BuildCFG *)

Block == [insts : Seq(Instruction), children : Seq(Nat), parents : Seq(Nat)]

(* A state of BuildCFG.                                                    *)
Graph(insts) ==
  {g \in [blocks : Seq(Block), prev_branch_or_ret : BOOLEAN,
          backward : [LabelsOf(insts) -> Seq(Nat)]] : Len(g.blocks) >= 1}

(* The parents a new block for the label gets.                             *)
ParentsFor(g, label) ==
  (IF g.prev_branch_or_ret THEN <<>> ELSE <<Len(g.blocks)>>) \o g.backward[label]

(* The parents of a new block: the one above, if open, and those waiting.  *)
LEMMA ParentsForIs ==
  ASSUME NEW insts, NEW g \in Graph(insts), NEW label \in LabelsOf(insts)
  PROVE  /\ ParentsFor(g, label) \in Seq(Nat)
         /\ \A b : Count(ParentsFor(g, label), b) =
                   (IF ~g.prev_branch_or_ret /\ b = Len(g.blocks) THEN 1 ELSE 0)
                     + Count(g.backward[label], b)
<1> DEFINE front == IF g.prev_branch_or_ret THEN <<>> ELSE <<Len(g.blocks)>>
<1>1. front \in Seq(Nat) /\ g.backward[label] \in Seq(Nat)
  BY DEF Graph
<1>2. ASSUME NEW b PROVE Count(front, b) = IF ~g.prev_branch_or_ret /\ b = Len(g.blocks) THEN 1 ELSE 0
  BY CountOne, CountNone
<1>3. ParentsFor(g, label) = front \o g.backward[label]
  BY DEF ParentsFor
<1> HIDE DEF front
<1>4. ParentsFor(g, label) \in Seq(Nat)
  BY <1>1, <1>3
<1>5. ASSUME NEW b
      PROVE  Count(ParentsFor(g, label), b) = Count(front, b) + Count(g.backward[label], b)
  BY <1>1, <1>3, CountConcat
<1> QED BY <1>2, <1>4, <1>5

(* What a label adds.                                                      *)
LEMMA NewBlockIs ==
  ASSUME NEW insts, NEW g \in Graph(insts), NEW label \in LabelsOf(insts)
  PROVE  LET h == NewBlock(g, label)
             cur == Len(g.blocks)
             parents == ParentsFor(g, label)
         IN  /\ h \in Graph(insts)
             /\ Len(h.blocks) = cur + 1
             /\ ~h.prev_branch_or_ret
             /\ h.backward = g.backward
             /\ h.blocks[cur + 1] = [insts |-> <<>>, children |-> <<>>, parents |-> parents]
             /\ \A b \in 1..cur :
                  /\ h.blocks[b].insts = g.blocks[b].insts
                  /\ h.blocks[b].parents = g.blocks[b].parents
                  /\ h.blocks[b].children =
                       g.blocks[b].children \o Times(Count(parents, b), cur + 1)
<1> DEFINE h == NewBlock(g, label)
           cur == Len(g.blocks)
           parents == ParentsFor(g, label)
           Child(b) == [g.blocks[b] EXCEPT !.children = @ \o Times(Count(parents, b), cur + 1)]
           last == [insts |-> <<>>, children |-> <<>>, parents |-> parents]
           old == [b \in 1..cur |-> Child(b)]
<1>1. /\ parents \in Seq(Nat)
      /\ cur \in Nat /\ cur >= 1
      /\ \A b \in 1..cur : g.blocks[b] \in Block
      /\ g.backward \in [LabelsOf(insts) -> Seq(Nat)]
  BY ParentsForIs DEF Graph
<1>2. h = [g EXCEPT !.blocks = Append(old, last), !.prev_branch_or_ret = FALSE]
  <2>1. (cur + 1) - 1 = cur
    BY <1>1
  <2>2. [Root EXCEPT !.parents = parents] = last
    BY DEF Root
  <2> HIDE DEF last, parents, cur
  <2> QED BY <2>1, <2>2 DEF NewBlock, AddBlock, ParentsFor, cur, parents
<1> HIDE DEF parents, h, cur
<1>3. \A b \in 1..cur : Count(parents, b) \in Nat
  BY <1>1, CountIsNat
<1>4. \A b \in 1..cur : Times(Count(parents, b), cur + 1) \in Seq(Nat)
  BY <1>1, <1>3, TimesIsSeq
<1>5. ASSUME NEW b \in 1..cur
      PROVE  /\ Child(b) \in Block
             /\ Child(b).insts = g.blocks[b].insts
             /\ Child(b).parents = g.blocks[b].parents
             /\ Child(b).children = g.blocks[b].children \o Times(Count(parents, b), cur + 1)
  <2>1. g.blocks[b].children \in Seq(Nat)
    BY <1>1 DEF Block
  <2>2. g.blocks[b].children \o Times(Count(parents, b), cur + 1) \in Seq(Nat)
    BY <2>1, <1>4
  <2> QED BY <2>2, <1>1 DEF Block
<1>6. last \in Block
  BY <1>1 DEF Block
<1>7. old \in Seq(Block) /\ Len(old) = cur /\ \A b \in 1..cur : old[b] = Child(b)
  <2> HIDE DEF Child
  <2>1. old \in [1..cur -> Block] /\ \A b \in 1..cur : old[b] = Child(b)
    BY <1>5
  <2> HIDE DEF old
  <2> QED BY <2>1, <1>1
<1> HIDE DEF last, Child
<1> HIDE DEF old
<1>8. /\ Append(old, last) \in Seq(Block)
      /\ Len(Append(old, last)) = cur + 1
      /\ Append(old, last)[cur + 1] = last
      /\ \A b \in 1..cur : Append(old, last)[b] = Child(b)
  BY <1>1, <1>6, <1>7
<1>9. /\ h.blocks = Append(old, last)
      /\ h.prev_branch_or_ret = FALSE
      /\ h.backward = g.backward
      /\ h \in [blocks : Seq(Block), prev_branch_or_ret : BOOLEAN,
                backward : [LabelsOf(insts) -> Seq(Nat)]]
  BY <1>2, <1>8 DEF Graph
<1>10. h \in Graph(insts)
  BY <1>1, <1>8, <1>9 DEF Graph
<1>11. ASSUME NEW b \in 1..cur
       PROVE  /\ h.blocks[b].insts = g.blocks[b].insts
              /\ h.blocks[b].parents = g.blocks[b].parents
              /\ h.blocks[b].children = g.blocks[b].children \o Times(Count(parents, b), cur + 1)
  BY <1>5, <1>8, <1>9
<1> QED BY <1>8, <1>9, <1>10, <1>11 DEF h, cur, parents, last

(* The targets of an instruction are a sequence of labels.                 *)
LEMMA TargetsIsSeq ==
  ASSUME NEW inst \in Instruction
  PROVE  Targets(inst) \in Seq(Nat)
<1>1. CASE inst.i = "branch"
  <2>1. Targets(inst) = <<inst.true_target, inst.false_target>>
    BY <1>1 DEF Targets
  <2>2. inst.true_target \in Nat /\ inst.false_target \in Nat
    BY <1>1 DEF Instruction
  <2> QED BY <2>1, <2>2
<1>2. CASE inst.i = "jmp"
  <2>1. Targets(inst) = <<inst.true_target>>
    BY <1>2 DEF Targets
  <2>2. inst.true_target \in Nat
    BY <1>2 DEF Instruction
  <2> QED BY <2>1, <2>2
<1>3. CASE inst.i # "branch" /\ inst.i # "jmp"
  <2>1. Targets(inst) = <<>>
    BY <1>3 DEF Targets
  <2> QED BY <2>1
<1> QED BY <1>1, <1>2, <1>3

(* What any other instruction adds.                                        *)
LEMMA AddInstIs ==
  ASSUME NEW insts, NEW g \in Graph(insts), NEW inst \in Instruction
  PROVE  LET h == AddInst(g, inst)
             cur == Len(g.blocks)
         IN  /\ h \in Graph(insts)
             /\ Len(h.blocks) = cur
             /\ h.prev_branch_or_ret = EndsBlock(inst)
             /\ \A l \in LabelsOf(insts) :
                  h.backward[l] = g.backward[l] \o Times(Count(Targets(inst), l), cur)
             /\ \A b \in 1..cur :
                  /\ h.blocks[b].children = g.blocks[b].children
                  /\ h.blocks[b].parents = g.blocks[b].parents
                  /\ h.blocks[b].insts =
                       IF b = cur THEN Append(g.blocks[b].insts, inst) ELSE g.blocks[b].insts
<1> DEFINE h == AddInst(g, inst)
           cur == Len(g.blocks)
           new == [g.blocks[cur] EXCEPT !.insts = Append(g.blocks[cur].insts, inst)]
           blocks == [g.blocks EXCEPT ![cur] = new]
           backward == [l \in LabelsOf(insts) |-> g.backward[l] \o Times(Count(Targets(inst), l), cur)]
<1>1. /\ cur \in Nat /\ cur >= 1
      /\ \A b \in 1..cur : g.blocks[b] \in Block
      /\ DOMAIN g.blocks = 1..cur
      /\ g.backward \in [LabelsOf(insts) -> Seq(Nat)]
  BY DEF Graph
<1>2. h = [g EXCEPT !.blocks = blocks, !.prev_branch_or_ret = EndsBlock(inst),
                    !.backward = backward]
  <2>1. DOMAIN g.backward = LabelsOf(insts)
    BY <1>1
  <2>2. h = [g EXCEPT !.blocks[cur].insts = Append(@, inst),
                      !.prev_branch_or_ret = EndsBlock(inst),
                      !.backward = backward]
    BY <2>1 DEF AddInst
  <2>3. [g EXCEPT !.blocks[cur].insts = Append(@, inst)] = [g EXCEPT !.blocks = blocks]
    OBVIOUS
  <2> HIDE DEF h, backward, cur, blocks
  <2> QED BY <2>2, <2>3
<1> HIDE DEF h
<1>3. Targets(inst) \in Seq(Nat)
  BY TargetsIsSeq
<1>4. \A l : Count(Targets(inst), l) \in Nat
  BY <1>3, CountIsNat
<1>5. ASSUME NEW l \in LabelsOf(insts)
      PROVE  g.backward[l] \o Times(Count(Targets(inst), l), cur) \in Seq(Nat)
  <2>1. Times(Count(Targets(inst), l), cur) \in Seq(Nat)
    BY <1>1, <1>4, TimesIsSeq
  <2> QED BY <2>1, <1>1
<1>6. backward \in [LabelsOf(insts) -> Seq(Nat)]
  BY <1>5
<1>7. ASSUME NEW b \in 1..cur
      PROVE  /\ blocks[b] \in Block
             /\ blocks[b].children = g.blocks[b].children
             /\ blocks[b].parents = g.blocks[b].parents
             /\ blocks[b].insts = IF b = cur THEN Append(g.blocks[b].insts, inst) ELSE g.blocks[b].insts
  <2>1. CASE b = cur
    <3>1. Append(g.blocks[b].insts, inst) \in Seq(Instruction)
      BY <1>1 DEF Block
    <3>2. blocks[b] = [g.blocks[b] EXCEPT !.insts = Append(@, inst)]
      <4>1. cur \in DOMAIN g.blocks
        BY <1>1
      <4> HIDE DEF cur, new
      <4>2. blocks[cur] = new
        BY <4>1
      <4> HIDE DEF blocks
      <4>3. blocks[b] = new
        BY <4>2, <2>1
      <4> QED BY <4>3, <2>1 DEF new
    <3> HIDE DEF blocks, cur
    <3> QED BY <1>1, <2>1, <3>1, <3>2 DEF Block
  <2>2. CASE b # cur
    BY <1>1, <2>2
  <2> QED BY <2>1, <2>2
<1>8. blocks \in Seq(Block) /\ Len(blocks) = cur
  <2>1. blocks \in [1..cur -> Block]
    <3>1. DOMAIN blocks = 1..cur /\ blocks = [b \in 1..cur |-> blocks[b]]
      BY <1>1
    <3> HIDE DEF blocks, cur
    <3> QED BY <3>1, <1>7
  <2> HIDE DEF blocks, cur
  <2> QED BY <2>1, <1>1
<1>9. EndsBlock(inst) \in BOOLEAN
  BY DEF EndsBlock, IsBranch, IsReturn
<1> HIDE DEF blocks, backward, cur
<1>10. /\ h.blocks = blocks
       /\ h.prev_branch_or_ret = EndsBlock(inst)
       /\ h.backward = backward
       /\ h \in [blocks : Seq(Block), prev_branch_or_ret : BOOLEAN,
                 backward : [LabelsOf(insts) -> Seq(Nat)]]
  BY <1>2, <1>6, <1>8, <1>9 DEF Graph
<1>11. h \in Graph(insts)
  BY <1>1, <1>8, <1>10 DEF Graph
<1>12. \A l \in LabelsOf(insts) :
         h.backward[l] = g.backward[l] \o Times(Count(Targets(inst), l), cur)
  BY <1>10 DEF backward
<1> QED BY <1>7, <1>8, <1>10, <1>11, <1>12 DEF h, cur

(* g[n] is the state of BuildCFG after n instructions.                     *)
Builds(g, insts) ==
  /\ g \in [0..Len(insts) -> Graph(insts)]
  /\ g[0] = NewCFG(insts)
  /\ \A n \in 1..Len(insts) : g[n] = AddToCFG(g[n - 1], insts[n])
  /\ BuildCFG(insts) = g[Len(insts)].blocks

(* The states of BuildCFG's loop exist.                                    *)
LEMMA BuildsExists ==
  ASSUME NEW insts, insts \in Seq(Instruction)
  PROVE  \E g : Builds(g, insts)
<1> DEFINE N == Len(insts)
           G == Graph(insts)
           Zero == NewCFG(insts)
           step == [n \in 1..N |-> [g \in G |-> AddToCFG(g, insts[n])]]
<1>0. N \in Nat /\ \A n \in 1..N : insts[n] \in Instruction
  OBVIOUS
<1>1. ASSUME NEW n \in 1..N, NEW g \in G PROVE AddToCFG(g, insts[n]) \in G
  <2>1. insts[n] \in Instruction
    BY <1>0
  <2>2. CASE IsLabel(insts[n])
    <3>1. insts[n].label \in LabelsOf(insts)
      BY <1>0, <2>2 DEF LabelsOf
    <3>2. NewBlock(g, insts[n].label) \in G
      BY <3>1, NewBlockIs
    <3> QED BY <2>2, <3>2 DEF AddToCFG
  <2>3. CASE ~IsLabel(insts[n])
    <3>1. AddInst(g, insts[n]) \in G
      BY <2>1, AddInstIs
    <3> QED BY <2>3, <3>1 DEF AddToCFG
  <2> QED BY <2>2, <2>3
<1>2. Zero \in G
  <2>1. Root \in Block
    BY DEF Root, Block
  <2>2. [l \in LabelsOf(insts) |-> <<>>] \in [LabelsOf(insts) -> Seq(Nat)]
    OBVIOUS
  <2>3. <<Root>> \in Seq(Block) /\ Len(<<Root>>) = 1
    BY <2>1
  <2> DEFINE blocks == <<Root>>
             backward == [l \in LabelsOf(insts) |-> <<>>]
  <2>4. /\ Zero = [blocks |-> blocks, prev_branch_or_ret |-> FALSE, backward |-> backward]
        /\ blocks \in Seq(Block) /\ Len(blocks) = 1
        /\ backward \in [LabelsOf(insts) -> Seq(Nat)]
    BY <2>2, <2>3 DEF NewCFG
  <2> HIDE DEF blocks, backward, Zero
  <2>5. Zero \in [blocks : Seq(Block), prev_branch_or_ret : BOOLEAN,
                  backward : [LabelsOf(insts) -> Seq(Nat)]]
    BY <2>4
  <2>6. Zero.blocks = blocks
    BY <2>4
  <2>7. Len(Zero.blocks) = 1
    BY <2>4, <2>6
  <2>8. Len(Zero.blocks) >= 1
    BY <2>7
  <2> QED BY <2>5, <2>8 DEF Graph
<1> HIDE DEF N, G, Zero
<1>3. step \in [1..N -> [G -> G]]
  BY <1>1
<1>4. PICK f \in [0..N -> G] : Iterates(f, Zero, step, N)
  BY <1>0, <1>2, <1>3, IterationExists
<1>5. \A n \in 1..N : f[n - 1] \in G /\ step[n][f[n - 1]] = AddToCFG(f[n - 1], insts[n])
  BY <1>0
<1>6. \A n \in 0..N : f[n] = IF n = 0 THEN Zero ELSE step[n][f[n - 1]]
  BY <1>4 DEF Iterates
<1>7. \A n \in 0..N : n # 0 => n \in 1..N
  BY <1>0
<1> HIDE DEF step
<1>8. \A n \in 0..N : f[n] = IF n = 0 THEN Zero ELSE AddToCFG(f[n - 1], insts[n])
  BY <1>5, <1>6, <1>7
<1>9. f = [n \in 0..N |-> IF n = 0 THEN Zero ELSE AddToCFG(f[n - 1], insts[n])]
  <2>1. f = [n \in 0..N |-> f[n]]
    OBVIOUS
  <2> QED BY <1>8, <2>1
<1> DEFINE g == CHOOSE h : h = [n \in 0..N |-> IF n = 0 THEN Zero ELSE AddToCFG(h[n - 1], insts[n])]
<1>10. g = [n \in 0..N |-> IF n = 0 THEN Zero ELSE AddToCFG(g[n - 1], insts[n])]
  BY <1>9
<1>11. BuildCFG(insts) = g[N].blocks
  BY DEF BuildCFG, N, Zero
<1> HIDE DEF g
<1>12. \A n \in 0..N : g[n] = IF n = 0 THEN Zero ELSE AddToCFG(g[n - 1], insts[n])
  BY <1>10
<1>13. \A n \in 0..N : g[n] \in G
  <2> DEFINE Bad == {n \in 0..N : g[n] \notin G}
  <2> SUFFICES ASSUME Bad # {} PROVE FALSE
    OBVIOUS
  <2>0. Bad \subseteq Nat
    BY <1>0
  <2>1. PICK n \in Bad : \A m \in Bad : n <= m
    BY <2>0, Least
  <2>2. n # 0
    BY <1>2, <1>12, <2>1
  <2>3. n - 1 \in 0..N /\ n \in 1..N /\ ~(n <= n - 1)
    BY <2>1, <2>2, <1>0
  <2>4. g[n - 1] \in G
    BY <2>1, <2>3
  <2> QED BY <2>1, <2>2, <2>3, <2>4, <1>1, <1>12
<1>14. g \in [0..N -> G] /\ g[0] = Zero
  BY <1>10, <1>12, <1>13, <1>0
<1>15. \A n \in 1..N : g[n] = AddToCFG(g[n - 1], insts[n])
  BY <1>12, <1>0
<1> QED BY <1>11, <1>14, <1>15 DEF Builds, N, G, Zero

(* The positions blocks start behind.                                      *)
HeadsOf(insts) == <<0>> \o InOrder({n \in DOMAIN insts : IsLabel(insts[n])}, Len(insts))

AreHeads(h, insts) ==
  /\ h \in Seq(Nat)
  /\ Len(h) >= 1
  /\ h[1] = 0
  /\ \A b \in 2..Len(h) : h[b] \in 1..Len(insts) /\ IsLabel(insts[h[b]])
  /\ \A b, d \in 1..Len(h) : b < d => h[b] < h[d]
  /\ \A n \in 1..Len(insts) : IsLabel(insts[n]) => \E b \in 2..Len(h) : h[b] = n

(* Heads are 0 and the positions of the labels, in order.                  *)
LEMMA HeadsAreHeads ==
  ASSUME NEW insts, insts \in Seq(Instruction)
  PROVE  AreHeads(HeadsOf(insts), insts)
<1> DEFINE P == {n \in DOMAIN insts : IsLabel(insts[n])}
           N == Len(insts)
           s == InOrder(P, N)
           K == Len(s)
           h == <<0>> \o s
<1>1. N \in Nat /\ DOMAIN insts = 1..N
  OBVIOUS
<1>2. Ascends(s, P, N)
  BY <1>1, InOrderAscends
<1> HIDE DEF s
<1>3. /\ s \in Seq(Nat) /\ K \in Nat
      /\ \A i \in 1..K : s[i] \in P /\ s[i] \in 1..N
      /\ \A i, j \in 1..K : i < j => s[i] < s[j]
      /\ \A p \in 1..N : p \in P => \E i \in 1..K : s[i] = p
  BY <1>2 DEF Ascends
<1>4. /\ h \in Seq(Nat) /\ Len(h) = K + 1
      /\ h[1] = 0
      /\ \A i \in 1..K : h[i + 1] = s[i]
  <2>1. <<0>> \in Seq(Nat) /\ Len(<<0>>) = 1 /\ <<0>>[1] = 0
    OBVIOUS
  <2>2. h \in Seq(Nat) /\ Len(h) = 1 + K /\ Behind(h, <<0>>, s)
    BY <2>1, <1>3, JoinOne
  <2>3. h[1] = 0 /\ \A i \in 1..K : h[1 + i] = s[i]
    BY <2>1, <2>2 DEF Behind
  <2> QED BY <2>2, <2>3, <1>3
<1>5. h = HeadsOf(insts)
  BY DEF HeadsOf, s
<1> HIDE DEF h, K
<1>6. \A b \in 2..(K + 1) : b - 1 \in 1..K /\ h[b] = s[b - 1]
  <2> SUFFICES ASSUME NEW b \in 2..(K + 1) PROVE b - 1 \in 1..K /\ h[b] = s[b - 1]
    OBVIOUS
  <2>1. b - 1 \in 1..K /\ (b - 1) + 1 = b
    BY <1>3
  <2> QED BY <2>1, <1>4
<1>7. \A b \in 2..(K + 1) : h[b] \in 1..N /\ IsLabel(insts[h[b]])
  BY <1>3, <1>6
<1>8. ASSUME NEW b \in 1..(K + 1), NEW d \in 1..(K + 1), b < d PROVE h[b] < h[d]
  <2>1. d \in 2..(K + 1) /\ d - 1 \in 1..K /\ h[d] = s[d - 1] /\ h[d] \in 1..N
    BY <1>3, <1>6, <1>7, <1>8
  <2>2. CASE b = 1
    BY <2>1, <2>2, <1>4
  <2>3. CASE b # 1
    <3>1. b \in 2..(K + 1) /\ b - 1 < d - 1 /\ b - 1 \in 1..K /\ h[b] = s[b - 1]
      BY <2>3, <1>3, <1>6, <1>8
    <3> QED BY <3>1, <2>1, <1>3
  <2> QED BY <2>2, <2>3
<1>9. ASSUME NEW n \in 1..N, IsLabel(insts[n]) PROVE \E b \in 2..(K + 1) : h[b] = n
  <2>1. PICK i \in 1..K : s[i] = n
    BY <1>1, <1>3, <1>9
  <2>2. i + 1 \in 2..(K + 1) /\ h[i + 1] = n
    BY <2>1, <1>3, <1>4
  <2> QED BY <2>2
<1> QED BY <1>3, <1>4, <1>5, <1>7, <1>8, <1>9 DEF AreHeads

(* The blocks in s are the first k.                                        *)
Within(s, k) == \A i \in 1..Len(s) : s[i] \in 1..k

(* Two lists of blocks up to k make one of blocks up to k.                 *)
LEMMA WithinConcat ==
  ASSUME NEW s \in Seq(Nat), NEW t \in Seq(Nat), NEW k \in Nat, Within(s, k), Within(t, k)
  PROVE  Within(s \o t, k)
<1> DEFINE w == s \o t
<1>1. w \in Seq(Nat) /\ Len(w) = Len(s) + Len(t) /\ Behind(w, s, t)
  BY JoinOne
<1>2. Len(s) \in Nat /\ Len(t) \in Nat
  OBVIOUS
<1> HIDE DEF w
<1>3. ASSUME NEW i \in 1..Len(w) PROVE w[i] \in 1..k
  <2>1. CASE i <= Len(s)
    <3>1. i \in 1..Len(s)
      BY <2>1, <1>1, <1>2
    <3>2. w[i] = s[i]
      BY <3>1, <1>1 DEF Behind
    <3> QED BY <3>1, <3>2 DEF Within
  <2>2. CASE ~(i <= Len(s))
    <3>1. i - Len(s) \in 1..Len(t) /\ Len(s) + (i - Len(s)) = i
      BY <2>2, <1>1, <1>2
    <3>2. w[i] = t[i - Len(s)]
      BY <3>1, <1>1 DEF Behind
    <3> QED BY <3>1, <3>2 DEF Within
  <2> QED BY <2>1, <2>2
<1> QED BY <1>3 DEF Within, w

(* One block up to k repeated is a list of blocks up to k.                 *)
LEMMA WithinTimes ==
  ASSUME NEW n \in Nat, NEW k \in Nat, NEW b \in 1..k
  PROVE  Within(Times(n, b), k)
BY DEF Within, Times

(* Blocks up to k are blocks up to k + 1.                                  *)
LEMMA WithinMore ==
  ASSUME NEW s \in Seq(Nat), NEW k \in Nat, Within(s, k)
  PROVE  Within(s, k + 1)
BY DEF Within

(* A list of blocks up to k does not have the next one.                    *)
LEMMA NoneBeyond ==
  ASSUME NEW s \in Seq(Nat), NEW k \in Nat, Within(s, k)
  PROVE  Count(s, k + 1) = 0
<1>1. \A i \in 1..Len(s) : s[i] # k + 1
  BY DEF Within
<1> QED BY <1>1, CountIsNat

(* Control does not run on from position p, 0 being the start.             *)
Ended(insts, p) == p > 0 /\ EndsBlock(insts[p])

(* The labels control can jump to from position p.                         *)
Ways(insts, p) == IF p = 0 THEN <<>> ELSE Targets(insts[p])

(* The ways from block b to block d, blocks starting behind h.             *)
Edges(insts, h, b, d) ==
  IF b < d
  THEN (IF d = b + 1 /\ ~Ended(insts, h[d] - 1) THEN 1 ELSE 0)
         + Count(Ways(insts, h[b + 1] - 1), insts[h[d]].label)
  ELSE 0

(* Where block b ends, the last of k blocks at n.                          *)
EndOf(h, b, k, n) == IF b < k THEN h[b + 1] - 1 ELSE n

(* Position n belongs to the last block.                                   *)
BuiltTo(g, n, h) ==
  LET cur == Len(g.blocks)
  IN  cur \in 1..Len(h) /\ h[cur] <= n /\ (cur < Len(h) => n < h[cur + 1])

BuiltInsts(g, n, h, insts) ==
  \A b \in 1..Len(g.blocks) :
    g.blocks[b].insts = SubSeq(insts, h[b] + 1, EndOf(h, b, Len(g.blocks), n))

(* Blocks wait for the labels they can jump to.                            *)
BuiltBackward(g, n, h, insts) ==
  /\ g.prev_branch_or_ret = Ended(insts, n)
  /\ \A l \in LabelsOf(insts) :
       /\ Within(g.backward[l], Len(g.blocks))
       /\ \A b \in 1..Len(g.blocks) :
            Count(g.backward[l], b) = Count(Ways(insts, EndOf(h, b, Len(g.blocks), n)), l)

BuiltEdges(g, h, insts) ==
  \A b \in 1..Len(g.blocks) :
    /\ Within(g.blocks[b].children, Len(g.blocks))
    /\ Within(g.blocks[b].parents, Len(g.blocks))
    /\ \A d \in 1..Len(g.blocks) :
         /\ Count(g.blocks[b].children, d) = Edges(insts, h, b, d)
         /\ Count(g.blocks[d].parents, b) = Edges(insts, h, b, d)

(* The graph of the first n instructions.                                  *)
Built(g, n, h, insts) ==
  /\ BuiltTo(g, n, h)
  /\ BuiltInsts(g, n, h, insts)
  /\ BuiltBackward(g, n, h, insts)
  /\ BuiltEdges(g, h, insts)

(* BuildCFG starts with a root that holds no instruction yet.              *)
LEMMA BuiltFirst ==
  ASSUME NEW insts, insts \in Seq(Instruction), NEW h, AreHeads(h, insts)
  PROVE  Built(NewCFG(insts), 0, h, insts)
<1> DEFINE g == NewCFG(insts)
<1>1. /\ Len(g.blocks) = 1 /\ g.blocks[1] = Root /\ ~g.prev_branch_or_ret
      /\ g.prev_branch_or_ret \in BOOLEAN
      /\ \A l \in LabelsOf(insts) : g.backward[l] = <<>>
  BY DEF NewCFG
<1>2. Len(h) \in Nat /\ Len(h) >= 1 /\ h[1] = 0
  BY DEF AreHeads
<1> HIDE DEF g
<1>3. BuiltTo(g, 0, h)
  <2>1. 1 < Len(h) => h[2] \in 1..Len(insts)
    BY <1>2 DEF AreHeads
  <2> QED BY <1>1, <1>2, <2>1 DEF BuiltTo
<1>4. BuiltInsts(g, 0, h, insts)
  <2>1. SubSeq(insts, 1, 0) = <<>>
    OBVIOUS
  <2>2. EndOf(h, 1, 1, 0) = 0 /\ h[1] + 1 = 1
    BY <1>2 DEF EndOf
  <2>3. SubSeq(insts, h[1] + 1, EndOf(h, 1, 1, 0)) = <<>>
    BY <2>1, <2>2
  <2>4. Root.insts = <<>>
    BY DEF Root
  <2>5. \A b \in 1..Len(g.blocks) : b = 1
    BY <1>1
  <2> QED BY <1>1, <2>3, <2>4, <2>5, Zenon DEF BuiltInsts
<1>5. BuiltBackward(g, 0, h, insts)
  <2>1. Within(<<>>, 1)
    BY DEF Within
  <2>2. Ways(insts, EndOf(h, 1, 1, 0)) = <<>>
    BY DEF EndOf, Ways
  <2>3. ~Ended(insts, 0)
    BY DEF Ended
  <2>4. g.prev_branch_or_ret = Ended(insts, 0)
    BY <1>1, <2>3 DEF Ended
  <2>5. \A b \in 1..Len(g.blocks) : b = 1
    BY <1>1
  <2> QED BY <1>1, <2>1, <2>2, <2>4, <2>5, CountNone, Zenon DEF BuiltBackward
<1>6. BuiltEdges(g, h, insts)
  <2>1. Within(<<>>, 1)
    BY DEF Within
  <2>2. Edges(insts, h, 1, 1) = 0
    BY DEF Edges
  <2>3. Root.children = <<>> /\ Root.parents = <<>>
    BY DEF Root
  <2> QED BY <1>1, <2>1, <2>2, <2>3, CountNone DEF BuiltEdges
<1> QED BY <1>3, <1>4, <1>5, <1>6 DEF Built, g

(* A piece of the code and the instruction after it.                       *)
LEMMA SubSeqOneMore ==
  ASSUME NEW S, NEW s \in Seq(S), NEW m \in Nat, NEW n \in Nat, m <= n, n + 1 <= Len(s)
  PROVE  Append(SubSeq(s, m + 1, n), s[n + 1]) = SubSeq(s, m + 1, n + 1)
<1>1. m + 1 \in 1..Len(s) /\ n + 1 \in (m + 1)..Len(s) /\ (n + 1) - 1 = n
  OBVIOUS
<1>2. SubSeq(s, m + 1, n + 1) = SubSeq(s, m + 1, n) \o <<s[n + 1]>>
  BY <1>1, SubSeqRecursiveSecond
<1>3. SubSeq(s, m + 1, n) \in Seq(S) /\ s[n + 1] \in S
  OBVIOUS
<1> QED BY <1>2, <1>3, AppendIsConcat

(* A label is where the next block starts.                                 *)
LEMMA NextHead ==
  ASSUME NEW insts, insts \in Seq(Instruction), NEW h, AreHeads(h, insts),
         NEW n \in Nat, n + 1 \in 1..Len(insts), IsLabel(insts[n + 1]),
         NEW cur \in 1..Len(h), h[cur] <= n, cur < Len(h) => n < h[cur + 1]
  PROVE  cur + 1 \in 2..Len(h) /\ h[cur + 1] = n + 1
<1>1. Len(h) \in Nat /\ \A b \in 1..Len(h) : h[b] \in Nat
  BY DEF AreHeads
<1>2. PICK c \in 2..Len(h) : h[c] = n + 1
  BY DEF AreHeads
<1>3. c \in 1..Len(h)
  BY <1>1
<1>4. (c < cur => h[c] < h[cur]) /\ h[cur] \in Nat
  BY <1>1, <1>3 DEF AreHeads
<1>5. cur < c
  BY <1>2, <1>3, <1>4
<1>6. cur + 1 \in 2..Len(h) /\ cur + 1 \in 1..Len(h)
  BY <1>1, <1>5
<1>7. n < h[cur + 1] /\ h[cur + 1] \in Nat /\ (cur + 1 < c => h[cur + 1] < h[c])
  BY <1>1, <1>3, <1>6 DEF AreHeads
<1>8. cur + 1 = c
  BY <1>2, <1>5, <1>7
<1> QED BY <1>2, <1>6, <1>8

(* A label keeps Built: it starts the next block, with its parents.        *)
LEMMA BuiltLabel ==
  ASSUME NEW insts, insts \in Seq(Instruction), NEW h, AreHeads(h, insts),
         NEW g \in Graph(insts), NEW n \in Nat, n + 1 \in 1..Len(insts), IsLabel(insts[n + 1]),
         Built(g, n, h, insts)
  PROVE  Built(NewBlock(g, insts[n + 1].label), n + 1, h, insts)
<1> DEFINE label == insts[n + 1].label
           g2 == NewBlock(g, label)
           cur == Len(g.blocks)
           parents == ParentsFor(g, label)
           N == Len(insts)
<1>0. /\ insts[n + 1] \in Instruction /\ N \in Nat /\ n + 1 <= N
      /\ cur \in Nat /\ cur >= 1
      /\ g.prev_branch_or_ret \in BOOLEAN
      /\ label \in LabelsOf(insts)
      /\ \A l \in LabelsOf(insts) : g.backward[l] \in Seq(Nat)
      /\ \A b \in 1..cur : g.blocks[b].children \in Seq(Nat) /\ g.blocks[b].parents \in Seq(Nat)
  <2>1. insts[n + 1] \in Instruction /\ N \in Nat /\ n + 1 <= N
    OBVIOUS
  <2>2. label \in LabelsOf(insts)
    <3>1. n + 1 \in DOMAIN insts
      OBVIOUS
    <3> QED BY <3>1 DEF LabelsOf
  <2>3. /\ cur \in Nat /\ cur >= 1
        /\ g.prev_branch_or_ret \in BOOLEAN
        /\ \A l \in LabelsOf(insts) : g.backward[l] \in Seq(Nat)
        /\ \A b \in 1..cur : g.blocks[b] \in Block
    BY DEF Graph
  <2>4. \A b \in 1..cur : g.blocks[b].children \in Seq(Nat) /\ g.blocks[b].parents \in Seq(Nat)
    BY <2>3 DEF Block
  <2> QED BY <2>1, <2>2, <2>3, <2>4
<1>1. /\ g2 \in Graph(insts)
      /\ Len(g2.blocks) = cur + 1
      /\ ~g2.prev_branch_or_ret
      /\ g2.backward = g.backward
      /\ g2.blocks[cur + 1] = [insts |-> <<>>, children |-> <<>>, parents |-> parents]
      /\ \A b \in 1..cur :
           /\ g2.blocks[b].insts = g.blocks[b].insts
           /\ g2.blocks[b].parents = g.blocks[b].parents
           /\ g2.blocks[b].children = g.blocks[b].children \o Times(Count(parents, b), cur + 1)
  BY <1>0, NewBlockIs
<1>2. /\ parents \in Seq(Nat)
      /\ \A b : Count(parents, b) =
              (IF ~g.prev_branch_or_ret /\ b = cur THEN 1 ELSE 0) + Count(g.backward[label], b)
  BY <1>0, ParentsForIs
<1>3. /\ cur \in 1..Len(h) /\ h[cur] <= n /\ (cur < Len(h) => n < h[cur + 1])
      /\ \A b \in 1..cur : g.blocks[b].insts = SubSeq(insts, h[b] + 1, EndOf(h, b, cur, n))
      /\ g.prev_branch_or_ret = Ended(insts, n)
      /\ \A l \in LabelsOf(insts) :
           /\ Within(g.backward[l], cur)
           /\ \A b \in 1..cur : Count(g.backward[l], b) = Count(Ways(insts, EndOf(h, b, cur, n)), l)
      /\ \A b \in 1..cur :
           /\ Within(g.blocks[b].children, cur)
           /\ Within(g.blocks[b].parents, cur)
           /\ \A d \in 1..cur : /\ Count(g.blocks[b].children, d) = Edges(insts, h, b, d)
                                /\ Count(g.blocks[d].parents, b) = Edges(insts, h, b, d)
  BY DEF Built, BuiltTo, BuiltInsts, BuiltBackward, BuiltEdges
<1>4. cur + 1 \in 2..Len(h) /\ h[cur + 1] = n + 1
  BY <1>3, NextHead
<1>5. Len(h) \in Nat /\ \A b \in 1..Len(h) : h[b] \in Nat
  BY DEF AreHeads
<1> HIDE DEF g2, cur, parents, N
<1>6. \A b \in 1..cur : EndOf(h, b, cur + 1, n + 1) = EndOf(h, b, cur, n)
  BY <1>0, <1>4 DEF EndOf
<1>7. EndOf(h, cur + 1, cur + 1, n + 1) = n + 1
  BY <1>0 DEF EndOf
<1>8. \A b \in 1..(cur + 1) : b \in 1..cur \/ b = cur + 1
  BY <1>0
<1>9. Ways(insts, n + 1) = <<>> /\ ~Ended(insts, n + 1)
  <2>1. insts[n + 1].i = "label" /\ n + 1 # 0
    BY DEF IsLabel
  <2> QED BY <2>1 DEF Ways, Targets, Ended, EndsBlock, IsBranch, IsReturn
<1>10. BuiltTo(g2, n + 1, h)
  <2>1. cur + 1 < Len(h) => h[cur + 1] < h[(cur + 1) + 1]
    <3> SUFFICES ASSUME cur + 1 < Len(h) PROVE h[cur + 1] < h[(cur + 1) + 1]
      OBVIOUS
    <3>1. cur + 1 \in 1..Len(h) /\ (cur + 1) + 1 \in 1..Len(h) /\ cur + 1 < (cur + 1) + 1
      BY <1>0, <1>5
    <3> QED BY <3>1 DEF AreHeads
  <2>2. cur + 1 \in 1..Len(h) /\ h[cur + 1] <= n + 1
    BY <1>4
  <2> QED BY <1>1, <1>4, <2>1, <2>2 DEF BuiltTo
<1>11. BuiltInsts(g2, n + 1, h, insts)
  <2>1. ASSUME NEW b \in 1..cur
        PROVE  g2.blocks[b].insts = SubSeq(insts, h[b] + 1, EndOf(h, b, cur + 1, n + 1))
    BY <1>1, <1>3, <1>6
  <2>2. SubSeq(insts, (n + 1) + 1, n + 1) = <<>>
    BY SubSeqEmpty
  <2>3. g2.blocks[cur + 1].insts =
          SubSeq(insts, h[cur + 1] + 1, EndOf(h, cur + 1, cur + 1, n + 1))
    BY <1>1, <1>4, <1>7, <2>2
  <2> QED BY <1>1, <1>8, <2>1, <2>3 DEF BuiltInsts
<1>12. BuiltBackward(g2, n + 1, h, insts)
  <2>1. g2.prev_branch_or_ret = Ended(insts, n + 1)
    <3>1. g2.prev_branch_or_ret \in BOOLEAN
      BY <1>1 DEF Graph
    <3>2. Ended(insts, n + 1) \in BOOLEAN
      BY DEF Ended
    <3> QED BY <1>1, <1>9, <3>1, <3>2
  <2>2. ASSUME NEW l \in LabelsOf(insts)
        PROVE  /\ Within(g2.backward[l], cur + 1)
               /\ \A b \in 1..(cur + 1) :
                    Count(g2.backward[l], b) = Count(Ways(insts, EndOf(h, b, cur + 1, n + 1)), l)
    <3>1. Within(g2.backward[l], cur + 1)
      BY <1>0, <1>1, <1>3, WithinMore
    <3>2. Count(g2.backward[l], cur + 1) = 0
      BY <1>0, <1>1, <1>3, NoneBeyond
    <3>3. Count(Ways(insts, EndOf(h, cur + 1, cur + 1, n + 1)), l) = 0
      BY <1>7, <1>9, CountNone
    <3>4. \A b \in 1..cur :
            Count(g2.backward[l], b) = Count(Ways(insts, EndOf(h, b, cur + 1, n + 1)), l)
      BY <1>1, <1>3, <1>6
    <3> QED BY <1>8, <3>1, <3>2, <3>3, <3>4
  <2> QED BY <1>1, <2>1, <2>2 DEF BuiltBackward
<1>13. ASSUME NEW b \in 1..cur PROVE Count(parents, b) = Edges(insts, h, b, cur + 1)
  <2>1. Count(g.backward[label], b) = Count(Ways(insts, EndOf(h, b, cur, n)), label)
    BY <1>0, <1>3
  <2>2. EndOf(h, b, cur, n) = h[b + 1] - 1
    BY <1>0, <1>4 DEF EndOf
  <2>3. b < cur + 1 /\ (b = cur <=> cur + 1 = b + 1) /\ h[cur + 1] - 1 = n
    BY <1>0, <1>4
  <2> HIDE DEF label
  <2>4. insts[h[cur + 1]].label = label
    BY <1>4 DEF label
  <2>5. Edges(insts, h, b, cur + 1) =
          (IF b = cur /\ ~Ended(insts, n) THEN 1 ELSE 0) + Count(Ways(insts, h[b + 1] - 1), label)
    BY <2>3, <2>4 DEF Edges
  <2>6. g.prev_branch_or_ret = Ended(insts, n)
    BY <1>3
  <2>7. Count(parents, b) =
          (IF ~g.prev_branch_or_ret /\ b = cur THEN 1 ELSE 0) + Count(g.backward[label], b)
    BY <1>2
  <2>8. (IF ~g.prev_branch_or_ret /\ b = cur THEN 1 ELSE 0)
          = (IF b = cur /\ ~Ended(insts, n) THEN 1 ELSE 0)
    BY <2>6
  <2> QED BY <2>1, <2>2, <2>5, <2>7, <2>8
<1>14. Within(parents, cur + 1) /\ Count(parents, cur + 1) = 0
  <2>1. Within(g.backward[label], cur)
    BY <1>0, <1>3
  <2>2. Count(g.backward[label], cur + 1) = 0
    BY <1>0, <2>1, NoneBeyond
  <2>3. Count(parents, cur + 1) = 0
    BY <1>0, <1>2, <2>2
  <2>4. Within(g.backward[label], cur + 1)
    BY <1>0, <2>1, WithinMore
  <2>5. Within(parents, cur + 1)
    <3> DEFINE front == IF g.prev_branch_or_ret THEN <<>> ELSE <<cur>>
    <3>1. front \in Seq(Nat) /\ Within(front, cur + 1) /\ cur + 1 \in Nat
      BY <1>0 DEF Within
    <3>2. parents = front \o g.backward[label]
      BY DEF parents, ParentsFor, cur
    <3>3. g.backward[label] \in Seq(Nat)
      BY <1>0
    <3> HIDE DEF front, label
    <3> QED BY <3>1, <3>2, <3>3, <2>4, WithinConcat
  <2> QED BY <2>3, <2>5
<1> HIDE DEF label
<1>15. BuiltEdges(g2, h, insts)
  <2>1. ASSUME NEW b \in 1..cur
        PROVE  /\ Within(g2.blocks[b].children, cur + 1)
               /\ Within(g2.blocks[b].parents, cur + 1)
               /\ Count(g2.blocks[b].children, cur + 1) = Edges(insts, h, b, cur + 1)
               /\ Count(g2.blocks[b].parents, cur + 1) = 0
               /\ \A d \in 1..cur : Count(g2.blocks[b].children, d) = Edges(insts, h, b, d)
    <3> DEFINE s == g.blocks[b].children
               t == Times(Count(parents, b), cur + 1)
    <3>1. Count(parents, b) \in Nat
      BY <1>2, CountIsNat
    <3>2. t \in Seq(Nat) /\ Within(t, cur + 1) /\ \A d : Count(t, d) = IF d = cur + 1 THEN Count(parents, b) ELSE 0
      <4>1. cur + 1 \in Nat /\ cur + 1 \in 1..(cur + 1)
        BY <1>0
      <4>2. t \in Seq(Nat)
        BY <3>1, <4>1, TimesIsSeq
      <4>3. Within(t, cur + 1)
        BY <3>1, <4>1, WithinTimes
      <4>4. \A d : Count(t, d) = IF d = cur + 1 THEN Count(parents, b) ELSE 0
        BY <3>1, CountTimes
      <4> QED BY <4>2, <4>3, <4>4
    <3>3. s \in Seq(Nat) /\ Within(s, cur) /\ Within(s, cur + 1) /\ Count(s, cur + 1) = 0
      BY <1>0, <1>3, WithinMore, NoneBeyond
    <3>4. g2.blocks[b].children = s \o t
      BY <1>1
    <3> HIDE DEF s, t
    <3>5. \A d : Count(s \o t, d) = Count(s, d) + Count(t, d)
      BY <3>2, <3>3, CountConcat
    <3>6. Within(s \o t, cur + 1)
      BY <1>0, <3>2, <3>3, WithinConcat
    <3>7. Count(s \o t, cur + 1) = Edges(insts, h, b, cur + 1)
      BY <3>1, <3>2, <3>3, <3>5, <1>13
    <3>8. \A d \in 1..cur : Count(s \o t, d) = Edges(insts, h, b, d)
      <4> SUFFICES ASSUME NEW d \in 1..cur PROVE Count(s \o t, d) = Edges(insts, h, b, d)
        OBVIOUS
      <4>1. d # cur + 1 /\ Count(s, d) \in Nat
        BY <1>0, <3>3, CountIsNat
      <4>2. Count(s, d) = Edges(insts, h, b, d)
        BY <1>3 DEF s
      <4> QED BY <4>1, <4>2, <3>2, <3>5
    <3>9. /\ Within(g2.blocks[b].parents, cur + 1)
          /\ Count(g2.blocks[b].parents, cur + 1) = 0
      BY <1>0, <1>1, <1>3, WithinMore, NoneBeyond
    <3> QED BY <3>4, <3>6, <3>7, <3>8, <3>9
  <2>2. /\ Within(g2.blocks[cur + 1].children, cur + 1)
        /\ \A d : Count(g2.blocks[cur + 1].children, d) = 0
        /\ g2.blocks[cur + 1].parents = parents
    <3>1. Within(<<>>, cur + 1)
      BY DEF Within
    <3> QED BY <1>1, <3>1, CountNone
  <2>3. \A d \in 1..(cur + 1) : Edges(insts, h, cur + 1, d) = 0
    BY <1>0 DEF Edges
  <2>4. ASSUME NEW b \in 1..(cur + 1), NEW d \in 1..(cur + 1)
        PROVE  /\ Count(g2.blocks[b].children, d) = Edges(insts, h, b, d)
               /\ Count(g2.blocks[d].parents, b) = Edges(insts, h, b, d)
    <3>1. CASE b \in 1..cur /\ d \in 1..cur
      <4>1. Count(g2.blocks[d].parents, b) = Edges(insts, h, b, d)
        BY <3>1, <1>1, <1>3
      <4> QED BY <3>1, <4>1, <2>1
    <3>2. CASE b \in 1..cur /\ d = cur + 1
      BY <3>2, <2>1, <2>2, <1>13
    <3>3. CASE b = cur + 1 /\ d \in 1..cur
      BY <3>3, <2>1, <2>2, <2>3
    <3>4. CASE b = cur + 1 /\ d = cur + 1
      BY <3>4, <2>2, <2>3, <1>14
    <3> QED BY <1>8, <3>1, <3>2, <3>3, <3>4
  <2>5. ASSUME NEW b \in 1..(cur + 1)
        PROVE  /\ Within(g2.blocks[b].children, cur + 1)
               /\ Within(g2.blocks[b].parents, cur + 1)
    BY <1>8, <1>14, <2>1, <2>2
  <2> QED BY <1>1, <2>4, <2>5 DEF BuiltEdges
<1> QED BY <1>10, <1>11, <1>12, <1>15 DEF Built, g2, label

(* Nothing but a label comes after a branch or a return.                   *)
LEMMA NotEnded ==
  ASSUME NEW insts, Dropped(insts), NEW n \in Nat, n + 1 \in 1..Len(insts), ~IsLabel(insts[n + 1])
  PROVE  ~Ended(insts, n) /\ Ways(insts, n) = <<>>
<1>1. insts \in Seq(Instruction) /\ LabelsAfterBranches(insts) /\ LabelsAfterReturns(insts)
  BY DEF Dropped
<1>2. CASE n = 0
  BY <1>2 DEF Ended, Ways
<1>3. CASE n # 0
  <2>1. n \in DOMAIN insts /\ n + 1 \in DOMAIN insts
    BY <1>1, <1>3
  <2>2. ~IsBranch(insts[n]) /\ ~IsReturn(insts[n])
    BY <1>1, <2>1 DEF LabelsAfterBranches, LabelsAfterReturns, LabelAfter
  <2>3. Targets(insts[n]) = <<>>
    BY <2>2 DEF IsBranch, Targets
  <2> QED BY <1>3, <2>2, <2>3 DEF Ended, Ways, EndsBlock
<1> QED BY <1>2, <1>3

(* Any other instruction keeps Built: it goes into the last block.         *)
LEMMA BuiltInst ==
  ASSUME NEW insts, Dropped(insts), NEW h, AreHeads(h, insts),
         NEW g \in Graph(insts), NEW n \in Nat, n + 1 \in 1..Len(insts), ~IsLabel(insts[n + 1]),
         Built(g, n, h, insts)
  PROVE  Built(AddInst(g, insts[n + 1]), n + 1, h, insts)
<1> DEFINE inst == insts[n + 1]
           g2 == AddInst(g, inst)
           cur == Len(g.blocks)
           N == Len(insts)
<1>0. /\ insts \in Seq(Instruction) /\ inst \in Instruction
      /\ N \in Nat /\ n + 1 <= N
  BY DEF Dropped
<1>1. /\ cur \in Nat /\ cur >= 1
      /\ \A l \in LabelsOf(insts) : g.backward[l] \in Seq(Nat)
  BY DEF Graph
<1>2. /\ g2 \in Graph(insts)
      /\ Len(g2.blocks) = cur
      /\ g2.prev_branch_or_ret = EndsBlock(inst)
      /\ \A l \in LabelsOf(insts) :
           g2.backward[l] = g.backward[l] \o Times(Count(Targets(inst), l), cur)
      /\ \A b \in 1..cur :
           /\ g2.blocks[b].children = g.blocks[b].children
           /\ g2.blocks[b].parents = g.blocks[b].parents
           /\ g2.blocks[b].insts =
                IF b = cur THEN Append(g.blocks[b].insts, inst) ELSE g.blocks[b].insts
  BY <1>0, AddInstIs
<1>3. /\ cur \in 1..Len(h) /\ h[cur] <= n /\ (cur < Len(h) => n < h[cur + 1])
      /\ \A b \in 1..cur : g.blocks[b].insts = SubSeq(insts, h[b] + 1, EndOf(h, b, cur, n))
      /\ \A l \in LabelsOf(insts) :
           /\ Within(g.backward[l], cur)
           /\ \A b \in 1..cur : Count(g.backward[l], b) = Count(Ways(insts, EndOf(h, b, cur, n)), l)
      /\ BuiltEdges(g, h, insts)
  BY DEF Built, BuiltTo, BuiltInsts, BuiltBackward
<1>4. Len(h) \in Nat /\ \A b \in 1..Len(h) : h[b] \in Nat
  BY DEF AreHeads
<1>5. ~Ended(insts, n) /\ Ways(insts, n) = <<>>
  BY NotEnded
<1>6. Ways(insts, n + 1) = Targets(inst) /\ Ended(insts, n + 1) = EndsBlock(inst)
  <2>1. n + 1 # 0 /\ n + 1 > 0
    OBVIOUS
  <2>2. EndsBlock(inst) \in BOOLEAN
    BY DEF EndsBlock, IsBranch, IsReturn
  <2> QED BY <2>1, <2>2 DEF Ways, Ended
<1> HIDE DEF inst, g2, cur, N
<1>7. ASSUME NEW b \in 1..cur, b # cur PROVE EndOf(h, b, cur, n + 1) = EndOf(h, b, cur, n)
  BY <1>1, <1>7 DEF EndOf
<1>8. EndOf(h, cur, cur, n) = n /\ EndOf(h, cur, cur, n + 1) = n + 1
  BY <1>1 DEF EndOf
<1>9. BuiltTo(g2, n + 1, h)
  <2>1. ASSUME cur < Len(h) PROVE n + 1 < h[cur + 1]
    <3>1. cur + 1 \in 2..Len(h)
      BY <2>1, <1>1, <1>4
    <3>2. h[cur + 1] # n + 1 /\ h[cur + 1] \in Nat
      BY <3>1, <1>4 DEF AreHeads
    <3> QED BY <2>1, <3>2, <1>3
  <2>2. h[cur] <= n + 1
    BY <1>3, <1>4
  <2> QED BY <1>2, <1>3, <2>1, <2>2 DEF BuiltTo
<1>10. BuiltInsts(g2, n + 1, h, insts)
  <2>1. ASSUME NEW b \in 1..cur
        PROVE  g2.blocks[b].insts = SubSeq(insts, h[b] + 1, EndOf(h, b, cur, n + 1))
    <3>1. CASE b = cur
      <4>1. Append(SubSeq(insts, h[cur] + 1, n), inst) = SubSeq(insts, h[cur] + 1, n + 1)
        BY <1>0, <1>3, <1>4, SubSeqOneMore DEF inst, N
      <4>2. g.blocks[cur].insts = SubSeq(insts, h[cur] + 1, n)
        BY <1>3, <1>8
      <4> QED BY <3>1, <4>1, <4>2, <1>2, <1>3, <1>8
    <3>2. CASE b # cur
      BY <3>2, <1>2, <1>3, <1>7
    <3> QED BY <3>1, <3>2
  <2> QED BY <1>2, <2>1 DEF BuiltInsts
<1>11. BuiltBackward(g2, n + 1, h, insts)
  <2>1. ASSUME NEW l \in LabelsOf(insts)
        PROVE  /\ Within(g2.backward[l], cur)
               /\ \A b \in 1..cur :
                    Count(g2.backward[l], b) = Count(Ways(insts, EndOf(h, b, cur, n + 1)), l)
    <3> DEFINE s == g.backward[l]
               t == Times(Count(Targets(inst), l), cur)
    <3>1. Count(Targets(inst), l) \in Nat
      BY <1>0, TargetsIsSeq, CountIsNat
    <3>2. t \in Seq(Nat)
      BY <1>1, <3>1, TimesIsSeq
    <3>3. Within(t, cur)
      BY <1>1, <3>1, WithinTimes
    <3>4. \A b : Count(t, b) = IF b = cur THEN Count(Targets(inst), l) ELSE 0
      BY <3>1, CountTimes
    <3>5. s \in Seq(Nat) /\ Within(s, cur)
      BY <1>1, <1>3
    <3>6. g2.backward[l] = s \o t
      BY <1>2
    <3>7. \A b \in 1..cur : Count(s, b) = Count(Ways(insts, EndOf(h, b, cur, n)), l)
      BY <1>3
    <3> HIDE DEF s, t
    <3>8. Within(s \o t, cur)
      BY <1>1, <3>2, <3>3, <3>5, WithinConcat
    <3>9. ASSUME NEW b \in 1..cur
          PROVE  Count(s \o t, b) = Count(Ways(insts, EndOf(h, b, cur, n + 1)), l)
      <4>1. Count(s \o t, b) = Count(s, b) + Count(t, b) /\ Count(s, b) \in Nat
        BY <3>2, <3>5, CountConcat, CountIsNat
      <4>2. CASE b = cur
        <5>1. Count(s, cur) = 0
          BY <3>7, <4>2, <1>5, <1>8, CountNone
        <5> QED BY <4>1, <4>2, <5>1, <3>1, <3>4, <1>6, <1>8
      <4>3. CASE b # cur
        BY <4>1, <4>3, <3>4, <3>7, <1>7
      <4> QED BY <4>2, <4>3
    <3> QED BY <3>6, <3>8, <3>9
  <2> QED BY <1>2, <1>6, <2>1 DEF BuiltBackward
<1>12. BuiltEdges(g2, h, insts)
  BY <1>2, <1>3 DEF BuiltEdges, cur
<1> QED BY <1>9, <1>10, <1>11, <1>12 DEF Built, g2, inst

(* After every instruction.                                                *)
LEMMA BuiltAlways ==
  ASSUME NEW insts, Dropped(insts), NEW h, AreHeads(h, insts), NEW g, Builds(g, insts)
  PROVE  \A n \in 0..Len(insts) : Built(g[n], n, h, insts)
<1> DEFINE N == Len(insts)
           Bad == {n \in 0..N : ~Built(g[n], n, h, insts)}
<1> SUFFICES ASSUME Bad # {} PROVE FALSE
  OBVIOUS
<1>0. insts \in Seq(Instruction) /\ N \in Nat
  BY DEF Dropped
<1>1. Bad \subseteq Nat
  BY <1>0
<1>2. PICK p \in Bad : \A m \in Bad : p <= m
  BY <1>1, Least
<1>3. p # 0
  BY <1>0, <1>2, BuiltFirst DEF Builds
<1> DEFINE n == p - 1
<1>4. /\ n \in 0..N /\ n \in Nat /\ n + 1 = p /\ p \in 1..N
      /\ ~(p <= n)
  BY <1>0, <1>2, <1>3
<1>5. Built(g[n], n, h, insts)
  BY <1>2, <1>4
<1>6. g[n] \in Graph(insts) /\ g[p] = AddToCFG(g[n], insts[p])
  BY <1>4 DEF Builds
<1> HIDE DEF n, N
<1>7. CASE IsLabel(insts[p])
  <2>1. Built(NewBlock(g[n], insts[n + 1].label), n + 1, h, insts)
    BY <1>0, <1>4, <1>5, <1>6, <1>7, BuiltLabel DEF N
  <2> QED BY <2>1, <1>2, <1>4, <1>6, <1>7 DEF AddToCFG
<1>8. CASE ~IsLabel(insts[p])
  <2>1. Built(AddInst(g[n], insts[n + 1]), n + 1, h, insts)
    BY <1>0, <1>4, <1>5, <1>6, <1>8, BuiltInst DEF N
  <2> QED BY <2>1, <1>2, <1>4, <1>6, <1>8 DEF AddToCFG
<1> QED BY <1>7, <1>8

(* The finished graph.                                                     *)
LEMMA BuildCFGIs ==
  ASSUME NEW insts, Dropped(insts), NEW h, AreHeads(h, insts)
  PROVE  LET blocks == BuildCFG(insts)
         IN  /\ blocks \in Seq(Block)
             /\ Len(blocks) = Len(h)
             /\ \A b \in 1..Len(h) :
                  /\ blocks[b].insts = SubSeq(insts, h[b] + 1, EndOf(h, b, Len(h), Len(insts)))
                  /\ Within(blocks[b].children, Len(h))
                  /\ Within(blocks[b].parents, Len(h))
                  /\ \A d \in 1..Len(h) :
                       /\ Count(blocks[b].children, d) = Edges(insts, h, b, d)
                       /\ Count(blocks[d].parents, b) = Edges(insts, h, b, d)
<1> DEFINE N == Len(insts)
           blocks == BuildCFG(insts)
<1>1. insts \in Seq(Instruction) /\ N \in Nat
  BY DEF Dropped
<1>2. PICK g : Builds(g, insts)
  BY <1>1, BuildsExists
<1>3. N \in 0..N /\ Built(g[N], N, h, insts)
  BY <1>1, <1>2, BuiltAlways
<1>4. blocks = g[N].blocks /\ g[N] \in Graph(insts)
  BY <1>2, <1>3 DEF Builds
<1>5. blocks \in Seq(Block)
  BY <1>4 DEF Graph
<1>6. Len(blocks) = Len(h)
  <2> DEFINE cur == Len(blocks)
  <2>1. cur \in 1..Len(h) /\ (cur < Len(h) => N < h[cur + 1])
    BY <1>3, <1>4 DEF Built, BuiltTo
  <2>2. Len(h) \in Nat
    BY DEF AreHeads
  <2>3. ASSUME cur < Len(h) PROVE FALSE
    <3>1. cur + 1 \in 2..Len(h)
      BY <2>1, <2>2, <2>3
    <3>2. h[cur + 1] \in 1..N
      BY <3>1 DEF AreHeads
    <3> QED BY <3>2, <2>1, <2>3, <1>1
  <2> QED BY <2>1, <2>2, <2>3
<1> HIDE DEF blocks
<1> QED BY <1>3, <1>4, <1>5, <1>6 DEF Built, BuiltInsts, BuiltEdges, blocks

(* The code of block b ends at position EndOf(h, b, ...).                  *)
LEMMA EndOfIs ==
  ASSUME NEW insts, insts \in Seq(Instruction), NEW h, AreHeads(h, insts), NEW b \in 1..Len(h)
  PROVE  LET e == EndOf(h, b, Len(h), Len(insts))
         IN  /\ h[b] \in Nat /\ e \in Nat /\ h[b] <= e /\ e <= Len(insts)
             /\ b < Len(h) => e = h[b + 1] - 1
             /\ \A q \in (h[b] + 1)..e : q \in 1..Len(insts) /\ ~IsLabel(insts[q])
<1> DEFINE K == Len(h)
           N == Len(insts)
           e == EndOf(h, b, K, N)
<1>1. /\ K \in Nat /\ N \in Nat
      /\ \A d \in 1..K : h[d] \in Nat
      /\ h[1] = 0
      /\ \A d \in 2..K : h[d] \in 1..N /\ IsLabel(insts[h[d]])
      /\ \A c, d \in 1..K : c < d => h[c] < h[d]
      /\ \A n \in 1..N : IsLabel(insts[n]) => \E d \in 2..K : h[d] = n
  BY DEF AreHeads
<1>2. b < K => e = h[b + 1] - 1
  BY DEF EndOf
<1>3. b = K => e = N
  BY <1>1 DEF EndOf
<1>4. b < K => b + 1 \in 2..K /\ b + 1 \in 1..K
  BY <1>1
<1>5. h[b] <= N
  BY <1>1
<1> HIDE DEF K, N, e
<1>6. h[b] \in Nat /\ e \in Nat /\ h[b] <= e /\ e <= N
  <2>1. CASE b < K
    <3>1. h[b] < h[b + 1] /\ h[b + 1] \in 1..N /\ h[b] \in Nat
      BY <2>1, <1>1, <1>4 DEF K
    <3> QED BY <3>1, <2>1, <1>1, <1>2
  <2>2. CASE b = K
    BY <2>2, <1>1, <1>3, <1>5 DEF K
  <2> QED BY <2>1, <2>2, <1>1 DEF K
<1>7. ASSUME NEW q \in (h[b] + 1)..e PROVE q \in 1..N /\ ~IsLabel(insts[q])
  <2>1. q \in 1..N /\ h[b] < q /\ q <= e
    BY <1>1, <1>6
  <2>2. ASSUME IsLabel(insts[q]) PROVE FALSE
    <3>1. PICK d \in 2..K : h[d] = q
      BY <2>1, <2>2, <1>1
    <3>2. d \in 1..K /\ (d < b => h[d] < h[b])
      BY <1>1, <3>1 DEF K
    <3>3. b < d
      BY <3>1, <3>2, <2>1, <1>6 DEF K
    <3>4. b < K /\ b + 1 \in 1..K /\ (b + 1 < d => h[b + 1] < h[d]) /\ h[b + 1] \in Nat
      BY <3>2, <3>3, <1>1 DEF K
    <3>5. e = h[b + 1] - 1
      BY <3>4, <1>2
    <3>6. b + 1 = d \/ b + 1 < d
      BY <3>2, <3>3 DEF K
    <3> QED BY <3>1, <3>4, <3>5, <3>6, <2>1
  <2> QED BY <2>1, <2>2
<1> QED BY <1>2, <1>6, <1>7 DEF e, K, N

(* The block a target starts.                                              *)
LEMMA BlockOfIs ==
  ASSUME Dropped(code), AreHeads(Heads, code), DOMAIN CFG = 1..Len(Heads),
         NEW e \in 1..Len(code), NEW l \in ToSet(Targets(code[e]))
  PROVE  /\ BlockOf(l) \in 2..Len(Heads)
         /\ e < Heads[BlockOf(l)]
         /\ \A d \in 2..Len(Heads) : BlockOf(l) = d <=> code[Heads[d]].label = l
<1> DEFINE h == Heads
           K == Len(h)
           N == Len(code)
           At(b) == code[h[b]] = Label(l)
           c == CHOOSE b \in (1..K) \ {1} : At(b)
<1>1. /\ code \in Seq(Instruction) /\ LabelsOnce(code) /\ JumpsLeadDown(code)
      /\ DOMAIN code = 1..N /\ N \in Nat
  BY DEF Dropped
<1>2. PICK m \in Below(code, e, l) : TRUE
  BY <1>1 DEF JumpsLeadDown
<1>3. m \in 1..N /\ e < m /\ code[m] = Label(l) /\ IsLabel(code[m])
  BY <1>1, <1>2 DEF Below, Label, IsLabel
<1>4. BlockOf(l) = c
  BY DEF BlockOf, Positions
<1> HIDE DEF h, N
<1>5. /\ K \in Nat
      /\ \A d \in 2..K : h[d] \in 1..N /\ IsLabel(code[h[d]])
      /\ \A b, d \in 1..K : b < d => h[b] < h[d]
      /\ \A d \in 1..K : h[d] \in Nat
      /\ \A n \in 1..N : IsLabel(code[n]) => \E b \in 2..K : h[b] = n
  BY DEF AreHeads, h, N
<1>6. PICK b \in 2..K : h[b] = m
  BY <1>3, <1>5
<1> HIDE DEF K
<1>7. b \in (1..K) \ {1} /\ At(b)
  BY <1>3, <1>5, <1>6
<1>8. c \in (1..K) \ {1} /\ At(c)
  BY <1>7
<1> HIDE DEF c
<1>9. c \in 2..K
  BY <1>5, <1>8
<1>10. h[c] = m
  BY <1>1, <1>3, <1>5, <1>8, <1>9 DEF LabelsOnce
<1>11. ASSUME NEW d \in 2..K PROVE c = d <=> code[h[d]].label = l
  <2>1. c = d => code[h[d]].label = l
    BY <1>8 DEF Label
  <2>2. ASSUME code[h[d]].label = l PROVE c = d
    <3>1. h[d] \in 1..N /\ IsLabel(code[h[d]])
      BY <1>5
    <3>2. code[h[d]] = Label(l)
      BY <3>1, <2>2, <1>1, LabelIs
    <3>3. h[d] = m
      BY <1>1, <1>3, <3>1, <3>2 DEF LabelsOnce
    <3>4. c \in 1..K /\ d \in 1..K /\ (c < d => h[c] < h[d]) /\ (d < c => h[d] < h[c]) /\ h[c] \in Nat
      BY <1>5, <1>9
    <3> QED BY <3>3, <3>4, <1>10
  <2> QED BY <2>1, <2>2
<1> QED BY <1>3, <1>4, <1>9, <1>10, <1>11 DEF h, K

(* What the graph of the code is, block by block.                          *)
GraphBuilt ==
  /\ Dropped(code)
  /\ AreHeads(Heads, code)
  /\ CFG \in Seq(Block)
  /\ Len(CFG) = Len(Heads)
  /\ \A b \in 1..Len(Heads) :
       /\ CFG[b].insts = SubSeq(code, Heads[b] + 1, EndOf(Heads, b, Len(Heads), Len(code)))
       /\ Within(CFG[b].children, Len(Heads))
       /\ Within(CFG[b].parents, Len(Heads))
       /\ \A d \in 1..Len(Heads) :
            /\ Count(CFG[b].children, d) = Edges(code, Heads, b, d)
            /\ Count(CFG[d].parents, b) = Edges(code, Heads, b, d)

(* The graph that BuildCFG returns is the one described by GraphBuilt.     *)
LEMMA GraphIsBuilt ==
  ASSUME Dropped(code), CFG = BuildCFG(code)
  PROVE  GraphBuilt
<1>1. code \in Seq(Instruction)
  BY DEF Dropped
<1>2. Heads = HeadsOf(code)
  BY DEF Heads, HeadsOf
<1>3. AreHeads(Heads, code)
  BY <1>1, <1>2, HeadsAreHeads
<1> QED BY <1>3, BuildCFGIs DEF GraphBuilt

(* A block's instructions are those from its head to its end.              *)
LEMMA BlockIs ==
  ASSUME GraphBuilt, NEW b \in 1..Len(Heads)
  PROVE  LET e == EndOf(Heads, b, Len(Heads), Len(code))
         IN  /\ Len(CFG[b].insts) = e - Heads[b]
             /\ CFG[b].insts \in Seq(Instruction)
             /\ \A n \in 1..(e - Heads[b]) : CFG[b].insts[n] = code[Heads[b] + n]
<1> DEFINE e == EndOf(Heads, b, Len(Heads), Len(code))
           s == Heads[b]
<1>1. code \in Seq(Instruction) /\ AreHeads(Heads, code) /\ CFG[b].insts = SubSeq(code, s + 1, e)
  BY DEF GraphBuilt, Dropped
<1>2. s \in Nat /\ e \in Nat /\ s <= e /\ e <= Len(code)
  BY <1>1, EndOfIs
<1> HIDE DEF e, s
<1>3. /\ Len(SubSeq(code, s + 1, e)) = e - s
      /\ SubSeq(code, s + 1, e) \in Seq(Instruction)
      /\ \A n \in 1..(e - s) : SubSeq(code, s + 1, e)[n] = code[s + n]
  BY <1>1, <1>2
<1> QED BY <1>1, <1>3 DEF e, s

(* What ends a block is its last instruction: a label stands below it.     *)
LEMMA EndsAtEndIs ==
  ASSUME GraphBuilt, NEW b \in 1..Len(Heads)
  PROVE  EndsAtEnd(b)
<1> DEFINE s == Heads[b]
           e == EndOf(Heads, b, Len(Heads), Len(code))
           insts == CFG[b].insts
<1>1. Dropped(code) /\ code \in Seq(Instruction) /\ AreHeads(Heads, code)
  BY DEF GraphBuilt, Dropped
<1>2. /\ s \in Nat /\ e \in Nat /\ s <= e /\ e <= Len(code)
      /\ \A q \in (s + 1)..e : q \in 1..Len(code) /\ ~IsLabel(code[q])
  BY <1>1, EndOfIs
<1>3. /\ Len(insts) = e - s
      /\ insts \in Seq(Instruction)
      /\ \A n \in 1..(e - s) : insts[n] = code[s + n]
  BY BlockIs
<1> HIDE DEF s, e
<1>4. ASSUME NEW n \in 1..(e - s)
      PROVE  ~IsDirectJMP(insts[n]) /\ (EndsBlock(insts[n]) => n = e - s)
  <2>1. insts[n] = code[s + n] /\ s + n \in 1..Len(code)
    BY <1>2, <1>3
  <2>2. ~IsDirectJMP(code[s + n])
    BY <1>1, <2>1 DEF Dropped, NoJumps
  <2>3. ASSUME EndsBlock(code[s + n]), n # e - s PROVE FALSE
    <3>1. s + (n + 1) \in (s + 1)..e /\ s + (n + 1) = (s + n) + 1
      BY <1>2, <2>3
    <3>2. s + n \in Nat /\ (s + n) + 1 \in 1..Len(code) /\ ~IsLabel(code[(s + n) + 1])
      BY <1>2, <3>1
    <3>3. ~Ended(code, s + n)
      BY <1>1, <3>2, NotEnded
    <3> QED BY <2>1, <2>3, <3>3 DEF Ended
  <2> QED BY <2>1, <2>2, <2>3
<1>5. DOMAIN insts = 1..(e - s)
  BY <1>3
<1> HIDE DEF insts
<1>6. \A n \in DOMAIN insts : ~IsDirectJMP(insts[n]) /\ (EndsBlock(insts[n]) => n = Len(insts))
  BY <1>3, <1>4, <1>5
<1> QED BY <1>6 DEF EndsAtEnd, insts

(* Where control goes is counted by Edges.                                 *)
LEMMA ExitsAreEdges ==
  ASSUME GraphBuilt, NEW b \in 1..Len(Heads), NEW d \in 1..Len(Heads)
  PROVE  Count(Exits(b), d) = Edges(code, Heads, b, d)
<1> DEFINE h == Heads
           K == Len(h)
           N == Len(code)
           e == EndOf(h, b, K, N)
           insts == CFG[b].insts
           T == Targets(Last(insts))
<1>1. /\ Dropped(code) /\ code \in Seq(Instruction) /\ AreHeads(h, code)
      /\ DOMAIN CFG = 1..K /\ Len(CFG) = K /\ N \in Nat
  BY DEF GraphBuilt, Dropped
<1>2. /\ h[b] \in Nat /\ e \in Nat /\ h[b] <= e /\ e <= N
      /\ b < K => e = h[b + 1] - 1
  BY <1>1, EndOfIs
<1>3. /\ Len(insts) = e - h[b]
      /\ insts \in Seq(Instruction)
      /\ \A n \in 1..(e - h[b]) : insts[n] = code[h[b] + n]
  BY BlockIs
<1>4. /\ K \in Nat
      /\ h[1] = 0
      /\ \A c \in 2..K : h[c] \in 1..N /\ IsLabel(code[h[c]])
      /\ \A c, f \in 1..K : c < f => h[c] < h[f]
      /\ \A c \in 1..K : h[c] \in Nat
  BY <1>1 DEF AreHeads
<1> HIDE DEF h, K, N, e, insts
<1>5. ASSUME h[b] < e PROVE insts # <<>> /\ Last(insts) = code[e]
  <2>1. e - h[b] \in 1..(e - h[b]) /\ h[b] + (e - h[b]) = e
    BY <1>2, <1>5
  <2>2. insts # <<>>
    BY <2>1, <1>3
  <2> QED BY <2>1, <2>2, <1>3 DEF Last
<1>6. ASSUME ~(h[b] < e) PROVE insts = <<>> /\ ~Ended(code, e)
  <2>1. e = h[b]
    BY <1>2, <1>6
  <2>2. insts = <<>>
    BY <2>1, <1>2, <1>3
  <2>3. CASE b = 1
    BY <2>1, <2>2, <2>3, <1>4 DEF Ended
  <2>4. CASE b # 1
    <3>1. IsLabel(code[e])
      BY <2>1, <2>4, <1>4 DEF K, h
    <3> QED BY <2>2, <3>1 DEF Ended, IsLabel, EndsBlock, IsBranch, IsReturn
  <2> QED BY <2>3, <2>4
<1>7. (insts # <<>> /\ EndsBlock(Last(insts))) <=> Ended(code, e)
  <2>1. CASE h[b] < e
    BY <2>1, <1>2, <1>5 DEF Ended
  <2>2. CASE ~(h[b] < e)
    BY <2>2, <1>6
  <2> QED BY <2>1, <2>2
<1>8. CASE Ended(code, e)
  <2>1. h[b] < e /\ e \in 1..N
    BY <1>2, <1>6, <1>8 DEF Ended
  <2>2. T = Ways(code, e) /\ T = Targets(code[e])
    BY <2>1, <1>5 DEF Ways
  <2>3. Exits(b) = [t \in DOMAIN T |-> BlockOf(T[t])]
    BY <1>7, <1>8 DEF Exits, insts
  <2> HIDE DEF T
  <2>4. ASSUME NEW t \in DOMAIN T
        PROVE  /\ BlockOf(T[t]) \in 2..K
               /\ e < h[BlockOf(T[t])]
               /\ \A c \in 2..K : BlockOf(T[t]) = c <=> code[h[c]].label = T[t]
    <3>1. T[t] \in ToSet(Targets(code[e]))
      BY <2>2 DEF ToSet
    <3> QED BY <3>1, <1>1, <2>1, BlockOfIs DEF h, K, N
  <2> DEFINE f == Exits(b)
             places == {t \in DOMAIN f : f[t] = d}
  <2>5. DOMAIN f = DOMAIN T /\ \A t \in DOMAIN T : f[t] = BlockOf(T[t])
    BY <2>3
  <2>6. Count(f, d) = Cardinality(places)
    BY DEF Count
  <2> HIDE DEF f
  <2>7. CASE b < d
    <3>1. d \in 2..K /\ d \in 1..K /\ b < K
      BY <2>7, <1>4 DEF K, h
    <3>2. places = {t \in DOMAIN T : T[t] = code[h[d]].label}
      BY <3>1, <2>4, <2>5
    <3>3. Count(f, d) = Count(T, code[h[d]].label)
      BY <3>2, <2>6 DEF Count
    <3>4. e = h[b + 1] - 1
      BY <3>1, <1>2
    <3>5. Edges(code, h, b, d) = 0 + Count(Ways(code, e), code[h[d]].label)
      BY <2>7, <3>4, <1>8 DEF Edges
    <3>6. Count(T, code[h[d]].label) \in Nat
      <4>1. code[e] \in Instruction
        BY <1>1, <2>1 DEF N
      <4> QED BY <4>1, <2>2, TargetsIsSeq, CountIsNat
    <3>7. Edges(code, h, b, d) = Count(T, code[h[d]].label)
      <4> DEFINE x == Count(T, code[h[d]].label)
      <4>1. Count(Ways(code, e), code[h[d]].label) = x
        BY <2>2
      <4> HIDE DEF x
      <4>2. x \in Nat /\ Edges(code, h, b, d) = 0 + x
        BY <3>5, <3>6, <4>1 DEF x
      <4>3. Edges(code, h, b, d) = x
        BY <4>2
      <4> QED BY <4>3 DEF x
    <3> QED BY <3>3, <3>7 DEF f, h
  <2>8. CASE ~(b < d)
    <3>1. h[d] <= h[b]
      <4>1. d \in 1..K /\ b \in 1..K
        BY DEF K, h
      <4>2. CASE d = b
        BY <4>2, <1>2
      <4>3. CASE d # b
        <5>1. d < b
          BY <2>8, <4>1, <4>3
        <5> QED BY <5>1, <4>1, <1>4
      <4> QED BY <4>2, <4>3
    <3>2. ASSUME NEW t \in places PROVE FALSE
      <4>1. t \in DOMAIN T /\ BlockOf(T[t]) = d
        BY <3>2, <2>5
      <4>2. e < h[d] /\ h[d] \in Nat
        BY <4>1, <2>4, <1>4 DEF h, K
      <4> QED BY <4>2, <3>1, <1>2
    <3>3. places = {}
      BY <3>2
    <3>4. Count(f, d) = 0
      BY <3>3, <2>6, FS_EmptySet
    <3> QED BY <2>8, <3>4 DEF Edges, f
  <2> QED BY <2>7, <2>8
<1>9. CASE ~Ended(code, e)
  <2>1. Exits(b) = IF b < K THEN <<b + 1>> ELSE <<>>
    BY <1>1, <1>7, <1>9 DEF Exits, insts
  <2>2. Ways(code, e) = <<>>
    <3>1. e # 0 => ~IsBranch(code[e])
      BY <1>2, <1>9 DEF Ended, EndsBlock
    <3>2. e # 0 => Targets(code[e]) = <<>>
      BY <3>1 DEF IsBranch, Targets
    <3> QED BY <3>2 DEF Ways
  <2>3. d \in 1..K /\ b \in 1..K
    BY DEF K, h
  <2>4. CASE b < d
    <3>1. b < K /\ e = h[b + 1] - 1
      BY <2>3, <2>4, <1>2, <1>4
    <3>2. Count(Exits(b), d) = IF d = b + 1 THEN 1 ELSE 0
      BY <2>1, <3>1, CountOne
    <3>3. d = b + 1 => ~Ended(code, h[d] - 1)
      BY <3>1, <1>9
    <3>4. Edges(code, h, b, d) = (IF d = b + 1 THEN 1 ELSE 0) + 0
      <4>1. Count(Ways(code, h[b + 1] - 1), code[h[d]].label) = 0
        BY <2>2, <3>1, CountNone
      <4> QED BY <2>4, <3>3, <4>1 DEF Edges
    <3> QED BY <3>2, <3>4 DEF h
  <2>5. CASE ~(b < d)
    <3>1. d # b + 1
      BY <2>3, <2>5
    <3>2. Count(Exits(b), d) = 0
      BY <2>1, <3>1, CountOne, CountNone
    <3> QED BY <2>5, <3>2 DEF Edges, h
  <2> QED BY <2>4, <2>5
<1> QED BY <1>8, <1>9

(* Every block but the root has a parent.                                  *)
LEMMA BlocksHaveParents ==
  ASSUME GraphBuilt, Entered(code), NEW d \in 2..Len(Heads)
  PROVE  CFG[d].parents # <<>>
<1> DEFINE h == Heads
           K == Len(h)
           N == Len(code)
<1>1. /\ Dropped(code) /\ code \in Seq(Instruction) /\ AreHeads(h, code)
      /\ N \in Nat /\ DOMAIN code = 1..N
      /\ LabelsAfterBranches(code)
  BY DEF GraphBuilt, Dropped
<1>2. /\ K \in Nat
      /\ \A c \in 2..K : h[c] \in 1..N /\ IsLabel(code[h[c]])
      /\ \A c, f \in 1..K : c < f => h[c] < h[f]
      /\ \A c \in 1..K : h[c] \in Nat
      /\ \A n \in 1..N : IsLabel(code[n]) => \E c \in 2..K : h[c] = n
  BY <1>1 DEF AreHeads
<1>3. ASSUME NEW c \in 1..K, Edges(code, h, c, d) # 0 PROVE CFG[d].parents # <<>>
  <2>1. Count(CFG[d].parents, c) # 0
    BY <1>2, <1>3 DEF GraphBuilt
  <2> QED BY <2>1, CountNone
<1>4. h[d] \in 1..N /\ IsLabel(code[h[d]])
  BY <1>2
<1>5. d \in 1..K /\ d - 1 \in 1..K /\ (d - 1) + 1 = d /\ d - 1 < d
  BY <1>2
<1> HIDE DEF h, K, N
<1> DEFINE p == h[d] - 1
           l == code[h[d]].label
<1>6. p \in Nat /\ p + 1 = h[d] /\ p <= N
  BY <1>1, <1>4
<1>7. \A n \in 1..N : Targets(code[n]) \in Seq(Nat)
  BY <1>1, TargetsIsSeq DEF N
<1>8. CASE ~Ended(code, p)
  <2>1. Count(Ways(code, p), l) \in Nat
    <3>1. Ways(code, p) \in Seq(Nat)
      <4>1. CASE p = 0
        BY <4>1 DEF Ways
      <4>2. CASE p # 0
        BY <4>2, <1>6, <1>7 DEF Ways
      <4> QED BY <4>1, <4>2
    <3> QED BY <3>1, CountIsNat
  <2>2. Edges(code, h, d - 1, d) = 1 + Count(Ways(code, p), l)
    BY <1>5, <1>8 DEF Edges
  <2> QED BY <2>1, <2>2, <1>3, <1>5
<1>9. CASE Ended(code, p)
  <2>1. h[d] > 1 /\ EndsBlock(code[h[d] - 1])
    BY <1>4, <1>6, <1>9 DEF Ended
  <2>2. PICK m \in 1..(h[d] - 1) : l \in ToSet(Targets(code[m]))
    BY <1>1, <1>4, <2>1 DEF Entered
  <2>3. m \in 1..N /\ m < h[d] /\ m # 0
    BY <1>1, <1>4, <2>2
  <2>4. IsBranch(code[m])
    <3> SUFFICES ASSUME ~IsBranch(code[m]) PROVE FALSE
      OBVIOUS
    <3>1. Targets(code[m]) = <<>>
      BY DEF IsBranch, Targets
    <3> QED BY <2>2, <3>1 DEF ToSet
  <2>5. m + 1 \in 1..N /\ IsLabel(code[m + 1])
    BY <1>1, <2>3, <2>4 DEF LabelsAfterBranches, LabelAfter
  <2>6. PICK c \in 2..K : h[c] = m + 1
    BY <1>2, <2>5 DEF K, h, N
  <2>7. c \in 1..K /\ (d < c => h[d] < h[c]) /\ c - 1 \in 1..K /\ (c - 1) + 1 = c
    BY <1>2, <1>5, <2>6 DEF K, h, N
  <2>8. c <= d
    BY <1>4, <1>5, <2>3, <2>6, <2>7
  <2>9. h[(c - 1) + 1] - 1 = m /\ c - 1 < d
    BY <2>3, <2>6, <2>7, <2>8, <1>5
  <2>10. Ways(code, h[(c - 1) + 1] - 1) = Targets(code[m])
    BY <2>3, <2>9 DEF Ways
  <2>11. Targets(code[m]) \in Seq(Nat) /\ \E t \in 1..Len(Targets(code[m])) : Targets(code[m])[t] = l
    <3>1. Targets(code[m]) \in Seq(Nat)
      BY <1>7, <2>3
    <3>2. \E t \in DOMAIN Targets(code[m]) : Targets(code[m])[t] = l
      BY <2>2 DEF ToSet
    <3> QED BY <3>1, <3>2
  <2>12. Count(Targets(code[m]), l) \in Nat /\ Count(Targets(code[m]), l) # 0
    BY <2>11, CountIsNat
  <2>13. Edges(code, h, c - 1, d) # 0
    <3> DEFINE one == IF d = (c - 1) + 1 /\ ~Ended(code, h[d] - 1) THEN 1 ELSE 0
    <3>1. Edges(code, h, c - 1, d) = one + Count(Targets(code[m]), l)
      BY <2>9, <2>10 DEF Edges
    <3>2. one \in Nat
      OBVIOUS
    <3> HIDE DEF one
    <3> QED BY <3>1, <3>2, <2>12
  <2> QED BY <2>7, <2>13, <1>3
<1> QED BY <1>8, <1>9

(* GraphIsSound, piece by piece.                                           *)
LEMMA GraphBuiltIsSound ==
  ASSUME GraphBuilt, Entered(code)
  PROVE  GraphIsSound
<1> DEFINE K == Len(Heads)
<1>1. /\ CFG \in Seq(Block) /\ Len(CFG) = K /\ K \in Nat /\ DOMAIN CFG = 1..K
      /\ \A b \in 1..K : CFG[b] \in Block
  BY DEF GraphBuilt, AreHeads
<1>2. CodeInBlocks
  <2> DEFINE h == Heads
  <2>1. ASSUME NEW b \in 1..K
        PROVE  CFG[b].insts = SubSeq(code, h[b] + 1, IF b = K THEN Len(code) ELSE h[b + 1] - 1)
    <3>1. CFG[b].insts = SubSeq(code, h[b] + 1, EndOf(h, b, K, Len(code)))
      BY DEF GraphBuilt
    <3> HIDE DEF K, h
    <3>2. EndOf(h, b, K, Len(code)) = IF b = K THEN Len(code) ELSE h[b + 1] - 1
      BY <1>1 DEF EndOf
    <3> QED BY <3>1, <3>2
  <2> QED BY <1>1, <2>1 DEF CodeInBlocks, Positions
<1>3. ASSUME NEW b \in 1..K PROVE EndsAtEnd(b)
  BY EndsAtEndIs
<1>4. ASSUME NEW b \in 1..K PROVE EdgesAreExits(b)
  <2>1. ASSUME NEW d \in 1..K
        PROVE  /\ Count(CFG[b].children, d) = Count(Exits(b), d)
               /\ Count(CFG[d].parents, b) = Count(Exits(b), d)
               /\ Count(Exits(b), d) # 0 => b < d
    <3>1. Count(Exits(b), d) = Edges(code, Heads, b, d)
      BY ExitsAreEdges
    <3>2. Edges(code, Heads, b, d) # 0 => b < d
      BY DEF Edges
    <3> QED BY <3>1, <3>2 DEF GraphBuilt
  <2> QED BY <1>1, <2>1 DEF EdgesAreExits, Positions
<1>5. ASSUME NEW b \in 1..K, b # 1 PROVE CFG[b].parents # <<>>
  <2>1. b \in 2..K
    BY <1>1, <1>5
  <2> QED BY <2>1, BlocksHaveParents
<1>6. ASSUME NEW b \in 1..K
      PROVE  ToSet(CFG[b].children) \cup ToSet(CFG[b].parents) \subseteq 1..K
  <2>1. CFG[b].children \in Seq(Nat) /\ CFG[b].parents \in Seq(Nat)
    BY <1>1 DEF Block
  <2>2. Within(CFG[b].children, K) /\ Within(CFG[b].parents, K)
    BY DEF GraphBuilt
  <2> HIDE DEF K
  <2> QED BY <2>1, <2>2 DEF Within, ToSet
<1> HIDE DEF K
<1> QED BY <1>1, <1>2, <1>3, <1>4, <1>5, <1>6 DEF GraphIsSound, Positions

-----------------------------------------------------------------------------
(* The graph as the input of Partition *)

(* How a block ends.                                                       *)
TerminatorOf(b) ==
  LET insts == CFG[b].insts
  IN  CASE insts # <<>> /\ IsReturn(Last(insts)) -> [kind |-> "ret", t |-> 0, f |-> 0]
        [] insts # <<>> /\ IsBranch(Last(insts)) ->
             [kind |-> "branch", t |-> Exits(b)[1], f |-> Exits(b)[2]]
        [] OTHER -> [kind |-> "fall", t |-> 0, f |-> 0]

(* The instructions of a block that require ptrace, and the first of them. *)
NeedsOf(b) == {n \in DOMAIN CFG[b].insts : CFG[b].insts[n].i \in {"call", "store"}}
NeedOf(b) ==
  IF NeedsOf(b) = {} THEN 0 ELSE CHOOSE n \in NeedsOf(b) : \A m \in NeedsOf(b) : n <= m

(* Partition at its start, with a graph of N blocks up to M instructions   *)
(* long.                                                                   *)
Input(N, M) ==
  INSTANCE Partition WITH
    NBlocks <- N, MaxPos <- M,
    term <- [b \in 1..N |-> TerminatorOf(b)],
    need <- [b \in 1..N |-> NeedOf(b)],
    pc <- "color", cur <- 1, ptrace_blocks <- [b \in 1..N |-> 0], candidates <- <<>>,
    changed <- FALSE, ptrace_only_blocks <- {}, ptrace_targets <- {},
    BPF_IR <- [b \in 1..N |-> "none"], ret_data_to_label <- <<>>, lifted <- {},
    unsupported <- FALSE

(* The graph is an input of Partition, and what Partition calls edges,     *)
(* parents and children is what BuildCFG has put into the lists.           *)
FitsPartition ==
  \A N, M \in Nat :
    N = Len(CFG) /\ (\A b \in Positions : Len(CFG[b].insts) <= M) =>
      /\ Input(N, M)!Init
      /\ \A b \in Positions :
           /\ Input(N, M)!Parents(b) = ToSet(CFG[b].parents)
           /\ Input(N, M)!Children(b) = ToSet(CFG[b].children)
           /\ Input(N, M)!AtMostOneParent(b) <=> Len(CFG[b].parents) <= 1

(* An element of a sequence is alone in it if it is counted at most once.  *)
LEMMA CountAtMostOne ==
  ASSUME NEW S, NEW s \in Seq(S), NEW x
  PROVE  Count(s, x) <= 1 <=> \A i, j \in 1..Len(s) : s[i] = x /\ s[j] = x => i = j
<1> DEFINE P == PlacesOf(s, x)
<1>1. /\ IsFiniteSet(P) /\ Count(s, x) = Cardinality(P) /\ Count(s, x) \in Nat
      /\ P = {n \in 1..Len(s) : s[n] = x}
  BY CountIsNat DEF PlacesOf
<1> HIDE DEF P
<1>2. ASSUME Count(s, x) <= 1, NEW i \in 1..Len(s), NEW j \in 1..Len(s), s[i] = x, s[j] = x
      PROVE  i = j
  <2>1. i \in P /\ j \in P
    BY <1>1, <1>2
  <2>2. Cardinality(P) # 0
    BY <2>1, <1>1, FS_EmptySet
  <2>3. Cardinality(P) = 1
    BY <2>2, <1>1, <1>2
  <2>4. PICK y : P = {y}
    BY <2>3, <1>1, FS_Singleton
  <2> QED BY <2>1, <2>4
<1>3. ASSUME \A i, j \in 1..Len(s) : s[i] = x /\ s[j] = x => i = j
      PROVE  Count(s, x) <= 1
  <2>1. CASE P = {}
    BY <2>1, <1>1, FS_EmptySet
  <2>2. CASE P # {}
    <3>1. PICK i : i \in P
      BY <2>2
    <3>2. P = {i}
      BY <3>1, <1>1, <1>3
    <3> QED BY <3>2, <1>1, FS_Singleton
  <2> QED BY <2>1, <2>2
<1> QED BY <1>2, <1>3

(* What a sequence of two counts.                                          *)
LEMMA CountPair ==
  ASSUME NEW x, NEW y, NEW z
  PROVE  Count(<<x, y>>, z) = (IF z = x THEN 1 ELSE 0) + (IF z = y THEN 1 ELSE 0)
<1> DEFINE P == {n \in DOMAIN <<x, y>> : <<x, y>>[n] = z}
<1>1. /\ z = x /\ z = y => P = {1} \cup {2}
      /\ z = x /\ z # y => P = {1}
      /\ z # x /\ z = y => P = {2}
      /\ z # x /\ z # y => P = {}
  OBVIOUS
<1>2. Cardinality({1} \cup {2}) = 2
  <2>1. IsFiniteSet({1}) /\ Cardinality({1}) = 1
    BY FS_Singleton
  <2>2. Cardinality({1} \cup {2}) = IF 2 \in {1} THEN Cardinality({1}) ELSE Cardinality({1}) + 1
    BY <2>1, FS_AddElement
  <2> QED BY <2>1, <2>2
<1>3. Cardinality({1}) = 1 /\ Cardinality({2}) = 1 /\ Cardinality({}) = 0
  BY FS_Singleton, FS_EmptySet
<1>4. Count(<<x, y>>, z) = Cardinality(P)
  BY DEF Count
<1> HIDE DEF P
<1> QED BY <1>1, <1>2, <1>3, <1>4

(* A branch at the end of a block leads to blocks.                         *)
LEMMA BranchLeadsToBlocks ==
  ASSUME GraphBuilt, NEW b \in 1..Len(Heads), CFG[b].insts # <<>>,
         NEW l \in ToSet(Targets(Last(CFG[b].insts)))
  PROVE  BlockOf(l) \in 1..Len(Heads)
<1> DEFINE e == EndOf(Heads, b, Len(Heads), Len(code))
           h == Heads[b]
           insts == CFG[b].insts
<1>1. /\ Dropped(code) /\ code \in Seq(Instruction) /\ AreHeads(Heads, code)
      /\ DOMAIN CFG = 1..Len(Heads) /\ Len(code) \in Nat
  BY DEF GraphBuilt, Dropped
<1>2. h \in Nat /\ e \in Nat /\ h <= e /\ e <= Len(code)
  BY <1>1, EndOfIs
<1>3. /\ Len(insts) = e - h
      /\ insts \in Seq(Instruction)
      /\ \A n \in 1..(e - h) : insts[n] = code[h + n]
  BY BlockIs
<1> HIDE DEF e, h, insts
<1>4. Len(insts) \in 1..(e - h) /\ h + (e - h) = e
  BY <1>2, <1>3 DEF insts
<1>5. Last(insts) = code[e] /\ e \in 1..Len(code)
  BY <1>2, <1>3, <1>4 DEF Last
<1>6. l \in ToSet(Targets(code[e]))
  BY <1>5 DEF insts
<1> QED BY <1>1, <1>5, <1>6, BlockOfIs

(* Where control goes from a block, by how the block ends.                 *)
Exiting(b, term) ==
  \/ term = [kind |-> "ret", t |-> 0, f |-> 0] /\ Exits(b) = <<>>
  \/ /\ term = [kind |-> "fall", t |-> 0, f |-> 0]
     /\ Exits(b) = IF b < Len(CFG) THEN <<b + 1>> ELSE <<>>
  \/ /\ \E t, f \in 1..Len(CFG) : term = [kind |-> "branch", t |-> t, f |-> f]
     /\ Exits(b) = <<term.t, term.f>>

(* That is what the terminator of a block tells.                           *)
LEMMA TerminatorIs ==
  ASSUME GraphBuilt, NEW b \in 1..Len(Heads)
  PROVE  Exiting(b, TerminatorOf(b))
<1> DEFINE insts == CFG[b].insts
           last == Last(insts)
           T == Targets(last)
<1>1. insts \in Seq(Instruction) /\ Len(CFG) = Len(Heads)
  BY BlockIs DEF GraphBuilt
<1> HIDE DEF insts
<1>2. CASE insts = <<>>
  BY <1>2 DEF Exiting, TerminatorOf, Exits, insts
<1>3. ASSUME insts # <<>>
      PROVE  last \in Instruction /\ ~IsDirectJMP(last)
  <2>1. Len(insts) \in 1..Len(insts) /\ last = insts[Len(insts)]
    BY <1>1, <1>3 DEF Last
  <2>2. ~IsDirectJMP(insts[Len(insts)])
    BY <1>1, <2>1, EndsAtEndIs DEF EndsAtEnd, insts
  <2> QED BY <1>1, <2>1, <2>2
<1> HIDE DEF last
<1>4. CASE insts # <<>> /\ IsReturn(last)
  <2>0. last.i = "return"
    BY <1>4 DEF IsReturn
  <2>1. T = <<>> /\ EndsBlock(last) /\ TerminatorOf(b) = [kind |-> "ret", t |-> 0, f |-> 0]
    <3>1. T = <<>> /\ EndsBlock(last) /\ ~IsBranch(last)
      BY <2>0, <1>4 DEF Targets, EndsBlock, IsBranch
    <3>2. TerminatorOf(b) = [kind |-> "ret", t |-> 0, f |-> 0]
      BY <3>1, <1>4 DEF TerminatorOf, insts, last
    <3> QED BY <3>1, <3>2
  <2>2. Exits(b) = [t \in DOMAIN T |-> BlockOf(T[t])]
    BY <2>1, <1>4 DEF Exits, insts, last
  <2> HIDE DEF T
  <2>3. Exits(b) = <<>>
    BY <2>1, <2>2
  <2> QED BY <2>1, <2>3 DEF Exiting
<1>5. CASE insts # <<>> /\ IsBranch(last)
  <2>1. last.i = "branch" /\ EndsBlock(last) /\ ~IsReturn(last)
    BY <1>3, <1>5 DEF IsBranch, IsDirectJMP, EndsBlock, IsReturn
  <2>2. T = <<last.true_target, last.false_target>>
    BY <2>1 DEF Targets
  <2>3. Exits(b) = [t \in DOMAIN T |-> BlockOf(T[t])]
    BY <2>1, <1>5 DEF Exits, insts, last
  <2>4. \A t \in DOMAIN T : BlockOf(T[t]) \in 1..Len(Heads)
    <3> SUFFICES ASSUME NEW t \in DOMAIN T PROVE BlockOf(T[t]) \in 1..Len(Heads)
      OBVIOUS
    <3>1. T[t] \in ToSet(Targets(Last(CFG[b].insts)))
      BY DEF ToSet, last, insts
    <3> QED BY <3>1, <1>5, BranchLeadsToBlocks DEF insts
  <2>5. TerminatorOf(b) = [kind |-> "branch", t |-> Exits(b)[1], f |-> Exits(b)[2]]
    BY <2>1, <1>5 DEF TerminatorOf, insts, last
  <2> HIDE DEF T
  <2>6. /\ Exits(b) = <<BlockOf(T[1]), BlockOf(T[2])>>
        /\ BlockOf(T[1]) \in 1..Len(Heads) /\ BlockOf(T[2]) \in 1..Len(Heads)
    BY <2>2, <2>3, <2>4
  <2> QED BY <2>5, <2>6, <1>1 DEF Exiting
<1>6. CASE insts # <<>> /\ ~EndsBlock(last)
  BY <1>6 DEF Exiting, TerminatorOf, Exits, EndsBlock, insts, last
<1> QED BY <1>2, <1>4, <1>5, <1>6 DEF EndsBlock

(* A list of blocks has those it counts.                                   *)
LEMMA ToSetIsCounted ==
  ASSUME NEW k \in Nat, NEW s \in Seq(Nat), Within(s, k)
  PROVE  ToSet(s) = {x \in 1..k : Count(s, x) # 0}
<1>1. ToSet(s) = {s[i] : i \in 1..Len(s)}
  BY DEF ToSet
<1>2. \A x : Count(s, x) = 0 <=> \A i \in 1..Len(s) : s[i] # x
  BY CountIsNat
<1>3. \A i \in 1..Len(s) : s[i] \in 1..k
  BY DEF Within
<1> QED BY <1>1, <1>2, <1>3

(* Partition's edges: k says which way leads from block a to block d.      *)
Leads(a, k, d) ==
  \/ k = "fall" /\ TerminatorOf(a).kind = "fall" /\ a < Len(CFG) /\ d = a + 1
  \/ k = "true" /\ TerminatorOf(a).kind = "branch" /\ d = TerminatorOf(a).t
  \/ k = "false" /\ TerminatorOf(a).kind = "branch" /\ d = TerminatorOf(a).f

(* They are the edges of the graph that is built: as many as it counts.    *)
LEMMA LeadsIsCounted ==
  ASSUME GraphBuilt, NEW a \in 1..Len(Heads), NEW d \in 1..Len(Heads)
  PROVE  /\ Count(Exits(a), d) # 0 <=> \E k : Leads(a, k, d)
         /\ Count(Exits(a), d) <= 1 <=> \A k, j : Leads(a, k, d) /\ Leads(a, j, d) => k = j
<1> DEFINE term == TerminatorOf(a)
<1>1. Exiting(a, term)
  BY TerminatorIs
<1> HIDE DEF term
<1>2. CASE term = [kind |-> "ret", t |-> 0, f |-> 0] /\ Exits(a) = <<>>
  <2>1. \A k : ~Leads(a, k, d)
    BY <1>2 DEF Leads, term
  <2> QED BY <2>1, <1>2, CountNone
<1>3. CASE /\ term = [kind |-> "fall", t |-> 0, f |-> 0]
           /\ Exits(a) = IF a < Len(CFG) THEN <<a + 1>> ELSE <<>>
  <2>1. \A k : Leads(a, k, d) <=> k = "fall" /\ a < Len(CFG) /\ d = a + 1
    BY <1>3 DEF Leads, term
  <2>2. Count(Exits(a), d) = IF a < Len(CFG) /\ d = a + 1 THEN 1 ELSE 0
    BY <1>3, CountOne, CountNone
  <2> QED BY <2>1, <2>2
<1>4. CASE /\ \E t, f \in 1..Len(CFG) : term = [kind |-> "branch", t |-> t, f |-> f]
           /\ Exits(a) = <<term.t, term.f>>
  <2>1. \A k : Leads(a, k, d) <=> (k = "true" /\ d = term.t) \/ (k = "false" /\ d = term.f)
    BY <1>4 DEF Leads, term
  <2>2. Count(Exits(a), d) = (IF d = term.t THEN 1 ELSE 0) + (IF d = term.f THEN 1 ELSE 0)
    BY <1>4, CountPair
  <2> QED BY <2>1, <2>2
<1> QED BY <1>1, <1>2, <1>3, <1>4 DEF Exiting

(* The edges of Partition's graph.                                         *)
LEMMA InputEdges ==
  ASSUME GraphBuilt, NEW N \in Nat, NEW M \in Nat, N = Len(CFG)
  PROVE  /\ Input(N, M)!Edges \subseteq (1..N) \X {"fall", "true", "false"} \X (1..N)
         /\ \A a, d \in 1..N : \A k : <<a, k, d>> \in Input(N, M)!Edges <=> Leads(a, k, d)
<1> DEFINE term == [b \in 1..N |-> TerminatorOf(b)]
           E == Input(N, M)!Edges
<1>1. E = {<<b, "fall", b + 1>> : b \in {x \in 1..N : term[x].kind = "fall" /\ x < N}}
            \cup {<<b, "true", term[b].t>> : b \in {x \in 1..N : term[x].kind = "branch"}}
            \cup {<<b, "false", term[b].f>> : b \in {x \in 1..N : term[x].kind = "branch"}}
  BY DEF Input!Edges, Input!Blocks
<1>2. \A b \in 1..N : Exiting(b, term[b])
  BY TerminatorIs DEF GraphBuilt
<1>3. \A b \in 1..N : term[b].kind = "branch" => term[b].t \in 1..N /\ term[b].f \in 1..N
  BY <1>2 DEF Exiting
<1>4. \A b \in 1..N : term[b] = TerminatorOf(b)
  OBVIOUS
<1> HIDE DEF E, term
<1>5. E \subseteq (1..N) \X {"fall", "true", "false"} \X (1..N)
  BY <1>1, <1>3
<1>6. ASSUME NEW a \in 1..N, NEW d \in 1..N, NEW k PROVE <<a, k, d>> \in E <=> Leads(a, k, d)
  BY <1>1, <1>4 DEF Leads
<1> QED BY <1>5, <1>6 DEF E

(* A list of blocks has one entry at most if no block is counted twice and *)
(* no two are counted.                                                     *)
LEMMA ShortIsCounted ==
  ASSUME NEW k \in Nat, NEW s \in Seq(Nat), Within(s, k)
  PROVE  Len(s) <= 1 <=>
           /\ \A x \in 1..k : Count(s, x) <= 1
           /\ \A x, y \in 1..k : Count(s, x) # 0 /\ Count(s, y) # 0 => x = y
<1>1. /\ Len(s) \in Nat
      /\ \A i \in 1..Len(s) : s[i] \in 1..k
      /\ \A x : Count(s, x) = 0 <=> \A i \in 1..Len(s) : s[i] # x
      /\ \A x : Count(s, x) <= 1 <=> \A i, j \in 1..Len(s) : s[i] = x /\ s[j] = x => i = j
  BY CountIsNat, CountAtMostOne DEF Within
<1>2. ASSUME Len(s) <= 1
      PROVE  /\ \A x \in 1..k : Count(s, x) <= 1
             /\ \A x, y \in 1..k : Count(s, x) # 0 /\ Count(s, y) # 0 => x = y
  <2>1. \A i, j \in 1..Len(s) : i = j
    BY <1>1, <1>2
  <2> QED BY <1>1, <2>1
<1>3. ASSUME /\ \A x \in 1..k : Count(s, x) <= 1
             /\ \A x, y \in 1..k : Count(s, x) # 0 /\ Count(s, y) # 0 => x = y
      PROVE  Len(s) <= 1
  <2> SUFFICES ASSUME ~(Len(s) <= 1) PROVE FALSE
    OBVIOUS
  <2>1. 1 \in 1..Len(s) /\ 2 \in 1..Len(s)
    BY <1>1
  <2>2. s[1] = s[2]
    BY <1>1, <1>3, <2>1
  <2>3. s[1] \in 1..k /\ Count(s, s[1]) <= 1
    BY <1>1, <1>3, <2>1
  <2> QED BY <1>1, <2>1, <2>2, <2>3
<1> QED BY <1>2, <1>3

(* The lists of children and of parents have an entry for each edge.       *)
LEMMA ListsAreEdges ==
  ASSUME GraphBuilt, NEW N \in Nat, NEW M \in Nat, N = Len(CFG), NEW b \in 1..N
  PROVE  /\ Input(N, M)!Parents(b) = ToSet(CFG[b].parents)
         /\ Input(N, M)!Children(b) = ToSet(CFG[b].children)
         /\ Input(N, M)!AtMostOneParent(b) <=> Len(CFG[b].parents) <= 1
<1> DEFINE E == Input(N, M)!Edges
           In == Input(N, M)!InEdges(b)
           parents == CFG[b].parents
           children == CFG[b].children
<1>1. /\ E \subseteq (1..N) \X {"fall", "true", "false"} \X (1..N)
      /\ \A a, d \in 1..N : \A k : <<a, k, d>> \in E <=> Leads(a, k, d)
  BY InputEdges
<1>2. /\ N = Len(Heads)
      /\ parents \in Seq(Nat) /\ Within(parents, N)
      /\ children \in Seq(Nat) /\ Within(children, N)
  <2>1. CFG \in Seq(Block) /\ N = Len(Heads) /\ b \in DOMAIN CFG
    BY DEF GraphBuilt
  <2>2. CFG[b] \in Block
    BY <2>1
  <2> QED BY <2>1, <2>2 DEF GraphBuilt, Block
<1>3. \A a \in 1..N : /\ Count(parents, a) = Count(Exits(a), b)
                      /\ Count(children, a) = Count(Exits(b), a)
  <2> SUFFICES ASSUME NEW a \in 1..N
               PROVE  /\ Count(parents, a) = Count(Exits(a), b)
                      /\ Count(children, a) = Count(Exits(b), a)
    OBVIOUS
  <2>1. a \in 1..Len(Heads) /\ b \in 1..Len(Heads)
    BY <1>2
  <2>2. /\ Count(Exits(a), b) = Edges(code, Heads, a, b)
        /\ Count(Exits(b), a) = Edges(code, Heads, b, a)
    BY <2>1, ExitsAreEdges
  <2>3. /\ Count(CFG[b].children, a) = Edges(code, Heads, b, a)
        /\ Count(CFG[b].parents, a) = Edges(code, Heads, a, b)
    BY <2>1 DEF GraphBuilt
  <2> QED BY <2>2, <2>3
<1>4. \A a, d \in 1..N :
        /\ Count(Exits(a), d) # 0 <=> \E k : Leads(a, k, d)
        /\ Count(Exits(a), d) <= 1 <=> \A k, j : Leads(a, k, d) /\ Leads(a, j, d) => k = j
  BY <1>2, LeadsIsCounted
<1>5. /\ Input(N, M)!Parents(b) = {e[1] : e \in In}
      /\ Input(N, M)!Children(b) = {e[3] : e \in {x \in E : x[1] = b}}
      /\ Input(N, M)!AtMostOneParent(b) <=> \A d, e \in In : d = e
      /\ In = {e \in E : e[3] = b}
  BY DEF Input!Parents, Input!Children, Input!AtMostOneParent, Input!InEdges
<1>6. /\ ToSet(parents) = {a \in 1..N : Count(parents, a) # 0}
      /\ ToSet(children) = {a \in 1..N : Count(children, a) # 0}
  BY <1>2, ToSetIsCounted
<1>7. Len(parents) <= 1 <=>
        /\ \A x \in 1..N : Count(parents, x) <= 1
        /\ \A x, y \in 1..N : Count(parents, x) # 0 /\ Count(parents, y) # 0 => x = y
  BY <1>2, ShortIsCounted
<1> HIDE DEF E, In, parents, children
<1>8. Input(N, M)!Parents(b) = ToSet(parents)
  <2>1. ASSUME NEW a \in {e[1] : e \in In} PROVE a \in ToSet(parents)
    <3>1. PICK e \in In : e[1] = a
      BY <2>1
    <3>2. e \in E /\ e = <<a, e[2], b>> /\ a \in 1..N
      BY <3>1, <1>1, <1>5
    <3>3. Leads(a, e[2], b)
      BY <3>2, <1>1
    <3> QED BY <3>2, <3>3, <1>3, <1>4, <1>6
  <2>2. ASSUME NEW a \in ToSet(parents) PROVE a \in {e[1] : e \in In}
    <3>1. a \in 1..N /\ \E k : Leads(a, k, b)
      BY <2>2, <1>3, <1>4, <1>6
    <3>2. PICK k : <<a, k, b>> \in E
      BY <3>1, <1>1
    <3>3. <<a, k, b>> \in In /\ <<a, k, b>>[1] = a
      BY <3>2, <1>5
    <3> QED BY <3>3
  <2> QED BY <2>1, <2>2, <1>5
<1>9. Input(N, M)!Children(b) = ToSet(children)
  <2>1. ASSUME NEW d \in {e[3] : e \in {x \in E : x[1] = b}} PROVE d \in ToSet(children)
    <3>1. PICK e \in E : e[1] = b /\ e[3] = d
      BY <2>1
    <3>2. e = <<b, e[2], d>> /\ d \in 1..N
      BY <3>1, <1>1
    <3>3. Leads(b, e[2], d)
      BY <3>1, <3>2, <1>1
    <3> QED BY <3>2, <3>3, <1>3, <1>4, <1>6
  <2>2. ASSUME NEW d \in ToSet(children) PROVE d \in {e[3] : e \in {x \in E : x[1] = b}}
    <3>1. d \in 1..N /\ \E k : Leads(b, k, d)
      BY <2>2, <1>3, <1>4, <1>6
    <3>2. PICK k : <<b, k, d>> \in E
      BY <3>1, <1>1
    <3>3. <<b, k, d>>[1] = b /\ <<b, k, d>>[3] = d
      OBVIOUS
    <3> QED BY <3>2, <3>3
  <2> QED BY <2>1, <2>2, <1>5
<1>10. ASSUME \A d, e \in In : d = e PROVE Len(parents) <= 1
  <2>1. \A x, y \in 1..N : \A k, j : Leads(x, k, b) /\ Leads(y, j, b) => <<x, k, b>> = <<y, j, b>>
    <3> SUFFICES ASSUME NEW x \in 1..N, NEW y \in 1..N, NEW k, NEW j, Leads(x, k, b), Leads(y, j, b)
                 PROVE  <<x, k, b>> = <<y, j, b>>
      OBVIOUS
    <3>1. <<x, k, b>> \in E /\ <<y, j, b>> \in E
      BY <1>1
    <3>2. <<x, k, b>> \in In /\ <<y, j, b>> \in In
      BY <3>1, <1>5
    <3> QED BY <3>2, <1>10
  <2>2. \A x, y \in 1..N : \A k, j : Leads(x, k, b) /\ Leads(y, j, b) => x = y /\ k = j
    BY <2>1
  <2>3. \A x \in 1..N : Count(parents, x) <= 1
    BY <2>2, <1>3, <1>4
  <2>4. \A x, y \in 1..N : Count(parents, x) # 0 /\ Count(parents, y) # 0 => x = y
    BY <2>2, <1>3, <1>4
  <2> QED BY <2>3, <2>4, <1>7
<1>11. ASSUME Len(parents) <= 1, NEW d \in In, NEW e \in In PROVE d = e
  <2>1. /\ d = <<d[1], d[2], b>> /\ d[1] \in 1..N /\ d \in E
        /\ e = <<e[1], e[2], b>> /\ e[1] \in 1..N /\ e \in E
    BY <1>1, <1>5
  <2>2. Leads(d[1], d[2], b) /\ Leads(e[1], e[2], b)
    BY <2>1, <1>1
  <2>3. Count(parents, d[1]) # 0 /\ Count(parents, e[1]) # 0
    BY <2>1, <2>2, <1>3, <1>4
  <2>4. d[1] = e[1]
    BY <2>1, <2>3, <1>7, <1>11
  <2>5. Count(Exits(d[1]), b) <= 1
    BY <2>1, <1>3, <1>7, <1>11
  <2>6. d[2] = e[2]
    BY <2>1, <2>2, <2>4, <2>5, <1>4
  <2> QED BY <2>1, <2>4, <2>6
<1> QED BY <1>5, <1>8, <1>9, <1>10, <1>11 DEF parents, children

(* The first instruction for the tracer is one of the block.               *)
LEMMA NeedIs ==
  ASSUME GraphBuilt, NEW b \in 1..Len(Heads), NEW M \in Nat, Len(CFG[b].insts) <= M
  PROVE  NeedOf(b) \in 0..M
<1> DEFINE P == NeedsOf(b)
<1>1. CFG[b].insts \in Seq(Instruction)
  BY BlockIs
<1>2. P \subseteq 1..M
  <2>1. DOMAIN CFG[b].insts = 1..Len(CFG[b].insts) /\ Len(CFG[b].insts) \in Nat
    BY <1>1
  <2> QED BY <2>1 DEF NeedsOf
<1>3. P # {} => \E n \in P : \A m \in P : n <= m
  BY <1>2, Least
<1> HIDE DEF P
<1>4. P # {} => (CHOOSE n \in P : \A m \in P : n <= m) \in P
  BY <1>3
<1> QED BY <1>2, <1>4 DEF NeedOf, P

(* The graph is one of those that Partition starts from.                   *)
LEMMA GraphBuiltFits ==
  ASSUME GraphBuilt, Entered(code)
  PROVE  FitsPartition
<1> SUFFICES ASSUME NEW N \in Nat, NEW M \in Nat, N = Len(CFG),
                    \A b \in Positions : Len(CFG[b].insts) <= M
             PROVE  /\ Input(N, M)!Init
                    /\ \A b \in Positions :
                         /\ Input(N, M)!Parents(b) = ToSet(CFG[b].parents)
                         /\ Input(N, M)!Children(b) = ToSet(CFG[b].children)
                         /\ Input(N, M)!AtMostOneParent(b) <=> Len(CFG[b].parents) <= 1
  BY DEF FitsPartition
<1>1. Positions = 1..N /\ N = Len(Heads)
  BY DEF GraphBuilt, Positions
<1>2. \A b \in Positions :
        /\ Input(N, M)!Parents(b) = ToSet(CFG[b].parents)
        /\ Input(N, M)!Children(b) = ToSet(CFG[b].children)
        /\ Input(N, M)!AtMostOneParent(b) <=> Len(CFG[b].parents) <= 1
  BY <1>1, ListsAreEdges
<1>3. \A b \in 1..N : Exiting(b, TerminatorOf(b))
  BY <1>1, TerminatorIs
<1>4. \A b \in 1..N : TerminatorOf(b) \in [kind : {"ret", "fall"}, t : {0}, f : {0}]
                                            \cup [kind : {"branch"}, t : 1..N, f : 1..N]
  BY <1>3 DEF Exiting
<1>5. \A b \in 1..N : NeedOf(b) \in 0..M
  BY <1>1, NeedIs
<1>6. \A a, d \in 1..N : \A k : Leads(a, k, d) => a < d
  <2> SUFFICES ASSUME NEW a \in 1..N, NEW d \in 1..N, NEW k, Leads(a, k, d) PROVE a < d
    OBVIOUS
  <2>1. Count(Exits(a), d) # 0
    BY <1>1, LeadsIsCounted
  <2>2. Edges(code, Heads, a, d) # 0
    BY <1>1, <2>1, ExitsAreEdges
  <2> QED BY <2>2 DEF Edges
<1>7. ASSUME NEW b \in 1..N, TerminatorOf(b).kind = "branch"
      PROVE  TerminatorOf(b).t > b /\ TerminatorOf(b).f > b
  <2>1. TerminatorOf(b).t \in 1..N /\ TerminatorOf(b).f \in 1..N
    BY <1>4, <1>7
  <2>2. Leads(b, "true", TerminatorOf(b).t) /\ Leads(b, "false", TerminatorOf(b).f)
    BY <1>7 DEF Leads
  <2>3. b < TerminatorOf(b).t /\ b < TerminatorOf(b).f
    BY <2>1, <2>2, <1>6
  <2> QED BY <2>1, <2>3
<1>8. ASSUME NEW b \in (1..N) \ {1} PROVE Input(N, M)!InEdges(b) # {}
  <2>1. CFG[b].parents # <<>> /\ CFG[b].parents \in Seq(Nat)
    <3>1. CFG \in Seq(Block) /\ b \in DOMAIN CFG /\ b \in 2..Len(Heads)
      BY <1>1 DEF GraphBuilt
    <3>2. CFG[b] \in Block
      BY <3>1
    <3> QED BY <3>1, <3>2, BlocksHaveParents DEF Block
  <2>2. 1 \in DOMAIN CFG[b].parents
    BY <2>1
  <2>3. ToSet(CFG[b].parents) # {}
    BY <2>2 DEF ToSet
  <2>4. Input(N, M)!Parents(b) # {}
    BY <2>3, <1>1, <1>2
  <2> QED BY <2>4 DEF Input!Parents
<1>9. Input(N, M)!Forward
  BY <1>7 DEF Input!Forward, Input!Blocks
<1>10. Input(N, M)!Entered
  BY <1>8 DEF Input!Entered, Input!Blocks
<1>11. [b \in 1..N |-> TerminatorOf(b)] \in [1..N -> [kind : {"ret", "fall"}, t : {0}, f : {0}]
                                                       \cup [kind : {"branch"}, t : 1..N, f : 1..N]]
  BY <1>4
<1>12. [b \in 1..N |-> NeedOf(b)] \in [1..N -> 0..M]
  BY <1>5
<1>13. Input(N, M)!Init
  BY <1>9, <1>10, <1>11, <1>12 DEF Input!Init, Input!Blocks, Input!Terminator
<1> QED BY <1>2, <1>13

-----------------------------------------------------------------------------
(* The theorems *)

(* The code between the passes: labels of its own and jumps that lead down *)
(* to them before dead code is dropped; then no unconditional jump and a   *)
(* label below every branch and return; and every block entered once       *)
(* nothing more is purged.                                                 *)
PassInv ==
  /\ stmts \in Checks
  /\ pass \in {"IRGen", "MergeLabels", "dead", "purge", "CFG", "done"}
  /\ pass \in {"MergeLabels", "dead"} => Generated(code)
  /\ pass = "purge" => Dropped(code)
  /\ pass \in {"CFG", "done"} => Dropped(code) /\ Entered(code)
  /\ pass = "done" => CFG = BuildCFG(code)

(* PassInv is inductive.                                                   *)
LEMMA PassInvHolds == Spec => []PassInv
<1>1. Init => PassInv
  BY DEF Init, PassInv
<1>2. PassInv /\ [Next]_vars => PassInv'
  <2> SUFFICES ASSUME PassInv, [Next]_vars PROVE PassInv'
    OBVIOUS
  <2>1. CASE RunIRGen
    <3>1. Generated(code')
      BY <2>1, ChecksAssumption DEF PassInv, RunIRGen
    <3> QED BY <2>1, <3>1 DEF PassInv, RunIRGen
  <2>2. CASE RunMergeLabels
    <3>1. Generated(code')
      BY <2>2, MergeLabelsGenerated DEF PassInv, RunMergeLabels
    <3> QED BY <2>2, <3>1 DEF PassInv, RunMergeLabels
  <2>3. CASE RunDropDead
    <3>1. Dropped(code')
      BY <2>3, DropDeadDrops DEF PassInv, RunDropDead
    <3> QED BY <2>3, <3>1 DEF PassInv, RunDropDead
  <2>4. CASE RunPurge
    <3>1. Dropped(code') /\ (code' = code => Entered(code'))
      BY <2>4, PurgeDrops DEF PassInv, RunPurge
    <3> QED BY <2>4, <3>1 DEF PassInv, RunPurge
  <2>5. CASE RunBuildCFG
    BY <2>5 DEF PassInv, RunBuildCFG
  <2>6. CASE UNCHANGED vars
    BY <2>6 DEF PassInv, vars
  <2> QED BY <2>1, <2>2, <2>3, <2>4, <2>5, <2>6 DEF Next
<1> QED BY <1>1, <1>2, PTL DEF Spec

(* The graph every compiled check ends with holds the code, block by       *)
(* block, and its edges are the ways control takes.                        *)
THEOREM GraphsAreSound == Spec => []GraphIsSound
<1>1. PassInv => GraphIsSound
  <2> SUFFICES ASSUME PassInv, pass = "done" PROVE GraphIsSound
    BY DEF GraphIsSound
  <2>1. Dropped(code) /\ Entered(code) /\ CFG = BuildCFG(code)
    BY DEF PassInv
  <2> QED BY <2>1, GraphIsBuilt, GraphBuiltIsSound
<1> QED BY <1>1, PassInvHolds, PTL

(* What EliminateDeadCodeImpl erases is never run.                         *)
THEOREM PurgedIsUnreachable == Spec => OnlyUnreachablePurged
<1>1. PassInv /\ [Next]_vars => [pass = "purge" => Behavior(code') = Behavior(code)]_vars
  <2> SUFFICES ASSUME PassInv, Next, pass = "purge" PROVE Behavior(code') = Behavior(code)
    BY DEF vars
  <2>1. RunPurge
    BY DEF Next, RunIRGen, RunMergeLabels, RunDropDead, RunBuildCFG
  <2>2. code \in Seq(Instruction) /\ LabelsOnce(code)
    BY DEF PassInv, Dropped
  <2> QED BY <2>1, <2>2, PurgeKeepsBehavior DEF RunPurge
<1> QED BY <1>1, PassInvHolds, PTL DEF Spec, OnlyUnreachablePurged

(* What the passes so far have left of what the generated code does: all   *)
(* of it while labels are merged, and all of it from then on if the jumps  *)
(* that EliminateDeadCode deletes do nothing.                              *)
BehaviorKept ==
  LET merged == MergeLabels(IRGen(stmts))
  IN  /\ pass \in {"MergeLabels", "dead"} => Behavior(code) = Behavior(IRGen(stmts))
      /\ pass \in {"purge", "CFG", "done"} /\ JumpsAreIdle(merged)
           => Behavior(code) = Behavior(IRGen(stmts))

(* With the code the first passes are given, BehaviorKept is inductive.    *)
KeptInv ==
  /\ pass = "MergeLabels" => code = IRGen(stmts)
  /\ pass = "dead" => code = MergeLabels(IRGen(stmts))
  /\ BehaviorKept

(* The code of a check does what IRGen's code does after every pass, if    *)
(* each jump control reaches in it leads to the label right below it.      *)
THEOREM PassesKeepBehavior == Spec => []BehaviorKept
<1>1. Init => KeptInv
  BY DEF Init, KeptInv, BehaviorKept
<1>2. PassInv /\ KeptInv /\ [Next]_vars => KeptInv'
  <2> SUFFICES ASSUME PassInv, KeptInv, [Next]_vars PROVE KeptInv'
    OBVIOUS
  <2>1. CASE RunIRGen
    BY <2>1 DEF RunIRGen, KeptInv, BehaviorKept
  <2>2. CASE RunMergeLabels
    <3>1. Generated(code) /\ code = IRGen(stmts) /\ code' = MergeLabels(code)
      BY <2>2 DEF PassInv, KeptInv, RunMergeLabels
    <3>2. Behavior(code') = Behavior(IRGen(stmts))
      BY <3>1, MergeKeepsBehavior
    <3> QED BY <2>2, <3>1, <3>2 DEF RunMergeLabels, KeptInv, BehaviorKept
  <2>3. CASE RunDropDead
    <3>1. /\ Generated(code) /\ code = MergeLabels(IRGen(stmts)) /\ code' = DropDead(code)
          /\ Behavior(code) = Behavior(IRGen(stmts))
      BY <2>3 DEF PassInv, KeptInv, BehaviorKept, RunDropDead
    <3>2. JumpsAreIdle(code) => Behavior(code') = Behavior(code)
      BY <3>1, DropKeepsBehavior
    <3> QED BY <2>3, <3>1, <3>2 DEF RunDropDead, KeptInv, BehaviorKept
  <2>4. CASE RunPurge
    <3>1. code \in Seq(Instruction) /\ LabelsOnce(code)
      BY <2>4 DEF PassInv, RunPurge, Dropped
    <3>2. Behavior(code') = Behavior(code)
      BY <2>4, <3>1, PurgeKeepsBehavior DEF RunPurge
    <3> QED BY <2>4, <3>2 DEF RunPurge, KeptInv, BehaviorKept
  <2>5. CASE RunBuildCFG
    BY <2>5 DEF RunBuildCFG, KeptInv, BehaviorKept
  <2>6. CASE UNCHANGED vars
    BY <2>6 DEF vars, KeptInv, BehaviorKept
  <2> QED BY <2>1, <2>2, <2>3, <2>4, <2>5, <2>6 DEF Next
<1>3. KeptInv => BehaviorKept
  BY DEF KeptInv
<1> QED BY <1>1, <1>2, <1>3, PassInvHolds, PTL DEF Spec

(* What is handed on to SyscallCheck::CodeGen is a state in which          *)
(* Partition starts, and its edges are the lists of the blocks.            *)
THEOREM GraphsFitPartition == Spec => [](pass = "done" => FitsPartition)
<1>1. PassInv => (pass = "done" => FitsPartition)
  <2> SUFFICES ASSUME PassInv, pass = "done" PROVE FitsPartition
    OBVIOUS
  <2>1. Dropped(code) /\ Entered(code) /\ CFG = BuildCFG(code)
    BY DEF PassInv
  <2> QED BY <2>1, GraphIsBuilt, GraphBuiltFits
<1> QED BY <1>1, PassInvHolds, PTL
=============================================================================

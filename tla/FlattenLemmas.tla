---------------------------- MODULE FlattenLemmas ----------------------------
(***************************************************************************)
(* Lemmas about FlattenSeq, with which the assembly joins the parts of     *)
(* filter and tracer: every part is found in the whole, in order, and      *)
(* nothing else is.                                                        *)
(***************************************************************************)
EXTENDS SequencesExt, SequenceTheorems, WellFoundedInduction, TLAPS

(* Every set of numbers that has an element has a least one.               *)
LEMMA Least ==
  ASSUME NEW T, T \subseteq Nat, T # {}
  PROVE  \E x \in T : \A y \in T : x <= y
<1> DEFINE R == OpToRel(<, Nat)
<1>1. IsWellFoundedOn(R, Nat)
  BY NatLessThanWellFounded
<1>2. \A x, y \in Nat : y < x => <<y, x>> \in R
  BY DEF OpToRel
<1> HIDE DEF R
<1>3. PICK x \in T : \A y \in T : ~ (<<y, x>> \in R)
  BY <1>1, WFMin
<1>4. \A y \in T : x \in Nat /\ y \in Nat /\ ~(y < x)
  BY <1>2, <1>3
<1>5. \A y \in T : x <= y
  BY <1>4
<1> QED BY <1>5

-----------------------------------------------------------------------------
(* What FlattenSeq is *)

(* g joins the parts of s one by one: the recursion of FlattenSeq.         *)
Joins(g, s, n) == g = [i \in 1..n |-> IF i = 1 THEN s[i] ELSE g[i - 1] \o s[i]]

(* The recursion has a solution for any number of parts.                   *)
LEMMA JoinsExists ==
  ASSUME NEW s, NEW N \in Nat
  PROVE  \E g : Joins(g, s, N)
<1> DEFINE Bad == {n \in Nat : ~\E g : Joins(g, s, n)}
<1> SUFFICES ASSUME Bad # {} PROVE FALSE
  OBVIOUS
<1>1. PICK n \in Bad : \A m \in Bad : n <= m
  BY Least
<1>2. n # 0
  <2>1. Joins([i \in {} |-> 0], s, 0)
    BY DEF Joins
  <2> QED BY <2>1
<1>3. n - 1 \in Nat /\ n - 1 \notin Bad
  BY <1>1, <1>2
<1>4. PICK g : Joins(g, s, n - 1)
  BY <1>3
<1> DEFINE whole == IF n = 1 THEN s[1] ELSE g[n - 1] \o s[n]
           h == [i \in 1..n |-> IF i < n THEN g[i] ELSE whole]
<1>5. ASSUME NEW i \in 1..n PROVE h[i] = IF i = 1 THEN s[i] ELSE h[i - 1] \o s[i]
  <2>1. CASE i < n
    <3>1. i \in 1..(n - 1) /\ h[i] = g[i]
      BY <2>1, <1>3
    <3>2. g[i] = IF i = 1 THEN s[i] ELSE g[i - 1] \o s[i]
      BY <3>1, <1>4 DEF Joins
    <3>3. i # 1 => h[i - 1] = g[i - 1]
      BY <3>1, <2>1, <1>3
    <3> HIDE DEF h
    <3> QED BY <3>1, <3>2, <3>3
  <2>2. CASE i = n
    <3>1. h[i] = whole
      BY <2>2
    <3>2. i # 1 => h[i - 1] = g[n - 1]
      BY <2>2, <1>3
    <3> HIDE DEF h
    <3> QED BY <3>1, <3>2, <2>2
  <2> QED BY <2>1, <2>2, <1>3
<1>6. h = [i \in 1..n |-> IF i = 1 THEN s[i] ELSE h[i - 1] \o s[i]]
  <2>1. h = [i \in 1..n |-> h[i]]
    OBVIOUS
  <2> HIDE DEF h
  <2> QED BY <2>1, <1>5
<1> QED BY <1>6 DEF Joins

(* FlattenSeq is the last of its joins.                                    *)
LEMMA FlattenIs ==
  ASSUME NEW s, Len(s) \in Nat, Len(s) # 0
  PROVE  \E g : Joins(g, s, Len(s)) /\ FlattenSeq(s) = g[Len(s)]
<1> DEFINE f == CHOOSE g : g = [i \in 1..Len(s) |-> IF i = 1 THEN s[i] ELSE g[i - 1] \o s[i]]
<1>1. \E g : g = [i \in 1..Len(s) |-> IF i = 1 THEN s[i] ELSE g[i - 1] \o s[i]]
  BY JoinsExists DEF Joins
<1>2. Joins(f, s, Len(s))
  BY <1>1 DEF Joins
<1>3. FlattenSeq(s) = f[Len(s)]
  BY DEF FlattenSeq
<1> QED BY <1>2, <1>3

-----------------------------------------------------------------------------
(* Where the parts are *)

(* o[i] elements stand before part i of N, whose lengths are L.            *)
Offsets(o, L, N) ==
  /\ o \in [1..(N + 1) -> Nat]
  /\ o[1] = 0
  /\ \A i \in 1..N : o[i + 1] = o[i] + L[i]

(* A part ends where a later one begins, or before.                        *)
LEMMA PartsInOrder ==
  ASSUME NEW N \in Nat, NEW L \in [1..N -> Nat], NEW o, Offsets(o, L, N),
         NEW i \in 1..N, NEW j \in 1..(N + 1), i < j
  PROVE  o[i] + L[i] <= o[j]
<1> DEFINE Bad == {x \in 1..(N + 1) : i < x /\ ~(o[i] + L[i] <= o[x])}
<1>1. (\A x \in 1..(N + 1) : o[x] \in Nat) /\ (\A x \in 1..N : L[x] \in Nat)
  BY DEF Offsets
<1>2. \A x \in 1..N : x + 1 \in 1..(N + 1) /\ o[x + 1] = o[x] + L[x]
  BY DEF Offsets
<1> SUFFICES ASSUME Bad # {} PROVE FALSE
  OBVIOUS
<1>3. Bad \subseteq Nat
  OBVIOUS
<1>4. PICK x \in Bad : \A y \in Bad : x <= y
  BY <1>3, Least
<1>5. x - 1 \in 1..N /\ x - 1 \in 1..(N + 1) /\ x - 1 \notin Bad /\ i <= x - 1
  BY <1>4
<1>6. o[x] = o[x - 1] + L[x - 1]
  <2>1. (x - 1) + 1 = x
    BY <1>4
  <2> QED BY <1>2, <1>5, <2>1
<1>7. CASE i = x - 1
  BY <1>4, <1>5, <1>6, <1>7, <1>1
<1>8. CASE i < x - 1
  <2>1. o[i] + L[i] <= o[x - 1]
    BY <1>5, <1>8
  <2>2. o[i] \in Nat /\ L[i] \in Nat /\ o[x - 1] \in Nat /\ L[x - 1] \in Nat
    BY <1>1, <1>5
  <2>3. ~(o[i] + L[i] <= o[x])
    BY <1>4
  <2> HIDE DEF Bad
  <2> QED BY <2>1, <2>2, <2>3, <1>6
<1> QED BY <1>5, <1>7, <1>8

(* Place p is the k-th of a part.                                          *)
InPart(p, o, L, N) == \E i \in 1..N : \E k \in 1..L[i] : p = o[i] + k

(* Every place in the whole is one in a part.                              *)
LEMMA PartOf ==
  ASSUME NEW N \in Nat, NEW L \in [1..N -> Nat], NEW o, Offsets(o, L, N)
  PROVE  \A p \in 1..o[N + 1] : InPart(p, o, L, N)
<1> SUFFICES ASSUME NEW p \in 1..o[N + 1] PROVE InPart(p, o, L, N)
  OBVIOUS
<1>1. (\A x \in 1..(N + 1) : o[x] \in Nat) /\ (\A x \in 1..N : L[x] \in Nat) /\ o[1] = 0
  BY DEF Offsets
<1>2. \A x \in 1..N : x + 1 \in 1..(N + 1) /\ o[x + 1] = o[x] + L[x]
  BY DEF Offsets
<1> DEFINE T == {x \in 1..(N + 1) : p <= o[x]}
<1>3. T \subseteq Nat /\ N + 1 \in T
  BY <1>1
<1>4. PICK x \in T : \A y \in T : x <= y
  BY <1>3, Least
<1>5. x # 1
  BY <1>1, <1>4
<1>6. x - 1 \in 1..N /\ x - 1 \in 1..(N + 1) /\ x - 1 \notin T
  BY <1>4, <1>5
<1>7. o[x] = o[x - 1] + L[x - 1]
  <2>1. (x - 1) + 1 = x
    BY <1>4
  <2> QED BY <1>2, <1>6, <2>1
<1>8. ~(p <= o[x - 1]) /\ p <= o[x]
  BY <1>4, <1>6
<1> DEFINE k == p - o[x - 1]
<1>9. k \in 1..L[x - 1] /\ p = o[x - 1] + k
  <2>1. o[x - 1] \in Nat /\ L[x - 1] \in Nat /\ p \in Nat
    BY <1>1, <1>6
  <2> QED BY <2>1, <1>7, <1>8
<1> HIDE DEF k
<1> QED BY <1>6, <1>9 DEF InPart

(* The lengths of the parts.                                               *)
Lengths(s) == [i \in 1..Len(s) |-> Len(s[i])]

(* The whole w has every part of s in its place, and no room for more.     *)
HasParts(w, s, o) ==
  /\ Offsets(o, Lengths(s), Len(s))
  /\ Len(w) = o[Len(s) + 1]
  /\ \A i \in 1..Len(s) : \A k \in 1..Len(s[i]) : w[o[i] + k] = s[i][k]

(* In w stands v behind u.                                                 *)
Behind(w, u, v) ==
  /\ \A k \in 1..Len(u) : k \in 1..Len(w) /\ w[k] = u[k]
  /\ \A k \in 1..Len(v) : Len(u) + k \in 1..Len(w) /\ w[Len(u) + k] = v[k]

(* One part more.                                                          *)
LEMMA JoinOne ==
  ASSUME NEW S, NEW u \in Seq(S), NEW v \in Seq(S)
  PROVE  /\ u \o v \in Seq(S) /\ Len(u \o v) = Len(u) + Len(v)
         /\ Behind(u \o v, u, v)
<1> DEFINE m == Len(u)
           n == Len(v)
           w == u \o v
<1>1. m \in Nat /\ n \in Nat
  OBVIOUS
<1>2. /\ w \in Seq(S) /\ Len(w) = m + n
      /\ \A i \in 1..(m + n) : w[i] = IF i <= m THEN u[i] ELSE v[i - m]
  BY ConcatProperties
<1> HIDE DEF m, n, w
<1>3. \A k \in 1..m : k \in 1..(m + n) /\ w[k] = u[k]
  BY <1>1, <1>2
<1>4. ASSUME NEW k \in 1..n PROVE m + k \in 1..(m + n) /\ w[m + k] = v[k]
  <2>1. m + k \in 1..(m + n) /\ ~(m + k <= m) /\ (m + k) - m = k
    BY <1>1
  <2> QED BY <2>1, <1>2
<1>5. /\ \A k \in 1..m : k \in 1..Len(w) /\ w[k] = u[k]
      /\ \A k \in 1..n : m + k \in 1..Len(w) /\ w[m + k] = v[k]
  BY <1>2, <1>3, <1>4
<1> QED BY <1>2, <1>5, Zenon DEF Behind, m, n, w

(* Whatever the parts are, FlattenSeq has each of them in its place.       *)
LEMMA FlattenContains ==
  ASSUME NEW S, NEW s \in Seq(Seq(S))
  PROVE  FlattenSeq(s) \in Seq(S) /\ \E o : HasParts(FlattenSeq(s), s, o)
<1> DEFINE N == Len(s)
<1>1. N \in Nat /\ \A i \in 1..N : s[i] \in Seq(S)
  OBVIOUS
<1>2. CASE N = 0
  <2> DEFINE o == [i \in 1..1 |-> 0]
  <2>1. s = <<>> /\ FlattenSeq(s) = <<>>
    BY <1>2 DEF FlattenSeq
  <2>2. Offsets(o, Lengths(s), 0)
    BY DEF Offsets
  <2>3. HasParts(FlattenSeq(s), s, o)
    BY <1>2, <2>1, <2>2 DEF HasParts
  <2>4. FlattenSeq(s) \in Seq(S)
    BY <2>1, EmptySeq
  <2> HIDE DEF o
  <2> QED BY <2>3, <2>4
<1>3. CASE N # 0
  <2>1. PICK g : Joins(g, s, N) /\ FlattenSeq(s) = g[N]
    BY <1>1, <1>3, FlattenIs
  <2> DEFINE L == Lengths(s)
             len == [i \in 1..N |-> Len(g[i])]
             o == [i \in 1..(N + 1) |-> IF i = 1 THEN 0 ELSE len[i - 1]]
  <2>2. L \in [1..N -> Nat] /\ \A i \in 1..N : L[i] = Len(s[i])
    BY <1>1 DEF Lengths
  <2> HIDE DEF N, L
  <2>3. g[1] = s[1] /\ \A i \in 1..N : i # 1 => g[i] = g[i - 1] \o s[i]
    <3>1. \A i \in 1..N : g[i] = IF i = 1 THEN s[i] ELSE g[i - 1] \o s[i]
      BY <2>1 DEF Joins
    <3>2. 1 \in 1..N
      BY <1>1, <1>3
    <3> QED BY <3>1, <3>2, Zenon
  <2>4. \A i \in 1..N : g[i] \in Seq(S)
    <3> DEFINE Bad == {i \in 1..N : g[i] \notin Seq(S)}
    <3> SUFFICES ASSUME Bad # {} PROVE FALSE
      OBVIOUS
    <3>0. Bad \subseteq Nat
      OBVIOUS
    <3>1. PICK i \in Bad : \A j \in Bad : i <= j
      BY <3>0, Least
    <3>2. i # 1 => i - 1 \in 1..N /\ i - 1 \notin Bad
      BY <3>1, <1>1
    <3>3. i # 1 => g[i - 1] \in Seq(S)
      BY <3>2
    <3>4. CASE i = 1
      BY <3>4, <1>1, <1>3, <2>3, <3>1
    <3>5. CASE i # 1
      <4>1. s[i] \in Seq(S) /\ g[i] = g[i - 1] \o s[i]
        BY <1>1, <2>3, <3>1, <3>5
      <4>2. g[i - 1] \in Seq(S)
        BY <3>3, <3>5
      <4>3. g[i - 1] \o s[i] \in Seq(S)
        BY <4>1, <4>2, JoinOne, Zenon
      <4> QED BY <3>1, <4>1, <4>3
    <3> QED BY <3>4, <3>5
  <2>5. \A i \in 1..N : len[i] = Len(g[i]) /\ len[i] \in Nat
    BY <2>4
  <2>6. \A i \in 1..N : i # 1 => i - 1 \in 1..N /\ len[i] = len[i - 1] + L[i]
    <3> SUFFICES ASSUME NEW i \in 1..N, i # 1
                 PROVE  i - 1 \in 1..N /\ len[i] = len[i - 1] + L[i]
      OBVIOUS
    <3>1. i - 1 \in 1..N
      BY <1>1
    <3>2. Len(g[i - 1] \o s[i]) = Len(g[i - 1]) + Len(s[i])
      BY <3>1, <2>4, <1>1, JoinOne
    <3> QED BY <3>1, <3>2, <2>2, <2>3, <2>5
  <2>7. len[1] = L[1]
    <3>1. 1 \in 1..N
      BY <1>1, <1>3
    <3> QED BY <3>1, <2>2, <2>3, <2>5
  <2> HIDE DEF len
  <2>8. o \in [1..(N + 1) -> Nat] /\ o[1] = 0 /\ \A i \in 1..N : o[i + 1] = len[i] /\ o[i + 1] = o[i] + L[i]
    <3>1. \A i \in 1..N : o[i + 1] = len[i]
      BY <1>1
    <3>2. o[1] = 0
      BY <1>1
    <3>3. ASSUME NEW i \in 1..(N + 1) PROVE o[i] \in Nat
      BY <1>1, <2>5
    <3>4. ASSUME NEW i \in 1..N PROVE o[i + 1] = o[i] + L[i]
      <4>1. CASE i = 1
        BY <4>1, <3>1, <3>2, <2>2, <2>7, <1>1
      <4>2. CASE i # 1
        <5>1. o[i] = len[i - 1]
          BY <4>2, <1>1
        <5> QED BY <5>1, <4>2, <3>1, <2>6
      <4> QED BY <4>1, <4>2
    <3>5. o = [i \in 1..(N + 1) |-> o[i]]
      OBVIOUS
    <3> HIDE DEF o
    <3> QED BY <3>1, <3>2, <3>3, <3>4, <3>5
  <2> HIDE DEF o
  <2>9. Offsets(o, L, N)
    BY <2>8 DEF Offsets
  <2> DEFINE Kept(j) == \A i \in 1..j : \A k \in 1..L[i] : o[i] + k \in 1..len[j] /\ g[j][o[i] + k] = s[i][k]
  <2>10. Kept(1) /\ \A j \in 1..N : j # 1 /\ Kept(j - 1) => Kept(j)
    <3>1. Kept(1)
      <4>1. \A i \in 1..1 : i = 1
        OBVIOUS
      <4>2. ASSUME NEW k \in 1..L[1] PROVE o[1] + k \in 1..len[1] /\ g[1][o[1] + k] = s[1][k]
        <5>1. o[1] + k = k
          BY <2>8
        <5> QED BY <5>1, <2>3, <2>7
      <4> QED BY <4>1, <4>2
    <3>2. ASSUME NEW j \in 1..N, j # 1, Kept(j - 1), NEW i \in 1..j, NEW k \in 1..L[i]
          PROVE  o[i] + k \in 1..len[j] /\ g[j][o[i] + k] = s[i][k]
      <4>1. j - 1 \in 1..N /\ g[j] = g[j - 1] \o s[j] /\ g[j - 1] \in Seq(S) /\ s[j] \in Seq(S)
        BY <3>2, <1>1, <2>3, <2>4, <2>6
      <4>2. len[j] = Len(g[j]) /\ len[j - 1] = Len(g[j - 1]) /\ L[j] = Len(s[j])
        BY <4>1, <2>2, <2>5
      <4>3. /\ \A x \in 1..len[j - 1] : x \in 1..len[j] /\ g[j][x] = g[j - 1][x]
            /\ \A x \in 1..L[j] : len[j - 1] + x \in 1..len[j] /\ g[j][len[j - 1] + x] = s[j][x]
        <5> DEFINE u == g[j - 1]
                   v == s[j]
        <5>1. u \in Seq(S) /\ v \in Seq(S) /\ g[j] = u \o v /\ len[j] = Len(u \o v)
              /\ len[j - 1] = Len(u) /\ L[j] = Len(v)
          BY <4>1, <4>2
        <5>2. u \in Seq(S) /\ v \in Seq(S)
          BY <5>1
        <5> HIDE DEF u, v
        <5>3. Behind(u \o v, u, v)
          BY <5>2, JoinOne
        <5>4. Behind(g[j], u, v)
          BY <5>1, <5>3, Zenon
        <5> QED BY <5>1, <5>4, Zenon DEF Behind, u, v
      <4>4. CASE i = j
        <5>1. o[j] = len[j - 1]
          <6>1. (j - 1) + 1 = j
            OBVIOUS
          <6> QED BY <4>1, <6>1, <2>8
        <5> QED BY <4>3, <4>4, <5>1
      <4>5. CASE i # j
        <5>1. i \in 1..(j - 1)
          BY <4>5
        <5>2. o[i] + k \in 1..len[j - 1] /\ g[j - 1][o[i] + k] = s[i][k]
          BY <5>1, <3>2
        <5> QED BY <5>2, <4>3
      <4> QED BY <4>4, <4>5
    <3> HIDE DEF Kept
    <3>3. ASSUME NEW j \in 1..N, j # 1, Kept(j - 1) PROVE Kept(j)
      BY <3>2, <3>3 DEF Kept
    <3> QED BY <3>1, <3>3
  <2>11. Kept(N)
    <3> HIDE DEF Kept
    <3> DEFINE Bad == {j \in 1..N : ~Kept(j)}
    <3> SUFFICES ASSUME Bad # {} PROVE FALSE
      BY <1>1, <1>3
    <3>0. Bad \subseteq Nat
      OBVIOUS
    <3>1. PICK j \in Bad : \A i \in Bad : j <= i
      BY <3>0, Least
    <3>2. j # 1 => j - 1 \in 1..N /\ j - 1 \notin Bad
      BY <3>1, <1>1
    <3> QED BY <3>1, <3>2, <2>10
  <2>12. N \in 1..N /\ len[N] = o[N + 1] /\ len[N] = Len(g[N]) /\ g[N] \in Seq(S)
    BY <1>1, <1>3, <2>4, <2>5, <2>8
  <2>13. \A i \in 1..N : \A k \in 1..Len(s[i]) : g[N][o[i] + k] = s[i][k]
    BY <2>2, <2>11
  <2>14. HasParts(g[N], s, o)
    BY <2>9, <2>12, <2>13 DEF HasParts, N, L
  <2> QED BY <2>1, <2>12, <2>14
<1> QED BY <1>2, <1>3

(* Place p of the whole is one of a part, and has what the part has there. *)
IsOfPart(p, w, s, o) == \E i \in 1..Len(s) : \E k \in 1..Len(s[i]) : p = o[i] + k /\ w[p] = s[i][k]

(* Nothing is in the whole that is not in a part.                          *)
LEMMA ElementOfPart ==
  ASSUME NEW S, NEW s \in Seq(Seq(S)), NEW w, NEW o, HasParts(w, s, o)
  PROVE  \A p \in 1..Len(w) : IsOfPart(p, w, s, o)
<1> SUFFICES ASSUME NEW p \in 1..Len(w)
             PROVE  \E i \in 1..Len(s) : \E k \in 1..Len(s[i]) : p = o[i] + k /\ w[p] = s[i][k]
  BY DEF IsOfPart
<1> DEFINE N == Len(s)
           L == Lengths(s)
<1>1. N \in Nat /\ \A i \in 1..N : s[i] \in Seq(S)
  OBVIOUS
<1>2. L \in [1..N -> Nat] /\ \A i \in 1..N : L[i] = Len(s[i])
  BY <1>1 DEF Lengths
<1>3. /\ Offsets(o, L, N) /\ p \in 1..o[N + 1]
      /\ \A i \in 1..N : \A k \in 1..Len(s[i]) : w[o[i] + k] = s[i][k]
  BY DEF HasParts
<1> HIDE DEF N, L
<1>4. PICK i \in 1..N : \E k \in 1..L[i] : p = o[i] + k
  <2>1. N \in Nat /\ L \in [1..N -> Nat] /\ Offsets(o, L, N) /\ p \in 1..o[N + 1]
    BY <1>1, <1>2, <1>3
  <2>2. InPart(p, o, L, N)
    BY <2>1, PartOf
  <2> QED BY <2>2 DEF InPart
<1>5. PICK k \in 1..L[i] : p = o[i] + k
  BY <1>4
<1>6. k \in 1..Len(s[i]) /\ w[p] = s[i][k]
  BY <1>2, <1>3, <1>5
<1> QED BY <1>5, <1>6 DEF N

(* Where a part stands, and that it ends before the next begins.           *)
LEMMA PlaceOfPart ==
  ASSUME NEW S, NEW s \in Seq(Seq(S)), NEW w, NEW o, HasParts(w, s, o), NEW i \in 1..Len(s)
  PROVE  /\ o[i] \in Nat /\ Len(s[i]) \in Nat
         /\ o[i] + Len(s[i]) <= Len(w)
         /\ \A j \in 1..Len(s) : i < j => o[i] + Len(s[i]) <= o[j]
         /\ \A k \in 1..Len(s[i]) : o[i] + k \in 1..Len(w) /\ w[o[i] + k] = s[i][k]
<1> DEFINE N == Len(s)
           L == Lengths(s)
<1>1. N \in Nat /\ \A j \in 1..N : s[j] \in Seq(S)
  OBVIOUS
<1>2. L \in [1..N -> Nat] /\ \A j \in 1..N : L[j] = Len(s[j])
  BY <1>1 DEF Lengths
<1>3. /\ Offsets(o, L, N) /\ Len(w) = o[N + 1]
      /\ \A j \in 1..N : \A k \in 1..Len(s[j]) : w[o[j] + k] = s[j][k]
  BY DEF HasParts
<1> HIDE DEF L
<1>4. i \in 1..N
  OBVIOUS
<1> HIDE DEF N
<1>5. o[i] \in Nat /\ o[N + 1] \in Nat /\ L[i] \in Nat
  BY <1>1, <1>2, <1>3, <1>4 DEF Offsets
<1>6. \A j \in 1..(N + 1) : i < j => o[i] + L[i] <= o[j]
  BY <1>1, <1>2, <1>3, <1>4, PartsInOrder
<1>7. i < N + 1 /\ N + 1 \in 1..(N + 1) /\ \A j \in 1..N : j \in 1..(N + 1)
  BY <1>1, <1>4
<1>8. o[i] + L[i] <= o[N + 1] /\ \A j \in 1..N : i < j => o[i] + L[i] <= o[j]
  BY <1>6, <1>7
<1>9. \A k \in 1..L[i] : o[i] + k \in 1..o[N + 1]
  <2>1. \A a, b, c \in Nat : a + b <= c => \A k \in 1..b : a + k \in 1..c
    OBVIOUS
  <2> QED BY <1>5, <1>8, <2>1, Zenon
<1>10. L[i] = Len(s[i])
  BY <1>2, <1>4
<1>11. /\ o[i] \in Nat /\ L[i] \in Nat /\ o[i] + L[i] <= Len(w)
       /\ \A j \in 1..N : i < j => o[i] + L[i] <= o[j]
  BY <1>3, <1>5, <1>8
<1>12. \A k \in 1..Len(s[i]) : o[i] + k \in 1..Len(w) /\ w[o[i] + k] = s[i][k]
  <2>1. \A k \in 1..Len(s[i]) : w[o[i] + k] = s[i][k]
    BY <1>3, <1>4
  <2>2. \A k \in 1..Len(s[i]) : o[i] + k \in 1..Len(w)
    BY <1>3, <1>9, <1>10
  <2> QED BY <2>1, <2>2, Zenon
<1>13. \A j \in 1..N : i < j => o[i] + Len(s[i]) <= o[j]
  BY <1>10, <1>11, Zenon
<1>14. o[i] + Len(s[i]) <= Len(w) /\ o[i] \in Nat /\ Len(s[i]) \in Nat
  BY <1>10, <1>11, Zenon
<1> QED BY <1>12, <1>13, <1>14, Zenon DEF N
=============================================================================

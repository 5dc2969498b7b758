----------------------------- MODULE MemCopyProofs -----------------------------
(***************************************************************************)
(* Proofs about MemCopy, for any word, limit, memory, strings and sizes:   *)
(* what a handler sees of an argument, what the call finds of it, and what *)
(* the process finds around it.                                            *)
(***************************************************************************)
EXTENDS MemCopy, WellFoundedInduction, TLAPS

-----------------------------------------------------------------------------
(* The inductive invariant *)

(* What PTRACE_PEEKDATA gives of the k-th byte of the argument.            *)
Peeked(k) == IF addr + (k \div W + 1) * W <= Mapped THEN mem[addr + k] ELSE Garbage

(* Where the copy stands: copying out comes first and changes nothing,     *)
(* and a string is freed exactly by being written back.                    *)
PhaseInv ==
  /\ assigned = 0 => mem = theirs /\ pc # "back" /\ ~freed
  /\ pc = "out" => assigned = 0 /\ ~resized
  /\ freed => kind = "string"
  /\ kind = "string" /\ assigned > 0 /\ pc # "back" => freed
  /\ resized => kind = "buffer"

(* How large the copy is, and that no byte of it that is written back is   *)
(* one that nobody has written.                                            *)
BufInv ==
  /\ \E m \in Nat : DOMAIN buf = 0..(m - 1)
  /\ kind = "string" /\ assigned = 0 => DOMAIN buf = 0..MaxString
  /\ kind # "string" /\ ~resized => DOMAIN buf = 0..(Words(size) * W - 1)
  /\ kind # "string" => \A k \in DOMAIN buf : (pc = "out" => k < cnt * W) => buf[k] \in Nat
  /\ kind = "string" /\ pc = "back" => \A k \in 0..StrLen(buf) : buf[k] \in Nat

(* The words of a string are copied up to the first with a zero.           *)
StringInv ==
  kind = "string" /\ assigned = 0 =>
    /\ cnt * W <= MaxString
    /\ pc = "out" => cnt * W < MaxString /\ \A k \in 0..(cnt * W - 1) : buf[k] # 0
    /\ pc # "out" =>
         /\ cnt > 0 /\ buf[MaxString] = 0
         /\ \A k \in 0..((cnt - 1) * W - 1) : buf[k] # 0
         /\ cnt * W = MaxString \/ \E k \in ((cnt - 1) * W)..(cnt * W - 1) : buf[k] = 0

(* The words of a value are copied as many as are counted.                 *)
ValueInv ==
  kind # "string" /\ ~resized =>
    /\ pc \in {"out", "back"} => cnt <= Words(size)
    /\ pc # "out" /\ assigned = 0 => cnt = Words(size)

(* The copy is what is in memory, if nobody else writes there.             *)
CopyInv ==
  assigned = 0 /\ ~resized /\ stored = {} => \A k \in 0..(cnt * W - 1) : buf[k] = Peeked(k)

(* Behind a value the copy has the bytes of the process.                   *)
SpareInv ==
  kind # "string" /\ ~resized =>
    \A k \in DOMAIN buf : k >= size /\ addr + k < Mapped /\ (pc = "out" => k < cnt * W) =>
      \/ buf[k] = theirs[addr + k]
      \/ addr + k \in stored
      \/ addr + (k \div W + 1) * W > Mapped

(* What is written back stays in reach.                                    *)
ReachInv ==
  pc = "back" =>
    /\ kind = "string" => /\ ((StrLen(buf) + W) \div W) * W <= reach
                          /\ cnt * W <= StrLen(buf) + 1
    /\ kind # "string" /\ ~resized => Words(size) * W <= reach

(* A string is in memory as far as it is written back.                     *)
ArriveInv ==
  kind = "string" /\ assigned > 0 /\ stored = {} =>
    \A k \in 0..StrLen(buf) :
      (pc = "back" => k < cnt * W) /\ addr + k < Mapped => mem[addr + k] = buf[k]

IInv ==
  /\ TypeOK /\ PhaseInv /\ BufInv
  /\ StringInv /\ ValueInv /\ CopyInv /\ SpareInv /\ ReachInv /\ ArriveInv
  /\ NeighboursKept /\ FaultsExplained

-----------------------------------------------------------------------------
(* Numbers *)

(* A set of naturals that is not empty has a least element.                *)
LEMMA Least ==
  ASSUME NEW T, T \subseteq Nat, T # {}
  PROVE  \E x \in T : \A y \in T : x <= y
<1> DEFINE R == OpToRel(<, Nat)
<1>1. IsWellFoundedOn(R, Nat)
  BY NatLessThanWellFounded
<1>2. \A x, y \in Nat : y < x => <<y, x>> \in R
  BY DEF OpToRel
<1> HIDE DEF R
<1>3. PICK x \in T : \A y \in T : ~ (<<y, x>> \in R)
  BY <1>1, WFMin
<1>4. \A y \in T : x \in Nat /\ y \in Nat /\ ~(y < x)
  BY <1>2, <1>3
<1>5. \A y \in T : x <= y
  BY <1>4
<1> QED BY <1>5

(* Division by the size of a word leaves a rest smaller than it.           *)
LEMMA Division ==
  ASSUME NEW n \in Nat
  PROVE  /\ n \div W \in Nat
         /\ n % W \in 0..(W - 1)
         /\ n = (n \div W) * W + (n % W)
<1>1. n \div W \in Nat /\ n % W \in 0..(W - 1)
  BY WordAssumption
<1>2. ASSUME NEW w \in Nat \ {0}
      PROVE  n = w * (n \div w) + (n % w)
  BY Z3
<1>4. n = W * (n \div W) + (n % W)
  BY <1>2, WordAssumption
<1>3. W * (n \div W) = (n \div W) * W
  BY <1>1, WordAssumption
<1> QED BY <1>1, <1>3, <1>4

(* A word begins where the one before ends.                                *)
LEMMA NextWord ==
  ASSUME NEW c \in Nat
  PROVE  c * W \in Nat /\ (c + 1) * W = c * W + W /\ (c > 0 => c * W >= W /\ (c - 1) * W = c * W - W)
BY WordAssumption

(* A byte lies in the word that begins at or before it and ends behind it. *)
LEMMA WordOf ==
  ASSUME NEW c \in Nat, NEW k \in Int, k - c * W \in 0..(W - 1)
  PROVE  k \in Nat /\ k \div W = c /\ k % W = k - c * W
BY WordAssumption

(* Fewer words end at or before where more words begin.                    *)
LEMMA FewerWords ==
  ASSUME NEW c \in Nat, NEW d \in Nat, c < d
  PROVE  c * W + W <= d * W
<1>1. (c + 1) * W <= d * W
  BY WordAssumption
<1> QED BY <1>1, NextWord

(* The limit of a string is a number of words.                             *)
LEMMA WholeLimit ==
  ASSUME NEW c \in Nat, c * W < MaxString
  PROVE  c * W + W <= MaxString
<1> DEFINE d == MaxString \div W
<1>1. d \in Nat /\ MaxString = d * W
  <2>1. d \in Nat /\ MaxString = d * W + (MaxString % W)
    BY StringAssumption, Division
  <2> QED BY <2>1, StringAssumption, NextWord
<1> HIDE DEF d
<1>2. c < d
  <2>1. CASE d <= c
    <3>1. d * W <= c * W
      BY <1>1, <2>1, WordAssumption
    <3> QED BY <1>1, <3>1, StringAssumption, NextWord
  <2> QED BY <1>1, <2>1
<1> QED BY <1>1, <1>2, FewerWords

(* The words that are copied cover the value if and only if it is copied   *)
(* whole.                                                                  *)
LEMMA WordsCover ==
  ASSUME NEW n \in Nat
  PROVE  /\ Words(n) \in Nat
         /\ CopiedWhole(n) <=> n <= Words(n) * W
<1> DEFINE q == n \div W
<1>1. q \in Nat /\ n % W \in 0..(W - 1) /\ n = q * W + (n % W)
  BY Division
<1>2. q * W \in Nat /\ (q + 1) * W = q * W + W
  BY <1>1, NextWord
<1>3. CASE q % W # 0
  BY <1>1, <1>2, <1>3, WordAssumption DEF Words, CopiedWhole
<1>4. CASE q % W = 0
  BY <1>1, <1>2, <1>4, WordAssumption DEF Words, CopiedWhole
<1> QED BY <1>3, <1>4

(* What is left of n bytes behind the last whole word, and how far words   *)
(* that hold them all reach.                                               *)
LEMMA RoundUp ==
  ASSUME NEW n \in Nat, NEW c \in Nat, c * W <= n
  PROVE  LET upto == ((n + W - 1) \div W) * W
         IN  /\ upto \in Nat
             /\ c * W + W <= n => c * W + W <= upto
             /\ c * W + W > n => /\ c * W + (n % W) = n
                                 /\ n % W # 0 => c * W + W <= upto
<1> DEFINE q == (n + W - 1) \div W
<1> DEFINE r == (n + W - 1) % W
<1>1. q \in Nat /\ r \in 0..(W - 1) /\ n + W - 1 = q * W + r
  BY WordAssumption, Division
<1>2. q * W \in Nat /\ c * W \in Nat
  BY <1>1, NextWord
<1> HIDE DEF q, r
<1>3. q * W >= n
  BY <1>1, <1>2, WordAssumption
<1>4. ASSUME c * W < n
      PROVE  c * W + W <= q * W
  <2>1. c < q
    <3>1. CASE q <= c
      <4>1. q * W <= c * W
        BY <1>1, <3>1, WordAssumption
      <4> QED BY <1>2, <1>3, <1>4, <4>1
    <3> QED BY <1>1, <3>1
  <2> QED BY <1>1, <2>1, FewerWords
<1>5. ASSUME c * W + W > n
      PROVE  c * W + (n % W) = n
  <2>1. n - c * W \in 0..(W - 1)
    BY <1>2, <1>5, WordAssumption
  <2>2. n % W = n - c * W
    BY <2>1, WordOf
  <2> QED BY <1>2, <2>2
<1>6. n % W # 0 /\ c * W + W > n => c * W < n
  BY <1>2, <1>5, WordAssumption
<1> QED BY <1>1, <1>2, <1>4, <1>5, <1>6, WordAssumption DEF q

-----------------------------------------------------------------------------
(* Strings *)

(* The length of a string is the place of its first zero.                  *)
LEMMA StrLenIs ==
  ASSUME NEW s, NEW m \in Nat, DOMAIN s = 0..(m - 1), NEW n \in 0..(m - 1),
         s[n] = 0, \A k \in 0..(n - 1) : s[k] # 0
  PROVE  StrLen(s) = n
<1> DEFINE P(x) == s[x] = 0 /\ \A k \in 0..(x - 1) : s[k] # 0
<1>1. \E x \in DOMAIN s : P(x)
  OBVIOUS
<1>2. StrLen(s) \in DOMAIN s /\ P(StrLen(s))
  BY <1>1 DEF StrLen
<1> QED BY <1>2

(* A string that has a zero has a length.                                  *)
LEMMA StrLenOf ==
  ASSUME NEW s, NEW m \in Nat, DOMAIN s = 0..(m - 1), \E n \in DOMAIN s : s[n] = 0
  PROVE  /\ StrLen(s) \in 0..(m - 1) /\ s[StrLen(s)] = 0
         /\ \A k \in 0..(StrLen(s) - 1) : s[k] # 0
<1> DEFINE T == {n \in 0..(m - 1) : s[n] = 0}
<1>1. T \subseteq Nat /\ T # {}
  OBVIOUS
<1>2. PICK n \in T : \A y \in T : n <= y
  BY <1>1, Least
<1>3. \A k \in 0..(n - 1) : s[k] # 0
  BY <1>2
<1>4. StrLen(s) = n
  BY <1>2, <1>3, StrLenIs
<1> QED BY <1>2, <1>3, <1>4

(* A helper's string ends with its only zero.                              *)
LEMMA NewStringOf ==
  ASSUME NEW s \in NewStrings
  PROVE  /\ StrLen(s) \in Nat /\ DOMAIN s = 0..StrLen(s)
         /\ s[StrLen(s)] = 0 /\ \A k \in 0..(StrLen(s) - 1) : s[k] \in Nat \ {0}
<1>1. PICK n \in DOMAIN s : n \in Nat /\ DOMAIN s = 0..n /\ s[n] = 0 /\ \A k \in 0..(n - 1) : s[k] \in Nat \ {0}
  BY InputAssumption
<1>2. StrLen(s) = n
  BY <1>1, StrLenIs, n + 1 \in Nat, DOMAIN s = 0..((n + 1) - 1)
<1> QED BY <1>1, <1>2

(* Nothing is copied, assigned or written at first.                        *)
LEMMA InitInvariant == Init => IInv
<1> SUFFICES ASSUME Init PROVE IInv
  OBVIOUS
<1>1. mem \in [0..(Mapped - 1) -> Byte] /\ size \in Nat
  BY MemoryAssumption, InputAssumption DEF Init
<1>2. Words(size) \in Nat /\ Words(size) * W \in Nat
  BY <1>1, WordsCover, NextWord
<1>3. kind = "string" => DOMAIN buf = 0..MaxString
  BY StringAssumption DEF Init, Malloc
<1>4. kind # "string" => DOMAIN buf = 0..(Words(size) * W - 1)
  BY DEF Init, Malloc
<1>5. \A k \in DOMAIN buf : buf[k] = Unset
  BY DEF Init, Malloc
<1>6. TypeOK
  <2>1. mem \in [0..(Mapped - 1) -> Nat] /\ theirs \in [0..(Mapped - 1) -> Byte]
    BY <1>1, MemoryAssumption DEF Init
  <2>2. resized \in BOOLEAN /\ freed \in BOOLEAN /\ MaxStored \in Nat /\ MaxAssigned \in Nat
    BY InputAssumption DEF Init
  <2> QED BY <1>1, <1>5, <2>1, <2>2 DEF Init, TypeOK
<1>7. PhaseInv /\ ValueInv /\ ReachInv /\ ArriveInv
  BY <1>2 DEF Init, PhaseInv, ValueInv, ReachInv, ArriveInv
<1>8. BufInv
  <2>1. \E m \in Nat : DOMAIN buf = 0..(m - 1)
    <3>1. CASE kind = "string"
      BY <1>3, <3>1, StringAssumption, MaxString + 1 \in Nat, 0..MaxString = 0..((MaxString + 1) - 1)
    <3>2. CASE kind # "string"
      BY <1>2, <1>4, <3>2
    <3> QED BY <3>1, <3>2
  <2>2. cnt * W = 0 /\ pc = "out"
    BY WordAssumption DEF Init
  <2> QED BY <1>2, <1>3, <1>4, <2>1, <2>2 DEF BufInv
<1>9. StringInv /\ CopyInv /\ SpareInv
  <2>1. cnt * W = 0 /\ pc = "out"
    BY WordAssumption DEF Init
  <2> QED BY <1>2, <1>4, <2>1, StringAssumption DEF StringInv, CopyInv, SpareInv
<1>10. NeighboursKept /\ FaultsExplained
  BY DEF Init, NeighboursKept, FaultsExplained
<1> QED BY <1>6, <1>7, <1>8, <1>9, <1>10 DEF IInv

-----------------------------------------------------------------------------
(* Copying out *)

(* What is peeked is a byte.                                               *)
LEMMA PeekedByte ==
  ASSUME TypeOK, NEW k \in Nat
  PROVE  /\ Peeked(k) \in Nat
         /\ addr + (k \div W + 1) * W <= Mapped => addr + k < Mapped
<1>1. k < (k \div W + 1) * W
  <2>1. k \div W \in Nat /\ k % W \in 0..(W - 1) /\ k = (k \div W) * W + (k % W)
    BY Division
  <2>2. (k \div W) * W \in Nat /\ (k \div W + 1) * W = (k \div W) * W + W
    BY <2>1, NextWord
  <2> QED BY <2>1, <2>2, WordAssumption
<1>2. (k \div W + 1) * W \in Nat
  BY Division, NextWord, k \div W + 1 \in Nat
<1>3. addr + (k \div W + 1) * W <= Mapped => addr + k \in 0..(Mapped - 1)
  BY <1>1, <1>2, MemoryAssumption DEF TypeOK
<1> QED BY <1>3, MemoryAssumption DEF TypeOK, Peeked

(* A word that is received is what is peeked, byte by byte.                *)
LEMMA ReceivedIs ==
  ASSUME TypeOK
  PROVE  /\ DOMAIN Received = DOMAIN buf
         /\ \A k \in (cnt * W)..(cnt * W + W - 1) :
              PeekWord(addr + cnt * W)[k - cnt * W] = Peeked(k) /\ (k \in DOMAIN buf => Received[k] = Peeked(k))
         /\ \A k \in DOMAIN buf : k \in Int /\ k \notin (cnt * W)..(cnt * W + W - 1) => Received[k] = buf[k]
<1>1. cnt * W \in Nat /\ (cnt + 1) * W = cnt * W + W /\ W \in Nat
  BY NextWord, WordAssumption DEF TypeOK
<1>2. ASSUME NEW k \in (cnt * W)..(cnt * W + W - 1)
      PROVE  PeekWord(addr + cnt * W)[k - cnt * W] = Peeked(k)
  <2>1. k \in Nat /\ k - cnt * W \in 0..(W - 1)
    BY <1>1, <1>2
  <2>2. k \div W = cnt
    BY <2>1, WordOf DEF TypeOK
  <2>3. addr + cnt * W + W = addr + (k \div W + 1) * W /\ addr + cnt * W + (k - cnt * W) = addr + k
    BY <1>1, <2>1, <2>2 DEF TypeOK
  <2> QED BY <2>1, <2>3 DEF PeekWord, Peeked
<1>3. \A k \in Int : InWord(k) <=> k \in (cnt * W)..(cnt * W + W - 1)
  BY <1>1 DEF InWord
<1>4. DOMAIN Received = DOMAIN buf
  BY DEF Received
<1>5. ASSUME NEW k \in (cnt * W)..(cnt * W + W - 1), k \in DOMAIN buf
      PROVE  Received[k] = Peeked(k)
  BY <1>1, <1>2, <1>3, <1>5 DEF Received
<1>6. ASSUME NEW k \in DOMAIN buf, k \in Int, k \notin (cnt * W)..(cnt * W + W - 1)
      PROVE  Received[k] = buf[k]
  BY <1>3, <1>6 DEF Received
<1> QED BY <1>2, <1>4, <1>5, <1>6

(* The words of a string are read until one has a zero or the limit is     *)
(* reached, where the copy is closed.                                      *)
LEMMA PeekStringStep ==
  ASSUME IInv, PeekString
  PROVE  IInv'
<1> DEFINE b == cnt * W
<1> DEFINE ends == \/ \E k \in 0..(W - 1) : PeekWord(addr + cnt * W)[k] = 0
                   \/ (cnt + 1) * W >= MaxString
<1>1. /\ TypeOK /\ kind = "string" /\ pc = "out" /\ assigned = 0 /\ ~freed /\ ~resized /\ mem = theirs
      /\ DOMAIN buf = 0..MaxString /\ cnt \in Nat
  BY DEF IInv, TypeOK, PhaseInv, BufInv, PeekString
<1>2. /\ UNCHANGED <<mem, theirs, stored, left, kind, addr, size, resized, freed, assigned, reach, faults>>
      /\ cnt' = cnt + 1
      /\ buf' = IF ends THEN Close(Received) ELSE Received
      /\ pc' = IF ends THEN "handler" ELSE "out"
  BY DEF PeekString, tracee, argument
<1>3. b \in Nat /\ cnt' * W = b + W /\ (cnt' - 1) * W = b /\ b + W <= MaxString /\ W \in Nat \ {0}
      /\ MaxString \in Nat \ {0}
  BY <1>1, <1>2, NextWord, WholeLimit, WordAssumption, StringAssumption DEF IInv, StringInv
<1>4. /\ \A k \in 0..(b - 1) : buf[k] # 0
      /\ stored = {} => \A k \in 0..(b - 1) : buf[k] = Peeked(k)
  BY <1>1 DEF IInv, StringInv, CopyInv
<1>5. /\ DOMAIN buf' = 0..MaxString
      /\ \A k \in b..(b + W - 1) : k < MaxString /\ buf'[k] = Peeked(k)
      /\ \A k \in 0..(b - 1) : buf'[k] = buf[k]
      /\ \A k \in 0..MaxString : buf'[k] \in {0, buf[k], Peeked(k)}
      /\ ends => buf'[MaxString] = 0
  <2>1. /\ DOMAIN Received = 0..MaxString
        /\ \A k \in b..(b + W - 1) : k \in 0..MaxString /\ k < MaxString /\ Received[k] = Peeked(k)
        /\ \A k \in 0..MaxString : k \notin b..(b + W - 1) => Received[k] = buf[k]
    <3>1. DOMAIN Received = 0..MaxString
      BY <1>1, ReceivedIs
    <3>2. \A k \in b..(b + W - 1) : k \in 0..MaxString /\ k < MaxString
      BY <1>3
    <3>3. \A k \in b..(b + W - 1) : Received[k] = Peeked(k)
      BY <1>1, <3>2, ReceivedIs
    <3>4. \A k \in 0..MaxString : k \notin b..(b + W - 1) => Received[k] = buf[k]
      BY <1>1, ReceivedIs
    <3> QED BY <3>1, <3>2, <3>3, <3>4
  <2> HIDE DEF b, ends
  <2> QED BY <1>1, <1>2, <1>3, <2>1 DEF Close
<1>6. ends <=> b + W = MaxString \/ \E k \in b..(b + W - 1) : Peeked(k) = 0
  <2>1. \A k \in b..(b + W - 1) : k - b \in 0..(W - 1) /\ PeekWord(addr + cnt * W)[k - b] = Peeked(k)
    BY <1>1, <1>3, ReceivedIs
  <2>2. \A k \in 0..(W - 1) : b + k \in b..(b + W - 1) /\ (b + k) - b = k
    BY <1>3
  <2>3. (\E k \in 0..(W - 1) : PeekWord(addr + cnt * W)[k] = 0) <=> \E k \in b..(b + W - 1) : Peeked(k) = 0
    BY <2>1, <2>2
  <2>4. (cnt + 1) * W >= MaxString <=> b + W = MaxString
    BY <1>2, <1>3
  <2> QED BY <2>3, <2>4
<1> HIDE DEF b, ends
<1>7. \A k \in Nat : Peeked(k)' = Peeked(k) /\ Peeked(k) \in Nat
  BY <1>1, <1>2, PeekedByte DEF Peeked
<1>8. \A k \in 0..(b + W - 1) : k \in 0..(b - 1) \/ k \in b..(b + W - 1)
  BY <1>3
<1>9. TypeOK'
  <2>1. \A k \in DOMAIN buf' : buf'[k] \in Nat \cup {Unset}
    <3>1. ASSUME NEW k \in 0..MaxString
          PROVE  buf'[k] \in Nat \cup {Unset}
      <4>1. buf[k] \in Nat \cup {Unset} /\ Peeked(k) \in Nat
        BY <1>1, <1>7, k \in Nat DEF TypeOK
      <4> QED BY <1>5, <4>1
    <3> QED BY <1>5, <3>1
  <2>2. pc' # "out" => \E n \in DOMAIN buf' : buf'[n] = 0
    BY <1>2, <1>3, <1>5
  <2> QED BY <1>1, <1>2, <2>1, <2>2 DEF TypeOK
<1>10. PhaseInv' /\ ValueInv' /\ SpareInv' /\ ReachInv' /\ ArriveInv'
  BY <1>1, <1>2 DEF PhaseInv, ValueInv, SpareInv, ReachInv, ArriveInv
<1>11. BufInv'
  <2>1. \E m \in Nat : DOMAIN buf' = 0..(m - 1)
    BY <1>3, <1>5, MaxString + 1 \in Nat, 0..MaxString = 0..((MaxString + 1) - 1)
  <2> QED BY <1>1, <1>2, <1>5, <2>1 DEF BufInv
<1>12. StringInv'
  <2>1. cnt' > 0
    BY <1>1, <1>2
  <2>2. \A k \in 0..(b - 1) : buf'[k] # 0
    BY <1>4, <1>5
  <2>3. ~ends => \A k \in 0..(b + W - 1) : buf'[k] # 0
    <3>1. ~ends => \A k \in b..(b + W - 1) : buf'[k] # 0
      BY <1>5, <1>6
    <3> QED BY <1>8, <2>2, <3>1
  <2>4. ends => b + W = MaxString \/ \E k \in b..(b + W - 1) : buf'[k] = 0
    BY <1>5, <1>6
  <2>5. ~ends => b + W < MaxString
    BY <1>3, <1>6
  <2> QED BY <1>1, <1>2, <1>3, <1>5, <2>1, <2>2, <2>3, <2>4, <2>5 DEF StringInv
<1>13. CopyInv'
  <2>1. stored = {} => \A k \in 0..(b + W - 1) : buf'[k] = Peeked(k)
    <3>1. stored = {} => \A k \in 0..(b - 1) : buf'[k] = Peeked(k)
      BY <1>4, <1>5
    <3>2. \A k \in b..(b + W - 1) : buf'[k] = Peeked(k)
      BY <1>5
    <3> QED BY <1>8, <3>1, <3>2
  <2> QED BY <1>2, <1>3, <1>7, <2>1 DEF CopyInv
<1>14. NeighboursKept' /\ FaultsExplained'
  BY <1>1, <1>2 DEF IInv, NeighboursKept, FaultsExplained
<1> QED BY <1>9, <1>10, <1>11, <1>12, <1>13, <1>14 DEF IInv

(* The words of a value are read one by one.                               *)
LEMMA PeekMemStep ==
  ASSUME IInv, PeekMem
  PROVE  IInv'
<1> DEFINE b == cnt * W
<1> DEFINE top == Words(size) * W
<1>1. /\ TypeOK /\ kind # "string" /\ pc = "out" /\ assigned = 0 /\ ~freed /\ ~resized /\ mem = theirs
      /\ DOMAIN buf = 0..(top - 1) /\ cnt \in Nat /\ cnt < Words(size)
  BY DEF IInv, TypeOK, PhaseInv, BufInv, PeekMem
<1>2. /\ UNCHANGED <<mem, theirs, stored, left, kind, addr, size, resized, freed, assigned, reach, faults, pc>>
      /\ cnt' = cnt + 1 /\ buf' = Received
  BY DEF PeekMem, tracee, argument
<1>3. /\ b \in Nat /\ cnt' * W = b + W /\ b + W <= top /\ W \in Nat \ {0}
      /\ Words(size) \in Nat /\ top \in Nat
  BY <1>1, <1>2, NextWord, FewerWords, WordsCover, WordAssumption DEF TypeOK
<1>4. /\ \A k \in 0..(top - 1) : k < b => buf[k] \in Nat
      /\ stored = {} => \A k \in 0..(b - 1) : buf[k] = Peeked(k)
  BY <1>1 DEF IInv, BufInv, CopyInv
<1>5. /\ DOMAIN buf' = 0..(top - 1)
      /\ \A k \in b..(b + W - 1) : buf'[k] = Peeked(k)
      /\ \A k \in 0..(top - 1) : k \notin b..(b + W - 1) => buf'[k] = buf[k]
  <2>1. DOMAIN Received = 0..(top - 1)
    BY <1>1, ReceivedIs
  <2>2. \A k \in b..(b + W - 1) : k \in 0..(top - 1)
    BY <1>3
  <2>3. \A k \in b..(b + W - 1) : Received[k] = Peeked(k)
    BY <1>1, <2>2, ReceivedIs
  <2>4. \A k \in 0..(top - 1) : k \notin b..(b + W - 1) => Received[k] = buf[k]
    BY <1>1, ReceivedIs
  <2> QED BY <1>2, <2>1, <2>3, <2>4
<1>6. \A k \in Nat : Peeked(k)' = Peeked(k) /\ Peeked(k) \in Nat
  BY <1>1, <1>2, PeekedByte DEF Peeked
<1>7. top' = top /\ Words(size)' = Words(size)
  BY <1>2
<1> HIDE DEF b, top
<1>8. \A k \in Int : k < b + W /\ k >= 0 => k \in 0..(b - 1) \/ k \in b..(b + W - 1)
  BY <1>3
<1>9. TypeOK'
  <2>1. ASSUME NEW k \in 0..(top - 1)
        PROVE  buf'[k] \in Nat \cup {Unset}
    BY <1>1, <1>5, <1>6, k \in Nat DEF TypeOK
  <2> QED BY <1>1, <1>2, <1>5, <2>1 DEF TypeOK
<1>10. PhaseInv' /\ StringInv' /\ ReachInv' /\ ArriveInv'
  BY <1>1, <1>2 DEF PhaseInv, StringInv, ReachInv, ArriveInv
<1>11. BufInv'
  <2>1. ASSUME NEW k \in 0..(top - 1), k < b + W
        PROVE  buf'[k] \in Nat
    <3>1. CASE k \in 0..(b - 1)
      BY <1>3, <1>4, <1>5, <3>1
    <3>2. CASE k \in b..(b + W - 1)
      BY <1>5, <1>6, <3>2, k \in Nat
    <3> QED BY <1>8, <2>1, <3>1, <3>2
  <2>2. \E m \in Nat : DOMAIN buf' = 0..(m - 1)
    BY <1>3, <1>5
  <2> QED BY <1>1, <1>2, <1>3, <1>5, <1>7, <2>1, <2>2 DEF BufInv, top
<1>12. ValueInv'
  BY <1>1, <1>2, <1>3, <1>7 DEF ValueInv
<1>13. CopyInv'
  <2>1. ASSUME stored = {}, NEW k \in 0..(b + W - 1)
        PROVE  buf'[k] = Peeked(k)
    <3>1. CASE k \in 0..(b - 1)
      BY <1>3, <1>4, <1>5, <2>1, <3>1
    <3>2. CASE k \in b..(b + W - 1)
      BY <1>5, <3>2
    <3> QED BY <1>3, <1>8, <2>1, <3>1, <3>2
  <2> QED BY <1>2, <1>3, <1>6, <2>1 DEF CopyInv
<1>14. SpareInv'
  <2>1. ASSUME NEW k \in 0..(top - 1), k >= size, addr + k < Mapped, k < b + W
        PROVE  buf'[k] = theirs[addr + k] \/ addr + k \in stored \/ addr + (k \div W + 1) * W > Mapped
    <3>1. CASE k \in 0..(b - 1)
      BY <1>1, <1>3, <1>5, <2>1, <3>1 DEF IInv, SpareInv, b
    <3>2. CASE k \in b..(b + W - 1)
      <4>1. buf'[k] = Peeked(k)
        BY <1>5, <3>2
      <4>2. addr + (k \div W + 1) * W \in Int /\ Mapped \in Int
        <5>1. k \div W \in Nat
          BY Division, k \in Nat
        <5>2. (k \div W + 1) * W \in Nat
          BY <5>1, NextWord, k \div W + 1 \in Nat
        <5> QED BY <1>1, <5>2, MemoryAssumption DEF TypeOK
      <4> QED BY <1>1, <4>1, <4>2 DEF Peeked
    <3> QED BY <1>8, <2>1, <3>1, <3>2
  <2> QED BY <1>1, <1>2, <1>3, <1>5, <2>1 DEF SpareInv
<1>15. NeighboursKept' /\ FaultsExplained'
  BY <1>1, <1>2 DEF IInv, NeighboursKept, FaultsExplained, CopiedWhole
<1> QED BY <1>9, <1>10, <1>11, <1>12, <1>13, <1>14, <1>15 DEF IInv

(* A value that is not copied further is as large as it will be.           *)
LEMMA MemIsOutStep ==
  ASSUME IInv, MemIsOut
  PROVE  IInv'
<1>1. /\ TypeOK /\ kind # "string" /\ pc = "out" /\ assigned = 0 /\ ~resized /\ cnt = Words(size) /\ ~freed
      /\ DOMAIN buf = 0..(cnt * W - 1) /\ cnt * W \in Nat
  BY NextWord DEF IInv, TypeOK, PhaseInv, BufInv, MemIsOut
<1>2. UNCHANGED <<mem, theirs, stored, left, kind, addr, size, resized, freed, assigned, reach, faults, cnt, buf>>
      /\ pc' = "handler"
  BY DEF MemIsOut, tracee, argument
<1>3. \A k \in DOMAIN buf : k < cnt * W
  BY <1>1
<1>4. TypeOK' /\ PhaseInv' /\ StringInv' /\ ReachInv' /\ ArriveInv'
  BY <1>1, <1>2 DEF IInv, TypeOK, PhaseInv, StringInv, ReachInv, ArriveInv
<1>5. BufInv' /\ ValueInv'
  BY <1>1, <1>2, <1>3 DEF IInv, BufInv, ValueInv, Words
<1>6. CopyInv'
  BY <1>1, <1>2 DEF IInv, CopyInv, Peeked
<1>7. SpareInv'
  BY <1>1, <1>2, <1>3 DEF IInv, SpareInv
<1>8. NeighboursKept' /\ FaultsExplained'
  BY <1>1, <1>2 DEF IInv, NeighboursKept, FaultsExplained, CopiedWhole
<1> QED BY <1>4, <1>5, <1>6, <1>7, <1>8 DEF IInv

-----------------------------------------------------------------------------
(* The handler *)

(* What a helper meets is a string that was freed by being assigned, or a  *)
(* value that was not copied whole or whose size was changed.              *)
LEMMA UseFaultsAre ==
  ASSUME IInv, pc = "handler"
  PROVE  /\ UseFaults \subseteq {"freed", "short"}
         /\ "freed" \in UseFaults => kind = "string" /\ assigned > 0
         /\ "short" \in UseFaults => kind # "string" /\ (resized \/ ~CopiedWhole(size))
<1>1. freed => kind = "string" /\ assigned > 0
  BY DEF IInv, PhaseInv, TypeOK
<1>2. kind # "string" /\ ~resized /\ CopiedWhole(size) => InBuffer(size)
  <2> SUFFICES ASSUME kind # "string", ~resized, CopiedWhole(size), NEW k \in 0..(size - 1)
               PROVE  k \in DOMAIN buf
    BY DEF InBuffer
  <2>1. DOMAIN buf = 0..(Words(size) * W - 1) /\ size \in Nat
    BY DEF IInv, BufInv, TypeOK
  <2>2. size <= Words(size) * W /\ Words(size) * W \in Nat
    BY <2>1, WordsCover, NextWord
  <2> HIDE DEF CopiedWhole
  <2> QED BY <2>1, <2>2
<1> QED BY <1>1, <1>2 DEF UseFaults, Fault

(* Using the argument and ending the handler change nothing else.          *)
LEMMA UseStep ==
  ASSUME IInv, Use \/ Permit
  PROVE  IInv'
<1>1. /\ UNCHANGED <<mem, theirs, stored, left, kind, addr, size, resized, cnt, buf, freed, assigned, reach>>
      /\ pc = "handler" /\ pc' \in {"handler", "done"}
      /\ faults \subseteq faults' /\ faults' \subseteq faults \cup UseFaults
  BY DEF Use, Permit, tracee, argument
<1>2. TypeOK'
  BY <1>1, UseFaultsAre DEF IInv, TypeOK
<1>3. PhaseInv' /\ StringInv' /\ ValueInv' /\ SpareInv' /\ ReachInv' /\ ArriveInv'
  BY <1>1 DEF IInv, PhaseInv, StringInv, ValueInv, SpareInv, ReachInv, ArriveInv, Words
<1>4. BufInv' /\ CopyInv'
  BY <1>1 DEF IInv, BufInv, CopyInv, Peeked, Words
<1>5. NeighboursKept'
  BY <1>1 DEF IInv, NeighboursKept
<1>6. FaultsExplained'
  BY <1>1, UseFaultsAre DEF IInv, FaultsExplained, CopiedWhole
<1> QED BY <1>2, <1>3, <1>4, <1>5, <1>6 DEF IInv

(* Another size leaves the copy as it is, and nothing is claimed of it.    *)
LEMMA AssignSizeStep ==
  ASSUME IInv, AssignSize
  PROVE  IInv'
<1>1. /\ UNCHANGED <<mem, theirs, stored, left, kind, addr, pc, cnt, buf, freed, assigned, reach, faults>>
      /\ pc = "handler" /\ kind = "buffer" /\ resized' = TRUE /\ size' \in Nat
  BY InputAssumption DEF AssignSize, tracee, argument
<1>2. TypeOK'
  <2>1. resized' \in BOOLEAN
    BY <1>1
  <2> QED BY <1>1, <2>1 DEF IInv, TypeOK
<1>3. PhaseInv' /\ BufInv' /\ StringInv' /\ ValueInv' /\ CopyInv' /\ SpareInv' /\ ReachInv' /\ ArriveInv'
  BY <1>1 DEF IInv, PhaseInv, BufInv, StringInv, ValueInv, CopyInv, SpareInv, ReachInv, ArriveInv
<1>4. NeighboursKept' /\ FaultsExplained'
  BY <1>1 DEF IInv, NeighboursKept, FaultsExplained
<1> QED BY <1>2, <1>3, <1>4 DEF IInv

(* An assigned string is closed, whether it is new or in the old buffer.   *)
LEMMA AssignedString ==
  ASSUME IInv, AssignString
  PROVE  /\ \E m \in Nat : DOMAIN buf' = 0..(m - 1) /\ StrLen(buf') \in 0..(m - 1)
         /\ buf'[StrLen(buf')] = 0
         /\ \A k \in 0..StrLen(buf') : buf'[k] \in Nat
         /\ \A k \in DOMAIN buf' : buf'[k] \in Nat \cup {Unset}
         /\ reach' \in Nat /\ reach' >= reach /\ ((StrLen(buf') + W) \div W) * W <= reach'
         /\ freed' \in BOOLEAN
         /\ faults' = faults \/ faults' = faults \cup UseFaults
<1>1. PICK s \in NewStrings, reads \in BOOLEAN, same \in BOOLEAN :
        LET length == StrLen(s) + 1
            upto == ((length + W - 1) \div W) * W
        IN  /\ same => reads /\ InBuffer(length)
            /\ buf' = IF same THEN [k \in DOMAIN buf |-> IF k \in DOMAIN s THEN s[k] ELSE buf[k]] ELSE s
            /\ freed' = (same /\ freed)
            /\ faults' = IF reads THEN faults \cup UseFaults ELSE faults
            /\ reach' = IF upto > reach THEN upto ELSE reach
  BY DEF AssignString
<1> DEFINE n == StrLen(s)
<1>2. n \in Nat /\ DOMAIN s = 0..n /\ s[n] = 0 /\ \A k \in 0..(n - 1) : s[k] \in Nat \ {0}
  BY NewStringOf
<1>3. PICK m \in Nat : DOMAIN buf = 0..(m - 1)
  BY DEF IInv, BufInv
<1>4. TypeOK
  BY DEF IInv
<1>5. PICK l \in Nat : DOMAIN buf' = 0..(l - 1) /\ n \in 0..(l - 1)
                      /\ (\A k \in 0..n : buf'[k] = s[k])
                      /\ \A k \in 0..(l - 1) : buf'[k] \in Nat \cup {Unset}
  <2> HIDE DEF n
  <2>1. \A k \in 0..n : s[k] \in Nat
    BY <1>2
  <2>2. CASE same
    <3>1. buf' = [k \in DOMAIN buf |-> IF k \in DOMAIN s THEN s[k] ELSE buf[k]]
      BY <1>1, <2>2
    <3>2. n \in 0..(m - 1)
      BY <1>1, <1>2, <1>3, <2>2 DEF InBuffer, n
    <3>3. \A k \in 0..n : k \in 0..(m - 1) /\ buf'[k] = s[k]
      BY <1>2, <1>3, <3>1, <3>2
    <3>4. \A k \in 0..(m - 1) : buf'[k] \in Nat \cup {Unset}
      BY <1>2, <1>3, <1>4, <2>1, <3>1 DEF TypeOK
    <3> QED BY <1>3, <3>1, <3>2, <3>3, <3>4
  <2>3. CASE ~same
    <3>1. buf' = s
      BY <1>1, <2>3
    <3>2. n + 1 \in Nat /\ 0..n = 0..((n + 1) - 1)
      BY <1>2
    <3> QED BY <1>2, <2>1, <3>1, <3>2
  <2> QED BY <2>2, <2>3
<1>6. buf'[n] = 0 /\ \A k \in 0..(n - 1) : buf'[k] # 0
  BY <1>2, <1>5
<1>7. StrLen(buf') = n
  BY <1>5, <1>6, StrLenIs
<1>8. /\ reach' \in Nat /\ reach' >= reach /\ ((n + W) \div W) * W <= reach'
  <2>1. n + 1 + W - 1 = n + W
    BY <1>2, WordAssumption
  <2>2. ((n + W) \div W) * W \in Nat
    <3>1. n + W \in Nat
      BY <1>2, WordAssumption
    <3> QED BY <3>1, Division, NextWord
  <2>3. reach' = IF ((n + W) \div W) * W > reach THEN ((n + W) \div W) * W ELSE reach
    BY <1>1, <2>1
  <2> QED BY <1>4, <2>2, <2>3 DEF TypeOK
<1>9. freed' \in BOOLEAN
  BY <1>1, <1>4 DEF TypeOK
<1>10. \A k \in 0..n : buf'[k] \in Nat
  BY <1>2, <1>5
<1> QED BY <1>1, <1>5, <1>6, <1>7, <1>8, <1>9, <1>10

(* From then on the copy is the handler's.                                 *)
LEMMA AssignStringStep ==
  ASSUME IInv, AssignString
  PROVE  IInv'
<1>1. /\ UNCHANGED <<mem, theirs, stored, left, kind, addr, size, resized>>
      /\ kind = "string" /\ pc = "handler" /\ pc' = "back" /\ cnt' = 0
      /\ assigned' = assigned + 1 /\ assigned < MaxAssigned
  BY DEF AssignString, Assign, tracee, argument
<1>2. assigned' \in 0..MaxAssigned /\ assigned' > 0 /\ cnt' * W = 0 /\ ~resized
  BY <1>1, InputAssumption, WordAssumption DEF IInv, TypeOK, PhaseInv
<1>3. PICK m \in Nat : DOMAIN buf' = 0..(m - 1) /\ StrLen(buf') \in 0..(m - 1)
  BY AssignedString
<1>4. TypeOK'
  <2>1. faults' \subseteq {"freed", "short", "over"}
    BY <1>1, AssignedString, UseFaultsAre DEF IInv, TypeOK
  <2>2. \E n \in DOMAIN buf' : buf'[n] = 0
    BY <1>3, AssignedString
  <2> QED BY <1>1, <1>2, <2>1, <2>2, AssignedString DEF IInv, TypeOK
<1>5. PhaseInv' /\ StringInv' /\ ValueInv' /\ CopyInv' /\ SpareInv'
  BY <1>1, <1>2 DEF PhaseInv, StringInv, ValueInv, CopyInv, SpareInv
<1>6. BufInv'
  BY <1>1, <1>2, <1>3, AssignedString DEF BufInv
<1>7. ReachInv' /\ ArriveInv'
  BY <1>1, <1>2, <1>3, AssignedString DEF ReachInv, ArriveInv
<1>8. NeighboursKept'
  BY <1>1, AssignedString DEF IInv, TypeOK, NeighboursKept
<1>9. FaultsExplained'
  BY <1>1, <1>2, AssignedString, UseFaultsAre DEF IInv, FaultsExplained, CopiedWhole
<1> QED BY <1>4, <1>5, <1>6, <1>7, <1>8, <1>9 DEF IInv

(* A value is changed where it is: not behind it.                          *)
LEMMA AssignMemStep ==
  ASSUME IInv, AssignMem
  PROVE  IInv'
<1>1. /\ UNCHANGED <<mem, theirs, stored, left, kind, addr, size, resized, freed>>
      /\ kind # "string" /\ pc = "handler" /\ pc' = "back" /\ cnt' = 0
      /\ assigned' = assigned + 1 /\ assigned < MaxAssigned
      /\ faults' = faults \cup UseFaults
      /\ reach' = IF Words(size) * W > reach THEN Words(size) * W ELSE reach
  BY DEF AssignMem, Assign, tracee, argument
<1>2. PICK b \in Byte : buf' = [k \in DOMAIN buf |-> IF k < size THEN b ELSE buf[k]]
  BY DEF AssignMem
<1>3. /\ assigned' \in 0..MaxAssigned /\ assigned' > 0
      /\ Words(size) \in Nat /\ Words(size)' = Words(size) /\ Words(size) * W \in Nat /\ b \in Nat
  <2>1. assigned' \in 0..MaxAssigned /\ assigned' > 0
    BY <1>1, InputAssumption DEF IInv, TypeOK
  <2>2. Words(size) \in Nat /\ Words(size) * W \in Nat
    BY WordsCover, NextWord DEF IInv, TypeOK
  <2>3. Words(size)' = Words(size) /\ b \in Nat
    BY <1>1, MemoryAssumption
  <2> QED BY <2>1, <2>2, <2>3
<1>4. DOMAIN buf' = DOMAIN buf /\ \A k \in DOMAIN buf : buf[k] \in Nat /\ buf'[k] \in Nat
  BY <1>1, <1>2, <1>3 DEF IInv, BufInv
<1>5. \A k \in DOMAIN buf : k \in Int
  BY DEF IInv, BufInv
<1>6. TypeOK'
  <2>1. faults' \subseteq {"freed", "short", "over"}
    BY <1>1, UseFaultsAre DEF IInv, TypeOK
  <2>2. reach' \in Nat
    BY <1>1, <1>3 DEF IInv, TypeOK
  <2> QED BY <1>1, <1>3, <1>4, <2>1, <2>2 DEF IInv, TypeOK
<1>7. PhaseInv' /\ StringInv' /\ ValueInv' /\ CopyInv' /\ ArriveInv'
  BY <1>1, <1>3 DEF IInv, PhaseInv, StringInv, ValueInv, CopyInv, ArriveInv
<1>8. BufInv'
  BY <1>1, <1>3, <1>4 DEF IInv, BufInv
<1>9. SpareInv'
  <2>1. \A k \in DOMAIN buf : k >= size => buf'[k] = buf[k]
    BY <1>2, <1>5 DEF IInv, TypeOK
  <2> QED BY <1>1, <1>4, <2>1 DEF IInv, SpareInv
<1>10. ReachInv'
  BY <1>1, <1>3 DEF IInv, TypeOK, ReachInv
<1>11. NeighboursKept'
  <2>1. reach' >= reach /\ reach' \in Nat /\ reach \in Nat
    BY <1>1, <1>3 DEF IInv, TypeOK
  <2> QED BY <1>1, <2>1 DEF IInv, NeighboursKept
<1>12. FaultsExplained'
  BY <1>1, <1>3, UseFaultsAre DEF IInv, FaultsExplained, CopiedWhole
<1> QED BY <1>6, <1>7, <1>8, <1>9, <1>10, <1>11, <1>12 DEF IInv

-----------------------------------------------------------------------------
(* Copying back *)

(* A word that is poked changes memory only from where it is written.      *)
LEMMA PokedIs ==
  ASSUME TypeOK, NEW word, \A k \in 0..(W - 1) : word[k] \in Nat
  PROVE  LET a == addr + cnt * W
             new == PokeWord(a, word)
         IN  /\ new \in [0..(Mapped - 1) -> Nat]
             /\ \A k \in Nat : addr + k < Mapped =>
                  new[addr + k] = IF k \in (cnt * W)..(cnt * W + W - 1) THEN word[k - cnt * W] ELSE mem[addr + k]
             /\ \A x \in 0..(Mapped - 1) :
                  new[x] # mem[x] => x - addr \in (cnt * W)..(cnt * W + W - 1)
<1> DEFINE b == cnt * W
<1>1. b \in Nat /\ addr \in Nat /\ addr \in 0..(Mapped - 1) /\ DOMAIN mem = 0..(Mapped - 1) /\ W \in Nat
  BY NextWord, WordAssumption DEF TypeOK
<1>2. mem \in [0..(Mapped - 1) -> Nat]
  BY DEF TypeOK
<1> HIDE DEF b
<1>3. PokeWord(addr + b, word) = [x \in 0..(Mapped - 1) |-> IF x - (addr + b) \in 0..(W - 1) THEN word[x - (addr + b)] ELSE mem[x]]
  BY <1>1 DEF PokeWord
<1>4. PokeWord(addr + b, word) \in [0..(Mapped - 1) -> Nat]
  BY <1>2, <1>3
<1>5. ASSUME NEW k \in Nat, addr + k < Mapped
      PROVE  PokeWord(addr + b, word)[addr + k] = IF k \in b..(b + W - 1) THEN word[k - b] ELSE mem[addr + k]
  <2>1. addr + k \in 0..(Mapped - 1) /\ (addr + k) - (addr + b) = k - b
    BY <1>1, <1>5, MemoryAssumption
  <2>2. k - b \in 0..(W - 1) <=> k \in b..(b + W - 1)
    BY <1>1
  <2> QED BY <1>3, <2>1, <2>2
<1>6. ASSUME NEW x \in 0..(Mapped - 1), PokeWord(addr + b, word)[x] # mem[x]
      PROVE  x - addr \in b..(b + W - 1)
  <2>1. x - (addr + b) \in 0..(W - 1)
    BY <1>3, <1>6
  <2> QED BY <1>1, <2>1
<1> QED BY <1>4, <1>5, <1>6 DEF b

(* A string's word goes out whole as long as it holds no more than the     *)
(* string.                                                                 *)
LEMMA PokeStringStep ==
  ASSUME IInv, PokeString
  PROVE  IInv'
<1> DEFINE b == cnt * W
<1> DEFINE l == StrLen(buf)
<1>1. /\ TypeOK /\ kind = "string" /\ pc = "back" /\ assigned > 0 /\ ~resized
      /\ UNCHANGED <<theirs, stored, left, kind, addr, size, resized, pc, buf, freed, assigned, reach, faults>>
      /\ mem' = PokeWord(addr + b, BufWord) /\ cnt' = cnt + 1 /\ (cnt + 1) * W <= l + 1
  BY DEF IInv, TypeOK, PhaseInv, PokeString, argument
<1>2. PICK m \in Nat : DOMAIN buf = 0..(m - 1)
  BY DEF IInv, BufInv
<1>3. l \in 0..(m - 1) /\ \A k \in 0..l : buf[k] \in Nat
  BY <1>1, <1>2, StrLenOf DEF IInv, TypeOK, BufInv
<1>4. b \in Nat /\ cnt' * W = b + W /\ b + W <= l + 1 /\ W \in Nat \ {0} /\ cnt \in Nat
  BY <1>1, NextWord, WordAssumption DEF TypeOK
<1>5. \A k \in b..(b + W - 1) : BufWord[k - b] = buf[k]
  <2>1. \A k \in b..(b + W - 1) : k \in 0..(m - 1) /\ k - b \in 0..(W - 1) /\ b + (k - b) = k
    BY <1>3, <1>4
  <2> QED BY <1>2, <2>1 DEF BufWord
<1>6. \A k \in 0..(W - 1) : BufWord[k] \in Nat
  <2>1. \A k \in 0..(W - 1) : b + k \in 0..l /\ b + k \in 0..(m - 1)
    BY <1>3, <1>4
  <2> QED BY <1>2, <1>3, <2>1 DEF BufWord
<1>7. /\ mem' \in [0..(Mapped - 1) -> Nat]
      /\ \A k \in Nat : addr + k < Mapped =>
           mem'[addr + k] = IF k \in b..(b + W - 1) THEN BufWord[k - b] ELSE mem[addr + k]
      /\ \A x \in 0..(Mapped - 1) : mem'[x] # mem[x] => x - addr \in b..(b + W - 1)
  BY <1>1, <1>6, PokedIs
<1>8. b + W <= ((l + W) \div W) * W /\ ((l + W) \div W) * W \in Nat
  <2>1. l + 1 \in Nat /\ l + 1 + W - 1 = l + W
    BY <1>3, <1>4
  <2>2. b <= l + 1
    BY <1>3, <1>4
  <2> QED BY <1>4, <2>1, <2>2, RoundUp
<1>9. b + W <= reach /\ reach \in Nat
  BY <1>1, <1>4, <1>8 DEF IInv, ReachInv, TypeOK
<1> HIDE DEF b
<1>10. TypeOK' /\ PhaseInv' /\ BufInv' /\ StringInv' /\ ValueInv' /\ CopyInv' /\ SpareInv'
  <2>1. TypeOK'
    BY <1>1, <1>4, <1>7 DEF TypeOK
  <2>2. PhaseInv' /\ BufInv'
    BY <1>1 DEF IInv, PhaseInv, BufInv
  <2>3. StringInv' /\ ValueInv' /\ CopyInv' /\ SpareInv'
    BY <1>1 DEF StringInv, ValueInv, CopyInv, SpareInv, TypeOK
  <2> QED BY <2>1, <2>2, <2>3
<1>11. ReachInv'
  BY <1>1, <1>4 DEF IInv, ReachInv
<1>12. ArriveInv'
  <2>1. ASSUME stored = {}, NEW k \in 0..l, k < b + W, addr + k < Mapped
        PROVE  mem'[addr + k] = buf[k]
    <3>1. CASE k \in b..(b + W - 1)
      BY <1>5, <1>7, <2>1, <3>1, k \in Nat
    <3>2. CASE k < b
      BY <1>1, <1>4, <1>7, <2>1, <3>2, k \in Nat DEF IInv, ArriveInv, b
    <3> QED BY <1>4, <2>1, <3>1, <3>2
  <2> QED BY <1>1, <1>4, <2>1 DEF ArriveInv
<1>13. NeighboursKept'
  <2>1. \A x \in 0..(Mapped - 1) : mem'[x] # mem[x] => x - addr \in 0..(reach - 1)
    BY <1>4, <1>7, <1>9
  <2> QED BY <1>1, <1>7, <2>1 DEF IInv, TypeOK, NeighboursKept
<1>14. FaultsExplained'
  BY <1>1 DEF IInv, FaultsExplained, CopiedWhole
<1> QED BY <1>10, <1>11, <1>12, <1>13, <1>14 DEF IInv

(* The rest of a string goes out as a word filled up with zeros, and the   *)
(* string is whole in memory.                                              *)
LEMMA StringIsBackStep ==
  ASSUME IInv, StringIsBack
  PROVE  IInv'
<1> DEFINE b == cnt * W
<1> DEFINE l == StrLen(buf)
<1> DEFINE remain == (l + 1) % W
<1> DEFINE word == [k \in 0..(W - 1) |-> IF k < remain THEN BufWord[k] ELSE 0]
<1>1. /\ TypeOK /\ kind = "string" /\ pc = "back" /\ assigned > 0 /\ ~resized
      /\ UNCHANGED <<theirs, stored, left, kind, addr, size, resized, cnt, buf, assigned, reach>>
      /\ mem' = IF remain = 0 THEN mem ELSE PokeWord(addr + b, word)
      /\ (cnt + 1) * W > l + 1 /\ freed' = TRUE /\ pc' = "handler"
      /\ faults' = faults \cup Fault(freed, "freed")
  BY DEF IInv, TypeOK, PhaseInv, StringIsBack, RestWritten, Free, argument
<1>2. PICK m \in Nat : DOMAIN buf = 0..(m - 1)
  BY DEF IInv, BufInv
<1>3. l \in 0..(m - 1) /\ \A k \in 0..l : buf[k] \in Nat
  BY <1>1, <1>2, StrLenOf DEF IInv, TypeOK, BufInv
<1>4. b \in Nat /\ b <= l + 1 /\ b + W > l + 1 /\ W \in Nat \ {0} /\ cnt \in Nat
  BY <1>1, NextWord, WordAssumption DEF IInv, TypeOK, ReachInv
<1>5. /\ remain \in Nat /\ b + remain = l + 1 /\ remain < W
      /\ remain # 0 => b + W <= reach
      /\ reach \in Nat
  <2>1. l + 1 \in Nat /\ l + 1 + W - 1 = l + W /\ remain \in 0..(W - 1)
    BY <1>3, <1>4
  <2>2. b + remain = l + 1 /\ (remain # 0 => b + W <= ((l + W) \div W) * W) /\ ((l + W) \div W) * W \in Nat
    BY <1>4, <2>1, RoundUp
  <2> HIDE DEF b, remain
  <2> QED BY <1>1, <1>4, <2>1, <2>2 DEF IInv, ReachInv, TypeOK
<1>6. \A k \in b..l : BufWord[k - b] = buf[k] /\ k - b < remain /\ k - b \in 0..(W - 1)
  <2>1. \A k \in b..l : k \in 0..(m - 1) /\ k - b < remain /\ k - b \in 0..(W - 1) /\ b + (k - b) = k
    BY <1>3, <1>4, <1>5
  <2> QED BY <1>2, <2>1 DEF BufWord
<1>7. \A k \in 0..(W - 1) : word[k] \in Nat
  <2>1. ASSUME NEW k \in 0..(W - 1), k < remain
        PROVE  BufWord[k] \in Nat
    <3>1. b + k \in 0..l /\ b + k \in 0..(m - 1)
      BY <1>3, <1>4, <1>5, <2>1
    <3> QED BY <1>2, <1>3, <3>1 DEF BufWord
  <2> QED BY <2>1
<1>8. \A k \in b..l : word[k - b] = buf[k]
  BY <1>6
<1> HIDE DEF word, remain
<1>9. /\ mem' \in [0..(Mapped - 1) -> Nat]
      /\ \A k \in Nat : addr + k < Mapped /\ (remain = 0 \/ k \notin b..(b + W - 1)) =>
           mem'[addr + k] = mem[addr + k]
      /\ \A k \in Nat : addr + k < Mapped /\ remain # 0 /\ k \in b..(b + W - 1) => mem'[addr + k] = word[k - b]
      /\ \A x \in 0..(Mapped - 1) : mem'[x] # mem[x] => remain # 0 /\ x - addr \in b..(b + W - 1)
  <2>1. CASE remain = 0
    BY <1>1, <2>1 DEF TypeOK
  <2>2. CASE remain # 0
    BY <1>1, <1>7, <2>2, PokedIs
  <2> QED BY <2>1, <2>2
<1> HIDE DEF b
<1>10. TypeOK' /\ PhaseInv' /\ BufInv' /\ StringInv' /\ ValueInv' /\ CopyInv' /\ SpareInv' /\ ReachInv'
  <2>1. faults' \subseteq {"freed", "short", "over"} /\ freed' \in BOOLEAN
    BY <1>1 DEF TypeOK, Fault
  <2>2. TypeOK'
    BY <1>1, <1>9, <2>1 DEF TypeOK
  <2>3. PhaseInv' /\ BufInv'
    BY <1>1 DEF IInv, PhaseInv, BufInv
  <2>4. StringInv' /\ ValueInv' /\ CopyInv' /\ SpareInv' /\ ReachInv'
    BY <1>1 DEF StringInv, ValueInv, CopyInv, SpareInv, ReachInv, TypeOK
  <2> QED BY <2>2, <2>3, <2>4
<1>11. ArriveInv'
  <2>1. ASSUME stored = {}, NEW k \in 0..l, addr + k < Mapped
        PROVE  mem'[addr + k] = buf[k]
    <3>1. CASE k >= b
      <4>1. k \in b..l /\ k \in b..(b + W - 1) /\ remain # 0 /\ k \in Nat
        BY <1>3, <1>4, <1>5, <3>1
      <4> QED BY <1>8, <1>9, <2>1, <4>1
    <3>2. CASE k < b
      <4>1. mem[addr + k] = buf[k]
        BY <1>1, <2>1, <3>2 DEF IInv, ArriveInv, b
      <4> QED BY <1>4, <1>9, <2>1, <3>2, <4>1, k \in Nat
    <3> QED BY <1>3, <1>4, <3>1, <3>2
  <2> QED BY <1>1, <2>1 DEF ArriveInv
<1>12. NeighboursKept'
  <2>1. \A x \in 0..(Mapped - 1) : mem'[x] # mem[x] => x - addr \in 0..(reach - 1)
    BY <1>4, <1>5, <1>9
  <2> QED BY <1>1, <1>9, <2>1 DEF IInv, TypeOK, NeighboursKept
<1>13. FaultsExplained'
  BY <1>1 DEF IInv, FaultsExplained, CopiedWhole, Fault
<1> QED BY <1>10, <1>11, <1>12, <1>13 DEF IInv

(* A value's words go out, the last with what the process had behind it    *)
(* when it was read.                                                       *)
LEMMA PokeMemStep ==
  ASSUME IInv, PokeMem
  PROVE  IInv'
<1> DEFINE b == cnt * W
<1> DEFINE top == Words(size) * W
<1>1. /\ TypeOK /\ kind # "string" /\ pc = "back" /\ assigned > 0 /\ ~freed /\ cnt < Words(size)
      /\ UNCHANGED <<theirs, stored, left, kind, addr, size, resized, pc, buf, freed, assigned, reach>>
      /\ mem' = PokeWord(addr + b, BufWord) /\ cnt' = cnt + 1
      /\ faults' = faults \cup Fault(~InBuffer((cnt + 1) * W), "over")
  BY DEF IInv, TypeOK, PhaseInv, PokeMem, argument
<1>2. PICK m \in Nat : DOMAIN buf = 0..(m - 1)
  BY DEF IInv, BufInv
<1>3. /\ b \in Nat /\ cnt' * W = b + W /\ b + W <= top /\ W \in Nat \ {0} /\ cnt \in Nat
      /\ Words(size) \in Nat /\ top \in Nat /\ (cnt + 1) * W = b + W
  BY <1>1, NextWord, FewerWords, WordsCover, WordAssumption DEF TypeOK
<1>4. \A k \in DOMAIN buf : buf[k] \in Nat
  BY <1>1 DEF IInv, BufInv
<1>5. \A k \in 0..(W - 1) : BufWord[k] \in Nat
  BY <1>4, MemoryAssumption DEF BufWord
<1>6. /\ mem' \in [0..(Mapped - 1) -> Nat]
      /\ \A k \in Nat : addr + k < Mapped =>
           mem'[addr + k] = IF k \in b..(b + W - 1) THEN BufWord[k - b] ELSE mem[addr + k]
      /\ \A x \in 0..(Mapped - 1) : mem'[x] # mem[x] => x - addr \in b..(b + W - 1)
  BY <1>1, <1>5, PokedIs
<1>7. ~resized => \A k \in b..(b + W - 1) : k \in DOMAIN buf /\ BufWord[k - b] = buf[k]
  <2>1. ~resized => DOMAIN buf = 0..(top - 1)
    BY <1>1 DEF IInv, BufInv
  <2>2. \A k \in b..(b + W - 1) : k \in 0..(top - 1) /\ k - b \in 0..(W - 1) /\ b + (k - b) = k
    BY <1>3
  <2> QED BY <2>1, <2>2 DEF BufWord
<1>8. ~resized => InBuffer((cnt + 1) * W)
  <2>1. ~resized => DOMAIN buf = 0..(top - 1)
    BY <1>1 DEF IInv, BufInv
  <2>2. \A k \in 0..((cnt + 1) * W - 1) : k \in 0..(top - 1)
    BY <1>3
  <2> QED BY <2>1, <2>2 DEF InBuffer
<1>9. ~resized => top <= reach /\ reach \in Nat
  BY <1>1 DEF IInv, ReachInv, TypeOK
<1>10. Words(size)' = Words(size)
  BY <1>1
<1>11. TypeOK' /\ PhaseInv' /\ BufInv' /\ StringInv' /\ ValueInv' /\ CopyInv' /\ SpareInv'
  <2>1. faults' \subseteq {"freed", "short", "over"}
    BY <1>1 DEF TypeOK, Fault
  <2>2. TypeOK'
    BY <1>1, <1>3, <1>6, <2>1 DEF TypeOK
  <2>3. PhaseInv' /\ BufInv'
    BY <1>1, <1>10 DEF IInv, PhaseInv, BufInv
  <2>4. StringInv' /\ ValueInv' /\ CopyInv' /\ SpareInv'
    BY <1>1, <1>3, <1>10 DEF IInv, StringInv, ValueInv, CopyInv, SpareInv, TypeOK
  <2> QED BY <2>2, <2>3, <2>4
<1>12. ReachInv' /\ ArriveInv'
  BY <1>1, <1>10 DEF IInv, ReachInv, ArriveInv
<1> HIDE DEF b, top
<1>13. NeighboursKept'
  <2> SUFFICES ASSUME NEW x \in 0..(Mapped - 1), mem'[x] # theirs[x], ~resized, x - addr \notin 0..(size - 1)
               PROVE  /\ x - addr \in 0..(reach - 1)
                      /\ x \in stored \/ addr + ((x - addr) \div W + 1) * W > Mapped
    BY <1>1, <1>6 DEF NeighboursKept
  <2>1. CASE mem'[x] = mem[x]
    BY <1>1, <2>1 DEF IInv, NeighboursKept, TypeOK
  <2>2. CASE mem'[x] # mem[x]
    <3> DEFINE k == x - addr
    <3>1. k \in b..(b + W - 1) /\ k \in Nat /\ addr + k = x /\ x < Mapped
      BY <1>1, <1>3, <1>6, <2>2, MemoryAssumption DEF TypeOK
    <3>2. k \in DOMAIN buf /\ mem'[x] = buf[k]
      BY <1>6, <1>7, <3>1
    <3>3. k >= size
      BY <1>1, <3>1 DEF TypeOK
    <3>4. k \in 0..(reach - 1)
      BY <1>3, <1>9, <3>1
    <3> QED BY <1>1, <3>1, <3>2, <3>3, <3>4 DEF IInv, SpareInv
  <2> QED BY <2>1, <2>2
<1>14. FaultsExplained'
  <2>1. resized => kind = "buffer"
    BY DEF IInv, PhaseInv
  <2> QED BY <1>1, <1>8, <2>1 DEF IInv, FaultsExplained, CopiedWhole, Fault
<1> QED BY <1>11, <1>12, <1>13, <1>14 DEF IInv

(* A value that is not copied back further is the handler's again.         *)
LEMMA MemIsBackStep ==
  ASSUME IInv, MemIsBack
  PROVE  IInv'
<1>1. /\ UNCHANGED <<mem, theirs, stored, left, kind, addr, size, resized, cnt, buf, freed, assigned, reach, faults>>
      /\ kind # "string" /\ pc = "back" /\ pc' = "handler" /\ assigned > 0
  BY DEF IInv, PhaseInv, TypeOK, MemIsBack, tracee, argument
<1>2. TypeOK' /\ PhaseInv' /\ StringInv' /\ ReachInv' /\ ArriveInv'
  BY <1>1 DEF IInv, TypeOK, PhaseInv, StringInv, ReachInv, ArriveInv
<1>3. BufInv' /\ ValueInv' /\ CopyInv' /\ SpareInv'
  BY <1>1 DEF IInv, BufInv, ValueInv, CopyInv, SpareInv, Words
<1>4. NeighboursKept' /\ FaultsExplained'
  BY <1>1 DEF IInv, NeighboursKept, FaultsExplained, CopiedWhole
<1> QED BY <1>2, <1>3, <1>4 DEF IInv

(* What another thread writes is its own, and is counted as written.       *)
LEMMA OtherThreadStep ==
  ASSUME IInv, OtherThread
  PROVE  IInv'
<1>1. /\ UNCHANGED <<kind, addr, size, resized, pc, cnt, buf, freed, assigned, reach, faults>>
      /\ left > 0 /\ left' = left - 1
  BY DEF OtherThread, argument, tracer
<1>2. PICK a \in 0..(Mapped - 1), v \in Byte :
        /\ mem' = [mem EXCEPT ![a] = v] /\ theirs' = [theirs EXCEPT ![a] = v]
        /\ stored' = stored \cup {a}
  BY DEF OtherThread, IInv, TypeOK
<1>3. TypeOK'
  <2>1. mem' \in [0..(Mapped - 1) -> Nat] /\ theirs' \in [0..(Mapped - 1) -> Byte]
    BY <1>2, MemoryAssumption DEF IInv, TypeOK
  <2>2. stored' \subseteq 0..(Mapped - 1) /\ left' \in 0..MaxStored
    BY <1>1, <1>2, InputAssumption DEF IInv, TypeOK
  <2> QED BY <1>1, <2>1, <2>2 DEF IInv, TypeOK
<1>4. PhaseInv' /\ StringInv' /\ CopyInv' /\ ArriveInv'
  <2>1. stored' # {}
    BY <1>2
  <2> QED BY <1>1, <1>2, <2>1 DEF IInv, PhaseInv, StringInv, CopyInv, ArriveInv
<1>5. BufInv' /\ ValueInv' /\ ReachInv'
  BY <1>1 DEF IInv, BufInv, ValueInv, ReachInv, Words
<1>6. SpareInv'
  BY <1>1, <1>2 DEF IInv, SpareInv, TypeOK
<1>7. NeighboursKept'
  BY <1>1, <1>2 DEF IInv, NeighboursKept, TypeOK
<1>8. FaultsExplained'
  BY <1>1 DEF IInv, FaultsExplained, CopiedWhole
<1> QED BY <1>3, <1>4, <1>5, <1>6, <1>7, <1>8 DEF IInv

-----------------------------------------------------------------------------
(* What the handler sees *)

(* No word before the one of the first zero is behind the end of memory,   *)
(* and that one is if and only if its own end is.                          *)
LEMMA MappedWords ==
  ASSUME TypeOK, NEW n \in Nat, NEW k \in Nat, k <= n
  PROVE  /\ k < (n \div W + 1) * W
         /\ (n \div W) * W <= n
         /\ (k \div W + 1) * W <= (n \div W + 1) * W
         /\ k < (n \div W) * W => (k \div W + 1) * W <= n
<1> DEFINE i == k \div W
<1> DEFINE j == n \div W
<1>1. /\ i \in Nat /\ j \in Nat /\ k = i * W + (k % W) /\ n = j * W + (n % W)
      /\ k % W \in 0..(W - 1) /\ n % W \in 0..(W - 1)
  BY Division
<1>2. i * W \in Nat /\ j * W \in Nat /\ (i + 1) * W = i * W + W /\ (j + 1) * W = j * W + W
  BY <1>1, NextWord
<1>3. i < j => i * W + W <= j * W
  BY <1>1, FewerWords
<1>4. j < i => j * W + W <= i * W
  BY <1>1, FewerWords
<1>5. ~(j < i)
  BY <1>1, <1>2, <1>4, WordAssumption
<1>6. i = j => i * W = j * W
  OBVIOUS
<1> HIDE DEF i, j
<1>7. i < j \/ i = j
  BY <1>1, <1>5
<1> QED BY <1>1, <1>2, <1>3, <1>6, <1>7, WordAssumption DEF i, j

(* A string is seen as it is, shortened by the limit, or not at all.       *)
LEMMA StringSeen ==
  ASSUME IInv, Fetched, stored = {}, kind = "string", NEW n \in 0..(Mapped - 1), IsLength(n)
  PROVE  IF n < MaxString THEN StrLen(buf) = n /\ Same(n) <=> addr + (n \div W + 1) * W <= Mapped
         ELSE StrLen(buf) = MaxString /\ Same(MaxString)
<1> DEFINE e == cnt * W
<1> DEFINE d == e - W
<1>1. /\ TypeOK /\ pc = "handler" /\ assigned = 0 /\ ~resized /\ DOMAIN buf = 0..MaxString
      /\ MaxString \in Nat \ {0} /\ W \in Nat \ {0} /\ Mapped \in Nat /\ addr \in Nat /\ n \in Nat
  BY StringAssumption, WordAssumption, MemoryAssumption DEF IInv, TypeOK, PhaseInv, BufInv, Fetched
<1>2. /\ e \in Nat /\ d \in Nat /\ (cnt - 1) * W = d /\ e <= MaxString /\ buf[MaxString] = 0
      /\ \A k \in 0..(d - 1) : buf[k] # 0
      /\ e = MaxString \/ \E k \in d..(e - 1) : buf[k] = 0
      /\ \A k \in 0..(e - 1) : buf[k] = Peeked(k)
  <2>1. cnt \in Nat /\ cnt > 0
    BY <1>1 DEF IInv, TypeOK, StringInv
  <2>2. e \in Nat /\ d \in Nat /\ (cnt - 1) * W = d
    BY <1>1, <2>1, NextWord
  <2> QED BY <1>1, <2>2 DEF IInv, StringInv, CopyInv
<1>3. addr + n < Mapped /\ mem[addr + n] = 0 /\ \A k \in 0..(n - 1) : mem[addr + k] # 0
  <2>1. Ends(n) /\ \A k \in 0..(n - 1) : ~Ends(k)
    BY DEF IsLength
  <2>2. addr + n \in 0..(Mapped - 1) /\ mem[addr + n] = 0
    BY <1>1, <2>1 DEF Ends, TypeOK
  <2>3. \A k \in 0..(n - 1) : addr + k \in 0..(Mapped - 1)
    BY <1>1, <2>2
  <2>4. \A k \in 0..(n - 1) : mem[addr + k] # 0
    BY <1>1, <2>1, <2>3 DEF Ends, TypeOK
  <2> QED BY <1>1, <2>2, <2>4
<1>4. \A k \in Nat : Peeked(k) = IF addr + (k \div W + 1) * W <= Mapped THEN mem[addr + k] ELSE Garbage
  BY DEF Peeked
<1>5. \A k \in 0..(n - 1) : k < e => buf[k] # 0
  <2> SUFFICES ASSUME NEW k \in 0..(n - 1), k < e
               PROVE  buf[k] # 0
    OBVIOUS
  <2>1. k \in Nat /\ k \in 0..(e - 1)
    BY <1>1, <1>2
  <2>2. buf[k] = mem[addr + k] \/ buf[k] = Garbage
    BY <1>2, <1>4, <2>1
  <2> QED BY <1>3, <2>2, MemoryAssumption
<1>6. MaxString + 1 \in Nat /\ DOMAIN buf = 0..((MaxString + 1) - 1)
  BY <1>1
<1>9. ASSUME NEW x \in 0..MaxString, buf[x] = 0, \A k \in 0..(x - 1) : buf[k] # 0
      PROVE  StrLen(buf) = x
  <2>1. x \in 0..((MaxString + 1) - 1)
    BY <1>1
  <2> QED BY <1>6, <1>9, <2>1, StrLenIs
<1> HIDE DEF e
<1>7. CASE n >= MaxString
  <2>1. \A k \in 0..(MaxString - 1) : k < n
    BY <1>1, <1>7
  <2>2. e = MaxString
    <3>1. \A k \in d..(e - 1) : k \in 0..(n - 1) /\ k < e
      BY <1>1, <1>2, <1>7
    <3> QED BY <1>2, <1>5, <3>1
  <2>3. StrLen(buf) = MaxString
    <3>1. \A k \in 0..(MaxString - 1) : k \in 0..(n - 1) /\ buf[k] # 0
      BY <1>1, <1>5, <1>7, <2>2
    <3> QED BY <1>1, <1>2, <1>9, <3>1, MaxString \in 0..MaxString
  <2>4. Same(MaxString)
    <3> SUFFICES ASSUME NEW k \in 0..(MaxString - 1)
                 PROVE  buf[k] = mem[addr + k]
      BY DEF Same
    <3>0. k \in Nat /\ k \in 0..(e - 1) /\ k < MaxString
      BY <1>1, <2>2
    <3>1. k \in Nat /\ k \in 0..(e - 1) /\ k < MaxString /\ k \div W \in Nat
      BY <3>0, Division
    <3>2. (k \div W) * W <= k /\ (k \div W) * W \in Nat
      BY <1>1, <3>1, MappedWords, NextWord
    <3>3. (k \div W) * W + W <= MaxString
      BY <1>1, <3>1, <3>2, WholeLimit
    <3>4. (k \div W + 1) * W = (k \div W) * W + W
      BY <3>1, NextWord
    <3>5. addr + (k \div W + 1) * W <= Mapped
      BY <1>1, <1>3, <1>7, <3>2, <3>3, <3>4
    <3> QED BY <1>2, <1>4, <3>1, <3>5
  <2> QED BY <1>1, <1>7, <2>3, <2>4
<1>8. CASE n < MaxString
  <2> DEFINE whole == addr + (n \div W + 1) * W <= Mapped
  <2>1. CASE whole
    <3>1. n < e
      <4>1. CASE e <= n
        <5>1. \A k \in d..(e - 1) : k \in 0..(n - 1) /\ k < e
          BY <1>1, <1>2, <4>1
        <5> QED BY <1>1, <1>2, <1>5, <1>8, <4>1, <5>1
      <4> QED BY <1>1, <1>2, <4>1
    <3>2. buf[n] = 0
      <4>1. n \in 0..(e - 1)
        BY <1>1, <1>2, <3>1
      <4> QED BY <1>1, <1>2, <1>3, <1>4, <2>1, <4>1
    <3>3. \A k \in 0..(n - 1) : k < e /\ buf[k] # 0
      BY <1>1, <1>2, <1>5, <3>1
    <3>4. StrLen(buf) = n
      BY <1>1, <1>8, <1>9, <3>2, <3>3, n \in 0..MaxString
    <3>5. Same(n)
      <4> SUFFICES ASSUME NEW k \in 0..(n - 1)
                   PROVE  buf[k] = mem[addr + k]
        BY DEF Same
      <4>1. k \in Nat /\ k \in 0..(e - 1) /\ k <= n /\ k \div W \in Nat /\ n \div W \in Nat
        <5>1. k \in Nat /\ k \in 0..(e - 1) /\ k <= n
          BY <1>1, <1>2, <3>3
        <5> QED BY <1>1, <5>1, Division
      <4>2. (k \div W + 1) * W <= (n \div W + 1) * W
        BY <1>1, <4>1, MappedWords
      <4>3. (k \div W + 1) * W \in Nat /\ (n \div W + 1) * W \in Nat
        BY <4>1, NextWord, k \div W + 1 \in Nat, n \div W + 1 \in Nat
      <4>4. addr + (k \div W + 1) * W <= Mapped
        BY <1>1, <2>1, <4>2, <4>3
      <4> QED BY <1>2, <1>4, <4>1, <4>4
    <3> QED BY <1>8, <2>1, <3>4, <3>5
  <2>2. CASE ~whole
    <3>1. StrLen(buf) # n
      <4> SUFFICES ASSUME StrLen(buf) = n
                   PROVE  FALSE
        OBVIOUS
      <4>1. buf[n] = 0
        BY <1>1, <1>2, <1>6, StrLenOf, MaxString \in DOMAIN buf
      <4>2. n >= e
        <5>1. CASE n < e
          <6>1. buf[n] = Garbage
            BY <1>1, <1>2, <1>4, <2>2, <5>1
          <6> QED BY <4>1, <6>1, MemoryAssumption
        <5> QED BY <1>1, <1>2, <5>1
      <4>3. \A k \in d..(e - 1) : k \in 0..(n - 1) /\ k < e
        BY <1>1, <1>2, <4>2
      <4>4. e = MaxString
        BY <1>2, <1>5, <4>3
      <4> QED BY <1>1, <1>2, <1>8, <4>2, <4>4
    <3> QED BY <1>8, <2>2, <3>1
  <2> QED BY <2>1, <2>2
<1> QED BY <1>1, <1>7, <1>8

(* A value is seen as it is if it is copied whole, and only then.          *)
LEMMA ValueSeen ==
  ASSUME IInv, Fetched, stored = {}, kind # "string", ~resized, addr + size + W <= Mapped
  PROVE  InBuffer(size) /\ Same(size) <=> CopiedWhole(size)
<1> DEFINE top == Words(size) * W
<1>1. /\ TypeOK /\ pc = "handler" /\ assigned = 0 /\ cnt = Words(size) /\ DOMAIN buf = 0..(top - 1)
      /\ W \in Nat \ {0} /\ Mapped \in Nat /\ addr \in Nat /\ size \in Nat /\ top \in Nat
  <2>1. /\ TypeOK /\ pc = "handler" /\ assigned = 0 /\ cnt = Words(size) /\ DOMAIN buf = 0..(top - 1)
        /\ addr \in 0..(Mapped - 1) /\ size \in Nat
    BY DEF IInv, TypeOK, BufInv, ValueInv, Fetched
  <2>2. top \in Nat
    BY <2>1, WordsCover, NextWord
  <2> QED BY <2>1, <2>2, WordAssumption, MemoryAssumption
<1>2. CopiedWhole(size) <=> size <= top
  BY <1>1, WordsCover
<1>3. InBuffer(size) <=> size <= top
  <2>1. size <= top => InBuffer(size)
    BY <1>1 DEF InBuffer
  <2>2. CASE size > top
    <3>1. top \in 0..(size - 1) /\ top \notin 0..(top - 1)
      BY <1>1, <2>2
    <3> QED BY <1>1, <2>2, <3>1 DEF InBuffer
  <2> QED BY <1>1, <2>1, <2>2
<1>4. ASSUME size <= top
      PROVE  Same(size)
  <2> SUFFICES ASSUME NEW k \in 0..(size - 1)
               PROVE  buf[k] = mem[addr + k]
    BY DEF Same
  <2>1. k \in Nat /\ k \in 0..(cnt * W - 1) /\ k < size /\ k \div W \in Nat
    <3>1. k \in Nat /\ k \in 0..(cnt * W - 1) /\ k < size
      BY <1>1, <1>4
    <3> QED BY <3>1, Division
  <2>2. (k \div W) * W <= k /\ (k \div W) * W \in Nat /\ (k \div W + 1) * W = (k \div W) * W + W
    BY <1>1, <2>1, MappedWords, NextWord
  <2>3. addr + (k \div W + 1) * W <= Mapped
    BY <1>1, <2>1, <2>2
  <2>4. buf[k] = Peeked(k)
    BY <1>1, <2>1 DEF IInv, CopyInv
  <2> QED BY <2>3, <2>4 DEF Peeked
<1> QED BY <1>2, <1>3, <1>4

-----------------------------------------------------------------------------
(* Theorems *)

(* IInv is an inductive invariant of the copies, whatever the size of a    *)
(* word, the limit, the memory, the strings and what other threads write.  *)
THEOREM InductiveInvariant == Spec => []IInv
<1>1. Init => IInv
  BY InitInvariant
<1>2. IInv /\ [Next]_vars => IInv'
  <2> SUFFICES ASSUME IInv, [Next]_vars PROVE IInv'
    OBVIOUS
  <2>1. CASE UNCHANGED vars
    <3>1. UNCHANGED <<mem, theirs, stored, left, kind, addr, size, resized, pc, cnt, buf, freed, assigned,
                      reach, faults>>
      BY <2>1 DEF vars, tracee, argument, tracer
    <3>2. TypeOK' /\ PhaseInv' /\ StringInv' /\ ReachInv' /\ ArriveInv'
      BY <3>1 DEF IInv, TypeOK, PhaseInv, StringInv, ReachInv, ArriveInv
    <3>3. BufInv' /\ ValueInv' /\ CopyInv' /\ SpareInv'
      BY <3>1 DEF IInv, BufInv, ValueInv, CopyInv, SpareInv, Words, Peeked
    <3>4. NeighboursKept' /\ FaultsExplained'
      BY <3>1 DEF IInv, NeighboursKept, FaultsExplained, CopiedWhole
    <3> QED BY <3>2, <3>3, <3>4 DEF IInv
  <2> QED BY <2>1, PeekStringStep, PeekMemStep, MemIsOutStep, UseStep, AssignStringStep, AssignMemStep,
             AssignSizeStep, PokeStringStep, StringIsBackStep, PokeMemStep, MemIsBackStep, OtherThreadStep
          DEF Next
<1> QED BY <1>1, <1>2, PTL DEF Spec

(* Everything keeps its range; in particular no byte of the heap that      *)
(* nobody has written gets into the process, and a string in use is closed.*)
THEOREM TypeCorrect == Spec => []TypeOK
<1>1. IInv => TypeOK
  BY DEF IInv
<1> QED BY <1>1, InductiveInvariant, PTL

(* What the handler sees of a string or a value, for every place of it in  *)
(* a mapping and every size.                                               *)
THEOREM ArgumentCopiedCorrect == Spec => []ArgumentCopied
<1>1. IInv => ArgumentCopied
  BY StringSeen, ValueSeen DEF ArgumentCopied
<1> QED BY <1>1, InductiveInvariant, PTL

(* An assigned string is in memory when the handler goes on, as far as     *)
(* memory is mapped.                                                       *)
THEOREM StringArrivesCorrect == Spec => []StringArrives
<1>1. IInv => StringArrives
  <2> SUFFICES ASSUME IInv, pc = "handler", assigned > 0, kind = "string", stored = {},
                      NEW k \in 0..StrLen(buf), addr + k < Mapped
               PROVE  mem[addr + k] = buf[k]
    BY DEF StringArrives
  <2> QED BY DEF IInv, ArriveInv
<1> QED BY <1>1, InductiveInvariant, PTL

(* No write-back changes the process's memory beyond the words it takes,   *)
(* but where a last word is shared with bytes that are not the argument's. *)
THEOREM NeighboursKeptCorrect == Spec => []NeighboursKept
<1>1. IInv => NeighboursKept
  BY DEF IInv
<1> QED BY <1>1, InductiveInvariant, PTL

(* The handler uses freed memory exactly if it uses a string it has        *)
(* assigned, and goes past a copy only in the two ways stated.             *)
THEOREM FaultsExplainedCorrect == Spec => []FaultsExplained
<1>1. IInv => FaultsExplained
  BY DEF IInv
<1> QED BY <1>1, InductiveInvariant, PTL
=============================================================================

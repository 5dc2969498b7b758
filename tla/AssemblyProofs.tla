--------------------------- MODULE AssemblyProofs ----------------------------
(***************************************************************************)
(* Proofs about Assembly, for any policy.  The data that the filter returns*)
(* are handed out once over all checks, and both tables of the tracer lead *)
(* from each of them to its own check's section and its own block there.   *)
(* The labels of the filter become offsets that lead behind them, a call   *)
(* runs through the chain of checks to its own, and what that check says   *)
(* of it is what filter and tracer do.                                     *)
(***************************************************************************)
EXTENDS Assembly, FlattenLemmas, FiniteSetTheorems

-----------------------------------------------------------------------------
(* The inductive invariant *)

Verdicts == {"allow", "deny"}

Labels == {"syscall", "label", "start", "0", "__deny", "__allow"} \X Nat \X Nat

Instructions ==
  [f : {"label"}, label : Labels]
    \cup [f : {"ld"}, what : {"arch", "nr", "arg"}]
    \cup [f : {"jump"}, test : {"arch", "jgt", "jeq"}, k : Nat, jt : Labels, jf : Labels]
    \cup [f : {"ret"}, verdict : Verdicts]
    \cup [f : {"trace"}, data : Nat]

(* The hand-overs of check n.                                              *)
Handovers(n) == Traces(n, Len(Body(n)) + 1)

TypeInv ==
  /\ policy \in Policies
  /\ stage \in {"CodeGen", "BPFTransformLabels", "PtraceCodeGen", "done"}
  /\ bpf_filters \in Seq(Seq(Instructions)) /\ Len(bpf_filters) <= Len(checks)
  /\ ret_data_to_label \in Seq(Labels)

(* Datum d leads to the block that item m of check n hands over to.        *)
LeadsTo(d, n, m) ==
  d + 1 \in 1..Len(ret_data_to_label) /\ ret_data_to_label[d + 1] = BlockLabel(n, Body(n)[m].label)

(* Each check so far has its own numbers, counted on from where the checks *)
(* before it ended, and every number leads to its block.                   *)
NumberedFrom(first, n) ==
  /\ bpf_filters[n] = FlattenSeq([m \in DOMAIN Body(n) |-> Generated(first, n, m)])
  /\ \A m \in Handovers(n) : LeadsTo(first + Cardinality(Traces(n, m)), n, m)

FiltersInv == \A n \in 1..Len(bpf_filters) : \E first \in Nat : NumberedFrom(first, n)

(* No datum leads anywhere else.                                           *)
DataInv ==
  \A d \in 1..Len(ret_data_to_label) :
    \E n \in 1..Len(bpf_filters) : \E m \in Handovers(n) : LeadsTo(d - 1, n, m)

(* The tables have the data of all checks.                                 *)
TableInv ==
  IF stage = "done" /\ HasPtrace
  THEN /\ jmp_table = ret_data_to_label
       /\ start_table = StartTable(ret_data_to_label)
       /\ tracer = FlattenSeq([n \in DOMAIN checks |-> Section(n)])
  ELSE jmp_table = <<>> /\ start_table = <<>> /\ tracer = <<>>

IInv == TypeInv /\ FiltersInv /\ DataInv /\ TableInv

-----------------------------------------------------------------------------
(* Checks *)

(* What is known of the checks of a policy.                                *)
LEMMA ChecksKnown ==
  ASSUME policy \in Policies
  PROVE  /\ checks \in Seq(CompiledChecks) /\ policy.default \in Verdicts
         /\ Len(checks) \in Nat /\ DOMAIN checks = 1..Len(checks)
<1>1. policy \in [default : {"allow", "deny"}, checks : Seq(CompiledChecks)]
  BY PoliciesAssumption
<1> QED BY <1>1 DEF checks, Verdicts

(* What is known of a check.                                               *)
LEMMA CheckKnown ==
  ASSUME policy \in Policies, NEW n \in 1..Len(checks)
  PROVE  /\ checks[n].syscall \in Numbers /\ Body(n) \in Seq(Items) /\ checks[n].code \in Seq(Blocks)
         /\ Len(Body(n)) \in Nat /\ DOMAIN Body(n) = 1..Len(Body(n))
         /\ Len(checks[n].code) \in Nat /\ DOMAIN checks[n].code = 1..Len(checks[n].code)
         /\ \A m \in DOMAIN Body(n) : Body(n)[m] \in Items
         /\ \A b \in DOMAIN checks[n].code : checks[n].code[b] \in Blocks
         /\ \A m \in DOMAIN Body(n) : Body(n)[m].item = "trace" =>
              \E b \in DOMAIN checks[n].code : checks[n].code[b].label = Body(n)[m].label
         /\ \A a, b \in DOMAIN checks[n].code : checks[n].code[a].label = checks[n].code[b].label => a = b
<1> DEFINE c == checks[n]
<1>1. c \in CompiledChecks
  BY ChecksKnown
<1>2. Body(n) = c.filter
  BY DEF Body
<1> HIDE DEF c
<1>3. c.syscall \in Numbers /\ c.filter \in Seq(Items) /\ c.code \in Seq(Blocks)
  BY <1>1 DEF CompiledChecks
<1>4. /\ \A m \in DOMAIN c.filter :
           c.filter[m].item = "trace" => \E b \in DOMAIN c.code : c.code[b].label = c.filter[m].label
      /\ \A a, b \in DOMAIN c.code : c.code[a].label = c.code[b].label => a = b
  BY <1>1 DEF CompiledChecks
<1>5. ASSUME NEW S, NEW s \in Seq(S)
      PROVE  Len(s) \in Nat /\ DOMAIN s = 1..Len(s) /\ \A m \in DOMAIN s : s[m] \in S
  BY LenProperties, ElementOfSeq
<1>6. /\ Len(c.filter) \in Nat /\ DOMAIN c.filter = 1..Len(c.filter)
      /\ \A m \in DOMAIN c.filter : c.filter[m] \in Items
  BY <1>3, <1>5
<1>7. /\ Len(c.code) \in Nat /\ DOMAIN c.code = 1..Len(c.code)
      /\ \A m \in DOMAIN c.code : c.code[m] \in Blocks
  BY <1>3, <1>5
<1> QED BY <1>2, <1>3, <1>4, <1>6, <1>7 DEF c

(* A hand-over is an item that has the label of a block.                   *)
LEMMA HandoverKnown ==
  ASSUME policy \in Policies, NEW n \in 1..Len(checks), NEW m \in Handovers(n)
  PROVE  /\ m \in DOMAIN Body(n) /\ Body(n)[m].item = "trace" /\ Body(n)[m].label \in Nat
         /\ \E b \in 1..Len(checks[n].code) : checks[n].code[b].label = Body(n)[m].label
         /\ HasPtrace
<1>1. Len(Body(n)) \in Nat /\ DOMAIN Body(n) = 1..Len(Body(n)) /\ \A j \in DOMAIN Body(n) : Body(n)[j] \in Items
  BY CheckKnown
<1>2. m \in 1..((Len(Body(n)) + 1) - 1) /\ Body(n)[m].item = "trace"
  BY DEF Handovers, Traces
<1>3. m \in DOMAIN Body(n)
  BY <1>1, <1>2
<1>4. \A t \in Items : t.item = "trace" => t.label \in Nat
  BY DEF Items
<1>5. Body(n)[m].label \in Nat
  BY <1>1, <1>2, <1>3, <1>4
<1>6. \E b \in DOMAIN checks[n].code : checks[n].code[b].label = Body(n)[m].label
  BY <1>2, <1>3, CheckKnown
<1>7. DOMAIN checks[n].code = 1..Len(checks[n].code)
  BY CheckKnown
<1>8. HasPtrace
  <2>1. DOMAIN checks[n].code # {} /\ n \in DOMAIN checks
    BY <1>6, ChecksKnown
  <2> QED BY <2>1 DEF HasPtrace
<1> QED BY <1>2, <1>3, <1>5, <1>6, <1>7, <1>8

(* Hand-overs are counted one by one.                                      *)
LEMMA TracesCounted ==
  ASSUME policy \in Policies, NEW n \in 1..Len(checks)
  PROVE  /\ \A m \in Nat : IsFiniteSet(Traces(n, m)) /\ Cardinality(Traces(n, m)) \in Nat
         /\ Cardinality(Traces(n, 1)) = 0
         /\ \A m \in 1..Len(Body(n)) :
              Cardinality(Traces(n, m + 1)) =
                Cardinality(Traces(n, m)) + (IF m \in Handovers(n) THEN 1 ELSE 0)
<1>1. Len(Body(n)) \in Nat
  BY CheckKnown
<1>2. ASSUME NEW m \in Nat PROVE IsFiniteSet(Traces(n, m)) /\ Cardinality(Traces(n, m)) \in Nat
  <2>1. IsFiniteSet(1..(m - 1))
    BY FS_Interval
  <2>2. Traces(n, m) \subseteq 1..(m - 1)
    BY DEF Traces
  <2> QED BY <2>1, <2>2, FS_Subset, FS_CardinalityType
<1>3. Traces(n, 1) = {}
  BY DEF Traces
<1>4. ASSUME NEW m \in 1..Len(Body(n))
      PROVE  Cardinality(Traces(n, m + 1)) = Cardinality(Traces(n, m)) + (IF m \in Handovers(n) THEN 1 ELSE 0)
  <2>1. m \in Handovers(n) <=> Body(n)[m].item = "trace"
    BY <1>1 DEF Handovers, Traces
  <2>2. m \notin Traces(n, m)
    BY DEF Traces
  <2>3. CASE m \in Handovers(n)
    <3>1. Traces(n, m + 1) = Traces(n, m) \cup {m}
      BY <2>1, <2>3 DEF Traces
    <3> QED BY <1>2, <2>2, <2>3, <3>1, FS_AddElement
  <2>4. CASE m \notin Handovers(n)
    <3>1. Traces(n, m + 1) = Traces(n, m)
      <4>1. \A j \in 1..m : j = m \/ j \in 1..(m - 1)
        OBVIOUS
      <4> QED BY <2>1, <2>4, <4>1 DEF Traces
    <3> QED BY <1>2, <2>4, <3>1
  <2> QED BY <2>3, <2>4
<1> QED BY <1>2, <1>3, <1>4, FS_EmptySet

(* Later hand-overs have greater numbers.                                  *)
LEMMA TracesGrow ==
  ASSUME policy \in Policies, NEW n \in 1..Len(checks), NEW a \in Handovers(n), NEW x \in Nat, a < x
  PROVE  Cardinality(Traces(n, a)) + 1 <= Cardinality(Traces(n, x))
<1>1. a \in 1..Len(Body(n)) /\ Len(Body(n)) \in Nat
  BY CheckKnown DEF Handovers, Traces
<1>2. Cardinality(Traces(n, a + 1)) = Cardinality(Traces(n, a)) + 1
  BY <1>1, TracesCounted
<1>3. Traces(n, a + 1) \subseteq Traces(n, x)
  BY <1>1 DEF Traces
<1>4. IsFiniteSet(Traces(n, x))
  BY TracesCounted
<1>5. Cardinality(Traces(n, a + 1)) <= Cardinality(Traces(n, x))
  BY <1>3, <1>4, FS_Subset
<1> QED BY <1>2, <1>5

(* The j-th hand-over is the one with j - 1 before it.                     *)
LEMMA HandoverIs ==
  ASSUME policy \in Policies, NEW n \in 1..Len(checks), NEW m \in Handovers(n)
  PROVE  /\ Cardinality(Traces(n, m)) + 1 \in 1..Cardinality(Handovers(n))
         /\ Handover(n, Cardinality(Traces(n, m)) + 1) = m
<1> DEFINE c == Cardinality(Traces(n, m))
<1>1. Len(Body(n)) \in Nat /\ m \in 1..Len(Body(n))
  BY CheckKnown DEF Handovers, Traces
<1>2. c \in Nat /\ Cardinality(Handovers(n)) \in Nat
  BY <1>1, TracesCounted DEF Handovers
<1>3. c + 1 <= Cardinality(Handovers(n))
  BY <1>1, TracesGrow DEF Handovers
<1>4. \A x \in Handovers(n) : x \in Nat
  BY DEF Handovers, Traces
<1>5. ASSUME NEW x \in Handovers(n), Cardinality(Traces(n, x)) = c PROVE x = m
  <2>1. CASE x < m
    BY <2>1, <1>2, <1>4, <1>5, TracesGrow
  <2>2. CASE m < x
    BY <2>2, <1>2, <1>4, <1>5, TracesGrow
  <2> QED BY <2>1, <2>2, <1>4
<1> HIDE DEF c
<1>6. (c + 1) - 1 = c
  BY <1>2
<1>7. Handover(n, c + 1) = CHOOSE x \in Handovers(n) : Cardinality(Traces(n, x)) = c
  BY <1>6 DEF Handover, Handovers
<1>8. Cardinality(Traces(n, m)) = c
  BY DEF c
<1>9. Handover(n, c + 1) \in Handovers(n) /\ Cardinality(Traces(n, Handover(n, c + 1))) = c
  BY <1>7, <1>8
<1> QED BY <1>2, <1>3, <1>5, <1>9 DEF c

(* There is one for every number.                                          *)
LEMMA HandoverExists ==
  ASSUME policy \in Policies, NEW n \in 1..Len(checks), NEW j \in 1..Cardinality(Handovers(n))
  PROVE  \E m \in Handovers(n) : Cardinality(Traces(n, m)) = j - 1 /\ Handover(n, j) = m
<1> DEFINE N == Len(Body(n))
           T == {x \in 1..(N + 1) : Cardinality(Traces(n, x)) >= j}
<1>1. N \in Nat /\ Cardinality(Handovers(n)) \in Nat
  BY CheckKnown, TracesCounted DEF Handovers
<1>2. T \subseteq Nat /\ N + 1 \in T
  BY <1>1 DEF Handovers
<1>3. PICK x \in T : \A y \in T : x <= y
  BY <1>2, Least
<1>4. x # 1
  BY <1>3, TracesCounted
<1>5. x - 1 \in 1..N /\ x - 1 \in 1..(N + 1) /\ x - 1 \notin T /\ (x - 1) + 1 = x
  BY <1>1, <1>3, <1>4
<1> DEFINE m == x - 1
<1>6. m \in 1..N /\ m + 1 = x
  BY <1>5
<1>7. Cardinality(Traces(n, m)) \in Nat /\ ~(Cardinality(Traces(n, m)) >= j) /\ Cardinality(Traces(n, m + 1)) >= j
  BY <1>3, <1>5, TracesCounted
<1> HIDE DEF m
<1>8. Cardinality(Traces(n, m + 1)) = Cardinality(Traces(n, m)) + (IF m \in Handovers(n) THEN 1 ELSE 0)
  BY <1>6, TracesCounted DEF N
<1>9. m \in Handovers(n) /\ Cardinality(Traces(n, m)) = j - 1
  BY <1>7, <1>8
<1>10. Handover(n, j) = m
  <2>1. Cardinality(Traces(n, m)) + 1 = j
    BY <1>9
  <2> QED BY <1>9, <2>1, HandoverIs
<1> QED BY <1>9, <1>10

-----------------------------------------------------------------------------
(* Labels and instructions *)

(* The labels written are labels.                                          *)
LEMMA LabelsKnown ==
  ASSUME policy \in Policies, NEW n \in 1..Len(checks), NEW l \in Nat
  PROVE  /\ BlockLabel(n, l) \in Labels /\ Local(n, l) \in Labels
         /\ StartOf(checks[n].syscall) \in Labels /\ Name(checks[n].syscall) \in Labels
         /\ BlockLabel(n, l)[1] # "start" /\ StartOf(checks[n].syscall)[1] = "start"
<1>1. n \in Nat /\ checks[n].syscall \in Nat
  <2>1. checks[n].syscall \in Numbers
    BY CheckKnown
  <2>2. Numbers \subseteq Nat
    BY AssemblyAssumption
  <2>3. n \in Nat
    BY ChecksKnown
  <2> QED BY <2>1, <2>2, <2>3
<1> QED BY <1>1 DEF BlockLabel, Local, Name, StartOf, Labels

(* What an item becomes: only hand-overs become returns with a datum.      *)
LEMMA GeneratedKnown ==
  ASSUME policy \in Policies, NEW n \in 1..Len(checks), NEW m \in 1..Len(Body(n)), NEW first \in Nat
  PROVE  /\ Generated(first, n, m) \in Seq(Instructions)
         /\ \A k \in 1..Len(Generated(first, n, m)) :
              Generated(first, n, m)[k].f = "trace" =>
                m \in Handovers(n) /\ Generated(first, n, m)[k].data = first + Cardinality(Traces(n, m))
<1> DEFINE item == Body(n)[m]
           G == Generated(first, n, m)
           c == Cardinality(Traces(n, m))
<1>1. item \in Items /\ m \in Nat /\ n \in Nat
  BY CheckKnown, ChecksKnown
<1>2. c \in Nat
  BY <1>1, TracesCounted
<1>3. CASE item.item = "label"
  <2>1. G = <<Mark(Local(n, item.label))>>
    BY <1>3 DEF Generated
  <2>2. item.label \in Nat
    BY <1>1, <1>3 DEF Items
  <2>3. Mark(Local(n, item.label)) \in Instructions /\ Mark(Local(n, item.label)).f # "trace"
    BY <2>2, LabelsKnown DEF Mark, Instructions
  <2> HIDE DEF item, G
  <2> QED BY <2>1, <2>3 DEF G
<1>4. CASE item.item = "branch"
  <2> DEFINE j == Jump("jeq", item.k, Local(n, item.jt), Local(n, item.jf))
  <2>1. G = <<Load("arg"), j>>
    BY <1>4 DEF Generated
  <2>2. item.k \in Nat /\ item.jt \in Nat /\ item.jf \in Nat
    BY <1>1, <1>4 DEF Items
  <2>3. Local(n, item.jt) \in Labels /\ Local(n, item.jf) \in Labels
    BY <2>2, LabelsKnown
  <2>4. Load("arg") \in Instructions /\ Load("arg").f # "trace"
    BY DEF Load, Instructions
  <2>5. j \in Instructions /\ j.f # "trace"
    BY <2>2, <2>3 DEF Jump, Instructions
  <2> HIDE DEF item, G, j
  <2> QED BY <2>1, <2>4, <2>5 DEF G
<1>5. CASE item.item = "ret"
  <2>1. G = <<Ret(item.verdict)>>
    BY <1>5 DEF Generated
  <2>2. item.verdict \in Verdicts
    BY <1>1, <1>5 DEF Items, Verdicts
  <2>3. Ret(item.verdict) \in Instructions /\ Ret(item.verdict).f # "trace"
    BY <2>2 DEF Ret, Instructions
  <2> HIDE DEF item, G
  <2> QED BY <2>1, <2>3 DEF G
<1>6. CASE item.item = "trace"
  <2>1. G = <<Trace(first + c)>>
    BY <1>6 DEF Generated
  <2>2. Trace(first + c) \in Instructions /\ Trace(first + c).data = first + c
    BY <1>2 DEF Trace, Instructions
  <2>3. m \in Handovers(n)
    BY <1>6, CheckKnown DEF Handovers, Traces
  <2> HIDE DEF item, G, c
  <2> QED BY <2>1, <2>2, <2>3 DEF G, c
<1>7. item.item \in {"label", "branch", "ret", "trace"}
  BY <1>1 DEF Items
<1> QED BY <1>3, <1>4, <1>5, <1>6, <1>7

(* All items of a check, as they go to FlattenSeq.                         *)
LEMMA BodyGenerated ==
  ASSUME policy \in Policies, NEW n \in 1..Len(checks), NEW first \in Nat
  PROVE  LET G == [m \in DOMAIN Body(n) |-> Generated(first, n, m)]
         IN  /\ G \in Seq(Seq(Instructions)) /\ Len(G) = Len(Body(n))
             /\ \A m \in 1..Len(G) : G[m] = Generated(first, n, m)
<1> DEFINE N == Len(Body(n))
           G == [m \in DOMAIN Body(n) |-> Generated(first, n, m)]
<1>1. N \in Nat /\ DOMAIN Body(n) = 1..N
  BY CheckKnown
<1>2. \A m \in 1..N : Generated(first, n, m) \in Seq(Instructions)
  BY GeneratedKnown
<1>3. G \in [1..N -> Seq(Instructions)] /\ \A m \in 1..N : G[m] = Generated(first, n, m)
  BY <1>1, <1>2
<1> HIDE DEF G, N
<1>4. G \in Seq(Seq(Instructions)) /\ Len(G) = N
  BY <1>1, <1>3
<1> QED BY <1>3, <1>4 DEF G, N

-----------------------------------------------------------------------------
(* Steps *)

(* Before the first check nothing is written.                              *)
LEMMA InitInvariant == Init => IInv
<1> SUFFICES ASSUME Init PROVE IInv
  OBVIOUS
<1>1. policy \in Policies /\ Len(checks) \in Nat
  BY ChecksKnown DEF Init
<1>2. TypeInv
  BY <1>1, EmptySeq DEF Init, TypeInv
<1> QED BY <1>2 DEF Init, IInv, FiltersInv, DataInv, TableInv

(* The policy is never changed, and nothing that depends on it only.       *)
LEMMA SameChecks ==
  ASSUME policy' = policy
  PROVE  /\ checks' = checks /\ HasPtrace' = HasPtrace
         /\ \A n, m : Traces(n, m)' = Traces(n, m)
         /\ \A n : Body(n)' = Body(n) /\ Handovers(n)' = Handovers(n) /\ Section(n)' = Section(n)
         /\ \A n, l : BlockLabel(n, l)' = BlockLabel(n, l)
         /\ \A first, n, m : Generated(first, n, m)' = Generated(first, n, m)
<1>1. checks' = checks
  BY DEF checks
<1> QED BY <1>1 DEF HasPtrace, Body, Traces, Handovers, Section, BlockLabel, Generated

(* What is numbered stays so as long as data are only added.               *)
LEMMA NumbersKept ==
  ASSUME policy' = policy, NEW n, NEW first, NumberedFrom(first, n), bpf_filters'[n] = bpf_filters[n],
         \A d, m : LeadsTo(d, n, m) => LeadsTo(d, n, m)'
  PROVE  NumberedFrom(first, n)'
<1> DEFINE G == [m \in DOMAIN Body(n) |-> Generated(first, n, m)]
<1>1. G' = G
  BY SameChecks
<1>2. bpf_filters'[n] = FlattenSeq(G')
  BY <1>1 DEF NumberedFrom
<1>3. ASSUME NEW m \in Handovers(n) PROVE LeadsTo(first + Cardinality(Traces(n, m)), n, m)'
  <2>1. PICK d : d = first + Cardinality(Traces(n, m))
    OBVIOUS
  <2>2. LeadsTo(d, n, m)'
    BY <2>1 DEF NumberedFrom
  <2>3. (first + Cardinality(Traces(n, m)))' = d
    BY <2>1, SameChecks
  <2> QED BY <2>2, <2>3 DEF LeadsTo
<1>4. Handovers(n)' = Handovers(n)
  BY SameChecks
<1> QED BY <1>2, <1>3, <1>4 DEF NumberedFrom

(* What is known of the data depends on no other variables.                *)
LEMMA FiltersKept ==
  ASSUME IInv, UNCHANGED <<policy, bpf_filters, ret_data_to_label>>
  PROVE  FiltersInv' /\ DataInv'
<1>1. \A d, n, m : LeadsTo(d, n, m)' = LeadsTo(d, n, m)
  BY SameChecks DEF LeadsTo
<1>2. ASSUME NEW n \in 1..Len(bpf_filters) PROVE \E first \in Nat : NumberedFrom(first, n)'
  <2>1. PICK first \in Nat : NumberedFrom(first, n)
    BY DEF IInv, FiltersInv
  <2>2. NumberedFrom(first, n)'
    BY <1>1, <2>1, NumbersKept
  <2> QED BY <2>2
<1>3. FiltersInv'
  BY <1>2 DEF FiltersInv
<1>4. DataInv'
  BY <1>1, SameChecks DEF IInv, DataInv
<1> QED BY <1>3, <1>4

(* Nor does the invariant.                                                 *)
LEMMA StutterStep ==
  ASSUME IInv, UNCHANGED vars
  PROVE  IInv'
<1>1. TypeInv'
  BY SameChecks DEF vars, IInv, TypeInv
<1>2. FiltersInv' /\ DataInv'
  BY FiltersKept DEF vars
<1>3. TableInv'
  BY SameChecks DEF vars, IInv, TableInv, StartTable, StartLabel
<1> QED BY <1>1, <1>2, <1>3 DEF IInv

(* The filter is joined and gets its offsets; the data are not touched.    *)
LEMMA FilterStep ==
  ASSUME IInv, JoinFilters \/ BPFTransformLabels
  PROVE  IInv'
<1>1. /\ UNCHANGED <<policy, bpf_filters, ret_data_to_label, tracer, jmp_table, start_table>>
      /\ stage # "done" /\ stage' \in {"BPFTransformLabels", "PtraceCodeGen"}
  BY DEF JoinFilters, BPFTransformLabels
<1>2. TypeInv'
  BY <1>1, SameChecks DEF IInv, TypeInv
<1>3. FiltersInv' /\ DataInv'
  BY <1>1, FiltersKept
<1>4. TableInv'
  BY <1>1 DEF IInv, TableInv
<1> QED BY <1>2, <1>3, <1>4 DEF IInv

(* The tables are those of all data.                                       *)
LEMMA PtraceStep ==
  ASSUME IInv, PtraceCodeGen
  PROVE  IInv'
<1>1. /\ UNCHANGED <<policy, bpf_filters, ret_data_to_label>>
      /\ stage = "PtraceCodeGen" /\ stage' = "done"
  BY DEF PtraceCodeGen
<1>2. TypeInv'
  BY <1>1, SameChecks DEF IInv, TypeInv
<1>3. FiltersInv' /\ DataInv'
  BY <1>1, FiltersKept
<1>4. TableInv'
  <2>1. CASE HasPtrace
    <3> DEFINE parts == [n \in DOMAIN checks |-> Section(n)]
    <3>1. /\ jmp_table' = ret_data_to_label
          /\ start_table' = StartTable(ret_data_to_label)
          /\ tracer' = FlattenSeq(parts)
      BY <2>1 DEF PtraceCodeGen
    <3>2. StartTable(ret_data_to_label)' = StartTable(ret_data_to_label)
      BY <1>1, SameChecks DEF StartTable, StartLabel
    <3>3. parts' = parts
      BY <1>1, SameChecks
    <3> HIDE DEF parts
    <3>4. /\ jmp_table' = ret_data_to_label' /\ start_table' = StartTable(ret_data_to_label)'
          /\ tracer' = FlattenSeq(parts')
      BY <1>1, <3>1, <3>2, <3>3
    <3>5. stage' = "done" /\ HasPtrace'
      BY <1>1, <2>1, SameChecks
    <3> QED BY <3>4, <3>5 DEF TableInv, parts
  <2>2. CASE ~HasPtrace
    <3>1. ~HasPtrace'
      BY <1>1, <2>2, SameChecks
    <3> QED BY <1>1, <2>2, <3>1 DEF PtraceCodeGen, IInv, TableInv
  <2> QED BY <2>1, <2>2
<1> QED BY <1>2, <1>3, <1>4 DEF IInv

(* One more check: its data are the next ones, one for each hand-over, and *)
(* in the order of the items.                                              *)
LEMMA CodeGenStep ==
  ASSUME IInv, CodeGenCheck
  PROVE  IInv'
<1>0. PICK n, first : n = Len(bpf_filters) + 1 /\ first = Len(ret_data_to_label)
  OBVIOUS
<1> DEFINE G == [m \in DOMAIN Body(n) |-> Generated(first, n, m)]
           K == Cardinality(Handovers(n))
           added == [j \in 1..K |-> BlockLabel(n, Body(n)[Handover(n, j)].label)]
<1>1. /\ stage = "CodeGen" /\ n <= Len(checks)
      /\ UNCHANGED <<policy, stage, final_filters, tracer, jmp_table, start_table>>
      /\ bpf_filters' = Append(bpf_filters, FlattenSeq(G))
      /\ ret_data_to_label' = ret_data_to_label \o added
  BY <1>0 DEF CodeGenCheck, Handovers
<1>2. /\ policy \in Policies /\ bpf_filters \in Seq(Seq(Instructions)) /\ ret_data_to_label \in Seq(Labels)
      /\ Len(bpf_filters) \in Nat /\ first \in Nat
  BY <1>0 DEF IInv, TypeInv
<1>3. Len(checks) \in Nat /\ n \in 1..Len(checks)
  BY <1>0, <1>1, <1>2, ChecksKnown
<1>4. G \in Seq(Seq(Instructions))
  BY <1>2, <1>3, BodyGenerated
<1>5. FlattenSeq(G) \in Seq(Instructions)
  BY <1>4, FlattenContains
<1>6. K \in Nat
  <2>1. Len(Body(n)) + 1 \in Nat
    BY <1>2, <1>3, CheckKnown
  <2> QED BY <1>2, <1>3, <2>1, TracesCounted DEF Handovers
<1>7. \A m \in Handovers(n) : Body(n)[m].label \in Nat
  BY <1>2, <1>3, HandoverKnown
<1> HIDE DEF G, K
<1>8. ASSUME NEW j \in 1..K PROVE BlockLabel(n, Body(n)[Handover(n, j)].label) \in Labels
  <2>1. Handover(n, j) \in Handovers(n)
    BY <1>2, <1>3, HandoverExists DEF K
  <2> QED BY <1>2, <1>3, <1>7, <2>1, LabelsKnown
<1>9. added \in Seq(Labels) /\ Len(added) = K
      /\ \A j \in 1..K : added[j] = BlockLabel(n, Body(n)[Handover(n, j)].label)
  <2>1. added \in [1..K -> Labels]
    BY <1>8
  <2> QED BY <1>6, <2>1
<1> HIDE DEF added
<1>10. /\ ret_data_to_label' \in Seq(Labels) /\ Len(ret_data_to_label') = first + K
       /\ \A d \in 1..first : d \in 1..Len(ret_data_to_label') /\ ret_data_to_label'[d] = ret_data_to_label[d]
       /\ \A j \in 1..K : first + j \in 1..Len(ret_data_to_label') /\ ret_data_to_label'[first + j] = added[j]
  <2>1. /\ ret_data_to_label' = ret_data_to_label \o added /\ Len(ret_data_to_label) = first
        /\ ret_data_to_label \in Seq(Labels) /\ added \in Seq(Labels) /\ Len(added) = K
    BY <1>0, <1>1, <1>2, <1>9
  <2>2. /\ ret_data_to_label' \in Seq(Labels) /\ Len(ret_data_to_label') = first + K
        /\ Behind(ret_data_to_label', ret_data_to_label, added)
    BY <2>1, JoinOne
  <2> QED BY <2>1, <2>2, Zenon DEF Behind
<1>11. /\ bpf_filters' \in Seq(Seq(Instructions)) /\ Len(bpf_filters') = n
       /\ bpf_filters'[n] = FlattenSeq(G)
       /\ \A i \in 1..Len(bpf_filters) : bpf_filters'[i] = bpf_filters[i]
  BY <1>0, <1>1, <1>2, <1>5, AppendProperties
<1>12. \A d, i, m : LeadsTo(d, i, m) => LeadsTo(d, i, m)'
  BY <1>0, <1>1, <1>10, SameChecks DEF LeadsTo
<1>13. \A m \in Handovers(n) : LeadsTo(first + Cardinality(Traces(n, m)), n, m)'
  <2> SUFFICES ASSUME NEW m \in Handovers(n) PROVE LeadsTo(first + Cardinality(Traces(n, m)), n, m)'
    OBVIOUS
  <2>0. PICK c : c = Cardinality(Traces(n, m))
    OBVIOUS
  <2>1. c + 1 \in 1..K /\ Handover(n, c + 1) = m
    BY <1>2, <1>3, <2>0, HandoverIs DEF K
  <2>2. c \in Nat
    <3>1. m \in Nat
      BY DEF Handovers, Traces
    <3> QED BY <1>2, <1>3, <2>0, <3>1, TracesCounted
  <2>3. (first + Cardinality(Traces(n, m)))' = first + c
    BY <1>1, <2>0, SameChecks
  <2>4. first + (c + 1) = (first + c) + 1
    BY <1>2, <2>2
  <2>5. /\ (first + c) + 1 \in 1..Len(ret_data_to_label')
        /\ ret_data_to_label'[(first + c) + 1] = BlockLabel(n, Body(n)[m].label)
    BY <1>9, <1>10, <2>1, <2>4
  <2>6. BlockLabel(n, Body(n)[m].label)' = BlockLabel(n, Body(n)[m].label)
    BY <1>1, SameChecks
  <2> QED BY <2>3, <2>5, <2>6 DEF LeadsTo
<1>14. NumberedFrom(first, n)'
  <2>1. G' = G /\ Handovers(n)' = Handovers(n)
    BY <1>1, SameChecks DEF G
  <2>2. bpf_filters'[n] = FlattenSeq(G')
    BY <1>11, <2>1
  <2> QED BY <1>13, <2>1, <2>2 DEF NumberedFrom, G
<1>15. FiltersInv'
  <2> SUFFICES ASSUME NEW i \in 1..n PROVE \E e \in Nat : NumberedFrom(e, i)'
    BY <1>11 DEF FiltersInv
  <2>1. CASE i = n
    BY <1>2, <1>14, <2>1
  <2>2. CASE i # n
    <3>1. i \in 1..Len(bpf_filters)
      BY <1>0, <1>2, <2>2
    <3>2. PICK e \in Nat : NumberedFrom(e, i)
      BY <3>1 DEF IInv, FiltersInv
    <3>3. NumberedFrom(e, i)'
      BY <1>1, <1>11, <1>12, <3>1, <3>2, NumbersKept
    <3> QED BY <3>3
  <2> QED BY <2>1, <2>2
<1>16. DataInv'
  <2> SUFFICES ASSUME NEW d \in 1..(first + K)
               PROVE  \E i \in 1..n : \E m \in Handovers(i)' : LeadsTo(d - 1, i, m)'
    BY <1>10, <1>11 DEF DataInv
  <2>1. CASE d <= first
    <3>1. d \in 1..first
      BY <1>2, <2>1
    <3>2. PICK i \in 1..Len(bpf_filters) : \E m \in Handovers(i) : LeadsTo(d - 1, i, m)
      BY <1>0, <3>1 DEF IInv, DataInv
    <3>3. PICK m \in Handovers(i) : LeadsTo(d - 1, i, m)
      BY <3>2
    <3>4. i \in 1..n /\ Handovers(i)' = Handovers(i) /\ LeadsTo(d - 1, i, m)'
      BY <1>0, <1>1, <1>2, <1>12, <3>3, SameChecks
    <3> QED BY <3>3, <3>4
  <2>2. CASE ~(d <= first)
    <3> DEFINE j == d - first
    <3>1. j \in 1..K /\ j - 1 \in Nat /\ first + (j - 1) = d - 1
      BY <1>2, <1>6, <2>2
    <3> HIDE DEF j
    <3>2. PICK m \in Handovers(n) : Cardinality(Traces(n, m)) = j - 1
      BY <1>2, <1>3, <3>1, HandoverExists DEF K
    <3>3. (first + Cardinality(Traces(n, m)))' = d - 1
      BY <1>1, <3>1, <3>2, SameChecks
    <3>4. LeadsTo(d - 1, n, m)'
      BY <1>13, <3>3 DEF LeadsTo
    <3>5. n \in 1..n /\ Handovers(n)' = Handovers(n)
      BY <1>0, <1>1, <1>2, SameChecks
    <3> QED BY <3>4, <3>5
  <2> QED BY <2>1, <2>2, <1>2
<1>17. TypeInv'
  BY <1>0, <1>1, <1>2, <1>3, <1>10, <1>11, SameChecks DEF IInv, TypeInv
<1>18. TableInv'
  BY <1>1 DEF IInv, TableInv
<1> QED BY <1>15, <1>16, <1>17, <1>18 DEF IInv

-----------------------------------------------------------------------------
(* The sections of the tracer *)

LineSet ==
  [t : {"label"}, label : Labels] \cup {Dispatch} \cup [t : {"verdict"}, verdict : Verdicts]

(* The lines of a block: its label, and the verdict if there is one.       *)
BlockLines(n, b) ==
  <<At(BlockLabel(n, checks[n].code[b].label))>>
    \o (IF checks[n].code[b].verdict = "none" THEN <<>> ELSE <<Ends(checks[n].code[b].verdict)>>)

(* A block has its label as first line, and no other.                      *)
LEMMA BlockLinesKnown ==
  ASSUME policy \in Policies, NEW n \in 1..Len(checks), NEW b \in 1..Len(checks[n].code)
  PROVE  /\ BlockLines(n, b) \in Seq(LineSet) /\ Len(BlockLines(n, b)) \in Nat /\ 1 \in 1..Len(BlockLines(n, b))
         /\ BlockLines(n, b)[1] = At(BlockLabel(n, checks[n].code[b].label))
         /\ \A k \in 1..Len(BlockLines(n, b)) : k # 1 => BlockLines(n, b)[k].t = "verdict"
         /\ checks[n].code[b].verdict # "none" =>
              Len(BlockLines(n, b)) = 2 /\ BlockLines(n, b)[2] = Ends(checks[n].code[b].verdict)
<1> DEFINE blk == checks[n].code[b]
           first == At(BlockLabel(n, blk.label))
           rest == IF blk.verdict = "none" THEN <<>> ELSE <<Ends(blk.verdict)>>
<1>1. blk.label \in Nat /\ blk.verdict \in {"allow", "deny", "none"}
  BY CheckKnown DEF Blocks
<1>2. first \in LineSet
  BY <1>1, LabelsKnown DEF At, LineSet
<1>3. blk.verdict # "none" => Ends(blk.verdict) \in LineSet /\ Ends(blk.verdict).t = "verdict"
  BY <1>1 DEF Ends, LineSet, Verdicts
<1>4. BlockLines(n, b) = <<first>> \o rest
  BY DEF BlockLines
<1> HIDE DEF first
<1>5. CASE blk.verdict = "none"
  <2>1. BlockLines(n, b) = <<first>>
    BY <1>2, <1>4, <1>5
  <2> QED BY <1>2, <1>5, <2>1 DEF first
<1>6. CASE blk.verdict # "none"
  <2> DEFINE e == Ends(blk.verdict)
  <2>1. e \in LineSet /\ e.t = "verdict"
    BY <1>3, <1>6
  <2>2. BlockLines(n, b) = <<first>> \o <<e>>
    BY <1>4, <1>6
  <2> HIDE DEF e
  <2>3. /\ <<first>> \in Seq(LineSet) /\ Len(<<first>>) = 1 /\ <<first>>[1] = first
        /\ <<e>> \in Seq(LineSet) /\ Len(<<e>>) = 1 /\ <<e>>[1] = e
    BY <1>2, <2>1
  <2> DEFINE u == <<first>>
             v == <<e>>
  <2> HIDE DEF u, v
  <2>4. u \in Seq(LineSet) /\ Len(u) = 1 /\ u[1] = first /\ v \in Seq(LineSet) /\ Len(v) = 1 /\ v[1] = e
    BY <2>3 DEF u, v
  <2>5. /\ u \o v \in Seq(LineSet) /\ Len(u \o v) = 2
        /\ (u \o v)[1] = first /\ (u \o v)[1 + 1] = e
    <3>1. 1 \in 1..Len(u) /\ 1 \in 1..Len(v)
      BY <2>4
    <3> QED BY <2>4, <3>1, JoinOne DEF Behind
  <2>6. BlockLines(n, b) = u \o v
    BY <2>2 DEF u, v
  <2> HIDE DEF u, v
  <2>7. (u \o v)[2] = e
    BY <2>5
  <2> QED BY <2>1, <2>5, <2>6, <2>7 DEF first, e
<1> QED BY <1>5, <1>6

(* Blocks of a check have different labels.                                *)
LEMMA LabelsOfBlocks ==
  ASSUME NEW n, NEW l \in Nat, NEW m \in Nat, BlockLabel(n, l) = BlockLabel(n, m)
  PROVE  l = m
BY DEF BlockLabel, Name, Local

(* A section is the prologue's label, the jump through the table and then  *)
(* the blocks, each label once.                                            *)
LEMMA SectionKnown ==
  ASSUME policy \in Policies, NEW n \in 1..Len(checks), Len(checks[n].code) # 0
  PROVE  /\ Section(n) \in Seq(LineSet) /\ Len(Section(n)) \in Nat /\ Len(Section(n)) >= 2
         /\ Section(n)[1] = At(StartOf(checks[n].syscall)) /\ Section(n)[2] = Dispatch
         /\ \A k \in 3..Len(Section(n)) :
              \/ Section(n)[k].t = "verdict"
              \/ \E b \in 1..Len(checks[n].code) :
                   Section(n)[k] = At(BlockLabel(n, checks[n].code[b].label))
         /\ \A b \in 1..Len(checks[n].code) :
              \E k \in 3..Len(Section(n)) :
                /\ \A j \in 3..Len(Section(n)) :
                     Section(n)[j] = At(BlockLabel(n, checks[n].code[b].label)) <=> j = k
                /\ checks[n].code[b].verdict # "none" =>
                     k + 1 \in 3..Len(Section(n)) /\ Section(n)[k + 1] = Ends(checks[n].code[b].verdict)
<1> DEFINE N == Len(checks[n].code)
           label(b) == At(BlockLabel(n, checks[n].code[b].label))
           parts == [b \in 1..N |-> BlockLines(n, b)]
           blocks == FlattenSeq(parts)
           front == <<At(StartOf(checks[n].syscall)), Dispatch>>
<1>1. /\ N \in Nat /\ DOMAIN checks[n].code = 1..N /\ checks[n].code # <<>>
      /\ \A b \in 1..N : checks[n].code[b].label \in Nat
      /\ \A a, b \in 1..N : checks[n].code[a].label = checks[n].code[b].label => a = b
  <2>1. N \in Nat /\ DOMAIN checks[n].code = 1..N /\ \A b \in DOMAIN checks[n].code : checks[n].code[b] \in Blocks
    BY CheckKnown
  <2>2. \A b \in Blocks : b.label \in Nat
    BY DEF Blocks
  <2>3. checks[n].code # <<>>
    OBVIOUS
  <2> QED BY <2>1, <2>2, <2>3, CheckKnown
<1>2. Section(n) = front \o blocks
  BY <1>1 DEF Section, BlockLines
<1>3. front \in Seq(LineSet) /\ Len(front) = 2 /\ front[1] = At(StartOf(checks[n].syscall)) /\ front[2] = Dispatch
  <2>1. At(StartOf(checks[n].syscall)) \in LineSet /\ Dispatch \in LineSet
    BY LabelsKnown DEF At, LineSet
  <2> QED BY <2>1
<1>4. /\ \A b \in 1..N : /\ BlockLines(n, b) \in Seq(LineSet)
                        /\ Len(BlockLines(n, b)) \in Nat /\ 1 \in 1..Len(BlockLines(n, b))
                        /\ BlockLines(n, b)[1] = label(b)
                        /\ \A k \in 1..Len(BlockLines(n, b)) : k # 1 => BlockLines(n, b)[k].t = "verdict"
  BY BlockLinesKnown
<1>5. \A a, b \in 1..N : label(a) = label(b) => a = b
  <2> SUFFICES ASSUME NEW a \in 1..N, NEW b \in 1..N, label(a) = label(b) PROVE a = b
    OBVIOUS
  <2>1. BlockLabel(n, checks[n].code[a].label) = BlockLabel(n, checks[n].code[b].label)
    BY DEF At
  <2> QED BY <1>1, <2>1, LabelsOfBlocks
<1>6. \A b \in 1..N : label(b).t = "label"
  BY DEF At
<1>7. /\ parts \in Seq(Seq(LineSet)) /\ Len(parts) = N /\ \A b \in 1..N : parts[b] = BlockLines(n, b)
  <2>1. parts \in [1..N -> Seq(LineSet)]
    BY <1>4
  <2> QED BY <1>1, <2>1
<1> HIDE DEF parts, blocks, front, label, N
<1>8. blocks \in Seq(LineSet) /\ \E o : HasParts(blocks, parts, o)
  BY <1>7, FlattenContains DEF blocks
<1>9. PICK o : HasParts(blocks, parts, o)
  BY <1>8
<1>10. \A b \in 1..N : /\ o[b] \in Nat
                      /\ \A k \in 1..Len(BlockLines(n, b)) :
                           o[b] + k \in 1..Len(blocks) /\ blocks[o[b] + k] = BlockLines(n, b)[k]
  <2> SUFFICES ASSUME NEW b \in 1..N
               PROVE  /\ o[b] \in Nat
                      /\ \A k \in 1..Len(BlockLines(n, b)) :
                           o[b] + k \in 1..Len(blocks) /\ blocks[o[b] + k] = BlockLines(n, b)[k]
    OBVIOUS
  <2>1. parts[b] = BlockLines(n, b) /\ b \in 1..Len(parts) /\ parts \in Seq(Seq(LineSet))
    BY <1>7
  <2>2. /\ o[b] \in Nat
        /\ \A k \in 1..Len(parts[b]) : o[b] + k \in 1..Len(blocks) /\ blocks[o[b] + k] = parts[b][k]
    BY <1>9, <2>1, PlaceOfPart
  <2> QED BY <2>1, <2>2, Zenon
<1>11. \A p \in 1..Len(blocks) :
         \E b \in 1..N : \E k \in 1..Len(BlockLines(n, b)) : p = o[b] + k /\ blocks[p] = BlockLines(n, b)[k]
  <2>1. \A p \in 1..Len(blocks) : IsOfPart(p, blocks, parts, o)
    <3>1. parts \in Seq(Seq(LineSet)) /\ HasParts(blocks, parts, o)
      BY <1>7, <1>9
    <3> QED BY <3>1, ElementOfPart
  <2> SUFFICES ASSUME NEW p \in 1..Len(blocks)
               PROVE  \E b \in 1..N : \E k \in 1..Len(BlockLines(n, b)) : p = o[b] + k /\ blocks[p] = BlockLines(n, b)[k]
    OBVIOUS
  <2>2. PICK b \in 1..Len(parts) : \E k \in 1..Len(parts[b]) : p = o[b] + k /\ blocks[p] = parts[b][k]
    BY <2>1 DEF IsOfPart
  <2>3. PICK k \in 1..Len(parts[b]) : p = o[b] + k /\ blocks[p] = parts[b][k]
    BY <2>2
  <2>4. b \in 1..N /\ parts[b] = BlockLines(n, b)
    BY <1>7
  <2> QED BY <2>3, <2>4
<1>12. \A p \in 1..Len(blocks) : blocks[p].t = "verdict" \/ \E b \in 1..N : p = o[b] + 1 /\ blocks[p] = label(b)
  <2> SUFFICES ASSUME NEW p \in 1..Len(blocks), blocks[p].t # "verdict"
               PROVE  \E b \in 1..N : p = o[b] + 1 /\ blocks[p] = label(b)
    OBVIOUS
  <2>1. PICK b \in 1..N : \E k \in 1..Len(BlockLines(n, b)) : p = o[b] + k /\ blocks[p] = BlockLines(n, b)[k]
    BY <1>11
  <2>2. PICK k \in 1..Len(BlockLines(n, b)) : p = o[b] + k /\ blocks[p] = BlockLines(n, b)[k]
    BY <2>1
  <2>3. k = 1
    BY <1>4, <2>2
  <2> QED BY <1>4, <2>2, <2>3
<1>13. \A b \in 1..N : /\ o[b] + 1 \in 1..Len(blocks)
                      /\ \A p \in 1..Len(blocks) : blocks[p] = label(b) <=> p = o[b] + 1
  <2> SUFFICES ASSUME NEW b \in 1..N
               PROVE  /\ o[b] + 1 \in 1..Len(blocks)
                      /\ \A p \in 1..Len(blocks) : blocks[p] = label(b) <=> p = o[b] + 1
    OBVIOUS
  <2>1. o[b] + 1 \in 1..Len(blocks) /\ blocks[o[b] + 1] = label(b)
    BY <1>4, <1>10
  <2>2. ASSUME NEW p \in 1..Len(blocks), blocks[p] = label(b) PROVE p = o[b] + 1
    <3>1. blocks[p].t # "verdict"
      BY <1>6, <2>2
    <3>2. PICK a \in 1..N : p = o[a] + 1 /\ blocks[p] = label(a)
      BY <1>12, <3>1
    <3>3. a = b
      BY <1>5, <2>2, <3>2
    <3> QED BY <3>2, <3>3
  <2> QED BY <2>1, <2>2
<1>14. /\ Section(n) \in Seq(LineSet) /\ Len(Section(n)) = 2 + Len(blocks) /\ Len(blocks) \in Nat
       /\ \A k \in 1..2 : Section(n)[k] = front[k]
       /\ \A k \in 1..Len(blocks) : Section(n)[2 + k] = blocks[k]
  <2>1. Len(blocks) \in Nat
    BY <1>8
  <2>2. /\ front \o blocks \in Seq(LineSet) /\ Len(front \o blocks) = Len(front) + Len(blocks)
        /\ \A k \in 1..Len(front) : (front \o blocks)[k] = front[k]
        /\ \A k \in 1..Len(blocks) : (front \o blocks)[Len(front) + k] = blocks[k]
    <3>1. front \in Seq(LineSet) /\ blocks \in Seq(LineSet)
      BY <1>3, <1>8
    <3> QED BY <3>1, JoinOne DEF Behind
  <2> QED BY <1>2, <1>3, <2>1, <2>2
<1>15. \A k \in 3..Len(Section(n)) : k - 2 \in 1..Len(blocks) /\ Section(n)[k] = blocks[k - 2]
  <2> SUFFICES ASSUME NEW k \in 3..Len(Section(n))
               PROVE  k - 2 \in 1..Len(blocks) /\ Section(n)[k] = blocks[k - 2]
    OBVIOUS
  <2>1. k - 2 \in 1..Len(blocks) /\ 2 + (k - 2) = k
    BY <1>14
  <2> QED BY <1>14, <2>1
<1>16. \A k \in 3..Len(Section(n)) : Section(n)[k].t = "verdict" \/ \E b \in 1..N : Section(n)[k] = label(b)
  BY <1>12, <1>15
<1>17. ASSUME NEW b \in 1..N
       PROVE  \E k \in 3..Len(Section(n)) :
                /\ \A j \in 3..Len(Section(n)) : Section(n)[j] = label(b) <=> j = k
                /\ checks[n].code[b].verdict # "none" =>
                     k + 1 \in 3..Len(Section(n)) /\ Section(n)[k + 1] = Ends(checks[n].code[b].verdict)
  <2> DEFINE k == 2 + (o[b] + 1)
  <2>1. k \in 3..Len(Section(n))
    BY <1>10, <1>13, <1>14
  <2>2. ASSUME NEW j \in 3..Len(Section(n)) PROVE Section(n)[j] = label(b) <=> j = k
    <3>1. Section(n)[j] = label(b) <=> j - 2 = o[b] + 1
      BY <1>13, <1>15
    <3>2. j - 2 = o[b] + 1 <=> j = k
      BY <1>10
    <3> QED BY <3>1, <3>2
  <2>3. ASSUME checks[n].code[b].verdict # "none"
        PROVE  k + 1 \in 3..Len(Section(n)) /\ Section(n)[k + 1] = Ends(checks[n].code[b].verdict)
    <3>1. Len(BlockLines(n, b)) = 2 /\ BlockLines(n, b)[2] = Ends(checks[n].code[b].verdict)
      BY <2>3, BlockLinesKnown DEF N
    <3>2. 2 \in 1..Len(BlockLines(n, b))
      BY <3>1
    <3>3. o[b] \in Nat /\ o[b] + 2 \in 1..Len(blocks) /\ blocks[o[b] + 2] = Ends(checks[n].code[b].verdict)
      BY <1>10, <3>1, <3>2
    <3>4. Section(n)[2 + (o[b] + 2)] = Ends(checks[n].code[b].verdict)
      BY <1>14, <3>3
    <3>5. k + 1 = 2 + (o[b] + 2) /\ 2 + (o[b] + 2) \in 3..(2 + Len(blocks))
      <4>1. \A x, y \in Nat : x + 2 \in 1..y =>
              (2 + (x + 1)) + 1 = 2 + (x + 2) /\ 2 + (x + 2) \in 3..(2 + y)
        OBVIOUS
      <4> QED BY <1>14, <3>3, <4>1, Zenon
    <3> QED BY <1>14, <3>4, <3>5, Zenon
  <2> HIDE DEF k
  <2> QED BY <2>1, <2>2, <2>3
<1> QED BY <1>3, <1>14, <1>16, <1>17 DEF N, label

(* A check without code for the tracer has no section.                     *)
LEMMA NoSection ==
  ASSUME policy \in Policies, NEW n \in 1..Len(checks), Len(checks[n].code) = 0
  PROVE  Section(n) = <<>>
<1>1. checks[n].code = <<>>
  BY CheckKnown
<1> QED BY <1>1 DEF Section

-----------------------------------------------------------------------------
(* The tracer *)

(* With one check per call, labels tell checks apart.                      *)
LEMMA LabelsOfChecks ==
  ASSUME policy \in Policies, Distinct, NEW n \in 1..Len(checks), NEW i \in 1..Len(checks)
  PROVE  /\ checks[n].syscall = checks[i].syscall => n = i
         /\ StartOf(checks[n].syscall) = StartOf(checks[i].syscall) => n = i
         /\ \A l, m \in Nat : BlockLabel(n, l) = BlockLabel(i, m) => n = i
<1>1. checks[n].syscall = checks[i].syscall => n = i
  <2> SUFFICES ASSUME checks[n].syscall = checks[i].syscall, n # i PROVE FALSE
    OBVIOUS
  <2> DEFINE s == checks[n].syscall
             C == ChecksOf(s)
  <2>1. s \in Numbers /\ DOMAIN checks = 1..Len(checks) /\ Len(checks) \in Nat
    BY CheckKnown, ChecksKnown
  <2>2. n \in C /\ i \in C /\ C \subseteq 1..Len(checks)
    BY <2>1 DEF ChecksOf
  <2>3. Cardinality(C) <= 1
    BY <2>1 DEF Distinct
  <2> HIDE DEF C
  <2>4. IsFiniteSet(C) /\ Cardinality(C) \in Nat
    <3>1. IsFiniteSet(1..Len(checks))
      BY <2>1, FS_Interval
    <3>2. IsFiniteSet(C)
      BY <2>2, <3>1, FS_Subset
    <3> QED BY <3>2, FS_CardinalityType
  <2>5. IsFiniteSet(C \ {n}) /\ Cardinality(C \ {n}) = Cardinality(C) - 1
    BY <2>2, <2>4, FS_RemoveElement
  <2>6. C \ {n} = {}
    <3>1. Cardinality(C \ {n}) \in Nat
      BY <2>5, FS_CardinalityType
    <3>2. Cardinality(C \ {n}) = 0
      BY <2>3, <2>4, <2>5, <3>1
    <3> QED BY <2>5, <3>2, FS_EmptySet
  <2> QED BY <2>2, <2>6
<1> QED BY <1>1 DEF StartOf, BlockLabel, Name, Local

(* In the lines w the label of check n's prologue and that of its block b  *)
(* stand once, in this order, with one jump through the table between, and *)
(* the verdict of the block, if it has one, behind its label.              *)
InPlace(w, n, b) ==
  /\ Len(w) \in Nat /\ DOMAIN w = 1..Len(w)
  /\ \E s, p \in 1..Len(w) :
       /\ s + 1 <= p /\ s + 1 \in 1..Len(w)
       /\ \A q \in 1..Len(w) : w[q] = At(StartOf(checks[n].syscall)) <=> q = s
       /\ \A q \in 1..Len(w) : w[q] = At(BlockLabel(n, checks[n].code[b].label)) <=> q = p
       /\ \A q \in s..p : w[q] = Dispatch <=> q = s + 1
       /\ checks[n].code[b].verdict # "none" =>
            p + 1 \in 1..Len(w) /\ w[p + 1] = Ends(checks[n].code[b].verdict)

(* So they do in the tracer, which is made of all sections.                *)
LEMMA TracerKnown ==
  ASSUME policy \in Policies, Distinct, NEW n \in 1..Len(checks), NEW b \in 1..Len(checks[n].code)
  PROVE  InPlace(FlattenSeq([i \in DOMAIN checks |-> Section(i)]), n, b)
<1> DEFINE N == Len(checks)
           parts == [i \in 1..N |-> Section(i)]
           w == FlattenSeq(parts)
           start == At(StartOf(checks[n].syscall))
           block == At(BlockLabel(n, checks[n].code[b].label))
<1>1. /\ N \in Nat /\ DOMAIN checks = 1..N
      /\ Len(checks[n].code) # 0 /\ checks[n].code[b].label \in Nat
  BY CheckKnown, ChecksKnown DEF Blocks
<1>2. \A i \in 1..N : Section(i) \in Seq(LineSet) /\ (Len(checks[i].code) = 0 => Section(i) = <<>>)
  <2> SUFFICES ASSUME NEW i \in 1..N
               PROVE  Section(i) \in Seq(LineSet) /\ (Len(checks[i].code) = 0 => Section(i) = <<>>)
    OBVIOUS
  <2>1. CASE Len(checks[i].code) = 0
    BY <2>1, NoSection, EmptySeq
  <2>2. CASE Len(checks[i].code) # 0
    BY <2>2, SectionKnown
  <2> QED BY <2>1, <2>2
<1>3. parts \in Seq(Seq(LineSet)) /\ Len(parts) = N /\ \A i \in 1..N : parts[i] = Section(i)
  <2>1. parts \in [1..N -> Seq(LineSet)]
    BY <1>2
  <2> QED BY <1>1, <2>1
<1>4. w = FlattenSeq([i \in DOMAIN checks |-> Section(i)])
  BY <1>1
<1> HIDE DEF parts, N, start, block, w
<1>5. w \in Seq(LineSet) /\ \E o : HasParts(w, parts, o)
  BY <1>3, FlattenContains DEF w
<1>6. PICK o : HasParts(w, parts, o)
  BY <1>5
<1>7. Len(w) \in Nat /\ DOMAIN w = 1..Len(w)
  BY <1>5
<1>8. \A p \in 1..Len(w) : \E i \in 1..N : \E k \in 1..Len(Section(i)) : p = o[i] + k /\ w[p] = Section(i)[k]
  <2>1. \A p \in 1..Len(w) : IsOfPart(p, w, parts, o)
    <3>1. parts \in Seq(Seq(LineSet)) /\ HasParts(w, parts, o)
      BY <1>3, <1>6
    <3> QED BY <3>1, ElementOfPart
  <2> SUFFICES ASSUME NEW p \in 1..Len(w)
               PROVE  \E i \in 1..N : \E k \in 1..Len(Section(i)) : p = o[i] + k /\ w[p] = Section(i)[k]
    OBVIOUS
  <2>2. PICK i \in 1..Len(parts) : \E k \in 1..Len(parts[i]) : p = o[i] + k /\ w[p] = parts[i][k]
    BY <2>1 DEF IsOfPart
  <2>3. PICK k \in 1..Len(parts[i]) : p = o[i] + k /\ w[p] = parts[i][k]
    BY <2>2
  <2>4. i \in 1..N /\ parts[i] = Section(i)
    BY <1>3
  <2> QED BY <2>3, <2>4
<1>9. /\ o[n] \in Nat
      /\ \A k \in 1..Len(Section(n)) : o[n] + k \in 1..Len(w) /\ w[o[n] + k] = Section(n)[k]
  <2>1. n \in 1..Len(parts) /\ parts[n] = Section(n)
    BY <1>3 DEF N
  <2>2. parts \in Seq(Seq(LineSet)) /\ HasParts(w, parts, o)
    BY <1>3, <1>6
  <2>3. /\ o[n] \in Nat
        /\ \A k \in 1..Len(parts[n]) : o[n] + k \in 1..Len(w) /\ w[o[n] + k] = parts[n][k]
    BY <2>1, <2>2, PlaceOfPart
  <2> QED BY <2>1, <2>3
<1>10. ASSUME NEW i \in 1..N, NEW k \in 1..Len(Section(i))
       PROVE  /\ Section(i)[k] = start <=> i = n /\ k = 1
              /\ k <= 2 => Section(i)[k] # block
              /\ Section(i)[k] = block => i = n
              /\ Section(i)[k] = Dispatch <=> k = 2
  <2> DEFINE y == Section(i)[k]
  <2>1. Len(checks[i].code) # 0
    BY <1>2, <1>10
  <2>2. i \in 1..Len(checks) /\ Len(Section(i)) \in Nat
    BY <1>2 DEF N
  <2>3. start.t = "label" /\ block.t = "label" /\ Dispatch.t = "dispatch"
        /\ start.label = StartOf(checks[n].syscall) /\ block.label = BlockLabel(n, checks[n].code[b].label)
    BY DEF start, block, At, Dispatch
  <2>4. start # block
    <3>1. start.label[1] = "start" /\ block.label[1] # "start"
      BY <1>1, <2>3, LabelsKnown
    <3> QED BY <3>1
  <2>5. CASE k = 1
    <3>1. y = At(StartOf(checks[i].syscall))
      BY <2>1, <2>2, <2>5, SectionKnown
    <3>2. y.t = "label" /\ y.label = StartOf(checks[i].syscall)
      BY <3>1 DEF At
    <3>3. y.label[1] = "start" /\ block.label[1] # "start"
      <4>1. StartOf(checks[i].syscall)[1] = "start"
        BY DEF StartOf
      <4>2. BlockLabel(n, checks[n].code[b].label)[1] # "start"
        BY <1>1, LabelsKnown
      <4> QED BY <2>3, <3>2, <4>1, <4>2
    <3>4. y = start <=> i = n
      <4>1. y = start => i = n
        BY <2>2, <2>3, <3>2, LabelsOfChecks
      <4>2. i = n => y = start
        BY <3>1 DEF start
      <4> QED BY <4>1, <4>2
    <3>5. y # block /\ y # Dispatch
      BY <2>3, <3>2, <3>3
    <3> QED BY <2>5, <3>4, <3>5
  <2>6. CASE k = 2
    <3>1. y = Dispatch
      BY <2>1, <2>2, <2>6, SectionKnown
    <3> QED BY <2>3, <2>6, <3>1
  <2>7. CASE k # 1 /\ k # 2
    <3>1. k \in 3..Len(Section(i))
      BY <2>2, <2>7
    <3>2. y.t = "verdict" \/ \E a \in 1..Len(checks[i].code) : y = At(BlockLabel(i, checks[i].code[a].label))
      BY <2>1, <2>2, <3>1, SectionKnown
    <3>3. CASE y.t = "verdict"
      BY <2>3, <2>7, <3>1, <3>3
    <3>4. CASE \E a \in 1..Len(checks[i].code) : y = At(BlockLabel(i, checks[i].code[a].label))
      <4>1. PICK a \in 1..Len(checks[i].code) : y = At(BlockLabel(i, checks[i].code[a].label))
        BY <3>4
      <4>2. checks[i].code[a].label \in Nat
        <5>1. checks[i].code[a] \in Blocks
          BY <2>2, CheckKnown
        <5> QED BY <5>1 DEF Blocks
      <4>3. y.t = "label" /\ y.label = BlockLabel(i, checks[i].code[a].label)
        BY <4>1 DEF At
      <4>4. y # start /\ y # Dispatch
        <5>1. BlockLabel(i, checks[i].code[a].label)[1] # "start"
          BY <2>2, <4>2, LabelsKnown
        <5>2. StartOf(checks[n].syscall)[1] = "start"
          BY DEF StartOf
        <5> QED BY <2>3, <4>3, <5>1, <5>2
      <4>5. y = block => i = n
        BY <1>1, <2>2, <2>3, <4>2, <4>3, LabelsOfChecks
      <4> QED BY <2>7, <3>1, <4>4, <4>5
    <3> QED BY <3>2, <3>3, <3>4
  <2> QED BY <2>5, <2>6, <2>7
<1>11. PICK k \in 3..Len(Section(n)) :
          /\ \A j \in 3..Len(Section(n)) : Section(n)[j] = block <=> j = k
          /\ checks[n].code[b].verdict # "none" =>
               k + 1 \in 3..Len(Section(n)) /\ Section(n)[k + 1] = Ends(checks[n].code[b].verdict)
  BY <1>1, SectionKnown DEF block
<1>12. Len(Section(n)) \in Nat /\ k \in 1..Len(Section(n)) /\ 1 \in 1..Len(Section(n)) /\ 2 \in 1..Len(Section(n))
       /\ n \in 1..N
  BY <1>1, <1>11, SectionKnown DEF N
<1> DEFINE s == o[n] + 1
           p == o[n] + k
<1>13. s \in 1..Len(w) /\ p \in 1..Len(w) /\ s + 1 <= p /\ s + 1 \in 1..Len(w)
  <2>1. s + 1 = o[n] + 2
    BY <1>9
  <2> QED BY <1>9, <1>11, <1>12, <2>1
<1>14. \A q \in 1..Len(w) : w[q] = start <=> q = s
  <2>1. w[s] = start
    BY <1>9, <1>10, <1>12
  <2>2. ASSUME NEW q \in 1..Len(w), w[q] = start PROVE q = s
    <3>1. PICK i \in 1..N : \E j \in 1..Len(Section(i)) : q = o[i] + j /\ w[q] = Section(i)[j]
      BY <1>8
    <3>2. PICK j \in 1..Len(Section(i)) : q = o[i] + j /\ w[q] = Section(i)[j]
      BY <3>1
    <3>3. i = n /\ j = 1
      BY <1>10, <2>2, <3>2
    <3> QED BY <3>2, <3>3
  <2> QED BY <2>1, <2>2
<1>15. \A q \in 1..Len(w) : w[q] = block <=> q = p
  <2>1. w[p] = block
    BY <1>9, <1>11, <1>12
  <2>2. ASSUME NEW q \in 1..Len(w), w[q] = block PROVE q = p
    <3>1. PICK i \in 1..N : \E j \in 1..Len(Section(i)) : q = o[i] + j /\ w[q] = Section(i)[j]
      BY <1>8
    <3>2. PICK j \in 1..Len(Section(i)) : q = o[i] + j /\ w[q] = Section(i)[j]
      BY <3>1
    <3>3. i = n /\ ~(j <= 2)
      BY <1>10, <2>2, <3>2
    <3>4. j \in 3..Len(Section(n)) /\ Section(n)[j] = block
      BY <1>12, <2>2, <3>2, <3>3
    <3>5. j = k
      BY <1>11, <3>4
    <3> QED BY <3>2, <3>3, <3>5
  <2> QED BY <2>1, <2>2
<1>16. \A q \in s..p : w[q] = Dispatch <=> q = s + 1
  <2> SUFFICES ASSUME NEW q \in s..p PROVE w[q] = Dispatch <=> q = s + 1
    OBVIOUS
  <2> DEFINE j == q - o[n]
  <2>0. o[n] \in Nat /\ k \in Nat /\ k <= Len(Section(n)) /\ q \in (o[n] + 1)..(o[n] + k)
    BY <1>9, <1>12
  <2>1. j \in 1..Len(Section(n)) /\ q = o[n] + j /\ (q = s + 1 <=> j = 2)
    <3>1. PICK a, l : a = o[n] /\ l = Len(Section(n))
      OBVIOUS
    <3>2. a \in Nat /\ l \in Nat /\ k <= l /\ q \in (a + 1)..(a + k)
      BY <2>0, <1>12, <3>1
    <3>3. q - a \in 1..l /\ q = a + (q - a) /\ (q = (a + 1) + 1 <=> q - a = 2)
      BY <2>0, <3>2
    <3> QED BY <3>1, <3>3
  <2> HIDE DEF j
  <2>2. w[q] = Section(n)[j]
    BY <1>9, <2>1
  <2> QED BY <1>10, <1>12, <2>1, <2>2
<1>17. ASSUME checks[n].code[b].verdict # "none"
       PROVE  p + 1 \in 1..Len(w) /\ w[p + 1] = Ends(checks[n].code[b].verdict)
  <2>1. k + 1 \in 1..Len(Section(n)) /\ Section(n)[k + 1] = Ends(checks[n].code[b].verdict)
    BY <1>11, <1>12, <1>17
  <2>2. p + 1 = o[n] + (k + 1)
    <3>1. o[n] \in Nat /\ k \in Nat
      BY <1>9, <1>12
    <3> QED BY <3>1
  <2> QED BY <1>9, <2>1, <2>2, Zenon
<1> HIDE DEF s, p
<1>18. InPlace(w, n, b)
  BY <1>7, <1>13, <1>14, <1>15, <1>16, <1>17 DEF InPlace, start, block
<1> QED BY <1>4, <1>18

-----------------------------------------------------------------------------
(* Theorems *)

(* IInv is an inductive invariant of the assembly, whatever policies there *)
(* are: neither more checks nor longer ones change how data are counted.   *)
THEOREM InductiveInvariant == Spec => []IInv
<1>1. ASSUME IInv, [Next]_vars PROVE IInv'
  BY <1>1, CodeGenStep, FilterStep, PtraceStep, StutterStep DEF Next
<1> QED BY InitInvariant, <1>1, PTL DEF Spec

(* Where every datum of a finished compilation leads.                      *)
LEMMA DatumKnown ==
  ASSUME IInv, stage = "done", NEW d \in 1..Len(ret_data_to_label)
  PROVE  /\ HasPtrace
         /\ \E n \in 1..Len(checks) : \E b \in 1..Len(checks[n].code) :
              /\ jmp_table[d] = BlockLabel(n, checks[n].code[b].label)
              /\ start_table[d] = StartOf(checks[n].syscall)
<1>1. policy \in Policies /\ Len(bpf_filters) \in Nat /\ Len(bpf_filters) <= Len(checks)
      /\ Len(ret_data_to_label) \in Nat /\ DOMAIN ret_data_to_label = 1..Len(ret_data_to_label)
  BY DEF IInv, TypeInv
<1>2. PICK n \in 1..Len(bpf_filters) : \E m \in Handovers(n) : LeadsTo(d - 1, n, m)
  BY DEF IInv, DataInv
<1>3. PICK m \in Handovers(n) : LeadsTo(d - 1, n, m)
  BY <1>2
<1>4. n \in 1..Len(checks) /\ n \in Nat
  BY <1>1, ChecksKnown
<1>5. HasPtrace /\ Body(n)[m].label \in Nat
  BY <1>1, <1>4, HandoverKnown
<1>6. PICK b \in 1..Len(checks[n].code) : Body(n)[m].label = checks[n].code[b].label
  BY <1>1, <1>4, HandoverKnown
<1>7. ret_data_to_label[d] = BlockLabel(n, Body(n)[m].label)
  <2>1. (d - 1) + 1 = d
    OBVIOUS
  <2> QED BY <1>3, <2>1 DEF LeadsTo
<1>8. jmp_table = ret_data_to_label /\ start_table = StartTable(ret_data_to_label)
  BY <1>5 DEF IInv, TableInv
<1>9. start_table[d] = StartLabel(BlockLabel(n, Body(n)[m].label))
  BY <1>1, <1>7, <1>8 DEF StartTable
<1>10. StartLabel(BlockLabel(n, Body(n)[m].label)) = StartOf(checks[n].syscall)
  BY DEF StartLabel, BlockLabel, Name, Local
<1> QED BY <1>4, <1>5, <1>6, <1>7, <1>8, <1>9, <1>10

(* What the filter returns for a check, both tables know, and they lead to *)
(* labels that stand once in the tracer, the prologue of that check before *)
(* the block, with one jump through the table between them.                *)
THEOREM HandoversFindTheirSectionCorrect == Spec => []HandoversFindTheirSection
<1>1. ASSUME IInv PROVE HandoversFindTheirSection
  <2> SUFFICES ASSUME stage = "done", Distinct
      PROVE /\ \A n \in DOMAIN bpf_filters : \A m \in DOMAIN bpf_filters[n] :
                 bpf_filters[n][m].f = "trace" =>
                   /\ bpf_filters[n][m].data + 1 \in DOMAIN jmp_table
                   /\ start_table[bpf_filters[n][m].data + 1] = StartOf(checks[n].syscall)
            /\ \A d \in DOMAIN jmp_table :
                 /\ Cardinality(Lines(jmp_table[d])) = 1 /\ Cardinality(Lines(start_table[d])) = 1
                 /\ \A s \in Lines(start_table[d]), b \in Lines(jmp_table[d]) :
                      /\ s < b
                      /\ Cardinality({m \in s..b : tracer[m] = Dispatch}) = 1
    BY DEF HandoversFindTheirSection
  <2>1. /\ policy \in Policies /\ Len(bpf_filters) \in Nat /\ Len(bpf_filters) <= Len(checks)
        /\ bpf_filters \in Seq(Seq(Instructions)) /\ DOMAIN bpf_filters = 1..Len(bpf_filters)
        /\ Len(ret_data_to_label) \in Nat /\ DOMAIN ret_data_to_label = 1..Len(ret_data_to_label)
    BY <1>1 DEF IInv, TypeInv
  <2>2. ASSUME NEW n \in DOMAIN bpf_filters, NEW p \in DOMAIN bpf_filters[n], bpf_filters[n][p].f = "trace"
        PROVE  /\ bpf_filters[n][p].data + 1 \in DOMAIN jmp_table
               /\ start_table[bpf_filters[n][p].data + 1] = StartOf(checks[n].syscall)
    <3>1. n \in 1..Len(bpf_filters) /\ n \in 1..Len(checks)
      BY <2>1, ChecksKnown
    <3>2. PICK first \in Nat : NumberedFrom(first, n)
      BY <1>1, <3>1 DEF IInv, FiltersInv
    <3> DEFINE G == [m \in DOMAIN Body(n) |-> Generated(first, n, m)]
    <3>3. G \in Seq(Seq(Instructions)) /\ Len(G) = Len(Body(n)) /\ \A m \in 1..Len(G) : G[m] = Generated(first, n, m)
      BY <2>1, <3>1, BodyGenerated
    <3>4. bpf_filters[n] = FlattenSeq(G)
      BY <3>2 DEF NumberedFrom
    <3> HIDE DEF G
    <3>5. FlattenSeq(G) \in Seq(Instructions) /\ \E o : HasParts(FlattenSeq(G), G, o)
      BY <3>3, FlattenContains
    <3>6. PICK o : HasParts(FlattenSeq(G), G, o)
      BY <3>5
    <3>7. p \in 1..Len(FlattenSeq(G))
      BY <3>4, <3>5
    <3>8. IsOfPart(p, FlattenSeq(G), G, o)
      BY <3>3, <3>6, <3>7, ElementOfPart
    <3>9. PICK m \in 1..Len(G) : \E k \in 1..Len(G[m]) : FlattenSeq(G)[p] = G[m][k]
      BY <3>8 DEF IsOfPart
    <3>10. PICK k \in 1..Len(G[m]) : FlattenSeq(G)[p] = G[m][k]
      BY <3>9
    <3>11. G[m] = Generated(first, n, m) /\ m \in 1..Len(Body(n))
      BY <3>3
    <3>12. m \in Handovers(n) /\ bpf_filters[n][p].data = first + Cardinality(Traces(n, m))
      <4>1. bpf_filters[n][p] = Generated(first, n, m)[k] /\ k \in 1..Len(Generated(first, n, m))
        BY <3>4, <3>10, <3>11
      <4>2. Generated(first, n, m)[k].f = "trace"
        BY <2>2, <4>1
      <4> QED BY <2>1, <3>1, <3>11, <4>1, <4>2, GeneratedKnown
    <3>13. LeadsTo(bpf_filters[n][p].data, n, m)
      BY <3>2, <3>12 DEF NumberedFrom
    <3> DEFINE d == bpf_filters[n][p].data + 1
    <3>14. d \in DOMAIN ret_data_to_label /\ ret_data_to_label[d] = BlockLabel(n, Body(n)[m].label)
      BY <2>1, <3>13 DEF LeadsTo
    <3>15. jmp_table = ret_data_to_label /\ start_table = StartTable(ret_data_to_label)
      BY <1>1, <2>1, <3>1, <3>12, HandoverKnown DEF IInv, TableInv
    <3>16. start_table[d] = StartLabel(BlockLabel(n, Body(n)[m].label))
      BY <3>14, <3>15 DEF StartTable
    <3>17. StartLabel(BlockLabel(n, Body(n)[m].label)) = StartOf(checks[n].syscall)
      BY DEF StartLabel, BlockLabel, Name, Local
    <3> QED BY <3>14, <3>15, <3>16, <3>17
  <2>3. ASSUME NEW d \in DOMAIN jmp_table
        PROVE  /\ Cardinality(Lines(jmp_table[d])) = 1 /\ Cardinality(Lines(start_table[d])) = 1
               /\ \A s \in Lines(start_table[d]), b \in Lines(jmp_table[d]) :
                    /\ s < b
                    /\ Cardinality({m \in s..b : tracer[m] = Dispatch}) = 1
    <3>1. HasPtrace /\ d \in 1..Len(ret_data_to_label)
      <4>1. HasPtrace
        BY <1>1, <2>3 DEF IInv, TableInv
      <4> QED BY <1>1, <2>1, <2>3, <4>1 DEF IInv, TableInv
    <3>2. tracer = FlattenSeq([n \in DOMAIN checks |-> Section(n)])
      BY <1>1, <3>1 DEF IInv, TableInv
    <3>3. PICK n \in 1..Len(checks) : \E b \in 1..Len(checks[n].code) :
            /\ jmp_table[d] = BlockLabel(n, checks[n].code[b].label)
            /\ start_table[d] = StartOf(checks[n].syscall)
      BY <1>1, <3>1, DatumKnown
    <3>4. PICK b \in 1..Len(checks[n].code) :
            /\ jmp_table[d] = BlockLabel(n, checks[n].code[b].label)
            /\ start_table[d] = StartOf(checks[n].syscall)
      BY <3>3
    <3>5. InPlace(tracer, n, b)
      BY <2>1, <2>3, <3>2, <3>4, TracerKnown
    <3>6. PICK s, p \in 1..Len(tracer) :
              /\ s + 1 <= p /\ s + 1 \in 1..Len(tracer)
              /\ \A q \in 1..Len(tracer) : tracer[q] = At(StartOf(checks[n].syscall)) <=> q = s
              /\ \A q \in 1..Len(tracer) : tracer[q] = At(BlockLabel(n, checks[n].code[b].label)) <=> q = p
              /\ \A q \in s..p : tracer[q] = Dispatch <=> q = s + 1
      BY <3>5, Zenon DEF InPlace
    <3>7. Lines(start_table[d]) = {s} /\ Lines(jmp_table[d]) = {p}
      <4>1. DOMAIN tracer = 1..Len(tracer)
        BY <3>5 DEF InPlace
      <4>2. Lines(start_table[d]) = {s}
        BY <3>4, <3>6, <4>1 DEF Lines
      <4>3. Lines(jmp_table[d]) = {p}
        BY <3>4, <3>6, <4>1 DEF Lines
      <4> QED BY <4>2, <4>3
    <3>8. s < p /\ {m \in s..p : tracer[m] = Dispatch} = {s + 1}
      BY <3>6
    <3>9. Cardinality({s}) = 1 /\ Cardinality({p}) = 1 /\ Cardinality({s + 1}) = 1
      BY FS_Singleton
    <3> QED BY <3>7, <3>8, <3>9
  <2> QED BY <2>2, <2>3
<1> QED BY InductiveInvariant, <1>1, PTL


-----------------------------------------------------------------------------
(* Runs *)

(* g is a run over the states S, that ends with val in one of ends.        *)
IsRun(g, S, ends, val, succ) == g = [s \in S |-> IF s \in ends THEN val[s] ELSE g[succ[s]]]

(* A run that goes on from each state to one of lower rank, until it ends, *)
(* has a result: the recursive definition of the result is a function.     *)
LEMMA RunExists ==
  ASSUME NEW S, NEW K \in Nat, NEW rank \in [S -> 0..K], NEW ends, NEW val, NEW succ,
         \A s \in S : s \notin ends => succ[s] \in S /\ rank[succ[s]] < rank[s]
  PROVE  \E g : IsRun(g, S, ends, val, succ)
<1> DEFINE Good(h, k) == h = [s \in S |-> h[s]] /\ \A s \in S : rank[s] < k => h[s] = IF s \in ends THEN val[s] ELSE h[succ[s]]
           Bad == {k \in Nat : ~\E h : Good(h, k)}
<1>1. Bad = {}
  <2> SUFFICES ASSUME Bad # {} PROVE FALSE
    OBVIOUS
  <2>1. PICK k \in Bad : \A j \in Bad : k <= j
    <3>1. Bad \subseteq Nat
      OBVIOUS
    <3> HIDE DEF Bad
    <3> QED BY <3>1, Least
  <2>0. k \in Nat
    BY <2>1
  <2>2. CASE k = 0
    <3> DEFINE h == [s \in S |-> 0]
    <3>1. h = [s \in S |-> h[s]] /\ \A s \in S : ~(rank[s] < 0)
      OBVIOUS
    <3>2. Good(h, 0)
      BY <3>1
    <3> QED BY <2>1, <2>2, <3>2
  <2>3. CASE k # 0
    <3>1. k - 1 \in Nat /\ k - 1 \notin Bad
      BY <2>1, <2>3
    <3>2. PICK h : Good(h, k - 1)
      BY <3>1
    <3> DEFINE f == [s \in S |-> IF rank[s] = k - 1 /\ s \notin ends THEN h[succ[s]]
                                 ELSE IF rank[s] = k - 1 THEN val[s] ELSE h[s]]
    <3>3. ASSUME NEW s \in S, rank[s] < k
          PROVE  f[s] = IF s \in ends THEN val[s] ELSE f[succ[s]]
      <4>0. rank[s] \in 0..K
        OBVIOUS
      <4>1. rank[s] \in 0..K /\ (rank[s] = k - 1 \/ rank[s] < k - 1)
        BY <4>0, <2>0, <3>3
      <4>2. s \notin ends => succ[s] \in S /\ rank[succ[s]] \in 0..K /\ rank[succ[s]] < rank[s]
        OBVIOUS
      <4>3. s \notin ends => f[succ[s]] = h[succ[s]]
        BY <2>1, <4>1, <4>2
      <4>4. CASE rank[s] = k - 1
        BY <4>3, <4>4
      <4>5. CASE rank[s] < k - 1
        <5>1. f[s] = h[s] /\ h[s] = IF s \in ends THEN val[s] ELSE h[succ[s]]
          BY <2>1, <3>2, <4>1, <4>5
        <5> QED BY <4>3, <5>1
      <4> QED BY <4>1, <4>4, <4>5
    <3>4. f = [s \in S |-> f[s]]
      OBVIOUS
    <3> HIDE DEF f
    <3>5. Good(f, k)
      BY <3>3, <3>4
    <3> QED BY <2>1, <3>5
  <2> QED BY <2>2, <2>3
<1>2. PICK g : Good(g, K + 1)
  <2>1. K + 1 \in Nat
    OBVIOUS
  <2> QED BY <1>1, <2>1
<1>3. \A s \in S : g[s] = IF s \in ends THEN val[s] ELSE g[succ[s]]
  BY <1>2
<1>4. g = [s \in S |-> g[s]]
  BY <1>2
<1>5. [s \in S |-> g[s]] = [s \in S |-> IF s \in ends THEN val[s] ELSE g[succ[s]]]
  BY <1>3
<1>6. g = [s \in S |-> IF s \in ends THEN val[s] ELSE g[succ[s]]]
  BY <1>4, <1>5
<1> QED BY <1>6 DEF IsRun

-----------------------------------------------------------------------------
(* The machine *)

(* Instructions with offsets, and what they lead from and to.              *)
Machine ==
  [f : {"ld"}, what : {"arch", "nr", "arg"}]
    \cup [f : {"and"}]
    \cup [f : {"jump"}, test : {"arch", "jgt", "jeq"}, k : Nat, jt : Nat, jf : Nat]
    \cup [f : {"ret"}, verdict : Verdicts]
    \cup [f : {"trace"}, data : Nat]

(* The instructions that answer.                                           *)
Stops(f) == f.f \in {"ret", "trace"}

(* What is loaded is a number.                                             *)
LEMMA LoadedType ==
  ASSUME NEW call \in Calls, NEW what \in {"arch", "nr", "arg"}
  PROVE  Loaded(what, call) \in Nat /\ X32Bit \in Nat \ {0}
<1>1. call.nr \in Numbers /\ call.arg \in Args
  BY DEF Calls
<1>2. X32Bit \in Nat /\ call.nr \in 0..(X32Bit - 1) /\ call.arg \in Nat
  BY <1>1, AssemblyAssumption
<1>3. call.nr \in Nat /\ X32Bit \in Nat \ {0}
  BY <1>2
<1> QED BY <1>2, <1>3 DEF Loaded

(* Every instruction that does not end the run leads on.                   *)
LEMMA StepForward ==
  ASSUME final_filters \in Seq(Machine), NEW call \in Calls, NEW pc \in DOMAIN final_filters, NEW A \in Nat,
         ~Stops(final_filters[pc])
  PROVE  \E next \in Nat, B \in Nat : Step(call, pc, A) = <<next, B>> /\ pc < next
<1> DEFINE f == final_filters[pc]
<1>1. f \in Machine /\ pc \in Nat
  OBVIOUS
<1>2. Step(call, pc, A) = CASE f.f = "ld" -> <<pc + 1, Loaded(f.what, call)>>
        [] f.f = "and" -> <<pc + 1, A % X32Bit>>
        [] f.f = "jump" -> <<pc + 1 + (IF Passes(f, A) THEN f.jt ELSE f.jf), A>>
  BY DEF Step
<1>3. f.f \notin {"ret", "trace"}
  BY DEF Stops
<1> HIDE DEF f
<1>4. CASE f.f = "ld"
  <2>1. Loaded(f.what, call) \in Nat
    BY <1>1, <1>4, LoadedType DEF Machine
  <2>2. Step(call, pc, A) = <<pc + 1, Loaded(f.what, call)>>
    BY <1>2, <1>4
  <2> QED BY <1>1, <2>1, <2>2
<1>5. CASE f.f = "and"
  <2>1. A % X32Bit \in Nat
    <3>1. X32Bit \in Nat \ {0}
      BY LoadedType
    <3> QED BY <3>1
  <2>2. Step(call, pc, A) = <<pc + 1, A % X32Bit>>
    BY <1>2, <1>5
  <2> QED BY <1>1, <2>1, <2>2
<1>6. CASE f.f = "jump"
  <2> DEFINE d == IF Passes(f, A) THEN f.jt ELSE f.jf
  <2>1. d \in Nat
    BY <1>1, <1>6 DEF Machine
  <2>2. Step(call, pc, A) = <<pc + 1 + d, A>>
    BY <1>2, <1>6
  <2> HIDE DEF d
  <2> QED BY <1>1, <2>1, <2>2
<1>7. f.f \in {"ld", "and", "jump"}
  BY <1>1, <1>3 DEF Machine
<1> QED BY <1>4, <1>5, <1>6, <1>7

(* A run of the filter, one instruction after the other.                   *)
LEMMA FilterRunIs ==
  ASSUME final_filters \in Seq(Machine), NEW call \in Calls, NEW pc \in Nat, NEW A \in Nat
  PROVE  FilterRun(call)[<<pc, A>>] =
           IF pc \notin DOMAIN final_filters THEN Ret("refused")
           ELSE IF Stops(final_filters[pc]) THEN final_filters[pc]
           ELSE FilterRun(call)[Step(call, pc, A)]
<1> DEFINE S == Nat \X Nat
           N == Len(final_filters)
           rank == [s \in S |-> IF s[1] <= N THEN (N + 1) - s[1] ELSE 0]
           ends == {s \in S : s[1] \notin DOMAIN final_filters \/ Stops(final_filters[s[1]])}
           val == [s \in S |-> IF s[1] \notin DOMAIN final_filters THEN Ret("refused") ELSE final_filters[s[1]]]
           succ == [s \in S |-> Step(call, s[1], s[2])]
           Runs(g) == g = [s \in S |->
             IF s[1] \notin DOMAIN final_filters THEN Ret("refused")
             ELSE IF final_filters[s[1]].f \in {"ret", "trace"} THEN final_filters[s[1]]
             ELSE g[Step(call, s[1], s[2])]]
<1>1. N \in Nat /\ DOMAIN final_filters = 1..N
  OBVIOUS
<1>2. rank \in [S -> 0..(N + 1)]
  <2> SUFFICES ASSUME NEW s \in S PROVE (IF s[1] <= N THEN (N + 1) - s[1] ELSE 0) \in 0..(N + 1)
    OBVIOUS
  <2>1. s[1] \in Nat
    OBVIOUS
  <2> HIDE DEF N
  <2> QED BY <1>1, <2>1
<1>3. ASSUME NEW s \in S, s \notin ends
      PROVE  succ[s] \in S /\ rank[succ[s]] < rank[s]
  <2>1. s[1] \in DOMAIN final_filters /\ ~Stops(final_filters[s[1]]) /\ s[1] \in Nat /\ s[2] \in Nat
    BY <1>3
  <2>2. PICK next \in Nat, B \in Nat : Step(call, s[1], s[2]) = <<next, B>> /\ s[1] < next
    BY <2>1, StepForward
  <2>3. succ[s] = <<next, B>> /\ <<next, B>> \in S
    BY <2>2
  <2>4. rank[s] = (N + 1) - s[1] /\ rank[<<next, B>>] = IF next <= N THEN (N + 1) - next ELSE 0
    BY <1>1, <2>1, <2>3
  <2> HIDE DEF succ, rank, N
  <2>5. rank[<<next, B>>] < rank[s]
    BY <1>1, <2>1, <2>2, <2>4
  <2> QED BY <2>3, <2>5
<1>4. \E g : IsRun(g, S, ends, val, succ)
  <2>1. PICK K : K = N + 1 /\ K \in Nat
    BY <1>1
  <2>2. rank \in [S -> 0..K] /\ \A s \in S : s \notin ends => succ[s] \in S /\ rank[succ[s]] < rank[s]
    BY <1>2, <1>3, <2>1
  <2> HIDE DEF S, N, rank, ends, val, succ
  <2> QED BY <2>1, <2>2, RunExists, Zenon
<1>5. \E g : Runs(g)
  <2>1. PICK g : g = [s \in S |-> IF s \in ends THEN val[s] ELSE g[succ[s]]]
    BY <1>4 DEF IsRun
  <2>2. ASSUME NEW s \in S
        PROVE  (IF s \in ends THEN val[s] ELSE g[succ[s]]) =
                 IF s[1] \notin DOMAIN final_filters THEN Ret("refused")
                 ELSE IF final_filters[s[1]].f \in {"ret", "trace"} THEN final_filters[s[1]]
                 ELSE g[Step(call, s[1], s[2])]
    BY DEF Stops
  <2>3. Runs(g)
    BY <2>1, <2>2
  <2> QED BY <2>3
<1>6. FilterRun(call) = CHOOSE g : Runs(g)
  BY DEF FilterRun
<1>7. Runs(FilterRun(call))
  BY <1>5, <1>6
<1>8. <<pc, A>> \in S /\ <<pc, A>>[1] = pc /\ <<pc, A>>[2] = A
  OBVIOUS
<1> QED BY <1>7, <1>8 DEF Stops

-----------------------------------------------------------------------------
(* Addresses *)

(* Instructions with labels.                                               *)
Texts == Instructions \cup [f : {"and"}]

(* There is only one way to place parts of given lengths.                  *)
LEMMA OffsetsUnique ==
  ASSUME NEW N \in Nat, NEW L, NEW o, NEW r, Offsets(o, L, N), Offsets(r, L, N)
  PROVE  o = r
<1> DEFINE Bad == {i \in 1..(N + 1) : o[i] # r[i]}
<1>1. /\ o \in [1..(N + 1) -> Nat] /\ o[1] = 0 /\ \A i \in 1..N : o[i + 1] = o[i] + L[i]
      /\ r \in [1..(N + 1) -> Nat] /\ r[1] = 0 /\ \A i \in 1..N : r[i + 1] = r[i] + L[i]
  BY DEF Offsets
<1>2. Bad = {}
  <2> SUFFICES ASSUME Bad # {} PROVE FALSE
    OBVIOUS
  <2>1. PICK i \in Bad : \A j \in Bad : i <= j
    <3>1. Bad \subseteq Nat
      OBVIOUS
    <3> HIDE DEF Bad
    <3> QED BY <3>1, Least
  <2>2. i # 1
    BY <1>1, <2>1
  <2>3. i - 1 \in 1..N /\ i - 1 \notin Bad /\ (i - 1) + 1 = i
    BY <2>1, <2>2
  <2>4. o[i - 1] = r[i - 1]
    BY <2>3
  <2>5. o[i] = o[i - 1] + L[i - 1] /\ r[i] = r[i - 1] + L[i - 1]
    BY <1>1, <2>3
  <2> QED BY <2>1, <2>4, <2>5
<1>3. \A i \in 1..(N + 1) : o[i] = r[i]
  BY <1>2
<1>4. o = [i \in 1..(N + 1) |-> o[i]] /\ r = [i \in 1..(N + 1) |-> r[i]]
  BY <1>1
<1> QED BY <1>3, <1>4

(* Labels take no room, all else takes one address.                        *)
LEMMA PCKnown ==
  ASSUME NEW g, NEW n \in Nat, n # 0
  PROVE  /\ PC(g, n) \in Nat /\ PC(g, 1) = 0
         /\ PC(g, n + 1) = PC(g, n) + IF IsMark(g[n]) THEN 0 ELSE 1
<1> DEFINE S(k) == {m \in 1..(k - 1) : ~IsMark(g[m])}
<1>1. \A k \in Nat : IsFiniteSet(S(k))
  <2> SUFFICES ASSUME NEW k \in Nat PROVE IsFiniteSet(S(k))
    OBVIOUS
  <2>1. IsFiniteSet(1..(k - 1))
    BY FS_Interval
  <2> QED BY <2>1, FS_Subset
<1>2. PC(g, n) = Cardinality(S(n)) /\ PC(g, 1) = Cardinality(S(1)) /\ PC(g, n + 1) = Cardinality(S(n + 1))
  BY DEF PC
<1>3. S(1) = {}
  OBVIOUS
<1>4. S(n + 1) = IF IsMark(g[n]) THEN S(n) ELSE S(n) \cup {n}
  OBVIOUS
<1>5. n \notin S(n)
  OBVIOUS
<1> HIDE DEF S
<1>6. Cardinality(S(n)) \in Nat
  BY <1>1, FS_CardinalityType
<1>7. Cardinality(S(n) \cup {n}) = Cardinality(S(n)) + 1
  BY <1>1, <1>5, FS_AddElement
<1>8. Cardinality(S(1)) = 0
  BY <1>3, FS_EmptySet
<1> QED BY <1>2, <1>4, <1>6, <1>7, <1>8

(* The place of a label that is there is a place of it.                    *)
LEMMA OffsetKnown ==
  ASSUME NEW g \in Seq(Texts), NEW n \in 1..Len(g), NEW l
  PROVE  Offset(g, n, l) \in Nat
<1>1. OffsetLimit \in Nat \ {0} /\ Len(g) \in Nat /\ n \in Nat /\ n # 0
  BY AssemblyAssumption
<1>2. CASE l = Zero \/ Marks(g, l) = {}
  BY <1>1, <1>2 DEF Offset, Unresolved
<1>3. CASE l # Zero /\ Marks(g, l) # {}
  <2> DEFINE S == Marks(g, l)
             last == CHOOSE m \in S : \A k \in S : k <= m
             T == {Len(g) - m : m \in S}
  <2>1. S \subseteq 1..Len(g)
    BY DEF Marks
  <2>2. T \subseteq Nat /\ T # {}
    BY <1>1, <1>3, <2>1
  <2>3. PICK x \in T : \A y \in T : x <= y
    BY <2>2, Least
  <2>4. PICK m \in S : x = Len(g) - m
    BY <2>3
  <2>5. \A k \in S : Len(g) - k \in T /\ k \in Nat /\ k # 0
    BY <1>1, <2>1
  <2>6. ASSUME NEW k \in S PROVE k <= m
    <3>1. Len(g) - m <= Len(g) - k /\ k \in Nat /\ m \in Nat
      BY <2>3, <2>4, <2>5
    <3> QED BY <1>1, <3>1
  <2>7. last \in S
    BY <2>4, <2>6
  <2>8. last \in Nat /\ last # 0
    BY <2>5, <2>7
  <2>9. Offset(g, n, l) = (PC(g, last) - PC(g, n) - 1) % OffsetLimit
    BY <1>3 DEF Offset
  <2> HIDE DEF last
  <2>10. PC(g, last) \in Nat /\ PC(g, n) \in Nat
    BY <1>1, <2>8, PCKnown
  <2> QED BY <1>1, <2>9, <2>10
<1> QED BY <1>2, <1>3

(* What becomes of an instruction.                                         *)
Meant(g, p) ==
  IF g[p].f = "jump" THEN [g[p] EXCEPT !.jt = Offset(g, p, @), !.jf = Offset(g, p, @)] ELSE g[p]

(* A label is dropped, and everything else is what it means.               *)
LEMMA TransformedKnown ==
  ASSUME NEW g \in Seq(Texts), NEW p \in 1..Len(g)
  PROVE  /\ IsMark(g[p]) => Transformed(g, p) = <<>>
         /\ ~IsMark(g[p]) => Transformed(g, p) = <<Meant(g, p)>> /\ Meant(g, p) \in Machine
<1>1. g[p] \in Texts
  OBVIOUS
<1>2. CASE g[p].f = "jump"
  <2>1. g[p] \in [f : {"jump"}, test : {"arch", "jgt", "jeq"}, k : Nat, jt : Labels, jf : Labels]
    BY <1>1, <1>2 DEF Texts, Instructions
  <2>2. Offset(g, p, g[p].jt) \in Nat /\ Offset(g, p, g[p].jf) \in Nat
    BY OffsetKnown
  <2>3. Meant(g, p) = [g[p] EXCEPT !.jt = Offset(g, p, g[p].jt), !.jf = Offset(g, p, g[p].jf)]
    BY <1>2 DEF Meant
  <2>4. Meant(g, p) \in Machine
    BY <2>1, <2>2, <2>3 DEF Machine
  <2>5. ~IsMark(g[p]) /\ Transformed(g, p) = <<Meant(g, p)>>
    BY <1>2 DEF Transformed, Meant, IsMark
  <2> QED BY <2>4, <2>5
<1>3. CASE IsMark(g[p])
  BY <1>3 DEF IsMark, Transformed
<1>4. CASE g[p].f # "jump" /\ ~IsMark(g[p])
  <2>1. Meant(g, p) = g[p] /\ Transformed(g, p) = <<g[p]>>
    BY <1>4 DEF Meant, Transformed
  <2>2. g[p] \in Machine
    BY <1>1, <1>4 DEF Texts, Instructions, Machine, IsMark
  <2> QED BY <1>4, <2>1, <2>2
<1> QED BY <1>2, <1>3, <1>4

(* An instruction is at its address, and addresses grow.                   *)
LEMMA ResolvedKnown ==
  ASSUME NEW g \in Seq(Texts)
  PROVE  /\ Resolved(g) \in Seq(Machine)
         /\ \A p \in 1..Len(g) : ~IsMark(g[p]) =>
              PC(g, p) + 1 \in 1..Len(Resolved(g)) /\ Resolved(g)[PC(g, p) + 1] = Meant(g, p)
         /\ \A p, q \in 1..Len(g) : p < q /\ ~IsMark(g[p]) =>
              PC(g, p) + 1 <= PC(g, q) /\ PC(g, q) <= Len(Resolved(g))
<1> DEFINE N == Len(g)
           T == [p \in DOMAIN g |-> Transformed(g, p)]
           F == Resolved(g)
           pc == [p \in 1..(N + 1) |-> PC(g, p)]
           size(p) == IF IsMark(g[p]) THEN 0 ELSE 1
<1>1. N \in Nat /\ DOMAIN g = 1..N
  OBVIOUS
<1>2. \A p \in 1..N : /\ Transformed(g, p) \in Seq(Machine) /\ Len(Transformed(g, p)) = size(p)
                      /\ ~IsMark(g[p]) => Transformed(g, p)[1] = Meant(g, p)
  <2> SUFFICES ASSUME NEW p \in 1..N
               PROVE  /\ Transformed(g, p) \in Seq(Machine) /\ Len(Transformed(g, p)) = size(p)
                      /\ ~IsMark(g[p]) => Transformed(g, p)[1] = Meant(g, p)
    OBVIOUS
  <2>1. CASE IsMark(g[p])
    <3>1. Transformed(g, p) = <<>>
      BY <2>1, TransformedKnown
    <3> QED BY <2>1, <3>1, EmptySeq
  <2>2. CASE ~IsMark(g[p])
    <3>1. Transformed(g, p) = <<Meant(g, p)>> /\ Meant(g, p) \in Machine
      BY <2>2, TransformedKnown
    <3> QED BY <2>2, <3>1
  <2> QED BY <2>1, <2>2
<1>3. T \in Seq(Seq(Machine)) /\ Len(T) = N /\ \A p \in 1..N : T[p] = Transformed(g, p)
  <2>1. T \in [1..N -> Seq(Machine)]
    BY <1>1, <1>2
  <2> QED BY <1>1, <2>1
<1>4. F = FlattenSeq(T)
  BY DEF Resolved
<1> HIDE DEF T, F
<1>5. F \in Seq(Machine) /\ \E o : HasParts(F, T, o)
  BY <1>3, <1>4, FlattenContains
<1>6. PICK o : HasParts(F, T, o)
  BY <1>5
<1>7. Offsets(pc, Lengths(T), N)
  <2>1. ASSUME NEW p \in 1..(N + 1) PROVE pc[p] = PC(g, p) /\ pc[p] \in Nat
    BY <1>1, PCKnown
  <2>2. pc[1] = 0
    <3>1. 1 \in 1..(N + 1) /\ 1 \in Nat
      BY <1>1
    <3> QED BY <3>1, PCKnown
  <2>3. ASSUME NEW p \in 1..N PROVE pc[p + 1] = pc[p] + Lengths(T)[p]
    <3>1. p \in Nat /\ p # 0 /\ p + 1 \in 1..(N + 1) /\ p \in 1..(N + 1)
      BY <1>1
    <3>2. Lengths(T)[p] = size(p)
      BY <1>2, <1>3 DEF Lengths
    <3>3. PC(g, p + 1) = PC(g, p) + size(p)
      BY <3>1, PCKnown
    <3> QED BY <3>1, <3>2, <3>3
  <2>4. pc = [p \in 1..(N + 1) |-> pc[p]]
    OBVIOUS
  <2> HIDE DEF pc
  <2>5. pc \in [1..(N + 1) -> Nat]
    BY <2>1, <2>4
  <2> QED BY <2>2, <2>3, <2>5 DEF Offsets
<1>8. o = pc
  <2>1. Offsets(o, Lengths(T), N)
    BY <1>3, <1>6 DEF HasParts
  <2> HIDE DEF pc
  <2> QED BY <1>1, <1>7, <2>1, OffsetsUnique
<1>9. \A p \in 1..N : pc[p] = PC(g, p)
  BY <1>1
<1> HIDE DEF pc
<1>10. HasParts(F, T, pc)
  BY <1>6, <1>8
<1>11. ASSUME NEW p \in 1..N, ~IsMark(g[p])
       PROVE  /\ PC(g, p) + 1 \in 1..Len(F) /\ F[PC(g, p) + 1] = Meant(g, p)
              /\ \A q \in 1..N : p < q => PC(g, p) + 1 <= PC(g, q)
  <2>1. p \in 1..Len(T) /\ Len(T[p]) = 1 /\ T[p][1] = Meant(g, p)
    BY <1>2, <1>3, <1>11
  <2>2. /\ \A j \in 1..Len(T) : p < j => pc[p] + Len(T[p]) <= pc[j]
        /\ \A k \in 1..Len(T[p]) : pc[p] + k \in 1..Len(F) /\ F[pc[p] + k] = T[p][k]
    <3>1. T \in Seq(Seq(Machine)) /\ p \in 1..Len(T)
      BY <1>3, <2>1
    <3> HIDE DEF pc, N, size
    <3> QED BY <1>10, <3>1, PlaceOfPart, SMTT(60)
  <2>3. 1 \in 1..Len(T[p])
    BY <2>1
  <2> QED BY <1>3, <1>9, <2>1, <2>2, <2>3
<1>12. ASSUME NEW q \in 1..N PROVE PC(g, q) <= Len(F)
  <2>1. q \in 1..Len(T) /\ Len(T[q]) \in {0, 1}
    BY <1>2, <1>3
  <2>2. pc[q] \in Nat /\ pc[q] + Len(T[q]) <= Len(F)
    BY <1>3, <1>10, <2>1, PlaceOfPart
  <2>3. Len(F) \in Nat
    BY <1>5
  <2> QED BY <1>9, <2>1, <2>2, <2>3
<1> QED BY <1>5, <1>11, <1>12 DEF F

(* What the filter does from place p of its text g on.                     *)
From(g, call, p, A) == FilterRun(call)[<<PC(g, p) + 1, A>>]

(* From place p on it does what it does from q on, with B.                 *)
GoesOn(g, call, p, A, q, B) == From(g, call, p, A) = From(g, call, q, B)

(* A label does nothing.                                                   *)
LEMMA RunsOverLabel ==
  ASSUME NEW g, NEW call, NEW p \in Nat, p # 0, NEW A, IsMark(g[p])
  PROVE  GoesOn(g, call, p, A, p + 1, A)
<1>1. PC(g, p + 1) = PC(g, p)
  BY PCKnown
<1> QED BY <1>1 DEF GoesOn, From

(* What is at the address of a place.                                      *)
LEMMA RunsAt ==
  ASSUME NEW g \in Seq(Texts), final_filters = Resolved(g), NEW call \in Calls,
         NEW p \in 1..Len(g), NEW A \in Nat, ~IsMark(g[p])
  PROVE  /\ PC(g, p) \in Nat /\ PC(g, p + 1) = PC(g, p) + 1
         /\ final_filters[PC(g, p) + 1] = Meant(g, p)
         /\ From(g, call, p, A) = IF Stops(Meant(g, p)) THEN Meant(g, p)
                                  ELSE FilterRun(call)[Step(call, PC(g, p) + 1, A)]
<1>1. PC(g, p) \in Nat /\ PC(g, p + 1) = PC(g, p) + 1
  <2>1. p \in Nat /\ p # 0
    OBVIOUS
  <2> QED BY <2>1, PCKnown
<1>2. final_filters \in Seq(Machine) /\ PC(g, p) + 1 \in 1..Len(final_filters)
      /\ final_filters[PC(g, p) + 1] = Meant(g, p)
  BY ResolvedKnown
<1>3. PC(g, p) + 1 \in Nat /\ PC(g, p) + 1 \in DOMAIN final_filters
  BY <1>1, <1>2
<1> QED BY <1>1, <1>2, <1>3, FilterRunIs DEF From

(* A verdict or a hand-over is the answer.                                 *)
LEMMA RunsIntoReturn ==
  ASSUME NEW g \in Seq(Texts), final_filters = Resolved(g), NEW call \in Calls,
         NEW p \in 1..Len(g), NEW A \in Nat, g[p].f \in {"ret", "trace"}
  PROVE  From(g, call, p, A) = g[p]
<1>1. ~IsMark(g[p]) /\ Meant(g, p) = g[p] /\ Stops(g[p])
  BY DEF IsMark, Meant, Stops
<1> QED BY <1>1, RunsAt

(* A load goes on with what it has loaded.                                 *)
LEMMA RunsOverLoad ==
  ASSUME NEW g \in Seq(Texts), final_filters = Resolved(g), NEW call \in Calls,
         NEW p \in 1..Len(g), NEW A \in Nat, g[p].f \in {"ld", "and"}
  PROVE  GoesOn(g, call, p, A, p + 1, IF g[p].f = "ld" THEN Loaded(g[p].what, call) ELSE A % X32Bit)
<1> DEFINE B == IF g[p].f = "ld" THEN Loaded(g[p].what, call) ELSE A % X32Bit
           a == PC(g, p) + 1
<1>1. ~IsMark(g[p]) /\ Meant(g, p) = g[p] /\ ~Stops(g[p])
  BY DEF IsMark, Meant, Stops
<1>2. /\ PC(g, p + 1) = a /\ final_filters[a] = g[p]
      /\ From(g, call, p, A) = FilterRun(call)[Step(call, a, A)]
  BY <1>1, RunsAt
<1>3. Step(call, a, A) = <<a + 1, B>>
  <2> HIDE DEF a
  <2> QED BY <1>2 DEF Step
<1> QED BY <1>2, <1>3 DEF GoesOn, From

(* A jump leads behind its label, if this is there once and further on.    *)
LEMMA RunsOverJump ==
  ASSUME NEW g \in Seq(Texts), final_filters = Resolved(g), Short, NEW call \in Calls,
         NEW p \in 1..Len(g), NEW A \in Nat, g[p].f = "jump",
         NEW l, l = IF Passes(g[p], A) THEN g[p].jt ELSE g[p].jf,
         NEW q \in 1..Len(g),
         IF l = Zero THEN q = p + 1 ELSE Marks(g, l) = {q} /\ p < q
  PROVE  GoesOn(g, call, p, A, q, A)
<1> DEFINE a == PC(g, p) + 1
           f == Meant(g, p)
<1>1. ~IsMark(g[p]) /\ ~Stops(f) /\ f.f = "jump" /\ f.test = g[p].test /\ f.k = g[p].k
      /\ f.jt = Offset(g, p, g[p].jt) /\ f.jf = Offset(g, p, g[p].jf)
  <2>1. g[p] \in [f : {"jump"}, test : {"arch", "jgt", "jeq"}, k : Nat, jt : Labels, jf : Labels]
    <3>1. g[p] \in Texts
      OBVIOUS
    <3> QED BY <3>1 DEF Texts, Instructions
  <2>2. f = [g[p] EXCEPT !.jt = Offset(g, p, g[p].jt), !.jf = Offset(g, p, g[p].jf)]
    BY DEF Meant
  <2> QED BY <2>1, <2>2 DEF IsMark, Stops
<1>2. /\ PC(g, p) \in Nat /\ PC(g, p + 1) = a /\ final_filters[a] = f
      /\ From(g, call, p, A) = FilterRun(call)[Step(call, a, A)]
  BY <1>1, RunsAt
<1>3. Passes(f, A) = Passes(g[p], A)
  BY <1>1 DEF Passes
<1>4. Step(call, a, A) = <<a + 1 + Offset(g, p, l), A>>
  <2>1. (IF Passes(f, A) THEN f.jt ELSE f.jf) = Offset(g, p, l)
    BY <1>1, <1>3
  <2> HIDE DEF a, f
  <2> QED BY <1>1, <1>2, <2>1 DEF Step
<1>5. a + 1 + Offset(g, p, l) = PC(g, q) + 1
  <2>1. CASE l = Zero
    <3>1. Offset(g, p, l) = 0
      BY <2>1 DEF Offset
    <3> QED BY <1>2, <2>1, <3>1
  <2>2. CASE l # Zero
    <3> DEFINE d == PC(g, q) - PC(g, p) - 1
    <3>1. Marks(g, l) = {q} /\ p < q
      BY <2>2
    <3>2. (CHOOSE m \in {q} : \A k \in {q} : k <= m) = q
      BY <3>1
    <3>3. Offset(g, p, l) = d % OffsetLimit
      BY <2>2, <3>1, <3>2 DEF Offset
    <3>4. PC(g, p) + 1 <= PC(g, q) /\ PC(g, q) <= Len(final_filters)
      BY <1>1, <3>1, ResolvedKnown
    <3>5. PC(g, q) \in Nat
      <4>1. q \in Nat /\ q # 0
        OBVIOUS
      <4> QED BY <4>1, PCKnown
    <3>6. Len(final_filters) \in Nat /\ Len(final_filters) <= OffsetLimit /\ OffsetLimit \in Nat
      <4>1. final_filters \in Seq(Machine)
        BY ResolvedKnown
      <4> QED BY <4>1, AssemblyAssumption DEF Short
    <3>7. d \in 0..(OffsetLimit - 1)
      BY <1>2, <3>4, <3>5, <3>6
    <3>8. d % OffsetLimit = d
      <4> HIDE DEF d
      <4> QED BY <3>6, <3>7
    <3> QED BY <1>2, <3>3, <3>5, <3>8
  <2> QED BY <2>1, <2>2
<1> QED BY <1>2, <1>4, <1>5 DEF GoesOn, From

-----------------------------------------------------------------------------
(* The text of the filter *)

(* The checks are compiled.                                                *)
Ready ==
  /\ TypeInv /\ FiltersInv /\ policy \in Policies
  /\ Len(bpf_filters) = Len(checks) /\ Len(checks) # 0

(* The lines of check n, and all of them.                                  *)
Chain == [n \in DOMAIN checks |-> JoinCheck(n)]

(* The label to which a call goes that is not of check n.                  *)
After(n) == IF n < Len(checks) THEN Name(checks[n + 1].syscall) ELSE Default

(* Calls of checks are numbers.                                            *)
LEMMA NumbersKnown ==
  ASSUME policy \in Policies, NEW n \in 1..Len(checks)
  PROVE  checks[n].syscall \in Numbers /\ checks[n].syscall \in Nat /\ n \in Nat
<1>1. checks[n].syscall \in Numbers
  BY CheckKnown
<1>2. \A x \in Numbers : x \in Nat
  BY AssemblyAssumption
<1>3. n \in Nat
  BY ChecksKnown
<1> QED BY <1>1, <1>2, <1>3

(* A text of its lines.                                                    *)
LEMMA JoinCheckKnown ==
  ASSUME Ready, NEW n \in 1..Len(checks)
  PROVE  /\ JoinCheck(n) \in Seq(Texts) /\ Len(JoinCheck(n)) = 2 + Len(bpf_filters[n])
         /\ bpf_filters[n] \in Seq(Instructions) /\ Len(bpf_filters[n]) \in Nat
         /\ JoinCheck(n)[1] = Mark(Name(checks[n].syscall))
         /\ JoinCheck(n)[2] = Jump("jeq", checks[n].syscall, Zero, After(n))
         /\ \A k \in 1..Len(bpf_filters[n]) : JoinCheck(n)[2 + k] = bpf_filters[n][k]
<1> DEFINE a == Mark(Name(checks[n].syscall))
           b == Jump("jeq", checks[n].syscall, Zero, After(n))
           u == <<a, b>>
           v == bpf_filters[n]
<1>1. v \in Seq(Instructions) /\ Len(v) \in Nat
  <2>1. bpf_filters \in Seq(Seq(Instructions)) /\ n \in 1..Len(bpf_filters)
    BY DEF Ready, TypeInv
  <2>2. v \in Seq(Instructions)
    BY <2>1
  <2> QED BY <2>2
<1>2. v \in Seq(Texts)
  <2>1. Len(v) \in Nat /\ v \in [1..Len(v) -> Instructions]
    BY <1>1
  <2> HIDE DEF v
  <2>2. v \in [1..Len(v) -> Texts]
    BY <2>1 DEF Texts
  <2> QED BY <2>1, <2>2
<1>3. a \in Texts /\ b \in Texts
  <2>1. \A s \in Nat : Name(s) \in Labels
    BY DEF Name, Labels
  <2>2. Zero \in Labels /\ Default \in Labels
    BY DEF Zero, Default, Deny, Allow, Labels
  <2>3. After(n) \in Labels
    <3>1. CASE n < Len(checks)
      <4>1. n + 1 \in 1..Len(checks)
        BY <3>1, ChecksKnown DEF Ready
      <4>2. checks[n + 1].syscall \in Nat
        BY <4>1, NumbersKnown DEF Ready
      <4> QED BY <2>1, <3>1, <4>2 DEF After
    <3>2. CASE ~(n < Len(checks))
      BY <2>2, <3>2 DEF After
    <3> QED BY <3>1, <3>2
  <2>4. checks[n].syscall \in Nat
    BY NumbersKnown DEF Ready
  <2>5. Name(checks[n].syscall) \in Labels
    BY <2>1, <2>4
  <2> QED BY <2>2, <2>3, <2>4, <2>5 DEF Texts, Instructions, Mark, Jump
<1>4. JoinCheck(n) = u \o v
  BY DEF JoinCheck, After
<1> HIDE DEF a, b, v
<1>5. u \in Seq(Texts) /\ Len(u) = 2 /\ u[1] = a /\ u[2] = b
  BY <1>3
<1> HIDE DEF u
<1>6. u \o v \in Seq(Texts) /\ Len(u \o v) = 2 + Len(v) /\ Behind(u \o v, u, v)
  BY <1>2, <1>5, JoinOne
<1>7. 1 \in 1..Len(u) /\ 2 \in 1..Len(u)
  BY <1>5
<1>8. (u \o v)[1] = a /\ (u \o v)[2] = b /\ \A k \in 1..Len(v) : (u \o v)[2 + k] = v[k]
  BY <1>5, <1>6, <1>7 DEF Behind
<1> QED BY <1>1, <1>4, <1>6, <1>8 DEF a, b, v

(* The ends of the text.                                                   *)
LEMMA EndsKnown ==
  ASSUME policy \in Policies, Len(checks) # 0
  PROVE  /\ Header \in Seq(Texts) /\ Len(Header) = 5
         /\ Header[1] = Load("arch") /\ Header[2] = Jump("arch", 0, Zero, Deny)
         /\ Header[3] = Load("nr") /\ Header[4] = Jump("jgt", X32Bit - 1, Zero, Name(checks[1].syscall))
         /\ Header[5] = UnsetX32
         /\ Trailer \in Seq(Texts)
         /\ policy.default = "deny" => /\ Len(Trailer) = 2 /\ Default = Deny
                                       /\ Trailer[1] = Mark(Deny) /\ Trailer[2] = Ret("deny")
         /\ policy.default # "deny" => /\ Len(Trailer) = 4 /\ Default = Allow /\ policy.default = "allow"
                                       /\ Trailer[1] = Mark(Allow) /\ Trailer[2] = Ret("allow")
                                       /\ Trailer[3] = Mark(Deny) /\ Trailer[4] = Ret("deny")
<1>1. 1 \in 1..Len(checks)
  BY ChecksKnown
<1>2. checks[1].syscall \in Numbers /\ checks[1].syscall \in Nat
  BY <1>1, NumbersKnown
<1>3. X32Bit - 1 \in Nat
  BY <1>2, AssemblyAssumption
<1>4. /\ Zero \in Labels /\ Deny \in Labels /\ Allow \in Labels /\ Name(checks[1].syscall) \in Labels
  BY <1>2 DEF Zero, Deny, Allow, Name, Labels
<1>5. Load("arch") \in Texts /\ Load("nr") \in Texts /\ UnsetX32 \in Texts
  BY DEF Load, UnsetX32, Texts, Instructions
<1>6. Jump("arch", 0, Zero, Deny) \in Texts /\ Jump("jgt", X32Bit - 1, Zero, Name(checks[1].syscall)) \in Texts
  BY <1>3, <1>4 DEF Jump, Texts, Instructions
<1>7. Mark(Deny) \in Texts /\ Mark(Allow) \in Texts /\ Ret("deny") \in Texts /\ Ret("allow") \in Texts
  BY <1>4 DEF Mark, Ret, Texts, Instructions, Verdicts
<1>8. \A a, b, c, d, e \in Texts : <<a, b, c, d, e>> \in Seq(Texts)
  OBVIOUS
<1>9. Header = <<Load("arch"), Jump("arch", 0, Zero, Deny),
                 Load("nr"), Jump("jgt", X32Bit - 1, Zero, Name(checks[1].syscall)), UnsetX32>>
  BY DEF Header
<1>10. /\ Header \in Seq(Texts) /\ Len(Header) = 5
       /\ Header[1] = Load("arch") /\ Header[2] = Jump("arch", 0, Zero, Deny)
       /\ Header[3] = Load("nr") /\ Header[4] = Jump("jgt", X32Bit - 1, Zero, Name(checks[1].syscall))
       /\ Header[5] = UnsetX32
  BY <1>5, <1>6, <1>8, <1>9
<1>11. CASE policy.default = "deny"
  <2>1. Trailer = <<Mark(Deny)>> \o <<Ret("deny")>>
    BY <1>11 DEF Trailer
  <2> DEFINE u == <<Mark(Deny)>>
             v == <<Ret("deny")>>
  <2>2. u \in Seq(Texts) /\ Len(u) = 1 /\ u[1] = Mark(Deny) /\ v \in Seq(Texts) /\ Len(v) = 1 /\ v[1] = Ret("deny")
    BY <1>7
  <2>3. Trailer = u \o v
    BY <2>1
  <2> HIDE DEF u, v
  <2>4. Trailer \in Seq(Texts) /\ Len(Trailer) = 2 /\ Behind(Trailer, u, v)
    <3>1. u \o v \in Seq(Texts) /\ Len(u \o v) = Len(u) + Len(v) /\ Behind(u \o v, u, v)
      BY <2>2, JoinOne
    <3> QED BY <2>2, <2>3, <3>1
  <2>5. 1 \in 1..Len(u) /\ 1 \in 1..Len(v)
    BY <2>2
  <2>6. Trailer[1] = Mark(Deny) /\ Trailer[1 + 1] = Ret("deny")
    BY <2>2, <2>4, <2>5 DEF Behind
  <2> QED BY <1>10, <1>11, <2>4, <2>6 DEF Default
<1>12. CASE policy.default # "deny"
  <2>1. policy.default = "allow"
    BY <1>12, ChecksKnown DEF Verdicts
  <2>2. Trailer = <<Mark(Allow), Ret("allow"), Mark(Deny)>> \o <<Ret("deny")>>
    BY <1>12 DEF Trailer
  <2> DEFINE u == <<Mark(Allow), Ret("allow"), Mark(Deny)>>
             v == <<Ret("deny")>>
  <2>3. /\ u \in Seq(Texts) /\ Len(u) = 3 /\ u[1] = Mark(Allow) /\ u[2] = Ret("allow") /\ u[3] = Mark(Deny)
        /\ v \in Seq(Texts) /\ Len(v) = 1 /\ v[1] = Ret("deny")
    BY <1>7
  <2>4. Trailer = u \o v
    BY <2>2
  <2> HIDE DEF u, v
  <2>5. Trailer \in Seq(Texts) /\ Len(Trailer) = 4 /\ Behind(Trailer, u, v)
    <3>1. u \o v \in Seq(Texts) /\ Len(u \o v) = Len(u) + Len(v) /\ Behind(u \o v, u, v)
      BY <2>3, JoinOne
    <3> QED BY <2>3, <2>4, <3>1
  <2>6. 1 \in 1..Len(u) /\ 2 \in 1..Len(u) /\ 3 \in 1..Len(u) /\ 1 \in 1..Len(v)
    BY <2>3
  <2>7. Trailer[1] = Mark(Allow) /\ Trailer[2] = Ret("allow") /\ Trailer[3] = Mark(Deny) /\ Trailer[3 + 1] = Ret("deny")
    BY <2>3, <2>5, <2>6 DEF Behind
  <2> QED BY <1>10, <1>12, <2>1, <2>5, <2>7 DEF Default
<1> QED BY <1>11, <1>12

(* The lines of check n stand behind place 5 + o[n], the end of the text   *)
(* behind place 5 + e.                                                     *)
Layout(o, e) ==
  /\ e \in Nat /\ o[1] = 0
  /\ \A n \in 1..Len(checks) : o[n] \in Nat /\ o[n] + Len(JoinCheck(n)) <= e
  /\ \A n, i \in 1..Len(checks) : n < i => o[n] + Len(JoinCheck(n)) <= o[i]
  /\ Joined \in Seq(Texts) /\ Len(Joined) = 5 + e + Len(Trailer)
  /\ \A k \in 1..5 : Joined[k] = Header[k]
  /\ \A n \in 1..Len(checks) : \A k \in 1..Len(JoinCheck(n)) : Joined[5 + o[n] + k] = JoinCheck(n)[k]
  /\ \A k \in 1..Len(Trailer) : Joined[5 + e + k] = Trailer[k]
  /\ \A p \in 6..(5 + e) : \E n \in 1..Len(checks) : \E k \in 1..Len(JoinCheck(n)) : p = 5 + o[n] + k

(* The text of the compiled checks has a layout.                           *)
LEMMA LayoutExists ==
  ASSUME Ready
  PROVE  \E o, e : Layout(o, e)
<1> DEFINE N == Len(checks)
           W == FlattenSeq(Chain)
           H == Header
           T == Trailer
           J(n) == JoinCheck(n)
<1>1. N \in Nat /\ DOMAIN checks = 1..N /\ N # 0
  BY ChecksKnown DEF Ready
<1>2. \A n \in 1..N : J(n) \in Seq(Texts) /\ Len(J(n)) \in Nat
  <2> SUFFICES ASSUME NEW n \in 1..N PROVE J(n) \in Seq(Texts) /\ Len(J(n)) \in Nat
    OBVIOUS
  <2>1. J(n) \in Seq(Texts)
    BY JoinCheckKnown
  <2> QED BY <2>1
<1>3. Chain \in Seq(Seq(Texts)) /\ Len(Chain) = N /\ \A n \in 1..N : Chain[n] = J(n)
  <2>1. Chain \in [1..N -> Seq(Texts)]
    BY <1>1, <1>2 DEF Chain
  <2>2. \A n \in 1..N : Chain[n] = J(n)
    BY <1>1 DEF Chain
  <2> QED BY <1>1, <2>1, <2>2
<1>4. W \in Seq(Texts) /\ \E o : HasParts(W, Chain, o)
  BY <1>3, FlattenContains
<1>5. PICK o : HasParts(W, Chain, o)
  BY <1>4
<1>6. H \in Seq(Texts) /\ Len(H) = 5 /\ T \in Seq(Texts) /\ Len(T) \in Nat
  <2>1. H \in Seq(Texts) /\ Len(H) = 5 /\ T \in Seq(Texts)
    BY <1>1, EndsKnown DEF Ready
  <2> QED BY <2>1
<1>7. Joined = (H \o W) \o T
  BY DEF Joined, Chain
<1> HIDE DEF N, W, H, T, J
<1>8. PICK e : e = Len(W) /\ e \in Nat
  BY <1>4
<1>9. H \o W \in Seq(Texts) /\ Len(H \o W) = 5 + e /\ Behind(H \o W, H, W)
  <2>1. H \o W \in Seq(Texts) /\ Len(H \o W) = Len(H) + Len(W) /\ Behind(H \o W, H, W)
    BY <1>4, <1>6, JoinOne
  <2> QED BY <1>6, <1>8, <2>1
<1>10. Joined \in Seq(Texts) /\ Len(Joined) = 5 + e + Len(T) /\ Behind(Joined, H \o W, T)
  <2>1. /\ (H \o W) \o T \in Seq(Texts) /\ Len((H \o W) \o T) = Len(H \o W) + Len(T)
        /\ Behind((H \o W) \o T, H \o W, T)
    BY <1>6, <1>9, JoinOne
  <2> QED BY <1>7, <1>9, <2>1
<1>11. \A k \in 1..5 : Joined[k] = H[k]
  BY <1>6, <1>9, <1>10 DEF Behind
<1>12. \A k \in 1..e : Joined[5 + k] = W[k]
  <2> SUFFICES ASSUME NEW k \in 1..e PROVE Joined[5 + k] = W[k]
    OBVIOUS
  <2>1. 5 + k \in 1..Len(H \o W) /\ (H \o W)[5 + k] = W[k]
    BY <1>6, <1>8, <1>9 DEF Behind
  <2> QED BY <1>10, <2>1 DEF Behind
<1>13. \A k \in 1..Len(T) : Joined[5 + e + k] = T[k]
  BY <1>9, <1>10 DEF Behind
<1>14. ASSUME NEW n \in 1..N
       PROVE  /\ o[n] \in Nat /\ o[n] + Len(J(n)) <= e
              /\ \A i \in 1..N : n < i => o[n] + Len(J(n)) <= o[i]
              /\ \A k \in 1..Len(J(n)) : o[n] + k \in 1..e /\ W[o[n] + k] = J(n)[k]
  <2>1. n \in 1..Len(Chain) /\ Chain[n] = J(n)
    BY <1>3
  <2>2. /\ o[n] \in Nat /\ o[n] + Len(Chain[n]) <= Len(W)
        /\ \A i \in 1..Len(Chain) : n < i => o[n] + Len(Chain[n]) <= o[i]
        /\ \A k \in 1..Len(Chain[n]) : o[n] + k \in 1..Len(W) /\ W[o[n] + k] = Chain[n][k]
    BY <1>3, <1>5, <2>1, PlaceOfPart
  <2>3. Len(Chain[n]) = Len(J(n)) /\ Len(W) = e /\ Len(Chain) = N
    BY <1>3, <1>8, <2>1, Zenon
  <2> QED BY <2>1, <2>2, <2>3, Zenon
<1>15. ASSUME NEW n \in 1..N, NEW k \in 1..Len(J(n)) PROVE Joined[5 + o[n] + k] = J(n)[k]
  <2>1. o[n] \in Nat /\ k \in Nat /\ o[n] + k \in 1..e /\ W[o[n] + k] = J(n)[k]
    BY <1>2, <1>14
  <2>2. Joined[5 + (o[n] + k)] = J(n)[k]
    BY <1>12, <2>1
  <2>3. 5 + (o[n] + k) = 5 + o[n] + k
    BY <2>1
  <2> QED BY <2>2, <2>3
<1>16. ASSUME NEW p \in 6..(5 + e)
       PROVE  \E n \in 1..N : \E k \in 1..Len(J(n)) : p = 5 + o[n] + k
  <2>1. p - 5 \in 1..Len(W)
    BY <1>8
  <2>2. IsOfPart(p - 5, W, Chain, o)
    BY <1>3, <1>5, <2>1, ElementOfPart
  <2>3. PICK n \in 1..Len(Chain) : \E k \in 1..Len(Chain[n]) : p - 5 = o[n] + k
    BY <2>2 DEF IsOfPart
  <2>4. PICK k \in 1..Len(Chain[n]) : p - 5 = o[n] + k
    BY <2>3
  <2>5. n \in 1..N /\ Chain[n] = J(n)
    BY <1>3
  <2>6. o[n] \in Nat /\ k \in Nat
    BY <1>2, <1>14, <2>5
  <2>7. p = 5 + o[n] + k
    <3>1. \A a, b \in Nat : p - 5 = a + b => p = 5 + a + b
      OBVIOUS
    <3> QED BY <2>4, <2>6, <3>1, Zenon
  <2> QED BY <2>5, <2>7
<1>17. o[1] = 0
  BY <1>5 DEF HasParts, Offsets
<1>18. Layout(o, e)
  BY <1>8, <1>10, <1>11, <1>13, <1>14, <1>15, <1>16, <1>17, Zenon DEF Layout, N, H, T, J
<1> QED BY <1>18

(* What an item of a check becomes.                                        *)
LEMMA GeneratedIs ==
  ASSUME policy \in Policies, NEW n \in 1..Len(checks), NEW m \in 1..Len(Body(n)), NEW first
  PROVE  LET item == Body(n)[m]
             G == Generated(first, n, m)
         IN  /\ item.item \in {"label", "branch", "ret", "trace"}
             /\ item.item = "label" =>
                  Len(G) = 1 /\ G[1] = Mark(Local(n, item.label)) /\ item.label \in Nat
             /\ item.item = "branch" =>
                  /\ Len(G) = 2 /\ G[1] = Load("arg")
                  /\ G[2] = Jump("jeq", item.k, Local(n, item.jt), Local(n, item.jf))
             /\ item.item = "ret" => Len(G) = 1 /\ G[1] = Ret(item.verdict) /\ item.verdict \in Verdicts
             /\ item.item = "trace" => Len(G) = 1 /\ G[1] = Trace(first + Cardinality(Traces(n, m)))
<1> DEFINE item == Body(n)[m]
           G == Generated(first, n, m)
<1>1. item \in Items
  BY CheckKnown
<1>2. item.item \in {"label", "branch", "ret", "trace"}
  BY <1>1 DEF Items
<1>3. CASE item.item = "label"
  <2>1. item.label \in Nat
    BY <1>1, <1>3 DEF Items
  <2>2. G = <<Mark(Local(n, item.label))>>
    BY <1>3 DEF Generated
  <2> HIDE DEF item, G
  <2>3. Len(G) = 1 /\ G[1] = Mark(Local(n, item.label))
    BY <2>2
  <2> QED BY <1>3, <2>1, <2>3 DEF item, G
<1>4. CASE item.item = "branch"
  <2>1. G = <<Load("arg"), Jump("jeq", item.k, Local(n, item.jt), Local(n, item.jf))>>
    BY <1>4 DEF Generated
  <2> HIDE DEF item, G
  <2>2. Len(G) = 2 /\ G[1] = Load("arg") /\ G[2] = Jump("jeq", item.k, Local(n, item.jt), Local(n, item.jf))
    BY <2>1
  <2> QED BY <1>4, <2>2 DEF item, G
<1>5. CASE item.item = "ret"
  <2>1. item.verdict \in Verdicts
    BY <1>1, <1>5 DEF Items, Verdicts
  <2>2. G = <<Ret(item.verdict)>>
    BY <1>5 DEF Generated
  <2> HIDE DEF item, G
  <2>3. Len(G) = 1 /\ G[1] = Ret(item.verdict)
    BY <2>2
  <2> QED BY <1>5, <2>1, <2>3 DEF item, G
<1>6. CASE item.item = "trace"
  <2>1. G = <<Trace(first + Cardinality(Traces(n, m)))>>
    BY <1>6 DEF Generated
  <2> HIDE DEF item, G
  <2>2. Len(G) = 1 /\ G[1] = Trace(first + Cardinality(Traces(n, m)))
    BY <2>1
  <2> QED BY <1>6, <2>2 DEF item, G
<1> QED BY <1>2, <1>3, <1>4, <1>5, <1>6

(* The items of check n, with data from first on, stand behind places r of *)
(* its lines.                                                              *)
BodyLayout(n, first, r) ==
  /\ first \in Nat /\ NumberedFrom(first, n) /\ r[1] = 0
  /\ \A m \in 1..Len(Body(n)) :
       /\ r[m] \in Nat /\ r[m + 1] = r[m] + Len(Generated(first, n, m))
       /\ \A k \in 1..Len(Generated(first, n, m)) :
            r[m] + k \in 1..Len(bpf_filters[n]) /\ bpf_filters[n][r[m] + k] = Generated(first, n, m)[k]
  /\ \A m, i \in 1..Len(Body(n)) : m < i => r[m] + Len(Generated(first, n, m)) <= r[i]
  /\ \A p \in 1..Len(bpf_filters[n]) :
       \E m \in 1..Len(Body(n)) : \E k \in 1..Len(Generated(first, n, m)) : p = r[m] + k

(* The instructions of a compiled check have a layout.                     *)
LEMMA BodyLayoutExists ==
  ASSUME Ready, NEW n \in 1..Len(checks)
  PROVE  \E first, r : BodyLayout(n, first, r)
<1>1. PICK first \in Nat : NumberedFrom(first, n)
  <2>1. n \in 1..Len(bpf_filters)
    BY DEF Ready
  <2> QED BY <2>1 DEF Ready, FiltersInv
<1> DEFINE G == [m \in DOMAIN Body(n) |-> Generated(first, n, m)]
           M == Len(Body(n))
           W == bpf_filters[n]
           Gen(m) == Generated(first, n, m)
<1>2. M \in Nat /\ G \in Seq(Seq(Instructions)) /\ Len(G) = M /\ \A m \in 1..M : G[m] = Gen(m)
  <2>1. policy \in Policies
    BY DEF Ready
  <2>2. G \in Seq(Seq(Instructions)) /\ Len(G) = M /\ \A m \in 1..Len(G) : G[m] = Gen(m)
    BY <2>1, BodyGenerated
  <2>3. M \in Nat
    BY <2>1, CheckKnown
  <2> QED BY <2>2, <2>3
<1>3. W = FlattenSeq(G)
  BY <1>1 DEF NumberedFrom
<1> HIDE DEF G, M, W, Gen
<1>4. W \in Seq(Instructions) /\ \E r : HasParts(W, G, r)
  BY <1>2, <1>3, FlattenContains
<1>5. PICK r : HasParts(W, G, r)
  BY <1>4
<1>6. r[1] = 0 /\ \A m \in 1..M : r[m + 1] = r[m] + Len(Gen(m))
  BY <1>2, <1>5 DEF HasParts, Offsets, Lengths
<1>7. ASSUME NEW m \in 1..M
      PROVE  /\ r[m] \in Nat
             /\ \A k \in 1..Len(Gen(m)) : r[m] + k \in 1..Len(W) /\ W[r[m] + k] = Gen(m)[k]
             /\ \A i \in 1..M : m < i => r[m] + Len(Gen(m)) <= r[i]
  <2>1. m \in 1..Len(G) /\ G[m] = Gen(m)
    BY <1>2
  <2>2. /\ r[m] \in Nat
        /\ \A i \in 1..Len(G) : m < i => r[m] + Len(G[m]) <= r[i]
        /\ \A k \in 1..Len(G[m]) : r[m] + k \in 1..Len(W) /\ W[r[m] + k] = G[m][k]
    BY <1>2, <1>5, <2>1, PlaceOfPart
  <2> QED BY <1>2, <2>1, <2>2
<1>8. ASSUME NEW p \in 1..Len(W)
      PROVE  \E m \in 1..M : \E k \in 1..Len(Gen(m)) : p = r[m] + k
  <2>1. IsOfPart(p, W, G, r)
    BY <1>2, <1>5, ElementOfPart
  <2>2. PICK m \in 1..Len(G) : \E k \in 1..Len(G[m]) : p = r[m] + k
    BY <2>1 DEF IsOfPart
  <2> QED BY <1>2, <2>2
<1>9. BodyLayout(n, first, r)
  BY <1>1, <1>6, <1>7, <1>8, Zenon DEF BodyLayout, M, W, Gen
<1> QED BY <1>9

-----------------------------------------------------------------------------
(* The labels of the text *)

(* In front of a check is its name, in it are its own labels, at the end   *)
(* of the text those of the verdicts.                                      *)
IsName(p, n, o) == p = 5 + o[n] + 1 /\ Joined[p] = Mark(Name(checks[n].syscall))

IsLocal(p, n, o) ==
  \A first, r : BodyLayout(n, first, r) =>
    \E m \in 1..Len(Body(n)) :
      /\ Body(n)[m].item = "label" /\ p = 5 + o[n] + 2 + (r[m] + 1)
      /\ Joined[p] = Mark(Local(n, Body(n)[m].label))

IsLast(p, e) == \E k \in 1..Len(Trailer) : p = 5 + e + k /\ Joined[p] = Trailer[k]

(* There are no other labels.                                              *)
LEMMA MarkKnown ==
  ASSUME Ready, NEW o, NEW e, Layout(o, e), NEW p \in 1..Len(Joined), IsMark(Joined[p])
  PROVE  \/ \E n \in 1..Len(checks) : IsName(p, n, o)
         \/ \E n \in 1..Len(checks) : IsLocal(p, n, o)
         \/ IsLast(p, e)
<1>1. /\ e \in Nat /\ Len(Joined) = 5 + e + Len(Trailer) /\ Len(Trailer) \in Nat
      /\ \A k \in 1..5 : Joined[k] = Header[k]
      /\ \A k \in 1..Len(Trailer) : Joined[5 + e + k] = Trailer[k]
  <2>1. Trailer \in Seq(Texts)
    BY EndsKnown DEF Ready
  <2>2. Len(Trailer) \in Nat
    BY <2>1
  <2> QED BY <2>2 DEF Layout
<1>2. CASE p \in 1..5
  <2>1. Joined[p] = Header[p]
    BY <1>1, <1>2
  <2>2. ~IsMark(Header[1]) /\ ~IsMark(Header[2]) /\ ~IsMark(Header[3]) /\ ~IsMark(Header[4]) /\ ~IsMark(Header[5])
    BY EndsKnown DEF Ready, IsMark, Load, Jump, UnsetX32
  <2> QED BY <1>2, <2>1, <2>2
<1>3. CASE p \in 6..(5 + e)
  <2>1. PICK n \in 1..Len(checks) : \E k \in 1..Len(JoinCheck(n)) : p = 5 + o[n] + k
    BY <1>3 DEF Layout
  <2>2. PICK k \in 1..Len(JoinCheck(n)) : p = 5 + o[n] + k
    BY <2>1
  <2>3. Joined[p] = JoinCheck(n)[k] /\ o[n] \in Nat
    BY <2>2 DEF Layout
  <2>4. /\ Len(JoinCheck(n)) = 2 + Len(bpf_filters[n]) /\ Len(bpf_filters[n]) \in Nat
        /\ JoinCheck(n)[1] = Mark(Name(checks[n].syscall))
        /\ JoinCheck(n)[2] = Jump("jeq", checks[n].syscall, Zero, After(n))
        /\ \A j \in 1..Len(bpf_filters[n]) : JoinCheck(n)[2 + j] = bpf_filters[n][j]
    BY JoinCheckKnown
  <2>5. CASE k = 1
    <3>1. IsName(p, n, o)
      BY <2>2, <2>3, <2>4, <2>5 DEF IsName
    <3> QED BY <3>1
  <2>6. CASE k = 2
    BY <2>3, <2>4, <2>6 DEF IsMark, Jump
  <2>7. CASE k # 1 /\ k # 2
    <3>1. k - 2 \in 1..Len(bpf_filters[n]) /\ 2 + (k - 2) = k
      BY <2>4, <2>7
    <3>2. PICK j \in 1..Len(bpf_filters[n]) : k = 2 + j /\ Joined[p] = bpf_filters[n][j]
      BY <2>3, <2>4, <3>1
    <3>3. ASSUME NEW first, NEW r, BodyLayout(n, first, r)
          PROVE  \E m \in 1..Len(Body(n)) :
                   /\ Body(n)[m].item = "label" /\ p = 5 + o[n] + 2 + (r[m] + 1)
                   /\ Joined[p] = Mark(Local(n, Body(n)[m].label))
      <4>1. PICK m \in 1..Len(Body(n)) : \E i \in 1..Len(Generated(first, n, m)) : j = r[m] + i
        BY <3>3 DEF BodyLayout
      <4>2. PICK i \in 1..Len(Generated(first, n, m)) : j = r[m] + i
        BY <4>1
      <4>3. Joined[p] = Generated(first, n, m)[i] /\ r[m] \in Nat
        BY <3>2, <3>3, <4>2 DEF BodyLayout
      <4> DEFINE item == Body(n)[m]
                 G == Generated(first, n, m)
      <4>4. /\ item.item \in {"label", "branch", "ret", "trace"}
            /\ item.item = "label" => Len(G) = 1 /\ G[1] = Mark(Local(n, item.label))
            /\ item.item = "branch" =>
                 /\ Len(G) = 2 /\ G[1] = Load("arg")
                 /\ G[2] = Jump("jeq", item.k, Local(n, item.jt), Local(n, item.jf))
            /\ item.item = "ret" => Len(G) = 1 /\ G[1] = Ret(item.verdict)
            /\ item.item = "trace" => Len(G) = 1 /\ G[1] = Trace(first + Cardinality(Traces(n, m)))
        BY GeneratedIs DEF Ready
      <4>5. IsMark(G[i])
        BY <4>3
      <4>6. i \in 1..Len(G)
        BY <4>2
      <4>7. item.item = "label" /\ i = 1
        <5>1. PICK g, t, len : g = G /\ t = item.item /\ len = Len(G)
          OBVIOUS
        <5>2. i \in 1..len /\ IsMark(g[i]) /\ t \in {"label", "branch", "ret", "trace"}
          BY <4>4, <4>5, <4>6, <5>1
        <5>3. /\ t = "label" => len = 1
              /\ t = "branch" => len = 2 /\ ~IsMark(g[1]) /\ ~IsMark(g[2])
              /\ t = "ret" => len = 1 /\ ~IsMark(g[1])
              /\ t = "trace" => len = 1 /\ ~IsMark(g[1])
          <6>1. \A a, b, c, d, x : ~IsMark(Load(a)) /\ ~IsMark(Jump(a, b, c, d)) /\ ~IsMark(Ret(a)) /\ ~IsMark(Trace(x))
            BY DEF IsMark, Load, Jump, Ret, Trace
          <6> HIDE DEF item, G
          <6> QED BY <4>4, <5>1, <6>1, Zenon
        <5>4. t = "label" /\ i = 1
          BY <5>2, <5>3
        <5> QED BY <5>1, <5>4
      <4>8. Joined[p] = Mark(Local(n, item.label))
        BY <4>3, <4>4, <4>7 DEF G
      <4>9. p = 5 + o[n] + 2 + (r[m] + 1)
        <5>1. k = 2 + j /\ j = r[m] + 1
          BY <3>2, <4>2, <4>7
        <5>2. o[n] \in Nat /\ r[m] \in Nat
          BY <2>3, <4>3
        <5>3. \A a, b \in Nat : (5 + a) + (2 + (b + 1)) = ((5 + a) + 2) + (b + 1)
          OBVIOUS
        <5> QED BY <2>2, <5>1, <5>2, <5>3
      <4> QED BY <4>7, <4>8, <4>9 DEF item
    <3>4. IsLocal(p, n, o)
      BY <3>3 DEF IsLocal
    <3> QED BY <3>4
  <2> QED BY <2>5, <2>6, <2>7
<1>4. CASE p \notin 1..5 /\ p \notin 6..(5 + e)
  <2>1. p - (5 + e) \in 1..Len(Trailer) /\ 5 + e + (p - (5 + e)) = p
    BY <1>1, <1>4
  <2>2. \E k \in 1..Len(Trailer) : p = 5 + e + k /\ Joined[p] = Trailer[k]
    BY <1>1, <2>1
  <2> QED BY <2>2 DEF IsLast
<1> QED BY <1>2, <1>3, <1>4

(* The lines at the end that are labels.                                   *)
LEMMA LastKnown ==
  ASSUME Ready, NEW o, NEW e, Layout(o, e), NEW p, IsLast(p, e), NEW l, Joined[p] = Mark(l)
  PROVE  /\ l \in {Allow, Deny} /\ l[1] \notin {"syscall", "label"}
         /\ l = Default => p = 5 + e + 1
         /\ l = Deny => p = 5 + e + IF policy.default = "deny" THEN 1 ELSE 3
<1>1. PICK k \in 1..Len(Trailer) : p = 5 + e + k /\ Joined[p] = Trailer[k]
  BY DEF IsLast
<1>2. Allow # Deny /\ Allow[1] = "__allow" /\ Deny[1] = "__deny"
  BY DEF Allow, Deny
<1>3. \A a : Mark(l) = Mark(a) => l = a
  BY DEF Mark
<1>4. \A v : Ret(v) # Mark(l)
  BY DEF Mark, Ret
<1>5. CASE policy.default = "deny"
  <2>1. Len(Trailer) = 2 /\ Default = Deny /\ Trailer[1] = Mark(Deny) /\ Trailer[2] = Ret("deny")
    BY <1>5, EndsKnown DEF Ready
  <2>2. k = 1 \/ k = 2
    BY <2>1
  <2>3. k = 1 /\ l = Deny
    BY <1>1, <1>3, <1>4, <2>1, <2>2
  <2> QED BY <1>1, <1>2, <1>5, <2>1, <2>3
<1>6. CASE policy.default # "deny"
  <2>1. /\ Len(Trailer) = 4 /\ Default = Allow
        /\ Trailer[1] = Mark(Allow) /\ Trailer[2] = Ret("allow")
        /\ Trailer[3] = Mark(Deny) /\ Trailer[4] = Ret("deny")
    BY <1>6, EndsKnown DEF Ready
  <2>2. k = 1 \/ k = 2 \/ k = 3 \/ k = 4
    BY <2>1
  <2>3. (k = 1 /\ l = Allow) \/ (k = 3 /\ l = Deny)
    BY <1>1, <1>3, <1>4, <2>1, <2>2
  <2> QED BY <1>1, <1>2, <1>6, <2>1, <2>3
<1> QED BY <1>5, <1>6

(* A label is looked for among the labels of the text.                     *)
LEMMA MarksAre ==
  ASSUME Ready, NEW o, NEW e, Layout(o, e), NEW l, NEW p \in Marks(Joined, l)
  PROVE  /\ p \in 1..Len(Joined) /\ Joined[p] = Mark(l)
         /\ \/ \E n \in 1..Len(checks) : IsName(p, n, o) /\ l = Name(checks[n].syscall)
            \/ \E n \in 1..Len(checks) : IsLocal(p, n, o) /\ l[1] = "label" /\ l[2] = n
            \/ IsLast(p, e) /\ l[1] \notin {"syscall", "label"}
<1>1. Joined \in Seq(Texts)
  BY DEF Layout
<1>2. p \in 1..Len(Joined) /\ Joined[p] = Mark(l) /\ IsMark(Joined[p])
  BY <1>1 DEF Marks, IsMark, Mark
<1>3. \A a : Mark(l) = Mark(a) => l = a
  BY DEF Mark
<1>4. ASSUME NEW n \in 1..Len(checks), IsName(p, n, o) PROVE l = Name(checks[n].syscall)
  BY <1>2, <1>3, <1>4 DEF IsName
<1>5. ASSUME NEW n \in 1..Len(checks), IsLocal(p, n, o) PROVE l[1] = "label" /\ l[2] = n
  <2>1. PICK first, r : BodyLayout(n, first, r)
    BY BodyLayoutExists
  <2>2. PICK m \in 1..Len(Body(n)) : Joined[p] = Mark(Local(n, Body(n)[m].label))
    BY <1>5, <2>1 DEF IsLocal
  <2>3. l = Local(n, Body(n)[m].label)
    BY <1>2, <1>3, <2>2
  <2> QED BY <2>3 DEF Local
<1>6. IsLast(p, e) => l[1] \notin {"syscall", "label"}
  BY <1>2, LastKnown
<1> QED BY <1>2, <1>4, <1>5, <1>6, MarkKnown

(* The places after which the lines of a call start and a verdict is given. *)
CheckPlace(n, o) == 5 + o[n] + 1
DefaultPlace(e) == 5 + e + 1
DenyPlace(e) == 5 + e + IF policy.default = "deny" THEN 1 ELSE 3

(* The place of the label that is item m of check n.                       *)
ItemPlace(n, m, o, r) == 5 + o[n] + 2 + (r[m] + 1)

(* With one check per call, its name stands once.                          *)
LEMMA CheckMark ==
  ASSUME Ready, Distinct, NEW o, NEW e, Layout(o, e), NEW n \in 1..Len(checks)
  PROVE  /\ Marks(Joined, Name(checks[n].syscall)) = {CheckPlace(n, o)}
         /\ CheckPlace(n, o) \in 1..Len(Joined) /\ o[n] \in Nat
         /\ IsMark(Joined[CheckPlace(n, o)])
         /\ Joined[CheckPlace(n, o) + 1] = Jump("jeq", checks[n].syscall, Zero, After(n))
         /\ CheckPlace(n, o) + 1 \in 1..Len(Joined)
         /\ CheckPlace(n, o) + 1 <= 5 + e
         /\ \A i \in 1..Len(checks) : n < i => CheckPlace(n, o) + 1 < CheckPlace(i, o)
<1> DEFINE l == Name(checks[n].syscall)
           p == CheckPlace(n, o)
<1>1. /\ e \in Nat /\ o[n] \in Nat /\ o[n] + Len(JoinCheck(n)) <= e
      /\ \A i \in 1..Len(checks) : n < i => o[n] + Len(JoinCheck(n)) <= o[i]
      /\ \A i \in 1..Len(checks) : o[i] \in Nat
      /\ \A k \in 1..Len(JoinCheck(n)) : Joined[5 + o[n] + k] = JoinCheck(n)[k]
      /\ Joined \in Seq(Texts) /\ Len(Joined) = 5 + e + Len(Trailer)
  BY DEF Layout
<1>2. /\ Len(JoinCheck(n)) = 2 + Len(bpf_filters[n]) /\ Len(bpf_filters[n]) \in Nat
      /\ JoinCheck(n)[1] = Mark(l) /\ JoinCheck(n)[2] = Jump("jeq", checks[n].syscall, Zero, After(n))
  BY JoinCheckKnown
<1>3. Trailer \in Seq(Texts)
  BY EndsKnown DEF Ready
<1>4. Len(Trailer) \in Nat
  BY <1>3
<1>5. 1 \in 1..Len(JoinCheck(n)) /\ 2 \in 1..Len(JoinCheck(n)) /\ Len(JoinCheck(n)) \in Nat /\ Len(JoinCheck(n)) >= 2
  BY <1>2
<1>6. p = 5 + o[n] + 1 /\ p + 1 = 5 + o[n] + 2
  BY <1>1 DEF CheckPlace
<1>7. Joined[p] = Mark(l) /\ Joined[p + 1] = Jump("jeq", checks[n].syscall, Zero, After(n))
  BY <1>1, <1>2, <1>5, <1>6
<1>8. p \in 1..Len(Joined) /\ p + 1 \in 1..Len(Joined) /\ p + 1 <= 5 + e
  <2>1. \A a, c, t, x, N \in Nat : a + c <= x /\ c >= 2 /\ N = 5 + x + t =>
          5 + a + 1 \in 1..N /\ 5 + a + 2 \in 1..N /\ 5 + a + 2 <= 5 + x
    OBVIOUS
  <2>2. Len(Joined) \in Nat
    BY <1>1
  <2>3. 5 + o[n] + 1 \in 1..Len(Joined) /\ 5 + o[n] + 2 \in 1..Len(Joined) /\ 5 + o[n] + 2 <= 5 + e
    BY <1>1, <1>4, <1>5, <2>1, <2>2, Zenon
  <2> QED BY <1>6, <2>3, Zenon
<1>9. ASSUME NEW i \in 1..Len(checks), n < i PROVE p + 1 < CheckPlace(i, o)
  <2>1. o[i] \in Nat /\ o[n] + Len(JoinCheck(n)) <= o[i]
    BY <1>1, <1>9
  <2>2. \A a, b, c \in Nat : a + c <= b /\ c >= 2 => 5 + a + 2 < 5 + b + 1
    OBVIOUS
  <2>3. 5 + o[n] + 2 < 5 + o[i] + 1
    BY <1>1, <1>5, <2>1, <2>2, Zenon
  <2> QED BY <1>6, <2>3, Zenon DEF CheckPlace
<1>10. p \in Marks(Joined, l)
  BY <1>1, <1>7, <1>8 DEF Marks
<1>11. ASSUME NEW q \in Marks(Joined, l) PROVE q = p
  <2>1. l[1] = "syscall"
    BY DEF Name
  <2>2. PICK i \in 1..Len(checks) : IsName(q, i, o) /\ l = Name(checks[i].syscall)
    <3>1. \/ \E i \in 1..Len(checks) : IsName(q, i, o) /\ l = Name(checks[i].syscall)
          \/ \E i \in 1..Len(checks) : IsLocal(q, i, o) /\ l[1] = "label" /\ l[2] = i
          \/ IsLast(q, e) /\ l[1] \notin {"syscall", "label"}
      BY MarksAre
    <3> HIDE DEF l
    <3> QED BY <2>1, <3>1
  <2>3. checks[n].syscall = checks[i].syscall
    <3>1. \A x, y : Name(x) = Name(y) => x = y
      BY DEF Name
    <3> QED BY <2>2, <3>1, Zenon
  <2>4. i = n
    BY <2>3, LabelsOfChecks DEF Ready
  <2> QED BY <2>2, <2>4 DEF IsName, CheckPlace
<1>12. Marks(Joined, l) = {p}
  BY <1>10, <1>11
<1>13. IsMark(Joined[p])
  BY <1>7 DEF IsMark, Mark
<1> HIDE DEF p
<1> QED BY <1>1, <1>7, <1>8, <1>9, <1>12, <1>13 DEF p

(* So do the labels at the end, and there the verdicts follow them.        *)
LEMMA LastMarks ==
  ASSUME Ready, NEW o, NEW e, Layout(o, e)
  PROVE  /\ Marks(Joined, Default) = {DefaultPlace(e)} /\ Default # Zero
         /\ DefaultPlace(e) \in 1..Len(Joined) /\ DefaultPlace(e) + 1 \in 1..Len(Joined)
         /\ IsMark(Joined[DefaultPlace(e)]) /\ Joined[DefaultPlace(e) + 1] = Ret(policy.default)
         /\ Marks(Joined, Deny) = {DenyPlace(e)} /\ Deny # Zero
         /\ DenyPlace(e) \in 1..Len(Joined) /\ DenyPlace(e) + 1 \in 1..Len(Joined)
         /\ IsMark(Joined[DenyPlace(e)]) /\ Joined[DenyPlace(e) + 1] = Ret("deny")
         /\ 5 + e < DefaultPlace(e) /\ 5 + e < DenyPlace(e) /\ e \in Nat
<1>1. /\ e \in Nat /\ Joined \in Seq(Texts) /\ Len(Joined) = 5 + e + Len(Trailer)
      /\ \A k \in 1..Len(Trailer) : Joined[5 + e + k] = Trailer[k]
  BY DEF Layout
<1>2. Default # Zero /\ Deny # Zero /\ Default[1] \notin {"syscall", "label"} /\ Deny[1] \notin {"syscall", "label"}
  BY DEF Default, Deny, Allow, Zero
<1>3. ASSUME NEW l \in {Default, Deny}, NEW p \in Marks(Joined, l)
      PROVE  /\ l = Default => p = DefaultPlace(e)
             /\ l = Deny => p = DenyPlace(e)
  <2>1. l[1] \notin {"syscall", "label"}
    BY <1>2
  <2>2. \A s : Name(s)[1] = "syscall"
    BY DEF Name
  <2>3. IsLast(p, e) /\ Joined[p] = Mark(l)
    BY <2>1, <2>2, MarksAre
  <2> QED BY <2>3, LastKnown DEF DefaultPlace, DenyPlace
<1>4. \A l : IsMark(Mark(l))
  BY DEF IsMark, Mark
<1>5. CASE policy.default = "deny"
  <2>1. Len(Trailer) = 2 /\ Default = Deny /\ Trailer[1] = Mark(Deny) /\ Trailer[2] = Ret("deny")
    BY <1>5, EndsKnown DEF Ready
  <2>2. DefaultPlace(e) = 5 + e + 1 /\ DenyPlace(e) = 5 + e + 1 /\ (5 + e + 1) + 1 = 5 + e + 2
    BY <1>1, <1>5 DEF DefaultPlace, DenyPlace
  <2>3. 5 + e + 1 \in 1..Len(Joined) /\ 5 + e + 2 \in 1..Len(Joined)
    BY <1>1, <2>1
  <2>4. Joined[5 + e + 1] = Mark(Deny) /\ Joined[5 + e + 2] = Ret("deny")
    BY <1>1, <2>1
  <2>5. Marks(Joined, Deny) = {5 + e + 1}
    BY <1>1, <1>3, <2>2, <2>3, <2>4 DEF Marks
  <2>6. 5 + e < 5 + e + 1
    BY <1>1
  <2> QED BY <1>1, <1>2, <1>4, <1>5, <2>1, <2>2, <2>3, <2>4, <2>5, <2>6
<1>6. CASE policy.default # "deny"
  <2>1. /\ Len(Trailer) = 4 /\ Default = Allow /\ policy.default = "allow"
        /\ Trailer[1] = Mark(Allow) /\ Trailer[2] = Ret("allow")
        /\ Trailer[3] = Mark(Deny) /\ Trailer[4] = Ret("deny")
    BY <1>6, EndsKnown DEF Ready
  <2>2. /\ DefaultPlace(e) = 5 + e + 1 /\ DenyPlace(e) = 5 + e + 3
        /\ (5 + e + 1) + 1 = 5 + e + 2 /\ (5 + e + 3) + 1 = 5 + e + 4
    BY <1>1, <1>6 DEF DefaultPlace, DenyPlace
  <2>3. /\ 5 + e + 1 \in 1..Len(Joined) /\ 5 + e + 2 \in 1..Len(Joined)
        /\ 5 + e + 3 \in 1..Len(Joined) /\ 5 + e + 4 \in 1..Len(Joined)
    BY <1>1, <2>1
  <2>4. /\ Joined[5 + e + 1] = Mark(Allow) /\ Joined[5 + e + 2] = Ret("allow")
        /\ Joined[5 + e + 3] = Mark(Deny) /\ Joined[5 + e + 4] = Ret("deny")
    BY <1>1, <2>1
  <2>5. Marks(Joined, Allow) = {5 + e + 1}
    BY <1>1, <1>3, <2>1, <2>2, <2>3, <2>4 DEF Marks
  <2>6. Marks(Joined, Deny) = {5 + e + 3}
    BY <1>1, <1>3, <2>1, <2>2, <2>3, <2>4 DEF Marks
  <2>7. 5 + e < 5 + e + 1 /\ 5 + e < 5 + e + 3
    BY <1>1
  <2> QED BY <1>1, <1>2, <1>4, <2>1, <2>2, <2>3, <2>4, <2>5, <2>6, <2>7
<1> QED BY <1>5, <1>6

(* A label that stands once in a check stands once in the text.            *)
LEMMA LocalMark ==
  ASSUME Ready, NEW o, NEW e, Layout(o, e), NEW n \in 1..Len(checks),
         NEW first, NEW r, BodyLayout(n, first, r),
         NEW l \in Nat, NEW m \in 1..Len(Body(n)), PlacesOf(Body(n), l) = {m}
  PROVE  /\ Marks(Joined, Local(n, l)) = {ItemPlace(n, m, o, r)}
         /\ ItemPlace(n, m, o, r) \in 1..Len(Joined)
         /\ IsMark(Joined[ItemPlace(n, m, o, r)]) /\ Local(n, l) # Zero
<1> DEFINE p == ItemPlace(n, m, o, r)
<1>1. /\ e \in Nat /\ o[n] \in Nat /\ o[n] + Len(JoinCheck(n)) <= e
      /\ \A k \in 1..Len(JoinCheck(n)) : Joined[5 + o[n] + k] = JoinCheck(n)[k]
      /\ Joined \in Seq(Texts) /\ Len(Joined) = 5 + e + Len(Trailer)
  BY DEF Layout
<1>2. /\ Len(JoinCheck(n)) = 2 + Len(bpf_filters[n]) /\ Len(bpf_filters[n]) \in Nat
      /\ \A k \in 1..Len(bpf_filters[n]) : JoinCheck(n)[2 + k] = bpf_filters[n][k]
  BY JoinCheckKnown
<1>3. Trailer \in Seq(Texts)
  BY EndsKnown DEF Ready
<1>4. Len(Trailer) \in Nat
  BY <1>3
<1>5. DOMAIN Body(n) = 1..Len(Body(n))
  BY CheckKnown DEF Ready
<1>6. Body(n)[m].item = "label" /\ Body(n)[m].label = l
  BY DEF PlacesOf
<1>7. Len(Generated(first, n, m)) = 1 /\ Generated(first, n, m)[1] = Mark(Local(n, l))
  BY <1>6, GeneratedIs DEF Ready
<1>8. r[m] \in Nat /\ r[m] + 1 \in 1..Len(bpf_filters[n]) /\ bpf_filters[n][r[m] + 1] = Mark(Local(n, l))
  <2>1. 1 \in 1..Len(Generated(first, n, m))
    BY <1>7
  <2>2. r[m] \in Nat /\ \A k \in 1..Len(Generated(first, n, m)) :
            r[m] + k \in 1..Len(bpf_filters[n]) /\ bpf_filters[n][r[m] + k] = Generated(first, n, m)[k]
    BY DEF BodyLayout
  <2> QED BY <1>7, <2>1, <2>2
<1>9. 2 + (r[m] + 1) \in 1..Len(JoinCheck(n)) /\ JoinCheck(n)[2 + (r[m] + 1)] = Mark(Local(n, l))
  <2>1. \A b, c, L \in Nat : b + 1 \in 1..c /\ L = 2 + c => 2 + (b + 1) \in 1..L
    OBVIOUS
  <2>2. Len(JoinCheck(n)) \in Nat
    BY <1>2
  <2> QED BY <1>2, <1>8, <2>1, <2>2
<1>10. p = 5 + o[n] + (2 + (r[m] + 1))
  <2>1. \A a, b \in Nat : (5 + a) + (2 + (b + 1)) = ((5 + a) + 2) + (b + 1)
    OBVIOUS
  <2> QED BY <1>1, <1>8, <2>1 DEF ItemPlace
<1>11. Joined[p] = Mark(Local(n, l))
  BY <1>1, <1>9, <1>10
<1>12. p \in 1..Len(Joined)
  <2>1. \A a, b, c, t, x, N \in Nat : 2 + (b + 1) \in 1..c /\ a + c <= x /\ N = 5 + x + t =>
          5 + a + (2 + (b + 1)) \in 1..N
    OBVIOUS
  <2>2. Len(JoinCheck(n)) \in Nat /\ Len(Joined) \in Nat
    BY <1>1, <1>2
  <2>3. 5 + o[n] + (2 + (r[m] + 1)) \in 1..Len(Joined)
    BY <1>1, <1>4, <1>8, <1>9, <2>1, <2>2, Zenon
  <2> QED BY <1>10, <2>3, Zenon
<1>13. p \in Marks(Joined, Local(n, l))
  BY <1>1, <1>11, <1>12 DEF Marks
<1>14. ASSUME NEW q \in Marks(Joined, Local(n, l)) PROVE q = p
  <2>1. Local(n, l)[1] = "label" /\ Local(n, l)[2] = n /\ \A s : Name(s)[1] = "syscall"
    BY DEF Local, Name
  <2>2. IsLocal(q, n, o) /\ Joined[q] = Mark(Local(n, l))
    BY <2>1, MarksAre
  <2>3. PICK i \in 1..Len(Body(n)) : /\ Body(n)[i].item = "label" /\ q = 5 + o[n] + 2 + (r[i] + 1)
                                     /\ Joined[q] = Mark(Local(n, Body(n)[i].label))
    BY <2>2 DEF IsLocal
  <2>4. Body(n)[i].label = l
    BY <2>2, <2>3 DEF Mark, Local
  <2>5. i \in PlacesOf(Body(n), l)
    BY <1>5, <2>3, <2>4 DEF PlacesOf
  <2> QED BY <2>3, <2>5 DEF ItemPlace
<1>15. IsMark(Joined[p]) /\ Local(n, l) # Zero
  BY <1>11 DEF IsMark, Mark, Local, Zero
<1> HIDE DEF p
<1>16. Marks(Joined, Local(n, l)) = {p}
  BY <1>13, <1>14
<1> QED BY <1>12, <1>15, <1>16 DEF p

-----------------------------------------------------------------------------
(* What a check says *)

(* A branch leads on to a label that stands once in the check.             *)
LEMMA BranchKnown ==
  ASSUME policy \in Policies, NEW n \in 1..Len(checks), NEW m \in 1..Len(Body(n)),
         Body(n)[m].item = "branch", NEW l \in {Body(n)[m].jt, Body(n)[m].jf}
  PROVE  /\ l \in Nat
         /\ \E place \in 1..Len(Body(n)) : m < place /\ PlacesOf(Body(n), l) = {place}
<1> DEFINE c == checks[n]
<1>1. c \in CompiledChecks /\ Body(n) = c.filter
  BY ChecksKnown DEF Body
<1>2. DOMAIN Body(n) = 1..Len(Body(n)) /\ Body(n)[m] \in Items
  BY CheckKnown
<1> HIDE DEF c
<1>3. \A i \in DOMAIN c.filter :
        c.filter[i].item = "branch" =>
          \A x \in {c.filter[i].jt, c.filter[i].jf} :
            \E place \in DOMAIN c.filter : i < place /\ PlacesOf(c.filter, x) = {place}
  BY <1>1, Zenon DEF CompiledChecks
<1>4. \E place \in DOMAIN Body(n) : m < place /\ PlacesOf(Body(n), l) = {place}
  BY <1>1, <1>2, <1>3
<1>5. l \in Nat
  BY <1>2 DEF Items
<1> QED BY <1>2, <1>4, <1>5

(* The place a label is at, as the run of a check looks it up.             *)
PlaceOf(n, l) == CHOOSE p \in PlacesOf(Body(n), l) : TRUE

(* The verdict of the block of tracer code with a label.                   *)
VerdictOf(n, l) == (CHOOSE b \in ToSet(checks[n].code) : b.label = l).verdict

(* A hand-over has a block, whose verdict is the one looked up.            *)
LEMMA VerdictKnown ==
  ASSUME policy \in Policies, NEW n \in 1..Len(checks), NEW m \in 1..Len(Body(n)), Body(n)[m].item = "trace"
  PROVE  \E b \in 1..Len(checks[n].code) :
           checks[n].code[b].label = Body(n)[m].label /\ VerdictOf(n, Body(n)[m].label) = checks[n].code[b].verdict
<1> DEFINE l == Body(n)[m].label
           S == ToSet(checks[n].code)
           B == CHOOSE b \in S : b.label = l
<1>1. DOMAIN checks[n].code = 1..Len(checks[n].code) /\ DOMAIN Body(n) = 1..Len(Body(n))
  BY CheckKnown
<1>2. S = {checks[n].code[b] : b \in 1..Len(checks[n].code)}
  BY <1>1 DEF ToSet
<1>3. \E b \in DOMAIN checks[n].code : checks[n].code[b].label = l
  BY <1>1, CheckKnown
<1>4. \E b \in S : b.label = l
  BY <1>1, <1>2, <1>3
<1> HIDE DEF S
<1>5. B \in S /\ B.label = l
  BY <1>4
<1> HIDE DEF B
<1>6. PICK b \in 1..Len(checks[n].code) : B = checks[n].code[b]
  BY <1>2, <1>5
<1>7. VerdictOf(n, l) = B.verdict
  BY DEF VerdictOf, B, S
<1> QED BY <1>5, <1>6, <1>7

(* Where the run of a check goes on from an item that does not end it.     *)
Onward(n, call, m) ==
  LET item == Body(n)[m]
  IN  IF item.item = "label" THEN m + 1
      ELSE PlaceOf(n, IF call.arg = item.k THEN item.jt ELSE item.jf)

(* It goes on with a later item.                                           *)
LEMMA OnwardKnown ==
  ASSUME policy \in Policies, NEW n \in 1..Len(checks), NEW call, NEW m \in 1..Len(Body(n)),
         Body(n)[m].item \in {"label", "branch"}
  PROVE  /\ Onward(n, call, m) \in Nat /\ m < Onward(n, call, m)
         /\ Body(n)[m].item = "branch" =>
              LET l == IF call.arg = Body(n)[m].k THEN Body(n)[m].jt ELSE Body(n)[m].jf
              IN  /\ l \in Nat /\ Onward(n, call, m) \in 1..Len(Body(n))
                  /\ PlacesOf(Body(n), l) = {Onward(n, call, m)}
<1>1. CASE Body(n)[m].item = "label"
  BY <1>1 DEF Onward
<1>2. CASE Body(n)[m].item = "branch"
  <2> DEFINE l == IF call.arg = Body(n)[m].k THEN Body(n)[m].jt ELSE Body(n)[m].jf
  <2>1. l \in {Body(n)[m].jt, Body(n)[m].jf}
    OBVIOUS
  <2>2. Onward(n, call, m) = PlaceOf(n, l)
    BY <1>2 DEF Onward
  <2> HIDE DEF l
  <2>3. l \in Nat /\ \E place \in 1..Len(Body(n)) : m < place /\ PlacesOf(Body(n), l) = {place}
    <3>1. \A x \in {Body(n)[m].jt, Body(n)[m].jf} :
            x \in Nat /\ \E place \in 1..Len(Body(n)) : m < place /\ PlacesOf(Body(n), x) = {place}
      BY <1>2, BranchKnown
    <3> QED BY <2>1, <3>1
  <2>4. PICK place \in 1..Len(Body(n)) : m < place /\ PlacesOf(Body(n), l) = {place}
    BY <2>3
  <2>5. PlaceOf(n, l) = place
    BY <2>4 DEF PlaceOf
  <2> QED BY <1>2, <2>2, <2>3, <2>4, <2>5 DEF l
<1> QED BY <1>1, <1>2

(* The run of a check, one item after the other.                           *)
LEMMA CheckRunIs ==
  ASSUME policy \in Policies, NEW n \in 1..Len(checks), NEW call \in Calls, NEW m \in Nat
  PROVE  CheckRun(n, call)[m] =
           IF m \notin 1..Len(Body(n)) THEN "none"
           ELSE IF Body(n)[m].item = "ret" THEN Body(n)[m].verdict
           ELSE IF Body(n)[m].item = "trace" THEN VerdictOf(n, Body(n)[m].label)
           ELSE CheckRun(n, call)[Onward(n, call, m)]
<1> DEFINE M == Len(Body(n))
           rank == [x \in Nat |-> IF x <= M THEN (M + 1) - x ELSE 0]
           ends == {x \in Nat : x \notin 1..M \/ Body(n)[x].item \in {"ret", "trace"}}
           val == [x \in Nat |-> IF x \notin 1..M THEN "none"
                                 ELSE IF Body(n)[x].item = "ret" THEN Body(n)[x].verdict
                                 ELSE VerdictOf(n, Body(n)[x].label)]
           succ == [x \in Nat |-> Onward(n, call, x)]
           block(l) == CHOOSE b \in ToSet(checks[n].code) : b.label = l
           Says(g, x) ==
             IF x \notin DOMAIN Body(n) THEN "none"
             ELSE LET item == Body(n)[x]
                      place(l) == CHOOSE p \in PlacesOf(Body(n), l) : TRUE
                  IN  CASE item.item = "label" -> g[x + 1]
                        [] item.item = "branch" -> g[place(IF call.arg = item.k THEN item.jt ELSE item.jf)]
                        [] item.item = "ret" -> item.verdict
                        [] item.item = "trace" -> block(item.label).verdict
           Runs(g) == g = [x \in Nat |-> Says(g, x)]
<1>1. /\ M \in Nat /\ DOMAIN Body(n) = 1..M
      /\ \A x \in 1..M : Body(n)[x].item \in {"label", "branch", "ret", "trace"}
  BY CheckKnown DEF Items
<1>2. rank \in [Nat -> 0..(M + 1)]
  <2> SUFFICES ASSUME NEW x \in Nat PROVE (IF x <= M THEN (M + 1) - x ELSE 0) \in 0..(M + 1)
    OBVIOUS
  <2> HIDE DEF M
  <2> QED BY <1>1
<1>3. ASSUME NEW x \in Nat, x \notin ends
      PROVE  succ[x] \in Nat /\ rank[succ[x]] < rank[x]
  <2>1. x \in 1..M /\ Body(n)[x].item \in {"label", "branch"}
    BY <1>1, <1>3
  <2>2. PICK y : y = Onward(n, call, x)
    OBVIOUS
  <2>3. y \in Nat /\ x < y
    BY <2>1, <2>2, OnwardKnown
  <2>4. succ[x] = y /\ rank[x] = (IF x <= M THEN (M + 1) - x ELSE 0) /\ rank[y] = IF y <= M THEN (M + 1) - y ELSE 0
    BY <2>2, <2>3
  <2> HIDE DEF succ, rank, M
  <2>5. rank[y] < rank[x]
    BY <1>1, <2>1, <2>3, <2>4
  <2> QED BY <2>3, <2>4, <2>5
<1>4. \E g : IsRun(g, Nat, ends, val, succ)
  <2>1. PICK K : K = M + 1 /\ K \in Nat
    BY <1>1
  <2>2. rank \in [Nat -> 0..K] /\ \A x \in Nat : x \notin ends => succ[x] \in Nat /\ rank[succ[x]] < rank[x]
    BY <1>2, <1>3, <2>1
  <2> HIDE DEF M, rank, ends, val, succ
  <2> QED BY <2>1, <2>2, RunExists, Zenon
<1>5. ASSUME NEW g, NEW x \in Nat
      PROVE  Says(g, x) = IF x \in ends THEN val[x] ELSE g[succ[x]]
  <2>1. CASE x \notin 1..M
    BY <1>1, <2>1
  <2>2. CASE x \in 1..M
    <3>1. CASE Body(n)[x].item = "label"
      BY <1>1, <2>2, <3>1 DEF Onward
    <3>2. CASE Body(n)[x].item = "branch"
      BY <1>1, <2>2, <3>2 DEF Onward, PlaceOf
    <3>3. CASE Body(n)[x].item = "ret"
      BY <1>1, <2>2, <3>3
    <3>4. CASE Body(n)[x].item = "trace"
      BY <1>1, <2>2, <3>4 DEF VerdictOf
    <3> QED BY <1>1, <2>2, <3>1, <3>2, <3>3, <3>4
  <2> QED BY <2>1, <2>2
<1> HIDE DEF Says, ends, val, succ
<1>6. \E g : Runs(g)
  <2>1. PICK g : g = [x \in Nat |-> IF x \in ends THEN val[x] ELSE g[succ[x]]]
    BY <1>4 DEF IsRun
  <2>2. Runs(g)
    BY <1>5, <2>1
  <2> QED BY <2>2
<1>7. CheckRun(n, call) = CHOOSE g : Runs(g)
  BY DEF CheckRun, Says
<1> DEFINE R == CheckRun(n, call)
<1>8. Runs(R)
  BY <1>6, <1>7
<1>9. R[m] = Says(R, m)
  <2> HIDE DEF R
  <2> QED BY <1>8
<1>10. R[m] = IF m \in ends THEN val[m] ELSE R[succ[m]]
  BY <1>5, <1>9
<1> HIDE DEF R
<1> QED BY <1>1, <1>10 DEF R, ends, val, succ

-----------------------------------------------------------------------------
(* The run of the filter *)

(* The filter is complete, and each call has at most one check.            *)
Complete == Ready /\ Distinct /\ Short /\ final_filters = Resolved(Joined)

(* A label that stands before a return.                                    *)
LEMMA RunsIntoVerdict ==
  ASSUME NEW g \in Seq(Texts), final_filters = Resolved(g), NEW call \in Calls, NEW p \in 1..Len(g),
         NEW A \in Nat, NEW v, IsMark(g[p]), p + 1 \in 1..Len(g), g[p + 1] = Ret(v)
  PROVE  From(g, call, p, A) = Ret(v)
<1>1. GoesOn(g, call, p, A, p + 1, A)
  BY RunsOverLabel
<1>2. g[p + 1].f \in {"ret", "trace"}
  BY DEF Ret
<1>3. From(g, call, p + 1, A) = g[p + 1]
  BY <1>2, RunsIntoReturn
<1> QED BY <1>1, <1>3 DEF GoesOn

(* The header denies foreign calls, and takes the bit of the x32 interface *)
(* from the number before the first check compares it.                     *)
LEMMA HeaderRun ==
  ASSUME Complete, NEW o, NEW e, Layout(o, e), NEW call \in Calls
  PROVE  /\ ~call.arch => FilterDoes(call) = Ret("deny")
         /\ call.arch => FilterDoes(call) = From(Joined, call, CheckPlace(1, o), call.nr)
<1> DEFINE g == Joined
           nr == IF call.x32 THEN call.nr + X32Bit ELSE call.nr
           arch == IF call.arch THEN 1 ELSE 0
<1>1. Ready /\ Distinct /\ Short /\ final_filters = Resolved(g) /\ policy \in Policies
  BY DEF Complete, Ready
<1>2. g \in Seq(Texts) /\ o[1] = 0 /\ \A k \in 1..5 : g[k] = Header[k]
  BY DEF Layout
<1>3. 1 \in 1..Len(checks)
  BY <1>1, ChecksKnown DEF Ready
<1>4. /\ g[1] = Load("arch") /\ g[2] = Jump("arch", 0, Zero, Deny) /\ g[3] = Load("nr")
      /\ g[4] = Jump("jgt", X32Bit - 1, Zero, Name(checks[1].syscall)) /\ g[5] = UnsetX32
  BY <1>1, <1>2, EndsKnown DEF Ready
<1>5. CheckPlace(1, o) = 6 /\ 6 \in 1..Len(g)
  <2>1. CheckPlace(1, o) = 6
    BY <1>2 DEF CheckPlace
  <2> QED BY <1>1, <1>3, <2>1, CheckMark
<1>6. \A k \in 1..5 : k \in 1..Len(g) /\ k < 6
  <2>1. Len(g) \in Nat
    BY <1>2
  <2> QED BY <1>5, <2>1
<1>7. arch \in Nat /\ nr \in Nat /\ call.nr \in Nat /\ X32Bit \in Nat \ {0} /\ call.nr \in 0..(X32Bit - 1)
      /\ Loaded("arch", call) = arch /\ Loaded("nr", call) = nr
  <2>1. call.nr \in 0..(X32Bit - 1)
    <3>1. call.nr \in Numbers
      BY DEF Calls
    <3> QED BY <3>1, AssemblyAssumption
  <2>2. X32Bit \in Nat \ {0}
    BY LoadedType
  <2> QED BY <2>1, <2>2 DEF Loaded
<1> HIDE DEF g, nr, arch
<1>8. FilterDoes(call) = From(g, call, 1, 0)
  <2>1. PC(g, 1) = 0
    BY PCKnown
  <2> QED BY <2>1 DEF FilterDoes, From
<1>9. GoesOn(g, call, 1, 0, 2, arch)
  <2>1. g[1].f \in {"ld", "and"} /\ g[1].f = "ld" /\ g[1].what = "arch" /\ 1 \in 1..Len(g)
    BY <1>4, <1>6 DEF Load
  <2>2. GoesOn(g, call, 1, 0, 1 + 1, IF g[1].f = "ld" THEN Loaded(g[1].what, call) ELSE 0 % X32Bit)
    BY <1>1, <1>2, <2>1, RunsOverLoad
  <2> QED BY <1>7, <2>1, <2>2
<1>10. 2 \in 1..Len(g) /\ 3 \in 1..Len(g) /\ 4 \in 1..Len(g) /\ 5 \in 1..Len(g)
  BY <1>6
<1>11. ~call.arch => GoesOn(g, call, 2, arch, DenyPlace(e), arch)
  <2> SUFFICES ASSUME ~call.arch PROVE GoesOn(g, call, 2, arch, DenyPlace(e), arch)
    OBVIOUS
  <2>1. g[2].f = "jump" /\ Deny = (IF Passes(g[2], arch) THEN g[2].jt ELSE g[2].jf)
    BY <1>4 DEF Jump, Passes, arch
  <2>2. Marks(g, Deny) = {DenyPlace(e)} /\ DenyPlace(e) \in 1..Len(g) /\ 5 + e < DenyPlace(e) /\ e \in Nat /\ Deny # Zero
    BY <1>1, LastMarks DEF g
  <2>3. 2 < DenyPlace(e)
    <3>1. PICK q : q = DenyPlace(e)
      OBVIOUS
    <3>2. q \in Nat /\ 5 + e < q
      BY <2>2, <3>1
    <3> QED BY <2>2, <3>1, <3>2
  <2> QED BY <1>1, <1>2, <1>7, <1>10, <2>1, <2>2, <2>3, RunsOverJump
<1>12. call.arch => GoesOn(g, call, 2, arch, 3, arch)
  <2> SUFFICES ASSUME call.arch PROVE GoesOn(g, call, 2, arch, 3, arch)
    OBVIOUS
  <2>1. g[2].f = "jump" /\ Zero = (IF Passes(g[2], arch) THEN g[2].jt ELSE g[2].jf)
    BY <1>4 DEF Jump, Passes, arch
  <2> QED BY <1>1, <1>2, <1>7, <1>10, <2>1, RunsOverJump
<1>13. GoesOn(g, call, 3, arch, 4, nr)
  <2>1. g[3].f \in {"ld", "and"} /\ g[3].f = "ld" /\ g[3].what = "nr"
    BY <1>4 DEF Load
  <2>2. GoesOn(g, call, 3, arch, 3 + 1, IF g[3].f = "ld" THEN Loaded(g[3].what, call) ELSE arch % X32Bit)
    BY <1>1, <1>2, <1>7, <1>10, <2>1, RunsOverLoad
  <2> QED BY <1>7, <2>1, <2>2
<1>14. call.x32 => GoesOn(g, call, 4, nr, 5, nr) /\ GoesOn(g, call, 5, nr, 6, call.nr)
  <2> SUFFICES ASSUME call.x32 PROVE GoesOn(g, call, 4, nr, 5, nr) /\ GoesOn(g, call, 5, nr, 6, call.nr)
    OBVIOUS
  <2>1. nr = call.nr + X32Bit /\ nr > X32Bit - 1
    BY <1>7 DEF nr
  <2>2. g[4].f = "jump" /\ Zero = (IF Passes(g[4], nr) THEN g[4].jt ELSE g[4].jf)
    BY <1>4, <2>1 DEF Jump, Passes
  <2>3. GoesOn(g, call, 4, nr, 5, nr)
    BY <1>1, <1>2, <1>7, <1>10, <2>2, RunsOverJump
  <2>4. g[5].f \in {"ld", "and"} /\ g[5].f # "ld"
    BY <1>4 DEF UnsetX32
  <2>5. GoesOn(g, call, 5, nr, 5 + 1, IF g[5].f = "ld" THEN Loaded(g[5].what, call) ELSE nr % X32Bit)
    BY <1>1, <1>2, <1>7, <1>10, <2>4, RunsOverLoad
  <2>6. nr % X32Bit = call.nr
    BY <1>7, <2>1
  <2> QED BY <2>3, <2>4, <2>5, <2>6
<1>15. ~call.x32 => GoesOn(g, call, 4, nr, 6, nr) /\ nr = call.nr
  <2> SUFFICES ASSUME ~call.x32 PROVE GoesOn(g, call, 4, nr, 6, nr) /\ nr = call.nr
    OBVIOUS
  <2>1. nr = call.nr /\ ~(nr > X32Bit - 1)
    BY <1>7 DEF nr
  <2> DEFINE l == Name(checks[1].syscall)
  <2>2. g[4].f = "jump" /\ l = (IF Passes(g[4], nr) THEN g[4].jt ELSE g[4].jf)
    BY <1>4, <2>1 DEF Jump, Passes
  <2>3. l # Zero
    BY DEF Name, Zero
  <2> HIDE DEF l
  <2>4. Marks(g, l) = {6}
    BY <1>1, <1>3, <1>5, CheckMark DEF g, l
  <2>5. GoesOn(g, call, 4, nr, 6, nr)
    <3>1. IF l = Zero THEN 6 = 4 + 1 ELSE Marks(g, l) = {6} /\ 4 < 6
      BY <2>3, <2>4
    <3>2. 4 \in 1..Len(g) /\ 6 \in 1..Len(g) /\ nr \in Nat
      BY <1>5, <1>7, <1>10
    <3> QED BY <1>1, <1>2, <2>2, <3>1, <3>2, RunsOverJump, Zenon
  <2> QED BY <2>1, <2>5
<1>16. ~call.arch => FilterDoes(call) = Ret("deny")
  <2> SUFFICES ASSUME ~call.arch PROVE FilterDoes(call) = Ret("deny")
    OBVIOUS
  <2>1. /\ DenyPlace(e) \in 1..Len(g) /\ DenyPlace(e) + 1 \in 1..Len(g)
        /\ IsMark(g[DenyPlace(e)]) /\ g[DenyPlace(e) + 1] = Ret("deny")
    BY <1>1, LastMarks DEF g
  <2>2. From(g, call, DenyPlace(e), arch) = Ret("deny")
    BY <1>1, <1>2, <1>7, <2>1, RunsIntoVerdict
  <2> QED BY <1>8, <1>9, <1>11, <2>2 DEF GoesOn
<1>17. call.arch => FilterDoes(call) = From(g, call, 6, call.nr)
  BY <1>8, <1>9, <1>12, <1>13, <1>14, <1>15 DEF GoesOn
<1> QED BY <1>5, <1>16, <1>17 DEF g

(* The comparison of a check lets its own call in, and hands others on to  *)
(* the next check, at the end to the default.                              *)
LEMMA CheckRuns ==
  ASSUME Complete, NEW o, NEW e, Layout(o, e), NEW call \in Calls, NEW n \in 1..Len(checks)
  PROVE  /\ checks[n].syscall = call.nr =>
              /\ CheckPlace(n, o) + 2 \in 1..Len(Joined)
              /\ GoesOn(Joined, call, CheckPlace(n, o), call.nr, CheckPlace(n, o) + 2, call.nr)
         /\ checks[n].syscall # call.nr =>
              GoesOn(Joined, call, CheckPlace(n, o), call.nr,
                     IF n < Len(checks) THEN CheckPlace(n + 1, o) ELSE DefaultPlace(e), call.nr)
<1> DEFINE g == Joined
           p == CheckPlace(n, o)
           A == call.nr
<1>1. Ready /\ Distinct /\ Short /\ final_filters = Resolved(g) /\ policy \in Policies
  BY DEF Complete, Ready
<1>2. g \in Seq(Texts)
  BY DEF Layout
<1>3. /\ p \in 1..Len(g) /\ IsMark(g[p]) /\ p + 1 \in 1..Len(g) /\ p + 1 <= 5 + e
      /\ g[p + 1] = Jump("jeq", checks[n].syscall, Zero, After(n))
      /\ \A i \in 1..Len(checks) : n < i => p + 1 < CheckPlace(i, o)
  BY <1>1, CheckMark
<1>4. A \in Nat
  <2>1. A \in Numbers
    BY DEF Calls
  <2>2. \A x \in Numbers : x \in Nat
    BY AssemblyAssumption
  <2> QED BY <2>1, <2>2
<1>5. /\ DefaultPlace(e) \in 1..Len(g) /\ Marks(g, Default) = {DefaultPlace(e)} /\ Default # Zero
      /\ 5 + e < DefaultPlace(e) /\ e \in Nat
  BY <1>1, LastMarks
<1> HIDE DEF g, p, A
<1>6. GoesOn(g, call, p, A, p + 1, A)
  <2>1. p \in Nat /\ p # 0
    BY <1>3
  <2> QED BY <1>3, <2>1, RunsOverLabel
<1>7. p \in Nat /\ Len(g) \in Nat /\ DefaultPlace(e) \in Nat
  BY <1>2, <1>3, <1>5
<1>8. CASE checks[n].syscall = A
  <2>1. p + 2 \in 1..Len(g) /\ p + 2 = (p + 1) + 1
    <3>1. PICK d : d = DefaultPlace(e)
      OBVIOUS
    <3>2. d \in 1..Len(g) /\ 5 + e < d /\ d \in Nat
      BY <1>5, <1>7, <3>1
    <3> QED BY <1>3, <1>5, <1>7, <3>2
  <2>2. g[p + 1].f = "jump" /\ Zero = (IF Passes(g[p + 1], A) THEN g[p + 1].jt ELSE g[p + 1].jf)
    BY <1>3, <1>8 DEF Jump, Passes
  <2>3. GoesOn(g, call, p + 1, A, p + 2, A)
    BY <1>1, <1>2, <1>3, <1>4, <2>1, <2>2, RunsOverJump
  <2>4. GoesOn(g, call, p, A, p + 2, A)
    BY <1>6, <2>3 DEF GoesOn
  <2> QED BY <1>8, <2>1, <2>4 DEF g, p, A
<1>9. CASE checks[n].syscall # A
  <2> DEFINE l == After(n)
             q == IF n < Len(checks) THEN CheckPlace(n + 1, o) ELSE DefaultPlace(e)
  <2>1. g[p + 1].f = "jump" /\ l = (IF Passes(g[p + 1], A) THEN g[p + 1].jt ELSE g[p + 1].jf)
    BY <1>3, <1>9 DEF Jump, Passes
  <2>2. l # Zero /\ Marks(g, l) = {q} /\ p + 1 < q /\ q \in 1..Len(g)
    <3>1. CASE n < Len(checks)
      <4>1. n + 1 \in 1..Len(checks) /\ n < n + 1
        BY <1>1, <3>1, ChecksKnown
      <4>2. l = Name(checks[n + 1].syscall) /\ q = CheckPlace(n + 1, o)
        BY <3>1 DEF After
      <4>3. Marks(g, l) = {q} /\ q \in 1..Len(g)
        BY <1>1, <4>1, <4>2, CheckMark DEF g
      <4>4. l # Zero
        BY <4>2 DEF Name, Zero
      <4>5. p + 1 < q
        BY <1>3, <4>1, <4>2
      <4> QED BY <4>3, <4>4, <4>5
    <3>2. CASE ~(n < Len(checks))
      <4>1. l = Default /\ q = DefaultPlace(e)
        BY <3>2 DEF After
      <4> HIDE DEF l, q
      <4>2. p + 1 < q
        <5>1. q \in Nat /\ 5 + e < q
          BY <1>5, <1>7, <4>1
        <5> QED BY <1>3, <1>5, <1>7, <5>1
      <4> QED BY <1>5, <4>1, <4>2
    <3> QED BY <3>1, <3>2
  <2> HIDE DEF l, q
  <2>3. GoesOn(g, call, p + 1, A, q, A)
    BY <1>1, <1>2, <1>3, <1>4, <2>1, <2>2, RunsOverJump
  <2>4. GoesOn(g, call, p, A, q, A)
    BY <1>6, <2>3 DEF GoesOn
  <2> QED BY <1>9, <2>4 DEF g, p, A, q
<1> QED BY <1>8, <1>9 DEF A

(* A call gets past the checks of others.                                  *)
LEMMA ChainRun ==
  ASSUME Complete, NEW o, NEW e, Layout(o, e), NEW call \in Calls, NEW n \in 1..Len(checks),
         \A i \in 1..Len(checks) : i < n => checks[i].syscall # call.nr
  PROVE  GoesOn(Joined, call, CheckPlace(1, o), call.nr, CheckPlace(n, o), call.nr)
<1> DEFINE Reached(i) == GoesOn(Joined, call, CheckPlace(1, o), call.nr, CheckPlace(i, o), call.nr)
           Bad == {i \in 1..n : ~Reached(i)}
<1>1. Len(checks) \in Nat /\ n \in Nat
  BY ChecksKnown DEF Complete, Ready
<1>2. Bad = {}
  <2> SUFFICES ASSUME Bad # {} PROVE FALSE
    OBVIOUS
  <2>1. PICK i \in Bad : \A j \in Bad : i <= j
    <3>1. Bad \subseteq Nat
      OBVIOUS
    <3> HIDE DEF Bad
    <3> QED BY <3>1, Least
  <2>2. i # 1
    <3>1. Reached(1)
      BY DEF GoesOn
    <3> QED BY <2>1, <3>1
  <2>3. i \in 1..n /\ ~Reached(i)
    BY <2>1
  <2>4. i - 1 \in 1..n /\ i - 1 \in 1..Len(checks) /\ i - 1 < n /\ (i - 1) + 1 = i /\ i - 1 < Len(checks)
    BY <1>1, <2>2, <2>3
  <2>5. i - 1 \notin Bad
    BY <2>1, <2>4
  <2> HIDE DEF Bad
  <2>6. Reached(i - 1)
    BY <2>4, <2>5 DEF Bad
  <2>7. GoesOn(Joined, call, CheckPlace(i - 1, o), call.nr, CheckPlace(i, o), call.nr)
    BY <2>4, CheckRuns
  <2> QED BY <2>3, <2>6, <2>7 DEF GoesOn
<1>3. n \in 1..n
  BY <1>1
<1> QED BY <1>2, <1>3

(* What the filter does with a call that has a check, or none.             *)
LEMMA FilterReaches ==
  ASSUME Complete, NEW o, NEW e, Layout(o, e), NEW call \in Calls, call.arch
  PROVE  /\ \A n \in ChecksOf(call.nr) :
              /\ n \in 1..Len(checks) /\ CheckPlace(n, o) + 2 \in 1..Len(Joined)
              /\ FilterDoes(call) = From(Joined, call, CheckPlace(n, o) + 2, call.nr)
         /\ ChecksOf(call.nr) = {} => FilterDoes(call) = Ret(policy.default)
<1>1. /\ Ready /\ Distinct /\ policy \in Policies
      /\ Len(checks) \in Nat /\ DOMAIN checks = 1..Len(checks) /\ Len(checks) # 0
  BY ChecksKnown DEF Complete, Ready
<1>2. FilterDoes(call) = From(Joined, call, CheckPlace(1, o), call.nr)
  BY HeaderRun
<1>3. ASSUME NEW n \in ChecksOf(call.nr)
      PROVE  /\ n \in 1..Len(checks) /\ CheckPlace(n, o) + 2 \in 1..Len(Joined)
             /\ FilterDoes(call) = From(Joined, call, CheckPlace(n, o) + 2, call.nr)
  <2>1. n \in 1..Len(checks) /\ checks[n].syscall = call.nr
    BY <1>1 DEF ChecksOf
  <2>2. \A i \in 1..Len(checks) : i < n => checks[i].syscall # call.nr
    <3> SUFFICES ASSUME NEW i \in 1..Len(checks), i < n, checks[i].syscall = call.nr PROVE FALSE
      OBVIOUS
    <3>1. i = n
      BY <1>1, <2>1, LabelsOfChecks
    <3>2. n \in Nat
      BY <1>1, <2>1
    <3> QED BY <3>1, <3>2
  <2>3. GoesOn(Joined, call, CheckPlace(1, o), call.nr, CheckPlace(n, o), call.nr)
    BY <2>1, <2>2, ChainRun
  <2>4. /\ CheckPlace(n, o) + 2 \in 1..Len(Joined)
        /\ GoesOn(Joined, call, CheckPlace(n, o), call.nr, CheckPlace(n, o) + 2, call.nr)
    BY <2>1, CheckRuns
  <2> QED BY <1>2, <2>1, <2>3, <2>4 DEF GoesOn
<1>4. ASSUME ChecksOf(call.nr) = {} PROVE FilterDoes(call) = Ret(policy.default)
  <2> DEFINE N == Len(checks)
             A == call.nr
  <2>1. \A i \in 1..N : checks[i].syscall # A
    BY <1>1, <1>4 DEF ChecksOf
  <2>2. N \in 1..N /\ ~(N < N)
    BY <1>1
  <2>3. GoesOn(Joined, call, CheckPlace(1, o), A, CheckPlace(N, o), A)
    BY <2>1, <2>2, ChainRun
  <2>4. GoesOn(Joined, call, CheckPlace(N, o), A, DefaultPlace(e), A)
    BY <2>1, <2>2, CheckRuns
  <2>5. A \in Nat
    <3>1. A \in Numbers
      BY DEF Calls
    <3>2. \A x \in Numbers : x \in Nat
      BY AssemblyAssumption
    <3> QED BY <3>1, <3>2
  <2>6. From(Joined, call, DefaultPlace(e), A) = Ret(policy.default)
    <3>1. /\ DefaultPlace(e) \in 1..Len(Joined) /\ DefaultPlace(e) + 1 \in 1..Len(Joined)
          /\ IsMark(Joined[DefaultPlace(e)]) /\ Joined[DefaultPlace(e) + 1] = Ret(policy.default)
      BY <1>1, LastMarks
    <3>2. Joined \in Seq(Texts) /\ final_filters = Resolved(Joined)
      BY DEF Layout, Complete
    <3> HIDE DEF A
    <3> QED BY <2>5, <3>1, <3>2, RunsIntoVerdict
  <2> QED BY <1>2, <2>3, <2>4, <2>6 DEF GoesOn
<1> QED BY <1>3, <1>4

-----------------------------------------------------------------------------
(* The run through a check *)

(* The lines of item m of check n.                                         *)
LEMMA ItemLines ==
  ASSUME Ready, NEW o, NEW e, Layout(o, e), NEW n \in 1..Len(checks), NEW first, NEW r,
         BodyLayout(n, first, r), NEW m \in 1..Len(Body(n))
  PROVE  LET p == ItemPlace(n, m, o, r)
             G == Generated(first, n, m)
         IN  /\ p \in Nat /\ p # 0 /\ Len(G) \in Nat
             /\ 1 \in 1..Len(G) => p \in 1..Len(Joined) /\ Joined[p] = G[1]
             /\ 2 \in 1..Len(G) => p + 1 \in 1..Len(Joined) /\ Joined[p + 1] = G[2]
             /\ ItemPlace(n, m + 1, o, r) = p + Len(G)
             /\ \A i \in 1..Len(Body(n)) : m < i => p + Len(G) <= ItemPlace(n, i, o, r)
<1> DEFINE p == ItemPlace(n, m, o, r)
           G == Generated(first, n, m)
<1>1. /\ e \in Nat /\ o[n] \in Nat /\ o[n] + Len(JoinCheck(n)) <= e
      /\ \A k \in 1..Len(JoinCheck(n)) : Joined[5 + o[n] + k] = JoinCheck(n)[k]
      /\ Joined \in Seq(Texts) /\ Len(Joined) = 5 + e + Len(Trailer)
  BY DEF Layout
<1>2. /\ Len(JoinCheck(n)) = 2 + Len(bpf_filters[n]) /\ Len(bpf_filters[n]) \in Nat
      /\ \A k \in 1..Len(bpf_filters[n]) : JoinCheck(n)[2 + k] = bpf_filters[n][k]
  BY JoinCheckKnown
<1>3. Trailer \in Seq(Texts)
  BY EndsKnown DEF Ready
<1>4. Len(Trailer) \in Nat /\ Len(Joined) \in Nat /\ Len(JoinCheck(n)) \in Nat
  BY <1>1, <1>2, <1>3
<1>5. /\ r[m] \in Nat /\ r[m + 1] = r[m] + Len(G)
      /\ \A k \in 1..Len(G) : r[m] + k \in 1..Len(bpf_filters[n]) /\ bpf_filters[n][r[m] + k] = G[k]
      /\ \A i \in 1..Len(Body(n)) : m < i => r[m] + Len(G) <= r[i] /\ r[i] \in Nat
  BY DEF BodyLayout
<1>6. Len(G) \in Nat
  <2>1. G \in Seq(Instructions)
    BY GeneratedKnown DEF BodyLayout, Ready
  <2> QED BY <2>1
<1>7. ASSUME NEW k \in 1..Len(G)
      PROVE  /\ 5 + o[n] + (2 + (r[m] + k)) \in 1..Len(Joined)
             /\ Joined[5 + o[n] + (2 + (r[m] + k))] = G[k]
  <2>1. r[m] + k \in 1..Len(bpf_filters[n]) /\ bpf_filters[n][r[m] + k] = G[k]
    BY <1>5
  <2>2. 2 + (r[m] + k) \in 1..Len(JoinCheck(n)) /\ JoinCheck(n)[2 + (r[m] + k)] = G[k]
    <3>1. \A x, l, L \in Nat : x \in 1..l /\ L = 2 + l => 2 + x \in 1..L
      OBVIOUS
    <3>2. r[m] + k \in Nat
      BY <2>1
    <3>3. 2 + (r[m] + k) \in 1..Len(JoinCheck(n))
      BY <1>2, <1>4, <2>1, <3>1, <3>2, Zenon
    <3> QED BY <1>2, <2>1, <3>3
  <2>3. Joined[5 + o[n] + (2 + (r[m] + k))] = G[k]
    BY <1>1, <2>2
  <2>4. \A a, b, l, t, x, N \in Nat : b \in 1..l /\ a + l <= x /\ N = 5 + x + t => 5 + a + b \in 1..N
    OBVIOUS
  <2>5. 2 + (r[m] + k) \in Nat
    BY <2>2
  <2>6. 5 + o[n] + (2 + (r[m] + k)) \in 1..Len(Joined)
    BY <1>1, <1>4, <2>2, <2>4, <2>5, Zenon
  <2> QED BY <2>3, <2>6
<1>8. \A i : ItemPlace(n, i, o, r) = ((5 + o[n]) + 2) + (r[i] + 1)
  BY DEF ItemPlace
<1>9. PICK a, b, k : a = o[n] /\ b = r[m] /\ k = Len(G)
  OBVIOUS
<1>10. /\ p = 5 + o[n] + (2 + (r[m] + 1)) /\ p + 1 = 5 + o[n] + (2 + (r[m] + 2)) /\ p \in Nat /\ p # 0
       /\ p = a + b + 8
  <2>1. a \in Nat /\ b \in Nat /\ p = ((5 + a) + 2) + (b + 1)
    BY <1>1, <1>5, <1>8, <1>9
  <2>2. \A x \in Nat, y \in Nat :
          /\ ((5 + x) + 2) + (y + 1) = 5 + x + (2 + (y + 1))
          /\ (((5 + x) + 2) + (y + 1)) + 1 = 5 + x + (2 + (y + 2))
          /\ ((5 + x) + 2) + (y + 1) = x + y + 8 /\ x + y + 8 \in Nat /\ x + y + 8 # 0
    OBVIOUS
  <2> HIDE DEF p
  <2>3. /\ p = 5 + a + (2 + (b + 1)) /\ p + 1 = 5 + a + (2 + (b + 2)) /\ p \in Nat /\ p # 0
        /\ p = a + b + 8
    BY <2>1, <2>2
  <2> QED BY <1>9, <2>3, Zenon
<1>11. ItemPlace(n, m + 1, o, r) = p + Len(G)
  <2>1. ItemPlace(n, m + 1, o, r) = ((5 + a) + 2) + ((b + k) + 1)
    BY <1>5, <1>8, <1>9, Zenon
  <2>2. a \in Nat /\ b \in Nat /\ k \in Nat
    BY <1>1, <1>5, <1>6, <1>9
  <2>3. ((5 + a) + 2) + ((b + k) + 1) = (a + b + 8) + k
    BY <2>2
  <2> QED BY <1>9, <1>10, <2>1, <2>3, Zenon
<1>12. ASSUME NEW i \in 1..Len(Body(n)), m < i PROVE p + Len(G) <= ItemPlace(n, i, o, r)
  <2>1. PICK c : c = r[i]
    OBVIOUS
  <2>2. c \in Nat /\ b + k <= c /\ a \in Nat /\ b \in Nat /\ k \in Nat
    BY <1>1, <1>5, <1>6, <1>9, <1>12, <2>1
  <2>3. ItemPlace(n, i, o, r) = ((5 + a) + 2) + (c + 1)
    BY <1>8, <1>9, <2>1, Zenon
  <2>4. (a + b + 8) + k <= ((5 + a) + 2) + (c + 1)
    BY <2>2
  <2> HIDE DEF p, G
  <2> QED BY <1>9, <1>10, <2>3, <2>4
<1> HIDE DEF p
<1> QED BY <1>6, <1>7, <1>10, <1>11, <1>12 DEF p

(* What the filter answers at item m of check n, where the check gives a   *)
(* verdict: this, or a datum for a hand-over to a block with this verdict. *)
Answers(n, call, first, m, f) ==
  \/ f = Ret(CheckRun(n, call)[m])
  \/ \E t \in Handovers(n) : /\ f = Trace(first + Cardinality(Traces(n, t)))
                             /\ CheckRun(n, call)[m] = VerdictOf(n, Body(n)[t].label)

(* From any item on the filter answers what the check says from it on: by  *)
(* the last item of which this is not so.                                  *)
LEMMA BodyRun ==
  ASSUME Complete, NEW o, NEW e, Layout(o, e), NEW n \in 1..Len(checks), NEW first, NEW r,
         BodyLayout(n, first, r), NEW call \in Calls, NEW start \in 1..Len(Body(n)),
         CheckRun(n, call)[start] # "none", NEW B \in Nat
  PROVE  Answers(n, call, first, start, From(Joined, call, ItemPlace(n, start, o, r), B))
<1> DEFINE g == Joined
           M == Len(Body(n))
           R == CheckRun(n, call)
           place(m) == ItemPlace(n, m, o, r)
           Good(m) == R[m] # "none" => \A A \in Nat : Answers(n, call, first, m, From(g, call, place(m), A))
           Bad == {x \in Nat : \E m \in 1..M : x = M - m /\ ~Good(m)}
<1>1. /\ Ready /\ Distinct /\ Short /\ final_filters = Resolved(g) /\ policy \in Policies
      /\ g \in Seq(Texts) /\ M \in Nat
  BY CheckKnown DEF Complete, Ready, Layout
<1>2. ASSUME NEW m \in 1..M, \A i \in 1..M : m < i => Good(i), R[m] # "none", NEW A \in Nat
      PROVE  Answers(n, call, first, m, From(g, call, place(m), A))
  <2> DEFINE item == Body(n)[m]
             G == Generated(first, n, m)
             p == place(m)
  <2>1. /\ p \in Nat /\ p # 0 /\ Len(G) \in Nat
        /\ 1 \in 1..Len(G) => p \in 1..Len(g) /\ g[p] = G[1]
        /\ 2 \in 1..Len(G) => p + 1 \in 1..Len(g) /\ g[p + 1] = G[2]
        /\ place(m + 1) = p + Len(G)
        /\ \A i \in 1..M : m < i => p + Len(G) <= place(i)
    BY <1>1, ItemLines
  <2>2. /\ item.item \in {"label", "branch", "ret", "trace"}
        /\ item.item = "label" => Len(G) = 1 /\ G[1] = Mark(Local(n, item.label)) /\ item.label \in Nat
        /\ item.item = "branch" =>
             /\ Len(G) = 2 /\ G[1] = Load("arg")
             /\ G[2] = Jump("jeq", item.k, Local(n, item.jt), Local(n, item.jf))
        /\ item.item = "ret" => Len(G) = 1 /\ G[1] = Ret(item.verdict) /\ item.verdict \in Verdicts
        /\ item.item = "trace" => Len(G) = 1 /\ G[1] = Trace(first + Cardinality(Traces(n, m)))
    BY <1>1, GeneratedIs
  <2>9. /\ item.item # "branch" => 1 \in 1..Len(G)
        /\ item.item = "branch" => 1 \in 1..Len(G) /\ 2 \in 1..Len(G)
    <3>1. 1 \in 1..1 /\ 1 \in 1..2 /\ 2 \in 1..2
      OBVIOUS
    <3> HIDE DEF item, G
    <3> QED BY <2>2, <3>1, Zenon
  <2>3. R[m] = IF item.item = "ret" THEN item.verdict
               ELSE IF item.item = "trace" THEN VerdictOf(n, item.label)
               ELSE R[Onward(n, call, m)]
    <3>1. m \in Nat
      OBVIOUS
    <3> QED BY <1>1, <3>1, CheckRunIs
  <2>4. CASE item.item = "ret"
    <3>1. p \in 1..Len(g) /\ g[p] = Ret(item.verdict) /\ R[m] = item.verdict
      <4>1. 1 \in 1..Len(G)
        BY <2>2, <2>9, <2>4
      <4> QED BY <2>1, <2>2, <2>3, <2>4, <4>1
    <3>2. g[p].f \in {"ret", "trace"}
      BY <3>1 DEF Ret
    <3> HIDE DEF g, p, R
    <3>3. From(g, call, p, A) = Ret(R[m])
      BY <1>1, <1>2, <3>1, <3>2, RunsIntoReturn
    <3> QED BY <3>3 DEF Answers, R, p
  <2>5. CASE item.item = "trace"
    <3>1. p \in 1..Len(g) /\ g[p] = Trace(first + Cardinality(Traces(n, m))) /\ R[m] = VerdictOf(n, item.label)
      <4>1. 1 \in 1..Len(G)
        BY <2>2, <2>9, <2>5
      <4> QED BY <2>1, <2>2, <2>3, <2>5, <4>1
    <3>2. g[p].f \in {"ret", "trace"}
      BY <3>1 DEF Trace
    <3>3. m \in Handovers(n)
      BY <1>1, <2>5 DEF Handovers, Traces
    <3> HIDE DEF g, p, R
    <3>4. From(g, call, p, A) = Trace(first + Cardinality(Traces(n, m)))
      BY <1>1, <1>2, <3>1, <3>2, RunsIntoReturn
    <3> QED BY <3>1, <3>3, <3>4 DEF Answers, R, p
  <2>6. ASSUME NEW y \in 1..M, m < y, R[m] = R[y], NEW C \in Nat, GoesOn(g, call, p, A, place(y), C)
        PROVE  Answers(n, call, first, m, From(g, call, p, A))
    <3>1. Good(y) /\ R[y] # "none"
      BY <1>2, <2>6
    <3>2. Answers(n, call, first, y, From(g, call, place(y), C))
      BY <2>6, <3>1
    <3>3. From(g, call, p, A) = From(g, call, place(y), C)
      BY <2>6 DEF GoesOn
    <3> HIDE DEF g, p, place
    <3> QED BY <2>6, <3>2, <3>3 DEF Answers, R
  <2>7. CASE item.item = "label"
    <3>1. Onward(n, call, m) = m + 1 /\ R[m] = R[m + 1]
      BY <2>3, <2>7 DEF Onward
    <3>2. m + 1 \in 1..M
      <4>1. m + 1 \in Nat
        OBVIOUS
      <4>2. m + 1 \notin 1..M => R[m + 1] = "none"
        BY <1>1, <4>1, CheckRunIs
      <4> QED BY <1>2, <3>1, <4>2
    <3>3. IsMark(g[p]) /\ place(m + 1) = p + 1
      <4>1. 1 \in 1..Len(G) /\ Len(G) = 1
        BY <2>2, <2>9, <2>7
      <4> QED BY <2>1, <2>2, <2>7, <4>1 DEF IsMark, Mark
    <3>4. GoesOn(g, call, p, A, p + 1, A)
      BY <2>1, <3>3, RunsOverLabel
    <3>5. GoesOn(g, call, p, A, place(m + 1), A)
      BY <3>3, <3>4
    <3>6. m < m + 1
      OBVIOUS
    <3> HIDE DEF g, p, R, place, M, item
    <3> QED BY <1>2, <2>6, <3>1, <3>2, <3>5, <3>6, Zenon DEF p
  <2>8. CASE item.item = "branch"
    <3> DEFINE y == Onward(n, call, m)
               l == IF call.arg = item.k THEN item.jt ELSE item.jf
               a == call.arg
    <3>1. y \in Nat /\ m < y /\ l \in Nat /\ y \in 1..M /\ PlacesOf(Body(n), l) = {y}
      BY <1>1, <2>8, OnwardKnown
    <3>2. R[m] = R[y]
      BY <2>3, <2>8
    <3>3. /\ p \in 1..Len(g) /\ g[p] = Load("arg")
          /\ p + 1 \in 1..Len(g) /\ g[p + 1] = Jump("jeq", item.k, Local(n, item.jt), Local(n, item.jf))
          /\ Len(G) = 2
      <4>1. 1 \in 1..Len(G) /\ 2 \in 1..Len(G)
        BY <2>2, <2>9, <2>8
      <4> QED BY <2>1, <2>2, <2>8, <4>1
    <3>4. a \in Nat /\ Loaded("arg", call) = a
      <4>1. Loaded("arg", call) = a
        BY DEF Loaded
      <4> QED BY <4>1, LoadedType
    <3>5. /\ Marks(g, Local(n, l)) = {place(y)} /\ place(y) \in 1..Len(g) /\ Local(n, l) # Zero
      <4>1. \A x \in Nat : PlacesOf(Body(n), x) = {y} =>
              /\ Marks(Joined, Local(n, x)) = {ItemPlace(n, y, o, r)} /\ ItemPlace(n, y, o, r) \in 1..Len(Joined)
              /\ Local(n, x) # Zero
        BY <1>1, <3>1, LocalMark
      <4> QED BY <3>1, <4>1
    <3>6. p + 2 <= place(y)
      BY <2>1, <3>1, <3>3
    <3>7. g[p + 1].f = "jump" /\ Local(n, l) = (IF Passes(g[p + 1], a) THEN g[p + 1].jt ELSE g[p + 1].jf)
      BY <3>3 DEF Jump, Passes
    <3> HIDE DEF g, p, R, place, M, item, y, l, a, G
    <3>8. GoesOn(g, call, p, A, p + 1, a)
      <4>1. g[p].f \in {"ld", "and"} /\ g[p].f = "ld" /\ g[p].what = "arg"
        BY <3>3 DEF Load
      <4>2. GoesOn(g, call, p, A, p + 1, IF g[p].f = "ld" THEN Loaded(g[p].what, call) ELSE A % X32Bit)
        BY <1>1, <1>2, <3>3, <4>1, RunsOverLoad
      <4> QED BY <3>4, <4>1, <4>2
    <3>9. p + 1 < place(y)
      <4>1. place(y) \in Nat
        BY <3>5
      <4> QED BY <2>1, <3>6, <4>1
    <3>10. GoesOn(g, call, p + 1, a, place(y), a)
      BY <1>1, <3>3, <3>4, <3>5, <3>7, <3>9, RunsOverJump
    <3>11. GoesOn(g, call, p, A, place(y), a)
      BY <3>8, <3>10 DEF GoesOn
    <3> QED BY <1>2, <2>6, <3>1, <3>2, <3>4, <3>11, Zenon DEF p
  <2> QED BY <2>2, <2>4, <2>5, <2>7, <2>8
<1>3. Bad = {}
  <2> SUFFICES ASSUME Bad # {} PROVE FALSE
    OBVIOUS
  <2>1. PICK x \in Bad : \A z \in Bad : x <= z
    <3>1. Bad \subseteq Nat
      OBVIOUS
    <3> HIDE DEF Bad
    <3> QED BY <3>1, Least
  <2>2. PICK m \in 1..M : x = M - m /\ ~Good(m)
    BY <2>1
  <2> HIDE DEF Good
  <2>3. ASSUME NEW i \in 1..M, m < i PROVE Good(i)
    <3>1. M - i \in Nat /\ ~(x <= M - i)
      <4>1. PICK c : c = M
        OBVIOUS
      <4>2. c \in Nat /\ m \in 1..c /\ i \in 1..c /\ x = c - m
        BY <1>1, <2>2, <4>1
      <4>3. c - i \in Nat /\ ~(x <= c - i)
        BY <2>3, <4>2
      <4> QED BY <4>1, <4>3
    <3>2. M - i \notin Bad
      BY <2>1, <3>1
    <3> QED BY <3>1, <3>2
  <2> QED BY <1>2, <2>2, <2>3 DEF Good
<1>4. Good(start)
  <2>1. M - start \in Nat
    BY <1>1
  <2> HIDE DEF Good, M
  <2>2. M - start \notin Bad
    BY <1>3
  <2> QED BY <2>1, <2>2 DEF M
<1> HIDE DEF g, R
<1> QED BY <1>4 DEF R, g

-----------------------------------------------------------------------------
(* The answer of the tracer *)

(* A datum leads to its block, and there the next line is its verdict.     *)
LEMMA TracerAnswers ==
  ASSUME IInv, stage = "done", Distinct, NEW n \in 1..Len(checks), NEW t \in Handovers(n), NEW d, LeadsTo(d, n, t),
         VerdictOf(n, Body(n)[t].label) # "none"
  PROVE  TracerDoes(d) = VerdictOf(n, Body(n)[t].label)
<1> DEFINE v == VerdictOf(n, Body(n)[t].label)
           ends == {q \in DOMAIN tracer : tracer[q].t # "label"}
           from == {q \in ends : \E m \in Lines(jmp_table[d + 1]) : m < q}
           end == CHOOSE q \in from : \A m \in from : q <= m
<1>1. policy \in Policies
  BY DEF IInv, TypeInv
<1>2. t \in 1..Len(Body(n)) /\ Body(n)[t].item = "trace" /\ HasPtrace
  <2>1. t \in DOMAIN Body(n) /\ Body(n)[t].item = "trace" /\ HasPtrace
    BY <1>1, HandoverKnown
  <2>2. DOMAIN Body(n) = 1..Len(Body(n))
    BY <1>1, CheckKnown
  <2> QED BY <2>1, <2>2
<1>3. /\ jmp_table = ret_data_to_label
      /\ tracer = FlattenSeq([i \in DOMAIN checks |-> Section(i)])
  BY <1>2 DEF IInv, TableInv
<1>4. d + 1 \in DOMAIN jmp_table /\ jmp_table[d + 1] = BlockLabel(n, Body(n)[t].label)
  <2>1. DOMAIN ret_data_to_label = 1..Len(ret_data_to_label)
    BY DEF IInv, TypeInv
  <2> QED BY <1>3, <2>1 DEF LeadsTo
<1>5. PICK b \in 1..Len(checks[n].code) : checks[n].code[b].label = Body(n)[t].label /\ v = checks[n].code[b].verdict
  BY <1>1, <1>2, VerdictKnown
<1>6. InPlace(tracer, n, b)
  BY <1>1, <1>3, TracerKnown
<1>7. v # "none"
  OBVIOUS
<1> HIDE DEF v
<1>8. PICK p \in 1..Len(tracer) :
        /\ \A q \in 1..Len(tracer) : tracer[q] = At(BlockLabel(n, checks[n].code[b].label)) <=> q = p
        /\ p + 1 \in 1..Len(tracer) /\ tracer[p + 1] = Ends(v)
  BY <1>5, <1>6, <1>7, Zenon DEF InPlace
<1>9. DOMAIN tracer = 1..Len(tracer) /\ Len(tracer) \in Nat
  BY <1>6 DEF InPlace
<1>10. Lines(jmp_table[d + 1]) = {p}
  BY <1>4, <1>5, <1>8, <1>9 DEF Lines
<1>11. tracer[p + 1].t = "verdict" /\ tracer[p + 1].verdict = v /\ tracer[p + 1] # Dispatch
  BY <1>8 DEF Ends, Dispatch
<1>12. from = {q \in ends : p < q}
  BY <1>10
<1>13. p + 1 \in from /\ \A m \in from : p + 1 <= m
  BY <1>8, <1>9, <1>11, <1>12
<1>14. from \subseteq Nat
  BY <1>9
<1>15. end = p + 1
  <2> HIDE DEF from
  <2>1. end \in from /\ \A m \in from : end <= m
    BY <1>13
  <2> HIDE DEF end
  <2>2. end <= p + 1 /\ p + 1 <= end /\ end \in Nat /\ p + 1 \in Nat
    BY <1>13, <1>14, <2>1
  <2> QED BY <2>2
<1>16. TracerDoes(d) = IF from = {} THEN "stale" ELSE IF tracer[end] = Dispatch THEN "loops" ELSE tracer[end].verdict
  BY <1>4 DEF TracerDoes
<1> HIDE DEF from, end
<1>17. TracerDoes(d) = v
  BY <1>11, <1>13, <1>15, <1>16
<1> QED BY <1>17 DEF v

-----------------------------------------------------------------------------
(* The stages of the filter *)

(* The filter is joined from the instructions of all checks, and resolved  *)
(* once.                                                                   *)
FinalInv ==
  /\ stage = "BPFTransformLabels" =>
       checks # <<>> /\ Len(bpf_filters) = Len(checks) /\ final_filters = Joined
  /\ stage \in {"PtraceCodeGen", "done"} =>
       Len(bpf_filters) = Len(checks) /\ (checks # <<>> => final_filters = Resolved(Joined))

(* The text of the filter is that of the policy and its compiled checks.   *)
LEMMA SameText ==
  ASSUME UNCHANGED <<policy, bpf_filters>>
  PROVE  checks' = checks /\ Joined' = Joined /\ Resolved(Joined)' = Resolved(Joined)
<1>1. checks' = checks /\ Default' = Default
  BY SameChecks DEF Default
<1>2. Header' = Header /\ Trailer' = Trailer
  BY <1>1 DEF Header, Trailer
<1>3. \A n : JoinCheck(n)' = JoinCheck(n)
  BY <1>1 DEF JoinCheck
<1>4. Joined' = Joined
  BY <1>1, <1>2, <1>3 DEF Joined
<1>5. Resolved(Joined)' = Resolved(Joined)
  BY <1>4 DEF Resolved
<1> QED BY <1>1, <1>4, <1>5

(* No step but its own changes the filter.                                 *)
LEMMA FinalStep ==
  ASSUME FinalInv, [Next]_vars
  PROVE  FinalInv'
<1>1. CASE CodeGenCheck
  BY <1>1 DEF CodeGenCheck, FinalInv
<1>2. CASE JoinFilters
  <2>1. /\ UNCHANGED <<policy, bpf_filters>> /\ Len(bpf_filters) = Len(checks)
        /\ IF checks = <<>> THEN stage' = "PtraceCodeGen"
           ELSE final_filters' = Joined /\ stage' = "BPFTransformLabels"
    BY <1>2 DEF JoinFilters
  <2>2. checks' = checks /\ Joined' = Joined
    BY <2>1, SameText
  <2> QED BY <2>1, <2>2 DEF FinalInv
<1>3. CASE BPFTransformLabels
  <2>1. /\ UNCHANGED <<policy, bpf_filters>> /\ stage = "BPFTransformLabels" /\ stage' = "PtraceCodeGen"
        /\ final_filters' = Resolved(final_filters)
    BY <1>3 DEF BPFTransformLabels
  <2>2. checks' = checks /\ Resolved(Joined)' = Resolved(Joined)
    BY <2>1, SameText
  <2>3. Len(bpf_filters) = Len(checks) /\ final_filters = Joined
    BY <2>1 DEF FinalInv
  <2> QED BY <2>1, <2>2, <2>3 DEF FinalInv
<1>4. CASE PtraceCodeGen \/ UNCHANGED vars
  <2>1. /\ UNCHANGED <<policy, bpf_filters, final_filters>>
        /\ stage' = stage \/ (stage = "PtraceCodeGen" /\ stage' = "done")
    BY <1>4 DEF PtraceCodeGen, vars
  <2>2. checks' = checks /\ Joined' = Joined /\ Resolved(Joined)' = Resolved(Joined)
    BY <2>1, SameText
  <2> QED BY <2>1, <2>2 DEF FinalInv
<1> QED BY <1>1, <1>2, <1>3, <1>4 DEF Next

-----------------------------------------------------------------------------
(* Theorem *)

(* However many checks there are and whatever they are, as long as no      *)
(* call has two and the filter is shorter than an offset can say: filter   *)
(* and tracer decide a call as its check does, where that gives a          *)
(* verdict, or as the default if it has none, and deny calls of a foreign  *)
(* architecture.                                                           *)
THEOREM CallsDecidedByTheirCheckCorrect == Spec => []CallsDecidedByTheirCheck
<1>1. Init => FinalInv
  BY DEF Init, FinalInv
<1>2. ASSUME IInv, FinalInv PROVE CallsDecidedByTheirCheck
  <2> SUFFICES ASSUME stage = "done", checks # <<>>, Distinct, Short, NEW call \in Calls
      PROVE  IF ~call.arch THEN Outcome(call) = "deny"
             ELSE IF ChecksOf(call.nr) = {} THEN Outcome(call) = policy.default
             ELSE \A n \in ChecksOf(call.nr) :
                    CheckVerdict(n, call) # "none" => Outcome(call) = CheckVerdict(n, call)
    BY DEF CallsDecidedByTheirCheck
  <2>1. Complete
    <3>1. policy \in Policies /\ TypeInv /\ FiltersInv
      BY <1>2 DEF IInv, TypeInv
    <3>2. Len(checks) # 0
      <4>1. checks \in Seq(CompiledChecks)
        BY <3>1, ChecksKnown
      <4> QED BY <4>1, EmptySeq
    <3>3. Len(bpf_filters) = Len(checks) /\ final_filters = Resolved(Joined)
      BY <1>2 DEF FinalInv
    <3> QED BY <3>1, <3>2, <3>3 DEF Complete, Ready
  <2>2. Ready /\ policy \in Policies
    BY <2>1 DEF Complete, Ready
  <2>3. PICK o, e : Layout(o, e)
    BY <2>2, LayoutExists
  <2>4. \A v : Ret(v).f = "ret" /\ Ret(v).verdict = v
    BY DEF Ret
  <2>5. CASE ~call.arch
    <3>1. FilterDoes(call) = Ret("deny")
      BY <2>1, <2>3, <2>5, HeaderRun
    <3> QED BY <2>4, <2>5, <3>1 DEF Outcome
  <2>6. CASE call.arch /\ ChecksOf(call.nr) = {}
    <3>1. FilterDoes(call) = Ret(policy.default)
      BY <2>1, <2>3, <2>6, FilterReaches
    <3> QED BY <2>4, <2>6, <3>1 DEF Outcome
  <2>7. ASSUME call.arch, NEW n \in ChecksOf(call.nr), CheckVerdict(n, call) # "none"
        PROVE  Outcome(call) = CheckVerdict(n, call)
    <3>1. n \in 1..Len(checks) /\ FilterDoes(call) = From(Joined, call, CheckPlace(n, o) + 2, call.nr)
      BY <2>1, <2>3, <2>7, FilterReaches
    <3>2. PICK first, r : BodyLayout(n, first, r)
      BY <2>2, <3>1, BodyLayoutExists
    <3>3. CheckPlace(n, o) + 2 = ItemPlace(n, 1, o, r)
      <4>1. r[1] = 0 /\ o[n] \in Nat
        BY <2>3, <3>1, <3>2 DEF BodyLayout, Layout
      <4> QED BY <4>1 DEF CheckPlace, ItemPlace
    <3>4. CheckVerdict(n, call) = CheckRun(n, call)[1]
      BY DEF CheckVerdict
    <3>5. 1 \in 1..Len(Body(n))
      <4>1. 1 \in Nat
        OBVIOUS
      <4>2. 1 \notin 1..Len(Body(n)) => CheckRun(n, call)[1] = "none"
        BY <2>2, <3>1, <4>1, CheckRunIs
      <4> QED BY <2>7, <3>4, <4>2
    <3>6. call.nr \in Nat
      <4>1. call.nr \in Numbers
        BY DEF Calls
      <4>2. \A x \in Numbers : x \in Nat
        BY AssemblyAssumption
      <4> QED BY <4>1, <4>2
    <3>7. Answers(n, call, first, 1, FilterDoes(call))
      BY <2>1, <2>3, <2>7, <3>1, <3>2, <3>3, <3>4, <3>5, <3>6, BodyRun
    <3>8. CASE FilterDoes(call) = Ret(CheckRun(n, call)[1])
      BY <2>4, <3>4, <3>8 DEF Outcome
    <3>9. CASE \E t \in Handovers(n) : /\ FilterDoes(call) = Trace(first + Cardinality(Traces(n, t)))
                                       /\ CheckRun(n, call)[1] = VerdictOf(n, Body(n)[t].label)
      <4>1. PICK t \in Handovers(n) : /\ FilterDoes(call) = Trace(first + Cardinality(Traces(n, t)))
                                      /\ CheckRun(n, call)[1] = VerdictOf(n, Body(n)[t].label)
        BY <3>9
      <4>2. PICK d : d = first + Cardinality(Traces(n, t))
        OBVIOUS
      <4>3. LeadsTo(d, n, t)
        BY <3>2, <4>2 DEF BodyLayout, NumberedFrom
      <4>4. TracerDoes(d) = VerdictOf(n, Body(n)[t].label)
        BY <1>2, <2>7, <3>1, <3>4, <4>1, <4>3, TracerAnswers
      <4>5. FilterDoes(call).f = "trace" /\ FilterDoes(call).data = d
        BY <4>1, <4>2 DEF Trace
      <4> QED BY <3>4, <4>1, <4>4, <4>5 DEF Outcome
    <3> QED BY <3>7, <3>8, <3>9 DEF Answers
  <2> QED BY <2>5, <2>6, <2>7
<1> QED BY InductiveInvariant, <1>1, <1>2, FinalStep, PTL DEF Spec
=============================================================================
